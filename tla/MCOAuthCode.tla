---------------------------- MODULE MCOAuthCode ----------------------------
(* OAuthCode for TLC: two tenants, a client with and one without a secret  *)
(* in the first and a public client in the second.                         *)
EXTENDS OAuthCode, TLC

CONSTANTS app, web, other, alice, bob, home, tenant1, tenant2, openid

MCTenantOf == [x \in {app, web, alice} |-> tenant1] @@ [x \in {other, bob} |-> tenant2]
MCRedirectURIs == [cl \in Client |-> IF cl = web THEN Uri ELSE {home}]
MCScopes == [cl \in Client |-> IF cl = app THEN {openid} ELSE {}]

=============================================================================
