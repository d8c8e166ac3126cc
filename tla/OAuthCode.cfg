SPECIFICATION FairSpec
CONSTANTS
    app = app
    web = web
    other = other
    alice = alice
    bob = bob
    home = home
    tenant1 = tenant1
    tenant2 = tenant2
    openid = openid
    Client = {app, web, other}
    Identity = {alice, bob}
    Code = {c1, c2}
    SessionId = {s1, s2}
    Request = {r1, r2}
    Uri = {home, away}
    Scope = {openid}
    Verifier = {v1, v2}
    None = None
    OpenID = openid
    TenantOf <- MCTenantOf
    RedirectURIs <- MCRedirectURIs
    Scopes <- MCScopes
    CodeClients = {app, web, other}
    Confidential = {web}
    CodeTTL = 1
    Faults = TRUE
INVARIANTS
    IInv
    TokensMatchGrant
PROPERTIES
    RefinesOneShot
    AcceptedExchangeDelivers
