------------------------------ MODULE Accounts ------------------------------
(***************************************************************************)
(* What registering and adding users promise: an account appears in one    *)
(* step, whole, or not at all.  An owner gets a tenant under a slug nobody *)
(* has and every permission there is, the missing ones being created in    *)
(* that step; a user is added to a tenant that exists.  Nothing that has   *)
(* appeared changes, and nothing else ever appears.                        *)
(*                                                                         *)
(* Registration implements it with concurrent transactions of many calls.  *)
(***************************************************************************)
CONSTANTS Account, Email, Slug, Perm,
          None              \* a key that is free

VARIABLES row,              \* row[k]: the account that brought the email, slug or
                            \* permission k
          account           \* account[a], for good once it is there

vars == <<row, account>>

NoAccount == [email |-> None, tenant |-> None, tables |-> {},
              grants |-> [p \in Perm |-> None]]

Init == /\ row = [k \in Email \cup Slug \cup Perm |-> None]
        /\ account = [a \in Account |-> NoAccount]

\* A new tenant and its owner.
Register(a, e, s) ==
    /\ account[a] = NoAccount
    /\ row[e] = None /\ row[s] = None
    /\ row' = [k \in Email \cup Slug \cup Perm |->
                 IF k = e \/ k = s \/ (k \in Perm /\ row[k] = None) THEN a ELSE row[k]]
    /\ account' = [account EXCEPT ![a] =
                     [email |-> e, tenant |-> s,
                      tables |-> {"credentials", "users", "roles", "user_roles"},
                      grants |-> [p \in Perm |-> row'[p]]]]

\* A user in the tenant of owner o.
AddUser(a, e, o) ==
    /\ account[a] = NoAccount
    /\ row[e] = None
    /\ account[o].tenant \in Slug /\ row[account[o].tenant] = o
    /\ row' = [row EXCEPT ![e] = a]
    /\ account' = [account EXCEPT ![a] =
                     [email |-> e, tenant |-> account[o].tenant,
                      tables |-> {"credentials", "users", "user_roles"},
                      grants |-> [p \in Perm |-> None]]]

Next == \E a \in Account, e \in Email :
           \/ \E s \in Slug : Register(a, e, s)
           \/ \E o \in Account : AddUser(a, e, o)

Spec == Init /\ [][Next]_vars

=============================================================================
