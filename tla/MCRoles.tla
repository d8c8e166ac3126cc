------------------------------- MODULE MCRoles -------------------------------
(* Roles for TLC: the second tenant has a role at the start; slots and       *)
(* requests are interchangeable.                                             *)
EXTENDS Roles, TLC

CONSTANTS t2, x2

MCExisting == [x \in RoleId |-> IF x = x2 THEN [tenant |-> t2, name |-> "member"] ELSE NoRole]
Symmetry == Permutations(Slot) \cup Permutations(Request)

=============================================================================
