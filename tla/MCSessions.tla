----------------------------- MODULE MCSessions -----------------------------
(* Sessions for TLC: interchangeable ids and request slots. *)
EXTENDS Sessions, TLC

\* Ids are drawn in any order, or as numbers in theirs.
AnyOrder == [c \in SessionId |-> {}]
Ascending == [c \in SessionId |-> {d \in SessionId : d < c}]

\* Clients use all paths, or the session header for the first session only.
All == {"refresh", "grant", "bearer", "header"}
AllPaths == [s \in SessionId |-> All]
HeaderFirst == [s \in SessionId |-> IF s = 1 THEN All ELSE All \ {"header"}]

Symmetry == Permutations(SessionId) \cup Permutations(Request)

=============================================================================
