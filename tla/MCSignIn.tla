------------------------------ MODULE MCSignIn ------------------------------
(* SignIn for TLC: interchangeable factors, tickets, sessions and requests. *)
EXTENDS SignIn, TLC

Symmetry == Permutations(Factor) \cup Permutations(Ticket)
              \cup Permutations(SessionId) \cup Permutations(Request)

=============================================================================
