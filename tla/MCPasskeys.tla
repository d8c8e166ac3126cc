----------------------------- MODULE MCPasskeys -----------------------------
(* Passkeys for TLC: everything is interchangeable with its like. *)
EXTENDS Passkeys, TLC

Symmetry == Permutations(Identity) \cup Permutations(Key) \cup Permutations(Cred)
              \cup Permutations(SessionId) \cup Permutations(Request)

=============================================================================
