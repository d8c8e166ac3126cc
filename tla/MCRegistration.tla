--------------------------- MODULE MCRegistration ---------------------------
(* Registration for TLC: ann1 and ann2 have the same local part, and the    *)
(* slug of ann3 is the second candidate of both.                            *)
EXTENDS Registration

CONSTANTS ann1, ann2, ann3, ann, annDash1, annDash1Dash1

MCCandidate ==
    [e \in Email |-> IF e = ann3
                     THEN [n \in 0..MaxSlugAttempts |-> IF n = 0 THEN annDash1 ELSE annDash1Dash1]
                     ELSE [n \in 0..MaxSlugAttempts |-> IF n = 0 THEN ann ELSE annDash1]]

=============================================================================
