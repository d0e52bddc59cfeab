---------------------- MODULE MCVerificationTokenService ----------------------
(* Instances of VerificationTokenService for TLC.                          *)
EXTENDS VerificationTokenService, TLC

\* Requests, users and tokens are interchangeable; no run that uses this
\* checks a liveness property.
Symmetry ==
    Permutations(Callers) \cup Permutations(Users) \cup Permutations(Tokens)

\* A reset token lives one tick, a verification token two.
MCTtl == [type \in Types |-> IF type = "PASSWORD_RESET" THEN 1 ELSE 2]

=============================================================================
