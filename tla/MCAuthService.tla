---------------------------- MODULE MCAuthService ----------------------------
(* Instances of AuthService for TLC.                                       *)
EXTENDS AuthService, TLC

\* Requests, users and tokens are interchangeable; no run that uses this
\* checks a liveness property.
Symmetry == Permutations(Callers) \cup Permutations(Users)
               \cup Permutations(Jtis) \cup Permutations(Links)

\* Refresh tokens outlive the clock; a link lives one tick.
MCRefreshTtl == [n |-> 1, unit |-> "m", terse |-> TRUE]
MCLinkTtl == [type \in {"EMAIL_VERIFICATION", "PASSWORD_RESET"} |-> 1]

\* States that differ only in origin, ended and granted are one: they are
\* histories of the token services, no action reads them, and of the properties
\* only TypeOK does.
View == <<users, mailQueue, handler, history, refreshToken, jwt, call, now,
          verificationToken, consuming, asked, uses>>

=============================================================================
