--------------------------- MODULE RefreshSessions ---------------------------
(***************************************************************************)
(* What the token service promises about refresh tokens, with no           *)
(* requests, no awaits and no clock: a token is unissued, then live, then  *)
(* revoked for good; it belongs to one user for its whole life; and a      *)
(* token obtained by rotation is issued to the owner of its predecessor,   *)
(* and only once that predecessor has been revoked.                        *)
(*                                                                         *)
(* TokenService is shown to implement Spec.  Note what is not promised:    *)
(* a revoked token may have several successors, because the code does not  *)
(* rotate atomically (see OneLiveTokenPerSession in TokenService).         *)
(***************************************************************************)

CONSTANTS
    Tokens,     \* the refresh tokens that may ever be issued
    Users,      \* the users they are issued to
    None        \* the predecessor of a token issued at login, no token

VARIABLES
    status,     \* "absent", "live" or "revoked", per token
    owner,      \* the user a token was issued to
    parent      \* the token it was rotated from

vars == <<status, owner, parent>>

Init ==
    /\ status = [t \in Tokens |-> "absent"]
    /\ owner  = [t \in Tokens |-> None]
    /\ parent = [t \in Tokens |-> None]

(* A login opens a session: its first token has no predecessor.            *)
Open(t, u) ==
    /\ status[t] = "absent"
    /\ status' = [status EXCEPT ![t] = "live"]
    /\ owner'  = [owner EXCEPT ![t] = u]
    /\ UNCHANGED parent

(* A rotation issues the successor t of the revoked token p.               *)
Succeed(t, p) ==
    /\ status[t] = "absent"
    /\ status[p] = "revoked"
    /\ status' = [status EXCEPT ![t] = "live"]
    /\ owner'  = [owner EXCEPT ![t] = owner[p]]
    /\ parent' = [parent EXCEPT ![t] = p]

(* A rotation or a logout revokes one token, a logout-all every live token *)
(* of one user, all in one step.                                           *)
Revoke(S, u) ==
    /\ \A t \in S : status[t] = "live" /\ owner[t] = u
    /\ status' = [t \in Tokens |-> IF t \in S THEN "revoked" ELSE status[t]]
    /\ UNCHANGED <<owner, parent>>

Next ==
    \/ \E t \in Tokens, u \in Users : Open(t, u)
    \/ \E t, p \in Tokens : Succeed(t, p)
    \/ \E S \in SUBSET Tokens, u \in Users : Revoke(S, u)

Spec == Init /\ [][Next]_vars

=============================================================================
