----------------------------- MODULE TokenService -----------------------------
(***************************************************************************)
(* The refresh-token life cycle of src/auth/services/token.service.ts.     *)
(*                                                                         *)
(* Each method is an async function over one shared table, so between any  *)
(* two awaits of one call the steps of other calls interleave.  A caller   *)
(* has a frame holding the method's local variables and the await it has   *)
(* reached; each action is the code between two awaits together with the   *)
(* database statement it ends in (one statement is atomic, the method is   *)
(* not: no method opens a transaction).  Any statement may fail, with or   *)
(* without having taken effect, and the process may stop between any two   *)
(* steps.                                                                  *)
(*                                                                         *)
(* A raw refresh token is represented by its jti.  The jti is a fresh UUID,*)
(* so the raw token and its SHA-256 hash, under which the row is stored,   *)
(* determine it and are determined by it.  Access tokens leave no state    *)
(* behind and are left out, as are the user agent and the IP address.      *)
(***************************************************************************)
EXTENDS Naturals, FiniteSets, TokenTtl

CONSTANTS
    Callers,    \* the requests that may be in flight together
    Users,      \* the users of the service
    Jtis,       \* the refresh tokens that may be signed
    RefreshTtl, \* JWT_REFRESH_TTL
    MaxTime,    \* bound on the clock, in seconds
    None        \* "no user", "no token"

ASSUME NoneIsFresh == None \notin Users \cup Jtis
ASSUME TimeAssumption == RefreshTtl \in Ttls /\ MaxTime \in Nat

VARIABLES
    refreshToken,   \* the refresh_tokens table, keyed by the token's hash
    jwt,            \* what has been signed: the claims of each raw token
    call,           \* the frame of each caller's running method
    now,            \* the wall clock
    origin,         \* history: predecessor, session and issuing caller
    ended           \* history: sessions ended by a logout or a failure

vars == <<refreshToken, jwt, call, now, origin, ended>>

\* The lifetime signed into a refresh token, and the one of its row.
JwtTtl   == Timespan(RefreshTtl)
RowTtl   == TtlToMs(RefreshTtl)

Awaits   == {"find", "revoke", "sign", "create"}

NoRow    == [status |-> "absent", userId |-> None, expiresAt |-> 0]
NoClaims == [sub |-> None, exp |-> 0]
NoOrigin == [parent |-> None, session |-> None, by |-> None]

\* token is the token being rotated, None in issueTokens called by login.
Idle     == [at |-> "idle", user |-> None, token |-> None, fresh |-> None]

Init ==
    /\ refreshToken = [t \in Jtis |-> NoRow]
    /\ jwt = [t \in Jtis |-> NoClaims]
    /\ call = [c \in Callers |-> Idle]
    /\ now = 0
    /\ origin = [t \in Jtis |-> NoOrigin]
    /\ ended = {}

-----------------------------------------------------------------------------
Live(t)       == refreshToken[t].status = "live"
Issued(t)     == refreshToken[t].status # "absent"
Signed(t)     == jwt[t].sub # None
RowsOf(u)     == {t \in Jtis : Issued(t) /\ refreshToken[t].userId = u}
SessionOf(t)  == origin[t].session

\* The row with its revokedAt column set.
Revoked(row) == IF row.status = "live" THEN [row EXCEPT !.status = "revoked"]
                ELSE row

At(c, a)      == call[c].at = a
GoTo(c, a)    == call' = [call EXCEPT ![c].at = a]

\* The method is over: it returned or threw.
Leave(c)      == call' = [call EXCEPT ![c] = Idle]

-----------------------------------------------------------------------------
\* jwt.verifyAsync: signed with the refresh secret and not past its exp.
JwtValid(t) == Signed(t) /\ now < jwt[t].exp

Enter(c, frame) ==
    /\ call[c] = Idle
    /\ call' = [call EXCEPT ![c] = frame]
    /\ UNCHANGED <<refreshToken, jwt, now, origin, ended>>

(* A login.                                                                *)
CallIssueTokens(c, u) ==
    Enter(c, [Idle EXCEPT !.at = "sign", !.user = u])

-----------------------------------------------------------------------------
(***************************************************************************)
(* refreshTokens, lines 74-102 of token.service.ts.  A client presents a   *)
(* token that was issued to it; one whose answer was lost never does.  A   *)
(* string that does not verify is rejected and changes nothing.            *)
(***************************************************************************)
CallRefreshTokens(c, t) ==
    /\ Issued(t)
    /\ JwtValid(t)
    /\ Enter(c, [Idle EXCEPT !.at = "find", !.token = t, !.user = jwt[t].sub])

Usable(row) == row.status = "live" /\ ~(row.expiresAt < now)

\* Faults: the row's revokedAt is not looked at; the where clause is lost.
UsableIgnoringRevoked(row) == row.status # "absent" /\ ~(row.expiresAt < now)

FindStoredByAnyHash(c) ==
    /\ At(c, "find")
    /\ \E t \in Jtis :
          /\ Usable(refreshToken[t])
          /\ call' = [call EXCEPT ![c].at = "revoke", ![c].token = t]
    /\ UNCHANGED <<refreshToken, jwt, now, origin, ended>>

FindStoredIgnoringRevoked(c) ==
    /\ At(c, "find")
    /\ IF UsableIgnoringRevoked(refreshToken[call[c].token])
       THEN GoTo(c, "revoke") ELSE Leave(c)
    /\ UNCHANGED <<refreshToken, jwt, now, origin, ended>>

\* refreshToken.findUnique and the check on what it returned.
FindStored(c) ==
    /\ At(c, "find")
    /\ IF Usable(refreshToken[call[c].token])
       THEN GoTo(c, "revoke") ELSE Leave(c)
    /\ UNCHANGED <<refreshToken, jwt, now, origin, ended>>

\* Faults: the update is forgotten; it revokes the user's other rows too.
RevokeStoredForgotten(c) ==
    /\ At(c, "revoke")
    /\ GoTo(c, "sign")
    /\ UNCHANGED <<refreshToken, jwt, now, origin, ended>>

RevokeStoredByUser(c) ==
    /\ At(c, "revoke")
    /\ refreshToken' = [t \in Jtis |->
          IF t \in RowsOf(call[c].user) THEN Revoked(refreshToken[t])
          ELSE refreshToken[t]]
    /\ GoTo(c, "sign")
    /\ UNCHANGED <<jwt, now, origin, ended>>

\* refreshToken.update: by primary key, whatever the row says by now.
RevokeStored(c) ==
    /\ At(c, "revoke")
    /\ refreshToken' = [refreshToken EXCEPT ![call[c].token] = Revoked(@)]
    /\ GoTo(c, "sign")
    /\ UNCHANGED <<jwt, now, origin, ended>>

-----------------------------------------------------------------------------
(* issueTokens, lines 21-53 and 59-63, called by login and by refreshTokens *)

\* randomUUID and jwt.signAsync: the raw token exists, its row does not yet.
SignTokens(c) ==
    /\ At(c, "sign")
    /\ \E t \in Jtis :
          /\ ~Signed(t)
          /\ jwt' = [jwt EXCEPT ![t] = [sub |-> call[c].user,
                                        exp |-> now + JwtTtl]]
          /\ call' = [call EXCEPT ![c].at = "create", ![c].fresh = t]
    /\ UNCHANGED <<refreshToken, now, origin, ended>>

\* Faults: the lifetime is left out; it is subtracted.
RefreshExpiryAlreadyOver == now
RefreshExpiryInThePast   == IF now < RowTtl THEN None ELSE now - RowTtl

RefreshExpiry == now + RowTtl

\* refreshToken.create; by and session are history.
CreateRow(c) ==
    LET t == call[c].fresh
        p == call[c].token
    IN  /\ At(c, "create")
        /\ refreshToken' = [refreshToken EXCEPT ![t] =
              [status |-> "live", userId |-> call[c].user,
               expiresAt |-> RefreshExpiry]]
        /\ origin' = [origin EXCEPT ![t] =
              [parent |-> p, by |-> c,
               session |-> IF p = None THEN t ELSE SessionOf(p)]]
        /\ Leave(c)
        /\ UNCHANGED <<jwt, now, ended>>

-----------------------------------------------------------------------------
(* revokeRefreshToken and revokeAllForUser, lines 104-117: one statement    *)
(* each, so that a call is one step.  A token without a row is no error.   *)

RevokeRows(rows) ==
    /\ refreshToken' = [t \in Jtis |->
          IF t \in rows THEN Revoked(refreshToken[t]) ELSE refreshToken[t]]
    /\ ended' = ended \cup {SessionOf(t) : t \in {r \in rows : Live(r)}}
    /\ UNCHANGED <<jwt, call, now, origin>>

\* updateMany where tokenHash and revokedAt is null.
RevokeRefreshToken(t) == Issued(t) /\ RevokeRows({t})

\* updateMany where userId and revokedAt is null.
RevokeAllForUser(u) == RevokeRows(RowsOf(u))

-----------------------------------------------------------------------------
(***************************************************************************)
(* A running method throws: a statement fails, or the process stops.  Its  *)
(* earlier statements stay.  A statement that took effect but whose result *)
(* was lost is a failure right after the step.  A refresh that fails after *)
(* it revoked the old token has ended the session; history records that.   *)
(***************************************************************************)
Rotating(c) == call[c].at \in {"sign", "create"} /\ call[c].token # None

Fail(c) ==
    /\ call[c].at \in Awaits
    /\ ended' = ended \cup
          {SessionOf(t) : t \in {r \in Jtis : Rotating(c) /\ r = call[c].token}}
    /\ Leave(c)
    /\ UNCHANGED <<refreshToken, jwt, now, origin>>

Tick ==
    /\ now < MaxTime
    /\ now' = now + 1
    /\ UNCHANGED <<refreshToken, jwt, call, origin, ended>>

Step(c) ==
    \/ FindStored(c)
    \/ RevokeStored(c)
    \/ SignTokens(c)
    \/ CreateRow(c)
    \/ Fail(c)

Next ==
    \/ \E c \in Callers, u \in Users : CallIssueTokens(c, u)
    \/ \E c \in Callers, t \in Jtis : CallRefreshTokens(c, t)
    \/ \E t \in Jtis : RevokeRefreshToken(t)
    \/ \E u \in Users : RevokeAllForUser(u)
    \/ \E c \in Callers : Step(c)
    \/ Tick

Spec == Init /\ [][Next]_vars

-----------------------------------------------------------------------------
(***************************************************************************)
(* Properties.                                                             *)
(***************************************************************************)
Row    == [status : {"absent", "live", "revoked"},
           userId : Users \cup {None}, expiresAt : Nat]
Claims == [sub : Users \cup {None}, exp : Nat]
Origin == [parent : Jtis \cup {None}, session : Jtis \cup {None},
           by : Callers \cup {None}]
Frame  == [at : Awaits \cup {"idle"},
           user : Users \cup {None}, token : Jtis \cup {None},
           fresh : Jtis \cup {None}]

\* Every variable has its type.
TypeOK ==
    /\ refreshToken \in [Jtis -> Row]
    /\ jwt \in [Jtis -> Claims]
    /\ call \in [Callers -> Frame]
    /\ now \in Nat
    /\ origin \in [Jtis -> Origin]
    /\ ended \subseteq Jtis \cup {None}

(* Rotation revokes before it issues: at no moment, whatever the           *)
(* interleaving and wherever a refresh fails, is a rotated token live      *)
(* together with one of its successors.                                    *)
PredecessorRevoked ==
    \A t \in Jtis : origin[t].parent # None =>
        refreshToken[origin[t].parent].status = "revoked"

(* A session stays with its user.  refreshTokens checks the row but issues *)
(* to the subject of the JWT; the two name the same user, so a rotation    *)
(* never moves a session to somebody else.                                 *)
RotationKeepsUser ==
    \A t \in Jtis : Issued(t) =>
        /\ refreshToken[t].userId = jwt[t].sub
        /\ origin[t].parent # None =>
              refreshToken[t].userId = refreshToken[origin[t].parent].userId

(* A token is not reusable once its rotation is done: although two         *)
(* requests that read it while it was live may both rotate it, one request *)
(* slot, using its requests one after the other, rotates it at most once.  *)
(* The number of successors of a token is so bounded by the number of      *)
(* requests that were in flight together.                                  *)
OneSuccessorPerCaller ==
    \A t1, t2 \in Jtis :
        /\ origin[t1].parent # None
        /\ origin[t1].parent = origin[t2].parent
        /\ origin[t1].by = origin[t2].by
        => t1 = t2

(* The row never cuts a token's signed lifetime short: if the setting is   *)
(* of the form that ttlToMs reads, a row expires no sooner than the JWT    *)
(* whose hash it holds, however much later it is created.                  *)
RowOutlivesJwt ==
    Parsed(RefreshTtl) =>
    \A t \in Jtis : Issued(t) => jwt[t].exp <= refreshToken[t].expiresAt

(* Rotation alone never logs anybody out: unless one of its tokens was     *)
(* logged out or a rotation of it failed half way, an open session always  *)
(* has a live token or a rotation that is about to create one.             *)
RotationNeverEndsSession ==
    \A s \in Jtis : Issued(s) /\ SessionOf(s) = s /\ s \notin ended =>
        \/ \E t \in Jtis : Live(t) /\ SessionOf(t) = s
        \/ \E c \in Callers : Rotating(c) /\ SessionOf(call[c].token) = s

(* A session that is over stays over: once none of its tokens is live and  *)
(* no request holds one of them past the check, no token of the session    *)
(* ever becomes live again.  This is what a logout amounts to when the     *)
(* refreshes in flight have finished.                                      *)
Over(s) ==
    /\ Issued(s)
    /\ \A t \in Jtis : SessionOf(t) = s => ~Live(t)
    /\ \A c \in Callers, t \in Jtis :
          call[c].at \in {"revoke", "sign", "create"} /\ call[c].token = t
             => SessionOf(t) # s

OverForGood == [][\A s \in Jtis : Over(s) => Over(s)']_vars

(* The table implements the abstract life cycle of refresh tokens.         *)
Sessions == INSTANCE RefreshSessions WITH
    Tokens <- Jtis,
    status <- [t \in Jtis |-> refreshToken[t].status],
    owner  <- [t \in Jtis |-> refreshToken[t].userId],
    parent <- [t \in Jtis |-> origin[t].parent]

ImplementsSessions == Sessions!Spec

-----------------------------------------------------------------------------
(***************************************************************************)
(* A claim of the documentation that the code does not meet.               *)
(***************************************************************************)

(* "JWT access + refresh tokens (rotation)", "Rotate refresh token": a     *)
(* session has one live refresh token at a time, the latest.               *)
OneLiveTokenPerSession ==
    \A t1, t2 \in Jtis :
        Live(t1) /\ Live(t2) /\ SessionOf(t1) = SessionOf(t2) => t1 = t2

=============================================================================
