-------------------------- MODULE TokenServiceProofs --------------------------
(***************************************************************************)
(* Proofs about TokenService: what its run checks on two requests, two     *)
(* users and three tokens holds for any number of them.                    *)
(*                                                                         *)
(* IInv says what a request in the middle of a method may rely on.  It is  *)
(* needed because every property speaks of rows, while the steps write     *)
(* rows from what the frames remember: the properties are inductive only   *)
(* together with what ties a frame's locals to the table.                  *)
(***************************************************************************)
EXTENDS TokenService, TLAPS

\* A frame that passed the check on the stored row of its token.
Checked(c) == call[c].at \in {"revoke", "sign", "create"} /\ call[c].token # None

\* A frame works for a user, and a token it holds is one it verified.
FramesOK ==
    \A c \in Callers :
        /\ call[c].at # "idle" => call[c].user # None
        /\ call[c].at \in {"find", "revoke"} => call[c].token # None
        /\ call[c].token # None =>
              /\ Issued(call[c].token)
              /\ call[c].user = jwt[call[c].token].sub
        /\ Rotating(c) => refreshToken[call[c].token].status = "revoked"

\* A frame about to create a row owns the token that it signed.
FreshOK ==
    /\ \A c \in Callers : call[c].at = "create" =>
          /\ call[c].fresh # None
          /\ ~Issued(call[c].fresh)
          /\ jwt[call[c].fresh].sub = call[c].user
    /\ \A c1, c2 \in Callers :
          /\ call[c1].at = "create"
          /\ call[c2].at = "create"
          /\ call[c1].fresh = call[c2].fresh
          => c1 = c2

\* Rows, claims and history agree.
RowsOK ==
    \A t \in Jtis :
        /\ Issued(t) => Signed(t) /\ refreshToken[t].userId = jwt[t].sub
        /\ ~Issued(t) => origin[t].parent = None

\* A frame that passed the check has not rotated its token yet.
NotYetRotated ==
    \A c \in Callers, t \in Jtis :
        Checked(c) => ~(origin[t].parent = call[c].token /\ origin[t].by = c)

IInv ==
    /\ TypeOK
    /\ FramesOK
    /\ FreshOK
    /\ RowsOK
    /\ PredecessorRevoked
    /\ RotationKeepsUser
    /\ NotYetRotated
    /\ OneSuccessorPerCaller

-----------------------------------------------------------------------------
Positions == Awaits \cup {"idle"}

(* Advancing a frame to its next await keeps the frames well formed.       *)
LEMMA GoToTyped ==
    ASSUME call \in [Callers -> Frame], NEW c \in Callers,
           NEW a \in Positions, GoTo(c, a)
    PROVE  call' \in [Callers -> Frame]
<1>1. [call[c] EXCEPT !.at = a] \in Frame
  BY DEF Frame, Positions
<1> QED
  BY <1>1 DEF GoTo

(* So does entering a method.                                              *)
LEMMA SetFrameTyped ==
    ASSUME call \in [Callers -> Frame], NEW c \in Callers,
           NEW f \in Frame, call' = [call EXCEPT ![c] = f]
    PROVE  call' \in [Callers -> Frame]
OBVIOUS

(* And leaving it.                                                         *)
LEMMA LeaveTyped ==
    ASSUME call \in [Callers -> Frame], NEW c \in Callers, Leave(c)
    PROVE  call' \in [Callers -> Frame]
<1>1. Idle \in Frame
  BY DEF Idle, Frame
<1> QED
  BY <1>1 DEF Leave

(* Revoking a row, or a set of rows, keeps the table well formed.          *)
LEMMA RevokedTyped == ASSUME NEW row \in Row PROVE Revoked(row) \in Row
BY DEF Revoked, Row

\* Revoking rows keeps the table's type.
LEMMA RevokeRowsTyped ==
    ASSUME TypeOK, NEW rows \in SUBSET Jtis, RevokeRows(rows)
    PROVE  TypeOK'
<1>1. refreshToken' \in [Jtis -> Row]
  BY RevokedTyped DEF TypeOK, RevokeRows
<1>2. ended' \subseteq Jtis \cup {None}
  BY DEF TypeOK, RevokeRows, SessionOf, Origin
<1> QED
  BY <1>1, <1>2 DEF TypeOK, RevokeRows

(* A setting that ttlToMs reads means the same lifetime to the library     *)
(* that signs the token; any other one gives the row seven days.           *)
LEMMA ParsedLifetimes ==
    ASSUME NEW ttl \in Ttls
    PROVE  /\ Timespan(ttl) \in Nat /\ TtlToMs(ttl) \in Nat
           /\ Parsed(ttl) => TtlToMs(ttl) = Timespan(ttl)
           /\ ~Parsed(ttl) => TtlToMs(ttl) = SevenDays
<1>1. ttl.n \in Nat /\ ttl.unit \in Units
  BY DEF Ttls
<1>2. Timespan(ttl) \in Nat
  <2>1. ttl.n \div 1000 \in Nat
    BY <1>1
  <2> QED
    BY <1>1, <2>1 DEF Timespan, Units
<1>3. CASE Parsed(ttl)
  <2>1. TtlToMs(ttl) = Timespan(ttl)
    BY <1>1, <1>3 DEF Parsed, TtlToMs, Timespan, Multiplier
  <2> QED
    BY <1>2, <1>3, <2>1
<1>4. CASE ~Parsed(ttl)
  BY <1>2, <1>4 DEF TtlToMs, SevenDays
<1> QED
  BY <1>3, <1>4

\* Both readings of the lifetime are natural numbers.
LEMMA Lifetimes == JwtTtl \in Nat /\ RowTtl \in Nat
BY TimeAssumption, ParsedLifetimes DEF JwtTtl, RowTtl

(* No step breaks the types.                                               *)
LEMMA TypeStep == TypeOK /\ [Next]_vars => TypeOK'
<1> SUFFICES ASSUME TypeOK, [Next]_vars
             PROVE  TypeOK'
  OBVIOUS
<1> USE NoneIsFresh, Lifetimes DEF TypeOK
<1>0. \A c \in Callers : call[c] \in Frame
  OBVIOUS
<1>1. ASSUME NEW c \in Callers, NEW u \in Users, CallIssueTokens(c, u)
      PROVE  TypeOK'
  <2>1. [Idle EXCEPT !.at = "sign", !.user = u] \in Frame
    BY DEF Idle, Frame, Awaits
  <2> QED
    BY <1>1, <2>1, SetFrameTyped DEF CallIssueTokens, Enter
<1>2. ASSUME NEW c \in Callers, NEW t \in Jtis, CallRefreshTokens(c, t)
      PROVE  TypeOK'
  <2>1. jwt[t].sub \in Users \cup {None}
    BY DEF Claims
  <2>2. [Idle EXCEPT !.at = "find", !.token = t, !.user = jwt[t].sub] \in Frame
    BY <2>1 DEF Idle, Frame, Awaits
  <2> QED
    BY <1>2, <2>2, SetFrameTyped DEF CallRefreshTokens, Enter
<1>3. ASSUME NEW t \in Jtis, RevokeRefreshToken(t)
      PROVE  TypeOK'
  BY <1>3, RevokeRowsTyped DEF RevokeRefreshToken
<1>4. ASSUME NEW u \in Users, RevokeAllForUser(u)
      PROVE  TypeOK'
  BY <1>4, RevokeRowsTyped DEF RevokeAllForUser, RowsOf
<1>5. ASSUME NEW c \in Callers, FindStored(c)
      PROVE  TypeOK'
  <2>1. call' \in [Callers -> Frame]
    BY <1>5, GoToTyped, LeaveTyped DEF FindStored, Positions, Awaits
  <2> QED
    BY <1>5, <2>1 DEF FindStored
<1>6. ASSUME NEW c \in Callers, RevokeStored(c)
      PROVE  TypeOK'
  <2>1. call' \in [Callers -> Frame]
    BY <1>6, GoToTyped DEF RevokeStored, Positions, Awaits
  <2>2. refreshToken' \in [Jtis -> Row]
    BY <1>6, RevokedTyped DEF RevokeStored
  <2> QED
    BY <1>6, <2>1, <2>2 DEF RevokeStored
<1>7. ASSUME NEW c \in Callers, SignTokens(c)
      PROVE  TypeOK'
  <2>1. PICK t \in Jtis :
           /\ jwt' = [jwt EXCEPT ![t] = [sub |-> call[c].user,
                                         exp |-> now + JwtTtl]]
           /\ call' = [call EXCEPT ![c] =
                 [call[c] EXCEPT !.at = "create", !.fresh = t]]
    BY <1>7 DEF SignTokens
  <2>2. [sub |-> call[c].user, exp |-> now + JwtTtl] \in Claims
    BY <1>0 DEF Frame, Claims
  <2>3. [call[c] EXCEPT !.at = "create", !.fresh = t] \in Frame
    BY <1>0 DEF Frame, Awaits
  <2>4. jwt' \in [Jtis -> Claims]
    BY <2>1, <2>2
  <2>5. call' \in [Callers -> Frame]
    BY <2>1, <2>3, SetFrameTyped
  <2> QED
    BY <1>7, <2>4, <2>5 DEF SignTokens
<1>8. ASSUME NEW c \in Callers, CreateRow(c)
      PROVE  TypeOK'
  <2>1. call' \in [Callers -> Frame]
    BY <1>8, LeaveTyped DEF CreateRow
  <2>2. refreshToken' \in [Jtis -> Row]
    <3>1. [status |-> "live", userId |-> call[c].user,
           expiresAt |-> RefreshExpiry] \in Row
      BY <1>0 DEF Row, Frame, RefreshExpiry
    <3> QED
      BY <1>8, <3>1 DEF CreateRow
  <2>3. origin' \in [Jtis -> Origin]
    <3> DEFINE p == call[c].token
               o == [parent |-> p, by |-> c,
                     session |-> IF p = None THEN call[c].fresh
                                 ELSE SessionOf(p)]
    <3>1. call[c].fresh \in Jtis \cup {None} /\ p \in Jtis \cup {None}
      BY <1>0 DEF Frame
    <3>2. o \in Origin
      BY <3>1 DEF Origin, SessionOf
    <3>3. origin' = [origin EXCEPT ![call[c].fresh] = o]
      BY <1>8 DEF CreateRow
    <3> HIDE DEF o
    <3> QED
      BY <3>2, <3>3
  <2> QED
    BY <1>8, <2>1, <2>2, <2>3 DEF CreateRow
<1>9. ASSUME NEW c \in Callers, Fail(c)
      PROVE  TypeOK'
  <2>1. call' \in [Callers -> Frame]
    BY <1>9, LeaveTyped DEF Fail
  <2>2. ended' \subseteq Jtis \cup {None}
    BY <1>9 DEF Fail, SessionOf, Origin
  <2> QED
    BY <1>9, <2>1, <2>2 DEF Fail
<1>10. CASE Tick
  BY <1>10 DEF Tick
<1>11. CASE UNCHANGED vars
  BY <1>11 DEF vars
<1> QED
  BY <1>1, <1>2, <1>3, <1>4, <1>5, <1>6, <1>7, <1>8, <1>9, <1>10, <1>11
     DEF Next, Step

\* The types hold initially.
LEMMA TypeInit == Init => TypeOK
BY TimeAssumption
   DEF Init, TypeOK, NoRow, NoClaims, NoOrigin, Idle, Row, Claims, Origin, Frame

(* Rows, claims, frames and history are always well formed, whatever the   *)
(* interleaving of calls and wherever one of them fails.                   *)
THEOREM TypeCorrect == Spec => []TypeOK
BY TypeInit, TypeStep, PTL DEF Spec

-----------------------------------------------------------------------------
(* A revoked row keeps its user, and only its status changes.              *)
LEMMA RevokedKeeps ==
    ASSUME NEW row \in Row
    PROVE  /\ Revoked(row).userId = row.userId
           /\ Revoked(row).expiresAt = row.expiresAt
           /\ (Revoked(row).status = "absent") <=> (row.status = "absent")
           /\ row.status # "absent" => Revoked(row).status = "revoked"
BY DEF Revoked, Row

\* What a step that only revokes rows does to the table.
OnlyRevokes ==
    \A t \in Jtis :
        /\ refreshToken'[t].userId = refreshToken[t].userId
        /\ refreshToken'[t].expiresAt = refreshToken[t].expiresAt
        /\ (refreshToken'[t].status = "absent") <=>
              (refreshToken[t].status = "absent")
        /\ refreshToken[t].status = "revoked" =>
              refreshToken'[t].status = "revoked"

(* revokeRefreshToken and revokeAllForUser only revoke.                    *)
LEMMA RevokeRowsOnlyRevokes ==
    ASSUME TypeOK, NEW rows \in SUBSET Jtis, RevokeRows(rows)
    PROVE  OnlyRevokes
BY RevokedKeeps DEF TypeOK, RevokeRows, OnlyRevokes

(* So does the revoking step of a rotation, and it revokes its own token.  *)
LEMMA RevokeStoredOnlyRevokes ==
    ASSUME IInv, NEW c \in Callers, RevokeStored(c)
    PROVE  /\ OnlyRevokes
           /\ refreshToken'[call[c].token].status = "revoked"
<1>1. call[c].token \in Jtis
  BY DEF IInv, TypeOK, FramesOK, Frame, RevokeStored, At
<1>2. Issued(call[c].token)
  BY <1>1, NoneIsFresh DEF IInv, FramesOK
<1> QED
  BY <1>1, <1>2, RevokedKeeps
     DEF IInv, TypeOK, RevokeStored, OnlyRevokes, Issued

(* What relates rows, claims and history survives a step that only revokes *)
(* and leaves the claims and the history alone.                            *)
LEMMA TableAfterRevoking ==
    ASSUME IInv, OnlyRevokes, UNCHANGED <<jwt, origin>>
    PROVE  /\ RowsOK'
           /\ PredecessorRevoked'
           /\ RotationKeepsUser'
           /\ OneSuccessorPerCaller'
<1> USE DEF IInv, Issued
<1>0. \A t \in Jtis : origin[t].parent \in Jtis \cup {None}
  BY DEF TypeOK, Origin
<1>1. RowsOK'
  BY DEF OnlyRevokes, RowsOK, Signed
<1>2. PredecessorRevoked'
  BY <1>0 DEF OnlyRevokes, PredecessorRevoked
<1>3. RotationKeepsUser'
  BY <1>0 DEF OnlyRevokes, RotationKeepsUser
<1>4. OneSuccessorPerCaller'
  BY DEF OneSuccessorPerCaller
<1> QED
  BY <1>1, <1>2, <1>3, <1>4

(* A frame that starts or ends owes nothing; the others are unaffected as  *)
(* long as the table is only revoked from.                                 *)
LEMMA FramesAfterRevoking ==
    ASSUME IInv, OnlyRevokes, UNCHANGED <<jwt, origin>>,
           NEW c \in Callers,
           \A d \in Callers \ {c} : call'[d] = call[d],
           call'[c].at # "create",
           Checked(c)' => Checked(c) /\ call'[c].token = call[c].token,
           call'[c].at # "idle" => call'[c].user # None,
           call'[c].at \in {"find", "revoke"} => call'[c].token # None,
           call'[c].token # None =>
              /\ call'[c].token \in Jtis
              /\ Issued(call'[c].token)
              /\ call'[c].user = jwt[call'[c].token].sub,
           Rotating(c)' => refreshToken'[call'[c].token].status = "revoked"
    PROVE  FramesOK' /\ FreshOK' /\ NotYetRotated'
<1> USE DEF IInv, Issued
<1>0. /\ \A d \in Callers : call[d].token \in Jtis \cup {None}
      /\ \A d \in Callers : call[d].fresh \in Jtis \cup {None}
  BY DEF TypeOK, Frame
<1>1. FramesOK'
  <2> SUFFICES ASSUME NEW d \in Callers
               PROVE  /\ call'[d].at # "idle" => call'[d].user # None
                      /\ call'[d].at \in {"find", "revoke"} =>
                            call'[d].token # None
                      /\ call'[d].token # None =>
                            /\ refreshToken'[call'[d].token].status # "absent"
                            /\ call'[d].user = jwt[call'[d].token].sub
                      /\ Rotating(d)' =>
                            refreshToken'[call'[d].token].status = "revoked"
    BY DEF FramesOK
  <2>1. CASE d = c
    BY <2>1 DEF OnlyRevokes
  <2>2. CASE d # c
    BY <1>0, <2>2 DEF OnlyRevokes, FramesOK, Rotating
  <2> QED
    BY <2>1, <2>2
<1>2. FreshOK'
  BY <1>0 DEF FreshOK, OnlyRevokes
<1>3. NotYetRotated'
  BY DEF NotYetRotated, Checked
<1> QED
  BY <1>1, <1>2, <1>3

-----------------------------------------------------------------------------
\* The invariant holds initially.
LEMMA InvInit == Init => IInv
<1> SUFFICES ASSUME Init PROVE IInv
  OBVIOUS
<1>1. TypeOK
  BY TypeInit
<1> QED
  BY <1>1, NoneIsFresh
     DEF Init, IInv, FramesOK, FreshOK, RowsOK, NotYetRotated, Checked,
         PredecessorRevoked, RotationKeepsUser, OneSuccessorPerCaller,
         NoRow, NoClaims, NoOrigin, Idle, Issued, Signed, Rotating

(* Only a row that has been created can be presented, found and rotated,   *)
(* so the invariant survives every step.                                   *)
LEMMA InvStep == IInv /\ [Next]_vars => IInv'
<1> SUFFICES ASSUME IInv, [Next]_vars
             PROVE  IInv'
  OBVIOUS
<1>0. TypeOK'
  BY TypeStep DEF IInv
<1>a. /\ \A c \in Callers : call[c] \in Frame
      /\ \A c \in Callers : call[c].token \in Jtis \cup {None}
      /\ \A c \in Callers : call[c].fresh \in Jtis \cup {None}
      /\ \A t \in Jtis : origin[t].parent \in Jtis \cup {None}
  BY DEF IInv, TypeOK, Frame, Origin
<1>b. UNCHANGED refreshToken => OnlyRevokes
  BY DEF OnlyRevokes
<1>1. ASSUME NEW c \in Callers, NEW u \in Users, CallIssueTokens(c, u)
      PROVE  IInv'
  <2>1. call' = [call EXCEPT ![c] = [Idle EXCEPT !.at = "sign", !.user = u]]
    BY <1>1 DEF CallIssueTokens, Enter
  <2>2. UNCHANGED <<refreshToken, jwt, now, origin, ended>>
    BY <1>1 DEF CallIssueTokens, Enter
  <2>3. /\ call'[c].at = "sign" /\ call'[c].user = u
        /\ call'[c].token = None
        /\ \A d \in Callers \ {c} : call'[d] = call[d]
    BY <2>1 DEF Idle, IInv, TypeOK
  <2>4. ~Checked(c)' /\ ~Rotating(c)'
    BY <2>3 DEF Checked, Rotating
  <2>5. FramesOK' /\ FreshOK' /\ NotYetRotated'
    BY <1>b, <2>2, <2>3, <2>4, NoneIsFresh, FramesAfterRevoking
  <2> QED
    BY <1>0, <1>b, <2>2, <2>5, TableAfterRevoking DEF IInv
<1>2. ASSUME NEW c \in Callers, NEW t \in Jtis, CallRefreshTokens(c, t)
      PROVE  IInv'
  <2>1. call' = [call EXCEPT ![c] =
           [Idle EXCEPT !.at = "find", !.token = t, !.user = jwt[t].sub]]
    BY <1>2 DEF CallRefreshTokens, Enter
  <2>2. UNCHANGED <<refreshToken, jwt, now, origin, ended>>
    BY <1>2 DEF CallRefreshTokens, Enter
  <2>3. /\ call'[c].at = "find" /\ call'[c].user = jwt[t].sub
        /\ call'[c].token = t
        /\ \A d \in Callers \ {c} : call'[d] = call[d]
    BY <2>1 DEF Idle, IInv, TypeOK
  <2>4. ~Checked(c)' /\ ~Rotating(c)'
    BY <2>3 DEF Checked, Rotating
  <2>5. Issued(t) /\ jwt[t].sub # None
    BY <1>2 DEF CallRefreshTokens, JwtValid, Signed
  <2>6. FramesOK' /\ FreshOK' /\ NotYetRotated'
    BY <1>b, <2>2, <2>3, <2>4, <2>5, NoneIsFresh, FramesAfterRevoking
  <2> QED
    BY <1>0, <1>b, <2>2, <2>6, TableAfterRevoking DEF IInv
<1>3. ASSUME NEW rows \in SUBSET Jtis, RevokeRows(rows)
      PROVE  IInv'
  <2>1. OnlyRevokes /\ UNCHANGED <<jwt, call, now, origin>>
    BY <1>3, RevokeRowsOnlyRevokes DEF IInv, RevokeRows
  <2>2. FramesOK'
    BY <1>a, <2>1 DEF IInv, FramesOK, OnlyRevokes, Issued, Rotating
  <2>3. FreshOK' /\ NotYetRotated'
    BY <1>a, <2>1
       DEF IInv, FreshOK, NotYetRotated, OnlyRevokes, Issued, Checked
  <2> QED
    BY <1>0, <2>1, <2>2, <2>3, TableAfterRevoking DEF IInv
<1>4. ASSUME NEW c \in Callers, FindStored(c)
      PROVE  IInv'
  <2>1. UNCHANGED <<refreshToken, jwt, now, origin, ended>>
    BY <1>4 DEF FindStored
  <2>2. CASE Usable(refreshToken[call[c].token])
    <3>1. call' = [call EXCEPT ![c].at = "revoke"]
      BY <1>4, <2>2 DEF FindStored, GoTo
    <3>2. call[c].at = "find" /\ call[c].token \in Jtis
      BY <1>4, <1>a DEF FindStored, At, IInv, FramesOK
    <3>3. /\ call'[c].at = "revoke" /\ call'[c].user = call[c].user
          /\ call'[c].token = call[c].token
          /\ \A d \in Callers \ {c} : call'[d] = call[d]
      BY <1>a, <3>1 DEF IInv, TypeOK, Frame
    \* A live token has no successor yet, so nobody has rotated it.
    <3>4. \A t \in Jtis : origin[t].parent # call[c].token
      BY <2>2, <3>2, NoneIsFresh DEF Usable, IInv, PredecessorRevoked
    <3>5. FramesOK'
      BY <1>a, <2>1, <3>2, <3>3, NoneIsFresh
         DEF IInv, FramesOK, Issued, Rotating
    <3>6. FreshOK'
      BY <1>a, <2>1, <3>3 DEF IInv, FreshOK, Issued
    <3>7. NotYetRotated'
      BY <2>1, <3>3, <3>4 DEF IInv, NotYetRotated, Checked
    <3> QED
      BY <1>0, <1>b, <2>1, <3>5, <3>6, <3>7, TableAfterRevoking DEF IInv
  <2>3. CASE ~Usable(refreshToken[call[c].token])
    <3>1. Leave(c)
      BY <1>4, <2>3 DEF FindStored
    <3>2. /\ call'[c] = Idle
          /\ \A d \in Callers \ {c} : call'[d] = call[d]
      BY <3>1 DEF Leave, IInv, TypeOK
    <3>3. FramesOK' /\ FreshOK' /\ NotYetRotated'
      BY <1>b, <2>1, <3>2, FramesAfterRevoking DEF Idle, Checked, Rotating
    <3> QED
      BY <1>0, <1>b, <2>1, <3>3, TableAfterRevoking DEF IInv
  <2> QED
    BY <2>2, <2>3
<1>5. ASSUME NEW c \in Callers, RevokeStored(c)
      PROVE  IInv'
  <2>1. /\ call' = [call EXCEPT ![c].at = "sign"]
        /\ UNCHANGED <<jwt, now, origin, ended>>
    BY <1>5 DEF RevokeStored, GoTo
  <2>2. OnlyRevokes /\ refreshToken'[call[c].token].status = "revoked"
    BY <1>5, RevokeStoredOnlyRevokes
  <2>3. call[c].at = "revoke" /\ call[c].token \in Jtis
    BY <1>5, <1>a DEF RevokeStored, At, IInv, FramesOK
  <2>4. /\ call'[c].at = "sign" /\ call'[c].user = call[c].user
        /\ call'[c].token = call[c].token
        /\ \A d \in Callers \ {c} : call'[d] = call[d]
    BY <1>a, <2>1 DEF IInv, TypeOK, Frame
  <2>5. Checked(c)
    BY <2>3, NoneIsFresh DEF Checked
  <2>6. /\ Issued(call[c].token)
        /\ call[c].user = jwt[call[c].token].sub
        /\ call[c].user # None
    BY <2>3, NoneIsFresh DEF IInv, FramesOK
  <2>7. FramesOK' /\ FreshOK' /\ NotYetRotated'
    BY <2>1, <2>2, <2>3, <2>4, <2>5, <2>6, FramesAfterRevoking
  <2> QED
    BY <1>0, <2>1, <2>2, <2>7, TableAfterRevoking DEF IInv
<1>6. ASSUME NEW c \in Callers, SignTokens(c)
      PROVE  IInv'
  <2>1. PICK t \in Jtis :
           /\ ~Signed(t)
           /\ jwt' = [jwt EXCEPT ![t] = [sub |-> call[c].user,
                                         exp |-> now + JwtTtl]]
           /\ call' = [call EXCEPT ![c] =
                 [call[c] EXCEPT !.at = "create", !.fresh = t]]
    BY <1>6 DEF SignTokens
  <2>2. call[c].at = "sign" /\ UNCHANGED <<refreshToken, now, origin, ended>>
    BY <1>6 DEF SignTokens, At
  <2>3. /\ call'[c].at = "create" /\ call'[c].fresh = t
        /\ call'[c].user = call[c].user /\ call'[c].token = call[c].token
        /\ \A d \in Callers \ {c} : call'[d] = call[d]
    BY <1>a, <2>1 DEF IInv, TypeOK, Frame
  <2>4. /\ jwt'[t].sub = call[c].user
        /\ \A r \in Jtis \ {t} : jwt'[r] = jwt[r]
    BY <2>1 DEF IInv, TypeOK
  \* An unsigned token has no row and is in nobody's hands.
  <2>5. ~Issued(t) /\ \A d \in Callers : call[d].token # t
    BY <2>1, <1>a, NoneIsFresh DEF IInv, RowsOK, FramesOK
  <2>6. \A d \in Callers : call[d].at = "create" => call[d].fresh # t
    <3> SUFFICES ASSUME NEW d \in Callers, call[d].at = "create",
                        call[d].fresh = t
                 PROVE  FALSE
      OBVIOUS
    <3>1. jwt[t].sub = call[d].user /\ call[d].user # None
      BY DEF IInv, FreshOK, FramesOK
    <3> QED
      BY <2>1, <3>1 DEF Signed
  <2>7. FramesOK'
    <3> SUFFICES ASSUME NEW d \in Callers
                 PROVE  /\ call'[d].at # "idle" => call'[d].user # None
                        /\ call'[d].at \in {"find", "revoke"} =>
                              call'[d].token # None
                        /\ call'[d].token # None =>
                              /\ refreshToken'[call'[d].token].status # "absent"
                              /\ call'[d].user = jwt'[call'[d].token].sub
                        /\ Rotating(d)' =>
                              refreshToken'[call'[d].token].status = "revoked"
      BY DEF FramesOK, Issued
    <3>1. /\ call'[d].user = call[d].user /\ call'[d].token = call[d].token
          /\ call'[d].at \in {"find", "revoke"} => call'[d].at = call[d].at
          /\ call'[d].at # "idle" => call[d].at # "idle"
          /\ Rotating(d)' => Rotating(d)
      BY <2>2, <2>3 DEF Rotating
    <3> QED
      BY <1>a, <2>2, <2>4, <2>5, <3>1 DEF IInv, FramesOK, Issued
  <2>8. FreshOK'
    BY <1>a, <2>2, <2>3, <2>4, <2>5, <2>6, NoneIsFresh
       DEF IInv, FreshOK, Issued
  <2>9. RowsOK'
    <3>1. call[c].user # None
      BY <2>2 DEF IInv, FramesOK
    <3> QED
      BY <2>2, <2>4, <2>5, <3>1 DEF IInv, RowsOK, Issued, Signed
  <2>10. PredecessorRevoked' /\ OneSuccessorPerCaller'
    BY <2>2 DEF IInv, PredecessorRevoked, OneSuccessorPerCaller
  <2>11. RotationKeepsUser'
    BY <1>a, <2>2, <2>4, <2>5 DEF IInv, RotationKeepsUser, Issued
  <2>12. NotYetRotated'
    BY <2>2, <2>3 DEF IInv, NotYetRotated, Checked
  <2> QED
    BY <1>0, <2>7, <2>8, <2>9, <2>10, <2>11, <2>12 DEF IInv
<1>7. ASSUME NEW c \in Callers, CreateRow(c)
      PROVE  IInv'
  <2> DEFINE t == call[c].fresh
             p == call[c].token
  <2>1. /\ call[c].at = "create"
        /\ Leave(c)
        /\ UNCHANGED <<jwt, now, ended>>
        /\ refreshToken' = [refreshToken EXCEPT ![t] =
              [status |-> "live", userId |-> call[c].user,
               expiresAt |-> RefreshExpiry]]
        /\ origin' = [origin EXCEPT ![t] =
              [parent |-> p, by |-> c,
               session |-> IF p = None THEN t ELSE SessionOf(p)]]
    BY <1>7 DEF CreateRow, At
  <2>2. t \in Jtis /\ ~Issued(t) /\ jwt[t].sub = call[c].user
    BY <1>a, <2>1 DEF IInv, FreshOK
  <2>3. p # None => /\ Rotating(c)
                    /\ Checked(c)
                    /\ Issued(p)
                    /\ refreshToken[p].status = "revoked"
                    /\ call[c].user = jwt[p].sub
    BY <2>1 DEF Rotating, Checked, IInv, FramesOK
  <2>4. /\ call'[c] = Idle
        /\ \A d \in Callers \ {c} : call'[d] = call[d]
    BY <2>1 DEF Leave, IInv, TypeOK
  <2>5. /\ refreshToken'[t].status = "live"
        /\ refreshToken'[t].userId = call[c].user
        /\ \A r \in Jtis \ {t} : refreshToken'[r] = refreshToken[r]
    BY <2>1, <2>2 DEF IInv, TypeOK
  <2>6. /\ origin'[t].parent = p
        /\ origin'[t].by = c
        /\ \A r \in Jtis \ {t} : origin'[r] = origin[r]
    BY <2>1, <2>2 DEF IInv, TypeOK
  \* A token without a row has no successor and is in nobody's hands.
  <2>7. /\ \A d \in Callers : call[d].token # t
        /\ \A r \in Jtis : origin[r].parent # t
    BY <1>a, <2>2, NoneIsFresh
       DEF IInv, FramesOK, PredecessorRevoked, Issued
  <2>8. call[c].user # None
    BY <2>1 DEF IInv, FramesOK
  <2> HIDE DEF t, p
  <2>9. FramesOK'
    <3> SUFFICES ASSUME NEW d \in Callers
                 PROVE  /\ call'[d].at # "idle" => call'[d].user # None
                        /\ call'[d].at \in {"find", "revoke"} =>
                              call'[d].token # None
                        /\ call'[d].token # None =>
                              /\ refreshToken'[call'[d].token].status # "absent"
                              /\ call'[d].user = jwt'[call'[d].token].sub
                        /\ Rotating(d)' =>
                              refreshToken'[call'[d].token].status = "revoked"
      BY DEF FramesOK, Issued
    <3>1. CASE d = c
      BY <2>4, <3>1 DEF Idle, Rotating
    <3>2. CASE d # c
      BY <1>a, <2>1, <2>4, <2>5, <2>7, <3>2 DEF IInv, FramesOK, Issued, Rotating
    <3> QED
      BY <3>1, <3>2
  <2>10. FreshOK'
    <3>1. \A d \in Callers \ {c} : call[d].at = "create" => call[d].fresh # t
      BY <2>1 DEF IInv, FreshOK, t
    <3> QED
      BY <1>a, <2>1, <2>4, <2>5, <3>1 DEF IInv, FreshOK, Issued, Idle
  <2>11. RowsOK'
    BY <2>1, <2>2, <2>5, <2>6, <2>8 DEF IInv, RowsOK, Issued, Signed
  <2>12. PredecessorRevoked'
    BY <1>a, <2>2, <2>3, <2>5, <2>6, <2>7 DEF IInv, PredecessorRevoked, Issued, p
  <2>13. RotationKeepsUser'
    <3>1. p # None => /\ p \in Jtis /\ p # t
                      /\ refreshToken[p].userId = call[c].user
      BY <1>a, <2>2, <2>3 DEF IInv, RotationKeepsUser, p
    <3> SUFFICES ASSUME NEW r \in Jtis, Issued(r)'
                 PROVE  /\ refreshToken'[r].userId = jwt'[r].sub
                        /\ origin'[r].parent # None =>
                              refreshToken'[r].userId =
                                 refreshToken'[origin'[r].parent].userId
      BY DEF RotationKeepsUser
    <3>2. CASE r = t
      BY <2>1, <2>2, <2>5, <2>6, <3>1, <3>2
    <3>3. CASE r # t
      BY <1>a, <2>1, <2>5, <2>6, <2>7, <3>3 DEF IInv, RotationKeepsUser, Issued
    <3> QED
      BY <3>2, <3>3
  <2>14. OneSuccessorPerCaller'
    <3>1. p # None =>
             \A r \in Jtis : ~(origin[r].parent = p /\ origin[r].by = c)
      BY <2>3 DEF IInv, NotYetRotated, p
    <3> QED
      BY <2>6, <3>1 DEF IInv, OneSuccessorPerCaller
  <2>15. NotYetRotated'
    <3> SUFFICES ASSUME NEW d \in Callers, NEW r \in Jtis, Checked(d)'
                 PROVE  ~(origin'[r].parent = call'[d].token /\ origin'[r].by = d)
      BY DEF NotYetRotated
    <3>1. d # c
      BY <2>4 DEF Checked, Idle
    <3>2. Checked(d)
      BY <2>4, <3>1 DEF Checked
    <3> QED
      BY <2>4, <2>6, <3>1, <3>2 DEF IInv, NotYetRotated
  <2> QED
    BY <1>0, <2>9, <2>10, <2>11, <2>12, <2>13, <2>14, <2>15 DEF IInv
<1>8. ASSUME NEW c \in Callers, Fail(c)
      PROVE  IInv'
  <2>1. Leave(c) /\ UNCHANGED <<refreshToken, jwt, now, origin>>
    BY <1>8 DEF Fail
  <2>2. /\ call'[c] = Idle
        /\ \A d \in Callers \ {c} : call'[d] = call[d]
    BY <2>1 DEF Leave, IInv, TypeOK
  <2>3. FramesOK' /\ FreshOK' /\ NotYetRotated'
    BY <1>b, <2>1, <2>2, FramesAfterRevoking DEF Idle, Checked, Rotating
  <2> QED
    BY <1>0, <1>b, <2>1, <2>3, TableAfterRevoking DEF IInv
<1>9. ASSUME UNCHANGED <<refreshToken, jwt, call, origin>>
      PROVE  IInv'
  BY <1>0, <1>9
     DEF IInv, FramesOK, FreshOK, RowsOK, NotYetRotated, Checked, Rotating,
         PredecessorRevoked, RotationKeepsUser, OneSuccessorPerCaller, Issued,
         Signed
<1>10. CASE Tick
  BY <1>9, <1>10 DEF Tick
<1>11. CASE UNCHANGED vars
  BY <1>9, <1>11 DEF vars
<1>12. ASSUME NEW t \in Jtis, RevokeRefreshToken(t)
       PROVE  IInv'
  BY <1>3, <1>12 DEF RevokeRefreshToken
<1>13. ASSUME NEW u \in Users, RevokeAllForUser(u)
       PROVE  IInv'
  BY <1>3, <1>13 DEF RevokeAllForUser, RowsOf
<1> QED
  BY <1>1, <1>2, <1>4, <1>5, <1>6, <1>7, <1>8, <1>10, <1>11, <1>12, <1>13
     DEF Next, Step

\* The invariant holds in every reachable state.
THEOREM InvHolds == Spec => []IInv
BY InvInit, InvStep, PTL DEF Spec

(* At no moment, for any number of requests and tokens, is a rotated token *)
(* live together with a successor of it.                                   *)
THEOREM RotationRevokes == Spec => []PredecessorRevoked
<1>1. IInv => PredecessorRevoked
  BY DEF IInv
<1> QED
  BY <1>1, InvHolds, PTL

(* A session never moves to another user.                                  *)
THEOREM SessionKeepsUser == Spec => []RotationKeepsUser
<1>1. IInv => RotationKeepsUser
  BY DEF IInv
<1> QED
  BY <1>1, InvHolds, PTL

(* However many requests race with one token, each of them obtains at most *)
(* one successor.                                                          *)
THEOREM BoundedSuccessors == Spec => []OneSuccessorPerCaller
<1>1. IInv => OneSuccessorPerCaller
  BY DEF IInv
<1> QED
  BY <1>1, InvHolds, PTL

=============================================================================
