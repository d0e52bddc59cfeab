---------------------------- MODULE SessionProofs ----------------------------
(***************************************************************************)
(* What becomes of a whole session, proved from the invariant of           *)
(* TokenServiceProofs for any number of requests, users and tokens; and    *)
(* that TokenService implements RefreshSessions.                           *)
(***************************************************************************)
EXTENDS TokenServiceProofs

\* The facts about the variables' ranges that the proofs below use.
Ranges ==
    /\ \A c \in Callers : call[c].token \in Jtis \cup {None}
    /\ \A c \in Callers : call[c].fresh \in Jtis \cup {None}
    /\ \A c \in Callers : call[c].user \in Users \cup {None}
    /\ \A t \in Jtis : origin[t].parent \in Jtis \cup {None}
    /\ \A t \in Jtis : refreshToken[t].userId \in Users \cup {None}
    /\ \A t \in Jtis : refreshToken[t].status \in {"absent", "live", "revoked"}
    /\ \A t \in Jtis : refreshToken[t].expiresAt \in Nat
    /\ \A t \in Jtis : jwt[t].sub \in Users \cup {None}
    /\ \A t \in Jtis : jwt[t].exp \in Nat
    /\ now \in Nat

\* The ranges follow from the types.
LEMMA TypedRanges == TypeOK => Ranges
BY DEF TypeOK, Ranges, Frame, Origin, Row, Claims

\* What CreateRow does when request c creates the row of t for user u, by
\* a login if p is None and by the rotation of p otherwise.
RowCreated(c, t, p, u) ==
    /\ ~Issued(t)
    /\ p # t
    /\ p # None => /\ Rotating(c)
                   /\ refreshToken[p].status = "revoked"
                   /\ refreshToken[p].userId = u
    /\ jwt[t].sub = u
    /\ call[c].token = p
    /\ refreshToken'[t] = [status |-> "live", userId |-> u,
                           expiresAt |-> RefreshExpiry]
    /\ origin'[t] = [parent |-> p, by |-> c,
                     session |-> IF p = None THEN t ELSE SessionOf(p)]
    /\ \A r \in Jtis \ {t} : refreshToken'[r] = refreshToken[r]
    /\ \A r \in Jtis \ {t} : origin'[r] = origin[r]
    /\ call'[c] = Idle
    /\ \A d \in Callers \ {c} : call'[d] = call[d]
    /\ UNCHANGED <<jwt, now, ended>>

\* What the insertion of a row changes.
LEMMA CreateRowEffect ==
    ASSUME IInv, NEW c \in Callers, CreateRow(c)
    PROVE  \E t \in Jtis, p \in Jtis \cup {None}, u \in Users :
              RowCreated(c, t, p, u)
<1>1. Ranges
  BY TypedRanges DEF IInv
<1>2. PICK t, p, u : t = call[c].fresh /\ p = call[c].token /\ u = call[c].user
  OBVIOUS
<1>3. call[c].at = "create" /\ u \in Users /\ p \in Jtis \cup {None}
  BY <1>1, <1>2 DEF CreateRow, At, IInv, FramesOK, Ranges
<1>4. t \in Jtis /\ ~Issued(t) /\ jwt[t].sub = u
  BY <1>1, <1>2, <1>3 DEF IInv, FreshOK, Ranges
<1>5. p # None => /\ Rotating(c)
                  /\ Issued(p)
                  /\ refreshToken[p].status = "revoked"
                  /\ refreshToken[p].userId = u
  BY <1>1, <1>2, <1>3 DEF Ranges, Rotating, IInv, FramesOK, RowsOK
<1>6. p # t
  BY <1>4, <1>5, NoneIsFresh
<1>7. /\ refreshToken'[t] = [status |-> "live", userId |-> u,
                             expiresAt |-> RefreshExpiry]
      /\ \A r \in Jtis \ {t} : refreshToken'[r] = refreshToken[r]
  BY <1>2, <1>4 DEF CreateRow, IInv, TypeOK
<1>8. /\ origin'[t] = [parent |-> p, by |-> c,
                       session |-> IF p = None THEN t ELSE SessionOf(p)]
      /\ \A r \in Jtis \ {t} : origin'[r] = origin[r]
  BY <1>2, <1>4 DEF CreateRow, IInv, TypeOK
<1>9. /\ call'[c] = Idle
      /\ \A d \in Callers \ {c} : call'[d] = call[d]
      /\ UNCHANGED <<jwt, now, ended>>
  BY DEF CreateRow, Leave, IInv, TypeOK
<1>10. RowCreated(c, t, p, u)
  BY <1>2, <1>4, <1>5, <1>6, <1>7, <1>8, <1>9 DEF RowCreated
<1> QED
  BY <1>3, <1>4, <1>10

-----------------------------------------------------------------------------
(* The expiry of a row. *)

ExpInv ==
    Parsed(RefreshTtl) =>
        RowOutlivesJwt /\ \A t \in Jtis : jwt[t].exp <= now + JwtTtl

(* If ttlToMs reads the configured lifetime, no row ever expires before    *)
(* its JWT, however long a request takes between signing the one and       *)
(* creating the other: both read the setting alike.                        *)
THEOREM RowsOutlast == Spec => []RowOutlivesJwt
<1>1. Init => ExpInv
  BY Lifetimes DEF Init, ExpInv, RowOutlivesJwt, NoClaims, NoRow, Issued
<1>2. IInv /\ ExpInv /\ [Next]_vars => ExpInv'
  <2> SUFFICES ASSUME IInv, ExpInv, [Next]_vars, Parsed(RefreshTtl)
               PROVE  ExpInv'
    BY DEF ExpInv
  <2>0. JwtTtl \in Nat /\ RowTtl \in Nat /\ JwtTtl = RowTtl
    BY TimeAssumption, ParsedLifetimes DEF JwtTtl, RowTtl
  <2> USE <2>0
  <2>1. Ranges
    BY TypedRanges DEF IInv
  <2>2. ASSUME OnlyRevokes, UNCHANGED <<jwt, now>>
        PROVE  ExpInv'
    BY <2>2 DEF OnlyRevokes, ExpInv, RowOutlivesJwt, Issued
  <2>3. ASSUME UNCHANGED <<refreshToken, jwt, now>>
        PROVE  ExpInv'
    BY <2>3 DEF ExpInv, RowOutlivesJwt, Issued
  <2>4. ASSUME NEW c \in Callers, SignTokens(c)
        PROVE  ExpInv'
    <3>1. PICK t \in Jtis :
             /\ ~Signed(t)
             /\ jwt' = [jwt EXCEPT ![t] = [sub |-> call[c].user,
                                           exp |-> now + JwtTtl]]
             /\ UNCHANGED <<refreshToken, now>>
      BY <2>4 DEF SignTokens
    <3>2. ~Issued(t)
      BY <3>1 DEF IInv, RowsOK
    <3>3. /\ jwt'[t].exp = now + JwtTtl
          /\ \A r \in Jtis \ {t} : jwt'[r] = jwt[r]
      BY <3>1 DEF IInv, TypeOK
    <3> QED
      BY <2>1, <3>1, <3>2, <3>3 DEF ExpInv, RowOutlivesJwt, Issued, Ranges
  <2>5. ASSUME NEW c \in Callers, CreateRow(c)
        PROVE  ExpInv'
    <3>1. PICK t \in Jtis, p \in Jtis \cup {None}, u \in Users :
             RowCreated(c, t, p, u)
      BY <2>5, CreateRowEffect
    <3> QED
      BY <2>1, <3>1 DEF RowCreated, RefreshExpiry, ExpInv, RowOutlivesJwt, Issued, Ranges
  <2>6. ASSUME Tick
        PROVE  ExpInv'
    BY <2>1, <2>6 DEF Tick, ExpInv, RowOutlivesJwt, Issued, Ranges
  <2>7. ASSUME NEW rows \in SUBSET Jtis, RevokeRows(rows)
        PROVE  ExpInv'
    BY <2>2, <2>7, RevokeRowsOnlyRevokes DEF RevokeRows, IInv
  <2>8. ASSUME NEW c \in Callers, RevokeStored(c)
        PROVE  ExpInv'
    BY <2>2, <2>8, RevokeStoredOnlyRevokes DEF RevokeStored
  <2> QED
    BY <2>3, <2>4, <2>5, <2>6, <2>7, <2>8
       DEF Next, Step, CallIssueTokens, CallRefreshTokens, Enter, FindStored,
           Fail, RevokeRefreshToken, RevokeAllForUser, RowsOf, vars
<1>3. ExpInv => RowOutlivesJwt
  BY DEF ExpInv, RowOutlivesJwt
<1> QED
  BY <1>1, <1>2, <1>3, InvHolds, PTL DEF Spec

-----------------------------------------------------------------------------
(* The refinement. *)

(* Revoking rows of one user is a Revoke step of the sessions, or nothing. *)
LEMMA RevokeImplements ==
    ASSUME IInv, NEW S \in SUBSET Jtis, NEW u \in Users,
           \A t \in S : Live(t) /\ refreshToken[t].userId = u,
           refreshToken' = [t \in Jtis |-> IF t \in S THEN Revoked(refreshToken[t])
                                           ELSE refreshToken[t]],
           UNCHANGED origin
    PROVE  Sessions!Revoke(S, u)
<1>1. \A t \in Jtis : refreshToken[t] \in Row
  BY DEF IInv, TypeOK
<1>2. \A t \in Jtis : /\ refreshToken'[t].userId = refreshToken[t].userId
                      /\ refreshToken'[t].status =
                            IF t \in S THEN "revoked" ELSE refreshToken[t].status
  BY <1>1, RevokedKeeps DEF Live
<1>3. [t \in Jtis |-> refreshToken'[t].status] =
         [t \in Jtis |-> IF t \in S THEN "revoked"
                         ELSE [r \in Jtis |-> refreshToken[r].status][t]]
  BY <1>2
<1>4. [t \in Jtis |-> refreshToken'[t].userId] =
         [t \in Jtis |-> refreshToken[t].userId]
  BY <1>2
<1> QED
  BY <1>3, <1>4 DEF Sessions!Revoke, Live

(* TokenService implements RefreshSessions: a token's row is created live, *)
(* for the owner of a predecessor that is revoked, and ends revoked.       *)
THEOREM SessionsImplemented == Spec => ImplementsSessions
<1>1. Init => Sessions!Init
  BY DEF Init, Sessions!Init, NoRow, NoOrigin
<1>2. IInv /\ [Next]_vars => [Sessions!Next]_(Sessions!vars)
  <2> SUFFICES ASSUME IInv, [Next]_vars
               PROVE  [Sessions!Next]_(Sessions!vars)
    OBVIOUS
  <2>1. Ranges
    BY TypedRanges DEF IInv
  <2>2. ASSUME UNCHANGED <<refreshToken, origin>>
        PROVE  UNCHANGED Sessions!vars
    BY <2>2 DEF Sessions!vars
  <2>3. ASSUME NEW c \in Callers, CreateRow(c)
        PROVE  Sessions!Next
    <3>0. PICK t \in Jtis, p \in Jtis \cup {None}, u \in Users :
             RowCreated(c, t, p, u)
      BY <2>3, CreateRowEffect
    <3>1. /\ ~Issued(t) /\ p # t
          /\ p # None => /\ p \in Jtis
                         /\ refreshToken[p].status = "revoked"
                         /\ refreshToken[p].userId = u
      BY <3>0 DEF RowCreated
    <3>2. /\ refreshToken'[t].status = "live"
          /\ refreshToken'[t].userId = u
          /\ origin'[t].parent = p
          /\ \A r \in Jtis \ {t} : /\ refreshToken'[r] = refreshToken[r]
                                   /\ origin'[r] = origin[r]
      BY <3>0 DEF RowCreated
    <3>3. /\ [r \in Jtis |-> refreshToken'[r].status] =
                [[r \in Jtis |-> refreshToken[r].status] EXCEPT ![t] = "live"]
          /\ [r \in Jtis |-> refreshToken'[r].userId] =
                [[r \in Jtis |-> refreshToken[r].userId] EXCEPT ![t] = u]
          /\ [r \in Jtis |-> origin'[r].parent] =
                [[r \in Jtis |-> origin[r].parent] EXCEPT ![t] = p]
      BY <3>1, <3>2
    <3>4. CASE p = None
      <4>1. origin[t].parent = None
        BY <3>1 DEF IInv, RowsOK
      <4>2. [r \in Jtis |-> origin'[r].parent] =
               [r \in Jtis |-> origin[r].parent]
        BY <3>2, <3>4, <4>1
      <4>3. Sessions!Open(t, u)
        BY <3>1, <3>3, <4>2 DEF Sessions!Open, Issued
      <4> QED
        BY <3>1, <4>3 DEF Sessions!Next
    <3>5. CASE p # None
      <4>1. Sessions!Succeed(t, p)
        BY <3>1, <3>3, <3>5 DEF Sessions!Succeed, Issued
      <4> QED
        BY <3>1, <3>5, <4>1 DEF Sessions!Next
    <3> QED
      BY <3>4, <3>5
  <2>4. ASSUME NEW S \in SUBSET Jtis, NEW u \in Users, UNCHANGED origin,
               \A t \in S : Issued(t) /\ refreshToken[t].userId = u,
               refreshToken' = [t \in Jtis |->
                  IF t \in S THEN Revoked(refreshToken[t]) ELSE refreshToken[t]]
        PROVE  Sessions!Next
    <3> DEFINE L == {t \in S : Live(t)}
    <3>1. refreshToken' = [t \in Jtis |->
             IF t \in L THEN Revoked(refreshToken[t]) ELSE refreshToken[t]]
      BY <2>4 DEF Revoked, Live
    <3>2. Sessions!Revoke(L, u)
      BY <2>4, <3>1, RevokeImplements
    <3> QED
      BY <3>2 DEF Sessions!Next
  <2>5. ASSUME NEW t \in Jtis, Issued(t), UNCHANGED origin,
               refreshToken' = [r \in Jtis |->
                  IF r \in {t} THEN Revoked(refreshToken[r]) ELSE refreshToken[r]]
        PROVE  Sessions!Next
    <3>1. PICK u \in Users : refreshToken[t].userId = u
      BY <2>1, <2>5 DEF IInv, RowsOK, Signed, Ranges
    <3>2. PICK S \in SUBSET Jtis : S = {t}
      OBVIOUS
    <3>3. /\ \A r \in S : Issued(r) /\ refreshToken[r].userId = u
          /\ refreshToken' = [r \in Jtis |->
                IF r \in S THEN Revoked(refreshToken[r]) ELSE refreshToken[r]]
      BY <2>5, <3>1, <3>2
    <3> QED
      BY <2>4, <2>5, <3>3
  <2>6. ASSUME NEW t \in Jtis, RevokeRefreshToken(t)
        PROVE  Sessions!Next
    BY <2>5, <2>6 DEF RevokeRefreshToken, RevokeRows
  <2>7. ASSUME NEW u \in Users, RevokeAllForUser(u)
        PROVE  Sessions!Next
    <3>1. PICK S \in SUBSET Jtis : S = RowsOf(u)
      BY DEF RowsOf
    <3> QED
      BY <2>4, <2>7, <3>1 DEF RevokeAllForUser, RevokeRows, RowsOf
  <2>8. ASSUME NEW c \in Callers, RevokeStored(c)
        PROVE  Sessions!Next
    <3>1. PICK t \in Jtis : t = call[c].token /\ Issued(t)
      BY <2>1, <2>8, NoneIsFresh DEF RevokeStored, At, IInv, FramesOK, Ranges
    <3>2. refreshToken' = [r \in Jtis |->
             IF r \in {t} THEN Revoked(refreshToken[r]) ELSE refreshToken[r]]
      BY <2>8, <3>1 DEF RevokeStored, IInv, TypeOK
    <3>3. UNCHANGED origin
      BY <2>8 DEF RevokeStored
    <3> QED
      BY <2>5, <3>1, <3>2, <3>3
  <2> QED
    BY <2>2, <2>3, <2>6, <2>7, <2>8
       DEF Next, Step, CallIssueTokens, CallRefreshTokens, Enter, FindStored,
           SignTokens, Fail, Tick, vars
<1> QED
  BY <1>1, <1>2, InvHolds, PTL DEF Spec, ImplementsSessions, Sessions!Spec

-----------------------------------------------------------------------------
(* The end of a session. *)

(* A session that is over stays over, for any number of requests: a        *)
(* request whose check has not passed yet finds no live token to rotate.   *)
THEOREM OverIsForGood == Spec => OverForGood
<1>1. IInv /\ [Next]_vars => (\A s \in Jtis : Over(s) => Over(s)')
  <2> SUFFICES ASSUME IInv, [Next]_vars, NEW s \in Jtis, Over(s)
               PROVE  Over(s)'
    OBVIOUS
  <2>1. Ranges
    BY TypedRanges DEF IInv
  <2>2. ASSUME OnlyRevokes, UNCHANGED origin,
               \A t \in Jtis : ~Live(t) => ~Live(t)',
               \A d \in Callers : Checked(d)' =>
                  Checked(d) /\ call'[d].token = call[d].token
        PROVE  Over(s)'
    BY <2>2, NoneIsFresh
       DEF Over, OnlyRevokes, Issued, Checked, SessionOf
  <2>3. ASSUME UNCHANGED <<refreshToken, origin>>,
               \A d \in Callers : Checked(d)' =>
                  Checked(d) /\ call'[d].token = call[d].token
        PROVE  Over(s)'
    BY <2>3, NoneIsFresh DEF Over, Live, Issued, Checked, SessionOf
  <2>4. ASSUME NEW c \in Callers, NEW u \in Users, CallIssueTokens(c, u)
        PROVE  Over(s)'
    BY <2>3, <2>4 DEF CallIssueTokens, Enter, Idle, Checked, IInv, TypeOK
  <2>5. ASSUME NEW c \in Callers, NEW t \in Jtis, CallRefreshTokens(c, t)
        PROVE  Over(s)'
    BY <2>3, <2>5 DEF CallRefreshTokens, Enter, Idle, Checked, IInv, TypeOK
  <2>6. ASSUME NEW rows \in SUBSET Jtis, RevokeRows(rows)
        PROVE  Over(s)'
    <3>1. \A t \in Jtis : ~Live(t) => ~Live(t)'
      BY <2>6 DEF RevokeRows, Live, Revoked
    <3> QED
      BY <2>2, <2>6, <3>1, RevokeRowsOnlyRevokes DEF IInv, RevokeRows, Checked
  <2>7. ASSUME NEW c \in Callers, FindStored(c)
        PROVE  Over(s)'
    <3>1. UNCHANGED <<refreshToken, jwt, now, origin, ended>>
      BY <2>7 DEF FindStored
    <3>2. CASE Usable(refreshToken[call[c].token])
      <4>1. call[c].token \in Jtis /\ Live(call[c].token)
        BY <2>1, <2>7, <3>2
           DEF FindStored, At, IInv, FramesOK, Ranges, Usable, Live
      <4>2. SessionOf(call[c].token) # s
        BY <4>1 DEF Over
      <4>3. /\ \A d \in Callers : call'[d].token = call[d].token
            /\ \A d \in Callers \ {c} : call'[d].at = call[d].at
        BY <2>7, <3>2 DEF FindStored, GoTo, IInv, TypeOK, Frame
      <4> QED
        BY <3>1, <4>2, <4>3 DEF Over, Live, Issued, SessionOf
    <3>3. CASE ~Usable(refreshToken[call[c].token])
      BY <2>3, <2>7, <3>1, <3>3
         DEF FindStored, Leave, Idle, Checked, IInv, TypeOK
    <3> QED
      BY <3>2, <3>3
  <2>8. ASSUME NEW c \in Callers, RevokeStored(c)
        PROVE  Over(s)'
    <3>1. call[c].token \in Jtis /\ call[c].at = "revoke"
      BY <2>1, <2>8 DEF RevokeStored, At, IInv, FramesOK, Ranges
    <3>2. \A t \in Jtis : ~Live(t) => ~Live(t)'
      BY <2>8, <3>1 DEF RevokeStored, Live, Revoked, IInv, TypeOK
    <3>3. Checked(c)
      BY <3>1, NoneIsFresh DEF Checked
    <3>4. /\ \A d \in Callers : call'[d].token = call[d].token
          /\ \A d \in Callers \ {c} : call'[d].at = call[d].at
      BY <2>8 DEF RevokeStored, GoTo, IInv, TypeOK, Frame
    <3> QED
      BY <2>2, <2>8, <3>2, <3>3, <3>4, RevokeStoredOnlyRevokes
         DEF RevokeStored, Checked
  <2>9. ASSUME NEW c \in Callers, SignTokens(c)
        PROVE  Over(s)'
    <3>1. /\ call[c].at = "sign"
          /\ \A d \in Callers : call'[d].token = call[d].token
          /\ \A d \in Callers \ {c} : call'[d].at = call[d].at
      BY <2>9 DEF SignTokens, At, IInv, TypeOK, Frame
    <3>2. UNCHANGED <<refreshToken, origin>>
      BY <2>9 DEF SignTokens
    <3> QED
      BY <2>3, <3>1, <3>2 DEF Checked
  <2>10. ASSUME NEW c \in Callers, CreateRow(c)
         PROVE  Over(s)'
    <3>1. PICK t \in Jtis, p \in Jtis \cup {None}, u \in Users :
             RowCreated(c, t, p, u)
      BY <2>10, CreateRowEffect
    <3>2. s # t
      BY <3>1 DEF RowCreated, Over
    \* The request held p past the check, so p's session is another one.
    <3>3. SessionOf(t)' # s
      BY <3>1, <3>2 DEF RowCreated, Over, Rotating, SessionOf
    <3> QED
      BY <3>1, <3>2, <3>3
         DEF RowCreated, Over, Live, Issued, SessionOf, Idle
  <2>11. ASSUME NEW c \in Callers, Fail(c)
         PROVE  Over(s)'
    BY <2>3, <2>11 DEF Fail, Leave, Idle, Checked, IInv, TypeOK
  <2>12. CASE Tick
    BY <2>3, <2>12 DEF Tick, Checked
  <2>13. CASE UNCHANGED vars
    BY <2>3, <2>13 DEF vars, Checked
  <2> QED
    BY <2>4, <2>5, <2>6, <2>7, <2>8, <2>9, <2>10, <2>11, <2>12, <2>13
       DEF Next, Step, RevokeRefreshToken, RevokeAllForUser, RowsOf
<1>2. IInv /\ [Next]_vars => [\A s \in Jtis : Over(s) => Over(s)']_vars
  BY <1>1
<1> QED
  BY <1>2, InvHolds, PTL DEF Spec, OverForGood

(* Rotation never ends a session by itself: a session that no logout and   *)
(* no failed rotation ended has a live token or will have one when the     *)
(* rotation that is under way creates its row.                             *)
THEOREM RotationNeverEnds == Spec => []RotationNeverEndsSession
<1>1. Init => RotationNeverEndsSession
  BY DEF Init, RotationNeverEndsSession, Issued, NoRow
<1>2. IInv /\ RotationNeverEndsSession /\ [Next]_vars
         => RotationNeverEndsSession'
  <2> SUFFICES ASSUME IInv, RotationNeverEndsSession, [Next]_vars,
                      NEW s \in Jtis, Issued(s)', SessionOf(s)' = s, s \notin ended'
               PROVE  \/ \E t \in Jtis : Live(t)' /\ SessionOf(t)' = s
                      \/ \E d \in Callers : /\ Rotating(d)'
                                            /\ SessionOf(call[d].token)' = s
    BY DEF RotationNeverEndsSession
  <2> DEFINE Goal == \/ \E t \in Jtis : Live(t)' /\ SessionOf(t)' = s
                     \/ \E d \in Callers : /\ Rotating(d)'
                                           /\ SessionOf(call[d].token)' = s
  <2>1. Ranges
    BY TypedRanges DEF IInv
  <2>2. ASSUME Issued(s), UNCHANGED origin, ended \subseteq ended'
        PROVE  \/ \E t \in Jtis : Live(t) /\ SessionOf(t)' = s
               \/ \E d \in Callers : /\ Rotating(d)
                                     /\ origin'[call[d].token].session = s
    BY <2>2 DEF RotationNeverEndsSession, SessionOf
  <2>3. ASSUME UNCHANGED <<refreshToken, origin>>, ended \subseteq ended',
               \A d \in Callers : Rotating(d) =>
                  Rotating(d)' /\ call'[d].token = call[d].token
        PROVE  Goal
    BY <2>2, <2>3 DEF Live, Issued, SessionOf
  <2>4. ASSUME NEW c \in Callers, NEW u \in Users, CallIssueTokens(c, u)
        PROVE  Goal
    BY <2>3, <2>4 DEF CallIssueTokens, Enter, Idle, Rotating, IInv, TypeOK
  <2>5. ASSUME NEW c \in Callers, NEW t \in Jtis, CallRefreshTokens(c, t)
        PROVE  Goal
    BY <2>3, <2>5 DEF CallRefreshTokens, Enter, Idle, Rotating, IInv, TypeOK
  <2>6. ASSUME NEW rows \in SUBSET Jtis, RevokeRows(rows)
        PROVE  Goal
    <3>1. Issued(s)
      BY <2>6, RevokeRowsOnlyRevokes DEF IInv, OnlyRevokes, Issued
    <3>2. ASSUME NEW t \in Jtis, Live(t), SessionOf(t) = s
          PROVE  Live(t)' /\ SessionOf(t)' = s
      <4>1. t \notin rows
        BY <2>6, <3>2 DEF RevokeRows
      <4> QED
        BY <2>6, <3>2, <4>1 DEF RevokeRows, Live, SessionOf
    <3>3. UNCHANGED <<call, origin>> /\ ended \subseteq ended'
      BY <2>6 DEF RevokeRows
    <3> QED
      BY <2>2, <3>1, <3>2, <3>3 DEF Rotating, SessionOf
  <2>7. ASSUME NEW c \in Callers, FindStored(c)
        PROVE  Goal
    <3>1. \A d \in Callers : Rotating(d) => d # c
      BY <2>7 DEF FindStored, At, Rotating
    <3>2. \A d \in Callers \ {c} : call'[d] = call[d]
      BY <2>7 DEF FindStored, GoTo, Leave, IInv, TypeOK
    <3>3. UNCHANGED <<refreshToken, origin, ended>>
      BY <2>7 DEF FindStored
    <3> QED
      BY <2>3, <3>1, <3>2, <3>3 DEF Rotating
  <2>8. ASSUME NEW c \in Callers, RevokeStored(c)
        PROVE  Goal
    <3>1. /\ call[c].token \in Jtis /\ call[c].at = "revoke"
          /\ UNCHANGED <<origin, ended>>
          /\ \A t \in Jtis \ {call[c].token} : refreshToken'[t] = refreshToken[t]
      BY <2>1, <2>8 DEF RevokeStored, At, IInv, TypeOK, FramesOK, Ranges
    <3>2. /\ call'[c].at = "sign" /\ call'[c].token = call[c].token
          /\ \A d \in Callers \ {c} : call'[d] = call[d]
      BY <2>8 DEF RevokeStored, GoTo, IInv, TypeOK, Frame
    <3>3. Rotating(c)' /\ \A d \in Callers : Rotating(d) => d # c
      BY <3>1, <3>2, NoneIsFresh DEF Rotating
    <3>4. Issued(s)
      BY <2>8, RevokeStoredOnlyRevokes DEF OnlyRevokes, Issued
    \* If the token it revokes was the session's, c is now rotating it.
    <3>5. CASE SessionOf(call[c].token) = s
      BY <3>1, <3>2, <3>3, <3>5 DEF SessionOf
    <3>6. CASE SessionOf(call[c].token) # s
      BY <2>2, <3>1, <3>2, <3>3, <3>4, <3>6 DEF SessionOf, Live, Rotating
    <3> QED
      BY <3>5, <3>6
  <2>9. ASSUME NEW c \in Callers, SignTokens(c)
        PROVE  Goal
    <3>1. /\ \A d \in Callers : call'[d].token = call[d].token
          /\ \A d \in Callers \ {c} : call'[d].at = call[d].at
          /\ call'[c].at = "create"
      BY <2>9 DEF SignTokens, IInv, TypeOK, Frame
    <3>2. UNCHANGED <<refreshToken, origin, ended>>
      BY <2>9 DEF SignTokens
    <3> QED
      BY <2>3, <3>1, <3>2 DEF Rotating
  <2>10. ASSUME NEW c \in Callers, CreateRow(c)
         PROVE  Goal
    <3>1. PICK t \in Jtis, p \in Jtis \cup {None}, u \in Users :
             RowCreated(c, t, p, u)
      BY <2>10, CreateRowEffect
    <3>2. Live(t)'
      BY <3>1 DEF RowCreated, Live
    <3>3. CASE s = t
      BY <3>2, <3>3
    <3>4. CASE s # t
      <4>1. Issued(s) /\ SessionOf(s) = s /\ s \notin ended
        BY <3>1, <3>4 DEF RowCreated, Issued, SessionOf
      <4>2. CASE \E r \in Jtis : Live(r) /\ SessionOf(r) = s
        BY <3>1, <4>2 DEF RowCreated, Live, Issued, SessionOf
      <4>3. ASSUME NEW d \in Callers, Rotating(d), SessionOf(call[d].token) = s
            PROVE  Goal
        \* Either d is still rotating, or it has just created t.
        <5>1. CASE d = c
          BY <3>1, <3>2, <4>3, <5>1 DEF RowCreated, Rotating, SessionOf
        <5>2. CASE d # c
          <6>1. call[d].token \in Jtis /\ call[d].token # t
            BY <2>1, <3>1, <4>3
               DEF RowCreated, Rotating, Ranges, IInv, FramesOK
          <6> QED
            BY <3>1, <4>3, <5>2, <6>1 DEF RowCreated, Rotating, SessionOf
        <5> QED
          BY <5>1, <5>2
      <4> QED
        BY <4>1, <4>2, <4>3 DEF RotationNeverEndsSession
    <3> QED
      BY <3>3, <3>4
  <2>11. ASSUME NEW c \in Callers, Fail(c)
         PROVE  Goal
    <3>1. /\ UNCHANGED <<refreshToken, origin>> /\ ended \subseteq ended'
          /\ \A d \in Callers \ {c} : call'[d] = call[d]
      BY <2>11 DEF Fail, Leave, IInv, TypeOK
    <3>2. Rotating(c) => SessionOf(call[c].token) # s
      <4> HAVE Rotating(c)
      <4>1. call[c].token \in Jtis
        BY <2>1 DEF Ranges, Rotating
      <4> QED
        BY <2>11, <4>1 DEF Fail
    <3> QED
      BY <2>2, <3>1, <3>2 DEF Issued, Live, Rotating, SessionOf
  <2>12. CASE Tick
    BY <2>3, <2>12 DEF Tick, Rotating
  <2>13. CASE UNCHANGED vars
    BY <2>3, <2>13 DEF vars, Rotating
  <2> QED
    BY <2>4, <2>5, <2>6, <2>7, <2>8, <2>9, <2>10, <2>11, <2>12, <2>13
       DEF Next, Step, RevokeRefreshToken, RevokeAllForUser, RowsOf
<1> QED
  BY <1>1, <1>2, InvHolds, PTL DEF Spec

-----------------------------------------------------------------------------
(* One live token.  No two requests past the check on their token are      *)
(* rotating tokens of one session.                                         *)
Unraced ==
    \A c, d \in Callers :
        /\ Checked(c) /\ Checked(d)
        /\ SessionOf(call[c].token) = SessionOf(call[d].token)
        => c = d

\* What is live in a session that a request is rotating a token of: that
\* token before it is revoked, and nothing afterwards.
OneLive ==
    /\ \A t \in Jtis : Issued(t) =>
          SessionOf(t) \in Jtis /\ Issued(SessionOf(t))
    /\ OneLiveTokenPerSession
    /\ \A c \in Callers, t \in Jtis :
          /\ Live(t) /\ Checked(c)
          /\ SessionOf(t) = SessionOf(call[c].token)
          => call[c].at = "revoke" /\ t = call[c].token

(* A session has several live tokens in no other way than by a race: where *)
(* no two requests past the check ever rotate tokens of one session at a   *)
(* time, its latest token is the only one, whatever fails, is logged out   *)
(* or is presented again.                                                  *)
THEOREM OneLiveTokenUnlessRaced == Spec /\ []Unraced => []OneLiveTokenPerSession
<1>1. Init => OneLive
  BY DEF Init, OneLive, OneLiveTokenPerSession, Issued, Live, NoRow
<1>2. IInv /\ OneLive /\ Unraced /\ [Next]_vars => OneLive'
  <2> SUFFICES ASSUME IInv, OneLive, Unraced, [Next]_vars
               PROVE  OneLive'
    OBVIOUS
  <2>1. Ranges
    BY TypedRanges DEF IInv
  <2>2. ASSUME UNCHANGED origin,
               \A t \in Jtis : /\ Live(t)' => Live(t)
                               /\ Issued(t)' <=> Issued(t),
               \A d \in Callers : Checked(d)' =>
                  /\ Checked(d) /\ call'[d].token = call[d].token
                  /\ call[d].at = "revoke" /\ call'[d].at # "revoke" =>
                        ~Live(call[d].token)'
        PROVE  OneLive'
    BY <2>2 DEF OneLive, OneLiveTokenPerSession, SessionOf
  <2>3. ASSUME UNCHANGED <<refreshToken, origin>>,
               \A d \in Callers : Checked(d)' =>
                  /\ Checked(d) /\ call'[d].token = call[d].token
                  /\ call[d].at = "revoke" => call'[d].at = "revoke"
        PROVE  OneLive'
    BY <2>2, <2>3 DEF Live, Issued
  <2>4. ASSUME NEW c \in Callers, NEW u \in Users, CallIssueTokens(c, u)
        PROVE  OneLive'
    BY <2>3, <2>4 DEF CallIssueTokens, Enter, Idle, Checked, IInv, TypeOK
  <2>5. ASSUME NEW c \in Callers, NEW t \in Jtis, CallRefreshTokens(c, t)
        PROVE  OneLive'
    BY <2>3, <2>5 DEF CallRefreshTokens, Enter, Idle, Checked, IInv, TypeOK
  <2>6. ASSUME NEW rows \in SUBSET Jtis, RevokeRows(rows)
        PROVE  OneLive'
    <3>1. \A t \in Jtis : /\ Live(t)' => Live(t)
                          /\ Issued(t)' <=> Issued(t)
      BY <2>6 DEF RevokeRows, Live, Issued, Revoked, IInv, TypeOK, Row
    <3> QED
      BY <2>2, <2>6, <3>1 DEF RevokeRows, Checked
  <2>7. ASSUME NEW c \in Callers, FindStored(c)
        PROVE  OneLive'
    <3>1. UNCHANGED <<refreshToken, jwt, now, origin, ended>>
      BY <2>7 DEF FindStored
    <3>2. CASE Usable(refreshToken[call[c].token])
      <4>1. call[c].token \in Jtis /\ Live(call[c].token)
        BY <2>1, <2>7, <3>2
           DEF FindStored, At, IInv, FramesOK, Ranges, Usable, Live
      <4>2. /\ \A d \in Callers : call'[d].token = call[d].token
            /\ \A d \in Callers \ {c} : call'[d].at = call[d].at
            /\ call'[c].at = "revoke"
        BY <2>7, <3>2 DEF FindStored, GoTo, IInv, TypeOK, Frame
      <4>3. \A t \in Jtis : Live(t) /\ SessionOf(t) = SessionOf(call[c].token)
               => t = call[c].token
        BY <4>1 DEF OneLive, OneLiveTokenPerSession
      <4>4. \A d \in Callers \ {c} : Checked(d)' <=> Checked(d)
        BY <4>2 DEF Checked
      <4> QED
        BY <3>1, <4>2, <4>3, <4>4
           DEF OneLive, OneLiveTokenPerSession, Live, Issued, SessionOf
    <3>3. CASE ~Usable(refreshToken[call[c].token])
      BY <2>3, <2>7, <3>1, <3>3
         DEF FindStored, Leave, Idle, Checked, IInv, TypeOK
    <3> QED
      BY <3>2, <3>3
  <2>8. ASSUME NEW c \in Callers, RevokeStored(c)
        PROVE  OneLive'
    <3>1. call[c].token \in Jtis /\ call[c].at = "revoke" /\ UNCHANGED origin
      BY <2>1, <2>8 DEF RevokeStored, At, IInv, FramesOK, Ranges
    <3>2. /\ \A t \in Jtis \ {call[c].token} : refreshToken'[t] = refreshToken[t]
          /\ refreshToken'[call[c].token].status = "revoked"
          /\ Issued(call[c].token)
      BY <2>8, <3>1, RevokeStoredOnlyRevokes
         DEF RevokeStored, IInv, TypeOK, FramesOK
    <3>3. \A t \in Jtis : /\ Live(t)' => Live(t)
                          /\ Issued(t)' <=> Issued(t)
      BY <3>1, <3>2 DEF Live, Issued
    <3>4. ~Live(call[c].token)'
      BY <2>8, <3>1, <3>2 DEF Live, RevokeStored, GoTo, IInv, TypeOK, Frame
    <3>5. /\ \A d \in Callers : call'[d].token = call[d].token
          /\ \A d \in Callers \ {c} : call'[d].at = call[d].at
      BY <2>8 DEF RevokeStored, GoTo, IInv, TypeOK, Frame
    <3>6. Checked(c)
      BY <3>1, NoneIsFresh DEF Checked
    <3> QED
      BY <2>2, <3>1, <3>3, <3>4, <3>5, <3>6 DEF Checked
  <2>9. ASSUME NEW c \in Callers, SignTokens(c)
        PROVE  OneLive'
    <3>1. /\ call[c].at = "sign" /\ call'[c].at = "create"
          /\ \A d \in Callers : call'[d].token = call[d].token
          /\ \A d \in Callers \ {c} : call'[d].at = call[d].at
      BY <2>9 DEF SignTokens, At, IInv, TypeOK, Frame
    <3>2. UNCHANGED <<refreshToken, origin>>
      BY <2>9 DEF SignTokens
    <3> QED
      BY <2>3, <3>1, <3>2 DEF Checked
  <2>10. ASSUME NEW c \in Callers, CreateRow(c)
         PROVE  OneLive'
    <3>1. PICK t \in Jtis, p \in Jtis \cup {None}, u \in Users :
             RowCreated(c, t, p, u)
      BY <2>10, CreateRowEffect
    <3>2. /\ ~Issued(t) /\ Live(t)' /\ Issued(t)'
          /\ SessionOf(t)' = IF p = None THEN t ELSE SessionOf(p)
          /\ \A r \in Jtis \ {t} : /\ Live(r)' <=> Live(r)
                                   /\ Issued(r)' <=> Issued(r)
                                   /\ SessionOf(r)' = SessionOf(r)
      BY <3>1 DEF RowCreated, Live, Issued, SessionOf
    <3>3. /\ call[c].token = p /\ ~Checked(c)'
          /\ \A d \in Callers \ {c} : call'[d] = call[d]
      BY <3>1 DEF RowCreated, Checked, Idle
    <3>4. ASSUME NEW d \in Callers, Checked(d)'
          PROVE  /\ d # c /\ Checked(d) /\ call'[d] = call[d]
                 /\ call[d].token \in Jtis \ {t}
      <4>1. d # c /\ call'[d] = call[d] /\ Checked(d)
        BY <3>3, <3>4 DEF Checked
      <4> QED
        BY <2>1, <3>2, <4>1 DEF Checked, Ranges, IInv, FramesOK
    <3>5. CASE p = None
      <4>1. \A r \in Jtis : Issued(r) => SessionOf(r) # t
        BY <3>2 DEF OneLive
      <4>2. \A r \in Jtis : Live(r) => Issued(r)
        BY DEF Live, Issued
      <4>3. \A d \in Callers : Checked(d) => Issued(call[d].token)
        BY DEF Checked, IInv, FramesOK
      <4>4. \A r \in Jtis : Issued(r)' =>
               \E x \in Jtis : SessionOf(r)' = x /\ Issued(x)'
        BY <3>2, <3>5, <4>1 DEF OneLive
      <4>5. OneLiveTokenPerSession'
        BY <3>2, <3>5, <4>1, <4>2 DEF OneLive, OneLiveTokenPerSession
      <4> QED
        BY <3>2, <3>4, <3>5, <4>1, <4>2, <4>3, <4>4, <4>5 DEF OneLive
    <3>6. CASE p # None
      <4>1. p \in Jtis \ {t} /\ Issued(p) /\ Checked(c) /\ call[c].at # "revoke"
        BY <3>1, <3>6 DEF RowCreated, Rotating, Checked, Issued
      <4>2. \A r \in Jtis : Live(r) => SessionOf(r) # SessionOf(p)
        BY <3>3, <4>1 DEF OneLive
      <4>3. \A d \in Callers \ {c} : Checked(d) =>
               SessionOf(call[d].token) # SessionOf(p)
        BY <3>3, <4>1 DEF Unraced
      <4>4. \A r \in Jtis : Issued(r)' =>
               \E x \in Jtis : SessionOf(r)' = x /\ Issued(x)'
        BY <3>2, <3>6, <4>1 DEF OneLive
      <4>5. OneLiveTokenPerSession'
        BY <3>2, <3>6, <4>2 DEF OneLive, OneLiveTokenPerSession
      <4> QED
        BY <3>2, <3>4, <3>6, <4>2, <4>3, <4>4, <4>5 DEF OneLive
    <3> QED
      BY <3>5, <3>6
  <2>11. ASSUME NEW c \in Callers, Fail(c)
         PROVE  OneLive'
    BY <2>3, <2>11 DEF Fail, Leave, Idle, Checked, IInv, TypeOK
  <2>12. CASE Tick
    BY <2>3, <2>12 DEF Tick, Checked
  <2>13. CASE UNCHANGED vars
    BY <2>3, <2>13 DEF vars, Checked
  <2> QED
    BY <2>4, <2>5, <2>6, <2>7, <2>8, <2>9, <2>10, <2>11, <2>12, <2>13
       DEF Next, Step, RevokeRefreshToken, RevokeAllForUser, RowsOf
<1>3. OneLive => OneLiveTokenPerSession
  BY DEF OneLive
<1> QED
  BY <1>1, <1>2, <1>3, InvHolds, PTL DEF Spec

=============================================================================
