------------------------ MODULE VerificationTokenProofs ------------------------
(***************************************************************************)
(* Proofs about VerificationTokenService for any number of requests, users *)
(* and tokens.                                                             *)
(*                                                                         *)
(* BoundedUses is not inductive: it counts what consume has returned and   *)
(* says nothing of the requests that are about to make it return.  The     *)
(* invariant counts both.  A request can only join those that hold a token *)
(* while the token has not been used, and then no use has been counted.    *)
(***************************************************************************)
EXTENDS VerificationTokenService, FiniteSetTheorems, TLAPS

Holders(t) == {c \in Callers : consuming[c] = t}

IInv ==
    /\ TypeOK
    /\ \A c \in Callers : consuming[c] # None =>
          /\ Exists(consuming[c])
          /\ asked[c] = verificationToken[consuming[c]].type
    /\ \A t \in Tokens : uses[t] > 0 => Exists(t) /\ Used(t)
    /\ \A t \in Tokens :
          uses[t] + Cardinality(Holders(t)) <= Cardinality(Callers)
    /\ GrantedIsUsed
    /\ \A g \in granted : Exists(g.token)

\* The requests are finitely many.
LEMMA CallersCounted == Cardinality(Callers) \in Nat
BY CallersFinite, FS_CardinalityType

\* So are those that hold a token.
LEMMA HoldersCounted ==
    ASSUME NEW t \in Tokens
    PROVE  /\ IsFiniteSet(Holders(t))
           /\ Cardinality(Holders(t)) \in Nat
           /\ Cardinality(Holders(t)) <= Cardinality(Callers)
<1>1. Holders(t) \subseteq Callers
  BY DEF Holders
<1> QED
  BY <1>1, CallersFinite, FS_Subset, FS_CardinalityType

\* The invariant holds initially.
LEMMA InvInit == Init => IInv
<1> SUFFICES ASSUME Init PROVE IInv
  OBVIOUS
<1>1. TypeOK
  BY DEF Init, TypeOK, Row, NoRow
<1>2. \A t \in Tokens : Holders(t) = {}
  BY NoneIsFresh DEF Init, Holders
<1>3. \A t \in Tokens :
         uses[t] + Cardinality(Holders(t)) <= Cardinality(Callers)
  BY <1>2, CallersCounted, FS_EmptySet DEF Init
<1> QED
  BY <1>1, <1>3 DEF Init, IInv, GrantedIsUsed

(* A request that lets go of a token leaves the other requests holding it. *)
LEMMA LettingGo ==
    ASSUME TypeOK, NEW c \in Callers, NEW t \in Tokens, consuming[c] = t,
           consuming' = [consuming EXCEPT ![c] = None]
    PROVE  /\ Cardinality(Holders(t)') = Cardinality(Holders(t)) - 1
           /\ \A r \in Tokens \ {t} : Holders(r)' = Holders(r)
<1>1. Holders(t)' = Holders(t) \ {c} /\ c \in Holders(t)
  BY NoneIsFresh DEF Holders, TypeOK
<1>2. \A r \in Tokens \ {t} : Holders(r)' = Holders(r)
  BY NoneIsFresh DEF Holders, TypeOK
<1> QED
  BY <1>1, <1>2, HoldersCounted, FS_RemoveElement

(* Marking a record used keeps the table well formed.                      *)
LEMMA MarkTyped ==
    ASSUME TypeOK, NEW t \in Tokens,
           verificationToken' = [verificationToken EXCEPT ![t].usedAt = TRUE]
    PROVE  verificationToken' \in [Tokens -> Row]
<1>1. [verificationToken[t] EXCEPT !.usedAt = TRUE] \in Row
  BY DEF TypeOK, Row
<1> QED
  BY <1>1 DEF TypeOK

\* Every step preserves the invariant.
LEMMA InvStep == IInv /\ [Next]_vars => IInv'
<1> SUFFICES ASSUME IInv, [Next]_vars
             PROVE  IInv'
  OBVIOUS
<1> USE NoneIsFresh, TimeAssumption
<1>1. ASSUME NEW t \in Tokens, NEW u \in Users, NEW type \in Types,
             Create(t, u, type)
      PROVE  IInv'
  <2>1. /\ ~Exists(t)
        /\ verificationToken' = [verificationToken EXCEPT ![t] =
              [userId |-> u, type |-> type, usedAt |-> FALSE,
               expiresAt |-> now + Ttl[type]]]
        /\ UNCHANGED <<consuming, asked, now, uses, granted>>
    BY <1>1 DEF Create, Expiry
  <2>2. TypeOK'
    BY <2>1 DEF IInv, TypeOK, Row
  <2>3. /\ \A r \in Tokens \ {t} : verificationToken'[r] = verificationToken[r]
        /\ verificationToken'[t].userId = u
    BY <2>1 DEF IInv, TypeOK
  <2>4. /\ \A c \in Callers : consuming[c] # t
        /\ \A g \in granted : g.token # t
        /\ uses[t] = 0
    BY <2>1 DEF IInv, TypeOK
  <2>5. \A c \in Callers : consuming[c] \in Tokens \cup {None}
    BY DEF IInv, TypeOK
  <2>6. \A g \in granted : g.token \in Tokens
    BY DEF IInv, TypeOK
  <2>7. GrantedIsUsed' /\ \A g \in granted' : Exists(g.token)'
    BY <2>1, <2>3, <2>4, <2>6 DEF IInv, GrantedIsUsed, Used, Exists
  <2>8. \A c \in Callers : consuming'[c] # None =>
           /\ Exists(consuming[c])'
           /\ asked'[c] = verificationToken'[consuming'[c]].type
    BY <2>1, <2>3, <2>4, <2>5 DEF IInv, Exists
  <2>9. \A r \in Tokens : uses'[r] > 0 => Exists(r)' /\ Used(r)'
    BY <2>1, <2>3, <2>4 DEF IInv, Exists, Used
  <2>10. \A r \in Tokens :
            uses'[r] + Cardinality(Holders(r)') <= Cardinality(Callers)
    BY <2>1 DEF IInv, Holders
  <2> QED
    BY <2>1, <2>2, <2>7, <2>8, <2>9, <2>10 DEF IInv
<1>2. ASSUME NEW c \in Callers, NEW t \in Tokens, NEW type \in Types,
             FindRecord(c, t, type)
      PROVE  IInv'
  <2>1. /\ consuming' = [consuming EXCEPT ![c] = t]
        /\ asked' = [asked EXCEPT ![c] = type]
        /\ UNCHANGED <<verificationToken, now, uses, granted>>
        /\ Exists(t) /\ verificationToken[t].type = type /\ ~Used(t)
        /\ consuming[c] = None
    BY <1>2 DEF FindRecord, Matches, Used
  <2>2. TypeOK'
    BY <2>1 DEF IInv, TypeOK
  <2>3. GrantedIsUsed' /\ \A g \in granted' : Exists(g.token)'
    BY <2>1 DEF IInv, GrantedIsUsed, Used, Exists
  <2>4. \A d \in Callers : consuming'[d] # None =>
           /\ Exists(consuming[d])'
           /\ asked'[d] = verificationToken'[consuming'[d]].type
    BY <2>1 DEF IInv, TypeOK, Exists
  <2>5. \A r \in Tokens : uses'[r] > 0 => Exists(r)' /\ Used(r)'
    BY <2>1 DEF IInv, Exists, Used
  \* An unused token has not made consume return yet.
  <2>6. uses'[t] = 0
    BY <2>1 DEF IInv, TypeOK
  <2>7. /\ Holders(t)' \subseteq Callers
        /\ Cardinality(Holders(t)') <= Cardinality(Callers)
        /\ Cardinality(Holders(t)') \in Nat
    <3>1. Holders(t)' \subseteq Callers
      BY DEF Holders
    <3> QED
      BY <3>1, CallersFinite, FS_Subset, FS_CardinalityType
  <2>8. \A r \in Tokens \ {t} : Holders(r)' = Holders(r)
    BY <2>1 DEF IInv, TypeOK, Holders
  <2>9. \A r \in Tokens :
           uses'[r] + Cardinality(Holders(r)') <= Cardinality(Callers)
    <3> TAKE r \in Tokens
    <3>1. CASE r = t
      BY <2>6, <2>7, <3>1, CallersCounted
    <3>2. CASE r # t
      BY <2>1, <2>8, <3>2 DEF IInv
    <3> QED
      BY <3>1, <3>2
  <2> QED
    BY <2>2, <2>3, <2>4, <2>5, <2>9 DEF IInv
<1>3. ASSUME NEW c \in Callers, MarkUsed(c)
      PROVE  IInv'
  <2>1. PICK t \in Tokens : t = consuming[c]
    BY <1>3 DEF MarkUsed, IInv, TypeOK
  <2>2. /\ verificationToken' = [verificationToken EXCEPT ![t].usedAt = TRUE]
        /\ consuming' = [consuming EXCEPT ![c] = None]
        /\ asked' = [asked EXCEPT ![c] = None]
        /\ uses' = [uses EXCEPT ![t] = uses[t] + 1]
        /\ granted' = granted \cup
              {[token |-> t, type |-> asked[c],
                user |-> verificationToken[t].userId]}
        /\ UNCHANGED now
    BY <1>3, <2>1 DEF MarkUsed, Return
  <2>3. Exists(t) /\ asked[c] = verificationToken[t].type
    BY <2>1 DEF IInv
  <2>4. TypeOK'
    <3>1. [token |-> t, type |-> asked[c], user |-> verificationToken[t].userId]
             \in [token : Tokens, type : Types \cup {None},
                  user : Users \cup {None}]
      BY DEF IInv, TypeOK, Row
    <3>2. verificationToken' \in [Tokens -> Row]
      BY <2>2, MarkTyped DEF IInv
    <3> QED
      BY <2>2, <3>1, <3>2 DEF IInv, TypeOK
  <2>5. /\ verificationToken'[t].usedAt
        /\ \A r \in Tokens :
              /\ verificationToken'[r].userId = verificationToken[r].userId
              /\ verificationToken'[r].type = verificationToken[r].type
              /\ verificationToken[r].usedAt => verificationToken'[r].usedAt
    BY <2>2 DEF IInv, TypeOK, Row
  <2>6. \A g \in granted' :
           g \in granted \/ /\ g.token = t /\ g.type = asked[c]
                            /\ g.user = verificationToken[t].userId
    BY <2>2
  <2>7. \A g \in granted : g.token \in Tokens
    BY DEF IInv, TypeOK
  <2>8. GrantedIsUsed' /\ \A g \in granted' : Exists(g.token)'
    BY <2>3, <2>5, <2>6, <2>7 DEF IInv, GrantedIsUsed, Used, Exists
  <2>9. \A d \in Callers : consuming'[d] # None =>
           /\ Exists(consuming[d])'
           /\ asked'[d] = verificationToken'[consuming'[d]].type
    BY <2>2, <2>5 DEF IInv, TypeOK, Exists
  <2>10. \A r \in Tokens : uses'[r] > 0 => Exists(r)' /\ Used(r)'
    BY <2>2, <2>3, <2>5 DEF IInv, TypeOK, Exists, Used
  <2>11. \A r \in Tokens :
            uses'[r] + Cardinality(Holders(r)') <= Cardinality(Callers)
    <3>1. /\ Cardinality(Holders(t)') = Cardinality(Holders(t)) - 1
          /\ \A r \in Tokens \ {t} : Holders(r)' = Holders(r)
      BY <2>1, <2>2, LettingGo DEF IInv
    <3>2. uses'[t] = uses[t] + 1 /\ \A r \in Tokens \ {t} : uses'[r] = uses[r]
      BY <2>2 DEF IInv, TypeOK
    <3> TAKE r \in Tokens
    <3>3. uses[r] \in Nat /\ uses[r] + Cardinality(Holders(r)) <= Cardinality(Callers)
      BY DEF IInv, TypeOK
    <3> QED
      BY <3>1, <3>2, <3>3, HoldersCounted, CallersCounted
  <2> QED
    BY <2>4, <2>8, <2>9, <2>10, <2>11 DEF IInv
<1>4. ASSUME NEW c \in Callers, Abandon(c)
      PROVE  IInv'
  <2>1. PICK t \in Tokens : t = consuming[c]
    BY <1>4 DEF Abandon, IInv, TypeOK
  <2>2. /\ consuming' = [consuming EXCEPT ![c] = None]
        /\ asked' = [asked EXCEPT ![c] = None]
        /\ \/ UNCHANGED verificationToken
           \/ verificationToken' =
                 [verificationToken EXCEPT ![t].usedAt = TRUE]
        /\ UNCHANGED <<now, uses, granted>>
    BY <1>4, <2>1 DEF Abandon
  <2>3. TypeOK'
    <3>1. verificationToken' \in [Tokens -> Row]
      BY <2>2, MarkTyped DEF IInv, TypeOK
    <3> QED
      BY <2>2, <3>1 DEF IInv, TypeOK
  <2>4. \A r \in Tokens :
           /\ verificationToken'[r].userId = verificationToken[r].userId
           /\ verificationToken'[r].type = verificationToken[r].type
           /\ verificationToken[r].usedAt => verificationToken'[r].usedAt
    BY <2>2 DEF IInv, TypeOK, Row
  <2>5. \A g \in granted : g.token \in Tokens
    BY DEF IInv, TypeOK
  <2>6. GrantedIsUsed' /\ \A g \in granted' : Exists(g.token)'
    BY <2>2, <2>4, <2>5 DEF IInv, GrantedIsUsed, Used, Exists
  <2>7. \A d \in Callers : consuming'[d] # None =>
           /\ Exists(consuming[d])'
           /\ asked'[d] = verificationToken'[consuming'[d]].type
    BY <2>2, <2>4 DEF IInv, TypeOK, Exists
  <2>8. \A r \in Tokens : uses'[r] > 0 => Exists(r)' /\ Used(r)'
    BY <2>2, <2>4 DEF IInv, TypeOK, Exists, Used
  <2>9. \A r \in Tokens :
           uses'[r] + Cardinality(Holders(r)') <= Cardinality(Callers)
    <3>1. /\ Cardinality(Holders(t)') = Cardinality(Holders(t)) - 1
          /\ \A r \in Tokens \ {t} : Holders(r)' = Holders(r)
      BY <2>1, <2>2, LettingGo DEF IInv
    <3> TAKE r \in Tokens
    <3>2. uses[r] \in Nat /\ uses[r] + Cardinality(Holders(r)) <= Cardinality(Callers)
      BY DEF IInv, TypeOK
    <3> QED
      BY <2>2, <3>1, <3>2, HoldersCounted, CallersCounted
  <2> QED
    BY <2>3, <2>6, <2>7, <2>8, <2>9 DEF IInv
<1>5. CASE Tick
  BY <1>5 DEF Tick, IInv, TypeOK, GrantedIsUsed, Exists, Used, Holders
<1>6. CASE UNCHANGED vars
  BY <1>6 DEF vars, IInv, TypeOK, GrantedIsUsed, Exists, Used, Holders
<1> QED
  BY <1>1, <1>2, <1>3, <1>4, <1>5, <1>6 DEF Next

\* The invariant holds in every reachable state.
THEOREM InvHolds == Spec => []IInv
BY InvInit, InvStep, PTL DEF Spec

(* Every variable keeps its type, for any number of requests and tokens.   *)
THEOREM TypeCorrect == Spec => []TypeOK
<1>1. IInv => TypeOK
  BY DEF IInv
<1> QED
  BY <1>1, InvHolds, PTL

(* A token is worth at most one use for each request that can race for it. *)
THEOREM UsesBounded == Spec => []BoundedUses
<1>1. IInv => BoundedUses
  BY HoldersCounted, CallersCounted DEF IInv, TypeOK, BoundedUses
<1> QED
  BY <1>1, InvHolds, PTL

(* consume answers only for a used token of the type that was asked for.   *)
THEOREM GrantsAreUsed == Spec => []GrantedIsUsed
<1>1. IInv => GrantedIsUsed
  BY DEF IInv
<1> QED
  BY <1>1, InvHolds, PTL

(* A used or expired token that nobody holds is out of reach for good.     *)
THEOREM SpentIsForGood == Spec => SpentForGood
<1>1. IInv /\ [Next]_vars => (\A t \in Tokens : Spent(t) => Spent(t)')
  <2> SUFFICES ASSUME IInv, [Next]_vars, NEW t \in Tokens, Spent(t)
               PROVE  Spent(t)'
    OBVIOUS
  <2> USE NoneIsFresh DEF Spent, Exists, Used
  <2>1. ASSUME NEW r \in Tokens, NEW u \in Users, NEW type \in Types,
               Create(r, u, type)
        PROVE  Spent(t)'
    BY <2>1 DEF Create, IInv, TypeOK
  <2>2. ASSUME NEW c \in Callers, NEW r \in Tokens, NEW type \in Types,
               FindRecord(c, r, type)
        PROVE  Spent(t)'
    <3>1. r # t
      BY <2>2 DEF FindRecord, Matches, IInv, TypeOK, Row
    <3> QED
      BY <2>2, <3>1 DEF FindRecord, IInv, TypeOK
  <2>3. ASSUME NEW c \in Callers, MarkUsed(c)
        PROVE  Spent(t)'
    BY <2>3 DEF MarkUsed, Return, IInv, TypeOK
  <2>4. ASSUME NEW c \in Callers, Abandon(c)
        PROVE  Spent(t)'
    BY <2>4 DEF Abandon, IInv, TypeOK
  <2>5. CASE Tick
    BY <2>5 DEF Tick, IInv, TypeOK, Row
  <2>6. CASE UNCHANGED vars
    BY <2>6 DEF vars
  <2> QED
    BY <2>1, <2>2, <2>3, <2>4, <2>5, <2>6 DEF Next
<1>2. IInv /\ [Next]_vars => [\A t \in Tokens : Spent(t) => Spent(t)']_vars
  BY <1>1
<1> QED
  BY <1>2, InvHolds, PTL DEF Spec, SpentForGood

-----------------------------------------------------------------------------
(* No two requests have read the record of one token.                      *)
Unraced ==
    \A c, d \in Callers : consuming[c] # None /\ consuming[c] = consuming[d] => c = d

\* A request that has read a record is the first to use it.
UsedOnce ==
    /\ SingleUse
    /\ \A c \in Callers : consuming[c] # None => uses[consuming[c]] = 0

(* "single-use" fails in no other way than by a race: where no two         *)
(* requests ever hold one token at a time between the two statements of    *)
(* consume, it returns at most once for a token, whatever expires, breaks  *)
(* off or is presented again.                                              *)
THEOREM SingleUseUnlessRaced == Spec /\ []Unraced => []SingleUse
<1>1. Init => UsedOnce
  BY DEF Init, UsedOnce, SingleUse
<1>2. IInv /\ UsedOnce /\ Unraced /\ [Next]_vars => UsedOnce'
  <2> SUFFICES ASSUME IInv, UsedOnce, Unraced, [Next]_vars
               PROVE  UsedOnce'
    OBVIOUS
  <2>1. /\ uses \in [Tokens -> Nat]
        /\ consuming \in [Callers -> Tokens \cup {None}]
        /\ \A t \in Tokens : ~Used(t) => uses[t] = 0
    BY DEF IInv, TypeOK
  <2>2. ASSUME UNCHANGED uses,
               \A c \in Callers : consuming'[c] \in {consuming[c], None}
        PROVE  UsedOnce'
    BY <2>2 DEF UsedOnce, SingleUse
  <2>3. ASSUME NEW c \in Callers, NEW t \in Tokens, NEW type \in Types,
               FindRecord(c, t, type)
        PROVE  UsedOnce'
    <3>1. /\ consuming' = [consuming EXCEPT ![c] = t]
          /\ uses' = uses /\ ~Used(t)
      BY <2>3 DEF FindRecord, Matches, Used
    <3> QED
      BY <2>1, <3>1 DEF UsedOnce, SingleUse
  <2>4. ASSUME NEW c \in Callers, MarkUsed(c)
        PROVE  UsedOnce'
    <3>1. /\ consuming[c] # None
          /\ consuming' = [consuming EXCEPT ![c] = None]
          /\ uses' = [uses EXCEPT ![consuming[c]] = @ + 1]
      BY <2>4 DEF MarkUsed, Return
    <3>2. consuming[c] \in Tokens /\ uses[consuming[c]] = 0
      BY <2>1, <3>1 DEF UsedOnce
    <3>3. /\ uses'[consuming[c]] = 1
          /\ \A t \in Tokens \ {consuming[c]} : uses'[t] = uses[t]
      BY <2>1, <3>1, <3>2
    <3>4. \A d \in Callers : consuming'[d] # None =>
             /\ consuming'[d] = consuming[d]
             /\ consuming[d] \in Tokens \ {consuming[c]}
      BY <2>1, <3>1 DEF Unraced
    <3> QED
      BY <3>3, <3>4 DEF UsedOnce, SingleUse
  <2>5. ASSUME NEW c \in Callers, Abandon(c)
        PROVE  UsedOnce'
    BY <2>1, <2>2, <2>5 DEF Abandon
  <2>6. ASSUME NEW t \in Tokens, NEW u \in Users, NEW type \in Types,
               Create(t, u, type)
        PROVE  UsedOnce'
    BY <2>2, <2>6 DEF Create
  <2>7. CASE Tick \/ UNCHANGED vars
    BY <2>2, <2>7 DEF Tick, vars
  <2> QED
    BY <2>3, <2>4, <2>5, <2>6, <2>7 DEF Next
<1>3. UsedOnce => SingleUse
  BY DEF UsedOnce
<1> QED
  BY <1>1, <1>2, <1>3, InvHolds, PTL DEF Spec

=============================================================================
