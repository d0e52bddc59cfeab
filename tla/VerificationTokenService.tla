----------------------- MODULE VerificationTokenService -----------------------
(***************************************************************************)
(* The single-use tokens of e-mail verification and password reset:        *)
(* src/auth/services/verification-token.service.ts.                        *)
(*                                                                         *)
(* consume reads the record with findFirst and marks it used with an       *)
(* update by primary key; the two are separate awaits and no transaction   *)
(* joins them, so other requests run between them.  A raw token is 32      *)
(* random bytes: it determines its hash and is determined by it.  A string *)
(* that matches no record is rejected and changes nothing.                 *)
(***************************************************************************)
EXTENDS Naturals, FiniteSets

CONSTANTS
    Callers,    \* the requests that may be in flight together
    Users,      \* the users of the service
    Tokens,     \* the raw tokens that may be generated
    Ttl,        \* lifetime of a token of each type, in ticks
    MaxTime,    \* bound on the clock
    None        \* "no user", "no token"

Types == {"EMAIL_VERIFICATION", "PASSWORD_RESET"}

ASSUME NoneIsFresh == None \notin Users \cup Tokens \cup Types
ASSUME TimeAssumption == Ttl \in [Types -> Nat] /\ MaxTime \in Nat
ASSUME CallersFinite == IsFiniteSet(Callers)

VARIABLES
    verificationToken,  \* the verification_tokens table, keyed by hash
    consuming,          \* per request: the token whose record it has read
    asked,              \* per request: the type it asked for
    now,                \* the wall clock
    uses,               \* history: how often consume has returned for a token
    granted             \* history: what each of them was returned for

vars == <<verificationToken, consuming, asked, now, uses, granted>>

NoRow == [userId |-> None, type |-> None, usedAt |-> FALSE, expiresAt |-> 0]

Init ==
    /\ verificationToken = [t \in Tokens |-> NoRow]
    /\ consuming = [c \in Callers |-> None]
    /\ asked = [c \in Callers |-> None]
    /\ now = 0
    /\ uses = [t \in Tokens |-> 0]
    /\ granted = {}

-----------------------------------------------------------------------------
Exists(t) == verificationToken[t].userId # None
Used(t)   == verificationToken[t].usedAt

\* Fault: the lifetime is subtracted, so that the expiry leaves the clock.
ExpiryBefore(ttl) == IF now < ttl THEN None ELSE now - ttl

Expiry(ttl) == now + ttl

(* create *)
Create(t, u, type) ==
    /\ ~Exists(t)
    /\ verificationToken' = [verificationToken EXCEPT ![t] =
          [userId |-> u, type |-> type, usedAt |-> FALSE,
           expiresAt |-> Expiry(Ttl[type])]]
    /\ UNCHANGED <<consuming, asked, now, uses, granted>>

(* Faults: one condition of the where clause is lost.                      *)
MatchesUsed(t, type) ==
    /\ Exists(t)
    /\ verificationToken[t].type = type
    /\ verificationToken[t].expiresAt > now

MatchesExpired(t, type) ==
    /\ Exists(t)
    /\ verificationToken[t].type = type
    /\ ~verificationToken[t].usedAt

\* The where clause of findFirst.
Matches(t, type) ==
    /\ Exists(t)
    /\ verificationToken[t].type = type
    /\ ~verificationToken[t].usedAt
    /\ verificationToken[t].expiresAt > now

(* consume, first await: the record is found; otherwise consume throws.    *)
FindRecord(c, t, type) ==
    /\ consuming[c] = None
    /\ Matches(t, type)
    /\ consuming' = [consuming EXCEPT ![c] = t]
    /\ asked' = [asked EXCEPT ![c] = type]
    /\ UNCHANGED <<verificationToken, now, uses, granted>>

Return(c, t) ==
    /\ consuming' = [consuming EXCEPT ![c] = None]
    /\ asked' = [asked EXCEPT ![c] = None]
    /\ uses' = [uses EXCEPT ![t] = @ + 1]
    /\ granted' = granted \cup
          {[token |-> t, type |-> asked[c], user |-> verificationToken[t].userId]}
    /\ UNCHANGED now

\* Fault: the record is returned without being marked.
MarkForgotten(c) ==
    /\ consuming[c] # None
    /\ Return(c, consuming[c])
    /\ UNCHANGED verificationToken

(* consume, second await: the record is marked used and its user returned. *)
MarkUsed(c) ==
    /\ consuming[c] # None
    /\ verificationToken' =
          [verificationToken EXCEPT ![consuming[c]].usedAt = TRUE]
    /\ Return(c, consuming[c])

(* The update fails, or the process stops before it: consume throws.  An   *)
(* update that took effect but whose answer was lost leaves a used token   *)
(* that nobody was answered for.                                           *)
Abandon(c) ==
    /\ consuming[c] # None
    /\ consuming' = [consuming EXCEPT ![c] = None]
    /\ asked' = [asked EXCEPT ![c] = None]
    /\ \/ UNCHANGED verificationToken
       \/ verificationToken' =
             [verificationToken EXCEPT ![consuming[c]].usedAt = TRUE]
    /\ UNCHANGED <<now, uses, granted>>

Tick ==
    /\ now < MaxTime
    /\ now' = now + 1
    /\ UNCHANGED <<verificationToken, consuming, asked, uses, granted>>

Next ==
    \/ \E t \in Tokens, u \in Users, type \in Types : Create(t, u, type)
    \/ \E c \in Callers, t \in Tokens, type \in Types : FindRecord(c, t, type)
    \/ \E c \in Callers : MarkUsed(c) \/ Abandon(c)
    \/ Tick

Spec == Init /\ [][Next]_vars

-----------------------------------------------------------------------------
Row == [userId : Users \cup {None}, type : Types \cup {None},
        usedAt : BOOLEAN, expiresAt : Nat]

\* Every variable has its type.
TypeOK ==
    /\ verificationToken \in [Tokens -> Row]
    /\ consuming \in [Callers -> Tokens \cup {None}]
    /\ asked \in [Callers -> Types \cup {None}]
    /\ now \in Nat
    /\ uses \in [Tokens -> Nat]
    /\ granted \subseteq [token : Tokens, type : Types \cup {None},
                          user : Users \cup {None}]

(* A token is not worth more than the requests that race for it: consume   *)
(* returns for one token at most as often as there are requests in flight, *)
(* however often it is presented.                                          *)
BoundedUses == \A t \in Tokens : uses[t] <= Cardinality(Callers)

(* A token that is used up or expired, and that no request has in hand,    *)
(* stays so: no request ever gets hold of it again.                        *)
Spent(t) ==
    /\ Exists(t)
    /\ Used(t) \/ verificationToken[t].expiresAt <= now
    /\ \A c \in Callers : consuming[c] # t

SpentForGood == [][\A t \in Tokens : Spent(t) => Spent(t)']_vars

(* consume returns only for a token that is, by then and for good, marked  *)
(* used, that was created for the type asked for, and whose user it gives: *)
(* a verification link never resets a password.                            *)
GrantedIsUsed ==
    \A g \in granted : /\ Used(g.token)
                       /\ verificationToken[g.token].type = g.type
                       /\ verificationToken[g.token].userId = g.user

-----------------------------------------------------------------------------
(* A claim of the documentation that the code does not meet.               *)

(* "single-use": consume returns at most once for a token.                 *)
SingleUse == \A t \in Tokens : uses[t] <= 1

=============================================================================
