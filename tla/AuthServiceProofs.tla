--------------------------- MODULE AuthServiceProofs ---------------------------
(***************************************************************************)
(* Proofs about AuthService for any number of requests, users, refresh     *)
(* tokens and links.                                                       *)
(*                                                                         *)
(* What the two token services guarantee was proved once, in their own     *)
(* proof modules: R and V are instances of these, and every step of the    *)
(* service is shown to be a step of each (or to leave it alone).  The      *)
(* invariant adds what the handlers keep between their statements:         *)
(* HandlersOK ties a handler's place to what it holds, LettersOK ties the  *)
(* mails, and the handlers that write or redeem them, to the tokens that   *)
(* they carry, and SessionsOK and PasswordsOK tie the sessions, and the    *)
(* handlers that open them, to the users table.                            *)
(***************************************************************************)
EXTENDS AuthService, FiniteSetTheorems, TLAPS

R == INSTANCE TokenServiceProofs

V == INSTANCE VerificationTokenProofs
    WITH Tokens <- Links, Ttl <- LinkTtl

-----------------------------------------------------------------------------
\* A handler is where its operation leads, and has what it needs there.
Mailing   == {"createToken", "enqueue"}
Resetting == {"updatePassword", "revokeAll"}

HandlerOK(c) ==
    /\ handler[c].at = "idle" => handler[c] = Free
    /\ handler[c].at = "insertUser" => handler[c].op = "register"
    /\ handler[c].at \in Mailing =>
          handler[c].op \in {"register", "forgotPassword"}
    /\ handler[c].at = "consume" =>
          handler[c].op \in {"verifyEmail", "resetPassword"}
    /\ handler[c].at = "markEmailVerified" => handler[c].op = "verifyEmail"
    /\ handler[c].at \in Resetting => handler[c].op = "resetPassword"
    /\ handler[c].at = "tokens" => handler[c].op \in {"login", "refresh"}
    /\ handler[c].at \in Mailing \cup Resetting \cup
                         {"insertUser", "markEmailVerified"}
       => handler[c].user \in Users
    /\ handler[c].at = "tokens" <=> call[c].at # "idle"
    /\ handler[c].at = "consume" <=> consuming[c] # None

HandlersOK == \A c \in Callers : HandlerOK(c)

\* A handler that is about to mail a verification link.
Welcoming(c) == handler[c].op = "register" /\ handler[c].at \in Mailing

Redeemed(u, name) ==
    \E job \in mailQueue :
        job.name = name /\ job.email = u /\ Verification!Used(job.link)

TypeOfJob(name) ==
    IF name = "email-verification" THEN "EMAIL_VERIFICATION" ELSE "PASSWORD_RESET"

\* A job carries the token that was created for it, and no two carry one.
JobsOK ==
    /\ \A job \in mailQueue :
          /\ users[job.email].registered
          /\ verificationToken[job.link].userId = job.email
          /\ verificationToken[job.link].type = TypeOfJob(job.name)
    /\ \A j1, j2 \in mailQueue :
          \/ j1.link = j2.link
          \/ /\ j1.name = "email-verification" /\ j2.name = "email-verification"
             /\ j1.email = j2.email
          => j1 = j2
    /\ \A l \in Links : Verification!Used(l) => Verification!Exists(l)

\* So does a handler that is about to add a job.
MailingOK ==
    /\ \A c \in Callers : handler[c].at \in Mailing =>
          users[handler[c].user].registered
    /\ \A c \in Callers : Welcoming(c) =>
          \A job \in mailQueue :
              ~(job.name = "email-verification" /\ job.email = handler[c].user)
    /\ \A c, d \in Callers :
          /\ Welcoming(c) /\ Welcoming(d)
          /\ handler[c].user = handler[d].user
          => c = d
    /\ \A c \in Callers : handler[c].at = "enqueue" =>
          LET row == verificationToken[handler[c].link]
          IN  /\ handler[c].link \in Links
              /\ row.userId = handler[c].user
              /\ row.type = TypeOf(handler[c].op)
              /\ ~row.usedAt
              /\ \A job \in mailQueue : job.link # handler[c].link
    /\ \A c, d \in Callers :
          /\ handler[c].at = "enqueue" /\ handler[d].at = "enqueue"
          /\ handler[c].link = handler[d].link
          => c = d

\* A handler redeems a link that was mailed, of the type it asked for.
RedeemingOK ==
    \A c \in Callers :
        /\ handler[c].at = "consume" =>
              /\ consuming[c] \in Mailed
              /\ asked[c] = IF handler[c].op = "verifyEmail"
                            THEN "EMAIL_VERIFICATION" ELSE "PASSWORD_RESET"
        /\ handler[c].at = "markEmailVerified" =>
              Redeemed(handler[c].user, "email-verification")
        /\ handler[c].at \in Resetting =>
              Redeemed(handler[c].user, "password-reset")

LettersOK ==
    /\ JobsOK
    /\ MailingOK
    /\ RedeemingOK
    /\ \A u \in Users : users[u].emailVerified => Redeemed(u, "email-verification")

\* A link was mailed to the user, and is unused: it verifies, or has expired.
UnusedLink(job, u) ==
    /\ job.name = "email-verification"
    /\ job.email = u
    /\ Verification!Exists(job.link)
    /\ ~Verification!Used(job.link)
    /\ verificationToken[job.link].userId = u
    /\ verificationToken[job.link].type = "EMAIL_VERIFICATION"

\* Who is not verified, and was not stranded by a failure, has such a link,
\* or a request under way that mails one or that has used it.
StrandedOK ==
    \A u \in Users :
        users[u].registered /\ ~users[u].emailVerified /\ u \notin stranded =>
            \/ \E job \in mailQueue : UnusedLink(job, u)
            \/ \E c \in Callers :
                  /\ handler[c].user = u
                  /\ \/ handler[c].op = "register" /\ handler[c].at # "insertUser"
                     \/ handler[c].at = "markEmailVerified"

\* Sessions are opened for verified users, and handlers know it before.
SessionsOK ==
    /\ SessionsOnlyForVerified
    /\ \A c \in Callers : handler[c].at = "tokens" =>
          users[call[c].user].emailVerified

\* A reset of the user's password has not revoked, or never will.
Pending(u) ==
    \/ \E c \in Callers : handler[c].at = "revokeAll" /\ handler[c].user = u
    \/ u \in unrevoked

\* A handler past the check on its token issues under a password that is
\* current, or there is a reason why it may still end in a session.
PasswordsOK ==
    /\ SurvivorsExplained
    /\ \A c \in Callers :
          handler[c].at = "tokens" /\ call[c].token # None =>
             handler[c].password = credential[call[c].token]
    /\ \A c \in Callers :
          /\ call[c].at \in {"revoke", "sign", "create"}
          /\ handler[c].password < users[call[c].user].password
          => \/ handler[c].overtaken
             \/ call[c].token \in survivors
             \/ Pending(call[c].user)

\* The types of the service's own variables.
Typed ==
    /\ users \in [Users -> User]
    /\ mailQueue \subseteq Job
    /\ handler \in [Callers -> Handler]
    /\ credential \in [Jtis -> Nat]
    /\ resetTo \in [Users -> Nat]
    /\ stranded \subseteq Users /\ unrevoked \subseteq Users
    /\ survivors \subseteq Jtis

IInv ==
    /\ Typed
    /\ R!IInv /\ V!IInv
    /\ HandlersOK
    /\ LettersOK
    /\ StrandedOK
    /\ SessionsOK
    /\ PasswordsOK

-----------------------------------------------------------------------------
(***************************************************************************)
(* The instances of the two services and those of their proofs agree, and  *)
(* the assumptions of the proofs hold of the constants they are given.     *)
(***************************************************************************)
LEMMA RefreshingAssumptions == R!NoneIsFresh /\ R!TimeAssumption
BY NoneIsFresh, TimeAssumption
   DEF R!NoneIsFresh, R!TimeAssumption, R!Ttls, R!Units, Ttls, Units

\* The same for the verification tokens.
LEMMA VerificationAssumptions ==
    V!NoneIsFresh /\ V!TimeAssumption /\ V!CallersFinite
<1>1. V!NoneIsFresh
  BY NoneIsFresh DEF V!NoneIsFresh, V!Types
<1>2. V!TimeAssumption
  BY TimeAssumption DEF V!TimeAssumption, V!Types
<1>3. V!CallersFinite
  BY CallersFinite DEF V!CallersFinite, IsFiniteSet, V!IsFiniteSet
<1> QED
  BY <1>1, <1>2, <1>3

\* A step of the token service preserves its invariant.
LEMMA RefreshingPreserved ==
    ASSUME R!IInv, [R!Next]_(R!vars)
    PROVE  R!IInv'
BY RefreshingAssumptions, R!InvStep DEF R!NoneIsFresh, R!TimeAssumption

\* A step of the verification-token service preserves its invariant.
LEMMA VerificationPreserved ==
    ASSUME V!IInv, [V!Next]_(V!vars)
    PROVE  V!IInv'
BY VerificationAssumptions, V!InvStep
   DEF V!NoneIsFresh, V!TimeAssumption, V!CallersFinite

\* Both instances compute the same lifetimes.
LEMMA SameLifetimes ==
    R!RowTtl = Refreshing!RowTtl /\ R!JwtTtl = Refreshing!JwtTtl
<1>1. R!Multiplier = Refreshing!Multiplier /\ R!SevenDays = Refreshing!SevenDays
  BY DEF R!Multiplier, Refreshing!Multiplier, R!SevenDays, Refreshing!SevenDays
<1>2. R!TtlToMs(RefreshTtl) = Refreshing!TtlToMs(RefreshTtl)
  BY <1>1 DEF R!TtlToMs, Refreshing!TtlToMs, R!Parsed, Refreshing!Parsed
<1>3. R!Timespan(RefreshTtl) = Refreshing!Timespan(RefreshTtl)
  BY DEF R!Timespan, Refreshing!Timespan
<1> QED
  BY <1>2, <1>3 DEF R!RowTtl, Refreshing!RowTtl, R!JwtTtl, Refreshing!JwtTtl

(* The steps of a method of the refresh-token service.                     *)
LEMMA SameTokenSteps ==
    ASSUME NEW c \in Callers
    PROVE  /\ Refreshing!FindStored(c) => R!Next
           /\ Refreshing!RevokeStored(c) => R!Next
           /\ Refreshing!SignTokens(c) => R!Next
           /\ Refreshing!CreateRow(c) => R!Next
           /\ Refreshing!Fail(c) => R!Next
<1> USE DEF Refreshing!At, R!At, Refreshing!GoTo, R!GoTo,
            Refreshing!Leave, R!Leave, Refreshing!Idle, R!Idle,
            Refreshing!SessionOf, R!SessionOf
<1>1. Refreshing!FindStored(c) => R!FindStored(c)
  BY DEF Refreshing!FindStored, R!FindStored, Refreshing!Usable, R!Usable
<1>2. Refreshing!RevokeStored(c) => R!RevokeStored(c)
  BY DEF Refreshing!RevokeStored, R!RevokeStored, Refreshing!Revoked, R!Revoked
<1>3. Refreshing!SignTokens(c) => R!SignTokens(c)
  BY SameLifetimes
     DEF Refreshing!SignTokens, R!SignTokens, Refreshing!Signed, R!Signed
<1>4. Refreshing!CreateRow(c) => R!CreateRow(c)
  BY SameLifetimes DEF Refreshing!CreateRow, R!CreateRow,
                       Refreshing!RefreshExpiry, R!RefreshExpiry
<1>5. Refreshing!Fail(c) => R!Fail(c)
  BY DEF Refreshing!Fail, R!Fail, Refreshing!Awaits, R!Awaits,
         Refreshing!Rotating, R!Rotating
<1>6. R!Step(c) => R!Next
  BY DEF R!Next
<1> QED
  BY <1>1, <1>2, <1>3, <1>4, <1>5, <1>6 DEF R!Step

(* Its calls.                                                              *)
LEMMA SameTokenCalls ==
    /\ \A c \in Callers, u \in Users :
          Refreshing!CallIssueTokens(c, u) => R!Next
    /\ \A c \in Callers, t \in Jtis :
          Refreshing!CallRefreshTokens(c, t) => R!Next
    /\ \A t \in Jtis : Refreshing!RevokeRefreshToken(t) => R!Next
    /\ \A u \in Users : Refreshing!RevokeAllForUser(u) => R!Next
<1> USE DEF Refreshing!Issued, R!Issued, Refreshing!Idle, R!Idle,
            Refreshing!Enter, R!Enter, Refreshing!RevokeRows, R!RevokeRows,
            Refreshing!Revoked, R!Revoked, Refreshing!Live, R!Live,
            Refreshing!SessionOf, R!SessionOf
<1>1. ASSUME NEW c \in Callers, NEW u \in Users, Refreshing!CallIssueTokens(c, u)
      PROVE  R!CallIssueTokens(c, u)
  BY <1>1 DEF Refreshing!CallIssueTokens, R!CallIssueTokens
<1>2. ASSUME NEW c \in Callers, NEW t \in Jtis,
             Refreshing!CallRefreshTokens(c, t)
      PROVE  R!CallRefreshTokens(c, t)
  BY <1>2 DEF Refreshing!CallRefreshTokens, R!CallRefreshTokens,
              Refreshing!JwtValid, R!JwtValid, Refreshing!Signed, R!Signed
<1>3. ASSUME NEW t \in Jtis, Refreshing!RevokeRefreshToken(t)
      PROVE  R!RevokeRefreshToken(t)
  BY <1>3 DEF Refreshing!RevokeRefreshToken, R!RevokeRefreshToken
<1>4. ASSUME NEW u \in Users, Refreshing!RevokeAllForUser(u)
      PROVE  R!RevokeAllForUser(u)
  BY <1>4 DEF Refreshing!RevokeAllForUser, R!RevokeAllForUser,
              Refreshing!RowsOf, R!RowsOf
<1> QED
  BY <1>1, <1>2, <1>3, <1>4 DEF R!Next

(* The steps of the verification-token service.                            *)
LEMMA SameVerificationSteps ==
    /\ \A l \in Links, u \in Users, type \in V!Types :
          Verification!Create(l, u, type) => V!Next
    /\ \A c \in Callers, l \in Links, type \in V!Types :
          Verification!FindRecord(c, l, type) => V!Next
    /\ \A c \in Callers : Verification!MarkUsed(c) => V!Next
    /\ \A c \in Callers : Verification!Abandon(c) => V!Next
<1> USE DEF Verification!Exists, V!Exists
<1>1. ASSUME NEW l \in Links, NEW u \in Users, NEW type \in V!Types,
             Verification!Create(l, u, type)
      PROVE  V!Create(l, u, type)
  BY <1>1 DEF Verification!Create, V!Create, Verification!Expiry, V!Expiry
<1>2. ASSUME NEW c \in Callers, NEW l \in Links, NEW type \in V!Types,
             Verification!FindRecord(c, l, type)
      PROVE  V!FindRecord(c, l, type)
  BY <1>2 DEF Verification!FindRecord, V!FindRecord,
              Verification!Matches, V!Matches
<1>3. ASSUME NEW c \in Callers, Verification!MarkUsed(c)
      PROVE  V!MarkUsed(c)
  BY <1>3 DEF Verification!MarkUsed, V!MarkUsed, Verification!Return, V!Return
<1>4. ASSUME NEW c \in Callers, Verification!Abandon(c)
      PROVE  V!Abandon(c)
  BY <1>4 DEF Verification!Abandon, V!Abandon
<1> QED
  BY <1>1, <1>2, <1>3, <1>4 DEF V!Next

-----------------------------------------------------------------------------
(***************************************************************************)
(* Every step of the service is a step of each of the two services, or     *)
(* leaves it alone: handlers call them only as their modules allow.        *)
(***************************************************************************)
LEMMA TokenServiceObeyed ==
    ASSUME IInv, [Next]_vars
    PROVE  [R!Next]_(R!vars)
<1>1. ASSUME UNCHANGED tokenVars
      PROVE  UNCHANGED R!vars
  BY <1>1 DEF tokenVars, R!vars
<1>2. ASSUME NEW c \in Callers, NEW u \in Users,
             Register(c, u) \/ ForgotPassword(c, u) \/ Login(c, u)
      PROVE  [R!Next]_(R!vars)
  BY <1>1, <1>2, SameTokenCalls DEF Register, ForgotPassword, Login
<1>3. ASSUME NEW c \in Callers, NEW l \in Links,
             VerifyEmail(c, l) \/ ResetPassword(c, l)
      PROVE  [R!Next]_(R!vars)
  BY <1>1, <1>3 DEF VerifyEmail, ResetPassword
<1>4. ASSUME NEW c \in Callers, NEW t \in Jtis, Refresh(c, t)
      PROVE  [R!Next]_(R!vars)
  BY <1>4, SameTokenCalls DEF Refresh
<1>5. ASSUME NEW t \in Jtis, Logout(t)
      PROVE  [R!Next]_(R!vars)
  BY <1>5, SameTokenCalls DEF Logout
<1>6. ASSUME NEW u \in Users, LogoutAll(u)
      PROVE  [R!Next]_(R!vars)
  BY <1>6, SameTokenCalls DEF LogoutAll
<1>7. ASSUME NEW c \in Callers, RevokeSessions(c)
      PROVE  [R!Next]_(R!vars)
  <2>1. handler[c].user \in Users
    BY <1>7 DEF RevokeSessions, IInv, HandlersOK, HandlerOK, Resetting
  <2> QED
    BY <1>7, <2>1, SameTokenCalls DEF RevokeSessions
<1>8. ASSUME NEW c \in Callers, TokensStep(c) \/ Fail(c)
      PROVE  [R!Next]_(R!vars)
  BY <1>1, <1>8, SameTokenSteps DEF TokensStep, OpenSession, Fail
<1>9. ASSUME NEW c \in Callers,
             \/ InsertUser(c) \/ CreateToken(c) \/ Enqueue(c) \/ Consumed(c)
             \/ MarkEmailVerified(c) \/ UpdatePassword(c)
      PROVE  [R!Next]_(R!vars)
  BY <1>1, <1>9 DEF InsertUser, CreateToken, Enqueue, Consumed,
                    MarkEmailVerified, UpdatePassword
<1>10. CASE UNCHANGED vars
  BY <1>1, <1>10 DEF vars
<1>11. CASE Tick
  BY <1>11 DEF Tick, Refreshing!Tick, R!Tick, R!Next
<1> QED
  BY <1>2, <1>3, <1>4, <1>5, <1>6, <1>7, <1>8, <1>9, <1>10, <1>11
     DEF Next, Step

\* Every step of the service is a step of the verification tokens, or none.
LEMMA VerificationServiceObeyed ==
    ASSUME IInv, [Next]_vars
    PROVE  [V!Next]_(V!vars)
<1>1. ASSUME UNCHANGED verificationVars
      PROVE  UNCHANGED V!vars
  BY <1>1 DEF verificationVars, V!vars
<1>2. ASSUME NEW c \in Callers, NEW u \in Users,
             Register(c, u) \/ ForgotPassword(c, u) \/ Login(c, u)
      PROVE  [V!Next]_(V!vars)
  BY <1>1, <1>2 DEF Register, ForgotPassword, Login
<1>3. ASSUME NEW c \in Callers, NEW l \in Links,
             VerifyEmail(c, l) \/ ResetPassword(c, l)
      PROVE  [V!Next]_(V!vars)
  BY <1>3, SameVerificationSteps DEF VerifyEmail, ResetPassword, V!Types
<1>4. ASSUME NEW c \in Callers, CreateToken(c)
      PROVE  [V!Next]_(V!vars)
  <2>1. handler[c].user \in Users
    BY <1>4 DEF CreateToken, IInv, HandlersOK, HandlerOK, Mailing
  <2>2. TypeOf(handler[c].op) \in V!Types
    BY DEF TypeOf, V!Types
  <2> QED
    BY <1>4, <2>1, <2>2, SameVerificationSteps DEF CreateToken
<1>5. ASSUME NEW c \in Callers, Consumed(c)
      PROVE  [V!Next]_(V!vars)
  BY <1>5, SameVerificationSteps DEF Consumed
<1>6. ASSUME NEW c \in Callers, Fail(c)
      PROVE  [V!Next]_(V!vars)
  BY <1>1, <1>6, SameVerificationSteps DEF Fail
<1>7. ASSUME NEW c \in Callers,
             \/ InsertUser(c) \/ Enqueue(c) \/ MarkEmailVerified(c)
             \/ UpdatePassword(c) \/ RevokeSessions(c) \/ TokensStep(c)
      PROVE  [V!Next]_(V!vars)
  BY <1>1, <1>7 DEF InsertUser, Enqueue, MarkEmailVerified, UpdatePassword,
                    RevokeSessions, TokensStep
<1>8. ASSUME NEW c \in Callers, NEW t \in Jtis, Refresh(c, t)
      PROVE  [V!Next]_(V!vars)
  BY <1>1, <1>8 DEF Refresh
<1>9. ASSUME \/ \E t \in Jtis : Logout(t)
             \/ \E u \in Users : LogoutAll(u)
      PROVE  [V!Next]_(V!vars)
  BY <1>1, <1>9 DEF Logout, LogoutAll
<1>10. CASE UNCHANGED vars
  BY <1>1, <1>10 DEF vars
<1>11. CASE Tick
  BY <1>11 DEF Tick, Refreshing!Tick, V!Tick, V!Next
<1> QED
  BY <1>2, <1>3, <1>4, <1>5, <1>6, <1>7, <1>8, <1>9, <1>10, <1>11
     DEF Next, Step

\* Hence the invariants of both services are preserved.
LEMMA ServicesPreserved ==
    ASSUME IInv, [Next]_vars
    PROVE  R!IInv' /\ V!IInv'
BY TokenServiceObeyed, VerificationServiceObeyed, RefreshingPreserved,
   VerificationPreserved DEF IInv

\* While the clock ticks nothing else moves.
LEMMA OnlyTime ==
    ASSUME Tick \/ UNCHANGED vars
    PROVE  UNCHANGED <<users, mailQueue, handler, history, refreshToken, jwt,
                       call, origin, ended, verificationToken, consuming,
                       asked, uses, granted>>
<1>1. CASE Tick
  BY <1>1 DEF Tick, Refreshing!Tick
<1>2. CASE UNCHANGED vars
  BY <1>2 DEF vars, tokenVars, verificationVars
<1> QED
  BY <1>1, <1>2

-----------------------------------------------------------------------------
(* What a frame of the refresh-token service is known to hold.             *)
LEMMA FrameFacts ==
    ASSUME R!IInv, NEW c \in Callers
    PROVE  /\ call[c] \in R!Frame
           /\ call[c].at # "idle" => call[c].user \in Users
           /\ call[c].at \in {"find", "revoke"} => call[c].token # None
           /\ call[c].token # None =>
                 /\ call[c].token \in Jtis
                 /\ refreshToken[call[c].token].status # "absent"
                 /\ refreshToken[call[c].token].userId = call[c].user
           /\ call[c].at = "create" =>
                 /\ call[c].fresh \in Jtis
                 /\ refreshToken[call[c].fresh].status = "absent"
<1>1. call[c] \in R!Frame
  BY DEF R!IInv, R!TypeOK
<1>2. call[c].at # "idle" => call[c].user \in Users
  BY <1>1 DEF R!IInv, R!FramesOK, R!Frame
<1>3. call[c].token # None => call[c].token \in Jtis
  BY <1>1 DEF R!Frame
<1>4. call[c].at = "create" => call[c].fresh \in Jtis
  BY <1>1 DEF R!IInv, R!FreshOK, R!Frame
<1> QED
  BY <1>1, <1>2, <1>3, <1>4
     DEF R!IInv, R!FramesOK, R!FreshOK, R!RowsOK, R!Issued

\* What a row of the refresh-tokens table holds.
LEMMA RowFacts ==
    ASSUME R!IInv, NEW t \in Jtis
    PROVE  /\ refreshToken[t] \in R!Row
           /\ refreshToken[t].status # "absent" =>
                 /\ refreshToken[t].userId \in Users
                 /\ jwt[t].sub = refreshToken[t].userId
<1>1. refreshToken[t] \in R!Row /\ jwt[t] \in R!Claims
  BY DEF R!IInv, R!TypeOK
<1> QED
  BY <1>1 DEF R!IInv, R!RowsOK, R!Issued, R!Signed, R!Row, R!Claims

\* What the tables of the verification-token service hold.
LEMMA LinkFacts ==
    ASSUME V!IInv
    PROVE  /\ verificationToken \in [Links -> V!Row]
           /\ \A c \in Callers :
                 /\ consuming[c] \in Links \cup {None}
                 /\ consuming[c] # None =>
                       /\ consuming[c] \in Links
                       /\ verificationToken[consuming[c]].userId \in Users
                       /\ asked[c] = verificationToken[consuming[c]].type
<1>1. /\ verificationToken \in [Links -> V!Row]
      /\ consuming \in [Callers -> Links \cup {None}]
  BY DEF V!IInv, V!TypeOK
<1> QED
  BY <1>1 DEF V!IInv, V!Exists, V!Row

-----------------------------------------------------------------------------
Ops    == {"none", "register", "forgotPassword", "verifyEmail",
           "resetPassword", "login", "refresh"}
Places == {"idle", "insertUser", "createToken", "enqueue", "consume",
           "markEmailVerified", "updatePassword", "revokeAll", "tokens"}

\* Every handler but that of c stays as it is.
OnlyHandler(c) ==
    /\ handler' \in [Callers -> Handler]
    /\ \A d \in Callers \ {c} : handler'[d] = handler[d]

(* A handler starts, moves on, and ends.                                   *)
LEMMA Started ==
    ASSUME Typed, NEW c \in Callers, NEW op \in Ops, NEW at \in Places,
           NEW u \in Users \cup {None}, Start(c, op, at, u)
    PROVE  /\ OnlyHandler(c)
           /\ handler[c] = Free
           /\ handler'[c].op = op /\ handler'[c].at = at
           /\ handler'[c].user = u
<1> DEFINE f == [Free EXCEPT !.op = op, !.at = at, !.user = u]
<1>1. Free \in Handler
  BY DEF Free, Handler
<1>2. f \in Handler /\ f.op = op /\ f.at = at /\ f.user = u
  BY <1>1, ZenonT(40) DEF Handler, Ops, Places
<1>3. handler' = [handler EXCEPT ![c] = f] /\ handler[c] = Free
  BY DEF Start
<1> HIDE DEF f
<1> QED
  BY <1>2, <1>3 DEF Typed, OnlyHandler

\* A handler moves on to its next statement.
LEMMA MovedOn ==
    ASSUME Typed, NEW c \in Callers, NEW at \in Places, GoTo(c, at)
    PROVE  /\ OnlyHandler(c)
           /\ handler'[c].at = at
           /\ handler'[c].op = handler[c].op
           /\ handler'[c].user = handler[c].user
           /\ handler'[c].link = handler[c].link
<1> DEFINE f == [handler[c] EXCEPT !.at = at]
<1>1. handler[c] \in Handler
  BY DEF Typed
<1>2. /\ f \in Handler /\ f.at = at /\ f.op = handler[c].op
      /\ f.user = handler[c].user /\ f.link = handler[c].link
  BY <1>1 DEF Handler, Places
<1>3. handler' = [handler EXCEPT ![c] = f]
  BY DEF GoTo
<1> HIDE DEF f
<1> QED
  BY <1>2, <1>3 DEF Typed, OnlyHandler

\* A handler ends.
LEMMA Finished ==
    ASSUME Typed, NEW c \in Callers, Finish(c)
    PROVE  OnlyHandler(c) /\ handler'[c] = Free
<1>1. Free \in Handler
  BY DEF Free, Handler
<1> QED
  BY <1>1 DEF Typed, OnlyHandler, Finish

-----------------------------------------------------------------------------
\* What the invariant says of the service's own variables.
Own ==
    /\ Typed
    /\ HandlersOK
    /\ LettersOK
    /\ StrandedOK
    /\ SessionsOK
    /\ PasswordsOK

\* Every request but c stays where it is.
OthersKept(c) ==
    \A d \in Callers \ {c} :
        /\ handler'[d] = handler[d]
        /\ call'[d] = call[d]
        /\ consuming'[d] = consuming[d]
        /\ asked'[d] = asked[d]

(* Each part of the invariant survives the steps that do not concern it.   *)
LEMMA HandlersKept ==
    ASSUME HandlersOK, NEW c \in Callers, OthersKept(c), HandlerOK(c)'
    PROVE  HandlersOK'
BY DEF HandlersOK, HandlerOK, OthersKept

\* A request that has no letter in hand afterwards.
LEMMA LettersKept ==
    ASSUME LettersOK, NEW c \in Callers, OthersKept(c),
           UNCHANGED <<users, mailQueue, verificationToken>>,
           handler'[c].at \in {"idle", "tokens", "insertUser"}
    PROVE  LettersOK'
<1>1. \A d \in Callers :
         handler'[d].at \notin {"idle", "tokens", "insertUser"} => d # c
  OBVIOUS
<1>2. JobsOK'
  BY DEF LettersOK, JobsOK, Verification!Used, Verification!Exists
<1>3. MailingOK'
  BY <1>1 DEF LettersOK, MailingOK, OthersKept, Welcoming, Mailing
<1>4. \A u \in Users : Redeemed(u, "email-verification")' =
                       Redeemed(u, "email-verification")
  BY DEF Redeemed, Verification!Used
<1>5. RedeemingOK'
  BY <1>1 DEF LettersOK, RedeemingOK, OthersKept, Redeemed, Mailed, Resetting,
              Verification!Used
<1> QED
  BY <1>2, <1>3, <1>4, <1>5 DEF LettersOK

\* A request that was not about to mail a verification link or to act on one.
LEMMA StrandedKept ==
    ASSUME StrandedOK, NEW c \in Callers, OthersKept(c),
           UNCHANGED <<users, mailQueue, verificationToken>>,
           stranded \subseteq stranded',
           ~(handler[c].op = "register" /\ handler[c].at # "insertUser"),
           handler[c].at # "markEmailVerified"
    PROVE  StrandedOK'
BY DEF StrandedOK, OthersKept, UnusedLink, Verification!Used,
       Verification!Exists

\* A request that issues no tokens.
LEMMA SessionsKept ==
    ASSUME R!IInv, HandlersOK, SessionsOK, NEW c \in Callers, OthersKept(c),
           UNCHANGED <<refreshToken, call>>,
           \A u \in Users : users[u].emailVerified => users'[u].emailVerified,
           handler'[c].at # "tokens"
    PROVE  SessionsOK'
<1>1. SessionsOnlyForVerified'
  BY RowFacts DEF SessionsOK, SessionsOnlyForVerified, Refreshing!Issued
<1>2. \A d \in Callers : handler'[d].at = "tokens" =>
         /\ handler[d].at = "tokens"
         /\ call[d].user \in Users
  BY FrameFacts DEF OthersKept, HandlersOK, HandlerOK
<1> QED
  BY <1>1, <1>2 DEF SessionsOK

\* A request that neither issues tokens nor revokes them.
LEMMA PasswordsKept ==
    ASSUME R!IInv, HandlersOK, PasswordsOK, NEW c \in Callers, OthersKept(c),
           UNCHANGED <<refreshToken, call, credential, survivors>>,
           unrevoked \subseteq unrevoked',
           \A u \in Users : users'[u].password = users[u].password,
           handler[c].at \notin {"tokens", "revokeAll"},
           handler'[c].at # "tokens"
    PROVE  PasswordsOK'
<1>1. \A u \in Users : Pending(u) => Pending(u)'
  BY DEF OthersKept, Pending
<1>2. \A t \in Jtis : Refreshing!Live(t) => refreshToken[t].userId \in Users
  BY RowFacts DEF Refreshing!Live
<1>3. SurvivorsExplained'
  BY <1>1, <1>2 DEF PasswordsOK, SurvivorsExplained, Pending, Refreshing!Live
<1>4. \A d \in Callers : call[d].at \in {"revoke", "sign", "create"} =>
         /\ d # c
         /\ call[d].user \in Users
  BY FrameFacts DEF HandlersOK, HandlerOK
<1>5. \A d \in Callers : handler'[d].at = "tokens" => d # c
  OBVIOUS
<1> QED
  BY <1>1, <1>3, <1>4, <1>5 DEF PasswordsOK, OthersKept

-----------------------------------------------------------------------------
(***************************************************************************)
(* One lemma per action of the handlers that send and redeem letters.      *)
(***************************************************************************)
LEMMA RegisterStep ==
    ASSUME IInv, NEW c \in Callers, NEW u \in Users, Register(c, u)
    PROVE  Own'
<1>1. /\ Start(c, "register", "insertUser", u)
      /\ UNCHANGED <<users, mailQueue, history, tokenVars, verificationVars>>
  BY DEF Register
<1>2. /\ OnlyHandler(c) /\ handler[c] = Free
      /\ handler'[c].op = "register" /\ handler'[c].at = "insertUser"
      /\ handler'[c].user = u
  BY <1>1, Started DEF IInv, Ops, Places
<1>3. OthersKept(c)
  BY <1>1, <1>2 DEF OthersKept, OnlyHandler, tokenVars, verificationVars
<1>4. Typed'
  BY <1>1, <1>2 DEF IInv, Typed, OnlyHandler, history
<1>5. HandlerOK(c)'
  BY <1>1, <1>2 DEF IInv, HandlersOK, HandlerOK, Free, Mailing, Resetting,
                    tokenVars, verificationVars
<1>6. HandlersOK' /\ LettersOK'
  BY <1>1, <1>2, <1>3, <1>5, HandlersKept, LettersKept
     DEF IInv, verificationVars
<1>7. StrandedOK'
  BY <1>1, <1>2, <1>3, StrandedKept DEF IInv, verificationVars, history, Free
<1>8. SessionsOK' /\ PasswordsOK'
  BY <1>1, <1>2, <1>3, SessionsKept, PasswordsKept
     DEF IInv, tokenVars, history, Free
<1> QED
  BY <1>4, <1>6, <1>7, <1>8 DEF Own

LEMMA ForgotPasswordStep ==
    ASSUME IInv, NEW c \in Callers, NEW u \in Users, ForgotPassword(c, u)
    PROVE  Own'
<1>1. /\ users[u].registered
      /\ Start(c, "forgotPassword", "createToken", u)
      /\ UNCHANGED <<users, mailQueue, history, tokenVars, verificationVars>>
  BY DEF ForgotPassword
<1>2. /\ OnlyHandler(c) /\ handler[c] = Free
      /\ handler'[c].op = "forgotPassword" /\ handler'[c].at = "createToken"
      /\ handler'[c].user = u
  BY <1>1, Started DEF IInv, Ops, Places
<1>3. OthersKept(c)
  BY <1>1, <1>2 DEF OthersKept, OnlyHandler, tokenVars, verificationVars
<1>4. Typed'
  BY <1>1, <1>2 DEF IInv, Typed, OnlyHandler, history
<1>5. HandlerOK(c)'
  BY <1>1, <1>2 DEF IInv, HandlersOK, HandlerOK, Free, Mailing, Resetting,
                    tokenVars, verificationVars
<1>6. HandlersOK'
  BY <1>3, <1>5, HandlersKept DEF IInv
<1>7. LettersOK'
  <2>1. ~Welcoming(c)' /\ handler'[c].at \notin {"enqueue", "consume",
                               "markEmailVerified"} \cup Resetting
    BY <1>2 DEF Welcoming, Resetting
  <2>2. JobsOK'
    BY <1>1 DEF IInv, LettersOK, JobsOK, verificationVars, Verification!Used,
                Verification!Exists
  <2>3. MailingOK'
    BY <1>1, <1>2, <1>3, <2>1
       DEF IInv, LettersOK, MailingOK, OthersKept, Welcoming, verificationVars
  <2>4. RedeemingOK'
    BY <1>1, <1>3, <2>1
       DEF IInv, LettersOK, RedeemingOK, OthersKept, Redeemed, Mailed,
           verificationVars, Verification!Used
  <2> QED
    BY <1>1, <2>2, <2>3, <2>4
       DEF IInv, LettersOK, Redeemed, verificationVars, Verification!Used
<1>8. StrandedOK'
  BY <1>1, <1>2, <1>3, StrandedKept DEF IInv, verificationVars, history, Free
<1>9. SessionsOK' /\ PasswordsOK'
  BY <1>1, <1>2, <1>3, SessionsKept, PasswordsKept
     DEF IInv, tokenVars, history, Free
<1> QED
  BY <1>4, <1>6, <1>7, <1>8, <1>9 DEF Own

\* verifyEmail and resetPassword start alike.
LEMMA RedeemStep ==
    ASSUME IInv, NEW c \in Callers, NEW l \in Links,
           VerifyEmail(c, l) \/ ResetPassword(c, l)
    PROVE  Own'
<1> DEFINE op   == handler'[c].op
           type == IF op = "verifyEmail"
                   THEN "EMAIL_VERIFICATION" ELSE "PASSWORD_RESET"
<1>1. /\ l \in Mailed
      /\ UNCHANGED <<users, mailQueue, history, tokenVars>>
      /\ \/ /\ Start(c, "verifyEmail", "consume", None)
            /\ Verification!FindRecord(c, l, "EMAIL_VERIFICATION")
         \/ /\ Start(c, "resetPassword", "consume", None)
            /\ Verification!FindRecord(c, l, "PASSWORD_RESET")
  BY DEF VerifyEmail, ResetPassword
<1>2. /\ OnlyHandler(c) /\ handler[c] = Free
      /\ op \in {"verifyEmail", "resetPassword"} /\ handler'[c].at = "consume"
      /\ Verification!FindRecord(c, l, type)
  BY <1>1, Started DEF IInv, Ops, Places
<1>3. /\ consuming' = [consuming EXCEPT ![c] = l]
      /\ asked' = [asked EXCEPT ![c] = type]
      /\ verificationToken' = verificationToken
  BY <1>2 DEF Verification!FindRecord
<1>4. /\ consuming'[c] = l /\ asked'[c] = type
      /\ \A d \in Callers \ {c} : /\ consuming'[d] = consuming[d]
                                  /\ asked'[d] = asked[d]
  BY <1>3 DEF IInv, V!IInv, V!TypeOK
<1>5. OthersKept(c)
  BY <1>1, <1>2, <1>4 DEF OthersKept, OnlyHandler, tokenVars
<1>6. Typed'
  BY <1>1, <1>2 DEF IInv, Typed, OnlyHandler, history
<1>7. HandlerOK(c)'
  BY <1>1, <1>2, <1>4, NoneIsFresh
     DEF IInv, HandlersOK, HandlerOK, Free, Mailing, Resetting, tokenVars
<1>8. HandlersOK'
  BY <1>5, <1>7, HandlersKept DEF IInv
<1>9. LettersOK'
  <2>1. ~Welcoming(c)' /\ handler'[c].at \notin {"createToken", "enqueue",
                               "markEmailVerified"} \cup Resetting
    BY <1>2 DEF Welcoming, Mailing, Resetting
  <2>2. JobsOK'
    BY <1>1, <1>3 DEF IInv, LettersOK, JobsOK, Verification!Used,
                      Verification!Exists
  <2>3. MailingOK'
    BY <1>1, <1>3, <1>5, <2>1
       DEF IInv, LettersOK, MailingOK, OthersKept, Welcoming, Mailing
  <2>4. RedeemingOK'
    BY <1>1, <1>2, <1>3, <1>4, <1>5, <2>1
       DEF IInv, LettersOK, RedeemingOK, OthersKept, Redeemed, Mailed,
           Verification!Used
  <2> QED
    BY <1>1, <1>3, <2>2, <2>3, <2>4
       DEF IInv, LettersOK, Redeemed, Verification!Used
<1>10. StrandedOK'
  BY <1>1, <1>2, <1>3, <1>5, StrandedKept DEF IInv, history, Free
<1>11. SessionsOK' /\ PasswordsOK'
  BY <1>1, <1>2, <1>5, SessionsKept, PasswordsKept
     DEF IInv, tokenVars, history, Free
<1> QED
  BY <1>6, <1>8, <1>9, <1>10, <1>11 DEF Own

LEMMA InsertUserStep ==
    ASSUME IInv, NEW c \in Callers, InsertUser(c)
    PROVE  Own'
<1> DEFINE u == handler[c].user
<1>1. /\ handler[c].op = "register" /\ handler[c].at = "insertUser"
      /\ UNCHANGED <<mailQueue, history, tokenVars, verificationVars>>
  BY DEF InsertUser, At
<1>2. u \in Users
  BY <1>1 DEF IInv, HandlersOK, HandlerOK
<1>3. CASE users[u].registered
  <2>1. Finish(c) /\ UNCHANGED users
    BY <1>3 DEF InsertUser
  <2>2. OnlyHandler(c) /\ handler'[c] = Free
    BY <2>1, Finished DEF IInv
  <2>3. OthersKept(c)
    BY <1>1, <2>2 DEF OthersKept, OnlyHandler, tokenVars, verificationVars
  <2>4. Typed'
    BY <1>1, <2>1, <2>2 DEF IInv, Typed, OnlyHandler, history
  <2>5. HandlerOK(c)'
    BY <1>1, <2>2 DEF IInv, HandlersOK, HandlerOK, Free, Mailing, Resetting,
                      tokenVars, verificationVars
  <2>6. HandlersOK' /\ LettersOK'
    BY <1>1, <2>1, <2>2, <2>3, <2>5, HandlersKept, LettersKept
       DEF IInv, verificationVars, Free
  <2>7. StrandedOK'
    BY <1>1, <2>1, <2>3, StrandedKept DEF IInv, verificationVars, history
  <2>8. SessionsOK' /\ PasswordsOK'
    BY <1>1, <2>1, <2>2, <2>3, SessionsKept, PasswordsKept
       DEF IInv, tokenVars, history, Free
  <2> QED
    BY <2>4, <2>6, <2>7, <2>8 DEF Own
<1>4. CASE ~users[u].registered
  <2>1. /\ GoTo(c, "createToken")
        /\ users' = [users EXCEPT ![u].registered = TRUE]
    BY <1>4 DEF InsertUser
  <2>2. /\ OnlyHandler(c)
        /\ handler'[c].op = "register" /\ handler'[c].at = "createToken"
        /\ handler'[c].user = u
    BY <1>1, <2>1, MovedOn DEF IInv, Places
  <2>3. /\ users' \in [Users -> User]
        /\ users'[u].registered
        /\ \A x \in Users : users[x].registered => users'[x].registered
        /\ \A x \in Users \ {u} : users'[x] = users[x]
        /\ \A x \in Users :
              /\ users'[x].emailVerified = users[x].emailVerified
              /\ users'[x].password = users[x].password
    BY <1>2, <2>1, ZenonT(40) DEF IInv, Typed, User
  <2>4. OthersKept(c)
    BY <1>1, <2>2 DEF OthersKept, OnlyHandler, tokenVars, verificationVars
  <2>5. Typed'
    BY <1>1, <2>2, <2>3 DEF IInv, Typed, OnlyHandler, history
  <2>6. HandlerOK(c)'
    BY <1>1, <1>2, <2>2 DEF IInv, HandlersOK, HandlerOK, Mailing, Resetting,
                            tokenVars, verificationVars
  <2>7. HandlersOK'
    BY <2>4, <2>6, HandlersKept DEF IInv
  <2>8. LettersOK'
    <3>1. JobsOK'
      BY <1>1, <2>3 DEF IInv, Typed, Job, LettersOK, JobsOK, verificationVars,
                        Verification!Used, Verification!Exists
    <3>2. \A d \in Callers : handler[d].at \in Mailing => handler[d].user \in Users
      BY DEF IInv, HandlersOK, HandlerOK
    <3>3. \A d \in Callers \ {c} : Welcoming(d) => handler[d].user # u
      BY <1>4, <3>2 DEF IInv, LettersOK, MailingOK, Welcoming
    <3>4. \A job \in mailQueue : job.email # u
      BY <1>4 DEF IInv, LettersOK, JobsOK
    <3>5. MailingOK'
      BY <1>1, <1>4, <2>2, <2>3, <2>4, <3>2, <3>3, <3>4
         DEF IInv, LettersOK, MailingOK, OthersKept, Welcoming, Mailing,
             verificationVars
    <3>6. RedeemingOK'
      BY <1>1, <2>2, <2>4
         DEF IInv, LettersOK, RedeemingOK, OthersKept, Redeemed, Mailed,
             Resetting, verificationVars, Verification!Used
    <3> QED
      BY <1>1, <2>3, <3>1, <3>5, <3>6
         DEF IInv, LettersOK, Redeemed, verificationVars, Verification!Used
  <2>9. StrandedOK'
    BY <1>1, <2>2, <2>3, <2>4
       DEF IInv, StrandedOK, OthersKept, UnusedLink, verificationVars,
           history, Verification!Used, Verification!Exists
  <2>10. SessionsOK' /\ PasswordsOK'
    BY <1>1, <2>2, <2>3, <2>4, SessionsKept, PasswordsKept
       DEF IInv, tokenVars, history
  <2> QED
    BY <2>5, <2>7, <2>8, <2>9, <2>10 DEF Own
<1> QED
  BY <1>3, <1>4

LEMMA CreateTokenStep ==
    ASSUME IInv, NEW c \in Callers, CreateToken(c)
    PROVE  Own'
<1> DEFINE u == handler[c].user
<1>1. /\ handler[c].at = "createToken"
      /\ UNCHANGED <<users, mailQueue, history, tokenVars>>
  BY DEF CreateToken
<1>2. PICK l \in Links :
         /\ Verification!Create(l, u, TypeOf(handler[c].op))
         /\ handler' = [handler EXCEPT ![c].at = "enqueue", ![c].link = l]
  BY DEF CreateToken
<1>3. u \in Users /\ handler[c].op \in {"register", "forgotPassword"}
  BY <1>1 DEF IInv, HandlersOK, HandlerOK, Mailing
<1>4. /\ OnlyHandler(c)
      /\ handler'[c].op = handler[c].op /\ handler'[c].at = "enqueue"
      /\ handler'[c].user = u /\ handler'[c].link = l
  <2> DEFINE f == [handler[c] EXCEPT !.at = "enqueue", !.link = l]
  <2>1. handler[c] \in Handler
    BY DEF IInv, Typed
  <2>2. /\ f \in Handler /\ f.op = handler[c].op /\ f.at = "enqueue"
        /\ f.user = u /\ f.link = l
    BY <2>1 DEF Handler
  <2>3. handler' = [handler EXCEPT ![c] = f]
    BY <1>2, <2>1 DEF IInv, Typed, Handler
  <2> HIDE DEF f
  <2> QED
    BY <2>2, <2>3 DEF IInv, Typed, OnlyHandler
<1>5. /\ verificationToken[l].userId = None
      /\ verificationToken'[l].userId = u
      /\ verificationToken'[l].type = TypeOf(handler[c].op)
      /\ ~verificationToken'[l].usedAt
      /\ \A k \in Links \ {l} : verificationToken'[k] = verificationToken[k]
      /\ UNCHANGED <<consuming, asked>>
  BY <1>2, LinkFacts DEF IInv, Verification!Create, Verification!Exists
<1>6. OthersKept(c)
  BY <1>1, <1>4, <1>5 DEF OthersKept, OnlyHandler, tokenVars
<1>7. Typed'
  BY <1>1, <1>4 DEF IInv, Typed, OnlyHandler, history
<1>8. HandlerOK(c)'
  BY <1>1, <1>3, <1>4, <1>5
     DEF IInv, HandlersOK, HandlerOK, Mailing, Resetting, tokenVars
<1>9. HandlersOK'
  BY <1>6, <1>8, HandlersKept DEF IInv
<1>10. /\ \A job \in mailQueue : job.link \in Links /\ job.link # l
       /\ \A job \in mailQueue :
             verificationToken'[job.link] = verificationToken[job.link]
  BY <1>5, NoneIsFresh DEF IInv, Typed, Job, LettersOK, JobsOK
<1>11. LettersOK'
  <2>1. JobsOK'
    BY <1>1, <1>3, <1>5, <1>10, NoneIsFresh
       DEF IInv, LettersOK, JobsOK, Verification!Used, Verification!Exists
  <2>2. \A d \in Callers : handler[d].at = "enqueue" =>
           handler[d].link # l /\ handler[d].link \in Links
    BY <1>5, NoneIsFresh
       DEF IInv, LettersOK, MailingOK, HandlersOK, HandlerOK, Mailing
  <2>3. MailingOK'
    <3>1. \A d \in Callers : Welcoming(d)' = Welcoming(d)
      BY <1>1, <1>4, <1>6 DEF OthersKept, Welcoming, Mailing
    <3>2. \A d \in Callers : handler'[d].user = handler[d].user
      BY <1>4, <1>6 DEF OthersKept
    <3> QED
      BY <1>1, <1>4, <1>5, <1>6, <1>10, <2>2, <3>1, <3>2
         DEF IInv, LettersOK, MailingOK, OthersKept, Mailing
  <2>4. RedeemingOK'
    BY <1>1, <1>4, <1>6, <1>10
       DEF IInv, LettersOK, RedeemingOK, OthersKept, Redeemed, Mailed,
           Resetting, Verification!Used
  <2> QED
    BY <1>1, <1>10, <2>1, <2>3, <2>4
       DEF IInv, LettersOK, Redeemed, Verification!Used
<1>12. StrandedOK'
  BY <1>1, <1>4, <1>6, <1>10
     DEF IInv, StrandedOK, OthersKept, UnusedLink, history,
         Verification!Used, Verification!Exists
<1>13. SessionsOK' /\ PasswordsOK'
  BY <1>1, <1>4, <1>6, SessionsKept, PasswordsKept DEF IInv, tokenVars, history
<1> QED
  BY <1>7, <1>9, <1>11, <1>12, <1>13 DEF Own

LEMMA EnqueueStep ==
    ASSUME IInv, NEW c \in Callers, Enqueue(c)
    PROVE  Own'
<1> DEFINE f   == handler[c]
           new == [name |-> JobOf(f.op), email |-> f.user, link |-> f.link]
<1>1. /\ f.at = "enqueue" /\ mailQueue' = mailQueue \cup {new} /\ Finish(c)
      /\ UNCHANGED <<users, history, tokenVars, verificationVars>>
  BY DEF Enqueue
<1>2. OnlyHandler(c) /\ handler'[c] = Free
  BY <1>1, Finished DEF IInv
<1>3. f.user \in Users /\ f.op \in {"register", "forgotPassword"}
  BY <1>1 DEF IInv, HandlersOK, HandlerOK, Mailing
<1>4. /\ users[f.user].registered
      /\ f.link \in Links
      /\ verificationToken[f.link].userId = f.user
      /\ verificationToken[f.link].type = TypeOf(f.op)
      /\ ~verificationToken[f.link].usedAt
      /\ \A job \in mailQueue : job.link # f.link
  BY <1>1 DEF IInv, LettersOK, MailingOK, Mailing
<1>5. /\ new.name = JobOf(f.op) /\ new.email = f.user /\ new.link = f.link
      /\ new \in Job /\ TypeOfJob(new.name) = TypeOf(f.op)
      /\ new.name = "email-verification" <=> f.op = "register"
  BY <1>3, <1>4 DEF Job, JobOf, TypeOf, TypeOfJob
<1> HIDE DEF new
<1>6. OthersKept(c)
  BY <1>1, <1>2 DEF OthersKept, OnlyHandler, tokenVars, verificationVars
<1>7. Typed'
  BY <1>1, <1>2, <1>5 DEF IInv, Typed, OnlyHandler, history
<1>8. HandlerOK(c)'
  BY <1>1, <1>2 DEF IInv, HandlersOK, HandlerOK, Free, Mailing, Resetting,
                    tokenVars, verificationVars
<1>9. HandlersOK'
  BY <1>6, <1>8, HandlersKept DEF IInv
<1>10. \A d \in Callers : handler'[d].at # "idle" => d # c
  BY <1>2 DEF Free
<1>11. LettersOK'
  <2>1. f.op = "register" => \A job \in mailQueue :
           ~(job.name = "email-verification" /\ job.email = f.user)
    BY <1>1 DEF IInv, LettersOK, MailingOK, Welcoming, Mailing
  <2>2. JobsOK'
    BY <1>1, <1>4, <1>5, <2>1
       DEF IInv, LettersOK, JobsOK, verificationVars, Verification!Used,
           Verification!Exists
  <2>3. \A d \in Callers \ {c} :
           /\ handler[d].at = "enqueue" => handler[d].link # f.link
           /\ f.op = "register" /\ Welcoming(d) => handler[d].user # f.user
    BY <1>1 DEF IInv, LettersOK, MailingOK, Welcoming, Mailing
  <2>4. MailingOK'
    BY <1>1, <1>5, <1>6, <1>10, <2>3
       DEF IInv, LettersOK, MailingOK, OthersKept, Welcoming, Mailing,
           verificationVars
  <2>5. RedeemingOK'
    BY <1>1, <1>6, <1>10
       DEF IInv, LettersOK, RedeemingOK, OthersKept, Redeemed, Mailed,
           Resetting, verificationVars, Verification!Used
  <2> QED
    BY <1>1, <2>2, <2>4, <2>5
       DEF IInv, LettersOK, Redeemed, verificationVars, Verification!Used
<1>12. StrandedOK'
  <2>1. f.op = "register" =>
           \A job, u : job = new /\ u = f.user => UnusedLink(job, u)'
    BY <1>1, <1>3, <1>4, <1>5, NoneIsFresh
       DEF UnusedLink, TypeOf, verificationVars, Verification!Used,
           Verification!Exists
  <2>2. \A job, u : UnusedLink(job, u)' = UnusedLink(job, u)
    BY <1>1 DEF UnusedLink, verificationVars, Verification!Used,
                Verification!Exists
  <2> QED
    BY <1>1, <1>6, <2>1, <2>2
       DEF IInv, StrandedOK, OthersKept, history
<1>13. SessionsOK' /\ PasswordsOK'
  BY <1>1, <1>2, <1>6, SessionsKept, PasswordsKept
     DEF IInv, tokenVars, history, Free
<1> QED
  BY <1>7, <1>9, <1>11, <1>12, <1>13 DEF Own

LEMMA ConsumedStep ==
    ASSUME IInv, NEW c \in Callers, Consumed(c)
    PROVE  Own'
<1> DEFINE l == consuming[c]
           u == verificationToken[consuming[c]].userId
<1>0. /\ Verification!MarkUsed(c)
      /\ handler' = [handler EXCEPT ![c].at = AfterConsume(handler[c].op),
                                    ![c].user = u]
  BY DEF Consumed
<1>1. /\ handler[c].at = "consume"
      /\ UNCHANGED <<users, mailQueue, history, tokenVars>>
  BY DEF Consumed
<1>2. /\ handler[c].op \in {"verifyEmail", "resetPassword"}
      /\ l # None /\ l \in Links /\ u \in Users
      /\ l \in Mailed
      /\ verificationToken[l].type = IF handler[c].op = "verifyEmail"
                                     THEN "EMAIL_VERIFICATION"
                                     ELSE "PASSWORD_RESET"
  BY <1>1, LinkFacts DEF IInv, HandlersOK, HandlerOK, LettersOK, RedeemingOK
<1>3. /\ verificationToken' = [verificationToken EXCEPT ![l].usedAt = TRUE]
      /\ consuming' = [consuming EXCEPT ![c] = None]
      /\ asked' = [asked EXCEPT ![c] = None]
  BY <1>0 DEF Verification!MarkUsed, Verification!Return
<1>4. /\ \A k \in Links : /\ verificationToken'[k].userId = verificationToken[k].userId
                          /\ verificationToken'[k].type = verificationToken[k].type
      /\ \A k \in Links \ {l} : verificationToken'[k] = verificationToken[k]
      /\ verificationToken'[l].usedAt
  BY <1>2, <1>3, LinkFacts DEF IInv, V!Row
<1>5. /\ consuming'[c] = None
      /\ \A d \in Callers \ {c} : /\ consuming'[d] = consuming[d]
                                  /\ asked'[d] = asked[d]
  BY <1>3 DEF IInv, V!IInv, V!TypeOK
<1>6. /\ OnlyHandler(c)
      /\ handler'[c].op = handler[c].op
      /\ handler'[c].at = AfterConsume(handler[c].op)
      /\ handler'[c].user = u
  <2> DEFINE f == [handler[c] EXCEPT !.at = AfterConsume(handler[c].op), !.user = u]
  <2>1. handler[c] \in Handler
    BY DEF IInv, Typed
  <2>2. /\ f \in Handler /\ f.op = handler[c].op
        /\ f.at = AfterConsume(handler[c].op) /\ f.user = u
    BY <1>2, <2>1 DEF Handler, AfterConsume
  <2>3. handler' = [handler EXCEPT ![c] = f]
    BY <1>0, <2>1 DEF IInv, Typed, Handler
  <2> HIDE DEF f
  <2> QED
    BY <2>2, <2>3 DEF IInv, Typed, OnlyHandler
<1> HIDE DEF l, u
<1>7. OthersKept(c)
  BY <1>1, <1>5, <1>6 DEF OthersKept, OnlyHandler, tokenVars
<1>8. Typed'
  BY <1>1, <1>6 DEF IInv, Typed, OnlyHandler, history
<1>9. HandlerOK(c)'
  BY <1>1, <1>2, <1>5, <1>6
     DEF IInv, HandlersOK, HandlerOK, Mailing, Resetting, tokenVars,
         AfterConsume
<1>10. HandlersOK'
  BY <1>7, <1>9, HandlersKept DEF IInv
<1>11. PICK mail \in mailQueue : mail.link = l
  BY <1>2 DEF Mailed
<1>12. /\ mail.email = u
       /\ mail.name = IF handler[c].op = "verifyEmail"
                      THEN "email-verification" ELSE "password-reset"
  BY <1>2, <1>11 DEF IInv, Typed, Job, LettersOK, JobsOK, TypeOfJob, u, l
<1>13. \A job \in mailQueue : job.link \in Links
  BY DEF IInv, Typed, Job
<1>14. \A x \in Users : \A name : Redeemed(x, name) => Redeemed(x, name)'
  BY <1>1, <1>4, <1>13 DEF Redeemed, Verification!Used
<1>15. /\ \A job : job = mail =>
               job \in mailQueue' /\ verificationToken'[job.link].usedAt
       /\ handler[c].op = "verifyEmail" =>
             \A x : x = u => Redeemed(x, "email-verification")'
       /\ handler[c].op = "resetPassword" =>
             \A x : x = u => Redeemed(x, "password-reset")'
  BY <1>1, <1>4, <1>11, <1>12 DEF Redeemed, Verification!Used
<1>16. LettersOK'
  <2>1. JobsOK'
    <3>1. \A k \in Links : Verification!Used(k)' => Verification!Exists(k)'
      BY <1>2, <1>4, NoneIsFresh
         DEF IInv, LettersOK, JobsOK, Verification!Used, Verification!Exists, u, l
    <3> QED
      BY <1>1, <1>4, <1>13, <3>1 DEF IInv, LettersOK, JobsOK
  <2>2. \A d \in Callers : handler[d].at = "enqueue" =>
           handler[d].link # l /\ handler[d].link \in Links
    BY <1>11 DEF IInv, LettersOK, MailingOK
  <2>3. MailingOK'
    <3>1. ~Welcoming(c)' /\ handler'[c].at \notin Mailing
      BY <1>6 DEF AfterConsume, Welcoming, Mailing
    <3> QED
      BY <1>1, <1>4, <1>7, <2>2, <3>1
         DEF IInv, LettersOK, MailingOK, OthersKept, Welcoming, Mailing
  <2>4. RedeemingOK'
    <3>1. /\ handler'[c].at # "consume"
          /\ handler'[c].at = "markEmailVerified" =>
                Redeemed(handler[c].user, "email-verification")'
          /\ handler'[c].at \in Resetting =>
                Redeemed(handler[c].user, "password-reset")'
      BY <1>2, <1>6, <1>15 DEF AfterConsume, Resetting
    <3>2. \A d \in Callers : /\ handler[d].at = "markEmailVerified" =>
                                   handler[d].user \in Users
                             /\ handler[d].at \in Resetting =>
                                   handler[d].user \in Users
      BY DEF IInv, HandlersOK, HandlerOK
    <3> QED
      BY <1>1, <1>7, <1>14, <3>1, <3>2
         DEF IInv, LettersOK, RedeemingOK, OthersKept, Mailed
  <2> QED
    BY <1>1, <1>14, <2>1, <2>3, <2>4 DEF IInv, LettersOK
<1>17. StrandedOK'
  <2>1. \A job \in mailQueue, x \in Users :
           \/ UnusedLink(job, x) => UnusedLink(job, x)'
           \/ job.link = l
    BY <1>4, <1>13 DEF UnusedLink, Verification!Used, Verification!Exists
  <2>2. \A job \in mailQueue, x \in Users :
           UnusedLink(job, x) /\ job.link = l =>
              x = u /\ handler[c].op = "verifyEmail"
    BY <1>2 DEF UnusedLink, u, l
  <2>3. handler[c].op = "verifyEmail" =>
           handler'[c].user = u /\ handler'[c].at = "markEmailVerified"
    BY <1>6 DEF AfterConsume
  <2>4. ~(handler[c].op = "register") /\ handler[c].at # "markEmailVerified"
    BY <1>1, <1>2
  <2> QED
    BY <1>1, <1>7, <2>1, <2>2, <2>3, <2>4
       DEF IInv, StrandedOK, OthersKept, history
<1>18. SessionsOK' /\ PasswordsOK'
  BY <1>1, <1>6, <1>7, SessionsKept, PasswordsKept
     DEF IInv, tokenVars, history, AfterConsume
<1> QED
  BY <1>8, <1>10, <1>16, <1>17, <1>18 DEF Own

LEMMA MarkEmailVerifiedStep ==
    ASSUME IInv, NEW c \in Callers, MarkEmailVerified(c)
    PROVE  Own'
<1> DEFINE u == handler[c].user
<1>1. /\ handler[c].at = "markEmailVerified"
      /\ users' = [users EXCEPT ![u].emailVerified = TRUE, ![u].status = TRUE]
      /\ Finish(c)
      /\ UNCHANGED <<mailQueue, history, tokenVars, verificationVars>>
  BY DEF MarkEmailVerified
<1>2. u \in Users /\ Redeemed(u, "email-verification")
  BY <1>1 DEF IInv, HandlersOK, HandlerOK, LettersOK, RedeemingOK
<1>3. OnlyHandler(c) /\ handler'[c] = Free
  BY <1>1, Finished DEF IInv
<1>4. /\ users' \in [Users -> User]
      /\ users'[u].emailVerified
      /\ \A x \in Users \ {u} : users'[x] = users[x]
      /\ \A x \in Users : /\ users'[x].registered = users[x].registered
                          /\ users'[x].password = users[x].password
  <2>1. users \in [Users -> User]
    BY DEF IInv, Typed
  <2>2. users[u] \in User
    BY <1>2, <2>1
  <2> DEFINE confirmed == [users[u] EXCEPT !.emailVerified = TRUE, !.status = TRUE]
  <2>3. /\ confirmed \in User /\ confirmed.emailVerified
        /\ confirmed.registered = users[u].registered
        /\ confirmed.password = users[u].password
    BY <2>2 DEF User
  <2>4. users' = [users EXCEPT ![u] = confirmed]
    BY <1>1, <1>2, <2>1
  <2> HIDE DEF confirmed
  <2> QED
    BY <1>2, <2>1, <2>3, <2>4
<1>5. OthersKept(c)
  BY <1>1, <1>3 DEF OthersKept, OnlyHandler, tokenVars, verificationVars
<1>6. Typed'
  BY <1>1, <1>3, <1>4 DEF IInv, Typed, OnlyHandler, history
<1>7. HandlerOK(c)'
  BY <1>1, <1>3 DEF IInv, HandlersOK, HandlerOK, Free, Mailing, Resetting,
                    tokenVars, verificationVars
<1>8. HandlersOK'
  BY <1>5, <1>7, HandlersKept DEF IInv
<1>9. \A d \in Callers : handler'[d].at # "idle" => d # c
  BY <1>3 DEF Free
<1>10. LettersOK'
  <2>1. JobsOK'
    BY <1>1, <1>4 DEF IInv, Typed, Job, LettersOK, JobsOK, verificationVars,
                      Verification!Used, Verification!Exists
  <2>2. \A d \in Callers : handler[d].at \in Mailing => handler[d].user \in Users
    BY DEF IInv, HandlersOK, HandlerOK
  <2>3. MailingOK'
    BY <1>1, <1>4, <1>5, <1>9, <2>2
       DEF IInv, LettersOK, MailingOK, OthersKept, Welcoming, Mailing,
           verificationVars
  <2>4. RedeemingOK'
    BY <1>1, <1>5, <1>9
       DEF IInv, LettersOK, RedeemingOK, OthersKept, Redeemed, Mailed,
           Resetting, verificationVars, Verification!Used
  <2> QED
    BY <1>1, <1>2, <1>4, <2>1, <2>3, <2>4
       DEF IInv, LettersOK, Redeemed, verificationVars, Verification!Used
<1>11. StrandedOK'
  BY <1>1, <1>2, <1>4, <1>5, <1>9
     DEF IInv, StrandedOK, OthersKept, UnusedLink, verificationVars,
         history, Verification!Used, Verification!Exists, HandlersOK, HandlerOK
<1>12. SessionsOK' /\ PasswordsOK'
  BY <1>1, <1>3, <1>4, <1>5, SessionsKept, PasswordsKept
     DEF IInv, tokenVars, history, Free
<1> QED
  BY <1>6, <1>8, <1>10, <1>11, <1>12 DEF Own

LEMMA UpdatePasswordStep ==
    ASSUME IInv, NEW c \in Callers, UpdatePassword(c)
    PROVE  Own'
<1> DEFINE u == handler[c].user
<1>1. /\ handler[c].at = "updatePassword"
      /\ GoTo(c, "revokeAll")
      /\ UNCHANGED <<mailQueue, history, tokenVars, verificationVars>>
  BY DEF UpdatePassword
<1>2. u \in Users /\ handler[c].op = "resetPassword"
  BY <1>1 DEF IInv, HandlersOK, HandlerOK, Resetting
<1>3. /\ OnlyHandler(c)
      /\ handler'[c].op = "resetPassword" /\ handler'[c].at = "revokeAll"
      /\ handler'[c].user = u
  BY <1>1, <1>2, MovedOn DEF IInv, Places
<1>4. users' = [users EXCEPT ![u].password = @ + 1]
  BY DEF UpdatePassword
<1>5. /\ users' \in [Users -> User]
      /\ \A x \in Users \ {u} : users'[x] = users[x]
      /\ \A x \in Users : /\ users'[x].registered = users[x].registered
                          /\ users'[x].emailVerified = users[x].emailVerified
  BY <1>2, <1>4 DEF IInv, Typed, User
<1>6. OthersKept(c)
  BY <1>1, <1>3 DEF OthersKept, OnlyHandler, tokenVars, verificationVars
<1>7. Typed'
  BY <1>1, <1>3, <1>5 DEF IInv, Typed, OnlyHandler, history
<1>8. HandlerOK(c)'
  BY <1>1, <1>2, <1>3 DEF IInv, HandlersOK, HandlerOK, Mailing, Resetting,
                          tokenVars, verificationVars
<1>9. HandlersOK'
  BY <1>6, <1>8, HandlersKept DEF IInv
<1>10. LettersOK'
  <2>1. JobsOK'
    BY <1>1, <1>5 DEF IInv, Typed, Job, LettersOK, JobsOK, verificationVars,
                      Verification!Used, Verification!Exists
  <2>2. \A d \in Callers : handler[d].at \in Mailing => handler[d].user \in Users
    BY DEF IInv, HandlersOK, HandlerOK
  <2>3. MailingOK'
    BY <1>1, <1>3, <1>5, <1>6, <2>2
       DEF IInv, LettersOK, MailingOK, OthersKept, Welcoming, Mailing,
           verificationVars
  <2>4. RedeemingOK'
    BY <1>1, <1>3, <1>6
       DEF IInv, LettersOK, RedeemingOK, OthersKept, Redeemed, Mailed,
           Resetting, verificationVars, Verification!Used
  <2> QED
    BY <1>1, <1>5, <2>1, <2>3, <2>4
       DEF IInv, LettersOK, Redeemed, verificationVars, Verification!Used
<1>11. StrandedOK'
  BY <1>1, <1>2, <1>5, <1>6
     DEF IInv, StrandedOK, OthersKept, UnusedLink, verificationVars,
         history, Verification!Used, Verification!Exists
<1>12. SessionsOK'
  BY <1>1, <1>3, <1>5, <1>6, SessionsKept DEF IInv, tokenVars
<1>13. PasswordsOK'
  <2>1. /\ \A x : x = u => Pending(x)'
        /\ \A x \in Users : Pending(x) => Pending(x)'
    BY <1>1, <1>3, <1>6 DEF Pending, OthersKept, history
  <2>2. \A t \in Jtis : Refreshing!Live(t) => refreshToken[t].userId \in Users
    BY RowFacts DEF IInv, Refreshing!Live
  <2>3. SurvivorsExplained'
    BY <1>1, <1>5, <2>1, <2>2
       DEF IInv, PasswordsOK, SurvivorsExplained, Pending, Refreshing!Live,
           tokenVars, history
  <2>4. \A d \in Callers : call[d].at \in {"revoke", "sign", "create"} =>
           d # c /\ call[d].user \in Users
    BY <1>1, FrameFacts DEF IInv, HandlersOK, HandlerOK
  <2> QED
    BY <1>1, <1>3, <1>5, <1>6, <2>1, <2>3, <2>4
       DEF IInv, PasswordsOK, OthersKept, tokenVars, history
<1> QED
  BY <1>7, <1>9, <1>10, <1>11, <1>12, <1>13 DEF Own

-----------------------------------------------------------------------------
(***************************************************************************)
(* One lemma per action that issues or revokes refresh tokens.             *)
(***************************************************************************)
LEMMA RowsRevoked ==
    ASSUME R!IInv, NEW rows \in SUBSET Jtis, Refreshing!RevokeRows(rows)
    PROVE  /\ UNCHANGED <<jwt, call, origin>>
           /\ \A t \in Jtis :
                 /\ refreshToken'[t].userId = refreshToken[t].userId
                 /\ Refreshing!Issued(t)' <=> Refreshing!Issued(t)
                 /\ Refreshing!Live(t)' <=> Refreshing!Live(t) /\ t \notin rows
<1>1. \A t \in Jtis :
         refreshToken'[t] = IF t \in rows THEN Refreshing!Revoked(refreshToken[t])
                            ELSE refreshToken[t]
  BY DEF Refreshing!RevokeRows
<1>2. \A t \in Jtis : refreshToken[t] \in R!Row
  BY RowFacts
<1> QED
  BY <1>1, <1>2 DEF Refreshing!RevokeRows, Refreshing!Revoked, R!Row,
                    Refreshing!Issued, Refreshing!Live

\* A logout, of one session or of all.
LEMMA LogoutStep ==
    ASSUME IInv, NEW rows \in SUBSET Jtis, Refreshing!RevokeRows(rows),
           UNCHANGED <<users, mailQueue, handler, history, verificationVars>>
    PROVE  Own'
<1>1. /\ UNCHANGED call
      /\ \A t \in Jtis :
            /\ refreshToken'[t].userId = refreshToken[t].userId
            /\ Refreshing!Issued(t)' <=> Refreshing!Issued(t)
            /\ Refreshing!Live(t)' => Refreshing!Live(t)
  BY RowsRevoked DEF IInv
<1>2. Typed'
  BY DEF IInv, Typed, history
<1>3. HandlersOK'
  BY <1>1 DEF IInv, HandlersOK, HandlerOK, Free, verificationVars
<1>4. LettersOK'
  BY DEF IInv, LettersOK, JobsOK, MailingOK, RedeemingOK, Redeemed, Welcoming,
         Mailed, Verification!Used, Verification!Exists, verificationVars
<1>5. StrandedOK'
  BY DEF IInv, StrandedOK, UnusedLink, history, verificationVars,
         Verification!Used, Verification!Exists
<1>6. SessionsOK'
  BY <1>1 DEF IInv, SessionsOK, SessionsOnlyForVerified, Refreshing!Issued
<1>7. PasswordsOK'
  BY <1>1 DEF IInv, PasswordsOK, SurvivorsExplained, Pending, Refreshing!Live,
              history
<1> QED
  BY <1>2, <1>3, <1>4, <1>5, <1>6, <1>7 DEF Own

LEMMA RevokeSessionsStep ==
    ASSUME IInv, NEW c \in Callers, RevokeSessions(c)
    PROVE  Own'
<1> DEFINE u == handler[c].user
<1>1. /\ handler[c].at = "revokeAll"
      /\ UNCHANGED <<users, mailQueue, credential, stranded, unrevoked,
                     survivors, verificationVars>>
  BY DEF RevokeSessions
<1>2. /\ Refreshing!RevokeRows(Refreshing!RowsOf(u))
      /\ handler' = AfterRevocation(c)
      /\ resetTo' = [resetTo EXCEPT ![u] = users[u].password]
  BY DEF RevokeSessions, Refreshing!RevokeAllForUser
<1>3. u \in Users /\ call[c].at = "idle" /\ consuming[c] = None
  BY <1>1 DEF IInv, HandlersOK, HandlerOK, Resetting
<1>4. /\ UNCHANGED call
      /\ \A t \in Jtis :
            /\ refreshToken'[t].userId = refreshToken[t].userId
            /\ Refreshing!Issued(t)' <=> Refreshing!Issued(t)
            /\ Refreshing!Live(t)' => /\ Refreshing!Live(t)
                                      /\ refreshToken[t].userId # u
  <2>1. Refreshing!RowsOf(u) \in SUBSET Jtis
    BY DEF Refreshing!RowsOf
  <2> QED
    BY <1>2, <2>1, RowsRevoked
       DEF IInv, Refreshing!RowsOf, Refreshing!Live, Refreshing!Issued
<1>5. /\ handler' \in [Callers -> Handler]
      /\ handler'[c] = Free
      /\ \A d \in Callers \ {c} :
            /\ handler'[d].op = handler[d].op /\ handler'[d].at = handler[d].at
            /\ handler'[d].user = handler[d].user
            /\ handler'[d].link = handler[d].link
            /\ handler'[d].password = handler[d].password
            /\ handler'[d].overtaken <=>
                  \/ handler[d].overtaken
                  \/ handler[d].at = "tokens" /\ call[d].user = u
            /\ handler[d].at = "idle" => handler'[d] = handler[d]
  <2>1. /\ \A d \in Callers : handler[d] \in Handler
        /\ Free \in Handler
    BY DEF IInv, Typed, Free, Handler
  <2>2. handler'[c] = Free
    BY <1>2 DEF AfterRevocation
  <2>3. ASSUME NEW d \in Callers, d # c
        PROVE  handler'[d] = [handler[d] EXCEPT !.overtaken =
                  @ \/ (handler[d].at = "tokens" /\ call[d].user = u)]
    BY <1>2, <2>3 DEF AfterRevocation
  <2>4. ASSUME NEW d \in Callers, d # c
        PROVE  /\ handler'[d] \in Handler
               /\ handler'[d].op = handler[d].op /\ handler'[d].at = handler[d].at
               /\ handler'[d].user = handler[d].user
               /\ handler'[d].link = handler[d].link
               /\ handler'[d].password = handler[d].password
               /\ handler'[d].overtaken <=>
                     \/ handler[d].overtaken
                     \/ handler[d].at = "tokens" /\ call[d].user = u
    <3> DEFINE f == handler[d]
               hit == handler[d].at = "tokens" /\ call[d].user = u
    <3>1. f \in Handler /\ hit \in BOOLEAN
      BY <2>1
    <3>2. handler'[d] = [f EXCEPT !.overtaken = f.overtaken \/ hit]
      BY <2>3, <2>4
    <3> HIDE DEF f, hit
    <3>3. [f EXCEPT !.overtaken = f.overtaken \/ hit] \in Handler
      BY <3>1 DEF Handler
    <3>4. /\ handler'[d].op = f.op /\ handler'[d].at = f.at
          /\ handler'[d].user = f.user /\ handler'[d].link = f.link
          /\ handler'[d].password = f.password
          /\ handler'[d].overtaken = (f.overtaken \/ hit)
      BY <3>1, <3>2 DEF Handler
    <3> QED
      BY <3>2, <3>3, <3>4 DEF f, hit
  <2>5. ASSUME NEW d \in Callers, d # c, handler[d].at = "idle"
        PROVE  handler'[d] = handler[d]
    <3>1. handler[d] = Free
      BY <2>5 DEF IInv, HandlersOK, HandlerOK
    <3>2. ~handler'[d].overtaken /\ handler'[d].overtaken \in BOOLEAN
      BY <2>4, <2>5, <3>1 DEF Free, Handler
    <3>3. handler'[d].overtaken = FALSE
      BY <3>2
    <3>4. \A f \in Handler :
             f = [op |-> f.op, at |-> f.at, user |-> f.user, link |-> f.link,
                  password |-> f.password, overtaken |-> f.overtaken]
      BY DEF Handler
    <3>5. /\ handler'[d] \in Handler
          /\ handler'[d].op = "none" /\ handler'[d].at = "idle"
          /\ handler'[d].user = None /\ handler'[d].link = None
          /\ handler'[d].password = 0
      BY <2>4, <2>5, <3>1 DEF Free
    <3>6. handler'[d] = Free
      BY <3>3, <3>4, <3>5, Zenon DEF Free
    <3> QED
      BY <3>1, <3>6
  <2>6. handler' \in [Callers -> Handler]
    BY <1>2, <2>1, <2>2, <2>4 DEF AfterRevocation
  <2> QED
    BY <2>2, <2>4, <2>5, <2>6
<1>6. /\ \A d \in Callers : handler'[d].at # "idle" => d # c
      /\ \A d \in Callers : handler[d].at \in {"idle", "tokens"} => handler[d].at = handler'[d].at
  BY <1>1, <1>5 DEF Free
<1>7. Typed'
  BY <1>1, <1>2, <1>3, <1>5 DEF IInv, Typed, User
<1>8. HandlersOK'
  BY <1>1, <1>3, <1>4, <1>5
     DEF IInv, HandlersOK, HandlerOK, Free, Mailing, Resetting, verificationVars
<1>9. LettersOK'
  <2>1. JobsOK'
    BY <1>1 DEF IInv, LettersOK, JobsOK, verificationVars, Verification!Used,
                Verification!Exists
  <2>2. \A d \in Callers : Welcoming(d)' => Welcoming(d) /\ d # c
    BY <1>5, <1>6 DEF Welcoming, Mailing
  <2>3. MailingOK'
    BY <1>1, <1>5, <1>6, <2>2
       DEF IInv, LettersOK, MailingOK, Mailing, verificationVars
  <2>4. RedeemingOK'
    BY <1>1, <1>5, <1>6
       DEF IInv, LettersOK, RedeemingOK, Redeemed, Mailed, Resetting,
           verificationVars, Verification!Used
  <2> QED
    BY <1>1, <2>1, <2>3, <2>4
       DEF IInv, LettersOK, Redeemed, verificationVars, Verification!Used
<1>10. StrandedOK'
  <2>1. handler[c].op = "resetPassword"
    BY <1>1 DEF IInv, HandlersOK, HandlerOK, Resetting
  <2> QED
    BY <1>1, <1>5, <2>1
       DEF IInv, StrandedOK, UnusedLink, verificationVars,
           Verification!Used, Verification!Exists
<1>11. SessionsOK'
  BY <1>1, <1>4, <1>5, <1>6
     DEF IInv, SessionsOK, SessionsOnlyForVerified, Refreshing!Issued
<1>12. PasswordsOK'
  <2>1. \A x : x # u /\ Pending(x) => Pending(x)'
    BY <1>1, <1>5 DEF Pending
  <2>2. SurvivorsExplained'
    BY <1>1, <1>4, <2>1
       DEF IInv, PasswordsOK, SurvivorsExplained, Pending
  <2>3. \A d \in Callers : call[d].at # "idle" => handler[d].at = "tokens" /\ d # c
    BY <1>3 DEF IInv, HandlersOK, HandlerOK
  <2>4. ASSUME NEW d \in Callers, call[d].at \in {"revoke", "sign", "create"},
               handler'[d].password < users[call[d].user].password
        PROVE  \/ handler'[d].overtaken
               \/ call[d].token \in survivors
               \/ \A x : x = call[d].user => Pending(x)'
    BY <1>5, <2>1, <2>3, <2>4 DEF IInv, PasswordsOK
  <2>5. \A d \in Callers : handler'[d].at = "tokens" =>
           handler[d].at = "tokens" /\ handler'[d].password = handler[d].password
    BY <1>5, <1>6
  <2> QED
    BY <1>1, <1>4, <2>2, <2>4, <2>5 DEF IInv, PasswordsOK
<1> QED
  BY <1>7, <1>8, <1>9, <1>10, <1>11, <1>12 DEF Own

(***************************************************************************)
(* SessionsOK and PasswordsOK, one request and one token at a time.        *)
(***************************************************************************)
CallOK(c) ==
    /\ handler[c].at = "tokens" => users[call[c].user].emailVerified
    /\ handler[c].at = "tokens" /\ call[c].token # None =>
          handler[c].password = credential[call[c].token]
    /\ /\ call[c].at \in {"revoke", "sign", "create"}
       /\ handler[c].password < users[call[c].user].password
       => \/ handler[c].overtaken
          \/ call[c].token \in survivors
          \/ Pending(call[c].user)

RowOK(t) ==
    LET u == refreshToken[t].userId
    IN  /\ Refreshing!Issued(t) => users[u].emailVerified
        /\ Refreshing!Live(t) /\ credential[t] < users[u].password =>
              Pending(u) \/ t \in survivors

\* Both are conjunctions over the requests and the tokens.
LEMMA OneAtATime ==
    SessionsOK /\ PasswordsOK <=> /\ \A c \in Callers : CallOK(c)
                                  /\ \A t \in Jtis : RowOK(t)
BY DEF SessionsOK, SessionsOnlyForVerified, PasswordsOK, SurvivorsExplained,
       Pending, CallOK, RowOK

\* A row that is not new lives no longer than before.
RowKept(t) ==
    /\ Refreshing!Issued(t)' => Refreshing!Issued(t)
    /\ Refreshing!Live(t)' => Refreshing!Live(t)
    /\ Refreshing!Issued(t) => /\ refreshToken'[t].userId = refreshToken[t].userId
                               /\ credential'[t] = credential[t]

(* A step of a request that issues tokens leaves the other requests and    *)
(* the rows it does not write as they are.                                 *)
LEMMA IssuingKept ==
    ASSUME IInv, NEW c \in Callers, OthersKept(c),
           UNCHANGED <<users, unrevoked>>, survivors \subseteq survivors',
           handler[c].at # "revokeAll",
           \A t \in Jtis : \/ RowKept(t)
                           \/ ~Refreshing!Issued(t) /\ RowOK(t)',
           \A t \in Jtis : Refreshing!Issued(t) => credential'[t] = credential[t],
           CallOK(c)'
    PROVE  SessionsOK' /\ PasswordsOK'
<1>1. \A x : Pending(x) => Pending(x)'
  BY DEF OthersKept, Pending
<1>2. (\A d \in Callers : CallOK(d)) /\ (\A t \in Jtis : RowOK(t))
  BY OneAtATime DEF IInv
<1>3. ASSUME NEW d \in Callers, d # c
      PROVE  CallOK(d)'
  <2>1. handler'[d] = handler[d] /\ call'[d] = call[d] /\ CallOK(d)
    BY <1>2, <1>3 DEF OthersKept
  <2>2. call[d].token # None =>
           credential'[call[d].token] = credential[call[d].token]
    BY FrameFacts DEF IInv, Refreshing!Issued
  <2> QED
    BY <1>1, <2>1, <2>2 DEF CallOK
<1>4. ASSUME NEW t \in Jtis
      PROVE  RowOK(t)'
  <2>1. CASE RowKept(t)
    <3>1. Refreshing!Live(t) => Refreshing!Issued(t)
      BY DEF Refreshing!Live, Refreshing!Issued
    <3> QED
      BY <1>1, <1>2, <2>1, <3>1 DEF RowOK, RowKept
  <2> QED
    BY <2>1
<1>5. CallOK(c)'
  OBVIOUS
<1> QED
  BY <1>3, <1>4, <1>5
     DEF SessionsOK, SessionsOnlyForVerified, PasswordsOK, SurvivorsExplained,
         Pending, CallOK, RowOK

LEMMA LoginStep ==
    ASSUME IInv, NEW c \in Callers, NEW u \in Users, Login(c, u)
    PROVE  Own'
<1> DEFINE f == [Free EXCEPT !.op = "login", !.at = "tokens", !.user = u,
                             !.password = users[u].password]
           g == [Refreshing!Idle EXCEPT !.at = "sign", !.user = u]
<1>1. /\ users[u].emailVerified
      /\ handler[c] = Free
      /\ UNCHANGED <<users, mailQueue, history, verificationVars>>
  BY DEF Login, MayLogIn
<1>2. /\ handler' = [handler EXCEPT ![c] = f]
      /\ call' = [call EXCEPT ![c] = g]
      /\ UNCHANGED <<refreshToken, jwt>>
  BY DEF Login, Refreshing!CallIssueTokens, Refreshing!Enter
<1>3. /\ f \in Handler /\ f.op = "login" /\ f.at = "tokens"
      /\ f.password = users[u].password
      /\ g.at = "sign" /\ g.user = u /\ g.token = None
  BY DEF Free, Handler, Refreshing!Idle, IInv, Typed, User
<1> HIDE DEF f, g
<1>4. OnlyHandler(c) /\ handler'[c] = f
  BY <1>2, <1>3 DEF IInv, Typed, OnlyHandler
<1>5. /\ call'[c] = g
      /\ \A d \in Callers \ {c} : call'[d] = call[d]
  BY <1>2 DEF IInv, R!IInv, R!TypeOK
<1>6. OthersKept(c)
  BY <1>1, <1>4, <1>5 DEF OthersKept, OnlyHandler, verificationVars
<1>7. Typed'
  BY <1>1, <1>4 DEF IInv, Typed, OnlyHandler, history
<1>8. HandlerOK(c)'
  BY <1>1, <1>3, <1>4, <1>5 DEF IInv, HandlersOK, HandlerOK, Free, Mailing,
                                Resetting, verificationVars
<1>9. HandlersOK' /\ LettersOK'
  BY <1>1, <1>3, <1>4, <1>6, <1>8, HandlersKept, LettersKept
     DEF IInv, verificationVars
<1>10. StrandedOK'
  BY <1>1, <1>6, StrandedKept DEF IInv, verificationVars, history, Free
<1>11. SessionsOK' /\ PasswordsOK'
  <2>1. CallOK(c)'
    BY <1>1, <1>3, <1>4, <1>5 DEF CallOK, IInv, Typed, User
  <2>2. \A t \in Jtis : RowKept(t)
    BY <1>1, <1>2 DEF RowKept, Refreshing!Issued, Refreshing!Live, history
  <2> QED
    BY <1>1, <1>6, <2>1, <2>2, IssuingKept DEF history, Free
<1> QED
  BY <1>7, <1>9, <1>10, <1>11 DEF Own

LEMMA RefreshStep ==
    ASSUME IInv, NEW c \in Callers, NEW t \in Jtis, Refresh(c, t)
    PROVE  Own'
<1> DEFINE f == [Free EXCEPT !.op = "refresh", !.at = "tokens",
                             !.password = credential[t]]
           g == [Refreshing!Idle EXCEPT !.at = "find", !.token = t,
                                        !.user = jwt[t].sub]
<1>1. /\ handler[c] = Free
      /\ UNCHANGED <<users, mailQueue, history, verificationVars>>
  BY DEF Refresh
<1>2. /\ handler' = [handler EXCEPT ![c] = f]
      /\ Refreshing!Issued(t)
      /\ call' = [call EXCEPT ![c] = g]
      /\ UNCHANGED <<refreshToken, jwt>>
  BY DEF Refresh, Refreshing!CallRefreshTokens, Refreshing!Enter
<1>3. /\ f \in Handler /\ f.op = "refresh" /\ f.at = "tokens"
      /\ f.password = credential[t]
      /\ g.at = "find" /\ g.user = jwt[t].sub /\ g.token = t
  BY DEF Free, Handler, Refreshing!Idle, IInv, Typed
<1> HIDE DEF f, g
<1>4. OnlyHandler(c) /\ handler'[c] = f
  BY <1>2, <1>3 DEF IInv, Typed, OnlyHandler
<1>5. /\ call'[c] = g
      /\ \A d \in Callers \ {c} : call'[d] = call[d]
  BY <1>2 DEF IInv, R!IInv, R!TypeOK
<1>6. OthersKept(c)
  BY <1>1, <1>4, <1>5 DEF OthersKept, OnlyHandler, verificationVars
<1>7. Typed'
  BY <1>1, <1>4 DEF IInv, Typed, OnlyHandler, history
<1>8. HandlerOK(c)'
  BY <1>1, <1>3, <1>4, <1>5 DEF IInv, HandlersOK, HandlerOK, Free, Mailing,
                                Resetting, verificationVars
<1>9. HandlersOK' /\ LettersOK'
  BY <1>1, <1>3, <1>4, <1>6, <1>8, HandlersKept, LettersKept
     DEF IInv, verificationVars
<1>10. StrandedOK'
  BY <1>1, <1>6, StrandedKept DEF IInv, verificationVars, history, Free
<1>11. SessionsOK' /\ PasswordsOK'
  <2>1. users[jwt[t].sub].emailVerified
    BY <1>2, RowFacts DEF IInv, SessionsOK, SessionsOnlyForVerified,
                          Refreshing!Issued
  <2>2. CallOK(c)'
    BY <1>1, <1>3, <1>4, <1>5, <2>1 DEF CallOK, history
  <2>3. \A r \in Jtis : RowKept(r)
    BY <1>1, <1>2 DEF RowKept, Refreshing!Issued, Refreshing!Live, history
  <2> QED
    BY <1>1, <1>6, <2>2, <2>3, IssuingKept DEF history, Free
<1> QED
  BY <1>7, <1>9, <1>10, <1>11 DEF Own

(* What a step of the token service does not concern.                      *)
LEMMA TokensFrame ==
    ASSUME IInv, NEW c \in Callers, handler[c].at = "tokens",
           \A d \in Callers \ {c} : call'[d] = call[d],
           call'[c] = Refreshing!Idle \/ call'[c].at # "idle",
           IF call'[c] = Refreshing!Idle THEN Finish(c) ELSE UNCHANGED handler,
           credential' \in [Jtis -> Nat], survivors' \subseteq Jtis,
           UNCHANGED <<users, mailQueue, resetTo, stranded, unrevoked,
                       verificationVars>>
    PROVE  /\ OthersKept(c)
           /\ Typed' /\ HandlersOK' /\ LettersOK' /\ StrandedOK'
<1>1. /\ OnlyHandler(c)
      /\ IF call'[c] = Refreshing!Idle THEN handler'[c] = Free
         ELSE handler'[c] = handler[c]
  <2>1. CASE call'[c] = Refreshing!Idle
    BY <2>1, Finished DEF IInv
  <2>2. CASE call'[c] # Refreshing!Idle
    BY <2>2 DEF IInv, Typed, OnlyHandler
  <2> QED
    BY <2>1, <2>2
<1>2. OthersKept(c)
  BY <1>1 DEF OthersKept, OnlyHandler, verificationVars
<1>3. Typed'
  BY <1>1 DEF IInv, Typed, OnlyHandler
<1>4. HandlerOK(c)'
  BY <1>1 DEF IInv, HandlersOK, HandlerOK, Free, Mailing, Resetting,
              Refreshing!Idle, verificationVars
<1>5. handler'[c].at \in {"idle", "tokens"}
  BY <1>1 DEF Free
<1>6. HandlersOK' /\ LettersOK'
  BY <1>2, <1>4, <1>5, HandlersKept, LettersKept DEF IInv, verificationVars
<1>7. handler[c].op # "register"
  BY DEF IInv, HandlersOK, HandlerOK
<1>8. StrandedOK'
  BY <1>2, <1>7, StrandedKept DEF IInv, verificationVars
<1> QED
  BY <1>2, <1>3, <1>6, <1>8

(* A step that writes no new row and only moves the request on, or ends it. *)
LEMMA TokensMove ==
    ASSUME IInv, NEW c \in Callers, handler[c].at = "tokens",
           \A d \in Callers \ {c} : call'[d] = call[d],
           \/ call'[c] = Refreshing!Idle
           \/ /\ call[c].at = "find" => Refreshing!Live(call[c].token)
              /\ call'[c].at \in {"revoke", "sign", "create"}
              /\ call'[c].user = call[c].user
              /\ call'[c].token = call[c].token,
           IF call'[c] = Refreshing!Idle THEN Finish(c) ELSE UNCHANGED handler,
           UNCHANGED <<credential, survivors>>,
           \A t \in Jtis : RowKept(t),
           UNCHANGED <<users, mailQueue, resetTo, stranded, unrevoked,
                       verificationVars>>
    PROVE  Own'
<1>1. /\ OthersKept(c)
      /\ Typed' /\ HandlersOK' /\ LettersOK' /\ StrandedOK'
  BY TokensFrame DEF IInv, Typed
<1>2. CallOK(c)'
  <2>1. CASE call'[c] = Refreshing!Idle
    <3>1. handler'[c] = Free
      BY <2>1, Finished DEF IInv
    <3> QED
      BY <2>1, <3>1 DEF CallOK, Free, Refreshing!Idle
  <2>2. CASE call'[c] # Refreshing!Idle
    <3>1. /\ UNCHANGED handler
          /\ call[c].at = "find" => Refreshing!Live(call[c].token)
          /\ call'[c].at \in {"revoke", "sign", "create"}
          /\ call'[c].user = call[c].user
          /\ call'[c].token = call[c].token
      BY <2>2
    <3>2. call[c].at \in {"find", "revoke", "sign", "create"}
      BY FrameFacts DEF IInv, HandlersOK, HandlerOK, R!Frame, R!Awaits
    <3>3. CallOK(c) /\ \A t \in Jtis : RowOK(t)
      BY OneAtATime DEF IInv
    <3>4. \A x : Pending(x) <=> Pending(x)'
      BY <3>1 DEF Pending
    <3>5. CASE call[c].at # "find"
      BY <3>1, <3>2, <3>3, <3>4, <3>5 DEF CallOK
    <3>6. CASE call[c].at = "find"
      <4>1. /\ call[c].token # None /\ call[c].token \in Jtis
            /\ refreshToken[call[c].token].userId = call[c].user
        BY <3>6, FrameFacts DEF IInv
      <4>2. handler[c].password < users[call[c].user].password =>
               \/ call[c].token \in survivors
               \/ Pending(call[c].user)
        BY <3>1, <3>3, <3>6, <4>1 DEF CallOK, RowOK
      <4> QED
        BY <3>1, <3>3, <3>4, <4>1, <4>2 DEF CallOK
    <3> QED
      BY <3>5, <3>6
  <2> QED
    BY <2>1, <2>2
<1>3. SessionsOK' /\ PasswordsOK'
  BY <1>1, <1>2, IssuingKept
<1> QED
  BY <1>1, <1>3 DEF Own

\* A step of the token service: only OpenSession writes a new row.
LEMMA TokensStepStep ==
    ASSUME IInv, NEW c \in Callers, TokensStep(c)
    PROVE  Own'
<1>1. /\ handler[c].at = "tokens"
      /\ IF call'[c] = Refreshing!Idle THEN Finish(c) ELSE UNCHANGED handler
      /\ UNCHANGED <<users, mailQueue, resetTo, stranded, unrevoked,
                     verificationVars>>
  BY DEF TokensStep
<1>2. /\ call \in [Callers -> R!Frame]
      /\ call[c] \in R!Frame
      /\ call[c].token # None => call[c].token \in Jtis
  BY FrameFacts DEF IInv, R!IInv, R!TypeOK
<1>3. ASSUME UNCHANGED <<refreshToken, credential>>
      PROVE  \A t \in Jtis : RowKept(t)
  BY <1>3 DEF RowKept, Refreshing!Issued, Refreshing!Live
<1>4. CASE Refreshing!FindStored(c) /\ UNCHANGED <<credential, survivors>>
  <2>1. /\ call[c].at = "find"
        /\ UNCHANGED refreshToken
        /\ \/ call' = [call EXCEPT ![c] = Refreshing!Idle]
           \/ /\ call' = [call EXCEPT ![c].at = "revoke"]
              /\ Refreshing!Live(call[c].token)
    BY <1>4 DEF Refreshing!FindStored, Refreshing!At, Refreshing!GoTo,
                Refreshing!Leave, Refreshing!Usable, Refreshing!Live
  <2>2. /\ \A d \in Callers \ {c} : call'[d] = call[d]
        /\ \/ call'[c] = Refreshing!Idle
           \/ /\ Refreshing!Live(call[c].token)
              /\ call'[c].at = "revoke"
              /\ call'[c].user = call[c].user
              /\ call'[c].token = call[c].token
    BY <1>2, <2>1 DEF R!Frame
  <2> QED
    BY <1>1, <1>3, <1>4, <2>1, <2>2, TokensMove
<1>5. CASE Refreshing!RevokeStored(c) /\ UNCHANGED <<credential, survivors>>
  <2>1. /\ call[c].at = "revoke"
        /\ refreshToken' = [refreshToken EXCEPT ![call[c].token] =
                               Refreshing!Revoked(@)]
        /\ call' = [call EXCEPT ![c].at = "sign"]
    BY <1>5 DEF Refreshing!RevokeStored, Refreshing!At, Refreshing!GoTo
  <2>2. /\ \A d \in Callers \ {c} : call'[d] = call[d]
        /\ call'[c].at = "sign"
        /\ call'[c].user = call[c].user
        /\ call'[c].token = call[c].token
    BY <1>2, <2>1 DEF R!Frame
  <2>3. \A t \in Jtis : RowKept(t)
    <3>1. refreshToken \in [Jtis -> R!Row] /\ \A t \in Jtis : refreshToken[t] \in R!Row
      BY DEF IInv, R!IInv, R!TypeOK
    <3> QED
      BY <1>5, <2>1, <3>1 DEF RowKept, Refreshing!Issued, Refreshing!Live,
                              Refreshing!Revoked, R!Row
  <2> QED
    BY <1>1, <1>5, <2>1, <2>2, <2>3, TokensMove
<1>6. CASE Refreshing!SignTokens(c) /\ UNCHANGED <<credential, survivors>>
  <2>1. PICK t \in Jtis :
           /\ call[c].at = "sign"
           /\ UNCHANGED refreshToken
           /\ call' = [call EXCEPT ![c].at = "create", ![c].fresh = t]
    BY <1>6 DEF Refreshing!SignTokens, Refreshing!At
  <2>2. /\ \A d \in Callers \ {c} : call'[d] = call[d]
        /\ call'[c].at = "create"
        /\ call'[c].user = call[c].user
        /\ call'[c].token = call[c].token
    BY <1>2, <2>1 DEF R!Frame
  <2> QED
    BY <1>1, <1>3, <1>6, <2>1, <2>2, TokensMove
<1>7. CASE OpenSession(c)
  <2> DEFINE t == call[c].fresh
             u == call[c].user
             f == handler[c]
  <2>1. /\ call[c].at = "create"
        /\ \E e : refreshToken' = [refreshToken EXCEPT ![t] =
                     [status |-> "live", userId |-> u, expiresAt |-> e]]
        /\ call' = [call EXCEPT ![c] = Refreshing!Idle]
        /\ credential' = [credential EXCEPT ![t] = f.password]
        /\ survivors' = IF f.overtaken \/ call[c].token \in survivors
                        THEN survivors \cup {t} ELSE survivors
    BY <1>7 DEF OpenSession, Refreshing!CreateRow, Refreshing!At,
                Refreshing!Leave
  <2>2. /\ t \in Jtis /\ ~Refreshing!Issued(t)
        /\ u \in Users
    BY <2>1, FrameFacts DEF IInv, Refreshing!Issued
  <2>3. /\ call'[c] = Refreshing!Idle
        /\ \A d \in Callers \ {c} : call'[d] = call[d]
    BY <1>2, <2>1
  <2>4. f.password \in Nat
    BY DEF IInv, Typed, Handler
  <2>5. /\ credential' \in [Jtis -> Nat]
        /\ credential'[t] = f.password
        /\ \A r \in Jtis \ {t} : credential'[r] = credential[r]
        /\ survivors' \subseteq Jtis /\ survivors \subseteq survivors'
    BY <2>1, <2>2, <2>4 DEF IInv, Typed
  <2>6. /\ refreshToken'[t].status = "live" /\ refreshToken'[t].userId = u
        /\ \A r \in Jtis \ {t} : refreshToken'[r] = refreshToken[r]
    BY <2>1, <2>2 DEF IInv, R!IInv, R!TypeOK
  <2>7. /\ OthersKept(c)
        /\ Typed' /\ HandlersOK' /\ LettersOK' /\ StrandedOK'
    BY <1>1, <2>3, <2>5, TokensFrame
  <2>8. handler'[c] = Free
    BY <1>1, <2>3, Finished DEF IInv
  <2>9. CallOK(c)'
    BY <2>3, <2>8 DEF CallOK, Free, Refreshing!Idle
  <2>10. CallOK(c) /\ \A x : Pending(x) => Pending(x)'
    <3>1. CallOK(c)
      BY OneAtATime DEF IInv
    <3> QED
      BY <1>1, <2>7, <3>1 DEF Pending, OthersKept
  <2>11. ASSUME NEW r \in Jtis, r = t
         PROVE  RowOK(r)'
    <3>1. users[u].emailVerified
      BY <1>1, <2>10 DEF CallOK
    <3>2. f.password < users[u].password => t \in survivors' \/ Pending(u)
      BY <2>1, <2>10 DEF CallOK
    <3>3. \A x : x = u => (Pending(x) => Pending(x)')
      BY <2>10
    <3> QED
      BY <1>1, <2>5, <2>6, <2>11, <3>1, <3>2, <3>3 DEF RowOK
  <2>12. \A r \in Jtis : \/ RowKept(r)
                         \/ ~Refreshing!Issued(r) /\ RowOK(r)'
    BY <2>2, <2>5, <2>6, <2>11 DEF RowKept, Refreshing!Issued, Refreshing!Live
  <2>13. \A r \in Jtis : Refreshing!Issued(r) => credential'[r] = credential[r]
    BY <2>2, <2>5
  <2>14. SessionsOK' /\ PasswordsOK'
    BY <1>1, <2>5, <2>7, <2>9, <2>12, <2>13, IssuingKept
  <2> QED
    BY <2>7, <2>14 DEF Own
<1> QED
  BY <1>4, <1>5, <1>6, <1>7 DEF TokensStep

\* A handler fails, wherever it is.
LEMMA FailStep ==
    ASSUME IInv, NEW c \in Callers, Fail(c)
    PROVE  Own'
<1> DEFINE f == handler[c]
           l == consuming[c]
<1>1. /\ f # Free /\ Finish(c)
      /\ UNCHANGED <<users, mailQueue, credential, resetTo, survivors>>
  BY DEF Fail
<1>2. /\ OnlyHandler(c) /\ handler'[c] = Free
      /\ HandlerOK(c) /\ f.at # "idle"
  BY <1>1, Finished DEF IInv, HandlersOK, HandlerOK
<1>3. CASE f.at = "tokens"
  <2>1. /\ Refreshing!Fail(c)
        /\ UNCHANGED verificationVars
    BY <1>3 DEF Fail
  <2>2. f.op \in {"login", "refresh"}
    BY <1>2, <1>3 DEF HandlerOK
  <2>3. UNCHANGED <<stranded, unrevoked>>
    BY <1>3, <2>2 DEF Fail
  <2>4. /\ call'[c] = Refreshing!Idle
        /\ \A d \in Callers \ {c} : call'[d] = call[d]
        /\ UNCHANGED refreshToken
    BY <2>1 DEF Refreshing!Fail, Refreshing!Leave, IInv, R!IInv, R!TypeOK
  <2>5. \A t \in Jtis : RowKept(t)
    BY <1>1, <2>4 DEF RowKept, Refreshing!Issued, Refreshing!Live
  <2> QED
    BY <1>1, <1>3, <2>1, <2>3, <2>4, <2>5, TokensMove
<1>4. CASE f.at # "tokens"
  <2>1. UNCHANGED tokenVars
    BY <1>4 DEF Fail
  <2>2. /\ \A d \in Callers \ {c} : /\ consuming'[d] = consuming[d]
                                    /\ asked'[d] = asked[d]
        /\ consuming'[c] = None
        /\ \/ UNCHANGED verificationToken
           \/ /\ f.at = "consume"
              /\ verificationToken' = [verificationToken EXCEPT ![l].usedAt = TRUE]
    <3>1. CASE f.at = "consume"
      BY <3>1 DEF Fail, Verification!Abandon, IInv, V!IInv, V!TypeOK
    <3>2. CASE f.at # "consume"
      BY <1>2, <3>2 DEF Fail, HandlerOK, verificationVars
    <3> QED
      BY <3>1, <3>2
  <2>3. f.at = "consume" =>
           /\ l # None /\ l \in Links /\ l \in Mailed
           /\ f.op \in {"verifyEmail", "resetPassword"}
           /\ verificationToken[l].userId \in Users
           /\ verificationToken[l].type = IF f.op = "verifyEmail"
                                          THEN "EMAIL_VERIFICATION"
                                          ELSE "PASSWORD_RESET"
    BY <1>2, LinkFacts DEF IInv, HandlerOK, LettersOK, RedeemingOK
  <2>4. /\ \A k \in Links :
              /\ verificationToken'[k].userId = verificationToken[k].userId
              /\ verificationToken'[k].type = verificationToken[k].type
              /\ verificationToken[k].usedAt => verificationToken'[k].usedAt
        /\ \A k \in Links : \/ verificationToken'[k] = verificationToken[k]
                            \/ f.at = "consume" /\ k = l
    BY <2>2, <2>3, LinkFacts DEF IInv, V!Row
  <2>5. OthersKept(c)
    BY <1>2, <2>1, <2>2 DEF OthersKept, OnlyHandler, tokenVars
  <2>6. stranded' \subseteq Users /\ stranded \subseteq stranded'
        /\ unrevoked' \subseteq Users /\ unrevoked \subseteq unrevoked'
    BY DEF Fail, IInv, Typed
  <2>7. Typed'
    BY <1>1, <1>2, <2>6 DEF IInv, Typed, OnlyHandler
  <2>8. HandlerOK(c)'
    BY <1>2, <1>4, <2>1, <2>2 DEF HandlerOK, Free, Mailing, Resetting, tokenVars
  <2>9. HandlersOK'
    BY <2>5, <2>8, HandlersKept DEF IInv
  <2>10. \A d \in Callers : handler'[d].at # "idle" => d # c
    BY <1>2 DEF Free
  <2>11. \A job \in mailQueue : job.link \in Links
    BY DEF IInv, Typed, Job
  <2>12. \A x, name : Redeemed(x, name) => Redeemed(x, name)'
    BY <1>1, <2>4, <2>11 DEF Redeemed, Verification!Used
  <2>13. LettersOK'
    <3>1. JobsOK'
      <4>1. \A k \in Links : Verification!Used(k)' => Verification!Exists(k)'
        BY <2>3, <2>4, NoneIsFresh
           DEF IInv, LettersOK, JobsOK, Verification!Used, Verification!Exists
      <4> QED
        BY <1>1, <2>4, <2>11, <4>1 DEF IInv, LettersOK, JobsOK
    <3>2. \A d \in Callers : handler[d].at = "enqueue" =>
             /\ handler[d].link \in Links
             /\ verificationToken'[handler[d].link] = verificationToken[handler[d].link]
      BY <2>3, <2>4 DEF IInv, LettersOK, MailingOK, Mailed
    <3>3. MailingOK'
      BY <1>1, <2>5, <2>10, <3>2
         DEF IInv, LettersOK, MailingOK, OthersKept, Welcoming, Mailing
    <3>4. RedeemingOK'
      BY <1>1, <2>5, <2>10, <2>12
         DEF IInv, LettersOK, RedeemingOK, OthersKept, Mailed, Resetting
    <3> QED
      BY <1>1, <2>12, <3>1, <3>3, <3>4 DEF IInv, LettersOK
  <2>14. StrandedOK'
    <3>1. stranded' = stranded \cup
             {u \in Users :
                 \/ f.op = "register" /\ f.at # "insertUser" /\ u = f.user
                 \/ f.at = "markEmailVerified" /\ u = f.user
                 \/ /\ f.op = "verifyEmail" /\ f.at = "consume"
                    /\ u = verificationToken[l].userId
                    /\ verificationToken'[l].usedAt}
      BY DEF Fail
    <3>2. \A job \in mailQueue, u \in Users :
             UnusedLink(job, u) /\ u \notin stranded' => UnusedLink(job, u)'
      <4> SUFFICES ASSUME NEW job \in mailQueue, NEW u \in Users,
                          UnusedLink(job, u), u \notin stranded'
                   PROVE  UnusedLink(job, u)'
        OBVIOUS
      <4>1. verificationToken'[job.link] = verificationToken[job.link]
        <5>1. CASE f.at = "consume" /\ job.link = l
          <6>1. f.op = "verifyEmail" /\ u = verificationToken[l].userId
            BY <2>3, <5>1 DEF UnusedLink
          <6>2. ~verificationToken'[l].usedAt
            BY <3>1, <5>1, <6>1
          <6> QED
            BY <2>2, <2>3, <5>1, <6>2, LinkFacts DEF IInv, V!Row
        <5> QED
          BY <2>4, <2>11, <5>1
      <4> QED
        BY <4>1 DEF UnusedLink, Verification!Used, Verification!Exists
    <3> QED
      BY <1>1, <2>5, <2>6, <3>1, <3>2
         DEF IInv, StrandedOK, OthersKept
  <2>15. SessionsOK'
    BY <1>1, <1>2, <2>1, <2>5, SessionsKept DEF IInv, tokenVars, Free
  <2>16. PasswordsOK'
    <3>1. \A x \in Users : Pending(x) => Pending(x)'
      <4>1. f.at = "revokeAll" => f.user \in unrevoked' \/ f.user \notin Users
        BY DEF Fail
      <4> QED
        BY <2>5, <2>6, <4>1 DEF Pending, OthersKept
    <3>2. \A t \in Jtis : Refreshing!Live(t) => refreshToken[t].userId \in Users
      BY RowFacts DEF IInv, Refreshing!Live
    <3>3. SurvivorsExplained'
      BY <1>1, <2>1, <3>1, <3>2
         DEF IInv, PasswordsOK, SurvivorsExplained, Pending, Refreshing!Live,
             tokenVars
    <3>4. \A d \in Callers : call[d].at \in {"revoke", "sign", "create"} =>
             d # c /\ call[d].user \in Users
      BY <1>2, <1>4, FrameFacts DEF IInv, HandlerOK
    <3> QED
      BY <1>1, <2>1, <2>5, <2>10, <3>1, <3>3, <3>4
         DEF IInv, PasswordsOK, OthersKept, tokenVars
  <2> QED
    BY <2>7, <2>9, <2>13, <2>14, <2>15, <2>16 DEF Own
<1> QED
  BY <1>3, <1>4

-----------------------------------------------------------------------------
(***************************************************************************)
(* The invariant holds.                                                    *)
(***************************************************************************)
LEMMA ServicesInit == Init => R!Init /\ V!Init
<1>1. Refreshing!Init => R!Init
  BY DEF Refreshing!Init, R!Init, Refreshing!NoRow, R!NoRow,
         Refreshing!NoClaims, R!NoClaims, Refreshing!NoOrigin, R!NoOrigin,
         Refreshing!Idle, R!Idle
<1>2. Verification!Init => V!Init
  BY DEF Verification!Init, V!Init, Verification!NoRow, V!NoRow
<1> QED
  BY <1>1, <1>2 DEF Init

\* The invariant holds initially.
LEMMA InvInit == Init => IInv
<1> SUFFICES ASSUME Init PROVE IInv
  OBVIOUS
<1>1. R!IInv
  BY ServicesInit, RefreshingAssumptions, R!InvInit
     DEF R!NoneIsFresh, R!TimeAssumption
<1>2. V!IInv
  BY ServicesInit, VerificationAssumptions, V!InvInit
     DEF V!NoneIsFresh, V!TimeAssumption, V!CallersFinite
<1>3. Typed
  BY DEF Init, Typed, User, Handler, Free
<1>4. \A c \in Callers : /\ handler[c] = Free
                         /\ call[c] = Refreshing!Idle
                         /\ consuming[c] = None
  BY DEF Init, Refreshing!Init, Verification!Init
<1>5. HandlersOK
  <2>1. Free.op = "none" /\ Free.at = "idle" /\ Refreshing!Idle.at = "idle"
    BY DEF Free, Refreshing!Idle
  <2> QED
    BY <1>4, <2>1 DEF HandlersOK, HandlerOK, Mailing, Resetting
<1>6. LettersOK
  BY <1>4 DEF Init, LettersOK, JobsOK, MailingOK, RedeemingOK, Welcoming, Free,
              Mailing, Resetting, Verification!Init, Verification!NoRow,
              Verification!Used
<1>7. StrandedOK
  BY DEF Init, StrandedOK
<1>8. \A t \in Jtis : ~Refreshing!Issued(t) /\ ~Refreshing!Live(t)
  BY DEF Init, Refreshing!Init, Refreshing!NoRow, Refreshing!Issued,
         Refreshing!Live
<1>9. SessionsOK /\ PasswordsOK
  BY <1>4, <1>8 DEF SessionsOK, SessionsOnlyForVerified, PasswordsOK,
                    SurvivorsExplained, Free, Refreshing!Idle
<1> QED
  BY <1>1, <1>2, <1>3, <1>5, <1>6, <1>7, <1>9 DEF IInv

\* Every step preserves the invariant.
LEMMA InvStep == IInv /\ [Next]_vars => IInv'
<1> SUFFICES ASSUME IInv, [Next]_vars PROVE IInv'
  OBVIOUS
<1>1. R!IInv' /\ V!IInv'
  BY ServicesPreserved
<1>2. Own'
  <2>1. CASE Tick \/ UNCHANGED vars
    <3>1. UNCHANGED <<users, mailQueue, handler, history, refreshToken, call,
                      verificationToken, consuming, asked>>
      BY <2>1, OnlyTime
    <3>2. Typed' /\ HandlersOK'
      BY <3>1 DEF IInv, Typed, HandlersOK, HandlerOK, Free, history
    <3>3. LettersOK'
      BY <3>1 DEF IInv, LettersOK, JobsOK, MailingOK, RedeemingOK, Redeemed,
                  Welcoming, Mailed, Verification!Used, Verification!Exists
    <3>4. StrandedOK'
      BY <3>1 DEF IInv, StrandedOK, UnusedLink, history,
                  Verification!Used, Verification!Exists
    <3>5. SessionsOK' /\ PasswordsOK'
      BY <3>1 DEF IInv, SessionsOK, SessionsOnlyForVerified, PasswordsOK,
                  SurvivorsExplained, Pending, Refreshing!Issued,
                  Refreshing!Live, history
    <3> QED
      BY <3>2, <3>3, <3>4, <3>5 DEF Own
  <2>2. ASSUME NEW c \in Callers, NEW u \in Users,
               Register(c, u) \/ ForgotPassword(c, u) \/ Login(c, u)
        PROVE  Own'
    BY <2>2, RegisterStep, ForgotPasswordStep, LoginStep
  <2>3. ASSUME NEW c \in Callers, NEW l \in Links,
               VerifyEmail(c, l) \/ ResetPassword(c, l)
        PROVE  Own'
    BY <2>3, RedeemStep
  <2>4. ASSUME NEW c \in Callers, NEW t \in Jtis, Refresh(c, t)
        PROVE  Own'
    BY <2>4, RefreshStep
  <2>5. ASSUME NEW t \in Jtis, Logout(t)
        PROVE  Own'
    <3>1. {t} \in SUBSET Jtis
      OBVIOUS
    <3> QED
      BY <2>5, <3>1, LogoutStep DEF Logout, Refreshing!RevokeRefreshToken
  <2>6. ASSUME NEW u \in Users, LogoutAll(u)
        PROVE  Own'
    <3>1. Refreshing!RowsOf(u) \in SUBSET Jtis
      BY DEF Refreshing!RowsOf
    <3> QED
      BY <2>6, <3>1, LogoutStep DEF LogoutAll, Refreshing!RevokeAllForUser
  <2>7. ASSUME NEW c \in Callers, Step(c)
        PROVE  Own'
    BY <2>7, InsertUserStep, CreateTokenStep, EnqueueStep, ConsumedStep,
       MarkEmailVerifiedStep, UpdatePasswordStep, RevokeSessionsStep,
       TokensStepStep, FailStep DEF Step
  <2> QED
    BY <2>1, <2>2, <2>3, <2>4, <2>5, <2>6, <2>7 DEF Next
<1> QED
  BY <1>1, <1>2 DEF Own, IInv

(* The invariant holds in every state the service reaches.                 *)
THEOREM InvHolds == Spec => []IInv
BY InvInit, InvStep, PTL DEF Spec

(* Every variable has its type, those of the two token services included,  *)
(* although handlers write each other's tables between their statements.   *)
THEOREM TypeCorrect == Spec => []TypeOK
<1>1. R!TypeOK => Refreshing!TypeOK
  BY DEF R!TypeOK, Refreshing!TypeOK, R!Row, Refreshing!Row, R!Claims,
         Refreshing!Claims, R!Origin, Refreshing!Origin, R!Frame,
         Refreshing!Frame, R!Awaits, Refreshing!Awaits
<1>2. V!TypeOK => Verification!TypeOK
  BY DEF V!TypeOK, Verification!TypeOK, V!Row, Verification!Row, V!Types,
         Verification!Types
<1>3. IInv => TypeOK
  BY <1>1, <1>2 DEF IInv, R!IInv, V!IInv, Typed, TypeOK
<1> QED
  BY <1>3, InvHolds, PTL

(* Nobody holds a refresh token without having verified the e-mail address *)
(* it is for, whichever requests overlap on the way there.                 *)
THEOREM SessionsAreForVerified == Spec => []SessionsOnlyForVerified
<1>1. IInv => SessionsOnlyForVerified
  BY DEF IInv, SessionsOK
<1> QED
  BY <1>1, InvHolds, PTL

(* An address counts as verified only if a verification link was mailed to *)
(* it, for this user, and consumed.                                        *)
THEOREM MailVerifies == Spec => []VerifiedByMailedLink
<1>1. IInv => VerifiedByMailedLink
  BY DEF IInv, LettersOK, JobsOK, TypeOfJob, Redeemed, VerifiedByMailedLink
<1> QED
  BY <1>1, InvHolds, PTL

(* A registered user is left without a way to verify the address by a      *)
(* failure or by the expiry of the one link ever mailed to it, and by      *)
(* nothing else: races for a link, or for an address, strand nobody,       *)
(* however many requests take part in them.                                *)
THEOREM StrandedHaveReasons == Spec => []StrandedForAReason
<1>1. ASSUME IInv, NEW job \in mailQueue, NEW u \in Users, UnusedLink(job, u)
      PROVE  /\ WelcomeMail(job, u)
             /\ \/ Verification!Matches(job.link, "EMAIL_VERIFICATION")
                \/ ExpiredUnused(job.link)
  <2>1. job.link \in Links
    BY <1>1 DEF IInv, Typed, Job
  <2>2. verificationToken[job.link].expiresAt \in Nat /\ now \in Nat
    <3>1. V!TypeOK
      BY <1>1 DEF IInv, V!IInv
    <3> QED
      BY <2>1, <3>1 DEF V!TypeOK, V!Row
  <2>3. \/ verificationToken[job.link].expiresAt > now
        \/ verificationToken[job.link].expiresAt <= now
    BY <2>2
  <2> QED
    BY <1>1, <2>3 DEF UnusedLink, WelcomeMail, ExpiredUnused,
       Verification!Matches, Verification!Used, Verification!Exists
<1>2. IInv => StrandedForAReason
  BY <1>1 DEF IInv, StrandedOK, StrandedForAReason
<1> QED
  BY <1>2, InvHolds, PTL

(* A session that outlives a change of its password has one of the three   *)
(* reasons: the reset is still to revoke, it broke off before, or the      *)
(* session descends from one that was being issued during the revocation.  *)
THEOREM SurvivorsHaveReasons == Spec => []SurvivorsExplained
<1>1. IInv => SurvivorsExplained
  BY DEF IInv, PasswordsOK
<1> QED
  BY <1>1, InvHolds, PTL

(* The service uses its two token services only as their modules specify,  *)
(* so that everything proved of them alone holds of them within it.        *)
THEOREM ServicesObeyed == Spec => R!Spec /\ V!Spec
<1>1. IInv /\ [Next]_vars => [R!Next]_(R!vars)
  BY TokenServiceObeyed
<1>2. IInv /\ [Next]_vars => [V!Next]_(V!vars)
  BY VerificationServiceObeyed
<1> QED
  BY <1>1, <1>2, ServicesInit, InvHolds, PTL DEF Spec, R!Spec, V!Spec

(* What the two token services guarantee holds of them within the service: *)
(* rotation revokes before it issues and keeps the user, a caller rotates  *)
(* a token at most once, and a link is worth at most one use per request,  *)
(* and only the use it was created for.                                    *)
THEOREM GuaranteesCarryOver ==
    Spec => [](/\ Refreshing!PredecessorRevoked
               /\ Refreshing!RotationKeepsUser
               /\ Refreshing!OneSuccessorPerCaller
               /\ Verification!BoundedUses
               /\ Verification!GrantedIsUsed)
<1>1. R!IInv => /\ Refreshing!PredecessorRevoked
                /\ Refreshing!RotationKeepsUser
                /\ Refreshing!OneSuccessorPerCaller
  BY DEF R!IInv, R!PredecessorRevoked, Refreshing!PredecessorRevoked,
         R!RotationKeepsUser, Refreshing!RotationKeepsUser,
         R!OneSuccessorPerCaller, Refreshing!OneSuccessorPerCaller,
         R!Issued, Refreshing!Issued
<1>2. V!IInv => Verification!GrantedIsUsed
  BY DEF V!IInv, V!GrantedIsUsed, Verification!GrantedIsUsed, V!Used,
         Verification!Used
<1>3. V!IInv => Verification!BoundedUses
  <2>1. V!IInv => V!BoundedUses
    BY VerificationAssumptions, V!HoldersCounted, V!CallersCounted
       DEF V!IInv, V!TypeOK, V!BoundedUses, V!NoneIsFresh, V!TimeAssumption,
           V!CallersFinite
  <2>2. V!Cardinality(Callers) = Verification!Cardinality(Callers)
    BY DEF V!Cardinality, Verification!Cardinality
  <2> QED
    BY <2>1, <2>2 DEF V!BoundedUses, Verification!BoundedUses
<1> QED
  BY <1>1, <1>2, <1>3, InvHolds, PTL DEF IInv

-----------------------------------------------------------------------------
(***************************************************************************)
(* The service implements the abstract accounts.                           *)
(***************************************************************************)
Stages    == [u \in Users |-> Stage(u)]
Passwords == [u \in Users |-> users[u].password]
Opened    == {l \in Links : Verification!Used(l)}
Holders   == [t \in Jtis |-> IF Refreshing!Live(t)
                             THEN refreshToken[t].userId ELSE None]
AbstractVars == <<Stages, Passwords, mailQueue, Opened, Holders>>

(* What leaves each part of the abstract state alone.                      *)
LEMMA UsersKept ==
    ASSUME \A u \in Users :
              /\ users'[u].registered = users[u].registered
              /\ users'[u].emailVerified = users[u].emailVerified
    PROVE  Stages' = Stages
BY DEF Stages, Stage

\* A step that uses no link redeems no letter.
LEMMA UsesKept ==
    ASSUME \A l \in Links : Verification!Used(l)' <=> Verification!Used(l)
    PROVE  Opened' = Opened
BY DEF Opened

\* A step that changes no live row leaves the sessions with their holders.
LEMMA HoldersKept ==
    ASSUME \A t \in Jtis : Refreshing!Live(t) => refreshToken'[t].userId = refreshToken[t].userId,
           \A t \in Jtis : Refreshing!Live(t)' <=> Refreshing!Live(t)
    PROVE  Holders' = Holders
BY DEF Holders

(* A letter is redeemed, whatever becomes of the request that redeems it.  *)
LEMMA Redeeming ==
    ASSUME IInv, NEW l \in Mailed,
           UNCHANGED <<users, mailQueue, refreshToken>>,
           verificationToken' = [verificationToken EXCEPT ![l].usedAt = TRUE]
    PROVE  Service!Next
<1>1. PICK mail \in mailQueue : mail.link = l
  BY DEF Mailed
<1>2. l \in Links /\ mail \in Service!Mail
  BY <1>1 DEF IInv, Typed, Job, Service!Mail, Service!Purposes
<1>3. \A k \in Links : Verification!Used(k)' <=> Verification!Used(k) \/ k = l
  BY <1>2, LinkFacts DEF IInv, V!Row, Verification!Used
<1>4. Opened' = Opened \cup {mail.link}
  BY <1>1, <1>2, <1>3 DEF Opened
<1>5. Stages' = Stages /\ Passwords' = Passwords
  BY UsersKept DEF Passwords
<1>6. Holders' = Holders
  BY DEF Holders, Refreshing!Live
<1>7. Service!Redeem(mail)
  BY <1>4, <1>5, <1>6 DEF Service!Redeem, Stages, Passwords, Opened, Holders
<1> QED
  BY <1>2, <1>7 DEF Service!Next

(* Revoking tokens of one user ends the sessions that are open.            *)
LEMMA Ending ==
    ASSUME IInv, NEW rows \in SUBSET Jtis, NEW u \in Users,
           \A t \in rows : Refreshing!Live(t) => refreshToken[t].userId = u,
           \A t \in Jtis :
              /\ refreshToken'[t].userId = refreshToken[t].userId
              /\ Refreshing!Live(t)' <=> Refreshing!Live(t) /\ t \notin rows,
           UNCHANGED <<users, mailQueue, verificationToken>>
    PROVE  Service!Next
<1> DEFINE S == {t \in rows : Refreshing!Live(t)}
<1>1. S \in SUBSET Jtis /\ \A t \in S : Holders[t] = u
  BY DEF Holders
<1>2. Holders' = [t \in Jtis |-> IF t \in S THEN None ELSE Holders[t]]
  BY DEF Holders
<1>3. Stages' = Stages /\ Passwords' = Passwords /\ Opened' = Opened
  BY UsersKept DEF Passwords, Opened, Verification!Used
<1>4. Service!End(S, u)
  BY <1>1, <1>2, <1>3 DEF Service!End, Stages, Passwords, Opened, Holders
<1> QED
  BY <1>1, <1>4 DEF Service!Next

\* A step that the accounts do not see.
LEMMA Unseen ==
    ASSUME UNCHANGED <<users, mailQueue>>,
           \A l \in Links : Verification!Used(l)' <=> Verification!Used(l),
           UNCHANGED refreshToken
    PROVE  UNCHANGED Service!vars
<1>1. Stages' = Stages /\ Passwords' = Passwords /\ Opened' = Opened
  BY UsersKept, UsesKept DEF Passwords
<1>2. Holders' = Holders
  BY DEF Holders, Refreshing!Live
<1> QED
  BY <1>1, <1>2 DEF Service!vars, Stages, Passwords, Opened, Holders

(* What the accounts see of the handlers that send letters.                *)
LEMMA InsertUserImplements ==
    ASSUME IInv, NEW c \in Callers, InsertUser(c)
    PROVE  [Service!Next]_(Service!vars)
<1> DEFINE u == handler[c].user
<1>1. /\ u \in Users
      /\ UNCHANGED <<mailQueue, refreshToken, verificationToken>>
  BY DEF InsertUser, At, IInv, HandlersOK, HandlerOK, tokenVars,
         verificationVars
<1>2. CASE users[u].registered
  <2>1. UNCHANGED users
    BY <1>2 DEF InsertUser
  <2> QED
    BY <1>1, <2>1, Unseen DEF Verification!Used
<1>3. CASE ~users[u].registered
  <2>1. users' = [users EXCEPT ![u].registered = TRUE]
    BY <1>3 DEF InsertUser
  <2>2. ~users[u].emailVerified
    BY <1>1, <1>3 DEF IInv, LettersOK, JobsOK, Redeemed
  <2>3. /\ users'[u].registered /\ ~users'[u].emailVerified
        /\ \A x \in Users \ {u} : users'[x] = users[x]
        /\ \A x \in Users : users'[x].password = users[x].password
    BY <1>1, <2>1, <2>2 DEF IInv, Typed, User
  <2>4. Stages[u] = "unknown" /\ Stages' = [Stages EXCEPT ![u] = "registered"]
    <3>1. \A x \in Users : Stage(x)' = IF x = u THEN "registered" ELSE Stage(x)
      BY <2>3 DEF Stage
    <3> QED
      BY <1>1, <1>3, <3>1 DEF Stages, Stage
  <2>5. Passwords' = Passwords /\ Opened' = Opened /\ Holders' = Holders
    BY <1>1, <2>3 DEF Passwords, Opened, Holders, Verification!Used,
                      Refreshing!Live
  <2>6. Service!SignUp(u)
    BY <1>1, <2>4, <2>5
       DEF Service!SignUp, Stages, Passwords, Opened, Holders
  <2> QED
    BY <1>1, <2>6 DEF Service!Next
<1> QED
  BY <1>2, <1>3

LEMMA EnqueueImplements ==
    ASSUME IInv, NEW c \in Callers, Enqueue(c)
    PROVE  Service!Next
<1> DEFINE f   == handler[c]
           new == [name |-> JobOf(f.op), email |-> f.user, link |-> f.link]
<1>1. /\ f.at = "enqueue" /\ mailQueue' = mailQueue \cup {new}
      /\ UNCHANGED <<users, refreshToken, verificationToken>>
  BY DEF Enqueue, tokenVars, verificationVars
<1>2. f.user \in Users /\ f.op \in {"register", "forgotPassword"}
  BY <1>1 DEF IInv, HandlersOK, HandlerOK, Mailing
<1>3. /\ users[f.user].registered
      /\ f.link \in Links
      /\ \A job \in mailQueue : job.link # f.link
      /\ f.op = "register" => \A job \in mailQueue :
            ~(job.name = "email-verification" /\ job.email = f.user)
  BY <1>1 DEF IInv, LettersOK, MailingOK, Mailing, Welcoming
<1>4. /\ new \in Service!Mail
      /\ new.name = JobOf(f.op) /\ new.email = f.user /\ new.link = f.link
      /\ new.name # "password-reset" => f.op = "register"
      /\ f.op = "register" => new.name = "email-verification"
  BY <1>2, <1>3 DEF Service!Mail, Service!Purposes, JobOf
<1> HIDE DEF new
<1>5. Stages[new.email] # "unknown"
  BY <1>2, <1>3, <1>4 DEF Stages, Stage
<1>6. /\ Stages' = Stages /\ Passwords' = Passwords
      /\ Opened' = Opened /\ Holders' = Holders
  BY <1>1, UsersKept DEF Passwords, Opened, Holders, Verification!Used,
                         Refreshing!Live
<1>7. Service!Post(new)
  BY <1>1, <1>3, <1>4, <1>5, <1>6
     DEF Service!Post, Stages, Passwords, Opened, Holders
<1> QED
  BY <1>4, <1>7 DEF Service!Next

(* And of those that act on a letter.                                      *)
LEMMA MarkEmailVerifiedImplements ==
    ASSUME IInv, NEW c \in Callers, MarkEmailVerified(c)
    PROVE  Service!Next
<1> DEFINE u == handler[c].user
<1>1. /\ u \in Users /\ Redeemed(u, "email-verification")
      /\ users' = [users EXCEPT ![u].emailVerified = TRUE, ![u].status = TRUE]
      /\ UNCHANGED <<mailQueue, refreshToken, verificationToken>>
  BY DEF MarkEmailVerified, IInv, HandlersOK, HandlerOK, LettersOK,
         RedeemingOK, tokenVars, verificationVars
<1>2. PICK mail \in mailQueue :
         /\ mail.name = "email-verification" /\ mail.email = u
         /\ Verification!Used(mail.link)
  BY <1>1 DEF Redeemed
<1>3. mail.link \in Opened /\ users[u].registered
  BY <1>2 DEF Opened, IInv, Typed, Job, LettersOK, JobsOK
<1>4. /\ users'[u].registered /\ users'[u].emailVerified
      /\ \A x \in Users \ {u} : users'[x] = users[x]
      /\ \A x \in Users : users'[x].password = users[x].password
  BY <1>1, <1>3 DEF IInv, Typed, User
<1>5. Stages' = [Stages EXCEPT ![u] = "verified"]
  <2>1. \A x \in Users : Stage(x)' = IF x = u THEN "verified" ELSE Stage(x)
    BY <1>4 DEF Stage
  <2> QED
    BY <1>1, <2>1 DEF Stages
<1>6. Passwords' = Passwords /\ Opened' = Opened /\ Holders' = Holders
  BY <1>1, <1>4 DEF Passwords, Opened, Holders, Verification!Used,
                    Refreshing!Live
<1>7. Service!Entitled(u, "email-verification")
  BY <1>2, <1>3 DEF Service!Entitled, Opened
<1>8. Service!Verify(u)
  BY <1>1, <1>5, <1>6, <1>7
     DEF Service!Verify, Stages, Passwords, Opened, Holders
<1> QED
  BY <1>1, <1>8 DEF Service!Next

LEMMA UpdatePasswordImplements ==
    ASSUME IInv, NEW c \in Callers, UpdatePassword(c)
    PROVE  Service!Next
<1> DEFINE u == handler[c].user
<1>1. /\ u \in Users /\ Redeemed(u, "password-reset")
      /\ users' = [users EXCEPT ![u].password = @ + 1]
      /\ UNCHANGED <<mailQueue, refreshToken, verificationToken>>
  BY DEF UpdatePassword, IInv, HandlersOK, HandlerOK, LettersOK, RedeemingOK,
         Resetting, tokenVars, verificationVars
<1>2. PICK mail \in mailQueue :
         /\ mail.name = "password-reset" /\ mail.email = u
         /\ Verification!Used(mail.link)
  BY <1>1 DEF Redeemed
<1>3. mail.link \in Opened
  BY <1>2 DEF Opened, IInv, Typed, Job
<1>4. /\ users'[u].password = users[u].password + 1
      /\ \A x \in Users \ {u} : users'[x] = users[x]
      /\ \A x \in Users : /\ users'[x].registered = users[x].registered
                          /\ users'[x].emailVerified = users[x].emailVerified
  BY <1>1 DEF IInv, Typed, User
<1>5. Passwords' = [Passwords EXCEPT ![u] = @ + 1]
  BY <1>1, <1>4 DEF Passwords
<1>6. Stages' = Stages /\ Opened' = Opened /\ Holders' = Holders
  BY <1>1, <1>4, UsersKept DEF Opened, Holders, Verification!Used,
                               Refreshing!Live
<1>7. Service!Entitled(u, "password-reset")
  BY <1>2, <1>3 DEF Service!Entitled, Opened
<1>8. PICK a \in Users : a = u
  BY <1>1
<1>9. Service!ChangePassword(a)
  BY <1>1, <1>5, <1>6, <1>7, <1>8
     DEF Service!ChangePassword, Stages, Passwords, Opened, Holders
<1> QED
  BY <1>9 DEF Service!Next

(* And of those that issue or revoke refresh tokens.                       *)
LEMMA OpenSessionImplements ==
    ASSUME IInv, NEW c \in Callers, TokensStep(c), OpenSession(c)
    PROVE  Service!Next
<1> DEFINE t == call[c].fresh
           u == call[c].user
<1>1. /\ handler[c].at = "tokens"
      /\ UNCHANGED <<users, mailQueue, verificationToken>>
  BY DEF TokensStep, verificationVars
<1>2. /\ call[c].at = "create"
      /\ \E e : refreshToken' = [refreshToken EXCEPT ![t] =
                   [status |-> "live", userId |-> u, expiresAt |-> e]]
  BY DEF OpenSession, Refreshing!CreateRow, Refreshing!At
<1>3. t \in Jtis /\ u \in Users /\ ~Refreshing!Live(t)
  BY <1>2, FrameFacts DEF IInv, Refreshing!Live
<1>4. /\ refreshToken'[t].status = "live" /\ refreshToken'[t].userId = u
      /\ \A r \in Jtis \ {t} : refreshToken'[r] = refreshToken[r]
  BY <1>2, <1>3 DEF IInv, R!IInv, R!TypeOK
<1>5. users[u].emailVerified /\ users[u].registered
  <2>1. users[u].emailVerified
    BY <1>1 DEF IInv, SessionsOK
  <2> QED
    BY <1>3, <2>1 DEF IInv, LettersOK, JobsOK, Redeemed
<1>6. Stages[u] = "verified" /\ Holders[t] = None
  BY <1>3, <1>5 DEF Stages, Stage, Holders
<1>7. Holders' = [Holders EXCEPT ![t] = u]
  <2>1. \A r \in Jtis : (IF Refreshing!Live(r)' THEN refreshToken'[r].userId ELSE None)
                        = IF r = t THEN u ELSE Holders[r]
    BY <1>3, <1>4 DEF Holders, Refreshing!Live
  <2> QED
    BY <1>3, <2>1 DEF Holders
<1>8. Stages' = Stages /\ Passwords' = Passwords /\ Opened' = Opened
  BY <1>1, UsersKept DEF Passwords, Opened, Verification!Used
<1>9. PICK r \in Jtis, a \in Users : r = t /\ a = u
  BY <1>3
<1>10. Service!Open(r, a)
  BY <1>1, <1>6, <1>7, <1>8, <1>9
     DEF Service!Open, Stages, Passwords, Opened, Holders
<1> QED
  BY <1>10 DEF Service!Next

LEMMA TokensStepImplements ==
    ASSUME IInv, NEW c \in Callers, TokensStep(c)
    PROVE  [Service!Next]_(Service!vars)
<1>1. UNCHANGED <<users, mailQueue, verificationToken>>
  BY DEF TokensStep, verificationVars
<1>2. CASE OpenSession(c)
  BY <1>2, OpenSessionImplements
<1>3. CASE Refreshing!FindStored(c) \/ Refreshing!SignTokens(c)
  <2>1. UNCHANGED refreshToken
    BY <1>3 DEF Refreshing!FindStored, Refreshing!SignTokens
  <2> QED
    BY <1>1, <2>1, Unseen DEF Verification!Used
<1>4. CASE Refreshing!RevokeStored(c)
  <2> DEFINE t == call[c].token
             u == call[c].user
  <2>1. /\ call[c].at = "revoke"
        /\ refreshToken' = [refreshToken EXCEPT ![t] = Refreshing!Revoked(@)]
    BY <1>4 DEF Refreshing!RevokeStored, Refreshing!At
  <2>2. t \in Jtis /\ u \in Users /\ refreshToken[t].userId = u
    BY <2>1, FrameFacts DEF IInv
  <2>3. \A r \in Jtis :
           /\ refreshToken'[r].userId = refreshToken[r].userId
           /\ Refreshing!Live(r)' <=> Refreshing!Live(r) /\ r \notin {t}
    <3>1. /\ refreshToken \in [Jtis -> R!Row]
          /\ \A r \in Jtis : refreshToken[r] \in R!Row
      BY DEF IInv, R!IInv, R!TypeOK
    <3> QED
      BY <2>1, <2>2, <3>1 DEF Refreshing!Live, Refreshing!Revoked, R!Row
  <2>4. {t} \in SUBSET Jtis
    BY <2>2
  <2>5. \A r \in {t} : Refreshing!Live(r) => refreshToken[r].userId = u
    BY <2>2
  <2> QED
    BY <1>1, <2>2, <2>3, <2>4, <2>5, Ending
<1> QED
  BY <1>2, <1>3, <1>4 DEF TokensStep

LEMMA RevokingImplements ==
    ASSUME IInv, NEW rows \in SUBSET Jtis, NEW u \in Users,
           \A t \in rows : Refreshing!Live(t) => refreshToken[t].userId = u,
           Refreshing!RevokeRows(rows),
           UNCHANGED <<users, mailQueue, verificationVars>>
    PROVE  Service!Next
<1>1. UNCHANGED verificationToken
  BY DEF verificationVars
<1>2. \A t \in Jtis :
         /\ refreshToken'[t].userId = refreshToken[t].userId
         /\ Refreshing!Live(t)' <=> Refreshing!Live(t) /\ t \notin rows
  BY RowsRevoked DEF IInv
<1> QED
  BY <1>1, <1>2, Ending

(* Every step of the service is a step of the accounts, or one that they   *)
(* do not see.                                                             *)
LEMMA StepImplements ==
    ASSUME IInv, [Next]_vars
    PROVE  [Service!Next]_(Service!vars)
<1>1. ASSUME UNCHANGED <<users, mailQueue, refreshToken, verificationToken>>
      PROVE  UNCHANGED Service!vars
  BY <1>1, Unseen DEF Verification!Used
<1>2. ASSUME Tick \/ UNCHANGED vars
      PROVE  UNCHANGED Service!vars
  BY <1>1, <1>2, OnlyTime
<1>3. ASSUME NEW c \in Callers, NEW u \in Users,
             Register(c, u) \/ ForgotPassword(c, u) \/ Login(c, u)
      PROVE  UNCHANGED Service!vars
  BY <1>1, <1>3 DEF Register, ForgotPassword, Login, tokenVars,
                    verificationVars, Refreshing!CallIssueTokens,
                    Refreshing!Enter
<1>4. ASSUME NEW c \in Callers, NEW l \in Links,
             VerifyEmail(c, l) \/ ResetPassword(c, l)
      PROVE  UNCHANGED Service!vars
  BY <1>1, <1>4 DEF VerifyEmail, ResetPassword, tokenVars,
                    Verification!FindRecord
<1>5. ASSUME NEW c \in Callers, NEW t \in Jtis, Refresh(c, t)
      PROVE  UNCHANGED Service!vars
  BY <1>1, <1>5 DEF Refresh, verificationVars, Refreshing!CallRefreshTokens,
                    Refreshing!Enter
<1>6. ASSUME NEW t \in Jtis, Logout(t)
      PROVE  Service!Next
  <2>1. /\ Refreshing!Issued(t) /\ Refreshing!RevokeRows({t})
        /\ UNCHANGED <<users, mailQueue, verificationVars>>
    BY <1>6 DEF Logout, Refreshing!RevokeRefreshToken
  <2>2. /\ refreshToken[t].userId \in Users
        /\ {t} \in SUBSET Jtis
        /\ \A r \in {t} : Refreshing!Live(r) =>
              refreshToken[r].userId = refreshToken[t].userId
    BY <2>1, RowFacts DEF IInv, Refreshing!Issued
  <2> QED
    BY <2>1, <2>2, RevokingImplements
<1>7. \A u \in Users :
         /\ Refreshing!RowsOf(u) \in SUBSET Jtis
         /\ \A t \in Refreshing!RowsOf(u) :
               Refreshing!Live(t) => refreshToken[t].userId = u
  BY DEF Refreshing!RowsOf
<1>8. ASSUME NEW u \in Users, LogoutAll(u)
      PROVE  Service!Next
  BY <1>7, <1>8, RevokingImplements
     DEF LogoutAll, Refreshing!RevokeAllForUser
<1>9. ASSUME NEW c \in Callers, RevokeSessions(c)
      PROVE  Service!Next
  <2>1. handler[c].user \in Users
    BY <1>9 DEF RevokeSessions, IInv, HandlersOK, HandlerOK, Resetting
  <2> QED
    BY <1>7, <1>9, <2>1, RevokingImplements
       DEF RevokeSessions, Refreshing!RevokeAllForUser
<1>10. ASSUME NEW c \in Callers, CreateToken(c)
       PROVE  UNCHANGED Service!vars
  <2>1. PICK l \in Links :
           Verification!Create(l, handler[c].user, TypeOf(handler[c].op))
    BY <1>10 DEF CreateToken
  <2>2. /\ ~Verification!Exists(l)
        /\ ~verificationToken'[l].usedAt
        /\ \A k \in Links \ {l} : verificationToken'[k] = verificationToken[k]
    BY <2>1, LinkFacts DEF IInv, Verification!Create
  <2>3. ~Verification!Used(l)
    BY <2>2 DEF IInv, LettersOK, JobsOK
  <2>4. \A k \in Links : Verification!Used(k)' <=> Verification!Used(k)
    BY <2>2, <2>3 DEF Verification!Used
  <2>5. UNCHANGED <<users, mailQueue, refreshToken>>
    BY <1>10 DEF CreateToken, tokenVars
  <2> QED
    BY <2>4, <2>5, Unseen
<1>11. ASSUME NEW c \in Callers, handler[c].at = "consume",
              UNCHANGED <<users, mailQueue, refreshToken>>,
              verificationToken' =
                 [verificationToken EXCEPT ![consuming[c]].usedAt = TRUE]
       PROVE  Service!Next
  <2>1. consuming[c] \in Mailed
    BY <1>11 DEF IInv, LettersOK, RedeemingOK
  <2> QED
    BY <1>11, <2>1, Redeeming
<1>12. ASSUME NEW c \in Callers, Consumed(c)
       PROVE  Service!Next
  BY <1>11, <1>12 DEF Consumed, tokenVars, Verification!MarkUsed
<1>13. ASSUME NEW c \in Callers, Fail(c)
       PROVE  [Service!Next]_(Service!vars)
  <2>1. UNCHANGED <<users, mailQueue, refreshToken>>
    BY <1>13 DEF Fail, tokenVars, Refreshing!Fail
  <2>2. \/ UNCHANGED verificationToken
        \/ /\ handler[c].at = "consume"
           /\ verificationToken' =
                 [verificationToken EXCEPT ![consuming[c]].usedAt = TRUE]
    BY <1>13 DEF Fail, verificationVars, Verification!Abandon
  <2> QED
    BY <1>1, <1>11, <2>1, <2>2
<1> QED
  BY <1>2, <1>3, <1>4, <1>5, <1>6, <1>8, <1>9, <1>10, <1>12, <1>13,
     InsertUserImplements, EnqueueImplements, MarkEmailVerifiedImplements,
     UpdatePasswordImplements, TokensStepImplements DEF Next, Step

(* The service implements the abstract accounts, for any number of         *)
(* requests: whatever the statements of the handlers interleave with, an   *)
(* address becomes verified, changes its password and opens sessions only  *)
(* as the letters that were sent to it and redeemed entitle it to.         *)
THEOREM AccountsImplemented == Spec => ImplementsAccounts
<1>1. Init => Service!Init
  BY DEF Init, Service!Init, Stage, Refreshing!Init, Refreshing!NoRow,
         Refreshing!Live, Verification!Init, Verification!NoRow,
         Verification!Used
<1>2. IInv /\ [Next]_vars => [Service!Next]_(Service!vars)
  BY StepImplements
<1> QED
  BY <1>1, <1>2, InvHolds, PTL DEF Spec, ImplementsAccounts, Service!Spec

-----------------------------------------------------------------------------
(***************************************************************************)
(* Changes of passwords.  ChangesArePaidFor counts what has been paid and  *)
(* what has been bought; in between a handler has consumed a reset link    *)
(* and has yet to save the password.  The invariant counts these too.      *)
(***************************************************************************)
Paying(u) ==
    {c \in Callers : handler[c].at = "updatePassword" /\ handler[c].user = u}

PaidFor ==
    \A u \in Users :
        /\ IsFiniteSet(Payments(u))
        /\ users[u].password + Cardinality(Paying(u)) <= Cardinality(Payments(u))

(* Uses f of the links L, one by one.                                      *)
UsesOf(L, f) == UNION {{l} \X (1..f[l]) : l \in L}

\* What the pairs in UsesOf are.
LEMMA InUsesOf ==
    ASSUME NEW L, NEW f
    PROVE  \A p : p \in UsesOf(L, f) <=>
                     \E l \in L : \E n \in 1..f[l] : p = <<l, n>>
BY DEF UsesOf

\* Links that were never used count for nothing.
LEMMA SameUses ==
    ASSUME NEW L \in SUBSET Links, NEW M \in SUBSET Links,
           NEW f \in [Links -> Nat], NEW g \in [Links -> Nat],
           \A l \in Links : (l \in L /\ f[l] > 0) <=> (l \in M /\ g[l] > 0),
           \A l \in L : f[l] > 0 => g[l] = f[l]
    PROVE  UsesOf(L, f) = UsesOf(M, g)
<1>1. ASSUME NEW p PROVE p \in UsesOf(L, f) <=> p \in UsesOf(M, g)
  <2>1. ASSUME NEW l \in L, NEW n \in 1..f[l]
        PROVE  l \in M /\ n \in 1..g[l]
    BY <2>1
  <2>2. ASSUME NEW l \in M, NEW n \in 1..g[l]
        PROVE  l \in L /\ n \in 1..f[l]
    BY <2>2
  <2> QED
    BY <2>1, <2>2, InUsesOf
<1> QED
  BY <1>1

\* A use of a link of L adds one pair.
LEMMA OneMoreUse ==
    ASSUME NEW L \in SUBSET Links, NEW f \in [Links -> Nat], NEW l \in L,
           NEW g, g[l] = f[l] + 1, \A k \in L \ {l} : g[k] = f[k]
    PROVE  /\ UsesOf(L, g) = UsesOf(L, f) \cup {<<l, f[l] + 1>>}
           /\ <<l, f[l] + 1>> \notin UsesOf(L, f)
<1> DEFINE use == <<l, f[l] + 1>>
<1>1. /\ g[l] = f[l] + 1 /\ f[l] \in Nat
      /\ \A k \in L \ {l} : g[k] = f[k]
  OBVIOUS
<1>2. 1..g[l] = (1..f[l]) \cup {f[l] + 1}
  BY <1>1
<1>3. use \notin UsesOf(L, f)
  BY <1>1, InUsesOf
<1>4. ASSUME NEW p PROVE p \in UsesOf(L, g) <=> p \in UsesOf(L, f) \/ p = use
  <2>1. ASSUME NEW k \in L, NEW n
        PROVE  n \in 1..g[k] <=> n \in 1..f[k] \/ (k = l /\ n = f[l] + 1)
    BY <1>1, <1>2
  <2>2. ASSUME p \in UsesOf(L, g) PROVE p \in UsesOf(L, f) \/ p = use
    <3>1. PICK k \in L : \E n \in 1..g[k] : p = <<k, n>>
      BY <2>2 DEF UsesOf
    <3>2. PICK n \in 1..g[k] : p = <<k, n>>
      BY <3>1
    <3>3. n \in 1..f[k] \/ (k = l /\ n = f[l] + 1)
      BY <2>1
    <3> QED
      BY <3>2, <3>3, InUsesOf
  <2>3. ASSUME p \in UsesOf(L, f) PROVE p \in UsesOf(L, g)
    <3>1. PICK k \in L : \E n \in 1..f[k] : p = <<k, n>>
      BY <2>3, InUsesOf
    <3>2. PICK n \in 1..f[k] : p = <<k, n>>
      BY <3>1
    <3> QED
      BY <2>1, <3>2, InUsesOf
  <2>4. use \in UsesOf(L, g)
    BY <2>1, InUsesOf
  <2> QED
    BY <2>2, <2>3, <2>4
<1>5. UsesOf(L, g) = UsesOf(L, f) \cup {use}
  BY <1>4
<1> QED
  BY <1>3, <1>5

\* The handlers that are about to save a password are finitely many.
LEMMA PayingCounted ==
    ASSUME NEW u \in Users
    PROVE  IsFiniteSet(Paying(u)) /\ Cardinality(Paying(u)) \in Nat
<1>1. Paying(u) \subseteq Callers
  BY DEF Paying
<1> QED
  BY <1>1, CallersFinite, FS_Subset, FS_CardinalityType

\* A step that consumes nothing and saves no password.
LEMMA PaidKept ==
    ASSUME IInv, IInv', PaidFor,
           UNCHANGED uses,
           \A u \in Users : users'[u].password = users[u].password,
           \A c \in Callers : handler'[c].at = "updatePassword" =>
              handler[c].at = "updatePassword" /\ handler'[c].user = handler[c].user,
           \A l \in Links : Verification!Exists(l) =>
              /\ verificationToken'[l].userId = verificationToken[l].userId
              /\ verificationToken'[l].type = verificationToken[l].type
    PROVE  PaidFor'
<1> SUFFICES ASSUME NEW u \in Users
             PROVE  (/\ IsFiniteSet(Payments(u))
                     /\ users[u].password + Cardinality(Paying(u))
                           <= Cardinality(Payments(u)))'
  BY DEF PaidFor
<1>1. uses \in [Links -> Nat] /\ \A l \in Links : uses[l] > 0 => Verification!Exists(l)
  BY DEF IInv, V!IInv, V!TypeOK, V!Exists, Verification!Exists
<1>2. Payments(u)' = Payments(u)
  <2>1. \A l \in Links : uses[l] > 0 =>
           (l \in ResetLinksOf(u)' <=> l \in ResetLinksOf(u))
    BY <1>1 DEF ResetLinksOf
  <2>2. ResetLinksOf(u) \in SUBSET Links /\ ResetLinksOf(u)' \in SUBSET Links
    BY DEF ResetLinksOf
  <2>3. UsesOf(ResetLinksOf(u), uses) = UsesOf(ResetLinksOf(u)', uses)
    BY <1>1, <2>1, <2>2, SameUses
  <2> QED
    BY <2>3 DEF Payments, UsesOf
<1>3. Cardinality(Paying(u)') <= Cardinality(Paying(u))
  <2>1. Paying(u)' \subseteq Paying(u)
    BY DEF Paying
  <2> QED
    BY <2>1, PayingCounted, FS_Subset
<1>4. /\ Cardinality(Paying(u)) \in Nat
      /\ Cardinality(Paying(u)') \in Nat
      /\ users[u].password \in Nat
  <2>1. Paying(u)' \subseteq Callers
    BY DEF Paying
  <2> QED
    BY <2>1, PayingCounted, CallersFinite, FS_Subset, FS_CardinalityType
       DEF IInv, Typed, User
<1>5. IsFiniteSet(Payments(u)) /\ Cardinality(Payments(u)) \in Nat
  BY FS_CardinalityType DEF PaidFor
<1>6. users[u].password + Cardinality(Paying(u)) <= Cardinality(Payments(u))
  BY DEF PaidFor
<1> QED
  BY <1>2, <1>3, <1>4, <1>5, <1>6

(* consume returns: the link is worth one more change of the password of   *)
(* its user, and the handler that has it is going to make it.              *)
LEMMA ConsumedPays ==
    ASSUME IInv, PaidFor, NEW c \in Callers, Consumed(c)
    PROVE  PaidFor'
<1> DEFINE l == consuming[c]
           v == verificationToken[consuming[c]].userId
<1>1. /\ handler[c].at = "consume"
      /\ handler' = [handler EXCEPT ![c].at = AfterConsume(handler[c].op),
                                    ![c].user = v]
      /\ verificationToken' = [verificationToken EXCEPT ![l].usedAt = TRUE]
      /\ uses' = [uses EXCEPT ![l] = @ + 1]
      /\ UNCHANGED users
  BY DEF Consumed, Verification!MarkUsed, Verification!Return
<1>2. /\ handler[c].op \in {"verifyEmail", "resetPassword"}
      /\ l \in Links
      /\ verificationToken[l].type = IF handler[c].op = "verifyEmail"
                                     THEN "EMAIL_VERIFICATION"
                                     ELSE "PASSWORD_RESET"
  BY <1>1, LinkFacts DEF IInv, HandlersOK, HandlerOK, LettersOK, RedeemingOK
<1>3. \A k \in Links : /\ verificationToken'[k].userId = verificationToken[k].userId
                       /\ verificationToken'[k].type = verificationToken[k].type
  BY <1>1, <1>2, LinkFacts DEF IInv, V!Row
<1>4. /\ handler'[c].at = AfterConsume(handler[c].op)
      /\ handler'[c].user = v
      /\ \A d \in Callers \ {c} : handler'[d] = handler[d]
  <2>1. handler \in [Callers -> Handler]
    BY DEF IInv, Typed
  <2>2. handler' = [handler EXCEPT ![c] =
              [handler[c] EXCEPT !.at = AfterConsume(handler[c].op), !.user = v]]
    BY <1>1, <2>1 DEF Handler
  <2> QED
    BY <2>1, <2>2 DEF Handler
<1>5. uses \in [Links -> Nat]
  BY DEF IInv, V!IInv, V!TypeOK
<1> HIDE DEF l, v
<1> SUFFICES ASSUME NEW u \in Users
             PROVE  (/\ IsFiniteSet(Payments(u))
                     /\ users[u].password + Cardinality(Paying(u))
                           <= Cardinality(Payments(u)))'
  BY DEF PaidFor
<1>6. /\ IsFiniteSet(Payments(u)) /\ Cardinality(Payments(u)) \in Nat
      /\ users[u].password + Cardinality(Paying(u)) <= Cardinality(Payments(u))
  BY FS_CardinalityType DEF PaidFor
<1>7. /\ IsFiniteSet(Paying(u)) /\ Cardinality(Paying(u)) \in Nat
      /\ users[u].password \in Nat
  BY PayingCounted DEF IInv, Typed, User
<1>8. ResetLinksOf(u)' = ResetLinksOf(u) /\ ResetLinksOf(u) \in SUBSET Links
  BY <1>3 DEF ResetLinksOf
<1>9. /\ Payments(u) = UsesOf(ResetLinksOf(u), uses)
      /\ Payments(u)' = UsesOf(ResetLinksOf(u), uses')
  BY <1>8 DEF Payments, UsesOf
<1>10. CASE l \in ResetLinksOf(u)
  <2>1. /\ Payments(u)' = Payments(u) \cup {<<l, uses[l] + 1>>}
        /\ <<l, uses[l] + 1>> \notin Payments(u)
    <3>1. /\ uses'[l] = uses[l] + 1
          /\ \A k \in ResetLinksOf(u) \ {l} : uses'[k] = uses[k]
      BY <1>1, <1>2, <1>5, <1>8
    <3>2. /\ UsesOf(ResetLinksOf(u), uses') =
                UsesOf(ResetLinksOf(u), uses) \cup {<<l, uses[l] + 1>>}
          /\ <<l, uses[l] + 1>> \notin UsesOf(ResetLinksOf(u), uses)
      BY <1>5, <1>8, <1>10, <3>1, OneMoreUse
    <3> QED
      BY <1>9, <3>2
  <2>2. /\ IsFiniteSet(Payments(u)')
        /\ Cardinality(Payments(u)') = Cardinality(Payments(u)) + 1
    BY <1>6, <2>1, FS_AddElement
  <2>3. Paying(u)' \subseteq Paying(u) \cup {c} /\ c \notin Paying(u)
    BY <1>1, <1>4 DEF Paying
  <2>4. /\ IsFiniteSet(Paying(u) \cup {c})
        /\ Cardinality(Paying(u) \cup {c}) = Cardinality(Paying(u)) + 1
    BY <1>7, <2>3, FS_AddElement
  <2>5. /\ Cardinality(Paying(u)') <= Cardinality(Paying(u)) + 1
        /\ Cardinality(Paying(u)') \in Nat
    BY <2>3, <2>4, FS_Subset, FS_CardinalityType
  <2> QED
    BY <1>1, <1>6, <1>7, <2>2, <2>5
<1>11. CASE l \notin ResetLinksOf(u)
  <2>1. \A k \in ResetLinksOf(u) : uses'[k] = uses[k]
    BY <1>1, <1>5, <1>8, <1>11
  <2>2. Payments(u)' = Payments(u)
    BY <1>8, <1>9, <2>1 DEF UsesOf
  <2>3. ~(handler'[c].at = "updatePassword" /\ handler'[c].user = u)
    BY <1>2, <1>4, <1>11 DEF ResetLinksOf, AfterConsume, l, v
  <2>4. Paying(u)' \subseteq Paying(u)
    BY <1>4, <2>3 DEF Paying
  <2>5. /\ Cardinality(Paying(u)') <= Cardinality(Paying(u))
        /\ Cardinality(Paying(u)') \in Nat
    BY <1>7, <2>4, FS_Subset, FS_CardinalityType
  <2> QED
    BY <1>1, <1>6, <1>7, <2>2, <2>5
<1> QED
  BY <1>10, <1>11

(* The handler that has consumed the link saves the password, once.        *)
LEMMA UpdatePasswordPaid ==
    ASSUME IInv, PaidFor, NEW c \in Callers, UpdatePassword(c)
    PROVE  PaidFor'
<1> DEFINE v == handler[c].user
<1>1. /\ handler[c].at = "updatePassword"
      /\ users' = [users EXCEPT ![v].password = @ + 1]
      /\ GoTo(c, "revokeAll")
      /\ UNCHANGED <<verificationToken, uses>>
  BY DEF UpdatePassword, verificationVars
<1>2. v \in Users
  BY <1>1 DEF IInv, HandlersOK, HandlerOK, Resetting
<1>3. /\ \A d \in Callers \ {c} : handler'[d] = handler[d]
      /\ handler'[c].at = "revokeAll"
  BY <1>1, MovedOn DEF IInv, OnlyHandler, Places
<1>4. /\ users'[v].password = users[v].password + 1
      /\ \A u \in Users \ {v} : users'[u].password = users[u].password
  BY <1>1, <1>2 DEF IInv, Typed, User
<1> SUFFICES ASSUME NEW u \in Users
             PROVE  (/\ IsFiniteSet(Payments(u))
                     /\ users[u].password + Cardinality(Paying(u))
                           <= Cardinality(Payments(u)))'
  BY DEF PaidFor
<1>5. /\ IsFiniteSet(Payments(u)) /\ Cardinality(Payments(u)) \in Nat
      /\ users[u].password + Cardinality(Paying(u)) <= Cardinality(Payments(u))
  BY FS_CardinalityType DEF PaidFor
<1>6. /\ IsFiniteSet(Paying(u)) /\ Cardinality(Paying(u)) \in Nat
      /\ users[u].password \in Nat
  BY PayingCounted DEF IInv, Typed, User
<1>7. Payments(u)' = Payments(u)
  BY <1>1 DEF Payments, ResetLinksOf
<1>8. Paying(u)' = Paying(u) \ {c}
  BY <1>3 DEF Paying
<1>9. c \in Paying(u) <=> u = v
  BY <1>1 DEF Paying
<1> HIDE DEF v
<1>10. CASE u = v
  <2>1. Cardinality(Paying(u)') = Cardinality(Paying(u)) - 1
    BY <1>6, <1>8, <1>9, <1>10, FS_RemoveElement
  <2> QED
    BY <1>4, <1>5, <1>6, <1>7, <1>10, <2>1
<1>11. CASE u # v
  <2>1. Paying(u)' = Paying(u)
    BY <1>8, <1>9, <1>11
  <2> QED
    BY <1>4, <1>5, <1>6, <1>7, <1>11, <2>1
<1> QED
  BY <1>10, <1>11

\* Every step preserves what is paid for.
LEMMA PaidStep == IInv /\ PaidFor /\ [Next]_vars => PaidFor'
<1> SUFFICES ASSUME IInv, PaidFor, [Next]_vars PROVE PaidFor'
  OBVIOUS
<1>1. IInv'
  BY InvStep
<1>2. Typed
  BY DEF IInv
\* A step of one handler that does not come to save a password.
<1>3. ASSUME NEW c \in Callers, OnlyHandler(c),
             handler'[c].at # "updatePassword",
             UNCHANGED <<users, verificationVars>>
      PROVE  PaidFor'
  BY <1>1, <1>3, PaidKept DEF OnlyHandler, verificationVars
<1>4. CASE Tick \/ UNCHANGED vars
  BY <1>1, <1>4, OnlyTime, PaidKept
<1>5. ASSUME NEW c \in Callers, NEW u \in Users,
             Register(c, u) \/ ForgotPassword(c, u)
      PROVE  PaidFor'
  <2>1. OnlyHandler(c) /\ handler'[c].at \in {"insertUser", "createToken"}
    BY <1>2, <1>5, Started DEF Register, ForgotPassword, Ops, Places
  <2> QED
    BY <1>3, <1>5, <2>1 DEF Register, ForgotPassword
<1>6. ASSUME NEW c \in Callers, NEW u \in Users, Login(c, u)
      PROVE  PaidFor'
  <2> DEFINE f == [Free EXCEPT !.op = "login", !.at = "tokens", !.user = u,
                               !.password = users[u].password]
  <2>1. f.at = "tokens" /\ handler' = [handler EXCEPT ![c] = f]
    BY <1>6 DEF Login, Free
  <2>2. \A d \in Callers : handler'[d].at = "updatePassword" =>
           handler'[d] = handler[d]
    BY <1>2, <2>1 DEF Typed
  <2> QED
    BY <1>1, <1>6, <2>2, PaidKept DEF Login, verificationVars
<1>7. ASSUME NEW c \in Callers, NEW t \in Jtis, Refresh(c, t)
      PROVE  PaidFor'
  <2> DEFINE f == [Free EXCEPT !.op = "refresh", !.at = "tokens",
                               !.password = credential[t]]
  <2>1. f.at = "tokens" /\ handler' = [handler EXCEPT ![c] = f]
    BY <1>7 DEF Refresh, Free
  <2>2. \A d \in Callers : handler'[d].at = "updatePassword" =>
           handler'[d] = handler[d]
    BY <1>2, <2>1 DEF Typed
  <2> QED
    BY <1>1, <1>7, <2>2, PaidKept DEF Refresh, verificationVars
<1>8. ASSUME NEW c \in Callers, NEW l \in Links,
             VerifyEmail(c, l) \/ ResetPassword(c, l)
      PROVE  PaidFor'
  <2>1. OnlyHandler(c) /\ handler'[c].at = "consume"
    BY <1>2, <1>8, Started DEF VerifyEmail, ResetPassword, Ops, Places
  <2>2. UNCHANGED <<users, uses, verificationToken>>
    BY <1>8 DEF VerifyEmail, ResetPassword, Verification!FindRecord
  <2> QED
    BY <1>1, <2>1, <2>2, PaidKept DEF OnlyHandler
<1>9. ASSUME NEW t \in Jtis, Logout(t) PROVE PaidFor'
  BY <1>1, <1>9, PaidKept DEF Logout, verificationVars
<1>10. ASSUME NEW u \in Users, LogoutAll(u) PROVE PaidFor'
  BY <1>1, <1>10, PaidKept DEF LogoutAll, verificationVars
<1>11. ASSUME NEW c \in Callers, InsertUser(c) \/ MarkEmailVerified(c)
       PROVE  PaidFor'
  <2>1. OnlyHandler(c) /\ handler'[c].at # "updatePassword"
    BY <1>2, <1>11, Finished, MovedOn
       DEF InsertUser, MarkEmailVerified, Free, Places
  <2>2. UNCHANGED verificationVars
    BY <1>11 DEF InsertUser, MarkEmailVerified
  <2>3. ASSUME NEW u \in Users PROVE users'[u].password = users[u].password
    <3>1. CASE InsertUser(c)
      BY <1>2, <3>1 DEF InsertUser, Typed, User
    <3>2. CASE MarkEmailVerified(c)
      <4>1. handler[c].user \in Users
        BY <3>2 DEF MarkEmailVerified, IInv, HandlersOK, HandlerOK
      <4> QED
        BY <1>2, <3>2, <4>1 DEF MarkEmailVerified, Typed, User
    <3> QED
      BY <1>11, <3>1, <3>2
  <2> QED
    BY <1>1, <2>1, <2>2, <2>3, PaidKept DEF OnlyHandler, verificationVars
<1>12. ASSUME NEW c \in Callers, CreateToken(c) PROVE PaidFor'
  <2>1. PICK l \in Links :
           /\ Verification!Create(l, handler[c].user, TypeOf(handler[c].op))
           /\ handler' = [handler EXCEPT ![c].at = "enqueue", ![c].link = l]
    BY <1>12 DEF CreateToken
  <2>2. /\ ~Verification!Exists(l) /\ UNCHANGED uses
        /\ \A k \in Links \ {l} : verificationToken'[k] = verificationToken[k]
    BY <2>1, LinkFacts DEF IInv, Verification!Create
  <2>3. ASSUME NEW d \in Callers, handler'[d].at = "updatePassword"
        PROVE  handler'[d] = handler[d]
    <3>1. d # c
      BY <1>2, <2>1, <2>3 DEF Typed, Handler
    <3> QED
      BY <1>2, <2>1, <3>1 DEF Typed
  <2> QED
    BY <1>1, <1>12, <2>2, <2>3, PaidKept DEF CreateToken
<1>13. ASSUME NEW c \in Callers, Enqueue(c) PROVE PaidFor'
  BY <1>2, <1>3, <1>13, Finished DEF Enqueue, Free
<1>14. ASSUME NEW c \in Callers, RevokeSessions(c) PROVE PaidFor'
  <2>1. ASSUME NEW d \in Callers, handler'[d].at = "updatePassword"
        PROVE  /\ handler[d].at = "updatePassword"
               /\ handler'[d].user = handler[d].user
    BY <1>2, <1>14, <2>1 DEF RevokeSessions, AfterRevocation, Typed, Handler, Free
  <2> QED
    BY <1>1, <1>14, <2>1, PaidKept DEF RevokeSessions, verificationVars
<1>15. ASSUME NEW c \in Callers, TokensStep(c) PROVE PaidFor'
  <2>1. /\ Finish(c) \/ UNCHANGED handler
        /\ UNCHANGED <<users, verificationVars>>
    BY <1>15 DEF TokensStep
  <2>2. CASE Finish(c)
    BY <1>2, <1>3, <2>1, <2>2, Finished DEF Free
  <2>3. CASE UNCHANGED handler
    BY <1>1, <2>1, <2>3, PaidKept DEF verificationVars
  <2> QED
    BY <2>1, <2>2, <2>3
<1>16. ASSUME NEW c \in Callers, Fail(c) PROVE PaidFor'
  <2>1. /\ Finish(c) /\ UNCHANGED <<users, uses>>
        /\ \/ UNCHANGED verificationToken
           \/ /\ handler[c].at = "consume"
              /\ verificationToken' =
                    [verificationToken EXCEPT ![consuming[c]].usedAt = TRUE]
    BY <1>16 DEF Fail, verificationVars, Verification!Abandon
  <2>2. OnlyHandler(c) /\ handler'[c].at # "updatePassword"
    BY <1>2, <2>1, Finished DEF Free
  <2>3. \A l \in Links :
           /\ verificationToken'[l].userId = verificationToken[l].userId
           /\ verificationToken'[l].type = verificationToken[l].type
    BY <2>1, LinkFacts DEF IInv, V!Row
  <2> QED
    BY <1>1, <2>1, <2>2, <2>3, PaidKept DEF OnlyHandler
<1> QED
  BY <1>4, <1>5, <1>6, <1>7, <1>8, <1>9, <1>10, <1>11, <1>12, <1>13, <1>14,
     <1>15, <1>16, ConsumedPays, UpdatePasswordPaid DEF Next, Step

(* A password has been changed no more often than consume has returned for *)
(* a reset link of its user: no interleaving of resets, no failure and no  *)
(* link of another user or purpose changes it for free.                    *)
THEOREM PasswordsArePaidFor == Spec => []ChangesArePaidFor
<1>1. Init => PaidFor
  <2> SUFFICES ASSUME Init, NEW u \in Users
               PROVE  /\ IsFiniteSet(Payments(u))
                      /\ users[u].password + Cardinality(Paying(u))
                            <= Cardinality(Payments(u))
    BY DEF PaidFor
  <2>1. Payments(u) = {} /\ Paying(u) = {} /\ users[u].password = 0
    BY NoneIsFresh DEF Init, Verification!Init, Verification!NoRow, Payments,
                       ResetLinksOf, Paying, Free
  <2> QED
    BY <2>1, FS_EmptySet
<1>2. IInv /\ PaidFor => ChangesArePaidFor
  <2> SUFFICES ASSUME IInv, PaidFor, NEW u \in Users
               PROVE  users[u].password <= Cardinality(Payments(u))
    BY DEF ChangesArePaidFor
  <2>1. /\ users[u].password \in Nat /\ Cardinality(Paying(u)) \in Nat
        /\ Cardinality(Payments(u)) \in Nat
    BY PayingCounted, FS_CardinalityType DEF IInv, Typed, User, PaidFor
  <2> QED
    BY <2>1 DEF PaidFor
<1> QED
  BY <1>1, <1>2, PaidStep, InvHolds, PTL DEF Spec

-----------------------------------------------------------------------------
(***************************************************************************)
(* Sessions that outlive a reset.  The claim that a reset revokes all      *)
(* sessions fails, and in one way only: a handler is issuing tokens while  *)
(* the revocation runs.  No failure, no other order of the statements and  *)
(* no number of resets leads to it.  The invariant compares the passwords  *)
(* of sessions, and of the requests that may still open one, with the      *)
(* password of the last reset that has answered.                           *)
(***************************************************************************)
Issuing == {"revoke", "sign", "create"}

ResetRowOK(t) ==
    Refreshing!Live(t) /\ credential[t] < resetTo[refreshToken[t].userId] =>
        t \in survivors

ResetCallOK(c) ==
    call[c].at \in Issuing /\ handler[c].password < resetTo[call[c].user] =>
        handler[c].overtaken \/ call[c].token \in survivors

ResetOK ==
    /\ \A u \in Users : resetTo[u] <= users[u].password
    /\ \A t \in Jtis : ResetRowOK(t)
    /\ \A c \in Callers : ResetCallOK(c)

\* A request that issues under the password it had before.
IssuesAsBefore(c) ==
    /\ call[c].at \in Issuing
    /\ call'[c].user = call[c].user /\ call'[c].token = call[c].token
    /\ handler'[c].password = handler[c].password
    /\ handler[c].overtaken => handler'[c].overtaken

\* No password is set back.
PasswordsGrow == \A u \in Users : users[u].password <= users'[u].password

\* A step that resets nothing, and opens no session.
LEMMA ResetKept ==
    ASSUME IInv, IInv', ResetOK,
           UNCHANGED <<resetTo, credential, survivors>>, PasswordsGrow,
           \A t \in Jtis : RowKept(t),
           \A c \in Callers : call'[c].at \in Issuing =>
              IssuesAsBefore(c) \/ ResetCallOK(c)'
    PROVE  ResetOK'
<1>1. \A u \in Users : /\ resetTo[u] \in Nat
                       /\ users[u].password \in Nat /\ users'[u].password \in Nat
  BY DEF IInv, Typed, User
<1>2. \A u \in Users : resetTo'[u] <= users'[u].password
  BY <1>1 DEF ResetOK, PasswordsGrow
<1>3. \A t \in Jtis : ResetRowOK(t)'
  BY DEF ResetOK, ResetRowOK, RowKept, Refreshing!Live, Refreshing!Issued
<1>4. \A c \in Callers : ResetCallOK(c)'
  BY DEF ResetOK, ResetCallOK, IssuesAsBefore
<1> QED
  BY <1>2, <1>3, <1>4 DEF ResetOK

\* A step that does not concern the tokens.
LEMMA ResetUntouched ==
    ASSUME IInv, IInv', ResetOK, PasswordsGrow,
           UNCHANGED <<resetTo, credential, survivors, refreshToken, call>>,
           \A c \in Callers : handler[c].at = "tokens" => handler'[c] = handler[c]
    PROVE  ResetOK'
<1>1. \A t \in Jtis : RowKept(t)
  BY DEF RowKept, Refreshing!Issued, Refreshing!Live
<1>2. \A c \in Callers : call'[c].at \in Issuing => IssuesAsBefore(c)
  BY DEF IInv, HandlersOK, HandlerOK, Issuing, IssuesAsBefore
<1> QED
  BY <1>1, <1>2, ResetKept

\* A request begins to issue tokens, under the password of this moment.
LEMMA EnterReset ==
    ASSUME IInv, IInv', ResetOK, NEW c \in Callers,
           \/ \E u \in Users : Login(c, u)
           \/ \E t \in Jtis : Refresh(c, t)
    PROVE  ResetOK'
<1>1. /\ \A d \in Callers \ {c} : /\ handler'[d] = handler[d]
                                  /\ call'[d] = call[d]
      /\ UNCHANGED <<users, resetTo, credential, survivors, refreshToken>>
  BY ZenonT(40) DEF Login, Refresh, Refreshing!CallIssueTokens,
         Refreshing!CallRefreshTokens, Refreshing!Enter, history, IInv, Typed,
         R!IInv, R!TypeOK
<1>2. ResetCallOK(c)'
  <2>1. ASSUME NEW u \in Users, Login(c, u) PROVE ResetCallOK(c)'
    <3>1. /\ handler' = [handler EXCEPT ![c] =
                [Free EXCEPT !.op = "login", !.at = "tokens", !.user = u,
                             !.password = users[u].password]]
          /\ call' = [call EXCEPT ![c] =
                [Refreshing!Idle EXCEPT !.at = "sign", !.user = u]]
      BY <2>1 DEF Login, Refreshing!CallIssueTokens, Refreshing!Enter
    <3>2. /\ handler'[c].password = users[u].password
          /\ call'[c].user = u
      BY <3>1 DEF Free, Refreshing!Idle, IInv, Typed, R!IInv, R!TypeOK
    <3>3. /\ resetTo[u] <= users[u].password
          /\ resetTo[u] \in Nat /\ users[u].password \in Nat
      BY DEF ResetOK, IInv, Typed, User
    <3> QED
      BY <1>1, <3>2, <3>3 DEF ResetCallOK
  <2>2. ASSUME NEW t \in Jtis, Refresh(c, t) PROVE ResetCallOK(c)'
    <3>1. call' = [call EXCEPT ![c] =
             [Refreshing!Idle EXCEPT !.at = "find", !.token = t,
                                     !.user = jwt[t].sub]]
      BY <2>2 DEF Refresh, Refreshing!CallRefreshTokens, Refreshing!Enter
    <3>2. call'[c].at = "find"
      BY <3>1 DEF Refreshing!Idle, IInv, R!IInv, R!TypeOK
    <3> QED
      BY <3>2 DEF ResetCallOK, Issuing
  <2> QED
    BY <2>1, <2>2
<1>3. \A t \in Jtis : RowKept(t)
  BY <1>1 DEF RowKept, Refreshing!Issued, Refreshing!Live
<1>4. \A d \in Callers : call'[d].at \in Issuing =>
         IssuesAsBefore(d) \/ ResetCallOK(d)'
  BY <1>1, <1>2 DEF IssuesAsBefore
<1>5. PasswordsGrow
  BY <1>1 DEF PasswordsGrow, IInv, Typed, User
<1> QED
  BY <1>1, <1>3, <1>4, <1>5, ResetKept, ZenonT(40)

\* A reset overtakes whoever is issuing, and leaves no other session behind.
LEMMA RevokeSessionsReset ==
    ASSUME IInv, IInv', ResetOK, NEW c \in Callers, RevokeSessions(c)
    PROVE  ResetOK'
<1> DEFINE u == handler[c].user
<1>1. /\ handler[c].at = "revokeAll"
      /\ Refreshing!RevokeRows(Refreshing!RowsOf(u))
      /\ resetTo' = [resetTo EXCEPT ![u] = users[u].password]
      /\ handler' = AfterRevocation(c)
      /\ UNCHANGED <<users, credential, survivors>>
  BY DEF RevokeSessions, Refreshing!RevokeAllForUser
<1>2. u \in Users /\ call[c].at = "idle"
  BY <1>1 DEF IInv, HandlersOK, HandlerOK, Resetting
<1>3. /\ resetTo'[u] = users[u].password
      /\ \A x \in Users \ {u} : resetTo'[x] = resetTo[x]
      /\ users[u].password \in Nat
  BY <1>1, <1>2 DEF IInv, Typed, User
<1>4. /\ UNCHANGED call
      /\ \A t \in Jtis :
            /\ refreshToken'[t].userId = refreshToken[t].userId
            /\ Refreshing!Live(t)' => /\ Refreshing!Live(t)
                                      /\ refreshToken[t].userId \in Users \ {u}
  <2>1. Refreshing!RowsOf(u) \in SUBSET Jtis
    BY DEF Refreshing!RowsOf
  <2> QED
    BY <1>1, <2>1, RowsRevoked, RowFacts
       DEF IInv, Refreshing!RowsOf, Refreshing!Live, Refreshing!Issued
<1>5. \A x \in Users : resetTo'[x] <= users'[x].password
  BY <1>1, <1>3 DEF ResetOK
<1>6. \A t \in Jtis : ResetRowOK(t)'
  BY <1>1, <1>3, <1>4 DEF ResetOK, ResetRowOK
<1>7. ASSUME NEW d \in Callers, call[d].at \in Issuing
      PROVE  ResetCallOK(d)'
  <2>1. d # c /\ handler[d].at = "tokens" /\ call[d].user \in Users
    BY <1>2, <1>7, FrameFacts DEF IInv, HandlersOK, HandlerOK, Issuing
  <2>2. handler'[d] = [handler[d] EXCEPT !.overtaken =
           @ \/ (handler[d].at = "tokens" /\ call[d].user = u)]
    BY <1>1, <2>1 DEF AfterRevocation
  <2>3. handler[d] \in Handler
    BY DEF IInv, Typed
  <2>4. /\ handler'[d].password = handler[d].password
        /\ handler'[d].overtaken <=> handler[d].overtaken \/ call[d].user = u
    BY <2>1, <2>2, <2>3 DEF Handler
  <2> QED
    BY <1>1, <1>3, <1>4, <1>7, <2>1, <2>4 DEF ResetOK, ResetCallOK
<1>8. \A d \in Callers : ResetCallOK(d)'
  BY <1>4, <1>7 DEF ResetCallOK
<1> QED
  BY <1>5, <1>6, <1>8 DEF ResetOK

\* A step of a request that issues tokens.
LEMMA TokensReset ==
    ASSUME IInv, IInv', ResetOK, NEW c \in Callers, TokensStep(c)
    PROVE  ResetOK'
<1>1. /\ handler[c].at = "tokens"
      /\ IF call'[c] = Refreshing!Idle THEN Finish(c) ELSE UNCHANGED handler
      /\ UNCHANGED <<users, resetTo>>
  BY DEF TokensStep
<1>2. /\ call \in [Callers -> R!Frame] /\ call[c] \in R!Frame
      /\ handler \in [Callers -> Handler]
      /\ refreshToken \in [Jtis -> R!Row]
  BY DEF IInv, R!IInv, R!TypeOK, Typed
<1>3. /\ PasswordsGrow
      /\ \A d \in Callers \ {c} : handler'[d] = handler[d]
  BY <1>1, <1>2 DEF PasswordsGrow, Finish, IInv, Typed, User
<1>4. ASSUME \A d \in Callers \ {c} : call'[d] = call[d]
      PROVE  \A d \in Callers \ {c} : call'[d].at \in Issuing => IssuesAsBefore(d)
  BY <1>3, <1>4 DEF IssuesAsBefore
<1>5. CASE Refreshing!FindStored(c) /\ UNCHANGED <<credential, survivors>>
  <2> DEFINE t == call[c].token
  <2>1. /\ call[c].at = "find"
        /\ UNCHANGED refreshToken
        /\ \/ call' = [call EXCEPT ![c] = Refreshing!Idle]
           \/ /\ call' = [call EXCEPT ![c].at = "revoke"]
              /\ Refreshing!Live(t)
    BY <1>5 DEF Refreshing!FindStored, Refreshing!At, Refreshing!GoTo,
                Refreshing!Leave, Refreshing!Usable, Refreshing!Live
  <2>2. /\ \A d \in Callers \ {c} : call'[d] = call[d]
        /\ \/ call'[c] = Refreshing!Idle
           \/ /\ Refreshing!Live(t)
              /\ call'[c].at = "revoke"
              /\ call'[c].user = call[c].user
              /\ call'[c].token = t
    BY <1>2, <2>1 DEF R!Frame
  <2>3. ResetCallOK(c)'
    <3>1. CASE call'[c] = Refreshing!Idle
      BY <3>1 DEF ResetCallOK, Issuing, Refreshing!Idle
    <3>2. CASE call'[c] # Refreshing!Idle
      <4>1. t \in Jtis /\ t # None /\ refreshToken[t].userId = call[c].user
        BY <2>1, FrameFacts DEF IInv
      <4>2. handler[c].password = credential[t]
        BY <1>1, <4>1 DEF IInv, PasswordsOK
      <4>3. ResetRowOK(t)
        BY <4>1 DEF ResetOK
      <4> QED
        BY <1>1, <1>5, <2>2, <3>2, <4>1, <4>2, <4>3 DEF ResetCallOK, ResetRowOK
    <3> QED
      BY <3>1, <3>2
  <2>4. \A r \in Jtis : RowKept(r)
    BY <1>5, <2>1 DEF RowKept, Refreshing!Issued, Refreshing!Live
  <2> QED
    BY <1>1, <1>3, <1>4, <1>5, <2>2, <2>3, <2>4, ResetKept
<1>6. CASE /\ Refreshing!RevokeStored(c) \/ Refreshing!SignTokens(c)
           /\ UNCHANGED <<credential, survivors>>
  <2>1. /\ \A d \in Callers \ {c} : call'[d] = call[d]
        /\ call[c].at \in Issuing /\ call'[c].at \in Issuing
        /\ call'[c].user = call[c].user
        /\ call'[c].token = call[c].token
    <3>1. CASE Refreshing!RevokeStored(c)
      BY <1>2, <3>1 DEF Refreshing!RevokeStored, Refreshing!At,
                        Refreshing!GoTo, R!Frame, Issuing
    <3>2. CASE Refreshing!SignTokens(c)
      BY <1>2, <3>2 DEF Refreshing!SignTokens, Refreshing!At, R!Frame, Issuing
    <3> QED
      BY <1>6, <3>1, <3>2
  <2>2. UNCHANGED handler
    BY <1>1, <2>1 DEF Refreshing!Idle, Issuing
  <2>3. \A t \in Jtis : RowKept(t)
    BY <1>2, <1>6 DEF Refreshing!RevokeStored, Refreshing!SignTokens, RowKept,
                      Refreshing!Issued, Refreshing!Live, Refreshing!Revoked,
                      R!Row
  <2>4. IssuesAsBefore(c)
    BY <2>1, <2>2 DEF IssuesAsBefore
  <2> QED
    BY <1>1, <1>3, <1>4, <1>6, <2>1, <2>3, <2>4, ResetKept
<1>7. CASE OpenSession(c)
  <2> DEFINE t == call[c].fresh
             v == call[c].user
             f == handler[c]
  <2>1. /\ call[c].at = "create"
        /\ \E e : refreshToken' = [refreshToken EXCEPT ![t] =
                     [status |-> "live", userId |-> v, expiresAt |-> e]]
        /\ call' = [call EXCEPT ![c] = Refreshing!Idle]
        /\ credential' = [credential EXCEPT ![t] = f.password]
        /\ survivors' = IF f.overtaken \/ call[c].token \in survivors
                        THEN survivors \cup {t} ELSE survivors
    BY <1>7 DEF OpenSession, Refreshing!CreateRow, Refreshing!At,
                Refreshing!Leave
  <2>2. t \in Jtis
    BY <2>1, FrameFacts DEF IInv
  <2>3. /\ call'[c].at = "idle"
        /\ \A d \in Callers \ {c} : call'[d] = call[d]
    BY <1>2, <2>1 DEF Refreshing!Idle
  <2>4. /\ credential'[t] = f.password
        /\ \A r \in Jtis \ {t} : credential'[r] = credential[r]
        /\ refreshToken'[t].userId = v
        /\ \A r \in Jtis \ {t} : refreshToken'[r] = refreshToken[r]
        /\ survivors \subseteq survivors'
    BY <1>2, <2>1, <2>2 DEF IInv, Typed
  <2>5. ResetCallOK(c)
    BY DEF ResetOK
  <2>6. ASSUME NEW r \in Jtis PROVE ResetRowOK(r)'
    <3>1. CASE r = t
      BY <1>1, <2>1, <2>4, <2>5, <3>1 DEF ResetCallOK, ResetRowOK, Issuing
    <3>2. CASE r # t
      BY <1>1, <2>4, <3>2 DEF ResetOK, ResetRowOK, Refreshing!Live
    <3> QED
      BY <3>1, <3>2
  <2>7. ASSUME NEW d \in Callers PROVE ResetCallOK(d)'
    BY <1>1, <1>3, <2>3, <2>4 DEF ResetOK, ResetCallOK, Issuing
  <2> QED
    BY <1>1, <2>6, <2>7 DEF ResetOK
<1> QED
  BY <1>5, <1>6, <1>7 DEF TokensStep

\* Every step preserves ResetOK.
LEMMA ResetStep == IInv /\ ResetOK /\ [Next]_vars => ResetOK'
<1> SUFFICES ASSUME IInv, ResetOK, [Next]_vars PROVE ResetOK'
  OBVIOUS
<1>1. IInv'
  BY InvStep
<1>2. /\ \A u \in Users : users[u] \in User
      /\ users \in [Users -> User]
      /\ handler \in [Callers -> Handler]
  BY DEF IInv, Typed
<1>3. ASSUME UNCHANGED users PROVE PasswordsGrow
  BY <1>2, <1>3 DEF PasswordsGrow, User
<1>4. CASE Tick \/ UNCHANGED vars
  BY <1>1, <1>3, <1>4, OnlyTime, ResetUntouched DEF history
<1>5. ASSUME NEW c \in Callers, NEW u \in Users,
             Register(c, u) \/ ForgotPassword(c, u)
      PROVE  ResetOK'
  <2>1. \A d \in Callers : handler[d].at = "tokens" => handler'[d] = handler[d]
    BY <1>2, <1>5 DEF Register, ForgotPassword, Start, Free
  <2> QED
    BY <1>1, <1>3, <1>5, <2>1, ResetUntouched
       DEF Register, ForgotPassword, history, tokenVars
<1>6. ASSUME NEW c \in Callers, NEW l \in Links,
             VerifyEmail(c, l) \/ ResetPassword(c, l)
      PROVE  ResetOK'
  <2>1. \A d \in Callers : handler[d].at = "tokens" => handler'[d] = handler[d]
    BY <1>2, <1>6 DEF VerifyEmail, ResetPassword, Start, Free
  <2> QED
    BY <1>1, <1>3, <1>6, <2>1, ResetUntouched
       DEF VerifyEmail, ResetPassword, history, tokenVars
<1>7. ASSUME NEW c \in Callers,
             CreateToken(c) \/ Enqueue(c) \/ Consumed(c)
      PROVE  ResetOK'
  <2>1. \A d \in Callers : handler[d].at = "tokens" => handler'[d] = handler[d]
    BY <1>2, <1>7 DEF CreateToken, Enqueue, Consumed, Finish
  <2> QED
    BY <1>1, <1>3, <1>7, <2>1, ResetUntouched
       DEF CreateToken, Enqueue, Consumed, history, tokenVars
<1>8. ASSUME NEW c \in Callers,
             InsertUser(c) \/ MarkEmailVerified(c) \/ UpdatePassword(c)
      PROVE  ResetOK'
  <2>1. \A d \in Callers : handler[d].at = "tokens" => handler'[d] = handler[d]
    BY <1>2, <1>8
       DEF InsertUser, MarkEmailVerified, UpdatePassword, At, GoTo, Finish
  <2>2. PasswordsGrow
    BY <1>2, <1>8
       DEF InsertUser, MarkEmailVerified, UpdatePassword, PasswordsGrow, User
  <2> QED
    BY <1>1, <1>8, <2>1, <2>2, ResetUntouched
       DEF InsertUser, MarkEmailVerified, UpdatePassword, history, tokenVars
<1>9. ASSUME NEW rows \in SUBSET Jtis, Refreshing!RevokeRows(rows),
             UNCHANGED <<users, handler, history>>
      PROVE  ResetOK'
  <2>1. \A t \in Jtis : RowKept(t)
    BY <1>9, RowsRevoked DEF IInv, RowKept, history
  <2>2. \A c \in Callers : call'[c].at \in Issuing => IssuesAsBefore(c)
    BY <1>9 DEF Refreshing!RevokeRows, IssuesAsBefore
  <2> QED
    BY <1>1, <1>3, <1>9, <2>1, <2>2, ResetKept DEF history
<1>10. ASSUME NEW t \in Jtis, Logout(t) PROVE ResetOK'
  <2>1. {t} \in SUBSET Jtis
    OBVIOUS
  <2> QED
    BY <1>9, <1>10, <2>1 DEF Logout, Refreshing!RevokeRefreshToken
<1>11. ASSUME NEW u \in Users, LogoutAll(u) PROVE ResetOK'
  <2>1. Refreshing!RowsOf(u) \in SUBSET Jtis
    BY DEF Refreshing!RowsOf
  <2> QED
    BY <1>9, <1>11, <2>1 DEF LogoutAll, Refreshing!RevokeAllForUser
<1>12. ASSUME NEW c \in Callers, Fail(c) PROVE ResetOK'
  <2>1. /\ Finish(c)
        /\ UNCHANGED <<users, credential, resetTo, survivors, refreshToken>>
        /\ UNCHANGED call \/ call' = [call EXCEPT ![c] = Refreshing!Idle]
    BY <1>12 DEF Fail, Refreshing!Fail, Refreshing!Leave, tokenVars
  <2>2. \A d \in Callers : call'[d].at \in Issuing => d # c
    <3>1. CASE handler[c].at = "tokens"
      BY <1>12, <3>1 DEF Fail, Refreshing!Fail, Refreshing!Leave, Issuing,
                         Refreshing!Idle, IInv, R!IInv, R!TypeOK
    <3>2. CASE handler[c].at # "tokens"
      BY <1>12, <3>2 DEF Fail, tokenVars, Issuing, IInv, HandlersOK, HandlerOK
    <3> QED
      BY <3>1, <3>2
  <2>3. \A d \in Callers : call'[d].at \in Issuing => IssuesAsBefore(d)
    BY <1>2, <2>1, <2>2 DEF IssuesAsBefore, Finish, IInv, R!IInv, R!TypeOK
  <2>4. \A t \in Jtis : RowKept(t)
    BY <2>1 DEF RowKept, Refreshing!Issued, Refreshing!Live
  <2> QED
    BY <1>1, <1>3, <2>1, <2>3, <2>4, ResetKept
<1> QED
  BY <1>1, <1>4, <1>5, <1>6, <1>7, <1>8, <1>10, <1>11, <1>12, EnterReset,
     RevokeSessionsReset, TokensReset DEF Next, Step

\* Nothing has been reset initially.
LEMMA ResetInit == Init => ResetOK
BY DEF Init, ResetOK, ResetRowOK, ResetCallOK, Issuing, Refreshing!Init,
       Refreshing!NoRow, Refreshing!Idle, Refreshing!Live

(* A session that was opened with a password from before the last reset    *)
(* that has answered comes from a request that this reset, or one before   *)
(* it, overtook while it was issuing tokens: whatever else failed or       *)
(* overlapped, every other old session is revoked when the reset answers.  *)
THEOREM OnlyOvertakenSurvive ==
    Spec => [](\A t \in Jtis :
                  /\ Refreshing!Live(t)
                  /\ credential[t] < resetTo[refreshToken[t].userId]
                  => t \in survivors)
<1>1. ResetOK => \A t \in Jtis :
                    /\ Refreshing!Live(t)
                    /\ credential[t] < resetTo[refreshToken[t].userId]
                    => t \in survivors
  BY DEF ResetOK, ResetRowOK
<1> QED
  BY <1>1, ResetInit, ResetStep, InvHolds, PTL DEF Spec

\* No reset revokes the sessions of a user to whom a request is issuing tokens.
Unovertaken == \A c \in Callers : ~handler[c].overtaken

NoSurvivors == survivors = {}

(* What the tests claim of resetPassword holds of every execution in which *)
(* no reset overtakes a request of its user: once a reset has answered, no *)
(* session that was opened with an earlier password is live.               *)
THEOREM ResetEndsOldSessionsUnlessRaced ==
    Spec /\ []Unovertaken => []ResetEndsOldSessions
<1>1. Init => NoSurvivors
  BY DEF Init, NoSurvivors
<1>2. NoSurvivors /\ Unovertaken /\ [Next]_vars => NoSurvivors'
  <2> SUFFICES ASSUME Unovertaken, survivors = {}, [Next]_vars
               PROVE  survivors' = {}
    BY DEF NoSurvivors
  <2>1. ASSUME NEW c \in Callers, TokensStep(c) PROVE survivors' = {}
    BY <2>1 DEF TokensStep, OpenSession, Unovertaken
  <2>2. ASSUME NEW c \in Callers, Step(c) PROVE survivors' = {}
    BY <2>1, <2>2 DEF Step, InsertUser, CreateToken, Enqueue, Consumed,
       MarkEmailVerified, UpdatePassword, RevokeSessions, Fail, history
  <2> QED
    BY <2>2, OnlyTime DEF Next, Register, ForgotPassword, Login, VerifyEmail,
       ResetPassword, Refresh, Logout, LogoutAll, history
<1>3. IInv /\ ResetOK /\ NoSurvivors => ResetEndsOldSessions
  <2> SUFFICES ASSUME IInv, ResetOK, survivors = {}, NEW t \in Jtis,
                      Refreshing!Live(t)
               PROVE  credential[t] >= resetTo[refreshToken[t].userId]
    BY DEF ResetEndsOldSessions, NoSurvivors
  <2>1. /\ credential[t] \in Nat
        /\ resetTo[refreshToken[t].userId] \in Nat
    BY RowFacts DEF IInv, Typed, Refreshing!Live
  <2> QED
    BY <2>1 DEF ResetOK, ResetRowOK
<1> QED
  BY <1>1, <1>2, <1>3, ResetInit, ResetStep, InvHolds, PTL DEF Spec

=============================================================================
