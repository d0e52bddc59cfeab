------------------------------ MODULE AuthService ------------------------------
(***************************************************************************)
(* src/auth/auth.service.ts on top of its two token services: how          *)
(* registration, e-mail verification, login, refresh, logout and password  *)
(* reset interleave over the users table, the refresh tokens and the       *)
(* verification tokens.                                                    *)
(*                                                                         *)
(* A request runs one handler.  Each action is the code between two awaits *)
(* of the handler with the statement it ends in; steps of TokenService and *)
(* VerificationTokenService are those modules' actions.  No transaction    *)
(* joins the statements of a handler, and any of them may fail.            *)
(*                                                                         *)
(* Both services read one clock, so that links and refresh tokens expire   *)
(* while handlers run.  A user is identified with the e-mail address.  The *)
(* administrator of the seed script, whom no link verifies, is not among   *)
(* Users.  A password is the number of changes that led to it.  Existing   *)
(* roles are assumed: register rejects an unknown role before it writes    *)
(* anything.                                                               *)
(***************************************************************************)
EXTENDS Naturals, FiniteSets, TokenTtl

CONSTANTS
    Callers,    \* the requests that may be in flight together
    Users,      \* the e-mail addresses that may register
    Jtis,       \* the refresh tokens that may be signed
    Links,      \* the verification tokens that may be generated and mailed
    RefreshTtl, \* JWT_REFRESH_TTL
    LinkTtl,    \* lifetime of a link of each type: 24 hours, one hour
    MaxTime,    \* bound on the clock
    None        \* "no user", "no token"

ASSUME NoneIsFresh ==
    None \notin Users \cup Jtis \cup Links
             \cup {"EMAIL_VERIFICATION", "PASSWORD_RESET"}
ASSUME CallersFinite == IsFiniteSet(Callers)
ASSUME TimeAssumption ==
    /\ RefreshTtl \in Ttls /\ MaxTime \in Nat
    /\ LinkTtl \in [{"EMAIL_VERIFICATION", "PASSWORD_RESET"} -> Nat]

VARIABLES
    users,              \* the users table, keyed by e-mail address
    mailQueue,          \* the jobs ever added to the mail queue
    handler,            \* the frame of each request's handler
    credential,         \* history: the password a session was opened with
    resetTo,            \* history: the password of the last completed reset
    stranded,           \* history: users whose registration or verification broke off
    unrevoked,          \* history: users with a reset that broke off before its end
    survivors,          \* history: tokens of requests that a reset overtook
    now,                \* the wall clock
    refreshToken, jwt, call, origin, ended,     \* of TokenService
    verificationToken, consuming, asked, uses, granted
                                                \* of VerificationTokenService

tokenVars == <<refreshToken, jwt, call, origin, ended, now>>
verificationVars == <<verificationToken, consuming, asked, uses, granted, now>>
history == <<credential, resetTo, stranded, unrevoked, survivors>>
vars == <<users, mailQueue, handler, history, tokenVars, verificationVars>>

Refreshing == INSTANCE TokenService

Verification == INSTANCE VerificationTokenService
    WITH Tokens <- Links, Ttl <- LinkTtl

\* overtaken is history: a reset has revoked the user's sessions meanwhile.
Free == [op |-> "none", at |-> "idle", user |-> None, link |-> None,
         password |-> 0, overtaken |-> FALSE]

Init ==
    /\ users = [u \in Users |-> [registered |-> FALSE, emailVerified |-> FALSE,
                                 status |-> FALSE, password |-> 0]]
    /\ mailQueue = {}
    /\ handler = [c \in Callers |-> Free]
    /\ credential = [t \in Jtis |-> 0]
    /\ resetTo = [u \in Users |-> 0]
    /\ stranded = {} /\ unrevoked = {} /\ survivors = {}
    /\ Refreshing!Init
    /\ Verification!Init

-----------------------------------------------------------------------------
At(c, op, at) == handler[c].op = op /\ handler[c].at = at
Start(c, op, at, u) ==
    /\ handler[c] = Free
    /\ handler' = [handler EXCEPT ![c] =
          [Free EXCEPT !.op = op, !.at = at, !.user = u]]
GoTo(c, at) == handler' = [handler EXCEPT ![c].at = at]
Finish(c)   == handler' = [handler EXCEPT ![c] = Free]

(***************************************************************************)
(* register: users.create looks the e-mail address up, hashes the password *)
(* and inserts; then the token is created and the mail is enqueued.        *)
(***************************************************************************)
Register(c, u) ==
    /\ ~users[u].registered
    /\ Start(c, "register", "insertUser", u)
    /\ UNCHANGED <<users, mailQueue, history, tokenVars, verificationVars>>

\* Fault: the unique index on e-mail addresses is missing.
InsertUserTwice(c) ==
    /\ At(c, "register", "insertUser")
    /\ users' = [users EXCEPT ![handler[c].user].registered = TRUE]
    /\ GoTo(c, "createToken")
    /\ UNCHANGED <<mailQueue, history, tokenVars, verificationVars>>

\* The unique index rejects an address that was inserted meanwhile.
InsertUser(c) ==
    LET u == handler[c].user
    IN  /\ At(c, "register", "insertUser")
        /\ IF users[u].registered
           THEN Finish(c) /\ UNCHANGED users
           ELSE /\ users' = [users EXCEPT ![u].registered = TRUE]
                /\ GoTo(c, "createToken")
        /\ UNCHANGED <<mailQueue, history, tokenVars, verificationVars>>

(* forgotPassword: nothing happens for an address without a user.          *)
ForgotPassword(c, u) ==
    /\ users[u].registered
    /\ Start(c, "forgotPassword", "createToken", u)
    /\ UNCHANGED <<users, mailQueue, history, tokenVars, verificationVars>>

TypeOf(op) == IF op = "register" THEN "EMAIL_VERIFICATION" ELSE "PASSWORD_RESET"
JobOf(op)  == IF op = "register" THEN "email-verification" ELSE "password-reset"

\* Fault: both handlers create the same type of token.
CreateResetToken(c) ==
    /\ handler[c].at = "createToken"
    /\ \E l \in Links :
          /\ Verification!Create(l, handler[c].user, "PASSWORD_RESET")
          /\ handler' = [handler EXCEPT ![c].at = "enqueue", ![c].link = l]
    /\ UNCHANGED <<users, mailQueue, history, tokenVars>>

CreateToken(c) ==
    /\ handler[c].at = "createToken"
    /\ \E l \in Links :
          /\ Verification!Create(l, handler[c].user, TypeOf(handler[c].op))
          /\ handler' = [handler EXCEPT ![c].at = "enqueue", ![c].link = l]
    /\ UNCHANGED <<users, mailQueue, history, tokenVars>>

Enqueue(c) ==
    /\ handler[c].at = "enqueue"
    /\ mailQueue' = mailQueue \cup
          {[name |-> JobOf(handler[c].op), email |-> handler[c].user,
            link |-> handler[c].link]}
    /\ Finish(c)
    /\ UNCHANGED <<users, history, tokenVars, verificationVars>>

-----------------------------------------------------------------------------
(***************************************************************************)
(* verifyEmail and resetPassword consume a token that was mailed.  A token *)
(* that consume rejects changes nothing.                                   *)
(***************************************************************************)
Mailed == {job.link : job \in mailQueue}

\* Fault: the verification endpoint accepts a token of the other type.
VerifyEmailByResetToken(c, l) ==
    /\ l \in Mailed
    /\ Start(c, "verifyEmail", "consume", None)
    /\ Verification!FindRecord(c, l, "PASSWORD_RESET")
    /\ UNCHANGED <<users, mailQueue, history, tokenVars>>

VerifyEmail(c, l) ==
    /\ l \in Mailed
    /\ Start(c, "verifyEmail", "consume", None)
    /\ Verification!FindRecord(c, l, "EMAIL_VERIFICATION")
    /\ UNCHANGED <<users, mailQueue, history, tokenVars>>

ResetPassword(c, l) ==
    /\ l \in Mailed
    /\ Start(c, "resetPassword", "consume", None)
    /\ Verification!FindRecord(c, l, "PASSWORD_RESET")
    /\ UNCHANGED <<users, mailQueue, history, tokenVars>>

AfterConsume(op) ==
    IF op = "verifyEmail" THEN "markEmailVerified" ELSE "updatePassword"

Consumed(c) ==
    /\ handler[c].at = "consume"
    /\ Verification!MarkUsed(c)
    /\ handler' = [handler EXCEPT ![c].at = AfterConsume(handler[c].op),
                                  ![c].user = verificationToken[consuming[c]].userId]
    /\ UNCHANGED <<users, mailQueue, history, tokenVars>>

MarkEmailVerified(c) ==
    /\ handler[c].at = "markEmailVerified"
    /\ users' = [users EXCEPT ![handler[c].user].emailVerified = TRUE,
                              ![handler[c].user].status = TRUE]
    /\ Finish(c)
    /\ UNCHANGED <<mailQueue, history, tokenVars, verificationVars>>

\* Fault: the new password is saved by an update that runs twice.
UpdatePasswordTwice(c) ==
    /\ handler[c].at = "updatePassword"
    /\ users' = [users EXCEPT ![handler[c].user].password = @ + 2]
    /\ GoTo(c, "revokeAll")
    /\ UNCHANGED <<mailQueue, history, tokenVars, verificationVars>>

UpdatePassword(c) ==
    /\ handler[c].at = "updatePassword"
    /\ users' = [users EXCEPT ![handler[c].user].password = @ + 1]
    /\ GoTo(c, "revokeAll")
    /\ UNCHANGED <<mailQueue, history, tokenVars, verificationVars>>

\* The handlers after a reset of c: those that are issuing tokens to its user
\* have been overtaken.
AfterRevocation(c) ==
    [d \in Callers |->
        IF d = c THEN Free
        ELSE [handler[d] EXCEPT !.overtaken =
                 @ \/ (handler[d].at = "tokens" /\ call[d].user = handler[c].user)]]

\* Fault: only one session of the user is revoked.
RevokeOneSession(c) ==
    /\ handler[c].at = "revokeAll"
    /\ \E t \in Refreshing!RowsOf(handler[c].user) : Refreshing!RevokeRefreshToken(t)
    /\ resetTo' = [resetTo EXCEPT
                      ![handler[c].user] = users[handler[c].user].password]
    /\ handler' = AfterRevocation(c)
    /\ UNCHANGED <<users, mailQueue, credential, stranded, unrevoked, survivors,
                   verificationVars>>

RevokeSessions(c) ==
    /\ handler[c].at = "revokeAll"
    /\ Refreshing!RevokeAllForUser(handler[c].user)
    /\ resetTo' = [resetTo EXCEPT
                      ![handler[c].user] = users[handler[c].user].password]
    /\ handler' = AfterRevocation(c)
    /\ UNCHANGED <<users, mailQueue, credential, stranded, unrevoked, survivors,
                   verificationVars>>

-----------------------------------------------------------------------------
(***************************************************************************)
(* login, refresh, logout and logoutAll.  LocalStrategy reads the user     *)
(* once and validates that copy: the password, emailVerified and status.   *)
(* login then awaits updateLastLogin, which touches nothing modelled here, *)
(* and issueTokens.                                                        *)
(***************************************************************************)
\* Fault: the check of emailVerified is dropped.
MayLogInUnverified(u) == users[u].registered

MayLogIn(u) == users[u].registered /\ users[u].emailVerified /\ users[u].status

Login(c, u) ==
    /\ MayLogIn(u)
    /\ handler[c] = Free
    /\ handler' = [handler EXCEPT ![c] =
          [Free EXCEPT !.op = "login", !.at = "tokens", !.user = u,
                       !.password = users[u].password]]
    /\ Refreshing!CallIssueTokens(c, u)
    /\ UNCHANGED <<users, mailQueue, history, verificationVars>>

Refresh(c, t) ==
    /\ handler[c] = Free
    /\ handler' = [handler EXCEPT ![c] =
          [Free EXCEPT !.op = "refresh", !.at = "tokens",
                       !.password = credential[t]]]
    /\ Refreshing!CallRefreshTokens(c, t)
    /\ UNCHANGED <<users, mailQueue, history, verificationVars>>

\* createRow of the token service, and history of the session it opens or prolongs.
OpenSession(c) ==
    LET t == call[c].fresh
    IN  /\ Refreshing!CreateRow(c)
        /\ credential' = [credential EXCEPT ![t] = handler[c].password]
        /\ survivors' = IF handler[c].overtaken \/ call[c].token \in survivors
                        THEN survivors \cup {t} ELSE survivors

\* A step of the token service; the handler ends when the method does.
TokensStep(c) ==
    /\ handler[c].at = "tokens"
    /\ \/ OpenSession(c)
       \/ /\ \/ Refreshing!FindStored(c)
             \/ Refreshing!RevokeStored(c)
             \/ Refreshing!SignTokens(c)
          /\ UNCHANGED <<credential, survivors>>
    /\ IF call'[c] = Refreshing!Idle THEN Finish(c) ELSE UNCHANGED handler
    /\ UNCHANGED <<users, mailQueue, resetTo, stranded, unrevoked, verificationVars>>

Logout(t) ==
    /\ Refreshing!RevokeRefreshToken(t)
    /\ UNCHANGED <<users, mailQueue, handler, history, verificationVars>>

\* Only a user who has logged in gets past the guard.
LogoutAll(u) ==
    /\ Refreshing!RowsOf(u) # {}
    /\ Refreshing!RevokeAllForUser(u)
    /\ UNCHANGED <<users, mailQueue, handler, history, verificationVars>>

(***************************************************************************)
(* A statement of a handler fails, or the process stops: what the handler  *)
(* has done so far stays done.                                             *)
(***************************************************************************)
Fail(c) ==
    LET f == handler[c]
    IN  /\ f # Free
        /\ Finish(c)
        /\ IF f.at = "tokens" THEN Refreshing!Fail(c) ELSE UNCHANGED tokenVars
        /\ IF f.at = "consume"
           THEN Verification!Abandon(c) ELSE UNCHANGED verificationVars
        /\ stranded' = stranded \cup
              {u \in Users :
                  \/ f.op = "register" /\ f.at # "insertUser" /\ u = f.user
                  \/ f.at = "markEmailVerified" /\ u = f.user
                  \/ /\ f.op = "verifyEmail" /\ f.at = "consume"
                     /\ u = verificationToken[consuming[c]].userId
                     /\ verificationToken'[consuming[c]].usedAt}
        /\ unrevoked' = unrevoked \cup
              {u \in Users : u = f.user /\ f.at = "revokeAll"}
        /\ UNCHANGED <<users, mailQueue, credential, resetTo, survivors>>

Tick ==
    /\ Refreshing!Tick
    /\ UNCHANGED <<users, mailQueue, handler, history, verificationToken,
                   consuming, asked, uses, granted>>

Step(c) ==
    \/ InsertUser(c)
    \/ CreateToken(c)
    \/ Enqueue(c)
    \/ Consumed(c)
    \/ MarkEmailVerified(c)
    \/ UpdatePassword(c)
    \/ RevokeSessions(c)
    \/ TokensStep(c)
    \/ Fail(c)

Next ==
    \/ \E c \in Callers, u \in Users :
          Register(c, u) \/ ForgotPassword(c, u) \/ Login(c, u)
    \/ \E c \in Callers, l \in Links : VerifyEmail(c, l) \/ ResetPassword(c, l)
    \/ \E c \in Callers, t \in Jtis : Refresh(c, t)
    \/ \E t \in Jtis : Logout(t)
    \/ \E u \in Users : LogoutAll(u)
    \/ \E c \in Callers : Step(c)
    \/ Tick

Spec == Init /\ [][Next]_vars

-----------------------------------------------------------------------------
User    == [registered : BOOLEAN, emailVerified : BOOLEAN, status : BOOLEAN,
            password : Nat]
Job     == [name : {"email-verification", "password-reset"}, email : Users,
            link : Links]
Handler == [op : {"none", "register", "forgotPassword", "verifyEmail",
                  "resetPassword", "login", "refresh"},
            at : {"idle", "insertUser", "createToken", "enqueue", "consume",
                  "markEmailVerified", "updatePassword", "revokeAll", "tokens"},
            user : Users \cup {None}, link : Links \cup {None},
            password : Nat, overtaken : BOOLEAN]

\* Every variable has its type, those of the two services included.
TypeOK ==
    /\ users \in [Users -> User]
    /\ mailQueue \subseteq Job
    /\ handler \in [Callers -> Handler]
    /\ credential \in [Jtis -> Nat]
    /\ resetTo \in [Users -> Nat]
    /\ stranded \subseteq Users /\ unrevoked \subseteq Users
    /\ survivors \subseteq Jtis
    /\ Refreshing!TypeOK
    /\ Verification!TypeOK

(* Nobody holds a refresh token without having verified the e-mail address *)
(* it is for, whichever requests overlap on the way there.                 *)
SessionsOnlyForVerified ==
    \A t \in Jtis : Refreshing!Issued(t) =>
        users[refreshToken[t].userId].emailVerified

(* An address that registered counts as verified only if a verification    *)
(* link was mailed to it, for this user, and consumed.                     *)
VerifiedByMailedLink ==
    \A u \in Users : users[u].emailVerified =>
        \E job \in mailQueue :
            /\ job.name = "email-verification"
            /\ job.email = u
            /\ Verification!Used(job.link)
            /\ verificationToken[job.link].type = "EMAIL_VERIFICATION"

(* Every change of a password is paid for by a reset link of that user     *)
(* that consume returned for.                                              *)
ResetLinksOf(u) ==
    {l \in Links : /\ verificationToken[l].userId = u
                   /\ verificationToken[l].type = "PASSWORD_RESET"}

Payments(u) == UNION {{l} \X (1..uses[l]) : l \in ResetLinksOf(u)}

ChangesArePaidFor ==
    \A u \in Users : users[u].password <= Cardinality(Payments(u))

(* Two things only leave a user without a way in: a failure, or the link   *)
(* that lay unused until it expired (no other is ever mailed: a second     *)
(* registration is a conflict, and a reset verifies nothing).  Otherwise,  *)
(* whoever has registered and is not verified yet has a mailed link that   *)
(* verifyEmail accepts, or a request under way that mails one or that has  *)
(* consumed it.  Two requests that race for a link, or for an address,     *)
(* strand nobody.                                                          *)
WelcomeMail(job, u) ==
    /\ job.name = "email-verification"
    /\ job.email = u
    /\ Verification!Exists(job.link)
    /\ verificationToken[job.link].userId = u
    /\ verificationToken[job.link].type = "EMAIL_VERIFICATION"

ExpiredUnused(l) ==
    ~Verification!Used(l) /\ verificationToken[l].expiresAt <= now

StrandedForAReason ==
    \A u \in Users :
        users[u].registered /\ ~users[u].emailVerified /\ u \notin stranded =>
            \/ \E job \in mailQueue :
                  /\ WelcomeMail(job, u)
                  /\ \/ Verification!Matches(job.link, "EMAIL_VERIFICATION")
                     \/ ExpiredUnused(job.link)
            \/ \E c \in Callers :
                  /\ handler[c].user = u
                  /\ \/ handler[c].op = "register" /\ handler[c].at # "insertUser"
                     \/ handler[c].at = "markEmailVerified"

(* When a session outlives a change of its password, there is a reason,    *)
(* and there are three: the reset has not come to its revocation yet, or   *)
(* it broke off before, or the session, or one it was rotated from, was    *)
(* being issued while the revocation ran.                                  *)
SurvivorsExplained ==
    \A t \in Jtis :
        LET u == refreshToken[t].userId
        IN  Refreshing!Live(t) /\ credential[t] < users[u].password =>
                \/ \E c \in Callers : handler[c].at = "revokeAll" /\ handler[c].user = u
                \/ u \in unrevoked
                \/ t \in survivors

(* The service implements the abstract account of each address: unknown,   *)
(* registered, verified; letters that exist before they are redeemed, one  *)
(* verification letter per account, changes and sessions only where a      *)
(* redeemed letter entitles to them.                                       *)
Stage(u) ==
    IF ~users[u].registered THEN "unknown"
    ELSE IF users[u].emailVerified THEN "verified" ELSE "registered"

Service == INSTANCE Accounts WITH
    Addresses <- Users,
    Letters   <- Links,
    Tokens    <- Jtis,
    Nobody    <- None,
    stage     <- [u \in Users |-> Stage(u)],
    password  <- [u \in Users |-> users[u].password],
    sent      <- mailQueue,
    redeemed  <- {l \in Links : Verification!Used(l)},
    holder    <- [t \in Jtis |-> IF Refreshing!Live(t)
                                 THEN refreshToken[t].userId ELSE None]

ImplementsAccounts == Service!Spec

-----------------------------------------------------------------------------
(***************************************************************************)
(* Claims of the tests that the code does not meet.                        *)
(***************************************************************************)

(* "consumes token, hashes+saves new password, and revokes ALL sessions":  *)
(* once a reset has answered, no session that was opened with an earlier   *)
(* password is live.                                                       *)
ResetEndsOldSessions ==
    \A t \in Jtis : Refreshing!Live(t) =>
        credential[t] >= resetTo[refreshToken[t].userId]

=============================================================================
