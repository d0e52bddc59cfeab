# Verification of the NestJS starter application

This directory holds TLA+ models of the program in `../src`, TLC configurations
that check them on small instances, and theorems that TLAPS proves for every
instance.  `PROJECT.json` lists the runs, the properties with a faulty variant
of the code that each of them detects, the source lines every definition
stands for, the hazards of the code and the theorems.

## The system

The program is a NestJS HTTP service over PostgreSQL (through Prisma) and Redis
(through BullMQ).  Every request is an async handler: the code between two
`await`s runs without interruption, and the handlers of other requests, other
processes and the seed script run in between.  No handler opens a transaction.

| Component | Source | State | Operations |
| --- | --- | --- | --- |
| Refresh tokens | `src/auth/services/token.service.ts` | `refresh_tokens` | issue, rotate, revoke one, revoke all of a user |
| Verification tokens | `src/auth/services/verification-token.service.ts` | `verification_tokens` | create, consume |
| Authentication service | `src/auth/auth.service.ts`, `src/user/user.service.ts`, `local.strategy.ts` | `users` | register, verify, log in, refresh, log out, forgot and reset password |
| Mail queue | `src/mail`, `src/queue` | jobs in Redis | add, process, retry, recover |
| Access control | `permission.guard.ts`, `jwt.strategy.ts`, `prisma/seed.ts` | roles, permissions and their links | seed, assign, load, decide |
| Authentication endpoints | `src/auth/auth.controller.ts` | cookies of the browser | the HTTP face of the service, in a token and a cookie mode |
| Request pipeline | `src/app.module.ts`, `src/common` | one request | guards, pipes, interceptors, exception filter, in their order |
| CSRF, rate limiting | `src/csrf`, throttlers of `app.module.ts` | cookie and header, counters | check |
| Bootstrap and shutdown | `src/main.ts` | server, container, exit status | listen, drain, close |
| Configuration | `src/config` | the parsed environment | validate once, at the start |
| Logging | `src/logger` | none of its own | write a line, if its level is enabled |
| Upload | `src/upload` | files in S3 | refuse, put |
| Health | `src/observability` | none of its own | read figures of the process |
| Pagination | `src/common/pagination` | none | a helper that nothing calls |

How they interact: the controller calls the authentication service, which calls
the user service and the two token services in turn (each an `await` on the
database) and adds jobs to the mail queue.  A worker in the same process, or in
another one, takes the jobs and sends mail.  `LocalStrategy` guards the login,
`JwtStrategy` and the permission guard every other route; both read the
database on each request.  The seed script is a process of its own on the same
tables.

What is hard: statements of different requests interleave (check-then-act on
tokens and on addresses); any statement may fail and leave a handler half done;
a mail may be sent twice or late; a worker may die or lose its job; the seed
may be interrupted, repeated or run twice.  `PROJECT.json` lists each such
hazard at its line.

What makes each component correct:

* Refresh tokens: a rotated token is revoked before it has a successor; the
  session stays with its user; a session that is over stays over; a rotation
  alone never ends a session.
* Verification tokens: a token works for its purpose and user only, and not
  after it is used or expired.
* Authentication service: no session without a verified address; an address is
  verified by a link that was mailed to it; a password changes only by such a
  link; a user is left without a way in only by a failure or by the expiry of
  the only link; a session that outlives a reset has one of three reasons.
* Mail queue: every job settles, with an outcome that is true and final, and
  with a bounded number of duplicates.
* Access control: nobody is admitted without the grant, a super-admin is
  refused nothing that the seed defines, and a completed seed leaves exactly its
  grants.
* Authentication endpoints: the cookies of a browser belong together, a logout
  leaves none behind, and logout-all locks a user out once the access tokens
  have run out.
* Request pipeline: every answer and log line carries the id of its request, a
  refused request costs nothing and stores nothing, and every answer is traced
  in the log as far as `LOG_LEVEL` lets it.
* Configuration: a server that keeps tokens in cookies checks requests for CSRF,
  whatever environment it was started with.
* Bootstrap and shutdown: nobody who waits is cut off, the exit status is true,
  and the process does exit.

## Modules

| Module | What it is |
| --- | --- |
| `RefreshSessions` | What the token service promises, without requests, awaits or clock: absent, live, revoked; the owner; the predecessor |
| `TokenTtl` | The two readings of `JWT_REFRESH_TTL`: `ttlToMs` and `jsonwebtoken` |
| `TokenService` | The methods of `token.service.ts` statement by statement |
| `TokenServiceProofs`, `SessionProofs` | Theorems about `TokenService` |
| `VerificationTokenService` | `create` and `consume`, statement by statement |
| `VerificationTokenProofs` | Theorems about it |
| `Accounts` | What the service promises about an address, without requests, awaits or failures: unknown, registered, verified; letters, changes of the password, sessions |
| `AuthService` | The handlers of `auth.service.ts`, composed of instances of both token services |
| `AuthServiceProofs` | Theorems about it, by way of instances of the proofs about both token services |
| `MailQueue` | The delivery of jobs by BullMQ workers |
| `MailQueueProofs` | Theorems about it |
| `AccessControl` | The seed, role assignment, and the permission guard |
| `AccessControlProofs` | Theorems about it |
| `CookieSession` | The controller between a browser and the token service, with and without `COOKIE_AUTH` |
| `CookieSessionProofs` | Theorems about it |
| `HttpServer` | The process around the handlers: configuration, the way of a request, its log lines, and the shutdown |
| `HttpServerProofs` | Theorems about it |
| `MC...` | The instance of each module that TLC checks |

### TokenService

`refreshToken` is the table, keyed by the hash of the token.  A raw token is
represented by its jti; hash and raw token determine each other.  `call` holds
the local variables of each running method and the `await` it has reached
(`find`, `revoke`, `sign`, `create`).  One action is the code up to and
including the next statement of the database: `FindStored` is `findUnique` with
the check of what it returned, `RevokeStored` the update by primary key,
`SignTokens` the signature and `CreateRow` the insert.  The two revocations are
one `updateMany` each, hence one action.  `Fail` is a rejected statement or a
stopped process; a statement that took effect without an answer is a failure
after it.  `origin` and `ended` are history: who issued a token from which, and
which sessions were logged out or broken off half way.

The user agent, the address and the access tokens are left out: no operation
depends on them.

The lifetime of a refresh token is one setting that is read twice:
`jsonwebtoken` signs the token with it (`Timespan`), and `ttlToMs` dates the
row (`TtlToMs`). `ttlToMs` knows `s`, `m`, `h` and `d` without a space and
takes everything else for seven days.  `RowOutlivesJwt` is stated for the
settings that it knows.  For the others `MCTokenService` has TLC evaluate what
remains true: a row is shorter than its token only by the fallback, for
instance with `2w` or `1y`.

### VerificationTokenService

`FindRecord` is `findFirst` with its four conditions (`Matches`), `MarkUsed` the
update and the return.  `uses` and `granted` record what `consume` has
returned.  Tokens that match nothing are rejected without any effect and are
not modelled.

### AuthService

A request has a frame `handler` with the await it has reached; its steps inside
a token service are the actions of that module's instance.  Both services read
one clock (`now`, `Tick`), so that links and refresh tokens expire between any
two statements of a handler.  `Users` are the addresses that may register; the
administrator whom `prisma/seed.ts:73` inserts as verified, without a link, is
not one of them (`AccessControl` has that step).  A password is the number of
changes that led to it, so that `credential` can record with which password a
session was opened.  Registration is `UserService.create` (lookup, then insert
under the unique index), the creation of the token and the mail job.  A link is
usable once its job is enqueued.

Three histories record what went wrong on the way: `stranded` has the users
whose registration or verification broke off, `unrevoked` those whose reset
broke off before it revoked, and `survivors` the tokens that were being issued
while a reset revoked, with their successors.  A registration that fails after
the insert leaves a user who can neither register again nor verify, and a
verification that fails after `consume` uses up the only link.  So does time:
the link is good for a day (`auth.service.ts:31`), nothing sends another one, a
second registration is a conflict, and a reset verifies nothing.
`StrandedForAReason` says that these are all the ways: no race of requests is
another.  `Payments` of a user are the single uses of the user's reset links,
and `ChangesArePaidFor` says that there are as many of them as the password has
changes.  `SurvivorsExplained` is the sound half of the claim that `auth_reset`
refutes: it lists why a session may outlive a reset.

`ImplementsAccounts` maps the users table, the jobs, the used verification
tokens and the live refresh tokens to `Accounts`.  The specification of
`Accounts` is where a letter exists before it is redeemed, an address is sent
one letter of verification in its life, and a password changes or a session
opens only where a redeemed letter, or a verified address, entitles to it.

### MailQueue

BullMQ is external and modelled from the options of `mail.module.ts`: three
attempts, one tolerated stall.  A job belongs to the worker that holds its
lock.  A worker may die (`Crash`), or lose the lock while sending (`Stall`), go
on, and have its result refused.  `SendFails` includes the mail that was
accepted although `sendMail` rejects.  The branch of `process` for unknown
names is not reachable by the two names that the program enqueues and behaves
like `SendFails` without a mail.

### AccessControl

The seed script is one process per run of it, statement by statement; the
members of a `Promise.all` come in any order.  Registration assigns a role that
exists.  A request loads the roles of its user and then their permissions in
two steps, because Prisma answers the nested `include` with several queries,
and the guard decides on that copy.  A permission name is the pair it spells.
The branch of the guard for a request without a user is not reachable behind
`JwtAuthGuard`, which refuses such a request first.

`GET /users` requires `user:read`, while the seed defines `users:manage`; so
nobody is ever admitted to it, although the repository's README (lines 179 and
212) says who is.  This is a theorem (`NobodyListsUsers`) and not a run.

### CookieSession

The table of refresh tokens is an instance of `RefreshSessions`, which
`TokenService` is proved to implement; so this module speaks of the controller
alone.  `jar` holds the cookies by name and path, because a path decides what
the browser sends where, and clearing a cookie with another path clears
nothing.  `held` is what scripts have read from the bodies of answers.  A
request is sent, works on the table between its awaits, and is answered, in
either mode; answers of several tabs arrive in any order, late, or never.
`left` and `lockedAt` are history.  A token is the pair of access and refresh
token that `issueTokens` returns.  One browser is modelled: a session of
another one shares nothing with it but the user.  The `validate` half of
`JwtStrategy` is in `AccessControl`.

In the cookie mode a refresh puts the new pair into the body and leaves the
cookies alone: the browser goes on to present the token that was rotated away,
and its next refresh is refused.  `CookieFollowsRotation` states what rotation
would need, and the run `cookie_refresh` refutes it; `CookieSessionsRotateOnce`
is the theorem that follows from the code as it is, that such a session can be
refreshed once and never again.  And `logout` finds no refresh token in the
cookie mode (`cookie_logout`).

### HttpServer

The process starts with any environment.  `EnvValid` is `envSchema` with its
rules across variables; of the variables that no part of the model branches on
only their being well formed is kept.  A process that does not exit keeps
`config`: whether CSRF is checked, whether tokens are in cookies, and the level
of the log.  `CookieModeIsGuarded` connects an environment with what happens to
requests much later.  (It speaks of the routes that are subject to the check;
`AuthController` is exempt from it as a whole.)

`call` is the last request of each connection with the await it has reached;
`ctx` is what `AsyncLocalStorage` gives to the code that runs for it.  The
global guards run in the order of the providers of `app.module.ts`; after them
come the guard of the route, the interceptors around pipe and handler, and the
filter for whatever was thrown.  `todo` is the set of the guards that a request
has still to pass, and `FirstOf` the one whose turn it is.  What a guard
decides is left open here (`AccessControl`, `CookieSession` and `AuthService`
say when), so that every combination occurs.  A body that cannot be parsed is
refused before the middleware runs, hence without an id; one that is too large
is refused there too, but its error is no `HttpException`, so the filter
answers 500.  Success is 201 for an upload, which has no `@HttpCode`, and 200
elsewhere; 409 stands for every client error that a handler itself reports.  An
upload may be refused by `FileInterceptor` for its type or size, be without a
file, or fail in S3, which may have stored the file all the same;
`RefusedCostsNothing` includes that a refused upload stores nothing.
`SkipThrottle` without arguments exempts the health routes from the throttler
named `default` only, so the throttlers `short` and `medium` still decide about
them.

A line is written if its method is as severe as `LOG_LEVEL` (`Written`).  The
line of an error names the exception and no status.  The access line of a failed
request carries the status of its route's success, because the interceptor runs
before the filter sets the other one; `AnswersAreTraced` states what can still
be relied upon.

`server.close` is modelled as Node 24 does it: it stops listening and closes
idle connections, and its callback comes with the event `close`, when the last
connection ends.  A kept-alive connection may carry more requests until then. A
second `server.close` closes the connections that are idle by then, fails, and
says so at the same event; so a second signal never cuts off a client, but it
ends the process while the container is closing.  A client that leaves does not
stop its handler, which may still be running when the container is closed.

## Runs

| Run | Instance | What it shows |
| --- | --- | --- |
| `token_service` | 2 requests, 2 users, 3 tokens, clock 0..2 | six properties of rotation and the refinement of `RefreshSessions` |
| `rotation_race` | 2 requests, 1 user | two overlapping refreshes leave two live tokens in a session |
| `verification_tokens` | 3 requests, 2 users, 2 tokens, clock 0..3 | what a token can be used for and how often |
| `single_use` | 2 requests | two overlapping requests consume one token twice |
| `auth_service` | 2 requests, 1 user, 2 refresh tokens, 2 links, clock 0..1 | six properties across the handlers and the refinement of `Accounts` |
| `auth_reset` | 2 requests, 1 user | a session with the old password survives a reset |
| `mail_queue` | 2 jobs, 2 workers, 3 attempts, 1 stall | deliveries, outcomes and progress |
| `cookie_session` | 2 requests, 1 user, 3 tokens, clock 0..2, both modes | three properties of cookies and sessions |
| `cookie_logout` | 1 request | logout in the cookie mode revokes nothing |
| `cookie_refresh` | 1 request | a refresh in the cookie mode leaves the browser with the token that was rotated away |
| `http_server` | 2 connections, 2 requests, 2 ids, 2 signals, every environment with 2 log levels | configuration, contexts, guards, stored files, logs, exit status and termination |
| `access_control` | 2 runs of the seed, 1 request, 2 users, 3 permissions | the seed and the guard |

Why the bounds suffice: a rotation involves one token and its successor, and a
race needs two requests, so two requests and three tokens (a token, and two
successors or a chain of two) show every pattern of one session, while the
second user shows what crosses users.  Three requests on one verification token
show that `BoundedUses` is tight and not merely two.  The clock has room for a
token to be created, to expire, and for one more step after it.  In the mail
queue the attempts and stalls are those of the code; two jobs and two workers
are enough for a job to change hands while the other worker is still sending.
In `access_control` the table is cut to a wildcard permission, one that it
covers and one that it does not.  In `cookie_session` cookies are compared by
the pair they came with and not by user, so one user who logs in twice mixes
sessions as two users would; three tokens are a login, its refresh and a second
login or a refresh too many; the clock lets the access cookie expire before the
refresh cookie, and both before the end.  In `auth_service` two requests
suffice for every race of two handlers, and two links and two refresh tokens
for a registration with a reset, and for a session with its successor; a link
lives one tick and the clock has one, so every link may expire at every await.
The races are all between requests of one user: the handlers of two users touch
no common row, and that what belongs to one never serves the other is proved
for any number of users (a second one takes TLC beyond five minutes, for its
states are multiplied by the clock).  The `VIEW` of this run leaves out three
histories of the token services that no action reads and no property but
`TypeOK` speaks of.  In `http_server` two requests interleave on two
connections or follow each other on one, also while the server is draining, and
a second signal comes in every phase; of the levels of the log, one hides the
lines of success and of refusal and one shows them all.

Runs that may end in a state where nothing is left to do (all tokens signed,
all mails settled) turn the deadlock check off; the methods themselves never
wait for one another.

The five `violation` runs each refute a statement of the documentation or of a
test; `PROJECT.json` quotes it under "findings".

## Fairness

`MailQueue` and `HttpServer` assume fairness, all of it weak.  In `MailQueue`
workers poll the queue, a send ends because SMTP connections time out, a
backoff ends, and a job whose worker is gone is found by BullMQ's stalled
check.  Nothing is assumed about crashes, failures or late locks; they are
bounded by the stalls and attempts they use up, which is why every job settles
all the same.  In `HttpServer` a handler reaches its next step because the
statement it awaits is answered or rejected, Node ends idle connections
(`keepAliveTimeout`) and emits its events, and `app.close` settles.  Signals,
requests and clients that leave are not fair.  `ShutsDown` rests on a bound on
requests: a client that keeps a connection busy for ever keeps the process
alive, since `main.ts` sets no deadline.  The other modules state safety only:
a client may always go away.

## Proofs

Every safety property of a passing run is a theorem: all invariants, the action
properties, and both refinements.  The proofs hold for any number of requests,
users, tokens, jobs, workers, seeds and connections, and for any lifetimes.

Assumptions.  `None` is no user, token, link or guard (`NoneIsFresh`,
`NoneIsNothing`, `NoneIsNoGuard`); times and bounds are natural numbers; the
levels of the log are those that have a severity.  Where something is counted
(`BoundedUses`, `BoundedDeliveries`, `ChangesArePaidFor`) the sets of requests
and of workers are finite (`CallersFinite` and the like).  TLC evaluates these
in the runs.  `RowsOutlast` needs no more: that both readings of a lifetime
agree where `ttlToMs` parses it is a lemma (`ParsedLifetimes`).

*TokenService.*  Type correctness is inductive by itself.  The safety
properties are not: the invariant `IInv` adds what each frame knows at each
await (a frame past `find` holds an issued token whose row is its user's; past
`revoke` that row is revoked; past `sign` its fresh token is signed for the
user, has no row, and is nobody else's) and that rows, claims and origins
agree. From it follow `RotationRevokes`, `SessionKeepsUser` and
`BoundedSuccessors`. `SessionProofs` uses the same invariant for whole
sessions: they never come back (`OverIsForGood`), rotation never ends them
(`RotationNeverEnds`), and each step maps to a step of `RefreshSessions` or a
stutter (`SessionsImplemented`): `CreateRow` to `Open` or `Succeed`, the
revocations to `Revoke`, everything else to nothing.

*VerificationTokenService.*  The number of uses of a token plus the number of
requests that have it in hand never exceeds the number of requests once the
token is used; the invariant states this with the cardinality of the set of
such requests.  The others follow from what a frame knows of its record.

*AuthService.*  What the token services guarantee is not proved again: `R` and
`V` are instances of their proof modules, every step of `AuthService` is shown
to be a step of each or to leave its variables alone (`ServicesObeyed`), and so
their invariants, and the theorems that rest on them, hold inside the service
(`GuaranteesCarryOver`).  `IInv` adds what the handlers keep between their
statements.  `HandlersOK` ties the place of a handler to what it has in hand.
`LettersOK` says that a job, and a handler that is about to add one, has a
token of its own, of the user and the type it is for, and that a handler that
redeems a link has one that was mailed; this gives `MailVerifies` and, with the
history of failures and a link that is unused but out of date,
`StrandedHaveReasons`.  `SessionsOK` gives a handler that issues tokens the
verified address that it checked in a statement before
(`SessionsAreForVerified`).  `PasswordsOK` compares the password a handler is
issuing under with the current one, and knows a reason for each that is older
(`SurvivorsHaveReasons`).

`PasswordsArePaidFor` needs an invariant of its own (`PaidFor`), because a
handler has used the link some statements before it saves the password: the
changes made, plus the handlers about to make one, are at most the payments.
`AccountsImplemented` maps `InsertUser`, `Enqueue`, `Consumed` or a failing
`consume`, `MarkEmailVerified`, `UpdatePassword`, `OpenSession` and the
revocations to the steps of `Accounts`, and all others to stutters.

*MailQueue.*  The bound on deliveries is not inductive, because a worker that
has lost its job may still send.  `IInv` counts the workers that are sending a
job together with the mails accepted for it, and shows the sum to be at most
the number of times the job was taken: attempts, plus stalls, plus one for the
taking under way or completed.  What the counters say of the state of a job
(`WithinLimits`) then gives the bound, and that only used-up jobs fail.

*AccessControl.*  No step shrinks a table (`Growth`).  `SeedInv` says what a
seed has achieved at each statement, which no other seed can undo, and that no
grant is made which the seed does not define; hence `SeedIsComplete`.
`RequestInv` says that what a request has read is still in the tables, and that
its verdict is the guard's on what it has read; hence `AdmittedIsEntitled` and
`SuperAdminIsAdmitted`.

*CookieSession.*  The properties speak of the browser on one side and of the
table on the other, and requests carry tokens between the two.  `IInv` says
which cookies a browser can have at all and that both are of one pair (`JarOK`),
that the table is a forest of issued tokens (`TableOK`), what a request holds at
each await (`FramesOK`), that a cookie, and an answer that sets one, holds the
token of a login (`RootsOK`), that in the cookie mode no token is rotated from
one that was itself obtained so (`RotatesOnce`), and that a user who is locked
out has neither a live token nor a request that opens one (`LocksOK`).  From the
paths of `JarOK` follows what a request carries (`CookiesSent`).
`TableImplemented` shows that the controller uses the table only as
`RefreshSessions` allows.

*HttpServer.*  `FramesOK` ties the frame of a request to its context: all its
lines have the id of the context, every guard of its route that checks a secret
is still to come or has left its trace, and an answer has its line.  `PhasesOK`
counts the signals in each phase and says that a server that has closed has no
connection; `ExitIsClean` follows from it and is kept after the exit.

### How far the refuted claims are true

Each `violation` run shows one execution that breaks a claim.  Theorems say that
nothing else does:

* `SingleUseUnlessRaced`: a token is used once, unless two requests have its
  record in hand at the same time.
* `OneLiveTokenUnlessRaced`: a session has one live token, unless two requests
  that have passed the check rotate tokens of it at the same time.
* `OnlyOvertakenSurvive` and `ResetEndsOldSessionsUnlessRaced`: a reset that has
  answered has ended all older sessions, except those whose tokens were being
  issued while it revoked, and their successors.  No failure and no other
  overlap matters.
* `LogoutRevokesInTokenModeOnly`: with tokens in bodies a logout revokes what it
  was given; with tokens in cookies no logout ever revokes anything, whatever
  the browser did before.
* `CookieSessionsRotateOnce`: with tokens in cookies only the token of a login is
  ever rotated, with any number of tabs and in any order of answers.

One more claim of the documentation is refuted by a theorem alone:

* `NobodyListsUsers`: with any table that lacks both `user:read` and
  `user:manage`, which that of the seed does, `GET /users` is closed to
  everybody, super-admins included.

The theorems named `...UnlessRaced` have a hypothesis about the whole execution.
Executions that serve one request at a time satisfy it, and so do those whose
overlapping requests concern different tokens, sessions or users.

### Left to TLC

The two liveness properties, `EveryJobSettles` and `ShutsDown`: proofs from
fairness need ENABLED, which the prover does not treat.  The evaluation of
`ttlToMs` for the settings that it does not parse.  And the executions that
refute a claim, which are found, not proved.

## Not modelled

Swagger, New Relic and pagination keep no state that another part reads, and
nothing calls the pagination helper.  Of logging, only which lines are written
for a request is modelled, not their transport and redaction.  Password hashing
is represented by what it decides, and so are the counters of the rate limits
and the comparison of CSRF tokens, which belong to libraries.  The contents of
mails, files, tokens and error messages are abstracted.

No cleanup of expired rows is modelled, because the program has none.

## Plan

1. A refinement of `Accounts` to the tables of both token services is in place;
   an abstract specification of the mail queue (a mail is pending, settled or
   lost, delivered a bounded number of times) would let `AuthService` speak of
   delivered letters in place of enqueued ones.
2. Theorems that join components: that a session opened in the browser belongs
   to a verified address, from `TableImplemented` and `SessionsAreForVerified`.
3. The CSRF cookie and its header in `CookieSession`.
