----------------------------- MODULE HttpServer -----------------------------
(***************************************************************************)
(* The process around the handlers: the configuration, bootstrap, the way  *)
(* of a request through middleware, guards, pipe, handler, interceptors    *)
(* and filter, what is logged of it, and the shutdown, with requests on    *)
(* several kept-alive connections.                                         *)
(*                                                                         *)
(* One connection carries one request at a time.  What a guard or a        *)
(* handler decides is left open: the modules about them say when.  Four    *)
(* routes stand for all: a public one with a guard of its own, one behind  *)
(* a permission, a public one that is not exempt from CSRF and stores a    *)
(* file, and a public one that only reads figures of the process.          *)
(***************************************************************************)
EXTENDS Naturals

CONSTANTS
    Connections,    \* connections that clients open
    Ids,            \* request ids, from headers or new
    LogLevels,      \* the values of LOG_LEVEL that are tried
    MaxRequests,    \* bound on the requests that clients send
    MaxSignals,     \* bound on SIGTERM and SIGINT
    None            \* no id, no route, no answer, no configuration

\* The methods of the logger, which are the values that LOG_LEVEL may have.
Severity ==
    [fatal |-> 6, error |-> 5, warn |-> 4, info |-> 3, debug |-> 2, trace |-> 1]

ASSUME LevelsAssumption == LogLevels \subseteq DOMAIN Severity
ASSUME BoundsAssumption == MaxRequests \in Nat /\ MaxSignals \in Nat

VARIABLES
    config,         \* the configuration, once it is parsed
    server,         \* the phase of the process
    again,          \* a second server.close waits for the event "close"
    container,      \* the NestJS container
    exit,           \* the exit status
    signals,        \* how many signals have arrived
    open,           \* the connections that are open
    sent,           \* how many requests were sent
    ctx,            \* what AsyncLocalStorage holds for each connection's request
    call            \* the last request of each connection, forgotten when it
                    \* is closed without one in flight

process == <<config, server, again, container, exit, signals>>
vars    == <<process, open, sent, ctx, call>>

-----------------------------------------------------------------------------
(***************************************************************************)
(* The configuration.                                                      *)
(***************************************************************************)
(* What the environment may say.  "rest" stands for the variables without  *)
(* a default; a secret is short, or long enough and good or only blanks.   *)
Environments ==
    [rest : BOOLEAN, production : BOOLEAN, newRelic : BOOLEAN, csrf : BOOLEAN,
     secret : {"none", "short", "blank", "good"}, cookie : BOOLEAN,
     level : LogLevels]

\* Fault: the cookie mode is accepted by itself.
EnvValidFieldwise(env) ==
    /\ env.rest /\ env.secret # "short"
    /\ env.production => env.newRelic
    /\ env.csrf => env.secret = "good"

\* The schema of each variable, then the rules across variables.
EnvValid(env) ==
    /\ env.rest /\ env.secret # "short"
    /\ env.production => env.newRelic
    /\ env.csrf => env.secret = "good"
    /\ env.cookie => env.csrf

\* The constructor of CsrfGuard does not throw.
CsrfGuardBuilt(env) == env.csrf => env.secret # "none"

\* What the process reads of its configuration later.
Parsed(env) == [csrf |-> env.csrf, cookie |-> env.cookie, level |-> env.level]

-----------------------------------------------------------------------------
(***************************************************************************)
(* The routes and what stands before their handlers.                       *)
(***************************************************************************)
Routes == {"login", "users", "upload", "ready"}
Public == {"login", "upload", "ready"}

\* Fault: the JWT guard is registered first.
GuardsJwtFirst == <<"jwt", "throttle", "csrf", "permission", "local">>

\* The global guards in the order of the providers, then the route's own.
Guards == <<"throttle", "csrf", "jwt", "permission", "local">>

ASSUME NoneIsNoGuard == \A i \in DOMAIN Guards : Guards[i] # None

(* The routes that a guard decides about: it lets the others pass.         *)
(* @SkipThrottle without arguments skips the throttler "default" only.     *)
Subject(guard) ==
    CASE guard = "throttle"   -> Routes
      [] guard = "csrf"       -> IF config.csrf THEN {"upload"} ELSE {}
      [] guard = "jwt"        -> Routes \ Public
      [] guard = "permission" -> {"users"}
      [] guard = "local"      -> {"login"}

\* The guards that decide about a route.
GuardsOf(route) ==
    {guard \in {Guards[i] : i \in DOMAIN Guards} : route \in Subject(guard)}

\* The one of them whose turn it is.
FirstOf(todo) ==
    LET first == CHOOSE i \in DOMAIN Guards :
                    /\ Guards[i] \in todo
                    /\ \A j \in 1..(i - 1) : Guards[j] \notin todo
    IN  Guards[first]

\* A guard leaves a trace if it checked a secret.
Cost(guard) == {guard} \cap {"csrf", "jwt", "local"}

Refusals(guard) ==
    CASE guard = "throttle" -> {429}
      [] guard \in {"csrf", "permission"} -> {403}
      [] guard = "jwt"      -> {401, 500}
      [] guard = "local"    -> {400, 401, 500}

(* FileInterceptor refuses a file of another type, or one that is too      *)
(* large; the pipe refuses a body.                                         *)
EarlyErrors(route) ==
    CASE route = "upload" -> [status : {400, 413}, by : {"file"}]
      [] route = "login"  -> [status : {400}, by : {"pipe"}]
      [] route \in {"users", "ready"} -> {}

\* The status of success, which is set before the interceptors run; only the
\* route of the upload leaves it to NestJS.
Success(route) == IF route = "upload" THEN 201 ELSE 200

(* How handlers end.  UploadService puts the file into the bucket; S3 may  *)
(* fail after it stored the file.  A figure of "ready" may be too high.    *)
(* 409 stands for whatever the other handlers blame on the client.         *)
Results(route) ==
    CASE route = "upload" ->
            [status : {201}, done : {{"put"}}] \cup [status : {400}, done : {{}}]
            \cup [status : {500}, done : {{}, {"put"}}]
      [] route \in {"login", "users"} -> [status : {200, 409, 500}, done : {{}}]
      [] route = "ready" -> [status : {200, 503}, done : {{}}]

NoRequest == [at |-> "idle", route |-> None, id |-> None, todo |-> {},
              done |-> {}, lines |-> {}, answer |-> None]

Running(c) == call[c].at \in {"guards", "pipe", "handler"}

Init ==
    /\ config = None
    /\ server = "creating" /\ again = FALSE /\ container = "open"
    /\ exit = "none" /\ signals = 0
    /\ open = {}
    /\ sent = 0
    /\ ctx = [c \in Connections |-> None]
    /\ call = [c \in Connections |-> NoRequest]

-----------------------------------------------------------------------------
(***************************************************************************)
(* Requests.                                                               *)
(***************************************************************************)
\* Fault: one store for all requests instead of one per asynchronous context.
EnterContextShared(c, id) == ctx' = [d \in Connections |-> id]

EnterContext(c, id) == ctx' = [ctx EXCEPT ![c] = id]

\* LoggerService: a line is written if its method is as severe as LOG_LEVEL.
Written(level, status, id) ==
    IF Severity[level] >= Severity[config.level]
    THEN {[level |-> level, status |-> status, id |-> id]} ELSE {}

\* Fault: only errors of the server are logged.
FilterLinesSilent(c, status) ==
    IF status >= 500 THEN Written("error", None, ctx'[c]) ELSE {}

\* The line of an error has the exception in the place of the status.
FilterLines(c, status) ==
    IF status >= 500 THEN Written("error", None, ctx'[c])
                     ELSE Written("warn", status, ctx'[c])

\* Fault: the body is sent with the status that the route had set.
AnswerErrorWithSuccess(frame, c, status, by) ==
    [frame EXCEPT !.at = "answered", !.lines = @ \cup FilterLines(c, status),
                  !.answer = [status |-> Success(frame.route), id |-> ctx'[c],
                              by |-> by]]

\* GlobalExceptionFilter, after an exception thrown by a guard, pipe or handler.
AnswerError(frame, c, status, by) ==
    [frame EXCEPT !.at = "answered", !.lines = @ \cup FilterLines(c, status),
                  !.answer = [status |-> status, id |-> ctx'[c], by |-> by]]

\* LoggingInterceptor logs the status of the response as it is at that time:
\* in the case of an exception the filter has not yet replaced it.
WithAccessLine(frame, c) ==
    [frame EXCEPT !.lines = @ \cup Written("info", Success(frame.route), ctx'[c])]

\* A request comes on a new connection, or on one that was kept alive.
Arrives(c) ==
    /\ server = "listening" \/ (server = "draining" /\ c \in open)
    /\ ~Running(c)
    /\ sent < MaxRequests
    /\ sent' = sent + 1
    /\ open' = open \cup {c}
    /\ UNCHANGED process

Request(c, route, id) ==
    /\ Arrives(c)
    /\ EnterContext(c, id)
    /\ call' = [call EXCEPT ![c] =
                  [NoRequest EXCEPT !.at = "guards", !.todo = GuardsOf(route),
                                    !.route = route, !.id = id]]

\* The body is parsed before the middleware runs: outside of every context.
\* A body over the limit of the parser is no HttpException to the filter.
MalformedRequest(c) ==
    /\ Arrives(c)
    /\ ctx' = [ctx EXCEPT ![c] = None]
    /\ \E status \in {400, 500} :
          call' = [call EXCEPT ![c] = AnswerError(NoRequest, c, status, "parser")]

Guard(c) ==
    LET f == call[c]
        guard == FirstOf(f.todo)
        g == [f EXCEPT !.done = @ \cup Cost(guard), !.todo = @ \ {guard}]
    IN  /\ f.at = "guards" /\ server # "exited"
        /\ UNCHANGED <<process, open, sent, ctx>>
        /\ \/ call' = [call EXCEPT ![c] =
                [g EXCEPT !.at = IF g.todo = {} THEN "pipe" ELSE "guards"]]
           \/ \E status \in Refusals(guard) :
                 call' = [call EXCEPT ![c] = AnswerError(g, c, status, guard)]

Pipe(c) ==
    /\ call[c].at = "pipe" /\ server # "exited"
    /\ UNCHANGED <<process, open, sent, ctx>>
    /\ \/ call' = [call EXCEPT ![c].at = "handler"]
       \/ \E e \in EarlyErrors(call[c].route) :
             call' = [call EXCEPT ![c] =
                AnswerError(WithAccessLine(call[c], c), c, e.status, e.by)]

Handle(c) ==
    /\ call[c].at = "handler" /\ server # "exited"
    /\ UNCHANGED <<process, open, sent, ctx>>
    /\ \E r \in Results(call[c].route) :
          LET f == WithAccessLine([call[c] EXCEPT !.done = @ \cup {"handler"} \cup r.done], c)
          IN  call' = [call EXCEPT ![c] =
                 IF r.status < 400
                 THEN [f EXCEPT !.at = "answered",
                         !.answer = [status |-> r.status, id |-> ctx[c], by |-> None]]
                 ELSE AnswerError(f, c, r.status, "handler")]

Work(c) == Guard(c) \/ Pipe(c) \/ Handle(c)

\* The client goes away: its handler goes on.
Leave(c) ==
    /\ c \in open /\ Running(c) /\ server # "exited"
    /\ open' = open \ {c}
    /\ UNCHANGED <<process, sent, ctx, call>>

Close(idle) ==
    /\ open' = open \ idle
    /\ ctx' = [c \in Connections |-> IF c \in idle THEN None ELSE ctx[c]]
    /\ call' = [c \in Connections |-> IF c \in idle THEN NoRequest ELSE call[c]]

\* keepAliveTimeout, or the client closes an idle connection.
IdleTimeout(c) ==
    /\ c \in open /\ ~Running(c) /\ server # "exited"
    /\ Close({c})
    /\ UNCHANGED <<process, sent>>

-----------------------------------------------------------------------------
(***************************************************************************)
(* The process.                                                            *)
(***************************************************************************)
ProcessExit(status) == server' = "exited" /\ exit' = status

\* NestFactory.create: the configuration is checked and providers are built.
Create ==
    /\ server = "creating"
    /\ \E env \in Environments :
          IF EnvValid(env) /\ CsrfGuardBuilt(env)
          THEN config' = Parsed(env) /\ server' = "starting" /\ UNCHANGED exit
          ELSE ProcessExit("failure") /\ UNCHANGED config
    /\ UNCHANGED <<again, container, signals, open, sent, ctx, call>>

Listen ==
    /\ server = "starting"
    /\ server' = "listening"
    /\ UNCHANGED <<config, again, container, exit, signals, open, sent, ctx, call>>

BootstrapFails ==
    /\ server \in {"creating", "starting"}
    /\ ProcessExit("failure")
    /\ UNCHANGED <<config, again, container, signals, open, sent, ctx, call>>

(* server.close stops listening and closes the idle connections; its       *)
(* callback waits for the event "close".  Called once more, it closes the  *)
(* connections that are idle by then and fails, but says so at that event  *)
(* too; after the event it says so at once.                                *)
CloseServer ==
    \/ /\ server = "listening"
       /\ server' = "draining"
       /\ Close({c \in open : ~Running(c)})
       /\ UNCHANGED <<again, exit>>
    \/ /\ server = "draining"
       /\ again' = TRUE
       /\ Close({c \in open : ~Running(c)})
       /\ UNCHANGED <<server, exit>>
    \/ /\ server = "closing"
       /\ ProcessExit("failure")
       /\ UNCHANGED <<again, open, ctx, call>>

Signal ==
    /\ signals < MaxSignals
    /\ signals' = signals + 1
    /\ \/ CloseServer
       \/ /\ server \in {"creating", "starting"}       \* no listener yet
          /\ ProcessExit("killed")
          /\ UNCHANGED <<again, open, ctx, call>>
    /\ UNCHANGED <<config, container, sent>>

\* Fault: app.close is called without waiting for the callback.
DrainedAtOnce ==
    /\ server = "draining"
    /\ container' = "closing"
    /\ IF again THEN ProcessExit("failure") ELSE server' = "closing" /\ UNCHANGED exit
    /\ UNCHANGED <<config, again, signals, open, sent, ctx, call>>

\* The event "close": app.close begins, and the callback of a second call exits.
Drained ==
    /\ server = "draining" /\ open = {}
    /\ container' = "closing"
    /\ IF again THEN ProcessExit("failure") ELSE server' = "closing" /\ UNCHANGED exit
    /\ UNCHANGED <<config, again, signals, open, sent, ctx, call>>

\* Fault: a rejected app.close is logged and that is all.
ContainerClosedOrStuck ==
    /\ server = "closing" /\ container = "closing"
    /\ \/ container' = "closed" /\ ProcessExit("success")
       \/ container' = "failed" /\ UNCHANGED <<server, exit>>
    /\ UNCHANGED <<config, again, signals, open, sent, ctx, call>>

ContainerClosed ==
    /\ server = "closing"
    /\ \/ container' = "closed" /\ ProcessExit("success")
       \/ container' = "failed" /\ ProcessExit("failure")
    /\ UNCHANGED <<config, again, signals, open, sent, ctx, call>>

Next ==
    \/ \E c \in Connections :
          \/ \E route \in Routes, id \in Ids : Request(c, route, id)
          \/ MalformedRequest(c)
          \/ Work(c)
          \/ Leave(c)
          \/ IdleTimeout(c)
    \/ Create \/ Listen \/ BootstrapFails \/ Signal \/ Drained \/ ContainerClosed

(* Handlers end, because statements of the database do; the timeout of     *)
(* idle connections and the events of the server come.                     *)
Fairness ==
    /\ \A c \in Connections : WF_vars(Work(c)) /\ WF_vars(IdleTimeout(c))
    /\ WF_vars(Drained) /\ WF_vars(ContainerClosed)

Spec == Init /\ [][Next]_vars /\ Fairness

-----------------------------------------------------------------------------
ErrorStatus == {400, 401, 403, 409, 413, 429, 500, 503}

Lines ==
    [level : {"info"}, status : {200, 201}, id : Ids] \cup
    [level : {"warn"}, status : {n \in ErrorStatus : n < 500}, id : Ids \cup {None}] \cup
    [level : {"error"}, status : {None}, id : Ids \cup {None}]

Answers ==
    [status : {200, 201}, id : Ids, by : {None}] \cup
    [status : ErrorStatus, id : Ids \cup {None},
     by : {"parser", "throttle", "csrf", "jwt", "permission", "local", "file", "pipe",
           "handler"}]

\* Every variable has its type: answers of errors have the status of an error.
TypeOK ==
    /\ \/ config = None /\ server \in {"creating", "exited"}
       \/ config \in [csrf : BOOLEAN, cookie : BOOLEAN, level : LogLevels]
    /\ server \in {"creating", "starting", "listening", "draining", "closing", "exited"}
    /\ again \in BOOLEAN
    /\ container \in {"open", "closing", "closed", "failed"}
    /\ exit \in {"none", "success", "failure", "killed"}
    /\ signals \in 0..MaxSignals
    /\ open \subseteq Connections
    /\ sent \in 0..MaxRequests
    /\ ctx \in [Connections -> Ids \cup {None}]
    /\ \A c \in Connections :
          /\ call[c].at \in {"idle", "guards", "pipe", "handler", "answered"}
          /\ call[c].route \in Routes \cup {None}
          /\ call[c].id \in Ids \cup {None}
          /\ call[c].at = "guards" => call[c].todo # {}
          /\ call[c].done \subseteq {"csrf", "jwt", "local", "handler", "put"}
          /\ call[c].lines \subseteq Lines
          /\ call[c].at = "answered" => call[c].answer \in Answers

(* However the requests of several connections interleave, the requestId   *)
(* of an answer, and of every line logged for it, is that of its request.  *)
AnswersCarryOwnId ==
    \A c \in Connections :
        call[c].at = "answered" =>
            /\ call[c].answer.id = call[c].id
            /\ \A l \in call[c].lines : l.id = call[c].id

(* A request that is throttled or fails the CSRF check has cost neither a  *)
(* query nor a password hash, no handler runs before the guards of its     *)
(* route were paid for, and a request that is refused, by whatever stands  *)
(* before the bucket, stores no file.                                      *)
RefusedCostsNothing ==
    \A c \in Connections :
        /\ call[c].at = "answered" /\ call[c].answer.by \in {"throttle", "csrf"}
           => call[c].done \subseteq {"csrf"}
        /\ "handler" \in call[c].done =>
              /\ call[c].route \notin Public => "jwt" \in call[c].done
              /\ call[c].route = "login" => "local" \in call[c].done
        /\ call[c].at = "answered" /\ call[c].answer.status \in 400..499
           => "put" \notin call[c].done

(* Whatever environment the process was started with: if it keeps tokens   *)
(* in cookies, no handler that changes something runs without the CSRF     *)
(* check, except those of the routes that are exempt.                      *)
CookieModeIsGuarded ==
    \A c \in Connections :
        call[c].route = "upload" /\ "handler" \in call[c].done /\ config.cookie
        => "csrf" \in call[c].done

(* Every answer is traced in the log as far as LOG_LEVEL lets it: a        *)
(* success by the line of the interceptor, an error by a line of the       *)
(* filter with its true status or the exception, although the interceptor  *)
(* may have logged a success for it.                                       *)
AnswersAreTraced ==
    \A c \in Connections :
        call[c].at = "answered" =>
            LET a == call[c].answer
                level == IF a.status < 400 THEN "info"
                         ELSE IF a.status < 500 THEN "warn" ELSE "error"
            IN  Severity[level] >= Severity[config.level] =>
                    \E l \in call[c].lines :
                        /\ l.level = level /\ l.id = a.id
                        /\ level # "error" => l.status = a.status

(* When the process exits, after however many signals, no client is        *)
(* waiting for an answer; and the status is true: success says that the    *)
(* container was closed, failure that the start or the closing failed, or  *)
(* that a second signal came.                                              *)
ExitIsClean ==
    server = "exited" =>
        /\ \A c \in open : ~Running(c)
        /\ exit = "success" => container = "closed" /\ signals = 1
        /\ exit = "failure" => \/ container = "failed"
                               \/ signals >= 2
                               \/ sent = 0 /\ container = "open"

(* After a signal the process exits, however many requests are in flight,  *)
(* if clients send finitely many more on the connections they have.        *)
ShutsDown == signals > 0 ~> server = "exited"

=============================================================================
