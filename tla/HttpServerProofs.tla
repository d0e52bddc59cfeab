--------------------------- MODULE HttpServerProofs ---------------------------
(***************************************************************************)
(* Proofs about HttpServer for any number of connections, requests and     *)
(* signals, and any set of log levels.                                     *)
(*                                                                         *)
(* What the properties say of answers depends on what a request carries    *)
(* through the guards, and what they say of the exit depends on what the   *)
(* server knows in each phase of its life.  IInv has both: FrameOK ties    *)
(* the frame of a request to its context, to the guards it has still to    *)
(* pass and to what it has cost; PhasesOK counts the signals of each phase *)
(* and says that a drained server has no connection.                       *)
(***************************************************************************)
EXTENDS HttpServer, TLAPS

GuardNames == {"throttle", "csrf", "jwt", "permission", "local"}
Refusers   == GuardNames \cup {"parser", "file", "pipe", "handler"}
Traces     == {"csrf", "jwt", "local", "handler", "put"}
Configs    == [csrf : BOOLEAN, cookie : BOOLEAN, level : LogLevels]
Frame      == [at : {"idle", "guards", "pipe", "handler", "answered"},
               route : Routes \cup {None}, id : Ids \cup {None},
               todo : SUBSET GuardNames, done : SUBSET Traces,
               lines : SUBSET Lines, answer : Answers \cup {None}]

\* The guards of a route that check a secret.
Secrets(route) == GuardsOf(route) \cap {"csrf", "jwt", "local"}

\* All lines of a frame carry its id.
OwnLines(f) == \A l \in f.lines : l.id = f.id

\* A request on its way runs in its own context and has stored nothing.
OnItsWay(f, id) ==
    /\ f.id \in Ids /\ id = f.id
    /\ f.route \in Routes
    /\ f.done \cap {"handler", "put"} = {}
    /\ OwnLines(f)

\* The guards it has passed left their trace; two come before all others.
InGuards(f) ==
    /\ f.todo # {}
    /\ f.todo \cap {"throttle", "csrf"} # {} => f.done = {}
    /\ Secrets(f.route) \subseteq f.todo \cup f.done

\* The answer has its line, as far as LOG_LEVEL lets it.
LevelOf(status) ==
    IF status < 400 THEN "info" ELSE IF status < 500 THEN "warn" ELSE "error"

Traced(f) ==
    Severity[LevelOf(f.answer.status)] >= Severity[config.level] =>
        \E l \in f.lines :
            /\ l.level = LevelOf(f.answer.status) /\ l.id = f.answer.id
            /\ l.level # "error" => l.status = f.answer.status

Answered(f) ==
    /\ f.answer \in Answers
    /\ f.answer.id = f.id /\ OwnLines(f)
    /\ f.answer.by \in {"throttle", "csrf"} => f.done \subseteq {"csrf"}
    /\ f.answer.status \in 400..499 => "put" \notin f.done
    /\ "handler" \in f.done =>
          f.route \in Routes /\ Secrets(f.route) \subseteq f.done
    /\ Traced(f)

\* What holds of the frame of a connection whose context has this id.
FrameOK(f, id) ==
    /\ f \in Frame
    /\ f.at = "idle" => f = NoRequest
    /\ f.at \in {"guards", "pipe", "handler"} => OnItsWay(f, id)
    /\ f.at = "guards" => InGuards(f)
    /\ f.at \in {"pipe", "handler"} => Secrets(f.route) \subseteq f.done
    /\ f.at = "answered" => Answered(f)

FramesOK ==
    /\ DOMAIN call = Connections
    /\ \A c \in Connections : FrameOK(call[c], ctx[c])

\* Every variable but call has its type.
Typed ==
    /\ config \in Configs \/ (config = None /\ server \in {"creating", "exited"})
    /\ server \in {"creating", "starting", "listening", "draining", "closing",
                   "exited"}
    /\ again \in BOOLEAN
    /\ container \in {"open", "closing", "closed", "failed"}
    /\ exit \in {"none", "success", "failure", "killed"}
    /\ signals \in 0..MaxSignals
    /\ open \subseteq Connections
    /\ sent \in 0..MaxRequests
    /\ ctx \in [Connections -> Ids \cup {None}]

Configured == config \in Configs /\ (config.cookie => config.csrf)

(* Nothing arrives before the configuration is parsed; a server that has   *)
(* closed has no connection, and the signals say how it came there.        *)
PhasesOK ==
    /\ server \in {"creating", "starting"} =>
          /\ open = {} /\ sent = 0 /\ signals = 0 /\ container = "open"
          /\ \A c \in Connections : call[c] = NoRequest
    /\ server \in {"starting", "listening", "draining", "closing"} => Configured
    /\ server = "exited" =>
          Configured \/ \A c \in Connections : call[c] = NoRequest
    /\ server \in {"creating", "starting", "listening"} => ~again
    /\ server = "listening" => signals = 0
    /\ server = "draining" => IF again THEN signals >= 2 ELSE signals = 1
    /\ server = "closing" => signals = 1 /\ open = {}

IInv == Typed /\ FramesOK /\ PhasesOK /\ ExitIsClean

-----------------------------------------------------------------------------
(* Every route is throttled, and the guards that check a secret stand      *)
(* before the routes that need them.                                       *)
LEMMA GuardsOfRoutes ==
    /\ \A route \in Routes :
          /\ GuardsOf(route) \subseteq GuardNames
          /\ "throttle" \in GuardsOf(route)
    /\ \A route \in Routes \ Public : "jwt" \in Secrets(route)
    /\ "local" \in Secrets("login")
    /\ config.csrf => "csrf" \in Secrets("upload")
<1>1. /\ DOMAIN Guards = 1..5
      /\ Guards[1] = "throttle" /\ Guards[2] = "csrf" /\ Guards[3] = "jwt"
      /\ Guards[4] = "permission" /\ Guards[5] = "local"
  BY DEF Guards
<1>2. {Guards[i] : i \in DOMAIN Guards} = GuardNames
  BY <1>1 DEF GuardNames
<1>3. \A route : GuardsOf(route) = {g \in GuardNames : route \in Subject(g)}
  BY <1>2 DEF GuardsOf
<1> QED
  BY <1>3 DEF GuardNames, Secrets, Subject, Routes, Public

(* The turn is one of the guards that are left; no guard comes before the  *)
(* throttler, and only the throttler before the CSRF guard.                *)
LEMMA FirstIsFirst ==
    ASSUME NEW todo \in SUBSET GuardNames, todo # {}
    PROVE  /\ FirstOf(todo) \in todo
           /\ "throttle" \in todo => FirstOf(todo) = "throttle"
           /\ "csrf" \in todo => FirstOf(todo) \in {"throttle", "csrf"}
<1>1. /\ DOMAIN Guards = 1..5
      /\ Guards[1] = "throttle" /\ Guards[2] = "csrf" /\ Guards[3] = "jwt"
      /\ Guards[4] = "permission" /\ Guards[5] = "local"
  BY DEF Guards
<1> DEFINE Turn(i) == /\ Guards[i] \in todo
                      /\ \A j \in 1..(i - 1) : Guards[j] \notin todo
           first == CHOOSE i \in DOMAIN Guards : Turn(i)
<1>2. \E i \in DOMAIN Guards : Turn(i)
  <2>1. CASE "throttle" \in todo
    BY <1>1, <2>1
  <2>2. CASE "throttle" \notin todo /\ "csrf" \in todo
    BY <1>1, <2>2
  <2>3. CASE "throttle" \notin todo /\ "csrf" \notin todo /\ "jwt" \in todo
    BY <1>1, <2>3
  <2>4. CASE /\ "throttle" \notin todo /\ "csrf" \notin todo /\ "jwt" \notin todo
             /\ "permission" \in todo
    BY <1>1, <2>4
  <2>5. CASE todo = {"local"}
    BY <1>1, <2>5
  <2> QED
    BY <2>1, <2>2, <2>3, <2>4, <2>5 DEF GuardNames
<1>3. first \in DOMAIN Guards /\ Turn(first)
  BY <1>2
<1>4. FirstOf(todo) = Guards[first]
  BY DEF FirstOf
<1> HIDE DEF first
<1>5. "throttle" \in todo => first = 1
  BY <1>1, <1>3
<1>6. "csrf" \in todo => first \in {1, 2}
  BY <1>1, <1>3
<1> QED
  BY <1>1, <1>3, <1>4, <1>5, <1>6


-----------------------------------------------------------------------------
(* What the run checks follows from the invariant.                         *)
LEMMA InvImplies ==
    ASSUME IInv
    PROVE  /\ TypeOK
           /\ AnswersCarryOwnId
           /\ RefusedCostsNothing
           /\ CookieModeIsGuarded
           /\ AnswersAreTraced
<1>1. \A c \in Connections : FrameOK(call[c], ctx[c])
  BY DEF IInv, FramesOK
<1>2. TypeOK
  <2>1. ASSUME NEW c \in Connections
        PROVE  /\ call[c].at \in {"idle", "guards", "pipe", "handler", "answered"}
               /\ call[c].route \in Routes \cup {None}
               /\ call[c].id \in Ids \cup {None}
               /\ call[c].at = "guards" => call[c].todo # {}
               /\ call[c].done \subseteq {"csrf", "jwt", "local", "handler", "put"}
               /\ call[c].lines \subseteq Lines
               /\ call[c].at = "answered" => call[c].answer \in Answers
    BY <1>1 DEF FrameOK, Frame, Traces, InGuards, Answered
  <2> QED
    BY <2>1 DEF IInv, Typed, Configs, TypeOK
<1>3. AnswersCarryOwnId
  BY <1>1 DEF AnswersCarryOwnId, FrameOK, Answered, OwnLines
\* Only an answered frame has run its handler.
<1>4. \A c \in Connections : "handler" \in call[c].done =>
         /\ call[c].route \in Routes
         /\ Secrets(call[c].route) \subseteq call[c].done
  <2> SUFFICES ASSUME NEW c \in Connections, "handler" \in call[c].done
               PROVE  call[c].at = "answered"
    BY <1>1 DEF FrameOK, Answered
  <2>1. call[c].at # "idle"
    BY <1>1 DEF FrameOK, NoRequest
  <2>2. call[c].at \notin {"guards", "pipe", "handler"}
    BY <1>1 DEF FrameOK, OnItsWay
  <2> QED
    BY <1>1, <2>1, <2>2 DEF FrameOK, Frame
<1>5. RefusedCostsNothing
  <2> SUFFICES ASSUME NEW c \in Connections
               PROVE  /\ /\ call[c].at = "answered"
                         /\ call[c].answer.by \in {"throttle", "csrf"}
                         => call[c].done \subseteq {"csrf"}
                      /\ "handler" \in call[c].done =>
                            /\ call[c].route \notin Public => "jwt" \in call[c].done
                            /\ call[c].route = "login" => "local" \in call[c].done
                      /\ call[c].at = "answered" /\ call[c].answer.status \in 400..499
                         => "put" \notin call[c].done
    BY DEF RefusedCostsNothing
  <2>1. call[c].at = "answered" => Answered(call[c])
    BY <1>1 DEF FrameOK
  <2> QED
    BY <1>4, <2>1, GuardsOfRoutes DEF Answered
<1>6. CookieModeIsGuarded
  <2> SUFFICES ASSUME NEW c \in Connections, call[c].route = "upload",
                      "handler" \in call[c].done, config.cookie
               PROVE  "csrf" \in call[c].done
    BY DEF CookieModeIsGuarded
  <2>1. call[c] # NoRequest
    BY DEF NoRequest
  <2>2. Configured
    BY <2>1 DEF IInv, Typed, PhasesOK
  <2> QED
    BY <1>4, <2>2, GuardsOfRoutes DEF Configured
<1>7. AnswersAreTraced
  BY <1>1 DEF AnswersAreTraced, FrameOK, Answered, Traced, LevelOf
<1> QED
  BY <1>2, <1>3, <1>5, <1>6, <1>7

\* The frame of an idle connection says nothing.
LEMMA NoRequestOK == ASSUME NEW id PROVE FrameOK(NoRequest, id)
BY DEF FrameOK, NoRequest, Frame

\* The invariant holds initially.
LEMMA InvInit == Init => IInv
<1> SUFFICES ASSUME Init PROVE IInv
  OBVIOUS
<1>1. FramesOK
  BY NoRequestOK DEF Init, FramesOK
<1>2. Typed
  <2>1. 0 \in 0..MaxSignals /\ 0 \in 0..MaxRequests
    BY BoundsAssumption
  <2> QED
    BY <2>1 DEF Init, Typed
<1>3. PhasesOK /\ ExitIsClean
  BY DEF Init, PhasesOK, ExitIsClean
<1> QED
  BY <1>1, <1>2, <1>3 DEF IInv

-----------------------------------------------------------------------------
(* An exception is answered in the context of its request, and logged.     *)
LEMMA ErrorAnswered ==
    ASSUME NEW f \in Frame, NEW c \in Connections, NEW by \in Refusers,
           NEW status \in ErrorStatus, UNCHANGED config,
           ctx'[c] = f.id, OwnLines(f),
           by \in {"throttle", "csrf"} => f.done \subseteq {"csrf"},
           status < 500 => "put" \notin f.done,
           "handler" \in f.done =>
              f.route \in Routes /\ Secrets(f.route) \subseteq f.done
    PROVE  FrameOK(AnswerError(f, c, status, by), ctx'[c])
<1> DEFINE g == AnswerError(f, c, status, by)
<1>1. /\ g.at = "answered" /\ g.route = f.route /\ g.id = f.id
      /\ g.todo = f.todo /\ g.done = f.done
      /\ g.lines = f.lines \cup FilterLines(c, status)
      /\ g.answer = [status |-> status, id |-> f.id, by |-> by]
  BY DEF AnswerError, Frame
<1>2. \A l \in FilterLines(c, status) : l.id = f.id
  BY DEF FilterLines, Written
<1>3. FilterLines(c, status) \subseteq Lines
  <2>1. f.id \in Ids \cup {None} /\ status \in Nat
    BY DEF Frame, ErrorStatus
  <2>2. CASE status >= 500
    BY <2>1, <2>2 DEF FilterLines, Written, Lines
  <2>3. CASE ~(status >= 500)
    BY <2>1, <2>3 DEF FilterLines, Written, Lines
  <2> QED
    BY <2>2, <2>3
<1>4. g.answer \in Answers
  BY <1>1 DEF Answers, Frame, Refusers, GuardNames
<1>5. g \in Frame
  BY <1>1, <1>3, <1>4 DEF AnswerError, Frame
<1>6. /\ status \in 400..599
      /\ \A l \in FilterLines(c, status) : l \in g.lines
  BY <1>1 DEF ErrorStatus
<1> HIDE DEF g
<1>7. Traced(g)
  <2>1. FilterLines(c, status) =
           Written(LevelOf(status), IF status >= 500 THEN None ELSE status, f.id)
    BY <1>6 DEF FilterLines, LevelOf
  <2>2. status >= 500 => LevelOf(status) = "error"
    BY <1>6 DEF LevelOf
  <2> SUFFICES ASSUME Severity[LevelOf(status)] >= Severity[config.level]
               PROVE  \E l \in g.lines :
                         /\ l.level = LevelOf(status) /\ l.id = f.id
                         /\ l.level # "error" => l.status = status
    BY <1>1 DEF Traced
  <2> DEFINE line == [level |-> LevelOf(status),
                      status |-> IF status >= 500 THEN None ELSE status,
                      id |-> f.id]
  <2>3. line \in g.lines
    BY <1>6, <2>1 DEF Written
  <2> QED
    BY <2>2, <2>3
<1>8. Answered(g)
  BY <1>1, <1>2, <1>4, <1>6, <1>7 DEF Answered, OwnLines
<1>9. FrameOK(g, ctx'[c])
  BY <1>1, <1>5, <1>8 DEF FrameOK
<1> QED
  BY <1>9 DEF g

-----------------------------------------------------------------------------
(* What holds of a frame goes on to hold while the configuration stays.    *)
LEMMA FrameKept ==
    ASSUME NEW f, NEW id, UNCHANGED config, FrameOK(f, id)
    PROVE  FrameOK(f, id)'
<1>1. \A guard : Subject(guard)' = Subject(guard)
  BY DEF Subject
<1>2. \A route : Secrets(route)' = Secrets(route)
  BY <1>1 DEF Secrets, GuardsOf
<1>3. InGuards(f)' <=> InGuards(f)
  BY <1>2 DEF InGuards
<1>4. Traced(f)' <=> Traced(f)
  BY DEF Traced
<1>5. Answered(f)' <=> Answered(f)
  BY <1>2, <1>4 DEF Answered
<1> QED
  BY <1>2, <1>3, <1>5 DEF FrameOK

(* A step that concerns one request leaves the frames of the others alone. *)
LEMMA OneFrame ==
    ASSUME FramesOK, UNCHANGED config, NEW c \in Connections, NEW f,
           call' = [call EXCEPT ![c] = f],
           \A d \in Connections \ {c} : ctx'[d] = ctx[d],
           FrameOK(f, ctx'[c])
    PROVE  FramesOK'
<1>1. ASSUME NEW d \in Connections
      PROVE  FrameOK(call'[d], ctx'[d])
  BY DEF FramesOK
<1>2. ASSUME NEW d \in Connections
      PROVE  FrameOK(call[d], ctx[d])'
  <2> DEFINE g == call'[d]
             id == ctx'[d]
  <2>1. FrameOK(g, id)
    BY <1>1
  <2> QED
    BY <2>1, FrameKept
<1> QED
  BY <1>2 DEF FramesOK

\* A step of clients and handlers: the process goes on as it is.
Served ==
    /\ UNCHANGED process
    /\ server \in {"listening", "draining", "closing"}
    /\ open' \subseteq Connections
    /\ server = "closing" => open' = {}
    /\ sent' \in 0..MaxRequests
    /\ ctx' \in [Connections -> Ids \cup {None}]

\* Such a step concerns the frames only.
LEMMA ServedKeepsPhases ==
    ASSUME IInv, Served, FramesOK'
    PROVE  IInv'
<1>1. Typed'
  BY DEF IInv, Typed, Served, process
<1>2. PhasesOK' /\ ExitIsClean'
  BY DEF IInv, PhasesOK, ExitIsClean, Served, process, Configured
<1> QED
  BY <1>1, <1>2 DEF IInv

(* A request that arrives finds its context and all guards before it.      *)
LEMMA ArrivesServed ==
    ASSUME IInv, NEW c \in Connections, Arrives(c),
           ctx' \in [Connections -> Ids \cup {None}]
    PROVE  Served
<1>1. sent' \in 0..MaxRequests
  BY BoundsAssumption DEF Arrives, IInv, Typed
<1> QED
  BY <1>1 DEF Arrives, Served, IInv, Typed

LEMMA RequestStep ==
    ASSUME IInv, NEW c \in Connections, NEW route \in Routes, NEW id \in Ids,
           Request(c, route, id)
    PROVE  IInv'
<1> DEFINE f == [NoRequest EXCEPT !.at = "guards", !.todo = GuardsOf(route),
                                  !.route = route, !.id = id]
<1>1. /\ NoRequest \in Frame
      /\ NoRequest.done = {} /\ NoRequest.lines = {}
  BY DEF NoRequest, Frame
<1>2. /\ f \in Frame
      /\ f.at = "guards" /\ f.todo = GuardsOf(route) /\ f.route = route
      /\ f.id = id /\ f.done = {} /\ f.lines = {}
  BY <1>1, GuardsOfRoutes DEF Frame
<1> HIDE DEF f
<1>3. OnItsWay(f, id) /\ InGuards(f)
  BY <1>2, GuardsOfRoutes DEF OnItsWay, OwnLines, InGuards, Secrets
<1>4. FrameOK(f, id)
  BY <1>2, <1>3 DEF FrameOK
<1>5. /\ ctx' = [ctx EXCEPT ![c] = id]
      /\ call' = [call EXCEPT ![c] = f]
      /\ Arrives(c) /\ UNCHANGED config
  BY DEF Request, EnterContext, Arrives, process, f
<1>6. /\ ctx' \in [Connections -> Ids \cup {None}]
      /\ ctx'[c] = id
      /\ \A d \in Connections \ {c} : ctx'[d] = ctx[d]
  BY <1>5 DEF IInv, Typed
<1>7. FramesOK'
  BY <1>4, <1>5, <1>6, OneFrame DEF IInv
<1> QED
  BY <1>5, <1>6, <1>7, ArrivesServed, ServedKeepsPhases

LEMMA MalformedStep ==
    ASSUME IInv, NEW c \in Connections, MalformedRequest(c)
    PROVE  IInv'
<1>0. PICK status \in {400, 500} :
         call' = [call EXCEPT ![c] = AnswerError(NoRequest, c, status, "parser")]
  BY DEF MalformedRequest
<1> DEFINE f == AnswerError(NoRequest, c, status, "parser")
<1>1. /\ ctx' = [ctx EXCEPT ![c] = None]
      /\ call' = [call EXCEPT ![c] = f]
      /\ Arrives(c) /\ UNCHANGED config
  BY <1>0 DEF MalformedRequest, Arrives, process
<1>2. /\ ctx' \in [Connections -> Ids \cup {None}]
      /\ ctx'[c] = None
      /\ \A d \in Connections \ {c} : ctx'[d] = ctx[d]
  BY <1>1 DEF IInv, Typed
<1>3. /\ NoRequest \in Frame /\ OwnLines(NoRequest)
      /\ NoRequest.id = None /\ NoRequest.done = {}
  BY DEF NoRequest, Frame, OwnLines
<1>4. FrameOK(f, ctx'[c])
  BY <1>1, <1>2, <1>3, ErrorAnswered DEF ErrorStatus, Refusers
<1> HIDE DEF f
<1>5. FramesOK'
  BY <1>1, <1>2, <1>4, OneFrame DEF IInv
<1> QED
  BY <1>1, <1>2, <1>5, ArrivesServed, ServedKeepsPhases

-----------------------------------------------------------------------------
(* The handlers of a server that has not exited: they have a connection,   *)
(* or had one when they began, so that the server has listened.            *)
LEMMA RunningServed ==
    ASSUME IInv, NEW c \in Connections, Running(c), server # "exited",
           UNCHANGED <<process, open, sent, ctx>>
    PROVE  Served /\ UNCHANGED config
<1>1. call[c] # NoRequest
  BY DEF Running, NoRequest
<1>2. server \in {"listening", "draining", "closing"}
  BY <1>1 DEF IInv, Typed, PhasesOK
<1> QED
  BY <1>2 DEF Served, process, IInv, Typed, PhasesOK

(* A handler's step is one step of its frame.                              *)
LEMMA WorkKeepsInv ==
    ASSUME IInv, NEW c \in Connections, Running(c), server # "exited",
           UNCHANGED <<process, open, sent, ctx>>,
           NEW f, call' = [call EXCEPT ![c] = f], FrameOK(f, ctx[c])
    PROVE  IInv'
<1>1. Served /\ UNCHANGED config
  BY RunningServed
<1>2. FramesOK'
  BY <1>1, OneFrame DEF IInv
<1> QED
  BY <1>1, <1>2, ServedKeepsPhases

LEMMA GuardStep ==
    ASSUME IInv, NEW c \in Connections, Guard(c)
    PROVE  IInv'
<1> DEFINE f == call[c]
           guard == FirstOf(f.todo)
           g == [f EXCEPT !.done = @ \cup Cost(guard), !.todo = @ \ {guard}]
<1>1. /\ Running(c) /\ server # "exited" /\ f.at = "guards"
      /\ UNCHANGED <<process, open, sent, ctx>>
      /\ UNCHANGED config
  BY DEF Guard, Running, process
<1>2. /\ f \in Frame /\ OnItsWay(f, ctx[c]) /\ InGuards(f)
  BY <1>1 DEF IInv, FramesOK, FrameOK
<1>3. f.todo \in SUBSET GuardNames /\ f.todo # {}
  BY <1>2 DEF Frame, InGuards
<1>4. /\ guard \in f.todo /\ guard \in GuardNames
      /\ "throttle" \in f.todo => guard = "throttle"
      /\ "csrf" \in f.todo => guard \in {"throttle", "csrf"}
  BY <1>3, FirstIsFirst
<1> HIDE DEF guard
<1>5. Cost(guard) \subseteq {"csrf", "jwt", "local"}
  BY DEF Cost
<1>6. /\ g \in Frame
      /\ g.at = "guards" /\ g.route = f.route /\ g.id = f.id
      /\ g.lines = f.lines
      /\ g.done = f.done \cup Cost(guard) /\ g.todo = f.todo \ {guard}
  BY <1>1, <1>2, <1>5 DEF Frame, Traces
<1> HIDE DEF g
<1>7. OnItsWay(g, ctx[c])
  BY <1>2, <1>5, <1>6 DEF OnItsWay, OwnLines
<1>8. Secrets(g.route) \subseteq g.todo \cup g.done
  BY <1>2, <1>6 DEF InGuards, Secrets, Cost
<1>9. ASSUME NEW at, at = IF g.todo = {} THEN "pipe" ELSE "guards"
      PROVE  FrameOK([g EXCEPT !.at = at], ctx[c])
  <2> DEFINE h == [g EXCEPT !.at = at]
  <2>1. /\ h \in Frame /\ h.at = at /\ h.route = g.route /\ h.id = g.id
        /\ h.done = g.done /\ h.lines = g.lines /\ h.todo = g.todo
    BY <1>6, <1>9 DEF Frame
  <2> HIDE DEF h
  <2>2. OnItsWay(h, ctx[c])
    BY <1>7, <2>1 DEF OnItsWay, OwnLines
  <2>3. h.at = "guards" => InGuards(h)
    BY <1>2, <1>4, <1>6, <1>8, <1>9, <2>1 DEF InGuards, Cost
  <2>4. h.at = "pipe" => Secrets(h.route) \subseteq h.done
    BY <1>8, <1>9, <2>1
  <2>5. h.at \in {"guards", "pipe"}
    BY <1>9, <2>1
  <2>6. FrameOK(h, ctx[c])
    BY <2>1, <2>2, <2>3, <2>4, <2>5 DEF FrameOK
  <2> QED
    BY <2>6 DEF h
<1>10. ASSUME NEW status \in Refusals(guard)
       PROVE  FrameOK(AnswerError(g, c, status, guard), ctx[c])
  <2>1. status \in ErrorStatus /\ guard \in Refusers
    BY <1>4, <1>10 DEF Refusals, GuardNames, ErrorStatus, Refusers
  <2>2. guard \in {"throttle", "csrf"} => g.done \subseteq {"csrf"}
    BY <1>2, <1>4, <1>6 DEF InGuards, Cost
  <2>3. /\ g.id \in Ids /\ ctx'[c] = g.id /\ ctx[c] = ctx'[c]
        /\ OwnLines(g) /\ "handler" \notin g.done /\ "put" \notin g.done
    BY <1>1, <1>7 DEF OnItsWay
  <2> QED
    BY <1>1, <1>6, <2>1, <2>2, <2>3, ErrorAnswered
<1>11. \/ call' = [call EXCEPT ![c] =
             [g EXCEPT !.at = IF g.todo = {} THEN "pipe" ELSE "guards"]]
       \/ \E status \in Refusals(guard) :
             call' = [call EXCEPT ![c] = AnswerError(g, c, status, guard)]
  BY DEF Guard, g, guard
<1>12. ASSUME NEW h, call' = [call EXCEPT ![c] = h], FrameOK(h, ctx[c])
       PROVE  IInv'
  BY <1>1, <1>12, WorkKeepsInv
<1> QED
  BY <1>9, <1>10, <1>11, <1>12

(* The line of the interceptor names the request, whatever becomes of it.  *)
LEMMA AccessLine ==
    ASSUME NEW f \in Frame, NEW c \in Connections, f.id \in Ids,
           ctx'[c] = f.id, OwnLines(f)
    PROVE  LET g == WithAccessLine(f, c)
           IN  /\ g \in Frame /\ OwnLines(g)
               /\ g.at = f.at /\ g.route = f.route /\ g.id = f.id
               /\ g.todo = f.todo /\ g.done = f.done
               /\ Written("info", Success(f.route), f.id) \subseteq g.lines
<1> DEFINE line == Written("info", Success(f.route), f.id)
<1>1. line \subseteq Lines /\ \A l \in line : l.id = f.id
  BY DEF Written, Lines, Success
<1> QED
  BY <1>1 DEF WithAccessLine, Frame, OwnLines

LEMMA PipeStep ==
    ASSUME IInv, NEW c \in Connections, Pipe(c)
    PROVE  IInv'
<1> DEFINE f == call[c]
           g == WithAccessLine(f, c)
           h == [f EXCEPT !.at = "handler"]
<1>1. /\ Running(c) /\ server # "exited" /\ f.at = "pipe"
      /\ UNCHANGED <<process, open, sent, ctx>>
      /\ UNCHANGED config
  BY DEF Pipe, Running, process
<1>2. /\ f \in Frame /\ OnItsWay(f, ctx[c]) /\ Secrets(f.route) \subseteq f.done
  BY <1>1 DEF IInv, FramesOK, FrameOK
<1>3. FrameOK(h, ctx[c])
  <2>1. /\ h \in Frame /\ h.at = "handler" /\ h.route = f.route
        /\ h.id = f.id /\ h.done = f.done /\ h.lines = f.lines
    BY <1>2 DEF Frame
  <2>2. OnItsWay(h, ctx[c])
    BY <1>2, <2>1 DEF OnItsWay, OwnLines
  <2> QED
    BY <1>2, <2>1, <2>2 DEF FrameOK
<1>4. ASSUME NEW e \in EarlyErrors(f.route)
      PROVE  FrameOK(AnswerError(g, c, e.status, e.by), ctx[c])
  <2>1. e.status \in ErrorStatus /\ e.by \in {"file", "pipe"}
    BY <1>2, <1>4 DEF EarlyErrors, OnItsWay, Routes, ErrorStatus
  <2>2. /\ g \in Frame /\ OwnLines(g) /\ g.id = f.id /\ g.done = f.done
    BY <1>1, <1>2, AccessLine DEF OnItsWay
  <2> HIDE DEF g
  <2>3. /\ g.id \in Ids /\ ctx'[c] = g.id /\ ctx[c] = ctx'[c]
        /\ "handler" \notin g.done /\ "put" \notin g.done
    BY <1>1, <1>2, <2>2 DEF OnItsWay
  <2> QED
    BY <1>1, <2>1, <2>2, <2>3, ErrorAnswered DEF Refusers
<1>5. \/ call' = [call EXCEPT ![c] = h]
      \/ \E e \in EarlyErrors(f.route) :
            call' = [call EXCEPT ![c] = AnswerError(g, c, e.status, e.by)]
  BY DEF Pipe
<1>6. ASSUME NEW k, call' = [call EXCEPT ![c] = k], FrameOK(k, ctx[c])
      PROVE  IInv'
  BY <1>1, <1>6, WorkKeepsInv
<1> QED
  BY <1>3, <1>4, <1>5, <1>6

LEMMA HandleStep ==
    ASSUME IInv, NEW c \in Connections, Handle(c)
    PROVE  IInv'
<1> DEFINE f == call[c]
<1>1. /\ Running(c) /\ server # "exited" /\ f.at = "handler"
      /\ UNCHANGED <<process, open, sent, ctx>>
      /\ UNCHANGED config
  BY DEF Handle, Running, process
<1>2. /\ f \in Frame /\ OnItsWay(f, ctx[c]) /\ Secrets(f.route) \subseteq f.done
  BY <1>1 DEF IInv, FramesOK, FrameOK
<1>3. PICK r \in Results(f.route) :
         LET g == WithAccessLine([f EXCEPT !.done = @ \cup {"handler"} \cup r.done], c)
         IN  call' = [call EXCEPT ![c] =
                IF r.status < 400
                THEN [g EXCEPT !.at = "answered",
                        !.answer = [status |-> r.status, id |-> ctx[c], by |-> None]]
                ELSE AnswerError(g, c, r.status, "handler")]
  BY DEF Handle
<1> DEFINE d == [f EXCEPT !.done = @ \cup {"handler"} \cup r.done]
           g == WithAccessLine(d, c)
           ok == [g EXCEPT !.at = "answered",
                    !.answer = [status |-> r.status, id |-> ctx[c], by |-> None]]
\* A file may be stored by a handler that fails, never by one that refuses it.
<1>4. /\ r.status \in {Success(f.route), 400, 409, 500, 503}
      /\ Success(f.route) \in {200, 201}
      /\ r.done \subseteq {"put"}
      /\ r.status \in {400, 409} => r.done = {}
  BY <1>2, <1>3 DEF Results, Success, OnItsWay, Routes
<1>5. /\ d \in Frame /\ d.id = f.id /\ d.route = f.route /\ d.lines = f.lines
      /\ d.done = f.done \cup {"handler"} \cup r.done
  BY <1>2, <1>4 DEF Frame, Traces
<1> HIDE DEF d
<1>6. /\ g \in Frame /\ OwnLines(g) /\ g.id = f.id /\ g.done = d.done
      /\ g.route = f.route
      /\ f.id \in Ids /\ ctx'[c] = f.id /\ ctx[c] = f.id
      /\ Written("info", Success(f.route), f.id) \subseteq g.lines
  BY <1>1, <1>2, <1>5, AccessLine DEF OnItsWay, OwnLines
<1> HIDE DEF g
<1>7. /\ g.route \in Routes
      /\ Secrets(g.route) \subseteq g.done
      /\ r.status \in {400, 409} => "put" \notin g.done
  BY <1>2, <1>4, <1>5, <1>6 DEF OnItsWay
<1>8. CASE r.status \in {200, 201}
  <2>1. /\ ok.at = "answered" /\ ok.route = g.route /\ ok.id = g.id
        /\ ok.done = g.done /\ ok.lines = g.lines
        /\ ok.answer = [status |-> r.status, id |-> f.id, by |-> None]
        /\ r.status = Success(f.route)
    BY <1>4, <1>6, <1>8 DEF Frame
  <2>2. ok.answer \in Answers
    BY <1>6, <1>8, <2>1 DEF Answers
  <2>3. ok \in Frame
    BY <1>6, <2>1, <2>2 DEF Frame
  <2> HIDE DEF ok
  <2>4. Traced(ok)
    <3>1. LevelOf(r.status) = "info"
      BY <1>8 DEF LevelOf
    <3> SUFFICES ASSUME Severity["info"] >= Severity[config.level]
                 PROVE  \E l \in ok.lines :
                           l.level = "info" /\ l.id = f.id /\ l.status = r.status
      BY <2>1, <3>1 DEF Traced
    <3>2. [level |-> "info", status |-> r.status, id |-> f.id] \in ok.lines
      BY <1>6, <2>1 DEF Written
    <3> QED
      BY <3>2
  <2>5. None \notin {"throttle", "csrf"}
    BY NoneIsNoGuard DEF Guards
  <2>6. Answered(ok)
    <3>1. /\ ok.answer.status \notin 400..499
          /\ ok.answer.id = ok.id /\ ok.answer.by = None
      BY <1>6, <1>8, <2>1
    <3>2. OwnLines(ok)
      BY <1>6, <2>1 DEF OwnLines
    <3> QED
      BY <1>7, <2>1, <2>2, <2>4, <2>5, <3>1, <3>2 DEF Answered
  <2>7. FrameOK(ok, ctx[c])
    BY <2>1, <2>3, <2>6 DEF FrameOK
  <2>8. call' = [call EXCEPT ![c] = ok]
    <3>1. r.status < 400
      BY <1>8
    <3> QED
      BY <1>3, <3>1 DEF ok, g, d
  <2> QED
    BY <1>1, <2>7, <2>8, WorkKeepsInv
<1>9. CASE r.status \notin {200, 201}
  <2>1. r.status \in ErrorStatus /\ "handler" \in Refusers
    BY <1>4, <1>9 DEF ErrorStatus, Refusers
  <2>2. FrameOK(AnswerError(g, c, r.status, "handler"), ctx[c])
    BY <1>1, <1>4, <1>6, <1>7, <1>9, <2>1, ErrorAnswered
  <2>3. call' = [call EXCEPT ![c] = AnswerError(g, c, r.status, "handler")]
    <3>1. ~(r.status < 400)
      BY <1>4, <1>9
    <3> QED
      BY <1>3, <3>1 DEF g, d
  <2> QED
    BY <1>1, <2>2, <2>3, WorkKeepsInv
<1> QED
  BY <1>8, <1>9

-----------------------------------------------------------------------------
(* A step that touches no request leaves all frames as they are.           *)
LEMMA FramesUntouched ==
    ASSUME FramesOK, UNCHANGED <<config, ctx, call>>
    PROVE  FramesOK'
<1>1. ASSUME NEW d \in Connections
      PROVE  FrameOK(call[d], ctx[d])'
  BY FrameKept DEF FramesOK
<1> QED
  BY <1>1 DEF FramesOK

(* The client goes away, and its handler goes on.                          *)
LEMMA LeaveStep ==
    ASSUME IInv, NEW c \in Connections, Leave(c)
    PROVE  IInv'
<1>1. /\ c \in open /\ server # "exited" /\ open' = open \ {c}
      /\ UNCHANGED <<process, config, sent, ctx, call>>
  BY DEF Leave, process
<1>2. server \in {"listening", "draining", "closing"}
  BY <1>1 DEF IInv, Typed, PhasesOK
<1>3. Served
  BY <1>1, <1>2 DEF Served, IInv, Typed, PhasesOK
<1>4. FramesOK'
  BY <1>1, FramesUntouched DEF IInv
<1> QED
  BY <1>3, <1>4, ServedKeepsPhases

(* Closing idle connections forgets their last requests.                   *)
LEMMA CloseKeepsFrames ==
    ASSUME IInv, NEW idle \in SUBSET open, Close(idle), UNCHANGED config
    PROVE  /\ FramesOK'
           /\ ctx' \in [Connections -> Ids \cup {None}]
           /\ open' \subseteq Connections
<1>1. ASSUME NEW d \in Connections
      PROVE  FrameOK(call'[d], ctx'[d])
  <2>1. call'[d] = (IF d \in idle THEN NoRequest ELSE call[d])
    BY DEF Close
  <2>2. ctx'[d] = (IF d \in idle THEN None ELSE ctx[d])
    BY DEF Close
  <2> QED
    BY <2>1, <2>2, NoRequestOK DEF IInv, FramesOK
<1>2. ASSUME NEW d \in Connections
      PROVE  FrameOK(call[d], ctx[d])'
  <2> DEFINE f == call'[d]
             id == ctx'[d]
  <2>1. FrameOK(f, id)
    BY <1>1
  <2> QED
    BY <2>1, FrameKept
<1>3. DOMAIN call' = Connections
  BY DEF Close
<1> QED
  BY <1>2, <1>3 DEF Close, IInv, Typed, FramesOK

LEMMA IdleTimeoutStep ==
    ASSUME IInv, NEW c \in Connections, IdleTimeout(c)
    PROVE  IInv'
<1>1. /\ c \in open /\ server # "exited"
      /\ Close({c}) /\ UNCHANGED <<process, config, sent>>
  BY DEF IdleTimeout, process
<1>2. server \in {"listening", "draining", "closing"}
  BY <1>1 DEF IInv, Typed, PhasesOK
<1>3. /\ FramesOK'
      /\ ctx' \in [Connections -> Ids \cup {None}]
      /\ open' \subseteq Connections
  BY <1>1, CloseKeepsFrames
<1>4. Served
  BY <1>1, <1>2, <1>3 DEF Served, Close, IInv, Typed, PhasesOK
<1> QED
  BY <1>3, <1>4, ServedKeepsPhases

-----------------------------------------------------------------------------
(* The process.  Until it listens nothing has arrived.                     *)
LEMMA CreateStep ==
    ASSUME IInv, Create
    PROVE  IInv'
<1>1. /\ server = "creating"
      /\ open = {} /\ sent = 0 /\ signals = 0 /\ container = "open"
      /\ \A c \in Connections : call[c] = NoRequest
      /\ UNCHANGED <<again, container, signals, open, sent, ctx, call>>
  BY DEF Create, IInv, PhasesOK
<1>2. \/ config' \in Configs /\ (config'.cookie => config'.csrf)
         /\ server' = "starting" /\ UNCHANGED exit
      \/ server' = "exited" /\ exit' = "failure" /\ UNCHANGED config
  <2>1. PICK env \in Environments :
           IF EnvValid(env) /\ CsrfGuardBuilt(env)
           THEN config' = Parsed(env) /\ server' = "starting" /\ UNCHANGED exit
           ELSE ProcessExit("failure") /\ UNCHANGED config
    BY DEF Create
  <2>2. Parsed(env) \in Configs
    BY DEF Parsed, Configs, Environments
  <2>3. EnvValid(env) => (Parsed(env).cookie => Parsed(env).csrf)
    BY DEF EnvValid, Parsed
  <2> QED
    BY <2>1, <2>2, <2>3 DEF ProcessExit
<1>3. FramesOK'
  <2>1. \A c \in Connections : FrameOK(NoRequest, ctx[c])'
    BY DEF FrameOK, NoRequest, Frame
  <2> QED
    BY <1>1, <2>1 DEF IInv, FramesOK
<1>4. Typed'
  BY <1>1, <1>2 DEF IInv, Typed
<1>5. PhasesOK' /\ ExitIsClean'
  BY <1>1, <1>2 DEF IInv, PhasesOK, ExitIsClean, Configured
<1> QED
  BY <1>3, <1>4, <1>5 DEF IInv

LEMMA StartStep ==
    ASSUME IInv, Listen \/ BootstrapFails
    PROVE  IInv'
<1>1. /\ server \in {"creating", "starting"}
      /\ UNCHANGED <<config, again, container, signals, open, sent, ctx, call>>
      /\ \/ server = "starting" /\ server' = "listening" /\ UNCHANGED exit
         \/ server' = "exited" /\ exit' = "failure"
  BY DEF Listen, BootstrapFails, ProcessExit
<1>2. FramesOK'
  BY <1>1, FramesUntouched DEF IInv
<1>3. Typed' /\ PhasesOK' /\ ExitIsClean'
  BY <1>1 DEF IInv, Typed, PhasesOK, ExitIsClean, Configured
<1> QED
  BY <1>2, <1>3 DEF IInv

(* A signal closes the server, is noted by it, or ends the process.        *)
LEMMA SignalStep ==
    ASSUME IInv, Signal
    PROVE  IInv'
<1>1. /\ signals' = signals + 1 /\ signals' \in 0..MaxSignals
      /\ signals \in Nat
      /\ UNCHANGED <<config, container, sent>>
  BY BoundsAssumption DEF Signal, IInv, Typed
<1>2. CASE /\ \/ server = "listening" /\ server' = "draining" /\ UNCHANGED again
              \/ server = "draining" /\ again' = TRUE /\ UNCHANGED server
           /\ Close({c \in open : ~Running(c)})
           /\ UNCHANGED exit
  <2>1. /\ FramesOK'
        /\ ctx' \in [Connections -> Ids \cup {None}]
        /\ open' \subseteq Connections
    BY <1>1, <1>2, CloseKeepsFrames
  <2>2. Typed'
    BY <1>1, <1>2, <2>1 DEF IInv, Typed
  <2>3. PhasesOK' /\ ExitIsClean'
    BY <1>1, <1>2 DEF IInv, PhasesOK, ExitIsClean, Configured
  <2> QED
    BY <2>1, <2>2, <2>3 DEF IInv
<1>3. CASE /\ \/ /\ server = "closing" /\ server' = "exited" /\ exit' = "failure"
                 /\ UNCHANGED again
              \/ /\ server \in {"creating", "starting"} /\ server' = "exited"
                 /\ exit' = "killed" /\ UNCHANGED again
           /\ UNCHANGED <<open, ctx, call>>
  <2>1. FramesOK'
    BY <1>1, <1>3, FramesUntouched DEF IInv
  <2>2. Typed'
    BY <1>1, <1>3 DEF IInv, Typed
  <2>3. PhasesOK' /\ ExitIsClean'
    BY <1>1, <1>3 DEF IInv, PhasesOK, ExitIsClean, Configured
  <2> QED
    BY <2>1, <2>2, <2>3 DEF IInv
<1> QED
  BY <1>2, <1>3 DEF Signal, CloseServer, ProcessExit

(* The server has drained only when no connection is open.                 *)
LEMMA DrainedStep ==
    ASSUME IInv, Drained \/ ContainerClosed
    PROVE  IInv'
<1>1. UNCHANGED <<config, again, signals, open, sent, ctx, call>>
  BY DEF Drained, ContainerClosed
<1>2. FramesOK'
  BY <1>1, FramesUntouched DEF IInv
<1>3. CASE Drained
  BY <1>1, <1>2, <1>3 DEF IInv, Typed, PhasesOK, ExitIsClean, Configured,
                          Drained, ProcessExit
<1>4. CASE ContainerClosed
  BY <1>1, <1>2, <1>4 DEF IInv, Typed, PhasesOK, ExitIsClean, Configured,
                          ContainerClosed, ProcessExit
<1> QED
  BY <1>3, <1>4

\* Every step preserves the invariant.
LEMMA InvStep == IInv /\ [Next]_vars => IInv'
<1> SUFFICES ASSUME IInv, [Next]_vars
             PROVE  IInv'
  OBVIOUS
<1>1. ASSUME NEW c \in Connections, Work(c)
      PROVE  IInv'
  BY <1>1, GuardStep, PipeStep, HandleStep DEF Work
<1>2. ASSUME NEW c \in Connections, Leave(c) \/ IdleTimeout(c)
      PROVE  IInv'
  BY <1>2, LeaveStep, IdleTimeoutStep
<1>3. CASE UNCHANGED vars
  <2>1. FramesOK'
    BY <1>3, FramesUntouched DEF IInv, vars, process
  <2> QED
    BY <1>3, <2>1 DEF IInv, Typed, PhasesOK, ExitIsClean, Configured, Running,
                      vars, process
<1> QED
  BY <1>1, <1>2, <1>3, RequestStep, MalformedStep, CreateStep, StartStep,
     SignalStep, DrainedStep DEF Next

\* The invariant holds in every reachable state.
THEOREM InvHolds == Spec => []IInv
BY InvInit, InvStep, PTL DEF Spec

(* Frames, lines, answers and the state of the process are well formed,    *)
(* for any number of connections and requests.                             *)
THEOREM TypeCorrect == Spec => []TypeOK
<1>1. IInv => TypeOK
  BY InvImplies
<1> QED
  BY <1>1, InvHolds, PTL

(* However the requests of any number of connections interleave, the id of *)
(* an answer and of every line logged for it is that of its request.       *)
THEOREM OwnIds == Spec => []AnswersCarryOwnId
<1>1. IInv => AnswersCarryOwnId
  BY InvImplies
<1> QED
  BY <1>1, InvHolds, PTL

(* A request that is throttled or fails the CSRF check has cost nothing,   *)
(* no handler runs before the guards of its route, and a refused request   *)
(* stores no file.                                                         *)
THEOREM RefusalIsCheap == Spec => []RefusedCostsNothing
<1>1. IInv => RefusedCostsNothing
  BY InvImplies
<1> QED
  BY <1>1, InvHolds, PTL

(* Whatever environment the process is started with: with tokens in        *)
(* cookies, no handler that changes something runs unguarded.              *)
THEOREM CookiesNeedCsrf == Spec => []CookieModeIsGuarded
<1>1. IInv => CookieModeIsGuarded
  BY InvImplies
<1> QED
  BY <1>1, InvHolds, PTL

(* Every answer has its line in the log, as far as LOG_LEVEL lets it.      *)
THEOREM EveryAnswerTraced == Spec => []AnswersAreTraced
<1>1. IInv => AnswersAreTraced
  BY InvImplies
<1> QED
  BY <1>1, InvHolds, PTL

(* Whenever the process exits, after however many signals, nobody waits    *)
(* for an answer and the status tells the truth.                           *)
THEOREM CleanExit == Spec => []ExitIsClean
<1>1. IInv => ExitIsClean
  BY DEF IInv
<1> QED
  BY <1>1, InvHolds, PTL

=============================================================================
