------------------------------- MODULE MailQueue -------------------------------
(***************************************************************************)
(* The asynchronous delivery of mail: src/mail/ on a BullMQ queue.         *)
(*                                                                         *)
(* MailProcessor.process is run by BullMQ workers, one job at a time per   *)
(* worker, at least one worker per process of the application.  BullMQ and *)
(* Redis are external: modelled from the options the module registers the  *)
(* queue with.  A job belongs to the worker that holds its lock.  A worker *)
(* may lose the lock while it is still sending (its event loop or Redis    *)
(* was too slow to renew it); it goes on, and its result is refused.       *)
(*                                                                         *)
(* A job is a name, an address and a link; the two names that the program  *)
(* enqueues differ in the template only.  Backoff delays are arbitrary.    *)
(***************************************************************************)
EXTENDS Naturals, FiniteSets

CONSTANTS
    Jobs,       \* the jobs that may be added
    Workers,    \* the workers of all processes
    Attempts,   \* defaultJobOptions.attempts
    MaxStalls,  \* maxStalledCount of the workers
    None        \* "no job", "no worker"

ASSUME WorkersFinite == IsFiniteSet(Workers)
ASSUME NoneIsFresh == None \notin Jobs \cup Workers
ASSUME LimitsAssumption == Attempts \in Nat \ {0} /\ MaxStalls \in Nat

VARIABLES
    job,        \* the jobs in Redis
    worker,     \* what each worker is doing
    accepted    \* history: how often the SMTP server took the job's mail

vars == <<job, worker, accepted>>

Absent == [state |-> "absent", attemptsMade |-> 0, stalled |-> 0, lock |-> None]
Ready  == [at |-> "ready", job |-> None]

Init ==
    /\ job = [j \in Jobs |-> Absent]
    /\ worker = [w \in Workers |-> Ready]
    /\ accepted = [j \in Jobs |-> 0]

-----------------------------------------------------------------------------
Settled(j)  == job[j].state \in {"completed", "failed"}
Orphaned(j) == job[j].state = "active" /\ job[j].lock = None
Holds(w)    == worker[w].job # None /\ job[worker[w].job].lock = w

(* mailQueue.add, by register and forgotPassword                           *)
Add(j) ==
    /\ job[j].state = "absent"
    /\ job' = [job EXCEPT ![j].state = "waiting"]
    /\ UNCHANGED <<worker, accepted>>

Take(w, j) ==
    /\ worker[w] = Ready
    /\ job[j].state = "waiting"
    /\ job' = [job EXCEPT ![j].state = "active", ![j].lock = w]
    /\ worker' = [worker EXCEPT ![w] = [at |-> "sending", job |-> j]]
    /\ UNCHANGED accepted

\* MailService.send: sendMail resolves.
Send(w) ==
    /\ worker[w].at = "sending"
    /\ accepted' = [accepted EXCEPT ![worker[w].job] = @ + 1]
    /\ worker' = [worker EXCEPT ![w].at = "sent"]
    /\ UNCHANGED job

\* Fault: process swallows the error of send.
SendFailsSilently(w) ==
    /\ worker[w].at = "sending"
    /\ worker' = [worker EXCEPT ![w].at = "sent"]
    /\ UNCHANGED <<job, accepted>>

\* sendMail rejects and process rethrows; the server may have taken the mail.
SendFails(w) ==
    /\ worker[w].at = "sending"
    /\ \/ UNCHANGED accepted
       \/ accepted' = [accepted EXCEPT ![worker[w].job] = @ + 1]
    /\ worker' = [worker EXCEPT ![w].at = "threw"]
    /\ UNCHANGED job

\* Fault: a worker that lost its lock settles the job nevertheless.
CompleteAnyway(w) ==
    /\ worker[w].at = "sent"
    /\ job' = [job EXCEPT ![worker[w].job].state = "completed",
                          ![worker[w].job].lock = None]
    /\ worker' = [worker EXCEPT ![w] = Ready]
    /\ UNCHANGED accepted

\* process returned.  Without the lock the result is refused (onError logs).
Complete(w) ==
    /\ worker[w].at = "sent"
    /\ IF Holds(w)
       THEN job' = [job EXCEPT ![worker[w].job].state = "completed",
                               ![worker[w].job].lock = None]
       ELSE UNCHANGED job
    /\ worker' = [worker EXCEPT ![w] = Ready]
    /\ UNCHANGED accepted

\* Fault: one attempt too many.
MayRetryOnceMore(made) == made <= Attempts

\* Another attempt follows unless this was the last one.
MayRetry(made) == made < Attempts

\* process threw (onFailed logs).
Reject(w) ==
    LET j == worker[w].job
        made == job[j].attemptsMade + 1
    IN  /\ worker[w].at = "threw"
        /\ IF Holds(w)
           THEN job' = [job EXCEPT ![j] =
                   [@ EXCEPT !.state = IF MayRetry(made) THEN "delayed" ELSE "failed",
                             !.attemptsMade = made, !.lock = None]]
           ELSE UNCHANGED job
        /\ worker' = [worker EXCEPT ![w] = Ready]
        /\ UNCHANGED accepted

\* The backoff is over.
Promote(j) ==
    /\ job[j].state = "delayed"
    /\ job' = [job EXCEPT ![j].state = "waiting"]
    /\ UNCHANGED <<worker, accepted>>

\* A stalled job is tried again unless it stalled too often.
Stalled(row) ==
    [row EXCEPT !.state = IF row.stalled < MaxStalls THEN "waiting" ELSE "failed",
                !.stalled = @ + 1, !.lock = None]

\* Fault: only jobs whose worker is alive are recovered.
StallHeldOnly(j) ==
    /\ job[j].state = "active" /\ job[j].lock # None
    /\ job' = [job EXCEPT ![j] = Stalled(@)]
    /\ UNCHANGED <<worker, accepted>>

(* The lock of an active job has expired: the worker died or was too slow. *)
Stall(j) ==
    /\ job[j].state = "active"
    /\ job' = [job EXCEPT ![j] = Stalled(@)]
    /\ UNCHANGED <<worker, accepted>>

(* The process dies and is started again.                                  *)
Crash(w) ==
    /\ worker[w] # Ready
    /\ job' = IF Holds(w) THEN [job EXCEPT ![worker[w].job].lock = None] ELSE job
    /\ worker' = [worker EXCEPT ![w] = Ready]
    /\ UNCHANGED accepted

Step(w) == Send(w) \/ SendFails(w) \/ Complete(w) \/ Reject(w)

Next ==
    \/ \E j \in Jobs : Add(j) \/ Promote(j) \/ Stall(j)
    \/ \E w \in Workers, j \in Jobs : Take(w, j)
    \/ \E w \in Workers : Step(w) \/ Crash(w)

(***************************************************************************)
(* Workers poll, an SMTP connection times out, a backoff ends, and a live  *)
(* worker looks for orphaned jobs.  Crashes and late locks are not fair.   *)
(***************************************************************************)
Fairness ==
    /\ WF_vars(\E w \in Workers, j \in Jobs : Take(w, j))
    /\ \A w \in Workers : WF_vars(Step(w))
    /\ \A j \in Jobs : WF_vars(Promote(j)) /\ WF_vars(Orphaned(j) /\ Stall(j))

Spec == Init /\ [][Next]_vars /\ Fairness

-----------------------------------------------------------------------------
States == {"absent", "waiting", "active", "delayed", "completed", "failed"}

\* Every variable has its type; a job has a lock only while it is active.
TypeOK ==
    /\ job \in [Jobs -> [state : States, attemptsMade : 0..Attempts,
                         stalled : 0..(MaxStalls + 1),
                         lock : Workers \cup {None}]]
    /\ worker \in [Workers -> [at : {"ready", "sending", "sent", "threw"},
                               job : Jobs \cup {None}]]
    /\ accepted \in [Jobs -> Nat]
    /\ \A j \in Jobs : job[j].lock # None => job[j].state = "active"

(* Retries are bounded across failures, crashes and lost locks together:   *)
(* nobody receives the same mail more often than Attempts plus MaxStalls.  *)
BoundedDeliveries == \A j \in Jobs : accepted[j] <= Attempts + MaxStalls

(* The outcome of a job is true, although jobs are handed from worker to   *)
(* worker and late results arrive: the queue claims no delivery that did   *)
(* not happen, and gives up only when attempts or stalls are used up.      *)
CompletedWasAccepted ==
    \A j \in Jobs : job[j].state = "completed" => accepted[j] > 0

NoEarlyGivingUp ==
    \A j \in Jobs : job[j].state = "failed" =>
        job[j].attemptsMade = Attempts \/ job[j].stalled > MaxStalls

OutcomeIsTrue == CompletedWasAccepted /\ NoEarlyGivingUp

(* The outcome of a job is final: a worker that lost the job and finishes  *)
(* late neither revives nor settles it a second time.                      *)
OutcomeIsFinal ==
    [][\A j \in Jobs : Settled(j) => job'[j] = job[j]]_vars

(* Every job that was added is delivered or given up for good, wherever    *)
(* sends fail and workers die.                                             *)
EveryJobSettles == \A j \in Jobs : job[j].state = "waiting" ~> Settled(j)

=============================================================================
