---------------------------- MODULE MailQueueProofs ----------------------------
(***************************************************************************)
(* Proofs about MailQueue for any number of jobs, workers, attempts and    *)
(* stalls.                                                                 *)
(*                                                                         *)
(* BoundedDeliveries is not inductive: it does not know of the workers     *)
(* that are still sending, those included that have lost their job.  The   *)
(* invariant counts them and compares with how often the job was taken: an *)
(* attempt or a stall has ended every taking but the one under way.        *)
(***************************************************************************)
EXTENDS MailQueue, FiniteSetTheorems, TLAPS

Sending(j) == {w \in Workers : worker[w].at = "sending" /\ worker[w].job = j}

Takes(row) == row.attemptsMade + row.stalled
              + (IF row.state \in {"active", "completed"} THEN 1 ELSE 0)

Row  == [state : States, attemptsMade : 0..Attempts,
         stalled : 0..(MaxStalls + 1), lock : Workers \cup {None}]
Busy == [at : {"ready", "sending", "sent", "threw"}, job : Jobs \cup {None}]

\* What the counters of a job say of its state.
WithinLimits(row) ==
    /\ row.lock # None => row.state = "active"
    /\ row.state = "failed" =>
          \/ row.attemptsMade = Attempts /\ row.stalled <= MaxStalls
          \/ row.attemptsMade < Attempts /\ row.stalled = MaxStalls + 1
    /\ row.state # "failed" =>
          row.attemptsMade < Attempts /\ row.stalled <= MaxStalls

IInv ==
    /\ job \in [Jobs -> Row]
    /\ worker \in [Workers -> Busy]
    /\ accepted \in [Jobs -> Nat]
    /\ \A j \in Jobs : WithinLimits(job[j])
    /\ \A w \in Workers : worker[w].at = "ready" <=> worker[w].job = None
    /\ \A j \in Jobs : job[j].lock # None => worker[job[j].lock].job = j
    /\ \A j \in Jobs : accepted[j] + Cardinality(Sending(j)) <= Takes(job[j])
    /\ \A w \in Workers : worker[w].at = "sent" => accepted[worker[w].job] > 0
    /\ CompletedWasAccepted

\* The workers that send a job are finitely many.
LEMMA SendingCounted ==
    ASSUME NEW j \in Jobs
    PROVE  IsFiniteSet(Sending(j)) /\ Cardinality(Sending(j)) \in Nat
<1>1. Sending(j) \subseteq Workers
  BY DEF Sending
<1> QED
  BY <1>1, WorkersFinite, FS_Subset, FS_CardinalityType

\* The invariant holds initially.
LEMMA InvInit == Init => IInv
<1> SUFFICES ASSUME Init PROVE IInv
  OBVIOUS
<1>1. \A j \in Jobs : Sending(j) = {}
  BY NoneIsFresh DEF Init, Sending, Ready
<1>2. \A j \in Jobs : Cardinality(Sending(j)) = 0
  BY <1>1, FS_EmptySet
<1>3. \A j \in Jobs : accepted[j] + Cardinality(Sending(j)) <= Takes(job[j])
  BY <1>2, LimitsAssumption DEF Init, Absent, Takes
<1> QED
  BY <1>3, NoneIsFresh, LimitsAssumption
  DEF Init, IInv, Absent, Ready, Row, Busy, States, WithinLimits, CompletedWasAccepted

(* A worker that starts to send, and one that stops or never was sending,  *)
(* change the count of no other job.                                       *)
LEMMA StartsSending ==
    ASSUME worker \in [Workers -> Busy], NEW w \in Workers, NEW j \in Jobs,
           worker[w].at = "ready",
           worker' = [worker EXCEPT ![w] = [at |-> "sending", job |-> j]]
    PROVE  /\ Cardinality(Sending(j)') = Cardinality(Sending(j)) + 1
           /\ \A i \in Jobs \ {j} : Sending(i)' = Sending(i)
<1>1. Sending(j)' = Sending(j) \cup {w} /\ w \notin Sending(j)
  BY DEF Sending
<1>2. \A i \in Jobs \ {j} : Sending(i)' = Sending(i)
  BY DEF Sending
<1>3. Cardinality(Sending(j) \cup {w}) = Cardinality(Sending(j)) + 1
  BY <1>1, SendingCounted, FS_AddElement
<1> QED
  BY <1>1, <1>2, <1>3

\* A worker that stops sending a job is one less.
LEMMA StopsSending ==
    ASSUME NEW w \in Workers, NEW j \in Jobs,
           worker[w].at = "sending", worker[w].job = j,
           worker'[w].at # "sending",
           \A v \in Workers \ {w} : worker'[v] = worker[v]
    PROVE  /\ Cardinality(Sending(j)') = Cardinality(Sending(j)) - 1
           /\ \A i \in Jobs \ {j} : Sending(i)' = Sending(i)
<1>1. Sending(j)' = Sending(j) \ {w} /\ w \in Sending(j)
  BY DEF Sending
<1>2. \A i \in Jobs \ {j} : Sending(i)' = Sending(i)
  BY DEF Sending
<1>3. Cardinality(Sending(j) \ {w}) = Cardinality(Sending(j)) - 1
  BY <1>1, SendingCounted, FS_RemoveElement
<1> QED
  BY <1>1, <1>2, <1>3

\* A worker that did not send and does not begin to leaves the senders alone.
LEMMA NeverSent ==
    ASSUME worker \in [Workers -> Busy], NEW w \in Workers, NEW x,
           worker' = [worker EXCEPT ![w] = x], x.at # "sending",
           worker[w].at # "sending"
    PROVE  \A i \in Jobs : Sending(i)' = Sending(i)
BY DEF Sending

\* Every step preserves the invariant.
LEMMA InvStep == IInv /\ [Next]_vars => IInv'
<1> SUFFICES ASSUME IInv, [Next]_vars
             PROVE  IInv'
  OBVIOUS
<1> USE NoneIsFresh, LimitsAssumption
<1>1. ASSUME NEW j \in Jobs, Add(j) PROVE IInv'
  <2>1. /\ \A i \in Jobs : Sending(i)' = Sending(i)
        /\ UNCHANGED <<worker, accepted>>
    BY <1>1 DEF Add, Sending
  <2>2. job[j].state = "absent" /\ job' = [job EXCEPT ![j].state = "waiting"]
    BY <1>1 DEF Add
  <2>3. job' \in [Jobs -> Row]
    BY <2>2 DEF IInv, Row, States
  <2>4. \A i \in Jobs : WithinLimits(job'[i]) /\ job'[i].lock = job[i].lock
    BY <2>2 DEF IInv, WithinLimits, Row
  <2>5. \A i \in Jobs : Takes(job'[i]) = Takes(job[i])
    BY <2>2 DEF IInv, Takes, Row
  <2>6. \A i \in Jobs : job'[i].state = "completed" => job[i].state = "completed"
    BY <2>2 DEF IInv
  <2> QED
    BY <2>1, <2>3, <2>4, <2>5, <2>6 DEF IInv, CompletedWasAccepted
<1>2. ASSUME NEW j \in Jobs, Promote(j) PROVE IInv'
  <2>1. /\ \A i \in Jobs : Sending(i)' = Sending(i)
        /\ UNCHANGED <<worker, accepted>>
    BY <1>2 DEF Promote, Sending
  <2>2. job[j].state = "delayed" /\ job' = [job EXCEPT ![j].state = "waiting"]
    BY <1>2 DEF Promote
  <2>3. job' \in [Jobs -> Row]
    BY <2>2 DEF IInv, Row, States
  <2>4. \A i \in Jobs : WithinLimits(job'[i]) /\ job'[i].lock = job[i].lock
    BY <2>2 DEF IInv, WithinLimits, Row
  <2>5. \A i \in Jobs : Takes(job'[i]) = Takes(job[i])
    BY <2>2 DEF IInv, Takes, Row
  <2>6. \A i \in Jobs : job'[i].state = "completed" => job[i].state = "completed"
    BY <2>2 DEF IInv
  <2> QED
    BY <2>1, <2>3, <2>4, <2>5, <2>6 DEF IInv, CompletedWasAccepted
<1>3. ASSUME NEW j \in Jobs, Stall(j) PROVE IInv'
  <2>1. /\ \A i \in Jobs : Sending(i)' = Sending(i)
        /\ UNCHANGED <<worker, accepted>>
    BY <1>3 DEF Stall, Sending
  <2>2. /\ job[j].state = "active"
        /\ job' = [job EXCEPT ![j] = Stalled(job[j])]
    BY <1>3 DEF Stall
  <2>3. job[j] \in Row /\ WithinLimits(job[j])
    BY DEF IInv
  <2>4. /\ Stalled(job[j]) \in Row
        /\ WithinLimits(Stalled(job[j]))
        /\ Takes(Stalled(job[j])) = Takes(job[j])
        /\ Stalled(job[j]).lock = None
        /\ Stalled(job[j]).state # "completed"
    <3> DEFINE state == IF job[j].stalled < MaxStalls THEN "waiting" ELSE "failed"
               next  == [job[j] EXCEPT !.state = state, !.stalled = @ + 1,
                                       !.lock = None]
    <3>0. Stalled(job[j]) = next /\ state \in States
      BY DEF Stalled, States
    <3> HIDE DEF state
    <3>1. /\ next.state = state /\ next.attemptsMade = job[j].attemptsMade
          /\ next.stalled = job[j].stalled + 1 /\ next.lock = None
      BY <2>3 DEF Row
    <3>2. job[j].attemptsMade < Attempts /\ job[j].stalled <= MaxStalls
      BY <2>2, <2>3 DEF WithinLimits
    <3>3. job[j].attemptsMade \in 0..Attempts /\ job[j].stalled \in 0..(MaxStalls + 1)
      BY <2>3 DEF Row
    <3>4. next \in Row
      <4>1. state \in States /\ job[j].stalled + 1 \in 0..(MaxStalls + 1)
        BY <3>0, <3>2, <3>3
      <4> QED
        BY <2>3, <4>1 DEF Row
    <3> HIDE DEF next
    <3>5. WithinLimits(Stalled(job[j]))
      BY <3>0, <3>1, <3>2, <3>3 DEF WithinLimits, state
    <3>6. Takes(Stalled(job[j])) = Takes(job[j])
      BY <2>2, <3>0, <3>1, <3>3 DEF Takes, state
    <3> QED
      BY <3>0, <3>1, <3>4, <3>5, <3>6 DEF state
  <2>5. \A i \in Jobs :
           /\ WithinLimits(job'[i])
           /\ job'[i].lock = None \/ job'[i].lock = job[i].lock
           /\ Takes(job'[i]) = Takes(job[i])
           /\ job'[i].state = "completed" => job[i].state = "completed"
    BY <2>2, <2>4 DEF IInv
  <2>6. job' \in [Jobs -> Row]
    BY <2>2, <2>4 DEF IInv
  <2> QED
    BY <2>1, <2>5, <2>6 DEF IInv, CompletedWasAccepted
<1>4. ASSUME NEW w \in Workers, NEW j \in Jobs, Take(w, j) PROVE IInv'
  <2>1. /\ worker[w].at = "ready" /\ job[j].state = "waiting"
        /\ job' = [job EXCEPT ![j].state = "active", ![j].lock = w]
        /\ worker' = [worker EXCEPT ![w] = [at |-> "sending", job |-> j]]
        /\ accepted' = accepted
    BY <1>4 DEF Take, Ready
  <2>2. /\ Cardinality(Sending(j)') = Cardinality(Sending(j)) + 1
        /\ \A i \in Jobs \ {j} : Sending(i)' = Sending(i)
    BY <2>1, StartsSending DEF IInv
  <2>3. worker' \in [Workers -> Busy]
    BY <2>1 DEF IInv, Busy
  <2>4. job' \in [Jobs -> Row]
    BY <2>1 DEF IInv, Row, States
  <2>5. \A i \in Jobs : WithinLimits(job'[i])
    BY <2>1 DEF IInv, Row, WithinLimits
  <2>6. Takes(job'[j]) = Takes(job[j]) + 1
    BY <2>1 DEF IInv, Row, Takes
  <2>7. \A i \in Jobs \ {j} : job'[i] = job[i]
    BY <2>1 DEF IInv
  <2>8. \A i \in Jobs :
           accepted'[i] + Cardinality(Sending(i)') <= Takes(job'[i])
    <3>1. accepted[j] + Cardinality(Sending(j)) <= Takes(job[j])
      BY DEF IInv
    <3>2. accepted[j] \in Nat /\ Takes(job[j]) \in Nat
      BY DEF IInv, Row, Takes
    <3>3. accepted'[j] + Cardinality(Sending(j)') <= Takes(job'[j])
      BY <2>1, <2>2, <2>6, <3>1, <3>2, SendingCounted
    <3> QED
      BY <2>1, <2>2, <2>7, <3>3 DEF IInv
  \* The worker was ready, so it holds no other job.
  <2>9. \A i \in Jobs : job'[i].lock # None => worker'[job'[i].lock].job = i
    <3>1. job'[j].lock = w /\ worker'[w].job = j
      BY <2>1 DEF IInv, Row
    <3>2. \A i \in Jobs \ {j} : job[i].lock # None =>
             worker[job[i].lock].job = i /\ job[i].lock # w
      BY <2>1 DEF IInv, Row
    <3> QED
      BY <2>1, <2>7, <3>1, <3>2 DEF IInv, Row
  <2>10. \A v \in Workers : worker'[v].at = "ready" <=> worker'[v].job = None
    BY <2>1 DEF IInv
  <2>11. \A v \in Workers :
            worker'[v].at = "sent" => accepted'[worker'[v].job] > 0
    BY <2>1 DEF IInv
  <2>12. CompletedWasAccepted'
    BY <2>1 DEF IInv, CompletedWasAccepted
  <2> QED
    BY <2>1, <2>3, <2>4, <2>5, <2>8, <2>9, <2>10, <2>11, <2>12 DEF IInv
<1>5. ASSUME NEW w \in Workers, Send(w) PROVE IInv'
  <2>2. PICK j \in Jobs : worker[w].job = j
    BY <1>5 DEF Send, IInv, Busy
  <2>1. /\ worker[w].at = "sending"
        /\ worker' = [worker EXCEPT ![w].at = "sent"]
        /\ accepted' = [accepted EXCEPT ![j] = @ + 1]
        /\ job' = job
    BY <1>5, <2>2 DEF Send
  <2>3. /\ worker' \in [Workers -> Busy]
        /\ \A v \in Workers : worker'[v].job = worker[v].job
    BY <2>1, <2>2 DEF IInv, Busy
  <2>4. /\ Cardinality(Sending(j)') = Cardinality(Sending(j)) - 1
        /\ \A i \in Jobs \ {j} : Sending(i)' = Sending(i)
    <3>1. /\ worker'[w].at # "sending"
          /\ \A v \in Workers \ {w} : worker'[v] = worker[v]
      BY <2>1 DEF IInv, Busy
    <3> QED
      BY <2>1, <2>2, <3>1, StopsSending
  <2>5. /\ accepted' \in [Jobs -> Nat]
        /\ accepted'[j] = accepted[j] + 1
        /\ \A i \in Jobs \ {j} : accepted'[i] = accepted[i]
    BY <2>1, <2>2 DEF IInv
  <2>6. \A i \in Jobs :
           accepted'[i] + Cardinality(Sending(i)') <= Takes(job'[i])
    <3>1. /\ accepted[j] + Cardinality(Sending(j)) <= Takes(job[j])
          /\ accepted[j] \in Nat
      BY <2>2 DEF IInv
    <3>2. accepted'[j] + Cardinality(Sending(j)') = accepted[j] + Cardinality(Sending(j))
      BY <2>2, <2>4, <2>5, <3>1, SendingCounted
    <3> QED
      BY <2>1, <2>4, <2>5, <3>1, <3>2 DEF IInv
  <2>7. \A v \in Workers :
           worker'[v].at = "sent" => accepted'[worker'[v].job] > 0
    <3>1. \A v \in Workers : worker[v].at = "sent" => worker[v].job \in Jobs
      BY DEF IInv, Busy
    <3>2. accepted'[j] > 0
      BY <2>2, <2>5 DEF IInv
    <3> QED
      BY <2>1, <2>2, <2>5, <3>1, <3>2 DEF IInv
  <2>8. \A i \in Jobs : job'[i].lock # None => worker'[job'[i].lock].job = i
    BY <2>1, <2>3 DEF IInv, Row
  <2>9. \A v \in Workers : worker'[v].at = "ready" <=> worker'[v].job = None
    BY <2>1, <2>3 DEF IInv
  <2>10. CompletedWasAccepted'
    BY <2>1, <2>5 DEF IInv, CompletedWasAccepted
  <2> QED
    BY <2>1, <2>3, <2>5, <2>6, <2>7, <2>8, <2>9, <2>10 DEF IInv
<1>6. ASSUME NEW w \in Workers, SendFails(w) PROVE IInv'
  <2>2. PICK j \in Jobs : worker[w].job = j
    BY <1>6 DEF SendFails, IInv, Busy
  <2>1. /\ worker[w].at = "sending"
        /\ worker' = [worker EXCEPT ![w].at = "threw"]
        /\ accepted' = accepted \/ accepted' = [accepted EXCEPT ![j] = @ + 1]
        /\ job' = job
    BY <1>6, <2>2 DEF SendFails
  <2>3. /\ worker' \in [Workers -> Busy]
        /\ \A v \in Workers : worker'[v].job = worker[v].job
    BY <2>1, <2>2 DEF IInv, Busy
  <2>4. /\ Cardinality(Sending(j)') = Cardinality(Sending(j)) - 1
        /\ \A i \in Jobs \ {j} : Sending(i)' = Sending(i)
    <3>1. /\ worker'[w].at # "sending"
          /\ \A v \in Workers \ {w} : worker'[v] = worker[v]
      BY <2>1 DEF IInv, Busy
    <3> QED
      BY <2>1, <2>2, <3>1, StopsSending
  <2>5. /\ accepted' \in [Jobs -> Nat]
        /\ accepted'[j] \in {accepted[j], accepted[j] + 1}
        /\ \A i \in Jobs \ {j} : accepted'[i] = accepted[i]
    BY <2>1, <2>2 DEF IInv
  <2>6. \A i \in Jobs :
           accepted'[i] + Cardinality(Sending(i)') <= Takes(job'[i])
    <3>1. /\ accepted[j] + Cardinality(Sending(j)) <= Takes(job[j])
          /\ accepted[j] \in Nat /\ Takes(job[j]) \in Nat
      BY <2>2 DEF IInv, Takes, Row
    <3>2. accepted'[j] + Cardinality(Sending(j)') <= Takes(job[j])
      BY <2>2, <2>4, <2>5, <3>1, SendingCounted
    <3> QED
      BY <2>1, <2>4, <2>5, <3>2 DEF IInv
  <2>7. \A i \in Jobs : accepted[i] > 0 => accepted'[i] > 0
    BY <2>2, <2>5 DEF IInv
  <2>8. \A v \in Workers :
           worker'[v].at = "sent" => accepted'[worker'[v].job] > 0
    <3>1. \A v \in Workers : worker'[v].at = "sent" =>
             worker[v].at = "sent" /\ worker[v].job \in Jobs
      BY <2>1 DEF IInv, Busy
    <3> QED
      BY <2>3, <2>7, <3>1 DEF IInv
  <2>9. \A i \in Jobs : job'[i].lock # None => worker'[job'[i].lock].job = i
    BY <2>1, <2>3 DEF IInv, Row
  <2>10. \A v \in Workers : worker'[v].at = "ready" <=> worker'[v].job = None
    BY <2>1, <2>3 DEF IInv
  <2>11. CompletedWasAccepted'
    BY <2>1, <2>7 DEF IInv, CompletedWasAccepted
  <2> QED
    BY <2>1, <2>3, <2>5, <2>6, <2>8, <2>9, <2>10, <2>11 DEF IInv
<1>7. ASSUME NEW w \in Workers, Complete(w) PROVE IInv'
  <2>2. PICK j \in Jobs : worker[w].job = j
    BY <1>7 DEF Complete, IInv, Busy
  <2>1. /\ worker[w].at = "sent" /\ accepted' = accepted
        /\ worker' = [worker EXCEPT ![w] = Ready]
        /\ IF Holds(w) THEN job' = [job EXCEPT ![j].state = "completed",
                                               ![j].lock = None]
                       ELSE job' = job
    BY <1>7, <2>2 DEF Complete
  <2>3. /\ \A i \in Jobs : Sending(i)' = Sending(i)
        /\ worker' \in [Workers -> Busy]
        /\ \A v \in Workers : worker'[v].at = "ready" <=> worker'[v].job = None
    <3>1. Ready.at # "sending" /\ worker[w].at # "sending"
      BY <2>1 DEF Ready
    <3>2. \A i \in Jobs : Sending(i)' = Sending(i)
      BY <2>1, <3>1, NeverSent DEF IInv
    <3> QED
      BY <2>1, <3>2 DEF IInv, Busy, Ready
  <2>4. \A v \in Workers :
           worker'[v].at = "sent" => accepted'[worker'[v].job] > 0
    BY <2>1 DEF IInv, Ready
  <2>5. CASE Holds(w)
    <3>1. /\ job[j].lock = w /\ job[j].state = "active"
          /\ job' = [job EXCEPT ![j] =
                [job[j] EXCEPT !.state = "completed", !.lock = None]]
      BY <2>1, <2>2, <2>5 DEF Holds, IInv, WithinLimits, Row
    <3>2. job' \in [Jobs -> Row]
      <4>1. job[j] \in Row
        BY DEF IInv
      <4>2. [job[j] EXCEPT !.state = "completed", !.lock = None] \in Row
        BY <4>1 DEF Row, States
      <4> QED
        BY <3>1, <4>2 DEF IInv
    <3>3. \A i \in Jobs : WithinLimits(job'[i]) /\ Takes(job'[i]) = Takes(job[i])
      BY <3>1, <2>2 DEF IInv, Row, WithinLimits, Takes
    <3>4. \A i \in Jobs : job'[i].lock # None => worker'[job'[i].lock].job = i
      BY <2>1, <2>2, <3>1 DEF IInv, Row
    <3>5. CompletedWasAccepted'
      BY <2>1, <2>2, <3>1 DEF IInv, CompletedWasAccepted
    <3> QED
      BY <2>1, <2>3, <2>4, <3>2, <3>3, <3>4, <3>5 DEF IInv
  <2>6. CASE ~Holds(w)
    <3>1. job' = job /\ job[j].lock # w
      BY <2>1, <2>2, <2>6, j # None DEF Holds
    <3>2. \A i \in Jobs : job'[i].lock # None => worker'[job'[i].lock].job = i
      BY <2>1, <2>2, <3>1 DEF IInv, Row
    <3> QED
      BY <2>1, <2>3, <2>4, <3>1, <3>2 DEF IInv, CompletedWasAccepted
  <2> QED
    BY <2>5, <2>6
<1>8. ASSUME NEW w \in Workers, Reject(w) PROVE IInv'
  <2>2. PICK j \in Jobs : worker[w].job = j
    BY <1>8 DEF Reject, IInv, Busy
  <2> DEFINE made == job[j].attemptsMade + 1
             state == IF MayRetry(made) THEN "delayed" ELSE "failed"
             next == [job[j] EXCEPT !.state = state, !.attemptsMade = made,
                                    !.lock = None]
  <2>1. /\ worker[w].at = "threw" /\ accepted' = accepted
        /\ worker' = [worker EXCEPT ![w] = Ready]
        /\ IF Holds(w) THEN job' = [job EXCEPT ![j] = next] ELSE job' = job
    BY <1>8, <2>2 DEF Reject
  <2>3. /\ \A i \in Jobs : Sending(i)' = Sending(i)
        /\ worker' \in [Workers -> Busy]
        /\ \A v \in Workers : worker'[v].at = "ready" <=> worker'[v].job = None
    <3>1. Ready.at # "sending" /\ worker[w].at # "sending"
      BY <2>1 DEF Ready
    <3>2. \A i \in Jobs : Sending(i)' = Sending(i)
      BY <2>1, <3>1, NeverSent DEF IInv
    <3> QED
      BY <2>1, <3>2 DEF IInv, Busy, Ready
  <2>4. \A v \in Workers :
           worker'[v].at = "sent" => accepted'[worker'[v].job] > 0
    BY <2>1 DEF IInv, Ready
  <2>5. CASE Holds(w)
    <3>1. /\ job[j].lock = w /\ job[j].state = "active"
          /\ job[j].attemptsMade < Attempts /\ job[j].stalled <= MaxStalls
          /\ job[j] \in Row
      BY <2>2, <2>5 DEF Holds, IInv, WithinLimits
    <3>2. /\ next \in Row /\ WithinLimits(next)
          /\ Takes(next) = Takes(job[j])
          /\ next.lock = None /\ next.state # "completed"
      <4>0. state = IF made < Attempts THEN "delayed" ELSE "failed"
        BY DEF MayRetry
      <4> HIDE DEF state
      <4>1. /\ next.state = state /\ next.attemptsMade = made
            /\ next.stalled = job[j].stalled /\ next.lock = None
        BY <3>1 DEF Row
      <4>2. made \in 1..Attempts /\ job[j].stalled \in 0..MaxStalls
        BY <3>1 DEF Row
      <4>3. next \in Row
        <5>1. state \in States /\ made \in 0..Attempts
          BY <4>0, <4>2 DEF States
        <5> QED
          BY <3>1, <5>1 DEF Row
      <4> HIDE DEF next
      <4>4. WithinLimits(next)
        BY <4>0, <4>1, <4>2 DEF WithinLimits
      <4>5. Takes(next) = Takes(job[j])
        BY <3>1, <4>0, <4>1, <4>2 DEF Takes, Row
      <4> QED
        BY <4>0, <4>1, <4>3, <4>4, <4>5
    <3>3. job' = [job EXCEPT ![j] = next]
      BY <2>1, <2>5
    <3> HIDE DEF next
    <3>4. /\ job' \in [Jobs -> Row]
          /\ \A i \in Jobs : WithinLimits(job'[i]) /\ Takes(job'[i]) = Takes(job[i])
      BY <2>2, <3>2, <3>3 DEF IInv
    <3>5. \A i \in Jobs : job'[i].lock # None => worker'[job'[i].lock].job = i
      BY <2>1, <2>2, <3>2, <3>3 DEF IInv, Row
    <3>6. CompletedWasAccepted'
      BY <2>1, <2>2, <3>2, <3>3 DEF IInv, CompletedWasAccepted
    <3> QED
      BY <2>1, <2>3, <2>4, <3>4, <3>5, <3>6 DEF IInv
  <2>6. CASE ~Holds(w)
    <3>1. job' = job /\ job[j].lock # w
      BY <2>1, <2>2, <2>6, j # None DEF Holds
    <3>2. \A i \in Jobs : job'[i].lock # None => worker'[job'[i].lock].job = i
      BY <2>1, <2>2, <3>1 DEF IInv, Row
    <3> QED
      BY <2>1, <2>3, <2>4, <3>1, <3>2 DEF IInv, CompletedWasAccepted
  <2> QED
    BY <2>5, <2>6
<1>9. ASSUME NEW w \in Workers, Crash(w) PROVE IInv'
  <2>2. PICK j \in Jobs : worker[w].job = j
    BY <1>9 DEF Crash, IInv, Busy, Ready
  <2>1. /\ worker[w] # Ready /\ accepted' = accepted
        /\ worker' = [worker EXCEPT ![w] = Ready]
        /\ job' = IF Holds(w) THEN [job EXCEPT ![j].lock = None] ELSE job
    BY <1>9, <2>2 DEF Crash
  <2>3. /\ worker' \in [Workers -> Busy]
        /\ \A v \in Workers : worker'[v].at = "ready" <=> worker'[v].job = None
        /\ \A v \in Workers :
              worker'[v].at = "sent" => accepted'[worker'[v].job] > 0
    BY <2>1 DEF IInv, Busy, Ready
  <2>4. \A i \in Jobs : Cardinality(Sending(i)') <= Cardinality(Sending(i))
                        /\ Cardinality(Sending(i)') \in Nat
    <3>1. \A i \in Jobs : Sending(i)' \subseteq Sending(i)
      BY <2>1 DEF IInv, Busy, Ready, Sending
    <3> QED
      BY <3>1, SendingCounted, FS_Subset, FS_CardinalityType
  <2>5. /\ job' \in [Jobs -> Row]
        /\ \A i \in Jobs : WithinLimits(job'[i]) /\ Takes(job'[i]) = Takes(job[i])
        /\ \A i \in Jobs : job'[i].state = job[i].state
    BY <2>1, <2>2 DEF IInv, Row, WithinLimits, Takes
  <2>6. \A i \in Jobs : job'[i].lock # None =>
           job'[i].lock # w /\ job'[i].lock = job[i].lock
    BY <2>1, <2>2 DEF Holds, IInv, Row
  <2>7. \A i \in Jobs : job'[i].lock # None => worker'[job'[i].lock].job = i
    BY <2>1, <2>6 DEF IInv, Row
  <2>8. \A i \in Jobs :
           accepted'[i] + Cardinality(Sending(i)') <= Takes(job'[i])
    <3> SUFFICES ASSUME NEW i \in Jobs
                 PROVE  accepted[i] + Cardinality(Sending(i)') <= Takes(job[i])
      BY <2>1, <2>5
    <3>1. /\ accepted[i] + Cardinality(Sending(i)) <= Takes(job[i])
          /\ accepted[i] \in Nat /\ Takes(job[i]) \in Nat
      BY DEF IInv, Takes, Row
    <3> QED
      BY <2>4, <3>1, SendingCounted
  <2>9. CompletedWasAccepted'
    BY <2>1, <2>5 DEF IInv, CompletedWasAccepted
  <2> QED
    BY <2>1, <2>3, <2>5, <2>7, <2>8, <2>9 DEF IInv
<1>10. CASE UNCHANGED vars
  BY <1>10 DEF vars, IInv, Sending, CompletedWasAccepted
<1> QED
  BY <1>1, <1>2, <1>3, <1>4, <1>5, <1>6, <1>7, <1>8, <1>9, <1>10 DEF Next, Step

\* The invariant holds in every reachable state.
LEMMA Invariance == Spec => []IInv
BY InvInit, InvStep, PTL DEF Spec

(* Types hold, and only an active job is locked.                           *)
THEOREM MailQueueTypeCorrect == Spec => []TypeOK
<1>1. IInv => TypeOK
  BY DEF IInv, TypeOK, Row, Busy, WithinLimits
<1> QED
  BY <1>1, Invariance, PTL

(* Whatever fails, dies or comes late, in any number of processes, nobody  *)
(* receives the same mail more often than Attempts plus MaxStalls.         *)
THEOREM DeliveriesAreBounded == Spec => []BoundedDeliveries
<1>1. ASSUME IInv, NEW j \in Jobs PROVE accepted[j] <= Attempts + MaxStalls
  <2>1. /\ accepted[j] + Cardinality(Sending(j)) <= Takes(job[j])
        /\ accepted[j] \in Nat /\ job[j] \in Row /\ WithinLimits(job[j])
    BY <1>1 DEF IInv
  <2>2. Takes(job[j]) <= Attempts + MaxStalls /\ Takes(job[j]) \in Nat
    BY <2>1, LimitsAssumption DEF Takes, WithinLimits, Row
  <2> QED
    BY <2>1, <2>2, SendingCounted, LimitsAssumption
<1>2. IInv => BoundedDeliveries
  BY <1>1 DEF BoundedDeliveries
<1> QED
  BY <1>2, Invariance, PTL

(* A job is complete only if the SMTP server has accepted its mail, and    *)
(* fails only when its attempts or its stalls are used up.                 *)
THEOREM OutcomesAreTrue == Spec => []OutcomeIsTrue
<1>1. IInv => CompletedWasAccepted
  BY DEF IInv
<1>2. IInv => NoEarlyGivingUp
  BY LimitsAssumption DEF IInv, NoEarlyGivingUp, WithinLimits, Row
<1>3. IInv => OutcomeIsTrue
  BY <1>1, <1>2 DEF OutcomeIsTrue
<1> QED
  BY <1>3, Invariance, PTL

(* A late worker neither revives a settled job nor settles it again.       *)
THEOREM OutcomesAreFinal == Spec => OutcomeIsFinal
<1>1. ASSUME IInv, [Next]_vars, NEW j \in Jobs, Settled(j)
      PROVE  job'[j] = job[j]
  <2>1. job[j].state \in {"completed", "failed"} /\ job[j].lock = None
    BY <1>1 DEF Settled, IInv, WithinLimits
  <2>2. ASSUME NEW i \in Jobs, Add(i) \/ Promote(i) \/ Stall(i)
        PROVE  job'[j] = job[j]
    BY <2>1, <2>2, <1>1 DEF Add, Promote, Stall, IInv
  <2>3. ASSUME NEW w \in Workers, NEW i \in Jobs, Take(w, i)
        PROVE  job'[j] = job[j]
    BY <2>1, <2>3, <1>1 DEF Take, IInv
  \* A worker that holds a job holds another one.
  <2>4. \A w \in Workers : Holds(w) => worker[w].job # j
    BY <2>1, NoneIsFresh DEF Holds
  <2>5. ASSUME NEW w \in Workers, Step(w) \/ Crash(w)
        PROVE  job'[j] = job[j]
    BY <2>4, <2>5, <1>1
    DEF Step, Send, SendFails, Complete, Reject, Crash, IInv
  <2>6. CASE UNCHANGED vars
    BY <2>6 DEF vars
  <2> QED
    BY <2>2, <2>3, <2>5, <2>6, <1>1 DEF Next
<1>2. IInv /\ [Next]_vars =>
         [\A j \in Jobs : Settled(j) => job'[j] = job[j]]_vars
  BY <1>1
<1> QED
  BY <1>2, Invariance, PTL DEF Spec, OutcomeIsFinal

=============================================================================
