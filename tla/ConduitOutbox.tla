--------------------------- MODULE ConduitOutbox ---------------------------
(***************************************************************************)
(* The business events the backend reports to Conduit, the conversation    *)
(* platform: a row per event (the outbox), a BullMQ job that pushes it and *)
(* a sweep that queues again what is still pending after five minutes.  An *)
(* administrator may retry an event by hand.  Jobs are retried with a      *)
(* backoff, workers die, Redis and PostgreSQL refuse a call, and a push    *)
(* may arrive although its answer does not.                                *)
(*                                                                         *)
(* A job is named <<event, n>>: n = 0 is the job named after the event,    *)
(* n > 0 the n-th manual retry, whose name is new each time.               *)
(***************************************************************************)
EXTENDS Integers

CONSTANTS
  Events,
  Workers,      \* worker processes, each with one job at a time
  Attempts,     \* attempts of a job
  MaxStalls,    \* times a job may lose its worker and go on (maxStalledCount)
  MaxRetries,   \* bound: manual retries of one event
  MaxFaults,    \* bound: crashes of workers, failed calls of Redis and PostgreSQL
  NoJob

VARIABLES
  event,       \* the outbox rows
  received,    \* the events Conduit has
  job,         \* BullMQ's record of every job
  worker,
  publishing,  \* events whose publish() has not returned: of enqueue or of the sweep
  admin,       \* the manual retries going on
  faults

outboxVars == <<event, received, job, worker, publishing, admin, faults>>

Jobs == Events \X (0 .. MaxRetries)
EventOf(j) == j[1]

JobStates == {"none", "waiting", "active", "delayed", "completed", "failed"}

Absent == [state |-> "none", made |-> 0, stalls |-> 0]
Free == [pc |-> "idle", job |-> NoJob]

Init ==
  /\ event = [e \in Events |-> [status |-> "ABSENT", stale |-> FALSE, retries |-> 0]]
  /\ received = {}
  /\ job = [j \in Jobs |-> Absent]
  /\ worker = [w \in Workers |-> Free]
  /\ publishing = [e \in Events |-> {}]
  /\ admin = [e \in Events |-> "idle"]
  /\ faults = 0

Fault == faults < MaxFaults /\ faults' = faults + 1

-----------------------------------------------------------------------------
(* Publishing *)

\* enqueue: the row first, then its job.
Enqueue(e) ==
  /\ event[e].status = "ABSENT"
  /\ event' = [event EXCEPT ![e].status = "PENDING"]
  /\ publishing' = [publishing EXCEPT ![e] = @ \cup {"enqueue"}]
  /\ UNCHANGED <<received, job, worker, admin, faults>>

\* The row was created more than OUTBOX_STALE_AFTER_MS ago.
BecomeStale(e) ==
  /\ event[e].status # "ABSENT" /\ ~event[e].stale
  /\ event' = [event EXCEPT ![e].stale = TRUE]
  /\ UNCHANGED <<received, job, worker, publishing, admin, faults>>

\* Variant with a bug: the age is compared the wrong way round.
SweepFresh ==
  LET fresh == {e \in Events : event[e].status = "PENDING" /\ ~event[e].stale}
  IN  /\ \A e \in Events : "sweep" \notin publishing[e]
      /\ fresh # {}
      /\ publishing' = [e \in Events |-> IF e \in fresh THEN publishing[e] \cup {"sweep"}
                                         ELSE publishing[e]]
      /\ UNCHANGED <<event, received, job, worker, admin, faults>>

\* sweepPending reads the stale rows and publishes them one after the other.
Sweep ==
  LET stale == {e \in Events : event[e].status = "PENDING" /\ event[e].stale}
  IN  /\ \A e \in Events : "sweep" \notin publishing[e]
      /\ stale # {}
      /\ publishing' = [e \in Events |-> IF e \in stale THEN publishing[e] \cup {"sweep"}
                                         ELSE publishing[e]]
      /\ UNCHANGED <<event, received, job, worker, admin, faults>>

\* Variant with a bug: the job has no name of its own, so it is always added.
AddedAnyway(e) == [job EXCEPT ![<<e, 0>>] = [Absent EXCEPT !.state = "waiting"]]

\* BullMQ ignores a job whose name it knows, whatever became of it.
Added(e) ==
  IF job[<<e, 0>>].state = "none"
  THEN [job EXCEPT ![<<e, 0>>] = [Absent EXCEPT !.state = "waiting"]]
  ELSE job

Publish(e, by) ==
  /\ by \in publishing[e]
  /\ job' = Added(e)
  /\ publishing' = [publishing EXCEPT ![e] = @ \ {by}]
  /\ UNCHANGED <<event, received, worker, admin, faults>>

\* Redis refuses: enqueue logs it and leaves the row to the sweep, the sweep
\* ends with the events it had left.
PublishFails(e, by) ==
  /\ by \in publishing[e]
  /\ Fault
  /\ publishing' = [d \in Events |->
                      IF by = "sweep" \/ d = e THEN publishing[d] \ {by} ELSE publishing[d]]
  /\ UNCHANGED <<event, received, job, worker, admin>>

-----------------------------------------------------------------------------
(* The manual retry *)

\* The row is read ...
RetryRead(e) ==
  /\ admin[e] = "idle"
  /\ event[e].status \in {"PENDING", "FAILED"}
  /\ event[e].retries < MaxRetries
  /\ admin' = [admin EXCEPT ![e] = "read"]
  /\ event' = [event EXCEPT ![e].retries = @ + 1]
  /\ UNCHANGED <<received, job, worker, publishing, faults>>

\* ... made pending again ...
RetryReset(e) ==
  /\ admin[e] = "read"
  /\ event' = [event EXCEPT ![e].status = "PENDING"]
  /\ admin' = [admin EXCEPT ![e] = "reset"]
  /\ UNCHANGED <<received, job, worker, publishing, faults>>

\* ... and given a job with a new name, unless Redis refuses it.
RetryAdd(e) ==
  /\ admin[e] = "reset"
  /\ admin' = [admin EXCEPT ![e] = "idle"]
  /\ \/ /\ job' = [job EXCEPT ![<<e, event[e].retries>>].state = "waiting"]
        /\ UNCHANGED faults
     \/ Fault /\ UNCHANGED job
  /\ UNCHANGED <<event, received, worker, publishing>>

-----------------------------------------------------------------------------
(* The processor *)

\* A worker takes a job and reads its event; one that was sent is done with.
Take(w, j) ==
  /\ worker[w].pc = "idle"
  /\ job[j].state = "waiting"
  /\ IF event[EventOf(j)].status = "SENT"
     THEN /\ job' = [job EXCEPT ![j].state = "completed"]
          /\ UNCHANGED worker
     ELSE /\ job' = [job EXCEPT ![j].state = "active"]
          /\ worker' = [worker EXCEPT ![w] = [pc |-> "push", job |-> j]]
  /\ UNCHANGED <<event, received, publishing, admin, faults>>

\* The push arrives.
Received(w) ==
  /\ worker[w].pc = "push"
  /\ received' = received \cup {EventOf(worker[w].job)}
  /\ worker' = [worker EXCEPT ![w].pc = "answer"]
  /\ UNCHANGED <<event, job, publishing, admin, faults>>

\* Variant with a bug: a refusal of Conduit is not an error.
PushedUnchecked(w) == worker[w].pc \in {"push", "answer"}

Pushed(w) == worker[w].pc = "answer"

\* markSent, after which the job is complete.
MarkSent(w) ==
  /\ Pushed(w)
  /\ event' = [event EXCEPT ![EventOf(worker[w].job)].status = "SENT"]
  /\ job' = [job EXCEPT ![worker[w].job].state = "completed"]
  /\ worker' = [worker EXCEPT ![w] = Free]
  /\ UNCHANGED <<received, publishing, admin, faults>>

\* The push is refused, is not answered in time or meets an open circuit; or
\* PostgreSQL fails where the row is to be marked.
AttemptFails(w) ==
  /\ worker[w].pc \in {"push", "answer"}
  /\ LET j == worker[w].job
         made == job[j].made + 1
     IN  IF made < Attempts
         THEN /\ job' = [job EXCEPT ![j].made = made, ![j].state = "delayed"]
              /\ worker' = [worker EXCEPT ![w] = Free]
         ELSE /\ job' = [job EXCEPT ![j].made = made, ![j].state = "failed"]
              /\ worker' = [worker EXCEPT ![w].pc = "failed"]
  /\ UNCHANGED <<event, received, publishing, admin, faults>>

\* onFailed, after the last attempt; nothing repeats it if PostgreSQL fails.
MarkFailed(w) ==
  /\ worker[w].pc = "failed"
  /\ \/ /\ event' = [event EXCEPT ![EventOf(worker[w].job)].status = "FAILED"]
        /\ UNCHANGED faults
     \/ Fault /\ UNCHANGED event
  /\ worker' = [worker EXCEPT ![w] = Free]
  /\ UNCHANGED <<received, job, publishing, admin>>

-----------------------------------------------------------------------------
(* BullMQ and the faults *)

\* The backoff is over.
Promote(j) ==
  /\ job[j].state = "delayed"
  /\ job' = [job EXCEPT ![j].state = "waiting"]
  /\ UNCHANGED <<event, received, worker, publishing, admin, faults>>

\* A worker dies; its job stays active until it is found stalled.
Crash(w) ==
  /\ worker[w].pc # "idle"
  /\ Fault
  /\ worker' = [worker EXCEPT ![w] = Free]
  /\ UNCHANGED <<event, received, job, publishing, admin>>

\* A job without a worker goes back, or fails for good with no attempt made: the
\* listener of that failure does not touch the row.
Stalled(j) ==
  /\ job[j].state = "active"
  /\ \A w \in Workers : worker[w].job # j
  /\ job' = [job EXCEPT ![j].state = IF @ = "active" /\ job[j].stalls < MaxStalls
                                     THEN "waiting" ELSE "failed",
                        ![j].stalls = IF @ < MaxStalls THEN @ + 1 ELSE @]
  /\ UNCHANGED <<event, received, worker, publishing, admin, faults>>

\* Finished jobs are kept by number (removeOnComplete, removeOnFail): the oldest
\* give way to new ones.
Evict(j) ==
  /\ job[j].state \in {"completed", "failed"}
  /\ \A w \in Workers : worker[w].job # j
  /\ job' = [job EXCEPT ![j] = Absent]
  /\ UNCHANGED <<event, received, worker, publishing, admin, faults>>

-----------------------------------------------------------------------------

PublishEnds(e, by) == Publish(e, by) \/ PublishFails(e, by)

RetryStep(e) == RetryReset(e) \/ RetryAdd(e)

Attempt(w) == Received(w) \/ MarkSent(w) \/ AttemptFails(w) \/ MarkFailed(w)

Next ==
  \/ \E e \in Events :
       \/ Enqueue(e) \/ BecomeStale(e)
       \/ RetryRead(e) \/ RetryStep(e)
       \/ \E by \in {"enqueue", "sweep"} : PublishEnds(e, by)
  \/ Sweep
  \/ \E w \in Workers :
       \/ \E j \in Jobs : Take(w, j)
       \/ Attempt(w) \/ Crash(w)
  \/ \E j \in Jobs : Promote(j) \/ Stalled(j) \/ Evict(j)

Spec == Init /\ [][Next]_outboxVars

-----------------------------------------------------------------------------
(* Properties *)

TypeOK ==
  /\ event \in [Events -> [status : {"ABSENT", "PENDING", "SENT", "FAILED"},
                           stale : BOOLEAN, retries : 0 .. MaxRetries]]
  /\ received \subseteq Events
  /\ job \in [Jobs -> [state : JobStates, made : 0 .. Attempts, stalls : 0 .. MaxStalls]]
  /\ worker \in [Workers -> [pc : {"idle", "push", "answer", "failed"},
                             job : Jobs \cup {NoJob}]]
  /\ publishing \in [Events -> SUBSET {"enqueue", "sweep"}]
  /\ admin \in [Events -> {"idle", "read", "reset"}]
  /\ faults \in 0 .. MaxFaults

\* An event marked as sent did reach Conduit, whatever attempts, workers and
\* manual retries crossed on the way (process, markSent).
SentWasReceived == \A e \in Events : event[e].status = "SENT" => e \in received

\* Until a person asks for another job, an event has one worker at a time: the
\* sweep may publish an event that is being pushed or waits for its next attempt
\* (outboxJobId).
OneWorkerPerEvent ==
  \A e \in Events : event[e].retries = 0 =>
    \A v, w \in Workers : worker[v].job = <<e, 0>> /\ worker[w].job = <<e, 0>> => v = w

\* The verdict on a sent event stands: no attempt that ends later takes it back,
\* unless a person asked for another one (the updates name only the event).
VerdictStands ==
  \A e \in Events : event[e].status = "SENT" /\ event[e].retries = 0
                       => event'[e].status = "SENT"

\* No event waits for a verdict, except behind a job that BullMQ keeps as failed:
\* onFailed could not write it, or the worker died before it or twice in one job.
\* Then the sweep publishes in vain (outboxJobId) and a person has to ask for the
\* retry.
NothingUndecided ==
  \A e \in Events :
    \/ event[e].status # "PENDING"
    \/ job[<<e, 0>>].state = "failed" /\ faults > 0
    \/ event[e].retries > 0

-----------------------------------------------------------------------------
(* What workers and administrators know between their steps *)

OutboxBounds ==
  /\ Attempts \in Nat \ {0} /\ MaxRetries \in Nat /\ MaxStalls \in Nat
  /\ MaxFaults \in Nat /\ NoJob \notin Jobs

\* A job has at most one worker, which has it active or has just failed it for good,
\* and no attempts are made after the last.
WorkerHolds(w) ==
  LET j == worker[w].job
  IN  /\ worker[w].pc = "idle" <=> j = NoJob
      /\ worker[w].pc \in {"push", "answer"} => job[j].state = "active"
      /\ worker[w].pc = "failed" => job[j].state = "failed"
      /\ worker[w].pc = "answer" => EventOf(j) \in received
      /\ j # NoJob => \A v \in Workers : worker[v].job = j => v = w

JobHolds(j) ==
  /\ job[j].state \in {"waiting", "active", "delayed"} => job[j].made < Attempts
  /\ job[j].state = "none" => job[j].made = 0

\* A manual retry counts before its job is added, under a name that was never used.
RetryIsNew(e) ==
  /\ \A n \in 0 .. MaxRetries : n > event[e].retries => job[<<e, n>>].state = "none"
  /\ admin[e] # "idle" =>
       event[e].retries > 0 /\ job[<<e, event[e].retries>>].state = "none"

\* Nobody pushes an event that was sent, unless a person asked for another job.
SentIsLeft(e) ==
  event[e].status = "SENT" =>
    /\ e \in received
    /\ event[e].retries = 0 => \A w \in Workers : worker[w].job # <<e, 0>>

Deliveries ==
  /\ TypeOK
  /\ \A w \in Workers : WorkerHolds(w)
  /\ \A j \in Jobs : JobHolds(j)
  /\ \A e \in Events : RetryIsNew(e) /\ SentIsLeft(e)
=============================================================================
