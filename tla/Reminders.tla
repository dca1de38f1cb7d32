----------------------------- MODULE Reminders -----------------------------
(***************************************************************************)
(* The reminder of one appointment.  A confirmation or a reschedule emits  *)
(* an event after its commit; the listener replaces the delayed job, which *)
(* has one name for all the dates of the reservation, and the worker of    *)
(* the communications queue sends the WhatsApp through Conduit when it is  *)
(* due.  Handlers of two events interleave at their awaits, the worker     *)
(* runs one job at a time, answers get lost and processes die.             *)
(***************************************************************************)
EXTENDS Naturals, Sequences

CONSTANTS
  Starts,      \* the dates the appointment may have, of the clock below
  Lead,        \* reminderDays of the rule
  Attempts,    \* attempts of a job
  Horizon,     \* bound: the clock
  MaxEvents,   \* bound: events of the reservation
  MaxFaults,   \* bound: deaths and lost calls
  Serial       \* whether an event comes only after the handler of the last one

VARIABLES
  booking,   \* the row
  listener,  \* the handlers of the events, in the order these were emitted
  jobs,      \* the job reservation-reminder-<id>
  turn,      \* what the worker is doing
  executed,  \* for which dates EXECUTED was recorded, in that order
  inbox,     \* what Conduit sent: the key it was asked with and the date it names
  trouble,
  now

vars == <<booking, listener, jobs, turn, executed, inbox, trouble, now>>

Events == 1 .. MaxEvents
Unqueued == [state |-> "none", start |-> 0, due |-> 0, queuedAt |-> 0, made |-> 0]
Idle == [pc |-> "idle", start |-> 0]

Init ==
  /\ booking \in [status : {"PENDIENTE"}, start : Starts]
  /\ listener = [e \in Events |-> [pc |-> "none", start |-> 0, due |-> 0]]
  /\ jobs = Unqueued
  /\ turn = Idle
  /\ executed = <<>>
  /\ inbox = <<>>
  /\ trouble = [faults |-> 0, missed |-> FALSE]
  /\ now = 0

Quiet == \A e \in Events : listener[e].pc \in {"none", "done"}

Fault == trouble.faults < MaxFaults
Troubled(missed) ==
  trouble' = [faults |-> trouble.faults + 1, missed |-> trouble.missed \/ missed]

-----------------------------------------------------------------------------
(* The reservation *)

Emit(pc, start) ==
  \E e \in Events :
    /\ listener[e].pc = "none"
    /\ \A d \in Events : d < e => listener[d].pc # "none"
    /\ Serial => Quiet
    /\ listener' = [listener EXCEPT ![e].pc = pc, ![e].start = start]

Confirm ==
  /\ booking.status = "PENDIENTE"
  /\ booking' = [booking EXCEPT !.status = "CONFIRMADA"]
  /\ Emit("look", booking.start)
  /\ UNCHANGED <<jobs, turn, executed, inbox, trouble, now>>

Reschedule(start) ==
  /\ booking.status \in {"PENDIENTE", "CONFIRMADA"}
  /\ start > now /\ start # booking.start
  /\ booking' = [booking EXCEPT !.start = start]
  /\ Emit("check", start)
  /\ UNCHANGED <<jobs, turn, executed, inbox, trouble, now>>

\* Cancelled, revived: no reminder is touched.
Cancel ==
  /\ booking.status \in {"PENDIENTE", "CONFIRMADA"}
  /\ booking' = [booking EXCEPT !.status = "CANCELADA"]
  /\ UNCHANGED <<listener, jobs, turn, executed, inbox, trouble, now>>

Revive ==
  /\ booking.status = "CANCELADA"
  /\ booking' = [booking EXCEPT !.status = "PENDIENTE"]
  /\ UNCHANGED <<listener, jobs, turn, executed, inbox, trouble, now>>

-----------------------------------------------------------------------------
(* The listener *)

Step(e, pc) == listener' = [listener EXCEPT ![e].pc = pc]

\* rescheduleReminder: only what is confirmed has a reminder.
Check(e) ==
  /\ listener[e].pc = "check"
  /\ Step(e, IF booking.status = "CONFIRMADA" THEN "look" ELSE "done")
  /\ UNCHANGED <<booking, jobs, turn, executed, inbox, trouble, now>>

\* Variant with a bug: whatever is queued is left alone.
ReplacesNever(state) == FALSE

\* A job that is being sent is left alone.
Replaces(state) == state \notin {"none", "active"}

\* The delay is computed and the previous job is looked at.
Look(e) ==
  LET due == IF listener[e].start > now + Lead THEN listener[e].start - Lead ELSE 0
  IN  /\ listener[e].pc = "look"
      /\ listener' = [listener EXCEPT
                        ![e].due = due,
                        ![e].pc = IF Replaces(jobs.state) THEN "remove"
                                  ELSE IF due = 0 THEN "done" ELSE "add"]
      /\ trouble' = [trouble EXCEPT !.missed = @ \/ jobs.state = "active"]
      /\ UNCHANGED <<booking, jobs, turn, executed, inbox, now>>

\* Removing a job that was taken meanwhile throws, and the handler ends.
Remove(e) ==
  /\ listener[e].pc = "remove"
  /\ IF jobs.state = "active"
       THEN /\ Step(e, "done")
            /\ trouble' = [trouble EXCEPT !.missed = TRUE]
            /\ UNCHANGED jobs
       ELSE /\ Step(e, IF listener[e].due = 0 THEN "done" ELSE "add")
            /\ jobs' = Unqueued
            /\ UNCHANGED trouble
  /\ UNCHANGED <<booking, turn, executed, inbox, now>>

\* A name that BullMQ knows is not added again.
Add(e) ==
  /\ listener[e].pc = "add"
  /\ Step(e, "done")
  /\ IF jobs.state = "none"
       THEN jobs' = [Unqueued EXCEPT !.state = "delayed", !.start = listener[e].start,
                                  !.due = listener[e].due, !.queuedAt = Len(executed)]
       ELSE UNCHANGED jobs
  /\ UNCHANGED <<booking, turn, executed, inbox, trouble, now>>

\* Redis refuses one of the calls, or the process dies.
Lose(e) ==
  /\ listener[e].pc \in {"look", "remove", "add"} /\ Fault
  /\ Step(e, "done") /\ Troubled(TRUE)
  /\ UNCHANGED <<booking, jobs, turn, executed, inbox, now>>

-----------------------------------------------------------------------------
(* The worker *)

Promote ==
  /\ jobs.state = "delayed" /\ jobs.due <= now
  /\ jobs' = [jobs EXCEPT !.state = "waiting"]
  /\ UNCHANGED <<booking, listener, turn, executed, inbox, trouble, now>>

Take ==
  /\ jobs.state = "waiting"
  /\ jobs' = [jobs EXCEPT !.state = "active", !.made = @ + 1]
  /\ turn' = [pc |-> "read", start |-> jobs.start]
  /\ UNCHANGED <<booking, listener, executed, inbox, trouble, now>>

\* Recorded since the job was queued: for another date it may be sent again.
HasExecuted == Len(executed) > jobs.queuedAt

StillWanted ==
  booking.status = "CONFIRMADA" /\ booking.start = jobs.start /\ ~HasExecuted

\* sendReminder reads the row and records SKIPPED or goes on.
Read ==
  /\ turn.pc = "read"
  /\ turn' = [turn EXCEPT !.pc = IF StillWanted THEN "send" ELSE "end"]
  /\ UNCHANGED <<booking, listener, jobs, executed, inbox, trouble, now>>


\* conduitIdempotencyKey: queue and job name, and this job has one name for ever.
Key(job) == 0

\* Conduit answers a key it knows with the message it sent the first time.
Delivered ==
  IF \E i \in DOMAIN inbox : inbox[i].key = Key(jobs) THEN inbox
  ELSE Append(inbox, [key |-> Key(jobs), start |-> turn.start])

Send ==
  /\ turn.pc = "send"
  /\ inbox' = Delivered
  /\ turn' = [turn EXCEPT !.pc = "log"]
  /\ UNCHANGED <<booking, listener, jobs, executed, trouble, now>>

\* A retry waits, the last failure is final.
Retried ==
  IF jobs.made < Attempts THEN [jobs EXCEPT !.state = "delayed", !.due = now + 1]
  ELSE [jobs EXCEPT !.state = "failed"]

\* No answer, whether or not the message was sent.
SendFails ==
  /\ turn.pc = "send" /\ Fault
  /\ inbox' \in {inbox, Delivered}
  /\ jobs' = Retried
  /\ turn' = Idle
  /\ Troubled(FALSE)
  /\ UNCHANGED <<booking, listener, executed, now>>

\* EXECUTED is recorded after the sending, and the job is completed after that.
Log ==
  /\ turn.pc = "log"
  /\ executed' = Append(executed, turn.start)
  /\ turn' = [turn EXCEPT !.pc = "end"]
  /\ UNCHANGED <<booking, listener, jobs, inbox, trouble, now>>

Complete ==
  /\ turn.pc = "end"
  /\ jobs' = [jobs EXCEPT !.state = "completed"]
  /\ turn' = Idle
  /\ UNCHANGED <<booking, listener, executed, inbox, trouble, now>>

\* The process dies, and BullMQ gives the stalled job to another one.
Die ==
  /\ turn # Idle /\ Fault
  /\ jobs' = [jobs EXCEPT !.state = "waiting"]
  /\ turn' = Idle
  /\ Troubled(FALSE)
  /\ UNCHANGED <<booking, listener, executed, inbox, now>>

\* A job that ended is forgotten when enough others ended after it.
Evict ==
  /\ jobs.state \in {"completed", "failed"}
  /\ jobs' = Unqueued
  /\ UNCHANGED <<booking, listener, turn, executed, inbox, trouble, now>>

Tick ==
  /\ now < Horizon
  /\ now' = now + 1
  /\ UNCHANGED <<booking, listener, jobs, turn, executed, inbox, trouble>>

-----------------------------------------------------------------------------

Handle(e) == Check(e) \/ Look(e) \/ Remove(e) \/ Add(e)
Work == Promote \/ Take \/ Read \/ Send \/ Log \/ Complete

Next ==
  \/ Confirm \/ Cancel \/ Revive \/ \E start \in Starts : Reschedule(start)
  \/ \E e \in Events : Handle(e) \/ Lose(e)
  \/ Work \/ SendFails \/ Die \/ Evict \/ Tick

Spec == Init /\ [][Next]_vars

-----------------------------------------------------------------------------
(* Properties *)

TypeOK ==
  /\ booking \in [status : {"PENDIENTE", "CONFIRMADA", "CANCELADA"}, start : Starts]
  /\ \A e \in Events :
       listener[e].pc \in {"none", "check", "look", "remove", "add", "done"}
  /\ jobs.state \in {"none", "delayed", "waiting", "active", "completed", "failed"}
  /\ jobs.state = "active" <=> turn # Idle
  /\ jobs.made \in 0 .. Attempts + MaxFaults
  /\ now \in 0 .. Horizon

\* However often a turn is repeated, because its answer was lost or it died before
\* it recorded what it had sent, and however often the appointment moves there and
\* back, the client is not reminded twice of the same date.
RemindedOnce ==
  \A i, k \in DOMAIN inbox : inbox[i].start = inbox[k].start => i = k

\* Once the handlers are through, an appointment that is confirmed and whose reminder
\* is still to come has a job for its present date, wherever it was moved, cancelled
\* or revived before; unless a handler met its job in the hands of the worker or lost
\* Redis.
ReminderIsSet ==
  /\ Quiet /\ ~trouble.missed
  /\ booking.status = "CONFIRMADA" /\ booking.start > now + Lead
  => jobs.state = "delayed" /\ jobs.start = booking.start

\* What is recorded as EXECUTED was sent: 'Se registra EXECUTED solo tras el envío'
\* (automation-communications.processor.ts).  False: a reminder for a second date has
\* the key of the first, and Conduit answers with the message it sent then.
ExecutedWasSent ==
  \A i \in DOMAIN executed : \E k \in DOMAIN inbox : inbox[k].start = executed[i]

\* No job is due and not done.
NothingDue == jobs.state \in {"none", "completed", "failed"} \/ jobs.due > now
=============================================================================
