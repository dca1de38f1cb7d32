------------------------------ MODULE Notices ------------------------------
(***************************************************************************)
(* The operational notices of a booking: what clients and administrators   *)
(* are told, by WhatsApp and by mail, of confirmations, cancellations,     *)
(* reschedules and rejected deposits.  An operation commits, its events    *)
(* are emitted, the listener queues a job per notice and recipient, and    *)
(* the worker of the communications queue reads the rows again, skips what *)
(* no longer applies, sends through Conduit and records.  Jobs have names  *)
(* that the queue remembers, calls of Redis and Conduit fail, turns die.   *)
(***************************************************************************)
EXTENDS Naturals, SequencesExt

CONSTANTS
  Group,      \* the reservations of the booking, one or a combo
  Admins,     \* recipients; all have a mail address
  Offered,    \* the operations of the instance
  Attempts,   \* attempts of a job
  MaxEvents,  \* bound: operations
  MaxFaults   \* bound: failures and deaths

VARIABLES
  booking,   \* the rows; owed is what the client should have been told last
  listener,  \* handlers of events with the notices they still have to queue
  jobs,      \* by name
  turn,
  inbox,     \* what Conduit sent, in that order
  settings,  \* the recipients that are active, and the operations so far
  trouble

vars == <<booking, listener, jobs, turn, inbox, settings, trouble>>

Idle == [pc |-> "idle", id |-> <<>>, about |-> {}]

Init ==
  /\ booking = [r \in Group |-> [status |-> "PENDIENTE", source |-> "NINGUNA",
                                 owed |-> "nothing"]]
  /\ listener = {}
  /\ jobs = <<>>
  /\ turn = Idle
  /\ inbox = <<>>
  /\ settings = [active |-> Admins, round |-> 0]
  /\ trouble = [faults |-> 0, lost |-> FALSE]

Fault == trouble.faults < MaxFaults
Troubled(lost) ==
  trouble' = [faults |-> trouble.faults + 1, lost |-> trouble.lost \/ lost]

-----------------------------------------------------------------------------
(* Operations and their events *)

Live(r) == booking[r].status \in {"PENDIENTE", "CONFIRMADA"}

\* An operation writes the rows and emits events; each has a handler with its notices.
Operate(op, rows, events) ==
  /\ op \in Offered /\ settings.round < MaxEvents
  /\ settings' = [settings EXCEPT !.round = @ + 1]
  /\ booking' = [r \in Group |-> IF r \in DOMAIN rows THEN rows[r] ELSE booking[r]]
  /\ listener' = listener \cup {[round |-> settings.round, left |-> e] : e \in events}
  /\ UNCHANGED <<jobs, turn, inbox, trouble>>

Notice(kind, id, about, to) ==
  [kind |-> kind, id |-> id, about |-> about, to |-> to]

\* enqueueForAdmins, one after the other.
ForAdmins(kind, id, about, admins) ==
  LET one == SetToSeq(admins)
  IN  [i \in DOMAIN one |-> Notice(kind, Append(id, one[i]), about, one[i])]

Row(status, source, owed) == [status |-> status, source |-> source, owed |-> owed]

Confirm ==
  LET pending == {r \in Group : booking[r].status = "PENDIENTE"}
  IN  /\ pending # {}
      /\ Operate("confirm",
           [r \in pending |-> Row("CONFIRMADA", "NINGUNA", "confirmed")],
           {<<Notice("confirmed", <<"client-confirmed">>, {r}, "client")>> : r \in pending})

\* The worker cancels the group, also what was confirmed while it was late.
CancelByTimeout ==
  LET late == {r \in Group : Live(r)}
  IN  /\ late # {}
      /\ Operate("timeout",
           [r \in late |-> Row("CANCELADA", "TIMEOUT", "nothing")],
           {ForAdmins("timedOut", <<"admin-timeout">>, {r}, settings.active) : r \in late})

\* Without a reason the client is not told.
CancelByAdmin(r) ==
  /\ Live(r)
  /\ \E reason \in BOOLEAN :
       Operate("adminCancel",
         [q \in {r} |-> Row("CANCELADA", "ADMIN", IF reason THEN "cancelledByAdmin" ELSE "nothing")],
         IF reason
         THEN {<<Notice("cancelledByAdmin", <<"client-cancelled", {r}>>, {r}, "client")>>}
         ELSE {})

CancelByClient ==
  LET mine == {r \in Group : Live(r)}
  IN  /\ mine # {}
      /\ Operate("clientCancel",
           [r \in mine |-> Row("CANCELADA", "CLIENT", "cancelledByClient")],
           {<<Notice("cancelledByClient", <<"client-cancelled", mine>>, mine, "client")>>
              \o ForAdmins("adminCancelled", <<"admin-client-cancelled", mine>>, mine,
                           settings.active)})

\* Jobs without a name of their own get one from BullMQ: the operation tells them apart.
Reschedule(r) ==
  /\ Live(r)
  /\ \E notify \in BOOLEAN :
       Operate("reschedule", [q \in {} |-> booking[r]],
         {(IF notify
           THEN <<Notice("rescheduled", <<"rescheduled", settings.round>>, {r}, "client")>>
           ELSE <<>>)
          \o ForAdmins("adminRescheduled", <<"admin-rescheduled", settings.round>>, {r},
                       settings.active)})

\* Of a deposit that was rejected while the reservation waits for one, or no longer.
Reject(r) ==
  Operate("reject", [q \in {} |-> booking[r]],
    {<<Notice(IF booking[r].status = "PENDIENTE" THEN "rejectedWithDeadline" ELSE "rejected",
              <<"rejected", settings.round>>, {r}, "client")>>})

RequestLink(r) ==
  /\ Live(r)
  /\ Operate("link", [q \in {} |-> booking[r]],
       {<<Notice("link", <<"link", settings.round>>, {r}, "client")>>})

Handoff ==
  Operate("handoff", [q \in {} |-> 0],
    {ForAdmins("handoff", <<"admin-handoff", settings.round>>, {}, settings.active)})

\* Only what was cancelled for its deadline, and the whole group.
Revive ==
  /\ \A r \in Group : booking[r].status = "CANCELADA" /\ booking[r].source = "TIMEOUT"
  /\ Operate("revive", [r \in Group |-> Row("PENDIENTE", "NINGUNA", "nothing")], {})

Deactivate(a) ==
  /\ "deactivate" \in Offered /\ a \in settings.active
  /\ settings' = [settings EXCEPT !.active = @ \ {a}]
  /\ UNCHANGED <<booking, listener, jobs, turn, inbox, trouble>>

-----------------------------------------------------------------------------
(* The listener *)

\* The first notice of a handler is queued; BullMQ ignores a name that it knows.
Enqueue(l) ==
  /\ l.left # <<>>
  /\ LET n == Head(l.left)
     IN  IF n.id \in DOMAIN jobs
         THEN /\ UNCHANGED jobs
              /\ trouble' = [trouble EXCEPT !.lost = @ \/ jobs[n.id].round # l.round]
         ELSE /\ jobs' = [id \in DOMAIN jobs \cup {n.id} |->
                            IF id = n.id
                            THEN [notice |-> n, state |-> "waiting", made |-> 0,
                                  round |-> l.round]
                            ELSE jobs[id]]
              /\ UNCHANGED trouble
  /\ listener' = (listener \ {l}) \cup {[l EXCEPT !.left = Tail(@)]}
  /\ UNCHANGED <<booking, turn, inbox, settings>>

\* A call of Redis that fails for one administrator leaves the others, one that fails
\* for the client ends the handler.
EnqueueFails(l) ==
  /\ l.left # <<>> /\ Fault
  /\ listener' = (listener \ {l}) \cup
       {[l EXCEPT !.left = IF Head(@).to = "client" THEN <<>> ELSE Tail(@)]}
  /\ Troubled(TRUE)
  /\ UNCHANGED <<booking, jobs, turn, inbox, settings>>

-----------------------------------------------------------------------------
(* What still applies when it is read *)

Cancelled(S, source) ==
  {r \in S : booking[r].status = "CANCELADA" /\ booking[r].source = source}

TimeoutApplies(S) == Cancelled(Group, "TIMEOUT")

ConfirmationApplies(S) == {r \in Group : booking[r].status = "CONFIRMADA"}

AdminCancellationApplies(S) == {r \in S : booking[r].status = "CANCELADA"}

ClientCancellationApplies(S) == Cancelled(S, "CLIENT")

DeadlineApplies(S) == {r \in S : booking[r].status = "PENDIENTE"}

RescheduleApplies(S) == {r \in S : Live(r)}

LinkApplies(S) == {r \in S : Live(r)}

\* The reservations a notice is still about.
Applies(n) ==
  CASE n.kind = "timedOut" -> TimeoutApplies(n.about)
    [] n.kind = "confirmed" -> ConfirmationApplies(n.about)
    [] n.kind = "cancelledByAdmin" -> AdminCancellationApplies(n.about)
    [] n.kind \in {"cancelledByClient", "adminCancelled"} -> ClientCancellationApplies(n.about)
    [] n.kind = "rejectedWithDeadline" -> DeadlineApplies(n.about)
    [] n.kind \in {"rescheduled", "adminRescheduled"} -> RescheduleApplies(n.about)
    [] n.kind = "link" -> LinkApplies(n.about)
    [] OTHER -> n.about

Wanted(n) ==
  /\ n.to # "client" => n.to \in settings.active
  /\ n.kind # "handoff" => Applies(n) # {}

-----------------------------------------------------------------------------
(* The worker *)

Job == jobs[turn.id]
Put(id, field, value) == [jobs EXCEPT ![id][field] = value]

Take(id) ==
  /\ turn = Idle /\ jobs[id].state = "waiting"
  /\ jobs' = [jobs EXCEPT ![id].state = "active", ![id].made = @ + 1]
  /\ turn' = [pc |-> "read", id |-> id, about |-> {}]
  /\ UNCHANGED <<booking, listener, inbox, settings, trouble>>

\* Variant with a bug: the notice is sent as it was queued.
ReadNothing ==
  /\ turn.pc = "read"
  /\ turn' = [turn EXCEPT !.about = Job.notice.about, !.pc = "send"]
  /\ UNCHANGED <<booking, listener, jobs, inbox, settings, trouble>>

\* Recipient and rows are read again, and SKIPPED is recorded or the turn goes on.
Read ==
  /\ turn.pc = "read"
  /\ turn' = [turn EXCEPT !.about = Applies(Job.notice),
                          !.pc = IF Wanted(Job.notice) THEN "send" ELSE "end"]
  /\ UNCHANGED <<booking, listener, jobs, inbox, settings, trouble>>

Channel == IF turn.pc = "mail" THEN "EMAIL" ELSE "WHATSAPP"


\* The name of the job, the template and the channel.
Key == <<turn.id, Job.notice.kind, Channel>>

\* Conduit does not send a key again.
Delivered ==
  IF \E i \in DOMAIN inbox : inbox[i].key = Key THEN inbox
  ELSE Append(inbox, [key |-> Key, kind |-> Job.notice.kind, to |-> Job.notice.to,
                      about |-> turn.about, round |-> Job.round, channel |-> Channel])

\* An old message of the same key stands for this one.
Stale == \E i \in DOMAIN inbox : inbox[i].key = Key /\ inbox[i].round # Job.round

\* WhatsApp first, then the mail of an administrator.
Send ==
  /\ turn.pc \in {"send", "mail"}
  /\ inbox' = Delivered
  /\ trouble' = [trouble EXCEPT !.lost = @ \/ Stale]
  /\ turn' = [turn EXCEPT !.pc = IF turn.pc = "send" /\ Job.notice.to # "client"
                                 THEN "mail" ELSE "end"]
  /\ UNCHANGED <<booking, listener, jobs, settings>>

\* No answer: all of the notice is tried again, or was for the last time.
SendFails ==
  LET again == Job.made < Attempts IN
  /\ turn.pc \in {"send", "mail"} /\ Fault
  /\ inbox' \in {inbox, Delivered}
  /\ jobs' = Put(turn.id, "state", IF again THEN "waiting" ELSE "failed")
  /\ Troubled(~again)
  /\ turn' = Idle
  /\ UNCHANGED <<booking, listener, settings>>

\* Conduit refuses the message, or no template is known because they could not be
\* read: the notice is given up; a mail that is refused is only logged.
SendRefused ==
  /\ turn.pc \in {"send", "mail"} /\ Fault
  /\ Troubled(turn.pc = "send")
  /\ IF turn.pc = "send"
       THEN jobs' = Put(turn.id, "state", "failed") /\ turn' = Idle
       ELSE turn' = [turn EXCEPT !.pc = "end"] /\ UNCHANGED jobs
  /\ UNCHANGED <<booking, listener, inbox, settings>>

\* EXECUTED or SKIPPED is recorded, and the job is completed.
End ==
  /\ turn.pc = "end"
  /\ jobs' = Put(turn.id, "state", "completed")
  /\ turn' = Idle
  /\ UNCHANGED <<booking, listener, inbox, settings, trouble>>

\* The process dies, and BullMQ gives the stalled job to another one.
Die ==
  /\ turn # Idle /\ Fault
  /\ jobs' = Put(turn.id, "state", "waiting")
  /\ turn' = Idle
  /\ Troubled(FALSE)
  /\ UNCHANGED <<booking, listener, inbox, settings>>

\* A completed job is forgotten after a day, a failed one after a week.
Forget(id) ==
  /\ jobs[id].state \in {"completed", "failed"}
  /\ "forget" \in Offered
  /\ jobs' = [other \in DOMAIN jobs \ {id} |-> jobs[other]]
  /\ UNCHANGED <<booking, listener, turn, inbox, settings, trouble>>

-----------------------------------------------------------------------------

Operations ==
  \/ Confirm \/ CancelByTimeout \/ CancelByClient \/ Revive \/ Handoff
  \/ \E r \in Group :
       CancelByAdmin(r) \/ Reschedule(r) \/ Reject(r) \/ RequestLink(r)
  \/ \E a \in Admins : Deactivate(a)

Handle == \E l \in listener : Enqueue(l)
Work == (\E id \in DOMAIN jobs : Take(id)) \/ Read \/ Send \/ End
Failures ==
  \/ \E l \in listener : EnqueueFails(l)
  \/ SendFails \/ SendRefused \/ Die
  \/ \E id \in DOMAIN jobs : Forget(id)

Next == Operations \/ Handle \/ Work \/ Failures

Spec == Init /\ [][Next]_vars

-----------------------------------------------------------------------------
(* Properties *)

TypeOK ==
  /\ \A r \in Group : booking[r].status \in {"PENDIENTE", "CONFIRMADA", "CANCELADA"}
  /\ \A id \in DOMAIN jobs :
       /\ jobs[id].notice.id = id
       /\ jobs[id].state \in {"waiting", "active", "completed", "failed"}
       /\ jobs[id].state = "active" <=> turn # Idle /\ turn.id = id
  /\ turn.pc \in {"idle", "read", "send", "mail", "end"}
  /\ settings.active \subseteq Admins

\* A turn that is repeated, for lost answers or deaths, even when only the mail failed,
\* tells nobody the same thing twice on one channel.
ToldOnce ==
  \A i, k \in DOMAIN inbox :
    /\ inbox[i].kind = inbox[k].kind /\ inbox[i].to = inbox[k].to
    /\ inbox[i].channel = inbox[k].channel /\ inbox[i].round = inbox[k].round
    => i = k

StatusKinds == {"confirmed", "cancelledByAdmin", "cancelledByClient"}

\* The last message to the client that says what became of r.
LastWord(r) ==
  LET about == {i \in DOMAIN inbox : inbox[i].kind \in StatusKinds /\ r \in inbox[i].about}
  IN  IF about = {} THEN "nothing"
      ELSE inbox[CHOOSE i \in about : \A k \in about : k <= i].kind

NothingWaits ==
  /\ \A l \in listener : l.left = <<>>
  /\ \A id \in DOMAIN jobs : jobs[id].state \in {"completed", "failed"}

\* When all notices are through, the last thing the client was told of an appointment
\* is what became of it, although notices are retried and overtake each other, a
\* confirmation is told while it is being cancelled, and one message tells of all the
\* reservations of a combo; unless a notice was given up or met the name of an older
\* one that the queue or Conduit remembers.
LastWordIsTrue ==
  NothingWaits /\ ~trouble.lost =>
    \A r \in Group : booking[r].owed # "nothing" => LastWord(r) = booking[r].owed

-----------------------------------------------------------------------------
(* Why the last word is true: from the operation that owes it to the message, *)
(* something is about to tell of it.                                          *)

Cancellations == {"cancelledByAdmin", "cancelledByClient"}

\* What a client is owed agrees with the rows.
OwedIsTrue ==
  \A r \in Group :
    /\ booking[r].owed \in {"nothing", "confirmed"} \cup Cancellations
    /\ booking[r].owed = "confirmed" <=> booking[r].status = "CONFIRMADA"
    /\ booking[r].owed \in Cancellations =>
         /\ booking[r].status = "CANCELADA"
         /\ booking[r].source = IF booking[r].owed = "cancelledByAdmin" THEN "ADMIN" ELSE "CLIENT"

\* A notice that says what became of reservations has a name that says which.
WellMade(n) ==
  /\ n.id[1] = "client-confirmed" <=> n.kind = "confirmed"
  /\ n.id[1] = "client-cancelled" <=> n.kind \in Cancellations
  /\ n.kind = "confirmed" => n.id = <<"client-confirmed">> /\ n.to = "client"
  /\ n.kind \in Cancellations =>
       /\ n.id = <<"client-cancelled", n.about>> /\ n.to = "client"
       /\ n.about \subseteq Group /\ \A r \in n.about : booking[r].owed = n.kind

\* A cancellation is final: no confirmation is told after it.
WellSent ==
  \A i \in DOMAIN inbox : inbox[i].kind \in Cancellations =>
    /\ inbox[i].key[1] = <<"client-cancelled", inbox[i].about>>
    /\ inbox[i].about \subseteq Group
    /\ \A r \in inbox[i].about : booking[r].owed = inbox[i].kind
    /\ \A k \in DOMAIN inbox :
         i < k /\ inbox[k].kind = "confirmed" => inbox[i].about \cap inbox[k].about = {}

TurnTells ==
  /\ turn.pc = "send" /\ Job.notice.kind \in Cancellations => turn.about = Job.notice.about
  /\ turn.pc = "send" /\ Job.notice.kind = "confirmed" =>
       \A i \in DOMAIN inbox :
         inbox[i].kind \in Cancellations => inbox[i].about \cap turn.about = {}
  /\ turn.pc = "mail" => Job.notice.to # "client"

Truthful ==
  /\ OwedIsTrue /\ WellSent /\ TurnTells
  /\ \A l \in listener : \A i \in DOMAIN l.left : WellMade(l.left[i])
  /\ \A id \in DOMAIN jobs : /\ WellMade(jobs[id].notice)
                            /\ jobs[id].state \in {"waiting", "active", "completed", "failed"}
  /\ trouble = [faults |-> trouble.faults, lost |-> trouble.lost]

Told(r) ==
  \E i \in DOMAIN inbox : inbox[i].kind = booking[r].owed /\ r \in inbox[i].about

\* A notice of an operation tells what is owed of r.  One of a confirmation tells of all that
\* is confirmed when it is read, if it is the last one; last is the number of operations up
\* to that.
Tells(n, round, r, last) ==
  /\ n.kind = booking[r].owed
  /\ IF n.kind = "confirmed" THEN round + 1 = last
     ELSE n.kind \in Cancellations /\ r \in n.about

Promised(r, last) ==
  \/ Told(r)
  \/ \E l \in listener : \E i \in DOMAIN l.left : Tells(l.left[i], l.round, r, last)
  \/ \E id \in DOMAIN jobs : /\ jobs[id].state \in {"waiting", "active"}
                            /\ Tells(jobs[id].notice, jobs[id].round, r, last)

Promises(last) ==
  /\ \A r \in Group : booking[r].owed # "nothing" => Promised(r, last)
  /\ \A id \in DOMAIN jobs, r \in Group :
       jobs[id].state = "completed" /\ Tells(jobs[id].notice, jobs[id].round, r, last) => Told(r)
  /\ \A id \in DOMAIN jobs : jobs[id].state # "failed"
  /\ turn.pc \in {"send", "end"} =>
       \A r \in Group : Tells(Job.notice, Job.round, r, last) =>
         IF turn.pc = "send" THEN r \in turn.about ELSE Told(r)
  /\ \A i \in DOMAIN inbox, r \in Group :
       /\ inbox[i].kind = "confirmed" /\ inbox[i].round + 1 = last
       /\ booking[r].owed = "confirmed"
       => r \in inbox[i].about

NothingIsForgotten ==
  Truthful /\ (~trouble.lost => \E last \in 0 .. settings.round : Promises(last))
=============================================================================
