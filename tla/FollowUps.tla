----------------------------- MODULE FollowUps -----------------------------
(***************************************************************************)
(* The messages that invite a client back some days after a visit.  The    *)
(* completion of a reservation queues a delayed job for every rule that    *)
(* applies; when it is due the worker of the communications queue reads    *)
(* whether the rule still holds and whether the client came back, was      *)
(* written to already or refused marketing, sends and records.             *)
(*                                                                         *)
(* All reservations are of one client and one treatment.                   *)
(***************************************************************************)
EXTENDS Naturals, Sequences

CONSTANTS
  Visits,        \* reservations
  Rules,
  TreatmentRules,  \* those that name the treatment, the others its category
  Promoted,      \* those whose template speaks of a promotion
  Days,          \* reactivationDays, of the clock below
  Day, From, To, \* a day, and the part of it in which jobs are due
  Cooldown,      \* days between two marketing messages to a client
  Attempts,
  Horizon,       \* bound: the clock
  MaxChanges,    \* bound: what administrators, the client and campaigns do
  MaxFaults      \* bound: deaths and lost calls

VARIABLES
  booking,   \* the reservations
  listener,  \* the handler of the completion of each
  jobs,      \* by reservation and rule
  turn,
  executed,  \* the executions recorded as EXECUTED
  inbox,     \* what Conduit sent
  settings,  \* what the turn reads besides
  trouble,
  now

vars == <<booking, listener, jobs, turn, executed, inbox, settings, trouble, now>>

Unqueued == [state |-> "none", due |-> 0, made |-> 0]
Idle == [pc |-> "idle", job |-> <<>>]

Init ==
  /\ booking \in [Visits -> {[status |-> "ABSENT", start |-> 0, completed |-> 0],
                             [status |-> "CONFIRMADA", start |-> 1, completed |-> 0]}]
  /\ listener = [v \in Visits |-> [pc |-> "none", rules |-> {}]]
  /\ jobs = [j \in Visits \X Rules |-> Unqueued]
  /\ turn = Idle
  /\ executed = {}
  /\ inbox = <<>>
  /\ settings = [active |-> Rules, consent |-> TRUE, promotion |-> TRUE,
                 contacted |-> {}, changes |-> 0]
  /\ trouble = [faults |-> 0]
  /\ now = 1

Fault == trouble.faults < MaxFaults /\ trouble' = [faults |-> trouble.faults + 1]

-----------------------------------------------------------------------------
(* The spa *)

Book(v, start) ==
  /\ booking[v].status = "ABSENT" /\ start >= now
  /\ booking' = [booking EXCEPT ![v].status = "CONFIRMADA", ![v].start = start]
  /\ UNCHANGED <<listener, jobs, turn, executed, inbox, settings, trouble, now>>

CallOff(v) ==
  /\ booking[v].status = "CONFIRMADA"
  /\ booking' = [booking EXCEPT ![v].status = "CANCELADA"]
  /\ UNCHANGED <<listener, jobs, turn, executed, inbox, settings, trouble, now>>

\* A client who comes early may be done before the hour of her appointment.
Complete(v) ==
  /\ booking[v].status = "CONFIRMADA" /\ booking[v].start <= now + 1
  /\ booking' = [booking EXCEPT ![v].status = "COMPLETADA", ![v].completed = now]
  /\ listener' = [listener EXCEPT ![v].pc = "read"]
  /\ UNCHANGED <<jobs, turn, executed, inbox, settings, trouble, now>>

\* A rule is switched off, a promotion ends, the client refuses marketing or the
\* runner of a campaign writes to her.
Change ==
  /\ settings.changes < MaxChanges
  /\ LET changed == [settings EXCEPT !.changes = @ + 1]
     IN  \/ \E r \in settings.active :
              settings' = [changed EXCEPT !.active = @ \ {r}]
         \/ settings' = [changed EXCEPT !.promotion = FALSE]
         \/ settings' = [changed EXCEPT !.consent = FALSE]
         \/ settings' = [changed EXCEPT !.contacted = {now}]
  /\ UNCHANGED <<booking, listener, jobs, turn, executed, inbox, trouble, now>>

-----------------------------------------------------------------------------
(* The listener *)

\* Rules of the treatment come before those of its category.
ApplicableRules ==
  LET own == settings.active \cap TreatmentRules
  IN  IF own # {} THEN own ELSE settings.active \ TreatmentRules

FindRules(v) ==
  /\ listener[v].pc = "read"
  /\ listener' = [listener EXCEPT ![v] = [pc |-> "add", rules |-> ApplicableRules]]
  /\ UNCHANGED <<booking, jobs, turn, executed, inbox, settings, trouble, now>>

\* alignToDaytime: a moment outside the part of the day waits for the next one.
Aligned(at) ==
  LET minute == at % Day
  IN  IF From <= minute /\ minute < To THEN at
      ELSE IF minute < From THEN at + From - minute
      ELSE at + Day - minute + From

QueueCheck(v, r) ==
  /\ listener[v].pc = "add" /\ r \in listener[v].rules
  /\ listener' = [listener EXCEPT ![v].rules = @ \ {r}]
  /\ jobs' = [jobs EXCEPT ![<<v, r>>].state = "delayed",
                          ![<<v, r>>].due = Aligned(now + Days[r])]
  /\ UNCHANGED <<booking, turn, executed, inbox, settings, trouble, now>>

\* Redis refuses, or the process dies: the rules that are left are not queued.
Lose(v) ==
  /\ listener[v].pc = "read" \/ listener[v].rules # {}
  /\ Fault
  /\ listener' = [listener EXCEPT ![v] = [pc |-> "add", rules |-> {}]]
  /\ UNCHANGED <<booking, jobs, turn, executed, inbox, settings, now>>

-----------------------------------------------------------------------------
(* The worker *)

Promote(j) ==
  /\ jobs[j].state = "delayed" /\ jobs[j].due <= now
  /\ jobs' = [jobs EXCEPT ![j].state = "waiting"]
  /\ UNCHANGED <<booking, listener, turn, executed, inbox, settings, trouble, now>>

Take(j) ==
  /\ turn = Idle /\ jobs[j].state = "waiting"
  /\ jobs' = [jobs EXCEPT ![j].state = "active", ![j].made = @ + 1]
  /\ turn' = [pc |-> "read", job |-> j]
  /\ UNCHANGED <<booking, listener, executed, inbox, settings, trouble, now>>

\* hasMoreRecentActivityInCategory, of any reservation, the one of the visit too.
HasReturned(v) ==
  \E u \in Visits :
    /\ booking[u].status \in {"CONFIRMADA", "COMPLETADA"}
    /\ booking[u].start > booking[v].completed
       \/ booking[u].completed > booking[v].completed

HasExecutedForRule(v, r) ==
  \E x \in executed : x.rule = r /\ x.at >= booking[v].completed

\* Variant with a bug: only campaigns count.
BlockedByCampaigns == \E at \in settings.contacted : at + Cooldown > now

\* blockedUntil, after the last campaign or follow-up.
Blocked ==
  \E at \in settings.contacted \cup {x.at : x \in executed} : at + Cooldown > now

\* checkReactivation records why it does not send, or goes on.
Wanted(v, r) ==
  /\ r \in settings.active
  /\ ~HasReturned(v)
  /\ ~HasExecutedForRule(v, r)
  /\ settings.consent
  /\ ~Blocked
  /\ r \in Promoted => settings.promotion

CheckReactivation ==
  /\ turn.pc = "read"
  /\ turn' = [turn EXCEPT !.pc = IF Wanted(turn.job[1], turn.job[2])
                                 THEN "send" ELSE "end"]
  /\ UNCHANGED <<booking, listener, jobs, executed, inbox, settings, trouble, now>>

\* The key of the job: Conduit does not send it again.
Delivered ==
  IF \E i \in DOMAIN inbox : inbox[i].job = turn.job THEN inbox
  ELSE Append(inbox, [job |-> turn.job, at |-> now])

Send ==
  /\ turn.pc = "send"
  /\ inbox' = Delivered
  /\ turn' = [turn EXCEPT !.pc = "log"]
  /\ UNCHANGED <<booking, listener, jobs, executed, settings, trouble, now>>

\* No answer: whether or not it was sent, the job is tried again.
SendFails ==
  /\ turn.pc = "send" /\ Fault
  /\ inbox' \in {inbox, Delivered}
  /\ jobs' = [jobs EXCEPT ![turn.job].state =
                IF jobs[turn.job].made < Attempts THEN "delayed" ELSE "failed"]
  /\ turn' = Idle
  /\ UNCHANGED <<booking, listener, executed, settings, now>>

\* Conduit refuses the number, or the templates could not be read and none is known:
\* UnrecoverableError.
SendRefused ==
  /\ turn.pc = "send" /\ Fault
  /\ jobs' = [jobs EXCEPT ![turn.job].state = "failed"]
  /\ turn' = Idle
  /\ UNCHANGED <<booking, listener, executed, inbox, settings, now>>

Log ==
  /\ turn.pc = "log"
  /\ executed' = executed \cup {[rule |-> turn.job[2], at |-> now]}
  /\ turn' = [turn EXCEPT !.pc = "end"]
  /\ UNCHANGED <<booking, listener, jobs, inbox, settings, trouble, now>>

End ==
  /\ turn.pc = "end"
  /\ jobs' = [jobs EXCEPT ![turn.job].state = "completed"]
  /\ turn' = Idle
  /\ UNCHANGED <<booking, listener, executed, inbox, settings, trouble, now>>

\* The process dies, and BullMQ gives the stalled job to another one.
Die ==
  /\ turn # Idle /\ Fault
  /\ jobs' = [jobs EXCEPT ![turn.job].state = "waiting"]
  /\ turn' = Idle
  /\ UNCHANGED <<booking, listener, executed, inbox, settings, now>>

Tick ==
  /\ now < Horizon
  /\ now' = now + 1
  /\ UNCHANGED <<booking, listener, jobs, turn, executed, inbox, settings, trouble>>

-----------------------------------------------------------------------------

Handle(v) == FindRules(v) \/ \E r \in Rules : QueueCheck(v, r)
Work ==
  \/ \E j \in Visits \X Rules : Promote(j) \/ Take(j)
  \/ CheckReactivation \/ Send \/ Log \/ End

Next ==
  \/ \E v \in Visits :
       \/ Book(v, now + 1) \/ CallOff(v) \/ Complete(v) \/ Handle(v) \/ Lose(v)
  \/ Change \/ Work \/ SendFails \/ SendRefused \/ Die \/ Tick

Spec == Init /\ [][Next]_vars

-----------------------------------------------------------------------------
(* Properties *)

JobStates == {"none", "delayed", "waiting", "active", "completed", "failed"}

TypeOK ==
  /\ \A v \in Visits :
       /\ booking[v].status \in {"ABSENT", "CONFIRMADA", "CANCELADA", "COMPLETADA"}
       /\ listener[v].rules \subseteq Rules
  /\ \A j \in Visits \X Rules :
       /\ jobs[j].state \in JobStates
       /\ jobs[j].state = "active" <=> turn # Idle /\ turn.job = j
  /\ turn.pc \in {"idle", "read", "send", "log", "end"}
  /\ settings.active \subseteq Rules

\* Two rules, or two visits of one day, do not write to a client twice within the
\* cooldown, although each job looks and records apart; unless a turn was lost between
\* its message and its record.
SpacedOut ==
  trouble.faults = 0 =>
    \A i, k \in DOMAIN inbox : i < k => inbox[k].at >= inbox[i].at + Cooldown

Ended(j) == jobs[j].state \in {"completed", "failed"}

\* A client who has one visit and no other appointment is written to by the time her
\* jobs are done, by one of the rules, if nobody changed anything and no call was
\* lost; unless she was done before the hour of her appointment, which then counts
\* as a return.
FollowUpComes ==
  \A v \in Visits :
    /\ settings.changes = 0 /\ trouble.faults = 0
    /\ booking[v].status = "COMPLETADA" /\ ~HasReturned(v)
    /\ \A u \in Visits \ {v} : booking[u].status = "ABSENT"
    /\ listener[v] = [pc |-> "add", rules |-> {}]
    /\ \E r \in Rules : Ended(<<v, r>>)
    /\ \A u \in Visits, r \in Rules : jobs[<<u, r>>].state = "none" \/ Ended(<<u, r>>)
    => \E x \in executed : x.at >= booking[v].completed

\* No job is due and not done.
NothingDue ==
  \A j \in Visits \X Rules :
    jobs[j].state \in {"delayed", "waiting", "active"} => jobs[j].due > now
=============================================================================
