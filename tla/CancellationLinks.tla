------------------------- MODULE CancellationLinks -------------------------
(***************************************************************************)
(* A client calls off what she has booked by the link she was sent         *)
(* (reservations/service/cancellation-link.service.ts and orchestrators/   *)
(* cancel-reservation.orchestrator.ts): one reservation or all of its day. *)
(* Rows are read one after the other before the transaction that writes    *)
(* them, while administrators work and time passes.                        *)
(***************************************************************************)
EXTENDS Naturals, FiniteSets

CONSTANTS
  Reservations,  \* of one client
  Starts,        \* when each may begin, a set of times for each
  Requests,      \* numbered as they come
  DayLength, Horizon,
  MaxEvents      \* bound on what administrators do

VARIABLES
  row,      \* reservations: status and start
  link,     \* the link she was sent; NoLink: none
  request,
  now, events,
  answered  \* the last request answered with success, if nothing happened since (history)

vars == <<row, link, request, now, events, answered>>

Statuses == {"PENDIENTE_DEPOSITO", "CONFIRMADA", "CITA_EN_CURSO", "byClient", "byAdmin"}
Cancellable == {"PENDIENTE_DEPOSITO", "CONFIRMADA"}
DayOf(t) == t \div DayLength
DayEnd(t) == (DayOf(t) + 1) * DayLength

NoLink == [reservation |-> 0, expires |-> 0]
Nothing == <<>>
Idle == [pc |-> "idle", scope |-> "SINGLE", target |-> 0, now |-> 0, row |-> Nothing,
         plan |-> {}, seen |-> Nothing, disturbed |-> FALSE,
         again |-> FALSE, left |-> {}, strays |-> {}, answer |-> "none"]

Answers == {"none", "ok", "expired", "notOwned", "refused", "concurrent"}
TypeOK ==
  /\ \A i \in Reservations : row[i].status \in Statuses /\ row[i].start \in Starts[i]
  /\ link.reservation \in Reservations \cup {0} /\ now \in 0 .. Horizon
  /\ \A q \in Requests :
       /\ request[q].pc \in {"idle", "target", "day", "commit", "done"}
       /\ request[q].scope \in {"SINGLE", "DAY"} /\ request[q].answer \in Answers
       /\ request[q].plan \subseteq Reservations /\ request[q].left \subseteq Reservations
  /\ events \in 0 .. MaxEvents

Init ==
  /\ row = [i \in Reservations |->
              [status |-> IF i = 1 THEN "CONFIRMADA" ELSE "PENDIENTE_DEPOSITO",
               start |-> CHOOSE t \in Starts[i] : \A u \in Starts[i] : t <= u]]
  /\ link = NoLink /\ request = [q \in Requests |-> Idle] /\ now = 0 /\ events = 0
  /\ answered = Nothing

\* An administrator or the client asks for a link to a reservation, valid until the end
\* of the day the reservation then has.
Issue(i) ==
  /\ link = NoLink /\ row[i].status \in Cancellable /\ row[i].start > now
  /\ link' = [reservation |-> i, expires |-> DayEnd(row[i].start)]
  /\ UNCHANGED <<row, request, now, events, answered>>

-----------------------------------------------------------------------------
(* A request *)

Step(q, record) == request' = [request EXCEPT ![q] = record]
Finished(me, answer) ==
  [Idle EXCEPT !.pc = "done", !.answer = answer, !.scope = me.scope, !.again = me.again,
               !.disturbed = me.disturbed]
Answer(q, answer) == Finished(request[q], answer)

\* The link is verified, and another reservation than its own must be of the same day.
\* The time is that of the beginning of the request.
Verify(q, scope, target) ==
  LET anchor == link.reservation
      me == [Idle EXCEPT !.scope = scope, !.target = target, !.now = now,
                         !.again = answered = <<scope, target>>] IN
  /\ request[q].pc = "idle" /\ link # NoLink
  /\ \A p \in Requests : p < q => request[p].pc # "idle"
  /\ Step(q, IF link.expires <= now THEN Finished(me, "expired")
             ELSE IF DayOf(row[target].start) # DayOf(row[anchor].start)
             THEN Finished(me, "notOwned")
             ELSE [me EXCEPT !.pc = "target"])
  /\ UNCHANGED <<row, link, now, events, answered>>

ReadTarget(q) ==
  /\ request[q].pc = "target"
  /\ Step(q, [request[q] EXCEPT !.pc = "day", !.row = row[request[q].target]])
  /\ UNCHANGED <<row, link, now, events, answered>>

HasStarted(r, t) == r.start <= t

\* Variant with a bug: what she called off before is not recognised.
PlanAnew(me, day) ==
  LET ids == IF me.scope = "SINGLE" THEN {me.target} ELSE DOMAIN day
      toCancel == {i \in ids : day[i].status \in Cancellable /\ ~HasStarted(day[i], me.now)} IN
  [ok |-> toCancel # {}, toCancel |-> toCancel]

\* Variant with a bug: of a day only what is confirmed is called off.
PlanConfirmed(me, day) ==
  LET ids == IF me.scope = "SINGLE" THEN {me.target} ELSE DOMAIN day
      toCancel == {i \in ids : /\ day[i].status \in Cancellable /\ ~HasStarted(day[i], me.now)
                               /\ me.scope = "DAY" => day[i].status = "CONFIRMADA"}
      already == {i \in ids : day[i].status = "byClient"} IN
  [ok |-> toCancel \cup already # {}, toCancel |-> toCancel]

\* Of one reservation, or of those of the day, what can be called off and has not begun;
\* refused if there is none and none that she called off before (planClientCancellation).
Plan(me, day) ==
  LET ids == IF me.scope = "SINGLE" THEN {me.target} ELSE DOMAIN day
      toCancel == {i \in ids : day[i].status \in Cancellable /\ ~HasStarted(day[i], me.now)}
      already == {i \in ids : day[i].status = "byClient"} IN
  [ok |-> toCancel \cup already # {}, toCancel |-> toCancel]

\* The day is that of the target as it was read, which belongs to it even if it moved.
ReadDay(q) ==
  LET me == request[q]
      ids == {me.target} \cup {i \in Reservations : DayOf(row[i].start) = DayOf(me.row.start)}
      day == [i \in ids |->
                IF me.scope = "SINGLE" \/ DayOf(row[i].start) # DayOf(me.row.start)
                THEN me.row ELSE row[i]]
      plan == Plan(me, day) IN
  /\ me.pc = "day"
  /\ Step(q, IF plan.ok
             THEN [me EXCEPT !.pc = "commit", !.plan = plan.toCancel, !.seen = day]
             ELSE Answer(q, "refused"))
  /\ UNCHANGED <<row, link, now, events, answered>>

\* All are written that still have the status that was read, or none.
Commit(q) ==
  LET me == request[q] IN
  /\ me.pc = "commit"
  /\ IF \A i \in me.plan : row[i].status = me.seen[i].status
     THEN /\ row' = [i \in Reservations |->
                       IF i \in me.plan THEN [row[i] EXCEPT !.status = "byClient"] ELSE row[i]]
          /\ Step(q, [Answer(q, "ok") EXCEPT
               !.strays = {i \in me.plan :
                             DayOf(me.seen[i].start) # DayOf(row[link.reservation].start)},
               !.left = {i \in Reservations \ me.plan :
                           /\ DayOf(row[i].start) = DayOf(me.row.start)
                           /\ row[i].status \in Cancellable /\ ~HasStarted(row[i], me.now)}])
          /\ answered' = IF me.disturbed THEN Nothing ELSE <<me.scope, me.target>>
     ELSE Step(q, Answer(q, "concurrent")) /\ UNCHANGED <<row, answered>>
  /\ UNCHANGED <<link, now, events>>

-----------------------------------------------------------------------------
(* What else happens *)

Disturb ==
  request' = [q \in Requests |->
    IF request[q].pc \in {"target", "day", "commit"}
    THEN [request[q] EXCEPT !.disturbed = TRUE] ELSE request[q]]

Becomes(i, status, start) ==
  /\ events < MaxEvents /\ events' = events + 1 /\ Disturb /\ answered' = Nothing
  /\ row' = [row EXCEPT ![i] = [status |-> status, start |-> start]]
  /\ UNCHANGED <<link, now>>

Confirm(i) == row[i].status = "PENDIENTE_DEPOSITO" /\ Becomes(i, "CONFIRMADA", row[i].start)
AdminCancel(i) == row[i].status \in Cancellable /\ Becomes(i, "byAdmin", row[i].start)
CheckIn(i) ==
  /\ row[i].status = "CONFIRMADA" /\ DayOf(row[i].start) = DayOf(now)
  /\ Becomes(i, "CITA_EN_CURSO", row[i].start)
Revive(i) ==
  /\ row[i].status \in {"byClient", "byAdmin"} /\ row[i].start > now
  /\ Becomes(i, "PENDIENTE_DEPOSITO", row[i].start)
Reschedule(i) ==
  /\ row[i].status \in Cancellable
  /\ \E t \in Starts[i] \ {row[i].start} : t > now /\ Becomes(i, row[i].status, t)

Tick == now < Horizon /\ now' = now + 1 /\ UNCHANGED <<row, link, request, events, answered>>

Next ==
  \/ \E i \in Reservations :
       Issue(i) \/ Confirm(i) \/ AdminCancel(i) \/ CheckIn(i) \/ Revive(i) \/ Reschedule(i)
  \/ \E q \in Requests :
       \/ \E scope \in {"SINGLE", "DAY"}, target \in Reservations : Verify(q, scope, target)
       \/ ReadTarget(q) \/ ReadDay(q) \/ Commit(q)
  \/ Tick

-----------------------------------------------------------------------------
(* Properties *)

Undisturbed(q) == request[q].pc = "done" /\ ~request[q].disturbed

\* Unless administrators worked meanwhile: who calls off her day has nothing left of it
\* that had not begun, and calls off nothing of another day.
DayIsCleared ==
  \A q \in Requests : Undisturbed(q) /\ request[q].answer = "ok" =>
    /\ request[q].scope = "DAY" => request[q].left = {}
    /\ request[q].strays = {}

\* Who repeats a request that succeeded, since its answer was lost, is not told that it
\* cannot be done.
RepeatIsAnswered ==
  \A q \in Requests : Undisturbed(q) /\ request[q].again =>
    request[q].answer \in {"ok", "expired", "concurrent"}
=============================================================================
