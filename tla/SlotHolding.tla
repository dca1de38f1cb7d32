---------------------------- MODULE SlotHolding ----------------------------
(***************************************************************************)
(* How appointments get their place in the day: bookings of one treatment  *)
(* or of a combo, reschedules and revivals, against the capacity of each   *)
(* category and against an administrator who changes the opening hours.    *)
(*                                                                         *)
(* Every operation is one PostgreSQL transaction (READ COMMITTED) that     *)
(* first takes the advisory locks of the day and categories it touches.    *)
(* What it writes stays private until it commits, which also releases the  *)
(* locks; each segment is evaluated in a step of its own, on what is       *)
(* committed at that moment and on what the transaction wrote itself.      *)
(*                                                                         *)
(* What else happens to a reservation (deposits, cancellations, time-outs, *)
(* attendance) takes none of these locks. Here it is any transition that   *)
(* ReservationStateMachine allows, which DepositLifecycle implements.      *)
(* All times lie ahead: IN_THE_PAST and the advance window are left out.   *)
(***************************************************************************)
EXTENDS Integers, Sequences, FiniteSets

CONSTANTS
  Reservations,  \* rows that requests may create
  Procs,         \* request handlers
  Categories,    \* numbers, in the order of the category ids
  Bookings,      \* sequences of reservations that one request books
  ClientOf, CategoryOf, Duration,  \* of each reservation
  Capacity,      \* of each category
  Days,          \* calendar days
  DayLength,     \* length of a day
  BaseSchedules, \* weekly schedules to choose from, each a set of ranges
  Closures,      \* exceptions that may be created: [day, type, category, range]
  Asked,         \* instants that requests ask for
  Elsewhere,     \* statuses that the rest of the system gives, here
  Offered,       \* the operations this instance exercises
  AnyCategory, Step, NoSlot, None

VARIABLES
  reservation,   \* the reservations table
  base,          \* the weekly windows, the same every day
  exceptions,    \* the schedule_exceptions table
  lock,          \* holder of the advisory lock of each day and category
  baseLock,      \* holder of the advisory lock of the weekly schedule
  pc,            \* next step of each handler
  task           \* what each handler is doing and has read or written

vars == <<reservation, base, exceptions, lock, baseLock, pc, task>>
tables == <<reservation, base, exceptions>>
locks == <<lock, baseLock>>

Hours == INSTANCE OperatingHours WITH MinutesPerDay <- DayLength

Plan == INSTANCE Placement

Machine == INSTANCE ReservationStateMachine WITH
  status <- [r \in Reservations |-> reservation[r].status],
  source <- [r \in Reservations |-> reservation[r].source]

Keys == Days \X Categories

\* What is in a sequence: the rows of a booking, the ranges of a day.
Elements(s) == {s[i] : i \in DOMAIN s}

DayOf(t) == t \div DayLength
Instants == UNION {d * DayLength .. (d + 1) * DayLength - 1 : d \in Days}

Operations == {"book", "reschedule", "revive", "createException",
               "deleteException", "updateBase"}

ASSUME BookingAssumption ==
  /\ Categories \subseteq Nat /\ IsFiniteSet(Categories) /\ Categories # {}
  /\ Days \subseteq Nat /\ DayLength \in Nat \ {0}
  /\ IsFiniteSet(Reservations)
  /\ Bookings \subseteq Seq(Reservations) /\ <<>> \notin Bookings
  /\ CategoryOf \in [Reservations -> Categories]
  /\ Duration \in [Reservations -> Nat \ {0}]
  /\ Capacity \in [Categories -> Nat]
  /\ Asked \subseteq Nat /\ \A t \in Asked : DayOf(t) \in Days
  /\ \A e \in Closures : /\ e.day \in Days
                         /\ e.category \in Categories \cup {AnyCategory}
  /\ Step \in Nat \ {0} /\ NoSlot \notin Nat
  /\ None \notin Reservations /\ None \notin Procs /\ None \notin Operations
  /\ None \notin Closures /\ None \notin BaseSchedules

\* A combo has one treatment of each category at most, all for one client.
ASSUME ComboAssumption ==
  \A b \in Bookings : \A i, j \in DOMAIN b :
    /\ ClientOf[b[i]] = ClientOf[b[j]]
    /\ i # j => CategoryOf[b[i]] # CategoryOf[b[j]]

\* Ranges are minutes of one day, so no window joins two days.
ASSUME HoursAssumption ==
  LET MinuteRanges == [from : 0 .. DayLength, to : 0 .. DayLength]
  IN /\ \A S \in BaseSchedules : S \subseteq MinuteRanges
     /\ \A e \in Closures : e.range \in MinuteRanges

---------------------------------------------------------------------------
(* Rows and tasks                                                          *)

Row == [status : Machine!Statuses \cup {"ABSENT"},
        source : Machine!Sources,
        start : Nat,
        late : BOOLEAN]   \* attended after it had been marked NO_SHOW

NoRow == [status |-> "ABSENT", source |-> "NINGUNA", start |-> 0,
          late |-> FALSE]

Steps == {"idle", "lock", "place", "decide", "commit"}

Task == [op : Operations \cup {None},
         members : SUBSET Reservations,
         day : Nat,                 \* day of the locks
         need : SUBSET Categories,  \* locks still to take
         todo : Seq(Reservations),  \* segments still to place
         ideal : Nat,               \* where the next segment should start
         from : Nat,                \* scheduledStart read by a reschedule
         known : SUBSET [start : Nat, end : Nat],  \* existingIntervals
         pending : [Reservations -> Row],  \* rows written, not yet committed
         change : Closures \cup {None},       \* exception to create or delete
         weekly : BaseSchedules \cup {None}]  \* schedule to be


NoTask == [op |-> None, members |-> {}, day |-> 0, need |-> {},
           todo |-> <<>>, ideal |-> 0, from |-> 0, known |-> {},
           pending |-> [r \in Reservations |-> NoRow],
           change |-> None, weekly |-> None]

TypeOK ==
  /\ reservation \in [Reservations -> Row]
  /\ base \in BaseSchedules
  /\ exceptions \subseteq Closures
  /\ lock \in [Keys -> Procs \cup {None}]
  /\ baseLock \in Procs \cup {None}
  /\ pc \in [Procs -> Steps]
  /\ task \in [Procs -> Task]

---------------------------------------------------------------------------
(* What a query returns, on a view of the table                            *)

HoldingExcluded == {"CANCELADA", "NO_SHOW", "REPROGRAMADA"}
LiveStatuses == {"PENDIENTE_DEPOSITO", "CONFIRMADA", "CITA_EN_CURSO"}
Reschedulable == {"PENDIENTE_DEPOSITO", "CONFIRMADA"}

Holds(row) == row.status \notin HoldingExcluded \cup {"ABSENT"}

Interval(view, r) == Plan!Lasting(view[r].start, Duration[r])

WholeDay(d) == [start |-> d * DayLength, end |-> (d + 1) * DayLength]

\* Rows that the transaction of p has inserted or updated.
Written(p) == {r \in Reservations : task[p].pending[r].status # "ABSENT"}

\* The table as the transaction of p sees it.
View(p) ==
  [r \in Reservations |->
     IF r \in Written(p) THEN task[p].pending[r] ELSE reservation[r]]

HoldingIn(view, category) ==
  {r \in Reservations : CategoryOf[r] = category /\ Holds(view[r])}

\* findHoldingIntervalsOverlapping
HeldOverlapping(view, category, i, exclude) ==
  [r \in {s \in HoldingIn(view, category) \ {exclude} :
            Plan!Overlap(Interval(view, s), i)} |-> Interval(view, r)]

\* getHoldingReservationsInRange
HeldInDay(view, category, d) ==
  [r \in {s \in HoldingIn(view, category) :
            /\ Interval(view, s).start >= WholeDay(d).start
            /\ Interval(view, s).end <= WholeDay(d).end} |-> Interval(view, r)]

\* findActiveIntervalsForClientOnDay
ClientIntervals(view, client, d, exclude) ==
  {Interval(view, r) : r \in {s \in Reservations \ {exclude} :
     /\ ClientOf[s] = client /\ Holds(view[s])
     /\ Plan!Overlap(Interval(view, s), WholeDay(d))}}

\* hasActiveReservationInCategoryOnDay
HasActiveInCategory(view, client, category, d, exclude) ==
  \E r \in HoldingIn(view, category) \ {exclude} :
    ClientOf[r] = client /\ DayOf(view[r].start) = d

Windows(weekly, special, d, category) ==
  Hours!OperatingWindows(d, weekly, {e \in special : e.day = d}, category)

\* PlacementCheckService.evaluate
Verdict(view, r, start) ==
  LET i == Plan!Lasting(start, Duration[r])
      c == CategoryOf[r]
      d == DayOf(start)
  IN Plan!EvaluatePlacement(i, -1, Windows(base, exceptions, d, c),
       HeldOverlapping(view, c, i, r), Capacity[c],
       ClientIntervals(view, ClientOf[r], d, r),
       HasActiveInCategory(view, ClientOf[r], c, d, r))

---------------------------------------------------------------------------
(* Transactions                                                            *)

Init ==
  /\ reservation = [r \in Reservations |-> NoRow]
  /\ base \in BaseSchedules
  /\ exceptions = {}
  /\ lock = [k \in Keys |-> None]
  /\ baseLock = None
  /\ pc = [p \in Procs |-> "idle"]
  /\ task = [p \in Procs |-> NoTask]

Begin(p, work) ==
  /\ pc[p] = "idle"
  /\ pc' = [pc EXCEPT ![p] = "lock"]
  /\ task' = [task EXCEPT ![p] = work]
  /\ UNCHANGED <<tables, locks>>

Goto(p, step, work) ==
  /\ pc' = [pc EXCEPT ![p] = step]
  /\ task' = [task EXCEPT ![p] = work]

\* Variant with a bug: the locks outlive the transaction.
FinishHoldingLocks(p) ==
  /\ pc' = [pc EXCEPT ![p] = "idle"]
  /\ task' = [task EXCEPT ![p] = NoTask]
  /\ UNCHANGED locks

\* The end of the transaction, either way.
Finish(p) ==
  /\ pc' = [pc EXCEPT ![p] = "idle"]
  /\ task' = [task EXCEPT ![p] = NoTask]
  /\ lock' = [k \in Keys |-> IF lock[k] = p THEN None ELSE lock[k]]
  /\ baseLock' = IF baseLock = p THEN None ELSE baseLock

Abort(p) == Finish(p) /\ UNCHANGED tables

\* Variant with a bug: locks are taken in the order of the request.
NextCategoryAsked(p) ==
  IF task[p].op = "book"
    THEN CategoryOf[task[p].todo[CHOOSE i \in DOMAIN task[p].todo :
           /\ CategoryOf[task[p].todo[i]] \in task[p].need
           /\ \A j \in 1 .. i - 1 :
                CategoryOf[task[p].todo[j]] \notin task[p].need]]
    ELSE CHOOSE c \in task[p].need : \A other \in task[p].need : c <= other

\* withCategoriesLock sorts the category ids.
NextCategory(p) ==
  CHOOSE c \in task[p].need : \A other \in task[p].need : c <= other

AfterLocks(op) ==
  IF op \in {"createException", "deleteException"} THEN "decide" ELSE "place"

\* Variant with a bug: the lock is asked for and not waited for.
TakeLockOrNot(p) ==
  /\ pc[p] = "lock" /\ task[p].need # {}
  /\ Goto(p, IF Cardinality(task[p].need) = 1 THEN AfterLocks(task[p].op)
             ELSE "lock",
          [task[p] EXCEPT !.need = @ \ {NextCategory(p)}])
  /\ UNCHANGED <<tables, locks>>

\* pg_advisory_xact_lock; a booking then reads the client's appointments.
TakeLock(p) ==
  /\ pc[p] = "lock" /\ task[p].need # {}
  /\ LET key == <<task[p].day, NextCategory(p)>>
         need == task[p].need \ {NextCategory(p)}
         known == IF need = {} /\ task[p].op = "book"
                    THEN ClientIntervals(reservation,
                           ClientOf[Head(task[p].todo)], task[p].day, None)
                    ELSE task[p].known
     IN /\ lock[key] = None
        /\ lock' = [lock EXCEPT ![key] = p]
        /\ Goto(p, IF need = {} THEN AfterLocks(task[p].op) ELSE "lock",
                [task[p] EXCEPT !.need = need, !.known = known])
        /\ UNCHANGED <<tables, baseLock>>

\* withBaseScheduleLock
TakeBaseLock(p) ==
  /\ pc[p] = "lock" /\ task[p].op = "updateBase"
  /\ baseLock = None
  /\ baseLock' = p
  /\ Goto(p, "decide", task[p])
  /\ UNCHANGED <<tables, lock>>

\* Row r is written, its placement accepted.
Write(p, r, row, ideal) ==
  LET todo == Tail(task[p].todo)
  IN /\ Goto(p, IF todo = <<>> THEN "commit" ELSE "place",
             [task[p] EXCEPT
                !.todo = todo,
                !.ideal = ideal,
                !.from = reservation[r].start,
                !.pending[r] = row])
     /\ UNCHANGED <<tables, locks>>

---------------------------------------------------------------------------
(* CreateReservationOrchestrator                                           *)

\* One request for each booking: its rows get their ids when it creates them.
Book(p, b, start) ==
  /\ "book" \in Offered
  /\ \A r \in Elements(b) : reservation[r].status = "ABSENT"
  /\ \A q \in Procs : task[q].members # Elements(b)
  /\ Begin(p, [NoTask EXCEPT
                 !.op = "book", !.members = Elements(b), !.todo = b,
                 !.day = DayOf(start), !.ideal = start,
                 !.need = {CategoryOf[r] : r \in Elements(b)}])

\* Variant with a bug: a segment is placed without regard to the one before.
ConflictsRead(p) == task[p].known

\* conflictIntervals: those read at first and the segments just created.
Conflicts(p) ==
  task[p].known \cup
  {Interval(task[p].pending, r) : r \in Written(p)}

\* Free slots are computed on the windows of the ideal day and on what is
\* held the day that was requested.
Chosen(p, r) ==
  LET c == CategoryOf[r]
      ideal == task[p].ideal
      candidate == Plan!Adjusted(ideal, Duration[r], Conflicts(p))
      slots == Plan!AvailableSlots(
                 Windows(base, exceptions, DayOf(ideal), c),
                 HeldInDay(View(p), c, task[p].day), Duration[r], Capacity[c])
  IN Plan!ResolvePlacement(candidate, Verdict(View(p), r, candidate),
                           slots, ideal, Duration[r], Conflicts(p))

\* Variant with a bug: a segment without a slot is created all the same.
PlaceSegmentAnyway(p) ==
  /\ pc[p] = "place" /\ task[p].op = "book"
  /\ LET r == Head(task[p].todo)
     IN Write(p, r, [NoRow EXCEPT !.status = "PENDIENTE_DEPOSITO",
                                  !.start = Chosen(p, r)],
              task[p].ideal + Duration[r])

PlaceSegment(p) ==
  /\ pc[p] = "place" /\ task[p].op = "book"
  /\ LET r == Head(task[p].todo)
         start == Chosen(p, r)
     IN IF \/ start = NoSlot
           \/ HasActiveInCategory(View(p), ClientOf[r], CategoryOf[r],
                                  task[p].day, None)
          THEN Abort(p)
          ELSE Write(p, r, [NoRow EXCEPT !.status = "PENDIENTE_DEPOSITO",
                                         !.start = start],
                     task[p].ideal + Duration[r])

---------------------------------------------------------------------------
(* ReservationRescheduler                                                  *)

\* Variant with a bug: the lock is that of the day the appointment leaves.
RescheduleFromDay(p, r, start) ==
  /\ "reschedule" \in Offered
  /\ reservation[r].status \in Reschedulable
  /\ Begin(p, [NoTask EXCEPT
                 !.op = "reschedule", !.members = {r}, !.todo = <<r>>,
                 !.day = DayOf(reservation[r].start), !.ideal = start,
                 !.need = {CategoryOf[r]}])

Reschedule(p, r, start) ==
  /\ "reschedule" \in Offered
  /\ reservation[r].status \in Reschedulable
  /\ Begin(p, [NoTask EXCEPT
                 !.op = "reschedule", !.members = {r}, !.todo = <<r>>,
                 !.day = DayOf(start), !.ideal = start,
                 !.need = {CategoryOf[r]}])

Move(p) ==
  /\ pc[p] = "place" /\ task[p].op = "reschedule"
  /\ LET r == Head(task[p].todo)
         current == reservation[r]
         start == task[p].ideal
     IN IF /\ current.status \in Reschedulable
           /\ current.start # start
           /\ Verdict(reservation, r, start) = "OK"
          THEN Write(p, r, [current EXCEPT !.start = start], start)
          ELSE Abort(p)

---------------------------------------------------------------------------
(* ReviveReservationOrchestrator                                           *)

Revivable(row) == Machine!IsRevivable(row.status, row.source)

\* The whole booking comes back, each segment where it was (Days bounds the calendar).
Revive(p, b) ==
  /\ "revive" \in Offered
  /\ \A r \in Elements(b) : Revivable(reservation[r])
  /\ \A r, s \in Elements(b) :
       DayOf(reservation[r].start) = DayOf(reservation[s].start)
  /\ DayOf(reservation[Head(b)].start) \in Days
  /\ Begin(p, [NoTask EXCEPT
                 !.op = "revive", !.members = Elements(b), !.todo = b,
                 !.day = DayOf(reservation[Head(b)].start),
                 !.need = {CategoryOf[r] : r \in Elements(b)}])

\* Variant with a bug: the place is not evaluated again.
BringBackUnchecked(p) ==
  /\ pc[p] = "place" /\ task[p].op = "revive"
  /\ LET r == Head(task[p].todo)
         fresh == reservation[r]
     IN IF Revivable(fresh)
          THEN Write(p, r, [fresh EXCEPT !.status = "PENDIENTE_DEPOSITO",
                                         !.source = "NINGUNA"], 0)
          ELSE Abort(p)

BringBack(p) ==
  /\ pc[p] = "place" /\ task[p].op = "revive"
  /\ LET r == Head(task[p].todo)
         fresh == reservation[r]
     IN IF Revivable(fresh) /\ Verdict(View(p), r, fresh.start) = "OK"
          THEN Write(p, r, [fresh EXCEPT !.status = "PENDIENTE_DEPOSITO",
                                         !.source = "NINGUNA"], 0)
          ELSE Abort(p)

---------------------------------------------------------------------------
(* AdminScheduleService                                                    *)

Affected(e) ==
  IF e.category = AnyCategory THEN Categories ELSE {e.category}

Live(r) == reservation[r].status \in LiveStatuses

\* Each element of Closures stands for one row.
CreateException(p, e) ==
  /\ "createException" \in Offered
  /\ e \notin exceptions
  /\ \A q \in Procs : task[q].change # e
  /\ Begin(p, [NoTask EXCEPT !.op = "createException", !.change = e,
                             !.day = e.day, !.need = Affected(e)])

DeleteException(p, e) ==
  /\ "deleteException" \in Offered
  /\ e \in exceptions
  /\ Begin(p, [NoTask EXCEPT !.op = "deleteException", !.change = e,
                             !.day = e.day, !.need = Affected(e)])

UpdateBase(p, weekly) ==
  /\ "updateBase" \in Offered
  /\ weekly # base
  /\ Begin(p, [NoTask EXCEPT !.op = "updateBase", !.weekly = weekly])

Proposed(p) ==
  CASE task[p].op = "createException" -> exceptions \cup {task[p].change}
    [] task[p].op = "deleteException" -> exceptions \ {task[p].change}
    [] OTHER -> exceptions

ProposedBase(p) ==
  IF task[p].op = "updateBase" THEN task[p].weekly ELSE base

\* Variant with a bug: unpaid reservations do not stand in the way.
ConcernedConfirmed(p) ==
  {r \in Reservations :
     /\ reservation[r].status \in LiveStatuses \ {"PENDIENTE_DEPOSITO"}
     /\ task[p].op # "updateBase" =>
          /\ DayOf(reservation[r].start) = task[p].day
          /\ CategoryOf[r] \in Affected(task[p].change)}

\* findLiveReservationsOnDay, findLiveReservationsFrom
Concerned(p) ==
  {r \in Reservations :
     /\ Live(r)
     /\ task[p].op # "updateBase" =>
          /\ DayOf(reservation[r].start) = task[p].day
          /\ CategoryOf[r] \in Affected(task[p].change)}

Inside(r, weekly, special) ==
  LET i == Interval(reservation, r)
  IN Hours!FitsIn(i, Windows(weekly, special, DayOf(i.start), CategoryOf[r]))

\* A reservation that is already outside does not stand in the way.
Displaced(p) ==
  {r \in Concerned(p) : /\ Inside(r, base, exceptions)
                        /\ ~ Inside(r, ProposedBase(p), Proposed(p))}

Decide(p) ==
  /\ pc[p] = "decide"
  /\ IF Displaced(p) # {}
       THEN Abort(p)
       ELSE Goto(p, "commit", task[p]) /\ UNCHANGED <<tables, locks>>

---------------------------------------------------------------------------
(* Commit                                                                  *)

\* Variant with a bug: a reschedule writes whatever happened meanwhile.
UnchangedNotAsked(p) == TRUE

\* updateScheduleIfCurrent and updateStatusIfCurrent write only if the row
\* is as it was read.
Unchanged(p) ==
  CASE task[p].op = "book" -> TRUE
    [] task[p].op = "reschedule" ->
         \A r \in Written(p) :
           /\ reservation[r].status = task[p].pending[r].status
           /\ reservation[r].start = task[p].from
    [] task[p].op = "revive" ->
         \A r \in Written(p) :
           reservation[r].status = "CANCELADA"
    [] task[p].op = "deleteException" -> task[p].change \in exceptions
    [] OTHER -> TRUE

Commit(p) ==
  /\ pc[p] = "commit" /\ Unchanged(p)
  /\ reservation' = View(p)
  /\ exceptions' = Proposed(p)
  /\ base' = ProposedBase(p)
  /\ Finish(p)

Conflict(p) == pc[p] = "commit" /\ ~ Unchanged(p) /\ Abort(p)

---------------------------------------------------------------------------
(* The rest of the system                                                  *)

\* Whatever status it cancels from, the timeout worker signs with TIMEOUT.
Cancellers(to) ==
  IF to = "CANCELADA" THEN {"CLIENT", "TIMEOUT"} ELSE {"NINGUNA"}

\* A deposit confirmed, a cancellation, a time-out, attendance: none of the
\* locks above.  A client marked NO_SHOW who comes after all takes a place
\* again that nobody kept: late says so.
Advance(r, to) ==
  /\ Machine!CanTransition(reservation[r].status, to)
  /\ \E source \in Cancellers(to) :
       reservation' = [reservation EXCEPT
                         ![r].status = to,
                         ![r].source = source,
                         ![r].late = @ \/ reservation[r].status = "NO_SHOW"]
  /\ UNCHANGED <<base, exceptions, locks, pc, task>>

Request(p) ==
  \/ \E b \in Bookings, start \in Asked : Book(p, b, start)
  \/ \E r \in Reservations, start \in Asked : Reschedule(p, r, start)
  \/ \E b \in Bookings : Revive(p, b)
  \/ \E e \in Closures : CreateException(p, e)
  \/ \E e \in Closures : DeleteException(p, e)
  \/ \E weekly \in BaseSchedules : UpdateBase(p, weekly)

Work(p) ==
  \/ TakeLock(p) \/ TakeBaseLock(p)
  \/ PlaceSegment(p) \/ Move(p) \/ BringBack(p) \/ Decide(p)
  \/ Commit(p) \/ Conflict(p)

Next ==
  \/ \E p \in Procs : Request(p) \/ Work(p)
  \/ \E r \in Reservations, to \in Elsewhere : Advance(r, to)

Spec == Init /\ [][Next]_vars

\* The database runs every transaction that it can and grants a lock in the
\* order of arrival, so nobody waits for ever for a lock that is freed again
\* and again.
FairSpec == Spec /\ \A p \in Procs : SF_vars(Work(p))

---------------------------------------------------------------------------
(* Properties                                                              *)

\* What a transaction writes lies on the day whose locks it holds. Combos that reach
\* midnight break this, and a revival of an appointment that was moved meanwhile.
WritesOnLockedDay ==
  \A p \in Procs : \A r \in Written(p) :
    DayOf(task[p].pending[r].start) = task[p].day

\* At every instant a category has at most as many appointments as its
\* capacity, whatever bookings, reschedules and revivals run at once.  A
\* client who comes after a NO_SHOW is let in without a place being kept
\* (create-reservation, reservation-rescheduler, revive-reservation).
NeverOverbooked ==
  \A c \in Categories :
    LET kept == {r \in HoldingIn(reservation, c) : ~ reservation[r].late}
    IN  \A t \in Instants :
          Cardinality({r \in kept : /\ Interval(reservation, r).start <= t
                                    /\ t < Interval(reservation, r).end})
            <= Capacity[c]

\* A client has one appointment of a category a day at most, although the
\* requests that would make it two each look before the other has written.
OnePerCategoryAndDay ==
  \A c \in Categories : \A r, s \in HoldingIn(reservation, c) :
    /\ r # s /\ ClientOf[r] = ClientOf[s]
    /\ ~ reservation[r].late /\ ~ reservation[s].late
    => DayOf(reservation[r].start) # DayOf(reservation[s].start)

\* The segments of a booking appear all in one step or not at all, and no two
\* of them at the same time, wherever each was relocated to.
WholeStep ==
  LET created == {r \in Reservations : /\ reservation[r].status = "ABSENT"
                                       /\ reservation'[r].status # "ABSENT"}
  IN created # {} =>
       /\ created \in {Elements(b) : b \in Bookings}
       /\ \A r, s \in created :
            r # s => ~ Plan!Overlap(Interval(reservation', r),
                                    Interval(reservation', s))

\* No step creates a part of a booking, whichever of its segments found no place
\* (create-reservation, one transaction for all of them).
BookingIsWhole == [][WholeStep]_vars

\* An appointment that is still to come is inside the opening hours of its
\* category, whichever way bookings and schedule exceptions interleave
\* (admin-schedule.service.ts, assertNoDisplacedReservations).
WithinOpeningHours ==
  \A r \in Reservations :
    Live(r) /\ ~ reservation[r].late => Inside(r, base, exceptions)

\* Bookings, reschedules and revivals move each row as ReservationStateMachine allows,
\* although the rest of the system cancels, confirms and attends it in between.
StatusesFollowMachine == Machine!Spec

\* The transaction that p waits for.
Blocking(p) ==
  IF pc[p] # "lock" THEN None
  ELSE IF task[p].op = "updateBase" THEN baseLock
  ELSE lock[<<task[p].day, NextCategory(p)>>]

\* Transactions never wait for each other in a circle: combos of the same
\* categories in any order, and exceptions for the whole spa.
NoLockCycle ==
  ~ \E S \in (SUBSET Procs) \ {{}} : \A p \in S : Blocking(p) \in S

\* Every request comes to an end.
TransactionsEnd == \A p \in Procs : pc[p] # "idle" ~> pc[p] = "idle"

\* A client never has two appointments at the same time (claimed by
\* concurrency.int-spec.ts): false, different categories share no lock.
ClientNeverInTwoPlaces ==
  \A r, s \in Reservations :
    /\ r # s /\ ClientOf[r] = ClientOf[s]
    /\ Holds(reservation[r]) /\ Holds(reservation[s])
    => ~ Plan!Overlap(Interval(reservation, r), Interval(reservation, s))

---------------------------------------------------------------------------
(* The inductive invariants behind them                                    *)

Placing == {"book", "reschedule", "revive"}

HasLock(p, c) == lock[<<task[p].day, c>>] = p

\* What a transaction has taken and has still to do, at each of its steps.
Transaction(p) ==
  LET t == task[p]
  IN /\ IF pc[p] = "idle" THEN t = NoTask ELSE t.op \in Operations
     /\ t.op \in Operations \ {"updateBase"} => t.day \in Days
     /\ t.op \in {"createException", "deleteException"} => t.change \in Closures
     /\ t.op = "updateBase" => t.weekly \in BaseSchedules
     /\ IF pc[p] = "lock" THEN t.need = {} <=> t.op = "updateBase" ELSE t.need = {}
     /\ pc[p] = "place" => t.op \in Placing
     /\ t.op \in Placing /\ pc[p] \in {"lock", "place"} => t.todo # <<>>
     /\ t.op = "reschedule" /\ pc[p] \in {"lock", "place"} => Len(t.todo) = 1
     /\ t.op = "reschedule" /\ pc[p] = "place" => Written(p) = {}
     /\ t.op \notin Placing \/ pc[p] \in {"lock", "decide"} => Written(p) = {}
     /\ t.op \in Placing =>
          \A r \in Elements(t.todo) \cup Written(p) :
            CategoryOf[r] \in t.need \/ HasLock(p, CategoryOf[r])
     /\ IsFiniteSet(t.known)

\* Locks are held by transactions on their day, below those they still want.
LocksInOrder ==
  /\ \A k \in Keys, p \in Procs : lock[k] = p =>
       /\ task[p].op \in Operations \ {"updateBase"}
       /\ k[1] = task[p].day
       /\ \A c \in task[p].need : k[2] < c
  /\ \A p \in Procs : baseLock = p =>
       task[p].op = "updateBase" /\ pc[p] \in {"decide", "commit"}

Transactions ==
  /\ TypeOK
  /\ \A p \in Procs : Transaction(p)
  /\ LocksInOrder

\* The appointments that count on day d.
Counted(view, c, d) ==
  {r \in HoldingIn(view, c) : ~ view[r].late /\ DayOf(view[r].start) = d}

\* No category beyond its capacity, no client with two appointments of it.
Sound(view, c, d) ==
  LET counted == Counted(view, c, d)
  IN /\ \A t \in d * DayLength .. (d + 1) * DayLength - 1 :
          Cardinality({r \in counted : /\ Interval(view, r).start <= t
                                       /\ t < Interval(view, r).end})
            <= Capacity[c]
     /\ \A r, s \in counted : r # s => ClientOf[r] # ClientOf[s]

\* An appointment ends on the day on which it begins.
InDay(row, r) ==
  row.status # "ABSENT" =>
    /\ DayOf(row.start) \in Days
    /\ row.start + Duration[r] <= (DayOf(row.start) + 1) * DayLength

\* What is committed is sound, and so is what a transaction sees of the categories
\* it has locked, while all transactions write on their day.
Placements ==
  /\ Transactions
  /\ \A r \in Reservations : InDay(reservation[r], r)
  /\ \A p \in Procs : \A r \in Written(p) : InDay(task[p].pending[r], r)
  /\ \A c \in Categories, d \in Days : Sound(reservation, c, d)
  /\ \A p \in Procs, c \in Categories :
       task[p].op \in Placing /\ HasLock(p, c) => Sound(View(p), c, task[p].day)

\* Segments that begin where the one before ends, from t on, all begin on day d.
Consecutive(b, t, d) ==
  \E f \in [DOMAIN b -> Instants] :
    /\ b # <<>> => f[1] = t
    /\ \A i \in DOMAIN b : DayOf(f[i]) = d
    /\ \A i \in DOMAIN b : i + 1 \in DOMAIN b => f[i + 1] = f[i] + Duration[b[i]]

\* Nobody asks for a combo that reaches midnight, and no day opens at midnight.
Daytime ==
  /\ \A b \in Bookings, t \in Asked : Consecutive(b, t, DayOf(t))
  /\ \A S \in BaseSchedules : \A r \in S : r.from > 0
  /\ \A e \in Closures : e.type = "OPEN" => e.range.from > 0

\* What is brought back was not moved to another day since the request read it.
RevivedInPlace ==
  \A p \in Procs : task[p].op = "revive" /\ pc[p] = "place" =>
    \A r \in Elements(task[p].todo) : DayOf(reservation[r].start) = task[p].day

\* What a request has still to place begins on its day.
Planned(p) ==
  LET t == task[p]
  IN /\ t.op = "book" => \A i \in t.known : i.end <= (t.day + 1) * DayLength
     /\ t.op = "book" /\ pc[p] \in {"lock", "place"} =>
          Consecutive(t.todo, t.ideal, t.day)
     /\ t.op = "reschedule" /\ pc[p] \in {"lock", "place"} => DayOf(t.ideal) = t.day

\* In daytime, if RevivedInPlace, all of this is kept without more ado.
DaytimePlacements ==
  /\ Placements /\ WritesOnLockedDay
  /\ \A p \in Procs : Planned(p)

\* Statuses that rows of earlier versions of the service have, and none here.
Unassessed == {"SOLICITUD_INICIADA", "PENDIENTE_VALORACION"}

\* Row r lies in one window of its day and category.
Fits(row, r, weekly, special) ==
  Hours!FitsIn(Plan!Lasting(row.start, Duration[r]),
               Windows(weekly, special, DayOf(row.start), CategoryOf[r]))

\* What a transaction has written fits the hours, and the change that it is about to
\* commit leaves room for everybody it concerns.
OpenTransaction(p) ==
  LET t == task[p]
  IN /\ t.op # "updateBase"
     /\ \A r \in Written(p) : /\ t.pending[r].status \notin Unassessed
                              /\ Fits(t.pending[r], r, base, exceptions)
     /\ t.op \in {"createException", "deleteException"} =>
          /\ t.day = t.change.day
          /\ \A c \in Affected(t.change) : c \in t.need \/ HasLock(p, c)
          /\ pc[p] = "commit" => \A r \in Concerned(p) :
               ~ reservation[r].late => Fits(reservation[r], r, base, Proposed(p))

\* Where the weekly schedule stays as it is, all of this is kept.
OpenPlacements ==
  /\ DaytimePlacements
  /\ WithinOpeningHours
  /\ \A r \in Reservations : reservation[r].status \notin Unassessed
  /\ \A p \in Procs : OpenTransaction(p)

\* Each request creates rows of its own.
OwnRows ==
  \A b, c \in Bookings : b # c => Elements(b) \cap Elements(c) = {}

\* What a transaction is going to write the state machine allows, whenever it commits.
Allowed(p) ==
  LET t == task[p]
  IN /\ \A r \in Written(p) :
          /\ t.pending[r].status \in
               IF t.op = "reschedule" THEN Reschedulable ELSE {"PENDIENTE_DEPOSITO"}
          /\ t.pending[r].source = "NINGUNA"
     /\ t.op = "book" =>
          /\ t.members \in {Elements(b) : b \in Bookings}
          /\ Elements(t.todo) \cup Written(p) \subseteq t.members
          /\ \A r \in t.members : reservation[r].status = "ABSENT"
          /\ \A q \in Procs \ {p} :
               task[q].op = "book" => t.members \cap task[q].members = {}
     /\ t.op = "revive" => \A r \in Written(p) :
          Revivable(reservation[r]) /\ t.pending[r].start = reservation[r].start

\* In daytime, all of this is kept where requests have rows of their own.
AllowedWrites ==
  /\ DaytimePlacements
  /\ \A r \in Reservations :
       reservation[r].status # "CANCELADA" => reservation[r].source = "NINGUNA"
  /\ \A p \in Procs : Allowed(p)

\* Of the rows of a booking under way some are written and the rest are still to place,
\* and no two of those written cross.
Entire(p) ==
  LET t == task[p]
  IN t.op = "book" =>
       /\ t.members = Elements(t.todo) \cup Written(p)
       /\ pc[p] \in {"lock", "place"} \/ t.todo = <<>>
       /\ \A r, s \in Written(p) :
            r # s => ~ Plan!Overlap(Interval(t.pending, r), Interval(t.pending, s))

\* In daytime, all of this is kept where requests have rows of their own.
WholeBookings == AllowedWrites /\ \A p \in Procs : Entire(p)
=============================================================================
