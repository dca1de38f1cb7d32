----------------------------- MODULE MCDayPlans -----------------------------
(***************************************************************************)
(* The functions of OperatingHours and Placement on every small day that   *)
(* can be made step by step.  An administrator chooses base ranges that do *)
(* not cross (normalizeWeeklySchedule) and adds any exceptions; the        *)
(* deposit clock starts on that day and runs into the next one, which has  *)
(* the base ranges only.  On the standard day, two categories are booked   *)
(* and released one appointment at a time, on the grid of offered slots or *)
(* not (an administrator may pick any minute).                             *)
(***************************************************************************)
EXTENDS OperatingHours, Placement, SequencesExt, FiniteSetsExt, TLC

CONSTANTS
  Grid,           \* base ranges and exceptions begin and end on its multiples
  MaxExceptions,  \* bound: schedule exceptions on the day
  First, Second,  \* the reservations of each category, as model values
  Capacity        \* simultaneous appointments in the first category

ASSUME PlansAssumption ==
  /\ IsFiniteSet(First) /\ IsFiniteSet(Second) /\ First # Second
  /\ Capacity \in Nat

VARIABLES
  base, exceptions,
  held            \* intervals of the reservations that hold a slot

vars == <<base, exceptions, held>>

Marks == {m \in 0 .. MinutesPerDay : m % Grid = 0}

Ranges == {r \in [from : Marks, to : Marks] : r.from < r.to}

BaseSchedules == {S \in SUBSET Ranges :
                    /\ Cardinality(S) <= 2
                    /\ \A r, s \in S : r # s => r.to <= s.from \/ s.to <= r.from}

Exceptions == [type : {"OPEN", "BLOCK"}, category : {First, AnyCategory},
               range : Ranges]

Standard == {Between(0, 4), Between(6, 8)}

Durations == 1 .. 3
Past == -1
Starts == 0 .. MinutesPerDay - 1
Intervals == {Lasting(s, d) : s \in Starts, d \in Durations}

Categories == {First, Second}
CapacityOf(category) == IF category = First THEN Capacity ELSE 1

OnStandardDay == base = Standard /\ exceptions = {}

Windows(category) == OperatingWindows(0, base, exceptions, category)

HeldIn(category) == [r \in category \cap DOMAIN held |-> held[r]]

\* findHoldingIntervalsOverlapping and getHoldingReservationsInRange
HeldOverlapping(category, i) ==
  [r \in {s \in DOMAIN HeldIn(category) : Overlap(held[s], i)} |-> held[r]]

Verdict(category, i, own) ==
  EvaluatePlacement(i, Past, Windows(category), HeldOverlapping(category, i),
                    CapacityOf(category), own, FALSE)

Slots(category, duration) ==
  AvailableSlots(Windows(category), HeldIn(category), duration,
                 CapacityOf(category))

Init == base \in BaseSchedules /\ exceptions = {} /\ held = <<>>

CreateException(e) ==
  /\ held = <<>>
  /\ Cardinality(exceptions) < MaxExceptions
  /\ exceptions' = exceptions \cup {e}
  /\ UNCHANGED <<base, held>>

Hold(category, r, i) ==
  /\ OnStandardDay
  /\ r \notin DOMAIN held
  /\ Verdict(category, i, {}) = "OK"
  /\ held' = [s \in DOMAIN held \cup {r} |-> IF s = r THEN i ELSE held[s]]
  /\ UNCHANGED <<base, exceptions>>

Release(r) ==
  /\ held' = [s \in DOMAIN held \ {r} |-> held[s]]
  /\ UNCHANGED <<base, exceptions>>

Next == \/ \E e \in Exceptions \ exceptions : CreateException(e)
        \/ \E c \in Categories : \E r \in c, i \in Intervals : Hold(c, r, i)
        \/ \E r \in DOMAIN held : Release(r)

Spec == Init /\ [][Next]_vars

Interchangeable == Permutations(First)

---------------------------------------------------------------------------
(* Opening hours and the deposit clock                                     *)

Open(category) ==
  Minutes(base \cup RangesOf(exceptions, "OPEN", category))
    \ Minutes(RangesOf(exceptions, "BLOCK", category))

\* resolveDayMinuteRanges returns the open time of the day as its maximal
\* stretches, in order: two ranges that touch are one window, so an
\* appointment may span them (operating-hours.ts).
WindowsAreOpenTime ==
  \A category \in Categories \cup {AnyCategory} :
    LET windows == ResolveDayMinuteRanges(base, exceptions, category)
    IN /\ Minutes(ToSet(windows)) = Open(category)
       /\ \A i \in DOMAIN windows : windows[i].from < windows[i].to
       /\ \A i \in DOMAIN windows \ {1} : windows[i - 1].to < windows[i].from

\* The open instants of the day and of the next one.
OpenInstants ==
  Open(AnyCategory) \cup {MinutesPerDay + m : m \in Minutes(base)}

Instants(ranges, day) ==
  [i \in DOMAIN ranges |-> [start |-> day * MinutesPerDay + ranges[i].from,
                            end |-> day * MinutesPerDay + ranges[i].to]]

Clocks == [from : {0, 2, 5}, operating : {2, 5}, limit : {5, 10, 16}]

Deadlines(E) ==
  LET windows ==
        Instants(ResolveDayMinuteRanges(base, E, AnyCategory), 0)
          \o Instants(MergeMinuteRanges(base), 1)
  IN [c \in Clocks |->
        ComputeDepositExpiry(c.from, c.operating, c.limit, windows)]

\* The deposit clock counts open time only: the deadline is the first instant
\* by which the spa has been open that long, or the start of the appointment
\* when it comes first (deposit-expiry.ts).
ClockCountsOpenTime ==
  LET open == OpenInstants
      deadlines == Deadlines(exceptions)
  IN \A c \in Clocks :
       LET spent(t) == Cardinality({m \in open : c.from <= m /\ m < t})
           reached == {t \in c.from .. c.limit : spent(t) >= c.operating}
       IN deadlines[c] = IF c.from >= c.limit \/ reached = {} THEN c.limit
                         ELSE CHOOSE t \in reached : \A u \in reached : t <= u

\* Closing time never brings a deadline forward, so that
\* extendForScheduleChange, which keeps the later of the two, writes the
\* deadline of the schedule as it is after a block (deposit-deadline.service.ts).
BlockNeverHastens ==
  [][(\E e \in exceptions' \ exceptions : e.type = "BLOCK") =>
       LET before == Deadlines(exceptions)
           after == Deadlines(exceptions')
       IN \A c \in Clocks : after[c] >= before[c]]_vars

---------------------------------------------------------------------------
(* Placement                                                               *)

\* Looking only at the instants where an interval starts finds the true peak
\* of the load, for held intervals that cross the window in any way
\* (availability-calculator.ts and the query in availability.repository.ts).
PeakIsExact ==
  OnStandardDay =>
    \A c \in Categories, w \in Intervals :
      LET h == HeldIn(c)
      IN MaxConcurrentInWindow(h, w) =
           Max({Cardinality(ActiveAt(h, t)) : t \in w.start .. w.end - 1})

\* The slots a client is offered are the candidates that an evaluation at
\* booking time accepts, although the two read different sets of
\* reservations (generateAvailableSlots, evaluatePlacement).
OfferedSlotsAreAccepted ==
  \A c \in Categories, d \in Durations :
    Slots(c, d) = {s \in Candidates(Windows(c), d) :
                     Verdict(c, Lasting(s, d), {}) = "OK"}

\* resolvePlacement does not evaluate the slot it relocates a booking to: it
\* would be accepted all the same, and a booking is refused only when no
\* candidate of that day would be (create-reservation.orchestrator.ts).
RelocationIsAccepted ==
  OnStandardDay =>
    \A c \in Categories, d \in Durations :
      LET slots == Slots(c, d)
      IN \A ideal \in Starts,
              known \in {{}} \cup {{Lasting(s, 2)} : s \in Starts} :
           LET from == Adjusted(ideal, d, known)
               start == ResolvePlacement(from,
                          Verdict(c, Lasting(from, d), known),
                          slots, ideal, d, known)
           IN IF start = NoSlot
                THEN \A s \in Candidates(Windows(c), d) :
                       Verdict(c, Lasting(s, d), known) # "OK"
                ELSE Verdict(c, Lasting(start, d), known) = "OK"

\* A combo that the calendar offers is booked as shown: every segment goes
\* to its time without adjustment (combo-availability.ts, resolvePlacement).
CombosBookAsOffered ==
  OnStandardDay => \A c \in Categories, d \in Durations, e \in Durations :
    LET other == CHOOSE k \in Categories : k # c
        offered == ComboStarts(<<[duration |-> d, slots |-> Slots(c, d)],
                                 [duration |-> e, slots |-> Slots(other, e)]>>,
                               Past)
    IN \A s \in offered :
         /\ Verdict(c, Lasting(s, d), {}) = "OK"
         /\ Adjusted(s + d, e, {Lasting(s, d)}) = s + d
         /\ Verdict(other, Lasting(s + d, e), {Lasting(s, d)}) = "OK"

\* What the calendar offers, a slot or the start of a combo, is booked as shown
\* (availability-calculator.ts, combo-availability.ts).
OffersAreBooked == OfferedSlotsAreAccepted /\ CombosBookAsOffered

\* The day is open when the schedule and its exceptions say, and the deposit clock
\* runs then and only then (operating-hours.ts, deposit-expiry.ts).
OpenTimeIsExact == WindowsAreOpenTime /\ ClockCountsOpenTime
=============================================================================
