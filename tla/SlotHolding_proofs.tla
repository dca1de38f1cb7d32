------------------------- MODULE SlotHolding_proofs -------------------------
(***************************************************************************)
(* Proofs about SlotHolding, for every number of handlers, reservations,   *)
(* categories and days.                                                    *)
(***************************************************************************)
EXTENDS SlotHolding, FiniteSetTheorems, SequenceTheorems, TLAPS

---------------------------------------------------------------------------
(* Least and greatest elements                                             *)

LEMMA LeastNatural ==
  ASSUME NEW S, S \subseteq Nat, S # {}
  PROVE  \E n \in S : \A m \in S : n <= m
<1> DEFINE R == OpToRel(<, Nat)
<1>1. IsWellFoundedOn(R, Nat)
  BY NatLessThanWellFounded, Zenon
<1> HIDE DEF R
<1>2. PICK n \in S : \A m \in S : ~ (<<m, n>> \in R)
  BY <1>1, WFMin
<1>3. \A m \in Nat : m < n => <<m, n>> \in R
  <2>1. n \in Nat
    OBVIOUS
  <2> QED
    BY <2>1, Zenon DEF R, OpToRel
<1>4. \A m \in S : ~ (m < n)
  BY <1>2, <1>3
<1> QED
  BY <1>4

\* The values of a function on a finite set.
LEMMA FiniteImage ==
  ASSUME NEW S, IsFiniteSet(S), NEW f, f = [x \in S |-> f[x]]
  PROVE  IsFiniteSet({f[x] : x \in S})
<1> DEFINE T == {f[x] : x \in S}
<1>1. f \in Surjection(S, T)
  BY DEF Surjection
<1> HIDE DEF T
<1>2. IsFiniteSet(T)
  BY <1>1, FS_Surjection
<1> QED
  BY <1>2 DEF T

LEMMA GreatestElement ==
  ASSUME NEW S, S \subseteq Int, IsFiniteSet(S), S # {}
  PROVE  \E m \in S : \A x \in S : x <= m
<1> DEFINE Above(x) == {y \in S : y > x}
<1>1. \A x \in S : /\ IsFiniteSet(Above(x)) /\ Cardinality(Above(x)) \in Nat
  BY FS_Subset, FS_CardinalityType
<1> DEFINE Sizes == {Cardinality(Above(x)) : x \in S}
<1>2. PICK m \in S : \A x \in S : Cardinality(Above(m)) <= Cardinality(Above(x))
  <2> HIDE DEF Above
  <2>1. Sizes \subseteq Nat /\ Sizes # {}
    BY <1>1
  <2>2. PICK n \in Sizes : \A k \in Sizes : n <= k
    BY <2>1, LeastNatural
  <2> QED
    BY <2>2
<1>3. ASSUME NEW x \in S, x > m
      PROVE  FALSE
  <2>1. /\ Above(x) \subseteq Above(m)
        /\ x \in Above(m) /\ x \notin Above(x)
    <3>1. S \subseteq Int /\ x \in Int /\ m \in Int
      OBVIOUS
    <3>2. ~ (x > x) /\ \A y \in Int : y > x => y > m
      BY <1>3, <3>1
    <3>3. \A y \in Above(x) : y \in Above(m)
      BY <3>1, <3>2
    <3> QED
      BY <1>3, <3>2, <3>3
  <2>2. Cardinality(Above(x)) <= Cardinality(Above(m))
    BY <1>1, <2>1, FS_Subset
  <2>3. Cardinality(Above(x)) = Cardinality(Above(m))
    BY <1>1, <1>2, <2>2
  <2> QED
    BY <1>1, <2>1, <2>3, FS_Subset
<1> QED
  BY <1>3

---------------------------------------------------------------------------
(* Days                                                                    *)

LEMMA DayBounds ==
  ASSUME NEW t \in Nat
  PROVE  /\ DayOf(t) \in Nat
         /\ DayOf(t) * DayLength <= t
         /\ t < (DayOf(t) + 1) * DayLength
BY BookingAssumption DEF DayOf

LEMMA DayUnique ==
  ASSUME NEW t \in Nat, NEW d \in Nat, d * DayLength <= t, t < (d + 1) * DayLength
  PROVE  DayOf(t) = d
BY BookingAssumption DEF DayOf

\* What is proved of OperatingHours, for days of this length.
HoursProofs == INSTANCE OperatingHours_proofs WITH MinutesPerDay <- DayLength

LEMMA SameHours ==
  \A S, E, c : HoursProofs!ResolveDayMinuteRanges(S, E, c)
                 = Hours!ResolveDayMinuteRanges(S, E, c)
<1> SUFFICES ASSUME NEW S, NEW E, NEW c
             PROVE  HoursProofs!ResolveDayMinuteRanges(S, E, c)
                      = Hours!ResolveDayMinuteRanges(S, E, c)
  OBVIOUS
<1>1. PICK open, block : /\ open = S \cup Hours!RangesOf(E, "OPEN", c)
                         /\ block = Hours!RangesOf(E, "BLOCK", c)
  OBVIOUS
<1>2. \A type : HoursProofs!RangesOf(E, type, c) = Hours!RangesOf(E, type, c)
  BY DEF HoursProofs!RangesOf, HoursProofs!ExceptionAppliesTo,
    Hours!RangesOf, Hours!ExceptionAppliesTo
<1>3. HoursProofs!SubtractMinuteRanges(open, block) = Hours!SubtractMinuteRanges(open, block)
  BY DEF
    HoursProofs!SubtractMinuteRanges, HoursProofs!MergeMinuteRanges, HoursProofs!Latest,
    HoursProofs!Earlier, HoursProofs!Absorb, HoursProofs!Later, HoursProofs!Last,
    HoursProofs!CutOut, HoursProofs!Pieces, HoursProofs!Between, HoursProofs!FoldLeft,
    HoursProofs!MapThenFoldSet, HoursProofs!Max,
    Hours!SubtractMinuteRanges, Hours!MergeMinuteRanges, Hours!Latest, Hours!Earlier,
    Hours!Absorb, Hours!Later, Hours!Last, Hours!CutOut, Hours!Pieces, Hours!Between,
    Hours!FoldLeft, Hours!MapThenFoldSet, Hours!Max
<1>4. /\ open = S \cup HoursProofs!RangesOf(E, "OPEN", c)
      /\ block = HoursProofs!RangesOf(E, "BLOCK", c)
  <2>1. HoursProofs!RangesOf(E, "OPEN", c) = Hours!RangesOf(E, "OPEN", c)
    BY <1>2, Zenon
  <2>2. HoursProofs!RangesOf(E, "BLOCK", c) = Hours!RangesOf(E, "BLOCK", c)
    BY <1>2, Zenon
  <2> QED
    BY <1>1, <2>1, <2>2, Zenon
<1>5. HoursProofs!ResolveDayMinuteRanges(S, E, c) = HoursProofs!SubtractMinuteRanges(open, block)
  BY <1>4, Zenon DEF HoursProofs!ResolveDayMinuteRanges
<1>6. Hours!ResolveDayMinuteRanges(S, E, c) = Hours!SubtractMinuteRanges(open, block)
  BY <1>1, Zenon DEF Hours!ResolveDayMinuteRanges
<1> QED
  BY <1>3, <1>5, <1>6, Zenon

\* Resolved windows are made of minutes of the day, and none begins before what opens it.
LEMMA ResolvedInDay ==
  ASSUME NEW S \in BaseSchedules, NEW E, E \subseteq Closures, NEW c,
         NEW i \in DOMAIN Hours!ResolveDayMinuteRanges(S, E, c)
  PROVE  LET window == Hours!ResolveDayMinuteRanges(S, E, c)[i]
         IN /\ window.from \in 0 .. DayLength /\ window.to \in 0 .. DayLength
            /\ \E q \in S \cup {e.range : e \in {x \in E : x.type = "OPEN"}} :
                 q.from <= window.from
<1> DEFINE windows == HoursProofs!ResolveDayMinuteRanges(S, E, c)
           open == S \cup HoursProofs!RangesOf(E, "OPEN", c)
<1>1. windows = Hours!ResolveDayMinuteRanges(S, E, c)
  BY SameHours
<1>2. S \subseteq HoursProofs!DayRange /\ \A e \in E : e.range \in HoursProofs!DayRange
  BY HoursAssumption DEF HoursProofs!DayRange
<1>3. HoursProofs!DayAssumption
  BY BookingAssumption DEF HoursProofs!DayAssumption
<1>4. /\ HoursProofs!Subtracted(open, HoursProofs!RangesOf(E, "BLOCK", c), windows)
      /\ \A k \in DOMAIN windows : windows[k] \in HoursProofs!DayRange
  BY <1>2, <1>3, HoursProofs!ResolveIsExact
<1>5. open \subseteq S \cup {e.range : e \in {x \in E : x.type = "OPEN"}}
  BY DEF HoursProofs!RangesOf
<1> HIDE DEF windows, open
<1>6. i \in DOMAIN windows /\ windows[i] \in HoursProofs!DayRange
  BY <1>1, <1>4
<1>7. PICK q \in open : q.from <= windows[i].from
  BY <1>4, <1>6 DEF HoursProofs!Subtracted
<1> QED
  BY <1>1, <1>5, <1>6, <1>7 DEF HoursProofs!DayRange

\* The windows of a day lie in that day.
LEMMA WindowsInDay ==
  ASSUME NEW S \in BaseSchedules, NEW E, E \subseteq Closures, NEW d \in Nat,
         NEW c \in Categories, NEW w \in Windows(S, E, d, c)
  PROVE  /\ w.start \in Nat /\ w.end \in Nat
         /\ d * DayLength <= w.start /\ w.end <= (d + 1) * DayLength
<1> DEFINE ranges == Hours!ResolveDayMinuteRanges(S, {e \in E : e.day = d}, c)
           day == d * DayLength
<1>1. PICK i \in DOMAIN ranges :
        w = [start |-> day + ranges[i].from, end |-> day + ranges[i].to]
  BY DEF Windows, Hours!OperatingWindows
<1>2. ranges[i].from \in 0 .. DayLength /\ ranges[i].to \in 0 .. DayLength
  BY ResolvedInDay
<1>3. day \in Nat /\ (d + 1) * DayLength = day + DayLength /\ DayLength \in Nat
  BY BookingAssumption
<1> HIDE DEF ranges, day
<1>4. w.start = day + ranges[i].from /\ w.end = day + ranges[i].to
  BY <1>1
<1>5. w.start \in Nat /\ w.end \in Nat /\ day <= w.start /\ w.end <= day + DayLength
  BY <1>2, <1>3, <1>4
<1> QED
  BY <1>3, <1>5 DEF day

---------------------------------------------------------------------------
(* The load of a category                                                  *)

LEMMA SameCardinality == \A S : Plan!Cardinality(S) = Cardinality(S)
BY DEF Plan!Cardinality, Cardinality

\* Intervals of some reservations.
Held == [start : Nat, end : Nat]

\* Whatever the instant, the load is at most what it is where an interval starts.
LEMMA PeakAtStart ==
  ASSUME NEW D, IsFiniteSet(D), NEW held \in [D -> Held],
         NEW w \in Held, NEW t \in Nat, w.start <= t, t < w.end
  PROVE  \E point \in Plan!CriticalPoints(held, w) :
           Plan!ActiveAt(held, t) \subseteq Plan!ActiveAt(held, point)
<1> DEFINE Late == {r \in Plan!ActiveAt(held, t) : w.start <= held[r].start}
           Starts == {held[r].start : r \in Late}
<1>1. /\ DOMAIN held = D
      /\ \A r \in D : held[r].start \in Nat /\ held[r].end \in Nat
      /\ w.start \in Nat /\ w.end \in Nat
  BY DEF Held
<1>2. CASE Late = {}
  <2>1. w.start \in Plan!CriticalPoints(held, w)
    BY DEF Plan!CriticalPoints
  <2>2. Plan!ActiveAt(held, t) \subseteq Plan!ActiveAt(held, w.start)
    BY <1>1, <1>2 DEF Plan!ActiveAt
  <2> QED
    BY <2>1, <2>2
<1>3. CASE Late # {}
  <2>1. IsFiniteSet(Starts) /\ Starts # {} /\ Starts \subseteq Int
    <3>1. IsFiniteSet(Late)
      BY <1>1, FS_Subset DEF Plan!ActiveAt
    <3> HIDE DEF Late
    <3> DEFINE f == [r \in Late |-> held[r].start]
    <3>2. f = [r \in Late |-> f[r]] /\ Starts = {f[r] : r \in Late}
      OBVIOUS
    <3> HIDE DEF f, Starts
    <3>3. IsFiniteSet({f[r] : r \in Late})
      BY <3>1, <3>2, FiniteImage
    <3>4. \A r \in Late : held[r].start \in Int
      BY <1>1 DEF Late, Plan!ActiveAt
    <3> QED
      BY <1>3, <3>2, <3>3, <3>4 DEF Starts
  <2>2. PICK s \in Late : \A r \in Late : held[r].start <= held[s].start
    <3>1. PICK m \in Starts : \A x \in Starts : x <= m
      BY <2>1, GreatestElement
    <3> QED
      BY <3>1
  <2>3. held[s].start \in Plan!CriticalPoints(held, w)
    BY <1>1, <2>2 DEF Plan!CriticalPoints, Plan!ActiveAt
  <2>4. Plan!ActiveAt(held, t) \subseteq Plan!ActiveAt(held, held[s].start)
    BY <1>1, <2>2 DEF Plan!ActiveAt
  <2> QED
    BY <2>3, <2>4
<1> QED
  BY <1>2, <1>3

\* maxConcurrentInWindow bounds the load at every instant of the window.
LEMMA PeakBounds ==
  ASSUME NEW D, IsFiniteSet(D), NEW held \in [D -> Held],
         NEW w \in Held, NEW t \in Nat, w.start <= t, t < w.end
  PROVE  /\ Plan!MaxConcurrentInWindow(held, w) \in Nat
         /\ Cardinality(Plan!ActiveAt(held, t))
              <= Plan!MaxConcurrentInWindow(held, w)
<1> DEFINE Load(x) == Cardinality(Plan!ActiveAt(held, x))
           Loads == {Load(x) : x \in Plan!CriticalPoints(held, w)}
<1>1. \A x : /\ IsFiniteSet(Plan!ActiveAt(held, x))
             /\ Load(x) \in Nat /\ Load(x) <= Cardinality(D)
  <2>1. \A x : Plan!ActiveAt(held, x) \in SUBSET D
    BY DEF Plan!ActiveAt
  <2> QED
    BY <2>1, FS_Subset, FS_CardinalityType
<1>2. PICK point \in Plan!CriticalPoints(held, w) :
        Plan!ActiveAt(held, t) \subseteq Plan!ActiveAt(held, point)
  BY PeakAtStart
<1>3. PICK m \in Loads : \A n \in Loads : n <= m
  <2>1. Loads \subseteq Nat /\ Loads # {} /\ \A n \in Loads : n <= Cardinality(D)
    BY <1>1, <1>2
  <2>2. Cardinality(D) \in Nat
    BY FS_CardinalityType
  <2>3. IsFiniteSet(Loads)
    BY <2>1, <2>2, FS_BoundedSetOfNaturals
  <2> QED
    <3> HIDE DEF Loads
    <3>1. Loads \subseteq Int
      BY <2>1
    <3> QED
      BY <2>1, <2>3, <3>1, GreatestElement
<1>4. /\ Plan!MaxConcurrentInWindow(held, w) \in Loads
      /\ \A n \in Loads : n <= Plan!MaxConcurrentInWindow(held, w)
  BY <1>3, SameCardinality DEF Plan!MaxConcurrentInWindow
<1>5. Load(t) <= Load(point)
  BY <1>1, <1>2, FS_Subset
<1>6. Load(point) <= Plan!MaxConcurrentInWindow(held, w)
  BY <1>4
<1>7. Plan!MaxConcurrentInWindow(held, w) \in Nat
  BY <1>1, <1>4
<1> HIDE DEF Load
<1> QED
  BY <1>1, <1>5, <1>6, <1>7 DEF Load

---------------------------------------------------------------------------
(* Where a segment goes                                                    *)

LEMMA NearestIsOffered ==
  ASSUME NEW slots, slots \subseteq Nat, slots # {}, NEW ideal \in Nat
  PROVE  Plan!NearestSlot(slots, ideal) \in slots
<1> DEFINE D(s) == Plan!Distance(s, ideal)
           Distances == {D(s) : s \in slots}
<1>1. \A s \in slots : D(s) \in Nat
  BY DEF Plan!Distance
<1>2. PICK n \in Distances : \A m \in Distances : n <= m
  <2> HIDE DEF D
  <2>1. Distances \subseteq Nat /\ Distances # {}
    BY <1>1
  <2> HIDE DEF Distances
  <2> QED
    BY <2>1, LeastNatural
<1> DEFINE Nearest == {s \in slots : D(s) = n}
<1>3. PICK s \in Nearest : \A x \in Nearest : s <= x
  <2>1. Nearest \subseteq Nat /\ Nearest # {}
    OBVIOUS
  <2> HIDE DEF Nearest
  <2> QED
    BY <2>1, LeastNatural
<1>4. \A x \in slots : D(s) < D(x) \/ (D(s) = D(x) /\ s <= x)
  <2> HIDE DEF D
  <2>1. ASSUME NEW x \in slots, ~ (D(s) < D(x))
        PROVE  D(s) = D(x) /\ s <= x
    <3>1. D(s) = n /\ n <= D(x) /\ D(x) \in Nat /\ D(s) \in Nat
      BY <1>1, <1>2
    <3>2. D(x) = n
      BY <2>1, <3>1
    <3> QED
      BY <1>3, <3>1, <3>2
  <2> QED
    BY <2>1
<1> QED
  BY <1>3, <1>4 DEF Plan!NearestSlot

\* A start that is relocated is one that is offered, or there is none.
LEMMA RelocatedIsOffered ==
  ASSUME NEW slots, slots \subseteq Nat, NEW ideal \in Nat, NEW duration, NEW known
  PROVE  LET s == Plan!Relocated(slots, ideal, duration, known)
         IN  s = NoSlot \/ s \in slots
<1> DEFINE apart == {s \in slots : ~ Plan!OverlapsAny(Plan!Lasting(s, duration), known)}
<1>1. apart \subseteq Nat /\ apart \subseteq slots
  OBVIOUS
<1>2. Plan!Relocated(slots, ideal, duration, known) =
        IF apart = {} THEN NoSlot ELSE Plan!NearestSlot(apart, ideal)
  BY DEF Plan!Relocated
<1> HIDE DEF apart
<1> QED
  BY <1>1, <1>2, NearestIsOffered

\* A start that is offered lies on its day and has room.
LEMMA OfferedHasRoom ==
  ASSUME NEW S \in BaseSchedules, NEW E, E \subseteq Closures, NEW d \in Nat,
         NEW c \in Categories, NEW held, NEW duration \in Nat \ {0}, NEW capacity,
         NEW s \in Plan!AvailableSlots(Windows(S, E, d, c), held, duration, capacity)
  PROVE  /\ s \in Nat /\ DayOf(s) = d
         /\ s + duration <= (d + 1) * DayLength
         /\ Plan!MaxConcurrentInWindow(held, Plan!Lasting(s, duration)) < capacity
<1>1. PICK w \in Windows(S, E, d, c) : s \in w.start .. w.end - duration
  BY DEF Plan!AvailableSlots, Plan!Candidates
<1>2. /\ w.start \in Nat /\ w.end \in Nat
      /\ d * DayLength <= w.start /\ w.end <= (d + 1) * DayLength
  BY WindowsInDay
<1>3. d * DayLength \in Nat /\ (d + 1) * DayLength \in Nat
  BY BookingAssumption
<1>4. /\ s \in Nat /\ d * DayLength <= s /\ s + duration <= (d + 1) * DayLength
      /\ s < (d + 1) * DayLength
  BY <1>1, <1>2, <1>3
<1> QED
  BY <1>4, DayUnique DEF Plan!AvailableSlots

\* A place that is accepted lies on its day and crosses nobody's.
LEMMA AcceptedHasRoom ==
  ASSUME NEW view, NEW r \in Reservations, NEW start \in Nat,
         base \in BaseSchedules, exceptions \subseteq Closures,
         Verdict(view, r, start) = "OK"
  PROVE  LET i == Plan!Lasting(start, Duration[r])
             c == CategoryOf[r]
         IN  /\ start + Duration[r] <= (DayOf(start) + 1) * DayLength
             /\ ~ HasActiveInCategory(view, ClientOf[r], c, DayOf(start), r)
             /\ ~ (Plan!MaxConcurrentInWindow(HeldOverlapping(view, c, i, r), i)
                      >= Capacity[c])
<1> DEFINE i == Plan!Lasting(start, Duration[r])
           c == CategoryOf[r]
           d == DayOf(start)
<1>1. /\ \E w \in Windows(base, exceptions, d, c) : i.start >= w.start /\ i.end <= w.end
      /\ ~ HasActiveInCategory(view, ClientOf[r], c, d, r)
      /\ ~ (Plan!MaxConcurrentInWindow(HeldOverlapping(view, c, i, r), i) >= Capacity[c])
  BY DEF Verdict, Plan!EvaluatePlacement
<1>2. PICK w \in Windows(base, exceptions, d, c) : i.end <= w.end
  BY <1>1
<1>3. c \in Categories /\ d \in Nat /\ Duration[r] \in Nat
  BY BookingAssumption, DayBounds
<1>4. w.end \in Nat /\ w.end <= (d + 1) * DayLength /\ (d + 1) * DayLength \in Nat
  <2>1. (d + 1) * DayLength \in Nat
    BY <1>3, BookingAssumption
  <2> HIDE DEF d, c
  <2> QED
    BY <1>3, <2>1, WindowsInDay
<1>5. i.end = start + Duration[r]
  BY DEF Plan!Lasting
<1>6. start + Duration[r] <= (d + 1) * DayLength
  BY <1>2, <1>3, <1>4, <1>5
<1> QED
  BY <1>1, <1>6

---------------------------------------------------------------------------
(* What is read                                                            *)

LEMMA RowFields ==
  ASSUME NEW view \in [Reservations -> Row], NEW r \in Reservations
  PROVE  /\ view[r] \in Row
         /\ view[r].start \in Nat /\ view[r].late \in BOOLEAN
         /\ Interval(view, r) \in Held
         /\ Interval(view, r).start = view[r].start
         /\ Interval(view, r).end = view[r].start + Duration[r]
         /\ Interval(view, r).end \in Nat
<1>1. view[r].start \in Nat /\ view[r].late \in BOOLEAN /\ Duration[r] \in Nat
  BY BookingAssumption DEF Row
<1> QED
  BY <1>1 DEF Interval, Plan!Lasting, Held

\* The fields of a task.
TaskFields(t) ==
  /\ t \in Task
  /\ t.op \in Operations \cup {None} /\ t.members \subseteq Reservations
  /\ t.day \in Nat /\ t.need \subseteq Categories /\ t.todo \in Seq(Reservations)
  /\ t.ideal \in Nat /\ t.from \in Nat /\ t.known \subseteq Held
  /\ t.pending \in [Reservations -> Row]
  /\ t.change \in Closures \cup {None} /\ t.weekly \in BaseSchedules \cup {None}

LEMMA TaskParts ==
  ASSUME NEW t \in Task
  PROVE  TaskFields(t)
BY DEF TaskFields, Task, Held

LEMMA StateFields ==
  ASSUME TypeOK, NEW p \in Procs
  PROVE  /\ TaskFields(task[p]) /\ pc[p] \in Steps
         /\ reservation \in [Reservations -> Row]
         /\ base \in BaseSchedules /\ exceptions \subseteq Closures
BY TaskParts DEF TypeOK

LEMMA ViewType ==
  ASSUME TypeOK, NEW p \in Procs
  PROVE  /\ View(p) \in [Reservations -> Row]
         /\ \A r \in Reservations :
              View(p)[r] = IF r \in Written(p) THEN task[p].pending[r]
                                               ELSE reservation[r]
BY StateFields DEF View, TaskFields

LEMMA ClientIntervalsType ==
  ASSUME NEW view \in [Reservations -> Row], NEW client, NEW d, NEW exclude
  PROVE  /\ ClientIntervals(view, client, d, exclude) \subseteq Held
         /\ IsFiniteSet(ClientIntervals(view, client, d, exclude))
<1> DEFINE T == {s \in Reservations \ {exclude} :
                   /\ ClientOf[s] = client /\ Holds(view[s])
                   /\ Plan!Overlap(Interval(view, s), WholeDay(d))}
           f == [r \in T |-> Interval(view, r)]
<1>1. ClientIntervals(view, client, d, exclude) = {f[r] : r \in T}
  BY DEF ClientIntervals
<1>2. T \subseteq Reservations /\ IsFiniteSet(T)
  BY BookingAssumption, FS_Subset
<1>3. \A r \in T : f[r] \in Held
  BY RowFields
<1>4. f = [r \in T |-> f[r]]
  OBVIOUS
<1> HIDE DEF f, T
<1> QED
  BY <1>1, <1>2, <1>3, <1>4, FiniteImage

LEMMA ConflictsType ==
  ASSUME TypeOK, NEW p \in Procs, IsFiniteSet(task[p].known)
  PROVE  Conflicts(p) \subseteq Held /\ IsFiniteSet(Conflicts(p))
<1> DEFINE f == [r \in Written(p) |-> Interval(task[p].pending, r)]
<1>1. Conflicts(p) = task[p].known \cup {f[r] : r \in Written(p)}
  BY DEF Conflicts
<1>2. Written(p) \subseteq Reservations /\ IsFiniteSet(Written(p))
  BY BookingAssumption, FS_Subset DEF Written
<1>3. \A r \in Written(p) : f[r] \in Held
  BY <1>2, RowFields, StateFields DEF TaskFields
<1>4. f = [r \in Written(p) |-> f[r]]
  OBVIOUS
<1> HIDE DEF f
<1>5. IsFiniteSet({f[r] : r \in Written(p)})
  BY <1>2, <1>4, FiniteImage
<1>6. task[p].known \subseteq Held
  BY StateFields DEF TaskFields
<1> QED
  BY <1>1, <1>3, <1>5, <1>6, FS_Union

LEMMA AdjustedType ==
  ASSUME NEW known, known \subseteq Held, IsFiniteSet(known), NEW ideal \in Nat,
         NEW duration
  PROVE  Plan!Adjusted(ideal, duration, known) \in Nat
<1> DEFINE crossed == {j \in known : Plan!Overlap(Plan!Lasting(ideal, duration), j)}
           f == [j \in crossed |-> j.end]
           Ends == {f[j] : j \in crossed}
<1>1. CASE crossed = {}
  BY <1>1 DEF Plan!Adjusted
<1>2. CASE crossed # {}
  <2>1. IsFiniteSet(crossed) /\ crossed \subseteq Held
    BY FS_Subset
  <2>2. \A j \in crossed : f[j] = j.end /\ j.end \in Nat
    BY <2>1 DEF Held
  <2>3. f = [j \in crossed |-> f[j]]
    OBVIOUS
  <2>4. PICK j \in crossed : \A k \in crossed : k.end <= j.end
    <3> HIDE DEF f, crossed
    <3>1. IsFiniteSet(Ends) /\ Ends \subseteq Int /\ Ends # {}
      BY <1>2, <2>1, <2>2, <2>3, FiniteImage
    <3>2. PICK m \in Ends : \A x \in Ends : x <= m
      <4> HIDE DEF Ends
      <4> QED
        BY <3>1, GreatestElement
    <3> QED
      BY <2>2, <3>2
  <2> DEFINE last == CHOOSE x \in crossed : \A k \in crossed : k.end <= x.end
  <2>5. last \in crossed
    BY <2>4
  <2>6. Plan!Adjusted(ideal, duration, known) = last.end
    BY <1>2 DEF Plan!Adjusted
  <2> HIDE DEF last, crossed
  <2> QED
    BY <2>2, <2>5, <2>6
<1> QED
  BY <1>1, <1>2

\* Where a new segment goes: its interval lies in one day and has room, on what was
\* held across it, or on the day of the locks.
LEMMA ChosenHasRoom ==
  ASSUME TypeOK, NEW p \in Procs, IsFiniteSet(task[p].known), NEW r \in Reservations,
         Chosen(p, r) # NoSlot
  PROVE  LET s == Chosen(p, r)
             c == CategoryOf[r]
             i == Plan!Lasting(s, Duration[r])
         IN  /\ s \in Nat /\ s + Duration[r] <= (DayOf(s) + 1) * DayLength
             /\ \/ ~ (Plan!MaxConcurrentInWindow(
                        HeldOverlapping(View(p), c, i, r), i) >= Capacity[c])
                \/ Plan!MaxConcurrentInWindow(
                     HeldInDay(View(p), c, task[p].day), i) < Capacity[c]
<1> DEFINE c == CategoryOf[r]
           ideal == task[p].ideal
           known == Conflicts(p)
           candidate == Plan!Adjusted(ideal, Duration[r], known)
           verdict == Verdict(View(p), r, candidate)
           slots == Plan!AvailableSlots(
                      Windows(base, exceptions, DayOf(ideal), c),
                      HeldInDay(View(p), c, task[p].day), Duration[r], Capacity[c])
           s == Chosen(p, r)
<1>1. s = Plan!ResolvePlacement(candidate, verdict, slots, ideal, Duration[r], known)
  BY DEF Chosen
<1>2. /\ ideal \in Nat /\ base \in BaseSchedules /\ exceptions \subseteq Closures
      /\ c \in Categories /\ Duration[r] \in Nat \ {0} /\ DayOf(ideal) \in Nat
  BY StateFields, BookingAssumption, DayBounds DEF TaskFields
<1>3. candidate \in Nat
  BY <1>2, ConflictsType, AdjustedType
<1>4. CASE verdict = "OK"
  <2>1. s = candidate
    BY <1>1, <1>4 DEF Plan!ResolvePlacement
  <2> HIDE DEF candidate
  <2> QED
    BY <1>2, <1>3, <1>4, <2>1, AcceptedHasRoom
<1>5. CASE verdict # "OK"
  <2>1. \A x \in slots :
          /\ x \in Nat /\ DayOf(x) = DayOf(ideal)
          /\ x + Duration[r] <= (DayOf(ideal) + 1) * DayLength
          /\ Plan!MaxConcurrentInWindow(
               HeldInDay(View(p), c, task[p].day), Plan!Lasting(x, Duration[r]))
                 < Capacity[c]
    BY <1>2, OfferedHasRoom
  <2>2. s \in slots
    <3>1. s = Plan!Relocated(slots, ideal, Duration[r], known)
      BY <1>1, <1>5 DEF Plan!ResolvePlacement
    <3>2. slots \subseteq Nat
      BY <2>1
    <3> HIDE DEF slots, ideal, known
    <3> QED
      BY <1>2, <3>1, <3>2, RelocatedIsOffered
  <2> HIDE DEF slots
  <2> QED
    BY <2>1, <2>2
<1> QED
  BY <1>4, <1>5

---------------------------------------------------------------------------
(* Steps and locks                                                         *)

LEMMA NoTaskType == NoRow \in Row /\ NoTask \in Task
<1>1. NoRow \in Row
  BY DEF NoRow, Row, Machine!Statuses, Machine!Sources
<1>2. [r \in Reservations |-> NoRow] \in [Reservations -> Row]
  BY <1>1
<1>3. <<>> \in Seq(Reservations)
  OBVIOUS
<1> QED
  BY <1>1, <1>2, <1>3 DEF NoTask, Task

\* The part of LocksInOrder that is about p.
Ordered(p) ==
  /\ \A k \in Keys : lock[k] = p =>
       /\ task[p].op \in Operations \ {"updateBase"}
       /\ k[1] = task[p].day
       /\ \A c \in task[p].need : k[2] < c
  /\ baseLock = p => task[p].op = "updateBase" /\ pc[p] \in {"decide", "commit"}

LEMMA OrderedByAll == LocksInOrder <=> \A p \in Procs : Ordered(p)
BY DEF LocksInOrder, Ordered

\* A step of p leaves the others where they are and with what they hold.
Apart(p) ==
  /\ \A q \in Procs \ {p} : pc'[q] = pc[q] /\ task'[q] = task[q]
  /\ \A k \in Keys, q \in Procs \ {p} : lock'[k] = q <=> lock[k] = q
  /\ \A q \in Procs \ {p} : baseLock' = q <=> baseLock = q

LEMMA GotoApart ==
  ASSUME TypeOK, NEW p \in Procs, NEW step \in Steps, NEW t \in Task, Goto(p, step, t)
  PROVE  /\ pc'[p] = step /\ task'[p] = t
         /\ \A q \in Procs \ {p} : pc'[q] = pc[q] /\ task'[q] = task[q]
         /\ pc' \in [Procs -> Steps] /\ task' \in [Procs -> Task]
BY DEF TypeOK, Goto

\* The end of a transaction frees what p held and nothing else.
LEMMA FinishFrees ==
  ASSUME TypeOK, NEW p \in Procs, Finish(p)
  PROVE  /\ pc'[p] = "idle" /\ task'[p] = NoTask
         /\ pc' \in [Procs -> Steps] /\ task' \in [Procs -> Task]
         /\ lock' \in [Keys -> Procs \cup {None}] /\ baseLock' \in Procs \cup {None}
         /\ \A k \in Keys : lock'[k] # p
         /\ baseLock' # p
         /\ Apart(p)
<1>1. /\ pc'[p] = "idle" /\ task'[p] = NoTask
      /\ pc' \in [Procs -> Steps] /\ task' \in [Procs -> Task]
      /\ \A q \in Procs \ {p} : pc'[q] = pc[q] /\ task'[q] = task[q]
  BY NoTaskType DEF Finish, TypeOK, Steps
<1>2. None \notin Procs
  BY BookingAssumption
<1>3. /\ lock' \in [Keys -> Procs \cup {None}]
      /\ \A k \in Keys : lock'[k] # p
      /\ \A k \in Keys, q \in Procs \ {p} : lock'[k] = q <=> lock[k] = q
  BY <1>2 DEF Finish, TypeOK
<1>4. /\ baseLock' \in Procs \cup {None} /\ baseLock' # p
      /\ \A q \in Procs \ {p} : baseLock' = q <=> baseLock = q
  BY <1>2 DEF Finish, TypeOK
<1> QED
  BY <1>1, <1>3, <1>4 DEF Apart

LEMMA IdleShape ==
  ASSUME NEW p \in Procs, pc[p] = "idle", task[p] = NoTask
  PROVE  Transaction(p)
<1>1. IsFiniteSet({})
  BY FS_EmptySet
<1>2. None \notin Operations
  BY BookingAssumption
<1> QED
  BY <1>1, <1>2 DEF Transaction, NoTask, NoRow, Written, Operations, Placing

\* A transaction that stays where it is and keeps its locks stays as it was.
LEMMA SameTransaction ==
  ASSUME Transactions, NEW q \in Procs, pc'[q] = pc[q], task'[q] = task[q],
         \A k \in Keys : lock[k] = q => lock'[k] = q
  PROVE  Transaction(q)' /\ Written(q)' = Written(q)
<1>1. Transaction(q) /\ TaskFields(task[q])
  BY StateFields DEF Transactions
<1>2. Written(q)' = Written(q)
  BY DEF Written
<1>3. ASSUME task[q].op \in Placing,
             NEW r \in Elements(task[q].todo) \cup Written(q)
      PROVE  CategoryOf[r] \in task[q].need \/ HasLock(q, CategoryOf[r])'
  <2>1. task[q].day \in Days /\ CategoryOf[r] \in Categories
    BY <1>1, <1>3, BookingAssumption
       DEF Transaction, Placing, Operations, Elements, TaskFields, Written
  <2>2. <<task[q].day, CategoryOf[r]>> \in Keys
    BY <2>1 DEF Keys
  <2> QED
    BY <1>1, <1>3, <2>2 DEF Transaction, HasLock
<1> QED
  BY <1>1, <1>2, <1>3 DEF Transaction

LEMMA OthersKeep ==
  ASSUME Transactions, NEW p \in Procs, Apart(p), NEW q \in Procs \ {p}
  PROVE  Transaction(q)' /\ Ordered(q)'
<1>1. Ordered(q)
  BY OrderedByAll DEF Transactions
<1>2. Ordered(q)'
  BY <1>1 DEF Apart, Ordered
<1> QED
  BY <1>2, SameTransaction DEF Apart

\* What is left to show of a step of p.
LEMMA Together ==
  ASSUME Transactions, NEW p \in Procs, Apart(p), TypeOK', Transaction(p)', Ordered(p)'
  PROVE  Transactions'
<1>1. \A q \in Procs : Transaction(q)' /\ Ordered(q)'
  BY OthersKeep
<1>2. LocksInOrder' <=> \A q \in Procs : Ordered(q)'
  BY DEF LocksInOrder, Ordered
<1> QED
  BY <1>1, <1>2 DEF Transactions

LEMMA FinishKeeps ==
  ASSUME Transactions, NEW p \in Procs, Finish(p),
         reservation' \in [Reservations -> Row], base' \in BaseSchedules,
         exceptions' \subseteq Closures
  PROVE  Transactions'
<1>1. TypeOK /\ NoTask \in Task
  BY NoTaskType DEF Transactions
<1>2. TypeOK'
  BY <1>1, FinishFrees DEF TypeOK
<1>3. Transaction(p)'
  <2>1. pc'[p] = "idle" /\ task'[p] = NoTask
    BY <1>1, FinishFrees
  <2> QED
    BY <2>1, FS_EmptySet, BookingAssumption
       DEF Transaction, NoTask, NoRow, Written, Operations, Placing
<1>4. Ordered(p)'
  BY <1>1, FinishFrees DEF Ordered
<1> QED
  BY <1>1, <1>2, <1>3, <1>4, FinishFrees, Together

LEMMA AbortKeeps ==
  ASSUME Transactions, NEW p \in Procs, Abort(p)
  PROVE  Transactions'
BY FinishKeeps DEF Abort, Transactions, TypeOK, tables

\* The beginning of a transaction that has written nothing and holds nothing.
Fresh(t) ==
  /\ t \in Task /\ t.op \in Operations
  /\ t.op # "updateBase" => t.day \in Days
  /\ t.op \in {"createException", "deleteException"} => t.change \in Closures
  /\ t.op = "updateBase" => t.weekly \in BaseSchedules
  /\ t.need = {} <=> t.op = "updateBase"
  /\ t.op \in Placing =>
       /\ t.todo # <<>>
       /\ \A r \in Elements(t.todo) : CategoryOf[r] \in t.need
  /\ t.op = "reschedule" => Len(t.todo) = 1
  /\ t.known = {} /\ t.pending = [r \in Reservations |-> NoRow]

LEMMA BeginKeeps ==
  ASSUME Transactions, NEW p \in Procs, NEW t, Fresh(t), Begin(p, t)
  PROVE  Transactions'
<1>1. TypeOK /\ pc[p] = "idle" /\ task[p] = NoTask /\ Ordered(p)
  BY OrderedByAll DEF Transactions, Transaction, Begin
<1>2. TypeOK' /\ pc'[p] = "lock" /\ task'[p] = t /\ Apart(p)
  BY <1>1 DEF Begin, Fresh, TypeOK, Apart, tables, locks, Steps
<1>3. Written(p)' = {}
  BY <1>2 DEF Written, Fresh, NoRow
<1>4. Transaction(p)'
  BY <1>2, <1>3, FS_EmptySet DEF Transaction, Fresh
<1>5. Ordered(p)'
  <2>1. (\A k \in Keys : lock[k] # p) /\ baseLock # p
    BY <1>1, BookingAssumption DEF Ordered, NoTask, Operations
  <2> QED
    BY <2>1 DEF Ordered, Begin, locks
<1> QED
  BY <1>2, <1>4, <1>5, Together

\* The bookings, and what is asked for.
LEMMA BookingFields ==
  ASSUME NEW b \in Bookings
  PROVE  /\ b \in Seq(Reservations) /\ b # <<>> /\ Head(b) \in Reservations
         /\ Elements(b) \subseteq Reservations /\ Head(b) \in Elements(b)
         /\ {CategoryOf[r] : r \in Elements(b)} \subseteq Categories
         /\ {CategoryOf[r] : r \in Elements(b)} # {}
<1>1. b \in Seq(Reservations) /\ b # <<>>
  BY BookingAssumption
<1>2. 1 \in DOMAIN b /\ Head(b) = b[1] /\ \A i \in DOMAIN b : b[i] \in Reservations
  BY <1>1
<1>3. Elements(b) \subseteq Reservations /\ Head(b) \in Elements(b)
  BY <1>2 DEF Elements
<1> QED
  BY <1>1, <1>3, BookingAssumption

LEMMA AskedDay ==
  ASSUME NEW t \in Asked
  PROVE  t \in Nat /\ DayOf(t) \in Days /\ DayOf(t) \in Nat
BY BookingAssumption

LEMMA AffectedType ==
  ASSUME NEW e \in Closures
  PROVE  /\ e.day \in Days /\ e.day \in Nat
         /\ Affected(e) \subseteq Categories /\ Affected(e) # {}
BY BookingAssumption DEF Affected

LEMMA FreshBook ==
  ASSUME NEW b \in Bookings, NEW start \in Asked
  PROVE  Fresh([NoTask EXCEPT
                  !.op = "book", !.members = Elements(b), !.todo = b,
                  !.day = DayOf(start), !.ideal = start,
                  !.need = {CategoryOf[r] : r \in Elements(b)}])
BY NoTaskType, BookingFields, AskedDay DEF Fresh, NoTask, Task, Operations, Placing

LEMMA FreshReschedule ==
  ASSUME NEW r \in Reservations, NEW start \in Asked
  PROVE  Fresh([NoTask EXCEPT
                  !.op = "reschedule", !.members = {r}, !.todo = <<r>>,
                  !.day = DayOf(start), !.ideal = start,
                  !.need = {CategoryOf[r]}])
<1>1. <<r>> \in Seq(Reservations) /\ Elements(<<r>>) = {r} /\ CategoryOf[r] \in Categories
  BY BookingAssumption DEF Elements
<1> QED
  BY <1>1, NoTaskType, AskedDay DEF Fresh, NoTask, Task, Operations, Placing

LEMMA FreshRevive ==
  ASSUME NEW b \in Bookings, NEW d \in Days
  PROVE  Fresh([NoTask EXCEPT
                  !.op = "revive", !.members = Elements(b), !.todo = b, !.day = d,
                  !.need = {CategoryOf[r] : r \in Elements(b)}])
<1>1. d \in Nat
  BY BookingAssumption
<1> QED
  BY <1>1, NoTaskType, BookingFields DEF Fresh, NoTask, Task, Operations, Placing

LEMMA FreshException ==
  ASSUME NEW e \in Closures, NEW op \in {"createException", "deleteException"}
  PROVE  Fresh([NoTask EXCEPT !.op = op, !.change = e, !.day = e.day,
                              !.need = Affected(e)])
BY NoTaskType, AffectedType DEF Fresh, NoTask, Task, Operations, Placing

LEMMA FreshBase ==
  ASSUME NEW weekly \in BaseSchedules
  PROVE  Fresh([NoTask EXCEPT !.op = "updateBase", !.weekly = weekly])
BY NoTaskType DEF Fresh, NoTask, Task, Operations, Placing

LEMMA RequestKeeps ==
  ASSUME Transactions, NEW p \in Procs, Request(p)
  PROVE  /\ Transactions' /\ UNCHANGED <<tables, locks>>
         /\ pc[p] = "idle" /\ \E t : Fresh(t) /\ Begin(p, t)
<1>1. \E t : Fresh(t) /\ Begin(p, t)
  <2>1. CASE \E b \in Bookings, start \in Asked : Book(p, b, start)
    BY <2>1, FreshBook DEF Book
  <2>2. CASE \E r \in Reservations, start \in Asked : Reschedule(p, r, start)
    BY <2>2, FreshReschedule DEF Reschedule
  <2>3. CASE \E b \in Bookings : Revive(p, b)
    BY <2>3, FreshRevive DEF Revive
  <2>4. CASE \E e \in Closures : CreateException(p, e)
    BY <2>4, FreshException DEF CreateException
  <2>5. CASE \E e \in Closures : DeleteException(p, e)
    BY <2>5, FreshException DEF DeleteException
  <2>6. CASE \E weekly \in BaseSchedules : UpdateBase(p, weekly)
    BY <2>6, FreshBase DEF UpdateBase
  <2> QED
    BY <2>1, <2>2, <2>3, <2>4, <2>5, <2>6 DEF Request
<1> QED
  BY <1>1, BeginKeeps DEF Begin

\* withCategoriesLock takes the least of the locks that are left.
LEMMA NextIsLeast ==
  ASSUME NEW p \in Procs, task[p].need \subseteq Categories, task[p].need # {}
  PROVE  /\ NextCategory(p) \in task[p].need
         /\ \A c \in task[p].need : NextCategory(p) <= c
<1>1. task[p].need \subseteq Nat
  BY BookingAssumption
<1>2. \E c \in task[p].need : \A other \in task[p].need : c <= other
  BY <1>1, LeastNatural
<1> QED
  BY <1>2 DEF NextCategory

LEMMA TakeLockKeeps ==
  ASSUME Transactions, NEW p \in Procs, TakeLock(p)
  PROVE  Transactions'
<1> DEFINE c == NextCategory(p)
           key == <<task[p].day, c>>
           need == task[p].need \ {c}
           known == IF need = {} /\ task[p].op = "book"
                      THEN ClientIntervals(reservation,
                             ClientOf[Head(task[p].todo)], task[p].day, None)
                      ELSE task[p].known
           t == [task[p] EXCEPT !.need = need, !.known = known]
           step == IF need = {} THEN AfterLocks(task[p].op) ELSE "lock"
<1>1. /\ pc[p] = "lock" /\ task[p].need # {} /\ lock[key] = None
      /\ lock' = [lock EXCEPT ![key] = p]
      /\ Goto(p, step, t)
      /\ UNCHANGED <<tables, baseLock>>
  BY DEF TakeLock
<1>2. /\ TypeOK /\ TaskFields(task[p]) /\ Transaction(p) /\ Ordered(p)
      /\ reservation \in [Reservations -> Row]
  BY StateFields, OrderedByAll DEF Transactions
<1>3. /\ c \in task[p].need /\ c \in Categories
      /\ \A other \in task[p].need : c <= other
  BY <1>1, <1>2, NextIsLeast DEF TaskFields
<1>4. /\ task[p].op \in Operations \ {"updateBase"} /\ task[p].day \in Days
      /\ key \in Keys
  BY <1>1, <1>2, <1>3 DEF Transaction, Keys
<1>5. known \subseteq Held /\ IsFiniteSet(known)
  BY <1>2, ClientIntervalsType DEF Transaction, TaskFields
<1>6. step \in Steps /\ step = (IF need # {} THEN "lock"
                                ELSE IF task[p].op \in Placing THEN "place" ELSE "decide")
  BY <1>4 DEF AfterLocks, Steps, Operations, Placing
<1>7. /\ t.need = need /\ t.known = known /\ t.op = task[p].op /\ t.day = task[p].day
      /\ t.todo = task[p].todo /\ t.pending = task[p].pending
      /\ t.change = task[p].change /\ t.weekly = task[p].weekly
  BY <1>2 DEF TaskFields, Task
<1>8. t \in Task
  <2> HIDE DEF known, c
  <2> QED
    BY <1>2, <1>5 DEF TaskFields, Task, Held
<1> HIDE DEF t, step, known, c
<1>9. /\ pc'[p] = step /\ task'[p] = t
      /\ lock' \in [Keys -> Procs \cup {None}]
      /\ TypeOK' /\ Apart(p)
  <2>1. /\ pc'[p] = step /\ task'[p] = t
        /\ \A q \in Procs \ {p} : pc'[q] = pc[q] /\ task'[q] = task[q]
        /\ pc' \in [Procs -> Steps] /\ task' \in [Procs -> Task]
    BY <1>1, <1>2, <1>6, <1>8, GotoApart
  <2>2. lock' \in [Keys -> Procs \cup {None}]
    BY <1>1, <1>2 DEF TypeOK
  <2>3. \A k \in Keys, q \in Procs \ {p} : lock'[k] = q <=> lock[k] = q
    BY <1>1, <1>2, <1>4, BookingAssumption DEF TypeOK
  <2> QED
    BY <1>1, <1>2, <2>1, <2>2, <2>3 DEF TypeOK, Apart, tables
<1>10. \A k \in Keys : lock'[k] = p <=> lock[k] = p \/ k = key
  BY <1>1, <1>2, <1>4 DEF TypeOK
<1>11. Written(p)' = Written(p) /\ Written(p) = {}
  BY <1>1, <1>2, <1>7, <1>9 DEF Written, Transaction
<1>12. Transaction(p)'
  <2>1. ASSUME t.op \in Placing, NEW r \in Elements(t.todo)
        PROVE  CategoryOf[r] \in t.need \/ HasLock(p, CategoryOf[r])'
    <3>1. CategoryOf[r] \in Categories
      BY <1>2, <1>7, <2>1, BookingAssumption DEF Elements, TaskFields
    <3>2. <<task[p].day, CategoryOf[r]>> \in Keys
      BY <1>4, <3>1 DEF Keys
    <3>3. CategoryOf[r] \in task[p].need \/ lock[<<task[p].day, CategoryOf[r]>>] = p
      BY <1>2, <1>7, <2>1 DEF Transaction, HasLock
    <3>4. lock'[<<task[p].day, CategoryOf[r]>>] = p =>
            HasLock(p, CategoryOf[r])'
      BY <1>7, <1>9 DEF HasLock
    <3> QED
      BY <1>7, <1>10, <3>2, <3>3, <3>4
  <2>2. (IF step = "lock" THEN t.need = {} <=> t.op = "updateBase" ELSE t.need = {})
    BY <1>4, <1>6, <1>7
  <2> QED
    BY <1>1, <1>2, <1>4, <1>5, <1>6, <1>7, <1>9, <1>11, <2>1, <2>2 DEF Transaction
<1>13. Ordered(p)'
  <2>1. ASSUME NEW k \in Keys, lock'[k] = p
        PROVE  /\ k[1] = t.day
               /\ \A other \in t.need : k[2] < other
    <3>1. task[p].need \subseteq Nat
      BY <1>2, BookingAssumption DEF TaskFields
    <3>2. CASE k = key
      BY <1>3, <1>7, <3>1, <3>2
    <3>3. CASE lock[k] = p
      BY <1>2, <1>7, <3>3 DEF Ordered
    <3> QED
      BY <1>10, <2>1, <3>2, <3>3
  <2>2. baseLock' # p
    BY <1>1, <1>2, <1>4 DEF Ordered
  <2> QED
    BY <1>4, <1>7, <1>9, <2>1, <2>2 DEF Ordered
<1> QED
  BY <1>9, <1>12, <1>13, Together
LEMMA TailIsShorter ==
  ASSUME NEW s \in Seq(Reservations), s # <<>>
  PROVE  /\ Head(s) \in Elements(s) /\ Head(s) \in Reservations
         /\ Tail(s) \in Seq(Reservations) /\ Elements(Tail(s)) \subseteq Elements(s)
         /\ Len(s) = 1 => Tail(s) = <<>>
<1>1. /\ Len(s) \in Nat \ {0} /\ Head(s) = s[1] /\ 1 \in DOMAIN s /\ s[1] \in Reservations
      /\ Tail(s) \in Seq(Reservations) /\ Len(Tail(s)) = Len(s) - 1
      /\ \A i \in 1 .. Len(Tail(s)) : Tail(s)[i] = s[i + 1] /\ i + 1 \in 1 .. Len(s)
      /\ DOMAIN Tail(s) = 1 .. Len(Tail(s)) /\ DOMAIN s = 1 .. Len(s)
  OBVIOUS
<1>2. Len(s) = 1 => Tail(s) = <<>>
  BY <1>1
<1>3. \A i \in DOMAIN Tail(s) : Tail(s)[i] \in {s[j] : j \in DOMAIN s}
  BY <1>1
<1> QED
  BY <1>1, <1>2, <1>3 DEF Elements

\* A transaction that places holds the lock of every row that it writes or has still
\* to write.
LEMMA PlacingHolds ==
  ASSUME Transactions, NEW p \in Procs, task[p].op \in Placing, task[p].need = {}
  PROVE  /\ task[p].day \in Days /\ task[p].day \in Nat
         /\ \A r \in Elements(task[p].todo) \cup Written(p) :
              HasLock(p, CategoryOf[r])
<1>1. Transaction(p)
  BY DEF Transactions
<1>2. task[p].day \in Days
  BY <1>1 DEF Transaction, Placing, Operations
<1>3. task[p].day \in Nat
  BY <1>2, BookingAssumption
<1> QED
  BY <1>1, <1>2, <1>3 DEF Transaction

LEMMA PlaceFields ==
  ASSUME Transactions, NEW p \in Procs, pc[p] = "place"
  PROVE  LET r == Head(task[p].todo)
         IN  /\ task[p].op \in Placing /\ task[p].need = {} /\ task[p].todo # <<>>
             /\ task[p].todo \in Seq(Reservations)
             /\ r \in Reservations /\ r \in Elements(task[p].todo)
             /\ CategoryOf[r] \in Categories /\ HasLock(p, CategoryOf[r])
             /\ task[p].day \in Days /\ task[p].ideal \in Nat
             /\ IsFiniteSet(task[p].known)
             /\ reservation[r] \in Row
<1>1. /\ Transaction(p) /\ TypeOK /\ TaskFields(task[p])
      /\ reservation \in [Reservations -> Row]
  BY StateFields DEF Transactions
<1>2. /\ task[p].op \in Placing /\ task[p].need = {} /\ task[p].todo # <<>>
      /\ task[p].todo \in Seq(Reservations) /\ task[p].ideal \in Nat
      /\ IsFiniteSet(task[p].known)
  BY <1>1 DEF Transaction, TaskFields
<1>3. /\ Head(task[p].todo) \in Reservations
      /\ Head(task[p].todo) \in Elements(task[p].todo)
  BY <1>2, TailIsShorter
<1> QED
  BY <1>1, <1>2, <1>3, PlacingHolds, BookingAssumption

\* What is written is seen by the transaction that wrote it and by no other.
LEMMA WriteShows ==
  ASSUME TypeOK, NEW p \in Procs, NEW r \in Reservations, NEW row \in Row,
         row.status # "ABSENT", NEW ideal, Write(p, r, row, ideal)
  PROVE  /\ task'[p].pending = [task[p].pending EXCEPT ![r] = row]
         /\ Written(p)' = Written(p) \cup {r}
         /\ View(p)' = [View(p) EXCEPT ![r] = row]
         /\ UNCHANGED <<tables, locks>>
<1>1. /\ TaskFields(task[p]) /\ task \in [Procs -> Task]
      /\ task'[p] = [task[p] EXCEPT
                       !.todo = Tail(task[p].todo), !.ideal = ideal,
                       !.from = reservation[r].start, !.pending[r] = row]
  BY StateFields DEF Write, Goto, TypeOK
<1>2. task'[p].pending = [task[p].pending EXCEPT ![r] = row]
  BY <1>1 DEF TaskFields, Task
<1>3. UNCHANGED <<tables, locks>> /\ UNCHANGED reservation
  BY DEF Write, tables
<1>4. Written(p)' = Written(p) \cup {r}
  BY <1>1, <1>2 DEF Written, TaskFields
<1>5. View(p)' = [View(p) EXCEPT ![r] = row]
  BY <1>1, <1>2, <1>3, <1>4 DEF View, TaskFields
<1> QED
  BY <1>2, <1>3, <1>4, <1>5

LEMMA WriteKeeps ==
  ASSUME Transactions, NEW p \in Procs, pc[p] = "place",
         NEW row \in Row, row.status # "ABSENT", NEW ideal \in Nat,
         Write(p, Head(task[p].todo), row, ideal)
  PROVE  Transactions'
<1> DEFINE r == Head(task[p].todo)
           todo == Tail(task[p].todo)
           step == IF todo = <<>> THEN "commit" ELSE "place"
           t == [task[p] EXCEPT !.todo = todo, !.ideal = ideal,
                                !.from = reservation[r].start, !.pending[r] = row]
<1>1. /\ TypeOK /\ Transaction(p) /\ Ordered(p) /\ TaskFields(task[p])
      /\ reservation \in [Reservations -> Row] /\ IsFiniteSet(task[p].known)
  BY StateFields, OrderedByAll DEF Transactions, Transaction
<1>2. /\ task[p].op \in Placing /\ task[p].need = {} /\ task[p].todo # <<>>
      /\ r \in Reservations /\ r \in Elements(task[p].todo)
      /\ HasLock(p, CategoryOf[r]) /\ reservation[r].start \in Nat
  BY <1>1, PlaceFields, RowFields
<1>3. /\ todo \in Seq(Reservations) /\ Elements(todo) \subseteq Elements(task[p].todo)
      /\ Len(task[p].todo) = 1 => todo = <<>>
  BY <1>1, <1>2, TailIsShorter DEF TaskFields
<1>4. /\ t \in Task /\ step \in Steps
      /\ t.op = task[p].op /\ t.day = task[p].day /\ t.need = {} /\ t.todo = todo
      /\ t.change = task[p].change /\ t.weekly = task[p].weekly
      /\ t.known = task[p].known
  BY <1>1, <1>2, <1>3 DEF TaskFields, Task, Held, Steps
<1>5. Goto(p, step, t) /\ UNCHANGED <<tables, locks>>
  BY DEF Write
<1>6. Written(p)' = Written(p) \cup {r}
  BY <1>1, <1>2, WriteShows
<1> HIDE DEF r, todo, step, t
<1>7. TypeOK' /\ Apart(p) /\ pc'[p] = step /\ task'[p] = t
  BY <1>1, <1>4, <1>5, GotoApart DEF TypeOK, Apart, tables, locks
<1>8. Transaction(p)'
  <2>1. ASSUME NEW x \in Elements(todo) \cup Written(p)'
        PROVE  HasLock(p, CategoryOf[x])'
    <3>1. HasLock(p, CategoryOf[x])
      BY <1>2, <1>3, <1>6, <2>1, PlacingHolds
    <3> QED
      BY <1>4, <1>5, <1>7, <3>1 DEF HasLock, locks
  <2>2. /\ step = "place" => todo # <<>> /\ t.op # "reschedule"
        /\ step \in {"place", "commit"}
    BY <1>1, <1>2, <1>3, <1>4 DEF step, Transaction
  <2>3. /\ t.op \in Operations /\ t.op \notin {"createException", "deleteException"}
        /\ t.op # "updateBase" /\ t.day \in Days
    BY <1>2, <1>4, PlacingHolds DEF Placing, Operations
  <2> QED
    BY <1>1, <1>2, <1>4, <1>7, <2>1, <2>2, <2>3 DEF Transaction
<1>9. Ordered(p)'
  BY <1>1, <1>2, <1>4, <1>5, <1>7 DEF Ordered, locks, Placing
<1> QED
  BY <1>7, <1>8, <1>9, Together
LEMMA PlaceSegmentKeeps ==
  ASSUME Transactions, NEW p \in Procs, PlaceSegment(p)
  PROVE  Transactions'
<1> DEFINE r == Head(task[p].todo)
           start == Chosen(p, r)
           row == [NoRow EXCEPT !.status = "PENDIENTE_DEPOSITO", !.start = start]
<1>1. pc[p] = "place"
  BY DEF PlaceSegment
<1>2. /\ TypeOK /\ r \in Reservations /\ IsFiniteSet(task[p].known)
      /\ task[p].ideal + Duration[r] \in Nat
  BY <1>1, PlaceFields, BookingAssumption DEF Transactions
<1>3. CASE Abort(p)
  BY <1>3, AbortKeeps
<1>4. CASE start # NoSlot /\ Write(p, r, row, task[p].ideal + Duration[r])
  <2>1. start \in Nat
    BY <1>2, <1>4, ChosenHasRoom
  <2>2. row \in Row /\ row.status # "ABSENT"
    <3> HIDE DEF start
    <3> QED
      BY <2>1, NoTaskType DEF Row, NoRow, Machine!Statuses
  <2> HIDE DEF row
  <2> QED
    BY <1>1, <1>2, <1>4, <2>2, WriteKeeps
<1> QED
  BY <1>3, <1>4 DEF PlaceSegment

LEMMA MoveKeeps ==
  ASSUME Transactions, NEW p \in Procs, Move(p)
  PROVE  Transactions'
<1> DEFINE r == Head(task[p].todo)
           row == [reservation[r] EXCEPT !.start = task[p].ideal]
<1>1. pc[p] = "place" /\ task[p].ideal \in Nat /\ reservation[r] \in Row
  BY PlaceFields DEF Move
<1>2. CASE Abort(p)
  BY <1>2, AbortKeeps
<1>3. CASE /\ reservation[r].status \in Reschedulable
           /\ Write(p, r, row, task[p].ideal)
  <2>1. row \in Row /\ row.status # "ABSENT"
    BY <1>1, <1>3 DEF Row, Reschedulable
  <2> HIDE DEF row
  <2> QED
    BY <1>1, <1>3, <2>1, WriteKeeps
<1> QED
  BY <1>2, <1>3 DEF Move

LEMMA BringBackKeeps ==
  ASSUME Transactions, NEW p \in Procs, BringBack(p)
  PROVE  Transactions'
<1> DEFINE r == Head(task[p].todo)
           row == [reservation[r] EXCEPT !.status = "PENDIENTE_DEPOSITO",
                                         !.source = "NINGUNA"]
<1>1. pc[p] = "place" /\ reservation[r] \in Row
  BY PlaceFields DEF BringBack
<1>2. CASE Abort(p)
  BY <1>2, AbortKeeps
<1>3. CASE Write(p, r, row, 0)
  <2>1. row \in Row /\ row.status # "ABSENT"
    BY <1>1 DEF Row, Machine!Statuses, Machine!Sources
  <2> HIDE DEF row
  <2> QED
    BY <1>1, <1>3, <2>1, WriteKeeps
<1> QED
  BY <1>2, <1>3 DEF BringBack

\* A step that neither reads nor writes rows: only the next step changes.
LEMMA TakeBaseLockKeeps ==
  ASSUME Transactions, NEW p \in Procs, TakeBaseLock(p)
  PROVE  Transactions'
<1>1. /\ TypeOK /\ Transaction(p) /\ Ordered(p) /\ task[p] \in Task
      /\ pc[p] = "lock" /\ task[p].op = "updateBase" /\ task[p].need = {}
      /\ baseLock = None /\ baseLock' = p /\ Goto(p, "decide", task[p])
      /\ UNCHANGED <<tables, lock>> /\ Written(p) = {}
  BY StateFields, OrderedByAll DEF Transactions, Transaction, TaskFields, TakeBaseLock
<1>2. TypeOK' /\ Apart(p) /\ pc'[p] = "decide" /\ task'[p] = task[p]
  <2>1. "decide" \in Steps /\ Goto(p, "decide", task[p])
    BY <1>1 DEF Steps
  <2>2. /\ pc'[p] = "decide" /\ task'[p] = task[p]
        /\ \A q \in Procs \ {p} : pc'[q] = pc[q] /\ task'[q] = task[q]
        /\ pc' \in [Procs -> Steps] /\ task' \in [Procs -> Task]
    BY <1>1, <2>1, GotoApart
  <2>3. UNCHANGED <<reservation, base, exceptions, lock>>
    BY <1>1 DEF tables
  <2>4. TypeOK'
    BY <1>1, <2>2, <2>3 DEF TypeOK
  <2>5. \A q \in Procs \ {p} : baseLock' = q <=> baseLock = q
    BY <1>1, BookingAssumption
  <2>6. Apart(p)
    BY <2>2, <2>3, <2>5 DEF Apart
  <2> QED
    BY <2>2, <2>4, <2>6
<1>3. Written(p)' = {}
  BY <1>1, <1>2 DEF Written
<1>4. Transaction(p)'
  BY <1>1, <1>2, <1>3 DEF Transaction, Placing
<1>5. Ordered(p)'
  BY <1>1, <1>2 DEF Ordered
<1> QED
  BY <1>2, <1>4, <1>5, Together

LEMMA DecideKeeps ==
  ASSUME Transactions, NEW p \in Procs, Decide(p)
  PROVE  Transactions'
<1>1. CASE Abort(p)
  BY <1>1, AbortKeeps
<1>2. CASE Goto(p, "commit", task[p]) /\ UNCHANGED <<tables, locks>>
  <2>1. /\ TypeOK /\ Transaction(p) /\ Ordered(p) /\ task[p] \in Task
        /\ pc[p] = "decide" /\ Written(p) = {}
    BY StateFields, OrderedByAll DEF Transactions, Transaction, TaskFields, Decide
  <2>2. /\ TypeOK' /\ Apart(p) /\ pc'[p] = "commit" /\ task'[p] = task[p]
        /\ UNCHANGED lock /\ UNCHANGED baseLock
    BY <1>2, <2>1, GotoApart DEF TypeOK, Apart, tables, locks, Steps
  <2>3. Written(p)' = {}
    BY <2>1, <2>2 DEF Written
  <2>4. Transaction(p)'
    <3>1. ASSUME NEW x \in Elements(task[p].todo), task[p].op \in Placing
          PROVE  HasLock(p, CategoryOf[x])'
      BY <2>1, <2>2, <3>1 DEF Transaction, HasLock
    <3> QED
      BY <2>1, <2>2, <2>3, <3>1 DEF Transaction
  <2>5. Ordered(p)'
    BY <2>1, <2>2 DEF Ordered
  <2> QED
    BY <2>2, <2>4, <2>5, Together
<1> QED
  BY <1>1, <1>2 DEF Decide

LEMMA ConflictKeeps ==
  ASSUME Transactions, NEW p \in Procs, Conflict(p)
  PROVE  Transactions'
BY AbortKeeps DEF Conflict

LEMMA CommitKeeps ==
  ASSUME Transactions, NEW p \in Procs, Commit(p)
  PROVE  Transactions'
<1>1. TypeOK /\ Transaction(p) /\ pc[p] = "commit"
  BY DEF Transactions, Commit
<1>2. reservation' \in [Reservations -> Row]
  BY <1>1, ViewType DEF Commit
<1>3. exceptions' \subseteq Closures /\ base' \in BaseSchedules
  BY <1>1 DEF Commit, Proposed, ProposedBase, Transaction, TypeOK
<1> QED
  BY <1>2, <1>3, FinishKeeps DEF Commit

LEMMA AdvanceType ==
  ASSUME NEW r \in Reservations, NEW to, reservation \in [Reservations -> Row],
         Advance(r, to)
  PROVE  reservation' \in [Reservations -> Row]
<1>1. /\ reservation[r] \in Row /\ reservation[r].late \in BOOLEAN
      /\ to \in Machine!Statuses
  <2>1. /\ reservation[r].status \in Machine!Statuses
        /\ to \in Machine!Transitions[reservation[r].status]
    BY DEF Advance, Machine!CanTransition
  <2>2. \A s \in Machine!Statuses : Machine!Transitions[s] \subseteq Machine!Statuses
    BY DEF Machine!Transitions, Machine!Statuses
  <2> QED
    BY <2>1, <2>2 DEF Row
<1>2. PICK source \in Cancellers(to) :
        reservation' = [reservation EXCEPT
                          ![r].status = to, ![r].source = source,
                          ![r].late = @ \/ reservation[r].status = "NO_SHOW"]
  BY DEF Advance
<1>3. source \in Machine!Sources
  BY DEF Cancellers, Machine!Sources
<1> DEFINE late == reservation[r].late \/ reservation[r].status = "NO_SHOW"
           row == [reservation[r] EXCEPT !.status = to, !.source = source, !.late = late]
<1>4. late \in BOOLEAN
  BY <1>1
<1>5. row \in Row
  <2> HIDE DEF late
  <2> QED
    BY <1>1, <1>3, <1>4 DEF Row
<1>6. reservation' = [reservation EXCEPT ![r] = row]
  BY <1>2
<1> QED
  BY <1>5, <1>6

LEMMA AdvanceKeeps ==
  ASSUME Transactions, NEW r \in Reservations, NEW to, Advance(r, to)
  PROVE  Transactions'
<1>1. TypeOK' /\ UNCHANGED <<locks, pc, task>>
  BY AdvanceType DEF Transactions, TypeOK, Advance, locks
<1>2. \A p \in Procs : Transaction(p)'
  BY <1>1, SameTransaction DEF locks
<1>3. LocksInOrder'
  BY <1>1 DEF Transactions, LocksInOrder, locks
<1> QED
  BY <1>1, <1>2, <1>3 DEF Transactions

LEMMA StutterKeeps ==
  ASSUME Transactions, UNCHANGED vars
  PROVE  Transactions'
<1>1. TypeOK'
  BY DEF Transactions, TypeOK, vars
<1>2. \A p \in Procs : Transaction(p)'
  BY SameTransaction DEF vars
<1>3. LocksInOrder'
  BY DEF Transactions, LocksInOrder, vars
<1> QED
  BY <1>1, <1>2, <1>3 DEF Transactions

LEMMA InitTransactions == Init => Transactions
<1> SUFFICES ASSUME Init
             PROVE  Transactions
  OBVIOUS
<1>1. TypeOK
  BY NoTaskType DEF Init, TypeOK, Steps
<1>2. \A p \in Procs : Transaction(p)
  BY IdleShape DEF Init
<1>3. LocksInOrder
  BY BookingAssumption DEF Init, LocksInOrder
<1> QED
  BY <1>1, <1>2, <1>3 DEF Transactions

LEMMA NextTransactions == Transactions /\ [Next]_vars => Transactions'
<1> SUFFICES ASSUME Transactions, [Next]_vars
             PROVE  Transactions'
  OBVIOUS
<1>1. ASSUME NEW p \in Procs, Request(p)
      PROVE  Transactions'
  BY <1>1, RequestKeeps
<1>2. ASSUME NEW p \in Procs, Work(p)
      PROVE  Transactions'
  BY <1>2, TakeLockKeeps, TakeBaseLockKeeps, PlaceSegmentKeeps, MoveKeeps,
     BringBackKeeps, DecideKeeps, CommitKeeps, ConflictKeeps DEF Work
<1>3. ASSUME NEW r \in Reservations, NEW to \in Elsewhere, Advance(r, to)
      PROVE  Transactions'
  BY <1>3, AdvanceKeeps
<1>4. CASE UNCHANGED vars
  BY <1>4, StutterKeeps
<1> QED
  BY <1>1, <1>2, <1>3, <1>4 DEF Next

\* Every variable keeps its type, and every transaction holds the locks of the rows
\* that it writes or has still to write, from the moment it has taken them to the
\* moment it ends: that is what withCategoriesLock and withBaseScheduleLock are for.
THEOREM TransactionsHold == Spec => []Transactions
<1>1. Init => Transactions
  BY InitTransactions
<1>2. Transactions /\ [Next]_vars => Transactions'
  BY NextTransactions
<1> QED
  BY <1>1, <1>2, PTL DEF Spec
---------------------------------------------------------------------------
(* Nobody waits in a circle                                                *)

\* Whoever waits for a lock waits for a greater category than the one its holder
\* waits for, if the holder waits at all; the weekly schedule has one lock only.
LEMMA WaitsUpwards ==
  ASSUME Transactions, NEW p \in Procs, NEW q \in Procs,
         Blocking(p) = q, Blocking(q) \in Procs
  PROVE  /\ NextCategory(p) \in Categories /\ NextCategory(q) \in Categories
         /\ NextCategory(p) < NextCategory(q)
<1>1. /\ Transaction(p) /\ Transaction(q) /\ LocksInOrder
      /\ TaskFields(task[p]) /\ TaskFields(task[q])
      /\ None \notin Procs /\ Categories \subseteq Nat
  BY StateFields, BookingAssumption DEF Transactions
<1>2. pc[p] = "lock" /\ pc[q] = "lock"
  BY <1>1 DEF Blocking
<1>3. task[p].op \in Operations \ {"updateBase"}
  <2>1. task[p].op = "updateBase" => baseLock = q
    BY <1>2 DEF Blocking
  <2> QED
    BY <1>1, <1>2, <2>1 DEF LocksInOrder, Transaction
<1>4. /\ task[p].need # {} /\ task[p].need \subseteq Categories /\ task[p].day \in Days
      /\ NextCategory(p) \in task[p].need
  BY <1>1, <1>2, <1>3, NextIsLeast DEF Transaction, TaskFields
<1>5. <<task[p].day, NextCategory(p)>> \in Keys
  BY <1>4 DEF Keys
<1>6. lock[<<task[p].day, NextCategory(p)>>] = q
  BY <1>2, <1>3 DEF Blocking
<1>7. /\ task[q].op \in Operations \ {"updateBase"}
      /\ \A c \in task[q].need : NextCategory(p) < c
  BY <1>1, <1>5, <1>6 DEF LocksInOrder
<1>8. NextCategory(q) \in task[q].need /\ task[q].need \subseteq Categories
  BY <1>1, <1>2, <1>7, NextIsLeast DEF Transaction, TaskFields
<1> QED
  BY <1>4, <1>7, <1>8

LEMMA NoCycleNow == Transactions => NoLockCycle
<1> SUFFICES ASSUME Transactions,
                    NEW S, S \subseteq Procs, S # {},
                    \A p \in S : Blocking(p) \in S
             PROVE  FALSE
  BY DEF NoLockCycle
<1> DEFINE next == [p \in S |-> NextCategory(p)]
           Wanted == {next[p] : p \in S}
<1>1. \A p \in S : /\ Blocking(p) \in S /\ next[p] \in Categories
                   /\ next[p] < next[Blocking(p)]
  BY WaitsUpwards
<1>2. Wanted \subseteq Int /\ Wanted # {} /\ IsFiniteSet(Wanted)
  <2>1. Wanted \subseteq Categories /\ Wanted # {}
    BY <1>1
  <2>2. IsFiniteSet(Categories) /\ Categories \subseteq Int
    BY BookingAssumption
  <2> HIDE DEF Wanted
  <2> QED
    BY <2>1, <2>2, FS_Subset
<1>3. PICK m \in Wanted : \A n \in Wanted : n <= m
  <2> HIDE DEF Wanted
  <2> QED
    BY <1>2, GreatestElement
<1>4. PICK p \in S : next[p] = m
  BY <1>3
<1>5. next[Blocking(p)] \in Wanted /\ m < next[Blocking(p)]
  <2> HIDE DEF next
  <2> QED
    BY <1>1, <1>4
<1>6. PICK n \in Wanted : n = next[Blocking(p)]
  BY <1>5
<1>7. m \in Int /\ n \in Int /\ m < n /\ n <= m
  <2> HIDE DEF Wanted, next
  <2> QED
    BY <1>2, <1>3, <1>5, <1>6
<1> QED
  BY <1>7

\* Sorting the category ids before they are locked excludes every deadlock, for any
\* number of handlers: combos of the same categories in any order, exceptions for the
\* whole spa, and changes of the weekly schedule.
THEOREM NoCycle == Spec => []NoLockCycle
<1>1. Transactions => NoLockCycle
  BY NoCycleNow
<1> QED
  BY <1>1, TransactionsHold, PTL
---------------------------------------------------------------------------
(* Capacity                                                                *)

\* The appointments that count at an instant.
At(view, c, d, t) ==
  {r \in Counted(view, c, d) : /\ Interval(view, r).start <= t
                               /\ t < Interval(view, r).end}

LEMMA AtFinite ==
  ASSUME NEW view, NEW c, NEW d, NEW t
  PROVE  /\ At(view, c, d, t) \subseteq Reservations
         /\ IsFiniteSet(At(view, c, d, t)) /\ Cardinality(At(view, c, d, t)) \in Nat
<1>1. At(view, c, d, t) \subseteq Reservations
  BY DEF At, Counted, HoldingIn
<1> QED
  BY <1>1, BookingAssumption, FS_Subset, FS_CardinalityType

LEMMA SoundAt ==
  ASSUME NEW view, NEW c, NEW d
  PROVE  Sound(view, c, d) <=>
           /\ \A t \in d * DayLength .. (d + 1) * DayLength - 1 :
                Cardinality(At(view, c, d, t)) <= Capacity[c]
           /\ \A r, s \in Counted(view, c, d) : r # s => ClientOf[r] # ClientOf[s]
BY DEF Sound, At

\* With fewer appointments, where they were, a day stays sound.
LEMMA FewerAreSound ==
  ASSUME NEW view, NEW other, NEW c \in Categories, NEW d, Sound(view, c, d),
         \A r \in Counted(other, c, d) : /\ r \in Counted(view, c, d)
                                         /\ other[r].start = view[r].start
  PROVE  Sound(other, c, d)
<1>1. ASSUME NEW t \in d * DayLength .. (d + 1) * DayLength - 1
      PROVE  Cardinality(At(other, c, d, t)) <= Capacity[c]
  <2>1. At(other, c, d, t) \subseteq At(view, c, d, t)
    BY DEF At, Interval
  <2>2. Cardinality(At(other, c, d, t)) <= Cardinality(At(view, c, d, t))
    BY <2>1, AtFinite, FS_Subset
  <2>3. Cardinality(At(view, c, d, t)) <= Capacity[c]
    BY SoundAt
  <2> QED
    BY <2>2, <2>3, AtFinite, BookingAssumption
<1>2. \A r, s \in Counted(other, c, d) : r # s => ClientOf[r] # ClientOf[s]
  BY SoundAt
<1> QED
  BY <1>1, <1>2, SoundAt

\* Room for the row of r on what is held across it, or on what is held that day.
Room(view, r, row, d) ==
  LET c == CategoryOf[r]
      i == Plan!Lasting(row.start, Duration[r])
  IN \/ ~ (Plan!MaxConcurrentInWindow(HeldOverlapping(view, c, i, r), i)
             >= Capacity[c])
     \/ Plan!MaxConcurrentInWindow(HeldInDay(view, c, d), i) < Capacity[c]

\* With room for r, the others leave one place at each instant that r covers.
LEMMA RoomForOne ==
  ASSUME NEW view \in [Reservations -> Row],
         \A x \in Reservations : InDay(view[x], x),
         NEW r \in Reservations, NEW row \in Row, NEW d \in Nat,
         Room(view, r, row, d),
         NEW t \in Nat, row.start <= t, t < row.start + Duration[r]
  PROVE  Cardinality(At(view, CategoryOf[r], d, t) \ {r}) < Capacity[CategoryOf[r]]
<1> DEFINE c == CategoryOf[r]
           i == Plan!Lasting(row.start, Duration[r])
           A == At(view, c, d, t) \ {r}
<1>1. /\ row.start \in Nat /\ Duration[r] \in Nat /\ row.start + Duration[r] \in Nat
      /\ Capacity[c] \in Nat
  <2>1. row.start \in Nat
    BY DEF Row
  <2>2. Duration[r] \in Nat /\ c \in Categories /\ Capacity[c] \in Nat
    BY BookingAssumption
  <2> QED
    BY <2>1, <2>2
<1>2. i.start = row.start /\ i.end = row.start + Duration[r] /\ i \in Held
  BY <1>1 DEF Plan!Lasting, Held
<1>3. \A x \in A : /\ x \in Reservations /\ x # r /\ x \in HoldingIn(view, c)
                   /\ DayOf(view[x].start) = d
                   /\ Interval(view, x).start <= t /\ t < Interval(view, x).end
                   /\ Interval(view, x) \in Held /\ Interval(view, x).start \in Nat
                   /\ Interval(view, x).end \in Nat
  <2>1. \A x \in A : x \in Reservations
    BY AtFinite
  <2> QED
    BY <2>1, RowFields DEF At, Counted
<1> HIDE DEF c, i, A
<1>4. ASSUME NEW D, D \subseteq Reservations, NEW held,
             held = [x \in D |-> Interval(view, x)], A \subseteq D,
             Plan!MaxConcurrentInWindow(held, i) < Capacity[c]
               \/ ~ (Plan!MaxConcurrentInWindow(held, i) >= Capacity[c])
      PROVE  Cardinality(A) < Capacity[c]
  <2>1. IsFiniteSet(D) /\ held \in [D -> Held]
    BY <1>4, BookingAssumption, FS_Subset, RowFields
  <2>2. /\ Plan!MaxConcurrentInWindow(held, i) \in Nat
        /\ Cardinality(Plan!ActiveAt(held, t)) <= Plan!MaxConcurrentInWindow(held, i)
    BY <1>2, <2>1, PeakBounds
  <2>3. /\ IsFiniteSet(Plan!ActiveAt(held, t))
        /\ Cardinality(Plan!ActiveAt(held, t)) \in Nat
        /\ A \subseteq Plan!ActiveAt(held, t)
    <3>1. Plan!ActiveAt(held, t) \subseteq D
      BY <2>1 DEF Plan!ActiveAt
    <3>2. A \subseteq Plan!ActiveAt(held, t)
      BY <1>3, <1>4 DEF Plan!ActiveAt
    <3> QED
      BY <2>1, <3>1, <3>2, FS_Subset, FS_CardinalityType
  <2>4. Cardinality(A) \in Nat /\ Cardinality(A) <= Cardinality(Plan!ActiveAt(held, t))
    BY <2>3, FS_Subset, FS_CardinalityType
  <2> QED
    BY <1>1, <1>4, <2>2, <2>3, <2>4
<1>5. ASSUME ~ (Plan!MaxConcurrentInWindow(HeldOverlapping(view, c, i, r), i)
                  >= Capacity[c])
      PROVE  Cardinality(A) < Capacity[c]
  <2> DEFINE D == {s \in HoldingIn(view, c) \ {r} : Plan!Overlap(Interval(view, s), i)}
  <2>1. A \subseteq D
    BY <1>1, <1>2, <1>3 DEF Plan!Overlap
  <2>2. D \subseteq Reservations
    BY DEF HoldingIn
  <2>3. HeldOverlapping(view, c, i, r) = [x \in D |-> Interval(view, x)]
    BY DEF HeldOverlapping
  <2> HIDE DEF D
  <2> QED
    BY <1>4, <1>5, <2>1, <2>2, <2>3
<1>6. ASSUME Plan!MaxConcurrentInWindow(HeldInDay(view, c, d), i) < Capacity[c]
      PROVE  Cardinality(A) < Capacity[c]
  <2> DEFINE D == {s \in HoldingIn(view, c) :
                     /\ Interval(view, s).start >= WholeDay(d).start
                     /\ Interval(view, s).end <= WholeDay(d).end}
  <2>1. ASSUME NEW x \in A
        PROVE  x \in D
    <3>1. /\ view[x].start \in Nat /\ view[x].status # "ABSENT"
          /\ Interval(view, x).start = view[x].start
          /\ Interval(view, x).end = view[x].start + Duration[x]
      BY <1>3, RowFields DEF HoldingIn, Holds
    <3>2. /\ d * DayLength <= view[x].start
          /\ view[x].start + Duration[x] <= (d + 1) * DayLength
      BY <1>3, <3>1, DayBounds DEF InDay
    <3>3. d * DayLength \in Nat /\ (d + 1) * DayLength \in Nat
      BY BookingAssumption
    <3> QED
      BY <1>3, <3>1, <3>2, <3>3 DEF WholeDay
  <2>2. D \subseteq Reservations
    BY DEF HoldingIn
  <2>3. HeldInDay(view, c, d) = [x \in D |-> Interval(view, x)]
    BY DEF HeldInDay
  <2> HIDE DEF D
  <2> QED
    BY <1>4, <1>6, <2>1, <2>2, <2>3
<1> QED
  BY <1>5, <1>6 DEF Room, c, i, A

\* A row that is placed with room, away from its client's others, keeps a day sound.
LEMMA PlacedIsSound ==
  ASSUME NEW view \in [Reservations -> Row],
         \A x \in Reservations : InDay(view[x], x),
         NEW r \in Reservations, NEW row \in Row, NEW d \in Nat,
         Sound(view, CategoryOf[r], d), Room(view, r, row, d),
         ~ HasActiveInCategory(view, ClientOf[r], CategoryOf[r], d, r)
  PROVE  Sound([view EXCEPT ![r] = row], CategoryOf[r], d)
<1> DEFINE c == CategoryOf[r]
           new == [view EXCEPT ![r] = row]
<1>1. /\ new[r] = row /\ \A x \in Reservations \ {r} : new[x] = view[x]
      /\ new \in [Reservations -> Row] /\ c \in Categories /\ Capacity[c] \in Nat
  BY BookingAssumption
<1>2. \A x \in Counted(new, c, d) \ {r} : x \in Counted(view, c, d) /\ x \in Reservations
  BY <1>1 DEF Counted, HoldingIn
<1> HIDE DEF c, new
<1>3. ASSUME NEW t \in d * DayLength .. (d + 1) * DayLength - 1
      PROVE  Cardinality(At(new, c, d, t)) <= Capacity[c]
  <2>1. t \in Nat
    <3>1. d * DayLength \in Nat /\ (d + 1) * DayLength \in Nat
      BY BookingAssumption
    <3> QED
      BY <3>1
  <2>2. At(new, c, d, t) \ {r} \subseteq At(view, c, d, t) \ {r}
    BY <1>1, <1>2 DEF At, Interval
  <2>3. CASE r \in At(new, c, d, t)
    <3>1. row.start <= t /\ t < row.start + Duration[r]
      BY <1>1, <2>3, RowFields DEF At
    <3>2. Cardinality(At(view, c, d, t) \ {r}) < Capacity[c]
      BY <2>1, <3>1, RoomForOne DEF c
    <3>3. /\ IsFiniteSet(At(view, c, d, t) \ {r})
          /\ Cardinality(At(view, c, d, t) \ {r}) \in Nat
      BY AtFinite, FS_Subset, FS_CardinalityType
    <3>4. /\ Cardinality(At(new, c, d, t) \ {r}) <= Cardinality(At(view, c, d, t) \ {r})
          /\ Cardinality(At(new, c, d, t) \ {r}) \in Nat
      BY <2>2, <3>3, FS_Subset, FS_CardinalityType
    <3>5. Cardinality(At(new, c, d, t) \ {r}) = Cardinality(At(new, c, d, t)) - 1
      BY <2>3, AtFinite, FS_RemoveElement
    <3>6. Cardinality(At(new, c, d, t)) \in Nat
      BY AtFinite
    <3> QED
      BY <1>1, <3>2, <3>3, <3>4, <3>5, <3>6
  <2>4. CASE r \notin At(new, c, d, t)
    <3>1. At(new, c, d, t) \subseteq At(view, c, d, t)
      BY <2>2, <2>4
    <3>2. Cardinality(At(new, c, d, t)) <= Cardinality(At(view, c, d, t))
      BY <3>1, AtFinite, FS_Subset
    <3>3. Cardinality(At(view, c, d, t)) <= Capacity[c]
      BY SoundAt DEF c
    <3> QED
      BY <1>1, <3>2, <3>3, AtFinite
  <2> QED
    BY <2>3, <2>4
<1>4. ASSUME NEW x \in Counted(new, c, d), NEW y \in Counted(new, c, d), x # y
      PROVE  ClientOf[x] # ClientOf[y]
  <2>1. \A z \in Counted(view, c, d) \ {r} : ClientOf[z] # ClientOf[r]
    BY DEF HasActiveInCategory, Counted, c
  <2>2. CASE x = r \/ y = r
    BY <1>2, <1>4, <2>1, <2>2
  <2>3. CASE x # r /\ y # r
    BY <1>2, <1>4, <2>3, SoundAt DEF c
  <2> QED
    BY <2>2, <2>3
<1>5. Sound(new, c, d)
  BY <1>3, <1>4, SoundAt
<1> QED
  BY <1>5 DEF new, c
---------------------------------------------------------------------------
(* What each transaction sees stays sound                                  *)

\* The parts of Placements that are about one transaction.
Placed(p) ==
  /\ \A r \in Written(p) : InDay(task[p].pending[r], r)
  /\ \A c \in Categories :
       task[p].op \in Placing /\ HasLock(p, c) => Sound(View(p), c, task[p].day)

LEMMA PlacedByAll ==
  Placements <=>
    /\ Transactions
    /\ \A r \in Reservations : InDay(reservation[r], r)
    /\ \A c \in Categories, d \in Days : Sound(reservation, c, d)
    /\ \A p \in Procs : Placed(p)
BY DEF Placements, Placed

\* A step of p leaves what the others do, and takes no lock away from p to give it to
\* them.
Aside(p) ==
  \A q \in Procs \ {p} : /\ task'[q] = task[q]
                         /\ \A k \in Keys : lock'[k] = q => lock[k] = q

LEMMA NothingSeen ==
  ASSUME TypeOK, NEW p \in Procs, Written(p) = {}
  PROVE  View(p) = reservation
BY StateFields DEF View

LEMMA OthersPlaced ==
  ASSUME Placements, NEW p \in Procs, Aside(p), UNCHANGED reservation,
         NEW q \in Procs \ {p}
  PROVE  Placed(q)'
<1>1. Placed(q) /\ TypeOK /\ Transaction(q) /\ task'[q] = task[q]
  BY PlacedByAll DEF Transactions, Aside
<1>2. Written(q)' = Written(q) /\ View(q)' = View(q)
  BY <1>1 DEF Written, View
<1>3. ASSUME NEW c \in Categories, task[q].op \in Placing, HasLock(q, c)'
      PROVE  HasLock(q, c)
  <2>1. task[q].day \in Days
    BY <1>1, <1>3 DEF Transaction, Placing, Operations
  <2>2. <<task[q].day, c>> \in Keys
    BY <2>1 DEF Keys
  <2> QED
    BY <1>1, <1>3, <2>2 DEF Aside, HasLock
<1> QED
  BY <1>1, <1>2, <1>3 DEF Placed

\* A step of p that changes no table and after which p has nothing written.
LEMMA NothingWritten ==
  ASSUME Placements, NEW p \in Procs, Aside(p), UNCHANGED tables, Transactions',
         Written(p)' = {}
  PROVE  Placements'
<1>1. UNCHANGED reservation
  BY DEF tables
<1>2. Placed(p)'
  <2>1. View(p)' = reservation'
    BY DEF Transactions, TypeOK, View
  <2>2. ASSUME NEW c \in Categories, task'[p].op \in Placing
        PROVE  Sound(reservation', c, task'[p].day)
    <3>1. task'[p].day \in Days
      BY <2>2 DEF Transactions, Transaction, Placing, Operations
    <3> QED
      BY <1>1, <3>1, PlacedByAll
  <2> QED
    BY <2>1, <2>2 DEF Placed
<1>3. \A q \in Procs : Placed(q)'
  BY <1>1, <1>2, OthersPlaced
<1>4. /\ \A r \in Reservations : InDay(reservation'[r], r)
      /\ \A c \in Categories, d \in Days : Sound(reservation', c, d)
  BY <1>1, PlacedByAll
<1> QED
  BY <1>3, <1>4 DEF Placements, Placed
LEMMA GotoAside ==
  ASSUME TypeOK, NEW p \in Procs, NEW step, NEW t, Goto(p, step, t)
  PROVE  /\ task'[p] = t /\ pc'[p] = step
         /\ \A q \in Procs \ {p} : task'[q] = task[q] /\ pc'[q] = pc[q]
BY DEF Goto, TypeOK

LEMMA FinishPlaced ==
  ASSUME Placements, NEW p \in Procs, Abort(p)
  PROVE  Placements'
<1>1. TypeOK /\ Finish(p) /\ UNCHANGED tables /\ Transactions'
  BY AbortKeeps DEF Placements, Transactions, Abort
<1>2. Aside(p) /\ task'[p] = NoTask
  BY <1>1, FinishFrees DEF Apart, Aside
<1>3. Written(p)' = {}
  BY <1>2 DEF Written, NoTask, NoRow
<1> QED
  BY <1>1, <1>2, <1>3, NothingWritten

LEMMA RequestPlaced ==
  ASSUME Placements, NEW p \in Procs, Request(p)
  PROVE  Placements'
<1>1. Transactions /\ TypeOK
  BY DEF Placements, Transactions
<1>2. Transactions' /\ UNCHANGED <<tables, locks>> /\ \E t : Fresh(t) /\ Begin(p, t)
  BY <1>1, RequestKeeps
<1>3. PICK t : Fresh(t) /\ Begin(p, t)
  BY <1>2
<1>4. task' = [task EXCEPT ![p] = t] /\ task'[p] = t
  BY <1>1, <1>3 DEF Begin, TypeOK
<1>5. Aside(p)
  BY <1>1, <1>2, <1>4 DEF Aside, TypeOK, locks
<1>6. Written(p)' = {}
  BY <1>3, <1>4 DEF Written, Fresh, NoRow
<1> QED
  BY <1>2, <1>5, <1>6, NothingWritten DEF tables

LEMMA TakeLockPlaced ==
  ASSUME Placements, NEW p \in Procs, TakeLock(p)
  PROVE  Placements'
<1>1. Transactions /\ TypeOK /\ Transaction(p) /\ Transactions' /\ task[p] \in Task
  BY TakeLockKeeps, StateFields DEF Placements, Transactions, TaskFields
<1> DEFINE key == <<task[p].day, NextCategory(p)>>
           need == task[p].need \ {NextCategory(p)}
           known == IF need = {} /\ task[p].op = "book"
                      THEN ClientIntervals(reservation,
                             ClientOf[Head(task[p].todo)], task[p].day, None)
                      ELSE task[p].known
           t == [task[p] EXCEPT !.need = need, !.known = known]
           step == IF need = {} THEN AfterLocks(task[p].op) ELSE "lock"
<1>2. /\ pc[p] = "lock" /\ UNCHANGED tables
      /\ lock' = [lock EXCEPT ![key] = p]
      /\ Goto(p, step, t) /\ t.pending = task[p].pending
  <2>1. t.pending = task[p].pending
    <3> HIDE DEF need, known
    <3> QED
      BY <1>1 DEF Task
  <2> QED
    BY <2>1 DEF TakeLock
<1> HIDE DEF t, step, key
<1>3. /\ \A q \in Procs \ {p} : task'[q] = task[q]
      /\ task'[p].pending = task[p].pending
  BY <1>1, <1>2, GotoAside
<1>4. \A k \in Keys, q \in Procs \ {p} : lock'[k] = q => lock[k] = q
  BY <1>1, <1>2 DEF TypeOK
<1>5. Written(p)' = {}
  BY <1>1, <1>2, <1>3 DEF Written, Transaction
<1> QED
  BY <1>1, <1>2, <1>3, <1>4, <1>5, NothingWritten DEF Aside

LEMMA TakeBaseLockPlaced ==
  ASSUME Placements, NEW p \in Procs, TakeBaseLock(p)
  PROVE  Placements'
<1>1. Transactions /\ TypeOK /\ Transaction(p) /\ Transactions'
  BY TakeBaseLockKeeps DEF Placements, Transactions
<1>2. /\ pc[p] = "lock" /\ UNCHANGED <<tables, lock>>
      /\ Goto(p, "decide", task[p])
  BY DEF TakeBaseLock
<1>3. Aside(p) /\ task'[p] = task[p]
  BY <1>1, <1>2, GotoAside DEF Aside
<1>4. Written(p)' = {}
  BY <1>1, <1>2, <1>3 DEF Written, Transaction
<1> QED
  BY <1>1, <1>2, <1>3, <1>4, NothingWritten DEF tables

LEMMA DecidePlaced ==
  ASSUME Placements, NEW p \in Procs, Decide(p)
  PROVE  Placements'
<1>1. Transactions /\ TypeOK /\ Transaction(p) /\ Transactions' /\ pc[p] = "decide"
  BY DecideKeeps DEF Placements, Transactions, Decide
<1>2. CASE Abort(p)
  BY <1>2, FinishPlaced
<1>3. CASE Goto(p, "commit", task[p]) /\ UNCHANGED <<tables, locks>>
  <2>1. Aside(p) /\ task'[p] = task[p]
    BY <1>1, <1>3, GotoAside DEF Aside, locks
  <2>2. Written(p)' = {}
    BY <1>1, <2>1 DEF Written, Transaction
  <2> QED
    BY <1>1, <1>3, <2>1, <2>2, NothingWritten DEF tables
<1> QED
  BY <1>2, <1>3 DEF Decide

\* All that a transaction sees lies in the day on which it begins.
LEMMA ViewInDay ==
  ASSUME Placements, NEW p \in Procs, NEW x \in Reservations
  PROVE  InDay(View(p)[x], x)
BY ViewType DEF Placements, Transactions

\* A write that found room.
LEMMA WritePlaced ==
  ASSUME Placements, NEW p \in Procs, NEW r \in Reservations, NEW row \in Row,
         row.status # "ABSENT", NEW ideal, Write(p, r, row, ideal), Transactions',
         DayOf(row.start) = task[p].day, InDay(row, r),
         Room(View(p), r, row, task[p].day),
         ~ HasActiveInCategory(View(p), ClientOf[r], CategoryOf[r], task[p].day, r)
  PROVE  Placements'
<1>1. /\ TypeOK /\ TaskFields(task[p]) /\ Placed(p) /\ View(p) \in [Reservations -> Row]
  BY StateFields, PlacedByAll, ViewType DEF Transactions
<1>2. /\ task'[p].pending = [task[p].pending EXCEPT ![r] = row]
      /\ Written(p)' = Written(p) \cup {r}
      /\ View(p)' = [View(p) EXCEPT ![r] = row]
      /\ UNCHANGED <<tables, locks>>
  BY <1>1, WriteShows
<1>3. /\ \A q \in Procs \ {p} : task'[q] = task[q]
      /\ task'[p].day = task[p].day /\ task'[p].op = task[p].op
  <2> DEFINE t == [task[p] EXCEPT !.todo = Tail(task[p].todo), !.ideal = ideal,
                                  !.from = reservation[r].start, !.pending[r] = row]
             step == IF Tail(task[p].todo) = <<>> THEN "commit" ELSE "place"
  <2>1. t.day = task[p].day /\ t.op = task[p].op
    BY <1>1 DEF TaskFields, Task
  <2>2. Goto(p, step, t)
    BY DEF Write
  <2> HIDE DEF t, step
  <2> QED
    BY <1>1, <2>1, <2>2, GotoAside
<1>4. Aside(p) /\ UNCHANGED reservation
  BY <1>2, <1>3 DEF Aside, locks, tables
<1>5. \A x \in Written(p)' : InDay(task'[p].pending[x], x)
  BY <1>1, <1>2 DEF Placed, TaskFields, Written
<1>6. ASSUME NEW c \in Categories, task[p].op \in Placing, HasLock(p, c)
      PROVE  Sound([View(p) EXCEPT ![r] = row], c, task[p].day)
  <2>1. Sound(View(p), c, task[p].day)
    BY <1>1, <1>6 DEF Placed
  <2>2. CASE c = CategoryOf[r]
    BY <1>1, <2>1, <2>2, ViewInDay, PlacedIsSound DEF TaskFields
  <2>3. CASE c # CategoryOf[r]
    <3> DEFINE v == View(p)
               new == [v EXCEPT ![r] = row]
               d == task[p].day
    <3>1. \A x \in Reservations \ {r} : new[x] = v[x]
      BY <1>1
    <3> HIDE DEF v, new, d
    <3>2. \A x \in Counted(new, c, d) : x \in Counted(v, c, d) /\ new[x].start = v[x].start
      BY <2>3, <3>1 DEF Counted, HoldingIn
    <3>3. Sound(new, c, d)
      BY <2>1, <3>2, FewerAreSound DEF v, d
    <3> QED
      BY <3>3 DEF v, new, d
  <2> QED
    BY <2>2, <2>3
<1>7. Placed(p)'
  <2>1. ASSUME NEW c \in Categories, task'[p].op \in Placing, HasLock(p, c)'
        PROVE  Sound(View(p)', c, task'[p].day)
    <3>1. HasLock(p, c)
      BY <1>2, <1>3, <2>1 DEF HasLock, locks
    <3> QED
      BY <1>2, <1>3, <1>6, <2>1, <3>1
  <2> QED
    BY <1>5, <2>1 DEF Placed
<1>8. \A q \in Procs : Placed(q)'
  BY <1>4, <1>7, OthersPlaced
<1>9. /\ \A x \in Reservations : InDay(reservation'[x], x)
      /\ \A c \in Categories, d \in Days : Sound(reservation', c, d)
  BY <1>4, PlacedByAll
<1> QED
  BY <1>8, <1>9 DEF Placements, Placed
LEMMA WrittenDay ==
  ASSUME TypeOK, NEW p \in Procs, NEW r \in Reservations, NEW row \in Row,
         row.status # "ABSENT", NEW ideal, Write(p, r, row, ideal), WritesOnLockedDay'
  PROVE  DayOf(row.start) = task[p].day
<1> DEFINE t == [task[p] EXCEPT !.todo = Tail(task[p].todo), !.ideal = ideal,
                                !.from = reservation[r].start, !.pending[r] = row]
           step == IF Tail(task[p].todo) = <<>> THEN "commit" ELSE "place"
<1>1. TaskFields(task[p]) /\ Goto(p, step, t)
  BY StateFields DEF Write
<1>2. t.day = task[p].day
  BY <1>1 DEF TaskFields, Task
<1>3. task'[p].day = task[p].day
  <2> HIDE DEF t, step
  <2> QED
    BY <1>1, <1>2, GotoAside
<1>4. task'[p].pending[r] = row /\ r \in Written(p)'
  <2>1. /\ task'[p].pending = [task[p].pending EXCEPT ![r] = row]
        /\ Written(p)' = Written(p) \cup {r}
    BY WriteShows
  <2> HIDE DEF t, step
  <2> QED
    BY <1>1, <2>1 DEF TaskFields
<1> QED
  BY <1>3, <1>4 DEF WritesOnLockedDay

LEMMA PlaceSegmentPlaced ==
  ASSUME Placements, NEW p \in Procs, PlaceSegment(p), WritesOnLockedDay'
  PROVE  Placements'
<1> DEFINE r == Head(task[p].todo)
           start == Chosen(p, r)
           row == [NoRow EXCEPT !.status = "PENDIENTE_DEPOSITO", !.start = start]
<1>1. /\ Transactions /\ TypeOK /\ Transactions' /\ pc[p] = "place"
      /\ r \in Reservations /\ IsFiniteSet(task[p].known) /\ task[p].day \in Days
  BY PlaceSegmentKeeps, PlaceFields DEF Placements, Transactions, PlaceSegment
<1>2. CASE Abort(p)
  BY <1>2, FinishPlaced
<1>3. CASE /\ start # NoSlot
           /\ ~ HasActiveInCategory(View(p), ClientOf[r], CategoryOf[r],
                                    task[p].day, None)
           /\ Write(p, r, row, task[p].ideal + Duration[r])
  <2>1. /\ start \in Nat /\ start + Duration[r] <= (DayOf(start) + 1) * DayLength
        /\ \/ ~ (Plan!MaxConcurrentInWindow(
                   HeldOverlapping(View(p), CategoryOf[r],
                                   Plan!Lasting(start, Duration[r]), r),
                   Plan!Lasting(start, Duration[r])) >= Capacity[CategoryOf[r]])
           \/ Plan!MaxConcurrentInWindow(
                HeldInDay(View(p), CategoryOf[r], task[p].day),
                Plan!Lasting(start, Duration[r])) < Capacity[CategoryOf[r]]
    BY <1>1, <1>3, ChosenHasRoom
  <2> HIDE DEF start
  <2>2. row \in Row /\ row.status # "ABSENT" /\ row.start = start
    BY <2>1, NoTaskType DEF Row, NoRow, Machine!Statuses
  <2> HIDE DEF r, row
  <2>3. DayOf(row.start) = task[p].day
    BY <1>1, <1>3, <2>2, WrittenDay
  <2>4. InDay(row, r)
    BY <1>1, <2>1, <2>2, <2>3 DEF InDay
  <2>5. Room(View(p), r, row, task[p].day)
    BY <2>1, <2>2 DEF Room
  <2>6. ~ HasActiveInCategory(View(p), ClientOf[r], CategoryOf[r], task[p].day, r)
    BY <1>3, BookingAssumption DEF HasActiveInCategory, HoldingIn
  <2> QED
    BY <1>1, <1>3, <2>2, <2>3, <2>4, <2>5, <2>6, WritePlaced
<1> QED
  BY <1>2, <1>3 DEF PlaceSegment

\* The rows of a reschedule and of a revival: their place was accepted.
LEMMA AcceptedPlaced ==
  ASSUME Placements, NEW p \in Procs, NEW r \in Reservations, NEW row \in Row,
         row.status # "ABSENT", NEW ideal, Write(p, r, row, ideal), Transactions',
         Verdict(View(p), r, row.start) = "OK", task[p].day \in Days,
         WritesOnLockedDay'
  PROVE  Placements'
<1>1. TypeOK /\ base \in BaseSchedules /\ exceptions \subseteq Closures
  BY StateFields DEF Placements, Transactions
<1>2. DayOf(row.start) = task[p].day /\ row.start \in Nat
  BY <1>1, WrittenDay DEF Row
<1>3. /\ row.start + Duration[r] <= (DayOf(row.start) + 1) * DayLength
      /\ ~ HasActiveInCategory(View(p), ClientOf[r], CategoryOf[r], DayOf(row.start), r)
      /\ Room(View(p), r, row, task[p].day)
  BY <1>1, <1>2, AcceptedHasRoom DEF Room
<1>4. InDay(row, r)
  BY <1>2, <1>3 DEF InDay
<1> QED
  BY <1>2, <1>3, <1>4, WritePlaced

LEMMA MovePlaced ==
  ASSUME Placements, NEW p \in Procs, Move(p), WritesOnLockedDay'
  PROVE  Placements'
<1> DEFINE r == Head(task[p].todo)
           row == [reservation[r] EXCEPT !.start = task[p].ideal]
<1>1. /\ Transactions /\ TypeOK /\ Transactions' /\ pc[p] = "place"
      /\ r \in Reservations /\ task[p].ideal \in Nat /\ reservation[r] \in Row
      /\ Transaction(p) /\ task[p].op = "reschedule" /\ task[p].day \in Days
  BY MoveKeeps, PlaceFields DEF Placements, Transactions, Move
<1>2. CASE Abort(p)
  BY <1>2, FinishPlaced
<1>3. CASE /\ reservation[r].status \in Reschedulable
           /\ Verdict(reservation, r, task[p].ideal) = "OK"
           /\ Write(p, r, row, task[p].ideal)
  <2>1. row \in Row /\ row.status # "ABSENT" /\ row.start = task[p].ideal
    BY <1>1, <1>3 DEF Row, Reschedulable
  <2>2. View(p) = reservation
    BY <1>1, NothingSeen DEF Transaction
  <2> HIDE DEF row, r
  <2> QED
    BY <1>1, <1>3, <2>1, <2>2, AcceptedPlaced
<1> QED
  BY <1>2, <1>3 DEF Move

LEMMA BringBackPlaced ==
  ASSUME Placements, NEW p \in Procs, BringBack(p), WritesOnLockedDay'
  PROVE  Placements'
<1> DEFINE r == Head(task[p].todo)
           row == [reservation[r] EXCEPT !.status = "PENDIENTE_DEPOSITO",
                                         !.source = "NINGUNA"]
<1>1. /\ Transactions' /\ r \in Reservations /\ reservation[r] \in Row
      /\ task[p].day \in Days
  BY BringBackKeeps, PlaceFields DEF Placements, BringBack
<1>2. CASE Abort(p)
  BY <1>2, FinishPlaced
<1>3. CASE /\ Verdict(View(p), r, reservation[r].start) = "OK"
           /\ Write(p, r, row, 0)
  <2>1. row \in Row /\ row.status # "ABSENT" /\ row.start = reservation[r].start
    BY <1>1 DEF Row, Machine!Statuses, Machine!Sources
  <2> HIDE DEF row, r
  <2> QED
    BY <1>1, <1>3, <2>1, AcceptedPlaced
<1> QED
  BY <1>2, <1>3 DEF BringBack
\* What p commits is sound: the days and categories of its rows are those it sees
\* soundly, and everything else is as it was.
LEMMA CommittedIsSound ==
  ASSUME Placements, WritesOnLockedDay, NEW p \in Procs, pc[p] = "commit",
         NEW c \in Categories, NEW d \in Days
  PROVE  Sound(View(p), c, d)
<1>1. /\ Transactions /\ TypeOK /\ Transaction(p) /\ Placed(p) /\ TaskFields(task[p])
      /\ Sound(reservation, c, d)
  BY StateFields, PlacedByAll DEF Transactions
<1>2. \A r \in Written(p) : /\ DayOf(task[p].pending[r].start) = task[p].day
                            /\ View(p)[r] = task[p].pending[r]
                            /\ task[p].op \in Placing /\ HasLock(p, CategoryOf[r])
  BY <1>1, ViewType DEF WritesOnLockedDay, Transaction, Written
<1>3. CASE d = task[p].day /\ \E r \in Written(p) : CategoryOf[r] = c
  BY <1>1, <1>2, <1>3 DEF Placed
<1>4. CASE ~ (d = task[p].day /\ \E r \in Written(p) : CategoryOf[r] = c)
  <2>1. \A x \in Counted(View(p), c, d) : x \in Reservations /\ x \notin Written(p)
    BY <1>2, <1>4 DEF Counted, HoldingIn
  <2>2. \A x \in Counted(View(p), c, d) : View(p)[x] = reservation[x]
    BY <1>1, <2>1, ViewType
  <2> DEFINE v == View(p)
  <2> HIDE DEF v
  <2>3. \A x \in Counted(v, c, d) : /\ x \in Counted(reservation, c, d)
                                    /\ v[x].start = reservation[x].start
    BY <2>2 DEF v, Counted, HoldingIn
  <2>4. Sound(v, c, d)
    BY <1>1, <2>3, FewerAreSound
  <2> QED
    BY <2>4 DEF v
<1> QED
  BY <1>3, <1>4

\* What p commits does not disturb what q sees of the categories that q has locked.
LEMMA OthersSeeCommit ==
  ASSUME Placements, WritesOnLockedDay, NEW p \in Procs, Commit(p),
         NEW q \in Procs \ {p}
  PROVE  Placed(q)'
<1>1. /\ Transactions /\ TypeOK /\ Transaction(p) /\ Transaction(q) /\ Placed(q)
      /\ pc[p] = "commit" /\ Finish(p) /\ reservation' = View(p)
  BY PlacedByAll DEF Transactions, Commit
<1>2. /\ task'[q] = task[q] /\ \A k \in Keys : lock'[k] = q => lock[k] = q
  BY <1>1, FinishFrees DEF Apart
<1>3. Written(q)' = Written(q)
  BY <1>2 DEF Written
<1>4. \A x \in Reservations :
        View(q)'[x] = IF x \in Written(q) THEN task[q].pending[x] ELSE View(p)[x]
  BY <1>1, <1>2, <1>3 DEF View
<1>5. PICK w : w = View(q)'
  OBVIOUS
<1>6. ASSUME NEW c \in Categories, task[q].op \in Placing, HasLock(q, c)'
      PROVE  Sound(w, c, task[q].day)
  <2>1. task[q].day \in Days
    BY <1>1, <1>6 DEF Transaction, Placing, Operations
  <2>2. <<task[q].day, c>> \in Keys
    BY <2>1 DEF Keys
  <2>3. lock[<<task[q].day, c>>] = q
    BY <1>2, <1>6, <2>2 DEF HasLock
  <2>4. Sound(View(q), c, task[q].day)
    BY <1>1, <1>6, <2>3 DEF Placed, HasLock
  <2>5. ASSUME NEW x \in Written(p), CategoryOf[x] = c
        PROVE  DayOf(View(p)[x].start) # task[q].day
    <3>1. /\ DayOf(View(p)[x].start) = task[p].day
          /\ lock[<<task[p].day, c>>] = p
      <4>1. View(p)[x] = task[p].pending[x]
        BY <1>1, <2>5, ViewType DEF Written
      <4>2. DayOf(task[p].pending[x].start) = task[p].day
        BY <2>5 DEF WritesOnLockedDay
      <4>3. HasLock(p, CategoryOf[x])
        BY <1>1, <2>5 DEF Transaction
      <4> QED
        BY <2>5, <4>1, <4>2, <4>3 DEF HasLock
    <3> QED
      BY <2>3, <3>1
  <2>6. ASSUME NEW x \in Counted(w, c, task[q].day)
        PROVE  w[x] = View(q)[x]
    <3>1. /\ x \in Reservations /\ CategoryOf[x] = c
          /\ DayOf(w[x].start) = task[q].day
      BY <2>6 DEF Counted, HoldingIn
    <3>2. CASE x \in Written(q)
      BY <1>1, <1>4, <1>5, <3>1, <3>2, ViewType
    <3>3. CASE x \notin Written(q)
      <4>1. w[x] = View(p)[x]
        BY <1>4, <1>5, <3>1, <3>3
      <4>2. x \notin Written(p)
        BY <2>5, <3>1, <4>1
      <4> QED
        BY <1>1, <3>1, <3>3, <4>1, <4>2, ViewType
    <3> QED
      BY <3>2, <3>3
  <2> DEFINE v == View(q)
  <2> HIDE DEF v
  <2>7. \A x \in Counted(w, c, task[q].day) :
          x \in Counted(v, c, task[q].day) /\ w[x].start = v[x].start
    BY <2>6 DEF v, Counted, HoldingIn
  <2> QED
    BY <2>4, <2>7, FewerAreSound DEF v
<1>7. \A x \in Written(q)' : InDay(task'[q].pending[x], x)
  BY <1>1, <1>2, <1>3 DEF Placed
<1> QED
  BY <1>2, <1>5, <1>6, <1>7 DEF Placed

LEMMA CommitPlaced ==
  ASSUME Placements, WritesOnLockedDay, NEW p \in Procs, Commit(p)
  PROVE  Placements'
<1>1. /\ Transactions /\ TypeOK /\ Transactions' /\ pc[p] = "commit"
      /\ reservation' = View(p) /\ Finish(p)
  BY CommitKeeps DEF Placements, Transactions, Commit
<1>2. /\ \A x \in Reservations : InDay(reservation'[x], x)
      /\ \A c \in Categories, d \in Days : Sound(reservation', c, d)
  BY <1>1, ViewInDay, CommittedIsSound
<1>3. Placed(p)'
  <2>1. task'[p] = NoTask
    BY <1>1, FinishFrees
  <2>2. Written(p)' = {}
    BY <2>1 DEF Written, NoTask, NoRow
  <2>3. task'[p].op \notin Placing
    BY <2>1, BookingAssumption DEF NoTask, Placing, Operations
  <2> QED
    BY <2>2, <2>3 DEF Placed
<1>4. \A q \in Procs : Placed(q)'
  BY <1>3, OthersSeeCommit
<1> QED
  BY <1>1, <1>2, <1>4 DEF Placements, Placed

\* Whatever the rest of the system does to a reservation, it counts at most where it
\* counted before.
LEMMA AdvanceCountsLess ==
  ASSUME TypeOK, NEW r \in Reservations, NEW to, Advance(r, to)
  PROVE  /\ \A x \in Reservations :
              /\ reservation'[x].start = reservation[x].start
              /\ reservation'[x].status # "ABSENT" => reservation[x].status # "ABSENT"
              /\ /\ Holds(reservation'[x]) /\ ~ reservation'[x].late
                 => Holds(reservation[x]) /\ ~ reservation[x].late
         /\ UNCHANGED <<locks, task>>
<1>1. PICK source \in Cancellers(to) :
        reservation' = [reservation EXCEPT
                          ![r].status = to, ![r].source = source,
                          ![r].late = @ \/ reservation[r].status = "NO_SHOW"]
  BY DEF Advance
<1>2. /\ reservation \in [Reservations -> Row] /\ reservation[r] \in Row
      /\ reservation[r].late \in BOOLEAN
  BY RowFields DEF TypeOK
<1>3. \A x \in Reservations \ {r} : reservation'[x] = reservation[x]
  BY <1>1, <1>2
<1>4. /\ reservation'[r].start = reservation[r].start
      /\ reservation'[r].status = to
      /\ reservation'[r].late
           <=> reservation[r].late \/ reservation[r].status = "NO_SHOW"
  <2>1. PICK late \in BOOLEAN :
          late <=> reservation[r].late \/ reservation[r].status = "NO_SHOW"
    BY <1>2
  <2>2. reservation'[r] = [reservation[r] EXCEPT !.status = to, !.source = source,
                             !.late = @ \/ reservation[r].status = "NO_SHOW"]
    BY <1>1, <1>2
  <2> QED
    BY <1>2, <2>1, <2>2 DEF Row
<1>5. /\ reservation[r].status \in Machine!Statuses
      /\ to \in Machine!Transitions[reservation[r].status]
  BY DEF Advance, Machine!CanTransition
<1>6. /\ reservation[r].status # "ABSENT"
      /\ Holds(reservation[r]) \/ reservation[r].status = "NO_SHOW"
  BY <1>5 DEF Machine!Statuses, Machine!Transitions, Holds, HoldingExcluded
<1>7. UNCHANGED <<locks, task>>
  BY DEF Advance
<1> QED
  BY <1>3, <1>4, <1>6, <1>7

LEMMA AdvancePlaced ==
  ASSUME Placements, NEW r \in Reservations, NEW to, Advance(r, to)
  PROVE  Placements'
<1>1. Transactions /\ TypeOK /\ Transactions'
  BY AdvanceKeeps DEF Placements, Transactions
<1>2. /\ \A x \in Reservations :
           /\ reservation'[x].start = reservation[x].start
           /\ reservation'[x].status # "ABSENT" => reservation[x].status # "ABSENT"
           /\ /\ Holds(reservation'[x]) /\ ~ reservation'[x].late
              => Holds(reservation[x]) /\ ~ reservation[x].late
      /\ UNCHANGED <<locks, task>>
  BY <1>1, AdvanceCountsLess
<1>3. \A x \in Reservations : InDay(reservation'[x], x)
  BY <1>2 DEF Placements, InDay
<1>4. PICK after : after = reservation'
  OBVIOUS
<1>5. ASSUME NEW c \in Categories, NEW d \in Days
      PROVE  Sound(after, c, d)
  <2>1. \A x \in Counted(after, c, d) :
          /\ x \in Counted(reservation, c, d) /\ after[x].start = reservation[x].start
    BY <1>2, <1>4 DEF Counted, HoldingIn
  <2> QED
    BY <2>1, FewerAreSound DEF Placements
<1>6. ASSUME NEW q \in Procs
      PROVE  Placed(q)'
  <2>1. /\ Placed(q) /\ Written(q)' = Written(q) /\ task'[q] = task[q]
        /\ View(q) \in [Reservations -> Row]
    BY <1>1, <1>2, PlacedByAll, ViewType DEF Written
  <2>2. PICK v, w : v = View(q) /\ w = View(q)'
    OBVIOUS
  <2>3. \A x \in Reservations :
          \/ w[x] = v[x]
          \/ v[x] = reservation[x] /\ w[x] = after[x]
    BY <1>1, <1>4, <2>1, <2>2 DEF View
  <2>4. ASSUME NEW c \in Categories, NEW x \in Counted(w, c, task[q].day)
        PROVE  x \in Counted(v, c, task[q].day) /\ w[x].start = v[x].start
    BY <1>2, <1>4, <2>3, <2>4 DEF Counted, HoldingIn
  <2>5. ASSUME NEW c \in Categories, task[q].op \in Placing, HasLock(q, c)'
        PROVE  Sound(w, c, task[q].day)
    <3>1. HasLock(q, c)
      BY <1>2, <2>5 DEF HasLock, locks
    <3>2. Sound(v, c, task[q].day)
      BY <2>1, <2>2, <2>5, <3>1 DEF Placed
    <3> QED
      BY <2>4, <3>2, FewerAreSound
  <2>6. \A x \in Written(q)' : InDay(task'[q].pending[x], x)
    BY <2>1 DEF Placed
  <2> QED
    BY <2>1, <2>2, <2>5, <2>6 DEF Placed
<1> QED
  BY <1>1, <1>3, <1>4, <1>5, <1>6 DEF Placements, Placed
LEMMA EmptyIsSound ==
  ASSUME NEW view, NEW c \in Categories, NEW d, HoldingIn(view, c) = {}
  PROVE  Sound(view, c, d)
<1>1. Counted(view, c, d) = {} /\ \A t : At(view, c, d, t) = {}
  BY DEF Counted, At
<1>2. Cardinality({}) = 0 /\ Capacity[c] \in Nat
  BY FS_EmptySet, BookingAssumption
<1> QED
  BY <1>1, <1>2, SoundAt

LEMMA InitPlacements == Init => Placements
<1> SUFFICES ASSUME Init
             PROVE  Placements
  OBVIOUS
<1>1. Transactions
  BY InitTransactions
<1>2. \A p \in Procs : Written(p) = {} /\ task[p].op \notin Placing
  BY BookingAssumption DEF Init, Written, NoTask, NoRow, Placing, Operations
<1>3. \A r \in Reservations : reservation[r] = NoRow
  BY DEF Init
<1>4. \A c \in Categories, d \in Days : Sound(reservation, c, d)
  BY <1>3, EmptyIsSound DEF HoldingIn, Holds, NoRow
<1> QED
  BY <1>1, <1>2, <1>3, <1>4 DEF Placements, InDay, NoRow

LEMMA NextPlacements ==
  Placements /\ [Next]_vars /\ WritesOnLockedDay /\ WritesOnLockedDay' => Placements'
<1> SUFFICES ASSUME Placements, [Next]_vars, WritesOnLockedDay, WritesOnLockedDay'
             PROVE  Placements'
  OBVIOUS
<1>1. ASSUME NEW p \in Procs, Request(p)
      PROVE  Placements'
  BY <1>1, RequestPlaced
<1>2. ASSUME NEW p \in Procs, Work(p)
      PROVE  Placements'
  <2>1. CASE Conflict(p)
    BY <2>1, FinishPlaced DEF Conflict
  <2> QED
    BY <1>2, <2>1, TakeLockPlaced, TakeBaseLockPlaced, PlaceSegmentPlaced, MovePlaced,
       BringBackPlaced, DecidePlaced, CommitPlaced DEF Work
<1>3. ASSUME NEW r \in Reservations, NEW to \in Elsewhere, Advance(r, to)
      PROVE  Placements'
  BY <1>3, AdvancePlaced
<1>4. CASE UNCHANGED vars
  <2>1. Transactions'
    BY <1>4, StutterKeeps DEF Placements
  <2>2. UNCHANGED reservation /\ UNCHANGED <<task, lock>>
    BY <1>4 DEF vars
  <2>3. \A p \in Procs : Placed(p)'
    <3>1. ASSUME NEW p \in Procs
          PROVE  Written(p)' = Written(p) /\ View(p)' = View(p)
      BY <2>2 DEF Written, View
    <3> QED
      BY <2>2, <3>1, PlacedByAll DEF Placed, HasLock
  <2> QED
    BY <2>1, <2>2, <2>3, PlacedByAll DEF Placements, Placed
<1> QED
  BY <1>1, <1>2, <1>3, <1>4 DEF Next
---------------------------------------------------------------------------
(* In daytime every request writes on its day                              *)

LEMMA ConsecutiveNow ==
  ASSUME NEW s \in Seq(Reservations), s # <<>>, NEW t, NEW d, Consecutive(s, t, d)
  PROVE  DayOf(t) = d
<1>1. 1 \in DOMAIN s
  OBVIOUS
<1> QED
  BY <1>1 DEF Consecutive

LEMMA ConsecutiveTail ==
  ASSUME NEW s \in Seq(Reservations), s # <<>>, NEW t, NEW d, Consecutive(s, t, d)
  PROVE  Consecutive(Tail(s), t + Duration[Head(s)], d)
<1>1. /\ Len(s) \in Nat \ {0} /\ DOMAIN s = 1 .. Len(s) /\ Head(s) = s[1]
      /\ DOMAIN Tail(s) = 1 .. Len(s) - 1
      /\ \A i \in DOMAIN Tail(s) : Tail(s)[i] = s[i + 1]
      /\ Tail(s) # <<>> => Len(s) > 1
  OBVIOUS
<1>2. PICK f \in [DOMAIN s -> Instants] :
        /\ f[1] = t
        /\ \A i \in DOMAIN s : DayOf(f[i]) = d
        /\ \A i \in DOMAIN s : i + 1 \in DOMAIN s => f[i + 1] = f[i] + Duration[s[i]]
  BY DEF Consecutive
<1> DEFINE g == [i \in DOMAIN Tail(s) |-> f[i + 1]]
<1>3. \A i \in DOMAIN Tail(s) : i \in Nat /\ i + 1 \in DOMAIN s
  BY <1>1
<1>4. g \in [DOMAIN Tail(s) -> Instants]
  BY <1>2, <1>3
<1>5. Tail(s) # <<>> => g[1] = t + Duration[Head(s)]
  BY <1>1, <1>2
<1>6. \A i \in DOMAIN Tail(s) : DayOf(g[i]) = d
  BY <1>2, <1>3
<1>7. ASSUME NEW i \in DOMAIN Tail(s), i + 1 \in DOMAIN Tail(s)
      PROVE  g[i + 1] = g[i] + Duration[Tail(s)[i]]
  <2>1. /\ g[i] = f[i + 1] /\ g[i + 1] = f[(i + 1) + 1] /\ Tail(s)[i] = s[i + 1]
        /\ i + 1 \in DOMAIN s /\ (i + 1) + 1 \in DOMAIN s
    BY <1>1, <1>3, <1>7
  <2> QED
    BY <1>2, <2>1
<1> HIDE DEF g
<1> QED
  BY <1>4, <1>5, <1>6, <1>7 DEF Consecutive

\* The end of what crosses an ideal start lies on the same day, or on its end.
LEMMA AdjustedOnDay ==
  ASSUME NEW known, known \subseteq Held, IsFiniteSet(known), NEW ideal \in Nat,
         NEW duration, NEW limit \in Nat, ideal < limit,
         \A j \in known : j.end <= limit
  PROVE  /\ Plan!Adjusted(ideal, duration, known) \in Nat
         /\ ideal <= Plan!Adjusted(ideal, duration, known)
         /\ Plan!Adjusted(ideal, duration, known) <= limit
<1> DEFINE crossed == {j \in known : Plan!Overlap(Plan!Lasting(ideal, duration), j)}
           last == CHOOSE x \in crossed : \A k \in crossed : k.end <= x.end
           a == Plan!Adjusted(ideal, duration, known)
<1>1. CASE crossed = {}
  BY <1>1 DEF Plan!Adjusted
<1>2. CASE crossed # {}
  <2>1. a = last.end
    BY <1>2 DEF Plan!Adjusted
  <2>2. \A j \in crossed : j.end \in Nat /\ ideal < j.end /\ j.end <= limit
    BY DEF Held, Plan!Overlap, Plan!Lasting
  <2>3. \E x \in crossed : \A k \in crossed : k.end <= x.end
    <3> DEFINE f == [j \in crossed |-> j.end]
               Ends == {f[j] : j \in crossed}
    <3>1. IsFiniteSet(crossed) /\ f = [j \in crossed |-> f[j]]
      BY FS_Subset
    <3>2. \A j \in crossed : f[j] = j.end
      OBVIOUS
    <3> HIDE DEF f, crossed
    <3>3. IsFiniteSet(Ends) /\ Ends \subseteq Int /\ Ends # {}
      BY <1>2, <2>2, <3>1, <3>2, FiniteImage
    <3>4. PICK m \in Ends : \A x \in Ends : x <= m
      <4> HIDE DEF Ends
      <4> QED
        BY <3>3, GreatestElement
    <3> QED
      BY <3>2, <3>4
  <2>4. last \in crossed
    BY <2>3
  <2> HIDE DEF last, crossed, a
  <2> QED
    BY <2>1, <2>2, <2>4 DEF a
<1> QED
  BY <1>1, <1>2

\* Nothing is accepted at midnight.
LEMMA MidnightRefused ==
  ASSUME Daytime, NEW view, NEW r \in Reservations, NEW d \in Nat,
         base \in BaseSchedules, exceptions \subseteq Closures
  PROVE  Verdict(view, r, d * DayLength) # "OK"
<1> DEFINE t == d * DayLength
           c == CategoryOf[r]
           ranges == Hours!ResolveDayMinuteRanges(
                       base, {e \in exceptions : e.day = d}, c)
<1>1. t \in Nat /\ t < (d + 1) * DayLength /\ DayOf(t) = d /\ c \in Categories
  <2>1. t \in Nat /\ t < (d + 1) * DayLength /\ t <= t /\ c \in Categories
    BY BookingAssumption
  <2> QED
    BY <2>1, DayUnique
<1>2. SUFFICES ASSUME Verdict(view, r, t) = "OK"
               PROVE  FALSE
  OBVIOUS
<1>3. \E w \in Windows(base, exceptions, d, c) : t >= w.start
  BY <1>1, <1>2 DEF Verdict, Plan!EvaluatePlacement, Plan!Lasting
<1>4. PICK w \in Windows(base, exceptions, d, c) : t >= w.start
  BY <1>3
<1>5. PICK i \in DOMAIN ranges :
        w = [start |-> t + ranges[i].from, end |-> t + ranges[i].to]
  BY DEF Windows, Hours!OperatingWindows
<1>6. ranges[i].from > 0 /\ ranges[i].from \in 0 .. DayLength
  <2>1. {e \in exceptions : e.day = d} \subseteq Closures
    OBVIOUS
  <2>2. /\ ranges[i].from \in 0 .. DayLength
        /\ \E q \in base \cup {e.range : e \in {x \in exceptions : x.type = "OPEN"}} :
             q.from <= ranges[i].from
    <3>1. PICK E \in SUBSET Closures : E = {e \in exceptions : e.day = d}
      BY <2>1
    <3>2. i \in DOMAIN Hours!ResolveDayMinuteRanges(base, E, c)
      BY <3>1
    <3>3. /\ Hours!ResolveDayMinuteRanges(base, E, c)[i].from \in 0 .. DayLength
          /\ \E q \in base \cup {e.range : e \in {x \in E : x.type = "OPEN"}} :
               q.from <= Hours!ResolveDayMinuteRanges(base, E, c)[i].from
      BY <3>1, <3>2, ResolvedInDay
    <3>4. /\ Hours!ResolveDayMinuteRanges(base, E, c) = ranges
          /\ {e.range : e \in {x \in E : x.type = "OPEN"}}
               \subseteq {e.range : e \in {x \in exceptions : x.type = "OPEN"}}
      BY <3>1
    <3> HIDE DEF ranges
    <3> QED
      BY <3>3, <3>4
  <2> HIDE DEF ranges
  <2>3. PICK q \in base \cup {e.range : e \in {x \in exceptions : x.type = "OPEN"}} :
          q.from <= ranges[i].from
    BY <2>2
  <2>4. q.from > 0 /\ q.from \in 0 .. DayLength
    BY HoursAssumption DEF Daytime
  <2> QED
    BY <2>2, <2>3, <2>4, BookingAssumption
<1> HIDE DEF t, ranges
<1> QED
  BY <1>1, <1>4, <1>5, <1>6, BookingAssumption
\* What crosses a new segment ends on the day of the request.
LEMMA ConflictsOnDay ==
  ASSUME DaytimePlacements, NEW p \in Procs, task[p].op = "book",
         NEW j \in Conflicts(p)
  PROVE  j.end <= (task[p].day + 1) * DayLength
<1>1. /\ Placements /\ TypeOK /\ Planned(p) /\ WritesOnLockedDay /\ TaskFields(task[p])
  BY StateFields DEF DaytimePlacements, Placements, Transactions
<1>2. CASE j \in task[p].known
  BY <1>1, <1>2 DEF Planned
<1>3. CASE j \notin task[p].known
  <2>1. PICK r \in Written(p) : j = Interval(task[p].pending, r)
    BY <1>3 DEF Conflicts
  <2>2. /\ r \in Reservations /\ task[p].pending[r].status # "ABSENT"
        /\ DayOf(task[p].pending[r].start) = task[p].day
        /\ InDay(task[p].pending[r], r)
    BY <1>1 DEF Written, WritesOnLockedDay, Placements
  <2>3. j.end = task[p].pending[r].start + Duration[r]
    BY <1>1, <2>1, <2>2, RowFields DEF TaskFields
  <2> QED
    BY <2>2, <2>3 DEF InDay
<1> QED
  BY <1>2, <1>3

LEMMA ChosenOnDay ==
  ASSUME Daytime, DaytimePlacements, NEW p \in Procs, pc[p] = "place",
         task[p].op = "book", Chosen(p, Head(task[p].todo)) # NoSlot
  PROVE  DayOf(Chosen(p, Head(task[p].todo))) = task[p].day
<1> DEFINE r == Head(task[p].todo)
           c == CategoryOf[r]
           d == task[p].day
           ideal == task[p].ideal
           known == Conflicts(p)
           limit == (d + 1) * DayLength
           candidate == Plan!Adjusted(ideal, Duration[r], known)
           verdict == Verdict(View(p), r, candidate)
           slots == Plan!AvailableSlots(
                      Windows(base, exceptions, DayOf(ideal), c),
                      HeldInDay(View(p), c, d), Duration[r], Capacity[c])
           s == Chosen(p, r)
<1>1. s = Plan!ResolvePlacement(candidate, verdict, slots, ideal, Duration[r], known)
  BY DEF Chosen
<1>2. /\ Transactions /\ TypeOK /\ Planned(p) /\ TaskFields(task[p])
      /\ base \in BaseSchedules /\ exceptions \subseteq Closures
      /\ r \in Reservations /\ c \in Categories /\ ideal \in Nat /\ d \in Nat
      /\ task[p].todo # <<>> /\ IsFiniteSet(task[p].known)
  <2>1. Transactions /\ TypeOK /\ Planned(p)
    BY DEF DaytimePlacements, Placements, Transactions
  <2> QED
    BY <2>1, StateFields, PlaceFields DEF TaskFields
<1>3. Duration[r] \in Nat \ {0} /\ limit \in Nat /\ d * DayLength \in Nat
  BY <1>2, BookingAssumption
<1>4. DayOf(ideal) = d
  BY <1>2, ConsecutiveNow DEF Planned, TaskFields
<1>5. d * DayLength <= ideal /\ ideal < limit
  BY <1>2, <1>4, DayBounds
<1>6. known \subseteq Held /\ IsFiniteSet(known) /\ \A j \in known : j.end <= limit
  BY <1>2, ConflictsType, ConflictsOnDay
<1> HIDE DEF r, c, d, ideal, known, limit
<1>7. CASE verdict = "OK"
  <2>1. s = candidate
    BY <1>1, <1>7 DEF Plan!ResolvePlacement
  <2>2. candidate \in Nat /\ ideal <= candidate /\ candidate <= limit
    BY <1>2, <1>3, <1>5, <1>6, AdjustedOnDay
  <2> HIDE DEF candidate
  <2>3. candidate # limit
    <3>1. d + 1 \in Nat
      BY <1>2
    <3> QED
      BY <1>2, <1>7, <3>1, MidnightRefused DEF limit
  <2>4. d * DayLength <= candidate /\ candidate < limit
    BY <1>2, <1>3, <1>5, <2>2, <2>3
  <2>5. DayOf(candidate) = d
    BY <1>2, <2>2, <2>4, DayUnique DEF limit
  <2> QED
    BY <2>1, <2>5 DEF r, d
<1>8. CASE verdict # "OK"
  <2>1. \A x \in slots : x \in Nat /\ DayOf(x) = d
    BY <1>2, <1>3, <1>4, OfferedHasRoom
  <2>2. s \in slots
    <3>1. s = Plan!Relocated(slots, ideal, Duration[r], known) /\ s # NoSlot
      BY <1>1, <1>8 DEF Plan!ResolvePlacement, r
    <3>2. slots \subseteq Nat
      BY <2>1
    <3> HIDE DEF slots, s
    <3> QED
      BY <1>2, <3>1, <3>2, RelocatedIsOffered
  <2> HIDE DEF slots
  <2> QED
    BY <2>1, <2>2 DEF r, d
<1> QED
  BY <1>7, <1>8

\* The parts of DaytimePlacements that are about one request.
Daily(p) ==
  /\ \A r \in Written(p) : DayOf(task[p].pending[r].start) = task[p].day
  /\ Planned(p)

LEMMA DailyByAll ==
  DaytimePlacements <=> Placements /\ \A p \in Procs : Daily(p)
BY DEF DaytimePlacements, WritesOnLockedDay, Daily

\* What is left to show of a step of p.
LEMMA DailyStep ==
  ASSUME DaytimePlacements, NEW p \in Procs, Daily(p)', [Next]_vars,
         \A q \in Procs \ {p} : task'[q] = task[q] /\ pc'[q] = pc[q]
  PROVE  DaytimePlacements'
<1>1. \A q \in Procs \ {p} : Daily(q)'
  <2>1. ASSUME NEW q \in Procs \ {p}
        PROVE  Daily(q)'
    <3>1. Daily(q) /\ task'[q] = task[q] /\ pc'[q] = pc[q]
      BY DailyByAll
    <3>2. Written(q)' = Written(q)
      BY <3>1 DEF Written
    <3> QED
      BY <3>1, <3>2 DEF Daily, Planned
  <2> QED
    BY <2>1
<1>2. WritesOnLockedDay' /\ \A q \in Procs : Planned(q)'
  BY <1>1 DEF WritesOnLockedDay, Daily
<1>3. Placements'
  BY <1>2, NextPlacements DEF DaytimePlacements
<1> QED
  BY <1>2, <1>3 DEF DaytimePlacements
\* A step with which no transaction goes on.
LEMMA DailyStill ==
  ASSUME DaytimePlacements, [Next]_vars, UNCHANGED <<task, pc>>
  PROVE  DaytimePlacements'
<1>1. ASSUME NEW q \in Procs
      PROVE  Daily(q)'
  <2>1. Daily(q) /\ Written(q)' = Written(q)
    BY DailyByAll DEF Written
  <2> QED
    BY <2>1 DEF Daily, Planned
<1>2. WritesOnLockedDay' /\ \A q \in Procs : Planned(q)'
  BY <1>1 DEF WritesOnLockedDay, Daily
<1>3. Placements'
  BY <1>2, NextPlacements DEF DaytimePlacements
<1> QED
  BY <1>2, <1>3 DEF DaytimePlacements

LEMMA DailyFields ==
  ASSUME DaytimePlacements, NEW p \in Procs
  PROVE  /\ Transactions /\ TypeOK /\ Transaction(p) /\ Daily(p) /\ TaskFields(task[p])
         /\ reservation \in [Reservations -> Row]
<1>1. Transactions /\ TypeOK /\ Transaction(p) /\ Daily(p)
  BY DailyByAll DEF Placements, Transactions
<1> QED
  BY <1>1, StateFields

LEMMA FinishDaily ==
  ASSUME DaytimePlacements, NEW p \in Procs, Finish(p), [Next]_vars
  PROVE  DaytimePlacements'
<1>1. /\ task'[p] = NoTask
      /\ \A q \in Procs \ {p} : task'[q] = task[q] /\ pc'[q] = pc[q]
  BY DailyFields, FinishFrees DEF Apart
<1>2. Daily(p)'
  <2>1. Written(p)' = {} /\ task'[p].op \notin Operations
    BY <1>1, BookingAssumption DEF Written, NoTask, NoRow
  <2> QED
    BY <2>1 DEF Daily, Planned, Operations
<1> QED
  BY <1>1, <1>2, DailyStep

\* The beginning of a request that is asked for in daytime.
Punctual(t) ==
  /\ t.pending = [r \in Reservations |-> NoRow] /\ t.known = {}
  /\ t.op = "book" => Consecutive(t.todo, t.ideal, t.day)
  /\ t.op = "reschedule" => DayOf(t.ideal) = t.day

LEMMA PunctualBook ==
  ASSUME Daytime, NEW b \in Bookings, NEW start \in Asked
  PROVE  Punctual([NoTask EXCEPT
                     !.op = "book", !.members = Elements(b), !.todo = b,
                     !.day = DayOf(start), !.ideal = start,
                     !.need = {CategoryOf[r] : r \in Elements(b)}])
<1>1. Consecutive(b, start, DayOf(start))
  BY DEF Daytime
<1> QED
  BY <1>1 DEF Punctual, NoTask

LEMMA RequestPunctual ==
  ASSUME Daytime, NEW p \in Procs, Request(p)
  PROVE  \E t : Punctual(t) /\ Begin(p, t)
<1>1. CASE \E b \in Bookings, start \in Asked : Book(p, b, start)
  BY <1>1, PunctualBook DEF Book
<1>2. CASE \E r \in Reservations, start \in Asked : Reschedule(p, r, start)
  <2>1. PICK r \in Reservations, start \in Asked : Reschedule(p, r, start)
    BY <1>2
  <2> DEFINE t == [NoTask EXCEPT
                     !.op = "reschedule", !.members = {r}, !.todo = <<r>>,
                     !.day = DayOf(start), !.ideal = start,
                     !.need = {CategoryOf[r]}]
  <2>2. Punctual(t)
    BY DEF Punctual, NoTask
  <2>3. Begin(p, t)
    BY <2>1 DEF Reschedule
  <2> QED
    BY <2>2, <2>3
<1>3. CASE \E b \in Bookings : Revive(p, b)
  <2>1. PICK b \in Bookings : Revive(p, b)
    BY <1>3
  <2> DEFINE t == [NoTask EXCEPT
                     !.op = "revive", !.members = Elements(b), !.todo = b,
                     !.day = DayOf(reservation[Head(b)].start),
                     !.need = {CategoryOf[r] : r \in Elements(b)}]
  <2>2. Punctual(t)
    BY DEF Punctual, NoTask
  <2>3. Begin(p, t)
    BY <2>1 DEF Revive
  <2> QED
    BY <2>2, <2>3
<1>4. CASE \E e \in Closures : CreateException(p, e) \/ DeleteException(p, e)
  <2>1. PICK e \in Closures, op \in {"createException", "deleteException"} :
          Begin(p, [NoTask EXCEPT !.op = op, !.change = e, !.day = e.day,
                                  !.need = Affected(e)])
    BY <1>4 DEF CreateException, DeleteException
  <2>2. Punctual([NoTask EXCEPT !.op = op, !.change = e, !.day = e.day,
                                !.need = Affected(e)])
    BY DEF Punctual, NoTask
  <2> QED
    BY <2>1, <2>2
<1>5. CASE \E weekly \in BaseSchedules : UpdateBase(p, weekly)
  <2>1. PICK weekly \in BaseSchedules :
          Begin(p, [NoTask EXCEPT !.op = "updateBase", !.weekly = weekly])
    BY <1>5 DEF UpdateBase
  <2>2. Punctual([NoTask EXCEPT !.op = "updateBase", !.weekly = weekly])
    BY DEF Punctual, NoTask
  <2> QED
    BY <2>1, <2>2
<1> QED
  BY <1>1, <1>2, <1>3, <1>4, <1>5 DEF Request

LEMMA RequestDaily ==
  ASSUME Daytime, DaytimePlacements, NEW p \in Procs, Request(p), [Next]_vars
  PROVE  DaytimePlacements'
<1>1. PICK t : Punctual(t) /\ Begin(p, t)
  BY RequestPunctual
<1>2. /\ task'[p] = t
      /\ \A q \in Procs \ {p} : task'[q] = task[q] /\ pc'[q] = pc[q]
  BY <1>1, DailyFields DEF Begin, TypeOK
<1>3. Daily(p)'
  <2>1. Written(p)' = {}
    BY <1>1, <1>2 DEF Written, Punctual, NoRow
  <2> QED
    BY <1>1, <1>2, <2>1 DEF Daily, Planned, Punctual
<1> QED
  BY <1>2, <1>3, DailyStep

LEMMA TakeLockDaily ==
  ASSUME DaytimePlacements, NEW p \in Procs, TakeLock(p), [Next]_vars
  PROVE  DaytimePlacements'
<1> DEFINE key == <<task[p].day, NextCategory(p)>>
           need == task[p].need \ {NextCategory(p)}
           client == ClientOf[Head(task[p].todo)]
           known == IF need = {} /\ task[p].op = "book"
                      THEN ClientIntervals(reservation, client, task[p].day, None)
                      ELSE task[p].known
           t == [task[p] EXCEPT !.need = need, !.known = known]
           step == IF need = {} THEN AfterLocks(task[p].op) ELSE "lock"
<1>1. /\ pc[p] = "lock" /\ Goto(p, step, t)
      /\ TypeOK /\ Transaction(p) /\ Daily(p) /\ TaskFields(task[p])
      /\ reservation \in [Reservations -> Row]
  BY DailyFields DEF TakeLock
<1>2. ASSUME task[p].op = "book", NEW i \in known
      PROVE  i.end <= (task[p].day + 1) * DayLength
  <2>1. CASE i \in task[p].known
    BY <1>1, <1>2, <2>1 DEF Daily, Planned
  <2>2. CASE i \in ClientIntervals(reservation, client, task[p].day, None)
    <3>1. PICK s \in Reservations :
            /\ i = Interval(reservation, s) /\ Holds(reservation[s])
            /\ Plan!Overlap(Interval(reservation, s), WholeDay(task[p].day))
      BY <2>2 DEF ClientIntervals
    <3> DEFINE d == task[p].day
               e == DayOf(reservation[s].start)
    <3>2. /\ InDay(reservation[s], s) /\ reservation[s].status # "ABSENT"
          /\ reservation[s].start \in Nat
          /\ i.start = reservation[s].start
          /\ i.end = reservation[s].start + Duration[s]
      BY <1>1, <3>1, RowFields DEF DaytimePlacements, Placements, Holds
    <3>3. /\ e \in Nat /\ e * DayLength <= reservation[s].start
          /\ i.end <= (e + 1) * DayLength
          /\ reservation[s].start < (d + 1) * DayLength
      BY <3>1, <3>2, DayBounds DEF InDay, Plan!Overlap, WholeDay
    <3>4. d \in Nat /\ DayLength \in Nat /\ DayLength > 0
      BY <1>1, BookingAssumption DEF TaskFields
    <3> HIDE DEF d, e
    <3>5. e * DayLength < (d + 1) * DayLength
      BY <3>2, <3>3, <3>4
    <3>6. e < d + 1
      BY <3>3, <3>4, <3>5
    <3>7. (e + 1) * DayLength <= (d + 1) * DayLength /\ i.end \in Nat
      BY <3>2, <3>3, <3>4, <3>6, BookingAssumption
    <3> QED
      BY <3>3, <3>4, <3>7 DEF d
  <2> QED
    BY <1>2, <2>1, <2>2
<1>3. /\ t.known = known /\ t.op = task[p].op /\ t.day = task[p].day
      /\ t.todo = task[p].todo /\ t.pending = task[p].pending
      /\ t.ideal = task[p].ideal
  <2> HIDE DEF need, known
  <2> QED
    BY <1>1 DEF TaskFields, Task
<1> HIDE DEF t, step, known
<1>4. /\ task'[p] = t /\ pc'[p] = step
      /\ \A q \in Procs \ {p} : task'[q] = task[q] /\ pc'[q] = pc[q]
  BY <1>1, GotoAside
<1>5. Written(p)' = {}
  BY <1>1, <1>3, <1>4 DEF Written, Transaction
<1>6. Planned(p)'
  BY <1>1, <1>2, <1>3, <1>4 DEF Planned, Daily
<1>7. Daily(p)'
  BY <1>5, <1>6 DEF Daily
<1> QED
  BY <1>4, <1>7, DailyStep

LEMMA TakeBaseLockDaily ==
  ASSUME DaytimePlacements, NEW p \in Procs, TakeBaseLock(p), [Next]_vars
  PROVE  DaytimePlacements'
<1>1. /\ task'[p] = task[p] /\ task[p].op = "updateBase" /\ Daily(p)
      /\ \A q \in Procs \ {p} : task'[q] = task[q] /\ pc'[q] = pc[q]
  BY DailyFields, GotoAside DEF TakeBaseLock
<1>2. Written(p)' = Written(p)
  BY <1>1 DEF Written
<1>3. Daily(p)'
  BY <1>1, <1>2 DEF Daily, Planned
<1> QED
  BY <1>1, <1>3, DailyStep

LEMMA DecideDaily ==
  ASSUME DaytimePlacements, NEW p \in Procs, Decide(p), [Next]_vars
  PROVE  DaytimePlacements'
<1>1. CASE Abort(p)
  BY <1>1, FinishDaily DEF Abort
<1>2. CASE Goto(p, "commit", task[p])
  <2>1. /\ task'[p] = task[p] /\ pc'[p] = "commit" /\ Daily(p)
        /\ \A q \in Procs \ {p} : task'[q] = task[q] /\ pc'[q] = pc[q]
    BY <1>2, DailyFields, GotoAside
  <2>2. Written(p)' = Written(p)
    BY <2>1 DEF Written
  <2>3. Daily(p)'
    BY <2>1, <2>2 DEF Daily, Planned
  <2> QED
    BY <2>1, <2>3, DailyStep
<1> QED
  BY <1>1, <1>2 DEF Decide
LEMMA WriteDaily ==
  ASSUME DaytimePlacements, NEW p \in Procs, pc[p] = "place", [Next]_vars,
         NEW row \in Row, row.status # "ABSENT", NEW ideal,
         Write(p, Head(task[p].todo), row, ideal),
         DayOf(row.start) = task[p].day,
         task[p].op = "book" => ideal = task[p].ideal + Duration[Head(task[p].todo)]
  PROVE  DaytimePlacements'
<1> DEFINE r == Head(task[p].todo)
           todo == Tail(task[p].todo)
           step == IF todo = <<>> THEN "commit" ELSE "place"
           t == [task[p] EXCEPT !.todo = todo, !.ideal = ideal,
                                !.from = reservation[r].start, !.pending[r] = row]
<1>1. /\ Transactions /\ TypeOK /\ Transaction(p) /\ Daily(p) /\ TaskFields(task[p])
      /\ Goto(p, step, t)
  BY DailyFields DEF Write
<1>2. /\ r \in Reservations /\ task[p].todo # <<>> /\ task[p].op \in Placing
      /\ task[p].todo \in Seq(Reservations)
      /\ task[p].op = "reschedule" => todo = <<>>
  <2>1. /\ task[p].todo \in Seq(Reservations) /\ task[p].todo # <<>>
        /\ r \in Reservations /\ task[p].op \in Placing
    BY <1>1, PlaceFields
  <2>2. task[p].op = "reschedule" => Len(task[p].todo) = 1
    BY <1>1 DEF Transaction, Placing
  <2> QED
    BY <2>1, <2>2, TailIsShorter
<1>3. /\ t.op = task[p].op /\ t.day = task[p].day /\ t.known = task[p].known
      /\ t.todo = todo /\ t.ideal = ideal
  BY <1>1 DEF TaskFields, Task
<1>4. /\ task'[p].pending = [task[p].pending EXCEPT ![r] = row]
      /\ Written(p)' = Written(p) \cup {r}
  <2> HIDE DEF r
  <2>1. TypeOK /\ r \in Reservations /\ Write(p, r, row, ideal)
    BY <1>1, <1>2 DEF r
  <2> QED
    BY <2>1, WriteShows
<1>5. task[p].op = "book" => Consecutive(todo, ideal, task[p].day)
  <2>1. task[p].op = "book" => Consecutive(task[p].todo, task[p].ideal, task[p].day)
    BY <1>1 DEF Daily, Planned
  <2> QED
    BY <1>2, <2>1, ConsecutiveTail
<1> HIDE DEF r, todo, t, step
<1>6. /\ task'[p] = t /\ pc'[p] = step
      /\ \A q \in Procs \ {p} : task'[q] = task[q] /\ pc'[q] = pc[q]
  BY <1>1, GotoAside
<1>7. \A x \in Written(p)' : DayOf(task'[p].pending[x].start) = task'[p].day
  BY <1>1, <1>3, <1>4, <1>6 DEF Daily, TaskFields, Written
<1>8. Planned(p)'
  <2>1. task[p].op = "reschedule" => step = "commit"
    BY <1>2 DEF step
  <2> QED
    BY <1>1, <1>3, <1>5, <1>6, <2>1 DEF Planned, Daily
<1>9. Daily(p)'
  BY <1>7, <1>8 DEF Daily
<1> QED
  BY <1>6, <1>9, DailyStep

LEMMA PlaceSegmentDaily ==
  ASSUME Daytime, DaytimePlacements, NEW p \in Procs, PlaceSegment(p), [Next]_vars
  PROVE  DaytimePlacements'
<1> DEFINE r == Head(task[p].todo)
           start == Chosen(p, r)
           row == [NoRow EXCEPT !.status = "PENDIENTE_DEPOSITO", !.start = start]
<1>1. /\ Transactions /\ TypeOK /\ pc[p] = "place" /\ task[p].op = "book"
      /\ r \in Reservations /\ IsFiniteSet(task[p].known)
  BY DailyFields, PlaceFields DEF PlaceSegment
<1>2. CASE Abort(p)
  BY <1>2, FinishDaily DEF Abort
<1>3. CASE start # NoSlot /\ Write(p, r, row, task[p].ideal + Duration[r])
  <2>1. start \in Nat /\ DayOf(start) = task[p].day
    BY <1>1, <1>3, ChosenHasRoom, ChosenOnDay
  <2> HIDE DEF start
  <2>2. row \in Row /\ row.status # "ABSENT" /\ row.start = start
    BY <2>1, NoTaskType DEF Row, NoRow, Machine!Statuses
  <2> HIDE DEF row
  <2> QED
    BY <1>1, <1>3, <2>1, <2>2, WriteDaily
<1> QED
  BY <1>2, <1>3 DEF PlaceSegment

LEMMA MoveDaily ==
  ASSUME DaytimePlacements, NEW p \in Procs, Move(p), [Next]_vars
  PROVE  DaytimePlacements'
<1> DEFINE r == Head(task[p].todo)
           row == [reservation[r] EXCEPT !.start = task[p].ideal]
<1>1. /\ pc[p] = "place" /\ task[p].op = "reschedule"
      /\ task[p].ideal \in Nat /\ reservation[r] \in Row
      /\ DayOf(task[p].ideal) = task[p].day
  BY DailyFields, PlaceFields DEF Move, Daily, Planned
<1>2. CASE Abort(p)
  BY <1>2, FinishDaily DEF Abort
<1>3. CASE /\ reservation[r].status \in Reschedulable
           /\ Write(p, r, row, task[p].ideal)
  <2>1. row \in Row /\ row.status # "ABSENT" /\ row.start = task[p].ideal
    BY <1>1, <1>3 DEF Row, Reschedulable
  <2> HIDE DEF row
  <2> QED
    BY <1>1, <1>3, <2>1, WriteDaily
<1> QED
  BY <1>2, <1>3 DEF Move

LEMMA BringBackDaily ==
  ASSUME DaytimePlacements, NEW p \in Procs, BringBack(p), [Next]_vars, RevivedInPlace
  PROVE  DaytimePlacements'
<1> DEFINE r == Head(task[p].todo)
           row == [reservation[r] EXCEPT !.status = "PENDIENTE_DEPOSITO",
                                         !.source = "NINGUNA"]
<1>1. /\ pc[p] = "place" /\ task[p].op = "revive"
      /\ r \in Elements(task[p].todo) /\ reservation[r] \in Row
  BY DailyFields, PlaceFields DEF BringBack
<1>2. CASE Abort(p)
  BY <1>2, FinishDaily DEF Abort
<1>3. CASE Write(p, r, row, 0)
  <2>1. row \in Row /\ row.status # "ABSENT" /\ row.start = reservation[r].start
    BY <1>1 DEF Row, Machine!Statuses, Machine!Sources
  <2>2. DayOf(reservation[r].start) = task[p].day
    BY <1>1 DEF RevivedInPlace
  <2> HIDE DEF row
  <2> QED
    BY <1>1, <1>3, <2>1, <2>2, WriteDaily
<1> QED
  BY <1>2, <1>3 DEF BringBack

LEMMA InitDaytime == Init => DaytimePlacements
<1> SUFFICES ASSUME Init
             PROVE  DaytimePlacements
  OBVIOUS
<1>1. Placements
  BY InitPlacements
<1>2. \A p \in Procs : Daily(p)
  <2>1. \A p \in Procs : Written(p) = {} /\ task[p].op \notin Operations
    BY BookingAssumption DEF Init, Written, NoTask, NoRow
  <2> QED
    BY <2>1 DEF Daily, Planned, Operations
<1> QED
  BY <1>1, <1>2, DailyByAll

LEMMA NextDaytime ==
  ASSUME Daytime, DaytimePlacements, [Next]_vars, RevivedInPlace
  PROVE  DaytimePlacements'
<1>1. ASSUME NEW p \in Procs, Request(p)
      PROVE  DaytimePlacements'
  BY <1>1, RequestDaily
<1>2. ASSUME NEW p \in Procs, Work(p)
      PROVE  DaytimePlacements'
  <2>1. CASE Commit(p) \/ Conflict(p)
    BY <2>1, FinishDaily DEF Commit, Conflict, Abort
  <2> QED
    BY <1>2, <2>1, TakeLockDaily, TakeBaseLockDaily, PlaceSegmentDaily, MoveDaily,
       BringBackDaily, DecideDaily DEF Work
<1>3. ASSUME NEW r \in Reservations, NEW to \in Elsewhere, Advance(r, to)
      PROVE  DaytimePlacements'
  BY <1>3, DailyStill DEF Advance
<1>4. CASE UNCHANGED vars
  BY <1>4, DailyStill DEF vars
<1> QED
  BY <1>1, <1>2, <1>3, <1>4 DEF Next

\* Combos that end before midnight, and any reschedule and revival that runs with them:
\* each transaction writes on the day whose locks it holds. The first hypothesis is
\* about what is asked for; MidnightCombo is the run in which it is false. The second
\* excludes that an appointment is brought back, moved to another day and cancelled by
\* time once more while an older request to revive it waits for its locks.
THEOREM WritesOnItsDay ==
  Daytime /\ Spec /\ []RevivedInPlace => []DaytimePlacements
<1>1. Init => DaytimePlacements
  BY InitDaytime
<1>2. Daytime /\ DaytimePlacements /\ [Next]_vars /\ RevivedInPlace => DaytimePlacements'
  BY NextDaytime
<1>3. SUFFICES ASSUME Daytime
               PROVE  Spec /\ []RevivedInPlace => []DaytimePlacements
  OBVIOUS
<1>4. DaytimePlacements /\ [Next]_vars /\ RevivedInPlace => DaytimePlacements'
  BY <1>2, <1>3
<1> QED
  BY <1>1, <1>4, PTL DEF Spec
\* Any number of bookings, reschedules and revivals may run at once, and whatever else
\* happens to the reservations meanwhile: no category goes beyond its capacity at any
\* instant.
THEOREM CapacityKept ==
  Daytime /\ Spec /\ []RevivedInPlace => []NeverOverbooked
<1>1. Placements => NeverOverbooked
  <2> SUFFICES ASSUME Placements, NEW c \in Categories, NEW t \in Instants
               PROVE  Cardinality({r \in HoldingIn(reservation, c) :
                                     /\ ~ reservation[r].late
                                     /\ Interval(reservation, r).start <= t
                                     /\ t < Interval(reservation, r).end}) <= Capacity[c]
    BY DEF NeverOverbooked
  <2> DEFINE Busy == {r \in HoldingIn(reservation, c) :
                        /\ ~ reservation[r].late
                        /\ Interval(reservation, r).start <= t
                        /\ t < Interval(reservation, r).end}
  <2>1. PICK d \in Days : t \in d * DayLength .. (d + 1) * DayLength - 1
    BY DEF Instants
  <2>2. d \in Nat /\ t \in Nat /\ DayOf(t) = d
    <3>1. d \in Nat /\ d * DayLength \in Nat /\ (d + 1) * DayLength \in Nat
      BY BookingAssumption
    <3>2. t \in Nat /\ d * DayLength <= t /\ t < (d + 1) * DayLength
      BY <2>1, <3>1
    <3> QED
      BY <3>1, <3>2, DayUnique
  <2>3. ASSUME NEW r \in Busy
        PROVE  DayOf(reservation[r].start) = d
    <3>1. /\ r \in Reservations /\ reservation[r].status # "ABSENT"
          /\ reservation \in [Reservations -> Row]
      BY DEF HoldingIn, Holds, Placements, Transactions, TypeOK
    <3> DEFINE e == DayOf(reservation[r].start)
    <3>2. /\ reservation[r].start <= t /\ t < reservation[r].start + Duration[r]
          /\ reservation[r].start \in Nat /\ Duration[r] \in Nat
      BY <3>1, RowFields, BookingAssumption
    <3>3. /\ e \in Nat /\ e * DayLength <= reservation[r].start
          /\ reservation[r].start + Duration[r] <= (e + 1) * DayLength
      BY <3>1, <3>2, DayBounds DEF Placements, InDay
    <3>4. e * DayLength \in Nat /\ (e + 1) * DayLength \in Nat
      BY <3>3, BookingAssumption
    <3>5. e * DayLength <= t /\ t < (e + 1) * DayLength
      <4> HIDE DEF e
      <4> QED
        BY <2>2, <3>2, <3>3, <3>4
    <3> QED
      BY <2>2, <3>3, <3>5, DayUnique
  <2>4. Busy = At(reservation, c, d, t)
    BY <2>3 DEF At, Counted
  <2>5. Cardinality(At(reservation, c, d, t)) <= Capacity[c]
    BY <2>1, SoundAt DEF Placements
  <2> QED
    BY <2>4, <2>5
<1>2. DaytimePlacements => Placements
  BY DEF DaytimePlacements
<1> QED
  BY <1>1, <1>2, WritesOnItsDay, PTL

\* And no client has two appointments of a category on one day, although the requests
\* that would give them two each look before the other has written.
THEOREM OneOfEachCategory ==
  Daytime /\ Spec /\ []RevivedInPlace => []OnePerCategoryAndDay
<1>1. Placements => OnePerCategoryAndDay
  <2> SUFFICES ASSUME Placements, NEW c \in Categories,
                      NEW r \in HoldingIn(reservation, c),
                      NEW s \in HoldingIn(reservation, c),
                      r # s, ClientOf[r] = ClientOf[s],
                      ~ reservation[r].late, ~ reservation[s].late,
                      DayOf(reservation[r].start) = DayOf(reservation[s].start)
               PROVE  FALSE
    BY DEF OnePerCategoryAndDay
  <2> DEFINE d == DayOf(reservation[r].start)
  <2>1. d \in Days
    BY DEF Placements, InDay, HoldingIn, Holds
  <2>2. r \in Counted(reservation, c, d) /\ s \in Counted(reservation, c, d)
    BY DEF Counted
  <2> QED
    BY <2>1, <2>2, SoundAt DEF Placements
<1>2. DaytimePlacements => Placements
  BY DEF DaytimePlacements
<1> QED
  BY <1>1, <1>2, WritesOnItsDay, PTL
---------------------------------------------------------------------------
(* Opening hours, while the weekly schedule stays as it is                 *)

LEMMA InsideFits ==
  ASSUME NEW r, NEW weekly, NEW special
  PROVE  Inside(r, weekly, special) <=> Fits(reservation[r], r, weekly, special)
BY DEF Inside, Fits, Interval, Plan!Lasting

\* Exceptions of other days and categories make no difference to the windows.
LEMMA WindowsSame ==
  ASSUME NEW weekly, NEW E, NEW F, NEW d, NEW c,
         \A e : e.day = d /\ Hours!ExceptionAppliesTo(e, c) => (e \in E <=> e \in F)
  PROVE  Windows(weekly, E, d, c) = Windows(weekly, F, d, c)
<1> DEFINE A == {e \in E : e.day = d}
           B == {e \in F : e.day = d}
<1>1. ASSUME NEW type
      PROVE  Hours!RangesOf(A, type, c) = Hours!RangesOf(B, type, c)
  <2>1. \A e : /\ e \in A /\ Hours!ExceptionAppliesTo(e, c)
               <=> e \in B /\ Hours!ExceptionAppliesTo(e, c)
    OBVIOUS
  <2> HIDE DEF A, B
  <2> QED
    BY <2>1 DEF Hours!RangesOf
<1>2. Hours!ResolveDayMinuteRanges(weekly, A, c) = Hours!ResolveDayMinuteRanges(weekly, B, c)
  <2> HIDE DEF A, B
  <2> QED
    BY <1>1 DEF Hours!ResolveDayMinuteRanges
<1> QED
  BY <1>2 DEF Windows, Hours!OperatingWindows

\* So a row fits as before unless an exception of its day and category came or went.
LEMMA FitsSame ==
  ASSUME NEW weekly, NEW E, NEW F, NEW row, NEW r, NEW change,
         \A e : e # change => (e \in E <=> e \in F),
         ~ /\ DayOf(row.start) = change.day
           /\ Hours!ExceptionAppliesTo(change, CategoryOf[r])
  PROVE  Fits(row, r, weekly, E) <=> Fits(row, r, weekly, F)
<1>1. Windows(weekly, E, DayOf(row.start), CategoryOf[r])
        = Windows(weekly, F, DayOf(row.start), CategoryOf[r])
  <2>1. \A e : /\ e.day = DayOf(row.start)
               /\ Hours!ExceptionAppliesTo(e, CategoryOf[r])
               => (e \in E <=> e \in F)
    OBVIOUS
  <2> QED
    BY <2>1, WindowsSame
<1> QED
  BY <1>1 DEF Fits

LEMMA AffectedApplies ==
  ASSUME NEW e, NEW c \in Categories
  PROVE  Hours!ExceptionAppliesTo(e, c) => c \in Affected(e)
BY DEF Hours!ExceptionAppliesTo, Affected

\* What is accepted, and what is chosen for a new segment, lies in a window.
LEMMA AcceptedFits ==
  ASSUME NEW view, NEW r, NEW start, Verdict(view, r, start) = "OK",
         NEW row, row.start = start
  PROVE  Fits(row, r, base, exceptions)
BY DEF Verdict, Plan!EvaluatePlacement, Fits, Hours!FitsIn

LEMMA OfferedFits ==
  ASSUME NEW S \in BaseSchedules, NEW E, E \subseteq Closures, NEW d \in Nat,
         NEW r \in Reservations, NEW held, NEW capacity,
         NEW s \in Plan!AvailableSlots(
                     Windows(S, E, d, CategoryOf[r]), held, Duration[r], capacity),
         NEW row, row.start = s
  PROVE  Fits(row, r, S, E)
<1>1. CategoryOf[r] \in Categories /\ Duration[r] \in Nat \ {0}
  BY BookingAssumption
<1>2. PICK w \in Windows(S, E, d, CategoryOf[r]) : s \in w.start .. w.end - Duration[r]
  BY DEF Plan!AvailableSlots, Plan!Candidates
<1>3. w.start \in Nat /\ w.end \in Nat
  BY <1>1, WindowsInDay
<1>4. s \in Nat /\ w.start <= s /\ s + Duration[r] <= w.end
  BY <1>1, <1>2, <1>3
<1>5. DayOf(s) = d
  BY <1>1, OfferedHasRoom
<1> QED
  BY <1>2, <1>4, <1>5 DEF Fits, Hours!FitsIn, Plan!Lasting

LEMMA ChosenFits ==
  ASSUME TypeOK, NEW p \in Procs, IsFiniteSet(task[p].known), NEW r \in Reservations,
         Chosen(p, r) # NoSlot, NEW row, row.start = Chosen(p, r)
  PROVE  Fits(row, r, base, exceptions)
<1> DEFINE c == CategoryOf[r]
           ideal == task[p].ideal
           known == Conflicts(p)
           candidate == Plan!Adjusted(ideal, Duration[r], known)
           verdict == Verdict(View(p), r, candidate)
           slots == Plan!AvailableSlots(
                      Windows(base, exceptions, DayOf(ideal), c),
                      HeldInDay(View(p), c, task[p].day), Duration[r], Capacity[c])
           s == Chosen(p, r)
<1>1. s = Plan!ResolvePlacement(candidate, verdict, slots, ideal, Duration[r], known)
  BY DEF Chosen
<1>2. /\ ideal \in Nat /\ base \in BaseSchedules /\ exceptions \subseteq Closures
      /\ c \in Categories /\ Duration[r] \in Nat \ {0} /\ DayOf(ideal) \in Nat
  BY StateFields, BookingAssumption, DayBounds DEF TaskFields
<1>3. CASE verdict = "OK"
  <2>1. s = candidate
    BY <1>1, <1>3 DEF Plan!ResolvePlacement
  <2> HIDE DEF candidate
  <2> QED
    BY <1>3, <2>1, AcceptedFits
<1>4. CASE verdict # "OK"
  <2>1. s \in slots
    <3>1. s = Plan!Relocated(slots, ideal, Duration[r], known)
      BY <1>1, <1>4 DEF Plan!ResolvePlacement
    <3>2. slots \subseteq Nat
      BY <1>2, OfferedHasRoom
    <3> HIDE DEF slots, ideal, known
    <3> QED
      BY <1>2, <3>1, <3>2, RelocatedIsOffered
  <2> HIDE DEF s
  <2> QED
    BY <1>2, <2>1, OfferedFits DEF s
<1> QED
  BY <1>3, <1>4
LEMMA OpenFields ==
  ASSUME OpenPlacements, NEW p \in Procs
  PROVE  /\ DaytimePlacements /\ Placements /\ Transactions /\ TypeOK
         /\ Transaction(p) /\ OpenTransaction(p) /\ TaskFields(task[p])
         /\ WithinOpeningHours /\ WritesOnLockedDay
         /\ base \in BaseSchedules /\ exceptions \subseteq Closures
         /\ reservation \in [Reservations -> Row]
<1>1. DaytimePlacements /\ Placements /\ Transactions /\ TypeOK /\ Transaction(p)
  BY DEF OpenPlacements, DaytimePlacements, Placements, Transactions
<1> QED
  BY <1>1, StateFields DEF OpenPlacements, DaytimePlacements

\* A step of p that changes no table: what is left to show is about p.
LEMMA OpenStep ==
  ASSUME OpenPlacements, DaytimePlacements', NEW p \in Procs, UNCHANGED tables,
         Apart(p), OpenTransaction(p)'
  PROVE  OpenPlacements'
<1>1. UNCHANGED <<reservation, base, exceptions>>
  BY DEF tables
<1>2. ASSUME NEW q \in Procs \ {p}
      PROVE  OpenTransaction(q)'
  <2>1. /\ OpenTransaction(q) /\ Transaction(q) /\ TaskFields(task[q])
        /\ task'[q] = task[q] /\ pc'[q] = pc[q]
    BY OpenFields DEF Apart
  <2>2. Written(q)' = Written(q) /\ Concerned(q)' = Concerned(q) /\ Proposed(q)' = Proposed(q)
    BY <1>1, <2>1 DEF Written, Concerned, Live, Proposed
  <2>3. ASSUME task[q].op \in {"createException", "deleteException"},
               NEW c \in Affected(task[q].change), HasLock(q, c)
        PROVE  HasLock(q, c)'
    <3>1. task[q].change \in Closures /\ task[q].day \in Days
      BY <2>1, <2>3 DEF Transaction, Operations
    <3>2. <<task[q].day, c>> \in Keys
      BY <3>1, AffectedType DEF Keys
    <3> QED
      BY <2>1, <2>3, <3>2 DEF HasLock, Apart
  <2> QED
    BY <1>1, <2>1, <2>2, <2>3 DEF OpenTransaction
<1>3. WithinOpeningHours'
  BY <1>1 DEF OpenPlacements, WithinOpeningHours, Live, Inside, Interval
<1>4. \A r \in Reservations : reservation'[r].status \notin Unassessed
  BY <1>1 DEF OpenPlacements
<1>5. \A q \in Procs : OpenTransaction(q)'
  BY <1>2
<1> QED
  BY <1>3, <1>4, <1>5 DEF OpenPlacements

LEMMA AbortOpen ==
  ASSUME OpenPlacements, DaytimePlacements', NEW p \in Procs, Abort(p)
  PROVE  OpenPlacements'
<1>1. task'[p] = NoTask /\ Apart(p) /\ UNCHANGED tables
  BY OpenFields, FinishFrees DEF Abort
<1>2. Written(p)' = {} /\ task'[p].op \notin Operations
  BY <1>1, BookingAssumption DEF Written, NoTask, NoRow
<1>3. OpenTransaction(p)'
  BY <1>2 DEF OpenTransaction, Operations
<1> QED
  BY <1>1, <1>3, OpenStep

\* The beginning of a request.
Planning(t) ==
  /\ t.pending = [r \in Reservations |-> NoRow] /\ t.op # "updateBase"
  /\ t.op \in {"createException", "deleteException"} =>
       t.day = t.change.day /\ t.need = Affected(t.change)

LEMMA RequestPlanning ==
  ASSUME "updateBase" \notin Offered, NEW p \in Procs, Request(p)
  PROVE  \E t : Planning(t) /\ Begin(p, t)
<1>1. CASE \E b \in Bookings, start \in Asked : Book(p, b, start)
  <2>1. PICK b \in Bookings, start \in Asked : Book(p, b, start)
    BY <1>1
  <2> DEFINE t == [NoTask EXCEPT
                     !.op = "book", !.members = Elements(b), !.todo = b,
                     !.day = DayOf(start), !.ideal = start,
                     !.need = {CategoryOf[r] : r \in Elements(b)}]
  <2>2. Planning(t)
    BY DEF Planning, NoTask
  <2>3. Begin(p, t)
    BY <2>1 DEF Book
  <2> QED
    BY <2>2, <2>3
<1>2. CASE \E r \in Reservations, start \in Asked : Reschedule(p, r, start)
  <2>1. PICK r \in Reservations, start \in Asked : Reschedule(p, r, start)
    BY <1>2
  <2> DEFINE t == [NoTask EXCEPT
                     !.op = "reschedule", !.members = {r}, !.todo = <<r>>,
                     !.day = DayOf(start), !.ideal = start,
                     !.need = {CategoryOf[r]}]
  <2>2. Planning(t)
    BY DEF Planning, NoTask
  <2>3. Begin(p, t)
    BY <2>1 DEF Reschedule
  <2> QED
    BY <2>2, <2>3
<1>3. CASE \E b \in Bookings : Revive(p, b)
  <2>1. PICK b \in Bookings : Revive(p, b)
    BY <1>3
  <2> DEFINE t == [NoTask EXCEPT
                     !.op = "revive", !.members = Elements(b), !.todo = b,
                     !.day = DayOf(reservation[Head(b)].start),
                     !.need = {CategoryOf[r] : r \in Elements(b)}]
  <2>2. Planning(t)
    BY DEF Planning, NoTask
  <2>3. Begin(p, t)
    BY <2>1 DEF Revive
  <2> QED
    BY <2>2, <2>3
<1>4. CASE \E e \in Closures : CreateException(p, e) \/ DeleteException(p, e)
  <2>1. PICK e \in Closures, op \in {"createException", "deleteException"} :
          Begin(p, [NoTask EXCEPT !.op = op, !.change = e, !.day = e.day,
                                  !.need = Affected(e)])
    BY <1>4 DEF CreateException, DeleteException
  <2>2. Planning([NoTask EXCEPT !.op = op, !.change = e, !.day = e.day,
                                !.need = Affected(e)])
    BY DEF Planning, NoTask
  <2> QED
    BY <2>1, <2>2
<1> QED
  BY <1>1, <1>2, <1>3, <1>4 DEF Request, UpdateBase

LEMMA RequestOpen ==
  ASSUME OpenPlacements, DaytimePlacements', "updateBase" \notin Offered,
         NEW p \in Procs, Request(p)
  PROVE  OpenPlacements'
<1>1. PICK t : Planning(t) /\ Begin(p, t)
  BY RequestPlanning
<1>2. task'[p] = t /\ pc'[p] = "lock" /\ Apart(p) /\ UNCHANGED tables
  BY <1>1, OpenFields DEF Begin, TypeOK, Apart, locks
<1>3. Written(p)' = {}
  BY <1>1, <1>2 DEF Written, Planning, NoRow
<1>4. OpenTransaction(p)'
  BY <1>1, <1>2, <1>3 DEF OpenTransaction, Planning
<1> QED
  BY <1>2, <1>4, OpenStep

LEMMA TakeLockOpen ==
  ASSUME OpenPlacements, DaytimePlacements', NEW p \in Procs, TakeLock(p)
  PROVE  OpenPlacements'
<1> DEFINE c == NextCategory(p)
           key == <<task[p].day, c>>
           need == task[p].need \ {c}
           known == IF need = {} /\ task[p].op = "book"
                      THEN ClientIntervals(reservation,
                             ClientOf[Head(task[p].todo)], task[p].day, None)
                      ELSE task[p].known
           t == [task[p] EXCEPT !.need = need, !.known = known]
           step == IF need = {} THEN AfterLocks(task[p].op) ELSE "lock"
<1>1. /\ pc[p] = "lock" /\ task[p].need # {} /\ lock[key] = None
      /\ lock' = [lock EXCEPT ![key] = p]
      /\ Goto(p, step, t)
      /\ UNCHANGED <<tables, baseLock>>
  BY DEF TakeLock
<1>2. /\ TypeOK /\ TaskFields(task[p]) /\ Transaction(p) /\ OpenTransaction(p)
  BY OpenFields
<1>3. c \in task[p].need /\ c \in Categories
  BY <1>1, <1>2, NextIsLeast DEF TaskFields
<1>4. task[p].op \in Operations \ {"updateBase"} /\ task[p].day \in Days /\ key \in Keys
  BY <1>1, <1>2, <1>3 DEF Transaction, Keys
<1>5. /\ t.need = need /\ t.op = task[p].op /\ t.day = task[p].day
      /\ t.pending = task[p].pending /\ t.change = task[p].change
  <2> HIDE DEF known, c
  <2> QED
    BY <1>2 DEF TaskFields, Task
<1>6. step \in {"lock", "place", "decide"}
  BY DEF AfterLocks
<1> HIDE DEF t, step, known, c
<1>7. /\ task'[p] = t /\ pc'[p] = step
      /\ \A q \in Procs \ {p} : task'[q] = task[q] /\ pc'[q] = pc[q]
  BY <1>1, <1>2, GotoAside
<1>8. /\ Apart(p) /\ \A k \in Keys : lock'[k] = p <=> lock[k] = p \/ k = key
  BY <1>1, <1>2, <1>4, <1>7, BookingAssumption DEF TypeOK, Apart
<1>9. Written(p)' = {}
  BY <1>1, <1>2, <1>5, <1>7 DEF Written, Transaction
<1>10. ASSUME task[p].op \in {"createException", "deleteException"},
              NEW k \in Affected(task[p].change)
       PROVE  k \in t.need \/ HasLock(p, k)'
  <2>1. task[p].change \in Closures
    BY <1>2, <1>10 DEF Transaction
  <2>2. <<task[p].day, k>> \in Keys
    BY <1>4, <2>1, AffectedType DEF Keys
  <2>3. k \in task[p].need \/ lock[<<task[p].day, k>>] = p
    BY <1>2, <1>10 DEF OpenTransaction, HasLock
  <2>4. lock'[<<task[p].day, k>>] = p => HasLock(p, k)'
    BY <1>5, <1>7 DEF HasLock
  <2> QED
    BY <1>5, <1>8, <2>2, <2>3, <2>4
<1>11. OpenTransaction(p)'
  BY <1>2, <1>5, <1>6, <1>7, <1>9, <1>10 DEF OpenTransaction
<1> QED
  BY <1>1, <1>8, <1>11, OpenStep

\* An exception is decided on when everybody it concerns would fit the new hours.
LEMMA DecideOpen ==
  ASSUME OpenPlacements, DaytimePlacements', NEW p \in Procs, Decide(p)
  PROVE  OpenPlacements'
<1>1. TypeOK /\ OpenTransaction(p) /\ Transaction(p) /\ WithinOpeningHours
  BY OpenFields
<1>2. CASE Abort(p)
  BY <1>2, AbortOpen
<1>3. CASE /\ Displaced(p) = {}
           /\ Goto(p, "commit", task[p]) /\ UNCHANGED <<tables, locks>>
  <2>1. /\ task'[p] = task[p] /\ pc'[p] = "commit"
        /\ \A q \in Procs \ {p} : task'[q] = task[q] /\ pc'[q] = pc[q]
    BY <1>1, <1>3, GotoAside
  <2>2. Apart(p) /\ UNCHANGED tables /\ UNCHANGED <<reservation, base, exceptions, lock>>
    BY <1>3, <2>1 DEF Apart, locks, tables
  <2>3. /\ Written(p)' = Written(p) /\ Proposed(p)' = Proposed(p)
        /\ Concerned(p)' = Concerned(p)
    BY <2>1, <2>2 DEF Written, Proposed, Concerned, Live
  <2>4. ASSUME NEW r \in Concerned(p), ~ reservation[r].late
        PROVE  Fits(reservation[r], r, base, Proposed(p))
    <3>1. Inside(r, base, exceptions)
      BY <1>1, <2>4 DEF WithinOpeningHours, Concerned
    <3>2. Inside(r, ProposedBase(p), Proposed(p))
      BY <1>3, <2>4, <3>1 DEF Displaced
    <3>3. ProposedBase(p) = base
      BY <1>1 DEF ProposedBase, OpenTransaction
    <3> QED
      BY <3>2, <3>3, InsideFits
  <2>5. \A c : HasLock(p, c)' <=> HasLock(p, c)
    BY <2>1, <2>2 DEF HasLock
  <2>6. OpenTransaction(p)'
    BY <1>1, <2>1, <2>2, <2>3, <2>4, <2>5 DEF OpenTransaction
  <2> QED
    BY <2>2, <2>6, OpenStep
<1> QED
  BY <1>2, <1>3 DEF Decide
\* A row written by a request that fits the hours at that moment.
LEMMA WriteOpen ==
  ASSUME OpenPlacements, DaytimePlacements', NEW p \in Procs, task[p].op \in Placing,
         NEW r \in Reservations, NEW row \in Row, row.status # "ABSENT",
         row.status \notin Unassessed, Fits(row, r, base, exceptions),
         NEW ideal, Write(p, r, row, ideal)
  PROVE  OpenPlacements'
<1> DEFINE t == [task[p] EXCEPT !.todo = Tail(task[p].todo), !.ideal = ideal,
                                !.from = reservation[r].start, !.pending[r] = row]
           step == IF Tail(task[p].todo) = <<>> THEN "commit" ELSE "place"
<1>1. TypeOK /\ TaskFields(task[p]) /\ OpenTransaction(p) /\ Goto(p, step, t)
  BY OpenFields DEF Write
<1>2. t.op = task[p].op
  BY <1>1 DEF TaskFields, Task
<1> HIDE DEF t, step
<1>3. /\ task'[p] = t
      /\ \A q \in Procs \ {p} : task'[q] = task[q] /\ pc'[q] = pc[q]
  BY <1>1, GotoAside
<1>4. /\ task'[p].pending = [task[p].pending EXCEPT ![r] = row]
      /\ Written(p)' = Written(p) \cup {r}
      /\ UNCHANGED <<tables, locks>>
  BY <1>1, WriteShows
<1>5. Apart(p) /\ UNCHANGED <<base, exceptions>>
  BY <1>3, <1>4 DEF Apart, locks, tables
<1>6. ASSUME NEW x \in Written(p)'
      PROVE  /\ task'[p].pending[x].status \notin Unassessed
             /\ Fits(task'[p].pending[x], x, base, exceptions)
  <2>1. CASE x = r
    BY <1>1, <1>4, <2>1 DEF TaskFields
  <2>2. CASE x # r
    <3>1. x \in Written(p) /\ task'[p].pending[x] = task[p].pending[x]
      BY <1>1, <1>4, <1>6, <2>2 DEF TaskFields, Written
    <3> QED
      BY <1>1, <3>1 DEF OpenTransaction
  <2> QED
    BY <2>1, <2>2
<1>7. OpenTransaction(p)'
  BY <1>1, <1>2, <1>3, <1>5, <1>6 DEF OpenTransaction, Placing
<1> QED
  BY <1>4, <1>5, <1>7, OpenStep

LEMMA PlaceSegmentOpen ==
  ASSUME OpenPlacements, DaytimePlacements', NEW p \in Procs, PlaceSegment(p)
  PROVE  OpenPlacements'
<1> DEFINE r == Head(task[p].todo)
           start == Chosen(p, r)
           row == [NoRow EXCEPT !.status = "PENDIENTE_DEPOSITO", !.start = start]
<1>1. /\ Transactions /\ TypeOK /\ pc[p] = "place" /\ task[p].op \in Placing
      /\ r \in Reservations /\ IsFiniteSet(task[p].known)
  BY OpenFields, PlaceFields DEF PlaceSegment
<1>2. CASE Abort(p)
  BY <1>2, AbortOpen
<1>3. CASE start # NoSlot /\ Write(p, r, row, task[p].ideal + Duration[r])
  <2>1. start \in Nat
    BY <1>1, <1>3, ChosenHasRoom
  <2>2. row.start = Chosen(p, r)
    BY DEF NoRow
  <2> HIDE DEF start
  <2>3. row \in Row /\ row.status # "ABSENT" /\ row.status \notin Unassessed
    BY <2>1, NoTaskType DEF Row, NoRow, Machine!Statuses, Unassessed
  <2> HIDE DEF row, r
  <2>4. Fits(row, r, base, exceptions)
    BY <1>1, <1>3, <2>2, ChosenFits DEF start
  <2> QED
    BY <1>1, <1>3, <2>3, <2>4, WriteOpen
<1> QED
  BY <1>2, <1>3 DEF PlaceSegment

LEMMA MoveOpen ==
  ASSUME OpenPlacements, DaytimePlacements', NEW p \in Procs, Move(p)
  PROVE  OpenPlacements'
<1> DEFINE r == Head(task[p].todo)
           row == [reservation[r] EXCEPT !.start = task[p].ideal]
<1>1. /\ Transactions /\ pc[p] = "place" /\ task[p].op \in Placing
      /\ r \in Reservations /\ task[p].ideal \in Nat /\ reservation[r] \in Row
  BY OpenFields, PlaceFields DEF Move
<1>2. CASE Abort(p)
  BY <1>2, AbortOpen
<1>3. CASE /\ reservation[r].status \in Reschedulable
           /\ Verdict(reservation, r, task[p].ideal) = "OK"
           /\ Write(p, r, row, task[p].ideal)
  <2>1. /\ row \in Row /\ row.status # "ABSENT" /\ row.start = task[p].ideal
        /\ row.status \notin Unassessed
    BY <1>1, <1>3 DEF Row, Reschedulable, Unassessed
  <2> HIDE DEF row, r
  <2>2. Fits(row, r, base, exceptions)
    BY <1>3, <2>1, AcceptedFits
  <2> QED
    BY <1>1, <1>3, <2>1, <2>2, WriteOpen
<1> QED
  BY <1>2, <1>3 DEF Move

LEMMA BringBackOpen ==
  ASSUME OpenPlacements, DaytimePlacements', NEW p \in Procs, BringBack(p)
  PROVE  OpenPlacements'
<1> DEFINE r == Head(task[p].todo)
           row == [reservation[r] EXCEPT !.status = "PENDIENTE_DEPOSITO",
                                         !.source = "NINGUNA"]
<1>1. /\ Transactions /\ pc[p] = "place" /\ task[p].op \in Placing
      /\ r \in Reservations /\ reservation[r] \in Row
  BY OpenFields, PlaceFields DEF BringBack
<1>2. CASE Abort(p)
  BY <1>2, AbortOpen
<1>3. CASE /\ Verdict(View(p), r, reservation[r].start) = "OK"
           /\ Write(p, r, row, 0)
  <2>1. /\ row \in Row /\ row.status # "ABSENT" /\ row.start = reservation[r].start
        /\ row.status \notin Unassessed
    BY <1>1 DEF Row, Machine!Statuses, Machine!Sources, Unassessed
  <2> HIDE DEF row, r
  <2>2. Fits(row, r, base, exceptions)
    BY <1>3, <2>1, AcceptedFits
  <2> QED
    BY <1>1, <1>3, <2>1, <2>2, WriteOpen
<1> QED
  BY <1>2, <1>3 DEF BringBack

\* A transaction that holds or changes something of a day and category has its lock.
LEMMA ChangeHolds ==
  ASSUME OpenPlacements, NEW p \in Procs, pc[p] = "commit",
         task[p].op \in {"createException", "deleteException"},
         NEW d, NEW c \in Categories, d = task[p].change.day,
         Hours!ExceptionAppliesTo(task[p].change, c)
  PROVE  lock[<<d, c>>] = p
<1>1. Transaction(p) /\ OpenTransaction(p)
  BY OpenFields
<1>2. task[p].need = {} /\ c \in Affected(task[p].change)
  BY <1>1, AffectedApplies DEF Transaction
<1> QED
  BY <1>1, <1>2 DEF OpenTransaction, HasLock

LEMMA WrittenHolds ==
  ASSUME OpenPlacements, NEW p \in Procs, NEW r \in Written(p)
  PROVE  /\ lock[<<task[p].day, CategoryOf[r]>>] = p
         /\ DayOf(task[p].pending[r].start) = task[p].day
<1>1. Transaction(p) /\ WritesOnLockedDay
  BY OpenFields
<1>2. task[p].need = {} /\ task[p].op \in Placing
  BY <1>1 DEF Transaction
<1> QED
  BY <1>1, <1>2 DEF Transaction, HasLock, WritesOnLockedDay

\* A request commits: its rows fit, and nobody else decided on their day and category.
LEMMA PlacingCommits ==
  ASSUME OpenPlacements, DaytimePlacements', NEW p \in Procs, Commit(p),
         task[p].op \in Placing
  PROVE  OpenPlacements'
<1>1. /\ TypeOK /\ Transaction(p) /\ OpenTransaction(p) /\ TaskFields(task[p])
      /\ reservation' = View(p) /\ Finish(p) /\ pc[p] = "commit"
  BY OpenFields DEF Commit
<1>2. base' = base /\ exceptions' = exceptions
  BY DEF Commit, ProposedBase, Proposed, Placing
<1>3. task'[p] = NoTask /\ Apart(p)
  BY <1>1, FinishFrees
<1>4. \A r \in Reservations :
        reservation'[r] = IF r \in Written(p) THEN task[p].pending[r] ELSE reservation[r]
  BY <1>1, ViewType
<1>5. WithinOpeningHours'
  <2>1. ASSUME NEW r \in Reservations, reservation'[r].status \in LiveStatuses,
               ~ reservation'[r].late
        PROVE  Fits(reservation'[r], r, base, exceptions)
    <3>1. CASE r \in Written(p)
      BY <1>1, <1>4, <3>1 DEF OpenTransaction
    <3>2. CASE r \notin Written(p)
      BY <1>4, <2>1, <3>2, InsideFits, OpenFields DEF WithinOpeningHours, Live
    <3> QED
      BY <3>1, <3>2
  <2>2. ASSUME NEW r \in Reservations
        PROVE  Inside(r, base, exceptions)' <=> Fits(reservation'[r], r, base, exceptions)
    BY <1>2 DEF Inside, Fits, Interval, Plan!Lasting
  <2> QED
    BY <2>1, <2>2 DEF WithinOpeningHours, Live
<1>6. \A r \in Reservations : reservation'[r].status \notin Unassessed
  BY <1>1, <1>4 DEF OpenPlacements, OpenTransaction
<1>7. OpenTransaction(p)'
  <2>1. Written(p)' = {} /\ task'[p].op \notin Operations
    BY <1>3, BookingAssumption DEF Written, NoTask, NoRow
  <2> QED
    BY <2>1 DEF OpenTransaction, Operations
<1>8. ASSUME NEW q \in Procs \ {p}
      PROVE  OpenTransaction(q)'
  <2>1. /\ OpenTransaction(q) /\ Transaction(q) /\ TaskFields(task[q])
        /\ task'[q] = task[q] /\ pc'[q] = pc[q]
    BY <1>3, OpenFields DEF Apart
  <2>2. Written(q)' = Written(q) /\ Proposed(q)' = Proposed(q)
    BY <1>2, <2>1 DEF Written, Proposed
  <2>3. ASSUME task[q].op \in {"createException", "deleteException"},
               NEW c \in Affected(task[q].change)
        PROVE  c \in task[q].need \/ HasLock(q, c)'
    <3>1. task[q].change \in Closures /\ task[q].day \in Days
      BY <2>1, <2>3 DEF Transaction, Operations
    <3>2. <<task[q].day, c>> \in Keys
      BY <2>3, <3>1, AffectedType DEF Keys
    <3> QED
      BY <1>3, <2>1, <2>3, <3>2 DEF HasLock, Apart, OpenTransaction
  <2>4. ASSUME task[q].op \in {"createException", "deleteException"}, pc[q] = "commit",
               NEW r \in Concerned(q)', ~ reservation'[r].late
        PROVE  Fits(reservation'[r], r, base, Proposed(q))
    <3>1. /\ r \in Reservations /\ reservation'[r].status \in LiveStatuses
          /\ DayOf(reservation'[r].start) = task[q].day
          /\ CategoryOf[r] \in Affected(task[q].change)
      BY <2>1, <2>4 DEF Concerned, Live
    <3>2. lock[<<task[q].day, CategoryOf[r]>>] = q
      <4>1. task[q].need = {}
        BY <2>1, <2>4 DEF Transaction
      <4> QED
        BY <2>1, <2>4, <3>1, <4>1 DEF OpenTransaction, HasLock
    <3>3. ASSUME r \in Written(p)
          PROVE  FALSE
      <4>1. /\ lock[<<task[p].day, CategoryOf[r]>>] = p
            /\ DayOf(task[p].pending[r].start) = task[p].day
        BY <3>3, WrittenHolds
      <4>2. task[p].day = task[q].day
        BY <1>4, <3>1, <3>3, <4>1
      <4> QED
        BY <3>2, <4>1, <4>2
    <3>4. r \in Concerned(q) /\ reservation'[r] = reservation[r]
      BY <1>4, <3>1, <3>3 DEF Concerned, Live
    <3> QED
      BY <2>1, <2>4, <3>4 DEF OpenTransaction
  <2> QED
    BY <1>2, <2>1, <2>2, <2>3, <2>4 DEF OpenTransaction
<1>9. \A q \in Procs : OpenTransaction(q)'
  BY <1>7, <1>8
<1> QED
  BY <1>5, <1>6, <1>9 DEF OpenPlacements
\* An exception commits: it leaves room for those it concerns, and to everybody else it
\* makes no difference.
LEMMA ChangeCommits ==
  ASSUME OpenPlacements, DaytimePlacements', NEW p \in Procs, Commit(p),
         task[p].op \notin Placing
  PROVE  OpenPlacements'
<1>1. /\ TypeOK /\ Transaction(p) /\ OpenTransaction(p) /\ TaskFields(task[p])
      /\ Finish(p) /\ pc[p] = "commit"
  BY OpenFields DEF Commit
<1>2. task[p].op \in {"createException", "deleteException"}
  BY <1>1 DEF Transaction, OpenTransaction, Placing, Operations
<1>3. base' = base /\ exceptions' = Proposed(p) /\ reservation' = reservation
  <2>1. Written(p) = {}
    BY <1>1, <1>2 DEF Transaction, Placing
  <2> QED
    BY <1>1, <1>2, <2>1, NothingSeen DEF Commit, ProposedBase
<1>4. task'[p] = NoTask /\ Apart(p)
  BY <1>1, FinishFrees
<1>5. PICK change : change = task[p].change
  OBVIOUS
<1>6. /\ change \in Closures /\ task[p].day = change.day
      /\ \A e : e # change => (e \in exceptions <=> e \in exceptions')
  BY <1>1, <1>2, <1>3, <1>5 DEF Transaction, OpenTransaction, Proposed
<1>7. WithinOpeningHours'
  <2>1. ASSUME NEW r \in Reservations, Live(r), ~ reservation[r].late
        PROVE  Fits(reservation[r], r, base, exceptions')
    <3>1. Fits(reservation[r], r, base, exceptions) /\ CategoryOf[r] \in Categories
      BY <2>1, InsideFits, OpenFields, BookingAssumption DEF WithinOpeningHours
    <3>2. CASE r \in Concerned(p)
      BY <1>1, <1>2, <1>3, <2>1, <3>2 DEF OpenTransaction
    <3>3. CASE r \notin Concerned(p)
      <4>1. ~ /\ DayOf(reservation[r].start) = change.day
              /\ Hours!ExceptionAppliesTo(change, CategoryOf[r])
        BY <1>5, <1>6, <2>1, <3>1, <3>3, AffectedApplies DEF Concerned
      <4> QED
        BY <1>6, <3>1, <4>1, FitsSame
    <3> QED
      BY <3>2, <3>3
  <2>2. ASSUME NEW r \in Reservations
        PROVE  Inside(r, base, exceptions)' <=> Fits(reservation[r], r, base, exceptions')
    BY <1>3 DEF Inside, Fits, Interval, Plan!Lasting
  <2> QED
    BY <1>3, <2>1, <2>2 DEF WithinOpeningHours, Live
<1>8. \A r \in Reservations : reservation'[r].status \notin Unassessed
  BY <1>3 DEF OpenPlacements
<1>9. OpenTransaction(p)'
  <2>1. Written(p)' = {} /\ task'[p].op \notin Operations
    BY <1>4, BookingAssumption DEF Written, NoTask, NoRow
  <2> QED
    BY <2>1 DEF OpenTransaction, Operations
<1>10. ASSUME NEW q \in Procs \ {p}
       PROVE  OpenTransaction(q)'
  <2>1. /\ OpenTransaction(q) /\ Transaction(q) /\ TaskFields(task[q])
        /\ task'[q] = task[q] /\ pc'[q] = pc[q]
    BY <1>4, OpenFields DEF Apart
  <2>2. Written(q)' = Written(q) /\ Concerned(q)' = Concerned(q)
    BY <1>3, <2>1 DEF Written, Concerned, Live
  <2>3. ASSUME NEW c \in Categories, NEW d, lock[<<d, c>>] = q
        PROVE  ~ (d = change.day /\ Hours!ExceptionAppliesTo(change, c))
    BY <1>1, <1>2, <1>5, <2>3, ChangeHolds
  <2>4. ASSUME NEW r \in Written(q)
        PROVE  Fits(task[q].pending[r], r, base, exceptions')
    <3>1. Fits(task[q].pending[r], r, base, exceptions) /\ CategoryOf[r] \in Categories
      BY <2>1, BookingAssumption DEF OpenTransaction, Written
    <3>2. ~ /\ DayOf(task[q].pending[r].start) = change.day
            /\ Hours!ExceptionAppliesTo(change, CategoryOf[r])
      <4>1. PICK d : d = task[q].day
        OBVIOUS
      <4>2. lock[<<d, CategoryOf[r]>>] = q /\ DayOf(task[q].pending[r].start) = d
        BY <4>1, WrittenHolds
      <4> QED
        BY <2>3, <3>1, <4>2
    <3> QED
      BY <1>6, <3>1, <3>2, FitsSame
  <2>5. ASSUME task[q].op \in {"createException", "deleteException"},
               NEW c \in Affected(task[q].change)
        PROVE  c \in task[q].need \/ HasLock(q, c)'
    <3>1. task[q].change \in Closures /\ task[q].day \in Days
      BY <2>1, <2>5 DEF Transaction, Operations
    <3>2. <<task[q].day, c>> \in Keys
      BY <2>5, <3>1, AffectedType DEF Keys
    <3> QED
      BY <1>4, <2>1, <2>5, <3>2 DEF HasLock, Apart, OpenTransaction
  <2>6. ASSUME task[q].op \in {"createException", "deleteException"}, pc[q] = "commit",
               NEW r \in Concerned(q), ~ reservation[r].late
        PROVE  Fits(reservation[r], r, base, Proposed(q)')
    <3>1. /\ Fits(reservation[r], r, base, Proposed(q)) /\ CategoryOf[r] \in Categories
          /\ DayOf(reservation[r].start) = task[q].day
          /\ CategoryOf[r] \in Affected(task[q].change)
      BY <2>1, <2>6, BookingAssumption DEF OpenTransaction, Concerned
    <3>2. lock[<<task[q].day, CategoryOf[r]>>] = q
      <4>1. task[q].need = {}
        BY <2>1, <2>6 DEF Transaction
      <4> QED
        BY <2>1, <2>6, <3>1, <4>1 DEF OpenTransaction, HasLock
    <3>3. ~ /\ DayOf(reservation[r].start) = change.day
            /\ Hours!ExceptionAppliesTo(change, CategoryOf[r])
      BY <2>3, <3>1, <3>2
    <3>4. \A e : e # change => (e \in Proposed(q) <=> e \in Proposed(q)')
      BY <1>6, <2>1, <2>6 DEF Proposed
    <3> QED
      BY <3>1, <3>3, <3>4, FitsSame
  <2> QED
    BY <1>3, <2>1, <2>2, <2>4, <2>5, <2>6 DEF OpenTransaction
<1>11. \A q \in Procs : OpenTransaction(q)'
  BY <1>9, <1>10
<1> QED
  BY <1>7, <1>8, <1>11 DEF OpenPlacements

\* Whatever the rest of the system does, nobody is expected who was not, other than a
\* client who comes late.
LEMMA AdvanceOpen ==
  ASSUME OpenPlacements, DaytimePlacements', NEW r \in Reservations, NEW to,
         Advance(r, to)
  PROVE  OpenPlacements'
<1>1. /\ TypeOK /\ reservation \in [Reservations -> Row]
      /\ UNCHANGED <<base, exceptions, locks, pc, task>>
  BY DEF Advance, OpenPlacements, DaytimePlacements, Placements, Transactions, TypeOK
<1>2. PICK source \in Cancellers(to) :
        reservation' = [reservation EXCEPT
                          ![r].status = to, ![r].source = source,
                          ![r].late = @ \/ reservation[r].status = "NO_SHOW"]
  BY DEF Advance
<1>3. \A x \in Reservations \ {r} : reservation'[x] = reservation[x]
  BY <1>1, <1>2
<1>4. /\ \A x \in Reservations :
           /\ reservation'[x].start = reservation[x].start
           /\ /\ Holds(reservation'[x]) /\ ~ reservation'[x].late
              => Holds(reservation[x]) /\ ~ reservation[x].late
  BY <1>1, AdvanceCountsLess
<1>5. reservation'[r].status = to
  BY <1>1, <1>2 DEF Row
<1>6. /\ reservation[r].status \in Machine!Statuses \ Unassessed
      /\ to \in Machine!Transitions[reservation[r].status]
  BY DEF Advance, Machine!CanTransition, OpenPlacements
<1>7. /\ to \notin Unassessed
      /\ to \in LiveStatuses =>
           reservation[r].status \in LiveStatuses \cup {"NO_SHOW"}
  BY <1>6 DEF Machine!Statuses, Machine!Transitions, Unassessed, LiveStatuses
<1>8. \A x \in Reservations : reservation'[x].status \notin Unassessed
  BY <1>3, <1>5, <1>7 DEF OpenPlacements
<1>9. ASSUME NEW x \in Reservations, reservation'[x].status \in LiveStatuses,
             ~ reservation'[x].late
      PROVE  /\ reservation[x].status \in LiveStatuses /\ ~ reservation[x].late
             /\ reservation'[x].start = reservation[x].start
  <2>1. Holds(reservation'[x])
    BY <1>9 DEF Holds, LiveStatuses, HoldingExcluded
  <2>2. Holds(reservation[x]) /\ ~ reservation[x].late
    BY <1>4, <1>9, <2>1
  <2>3. CASE x = r
    BY <1>4, <1>5, <1>7, <1>9, <2>2, <2>3 DEF Holds, HoldingExcluded
  <2>4. CASE x # r
    BY <1>3, <1>9, <2>4
  <2> QED
    BY <2>3, <2>4
<1>10. WithinOpeningHours'
  <2>1. ASSUME NEW x \in Reservations, reservation'[x].status \in LiveStatuses,
               ~ reservation'[x].late
        PROVE  Fits(reservation'[x], x, base, exceptions)
    <3>1. Fits(reservation[x], x, base, exceptions)
      BY <1>9, <2>1, InsideFits DEF OpenPlacements, WithinOpeningHours, Live
    <3> QED
      BY <1>9, <2>1, <3>1 DEF Fits
  <2>2. ASSUME NEW x \in Reservations
        PROVE  Inside(x, base, exceptions)' <=> Fits(reservation'[x], x, base, exceptions)
    BY <1>1 DEF Inside, Fits, Interval, Plan!Lasting
  <2> QED
    BY <2>1, <2>2 DEF WithinOpeningHours, Live
<1>11. ASSUME NEW q \in Procs
       PROVE  OpenTransaction(q)'
  <2>1. /\ OpenTransaction(q) /\ Transaction(q)
        /\ Written(q)' = Written(q) /\ Proposed(q)' = Proposed(q)
        /\ \A c : HasLock(q, c)' <=> HasLock(q, c)
    BY <1>1, OpenFields DEF Written, Proposed, HasLock, locks
  <2>2. ASSUME task[q].op \in {"createException", "deleteException"}, pc[q] = "commit",
               NEW x \in Concerned(q)', ~ reservation'[x].late
        PROVE  Fits(reservation'[x], x, base, Proposed(q))
    <3>1. x \in Reservations /\ reservation'[x].status \in LiveStatuses
      BY <2>2 DEF Concerned, Live
    <3>2. x \in Concerned(q) /\ ~ reservation[x].late
      BY <1>1, <1>9, <2>2, <3>1 DEF Concerned, Live
    <3>3. Fits(reservation[x], x, base, Proposed(q))
      BY <2>1, <2>2, <3>2 DEF OpenTransaction
    <3> QED
      BY <1>9, <2>2, <3>1, <3>3 DEF Fits
  <2> QED
    BY <1>1, <2>1, <2>2 DEF OpenTransaction
<1> QED
  BY <1>8, <1>10, <1>11 DEF OpenPlacements

LEMMA InitOpen == Init => OpenPlacements
<1> SUFFICES ASSUME Init
             PROVE  OpenPlacements
  OBVIOUS
<1>1. DaytimePlacements
  BY InitDaytime
<1>2. \A r \in Reservations : reservation[r].status = "ABSENT"
  BY DEF Init, NoRow
<1>3. \A p \in Procs : Written(p) = {} /\ task[p].op \notin Operations
  BY BookingAssumption DEF Init, Written, NoTask, NoRow
<1> QED
  BY <1>1, <1>2, <1>3
     DEF OpenPlacements, WithinOpeningHours, Live, LiveStatuses, Unassessed,
         OpenTransaction, Operations

LEMMA NextOpen ==
  ASSUME "updateBase" \notin Offered, OpenPlacements, DaytimePlacements', [Next]_vars
  PROVE  OpenPlacements'
<1>1. ASSUME NEW p \in Procs, Request(p)
      PROVE  OpenPlacements'
  BY <1>1, RequestOpen
<1>2. ASSUME NEW p \in Procs, Work(p)
      PROVE  OpenPlacements'
  <2>1. CASE TakeBaseLock(p)
    BY <2>1, OpenFields DEF TakeBaseLock, OpenTransaction
  <2>2. CASE Conflict(p)
    BY <2>2, AbortOpen DEF Conflict
  <2>3. CASE Commit(p)
    BY <2>3, PlacingCommits, ChangeCommits
  <2> QED
    BY <1>2, <2>1, <2>2, <2>3, TakeLockOpen, PlaceSegmentOpen, MoveOpen, BringBackOpen,
       DecideOpen DEF Work
<1>3. ASSUME NEW r \in Reservations, NEW to \in Elsewhere, Advance(r, to)
      PROVE  OpenPlacements'
  BY <1>3, AdvanceOpen
<1>4. CASE UNCHANGED vars
  <2>1. UNCHANGED <<reservation, base, exceptions, lock, pc, task>>
    BY <1>4 DEF vars
  <2>2. ASSUME NEW q \in Procs
        PROVE  OpenTransaction(q)'
    <3>1. OpenTransaction(q) /\ Written(q)' = Written(q) /\ Proposed(q)' = Proposed(q)
          /\ Concerned(q)' = Concerned(q) /\ \A c : HasLock(q, c)' <=> HasLock(q, c)
      BY <2>1, OpenFields DEF Written, Proposed, Concerned, Live, HasLock
    <3> QED
      BY <2>1, <3>1 DEF OpenTransaction
  <2>3. WithinOpeningHours' /\ \A r \in Reservations : reservation'[r].status \notin Unassessed
    BY <2>1 DEF OpenPlacements, WithinOpeningHours, Live, Inside, Interval
  <2> QED
    BY <2>2, <2>3 DEF OpenPlacements
<1> QED
  BY <1>1, <1>2, <1>3, <1>4 DEF Next

\* While the weekly schedule stays as it is, what transactions have written fits the
\* hours of its day, and an exception about to commit leaves room for all it concerns.
THEOREM ChangesAreDecided ==
  /\ "updateBase" \notin Offered /\ Daytime
  /\ Spec /\ []RevivedInPlace
  => []OpenPlacements
<1>1. Init => OpenPlacements
  BY InitOpen
<1>2. SUFFICES ASSUME "updateBase" \notin Offered, Daytime
               PROVE  Spec /\ []RevivedInPlace => []OpenPlacements
  OBVIOUS
<1>3. OpenPlacements /\ DaytimePlacements' /\ [Next]_vars => OpenPlacements'
  BY <1>2, NextOpen
<1>4. Spec /\ []RevivedInPlace => []DaytimePlacements
  BY <1>2, WritesOnItsDay
<1> QED
  BY <1>1, <1>3, <1>4, PTL DEF Spec

\* So exceptions may come and go at any time: no booking, reschedule or revival that was
\* evaluated before commits after the check for displaced reservations, on any day or
\* category that the exception touches. The run BaseScheduleRace shows that the first
\* hypothesis cannot be left out.
THEOREM HoursKept ==
  /\ "updateBase" \notin Offered /\ Daytime
  /\ Spec /\ []RevivedInPlace
  => []WithinOpeningHours
<1>1. OpenPlacements => WithinOpeningHours
  BY DEF OpenPlacements
<1> QED
  BY <1>1, ChangesAreDecided, PTL
---------------------------------------------------------------------------
(* Bookings, reschedules and revivals keep to the state machine            *)

LEMMA AllowedFields ==
  ASSUME AllowedWrites, NEW p \in Procs
  PROVE  /\ DaytimePlacements /\ Transactions /\ TypeOK /\ WritesOnLockedDay
         /\ Transaction(p) /\ Allowed(p) /\ TaskFields(task[p])
         /\ reservation \in [Reservations -> Row]
BY DailyFields DEF AllowedWrites, DaytimePlacements

\* A step of p that changes no table: what is left to show is about p.
LEMMA AllowedStep ==
  ASSUME AllowedWrites, DaytimePlacements', NEW p \in Procs, UNCHANGED tables,
         \A q \in Procs \ {p} : task'[q] = task[q], Allowed(p)'
  PROVE  AllowedWrites'
<1>1. reservation' = reservation
  BY DEF tables
<1>2. ASSUME NEW q \in Procs \ {p}
      PROVE  Allowed(q)'
  <2>1. Allowed(q) /\ task'[q] = task[q]
    BY DEF AllowedWrites
  <2>2. Written(q)' = Written(q)
    BY <2>1 DEF Written
  <2>3. ASSUME task[q].op = "book", NEW other \in Procs \ {q}, task'[other].op = "book"
        PROVE  task[q].members \cap task'[other].members = {}
    <3>1. CASE other = p
      BY <2>1, <2>3, <3>1 DEF Allowed
    <3>2. CASE other # p
      BY <2>1, <2>3, <3>2 DEF Allowed
    <3> QED
      BY <3>1, <3>2
  <2> QED
    BY <1>1, <2>1, <2>2, <2>3 DEF Allowed
<1>3. \A r \in Reservations :
        reservation'[r].status # "CANCELADA" => reservation'[r].source = "NINGUNA"
  BY <1>1 DEF AllowedWrites
<1>4. \A q \in Procs : Allowed(q)'
  BY <1>2
<1> QED
  BY <1>3, <1>4 DEF AllowedWrites

\* A transaction that has written nothing and books nothing.
LEMMA IdleAllowed ==
  ASSUME NEW p \in Procs, Written(p)' = {}, task'[p].op # "book"
  PROVE  Allowed(p)'
BY DEF Allowed

LEMMA NoTaskAllowed ==
  ASSUME NEW p \in Procs, task'[p] = NoTask
  PROVE  Allowed(p)'
<1>1. Written(p)' = {} /\ task'[p].op # "book"
  BY BookingAssumption DEF Written, NoTask, NoRow, Operations
<1> QED
  BY <1>1, IdleAllowed

LEMMA AbortAllowed ==
  ASSUME AllowedWrites, DaytimePlacements', NEW p \in Procs, Abort(p)
  PROVE  AllowedWrites'
<1>1. task'[p] = NoTask /\ Apart(p) /\ UNCHANGED tables
  BY AllowedFields, FinishFrees DEF Abort
<1> QED
  BY <1>1, NoTaskAllowed, AllowedStep DEF Apart

\* The rows of a booking that is begun are nobody else's.
LEMMA BookAllowed ==
  ASSUME AllowedWrites, DaytimePlacements', OwnRows, NEW p \in Procs,
         NEW b \in Bookings, NEW start \in Asked, Book(p, b, start)
  PROVE  AllowedWrites'
<1> DEFINE t == [NoTask EXCEPT
                   !.op = "book", !.members = Elements(b), !.todo = b,
                   !.day = DayOf(start), !.ideal = start,
                   !.need = {CategoryOf[r] : r \in Elements(b)}]
<1>1. /\ t.op = "book" /\ t.members = Elements(b) /\ t.todo = b
      /\ t.pending = [r \in Reservations |-> NoRow]
  BY DEF NoTask
<1>2. Begin(p, t)
  BY DEF Book
<1> HIDE DEF t
<1>3. /\ task'[p] = t /\ UNCHANGED tables
      /\ \A q \in Procs \ {p} : task'[q] = task[q]
  BY <1>2, AllowedFields DEF Begin, TypeOK
<1>4. Written(p)' = {}
  BY <1>1, <1>3 DEF Written, NoRow
<1>5. \A r \in Elements(b) : reservation'[r].status = "ABSENT"
  BY <1>3 DEF Book, tables
<1>6. ASSUME NEW q \in Procs \ {p}, task[q].op = "book"
      PROVE  Elements(b) \cap task[q].members = {}
  <2>1. PICK c \in Bookings : task[q].members = Elements(c)
    BY <1>6 DEF AllowedWrites, Allowed
  <2>2. task[q].members # Elements(b)
    BY DEF Book
  <2> QED
    BY <2>1, <2>2 DEF OwnRows
<1>7. Allowed(p)'
  BY <1>1, <1>3, <1>4, <1>5, <1>6 DEF Allowed
<1> QED
  BY <1>3, <1>7, AllowedStep

\* Any other request has written nothing yet.
LEMMA OtherRequestAllowed ==
  ASSUME AllowedWrites, DaytimePlacements', NEW p \in Procs, NEW t, Begin(p, t),
         t.pending = [r \in Reservations |-> NoRow], t.op # "book"
  PROVE  AllowedWrites'
<1>1. /\ task'[p] = t /\ UNCHANGED tables
      /\ \A q \in Procs \ {p} : task'[q] = task[q]
  BY AllowedFields DEF Begin, TypeOK
<1>2. Written(p)' = {}
  BY <1>1 DEF Written, NoRow
<1> QED
  BY <1>1, <1>2, IdleAllowed, AllowedStep

LEMMA RequestAllowed ==
  ASSUME AllowedWrites, DaytimePlacements', OwnRows, NEW p \in Procs, Request(p)
  PROVE  AllowedWrites'
<1>1. CASE \E b \in Bookings, start \in Asked : Book(p, b, start)
  BY <1>1, BookAllowed
<1>2. CASE \E r \in Reservations, start \in Asked : Reschedule(p, r, start)
  <2>1. PICK r \in Reservations, start \in Asked : Reschedule(p, r, start)
    BY <1>2
  <2> DEFINE t == [NoTask EXCEPT
                     !.op = "reschedule", !.members = {r}, !.todo = <<r>>,
                     !.day = DayOf(start), !.ideal = start,
                     !.need = {CategoryOf[r]}]
  <2>2. t.pending = [s \in Reservations |-> NoRow] /\ t.op # "book"
    BY DEF NoTask
  <2>3. Begin(p, t)
    BY <2>1 DEF Reschedule
  <2> HIDE DEF t
  <2> QED
    BY <2>2, <2>3, OtherRequestAllowed
<1>3. CASE \E b \in Bookings : Revive(p, b)
  <2>1. PICK b \in Bookings : Revive(p, b)
    BY <1>3
  <2> DEFINE t == [NoTask EXCEPT
                     !.op = "revive", !.members = Elements(b), !.todo = b,
                     !.day = DayOf(reservation[Head(b)].start),
                     !.need = {CategoryOf[r] : r \in Elements(b)}]
  <2>2. t.pending = [s \in Reservations |-> NoRow] /\ t.op # "book"
    BY DEF NoTask
  <2>3. Begin(p, t)
    BY <2>1 DEF Revive
  <2> HIDE DEF t
  <2> QED
    BY <2>2, <2>3, OtherRequestAllowed
<1>4. CASE \E e \in Closures : CreateException(p, e) \/ DeleteException(p, e)
  <2>1. PICK e \in Closures, op \in {"createException", "deleteException"} :
          Begin(p, [NoTask EXCEPT !.op = op, !.change = e, !.day = e.day,
                                  !.need = Affected(e)])
    BY <1>4 DEF CreateException, DeleteException
  <2> DEFINE t == [NoTask EXCEPT !.op = op, !.change = e, !.day = e.day,
                                 !.need = Affected(e)]
  <2>2. t.pending = [s \in Reservations |-> NoRow] /\ t.op # "book"
    BY DEF NoTask
  <2>3. Begin(p, t)
    BY <2>1
  <2> HIDE DEF t
  <2> QED
    BY <2>2, <2>3, OtherRequestAllowed
<1>5. CASE \E weekly \in BaseSchedules : UpdateBase(p, weekly)
  <2>1. PICK weekly \in BaseSchedules : UpdateBase(p, weekly)
    BY <1>5
  <2> DEFINE t == [NoTask EXCEPT !.op = "updateBase", !.weekly = weekly]
  <2>2. t.pending = [s \in Reservations |-> NoRow] /\ t.op # "book"
    BY DEF NoTask
  <2>3. Begin(p, t)
    BY <2>1 DEF UpdateBase
  <2> HIDE DEF t
  <2> QED
    BY <2>2, <2>3, OtherRequestAllowed
<1> QED
  BY <1>1, <1>2, <1>3, <1>4, <1>5 DEF Request

\* A step that leaves what p is about to write as it is.
LEMMA SameAllowed ==
  ASSUME AllowedWrites, NEW p \in Procs, reservation' = reservation,
         \A q \in Procs \ {p} : task'[q] = task[q],
         task'[p].op = task[p].op, task'[p].members = task[p].members,
         task'[p].todo = task[p].todo, task'[p].pending = task[p].pending
  PROVE  Allowed(p)'
<1>1. Allowed(p) /\ Written(p)' = Written(p)
  BY DEF AllowedWrites, Written
<1> QED
  BY <1>1 DEF Allowed

LEMMA LockingAllowed ==
  ASSUME AllowedWrites, DaytimePlacements', NEW p \in Procs,
         TakeLock(p) \/ TakeBaseLock(p)
  PROVE  AllowedWrites'
<1>1. /\ \A q \in Procs \ {p} : task'[q] = task[q]
      /\ task'[p].op = task[p].op /\ task'[p].members = task[p].members
      /\ task'[p].todo = task[p].todo /\ task'[p].pending = task[p].pending
      /\ UNCHANGED tables
  <2>1. CASE TakeLock(p)
    <3> DEFINE need == task[p].need \ {NextCategory(p)}
               known == IF need = {} /\ task[p].op = "book"
                          THEN ClientIntervals(reservation,
                                 ClientOf[Head(task[p].todo)], task[p].day, None)
                          ELSE task[p].known
               step == IF need = {} THEN AfterLocks(task[p].op) ELSE "lock"
    <3>1. /\ Goto(p, step, [task[p] EXCEPT !.need = need, !.known = known])
          /\ UNCHANGED tables
      BY <2>1 DEF TakeLock, tables
    <3> HIDE DEF need, known, step
    <3> QED
      BY <3>1, AllowedFields DEF Goto, TypeOK, Task
  <2>2. CASE TakeBaseLock(p)
    BY <2>2, AllowedFields DEF TakeBaseLock, Goto, TypeOK, tables
  <2> QED
    BY <2>1, <2>2
<1> QED
  BY <1>1, SameAllowed, AllowedStep DEF tables

LEMMA DecideAllowed ==
  ASSUME AllowedWrites, DaytimePlacements', NEW p \in Procs, Decide(p)
  PROVE  AllowedWrites'
<1>1. CASE Abort(p)
  BY <1>1, AbortAllowed
<1>2. CASE Goto(p, "commit", task[p]) /\ UNCHANGED <<tables, locks>>
  <2>1. /\ task'[p] = task[p] /\ \A q \in Procs \ {p} : task'[q] = task[q]
        /\ UNCHANGED tables
    BY <1>2, AllowedFields DEF Goto, TypeOK
  <2> QED
    BY <2>1, SameAllowed, AllowedStep DEF tables
<1> QED
  BY <1>1, <1>2 DEF Decide
\* A row is written in a status that the state machine allows.
LEMMA WriteAllowed ==
  ASSUME AllowedWrites, DaytimePlacements', NEW p \in Procs, pc[p] = "place",
         NEW row \in Row, NEW ideal,
         Write(p, Head(task[p].todo), row, ideal),
         row.status \in IF task[p].op = "reschedule" THEN Reschedulable
                                                    ELSE {"PENDIENTE_DEPOSITO"},
         row.source = "NINGUNA",
         task[p].op = "revive" =>
           /\ Revivable(reservation[Head(task[p].todo)])
           /\ row.start = reservation[Head(task[p].todo)].start
  PROVE  AllowedWrites'
<1> DEFINE r == Head(task[p].todo)
           todo == Tail(task[p].todo)
           step == IF todo = <<>> THEN "commit" ELSE "place"
           t == [task[p] EXCEPT !.todo = todo, !.ideal = ideal,
                                !.from = reservation[r].start, !.pending[r] = row]
<1>1. /\ Transactions /\ TypeOK /\ Allowed(p) /\ TaskFields(task[p])
      /\ Goto(p, step, t) /\ UNCHANGED tables
  BY AllowedFields DEF Write, tables
<1>2. /\ r \in Reservations /\ r \in Elements(task[p].todo) /\ task[p].todo # <<>>
      /\ task[p].todo \in Seq(Reservations)
  BY <1>1, PlaceFields
<1>3. Elements(todo) \subseteq Elements(task[p].todo)
  BY <1>2, TailIsShorter
<1>4. t.op = task[p].op /\ t.members = task[p].members /\ t.todo = todo
  BY <1>1 DEF TaskFields, Task
<1>5. row.status # "ABSENT"
  BY DEF Reschedulable
<1>6. /\ task'[p].pending = [task[p].pending EXCEPT ![r] = row]
      /\ Written(p)' = Written(p) \cup {r}
  BY <1>1, <1>2, <1>5, WriteShows
<1> HIDE DEF r, todo, t, step
<1>7. /\ task'[p] = t /\ reservation' = reservation
      /\ \A q \in Procs \ {p} : task'[q] = task[q]
  BY <1>1, GotoAside DEF tables
<1>8. Allowed(p)'
  <2>1. ASSUME NEW x \in Written(p)'
        PROVE  /\ task'[p].pending[x].status \in
                    IF task[p].op = "reschedule" THEN Reschedulable
                                                 ELSE {"PENDIENTE_DEPOSITO"}
               /\ task'[p].pending[x].source = "NINGUNA"
               /\ task[p].op = "revive" =>
                    /\ Revivable(reservation[x])
                    /\ task'[p].pending[x].start = reservation[x].start
    <3>1. CASE x = r
      <4>1. task'[p].pending[x] = row
        BY <1>1, <1>2, <1>6, <3>1 DEF TaskFields
      <4> QED
        BY <3>1, <4>1 DEF r
    <3>2. CASE x # r
      <4>1. x \in Written(p) /\ task'[p].pending[x] = task[p].pending[x]
        BY <1>1, <1>6, <2>1, <3>2 DEF TaskFields, Written
      <4> QED
        BY <1>1, <4>1 DEF Allowed
    <3> QED
      BY <3>1, <3>2
  <2>2. ASSUME task[p].op = "book"
        PROVE  Elements(todo) \cup Written(p)' \subseteq task[p].members
    BY <1>1, <1>2, <1>3, <1>6, <2>2 DEF Allowed
  <2> QED
    BY <1>1, <1>4, <1>7, <2>1, <2>2 DEF Allowed
<1> QED
  BY <1>1, <1>7, <1>8, AllowedStep

LEMMA PlaceSegmentAllowed ==
  ASSUME AllowedWrites, DaytimePlacements', NEW p \in Procs, PlaceSegment(p)
  PROVE  AllowedWrites'
<1> DEFINE r == Head(task[p].todo)
           start == Chosen(p, r)
           row == [NoRow EXCEPT !.status = "PENDIENTE_DEPOSITO", !.start = start]
<1>1. /\ Transactions /\ TypeOK /\ pc[p] = "place" /\ task[p].op = "book"
      /\ r \in Reservations /\ IsFiniteSet(task[p].known)
  BY AllowedFields, PlaceFields DEF PlaceSegment
<1>2. CASE Abort(p)
  BY <1>2, AbortAllowed
<1>3. CASE start # NoSlot /\ Write(p, r, row, task[p].ideal + Duration[r])
  <2>1. start \in Nat
    BY <1>1, <1>3, ChosenHasRoom
  <2> HIDE DEF start
  <2>2. row \in Row /\ row.status = "PENDIENTE_DEPOSITO" /\ row.source = "NINGUNA"
    BY <2>1, NoTaskType DEF Row, NoRow, Machine!Statuses
  <2> HIDE DEF row
  <2> QED
    BY <1>1, <1>3, <2>2, WriteAllowed
<1> QED
  BY <1>2, <1>3 DEF PlaceSegment

LEMMA MoveAllowed ==
  ASSUME AllowedWrites, DaytimePlacements', NEW p \in Procs, Move(p)
  PROVE  AllowedWrites'
<1> DEFINE r == Head(task[p].todo)
           row == [reservation[r] EXCEPT !.start = task[p].ideal]
<1>1. /\ pc[p] = "place" /\ task[p].op = "reschedule"
      /\ task[p].ideal \in Nat /\ reservation[r] \in Row /\ r \in Reservations
  BY AllowedFields, PlaceFields DEF Move
<1>2. CASE Abort(p)
  BY <1>2, AbortAllowed
<1>3. CASE /\ reservation[r].status \in Reschedulable
           /\ Write(p, r, row, task[p].ideal)
  <2>1. /\ row \in Row /\ row.status = reservation[r].status
        /\ row.source = reservation[r].source
    BY <1>1 DEF Row
  <2>2. reservation[r].source = "NINGUNA"
    BY <1>1, <1>3 DEF AllowedWrites, Reschedulable
  <2> HIDE DEF row
  <2> QED
    BY <1>1, <1>3, <2>1, <2>2, WriteAllowed
<1> QED
  BY <1>2, <1>3 DEF Move

LEMMA BringBackAllowed ==
  ASSUME AllowedWrites, DaytimePlacements', NEW p \in Procs, BringBack(p)
  PROVE  AllowedWrites'
<1> DEFINE r == Head(task[p].todo)
           row == [reservation[r] EXCEPT !.status = "PENDIENTE_DEPOSITO",
                                         !.source = "NINGUNA"]
<1>1. pc[p] = "place" /\ task[p].op = "revive" /\ reservation[r] \in Row
  BY AllowedFields, PlaceFields DEF BringBack
<1>2. CASE Abort(p)
  BY <1>2, AbortAllowed
<1>3. CASE Revivable(reservation[r]) /\ Write(p, r, row, 0)
  <2>1. /\ row \in Row /\ row.status = "PENDIENTE_DEPOSITO" /\ row.source = "NINGUNA"
        /\ row.start = reservation[r].start
    BY <1>1 DEF Row, Machine!Statuses, Machine!Sources
  <2> HIDE DEF row
  <2> QED
    BY <1>1, <1>3, <2>1, WriteAllowed
<1> QED
  BY <1>2, <1>3 DEF BringBack
\* What p is about to write it is about to write to a day and category that it has locked.
LEMMA WritesLocked ==
  ASSUME AllowedWrites, NEW p \in Procs, NEW r \in Written(p)
  PROVE  /\ lock[<<task[p].day, CategoryOf[r]>>] = p
         /\ DayOf(task[p].pending[r].start) = task[p].day
         /\ task[p].op \in Placing
<1>1. Transaction(p) /\ WritesOnLockedDay
  BY AllowedFields
<1>2. task[p].need = {} /\ task[p].op \in Placing
  BY <1>1 DEF Transaction
<1> QED
  BY <1>1, <1>2 DEF Transaction, HasLock, WritesOnLockedDay

\* The rows that a commit changes: each as the state machine allows, and none that
\* another transaction is about to book or to revive.
LEMMA CommitMoves ==
  ASSUME AllowedWrites, NEW p \in Procs, Commit(p), NEW r \in Written(p)
  PROVE  /\ reservation'[r] = task[p].pending[r]
         /\ reservation'[r].source = "NINGUNA"
         /\ \/ /\ task[p].op = "book" /\ r \in task[p].members
               /\ reservation[r].status = "ABSENT"
               /\ reservation'[r].status = "PENDIENTE_DEPOSITO"
            \/ /\ task[p].op = "reschedule"
               /\ reservation[r].status \in Reschedulable
               /\ reservation'[r].status = reservation[r].status
            \/ /\ task[p].op = "revive" /\ Revivable(reservation[r])
               /\ reservation'[r].status = "PENDIENTE_DEPOSITO"
               /\ reservation'[r].start = reservation[r].start
<1>1. TypeOK /\ Allowed(p) /\ task[p].op \in Placing /\ r \in Reservations
  BY AllowedFields, WritesLocked DEF Written
<1>2. reservation'[r] = task[p].pending[r]
  BY <1>1 DEF Commit, View
<1>3. task[p].op = "reschedule" => reservation[r].status = task[p].pending[r].status
  BY DEF Commit, Unchanged
<1> QED
  BY <1>1, <1>2, <1>3 DEF Allowed, Placing

LEMMA CommitAllowed ==
  ASSUME AllowedWrites, DaytimePlacements', NEW p \in Procs, Commit(p)
  PROVE  AllowedWrites'
<1>1. TypeOK /\ reservation' = View(p) /\ Finish(p)
  BY AllowedFields DEF Commit
<1>2. task'[p] = NoTask /\ Apart(p)
  BY <1>1, FinishFrees
<1>3. \A r \in Reservations \ Written(p) : reservation'[r] = reservation[r]
  BY <1>1 DEF View
<1>4. \A r \in Reservations :
        reservation'[r].status # "CANCELADA" => reservation'[r].source = "NINGUNA"
  BY <1>3, CommitMoves DEF AllowedWrites
<1>5. ASSUME NEW q \in Procs \ {p}
      PROVE  Allowed(q)'
  <2>1. /\ Allowed(q) /\ Transaction(q) /\ task'[q] = task[q]
        /\ Written(q) \subseteq Reservations
    BY <1>2, AllowedFields DEF Apart, Written
  <2>2. Written(q)' = Written(q)
    BY <2>1 DEF Written
  <2>3. ASSUME task[q].op = "book", NEW r \in task[q].members
        PROVE  reservation'[r].status = "ABSENT"
    <3>1. reservation[r].status = "ABSENT" /\ r \in Reservations
      <4>1. PICK b \in Bookings : task[q].members = Elements(b)
        BY <2>1, <2>3 DEF Allowed
      <4> QED
        BY <2>1, <2>3, <4>1, BookingFields DEF Allowed
    <3>2. r \notin Written(p)
      <4>1. SUFFICES ASSUME r \in Written(p)
                     PROVE  FALSE
        OBVIOUS
      <4>2. task[p].op = "book" /\ r \in task[p].members
        BY <3>1, <4>1, CommitMoves DEF Reschedulable, Revivable, Machine!IsRevivable
      <4> QED
        BY <2>1, <2>3, <4>2 DEF Allowed
    <3> QED
      BY <1>3, <3>1, <3>2
  <2>4. ASSUME task[q].op = "book", NEW other \in Procs \ {q}, task'[other].op = "book"
        PROVE  task[q].members \cap task'[other].members = {}
    <3>1. other # p
      BY <1>2, <2>4, BookingAssumption DEF NoTask, Operations
    <3> QED
      BY <1>2, <2>1, <2>4, <3>1 DEF Allowed, Apart
  <2>5. ASSUME task[q].op = "revive", NEW r \in Written(q)
        PROVE  reservation'[r] = reservation[r]
    <3>1. Revivable(reservation[r]) /\ task[q].pending[r].start = reservation[r].start
      BY <2>1, <2>5 DEF Allowed
    <3>2. r \notin Written(p)
      <4>1. SUFFICES ASSUME r \in Written(p)
                     PROVE  FALSE
        OBVIOUS
      <4>2. /\ task[p].op = "revive"
            /\ task[p].pending[r].start = reservation[r].start
        BY <3>1, <4>1, CommitMoves DEF Reschedulable, Revivable, Machine!IsRevivable
      <4>3. /\ lock[<<task[q].day, CategoryOf[r]>>] = q
            /\ DayOf(task[q].pending[r].start) = task[q].day
        BY WritesLocked
      <4>4. /\ lock[<<task[p].day, CategoryOf[r]>>] = p
            /\ DayOf(task[p].pending[r].start) = task[p].day
        BY <4>1, WritesLocked
      <4> QED
        BY <3>1, <4>2, <4>3, <4>4
    <3> QED
      BY <1>3, <2>1, <2>5, <3>2
  <2>6. \A r \in Written(q) :
          /\ task[q].pending[r].status \in
               IF task[q].op = "reschedule" THEN Reschedulable ELSE {"PENDIENTE_DEPOSITO"}
          /\ task[q].pending[r].source = "NINGUNA"
    BY <2>1 DEF Allowed
  <2>7. ASSUME task[q].op = "revive", NEW r \in Written(q)
        PROVE  /\ Revivable(reservation'[r])
               /\ task[q].pending[r].start = reservation'[r].start
    BY <2>1, <2>5, <2>7 DEF Allowed
  <2>8. task[q].op = "book" =>
          /\ task[q].members \in {Elements(b) : b \in Bookings}
          /\ Elements(task[q].todo) \cup Written(q) \subseteq task[q].members
    BY <2>1 DEF Allowed
  <2> QED
    BY <2>1, <2>2, <2>3, <2>4, <2>6, <2>7, <2>8 DEF Allowed
<1>6. \A q \in Procs : Allowed(q)'
  BY <1>2, <1>5, NoTaskAllowed
<1> QED
  BY <1>4, <1>6 DEF AllowedWrites

\* The rest of the system advances no row that a request is about to book or to revive.
LEMMA AdvanceAllowed ==
  ASSUME AllowedWrites, DaytimePlacements', NEW r \in Reservations, NEW to \in Elsewhere,
         Advance(r, to)
  PROVE  AllowedWrites'
<1>1. /\ reservation \in [Reservations -> Row] /\ task' = task
      /\ Machine!CanTransition(reservation[r].status, to)
  BY DEF AllowedWrites, DaytimePlacements, Placements, Transactions, TypeOK, Advance
<1>2. PICK source \in Cancellers(to) :
        reservation' = [reservation EXCEPT
                          ![r].status = to, ![r].source = source,
                          ![r].late = @ \/ reservation[r].status = "NO_SHOW"]
  BY DEF Advance
<1>3. /\ reservation'[r].status = to /\ reservation'[r].source = source
      /\ \A s \in Reservations \ {r} : reservation'[s] = reservation[s]
  BY <1>1, <1>2 DEF Row
<1>4. reservation[r].status # "ABSENT" /\ reservation[r].status # "CANCELADA"
  BY <1>1 DEF Machine!CanTransition, Machine!Transitions, Machine!Statuses
<1>5. to # "CANCELADA" => source = "NINGUNA"
  BY DEF Cancellers
<1>6. \A s \in Reservations :
        reservation'[s].status # "CANCELADA" => reservation'[s].source = "NINGUNA"
  BY <1>3, <1>5 DEF AllowedWrites
<1>7. ASSUME NEW q \in Procs
      PROVE  Allowed(q)'
  <2>1. Allowed(q) /\ task'[q] = task[q] /\ Written(q)' = Written(q)
    BY <1>1 DEF AllowedWrites, Written
  <2>2. ASSUME NEW s \in Reservations, reservation[s].status \in {"ABSENT", "CANCELADA"}
        PROVE  reservation'[s] = reservation[s]
    BY <1>3, <1>4, <2>2
  <2>3. ASSUME task[q].op = "book", NEW s \in task[q].members
        PROVE  reservation'[s].status = "ABSENT"
    <3>1. PICK b \in Bookings : task[q].members = Elements(b)
      BY <2>1, <2>3 DEF Allowed
    <3>2. s \in Reservations /\ reservation[s].status = "ABSENT"
      BY <2>1, <2>3, <3>1, BookingFields DEF Allowed
    <3> QED
      BY <2>2, <3>2
  <2>4. ASSUME task[q].op = "revive", NEW s \in Written(q)
        PROVE  reservation'[s] = reservation[s]
    <3>1. s \in Reservations /\ reservation[s].status = "CANCELADA"
      BY <2>1, <2>4 DEF Allowed, Written, Revivable, Machine!IsRevivable
    <3> QED
      BY <2>2, <3>1
  <2> QED
    BY <1>1, <2>1, <2>3, <2>4 DEF Allowed
<1> QED
  BY <1>6, <1>7 DEF AllowedWrites

LEMMA InitAllowed == Init => AllowedWrites
<1> SUFFICES ASSUME Init
             PROVE  AllowedWrites
  OBVIOUS
<1>1. DaytimePlacements
  BY InitDaytime
<1>2. \A r \in Reservations : reservation[r].source = "NINGUNA"
  BY DEF Init, NoRow
<1>3. ASSUME NEW p \in Procs
      PROVE  Allowed(p)
  <2>1. Written(p) = {} /\ task[p].op \notin Operations
    BY BookingAssumption DEF Init, Written, NoTask, NoRow
  <2> QED
    BY <2>1 DEF Allowed, Operations
<1> QED
  BY <1>1, <1>2, <1>3 DEF AllowedWrites

LEMMA NextAllowed ==
  ASSUME OwnRows, AllowedWrites, DaytimePlacements', [Next]_vars
  PROVE  AllowedWrites'
<1>1. ASSUME NEW p \in Procs, Request(p)
      PROVE  AllowedWrites'
  BY <1>1, RequestAllowed
<1>2. ASSUME NEW p \in Procs, Work(p)
      PROVE  AllowedWrites'
  <2>1. CASE Conflict(p)
    BY <2>1, AbortAllowed DEF Conflict
  <2> QED
    BY <1>2, <2>1, LockingAllowed, PlaceSegmentAllowed, MoveAllowed, BringBackAllowed,
       DecideAllowed, CommitAllowed DEF Work
<1>3. ASSUME NEW r \in Reservations, NEW to \in Elsewhere, Advance(r, to)
      PROVE  AllowedWrites'
  BY <1>3, AdvanceAllowed
<1>4. CASE UNCHANGED vars
  <2>1. task' = task /\ reservation' = reservation
    BY <1>4 DEF vars
  <2>2. \A q \in Procs : Allowed(q) /\ Written(q)' = Written(q)
    BY <2>1 DEF AllowedWrites, Written
  <2>3. \A q \in Procs : Allowed(q)'
    BY <2>1, <2>2 DEF Allowed
  <2> QED
    BY <2>1, <2>3 DEF AllowedWrites
<1> QED
  BY <1>1, <1>2, <1>3, <1>4 DEF Next
\* Row by row, what a step does is a move of the state machine.
LEMMA RowMoves ==
  ASSUME AllowedWrites, [Next]_vars, NEW r \in Reservations
  PROVE  \/ Machine!Kept(r) \/ Machine!Booked(r)
         \/ Machine!Advanced(r) \/ Machine!Revived(r)
<1> DEFINE From == reservation[r].status
           To == reservation'[r].status
<1>1. CASE reservation' = reservation
  BY <1>1 DEF Machine!Kept
<1>2. ASSUME NEW p \in Procs, Commit(p)
      PROVE  \/ Machine!Kept(r) \/ Machine!Booked(r) \/ Machine!Revived(r)
  <2>1. CASE r \notin Written(p)
    <3>1. reservation'[r] = reservation[r]
      BY <1>2, <2>1 DEF Commit, View
    <3> QED
      BY <3>1 DEF Machine!Kept
  <2>2. CASE r \in Written(p)
    <3>1. CASE From = "ABSENT" /\ To = "PENDIENTE_DEPOSITO"
      BY <1>2, <2>2, <3>1, CommitMoves DEF Machine!Booked
    <3>2. CASE From \in Reschedulable /\ To = From
      <4>1. reservation[r].source = "NINGUNA" /\ reservation'[r].source = "NINGUNA"
        BY <1>2, <2>2, <3>2, CommitMoves DEF AllowedWrites, Reschedulable
      <4> QED
        BY <3>2, <4>1 DEF Machine!Kept
    <3>3. CASE Revivable(reservation[r]) /\ To = "PENDIENTE_DEPOSITO"
      BY <1>2, <2>2, <3>3, CommitMoves DEF Machine!Revived, Revivable
    <3> QED
      BY <1>2, <2>2, <3>1, <3>2, <3>3, CommitMoves
  <2> QED
    BY <2>1, <2>2
<1>3. ASSUME NEW s \in Reservations, NEW to \in Elsewhere, Advance(s, to)
      PROVE  Machine!Kept(r) \/ Machine!Advanced(r)
  <2>1. PICK source \in Cancellers(to) :
          reservation' = [reservation EXCEPT
                            ![s].status = to, ![s].source = source,
                            ![s].late = @ \/ reservation[s].status = "NO_SHOW"]
    BY <1>3 DEF Advance
  <2>2. reservation \in [Reservations -> Row]
    BY DEF AllowedWrites, DaytimePlacements, Placements, Transactions, TypeOK
  <2>3. /\ reservation'[s].status = to /\ reservation'[s].source = source
        /\ r # s => reservation'[r] = reservation[r]
    BY <2>1, <2>2 DEF Row
  <2>4. Machine!CanTransition(reservation[s].status, to)
    BY <1>3 DEF Advance
  <2>5. source # "NINGUNA" <=> to = "CANCELADA"
    BY DEF Cancellers
  <2> QED
    BY <2>3, <2>4, <2>5 DEF Machine!Kept, Machine!Advanced
<1>4. ASSUME NEW p \in Procs, Request(p) \/ Work(p), ~ Commit(p)
      PROVE  reservation' = reservation
  BY <1>4 DEF Request, Book, Reschedule, Revive, CreateException, DeleteException, UpdateBase,
     Begin, Work, TakeLock, TakeBaseLock, PlaceSegment, Move, BringBack, Decide, Conflict,
     Write, Abort, tables
<1>5. CASE UNCHANGED vars
  BY <1>1, <1>5 DEF vars
<1> QED
  BY <1>1, <1>2, <1>3, <1>4, <1>5 DEF Next

\* Bookings, reschedules and revivals implement the state machine of the reservations:
\* none overwrites what the rest of the system did to a row meanwhile. The rows of a
\* request get their ids from it, hence OwnRows.
THEOREM StatusesFollow ==
  OwnRows /\ Daytime /\ Spec /\ []RevivedInPlace => StatusesFollowMachine
<1>1. SUFFICES ASSUME OwnRows, Daytime
               PROVE  Spec /\ []RevivedInPlace => StatusesFollowMachine
  OBVIOUS
<1>2. Init => AllowedWrites
  BY InitAllowed
<1>3. AllowedWrites /\ DaytimePlacements' /\ [Next]_vars => AllowedWrites'
  BY <1>1, NextAllowed
<1>4. Spec /\ []RevivedInPlace => []DaytimePlacements
  BY <1>1, WritesOnItsDay
<1>5. Init => Machine!Init
  BY DEF Init, Machine!Init, NoRow
<1>6. AllowedWrites /\ [Next]_vars => [Machine!Next]_(Machine!vars)
  BY RowMoves DEF Machine!Next
<1> QED
  BY <1>2, <1>3, <1>4, <1>5, <1>6, PTL DEF Spec, StatusesFollowMachine, Machine!Spec
---------------------------------------------------------------------------
(* Bookings are written as a whole                                         *)

\* A start that is relocated crosses nothing that is known of the client.
LEMMA RelocatedIsApart ==
  ASSUME NEW slots, slots \subseteq Nat, NEW ideal \in Nat, NEW duration, NEW known,
         Plan!Relocated(slots, ideal, duration, known) # NoSlot
  PROVE  ~ Plan!OverlapsAny(
             Plan!Lasting(Plan!Relocated(slots, ideal, duration, known), duration), known)
<1> DEFINE apart == {s \in slots : ~ Plan!OverlapsAny(Plan!Lasting(s, duration), known)}
<1>1. apart \subseteq Nat
  OBVIOUS
<1>2. Plan!Relocated(slots, ideal, duration, known) =
        IF apart = {} THEN NoSlot ELSE Plan!NearestSlot(apart, ideal)
  BY DEF Plan!Relocated
<1>3. Plan!Relocated(slots, ideal, duration, known) \in apart
  <2> HIDE DEF apart
  <2> QED
    BY <1>1, <1>2, NearestIsOffered
<1> QED
  BY <1>3

\* What a place that is accepted does not cross.
LEMMA AcceptedIsApart ==
  ASSUME NEW view, NEW r \in Reservations, NEW start,
         Verdict(view, r, start) = "OK",
         NEW i \in ClientIntervals(view, ClientOf[r], DayOf(start), r)
  PROVE  ~ Plan!Overlap(Plan!Lasting(start, Duration[r]), i)
<1>1. ~ Plan!OverlapsAny(Plan!Lasting(start, Duration[r]),
          ClientIntervals(view, ClientOf[r], DayOf(start), r))
  BY DEF Verdict, Plan!EvaluatePlacement
<1> QED
  BY <1>1 DEF Plan!OverlapsAny

\* A segment goes where none of those written before is.
LEMMA ChosenApart ==
  ASSUME Daytime, AllowedWrites, NEW p \in Procs, pc[p] = "place",
         task[p].op = "book", Chosen(p, Head(task[p].todo)) # NoSlot,
         NEW x \in Written(p), x # Head(task[p].todo)
  PROVE  ~ Plan!Overlap(
             Plan!Lasting(Chosen(p, Head(task[p].todo)), Duration[Head(task[p].todo)]),
             Interval(task[p].pending, x))
<1> DEFINE r == Head(task[p].todo)
           d == task[p].day
           ideal == task[p].ideal
           known == Conflicts(p)
           candidate == Plan!Adjusted(ideal, Duration[r], known)
           verdict == Verdict(View(p), r, candidate)
           slots == Plan!AvailableSlots(
                      Windows(base, exceptions, DayOf(ideal), CategoryOf[r]),
                      HeldInDay(View(p), CategoryOf[r], d), Duration[r],
                      Capacity[CategoryOf[r]])
           s == Chosen(p, r)
           i == Interval(task[p].pending, x)
<1>1. /\ Transactions /\ TypeOK /\ DaytimePlacements /\ WritesOnLockedDay /\ Allowed(p)
      /\ TaskFields(task[p]) /\ x \in Reservations /\ task[p].pending[x].status # "ABSENT"
  BY AllowedFields DEF Written
<1>2. /\ r \in Reservations /\ r \in Elements(task[p].todo) /\ ideal \in Nat /\ d \in Nat
      /\ base \in BaseSchedules /\ exceptions \subseteq Closures
  BY <1>1, PlaceFields, StateFields DEF TaskFields
<1>3. s = Plan!ResolvePlacement(candidate, verdict, slots, ideal, Duration[r], known)
  BY DEF Chosen
<1>4. DayOf(s) = d /\ s # NoSlot
  BY <1>1, ChosenOnDay
<1>5. i \in known
  BY DEF Conflicts
<1>6. /\ Duration[r] \in Nat \ {0} /\ Duration[x] \in Nat \ {0}
      /\ CategoryOf[r] \in Categories /\ DayOf(ideal) \in Nat
  BY <1>1, <1>2, BookingAssumption, DayBounds
<1>7. CASE verdict = "OK"
  <2>1. s = candidate
    BY <1>3, <1>7 DEF Plan!ResolvePlacement
  <2>2. /\ ClientOf[x] = ClientOf[r]
        /\ Holds(View(p)[x]) /\ Interval(View(p), x) = i
    <3>1. View(p)[x] = task[p].pending[x]
      BY <1>1 DEF View
    <3>2. task[p].pending[x].status = "PENDIENTE_DEPOSITO"
      BY <1>1 DEF Allowed
    <3>3. PICK b \in Bookings : task[p].members = Elements(b)
      BY <1>1 DEF Allowed
    <3>4. x \in Elements(b) /\ r \in Elements(b)
      BY <1>1, <1>2, <3>3 DEF Allowed
    <3>5. ClientOf[x] = ClientOf[r]
      BY <3>4, ComboAssumption DEF Elements
    <3> QED
      BY <3>1, <3>2, <3>5 DEF Holds, HoldingExcluded, Interval
  <2>3. Plan!Overlap(i, WholeDay(d))
    <3> DEFINE t == task[p].pending[x].start
    <3>1. t \in Nat /\ DayOf(t) = d
      BY <1>1, RowFields DEF TaskFields, WritesOnLockedDay
    <3>2. /\ d * DayLength <= t /\ t < (d + 1) * DayLength
          /\ d * DayLength \in Nat /\ (d + 1) * DayLength \in Nat
      <4> HIDE DEF t, d
      <4>1. d * DayLength <= t /\ t < (d + 1) * DayLength
        BY <3>1, DayBounds
      <4>2. d * DayLength \in Nat /\ (d + 1) * DayLength \in Nat
        BY <1>2, BookingAssumption
      <4> QED
        BY <4>1, <4>2
    <3>3. i.start = t /\ i.end = t + Duration[x]
      BY DEF Interval, Plan!Lasting
    <3>4. WholeDay(d).start = d * DayLength /\ WholeDay(d).end = (d + 1) * DayLength
      BY DEF WholeDay
    <3> HIDE DEF t, i
    <3> QED
      BY <1>6, <3>1, <3>2, <3>3, <3>4 DEF Plan!Overlap
  <2>4. i \in ClientIntervals(View(p), ClientOf[r], d, r)
    BY <1>1, <2>2, <2>3 DEF ClientIntervals
  <2>5. i \in ClientIntervals(View(p), ClientOf[r], DayOf(candidate), r)
    BY <1>4, <2>1, <2>4
  <2> HIDE DEF candidate, i, r
  <2>6. ~ Plan!Overlap(Plan!Lasting(candidate, Duration[r]), i)
    BY <1>2, <1>7, <2>5, AcceptedIsApart
  <2> QED
    BY <2>1, <2>6 DEF r, i
<1>8. CASE verdict # "OK"
  <2>1. slots \subseteq Nat
    BY <1>2, <1>6, OfferedHasRoom
  <2>2. s = Plan!Relocated(slots, ideal, Duration[r], known)
    BY <1>3, <1>4, <1>8 DEF Plan!ResolvePlacement
  <2>3. ~ Plan!OverlapsAny(Plan!Lasting(s, Duration[r]), known)
    <3> HIDE DEF slots, s, known, r
    <3> QED
      BY <1>2, <1>4, <2>1, <2>2, RelocatedIsApart
  <2> QED
    BY <1>5, <2>3 DEF Plan!OverlapsAny
<1> QED
  BY <1>7, <1>8

LEMMA HeadAndTail ==
  ASSUME NEW s \in Seq(Reservations), s # <<>>
  PROVE  Elements(s) = {Head(s)} \cup Elements(Tail(s))
<1>1. /\ Len(s) \in Nat \ {0} /\ Head(s) = s[1]
      /\ Len(Tail(s)) = Len(s) - 1
      /\ \A i \in 1 .. Len(Tail(s)) : Tail(s)[i] = s[i + 1]
      /\ DOMAIN Tail(s) = 1 .. Len(Tail(s)) /\ DOMAIN s = 1 .. Len(s)
  OBVIOUS
<1>2. Elements(s) \subseteq {Head(s)} \cup Elements(Tail(s))
  <2>1. ASSUME NEW i \in DOMAIN s
        PROVE  s[i] \in {Head(s)} \cup Elements(Tail(s))
    <3>1. CASE i = 1
      BY <1>1, <3>1
    <3>2. CASE i # 1
      <4>1. i - 1 \in DOMAIN Tail(s) /\ Tail(s)[i - 1] = s[i]
        BY <1>1, <3>2
      <4> QED
        BY <4>1 DEF Elements
    <3> QED
      BY <3>1, <3>2
  <2> QED
    BY <2>1 DEF Elements
<1>3. {Head(s)} \cup Elements(Tail(s)) \subseteq Elements(s)
  BY TailIsShorter
<1> QED
  BY <1>2, <1>3

\* A step of p: what is left to show is about p.
LEMMA EntireStep ==
  ASSUME WholeBookings, AllowedWrites', NEW p \in Procs, Entire(p)',
         \A q \in Procs \ {p} : task'[q] = task[q] /\ pc'[q] = pc[q]
  PROVE  WholeBookings'
<1>1. ASSUME NEW q \in Procs \ {p}
      PROVE  Entire(q)'
  <2>1. Entire(q) /\ task'[q] = task[q] /\ pc'[q] = pc[q]
    BY DEF WholeBookings
  <2>2. Written(q)' = Written(q)
    BY <2>1 DEF Written
  <2> QED
    BY <2>1, <2>2 DEF Entire
<1> QED
  BY <1>1 DEF WholeBookings

LEMMA IdleEntire ==
  ASSUME NEW p \in Procs, task'[p].op # "book"
  PROVE  Entire(p)'
BY DEF Entire

LEMMA FinishEntire ==
  ASSUME WholeBookings, AllowedWrites', NEW p \in Procs, Finish(p)
  PROVE  WholeBookings'
<1>1. Transactions /\ TypeOK
  BY AllowedFields DEF WholeBookings
<1>2. task'[p] = NoTask /\ Apart(p)
  BY <1>1, FinishFrees
<1>3. task'[p].op # "book"
  BY <1>2, BookingAssumption DEF NoTask, Operations
<1> QED
  BY <1>2, <1>3, IdleEntire, EntireStep DEF Apart

LEMMA RequestEntire ==
  ASSUME WholeBookings, AllowedWrites', NEW p \in Procs, Request(p)
  PROVE  WholeBookings'
<1>1. TypeOK
  BY AllowedFields DEF WholeBookings
<1>2. ASSUME NEW t, Begin(p, t)
      PROVE  /\ task'[p] = t /\ pc'[p] = "lock"
             /\ \A q \in Procs \ {p} : task'[q] = task[q] /\ pc'[q] = pc[q]
  BY <1>1, <1>2 DEF Begin, TypeOK
<1>3. ASSUME NEW b \in Bookings, NEW start \in Asked, Book(p, b, start)
      PROVE  WholeBookings'
  <2> DEFINE t == [NoTask EXCEPT
                     !.op = "book", !.members = Elements(b), !.todo = b,
                     !.day = DayOf(start), !.ideal = start,
                     !.need = {CategoryOf[r] : r \in Elements(b)}]
  <2>1. /\ t.members = Elements(b) /\ t.todo = b
        /\ t.pending = [r \in Reservations |-> NoRow]
    BY DEF NoTask
  <2>2. Begin(p, t)
    BY <1>3 DEF Book
  <2> HIDE DEF t
  <2>3. /\ task'[p] = t /\ pc'[p] = "lock"
        /\ \A q \in Procs \ {p} : task'[q] = task[q] /\ pc'[q] = pc[q]
    BY <1>2, <2>2
  <2>4. Written(p)' = {}
    BY <2>1, <2>3 DEF Written, NoRow
  <2>5. Entire(p)'
    BY <2>1, <2>3, <2>4 DEF Entire
  <2> QED
    BY <2>3, <2>5, EntireStep
<1>4. ASSUME NEW t, Begin(p, t), t.op # "book"
      PROVE  WholeBookings'
  BY <1>2, <1>4, IdleEntire, EntireStep
<1>5. ASSUME NEW r \in Reservations, NEW start \in Asked, Reschedule(p, r, start)
      PROVE  WholeBookings'
  <2> DEFINE t == [NoTask EXCEPT
                     !.op = "reschedule", !.members = {r}, !.todo = <<r>>,
                     !.day = DayOf(start), !.ideal = start,
                     !.need = {CategoryOf[r]}]
  <2>1. t.op # "book"
    BY DEF NoTask
  <2>2. Begin(p, t)
    BY <1>5 DEF Reschedule
  <2> HIDE DEF t
  <2> QED
    BY <1>4, <2>1, <2>2
<1>6. ASSUME NEW b \in Bookings, Revive(p, b)
      PROVE  WholeBookings'
  <2> DEFINE t == [NoTask EXCEPT
                     !.op = "revive", !.members = Elements(b), !.todo = b,
                     !.day = DayOf(reservation[Head(b)].start),
                     !.need = {CategoryOf[r] : r \in Elements(b)}]
  <2>1. t.op # "book"
    BY DEF NoTask
  <2>2. Begin(p, t)
    BY <1>6 DEF Revive
  <2> HIDE DEF t
  <2> QED
    BY <1>4, <2>1, <2>2
<1>7. ASSUME NEW e \in Closures, CreateException(p, e) \/ DeleteException(p, e)
      PROVE  WholeBookings'
  <2>1. PICK op \in {"createException", "deleteException"} :
          Begin(p, [NoTask EXCEPT !.op = op, !.change = e, !.day = e.day,
                                  !.need = Affected(e)])
    BY <1>7 DEF CreateException, DeleteException
  <2> DEFINE t == [NoTask EXCEPT !.op = op, !.change = e, !.day = e.day,
                                 !.need = Affected(e)]
  <2>2. t.op # "book" /\ Begin(p, t)
    BY <2>1 DEF NoTask
  <2> HIDE DEF t
  <2> QED
    BY <1>4, <2>2
<1>8. ASSUME NEW weekly \in BaseSchedules, UpdateBase(p, weekly)
      PROVE  WholeBookings'
  <2> DEFINE t == [NoTask EXCEPT !.op = "updateBase", !.weekly = weekly]
  <2>1. t.op # "book" /\ Begin(p, t)
    BY <1>8 DEF NoTask, UpdateBase
  <2> HIDE DEF t
  <2> QED
    BY <1>4, <2>1
<1> QED
  BY <1>3, <1>5, <1>6, <1>7, <1>8 DEF Request

\* Locks are taken before anything is written.
LEMMA LockingEntire ==
  ASSUME WholeBookings, AllowedWrites', NEW p \in Procs, TakeLock(p) \/ TakeBaseLock(p)
  PROVE  WholeBookings'
<1>1. TypeOK /\ TaskFields(task[p]) /\ Entire(p)
  BY AllowedFields DEF WholeBookings
<1>2. CASE TakeLock(p)
  <2> DEFINE need == task[p].need \ {NextCategory(p)}
             known == IF need = {} /\ task[p].op = "book"
                        THEN ClientIntervals(reservation,
                               ClientOf[Head(task[p].todo)], task[p].day, None)
                        ELSE task[p].known
             step == IF need = {} THEN AfterLocks(task[p].op) ELSE "lock"
           t == [task[p] EXCEPT !.need = need, !.known = known]
  <2>1. /\ Goto(p, step, t) /\ step # "commit"
        /\ t.op = "book" => step \in {"lock", "place"}
    BY <1>1, <1>2 DEF TakeLock, AfterLocks, TaskFields, Task
  <2>2. /\ t.op = task[p].op /\ t.members = task[p].members /\ t.todo = task[p].todo
        /\ t.pending = task[p].pending
    BY <1>1 DEF Task
  <2> HIDE DEF need, known, step, t
  <2>3. /\ task'[p] = t /\ pc'[p] = step
        /\ \A q \in Procs \ {p} : task'[q] = task[q] /\ pc'[q] = pc[q]
    BY <1>1, <2>1, GotoAside
  <2>4. Written(p)' = Written(p)
    BY <2>2, <2>3 DEF Written
  <2>5. Entire(p)'
    BY <1>1, <2>1, <2>2, <2>3, <2>4 DEF Entire
  <2> QED
    BY <2>3, <2>5, EntireStep
<1>3. CASE TakeBaseLock(p)
  <2>1. /\ task'[p].op # "book"
        /\ \A q \in Procs \ {p} : task'[q] = task[q] /\ pc'[q] = pc[q]
    BY <1>1, <1>3, GotoAside DEF TakeBaseLock
  <2> QED
    BY <2>1, IdleEntire, EntireStep
<1> QED
  BY <1>2, <1>3

LEMMA DecideEntire ==
  ASSUME WholeBookings, AllowedWrites', NEW p \in Procs, Decide(p)
  PROVE  WholeBookings'
<1>1. TypeOK /\ Entire(p)
  BY AllowedFields DEF WholeBookings
<1>2. CASE Abort(p)
  BY <1>2, FinishEntire DEF Abort
<1>3. CASE Goto(p, "commit", task[p])
  <2>1. /\ task'[p] = task[p] /\ pc[p] = "decide"
        /\ \A q \in Procs \ {p} : task'[q] = task[q] /\ pc'[q] = pc[q]
    BY <1>1, <1>3, GotoAside DEF Decide
  <2>2. Written(p)' = Written(p)
    BY <2>1 DEF Written
  <2>3. Entire(p)'
    BY <1>1, <2>1, <2>2 DEF Entire
  <2> QED
    BY <2>1, <2>3, EntireStep
<1> QED
  BY <1>2, <1>3 DEF Decide

\* A row of a booking is written where none of those before it is.
LEMMA PlaceSegmentEntire ==
  ASSUME Daytime, WholeBookings, AllowedWrites', NEW p \in Procs, PlaceSegment(p)
  PROVE  WholeBookings'
<1> DEFINE r == Head(task[p].todo)
           todo == Tail(task[p].todo)
           start == Chosen(p, r)
           row == [NoRow EXCEPT !.status = "PENDIENTE_DEPOSITO", !.start = start]
           step == IF todo = <<>> THEN "commit" ELSE "place"
           ideal == task[p].ideal + Duration[r]
           t == [task[p] EXCEPT !.todo = todo, !.ideal = ideal,
                                !.from = reservation[r].start, !.pending[r] = row]
<1>1. /\ AllowedWrites /\ Transactions /\ TypeOK /\ Entire(p) /\ TaskFields(task[p])
      /\ pc[p] = "place" /\ task[p].op = "book"
  BY AllowedFields DEF WholeBookings, PlaceSegment
<1>2. /\ r \in Reservations /\ task[p].todo \in Seq(Reservations) /\ task[p].todo # <<>>
      /\ IsFiniteSet(task[p].known)
  BY <1>1, PlaceFields
<1>3. CASE Abort(p)
  BY <1>3, FinishEntire DEF Abort
<1>4. CASE start # NoSlot /\ Write(p, r, row, ideal)
  <2>1. start \in Nat
    BY <1>1, <1>2, <1>4, ChosenHasRoom
  <2>2. /\ \A x \in Written(p) : x # r =>
             ~ Plan!Overlap(Plan!Lasting(start, Duration[r]), Interval(task[p].pending, x))
    BY <1>1, <1>4, ChosenApart
  <2> HIDE DEF start
  <2>3. row \in Row /\ row.status # "ABSENT" /\ row.start = start
    BY <2>1, NoTaskType DEF Row, NoRow, Machine!Statuses
  <2>4. Goto(p, step, t)
    BY <1>4 DEF Write
  <2>5. t.op = task[p].op /\ t.members = task[p].members /\ t.todo = todo
    BY <1>1 DEF TaskFields, Task
  <2>6. Elements(task[p].todo) = {r} \cup Elements(todo)
    BY <1>2, HeadAndTail
  <2> HIDE DEF r, todo, row, step, ideal, t
  <2>7. /\ task'[p].pending = [task[p].pending EXCEPT ![r] = row]
        /\ Written(p)' = Written(p) \cup {r}
    BY <1>1, <1>2, <1>4, <2>3, WriteShows
  <2>8. /\ task'[p] = t /\ pc'[p] = step
        /\ \A q \in Procs \ {p} : task'[q] = task[q] /\ pc'[q] = pc[q]
    BY <1>1, <2>4, GotoAside
  <2>9. /\ task'[p].pending[r] = row
        /\ \A x \in Written(p) \ {r} : task'[p].pending[x] = task[p].pending[x]
    BY <1>1, <1>2, <2>7 DEF TaskFields, Written
  <2>10. ASSUME NEW x \in Written(p)', NEW y \in Written(p)', x # y
         PROVE  ~ Plan!Overlap(Interval(task'[p].pending, x), Interval(task'[p].pending, y))
    <3>1. Interval(task'[p].pending, r) = Plan!Lasting(start, Duration[r])
      BY <2>3, <2>9 DEF Interval
    <3>2. \A z \in Written(p) \ {r} :
            Interval(task'[p].pending, z) = Interval(task[p].pending, z)
      BY <2>9 DEF Interval
    <3>3. CASE x # r /\ y # r
      BY <1>1, <2>7, <2>10, <3>2, <3>3 DEF Entire
    <3>4. CASE x = r
      BY <2>2, <2>7, <2>10, <3>1, <3>2, <3>4
    <3>5. CASE y = r
      <4>1. ~ Plan!Overlap(Interval(task'[p].pending, y), Interval(task'[p].pending, x))
        BY <2>2, <2>7, <2>10, <3>1, <3>2, <3>5
      <4> QED
        BY <4>1 DEF Plan!Overlap
    <3> QED
      BY <3>3, <3>4, <3>5
  <2>11. task'[p].members = Elements(task'[p].todo) \cup Written(p)'
    BY <1>1, <2>5, <2>6, <2>7, <2>8 DEF Entire
  <2>12. pc'[p] \in {"lock", "place"} \/ task'[p].todo = <<>>
    BY <2>5, <2>8 DEF step
  <2>13. Entire(p)'
    BY <2>10, <2>11, <2>12 DEF Entire
  <2> QED
    BY <2>8, <2>13, EntireStep
<1> QED
  BY <1>3, <1>4 DEF PlaceSegment

\* Other operations write rows that no booking is about to.
LEMMA OtherWriteEntire ==
  ASSUME WholeBookings, AllowedWrites', NEW p \in Procs, Move(p) \/ BringBack(p)
  PROVE  WholeBookings'
<1>1. TypeOK /\ TaskFields(task[p]) /\ task[p].op # "book"
  BY AllowedFields DEF WholeBookings, Move, BringBack
<1>2. CASE Abort(p)
  BY <1>2, FinishEntire DEF Abort
<1>3. ASSUME NEW r, NEW row, NEW ideal, Write(p, r, row, ideal)
      PROVE  WholeBookings'
  <2> DEFINE t == [task[p] EXCEPT !.todo = Tail(task[p].todo), !.ideal = ideal,
                                  !.from = reservation[r].start, !.pending[r] = row]
             step == IF Tail(task[p].todo) = <<>> THEN "commit" ELSE "place"
  <2>1. Goto(p, step, t)
    BY <1>3 DEF Write
  <2>2. t.op # "book"
    BY <1>1 DEF TaskFields, Task
  <2> HIDE DEF t, step
  <2>3. /\ task'[p] = t
        /\ \A q \in Procs \ {p} : task'[q] = task[q] /\ pc'[q] = pc[q]
    BY <1>1, <2>1, GotoAside
  <2> QED
    BY <2>2, <2>3, IdleEntire, EntireStep
<1>4. CASE Move(p)
  BY <1>2, <1>3, <1>4 DEF Move
<1>5. CASE BringBack(p)
  BY <1>2, <1>3, <1>5 DEF BringBack
<1> QED
  BY <1>4, <1>5

LEMMA NextEntire ==
  ASSUME Daytime, WholeBookings, AllowedWrites', [Next]_vars
  PROVE  WholeBookings'
<1>1. ASSUME NEW p \in Procs, Work(p)
      PROVE  WholeBookings'
  <2>1. CASE Commit(p) \/ Conflict(p)
    BY <2>1, FinishEntire DEF Commit, Conflict, Abort
  <2> QED
    BY <1>1, <2>1, LockingEntire, PlaceSegmentEntire, OtherWriteEntire, DecideEntire
       DEF Work
<1>2. ASSUME UNCHANGED <<pc, task>>
      PROVE  WholeBookings'
  <2>1. task' = task /\ pc' = pc
    BY <1>2
  <2>2. \A q \in Procs : Entire(q) /\ Written(q)' = Written(q)
    BY <2>1 DEF WholeBookings, Written
  <2>3. \A q \in Procs : Entire(q)'
    BY <2>1, <2>2 DEF Entire
  <2> QED
    BY <2>3 DEF WholeBookings
<1>3. ASSUME NEW r \in Reservations, NEW to \in Elsewhere, Advance(r, to)
      PROVE  WholeBookings'
  BY <1>2, <1>3 DEF Advance
<1>4. CASE UNCHANGED vars
  BY <1>2, <1>4 DEF vars
<1> QED
  BY <1>1, <1>3, <1>4, RequestEntire DEF Next

\* Only the commit of a booking creates rows, and all of its rows.
LEMMA NextIsWhole ==
  ASSUME WholeBookings, [Next]_vars
  PROVE  WholeStep
<1> DEFINE created == {r \in Reservations : /\ reservation[r].status = "ABSENT"
                                            /\ reservation'[r].status # "ABSENT"}
<1>1. ASSUME created = {}
      PROVE  WholeStep
  BY <1>1 DEF WholeStep
<1>2. ASSUME NEW p \in Procs, Commit(p)
      PROVE  WholeStep
  <2>1. AllowedWrites /\ TypeOK /\ Allowed(p) /\ Entire(p) /\ pc[p] = "commit"
    BY <1>2, AllowedFields DEF WholeBookings, Commit
  <2>2. created \subseteq Written(p)
    BY <1>2 DEF Commit, View
  <2>3. CASE task[p].op # "book"
    <3>1. \A r \in Written(p) : reservation[r].status # "ABSENT"
      BY <1>2, <2>1, <2>3, CommitMoves DEF Reschedulable, Revivable, Machine!IsRevivable
    <3> QED
      BY <1>1, <2>2, <3>1
  <2>4. CASE task[p].op = "book"
    <3>1. \A r \in Written(p) : /\ reservation'[r] = task[p].pending[r]
                                /\ reservation[r].status = "ABSENT"
                                /\ r \in Reservations
                                /\ reservation'[r].status = "PENDIENTE_DEPOSITO"
      BY <1>2, <2>1, <2>4, CommitMoves DEF Reschedulable, Revivable, Machine!IsRevivable,
         Written
    <3>2. created = Written(p)
      BY <2>2, <3>1
    <3>3. task[p].members = Written(p)
      <4>1. Elements(<<>>) = {}
        BY DEF Elements
      <4>2. task[p].members = Elements(task[p].todo) \cup Written(p) /\ task[p].todo = <<>>
        BY <2>1, <2>4 DEF Entire
      <4> QED
        BY <4>1, <4>2
    <3>4. created \in {Elements(b) : b \in Bookings}
      BY <2>1, <2>4, <3>2, <3>3 DEF Allowed
    <3>5. ASSUME NEW r \in created, NEW s \in created, r # s
          PROVE  ~ Plan!Overlap(Interval(reservation', r), Interval(reservation', s))
      <4>1. ~ Plan!Overlap(Interval(task[p].pending, r), Interval(task[p].pending, s))
        BY <2>1, <2>4, <3>2, <3>5 DEF Entire
      <4> QED
        BY <3>1, <3>2, <4>1 DEF Interval
    <3> QED
      BY <3>4, <3>5 DEF WholeStep
  <2> QED
    BY <2>3, <2>4
<1>3. ASSUME NEW p \in Procs, Request(p) \/ Work(p), ~ Commit(p)
      PROVE  reservation' = reservation
  BY <1>3 DEF Request, Book, Reschedule, Revive, CreateException, DeleteException, UpdateBase,
     Begin, Work, TakeLock, TakeBaseLock, PlaceSegment, Move, BringBack, Decide, Conflict,
     Write, Abort, tables
<1>4. CASE reservation' = reservation
  BY <1>1, <1>4
<1>5. ASSUME NEW s \in Reservations, NEW to \in Elsewhere, Advance(s, to)
      PROVE  WholeStep
  <2>1. Machine!CanTransition(reservation[s].status, to)
    BY <1>5 DEF Advance
  <2>2. reservation[s].status # "ABSENT"
    BY <2>1 DEF Machine!CanTransition, Machine!Transitions, Machine!Statuses
  <2>3. \A r \in Reservations \ {s} : reservation'[r] = reservation[r]
    <3>1. reservation \in [Reservations -> Row]
      BY DEF WholeBookings, AllowedWrites, DaytimePlacements, Placements, Transactions, TypeOK
    <3> QED
      BY <1>5, <3>1 DEF Advance
  <2> QED
    BY <1>1, <2>2, <2>3
<1>6. CASE UNCHANGED vars
  BY <1>4, <1>6 DEF vars
<1> QED
  BY <1>2, <1>3, <1>4, <1>5, <1>6 DEF Next

\* The rows of a booking come into being in one step, and none crosses another, although
\* each went where there was room for it: next to the one before, or elsewhere that day.
THEOREM BookingsAreWhole ==
  OwnRows /\ Daytime /\ Spec /\ []RevivedInPlace => BookingIsWhole
<1>1. SUFFICES ASSUME OwnRows, Daytime
               PROVE  Spec /\ []RevivedInPlace => BookingIsWhole
  OBVIOUS
<1>2. Init => WholeBookings
  <2> SUFFICES ASSUME Init
               PROVE  WholeBookings
    OBVIOUS
  <2>1. \A p \in Procs : task[p].op # "book"
    BY BookingAssumption DEF Init, NoTask, Operations
  <2> QED
    BY <2>1, InitAllowed DEF WholeBookings, Entire
<1>3. WholeBookings /\ DaytimePlacements' /\ [Next]_vars => WholeBookings'
  BY <1>1, NextAllowed, NextEntire DEF WholeBookings
<1>4. Spec /\ []RevivedInPlace => []DaytimePlacements
  BY <1>1, WritesOnItsDay
<1>5. WholeBookings /\ [Next]_vars => [WholeStep]_vars
  BY NextIsWhole
<1> QED
  BY <1>2, <1>3, <1>4, <1>5, PTL DEF Spec, BookingIsWhole
=============================================================================
