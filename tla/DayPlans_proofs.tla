-------------------------- MODULE DayPlans_proofs --------------------------
(***************************************************************************)
(* The functions of OperatingHours and Placement on every day that         *)
(* MCDayPlans can make, whatever its length, its schedule, its exceptions, *)
(* the number of reservations and the capacity.                            *)
(***************************************************************************)
EXTENDS MCDayPlans, OperatingHours_proofs

---------------------------------------------------------------------------
(* The days that can be made                                               *)

Made ==
  /\ base \in BaseSchedules
  /\ exceptions \subseteq Exceptions
  /\ DOMAIN held \subseteq First \cup Second
  /\ held = [r \in DOMAIN held |-> held[r]]
  /\ \A r \in DOMAIN held : held[r] \in Intervals

LEMMA InitMade == Init => Made
<1> SUFFICES ASSUME Init PROVE Made
  OBVIOUS
<1>1. DOMAIN held = {} /\ held = [r \in DOMAIN held |-> held[r]]
  BY DEF Init
<1> QED
  BY <1>1 DEF Init, Made

LEMMA NextMade == Made /\ [Next]_vars => Made'
<1> SUFFICES ASSUME Made, [Next]_vars PROVE Made'
  OBVIOUS
<1>1. ASSUME NEW e \in Exceptions \ exceptions, CreateException(e)
      PROVE  Made'
  BY <1>1 DEF CreateException, Made
<1>2. ASSUME NEW c \in Categories, NEW r \in c, NEW i \in Intervals, Hold(c, r, i)
      PROVE  Made'
  <2>1. held' = [s \in DOMAIN held \cup {r} |-> IF s = r THEN i ELSE held[s]]
    BY <1>2 DEF Hold
  <2>2. r \in First \cup Second
    BY DEF Categories
  <2>3. /\ DOMAIN held' = {r} \cup DOMAIN held
        /\ \A s \in DOMAIN held' : held'[s] \in Intervals
    BY <2>1 DEF Made
  <2>4. held' = [s \in DOMAIN held' |-> held'[s]]
    BY <2>1
  <2> QED
    BY <1>2, <2>2, <2>3, <2>4 DEF Hold, Made
<1>3. ASSUME NEW r \in DOMAIN held, Release(r)
      PROVE  Made'
  <2>1. held' = [s \in DOMAIN held \ {r} |-> held[s]]
    BY <1>3 DEF Release
  <2>2. DOMAIN held' = DOMAIN held \ {r} /\ \A s \in DOMAIN held' : held'[s] = held[s]
    BY <2>1
  <2>3. held' = [s \in DOMAIN held' |-> held'[s]]
    BY <2>1
  <2> QED
    BY <1>3, <2>2, <2>3 DEF Release, Made
<1>4. CASE UNCHANGED vars
  BY <1>4 DEF vars, Made
<1> QED
  BY <1>1, <1>2, <1>3, <1>4 DEF Next

LEMMA DaysAreMade == Spec => []Made
BY InitMade, NextMade, PTL DEF Spec

\* Base ranges and exceptions are ranges of minutes of the day.
LEMMA RangesOfDay == Ranges \subseteq DayRange
<1>1. Marks \subseteq 0 .. MinutesPerDay
  BY DEF Marks
<1> QED
  BY <1>1 DEF Ranges, DayRange

---------------------------------------------------------------------------
(* Opening hours                                                           *)

\* The windows of a day are its open time, within the day.
LEMMA WindowsAreOpen ==
  ASSUME base \in BaseSchedules, NEW E, E \subseteq Exceptions, NEW category
  PROVE  LET windows == ResolveDayMinuteRanges(base, E, category)
         IN /\ windows \in Seq(MinuteRange) /\ Apart(windows)
            /\ Minutes(ToSet(windows)) =
                 Minutes(base \cup RangesOf(E, "OPEN", category))
                   \ Minutes(RangesOf(E, "BLOCK", category))
            /\ \A i \in DOMAIN windows :
                 /\ windows[i].from \in 0 .. MinutesPerDay
                 /\ windows[i].to \in 0 .. MinutesPerDay
<1> DEFINE windows == ResolveDayMinuteRanges(base, E, category)
           open == base \cup RangesOf(E, "OPEN", category)
<1>1. base \subseteq DayRange
  BY RangesOfDay DEF BaseSchedules
<1>2. \A e \in E : e.range \in DayRange
  BY RangesOfDay DEF Exceptions
<1>3. /\ Subtracted(open, RangesOf(E, "BLOCK", category), windows)
      /\ \A i \in DOMAIN windows : windows[i] \in DayRange
  BY <1>1, <1>2, ResolveIsExact
<1> HIDE DEF windows, open
<1>4. \A i \in DOMAIN windows : /\ windows[i].from \in 0 .. MinutesPerDay
                                /\ windows[i].to \in 0 .. MinutesPerDay
  BY <1>3 DEF DayRange
<1> QED
  BY <1>3, <1>4 DEF Subtracted, windows, open

LEMMA MadeWindows == Made => WindowsAreOpenTime
<1> SUFFICES ASSUME Made, NEW category \in Categories \cup {AnyCategory}
             PROVE  LET windows == ResolveDayMinuteRanges(base, exceptions, category)
                    IN /\ Minutes(ToSet(windows)) = Open(category)
                       /\ \A i \in DOMAIN windows : windows[i].from < windows[i].to
                       /\ \A i \in DOMAIN windows \ {1} : windows[i - 1].to < windows[i].from
  BY DEF WindowsAreOpenTime
<1> DEFINE windows == ResolveDayMinuteRanges(base, exceptions, category)
<1>1. /\ windows \in Seq(MinuteRange) /\ Apart(windows)
      /\ Minutes(ToSet(windows)) = Open(category)
  BY WindowsAreOpen DEF Made, Open
<1> HIDE DEF windows
<1>2. ASSUME NEW i \in DOMAIN windows \ {1}
      PROVE  windows[i - 1].to < windows[i].from
  <2>1. i - 1 \in DOMAIN windows /\ i - 1 < i
    BY <1>1
  <2> QED
    BY <1>1, <2>1 DEF Apart
<1> QED
  BY <1>1, <1>2 DEF Apart, windows

---------------------------------------------------------------------------
(* The deposit clock                                                       *)

\* The open instants of the day with exceptions E and of the next one.
OpenWith(E) ==
  (Minutes(base \cup RangesOf(E, "OPEN", AnyCategory))
     \ Minutes(RangesOf(E, "BLOCK", AnyCategory)))
    \cup {MinutesPerDay + m : m \in Minutes(base)}

\* Windows apart of one day, as instants.
LEMMA InstantsInTime ==
  ASSUME NEW ranges \in Seq(MinuteRange), Apart(ranges), NEW day \in Nat
  PROVE  /\ Instants(ranges, day) \in Seq(TimeWindow)
         /\ Len(Instants(ranges, day)) = Len(ranges)
         /\ \A i \in DOMAIN ranges :
              /\ Instants(ranges, day)[i].start = day * MinutesPerDay + ranges[i].from
              /\ Instants(ranges, day)[i].end = day * MinutesPerDay + ranges[i].to
         /\ InTime(Instants(ranges, day))
<1> DEFINE w == Instants(ranges, day)
           shift == day * MinutesPerDay
<1>1. shift \in Nat
  BY DayAssumption
<1>2. /\ DOMAIN ranges = 1 .. Len(ranges) /\ Len(ranges) \in Nat
      /\ \A i \in DOMAIN ranges : ranges[i].from \in Nat /\ ranges[i].to \in Nat
  <2>1. \A i \in DOMAIN ranges : ranges[i] \in MinuteRange
    OBVIOUS
  <2> QED
    BY <2>1 DEF MinuteRange
<1> HIDE DEF shift
<1>3. w = [i \in DOMAIN ranges |-> [start |-> shift + ranges[i].from,
                                    end |-> shift + ranges[i].to]]
  BY DEF Instants, shift
<1>4. \A i \in DOMAIN ranges :
        /\ w[i] \in TimeWindow
        /\ w[i].start = shift + ranges[i].from /\ w[i].end = shift + ranges[i].to
  BY <1>1, <1>2, <1>3 DEF TimeWindow
<1>5. w \in Seq(TimeWindow) /\ Len(w) = Len(ranges) /\ DOMAIN w = DOMAIN ranges
  <2>1. w = [i \in 1 .. Len(ranges) |-> w[i]] /\ DOMAIN w = 1 .. Len(ranges)
    BY <1>2, <1>3
  <2> HIDE DEF w
  <2>2. w \in [1 .. Len(ranges) -> TimeWindow]
    BY <1>2, <1>4, <2>1
  <2> QED
    BY <1>2, <2>2
<1> HIDE DEF w
<1>6. InTime(w)
  <2>1. \A i \in DOMAIN w : w[i].start < w[i].end
    BY <1>1, <1>2, <1>4, <1>5 DEF Apart
  <2>2. ASSUME NEW i \in DOMAIN w, NEW j \in DOMAIN w, i < j
        PROVE  w[i].end <= w[j].start
    BY <1>1, <1>2, <1>4, <1>5, <2>2 DEF Apart
  <2> QED
    BY <2>1, <2>2 DEF InTime
<1> QED
  BY <1>4, <1>5, <1>6 DEF w, shift

\* The windows of a day, and those of the next.
LEMMA TwoDays ==
  ASSUME NEW a \in Seq(MinuteRange), Apart(a), \A i \in DOMAIN a : a[i].to <= MinutesPerDay,
         NEW b \in Seq(MinuteRange), Apart(b)
  PROVE  LET w == Instants(a, 0) \o Instants(b, 1)
         IN /\ w \in Seq(TimeWindow) /\ InTime(w)
            /\ OpenIn(w, Len(w)) =
                 Minutes(ToSet(a)) \cup {MinutesPerDay + m : m \in Minutes(ToSet(b))}
<1> DEFINE u == Instants(a, 0)
           v == Instants(b, 1)
           w == u \o v
           k == Len(a)
           l == Len(b)
<1>1. /\ k \in Nat /\ DOMAIN a = 1 .. k /\ l \in Nat /\ DOMAIN b = 1 .. l
      /\ \A i \in 1 .. k : a[i].from \in Nat /\ a[i].to \in Nat /\ a[i].to <= MinutesPerDay
      /\ \A i \in 1 .. l : b[i].from \in Nat /\ b[i].to \in Nat
      /\ MinutesPerDay \in Nat
  <2>1. \A i \in DOMAIN a : a[i] \in MinuteRange
    OBVIOUS
  <2>2. \A i \in DOMAIN b : b[i] \in MinuteRange
    OBVIOUS
  <2> QED
    BY <2>1, <2>2, DayAssumption DEF MinuteRange
<1>2. /\ u \in Seq(TimeWindow) /\ Len(u) = k /\ InTime(u)
      /\ \A i \in 1 .. k : u[i].start = a[i].from /\ u[i].end = a[i].to
  <2>1. 0 * MinutesPerDay = 0
    BY <1>1
  <2> HIDE DEF u
  <2>2. /\ u \in Seq(TimeWindow) /\ Len(u) = k /\ InTime(u)
        /\ \A i \in 1 .. k : /\ u[i].start = 0 * MinutesPerDay + a[i].from
                             /\ u[i].end = 0 * MinutesPerDay + a[i].to
    BY <1>1, InstantsInTime DEF u
  <2> QED
    BY <1>1, <2>1, <2>2
<1>3. /\ v \in Seq(TimeWindow) /\ Len(v) = l /\ InTime(v)
      /\ \A i \in 1 .. l : /\ v[i].start = MinutesPerDay + b[i].from
                           /\ v[i].end = MinutesPerDay + b[i].to
  <2>1. 1 * MinutesPerDay = MinutesPerDay
    BY <1>1
  <2> HIDE DEF v
  <2>2. /\ v \in Seq(TimeWindow) /\ Len(v) = l /\ InTime(v)
        /\ \A i \in 1 .. l : /\ v[i].start = 1 * MinutesPerDay + b[i].from
                             /\ v[i].end = 1 * MinutesPerDay + b[i].to
    BY <1>1, InstantsInTime DEF v
  <2> QED
    BY <1>1, <2>1, <2>2
<1> HIDE DEF u, v
<1>4. /\ w \in Seq(TimeWindow) /\ Len(w) = k + l /\ DOMAIN w = 1 .. k + l
      /\ \A i \in 1 .. k : w[i] = u[i]
      /\ \A i \in 1 .. l : w[k + i] = v[i]
  <2> HIDE DEF k, l
  <2>1. /\ w \in Seq(TimeWindow) /\ Len(w) = k + l
        /\ \A i \in 1 .. k + l : w[i] = IF i <= k THEN u[i] ELSE v[i - k]
    <3>1. u \in Seq(TimeWindow) /\ v \in Seq(TimeWindow) /\ Len(u) = k /\ Len(v) = l
      BY <1>2, <1>3
    <3>2. /\ u \o v \in Seq(TimeWindow) /\ Len(u \o v) = Len(u) + Len(v)
          /\ \A i \in 1 .. Len(u) + Len(v) :
               (u \o v)[i] = IF i <= Len(u) THEN u[i] ELSE v[i - Len(u)]
      BY <3>1, ConcatProperties
    <3> QED
      BY <3>1, <3>2
  <2> HIDE DEF w
  <2>2. \A i \in 1 .. k : i \in 1 .. k + l /\ i <= k
    BY <1>1
  <2>3. \A i \in 1 .. l : k + i \in 1 .. k + l /\ ~ k + i <= k /\ (k + i) - k = i
    BY <1>1
  <2>4. DOMAIN w = 1 .. k + l
    BY <1>1, <2>1
  <2> QED
    BY <2>1, <2>2, <2>3, <2>4
<1> HIDE DEF w, k, l
<1>5. \A i \in 1 .. k + l : i \in 1 .. k \/ (i - k \in 1 .. l /\ w[i] = v[i - k])
  <2> TAKE i \in 1 .. k + l
  <2>1. CASE i > k
    <3>1. i - k \in 1 .. l /\ k + (i - k) = i
      BY <1>1, <2>1
    <3> QED
      BY <1>4, <3>1
  <2> QED
    BY <1>1, <2>1
<1>6. InTime(w)
  <2>1. \A i \in 1 .. k + l : w[i].start < w[i].end
    <3>1. DOMAIN u = 1 .. k
      BY <1>1, <1>2
    <3>2. DOMAIN v = 1 .. l
      BY <1>1, <1>3
    <3>3. \A i \in 1 .. k : u[i].start < u[i].end
      BY <1>2, <3>1 DEF InTime
    <3>4. \A i \in 1 .. l : v[i].start < v[i].end
      BY <1>3, <3>2 DEF InTime
    <3> QED
      BY <1>4, <1>5, <3>3, <3>4
  <2>2. ASSUME NEW i \in 1 .. k + l, NEW j \in 1 .. k + l, i < j
        PROVE  w[i].end <= w[j].start
    <3>1. CASE j \in 1 .. k
      <4>1. i \in 1 .. k /\ w[i] = u[i] /\ w[j] = u[j]
        BY <1>1, <1>4, <2>2, <3>1
      <4>2. DOMAIN u = 1 .. k
        BY <1>1, <1>2
      <4> QED
        BY <1>2, <2>2, <3>1, <4>1, <4>2 DEF InTime
    <3>2. CASE i \in 1 .. k /\ j \notin 1 .. k
      <4>1. w[i].end = a[i].to /\ j - k \in 1 .. l
            /\ w[j].start = MinutesPerDay + b[j - k].from
        BY <1>2, <1>3, <1>4, <1>5, <3>2
      <4> QED
        BY <1>1, <3>2, <4>1
    <3>3. CASE i \notin 1 .. k
      <4>1. /\ i - k \in 1 .. l /\ w[i] = v[i - k]
            /\ j - k \in 1 .. l /\ w[j] = v[j - k] /\ i - k < j - k
        BY <1>1, <1>5, <2>2, <3>3
      <4>2. DOMAIN v = 1 .. l
        BY <1>1, <1>3
      <4> QED
        BY <1>3, <4>1, <4>2 DEF InTime
    <3> QED
      BY <3>1, <3>2, <3>3
  <2> QED
    BY <1>4, <2>1, <2>2 DEF InTime
<1>7. ASSUME NEW t
      PROVE  t \in OpenIn(w, k + l)
               <=> \/ t \in Minutes(ToSet(a))
                   \/ t \in {MinutesPerDay + m : m \in Minutes(ToSet(b))}
  <2>1. t \in Minutes(ToSet(a)) <=> \E i \in 1 .. k : t \in a[i].from .. a[i].to - 1
    BY <1>1 DEF Minutes, ToSet
  <2>2. \A m : m \in Minutes(ToSet(b)) <=> \E i \in 1 .. l : m \in b[i].from .. b[i].to - 1
    BY <1>1 DEF Minutes, ToSet
  <2>3. t \in {MinutesPerDay + m : m \in Minutes(ToSet(b))}
          <=> \E i \in 1 .. l :
                t \in MinutesPerDay + b[i].from .. MinutesPerDay + b[i].to - 1
    <3>1. ASSUME NEW i \in 1 .. l,
                 t \in MinutesPerDay + b[i].from .. MinutesPerDay + b[i].to - 1
          PROVE  t \in {MinutesPerDay + m : m \in Minutes(ToSet(b))}
      <4>1. t - MinutesPerDay \in b[i].from .. b[i].to - 1 /\ t = MinutesPerDay + (t - MinutesPerDay)
        BY <1>1, <3>1
      <4> QED
        BY <2>2, <4>1
    <3>2. ASSUME NEW m \in Minutes(ToSet(b)), t = MinutesPerDay + m
          PROVE  \E i \in 1 .. l :
                   t \in MinutesPerDay + b[i].from .. MinutesPerDay + b[i].to - 1
      <4>1. PICK i \in 1 .. l : m \in b[i].from .. b[i].to - 1
        BY <2>2
      <4>2. t \in MinutesPerDay + b[i].from .. MinutesPerDay + b[i].to - 1
        BY <1>1, <3>2, <4>1
      <4> QED
        BY <4>2
    <3> QED
      BY <3>1, <3>2
  <2>4. t \in OpenIn(w, k + l)
          <=> \E i \in 1 .. k + l : t \in w[i].start .. w[i].end - 1
    BY DEF OpenIn
  <2>5. (\E i \in 1 .. k + l : t \in w[i].start .. w[i].end - 1)
          <=> \/ \E i \in 1 .. k : t \in u[i].start .. u[i].end - 1
              \/ \E i \in 1 .. l : t \in v[i].start .. v[i].end - 1
    <3>1. \A i \in 1 .. k : i \in 1 .. k + l
      BY <1>1
    <3>2. \A i \in 1 .. l : k + i \in 1 .. k + l
      BY <1>1
    <3> QED
      BY <1>4, <1>5, <3>1, <3>2
  <2>6. (\E i \in 1 .. k : t \in u[i].start .. u[i].end - 1)
          <=> \E i \in 1 .. k : t \in a[i].from .. a[i].to - 1
    BY <1>2
  <2>7. (\E i \in 1 .. l : t \in v[i].start .. v[i].end - 1)
          <=> \E i \in 1 .. l :
                t \in MinutesPerDay + b[i].from .. MinutesPerDay + b[i].to - 1
    <3>1. \A i \in 1 .. l :
            v[i].start .. v[i].end - 1
              = MinutesPerDay + b[i].from .. MinutesPerDay + b[i].to - 1
      <4> TAKE i \in 1 .. l
      <4>1. v[i].start = MinutesPerDay + b[i].from /\ v[i].end = MinutesPerDay + b[i].to
        BY <1>3
      <4>2. MinutesPerDay \in Nat /\ b[i].to \in Nat
        BY <1>1
      <4> QED
        BY <4>1, <4>2
    <3> QED
      BY <3>1
  <2> QED
    BY ONLY <2>1, <2>3, <2>4, <2>5, <2>6, <2>7, Zenon
<1>8. OpenIn(w, k + l) = Minutes(ToSet(a)) \cup {MinutesPerDay + m : m \in Minutes(ToSet(b))}
  BY <1>7
<1> QED
  BY <1>4, <1>6, <1>8 DEF w, u, v

\* computeDepositExpiry on those windows.
LEMMA DeadlinesAreExact ==
  ASSUME base \in BaseSchedules, NEW E, E \subseteq Exceptions, NEW c \in Clocks
  PROVE  /\ OpenWith(E) \subseteq Nat
         /\ Deadlines(E)[c] = DeadlineOf(OpenWith(E), c.from, c.operating, c.limit)
<1> DEFINE a == ResolveDayMinuteRanges(base, E, AnyCategory)
           b == MergeMinuteRanges(base)
           w == Instants(a, 0) \o Instants(b, 1)
<1>1. /\ a \in Seq(MinuteRange) /\ Apart(a)
      /\ Minutes(ToSet(a)) =
           Minutes(base \cup RangesOf(E, "OPEN", AnyCategory))
             \ Minutes(RangesOf(E, "BLOCK", AnyCategory))
      /\ \A i \in DOMAIN a : a[i].to \in 0 .. MinutesPerDay
  BY WindowsAreOpen
<1>2. b \in Seq(MinuteRange) /\ Apart(b) /\ Minutes(ToSet(b)) = Minutes(base)
  <2>1. base \subseteq MinuteRange /\ IsFiniteSet(base)
    BY RangesOfDay, DayRanges, FS_Subset DEF BaseSchedules
  <2> QED
    BY <2>1, MergeIsExact DEF Merged
<1> HIDE DEF a, b
<1>3. /\ w \in Seq(TimeWindow) /\ InTime(w)
      /\ OpenIn(w, Len(w)) = OpenWith(E)
  <2>1. \A i \in DOMAIN a : a[i].to <= MinutesPerDay
    BY <1>1, DayAssumption
  <2> QED
    BY <1>1, <1>2, <2>1, TwoDays DEF OpenWith
<1>4. OpenWith(E) \subseteq Nat
  <2> HIDE DEF w
  <2>1. \A i \in 1 .. Len(w) : w[i] \in TimeWindow
    BY <1>3
  <2>2. \A i \in 1 .. Len(w) : w[i].start \in Nat
    BY <2>1 DEF TimeWindow
  <2> QED
    BY <1>3, <2>2 DEF OpenIn
<1>5. c.from \in Nat /\ c.limit \in Nat /\ c.operating \in Nat \ {0}
  BY DEF Clocks
<1>6. Deadlines(E)[c] = ComputeDepositExpiry(c.from, c.operating, c.limit, w)
  BY DEF Deadlines, a, b
<1> HIDE DEF w
<1> QED
  BY <1>3, <1>4, <1>5, <1>6, ExpiryIsDeadline

LEMMA MadeClock == Made => ClockCountsOpenTime
<1> SUFFICES ASSUME Made, NEW c \in Clocks
             PROVE  LET spent(t) == Cardinality({m \in OpenInstants : c.from <= m /\ m < t})
                        reached == {t \in c.from .. c.limit : spent(t) >= c.operating}
                    IN Deadlines(exceptions)[c] =
                         IF c.from >= c.limit \/ reached = {} THEN c.limit
                         ELSE CHOOSE t \in reached : \A u \in reached : t <= u
  BY DEF ClockCountsOpenTime
<1>1. OpenInstants = OpenWith(exceptions)
  BY DEF OpenInstants, OpenWith, Open
<1>2. Deadlines(exceptions)[c] = DeadlineOf(OpenInstants, c.from, c.operating, c.limit)
  BY <1>1, DeadlinesAreExact DEF Made
<1> QED
  BY <1>2 DEF DeadlineOf, Reached, Counted

\* The windows of a day are its open time and the deposit clock counts that time, for every
\* length of the day, schedule and set of exceptions (operating-hours.ts, deposit-expiry.ts).
THEOREM OpenTimeHolds == Spec => []OpenTimeIsExact
<1>1. Made => OpenTimeIsExact
  BY MadeWindows, MadeClock DEF OpenTimeIsExact
<1> QED
  BY <1>1, DaysAreMade, PTL

BlockKeepsDeadlines ==
  (\E e \in exceptions' \ exceptions : e.type = "BLOCK") =>
    LET before == Deadlines(exceptions)
        after == Deadlines(exceptions')
    IN \A c \in Clocks : after[c] >= before[c]

LEMMA StepKeepsDeadlines ==
  ASSUME Made, [Next]_vars
  PROVE  BlockKeepsDeadlines
<1> SUFFICES ASSUME NEW e \in exceptions' \ exceptions, e.type = "BLOCK", NEW c \in Clocks
             PROVE  Deadlines(exceptions')[c] >= Deadlines(exceptions)[c]
  BY DEF BlockKeepsDeadlines
<1> DEFINE E == exceptions'
<1>1. E = exceptions \cup {e} /\ E \subseteq Exceptions
  <2>1. PICK x \in Exceptions \ exceptions : CreateException(x)
    BY DEF Next, Hold, Release, vars
  <2> QED
    BY <2>1 DEF CreateException, Made
<1>2. OpenWith(E) \subseteq OpenWith(exceptions)
  <2>1. RangesOf(E, "OPEN", AnyCategory) = RangesOf(exceptions, "OPEN", AnyCategory)
    BY <1>1 DEF RangesOf
  <2>2. RangesOf(exceptions, "BLOCK", AnyCategory) \subseteq RangesOf(E, "BLOCK", AnyCategory)
    BY <1>1 DEF RangesOf
  <2>3. Minutes(RangesOf(exceptions, "BLOCK", AnyCategory))
          \subseteq Minutes(RangesOf(E, "BLOCK", AnyCategory))
    BY <2>2 DEF Minutes
  <2> QED
    BY <2>1, <2>3 DEF OpenWith
<1> HIDE DEF E
<1>3. /\ OpenWith(exceptions) \subseteq Nat
      /\ Deadlines(exceptions)[c] = DeadlineOf(OpenWith(exceptions), c.from, c.operating, c.limit)
      /\ Deadlines(E)[c] = DeadlineOf(OpenWith(E), c.from, c.operating, c.limit)
  BY <1>1, DeadlinesAreExact DEF Made
<1>4. c.from \in Nat /\ c.limit \in Nat /\ c.operating \in Nat
  BY DEF Clocks
<1>5. Deadlines(E)[c] >= Deadlines(exceptions)[c]
  BY <1>2, <1>3, <1>4, DeadlineNeverHastens
<1> QED
  BY <1>5 DEF E

\* Closing time never brings the deadline of a deposit forward (deposit-deadline.service.ts).
THEOREM BlockHolds == Spec => BlockNeverHastens
<1>1. Made /\ [Next]_vars => [BlockKeepsDeadlines]_vars
  BY StepKeepsDeadlines
<1>2. Spec => [][BlockKeepsDeadlines]_vars
  BY <1>1, DaysAreMade, PTL DEF Spec
<1> QED
  BY <1>2 DEF BlockNeverHastens, BlockKeepsDeadlines

---------------------------------------------------------------------------
(* The load of a category                                                  *)

LEMMA GreatestNumber ==
  ASSUME NEW S, S \subseteq Nat, S # {}, NEW bound \in Nat, \A x \in S : x <= bound
  PROVE  \E m \in S : \A x \in S : x <= m
<1> DEFINE T == {bound - x : x \in S}
<1>1. T \subseteq Nat /\ T # {}
  <2>1. \A x \in S : x \in Nat /\ x <= bound
    OBVIOUS
  <2>2. \A x \in S : bound - x \in Nat
    BY <2>1
  <2> QED
    BY <2>2
<1>2. PICK n \in T : \A k \in T : n <= k
  <2> HIDE DEF T
  <2> QED
    BY <1>1, LeastNumber
<1>3. PICK m \in S : n = bound - m
  BY <1>2
<1>4. ASSUME NEW x \in S
      PROVE  x <= m
  <2>1. bound - m <= bound - x
    BY <1>2, <1>3
  <2>2. x \in Nat /\ m \in Nat
    OBVIOUS
  <2> QED
    BY <2>1, <2>2
<1> QED
  BY <1>4

Span == [start : Nat, end : Nat]

\* Whatever the instant, those active then are active where an interval starts.
LEMMA LoadAtStart ==
  ASSUME NEW D, NEW h \in [D -> Span], NEW w \in Span, NEW t \in w.start .. w.end - 1
  PROVE  \E point \in CriticalPoints(h, w) : ActiveAt(h, t) \subseteq ActiveAt(h, point)
<1> DEFINE Late == {r \in ActiveAt(h, t) : w.start <= h[r].start}
           Begun == {h[r].start : r \in Late}
<1>1. /\ DOMAIN h = D
      /\ \A r \in D : h[r].start \in Nat /\ h[r].end \in Nat
      /\ w.start \in Nat /\ w.end \in Nat /\ t \in Nat /\ w.start <= t /\ t < w.end
  <2>1. \A r \in D : h[r] \in Span
    OBVIOUS
  <2>2. w.start \in Nat /\ w.end \in Nat
    BY DEF Span
  <2> QED
    BY <2>1, <2>2 DEF Span
<1>2. CASE Late = {}
  <2>1. w.start \in CriticalPoints(h, w)
    BY DEF CriticalPoints
  <2>2. ActiveAt(h, t) \subseteq ActiveAt(h, w.start)
    BY <1>1, <1>2 DEF ActiveAt
  <2> QED
    BY <2>1, <2>2
<1>3. CASE Late # {}
  <2>1. Begun \subseteq Nat /\ Begun # {} /\ \A x \in Begun : x <= t
    BY <1>1, <1>3 DEF ActiveAt
  <2>2. PICK s \in Late : \A r \in Late : h[r].start <= h[s].start
    <3> HIDE DEF Late
    <3>1. PICK m \in Begun : \A x \in Begun : x <= m
      <4> HIDE DEF Begun
      <4> QED
        BY <1>1, <2>1, GreatestNumber
    <3> QED
      BY <3>1
  <2>3. h[s].start \in CriticalPoints(h, w)
    BY <1>1, <2>2 DEF CriticalPoints, ActiveAt
  <2>4. ActiveAt(h, t) \subseteq ActiveAt(h, h[s].start)
    BY <1>1, <2>2 DEF ActiveAt
  <2> QED
    BY <2>3, <2>4
<1> QED
  BY <1>2, <1>3

Load(h, t) == Cardinality(ActiveAt(h, t))

\* The greatest load of a window.
Peak(h, w, n) ==
  /\ n \in Nat
  /\ \E t \in w.start .. w.end - 1 : Load(h, t) = n
  /\ \A t \in w.start .. w.end - 1 : Load(h, t) <= n

LEMMA OnePeak ==
  ASSUME NEW h, NEW w, NEW m, NEW n, Peak(h, w, m), Peak(h, w, n)
  PROVE  m = n
<1>1. m \in Nat /\ n \in Nat /\ m <= n /\ n <= m
  BY DEF Peak
<1> QED
  BY <1>1

\* maxConcurrentInWindow returns it.
LEMMA MaxIsPeak ==
  ASSUME NEW D, IsFiniteSet(D), NEW h \in [D -> Span], NEW w \in Span, w.start < w.end
  PROVE  Peak(h, w, MaxConcurrentInWindow(h, w))
<1> DEFINE Loads == {Load(h, x) : x \in CriticalPoints(h, w)}
           n == MaxConcurrentInWindow(h, w)
<1>1. \A x : /\ IsFiniteSet(ActiveAt(h, x))
             /\ Load(h, x) \in Nat /\ Load(h, x) <= Cardinality(D)
  <2>1. \A x : ActiveAt(h, x) \in SUBSET D
    BY DEF ActiveAt
  <2> QED
    BY <2>1, FS_Subset, FS_CardinalityType DEF Load
<1>2. CriticalPoints(h, w) \subseteq w.start .. w.end - 1 /\ CriticalPoints(h, w) # {}
  <2>1. w.start \in Nat /\ w.end \in Nat
    BY DEF Span
  <2>2. \A r \in D : h[r] \in Span
    OBVIOUS
  <2>3. \A r \in D : h[r].start \in Nat
    BY <2>2 DEF Span
  <2> QED
    BY <2>1, <2>3 DEF CriticalPoints
<1>3. PICK m \in Loads : \A k \in Loads : k <= m
  <2>1. Loads \subseteq Nat /\ Loads # {} /\ \A k \in Loads : k <= Cardinality(D)
    BY <1>1, <1>2
  <2>2. Cardinality(D) \in Nat
    BY FS_CardinalityType
  <2> HIDE DEF Loads
  <2> QED
    BY <2>1, <2>2, GreatestNumber
<1>4. n \in Loads /\ \A k \in Loads : k <= n
  <2>1. n = CHOOSE k \in Loads : \A m_1 \in Loads : m_1 <= k
    BY DEF MaxConcurrentInWindow, Load
  <2> HIDE DEF n, Loads
  <2> QED
    BY <1>3, <2>1
<1>5. PICK point \in CriticalPoints(h, w) : n = Load(h, point)
  BY <1>4
<1> HIDE DEF n
<1>6. ASSUME NEW t \in w.start .. w.end - 1
      PROVE  Load(h, t) <= n
  <2>1. PICK x \in CriticalPoints(h, w) : ActiveAt(h, t) \subseteq ActiveAt(h, x)
    BY LoadAtStart
  <2>2. Load(h, t) <= Load(h, x)
    BY <1>1, <2>1, FS_Subset DEF Load
  <2>3. Load(h, x) <= n
    BY <1>4
  <2>4. Load(h, t) \in Nat /\ Load(h, x) \in Nat /\ n \in Nat
    BY <1>1, <1>5
  <2> QED
    BY <2>2, <2>3, <2>4
<1>7. n \in Nat /\ \E t \in w.start .. w.end - 1 : Load(h, t) = n
  BY <1>1, <1>2, <1>5
<1> QED
  BY <1>6, <1>7 DEF Peak, n

\* What is held in a category.
LEMMA HeldAreSpans ==
  ASSUME Made, NEW c \in Categories
  PROVE  /\ IsFiniteSet(c \cap DOMAIN held)
         /\ HeldIn(c) \in [c \cap DOMAIN held -> Span]
         /\ \A r \in c \cap DOMAIN held : HeldIn(c)[r] = held[r]
<1>1. IsFiniteSet(c)
  BY PlansAssumption DEF Categories
<1>2. IsFiniteSet(c \cap DOMAIN held)
  BY <1>1, FS_Subset
<1>3. ASSUME NEW r \in DOMAIN held
      PROVE  held[r] \in Span
  <2>1. PICK s \in Starts, d \in Durations : held[r] = Lasting(s, d)
    BY DEF Made, Intervals
  <2>2. s \in Nat /\ d \in Nat
    BY DayAssumption DEF Starts, Durations
  <2> QED
    BY <2>1, <2>2 DEF Lasting, Span
<1> QED
  BY <1>2, <1>3 DEF HeldIn

LEMMA LastingIsSpan ==
  ASSUME NEW s \in Nat, NEW d \in Durations
  PROVE  /\ Lasting(s, d) \in Span /\ Lasting(s, d).start = s /\ Lasting(s, d).end = s + d
         /\ d \in Nat /\ d >= 1 /\ s < s + d
<1>1. d \in Nat /\ d >= 1
  BY DEF Durations
<1> QED
  BY <1>1 DEF Lasting, Span

LEMMA StartsAreNatural == Starts \subseteq Nat
BY DayAssumption DEF Starts

LEMMA MadePeaks == Made => PeakIsExact
<1> SUFFICES ASSUME Made, NEW c \in Categories, NEW w \in Intervals
             PROVE  MaxConcurrentInWindow(HeldIn(c), w) =
                      Max({Cardinality(ActiveAt(HeldIn(c), t)) : t \in w.start .. w.end - 1})
  BY DEF PeakIsExact
<1> DEFINE h == HeldIn(c)
           Loads == {Cardinality(ActiveAt(h, t)) : t \in w.start .. w.end - 1}
           n == MaxConcurrentInWindow(h, w)
<1>1. PICK s \in Starts, d \in Durations : w = Lasting(s, d)
  BY DEF Intervals
<1>2. w \in Span /\ w.start < w.end
  BY <1>1, LastingIsSpan, StartsAreNatural
<1>3. Peak(h, w, n)
  <2> HIDE DEF h
  <2> QED
    BY <1>2, HeldAreSpans, MaxIsPeak DEF h
<1>4. n \in Nat /\ n \in Loads /\ \A m \in Loads : n >= m
  <2> HIDE DEF n, h
  <2>1. n \in Nat /\ n \in Loads /\ \A t \in w.start .. w.end - 1 : Cardinality(ActiveAt(h, t)) <= n
    BY <1>3 DEF Peak, Load
  <2> QED
    BY <2>1
<1> HIDE DEF n, Loads
<1>5. Max(Loads) \in Loads /\ \A m \in Loads : Max(Loads) >= m
  BY <1>4 DEF Max
<1>6. Loads \subseteq Int
  <2>1. \A t : Cardinality(ActiveAt(h, t)) \in Nat
    <3> HIDE DEF h
    <3>1. IsFiniteSet(c \cap DOMAIN held) /\ \A t : ActiveAt(h, t) \subseteq c \cap DOMAIN held
      BY HeldAreSpans DEF ActiveAt, h
    <3> QED
      BY <3>1, FS_Subset, FS_CardinalityType
  <2> QED
    BY <2>1 DEF Loads
<1>7. n = Max(Loads)
  <2>1. Max(Loads) >= n /\ n >= Max(Loads) /\ Max(Loads) \in Int /\ n \in Int
    BY <1>4, <1>5, <1>6
  <2> QED
    BY <2>1
<1> QED
  BY <1>7 DEF n, Loads

\* Where an interval starts is where the load is greatest (availability-calculator.ts).
THEOREM PeakHolds == Spec => []PeakIsExact
BY DaysAreMade, MadePeaks, PTL

---------------------------------------------------------------------------
(* What is offered and what is accepted                                    *)

\* Windows are of the day, in natural numbers.
LEMMA WindowsAreSpans ==
  ASSUME Made, NEW c \in Categories, NEW w \in Windows(c)
  PROVE  w.start \in Nat /\ w.end \in Nat
<1> DEFINE ranges == ResolveDayMinuteRanges(base, exceptions, c)
<1>1. PICK i \in DOMAIN ranges :
        w = [start |-> 0 * MinutesPerDay + ranges[i].from,
             end |-> 0 * MinutesPerDay + ranges[i].to]
  BY DEF Windows, OperatingWindows
<1>2. ranges[i].from \in Nat /\ ranges[i].to \in Nat
  <2>1. \A k \in DOMAIN ranges : /\ ranges[k].from \in 0 .. MinutesPerDay
                                 /\ ranges[k].to \in 0 .. MinutesPerDay
    BY WindowsAreOpen DEF Made
  <2> HIDE DEF ranges
  <2> QED
    BY <2>1, DayAssumption
<1> HIDE DEF ranges
<1>3. w.start = 0 * MinutesPerDay + ranges[i].from /\ w.end = 0 * MinutesPerDay + ranges[i].to
  BY <1>1
<1>4. 0 * MinutesPerDay = 0
  BY DayAssumption
<1> QED
  BY <1>2, <1>3, <1>4

\* A candidate lies in a window.
LEMMA CandidateFits ==
  ASSUME Made, NEW c \in Categories, NEW d \in Durations, NEW s \in Candidates(Windows(c), d)
  PROVE  s \in Nat /\ \E w \in Windows(c) : s >= w.start /\ s + d <= w.end
<1>1. PICK w \in Windows(c) : s \in w.start .. w.end - d
  BY DEF Candidates
<1>2. w.start \in Nat /\ w.end \in Nat /\ d \in Nat
  BY WindowsAreSpans DEF Durations
<1>3. s \in Nat /\ s >= w.start /\ s + d <= w.end
  BY <1>1, <1>2
<1> QED
  BY <1>3

\* The reservations that cross an interval are as many, at its peak, as all of them.
LEMMA OverlappingPeak ==
  ASSUME Made, NEW c \in Categories, NEW s \in Nat, NEW d \in Durations
  PROVE  MaxConcurrentInWindow(HeldOverlapping(c, Lasting(s, d)), Lasting(s, d))
           = MaxConcurrentInWindow(HeldIn(c), Lasting(s, d))
<1> DEFINE i == Lasting(s, d)
           all == HeldIn(c)
           some == HeldOverlapping(c, i)
           D == {r \in c \cap DOMAIN held : Overlap(held[r], i)}
<1>1. /\ i \in Span /\ i.start = s /\ i.end = s + d /\ d \in Nat /\ i.start < i.end
  BY LastingIsSpan
<1>2. /\ IsFiniteSet(c \cap DOMAIN held) /\ all \in [c \cap DOMAIN held -> Span]
      /\ \A r \in c \cap DOMAIN held : all[r] = held[r]
  BY HeldAreSpans
<1>3. some = [r \in D |-> held[r]]
  BY <1>2 DEF HeldOverlapping
<1> HIDE DEF i, all, some
<1>4. IsFiniteSet(D) /\ some \in [D -> Span] /\ \A r \in D : some[r] = held[r]
  <2>1. IsFiniteSet(D)
    BY <1>2, FS_Subset
  <2>2. \A r \in D : held[r] \in Span
    BY <1>2
  <2> HIDE DEF D
  <2> QED
    BY <1>3, <2>1, <2>2
<1>5. ASSUME NEW t \in i.start .. i.end - 1
      PROVE  ActiveAt(some, t) = ActiveAt(all, t)
  <2>1. t \in Nat /\ i.start <= t /\ t < i.end /\ i.start \in Nat /\ i.end \in Nat
    BY <1>1
  <2>2. \A r \in c \cap DOMAIN held : held[r].start \in Nat /\ held[r].end \in Nat
    <3>1. \A r \in c \cap DOMAIN held : held[r] \in Span
      BY <1>2
    <3> QED
      BY <3>1 DEF Span
  <2>3. ASSUME NEW r \in c \cap DOMAIN held, held[r].start <= t, t < held[r].end
        PROVE  r \in D
    BY <2>1, <2>2, <2>3 DEF Overlap
  <2>4. DOMAIN some = D /\ DOMAIN all = c \cap DOMAIN held
    BY <1>2, <1>4
  <2>5. \A r : r \in ActiveAt(some, t) <=> r \in D /\ held[r].start <= t /\ t < held[r].end
    BY <1>4, <2>4 DEF ActiveAt
  <2>6. \A r : r \in ActiveAt(all, t)
                 <=> r \in c \cap DOMAIN held /\ held[r].start <= t /\ t < held[r].end
    BY <1>2, <2>4 DEF ActiveAt
  <2> QED
    BY <2>3, <2>5, <2>6
<1>6. Peak(some, i, MaxConcurrentInWindow(some, i))
  <2> HIDE DEF D
  <2> QED
    BY <1>1, <1>4, MaxIsPeak
<1>7. Peak(all, i, MaxConcurrentInWindow(all, i))
  BY <1>1, <1>2, MaxIsPeak
<1>8. Peak(all, i, MaxConcurrentInWindow(some, i))
  BY <1>5, <1>6 DEF Peak, Load
<1>9. MaxConcurrentInWindow(some, i) = MaxConcurrentInWindow(all, i)
  BY <1>7, <1>8, OnePeak
<1> QED
  BY <1>9 DEF i, all, some

\* evaluatePlacement, of an appointment from now on.
LEMMA VerdictIs ==
  ASSUME Made, NEW c \in Categories, NEW s \in Nat, NEW d \in Durations, NEW known
  PROVE  Verdict(c, Lasting(s, d), known) =
           IF ~ \E w \in Windows(c) : s >= w.start /\ s + d <= w.end
             THEN "OUTSIDE_OPERATING_HOURS"
           ELSE IF OverlapsAny(Lasting(s, d), known) THEN "CLIENT_OVERLAP"
           ELSE IF MaxConcurrentInWindow(HeldIn(c), Lasting(s, d)) >= CapacityOf(c)
             THEN "NO_CAPACITY"
           ELSE "OK"
<1> DEFINE i == Lasting(s, d)
<1>1. i.start = s /\ i.end = s + d /\ d \in Nat /\ d >= 1
  BY LastingIsSpan
<1>2. ~ (i.end <= i.start) /\ ~ (i.start <= Past)
  BY <1>1 DEF Past
<1>3. MaxConcurrentInWindow(HeldOverlapping(c, i), i) = MaxConcurrentInWindow(HeldIn(c), i)
  BY OverlappingPeak
<1> HIDE DEF i
<1>4. Verdict(c, i, known) =
        EvaluatePlacement(i, Past, Windows(c), HeldOverlapping(c, i), CapacityOf(c), known, FALSE)
  BY DEF Verdict
<1>5. Verdict(c, i, known) =
        IF ~ \E w \in Windows(c) : i.start >= w.start /\ i.end <= w.end
          THEN "OUTSIDE_OPERATING_HOURS"
        ELSE IF OverlapsAny(i, known) THEN "CLIENT_OVERLAP"
        ELSE IF MaxConcurrentInWindow(HeldIn(c), i) >= CapacityOf(c) THEN "NO_CAPACITY"
        ELSE "OK"
  BY <1>2, <1>3, <1>4 DEF EvaluatePlacement
<1> QED
  BY <1>1, <1>5 DEF i

\* The load is a number, and so is the capacity.
LEMMA LoadIsNumber ==
  ASSUME Made, NEW c \in Categories, NEW s \in Nat, NEW d \in Durations
  PROVE  /\ MaxConcurrentInWindow(HeldIn(c), Lasting(s, d)) \in Nat
         /\ CapacityOf(c) \in Nat
<1>1. Lasting(s, d) \in Span /\ Lasting(s, d).start < Lasting(s, d).end
  BY LastingIsSpan
<1>2. IsFiniteSet(c \cap DOMAIN held) /\ HeldIn(c) \in [c \cap DOMAIN held -> Span]
  BY HeldAreSpans
<1>3. Peak(HeldIn(c), Lasting(s, d), MaxConcurrentInWindow(HeldIn(c), Lasting(s, d)))
  BY <1>1, <1>2, MaxIsPeak
<1> QED
  BY <1>3, PlansAssumption DEF Peak, CapacityOf

\* A candidate is accepted when it is offered and crosses nothing of the client's.
LEMMA AcceptedCandidates ==
  ASSUME Made, NEW c \in Categories, NEW d \in Durations, NEW known,
         NEW s \in Candidates(Windows(c), d)
  PROVE  Verdict(c, Lasting(s, d), known) = "OK"
           <=> s \in Slots(c, d) /\ ~ OverlapsAny(Lasting(s, d), known)
<1>1. s \in Nat /\ \E w \in Windows(c) : s >= w.start /\ s + d <= w.end
  BY CandidateFits
<1>2. Verdict(c, Lasting(s, d), known) = "OK"
        <=> /\ ~ OverlapsAny(Lasting(s, d), known)
            /\ ~ MaxConcurrentInWindow(HeldIn(c), Lasting(s, d)) >= CapacityOf(c)
  BY <1>1, VerdictIs
<1>3. s \in Slots(c, d)
        <=> MaxConcurrentInWindow(HeldIn(c), Lasting(s, d)) < CapacityOf(c)
  BY DEF Slots, AvailableSlots
<1>4. /\ MaxConcurrentInWindow(HeldIn(c), Lasting(s, d)) \in Nat
      /\ CapacityOf(c) \in Nat
  BY <1>1, LoadIsNumber
<1> QED
  BY <1>2, <1>3, <1>4

LEMMA SlotsAreCandidates ==
  ASSUME Made, NEW c \in Categories, NEW d \in Durations
  PROVE  /\ Slots(c, d) \subseteq Candidates(Windows(c), d)
         /\ Slots(c, d) \subseteq Nat
BY CandidateFits DEF Slots, AvailableSlots

LEMMA MadeOffers == Made => OfferedSlotsAreAccepted
<1> SUFFICES ASSUME Made, NEW c \in Categories, NEW d \in Durations
             PROVE  Slots(c, d) = {s \in Candidates(Windows(c), d) :
                                     Verdict(c, Lasting(s, d), {}) = "OK"}
  BY DEF OfferedSlotsAreAccepted
<1>1. \A s \in Candidates(Windows(c), d) :
        Verdict(c, Lasting(s, d), {}) = "OK" <=> s \in Slots(c, d)
  BY AcceptedCandidates DEF OverlapsAny
<1> QED
  BY <1>1, SlotsAreCandidates

---------------------------------------------------------------------------
(* Combos and relocations                                                  *)

LEMMA MadeCombos == Made => CombosBookAsOffered
<1> SUFFICES ASSUME Made, NEW c \in Categories, NEW d \in Durations, NEW e \in Durations
             PROVE  LET other == CHOOSE k \in Categories : k # c
                        offered == ComboStarts(<<[duration |-> d, slots |-> Slots(c, d)],
                                                 [duration |-> e, slots |-> Slots(other, e)]>>,
                                               Past)
                    IN \A s \in offered :
                         /\ Verdict(c, Lasting(s, d), {}) = "OK"
                         /\ Adjusted(s + d, e, {Lasting(s, d)}) = s + d
                         /\ Verdict(other, Lasting(s + d, e), {Lasting(s, d)}) = "OK"
  BY DEF CombosBookAsOffered
<1> DEFINE other == CHOOSE k \in Categories : k # c
           segments == <<[duration |-> d, slots |-> Slots(c, d)],
                         [duration |-> e, slots |-> Slots(other, e)]>>
<1>1. other \in Categories
  <2>1. \E k \in Categories : k # c
    BY PlansAssumption DEF Categories
  <2> QED
    BY <2>1
<1> HIDE DEF other
<1> SUFFICES ASSUME NEW s \in ComboStarts(segments, Past)
             PROVE  /\ Verdict(c, Lasting(s, d), {}) = "OK"
                    /\ Adjusted(s + d, e, {Lasting(s, d)}) = s + d
                    /\ Verdict(other, Lasting(s + d, e), {Lasting(s, d)}) = "OK"
  BY DEF other
<1>2. s \in Slots(c, d) /\ s + d \in Slots(other, e)
  <2> DEFINE F == [k \in 1 .. 2 |-> IF k = 1 THEN 0 ELSE d]
             G(f) == f = [k \in 1 .. 2 |-> IF k = 1 THEN 0 ELSE f[k - 1] + segments[k - 1].duration]
             offset == CHOOSE f : G(f)
  <2>1. d \in Nat /\ Len(segments) = 2
    BY DEF Durations
  <2>2. segments[1].duration = d
    OBVIOUS
  <2>3. segments[1].slots = Slots(c, d) /\ segments[2].slots = Slots(other, e)
    OBVIOUS
  <2> HIDE DEF segments
  <2>4. G(F)
    BY <2>1, <2>2
  <2> HIDE DEF F
  <2>5. offset = [k \in 1 .. 2 |-> IF k = 1 THEN 0 ELSE offset[k - 1] + segments[k - 1].duration]
    BY <2>4
  <2>6. s \in segments[1].slots /\ \A k \in 2 .. 2 : s + offset[k] \in segments[k].slots
    BY <2>1 DEF ComboStarts
  <2> HIDE DEF offset
  <2>7. offset[1] = 0 /\ offset[2] = offset[1] + d
    BY <2>2, <2>5
  <2> QED
    BY <2>1, <2>3, <2>6, <2>7
<1>3. s \in Nat /\ d \in Nat /\ d >= 1 /\ e \in Nat /\ e >= 1
  BY <1>2, SlotsAreCandidates DEF Durations
<1>4. ~ Overlap(Lasting(s + d, e), Lasting(s, d))
  BY <1>3 DEF Overlap, Lasting
<1>5. Verdict(c, Lasting(s, d), {}) = "OK"
  BY <1>2, SlotsAreCandidates, AcceptedCandidates DEF OverlapsAny
<1>6. Adjusted(s + d, e, {Lasting(s, d)}) = s + d
  BY <1>4 DEF Adjusted
<1>7. Verdict(other, Lasting(s + d, e), {Lasting(s, d)}) = "OK"
  BY <1>1, <1>2, <1>4, SlotsAreCandidates, AcceptedCandidates DEF OverlapsAny
<1> QED
  BY <1>5, <1>6, <1>7

\* The calendar offers what is accepted, and combos that are booked as they are shown
\* (availability-calculator.ts, combo-availability.ts).
THEOREM OffersHold == Spec => []OffersAreBooked
<1>1. Made => OffersAreBooked
  BY MadeOffers, MadeCombos DEF OffersAreBooked
<1> QED
  BY <1>1, DaysAreMade, PTL

\* The nearest slot is one of them.
LEMMA NearestIsSlot ==
  ASSUME NEW slots, slots \subseteq Nat, slots # {}, NEW ideal \in Nat
  PROVE  NearestSlot(slots, ideal) \in slots
<1> DEFINE D(s) == Distance(s, ideal)
           Distances == {D(s) : s \in slots}
<1>1. \A s \in slots : D(s) \in Nat
  BY DEF Distance
<1>2. PICK n \in Distances : \A m \in Distances : n <= m
  <2> HIDE DEF D
  <2>1. Distances \subseteq Nat /\ Distances # {}
    BY <1>1
  <2> HIDE DEF Distances
  <2> QED
    BY <2>1, LeastNumber
<1> DEFINE Nearest == {s \in slots : D(s) = n}
<1>3. PICK s \in Nearest : \A x \in Nearest : s <= x
  <2>1. Nearest \subseteq Nat /\ Nearest # {}
    OBVIOUS
  <2> HIDE DEF Nearest
  <2> QED
    BY <2>1, LeastNumber
<1>4. \A x \in slots : D(s) < D(x) \/ (D(s) = D(x) /\ s <= x)
  <2> HIDE DEF D
  <2>1. ASSUME NEW x \in slots, ~ (D(s) < D(x))
        PROVE  D(s) = D(x) /\ s <= x
    <3>1. D(s) = n /\ n <= D(x) /\ D(x) \in Nat /\ D(s) \in Nat
      BY <1>1, <1>2
    <3>2. D(x) = n
      BY <2>1, <3>1
    <3> QED
      BY <1>3, <3>1, <3>2
  <2> QED
    BY <2>1
<1> QED
  BY <1>3, <1>4 DEF NearestSlot

LEMMA MadeRelocations == Made => RelocationIsAccepted
<1> SUFFICES ASSUME Made, NEW c \in Categories, NEW d \in Durations, NEW ideal \in Starts,
                    NEW known \in {{}} \cup {{Lasting(s, 2)} : s \in Starts}
             PROVE  LET slots == Slots(c, d)
                        from == Adjusted(ideal, d, known)
                        start == ResolvePlacement(from, Verdict(c, Lasting(from, d), known),
                                                  slots, ideal, d, known)
                    IN IF start = NoSlot
                         THEN \A s \in Candidates(Windows(c), d) :
                                Verdict(c, Lasting(s, d), known) # "OK"
                         ELSE Verdict(c, Lasting(start, d), known) = "OK"
  BY DEF RelocationIsAccepted
<1> DEFINE slots == Slots(c, d)
           from == Adjusted(ideal, d, known)
           verdict == Verdict(c, Lasting(from, d), known)
           apart == {s \in slots : ~ OverlapsAny(Lasting(s, d), known)}
           start == ResolvePlacement(from, verdict, slots, ideal, d, known)
           Right == IF start = NoSlot
                      THEN \A s \in Candidates(Windows(c), d) :
                             Verdict(c, Lasting(s, d), known) # "OK"
                      ELSE Verdict(c, Lasting(start, d), known) = "OK"
<1> SUFFICES Right
  OBVIOUS
<1>1. ideal \in Nat
  BY StartsAreNatural
<1>2. from \in Nat
  <2> DEFINE crossed == {j \in known : Overlap(Lasting(ideal, d), j)}
  <2>1. CASE crossed = {}
    BY <1>1, <2>1 DEF Adjusted
  <2>2. CASE crossed # {}
    <3>1. PICK x \in Starts : known = {Lasting(x, 2)}
      BY <2>2
    <3>2. crossed = {Lasting(x, 2)}
      BY <2>2, <3>1
    <3>3. x \in Nat /\ Lasting(x, 2).end = x + 2
      BY StartsAreNatural DEF Lasting
    <3>4. from = (CHOOSE j \in crossed : \A k \in crossed : k.end <= j.end).end
      BY <2>2 DEF Adjusted
    <3> HIDE DEF crossed
    <3>5. from = Lasting(x, 2).end
      <4>1. Lasting(x, 2).end <= Lasting(x, 2).end
        BY <3>3
      <4> QED
        BY <3>2, <3>4, <4>1
    <3> QED
      BY <3>3, <3>5
  <2> QED
    BY <2>1, <2>2
<1> HIDE DEF from
<1>3. verdict = "OK" \/ verdict \in Relocatable
  <2>1. verdict \in {"OUTSIDE_OPERATING_HOURS", "CLIENT_OVERLAP", "NO_CAPACITY", "OK"}
    BY <1>2, VerdictIs
  <2> QED
    BY <2>1 DEF Relocatable
<1>4. apart \subseteq Nat /\ \A s \in apart : Verdict(c, Lasting(s, d), known) = "OK"
  BY SlotsAreCandidates, AcceptedCandidates
<1>5. \A s \in Candidates(Windows(c), d) :
        Verdict(c, Lasting(s, d), known) = "OK" => s \in apart
  BY AcceptedCandidates
<1>6. start = IF verdict = "OK" THEN from
              ELSE IF apart = {} THEN NoSlot ELSE NearestSlot(apart, ideal)
  BY <1>3 DEF ResolvePlacement, Relocated
<1> HIDE DEF apart
<1>7. apart # {} => NearestSlot(apart, ideal) \in apart
  BY <1>1, <1>4, NearestIsSlot
<1>8. CASE verdict = "OK"
  <2>1. start = from /\ start # NoSlot
    BY <1>2, <1>6, <1>8, StepAssumption
  <2> QED
    BY <1>8, <2>1
<1>9. CASE verdict # "OK" /\ apart = {}
  <2>1. start = NoSlot
    BY <1>6, <1>9
  <2> HIDE DEF start
  <2> QED
    BY <1>5, <1>9, <2>1 DEF start
<1>10. CASE verdict # "OK" /\ apart # {}
  <2>1. start \in apart
    BY <1>6, <1>7, <1>10
  <2>2. start # NoSlot /\ Verdict(c, Lasting(start, d), known) = "OK"
    <3> HIDE DEF start
    <3> QED
      BY <1>4, <2>1, StepAssumption
  <2> QED
    BY <2>2
<1> QED
  BY <1>8, <1>9, <1>10 DEF from

\* A booking that is relocated goes where it is accepted, and is refused only when no
\* candidate of the day would do (create-reservation.orchestrator.ts).
THEOREM RelocationHolds == Spec => []RelocationIsAccepted
BY DaysAreMade, MadeRelocations, PTL

=============================================================================
