--------------------------- MODULE OperatingHours ---------------------------
(***************************************************************************)
(* The opening hours of one day: the weekly base, opened and blocked by    *)
(* schedule exceptions, resolved to the windows in which an appointment of *)
(* a category must fit.  Times are minutes of the day; a range [from, to)  *)
(* is a record.  Also the deposit clock, which runs only while the spa is  *)
(* open.                                                                   *)
(***************************************************************************)
EXTENDS Integers, SequencesExt

CONSTANTS
  MinutesPerDay,  \* length of a day
  AnyCategory     \* categoryId null: the exception closes or opens the spa

ASSUME DayAssumption == MinutesPerDay \in Nat \ {0}

Between(a, b) == [from |-> a, to |-> b]

WholeDay == Between(0, MinutesPerDay)

Minutes(ranges) == UNION {r.from .. r.to - 1 : r \in ranges}

---------------------------------------------------------------------------
(* mergeMinuteRanges and subtractMinuteRanges                              *)

Earlier(r, s) == r.from < s.from \/ (r.from = s.from /\ r.to < s.to)

Later(a, b) == IF a >= b THEN a ELSE b

\* Variant with a bug: ranges that touch stay apart.
AbsorbCrossing(merged, r) ==
  IF merged # <<>> /\ r.from < Last(merged).to
    THEN [merged EXCEPT ![Len(merged)].to = Later(@, r.to)]
    ELSE Append(merged, r)

\* A range that begins before the last one ends, or exactly there, joins it.
Absorb(merged, r) ==
  IF merged # <<>> /\ r.from <= Last(merged).to
    THEN [merged EXCEPT ![Len(merged)].to = Later(@, r.to)]
    ELSE Append(merged, r)

Latest(ranges) == CHOOSE r \in ranges : \A s \in ranges \ {r} : Earlier(s, r)

\* They are absorbed in the order in which they begin, the latest last.
MergeMinuteRanges(ranges) ==
  MapThenFoldSet(LAMBDA r, merged : Absorb(merged, r), <<>>,
                 LAMBDA r : r, Latest, {r \in ranges : r.to > r.from})

\* Variant with a bug: the pieces come out in the wrong order.
PiecesReversed(r, cut) ==
  IF cut.to <= r.from \/ cut.from >= r.to
    THEN <<r>>
    ELSE (IF cut.to < r.to THEN <<Between(cut.to, r.to)>> ELSE <<>>)
           \o (IF r.from < cut.from THEN <<Between(r.from, cut.from)>> ELSE <<>>)

\* What is left of r on each side of the cut.
Pieces(r, cut) ==
  IF cut.to <= r.from \/ cut.from >= r.to
    THEN <<r>>
    ELSE (IF r.from < cut.from THEN <<Between(r.from, cut.from)>> ELSE <<>>)
           \o (IF cut.to < r.to THEN <<Between(cut.to, r.to)>> ELSE <<>>)

CutOut(remaining, cut) ==
  FoldLeft(LAMBDA done, r : done \o Pieces(r, cut), <<>>, remaining)

SubtractMinuteRanges(ranges, cuts) ==
  FoldLeft(CutOut, MergeMinuteRanges(ranges), MergeMinuteRanges(cuts))

---------------------------------------------------------------------------
(* An exception: [type, category, range]                                   *)

ExceptionAppliesTo(e, category) == e.category \in {AnyCategory, category}

RangesOf(exceptions, type, category) ==
  {e.range : e \in {x \in exceptions : /\ x.type = type
                                       /\ ExceptionAppliesTo(x, category)}}

ResolveDayMinuteRanges(base, exceptions, category) ==
  SubtractMinuteRanges(base \cup RangesOf(exceptions, "OPEN", category),
                       RangesOf(exceptions, "BLOCK", category))

\* The windows of a day as instants.
OperatingWindows(day, base, exceptions, category) ==
  LET ranges == ResolveDayMinuteRanges(base, exceptions, category)
      instant(minute) == day * MinutesPerDay + minute
  IN {[start |-> instant(ranges[i].from), end |-> instant(ranges[i].to)] :
        i \in DOMAIN ranges}

FitsIn(interval, windows) ==
  \E w \in windows : interval.start >= w.start /\ interval.end <= w.end

---------------------------------------------------------------------------
(* computeDepositExpiry                                                    *)

\* Variant with a bug: time that runs out exactly at closing is not noticed.
SpendPastClosing(clock, window, from, limit) ==
  LET begin == Later(window.start, from)
      until == IF window.end <= limit THEN window.end ELSE limit
  IN IF clock.expired \/ until <= begin
       THEN clock
     ELSE IF until - begin > clock.remaining
       THEN [clock EXCEPT !.expired = TRUE, !.at = begin + clock.remaining]
       ELSE [clock EXCEPT !.remaining = @ - (until - begin)]

\* The windows of each day are spent in order until the time is used up.
Spend(clock, window, from, limit) ==
  LET begin == Later(window.start, from)
      until == IF window.end <= limit THEN window.end ELSE limit
  IN IF clock.expired \/ until <= begin
       THEN clock
     ELSE IF until - begin >= clock.remaining
       THEN [clock EXCEPT !.expired = TRUE, !.at = begin + clock.remaining]
       ELSE [clock EXCEPT !.remaining = @ - (until - begin)]

\* windows: those of every day from the start of the clock to the limit, in
\* order of time.
ComputeDepositExpiry(from, operating, limit, windows) ==
  IF from >= limit THEN limit
  ELSE FoldLeft(LAMBDA clock, w : Spend(clock, w, from, limit),
                [expired |-> FALSE, at |-> limit, remaining |-> operating],
                windows).at
=============================================================================
