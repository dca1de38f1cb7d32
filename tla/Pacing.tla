------------------------------- MODULE Pacing -------------------------------
(***************************************************************************)
(* The schedule of a campaign (campaigns/domain/pacing.ts): one time for   *)
(* each recipient, at random but inside the windows of the settings, under *)
(* the caps of the hour and the day, with a least gap and pauses between   *)
(* batches.  A state is one turn of the loops of planSchedule; what its    *)
(* random generator may return is a choice.  Times count instants from the *)
(* midnight before the start.                                              *)
(***************************************************************************)
EXTENDS Integers, Sequences, FiniteSets, FiniteSetsExt, SequencesExt

CONSTANTS
  Settings,     \* the sets of windows an administrator may choose
  Start,        \* when the plan starts: possible instants of the first day
  Sent,         \* how many messages may have been sent that day
  Count,        \* recipients
  Day, Hour,    \* in instants
  Hard,         \* HARD_START_MINUTE and HARD_END_MINUTE
  Shortest,     \* the shortest window that counts
  Default,      \* DEFAULT_SEND_WINDOWS
  Jitter,       \* WINDOW_START_JITTER_MINUTES
  Gaps,         \* gapSeconds
  Batches,      \* batchSize
  Pauses,       \* batchPauseMinutes
  HourlyCap,
  MaxPerDay

VARIABLES
  chosen,   \* what the plan is asked for: windows, start, sent
  cursor,
  batch,    \* inBatch and batchTarget
  times

pacingVars == <<chosen, cursor, batch, times>>

Window(from, to) == [from |-> from, to |-> to]

-----------------------------------------------------------------------------
(* Windows *)

\* Windows are cut to the hours allowed and those that are too short are dropped.
\* Variant with a bug: short windows are kept.
ClampedAll(windows) ==
  {Window(Max({Hard.from, w.from}), Min({Hard.to, w.to})) : w \in windows}

Clamped(windows) ==
  {w \in {Window(Max({Hard.from, v.from}), Min({Hard.to, v.to})) : v \in windows} :
     w.to - w.from >= Shortest}

\* Windows that touch become one.
Merge(merged, w) ==
  IF merged # <<>> /\ w.from <= Last(merged).to
    THEN [merged EXCEPT ![Len(merged)].to = Max({@, w.to})]
    ELSE Append(merged, w)

NormalizeWindows(windows) ==
  LET sorted == SetToSortSeq(Clamped(windows), LAMBDA v, w : v.from < w.from)
      merged == FoldLeft(Merge, <<>>, sorted)
  IN IF merged = <<>> THEN Default ELSE merged

Windows == NormalizeWindows(chosen.windows)

DayOf(t) == t \div Day
Inside(t, w) == w.from <= t % Day /\ t % Day < w.to

-----------------------------------------------------------------------------
(* The plan *)

Init ==
  /\ chosen \in [windows : Settings, start : Start, sent : Sent]
  /\ cursor = chosen.start
  /\ \E target \in Batches : batch = [sent |-> 0, target |-> target]
  /\ times = <<>>

Planning == Len(times) < Count
Aligned == \E i \in DOMAIN Windows : Inside(cursor, Windows[i])

\* sentPerDay.  Variant with a bug: what was sent before the plan does not count.
SentOnPlanned(day) == Cardinality({i \in DOMAIN times : DayOf(times[i]) = day})

SentOn(day) ==
  Cardinality({i \in DOMAIN times : DayOf(times[i]) = day})
    + (IF day = DayOf(chosen.start) THEN chosen.sent ELSE 0)

\* The times that are less than an hour before the cursor.
Recent == SelectSeq(times, LAMBDA t : cursor - t < Hour)

\* alignToWindow: to the next window of the day or the first of the next one, and a
\* little later than it opens.
AlignToWindow ==
  /\ Planning /\ ~ Aligned
  /\ LET later == {i \in DOMAIN Windows : Windows[i].from > cursor % Day}
         opening == IF later # {} THEN DayOf(cursor) * Day + Windows[Min(later)].from
                                  ELSE (DayOf(cursor) + 1) * Day + Windows[1].from
     IN \E j \in 0 .. Jitter - 1 : cursor' = opening + j
  /\ UNCHANGED <<chosen, batch, times>>

\* A full day is left for the next one.
SkipDay ==
  /\ Planning /\ Aligned
  /\ SentOn(DayOf(cursor)) >= MaxPerDay
  /\ cursor' = (DayOf(cursor) + 1) * Day
  /\ UNCHANGED <<chosen, batch, times>>

\* A full hour is waited for.
SkipHour ==
  /\ Planning /\ Aligned
  /\ SentOn(DayOf(cursor)) < MaxPerDay
  /\ Len(Recent) >= HourlyCap
  /\ cursor' = Head(Recent) + Hour + 1
  /\ UNCHANGED <<chosen, batch, times>>

\* A time is given, and the cursor moves on by a gap, or by a pause after a batch.
Push ==
  /\ Planning /\ Aligned
  /\ SentOn(DayOf(cursor)) < MaxPerDay
  /\ Len(Recent) < HourlyCap
  /\ times' = Append(times, cursor)
  /\ \/ /\ batch.sent + 1 >= batch.target
        /\ \E pause \in Pauses : cursor' = cursor + pause
        /\ \E target \in Batches : batch' = [sent |-> 0, target |-> target]
     \/ /\ batch.sent + 1 < batch.target
        /\ \E gap \in Gaps : cursor' = cursor + gap
        /\ batch' = [batch EXCEPT !.sent = @ + 1]
  /\ UNCHANGED chosen

Next == AlignToWindow \/ SkipDay \/ SkipHour \/ Push

Spec == Init /\ [][Next]_pacingVars

-----------------------------------------------------------------------------
(* Properties *)

TypeOK ==
  /\ chosen \in [windows : Settings, start : Start, sent : Sent]
  /\ cursor \in Nat
  /\ batch.sent \in 0 .. batch.target - 1 /\ batch.target \in Batches
  /\ times \in Seq(Nat) /\ Len(times) <= Count

\* Every message of a plan falls into a window the administrator chose, or into one of
\* the default ones when none of hers is long enough, and into the hours allowed.
InsideWindows ==
  LET enough == {w \in chosen.windows :
                   Min({w.to, Hard.to}) - Max({w.from, Hard.from}) >= Shortest}
  IN \A i \in DOMAIN times :
       /\ Inside(times[i], Hard)
       /\ \E w \in (IF enough = {} THEN ToSet(Default) ELSE enough) : Inside(times[i], w)

\* No hour of a plan has more messages than its pace allows, wherever it begins, no
\* day more than the settings allow with those already sent, and no two messages come
\* closer than the least gap.
WithinCaps ==
  \A i \in DOMAIN times :
    /\ Cardinality({k \in DOMAIN times :
                      times[i] <= times[k] /\ times[k] < times[i] + Hour}) <= HourlyCap
    /\ Cardinality({k \in DOMAIN times : DayOf(times[k]) = DayOf(times[i])})
         + (IF DayOf(times[i]) = DayOf(chosen.start) THEN chosen.sent ELSE 0) <= MaxPerDay
    /\ i > 1 => times[i] - times[i - 1] >= Min(Gaps)

\* Every recipient is given a time.
EverybodyPlanned == Len(times) = Count
=============================================================================
