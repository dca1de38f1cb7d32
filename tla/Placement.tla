----------------------------- MODULE Placement -----------------------------
(***************************************************************************)
(* Where an appointment may go: the pure functions that decide a placement *)
(* and the ones that offer free slots.  An interval is a record            *)
(* [start, end), open at its end.  What is held is a function from         *)
(* reservations to their intervals.                                        *)
(***************************************************************************)
EXTENDS Integers, Sequences, FiniteSets

CONSTANTS
  Step,    \* minutes between the candidates that are offered
  NoSlot   \* no start could be found

ASSUME StepAssumption == Step \in Nat \ {0} /\ NoSlot \notin Nat

Lasting(start, duration) == [start |-> start, end |-> start + duration]

Overlap(i, j) == i.start < j.end /\ j.start < i.end

OverlapsAny(i, intervals) == \E j \in intervals : Overlap(i, j)

ActiveAt(held, t) ==
  {r \in DOMAIN held : held[r].start <= t /\ t < held[r].end}

\* Variant with a bug: the end of the window counts as part of it.
CriticalPointsClosed(held, window) ==
  {window.start} \cup
  {held[r].start : r \in {s \in DOMAIN held :
                            /\ window.start <= held[s].start
                            /\ held[s].start <= window.end}}

\* The load can only rise where an interval starts.
CriticalPoints(held, window) ==
  {window.start} \cup
  {held[r].start : r \in {s \in DOMAIN held :
                            /\ window.start <= held[s].start
                            /\ held[s].start < window.end}}

MaxConcurrentInWindow(held, window) ==
  LET loads == {Cardinality(ActiveAt(held, t)) :
                  t \in CriticalPoints(held, window)}
  IN CHOOSE n \in loads : \A m \in loads : m <= n

---------------------------------------------------------------------------
(* evaluatePlacement: the first reason that applies                        *)

Relocatable == {"OUTSIDE_OPERATING_HOURS", "CLIENT_OVERLAP", "NO_CAPACITY"}

EvaluatePlacement(i, now, windows, held, capacity, own, sameCategoryDay) ==
  IF i.end <= i.start THEN "INVALID_RANGE"
  ELSE IF i.start <= now THEN "IN_THE_PAST"
  ELSE IF ~ \E w \in windows : i.start >= w.start /\ i.end <= w.end
    THEN "OUTSIDE_OPERATING_HOURS"
  ELSE IF sameCategoryDay THEN "CATEGORY_DAY_CONFLICT"
  ELSE IF OverlapsAny(i, own) THEN "CLIENT_OVERLAP"
  ELSE IF MaxConcurrentInWindow(held, i) >= capacity THEN "NO_CAPACITY"
  ELSE "OK"

---------------------------------------------------------------------------
(* What is offered                                                         *)

\* Every Step minutes from the opening of each window.
Candidates(windows, duration) ==
  UNION {{s \in w.start .. w.end - duration : (s - w.start) % Step = 0} :
           w \in windows}

\* Variant with a bug: a full slot is still offered.
AvailableSlotsFull(windows, held, duration, capacity) ==
  {s \in Candidates(windows, duration) :
     MaxConcurrentInWindow(held, Lasting(s, duration)) <= capacity}

AvailableSlots(windows, held, duration, capacity) ==
  {s \in Candidates(windows, duration) :
     MaxConcurrentInWindow(held, Lasting(s, duration)) < capacity}

Distance(s, t) == IF s >= t THEN s - t ELSE t - s

\* The first of the nearest: candidates are listed in order of time.
NearestSlot(slots, ideal) ==
  CHOOSE s \in slots :
    \A t \in slots : \/ Distance(s, ideal) < Distance(t, ideal)
                     \/ Distance(s, ideal) = Distance(t, ideal) /\ s <= t

\* Variant with a bug: a segment is set off by its own duration.
ComboStartsShifted(segments, earliest) ==
  LET Offset[k \in 1..Len(segments)] ==
        IF k = 1 THEN 0 ELSE Offset[k - 1] + segments[k].duration
  IN {s \in segments[1].slots :
        /\ s >= earliest
        /\ \A k \in 2..Len(segments) : s + Offset[k] \in segments[k].slots}

\* Starts from which every segment begins where the one before it ends.
\* segments: a sequence of [duration, slots].
ComboStarts(segments, earliest) ==
  LET Offset[k \in 1..Len(segments)] ==
        IF k = 1 THEN 0 ELSE Offset[k - 1] + segments[k - 1].duration
  IN {s \in segments[1].slots :
        /\ s >= earliest
        /\ \A k \in 2..Len(segments) : s + Offset[k] \in segments[k].slots}

---------------------------------------------------------------------------
(* resolvePlacement: where a segment of a new booking goes                 *)

\* Past the last of the client's appointments that the ideal time crosses.
Adjusted(ideal, duration, known) ==
  LET crossed == {j \in known : Overlap(Lasting(ideal, duration), j)}
  IN IF crossed = {} THEN ideal
     ELSE (CHOOSE j \in crossed : \A k \in crossed : k.end <= j.end).end

\* Variant with a bug: the client's own appointments are forgotten.
RelocatedAnywhere(slots, ideal, duration, known) ==
  IF slots = {} THEN NoSlot ELSE NearestSlot(slots, ideal)

\* The nearest offered start that crosses none of the client's appointments.
Relocated(slots, ideal, duration, known) ==
  LET apart == {s \in slots : ~ OverlapsAny(Lasting(s, duration), known)}
  IN IF apart = {} THEN NoSlot ELSE NearestSlot(apart, ideal)

ResolvePlacement(candidate, verdict, slots, ideal, duration, known) ==
  IF verdict = "OK" THEN candidate
  ELSE IF verdict \in Relocatable
    THEN Relocated(slots, ideal, duration, known)
    ELSE NoSlot
=============================================================================
