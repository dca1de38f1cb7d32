---------------------------- MODULE MCSlotHolding ----------------------------
(***************************************************************************)
(* Small instances of SlotHolding.  A day has six units of time; the spa   *)
(* opens from 1 to 5.  Category 1 and category 2 each take one appointment *)
(* at a time.                                                              *)
(***************************************************************************)
EXTENDS SlotHolding, TLC

CONSTANTS
  a1, a2,  \* a combo of client ana, category 1 and then 2
  b1,      \* ana again, category 1
  c1, c2   \* a combo of client bea, category 2 and then 1

Category ==
  (a1 :> 1) @@ (a2 :> 2) @@ (b1 :> 1) @@ (c1 :> 2) @@ (c2 :> 1)
CategoryOfRow == [r \in Reservations |-> Category[r]]

ClientOfRow ==
  [r \in Reservations |-> IF r \in {c1, c2} THEN "bea" ELSE "ana"]

DurationOfRow == [r \in Reservations |-> IF r = a1 THEN 2 ELSE 1]

CapacityOfCategory == (1 :> 1) @@ (2 :> 1)

Range(a, b) == [from |-> a, to |-> b]

\* Bookings
OneSingle == {<<b1>>}
OneCombo == {<<c1, c2>>}
RaceBookings == {<<a1, a2>>, <<b1>>, <<c2>>}
AllBookings == {<<a1, a2>>, <<b1>>, <<c2>>, <<c1, c2>>}
SinglesOfTwoClients == {<<b1>>, <<c2>>}
SinglesOfOneClient == {<<a2>>, <<b1>>}
CombosBothWays == {<<a1, a2>>, <<c1, c2>>}

\* Weekly schedules
OneSchedule == {{Range(1, 5)}}
TwoSchedules == {{Range(1, 5)}, {Range(3, 5)}}

\* Exceptions
NoClosures == {}
Block(category, a, b) ==
  [day |-> 0, type |-> "BLOCK", category |-> category, range |-> Range(a, b)]
Open(category, a, b) ==
  [day |-> 0, type |-> "OPEN", category |-> category, range |-> Range(a, b)]
Morning == {Block(AnyCategory, 1, 3)}
SpaAndCategory == {Block(AnyCategory, 1, 3), Open(1, 5, 6)}

Handlers == Permutations(Procs)
=============================================================================
