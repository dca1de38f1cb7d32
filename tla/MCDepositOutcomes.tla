------------------------- MODULE MCDepositOutcomes -------------------------
(***************************************************************************)
(* Instances of DepositLifecycle that one run explores side by side: a     *)
(* combo whose deadline passes while it is decided, the same combo with    *)
(* room for several proofs and decisions on each segment, and one          *)
(* reservation from its booking to its attendance.  Init chooses the       *)
(* instance.  What it checks follows from the theorems about               *)
(* DepositLifecycle, for any handlers, workers, deadlines and bounds.      *)
(***************************************************************************)
EXTENDS MCDepositLifecycle, TLAPS

CONSTANTS r1, r2

ASSUME TwoReservations == {r1, r2} \subseteq Reservations

VARIABLE scenario

Group == INSTANCE DepositLifecycle_proofs WITH
  Reservations <- {r1, r2}, ComboOf <- [r \in {r1, r2} |-> {r1, r2}],
  Offered <- GroupDecisions, Horizon <- 2, DayLength <- 4, MaxDeposits <- 1

\* A proof, the one that replaces it, and an approval that adds a payment.
Decided == INSTANCE DepositLifecycle_proofs WITH
  Reservations <- {r1, r2}, ComboOf <- [r \in {r1, r2} |-> {r1, r2}],
  Offered <- Decisions, Horizon <- 1, DayLength <- 4, MaxDeposits <- 3

Single == INSTANCE DepositLifecycle_proofs WITH
  Reservations <- {r1}, ComboOf <- [r \in {r1} |-> {r1}],
  Offered <- Attendance, Horizon <- 4, DayLength <- 2, MaxDeposits <- 1

outcomeVars == <<vars, scenario>>

OutcomesInit ==
  \/ scenario = "group" /\ Group!Init
  \/ scenario = "decided" /\ Decided!Init
  \/ scenario = "single" /\ Single!Init

OutcomesNext ==
  /\ \/ scenario = "group" /\ Group!Next
     \/ scenario = "decided" /\ Decided!Next
     \/ scenario = "single" /\ Single!Next
  /\ UNCHANGED scenario

OutcomesSpec == OutcomesInit /\ [][OutcomesNext]_outcomeVars

\* PaidWhenConfirmed, of the combo: whoever of the group paid, and whichever proofs,
\* approvals, rejections and cancellations of the day ran at once.
GroupPaidWhenConfirmed ==
  /\ scenario = "group" => Group!PaidWhenConfirmed
  /\ scenario = "decided" => Decided!PaidWhenConfirmed

\* GroupAllOrNothing, of the combo: no decision leaves a part of it waiting.
CombosWhole ==
  [][/\ scenario = "group" => Group!GroupStep
     /\ scenario = "decided" => Decided!GroupStep]_outcomeVars

\* Lifecycle, of one reservation from its assessment over reschedules and unpaid
\* approvals to check-in, completion or NO_SHOW: the table is followed.
AttendanceLifecycle ==
  [][scenario = "single" => Single!Machine!Next \/ UNCHANGED Single!Machine!vars]_outcomeVars

---------------------------------------------------------------------------
(* Proofs                                                                  *)

IsGroup == scenario = "group"
IsDecided == scenario = "decided"
IsSingle == scenario = "single"

\* The assumptions of DepositLifecycle, of each instance.
LEMMA GroupAssumptions ==
  Group!ProcsAssumption /\ Group!TimingAssumption /\ Group!ComboAssumption
<1>1. Group!ProcsAssumption
  BY TwoReservations, ProcsAssumption DEF Procs, Group!Procs
<1>2. Group!TimingAssumption
  BY TimingAssumption
<1>3. Group!ComboAssumption
  OBVIOUS
<1> QED
  BY <1>1, <1>2, <1>3

LEMMA DecidedAssumptions ==
  Decided!ProcsAssumption /\ Decided!TimingAssumption /\ Decided!ComboAssumption
<1>1. Decided!ProcsAssumption
  BY TwoReservations, ProcsAssumption DEF Procs, Decided!Procs
<1>2. Decided!TimingAssumption
  BY TimingAssumption
<1>3. Decided!ComboAssumption
  OBVIOUS
<1> QED
  BY <1>1, <1>2, <1>3

LEMMA SingleAssumptions ==
  Single!ProcsAssumption /\ Single!TimingAssumption /\ Single!ComboAssumption
<1>1. Single!ProcsAssumption
  BY TwoReservations, ProcsAssumption DEF Procs, Single!Procs
<1>2. Single!TimingAssumption
  BY TimingAssumption
<1>3. Single!ComboAssumption
  OBVIOUS
<1> QED
  BY <1>1, <1>2, <1>3

\* A behaviour that begins as the combo, or as the single reservation, stays that.
LEMMA GroupRuns ==
  /\ OutcomesInit /\ IsGroup => Group!Init
  /\ [OutcomesNext]_outcomeVars /\ IsGroup =>
       [Group!Next]_(Group!vars) /\ IsGroup'
  /\ [OutcomesNext]_outcomeVars /\ ~IsGroup => ~IsGroup'
BY DEF IsGroup, OutcomesInit, OutcomesNext, outcomeVars, Group!vars, vars

LEMMA DecidedRuns ==
  /\ OutcomesInit /\ IsDecided => Decided!Init
  /\ [OutcomesNext]_outcomeVars /\ IsDecided =>
       [Decided!Next]_(Decided!vars) /\ IsDecided'
  /\ [OutcomesNext]_outcomeVars /\ ~IsDecided => ~IsDecided'
BY DEF IsDecided, OutcomesInit, OutcomesNext, outcomeVars, Decided!vars, vars

LEMMA SingleRuns ==
  /\ OutcomesInit /\ IsSingle => Single!Init
  /\ [OutcomesNext]_outcomeVars /\ IsSingle =>
       [Single!Next]_(Single!vars) /\ IsSingle'
  /\ [OutcomesNext]_outcomeVars /\ ~IsSingle => ~IsSingle'
BY DEF IsSingle, OutcomesInit, OutcomesNext, outcomeVars, Single!vars, vars

\* Of a combo whose approvals name an amount, no segment is ever confirmed without a
\* payment of the group, whoever of the handlers and workers are interrupted (ConfirmedIsPaid).
THEOREM GroupIsPaid == OutcomesSpec => []GroupPaidWhenConfirmed
<1>1. "approveUnpaid" \notin GroupDecisions /\ "approveUnpaid" \notin Decisions
  BY DEF GroupDecisions, Decisions
<1>2. Group!Spec => []Group!PaidWhenConfirmed
  BY <1>1, GroupAssumptions, Group!ConfirmedIsPaid, PTL
<1>3. Decided!Spec => []Decided!PaidWhenConfirmed
  BY <1>1, DecidedAssumptions, Decided!ConfirmedIsPaid, PTL
<1>4. (IsGroup => Group!PaidWhenConfirmed) /\ (IsDecided => Decided!PaidWhenConfirmed)
        => GroupPaidWhenConfirmed
  BY DEF GroupPaidWhenConfirmed, IsGroup, IsDecided
<1>5. OutcomesSpec => [](IsGroup => Group!PaidWhenConfirmed)
  BY <1>2, GroupRuns, PTL DEF OutcomesSpec, Group!Spec
<1>6. OutcomesSpec => [](IsDecided => Decided!PaidWhenConfirmed)
  BY <1>3, DecidedRuns, PTL DEF OutcomesSpec, Decided!Spec
<1> QED
  BY <1>4, <1>5, <1>6, PTL

\* An approval or a client's cancellation decides every segment of the combo that it
\* read, or none (GroupAllOrNothing).
THEOREM GroupIsWhole == OutcomesSpec => CombosWhole
<1>1. Group!Spec => [][Group!GroupStep]_(Group!vars)
  BY GroupAssumptions, Group!GroupAllOrNothing, PTL
<1>2. Decided!Spec => [][Decided!GroupStep]_(Decided!vars)
  BY DecidedAssumptions, Decided!GroupAllOrNothing, PTL
<1>3. [Group!GroupStep]_(Group!vars) /\ [OutcomesNext]_outcomeVars =>
        [IsGroup => Group!GroupStep]_outcomeVars
  BY DEF OutcomesNext, outcomeVars, Group!vars, vars
<1>4. [Decided!GroupStep]_(Decided!vars) /\ [OutcomesNext]_outcomeVars =>
        [IsDecided => Decided!GroupStep]_outcomeVars
  BY DEF OutcomesNext, outcomeVars, Decided!vars, vars
<1>5. /\ ~IsGroup => [IsGroup => Group!GroupStep]_outcomeVars
      /\ ~IsDecided => [IsDecided => Decided!GroupStep]_outcomeVars
  OBVIOUS
<1>6. [IsGroup => Group!GroupStep]_outcomeVars /\ [IsDecided => Decided!GroupStep]_outcomeVars
        => [/\ scenario = "group" => Group!GroupStep
            /\ scenario = "decided" => Decided!GroupStep]_outcomeVars
  BY DEF IsGroup, IsDecided
<1>7. OutcomesSpec => [][IsGroup => Group!GroupStep]_outcomeVars
  BY <1>1, <1>3, <1>5, GroupRuns, PTL DEF OutcomesSpec, Group!Spec
<1>8. OutcomesSpec => [][IsDecided => Decided!GroupStep]_outcomeVars
  BY <1>2, <1>4, <1>5, DecidedRuns, PTL DEF OutcomesSpec, Decided!Spec
<1> QED
  BY <1>6, <1>7, <1>8, PTL DEF CombosWhole

\* From its assessment to its attendance a reservation follows the state machine, over
\* reschedules and approvals without a payment (LifecycleHolds).
THEOREM AttendanceFollows == OutcomesSpec => AttendanceLifecycle
<1>1. Single!Spec => Single!Lifecycle
  BY SingleAssumptions, Single!LifecycleHolds, PTL
<1> QED
  BY <1>1, SingleRuns, PTL
  DEF IsSingle, OutcomesSpec, Single!Spec, AttendanceLifecycle, Single!Lifecycle,
    Single!Machine!Spec
=============================================================================
