---------------------------- MODULE MCSlotRaces ----------------------------
(***************************************************************************)
(* Three instances of SlotHolding that one run explores side by side: in   *)
(* the first, two clients and a combo compete for a day whose morning is   *)
(* closed; in the second, a combo over two categories is booked and moved  *)
(* while closures are made and withdrawn; in the third, appointments move  *)
(* from one day to the next.  Init chooses the instance.                   *)
(* All of them have the rows, the handlers and the calendar of the         *)
(* configuration, so the properties of SlotHolding are stated of them all. *)
(***************************************************************************)
EXTENDS MCSlotHolding

VARIABLE scenario

Rivals == INSTANCE SlotHolding WITH
  Bookings <- RaceBookings, BaseSchedules <- OneSchedule, Closures <- Morning,
  Asked <- {1, 3}, Elsewhere <- {"CANCELADA"},
  Offered <- {"book", "revive", "createException"}

Closing == INSTANCE SlotHolding WITH
  Bookings <- OneCombo, BaseSchedules <- OneSchedule, Closures <- SpaAndCategory,
  Asked <- {1, 4}, Elsewhere <- {"CONFIRMADA", "CANCELADA", "NO_SHOW", "CITA_EN_CURSO"},
  Offered <- {"book", "reschedule", "createException", "deleteException"}

TwoDays == INSTANCE SlotHolding WITH
  Bookings <- SinglesOfTwoClients, BaseSchedules <- OneSchedule, Closures <- NoClosures,
  Asked <- {1, 7},
  Elsewhere <- {"CONFIRMADA", "CITA_EN_CURSO", "NO_SHOW"},
  Offered <- {"book", "reschedule"}

\* What the proofs assume of an instance: nothing it asks for reaches midnight, and its
\* requests have rows of their own.
ASSUME RacesAssumption ==
  /\ Rivals!Daytime /\ Closing!Daytime /\ TwoDays!Daytime
  /\ Rivals!OwnRows /\ Closing!OwnRows /\ TwoDays!OwnRows

raceVars == <<vars, scenario>>

RacesInit ==
  \/ scenario = "rivals" /\ Rivals!Init
  \/ scenario = "closing" /\ Closing!Init
  \/ scenario = "days" /\ TwoDays!Init

RacesNext ==
  /\ \/ scenario = "rivals" /\ Rivals!Next
     \/ scenario = "closing" /\ Closing!Next
     \/ scenario = "days" /\ TwoDays!Next
  /\ UNCHANGED scenario

RacesSpec == RacesInit /\ [][RacesNext]_raceVars
=============================================================================
