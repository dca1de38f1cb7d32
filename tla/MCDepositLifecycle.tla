------------------------ MODULE MCDepositLifecycle ------------------------
(***************************************************************************)
(* Instances of DepositLifecycle for TLC: which reservations were booked   *)
(* together, and which operations each run exercises.                      *)
(***************************************************************************)
EXTENDS DepositLifecycle, TLC

\* Every reservation is booked on its own.
Singles == [r \in Reservations |-> {r}]

\* All of them are segments of one combo.
OneCombo == [r \in Reservations |-> Reservations]

\* The deadline against the client and the administrator.
ProofRaces ==
  {"create", "confirmValoracion", "submit", "approve", "reject", "adminCancel",
   "clientCancel", "blockSchedule", "revive", "timeouts", "sweeps"}

\* Several reservations of one day decided together, while their deadline passes.
GroupDecisions == {"create", "submit", "approve", "clientCancel", "timeouts"}

\* Proofs, decisions on them and cancellations that cross, while no deadline passes.
Decisions == {"create", "submit", "approve", "reject", "clientCancel"}

\* Everything that happens after the approval, and approvals for free.
Attendance ==
  {"create", "confirmValoracion", "reschedule", "approve", "approveUnpaid",
   "clientCancel", "checkIn", "complete", "timeouts", "sweeps"}

\* What has to end by itself.
Progress ==
  {"create", "submit", "approve", "reject", "reschedule", "checkIn", "complete",
   "timeouts", "sweeps"}

\* A worker that is late, and the approval that overtakes it.
TimeoutOvertaken == {"create", "approve", "timeouts"}

\* Handlers are interchangeable: no property and no choice tells them apart.
Handlers == Permutations(Requests)

=============================================================================
