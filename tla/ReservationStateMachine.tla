---------------------- MODULE ReservationStateMachine ----------------------
(***************************************************************************)
(* What the booking system promises about the status of a reservation,     *)
(* whatever handlers run and however they interleave: the transition table *)
(* of reservation-state-machine.ts, and the one exception the code makes   *)
(* on purpose, reviving a reservation that was cancelled by time.          *)
(*                                                                         *)
(* Several rows may change in one step, because one database transaction   *)
(* confirms, cancels or revives a whole group.                             *)
(***************************************************************************)
CONSTANT Reservations

VARIABLES status, source

vars == <<status, source>>

Statuses == {"SOLICITUD_INICIADA", "PENDIENTE_VALORACION",
             "PENDIENTE_DEPOSITO", "CONFIRMADA", "CITA_EN_CURSO",
             "COMPLETADA", "CANCELADA", "NO_SHOW", "REPROGRAMADA"}

\* Who cancelled; NINGUNA stands for the null column.
Sources == {"NINGUNA", "CLIENT", "ADMIN", "TIMEOUT"}

Transitions == [
  SOLICITUD_INICIADA |->
    {"PENDIENTE_VALORACION", "PENDIENTE_DEPOSITO", "CANCELADA"},
  PENDIENTE_VALORACION |->
    {"PENDIENTE_DEPOSITO", "CANCELADA", "REPROGRAMADA"},
  PENDIENTE_DEPOSITO |-> {"CONFIRMADA", "CANCELADA", "REPROGRAMADA"},
  CONFIRMADA |-> {"CITA_EN_CURSO", "CANCELADA", "REPROGRAMADA", "NO_SHOW"},
  CITA_EN_CURSO |-> {"COMPLETADA"},
  NO_SHOW |-> {"CITA_EN_CURSO"},
  COMPLETADA |-> {},
  CANCELADA |-> {},
  REPROGRAMADA |-> {} ]

CanTransition(from, to) == from \in Statuses /\ to \in Transitions[from]

IsRevivable(st, src) == st = "CANCELADA" /\ src = "TIMEOUT"

---------------------------------------------------------------------------
\* A row that does not exist yet has status ABSENT. Rows waiting for an
\* assessment survive from earlier versions of the service.
Init ==
  /\ status \in [Reservations -> {"ABSENT", "PENDIENTE_VALORACION"}]
  /\ source = [r \in Reservations |-> "NINGUNA"]

Kept(r) == status'[r] = status[r] /\ source'[r] = source[r]

Booked(r) ==
  /\ status[r] = "ABSENT"
  /\ status'[r] = "PENDIENTE_DEPOSITO"
  /\ source'[r] = "NINGUNA"

Advanced(r) ==
  /\ CanTransition(status[r], status'[r])
  /\ source'[r] # "NINGUNA" <=> status'[r] = "CANCELADA"

Revived(r) ==
  /\ IsRevivable(status[r], source[r])
  /\ status'[r] = "PENDIENTE_DEPOSITO"
  /\ source'[r] = "NINGUNA"

Next == \A r \in Reservations :
          Kept(r) \/ Booked(r) \/ Advanced(r) \/ Revived(r)

Spec == Init /\ [][Next]_vars
=============================================================================
