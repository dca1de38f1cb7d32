-------------------------- MODULE DepositLifecycle --------------------------
(***************************************************************************)
(* The life of the reservations of one client: booking, deposit proofs,    *)
(* approval and rejection, cancellation, the timeout and no-show workers,  *)
(* revival, rescheduling and attendance.                                   *)
(*                                                                         *)
(* Handlers run concurrently against PostgreSQL (READ COMMITTED). A        *)
(* handler is one step per database round trip whose result it uses later, *)
(* so anything may happen between what it read and what it writes. A       *)
(* handler whose only condition is the status its compare-and-set tests    *)
(* again takes effect atomically at that compare-and-set and is one        *)
(* action. The writes of a transaction become visible at its commit; until *)
(* then the rows it wrote or selected FOR UPDATE stay locked, and other    *)
(* writers of those rows wait.                                             *)
(***************************************************************************)
EXTENDS Integers, Sequences, FiniteSets

CONSTANTS
  Reservations,  \* rows of the reservations table, all of one client
  Requests,      \* HTTP request handlers
  Workers,       \* workers of the reservation-timeouts queue
  ComboOf,       \* the reservations booked together with each one
  None,          \* no process, no reservation, no deposit
  Offered,       \* the operations this instance exercises
  Window,        \* operating time a client has to send the proof
  Grace,         \* time after the start before a no-show is declared
  DayLength,     \* calendar day of an instant: instant \div DayLength
  Horizon,       \* bound: the last instant
  MaxBlocked,    \* bound: operating time that schedule blocks take away
  MaxDeposits,   \* bound: deposit records per reservation
  MaxCrashes     \* bound: processes that die halfway

Procs == Requests \cup Workers

ASSUME ProcsAssumption ==
  /\ None \notin Reservations \cup Procs /\ None \notin Reservations \X Nat
  /\ Requests \cap Workers = {}

ASSUME TimingAssumption ==
  /\ Window \in Nat /\ Grace \in Nat /\ DayLength \in Nat \ {0}
  /\ Horizon \in Nat /\ MaxBlocked \in Nat
  /\ MaxDeposits \in Nat /\ MaxCrashes \in Nat

ASSUME ComboAssumption ==
  /\ ComboOf \in [Reservations -> SUBSET Reservations]
  /\ \A r \in Reservations : r \in ComboOf[r]

VARIABLES
  now,           \* the clock
  blocked,       \* operating time taken away by schedule exceptions so far
  reservation,   \* the reservations table
  deposits,      \* statuses of the deposit records of each, oldest first
  jobs,          \* delayed jobs Redis holds for each reservation
  rowLock,       \* transaction holding the reservation's row lock
  proofLock,     \* transaction holding the lock on its PENDIENTE deposit
  pc,            \* next step of each process
  loc,           \* what each process has read so far
  crashes

vars == <<now, blocked, reservation, deposits, jobs, rowLock, proofLock, pc,
          loc, crashes>>

clockVars == <<now, blocked>>
lockVars == <<rowLock, proofLock>>
procVars == <<pc, loc>>

Machine == INSTANCE ReservationStateMachine WITH
  status <- [r \in Reservations |-> reservation[r].status],
  source <- [r \in Reservations |-> reservation[r].source]

---------------------------------------------------------------------------
(* Rows and local state                                                    *)

NoTime == -1
Times == Nat \cup {NoTime}

DepositStatuses == {"PENDIENTE", "CONFIRMADO", "RECHAZADO"}
Jobs == {"deposito-timeout", "no-show-check"}
DepositIds == (Reservations \X Nat) \cup {None}

Row == [status : Machine!Statuses \cup {"ABSENT"},
        source : Machine!Sources,
        start : Nat,                \* scheduledStart
        clock : Times,              \* depositClockStartedAt
        expires : Times,            \* depositExpiresAt
        credited : BOOLEAN,         \* a credit is applied to it or its combo
        coveredBy : DepositIds]     \* coveredByDepositId

Steps == {"idle", "submit", "record", "autoConfirm", "approveGroup",
          "approveTx", "approveResolve", "approveLatest", "approveProof",
          "rejectRead", "rejectMark", "rejectRestart", "clientCancel",
          "checkIn", "proofCheck", "timeoutFind", "timeoutLock",
          "timeoutCas", "noShowCas"}

\* Statuses of the rows a process has read, by reservation.
Readings == UNION {[S -> Machine!Statuses] : S \in SUBSET Reservations}

Local == [target : Reservations \cup {None},
          seen : Readings,
          deposit : Nat,            \* position of the deposit record read
          start : Nat,              \* scheduledStart read
          clock : Times,            \* deadline computed, not yet written
          expires : Times,
          flag : BOOLEAN]           \* automatic strategy / amount given

Blank == [target |-> None, seen |-> [r \in {} |-> "ABSENT"], deposit |-> 0,
          start |-> 0, clock |-> NoTime, expires |-> NoTime, flag |-> FALSE]

ClockTypes ==
  now \in 0..Horizon /\ blocked \in 0..MaxBlocked /\ crashes \in 0..MaxCrashes

TableTypes ==
  /\ reservation \in [Reservations -> Row]
  /\ deposits \in [Reservations -> Seq(DepositStatuses)]
  /\ jobs \in [Reservations -> SUBSET Jobs]

LockTypes ==
  /\ rowLock \in [Reservations -> Procs \cup {None}]
  /\ proofLock \in [Reservations -> Procs \cup {None}]

ProcTypes ==
  /\ pc \in [Procs -> Steps]
  /\ loc \in [Procs -> Local]
  /\ \A p \in Procs : pc[p] # "idle" => loc[p].target \in Reservations

TypeOK == ClockTypes /\ TableTypes /\ LockTypes /\ ProcTypes

Status(r) == reservation[r].status

Day(t) == t \div DayLength

HasSubmittedProof(r) ==
  \E i \in DOMAIN deposits[r] : deposits[r][i] = "PENDIENTE"

Latest(r) ==
  IF deposits[r] = <<>> THEN "NINGUNO" ELSE deposits[r][Len(deposits[r])]

\* computeDepositExpiry: Window of operating time after from, pushed back by
\* the time that is blocked, and never after the appointment starts.
Expiry(from, start, lost) ==
  IF from + Window + lost < start THEN from + Window + lost ELSE start

\* Adding a delayed job. Redis may fail or stay down: any part is lost. Where an
\* instance leaves the worker out that would take them, no job is kept.
Enqueue(S, job) ==
  \E Q \in IF "timeouts" \in Offered THEN SUBSET S ELSE {{}} :
    jobs' = [r \in Reservations |->
               IF r \in Q THEN jobs[r] \cup {job} ELSE jobs[r]]

Go(p, step, read) ==
  /\ pc' = [pc EXCEPT ![p] = step]
  /\ loc' = [loc EXCEPT ![p] = read]

Finish(p) == Go(p, "idle", Blank)

Idle(p, op) == pc[p] = "idle" /\ op \in Offered

Unlocked(S) == \A r \in S : rowLock[r] = None

\* The rows read by p still have the status p read.
Unmoved(p) == \A r \in DOMAIN loc[p].seen : Status(r) = loc[p].seen[r]

SetRows(S, new(_)) ==
  reservation' = [r \in Reservations |->
                    IF r \in S THEN new(r) ELSE reservation[r]]

WithStatus(r, st) == [reservation[r] EXCEPT !.status = st]

\* Variant with a bug: the sources of the outbox event, not of the column.
CancelledByEvent(r, src) ==
  [reservation[r] EXCEPT !.status = "CANCELADA", !.source = "BUSINESS"]

Cancelled(r, src) ==
  [reservation[r] EXCEPT !.status = "CANCELADA", !.source = src]

LockRows(p, S) ==
  rowLock' = [r \in Reservations |-> IF r \in S THEN p ELSE rowLock[r]]

\* Commit or rollback: p gives back every lock it holds.
ReleaseRows(p) ==
  rowLock' = [r \in Reservations |->
                IF rowLock[r] = p THEN None ELSE rowLock[r]]

ReleaseProofs(p) ==
  proofLock' = [r \in Reservations |->
                  IF proofLock[r] = p THEN None ELSE proofLock[r]]

\* Bound: the deposit records there are, and those still on their way.
Room(r) ==
  Len(deposits[r])
    + Cardinality({p \in Procs : /\ pc[p] \in {"submit", "record",
                                     "approveGroup", "approveTx",
                                     "approveResolve"}
                                 /\ loc[p].target = r}) < MaxDeposits

---------------------------------------------------------------------------
Absent == [status |-> "ABSENT", source |-> "NINGUNA", start |-> 0,
           clock |-> NoTime, expires |-> NoTime, credited |-> FALSE,
           coveredBy |-> None]

\* A row left by an earlier version, still waiting for its assessment.
Legacy(start) == [Absent EXCEPT !.status = "PENDIENTE_VALORACION",
                                !.start = start]

Init ==
  /\ now = 0
  /\ blocked = 0
  /\ reservation \in [Reservations -> {Absent} \cup
                        IF "confirmValoracion" \in Offered
                        THEN {Legacy(Horizon)} ELSE {}]
  /\ deposits = [r \in Reservations |-> <<>>]
  /\ jobs = [r \in Reservations |-> {}]
  /\ rowLock = [r \in Reservations |-> None]
  /\ proofLock = [r \in Reservations |-> None]
  /\ pc = [p \in Procs |-> "idle"]
  /\ loc = [p \in Procs |-> Blank]
  /\ crashes = 0

---------------------------------------------------------------------------
(* Booking and rescheduling                                                *)

\* The reservations of a combo are created in one transaction; without a
\* credit they share one deadline, computed from the first segment.
Create(r) ==
  /\ "create" \in Offered
  /\ \A x \in ComboOf[r] : Status(x) = "ABSENT"
  /\ \E start \in [ComboOf[r] -> (now + 1)..Horizon], credited \in BOOLEAN :
       \E first \in ComboOf[r] :
         /\ \A x \in ComboOf[r] : start[first] <= start[x]
         /\ SetRows(ComboOf[r], LAMBDA x :
              [Absent EXCEPT
                 !.status = "PENDIENTE_DEPOSITO",
                 !.start = start[x],
                 !.clock = IF credited THEN NoTime ELSE now,
                 !.expires = IF credited THEN NoTime
                             ELSE Expiry(now, start[first], blocked),
                 !.credited = credited])
         /\ Enqueue(IF credited THEN {} ELSE ComboOf[r], "deposito-timeout")
  /\ UNCHANGED <<clockVars, deposits, lockVars, procVars, crashes>>

ConfirmValoracion(r) ==
  /\ "confirmValoracion" \in Offered
  /\ Status(r) = "PENDIENTE_VALORACION"
  /\ rowLock[r] = None
  /\ SetRows({r}, LAMBDA x :
       [WithStatus(x, "PENDIENTE_DEPOSITO") EXCEPT
          !.clock = now,
          !.expires = Expiry(now, reservation[x].start, blocked)])
  /\ Enqueue({r}, "deposito-timeout")
  /\ UNCHANGED <<clockVars, deposits, lockVars, procVars, crashes>>

\* The row is read again under the category lock, and the compare-and-set
\* tests both the status and the start that this second read returned. The
\* deposit deadline stays as it was.
Reschedule(r) ==
  /\ "reschedule" \in Offered
  /\ Status(r) \in {"PENDIENTE_DEPOSITO", "CONFIRMADA"}
  /\ rowLock[r] = None
  /\ \E start \in (now + 1)..Horizon :
       /\ start # reservation[r].start
       /\ SetRows({r}, LAMBDA x : [reservation[x] EXCEPT !.start = start])
  /\ Enqueue(IF Status(r) = "CONFIRMADA" THEN {r} ELSE {}, "no-show-check")
  /\ UNCHANGED <<clockVars, deposits, lockVars, procVars, crashes>>

\* Creating a BLOCK exception recomputes every running deadline in the same
\* transaction, and only ever moves a deadline later.
BlockSchedule ==
  LET Longer(r) == Expiry(reservation[r].clock, reservation[r].start,
                          blocked + 1)
      Extended == {r \in Reservations :
                     /\ Status(r) = "PENDIENTE_DEPOSITO"
                     /\ reservation[r].clock # NoTime
                     /\ reservation[r].expires > now
                     /\ Longer(r) > reservation[r].expires}
  IN /\ "blockSchedule" \in Offered
     /\ blocked < MaxBlocked
     /\ Unlocked(Extended)
     /\ blocked' = blocked + 1
     /\ SetRows(Extended, LAMBDA r :
          [reservation[r] EXCEPT !.expires = Longer(r)])
     /\ Enqueue(Extended, "deposito-timeout")
     /\ UNCHANGED <<now, deposits, lockVars, procVars, crashes>>

---------------------------------------------------------------------------
(* Sending a proof                                                         *)

\* assertCanSubmit, before the image is uploaded.
Submit(p, r) ==
  /\ Idle(p, "submit")
  /\ Status(r) = "PENDIENTE_DEPOSITO"
  /\ \A x \in Reservations : Room(x)
  /\ \E automatic \in BOOLEAN :
       Go(p, "submit", [Blank EXCEPT !.target = r, !.flag = automatic])
  /\ UNCHANGED <<clockVars, reservation, deposits, jobs, lockVars, crashes>>

\* Variant with a bug: the second reading does not lock the row.
SubmitUnlocked(p) ==
  /\ pc[p] = "submit"
  /\ IF Status(loc[p].target) = "PENDIENTE_DEPOSITO"
     THEN Go(p, "record", loc[p])
     ELSE Finish(p)
  /\ UNCHANGED <<clockVars, reservation, deposits, jobs, lockVars, crashes>>

\* SELECT status ... FOR UPDATE, and the status is checked again.
SubmitLock(p) ==
  LET r == loc[p].target
  IN /\ pc[p] = "submit"
     /\ rowLock[r] = None
     /\ IF Status(r) = "PENDIENTE_DEPOSITO"
        THEN LockRows(p, {r}) /\ Go(p, "record", loc[p])
        ELSE Finish(p) /\ UNCHANGED rowLock
     /\ UNCHANGED <<clockVars, reservation, deposits, jobs, proofLock, crashes>>

\* A newer proof replaces the one that was pending.
Superseded(r) ==
  [i \in DOMAIN deposits[r] |->
     IF deposits[r][i] = "PENDIENTE" THEN "RECHAZADO" ELSE deposits[r][i]]

\* Variant with a bug: the earlier proofs stay pending.
RecordWithoutSuperseding(p) ==
  LET r == loc[p].target
  IN /\ pc[p] = "record"
     /\ deposits' = [deposits EXCEPT ![r] =
                       Append(@, IF loc[p].flag THEN "CONFIRMADO"
                                 ELSE "PENDIENTE")]
     /\ ReleaseRows(p)
     /\ IF loc[p].flag THEN Go(p, "autoConfirm", loc[p]) ELSE Finish(p)
     /\ UNCHANGED <<clockVars, reservation, jobs, proofLock, crashes>>

\* Variant with a bug: the automatic channel confirms, on another connection,
\* before the transaction that recorded the proof commits.
RecordStillOpen(p) ==
  LET r == loc[p].target
  IN /\ pc[p] = "record"
     /\ proofLock[r] = None
     /\ deposits' = [deposits EXCEPT ![r] =
                       Append(Superseded(r), IF loc[p].flag THEN "CONFIRMADO"
                                             ELSE "PENDIENTE")]
     /\ IF loc[p].flag
        THEN Go(p, "autoConfirm", loc[p]) /\ UNCHANGED rowLock
        ELSE Finish(p) /\ ReleaseRows(p)
     /\ UNCHANGED <<clockVars, reservation, jobs, proofLock, crashes>>

\* supersedePendingProofs waits for whoever is deciding on the pending proof.
RecordProof(p) ==
  LET r == loc[p].target
      status == IF loc[p].flag THEN "CONFIRMADO" ELSE "PENDIENTE"
  IN /\ pc[p] = "record"
     /\ proofLock[r] = None
     /\ deposits' = [deposits EXCEPT ![r] = Append(Superseded(r), status)]
     /\ ReleaseRows(p)
     /\ IF loc[p].flag THEN Go(p, "autoConfirm", loc[p]) ELSE Finish(p)
     /\ UNCHANGED <<clockVars, reservation, jobs, proofLock, crashes>>

\* Variant with a bug: the status is not checked again.
AutoConfirmBlindly(p) ==
  LET r == loc[p].target
  IN /\ pc[p] = "autoConfirm"
     /\ rowLock[r] = None
     /\ SetRows({r}, LAMBDA x : WithStatus(x, "CONFIRMADA"))
     /\ Enqueue({r}, "no-show-check")
     /\ Finish(p)
     /\ UNCHANGED <<clockVars, deposits, lockVars, crashes>>

\* The automatic channel confirms the reservation in a second transaction.
AutoConfirm(p) ==
  LET r == loc[p].target
  IN /\ pc[p] = "autoConfirm"
     /\ rowLock[r] = None
     /\ IF Machine!CanTransition(Status(r), "CONFIRMADA")
        THEN /\ SetRows({r}, LAMBDA x : WithStatus(x, "CONFIRMADA"))
             /\ Enqueue({r}, "no-show-check")
        ELSE UNCHANGED <<reservation, jobs>>
     /\ Finish(p)
     /\ UNCHANGED <<clockVars, deposits, lockVars, crashes>>

---------------------------------------------------------------------------
(* The administrator decides                                               *)

\* The reservation is read outside the transaction, and its status chooses
\* between confirming the booking and only settling its pending proof.
Approve(p, r) ==
  /\ Idle(p, "approve")
  /\ Status(r) # "ABSENT"
  /\ \A x \in Reservations : Room(x)
  /\ \E amount \in IF "approveUnpaid" \in Offered THEN BOOLEAN ELSE {TRUE},
        scope \in {"SINGLE", "GROUP"} :
       LET read == [Blank EXCEPT !.target = r, !.flag = amount,
                                 !.start = reservation[r].start]
       IN IF Status(r) # "PENDIENTE_DEPOSITO"
          THEN Go(p, "approveLatest", read)
          ELSE IF scope = "GROUP"
          THEN Go(p, "approveGroup", read)
          ELSE Go(p, "approveTx",
                  [read EXCEPT !.seen = [x \in {r} |-> Status(x)]])
  /\ UNCHANGED <<clockVars, reservation, deposits, jobs, lockVars, crashes>>

\* findGroup: the client's reservations of that day that await a deposit.
ApproveGroup(p) ==
  LET group == {r \in Reservations :
                  /\ Status(r) = "PENDIENTE_DEPOSITO"
                  /\ Day(reservation[r].start) = Day(loc[p].start)}
  IN /\ pc[p] = "approveGroup"
     /\ Go(p, "approveTx",
           [loc[p] EXCEPT !.seen = [x \in group |-> Status(x)]])
     /\ UNCHANGED <<clockVars, reservation, deposits, jobs, lockVars, crashes>>

NeedsPayment(p) == {r \in DOMAIN loc[p].seen : ~reservation[r].credited}

\* The first of the rows whose starts are given.
Earliest(start) ==
  CHOOSE r \in DOMAIN start : \A x \in DOMAIN start : start[r] <= start[x]

\* The anchor if it needs a payment, else the first one of the day.
Payer(p) ==
  IF loc[p].target \in NeedsPayment(p) THEN loc[p].target
  ELSE Earliest([r \in NeedsPayment(p) |-> reservation[r].start])

\* confirmStatus of each member, after which the transaction owns their rows,
\* and the latest deposit record of the one that pays.
ApproveTx(p) ==
  LET group == DOMAIN loc[p].seen
      pending == NeedsPayment(p) # {} /\ Latest(Payer(p)) = "PENDIENTE"
  IN /\ pc[p] = "approveTx"
     /\ Unlocked(group)
     /\ IF \A r \in group : Machine!CanTransition(Status(r), "CONFIRMADA")
        THEN /\ LockRows(p, group)
             /\ Go(p, "approveResolve",
                   [loc[p] EXCEPT !.deposit = IF pending
                                              THEN Len(deposits[Payer(p)])
                                              ELSE 0])
        ELSE Finish(p) /\ UNCHANGED rowLock
     /\ UNCHANGED <<clockVars, reservation, deposits, jobs, proofLock, crashes>>

\* resolveConfirmedDeposit: the pending proof that was read is confirmed, a
\* confirmed record is reused, and otherwise one without proof is created.
Settled(p) ==
  LET records == deposits[Payer(p)]
  IN IF loc[p].deposit # 0
     THEN [records EXCEPT ![loc[p].deposit] = "CONFIRMADO"]
     ELSE IF Latest(Payer(p)) = "CONFIRMADO" THEN records
     ELSE Append(records, "CONFIRMADO")

\* The booking is confirmed without a payment when nobody needs one, or when
\* there is no proof and the administrator names no amount.
ApproveFree(p) ==
  /\ pc[p] = "approveResolve"
  /\ NeedsPayment(p) # {} =>
       /\ ~loc[p].flag /\ loc[p].deposit = 0
       /\ Latest(Payer(p)) # "CONFIRMADO"
  /\ SetRows(DOMAIN loc[p].seen, LAMBDA r : WithStatus(r, "CONFIRMADA"))
  /\ Enqueue(DOMAIN loc[p].seen, "no-show-check")
  /\ ReleaseRows(p)
  /\ Finish(p)
  /\ UNCHANGED <<clockVars, deposits, proofLock, crashes>>

\* Variant with a bug: the deposit is not linked to the rest of the group.
ApprovePaidAlone(p) ==
  /\ pc[p] = "approveResolve"
  /\ NeedsPayment(p) # {} /\ loc[p].flag
  /\ loc[p].deposit # 0 =>
       /\ proofLock[Payer(p)] = None
       /\ deposits[Payer(p)][loc[p].deposit] = "PENDIENTE"
  /\ deposits' = [deposits EXCEPT ![Payer(p)] = Settled(p)]
  /\ SetRows(DOMAIN loc[p].seen, LAMBDA r : WithStatus(r, "CONFIRMADA"))
  /\ Enqueue(DOMAIN loc[p].seen, "no-show-check")
  /\ ReleaseRows(p)
  /\ Finish(p)
  /\ UNCHANGED <<clockVars, proofLock, crashes>>

\* The payer's deposit covers the others. Confirming a pending proof is a
\* compare-and-set that waits for whoever is deciding on it.
ApprovePaid(p) ==
  /\ pc[p] = "approveResolve"
  /\ NeedsPayment(p) # {} /\ loc[p].flag
  /\ loc[p].deposit # 0 =>
       /\ proofLock[Payer(p)] = None
       /\ deposits[Payer(p)][loc[p].deposit] = "PENDIENTE"
  /\ deposits' = [deposits EXCEPT ![Payer(p)] = Settled(p)]
  /\ SetRows(DOMAIN loc[p].seen, LAMBDA r :
       [WithStatus(r, "CONFIRMADA") EXCEPT
          !.coveredBy = IF r \in NeedsPayment(p) \ {Payer(p)}
                        THEN <<Payer(p), Len(Settled(p))>> ELSE @])
  /\ Enqueue(DOMAIN loc[p].seen, "no-show-check")
  /\ ReleaseRows(p)
  /\ Finish(p)
  /\ UNCHANGED <<clockVars, proofLock, crashes>>

\* Rollback: a payment without amount, or the proof was decided meanwhile.
ApproveAbort(p) ==
  /\ pc[p] = "approveResolve"
  /\ NeedsPayment(p) # {}
  /\ \/ /\ ~loc[p].flag
        /\ loc[p].deposit # 0 \/ Latest(Payer(p)) = "CONFIRMADO"
     \/ /\ loc[p].deposit # 0 /\ proofLock[Payer(p)] = None
        /\ deposits[Payer(p)][loc[p].deposit] # "PENDIENTE"
  /\ ReleaseRows(p)
  /\ Finish(p)
  /\ UNCHANGED <<clockVars, reservation, deposits, jobs, proofLock, crashes>>

\* approvePendingProofOnly: the reservation is not waiting any more.
ApproveLatest(p) ==
  LET r == loc[p].target
  IN /\ pc[p] = "approveLatest"
     /\ IF Latest(r) = "PENDIENTE" /\ loc[p].flag
        THEN Go(p, "approveProof",
                [loc[p] EXCEPT !.deposit = Len(deposits[r])])
        ELSE Finish(p)
     /\ UNCHANGED <<clockVars, reservation, deposits, jobs, lockVars, crashes>>

\* markConfirmedIfPending, a single statement.
ApproveProof(p) ==
  LET r == loc[p].target
      d == loc[p].deposit
  IN /\ pc[p] = "approveProof"
     /\ IF deposits[r][d] = "PENDIENTE"
        THEN /\ proofLock[r] = None
             /\ deposits' = [deposits EXCEPT ![r] =
                               [@ EXCEPT ![d] = "CONFIRMADO"]]
        ELSE UNCHANGED deposits
     /\ Finish(p)
     /\ UNCHANGED <<clockVars, reservation, jobs, lockVars, crashes>>

\* The latest deposit record must be PENDIENTE.
Reject(p, r) ==
  /\ Idle(p, "reject")
  /\ Latest(r) = "PENDIENTE"
  /\ Go(p, "rejectRead",
        [Blank EXCEPT !.target = r, !.deposit = Len(deposits[r])])
  /\ UNCHANGED <<clockVars, reservation, deposits, jobs, lockVars, crashes>>

\* The reservation is read, and the new deadline computed, before the
\* transaction begins.
RejectRead(p) ==
  LET r == loc[p].target
  IN /\ pc[p] = "rejectRead"
     /\ Go(p, "rejectMark",
           IF Status(r) = "PENDIENTE_DEPOSITO"
           THEN [loc[p] EXCEPT
                   !.clock = now,
                   !.expires = Expiry(now, reservation[r].start, blocked)]
           ELSE loc[p])
     /\ UNCHANGED <<clockVars, reservation, deposits, jobs, lockVars, crashes>>

\* Variant with a bug: the record is updated whatever its status.
RejectMarkBlindly(p) ==
  LET r == loc[p].target
  IN /\ pc[p] = "rejectMark"
     /\ proofLock[r] = None
     /\ proofLock' = [proofLock EXCEPT ![r] = p]
     /\ Go(p, "rejectRestart", loc[p])
     /\ UNCHANGED <<clockVars, reservation, deposits, jobs, rowLock, crashes>>

\* markRejectedIfPending opens the transaction: it locks the deposit row.
RejectMark(p) ==
  LET r == loc[p].target
  IN /\ pc[p] = "rejectMark"
     /\ proofLock[r] = None
     /\ IF deposits[r][loc[p].deposit] = "PENDIENTE"
        THEN /\ proofLock' = [proofLock EXCEPT ![r] = p]
             /\ Go(p, "rejectRestart", loc[p])
        ELSE Finish(p) /\ UNCHANGED proofLock
     /\ UNCHANGED <<clockVars, reservation, deposits, jobs, rowLock, crashes>>

\* restartDepositDeadlineIfAwaiting, and commit. Without a new deadline the
\* reservation row is not touched.
RejectRestart(p) ==
  LET r == loc[p].target
      wanted == loc[p].expires # NoTime
      restarted == wanted /\ Status(r) = "PENDIENTE_DEPOSITO"
  IN /\ pc[p] = "rejectRestart"
     /\ wanted => rowLock[r] = None
     /\ deposits' = [deposits EXCEPT ![r] =
                       [@ EXCEPT ![loc[p].deposit] = "RECHAZADO"]]
     /\ SetRows(IF restarted THEN {r} ELSE {}, LAMBDA x :
          [reservation[x] EXCEPT !.clock = loc[p].clock,
                                 !.expires = loc[p].expires])
     /\ Enqueue(IF restarted THEN {r} ELSE {}, "deposito-timeout")
     /\ ReleaseProofs(p)
     /\ Finish(p)
     /\ UNCHANGED <<clockVars, rowLock, crashes>>

AdminCancel(r) ==
  /\ "adminCancel" \in Offered
  /\ rowLock[r] = None
  /\ Machine!CanTransition(Status(r), "CANCELADA")
  /\ SetRows({r}, LAMBDA x : Cancelled(x, "ADMIN"))
  /\ UNCHANGED <<clockVars, deposits, jobs, lockVars, procVars, crashes>>

\* The whole combo or nothing, read again and rewritten under the category
\* locks, which every revival of these rows takes. No deadline is set.
Revive(r) ==
  /\ "revive" \in Offered
  /\ \A x \in ComboOf[r] :
       /\ Machine!IsRevivable(Status(x), reservation[x].source)
       /\ reservation[x].start > now
       /\ Day(reservation[x].start) = Day(reservation[r].start)
  /\ Unlocked(ComboOf[r])
  /\ SetRows(ComboOf[r], LAMBDA x :
       [WithStatus(x, "PENDIENTE_DEPOSITO") EXCEPT
          !.source = "NINGUNA", !.clock = NoTime, !.expires = NoTime])
  /\ UNCHANGED <<clockVars, deposits, jobs, lockVars, procVars, crashes>>

---------------------------------------------------------------------------
(* The client cancels, one reservation or the whole day                    *)

ClientCancellable(r) ==
  /\ Status(r) \in {"PENDIENTE_VALORACION", "PENDIENTE_DEPOSITO", "CONFIRMADA"}
  /\ reservation[r].start > now

ClientCancel(p, r) ==
  LET sameDay == {x \in Reservations :
                    Day(reservation[x].start) = Day(reservation[r].start)}
      planned(S) == {x \in S : ClientCancellable(x)}
  IN /\ Idle(p, "clientCancel")
     /\ \E scope \in {{r}, sameDay} :
          /\ planned(scope) # {}
          /\ Go(p, "clientCancel",
                [Blank EXCEPT !.target = r,
                   !.seen = [x \in planned(scope) |-> Status(x)]])
     /\ UNCHANGED <<clockVars, reservation, deposits, jobs, lockVars, crashes>>

\* Variant with a bug: a row that moved is skipped and the rest cancelled.
ClientCancelEach(p) ==
  /\ pc[p] = "clientCancel"
  /\ Unlocked(DOMAIN loc[p].seen)
  /\ SetRows({r \in DOMAIN loc[p].seen : Status(r) = loc[p].seen[r]},
             LAMBDA x : Cancelled(x, "CLIENT"))
  /\ Finish(p)
  /\ UNCHANGED <<clockVars, deposits, jobs, lockVars, crashes>>

\* One transaction: every row still has the status read, or none changes.
ClientCancelTx(p) ==
  /\ pc[p] = "clientCancel"
  /\ Unlocked(DOMAIN loc[p].seen)
  /\ SetRows(IF Unmoved(p) THEN DOMAIN loc[p].seen ELSE {},
             LAMBDA x : Cancelled(x, "CLIENT"))
  /\ Finish(p)
  /\ UNCHANGED <<clockVars, deposits, jobs, lockVars, crashes>>

---------------------------------------------------------------------------
(* The day of the appointment                                              *)

CheckIn(p, r) ==
  /\ Idle(p, "checkIn")
  /\ Status(r) # "CITA_EN_CURSO"
  /\ Machine!CanTransition(Status(r), "CITA_EN_CURSO")
  /\ Day(now) = Day(reservation[r].start)
  /\ Go(p, "checkIn", [Blank EXCEPT !.target = r,
                         !.seen = [x \in {r} |-> Status(x)]])
  /\ UNCHANGED <<clockVars, reservation, deposits, jobs, lockVars, crashes>>

\* Variant with a bug: the update does not test the status that was read.
CheckInBlindly(p) ==
  /\ pc[p] = "checkIn"
  /\ Unlocked(DOMAIN loc[p].seen)
  /\ SetRows(DOMAIN loc[p].seen, LAMBDA x : WithStatus(x, "CITA_EN_CURSO"))
  /\ Finish(p)
  /\ UNCHANGED <<clockVars, deposits, jobs, lockVars, crashes>>

CheckInCas(p) ==
  /\ pc[p] = "checkIn"
  /\ Unlocked(DOMAIN loc[p].seen)
  /\ SetRows(IF Unmoved(p) THEN DOMAIN loc[p].seen ELSE {},
             LAMBDA x : WithStatus(x, "CITA_EN_CURSO"))
  /\ Finish(p)
  /\ UNCHANGED <<clockVars, deposits, jobs, lockVars, crashes>>

Complete(r) ==
  /\ "complete" \in Offered
  /\ Machine!CanTransition(Status(r), "COMPLETADA")
  /\ rowLock[r] = None
  /\ SetRows({r}, LAMBDA x : WithStatus(x, "COMPLETADA"))
  /\ UNCHANGED <<clockVars, deposits, jobs, lockVars, procVars, crashes>>

---------------------------------------------------------------------------
(* The reservation-timeouts worker                                         *)

\* A delayed job is delivered, at least once.
Deliver(r, job) ==
  /\ job \in jobs[r]
  /\ \/ jobs' = [jobs EXCEPT ![r] = @ \ {job}]
     \/ UNCHANGED jobs

DepositDue(r) ==
  /\ Status(r) = "PENDIENTE_DEPOSITO"
  /\ reservation[r].expires # NoTime
  /\ reservation[r].expires <= now

\* cancelIfStillIn reads the row: another status, a deadline to come or no
\* deadline at all, and the job is skipped.
TimeoutRead(w, r) ==
  IF DepositDue(r)
  THEN Go(w, "proofCheck", [Blank EXCEPT !.target = r])
  ELSE Finish(w)

DepositJob(w, r) ==
  /\ Idle(w, "timeouts")
  /\ Deliver(r, "deposito-timeout")
  /\ TimeoutRead(w, r)
  /\ UNCHANGED <<clockVars, reservation, deposits, lockVars, crashes>>

\* Variant with a bug: a reservation with any proof, even one that was
\* rejected, is left out.
DepositSweepUnsent(w, r) ==
  /\ Idle(w, "sweeps")
  /\ DepositDue(r) /\ reservation[r].expires < now
  /\ deposits[r] = <<>>
  /\ TimeoutRead(w, r)
  /\ UNCHANGED <<clockVars, reservation, deposits, jobs, lockVars, crashes>>

\* findExpiredPendingDepositIds, every five minutes.
DepositSweep(w, r) ==
  /\ Idle(w, "sweeps")
  /\ DepositDue(r) /\ reservation[r].expires < now
  /\ ~HasSubmittedProof(r)
  /\ TimeoutRead(w, r)
  /\ UNCHANGED <<clockVars, reservation, deposits, jobs, lockVars, crashes>>

ProofCheck(w) ==
  /\ pc[w] = "proofCheck"
  /\ IF HasSubmittedProof(loc[w].target) THEN Finish(w)
     ELSE Go(w, "timeoutFind", loc[w])
  /\ UNCHANGED <<clockVars, reservation, deposits, jobs, lockVars, crashes>>

\* adminCancel reads the row itself, and accepts any status it may cancel.
TimeoutFind(w) ==
  LET r == loc[w].target
  IN /\ pc[w] = "timeoutFind"
     /\ IF Machine!CanTransition(Status(r), "CANCELADA")
        THEN Go(w, "timeoutLock",
                [loc[w] EXCEPT !.seen = [x \in {r} |-> Status(x)]])
        ELSE Finish(w)
     /\ UNCHANGED <<clockVars, reservation, deposits, jobs, lockVars, crashes>>

\* Variant with a bug: the proofs are not counted again under the lock.
TimeoutLockOnly(w) ==
  LET r == loc[w].target
  IN /\ pc[w] = "timeoutLock"
     /\ rowLock[r] = None
     /\ LockRows(w, {r}) /\ Go(w, "timeoutCas", loc[w])
     /\ UNCHANGED <<clockVars, reservation, deposits, jobs, proofLock, crashes>>

\* SELECT ... FOR UPDATE, then the pending proofs are counted again.
TimeoutLock(w) ==
  LET r == loc[w].target
  IN /\ pc[w] = "timeoutLock"
     /\ rowLock[r] = None
     /\ IF HasSubmittedProof(r)
        THEN Finish(w) /\ UNCHANGED rowLock
        ELSE LockRows(w, {r}) /\ Go(w, "timeoutCas", loc[w])
     /\ UNCHANGED <<clockVars, reservation, deposits, jobs, proofLock, crashes>>

TimeoutCas(w) ==
  /\ pc[w] = "timeoutCas"
  /\ SetRows(IF Unmoved(w) THEN DOMAIN loc[w].seen ELSE {},
             LAMBDA x : Cancelled(x, "TIMEOUT"))
  /\ ReleaseRows(w)
  /\ Finish(w)
  /\ UNCHANGED <<clockVars, deposits, jobs, proofLock, crashes>>

Overdue(r) ==
  /\ Status(r) = "CONFIRMADA"
  /\ reservation[r].start + Grace <= now

NoShowRead(w, r) ==
  IF Overdue(r)
  THEN Go(w, "noShowCas", [Blank EXCEPT !.target = r])
  ELSE Finish(w)

NoShowJob(w, r) ==
  /\ Idle(w, "timeouts")
  /\ Deliver(r, "no-show-check")
  /\ NoShowRead(w, r)
  /\ UNCHANGED <<clockVars, reservation, deposits, lockVars, crashes>>

\* Variant with a bug: the query joins the deposit records, which leaves out
\* what a credit paid.
NoShowSweepJoined(w, r) ==
  /\ Idle(w, "sweeps")
  /\ Overdue(r) /\ reservation[r].start + Grace < now
  /\ deposits[r] # <<>>
  /\ NoShowRead(w, r)
  /\ UNCHANGED <<clockVars, reservation, deposits, jobs, lockVars, crashes>>

\* findOverdueConfirmedIds, every five minutes.
NoShowSweep(w, r) ==
  /\ Idle(w, "sweeps")
  /\ Overdue(r) /\ reservation[r].start + Grace < now
  /\ NoShowRead(w, r)
  /\ UNCHANGED <<clockVars, reservation, deposits, jobs, lockVars, crashes>>

NoShowCas(w) ==
  LET r == loc[w].target
  IN /\ pc[w] = "noShowCas"
     /\ rowLock[r] = None
     /\ SetRows(IF Machine!CanTransition(Status(r), "NO_SHOW")
                THEN {r} ELSE {},
                LAMBDA x : WithStatus(x, "NO_SHOW"))
     /\ Finish(w)
     /\ UNCHANGED <<clockVars, deposits, jobs, lockVars, crashes>>

---------------------------------------------------------------------------
(* Failures and time                                                       *)

\* A process dies: PostgreSQL rolls its transaction back.
Crash(p) ==
  /\ pc[p] # "idle"
  /\ crashes < MaxCrashes
  /\ crashes' = crashes + 1
  /\ ReleaseRows(p)
  /\ ReleaseProofs(p)
  /\ Finish(p)
  /\ UNCHANGED <<clockVars, reservation, deposits, jobs>>

\* Variant with a bug: the deadline is restarted on another connection than the
\* transaction that rejects, so PostgreSQL does not see who waits there.
WaitsForUnseen(p, q) ==
  \/ pc[p] = "record" /\ proofLock[loc[p].target] = q
  \/ /\ pc[p] = "approveResolve" /\ loc[p].deposit # 0
     /\ proofLock[Payer(p)] = q

\* p cannot go on before q gives a lock back.
WaitsFor(p, q) ==
  \/ pc[p] = "record" /\ proofLock[loc[p].target] = q
  \/ /\ pc[p] = "approveResolve" /\ loc[p].deposit # 0
     /\ proofLock[Payer(p)] = q
  \/ /\ pc[p] = "rejectRestart" /\ loc[p].expires # NoTime
     /\ rowLock[loc[p].target] = q

\* PostgreSQL detects the cycle and rolls one of the two back.
DeadlockVictim(p) ==
  /\ \E q \in Procs : WaitsFor(p, q) /\ WaitsFor(q, p)
  /\ ReleaseRows(p)
  /\ ReleaseProofs(p)
  /\ Finish(p)
  /\ UNCHANGED <<clockVars, reservation, deposits, jobs, crashes>>

Tick ==
  /\ now < Horizon
  /\ now' = now + 1
  /\ UNCHANGED <<blocked, reservation, deposits, jobs, lockVars, procVars,
                 crashes>>

---------------------------------------------------------------------------
Statement(r) ==
  \/ Create(r) \/ ConfirmValoracion(r) \/ Reschedule(r) \/ AdminCancel(r)
  \/ Revive(r) \/ Complete(r)

Begin(p, r) ==
  \/ Submit(p, r) \/ Approve(p, r) \/ Reject(p, r) \/ ClientCancel(p, r)
  \/ CheckIn(p, r)

Job(w, r) ==
  \/ DepositJob(w, r) \/ DepositSweep(w, r)
  \/ NoShowJob(w, r) \/ NoShowSweep(w, r)

RequestStep(p) ==
  \/ SubmitLock(p) \/ RecordProof(p) \/ AutoConfirm(p)
  \/ ApproveGroup(p) \/ ApproveTx(p)
  \/ ApproveFree(p) \/ ApprovePaid(p) \/ ApproveAbort(p)
  \/ ApproveLatest(p) \/ ApproveProof(p)
  \/ RejectRead(p) \/ RejectMark(p) \/ RejectRestart(p)
  \/ ClientCancelTx(p) \/ CheckInCas(p)

WorkerStep(w) ==
  \/ ProofCheck(w) \/ TimeoutFind(w) \/ TimeoutLock(w) \/ TimeoutCas(w)
  \/ NoShowCas(w)

Next ==
  \/ \E r \in Reservations : Statement(r)
  \/ \E p \in Requests, r \in Reservations : Begin(p, r)
  \/ \E w \in Workers, r \in Reservations : Job(w, r)
  \/ \E p \in Requests : RequestStep(p)
  \/ \E w \in Workers : WorkerStep(w)
  \/ \E p \in Procs : DeadlockVictim(p) \/ Crash(p)
  \/ BlockSchedule
  \/ Tick

Spec == Init /\ [][Next]_vars

\* A handler that has begun goes on, lock queues being first come first
\* served; the sweeps are repeated every five minutes, so a worker always
\* comes back to a row they select; time passes. Nothing obliges a client or
\* an administrator to act, nor Redis to keep a job.
Fairness ==
  /\ \A p \in Requests : SF_vars(RequestStep(p) \/ DeadlockVictim(p))
  /\ \A w \in Workers : SF_vars(WorkerStep(w))
  /\ \A r \in Reservations :
       /\ SF_vars(\E w \in Workers : DepositSweep(w, r))
       /\ SF_vars(\E w \in Workers : NoShowSweep(w, r))
  /\ WF_vars(Tick)

FairSpec == Spec /\ Fairness
---------------------------------------------------------------------------
(* Properties                                                              *)

\* An administrator never finds a proof waiting on a reservation that was
\* cancelled for not sending one: the row lock and the second count in
\* updateStatusIfCurrentUnlessProofPending close the race with a client who
\* sends the proof at the last moment.
ProofBlocksTimeout ==
  \A r \in Reservations :
    Status(r) = "CANCELADA" /\ reservation[r].source = "TIMEOUT"
      => ~HasSubmittedProof(r)

\* What the row locks guarantee between the steps of a transaction: the rows
\* a transaction has locked do not move under it, and what it learnt about
\* them under the lock still holds when it writes.
Guarded(p) ==
  LET r == loc[p].target
      read == DOMAIN loc[p].seen
  IN /\ pc[p] = "record" => rowLock[r] = p /\ Status(r) = "PENDIENTE_DEPOSITO"
     /\ pc[p] \in {"timeoutLock", "timeoutCas"} => read = {r}
     /\ pc[p] = "timeoutCas" => rowLock[r] = p /\ ~HasSubmittedProof(r)
     /\ pc[p] = "approveResolve" =>
          \A x \in read : /\ rowLock[x] = p
                           /\ Machine!CanTransition(Status(x), "CONFIRMADA")

\* A handler that goes on to a compare-and-set read statuses that may move to
\* the one it writes.
PlanLegal(p) ==
  \A r \in DOMAIN loc[p].seen :
    /\ pc[p] \in {"clientCancel", "timeoutLock", "timeoutCas"} =>
         Machine!CanTransition(loc[p].seen[r], "CANCELADA")
    /\ pc[p] = "checkIn" =>
         Machine!CanTransition(loc[p].seen[r], "CITA_EN_CURSO")

\* A cancelled reservation says who cancelled it and no other one does, also
\* after it was revived.
SourceTellsCancelled ==
  \A r \in Reservations :
    Status(r) = "CANCELADA" <=> reservation[r].source # "NINGUNA"

\* The inductive invariant behind ProofBlocksTimeout and Lifecycle.
Protocol ==
  /\ TypeOK
  /\ \A p \in Procs : Guarded(p) /\ PlanLegal(p)
  /\ SourceTellsCancelled
  /\ ProofBlocksTimeout

\* A reservation has at most one proof to decide on, and it is the newest
\* record, whoever sends, decides or dies in between: the approval and the
\* rejection screens show the newest one.
OnePendingProof ==
  \A r \in Reservations : \A i \in DOMAIN deposits[r] :
    deposits[r][i] = "PENDIENTE" => i = Len(deposits[r])

\* What a handler that decides on a record knows of it: an approval under way
\* holds the newest pending record of the payer, or there is none to decide on; a
\* rejection under way holds the record's lock and finds it pending.
Decides(p) ==
  LET r == loc[p].target
      d == loc[p].deposit
  IN /\ pc[p] \in {"approveProof", "rejectRead", "rejectMark", "rejectRestart"} =>
          d \in DOMAIN deposits[r]
     /\ pc[p] = "rejectRestart" =>
          proofLock[r] = p /\ deposits[r][d] = "PENDIENTE"
     /\ pc[p] = "approveResolve" /\ NeedsPayment(p) # {} =>
          IF d = 0 THEN ~ HasSubmittedProof(Payer(p))
          ELSE d \in DOMAIN deposits[Payer(p)] /\ d = Len(deposits[Payer(p)])

\* The inductive invariant behind OnePendingProof and DepositDecisionsFinal.
Records ==
  /\ Protocol
  /\ OnePendingProof
  /\ \A p \in Procs : Decides(p)

HasConfirmedDeposit(r) ==
  \E i \in DOMAIN deposits[r] : deposits[r][i] = "CONFIRMADO"

PaidByAnother(r) ==
  /\ reservation[r].coveredBy # None
  /\ LET d == reservation[r].coveredBy IN deposits[d[1]][d[2]] = "CONFIRMADO"

Paid(r) ==
  reservation[r].credited \/ HasConfirmedDeposit(r) \/ PaidByAnother(r)

PastConfirmation == {"CONFIRMADA", "CITA_EN_CURSO", "COMPLETADA", "NO_SHOW"}

\* When every approval names an amount, a confirmed reservation is paid: by
\* a credit, by a confirmed deposit of its own or by the confirmed deposit of
\* another reservation of its group. An approval and a rejection at once
\* never leave it confirmed over a rejected payment.
PaidWhenConfirmed ==
  \A r \in Reservations : Status(r) \in PastConfirmation => Paid(r)

\* The deposit a row names as the one that covers it is there, and confirmed.
CoverExists(r) ==
  LET d == reservation[r].coveredBy
  IN d # None => /\ d[1] \in Reservations /\ d[2] \in DOMAIN deposits[d[1]]
                 /\ deposits[d[1]][d[2]] = "CONFIRMADO"

\* A handler about to confirm has an amount to write down, or the deposit of the
\* automatic channel behind it.
Charges(p) ==
  /\ pc[p] \in {"approveGroup", "approveTx", "approveResolve"} => loc[p].flag
  /\ pc[p] = "autoConfirm" => HasConfirmedDeposit(loc[p].target)

\* The inductive invariant behind PaidWhenConfirmed.
Settlement ==
  /\ Records
  /\ \A r \in Reservations : CoverExists(r)
  /\ \A p \in Procs : Charges(p)
  /\ PaidWhenConfirmed

\* A deposit record is decided once: an approval, a rejection and a new proof
\* that race for it never overwrite each other's decision, and the history of
\* records is never shortened or reordered.
DepositDecisionsFinal ==
  [][\A r \in Reservations :
       /\ Len(deposits[r]) <= Len(deposits'[r])
       /\ \A i \in DOMAIN deposits[r] :
            deposits[r][i] # "PENDIENTE" => deposits'[r][i] = deposits[r][i]]_vars

\* Every interleaving of handlers, workers and crashes moves each reservation
\* along the transition table of reservation-state-machine.ts, apart from the
\* revival of one that was cancelled by time.
Lifecycle == Machine!Spec

\* A step that ends an approval or a client's cancellation of the day changes the
\* rows planned to change together or none of them.
GroupStep ==
  \A p \in Requests :
    pc[p] \in {"clientCancel", "approveResolve"} /\ pc'[p] = "idle" =>
      LET group == DOMAIN loc[p].seen
          changed == {r \in group :
                        reservation'[r].status # reservation[r].status}
      IN changed \in {{}, group}

\* Liveness: a deposit deadline that passes without a proof is acted on, even
\* if its delayed job was lost, and so is a confirmed appointment that nobody
\* attends: the sweeps rebuild the work from PostgreSQL.
ExpiredDepositsResolved ==
  \A r \in Reservations :
    DepositDue(r) /\ reservation[r].expires < Horizon /\ ~HasSubmittedProof(r)
      ~> ~DepositDue(r) \/ HasSubmittedProof(r)

OverdueResolved ==
  \A r \in Reservations :
    Overdue(r) /\ reservation[r].start + Grace < Horizon ~> ~Overdue(r)

\* Nobody waits for ever: as long as a handler or the worker is in the middle of an
\* operation one of them can go on.  A rejection locks the deposit and then the
\* reservation, a new proof and an approval the other way round, and PostgreSQL has to
\* break the tie.
NoStandstill ==
  (\E p \in Procs : pc[p] # "idle") =>
    \E p \in Procs :
      \/ p \in Requests /\ ENABLED RequestStep(p)
      \/ p \in Workers /\ ENABLED WorkerStep(p)
      \/ ENABLED DeadlockVictim(p)

---------------------------------------------------------------------------
(* Properties the repository states and the code does not keep             *)

\* queues.int-spec.ts: the timeout cancels nothing whose deadline was moved,
\* that has a proof waiting, that is confirmed already or that was revived
\* without a deadline.
TimeoutOnlyWhenDue ==
  [][\A r \in Reservations :
       /\ reservation[r].status # "CANCELADA"
       /\ reservation'[r].status = "CANCELADA"
       /\ reservation'[r].source = "TIMEOUT"
       => DepositDue(r) /\ ~HasSubmittedProof(r)]_vars

=============================================================================
