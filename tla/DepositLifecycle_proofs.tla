----------------------- MODULE DepositLifecycle_proofs -----------------------
(***************************************************************************)
(* Theorems about DepositLifecycle, for any number of reservations,        *)
(* handlers and workers, and any bounds: first that its types are right,   *)
(* then that its row locks and compare-and-sets do their work.  A proof on *)
(* time is never overtaken by the timeout, every step is one of the state  *)
(* machine of reservations, and a group is decided as a whole.  Last the   *)
(* deposit records: one at most waits for a decision, a decision is never  *)
(* taken back, and what is confirmed is paid when approvals name an amount.*)
(***************************************************************************)
EXTENDS DepositLifecycle, SequenceTheorems, WellFoundedInduction, TLAPS

---------------------------------------------------------------------------
(* Type correctness                                                        *)

LEMMA GoType ==
  ASSUME ProcTypes, NEW p \in Procs, NEW step \in Steps, NEW read \in Local,
         step # "idle" => read.target \in Reservations,
         Go(p, step, read)
  PROVE  ProcTypes'
BY DEF ProcTypes, Go

LEMMA BlankType == Blank \in Local
<1>1. [r \in {} |-> "ABSENT"] \in Readings
  BY DEF Readings
<1> QED
  BY <1>1 DEF Blank, Local, NoTime, Times

LEMMA FinishType ==
  ASSUME ProcTypes, NEW p \in Procs, Finish(p)
  PROVE  ProcTypes'
BY GoType, BlankType DEF Finish, Steps

LEMMA LockRowsType ==
  ASSUME LockTypes, NEW p \in Procs, NEW S, LockRows(p, S), UNCHANGED proofLock
  PROVE  LockTypes'
BY DEF LockTypes, LockRows

LEMMA ReleaseRowsType ==
  ASSUME LockTypes, NEW p \in Procs, ReleaseRows(p), UNCHANGED proofLock
  PROVE  LockTypes'
BY DEF LockTypes, ReleaseRows

LEMMA ReleaseAllType ==
  ASSUME LockTypes, NEW p \in Procs, ReleaseRows(p), ReleaseProofs(p)
  PROVE  LockTypes'
BY DEF LockTypes, ReleaseRows, ReleaseProofs

LEMMA EnqueueType ==
  ASSUME jobs \in [Reservations -> SUBSET Jobs], NEW S, NEW job \in Jobs,
         Enqueue(S, job)
  PROVE  jobs' \in [Reservations -> SUBSET Jobs]
BY DEF Enqueue

LEMMA ExpiryType ==
  ASSUME NEW from \in Nat, NEW start \in Nat, NEW lost \in Nat
  PROVE  Expiry(from, start, lost) \in Nat
BY TimingAssumption DEF Expiry

LEMMA AppendType ==
  ASSUME NEW s \in Seq(DepositStatuses), NEW e \in DepositStatuses
  PROVE  Append(s, e) \in Seq(DepositStatuses)
OBVIOUS

\* A record that is not there is not written.
LEMMA DecideType ==
  ASSUME NEW s \in Seq(DepositStatuses), NEW i \in Nat,
         NEW e \in DepositStatuses
  PROVE  [s EXCEPT ![i] = e] \in Seq(DepositStatuses)
<1>1. CASE i \in 1..Len(s)
  BY <1>1, ExceptSeq
<1>2. CASE i \notin 1..Len(s)
  <2>1. DOMAIN s = 1..Len(s) /\ s \in [1..Len(s) -> DepositStatuses]
    BY LenProperties
  <2>2. [s EXCEPT ![i] = e] = s
    BY <1>2, <2>1
  <2> QED
    BY <2>2
<1> QED
  BY <1>1, <1>2

LEMMA SupersededType ==
  ASSUME TableTypes, NEW r \in Reservations
  PROVE  Superseded(r) \in Seq(DepositStatuses)
BY DEF TableTypes, Superseded, DepositStatuses

LEMMA ReadingType ==
  ASSUME NEW S \in SUBSET Reservations, NEW f \in [S -> Machine!Statuses]
  PROVE  f \in Readings
BY DEF Readings

LEMMA SeenType ==
  ASSUME ProcTypes, NEW p \in Procs
  PROVE  DOMAIN loc[p].seen \in SUBSET Reservations
BY DEF ProcTypes, Local, Readings

\* Some member of a nonempty set of reservations starts first.
LEMMA FirstStart ==
  ASSUME TableTypes, NEW S \in SUBSET Reservations, S # {}
  PROVE  \E r \in S : \A x \in S : reservation[r].start <= reservation[x].start
<1> DEFINE T == {reservation[r].start : r \in S}
<1>1. T \subseteq Nat /\ T # {}
  BY DEF TableTypes, Row
<1>2. PICK t \in T : \A u \in T : ~ (<<u, t>> \in OpToRel(<, Nat))
  <2> HIDE DEF T
  <2> QED
    BY <1>1, NatLessThanWellFounded, WFMin
<1>3. \A u \in T : ~ (u < t)
  BY <1>1, <1>2 DEF OpToRel
<1>4. PICK r \in S : t = reservation[r].start
  OBVIOUS
<1>5. \A x \in S : reservation[r].start <= reservation[x].start
  <2> TAKE x \in S
  <2>1. reservation[x].start \in T
    OBVIOUS
  <2>2. ~ (reservation[x].start < reservation[r].start)
    BY <1>3, <1>4, <2>1
  <2> QED
    BY <1>1, <1>4, <2>1, <2>2
<1> QED
  BY <1>5

\* The reservation that pays is one of those that need a payment.
LEMMA PayerInGroup ==
  ASSUME TypeOK, NEW p \in Procs, NeedsPayment(p) # {}
  PROVE  Payer(p) \in NeedsPayment(p) /\ Payer(p) \in Reservations
<1>1. NeedsPayment(p) \in SUBSET Reservations
  BY SeenType DEF TypeOK, NeedsPayment
<1>2. \E r \in NeedsPayment(p) : \A x \in NeedsPayment(p) :
         reservation[r].start <= reservation[x].start
  BY <1>1, FirstStart DEF TypeOK
<1>3. Payer(p) \in NeedsPayment(p)
  BY <1>2 DEF Payer, Earliest
<1> QED
  BY <1>1, <1>3

LEMMA SettledType ==
  ASSUME TypeOK, NEW p \in Procs, NeedsPayment(p) # {}
  PROVE  Settled(p) \in Seq(DepositStatuses)
<1>1. deposits[Payer(p)] \in Seq(DepositStatuses)
  BY PayerInGroup DEF TypeOK, TableTypes
<1>2. loc[p].deposit \in Nat
  BY DEF TypeOK, ProcTypes, Local
<1>3. "CONFIRMADO" \in DepositStatuses
  BY DEF DepositStatuses
<1> QED
  BY <1>1, <1>2, <1>3, DecideType, AppendType DEF Settled


\* Writing one or two columns of a row.
LEMMA RowWrites ==
  ASSUME NEW row \in Row
  PROVE  /\ \A st \in Machine!Statuses : [row EXCEPT !.status = st] \in Row
         /\ \A t \in Nat : [row EXCEPT !.start = t] \in Row
         /\ \A c \in Times, e \in Times :
              [row EXCEPT !.clock = c, !.expires = e] \in Row
         /\ \A d \in DepositIds : [row EXCEPT !.coveredBy = d] \in Row
         /\ \A st \in Machine!Statuses, src \in Machine!Sources :
              [row EXCEPT !.status = st, !.source = src] \in Row
         /\ \A src \in Machine!Sources, c \in Times, e \in Times :
              [row EXCEPT !.source = src, !.clock = c, !.expires = e] \in Row
BY DEF Row

LEMMA AbsentType == Absent \in Row
BY DEF Absent, Row, NoTime, Times, DepositIds, Machine!Statuses,
       Machine!Sources

LEMMA InitType == Init => TypeOK
<1> SUFFICES ASSUME Init PROVE TypeOK
  OBVIOUS
<1>1. ClockTypes
  BY TimingAssumption DEF Init, ClockTypes
<1>2. TableTypes
  <2>0. "PENDIENTE_VALORACION" \in Machine!Statuses
    BY DEF Machine!Statuses
  <2>1. Legacy(Horizon) \in Row
    BY <2>0, AbsentType, TimingAssumption DEF Legacy, Row
  <2>2. reservation \in [Reservations -> Row]
    BY <2>1, AbsentType DEF Init
  <2> QED
    BY <2>2 DEF Init, TableTypes
<1>3. LockTypes
  BY DEF Init, LockTypes
<1>4. ProcTypes
  BY BlankType DEF Init, ProcTypes, Steps
<1> QED
  BY <1>1, <1>2, <1>3, <1>4 DEF TypeOK

\* Statements that run in one step: they change rows and jobs only.
LEMMA StatementType ==
  ASSUME TypeOK, NEW r \in Reservations, Statement(r)
  PROVE  TypeOK'
<1> USE DEF TypeOK
<1>1. CASE Create(r)
  <2>1. PICK start \in [ComboOf[r] -> (now + 1)..Horizon], credited \in BOOLEAN,
             first \in ComboOf[r] :
          SetRows(ComboOf[r], LAMBDA x :
              [Absent EXCEPT
                 !.status = "PENDIENTE_DEPOSITO",
                 !.start = start[x],
                 !.clock = IF credited THEN NoTime ELSE now,
                 !.expires = IF credited THEN NoTime
                             ELSE Expiry(now, start[first], blocked),
                 !.credited = credited])
          /\ Enqueue(IF credited THEN {} ELSE ComboOf[r], "deposito-timeout")
    BY <1>1 DEF Create
  <2>2. now \in Nat /\ blocked \in Nat
    BY TimingAssumption DEF ClockTypes
  <2>3. \A x \in ComboOf[r] : start[x] \in Nat
    BY <2>2
  <2>4. Expiry(now, start[first], blocked) \in Nat
    BY <2>2, <2>3, ExpiryType
  <2>5. ASSUME NEW x \in ComboOf[r]
        PROVE  [Absent EXCEPT
                  !.status = "PENDIENTE_DEPOSITO",
                  !.start = start[x],
                  !.clock = IF credited THEN NoTime ELSE now,
                  !.expires = IF credited THEN NoTime
                              ELSE Expiry(now, start[first], blocked),
                  !.credited = credited] \in Row
    <3> DEFINE c == IF credited THEN NoTime ELSE now
               e == IF credited THEN NoTime
                    ELSE Expiry(now, start[first], blocked)
    <3>1. c \in Times /\ e \in Times /\ start[x] \in Nat
      BY <2>2, <2>3, <2>4 DEF Times
    <3>2. "PENDIENTE_DEPOSITO" \in Machine!Statuses
      BY DEF Machine!Statuses
    <3> HIDE DEF c, e
    <3>3. [Absent EXCEPT !.status = "PENDIENTE_DEPOSITO", !.start = start[x],
                         !.clock = c, !.expires = e,
                         !.credited = credited] \in Row
      BY <3>1, <3>2, AbsentType DEF Row
    <3> QED
      BY <3>3 DEF c, e
  <2>7. reservation' \in [Reservations -> Row]
    BY <2>1, <2>5 DEF SetRows, TableTypes
  <2>6. jobs' \in [Reservations -> SUBSET Jobs]
    BY <2>1, EnqueueType DEF TableTypes, Jobs
  <2> QED
    BY <1>1, <2>6, <2>7 DEF Create, clockVars, lockVars, procVars,
                            ClockTypes, TableTypes, LockTypes, ProcTypes
<1>2. CASE ConfirmValoracion(r)
  <2>1. now \in Nat /\ blocked \in Nat /\ reservation[r].start \in Nat
    BY TimingAssumption DEF ClockTypes, TableTypes, Row
  <2>2. Expiry(now, reservation[r].start, blocked) \in Nat
    BY <2>1, ExpiryType
  <2>3. reservation' \in [Reservations -> Row]
    <3> DEFINE e == Expiry(now, reservation[r].start, blocked)
               waiting == WithStatus(r, "PENDIENTE_DEPOSITO")
    <3>1. "PENDIENTE_DEPOSITO" \in Machine!Statuses
      BY DEF Machine!Statuses
    <3>2. waiting \in Row /\ e \in Times /\ now \in Times
      BY <2>1, <2>2, <3>1, RowWrites DEF WithStatus, TableTypes, Times
    <3>3. [waiting EXCEPT !.clock = now, !.expires = e] \in Row
      <4> HIDE DEF waiting, e
      <4> QED
        BY <3>2, RowWrites
    <3> QED
      BY <1>2, <3>3 DEF ConfirmValoracion, SetRows, TableTypes
  <2>4. jobs' \in [Reservations -> SUBSET Jobs]
    BY <1>2, EnqueueType DEF ConfirmValoracion, TableTypes, Jobs
  <2> QED
    BY <1>2, <2>3, <2>4 DEF ConfirmValoracion, clockVars, lockVars, procVars,
                            ClockTypes, TableTypes, LockTypes, ProcTypes
<1>3. CASE Reschedule(r)
  <2>1. reservation' \in [Reservations -> Row]
    <3>1. PICK start \in (now + 1)..Horizon :
            SetRows({r}, LAMBDA x : [reservation[x] EXCEPT !.start = start])
      BY <1>3 DEF Reschedule
    <3>2. start \in Nat
      BY <3>1, TimingAssumption DEF ClockTypes
    <3>3. [reservation[r] EXCEPT !.start = start] \in Row
      BY <3>2, RowWrites DEF TableTypes
    <3> QED
      BY <3>1, <3>3 DEF SetRows, TableTypes
  <2>2. jobs' \in [Reservations -> SUBSET Jobs]
    BY <1>3, EnqueueType DEF Reschedule, TableTypes, Jobs
  <2> QED
    BY <1>3, <2>1, <2>2 DEF Reschedule, clockVars, lockVars, procVars,
                            ClockTypes, TableTypes, LockTypes, ProcTypes
<1>4. CASE AdminCancel(r)
  <2>1. Cancelled(r, "ADMIN") \in Row
    <3>1. "CANCELADA" \in Machine!Statuses /\ "ADMIN" \in Machine!Sources
      BY DEF Machine!Statuses, Machine!Sources
    <3> QED
      BY <3>1, RowWrites DEF Cancelled, TableTypes
  <2>2. reservation' \in [Reservations -> Row]
    BY <1>4, <2>1 DEF AdminCancel, SetRows, TableTypes
  <2> QED
    BY <1>4, <2>2 DEF AdminCancel, clockVars, lockVars, procVars,
                      ClockTypes, TableTypes, LockTypes, ProcTypes
<1>5. CASE Revive(r)
  <2>1. ASSUME NEW x \in Reservations
        PROVE  [WithStatus(x, "PENDIENTE_DEPOSITO") EXCEPT
                  !.source = "NINGUNA", !.clock = NoTime, !.expires = NoTime]
                 \in Row
    <3> DEFINE waiting == WithStatus(x, "PENDIENTE_DEPOSITO")
    <3>1. /\ "PENDIENTE_DEPOSITO" \in Machine!Statuses
          /\ "NINGUNA" \in Machine!Sources
          /\ NoTime \in Times
      BY DEF Machine!Statuses, Machine!Sources, Times
    <3>2. waiting \in Row
      BY <3>1, RowWrites DEF WithStatus, TableTypes
    <3> HIDE DEF waiting
    <3>3. [waiting EXCEPT !.source = "NINGUNA", !.clock = NoTime,
                          !.expires = NoTime] \in Row
      BY <3>1, <3>2, RowWrites
    <3> QED
      BY <3>3 DEF waiting
  <2>2. reservation' \in [Reservations -> Row]
    BY <1>5, <2>1 DEF Revive, SetRows, TableTypes
  <2> QED
    BY <1>5, <2>2 DEF Revive, clockVars, lockVars, procVars,
                      ClockTypes, TableTypes, LockTypes, ProcTypes
<1>6. CASE Complete(r)
  <2>1. WithStatus(r, "COMPLETADA") \in Row
    <3>1. "COMPLETADA" \in Machine!Statuses
      BY DEF Machine!Statuses
    <3> QED
      BY <3>1, RowWrites DEF WithStatus, TableTypes
  <2>2. reservation' \in [Reservations -> Row]
    BY <1>6, <2>1 DEF Complete, SetRows, TableTypes
  <2> QED
    BY <1>6, <2>2 DEF Complete, clockVars, lockVars, procVars,
                      ClockTypes, TableTypes, LockTypes, ProcTypes
<1> QED
  BY <1>1, <1>2, <1>3, <1>4, <1>5, <1>6 DEF Statement


\* The first step of a handler only reads.
LEMMA BeginType ==
  ASSUME TypeOK, NEW p \in Requests, NEW r \in Reservations, Begin(p, r)
  PROVE  TypeOK'
<1>1. p \in Procs
  BY DEF Procs
<1>2. ASSUME NEW read \in Local, read.target \in Reservations,
             NEW step \in Steps, Go(p, step, read)
      PROVE  ProcTypes'
  BY <1>1, <1>2, GoType DEF TypeOK
<1>3. Status(r) # "ABSENT" => [x \in {r} |-> Status(x)] \in Readings
  <2>1. Status(r) # "ABSENT" => Status(r) \in Machine!Statuses
    BY DEF Status, TypeOK, TableTypes, Row
  <2> QED
    BY <2>1, ReadingType
<1>4. reservation[r].start \in Nat /\ Len(deposits[r]) \in Nat
  BY DEF TypeOK, TableTypes, Row
<1>5. ProcTypes'
  <2>1. CASE Submit(p, r)
    <3>1. PICK automatic \in BOOLEAN :
            Go(p, "submit", [Blank EXCEPT !.target = r, !.flag = automatic])
      BY <2>1 DEF Submit
    <3>2. [Blank EXCEPT !.target = r, !.flag = automatic] \in Local
      BY BlankType DEF Local
    <3> QED
      BY <3>1, <3>2, <1>2 DEF Blank, Steps
  <2>2. CASE Approve(p, r)
    <3> DEFINE read(amount) == [Blank EXCEPT !.target = r, !.flag = amount,
                                             !.start = reservation[r].start]
               anchor(amount) ==
                 [read(amount) EXCEPT !.seen = [x \in {r} |-> Status(x)]]
    <3>1. PICK amount \in BOOLEAN :
            \/ Go(p, "approveLatest", read(amount))
            \/ Go(p, "approveGroup", read(amount))
            \/ Go(p, "approveTx", anchor(amount))
      BY <2>2 DEF Approve
    <3>2. read(amount) \in Local /\ read(amount).target = r
      BY <1>4, BlankType DEF Local, Blank
    <3>3. anchor(amount) \in Local /\ anchor(amount).target = r
      BY <1>3, <2>2, <3>2 DEF Local, Approve
    <3> QED
      <4> HIDE DEF read, anchor
      <4> QED
        BY <3>1, <3>2, <3>3, <1>2 DEF Steps
  <2>3. CASE Reject(p, r)
    <3>1. [Blank EXCEPT !.target = r, !.deposit = Len(deposits[r])] \in Local
      BY <1>4, BlankType DEF Local
    <3> QED
      BY <2>3, <3>1, <1>2 DEF Reject, Blank, Steps
  <2>4. CASE ClientCancel(p, r)
    <3>1. PICK S \in SUBSET Reservations :
            /\ \A x \in S : ClientCancellable(x)
            /\ Go(p, "clientCancel",
                  [Blank EXCEPT !.target = r, !.seen = [x \in S |-> Status(x)]])
      <4> DEFINE sameDay == {x \in Reservations :
                    Day(reservation[x].start) = Day(reservation[r].start)}
                 planned(S) == {x \in S : ClientCancellable(x)}
      <4>1. PICK scope \in {{r}, sameDay} :
              Go(p, "clientCancel",
                 [Blank EXCEPT !.target = r,
                    !.seen = [x \in planned(scope) |-> Status(x)]])
        BY <2>4 DEF ClientCancel
      <4>2. planned(scope) \in SUBSET Reservations
        OBVIOUS
      <4> QED
        BY <4>1, <4>2
    <3>2. \A x \in S : Status(x) \in Machine!Statuses
      BY <3>1 DEF ClientCancellable, Machine!Statuses
    <3>3. [x \in S |-> Status(x)] \in Readings
      BY <3>2, ReadingType
    <3>4. [Blank EXCEPT !.target = r, !.seen = [x \in S |-> Status(x)]] \in Local
      BY <3>3, BlankType DEF Local
    <3> QED
      BY <3>1, <3>4, <1>2 DEF Blank, Steps
  <2>5. CASE CheckIn(p, r)
    <3>1. Status(r) # "ABSENT"
      BY <2>5 DEF CheckIn, Machine!CanTransition, Machine!Statuses
    <3>2. [Blank EXCEPT !.target = r, !.seen = [x \in {r} |-> Status(x)]]
            \in Local
      BY <3>1, <1>3, BlankType DEF Local
    <3> QED
      BY <2>5, <3>2, <1>2 DEF CheckIn, Blank, Steps
  <2> QED
    BY <2>1, <2>2, <2>3, <2>4, <2>5 DEF Begin
<1>6. UNCHANGED <<clockVars, reservation, deposits, jobs, lockVars, crashes>>
  BY DEF Begin, Submit, Approve, Reject, ClientCancel, CheckIn
<1> QED
  BY <1>5, <1>6 DEF TypeOK, clockVars, lockVars, ClockTypes, TableTypes, LockTypes


LEMMA JobType ==
  ASSUME TypeOK, NEW w \in Workers, NEW r \in Reservations, Job(w, r)
  PROVE  TypeOK'
<1>1. w \in Procs
  BY DEF Procs
<1>2. ASSUME NEW step \in Steps,
             Go(w, step, [Blank EXCEPT !.target = r]) \/ Finish(w)
      PROVE  ProcTypes'
  <2>1. [Blank EXCEPT !.target = r] \in Local
    BY BlankType DEF Local
  <2> QED
    BY <1>1, <1>2, <2>1, GoType, FinishType DEF TypeOK, Blank
<1>3. ProcTypes'
  BY <1>2 DEF Job, DepositJob, DepositSweep, NoShowJob, NoShowSweep,
              TimeoutRead, NoShowRead, Steps
<1>4. jobs' \in [Reservations -> SUBSET Jobs]
  BY DEF TypeOK, TableTypes, Job, DepositJob, DepositSweep, NoShowJob,
         NoShowSweep, Deliver
<1>5. UNCHANGED <<clockVars, reservation, deposits, lockVars, crashes>>
  BY DEF Job, DepositJob, DepositSweep, NoShowJob, NoShowSweep
<1> QED
  BY <1>3, <1>4, <1>5 DEF TypeOK, clockVars, lockVars, ClockTypes, TableTypes,
                          LockTypes

\* The row changes of handlers and workers.
LEMMA StatusWrites ==
  ASSUME TypeOK, NEW S, NEW st \in Machine!Statuses, NEW src \in Machine!Sources,
         \/ SetRows(S, LAMBDA x : WithStatus(x, st))
         \/ st = "CANCELADA" /\ SetRows(S, LAMBDA x : Cancelled(x, src))
  PROVE  reservation' \in [Reservations -> Row]
<1>1. ASSUME NEW x \in Reservations
      PROVE  WithStatus(x, st) \in Row
  BY RowWrites DEF WithStatus, TypeOK, TableTypes
<1>2. ASSUME NEW x \in Reservations, st = "CANCELADA"
      PROVE  Cancelled(x, src) \in Row
  BY <1>2 DEF Cancelled, TypeOK, TableTypes, Row
<1> QED
  BY <1>1, <1>2 DEF SetRows, TypeOK, TableTypes

LEMMA WorkerStepType ==
  ASSUME TypeOK, NEW w \in Workers, WorkerStep(w)
  PROVE  TypeOK'
<1>1. w \in Procs
  BY DEF Procs
<1>2. ASSUME pc[w] # "idle"
      PROVE  loc[w] \in Local /\ loc[w].target \in Reservations
  BY <1>1, <1>2 DEF TypeOK, ProcTypes
<1>3. CASE ProofCheck(w)
  <2>1. ProcTypes'
    BY <1>1, <1>2, <1>3, GoType, FinishType DEF ProofCheck, TypeOK, Steps
  <2> QED
    BY <1>3, <2>1 DEF ProofCheck, TypeOK, clockVars, lockVars, ClockTypes,
                      TableTypes, LockTypes
<1>4. CASE TimeoutFind(w)
  <2> DEFINE r == loc[w].target
             read == [loc[w] EXCEPT !.seen = [x \in {r} |-> Status(x)]]
  <2>1. Machine!CanTransition(Status(r), "CANCELADA") => read \in Local
    <3>1. SUFFICES ASSUME Machine!CanTransition(Status(r), "CANCELADA")
                   PROVE  read \in Local
      OBVIOUS
    <3>2. Status(r) \in Machine!Statuses
      BY <3>1 DEF Machine!CanTransition
    <3>3. loc[w] \in Local /\ r \in Reservations
      BY <1>2, <1>4 DEF TimeoutFind
    <3>4. [x \in {r} |-> Status(x)] \in Readings
      BY <3>2, <3>3, ReadingType
    <3> QED
      BY <3>3, <3>4 DEF Local
  <2>2. read.target = r
    BY <1>2, <1>4 DEF Local, TimeoutFind
  <2>3. ProcTypes'
    <3> HIDE DEF read
    <3>1. (Machine!CanTransition(Status(r), "CANCELADA")
             /\ Go(w, "timeoutLock", read)) \/ Finish(w)
      BY <1>4 DEF TimeoutFind, read
    <3> QED
      BY <3>1, <1>1, <1>2, <1>4, <2>1, <2>2, GoType, FinishType
      DEF TypeOK, Steps, TimeoutFind
  <2> QED
    BY <1>4, <2>3 DEF TimeoutFind, TypeOK, clockVars, lockVars, ClockTypes,
                      TableTypes, LockTypes
<1>5. CASE TimeoutLock(w)
  <2>1. ProcTypes'
    BY <1>1, <1>2, <1>5, GoType, FinishType DEF TimeoutLock, TypeOK, Steps
  <2>2. LockTypes'
    BY <1>1, <1>5, LockRowsType DEF TimeoutLock, TypeOK, LockTypes
  <2> QED
    BY <1>5, <2>1, <2>2 DEF TimeoutLock, TypeOK, clockVars, ClockTypes,
                            TableTypes
<1>6. CASE TimeoutCas(w)
  <2>1. ProcTypes' /\ LockTypes'
    BY <1>1, <1>6, FinishType, ReleaseRowsType DEF TimeoutCas, TypeOK
  <2>2. "CANCELADA" \in Machine!Statuses /\ "TIMEOUT" \in Machine!Sources
    BY DEF Machine!Statuses, Machine!Sources
  <2>3. reservation' \in [Reservations -> Row]
    BY <1>6, <2>2, StatusWrites DEF TimeoutCas
  <2> QED
    BY <1>6, <2>1, <2>3 DEF TimeoutCas, TypeOK, clockVars, ClockTypes, TableTypes
<1>7. CASE NoShowCas(w)
  <2>1. ProcTypes'
    BY <1>1, <1>7, FinishType DEF NoShowCas, TypeOK
  <2>2. "NO_SHOW" \in Machine!Statuses /\ "TIMEOUT" \in Machine!Sources
    BY DEF Machine!Statuses, Machine!Sources
  <2>3. reservation' \in [Reservations -> Row]
    BY <1>7, <2>2, StatusWrites DEF NoShowCas
  <2> QED
    BY <1>7, <2>1, <2>3 DEF NoShowCas, TypeOK, clockVars, lockVars, ClockTypes,
                            TableTypes, LockTypes
<1> QED
  BY <1>3, <1>4, <1>5, <1>6, <1>7 DEF WorkerStep

LEMMA OtherType ==
  ASSUME TypeOK,
         \/ \E p \in Procs : DeadlockVictim(p) \/ Crash(p)
         \/ BlockSchedule \/ Tick \/ UNCHANGED vars
  PROVE  TypeOK'
<1>1. CASE \E p \in Procs : DeadlockVictim(p) \/ Crash(p)
  <2>1. PICK p \in Procs : DeadlockVictim(p) \/ Crash(p)
    BY <1>1
  <2>2. ProcTypes' /\ LockTypes'
    BY <2>1, FinishType, ReleaseAllType DEF DeadlockVictim, Crash, TypeOK
  <2>3. TableTypes' /\ ClockTypes'
    BY <2>1, TimingAssumption
    DEF DeadlockVictim, Crash, TypeOK, TableTypes, ClockTypes, clockVars
  <2> QED
    BY <2>2, <2>3 DEF TypeOK
<1>2. CASE BlockSchedule
  <2> DEFINE Longer(r) == Expiry(reservation[r].clock, reservation[r].start,
                                 blocked + 1)
             Running == {r \in Reservations : reservation[r].clock # NoTime}
  <2>1. ASSUME NEW r \in Running
        PROVE  [reservation[r] EXCEPT !.expires = Longer(r)] \in Row
    <3>1. reservation[r] \in Row /\ reservation[r].clock \in Nat
             /\ reservation[r].start \in Nat /\ blocked + 1 \in Nat
      BY TimingAssumption
      DEF TypeOK, TableTypes, ClockTypes, Row, Times, NoTime
    <3>2. Longer(r) \in Times
      BY <3>1, ExpiryType DEF Times
    <3> HIDE DEF Longer
    <3> QED
      BY <3>1, <3>2 DEF Row
  <2>2. PICK S \in SUBSET Running :
          /\ SetRows(S, LAMBDA r :
               [reservation[r] EXCEPT !.expires = Longer(r)])
          /\ Enqueue(S, "deposito-timeout")
    BY <1>2 DEF BlockSchedule
  <2>3. reservation' \in [Reservations -> Row]
    <3> HIDE DEF Longer, Running
    <3> QED
      BY <2>1, <2>2 DEF SetRows, TypeOK, TableTypes
  <2>4. jobs' \in [Reservations -> SUBSET Jobs]
    BY <2>2, EnqueueType DEF TypeOK, TableTypes, Jobs
  <2>5. ClockTypes'
    BY <1>2, TimingAssumption DEF BlockSchedule, TypeOK, ClockTypes
  <2> QED
    BY <1>2, <2>3, <2>4, <2>5 DEF BlockSchedule, TypeOK, TableTypes, LockTypes,
                                  ProcTypes, lockVars, procVars
<1>3. CASE Tick
  BY <1>3, TimingAssumption DEF Tick, TypeOK, ClockTypes, TableTypes, LockTypes,
                                ProcTypes, lockVars, procVars
<1>4. CASE UNCHANGED vars
  BY <1>4 DEF vars, TypeOK, ClockTypes, TableTypes, LockTypes, ProcTypes
<1> QED
  BY <1>1, <1>2, <1>3, <1>4


\* Steps of a request that read, lock, or give up.
LEMMA ReadStepType ==
  ASSUME TypeOK, NEW p \in Requests,
         \/ SubmitLock(p) \/ ApproveGroup(p) \/ ApproveTx(p) \/ ApproveAbort(p)
         \/ ApproveLatest(p) \/ RejectRead(p) \/ RejectMark(p)
  PROVE  TypeOK'
<1>1. p \in Procs /\ pc[p] # "idle"
  BY DEF Procs, SubmitLock, ApproveGroup, ApproveTx, ApproveAbort,
         ApproveLatest, RejectRead, RejectMark
<1>2. loc[p] \in Local /\ loc[p].target \in Reservations
  BY <1>1 DEF TypeOK, ProcTypes
<1>3. ASSUME NEW read \in Local, read.target = loc[p].target,
             NEW step \in Steps, Go(p, step, read)
      PROVE  ProcTypes'
  BY <1>1, <1>2, <1>3, GoType DEF TypeOK
<1>4. ClockTypes' /\ TableTypes'
  BY DEF SubmitLock, ApproveGroup, ApproveTx, ApproveAbort, ApproveLatest,
         RejectRead, RejectMark, TypeOK, clockVars, ClockTypes, TableTypes
<1>5. CASE SubmitLock(p)
  <2>1. ProcTypes'
    BY <1>1, <1>2, <1>3, <1>5, FinishType DEF SubmitLock, TypeOK, Steps
  <2>2. LockTypes'
    BY <1>1, <1>5, LockRowsType DEF SubmitLock, TypeOK, LockTypes
  <2> QED
    BY <1>4, <2>1, <2>2 DEF TypeOK
<1>6. CASE ApproveGroup(p)
  <2> DEFINE group == {r \in Reservations :
                  /\ Status(r) = "PENDIENTE_DEPOSITO"
                  /\ Day(reservation[r].start) = Day(loc[p].start)}
             read == [loc[p] EXCEPT !.seen = [x \in group |-> Status(x)]]
  <2>1. [x \in group |-> Status(x)] \in Readings
    BY ReadingType DEF Machine!Statuses
  <2>2. read \in Local /\ read.target = loc[p].target
    BY <1>2, <2>1 DEF Local
  <2>3. Go(p, "approveTx", read)
    BY <1>6 DEF ApproveGroup
  <2>4. ProcTypes'
    <3> HIDE DEF read
    <3> QED
      BY <1>3, <2>2, <2>3 DEF Steps
  <2> QED
    BY <1>4, <1>6, <2>4 DEF ApproveGroup, TypeOK, LockTypes, lockVars
<1>7. CASE ApproveTx(p)
  <2> DEFINE pending == NeedsPayment(p) # {} /\ Latest(Payer(p)) = "PENDIENTE"
             read == [loc[p] EXCEPT !.deposit = IF pending
                                                THEN Len(deposits[Payer(p)])
                                                ELSE 0]
  <2>1. pending => Len(deposits[Payer(p)]) \in Nat
    BY <1>1, PayerInGroup DEF TypeOK, TableTypes
  <2>2. read \in Local /\ read.target = loc[p].target
    <3> HIDE DEF pending
    <3> QED
      BY <1>2, <2>1 DEF Local
  <2>3. \/ Go(p, "approveResolve", read)
        \/ Finish(p)
    BY <1>7 DEF ApproveTx
  <2>4. ProcTypes'
    <3> HIDE DEF read
    <3> QED
      BY <1>1, <1>3, <2>2, <2>3, FinishType DEF Steps, TypeOK
  <2>5. LockTypes'
    BY <1>1, <1>7, LockRowsType DEF ApproveTx, TypeOK, LockTypes
  <2> QED
    BY <1>4, <2>4, <2>5 DEF TypeOK
<1>8. CASE ApproveAbort(p)
  <2>1. ProcTypes' /\ LockTypes'
    BY <1>1, <1>8, FinishType, ReleaseRowsType DEF ApproveAbort, TypeOK
  <2> QED
    BY <1>4, <2>1 DEF TypeOK
<1>9. CASE ApproveLatest(p)
  <2>0. Len(deposits[loc[p].target]) \in Nat
    BY <1>2 DEF TypeOK, TableTypes
  <2>1. [loc[p] EXCEPT !.deposit = Len(deposits[loc[p].target])] \in Local
    BY <1>2, <2>0 DEF Local
  <2>2. [loc[p] EXCEPT !.deposit = Len(deposits[loc[p].target])].target
          = loc[p].target
    BY <1>2 DEF Local
  <2>3. ProcTypes'
    BY <1>1, <1>3, <1>9, <2>1, <2>2, FinishType DEF ApproveLatest, TypeOK, Steps
  <2> QED
    BY <1>4, <1>9, <2>3 DEF ApproveLatest, TypeOK, LockTypes, lockVars
<1>10. CASE RejectRead(p)
  <2> DEFINE r == loc[p].target
             deadline == Expiry(now, reservation[r].start, blocked)
             read == [loc[p] EXCEPT !.clock = now, !.expires = deadline]
  <2>1. now \in Nat /\ blocked \in Nat /\ reservation[r].start \in Nat
    BY <1>2, TimingAssumption DEF TypeOK, ClockTypes, TableTypes, Row
  <2>2. now \in Times /\ deadline \in Times
    BY <2>1, ExpiryType DEF Times
  <2>3. read \in Local /\ read.target = r
    <3> HIDE DEF deadline
    <3> QED
      BY <1>2, <2>2 DEF Local
  <2>4. Go(p, "rejectMark", read) \/ Go(p, "rejectMark", loc[p])
    BY <1>10 DEF RejectRead
  <2>5. ProcTypes'
    <3> HIDE DEF read
    <3> QED
      BY <1>2, <1>3, <2>3, <2>4 DEF Steps
  <2> QED
    BY <1>4, <1>10, <2>5 DEF RejectRead, TypeOK, LockTypes, lockVars
<1>11. CASE RejectMark(p)
  <2>1. ProcTypes'
    BY <1>1, <1>2, <1>3, <1>11, FinishType DEF RejectMark, TypeOK, Steps
  <2>2. LockTypes'
    BY <1>1, <1>11 DEF RejectMark, TypeOK, LockTypes
  <2> QED
    BY <1>4, <2>1, <2>2 DEF TypeOK
<1> QED
  BY <1>5, <1>6, <1>7, <1>8, <1>9, <1>10, <1>11

\* Steps of a request that write.
LEMMA WriteStepType ==
  ASSUME TypeOK, NEW p \in Requests,
         \/ RecordProof(p) \/ AutoConfirm(p) \/ ApproveFree(p) \/ ApprovePaid(p)
         \/ ApproveProof(p) \/ RejectRestart(p) \/ ClientCancelTx(p)
         \/ CheckInCas(p)
  PROVE  TypeOK'
<1>1. p \in Procs /\ pc[p] # "idle"
  BY DEF Procs, RecordProof, AutoConfirm, ApproveFree, ApprovePaid,
         ApproveProof, RejectRestart, ClientCancelTx, CheckInCas
<1>2. loc[p] \in Local /\ loc[p].target \in Reservations
  BY <1>1 DEF TypeOK, ProcTypes
<1>3. ClockTypes'
  BY DEF RecordProof, AutoConfirm, ApproveFree, ApprovePaid, ApproveProof,
         RejectRestart, ClientCancelTx, CheckInCas, TypeOK, clockVars, ClockTypes
<1>4. {"CONFIRMADO", "PENDIENTE", "RECHAZADO"} \subseteq DepositStatuses
  BY DEF DepositStatuses
<1>5. /\ {"CONFIRMADA", "CANCELADA", "CITA_EN_CURSO"} \subseteq Machine!Statuses
      /\ "CLIENT" \in Machine!Sources
  BY DEF Machine!Statuses, Machine!Sources
<1>6. ASSUME NEW r \in Reservations, NEW s \in Seq(DepositStatuses),
             deposits' = [deposits EXCEPT ![r] = s]
      PROVE  deposits' \in [Reservations -> Seq(DepositStatuses)]
  BY <1>6 DEF TypeOK, TableTypes
<1>7. ASSUME NEW r \in Reservations, NEW i \in Nat, NEW e \in DepositStatuses
      PROVE  [deposits[r] EXCEPT ![i] = e] \in Seq(DepositStatuses)
  BY DecideType DEF TypeOK, TableTypes
<1>8. CASE RecordProof(p)
  <2>1. ProcTypes'
    BY <1>1, <1>2, <1>8, GoType, FinishType DEF RecordProof, TypeOK, Steps
  <2>2. LockTypes'
    BY <1>1, <1>8, ReleaseRowsType DEF RecordProof, TypeOK
  <2>3. \A e \in DepositStatuses :
          Append(Superseded(loc[p].target), e) \in Seq(DepositStatuses)
    BY <1>2, SupersededType, AppendType DEF TypeOK
  <2>4. PICK e \in DepositStatuses :
          deposits' = [deposits EXCEPT ![loc[p].target] =
                         Append(Superseded(loc[p].target), e)]
    BY <1>4, <1>8 DEF RecordProof
  <2>5. deposits' \in [Reservations -> Seq(DepositStatuses)]
    BY <1>2, <1>6, <2>3, <2>4
  <2> QED
    BY <1>3, <1>8, <2>1, <2>2, <2>5 DEF RecordProof, TypeOK, TableTypes
<1>9. CASE AutoConfirm(p)
  <2>1. ProcTypes'
    BY <1>1, <1>9, FinishType DEF AutoConfirm, TypeOK
  <2>2. reservation' \in [Reservations -> Row]
    BY <1>5, <1>9, StatusWrites DEF AutoConfirm, TypeOK, TableTypes
  <2>3. jobs' \in [Reservations -> SUBSET Jobs]
    BY <1>9, EnqueueType DEF AutoConfirm, TypeOK, TableTypes, Jobs
  <2> QED
    BY <1>3, <1>9, <2>1, <2>2, <2>3 DEF AutoConfirm, TypeOK, TableTypes,
                                        LockTypes, lockVars
<1>10. CASE ApproveFree(p)
  <2>1. ProcTypes' /\ LockTypes'
    BY <1>1, <1>10, FinishType, ReleaseRowsType DEF ApproveFree, TypeOK
  <2>2. reservation' \in [Reservations -> Row]
    BY <1>5, <1>10, StatusWrites DEF ApproveFree
  <2>3. jobs' \in [Reservations -> SUBSET Jobs]
    BY <1>10, EnqueueType DEF ApproveFree, TypeOK, TableTypes, Jobs
  <2> QED
    BY <1>3, <1>10, <2>1, <2>2, <2>3 DEF ApproveFree, TypeOK, TableTypes
<1>11. CASE ApprovePaid(p)
  <2>1. ProcTypes' /\ LockTypes'
    BY <1>1, <1>11, FinishType, ReleaseRowsType DEF ApprovePaid, TypeOK
  <2>2. Payer(p) \in Reservations /\ Settled(p) \in Seq(DepositStatuses)
    BY <1>1, <1>11, PayerInGroup, SettledType DEF ApprovePaid
  <2>3. deposits' \in [Reservations -> Seq(DepositStatuses)]
    BY <1>6, <1>11, <2>2 DEF ApprovePaid
  <2>4. ASSUME NEW r \in Reservations, NEW b \in BOOLEAN
        PROVE  [WithStatus(r, "CONFIRMADA") EXCEPT
                  !.coveredBy = IF b THEN <<Payer(p), Len(Settled(p))>>
                                ELSE @] \in Row
    <3>1. WithStatus(r, "CONFIRMADA") \in Row
      BY <1>5, RowWrites DEF WithStatus, TypeOK, TableTypes
    <3>2. <<Payer(p), Len(Settled(p))>> \in DepositIds
      BY <2>2 DEF DepositIds
    <3> QED
      BY <3>1, <3>2 DEF Row
  <2>5. reservation' \in [Reservations -> Row]
    <3>1. \A r \in Reservations :
            (r \in NeedsPayment(p) \ {Payer(p)}) \in BOOLEAN
      OBVIOUS
    <3> QED
      BY <1>11, <2>4, <3>1 DEF ApprovePaid, SetRows, TypeOK, TableTypes
  <2>6. jobs' \in [Reservations -> SUBSET Jobs]
    BY <1>11, EnqueueType DEF ApprovePaid, TypeOK, TableTypes, Jobs
  <2> QED
    BY <1>3, <2>1, <2>3, <2>5, <2>6 DEF TypeOK, TableTypes
<1>12. CASE ApproveProof(p)
  <2>1. ProcTypes'
    BY <1>1, <1>12, FinishType DEF ApproveProof, TypeOK
  <2>2. loc[p].deposit \in Nat
    BY <1>2 DEF Local
  <2>3. deposits' \in [Reservations -> Seq(DepositStatuses)]
    BY <1>2, <1>4, <1>6, <1>7, <1>12, <2>2 DEF ApproveProof, TypeOK, TableTypes
  <2> QED
    BY <1>3, <1>12, <2>1, <2>3 DEF ApproveProof, TypeOK, TableTypes, LockTypes,
                                   lockVars
<1>13. CASE RejectRestart(p)
  <2>1. ProcTypes'
    BY <1>1, <1>13, FinishType DEF RejectRestart, TypeOK
  <2>2. loc[p].deposit \in Nat /\ loc[p].clock \in Times /\ loc[p].expires \in Times
    BY <1>2 DEF Local
  <2>3. deposits' \in [Reservations -> Seq(DepositStatuses)]
    BY <1>2, <1>4, <1>6, <1>7, <1>13, <2>2 DEF RejectRestart
  <2>4. \A x \in Reservations :
          [reservation[x] EXCEPT !.clock = loc[p].clock,
                                 !.expires = loc[p].expires] \in Row
    BY <2>2, RowWrites DEF TypeOK, TableTypes
  <2>5. reservation' \in [Reservations -> Row]
    BY <1>13, <2>4 DEF RejectRestart, SetRows, TypeOK, TableTypes
  <2>6. jobs' \in [Reservations -> SUBSET Jobs]
    BY <1>13, EnqueueType DEF RejectRestart, TypeOK, TableTypes, Jobs
  <2>7. LockTypes'
    BY <1>13 DEF RejectRestart, ReleaseProofs, TypeOK, LockTypes
  <2> QED
    BY <1>3, <2>1, <2>3, <2>5, <2>6, <2>7 DEF TypeOK, TableTypes
<1>14. CASE ClientCancelTx(p)
  <2>1. ProcTypes'
    BY <1>1, <1>14, FinishType DEF ClientCancelTx, TypeOK
  <2>2. reservation' \in [Reservations -> Row]
    BY <1>5, <1>14, StatusWrites DEF ClientCancelTx
  <2> QED
    BY <1>3, <1>14, <2>1, <2>2 DEF ClientCancelTx, TypeOK, TableTypes,
                                   LockTypes, lockVars
<1>15. CASE CheckInCas(p)
  <2>1. ProcTypes'
    BY <1>1, <1>15, FinishType DEF CheckInCas, TypeOK
  <2>2. reservation' \in [Reservations -> Row]
    BY <1>5, <1>15, StatusWrites DEF CheckInCas
  <2> QED
    BY <1>3, <1>15, <2>1, <2>2 DEF CheckInCas, TypeOK, TableTypes, LockTypes,
                                   lockVars
<1> QED
  BY <1>8, <1>9, <1>10, <1>11, <1>12, <1>13, <1>14, <1>15

\* Every handler, worker, failure and tick of the clock keeps the tables, the
\* locks and the handlers' readings well formed.
THEOREM TypeCorrect == Spec => []TypeOK
<1>1. ASSUME TypeOK, [Next]_vars
      PROVE  TypeOK'
  BY <1>1, StatementType, BeginType, JobType, ReadStepType, WriteStepType,
     WorkerStepType, OtherType
  DEF Next, RequestStep
<1> QED
  BY <1>1, InitType, PTL DEF Spec

---------------------------------------------------------------------------
(* What a step leaves alone                                                *)

\* A step of another process does not disturb p, nor the rows p has locked.
Stays(p) ==
  /\ pc'[p] = pc[p] /\ loc'[p] = loc[p]
  /\ \A r \in Reservations : rowLock[r] = p =>
       /\ rowLock'[r] = p
       /\ Status(r) # "ABSENT" => Status(r)' = Status(r)
       /\ HasSubmittedProof(r)' => HasSubmittedProof(r)

LEMMA StaysProtected ==
  ASSUME TypeOK, NEW p \in Procs, Guarded(p), PlanLegal(p), Stays(p)
  PROVE  Guarded(p)' /\ PlanLegal(p)'
<1>1. PlanLegal(p)'
  BY DEF PlanLegal, Stays
<1>2. pc[p] # "idle" => loc[p].target \in Reservations
  BY DEF TypeOK, ProcTypes
<1>3. DOMAIN loc[p].seen \in SUBSET Reservations
  BY SeenType DEF TypeOK
<1>4. ~ Machine!CanTransition("ABSENT", "CONFIRMADA")
  BY DEF Machine!CanTransition, Machine!Statuses
<1>5. Guarded(p)'
  BY <1>2, <1>3, <1>4 DEF Guarded, Stays
<1> QED
  BY <1>1, <1>5

\* An idle process guards nothing.
LEMMA IdleProtected ==
  ASSUME NEW p \in Procs, ProcTypes, Finish(p)
  PROVE  Guarded(p)' /\ PlanLegal(p)'
<1>1. pc'[p] = "idle"
  BY DEF Finish, Go, ProcTypes
<1> QED
  BY <1>1 DEF Guarded, PlanLegal

\* The rows are explained: a cancelled one, and only that, says who cancelled
\* it, and one cancelled by time has no proof to decide on.
Explained(r) ==
  /\ Status(r) = "CANCELADA" <=> reservation[r].source # "NINGUNA"
  /\ Status(r) = "CANCELADA" /\ reservation[r].source = "TIMEOUT"
       => ~HasSubmittedProof(r)

LEMMA ProtocolParts ==
  Protocol <=> /\ TypeOK
               /\ \A p \in Procs : Guarded(p) /\ PlanLegal(p)
               /\ \A r \in Reservations : Explained(r)
BY DEF Protocol, Explained, SourceTellsCancelled, ProofBlocksTimeout

LEMMA InitProtocol == Init => Protocol
<1> SUFFICES ASSUME Init PROVE Protocol
  OBVIOUS
<1>1. TypeOK
  BY InitType
<1>2. ASSUME NEW p \in Procs
      PROVE  Guarded(p) /\ PlanLegal(p)
  BY DEF Init, Guarded, PlanLegal
<1>3. ASSUME NEW r \in Reservations
      PROVE  Explained(r)
  <2> DEFINE Rows == {Absent} \cup IF "confirmValoracion" \in Offered
                                    THEN {Legacy(Horizon)} ELSE {}
  <2>0. reservation \in [Reservations -> Rows]
    BY DEF Init
  <2>1. reservation[r] \in {Absent, Legacy(Horizon)}
    <3>1. Rows \subseteq {Absent, Legacy(Horizon)}
      OBVIOUS
    <3> QED
      BY <2>0, <3>1
  <2>2. Status(r) # "CANCELADA" /\ reservation[r].source = "NINGUNA"
    <3>1. Absent.status = "ABSENT" /\ Absent.source = "NINGUNA"
      BY DEF Absent
    <3>2. /\ Legacy(Horizon).status = "PENDIENTE_VALORACION"
          /\ Legacy(Horizon).source = "NINGUNA"
      BY DEF Legacy, Absent
    <3> QED
      BY <2>1, <3>1, <3>2 DEF Status
  <2> QED
    BY <2>2 DEF Explained
<1> QED
  BY <1>1, <1>2, <1>3, ProtocolParts

---------------------------------------------------------------------------
(* Steps that read or lock                                                 *)

\* Rows and deposits stay as they are.
LEMMA ExplainedKept ==
  ASSUME \A r \in Reservations : Explained(r), UNCHANGED <<reservation, deposits>>
  PROVE  \A r \in Reservations : Explained(r)'
BY DEF Explained, Status, HasSubmittedProof

LEMMA GoOthers ==
  ASSUME ProcTypes, NEW q \in Procs, NEW step, NEW read, Go(q, step, read),
         NEW p \in Procs \ {q}
  PROVE  pc'[p] = pc[p] /\ loc'[p] = loc[p]
BY DEF Go, ProcTypes

LEMMA GoSelf ==
  ASSUME ProcTypes, NEW q \in Procs, NEW step, NEW read, Go(q, step, read)
  PROVE  pc'[q] = step /\ loc'[q] = read
BY DEF Go, ProcTypes

\* A step of q that writes no row and no deposit, and takes only free locks
\* or gives back its own.
LEMMA ReadingOthers ==
  ASSUME TypeOK, NEW q \in Procs,
         \E step, read : Go(q, step, read),
         UNCHANGED <<reservation, deposits>>,
         \/ UNCHANGED rowLock
         \/ ReleaseRows(q)
         \/ \E S : Unlocked(S) /\ LockRows(q, S),
         NEW p \in Procs \ {q}
  PROVE  Stays(p)
<1>1. pc'[p] = pc[p] /\ loc'[p] = loc[p]
  BY GoOthers DEF TypeOK
<1>2. ASSUME NEW r \in Reservations, rowLock[r] = p
      PROVE  rowLock'[r] = p
  BY <1>2, ProcsAssumption DEF Unlocked, ReleaseRows, LockRows
<1> QED
  BY <1>1, <1>2 DEF Stays, Status, HasSubmittedProof

\* Putting a step together: what its process, the others and the rows need.
LEMMA StepProtocol ==
  ASSUME Protocol, TypeOK',
         \A p \in Procs : Stays(p) \/ (Guarded(p)' /\ PlanLegal(p)'),
         \A r \in Reservations : Explained(r)'
  PROVE  Protocol'
<1>1. ASSUME NEW p \in Procs
      PROVE  Guarded(p)' /\ PlanLegal(p)'
  BY StaysProtected, ProtocolParts
<1> QED
  BY <1>1 DEF Protocol, Explained, SourceTellsCancelled, ProofBlocksTimeout

\* A process that only waits to read again has nothing to lose.
Careless == Steps \ {"record", "timeoutLock", "timeoutCas", "approveResolve",
                     "clientCancel", "checkIn"}

LEMMA CarelessProtected ==
  ASSUME ProcTypes, NEW q \in Procs, NEW step \in Careless, NEW read,
         Go(q, step, read)
  PROVE  Guarded(q)' /\ PlanLegal(q)'
<1>1. pc'[q] \in Careless
  BY GoSelf
<1> QED
  BY <1>1 DEF Careless, Guarded, PlanLegal

LEMMA BeginProtocol ==
  ASSUME Protocol, NEW q \in Requests, NEW r \in Reservations, Begin(q, r)
  PROVE  Protocol'
<1>1. TypeOK /\ ProcTypes /\ q \in Procs
  BY DEF Protocol, TypeOK, Procs
<1>2. TypeOK'
  BY <1>1, BeginType
<1>3. UNCHANGED <<reservation, deposits, rowLock>>
  BY DEF Begin, Submit, Approve, Reject, ClientCancel, CheckIn, lockVars
<1>4. \E step, read : Go(q, step, read)
  <2>1. CASE Submit(q, r)
    BY <2>1 DEF Submit
  <2>2. CASE Approve(q, r)
    BY <2>2 DEF Approve
  <2>3. CASE Reject(q, r) \/ ClientCancel(q, r) \/ CheckIn(q, r)
    BY <2>3 DEF Reject, ClientCancel, CheckIn
  <2> QED
    BY <2>1, <2>2, <2>3 DEF Begin
<1>5. \A p \in Procs \ {q} : Stays(p)
  BY <1>1, <1>3, <1>4, ReadingOthers
<1>6. \A x \in Reservations : Explained(x)'
  BY <1>3, ExplainedKept, ProtocolParts
<1>7. Guarded(q)' /\ PlanLegal(q)'
  <2>1. CASE Submit(q, r)
    <3>1. PICK read : Go(q, "submit", read)
      BY <2>1 DEF Submit
    <3> QED
      BY <1>1, <3>1, CarelessProtected DEF Careless, Steps
  <2>2. CASE Approve(q, r)
    <3>1. PICK step \in {"approveLatest", "approveGroup", "approveTx"} :
            \E read : Go(q, step, read)
      BY <2>2 DEF Approve
    <3>2. step \in Careless
      BY DEF Careless, Steps
    <3> QED
      BY <1>1, <3>1, <3>2, CarelessProtected
  <2>3. CASE Reject(q, r)
    BY <1>1, <2>3, CarelessProtected DEF Reject, Careless, Steps
  <2>4. CASE ClientCancel(q, r)
    <3>1. PICK S :
            /\ \A x \in S : ClientCancellable(x)
            /\ Go(q, "clientCancel",
                  [Blank EXCEPT !.target = r, !.seen = [x \in S |-> Status(x)]])
      <4> DEFINE sameDay == {x \in Reservations :
                    Day(reservation[x].start) = Day(reservation[r].start)}
                 planned(S) == {x \in S : ClientCancellable(x)}
      <4>1. PICK scope \in {{r}, sameDay} :
              Go(q, "clientCancel",
                 [Blank EXCEPT !.target = r,
                    !.seen = [x \in planned(scope) |-> Status(x)]])
        BY <2>4 DEF ClientCancel
      <4> QED
        BY <4>1
    <3> DEFINE read == [Blank EXCEPT !.target = r,
                                     !.seen = [x \in S |-> Status(x)]]
    <3>2. pc'[q] = "clientCancel" /\ loc'[q].seen = [x \in S |-> Status(x)]
      <4>1. read.seen = [x \in S |-> Status(x)]
        BY DEF Blank
      <4> HIDE DEF read
      <4>2. Go(q, "clientCancel", read)
        BY <3>1 DEF read
      <4> QED
        BY <1>1, <4>1, <4>2, GoSelf
    <3>3. \A x \in S : Machine!CanTransition(Status(x), "CANCELADA")
      BY <3>1 DEF ClientCancellable, Machine!CanTransition, Machine!Transitions,
                  Machine!Statuses
    <3> QED
      BY <3>2, <3>3 DEF Guarded, PlanLegal
  <2>5. CASE CheckIn(q, r)
    <3> DEFINE read == [Blank EXCEPT !.target = r,
                                     !.seen = [x \in {r} |-> Status(x)]]
    <3>1. pc'[q] = "checkIn" /\ loc'[q].seen = [x \in {r} |-> Status(x)]
      <4>1. read.seen = [x \in {r} |-> Status(x)]
        BY DEF Blank
      <4> HIDE DEF read
      <4>2. Go(q, "checkIn", read)
        BY <2>5 DEF CheckIn, read
      <4> QED
        BY <1>1, <4>1, <4>2, GoSelf
    <3> QED
      BY <2>5, <3>1 DEF CheckIn, Guarded, PlanLegal
  <2> QED
    BY <2>1, <2>2, <2>3, <2>4, <2>5 DEF Begin
<1> QED
  BY <1>1, <1>2, <1>5, <1>6, <1>7, StepProtocol

LEMMA JobProtocol ==
  ASSUME Protocol, NEW w \in Workers, NEW r \in Reservations, Job(w, r)
  PROVE  Protocol'
<1>1. TypeOK /\ ProcTypes /\ w \in Procs
  BY DEF Protocol, TypeOK, Procs
<1>2. TypeOK'
  BY <1>1, JobType
<1>3. UNCHANGED <<reservation, deposits, rowLock>>
  BY DEF Job, DepositJob, DepositSweep, NoShowJob, NoShowSweep, lockVars
<1>4. PICK step \in {"idle", "proofCheck", "noShowCas"} :
        \E read : Go(w, step, read)
  BY DEF Job, DepositJob, DepositSweep, NoShowJob, NoShowSweep, TimeoutRead,
         NoShowRead, Finish
<1>5. step \in Careless
  BY DEF Careless, Steps
<1>6. Guarded(w)' /\ PlanLegal(w)'
  BY <1>1, <1>4, <1>5, CarelessProtected
<1>7. \A p \in Procs \ {w} : Stays(p)
  BY <1>1, <1>3, <1>4, ReadingOthers
<1>8. \A x \in Reservations : Explained(x)'
  BY <1>3, ExplainedKept, ProtocolParts
<1> QED
  BY <1>1, <1>2, <1>6, <1>7, <1>8, StepProtocol

LEMMA ReadStepProtocol ==
  ASSUME Protocol, NEW q \in Requests,
         \/ SubmitLock(q) \/ ApproveGroup(q) \/ ApproveTx(q) \/ ApproveAbort(q)
         \/ ApproveLatest(q) \/ RejectRead(q) \/ RejectMark(q)
  PROVE  Protocol'
<1>1. TypeOK /\ ProcTypes /\ LockTypes /\ q \in Procs
  BY DEF Protocol, TypeOK, Procs
<1>2. TypeOK'
  BY <1>1, ReadStepType
<1>3. UNCHANGED <<reservation, deposits>>
  BY DEF SubmitLock, ApproveGroup, ApproveTx, ApproveAbort, ApproveLatest,
         RejectRead, RejectMark
<1>4. \A x \in Reservations : Explained(x)'
  BY <1>3, ExplainedKept, ProtocolParts
<1>5. \E step, read : Go(q, step, read)
  BY DEF SubmitLock, ApproveGroup, ApproveTx, ApproveAbort, ApproveLatest,
         RejectRead, RejectMark, Finish
<1>6. \/ UNCHANGED rowLock
      \/ ReleaseRows(q)
      \/ \E S : Unlocked(S) /\ LockRows(q, S)
  BY DEF SubmitLock, ApproveGroup, ApproveTx, ApproveAbort, ApproveLatest,
         RejectRead, RejectMark, lockVars, Unlocked
<1>7. \A p \in Procs \ {q} : Stays(p)
  BY <1>1, <1>3, <1>5, <1>6, ReadingOthers
<1>8. pc[q] # "idle" => loc[q] \in Local /\ loc[q].target \in Reservations
  BY <1>1 DEF ProcTypes
<1>9. Guarded(q)' /\ PlanLegal(q)'
  <2>1. CASE SubmitLock(q)
    <3>1. CASE Finish(q)
      BY <1>1, <3>1, IdleProtected
    <3>2. CASE ~Finish(q)
      <4> DEFINE r == loc[q].target
      <4>1. /\ pc'[q] = "record" /\ loc'[q] = loc[q]
            /\ LockRows(q, {r}) /\ Status(r) = "PENDIENTE_DEPOSITO"
        BY <1>1, <2>1, <3>2, GoSelf DEF SubmitLock
      <4>2. rowLock'[r] = q /\ Status(r)' = "PENDIENTE_DEPOSITO"
        BY <1>3, <1>8, <2>1, <4>1 DEF SubmitLock, LockRows, Status
      <4> QED
        BY <4>1, <4>2 DEF Guarded, PlanLegal
    <3> QED
      BY <3>1, <3>2
  <2>2. CASE ApproveTx(q)
    <3>1. CASE Finish(q)
      BY <1>1, <3>1, IdleProtected
    <3>2. CASE ~Finish(q)
      <4> DEFINE group == DOMAIN loc[q].seen
      <4>1. group \in SUBSET Reservations
        BY <1>1, SeenType
      <4>2. PICK d : Go(q, "approveResolve", [loc[q] EXCEPT !.deposit = d])
        BY <2>2, <3>2 DEF ApproveTx
      <4>3. pc'[q] = "approveResolve" /\ loc'[q].seen = loc[q].seen
        BY <1>1, <1>8, <2>2, <4>2, GoSelf DEF ApproveTx, Local
      <4>4. /\ LockRows(q, group)
            /\ \A r \in group : Machine!CanTransition(Status(r), "CONFIRMADA")
        BY <2>2, <3>2 DEF ApproveTx
      <4>5. \A r \in group : /\ rowLock'[r] = q
                             /\ Machine!CanTransition(Status(r), "CONFIRMADA")'
        BY <1>3, <4>1, <4>4 DEF LockRows, Status
      <4> QED
        BY <4>3, <4>5 DEF Guarded, PlanLegal
    <3> QED
      BY <3>1, <3>2
  <2>3. CASE ApproveAbort(q)
    BY <1>1, <2>3, IdleProtected DEF ApproveAbort
  <2>4. CASE \/ ApproveGroup(q) \/ ApproveLatest(q) \/ RejectRead(q)
             \/ RejectMark(q)
    <3>1. PICK step \in {"idle", "approveTx", "approveProof", "rejectMark",
                         "rejectRestart"} : \E read : Go(q, step, read)
      BY <2>4 DEF ApproveGroup, ApproveLatest, RejectRead, RejectMark, Finish
    <3>2. step \in Careless
      BY DEF Careless, Steps
    <3> QED
      BY <1>1, <3>1, <3>2, CarelessProtected
  <2> QED
    BY <2>1, <2>2, <2>3, <2>4
<1> QED
  BY <1>1, <1>2, <1>4, <1>7, <1>9, StepProtocol


---------------------------------------------------------------------------
(* Steps that write                                                        *)

\* Every write of rows falls under one of these.
Rewritten(r) ==
  \/ reservation'[r].status = reservation[r].status
     /\ reservation'[r].source = reservation[r].source
  \/ Status(r)' # "CANCELADA" /\ reservation'[r].source = "NINGUNA"
  \/ Status(r)' = "CANCELADA" /\ reservation'[r].source \in {"CLIENT", "ADMIN"}
  \/ Status(r)' = "CANCELADA" /\ reservation'[r].source = "TIMEOUT"
     /\ ~HasSubmittedProof(r)

\* What a step may do to the status of a row: the moves of the state machine.
Moves(r) ==
  \/ /\ reservation'[r].status = reservation[r].status
     /\ reservation'[r].source = reservation[r].source
  \/ Status(r) = "ABSENT" /\ Status(r)' = "PENDIENTE_DEPOSITO"
  \/ Machine!CanTransition(Status(r), Status(r)')
  \/ /\ Machine!IsRevivable(Status(r), reservation[r].source)
     /\ Status(r)' = "PENDIENTE_DEPOSITO"

LEMMA RewrittenExplained ==
  ASSUME NEW r \in Reservations, Explained(r), Rewritten(r),
         HasSubmittedProof(r)' => HasSubmittedProof(r)
  PROVE  Explained(r)'
BY DEF Explained, Rewritten, Status

\* Single statements: what becomes of a row.
LEMMA StatementRows ==
  ASSUME Protocol, NEW r \in Reservations, Statement(r), NEW x \in Reservations
  PROVE  /\ rowLock[x] # None /\ Status(x) # "ABSENT" => Status(x)' = Status(x)
         /\ Rewritten(x) /\ Moves(x)
<1>1. Status(x) # "CANCELADA" => reservation[x].source = "NINGUNA"
  BY ProtocolParts DEF Explained
<1>2. reservation[x] \in Row
  BY DEF Protocol, TypeOK, TableTypes
<1>3. CASE Create(r)
  <2>1. PICK start \in [ComboOf[r] -> (now + 1)..Horizon],
             credited \in BOOLEAN, first \in ComboOf[r] :
          SetRows(ComboOf[r], LAMBDA y :
            [Absent EXCEPT
               !.status = "PENDIENTE_DEPOSITO",
               !.start = start[y],
               !.clock = IF credited THEN NoTime ELSE now,
               !.expires = IF credited THEN NoTime
                           ELSE Expiry(now, start[first], blocked),
               !.credited = credited])
    BY <1>3 DEF Create
  <2>2. CASE x \in ComboOf[r]
    <3> DEFINE c == IF credited THEN NoTime ELSE now
               e == IF credited THEN NoTime
                    ELSE Expiry(now, start[first], blocked)
    <3>1. reservation'[x] = [Absent EXCEPT !.status = "PENDIENTE_DEPOSITO",
                               !.start = start[x], !.clock = c, !.expires = e,
                               !.credited = credited]
      BY <2>1, <2>2 DEF SetRows
    <3>2. reservation'[x].status = "PENDIENTE_DEPOSITO"
            /\ reservation'[x].source = "NINGUNA"
      <4> HIDE DEF c, e
      <4> QED
        BY <3>1 DEF Absent
    <3>3. Status(x) = "ABSENT"
      BY <1>3, <2>2 DEF Create
    <3> QED
      BY <3>2, <3>3 DEF Rewritten, Moves, Status
  <2>3. CASE x \notin ComboOf[r]
    <3>1. reservation'[x] = reservation[x]
      BY <2>1, <2>3 DEF SetRows
    <3> QED
      BY <3>1 DEF Rewritten, Moves, Status
  <2> QED
    BY <2>2, <2>3
<1>4. CASE ConfirmValoracion(r)
  <2>1. x = r => /\ rowLock[x] = None /\ Status(x) = "PENDIENTE_VALORACION"
                 /\ Status(x)' = "PENDIENTE_DEPOSITO"
                 /\ reservation'[x].source = reservation[x].source
    BY <1>2, <1>4 DEF ConfirmValoracion, SetRows, WithStatus, Status, Row
  <2>2. x # r => reservation'[x] = reservation[x]
    BY <1>4 DEF ConfirmValoracion, SetRows
  <2>3. Machine!CanTransition("PENDIENTE_VALORACION", "PENDIENTE_DEPOSITO")
    BY DEF Machine!CanTransition, Machine!Transitions, Machine!Statuses
  <2> QED
    BY <1>1, <2>1, <2>2, <2>3 DEF Rewritten, Moves, Status
<1>5. CASE Reschedule(r)
  <2>1. PICK start \in (now + 1)..Horizon : SetRows({r}, LAMBDA y :
                       [reservation[y] EXCEPT !.start = start])
    BY <1>5 DEF Reschedule
  <2>2. /\ reservation'[x].status = reservation[x].status
        /\ reservation'[x].source = reservation[x].source
    BY <1>2, <2>1 DEF SetRows, Row
  <2> QED
    BY <2>2 DEF Rewritten, Moves, Status
<1>6. CASE AdminCancel(r)
  <2>1. x = r => /\ rowLock[x] = None /\ Status(x)' = "CANCELADA"
                 /\ reservation'[x].source = "ADMIN"
                 /\ Machine!CanTransition(Status(x), "CANCELADA")
    BY <1>2, <1>6 DEF AdminCancel, SetRows, Cancelled, Status, Row
  <2>2. x # r => reservation'[x] = reservation[x]
    BY <1>6 DEF AdminCancel, SetRows
  <2> QED
    BY <2>1, <2>2 DEF Rewritten, Moves, Status
<1>7. CASE Revive(r)
  <2>1. x \in ComboOf[r] => /\ rowLock[x] = None
                            /\ Status(x)' = "PENDIENTE_DEPOSITO"
                            /\ reservation'[x].source = "NINGUNA"
                            /\ Machine!IsRevivable(Status(x), reservation[x].source)
    <3>1. x \in ComboOf[r] =>
            reservation'[x] = [WithStatus(x, "PENDIENTE_DEPOSITO") EXCEPT
               !.source = "NINGUNA", !.clock = NoTime, !.expires = NoTime]
      BY <1>7 DEF Revive, SetRows
    <3> QED
      BY <1>2, <1>7, <3>1 DEF Revive, Unlocked, WithStatus, Status, Row
  <2>2. x \notin ComboOf[r] => reservation'[x] = reservation[x]
    BY <1>7 DEF Revive, SetRows
  <2> QED
    BY <2>1, <2>2 DEF Rewritten, Moves, Status
<1>8. CASE Complete(r)
  <2>1. x = r => /\ rowLock[x] = None /\ Status(x)' = "COMPLETADA"
                 /\ Status(x) = "CITA_EN_CURSO"
                 /\ Machine!CanTransition(Status(x), "COMPLETADA")
                 /\ reservation'[x].source = reservation[x].source
    BY <1>2, <1>8 DEF Complete, SetRows, WithStatus, Status, Row,
      Machine!CanTransition, Machine!Transitions, Machine!Statuses
  <2>2. x # r => reservation'[x] = reservation[x]
    BY <1>8 DEF Complete, SetRows
  <2> QED
    BY <1>1, <2>1, <2>2 DEF Rewritten, Moves, Status
<1> QED
  BY <1>3, <1>4, <1>5, <1>6, <1>7, <1>8 DEF Statement

LEMMA StatementProtocol ==
  ASSUME Protocol, NEW r \in Reservations, Statement(r)
  PROVE  Protocol'
<1>1. TypeOK /\ TypeOK'
  BY StatementType DEF Protocol
<1>2. UNCHANGED <<deposits, rowLock, pc, loc>>
  BY DEF Statement, Create, ConfirmValoracion, Reschedule, AdminCancel, Revive,
         Complete, lockVars, procVars
<1>3. \A x \in Reservations :
        /\ rowLock[x] # None /\ Status(x) # "ABSENT" => Status(x)' = Status(x)
        /\ Rewritten(x)
  BY StatementRows
<1>4. \A x \in Reservations : HasSubmittedProof(x)' => HasSubmittedProof(x)
  BY <1>2 DEF HasSubmittedProof
<1>5. \A x \in Reservations : Explained(x)'
  BY <1>3, <1>4, RewrittenExplained, ProtocolParts
<1>6. \A p \in Procs : Stays(p)
  BY <1>2, <1>3, <1>4, ProcsAssumption DEF Stays
<1> QED
  BY <1>1, <1>5, <1>6, StepProtocol


\* Recording a decision never leaves more proofs pending.
LEMMA DecisionsPend ==
  ASSUME NEW s \in Seq(DepositStatuses), NEW i \in Nat,
         NEW e \in DepositStatuses \ {"PENDIENTE"}
  PROVE  /\ (\E j \in DOMAIN [s EXCEPT ![i] = e] :
                [s EXCEPT ![i] = e][j] = "PENDIENTE")
               => \E j \in DOMAIN s : s[j] = "PENDIENTE"
         /\ (\E j \in DOMAIN Append(s, e) : Append(s, e)[j] = "PENDIENTE")
               => \E j \in DOMAIN s : s[j] = "PENDIENTE"
OBVIOUS

\* A step of q that writes rows S, free or its own, and gives back its locks.
LEMMA WritingOthers ==
  ASSUME TypeOK, NEW q \in Procs, \E step, read : Go(q, step, read),
         NEW S,
         \A r \in S : rowLock[r] \in {None, q},
         \A r \in Reservations \ S : Status(r)' = Status(r),
         UNCHANGED rowLock \/ ReleaseRows(q),
         \A r \in Reservations : rowLock[r] # q =>
           (HasSubmittedProof(r)' => HasSubmittedProof(r)),
         NEW p \in Procs \ {q}
  PROVE  Stays(p)
<1>1. pc'[p] = pc[p] /\ loc'[p] = loc[p]
  BY GoOthers DEF TypeOK
<1>2. ASSUME NEW r \in Reservations, rowLock[r] = p
      PROVE  rowLock'[r] = p /\ r \notin S
  BY <1>2, ProcsAssumption DEF ReleaseRows
<1> QED
  BY <1>1, <1>2 DEF Stays

LEMMA RecordProofProtocol ==
  ASSUME Protocol, NEW q \in Requests, RecordProof(q)
  PROVE  Protocol'
<1>1. /\ TypeOK /\ ProcTypes /\ TableTypes /\ q \in Procs /\ TypeOK'
  BY WriteStepType DEF Protocol, TypeOK, Procs
<1> DEFINE t == loc[q].target
<1>2. /\ t \in Reservations /\ rowLock[t] = q
      /\ Status(t) = "PENDIENTE_DEPOSITO"
  BY <1>1 DEF RecordProof, Protocol, Guarded, ProcTypes
<1>3. \E step, read : Go(q, step, read)
  BY DEF RecordProof, Finish
<1>4. \A r \in Reservations \ {t} : deposits'[r] = deposits[r]
  BY <1>1 DEF RecordProof, TableTypes
<1>5. UNCHANGED reservation /\ ReleaseRows(q)
  BY DEF RecordProof
<1>6. \A p \in Procs \ {q} : Stays(p)
  <2>1. \A r \in Reservations : rowLock[r] # q =>
           (HasSubmittedProof(r)' => HasSubmittedProof(r))
    BY <1>2, <1>4 DEF HasSubmittedProof
  <2> DEFINE S == {t}
  <2>2. \A r \in Reservations \ S : Status(r)' = Status(r)
    BY <1>5 DEF Status
  <2>3. \A r \in S : rowLock[r] \in {None, q}
    BY <1>2
  <2> HIDE DEF S
  <2> QED
    BY <1>1, <1>3, <1>5, <2>1, <2>2, <2>3, WritingOthers
<1>7. Guarded(q)' /\ PlanLegal(q)'
  <2>1. PICK step \in {"idle", "autoConfirm"} : \E read : Go(q, step, read)
    BY DEF RecordProof, Finish
  <2>2. step \in Careless
    BY DEF Careless, Steps
  <2> QED
    BY <1>1, <2>1, <2>2, CarelessProtected
<1>8. ASSUME NEW r \in Reservations
      PROVE  Explained(r)'
  <2>1. CASE r = t
    BY <1>2, <1>5, <2>1, ProtocolParts DEF Explained, Status
  <2>2. CASE r # t
    BY <1>4, <1>5, <2>2, ProtocolParts DEF Explained, Status, HasSubmittedProof
  <2> QED
    BY <2>1, <2>2
<1> QED
  BY <1>1, <1>6, <1>7, <1>8, StepProtocol


\* What the row of a reservation reads after a new status is written.
LEMMA StatusReads ==
  ASSUME TableTypes, NEW r \in Reservations, NEW st, NEW src
  PROVE  /\ reservation'[r] = WithStatus(r, st) =>
              Status(r)' = st /\ reservation'[r].source = reservation[r].source
         /\ reservation'[r] = Cancelled(r, src) =>
              Status(r)' = "CANCELADA" /\ reservation'[r].source = src
<1>1. reservation[r] \in Row
  BY DEF TableTypes
<1>2. /\ WithStatus(r, st).status = st
      /\ WithStatus(r, st).source = reservation[r].source
  BY <1>1 DEF WithStatus, Row
<1>3. Cancelled(r, src).status = "CANCELADA" /\ Cancelled(r, src).source = src
  BY <1>1 DEF Cancelled, Row
<1> QED
  BY <1>2, <1>3 DEF Status

\* Requests that write statuses by compare-and-set: the rows they write.
LEMMA StatusStepRows ==
  ASSUME Protocol, NEW q \in Requests,
         AutoConfirm(q) \/ ApproveFree(q) \/ ClientCancelTx(q) \/ CheckInCas(q)
  PROVE  \E S \in SUBSET Reservations, st \in {"CONFIRMADA", "CANCELADA",
                                             "CITA_EN_CURSO"} :
        /\ \A r \in S : /\ rowLock[r] \in {None, q}
                         /\ Machine!CanTransition(Status(r), st)
        /\ \A r \in Reservations \ S : reservation'[r] = reservation[r]
        /\ \A r \in S : /\ Status(r)' = st
                         /\ reservation'[r].source = IF st = "CANCELADA"
                              THEN "CLIENT" ELSE reservation[r].source
<1>1. /\ TypeOK /\ ProcTypes /\ TableTypes /\ q \in Procs
  BY DEF Protocol, TypeOK, Procs
<1>2. pc[q] # "idle" => loc[q].target \in Reservations
  BY <1>1 DEF ProcTypes
<1>3. Guarded(q) /\ PlanLegal(q)
  BY <1>1 DEF Protocol
<1>4. DOMAIN loc[q].seen \in SUBSET Reservations
  BY <1>1, SeenType
<1>5. CASE AutoConfirm(q)
  <2>0. PICK t \in Reservations : t = loc[q].target
    BY <1>2, <1>5 DEF AutoConfirm
  <2>1. CASE Machine!CanTransition(Status(t), "CONFIRMADA")
    <3>1. /\ rowLock[t] = None
          /\ SetRows({t}, LAMBDA x : WithStatus(x, "CONFIRMADA"))
      BY <1>5, <2>0, <2>1 DEF AutoConfirm
    <3>2. /\ \A r \in Reservations \ {t} : reservation'[r] = reservation[r]
          /\ reservation'[t] = WithStatus(t, "CONFIRMADA")
      BY <3>1 DEF SetRows
    <3>3. /\ Status(t)' = "CONFIRMADA"
          /\ reservation'[t].source = reservation[t].source
      BY <1>1, <3>1, <3>2, StatusReads
    <3>4. {t} \in SUBSET Reservations
      OBVIOUS
    <3> WITNESS {t} \in SUBSET Reservations, "CONFIRMADA"
          \in {"CONFIRMADA", "CANCELADA", "CITA_EN_CURSO"}
    <3> QED
      BY <2>1, <3>1, <3>2, <3>3
  <2>2. CASE ~ Machine!CanTransition(Status(t), "CONFIRMADA")
    <3>1. UNCHANGED reservation
      BY <1>5, <2>0, <2>2 DEF AutoConfirm
    <3> WITNESS {} \in SUBSET Reservations, "CONFIRMADA"
          \in {"CONFIRMADA", "CANCELADA", "CITA_EN_CURSO"}
    <3> QED
      BY <3>1
  <2> QED
    BY <2>1, <2>2
<1>6. CASE ApproveFree(q)
  <2> DEFINE group == DOMAIN loc[q].seen
  <2>1. \A r \in group : /\ rowLock[r] = q
                         /\ Machine!CanTransition(Status(r), "CONFIRMADA")
    BY <1>3, <1>6 DEF ApproveFree, Guarded
  <2>2. /\ \A r \in Reservations \ group : reservation'[r] = reservation[r]
        /\ \A r \in group : reservation'[r] = WithStatus(r, "CONFIRMADA")
    BY <1>4, <1>6 DEF ApproveFree, SetRows
  <2>3. \A r \in group : /\ Status(r)' = "CONFIRMADA"
                         /\ reservation'[r].source = reservation[r].source
    BY <1>1, <1>4, <2>2, StatusReads
  <2> WITNESS group \in SUBSET Reservations, "CONFIRMADA"
        \in {"CONFIRMADA", "CANCELADA", "CITA_EN_CURSO"}
  <2> QED
    BY <2>1, <2>2, <2>3
<1>7. CASE ClientCancelTx(q)
  <2> DEFINE S == IF Unmoved(q) THEN DOMAIN loc[q].seen ELSE {}
  <2>1. \A r \in S : /\ rowLock[r] = None
                     /\ Machine!CanTransition(Status(r), "CANCELADA")
    BY <1>3, <1>7 DEF ClientCancelTx, Unlocked, Unmoved, PlanLegal
  <2>2. /\ \A r \in Reservations \ S : reservation'[r] = reservation[r]
        /\ \A r \in S : reservation'[r] = Cancelled(r, "CLIENT")
    BY <1>4, <1>7 DEF ClientCancelTx, SetRows
  <2>3. \A r \in S : /\ Status(r)' = "CANCELADA"
                     /\ reservation'[r].source = "CLIENT"
    BY <1>1, <1>4, <2>2, StatusReads
  <2>4. S \in SUBSET Reservations
    BY <1>4
  <2> HIDE DEF S
  <2> WITNESS S \in SUBSET Reservations, "CANCELADA"
        \in {"CONFIRMADA", "CANCELADA", "CITA_EN_CURSO"}
  <2> QED
    BY <2>1, <2>2, <2>3
<1>8. CASE CheckInCas(q)
  <2> DEFINE S == IF Unmoved(q) THEN DOMAIN loc[q].seen ELSE {}
  <2>1. \A r \in S : /\ rowLock[r] = None
                     /\ Machine!CanTransition(Status(r), "CITA_EN_CURSO")
    BY <1>3, <1>8 DEF CheckInCas, Unlocked, Unmoved, PlanLegal
  <2>2. /\ \A r \in Reservations \ S : reservation'[r] = reservation[r]
        /\ \A r \in S : reservation'[r] = WithStatus(r, "CITA_EN_CURSO")
    BY <1>4, <1>8 DEF CheckInCas, SetRows
  <2>3. \A r \in S : /\ Status(r)' = "CITA_EN_CURSO"
                     /\ reservation'[r].source = reservation[r].source
    BY <1>1, <1>4, <2>2, StatusReads
  <2>4. S \in SUBSET Reservations
    BY <1>4
  <2> HIDE DEF S
  <2> WITNESS S \in SUBSET Reservations, "CITA_EN_CURSO"
        \in {"CONFIRMADA", "CANCELADA", "CITA_EN_CURSO"}
  <2> QED
    BY <2>1, <2>2, <2>3
<1> QED
  BY <1>5, <1>6, <1>7, <1>8

LEMMA StatusStepProtocol ==
  ASSUME Protocol, NEW q \in Requests,
         AutoConfirm(q) \/ ApproveFree(q) \/ ClientCancelTx(q) \/ CheckInCas(q)
  PROVE  Protocol'
<1>1. /\ TypeOK /\ ProcTypes /\ TableTypes /\ q \in Procs /\ TypeOK'
  BY WriteStepType DEF Protocol, TypeOK, Procs
<1>2. Finish(q) /\ UNCHANGED deposits
  BY DEF AutoConfirm, ApproveFree, ClientCancelTx, CheckInCas
<1>3. UNCHANGED rowLock \/ ReleaseRows(q)
  BY DEF AutoConfirm, ApproveFree, ClientCancelTx, CheckInCas, lockVars
<1>4. PICK S \in SUBSET Reservations, st \in {"CONFIRMADA", "CANCELADA",
                                             "CITA_EN_CURSO"} :
        /\ \A r \in S : /\ rowLock[r] \in {None, q}
                         /\ Machine!CanTransition(Status(r), st)
        /\ \A r \in Reservations \ S : reservation'[r] = reservation[r]
        /\ \A r \in S : /\ Status(r)' = st
                         /\ reservation'[r].source = IF st = "CANCELADA"
                              THEN "CLIENT" ELSE reservation[r].source
  BY StatusStepRows
<1>5. \A p \in Procs \ {q} : Stays(p)
  <2>1. \E step, read : Go(q, step, read)
    BY <1>2 DEF Finish
  <2>2. \A r \in Reservations : HasSubmittedProof(r)' => HasSubmittedProof(r)
    BY <1>2 DEF HasSubmittedProof
  <2>3. \A r \in Reservations \ S : Status(r)' = Status(r)
    BY <1>4 DEF Status
  <2> QED
    BY <1>1, <1>3, <1>4, <2>1, <2>2, <2>3, WritingOthers
<1>6. ASSUME NEW r \in Reservations
      PROVE  Explained(r)'
  <2>1. Explained(r)
    BY ProtocolParts
  <2>2. ~ Machine!CanTransition("CANCELADA", st)
    BY DEF Machine!CanTransition, Machine!Transitions
  <2>3. Rewritten(r)
    <3>1. CASE r \in S
      BY <1>4, <2>1, <2>2, <3>1 DEF Rewritten, Explained, Status
    <3>2. CASE r \notin S
      BY <1>4, <3>2 DEF Rewritten
    <3> QED
      BY <3>1, <3>2
  <2>4. HasSubmittedProof(r)' => HasSubmittedProof(r)
    BY <1>2 DEF HasSubmittedProof
  <2> QED
    BY <2>1, <2>3, <2>4, RewrittenExplained
<1>7. Guarded(q)' /\ PlanLegal(q)'
  BY <1>1, <1>2, IdleProtected
<1> QED
  BY <1>1, <1>5, <1>6, <1>7, StepProtocol


\* The rows a paid approval writes are the ones it planned to and has locked.
LEMMA ApprovePaidRows ==
  ASSUME Protocol, NEW q \in Requests, ApprovePaid(q)
  PROVE  \E S \in SUBSET Reservations :
           /\ S = DOMAIN loc[q].seen
           /\ \A r \in S : /\ rowLock[r] = q
                           /\ Machine!CanTransition(Status(r), "CONFIRMADA")
                           /\ Status(r)' = "CONFIRMADA"
                           /\ reservation'[r].source = reservation[r].source
           /\ \A r \in Reservations \ S : reservation'[r] = reservation[r]
<1>1. /\ TypeOK /\ ProcTypes /\ TableTypes /\ q \in Procs
  BY DEF Protocol, TypeOK, Procs
<1>2. PICK S \in SUBSET Reservations : S = DOMAIN loc[q].seen
  BY <1>1, SeenType
<1>3. \A r \in S : /\ rowLock[r] = q
                   /\ Machine!CanTransition(Status(r), "CONFIRMADA")
  BY <1>1, <1>2 DEF ApprovePaid, Protocol, Guarded
<1>4. \A r \in Reservations \ S : reservation'[r] = reservation[r]
  BY <1>2 DEF ApprovePaid, SetRows
<1>5. ASSUME NEW r \in S
      PROVE  /\ Status(r)' = "CONFIRMADA"
             /\ reservation'[r].source = reservation[r].source
  <2>1. PICK d : reservation'[r] = [WithStatus(r, "CONFIRMADA") EXCEPT
                                      !.coveredBy = d]
    BY <1>2 DEF ApprovePaid, SetRows
  <2>2. WithStatus(r, "CONFIRMADA") \in Row
    <3>1. "CONFIRMADA" \in Machine!Statuses
      BY DEF Machine!Statuses
    <3> QED
      BY <1>1, <3>1, RowWrites DEF WithStatus, TableTypes
  <2>3. /\ reservation'[r].status = WithStatus(r, "CONFIRMADA").status
        /\ reservation'[r].source = WithStatus(r, "CONFIRMADA").source
    BY <2>1, <2>2 DEF Row
  <2>4. /\ WithStatus(r, "CONFIRMADA").status = "CONFIRMADA"
        /\ WithStatus(r, "CONFIRMADA").source = reservation[r].source
    BY <1>1 DEF WithStatus, TableTypes, Row
  <2> QED
    BY <2>3, <2>4 DEF Status
<1> QED
  BY <1>2, <1>3, <1>4, <1>5

LEMMA ApprovePaidProtocol ==
  ASSUME Protocol, NEW q \in Requests, ApprovePaid(q)
  PROVE  Protocol'
<1>1. /\ TypeOK /\ ProcTypes /\ TableTypes /\ q \in Procs /\ TypeOK'
  BY WriteStepType DEF Protocol, TypeOK, Procs
<1>2. PICK S \in SUBSET Reservations :
        /\ S = DOMAIN loc[q].seen
        /\ \A r \in S : /\ rowLock[r] = q
                        /\ Machine!CanTransition(Status(r), "CONFIRMADA")
                        /\ Status(r)' = "CONFIRMADA"
                        /\ reservation'[r].source = reservation[r].source
        /\ \A r \in Reservations \ S : reservation'[r] = reservation[r]
  BY ApprovePaidRows
<1>3. PICK t \in S : t = Payer(q)
  BY <1>1, <1>2, PayerInGroup DEF ApprovePaid, NeedsPayment
<1>4. \A r \in Reservations \ S : HasSubmittedProof(r)' => HasSubmittedProof(r)
  <2>1. \A r \in Reservations \ {t} : deposits'[r] = deposits[r]
    BY <1>1, <1>3 DEF ApprovePaid, TableTypes
  <2> QED
    BY <2>1 DEF HasSubmittedProof
<1>5. \A p \in Procs \ {q} : Stays(p)
  <2>1. (\E step, read : Go(q, step, read)) /\ ReleaseRows(q)
    BY DEF ApprovePaid, Finish
  <2>2. \A r \in Reservations \ S : Status(r)' = Status(r)
    BY <1>2 DEF Status
  <2>3. \A r \in Reservations : rowLock[r] # q =>
          (HasSubmittedProof(r)' => HasSubmittedProof(r))
    BY <1>2, <1>4
  <2> QED
    BY <1>1, <1>2, <2>1, <2>2, <2>3, WritingOthers
<1>6. ASSUME NEW r \in Reservations
      PROVE  Explained(r)'
  <2>1. Explained(r)
    BY ProtocolParts
  <2>2. CASE r \in S
    <3>1. Status(r) # "CANCELADA"
      BY <1>2, <2>2 DEF Machine!CanTransition, Machine!Transitions
    <3> QED
      BY <1>2, <2>1, <2>2, <3>1 DEF Explained
  <2>3. CASE r \notin S
    BY <1>2, <1>4, <2>1, <2>3, RewrittenExplained DEF Rewritten
  <2> QED
    BY <2>2, <2>3
<1>7. Guarded(q)' /\ PlanLegal(q)'
  BY <1>1, IdleProtected DEF ApprovePaid
<1> QED
  BY <1>1, <1>5, <1>6, <1>7, StepProtocol

\* Requests that decide on one deposit record.
LEMMA DecideStepProtocol ==
  ASSUME Protocol, NEW q \in Requests, ApproveProof(q) \/ RejectRestart(q)
  PROVE  Protocol'
<1>1. /\ TypeOK /\ ProcTypes /\ TableTypes /\ q \in Procs /\ TypeOK'
  BY WriteStepType DEF Protocol, TypeOK, Procs
<1>2. PICK t \in Reservations : t = loc[q].target
  BY <1>1 DEF ProcTypes, ApproveProof, RejectRestart
<1>3. loc[q].deposit \in Nat
  BY <1>1 DEF ProcTypes, Local
<1>4. PICK e \in DepositStatuses \ {"PENDIENTE"} :
        \/ UNCHANGED deposits
        \/ deposits' = [deposits EXCEPT ![t] = [@ EXCEPT ![loc[q].deposit] = e]]
  BY <1>2 DEF ApproveProof, RejectRestart, DepositStatuses
<1>5. ASSUME NEW r \in Reservations
      PROVE  HasSubmittedProof(r)' => HasSubmittedProof(r)
  <2>1. CASE UNCHANGED deposits
    BY <2>1 DEF HasSubmittedProof
  <2>2. CASE deposits' = [deposits EXCEPT ![t] =
                            [@ EXCEPT ![loc[q].deposit] = e]]
    <3>1. deposits[t] \in Seq(DepositStatuses)
      BY <1>1 DEF TableTypes
    <3>2. deposits'[t] = [deposits[t] EXCEPT ![loc[q].deposit] = e]
      BY <1>1, <2>2 DEF TableTypes
    <3>3. r # t => deposits'[r] = deposits[r]
      BY <1>1, <2>2 DEF TableTypes
    <3> QED
      BY <1>3, <3>1, <3>2, <3>3, DecisionsPend DEF HasSubmittedProof
  <2> QED
    BY <1>4, <2>1, <2>2
<1>6. ASSUME NEW r \in Reservations
      PROVE  /\ Status(r)' = Status(r)
             /\ reservation'[r].source = reservation[r].source
  <2>1. CASE ApproveProof(q)
    BY <2>1 DEF ApproveProof, Status
  <2>2. CASE RejectRestart(q)
    <3>1. reservation[r] \in Row
      BY <1>1 DEF TableTypes
    <3>2. \/ reservation'[r] = reservation[r]
          \/ reservation'[r] = [reservation[r] EXCEPT !.clock = loc[q].clock,
                                   !.expires = loc[q].expires]
      BY <2>2 DEF RejectRestart, SetRows
    <3> QED
      BY <3>1, <3>2 DEF Row, Status
  <2> QED
    BY <2>1, <2>2
<1>7. Finish(q) /\ UNCHANGED rowLock
  BY DEF ApproveProof, RejectRestart, lockVars
<1>8. \A p \in Procs \ {q} : Stays(p)
  <2>1. \A p \in Procs \ {q} : pc'[p] = pc[p] /\ loc'[p] = loc[p]
    BY <1>1, <1>7, GoOthers DEF Finish
  <2> QED
    BY <1>5, <1>6, <1>7, <2>1 DEF Stays
<1>9. \A r \in Reservations : Explained(r)'
  BY <1>5, <1>6, ProtocolParts, RewrittenExplained DEF Rewritten, Status
<1>10. Guarded(q)' /\ PlanLegal(q)'
  BY <1>1, <1>7, IdleProtected
<1> QED
  BY <1>1, <1>8, <1>9, <1>10, StepProtocol

\* What becomes of a row when a worker cancels it or calls it a no-show.
LEMMA WorkerStepMoves ==
  ASSUME Protocol, NEW w \in Workers, WorkerStep(w), NEW r \in Reservations
  PROVE  Moves(r)
<1>1. /\ TableTypes /\ ProcTypes /\ w \in Procs
  BY DEF Protocol, TypeOK, Procs
<1>2. Guarded(w) /\ PlanLegal(w)
  BY <1>1 DEF Protocol
<1>3. CASE ProofCheck(w) \/ TimeoutFind(w) \/ TimeoutLock(w)
  BY <1>3 DEF ProofCheck, TimeoutFind, TimeoutLock, Moves
<1>4. CASE TimeoutCas(w)
  <2>1. \/ reservation'[r] = reservation[r]
        \/ /\ r \in DOMAIN loc[w].seen /\ Status(r) = loc[w].seen[r]
           /\ reservation'[r] = Cancelled(r, "TIMEOUT")
    BY <1>4 DEF TimeoutCas, SetRows, Unmoved
  <2>2. r \in DOMAIN loc[w].seen =>
          Machine!CanTransition(loc[w].seen[r], "CANCELADA")
    BY <1>2, <1>4 DEF PlanLegal, TimeoutCas
  <2> QED
    BY <1>1, <2>1, <2>2, StatusReads DEF Moves
<1>5. CASE NoShowCas(w)
  <2>1. \/ reservation'[r] = reservation[r]
        \/ /\ Machine!CanTransition(Status(r), "NO_SHOW")
           /\ reservation'[r] = WithStatus(r, "NO_SHOW")
    BY <1>5 DEF NoShowCas, SetRows
  <2> QED
    BY <1>1, <2>1, StatusReads DEF Moves
<1> QED
  BY <1>3, <1>4, <1>5 DEF WorkerStep

LEMMA WorkerStepProtocol ==
  ASSUME Protocol, NEW w \in Workers, WorkerStep(w)
  PROVE  Protocol'
<1>1. /\ TypeOK /\ ProcTypes /\ TableTypes /\ LockTypes /\ w \in Procs /\ TypeOK'
  BY WorkerStepType DEF Protocol, TypeOK, Procs
<1>2. Guarded(w) /\ PlanLegal(w)
  BY <1>1 DEF Protocol
<1>3. PICK t \in Reservations : t = loc[w].target
  BY <1>1 DEF WorkerStep, ProofCheck, TimeoutFind, TimeoutLock, TimeoutCas,
              NoShowCas, ProcTypes
<1>4. /\ UNCHANGED deposits
      /\ \E step, read : Go(w, step, read)
  BY DEF WorkerStep, ProofCheck, TimeoutFind, TimeoutLock, TimeoutCas,
         NoShowCas, Finish
<1>5. \A r \in Reservations : HasSubmittedProof(r)' = HasSubmittedProof(r)
  BY <1>4 DEF HasSubmittedProof
<1>6. CASE ProofCheck(w) \/ TimeoutFind(w) \/ TimeoutLock(w)
  <2>1. /\ UNCHANGED <<reservation, deposits>>
        /\ UNCHANGED rowLock \/ \E S : Unlocked(S) /\ LockRows(w, S)
    BY <1>6 DEF ProofCheck, TimeoutFind, TimeoutLock, lockVars, Unlocked
  <2>2. \A p \in Procs \ {w} : Stays(p)
    BY <1>1, <1>4, <2>1, ReadingOthers
  <2>3. \A r \in Reservations : Explained(r)'
    BY <2>1, ExplainedKept, ProtocolParts
  <2>4. loc[w] \in Local
    BY <1>1 DEF ProcTypes
  <2>5. Guarded(w)' /\ PlanLegal(w)'
    <3>1. CASE Finish(w)
      BY <1>1, <3>1, IdleProtected
    <3>2. CASE ProofCheck(w) /\ ~Finish(w)
      <4>1. "timeoutFind" \in Careless /\ Go(w, "timeoutFind", loc[w])
        BY <3>2 DEF ProofCheck, Careless, Steps
      <4> QED
        BY <1>1, <4>1, CarelessProtected
    <3>3. CASE TimeoutFind(w) /\ ~Finish(w)
      <4> DEFINE read == [loc[w] EXCEPT !.seen = [x \in {t} |-> Status(x)]]
      <4>1. Go(w, "timeoutLock", read)
              /\ Machine!CanTransition(Status(t), "CANCELADA")
        BY <1>3, <3>3 DEF TimeoutFind
      <4>2. read.seen = [x \in {t} |-> Status(x)] /\ read.target = t
        BY <1>3, <2>4 DEF Local
      <4>3. /\ pc'[w] = "timeoutLock" /\ loc'[w].target = t
            /\ loc'[w].seen = [x \in {t} |-> Status(x)]
        <5> HIDE DEF read
        <5> QED
          BY <1>1, <4>1, <4>2, GoSelf
      <4> QED
        BY <4>1, <4>3 DEF Guarded, PlanLegal
    <3>4. CASE TimeoutLock(w) /\ ~Finish(w)
      <4>1. /\ pc'[w] = "timeoutCas" /\ loc'[w] = loc[w]
            /\ rowLock'[t] = w /\ ~HasSubmittedProof(t)
        BY <1>1, <1>3, <3>4, GoSelf DEF TimeoutLock, LockRows
      <4>2. DOMAIN loc[w].seen = {t}
        BY <1>2, <1>3, <3>4 DEF TimeoutLock, Guarded
      <4>3. Guarded(w)'
        BY <1>3, <1>5, <4>1, <4>2 DEF Guarded
      <4>4. PlanLegal(w)'
        BY <1>2, <3>4, <4>1 DEF PlanLegal, TimeoutLock
      <4> QED
        BY <4>3, <4>4
    <3> QED
      BY <1>6, <3>1, <3>2, <3>3, <3>4
  <2> QED
    BY <1>1, <2>2, <2>3, <2>5, StepProtocol
<1>7. CASE TimeoutCas(w) \/ NoShowCas(w)
  <2>1. Finish(w) /\ (UNCHANGED rowLock \/ ReleaseRows(w))
    BY <1>7 DEF TimeoutCas, NoShowCas, lockVars
  <2>2. /\ rowLock[t] \in {None, w}
        /\ \A r \in Reservations \ {t} : reservation'[r] = reservation[r]
        /\ Rewritten(t)
    <3>1. CASE TimeoutCas(w)
      <4>1. /\ rowLock[t] = w /\ ~HasSubmittedProof(t)
            /\ DOMAIN loc[w].seen = {t}
        BY <1>2, <1>3, <3>1 DEF TimeoutCas, Guarded
      <4>2. /\ \A r \in Reservations \ {t} : reservation'[r] = reservation[r]
            /\ \/ reservation'[t] = reservation[t]
               \/ reservation'[t] = Cancelled(t, "TIMEOUT")
        BY <3>1, <4>1 DEF TimeoutCas, SetRows
      <4> QED
        BY <1>1, <4>1, <4>2, StatusReads DEF Rewritten
    <3>2. CASE NoShowCas(w)
      <4>1. /\ rowLock[t] = None
            /\ \A r \in Reservations \ {t} : reservation'[r] = reservation[r]
            /\ \/ reservation'[t] = reservation[t]
               \/ /\ Machine!CanTransition(Status(t), "NO_SHOW")
                  /\ reservation'[t] = WithStatus(t, "NO_SHOW")
        BY <1>3, <3>2 DEF NoShowCas, SetRows
      <4>2. Machine!CanTransition(Status(t), "NO_SHOW") =>
              Status(t) # "CANCELADA"
        BY DEF Machine!CanTransition, Machine!Transitions
      <4>3. Explained(t)
        BY ProtocolParts
      <4> QED
        BY <1>1, <4>1, <4>2, <4>3, StatusReads DEF Rewritten, Explained
    <3> QED
      BY <1>7, <3>1, <3>2
  <2>3. \A r \in Reservations : Explained(r)'
    <3>1. \A r \in Reservations \ {t} : Rewritten(r)
      BY <2>2 DEF Rewritten
    <3> QED
      BY <1>5, <2>2, <3>1, RewrittenExplained, ProtocolParts
  <2>4. \A p \in Procs \ {w} : Stays(p)
    <3> DEFINE S == {t}
    <3>1. \A r \in S : rowLock[r] \in {None, w}
      BY <2>2
    <3>2. \A r \in Reservations \ S : Status(r)' = Status(r)
      BY <2>2 DEF Status
    <3> HIDE DEF S
    <3> QED
      BY <1>1, <1>4, <1>5, <2>1, <3>1, <3>2, WritingOthers
  <2>5. Guarded(w)' /\ PlanLegal(w)'
    BY <1>1, <2>1, IdleProtected
  <2> QED
    BY <1>1, <2>3, <2>4, <2>5, StepProtocol
<1> QED
  BY <1>6, <1>7 DEF WorkerStep

LEMMA OtherProtocol ==
  ASSUME Protocol,
         \/ \E p \in Procs : DeadlockVictim(p) \/ Crash(p)
         \/ BlockSchedule \/ Tick \/ UNCHANGED vars
  PROVE  Protocol'
<1>1. TypeOK /\ ProcTypes /\ TableTypes /\ TypeOK'
  BY OtherType DEF Protocol, TypeOK
<1>2. CASE \E p \in Procs : DeadlockVictim(p) \/ Crash(p)
  <2>1. PICK q \in Procs : DeadlockVictim(q) \/ Crash(q)
    BY <1>2
  <2>2. Finish(q) /\ ReleaseRows(q) /\ UNCHANGED <<reservation, deposits>>
    BY <2>1 DEF DeadlockVictim, Crash
  <2>3. \E step, read : Go(q, step, read)
    BY <2>2 DEF Finish
  <2>4. \A p \in Procs \ {q} : Stays(p)
    BY <1>1, <2>2, <2>3, ReadingOthers
  <2>5. \A r \in Reservations : Explained(r)'
    BY <2>2, ExplainedKept, ProtocolParts
  <2> QED
    BY <1>1, <2>2, <2>4, <2>5, IdleProtected, StepProtocol
<1>3. CASE BlockSchedule
  <2>1. UNCHANGED <<deposits, rowLock, pc, loc>>
    BY <1>3 DEF BlockSchedule, lockVars, procVars
  <2>2. ASSUME NEW r \in Reservations
        PROVE  /\ reservation'[r].status = reservation[r].status
               /\ reservation'[r].source = reservation[r].source
    <3>1. reservation[r] \in Row
      BY <1>1 DEF TableTypes
    <3>2. PICK e : reservation'[r] \in
                     {reservation[r], [reservation[r] EXCEPT !.expires = e]}
      BY <1>3 DEF BlockSchedule, SetRows
    <3> QED
      BY <3>1, <3>2 DEF Row
  <2>3. \A p \in Procs : Stays(p)
    BY <2>1, <2>2 DEF Stays, Status, HasSubmittedProof
  <2>4. \A r \in Reservations : Explained(r)'
    BY <2>1, <2>2, ProtocolParts DEF Explained, Status, HasSubmittedProof
  <2> QED
    BY <1>1, <2>3, <2>4, StepProtocol
<1>4. CASE Tick \/ UNCHANGED vars
  <2>1. UNCHANGED <<reservation, deposits, rowLock, pc, loc>>
    BY <1>4 DEF Tick, vars, lockVars, procVars
  <2>2. \A p \in Procs : Stays(p)
    BY <2>1 DEF Stays, Status, HasSubmittedProof
  <2>3. \A r \in Reservations : Explained(r)'
    BY <2>1, ExplainedKept, ProtocolParts
  <2> QED
    BY <1>1, <2>2, <2>3, StepProtocol
<1> QED
  BY <1>2, <1>3, <1>4

---------------------------------------------------------------------------
LEMMA NextProtocol ==
  ASSUME Protocol, [Next]_vars
  PROVE  Protocol'
BY StatementProtocol, BeginProtocol, JobProtocol, ReadStepProtocol,
   RecordProofProtocol, StatusStepProtocol, ApprovePaidProtocol,
   DecideStepProtocol, WorkerStepProtocol, OtherProtocol
DEF Next, RequestStep

\* The locks and the compare-and-sets protect what each transaction read.
THEOREM ProtocolHolds == Spec => []Protocol
BY InitProtocol, NextProtocol, PTL DEF Spec

\* Whatever interleaves, a reservation cancelled by time has no proof waiting
\* for an administrator.
THEOREM ProofNeverOvertaken == Spec => []ProofBlocksTimeout
<1>1. Protocol => ProofBlocksTimeout
  BY DEF Protocol
<1> QED
  BY <1>1, ProtocolHolds, PTL

---------------------------------------------------------------------------
(* Each step is a step of the state machine                                *)

LEMMA RequestStepMoves ==
  ASSUME Protocol, NEW q \in Requests, RequestStep(q), NEW r \in Reservations
  PROVE  Moves(r)
<1>1. CASE \/ SubmitLock(q) \/ RecordProof(q) \/ ApproveGroup(q) \/ ApproveTx(q)
           \/ ApproveAbort(q) \/ ApproveLatest(q) \/ ApproveProof(q)
           \/ RejectRead(q) \/ RejectMark(q)
  <2>1. UNCHANGED reservation
    BY <1>1 DEF SubmitLock, RecordProof, ApproveGroup, ApproveTx, ApproveAbort,
                ApproveLatest, ApproveProof, RejectRead, RejectMark
  <2> QED
    BY <2>1 DEF Moves
<1>2. CASE AutoConfirm(q) \/ ApproveFree(q) \/ ClientCancelTx(q) \/ CheckInCas(q)
  BY <1>2, StatusStepRows DEF Moves
<1>3. CASE ApprovePaid(q)
  BY <1>3, ApprovePaidRows DEF Moves
<1>4. CASE RejectRestart(q)
  <2>1. reservation[r] \in Row
    BY DEF Protocol, TypeOK, TableTypes
  <2>2. \/ reservation'[r] = reservation[r]
        \/ reservation'[r] = [reservation[r] EXCEPT !.clock = loc[q].clock,
                                                   !.expires = loc[q].expires]
    BY <1>4 DEF RejectRestart, SetRows
  <2> QED
    BY <2>1, <2>2 DEF Row, Moves
<1> QED
  BY <1>1, <1>2, <1>3, <1>4 DEF RequestStep

LEMMA BlockScheduleMoves ==
  ASSUME Protocol, BlockSchedule, NEW r \in Reservations
  PROVE  Moves(r)
<1>1. reservation[r] \in Row
  BY DEF Protocol, TypeOK, TableTypes
<1>2. PICK e : reservation'[r] \in
                 {reservation[r], [reservation[r] EXCEPT !.expires = e]}
  BY DEF BlockSchedule, SetRows
<1> QED
  BY <1>1, <1>2 DEF Row, Moves

LEMMA NextMoves ==
  ASSUME Protocol, [Next]_vars, NEW r \in Reservations
  PROVE  Moves(r)
<1>1. CASE \E x \in Reservations : Statement(x)
  BY <1>1, StatementRows
<1>2. CASE \E p \in Requests : RequestStep(p)
  BY <1>2, RequestStepMoves
<1>3. CASE \E w \in Workers : WorkerStep(w)
  BY <1>3, WorkerStepMoves
<1>4. CASE BlockSchedule
  BY <1>4, BlockScheduleMoves
<1>5. CASE \/ \E p \in Requests, x \in Reservations : Begin(p, x)
           \/ \E w \in Workers, x \in Reservations : Job(w, x)
           \/ \E p \in Procs : DeadlockVictim(p) \/ Crash(p)
           \/ Tick \/ UNCHANGED vars
  <2>1. UNCHANGED reservation
    BY <1>5 DEF Begin, Submit, Approve, Reject, ClientCancel, CheckIn, Job,
                DepositJob, DepositSweep, NoShowJob, NoShowSweep,
                DeadlockVictim, Crash, Tick, vars
  <2> QED
    BY <2>1 DEF Moves
<1> QED
  BY <1>1, <1>2, <1>3, <1>4, <1>5 DEF Next

\* A move, between states in which a cancelled row and only that says who
\* cancelled it, is one the state machine makes.
LEMMA MovesAllowed ==
  ASSUME NEW r \in Reservations, Explained(r)', Moves(r)
  PROVE  \/ Machine!Kept(r) \/ Machine!Booked(r) \/ Machine!Advanced(r)
         \/ Machine!Revived(r)
BY DEF Explained, Moves, Status, Machine!Kept, Machine!Booked,
       Machine!Advanced, Machine!Revived

LEMMA InitRefines == Init => Machine!Init
<1> SUFFICES ASSUME Init PROVE Machine!Init
  OBVIOUS
<1>1. ASSUME NEW r \in Reservations
      PROVE  /\ reservation[r].status \in {"ABSENT", "PENDIENTE_VALORACION"}
             /\ reservation[r].source = "NINGUNA"
  <2>1. reservation[r] \in {Absent, Legacy(Horizon)}
    <3> DEFINE Rows == {Absent} \cup IF "confirmValoracion" \in Offered
                                      THEN {Legacy(Horizon)} ELSE {}
    <3>1. reservation \in [Reservations -> Rows]
      BY DEF Init
    <3>2. Rows \subseteq {Absent, Legacy(Horizon)}
      OBVIOUS
    <3> QED
      BY <3>1, <3>2
  <2>2. /\ Absent.status = "ABSENT" /\ Absent.source = "NINGUNA"
        /\ Legacy(Horizon).status = "PENDIENTE_VALORACION"
        /\ Legacy(Horizon).source = "NINGUNA"
    BY DEF Absent, Legacy
  <2> QED
    BY <2>1, <2>2
<1> QED
  BY <1>1 DEF Machine!Init

LEMMA NextRefines ==
  ASSUME Protocol, Protocol', [Next]_vars
  PROVE  Machine!Next
<1>1. ASSUME NEW r \in Reservations
      PROVE  Explained(r)'
  BY DEF Protocol, SourceTellsCancelled, ProofBlocksTimeout, Explained
<1> QED
  BY <1>1, NextMoves, MovesAllowed DEF Machine!Next

\* The handlers, workers and crashes, however they interleave, implement the
\* transition table of reservation-state-machine.ts and the revival of what was
\* cancelled by time; nothing else ever happens to the status of a reservation.
THEOREM LifecycleHolds == Spec => Lifecycle
<1>1. Protocol /\ Protocol' /\ [Next]_vars => [Machine!Next]_(Machine!vars)
  BY NextRefines
<1> QED
  BY <1>1, InitRefines, ProtocolHolds, PTL DEF Spec, Lifecycle, Machine!Spec

---------------------------------------------------------------------------
(* A group is decided as a whole                                           *)

\* Nobody but p, the deadlock detector or a crash moves p from step to step.
LEMMA OwnSteps ==
  ASSUME TypeOK, [Next]_vars, NEW p \in Procs,
         pc'[p] # pc[p] \/ loc'[p] # loc[p]
  PROVE  \/ \E r \in Reservations : Begin(p, r) \/ Job(p, r)
         \/ RequestStep(p) \/ WorkerStep(p) \/ DeadlockVictim(p) \/ Crash(p)
<1>1. ASSUME NEW q \in Procs, NEW step, NEW read, Go(q, step, read)
      PROVE  q = p
  BY <1>1, GoOthers DEF TypeOK
<1>2. CASE \E q \in Requests, r \in Reservations : Begin(q, r)
  <2>1. PICK q \in Requests, r \in Reservations : Begin(q, r)
    BY <1>2
  <2>2. \E step, read : Go(q, step, read)
    <3>1. CASE Approve(q, r)
      BY <3>1 DEF Approve
    <3>2. CASE ~ Approve(q, r)
      BY <2>1, <3>2 DEF Begin, Submit, Reject, ClientCancel, CheckIn
    <3> QED
      BY <3>1, <3>2
  <2> QED
    BY <1>1, <2>1, <2>2 DEF Procs
<1>3. CASE \E w \in Workers, r \in Reservations : Job(w, r)
  <2>1. PICK w \in Workers, r \in Reservations : Job(w, r)
    BY <1>3
  <2>2. \E step, read : Go(w, step, read)
    BY <2>1 DEF Job, DepositJob, DepositSweep, NoShowJob, NoShowSweep,
                TimeoutRead, NoShowRead, Finish
  <2> QED
    BY <1>1, <2>1, <2>2 DEF Procs
<1>4. CASE \E q \in Requests : RequestStep(q)
  <2>1. PICK q \in Requests : RequestStep(q)
    BY <1>4
  <2>2. \E step, read : Go(q, step, read)
    BY <2>1 DEF RequestStep, SubmitLock, RecordProof, AutoConfirm, ApproveGroup,
         ApproveTx, ApproveFree, ApprovePaid, ApproveAbort, ApproveLatest,
         ApproveProof, RejectRead, RejectMark, RejectRestart, ClientCancelTx,
         CheckInCas, Finish
  <2> QED
    BY <1>1, <2>1, <2>2 DEF Procs
<1>5. CASE \E w \in Workers : WorkerStep(w)
  <2>1. PICK w \in Workers : WorkerStep(w)
    BY <1>5
  <2>2. \E step, read : Go(w, step, read)
    BY <2>1 DEF WorkerStep, ProofCheck, TimeoutFind, TimeoutLock, TimeoutCas,
                NoShowCas, Finish
  <2> QED
    BY <1>1, <2>1, <2>2 DEF Procs
<1>6. CASE \E q \in Procs : DeadlockVictim(q) \/ Crash(q)
  BY <1>1, <1>6 DEF DeadlockVictim, Crash, Finish
<1>7. CASE \/ \E r \in Reservations : Statement(r)
           \/ BlockSchedule \/ Tick \/ UNCHANGED vars
  <2>1. UNCHANGED <<pc, loc>>
    BY <1>7 DEF Statement, Create, ConfirmValoracion, Reschedule, AdminCancel,
                Revive, Complete, BlockSchedule, Tick, vars, procVars
  <2> QED
    BY <2>1
<1> QED
  BY <1>2, <1>3, <1>4, <1>5, <1>6, <1>7 DEF Next

\* What a step writes to the group of p: all of its statuses, or none.
AllOrNone(S) ==
  {r \in S : reservation'[r].status # reservation[r].status} \in {{}, S}

LEMMA NextGroupStep ==
  ASSUME Protocol, [Next]_vars
  PROVE  GroupStep
<1> SUFFICES ASSUME NEW p \in Requests,
                    pc[p] \in {"clientCancel", "approveResolve"},
                    pc'[p] = "idle"
             PROVE  AllOrNone(DOMAIN loc[p].seen)
  BY DEF GroupStep, AllOrNone
<1>1. /\ TypeOK /\ ProcTypes /\ TableTypes /\ p \in Procs
      /\ Guarded(p) /\ PlanLegal(p)
  BY DEF Protocol, TypeOK, Procs
<1>2. DOMAIN loc[p].seen \in SUBSET Reservations
  BY <1>1, SeenType
<1>3. \A st \in {"CONFIRMADA", "CANCELADA"} : ~ Machine!CanTransition(st, st)
  BY DEF Machine!CanTransition, Machine!Transitions
<1>4. CASE \/ ApproveAbort(p) \/ DeadlockVictim(p) \/ Crash(p)
           \/ ClientCancelTx(p) /\ ~ Unmoved(p)
  <2>1. \A r \in Reservations : reservation'[r] = reservation[r]
    BY <1>4 DEF ApproveAbort, DeadlockVictim, Crash, ClientCancelTx, SetRows
  <2> QED
    BY <1>2, <2>1 DEF AllOrNone
<1>5. CASE ClientCancelTx(p) /\ Unmoved(p)
  <2>1. ASSUME NEW r \in DOMAIN loc[p].seen
        PROVE  reservation'[r].status # reservation[r].status
    <3>1. /\ reservation'[r] = Cancelled(r, "CLIENT")
          /\ Machine!CanTransition(Status(r), "CANCELADA")
      BY <1>1, <1>2, <1>5 DEF ClientCancelTx, SetRows, Unmoved, PlanLegal
    <3> QED
      BY <1>1, <1>2, <1>3, <3>1, StatusReads DEF Status
  <2> QED
    BY <2>1 DEF AllOrNone
<1>6. CASE ApproveFree(p)
  <2>1. ASSUME NEW r \in DOMAIN loc[p].seen
        PROVE  reservation'[r].status # reservation[r].status
    <3>1. /\ reservation'[r] = WithStatus(r, "CONFIRMADA")
          /\ Machine!CanTransition(Status(r), "CONFIRMADA")
      BY <1>1, <1>2, <1>6 DEF ApproveFree, SetRows, Guarded
    <3> QED
      BY <1>1, <1>2, <1>3, <3>1, StatusReads DEF Status
  <2> QED
    BY <2>1 DEF AllOrNone
<1>7. CASE ApprovePaid(p)
  <2>1. ASSUME NEW r \in DOMAIN loc[p].seen
        PROVE  reservation'[r].status # reservation[r].status
    BY <1>3, <1>7, ApprovePaidRows DEF Status
  <2> QED
    BY <2>1 DEF AllOrNone
<1>8. \/ ApproveAbort(p) \/ DeadlockVictim(p) \/ Crash(p) \/ ClientCancelTx(p)
      \/ ApproveFree(p) \/ ApprovePaid(p)
  <2>1. \/ \E r \in Reservations : Begin(p, r) \/ Job(p, r)
        \/ RequestStep(p) \/ WorkerStep(p) \/ DeadlockVictim(p) \/ Crash(p)
    BY <1>1, OwnSteps
  <2>2. \A r \in Reservations : ~ Begin(p, r) /\ ~ Job(p, r)
    BY DEF Begin, Submit, Approve, Reject, ClientCancel, CheckIn, Job,
           DepositJob, DepositSweep, NoShowJob, NoShowSweep, Idle
  <2>3. ~ WorkerStep(p)
    BY DEF WorkerStep, ProofCheck, TimeoutFind, TimeoutLock, TimeoutCas,
           NoShowCas
  <2>4. RequestStep(p) => \/ ApproveAbort(p) \/ ClientCancelTx(p)
                          \/ ApproveFree(p) \/ ApprovePaid(p)
    BY DEF RequestStep, SubmitLock, RecordProof, AutoConfirm, ApproveGroup,
           ApproveTx, ApproveLatest, ApproveProof, RejectRead, RejectMark,
           RejectRestart, CheckInCas
  <2> QED
    BY <2>1, <2>2, <2>3, <2>4
<1> QED
  BY <1>4, <1>5, <1>6, <1>7, <1>8

\* An approval or a client's cancellation of a day, whatever races with it or
\* kills it, changes every reservation it read or none.
THEOREM GroupAllOrNothing == Spec => [][GroupStep]_vars
<1>1. Protocol /\ [Next]_vars => [GroupStep]_vars
  BY NextGroupStep
<1> QED
  BY <1>1, ProtocolHolds, PTL DEF Spec

---------------------------------------------------------------------------
(* What may become of the records of a reservation                         *)

Pending(s) == \E i \in DOMAIN s : s[i] = "PENDIENTE"
NewestPends(s) == \A i \in DOMAIN s : s[i] = "PENDIENTE" => i = Len(s)

SupersededIn(s) ==
  [i \in DOMAIN s |-> IF s[i] = "PENDIENTE" THEN "RECHAZADO" ELSE s[i]]

\* Nothing, a new proof that replaces the pending one, a decision on the pending
\* one, or a payment that is noted without a proof.
Revised(s, t) ==
  \/ t = s
  \/ \E e \in DepositStatuses : t = Append(SupersededIn(s), e)
  \/ \E i \in DOMAIN s, e \in {"CONFIRMADO", "RECHAZADO"} :
       s[i] = "PENDIENTE" /\ t = [s EXCEPT ![i] = e]
  \/ ~ Pending(s) /\ t = Append(s, "CONFIRMADO")

LEMMA SupersededSequence ==
  ASSUME NEW s \in Seq(DepositStatuses)
  PROVE  /\ SupersededIn(s) \in Seq(DepositStatuses)
         /\ Len(SupersededIn(s)) = Len(s)
         /\ DOMAIN s = 1..Len(s)
BY DEF SupersededIn, DepositStatuses

\* A revision forgets no record and changes no decision.
LEMMA RevisedFinal ==
  ASSUME NEW s \in Seq(DepositStatuses), NEW t, Revised(s, t)
  PROVE  /\ Len(s) <= Len(t) /\ DOMAIN s \subseteq DOMAIN t
         /\ \A i \in DOMAIN s : s[i] # "PENDIENTE" => t[i] = s[i]
<1>1. CASE t = s
  BY <1>1
<1>2. CASE \E e \in DepositStatuses : t = Append(SupersededIn(s), e)
  <2>1. PICK e \in DepositStatuses : t = Append(SupersededIn(s), e)
    BY <1>2
  <2>2. \A i \in DOMAIN s : t[i] = SupersededIn(s)[i]
    BY <2>1, SupersededSequence
  <2>3. Len(t) = Len(s) + 1 /\ DOMAIN t = 1..(Len(s) + 1)
    BY <2>1, SupersededSequence
  <2>4. \A i \in DOMAIN s : s[i] # "PENDIENTE" => SupersededIn(s)[i] = s[i]
    BY DEF SupersededIn
  <2> QED
    BY <2>2, <2>3, <2>4, SupersededSequence
<1>3. CASE \E i \in DOMAIN s, e \in {"CONFIRMADO", "RECHAZADO"} :
             s[i] = "PENDIENTE" /\ t = [s EXCEPT ![i] = e]
  BY <1>3
<1>4. CASE t = Append(s, "CONFIRMADO")
  BY <1>4
<1> QED
  BY <1>1, <1>2, <1>3, <1>4 DEF Revised

\* Only the newest record pends after a revision, if it was so before.
LEMMA RevisedNewest ==
  ASSUME NEW s \in Seq(DepositStatuses), NewestPends(s), NEW t, Revised(s, t)
  PROVE  NewestPends(t)
<1>1. CASE t = s
  BY <1>1
<1>2. CASE \E e \in DepositStatuses : t = Append(SupersededIn(s), e)
  <2>1. PICK e \in DepositStatuses : t = Append(SupersededIn(s), e)
    BY <1>2
  <2>2. Len(t) = Len(s) + 1 /\ DOMAIN t = 1..(Len(s) + 1)
    BY <2>1, SupersededSequence
  <2>3. \A i \in DOMAIN s : t[i] = SupersededIn(s)[i]
    BY <2>1, SupersededSequence
  <2>4. \A i \in DOMAIN s : SupersededIn(s)[i] # "PENDIENTE"
    BY DEF SupersededIn
  <2> QED
    BY <2>2, <2>3, <2>4, SupersededSequence DEF NewestPends
<1>3. CASE \E i \in DOMAIN s, e \in {"CONFIRMADO", "RECHAZADO"} :
             s[i] = "PENDIENTE" /\ t = [s EXCEPT ![i] = e]
  <2>1. PICK i \in DOMAIN s, e \in {"CONFIRMADO", "RECHAZADO"} :
          t = [s EXCEPT ![i] = e]
    BY <1>3
  <2>2. Len(t) = Len(s) /\ DOMAIN t = DOMAIN s
    BY <2>1
  <2>3. \A j \in DOMAIN s : t[j] = "PENDIENTE" => s[j] = "PENDIENTE"
    BY <2>1
  <2> QED
    BY <2>2, <2>3 DEF NewestPends
<1>4. CASE ~ Pending(s) /\ t = Append(s, "CONFIRMADO")
  <2>1. Len(t) = Len(s) + 1 /\ DOMAIN t = 1..(Len(s) + 1)
    BY <1>4
  <2>2. \A i \in 1..Len(s) : t[i] # "PENDIENTE"
    BY <1>4 DEF Pending
  <2> QED
    BY <2>1, <2>2 DEF NewestPends
<1> QED
  BY <1>1, <1>2, <1>3, <1>4 DEF Revised

LEMMA NewestOfAll ==
  OnePendingProof <=> \A r \in Reservations : NewestPends(deposits[r])
BY DEF OnePendingProof, NewestPends

LEMMA SubmittedPends ==
  ASSUME NEW r
  PROVE  HasSubmittedProof(r) <=> Pending(deposits[r])
BY DEF HasSubmittedProof, Pending

LEMMA InitRecords == Init => Records
<1> SUFFICES ASSUME Init PROVE Records
  OBVIOUS
<1>1. OnePendingProof
  BY DEF Init, OnePendingProof
<1>2. \A p \in Procs : Decides(p)
  BY DEF Init, Decides
<1> QED
  BY <1>1, <1>2, InitProtocol DEF Records

---------------------------------------------------------------------------
(* What a step leaves alone                                                *)

\* The row keeps its credit, the deposit that covers it and, while it is locked,
\* its start.
Kept(r) ==
  /\ reservation'[r].credited = reservation[r].credited
  /\ reservation'[r].coveredBy = reservation[r].coveredBy
  /\ rowLock[r] # None => reservation'[r].start = reservation[r].start

Unconfirmed(r) == Status(r)' = "CONFIRMADA" => Status(r) = "CONFIRMADA"

\* The row is booked.
New(r) ==
  /\ Status(r) = "ABSENT" /\ Status(r)' = "PENDIENTE_DEPOSITO"
  /\ reservation'[r].coveredBy = None

LEMMA SameKept ==
  ASSUME NEW r, reservation'[r] = reservation[r]
  PROVE  Kept(r) /\ Unconfirmed(r)
BY DEF Kept, Unconfirmed, Status

\* A new status, and perhaps other columns of the deadline.
LEMMA StatusKept ==
  ASSUME TableTypes, NEW r \in Reservations
  PROVE  /\ \A st : reservation'[r] = WithStatus(r, st) =>
              Kept(r) /\ (st # "CONFIRMADA" => Unconfirmed(r))
         /\ \A src : reservation'[r] = Cancelled(r, src) => Kept(r) /\ Unconfirmed(r)
<1>1. reservation[r] \in Row
  BY DEF TableTypes
<1>2. ASSUME NEW st, reservation'[r] = WithStatus(r, st)
      PROVE  Kept(r) /\ (st # "CONFIRMADA" => Unconfirmed(r))
  BY <1>1, <1>2 DEF WithStatus, Row, Kept, Unconfirmed, Status
<1>3. ASSUME NEW src, reservation'[r] = Cancelled(r, src)
      PROVE  Kept(r) /\ Unconfirmed(r)
  BY <1>1, <1>3 DEF Cancelled, Row, Kept, Unconfirmed, Status
<1> QED
  BY <1>2, <1>3

\* A new deadline, perhaps with the status of a row that waits for a deposit.
LEMMA DeadlineKept ==
  ASSUME TableTypes, NEW r \in Reservations, NEW c, NEW e
  PROVE  /\ reservation'[r] = [reservation[r] EXCEPT !.expires = e] =>
              Kept(r) /\ Unconfirmed(r)
         /\ reservation'[r] = [reservation[r] EXCEPT !.clock = c, !.expires = e] =>
              Kept(r) /\ Unconfirmed(r)
         /\ reservation'[r] = [WithStatus(r, "PENDIENTE_DEPOSITO") EXCEPT
                                 !.clock = c, !.expires = e] =>
              Kept(r) /\ Unconfirmed(r)
         /\ reservation'[r] = [WithStatus(r, "PENDIENTE_DEPOSITO") EXCEPT
                                 !.source = "NINGUNA", !.clock = c, !.expires = e] =>
              Kept(r) /\ Unconfirmed(r)
<1>1. reservation[r] \in Row
  BY DEF TableTypes
<1> QED
  BY <1>1 DEF WithStatus, Row, Kept, Unconfirmed, Status

LEMMA StatementColumns ==
  ASSUME TableTypes, NEW x \in Reservations, Statement(x), NEW r \in Reservations
  PROVE  New(r) \/ (Kept(r) /\ Unconfirmed(r))
<1>1. CASE Create(x)
  <2>1. CASE r \in ComboOf[x]
    <3>1. PICK start \in [ComboOf[x] -> (now + 1)..Horizon], credited \in BOOLEAN,
               first \in ComboOf[x] :
            SetRows(ComboOf[x], LAMBDA y :
              [Absent EXCEPT
                 !.status = "PENDIENTE_DEPOSITO",
                 !.start = start[y],
                 !.clock = IF credited THEN NoTime ELSE now,
                 !.expires = IF credited THEN NoTime
                             ELSE Expiry(now, start[first], blocked),
                 !.credited = credited])
      BY <1>1 DEF Create
    <3> QED
      BY <1>1, <2>1, <3>1 DEF Create, SetRows, Absent, New, Status
  <2>2. CASE r \notin ComboOf[x]
    BY <1>1, <2>2, SameKept DEF Create, SetRows
  <2> QED
    BY <2>1, <2>2
<1>2. CASE ConfirmValoracion(x)
  <2>1. PICK c, e : reservation'[r] \in
            {reservation[r], [WithStatus(r, "PENDIENTE_DEPOSITO") EXCEPT
                                !.clock = c, !.expires = e]}
    BY <1>2 DEF ConfirmValoracion, SetRows
  <2> QED
    BY <2>1, SameKept, DeadlineKept
<1>3. CASE Reschedule(x)
  <2>1. PICK s \in (now + 1)..Horizon :
          SetRows({x}, LAMBDA y : [reservation[y] EXCEPT !.start = s])
    BY <1>3 DEF Reschedule
  <2>2. rowLock[x] = None /\ reservation[x] \in Row
    BY <1>3 DEF Reschedule, TableTypes
  <2>3. CASE r = x
    BY <2>1, <2>2, <2>3 DEF SetRows, Row, Kept, Unconfirmed, Status
  <2> QED
    BY <2>1, <2>3, SameKept DEF SetRows
<1>4. CASE Revive(x)
  <2>1. reservation'[r] \in
            {reservation[r], [WithStatus(r, "PENDIENTE_DEPOSITO") EXCEPT
               !.source = "NINGUNA", !.clock = NoTime, !.expires = NoTime]}
    BY <1>4 DEF Revive, SetRows
  <2> QED
    BY <2>1, SameKept, DeadlineKept
<1>5. CASE AdminCancel(x) \/ Complete(x)
  <2>1. reservation'[r] \in {reservation[r], WithStatus(r, "COMPLETADA"),
                             Cancelled(r, "ADMIN")}
    BY <1>5 DEF AdminCancel, Complete, SetRows
  <2> QED
    BY <2>1, SameKept, StatusKept
<1> QED
  BY <1>1, <1>2, <1>3, <1>4, <1>5 DEF Statement

\* An approval covers rows with a deposit and leaves the rest of their columns.
Covered(q, r) ==
  /\ ApprovePaid(q)
  /\ reservation'[r].credited = reservation[r].credited
  /\ reservation'[r].start = reservation[r].start
  /\ reservation'[r].coveredBy \in
       {reservation[r].coveredBy, <<Payer(q), Len(Settled(q))>>}

LEMMA RequestColumns ==
  ASSUME TableTypes, NEW q \in Requests, RequestStep(q), NEW r \in Reservations
  PROVE  \/ Kept(r) /\ (Unconfirmed(r) \/ AutoConfirm(q) \/ ApproveFree(q))
         \/ Covered(q, r)
<1>1. CASE ApprovePaid(q)
  <2>1. reservation[r] \in Row
    BY DEF TableTypes
  <2>2. PICK d \in {reservation[r].coveredBy, <<Payer(q), Len(Settled(q))>>} :
          reservation'[r] \in
            {reservation[r], [WithStatus(r, "CONFIRMADA") EXCEPT !.coveredBy = d]}
    <3>1. \A y \in {r} : WithStatus(y, "CONFIRMADA").coveredBy = reservation[y].coveredBy
      BY <2>1 DEF WithStatus, Row
    <3> QED
      BY <1>1, <3>1 DEF ApprovePaid, SetRows
  <2>3. /\ reservation'[r].credited = reservation[r].credited
        /\ reservation'[r].start = reservation[r].start
        /\ reservation'[r].coveredBy \in {reservation[r].coveredBy, d}
    BY <2>1, <2>2 DEF WithStatus, Row
  <2> QED
    BY <1>1, <2>3 DEF Covered
<1>2. CASE RejectRestart(q)
  <2>1. PICK c, e : reservation'[r] \in
            {reservation[r], [reservation[r] EXCEPT !.clock = c, !.expires = e]}
    BY <1>2 DEF RejectRestart, SetRows
  <2>2. Unconfirmed(r) /\ Kept(r)
    BY <2>1, SameKept, DeadlineKept
  <2> QED
    BY <2>2
<1>3. CASE AutoConfirm(q) \/ ApproveFree(q)
  <2>1. reservation'[r] \in {reservation[r], WithStatus(r, "CONFIRMADA")}
    BY <1>3 DEF AutoConfirm, ApproveFree, SetRows
  <2> QED
    BY <1>3, <2>1, SameKept, StatusKept
<1>4. CASE ClientCancelTx(q) \/ CheckInCas(q)
  <2>1. reservation'[r] \in {reservation[r], WithStatus(r, "CITA_EN_CURSO"),
                             Cancelled(r, "CLIENT")}
    BY <1>4 DEF ClientCancelTx, CheckInCas, SetRows
  <2> QED
    BY <2>1, SameKept, StatusKept
<1>5. CASE \/ SubmitLock(q) \/ RecordProof(q) \/ ApproveGroup(q) \/ ApproveTx(q)
           \/ ApproveAbort(q) \/ ApproveLatest(q) \/ ApproveProof(q)
           \/ RejectRead(q) \/ RejectMark(q)
  BY <1>5, SameKept DEF SubmitLock, RecordProof, ApproveGroup, ApproveTx,
       ApproveAbort, ApproveLatest, ApproveProof, RejectRead, RejectMark
<1> QED
  BY <1>1, <1>2, <1>3, <1>4, <1>5 DEF RequestStep

\* Every step books the row, or keeps those columns, or is an approval.
LEMMA NextColumns ==
  ASSUME Protocol, [Next]_vars, NEW r \in Reservations
  PROVE  \/ New(r)
         \/ Kept(r) /\ Unconfirmed(r)
         \/ \E q \in Requests : \/ Kept(r) /\ (AutoConfirm(q) \/ ApproveFree(q))
                                \/ Covered(q, r)
<1>1. TableTypes
  BY DEF Protocol, TypeOK
<1>2. CASE \E x \in Reservations : Statement(x)
  BY <1>1, <1>2, StatementColumns
<1>3. CASE \E q \in Requests : RequestStep(q)
  BY <1>1, <1>3, RequestColumns
<1>4. CASE \E w \in Workers : WorkerStep(w)
  <2>1. reservation'[r] \in {reservation[r], WithStatus(r, "NO_SHOW"),
                             Cancelled(r, "TIMEOUT")}
    BY <1>4 DEF WorkerStep, ProofCheck, TimeoutFind, TimeoutLock, TimeoutCas,
                NoShowCas, SetRows
  <2> QED
    BY <1>1, <2>1, SameKept, StatusKept
<1>5. CASE BlockSchedule
  <2>1. PICK e : reservation'[r] \in
                   {reservation[r], [reservation[r] EXCEPT !.expires = e]}
    BY <1>5 DEF BlockSchedule, SetRows
  <2>2. Unconfirmed(r) /\ Kept(r)
    BY <1>1, <2>1, SameKept, DeadlineKept
  <2> QED
    BY <2>2
<1>6. CASE \/ \E p \in Requests, x \in Reservations : Begin(p, x)
           \/ \E w \in Workers, x \in Reservations : Job(w, x)
           \/ \E p \in Procs : DeadlockVictim(p) \/ Crash(p)
           \/ Tick \/ UNCHANGED vars
  BY <1>6, SameKept DEF Begin, Submit, Approve, Reject, ClientCancel, CheckIn,
       Job, DepositJob, DepositSweep, NoShowJob, NoShowSweep,
       DeadlockVictim, Crash, Tick, vars
<1> QED
  BY <1>2, <1>3, <1>4, <1>5, <1>6 DEF Next

\* A row that exists keeps its credit, and a locked one also its start.
LEMMA RowFixed ==
  ASSUME Protocol, [Next]_vars, NEW r \in Reservations, Status(r) # "ABSENT"
  PROVE  /\ reservation'[r].credited = reservation[r].credited
         /\ rowLock[r] # None => reservation'[r].start = reservation[r].start
BY NextColumns DEF New, Kept, Covered

\* A step of q changes the records of r by a revision; it adds to them only when
\* it holds the row, and decides only when nobody else holds the record.
RevisedBy(q, r) ==
  /\ Revised(deposits[r], deposits'[r])
  /\ rowLock[r] # q => /\ Len(deposits'[r]) = Len(deposits[r])
                       /\ HasSubmittedProof(r)' => HasSubmittedProof(r)
  /\ proofLock[r] \notin {None, q} =>
       \A i \in DOMAIN deposits[r] : deposits'[r][i] = deposits[r][i]

LEMMA KeptRevised ==
  ASSUME NEW q, NEW r, deposits'[r] = deposits[r]
  PROVE  RevisedBy(q, r)
BY DEF RevisedBy, Revised, HasSubmittedProof

\* A decision on one pending record that nobody else holds.
LEMMA DecisionRevises ==
  ASSUME TypeOK, NEW q \in Procs, NEW r \in Reservations,
         NEW i \in DOMAIN deposits[r], NEW e \in {"CONFIRMADO", "RECHAZADO"},
         deposits[r][i] = "PENDIENTE", proofLock[r] \in {None, q},
         deposits'[r] = [deposits[r] EXCEPT ![i] = e]
  PROVE  RevisedBy(q, r)
<1>1. deposits[r] \in Seq(DepositStatuses)
  BY DEF TypeOK, TableTypes
<1>2. Len(deposits'[r]) = Len(deposits[r]) /\ DOMAIN deposits'[r] = DOMAIN deposits[r]
  BY <1>1
<1>3. Revised(deposits[r], deposits'[r])
  BY DEF Revised
<1>4. HasSubmittedProof(r)
  BY DEF HasSubmittedProof
<1> QED
  BY <1>2, <1>3, <1>4 DEF RevisedBy

LEMMA RequestStepRevises ==
  ASSUME Records, NEW q \in Requests, RequestStep(q), NEW r \in Reservations
  PROVE  RevisedBy(q, r)
<1>1. /\ TypeOK /\ q \in Procs /\ Guarded(q) /\ Decides(q)
      /\ loc[q] \in Local /\ (pc[q] # "idle" => loc[q].target \in Reservations)
  BY DEF Records, Protocol, TypeOK, ProcTypes, Procs
<1>2. deposits \in [Reservations -> Seq(DepositStatuses)]
  BY <1>1 DEF TypeOK, TableTypes
<1>3. CASE RecordProof(q)
  <2> DEFINE t == loc[q].target
             e == IF loc[q].flag THEN "CONFIRMADO" ELSE "PENDIENTE"
  <2>1. t \in Reservations /\ rowLock[t] = q /\ proofLock[t] = None
    BY <1>1, <1>3 DEF RecordProof, Guarded
  <2>2. deposits' = [deposits EXCEPT ![t] = Append(Superseded(t), e)]
    BY <1>3 DEF RecordProof
  <2>3. CASE r = t
    <3>1. e \in DepositStatuses
      BY DEF DepositStatuses
    <3>2. deposits'[r] = Append(SupersededIn(deposits[r]), e)
      BY <1>2, <2>1, <2>2, <2>3 DEF Superseded, SupersededIn
    <3> QED
      BY <2>1, <2>3, <3>1, <3>2 DEF RevisedBy, Revised
  <2>4. CASE r # t
    BY <1>2, <2>2, <2>4, KeptRevised
  <2> QED
    BY <2>3, <2>4
<1>4. CASE ApprovePaid(q)
  <2>1. NeedsPayment(q) # {} /\ pc[q] = "approveResolve"
    BY <1>4 DEF ApprovePaid
  <2>2. PICK t \in Reservations : t = Payer(q) /\ rowLock[t] = q
    BY <1>1, <2>1, PayerInGroup DEF NeedsPayment, Guarded
  <2>3. deposits' = [deposits EXCEPT ![t] = Settled(q)]
    BY <1>4, <2>2 DEF ApprovePaid
  <2>4. CASE r # t
    BY <1>2, <2>3, <2>4, KeptRevised
  <2>5. CASE r = t /\ loc[q].deposit # 0
    <3>1. /\ deposits'[r] = [deposits[r] EXCEPT ![loc[q].deposit] = "CONFIRMADO"]
          /\ deposits[r][loc[q].deposit] = "PENDIENTE" /\ proofLock[r] = None
      BY <1>2, <1>4, <2>2, <2>3, <2>5 DEF ApprovePaid, Settled
    <3>2. loc[q].deposit \in DOMAIN deposits[r]
      BY <1>1, <2>1, <2>2, <2>5 DEF Decides
    <3> QED
      BY <1>1, <3>1, <3>2, DecisionRevises
  <2>6. CASE r = t /\ loc[q].deposit = 0
    <3>1. ~ Pending(deposits[r])
      BY <1>1, <2>1, <2>2, <2>6, SubmittedPends DEF Decides
    <3>2. \/ deposits'[r] = deposits[r]
          \/ deposits'[r] = Append(deposits[r], "CONFIRMADO")
      BY <1>2, <2>2, <2>3, <2>6 DEF Settled
    <3>3. Revised(deposits[r], deposits'[r])
      BY <3>1, <3>2 DEF Revised
    <3>4. \A i \in DOMAIN deposits[r] : deposits'[r][i] = deposits[r][i]
      BY <1>2, <3>2
    <3> QED
      BY <2>2, <2>6, <3>3, <3>4 DEF RevisedBy
  <2> QED
    BY <2>4, <2>5, <2>6
<1>5. CASE ApproveProof(q) \/ RejectRestart(q)
  <2>1. PICK t \in Reservations : t = loc[q].target
    BY <1>1, <1>5 DEF ApproveProof, RejectRestart
  <2>2. loc[q].deposit \in DOMAIN deposits[t]
    BY <1>1, <1>5, <2>1 DEF ApproveProof, RejectRestart, Decides
  <2>3. PICK e \in {"CONFIRMADO", "RECHAZADO"} :
          \/ UNCHANGED deposits
          \/ /\ deposits[t][loc[q].deposit] = "PENDIENTE"
             /\ proofLock[t] \in {None, q}
             /\ deposits' = [deposits EXCEPT ![t] =
                               [@ EXCEPT ![loc[q].deposit] = e]]
    BY <1>1, <1>5, <2>1 DEF ApproveProof, RejectRestart, Decides
  <2>4. CASE r = t /\ ~ UNCHANGED deposits
    BY <1>1, <1>2, <2>2, <2>3, <2>4, DecisionRevises
  <2>5. CASE r # t \/ UNCHANGED deposits
    BY <1>2, <2>3, <2>5, KeptRevised
  <2> QED
    BY <2>4, <2>5
<1>6. CASE \/ SubmitLock(q) \/ AutoConfirm(q) \/ ApproveGroup(q) \/ ApproveTx(q)
           \/ ApproveFree(q) \/ ApproveAbort(q) \/ ApproveLatest(q)
           \/ RejectRead(q) \/ RejectMark(q) \/ ClientCancelTx(q) \/ CheckInCas(q)
  <2>1. UNCHANGED deposits
    BY <1>6 DEF SubmitLock, AutoConfirm, ApproveGroup, ApproveTx, ApproveFree,
                ApproveAbort, ApproveLatest, RejectRead, RejectMark,
                ClientCancelTx, CheckInCas
  <2> QED
    BY <2>1, KeptRevised
<1> QED
  BY <1>3, <1>4, <1>5, <1>6 DEF RequestStep

\* Only requests write deposit records.
LEMMA OthersKeepRecords ==
  ASSUME Next, \A q \in Requests : ~ RequestStep(q)
  PROVE  UNCHANGED deposits
<1>1. CASE \E r \in Reservations : Statement(r)
  BY <1>1 DEF Statement, Create, ConfirmValoracion, Reschedule, AdminCancel,
              Revive, Complete
<1>2. CASE \/ \E p \in Requests, r \in Reservations : Begin(p, r)
           \/ \E w \in Workers, r \in Reservations : Job(w, r)
  BY <1>2 DEF Begin, Submit, Approve, Reject, ClientCancel, CheckIn, Job,
              DepositJob, DepositSweep, NoShowJob, NoShowSweep
<1>3. CASE \/ \E w \in Workers : WorkerStep(w)
           \/ \E p \in Procs : DeadlockVictim(p) \/ Crash(p)
           \/ BlockSchedule \/ Tick
  BY <1>3 DEF WorkerStep, ProofCheck, TimeoutFind, TimeoutLock, TimeoutCas,
              NoShowCas, DeadlockVictim, Crash, BlockSchedule, Tick
<1> QED
  BY <1>1, <1>2, <1>3 DEF Next

LEMMA NextRevises ==
  ASSUME Records, [Next]_vars, NEW r \in Reservations
  PROVE  Revised(deposits[r], deposits'[r])
<1>1. CASE \E q \in Requests : RequestStep(q)
  BY <1>1, RequestStepRevises DEF RevisedBy
<1>2. CASE ~ \E q \in Requests : RequestStep(q)
  <2>1. UNCHANGED deposits
    BY <1>2, OthersKeepRecords DEF vars
  <2> QED
    BY <2>1 DEF Revised
<1> QED
  BY <1>1, <1>2

---------------------------------------------------------------------------
(* What a decision under way knows                                         *)

\* Who pays is settled by the rows that were read, their credit and their start.
LEMMA PayerKept ==
  ASSUME NEW p, loc'[p] = loc[p],
         \A r \in DOMAIN loc[p].seen :
           /\ reservation'[r].credited = reservation[r].credited
           /\ reservation'[r].start = reservation[r].start
  PROVE  NeedsPayment(p)' = NeedsPayment(p) /\ Payer(p)' = Payer(p)
<1>1. NeedsPayment(p)' = NeedsPayment(p)
  BY DEF NeedsPayment
<1>2. NeedsPayment(p) \subseteq DOMAIN loc[p].seen
  BY DEF NeedsPayment
<1>3. [r \in NeedsPayment(p) |-> reservation'[r].start]
        = [r \in NeedsPayment(p) |-> reservation[r].start]
  BY <1>2
<1>4. Payer(p)' = IF loc[p].target \in NeedsPayment(p) THEN loc[p].target
                  ELSE Earliest([r \in NeedsPayment(p) |-> reservation'[r].start])
  BY <1>1 DEF Payer
<1> QED
  BY <1>1, <1>3, <1>4 DEF Payer

\* A process that did not step keeps what it knows of the records it holds.
LEMMA OthersDecide ==
  ASSUME Records, [Next]_vars, NEW p \in Procs, pc'[p] = pc[p], loc'[p] = loc[p],
         \A r \in Reservations : rowLock[r] = p =>
           /\ Len(deposits'[r]) = Len(deposits[r])
           /\ HasSubmittedProof(r)' => HasSubmittedProof(r),
         \A r \in Reservations : proofLock[r] = p =>
           /\ proofLock'[r] = p
           /\ \A i \in DOMAIN deposits[r] : deposits'[r][i] = deposits[r][i]
  PROVE  Decides(p)'
<1>1. /\ Protocol /\ TypeOK /\ Guarded(p) /\ Decides(p)
      /\ pc[p] # "idle" => loc[p].target \in Reservations
  BY DEF Records, Protocol, TypeOK, ProcTypes
<1>2. ASSUME NEW r \in Reservations
      PROVE  DOMAIN deposits[r] \subseteq DOMAIN deposits'[r]
  BY <1>1, NextRevises, RevisedFinal DEF TypeOK, TableTypes
<1>3. pc[p] \in {"approveProof", "rejectRead", "rejectMark", "rejectRestart"} =>
        loc[p].deposit \in DOMAIN deposits'[loc[p].target]
  BY <1>1, <1>2 DEF Decides
<1>4. pc[p] = "rejectRestart" =>
        /\ proofLock'[loc[p].target] = p
        /\ deposits'[loc[p].target][loc[p].deposit] = "PENDIENTE"
  BY <1>1 DEF Decides
<1>5. CASE pc[p] = "approveResolve"
  <2>1. DOMAIN loc[p].seen \in SUBSET Reservations
    BY <1>1, SeenType DEF TypeOK
  <2>2. ~ Machine!CanTransition("ABSENT", "CONFIRMADA")
    BY DEF Machine!CanTransition, Machine!Statuses
  <2>3. \A r \in DOMAIN loc[p].seen : rowLock[r] = p /\ Status(r) # "ABSENT"
    BY <1>1, <1>5, <2>2 DEF Guarded
  <2>4. \A r \in DOMAIN loc[p].seen :
          /\ reservation'[r].credited = reservation[r].credited
          /\ reservation'[r].start = reservation[r].start
    BY <1>1, <2>1, <2>3, RowFixed, ProcsAssumption
  <2>5. NeedsPayment(p)' = NeedsPayment(p) /\ Payer(p)' = Payer(p)
    BY <2>4, PayerKept
  <2>6. NeedsPayment(p) # {} => \E t \in Reservations : t = Payer(p) /\ rowLock[t] = p
    BY <1>1, <2>3, PayerInGroup DEF NeedsPayment
  <2>7. ASSUME NEW t \in Reservations, t = Payer(p), rowLock[t] = p,
               NeedsPayment(p) # {}
        PROVE  IF loc[p].deposit = 0 THEN ~ HasSubmittedProof(t)'
               ELSE /\ loc[p].deposit \in DOMAIN deposits'[t]
                    /\ loc[p].deposit = Len(deposits'[t])
    BY <1>1, <1>2, <1>5, <2>7 DEF Decides
  <2>8. PICK t : t = Payer(p)
    OBVIOUS
  <2>9. NeedsPayment(p) # {} =>
          IF loc[p].deposit = 0 THEN ~ HasSubmittedProof(t)'
          ELSE loc[p].deposit \in DOMAIN deposits'[t]
                 /\ loc[p].deposit = Len(deposits'[t])
    BY <2>6, <2>7, <2>8
  <2> QED
    BY <1>5, <2>5, <2>8, <2>9 DEF Decides, HasSubmittedProof
<1>6. CASE pc[p] # "approveResolve"
  BY <1>3, <1>4, <1>6 DEF Decides
<1> QED
  BY <1>5, <1>6

\* What remains is the process that steps.
LEMMA StepDecides ==
  ASSUME Records, [Next]_vars, NEW q \in Procs,
         \E step, read : Go(q, step, read),
         \A r \in Reservations : RevisedBy(q, r),
         \/ UNCHANGED proofLock
         \/ ReleaseProofs(q)
         \/ \E r \in Reservations :
              proofLock[r] = None /\ proofLock' = [proofLock EXCEPT ![r] = q],
         Decides(q)',
         NEW p \in Procs
  PROVE  Decides(p)'
<1>1. TypeOK
  BY DEF Records, Protocol
<1>2. CASE p # q
  <2>1. pc'[p] = pc[p] /\ loc'[p] = loc[p]
    BY <1>1, <1>2, GoOthers DEF TypeOK
  <2>2. \A r \in Reservations : proofLock[r] = p => proofLock'[r] = p
    BY <1>1, <1>2, ProcsAssumption DEF ReleaseProofs, TypeOK, LockTypes
  <2> QED
    BY <1>2, <2>1, <2>2, OthersDecide, ProcsAssumption DEF RevisedBy
<1> QED
  BY <1>2

\* Most steps end where there is nothing to decide.
Undecided == Steps \ {"approveProof", "rejectRead", "rejectMark",
                      "rejectRestart", "approveResolve"}

LEMMA UndecidedDecides ==
  ASSUME ProcTypes, NEW q \in Procs, NEW step \in Undecided, NEW read,
         Go(q, step, read)
  PROVE  Decides(q)'
<1>1. pc'[q] \in Undecided
  BY GoSelf
<1> QED
  BY <1>1 DEF Undecided, Decides

\* The newest record is there when it pends.
LEMMA LatestThere ==
  ASSUME NEW r \in Reservations, TableTypes, Latest(r) = "PENDIENTE"
  PROVE  /\ Len(deposits[r]) \in DOMAIN deposits[r] /\ Len(deposits[r]) # 0
         /\ deposits[r][Len(deposits[r])] = "PENDIENTE"
BY DEF TableTypes, Latest

LEMMA BeginDecides ==
  ASSUME Records, NEW q \in Requests, NEW r \in Reservations, Begin(q, r)
  PROVE  Decides(q)'
<1>1. TypeOK /\ ProcTypes /\ TableTypes /\ q \in Procs
  BY DEF Records, Protocol, TypeOK, Procs
<1>2. CASE Reject(q, r)
  <2> DEFINE read == [Blank EXCEPT !.target = r, !.deposit = Len(deposits[r])]
  <2>1. read.target = r /\ read.deposit = Len(deposits[r])
    BY DEF Blank
  <2>2. Go(q, "rejectRead", read) /\ UNCHANGED deposits
    BY <1>2 DEF Reject
  <2>3. /\ pc'[q] = "rejectRead" /\ loc'[q].target = r
        /\ loc'[q].deposit = Len(deposits[r])
    <3> HIDE DEF read
    <3> QED
      BY <1>1, <2>1, <2>2, GoSelf
  <2> QED
    BY <1>1, <1>2, <2>2, <2>3, LatestThere DEF Reject, Decides
<1>3. CASE Approve(q, r)
  <2>1. PICK step \in {"approveLatest", "approveGroup", "approveTx"} :
          \E read : Go(q, step, read)
    BY <1>3 DEF Approve
  <2> QED
    BY <1>1, <2>1, UndecidedDecides DEF Undecided, Steps
<1>4. CASE Submit(q, r) \/ ClientCancel(q, r) \/ CheckIn(q, r)
  <2>1. PICK step \in {"submit", "clientCancel", "checkIn"} :
          \E read : Go(q, step, read)
    BY <1>4 DEF Submit, ClientCancel, CheckIn
  <2> QED
    BY <1>1, <2>1, UndecidedDecides DEF Undecided, Steps
<1> QED
  BY <1>2, <1>3, <1>4 DEF Begin

LEMMA RequestStepDecides ==
  ASSUME Records, [Next]_vars, NEW q \in Requests, RequestStep(q)
  PROVE  Decides(q)'
<1>1. /\ Protocol /\ TypeOK /\ ProcTypes /\ TableTypes /\ q \in Procs
      /\ Guarded(q) /\ Decides(q)
      /\ pc[q] # "idle" => loc[q] \in Local /\ loc[q].target \in Reservations
  BY DEF Records, Protocol, TypeOK, ProcTypes, Procs
<1>2. CASE Finish(q)
  BY <1>1, <1>2, UndecidedDecides DEF Finish, Undecided, Steps
<1>3. CASE ApproveLatest(q) /\ ~ Finish(q)
  <2> DEFINE read == [loc[q] EXCEPT !.deposit = Len(deposits[loc[q].target])]
  <2>1. Go(q, "approveProof", read) /\ Latest(loc[q].target) = "PENDIENTE"
        /\ UNCHANGED deposits
    BY <1>3 DEF ApproveLatest
  <2>2. read.target = loc[q].target /\ read.deposit = Len(deposits[loc[q].target])
    BY <1>1, <1>3 DEF ApproveLatest, Local
  <2>3. /\ pc'[q] = "approveProof" /\ loc'[q].target = loc[q].target
        /\ loc'[q].deposit = Len(deposits[loc[q].target])
    <3> HIDE DEF read
    <3> QED
      BY <1>1, <2>1, <2>2, GoSelf
  <2> QED
    BY <1>1, <1>3, <2>1, <2>3, LatestThere DEF ApproveLatest, Decides
<1>4. CASE RejectRead(q)
  <2> DEFINE t == loc[q].target
             deadline == Expiry(now, reservation[t].start, blocked)
             read == [loc[q] EXCEPT !.clock = now, !.expires = deadline]
  <2>1. read.target = t /\ read.deposit = loc[q].deposit
    BY <1>1, <1>4 DEF RejectRead, Local
  <2>2. /\ Go(q, "rejectMark", read) \/ Go(q, "rejectMark", loc[q])
        /\ UNCHANGED deposits
    BY <1>4 DEF RejectRead
  <2>3. pc'[q] = "rejectMark" /\ loc'[q].target = t /\ loc'[q].deposit = loc[q].deposit
    <3> HIDE DEF read
    <3> QED
      BY <1>1, <2>1, <2>2, GoSelf
  <2> QED
    BY <1>1, <1>4, <2>2, <2>3 DEF RejectRead, Decides
<1>5. CASE RejectMark(q) /\ ~ Finish(q)
  <2>1. /\ pc'[q] = "rejectRestart" /\ loc'[q] = loc[q] /\ UNCHANGED deposits
        /\ deposits[loc[q].target][loc[q].deposit] = "PENDIENTE"
        /\ proofLock' = [proofLock EXCEPT ![loc[q].target] = q]
    BY <1>1, <1>5, GoSelf DEF RejectMark
  <2>2. proofLock'[loc[q].target] = q
    BY <1>1, <1>5, <2>1 DEF RejectMark, TypeOK, LockTypes
  <2> QED
    BY <1>1, <1>5, <2>1, <2>2 DEF RejectMark, Decides
<1>6. CASE ApproveTx(q) /\ ~ Finish(q)
  <2> DEFINE pending == NeedsPayment(q) # {} /\ Latest(Payer(q)) = "PENDIENTE"
             d == IF pending THEN Len(deposits[Payer(q)]) ELSE 0
  <2>1. UNCHANGED <<reservation, deposits>>
    BY <1>6 DEF ApproveTx
  <2>2. pc'[q] = "approveResolve" /\ \A f \in {"target", "seen"} : loc'[q][f] = loc[q][f]
        /\ loc'[q].deposit = d
    <3>1. Go(q, "approveResolve", [loc[q] EXCEPT !.deposit = d])
      BY <1>6 DEF ApproveTx
    <3> HIDE DEF d
    <3> QED
      BY <1>1, <1>6, <3>1, GoSelf DEF ApproveTx, Local
  <2>3. NeedsPayment(q)' = NeedsPayment(q) /\ Payer(q)' = Payer(q)
    BY <2>1, <2>2 DEF NeedsPayment, Payer
  <2>4. ASSUME NEW t \in Reservations, t = Payer(q), NeedsPayment(q) # {}
        PROVE  IF d = 0 THEN ~ HasSubmittedProof(t)
               ELSE d \in DOMAIN deposits[t] /\ d = Len(deposits[t])
    <3>1. CASE Latest(t) = "PENDIENTE"
      BY <1>1, <2>4, <3>1, LatestThere
    <3>2. CASE Latest(t) # "PENDIENTE"
      <4>1. \A i \in DOMAIN deposits[t] : deposits[t][i] = "PENDIENTE" =>
              i = Len(deposits[t])
        BY DEF Records, OnePendingProof
      <4>2. deposits[t] # <<>> => deposits[t][Len(deposits[t])] # "PENDIENTE"
        BY <3>2 DEF Latest
      <4> QED
        BY <2>4, <3>2, <4>1, <4>2 DEF HasSubmittedProof
    <3> QED
      BY <3>1, <3>2
  <2>5. PICK t : t = Payer(q)
    OBVIOUS
  <2>6. NeedsPayment(q) # {} =>
          IF d = 0 THEN ~ HasSubmittedProof(t)
          ELSE d \in DOMAIN deposits[t] /\ d = Len(deposits[t])
    BY <1>1, <2>4, <2>5, PayerInGroup
  <2> HIDE DEF d
  <2>7. HasSubmittedProof(t)' = HasSubmittedProof(t)
    BY <2>1 DEF HasSubmittedProof
  <2> QED
    BY <2>1, <2>2, <2>3, <2>5, <2>6, <2>7 DEF Decides
<1>7. CASE \/ SubmitLock(q) \/ RecordProof(q) \/ ApproveGroup(q)
  <2>1. PICK step \in {"idle", "record", "autoConfirm", "approveTx"} :
          \E read : Go(q, step, read)
    BY <1>7 DEF SubmitLock, RecordProof, ApproveGroup, Finish
  <2> QED
    BY <1>1, <2>1, UndecidedDecides DEF Undecided, Steps
<1>8. CASE \/ AutoConfirm(q) \/ ApproveFree(q) \/ ApprovePaid(q) \/ ApproveAbort(q)
           \/ ApproveProof(q) \/ RejectRestart(q) \/ ClientCancelTx(q)
           \/ CheckInCas(q)
  BY <1>2, <1>8 DEF AutoConfirm, ApproveFree, ApprovePaid, ApproveAbort,
                    ApproveProof, RejectRestart, ClientCancelTx, CheckInCas
<1> QED
  BY <1>2, <1>3, <1>4, <1>5, <1>6, <1>7, <1>8 DEF RequestStep

LEMMA NextDecides ==
  ASSUME Records, [Next]_vars, NEW p \in Procs
  PROVE  Decides(p)'
<1>1. TypeOK /\ ProcTypes
  BY DEF Records, Protocol, TypeOK
<1>2. CASE \E q \in Requests : RequestStep(q)
  <2>1. PICK q \in Requests : RequestStep(q)
    BY <1>2
  <2>2. q \in Procs /\ Decides(q)' /\ \A r \in Reservations : RevisedBy(q, r)
    BY <2>1, RequestStepDecides, RequestStepRevises DEF Procs
  <2>3. \E step, read : Go(q, step, read)
    BY <2>1 DEF RequestStep, SubmitLock, RecordProof, AutoConfirm, ApproveGroup,
         ApproveTx, ApproveFree, ApprovePaid, ApproveAbort, ApproveLatest,
         ApproveProof, RejectRead, RejectMark, RejectRestart, ClientCancelTx,
         CheckInCas, Finish
  <2>4. \/ UNCHANGED proofLock
        \/ ReleaseProofs(q)
        \/ \E r \in Reservations :
             proofLock[r] = None /\ proofLock' = [proofLock EXCEPT ![r] = q]
    <3>1. CASE RejectMark(q)
      BY <1>1, <2>2, <3>1 DEF RejectMark, ProcTypes
    <3>2. CASE ~ RejectMark(q)
      BY <2>1, <3>2 DEF RequestStep, SubmitLock, RecordProof, AutoConfirm,
           ApproveGroup, ApproveTx, ApproveFree, ApprovePaid, ApproveAbort,
           ApproveLatest, ApproveProof, RejectRead, RejectRestart,
           ClientCancelTx, CheckInCas, lockVars
    <3> QED
      BY <3>1, <3>2
  <2> QED
    BY <2>2, <2>3, <2>4, StepDecides
<1>3. CASE ~ \E q \in Requests : RequestStep(q)
  <2>1. UNCHANGED deposits
    BY <1>3, OthersKeepRecords DEF vars
  <2>2. ASSUME NEW q \in Procs, \E step, read : Go(q, step, read),
               UNCHANGED proofLock \/ ReleaseProofs(q), Decides(q)'
        PROVE  Decides(p)'
    BY <2>1, <2>2, KeptRevised, StepDecides
  <2>3. ASSUME NEW q \in Procs, NEW step \in Undecided, NEW read, Go(q, step, read),
               UNCHANGED proofLock \/ ReleaseProofs(q)
        PROVE  Decides(p)'
    BY <1>1, <2>2, <2>3, UndecidedDecides
  <2>4. CASE \E q \in Requests, r \in Reservations : Begin(q, r)
    <3>1. PICK q \in Requests, r \in Reservations : Begin(q, r)
      BY <2>4
    <3>2. q \in Procs /\ Decides(q)' /\ UNCHANGED proofLock
      BY <3>1, BeginDecides DEF Procs, Begin, Submit, Approve, Reject,
         ClientCancel, CheckIn, lockVars
    <3>3. \E step, read : Go(q, step, read)
      <4>1. CASE Approve(q, r)
        BY <4>1 DEF Approve
      <4>2. CASE ~ Approve(q, r)
        BY <3>1, <4>2 DEF Begin, Submit, Reject, ClientCancel, CheckIn
      <4> QED
        BY <4>1, <4>2
    <3> QED
      BY <2>2, <3>2, <3>3
  <2>5. CASE \E w \in Workers, r \in Reservations : Job(w, r)
    <3>1. PICK w \in Workers, r \in Reservations : Job(w, r)
      BY <2>5
    <3>2. UNCHANGED proofLock /\ \E step \in {"idle", "proofCheck", "noShowCas"} :
                                   \E read : Go(w, step, read)
      BY <3>1 DEF Job, DepositJob, DepositSweep, NoShowJob, NoShowSweep,
                  TimeoutRead, NoShowRead, Finish, lockVars
    <3> QED
      BY <2>3, <3>2 DEF Undecided, Steps, Procs
  <2>6. CASE \E w \in Workers : WorkerStep(w)
    <3>1. PICK w \in Workers : WorkerStep(w)
      BY <2>6
    <3>2. /\ UNCHANGED proofLock
          /\ \E step \in {"idle", "timeoutFind", "timeoutLock", "timeoutCas"} :
               \E read : Go(w, step, read)
      BY <3>1 DEF WorkerStep, ProofCheck, TimeoutFind, TimeoutLock, TimeoutCas,
                  NoShowCas, Finish, lockVars
    <3> QED
      BY <2>3, <3>2 DEF Undecided, Steps, Procs
  <2>7. CASE \E q \in Procs : DeadlockVictim(q) \/ Crash(q)
    BY <2>3, <2>7 DEF DeadlockVictim, Crash, Finish, Undecided, Steps
  <2>8. CASE \/ \E r \in Reservations : Statement(r)
             \/ BlockSchedule \/ Tick \/ UNCHANGED vars
    <3>1. UNCHANGED <<pc, loc, proofLock>>
      BY <2>8 DEF Statement, Create, ConfirmValoracion, Reschedule, AdminCancel,
                  Revive, Complete, BlockSchedule, Tick, vars, procVars, lockVars
    <3> QED
      BY <2>1, <3>1, OthersDecide DEF HasSubmittedProof
  <2> QED
    BY <1>3, <2>4, <2>5, <2>6, <2>7, <2>8 DEF Next
<1> QED
  BY <1>2, <1>3

LEMMA NextRecords ==
  ASSUME Records, [Next]_vars
  PROVE  Records'
<1>1. Protocol'
  BY NextProtocol DEF Records
<1>2. \A r \in Reservations : deposits[r] \in Seq(DepositStatuses)
  BY DEF Records, Protocol, TypeOK, TableTypes
<1>3. \A r \in Reservations : NewestPends(deposits'[r])
  BY <1>2, NextRevises, RevisedNewest, NewestOfAll DEF Records
<1>4. OnePendingProof'
  BY <1>3 DEF OnePendingProof, NewestPends
<1> QED
  BY <1>1, <1>4, NextDecides DEF Records

\* Between the steps of approvals, rejections, new proofs, crashes and whatever
\* else happens, the handlers know what they need of the records they decide on.
THEOREM RecordsHold == Spec => []Records
BY InitRecords, NextRecords, PTL DEF Spec

\* A reservation has at most one proof to decide on, and it is its newest record:
\* the screens of approval and rejection, which show the newest, miss none.
THEOREM NewestProofOnly == Spec => []OnePendingProof
<1>1. Records => OnePendingProof
  BY DEF Records
<1> QED
  BY <1>1, RecordsHold, PTL

\* An approval, a rejection and a new proof that race for a record never overwrite
\* each other's decision, and no record is lost or moved.
THEOREM DecisionsAreFinal == Spec => DepositDecisionsFinal
<1> DEFINE Final == \A r \in Reservations :
              /\ Len(deposits[r]) <= Len(deposits'[r])
              /\ \A i \in DOMAIN deposits[r] :
                   deposits[r][i] # "PENDIENTE" => deposits'[r][i] = deposits[r][i]
<1>1. ASSUME Records, [Next]_vars
      PROVE  Final
  <2> TAKE r \in Reservations
  <2>1. deposits[r] \in Seq(DepositStatuses)
    BY <1>1 DEF Records, Protocol, TypeOK, TableTypes
  <2> QED
    BY <1>1, <2>1, NextRevises, RevisedFinal
<1>2. Records /\ [Next]_vars => [Final]_vars
  BY <1>1
<1> QED
  BY <1>2, RecordsHold, PTL DEF Spec, DepositDecisionsFinal

---------------------------------------------------------------------------
(* The first state, and the records an approval settles                    *)

LEMMA InitSettlement == Init => Settlement
<1> SUFFICES ASSUME Init PROVE Settlement
  OBVIOUS
<1> DEFINE Rows == {Absent} \cup IF "confirmValoracion" \in Offered
                                  THEN {Legacy(Horizon)} ELSE {}
<1>1. ASSUME NEW r \in Reservations
      PROVE  reservation[r].coveredBy = None /\ Status(r) \notin PastConfirmation
  <2>0. reservation \in [Reservations -> Rows]
    BY DEF Init
  <2>1. reservation[r] \in {Absent, Legacy(Horizon)}
    <3>1. Rows \subseteq {Absent, Legacy(Horizon)}
      OBVIOUS
    <3> QED
      BY <2>0, <3>1
  <2>2. /\ Absent.status = "ABSENT" /\ Absent.coveredBy = None
        /\ Legacy(Horizon).status = "PENDIENTE_VALORACION"
        /\ Legacy(Horizon).coveredBy = None
    BY DEF Absent, Legacy
  <2> QED
    BY <2>1, <2>2 DEF Status, PastConfirmation
<1>2. \A p \in Procs : Charges(p)
  BY DEF Init, Charges
<1> QED
  BY <1>1, <1>2, InitRecords DEF Settlement, CoverExists, PaidWhenConfirmed

\* A confirmed record stays where it is.
LEMMA ConfirmedKept ==
  ASSUME Records, [Next]_vars, NEW r \in Reservations, NEW i \in DOMAIN deposits[r],
         deposits[r][i] = "CONFIRMADO"
  PROVE  i \in DOMAIN deposits'[r] /\ deposits'[r][i] = "CONFIRMADO"
<1>1. deposits[r] \in Seq(DepositStatuses)
  BY DEF Records, Protocol, TypeOK, TableTypes
<1> QED
  BY <1>1, NextRevises, RevisedFinal

\* A paid approval leaves a confirmed record as the payer's newest one.
LEMMA SettledLast ==
  ASSUME Records, NEW q \in Requests, ApprovePaid(q)
  PROVE  \E t \in Reservations :
           /\ t = Payer(q) /\ deposits'[t] = Settled(q)
           /\ Len(Settled(q)) \in DOMAIN Settled(q)
           /\ Settled(q)[Len(Settled(q))] = "CONFIRMADO"
<1>1. /\ TypeOK /\ q \in Procs /\ Decides(q)
      /\ NeedsPayment(q) # {} /\ pc[q] = "approveResolve"
  BY DEF Records, Protocol, Procs, ApprovePaid
<1>2. PICK t \in Reservations : t = Payer(q)
  BY <1>1, PayerInGroup
<1>3. deposits[t] \in Seq(DepositStatuses)
  BY <1>1 DEF TypeOK, TableTypes
<1>4. deposits'[t] = Settled(q)
  BY <1>1, <1>2 DEF ApprovePaid, TypeOK, TableTypes
<1>5. Len(Settled(q)) \in DOMAIN Settled(q)
        /\ Settled(q)[Len(Settled(q))] = "CONFIRMADO"
  <2>1. CASE loc[q].deposit # 0
    <3>1. /\ loc[q].deposit \in DOMAIN deposits[t]
          /\ loc[q].deposit = Len(deposits[t])
          /\ Settled(q) = [deposits[t] EXCEPT ![loc[q].deposit] = "CONFIRMADO"]
      BY <1>1, <1>2, <2>1 DEF Decides, Settled
    <3> QED
      BY <1>3, <3>1
  <2>2. CASE loc[q].deposit = 0 /\ Latest(t) = "CONFIRMADO"
    BY <1>2, <1>3, <2>2 DEF Settled, Latest
  <2>3. CASE loc[q].deposit = 0 /\ Latest(t) # "CONFIRMADO"
    <3>1. Settled(q) = Append(deposits[t], "CONFIRMADO")
      BY <1>2, <2>3 DEF Settled
    <3> QED
      BY <1>3, <3>1
  <2> QED
    BY <2>1, <2>2, <2>3
<1> QED
  BY <1>2, <1>4, <1>5

LEMMA CoverKept ==
  ASSUME Settlement, [Next]_vars, NEW r \in Reservations
  PROVE  CoverExists(r)'
<1>1. Records /\ Protocol /\ CoverExists(r)
  BY DEF Settlement, Records
<1>2. CASE reservation'[r].coveredBy = reservation[r].coveredBy
  BY <1>1, <1>2, ConfirmedKept DEF CoverExists
<1>3. CASE New(r)
  BY <1>3 DEF New, CoverExists
<1>4. CASE \E q \in Requests : /\ ApprovePaid(q)
                               /\ reservation'[r].coveredBy = <<Payer(q), Len(Settled(q))>>
  BY <1>1, <1>4, SettledLast DEF CoverExists
<1> QED
  BY <1>1, <1>2, <1>3, <1>4, NextColumns DEF Kept, Covered

LEMMA ChargesKept ==
  ASSUME "approveUnpaid" \notin Offered,
         Settlement, [Next]_vars, NEW p \in Procs
  PROVE  Charges(p)'
<1>1. /\ Records /\ TypeOK /\ ProcTypes /\ TableTypes /\ Charges(p)
      /\ pc[p] # "idle" => loc[p] \in Local /\ loc[p].target \in Reservations
  BY DEF Settlement, Records, Protocol, TypeOK, ProcTypes
<1> DEFINE Charging == {"approveGroup", "approveTx", "approveResolve"}
           Elsewhere == Steps \ (Charging \cup {"autoConfirm"})
<1>2. ASSUME NEW step \in Elsewhere, NEW read, Go(p, step, read)
      PROVE  Charges(p)'
  <2>1. pc'[p] = step
    BY <1>1, <1>2, GoSelf
  <2> QED
    BY <2>1 DEF Charges
<1>3. ASSUME NEW step \in Charging \cup Elsewhere, NEW read, read.flag,
             Go(p, step, read)
      PROVE  Charges(p)'
  <2>1. pc'[p] = step /\ loc'[p] = read
    BY <1>1, <1>3, GoSelf
  <2> QED
    BY <1>3, <2>1 DEF Charges
<1>4. CASE pc'[p] = pc[p] /\ loc'[p] = loc[p]
  <2>1. \A r \in Reservations : HasConfirmedDeposit(r) => HasConfirmedDeposit(r)'
    BY <1>1, ConfirmedKept DEF HasConfirmedDeposit
  <2>2. pc[p] = "autoConfirm" => \E r \in Reservations :
          r = loc[p].target /\ HasConfirmedDeposit(r)
    BY <1>1 DEF Charges
  <2> QED
    BY <1>1, <1>4, <2>1, <2>2 DEF Charges, HasConfirmedDeposit
<1>5. CASE \E r \in Reservations : Begin(p, r)
  <2>1. PICK r \in Reservations : Begin(p, r)
    BY <1>5
  <2>2. CASE Approve(p, r)
    <3> DEFINE read == [Blank EXCEPT !.target = r, !.flag = TRUE,
                                     !.start = reservation[r].start]
               anchor == [read EXCEPT !.seen = [x \in {r} |-> Status(x)]]
    <3>1. \/ Go(p, "approveLatest", read)
          \/ Go(p, "approveGroup", read)
          \/ Go(p, "approveTx", anchor)
      BY <2>2 DEF Approve
    <3>2. read.flag /\ anchor.flag
      BY DEF Blank
    <3> HIDE DEF read, anchor
    <3> QED
      BY <1>3, <3>1, <3>2 DEF Steps
  <2>3. CASE ~ Approve(p, r)
    <3>1. PICK step \in {"submit", "rejectRead", "clientCancel", "checkIn"} :
            \E read : Go(p, step, read)
      BY <2>1, <2>3 DEF Begin, Submit, Reject, ClientCancel, CheckIn
    <3> QED
      BY <1>2, <3>1 DEF Steps
  <2> QED
    BY <2>2, <2>3
<1>6. CASE (\E r \in Reservations : Job(p, r)) \/ WorkerStep(p)
  <2>1. PICK step \in {"idle", "proofCheck", "noShowCas", "timeoutFind",
                       "timeoutLock", "timeoutCas"} : \E read : Go(p, step, read)
    BY <1>6 DEF Job, DepositJob, DepositSweep, NoShowJob, NoShowSweep, TimeoutRead,
         NoShowRead, Finish, WorkerStep, ProofCheck, TimeoutFind, TimeoutLock,
         TimeoutCas, NoShowCas
  <2> QED
    BY <1>2, <2>1 DEF Steps
<1>7. CASE RequestStep(p)
  <2>1. CASE Finish(p)
    BY <1>2, <2>1 DEF Finish, Steps
  <2>2. CASE RecordProof(p) /\ ~ Finish(p)
    <3>1. PICK t \in Reservations : t = loc[p].target
      BY <1>1, <2>2 DEF RecordProof
    <3>2. pc'[p] = "autoConfirm" /\ loc'[p] = loc[p]
      BY <1>1, <2>2, GoSelf DEF RecordProof
    <3>3. deposits'[t] = Append(Superseded(t), "CONFIRMADO")
            /\ Superseded(t) \in Seq(DepositStatuses)
      BY <1>1, <2>2, <3>1, SupersededType DEF RecordProof, TableTypes
    <3>4. HasConfirmedDeposit(t)'
      <4>1. /\ Len(deposits'[t]) \in DOMAIN deposits'[t]
            /\ deposits'[t][Len(deposits'[t])] = "CONFIRMADO"
        BY <3>3 DEF DepositStatuses
      <4> QED
        BY <4>1 DEF HasConfirmedDeposit
    <3> QED
      BY <3>1, <3>2, <3>4 DEF Charges, HasConfirmedDeposit
  <2>3. CASE ApproveGroup(p) \/ (ApproveTx(p) /\ ~ Finish(p))
    <3>1. loc[p].flag
      BY <1>1, <2>3 DEF Charges, ApproveGroup, ApproveTx
    <3>2. \E step \in {"approveTx", "approveResolve"} : \E s, d :
            \/ Go(p, step, [loc[p] EXCEPT !.seen = s])
            \/ Go(p, step, [loc[p] EXCEPT !.deposit = d])
      BY <2>3 DEF ApproveGroup, ApproveTx
    <3>3. \A s, d : /\ [loc[p] EXCEPT !.seen = s].flag = loc[p].flag
                    /\ [loc[p] EXCEPT !.deposit = d].flag = loc[p].flag
      BY <1>1, <2>3 DEF ApproveGroup, ApproveTx, Local
    <3> QED
      BY <1>3, <3>1, <3>2, <3>3
  <2>4. CASE \/ SubmitLock(p) \/ ApproveLatest(p) \/ RejectRead(p) \/ RejectMark(p)
    <3>1. PICK step \in {"idle", "record", "approveProof", "rejectMark",
                         "rejectRestart"} : \E read : Go(p, step, read)
      BY <2>4 DEF SubmitLock, ApproveLatest, RejectRead, RejectMark, Finish
    <3> QED
      BY <1>2, <3>1 DEF Steps
  <2>5. CASE \/ AutoConfirm(p) \/ ApproveFree(p) \/ ApprovePaid(p) \/ ApproveAbort(p)
             \/ ApproveProof(p) \/ RejectRestart(p) \/ ClientCancelTx(p)
             \/ CheckInCas(p)
    BY <2>1, <2>5 DEF AutoConfirm, ApproveFree, ApprovePaid, ApproveAbort,
                      ApproveProof, RejectRestart, ClientCancelTx, CheckInCas
  <2> QED
    BY <1>7, <2>1, <2>2, <2>3, <2>4, <2>5 DEF RequestStep
<1>8. CASE DeadlockVictim(p) \/ Crash(p)
  BY <1>2, <1>8 DEF DeadlockVictim, Crash, Finish, Steps
<1> QED
  BY <1>1, <1>4, <1>5, <1>6, <1>7, <1>8, OwnSteps

\* A row that was paid stays paid, also when an approval covers it anew.
LEMMA PaidKept ==
  ASSUME Settlement, [Next]_vars, NEW r \in Reservations, Status(r) # "ABSENT",
         Paid(r)
  PROVE  Paid(r)'
<1>1. Records /\ Protocol /\ CoverExists(r)
  BY DEF Settlement, Records
<1>2. CASE reservation[r].credited
  BY <1>1, <1>2, RowFixed DEF Paid
<1>3. CASE HasConfirmedDeposit(r)
  BY <1>1, <1>3, ConfirmedKept DEF Paid, HasConfirmedDeposit
<1>4. CASE PaidByAnother(r)
  <2>1. CoverExists(r)'
    BY CoverKept
  <2>2. reservation'[r].coveredBy # None
    <3>1. CASE Kept(r)
      BY <1>4, <3>1 DEF Kept, PaidByAnother
    <3>2. CASE \E q \in Requests : Covered(q, r)
      <4>1. PICK q \in Requests : Covered(q, r)
        BY <3>2
      <4>2. PICK t \in Reservations : t = Payer(q) /\ Settled(q) \in Seq(DepositStatuses)
        BY <1>1, <4>1, PayerInGroup, SettledType
           DEF Covered, ApprovePaid, Protocol, Procs
      <4> QED
        BY <1>4, <4>1, <4>2, ProcsAssumption DEF Covered, PaidByAnother
    <3> QED
      BY <1>1, <3>1, <3>2, NextColumns DEF New
  <2> QED
    BY <2>1, <2>2 DEF CoverExists, Paid, PaidByAnother
<1> QED
  BY <1>2, <1>3, <1>4 DEF Paid

\* What is confirmed by a step is paid by it.
LEMMA ConfirmedPaid ==
  ASSUME Settlement, [Next]_vars, NEW r \in Reservations,
         Status(r) \notin PastConfirmation, Status(r)' \in PastConfirmation
  PROVE  Paid(r)'
<1>1. /\ Records /\ Protocol /\ TypeOK /\ TableTypes
      /\ \A q \in Requests : Charges(q) /\ q \in Procs
  BY DEF Settlement, Records, Protocol, TypeOK, Procs
<1>2. Status(r)' = "CONFIRMADA" /\ Status(r) # "CONFIRMADA"
  BY <1>1, NextMoves DEF Moves, Status, PastConfirmation, Machine!CanTransition,
                         Machine!Transitions, Machine!Statuses
<1>3. PICK q \in Requests : \/ Kept(r) /\ (AutoConfirm(q) \/ ApproveFree(q))
                            \/ Covered(q, r)
  BY <1>1, <1>2, NextColumns DEF New, Unconfirmed
<1>4. CASE AutoConfirm(q)
  <2>1. r = loc[q].target
    BY <1>2, <1>4 DEF AutoConfirm, SetRows, Status
  <2>2. HasConfirmedDeposit(r)
    BY <1>1, <1>4, <2>1 DEF AutoConfirm, Charges
  <2> QED
    BY <1>1, <2>2, ConfirmedKept DEF Paid, HasConfirmedDeposit
<1>5. CASE Kept(r) /\ ApproveFree(q)
  <2>1. r \in DOMAIN loc[q].seen
    BY <1>2, <1>5 DEF ApproveFree, SetRows, Status
  <2>2. NeedsPayment(q) = {}
    BY <1>1, <1>5 DEF ApproveFree, Charges
  <2> QED
    BY <1>5, <2>1, <2>2 DEF Kept, NeedsPayment, Paid
<1>6. CASE Covered(q, r)
  <2>1. PICK t \in Reservations :
          /\ t = Payer(q) /\ deposits'[t] = Settled(q)
          /\ Len(Settled(q)) \in DOMAIN Settled(q)
          /\ Settled(q)[Len(Settled(q))] = "CONFIRMADO"
    BY <1>1, <1>6, SettledLast DEF Covered
  <2>2. r \in DOMAIN loc[q].seen
    BY <1>2, <1>6 DEF Covered, ApprovePaid, SetRows, Status
  <2>3. CASE reservation[r].credited
    BY <1>6, <2>3 DEF Covered, Paid
  <2>4. CASE r = t
    BY <2>1, <2>4 DEF Paid, HasConfirmedDeposit
  <2>5. CASE ~ reservation[r].credited /\ r # t
    <3>1. r \in NeedsPayment(q) \ {Payer(q)}
      BY <2>1, <2>2, <2>5 DEF NeedsPayment
    <3>2. reservation'[r] = [WithStatus(r, "CONFIRMADA") EXCEPT
                               !.coveredBy = <<Payer(q), Len(Settled(q))>>]
      BY <1>6, <2>2, <3>1 DEF Covered, ApprovePaid, SetRows
    <3>3. reservation'[r].coveredBy = <<t, Len(Settled(q))>>
      BY <1>1, <2>1, <3>2 DEF TableTypes, Row, WithStatus
    <3>4. Settled(q) \in Seq(DepositStatuses)
      BY <1>1, <1>6, SettledType DEF Covered, ApprovePaid
    <3>5. <<t, Len(Settled(q))>> # None
      BY <3>4, ProcsAssumption
    <3> QED
      BY <2>1, <3>3, <3>5 DEF Paid, PaidByAnother
  <2> QED
    BY <2>3, <2>4, <2>5
<1> QED
  BY <1>3, <1>4, <1>5, <1>6

\* When every approval names an amount, a reservation that is confirmed, whichever
\* handlers and workers race for it and its group and whichever of them die, is paid
\* by a credit, by its own confirmed deposit or by that of another of its group.
THEOREM ConfirmedIsPaid ==
  ASSUME "approveUnpaid" \notin Offered
  PROVE  Spec => []PaidWhenConfirmed
<1>1. Settlement /\ [Next]_vars => Settlement'
  <2> SUFFICES ASSUME Settlement, [Next]_vars
               PROVE  Settlement'
    OBVIOUS
  <2>1. Records'
    BY NextRecords DEF Settlement
  <2>2. ASSUME NEW r \in Reservations
        PROVE  Status(r)' \in PastConfirmation => Paid(r)'
    <3>1. Status(r) \in PastConfirmation => Status(r) # "ABSENT" /\ Paid(r)
      BY DEF Settlement, PaidWhenConfirmed, PastConfirmation
    <3> QED
      BY <3>1, PaidKept, ConfirmedPaid
  <2> QED
    BY <2>1, <2>2, CoverKept, ChargesKept DEF Settlement, PaidWhenConfirmed
<1>2. Settlement => PaidWhenConfirmed
  BY DEF Settlement
<1> QED
  BY <1>1, <1>2, InitSettlement, PTL DEF Spec

=============================================================================
