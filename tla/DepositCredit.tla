---------------------------- MODULE DepositCredit ----------------------------
(***************************************************************************)
(* The advance a client paid for an appointment that did not take place is *)
(* her credit: her next booking takes it (create-reservation.orchestrator, *)
(* deposit-credit.service), an approval then asks for no payment           *)
(* (approve-deposit.orchestrator), and whichever appointment is attended   *)
(* has it deducted (reservation-settlement.service, complete-reservation.  *)
(* orchestrator).  All rows here are of one client and every deposit has   *)
(* its proof and amount.  Where a booking fits belongs to SlotHolding, how *)
(* a deposit is decided to DepositLifecycle.                               *)
(***************************************************************************)
EXTENDS Naturals, FiniteSets, Sequences

CONSTANTS
  Reservations,
  Bookings,     \* requests: sequences of reservations, more than one is a combo
  Combo,        \* [Reservations -> SUBSET Reservations], the combo of each row
  Arrivals,     \* the reservations whose client may turn up
  Paid,         \* the payers of what is confirmed at the start, in order
  CoveredBy,    \* [Reservations -> Reservations \cup {None}]: of those, the payer
  Handlers,
  Timely,       \* no booking lasts from a check-in to the payment of the rest
  None

VARIABLES
  reservation,  \* the rows
  paid,         \* the reservations with a confirmed deposit, in the order confirmed
  appliedTo,    \* the destination of the deposit of each reservation
  deducted,     \* the deposits a completed reservation had deducted
  handler       \* requests that are being carried out

creditVars == <<reservation, paid, appliedTo, deducted, handler>>

Statuses == {"ABSENT", "PENDIENTE_DEPOSITO", "CONFIRMADA", "CITA_EN_CURSO",
             "COMPLETADA", "CANCELADA", "NO_SHOW"}

\* CREDIT_ORIGIN_STATUSES and CREDIT_RELEASING_STATUSES, which are the same.
Releasing == {"CANCELADA", "NO_SHOW"}

\* A row: its status, the deposit of another that covers it, whether a payment, a
\* credit or nothing was asked for it, and whether its client came after a no-show.
Row == [status : Statuses, coveredBy : Reservations \cup {None},
        basis : {"none", "payment", "credit", "nothing"}, late : BOOLEAN]

Idle == [pc |-> "idle"]

\* What is in a sequence: the rows of a booking, the deposits in order.
Members(s) == {s[i] : i \in DOMAIN s}

Init ==
  /\ reservation =
       [r \in Reservations |->
          IF r \in Members(Paid) \/ CoveredBy[r] # None
            THEN [status |-> "CONFIRMADA", coveredBy |-> CoveredBy[r],
                  basis |-> "payment", late |-> FALSE]
            ELSE [status |-> "ABSENT", coveredBy |-> None,
                  basis |-> "none", late |-> FALSE]]
  /\ paid = Paid
  /\ appliedTo = [r \in Reservations |-> None]
  /\ deducted = [r \in Reservations |-> {}]
  /\ handler = [h \in Handlers |-> Idle]

StatusOf(r) == reservation[r].status
Covered(d) == {r \in Reservations : reservation[r].coveredBy = d}

-----------------------------------------------------------------------------
(* Whether a credit is there *)

\* resolveEffectiveStatus of the destination of a deposit, which releases it once the
\* whole combo is released.  Variant with a bug: the destination alone counts.
StillHeldAlone(to) == to # None /\ StatusOf(to) \notin Releasing

StillHeld(to) == to # None /\ \E r \in Combo[to] : StatusOf(r) \notin Releasing

\* The rest of isCreditAvailable: nobody the deposit paid for is expected or served.
Forgone(d) == \A r \in {d} \cup Covered(d) : StatusOf(r) \in Releasing

-----------------------------------------------------------------------------
(* Booking *)

\* The deposits of reservations that did not take place, as findAvailableForClient
\* reads them first: each with its destination, and whether that is released.
ReadCredits(h, b) ==
  /\ handler[h] = Idle
  /\ StatusOf(b[1]) = "ABSENT"
  /\ \A other \in Handlers :
       handler[other].pc \in {"siblings", "write"} => handler[other].booking # b
  /\ handler' = [handler EXCEPT ![h] =
       [pc |-> "siblings", booking |-> b, attended |-> {},
        rows |-> {[deposit |-> d, to |-> appliedTo[d],
                   held |-> StillHeldAlone(appliedTo[d])] :
                    d \in {e \in Members(paid) : Forgone(e)}}]]
  /\ UNCHANGED <<reservation, paid, appliedTo, deducted>>

\* Deposit d was confirmed before deposit e.
Earlier(d, e) == \E j \in DOMAIN paid : paid[j] = e /\ \E i \in 1 .. j - 1 : paid[i] = d

\* Then it reads the siblings of each destination that is part of a combo, and the
\* booking takes the credit that was confirmed first.
ChooseCredit(h) ==
  /\ handler[h].pc = "siblings"
  /\ LET held(row) == IF row.to # None /\ Combo[row.to] # {row.to}
                        THEN StillHeld(row.to) ELSE row.held
         free == {row \in handler[h].rows : ~ held(row)}
     IN handler' = [handler EXCEPT ![h] =
          [pc |-> "write", booking |-> @.booking, attended |-> @.attended,
           credit |-> {row \in free :
                         \A other \in free : ~ Earlier(other.deposit, row.deposit)}]]
  /\ UNCHANGED <<reservation, paid, appliedTo, deducted>>

\* applyToReservation: the deposit must still have the destination that was read.
\* Variant with a bug: it is applied by its id alone.
AppliesById(row) == TRUE

Applies(row) == appliedTo[row.deposit] = row.to

\* The segments are written and the credit is applied to the first, in one
\* transaction; a credit that somebody else took meanwhile makes it fail.
Book(h) ==
  /\ handler[h].pc = "write"
  /\ LET b == handler[h].booking
         credit == handler[h].credit
     IN IF \E row \in credit : ~ Applies(row)
          THEN UNCHANGED <<reservation, appliedTo>>
          ELSE /\ reservation' = [r \in Reservations |->
                    IF r \in Members(b)
                      THEN [reservation[r] EXCEPT !.status = "PENDIENTE_DEPOSITO"]
                      ELSE reservation[r]]
               /\ appliedTo' = [d \in Reservations |->
                    IF \E row \in credit : row.deposit = d THEN b[1] ELSE appliedTo[d]]
  /\ handler' = [handler EXCEPT ![h] = Idle]
  /\ UNCHANGED <<paid, deducted>>

\* A segment that finds no place: CreateReservationOrchestrator rolls back.
BookFails(h) ==
  /\ handler[h].pc = "write"
  /\ handler' = [handler EXCEPT ![h] = Idle]
  /\ UNCHANGED <<reservation, paid, appliedTo, deducted>>

-----------------------------------------------------------------------------
(* Approving and calling off, each one transaction with its compare-and-set *)

\* isCoveredByCredit: some deposit is applied to the reservation or to its combo.
CoveredByCredit(r) == \E d \in Reservations : appliedTo[d] \in Combo[r]

\* approveAndConfirm, of the members of a combo that wait for a deposit: those with
\* a credit pay nothing; of the others the chosen one pays for all, or the
\* administrator confirms them without any payment.
Approve(r) ==
  LET group == {s \in Combo[r] : StatusOf(s) = "PENDIENTE_DEPOSITO"}
      confirm(basis) ==
        reservation' = [s \in Reservations |->
          IF s \notin group THEN reservation[s]
            ELSE [reservation[s] EXCEPT
                    !.status = "CONFIRMADA", !.basis = basis,
                    !.coveredBy = IF basis = "payment" /\ s # r THEN r ELSE @]]
  IN /\ r \in group
     /\ \/ CoveredByCredit(r) /\ confirm("credit") /\ UNCHANGED paid
        \/ ~ CoveredByCredit(r) /\ confirm("payment") /\ paid' = Append(paid, r)
        \/ ~ CoveredByCredit(r) /\ confirm("nothing") /\ UNCHANGED paid
     /\ UNCHANGED <<appliedTo, deducted, handler>>

\* AdminCancelReservationOrchestrator and MarkNoShowOrchestrator.
CallOff(r) ==
  /\ \/ /\ StatusOf(r) \in {"PENDIENTE_DEPOSITO", "CONFIRMADA"}
        /\ reservation' = [reservation EXCEPT ![r].status = "CANCELADA"]
     \/ /\ StatusOf(r) = "CONFIRMADA"
        /\ reservation' = [reservation EXCEPT ![r].status = "NO_SHOW"]
  /\ UNCHANGED <<paid, appliedTo, deducted, handler>>

-----------------------------------------------------------------------------
(* Attending *)

\* CheckInReservationOrchestrator reads the row and, for a client who comes after a
\* no-show, whether her deposit is committed to another booking.
CheckIn(h, r) ==
  /\ handler[h] = Idle
  /\ r \in Arrivals
  /\ StatusOf(r) \in {"CONFIRMADA", "NO_SHOW"}
  /\ ~ (StatusOf(r) = "NO_SHOW" /\ r \in Members(paid) /\ StillHeld(appliedTo[r]))
  /\ handler' = [handler EXCEPT ![h] = [pc |-> "admit", row |-> r, read |-> StatusOf(r)]]
  /\ UNCHANGED <<reservation, paid, appliedTo, deducted>>

\* The compare-and-set tests the status alone.
Admit(h) ==
  /\ handler[h].pc = "admit"
  /\ LET r == handler[h].row
         done == [g \in Handlers |->
                    IF g = h THEN Idle
                    ELSE IF handler[g].pc \in {"siblings", "write"}
                      THEN [handler[g] EXCEPT !.attended = @ \cup {r}]
                    ELSE handler[g]]
     IN IF StatusOf(r) # handler[h].read
          THEN /\ handler' = [handler EXCEPT ![h] = Idle]
               /\ UNCHANGED reservation
          ELSE /\ handler' = done
               /\ reservation' = [reservation EXCEPT
                    ![r].status = "CITA_EN_CURSO",
                    ![r].late = handler[h].read = "NO_SHOW"]
  /\ UNCHANGED <<paid, appliedTo, deducted>>

\* A deposit of its own that no other booking took, or of another applied to it.
\* Variant with a bug: its own deposit counts wherever it is applied.
AdvanceEverywhere(r) == {d \in Members(paid) : d = r \/ appliedTo[d] = r}

Advance(r) ==
  {d \in Members(paid) : IF d = r THEN appliedTo[d] \in {None, r} ELSE appliedTo[d] = r}

\* ReservationSettlementService.compute: an advance that covers more than this
\* reservation is shared, and the administrator types in what is to be deducted.
Shared(r) ==
  \/ reservation[r].coveredBy # None
  \/ r \in Advance(r) /\ Covered(r) # {}
  \/ \E d \in Members(paid) : appliedTo[d] \in Combo[r] \ {r}

\* CompleteReservationOrchestrator reads the row and what is to be deducted.
Settle(h, r) ==
  /\ handler[h] = Idle
  /\ StatusOf(r) = "CITA_EN_CURSO"
  /\ Timely => \A g \in Handlers :
       handler[g].pc \in {"siblings", "write"} => r \notin handler[g].attended
  /\ handler' = [handler EXCEPT ![h] =
       [pc |-> "pay", row |-> r, advance |-> IF Shared(r) THEN {} ELSE Advance(r)]]
  /\ UNCHANGED <<reservation, paid, appliedTo, deducted>>

Complete(h) ==
  /\ handler[h].pc = "pay"
  /\ LET r == handler[h].row
     IN IF StatusOf(r) # "CITA_EN_CURSO"
          THEN UNCHANGED <<reservation, deducted>>
          ELSE /\ reservation' = [reservation EXCEPT ![r].status = "COMPLETADA"]
               /\ deducted' = [deducted EXCEPT ![r] = handler[h].advance]
  /\ handler' = [handler EXCEPT ![h] = Idle]
  /\ UNCHANGED <<paid, appliedTo>>

Next ==
  \/ \E h \in Handlers :
       \/ \E b \in Bookings : ReadCredits(h, b)
       \/ ChooseCredit(h) \/ Book(h) \/ BookFails(h)
       \/ \E r \in Reservations : CheckIn(h, r) \/ Settle(h, r)
       \/ Admit(h) \/ Complete(h)
  \/ \E r \in Reservations : Approve(r) \/ CallOff(r)

Spec == Init /\ [][Next]_creditVars

-----------------------------------------------------------------------------
(* Properties *)

\* A deposit as a booking read it, and what a handler is doing.
CreditRow == [deposit : Reservations, to : Reservations \cup {None}, held : BOOLEAN]

Work ==
  {Idle}
  \cup [pc : {"siblings"}, booking : Bookings, attended : SUBSET Reservations,
        rows : SUBSET CreditRow]
  \cup [pc : {"write"}, booking : Bookings, attended : SUBSET Reservations,
        credit : SUBSET CreditRow]
  \cup [pc : {"admit"}, row : Reservations, read : {"CONFIRMADA", "NO_SHOW"}]
  \cup [pc : {"pay"}, row : Reservations, advance : SUBSET Reservations]

TypeOK ==
  /\ reservation \in [Reservations -> Row]
  /\ paid \in Seq(Reservations) /\ \A i, j \in DOMAIN paid : paid[i] = paid[j] => i = j
  /\ appliedTo \in [Reservations -> Reservations \cup {None}]
  /\ deducted \in [Reservations -> SUBSET Reservations]
  /\ handler \in [Handlers -> Work]

\* What was confirmed on a payment or a credit keeps it: no later booking takes the
\* money of an appointment, or of the other half of its combo, while a client is
\* expected for it.
ConfirmedKeepsAdvance ==
  \A r \in Reservations :
    StatusOf(r) = "CONFIRMADA" /\ reservation[r].basis \in {"payment", "credit"} =>
      \E d \in Members(paid) :
        \/ d \in {r, reservation[r].coveredBy} /\ appliedTo[d] = None
        \/ appliedTo[d] \in Combo[r]

\* A payment is deducted from the price of one appointment, however often it moved
\* from one to another and came back.
DeductedOnce ==
  \A d \in Reservations : Cardinality({r \in Reservations : d \in deducted[r]}) <= 1

\* No money is lost: a payment is a credit again, or backs an appointment that is
\* still expected or attended, or was deducted.
NoAdvanceLost ==
  \A d \in Members(paid) :
    \/ Forgone(d) /\ ~ StillHeld(appliedTo[d])
    \/ \E r \in Reservations :
         /\ StatusOf(r) \notin Releasing \cup {"ABSENT"}
         /\ d \in Advance(r) \/ Shared(r)

-----------------------------------------------------------------------------
(* The inductive invariant behind ConfirmedKeepsAdvance and DeductedOnce *)

\* Each booking has rows of its own, and a combo is the same for all its members.
Separate ==
  /\ None \notin Reservations
  /\ Paid \in Seq(Reservations) /\ \A i, j \in DOMAIN Paid : Paid[i] = Paid[j] => i = j
  /\ CoveredBy \in [Reservations -> Members(Paid) \cup {None}]
  /\ Bookings \subseteq Seq(Reservations) \ {<<>>}
  /\ \A b, c \in Bookings : b # c => Members(b) \cap Members(c) = {}
  /\ \A b \in Bookings : \A r \in Members(b) : r \notin Members(Paid) /\ CoveredBy[r] = None
  /\ \A r \in Reservations :
       /\ r \in Combo[r] /\ Combo[r] \subseteq Reservations
       /\ \A s \in Combo[r] : Combo[s] = Combo[r]

Attended == {"CITA_EN_CURSO", "COMPLETADA"}

IsBooking(h) == handler[h].pc \in {"siblings", "write"}

\* No booking that is under way saw the client of r as one who did not come.
Noticed(r) == \A h \in Handlers : IsBooking(h) => r \notin handler[h].attended

\* Handler h knows that nobody is expected for r, or saw its client come since.
Gone(h, r) == StatusOf(r) \in Releasing \/ r \in handler[h].attended

Past(r) == StatusOf(r) \in Releasing \cup Attended

\* The appointment that a deposit stands for.
Backed(d) == IF appliedTo[d] = None THEN d ELSE appliedTo[d]

\* A credit that handler h read, or chose: whoever it paid for is past, and so is the
\* booking that had it.
Spare(h, row) ==
  /\ row.deposit \in Members(paid)
  /\ Gone(h, row.deposit)
  /\ \A s \in {row.deposit} \cup Covered(row.deposit) : Past(s)

BookingHolds(h) ==
  LET b == handler[h].booking
  IN /\ \A r \in Members(b) : StatusOf(r) = "ABSENT"
     /\ \A g \in Handlers \ {h} : IsBooking(g) => handler[g].booking # b
     /\ \A r \in handler[h].attended : StatusOf(r) \in Attended
     /\ handler[h].pc = "siblings" => \A row \in handler[h].rows :
          Spare(h, row) /\ (row.to # None /\ ~ row.held => Gone(h, row.to))
     /\ handler[h].pc = "write" => \A row \in handler[h].credit :
          /\ Spare(h, row)
          /\ row.to # None => Gone(h, row.to) /\ \A s \in Combo[row.to] : Past(s)

\* What was deducted, or is about to be, stands for that appointment and stays with
\* it, when no booking is so slow that it still takes the client as one who did not come.
Deducts(r, D) ==
  /\ StatusOf(r) \in Attended
  /\ Timely => \A d \in D : Backed(d) = r /\ Noticed(r)

PaymentHolds(h) == handler[h].pc = "pay" => Deducts(handler[h].row, handler[h].advance)

PriceHolds(r) == deducted[r] # {} => Deducts(r, deducted[r])

Accounts ==
  /\ TypeOK
  /\ \A b \in Bookings :
       StatusOf(b[1]) = "ABSENT" => \A r \in Members(b) : StatusOf(r) = "ABSENT"
  /\ \A d \in Members(paid) : StatusOf(d) \notin {"ABSENT", "PENDIENTE_DEPOSITO"}
  /\ \A d \in Reservations : appliedTo[d] # None => d \in Members(paid)
  /\ \A h \in Handlers : (IsBooking(h) => BookingHolds(h)) /\ PaymentHolds(h)
  /\ \A r \in Reservations : PriceHolds(r)
  /\ ConfirmedKeepsAdvance
=============================================================================
