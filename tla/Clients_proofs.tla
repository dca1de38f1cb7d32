--------------------------- MODULE Clients_proofs ---------------------------
(***************************************************************************)
(* What a client gave us, for any number of rows and requests, whose steps *)
(* may interleave.  An appointment that was confirmed on her payment keeps *)
(* it, and a payment is deducted from one price; a row holds health data   *)
(* of a client who consented, and nothing of one who was made anonymous    *)
(* (the instance Desk); and the bot serves the client whose number it      *)
(* knows (the instance Chat).                                              *)
(***************************************************************************)
EXTENDS DepositCredit, FiniteSetTheorems, WellFoundedInduction, TLAPS

---------------------------------------------------------------------------
(* The parts of the state                                                  *)

LEMMA WorkFields ==
  ASSUME TypeOK, NEW h \in Handlers
  PROVE  /\ IsBooking(h) => /\ handler[h].booking \in Bookings
                            /\ handler[h].attended \subseteq Reservations
         /\ handler[h].pc = "siblings" => handler[h].rows \subseteq CreditRow
         /\ handler[h].pc = "write" => handler[h].credit \subseteq CreditRow
         /\ handler[h].pc = "admit" => /\ handler[h].row \in Reservations
                                       /\ handler[h].read \in {"CONFIRMADA", "NO_SHOW"}
         /\ handler[h].pc = "pay" => /\ handler[h].row \in Reservations
                                     /\ handler[h].advance \subseteq Reservations
<1>1. handler[h] \in Work
  BY DEF TypeOK
<1> QED
  BY <1>1 DEF Work, Idle, IsBooking

LEMMA MembersOf ==
  ASSUME NEW s \in Seq(Reservations)
  PROVE  /\ Members(s) \subseteq Reservations
         /\ s # <<>> => s[1] \in Members(s)
BY DEF Members

LEMMA BookingRows ==
  ASSUME Separate, NEW b \in Bookings
  PROVE  Members(b) \subseteq Reservations /\ b[1] \in Members(b)
BY MembersOf DEF Separate

LEMMA Fields ==
  ASSUME Accounts
  PROVE  /\ TypeOK /\ handler \in [Handlers -> Work]
         /\ reservation \in [Reservations -> Row]
         /\ Members(paid) \subseteq Reservations
         /\ \A h \in Handlers : IsBooking(h) => BookingHolds(h)
         /\ \A h \in Handlers : PaymentHolds(h)
BY MembersOf DEF Accounts, TypeOK

LEMMA ClientSeen ==
  ASSUME TypeOK, NEW g \in Handlers, IsBooking(g), NEW r \in Reservations
  PROVE  LET seen == [handler[g] EXCEPT !.attended = @ \cup {r}]
         IN  /\ seen \in Work /\ seen.pc = handler[g].pc
             /\ seen.booking = handler[g].booking
             /\ seen.attended = handler[g].attended \cup {r}
             /\ handler[g].pc = "siblings" => seen.rows = handler[g].rows
             /\ handler[g].pc = "write" => seen.credit = handler[g].credit
<1>1. handler[g] \in Work
  BY DEF TypeOK
<1>2. CASE handler[g].pc = "siblings"
  BY <1>1, <1>2 DEF Work, Idle
<1>3. CASE handler[g].pc = "write"
  BY <1>1, <1>3 DEF Work, Idle
<1> QED
  BY <1>2, <1>3 DEF IsBooking

---------------------------------------------------------------------------
(* What others go on knowing                                               *)

\* A booking that is under way, when rows only go from expected to past.
LEMMA BookingGoesOn ==
  ASSUME Separate, Accounts, NEW g \in Handlers, IsBooking(g),
         /\ handler'[g].pc = handler[g].pc /\ handler'[g].booking = handler[g].booking
         /\ handler[g].pc = "siblings" => handler'[g].rows = handler[g].rows
         /\ handler[g].pc = "write" => handler'[g].credit = handler[g].credit
         /\ handler[g].attended \subseteq handler'[g].attended,
         \A r \in handler'[g].attended : StatusOf(r)' \in Attended,
         \A r \in Members(handler[g].booking) : StatusOf(r)' = "ABSENT",
         \A k \in Handlers \ {g} : IsBooking(k)' => handler'[k].booking # handler[g].booking,
         \A r \in Reservations :
           /\ Past(r) => Past(r)'
           /\ StatusOf(r) \in Releasing =>
                StatusOf(r)' \in Releasing \/ r \in handler'[g].attended,
         Members(paid) \subseteq Members(paid'),
         \A d \in Reservations : Past(d) => Covered(d)' \subseteq Covered(d)
  PROVE  BookingHolds(g)'
<1>1. BookingHolds(g) /\ TypeOK /\ Members(paid) \subseteq Reservations
  BY Fields
<1>2. \A r \in Reservations : Gone(g, r) => Gone(g, r)'
  BY DEF Gone
<1>3. ASSUME NEW row \in CreditRow, Spare(g, row)
      PROVE  Spare(g, row)'
  <2>1. row.deposit \in Reservations /\ Covered(row.deposit) \subseteq Reservations
    BY <1>3 DEF CreditRow, Covered
  <2>2. Past(row.deposit) /\ Covered(row.deposit)' \subseteq Covered(row.deposit)
    BY <1>3, <2>1 DEF Spare
  <2> QED
    BY <1>2, <1>3, <2>1, <2>2 DEF Spare
<1>4. ASSUME handler[g].pc = "siblings", NEW row \in handler[g].rows
      PROVE  Spare(g, row)' /\ (row.to # None /\ ~ row.held => Gone(g, row.to)')
  <2>1. row \in CreditRow
    BY <1>1, <1>4, WorkFields
  <2>2. Spare(g, row) /\ (row.to # None /\ ~ row.held => Gone(g, row.to))
    BY <1>1, <1>4 DEF BookingHolds
  <2> QED
    BY <1>2, <1>3, <2>1, <2>2 DEF CreditRow
<1>5. ASSUME handler[g].pc = "write", NEW row \in handler[g].credit
      PROVE  /\ Spare(g, row)'
             /\ row.to # None => Gone(g, row.to)' /\ \A s \in Combo[row.to] : Past(s)'
  <2>1. row \in CreditRow
    BY <1>1, <1>5, WorkFields
  <2>2. /\ Spare(g, row)
        /\ row.to # None => Gone(g, row.to) /\ \A s \in Combo[row.to] : Past(s)
    BY <1>1, <1>5 DEF BookingHolds
  <2>3. row.to # None => row.to \in Reservations /\ Combo[row.to] \subseteq Reservations
    BY <2>1 DEF CreditRow, Separate
  <2> QED
    BY <1>2, <1>3, <2>1, <2>2, <2>3
<1> QED
  BY <1>4, <1>5 DEF BookingHolds

\* A step of a request that changes no table, with what it knows then.
LEMMA OneHandler ==
  ASSUME Separate, Accounts, NEW h \in Handlers, NEW work \in Work,
         handler' = [handler EXCEPT ![h] = work],
         UNCHANGED <<reservation, paid, appliedTo, deducted>>,
         IsBooking(h)' =>
           /\ BookingHolds(h)'
           /\ work.attended \subseteq IF IsBooking(h) THEN handler[h].attended ELSE {},
         PaymentHolds(h)'
  PROVE  Accounts'
<1>1. /\ handler'[h] = work /\ \A g \in Handlers \ {h} : handler'[g] = handler[g]
      /\ handler' \in [Handlers -> Work]
  BY Fields
<1>2. /\ \A r : StatusOf(r)' = StatusOf(r) /\ Past(r)' = Past(r)
      /\ \A d : Covered(d)' = Covered(d) /\ Backed(d)' = Backed(d)
  BY DEF StatusOf, Past, Covered, Backed
<1>3. \A r : Noticed(r) => Noticed(r)'
  BY <1>1 DEF Noticed, IsBooking
<1>4. \A r : PriceHolds(r) => PriceHolds(r)'
  BY <1>2, <1>3 DEF PriceHolds, Deducts
<1>5. ASSUME NEW g \in Handlers \ {h}, IsBooking(g)'
      PROVE  BookingHolds(g)'
  <2>1. IsBooking(g) /\ BookingHolds(g) /\ handler'[g] = handler[g]
    BY <1>1, <1>5, Fields DEF IsBooking
  <2>2. ASSUME NEW k \in Handlers \ {g}, IsBooking(k)'
        PROVE  handler'[k].booking # handler[g].booking
    <3>1. CASE k = h
      BY <1>1, <1>5, <2>2, <3>1 DEF BookingHolds
    <3>2. CASE k # h
      BY <1>1, <2>1, <2>2, <3>2 DEF BookingHolds, IsBooking
    <3> QED
      BY <3>1, <3>2
  <2> QED
    BY <1>2, <2>1, <2>2, BookingGoesOn DEF BookingHolds
<1>6. ASSUME NEW g \in Handlers \ {h}
      PROVE  PaymentHolds(g)'
  <2>1. PaymentHolds(g) /\ handler'[g] = handler[g]
    BY <1>1, Fields
  <2> QED
    BY <1>2, <1>3, <2>1 DEF PaymentHolds, Deducts
<1>7. \A g \in Handlers : (IsBooking(g)' => BookingHolds(g)') /\ PaymentHolds(g)'
  BY <1>5, <1>6
<1>8. TypeOK' /\ ConfirmedKeepsAdvance'
  BY <1>1, <1>2 DEF Accounts, TypeOK, ConfirmedKeepsAdvance
<1>9. \A r \in Reservations : PriceHolds(r)'
  BY <1>4 DEF Accounts
<1> QED
  BY <1>2, <1>7, <1>8, <1>9 DEF Accounts
---------------------------------------------------------------------------
(* Requests that only read                                                 *)

LEMMA ReadAccounts ==
  ASSUME Separate, Accounts, NEW h \in Handlers, NEW b \in Bookings, ReadCredits(h, b)
  PROVE  Accounts'
<1> DEFINE rows == {[deposit |-> d, to |-> appliedTo[d], held |-> StillHeldAlone(appliedTo[d])] :
                      d \in {e \in Members(paid) : Forgone(e)}}
           work == [pc |-> "siblings", booking |-> b, attended |-> {}, rows |-> rows]
<1>1. /\ handler' = [handler EXCEPT ![h] = work]
      /\ UNCHANGED <<reservation, paid, appliedTo, deducted>>
      /\ \A g \in Handlers : IsBooking(g) => handler[g].booking # b
  BY DEF ReadCredits, IsBooking
<1>2. ASSUME NEW row \in rows
      PROVE  /\ row \in CreditRow /\ row.deposit \in Members(paid)
             /\ \A s \in {row.deposit} \cup Covered(row.deposit) : StatusOf(s) \in Releasing
             /\ row.to # None /\ ~ row.held => StatusOf(row.to) \in Releasing
  <2>1. PICK d \in Members(paid) :
          /\ \A s \in {d} \cup Covered(d) : StatusOf(s) \in Releasing
          /\ row = [deposit |-> d, to |-> appliedTo[d], held |-> StillHeldAlone(appliedTo[d])]
    BY <1>2 DEF Forgone
  <2>2. d \in Reservations /\ appliedTo[d] \in Reservations \cup {None}
    BY Fields DEF TypeOK
  <2>3. /\ row.deposit = d /\ row.to = appliedTo[d]
        /\ row.held = (row.to # None /\ StatusOf(row.to) \notin Releasing)
        /\ row \in CreditRow
    BY <2>1, <2>2 DEF CreditRow, StillHeldAlone
  <2> QED
    BY <2>1, <2>3
<1>3. rows \subseteq CreditRow
  BY <1>2
<1> HIDE DEF rows
<1>4. /\ work \in Work /\ work.pc = "siblings" /\ work.booking = b
      /\ work.attended = {} /\ work.rows = rows
  BY <1>3 DEF Work
<1> HIDE DEF work
<1>5. handler'[h] = work /\ \A g \in Handlers \ {h} : handler'[g] = handler[g]
  BY <1>1, Fields
<1>6. BookingHolds(h)'
  <2>1. \A r \in Members(b) : StatusOf(r)' = "ABSENT"
    BY <1>1 DEF ReadCredits, Accounts, StatusOf
  <2>2. \A g \in Handlers \ {h} : IsBooking(g)' => handler'[g].booking # b
    BY <1>1, <1>5 DEF IsBooking
  <2>3. ASSUME NEW row \in rows
        PROVE  Spare(h, row)' /\ (row.to # None /\ ~ row.held => Gone(h, row.to)')
    BY <1>1, <1>2 DEF Spare, Gone, Past, StatusOf, Covered
  <2> QED
    BY <1>4, <1>5, <2>1, <2>2, <2>3 DEF BookingHolds
<1>7. PaymentHolds(h)'
  BY <1>4, <1>5 DEF PaymentHolds
<1> QED
  BY <1>1, <1>4, <1>6, <1>7, OneHandler

LEMMA ChooseAccounts ==
  ASSUME Separate, Accounts, NEW h \in Handlers, ChooseCredit(h)
  PROVE  Accounts'
<1> DEFINE held(row) == IF row.to # None /\ Combo[row.to] # {row.to}
                          THEN StillHeld(row.to) ELSE row.held
           free == {row \in handler[h].rows : ~ held(row)}
           credit == {row \in free :
                        \A other \in free : ~ Earlier(other.deposit, row.deposit)}
<1>1. /\ handler' = [handler EXCEPT ![h] =
             [pc |-> "write", booking |-> handler[h].booking,
              attended |-> handler[h].attended, credit |-> credit]]
      /\ credit \subseteq handler[h].rows
      /\ \A row \in credit :
             ~ IF row.to # None /\ Combo[row.to] # {row.to}
                 THEN StillHeld(row.to) ELSE row.held
  BY DEF ChooseCredit
<1> HIDE DEF credit
<1>2. /\ handler[h].pc = "siblings" /\ IsBooking(h) /\ BookingHolds(h)
      /\ UNCHANGED <<reservation, paid, appliedTo, deducted>>
  BY Fields DEF ChooseCredit, IsBooking
<1> DEFINE work == [pc |-> "write", booking |-> handler[h].booking,
                    attended |-> handler[h].attended, credit |-> credit]
<1>3. /\ work \in Work /\ work.pc = "write" /\ work.booking = handler[h].booking
      /\ work.attended = handler[h].attended /\ work.credit = credit
      /\ credit \subseteq CreditRow
  BY <1>1, <1>2, Fields, WorkFields DEF Work
<1> HIDE DEF work
<1>4. /\ handler' = [handler EXCEPT ![h] = work]
      /\ handler'[h] = work /\ \A g \in Handlers \ {h} : handler'[g] = handler[g]
  BY <1>1, Fields DEF work
<1>5. ASSUME NEW row \in credit
      PROVE  /\ Spare(h, row)
             /\ row.to # None => Gone(h, row.to) /\ \A s \in Combo[row.to] : Past(s)
  <2>1. Spare(h, row) /\ (row.to # None /\ ~ row.held => Gone(h, row.to))
    BY <1>1, <1>2 DEF BookingHolds
  <2>2. ASSUME row.to # None, Combo[row.to] # {row.to}
        PROVE  Gone(h, row.to) /\ \A s \in Combo[row.to] : Past(s)
    <3>1. row.to \in Reservations /\ row.to \in Combo[row.to]
      BY <1>3, <2>2 DEF CreditRow, Separate
    <3>2. ~ StillHeld(row.to)
      BY <1>1, <2>2
    <3> QED
      BY <2>2, <3>1, <3>2 DEF StillHeld, Gone, Past
  <2>3. ASSUME row.to # None, Combo[row.to] = {row.to}
        PROVE  Gone(h, row.to) /\ \A s \in Combo[row.to] : Past(s)
    <3>1. Gone(h, row.to)
      BY <1>1, <2>1, <2>3
    <3>2. Past(row.to)
      BY <1>2, <3>1 DEF Gone, Past, BookingHolds
    <3> QED
      BY <2>3, <3>1, <3>2
  <2> QED
    BY <2>1, <2>2, <2>3
<1>6. BookingHolds(h)'
  <2>1. /\ \A r \in Members(work.booking) : StatusOf(r)' = "ABSENT"
        /\ \A r \in work.attended : StatusOf(r)' \in Attended
    BY <1>2, <1>3 DEF BookingHolds, StatusOf
  <2>2. \A g \in Handlers \ {h} : IsBooking(g)' => handler'[g].booking # work.booking
    BY <1>2, <1>3, <1>4 DEF BookingHolds, IsBooking
  <2>3. ASSUME NEW row \in credit
        PROVE  /\ Spare(h, row)'
               /\ row.to # None => Gone(h, row.to)' /\ \A s \in Combo[row.to] : Past(s)'
    BY <1>2, <1>3, <1>4, <1>5 DEF Spare, Gone, Past, StatusOf, Covered
  <2> QED
    BY <1>3, <1>4, <2>1, <2>2, <2>3 DEF BookingHolds
<1>7. PaymentHolds(h)'
  BY <1>3, <1>4 DEF PaymentHolds
<1> QED
  BY <1>2, <1>3, <1>4, <1>6, <1>7, OneHandler

\* A request that ends and wrote nothing.
LEMMA EndAccounts ==
  ASSUME Separate, Accounts, NEW h \in Handlers, handler' = [handler EXCEPT ![h] = Idle],
         UNCHANGED <<reservation, paid, appliedTo, deducted>>
  PROVE  Accounts'
<1>1. Idle \in Work /\ handler'[h] = Idle
  BY Fields DEF Work
<1>2. ~ IsBooking(h)' /\ PaymentHolds(h)'
  BY <1>1 DEF Idle, IsBooking, PaymentHolds
<1> QED
  BY <1>1, <1>2, OneHandler

LEMMA CheckInAccounts ==
  ASSUME Separate, Accounts, NEW h \in Handlers, NEW r \in Reservations, CheckIn(h, r)
  PROVE  Accounts'
<1> DEFINE work == [pc |-> "admit", row |-> r, read |-> StatusOf(r)]
<1>1. work \in Work /\ work.pc = "admit"
  BY DEF Work, CheckIn
<1> HIDE DEF work
<1>2. /\ handler' = [handler EXCEPT ![h] = work] /\ handler'[h] = work
      /\ UNCHANGED <<reservation, paid, appliedTo, deducted>>
  BY Fields DEF CheckIn, work
<1>3. ~ IsBooking(h)' /\ PaymentHolds(h)'
  BY <1>1, <1>2 DEF IsBooking, PaymentHolds
<1> QED
  BY <1>1, <1>2, <1>3, OneHandler

\* What is to be deducted is read when no booking is under way that saw the client as
\* one who did not come.
LEMMA SettleAccounts ==
  ASSUME Separate, Accounts, NEW h \in Handlers, NEW r \in Reservations, Settle(h, r)
  PROVE  Accounts'
<1> DEFINE advance == IF Shared(r) THEN {} ELSE Advance(r)
           work == [pc |-> "pay", row |-> r, advance |-> advance]
<1>1. /\ advance \subseteq Reservations
      /\ \A d \in advance : appliedTo[d] = r \/ (d = r /\ appliedTo[d] = None)
  BY Fields DEF Advance
<1> HIDE DEF advance
<1>2. work \in Work /\ work.pc = "pay" /\ work.row = r /\ work.advance = advance
  BY <1>1 DEF Work
<1> HIDE DEF work
<1>3. /\ handler' = [handler EXCEPT ![h] = work] /\ handler'[h] = work
      /\ \A g \in Handlers \ {h} : handler'[g] = handler[g]
      /\ UNCHANGED <<reservation, paid, appliedTo, deducted>>
  BY Fields DEF Settle, work, advance
<1>4. StatusOf(r)' \in Attended
  BY <1>3 DEF Settle, StatusOf, Attended
<1>5. Timely => Noticed(r)'
  <2>1. Timely => \A g \in Handlers : IsBooking(g) => r \notin handler[g].attended
    BY DEF Settle, IsBooking
  <2> QED
    BY <1>2, <1>3, <2>1 DEF Noticed, IsBooking
<1>6. \A d \in advance : Backed(d)' = r
  BY <1>1, <1>3 DEF Backed, Separate
<1>7. PaymentHolds(h)' /\ ~ IsBooking(h)'
  BY <1>2, <1>3, <1>4, <1>5, <1>6 DEF PaymentHolds, Deducts, IsBooking
<1> QED
  BY <1>2, <1>3, <1>7, OneHandler

---------------------------------------------------------------------------
(* Steps that write                                                        *)

\* What is left to show of a step after which rows are at least as far as before.
LEMMA RowsGoOn ==
  ASSUME Separate, Accounts, TypeOK',
         \A r \in Reservations : StatusOf(r) \in Attended => StatusOf(r)' \in Attended,
         \A r \in Reservations : StatusOf(r) \in Attended /\ Noticed(r) => Noticed(r)',
         \A d \in Reservations : StatusOf(Backed(d)) \in Attended /\ Noticed(Backed(d))
                                   => Backed(d)' = Backed(d)
  PROVE  /\ \A h \in Handlers : handler'[h] = handler[h] => PaymentHolds(h)'
         /\ \A r \in Reservations : deducted'[r] = deducted[r] => PriceHolds(r)'
<1>1. ASSUME NEW r \in Reservations, NEW D \in SUBSET Reservations, Deducts(r, D)
      PROVE  Deducts(r, D)'
  BY <1>1 DEF Deducts
<1>2. ASSUME NEW h \in Handlers, handler'[h] = handler[h]
      PROVE  PaymentHolds(h)'
  <2>1. CASE handler[h].pc = "pay"
    <3>1. PICK r \in Reservations, D \in SUBSET Reservations :
            r = handler[h].row /\ D = handler[h].advance
      BY <2>1, Fields, WorkFields
    <3>2. Deducts(r, D)'
      BY <1>1, <2>1, <3>1, Fields DEF PaymentHolds
    <3> QED
      BY <1>2, <3>1, <3>2 DEF PaymentHolds
  <2>2. CASE handler[h].pc # "pay"
    BY <1>2, <2>2 DEF PaymentHolds
  <2> QED
    BY <2>1, <2>2
<1>3. ASSUME NEW r \in Reservations, deducted'[r] = deducted[r]
      PROVE  PriceHolds(r)'
  <2>1. PICK D \in SUBSET Reservations : D = deducted[r]
    BY DEF Accounts, TypeOK
  <2>2. D # {} => Deducts(r, D)
    BY <2>1 DEF Accounts, PriceHolds
  <2>3. D # {} => Deducts(r, D)'
    BY <1>1, <2>2
  <2> QED
    BY <1>3, <2>1, <2>3 DEF PriceHolds
<1> QED
  BY <1>2, <1>3
\* What is left to show of a step that decides no deposit and makes no booking.
LEMMA RowsMove ==
  ASSUME Separate, Accounts, UNCHANGED <<paid, appliedTo>>,
         \A r \in Reservations :
           /\ reservation'[r].coveredBy = reservation[r].coveredBy
           /\ reservation'[r].basis = reservation[r].basis
           /\ StatusOf(r)' = "ABSENT" <=> StatusOf(r) = "ABSENT"
           /\ StatusOf(r)' \in {"PENDIENTE_DEPOSITO", "CONFIRMADA"} =>
                StatusOf(r)' = StatusOf(r)
  PROVE  /\ \A b \in Bookings :
              StatusOf(b[1])' = "ABSENT" => \A r \in Members(b) : StatusOf(r)' = "ABSENT"
         /\ \A d \in Members(paid)' : StatusOf(d)' \notin {"ABSENT", "PENDIENTE_DEPOSITO"}
         /\ \A d \in Reservations : appliedTo'[d] # None => d \in Members(paid)'
         /\ ConfirmedKeepsAdvance'
         /\ \A d : Covered(d)' = Covered(d) /\ Backed(d)' = Backed(d)
<1>1. \A b \in Bookings :
        StatusOf(b[1])' = "ABSENT" => \A r \in Members(b) : StatusOf(r)' = "ABSENT"
  BY BookingRows DEF Accounts
<1>2. \A d \in Members(paid)' : StatusOf(d)' \notin {"ABSENT", "PENDIENTE_DEPOSITO"}
  BY Fields DEF Accounts
<1>3. ConfirmedKeepsAdvance'
  BY DEF Accounts, ConfirmedKeepsAdvance
<1>4. \A d : Covered(d)' = Covered(d) /\ Backed(d)' = Backed(d)
  BY DEF Covered, Backed
<1> QED
  BY <1>1, <1>2, <1>3, <1>4 DEF Accounts

LEMMA CallOffAccounts ==
  ASSUME Separate, Accounts, NEW r \in Reservations, CallOff(r)
  PROVE  Accounts'
<1>1. PICK s \in Releasing : reservation' = [reservation EXCEPT ![r].status = s]
  BY DEF CallOff, Releasing
<1>2. /\ StatusOf(r) \in {"PENDIENTE_DEPOSITO", "CONFIRMADA"}
      /\ UNCHANGED <<paid, appliedTo, deducted, handler>>
  BY DEF CallOff
<1>3. /\ StatusOf(r)' \in Releasing
      /\ \A x \in Reservations \ {r} : StatusOf(x)' = StatusOf(x)
      /\ \A x \in Reservations : /\ reservation'[x].coveredBy = reservation[x].coveredBy
                                 /\ reservation'[x].basis = reservation[x].basis
      /\ reservation' \in [Reservations -> Row]
  BY <1>1, Fields DEF StatusOf, Row, Statuses, Releasing
<1>4. TypeOK'
  BY <1>2, <1>3 DEF Accounts, TypeOK
<1>5. /\ \A b \in Bookings :
           StatusOf(b[1])' = "ABSENT" => \A x \in Members(b) : StatusOf(x)' = "ABSENT"
      /\ \A d \in Members(paid)' : StatusOf(d)' \notin {"ABSENT", "PENDIENTE_DEPOSITO"}
      /\ \A d \in Reservations : appliedTo'[d] # None => d \in Members(paid)'
      /\ ConfirmedKeepsAdvance'
      /\ \A d : Covered(d)' = Covered(d) /\ Backed(d)' = Backed(d)
  BY <1>2, <1>3, RowsMove DEF Releasing
<1>6. \A x : Noticed(x)' = Noticed(x)
  BY <1>2 DEF Noticed, IsBooking
<1>7. \A x \in Reservations : StatusOf(x) \in Attended => StatusOf(x)' \in Attended
  BY <1>2, <1>3 DEF Attended
<1>8. /\ \A h \in Handlers : PaymentHolds(h)'
      /\ \A x \in Reservations : PriceHolds(x)'
  BY <1>2, <1>4, <1>5, <1>6, <1>7, RowsGoOn
<1>9. ASSUME NEW g \in Handlers, IsBooking(g)'
      PROVE  BookingHolds(g)'
  <2>1. /\ IsBooking(g) /\ BookingHolds(g)
        /\ handler[g].booking \in Bookings /\ handler[g].attended \subseteq Reservations
    BY <1>2, <1>9, Fields, WorkFields DEF IsBooking
  <2>2. /\ \A x \in Members(handler[g].booking) : StatusOf(x)' = "ABSENT"
        /\ \A x \in handler'[g].attended : StatusOf(x)' \in Attended
    BY <1>2, <1>3, <1>7, <2>1, BookingRows DEF BookingHolds
  <2>3. \A k \in Handlers \ {g} : IsBooking(k)' => handler'[k].booking # handler[g].booking
    BY <1>2, <2>1 DEF BookingHolds, IsBooking
  <2>4. \A x \in Reservations :
          /\ Past(x) => Past(x)'
          /\ StatusOf(x) \in Releasing => StatusOf(x)' \in Releasing
    BY <1>3, <1>7 DEF Past
  <2> QED
    BY <1>2, <1>5, <2>1, <2>2, <2>3, <2>4, BookingGoesOn
<1> QED
  BY <1>4, <1>5, <1>8, <1>9 DEF Accounts

LEMMA AdmitAccounts ==
  ASSUME Separate, Accounts, NEW h \in Handlers, Admit(h)
  PROVE  Accounts'
<1>0. PICK r \in Reservations : r = handler[h].row
  BY Fields, WorkFields DEF Admit
<1>1. /\ handler[h].pc = "admit" /\ handler[h].read \in {"CONFIRMADA", "NO_SHOW"}
      /\ UNCHANGED <<paid, appliedTo, deducted>>
  BY Fields, WorkFields DEF Admit
<1>2. CASE StatusOf(r) # handler[h].read
  BY <1>0, <1>1, <1>2, EndAccounts DEF Admit
<1>3. CASE StatusOf(r) = handler[h].read
  <2>1. PICK late \in BOOLEAN :
          reservation' = [reservation EXCEPT ![r].status = "CITA_EN_CURSO", ![r].late = late]
    BY <1>0, <1>3 DEF Admit
  <2>2. /\ handler'[h] = Idle
        /\ \A g \in Handlers \ {h} :
             handler'[g] = IF IsBooking(g) THEN [handler[g] EXCEPT !.attended = @ \cup {r}]
                                           ELSE handler[g]
        /\ handler' \in [Handlers -> Work]
    <3>1. handler' = [g \in Handlers |->
                    IF g = h THEN Idle
                    ELSE IF IsBooking(g) THEN [handler[g] EXCEPT !.attended = @ \cup {r}]
                    ELSE handler[g]]
      BY <1>0, <1>3 DEF Admit, IsBooking
    <3>2. \A g \in Handlers : IsBooking(g) => [handler[g] EXCEPT !.attended = @ \cup {r}] \in Work
      BY <1>1, Fields, ClientSeen
    <3>3. Idle \in Work /\ \A g \in Handlers : handler[g] \in Work
      BY Fields DEF Work
    <3> QED
      BY <3>1, <3>2, <3>3
  <2>3. ASSUME NEW g \in Handlers \ {h}
        PROVE  /\ IsBooking(g)' = IsBooking(g)
               /\ ~ IsBooking(g) => handler'[g] = handler[g]
               /\ IsBooking(g) => /\ handler'[g].pc = handler[g].pc
                                  /\ handler'[g].booking = handler[g].booking
                                  /\ handler'[g].attended = handler[g].attended \cup {r}
                                  /\ handler[g].pc = "siblings" =>
                                       handler'[g].rows = handler[g].rows
                                  /\ handler[g].pc = "write" =>
                                       handler'[g].credit = handler[g].credit
    <3>1. CASE IsBooking(g)
      <4>1. handler'[g] = [handler[g] EXCEPT !.attended = @ \cup {r}]
        BY <2>2, <3>1
      <4> QED
        BY <1>1, <3>1, <4>1, Fields, ClientSeen DEF IsBooking
    <3>2. CASE ~ IsBooking(g)
      BY <2>2, <3>2 DEF IsBooking
    <3> QED
      BY <3>1, <3>2
  <2>4. ~ IsBooking(h)' /\ PaymentHolds(h)'
    BY <2>2 DEF IsBooking, PaymentHolds, Idle
  <2>5. /\ StatusOf(r) \in {"CONFIRMADA", "NO_SHOW"} /\ StatusOf(r)' = "CITA_EN_CURSO"
        /\ \A x \in Reservations \ {r} : StatusOf(x)' = StatusOf(x)
        /\ \A x \in Reservations : /\ reservation'[x].coveredBy = reservation[x].coveredBy
                                   /\ reservation'[x].basis = reservation[x].basis
        /\ reservation' \in [Reservations -> Row]
    <3>1. reservation \in [Reservations -> Row]
      BY Fields
    <3> DEFINE came == [reservation[r] EXCEPT !.status = "CITA_EN_CURSO", !.late = late]
    <3>2. /\ came \in Row /\ came.status = "CITA_EN_CURSO"
          /\ came.coveredBy = reservation[r].coveredBy /\ came.basis = reservation[r].basis
      BY <3>1 DEF Row, Statuses
    <3>3. reservation' = [reservation EXCEPT ![r] = came]
      BY <2>1, <3>1
    <3> HIDE DEF came
    <3>4. /\ reservation' \in [Reservations -> Row] /\ reservation'[r] = came
          /\ \A x \in Reservations \ {r} : reservation'[x] = reservation[x]
      BY <3>1, <3>2, <3>3
    <3>5. StatusOf(r) \in {"CONFIRMADA", "NO_SHOW"}
      BY <1>1, <1>3
    <3>6. StatusOf(r)' = "CITA_EN_CURSO"
      BY <3>2, <3>4 DEF StatusOf
    <3>7. \A x \in Reservations \ {r} : StatusOf(x)' = StatusOf(x)
      BY <3>4 DEF StatusOf
    <3>8. ASSUME NEW x \in Reservations
          PROVE  /\ reservation'[x].coveredBy = reservation[x].coveredBy
                 /\ reservation'[x].basis = reservation[x].basis
      BY <3>2, <3>4
    <3> QED
      BY <3>4, <3>5, <3>6, <3>7, <3>8
  <2>6. TypeOK'
    BY <1>1, <2>2, <2>5 DEF Accounts, TypeOK
  <2>7. /\ \A b \in Bookings :
             StatusOf(b[1])' = "ABSENT" => \A x \in Members(b) : StatusOf(x)' = "ABSENT"
        /\ \A d \in Members(paid)' : StatusOf(d)' \notin {"ABSENT", "PENDIENTE_DEPOSITO"}
        /\ \A d \in Reservations : appliedTo'[d] # None => d \in Members(paid)'
        /\ ConfirmedKeepsAdvance'
        /\ \A d : Covered(d)' = Covered(d) /\ Backed(d)' = Backed(d)
    BY <1>1, <2>5, RowsMove
  <2>8. \A x \in Reservations : StatusOf(x) \in Attended => StatusOf(x)' \in Attended /\ x # r
    BY <1>1, <2>5 DEF Attended
  <2>9. ASSUME NEW x \in Reservations, StatusOf(x) \in Attended, Noticed(x)
        PROVE  Noticed(x)'
    BY <2>3, <2>4, <2>8, <2>9 DEF Noticed
  <2>10. /\ \A g \in Handlers : handler'[g] = handler[g] => PaymentHolds(g)'
         /\ \A x \in Reservations : PriceHolds(x)'
    BY <1>1, <2>6, <2>7, <2>8, <2>9, RowsGoOn
  <2>11. ASSUME NEW g \in Handlers
         PROVE  PaymentHolds(g)'
    <3>1. CASE IsBooking(g)'
      BY <3>1 DEF IsBooking, PaymentHolds
    <3>2. CASE g # h /\ ~ IsBooking(g)
      BY <2>3, <2>10, <3>2
    <3> QED
      BY <2>3, <2>4, <3>1, <3>2
  <2>12. ASSUME NEW g \in Handlers, IsBooking(g)'
         PROVE  BookingHolds(g)'
    <3>1. /\ g \in Handlers \ {h} /\ IsBooking(g) /\ BookingHolds(g)
          /\ handler[g].booking \in Bookings /\ handler[g].attended \subseteq Reservations
      BY <2>3, <2>4, <2>12, Fields, WorkFields
    <3>2. /\ \A x \in Members(handler[g].booking) : StatusOf(x)' = "ABSENT"
          /\ \A x \in handler'[g].attended : StatusOf(x)' \in Attended
      <4>1. \A x \in Members(handler[g].booking) : x \in Reservations \ {r} /\ StatusOf(x) = "ABSENT"
        BY <2>5, <3>1, BookingRows DEF BookingHolds
      <4>2. StatusOf(r)' \in Attended
        BY <2>5 DEF Attended
      <4>3. \A x \in handler[g].attended : StatusOf(x)' \in Attended
        BY <2>8, <3>1 DEF BookingHolds
      <4> QED
        BY <2>3, <2>5, <3>1, <4>1, <4>2, <4>3
    <3>3. \A k \in Handlers \ {g} : IsBooking(k)' => handler'[k].booking # handler[g].booking
      BY <2>3, <2>4, <3>1 DEF BookingHolds
    <3>4. \A x \in Reservations :
            /\ Past(x) => Past(x)'
            /\ StatusOf(x) \in Releasing => StatusOf(x)' \in Releasing \/ x \in handler'[g].attended
      <4>1. Past(r)' /\ r \in handler'[g].attended
        BY <2>3, <2>5, <3>1 DEF Past, Attended
      <4> QED
        BY <2>5, <4>1 DEF Past
    <3>5. \A d \in Reservations : Past(d) => Covered(d)' \subseteq Covered(d)
      BY <2>7
    <3> QED
      BY <1>1, <2>3, <3>1, <3>2, <3>3, <3>4, <3>5, BookingGoesOn
  <2> QED
    BY <2>6, <2>7, <2>10, <2>11, <2>12 DEF Accounts
<1> QED
  BY <1>2, <1>3
LEMMA CompleteAccounts ==
  ASSUME Separate, Accounts, NEW h \in Handlers, Complete(h)
  PROVE  Accounts'
<1>1. PICK r \in Reservations, D \in SUBSET Reservations :
        r = handler[h].row /\ D = handler[h].advance
  BY Fields, WorkFields DEF Complete
<1>2. /\ handler[h].pc = "pay" /\ Deducts(r, D)
      /\ UNCHANGED <<paid, appliedTo>> /\ handler' = [handler EXCEPT ![h] = Idle]
  BY <1>1, Fields DEF Complete, PaymentHolds
<1>3. CASE StatusOf(r) # "CITA_EN_CURSO"
  BY <1>1, <1>2, <1>3, EndAccounts DEF Complete
<1>4. CASE StatusOf(r) = "CITA_EN_CURSO"
  <2>1. /\ reservation' = [reservation EXCEPT ![r].status = "COMPLETADA"]
        /\ deducted' = [deducted EXCEPT ![r] = D]
    BY <1>1, <1>4 DEF Complete
  <2>2. /\ handler'[h] = Idle /\ \A g \in Handlers \ {h} : handler'[g] = handler[g]
        /\ handler' \in [Handlers -> Work]
    BY <1>2, Fields DEF Work
  <2>3. ~ IsBooking(h)' /\ PaymentHolds(h)'
    BY <2>2 DEF IsBooking, PaymentHolds, Idle
  <2>4. /\ StatusOf(r)' = "COMPLETADA"
        /\ \A x \in Reservations \ {r} : StatusOf(x)' = StatusOf(x)
        /\ \A x \in Reservations : /\ reservation'[x].coveredBy = reservation[x].coveredBy
                                   /\ reservation'[x].basis = reservation[x].basis
        /\ reservation' \in [Reservations -> Row]
    BY <1>4, <2>1, Fields DEF StatusOf, Row, Statuses
  <2>5. TypeOK'
    BY <1>2, <2>1, <2>2, <2>4 DEF Accounts, TypeOK
  <2>6. /\ \A b \in Bookings :
             StatusOf(b[1])' = "ABSENT" => \A x \in Members(b) : StatusOf(x)' = "ABSENT"
        /\ \A d \in Members(paid)' : StatusOf(d)' \notin {"ABSENT", "PENDIENTE_DEPOSITO"}
        /\ \A d \in Reservations : appliedTo'[d] # None => d \in Members(paid)'
        /\ ConfirmedKeepsAdvance'
        /\ \A d : Covered(d)' = Covered(d) /\ Backed(d)' = Backed(d)
    BY <1>2, <1>4, <2>4, RowsMove
  <2>7. \A x \in Reservations : StatusOf(x) \in Attended => StatusOf(x)' \in Attended
    BY <2>4 DEF Attended
  <2>8. \A x \in Reservations : Noticed(x) => Noticed(x)'
    BY <2>2, <2>3 DEF Noticed, IsBooking
  <2>9. /\ \A g \in Handlers : handler'[g] = handler[g] => PaymentHolds(g)'
        /\ \A x \in Reservations : deducted'[x] = deducted[x] => PriceHolds(x)'
    BY <2>5, <2>6, <2>7, <2>8, RowsGoOn
  <2>10. Deducts(r, D)'
    BY <1>2, <2>6, <2>7, <2>8 DEF Deducts
  <2>11. deducted'[r] = D /\ \A x \in Reservations \ {r} : deducted'[x] = deducted[x]
    BY <2>1 DEF Accounts, TypeOK
  <2>12. \A x \in Reservations : PriceHolds(x)'
    BY <2>9, <2>10, <2>11 DEF PriceHolds
  <2>13. ASSUME NEW g \in Handlers, IsBooking(g)'
         PROVE  BookingHolds(g)'
    <3>1. /\ handler'[g] = handler[g] /\ IsBooking(g) /\ BookingHolds(g)
          /\ handler[g].booking \in Bookings /\ handler[g].attended \subseteq Reservations
      BY <2>2, <2>3, <2>13, Fields, WorkFields DEF IsBooking
    <3>2. /\ \A x \in Members(handler[g].booking) : StatusOf(x)' = "ABSENT"
          /\ \A x \in handler'[g].attended : StatusOf(x)' \in Attended
      BY <1>4, <2>4, <2>7, <3>1, BookingRows DEF BookingHolds
    <3>3. \A k \in Handlers \ {g} : IsBooking(k)' => handler'[k].booking # handler[g].booking
      BY <2>2, <2>3, <3>1 DEF BookingHolds, IsBooking
    <3>4. \A x \in Reservations :
            /\ Past(x) => Past(x)'
            /\ StatusOf(x) \in Releasing => StatusOf(x)' \in Releasing
      BY <1>4, <2>4, <2>7 DEF Past, Releasing
    <3> QED
      BY <1>2, <2>6, <3>1, <3>2, <3>3, <3>4, BookingGoesOn
  <2> QED
    BY <2>2, <2>3, <2>5, <2>6, <2>9, <2>12, <2>13 DEF Accounts
<1> QED
  BY <1>3, <1>4

---------------------------------------------------------------------------
(* Booking                                                                 *)

\* The credit that a booking takes is no advance of anybody who is expected, and none
\* that was deducted.
LEMMA BookAccounts ==
  ASSUME Separate, Accounts, NEW h \in Handlers, Book(h)
  PROVE  Accounts'
<1>1. PICK b \in Bookings, credit \in SUBSET CreditRow :
        b = handler[h].booking /\ credit = handler[h].credit
  BY Fields, WorkFields DEF Book, IsBooking
<1>2. /\ handler[h].pc = "write" /\ IsBooking(h) /\ BookingHolds(h)
      /\ UNCHANGED <<paid, deducted>> /\ handler' = [handler EXCEPT ![h] = Idle]
  BY Fields DEF Book, IsBooking
<1>3. CASE \E row \in credit : ~ Applies(row)
  BY <1>1, <1>2, <1>3, EndAccounts DEF Book
<1>4. CASE \A row \in credit : Applies(row)
  <2>1. /\ reservation' = [x \in Reservations |->
             IF x \in Members(b) THEN [reservation[x] EXCEPT !.status = "PENDIENTE_DEPOSITO"]
                                 ELSE reservation[x]]
        /\ appliedTo' = [d \in Reservations |->
             IF \E row \in credit : row.deposit = d THEN b[1] ELSE appliedTo[d]]
    BY <1>1, <1>4 DEF Book
  <2>2. /\ handler'[h] = Idle /\ \A g \in Handlers \ {h} : handler'[g] = handler[g]
        /\ handler' \in [Handlers -> Work]
    BY <1>2, Fields DEF Work
  <2>3. ~ IsBooking(h)' /\ PaymentHolds(h)'
    BY <2>2 DEF IsBooking, PaymentHolds, Idle
  <2>4. /\ \A x \in Members(b) : /\ x \in Reservations /\ StatusOf(x) = "ABSENT"
                                 /\ StatusOf(x)' = "PENDIENTE_DEPOSITO"
        /\ \A x \in Reservations \ Members(b) : StatusOf(x)' = StatusOf(x)
        /\ \A x \in Reservations : /\ reservation'[x].coveredBy = reservation[x].coveredBy
                                   /\ reservation'[x].basis = reservation[x].basis
        /\ reservation' \in [Reservations -> Row]
    BY <1>1, <1>2, <2>1, BookingRows, Fields DEF StatusOf, Row, Statuses, BookingHolds
  <2>5. b[1] \in Members(b) /\ b[1] \in Reservations
    BY BookingRows
  <2>6. TypeOK'
    BY <1>2, <2>1, <2>2, <2>4, <2>5 DEF Accounts, TypeOK
  \* A deposit that the booking takes.
  <2>7. ASSUME NEW d \in Reservations, appliedTo'[d] # appliedTo[d]
        PROVE  /\ appliedTo'[d] = b[1] /\ d \in Members(paid) /\ Gone(h, Backed(d))
               /\ \A s \in {d} \cup Covered(d) : Past(s)
               /\ appliedTo[d] # None => \A s \in Combo[appliedTo[d]] : Past(s)
    <3>1. PICK row \in credit : row.deposit = d
      BY <2>1, <2>7
    <3>2. /\ Spare(h, row)
          /\ row.to # None => Gone(h, row.to) /\ \A s \in Combo[row.to] : Past(s)
      BY <1>1, <1>2, <3>1 DEF BookingHolds
    <3>3. appliedTo[d] = row.to
      BY <1>4, <3>1 DEF Applies
    <3> QED
      BY <2>1, <3>1, <3>2, <3>3 DEF Spare, Backed
  <2>8. \A x \in Reservations : Past(x) => x \notin Members(b)
    BY <2>4 DEF Past, Releasing, Attended
  <2>9. \A x \in Reservations :
          /\ StatusOf(x) \in Attended => StatusOf(x)' \in Attended
          /\ Past(x) => Past(x)'
          /\ StatusOf(x) \in Releasing => StatusOf(x)' \in Releasing
    BY <2>4, <2>8 DEF Past
  <2>10. \A x \in Reservations : Noticed(x) => Noticed(x)'
    BY <2>2, <2>3 DEF Noticed, IsBooking
  <2>11. \A d \in Reservations :
           StatusOf(Backed(d)) \in Attended /\ Noticed(Backed(d)) => Backed(d)' = Backed(d)
    <3>1. ASSUME NEW d \in Reservations, appliedTo'[d] # appliedTo[d]
          PROVE  ~ (StatusOf(Backed(d)) \in Attended /\ Noticed(Backed(d)))
      BY <1>2, <2>7, <3>1 DEF Gone, Noticed, Releasing, Attended
    <3>2. \A d \in Reservations : appliedTo'[d] = appliedTo[d] => Backed(d)' = Backed(d)
      BY DEF Backed
    <3> QED
      BY <3>1, <3>2
  <2>12. /\ \A g \in Handlers : handler'[g] = handler[g] => PaymentHolds(g)'
         /\ \A x \in Reservations : deducted'[x] = deducted[x] => PriceHolds(x)'
    BY <2>6, <2>9, <2>10, <2>11, RowsGoOn
  <2>13. ASSUME NEW c \in Bookings, StatusOf(c[1])' = "ABSENT"
         PROVE  \A x \in Members(c) : StatusOf(x)' = "ABSENT"
    <3>1. Members(c) \subseteq Reservations /\ c[1] \in Members(c)
      BY BookingRows
    <3>2. c[1] \notin Members(b)
      BY <2>4, <2>13
    <3>3. Members(b) \cap Members(c) = {}
      BY <2>5, <3>2 DEF Separate
    <3> QED
      BY <2>4, <2>13, <3>1, <3>3 DEF Accounts
  <2>14. /\ \A d \in Members(paid)' : StatusOf(d)' \notin {"ABSENT", "PENDIENTE_DEPOSITO"}
         /\ \A d \in Reservations : appliedTo'[d] # None => d \in Members(paid)'
    BY <1>2, <2>4, <2>7, Fields DEF Accounts
  <2>15. ConfirmedKeepsAdvance'
    <3>1. SUFFICES ASSUME NEW r \in Reservations, StatusOf(r)' = "CONFIRMADA",
                          reservation'[r].basis \in {"payment", "credit"}
                   PROVE  \E d \in Members(paid)' :
                            \/ d \in {r, reservation'[r].coveredBy} /\ appliedTo'[d] = None
                            \/ appliedTo'[d] \in Combo[r]
      BY DEF ConfirmedKeepsAdvance
    <3>2. StatusOf(r) = "CONFIRMADA" /\ ~ Past(r)
      BY <2>4, <3>1 DEF Past, Releasing, Attended
    <3>3. PICK d \in Members(paid) :
            \/ d \in {r, reservation[r].coveredBy} /\ appliedTo[d] = None
            \/ appliedTo[d] \in Combo[r]
      BY <2>4, <3>1, <3>2 DEF Accounts, ConfirmedKeepsAdvance
    <3>4. d \in Reservations
      BY Fields
    <3>5. d \in {r, reservation[r].coveredBy} => r \in {d} \cup Covered(d)
      BY DEF Covered
    <3>6. appliedTo[d] \in Combo[r] => appliedTo[d] # None /\ r \in Combo[appliedTo[d]]
      BY DEF Separate
    <3>7. appliedTo'[d] = appliedTo[d]
      BY <2>7, <3>2, <3>3, <3>4, <3>5, <3>6
    <3> QED
      BY <1>2, <2>4, <3>3, <3>7
  <2>16. ASSUME NEW g \in Handlers, IsBooking(g)'
         PROVE  BookingHolds(g)'
    <3>1. /\ handler'[g] = handler[g] /\ IsBooking(g) /\ BookingHolds(g) /\ g # h
          /\ handler[g].booking \in Bookings /\ handler[g].attended \subseteq Reservations
      BY <2>2, <2>3, <2>16, Fields, WorkFields DEF IsBooking
    <3>2. Members(handler[g].booking) \cap Members(b) = {}
      BY <1>1, <1>2, <3>1 DEF BookingHolds, Separate
    <3>3. /\ \A x \in Members(handler[g].booking) : StatusOf(x)' = "ABSENT"
          /\ \A x \in handler'[g].attended : StatusOf(x)' \in Attended
      BY <2>4, <2>9, <3>1, <3>2, BookingRows DEF BookingHolds
    <3>4. \A k \in Handlers \ {g} : IsBooking(k)' => handler'[k].booking # handler[g].booking
      BY <2>2, <2>3, <3>1 DEF BookingHolds, IsBooking
    <3>5. \A d \in Reservations : Covered(d)' = Covered(d)
      BY <2>4 DEF Covered
    <3> QED
      BY <1>2, <2>9, <3>1, <3>3, <3>4, <3>5, BookingGoesOn
  <2>17. /\ \A g \in Handlers : PaymentHolds(g)'
         /\ \A x \in Reservations : PriceHolds(x)'
    BY <1>2, <2>2, <2>3, <2>12
  <2> QED
    BY <2>6, <2>13, <2>14, <2>15, <2>16, <2>17 DEF Accounts
<1> QED
  BY <1>3, <1>4
---------------------------------------------------------------------------
(* Approving                                                               *)

\* The rows an approval confirms, with what their advance is.
LEMMA ApprovedRows ==
  ASSUME Separate, TypeOK, NEW r \in Reservations, Approve(r)
  PROVE  \E basis \in {"credit", "payment", "nothing"} :
           /\ basis = "credit" => CoveredByCredit(r)
           /\ paid' = IF basis = "payment" THEN Append(paid, r) ELSE paid
           /\ reservation' \in [Reservations -> Row]
           /\ StatusOf(r) = "PENDIENTE_DEPOSITO"
           /\ \A s \in Reservations :
                \/ reservation'[s] = reservation[s] /\ s # r
                \/ /\ s \in Combo[r] /\ StatusOf(s) = "PENDIENTE_DEPOSITO"
                   /\ StatusOf(s)' = "CONFIRMADA" /\ reservation'[s].basis = basis
                   /\ reservation'[s].coveredBy =
                        IF basis = "payment" /\ s # r THEN r ELSE reservation[s].coveredBy
<1> DEFINE group == {s \in Combo[r] : StatusOf(s) = "PENDIENTE_DEPOSITO"}
           row(s, basis) == [reservation[s] EXCEPT
                               !.status = "CONFIRMADA", !.basis = basis,
                               !.coveredBy = IF basis = "payment" /\ s # r THEN r ELSE @]
<1>1. PICK basis \in {"credit", "payment", "nothing"} :
        /\ basis = "credit" => CoveredByCredit(r)
        /\ paid' = IF basis = "payment" THEN Append(paid, r) ELSE paid
        /\ reservation' = [s \in Reservations |->
             IF s \notin group THEN reservation[s] ELSE row(s, basis)]
  BY DEF Approve
<1>2. r \in group
  BY DEF Approve
<1>3. ASSUME NEW s \in Reservations
      PROVE  /\ row(s, basis) \in Row /\ row(s, basis).status = "CONFIRMADA"
             /\ row(s, basis).basis = basis
             /\ row(s, basis).coveredBy =
                  IF basis = "payment" /\ s # r THEN r ELSE reservation[s].coveredBy
  <2>1. reservation[s] \in Row
    BY DEF TypeOK
  <2> QED
    BY <2>1 DEF Row, Statuses
<1> HIDE DEF row
<1>4. reservation' \in [Reservations -> Row]
  BY <1>1, <1>3 DEF TypeOK
<1>5. ASSUME NEW s \in Reservations
      PROVE  \/ reservation'[s] = reservation[s] /\ s # r
             \/ /\ s \in Combo[r] /\ StatusOf(s) = "PENDIENTE_DEPOSITO"
                /\ StatusOf(s)' = "CONFIRMADA" /\ reservation'[s].basis = basis
                /\ reservation'[s].coveredBy =
                     IF basis = "payment" /\ s # r THEN r ELSE reservation[s].coveredBy
  <2>1. CASE s \in group
    <3>1. reservation'[s] = row(s, basis)
      BY <1>1, <2>1
    <3> QED
      BY <1>3, <2>1, <3>1 DEF StatusOf
  <2>2. CASE s \notin group
    BY <1>1, <1>2, <2>2
  <2> QED
    BY <2>1, <2>2
<1> QED
  BY <1>1, <1>2, <1>4, <1>5

LEMMA OneMorePaid ==
  ASSUME NEW s \in Seq(Reservations), NEW r \in Reservations, r \notin Members(s),
         \A i, j \in DOMAIN s : s[i] = s[j] => i = j
  PROVE  LET t == Append(s, r)
         IN  /\ t \in Seq(Reservations) /\ \A i, j \in DOMAIN t : t[i] = t[j] => i = j
             /\ Members(t) = Members(s) \cup {r}
<1> DEFINE t == Append(s, r)
<1>1. /\ t \in Seq(Reservations) /\ DOMAIN t = 1 .. Len(s) + 1 /\ DOMAIN s = 1 .. Len(s)
      /\ Len(s) \in Nat /\ t[Len(s) + 1] = r /\ \A i \in 1 .. Len(s) : t[i] = s[i]
  OBVIOUS
<1> HIDE DEF t
<1>2. \A i \in 1 .. Len(s) : s[i] # r
  BY <1>1 DEF Members
<1>3. \A i, j \in DOMAIN t : t[i] = t[j] => i = j
  BY <1>1, <1>2
<1>4. Members(t) = Members(s) \cup {r}
  BY <1>1 DEF Members
<1> QED
  BY <1>1, <1>3, <1>4 DEF t

LEMMA ApproveAccounts ==
  ASSUME Separate, Accounts, NEW r \in Reservations, Approve(r)
  PROVE  Accounts'
<1>1. UNCHANGED <<appliedTo, deducted, handler>>
  BY DEF Approve
<1>2. PICK basis \in {"credit", "payment", "nothing"} :
        /\ basis = "credit" => CoveredByCredit(r)
        /\ paid' = IF basis = "payment" THEN Append(paid, r) ELSE paid
        /\ reservation' \in [Reservations -> Row]
        /\ StatusOf(r) = "PENDIENTE_DEPOSITO"
        /\ \A s \in Reservations :
             \/ reservation'[s] = reservation[s] /\ s # r
             \/ /\ s \in Combo[r] /\ StatusOf(s) = "PENDIENTE_DEPOSITO"
                /\ StatusOf(s)' = "CONFIRMADA" /\ reservation'[s].basis = basis
                /\ reservation'[s].coveredBy =
                     IF basis = "payment" /\ s # r THEN r ELSE reservation[s].coveredBy
  BY Fields, ApprovedRows
<1>3. r \notin Members(paid) /\ appliedTo[r] = None
  BY <1>2 DEF Accounts
<1>4. /\ paid' \in Seq(Reservations)
      /\ \A i, j \in DOMAIN paid' : paid'[i] = paid'[j] => i = j
      /\ Members(paid') = IF basis = "payment" THEN Members(paid) \cup {r} ELSE Members(paid)
  BY <1>2, <1>3, OneMorePaid DEF Accounts, TypeOK
<1>5. TypeOK'
  BY <1>1, <1>2, <1>4 DEF Accounts, TypeOK
<1>6. \A s \in Reservations :
        \/ StatusOf(s)' = StatusOf(s) /\ s # r
        \/ StatusOf(s) = "PENDIENTE_DEPOSITO" /\ StatusOf(s)' = "CONFIRMADA"
  BY <1>2 DEF StatusOf
<1>7. \A b \in Bookings :
        StatusOf(b[1])' = "ABSENT" => \A s \in Members(b) : StatusOf(s)' = "ABSENT"
  BY <1>6, BookingRows DEF Accounts
<1>8. /\ \A d \in Members(paid') : StatusOf(d)' \notin {"ABSENT", "PENDIENTE_DEPOSITO"}
      /\ \A d \in Reservations : appliedTo'[d] # None => d \in Members(paid')
  BY <1>1, <1>4, <1>6, Fields DEF Accounts
<1>9. ConfirmedKeepsAdvance'
  <2>1. SUFFICES ASSUME NEW s \in Reservations, StatusOf(s)' = "CONFIRMADA",
                        reservation'[s].basis \in {"payment", "credit"}
                 PROVE  \E d \in Members(paid') :
                          \/ d \in {s, reservation'[s].coveredBy} /\ appliedTo'[d] = None
                          \/ appliedTo'[d] \in Combo[s]
    BY DEF ConfirmedKeepsAdvance
  <2>2. CASE reservation'[s] = reservation[s]
    BY <1>1, <1>4, <2>1, <2>2 DEF Accounts, ConfirmedKeepsAdvance, StatusOf
  <2>3. CASE reservation'[s] # reservation[s] /\ basis = "payment"
    <3>1. r \in Members(paid') /\ r \in {s, reservation'[s].coveredBy} /\ appliedTo'[r] = None
      BY <1>1, <1>2, <1>3, <1>4, <2>3
    <3> QED
      BY <3>1
  <2>4. CASE reservation'[s] # reservation[s] /\ basis = "credit"
    <3>1. PICK d \in Reservations : appliedTo[d] \in Combo[r]
      BY <1>2, <2>4 DEF CoveredByCredit
    <3>2. Combo[s] = Combo[r]
      BY <1>2, <2>4 DEF Separate
    <3>3. d \in Members(paid)
      BY <3>1 DEF Accounts, Separate
    <3> QED
      BY <1>1, <1>4, <3>1, <3>2, <3>3
  <2>5. CASE reservation'[s] # reservation[s] /\ basis = "nothing"
    BY <1>2, <2>1, <2>5
  <2> QED
    BY <2>2, <2>3, <2>4, <2>5
<1>10. \A s \in Reservations :
         /\ StatusOf(s) \in Attended => StatusOf(s)' \in Attended
         /\ Past(s) => Past(s)'
         /\ StatusOf(s) \in Releasing => StatusOf(s)' \in Releasing
  BY <1>6 DEF Past, Releasing, Attended
<1>11. /\ \A s : Noticed(s) => Noticed(s)'
       /\ \A d : Backed(d)' = Backed(d)
  BY <1>1 DEF Noticed, IsBooking, Backed
<1>12. /\ \A h \in Handlers : PaymentHolds(h)'
       /\ \A s \in Reservations : PriceHolds(s)'
  BY <1>1, <1>5, <1>10, <1>11, RowsGoOn
<1>13. \A d \in Reservations : Past(d) => Covered(d)' \subseteq Covered(d)
  <2>1. ~ Past(r)
    BY <1>2 DEF Past, Releasing, Attended
  <2>2. \A s \in Reservations : reservation'[s].coveredBy \in {r, reservation[s].coveredBy}
    BY <1>2
  <2> QED
    BY <2>1, <2>2 DEF Covered
<1>14. ASSUME NEW g \in Handlers, IsBooking(g)'
       PROVE  BookingHolds(g)'
  <2>1. /\ handler'[g] = handler[g] /\ IsBooking(g) /\ BookingHolds(g)
        /\ handler[g].booking \in Bookings /\ handler[g].attended \subseteq Reservations
    BY <1>1, <1>14, Fields, WorkFields DEF IsBooking
  <2>2. /\ \A s \in Members(handler[g].booking) : StatusOf(s)' = "ABSENT"
        /\ \A s \in handler'[g].attended : StatusOf(s)' \in Attended
    BY <1>6, <1>10, <2>1, BookingRows DEF BookingHolds
  <2>3. \A k \in Handlers \ {g} : IsBooking(k)' => handler'[k].booking # handler[g].booking
    BY <1>1, <2>1 DEF BookingHolds, IsBooking
  <2>4. Members(paid) \subseteq Members(paid')
    BY <1>4
  <2> QED
    BY <1>10, <1>13, <2>1, <2>2, <2>3, <2>4, BookingGoesOn
<1> QED
  BY <1>5, <1>7, <1>8, <1>9, <1>12, <1>14 DEF Accounts

---------------------------------------------------------------------------
(* Every step                                                              *)

LEMMA FirstAccounts ==
  ASSUME Separate, Init
  PROVE  Accounts
<1>1. \A r \in Reservations :
        LET held == r \in Members(Paid) \/ CoveredBy[r] # None
        IN  /\ reservation[r] \in Row
            /\ StatusOf(r) = IF held THEN "CONFIRMADA" ELSE "ABSENT"
            /\ held => reservation[r].coveredBy = CoveredBy[r]
  <2>1. Members(Paid) \subseteq Reservations
    BY MembersOf DEF Separate
  <2> QED
    BY <2>1 DEF Init, Row, Statuses, StatusOf, Separate
<1>2. reservation \in [Reservations -> Row]
  BY <1>1 DEF Init
<1>3. TypeOK
  BY <1>2 DEF Init, TypeOK, Work, Separate
<1>4. \A b \in Bookings : \A r \in Members(b) : StatusOf(r) = "ABSENT"
  BY <1>1, BookingRows DEF Separate
<1>5. /\ \A d \in Members(paid) : StatusOf(d) \notin {"ABSENT", "PENDIENTE_DEPOSITO"}
      /\ \A d \in Reservations : appliedTo[d] = None
  BY <1>1, MembersOf DEF Init, Separate
<1>6. ConfirmedKeepsAdvance
  <2>1. \A r \in Reservations :
          StatusOf(r) = "CONFIRMADA" =>
            \E d \in Members(paid) : d \in {r, reservation[r].coveredBy} /\ appliedTo[d] = None
    BY <1>1, <1>5, MembersOf DEF Init, Separate
  <2> QED
    BY <2>1 DEF ConfirmedKeepsAdvance
<1>7. \A h \in Handlers : ~ IsBooking(h) /\ PaymentHolds(h)
  BY DEF Init, Idle, IsBooking, PaymentHolds
<1>8. \A r \in Reservations : PriceHolds(r)
  BY DEF Init, PriceHolds
<1> QED
  BY <1>3, <1>4, <1>5, <1>6, <1>7, <1>8 DEF Accounts

LEMMA NextAccounts ==
  ASSUME Separate, Accounts, [Next]_creditVars
  PROVE  Accounts'
<1>1. ASSUME NEW h \in Handlers, NEW b \in Bookings, ReadCredits(h, b)
      PROVE  Accounts'
  BY <1>1, ReadAccounts
<1>2. ASSUME NEW h \in Handlers, ChooseCredit(h) \/ Book(h) \/ Admit(h) \/ Complete(h)
      PROVE  Accounts'
  BY <1>2, ChooseAccounts, BookAccounts, AdmitAccounts, CompleteAccounts
<1>3. ASSUME NEW h \in Handlers, BookFails(h)
      PROVE  Accounts'
  BY <1>3, EndAccounts DEF BookFails
<1>4. ASSUME NEW h \in Handlers, NEW r \in Reservations, CheckIn(h, r) \/ Settle(h, r)
      PROVE  Accounts'
  BY <1>4, CheckInAccounts, SettleAccounts
<1>5. ASSUME NEW r \in Reservations, Approve(r) \/ CallOff(r)
      PROVE  Accounts'
  BY <1>5, ApproveAccounts, CallOffAccounts
<1>6. CASE UNCHANGED creditVars
  BY <1>6 DEF creditVars, Accounts, TypeOK, StatusOf, IsBooking, BookingHolds, Spare, Gone,
       Past, Covered, PaymentHolds, PriceHolds, Deducts, Backed, Noticed,
    ConfirmedKeepsAdvance
<1> QED
  BY <1>1, <1>2, <1>3, <1>4, <1>5, <1>6 DEF Next
---------------------------------------------------------------------------
(* The theorems                                                            *)

\* What a deposit stands for, what bookings under way know of it and what is deducted
\* agree, however requests overlap.
THEOREM AccountsAgree == Separate /\ Spec => []Accounts
<1>1. SUFFICES ASSUME Separate
               PROVE  Spec => []Accounts
  OBVIOUS
<1>2. Init => Accounts
  BY <1>1, FirstAccounts
<1>3. Accounts /\ [Next]_creditVars => Accounts'
  BY <1>1, NextAccounts
<1> QED
  BY <1>2, <1>3, PTL DEF Spec

\* A reservation that was confirmed on a payment or a credit keeps an advance while the
\* client is expected: a booking that read the deposit as free, and is slow, takes it only
\* if nobody counts on it (deposit-credit.service, create-reservation.orchestrator).
THEOREM AdvanceIsKept == Separate /\ Spec => []ConfirmedKeepsAdvance
<1>1. Accounts => ConfirmedKeepsAdvance
  BY DEF Accounts
<1> QED
  BY <1>1, AccountsAgree, PTL

\* A payment is deducted from one price only (reservation-settlement.service, complete-
\* reservation.orchestrator), when no booking lasts from a check-in to the payment.
THEOREM AdvanceDeductedOnce == Separate /\ Timely /\ Spec => []DeductedOnce
<1>1. SUFFICES ASSUME Separate, Timely
               PROVE  Spec => []DeductedOnce
  OBVIOUS
<1>2. ASSUME Accounts
      PROVE  DeductedOnce
  <2>1. ASSUME NEW d \in Reservations
        PROVE  Cardinality({r \in Reservations : d \in deducted[r]}) <= 1
    <3> DEFINE charged == {r \in Reservations : d \in deducted[r]}
    <3>1. \A r \in charged : r = Backed(d)
      BY <1>1, <1>2 DEF Accounts, PriceHolds, Deducts
    <3>2. charged = {} \/ charged = {Backed(d)}
      BY <3>1
    <3> HIDE DEF charged
    <3>3. Cardinality(charged) \in {0, 1}
      BY <3>2, FS_EmptySet, FS_Singleton
    <3> QED
      BY <3>3 DEF charged
  <2> QED
    BY <2>1 DEF DeductedOnce
<1>3. Spec => []Accounts
  BY <1>1, AccountsAgree
<1> QED
  BY <1>2, <1>3, PTL

-----------------------------------------------------------------------------
(* What is kept of her                                                     *)

CONSTANTS
  Clients, Requests, Channel, Sensitive, Consenting, Batch, MaxEvents, MaxFaults

VARIABLES client, consent, byJid, search, eraser, image, reached, events, losses

Desk == INSTANCE ClientRecords

Rows ==
  [phone : {"none", "hers", "anonymous"}, data : SUBSET Desk!Data, bond : SUBSET Desk!Bonds]

Searches ==
  [pc : {"idle", "cache", "jid", "phone", "create", "consent", "ensure", "record", "fill",
         "book", "ended", "unrecorded"},
   row : Clients \cup {0}, seen : SUBSET Desk!Data]

\* The types, as far as the proofs need them.
Shapes ==
  /\ client \in [Clients -> Rows]
  /\ search \in [Requests -> Searches]
  /\ byJid \in Clients \cup {0}
  /\ eraser = [pc |-> eraser.pc, row |-> eraser.row, proof |-> eraser.proof,
               queue |-> eraser.queue]
  /\ eraser.proof \in BOOLEAN
  /\ image \in [Clients -> {"none", "shown", "stored", "gone", "lost"}]

\* What is there at first: rows of which none is anonymous, and images that are shown.
FirstRows == [phone : {"none", "hers"}, data : SUBSET Desk!Data, bond : SUBSET Desk!Bonds]
FirstImages == {"none", "shown"}

RowsNumbered == Clients \subseteq Nat

\* The first row that is free is one of them.
LEMMA FirstFree ==
  ASSUME RowsNumbered, NEW free \in SUBSET Clients, free # {}
  PROVE  Desk!Min(free) \in free
<1> DEFINE R == OpToRel(<, Nat)
<1>1. IsWellFoundedOn(R, Nat)
  BY NatLessThanWellFounded, Zenon
<1>2. free \subseteq Nat
  BY DEF RowsNumbered
<1> HIDE DEF R
<1>3. PICK x \in free : \A y \in free : ~ (<<y, x>> \in R)
  BY <1>1, <1>2, WFMin
<1>4. \A y \in Nat : y < x => <<y, x>> \in R
  <2>1. x \in Nat
    BY <1>2
  <2> QED
    BY <2>1, Zenon DEF R, OpToRel
<1>5. \A y \in free : ~ (y < x)
  BY <1>2, <1>3, <1>4
<1>6. \A y \in free : x <= y
  BY <1>2, <1>5
<1> QED
  BY <1>6 DEF Desk!Min

LEMMA StartHolds ==
  ASSUME NEW rows \in [Clients -> FirstRows], NEW images \in [Clients -> FirstImages],
         Desk!StartWith(rows, images)
  PROVE  Shapes /\ Desk!Privacy
<1>1. /\ client \in [Clients -> Rows]
      /\ image \in [Clients -> {"none", "shown", "stored", "gone", "lost"}]
  BY DEF Desk!StartWith, FirstRows, Rows, FirstImages
<1>2. /\ search \in [Requests -> Searches]
      /\ \A q \in Requests : search[q].pc = "idle"
      /\ eraser = Desk!Idle /\ byJid \in Clients \cup {0}
  BY DEF Desk!StartWith, Searches, Desk!Data
<1>3. Shapes
  BY <1>1, <1>2 DEF Shapes, Desk!Idle
<1>4. \A k \in Clients : client[k].phone # "anonymous"
  BY DEF Desk!StartWith, FirstRows
<1>5. Desk!HealthDataHasConsent
  BY DEF Desk!StartWith, Desk!HealthDataHasConsent
<1>6. Desk!FillsWithConsent
  BY <1>2 DEF Desk!FillsWithConsent, Desk!At
<1>7. Desk!ErasedIsBlank
  BY <1>4 DEF Desk!ErasedIsBlank
<1>8. Desk!FoundUnbound
  BY <1>2 DEF Desk!FoundUnbound, Desk!Idle
<1> QED
  BY <1>3, <1>5, <1>6, <1>7, <1>8 DEF Desk!Privacy

---------------------------------------------------------------------------
(* Types *)

LEMMA GotoShape ==
  ASSUME Shapes, NEW q \in Requests, NEW pc, Desk!Goto(q, pc),
         pc \in {"idle", "cache", "jid", "phone", "create", "consent", "ensure", "record",
                 "fill", "book", "ended", "unrecorded"}
  PROVE  /\ search' \in [Requests -> Searches] /\ search'[q].pc = pc
         /\ search'[q].row = search[q].row
         /\ \A p \in Requests \ {q} : search'[p] = search[p]
BY DEF Shapes, Desk!Goto, Searches

LEMMA FoundShape ==
  ASSUME Shapes, NEW q \in Requests, NEW k \in Clients, Desk!Found(q, k)
  PROVE  /\ search' \in [Requests -> Searches] /\ search'[q].row = k
         /\ search'[q].pc \in {"book", "ensure", "fill"}
         /\ q \in Sensitive => search'[q].pc # "fill"
         /\ \A p \in Requests \ {q} : search'[p] = search[p]
<1>1. client[k].data \in SUBSET Desk!Data
  BY DEF Shapes, Rows
<1> QED
  BY <1>1 DEF Shapes, Desk!Found, Searches

\* What Reach does: rows that were written to stay so.
LEMMA Reaching ==
  ASSUME NEW k \in Clients, Desk!Reach(k)
  PROVE  /\ reached \subseteq reached' /\ reached' \subseteq reached \cup {k}
         /\ eraser.row = k \/ client[k].phone = "anonymous" => k \in reached'
BY DEF Desk!Reach

LEMMA QueueShape ==
  ASSUME Desk!Proceed
  PROVE  /\ eraser' = [pc |-> eraser'.pc, row |-> eraser'.row, proof |-> eraser'.proof,
                       queue |-> eraser'.queue]
         /\ eraser'.proof \in BOOLEAN /\ eraser'.pc \in {"idle", "row"}
BY DEF Desk!Proceed, Desk!Idle

LEMMA StepShape ==
  ASSUME Shapes, NEW pc, Desk!Step(pc)
  PROVE  /\ eraser' = [pc |-> eraser'.pc, row |-> eraser'.row, proof |-> eraser'.proof,
                       queue |-> eraser'.queue]
         /\ eraser'.proof = eraser.proof /\ eraser'.pc = pc /\ eraser'.row = eraser.row
<1>1. eraser' = [pc |-> pc, row |-> eraser.row, proof |-> eraser.proof, queue |-> eraser.queue]
  BY DEF Shapes, Desk!Step
<1> QED
  BY <1>1

\* What is written to a row of a client is of the kind that is kept there.
LEMMA RowWritten ==
  ASSUME Shapes, NEW k, NEW data \in SUBSET Desk!Data, NEW bond \in SUBSET Desk!Bonds,
         \/ client' = [client EXCEPT ![k].data = @ \cup data]
         \/ client' = [client EXCEPT ![k].bond = bond]
  PROVE  client' \in [Clients -> Rows]
<1>1. client \in [Clients -> Rows]
  BY DEF Shapes
<1>2. ASSUME NEW row \in Rows
      PROVE  /\ [row EXCEPT !.data = @ \cup data] \in Rows
             /\ [row EXCEPT !.bond = bond] \in Rows
  BY DEF Rows
<1>3. CASE client' = [client EXCEPT ![k].data = @ \cup data]
  <2>1. client' = [l \in Clients |-> IF l = k THEN [client[l] EXCEPT !.data = @ \cup data]
                                             ELSE client[l]]
    BY <1>1, <1>3
  <2> QED
    BY <1>1, <1>2, <2>1
<1>4. CASE client' = [client EXCEPT ![k].bond = bond]
  <2>1. client' = [l \in Clients |-> IF l = k THEN [client[l] EXCEPT !.bond = bond]
                                             ELSE client[l]]
    BY <1>1, <1>4
  <2> QED
    BY <1>1, <1>2, <2>1
<1> QED
  BY <1>3, <1>4

LEMMA RequestShapes ==
  ASSUME RowsNumbered, Shapes, NEW q \in Requests, Desk!RequestStep(q)
  PROVE  Shapes'
<1>1. CASE Desk!Arrive(q)
  BY <1>1, GotoShape DEF Desk!Arrive, Shapes
<1>2. CASE Desk!FindByCache(q)
  <2>1. search' \in [Requests -> Searches]
    BY <1>2, GotoShape, FoundShape DEF Desk!FindByCache, Shapes
  <2> QED
    BY <1>2, <2>1 DEF Desk!FindByCache, Shapes
<1>3. CASE Desk!FindByJid(q)
  <2>1. search' \in [Requests -> Searches] /\ byJid' \in Clients \cup {0}
    BY <1>3, GotoShape, FoundShape DEF Desk!FindByJid, Desk!Cached, Shapes
  <2> QED
    BY <1>3, <2>1 DEF Desk!FindByJid, Shapes
<1>4. CASE Desk!FindByPhone(q)
  <2>1. search' \in [Requests -> Searches]
    BY <1>4, GotoShape, FoundShape DEF Desk!FindByPhone
  <2> QED
    BY <1>4, <2>1 DEF Desk!FindByPhone, Shapes
<1>5. CASE Desk!Create(q)
  <2> DEFINE free == {k \in Clients : client[k].phone = "none"}
             data == (IF Channel[q] = "whatsapp" THEN {"jid"} ELSE {})
                       \cup (IF q \in Sensitive THEN {"health"} ELSE {})
             pc == IF q \in Sensitive THEN "consent" ELSE Desk!Resolved(q)
  <2>1. Desk!Min(free) \in Clients
    BY <1>5, FirstFree DEF Desk!Create
  <2>2. Desk!Known(data, {"recent"}) \in Rows
    BY DEF Desk!Known, Rows, Desk!Data, Desk!Bonds
  <2>3. pc \in {"consent", "ended", "book"}
    BY DEF Desk!Resolved
  <2>4. CASE /\ client' = [client EXCEPT ![Desk!Min(free)] = Desk!Known(data, {"recent"})]
             /\ search' = [search EXCEPT ![q].row = Desk!Min(free), ![q].pc = pc]
             /\ byJid' \in {byJid, Desk!Min(free)}
    <3> HIDE DEF free, data, pc
    <3>1. client' \in [Clients -> Rows]
      BY <2>2, <2>4 DEF Shapes
    <3>2. search' \in [Requests -> Searches]
      <4> DEFINE ended == [search[q] EXCEPT !.row = Desk!Min(free), !.pc = pc]
      <4>1. search \in [Requests -> Searches] /\ search[q] \in Searches
        BY DEF Shapes
      <4>2. ended \in Searches
        BY <2>1, <2>3, <4>1 DEF Searches
      <4>3. search' = [search EXCEPT ![q] = ended]
        BY <2>4, <4>1
      <4> HIDE DEF ended
      <4> QED
        BY <4>1, <4>2, <4>3
    <3>3. byJid' \in Clients \cup {0}
      BY <2>1, <2>4 DEF Shapes
    <3>4. UNCHANGED <<eraser, image>>
      BY <1>5 DEF Desk!Create
    <3> QED
      BY <3>1, <3>2, <3>3, <3>4 DEF Shapes
  <2>5. CASE Desk!Goto(q, "ended") /\ UNCHANGED <<client, byJid>>
    BY <1>5, <2>5, GotoShape DEF Desk!Create, Shapes
  <2> QED
    BY <1>5, <2>4, <2>5 DEF Desk!Create, Desk!Cached
<1>6. CASE Desk!RecordOfNew(q) \/ Desk!EnsureHealthDataConsent(q) \/ Desk!RecordConsent(q)
  <2>1. search' \in [Requests -> Searches]
    BY <1>6, GotoShape DEF Desk!RecordOfNew, Desk!EnsureHealthDataConsent,
      Desk!RecordConsent, Desk!Resolved
  <2> QED
    BY <1>6, <2>1 DEF Desk!RecordOfNew, Desk!EnsureHealthDataConsent, Desk!RecordConsent,
      Shapes
<1>7. CASE Desk!FillMissingFields(q)
  <2> DEFINE k == search[q].row
             data == ({"jid"} \ search[q].seen)
                       \cup (IF q \in Sensitive THEN {"health"} ELSE {})
  <2>1. search' \in [Requests -> Searches]
    BY <1>7, GotoShape DEF Desk!FillMissingFields
  <2>2. data \in SUBSET Desk!Data /\ k \in Clients \cup {0}
    BY DEF Desk!Data, Shapes, Searches
  <2>3. client' = client \/ client' = [client EXCEPT ![k].data = @ \cup data]
    BY <1>7 DEF Desk!FillMissingFields
  <2>4. byJid' = byJid \/ (byJid' = k)
    BY <1>7 DEF Desk!FillMissingFields, Desk!Cached
  <2>5. UNCHANGED <<eraser, image>>
    BY <1>7 DEF Desk!FillMissingFields
  <2> HIDE DEF k, data
  <2>6. client' \in [Clients -> Rows]
    <3>1. {} \in SUBSET Desk!Bonds
      OBVIOUS
    <3> QED
      BY <2>2, <2>3, <3>1, RowWritten DEF Shapes
  <2> QED
    BY <2>1, <2>2, <2>4, <2>5, <2>6 DEF Shapes
<1>8. CASE Desk!Book(q)
  <2> DEFINE k == search[q].row
             bond == client[k].bond \cup {"active", "recent"}
  <2>1. search' \in [Requests -> Searches]
    BY <1>8, GotoShape DEF Desk!Book
  <2>2. client' = client \/ client' = [client EXCEPT ![k].bond = bond]
    BY <1>8 DEF Desk!Book
  <2>3. UNCHANGED <<byJid, eraser, image>>
    BY <1>8 DEF Desk!Book
  <2>4. client' \in [Clients -> Rows]
    <3>1. CASE k \in Clients
      <4>1. bond \in SUBSET Desk!Bonds
        BY <3>1 DEF Shapes, Rows, Desk!Bonds
      <4>2. {} \in SUBSET Desk!Data
        OBVIOUS
      <4> QED
        BY <2>2, <4>1, <4>2, RowWritten DEF Shapes
    <3>2. CASE k \notin Clients
      BY <2>2, <3>2 DEF Shapes
    <3> QED
      BY <3>1, <3>2
  <2> QED
    BY <2>1, <2>3, <2>4 DEF Shapes
<1> QED
  BY <1>1, <1>2, <1>3, <1>4, <1>5, <1>6, <1>7, <1>8 DEF Desk!RequestStep

LEMMA OtherShapes ==
  ASSUME RowsNumbered, Shapes, Desk!Others
  PROVE  Shapes'
<1>1. ASSUME NEW k \in Clients, Desk!Update(k) \/ Desk!SetHairProfile(k)
      PROVE  Shapes'
  <2>1. \E data \in SUBSET Desk!Data : client' = [client EXCEPT ![k].data = @ \cup data]
    BY <1>1 DEF Desk!Update, Desk!SetHairProfile, Desk!Data
  <2>2. client' \in [Clients -> Rows]
    <3>1. {} \in SUBSET Desk!Bonds
      OBVIOUS
    <3> QED
      BY <2>1, <3>1, RowWritten
  <2> QED
    BY <1>1, <2>2 DEF Desk!Update, Desk!SetHairProfile, Shapes
<1>2. ASSUME NEW k \in Clients, Desk!AttachProof(k)
      PROVE  Shapes'
  BY <1>2 DEF Desk!AttachProof, Shapes
<1>3. ASSUME NEW k \in Clients, Desk!EndBooking(k) \/ Desk!EndCredit(k)
      PROVE  Shapes'
  <2>1. client[k].bond \in SUBSET Desk!Bonds
    BY DEF Shapes, Rows
  <2>2. \E bond \in SUBSET Desk!Bonds : client' = [client EXCEPT ![k].bond = bond]
    <3>1. CASE Desk!EndBooking(k)
      <4>1. PICK more \in {{}, {"credit"}} :
              client' = [client EXCEPT ![k].bond = (@ \ {"active"}) \cup more \cup {"recent"}]
        BY <3>1 DEF Desk!EndBooking
      <4>2. (client[k].bond \ {"active"}) \cup more \cup {"recent"} \in SUBSET Desk!Bonds
        BY <2>1 DEF Desk!Bonds
      <4> QED
        BY <4>1, <4>2
    <3>2. CASE Desk!EndCredit(k)
      <4>1. client[k].bond \ {"credit"} \in SUBSET Desk!Bonds
        BY <2>1
      <4> QED
        BY <3>2, <4>1 DEF Desk!EndCredit
    <3> QED
      BY <1>3, <3>1, <3>2
  <2>3. client' \in [Clients -> Rows]
    <3>1. {} \in SUBSET Desk!Data
      OBVIOUS
    <3> QED
      BY <2>2, <3>1, RowWritten
  <2> QED
    BY <1>3, <2>3 DEF Desk!EndBooking, Desk!EndCredit, Shapes
<1>4. CASE Desk!MonthsPass
  <2>1. client' \in [Clients -> Rows]
    <3>1. \A k \in Clients : [client[k] EXCEPT !.bond = @ \ {"recent"}] \in Rows
      BY DEF Shapes, Rows
    <3> QED
      BY <1>4, <3>1 DEF Desk!MonthsPass
  <2> QED
    BY <1>4, <2>1 DEF Desk!MonthsPass, Shapes
<1>5. CASE Desk!Crash
  <2>1. \A q \in Requests : search'[q] \in Searches
    BY <1>5 DEF Desk!Crash, Desk!At, Shapes, Searches
  <2>2. search' \in [Requests -> Searches]
    BY <1>5, <2>1 DEF Desk!Crash
  <2> QED
    BY <1>5, <2>2 DEF Desk!Crash, Shapes, Desk!Idle
<1> QED
  BY <1>1, <1>2, <1>3, <1>4, <1>5 DEF Desk!Others

LEMMA EraserShapes ==
  ASSUME Shapes, Desk!Sweep \/ Desk!EraserStep \/ \E k \in Clients : Desk!Anonymize(k)
  PROVE  Shapes'
<1>1. CASE Desk!Sweep
  BY <1>1 DEF Desk!Sweep, Shapes
<1>6. ASSUME NEW k \in Clients, Desk!Anonymize(k)
      PROVE  Shapes'
  <2>1. eraser' = [pc |-> "row", row |-> k, proof |-> FALSE, queue |-> <<>>]
    BY <1>6 DEF Desk!Anonymize, Desk!Idle
  <2>2. /\ eraser' = [pc |-> eraser'.pc, row |-> eraser'.row, proof |-> eraser'.proof,
                      queue |-> eraser'.queue]
        /\ eraser'.proof \in BOOLEAN
    BY <2>1
  <2> QED
    BY <1>6, <2>2 DEF Desk!Anonymize, Shapes
<1>2. CASE Desk!ReadRow \/ Desk!CountActive \/ Desk!FindCredits
  BY <1>2, QueueShape, StepShape DEF Desk!ReadRow, Desk!CountActive, Desk!FindCredits,
    Shapes
<1>3. CASE Desk!FindProofs
  BY <1>3 DEF Desk!FindProofs, Shapes
<1>4. CASE Desk!Erase
  <2>1. \A k \in Clients : Desk!Erased(client[k]) \in Rows
    BY DEF Desk!Erased, Shapes, Rows
  <2>2. client' \in [Clients -> Rows]
    BY <1>4, <2>1 DEF Desk!Erase, Shapes
  <2>3. image' \in [Clients -> {"none", "shown", "stored", "gone", "lost"}]
    BY <1>4 DEF Desk!Erase, Shapes
  <2> QED
    BY <1>4, <2>2, <2>3, QueueShape, StepShape DEF Desk!Erase, Shapes
<1>5. CASE Desk!DestroyQuietly
  <2>1. image' \in [Clients -> {"none", "shown", "stored", "gone", "lost"}]
    BY <1>5 DEF Desk!DestroyQuietly, Shapes
  <2> QED
    BY <1>5, <2>1, QueueShape DEF Desk!DestroyQuietly, Shapes
<1> QED
  BY <1>1, <1>2, <1>3, <1>4, <1>5, <1>6 DEF Desk!EraserStep

LEMMA NextShapes ==
  ASSUME RowsNumbered, Shapes, [Desk!Next]_(Desk!vars)
  PROVE  Shapes'
<1>1. CASE UNCHANGED Desk!vars
  BY <1>1 DEF Desk!vars, Shapes
<1> QED
  BY <1>1, RequestShapes, OtherShapes, EraserShapes DEF Desk!Next

---------------------------------------------------------------------------
(* Health data and consent                                                 *)

\* The consent of a client whose row is new is on its way, or was lost.
Owed(k) ==
  \E q \in Requests : search[q].row = k /\ search[q].pc \in {"consent", "unrecorded"}

\* It is enough that a step takes back no consent, that health data arrives with one,
\* and that those who owe one still do.
LEMMA ConsentKept ==
  ASSUME Desk!HealthDataHasConsent, consent \subseteq consent',
         \A k \in Clients : "health" \in client'[k].data =>
           "health" \in client[k].data \/ k \in consent' \/ Owed(k)',
         \A q \in Requests : search[q].pc \in {"consent", "unrecorded"} =>
           \/ search'[q].row = search[q].row /\ search'[q].pc \in {"consent", "unrecorded"}
           \/ search[q].row \in consent'
  PROVE  Desk!HealthDataHasConsent'
<1> SUFFICES ASSUME NEW k \in Clients, "health" \in client'[k].data, k \notin consent'
             PROVE  Owed(k)'
  BY DEF Desk!HealthDataHasConsent, Owed
<1>1. CASE Owed(k)'
  BY <1>1
<1>2. CASE "health" \in client[k].data
  <2>1. PICK q \in Requests : search[q].row = k /\ search[q].pc \in {"consent", "unrecorded"}
    BY <1>2 DEF Desk!HealthDataHasConsent
  <2> QED
    BY <2>1 DEF Owed
<1> QED
  BY <1>1, <1>2

\* The step of a request leaves the other requests alone.
LEMMA OneRequest ==
  ASSUME Shapes, NEW q \in Requests, Desk!RequestStep(q)
  PROVE  /\ \A p \in Requests \ {q} : search'[p] = search[p]
         /\ consent \subseteq consent'
<1>1. \A p \in Requests \ {q} : search'[p] = search[p]
  BY DEF Desk!RequestStep, Desk!Arrive, Desk!FindByCache, Desk!FindByJid, Desk!FindByPhone,
    Desk!Create, Desk!RecordOfNew,
    Desk!EnsureHealthDataConsent, Desk!RecordConsent, Desk!FillMissingFields, Desk!Book,
    Desk!Goto, Desk!Found, Shapes
<1>2. consent \subseteq consent'
  BY DEF Desk!RequestStep, Desk!Arrive, Desk!FindByCache, Desk!FindByJid, Desk!FindByPhone,
    Desk!Create, Desk!RecordOfNew,
    Desk!EnsureHealthDataConsent, Desk!RecordConsent, Desk!FillMissingFields, Desk!Book
<1> QED
  BY <1>1, <1>2

LEMMA RequestFills ==
  ASSUME Shapes, Desk!FillsWithConsent, NEW q \in Requests, Desk!RequestStep(q)
  PROVE  Desk!FillsWithConsent'
<1> SUFFICES ASSUME q \in Sensitive, search'[q].pc = "fill"
             PROVE  search'[q].row \in consent'
  BY OneRequest DEF Desk!FillsWithConsent, Desk!At
<1>1. CASE Desk!FindByCache(q) \/ Desk!FindByJid(q) \/ Desk!FindByPhone(q)
  BY <1>1, GotoShape, FoundShape DEF Desk!FindByCache, Desk!FindByJid, Desk!FindByPhone,
    Shapes
<1>2. CASE Desk!EnsureHealthDataConsent(q) \/ Desk!RecordConsent(q)
  BY <1>2, GotoShape DEF Desk!EnsureHealthDataConsent, Desk!RecordConsent
<1>3. CASE Desk!Arrive(q) \/ Desk!RecordOfNew(q) \/ Desk!FillMissingFields(q) \/ Desk!Book(q)
  BY <1>3, GotoShape DEF Desk!Arrive, Desk!RecordOfNew, Desk!FillMissingFields, Desk!Book,
    Desk!Resolved
<1>4. CASE Desk!Create(q)
  <2>1. search'[q].pc \in {"consent", "ended", "book"}
    BY <1>4, GotoShape DEF Desk!Create, Desk!Resolved, Shapes, Searches
  <2> QED
    BY <2>1
<1> QED
  BY <1>1, <1>2, <1>3, <1>4 DEF Desk!RequestStep

LEMMA RequestConsents ==
  ASSUME RowsNumbered, Shapes, Desk!FillsWithConsent, Desk!HealthDataHasConsent,
         NEW q \in Requests, Desk!RequestStep(q)
  PROVE  Desk!HealthDataHasConsent'
<1>1. /\ \A p \in Requests \ {q} : search'[p] = search[p]
      /\ consent \subseteq consent'
  BY OneRequest
<1>2. CASE Desk!Create(q)
  <2> DEFINE free == {k \in Clients : client[k].phone = "none"}
             data == (IF Channel[q] = "whatsapp" THEN {"jid"} ELSE {})
                       \cup (IF q \in Sensitive THEN {"health"} ELSE {})
  <2>1. search[q].pc = "create" /\ Desk!Min(free) \in Clients
    BY <1>2, FirstFree DEF Desk!Create, Desk!At
  <2>2. CASE /\ client' = [client EXCEPT ![Desk!Min(free)] = Desk!Known(data, {"recent"})]
             /\ search' = [search EXCEPT ![q].row = Desk!Min(free),
                  ![q].pc = IF q \in Sensitive THEN "consent" ELSE Desk!Resolved(q)]
    <3>1. PICK new \in Clients :
            /\ client' = [client EXCEPT ![new] = Desk!Known(data, {"recent"})]
            /\ search' = [search EXCEPT ![q].row = new,
                  ![q].pc = IF q \in Sensitive THEN "consent" ELSE Desk!Resolved(q)]
      BY <2>1, <2>2
    <3>2. \A k \in Clients \ {new} : client'[k] = client[k]
      BY <3>1 DEF Shapes
    <3>3. "health" \in client'[new].data => q \in Sensitive
      BY <3>1 DEF Shapes, Desk!Known
    <3>4. q \in Sensitive => search'[q].row = new /\ search'[q].pc = "consent"
      BY <3>1 DEF Shapes, Searches
    <3>5. q \in Sensitive => Owed(new)'
      BY <3>4 DEF Owed
    <3>6. \A k \in Clients : "health" \in client'[k].data =>
            "health" \in client[k].data \/ k \in consent' \/ Owed(k)'
      BY <3>2, <3>3, <3>5
    <3> QED
      BY <1>1, <2>1, <3>6, ConsentKept
  <2>3. CASE client' = client
    BY <1>1, <2>1, <2>3, ConsentKept
  <2> QED
    BY <1>2, <2>2, <2>3 DEF Desk!Create
<1>3. CASE Desk!FillMissingFields(q)
  <2> DEFINE k == search[q].row
             data == ({"jid"} \ search[q].seen)
                       \cup (IF q \in Sensitive THEN {"health"} ELSE {})
  <2>1. /\ search[q].pc = "fill"
        /\ client' = client \/ client' = [client EXCEPT ![k].data = @ \cup data]
    BY <1>3 DEF Desk!FillMissingFields, Desk!At
  <2>2. "health" \in data => k \in consent
    BY <2>1 DEF Desk!FillsWithConsent, Desk!At
  <2>3. \A l \in Clients \ {k} : client'[l] = client[l]
    BY <2>1 DEF Shapes
  <2>4. k \in Clients => client'[k].data \subseteq client[k].data \cup data
    BY <2>1 DEF Shapes, Rows
  <2> HIDE DEF k, data
  <2>5. \A l \in Clients : "health" \in client'[l].data =>
          "health" \in client[l].data \/ l \in consent' \/ Owed(l)'
    BY <1>1, <2>2, <2>3, <2>4
  <2> QED
    BY <1>1, <2>1, <2>5, ConsentKept
<1>4. CASE Desk!Book(q)
  <2>1. \A l \in Clients : client'[l].data = client[l].data
    BY <1>4 DEF Desk!Book, Shapes, Rows
  <2> QED
    BY <1>1, <1>4, <2>1, ConsentKept DEF Desk!Book, Desk!At
<1>5. CASE Desk!RecordOfNew(q)
  <2>1. \/ search[q].row \in consent'
        \/ search'[q].row = search[q].row /\ search'[q].pc = "unrecorded"
    BY <1>5, GotoShape DEF Desk!RecordOfNew
  <2> QED
    BY <1>1, <1>5, <2>1, ConsentKept DEF Desk!RecordOfNew
<1>6. CASE \/ Desk!Arrive(q) \/ Desk!FindByCache(q) \/ Desk!FindByJid(q) \/ Desk!FindByPhone(q)
           \/ Desk!EnsureHealthDataConsent(q) \/ Desk!RecordConsent(q)
  <2>1. search[q].pc \notin {"consent", "unrecorded"} /\ client' = client
    BY <1>6 DEF Desk!Arrive, Desk!FindByCache, Desk!FindByJid, Desk!FindByPhone,
      Desk!EnsureHealthDataConsent,
      Desk!RecordConsent, Desk!At
  <2> QED
    BY <1>1, <2>1, ConsentKept
<1> QED
  BY <1>2, <1>3, <1>4, <1>5, <1>6 DEF Desk!RequestStep

\* Nobody else brings health data without a consent.
LEMMA OthersConsent ==
  ASSUME Shapes, Desk!FillsWithConsent, Desk!HealthDataHasConsent,
         \/ Desk!Others \/ Desk!Sweep \/ Desk!EraserStep \/ \E k \in Clients : Desk!Anonymize(k)
  PROVE  Desk!HealthDataHasConsent' /\ Desk!FillsWithConsent'
<1>1. CASE Desk!Crash
  <2>1. \A q \in Requests :
          /\ search'[q].row = search[q].row /\ search'[q].pc # "fill"
          /\ search[q].pc \in {"consent", "unrecorded"} => search'[q].pc = "unrecorded"
    BY <1>1 DEF Desk!Crash, Desk!At, Shapes, Searches
  <2>2. Desk!HealthDataHasConsent'
    BY <1>1, <2>1, ConsentKept DEF Desk!Crash
  <2>3. Desk!FillsWithConsent'
    BY <2>1 DEF Desk!FillsWithConsent, Desk!At
  <2> QED
    BY <2>2, <2>3
<1>2. CASE ~ Desk!Crash
  <2>1. UNCHANGED <<search, consent>>
    BY <1>2 DEF Desk!Others, Desk!Update, Desk!SetHairProfile, Desk!AttachProof,
      Desk!EndBooking, Desk!EndCredit, Desk!MonthsPass,
      Desk!Sweep, Desk!EraserStep, Desk!ReadRow, Desk!CountActive, Desk!FindCredits,
      Desk!FindProofs, Desk!Erase, Desk!DestroyQuietly,
      Desk!Anonymize
  <2>2. \A l \in Clients : "health" \in client'[l].data =>
          "health" \in client[l].data \/ l \in consent
    <3>1. ASSUME NEW k \in Clients, \/ Desk!Update(k) \/ Desk!SetHairProfile(k)
                                    \/ Desk!AttachProof(k)
                                    \/ Desk!EndBooking(k) \/ Desk!EndCredit(k) \/ Desk!Anonymize(k)
          PROVE  \A l \in Clients : "health" \in client'[l].data =>
                   "health" \in client[l].data \/ l \in consent
      <4>1. client \in [Clients -> Rows]
        BY DEF Shapes
      <4>2. CASE Desk!Update(k)
        BY <4>1, <4>2 DEF Desk!Update, Rows
      <4>3. CASE Desk!SetHairProfile(k)
        BY <4>1, <4>3 DEF Desk!SetHairProfile, Rows
      <4>4. CASE Desk!EndBooking(k) \/ Desk!EndCredit(k)
        BY <4>1, <4>4 DEF Desk!EndBooking, Desk!EndCredit, Rows
      <4>5. CASE Desk!AttachProof(k) \/ Desk!Anonymize(k)
        BY <4>5 DEF Desk!AttachProof, Desk!Anonymize
      <4> QED
        BY <3>1, <4>2, <4>3, <4>4, <4>5
    <3>2. CASE Desk!MonthsPass
      BY <3>2 DEF Desk!MonthsPass, Shapes, Rows
    <3>3. CASE Desk!Erase
      <4>1. PICK k : k = eraser.row
        OBVIOUS
      <4>2. client' = [client EXCEPT ![k] = Desk!Erased(@)] \/ client' = client
        BY <3>3, <4>1 DEF Desk!Erase
      <4>3. \A l \in Clients : client[l] \in Rows
        BY DEF Shapes
      <4>4. \A x \in Rows : Desk!Erased(x).data = {}
        BY DEF Desk!Erased, Rows
      <4>5. ASSUME NEW l \in Clients
            PROVE  client'[l] = client[l] \/ client'[l].data = {}
        <5>1. client'[l] = client[l] \/ client'[l] = Desk!Erased(client[l])
          BY <4>2 DEF Shapes
        <5> QED
          BY <4>3, <4>4, <5>1
      <4> QED
        BY <4>5
    <3>4. CASE Desk!Sweep \/ Desk!ReadRow \/ Desk!CountActive \/ Desk!FindCredits
             \/ Desk!FindProofs \/ Desk!DestroyQuietly
      BY <3>4 DEF Desk!Sweep, Desk!ReadRow, Desk!CountActive, Desk!FindCredits,
        Desk!FindProofs, Desk!DestroyQuietly
    <3> QED
      BY <1>2, <3>1, <3>2, <3>3, <3>4 DEF Desk!Others, Desk!EraserStep
  <2> QED
    BY <2>1, <2>2, ConsentKept DEF Desk!FillsWithConsent, Desk!At
<1> QED
  BY <1>1, <1>2

---------------------------------------------------------------------------
(* Anonymous rows                                                          *)

\* Nothing is left of row k.
Blank(k) ==
  client[k].data = {} /\ client[k].bond \subseteq {"recent"} /\ image[k] # "shown"

\* A step that writes to row k only, and notes it, or that takes from rows.
LEMMA WrittenTo ==
  ASSUME Shapes, Desk!ErasedIsBlank, Desk!FoundUnbound, NEW k, Desk!Reach(k), eraser' = eraser,
         \A l \in Clients \ {k} : client'[l] = client[l] /\ image'[l] = image[l],
         k \in Clients => client'[k].phone = client[k].phone
  PROVE  Desk!ErasedIsBlank' /\ Desk!FoundUnbound'
<1>1. /\ reached \subseteq reached'
      /\ eraser.row = k \/ client[k].phone = "anonymous" => k \in reached'
  BY DEF Desk!Reach
<1>2. Desk!ErasedIsBlank'
  BY <1>1 DEF Desk!ErasedIsBlank
<1>3. Desk!FoundUnbound'
  <2>1. CASE eraser.row = k
    BY <1>1, <2>1 DEF Desk!FoundUnbound
  <2>2. CASE eraser.row # k
    BY <1>1, <2>2 DEF Desk!FoundUnbound
  <2> QED
    BY <2>1, <2>2
<1> QED
  BY <1>2, <1>3

\* A step that leaves the rows, the images and the anonymisation.
LEMMA NothingWritten ==
  ASSUME Desk!ErasedIsBlank, Desk!FoundUnbound, UNCHANGED <<client, image, reached, eraser>>
  PROVE  Desk!ErasedIsBlank' /\ Desk!FoundUnbound'
BY DEF Desk!ErasedIsBlank, Desk!FoundUnbound

\* A step that only takes bonds from rows.
LEMMA BondsTaken ==
  ASSUME Desk!ErasedIsBlank, Desk!FoundUnbound, UNCHANGED <<image, reached, eraser>>,
         \A l \in Clients : /\ client'[l].phone = client[l].phone
                            /\ client'[l].data = client[l].data
                            /\ client'[l].bond \subseteq client[l].bond
  PROVE  Desk!ErasedIsBlank' /\ Desk!FoundUnbound'
<1>1. Desk!ErasedIsBlank'
  BY DEF Desk!ErasedIsBlank
<1>2. Desk!FoundUnbound'
  BY DEF Desk!FoundUnbound
<1> QED
  BY <1>1, <1>2

LEMMA RequestBlanks ==
  ASSUME RowsNumbered, Shapes, Desk!ErasedIsBlank, Desk!FoundUnbound, NEW q \in Requests,
         Desk!RequestStep(q)
  PROVE  Desk!ErasedIsBlank' /\ Desk!FoundUnbound'
<1>1. CASE \/ Desk!Arrive(q) \/ Desk!FindByCache(q) \/ Desk!FindByJid(q) \/ Desk!FindByPhone(q)
            \/ Desk!RecordOfNew(q)
           \/ Desk!EnsureHealthDataConsent(q) \/ Desk!RecordConsent(q)
  BY <1>1, NothingWritten DEF Desk!Arrive, Desk!FindByCache, Desk!FindByJid,
    Desk!FindByPhone, Desk!RecordOfNew,
    Desk!EnsureHealthDataConsent, Desk!RecordConsent
<1>2. CASE Desk!Create(q)
  <2> DEFINE free == {k \in Clients : client[k].phone = "none"}
             data == (IF Channel[q] = "whatsapp" THEN {"jid"} ELSE {})
                       \cup (IF q \in Sensitive THEN {"health"} ELSE {})
  <2>1. Desk!Min(free) \in free
    BY <1>2, FirstFree DEF Desk!Create
  <2>2. UNCHANGED <<eraser, image, reached>>
    BY <1>2 DEF Desk!Create
  <2>3. CASE client' = [client EXCEPT ![Desk!Min(free)] = Desk!Known(data, {"recent"})]
    <3>1. PICK new \in Clients : client' = [client EXCEPT ![new] = Desk!Known(data, {"recent"})]
      BY <2>1, <2>3
    <3>2. /\ \A k \in Clients \ {new} : client'[k] = client[k]
          /\ client'[new].phone = "hers" /\ client'[new].bond = {"recent"}
      BY <3>1 DEF Shapes, Desk!Known
    <3>3. Desk!ErasedIsBlank'
      BY <2>2, <3>2 DEF Desk!ErasedIsBlank
    <3>4. Desk!FoundUnbound'
      BY <2>2, <3>2 DEF Desk!FoundUnbound
    <3> QED
      BY <3>3, <3>4
  <2>4. CASE client' = client
    BY <2>2, <2>4, NothingWritten
  <2> QED
    BY <1>2, <2>3, <2>4 DEF Desk!Create
<1>3. CASE Desk!FillMissingFields(q) \/ Desk!Book(q)
  <2>1. UNCHANGED <<eraser, image>>
    BY <1>3 DEF Desk!FillMissingFields, Desk!Book
  <2>2. CASE UNCHANGED <<client, reached>>
    BY <2>1, <2>2, NothingWritten
  <2>3. CASE \E more : \/ client' = [client EXCEPT ![search[q].row].data = more]
                       \/ client' = [client EXCEPT ![search[q].row].bond = more]
    <3>1. PICK k : k = search[q].row
      OBVIOUS
    <3>2. /\ \A l \in Clients \ {k} : client'[l] = client[l]
          /\ k \in Clients => client'[k].phone = client[k].phone
      BY <2>3, <3>1 DEF Shapes, Rows
    <3>3. CASE Desk!Reach(k)
      BY <2>1, <3>2, <3>3, WrittenTo
    <3> QED
      BY <1>3, <2>1, <3>1, <3>3, NothingWritten DEF Desk!FillMissingFields, Desk!Book
  <2> QED
    BY <1>3, <2>2, <2>3 DEF Desk!FillMissingFields, Desk!Book
<1> QED
  BY <1>1, <1>2, <1>3 DEF Desk!RequestStep

LEMMA OtherBlanks ==
  ASSUME Shapes, Desk!ErasedIsBlank, Desk!FoundUnbound, Desk!Others
  PROVE  Desk!ErasedIsBlank' /\ Desk!FoundUnbound'
<1>1. ASSUME NEW k \in Clients, Desk!Update(k) \/ Desk!SetHairProfile(k) \/ Desk!EndBooking(k)
      PROVE  Desk!ErasedIsBlank' /\ Desk!FoundUnbound'
  <2>1. /\ Desk!Reach(k) /\ UNCHANGED <<eraser, image>>
        /\ \E more : \/ client' = [client EXCEPT ![k].data = more]
                     \/ client' = [client EXCEPT ![k].bond = more]
    BY <1>1 DEF Desk!Update, Desk!SetHairProfile, Desk!EndBooking
  <2>2. /\ \A l \in Clients \ {k} : client'[l] = client[l]
        /\ client'[k].phone = client[k].phone
    BY <2>1 DEF Shapes, Rows
  <2> QED
    BY <2>1, <2>2, WrittenTo
<1>2. ASSUME NEW k \in Clients, Desk!AttachProof(k)
      PROVE  Desk!ErasedIsBlank' /\ Desk!FoundUnbound'
  <2>1. Desk!Reach(k) /\ UNCHANGED <<client, eraser>> /\ image' = [image EXCEPT ![k] = "shown"]
    BY <1>2 DEF Desk!AttachProof
  <2>2. \A l \in Clients \ {k} : image'[l] = image[l]
    BY <2>1 DEF Shapes
  <2> QED
    BY <2>1, <2>2, WrittenTo
<1>3. ASSUME NEW k \in Clients, Desk!EndCredit(k)
      PROVE  Desk!ErasedIsBlank' /\ Desk!FoundUnbound'
  <2>1. \A l \in Clients : /\ client'[l].phone = client[l].phone
                           /\ client'[l].data = client[l].data
                           /\ client'[l].bond \subseteq client[l].bond
    BY <1>3 DEF Desk!EndCredit, Shapes, Rows
  <2> QED
    BY <1>3, <2>1, BondsTaken DEF Desk!EndCredit
<1>4. CASE Desk!MonthsPass
  <2>1. \A l \in Clients : /\ client'[l].phone = client[l].phone
                           /\ client'[l].data = client[l].data
                           /\ client'[l].bond \subseteq client[l].bond
    BY <1>4 DEF Desk!MonthsPass, Shapes, Rows
  <2> QED
    BY <1>4, <2>1, BondsTaken DEF Desk!MonthsPass
<1>5. CASE Desk!Crash
  <2>1. UNCHANGED <<client, image, reached>> /\ eraser'.pc = "idle"
    BY <1>5 DEF Desk!Crash, Desk!Idle
  <2>2. Desk!ErasedIsBlank'
    BY <2>1 DEF Desk!ErasedIsBlank
  <2>3. Desk!FoundUnbound'
    BY <2>1 DEF Desk!FoundUnbound
  <2> QED
    BY <2>2, <2>3
<1> QED
  BY <1>1, <1>2, <1>3, <1>4, <1>5 DEF Desk!Others

LEMMA EraserBlanks ==
  ASSUME Shapes, Desk!ErasedIsBlank, Desk!FoundUnbound,
         Desk!Sweep \/ Desk!EraserStep \/ \E k \in Clients : Desk!Anonymize(k)
  PROVE  Desk!ErasedIsBlank' /\ Desk!FoundUnbound'
<1>1. ASSUME UNCHANGED <<client, image, reached>>,
             eraser'.pc \in {"idle", "row", "active", "destroy"}
      PROVE  Desk!ErasedIsBlank' /\ Desk!FoundUnbound'
  <2>1. Desk!ErasedIsBlank'
    BY <1>1 DEF Desk!ErasedIsBlank
  <2>2. Desk!FoundUnbound'
    BY <1>1 DEF Desk!FoundUnbound
  <2> QED
    BY <2>1, <2>2
<1>2. CASE Desk!Sweep \/ \E k \in Clients : Desk!Anonymize(k)
  <2>1. CASE Desk!Sweep
    <3>1. eraser'.pc = "row"
      BY <2>1 DEF Desk!Sweep
    <3> QED
      BY <1>1, <2>1, <3>1 DEF Desk!Sweep
  <2>2. ASSUME NEW k \in Clients, Desk!Anonymize(k)
        PROVE  Desk!ErasedIsBlank' /\ Desk!FoundUnbound'
    <3>1. eraser'.pc = "row"
      BY <2>2 DEF Desk!Anonymize, Desk!Idle
    <3> QED
      BY <1>1, <2>2, <3>1 DEF Desk!Anonymize
  <2> QED
    BY <1>2, <2>1, <2>2
<1>3. CASE Desk!ReadRow
  <2>1. eraser'.pc \in {"idle", "row", "active"}
    BY <1>3, QueueShape, StepShape DEF Desk!ReadRow
  <2> QED
    BY <1>1, <1>3, <2>1 DEF Desk!ReadRow
<1>4. CASE Desk!CountActive \/ Desk!FindCredits
  <2>1. UNCHANGED <<client, image, reached>>
    BY <1>4 DEF Desk!CountActive, Desk!FindCredits
  <2>2. CASE Desk!Proceed
    BY <1>1, <2>1, <2>2, QueueShape
  <2>3. CASE /\ eraser.pc = "active" /\ "active" \notin client[eraser.row].bond
             /\ Desk!Step("credits")
    <3>1. eraser'.pc = "credits" /\ eraser'.row = eraser.row
      BY <2>3, StepShape
    <3>2. Desk!FoundUnbound'
      BY <2>1, <2>3, <3>1 DEF Desk!FoundUnbound
    <3> QED
      BY <2>1, <3>2 DEF Desk!ErasedIsBlank
  <2>4. CASE /\ eraser.pc = "credits" /\ "credit" \notin client[eraser.row].bond
             /\ Desk!Step("proofs")
    <3>1. eraser'.pc = "proofs" /\ eraser'.row = eraser.row
      BY <2>4, StepShape
    <3>2. Desk!FoundUnbound'
      BY <2>1, <2>4, <3>1 DEF Desk!FoundUnbound
    <3> QED
      BY <2>1, <3>2 DEF Desk!ErasedIsBlank
  <2> QED
    BY <1>4, <2>2, <2>3, <2>4 DEF Desk!CountActive, Desk!FindCredits
<1>5. CASE Desk!FindProofs
  <2>1. /\ UNCHANGED <<client, image, reached>> /\ eraser.pc = "proofs"
        /\ eraser'.pc = "erase" /\ eraser'.row = eraser.row
        /\ image[eraser.row] = "shown" => eraser'.proof
    BY <1>5 DEF Desk!FindProofs, Shapes
  <2>2. Desk!FoundUnbound'
    BY <2>1 DEF Desk!FoundUnbound
  <2> QED
    BY <2>1, <2>2 DEF Desk!ErasedIsBlank
<1>6. CASE Desk!Erase
  <2>1. CASE Desk!Proceed /\ UNCHANGED <<client, image>>
    BY <1>1, <1>6, <2>1, QueueShape DEF Desk!Erase
  <2>2. CASE /\ client' = [client EXCEPT ![eraser.row] = Desk!Erased(@)]
             /\ image' = IF eraser.proof THEN [image EXCEPT ![eraser.row] = "stored"] ELSE image
             /\ Desk!Step("destroy")
    <3>1. PICK k : k = eraser.row
      OBVIOUS
    <3>2. \A l \in Clients \ {k} : client'[l] = client[l] /\ image'[l] = image[l]
      BY <2>2, <3>1 DEF Shapes
    <3>3. ASSUME k \in Clients \ reached
          PROVE  Blank(k)'
      <4>1. client[k].bond \subseteq {"recent"}
        BY <1>6, <3>1, <3>3 DEF Desk!Erase, Desk!FoundUnbound, Shapes, Rows, Desk!Bonds
      <4>2. client'[k].data = {} /\ client'[k].bond = client[k].bond
        BY <2>2, <3>1, <3>3 DEF Desk!Erased, Shapes, Rows
      <4>3. image'[k] # "shown"
        BY <1>6, <2>2, <3>1, <3>3 DEF Desk!Erase, Desk!FoundUnbound, Shapes
      <4> QED
        BY <4>1, <4>2, <4>3 DEF Blank
    <3>4. reached' = reached /\ eraser'.pc = "destroy"
      BY <1>6, <2>2, StepShape DEF Desk!Erase
    <3>5. Desk!ErasedIsBlank'
      BY <3>2, <3>3, <3>4 DEF Desk!ErasedIsBlank, Blank
    <3>6. Desk!FoundUnbound'
      BY <3>4 DEF Desk!FoundUnbound
    <3> QED
      BY <3>5, <3>6
  <2> QED
    BY <1>6, <2>1, <2>2 DEF Desk!Erase
<1>7. CASE Desk!DestroyQuietly
  <2>1. /\ UNCHANGED <<client, reached>> /\ eraser'.pc \in {"idle", "row"}
        /\ \A l \in Clients : image'[l] \in {image[l], "gone"}
    BY <1>7, QueueShape DEF Desk!DestroyQuietly, Shapes
  <2>2. Desk!ErasedIsBlank'
    BY <2>1 DEF Desk!ErasedIsBlank
  <2>3. Desk!FoundUnbound'
    BY <2>1 DEF Desk!FoundUnbound
  <2> QED
    BY <2>2, <2>3
<1> QED
  BY <1>2, <1>3, <1>4, <1>5, <1>6, <1>7 DEF Desk!EraserStep

LEMMA NextPrivacy ==
  ASSUME RowsNumbered, Shapes, Desk!Privacy, [Desk!Next]_(Desk!vars)
  PROVE  Desk!Privacy'
<1>1. CASE UNCHANGED Desk!vars
  BY <1>1 DEF Desk!vars, Desk!Privacy, Desk!HealthDataHasConsent, Desk!FillsWithConsent,
    Desk!ErasedIsBlank, Desk!FoundUnbound, Desk!At
<1>2. ASSUME NEW q \in Requests, Desk!RequestStep(q)
      PROVE  Desk!Privacy'
  BY <1>2, RequestConsents, RequestFills, RequestBlanks DEF Desk!Privacy
<1>3. CASE Desk!Others \/ Desk!Sweep \/ Desk!EraserStep \/ \E k \in Clients : Desk!Anonymize(k)
  BY <1>3, OthersConsent, OtherBlanks, EraserBlanks DEF Desk!Privacy
<1> QED
  BY <1>1, <1>2, <1>3 DEF Desk!Next

\* From rows of which none is anonymous, whatever requests, bookings, credits and proofs
\* of payment cross the anonymisations of administrators and sweeps, and wherever these
\* stop: health data is kept of nobody who did not consent.
THEOREM HealthDataStaysConsented ==
  ASSUME RowsNumbered,
         NEW rows \in [Clients -> FirstRows], NEW images \in [Clients -> FirstImages]
  PROVE  Desk!StartWith(rows, images) /\ [][Desk!Next]_(Desk!vars) => []Desk!HealthDataHasConsent
<1>1. Desk!StartWith(rows, images) => Shapes /\ Desk!Privacy
  BY StartHolds
<1>2. Shapes /\ Desk!Privacy /\ [Desk!Next]_(Desk!vars) => Shapes' /\ Desk!Privacy'
  BY NextShapes, NextPrivacy
<1>3. Desk!Privacy => Desk!HealthDataHasConsent
  BY DEF Desk!Privacy
<1> QED
  BY <1>1, <1>2, <1>3, PTL

\* And of a client who was made anonymous nothing is left, unless somebody wrote to her
\* row after it began.
THEOREM AnonymousIsBlank ==
  ASSUME RowsNumbered,
         NEW rows \in [Clients -> FirstRows], NEW images \in [Clients -> FirstImages]
  PROVE  Desk!StartWith(rows, images) /\ [][Desk!Next]_(Desk!vars) => []Desk!ErasedIsBlank
<1>1. Desk!StartWith(rows, images) => Shapes /\ Desk!Privacy
  BY StartHolds
<1>2. Shapes /\ Desk!Privacy /\ [Desk!Next]_(Desk!vars) => Shapes' /\ Desk!Privacy'
  BY NextShapes, NextPrivacy
<1>3. Desk!Privacy => Desk!ErasedIsBlank
  BY DEF Desk!Privacy
<1> QED
  BY <1>1, <1>2, <1>3, PTL

-----------------------------------------------------------------------------
(* What the bot does for her                                               *)

CONSTANTS
  Calls, Phones, Known, Profiles, OwnerOf, Appointments, Requested, Recipients, MaxErasures,
  MaxFailures

VARIABLES row, booked, tool, notice, erasures, mishaps

Chat == INSTANCE Conversation WITH Rows <- Profiles, Bookings <- Appointments

LEMMA ServedTells ==
  Chat!Served => /\ Chat!OnlyHerOwn /\ Chat!ToldOnlyHerOwn /\ Chat!WithheldOnlyOnErasure
                 /\ Chat!PromiseIsKept /\ Chat!OneRowPerNumber
<1>1. ASSUME Chat!Served, NEW c \in Calls, tool[c].pc = "done"
      PROVE  /\ Chat!TellsHers(c, tool[c])
             /\ tool[c].error = "CONTACT_DATA_BLOCKED" => erasures > 0
  BY <1>1 DEF Chat!Served, Chat!Serves
<1> QED
  BY <1>1 DEF Chat!Served, Chat!TellsHers, Chat!ToldOnlyHerOwn, Chat!WithheldOnlyOnErasure,
    Chat!PromiseIsKept

LEMMA NewRow ==
  ASSUME NEW phone \in Phones, NEW by \in Calls \cup {""}
  PROVE  /\ Chat!Row(phone, by) \in Chat!ClientRecord
         /\ Chat!Row(phone, by).phone = phone /\ Chat!Row(phone, by).number = phone
         /\ Chat!Row(phone, by).by = by /\ Chat!Row(phone, by).touchedFor = {}
BY DEF Chat!Row, Chat!ClientRecord

LEMMA ServedInit == ASSUME Chat!ChatBounds, Chat!Init PROVE Chat!Served
<1>1. /\ row = [k \in DOMAIN Known |-> Chat!Row(Known[k], "")]
      /\ booked = [b \in DOMAIN OwnerOf |->
           [row |-> OwnerOf[b], status |-> "live", movedFor |-> {}]]
      /\ erasures = 0
  BY DEF Chat!Init
<1>2. DOMAIN row = DOMAIN Known /\ DOMAIN booked = DOMAIN OwnerOf
  BY <1>1
<1>3. ASSUME NEW k \in DOMAIN Known
      PROVE  /\ row[k] \in Chat!ClientRecord
             /\ row[k].phone = Known[k] /\ row[k].number = Known[k] /\ row[k].touchedFor = {}
  <2>1. PICK phone \in Phones : phone = Known[k]
    BY DEF Chat!ChatBounds
  <2>2. row[k] = Chat!Row(phone, "")
    BY <1>1, <2>1
  <2>3. /\ Chat!Row(phone, "") \in Chat!ClientRecord
        /\ Chat!Row(phone, "").phone = phone /\ Chat!Row(phone, "").number = phone
        /\ Chat!Row(phone, "").touchedFor = {}
    BY NewRow
  <2> QED
    BY <2>1, <2>2, <2>3
<1>4. ASSUME NEW b \in DOMAIN OwnerOf
      PROVE  /\ booked[b] \in Chat!BookingRecord /\ booked[b].row \in DOMAIN row
             /\ booked[b].movedFor = {}
  <2>1. booked[b] = [row |-> OwnerOf[b], status |-> "live", movedFor |-> {}]
    BY <1>1
  <2>2. OwnerOf[b] \in DOMAIN Known /\ OwnerOf[b] \in Profiles
    BY DEF Chat!ChatBounds
  <2> QED
    BY <1>2, <2>1, <2>2 DEF Chat!BookingRecord
<1>5. row \in [DOMAIN row -> Chat!ClientRecord] /\ booked \in [DOMAIN booked -> Chat!BookingRecord]
  BY <1>1, <1>2, <1>3, <1>4
<1>6. Chat!RowsAndBookings
  <2>1. DOMAIN row \subseteq Profiles
    BY <1>2 DEF Chat!ChatBounds
  <2>2. \A k \in DOMAIN row : row[k].phone = row[k].number
    BY <1>2, <1>3
  <2>3. \A b \in DOMAIN booked : booked[b].row \in DOMAIN row
    BY <1>2, <1>4
  <2>4. erasures = 0 /\ erasures \in Nat
    BY <1>1
  <2> QED
    BY <1>5, <2>1, <2>2, <2>3, <2>4 DEF Chat!RowsAndBookings
<1>7. Chat!OnlyHerOwn
  BY <1>2, <1>3, <1>4 DEF Chat!OnlyHerOwn
<1>8. Chat!OneRowPerNumber
  BY <1>2, <1>3 DEF Chat!OneRowPerNumber, Chat!ChatBounds
<1>9. \A c \in Calls : Chat!Serves(c, tool[c])
  BY DEF Chat!Init, Chat!Idle, Chat!Serves
<1> QED
  BY <1>6, <1>7, <1>8, <1>9 DEF Chat!Served, Chat!Init

\* The row that is found is of the number, and it is the only one.
LEMMA RowFound ==
  ASSUME Chat!ChatBounds, Chat!Served, NEW phone
  PROVE  /\ \/ Chat!RowOf(phone) = Chat!NoRow
            \/ Chat!RowOf(phone) \in DOMAIN row /\ row[Chat!RowOf(phone)].phone = phone
         /\ Chat!RowOf(phone) = Chat!NoRow => \A k \in DOMAIN row : row[k].phone # phone
         /\ phone # Chat!Gone => \A k \in DOMAIN row : row[k].phone = phone => Chat!RowOf(phone) = k
<1> DEFINE its == {k \in DOMAIN row : row[k].phone = phone}
<1>1. Chat!NoRow \notin DOMAIN row
  BY DEF Chat!ChatBounds, Chat!Served, Chat!RowsAndBookings
<1>2. Chat!RowOf(phone) = IF its = {} THEN Chat!NoRow ELSE CHOOSE k \in its : TRUE
  BY DEF Chat!RowOf
<1>3. its # {} => Chat!RowOf(phone) \in its
  BY <1>2
<1>4. phone # Chat!Gone => \A j, k \in its : j = k
  BY DEF Chat!Served, Chat!OneRowPerNumber
<1> QED
  BY <1>1, <1>2, <1>3, <1>4

LEMMA FoundIsHers ==
  ASSUME Chat!ChatBounds, Chat!Served, NEW phone, phone # Chat!Gone, Chat!RowOf(phone) # Chat!NoRow
  PROVE  Chat!RowOf(phone) \in DOMAIN row /\ Chat!BelongsTo(Chat!RowOf(phone), phone)
BY RowFound DEF Chat!Served, Chat!RowsAndBookings, Chat!BelongsTo

\* What stays while rows and bookings are added and clients are anonymised.
Grows ==
  /\ DOMAIN row \subseteq DOMAIN row'
  /\ \A k \in DOMAIN row : row'[k].number = row[k].number /\ row'[k].by = row[k].by
  /\ DOMAIN booked \subseteq DOMAIN booked'
  /\ \A b \in DOMAIN booked : booked'[b].row = booked[b].row
  /\ notice \subseteq notice' /\ erasures' >= erasures

LEMMA GoesOnServing ==
  ASSUME Chat!Served, Grows, Chat!RowsAndBookings', NEW c \in Calls, NEW f, Chat!Serves(c, f)
  PROVE  Chat!Serves(c, f)'
<1>1. \A b \in DOMAIN booked : booked[b].row \in DOMAIN row
  BY DEF Chat!Served, Chat!RowsAndBookings
<1>2. ASSUME f.pc = "act"
      PROVE  Chat!IsHers(f)'
  BY <1>1, <1>2 DEF Chat!Serves, Chat!IsAsked, Chat!IsHers, Chat!BelongsTo, Grows, Chat!Trusted
<1>3. ASSUME f.pc \in {"find", "act"}
      PROVE  Chat!IsAsked(f)'
  BY <1>3 DEF Chat!Serves, Chat!IsAsked, Grows, Chat!Trusted
<1>4. ASSUME f.pc \in {"guard", "done"}
      PROVE  Chat!TellsHers(c, f)'
  BY <1>4 DEF Chat!Serves, Chat!TellsHers, Grows, Chat!BelongsTo, Chat!Trusted
<1>5. ASSUME f.pc = "guard"
      PROVE  Chat!BooksHers(f)'
  BY <1>1, <1>5 DEF Chat!Serves, Chat!BooksHers, Grows, Chat!BelongsTo, Chat!Trusted
<1>6. erasures > 0 => erasures' > 0
  BY DEF Grows, Chat!Served, Chat!RowsAndBookings
<1> QED
  BY <1>2, <1>3, <1>4, <1>5, <1>6 DEF Chat!Serves

\* A step of one request.
LEMMA OneServes ==
  ASSUME Chat!Served, Grows, Chat!RowsAndBookings', Chat!OnlyHerOwn', Chat!OneRowPerNumber',
         NEW c \in Calls, NEW f, tool' = [tool EXCEPT ![c] = f], Chat!Serves(c, f)'
  PROVE  Chat!Served'
<1>1. /\ tool' = [d \in Calls |-> tool'[d]]
      /\ \A d \in Calls : tool'[d] = IF d = c THEN f ELSE tool[d]
  BY DEF Chat!Served
<1>2. ASSUME NEW d \in Calls
      PROVE  Chat!Serves(d, tool[d])'
  <2>1. CASE d = c
    <3>1. tool'[d] = f
      BY <1>1, <2>1
    <3> QED
      BY <2>1, <3>1 DEF Chat!Serves, Chat!IsAsked, Chat!IsHers, Chat!TellsHers, Chat!BooksHers,
        Chat!BelongsTo, Chat!Trusted
  <2>2. CASE d # c
    <3>1. PICK g : g = tool[d]
      OBVIOUS
    <3>2. Chat!Serves(d, g)'
      BY <3>1, GoesOnServing DEF Chat!Served
    <3>3. tool'[d] = g
      BY <1>1, <2>2, <3>1
    <3> QED
      BY <3>2, <3>3 DEF Chat!Serves, Chat!IsAsked, Chat!IsHers, Chat!TellsHers, Chat!BooksHers,
        Chat!BelongsTo, Chat!Trusted
  <2> QED
    BY <2>1, <2>2
<1> QED
  BY <1>1, <1>2 DEF Chat!Served

LEMMA RowsStay ==
  ASSUME Chat!Served, UNCHANGED <<row, booked, erasures>>
  PROVE  /\ Chat!RowsAndBookings' /\ Chat!OnlyHerOwn' /\ Chat!OneRowPerNumber'
         /\ notice \subseteq notice' => Grows
BY DEF Chat!Served, Chat!RowsAndBookings, Chat!OnlyHerOwn, Chat!OneRowPerNumber, Chat!BelongsTo,
  Grows

\* A request arrives: the verified number takes the place of the one that was written.
LEMMA ArriveServes ==
  ASSUME Chat!ChatBounds, Chat!Served, NEW c \in Calls, Chat!Arrive(c)
  PROVE  Chat!Served'
<1>1. UNCHANGED <<row, booked, notice, erasures>>
  BY DEF Chat!Arrive
<1>2. PICK name \in Requested, contact \in Chat!Contacts, written \in Phones :
        \E b \in IF name \in {"cancel", "reschedule"} THEN DOMAIN booked ELSE {0} :
          LET f == [pc |-> "find", tool |-> name, contact |-> contact,
                    phone |-> Chat!PhoneOf(contact, written), booking |-> b]
          IN  tool' = [tool EXCEPT ![c] =
                IF Chat!Refuses(contact, name) = "" THEN f
                ELSE Chat!Answered(f, {}, Chat!Refuses(contact, name))]
  BY DEF Chat!Arrive
<1>3. PICK b \in IF name \in {"cancel", "reschedule"} THEN DOMAIN booked ELSE {0} :
        LET f == [pc |-> "find", tool |-> name, contact |-> contact,
                  phone |-> Chat!PhoneOf(contact, written), booking |-> b]
        IN  tool' = [tool EXCEPT ![c] =
              IF Chat!Refuses(contact, name) = "" THEN f
              ELSE Chat!Answered(f, {}, Chat!Refuses(contact, name))]
  BY <1>2
<1> DEFINE f == [pc |-> "find", tool |-> name, contact |-> contact,
                 phone |-> Chat!PhoneOf(contact, written), booking |-> b]
           g == IF Chat!Refuses(contact, name) = "" THEN f
                ELSE Chat!Answered(f, {}, Chat!Refuses(contact, name))
<1>4. tool' = [tool EXCEPT ![c] = g]
  BY <1>3
<1>5. Chat!Refuses(contact, name) # "CONTACT_DATA_BLOCKED"
  BY DEF Chat!Refuses
<1>6. contact.phone # Chat!NoPhone => contact.phone \in Phones
  BY DEF Chat!Contacts
<1>7. Chat!Refuses(contact, name) = "" /\ name \in Chat!Verified => contact.phone # Chat!NoPhone
  <2> SUFFICES ASSUME name \in Chat!Verified, contact.phone = Chat!NoPhone
               PROVE  Chat!Refuses(contact, name) # ""
    OBVIOUS
  <2>1. name \notin Chat!Public /\ contact.lid \in BOOLEAN
    BY DEF Chat!Verified, Chat!Public, Chat!Contacts
  <2> QED
    BY <2>1 DEF Chat!Refuses
<1>8. Chat!Serves(c, g)'
  <2>1. CASE Chat!Refuses(contact, name) = ""
    <3>1. g = f /\ f.phone \in Phones /\ (contact.phone # Chat!NoPhone => f.phone = contact.phone)
      BY <1>6, <2>1 DEF Chat!PhoneOf
    <3>2. name \in {"cancel", "reschedule"} => b \in DOMAIN booked'
      BY <1>1
    <3> QED
      BY <1>7, <2>1, <3>1, <3>2 DEF Chat!Serves, Chat!IsAsked, Chat!Trusted
  <2>2. CASE Chat!Refuses(contact, name) # ""
    <3>1. /\ g.pc = "done" /\ g.rows = {} /\ g.error # "CONTACT_DATA_BLOCKED" /\ g.notified = FALSE
          /\ g.contact = contact
      BY <1>5, <2>2 DEF Chat!Answered
    <3> HIDE DEF g
    <3> QED
      BY <3>1 DEF Chat!Serves, Chat!TellsHers
  <2> QED
    BY <2>1, <2>2
<1> HIDE DEF g
<1>9. Chat!RowsAndBookings' /\ Chat!OnlyHerOwn' /\ Chat!OneRowPerNumber' /\ Grows
  BY <1>1, RowsStay
<1> QED
  BY <1>4, <1>8, <1>9, OneServes

LEMMA AnsweredServes ==
  ASSUME Chat!Served, UNCHANGED <<row, booked, notice, erasures>>, NEW c \in Calls,
         NEW f, f.contact \in Chat!Contacts, NEW error, error # "CONTACT_DATA_BLOCKED",
         tool' = [tool EXCEPT ![c] = Chat!Answered(f, {}, error)]
  PROVE  Chat!Served'
<1> DEFINE g == Chat!Answered(f, {}, error)
<1>1. /\ g.pc = "done" /\ g.rows = {} /\ g.error # "CONTACT_DATA_BLOCKED" /\ g.notified = FALSE
      /\ g.contact \in Chat!Contacts
  BY DEF Chat!Answered
<1> HIDE DEF g
<1>2. Chat!Serves(c, g)'
  BY <1>1 DEF Chat!Serves, Chat!TellsHers
<1>3. Chat!RowsAndBookings' /\ Chat!OnlyHerOwn' /\ Chat!OneRowPerNumber' /\ Grows
  BY RowsStay
<1>4. tool' = [tool EXCEPT ![c] = g]
  BY DEF g
<1> QED
  BY <1>2, <1>3, <1>4, OneServes

\* What is found is of the number that the tool works with.
LEMMA FindServes ==
  ASSUME Chat!ChatBounds, Chat!Served, NEW c \in Calls, Chat!Find(c)
  PROVE  Chat!Served'
<1>1. PICK f : f = tool[c]
  OBVIOUS
<1>2. PICK k : k = IF f.tool \in {"cancel", "reschedule"} THEN booked[f.booking].row
                   ELSE Chat!RowOf(Chat!LookUp(f))
  OBVIOUS
<1>3. UNCHANGED <<row, booked, notice, erasures>> /\ f.pc = "find"
  BY <1>1 DEF Chat!Find
<1>4. Chat!IsAsked(f) /\ Chat!Serves(c, f)
  BY <1>1, <1>3 DEF Chat!Served, Chat!Serves
<1>12. PICK its : its = Chat!Upcoming(k)
  OBVIOUS
<1> DEFINE reads == [pc |-> "guard", tool |-> f.tool, contact |-> f.contact, notified |-> FALSE,
                     rows |-> IF f.tool = "catalogue" THEN {} ELSE {k} \ {Chat!NoRow},
                     bookings |-> IF f.tool = "upcoming" THEN its ELSE {}]
           acts == [pc |-> "act", tool |-> f.tool, contact |-> f.contact, phone |-> f.phone,
                    booking |-> f.booking, row |-> k]
<1>5. tool' = [tool EXCEPT ![c] =
        IF Chat!Found(f, k) # "" THEN Chat!Answered(f, {}, Chat!Found(f, k))
        ELSE IF f.tool \in Chat!ReadOnly THEN reads ELSE acts]
  BY <1>1, <1>2, <1>12 DEF Chat!Find
<1> HIDE DEF reads, acts
<1>6. CASE Chat!Found(f, k) # ""
  <2>1. Chat!Found(f, k) # "CONTACT_DATA_BLOCKED"
    BY DEF Chat!Found
  <2> QED
    BY <1>3, <1>4, <1>5, <1>6, <2>1, AnsweredServes DEF Chat!IsAsked
<1>7. Chat!RowsAndBookings' /\ Chat!OnlyHerOwn' /\ Chat!OneRowPerNumber' /\ Grows
  BY <1>3, RowsStay
<1>8. f.phone # Chat!Gone /\ f.phone # Chat!NoPhone /\ f.contact.phone # Chat!Gone
  BY <1>4 DEF Chat!IsAsked, Chat!Contacts, Chat!ChatBounds, Chat!NoPhone, Chat!Gone
<1>9. \A b \in DOMAIN booked : booked[b].row \in DOMAIN row
  BY DEF Chat!Served, Chat!RowsAndBookings
<1>10. CASE Chat!Found(f, k) = "" /\ f.tool \in Chat!ReadOnly
  <2>1. f.tool \in {"me", "upcoming", "catalogue"} /\ f.tool \notin {"cancel", "reschedule"}
    BY <1>10 DEF Chat!ReadOnly
  <2>2. k = Chat!RowOf(Chat!LookUp(f))
    BY <1>2, <2>1
  <2>3. f.tool # "catalogue" => Chat!LookUp(f) = f.contact.phone
    BY <1>4, <2>1 DEF Chat!LookUp, Chat!IsAsked, Chat!Verified
  <2>4. f.tool # "catalogue" /\ k # Chat!NoRow =>
          k \in DOMAIN row /\ Chat!BelongsTo(k, f.contact.phone)
    BY <1>8, <2>2, <2>3, FoundIsHers
  <2>5. f.contact.phone = Chat!NoPhone => Chat!RowOf(f.contact.phone) = Chat!NoRow
    <3>1. ASSUME NEW j \in DOMAIN row
          PROVE  row[j].phone # Chat!NoPhone
      <4>1. row[j] \in Chat!ClientRecord
        BY DEF Chat!Served, Chat!RowsAndBookings
      <4>2. row[j].phone \in Phones \cup {Chat!Gone}
        BY <4>1 DEF Chat!ClientRecord
      <4>3. Chat!NoPhone \notin Phones /\ Chat!NoPhone # Chat!Gone
        BY DEF Chat!ChatBounds, Chat!NoPhone, Chat!Gone
      <4> QED
        BY <4>2, <4>3
    <3>2. CASE Chat!RowOf(Chat!NoPhone) = Chat!NoRow
      BY <3>2
    <3>3. CASE Chat!RowOf(Chat!NoPhone) \in DOMAIN row
                 /\ row[Chat!RowOf(Chat!NoPhone)].phone = Chat!NoPhone
      BY <3>1, <3>3
    <3>4. \/ Chat!RowOf(Chat!NoPhone) = Chat!NoRow
          \/ /\ Chat!RowOf(Chat!NoPhone) \in DOMAIN row
             /\ row[Chat!RowOf(Chat!NoPhone)].phone = Chat!NoPhone
      BY RowFound
    <3> QED
      BY <3>2, <3>3, <3>4
  <2>6. f.tool # "catalogue" /\ ~Chat!Trusted(f) => k = Chat!NoRow
    BY <2>2, <2>3, <2>5 DEF Chat!Trusted
  <2>7. /\ reads.pc = "guard" /\ reads.tool = f.tool /\ reads.contact = f.contact
        /\ reads.notified = FALSE
        /\ reads.rows = (IF f.tool = "catalogue" THEN {} ELSE {k} \ {Chat!NoRow})
        /\ reads.bookings = (IF f.tool = "upcoming" THEN its ELSE {})
    BY DEF reads
  <2>8. Chat!TellsHers(c, reads)'
    BY <1>3, <2>4, <2>6, <2>7 DEF Chat!TellsHers, Chat!Trusted, Chat!BelongsTo
  <2>9. Chat!BooksHers(reads)'
    <3>1. \A b \in reads.bookings : b \in DOMAIN booked /\ booked[b].row = k /\ f.tool = "upcoming"
      BY <1>12, <2>7 DEF Chat!Upcoming
    <3>2. \A b \in reads.bookings : k \in DOMAIN row /\ k # Chat!NoRow
      BY <1>9, <3>1 DEF Chat!Served, Chat!RowsAndBookings, Chat!ChatBounds
    <3>3. \A b \in reads.bookings :
            b \in DOMAIN booked /\ Chat!BelongsTo(booked[b].row, f.contact.phone)
      BY <2>4, <3>1, <3>2
    <3> QED
      BY <1>3, <2>7, <3>3 DEF Chat!BooksHers, Chat!Trusted, Chat!BelongsTo
  <2>10. Chat!Serves(c, reads)'
    BY <1>4, <2>7, <2>8, <2>9 DEF Chat!Serves, Chat!IsAsked
  <2>11. tool' = [tool EXCEPT ![c] = reads]
    BY <1>5, <1>10
  <2> QED
    BY <1>7, <2>10, <2>11, OneServes
<1>11. CASE Chat!Found(f, k) = "" /\ f.tool \notin Chat!ReadOnly
  <2>1. tool' = [tool EXCEPT ![c] = acts]
    BY <1>5, <1>11
  <2>2. /\ acts.pc = "act" /\ acts.tool = f.tool /\ acts.contact = f.contact
        /\ acts.phone = f.phone /\ acts.booking = f.booking /\ acts.row = k
    BY DEF acts
  <2>3. Chat!IsAsked(acts)'
    BY <1>3, <1>4, <2>2 DEF Chat!IsAsked, Chat!Trusted
  <2>4. Chat!IsHers(acts)'
    <3>1. CASE f.tool \in {"cancel", "reschedule"}
      <4>1. Chat!Owns(f) /\ f.booking \in DOMAIN booked
        BY <1>4, <1>11, <3>1 DEF Chat!Found, Chat!IsAsked
      <4>2. Chat!BelongsTo(booked[f.booking].row, f.phone)
        BY <1>8, <1>9, <4>1 DEF Chat!Owns, Chat!Owner, Chat!BelongsTo, Chat!Served,
          Chat!RowsAndBookings
      <4> QED
        BY <1>3, <2>2, <3>1, <4>2 DEF Chat!IsHers, Chat!BelongsTo
    <3>2. CASE f.tool \notin {"cancel", "reschedule"}
      <4>1. k = Chat!RowOf(f.phone)
        BY <1>2, <1>11, <3>2 DEF Chat!LookUp, Chat!ReadOnly
      <4>2. k # Chat!NoRow => k \in DOMAIN row /\ Chat!BelongsTo(k, f.phone)
        BY <1>8, <4>1, FoundIsHers
      <4>3. f.tool = "register" /\ k # Chat!NoRow => Chat!Trusted(f)
        BY <1>11 DEF Chat!Found
      <4> QED
        BY <1>3, <2>2, <3>2, <4>2, <4>3 DEF Chat!IsHers, Chat!BelongsTo, Chat!Trusted
    <3> QED
      BY <3>1, <3>2
  <2>5. Chat!Serves(c, acts)'
    BY <2>2, <2>3, <2>4 DEF Chat!Serves
  <2> QED
    BY <1>7, <2>1, <2>5, OneServes
<1> QED
  BY <1>6, <1>10, <1>11

-----------------------------------------------------------------------------
(* What the tools do *)

LEMMA FirstProfileFree == ASSUME Chat!ChatBounds, Chat!Served, DOMAIN row # Profiles
                   PROVE  Chat!NextRow \in Profiles \ DOMAIN row
<1> DEFINE R == OpToRel(<, Nat)
           free == Profiles \ DOMAIN row
<1>1. IsWellFoundedOn(R, Nat)
  BY NatLessThanWellFounded, Zenon
<1>2. free \subseteq Nat /\ free # {}
  BY DEF Chat!ChatBounds, Chat!Served, Chat!RowsAndBookings
<1> HIDE DEF R
<1>3. PICK k \in free : \A j \in free : ~(<<j, k>> \in R)
  BY <1>1, <1>2, WFMin
<1>4. \A j \in free : ~(j < k)
  BY <1>2, <1>3 DEF R, OpToRel
<1>5. \A j \in free : k <= j
  BY <1>2, <1>4
<1> QED
  BY <1>5 DEF Chat!NextRow

\* What holds of the rows, and what stays of them.
RowsHold ==
  /\ DOMAIN row \subseteq Profiles /\ row \in [DOMAIN row -> Chat!ClientRecord]
  /\ \A k \in DOMAIN row : row[k].phone \in {row[k].number, Chat!Gone}
  /\ erasures = 0 => \A k \in DOMAIN row : row[k].phone = row[k].number
  /\ \A k \in DOMAIN row : \A p \in row[k].touchedFor : p # Chat!NoPhone /\ row[k].number = p
  /\ Chat!OneRowPerNumber

RowsGrow ==
  /\ DOMAIN row \subseteq DOMAIN row'
  /\ \A k \in DOMAIN row : row'[k].number = row[k].number /\ row'[k].by = row[k].by

LEMMA ProfilesMove ==
  ASSUME Chat!Served, RowsHold', RowsGrow, UNCHANGED <<booked, notice>>, erasures' \in Nat,
         erasures' >= erasures
  PROVE  Chat!RowsAndBookings' /\ Chat!OnlyHerOwn' /\ Chat!OneRowPerNumber' /\ Grows
<1>1. \A b \in DOMAIN booked : booked[b].row \in DOMAIN row
  BY DEF Chat!Served, Chat!RowsAndBookings
<1>2. Chat!RowsAndBookings'
  BY <1>1 DEF Chat!Served, Chat!RowsAndBookings, RowsHold, RowsGrow
<1>3. Chat!OnlyHerOwn'
  <2>1. ASSUME NEW b \in DOMAIN booked, NEW q \in booked[b].movedFor
        PROVE  q # Chat!NoPhone /\ row'[booked[b].row].number = q
    BY <1>1, <2>1 DEF Chat!Served, Chat!OnlyHerOwn, Chat!BelongsTo, RowsGrow
  <2> QED
    BY <2>1 DEF RowsHold, Chat!OnlyHerOwn, Chat!BelongsTo
<1>4. Grows
  BY DEF Grows, RowsGrow
<1> QED
  BY <1>2, <1>3, <1>4 DEF RowsHold

\* A profile is changed by a trusted request of its client.
LEMMA ChangeKeeps ==
  ASSUME Chat!ChatBounds, Chat!Served, NEW f, f.contact \in Chat!Contacts, Chat!Trusted(f),
         NEW k \in DOMAIN row, Chat!BelongsTo(k, f.contact.phone), Chat!Changes(f, k),
         UNCHANGED erasures
  PROVE  RowsHold' /\ RowsGrow
<1> DEFINE p == f.contact.phone
<1>1. row \in [DOMAIN row -> Chat!ClientRecord] /\ row' = [row EXCEPT ![k].touchedFor = @ \cup {p}]
  BY DEF Chat!Served, Chat!RowsAndBookings, Chat!Changes
<1>2. p \in Phones /\ p # Chat!NoPhone /\ row[k].number = p
  BY DEF Chat!Contacts, Chat!Trusted, Chat!BelongsTo
<1>3. /\ DOMAIN row' = DOMAIN row /\ row' \in [DOMAIN row -> Chat!ClientRecord]
      /\ \A j \in DOMAIN row : /\ row'[j].phone = row[j].phone /\ row'[j].number = row[j].number
                               /\ row'[j].by = row[j].by
                               /\ row'[j].touchedFor \subseteq row[j].touchedFor
                                    \cup (IF j = k THEN {p} ELSE {})
  BY <1>1, <1>2 DEF Chat!ClientRecord
<1>4. ASSUME NEW j \in DOMAIN row, NEW q \in row'[j].touchedFor
      PROVE  q # Chat!NoPhone /\ row'[j].number = q
  <2>1. q \in row[j].touchedFor \/ (j = k /\ q = p)
    BY <1>3, <1>4
  <2>2. q \in row[j].touchedFor => q # Chat!NoPhone /\ row[j].number = q
    BY DEF Chat!Served, Chat!OnlyHerOwn, Chat!BelongsTo
  <2> QED
    BY <1>2, <1>3, <2>1, <2>2
<1>5. Chat!OneRowPerNumber'
  BY <1>3 DEF Chat!Served, Chat!OneRowPerNumber
<1> QED
  BY <1>3, <1>4, <1>5 DEF RowsHold, RowsGrow, Chat!Served, Chat!RowsAndBookings

\* A row that is made is the first of its number, and nobody has written to it.
LEMMA MadeKeeps ==
  ASSUME Chat!ChatBounds, Chat!Served, NEW c \in Calls, NEW f, f.phone \in Phones,
         Chat!RowOf(f.phone) = Chat!NoRow, DOMAIN row # Profiles, Chat!MakeRow(c, f),
         UNCHANGED erasures
  PROVE  /\ RowsHold' /\ RowsGrow
         /\ Chat!NextRow \in DOMAIN row' /\ row'[Chat!NextRow].number = f.phone
         /\ row'[Chat!NextRow].by = c
<1>1. PICK new \in Profiles \ DOMAIN row : new = Chat!NextRow
  BY FirstProfileFree
<1>2. row' = [k \in DOMAIN row \cup {new} |-> IF k = new THEN Chat!Row(f.phone, c) ELSE row[k]]
  BY <1>1 DEF Chat!MakeRow
<1>3. /\ DOMAIN row' = DOMAIN row \cup {new} /\ row'[new] = Chat!Row(f.phone, c)
      /\ \A k \in DOMAIN row : row'[k] = row[k]
      /\ row' = [k \in DOMAIN row' |-> row'[k]]
  BY <1>1, <1>2
<1>4. /\ row'[new] \in Chat!ClientRecord
      /\ row'[new].phone = f.phone /\ row'[new].number = f.phone /\ row'[new].by = c
      /\ row'[new].touchedFor = {}
  <2>1. PICK made : made = Chat!Row(f.phone, c)
    OBVIOUS
  <2>2. /\ made \in Chat!ClientRecord /\ made.phone = f.phone /\ made.number = f.phone
        /\ made.by = c /\ made.touchedFor = {}
    BY <2>1, NewRow
  <2>3. row'[new] = made
    BY <1>3, <2>1
  <2> QED
    BY <2>2, <2>3
<1>5. \A k \in DOMAIN row : row[k].phone # f.phone
  BY RowFound
<1>6. \A k \in DOMAIN row' : /\ row'[k] \in Chat!ClientRecord
                             /\ row'[k].phone \in {row'[k].number, Chat!Gone}
                             /\ erasures' = 0 => row'[k].phone = row'[k].number
  BY <1>3, <1>4 DEF Chat!Served, Chat!RowsAndBookings
<1>7. ASSUME NEW k \in DOMAIN row', NEW q \in row'[k].touchedFor
      PROVE  q # Chat!NoPhone /\ row'[k].number = q
  BY <1>3, <1>4, <1>7 DEF Chat!Served, Chat!OnlyHerOwn, Chat!BelongsTo
<1>8. Chat!OneRowPerNumber'
  BY <1>3, <1>4, <1>5 DEF Chat!Served, Chat!OneRowPerNumber
<1>9. DOMAIN row' \subseteq Profiles /\ RowsGrow
  BY <1>3 DEF Chat!Served, Chat!RowsAndBookings, RowsGrow
<1>10. row' \in [DOMAIN row' -> Chat!ClientRecord]
  BY <1>3, <1>6
<1> QED
  BY <1>1, <1>3, <1>4, <1>6, <1>7, <1>8, <1>9, <1>10 DEF RowsHold

\* An answer about a row and a booking of the client.
LEMMA GuardedServes ==
  ASSUME Chat!Served, Grows, Chat!RowsAndBookings', Chat!OnlyHerOwn', Chat!OneRowPerNumber',
         NEW c \in Calls, NEW f, f.contact \in Chat!Contacts, NEW rows, NEW bookings, NEW notified,
         rows \subseteq DOMAIN row', bookings \subseteq DOMAIN booked',
         \A k \in rows : IF Chat!Trusted(f) THEN row'[k].number = f.contact.phone
                         ELSE f.tool = "book" \/ row'[k].by = c,
         Chat!Trusted(f) => \A b \in bookings : row'[booked'[b].row].number = f.contact.phone,
         notified => \E r \in Recipients : <<c, r>> \in notice',
         tool' = [tool EXCEPT ![c] = Chat!Guarded(f, rows, bookings, notified)]
  PROVE  Chat!Served'
<1> DEFINE g == Chat!Guarded(f, rows, bookings, notified)
<1>1. /\ g.pc = "guard" /\ g.tool = f.tool /\ g.contact = f.contact /\ g.rows = rows
      /\ g.bookings = bookings /\ g.notified = notified
  BY DEF Chat!Guarded
<1>2. tool' = [tool EXCEPT ![c] = g]
  OBVIOUS
<1> HIDE DEF g
<1>3. Chat!TellsHers(c, g)'
  BY <1>1 DEF Chat!TellsHers, Chat!Trusted, Chat!BelongsTo
<1>4. Chat!BooksHers(g)'
  BY <1>1 DEF Chat!BooksHers, Chat!Trusted, Chat!BelongsTo
<1>5. Chat!Serves(c, g)'
  BY <1>1, <1>3, <1>4 DEF Chat!Serves
<1> QED
  BY <1>2, <1>5, OneServes

LEMMA Acting ==
  ASSUME Chat!Served, NEW c \in Calls, NEW f, f = tool[c], f.pc = "act"
  PROVE  Chat!IsAsked(f) /\ Chat!IsHers(f)
BY DEF Chat!Served, Chat!Serves

LEMMA WriteServes ==
  ASSUME Chat!ChatBounds, Chat!Served, NEW c \in Calls, Chat!Write(c)
  PROVE  Chat!Served'
<1>1. PICK f : f = tool[c]
  OBVIOUS
<1>2. /\ f.pc = "act" /\ f.tool \in {"register", "update"} /\ f.row # Chat!NoRow
      /\ Chat!Changes(f, f.row) /\ tool' = [tool EXCEPT ![c] = Chat!Guarded(f, {f.row}, {}, FALSE)]
      /\ UNCHANGED <<booked, notice, erasures>>
  BY <1>1 DEF Chat!Write
<1>3. Chat!IsAsked(f) /\ Chat!IsHers(f)
  BY <1>1, <1>2, Acting
<1>4. /\ f.contact \in Chat!Contacts /\ Chat!Trusted(f) /\ f.phone = f.contact.phone
      /\ f.row \in DOMAIN row /\ Chat!BelongsTo(f.row, f.contact.phone)
  BY <1>2, <1>3 DEF Chat!IsAsked, Chat!IsHers, Chat!Verified
<1>5. Chat!RowsAndBookings' /\ Chat!OnlyHerOwn' /\ Chat!OneRowPerNumber' /\ Grows
  BY <1>2, <1>4, ChangeKeeps, ProfilesMove DEF Chat!Served, Chat!RowsAndBookings
<1>6. f.row \in DOMAIN row' /\ row'[f.row].number = f.contact.phone
  BY <1>4, <1>5 DEF Grows, Chat!BelongsTo
<1>7. PICK rows, bookings, notified : rows = {f.row} /\ bookings = {} /\ notified = FALSE
  OBVIOUS
<1>8. /\ rows \subseteq DOMAIN row' /\ bookings \subseteq DOMAIN booked'
      /\ \A k \in rows : IF Chat!Trusted(f) THEN row'[k].number = f.contact.phone
                         ELSE f.tool = "book" \/ row'[k].by = c
      /\ Chat!Trusted(f) => \A b \in bookings : row'[booked'[b].row].number = f.contact.phone
      /\ notified => \E r \in Recipients : <<c, r>> \in notice'
  BY <1>4, <1>6, <1>7
<1>9. tool' = [tool EXCEPT ![c] = Chat!Guarded(f, rows, bookings, notified)]
  BY <1>2, <1>7
<1> QED
  BY <1>4, <1>5, <1>8, <1>9, GuardedServes

LEMMA RegisterServes ==
  ASSUME Chat!ChatBounds, Chat!Served, NEW c \in Calls, Chat!Register(c)
  PROVE  Chat!Served'
<1>1. PICK f : f = tool[c]
  OBVIOUS
<1>2. f.pc = "act" /\ UNCHANGED <<booked, notice, erasures>>
  BY <1>1 DEF Chat!Register, Chat!Fails
<1>3. Chat!IsAsked(f)
  BY <1>1, <1>2, Acting
<1>4. CASE Chat!Fails(c, f, "CONFLICT")
  BY <1>3, <1>4, AnsweredServes DEF Chat!Fails, Chat!IsAsked
<1>5. CASE /\ Chat!RowOf(f.phone) = Chat!NoRow /\ DOMAIN row # Profiles /\ Chat!MakeRow(c, f)
           /\ tool' = [tool EXCEPT ![c] = Chat!Guarded(f, {Chat!NextRow}, {}, FALSE)]
  <2>1. /\ Chat!RowsAndBookings' /\ Chat!OnlyHerOwn' /\ Chat!OneRowPerNumber' /\ Grows
        /\ Chat!NextRow \in DOMAIN row' /\ row'[Chat!NextRow].number = f.phone
        /\ row'[Chat!NextRow].by = c
    BY <1>2, <1>3, <1>5, MadeKeeps, ProfilesMove DEF Chat!IsAsked, Chat!Served, Chat!RowsAndBookings
  <2>2. PICK new : new = Chat!NextRow
    OBVIOUS
  <2>3. PICK rows, bookings, notified : rows = {new} /\ bookings = {} /\ notified = FALSE
    OBVIOUS
  <2>4. /\ rows \subseteq DOMAIN row' /\ bookings \subseteq DOMAIN booked'
        /\ \A k \in rows : IF Chat!Trusted(f) THEN row'[k].number = f.contact.phone
                           ELSE f.tool = "book" \/ row'[k].by = c
        /\ Chat!Trusted(f) => \A b \in bookings : row'[booked'[b].row].number = f.contact.phone
        /\ notified => \E r \in Recipients : <<c, r>> \in notice'
    BY <1>3, <2>1, <2>2, <2>3 DEF Chat!IsAsked
  <2>5. tool' = [tool EXCEPT ![c] = Chat!Guarded(f, rows, bookings, notified)]
    BY <1>5, <2>2, <2>3
  <2>6. f.contact \in Chat!Contacts
    BY <1>3 DEF Chat!IsAsked
  <2> QED
    BY <2>1, <2>4, <2>5, <2>6, GuardedServes
<1> QED
  BY <1>1, <1>4, <1>5 DEF Chat!Register

LEMMA BookServes ==
  ASSUME Chat!ChatBounds, Chat!Served, NEW c \in Calls, Chat!Book(c)
  PROVE  Chat!Served'
<1>1. PICK f : f = tool[c]
  OBVIOUS
<1>2. f.pc = "act" /\ f.tool = "book" /\ UNCHANGED <<notice, erasures>>
  BY <1>1 DEF Chat!Book, Chat!Fails
<1>3. Chat!IsAsked(f) /\ Chat!IsHers(f)
  BY <1>1, <1>2, Acting
<1>4. ASSUME NEW error \in {"PLACEMENT_NO_SLOT_THAT_DAY", "CONFLICT"}, Chat!Fails(c, f, error)
      PROVE  Chat!Served'
  BY <1>3, <1>4, AnsweredServes DEF Chat!Fails, Chat!IsAsked
<1> DEFINE Booked(b) ==
      LET k == IF f.row = Chat!NoRow THEN Chat!NextRow ELSE f.row IN
      /\ \A o \in Chat!FreeBookings : b <= o
      /\ f.row = Chat!NoRow => Chat!RowOf(f.phone) = Chat!NoRow /\ DOMAIN row # Profiles
      /\ IF f.row = Chat!NoRow THEN Chat!MakeRow(c, f)
         ELSE IF Chat!Fills(f) THEN Chat!Changes(f, k) ELSE UNCHANGED row
      /\ booked' = [o \in DOMAIN booked \cup {b} |->
           IF o = b THEN [row |-> k, status |-> "live", movedFor |-> {}] ELSE booked[o]]
      /\ tool' = [tool EXCEPT ![c] = Chat!Guarded(f, {k}, {b}, FALSE)]
      /\ UNCHANGED <<notice, erasures, mishaps>>
<1>5. CASE \E b \in Chat!FreeBookings : Booked(b)
  <2>1. PICK k : k = IF f.row = Chat!NoRow THEN Chat!NextRow ELSE f.row
    OBVIOUS
  <2>2. PICK b \in Chat!FreeBookings :
          /\ f.row = Chat!NoRow => Chat!RowOf(f.phone) = Chat!NoRow /\ DOMAIN row # Profiles
          /\ IF f.row = Chat!NoRow THEN Chat!MakeRow(c, f)
             ELSE IF Chat!Fills(f) THEN Chat!Changes(f, k) ELSE UNCHANGED row
          /\ booked' = [o \in DOMAIN booked \cup {b} |->
               IF o = b THEN [row |-> k, status |-> "live", movedFor |-> {}] ELSE booked[o]]
          /\ tool' = [tool EXCEPT ![c] = Chat!Guarded(f, {k}, {b}, FALSE)]
    BY <1>5, <2>1
  <2>3. RowsHold' /\ RowsGrow /\ k \in DOMAIN row' /\ row'[k].number = f.phone
    <3>1. CASE f.row = Chat!NoRow
      BY <1>2, <1>3, <2>1, <2>2, <3>1, MadeKeeps DEF Chat!IsAsked
    <3>2. CASE f.row # Chat!NoRow
      <4>1. k = f.row /\ k \in DOMAIN row /\ Chat!BelongsTo(k, f.phone)
        BY <1>2, <1>3, <2>1, <3>2 DEF Chat!IsHers
      <4>2. CASE Chat!Fills(f)
        <5>1. Chat!Trusted(f) /\ Chat!BelongsTo(k, f.contact.phone) /\ Chat!Changes(f, k)
          BY <1>3, <2>2, <3>2, <4>1, <4>2 DEF Chat!Fills, Chat!IsAsked
        <5>2. RowsHold' /\ RowsGrow
          BY <1>2, <1>3, <4>1, <5>1, ChangeKeeps DEF Chat!IsAsked
        <5> QED
          BY <4>1, <5>2 DEF RowsGrow, Chat!BelongsTo
      <4>3. CASE ~Chat!Fills(f)
        <5>1. UNCHANGED row
          BY <2>2, <3>2, <4>3
        <5> QED
          BY <1>2, <4>1, <5>1 DEF RowsHold, RowsGrow, Chat!BelongsTo, Chat!Served,
            Chat!RowsAndBookings,
             Chat!OnlyHerOwn, Chat!OneRowPerNumber
      <4> QED
        BY <4>2, <4>3
    <3> QED
      BY <3>1, <3>2
  <2>4. k \in Profiles /\ b \notin DOMAIN booked
    BY <2>3 DEF RowsHold, Chat!FreeBookings
  <2>5. /\ DOMAIN booked' = DOMAIN booked \cup {b}
        /\ booked' = [o \in DOMAIN booked' |-> booked'[o]]
        /\ booked'[b] = [row |-> k, status |-> "live", movedFor |-> {}]
        /\ \A o \in DOMAIN booked : booked'[o] = booked[o]
    BY <2>2, <2>4
  <2>6. booked'[b] \in Chat!BookingRecord /\ booked'[b].row = k /\ booked'[b].movedFor = {}
    BY <2>4, <2>5 DEF Chat!BookingRecord
  <2>7. \A o \in DOMAIN booked' :
          booked'[o] \in Chat!BookingRecord /\ booked'[o].row \in DOMAIN row'
    BY <2>3, <2>5, <2>6 DEF Chat!Served, Chat!RowsAndBookings, RowsGrow
  <2>8. Chat!RowsAndBookings'
    BY <1>2, <2>3, <2>5, <2>7 DEF Chat!Served, Chat!RowsAndBookings, RowsHold
  <2>9. Chat!OnlyHerOwn'
    <3>1. ASSUME NEW o \in DOMAIN booked', NEW q \in booked'[o].movedFor
          PROVE  q # Chat!NoPhone /\ row'[booked'[o].row].number = q
      <4>1. o \in DOMAIN booked /\ booked'[o] = booked[o]
        BY <2>5, <2>6, <3>1
      <4> QED
        BY <2>3, <3>1, <4>1 DEF Chat!Served, Chat!OnlyHerOwn, Chat!BelongsTo, RowsGrow,
          Chat!RowsAndBookings
    <3> QED
      BY <2>3, <3>1 DEF RowsHold, Chat!OnlyHerOwn, Chat!BelongsTo
  <2>10. Grows
    BY <1>2, <2>3, <2>5 DEF Grows, RowsGrow, Chat!Served, Chat!RowsAndBookings
  <2>11. PICK rows, bookings, notified : rows = {k} /\ bookings = {b} /\ notified = FALSE
    OBVIOUS
  <2>12. /\ rows \subseteq DOMAIN row' /\ bookings \subseteq DOMAIN booked'
         /\ \A j \in rows : IF Chat!Trusted(f) THEN row'[j].number = f.contact.phone
                            ELSE f.tool = "book" \/ row'[j].by = c
         /\ Chat!Trusted(f) => \A o \in bookings : row'[booked'[o].row].number = f.contact.phone
         /\ notified => \E r \in Recipients : <<c, r>> \in notice'
    BY <1>2, <1>3, <2>3, <2>5, <2>6, <2>11 DEF Chat!IsAsked
  <2>13. tool' = [tool EXCEPT ![c] = Chat!Guarded(f, rows, bookings, notified)]
    BY <2>2, <2>11
  <2>14. Chat!OneRowPerNumber' /\ f.contact \in Chat!Contacts
    BY <1>3, <2>3 DEF RowsHold, Chat!IsAsked
  <2> QED
    BY <2>8, <2>9, <2>10, <2>12, <2>13, <2>14, GuardedServes
<1>6. \/ Chat!Fails(c, f, "PLACEMENT_NO_SLOT_THAT_DAY")
      \/ Chat!Fails(c, f, "CONFLICT")
      \/ \E b \in Chat!FreeBookings : Booked(b)
  BY <1>1, Zenon DEF Chat!Book
<1> HIDE DEF Booked
<1> QED
  BY <1>4, <1>5, <1>6

LEMMA ChangeServes ==
  ASSUME Chat!ChatBounds, Chat!Served, NEW c \in Calls, Chat!Change(c)
  PROVE  Chat!Served'
<1>1. PICK f : f = tool[c]
  OBVIOUS
<1>2. /\ f.pc = "act" /\ f.tool \in {"cancel", "reschedule"}
      /\ UNCHANGED <<row, notice, erasures>>
  BY <1>1 DEF Chat!Change, Chat!Fails
<1>3. Chat!IsAsked(f) /\ Chat!IsHers(f)
  BY <1>1, <1>2, Acting
<1>4. CASE Chat!Fails(c, f, "CONFLICT")
  BY <1>3, <1>4, AnsweredServes DEF Chat!Fails, Chat!IsAsked
<1> DEFINE p == f.contact.phone
<1>5. CASE /\ booked' = [booked EXCEPT
                ![f.booking].status = IF f.tool = "cancel" THEN "cancelled" ELSE @,
                ![f.booking].movedFor = @ \cup {p}]
           /\ tool' = [tool EXCEPT
                ![c] = Chat!Guarded(f, {booked[f.booking].row}, {f.booking}, FALSE)]
  <2>1. PICK b \in DOMAIN booked : b = f.booking
    BY <1>2, <1>3 DEF Chat!IsAsked
  <2>2. PICK k \in DOMAIN row : k = booked[b].row
    BY DEF Chat!Served, Chat!RowsAndBookings
  <2>3. /\ p # Chat!NoPhone /\ p \in Phones /\ f.phone = p /\ row[k].number = p
        /\ f.contact \in Chat!Contacts
    BY <1>2, <1>3, <2>1, <2>2 DEF Chat!IsAsked, Chat!IsHers, Chat!Verified, Chat!Trusted,
      Chat!Contacts, Chat!BelongsTo
  <2>4. booked \in [DOMAIN booked -> Chat!BookingRecord]
    BY DEF Chat!Served, Chat!RowsAndBookings
  <2>5. /\ DOMAIN booked' = DOMAIN booked /\ booked' \in [DOMAIN booked -> Chat!BookingRecord]
        /\ \A o \in DOMAIN booked :
             /\ booked'[o].row = booked[o].row
             /\ booked'[o].movedFor \subseteq booked[o].movedFor \cup (IF o = b THEN {p} ELSE {})
    BY <1>5, <2>1, <2>3, <2>4 DEF Chat!BookingRecord
  <2>6. Chat!RowsAndBookings' /\ Chat!OneRowPerNumber' /\ Grows
    BY <1>2, <2>5 DEF Chat!Served, Chat!RowsAndBookings, Chat!OneRowPerNumber, Grows
  <2>7. Chat!OnlyHerOwn'
    <3>1. ASSUME NEW o \in DOMAIN booked, NEW q \in booked'[o].movedFor
          PROVE  q # Chat!NoPhone /\ row[booked[o].row].number = q
      <4>1. q \in booked[o].movedFor \/ (o = b /\ q = p)
        BY <2>5, <3>1
      <4>2. q \in booked[o].movedFor => q # Chat!NoPhone /\ row[booked[o].row].number = q
        BY DEF Chat!Served, Chat!OnlyHerOwn, Chat!BelongsTo
      <4> QED
        BY <2>2, <2>3, <4>1, <4>2
    <3>2. \A j \in DOMAIN row : \A q \in row[j].touchedFor : q # Chat!NoPhone /\ row[j].number = q
      BY DEF Chat!Served, Chat!OnlyHerOwn, Chat!BelongsTo
    <3> QED
      BY <1>2, <2>5, <3>1, <3>2 DEF Chat!OnlyHerOwn, Chat!BelongsTo
  <2>8. PICK rows, bookings, notified : rows = {k} /\ bookings = {b} /\ notified = FALSE
    OBVIOUS
  <2>9. /\ rows \subseteq DOMAIN row' /\ bookings \subseteq DOMAIN booked'
        /\ \A j \in rows : IF Chat!Trusted(f) THEN row'[j].number = f.contact.phone
                           ELSE f.tool = "book" \/ row'[j].by = c
        /\ Chat!Trusted(f) => \A o \in bookings : row'[booked'[o].row].number = f.contact.phone
        /\ notified => \E r \in Recipients : <<c, r>> \in notice'
    BY <1>2, <2>2, <2>3, <2>5, <2>8 DEF Chat!Trusted
  <2>10. tool' = [tool EXCEPT ![c] = Chat!Guarded(f, rows, bookings, notified)]
    BY <1>5, <2>1, <2>2, <2>8
  <2> QED
    BY <2>3, <2>6, <2>7, <2>9, <2>10, GuardedServes
<1> QED
  BY <1>1, <1>4, <1>5 DEF Chat!Change

LEMMA HandoffServes ==
  ASSUME Chat!ChatBounds, Chat!Served, NEW c \in Calls, Chat!Handoff(c)
  PROVE  Chat!Served'
<1>1. PICK f : f = tool[c]
  OBVIOUS
<1>2. f.pc = "act" /\ UNCHANGED <<row, booked, erasures>>
  BY <1>1 DEF Chat!Handoff
<1>3. PICK active \in SUBSET Recipients, queued \in SUBSET Recipients :
        /\ notice' = notice \cup {<<c, r>> : r \in queued}
        /\ tool' = [tool EXCEPT ![c] = Chat!Guarded(f, {}, {}, Chat!Notified(queued, active))]
  BY <1>1 DEF Chat!Handoff
<1>4. Chat!IsAsked(f)
  BY <1>1, <1>2, Acting
<1>5. Chat!RowsAndBookings' /\ Chat!OnlyHerOwn' /\ Chat!OneRowPerNumber' /\ Grows
  BY <1>2, <1>3, RowsStay
<1>6. Chat!Notified(queued, active) => \E r \in Recipients : <<c, r>> \in notice'
  BY <1>3 DEF Chat!Notified
<1>7. PICK rows, bookings, notified :
        rows = {} /\ bookings = {} /\ notified = Chat!Notified(queued, active)
  OBVIOUS
<1>8. /\ rows \subseteq DOMAIN row' /\ bookings \subseteq DOMAIN booked'
      /\ \A k \in rows : IF Chat!Trusted(f) THEN row'[k].number = f.contact.phone
                         ELSE f.tool = "book" \/ row'[k].by = c
      /\ Chat!Trusted(f) => \A b \in bookings : row'[booked'[b].row].number = f.contact.phone
      /\ notified => \E r \in Recipients : <<c, r>> \in notice'
  BY <1>6, <1>7
<1>9. tool' = [tool EXCEPT ![c] = Chat!Guarded(f, rows, bookings, notified)]
  BY <1>3, <1>7
<1>10. f.contact \in Chat!Contacts
  BY <1>4 DEF Chat!IsAsked
<1> QED
  BY <1>5, <1>8, <1>9, <1>10, GuardedServes

\* What was hers when it was read is so when it is compared, unless she was anonymised.
LEMMA GuardServes ==
  ASSUME Chat!ChatBounds, Chat!Served, NEW c \in Calls, Chat!Guard(c)
  PROVE  Chat!Served'
<1>1. PICK f : f = tool[c]
  OBVIOUS
<1>2. f.pc = "guard" /\ UNCHANGED <<row, booked, notice, erasures>>
  BY <1>1 DEF Chat!Guard
<1>3. f.contact \in Chat!Contacts /\ Chat!TellsHers(c, f) /\ Chat!BooksHers(f)
  BY <1>1, <1>2 DEF Chat!Served, Chat!Serves
<1>4. PICK withheld \in BOOLEAN :
        withheld <=> Chat!Trusted(f) /\ f.tool \notin Chat!Public /\ Chat!Foreign(f) # {}
  OBVIOUS
<1> DEFINE g == IF withheld THEN Chat!Answered(f, {}, "CONTACT_DATA_BLOCKED")
                ELSE [Chat!Answered(f, f.rows, "") EXCEPT !.notified = f.notified]
<1>5. tool' = [tool EXCEPT ![c] = g]
  BY <1>1, <1>4 DEF Chat!Guard
<1>6. withheld => erasures > 0
  <2> SUFFICES ASSUME Chat!Trusted(f), erasures = 0
               PROVE  Chat!Foreign(f) = {}
    BY <1>4 DEF Chat!Served, Chat!RowsAndBookings
  <2>1. f.contact.phone # Chat!Gone
    BY <1>3 DEF Chat!Contacts, Chat!ChatBounds, Chat!NoPhone, Chat!Gone
  <2>2. \A k \in DOMAIN row : Chat!BelongsTo(k, f.contact.phone) => k = Chat!RowOf(f.contact.phone)
    BY <2>1, RowFound DEF Chat!BelongsTo, Chat!Served, Chat!RowsAndBookings
  <2>3. \A k \in f.rows : k = Chat!RowOf(f.contact.phone)
    BY <1>3, <2>2 DEF Chat!TellsHers
  <2>4. \A b \in f.bookings : booked[b].row = Chat!RowOf(f.contact.phone)
    BY <1>3, <2>2 DEF Chat!BooksHers, Chat!Served, Chat!RowsAndBookings
  <2> QED
    BY <2>3, <2>4 DEF Chat!Foreign
<1>7. /\ g.pc = "done" /\ g.contact = f.contact /\ g.tool = f.tool
      /\ g.error = (IF withheld THEN "CONTACT_DATA_BLOCKED" ELSE "")
      /\ g.rows = (IF withheld THEN {} ELSE f.rows)
      /\ g.notified = (IF withheld THEN FALSE ELSE f.notified)
  BY DEF Chat!Answered
<1> HIDE DEF g
<1>8. Chat!TellsHers(c, g)'
  BY <1>2, <1>3, <1>7 DEF Chat!TellsHers, Chat!Trusted, Chat!BelongsTo
<1>9. Chat!Serves(c, g)'
  BY <1>2, <1>3, <1>6, <1>7, <1>8 DEF Chat!Serves
<1>10. Chat!RowsAndBookings' /\ Chat!OnlyHerOwn' /\ Chat!OneRowPerNumber' /\ Grows
  BY <1>2, RowsStay
<1> QED
  BY <1>5, <1>9, <1>10, OneServes

LEMMA AnonymiseServes ==
  ASSUME Chat!ChatBounds, Chat!Served, NEW k \in DOMAIN row, Chat!Anonymise(k)
  PROVE  Chat!Served'
<1>1. /\ erasures' = erasures + 1 /\ row' = [row EXCEPT ![k].phone = Chat!Gone]
      /\ UNCHANGED <<booked, tool, notice>>
  BY DEF Chat!Anonymise
<1>2. erasures \in Nat /\ row \in [DOMAIN row -> Chat!ClientRecord]
  BY DEF Chat!Served, Chat!RowsAndBookings
<1>3. /\ DOMAIN row' = DOMAIN row /\ row' \in [DOMAIN row -> Chat!ClientRecord]
      /\ \A j \in DOMAIN row : /\ row'[j].phone = IF j = k THEN Chat!Gone ELSE row[j].phone
                               /\ row'[j].number = row[j].number /\ row'[j].by = row[j].by
                               /\ row'[j].touchedFor = row[j].touchedFor
  BY <1>1, <1>2 DEF Chat!ClientRecord
<1>4. RowsHold' /\ RowsGrow
  BY <1>1, <1>2, <1>3 DEF RowsHold, RowsGrow, Chat!Served, Chat!RowsAndBookings, Chat!OnlyHerOwn,
    Chat!BelongsTo,
     Chat!OneRowPerNumber
<1>5. Chat!RowsAndBookings' /\ Chat!OnlyHerOwn' /\ Chat!OneRowPerNumber' /\ Grows
  BY <1>1, <1>2, <1>4, ProfilesMove
<1>6. ASSUME NEW c \in Calls
      PROVE  Chat!Serves(c, tool[c])'
  <2>1. PICK f : f = tool[c]
    OBVIOUS
  <2>2. Chat!Serves(c, f)' /\ tool'[c] = f
    BY <1>1, <1>5, <2>1, GoesOnServing DEF Chat!Served
  <2> QED
    BY <2>2 DEF Chat!Serves, Chat!IsAsked, Chat!IsHers, Chat!TellsHers, Chat!BooksHers,
      Chat!BelongsTo, Chat!Trusted
<1> QED
  BY <1>1, <1>5, <1>6 DEF Chat!Served

\* The bot serves the client whose number Conduit verified, for any clients, requests, tools
\* and interleavings of their steps: her profile and bookings are changed from her chat only,
\* a chat is told of her only, an answer is withheld only for an anonymisation that came
\* between, and a person is promised only when somebody was told.
THEOREM BotServes ==
  ASSUME Chat!ChatBounds
  PROVE  Chat!Spec => [](/\ Chat!OnlyHerOwn /\ Chat!ToldOnlyHerOwn /\ Chat!WithheldOnlyOnErasure
                         /\ Chat!PromiseIsKept /\ Chat!OneRowPerNumber)
<1>1. Chat!Init => Chat!Served
  BY ServedInit
<1>2. Chat!Served /\ [Chat!Next]_(Chat!vars) => Chat!Served'
  <2> SUFFICES ASSUME Chat!Served, [Chat!Next]_(Chat!vars)
               PROVE  Chat!Served'
    OBVIOUS
  <2>1. CASE UNCHANGED Chat!vars
    <3>1. UNCHANGED <<row, booked, tool, notice, erasures>>
      BY <2>1 DEF Chat!vars
    <3>2. Chat!RowsAndBookings' /\ Chat!OnlyHerOwn' /\ Chat!OneRowPerNumber' /\ Grows
      BY <3>1, RowsStay
    <3>3. ASSUME NEW c \in Calls
          PROVE  Chat!Serves(c, tool[c])'
      <4>1. PICK f : f = tool[c]
        OBVIOUS
      <4>2. Chat!Serves(c, f)' /\ tool'[c] = f
        BY <3>1, <3>2, <4>1, GoesOnServing DEF Chat!Served
      <4> QED
        BY <4>2 DEF Chat!Serves, Chat!IsAsked, Chat!IsHers, Chat!TellsHers, Chat!BooksHers,
          Chat!BelongsTo, Chat!Trusted
    <3> QED
      BY <3>1, <3>2, <3>3 DEF Chat!Served
  <2>2. ASSUME NEW c \in Calls,
               \/ Chat!Arrive(c) \/ Chat!Find(c) \/ Chat!Write(c) \/ Chat!Register(c)
               \/ Chat!Book(c) \/ Chat!Change(c) \/ Chat!Handoff(c) \/ Chat!Guard(c)
        PROVE  Chat!Served'
    BY <2>2, ArriveServes, FindServes, WriteServes, RegisterServes, BookServes, ChangeServes,
       HandoffServes, GuardServes
  <2> QED
    BY <2>1, <2>2, AnonymiseServes DEF Chat!Next
<1>3. Chat!Served => /\ Chat!OnlyHerOwn /\ Chat!ToldOnlyHerOwn /\ Chat!WithheldOnlyOnErasure
                     /\ Chat!PromiseIsKept /\ Chat!OneRowPerNumber
  BY ServedTells
<1> QED
  BY <1>1, <1>2, <1>3, PTL DEF Chat!Spec
=============================================================================
