---------------------------- MODULE Conversation ----------------------------
(***************************************************************************)
(* The tools of the bot (conduit/): what a model writes in a request gives *)
(* way to the number Conduit verified (ConduitContactInterceptor), what a  *)
(* tool answers is compared with that number after the work is done        *)
(* (ConduitResponseGuardInterceptor), and meanwhile other requests         *)
(* register, book and cancel and a client may be anonymised.  A chat id    *)
(* (JID) written in a request is left out: no tool asks for one.           *)
(***************************************************************************)
EXTENDS Naturals, FiniteSets

CONSTANTS
  Calls,         \* requests of the bot
  Phones,        \* numbers of people
  Known,         \* numbers of the clients there are at first: row -> number
  Rows,          \* rows of clients, as many as there may be
  OwnerOf,       \* the bookings there are at first: booking -> row
  Bookings,      \* bookings, as many as there may be
  Requested,     \* the tools that are called
  Recipients,    \* administrators who are told that a person is asked for
  MaxErasures,   \* bound of the model: clients anonymised
  MaxFailures    \* bound of the model: notices that cannot be queued

VARIABLES
  row,      \* rows of clients: number, and (history) the first number, the request that made
            \* them and the verified numbers they were changed for
  booked,   \* bookings: row and status
  tool,     \* requests
  notice,   \* notices queued: request and recipient
  erasures, mishaps

vars == <<row, booked, tool, notice, erasures, mishaps>>

NoPhone == "none"
NoRow == 0
Gone == "anonymous"
Verified == {"update", "upcoming", "cancel", "reschedule"}
Public == {"catalogue"}
Tools == {"me", "register", "book", "handoff"} \cup Verified \cup Public

TypeOK ==
  /\ \A k \in DOMAIN row : row[k].phone \in {row[k].number, Gone}
  /\ DOMAIN row \subseteq Rows
  /\ \A b \in DOMAIN booked : booked[b].row \in DOMAIN row
  /\ \A c \in Calls : tool[c].pc \in {"idle", "find", "act", "guard", "done"}
  /\ notice \subseteq Calls \X Recipients

-----------------------------------------------------------------------------
(* What Conduit sends *)

Idle == [pc |-> "idle"]
Row(phone, by) == [phone |-> phone, number |-> phone, by |-> by, touchedFor |-> {}]

Init ==
  /\ row = [k \in DOMAIN Known |-> Row(Known[k], "")]
  /\ booked = [b \in DOMAIN OwnerOf |-> [row |-> OwnerOf[b], status |-> "live", movedFor |-> {}]]
  /\ tool = [c \in Calls |-> Idle]
  /\ notice = {} /\ erasures = 0 /\ mishaps = 0

\* The chat: a verified number, only an identity without one, or nothing.
Contacts == [phone : Phones, lid : {FALSE}] \cup [phone : {NoPhone}, lid : BOOLEAN]

\* What is refused for the contact alone.
Refuses(contact, name) ==
  CASE contact.phone # NoPhone -> ""
    [] ~contact.lid /\ contact.phone = NoPhone /\ name \notin Public -> "CONTACT_REQUIRED"
    [] contact.lid /\ contact.phone = NoPhone /\ name \in Verified -> "CONTACT_NOT_VERIFIED"
    [] OTHER -> ""

\* Variant with a bug: the number of the body is used as the model wrote it.
PhoneWritten(contact, written) == written

\* The number the tool works with: the verified one takes the place of what was written.
PhoneOf(contact, written) == IF contact.phone # NoPhone THEN contact.phone ELSE written

Answered(f, rows, error) ==
  [pc |-> "done", tool |-> f.tool, contact |-> f.contact, rows |-> rows, error |-> error,
   notified |-> FALSE]

Arrive(c) ==
  /\ tool[c].pc = "idle"
  /\ \E name \in Requested, contact \in Contacts, written \in Phones :
     \E b \in IF name \in {"cancel", "reschedule"} THEN DOMAIN booked ELSE {0} :
       LET f == [pc |-> "find", tool |-> name, contact |-> contact,
                 phone |-> PhoneOf(contact, written), booking |-> b]
       IN  tool' = [tool EXCEPT ![c] =
             IF Refuses(contact, name) = "" THEN f
             ELSE Answered(f, {}, Refuses(contact, name))]
  /\ UNCHANGED <<row, booked, notice, erasures, mishaps>>

-----------------------------------------------------------------------------
(* What the tools read *)

\* The row of a number; NoRow: there is none.
RowOf(phone) ==
  LET its == {k \in DOMAIN row : row[k].phone = phone}
  IN  IF its = {} THEN NoRow ELSE CHOOSE k \in its : TRUE

Owner(b) == row[booked[b].row].phone
Upcoming(k) == {b \in DOMAIN booked : booked[b].row = k /\ booked[b].status = "live"}
Trusted(f) == f.contact.phone # NoPhone

\* Variant with a bug: any booking may be named.
OwnsAny(f) == TRUE

\* A booking can be cancelled or moved by the number it belongs to.
Owns(f) == Owner(f.booking) = f.phone

\* Variant with a bug: a chat without a number changes the client it names.
FoundUnverified(f, k) ==
  CASE f.tool = "update" /\ k = NoRow -> "NOT_FOUND"
    [] f.tool \in {"cancel", "reschedule"} /\ ~Owns(f) -> "RESERVATION_NOT_OWNED"
    [] OTHER -> ""

\* What a tool makes of the row it found: an error, or the row it goes on with.
Found(f, k) ==
  CASE f.tool = "register" /\ k # NoRow /\ ~Trusted(f) -> "CONTACT_NOT_VERIFIED"
    [] f.tool = "update" /\ k = NoRow -> "NOT_FOUND"
    [] f.tool \in {"cancel", "reschedule"} /\ ~Owns(f) -> "RESERVATION_NOT_OWNED"
    [] OTHER -> ""

\* The number the client is looked up by: "me" knows no other than the verified one.
LookUp(f) == IF f.tool = "me" THEN f.contact.phone ELSE f.phone

ReadOnly == {"me", "upcoming", "catalogue"}

\* A tool looks for its client or its booking; what only reads has its answer then.
Find(c) ==
  LET f == tool[c]
      k == IF f.tool \in {"cancel", "reschedule"} THEN booked[f.booking].row ELSE RowOf(LookUp(f))
  IN  /\ f.pc = "find"
      /\ tool' = [tool EXCEPT ![c] =
           IF Found(f, k) # "" THEN Answered(f, {}, Found(f, k))
           ELSE IF f.tool \in ReadOnly
           THEN [pc |-> "guard", tool |-> f.tool, contact |-> f.contact, notified |-> FALSE,
                 rows |-> IF f.tool = "catalogue" THEN {} ELSE {k} \ {NoRow},
                 bookings |-> IF f.tool = "upcoming" THEN Upcoming(k) ELSE {}]
           ELSE [pc |-> "act", tool |-> f.tool, contact |-> f.contact, phone |-> f.phone,
                 booking |-> f.booking, row |-> k]]
      /\ UNCHANGED <<row, booked, notice, erasures, mishaps>>

-----------------------------------------------------------------------------
(* What the tools do *)

Guarded(f, rows, bookings, notified) ==
  [pc |-> "guard", tool |-> f.tool, contact |-> f.contact, rows |-> rows,
   bookings |-> bookings, notified |-> notified]

Changes(f, k) == row' = [row EXCEPT ![k].touchedFor = @ \cup {f.contact.phone}]

NextRow == CHOOSE k \in Rows : k \notin DOMAIN row /\ \A j \in Rows \ DOMAIN row : k <= j

\* A new client, of the number the tool works with; that there is no other of the number
\* is a constraint of the database.
MakeRow(c, f) ==
  row' = [k \in DOMAIN row \cup {NextRow} |-> IF k = NextRow THEN Row(f.phone, c) ELSE row[k]]

Fails(c, f, error) ==
  /\ tool' = [tool EXCEPT ![c] = Answered(f, {}, error)]
  /\ UNCHANGED <<row, booked, notice, erasures, mishaps>>

\* The profile that was written, for a client who is there.
Write(c) ==
  LET f == tool[c] IN
  /\ f.pc = "act" /\ f.tool \in {"register", "update"} /\ f.row # NoRow
  /\ Changes(f, f.row)
  /\ tool' = [tool EXCEPT ![c] = Guarded(f, {f.row}, {}, FALSE)]
  /\ UNCHANGED <<booked, notice, erasures, mishaps>>

Register(c) ==
  LET f == tool[c] IN
  /\ f.pc = "act" /\ f.tool = "register" /\ f.row = NoRow
  /\ \/ RowOf(f.phone) # NoRow /\ Fails(c, f, "CONFLICT")
     \/ /\ RowOf(f.phone) = NoRow /\ DOMAIN row # Rows
        /\ MakeRow(c, f)
        /\ tool' = [tool EXCEPT ![c] = Guarded(f, {NextRow}, {}, FALSE)]
        /\ UNCHANGED <<booked, notice, erasures, mishaps>>

\* Variant with a bug: what a chat without a number wrote fills the profile, too.
FillsAlways(f) == TRUE

\* A booking fills what the profile of its client lacks only for a trusted chat.
Fills(f) == Trusted(f)

FreeBookings == Bookings \ DOMAIN booked

\* A booking, of a client who is there or is made for it; or the time is taken, which the
\* answer says with others that are free.
Book(c) ==
  LET f == tool[c] IN
  /\ f.pc = "act" /\ f.tool = "book"
  /\ \/ Fails(c, f, "PLACEMENT_NO_SLOT_THAT_DAY")
     \/ f.row = NoRow /\ RowOf(f.phone) # NoRow /\ Fails(c, f, "CONFLICT")
     \/ \E b \in FreeBookings :
          LET k == IF f.row = NoRow THEN NextRow ELSE f.row IN
          /\ \A o \in FreeBookings : b <= o
          /\ f.row = NoRow => RowOf(f.phone) = NoRow /\ DOMAIN row # Rows
          /\ IF f.row = NoRow THEN MakeRow(c, f)
             ELSE IF Fills(f) THEN Changes(f, k) ELSE UNCHANGED row
          /\ booked' = [o \in DOMAIN booked \cup {b} |->
               IF o = b THEN [row |-> k, status |-> "live", movedFor |-> {}] ELSE booked[o]]
          /\ tool' = [tool EXCEPT ![c] = Guarded(f, {k}, {b}, FALSE)]
          /\ UNCHANGED <<notice, erasures, mishaps>>

\* A booking is cancelled or moved while it is live.
Change(c) ==
  LET f == tool[c] IN
  /\ f.pc = "act" /\ f.tool \in {"cancel", "reschedule"}
  /\ \/ booked[f.booking].status # "live" /\ Fails(c, f, "CONFLICT")
     \/ /\ booked[f.booking].status = "live"
        /\ booked' = [booked EXCEPT
             ![f.booking].status = IF f.tool = "cancel" THEN "cancelled" ELSE @,
             ![f.booking].movedFor = @ \cup {f.contact.phone}]
        /\ tool' = [tool EXCEPT ![c] = Guarded(f, {booked[f.booking].row}, {f.booking}, FALSE)]
        /\ UNCHANGED <<row, notice, erasures, mishaps>>

\* Variant with a bug: the team counts as notified when somebody should have been.
NotifiedIfAny(queued, active) == active # {}

\* The team counts as notified when the notice of somebody is queued.
Notified(queued, active) == queued # {}

\* A person is asked for: one notice for each recipient who is active, queued or not.
Handoff(c) ==
  LET f == tool[c] IN
  /\ f.pc = "act" /\ f.tool = "handoff"
  /\ \E active \in SUBSET Recipients : \E queued \in SUBSET active :
       /\ mishaps + Cardinality(active \ queued) <= MaxFailures
       /\ mishaps' = mishaps + Cardinality(active \ queued)
       /\ notice' = notice \cup {<<c, r>> : r \in queued}
       /\ tool' = [tool EXCEPT ![c] = Guarded(f, {}, {}, Notified(queued, active))]
  /\ UNCHANGED <<row, booked, erasures>>

-----------------------------------------------------------------------------
(* What is answered *)

\* What of an answer belongs to another than the client who has the number by now; the view
\* of "me" carries no id.
Foreign(f) ==
  {k \in f.rows : f.tool # "me" /\ k # RowOf(f.contact.phone)}
  \cup {b \in f.bookings : booked[b].row # RowOf(f.contact.phone)}

\* The answer is given, or withheld although the work is done.
Guard(c) ==
  LET f == tool[c]
      withheld == Trusted(f) /\ f.tool \notin Public /\ Foreign(f) # {}
  IN  /\ f.pc = "guard"
      /\ tool' = [tool EXCEPT ![c] =
           IF withheld THEN Answered(f, {}, "CONTACT_DATA_BLOCKED")
           ELSE [Answered(f, f.rows, "") EXCEPT !.notified = f.notified]]
      /\ UNCHANGED <<row, booked, notice, erasures, mishaps>>

\* A client without bookings is anonymised by an administrator; a booking that comes between
\* the count and the blanking is a matter of ClientRecords.
Anonymise(k) ==
  /\ erasures < MaxErasures /\ row[k].phone # Gone
  /\ Upcoming(k) = {}
  /\ erasures' = erasures + 1
  /\ row' = [row EXCEPT ![k].phone = Gone]
  /\ UNCHANGED <<booked, tool, notice, mishaps>>

Next ==
  \/ \E c \in Calls :
       \/ Arrive(c) \/ Find(c) \/ Write(c) \/ Register(c) \/ Book(c) \/ Change(c)
       \/ Handoff(c) \/ Guard(c)
  \/ \E k \in DOMAIN row : Anonymise(k)

Spec == Init /\ [][Next]_vars

-----------------------------------------------------------------------------

BelongsTo(k, phone) == row[k].number = phone

\* Whatever number, booking or client the model names: the profile of a client and her
\* bookings are changed only from a chat whose verified number is hers.
OnlyHerOwn ==
  /\ \A k \in DOMAIN row : \A p \in row[k].touchedFor : p # NoPhone /\ BelongsTo(k, p)
  /\ \A b \in DOMAIN booked : \A p \in booked[b].movedFor :
       p # NoPhone /\ BelongsTo(booked[b].row, p)

\* What a chat is told is of the client of its verified number; without one, of the client
\* it has registered itself, and the booking it has just made.
ToldOnlyHerOwn ==
  \A c \in Calls : tool[c].pc = "done" =>
    \A k \in tool[c].rows :
      IF Trusted(tool[c]) THEN BelongsTo(k, tool[c].contact.phone)
      ELSE tool[c].tool = "book" \/ row[k].by = c

\* An answer is withheld after the work was done only when the client was anonymised
\* meanwhile.
WithheldOnlyOnErasure ==
  \A c \in Calls : tool[c].pc = "done" /\ tool[c].error = "CONTACT_DATA_BLOCKED" => erasures > 0

\* A chat is promised a person only when somebody will read of it.
PromiseIsKept ==
  \A c \in Calls : tool[c].pc = "done" /\ tool[c].notified => \E r \in Recipients : <<c, r>> \in notice

\* A number has one row.
OneRowPerNumber ==
  \A j, k \in DOMAIN row : row[j].phone = row[k].phone /\ row[j].phone # Gone => j = k

-----------------------------------------------------------------------------
(* Why it holds: what a request is about is its client's from the step that   *)
(* finds it to the answer.                                                    *)

\* Rows are numbered from one on, no number is that of nobody, and the clients there are
\* at first have different ones.
ChatBounds ==
  /\ Rows \subseteq Nat \ {NoRow} /\ NoPhone \notin Phones /\ Gone \notin Phones
  /\ DOMAIN Known \subseteq Rows /\ \A k \in DOMAIN Known : Known[k] \in Phones
  /\ \A j, k \in DOMAIN Known : Known[j] = Known[k] => j = k
  /\ \A b \in DOMAIN OwnerOf : OwnerOf[b] \in DOMAIN Known

ClientRecord ==
  [phone : Phones \cup {Gone}, number : Phones, by : Calls \cup {""},
   touchedFor : SUBSET (Phones \cup {NoPhone})]

BookingRecord ==
  [row : Rows, status : {"live", "cancelled"}, movedFor : SUBSET (Phones \cup {NoPhone})]

RowsAndBookings ==
  /\ DOMAIN row \subseteq Rows /\ row \in [DOMAIN row -> ClientRecord]
  /\ booked \in [DOMAIN booked -> BookingRecord]
  /\ \A k \in DOMAIN row : row[k].phone \in {row[k].number, Gone}
  /\ \A b \in DOMAIN booked : booked[b].row \in DOMAIN row
  /\ erasures \in Nat
  /\ erasures = 0 => \A k \in DOMAIN row : row[k].phone = row[k].number

\* What a request f is about, from the number it arrived with to its answer.
IsAsked(f) ==
  /\ f.contact \in Contacts /\ f.phone \in Phones
  /\ Trusted(f) => f.phone = f.contact.phone
  /\ f.tool \in Verified => Trusted(f)
  /\ f.tool \in {"cancel", "reschedule"} => f.booking \in DOMAIN booked

IsHers(f) ==
  IF f.tool \in {"cancel", "reschedule"} THEN BelongsTo(booked[f.booking].row, f.phone)
  ELSE f.row # NoRow => /\ f.row \in DOMAIN row /\ BelongsTo(f.row, f.phone)
                        /\ f.tool = "register" => Trusted(f)

TellsHers(c, f) ==
  /\ f.rows \subseteq DOMAIN row
  /\ \A k \in f.rows : IF Trusted(f) THEN BelongsTo(k, f.contact.phone)
                       ELSE f.tool = "book" \/ row[k].by = c
  /\ f.notified => \E r \in Recipients : <<c, r>> \in notice

BooksHers(f) ==
  f.bookings \subseteq DOMAIN booked
  /\ (Trusted(f) => \A b \in f.bookings : BelongsTo(booked[b].row, f.contact.phone))

Serves(c, f) ==
  /\ f.pc \in {"find", "act"} => IsAsked(f)
  /\ f.pc = "act" => IsHers(f)
  /\ f.pc \in {"guard", "done"} => f.contact \in Contacts /\ TellsHers(c, f)
  /\ f.pc = "guard" => BooksHers(f)
  /\ f.pc = "done" /\ f.error = "CONTACT_DATA_BLOCKED" => erasures > 0

Served ==
  /\ RowsAndBookings /\ OnlyHerOwn /\ OneRowPerNumber
  /\ tool = [c \in Calls |-> tool[c]]
  /\ \A c \in Calls : Serves(c, tool[c])
=============================================================================
