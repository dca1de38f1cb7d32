--------------------------- MODULE ClientRecords ---------------------------
(***************************************************************************)
(* What is kept of a client (clients/, client-privacy/): bookings find her *)
(* row by her WhatsApp identity, through a cache, or by her phone, or      *)
(* create one; health data needs her consent; an administrator or the      *)
(* nightly retention sweep makes the row anonymous and has the images of   *)
(* her proofs of payment destroyed.  Every call of a handler is a step.    *)
(*                                                                         *)
(* All rows are of one person.  A row is its phone, the personal data it   *)
(* holds and what binds it: an active booking, an available credit, a      *)
(* booking that was updated within the retention period.                   *)
(***************************************************************************)
EXTENDS Naturals, FiniteSets, FiniteSetsExt, SequencesExt

CONSTANTS
  Clients,    \* rows, numbered in the order of creation
  Requests,   \* requests that look for her row
  Channel,    \* of a request: "whatsapp" (trusted identity), "web" or "desk"
  Sensitive,  \* requests that carry health data
  Consenting, \* requests that carry a consent
  Batch,      \* SWEEP_BATCH_SIZE
  MaxEvents,  \* bound on what administrators and bookings do to a row
  MaxFaults   \* bound on crashes and calls that fail

VARIABLES
  client,     \* rows of clients, with what their bookings bind them to
  consent,    \* clients with a record of consent to health data
  byJid,      \* the client cached for her WhatsApp identity, 0: none
  search,     \* requests in progress
  eraser,     \* the anonymisation in progress, and those the sweep has yet to do
  image,      \* image of her proof: "none", "shown", "stored" only, "gone", or "lost"
              \* (shown and no longer stored)
  reached,    \* rows written to after their anonymisation had begun (history)
  events, losses

vars == <<client, consent, byJid, search, eraser, image, reached, events, losses>>

Data == {"jid", "health", "hair"}
Bonds == {"active", "credit", "recent"}

Unused == [phone |-> "none", data |-> {}, bond |-> {}]
Idle == [pc |-> "idle", row |-> 0, proof |-> FALSE, queue |-> <<>>]

TypeOK ==
  /\ client \in [Clients -> [phone : {"none", "hers", "anonymous"},
                             data : SUBSET Data, bond : SUBSET Bonds]]
  /\ consent \subseteq Clients /\ byJid \in Clients \cup {0} /\ reached \subseteq Clients
  /\ search \in [Requests ->
       [pc : {"idle", "cache", "jid", "phone", "create", "consent", "ensure", "record",
              "fill", "book", "ended", "unrecorded"},
        row : Clients \cup {0}, seen : SUBSET Data]]
  /\ eraser.pc \in {"idle", "row", "active", "credits", "proofs", "erase", "destroy"}
  /\ image \in [Clients -> {"none", "shown", "stored", "gone", "lost"}]
  /\ events \in 0 .. MaxEvents /\ losses \in 0 .. MaxFaults

StartWith(rows, images) ==
  /\ client = rows /\ consent = {k \in Clients : "health" \in rows[k].data}
  /\ byJid \in {0} \cup {k \in Clients : "jid" \in rows[k].data}
  /\ search = [q \in Requests |-> [pc |-> "idle", row |-> 0, seen |-> {}]]
  /\ eraser = Idle
  /\ image = images
  /\ reached = {} /\ events = 0 /\ losses = 0

Known(data, bond) == [phone |-> "hers", data |-> data, bond |-> bond]

\* Somebody writes to row k.
Reach(k) ==
  reached' = IF eraser.row = k \/ client[k].phone = "anonymous"
             THEN reached \cup {k} ELSE reached

\* Bounds what happens to rows from outside.
Happens == events < MaxEvents /\ events' = events + 1

Fails == losses < MaxFaults /\ losses' = losses + 1

-----------------------------------------------------------------------------
(* Requests *)

At(q, pc) == search[q].pc = pc
Goto(q, pc) == search' = [search EXCEPT ![q].pc = pc]

\* Once the row is known: the desk only creates it, the others book.
Resolved(q) == IF Channel[q] = "desk" THEN "ended" ELSE "book"

\* The row is read: what is missing in it is computed later, from what it held now.
Found(q, k) ==
  search' = [search EXCEPT ![q] =
    [pc |-> IF Channel[q] = "web" THEN "book"
            ELSE IF q \in Sensitive THEN "ensure" ELSE "fill",
     row |-> k, seen |-> client[k].data]]

Arrive(q) ==
  /\ At(q, "idle")
  /\ Goto(q, IF Channel[q] = "whatsapp" THEN "cache" ELSE "phone")
  /\ UNCHANGED <<client, consent, byJid, eraser, image, reached, events, losses>>

\* The cached id is taken as it is: that the row still has the identity is not checked.
FindByCache(q) ==
  /\ At(q, "cache")
  /\ IF byJid = 0 THEN Goto(q, "jid") ELSE Found(q, byJid)
  /\ UNCHANGED <<client, consent, byJid, eraser, image, reached, events, losses>>

\* Setting the cache is not awaited; when it fails the next lookup misses.
Cached(k) == byJid' = k

FindByJid(q) ==
  /\ At(q, "jid")
  /\ \/ \E k \in Clients : "jid" \in client[k].data /\ Found(q, k) /\ Cached(k)
     \/ /\ \A k \in Clients : "jid" \notin client[k].data
        /\ Goto(q, "phone") /\ UNCHANGED byJid
  /\ UNCHANGED <<client, consent, eraser, image, reached, events, losses>>

FindByPhone(q) ==
  /\ At(q, "phone")
  /\ \/ \E k \in Clients : client[k].phone = "hers" /\
          IF Channel[q] = "desk" THEN Goto(q, "ended") ELSE Found(q, k)
     \/ /\ \A k \in Clients : client[k].phone # "hers"
        /\ Goto(q, IF q \in Sensitive \ Consenting THEN "ended" ELSE "create")
  /\ UNCHANGED <<client, consent, byJid, eraser, image, reached, events, losses>>

\* Phone and identity are unique: of two requests that found nothing one fails.
Create(q) ==
  LET data == (IF Channel[q] = "whatsapp" THEN {"jid"} ELSE {})
                \cup (IF q \in Sensitive THEN {"health"} ELSE {})
      free == {k \in Clients : client[k].phone = "none"} IN
  /\ At(q, "create") /\ free # {}
  /\ \/ /\ \A k \in Clients : client[k].phone # "hers"
        /\ "jid" \in data => \A k \in Clients : "jid" \notin client[k].data
        /\ client' = [client EXCEPT ![Min(free)] = Known(data, {"recent"})]
        /\ search' = [search EXCEPT ![q].row = Min(free),
             ![q].pc = IF q \in Sensitive THEN "consent" ELSE Resolved(q)]
        /\ IF "jid" \in data THEN Cached(Min(free)) ELSE UNCHANGED byJid
     \/ /\ \E k \in Clients :
             \/ client[k].phone = "hers"
             \/ ("jid" \in data /\ "jid" \in client[k].data)
        /\ Goto(q, "ended") /\ UNCHANGED <<client, byJid>>
  /\ UNCHANGED <<consent, eraser, image, reached, events, losses>>

\* The consent of a new client is recorded once her row is there.
RecordOfNew(q) ==
  /\ At(q, "consent")
  /\ \/ /\ consent' = consent \cup {search[q].row} /\ Goto(q, Resolved(q))
        /\ UNCHANGED losses
     \/ Fails /\ Goto(q, "unrecorded") /\ UNCHANGED consent
  /\ UNCHANGED <<client, byJid, eraser, image, reached, events>>

\* Variant with a bug: without a consent the data is refused only for new clients.
EnsureHealthDataConsentOfNew(q) ==
  /\ At(q, "ensure")
  /\ Goto(q, IF search[q].row \in consent \/ q \notin Consenting THEN "fill" ELSE "record")
  /\ UNCHANGED <<client, consent, byJid, eraser, image, reached, events, losses>>

EnsureHealthDataConsent(q) ==
  /\ At(q, "ensure")
  /\ Goto(q, IF search[q].row \in consent THEN "fill"
             ELSE IF q \in Consenting THEN "record" ELSE "ended")
  /\ UNCHANGED <<client, consent, byJid, eraser, image, reached, events, losses>>

RecordConsent(q) ==
  /\ At(q, "record")
  /\ consent' = consent \cup {search[q].row} /\ Goto(q, "fill")
  /\ UNCHANGED <<client, byJid, eraser, image, reached, events, losses>>

\* Only what the row lacked when it was read is written.
FillMissingFields(q) ==
  LET k == search[q].row
      data == ({"jid"} \ search[q].seen) \cup (IF q \in Sensitive THEN {"health"} ELSE {}) IN
  /\ At(q, "fill")
  /\ \/ data = {} /\ Goto(q, "book") /\ UNCHANGED <<client, byJid, reached>>
     \/ /\ data # {}
        /\ "jid" \in data => \A l \in Clients \ {k} : "jid" \notin client[l].data
        /\ client' = [client EXCEPT ![k].data = @ \cup data] /\ Reach(k) /\ Goto(q, "book")
        /\ IF "jid" \in data THEN Cached(k) ELSE UNCHANGED byJid
     \/ /\ "jid" \in data /\ \E l \in Clients \ {k} : "jid" \in client[l].data
        /\ Goto(q, "ended") /\ UNCHANGED <<client, byJid, reached>>
  /\ UNCHANGED <<consent, eraser, image, events, losses>>

\* The booking is made for the row that was found, or refused for want of a place.
Book(q) ==
  LET k == search[q].row IN
  /\ At(q, "book") /\ Goto(q, "ended")
  /\ \/ client' = [client EXCEPT ![k].bond = @ \cup {"active", "recent"}] /\ Reach(k)
     \/ UNCHANGED <<client, reached>>
  /\ UNCHANGED <<consent, byJid, eraser, image, events, losses>>

-----------------------------------------------------------------------------
(* Administration, bookings and time *)

\* PATCH /clients/:id: no health data without consent.
Update(k) ==
  /\ Happens
  /\ client[k].phone # "none" /\ k \in consent
  /\ client' = [client EXCEPT ![k].data = @ \cup {"health"}] /\ Reach(k)
  /\ UNCHANGED <<consent, byJid, search, eraser, image, losses>>

SetHairProfile(k) ==
  /\ Happens
  /\ client[k].phone # "none"
  /\ client' = [client EXCEPT ![k].data = @ \cup {"hair"}] /\ Reach(k)
  /\ UNCHANGED <<consent, byJid, search, eraser, image, losses>>

\* An active booking receives its proof of payment, ...
AttachProof(k) ==
  /\ Happens
  /\ "active" \in client[k].bond /\ image[k] = "none"
  /\ image' = [image EXCEPT ![k] = "shown"] /\ Reach(k)
  /\ UNCHANGED <<client, consent, byJid, search, eraser, losses>>

\* ... ends, with or without a credit, which is spent or lapses ...
EndBooking(k) ==
  /\ Happens
  /\ "active" \in client[k].bond
  /\ \E more \in {{}, {"credit"}} :
       client' = [client EXCEPT ![k].bond = (@ \ {"active"}) \cup more \cup {"recent"}]
  /\ Reach(k)
  /\ UNCHANGED <<consent, byJid, search, eraser, image, losses>>

EndCredit(k) ==
  /\ Happens
  /\ "credit" \in client[k].bond
  /\ client' = [client EXCEPT ![k].bond = @ \ {"credit"}]
  /\ UNCHANGED <<consent, byJid, search, eraser, image, reached, losses>>

\* ... and the retention period passes; so does the time an identity is cached.
MonthsPass ==
  /\ \E k \in Clients : "recent" \in client[k].bond
  /\ client' = [k \in Clients |-> [client[k] EXCEPT !.bond = @ \ {"recent"}]]
  /\ byJid' = 0
  /\ \A q \in Requests : search[q].pc \in {"idle", "ended", "unrecorded"}
  /\ UNCHANGED <<consent, search, eraser, image, reached, events, losses>>

-----------------------------------------------------------------------------
(* Anonymisation *)

Step(pc) == eraser' = [eraser EXCEPT !.pc = pc]

\* The next client of the sweep, or rest.
Proceed ==
  eraser' = IF eraser.queue = <<>> THEN Idle
            ELSE [pc |-> "row", row |-> Head(eraser.queue), proof |-> FALSE,
                  queue |-> Tail(eraser.queue)]

\* An administrator asks for it.
Anonymize(k) ==
  /\ Happens
  /\ eraser.pc = "idle" /\ client[k].phone # "none"
  /\ eraser' = [Idle EXCEPT !.pc = "row", !.row = k]
  /\ UNCHANGED <<client, consent, byJid, search, image, reached, losses>>

Candidates == {k \in Clients : client[k].phone = "hers" /\ "recent" \notin client[k].bond}

\* The first clients of the batch in the order of creation, those a booking or a credit
\* binds included.
SweepBatch ==
  LET sorted == SetToSortSeq(Candidates, <) IN
  SubSeq(sorted, 1, Min({Len(sorted), Batch}))

Sweep ==
  /\ eraser.pc = "idle" /\ Candidates # {}
  /\ eraser' = [pc |-> "row", row |-> Head(SweepBatch), proof |-> FALSE,
                queue |-> Tail(SweepBatch)]
  /\ UNCHANGED <<client, consent, byJid, search, image, reached, events, losses>>

ReadRow ==
  /\ eraser.pc = "row"
  /\ IF client[eraser.row].phone = "anonymous" THEN Proceed ELSE Step("active")
  /\ UNCHANGED <<client, consent, byJid, search, image, reached, events, losses>>

CountActive ==
  /\ eraser.pc = "active"
  /\ IF "active" \in client[eraser.row].bond THEN Proceed ELSE Step("credits")
  /\ UNCHANGED <<client, consent, byJid, search, image, reached, events, losses>>

\* Variant with a bug: a client whose deposit is still hers to use is erased.
FindNoCredits ==
  /\ eraser.pc = "credits"
  /\ Step("proofs")
  /\ UNCHANGED <<client, consent, byJid, search, image, reached, events, losses>>

FindCredits ==
  /\ eraser.pc = "credits"
  /\ IF "credit" \in client[eraser.row].bond THEN Proceed ELSE Step("proofs")
  /\ UNCHANGED <<client, consent, byJid, search, image, reached, events, losses>>

\* The images found now are the ones that will be destroyed.
FindProofs ==
  /\ eraser.pc = "proofs"
  /\ eraser' = [eraser EXCEPT !.pc = "erase", !.proof = image[eraser.row] = "shown"]
  /\ UNCHANGED <<client, consent, byJid, search, image, reached, events, losses>>

\* Variant with a bug: the identity, not part of the form, stays.
ErasedButJid(row) == [row EXCEPT !.phone = "anonymous", !.data = @ \cap {"jid"}]

Erased(row) == [row EXCEPT !.phone = "anonymous", !.data = {}]

\* Variant with a bug: images are destroyed before the transaction.
EraseAfterImages ==
  LET k == eraser.row IN
  /\ eraser.pc = "erase"
  /\ \/ /\ client' = [client EXCEPT ![k] = Erased(@)]
        /\ image' = IF eraser.proof THEN [image EXCEPT ![k] = "gone"] ELSE image
        /\ Step("destroy") /\ UNCHANGED losses
     \/ /\ Fails /\ Proceed /\ UNCHANGED client
        /\ image' = IF eraser.proof THEN [image EXCEPT ![k] = "lost"] ELSE image
  /\ UNCHANGED <<consent, byJid, search, reached, events>>

\* One transaction blanks the row and the images in the deposits.  The cached identity
\* is not part of it and stays.
Erase ==
  LET k == eraser.row IN
  /\ eraser.pc = "erase"
  /\ \/ /\ client' = [client EXCEPT ![k] = Erased(@)]
        /\ image' = IF eraser.proof THEN [image EXCEPT ![k] = "stored"] ELSE image
        /\ Step("destroy") /\ UNCHANGED losses
     \/ Fails /\ Proceed /\ UNCHANGED <<client, image>>
  /\ UNCHANGED <<consent, byJid, search, reached, events>>

\* What cannot be destroyed is left, and nobody comes back for it.
DestroyQuietly ==
  LET k == eraser.row IN
  /\ eraser.pc = "destroy" /\ Proceed
  /\ \/ /\ image' = IF eraser.proof THEN [image EXCEPT ![k] = "gone"] ELSE image
        /\ UNCHANGED losses
     \/ eraser.proof /\ Fails /\ UNCHANGED image
  /\ UNCHANGED <<client, consent, byJid, search, reached, events>>

EraserStep ==
  ReadRow \/ CountActive \/ FindCredits \/ FindProofs \/ Erase \/ DestroyQuietly

\* The process stops: what it was doing is not resumed.
Crash ==
  /\ Fails
  /\ search' = [q \in Requests |->
       IF At(q, "idle") THEN search[q]
       ELSE [search[q] EXCEPT !.pc = IF search[q].pc \in {"consent", "unrecorded"}
                                      THEN "unrecorded" ELSE "ended"]]
  /\ eraser' = Idle
  /\ UNCHANGED <<client, consent, byJid, image, reached, events>>

-----------------------------------------------------------------------------

RequestStep(q) ==
  \/ Arrive(q) \/ FindByCache(q) \/ FindByJid(q) \/ FindByPhone(q) \/ Create(q)
  \/ RecordOfNew(q) \/ EnsureHealthDataConsent(q) \/ RecordConsent(q)
  \/ FillMissingFields(q) \/ Book(q)

Others ==
  \/ \E k \in Clients :
       Update(k) \/ SetHairProfile(k) \/ AttachProof(k) \/ EndBooking(k) \/ EndCredit(k)
  \/ MonthsPass \/ Crash

Next ==
  \/ \E q \in Requests : RequestStep(q)
  \/ \E k \in Clients : Anonymize(k)
  \/ Sweep \/ EraserStep \/ Others

-----------------------------------------------------------------------------
(* Properties *)

\* Health data is kept of nobody who has not consented, whatever the paths on which it
\* arrived; excepted is a new client whose consent is on its way, or was lost with the
\* process after her row was created.
HealthDataHasConsent ==
  \A k \in Clients : "health" \in client[k].data /\ k \notin consent =>
    \E q \in Requests : search[q].row = k /\ search[q].pc \in {"consent", "unrecorded"}

\* Of a client who was made anonymous nothing is left, no data, no active booking, no
\* credit, no image that is shown, unless somebody wrote to her row since the
\* anonymisation began: a booking that had found it, or found it in the cache.
ErasedIsBlank ==
  \A k \in Clients \ reached : client[k].phone = "anonymous" =>
    client[k].data = {} /\ client[k].bond \subseteq {"recent"} /\ image[k] # "shown"

\* A request that writes health data writes it to a row with a consent.
FillsWithConsent ==
  \A q \in Requests \cap Sensitive : At(q, "fill") => search[q].row \in consent

\* What the anonymisation found of its row is so until somebody writes to it.
FoundUnbound ==
  LET k == eraser.row
      past(steps) == k \in Clients \ reached /\ eraser.pc \in steps
  IN  /\ past({"credits", "proofs", "erase"}) => "active" \notin client[k].bond
      /\ past({"proofs", "erase"}) => "credit" \notin client[k].bond
      /\ past({"erase"}) /\ image[k] = "shown" => eraser.proof

\* The inductive invariant of the two above, beside the types.
Privacy == HealthDataHasConsent /\ FillsWithConsent /\ ErasedIsBlank /\ FoundUnbound

\* No deposit shows an image that is no longer stored, whichever call of an
\* anonymisation fails and wherever the process stops.
ShownIsStored == \A k \in Clients : image[k] # "lost"

\* A client blocks the sweep who is inactive, but bound by a booking or a credit.
Blocks(k) == k \in Candidates /\ client[k].bond # {}

\* Every inactive client whom nothing binds is made anonymous by some sweep; unless
\* a batch of older clients who are bound fills every sweep.
InactiveAreErased ==
  \A k \in Candidates \ {l \in Clients : Blocks(l)} :
    Cardinality({l \in Clients : l < k /\ Blocks(l)}) >= Batch
=============================================================================
