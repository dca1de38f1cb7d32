----------------------------- MODULE SiigoSync -----------------------------
(***************************************************************************)
(* The upload of a completed reservation's income to Siigo, the accounting *)
(* service: a row per reservation, written with the payment, and a sweep   *)
(* every minute that turns each payment line of a due row into a voucher.  *)
(* Several worker processes may sweep; each call to Siigo may be refused,  *)
(* be answered late, or be carried out without its answer ever arriving.   *)
(*                                                                         *)
(* Time passes in ticks.  The model's only view of a timestamp is how long *)
(* ago a row was last written, and whether it was written since a sweep    *)
(* read it.                                                                *)
(***************************************************************************)
EXTENDS Integers, FiniteSets

CONSTANTS
  Uploads,        \* reservations with income to report: 1 .. n, in the order of createdAt
  LinesOf,        \* the payment lines of each that come to more than zero
  Sweepers,       \* worker processes
  MaxAttempts,    \* SIIGO_MAX_ATTEMPTS
  BaseRetryDelay, MaxRetryDelay, StaleSending,  \* in ticks
  Timeout,        \* ticks that one request to Siigo may last
  RequestsPerSweep, CandidateLimit,
  Timely,         \* whether processes keep their pace: see Tick
  MaxMishaps,     \* bound: crashes, refused credentials and database failures
  NoUpload

VARIABLES
  upload,    \* the siigo_sync rows
  requests,  \* requests sent and not (yet) carried out by Siigo
  vouchers,  \* what Siigo has issued
  sweep,     \* the state of each process
  mishaps

siigoVars == <<upload, requests, vouchers, sweep, mishaps>>

Statuses == {"ABSENT", "PENDIENTE", "ENVIANDO", "SINCRONIZADO", "FALLIDO", "BLOQUEADO"}
Open == {"PENDIENTE", "ENVIANDO"}
Settled == {"SINCRONIZADO", "FALLIDO", "BLOQUEADO"}

-----------------------------------------------------------------------------
(* Policy *)

Least(a, b) == IF a < b THEN a ELSE b

RetryDelay(attempts) ==
  Least(BaseRetryDelay * 2 ^ (IF attempts > 1 THEN attempts - 1 ELSE 0), MaxRetryDelay)

DecideFailure(kind, attempts) ==
  CASE kind \in {"AUTH", "NOT_CONFIGURED"} -> "PAUSE"
    [] kind \in {"RATE_LIMIT", "TIMEOUT", "UNAVAILABLE"} ->
         IF attempts >= MaxAttempts THEN "FAIL" ELSE "RETRY"
    [] OTHER -> "BLOCK"

\* Variant with a bug: an upload being sent is due again like a waiting one.
IsDueImpatient(row) ==
  row.status \in Open /\ (row.attempts = 0 \/ row.idle >= RetryDelay(row.attempts))

IsDue(row) ==
  \/ row.status = "ENVIANDO" /\ row.idle >= StaleSending
  \/ /\ row.status = "PENDIENTE"
     /\ row.attempts = 0 \/ row.idle >= RetryDelay(row.attempts)

\* Siigo's error codes come first, the HTTP status decides the rest.
Classify(status, code) ==
  CASE code = "unauthorized" -> "AUTH"
    [] code = "requests_limit" -> "RATE_LIMIT"
    [] code \in {"already_exists", "duplicated_document"} -> "DUPLICATE"
    [] code \in {"service_unavailable", "documents_service"} -> "UNAVAILABLE"
    [] status \in {401, 403} -> "AUTH"
    [] status = 429 -> "RATE_LIMIT"
    [] status \in {408, 504} -> "TIMEOUT"
    [] status = 409 -> "DUPLICATE"
    [] status >= 500 -> "UNAVAILABLE"
    [] OTHER -> "VALIDATION"

\* What Siigo may refuse a request with: one example of each way to classify.
Refusals ==
  [status : {400, 403, 409, 429, 503, 504}, code : {"other"}]
    \cup [status : {400}, code : {"unauthorized", "requests_limit", "already_exists",
                                  "documents_service"}]

\* Variant with a bug: the two lines of a reservation share their key.
KeyOfReservation(r, line) == <<r, "C">>

IdempotencyKey(r, line) == <<r, IF line = "CASH" THEN "C" ELSE "T">>

-----------------------------------------------------------------------------
(* The rows *)

\* A voucher under its key: the line it was issued for.
Voucher(r, line) == [key |-> IdempotencyKey(r, line), upload |-> r, line |-> line]

\* A line of a row and the voucher Siigo answered with.
Receipt == [line : {"CASH", "TRANSFER"}, voucher : {Voucher(r, l) : r \in Uploads, l \in {"CASH", "TRANSFER"}}]

Idle == [pc |-> "idle", due |-> {}, fresh |-> {}, budget |-> 0,
         row |-> NoUpload, attempts |-> 0, done |-> {}, line |-> "CASH",
         retryAuth |-> TRUE, token |-> FALSE, age |-> 0, failure |-> "NONE"]

Init ==
  /\ upload = [r \in Uploads |->
                [status |-> "ABSENT", attempts |-> 0, receipts |-> {}, idle |-> 0]]
  /\ requests = {}
  /\ vouchers = {}
  /\ sweep = [q \in Sweepers |-> Idle]
  /\ mishaps = 0

\* The reservation is completed: its payment and this row are one transaction.
Complete(r) ==
  /\ upload[r].status = "ABSENT"
  /\ \A s \in Uploads : s < r => upload[s].status # "ABSENT"
  /\ upload' = [upload EXCEPT ![r].status = "PENDIENTE"]
  /\ UNCHANGED <<requests, vouchers, sweep, mishaps>>

\* q goes on as next says, having written row r: its updatedAt moves, so no
\* earlier read matches the row any more.
Write(q, r, status, attempts, receipts, next) ==
  /\ upload' = [upload EXCEPT ![r] = [status |-> status, attempts |-> attempts,
                                      receipts |-> receipts, idle |-> 0]]
  /\ sweep' = [p \in Sweepers |->
                 [(IF p = q THEN next ELSE sweep[p]) EXCEPT !.fresh = @ \ {r}]]

At(q, pc) == sweep[q].pc = pc

\* q with no sweep going on; the access token outlives it.
End(q) == [Idle EXCEPT !.token = sweep[q].token]

-----------------------------------------------------------------------------
(* The sweep *)

\* The open rows that were created first.
Candidates ==
  LET open == {r \in Uploads : upload[r].status \in Open}
  IN  {r \in open : Cardinality({s \in open : s < r}) < CandidateLimit}

Sweep(q) ==
  /\ At(q, "idle")
  /\ LET due == {r \in Candidates : IsDue(upload[r])}
     IN  /\ due # {}
         /\ sweep' = [sweep EXCEPT ![q] =
                        [End(q) EXCEPT !.pc = "next", !.due = due, !.fresh = due,
                                       !.budget = RequestsPerSweep]]
  /\ UNCHANGED <<upload, requests, vouchers, mishaps>>

SweepEnds(q) ==
  /\ At(q, "next")
  /\ sweep[q].due = {} \/ sweep[q].budget = 0
  /\ sweep' = [sweep EXCEPT ![q] = End(q)]
  /\ UNCHANGED <<upload, requests, vouchers, mishaps>>

\* Variant with a bug: the claim is not conditioned on what was read.
StillAsReadAlways(q, r) == upload[r].status \in Open

StillAsRead(q, r) == r \in sweep[q].fresh

\* Compare and set on id, status and updatedAt, of the row created first.
Claim(q) ==
  /\ At(q, "next") /\ sweep[q].budget > 0
  /\ \E r \in sweep[q].due :
       /\ \A s \in sweep[q].due : r <= s
       /\ LET rest == [sweep[q] EXCEPT !.due = @ \ {r}]
          IN  \/ /\ StillAsRead(q, r)
                 /\ Write(q, r, "ENVIANDO", upload[r].attempts + 1, upload[r].receipts,
                          [rest EXCEPT !.pc = "claimed", !.row = r])
              \/ /\ ~StillAsRead(q, r)
                 /\ sweep' = [sweep EXCEPT ![q] = rest]
                 /\ UNCHANGED upload
  /\ UNCHANGED <<requests, vouchers, mishaps>>

\* The row is read again after the claim.
Reread(q) ==
  /\ At(q, "claimed")
  /\ LET row == upload[sweep[q].row]
     IN  sweep' = [sweep EXCEPT ![q].pc = "send", ![q].attempts = row.attempts,
                                ![q].done = row.receipts]
  /\ UNCHANGED <<upload, requests, vouchers, mishaps>>

ToSend(q) == LinesOf[sweep[q].row] \ {receipt.line : receipt \in sweep[q].done}

\* The next line: a request if there is a token that has not expired, else the
\* token first.
NextLine(q) ==
  /\ At(q, "send") /\ ToSend(q) # {} /\ sweep[q].budget > 0
  /\ LET line == IF "CASH" \in ToSend(q) THEN "CASH" ELSE "TRANSFER"
     IN  \E token \in {sweep[q].token, FALSE} :
           /\ sweep' = [sweep EXCEPT ![q].pc = IF token THEN "post" ELSE "auth",
                                     ![q].token = token, ![q].line = line,
                                     ![q].budget = @ - 1,
                                     ![q].retryAuth = TRUE, ![q].age = 0]
           /\ requests' = requests \cup (IF token THEN {<<sweep[q].row, line>>} ELSE {})
  /\ UNCHANGED <<upload, vouchers, mishaps>>

\* Out of requests: the row goes back as if it had not been claimed.
Release(q) ==
  /\ At(q, "send") /\ ToSend(q) # {} /\ sweep[q].budget = 0
  /\ LET r == sweep[q].row
     IN  Write(q, r, "PENDIENTE", upload[r].attempts - 1, sweep[q].done, End(q))
  /\ UNCHANGED <<requests, vouchers, mishaps>>

\* q with its row dealt with, on to the next one.
Onwards(q) == [sweep[q] EXCEPT !.pc = "next", !.row = NoUpload, !.attempts = 0, !.done = {},
                               !.failure = "NONE"]

\* Every line has its voucher.
Synced(q) ==
  /\ At(q, "send") /\ ToSend(q) = {}
  /\ LET r == sweep[q].row
     IN  Write(q, r, "SINCRONIZADO", upload[r].attempts, sweep[q].done, Onwards(q))
  /\ UNCHANGED <<requests, vouchers, mishaps>>

\* The receipt of the last answer is kept before the next request.
SaveProgress(q) ==
  /\ At(q, "save")
  /\ LET r == sweep[q].row
     IN  Write(q, r, upload[r].status, upload[r].attempts, sweep[q].done,
               [sweep[q] EXCEPT !.pc = "send"])
  /\ UNCHANGED <<requests, vouchers, mishaps>>

RecordFailure(q) ==
  /\ At(q, "failed")
  /\ LET r == sweep[q].row
         action == sweep[q].failure
         status == CASE action \in {"RETRY", "PAUSE"} -> "PENDIENTE"
                     [] action = "FAIL" -> "FALLIDO"
                     [] action = "BLOCK" -> "BLOQUEADO"
     IN  IF action = "PAUSE"
         THEN Write(q, r, status, upload[r].attempts - 1, sweep[q].done, End(q))
         ELSE Write(q, r, status, upload[r].attempts, sweep[q].done, Onwards(q))
  /\ UNCHANGED <<requests, vouchers, mishaps>>

-----------------------------------------------------------------------------
(* The client of Siigo's API *)

\* The call of q ends in an error, which recordFailure has yet to write.
Fails(q, kind) ==
  /\ kind \in {"AUTH", "INTERNAL"} => mishaps < MaxMishaps
  /\ mishaps' = IF kind \in {"AUTH", "INTERNAL"} THEN mishaps + 1 ELSE mishaps
  /\ sweep' = [sweep EXCEPT ![q].pc = "failed", ![q].age = 0, ![q].line = "CASH",
                            ![q].retryAuth = TRUE, ![q].token = @ /\ kind # "AUTH",
                            ![q].failure = DecideFailure(kind, sweep[q].attempts)]

Fetching(q) == sweep[q].pc \in {"auth", "post"}

\* POST /auth answers with a token; the request that needs it follows.
Authenticated(q) ==
  /\ At(q, "auth")
  /\ sweep' = [sweep EXCEPT ![q].pc = "post", ![q].token = TRUE, ![q].age = 0]
  /\ requests' = requests \cup {<<sweep[q].row, sweep[q].line>>}
  /\ UNCHANGED <<upload, vouchers, mishaps>>

\* Variant with a bug: every 401 asks for another token.
MayRetryAuthAlways(q) == TRUE

MayRetryAuth(q) == sweep[q].retryAuth

\* 401: once per call the token is forgotten and the request made again.
Unauthorized(q) ==
  /\ At(q, "post")
  /\ \/ /\ MayRetryAuth(q)
        /\ sweep' = [sweep EXCEPT ![q].pc = "auth", ![q].token = FALSE,
                                  ![q].retryAuth = FALSE, ![q].age = 0]
        /\ UNCHANGED mishaps
     \/ ~MayRetryAuth(q) /\ Fails(q, Classify(401, "other"))
  /\ UNCHANGED <<upload, requests, vouchers>>

Refused(q) ==
  /\ Fetching(q)
  /\ \E refusal \in Refusals : Fails(q, Classify(refusal.status, refusal.code))
  /\ UNCHANGED <<upload, requests, vouchers>>

\* The abort signal fires, or the connection breaks: Siigo may still act.
TimedOut(q) ==
  /\ Fetching(q)
  /\ \/ (Timely => sweep[q].age = Timeout) /\ Fails(q, "TIMEOUT")
     \/ Fails(q, "UNAVAILABLE")
  /\ UNCHANGED <<upload, requests, vouchers>>

\* Siigo carries out a request, of a call that may be over: a key it knows
\* stands for the voucher it has.
Issue(r, line) ==
  /\ <<r, line>> \in requests
  /\ \A v \in vouchers : v.key # IdempotencyKey(r, line)
  /\ vouchers' = vouchers \cup {Voucher(r, line)}
  /\ UNCHANGED <<upload, requests, sweep, mishaps>>

\* The answer names the voucher of the key; or it has no id that can be read.
Answered(q) ==
  /\ At(q, "post")
  /\ \E v \in vouchers :
       /\ v.key = IdempotencyKey(sweep[q].row, sweep[q].line)
       /\ \/ /\ sweep' = [sweep EXCEPT ![q].pc = "save", ![q].age = 0,
                            ![q].done = @ \cup {[line |-> sweep[q].line, voucher |-> v]}]
             /\ UNCHANGED mishaps
          \/ Fails(q, "UNKNOWN")
  /\ UNCHANGED <<upload, requests, vouchers>>

-----------------------------------------------------------------------------
(* Faults and time *)

\* A database error while progress is saved blocks the row.
SaveFails(q) ==
  /\ At(q, "save")
  /\ Fails(q, "INTERNAL")
  /\ UNCHANGED <<upload, requests, vouchers>>

\* The process dies; its successor has no token and no sweep.
Crash(q) ==
  /\ ~At(q, "idle")
  /\ mishaps < MaxMishaps
  /\ mishaps' = mishaps + 1
  /\ sweep' = [sweep EXCEPT ![q] = Idle]
  /\ UNCHANGED <<upload, requests, vouchers>>

\* A timely process does all it does between two requests within one tick, and
\* no request outlives its timeout.  One that is not may be held up anywhere, for
\* any time.
OnTime(q) == At(q, "idle") \/ (Fetching(q) /\ sweep[q].age < Timeout)

Tick ==
  /\ Timely => \A q \in Sweepers : OnTime(q)
  /\ upload' = [r \in Uploads |->
                  IF upload[r].status \in Open
                  THEN [upload[r] EXCEPT !.idle = IF Timely THEN Least(@ + 1, StaleSending)
                                                 ELSE StaleSending]
                  ELSE upload[r]]
  /\ sweep' = [q \in Sweepers |->
                 IF Timely /\ Fetching(q) THEN [sweep[q] EXCEPT !.age = @ + 1]
                 ELSE sweep[q]]
  /\ UNCHANGED <<requests, vouchers, mishaps>>

-----------------------------------------------------------------------------

Step(q) ==
  \/ SweepEnds(q) \/ Claim(q) \/ Reread(q) \/ NextLine(q) \/ Release(q) \/ Synced(q)
  \/ SaveProgress(q) \/ RecordFailure(q)
  \/ Authenticated(q) \/ Unauthorized(q) \/ Refused(q) \/ TimedOut(q) \/ Answered(q)
  \/ SaveFails(q)

Next ==
  \/ \E r \in Uploads : Complete(r)
  \/ \E q \in Sweepers : Sweep(q) \/ Step(q) \/ Crash(q)
  \/ \E r \in Uploads, line \in {"CASH", "TRANSFER"} : Issue(r, line)
  \/ Tick

Spec == Init /\ [][Next]_siigoVars

-----------------------------------------------------------------------------
(* Properties *)

TypeOK ==
  /\ upload \in [Uploads -> [status : Statuses, attempts : Nat, receipts : SUBSET Receipt,
                             idle : 0 .. StaleSending]]
  /\ requests \subseteq Uploads \X {"CASH", "TRANSFER"}
  /\ vouchers \subseteq {Voucher(r, l) : r \in Uploads, l \in {"CASH", "TRANSFER"}}
  /\ mishaps \in 0 .. MaxMishaps

\* A row reported as uploaded has a voucher of its own at Siigo for each of its
\* payment lines, however often its sending was interrupted, repeated or taken
\* over while the first sender went on (retries, siigoIdempotencyKey).
SyncedIsComplete ==
  \A r \in Uploads : upload[r].status = "SINCRONIZADO" =>
    \A l \in LinesOf[r] : \E v \in vouchers : v.upload = r /\ v.line = l

Theirs(r, receipts) ==
  \A e \in receipts :
    /\ e.voucher = Voucher(r, e.line)
    /\ e.voucher \in vouchers
    /\ e.line \in LinesOf[r]

\* The receipts on record are vouchers of that row and line, and a line has one:
\* the document numbers an accountant reads on the row are the right ones.
ReceiptsAreTheirs == \A r \in Uploads : Theirs(r, upload[r].receipts)

\* The ten minutes after which an upload counts as abandoned are longer than any
\* call can last: four requests, each with its timeout, when the token has to be
\* renewed twice.  So processes that keep their pace never send one row together.
OneSender ==
  \A p, q \in Sweepers :
    sweep[p].row # NoUpload /\ sweep[p].row = sweep[q].row => p = q

\* Nothing sends a settled row again or takes its verdict back (the updates of
\* send and recordFailure name only the id of the row).
VerdictsStand ==
  \A r \in Uploads : upload[r].status \in Settled => upload'[r] = upload[r]

\* Every upload there is has its verdict.
NothingOpen == \A r \in Uploads : upload[r].status \notin Open

-----------------------------------------------------------------------------
(* What sweeps know between their steps: the inductive invariants *)

SiigoBounds ==
  /\ Uploads \subseteq Nat /\ NoUpload \notin Uploads
  /\ LinesOf \in [Uploads -> SUBSET {"CASH", "TRANSFER"}]
  /\ Timeout \in Nat /\ StaleSending \in Nat /\ RequestsPerSweep \in Nat
  /\ MaxMishaps \in Nat

\* Four requests, each with its timeout, end before a row counts as abandoned.
Punctuality == Timely /\ 4 * Timeout < StaleSending

Sending == {"claimed", "send", "auth", "post", "save", "failed"}

\* What a process may remember.
Frames ==
  [pc : {"idle", "next"} \cup Sending, due : SUBSET Uploads, fresh : SUBSET Uploads,
   budget : Nat, row : Uploads \cup {NoUpload}, attempts : Int, done : SUBSET Receipt,
   line : {"CASH", "TRANSFER"}, retryAuth : BOOLEAN, token : BOOLEAN, age : Nat,
   failure : {"NONE", "RETRY", "PAUSE", "FAIL", "BLOCK"}]

\* A process that sends has a row, and what it knows of its vouchers is true.
Sends(f) ==
  /\ f.pc \in Sending <=> f.row # NoUpload
  /\ IF f.row = NoUpload THEN f.done = {} ELSE Theirs(f.row, f.done)
  /\ f.pc \in {"auth", "post", "save"} => f.line \in LinesOf[f.row]
  /\ f.pc = "failed" => f.failure # "NONE"

\* The vouchers follow from the requests, the receipts from the vouchers.
Bookkeeping ==
  /\ sweep \in [Sweepers -> Frames]
  /\ upload \in [Uploads -> [status : Statuses, attempts : Int, receipts : SUBSET Receipt,
                             idle : 0 .. StaleSending]]
  /\ mishaps \in 0 .. MaxMishaps
  /\ \A x \in requests : \E r \in Uploads : \E l \in LinesOf[r] : x = <<r, l>>
  /\ \A v \in vouchers : \E r \in Uploads : \E l \in LinesOf[r] : v = Voucher(r, l)
  /\ \A q \in Sweepers : Sends(sweep[q])
  /\ ReceiptsAreTheirs
  /\ SyncedIsComplete

\* The longest that the row of a process may have been left alone by it.
Elapsed(f) ==
  CASE f.pc \in {"claimed", "send"} -> 0
    [] f.pc = "auth" -> f.age + (IF f.retryAuth THEN 0 ELSE 2 * Timeout)
    [] f.pc = "post" -> f.age + (IF f.retryAuth THEN Timeout ELSE 3 * Timeout)
    [] OTHER -> 4 * Timeout

\* Nobody else has the row of q, or read it while it was due.
Holds(q) ==
  LET r == sweep[q].row
  IN  r # NoUpload =>
        /\ upload[r].status = "ENVIANDO" /\ upload[r].attempts > 0
        /\ upload[r].idle <= Elapsed(sweep[q])
        /\ \A p \in Sweepers : r \notin sweep[p].fresh /\ (sweep[p].row = r => p = q)

\* What q read is as it was, and its requests are under way for a timeout at most.
Fresh(q) ==
  /\ \A r \in sweep[q].fresh : upload[r].status \in Open
  /\ Fetching(q) => sweep[q].age <= Timeout

\* With processes that keep their pace, all of this is kept.
Claims ==
  /\ Bookkeeping
  /\ \A r \in Uploads : upload[r].attempts >= 0
  /\ \A q \in Sweepers : Holds(q) /\ Fresh(q)
=============================================================================
