--------------------------- MODULE Outbound_proofs ---------------------------
(***************************************************************************)
(* What leaves for other systems, for any number of processes: the income  *)
(* of completed reservations (SiigoSync), business events (ConduitOutbox), *)
(* campaigns (Campaigns), the notices of a booking (Notices), invitations  *)
(* after a visit (FollowUps) and pictures (Media).  They share no state,   *)
(* parameters and variables by name only; they are instances here, as they *)
(* are in the modules that check them.                                     *)
(***************************************************************************)
EXTENDS Integers, Sequences, FiniteSets, FiniteSetTheorems, WellFoundedInduction, TLAPS

CONSTANTS
  Uploads, LinesOf, Sweepers, MaxAttempts, BaseRetryDelay, MaxRetryDelay, StaleSending,
  Timeout, RequestsPerSweep, CandidateLimit, Timely, MaxMishaps, NoUpload,
  Events, Workers, Attempts, MaxStalls, MaxRetries, MaxFaults, NoJob,
  Campaign, Recipients, CampaignOf, ClientOf, Operations, Runners, BreakerStreak,
  Gap, HourlyCap, Hour, MaxPerDay, Day, Window, Cooldown, RetryDelay, Calm, MaxResumes,
  Nobody,
  Group, Admins, Offered, MaxEvents,
  Visits, Rules, TreatmentRules, Promoted, Days, From, To, Horizon, MaxChanges,
  Kinds, MaxFailures, MaxCrashes

VARIABLES
  upload, requests, vouchers, sweep, mishaps,
  event, received, job, worker, publishing,
  campaign, recipient, finished, messages, lock, runner, phase,
  admin, faults,
  booking, listener, jobs, serving, inbox, settings, trouble, executed, now,
  rowKind, shown, stored, failures, crashes, severed, disturbed

Siigo == INSTANCE SiigoSync
Outbox == INSTANCE ConduitOutbox
Broadcast == INSTANCE Campaigns
Notify == INSTANCE Notices WITH turn <- serving
Visit == INSTANCE FollowUps WITH turn <- serving
Images == INSTANCE Media WITH kind <- rowKind

-----------------------------------------------------------------------------
(* Uploads to Siigo                                                        *)

Rows == [status : Siigo!Statuses, attempts : Int, receipts : SUBSET Siigo!Receipt,
         idle : 0 .. StaleSending]

\* The keys of two lines of two rows are different (siigoIdempotencyKey).
LEMMA KeysDiffer ==
  ASSUME NEW r, NEW s, NEW k \in {"CASH", "TRANSFER"}, NEW l \in {"CASH", "TRANSFER"},
         Siigo!IdempotencyKey(r, k) = Siigo!IdempotencyKey(s, l)
  PROVE  r = s /\ k = l
BY DEF Siigo!IdempotencyKey

\* A process goes on without writing a row.
LEMMA FrameBook ==
  ASSUME Siigo!SiigoBounds, Siigo!Bookkeeping, NEW q \in Sweepers, NEW f \in Siigo!Frames, Siigo!Sends(f),
         sweep' = [sweep EXCEPT ![q] = f],
         UNCHANGED <<upload, vouchers>>, mishaps' \in 0 .. MaxMishaps,
         \A x \in requests' : \E r \in Uploads : \E l \in LinesOf[r] : x = <<r, l>>
  PROVE  Siigo!Bookkeeping'
<1>1. sweep' \in [Sweepers -> Siigo!Frames]
  BY DEF Siigo!Bookkeeping
<1>2. \A p \in Sweepers : Siigo!Sends(sweep[p])'
  <2> SUFFICES ASSUME NEW p \in Sweepers
               PROVE  Siigo!Sends(sweep[p])'
    OBVIOUS
  <2>1. Siigo!Sends(sweep'[p])
    BY DEF Siigo!Bookkeeping
  <2> QED
    BY <2>1 DEF Siigo!Sends, Siigo!Theirs
<1>3. Siigo!ReceiptsAreTheirs'
  BY DEF Siigo!Bookkeeping, Siigo!ReceiptsAreTheirs, Siigo!Theirs
<1>4. Siigo!SyncedIsComplete'
  BY DEF Siigo!Bookkeeping, Siigo!SyncedIsComplete
<1> QED
  BY <1>1, <1>2, <1>3, <1>4 DEF Siigo!Bookkeeping

\* A process writes what it knows of the row it has claimed, or claims one.
LEMMA WriteBook ==
  ASSUME Siigo!SiigoBounds, Siigo!Bookkeeping, NEW q \in Sweepers, NEW r \in Uploads,
         NEW status \in Siigo!Statuses, NEW attempts \in Int, NEW receipts \in SUBSET Siigo!Receipt,
         NEW next \in Siigo!Frames, Siigo!Sends(next), Siigo!Theirs(r, receipts),
         Siigo!Write(q, r, status, attempts, receipts, next),
         status = "SINCRONIZADO" => \A l \in LinesOf[r] :
                                      \E v \in vouchers : v.upload = r /\ v.line = l,
         UNCHANGED <<vouchers, requests, mishaps>>
  PROVE  Siigo!Bookkeeping'
<1>1. sweep' \in [Sweepers -> Siigo!Frames]
  <2>1. \A p \in Sweepers : sweep[p] \in Siigo!Frames
    BY DEF Siigo!Bookkeeping
  <2>2. \A f \in Siigo!Frames : [f EXCEPT !.fresh = @ \ {r}] \in Siigo!Frames
    BY DEF Siigo!Frames
  <2> QED
    BY <2>1, <2>2 DEF Siigo!Write
<1>2. upload' \in [Uploads -> Rows]
  <2>1. [status |-> status, attempts |-> attempts, receipts |-> receipts, idle |-> 0]
          \in Rows
    BY DEF Rows, Siigo!SiigoBounds
  <2>2. upload \in [Uploads -> Rows]
    BY DEF Siigo!Bookkeeping, Rows
  <2> QED
    BY <2>1, <2>2 DEF Siigo!Write
<1>3. \A p \in Sweepers : Siigo!Sends(sweep[p])'
  <2> SUFFICES ASSUME NEW p \in Sweepers
               PROVE  Siigo!Sends(sweep[p])'
    OBVIOUS
  <2> DEFINE f == IF p = q THEN next ELSE sweep[p]
  <2>1. sweep'[p] = [f EXCEPT !.fresh = @ \ {r}]
    BY DEF Siigo!Write
  <2>2. f \in Siigo!Frames /\ Siigo!Sends(f)
    BY DEF Siigo!Bookkeeping
  <2> HIDE DEF f
  <2>3. Siigo!Sends(sweep'[p])
    BY <2>1, <2>2 DEF Siigo!Sends, Siigo!Frames
  <2> QED
    BY <2>3 DEF Siigo!Sends, Siigo!Theirs
<1>4. Siigo!ReceiptsAreTheirs'
  <2> SUFFICES ASSUME NEW s \in Uploads
               PROVE  Siigo!Theirs(s, upload'[s].receipts)
    BY DEF Siigo!ReceiptsAreTheirs, Siigo!Theirs
  <2>1. CASE s = r
    <3>1. upload'[r].receipts = receipts
      BY DEF Siigo!Write, Siigo!Bookkeeping
    <3> QED
      BY <2>1, <3>1
  <2>2. CASE s # r
    <3>1. upload'[s] = upload[s]
      BY <2>2 DEF Siigo!Write, Siigo!Bookkeeping
    <3> QED
      BY <3>1 DEF Siigo!Bookkeeping, Siigo!ReceiptsAreTheirs
  <2> QED
    BY <2>1, <2>2
<1>5. Siigo!SyncedIsComplete'
  <2>1. upload'[r].status = status /\ \A s \in Uploads \ {r} : upload'[s] = upload[s]
    BY DEF Siigo!Write, Siigo!Bookkeeping
  <2> QED
    BY <2>1 DEF Siigo!Bookkeeping, Siigo!SyncedIsComplete
<1> QED
  BY <1>1, <1>2, <1>3, <1>4, <1>5 DEF Siigo!Bookkeeping, Rows

\* The frame that a process starts from and returns to.
LEMMA EndIsFrame ==
  ASSUME Siigo!SiigoBounds, Siigo!Bookkeeping, NEW q \in Sweepers
  PROVE  /\ Siigo!Idle \in Siigo!Frames /\ Siigo!Sends(Siigo!Idle)
         /\ Siigo!End(q) \in Siigo!Frames /\ Siigo!Sends(Siigo!End(q))
<1>1. sweep[q].token \in BOOLEAN
  BY DEF Siigo!Bookkeeping, Siigo!Frames
<1>2. Siigo!Idle \in Siigo!Frames
  BY DEF Siigo!Idle, Siigo!Frames, Siigo!SiigoBounds
<1>3. Siigo!End(q) \in Siigo!Frames
  BY <1>1, <1>2 DEF Siigo!End, Siigo!Frames
<1> QED
  BY <1>2, <1>3 DEF Siigo!Idle, Siigo!End, Siigo!Sends, Siigo!Sending

LEMMA OnwardsIsFrame ==
  ASSUME Siigo!SiigoBounds, Siigo!Bookkeeping, NEW q \in Sweepers
  PROVE  Siigo!Onwards(q) \in Siigo!Frames /\ Siigo!Sends(Siigo!Onwards(q))
<1>1. sweep[q] \in Siigo!Frames
  BY DEF Siigo!Bookkeeping
<1>2. Siigo!Onwards(q) \in Siigo!Frames
  <2>1. \A f \in Siigo!Frames : [f EXCEPT !.pc = "next", !.row = NoUpload] \in Siigo!Frames
    BY DEF Siigo!Frames
  <2>2. \A f \in Siigo!Frames : [f EXCEPT !.attempts = 0] \in Siigo!Frames
    BY DEF Siigo!Frames
  <2>3. \A f \in Siigo!Frames : [f EXCEPT !.done = {}] \in Siigo!Frames
    BY DEF Siigo!Frames
  <2>4. \A f \in Siigo!Frames : [f EXCEPT !.failure = "NONE"] \in Siigo!Frames
    BY DEF Siigo!Frames
  <2> DEFINE g == [sweep[q] EXCEPT !.pc = "next", !.row = NoUpload]
             h == [[g EXCEPT !.attempts = 0] EXCEPT !.done = {}]
  <2>5. h \in Siigo!Frames /\ [h EXCEPT !.failure = "NONE"] \in Siigo!Frames
    BY <1>1, <2>1, <2>2, <2>3, <2>4
  <2>6. Siigo!Onwards(q) = [h EXCEPT !.failure = "NONE"]
    BY <1>1 DEF Siigo!Onwards, Siigo!Frames
  <2> QED
    BY <2>5, <2>6
<1>3. Siigo!Onwards(q).pc = "next" /\ Siigo!Onwards(q).row = NoUpload /\ Siigo!Onwards(q).done = {}
  BY <1>1 DEF Siigo!Onwards, Siigo!Frames
<1> QED
  BY <1>2, <1>3 DEF Siigo!Sends, Siigo!Sending

LEMMA Decided ==
  ASSUME NEW kind, NEW attempts
  PROVE  Siigo!DecideFailure(kind, attempts) \in {"RETRY", "PAUSE", "FAIL", "BLOCK"}
BY DEF Siigo!DecideFailure

\* A call that fails leaves the process with the failure to record.
LEMMA FailsFrame ==
  ASSUME Siigo!SiigoBounds, Siigo!Bookkeeping, NEW q \in Sweepers, NEW kind, Siigo!Fails(q, kind),
         sweep[q].pc \in Siigo!Sending
  PROVE  /\ mishaps' \in 0 .. MaxMishaps
         /\ \E f \in Siigo!Frames : /\ sweep' = [sweep EXCEPT ![q] = f] /\ Siigo!Sends(f)
                              /\ f.pc = "failed" /\ f.row = sweep[q].row
                              /\ f.fresh = sweep[q].fresh
<1> DEFINE d == Siigo!DecideFailure(kind, sweep[q].attempts)
           f == [sweep[q] EXCEPT !.pc = "failed", !.age = 0, !.line = "CASH",
                                 !.retryAuth = TRUE, !.token = @ /\ kind # "AUTH",
                                 !.failure = d]
<1>1. mishaps' \in 0 .. MaxMishaps
  BY DEF Siigo!Fails, Siigo!Bookkeeping, Siigo!SiigoBounds
<1>2. sweep[q] \in Siigo!Frames /\ Siigo!Sends(sweep[q])
  BY DEF Siigo!Bookkeeping
<1>3. d \in {"RETRY", "PAUSE", "FAIL", "BLOCK"}
  BY Decided
<1>4. sweep' = [sweep EXCEPT ![q] = f]
  BY DEF Siigo!Fails
<1> HIDE DEF d
<1>5. f \in Siigo!Frames
  <2>1. PICK g \in Siigo!Frames : g = sweep[q]
    BY <1>2
  <2>2. PICK token \in BOOLEAN : token <=> (g.token /\ kind # "AUTH")
    OBVIOUS
  <2>3. \A x \in Siigo!Frames :
          [x EXCEPT !.pc = "failed", !.age = 0, !.line = "CASH"] \in Siigo!Frames
    <3> SUFFICES ASSUME NEW x \in Siigo!Frames
                 PROVE  [x EXCEPT !.pc = "failed", !.age = 0, !.line = "CASH"] \in Siigo!Frames
      OBVIOUS
    <3> QED
      BY DEF Siigo!Frames, Siigo!Sending
  <2>4. \A x \in Siigo!Frames :
          [x EXCEPT !.retryAuth = TRUE, !.token = token, !.failure = d] \in Siigo!Frames
    BY <1>3 DEF Siigo!Frames
  <2> DEFINE h == [g EXCEPT !.pc = "failed", !.age = 0, !.line = "CASH"]
  <2>5. [h EXCEPT !.retryAuth = TRUE, !.token = token, !.failure = d] \in Siigo!Frames
    <3> HIDE DEF h
    <3> QED
      BY <2>1, <2>3, <2>4 DEF h
  <2>6. (g.token /\ kind # "AUTH") = token
    BY <2>2 DEF Siigo!Frames
  <2>7. f = [h EXCEPT !.retryAuth = TRUE, !.token = token, !.failure = d]
    BY <2>1, <2>6 DEF Siigo!Frames
  <2> QED
    BY <2>5, <2>7
<1>6. Siigo!Sends(f)
  BY <1>2, <1>3 DEF Siigo!Sends, Siigo!Sending, Siigo!Frames
<1>7. f.pc = "failed" /\ f.row = sweep[q].row /\ f.fresh = sweep[q].fresh
  BY <1>2 DEF Siigo!Frames
<1> QED
  BY <1>1, <1>4, <1>5, <1>6, <1>7

LEMMA FailsBook ==
  ASSUME Siigo!SiigoBounds, Siigo!Bookkeeping, NEW q \in Sweepers, NEW kind, Siigo!Fails(q, kind),
         sweep[q].pc \in Siigo!Sending, UNCHANGED <<upload, requests, vouchers>>
  PROVE  Siigo!Bookkeeping'
<1>1. \A x \in requests' : \E r \in Uploads : \E l \in LinesOf[r] : x = <<r, l>>
  BY DEF Siigo!Bookkeeping
<1> QED
  BY <1>1, FailsFrame, FrameBook

LEMMA InitBook == ASSUME Siigo!SiigoBounds, Siigo!Init PROVE Siigo!Bookkeeping
<1>1. Siigo!Idle \in Siigo!Frames /\ Siigo!Sends(Siigo!Idle)
  BY DEF Siigo!Idle, Siigo!Frames, Siigo!SiigoBounds, Siigo!Sends, Siigo!Sending
<1>2. \A r \in Uploads : upload[r] = [status |-> "ABSENT", attempts |-> 0,
                                      receipts |-> {}, idle |-> 0]
  BY DEF Siigo!Init
<1>3. upload \in [Uploads -> Rows]
  BY DEF Siigo!Init, Rows, Siigo!SiigoBounds, Siigo!Statuses
<1> QED
  BY <1>1, <1>2, <1>3
  DEF Siigo!Init, Siigo!Bookkeeping, Rows, Siigo!ReceiptsAreTheirs, Siigo!SyncedIsComplete,
    Siigo!Theirs, Siigo!SiigoBounds

\* What the steps of a sweep read and send.
LEMMA SweepBook ==
  ASSUME Siigo!SiigoBounds, Siigo!Bookkeeping, NEW q \in Sweepers,
         Siigo!Sweep(q) \/ Siigo!SweepEnds(q) \/ Siigo!Reread(q) \/ Siigo!NextLine(q)
  PROVE  Siigo!Bookkeeping'
<1>1. sweep[q] \in Siigo!Frames /\ Siigo!Sends(sweep[q])
  BY DEF Siigo!Bookkeeping
<1>2. \A x \in requests : \E r \in Uploads : \E l \in LinesOf[r] : x = <<r, l>>
  BY DEF Siigo!Bookkeeping
<1>3. mishaps \in 0 .. MaxMishaps
  BY DEF Siigo!Bookkeeping
<1>4. CASE Siigo!Sweep(q)
  <2> DEFINE due == {r \in Siigo!Candidates : Siigo!IsDue(upload[r])}
             f == [Siigo!End(q) EXCEPT !.pc = "next", !.due = due, !.fresh = due,
                                 !.budget = RequestsPerSweep]
  <2>1. due \subseteq Uploads
    BY DEF Siigo!Candidates
  <2> HIDE DEF due
  <2>2. f \in Siigo!Frames
    <3>1. PICK g \in Siigo!Frames : g = Siigo!End(q)
      BY EndIsFrame
    <3>2. \A x \in Siigo!Frames : [x EXCEPT !.pc = "next", !.due = due] \in Siigo!Frames
      BY <2>1 DEF Siigo!Frames
    <3>3. \A x \in Siigo!Frames :
            [x EXCEPT !.fresh = due, !.budget = RequestsPerSweep] \in Siigo!Frames
      BY <2>1 DEF Siigo!Frames, Siigo!SiigoBounds
    <3> DEFINE h == [g EXCEPT !.pc = "next", !.due = due]
    <3>4. [h EXCEPT !.fresh = due, !.budget = RequestsPerSweep] \in Siigo!Frames
      <4> HIDE DEF h
      <4> QED
        BY <3>1, <3>2, <3>3 DEF h
    <3>5. f = [h EXCEPT !.fresh = due, !.budget = RequestsPerSweep]
      BY <3>1 DEF Siigo!Frames
    <3> QED
      BY <3>4, <3>5
  <2>3. Siigo!Sends(f)
    BY EndIsFrame DEF Siigo!Sends, Siigo!End, Siigo!Idle, Siigo!Sending
  <2>4. sweep' = [sweep EXCEPT ![q] = f]
    BY <1>4 DEF Siigo!Sweep, due
  <2> QED
    BY <1>2, <1>3, <1>4, <2>2, <2>3, <2>4, FrameBook DEF Siigo!Sweep
<1>5. CASE Siigo!SweepEnds(q)
  BY <1>2, <1>3, <1>5, EndIsFrame, FrameBook DEF Siigo!SweepEnds
<1>6. CASE Siigo!Reread(q)
  <2> DEFINE row == upload[sweep[q].row]
             f == [sweep[q] EXCEPT !.pc = "send", !.attempts = row.attempts,
                                   !.done = row.receipts]
  <2>1. sweep[q].row \in Uploads
    BY <1>1, <1>6 DEF Siigo!Reread, Siigo!At, Siigo!Sends, Siigo!Sending, Siigo!Frames
  <2>2. row \in Rows /\ Siigo!Theirs(sweep[q].row, row.receipts)
    BY <2>1 DEF Siigo!Bookkeeping, Rows, Siigo!ReceiptsAreTheirs
  <2>3. f \in Siigo!Frames
    BY <1>1, <2>2 DEF Siigo!Frames, Rows, Siigo!Sending
  <2>4. Siigo!Sends(f)
    BY <1>1, <1>6, <2>1, <2>2 DEF Siigo!Sends, Siigo!Frames, Siigo!Sending, Siigo!Reread,
      Siigo!At
  <2>5. sweep' = [sweep EXCEPT ![q] = f]
    BY <1>6 DEF Siigo!Reread
  <2> QED
    BY <1>2, <1>3, <1>6, <2>3, <2>4, <2>5, FrameBook DEF Siigo!Reread
<1>7. CASE Siigo!NextLine(q)
  <2>1. sweep[q].row \in Uploads
    BY <1>1, <1>7 DEF Siigo!NextLine, Siigo!At, Siigo!Sends, Siigo!Sending, Siigo!Frames
  <2> DEFINE line == IF "CASH" \in Siigo!ToSend(q) THEN "CASH" ELSE "TRANSFER"
  <2>2. line \in LinesOf[sweep[q].row] /\ line \in {"CASH", "TRANSFER"}
    <3>1. Siigo!ToSend(q) # {} /\ Siigo!ToSend(q) \subseteq LinesOf[sweep[q].row]
      BY <1>7 DEF Siigo!NextLine, Siigo!ToSend
    <3>2. LinesOf[sweep[q].row] \subseteq {"CASH", "TRANSFER"}
      BY <2>1 DEF Siigo!SiigoBounds
    <3> QED
      BY <3>1, <3>2
  <2> HIDE DEF line
  <2>3. PICK token \in {sweep[q].token, FALSE} :
          /\ sweep' = [sweep EXCEPT ![q].pc = IF token THEN "post" ELSE "auth",
                                    ![q].token = token, ![q].line = line,
                                    ![q].budget = @ - 1,
                                    ![q].retryAuth = TRUE, ![q].age = 0]
          /\ requests' = requests \cup (IF token THEN {<<sweep[q].row, line>>} ELSE {})
    BY <1>7 DEF Siigo!NextLine, line
  <2> DEFINE f == [sweep[q] EXCEPT !.pc = IF token THEN "post" ELSE "auth",
                                   !.token = token, !.line = line, !.budget = @ - 1,
                                   !.retryAuth = TRUE, !.age = 0]
  <2>4. sweep' = [sweep EXCEPT ![q] = f]
    BY <2>3
  <2>5. /\ token \in BOOLEAN
        /\ sweep[q].budget - 1 \in Nat
    <3>1. sweep[q].token \in BOOLEAN /\ sweep[q].budget \in Nat
      BY <1>1 DEF Siigo!Frames
    <3>2. token \in BOOLEAN
      BY <3>1
    <3>3. sweep[q].budget > 0
      BY <1>7 DEF Siigo!NextLine
    <3> QED
      BY <3>1, <3>2, <3>3
  <2>6. f \in Siigo!Frames
    <3>1. (IF token THEN "post" ELSE "auth") \in Siigo!Sending
      BY DEF Siigo!Sending
    <3> QED
      BY <1>1, <2>2, <2>5, <3>1 DEF Siigo!Frames
  <2>7. Siigo!Sends(f)
    BY <1>1, <1>7, <2>1, <2>2 DEF Siigo!Sends, Siigo!Sending, Siigo!Frames, Siigo!NextLine,
      Siigo!At
  <2>8. \A x \in requests' : \E r \in Uploads : \E l \in LinesOf[r] : x = <<r, l>>
    BY <1>2, <2>1, <2>2, <2>3
  <2> QED
    BY <1>3, <1>7, <2>4, <2>6, <2>7, <2>8, FrameBook DEF Siigo!NextLine
<1> QED
  BY <1>4, <1>5, <1>6, <1>7

\* Whatever a process has come to know of its row it may write there.
LEMMA Known ==
  ASSUME Siigo!SiigoBounds, Siigo!Bookkeeping, NEW q \in Sweepers, sweep[q].pc \in Siigo!Sending
  PROVE  LET r == sweep[q].row IN
         /\ r \in Uploads /\ upload[r] \in Rows
         /\ sweep[q] \in Siigo!Frames /\ Siigo!Sends(sweep[q])
         /\ sweep[q].done \in SUBSET Siigo!Receipt /\ Siigo!Theirs(r, sweep[q].done)
BY DEF Siigo!Bookkeeping, Siigo!Frames, Siigo!Sends, Rows

\* The steps that write a row.
LEMMA ClaimBook ==
  ASSUME Siigo!SiigoBounds, Siigo!Bookkeeping, NEW q \in Sweepers, Siigo!Claim(q)
  PROVE  Siigo!Bookkeeping'
<1>1. sweep[q] \in Siigo!Frames /\ Siigo!Sends(sweep[q])
  BY DEF Siigo!Bookkeeping
<1>2. PICK r \in sweep[q].due :
        LET rest == [sweep[q] EXCEPT !.due = @ \ {r}]
        IN  \/ /\ Siigo!StillAsRead(q, r)
               /\ Siigo!Write(q, r, "ENVIANDO", upload[r].attempts + 1, upload[r].receipts,
                        [rest EXCEPT !.pc = "claimed", !.row = r])
            \/ /\ ~Siigo!StillAsRead(q, r)
               /\ sweep' = [sweep EXCEPT ![q] = rest]
               /\ UNCHANGED upload
  BY DEF Siigo!Claim
<1> DEFINE rest == [sweep[q] EXCEPT !.due = @ \ {r}]
           next == [rest EXCEPT !.pc = "claimed", !.row = r]
<1>3. r \in Uploads
  BY <1>1 DEF Siigo!Frames
<1>4. rest \in Siigo!Frames /\ Siigo!Sends(rest)
  BY <1>1 DEF Siigo!Frames, Siigo!Sends
<1>5. sweep[q].pc = "next" /\ sweep[q].row = NoUpload
  BY <1>1 DEF Siigo!Claim, Siigo!At, Siigo!Sends, Siigo!Sending
<1>6. upload[r] \in Rows /\ Siigo!Theirs(r, upload[r].receipts)
  BY <1>3 DEF Siigo!Bookkeeping, Rows, Siigo!ReceiptsAreTheirs
<1>7. CASE Siigo!StillAsRead(q, r)
  <2>1. Siigo!Write(q, r, "ENVIANDO", upload[r].attempts + 1, upload[r].receipts, next)
    BY <1>2, <1>7
  <2>2. next \in Siigo!Frames
    BY <1>3, <1>4 DEF Siigo!Frames, Siigo!Sending
  <2>3. UNCHANGED <<requests, vouchers, mishaps>>
    BY DEF Siigo!Claim
  <2>4. Siigo!Sends(next)
    <3>1. next.pc = "claimed" /\ next.row = r /\ next.done = {}
      BY <1>1, <1>5 DEF Siigo!Frames, Siigo!Sends
    <3> QED
      BY <1>3, <3>1 DEF Siigo!Sends, Siigo!Sending, Siigo!Theirs, Siigo!SiigoBounds
  <2>5. upload[r].attempts + 1 \in Int /\ upload[r].receipts \in SUBSET Siigo!Receipt
    BY <1>6 DEF Rows
  <2> QED
    BY <1>3, <1>6, <2>1, <2>2, <2>3, <2>4, <2>5, WriteBook DEF Siigo!Statuses
<1>8. CASE ~Siigo!StillAsRead(q, r)
  <2>1. sweep' = [sweep EXCEPT ![q] = rest] /\ UNCHANGED upload
    BY <1>2, <1>8
  <2> QED
    BY <1>4, <2>1, FrameBook DEF Siigo!Claim, Siigo!Bookkeeping
<1> QED
  BY <1>7, <1>8

LEMMA SettleBook ==
  ASSUME Siigo!SiigoBounds, Siigo!Bookkeeping, NEW q \in Sweepers,
         Siigo!Release(q) \/ Siigo!Synced(q) \/ Siigo!SaveProgress(q) \/ Siigo!RecordFailure(q)
  PROVE  Siigo!Bookkeeping'
<1> DEFINE r == sweep[q].row
<1>1. sweep[q].pc \in Siigo!Sending
  BY DEF Siigo!Release, Siigo!Synced, Siigo!SaveProgress, Siigo!RecordFailure, Siigo!At,
    Siigo!Sending
<1>2. /\ r \in Uploads /\ upload[r] \in Rows
      /\ sweep[q] \in Siigo!Frames /\ Siigo!Sends(sweep[q])
      /\ sweep[q].done \in SUBSET Siigo!Receipt /\ Siigo!Theirs(r, sweep[q].done)
  BY <1>1, Known
<1>3. upload[r].attempts \in Int /\ upload[r].attempts - 1 \in Int
  BY <1>2 DEF Rows
<1>4. UNCHANGED <<requests, vouchers, mishaps>>
  BY DEF Siigo!Release, Siigo!Synced, Siigo!SaveProgress, Siigo!RecordFailure
<1> HIDE DEF r
<1>5. CASE Siigo!Release(q)
  <2>1. Siigo!Write(q, r, "PENDIENTE", upload[r].attempts - 1, sweep[q].done, Siigo!End(q))
    BY <1>5 DEF Siigo!Release, r
  <2> QED
    BY <1>2, <1>3, <1>4, <2>1, EndIsFrame, WriteBook DEF Siigo!Statuses
<1>6. CASE Siigo!Synced(q)
  <2>1. Siigo!Write(q, r, "SINCRONIZADO", upload[r].attempts, sweep[q].done, Siigo!Onwards(q))
    BY <1>6 DEF Siigo!Synced, r
  <2>2. \A l \in LinesOf[r] : \E v \in vouchers : v.upload = r /\ v.line = l
    <3> SUFFICES ASSUME NEW l \in LinesOf[r]
                 PROVE  \E v \in vouchers : v.upload = r /\ v.line = l
      OBVIOUS
    <3>1. PICK e \in sweep[q].done : e.line = l
      BY <1>6 DEF Siigo!Synced, Siigo!ToSend, r
    <3>2. e.voucher = Siigo!Voucher(r, l) /\ e.voucher \in vouchers
      BY <1>2, <3>1 DEF Siigo!Theirs
    <3> QED
      BY <3>2 DEF Siigo!Voucher
  <2> QED
    BY <1>2, <1>3, <1>4, <2>1, <2>2, OnwardsIsFrame, WriteBook DEF Siigo!Statuses
<1>7. CASE Siigo!SaveProgress(q)
  <2> DEFINE next == [sweep[q] EXCEPT !.pc = "send"]
  <2>1. Siigo!Write(q, r, upload[r].status, upload[r].attempts, sweep[q].done, next)
    BY <1>7 DEF Siigo!SaveProgress, r
  <2>2. next \in Siigo!Frames /\ Siigo!Sends(next)
    BY <1>1, <1>2 DEF Siigo!Frames, Siigo!Sends, Siigo!Sending
  <2>3. upload[r].status \in Siigo!Statuses
    BY <1>2 DEF Rows
  <2>4. upload[r].status = "SINCRONIZADO" =>
          \A l \in LinesOf[r] : \E v \in vouchers : v.upload = r /\ v.line = l
    BY <1>2 DEF Siigo!Bookkeeping, Siigo!SyncedIsComplete
  <2> QED
    BY <1>2, <1>3, <1>4, <2>1, <2>2, <2>3, <2>4, WriteBook
<1>8. CASE Siigo!RecordFailure(q)
  <2> DEFINE action == sweep[q].failure
             status == CASE action \in {"RETRY", "PAUSE"} -> "PENDIENTE"
                         [] action = "FAIL" -> "FALLIDO"
                         [] action = "BLOCK" -> "BLOQUEADO"
  <2>1. \/ Siigo!Write(q, r, status, upload[r].attempts - 1, sweep[q].done, Siigo!End(q))
        \/ Siigo!Write(q, r, status, upload[r].attempts, sweep[q].done, Siigo!Onwards(q))
    BY <1>8 DEF Siigo!RecordFailure, r
  <2>2. action \in {"RETRY", "PAUSE", "FAIL", "BLOCK"}
    BY <1>2, <1>8 DEF Siigo!RecordFailure, Siigo!At, Siigo!Sends, Siigo!Frames
  <2>3. status \in {"PENDIENTE", "FALLIDO", "BLOQUEADO"}
    BY <2>2
  <2> HIDE DEF status
  <2>4. status \in Siigo!Statuses /\ status # "SINCRONIZADO"
    BY <2>3 DEF Siigo!Statuses
  <2> QED
    BY <1>2, <1>3, <1>4, <2>1, <2>4, EndIsFrame, OnwardsIsFrame, WriteBook
<1> QED
  BY <1>5, <1>6, <1>7, <1>8

\* The steps of the client of Siigo's API.
LEMMA ClientBook ==
  ASSUME Siigo!SiigoBounds, Siigo!Bookkeeping, NEW q \in Sweepers,
         Siigo!Authenticated(q) \/ Siigo!Unauthorized(q) \/ Siigo!Refused(q) \/ Siigo!TimedOut(q) \/ Siigo!Answered(q)
           \/ Siigo!SaveFails(q)
  PROVE  Siigo!Bookkeeping'
<1>1. sweep[q].pc \in {"auth", "post", "save"}
  BY DEF Siigo!Authenticated, Siigo!Unauthorized, Siigo!Refused, Siigo!TimedOut,
    Siigo!Answered, Siigo!SaveFails, Siigo!At, Siigo!Fetching
<1>2. sweep[q].pc \in Siigo!Sending
  BY <1>1 DEF Siigo!Sending
<1>3. /\ sweep[q].row \in Uploads /\ sweep[q] \in Siigo!Frames /\ Siigo!Sends(sweep[q])
      /\ sweep[q].done \in SUBSET Siigo!Receipt /\ Siigo!Theirs(sweep[q].row, sweep[q].done)
  BY <1>2, Known
<1>4. sweep[q].line \in LinesOf[sweep[q].row] /\ sweep[q].line \in {"CASH", "TRANSFER"}
  BY <1>1, <1>3 DEF Siigo!Sends, Siigo!Frames
<1>5. \A x \in requests : \E r \in Uploads : \E l \in LinesOf[r] : x = <<r, l>>
  BY DEF Siigo!Bookkeeping
<1>6. mishaps \in 0 .. MaxMishaps
  BY DEF Siigo!Bookkeeping
<1>7. CASE Siigo!Authenticated(q)
  <2> DEFINE f == [sweep[q] EXCEPT !.pc = "post", !.token = TRUE, !.age = 0]
  <2>1. f \in Siigo!Frames /\ Siigo!Sends(f)
    BY <1>1, <1>3 DEF Siigo!Frames, Siigo!Sends, Siigo!Sending
  <2>2. sweep' = [sweep EXCEPT ![q] = f]
    BY <1>7 DEF Siigo!Authenticated
  <2>3. \A x \in requests' : \E r \in Uploads : \E l \in LinesOf[r] : x = <<r, l>>
    BY <1>3, <1>4, <1>5, <1>7 DEF Siigo!Authenticated
  <2> QED
    BY <1>6, <1>7, <2>1, <2>2, <2>3, FrameBook DEF Siigo!Authenticated
<1>8. CASE Siigo!Unauthorized(q)
  <2> DEFINE f == [sweep[q] EXCEPT !.pc = "auth", !.token = FALSE,
                                   !.retryAuth = FALSE, !.age = 0]
  <2>1. CASE \E kind : Siigo!Fails(q, kind)
    BY <1>2, <1>8, <2>1, FailsBook DEF Siigo!Unauthorized
  <2>2. CASE sweep' = [sweep EXCEPT ![q] = f] /\ UNCHANGED mishaps
    <3>1. f \in Siigo!Frames /\ Siigo!Sends(f)
      BY <1>1, <1>3 DEF Siigo!Frames, Siigo!Sends, Siigo!Sending
    <3> QED
      BY <1>5, <1>6, <1>8, <2>2, <3>1, FrameBook DEF Siigo!Unauthorized
  <2> QED
    BY <1>8, <2>1, <2>2 DEF Siigo!Unauthorized
<1>9. CASE Siigo!Refused(q) \/ Siigo!TimedOut(q) \/ Siigo!SaveFails(q)
  BY <1>2, <1>9, FailsBook DEF Siigo!Refused, Siigo!TimedOut, Siigo!SaveFails
<1>10. CASE Siigo!Answered(q)
  <2>1. PICK v \in vouchers :
          /\ v.key = Siigo!IdempotencyKey(sweep[q].row, sweep[q].line)
          /\ \/ /\ sweep' = [sweep EXCEPT ![q].pc = "save", ![q].age = 0,
                             ![q].done = @ \cup {[line |-> sweep[q].line, voucher |-> v]}]
                /\ UNCHANGED mishaps
             \/ Siigo!Fails(q, "UNKNOWN")
    BY <1>10 DEF Siigo!Answered
  <2>2. PICK s \in Uploads : \E k \in LinesOf[s] : v = Siigo!Voucher(s, k)
    BY DEF Siigo!Bookkeeping
  <2>3. PICK k \in {"CASH", "TRANSFER"} : v = Siigo!Voucher(s, k)
    BY <2>2 DEF Siigo!SiigoBounds
  <2>4. v.key = Siigo!IdempotencyKey(s, k)
    BY <2>3 DEF Siigo!Voucher
  <2>5. s = sweep[q].row /\ k = sweep[q].line
    BY <1>4, <2>1, <2>3, <2>4, KeysDiffer
  <2> DEFINE e == [line |-> sweep[q].line, voucher |-> v]
             f == [sweep[q] EXCEPT !.pc = "save", !.age = 0, !.done = @ \cup {e}]
  <2>6. e \in Siigo!Receipt
    BY <1>3, <1>4, <2>3 DEF Siigo!Receipt
  <2>7. Siigo!Theirs(sweep[q].row, sweep[q].done \cup {e})
    BY <1>3, <1>4, <2>3, <2>5 DEF Siigo!Theirs
  <2> HIDE DEF e
  <2>8. CASE sweep' = [sweep EXCEPT ![q] = f] /\ UNCHANGED mishaps
    <3>1. f \in Siigo!Frames
      BY <1>3, <2>6 DEF Siigo!Frames, Siigo!Sending
    <3>2. f.pc = "save" /\ f.row = sweep[q].row /\ f.line = sweep[q].line
          /\ f.done = sweep[q].done \cup {e}
      BY <1>3 DEF Siigo!Frames
    <3>3. Siigo!Sends(f)
      BY <1>2, <1>3, <1>4, <2>7, <3>2 DEF Siigo!Sends, Siigo!Sending
    <3> QED
      BY <1>5, <1>6, <1>10, <2>8, <3>1, <3>3, FrameBook DEF Siigo!Answered
  <2>9. CASE Siigo!Fails(q, "UNKNOWN")
    BY <1>2, <1>10, <2>9, FailsBook DEF Siigo!Answered
  <2> QED
    BY <2>1, <2>8, <2>9 DEF e
<1> QED
  BY <1>7, <1>8, <1>9, <1>10

\* A reservation is completed; Siigo carries out a request; a process dies.
LEMMA WorldBook ==
  ASSUME Siigo!SiigoBounds, Siigo!Bookkeeping,
         \/ \E r \in Uploads : Siigo!Complete(r)
         \/ \E r \in Uploads, line \in {"CASH", "TRANSFER"} : Siigo!Issue(r, line)
         \/ \E q \in Sweepers : Siigo!Crash(q)
  PROVE  Siigo!Bookkeeping'
<1>1. ASSUME NEW r \in Uploads, Siigo!Complete(r)
      PROVE  Siigo!Bookkeeping'
  <2>1. upload \in [Uploads -> Rows]
    BY DEF Siigo!Bookkeeping, Rows
  <2>2. /\ upload' \in [Uploads -> Rows]
        /\ \A s \in Uploads : /\ upload'[s].receipts = upload[s].receipts
                              /\ upload'[s].status = "SINCRONIZADO" =>
                                   upload[s].status = "SINCRONIZADO"
    <3>1. [upload[r] EXCEPT !.status = "PENDIENTE"] \in Rows
      BY <2>1 DEF Rows, Siigo!Statuses
    <3>2. /\ [upload[r] EXCEPT !.status = "PENDIENTE"].receipts = upload[r].receipts
          /\ [upload[r] EXCEPT !.status = "PENDIENTE"].status = "PENDIENTE"
      BY <2>1 DEF Rows
    <3> QED
      BY <1>1, <2>1, <3>1, <3>2 DEF Siigo!Complete
  <2>3. UNCHANGED <<requests, vouchers, sweep, mishaps>>
    BY <1>1 DEF Siigo!Complete
  <2>4. Siigo!ReceiptsAreTheirs' /\ Siigo!SyncedIsComplete'
    BY <2>2, <2>3 DEF Siigo!Bookkeeping, Siigo!ReceiptsAreTheirs, Siigo!SyncedIsComplete,
      Siigo!Theirs
  <2>5. \A q \in Sweepers : Siigo!Sends(sweep[q])'
    BY <2>3 DEF Siigo!Bookkeeping, Siigo!Sends, Siigo!Theirs
  <2> QED
    BY <2>2, <2>3, <2>4, <2>5 DEF Siigo!Bookkeeping, Rows
<1>2. ASSUME NEW r \in Uploads, NEW line \in {"CASH", "TRANSFER"}, Siigo!Issue(r, line)
      PROVE  Siigo!Bookkeeping'
  <2>1. vouchers' = vouchers \cup {Siigo!Voucher(r, line)}
    BY <1>2 DEF Siigo!Issue
  <2>2. UNCHANGED <<upload, requests, sweep, mishaps>>
    BY <1>2 DEF Siigo!Issue
  <2>3. line \in LinesOf[r]
    BY <1>2 DEF Siigo!Issue, Siigo!Bookkeeping
  <2>4. \A v \in vouchers' : \E s \in Uploads : \E l \in LinesOf[s] : v = Siigo!Voucher(s, l)
    BY <2>1, <2>3 DEF Siigo!Bookkeeping
  <2>5. Siigo!ReceiptsAreTheirs' /\ Siigo!SyncedIsComplete'
    BY <2>1, <2>2 DEF Siigo!Bookkeeping, Siigo!ReceiptsAreTheirs, Siigo!SyncedIsComplete,
      Siigo!Theirs
  <2>6. \A q \in Sweepers : Siigo!Sends(sweep[q])'
    BY <2>1, <2>2 DEF Siigo!Bookkeeping, Siigo!Sends, Siigo!Theirs
  <2> QED
    BY <2>2, <2>4, <2>5, <2>6 DEF Siigo!Bookkeeping
<1>3. ASSUME NEW q \in Sweepers, Siigo!Crash(q)
      PROVE  Siigo!Bookkeeping'
  <2>1. mishaps' \in 0 .. MaxMishaps
    BY <1>3 DEF Siigo!Crash, Siigo!Bookkeeping, Siigo!SiigoBounds
  <2> QED
    BY <1>3, <2>1, EndIsFrame, FrameBook DEF Siigo!Crash, Siigo!Bookkeeping
<1> QED
  BY <1>1, <1>2, <1>3

LEMMA TickBook == ASSUME Siigo!SiigoBounds, Siigo!Bookkeeping, Siigo!Tick PROVE Siigo!Bookkeeping'
<1>1. upload \in [Uploads -> Rows] /\ sweep \in [Sweepers -> Siigo!Frames]
  BY DEF Siigo!Bookkeeping, Rows
<1>2. UNCHANGED <<requests, vouchers, mishaps>>
  BY DEF Siigo!Tick
<1>3. \A r \in Uploads : /\ upload'[r] \in Rows
                         /\ upload'[r].status = upload[r].status
                         /\ upload'[r].receipts = upload[r].receipts
  <2> SUFFICES ASSUME NEW r \in Uploads
               PROVE  /\ upload'[r] \in Rows
                      /\ upload'[r].status = upload[r].status
                      /\ upload'[r].receipts = upload[r].receipts
    OBVIOUS
  <2> DEFINE idle == IF Timely THEN Siigo!Least(upload[r].idle + 1, StaleSending)
                     ELSE StaleSending
  <2>1. upload[r] \in Rows
    BY <1>1
  <2>2. idle \in 0 .. StaleSending
    BY <2>1 DEF Siigo!Least, Siigo!SiigoBounds, Rows
  <2>3. upload'[r] = IF upload[r].status \in Siigo!Open THEN [upload[r] EXCEPT !.idle = idle]
                     ELSE upload[r]
    BY DEF Siigo!Tick
  <2> HIDE DEF idle
  <2> QED
    BY <2>1, <2>2, <2>3 DEF Rows
<1>4. upload' \in [Uploads -> Rows]
  BY <1>3 DEF Siigo!Tick
<1>5. \A q \in Sweepers : sweep'[q] \in Siigo!Frames /\ Siigo!Sends(sweep'[q])
  <2> SUFFICES ASSUME NEW q \in Sweepers
               PROVE  sweep'[q] \in Siigo!Frames /\ Siigo!Sends(sweep'[q])
    OBVIOUS
  <2>1. sweep[q] \in Siigo!Frames /\ Siigo!Sends(sweep[q])
    BY DEF Siigo!Bookkeeping
  <2>2. [sweep[q] EXCEPT !.age = @ + 1] \in Siigo!Frames /\ Siigo!Sends([sweep[q] EXCEPT !.age = @ + 1])
    BY <2>1 DEF Siigo!Frames, Siigo!Sends
  <2> QED
    BY <2>1, <2>2 DEF Siigo!Tick
<1>6. sweep' \in [Sweepers -> Siigo!Frames]
  BY <1>5 DEF Siigo!Tick
<1>7. \A q \in Sweepers : Siigo!Sends(sweep[q])'
  BY <1>2, <1>5 DEF Siigo!Sends, Siigo!Theirs
<1>8. Siigo!ReceiptsAreTheirs' /\ Siigo!SyncedIsComplete'
  BY <1>2, <1>3 DEF Siigo!Bookkeeping, Siigo!ReceiptsAreTheirs, Siigo!SyncedIsComplete,
    Siigo!Theirs
<1> QED
  BY <1>2, <1>4, <1>6, <1>7, <1>8 DEF Siigo!Bookkeeping, Rows

LEMMA NextBook ==
  ASSUME Siigo!SiigoBounds, Siigo!Bookkeeping, [Siigo!Next]_(Siigo!siigoVars)
  PROVE  Siigo!Bookkeeping'
<1>1. CASE UNCHANGED Siigo!siigoVars
  BY <1>1 DEF Siigo!siigoVars, Siigo!Bookkeeping, Siigo!Sends, Siigo!Theirs,
    Siigo!ReceiptsAreTheirs, Siigo!SyncedIsComplete
<1>2. CASE Siigo!Next
  <2>1. ASSUME NEW q \in Sweepers, Siigo!Sweep(q) \/ Siigo!Step(q)
        PROVE  Siigo!Bookkeeping'
    BY <2>1, SweepBook, ClaimBook, SettleBook, ClientBook DEF Siigo!Step
  <2> QED
    BY <1>2, <2>1, WorldBook, TickBook DEF Siigo!Next
<1> QED
  BY <1>1, <1>2

\* What is on record about vouchers is true, whatever the processes' pace, however
\* many calls are refused, lost or answered late, and however often one dies: the
\* receipts of a row are its own (ReceiptsAreTheirs), and a row reported as
\* uploaded has one for every line (SyncedIsComplete).
THEOREM UploadsAreTrue ==
  ASSUME Siigo!SiigoBounds
  PROVE  Siigo!Spec => [](Siigo!SyncedIsComplete /\ Siigo!ReceiptsAreTheirs)
<1>1. Siigo!Init => Siigo!Bookkeeping
  BY InitBook
<1>2. Siigo!Bookkeeping /\ [Siigo!Next]_(Siigo!siigoVars) => Siigo!Bookkeeping'
  BY NextBook
<1>3. Siigo!Bookkeeping => Siigo!SyncedIsComplete /\ Siigo!ReceiptsAreTheirs
  BY DEF Siigo!Bookkeeping
<1> QED
  BY <1>1, <1>2, <1>3, PTL DEF Siigo!Spec

---------------------------------------------------------------------------
(* One sender at a time                                                    *)

\* No call has been going on for longer than its four requests may take.
LEMMA ElapsedBound ==
  ASSUME Siigo!SiigoBounds, NEW f \in Siigo!Frames,
         f.pc \in {"auth", "post"} => f.age <= Timeout
  PROVE  Siigo!Elapsed(f) \in Nat /\ Siigo!Elapsed(f) <= 4 * Timeout
<1>1. f.age \in Nat /\ f.retryAuth \in BOOLEAN /\ Timeout \in Nat
  BY DEF Siigo!Frames, Siigo!SiigoBounds
<1>2. CASE f.pc \in {"claimed", "send"}
  <2>1. Siigo!Elapsed(f) = 0
    BY <1>2 DEF Siigo!Elapsed
  <2> QED
    BY <1>1, <2>1
<1>3. CASE f.pc = "auth"
  <2>1. Siigo!Elapsed(f) = f.age + (IF f.retryAuth THEN 0 ELSE 2 * Timeout)
    BY <1>3 DEF Siigo!Elapsed
  <2> QED
    BY <1>1, <1>3, <2>1
<1>4. CASE f.pc = "post"
  <2>1. Siigo!Elapsed(f) = f.age + (IF f.retryAuth THEN Timeout ELSE 3 * Timeout)
    BY <1>4 DEF Siigo!Elapsed
  <2> QED
    BY <1>1, <1>4, <2>1
<1>5. CASE f.pc \notin {"claimed", "send", "auth", "post"}
  <2>1. Siigo!Elapsed(f) = 4 * Timeout
    BY <1>5 DEF Siigo!Elapsed
  <2> QED
    BY <1>1, <2>1
<1> QED
  BY <1>2, <1>3, <1>4, <1>5

\* What a process may still claim is nobody's.
LEMMA FreshIsFree ==
  ASSUME Siigo!SiigoBounds, Siigo!Claims, NEW q \in Sweepers, NEW r \in sweep[q].fresh
  PROVE  /\ r \in Uploads /\ upload[r].status \in Siigo!Open
         /\ \A p \in Sweepers : sweep[p].row # r
<1>1. r \in Uploads
  BY DEF Siigo!Claims, Siigo!Bookkeeping, Siigo!Frames
<1>2. upload[r].status \in Siigo!Open
  BY DEF Siigo!Claims, Siigo!Fresh
<1>3. \A p \in Sweepers : sweep[p].row # r
  BY <1>1 DEF Siigo!Claims, Siigo!Holds, Siigo!SiigoBounds
<1> QED
  BY <1>1, <1>2, <1>3

\* A process goes on with its row, or without one.
LEMMA FrameClaims ==
  ASSUME Siigo!SiigoBounds, Siigo!Claims, Siigo!Bookkeeping', UNCHANGED upload,
         NEW q \in Sweepers, NEW f \in Siigo!Frames, sweep' = [sweep EXCEPT ![q] = f],
         f.row \in {sweep[q].row, NoUpload},
         f.row # NoUpload => Siigo!Elapsed(sweep[q]) <= Siigo!Elapsed(f),
         f.pc \in {"auth", "post"} => f.age <= Timeout,
         \A r \in f.fresh : /\ upload[r].status \in Siigo!Open
                            /\ \A p \in Sweepers : sweep[p].row # r
  PROVE  Siigo!Claims'
<1>1. /\ sweep'[q] = f
      /\ \A p \in Sweepers \ {q} : sweep'[p] = sweep[p]
      /\ \A p \in Sweepers : sweep[p] \in Siigo!Frames
  BY DEF Siigo!Claims, Siigo!Bookkeeping
<1>2. \A p \in Sweepers : Siigo!Fresh(p)'
  BY <1>1 DEF Siigo!Claims, Siigo!Fresh, Siigo!Fetching
<1>3. ASSUME NEW p \in Sweepers
      PROVE  Siigo!Holds(p)'
  <2> DEFINE r == sweep'[p].row
  <2> SUFFICES ASSUME r # NoUpload
               PROVE  /\ upload[r].status = "ENVIANDO" /\ upload[r].attempts > 0
                      /\ upload[r].idle <= Siigo!Elapsed(sweep'[p])
                      /\ \A o \in Sweepers : r \notin sweep'[o].fresh
                                            /\ (sweep'[o].row = r => o = p)
    BY DEF Siigo!Holds, Siigo!Elapsed
  <2>1. r = sweep[p].row
    BY <1>1
  <2>2. /\ upload[r].status = "ENVIANDO" /\ upload[r].attempts > 0
        /\ upload[r].idle <= Siigo!Elapsed(sweep[p])
        /\ \A o \in Sweepers : r \notin sweep[o].fresh /\ (sweep[o].row = r => o = p)
    BY <2>1 DEF Siigo!Claims, Siigo!Holds
  <2>3. upload[r].idle <= Siigo!Elapsed(sweep'[p])
    <3>1. CASE p = q
      <4>1. r \in Uploads
        BY <2>1, <1>1 DEF Siigo!Frames
      <4>2. upload[r].idle \in Nat
        <5>1. upload[r] \in Rows
          BY <4>1 DEF Siigo!Claims, Siigo!Bookkeeping, Rows
        <5> QED
          BY <5>1 DEF Rows, Siigo!SiigoBounds
      <4>3. Siigo!Elapsed(sweep[q]) \in Nat
        BY <1>1, ElapsedBound DEF Siigo!Claims, Siigo!Fresh, Siigo!Fetching
      <4>4. Siigo!Elapsed(f) \in Nat
        BY ElapsedBound
      <4> QED
        BY <1>1, <2>2, <3>1, <4>2, <4>3, <4>4
    <3>2. CASE p # q
      BY <1>1, <2>2, <3>2
    <3> QED
      BY <3>1, <3>2
  <2>4. \A o \in Sweepers : r \notin sweep'[o].fresh /\ (sweep'[o].row = r => o = p)
    BY <1>1, <2>1, <2>2
  <2> QED
    BY <2>2, <2>3, <2>4
<1>4. \A r \in Uploads : upload'[r].attempts >= 0
  BY DEF Siigo!Claims
<1> QED
  BY <1>2, <1>3, <1>4 DEF Siigo!Claims

\* A process writes a row that is its own, or nobody's.
LEMMA WriteClaims ==
  ASSUME Siigo!SiigoBounds, Siigo!Claims, Siigo!Bookkeeping',
         NEW q \in Sweepers, NEW r \in Uploads, NEW status, NEW attempts \in Nat,
         NEW receipts, NEW next \in Siigo!Frames,
         Siigo!Write(q, r, status, attempts, receipts, next),
         \A p \in Sweepers : sweep[p].row = r => p = q,
         sweep[q].row \in {r, NoUpload}, next.row \in {r, NoUpload},
         next.row = r => status = "ENVIANDO" /\ attempts > 0,
         next.pc \notin {"auth", "post"}, next.fresh \subseteq sweep[q].fresh
  PROVE  Siigo!Claims'
<1> DEFINE Cut(g) == [g EXCEPT !.fresh = @ \ {r}]
<1>1. \A p \in Sweepers : sweep[p] \in Siigo!Frames
  BY DEF Siigo!Claims, Siigo!Bookkeeping
<1>2. /\ sweep'[q] = Cut(next)
      /\ \A p \in Sweepers \ {q} : sweep'[p] = Cut(sweep[p])
  BY DEF Siigo!Write
<1>3. \A g \in Siigo!Frames : /\ Cut(g).fresh = g.fresh \ {r} /\ Cut(g).row = g.row
                        /\ Cut(g).pc = g.pc /\ Cut(g).age = g.age
                        /\ Siigo!Elapsed(Cut(g)) = Siigo!Elapsed(g)
  BY DEF Siigo!Frames, Siigo!Elapsed
<1> HIDE DEF Cut
<1>4. /\ upload'[r] = [status |-> status, attempts |-> attempts,
                       receipts |-> receipts, idle |-> 0]
      /\ \A s \in Uploads \ {r} : upload'[s] = upload[s]
  BY DEF Siigo!Write, Siigo!Claims, Siigo!Bookkeeping
<1>5. \A s \in Uploads : upload'[s].attempts >= 0
  BY <1>4 DEF Siigo!Claims
<1>6. \A p \in Sweepers : Siigo!Fresh(p)'
  <2> SUFFICES ASSUME NEW p \in Sweepers
               PROVE  Siigo!Fresh(p)'
    OBVIOUS
  <2>1. /\ sweep'[p].fresh \subseteq sweep[p].fresh \ {r}
        /\ sweep'[p].pc \in {"auth", "post"} => sweep'[p].age <= Timeout
    BY <1>1, <1>2, <1>3 DEF Siigo!Claims, Siigo!Fresh, Siigo!Fetching
  <2>2. \A s \in sweep[p].fresh : s \in Uploads /\ upload[s].status \in Siigo!Open
    BY FreshIsFree
  <2> QED
    BY <1>4, <2>1, <2>2 DEF Siigo!Fresh, Siigo!Fetching
<1>7. ASSUME NEW p \in Sweepers
      PROVE  Siigo!Holds(p)'
  <2> DEFINE s == sweep'[p].row
  <2> SUFFICES ASSUME s # NoUpload
               PROVE  /\ upload'[s].status = "ENVIANDO" /\ upload'[s].attempts > 0
                      /\ upload'[s].idle <= Siigo!Elapsed(sweep'[p])
                      /\ \A o \in Sweepers : s \notin sweep'[o].fresh
                                            /\ (sweep'[o].row = s => o = p)
    BY DEF Siigo!Holds, Siigo!Elapsed
  <2>1. \A o \in Sweepers \ {q} : /\ sweep'[o].row = sweep[o].row
                                 /\ sweep'[o].row # r
                                 /\ sweep'[o].fresh = sweep[o].fresh \ {r}
                                 /\ Siigo!Elapsed(sweep'[o]) = Siigo!Elapsed(sweep[o])
    BY <1>1, <1>2, <1>3
  <2>2. /\ sweep'[q].row = next.row /\ sweep'[q].fresh = next.fresh \ {r}
        /\ Siigo!Elapsed(sweep'[q]) = Siigo!Elapsed(next)
    BY <1>2, <1>3
  <2>3. CASE p = q
    <3>1. s = r /\ next.row = r
      BY <2>2, <2>3
    <3>2. Siigo!Elapsed(next) \in Nat
      BY ElapsedBound
    <3>3. \A o \in Sweepers : r \notin sweep'[o].fresh /\ (sweep'[o].row = r => o = q)
      BY <2>1, <2>2
    <3> QED
      BY <1>4, <2>2, <2>3, <3>1, <3>2, <3>3
  <2>4. CASE p # q
    <3>1. s = sweep[p].row /\ s # r /\ s \in Uploads
      BY <1>1, <2>1, <2>4 DEF Siigo!Frames
    <3>2. /\ upload[s].status = "ENVIANDO" /\ upload[s].attempts > 0
          /\ upload[s].idle <= Siigo!Elapsed(sweep[p])
          /\ \A o \in Sweepers : s \notin sweep[o].fresh /\ (sweep[o].row = s => o = p)
      BY <3>1 DEF Siigo!Claims, Siigo!Holds
    <3>3. \A o \in Sweepers : s \notin sweep'[o].fresh /\ (sweep'[o].row = s => o = p)
      BY <2>1, <2>2, <3>1, <3>2
    <3> QED
      BY <1>4, <2>1, <2>4, <3>1, <3>2, <3>3
  <2> QED
    BY <2>3, <2>4
<1> QED
  BY <1>5, <1>6, <1>7 DEF Siigo!Claims

\* A row that is due is nobody's: its sender, if it has one, has not had the time to
\* leave it for as long as an abandoned one is left.
LEMMA DueIsFree ==
  ASSUME Siigo!SiigoBounds, Siigo!Punctuality, Siigo!Claims, NEW r \in Uploads, Siigo!IsDue(upload[r]),
         NEW p \in Sweepers
  PROVE  sweep[p].row # r
<1> SUFFICES ASSUME sweep[p].row = r
             PROVE  FALSE
  OBVIOUS
<1>1. upload[r].status = "ENVIANDO" /\ upload[r].idle <= Siigo!Elapsed(sweep[p])
  BY DEF Siigo!Claims, Siigo!Holds, Siigo!SiigoBounds
<1>2. upload[r].idle >= StaleSending
  BY <1>1 DEF Siigo!IsDue
<1>3. Siigo!Elapsed(sweep[p]) \in Nat /\ Siigo!Elapsed(sweep[p]) <= 4 * Timeout
  BY ElapsedBound DEF Siigo!Claims, Siigo!Bookkeeping, Siigo!Fresh, Siigo!Fetching
<1>4. upload[r].idle \in Nat
  <2>1. upload[r] \in Rows
    BY DEF Siigo!Claims, Siigo!Bookkeeping, Rows
  <2> QED
    BY <2>1 DEF Rows, Siigo!SiigoBounds
<1> QED
  BY <1>1, <1>2, <1>3, <1>4 DEF Siigo!Punctuality, Siigo!SiigoBounds

LEMMA SweepClaims ==
  ASSUME Siigo!SiigoBounds, Siigo!Punctuality, Siigo!Claims, NEW q \in Sweepers,
         Siigo!Sweep(q) \/ Siigo!SweepEnds(q) \/ Siigo!Reread(q) \/ Siigo!NextLine(q)
  PROVE  Siigo!Claims'
<1>1. Siigo!Bookkeeping'
  BY SweepBook DEF Siigo!Claims
<1>2. Siigo!Bookkeeping /\ sweep[q] \in Siigo!Frames /\ Siigo!Sends(sweep[q])
  BY DEF Siigo!Claims, Siigo!Bookkeeping
<1>3. UNCHANGED upload
  BY DEF Siigo!Sweep, Siigo!SweepEnds, Siigo!Reread, Siigo!NextLine
<1>4. /\ Siigo!End(q) \in Siigo!Frames
      /\ Siigo!End(q).row = NoUpload /\ Siigo!End(q).pc = "idle" /\ Siigo!End(q).fresh = {}
  BY <1>2, EndIsFrame DEF Siigo!End, Siigo!Idle
<1>5. \A r \in sweep[q].fresh : /\ upload[r].status \in Siigo!Open
                              /\ \A p \in Sweepers : sweep[p].row # r
  BY FreshIsFree
<1>6. sweep'[q] \in Siigo!Frames
  BY <1>1 DEF Siigo!Bookkeeping
<1>7. CASE Siigo!Sweep(q)
  <2> DEFINE due == {r \in Siigo!Candidates : Siigo!IsDue(upload[r])}
             f == [Siigo!End(q) EXCEPT !.pc = "next", !.due = due, !.fresh = due,
                                 !.budget = RequestsPerSweep]
  <2>1. \A r \in due : upload[r].status \in Siigo!Open /\ \A p \in Sweepers : sweep[p].row # r
    BY DueIsFree DEF Siigo!Candidates
  <2>2. due \subseteq Uploads
    BY DEF Siigo!Candidates
  <2> HIDE DEF due
  <2>3. f \in Siigo!Frames
    BY <1>4, <2>2 DEF Siigo!Frames, Siigo!SiigoBounds
  <2>4. f.row = NoUpload /\ f.pc = "next" /\ f.fresh = due
    BY <1>4 DEF Siigo!Frames
  <2>5. sweep' = [sweep EXCEPT ![q] = f]
    BY <1>7 DEF Siigo!Sweep, due
  <2> QED
    BY <1>1, <1>3, <2>1, <2>3, <2>4, <2>5, FrameClaims
<1>8. CASE Siigo!SweepEnds(q)
  BY <1>1, <1>3, <1>4, <1>8, FrameClaims DEF Siigo!SweepEnds
<1>9. CASE Siigo!Reread(q)
  <2> DEFINE f == [sweep[q] EXCEPT !.pc = "send",
                                   !.attempts = upload[sweep[q].row].attempts,
                                   !.done = upload[sweep[q].row].receipts]
  <2>1. sweep' = [sweep EXCEPT ![q] = f]
    BY <1>9 DEF Siigo!Reread
  <2>2. f \in Siigo!Frames
    BY <1>2, <1>6, <2>1 DEF Siigo!Bookkeeping
  <2>3. f.row = sweep[q].row /\ f.pc = "send" /\ f.fresh = sweep[q].fresh
    BY <1>2 DEF Siigo!Frames
  <2>4. Siigo!Elapsed(f) = 0 /\ Siigo!Elapsed(sweep[q]) = 0
    BY <1>9, <2>3 DEF Siigo!Elapsed, Siigo!Reread, Siigo!At
  <2> HIDE DEF f
  <2>5. Siigo!Elapsed(sweep[q]) <= Siigo!Elapsed(f)
    BY <2>4
  <2> QED
    BY <1>1, <1>3, <1>5, <2>1, <2>2, <2>3, <2>5, FrameClaims
<1>10. CASE Siigo!NextLine(q)
  <2> DEFINE line == IF "CASH" \in Siigo!ToSend(q) THEN "CASH" ELSE "TRANSFER"
  <2>1. PICK token \in {sweep[q].token, FALSE} :
          sweep' = [sweep EXCEPT ![q].pc = IF token THEN "post" ELSE "auth",
                                 ![q].token = token, ![q].line = line,
                                 ![q].budget = @ - 1,
                                 ![q].retryAuth = TRUE, ![q].age = 0]
    BY <1>10 DEF Siigo!NextLine
  <2> DEFINE f == [sweep[q] EXCEPT !.pc = IF token THEN "post" ELSE "auth",
                                   !.token = token, !.line = line, !.budget = @ - 1,
                                   !.retryAuth = TRUE, !.age = 0]
  <2> HIDE DEF line
  <2>2. sweep' = [sweep EXCEPT ![q] = f]
    BY <2>1
  <2>3. f \in Siigo!Frames
    BY <1>2, <1>6, <2>2 DEF Siigo!Bookkeeping
  <2>4. /\ f.row = sweep[q].row /\ f.pc = (IF token THEN "post" ELSE "auth")
        /\ f.fresh = sweep[q].fresh /\ f.retryAuth = TRUE /\ f.age = 0
    BY <1>2 DEF Siigo!Frames
  <2> HIDE DEF f
  <2>5. Siigo!Elapsed(f) \in {0, Timeout}
    BY <2>4 DEF Siigo!Elapsed, Siigo!SiigoBounds
  <2>6. Siigo!Elapsed(sweep[q]) = 0
    BY <1>10 DEF Siigo!Elapsed, Siigo!NextLine, Siigo!At
  <2>7. Siigo!Elapsed(sweep[q]) <= Siigo!Elapsed(f) /\ f.age <= Timeout
    BY <2>4, <2>5, <2>6 DEF Siigo!SiigoBounds
  <2> QED
    BY <1>1, <1>3, <1>5, <2>2, <2>3, <2>4, <2>7, FrameClaims
<1> QED
  BY <1>7, <1>8, <1>9, <1>10

LEMMA FailsClaims ==
  ASSUME Siigo!SiigoBounds, Siigo!Punctuality, Siigo!Claims, NEW q \in Sweepers, NEW kind, Siigo!Fails(q, kind),
         sweep[q].pc \in Siigo!Sending, UNCHANGED <<upload, requests, vouchers>>
  PROVE  Siigo!Claims'
<1>1. Siigo!Bookkeeping'
  BY FailsBook DEF Siigo!Claims
<1>2. PICK f \in Siigo!Frames : /\ sweep' = [sweep EXCEPT ![q] = f] /\ Siigo!Sends(f)
                          /\ f.pc = "failed" /\ f.row = sweep[q].row
                          /\ f.fresh = sweep[q].fresh
  BY FailsFrame DEF Siigo!Claims
<1>3. Siigo!Elapsed(f) = 4 * Timeout
  BY <1>2 DEF Siigo!Elapsed
<1>4. Siigo!Elapsed(sweep[q]) <= 4 * Timeout
  BY ElapsedBound DEF Siigo!Claims, Siigo!Bookkeeping, Siigo!Fresh, Siigo!Fetching
<1> QED
  BY <1>1, <1>2, <1>3, <1>4, FreshIsFree, FrameClaims

LEMMA ClientClaims ==
  ASSUME Siigo!SiigoBounds, Siigo!Punctuality, Siigo!Claims, NEW q \in Sweepers,
         Siigo!Authenticated(q) \/ Siigo!Unauthorized(q) \/ Siigo!Refused(q) \/ Siigo!TimedOut(q) \/ Siigo!Answered(q)
           \/ Siigo!SaveFails(q)
  PROVE  Siigo!Claims'
<1>1. Siigo!Bookkeeping'
  BY ClientBook DEF Siigo!Claims
<1>2. sweep[q].pc \in {"auth", "post", "save"} /\ sweep[q].pc \in Siigo!Sending
  BY DEF Siigo!Authenticated, Siigo!Unauthorized, Siigo!Refused, Siigo!TimedOut,
    Siigo!Answered, Siigo!SaveFails, Siigo!At, Siigo!Fetching,
         Siigo!Sending
<1>3. /\ sweep[q] \in Siigo!Frames /\ sweep'[q] \in Siigo!Frames
      /\ sweep \in [Sweepers -> Siigo!Frames]
  BY <1>1 DEF Siigo!Claims, Siigo!Bookkeeping
<1>4. /\ sweep[q].age \in Nat /\ sweep[q].retryAuth \in BOOLEAN /\ Timeout \in Nat
      /\ sweep[q].pc \in {"auth", "post"} => sweep[q].age <= Timeout
  BY <1>3 DEF Siigo!Frames, Siigo!Claims, Siigo!Fresh, Siigo!Fetching, Siigo!SiigoBounds
<1>5. \A r \in sweep[q].fresh : /\ upload[r].status \in Siigo!Open
                              /\ \A p \in Sweepers : sweep[p].row # r
  BY FreshIsFree
<1>6. CASE \E kind : Siigo!Fails(q, kind) /\ UNCHANGED <<upload, requests, vouchers>>
  BY <1>2, <1>6, FailsClaims
<1>7. CASE Siigo!Authenticated(q)
  <2> DEFINE f == [sweep[q] EXCEPT !.pc = "post", !.token = TRUE, !.age = 0]
  <2>1. sweep' = [sweep EXCEPT ![q] = f]
    BY <1>7 DEF Siigo!Authenticated
  <2>2. f \in Siigo!Frames
    BY <1>3, <2>1
  <2>3. /\ f.pc = "post" /\ f.row = sweep[q].row /\ f.fresh = sweep[q].fresh
        /\ f.age = 0 /\ f.retryAuth = sweep[q].retryAuth
    BY <1>3 DEF Siigo!Frames
  <2> HIDE DEF f
  <2>4. Siigo!Elapsed(f) = IF sweep[q].retryAuth THEN Timeout ELSE 3 * Timeout
    BY <1>4, <2>3 DEF Siigo!Elapsed
  <2>5. /\ sweep[q].pc = "auth"
        /\ Siigo!Elapsed(sweep[q]) = sweep[q].age + (IF sweep[q].retryAuth THEN 0 ELSE 2 * Timeout)
    BY <1>7 DEF Siigo!Elapsed, Siigo!Authenticated, Siigo!At
  <2>6. Siigo!Elapsed(sweep[q]) <= Siigo!Elapsed(f) /\ f.age <= Timeout
    BY <1>4, <2>3, <2>4, <2>5
  <2>7. UNCHANGED upload
    BY <1>7 DEF Siigo!Authenticated
  <2> QED
    BY <1>1, <1>5, <2>1, <2>2, <2>3, <2>6, <2>7, FrameClaims
<1>8. CASE Siigo!Unauthorized(q) /\ ~(\E kind : Siigo!Fails(q, kind))
  <2> DEFINE f == [sweep[q] EXCEPT !.pc = "auth", !.token = FALSE,
                                   !.retryAuth = FALSE, !.age = 0]
  <2>1. sweep' = [sweep EXCEPT ![q] = f] /\ sweep[q].retryAuth
    BY <1>8 DEF Siigo!Unauthorized, Siigo!MayRetryAuth
  <2>2. f \in Siigo!Frames
    BY <1>3, <2>1
  <2>3. /\ f.pc = "auth" /\ f.row = sweep[q].row /\ f.fresh = sweep[q].fresh
        /\ f.age = 0 /\ f.retryAuth = FALSE
    BY <1>3 DEF Siigo!Frames
  <2> HIDE DEF f
  <2>4. Siigo!Elapsed(f) = 2 * Timeout
    BY <1>4, <2>3 DEF Siigo!Elapsed
  <2>5. sweep[q].pc = "post" /\ Siigo!Elapsed(sweep[q]) = sweep[q].age + Timeout
    BY <1>8, <2>1 DEF Siigo!Elapsed, Siigo!Unauthorized, Siigo!At
  <2>6. Siigo!Elapsed(sweep[q]) <= Siigo!Elapsed(f) /\ f.age <= Timeout
    BY <1>4, <2>3, <2>4, <2>5
  <2>7. UNCHANGED upload
    BY <1>8 DEF Siigo!Unauthorized
  <2> QED
    BY <1>1, <1>5, <2>1, <2>2, <2>3, <2>6, <2>7, FrameClaims
<1>9. CASE Siigo!Answered(q) /\ ~(\E kind : Siigo!Fails(q, kind))
  <2>1. PICK v \in vouchers :
          sweep' = [sweep EXCEPT ![q].pc = "save", ![q].age = 0,
                      ![q].done = @ \cup {[line |-> sweep[q].line, voucher |-> v]}]
    BY <1>9 DEF Siigo!Answered
  <2> DEFINE f == [sweep[q] EXCEPT !.pc = "save", !.age = 0,
                      !.done = @ \cup {[line |-> sweep[q].line, voucher |-> v]}]
  <2>2. sweep' = [sweep EXCEPT ![q] = f]
    BY <2>1
  <2>3. f \in Siigo!Frames
    BY <1>3, <2>2
  <2>4. f.pc = "save" /\ f.row = sweep[q].row /\ f.fresh = sweep[q].fresh
    BY <1>3 DEF Siigo!Frames
  <2> HIDE DEF f
  <2>5. Siigo!Elapsed(f) = 4 * Timeout
    BY <2>4 DEF Siigo!Elapsed
  <2>6. Siigo!Elapsed(sweep[q]) <= Siigo!Elapsed(f)
    BY <1>3, <1>4, <2>5, ElapsedBound
  <2>7. UNCHANGED upload
    BY <1>9 DEF Siigo!Answered
  <2> QED
    BY <1>1, <1>5, <2>2, <2>3, <2>4, <2>6, <2>7, FrameClaims
<1> QED
  BY <1>6, <1>7, <1>8, <1>9 DEF Siigo!Unauthorized, Siigo!Refused, Siigo!TimedOut,
    Siigo!Answered, Siigo!SaveFails

\* What a process claims was nobody's, and what it writes otherwise is its own.
LEMMA WriterClaims ==
  ASSUME Siigo!SiigoBounds, Siigo!Claims, NEW q \in Sweepers,
         \/ Siigo!Claim(q)
         \/ Siigo!Release(q) \/ Siigo!Synced(q) \/ Siigo!SaveProgress(q) \/ Siigo!RecordFailure(q)
  PROVE  Siigo!Claims'
<1>1. Siigo!Bookkeeping'
  BY ClaimBook, SettleBook DEF Siigo!Claims
<1>2. sweep[q] \in Siigo!Frames /\ Siigo!Sends(sweep[q])
  BY DEF Siigo!Claims, Siigo!Bookkeeping
<1>3. CASE Siigo!Claim(q)
  <2>1. PICK r \in sweep[q].due :
          LET rest == [sweep[q] EXCEPT !.due = @ \ {r}]
          IN  \/ /\ Siigo!StillAsRead(q, r)
                 /\ Siigo!Write(q, r, "ENVIANDO", upload[r].attempts + 1, upload[r].receipts,
                          [rest EXCEPT !.pc = "claimed", !.row = r])
              \/ /\ ~Siigo!StillAsRead(q, r)
                 /\ sweep' = [sweep EXCEPT ![q] = rest]
                 /\ UNCHANGED upload
    BY <1>3 DEF Siigo!Claim
  <2> DEFINE rest == [sweep[q] EXCEPT !.due = @ \ {r}]
             next == [rest EXCEPT !.pc = "claimed", !.row = r]
  <2>2. r \in Uploads
    BY <1>2 DEF Siigo!Frames
  <2>3. sweep[q].pc = "next" /\ sweep[q].row = NoUpload
    BY <1>2, <1>3 DEF Siigo!Claim, Siigo!At, Siigo!Sends, Siigo!Sending
  <2>4. /\ rest \in Siigo!Frames /\ rest.pc = "next" /\ rest.row = NoUpload
        /\ rest.fresh = sweep[q].fresh
    BY <1>2, <2>3 DEF Siigo!Frames
  <2>5. CASE Siigo!StillAsRead(q, r)
    <3>1. r \in sweep[q].fresh
      BY <2>5 DEF Siigo!StillAsRead
    <3>2. \A p \in Sweepers : sweep[p].row # r
      BY <3>1, FreshIsFree
    <3>3. upload[r].attempts + 1 \in Nat /\ upload[r].attempts + 1 > 0
      <4>1. upload[r].attempts \in Int /\ upload[r].attempts >= 0
        BY <2>2 DEF Siigo!Claims, Siigo!Bookkeeping
      <4> QED
        BY <4>1
    <3>4. next \in Siigo!Frames
      BY <2>2, <2>4 DEF Siigo!Frames, Siigo!Sending
    <3>5. next.pc = "claimed" /\ next.row = r /\ next.fresh = sweep[q].fresh
      BY <2>4 DEF Siigo!Frames
    <3>6. Siigo!Write(q, r, "ENVIANDO", upload[r].attempts + 1, upload[r].receipts, next)
      BY <2>1, <2>5
    <3> HIDE DEF next
    <3> QED
      BY <1>1, <2>2, <2>3, <3>2, <3>3, <3>4, <3>5, <3>6, WriteClaims
  <2>6. CASE ~Siigo!StillAsRead(q, r)
    <3>1. sweep' = [sweep EXCEPT ![q] = rest] /\ UNCHANGED upload
      BY <2>1, <2>6
    <3>2. \A s \in rest.fresh : /\ upload[s].status \in Siigo!Open
                                /\ \A p \in Sweepers : sweep[p].row # s
      BY <2>4, FreshIsFree
    <3> HIDE DEF rest
    <3> QED
      BY <1>1, <2>4, <3>1, <3>2, FrameClaims
  <2> QED
    BY <2>5, <2>6
<1>4. CASE Siigo!Release(q) \/ Siigo!Synced(q) \/ Siigo!SaveProgress(q) \/ Siigo!RecordFailure(q)
  <2> DEFINE r == sweep[q].row
  <2>1. sweep[q].pc \in Siigo!Sending
    BY <1>4 DEF Siigo!Release, Siigo!Synced, Siigo!SaveProgress, Siigo!RecordFailure,
      Siigo!At, Siigo!Sending
  <2>2. r \in Uploads /\ r # NoUpload /\ Siigo!Bookkeeping
    BY <2>1, Known DEF Siigo!SiigoBounds, Siigo!Claims
  <2>3. /\ upload[r].status = "ENVIANDO"
        /\ \A p \in Sweepers : sweep[p].row = r => p = q
    BY <2>2 DEF Siigo!Claims, Siigo!Holds
  <2>4. upload[r].attempts \in Int /\ upload[r].attempts > 0
    BY <2>2 DEF Siigo!Claims, Siigo!Bookkeeping, Siigo!Holds
  <2>5. upload[r].attempts \in Nat /\ upload[r].attempts - 1 \in Nat
    BY <2>4
  <2>6. /\ Siigo!End(q) \in Siigo!Frames /\ Siigo!End(q).row = NoUpload /\ Siigo!End(q).pc = "idle"
        /\ Siigo!End(q).fresh = {}
    BY <2>2, EndIsFrame DEF Siigo!End, Siigo!Idle
  <2>7. /\ Siigo!Onwards(q) \in Siigo!Frames /\ Siigo!Onwards(q).row = NoUpload /\ Siigo!Onwards(q).pc = "next"
        /\ Siigo!Onwards(q).fresh = sweep[q].fresh
    <3>1. Siigo!Onwards(q) \in Siigo!Frames
      BY <2>2, OnwardsIsFrame
    <3> QED
      BY <1>2, <3>1 DEF Siigo!Onwards, Siigo!Frames
  <2> HIDE DEF r
  <2>8. ASSUME NEW status, NEW attempts \in Nat, NEW receipts,
               \/ Siigo!Write(q, r, status, attempts, receipts, Siigo!End(q))
               \/ Siigo!Write(q, r, status, attempts, receipts, Siigo!Onwards(q))
        PROVE  Siigo!Claims'
    BY <1>1, <2>2, <2>3, <2>6, <2>7, <2>8, WriteClaims DEF r
  <2>9. CASE Siigo!SaveProgress(q)
    <3> DEFINE next == [sweep[q] EXCEPT !.pc = "send"]
    <3>1. /\ next \in Siigo!Frames /\ next.pc = "send" /\ next.row = r
          /\ next.fresh = sweep[q].fresh
      BY <1>2 DEF Siigo!Frames, Siigo!Sending, r
    <3>2. Siigo!Write(q, r, upload[r].status, upload[r].attempts, sweep[q].done, next)
      BY <2>9 DEF Siigo!SaveProgress, r
    <3> HIDE DEF next
    <3> QED
      BY <1>1, <2>2, <2>3, <2>4, <2>5, <3>1, <3>2, WriteClaims DEF r
  <2>10. CASE Siigo!Release(q)
    <3>1. Siigo!Write(q, r, "PENDIENTE", upload[r].attempts - 1, sweep[q].done, Siigo!End(q))
      BY <2>10 DEF Siigo!Release, r
    <3> QED
      BY <2>5, <2>8, <3>1
  <2>11. CASE Siigo!Synced(q)
    <3>1. Siigo!Write(q, r, "SINCRONIZADO", upload[r].attempts, sweep[q].done, Siigo!Onwards(q))
      BY <2>11 DEF Siigo!Synced, r
    <3> QED
      BY <2>5, <2>8, <3>1
  <2>12. CASE Siigo!RecordFailure(q)
    <3>1. \E status :
            \/ Siigo!Write(q, r, status, upload[r].attempts - 1, sweep[q].done, Siigo!End(q))
            \/ Siigo!Write(q, r, status, upload[r].attempts, sweep[q].done, Siigo!Onwards(q))
      BY <2>12 DEF Siigo!RecordFailure, r
    <3> QED
      BY <2>5, <2>8, <3>1
  <2> QED
    BY <1>4, <2>9, <2>10, <2>11, <2>12
<1> QED
  BY <1>3, <1>4

LEMMA WorldClaims ==
  ASSUME Siigo!SiigoBounds, Siigo!Claims,
         \/ \E r \in Uploads : Siigo!Complete(r)
         \/ \E r \in Uploads, line \in {"CASH", "TRANSFER"} : Siigo!Issue(r, line)
         \/ \E q \in Sweepers : Siigo!Crash(q)
  PROVE  Siigo!Claims'
<1>1. Siigo!Bookkeeping'
  BY WorldBook DEF Siigo!Claims
<1>2. ASSUME NEW q \in Sweepers, Siigo!Crash(q)
      PROVE  Siigo!Claims'
  <2>1. Siigo!Idle \in Siigo!Frames /\ Siigo!Idle.row = NoUpload /\ Siigo!Idle.pc = "idle" /\ Siigo!Idle.fresh = {}
    BY <1>2, EndIsFrame DEF Siigo!Idle, Siigo!Claims
  <2> QED
    BY <1>1, <1>2, <2>1, FrameClaims DEF Siigo!Crash
<1>3. ASSUME NEW r \in Uploads, NEW line \in {"CASH", "TRANSFER"}, Siigo!Issue(r, line)
      PROVE  Siigo!Claims'
  <2>1. UNCHANGED <<upload, sweep>>
    BY <1>3 DEF Siigo!Issue
  <2> QED
    BY <1>1, <2>1 DEF Siigo!Claims, Siigo!Holds, Siigo!Fresh, Siigo!Fetching, Siigo!Elapsed
<1>4. ASSUME NEW r \in Uploads, Siigo!Complete(r)
      PROVE  Siigo!Claims'
  <2>1. UNCHANGED sweep /\ upload[r].status = "ABSENT"
    BY <1>4 DEF Siigo!Complete
  <2>2. upload \in [Uploads -> Rows] /\ sweep \in [Sweepers -> Siigo!Frames]
    BY DEF Siigo!Claims, Siigo!Bookkeeping, Rows
  <2>3. /\ \A s \in Uploads \ {r} : upload'[s] = upload[s]
        /\ upload'[r].attempts = upload[r].attempts
    <3>1. [upload[r] EXCEPT !.status = "PENDIENTE"].attempts = upload[r].attempts
      BY <2>2 DEF Rows
    <3> QED
      BY <1>4, <2>2, <3>1 DEF Siigo!Complete
  <2>4. ASSUME NEW q \in Sweepers
        PROVE  Siigo!Holds(q)' /\ Siigo!Fresh(q)'
    <3>1. sweep[q].row # NoUpload => sweep[q].row \in Uploads \ {r}
      BY <2>1, <2>2 DEF Siigo!Frames, Siigo!Claims, Siigo!Holds
    <3>2. sweep[q].fresh \subseteq Uploads \ {r}
      BY <2>1, <2>2 DEF Siigo!Frames, Siigo!Claims, Siigo!Fresh, Siigo!Open
    <3>3. Siigo!Holds(q) /\ Siigo!Fresh(q)
      BY DEF Siigo!Claims
    <3>4. Siigo!Holds(q)'
      BY <2>1, <2>3, <3>1, <3>3 DEF Siigo!Holds, Siigo!Elapsed
    <3>5. Siigo!Fresh(q)'
      BY <2>1, <2>3, <3>2, <3>3 DEF Siigo!Fresh, Siigo!Fetching
    <3> QED
      BY <3>4, <3>5
  <2>5. \A s \in Uploads : upload'[s].attempts >= 0
    BY <2>3 DEF Siigo!Claims
  <2> QED
    BY <1>1, <2>4, <2>5 DEF Siigo!Claims
<1> QED
  BY <1>2, <1>3, <1>4

\* Time passes only while processes wait for an answer, or for nothing.
LEMMA TickClaims == ASSUME Siigo!SiigoBounds, Siigo!Punctuality, Siigo!Claims, Siigo!Tick PROVE Siigo!Claims'
<1>1. Siigo!Bookkeeping'
  BY TickBook DEF Siigo!Claims
<1>2. upload \in [Uploads -> Rows] /\ sweep \in [Sweepers -> Siigo!Frames]
  BY DEF Siigo!Claims, Siigo!Bookkeeping, Rows
<1>3. Timeout \in Nat /\ StaleSending \in Nat
  BY DEF Siigo!SiigoBounds
<1>4. ASSUME NEW r \in Uploads
      PROVE  /\ upload'[r].status = upload[r].status
             /\ upload'[r].attempts = upload[r].attempts
             /\ upload'[r].idle <= upload[r].idle + 1
  <2>1. upload[r] \in Rows /\ upload[r].idle \in Nat
    BY <1>2, <1>3 DEF Rows
  <2>2. CASE upload[r].status \in Siigo!Open
    <3> DEFINE idle == Siigo!Least(upload[r].idle + 1, StaleSending)
    <3>1. upload'[r] = [upload[r] EXCEPT !.idle = idle]
      BY <2>2 DEF Siigo!Tick, Siigo!Punctuality
    <3>2. idle \in Nat /\ idle <= upload[r].idle + 1
      BY <1>3, <2>1 DEF Siigo!Least
    <3> HIDE DEF idle
    <3> QED
      BY <2>1, <3>1, <3>2 DEF Rows
  <2>3. CASE upload[r].status \notin Siigo!Open
    <3>1. upload'[r] = upload[r]
      BY <2>3 DEF Siigo!Tick
    <3> QED
      BY <2>1, <3>1
  <2> QED
    BY <2>2, <2>3
<1>5. ASSUME NEW q \in Sweepers
      PROVE  /\ sweep'[q].row = sweep[q].row /\ sweep'[q].fresh = sweep[q].fresh
             /\ sweep'[q].pc = sweep[q].pc
             /\ Siigo!Fetching(q) => sweep'[q].age <= Timeout
             /\ sweep[q].row # NoUpload => Siigo!Elapsed(sweep'[q]) = Siigo!Elapsed(sweep[q]) + 1
  <2>1. sweep[q] \in Siigo!Frames /\ sweep[q].age \in Nat /\ sweep[q].retryAuth \in BOOLEAN
    BY <1>2 DEF Siigo!Frames
  <2>2. Siigo!At(q, "idle") \/ (Siigo!Fetching(q) /\ sweep[q].age < Timeout)
    BY DEF Siigo!Tick, Siigo!Punctuality, Siigo!OnTime
  <2>3. CASE Siigo!Fetching(q)
    <3> DEFINE f == [sweep[q] EXCEPT !.age = @ + 1]
    <3>1. sweep'[q] = f
      BY <2>3 DEF Siigo!Tick, Siigo!Punctuality
    <3>2. /\ f.row = sweep[q].row /\ f.fresh = sweep[q].fresh /\ f.pc = sweep[q].pc
          /\ f.age = sweep[q].age + 1 /\ f.retryAuth = sweep[q].retryAuth
      BY <2>1 DEF Siigo!Frames
    <3> HIDE DEF f
    <3>3. f.age <= Timeout
      BY <1>3, <2>1, <2>2, <2>3, <3>2 DEF Siigo!At, Siigo!Fetching
    <3>4. Siigo!Elapsed(f) = Siigo!Elapsed(sweep[q]) + 1
      <4>1. CASE sweep[q].pc = "auth"
        BY <1>3, <2>1, <3>2, <4>1 DEF Siigo!Elapsed
      <4>2. CASE sweep[q].pc = "post"
        BY <1>3, <2>1, <3>2, <4>2 DEF Siigo!Elapsed
      <4> QED
        BY <2>3, <4>1, <4>2 DEF Siigo!Fetching
    <3> QED
      BY <3>1, <3>2, <3>3, <3>4
  <2>4. CASE ~Siigo!Fetching(q)
    <3>1. sweep'[q] = sweep[q]
      BY <2>4 DEF Siigo!Tick
    <3>2. sweep[q].row = NoUpload
      BY <2>2, <2>4 DEF Siigo!At, Siigo!Claims, Siigo!Bookkeeping, Siigo!Sends,
        Siigo!Sending
    <3> QED
      BY <2>4, <3>1, <3>2
  <2> QED
    BY <2>3, <2>4
<1>6. ASSUME NEW q \in Sweepers
      PROVE  Siigo!Fresh(q)'
  <2>1. \A r \in sweep[q].fresh : r \in Uploads /\ upload[r].status \in Siigo!Open
    BY FreshIsFree
  <2> QED
    BY <1>4, <1>5, <2>1 DEF Siigo!Fresh, Siigo!Fetching
<1>7. ASSUME NEW q \in Sweepers
      PROVE  Siigo!Holds(q)'
  <2> DEFINE r == sweep[q].row
  <2> SUFFICES ASSUME r # NoUpload
               PROVE  Siigo!Holds(q)'
    BY <1>5 DEF Siigo!Holds
  <2>1. r \in Uploads
    BY <1>2 DEF Siigo!Frames
  <2>2. /\ upload[r].status = "ENVIANDO" /\ upload[r].attempts > 0
        /\ upload[r].idle <= Siigo!Elapsed(sweep[q])
        /\ \A p \in Sweepers : r \notin sweep[p].fresh /\ (sweep[p].row = r => p = q)
    BY DEF Siigo!Claims, Siigo!Holds
  <2>3. upload'[r].idle <= Siigo!Elapsed(sweep'[q])
    <3>1. upload[r].idle \in Nat
      <4>1. upload[r] \in Rows
        BY <1>2, <2>1
      <4> QED
        BY <4>1 DEF Rows, Siigo!SiigoBounds
    <3>2. upload'[r].idle \in Nat
      <4>1. upload'[r] \in Rows
        BY <1>1, <2>1 DEF Siigo!Bookkeeping, Rows
      <4> QED
        BY <4>1 DEF Rows, Siigo!SiigoBounds
    <3>3. Siigo!Elapsed(sweep[q]) \in Nat
      BY <1>2, ElapsedBound DEF Siigo!Claims, Siigo!Fresh, Siigo!Fetching
    <3>4. upload'[r].idle <= upload[r].idle + 1 /\ Siigo!Elapsed(sweep'[q]) = Siigo!Elapsed(sweep[q]) + 1
      BY <1>4, <1>5, <2>1
    <3> QED
      BY <2>2, <3>1, <3>2, <3>3, <3>4
  <2>4. sweep'[q].row = r /\ upload'[r].status = "ENVIANDO" /\ upload'[r].attempts > 0
    BY <1>4, <1>5, <2>1, <2>2
  <2>5. \A p \in Sweepers : r \notin sweep'[p].fresh /\ (sweep'[p].row = r => p = q)
    BY <1>5, <2>2
  <2> HIDE DEF r
  <2> QED
    BY <2>3, <2>4, <2>5 DEF Siigo!Holds, Siigo!Elapsed
<1>8. \A r \in Uploads : upload'[r].attempts >= 0
  BY <1>4 DEF Siigo!Claims
<1> QED
  BY <1>1, <1>6, <1>7, <1>8 DEF Siigo!Claims

LEMMA InitClaims == ASSUME Siigo!SiigoBounds, Siigo!Init PROVE Siigo!Claims
<1>1. Siigo!Bookkeeping
  BY InitBook
<1>2. \A q \in Sweepers : sweep[q].row = NoUpload /\ sweep[q].fresh = {} /\ sweep[q].pc = "idle"
  BY DEF Siigo!Init, Siigo!Idle
<1>3. \A r \in Uploads : upload[r].attempts >= 0
  BY DEF Siigo!Init
<1> QED
  BY <1>1, <1>2, <1>3 DEF Siigo!Claims, Siigo!Holds, Siigo!Fresh, Siigo!Fetching

LEMMA NextClaims ==
  ASSUME Siigo!SiigoBounds, Siigo!Punctuality, Siigo!Claims, [Siigo!Next]_(Siigo!siigoVars)
  PROVE  Siigo!Claims'
<1>1. CASE UNCHANGED Siigo!siigoVars
  <2>1. Siigo!Bookkeeping'
    BY NextBook DEF Siigo!Claims
  <2> QED
    BY <1>1, <2>1 DEF Siigo!siigoVars, Siigo!Claims, Siigo!Holds, Siigo!Fresh,
      Siigo!Fetching, Siigo!Elapsed
<1>2. CASE Siigo!Next
  <2>1. ASSUME NEW q \in Sweepers, Siigo!Sweep(q) \/ Siigo!Step(q)
        PROVE  Siigo!Claims'
    BY <2>1, SweepClaims, WriterClaims, ClientClaims DEF Siigo!Step
  <2> QED
    BY <1>2, <2>1, WorldClaims, TickClaims DEF Siigo!Next
<1> QED
  BY <1>1, <1>2

\* Processes that keep their pace never send one upload together (OneSender): the time
\* after which it counts as abandoned is longer than the four requests of a call; and no
\* upload is left with fewer than no attempts (TypeOK), though each that is released or
\* paused gives one back.
THEOREM OneSenderAtATime ==
  ASSUME Siigo!SiigoBounds, Siigo!Punctuality
  PROVE  Siigo!Spec => [](Siigo!OneSender /\ Siigo!TypeOK)
<1>1. Siigo!Init => Siigo!Claims
  BY InitClaims
<1>2. Siigo!Claims /\ [Siigo!Next]_(Siigo!siigoVars) => Siigo!Claims'
  BY NextClaims
<1>3. Siigo!Claims => Siigo!OneSender
  BY DEF Siigo!Claims, Siigo!Holds, Siigo!OneSender
<1>4. Siigo!Claims => Siigo!TypeOK
  <2> SUFFICES ASSUME Siigo!Claims
               PROVE  Siigo!TypeOK
    OBVIOUS
  <2>1. upload \in [Uploads -> [status : Siigo!Statuses, attempts : Nat,
                               receipts : SUBSET Siigo!Receipt, idle : 0 .. StaleSending]]
    <3>1. upload \in [Uploads -> Rows] /\ \A r \in Uploads : upload[r].attempts >= 0
      BY DEF Siigo!Claims, Siigo!Bookkeeping, Rows
    <3>2. \A row \in Rows : row.attempts >= 0 =>
            row \in [status : Siigo!Statuses, attempts : Nat,
                     receipts : SUBSET Siigo!Receipt, idle : 0 .. StaleSending]
      BY DEF Rows
    <3> QED
      BY <3>1, <3>2
  <2>2. requests \subseteq Uploads \X {"CASH", "TRANSFER"}
    BY DEF Siigo!Claims, Siigo!Bookkeeping, Siigo!SiigoBounds
  <2>3. vouchers \subseteq {Siigo!Voucher(r, l) : r \in Uploads, l \in {"CASH", "TRANSFER"}}
    BY DEF Siigo!Claims, Siigo!Bookkeeping, Siigo!SiigoBounds
  <2> QED
    BY <2>1, <2>2, <2>3 DEF Siigo!TypeOK, Siigo!Claims, Siigo!Bookkeeping
<1> QED
  BY <1>1, <1>2, <1>3, <1>4, PTL DEF Siigo!Spec

\* Of a settled upload nothing is taken back, although the updates that settle it name
\* only its id: whoever writes a row claimed it while it was open and still has it.
THEOREM SettledStands ==
  ASSUME Siigo!SiigoBounds, Siigo!Punctuality
  PROVE  Siigo!Spec => [][Siigo!VerdictsStand]_(Siigo!siigoVars)
<1>1. Siigo!Init => Siigo!Claims
  BY InitClaims
<1>2. Siigo!Claims /\ [Siigo!Next]_(Siigo!siigoVars) => Siigo!Claims'
  BY NextClaims
<1>3. Siigo!Claims /\ [Siigo!Next]_(Siigo!siigoVars) => [Siigo!VerdictsStand]_(Siigo!siigoVars)
  <2> SUFFICES ASSUME Siigo!Claims, Siigo!Next, NEW r \in Uploads, upload[r].status \in Siigo!Settled
               PROVE  upload'[r] = upload[r]
    BY DEF Siigo!VerdictsStand
  <2>1. upload \in [Uploads -> Rows] /\ sweep \in [Sweepers -> Siigo!Frames]
    BY DEF Siigo!Claims, Siigo!Bookkeeping, Rows
  <2>2. upload[r].status \notin {"ABSENT", "PENDIENTE", "ENVIANDO"}
    BY DEF Siigo!Settled
  <2>3. ASSUME NEW q \in Sweepers, Siigo!Claim(q)
        PROVE  upload'[r] = upload[r]
    <3>1. r \notin sweep[q].fresh
      BY <2>2 DEF Siigo!Claims, Siigo!Fresh, Siigo!Open
    <3> QED
      BY <2>1, <2>3, <3>1 DEF Siigo!Claim, Siigo!StillAsRead, Siigo!Write
  <2>4. ASSUME NEW q \in Sweepers,
               Siigo!Release(q) \/ Siigo!Synced(q) \/ Siigo!SaveProgress(q) \/ Siigo!RecordFailure(q)
        PROVE  upload'[r] = upload[r]
    <3>1. sweep[q].row # r
      BY <2>2 DEF Siigo!Claims, Siigo!Holds, Siigo!SiigoBounds
    <3> QED
      BY <2>1, <2>4, <3>1 DEF Siigo!Release, Siigo!Synced, Siigo!SaveProgress,
        Siigo!RecordFailure, Siigo!Write
  <2>5. ASSUME NEW s \in Uploads, Siigo!Complete(s)
        PROVE  upload'[r] = upload[r]
    BY <2>1, <2>2, <2>5 DEF Siigo!Complete
  <2>6. CASE Siigo!Tick
    BY <2>2, <2>6 DEF Siigo!Tick, Siigo!Open
  <2>7. ASSUME NEW q \in Sweepers, Siigo!Sweep(q) \/ Siigo!Step(q) \/ Siigo!Crash(q)
        PROVE  upload'[r] = upload[r]
    BY <2>3, <2>4, <2>7 DEF Siigo!Sweep, Siigo!Step, Siigo!Crash, Siigo!SweepEnds,
      Siigo!Reread, Siigo!NextLine,
         Siigo!Authenticated, Siigo!Unauthorized, Siigo!Refused, Siigo!TimedOut,
      Siigo!Answered, Siigo!SaveFails
  <2> QED
    BY <2>5, <2>6, <2>7 DEF Siigo!Next, Siigo!Issue
<1> QED
  BY <1>1, <1>2, <1>3, PTL DEF Siigo!Spec

-----------------------------------------------------------------------------
(* Events for Conduit                                                      *)

\* An event not yet reported has no job.
LEMMA OutboxInit == ASSUME Outbox!OutboxBounds, Outbox!Init PROVE Outbox!Deliveries
<1>1. Outbox!TypeOK
  BY DEF Outbox!OutboxBounds, Outbox!Init, Outbox!TypeOK, Outbox!Absent, Outbox!Free,
    Outbox!JobStates
<1>2. \A w \in Workers : Outbox!WorkerHolds(w)
  BY DEF Outbox!Init, Outbox!WorkerHolds, Outbox!Free
<1>3. \A j \in Outbox!Jobs : Outbox!JobHolds(j)
  BY DEF Outbox!Init, Outbox!JobHolds, Outbox!Absent
<1>4. \A e \in Events : Outbox!RetryIsNew(e) /\ Outbox!SentIsLeft(e)
  BY DEF Outbox!Init, Outbox!RetryIsNew, Outbox!SentIsLeft, Outbox!Absent, Outbox!Jobs
<1> QED
  BY <1>1, <1>2, <1>3, <1>4 DEF Outbox!Deliveries

\* The record of a job that has no worker changes.
LEMMA JobStep ==
  ASSUME Outbox!OutboxBounds, Outbox!Deliveries, NEW j \in Outbox!Jobs,
         NEW record \in [state : Outbox!JobStates, made : 0 .. Attempts, stalls : 0 .. MaxStalls],
         job' = [job EXCEPT ![j] = record],
         record.state \in {"waiting", "active", "delayed"} => record.made < Attempts,
         record.state = "none" => record.made = 0,
         \A w \in Workers : worker[w].job # j,
         record.state # "none" => job[j].state # "none" \/ j[2] = 0,
         UNCHANGED <<event, received, worker, admin>>,
         publishing' \in [Events -> SUBSET {"enqueue", "sweep"}], faults' \in 0 .. MaxFaults
  PROVE  Outbox!Deliveries'
<1>1. job \in [Outbox!Jobs -> [state : Outbox!JobStates, made : 0 .. Attempts, stalls : 0 .. MaxStalls]]
  BY DEF Outbox!Deliveries, Outbox!TypeOK
<1>2. /\ job'[j] = record /\ \A i \in Outbox!Jobs \ {j} : job'[i] = job[i]
      /\ job' \in [Outbox!Jobs -> [state : Outbox!JobStates, made : 0 .. Attempts, stalls : 0 .. MaxStalls]]
  BY <1>1
<1>3. Outbox!TypeOK'
  BY <1>2 DEF Outbox!Deliveries, Outbox!TypeOK
<1>4. \A w \in Workers : Outbox!WorkerHolds(w)'
  <2> SUFFICES ASSUME NEW w \in Workers
               PROVE  Outbox!WorkerHolds(w)'
    OBVIOUS
  <2>1. worker[w].job = NoJob \/ worker[w].job \in Outbox!Jobs \ {j}
    BY DEF Outbox!Deliveries, Outbox!TypeOK
  <2> QED
    BY <1>2, <2>1 DEF Outbox!Deliveries, Outbox!WorkerHolds
<1>5. \A i \in Outbox!Jobs : Outbox!JobHolds(i)'
  BY <1>2 DEF Outbox!Deliveries, Outbox!JobHolds
<1>6. \A e \in Events : Outbox!RetryIsNew(e)'
  <2> SUFFICES ASSUME NEW e \in Events
               PROVE  Outbox!RetryIsNew(e)'
    OBVIOUS
  <2>1. Outbox!RetryIsNew(e) /\ event[e].retries \in 0 .. MaxRetries
    BY DEF Outbox!Deliveries, Outbox!TypeOK
  <2>2. \A n \in 0 .. MaxRetries : n > 0 /\ job[<<e, n>>].state = "none" =>
                                   job'[<<e, n>>].state = "none"
    BY <1>2 DEF Outbox!Jobs
  <2> QED
    BY <2>1, <2>2 DEF Outbox!RetryIsNew, Outbox!OutboxBounds
<1>7. \A e \in Events : Outbox!SentIsLeft(e)'
  BY DEF Outbox!Deliveries, Outbox!SentIsLeft
<1> QED
  BY <1>3, <1>4, <1>5, <1>6, <1>7 DEF Outbox!Deliveries

\* A row is written, though not as sent, and the retry that an administrator asks for
\* goes on.
LEMMA EventStep ==
  ASSUME Outbox!OutboxBounds, Outbox!Deliveries, NEW e \in Events,
         NEW row \in [status : {"ABSENT", "PENDING", "SENT", "FAILED"},
                      stale : BOOLEAN, retries : 0 .. MaxRetries],
         NEW stage \in {"idle", "read", "reset"},
         event' = [event EXCEPT ![e] = row], admin' = [admin EXCEPT ![e] = stage],
         row.status = "SENT" => event[e].status = "SENT" /\ row.retries = event[e].retries,
         row.retries >= event[e].retries,
         stage # "idle" => row.retries > 0 /\ job[<<e, row.retries>>].state = "none",
         UNCHANGED <<received, job, worker>>,
         publishing' \in [Events -> SUBSET {"enqueue", "sweep"}], faults' \in 0 .. MaxFaults
  PROVE  Outbox!Deliveries'
<1>1. /\ event'[e] = row /\ \A d \in Events \ {e} : event'[d] = event[d]
      /\ admin'[e] = stage /\ \A d \in Events \ {e} : admin'[d] = admin[d]
  BY DEF Outbox!Deliveries, Outbox!TypeOK
<1>2. Outbox!TypeOK'
  BY DEF Outbox!Deliveries, Outbox!TypeOK
<1>3. \A w \in Workers : Outbox!WorkerHolds(w)'
  BY DEF Outbox!Deliveries, Outbox!WorkerHolds
<1>4. \A j \in Outbox!Jobs : Outbox!JobHolds(j)'
  BY DEF Outbox!Deliveries, Outbox!JobHolds
<1>5. \A d \in Events : Outbox!RetryIsNew(d)'
  <2>1. Outbox!RetryIsNew(e)'
    <3>1. event[e].retries \in Int /\ row.retries \in Int
      BY DEF Outbox!Deliveries, Outbox!TypeOK
    <3>2. ASSUME NEW n \in 0 .. MaxRetries, n > row.retries
          PROVE  job[<<e, n>>].state = "none"
      <4>1. n > event[e].retries
        BY <3>1, <3>2 DEF Outbox!OutboxBounds
      <4> QED
        BY <4>1 DEF Outbox!Deliveries, Outbox!RetryIsNew
    <3> QED
      BY <1>1, <3>2 DEF Outbox!RetryIsNew
  <2>2. \A d \in Events \ {e} : Outbox!RetryIsNew(d)'
    BY <1>1 DEF Outbox!Deliveries, Outbox!RetryIsNew
  <2> QED
    BY <2>1, <2>2
<1>6. \A d \in Events : Outbox!SentIsLeft(d)'
  BY <1>1 DEF Outbox!Deliveries, Outbox!SentIsLeft
<1> QED
  BY <1>2, <1>3, <1>4, <1>5, <1>6 DEF Outbox!Deliveries

LEMMA PublishStep ==
  ASSUME Outbox!OutboxBounds, Outbox!Deliveries, NEW e \in Events,
         \/ Outbox!Enqueue(e) \/ Outbox!BecomeStale(e) \/ Outbox!Sweep
         \/ \E by \in {"enqueue", "sweep"} : Outbox!PublishEnds(e, by)
  PROVE  Outbox!Deliveries'
<1>1. /\ event[e] \in [status : {"ABSENT", "PENDING", "SENT", "FAILED"},
                       stale : BOOLEAN, retries : 0 .. MaxRetries]
      /\ admin[e] \in {"idle", "read", "reset"} /\ admin = [admin EXCEPT ![e] = admin[e]]
      /\ event = [event EXCEPT ![e] = event[e]]
      /\ faults \in 0 .. MaxFaults
      /\ publishing \in [Events -> SUBSET {"enqueue", "sweep"}]
  BY DEF Outbox!Deliveries, Outbox!TypeOK
<1>2. /\ event[e].retries >= event[e].retries
      /\ admin[e] # "idle" =>
           event[e].retries > 0 /\ job[<<e, event[e].retries>>].state = "none"
  BY <1>1 DEF Outbox!Deliveries, Outbox!RetryIsNew, Outbox!OutboxBounds
<1>3. publishing' \in [Events -> SUBSET {"enqueue", "sweep"}]
  BY <1>1 DEF Outbox!Enqueue, Outbox!BecomeStale, Outbox!Sweep, Outbox!PublishEnds,
    Outbox!Publish, Outbox!PublishFails
<1>4. CASE Outbox!Enqueue(e)
  <2> DEFINE row == [event[e] EXCEPT !.status = "PENDING"]
  <2>1. /\ row \in [status : {"ABSENT", "PENDING", "SENT", "FAILED"},
                    stale : BOOLEAN, retries : 0 .. MaxRetries]
        /\ row.status = "PENDING" /\ row.retries = event[e].retries
    BY <1>1
  <2>2. event' = [event EXCEPT ![e] = row] /\ UNCHANGED <<received, job, worker, admin, faults>>
    BY <1>4 DEF Outbox!Enqueue
  <2> HIDE DEF row
  <2> QED
    BY <1>1, <1>2, <1>3, <2>1, <2>2, EventStep
<1>5. CASE Outbox!BecomeStale(e)
  <2> DEFINE row == [event[e] EXCEPT !.stale = TRUE]
  <2>1. /\ row \in [status : {"ABSENT", "PENDING", "SENT", "FAILED"},
                    stale : BOOLEAN, retries : 0 .. MaxRetries]
        /\ row.status = event[e].status /\ row.retries = event[e].retries
    BY <1>1
  <2>2. event' = [event EXCEPT ![e] = row] /\ UNCHANGED <<received, job, worker, admin, faults>>
    BY <1>5 DEF Outbox!BecomeStale
  <2> HIDE DEF row
  <2> QED
    BY <1>1, <1>2, <1>3, <2>1, <2>2, EventStep
<1>6. ASSUME UNCHANGED <<event, received, job, worker, admin>>, faults' \in 0 .. MaxFaults
      PROVE  Outbox!Deliveries'
  BY <1>1, <1>2, <1>3, <1>6, EventStep
<1>7. CASE Outbox!Sweep
  BY <1>1, <1>6, <1>7 DEF Outbox!Sweep
<1>8. ASSUME NEW by \in {"enqueue", "sweep"}, Outbox!PublishFails(e, by)
      PROVE  Outbox!Deliveries'
  <2>1. faults' \in 0 .. MaxFaults
    BY <1>1, <1>8 DEF Outbox!PublishFails, Outbox!Fault, Outbox!OutboxBounds
  <2> QED
    BY <1>6, <1>8, <2>1 DEF Outbox!PublishFails
<1>9. ASSUME NEW by \in {"enqueue", "sweep"}, Outbox!Publish(e, by)
      PROVE  Outbox!Deliveries'
  <2> DEFINE j == <<e, 0>>
             record == [Outbox!Absent EXCEPT !.state = "waiting"]
  <2>1. CASE job[j].state # "none"
    BY <1>1, <1>6, <1>9, <2>1 DEF Outbox!Publish, Outbox!Added
  <2>2. CASE job[j].state = "none"
    <3>1. j \in Outbox!Jobs /\ j[2] = 0
      BY DEF Outbox!Jobs, Outbox!OutboxBounds
    <3>2. /\ record \in [state : Outbox!JobStates, made : 0 .. Attempts, stalls : 0 .. MaxStalls]
          /\ record.state = "waiting" /\ record.made < Attempts
      BY DEF Outbox!Absent, Outbox!JobStates, Outbox!OutboxBounds
    <3>3. \A w \in Workers : worker[w].job # j
      BY <2>2, <3>1 DEF Outbox!Deliveries, Outbox!WorkerHolds, Outbox!TypeOK,
        Outbox!OutboxBounds
    <3>4. /\ job' = [job EXCEPT ![j] = record]
          /\ UNCHANGED <<event, received, worker, admin, faults>>
      BY <1>9, <2>2 DEF Outbox!Publish, Outbox!Added
    <3> HIDE DEF j, record
    <3> QED
      BY <1>1, <1>3, <3>1, <3>2, <3>3, <3>4, JobStep
  <2> QED
    BY <2>1, <2>2
<1> QED
  BY <1>4, <1>5, <1>7, <1>8, <1>9 DEF Outbox!PublishEnds

LEMMA RetryHolds ==
  ASSUME Outbox!OutboxBounds, Outbox!Deliveries, NEW e \in Events, Outbox!RetryRead(e) \/ Outbox!RetryStep(e)
  PROVE  Outbox!Deliveries'
<1>1. /\ event[e] \in [status : {"ABSENT", "PENDING", "SENT", "FAILED"},
                       stale : BOOLEAN, retries : 0 .. MaxRetries]
      /\ admin[e] \in {"idle", "read", "reset"}
      /\ event = [event EXCEPT ![e] = event[e]]
      /\ faults \in 0 .. MaxFaults
      /\ publishing \in [Events -> SUBSET {"enqueue", "sweep"}]
  BY DEF Outbox!Deliveries, Outbox!TypeOK
<1>2. event[e].retries \in Nat /\ MaxRetries \in Nat
  BY <1>1 DEF Outbox!OutboxBounds
<1>3. CASE Outbox!RetryRead(e)
  <2> DEFINE row == [event[e] EXCEPT !.retries = @ + 1]
  <2>1. /\ row \in [status : {"ABSENT", "PENDING", "SENT", "FAILED"},
                    stale : BOOLEAN, retries : 0 .. MaxRetries]
        /\ row.status = event[e].status /\ row.retries = event[e].retries + 1
    BY <1>1, <1>2, <1>3 DEF Outbox!RetryRead
  <2>2. row.status # "SENT"
    BY <1>3, <2>1 DEF Outbox!RetryRead
  <2>3. row.retries > 0 /\ row.retries >= event[e].retries
    BY <1>2, <2>1
  <2>4. job[<<e, row.retries>>].state = "none"
    <3>1. row.retries \in 0 .. MaxRetries /\ row.retries > event[e].retries
      BY <1>2, <2>1
    <3> QED
      BY <3>1 DEF Outbox!Deliveries, Outbox!RetryIsNew
  <2>5. /\ event' = [event EXCEPT ![e] = row] /\ admin' = [admin EXCEPT ![e] = "read"]
        /\ UNCHANGED <<received, job, worker, publishing, faults>>
    BY <1>3 DEF Outbox!RetryRead
  <2> HIDE DEF row
  <2> QED
    BY <1>1, <2>1, <2>2, <2>3, <2>4, <2>5, EventStep
<1>4. admin[e] # "idle" => event[e].retries > 0 /\ job[<<e, event[e].retries>>].state = "none"
  BY DEF Outbox!Deliveries, Outbox!RetryIsNew
<1>5. CASE Outbox!RetryReset(e)
  <2> DEFINE row == [event[e] EXCEPT !.status = "PENDING"]
  <2>1. /\ row \in [status : {"ABSENT", "PENDING", "SENT", "FAILED"},
                    stale : BOOLEAN, retries : 0 .. MaxRetries]
        /\ row.status = "PENDING" /\ row.retries = event[e].retries
    BY <1>1
  <2>2. row.retries >= event[e].retries
    BY <1>2, <2>1
  <2>3. row.retries > 0 /\ job[<<e, row.retries>>].state = "none"
    BY <1>4, <1>5, <2>1 DEF Outbox!RetryReset
  <2>4. /\ event' = [event EXCEPT ![e] = row] /\ admin' = [admin EXCEPT ![e] = "reset"]
        /\ UNCHANGED <<received, job, worker, publishing, faults>>
    BY <1>5 DEF Outbox!RetryReset
  <2> HIDE DEF row
  <2> QED
    BY <1>1, <2>1, <2>2, <2>3, <2>4, EventStep
<1>6. CASE Outbox!RetryAdd(e)
  <2> DEFINE j == <<e, event[e].retries>>
             record == [job[j] EXCEPT !.state = "waiting"]
  <2>1. event[e].retries > 0 /\ job[j].state = "none"
    BY <1>4, <1>6 DEF Outbox!RetryAdd
  <2>2. /\ admin' = [admin EXCEPT ![e] = "idle"]
        /\ UNCHANGED <<event, received, worker, publishing>>
    BY <1>6 DEF Outbox!RetryAdd
  <2>3. faults' \in 0 .. MaxFaults
    BY <1>1, <1>6 DEF Outbox!RetryAdd, Outbox!Fault, Outbox!OutboxBounds
  <2>4. job' = [job EXCEPT ![j] = record] \/ UNCHANGED job
    BY <1>6 DEF Outbox!RetryAdd
  <2>5. j \in Outbox!Jobs
    BY <1>1 DEF Outbox!Jobs
  <2>6. /\ job \in [Outbox!Jobs -> [state : Outbox!JobStates, made : 0 .. Attempts, stalls : 0 .. MaxStalls]]
        /\ job[j].made = 0
    BY <2>1, <2>5 DEF Outbox!Deliveries, Outbox!TypeOK, Outbox!JobHolds
  <2>7. /\ record \in [state : Outbox!JobStates, made : 0 .. Attempts, stalls : 0 .. MaxStalls]
        /\ record.state = "waiting" /\ record.made = 0
    BY <2>5, <2>6 DEF Outbox!JobStates
  <2>8. \A w \in Workers : worker[w].job # j
    BY <2>1, <2>5 DEF Outbox!Deliveries, Outbox!WorkerHolds, Outbox!TypeOK,
      Outbox!OutboxBounds
  <2>9. \A d \in Events \ {e} : \A n \in 0 .. MaxRetries : job'[<<d, n>>] = job[<<d, n>>]
    BY <2>4, <2>6 DEF Outbox!Jobs
  <2>10. \A n \in 0 .. MaxRetries : n > event[e].retries => job'[<<e, n>>] = job[<<e, n>>]
    BY <1>2, <2>4, <2>6 DEF Outbox!Jobs
  <2>11. /\ job' \in [Outbox!Jobs -> [state : Outbox!JobStates, made : 0 .. Attempts, stalls : 0 .. MaxStalls]]
         /\ \A i \in Outbox!Jobs \ {j} : job'[i] = job[i]
         /\ job'[j] \in {job[j], record}
    BY <2>4, <2>5, <2>6, <2>7
  <2> HIDE DEF j, record
  <2>12. Outbox!TypeOK'
    BY <2>2, <2>3, <2>11 DEF Outbox!Deliveries, Outbox!TypeOK
  <2>13. \A w \in Workers : Outbox!WorkerHolds(w)'
    <3> SUFFICES ASSUME NEW w \in Workers
                 PROVE  Outbox!WorkerHolds(w)'
      OBVIOUS
    <3>1. worker[w].job = NoJob \/ worker[w].job \in Outbox!Jobs \ {j}
      BY <2>8 DEF Outbox!Deliveries, Outbox!TypeOK
    <3> QED
      BY <2>2, <2>11, <3>1 DEF Outbox!Deliveries, Outbox!WorkerHolds
  <2>14. \A i \in Outbox!Jobs : Outbox!JobHolds(i)'
    <3>1. job'[j].made = 0 /\ 0 < Attempts
      BY <2>6, <2>7, <2>11 DEF Outbox!OutboxBounds
    <3>2. ASSUME NEW i \in Outbox!Jobs
          PROVE  Outbox!JobHolds(i)'
      <4>1. CASE i = j
        BY <3>1, <4>1 DEF Outbox!JobHolds
      <4>2. CASE i # j
        BY <2>11, <4>2 DEF Outbox!Deliveries, Outbox!JobHolds
      <4> QED
        BY <4>1, <4>2
    <3> QED
      BY <3>2
  <2>15. \A d \in Events : Outbox!RetryIsNew(d)'
    <3>1. Outbox!RetryIsNew(e)'
      <4>1. UNCHANGED event /\ admin'[e] = "idle"
        BY <1>1, <2>2 DEF Outbox!Deliveries, Outbox!TypeOK
      <4>2. Outbox!RetryIsNew(e)
        BY <1>1 DEF Outbox!Deliveries
      <4>3. \A n \in 0 .. MaxRetries : n > event[e].retries => job'[<<e, n>>].state = "none"
        BY <2>10, <4>2 DEF Outbox!RetryIsNew
      <4> QED
        BY <4>1, <4>3 DEF Outbox!RetryIsNew
    <3>2. ASSUME NEW d \in Events \ {e}
          PROVE  Outbox!RetryIsNew(d)'
      <4>1. Outbox!RetryIsNew(d) /\ event[d].retries \in 0 .. MaxRetries /\ admin'[d] = admin[d]
        BY <2>2 DEF Outbox!Deliveries, Outbox!TypeOK
      <4> QED
        BY <2>2, <2>9, <4>1 DEF Outbox!RetryIsNew
    <3> QED
      BY <3>1, <3>2
  <2>16. \A d \in Events : Outbox!SentIsLeft(d)'
    BY <2>2 DEF Outbox!Deliveries, Outbox!SentIsLeft
  <2> QED
    BY <2>12, <2>13, <2>14, <2>15, <2>16 DEF Outbox!Deliveries
<1> QED
  BY <1>3, <1>5, <1>6 DEF Outbox!RetryStep

\* Worker w goes on with job j, takes it although nobody has it, or leaves it.
Proceeds(w, j, pc, held, record, status) ==
  /\ pc \in {"idle", "push", "answer", "failed"} /\ held \in {j, NoJob}
  /\ record \in [state : Outbox!JobStates, made : 0 .. Attempts, stalls : 0 .. MaxStalls]
  /\ status \in {event[Outbox!EventOf(j)].status, "SENT", "FAILED"}
  /\ worker[w].job \in {j, NoJob} /\ \A v \in Workers \ {w} : worker[v].job # j
  /\ worker' = [worker EXCEPT ![w] = [pc |-> pc, job |-> held]]
  /\ job' = [job EXCEPT ![j] = record]
  /\ record.state \in {"waiting", "active", "delayed"} => record.made < Attempts
  /\ record.state # "none" /\ job[j].state # "none"
  /\ pc = "idle" <=> held = NoJob
  /\ pc \in {"push", "answer"} => record.state = "active"
  /\ pc = "failed" => record.state = "failed"
  /\ pc = "answer" => Outbox!EventOf(j) \in received'
  /\ held = j => worker[w].job = j \/ event[Outbox!EventOf(j)].status # "SENT"
  /\ event' = [event EXCEPT ![Outbox!EventOf(j)].status = status]
  /\ status = "SENT" /\ event[Outbox!EventOf(j)].status # "SENT" =>
       held = NoJob /\ Outbox!EventOf(j) \in received
  /\ received \subseteq received' /\ received' \subseteq Events
  /\ UNCHANGED <<publishing, admin>> /\ faults' \in 0 .. MaxFaults

LEMMA WorkerStep ==
  ASSUME Outbox!OutboxBounds, Outbox!Deliveries, NEW w \in Workers, NEW j \in Outbox!Jobs,
         NEW pc, NEW held, NEW record, NEW status, Proceeds(w, j, pc, held, record, status)
  PROVE  Outbox!Deliveries'
<1> USE DEF Proceeds
<1> DEFINE e == Outbox!EventOf(j)
<1>1. /\ job \in [Outbox!Jobs -> [state : Outbox!JobStates, made : 0 .. Attempts, stalls : 0 .. MaxStalls]]
      /\ event \in [Events -> [status : {"ABSENT", "PENDING", "SENT", "FAILED"},
                               stale : BOOLEAN, retries : 0 .. MaxRetries]]
      /\ worker \in [Workers -> [pc : {"idle", "push", "answer", "failed"},
                                 job : Outbox!Jobs \cup {NoJob}]]
  BY DEF Outbox!Deliveries, Outbox!TypeOK
<1>2. /\ job'[j] = record /\ \A i \in Outbox!Jobs \ {j} : job'[i] = job[i]
      /\ job' \in [Outbox!Jobs -> [state : Outbox!JobStates, made : 0 .. Attempts, stalls : 0 .. MaxStalls]]
  BY <1>1
<1>3. e \in Events
  BY DEF Outbox!EventOf, Outbox!Jobs
<1>4. /\ event' \in [Events -> [status : {"ABSENT", "PENDING", "SENT", "FAILED"},
                                stale : BOOLEAN, retries : 0 .. MaxRetries]]
      /\ event'[e].status = status /\ event'[e].retries = event[e].retries
      /\ \A d \in Events \ {e} : event'[d] = event[d]
  <2> DEFINE row == [event[e] EXCEPT !.status = status]
  <2>1. /\ row \in [status : {"ABSENT", "PENDING", "SENT", "FAILED"},
                    stale : BOOLEAN, retries : 0 .. MaxRetries]
        /\ row.status = status /\ row.retries = event[e].retries
    BY <1>1, <1>3
  <2>2. event' = [event EXCEPT ![e] = row]
    OBVIOUS
  <2> HIDE DEF row, e
  <2>3. event'[e] = row /\ \A d \in Events \ {e} : event'[d] = event[d]
    BY <1>1, <1>3, <2>2
  <2>4. event' \in [Events -> [status : {"ABSENT", "PENDING", "SENT", "FAILED"},
                              stale : BOOLEAN, retries : 0 .. MaxRetries]]
    BY <1>1, <1>3, <2>1, <2>2
  <2> QED
    BY <2>1, <2>3, <2>4
<1>5. /\ worker'[w].pc = pc /\ worker'[w].job = held
      /\ \A v \in Workers \ {w} : worker'[v] = worker[v]
      /\ worker' \in [Workers -> [pc : {"idle", "push", "answer", "failed"},
                                  job : Outbox!Jobs \cup {NoJob}]]
  BY <1>1
<1> HIDE DEF e
<1>6. Outbox!TypeOK'
  BY <1>2, <1>4, <1>5 DEF Outbox!Deliveries, Outbox!TypeOK
<1>7. \A v \in Workers : Outbox!WorkerHolds(v)'
  <2>1. j # NoJob
    BY DEF Outbox!OutboxBounds
  <2>2. Outbox!WorkerHolds(w)'
    <3>1. held = NoJob \/ (held = j /\ \A v \in Workers : worker'[v].job = j => v = w)
      BY <1>5
    <3> QED
      BY <1>2, <1>5, <2>1, <3>1 DEF Outbox!WorkerHolds
  <2>3. ASSUME NEW v \in Workers \ {w}
        PROVE  Outbox!WorkerHolds(v)'
    <3>1. Outbox!WorkerHolds(v) /\ worker'[v] = worker[v] /\ worker[v].job # j
      BY <1>5 DEF Outbox!Deliveries
    <3>2. worker[v].job # NoJob => worker[v].job \in Outbox!Jobs \ {j}
      BY <1>1, <3>1
    <3>3. worker[v].job # NoJob => worker'[w].job # worker[v].job
      BY <1>5, <3>1
    <3> QED
      BY <1>2, <1>5, <3>1, <3>2, <3>3 DEF Outbox!WorkerHolds
  <2> QED
    BY <2>2, <2>3
<1>8. \A i \in Outbox!Jobs : Outbox!JobHolds(i)'
  BY <1>2 DEF Outbox!Deliveries, Outbox!JobHolds
<1>9. \A d \in Events : Outbox!RetryIsNew(d)'
  <2>1. \A i \in Outbox!Jobs : job[i].state = "none" => job'[i].state = "none"
    BY <1>2
  <2>2. \A d \in Events : \A n \in 0 .. MaxRetries : <<d, n>> \in Outbox!Jobs
    BY DEF Outbox!Jobs
  <2> SUFFICES ASSUME NEW d \in Events
               PROVE  Outbox!RetryIsNew(d)'
    OBVIOUS
  <2>3. event'[d].retries = event[d].retries /\ event[d].retries \in 0 .. MaxRetries
    BY <1>1, <1>4
  <2>4. Outbox!RetryIsNew(d)
    BY DEF Outbox!Deliveries
  <2> QED
    BY <2>1, <2>2, <2>3, <2>4 DEF Outbox!RetryIsNew
<1>10. \A d \in Events : Outbox!SentIsLeft(d)'
  <2>1. Outbox!SentIsLeft(e)'
    <3> SUFFICES ASSUME status = "SENT"
                 PROVE  /\ e \in received'
                        /\ event[e].retries = 0 => \A v \in Workers : worker'[v].job # <<e, 0>>
      BY <1>4 DEF Outbox!SentIsLeft
    <3>1. CASE event[e].status = "SENT"
      <4>1. Outbox!SentIsLeft(e)
        BY <1>3 DEF Outbox!Deliveries
      <4>2. worker'[w].job = worker[w].job \/ worker'[w].job = NoJob
        BY <1>5, <3>1 DEF e
      <4>3. <<e, 0>> # NoJob
        BY <1>3 DEF Outbox!OutboxBounds, Outbox!Jobs
      <4>4. /\ e \in received
            /\ event[e].retries = 0 => \A v \in Workers : worker[v].job # <<e, 0>>
        BY <3>1, <4>1 DEF Outbox!SentIsLeft
      <4>5. ASSUME event[e].retries = 0, NEW v \in Workers
            PROVE  worker'[v].job # <<e, 0>>
        <5>1. CASE v = w
          BY <4>2, <4>3, <4>4, <4>5, <5>1
        <5>2. CASE v # w
          BY <1>5, <4>4, <4>5, <5>2
        <5> QED
          BY <5>1, <5>2
      <4>6. e \in received'
        BY <1>5, <4>4
      <4> QED
        BY <4>5, <4>6
    <3>2. CASE event[e].status # "SENT"
      <4>1. held = NoJob /\ e \in received
        BY <3>2 DEF e
      <4>2. ASSUME event[e].retries = 0, NEW v \in Workers, worker'[v].job = <<e, 0>>
            PROVE  FALSE
        <5>1. v # w /\ worker[v].job = <<e, 0>> /\ worker[v].job # j
          BY <1>3, <1>5, <4>1, <4>2 DEF Outbox!OutboxBounds, Outbox!Jobs
        <5>2. j = <<e, j[2]>> /\ j[2] \in 0 .. MaxRetries
          BY DEF e, Outbox!EventOf, Outbox!Jobs
        <5>3. j[2] > 0
          BY <5>1, <5>2 DEF Outbox!OutboxBounds
        <5>4. job[<<e, j[2]>>].state = "none"
          BY <1>3, <4>2, <5>2, <5>3 DEF Outbox!Deliveries, Outbox!RetryIsNew
        <5> QED
          BY <5>2, <5>4
      <4> QED
        BY <4>1, <4>2
    <3> QED
      BY <3>1, <3>2
  <2>2. ASSUME NEW d \in Events \ {e}
        PROVE  Outbox!SentIsLeft(d)'
    <3>1. Outbox!SentIsLeft(d) /\ event'[d] = event[d]
      BY <1>4 DEF Outbox!Deliveries
    <3>2. j # <<d, 0>> /\ NoJob # <<d, 0>>
      BY DEF e, Outbox!EventOf, Outbox!OutboxBounds, Outbox!Jobs
    <3> QED
      BY <1>5, <3>1, <3>2 DEF Outbox!SentIsLeft
  <2> QED
    BY <2>1, <2>2
<1> QED
  BY <1>6, <1>7, <1>8, <1>9, <1>10 DEF Outbox!Deliveries

LEMMA ProcessorHolds ==
  ASSUME Outbox!OutboxBounds, Outbox!Deliveries, NEW w \in Workers, Outbox!Attempt(w) \/ Outbox!Crash(w)
  PROVE  Outbox!Deliveries'
<1> DEFINE Record == [state : Outbox!JobStates, made : 0 .. Attempts, stalls : 0 .. MaxStalls]
<1>1. /\ Outbox!WorkerHolds(w) /\ worker[w].pc \in {"push", "answer", "failed"}
      /\ worker[w] \in [pc : {"idle", "push", "answer", "failed"}, job : Outbox!Jobs \cup {NoJob}]
  BY DEF Outbox!Deliveries, Outbox!TypeOK, Outbox!Attempt, Outbox!Crash, Outbox!Received,
    Outbox!MarkSent, Outbox!Pushed, Outbox!AttemptFails,
         Outbox!MarkFailed
<1>2. PICK j \in Outbox!Jobs : j = worker[w].job
  BY <1>1 DEF Outbox!WorkerHolds
<1>3. /\ \A v \in Workers \ {w} : worker[v].job # j
      /\ worker[w].pc \in {"push", "answer"} => job[j].state = "active"
      /\ worker[w].pc = "failed" => job[j].state = "failed"
  BY <1>1, <1>2 DEF Outbox!WorkerHolds
<1>4. job[j] \in Record /\ job = [job EXCEPT ![j] = job[j]] /\ job[j].state # "none"
  BY <1>1, <1>3 DEF Outbox!Deliveries, Outbox!TypeOK
<1>5. Outbox!EventOf(j) \in Events
  BY <1>3 DEF Outbox!EventOf, Outbox!Jobs
<1>6. event = [event EXCEPT ![Outbox!EventOf(j)].status = event[Outbox!EventOf(j)].status]
  BY <1>5 DEF Outbox!Deliveries, Outbox!TypeOK
<1>7. /\ received \subseteq Events /\ faults \in 0 .. MaxFaults /\ j # NoJob
      /\ Outbox!JobHolds(j) /\ job \in [Outbox!Jobs -> Record]
  BY <1>3 DEF Outbox!Deliveries, Outbox!TypeOK, Outbox!OutboxBounds
<1>8. \A pc \in {"answer", "failed"} :
        [worker EXCEPT ![w].pc = pc] = [worker EXCEPT ![w] = [pc |-> pc, job |-> j]]
  <2>1. \A pc \in {"answer", "failed"} :
          [worker[w] EXCEPT !.pc = pc] = [pc |-> pc, job |-> j]
    BY <1>1, <1>2
  <2> QED
    BY <2>1
<1>9. CASE Outbox!Received(w)
  <2>1. worker' = [worker EXCEPT ![w] = [pc |-> "answer", job |-> j]]
    BY <1>2, <1>8, <1>9 DEF Outbox!Received
  <2>2. /\ received' = received \cup {Outbox!EventOf(j)}
        /\ UNCHANGED <<event, job, publishing, admin, faults>>
    BY <1>2, <1>9 DEF Outbox!Received
  <2>3. job[j].state = "active" /\ job[j].made < Attempts
    BY <1>2, <1>3, <1>7, <1>9 DEF Outbox!Received, Outbox!JobHolds
  <2>4. /\ received \subseteq received' /\ received' \subseteq Events
        /\ Outbox!EventOf(j) \in received' /\ faults' \in 0 .. MaxFaults
    BY <1>5, <1>7, <2>2
  <2>5. /\ job' = [job EXCEPT ![j] = job[j]]
        /\ event' = [event EXCEPT ![Outbox!EventOf(j)].status = event[Outbox!EventOf(j)].status]
    BY <1>4, <1>6, <2>2
  <2>6. Proceeds(w, j, "answer", j, job[j], event[Outbox!EventOf(j)].status)
    BY <1>2, <1>3, <1>4, <1>7, <2>1, <2>2, <2>3, <2>4, <2>5 DEF Proceeds
  <2> QED
    BY <2>6, WorkerStep
<1>10. ASSUME worker' = [worker EXCEPT ![w] = Outbox!Free],
             NEW record \in Record, job' = [job EXCEPT ![j] = record],
             record.state \in {"waiting", "active", "delayed"} => record.made < Attempts,
             record.state # "none",
             NEW status \in {event[Outbox!EventOf(j)].status, "SENT", "FAILED"},
             event' = [event EXCEPT ![Outbox!EventOf(j)].status = status],
             status = "SENT" /\ event[Outbox!EventOf(j)].status # "SENT" => Outbox!EventOf(j) \in received,
             UNCHANGED <<received, publishing, admin>>, faults' \in 0 .. MaxFaults
      PROVE  Outbox!Deliveries'
  <2>1. worker' = [worker EXCEPT ![w] = [pc |-> "idle", job |-> NoJob]]
    BY <1>10 DEF Outbox!Free
  <2>2. /\ status = "SENT" /\ event[Outbox!EventOf(j)].status # "SENT" =>
             NoJob = NoJob /\ Outbox!EventOf(j) \in received
        /\ "idle" = "idle" <=> NoJob = NoJob
        /\ received \subseteq received' /\ received' \subseteq Events
    BY <1>7, <1>10
  <2>3. Proceeds(w, j, "idle", NoJob, record, status)
    BY <1>2, <1>3, <1>4, <1>7, <1>10, <2>1, <2>2 DEF Proceeds
  <2> QED
    BY <2>3, WorkerStep
<1>11. CASE Outbox!MarkSent(w)
  <2> DEFINE record == [job[j] EXCEPT !.state = "completed"]
  <2>1. record \in Record /\ record.state = "completed"
    BY <1>4 DEF Outbox!JobStates
  <2>2. Outbox!EventOf(j) \in received
    BY <1>1, <1>2, <1>11 DEF Outbox!MarkSent, Outbox!Pushed, Outbox!WorkerHolds
  <2>3. /\ job' = [job EXCEPT ![j] = record] /\ worker' = [worker EXCEPT ![w] = Outbox!Free]
        /\ event' = [event EXCEPT ![Outbox!EventOf(j)].status = "SENT"]
        /\ UNCHANGED <<received, publishing, admin, faults>>
    BY <1>2, <1>11 DEF Outbox!MarkSent
  <2> HIDE DEF record
  <2> QED
    BY <1>7, <1>10, <2>1, <2>2, <2>3
<1>12. CASE Outbox!AttemptFails(w)
  <2> DEFINE made == job[j].made + 1
             delayed == [job[j] EXCEPT !.made = made, !.state = "delayed"]
             failed == [job[j] EXCEPT !.made = made, !.state = "failed"]
  <2>1. job[j].state = "active" /\ made \in 0 .. Attempts
    <3>1. job[j].state = "active" /\ job[j].made < Attempts
      BY <1>2, <1>3, <1>7, <1>12 DEF Outbox!AttemptFails, Outbox!JobHolds
    <3> QED
      BY <1>4, <3>1 DEF Outbox!OutboxBounds
  <2>2. /\ delayed \in Record /\ delayed.state = "delayed" /\ delayed.made = made
        /\ failed \in Record /\ failed.state = "failed"
    BY <1>4, <2>1 DEF Outbox!JobStates
  <2>3. UNCHANGED <<event, received, publishing, admin, faults>>
    BY <1>2, <1>12 DEF Outbox!AttemptFails
  <2>4. CASE made < Attempts
    <3>1. job' = [job EXCEPT ![j] = delayed] /\ worker' = [worker EXCEPT ![w] = Outbox!Free]
      BY <1>2, <1>12, <2>4 DEF Outbox!AttemptFails
    <3> HIDE DEF made, delayed
    <3> QED
      BY <1>6, <1>7, <1>10, <2>2, <2>3, <2>4, <3>1
  <2>5. CASE ~(made < Attempts)
    <3>1. /\ job' = [job EXCEPT ![j] = failed]
          /\ worker' = [worker EXCEPT ![w].pc = "failed"]
      BY <1>2, <1>12, <2>5 DEF Outbox!AttemptFails
    <3>2. worker' = [worker EXCEPT ![w] = [pc |-> "failed", job |-> j]]
      BY <1>8, <3>1
    <3> HIDE DEF made, failed
    <3>3. Proceeds(w, j, "failed", j, failed, event[Outbox!EventOf(j)].status)
      BY <1>2, <1>3, <1>4, <1>6, <1>7, <2>2, <2>3, <3>1, <3>2 DEF Proceeds
    <3> QED
      BY <3>3, WorkerStep
  <2> QED
    BY <2>4, <2>5
<1>13. CASE Outbox!MarkFailed(w)
  <2>1. /\ worker' = [worker EXCEPT ![w] = Outbox!Free]
        /\ UNCHANGED <<received, job, publishing, admin>>
        /\ event' = [event EXCEPT ![Outbox!EventOf(j)].status = "FAILED"] \/ event' = event
    BY <1>2, <1>13 DEF Outbox!MarkFailed
  <2>2. faults' \in 0 .. MaxFaults
    BY <1>2, <1>7, <1>13 DEF Outbox!MarkFailed, Outbox!Fault, Outbox!OutboxBounds
  <2> QED
    BY <1>4, <1>6, <1>7, <1>10, <2>1, <2>2 DEF Outbox!JobHolds
<1>14. CASE Outbox!Crash(w)
  <2>1. faults' \in 0 .. MaxFaults
    BY <1>7, <1>14 DEF Outbox!Crash, Outbox!Fault, Outbox!OutboxBounds
  <2>2. /\ worker' = [worker EXCEPT ![w] = Outbox!Free]
        /\ UNCHANGED <<event, received, job, publishing, admin>>
    BY <1>14 DEF Outbox!Crash
  <2> QED
    BY <1>4, <1>6, <1>7, <1>10, <2>1, <2>2 DEF Outbox!JobHolds
<1> QED
  BY <1>9, <1>11, <1>12, <1>13, <1>14 DEF Outbox!Attempt

LEMMA QueueHolds ==
  ASSUME Outbox!OutboxBounds, Outbox!Deliveries, NEW j \in Outbox!Jobs,
         \/ \E w \in Workers : Outbox!Take(w, j)
         \/ Outbox!Promote(j) \/ Outbox!Stalled(j) \/ Outbox!Evict(j)
  PROVE  Outbox!Deliveries'
<1> DEFINE Record == [state : Outbox!JobStates, made : 0 .. Attempts, stalls : 0 .. MaxStalls]
<1>1. /\ job \in [Outbox!Jobs -> Record] /\ job[j] \in Record /\ Outbox!JobHolds(j) /\ j # NoJob
      /\ publishing \in [Events -> SUBSET {"enqueue", "sweep"}] /\ faults \in 0 .. MaxFaults
      /\ received \subseteq Events
  BY DEF Outbox!Deliveries, Outbox!TypeOK, Outbox!OutboxBounds
<1>2. job[j].state \notin {"active", "failed"} => \A w \in Workers : worker[w].job # j
  BY <1>1 DEF Outbox!Deliveries, Outbox!WorkerHolds, Outbox!TypeOK
<1>3. ASSUME NEW state \in {"waiting", "completed"},
             state = "completed" \/ job[j].made < Attempts,
             job' = [job EXCEPT ![j].state = state], job[j].state \in {"waiting", "delayed"},
             UNCHANGED <<event, received, worker, publishing, admin, faults>>
      PROVE  Outbox!Deliveries'
  <2> DEFINE record == [job[j] EXCEPT !.state = state]
  <2>1. record \in Record /\ record.state = state /\ record.made = job[j].made
    BY <1>1 DEF Outbox!JobStates
  <2>2. job' = [job EXCEPT ![j] = record]
    BY <1>3
  <2> HIDE DEF record
  <2> QED
    BY <1>1, <1>2, <1>3, <2>1, <2>2, JobStep
<1>4. ASSUME NEW w \in Workers, Outbox!Take(w, j)
      PROVE  Outbox!Deliveries'
  <2>1. CASE event[Outbox!EventOf(j)].status = "SENT"
    BY <1>3, <1>4, <2>1 DEF Outbox!Take
  <2>2. CASE event[Outbox!EventOf(j)].status # "SENT"
    <3> DEFINE record == [job[j] EXCEPT !.state = "active"]
    <3>1. /\ job' = [job EXCEPT ![j] = record]
          /\ worker' = [worker EXCEPT ![w] = [pc |-> "push", job |-> j]]
          /\ UNCHANGED <<event, received, publishing, admin, faults>>
      BY <1>4, <2>2 DEF Outbox!Take
    <3>2. /\ record \in Record /\ record.state = "active" /\ record.made < Attempts
          /\ job[j].state # "none"
      BY <1>1, <1>4 DEF Outbox!JobStates, Outbox!JobHolds, Outbox!Take
    <3>3. worker[w].job = NoJob /\ \A v \in Workers \ {w} : worker[v].job # j
      BY <1>2, <1>4 DEF Outbox!Take, Outbox!Deliveries, Outbox!WorkerHolds
    <3>4. Outbox!EventOf(j) \in Events
      BY DEF Outbox!EventOf, Outbox!Jobs
    <3>5. event' = [event EXCEPT ![Outbox!EventOf(j)].status = event[Outbox!EventOf(j)].status]
      BY <3>1, <3>4 DEF Outbox!Deliveries, Outbox!TypeOK
    <3> HIDE DEF record
    <3>6. Proceeds(w, j, "push", j, record, event[Outbox!EventOf(j)].status)
      BY <1>1, <2>2, <3>1, <3>2, <3>3, <3>5 DEF Proceeds
    <3> QED
      BY <3>6, WorkerStep
  <2> QED
    BY <2>1, <2>2
<1>5. CASE Outbox!Promote(j)
  BY <1>1, <1>3, <1>5 DEF Outbox!Promote, Outbox!JobHolds
<1>6. CASE Outbox!Stalled(j)
  <2> DEFINE record == [job[j] EXCEPT
                          !.state = IF job[j].stalls < MaxStalls THEN "waiting" ELSE "failed",
                          !.stalls = IF @ < MaxStalls THEN @ + 1 ELSE @]
  <2>1. record \in Record
    <3>1. (IF job[j].stalls < MaxStalls THEN job[j].stalls + 1 ELSE job[j].stalls)
            \in 0 .. MaxStalls
      BY <1>1 DEF Outbox!OutboxBounds
    <3> QED
      BY <1>1, <3>1 DEF Outbox!JobStates
  <2>2. record.state \in {"waiting", "failed"} /\ record.made = job[j].made
    BY <1>1
  <2>3. job[j].state = "active" /\ job[j].made < Attempts
    BY <1>1, <1>6 DEF Outbox!Stalled, Outbox!JobHolds
  <2>4. job' = [job EXCEPT ![j] = record]
    BY <1>1, <1>6, <2>3 DEF Outbox!Stalled
  <2>5. /\ \A w \in Workers : worker[w].job # j
        /\ UNCHANGED <<event, received, worker, publishing, admin, faults>>
    BY <1>6 DEF Outbox!Stalled
  <2> HIDE DEF record
  <2> QED
    BY <1>1, <2>1, <2>2, <2>3, <2>4, <2>5, JobStep
<1>7. CASE Outbox!Evict(j)
  <2>1. Outbox!Absent \in Record /\ Outbox!Absent.state = "none" /\ Outbox!Absent.made = 0
    BY DEF Outbox!Absent, Outbox!JobStates, Outbox!OutboxBounds
  <2> QED
    BY <1>1, <1>7, <2>1, JobStep DEF Outbox!Evict
<1> QED
  BY <1>4, <1>5, <1>6, <1>7

LEMMA OutboxNext ==
  ASSUME Outbox!OutboxBounds, Outbox!Deliveries, [Outbox!Next]_(Outbox!outboxVars)
  PROVE  Outbox!Deliveries'
<1>1. CASE UNCHANGED Outbox!outboxVars
  BY <1>1 DEF Outbox!outboxVars, Outbox!Deliveries, Outbox!TypeOK, Outbox!WorkerHolds,
    Outbox!JobHolds, Outbox!RetryIsNew, Outbox!SentIsLeft
<1>2. CASE Outbox!Sweep
  <2>1. PICK e \in Events : TRUE
    BY <1>2 DEF Outbox!Sweep
  <2> QED
    BY <1>2, PublishStep
<1> QED
  BY <1>1, <1>2, PublishStep, RetryHolds, ProcessorHolds, QueueHolds DEF Outbox!Next

\* An event marked as sent did reach Conduit, and until a person asks for another job
\* it has one worker at a time, for every number of events and workers and whatever
\* fails: the job is named after the event, and BullMQ gives a job to one worker.
THEOREM SentWasDelivered ==
  ASSUME Outbox!OutboxBounds
  PROVE  Outbox!Spec => [](Outbox!TypeOK /\ Outbox!SentWasReceived /\ Outbox!OneWorkerPerEvent)
<1>1. Outbox!Init => Outbox!Deliveries
  BY OutboxInit
<1>2. Outbox!Deliveries /\ [Outbox!Next]_(Outbox!outboxVars) => Outbox!Deliveries'
  BY OutboxNext
<1>3. Outbox!Deliveries => Outbox!TypeOK /\ Outbox!SentWasReceived
  BY DEF Outbox!Deliveries, Outbox!SentIsLeft, Outbox!SentWasReceived
<1>4. Outbox!Deliveries => Outbox!OneWorkerPerEvent
  <2> SUFFICES ASSUME Outbox!Deliveries, NEW e \in Events, NEW v \in Workers, NEW w \in Workers,
                      worker[v].job = <<e, 0>>, worker[w].job = <<e, 0>>
               PROVE  v = w
    BY DEF Outbox!OneWorkerPerEvent
  <2>1. <<e, 0>> # NoJob
    BY DEF Outbox!OutboxBounds, Outbox!Jobs
  <2> QED
    BY <2>1 DEF Outbox!Deliveries, Outbox!WorkerHolds
<1> QED
  BY <1>1, <1>2, <1>3, <1>4, PTL DEF Outbox!Spec

\* No attempt that ends later takes back that an event was sent, although the updates
\* name only the event, unless a person asked for another job.
THEOREM SentStands ==
  ASSUME Outbox!OutboxBounds
  PROVE  Outbox!Spec => [][Outbox!VerdictStands]_(Outbox!outboxVars)
<1>1. Outbox!Init => Outbox!Deliveries
  BY OutboxInit
<1>2. Outbox!Deliveries /\ [Outbox!Next]_(Outbox!outboxVars) => Outbox!Deliveries'
  BY OutboxNext
<1>3. Outbox!Deliveries /\ [Outbox!Next]_(Outbox!outboxVars) => [Outbox!VerdictStands]_(Outbox!outboxVars)
  <2> SUFFICES ASSUME Outbox!Deliveries, Outbox!Next, NEW e \in Events,
                      event[e].status = "SENT", event[e].retries = 0
               PROVE  event'[e].status = "SENT"
    BY DEF Outbox!VerdictStands
  <2>1. /\ event \in [Events -> [status : {"ABSENT", "PENDING", "SENT", "FAILED"},
                                 stale : BOOLEAN, retries : 0 .. MaxRetries]]
        /\ Outbox!RetryIsNew(e) /\ Outbox!SentIsLeft(e)
    BY DEF Outbox!Deliveries, Outbox!TypeOK
  <2>2. ASSUME NEW w \in Workers, Outbox!MarkFailed(w)
        PROVE  event'[e].status = "SENT"
    <3> DEFINE j == worker[w].job
    <3>1. j \in Outbox!Jobs /\ job[j].state = "failed"
      BY <2>2 DEF Outbox!MarkFailed, Outbox!Deliveries, Outbox!TypeOK, Outbox!WorkerHolds
    <3>2. j # <<e, 0>>
      BY <2>1 DEF Outbox!SentIsLeft
    <3>3. Outbox!EventOf(j) # e
      <4> SUFFICES ASSUME Outbox!EventOf(j) = e
                   PROVE  FALSE
        OBVIOUS
      <4>1. j = <<e, j[2]>> /\ j[2] \in 0 .. MaxRetries
        BY <3>1 DEF Outbox!EventOf, Outbox!Jobs
      <4>2. j[2] > 0
        BY <3>2, <4>1 DEF Outbox!OutboxBounds
      <4>3. job[<<e, j[2]>>].state = "none"
        BY <2>1, <4>1, <4>2 DEF Outbox!RetryIsNew
      <4> QED
        BY <3>1, <4>1, <4>3
    <3> QED
      BY <2>1, <2>2, <3>3 DEF Outbox!MarkFailed
  <2>3. ASSUME NEW w \in Workers, Outbox!MarkSent(w)
        PROVE  event'[e].status = "SENT"
    BY <2>1, <2>3 DEF Outbox!MarkSent
  <2>4. ASSUME NEW d \in Events, Outbox!RetryReset(d)
        PROVE  event'[e].status = "SENT"
    <3>1. d # e
      BY <2>1, <2>4 DEF Outbox!RetryReset, Outbox!RetryIsNew
    <3> QED
      BY <2>1, <2>4, <3>1 DEF Outbox!RetryReset
  <2>5. ASSUME NEW d \in Events, Outbox!Enqueue(d) \/ Outbox!BecomeStale(d) \/ Outbox!RetryRead(d)
        PROVE  event'[e].status = "SENT"
    BY <2>1, <2>5 DEF Outbox!Enqueue, Outbox!BecomeStale, Outbox!RetryRead
  <2> QED
    BY <2>2, <2>3, <2>4, <2>5 DEF Outbox!Next, Outbox!RetryStep, Outbox!RetryAdd,
      Outbox!PublishEnds, Outbox!Publish,
       Outbox!PublishFails, Outbox!Sweep, Outbox!Take, Outbox!Attempt, Outbox!Received,
      Outbox!AttemptFails, Outbox!Crash, Outbox!Promote, Outbox!Stalled,
       Outbox!Evict
<1> QED
  BY <1>1, <1>2, <1>3, PTL DEF Outbox!Spec

-----------------------------------------------------------------------------
(* Campaigns                                                               *)

(***************************************************************************)
(* The instance counts with a copy of FiniteSets of its own, which says    *)
(* the same.                                                               *)
(***************************************************************************)
LEMMA SameCounts ==
  ASSUME NEW S
  PROVE  /\ Broadcast!IsFiniteSet(S) <=> IsFiniteSet(S)
         /\ Broadcast!Cardinality(S) = Cardinality(S)
<1>1. Broadcast!IsFiniteSet(S) <=> IsFiniteSet(S)
  BY DEF Broadcast!IsFiniteSet, IsFiniteSet
<1>2. Broadcast!Cardinality(S) = Cardinality(S)
  BY DEF Broadcast!Cardinality, Cardinality
<1> QED
  BY <1>1, <1>2

\* Fewer recipients are counted as fewer.
LEMMA Counted ==
  ASSUME Broadcast!CampaignBounds, NEW S \in SUBSET Broadcast!Ids, NEW T \in SUBSET S
  PROVE  /\ Cardinality(S) \in Nat /\ Cardinality(T) \in Nat
         /\ Cardinality(T) <= Cardinality(S)
<1>1. IsFiniteSet(S) /\ IsFiniteSet(T)
  BY SameCounts, FS_Subset DEF Broadcast!CampaignBounds
<1> QED
  BY <1>1, FS_Subset, FS_CardinalityType

\* A recipient that is planned anew keeps everything but its delay.
LEMMA PlannedKeeps ==
  ASSUME Broadcast!CampaignBounds, Broadcast!Shapes, NEW pending, NEW r \in Broadcast!Ids
  PROVE  /\ Broadcast!IsRecipient(Broadcast!Planned(pending)[r])
         /\ Broadcast!Planned(pending)[r].status = recipient[r].status
         /\ Broadcast!Planned(pending)[r].age = recipient[r].age
<1>1. Broadcast!IsRecipient(recipient[r])
  BY DEF Broadcast!Shapes, Broadcast!RecipientShapes
<1>2. PICK wait : Broadcast!Planned(pending)[r] \in {recipient[r], [recipient[r] EXCEPT !.wait = wait]}
  BY DEF Broadcast!Planned
<1>3. CASE Broadcast!Planned(pending)[r] = recipient[r]
  BY <1>1, <1>3
<1>4. CASE Broadcast!Planned(pending)[r] = [recipient[r] EXCEPT !.wait = wait]
  BY <1>1, <1>4 DEF Broadcast!IsRecipient
<1> QED
  BY <1>2, <1>3, <1>4

\* One recipient changes, or one turn.
LEMMA OneRecipient ==
  ASSUME Broadcast!RecipientShapes, NEW r \in Broadcast!Ids, NEW x, Broadcast!IsRecipient(x),
         recipient' = [recipient EXCEPT ![r] = x]
  PROVE  /\ Broadcast!RecipientShapes'
         /\ recipient'[r] = x /\ \A s \in Broadcast!Ids \ {r} : recipient'[s] = recipient[s]
<1>1. /\ \A s \in Broadcast!Ids : recipient'[s] = IF s = r THEN x ELSE recipient[s]
      /\ recipient' = [s \in Broadcast!Ids |-> recipient'[s]]
  BY DEF Broadcast!RecipientShapes
<1> QED
  BY <1>1 DEF Broadcast!RecipientShapes

LEMMA SameRecipients == ASSUME Broadcast!RecipientShapes, UNCHANGED recipient PROVE Broadcast!RecipientShapes'
<1>1. recipient' = recipient
  OBVIOUS
<1> QED
  BY <1>1 DEF Broadcast!RecipientShapes

LEMMA OneTurn ==
  ASSUME Broadcast!TurnShapes, NEW q \in Runners, NEW turn \in Broadcast!TurnRecord,
         runner' = [runner EXCEPT ![q] = turn],
         turn.pc \notin {"idle", "tick"} => turn.recipient \in Broadcast!Ids
  PROVE  Broadcast!TurnShapes' /\ runner'[q] = turn /\ \A p \in Runners \ {q} : runner'[p] = runner[p]
<1>1. \A p \in Runners : runner'[p] = IF p = q THEN turn ELSE runner[p]
  BY DEF Broadcast!TurnShapes
<1>2. runner' \in [Runners -> Broadcast!TurnRecord]
  BY DEF Broadcast!TurnShapes
<1> QED
  BY <1>1, <1>2 DEF Broadcast!TurnShapes, Broadcast!Mine

LEMMA SameTurns == ASSUME Broadcast!TurnShapes, UNCHANGED runner PROVE Broadcast!TurnShapes'
BY DEF Broadcast!TurnShapes, Broadcast!Mine

\* What a turn knows it takes along.
LEMMA GoesOn ==
  ASSUME Broadcast!TurnShapes, NEW q \in Runners,
         NEW pc \in {"tick", "deliver", "pause", "send", "answer", "record", "streak", "close"},
         runner[q].pc \notin {"idle", "tick"} \/ pc = "tick", Broadcast!Goes(q, pc)
  PROVE  /\ Broadcast!TurnShapes' /\ \A p \in Runners \ {q} : runner'[p] = runner[p]
         /\ runner'[q].pc = pc /\ Broadcast!Mine(q)' = Broadcast!Mine(q)
         /\ runner'[q].age = runner[q].age /\ runner'[q].outcome = runner[q].outcome
<1> DEFINE turn == [runner[q] EXCEPT !.pc = pc]
<1>1. /\ turn \in Broadcast!TurnRecord /\ turn.pc = pc /\ turn.recipient = runner[q].recipient
      /\ turn.age = runner[q].age /\ turn.outcome = runner[q].outcome
      /\ runner[q].recipient \in Broadcast!Ids \/ pc = "tick"
  BY DEF Broadcast!TurnShapes, Broadcast!TurnRecord, Broadcast!Mine
<1>2. runner' = [runner EXCEPT ![q] = turn]
  BY DEF Broadcast!Goes
<1> HIDE DEF turn
<1> QED
  BY <1>1, <1>2, OneTurn DEF Broadcast!Mine

LEMMA ComesToRest ==
  ASSUME Broadcast!CampaignBounds, Broadcast!TurnShapes, NEW q \in Runners, Broadcast!Rests(q)
  PROVE  /\ Broadcast!TurnShapes' /\ \A p \in Runners \ {q} : runner'[p] = runner[p]
         /\ runner'[q].pc = "idle" /\ runner'[q].age = 0
<1>1. Broadcast!Resting \in Broadcast!TurnRecord /\ Broadcast!Resting.pc = "idle" /\ Broadcast!Resting.age = 0
  BY DEF Broadcast!Resting, Broadcast!TurnRecord, Broadcast!CampaignBounds
<1> QED
  BY <1>1, OneTurn DEF Broadcast!Rests

-----------------------------------------------------------------------------

LEMMA ShapesInit == ASSUME Broadcast!CampaignBounds, Broadcast!Init PROVE Broadcast!Shapes
<1>1. Broadcast!RecipientShapes
  <2>1. \A r \in Broadcast!Ids : recipient[r] =
          [status |-> "ABSENT", attempts |-> 0, wait |-> 0, age |-> 0]
    BY DEF Broadcast!Init
  <2> QED
    BY <2>1 DEF Broadcast!Init, Broadcast!RecipientShapes, Broadcast!IsRecipient,
      Broadcast!CampaignBounds
<1>2. Broadcast!TurnShapes
  BY DEF Broadcast!Init, Broadcast!TurnShapes, Broadcast!Resting, Broadcast!TurnRecord,
    Broadcast!CampaignBounds
<1> QED
  BY <1>1, <1>2 DEF Broadcast!Init, Broadcast!Shapes, Broadcast!CampaignBounds

\* Administrators write campaigns, and the delays and statuses of recipients that were
\* not sent to; none of them becomes sent.
Kept(r) ==
  recipient'[r].status = "SENT" =>
    recipient[r].status = "SENT" /\ recipient'[r].age = recipient[r].age

LEMMA AdminShapes ==
  ASSUME Broadcast!CampaignBounds, Broadcast!Shapes, NEW c \in Campaign,
         Broadcast!Create(c) \/ Broadcast!Ask(c) \/ Broadcast!Pause(c) \/ Broadcast!Resume(c) \/ Broadcast!Cancel(c)
  PROVE  Broadcast!Shapes' /\ (\A r \in Broadcast!Ids : Kept(r)) /\ UNCHANGED <<runner, lock, phase, messages>>
<1>1. UNCHANGED <<runner, lock, phase, messages>>
  BY DEF Broadcast!Create, Broadcast!Ask, Broadcast!Begin, Broadcast!Pause,
    Broadcast!Resume, Broadcast!Cancel
<1>2. Broadcast!RecipientShapes /\ Broadcast!TurnShapes /\ Broadcast!TurnShapes'
  BY <1>1, SameTurns DEF Broadcast!Shapes
<1>3. ASSUME UNCHANGED recipient
      PROVE  Broadcast!RecipientShapes' /\ \A r \in Broadcast!Ids : Kept(r)
  BY <1>2, <1>3, SameRecipients DEF Kept
<1>4. ASSUME Broadcast!Create(c)
      PROVE  Broadcast!RecipientShapes' /\ \A r \in Broadcast!Ids : Kept(r)
  <2>1. recipient' = [r \in Broadcast!Ids |-> recipient'[r]]
    BY <1>4 DEF Broadcast!Create
  <2>2. ASSUME NEW r \in Broadcast!Ids
        PROVE  Broadcast!IsRecipient(recipient'[r]) /\ Kept(r)
    <3>1. CASE CampaignOf[r] = c
      <4>1. recipient'[r] = [Broadcast!Planned(Broadcast!Of(c))[r] EXCEPT !.status = "PENDING"]
        BY <1>4, <3>1 DEF Broadcast!Create
      <4>2. Broadcast!IsRecipient(Broadcast!Planned(Broadcast!Of(c))[r])
        BY PlannedKeeps
      <4> QED
        BY <4>1, <4>2 DEF Broadcast!IsRecipient, Kept
    <3>2. CASE CampaignOf[r] # c
      BY <1>2, <1>4, <3>2 DEF Broadcast!Create, Broadcast!RecipientShapes, Kept
    <3> QED
      BY <3>1, <3>2
  <2> QED
    BY <2>1, <2>2 DEF Broadcast!RecipientShapes
<1>5. ASSUME Broadcast!Resume(c)
      PROVE  Broadcast!RecipientShapes' /\ \A r \in Broadcast!Ids : Kept(r)
  <2>1. recipient' = Broadcast!Planned(Broadcast!Again(c))
    BY <1>5 DEF Broadcast!Resume
  <2>2. recipient' = [r \in Broadcast!Ids |-> recipient'[r]]
    BY <2>1 DEF Broadcast!Planned
  <2>3. \A r \in Broadcast!Ids : Broadcast!IsRecipient(recipient'[r]) /\ Kept(r)
    BY <2>1, PlannedKeeps DEF Kept
  <2> QED
    BY <2>2, <2>3 DEF Broadcast!RecipientShapes
<1>6. ASSUME Broadcast!Cancel(c)
      PROVE  Broadcast!RecipientShapes' /\ \A r \in Broadcast!Ids : Kept(r)
  <2>1. recipient' = [r \in Broadcast!Ids |-> recipient'[r]]
    BY <1>6 DEF Broadcast!Cancel
  <2>2. ASSUME NEW r \in Broadcast!Ids
        PROVE  Broadcast!IsRecipient(recipient'[r]) /\ Kept(r)
    <3>1. \/ recipient'[r] = recipient[r]
          \/ recipient'[r] = [recipient[r] EXCEPT !.status = "SKIPPED", !.wait = 0]
      BY <1>6 DEF Broadcast!Cancel
    <3>2. Broadcast!IsRecipient(recipient[r])
      BY <1>2 DEF Broadcast!RecipientShapes
    <3>3. CASE recipient'[r] = recipient[r]
      BY <3>2, <3>3 DEF Kept
    <3>4. CASE recipient'[r] = [recipient[r] EXCEPT !.status = "SKIPPED", !.wait = 0]
      BY <3>2, <3>4 DEF Broadcast!IsRecipient, Kept
    <3> QED
      BY <3>1, <3>3, <3>4
  <2> QED
    BY <2>1, <2>2 DEF Broadcast!RecipientShapes
<1>7. Broadcast!RecipientShapes' /\ \A r \in Broadcast!Ids : Kept(r)
  BY <1>3, <1>4, <1>5, <1>6 DEF Broadcast!Ask, Broadcast!Begin, Broadcast!Pause
<1> QED
  BY <1>1, <1>2, <1>7 DEF Broadcast!Shapes

\* Every step of a turn but the one that records a message as sent.
Moves(q) ==
  /\ \A r \in Broadcast!Ids : Kept(r)
  /\ \A p \in Runners \ {q} : runner'[p] = runner[p]
  /\ runner[q].pc # "idle" /\ runner'[q].age \in {runner[q].age, 0}
  /\ \/ runner'[q].pc \in {"idle", "pause", "streak", "close"}
     \/ runner'[q].pc = "deliver" /\ Broadcast!Room /\ recipient[Broadcast!Mine(q)'].status # "SENT"
     \/ /\ runner'[q].pc \in {"send", "answer", "record"} /\ Broadcast!Mine(q)' = Broadcast!Mine(q)
        /\ \/ runner[q].pc = "deliver" /\ ~Broadcast!RecentlyContacted(Broadcast!Mine(q))
           \/ runner[q].pc \in {"send", "answer"}

LEMMA KeptAll == ASSUME UNCHANGED recipient PROVE \A r \in Broadcast!Ids : Kept(r)
BY DEF Kept

LEMMA TurnMoves ==
  ASSUME Broadcast!CampaignBounds, Broadcast!Shapes, NEW q \in Runners,
         Broadcast!Crash(q) \/ (Broadcast!Turn(q) /\ ~(Broadcast!Records(q) /\ runner[q].outcome = "delivered"))
  PROVE  Broadcast!Shapes' /\ Moves(q) /\ UNCHANGED <<phase, lock>>
<1>1. UNCHANGED <<phase, lock>>
  BY DEF Broadcast!Crash, Broadcast!Turn, Broadcast!Passes, Broadcast!Picks,
    Broadcast!Unusable, Broadcast!PauseWrite, Broadcast!Skips, Broadcast!Sends,
    Broadcast!Delivers, Broadcast!Answered,
     Broadcast!Records, Broadcast!PausesIfStreak, Broadcast!ClosesIfDone
<1>2. Broadcast!RecipientShapes /\ Broadcast!TurnShapes
  BY DEF Broadcast!Shapes
<1>3. ASSUME Broadcast!RecipientShapes', Broadcast!TurnShapes', Moves(q)
      PROVE  Broadcast!Shapes' /\ Moves(q) /\ UNCHANGED <<phase, lock>>
  BY <1>1, <1>3 DEF Broadcast!Shapes
<1>4. ASSUME UNCHANGED recipient
      PROVE  Broadcast!RecipientShapes' /\ \A r \in Broadcast!Ids : Kept(r)
  BY <1>2, <1>4, SameRecipients, KeptAll
<1>5. ASSUME runner[q].pc # "idle", Broadcast!Rests(q), Broadcast!RecipientShapes', \A r \in Broadcast!Ids : Kept(r)
      PROVE  Broadcast!Shapes' /\ Moves(q) /\ UNCHANGED <<phase, lock>>
  BY <1>2, <1>3, <1>5, ComesToRest DEF Moves
<1>6. ASSUME runner[q].pc \notin {"idle", "tick"}, NEW pc \in {"pause", "streak", "close"},
             Broadcast!Goes(q, pc), Broadcast!RecipientShapes', \A r \in Broadcast!Ids : Kept(r)
      PROVE  Broadcast!Shapes' /\ Moves(q) /\ UNCHANGED <<phase, lock>>
  BY <1>2, <1>3, <1>6, GoesOn DEF Moves
<1>7. ASSUME NEW x, Broadcast!IsRecipient(x), x.status # "SENT", Broadcast!Mine(q) \in Broadcast!Ids,
             recipient' = [recipient EXCEPT ![Broadcast!Mine(q)] = x]
      PROVE  Broadcast!RecipientShapes' /\ \A r \in Broadcast!Ids : Kept(r)
  BY <1>2, <1>7, OneRecipient DEF Kept
<1>8. runner[q].pc \notin {"idle", "tick"} => Broadcast!Mine(q) \in Broadcast!Ids /\ Broadcast!IsRecipient(recipient[Broadcast!Mine(q)])
  BY <1>2 DEF Broadcast!TurnShapes, Broadcast!RecipientShapes
<1>9. CASE Broadcast!Crash(q) \/ Broadcast!Passes(q)
  BY <1>4, <1>5, <1>9 DEF Broadcast!Crash, Broadcast!Passes, Broadcast!At
<1>10. CASE Broadcast!Picks(q)
  <2>1. PICK r \in Broadcast!Due : runner' = [runner EXCEPT ![q].pc = "deliver", ![q].recipient = r,
                                                  ![q].attempts = recipient[r].attempts]
    BY <1>10 DEF Broadcast!Picks
  <2>2. r \in Broadcast!Ids /\ recipient[r].status = "PENDING" /\ recipient[r].attempts \in Nat
    BY <1>2 DEF Broadcast!Due, Broadcast!RecipientShapes, Broadcast!IsRecipient
  <2> DEFINE turn == [runner[q] EXCEPT !.pc = "deliver", !.recipient = r,
                                       !.attempts = recipient[r].attempts]
  <2>3. /\ turn \in Broadcast!TurnRecord /\ turn.pc = "deliver" /\ turn.recipient = r
        /\ turn.age = runner[q].age
    BY <1>2, <2>2 DEF Broadcast!TurnShapes, Broadcast!TurnRecord
  <2>4. runner' = [runner EXCEPT ![q] = turn]
    BY <1>2, <2>1 DEF Broadcast!TurnShapes
  <2> HIDE DEF turn
  <2>5. /\ Broadcast!TurnShapes' /\ runner'[q] = turn
        /\ \A p \in Runners \ {q} : runner'[p] = runner[p]
    BY <1>2, <2>2, <2>3, <2>4, OneTurn
  <2> QED
    BY <1>3, <1>4, <1>10, <2>2, <2>3, <2>5 DEF Broadcast!Picks, Moves, Broadcast!At,
      Broadcast!Mine
<1>11. CASE Broadcast!Unusable(q) \/ Broadcast!PausesIfStreak(q)
  <2>1. UNCHANGED recipient /\ runner[q].pc \notin {"idle", "tick"}
    BY <1>11 DEF Broadcast!Unusable, Broadcast!PausesIfStreak, Broadcast!At
  <2>2. Broadcast!Rests(q) \/ \E pc \in {"pause", "close"} : Broadcast!Goes(q, pc)
    BY <1>11 DEF Broadcast!Unusable, Broadcast!PausesIfStreak, Broadcast!PauseOrRest
  <2> QED
    BY <1>4, <1>5, <1>6, <2>1, <2>2
<1>12. CASE Broadcast!PauseWrite(q) \/ Broadcast!ClosesIfDone(q)
  <2>1. UNCHANGED recipient /\ runner[q].pc \notin {"idle", "tick"}
    BY <1>12 DEF Broadcast!PauseWrite, Broadcast!ClosesIfDone, Broadcast!At
  <2>2. Broadcast!Rests(q) \/ Broadcast!Goes(q, "close")
    BY <1>12 DEF Broadcast!PauseWrite, Broadcast!ClosesIfDone
  <2> QED
    BY <1>4, <1>5, <1>6, <2>1, <2>2
<1>13. CASE Broadcast!Skips(q)
  <2>1. runner[q].pc = "deliver" /\ Broadcast!Goes(q, "close")
    BY <1>13 DEF Broadcast!Skips, Broadcast!At
  <2> DEFINE x == [recipient[Broadcast!Mine(q)] EXCEPT !.status = "SKIPPED"]
  <2>2. recipient' = [recipient EXCEPT ![Broadcast!Mine(q)] = x] /\ Broadcast!IsRecipient(x) /\ x.status = "SKIPPED"
    BY <1>8, <1>13, <2>1 DEF Broadcast!Skips, Broadcast!IsRecipient
  <2> HIDE DEF x
  <2> QED
    BY <1>6, <1>7, <1>8, <2>1, <2>2
<1>14. CASE Broadcast!Sends(q) \/ Broadcast!Delivers(q)
  <2>1. /\ UNCHANGED recipient
        /\ \/ /\ runner[q].pc = "deliver" /\ ~Broadcast!RecentlyContacted(Broadcast!Mine(q))
              /\ Broadcast!Goes(q, "send")
           \/ runner[q].pc = "send" /\ Broadcast!Goes(q, "answer")
    BY <1>14 DEF Broadcast!Sends, Broadcast!Delivers, Broadcast!At
  <2> QED
    BY <1>2, <1>3, <1>4, <2>1, GoesOn DEF Moves
<1>15. CASE Broadcast!Answered(q)
  <2>1. PICK outcome \in {"delivered", "permanent", "transient"} :
          runner' = [runner EXCEPT ![q].pc = "record", ![q].outcome = outcome]
    BY <1>15 DEF Broadcast!Answered
  <2>2. UNCHANGED recipient /\ runner[q].pc \in {"send", "answer"}
    BY <1>15 DEF Broadcast!Answered, Broadcast!At
  <2> DEFINE turn == [runner[q] EXCEPT !.pc = "record", !.outcome = outcome]
  <2>3. /\ turn \in Broadcast!TurnRecord /\ turn.pc = "record" /\ turn.recipient = runner[q].recipient
        /\ turn.age = runner[q].age
    BY <1>2 DEF Broadcast!TurnShapes, Broadcast!TurnRecord
  <2>4. runner' = [runner EXCEPT ![q] = turn]
    BY <1>2, <2>1 DEF Broadcast!TurnShapes
  <2> HIDE DEF turn
  <2>5. /\ Broadcast!TurnShapes' /\ runner'[q] = turn
        /\ \A p \in Runners \ {q} : runner'[p] = runner[p]
    BY <1>2, <1>8, <2>2, <2>3, <2>4, OneTurn DEF Broadcast!Mine
  <2> QED
    BY <1>3, <1>4, <2>2, <2>3, <2>5 DEF Moves, Broadcast!Mine
<1>16. CASE Broadcast!Records(q) /\ runner[q].outcome # "delivered"
  <2>1. runner[q].pc = "record" /\ \E pc \in {"close", "streak"} : Broadcast!Goes(q, pc)
    BY <1>16 DEF Broadcast!Records, Broadcast!At
  <2> DEFINE attempts == runner[q].attempts + 1
             failed == [recipient[Broadcast!Mine(q)] EXCEPT !.status = "FAILED", !.attempts = attempts,
                                                  !.wait = 0]
             again == [recipient[Broadcast!Mine(q)] EXCEPT !.attempts = attempts, !.wait = RetryDelay]
  <2>2. attempts \in Nat
    BY <1>2 DEF Broadcast!TurnShapes, Broadcast!TurnRecord
  <2>3. Broadcast!IsRecipient(failed) /\ failed.status = "FAILED"
    BY <1>8, <2>1, <2>2 DEF Broadcast!IsRecipient
  <2>4. /\ Broadcast!IsRecipient(again) /\ again.status = recipient[Broadcast!Mine(q)].status
        /\ again.age = recipient[Broadcast!Mine(q)].age
    BY <1>8, <2>1, <2>2 DEF Broadcast!IsRecipient
  <2>5. \/ recipient' = [recipient EXCEPT ![Broadcast!Mine(q)] = failed]
        \/ recipient' = [recipient EXCEPT ![Broadcast!Mine(q)] = again]
    BY <1>16 DEF Broadcast!Records
  <2> HIDE DEF failed, again
  <2>6. Broadcast!RecipientShapes' /\ \A r \in Broadcast!Ids : Kept(r)
    BY <1>2, <1>8, <2>1, <2>3, <2>4, <2>5, OneRecipient DEF Kept
  <2> QED
    BY <1>6, <2>1, <2>6
<1> QED
  BY <1>9, <1>10, <1>11, <1>12, <1>13, <1>14, <1>15, <1>16 DEF Broadcast!Turn

\* The step that records a message as sent: at the instant at which the turn began.
LEMMA SentMoves ==
  ASSUME Broadcast!CampaignBounds, Broadcast!Shapes, NEW q \in Runners,
         Broadcast!Records(q), runner[q].outcome = "delivered"
  PROVE  /\ Broadcast!Shapes' /\ UNCHANGED <<phase, lock, messages>>
         /\ runner[q].pc = "record" /\ Broadcast!Mine(q) \in Broadcast!Ids
         /\ recipient'[Broadcast!Mine(q)].status = "SENT" /\ recipient'[Broadcast!Mine(q)].age = runner[q].age
         /\ \A r \in Broadcast!Ids \ {Broadcast!Mine(q)} : recipient'[r] = recipient[r]
         /\ \A p \in Runners \ {q} : runner'[p] = runner[p]
         /\ runner'[q].pc = "close" /\ runner'[q].age = runner[q].age
<1>1. Broadcast!RecipientShapes /\ Broadcast!TurnShapes
  BY DEF Broadcast!Shapes
<1>2. runner[q].pc = "record" /\ Broadcast!Mine(q) \in Broadcast!Ids
  BY <1>1 DEF Broadcast!Records, Broadcast!At, Broadcast!TurnShapes
<1> DEFINE x == [status |-> "SENT", attempts |-> runner[q].attempts + 1, wait |-> 0,
                 age |-> runner[q].age]
<1>3. recipient' = [recipient EXCEPT ![Broadcast!Mine(q)] = x] /\ Broadcast!Goes(q, "close")
  BY DEF Broadcast!Records
<1>4. Broadcast!IsRecipient(x) /\ x.status = "SENT" /\ x.age = runner[q].age
  BY <1>1 DEF Broadcast!TurnShapes, Broadcast!TurnRecord, Broadcast!IsRecipient
<1>5. UNCHANGED <<phase, lock, messages>>
  BY DEF Broadcast!Records
<1> HIDE DEF x
<1>6. /\ Broadcast!RecipientShapes' /\ recipient'[Broadcast!Mine(q)] = x
      /\ \A r \in Broadcast!Ids \ {Broadcast!Mine(q)} : recipient'[r] = recipient[r]
  BY <1>1, <1>2, <1>3, <1>4, OneRecipient
<1>7. /\ Broadcast!TurnShapes' /\ \A p \in Runners \ {q} : runner'[p] = runner[p]
      /\ runner'[q].pc = "close" /\ runner'[q].age = runner[q].age
  BY <1>1, <1>2, <1>3, GoesOn
<1> QED
  BY <1>2, <1>4, <1>5, <1>6, <1>7 DEF Broadcast!Shapes

LEMMA RunMoves ==
  ASSUME Broadcast!CampaignBounds, Broadcast!Shapes, NEW q \in Runners, Broadcast!Run(q)
  PROVE  /\ Broadcast!Shapes' /\ UNCHANGED <<recipient, phase, messages>>
         /\ runner'[q].pc = "tick" /\ runner'[q].age = runner[q].age
         /\ \A p \in Runners \ {q} : runner'[p] = runner[p]
         /\ Calm => lock = 0 /\ lock' = 1
<1>1. /\ UNCHANGED <<recipient, phase, messages>> /\ Broadcast!Goes(q, "tick") /\ lock' \in {lock, 1}
      /\ Calm => lock = 0 /\ lock' = 1
  BY DEF Broadcast!Run, Broadcast!FreeLock, Broadcast!Fault
<1>2. Broadcast!RecipientShapes /\ Broadcast!TurnShapes
  BY DEF Broadcast!Shapes
<1>3. Broadcast!RecipientShapes'
  BY <1>1, <1>2, SameRecipients
<1>4. /\ Broadcast!TurnShapes' /\ runner'[q].pc = "tick" /\ runner'[q].age = runner[q].age
      /\ \A p \in Runners \ {q} : runner'[p] = runner[p]
  BY <1>1, <1>2, GoesOn
<1> QED
  BY <1>1, <1>3, <1>4 DEF Broadcast!Shapes

LEMMA TickMoves ==
  ASSUME Broadcast!CampaignBounds, Broadcast!Shapes, Broadcast!Tick
  PROVE  /\ Broadcast!Shapes' /\ UNCHANGED messages
         /\ phase' = IF phase + 1 = Day THEN 0 ELSE phase + 1
         /\ \A r \in Broadcast!Ids :
              /\ recipient'[r].status = recipient[r].status
              /\ recipient[r].status = "SENT" =>
                   recipient'[r].age = IF recipient[r].age < Day THEN recipient[r].age + 1 ELSE Day
         /\ \A q \in Runners :
              /\ runner'[q].pc = runner[q].pc /\ Broadcast!Mine(q)' = Broadcast!Mine(q)
              /\ runner'[q].outcome = runner[q].outcome
              /\ runner[q].pc = "idle" => runner'[q] = runner[q]
<1>1. /\ Broadcast!RecipientShapes /\ Broadcast!TurnShapes
      /\ phase \in 0 .. Day - 1 /\ lock \in 0 .. 1 /\ Day \in Nat \ {0}
  BY DEF Broadcast!Shapes, Broadcast!CampaignBounds
<1>2. /\ phase' = IF phase + 1 = Day THEN 0 ELSE phase + 1
      /\ phase' \in 0 .. Day - 1 /\ lock' \in 0 .. 1
  <2>1. phase' = (phase + 1) % Day /\ lock' = IF lock = 0 THEN 0 ELSE lock - 1
    BY DEF Broadcast!Tick
  <2>2. CASE phase + 1 = Day
    BY <1>1, <2>1, <2>2
  <2>3. CASE phase + 1 # Day
    BY <1>1, <2>1, <2>3
  <2> QED
    BY <1>1, <2>1, <2>2, <2>3
<1>3. ASSUME NEW r \in Broadcast!Ids
      PROVE  /\ Broadcast!IsRecipient(recipient'[r])
             /\ recipient'[r].status = recipient[r].status
             /\ recipient[r].status = "SENT" =>
                  recipient'[r].age = IF recipient[r].age < Day THEN recipient[r].age + 1 ELSE Day
  <2>1. Broadcast!IsRecipient(recipient[r])
    BY <1>1 DEF Broadcast!RecipientShapes
  <2> DEFINE wait == IF recipient[r].wait = 0 THEN 0 ELSE recipient[r].wait - 1
             age == IF recipient[r].status = "SENT" THEN Broadcast!Smaller(recipient[r].age + 1, Day) ELSE 0
  <2>2. recipient'[r] = [recipient[r] EXCEPT !.wait = wait, !.age = age]
    BY DEF Broadcast!Tick
  <2>3. /\ age \in 0 .. Day
        /\ recipient[r].status = "SENT" =>
             age = IF recipient[r].age < Day THEN recipient[r].age + 1 ELSE Day
    BY <1>1, <2>1 DEF Broadcast!IsRecipient, Broadcast!Smaller
  <2> HIDE DEF wait, age
  <2> QED
    BY <2>1, <2>2, <2>3 DEF Broadcast!IsRecipient
<1>4. Broadcast!RecipientShapes'
  <2>1. recipient' = [r \in Broadcast!Ids |-> recipient'[r]]
    BY DEF Broadcast!Tick
  <2> QED
    BY <1>3, <2>1 DEF Broadcast!RecipientShapes
<1>5. ASSUME NEW q \in Runners
      PROVE  /\ runner'[q] \in Broadcast!TurnRecord /\ runner'[q].pc = runner[q].pc
             /\ runner'[q].recipient = runner[q].recipient
             /\ runner'[q].outcome = runner[q].outcome
             /\ runner[q].pc = "idle" => runner'[q] = runner[q]
  <2>1. runner[q] \in Broadcast!TurnRecord
    BY <1>1 DEF Broadcast!TurnShapes
  <2>2. CASE runner[q].pc = "idle"
    BY <2>1, <2>2 DEF Broadcast!Tick, Broadcast!At
  <2>3. CASE runner[q].pc # "idle"
    <3> DEFINE age == Broadcast!Smaller(runner[q].age + 1, Day)
    <3>1. runner'[q] = [runner[q] EXCEPT !.age = age]
      BY <2>3 DEF Broadcast!Tick, Broadcast!At
    <3>2. age \in 0 .. Day
      BY <1>1, <2>1 DEF Broadcast!TurnRecord, Broadcast!Smaller
    <3> HIDE DEF age
    <3> QED
      BY <2>1, <2>3, <3>1, <3>2 DEF Broadcast!TurnRecord
  <2> QED
    BY <2>2, <2>3
<1>6. Broadcast!TurnShapes'
  <2>1. runner' \in [Runners -> Broadcast!TurnRecord]
    BY <1>5 DEF Broadcast!Tick
  <2> QED
    BY <1>1, <1>5, <2>1 DEF Broadcast!TurnShapes, Broadcast!Mine
<1> QED
  BY <1>2, <1>3, <1>4, <1>5, <1>6 DEF Broadcast!Shapes, Broadcast!Tick, Broadcast!Mine

-----------------------------------------------------------------------------
(* What was marked as sent was delivered *)

LEMMA ToldInit == ASSUME Broadcast!CampaignBounds, Broadcast!Init PROVE Broadcast!Told
BY DEF Broadcast!Init, Broadcast!Told, Broadcast!SentWasDelivered, Broadcast!Sent,
  Broadcast!Resting

\* A message stays, and whoever learns of one sent it.
LEMMA ToldStep ==
  ASSUME Broadcast!CampaignBounds, Broadcast!Shapes, Broadcast!Told, [Broadcast!Next]_(Broadcast!campaignVars)
  PROVE  Broadcast!Shapes' /\ Broadcast!Told'
<1> DEFINE HasMessage(r) == \E m \in messages : m.to = r
           Knows(q) == \/ runner[q].pc = "answer"
                       \/ runner[q].pc = "record" /\ runner[q].outcome = "delivered"
<1>1. ASSUME Broadcast!Shapes', UNCHANGED messages,
             \A r \in Broadcast!Ids : recipient'[r].status = "SENT" =>
                              recipient[r].status = "SENT" \/ HasMessage(r),
             \A q \in Runners : Knows(q)' => Knows(q) /\ Broadcast!Mine(q)' = Broadcast!Mine(q)
      PROVE  Broadcast!Shapes' /\ Broadcast!Told'
  <2>1. \A m \in messages' : m.to \in Broadcast!Ids /\ m.key = Broadcast!MessageKey(m.to)'
    BY <1>1 DEF Broadcast!Told, Broadcast!MessageKey
  <2>2. \A q \in Runners : Knows(q)' => HasMessage(Broadcast!Mine(q))'
    BY <1>1 DEF Broadcast!Told
  <2>3. Broadcast!SentWasDelivered'
    BY <1>1 DEF Broadcast!Told, Broadcast!SentWasDelivered, Broadcast!Sent
  <2> QED
    BY <1>1, <2>1, <2>2, <2>3 DEF Broadcast!Told
<1>2. CASE UNCHANGED Broadcast!campaignVars
  <2>1. UNCHANGED <<recipient, messages, lock, runner, phase>>
    BY <1>2 DEF Broadcast!campaignVars
  <2>2. Broadcast!Shapes'
    BY <2>1, SameRecipients, SameTurns DEF Broadcast!Shapes
  <2> QED
    BY <1>1, <2>1, <2>2 DEF Broadcast!Mine
<1>3. ASSUME NEW c \in Campaign, Broadcast!Create(c) \/ Broadcast!Ask(c) \/ Broadcast!Pause(c) \/ Broadcast!Resume(c) \/ Broadcast!Cancel(c)
      PROVE  Broadcast!Shapes' /\ Broadcast!Told'
  <2>1. Broadcast!Shapes' /\ (\A r \in Broadcast!Ids : Kept(r)) /\ UNCHANGED <<runner, messages>>
    BY <1>3, AdminShapes
  <2> QED
    BY <1>1, <2>1 DEF Broadcast!Mine, Kept
<1>4. ASSUME NEW q \in Runners, Broadcast!Run(q)
      PROVE  Broadcast!Shapes' /\ Broadcast!Told'
  <2>1. /\ Broadcast!Shapes' /\ UNCHANGED <<recipient, messages>> /\ runner'[q].pc = "tick"
        /\ \A p \in Runners \ {q} : runner'[p] = runner[p]
    BY <1>4, RunMoves
  <2> QED
    BY <1>1, <2>1 DEF Broadcast!Mine
<1>5. CASE Broadcast!Tick
  BY <1>1, <1>5, TickMoves
<1>6. ASSUME NEW q \in Runners, Broadcast!Records(q), runner[q].outcome = "delivered"
      PROVE  Broadcast!Shapes' /\ Broadcast!Told'
  <2>1. /\ Broadcast!Shapes' /\ UNCHANGED messages /\ runner[q].pc = "record" /\ Broadcast!Mine(q) \in Broadcast!Ids
        /\ \A r \in Broadcast!Ids \ {Broadcast!Mine(q)} : recipient'[r] = recipient[r]
        /\ \A p \in Runners \ {q} : runner'[p] = runner[p]
        /\ runner'[q].pc = "close"
    BY <1>6, SentMoves
  <2>2. HasMessage(Broadcast!Mine(q))
    BY <1>6, <2>1 DEF Broadcast!Told
  <2> QED
    BY <1>1, <2>1, <2>2 DEF Broadcast!Mine
<1>7. ASSUME NEW q \in Runners,
             Broadcast!Crash(q) \/ (Broadcast!Turn(q) /\ ~(Broadcast!Records(q) /\ runner[q].outcome = "delivered"))
      PROVE  Broadcast!Shapes' /\ Broadcast!Told'
  <2>1. Broadcast!Shapes' /\ Moves(q)
    BY <1>7, TurnMoves
  <2>2. CASE Broadcast!Delivers(q)
    <3>1. runner[q].pc = "send" /\ Broadcast!Mine(q) \in Broadcast!Ids
      BY <2>2 DEF Broadcast!Delivers, Broadcast!At, Broadcast!Shapes, Broadcast!TurnShapes
    <3>2. \/ messages' = messages
          \/ messages' = messages \cup {[key |-> Broadcast!MessageKey(Broadcast!Mine(q)), to |-> Broadcast!Mine(q)]}
      BY <2>2 DEF Broadcast!Delivers
    <3>3. \A m \in messages' : m.to \in Broadcast!Ids /\ m.key = Broadcast!MessageKey(m.to)'
      BY <3>1, <3>2 DEF Broadcast!Told, Broadcast!MessageKey
    <3>4. \E m \in messages' : m.to = Broadcast!Mine(q)
      <4>1. CASE \E m \in messages : m.key = Broadcast!MessageKey(Broadcast!Mine(q))
        <5>1. PICK m \in messages : m.key = Broadcast!MessageKey(Broadcast!Mine(q))
          BY <4>1
        <5>2. m.to \in Broadcast!Ids /\ Broadcast!MessageKey(m.to) = Broadcast!MessageKey(Broadcast!Mine(q))
          BY <5>1 DEF Broadcast!Told
        <5>3. m.to = Broadcast!Mine(q)
          BY <3>1, <5>2 DEF Broadcast!CampaignBounds, Broadcast!MessageKey
        <5> QED
          BY <3>2, <5>3
      <4>2. CASE ~\E m \in messages : m.key = Broadcast!MessageKey(Broadcast!Mine(q))
        <5> DEFINE message == [key |-> Broadcast!MessageKey(Broadcast!Mine(q)), to |-> Broadcast!Mine(q)]
        <5>1. messages' = messages \cup {message}
          BY <2>2, <4>2 DEF Broadcast!Delivers
        <5>2. message.to = Broadcast!Mine(q)
          OBVIOUS
        <5> HIDE DEF message
        <5> QED
          BY <5>1, <5>2
      <4> QED
        BY <4>1, <4>2
    <3>5. Broadcast!Goes(q, "answer")
      BY <2>2 DEF Broadcast!Delivers
    <3>6. /\ Broadcast!Mine(q)' = Broadcast!Mine(q) /\ \A p \in Runners \ {q} : runner'[p] = runner[p]
      BY <3>1, <3>5, GoesOn DEF Broadcast!Shapes
    <3>7. \A p \in Runners : Knows(p)' => HasMessage(Broadcast!Mine(p))'
      <4> SUFFICES ASSUME NEW p \in Runners, Knows(p)'
                   PROVE  \E m \in messages' : m.to = Broadcast!Mine(p)'
        OBVIOUS
      <4>1. CASE p = q
        BY <3>4, <3>6, <4>1
      <4>2. CASE p # q
        BY <3>2, <3>6, <4>2 DEF Broadcast!Told, Broadcast!Mine
      <4> QED
        BY <4>1, <4>2
    <3>8. Broadcast!SentWasDelivered'
      BY <2>1, <3>2 DEF Broadcast!Told, Broadcast!SentWasDelivered, Broadcast!Sent, Moves,
        Kept
    <3> QED
      BY <2>1, <3>3, <3>7, <3>8 DEF Broadcast!Told
  <2>3. CASE ~Broadcast!Delivers(q)
    <3>1. UNCHANGED messages
      BY <1>7, <2>3 DEF Broadcast!Crash, Broadcast!Turn, Broadcast!Passes, Broadcast!Picks,
        Broadcast!Unusable, Broadcast!PauseWrite, Broadcast!Skips, Broadcast!Sends,
         Broadcast!Answered, Broadcast!Records, Broadcast!PausesIfStreak,
        Broadcast!ClosesIfDone
    <3>2. Knows(q)' => Knows(q) /\ Broadcast!Mine(q)' = Broadcast!Mine(q)
      <4> SUFFICES ASSUME Knows(q)'
                   PROVE  Knows(q) /\ Broadcast!Mine(q)' = Broadcast!Mine(q)
        OBVIOUS
      <4>1. Broadcast!Mine(q)' = Broadcast!Mine(q) /\ runner[q].pc \in {"deliver", "send", "answer"}
        BY <2>1 DEF Moves
      <4>2. Broadcast!Answered(q)
        <5>1. runner'[q].pc \in {"answer", "record"}
          OBVIOUS
        <5>2. ~Broadcast!Goes(q, "send") /\ ~Broadcast!Goes(q, "close") /\ ~Broadcast!Goes(q, "pause") /\ ~Broadcast!Rests(q)
          BY <4>1, <5>1, GoesOn, ComesToRest DEF Broadcast!Shapes
        <5>3. ~Broadcast!Picks(q) /\ ~Broadcast!Crash(q) /\ ~Broadcast!Passes(q) /\ ~Broadcast!Records(q) /\ ~Broadcast!PausesIfStreak(q)
              /\ ~Broadcast!ClosesIfDone(q) /\ ~Broadcast!PauseWrite(q)
          BY <4>1, <5>2 DEF Broadcast!Picks, Broadcast!Crash, Broadcast!Passes,
            Broadcast!Records, Broadcast!PausesIfStreak, Broadcast!ClosesIfDone,
             Broadcast!PauseWrite, Broadcast!At
        <5>4. ~Broadcast!Unusable(q) /\ ~Broadcast!Skips(q) /\ ~Broadcast!Sends(q)
          BY <5>2 DEF Broadcast!Unusable, Broadcast!PauseOrRest, Broadcast!Skips,
            Broadcast!Sends
        <5> QED
          BY <1>7, <2>3, <5>3, <5>4 DEF Broadcast!Turn
      <4>3. /\ runner'[q].pc = "record"
            /\ runner'[q].outcome = "delivered" => runner[q].pc = "answer"
        BY <4>2 DEF Broadcast!Answered, Broadcast!At, Broadcast!Shapes,
          Broadcast!TurnShapes, Broadcast!TurnRecord
      <4> QED
        BY <4>1, <4>3
    <3> QED
      BY <1>1, <2>1, <3>1, <3>2 DEF Moves, Kept, Broadcast!Mine
  <2> QED
    BY <2>2, <2>3
<1> QED
  BY <1>2, <1>3, <1>4, <1>5, <1>6, <1>7 DEF Broadcast!Next, Broadcast!Turn

\* What is reported as sent was delivered, although turns die, are held up until others
\* have the lock and repeat what a dead one did, and a client is in several campaigns.
THEOREM ReportedWasDelivered ==
  ASSUME Broadcast!CampaignBounds
  PROVE  Broadcast!Spec => []Broadcast!SentWasDelivered
<1>1. Broadcast!Init => Broadcast!Shapes /\ Broadcast!Told
  BY ShapesInit, ToldInit
<1>2. Broadcast!Shapes /\ Broadcast!Told /\ [Broadcast!Next]_(Broadcast!campaignVars) => (Broadcast!Shapes /\ Broadcast!Told)'
  BY ToldStep
<1>3. Broadcast!Told => Broadcast!SentWasDelivered
  BY DEF Broadcast!Told
<1> QED
  BY <1>1, <1>2, <1>3, PTL DEF Broadcast!Spec

-----------------------------------------------------------------------------
(* The limits *)

LEMMA SentCounted ==
  ASSUME Broadcast!CampaignBounds, NEW ticks, NEW S \in SUBSET Broadcast!SentWithin(ticks)
  PROVE  /\ Cardinality(Broadcast!SentWithin(ticks)) \in Nat /\ Cardinality(S) \in Nat
         /\ Cardinality(S) <= Cardinality(Broadcast!SentWithin(ticks))
<1>1. Broadcast!SentWithin(ticks) \in SUBSET Broadcast!Ids
  BY DEF Broadcast!SentWithin, Broadcast!Sent
<1> QED
  BY <1>1, Counted

\* Where nobody is sent to, nobody new counts.
LEMMA RoomStays ==
  ASSUME Broadcast!CampaignBounds, phase' = phase, \A r \in Broadcast!Ids : Kept(r)
  PROVE  /\ Broadcast!Room => Broadcast!Room'
         /\ Broadcast!LimitsHold => Broadcast!LimitsHold'
         /\ Broadcast!CooldownKept => Broadcast!CooldownKept'
         /\ \A r \in Broadcast!Ids : Broadcast!RecentlyContacted(r)' => Broadcast!RecentlyContacted(r)
<1>1. /\ Broadcast!Sent' \subseteq Broadcast!Sent
      /\ \A r \in Broadcast!Sent' : recipient'[r].age = recipient[r].age
  BY DEF Broadcast!Sent, Kept
<1>2. /\ Broadcast!SentWithin(phase)' \in SUBSET Broadcast!SentWithin(phase)
      /\ Broadcast!SentWithin(Hour)' \in SUBSET Broadcast!SentWithin(Hour)
  BY <1>1 DEF Broadcast!SentWithin
<1>3. /\ Cardinality(Broadcast!SentWithin(phase)) \in Nat /\ Cardinality(Broadcast!SentWithin(phase)') \in Nat
      /\ Cardinality(Broadcast!SentWithin(phase)') <= Cardinality(Broadcast!SentWithin(phase))
      /\ Cardinality(Broadcast!SentWithin(Hour)) \in Nat /\ Cardinality(Broadcast!SentWithin(Hour)') \in Nat
      /\ Cardinality(Broadcast!SentWithin(Hour)') <= Cardinality(Broadcast!SentWithin(Hour))
  BY <1>2, SentCounted
<1>4. Broadcast!Room => Broadcast!Room'
  <2>1. /\ Cardinality(Broadcast!SentWithin(phase)) < MaxPerDay =>
             Cardinality(Broadcast!SentWithin(phase)') < MaxPerDay
        /\ Cardinality(Broadcast!SentWithin(Hour)) < HourlyCap =>
             Cardinality(Broadcast!SentWithin(Hour)') < HourlyCap
    BY <1>3 DEF Broadcast!CampaignBounds
  <2> QED
    BY SameCounts, <1>1, <2>1 DEF Broadcast!Room
<1>5. Broadcast!LimitsHold => Broadcast!LimitsHold'
  <2>1. /\ Cardinality(Broadcast!SentWithin(phase)) <= MaxPerDay =>
             Cardinality(Broadcast!SentWithin(phase)') <= MaxPerDay
        /\ Cardinality(Broadcast!SentWithin(Hour)) <= HourlyCap =>
             Cardinality(Broadcast!SentWithin(Hour)') <= HourlyCap
    BY <1>3 DEF Broadcast!CampaignBounds
  <2> QED
    BY SameCounts, <1>1, <2>1 DEF Broadcast!LimitsHold
<1>6. Broadcast!CooldownKept => Broadcast!CooldownKept'
  BY <1>1 DEF Broadcast!CooldownKept
<1>7. \A r \in Broadcast!Ids : Broadcast!RecentlyContacted(r)' => Broadcast!RecentlyContacted(r)
  BY <1>1 DEF Broadcast!RecentlyContacted
<1> QED
  BY <1>4, <1>5, <1>6, <1>7

\* What is sent at the end of a turn was found to have room at its beginning.
LEMMA LimitsWhenSent ==
  ASSUME Broadcast!CampaignBounds, Broadcast!Shapes, Broadcast!Shapes', Broadcast!LimitsHold, Broadcast!CooldownKept, phase' = phase,
         NEW r \in Broadcast!Ids, r \notin Broadcast!Sent, Broadcast!Room, ~Broadcast!RecentlyContacted(r),
         recipient'[r].status = "SENT", recipient'[r].age = 0,
         \A s \in Broadcast!Ids \ {r} : recipient'[s] = recipient[s]
  PROVE  Broadcast!LimitsHold' /\ Broadcast!CooldownKept'
<1>1. /\ Broadcast!Sent' = Broadcast!Sent \cup {r} /\ r \in Broadcast!Sent' /\ recipient'[r].age = 0
      /\ \A s \in Broadcast!Sent : s # r /\ s \in Broadcast!Ids /\ recipient'[s] = recipient[s]
  BY DEF Broadcast!Sent
<1>2. \A s \in Broadcast!Sent : recipient[s].age \in 0 .. Day
  BY <1>1 DEF Broadcast!Shapes, Broadcast!RecipientShapes, Broadcast!IsRecipient
<1>3. /\ Broadcast!SentWithin(phase)' \subseteq Broadcast!SentWithin(phase) \cup {r}
      /\ Broadcast!SentWithin(Hour)' \subseteq Broadcast!SentWithin(Hour) \cup {r}
  BY <1>1 DEF Broadcast!SentWithin
<1>4. ASSUME NEW ticks, NEW T \in SUBSET (Broadcast!SentWithin(ticks) \cup {r}), NEW most \in Nat,
             Cardinality(Broadcast!SentWithin(ticks)) < most
      PROVE  Cardinality(T) <= most
  <2>1. Broadcast!SentWithin(ticks) \in SUBSET Broadcast!Ids /\ Broadcast!SentWithin(ticks) \cup {r} \in SUBSET Broadcast!Ids
    BY DEF Broadcast!SentWithin, Broadcast!Sent
  <2>2. /\ Cardinality(Broadcast!SentWithin(ticks)) \in Nat
        /\ Cardinality(Broadcast!SentWithin(ticks) \cup {r}) \in Nat /\ Cardinality(T) \in Nat
        /\ Cardinality(T) <= Cardinality(Broadcast!SentWithin(ticks) \cup {r})
    BY <2>1, Counted
  <2>3. IsFiniteSet(Broadcast!SentWithin(ticks))
    BY SameCounts, <2>1, FS_Subset DEF Broadcast!CampaignBounds
  <2>4. \/ Cardinality(Broadcast!SentWithin(ticks) \cup {r}) = Cardinality(Broadcast!SentWithin(ticks))
        \/ Cardinality(Broadcast!SentWithin(ticks) \cup {r}) = Cardinality(Broadcast!SentWithin(ticks)) + 1
    BY <2>3, FS_AddElement
  <2> QED
    BY <1>4, <2>2, <2>4
<1>5. /\ Cardinality(Broadcast!SentWithin(phase)') <= MaxPerDay
      /\ Cardinality(Broadcast!SentWithin(Hour)') <= HourlyCap
  BY SameCounts, <1>3, <1>4 DEF Broadcast!Room, Broadcast!CampaignBounds
<1>6. ASSUME NEW s \in Broadcast!Sent', NEW u \in Broadcast!Sent', s # u,
             recipient'[s].age <= recipient'[u].age, recipient'[u].age < Day
      PROVE  recipient'[u].age - recipient'[s].age >= Gap
  <2>1. CASE s # r /\ u # r
    BY <1>1, <1>6, <2>1 DEF Broadcast!LimitsHold
  <2>2. CASE s = r
    BY <1>1, <1>2, <1>6, <2>2 DEF Broadcast!Room, Broadcast!CampaignBounds
  <2>3. CASE u = r
    BY <1>1, <1>2, <1>6, <2>3 DEF Broadcast!Room, Broadcast!CampaignBounds
  <2> QED
    BY <2>1, <2>2, <2>3
<1>7. Broadcast!LimitsHold'
  BY SameCounts, <1>5, <1>6 DEF Broadcast!LimitsHold
<1>8. ASSUME NEW s \in Broadcast!Sent', NEW u \in Broadcast!Sent', s # u, ClientOf[s] = ClientOf[u]
      PROVE  recipient'[s].age >= Cooldown \/ recipient'[u].age >= Cooldown
  <2>1. CASE s # r /\ u # r
    BY <1>1, <1>8, <2>1 DEF Broadcast!CooldownKept
  <2>2. CASE s = r \/ u = r
    BY <1>1, <1>2, <1>8, <2>2 DEF Broadcast!RecentlyContacted, Broadcast!CampaignBounds
  <2> QED
    BY <2>1, <2>2
<1>9. Broadcast!CooldownKept'
  BY <1>8 DEF Broadcast!CooldownKept
<1> QED
  BY <1>7, <1>9

\* Messages get older together.
LEMMA LimitsAsTimePasses ==
  ASSUME Broadcast!CampaignBounds, Broadcast!Shapes, Broadcast!Tick, Broadcast!LimitsHold, Broadcast!CooldownKept
  PROVE  Broadcast!LimitsHold' /\ Broadcast!CooldownKept'
<1>1. /\ Broadcast!Sent' = Broadcast!Sent
      /\ \A r \in Broadcast!Sent : /\ recipient[r].age \in 0 .. Day
                         /\ recipient'[r].age = IF recipient[r].age < Day
                                                THEN recipient[r].age + 1 ELSE Day
  BY TickMoves DEF Broadcast!Sent, Broadcast!Shapes, Broadcast!RecipientShapes,
    Broadcast!IsRecipient
<1>2. /\ Day \in Nat \ {0} /\ Hour \in Nat /\ Gap \in Nat /\ Cooldown \in 0 .. Day
      /\ MaxPerDay \in Nat /\ HourlyCap \in Nat /\ phase \in 0 .. Day - 1
      /\ phase' = IF phase + 1 = Day THEN 0 ELSE phase + 1
  BY TickMoves DEF Broadcast!CampaignBounds, Broadcast!Shapes
<1>3. Broadcast!SentWithin(Hour)' \in SUBSET Broadcast!SentWithin(Hour)
  BY <1>1, <1>2 DEF Broadcast!SentWithin
<1>4. Cardinality(Broadcast!SentWithin(Hour)') <= HourlyCap
  BY SameCounts, <1>2, <1>3, SentCounted DEF Broadcast!LimitsHold
<1>5. Cardinality(Broadcast!SentWithin(phase)') <= MaxPerDay
  <2>1. Broadcast!SentWithin(phase)' \in SUBSET Broadcast!SentWithin(phase)
    BY <1>1, <1>2 DEF Broadcast!SentWithin
  <2> QED
    BY SameCounts, <1>2, <2>1, SentCounted DEF Broadcast!LimitsHold
<1>6. ASSUME NEW s \in Broadcast!Sent', NEW u \in Broadcast!Sent', s # u,
             recipient'[s].age <= recipient'[u].age, recipient'[u].age < Day
      PROVE  recipient'[u].age - recipient'[s].age >= Gap
  <2>1. /\ recipient[s].age <= recipient[u].age /\ recipient[u].age < Day
        /\ recipient'[u].age - recipient'[s].age = recipient[u].age - recipient[s].age
    BY <1>1, <1>2, <1>6
  <2> QED
    BY <1>1, <1>6, <2>1 DEF Broadcast!LimitsHold
<1>7. Broadcast!LimitsHold'
  BY SameCounts, <1>4, <1>5, <1>6 DEF Broadcast!LimitsHold
<1>8. Broadcast!CooldownKept'
  BY <1>1, <1>2 DEF Broadcast!CooldownKept
<1> QED
  BY <1>7, <1>8

LEMMA TurnsInit == ASSUME Broadcast!CampaignBounds, Broadcast!Init PROVE Broadcast!Turns
<1>1. Broadcast!Shapes
  BY ShapesInit
<1>2. \A q \in Runners : Broadcast!TurnHolds(q)
  BY DEF Broadcast!Init, Broadcast!TurnHolds, Broadcast!Resting
<1>3. Broadcast!Sent = {} /\ Broadcast!SentWithin(Hour) = {} /\ Broadcast!SentWithin(phase) = {}
  BY DEF Broadcast!Init, Broadcast!Sent, Broadcast!SentWithin
<1>4. Broadcast!LimitsHold /\ Broadcast!CooldownKept
  BY SameCounts, <1>3, FS_EmptySet DEF Broadcast!LimitsHold, Broadcast!CooldownKept,
    Broadcast!CampaignBounds
<1> QED
  BY <1>1, <1>2, <1>4 DEF Broadcast!Turns

LEMMA TurnsNext ==
  ASSUME Broadcast!CampaignBounds, Calm, Broadcast!Turns, [Broadcast!Next]_(Broadcast!campaignVars)
  PROVE  Broadcast!Turns'
<1>1. Broadcast!Shapes /\ Broadcast!LimitsHold /\ Broadcast!CooldownKept /\ \A q \in Runners : Broadcast!TurnHolds(q)
  BY DEF Broadcast!Turns
\* Whoever is between the beginning and the end of a turn knows what it knew.
<1>2. ASSUME Broadcast!Shapes', UNCHANGED <<phase, lock>>, \A r \in Broadcast!Ids : Kept(r)
      PROVE  /\ Broadcast!LimitsHold' /\ Broadcast!CooldownKept' /\ (Broadcast!Room => Broadcast!Room')
             /\ \A r \in Broadcast!Ids : Broadcast!RecentlyContacted(r)' => Broadcast!RecentlyContacted(r)
  BY <1>1, <1>2, RoomStays
<1>3. CASE UNCHANGED Broadcast!campaignVars
  <2>1. UNCHANGED <<recipient, lock, runner, phase>>
    BY <1>3 DEF Broadcast!campaignVars
  <2>2. Broadcast!Shapes' /\ \A r \in Broadcast!Ids : Kept(r)
    BY <1>1, <2>1, SameRecipients, SameTurns DEF Broadcast!Shapes, Kept
  <2>3. \A q \in Runners : Broadcast!TurnHolds(q)'
    BY <1>1, <1>2, <2>1, <2>2 DEF Broadcast!TurnHolds, Broadcast!Mine, Kept,
      Broadcast!Shapes, Broadcast!TurnShapes
  <2> QED
    BY <1>2, <2>1, <2>2, <2>3 DEF Broadcast!Turns
<1>4. ASSUME NEW c \in Campaign, Broadcast!Create(c) \/ Broadcast!Ask(c) \/ Broadcast!Pause(c) \/ Broadcast!Resume(c) \/ Broadcast!Cancel(c)
      PROVE  Broadcast!Turns'
  <2>1. Broadcast!Shapes' /\ (\A r \in Broadcast!Ids : Kept(r)) /\ UNCHANGED <<runner, lock, phase>>
    BY <1>1, <1>4, AdminShapes
  <2>2. \A q \in Runners : Broadcast!TurnHolds(q)'
    BY <1>1, <1>2, <2>1 DEF Broadcast!TurnHolds, Broadcast!Mine, Kept, Broadcast!Shapes,
      Broadcast!TurnShapes
  <2> QED
    BY <1>2, <2>1, <2>2 DEF Broadcast!Turns
<1>5. ASSUME NEW q \in Runners, Broadcast!Run(q)
      PROVE  Broadcast!Turns'
  <2>1. /\ Broadcast!Shapes' /\ UNCHANGED <<recipient, phase>>
        /\ runner'[q].pc = "tick" /\ runner'[q].age = runner[q].age
        /\ \A p \in Runners \ {q} : runner'[p] = runner[p]
        /\ lock = 0 /\ lock' = 1
    BY <1>1, <1>5, RunMoves
  <2>2. \A p \in Runners : Broadcast!TurnHolds(p)'
    <3>1. \A p \in Runners : runner[p].pc = "idle" /\ runner[p].age = 0
      BY <1>1, <2>1 DEF Broadcast!TurnHolds
    <3> QED
      BY <2>1, <3>1 DEF Broadcast!TurnHolds
  <2>3. Broadcast!LimitsHold' /\ Broadcast!CooldownKept'
    BY <1>1, <2>1, RoomStays DEF Kept
  <2> QED
    BY <2>1, <2>2, <2>3 DEF Broadcast!Turns
<1>6. CASE Broadcast!Tick
  <2>1. \A q \in Runners : runner[q].pc = "idle" /\ runner'[q] = runner[q]
    BY <1>1, <1>6, TickMoves DEF Broadcast!Tick, Broadcast!At
  <2>2. \A q \in Runners : Broadcast!TurnHolds(q)'
    BY <1>1, <2>1 DEF Broadcast!TurnHolds
  <2> QED
    BY <1>1, <1>6, <2>2, TickMoves, LimitsAsTimePasses DEF Broadcast!Turns
<1>7. ASSUME NEW q \in Runners, Broadcast!Records(q), runner[q].outcome = "delivered"
      PROVE  Broadcast!Turns'
  <2>1. /\ Broadcast!Shapes' /\ UNCHANGED <<phase, lock>>
        /\ runner[q].pc = "record" /\ Broadcast!Mine(q) \in Broadcast!Ids
        /\ recipient'[Broadcast!Mine(q)].status = "SENT" /\ recipient'[Broadcast!Mine(q)].age = runner[q].age
        /\ \A r \in Broadcast!Ids \ {Broadcast!Mine(q)} : recipient'[r] = recipient[r]
        /\ \A p \in Runners \ {q} : runner'[p] = runner[p]
        /\ runner'[q].pc = "close" /\ runner'[q].age = runner[q].age
    BY <1>1, <1>7, SentMoves
  <2>2. Broadcast!TurnHolds(q) /\ Broadcast!Mine(q) \notin Broadcast!Sent /\ runner[q].age = 0
    BY <1>1, <2>1 DEF Broadcast!TurnHolds, Broadcast!Sent
  <2>3. Broadcast!LimitsHold' /\ Broadcast!CooldownKept'
    BY <1>1, <2>1, <2>2, LimitsWhenSent DEF Broadcast!TurnHolds
  <2>4. \A p \in Runners : Broadcast!TurnHolds(p)'
    BY <1>1, <2>1, <2>2 DEF Broadcast!TurnHolds
  <2> QED
    BY <2>1, <2>3, <2>4 DEF Broadcast!Turns
<1>8. ASSUME NEW q \in Runners,
             Broadcast!Crash(q) \/ (Broadcast!Turn(q) /\ ~(Broadcast!Records(q) /\ runner[q].outcome = "delivered"))
      PROVE  Broadcast!Turns'
  <2>1. Broadcast!Shapes' /\ Moves(q) /\ UNCHANGED <<phase, lock>>
    BY <1>1, <1>8, TurnMoves
  <2>2. Broadcast!TurnHolds(q) /\ \A p \in Runners \ {q} : Broadcast!TurnHolds(p) /\ runner[p].pc = "idle"
    BY <1>1, <2>1 DEF Moves, Broadcast!TurnHolds
  <2>3. \A p \in Runners \ {q} : Broadcast!TurnHolds(p)'
    BY <2>1, <2>2 DEF Moves, Broadcast!TurnHolds
  <2>4. Broadcast!TurnHolds(q)'
    <3>1. /\ runner'[q].age = 0 /\ lock' = 1
          /\ \A p \in Runners : runner'[p].pc # "idle" => p = q
      BY <2>1, <2>2 DEF Moves, Broadcast!TurnHolds
    <3>2. runner'[q].pc \in {"deliver", "send", "answer", "record"} =>
            Broadcast!Mine(q)' \in Broadcast!Ids /\ Broadcast!Room /\ recipient[Broadcast!Mine(q)'].status # "SENT"
      BY <2>1, <2>2 DEF Moves, Broadcast!TurnHolds, Broadcast!Shapes, Broadcast!TurnShapes
    <3>3. runner'[q].pc \in {"send", "answer", "record"} => ~Broadcast!RecentlyContacted(Broadcast!Mine(q)')
      BY <2>1, <2>2 DEF Moves, Broadcast!TurnHolds
    <3> QED
      BY <1>2, <2>1, <3>1, <3>2, <3>3 DEF Moves, Kept, Broadcast!TurnHolds
  <2> QED
    BY <1>2, <2>1, <2>3, <2>4 DEF Broadcast!Turns, Moves
<1> QED
  BY <1>3, <1>4, <1>5, <1>6, <1>7, <1>8 DEF Broadcast!Next

\* While turns end before the lock expires and Redis answers, no more is sent within an
\* hour, a day or the gap between two messages than allowed, for all campaigns and
\* runners together, and a client gets one message within the cooldown.
THEOREM CampaignLimits ==
  ASSUME Broadcast!CampaignBounds, Calm
  PROVE  Broadcast!Spec => [](Broadcast!LimitsHold /\ Broadcast!CooldownKept)
<1>1. Broadcast!Init => Broadcast!Turns
  BY TurnsInit
<1>2. Broadcast!Turns /\ [Broadcast!Next]_(Broadcast!campaignVars) => Broadcast!Turns'
  BY TurnsNext
<1>3. Broadcast!Turns => Broadcast!LimitsHold /\ Broadcast!CooldownKept
  BY DEF Broadcast!Turns
<1> QED
  BY <1>1, <1>2, <1>3, PTL DEF Broadcast!Spec

LEMMA StreaksTell == Broadcast!Streaks => Broadcast!StreakStops
BY DEF Broadcast!Streaks, Broadcast!StreakStops, Broadcast!StopsInTime

LEMMA StreaksInit == ASSUME Broadcast!CampaignBounds, Broadcast!StreakBounds, Broadcast!Init PROVE Broadcast!Streaks
<1>1. /\ campaign = [c \in Campaign |-> [status |-> "ABSENT", resumes |-> 0]]
      /\ finished = [c \in Campaign |-> <<>>]
      /\ runner = [q \in Runners |-> Broadcast!Resting]
  BY DEF Broadcast!Init
<1>2. campaign \in [Campaign -> Broadcast!CampaignRecord]
  BY <1>1 DEF Broadcast!CampaignRecord
<1>3. \A c \in Campaign : finished[c] = <<>> /\ campaign[c].status = "ABSENT"
  BY <1>1
<1>4. \A q \in Runners : ~Broadcast!Serving(q)
  BY <1>1 DEF Broadcast!Serving, Broadcast!Resting
<1>5. <<>> \in Seq(Broadcast!Ids) /\ Len(<<>>) = 0 /\ DOMAIN <<>> = {}
  OBVIOUS
<1>6. \A c \in Campaign : Broadcast!Listed(c) /\ ~Broadcast!Hopeless(c) /\ Broadcast!StopsInTime(c)
  <2> SUFFICES ASSUME NEW c \in Campaign
               PROVE  Broadcast!Listed(c) /\ ~Broadcast!Hopeless(c) /\ Broadcast!StopsInTime(c)
    OBVIOUS
  <2>1. finished[c] = <<>>
    BY <1>3
  <2>2. ~(Len(<<>>) >= BreakerStreak) /\ ~(Len(<<>>) > BreakerStreak)
    BY <1>5 DEF Broadcast!StreakBounds
  <2> QED
    BY <1>5, <2>1, <2>2 DEF Broadcast!Listed, Broadcast!Hopeless, Broadcast!StopsInTime
<1> QED
  BY <1>1, <1>2, <1>4, <1>6 DEF Broadcast!Streaks, Broadcast!StreakSeen, Broadcast!HopeLeft

\* While the list of a campaign and the statuses of those in it stay, so does what it says.
LEMMA SameList ==
  ASSUME Broadcast!StreakBounds, Broadcast!Streaks, NEW c \in Campaign, finished'[c] = finished[c],
         \A i \in DOMAIN finished[c] :
           recipient'[finished[c][i]].status = recipient[finished[c][i]].status
  PROVE  /\ Broadcast!Hopeless(c)' <=> Broadcast!Hopeless(c)
         /\ Broadcast!StopsInTime(c)' <=> Broadcast!StopsInTime(c)
         /\ (campaign'[c].status = "ABSENT" => campaign[c].status = "ABSENT") => Broadcast!Listed(c)'
<1>1. finished[c] \in Seq(Broadcast!Ids) /\ finished'[c] = finished[c] /\ Broadcast!Listed(c)
  BY DEF Broadcast!Streaks, Broadcast!Listed
<1>2. Len(finished[c]) \in Nat /\ DOMAIN finished[c] = 1 .. Len(finished[c])
  BY <1>1
<1>3. ASSUME Len(finished[c]) >= BreakerStreak,
             NEW i \in Len(finished[c]) - BreakerStreak + 1 .. Len(finished[c])
      PROVE  i \in DOMAIN finished[c]
  BY <1>2, <1>3 DEF Broadcast!StreakBounds
<1>4. ASSUME Len(finished[c]) > BreakerStreak,
             NEW i \in Len(finished[c]) - BreakerStreak .. Len(finished[c])
      PROVE  i \in DOMAIN finished[c]
  BY <1>2, <1>4 DEF Broadcast!StreakBounds
<1>5. Broadcast!Hopeless(c)' <=> Broadcast!Hopeless(c)
  BY <1>1, <1>3 DEF Broadcast!Hopeless
<1>6. Broadcast!StopsInTime(c)' <=> Broadcast!StopsInTime(c)
  BY <1>1, <1>4 DEF Broadcast!StopsInTime
<1>7. (campaign'[c].status = "ABSENT" => campaign[c].status = "ABSENT") => Broadcast!Listed(c)'
  BY <1>1 DEF Broadcast!Listed
<1> QED
  BY <1>5, <1>6, <1>7

\* Steps that list nobody.
LEMMA KeepsStreaks ==
  ASSUME Broadcast!StreakBounds, Broadcast!Streaks, UNCHANGED finished, campaign' \in [Campaign -> Broadcast!CampaignRecord],
         \A c \in Campaign :
           /\ \A i \in DOMAIN finished[c] :
                recipient'[finished[c][i]].status = recipient[finished[c][i]].status
           /\ campaign'[c].status = "ABSENT" => campaign[c].status = "ABSENT"
           /\ campaign'[c].resumes = 0 =>
                /\ campaign[c].resumes = 0
                /\ campaign'[c].status = "RUNNING" => campaign[c].status \in {"RUNNING", "ABSENT"},
         \A q \in Runners : Broadcast!Stopping(q) =>
           \/ Broadcast!Stopping(q)' /\ runner'[q].recipient = Broadcast!Mine(q)
           \/ campaign'[Broadcast!CampaignOfTurn(q)].status # "RUNNING"
           \/ ~Broadcast!Hopeless(Broadcast!CampaignOfTurn(q)),
         \A q \in Runners : Broadcast!Serving(q)' =>
           \E r \in Broadcast!Ids :
             /\ runner'[q].recipient = r /\ recipient'[r].status \in {"PENDING", "SKIPPED"}
             /\ \/ Broadcast!Serving(q) /\ Broadcast!Mine(q) = r
                \/ /\ campaign[CampaignOf[r]].status # "ABSENT"
                   /\ campaign[CampaignOf[r]].resumes = 0 => ~Broadcast!Hopeless(CampaignOf[r])
  PROVE  Broadcast!Streaks'
<1>1. ASSUME NEW c \in Campaign
      PROVE  /\ Broadcast!Listed(c)' /\ (campaign'[c].resumes = 0 => Broadcast!StopsInTime(c)')
             /\ Broadcast!Hopeless(c)' <=> Broadcast!Hopeless(c)
  BY SameList DEF Broadcast!Streaks
<1>2. ASSUME NEW c \in Campaign
      PROVE  Broadcast!StreakSeen(c)'
  <2> SUFFICES ASSUME campaign'[c].resumes = 0, Broadcast!Hopeless(c)', campaign'[c].status = "RUNNING"
               PROVE  \E q \in Runners : Broadcast!Stopping(q)' /\ Broadcast!CampaignOfTurn(q)' = c
    BY DEF Broadcast!StreakSeen
  <2>1. Broadcast!Hopeless(c) /\ campaign[c].resumes = 0
    BY <1>1
  <2>2. campaign[c].status # "ABSENT"
    <3>1. ASSUME finished[c] = <<>>
          PROVE  FALSE
      <4>1. Len(finished[c]) = 0
        BY <3>1
      <4> QED
        BY <2>1, <4>1 DEF Broadcast!Hopeless, Broadcast!StreakBounds
    <3> QED
      BY <3>1 DEF Broadcast!Streaks, Broadcast!Listed
  <2>3. campaign[c].status = "RUNNING"
    BY <2>1, <2>2
  <2>4. PICK q \in Runners : Broadcast!Stopping(q) /\ Broadcast!CampaignOfTurn(q) = c
    BY <2>1, <2>3 DEF Broadcast!Streaks, Broadcast!StreakSeen
  <2>5. Broadcast!Stopping(q)' /\ runner'[q].recipient = Broadcast!Mine(q)
    BY <2>1, <2>4
  <2> QED
    BY <2>4, <2>5 DEF Broadcast!CampaignOfTurn, Broadcast!Mine
<1>3. ASSUME NEW q \in Runners
      PROVE  Broadcast!HopeLeft(q)'
  <2> SUFFICES ASSUME Broadcast!Serving(q)'
               PROVE  Broadcast!HopeLeft(q)'
    BY DEF Broadcast!HopeLeft
  <2>1. PICK r \in Broadcast!Ids :
          /\ runner'[q].recipient = r /\ recipient'[r].status \in {"PENDING", "SKIPPED"}
          /\ \/ Broadcast!Serving(q) /\ Broadcast!Mine(q) = r
             \/ /\ campaign[CampaignOf[r]].status # "ABSENT"
                /\ campaign[CampaignOf[r]].resumes = 0 => ~Broadcast!Hopeless(CampaignOf[r])
    OBVIOUS
  <2> DEFINE c == CampaignOf[r]
  <2>2. /\ campaign[c].status # "ABSENT"
        /\ campaign[c].resumes = 0 => ~Broadcast!Hopeless(c)
    BY <2>1 DEF Broadcast!Streaks, Broadcast!HopeLeft, Broadcast!CampaignOfTurn
  <2>3. c \in Campaign
    BY DEF Broadcast!StreakBounds
  <2>4. /\ campaign'[c].status # "ABSENT"
        /\ campaign'[c].resumes = 0 => ~Broadcast!Hopeless(c)'
    BY <1>1, <2>2, <2>3
  <2> QED
    BY <2>1, <2>4 DEF Broadcast!HopeLeft, Broadcast!CampaignOfTurn, Broadcast!Mine,
      Broadcast!Hopeless
<1>4. finished' = [c \in Campaign |-> finished'[c]]
  BY DEF Broadcast!Streaks
<1> QED
  BY <1>1, <1>2, <1>3, <1>4 DEF Broadcast!Streaks

\* Administrators: a campaign begins with an empty list, and one that runs again was resumed.
LEMMA AdminStreaks ==
  ASSUME Broadcast!CampaignBounds, Broadcast!StreakBounds, Broadcast!Shapes, Broadcast!Streaks, NEW c \in Campaign,
         Broadcast!Create(c) \/ Broadcast!Ask(c) \/ Broadcast!Pause(c) \/ Broadcast!Resume(c) \/ Broadcast!Cancel(c)
  PROVE  Broadcast!Streaks'
<1> DEFINE listed(d) == \A i \in DOMAIN finished[d] :
                          recipient'[finished[d][i]].status = recipient[finished[d][i]].status
<1>1. UNCHANGED <<finished, runner>>
  BY DEF Broadcast!Create, Broadcast!Ask, Broadcast!Begin, Broadcast!Pause,
    Broadcast!Resume, Broadcast!Cancel
<1>2. /\ campaign \in [Campaign -> Broadcast!CampaignRecord]
      /\ \A d \in Campaign : Broadcast!Listed(d)
  BY DEF Broadcast!Streaks
<1>3. \A d \in Campaign : /\ \A i \in DOMAIN finished[d] : finished[d][i] \in Broadcast!Ids
  BY <1>2 DEF Broadcast!Listed
<1>4. \A q \in Runners : Broadcast!Stopping(q)' <=> Broadcast!Stopping(q)
  BY <1>1 DEF Broadcast!Stopping
<1>5. ASSUME \A d \in Campaign : listed(d),
             campaign' \in [Campaign -> Broadcast!CampaignRecord],
             \A d \in Campaign \ {c} : campaign'[d] = campaign[d],
             campaign'[c].status # "ABSENT" \/ campaign'[c] = campaign[c],
             campaign'[c].resumes = 0 =>
               /\ campaign[c].resumes = 0
               /\ campaign'[c].status = "RUNNING" => campaign[c].status \in {"RUNNING", "ABSENT"},
             \A r \in Broadcast!Ids : recipient[r].status \in {"PENDING", "SKIPPED"} =>
                                        recipient'[r].status \in {"PENDING", "SKIPPED"}
      PROVE  Broadcast!Streaks'
  <2>1. \A q \in Runners : Broadcast!Serving(q)' =>
          \E r \in Broadcast!Ids :
             /\ runner'[q].recipient = r /\ recipient'[r].status \in {"PENDING", "SKIPPED"}
             /\ Broadcast!Serving(q) /\ Broadcast!Mine(q) = r
    <3> SUFFICES ASSUME NEW q \in Runners, Broadcast!Serving(q)'
                 PROVE  /\ Broadcast!Mine(q) \in Broadcast!Ids /\ runner'[q].recipient = Broadcast!Mine(q) /\ Broadcast!Serving(q)
                        /\ recipient'[Broadcast!Mine(q)].status \in {"PENDING", "SKIPPED"}
      OBVIOUS
    <3>1. Broadcast!Serving(q) /\ runner'[q].recipient = Broadcast!Mine(q)
      BY <1>1 DEF Broadcast!Serving, Broadcast!Mine
    <3>2. Broadcast!Mine(q) \in Broadcast!Ids
      BY <3>1 DEF Broadcast!Serving, Broadcast!Shapes, Broadcast!TurnShapes
    <3>3. Broadcast!HopeLeft(q)
      BY DEF Broadcast!Streaks
    <3> QED
      BY <1>5, <3>1, <3>2, <3>3 DEF Broadcast!HopeLeft
  <2>2. \A q \in Runners : Broadcast!Stopping(q) => Broadcast!Stopping(q)' /\ runner'[q].recipient = Broadcast!Mine(q)
    BY <1>1, <1>4 DEF Broadcast!Mine
  <2>3. \A d \in Campaign :
          /\ campaign'[d].status = "ABSENT" => campaign[d].status = "ABSENT"
          /\ campaign'[d].resumes = 0 =>
               /\ campaign[d].resumes = 0
               /\ campaign'[d].status = "RUNNING" => campaign[d].status \in {"RUNNING", "ABSENT"}
    BY <1>5
  <2> QED
    BY <1>1, <1>5, <2>1, <2>2, <2>3, KeepsStreaks
<1>6. CASE Broadcast!Ask(c)
  <2>1. UNCHANGED <<campaign, recipient>>
    BY <1>6 DEF Broadcast!Ask, Broadcast!Begin
  <2> QED
    BY <1>2, <1>5, <2>1
<1>7. ASSUME NEW status \in {"RUNNING", "PAUSED", "CANCELLED"},
             campaign' = [campaign EXCEPT ![c].status = status]
      PROVE  /\ campaign' \in [Campaign -> Broadcast!CampaignRecord]
             /\ \A d \in Campaign \ {c} : campaign'[d] = campaign[d]
             /\ campaign'[c].status = status /\ campaign'[c].resumes = campaign[c].resumes
  BY <1>2, <1>7 DEF Broadcast!CampaignRecord
<1>8. CASE Broadcast!Pause(c)
  <2>1. campaign' = [campaign EXCEPT ![c].status = "PAUSED"] /\ UNCHANGED recipient
    BY <1>8 DEF Broadcast!Pause
  <2> QED
    BY <1>5, <1>7, <2>1
<1>9. CASE Broadcast!Cancel(c)
  <2>1. /\ campaign' = [campaign EXCEPT ![c].status = "CANCELLED"]
        /\ recipient' = [r \in Broadcast!Ids |->
             IF CampaignOf[r] = c /\ recipient[r].status = "PENDING"
             THEN [recipient[r] EXCEPT !.status = "SKIPPED", !.wait = 0] ELSE recipient[r]]
    BY <1>9 DEF Broadcast!Cancel
  <2>2. \A r \in Broadcast!Ids : Broadcast!IsRecipient(recipient[r])
    BY DEF Broadcast!Shapes, Broadcast!RecipientShapes
  <2>3. \A r \in Broadcast!Ids : recipient'[r].status =
          IF CampaignOf[r] = c /\ recipient[r].status = "PENDING" THEN "SKIPPED"
          ELSE recipient[r].status
    BY <2>1, <2>2 DEF Broadcast!IsRecipient
  <2>4. \A d \in Campaign : listed(d)
    BY <1>2, <1>3, <2>3 DEF Broadcast!Listed
  <2>5. \A r \in Broadcast!Ids : recipient[r].status \in {"PENDING", "SKIPPED"} =>
                                   recipient'[r].status \in {"PENDING", "SKIPPED"}
    BY <2>3
  <2> HIDE DEF listed
  <2> QED
    BY <1>5, <1>7, <2>1, <2>4, <2>5
<1>10. CASE Broadcast!Resume(c)
  <2>1. /\ campaign' = [campaign EXCEPT ![c].status = "RUNNING", ![c].resumes = @ + 1]
        /\ recipient' = Broadcast!Planned(Broadcast!Again(c))
    BY <1>10 DEF Broadcast!Resume
  <2>2. \A r \in Broadcast!Ids : recipient'[r].status = recipient[r].status
    BY <2>1, PlannedKeeps
  <2>3. \A d \in Campaign : listed(d)
    BY <1>3, <2>2
  <2>4. /\ campaign' \in [Campaign -> Broadcast!CampaignRecord]
        /\ \A d \in Campaign \ {c} : campaign'[d] = campaign[d]
        /\ campaign'[c].status = "RUNNING" /\ campaign'[c].resumes = campaign[c].resumes + 1
    BY <1>2, <2>1 DEF Broadcast!CampaignRecord
  <2>5. campaign'[c].resumes # 0
    BY <1>2, <2>4 DEF Broadcast!CampaignRecord
  <2> HIDE DEF listed
  <2> QED
    BY <1>5, <2>2, <2>3, <2>4, <2>5
<1>11. CASE Broadcast!Create(c)
  <2>1. /\ campaign[c].status = "ABSENT"
        /\ campaign' = [campaign EXCEPT ![c].status = "RUNNING"]
        /\ recipient' = [r \in Broadcast!Ids |-> IF CampaignOf[r] = c
                                                 THEN [Broadcast!Planned(Broadcast!Of(c))[r] EXCEPT !.status = "PENDING"]
                                                 ELSE recipient[r]]
    BY <1>11 DEF Broadcast!Create
  <2>2. \A r \in Broadcast!Ids : Broadcast!IsRecipient(Broadcast!Planned(Broadcast!Of(c))[r])
    BY PlannedKeeps
  <2>3. \A r \in Broadcast!Ids : recipient'[r].status = IF CampaignOf[r] = c THEN "PENDING"
                                                        ELSE recipient[r].status
    BY <2>1, <2>2 DEF Broadcast!IsRecipient
  <2>4. ASSUME NEW d \in Campaign
        PROVE  listed(d)
    <3>1. CASE d = c
      BY <1>2, <2>1, <3>1 DEF Broadcast!Listed
    <3>2. CASE d # c
      BY <1>2, <1>3, <2>3, <3>2 DEF Broadcast!Listed
    <3> QED
      BY <3>1, <3>2
  <2>5. \A r \in Broadcast!Ids : recipient[r].status \in {"PENDING", "SKIPPED"} =>
                                   recipient'[r].status \in {"PENDING", "SKIPPED"}
    BY <2>3
  <2>6. campaign'[c].resumes = 0 => campaign[c].resumes = 0 /\ campaign[c].status = "ABSENT"
    BY <1>7, <2>1
  <2> HIDE DEF listed
  <2> QED
    BY <1>5, <1>7, <2>1, <2>4, <2>5, <2>6
<1> QED
  BY <1>6, <1>8, <1>9, <1>10, <1>11

\* The count of the runner is that of the list.
LEMMA CountIsRight ==
  ASSUME Broadcast!StreakBounds, Broadcast!Streaks, NEW c \in Campaign
  PROVE  Broadcast!Streak(c) <=> Broadcast!Hopeless(c)
<1> DEFINE log == finished[c]
           n == Broadcast!Smaller(Len(log), BreakerStreak)
           last == SubSeq(log, Len(log) - n + 1, Len(log))
<1>1. log \in Seq(Broadcast!Ids) /\ Len(log) \in Nat /\ BreakerStreak \in Nat \ {0}
  BY DEF Broadcast!Streaks, Broadcast!Listed, Broadcast!StreakBounds
<1>2. n \in Nat /\ n <= Len(log) /\ n <= BreakerStreak
      /\ (n = BreakerStreak <=> Len(log) >= BreakerStreak)
  BY <1>1 DEF Broadcast!Smaller
<1>3. last = Broadcast!LastFinished(c)
  BY DEF Broadcast!LastFinished
<1> HIDE DEF n
<1>4. Len(last) = n /\ \A i \in 1 .. n : last[i] = log[Len(log) - n + i]
  <2>1. Len(log) - n + 1 \in 1 .. Len(log) + 1 /\ Len(log) - n + 1 \in Int
    BY <1>1, <1>2
  <2>2. Len(last) = n
    BY <1>1, <1>2, <2>1
  <2>3. ASSUME NEW i \in 1 .. n
        PROVE  last[i] = log[Len(log) - n + i]
    <3>1. last[i] = log[(Len(log) - n + 1) + i - 1]
      BY <1>1, <1>2, <2>1, <2>3
    <3>2. (Len(log) - n + 1) + i - 1 = Len(log) - n + i
      BY <1>1, <1>2
    <3> QED
      BY <3>1, <3>2
  <2> QED
    BY <2>2, <2>3
<1>5. CASE Len(log) >= BreakerStreak
  <2>1. n = BreakerStreak
    BY <1>2, <1>5
  <2> HIDE DEF last
  <2>2. ASSUME Broadcast!Streak(c), NEW k \in Len(log) - BreakerStreak + 1 .. Len(log)
        PROVE  recipient[log[k]].status = "FAILED"
    <3> DEFINE i == k - (Len(log) - BreakerStreak)
    <3>1. i \in 1 .. n /\ Len(log) - n + i = k
      <4>1. k \in Int /\ k >= Len(log) - BreakerStreak + 1 /\ k <= Len(log)
        BY <1>1
      <4> HIDE DEF log
      <4> QED
        BY <4>1, <1>1, <2>1
    <3>2. last[i] = log[k]
      BY <1>4, <3>1
    <3>3. recipient[last[i]].status = "FAILED"
      BY <1>3, <2>1, <2>2, <3>1 DEF Broadcast!Streak
    <3> QED
      BY <3>2, <3>3
  <2>3. ASSUME Broadcast!Hopeless(c), NEW i \in 1 .. BreakerStreak
        PROVE  recipient[last[i]].status = "FAILED"
    <3>1. Len(log) - n + i \in Len(log) - BreakerStreak + 1 .. Len(log)
      BY <1>1, <2>1
    <3>2. last[i] = log[Len(log) - n + i]
      BY <1>4, <2>1
    <3> QED
      BY <2>3, <3>1, <3>2 DEF Broadcast!Hopeless
  <2> QED
    BY <1>3, <1>4, <1>5, <2>1, <2>2, <2>3 DEF Broadcast!Streak, Broadcast!Hopeless
<1>6. CASE ~(Len(log) >= BreakerStreak)
  BY <1>2, <1>3, <1>4, <1>6 DEF Broadcast!Streak, Broadcast!Hopeless
<1> QED
  BY <1>5, <1>6

\* Everybody else rests during a turn.
LEMMA AloneInTurn ==
  ASSUME Broadcast!Turns, NEW q \in Runners, runner[q].pc # "idle"
  PROVE  /\ \A p \in Runners \ {q} : runner[p].pc = "idle"
         /\ \A p \in Runners \ {q} : ~Broadcast!Stopping(p) /\ ~Broadcast!Serving(p)
BY DEF Broadcast!Turns, Broadcast!TurnHolds, Broadcast!Stopping, Broadcast!Serving

\* A turn that lists nobody.
LEMMA TurnKeeps ==
  ASSUME Broadcast!StreakBounds, Broadcast!Shapes, Broadcast!Turns, Broadcast!Streaks, NEW q \in Runners, runner[q].pc # "idle",
         UNCHANGED finished, campaign' \in [Campaign -> Broadcast!CampaignRecord],
         \A p \in Runners \ {q} : runner'[p] = runner[p],
         \A c \in Campaign :
           /\ \A i \in DOMAIN finished[c] :
                recipient'[finished[c][i]].status = recipient[finished[c][i]].status
           /\ campaign'[c].status = "ABSENT" => campaign[c].status = "ABSENT"
           /\ campaign'[c].resumes = campaign[c].resumes
           /\ campaign'[c].status = "RUNNING" => campaign[c].status = "RUNNING",
         Broadcast!Stopping(q) =>
                     \/ runner'[q].pc \in {"streak", "pause"} /\ runner'[q].recipient = Broadcast!Mine(q)
                     \/ campaign'[Broadcast!CampaignOfTurn(q)].status # "RUNNING"
                     \/ ~Broadcast!Hopeless(Broadcast!CampaignOfTurn(q)),
         runner'[q].pc \in {"deliver", "send", "answer", "record"} =>
           \E r \in Broadcast!Ids :
             /\ runner'[q].recipient = r /\ recipient'[r].status \in {"PENDING", "SKIPPED"}
             /\ \/ Broadcast!Serving(q) /\ Broadcast!Mine(q) = r
                \/ /\ campaign[CampaignOf[r]].status # "ABSENT"
                   /\ campaign[CampaignOf[r]].resumes = 0 => ~Broadcast!Hopeless(CampaignOf[r])
  PROVE  Broadcast!Streaks'
<1>1. \A p \in Runners \ {q} : ~Broadcast!Stopping(p) /\ ~Broadcast!Serving(p)
  BY AloneInTurn
<1>2. \A p \in Runners \ {q} : ~Broadcast!Serving(p)'
  BY <1>1 DEF Broadcast!Serving
<1>3. \A p \in Runners : Broadcast!Stopping(p) =>
        \/ Broadcast!Stopping(p)' /\ runner'[p].recipient = Broadcast!Mine(p)
        \/ campaign'[Broadcast!CampaignOfTurn(p)].status # "RUNNING"
        \/ ~Broadcast!Hopeless(Broadcast!CampaignOfTurn(p))
  BY <1>1 DEF Broadcast!Stopping
<1>4. \A p \in Runners : Broadcast!Serving(p)' =>
        \E r \in Broadcast!Ids :
          /\ runner'[p].recipient = r /\ recipient'[r].status \in {"PENDING", "SKIPPED"}
          /\ \/ Broadcast!Serving(p) /\ Broadcast!Mine(p) = r
             \/ /\ campaign[CampaignOf[r]].status # "ABSENT"
                /\ campaign[CampaignOf[r]].resumes = 0 => ~Broadcast!Hopeless(CampaignOf[r])
  <2>1. Broadcast!Serving(q)' => runner'[q].pc \in {"deliver", "send", "answer", "record"}
    BY DEF Broadcast!Serving
  <2> QED
    BY <1>2, <2>1
<1> QED
  BY <1>3, <1>4, KeepsStreaks

\* Steps that write neither recipients nor campaigns.
LEMMA TurnGoesOn ==
  ASSUME Broadcast!StreakBounds, Broadcast!Shapes, Broadcast!Turns, Broadcast!Streaks, NEW q \in Runners, runner[q].pc # "idle",
         UNCHANGED <<finished, campaign, recipient>>,
         \A p \in Runners \ {q} : runner'[p] = runner[p],
         Broadcast!Stopping(q) =>
                     \/ runner'[q].pc \in {"streak", "pause"} /\ runner'[q].recipient = Broadcast!Mine(q)
                     \/ campaign[Broadcast!CampaignOfTurn(q)].status # "RUNNING"
                     \/ ~Broadcast!Hopeless(Broadcast!CampaignOfTurn(q)),
         runner'[q].pc \in {"deliver", "send", "answer", "record"} =>
           Broadcast!Serving(q) /\ runner'[q].recipient = Broadcast!Mine(q)
  PROVE  Broadcast!Streaks'
<1>1. campaign \in [Campaign -> Broadcast!CampaignRecord]
  BY DEF Broadcast!Streaks
<1>2. ASSUME Broadcast!Serving(q)
      PROVE  Broadcast!Mine(q) \in Broadcast!Ids /\ recipient[Broadcast!Mine(q)].status \in {"PENDING", "SKIPPED"}
  <2>1. Broadcast!HopeLeft(q)
    BY DEF Broadcast!Streaks
  <2> QED
    BY <1>2, <2>1 DEF Broadcast!HopeLeft, Broadcast!Serving, Broadcast!Shapes,
      Broadcast!TurnShapes
<1> QED
  BY <1>1, <1>2, TurnKeeps

LEMMA TurnStreaks ==
  ASSUME Broadcast!CampaignBounds, Broadcast!StreakBounds, Broadcast!Shapes, Broadcast!Turns, Broadcast!Streaks, NEW q \in Runners,
         Broadcast!Turn(q), ~Broadcast!Records(q)
  PROVE  Broadcast!Streaks'
<1>0. Broadcast!TurnShapes /\ campaign \in [Campaign -> Broadcast!CampaignRecord]
  BY DEF Broadcast!Shapes, Broadcast!Streaks
<1>1. CASE Broadcast!Passes(q) \/ Broadcast!Sends(q) \/ Broadcast!Delivers(q) \/ Broadcast!Unusable(q) \/ Broadcast!PausesIfStreak(q)
  <2>1. UNCHANGED <<finished, campaign, recipient>>
    BY <1>1 DEF Broadcast!Passes, Broadcast!Sends, Broadcast!Delivers, Broadcast!Unusable,
      Broadcast!PausesIfStreak
  <2>2. ASSUME Broadcast!Rests(q), runner[q].pc # "idle",
               Broadcast!Stopping(q) => \/ campaign[Broadcast!CampaignOfTurn(q)].status # "RUNNING"
                                        \/ ~Broadcast!Hopeless(Broadcast!CampaignOfTurn(q))
        PROVE  Broadcast!Streaks'
    BY <1>0, <2>1, <2>2, ComesToRest, TurnGoesOn
  <2>3. CASE Broadcast!Passes(q)
    BY <2>2, <2>3 DEF Broadcast!Passes, Broadcast!At, Broadcast!Stopping
  <2>4. ASSUME Broadcast!Serving(q), NEW pc \in {"pause", "send", "answer"}, Broadcast!Goes(q, pc)
        PROVE  Broadcast!Streaks'
    <3>1. /\ \A p \in Runners \ {q} : runner'[p] = runner[p]
          /\ runner'[q].pc = pc /\ runner'[q].recipient = Broadcast!Mine(q)
      BY <1>0, <2>4, GoesOn DEF Broadcast!Serving, Broadcast!Mine
    <3> QED
      BY <2>1, <2>4, <3>1, TurnGoesOn DEF Broadcast!Serving, Broadcast!Stopping
  <2>5. CASE Broadcast!Sends(q) \/ Broadcast!Delivers(q)
    BY <2>4, <2>5 DEF Broadcast!Sends, Broadcast!Delivers, Broadcast!At, Broadcast!Serving
  <2>6. CASE Broadcast!Unusable(q)
    <3>1. runner[q].pc = "deliver" /\ (Broadcast!Goes(q, "pause") \/ Broadcast!Rests(q))
      BY <2>6 DEF Broadcast!Unusable, Broadcast!At, Broadcast!PauseOrRest
    <3> QED
      BY <2>2, <2>4, <3>1 DEF Broadcast!Serving, Broadcast!Stopping
  <2>7. CASE Broadcast!PausesIfStreak(q)
    <3>1. runner[q].pc = "streak" /\ Broadcast!CampaignOfTurn(q) \in Campaign
      BY <1>0, <2>7 DEF Broadcast!PausesIfStreak, Broadcast!At, Broadcast!TurnShapes,
        Broadcast!CampaignOfTurn, Broadcast!StreakBounds
    <3>2. Broadcast!Streak(Broadcast!CampaignOfTurn(q)) <=> Broadcast!Hopeless(Broadcast!CampaignOfTurn(q))
      BY <3>1, CountIsRight
    <3>3. ASSUME NEW pc \in {"pause", "close"}, Broadcast!Goes(q, pc), pc = "pause" \/ ~Broadcast!Hopeless(Broadcast!CampaignOfTurn(q))
          PROVE  Broadcast!Streaks'
      <4>1. /\ \A p \in Runners \ {q} : runner'[p] = runner[p]
            /\ runner'[q].pc = pc /\ runner'[q].recipient = Broadcast!Mine(q)
        BY <1>0, <3>1, <3>3, GoesOn DEF Broadcast!Mine
      <4> QED
        BY <2>1, <3>1, <3>3, <4>1, TurnGoesOn
    <3>4. CASE Broadcast!Hopeless(Broadcast!CampaignOfTurn(q))
      <4>1. \/ campaign[Broadcast!CampaignOfTurn(q)].status = "RUNNING" /\ Broadcast!Goes(q, "pause")
            \/ campaign[Broadcast!CampaignOfTurn(q)].status # "RUNNING" /\ Broadcast!Rests(q)
        BY <2>7, <3>2, <3>4 DEF Broadcast!PausesIfStreak, Broadcast!PauseOrRest
      <4> QED
        BY <2>2, <3>1, <3>3, <4>1
    <3>5. CASE ~Broadcast!Hopeless(Broadcast!CampaignOfTurn(q))
      BY <2>7, <3>2, <3>3, <3>5 DEF Broadcast!PausesIfStreak
    <3> QED
      BY <3>4, <3>5
  <2> QED
    BY <1>1, <2>3, <2>5, <2>6, <2>7
<1>2. CASE Broadcast!Picks(q)
  <2>1. /\ runner[q].pc = "tick" /\ UNCHANGED <<finished, campaign, recipient>>
    BY <1>2 DEF Broadcast!Picks, Broadcast!At
  <2>2. PICK r \in Broadcast!Due :
          runner' = [runner EXCEPT ![q].pc = "deliver", ![q].recipient = r,
                                   ![q].attempts = recipient[r].attempts]
    BY <1>2 DEF Broadcast!Picks
  <2>3. r \in Broadcast!Ids /\ recipient[r].status = "PENDING" /\ campaign[CampaignOf[r]].status = "RUNNING"
    BY DEF Broadcast!Due
  <2>4. /\ \A p \in Runners \ {q} : runner'[p] = runner[p]
        /\ runner'[q].pc = "deliver" /\ runner'[q].recipient = r
    BY <1>0, <2>2 DEF Broadcast!TurnShapes, Broadcast!TurnRecord
  <2>5. CampaignOf[r] \in Campaign
    BY <2>3 DEF Broadcast!StreakBounds
  <2>6. \A p \in Runners : ~Broadcast!Stopping(p)
    BY <2>1, AloneInTurn DEF Broadcast!Stopping
  <2>7. campaign[CampaignOf[r]].resumes = 0 => ~Broadcast!Hopeless(CampaignOf[r])
    BY <2>3, <2>5, <2>6 DEF Broadcast!Streaks, Broadcast!StreakSeen
  <2> QED
    BY <1>0, <2>1, <2>3, <2>4, <2>6, <2>7, TurnKeeps
<1>3. CASE Broadcast!Answered(q)
  <2>1. UNCHANGED <<finished, campaign, recipient>> /\ Broadcast!Serving(q) /\ runner[q].pc # "idle" /\ ~Broadcast!Stopping(q)
    BY <1>3 DEF Broadcast!Answered, Broadcast!At, Broadcast!Serving, Broadcast!Stopping
  <2>2. PICK outcome : runner' = [runner EXCEPT ![q].pc = "record", ![q].outcome = outcome]
    BY <1>3 DEF Broadcast!Answered
  <2>3. /\ \A p \in Runners \ {q} : runner'[p] = runner[p]
        /\ runner'[q].recipient = Broadcast!Mine(q)
    BY <1>0, <2>2 DEF Broadcast!TurnShapes, Broadcast!TurnRecord, Broadcast!Mine
  <2> QED
    BY <2>1, <2>3, TurnGoesOn
<1>4. CASE Broadcast!Skips(q)
  <2>1. /\ runner[q].pc = "deliver" /\ UNCHANGED <<finished, campaign>> /\ Broadcast!Goes(q, "close")
        /\ recipient' = [recipient EXCEPT ![Broadcast!Mine(q)].status = "SKIPPED"]
    BY <1>4 DEF Broadcast!Skips, Broadcast!At
  <2>2. Broadcast!Mine(q) \in Broadcast!Ids /\ Broadcast!HopeLeft(q) /\ Broadcast!Serving(q) /\ ~Broadcast!Stopping(q)
    BY <1>0, <2>1 DEF Broadcast!TurnShapes, Broadcast!Streaks, Broadcast!Serving,
      Broadcast!Stopping
  <2>3. recipient[Broadcast!Mine(q)].status \in {"PENDING", "SKIPPED"}
    BY <2>2 DEF Broadcast!HopeLeft
  <2>4. \A r \in Broadcast!Ids : r # Broadcast!Mine(q) => recipient'[r] = recipient[r]
    BY <2>1 DEF Broadcast!Shapes, Broadcast!RecipientShapes
  <2>5. \A c \in Campaign : \A i \in DOMAIN finished[c] :
          /\ finished[c][i] \in Broadcast!Ids
          /\ recipient[finished[c][i]].status \in {"SENT", "FAILED"}
    BY DEF Broadcast!Streaks, Broadcast!Listed
  <2>6. \A c \in Campaign : \A i \in DOMAIN finished[c] :
          recipient'[finished[c][i]].status = recipient[finished[c][i]].status
    BY <2>3, <2>4, <2>5
  <2>7. (\A p \in Runners \ {q} : runner'[p] = runner[p]) /\ runner'[q].pc = "close"
    BY <1>0, <2>1, GoesOn
  <2> QED
    BY <1>0, <2>1, <2>2, <2>6, <2>7, TurnKeeps
<1>5. CASE Broadcast!PauseWrite(q)
  <2>1. /\ runner[q].pc = "pause" /\ UNCHANGED <<finished, recipient>>
        /\ campaign' = [campaign EXCEPT ![Broadcast!CampaignOfTurn(q)].status = "PAUSED"]
        /\ Broadcast!Rests(q) \/ Broadcast!Goes(q, "close")
    BY <1>5 DEF Broadcast!PauseWrite, Broadcast!At
  <2>2. Broadcast!CampaignOfTurn(q) \in Campaign
    BY <1>0, <2>1 DEF Broadcast!TurnShapes, Broadcast!CampaignOfTurn, Broadcast!StreakBounds
  <2>3. /\ campaign' \in [Campaign -> Broadcast!CampaignRecord]
        /\ campaign'[Broadcast!CampaignOfTurn(q)].status = "PAUSED"
        /\ \A c \in Campaign : /\ campaign'[c].resumes = campaign[c].resumes
                               /\ campaign'[c].status \in {campaign[c].status, "PAUSED"}
    BY <1>0, <2>1, <2>2 DEF Broadcast!CampaignRecord
  <2>4. (\A p \in Runners \ {q} : runner'[p] = runner[p]) /\ runner'[q].pc \in {"idle", "close"}
    BY <1>0, <2>1, GoesOn, ComesToRest
  <2> QED
    BY <2>1, <2>3, <2>4, TurnKeeps
<1>6. CASE Broadcast!ClosesIfDone(q)
  <2>1. /\ runner[q].pc = "close" /\ UNCHANGED <<finished, recipient>> /\ Broadcast!Rests(q)
        /\ \/ UNCHANGED campaign
           \/ campaign' = [campaign EXCEPT ![Broadcast!CampaignOfTurn(q)].status = "COMPLETED"]
    BY <1>6 DEF Broadcast!ClosesIfDone, Broadcast!At
  <2>2. /\ campaign' \in [Campaign -> Broadcast!CampaignRecord]
        /\ \A c \in Campaign : /\ campaign'[c].resumes = campaign[c].resumes
                               /\ campaign'[c].status \in {campaign[c].status, "COMPLETED"}
    BY <1>0, <2>1 DEF Broadcast!CampaignRecord
  <2>3. (\A p \in Runners \ {q} : runner'[p] = runner[p]) /\ runner'[q].pc = "idle"
    BY <1>0, <2>1, ComesToRest
  <2> QED
    BY <2>1, <2>2, <2>3, TurnKeeps DEF Broadcast!Stopping
<1> QED
  BY <1>1, <1>2, <1>3, <1>4, <1>5, <1>6 DEF Broadcast!Turn

\* A list that had hope when it grew does not hold a streak that is too long.
LEMMA ListGrows ==
  ASSUME Broadcast!StreakBounds, Broadcast!Streaks, NEW c \in Campaign, NEW r \in Broadcast!Ids,
         CampaignOf[r] = c, campaign'[c].status # "ABSENT",
         \A i \in DOMAIN finished[c] : finished[c][i] # r,
         finished'[c] = Append(finished[c], r),
         \A s \in Broadcast!Ids \ {r} : recipient'[s] = recipient[s],
         recipient'[r].status \in {"SENT", "FAILED"}
  PROVE  /\ Broadcast!Listed(c)'
         /\ ~Broadcast!Hopeless(c) => Broadcast!StopsInTime(c)'
         /\ recipient'[r].status = "SENT" => ~Broadcast!Hopeless(c)'
<1> DEFINE log == finished[c]
           longer == finished'[c]
<1>1. /\ log \in Seq(Broadcast!Ids) /\ Broadcast!Listed(c) /\ BreakerStreak \in Nat \ {0}
      /\ Len(log) \in Nat /\ DOMAIN log = 1 .. Len(log)
  BY DEF Broadcast!Streaks, Broadcast!Listed, Broadcast!StreakBounds
<1>2. /\ longer \in Seq(Broadcast!Ids) /\ Len(longer) = Len(log) + 1 /\ longer[Len(log) + 1] = r
      /\ DOMAIN longer = 1 .. Len(log) + 1
      /\ \A i \in 1 .. Len(log) : longer[i] = log[i]
  BY <1>1
<1>3. ASSUME NEW i \in 1 .. Len(log)
      PROVE  /\ recipient'[longer[i]].status = recipient[log[i]].status
             /\ recipient[log[i]].status \in {"SENT", "FAILED"} /\ CampaignOf[longer[i]] = c
  BY <1>1, <1>2 DEF Broadcast!Listed
<1> HIDE DEF log, longer
<1>4. \A i \in DOMAIN longer : i = Len(log) + 1 \/ i \in 1 .. Len(log)
  BY <1>1, <1>2
<1>5. Broadcast!Listed(c)'
  BY <1>2, <1>3, <1>4 DEF Broadcast!Listed, longer
<1>6. ASSUME ~Broadcast!Hopeless(c), Len(longer) > BreakerStreak
      PROVE  \E i \in Len(longer) - BreakerStreak .. Len(longer) :
               recipient'[longer[i]].status = "SENT"
  <2>1. Len(log) >= BreakerStreak
    BY <1>1, <1>2, <1>6
  <2>2. PICK i \in Len(log) - BreakerStreak + 1 .. Len(log) : recipient[log[i]].status # "FAILED"
    BY <1>6, <2>1 DEF Broadcast!Hopeless, log
  <2>3. i \in 1 .. Len(log) /\ i \in Len(longer) - BreakerStreak .. Len(longer)
    BY <1>1, <1>2, <2>1
  <2> QED
    BY <1>3, <2>2, <2>3
<1>7. ~Broadcast!Hopeless(c) => Broadcast!StopsInTime(c)'
  BY <1>6 DEF Broadcast!StopsInTime, longer
<1>8. recipient'[r].status = "SENT" => ~Broadcast!Hopeless(c)'
  <2>1. Len(longer) \in Len(longer) - BreakerStreak + 1 .. Len(longer)
    BY <1>1, <1>2
  <2>2. longer[Len(longer)] = r
    BY <1>2
  <2> QED
    BY <2>1, <2>2 DEF Broadcast!Hopeless, longer
<1> QED
  BY <1>5, <1>7, <1>8

\* Who was sent to, or given up, is the last of the list.
LEMMA RecordStreaks ==
  ASSUME Broadcast!CampaignBounds, Broadcast!StreakBounds, Broadcast!Shapes, Broadcast!Turns, Broadcast!Streaks, NEW q \in Runners, Broadcast!Records(q)
  PROVE  Broadcast!Streaks'
<1>1. PICK r \in Broadcast!Ids : Broadcast!Mine(q) = r
  BY DEF Broadcast!Records, Broadcast!At, Broadcast!Shapes, Broadcast!TurnShapes
<1>2. PICK c \in Campaign : CampaignOf[r] = c
  BY DEF Broadcast!StreakBounds
<1>3. /\ runner[q].pc = "record" /\ r \in Broadcast!Ids /\ c \in Campaign /\ Broadcast!CampaignOfTurn(q) = c
      /\ Broadcast!TurnShapes /\ UNCHANGED campaign /\ campaign \in [Campaign -> Broadcast!CampaignRecord]
      /\ Broadcast!Mine(q) = r
  BY <1>1, <1>2 DEF Broadcast!Records, Broadcast!At, Broadcast!Shapes,
    Broadcast!TurnShapes, Broadcast!CampaignOfTurn, Broadcast!Streaks
<1>4. /\ Broadcast!Serving(q) /\ ~Broadcast!Stopping(q) /\ Broadcast!HopeLeft(q)
  BY <1>3 DEF Broadcast!Serving, Broadcast!Stopping, Broadcast!Streaks
<1>5. /\ recipient[r].status \in {"PENDING", "SKIPPED"} /\ campaign[c].status # "ABSENT"
      /\ campaign[c].resumes = 0 => ~Broadcast!Hopeless(c)
  BY <1>3, <1>4 DEF Broadcast!HopeLeft
<1>6. \A p \in Runners \ {q} : ~Broadcast!Stopping(p) /\ ~Broadcast!Serving(p)
  BY <1>3, AloneInTurn
<1>7. \A d \in Campaign : /\ finished[d] \in Seq(Broadcast!Ids)
                          /\ \A i \in DOMAIN finished[d] : finished[d][i] \in Broadcast!Ids \ {r}
  <2> SUFFICES ASSUME NEW d \in Campaign
               PROVE  /\ finished[d] \in Seq(Broadcast!Ids)
                      /\ \A i \in DOMAIN finished[d] : finished[d][i] \in Broadcast!Ids \ {r}
    OBVIOUS
  <2>1. Broadcast!Listed(d)
    BY DEF Broadcast!Streaks
  <2>2. /\ finished[d] \in Seq(Broadcast!Ids)
        /\ \A i \in DOMAIN finished[d] : recipient[finished[d][i]].status \in {"SENT", "FAILED"}
    BY <2>1 DEF Broadcast!Listed
  <2>3. \A i \in DOMAIN finished[d] : finished[d][i] \in Broadcast!Ids
    BY <2>2
  <2>4. recipient[r].status \notin {"SENT", "FAILED"}
    BY <1>5
  <2> QED
    BY <2>2, <2>3, <2>4
<1>8. \A s \in Broadcast!Ids : Broadcast!IsRecipient(recipient[s])
  BY DEF Broadcast!Shapes, Broadcast!RecipientShapes
<1>9. Broadcast!RemoveFirst(finished[c], r) = finished[c]
  <2>1. ~ \E i \in 1 .. Len(finished[c]) : finished[c][i] = r
    BY <1>3, <1>7
  <2> QED
    BY <2>1 DEF Broadcast!RemoveFirst
<1> DEFINE attempts == runner[q].attempts + 1
           failed == runner[q].outcome = "permanent" \/ attempts >= MaxAttempts
<1>10. \/ /\ recipient' = [recipient EXCEPT ![r] = [status |-> "SENT", attempts |-> attempts,
                                                   wait |-> 0, age |-> runner[q].age]]
         /\ finished' = [finished EXCEPT ![c] = Append(Broadcast!RemoveFirst(@, r), r)]
         /\ Broadcast!Goes(q, "close")
      \/ /\ recipient' = [recipient EXCEPT ![r].status = "FAILED", ![r].attempts = attempts,
                                           ![r].wait = 0]
         /\ finished' = [finished EXCEPT ![c] = Append(Broadcast!RemoveFirst(@, r), r)]
         /\ Broadcast!Goes(q, "streak")
      \/ /\ recipient' = [recipient EXCEPT ![r].attempts = attempts, ![r].wait = RetryDelay]
         /\ UNCHANGED finished
         /\ Broadcast!Goes(q, "close")
  BY <1>1, <1>2 DEF Broadcast!Records
<1> HIDE DEF attempts, failed
<1>11. recipient = [s \in Broadcast!Ids |-> recipient[s]]
  BY DEF Broadcast!Shapes, Broadcast!RecipientShapes
<1>12. ASSUME NEW pc \in {"close", "streak"}, Broadcast!Goes(q, pc)
       PROVE  /\ \A p \in Runners \ {q} : runner'[p] = runner[p]
              /\ runner'[q].pc = pc /\ runner'[q].recipient = r
              /\ \A p \in Runners : ~Broadcast!Serving(p)'
  <2>1. /\ \A p \in Runners \ {q} : runner'[p] = runner[p]
        /\ runner'[q].pc = pc /\ runner'[q].recipient = r
    BY <1>3, <1>12, GoesOn DEF Broadcast!Mine
  <2> QED
    BY <1>6, <2>1 DEF Broadcast!Serving
<1>13. ASSUME NEW status \in {"SENT", "FAILED"}, recipient'[r].status = status,
              \A s \in Broadcast!Ids \ {r} : recipient'[s] = recipient[s],
              finished' = [finished EXCEPT ![c] = Append(Broadcast!RemoveFirst(@, r), r)],
              Broadcast!Goes(q, IF status = "SENT" THEN "close" ELSE "streak")
       PROVE  Broadcast!Streaks'
  <2>1. /\ finished' = [d \in Campaign |-> finished'[d]] /\ finished'[c] = Append(finished[c], r)
        /\ \A d \in Campaign \ {c} : finished'[d] = finished[d]
    <3>1. /\ DOMAIN finished' = DOMAIN finished
          /\ c \in DOMAIN finished => finished'[c] = Append(Broadcast!RemoveFirst(finished[c], r), r)
          /\ \A d \in DOMAIN finished \ {c} : finished'[d] = finished[d]
          /\ finished' = [d \in DOMAIN finished |-> finished'[d]]
      BY <1>13
    <3>2. DOMAIN finished = Campaign
      BY DEF Broadcast!Streaks
    <3> QED
      BY <1>3, <1>9, <3>1, <3>2
  <2>2. /\ Broadcast!Listed(c)' /\ (~Broadcast!Hopeless(c) => Broadcast!StopsInTime(c)')
        /\ status = "SENT" => ~Broadcast!Hopeless(c)'
    BY <1>3, <1>5, <1>7, <1>13, <1>2, <2>1, ListGrows
  <2>3. ASSUME NEW d \in Campaign \ {c}
        PROVE  /\ Broadcast!Hopeless(d)' <=> Broadcast!Hopeless(d)
               /\ Broadcast!StopsInTime(d)' <=> Broadcast!StopsInTime(d)
               /\ Broadcast!Listed(d)'
    <3>1. \A i \in DOMAIN finished[d] : recipient'[finished[d][i]].status =
                                          recipient[finished[d][i]].status
      BY <1>7, <1>13
    <3> QED
      BY <1>3, <2>1, <3>1, SameList
  <2>4. /\ runner'[q].pc = IF status = "SENT" THEN "close" ELSE "streak"
        /\ runner'[q].recipient = r /\ \A p \in Runners : ~Broadcast!Serving(p)'
    BY <1>12, <1>13
  <2>5. ASSUME NEW d \in Campaign
        PROVE  Broadcast!StreakSeen(d)'
    <3>1. CASE d # c
      <4>1. Broadcast!StreakSeen(d) /\ \A p \in Runners : ~Broadcast!Stopping(p)
        BY <1>4, <1>6 DEF Broadcast!Streaks
      <4> QED
        BY <1>3, <2>3, <3>1, <4>1 DEF Broadcast!StreakSeen
    <3>2. CASE d = c /\ status = "FAILED"
      <4>1. Broadcast!Stopping(q)' /\ Broadcast!CampaignOfTurn(q)' = c
        BY <1>2, <2>4, <3>2 DEF Broadcast!Stopping, Broadcast!CampaignOfTurn, Broadcast!Mine
      <4> QED
        BY <3>2, <4>1 DEF Broadcast!StreakSeen
    <3>3. CASE d = c /\ status = "SENT"
      BY <2>2, <3>3 DEF Broadcast!StreakSeen
    <3> QED
      BY <3>1, <3>2, <3>3
  <2>6. ASSUME NEW d \in Campaign
        PROVE  Broadcast!Listed(d)' /\ (campaign'[d].resumes = 0 => Broadcast!StopsInTime(d)')
    <3>1. CASE d = c
      BY <1>3, <1>5, <2>2, <3>1
    <3>2. CASE d # c
      BY <1>3, <2>3, <3>2 DEF Broadcast!Streaks
    <3> QED
      BY <3>1, <3>2
  <2>7. \A p \in Runners : Broadcast!HopeLeft(p)'
    BY <2>4 DEF Broadcast!HopeLeft
  <2> QED
    BY <1>3, <2>1, <2>5, <2>6, <2>7 DEF Broadcast!Streaks
<1>14. CASE /\ recipient' = [recipient EXCEPT ![r] = [status |-> "SENT", attempts |-> attempts,
                                                      wait |-> 0, age |-> runner[q].age]]
            /\ finished' = [finished EXCEPT ![c] = Append(Broadcast!RemoveFirst(@, r), r)]
            /\ Broadcast!Goes(q, "close")
  <2>1. recipient'[r].status = "SENT" /\ \A s \in Broadcast!Ids \ {r} : recipient'[s] = recipient[s]
    BY <1>3, <1>11, <1>14
  <2> QED
    BY <1>13, <1>14, <2>1
<1>15. CASE /\ recipient' = [recipient EXCEPT ![r].status = "FAILED", ![r].attempts = attempts,
                                              ![r].wait = 0]
            /\ finished' = [finished EXCEPT ![c] = Append(Broadcast!RemoveFirst(@, r), r)]
            /\ Broadcast!Goes(q, "streak")
  <2>1. recipient'[r].status = "FAILED" /\ \A s \in Broadcast!Ids \ {r} : recipient'[s] = recipient[s]
    BY <1>3, <1>8, <1>11, <1>15 DEF Broadcast!IsRecipient
  <2> QED
    BY <1>13, <1>15, <2>1
<1>16. CASE /\ recipient' = [recipient EXCEPT ![r].attempts = attempts, ![r].wait = RetryDelay]
            /\ UNCHANGED finished
            /\ Broadcast!Goes(q, "close")
  <2>1. \A s \in Broadcast!Ids \ {r} : recipient'[s] = recipient[s]
    BY <1>11, <1>16
  <2>2. \A d \in Campaign : \A i \in DOMAIN finished[d] :
          recipient'[finished[d][i]].status = recipient[finished[d][i]].status
    BY <1>7, <2>1
  <2>3. (\A p \in Runners \ {q} : runner'[p] = runner[p]) /\ runner'[q].pc = "close"
    BY <1>12, <1>16
  <2> QED
    BY <1>3, <1>4, <1>16, <2>2, <2>3, TurnKeeps
<1> QED
  BY <1>10, <1>14, <1>15, <1>16

LEMMA StreaksNext ==
  ASSUME Broadcast!CampaignBounds, Broadcast!StreakBounds, Calm, Broadcast!Turns, Broadcast!Streaks, [Broadcast!Next]_(Broadcast!campaignVars)
  PROVE  Broadcast!Streaks'
<1>1. Broadcast!Shapes /\ campaign \in [Campaign -> Broadcast!CampaignRecord]
  BY DEF Broadcast!Turns, Broadcast!Streaks
<1>2. \A d \in Campaign : \A i \in DOMAIN finished[d] : finished[d][i] \in Broadcast!Ids
  BY DEF Broadcast!Streaks, Broadcast!Listed
\* Steps between two turns.
<1>3. ASSUME UNCHANGED <<finished, campaign>>,
             \A r \in Broadcast!Ids : recipient'[r].status = recipient[r].status,
             \A q \in Runners : ~Broadcast!Stopping(q) /\ ~Broadcast!Serving(q)'
      PROVE  Broadcast!Streaks'
  <2>1. \A d \in Campaign : \A i \in DOMAIN finished[d] :
          recipient'[finished[d][i]].status = recipient[finished[d][i]].status
    BY <1>2, <1>3
  <2> QED
    BY <1>1, <1>3, <2>1, KeepsStreaks
<1>4. ASSUME NEW c \in Campaign, Broadcast!Create(c) \/ Broadcast!Ask(c) \/ Broadcast!Pause(c) \/ Broadcast!Resume(c) \/ Broadcast!Cancel(c)
      PROVE  Broadcast!Streaks'
  BY <1>1, <1>4, AdminStreaks
<1>5. ASSUME NEW q \in Runners, Broadcast!Run(q)
      PROVE  Broadcast!Streaks'
  <2>1. UNCHANGED <<finished, campaign, recipient>>
    BY <1>5 DEF Broadcast!Run
  <2>2. /\ runner'[q].pc = "tick" /\ lock = 0
        /\ \A p \in Runners \ {q} : runner'[p] = runner[p]
    BY <1>1, <1>5, RunMoves
  <2>3. \A p \in Runners : runner[p].pc = "idle"
    BY <2>2 DEF Broadcast!Turns, Broadcast!TurnHolds
  <2>4. \A p \in Runners : ~Broadcast!Stopping(p) /\ ~Broadcast!Serving(p)'
    BY <2>2, <2>3 DEF Broadcast!Stopping, Broadcast!Serving
  <2> QED
    BY <1>3, <2>1, <2>4
<1>6. ASSUME NEW q \in Runners, Broadcast!Turn(q)
      PROVE  Broadcast!Streaks'
  BY <1>1, <1>6, TurnStreaks, RecordStreaks
<1>7. ASSUME NEW q \in Runners, Broadcast!Crash(q)
      PROVE  FALSE
  BY <1>7 DEF Broadcast!Crash, Broadcast!Fault
<1>8. CASE Broadcast!Tick
  <2>1. UNCHANGED <<finished, campaign>> /\ \A q \in Runners : runner[q].pc = "idle"
    BY <1>8 DEF Broadcast!Tick, Broadcast!At
  <2>2. /\ \A r \in Broadcast!Ids : recipient'[r].status = recipient[r].status
        /\ \A q \in Runners : runner'[q] = runner[q]
    BY <1>1, <1>8, <2>1, TickMoves
  <2>3. \A q \in Runners : ~Broadcast!Stopping(q) /\ ~Broadcast!Serving(q)'
    BY <2>1, <2>2 DEF Broadcast!Stopping, Broadcast!Serving
  <2> QED
    BY <1>3, <2>1, <2>2, <2>3
<1>9. CASE UNCHANGED Broadcast!campaignVars
  <2>1. UNCHANGED <<campaign, recipient, finished, runner>>
    BY <1>9 DEF Broadcast!campaignVars
  <2>2. \A q \in Runners : (Broadcast!Stopping(q)' <=> Broadcast!Stopping(q)) /\ (Broadcast!Serving(q)' <=> Broadcast!Serving(q))
                           /\ runner'[q].recipient = Broadcast!Mine(q)
    BY <2>1 DEF Broadcast!Stopping, Broadcast!Serving, Broadcast!Mine
  <2>3. \A d \in Campaign : \A i \in DOMAIN finished[d] :
          recipient'[finished[d][i]].status = recipient[finished[d][i]].status
    BY <2>1
  <2>4. ASSUME NEW q \in Runners, Broadcast!Serving(q)'
        PROVE  /\ Broadcast!Serving(q) /\ Broadcast!Mine(q) \in Broadcast!Ids /\ runner'[q].recipient = Broadcast!Mine(q)
               /\ recipient'[Broadcast!Mine(q)].status \in {"PENDING", "SKIPPED"}
    <3>1. Broadcast!Serving(q) /\ Broadcast!HopeLeft(q)
      BY <2>2, <2>4 DEF Broadcast!Streaks
    <3> QED
      BY <1>1, <2>1, <2>2, <3>1 DEF Broadcast!HopeLeft, Broadcast!Serving,
        Broadcast!Shapes, Broadcast!TurnShapes
  <2> QED
    BY <1>1, <2>1, <2>2, <2>3, <2>4, KeepsStreaks
<1> QED
  BY <1>4, <1>5, <1>6, <1>7, <1>8, <1>9 DEF Broadcast!Next

\* While turns end before the lock expires, a campaign that was never resumed stops at the
\* streak of failures, for any campaigns, recipients, runners and limits, and whatever
\* administrators do meanwhile (pauseIfStreak).
THEOREM StreaksAreStopped ==
  ASSUME Broadcast!CampaignBounds, Broadcast!StreakBounds, Calm
  PROVE  Broadcast!Spec => []Broadcast!StreakStops
<1>1. Broadcast!Init => Broadcast!Turns /\ Broadcast!Streaks
  BY TurnsInit, StreaksInit
<1>2. Broadcast!Turns /\ Broadcast!Streaks /\ [Broadcast!Next]_(Broadcast!campaignVars) => (Broadcast!Turns /\ Broadcast!Streaks)'
  BY TurnsNext, StreaksNext
<1>3. Broadcast!Streaks => Broadcast!StreakStops
  BY StreaksTell
<1> QED
  BY <1>1, <1>2, <1>3, PTL DEF Broadcast!Spec

-----------------------------------------------------------------------------
(* Notices of a booking                                                    *)

IsSeq(s) == \E S : s \in Seq(S)

LEMMA SeqOfItself ==
  ASSUME NEW s, IsSeq(s)
  PROVE  Len(s) \in Nat /\ DOMAIN s = 1 .. Len(s)
BY DEF IsSeq

LEMMA HeadAndTail ==
  ASSUME NEW s, IsSeq(s), s # <<>>
  PROVE  /\ IsSeq(Tail(s)) /\ Head(s) = s[1] /\ 1 \in DOMAIN s
         /\ \A i \in DOMAIN Tail(s) : \E k \in DOMAIN s : Tail(s)[i] = s[k]
<1>1. PICK S : s \in Seq(S)
  BY DEF IsSeq
<1>2. Len(s) \in Nat \ {0} /\ Tail(s) \in Seq(S)
  BY <1>1
<1>3. ASSUME NEW i \in DOMAIN Tail(s)
      PROVE  i + 1 \in DOMAIN s /\ Tail(s)[i] = s[i + 1]
  BY <1>1, <1>2
<1> QED
  BY <1>1, <1>2, <1>3 DEF IsSeq

LEMMA Joined ==
  ASSUME NEW s, NEW t, IsSeq(s), IsSeq(t)
  PROVE  /\ IsSeq(s \o t)
         /\ \A i \in DOMAIN (s \o t) : \/ \E k \in DOMAIN s : (s \o t)[i] = s[k]
                                       \/ \E k \in DOMAIN t : (s \o t)[i] = t[k]
<1>1. PICK S : s \in Seq(S)
  BY DEF IsSeq
<1>2. PICK T : t \in Seq(T)
  BY DEF IsSeq
<1>3. s \in Seq(S \cup T) /\ t \in Seq(S \cup T)
  BY <1>1, <1>2
<1>4. s \o t \in Seq(S \cup T)
  BY <1>3
<1>5. Len(s) \in Nat /\ Len(t) \in Nat
  BY <1>3
<1>6. ASSUME NEW i \in DOMAIN (s \o t)
      PROVE  \/ i \in DOMAIN s /\ (s \o t)[i] = s[i]
             \/ i - Len(s) \in DOMAIN t /\ (s \o t)[i] = t[i - Len(s)]
  BY <1>3, <1>4, <1>5
<1> QED
  BY <1>4, <1>6 DEF IsSeq

LEMMA Longer ==
  ASSUME NEW s, NEW x, IsSeq(s)
  PROVE  /\ IsSeq(Append(s, x)) /\ Len(s) + 1 \in DOMAIN Append(s, x)
         /\ Append(s, x)[Len(s) + 1] = x
         /\ \A i \in DOMAIN Append(s, x) :
              i = Len(s) + 1 \/ (i \in DOMAIN s /\ Append(s, x)[i] = s[i])
<1>1. PICK S : s \in Seq(S)
  BY DEF IsSeq
<1>2. s \in Seq(S \cup {x}) /\ x \in S \cup {x}
  BY <1>1
<1>3. Append(s, x) \in Seq(S \cup {x})
  BY <1>2
<1> QED
  BY <1>2, <1>3 DEF IsSeq

-----------------------------------------------------------------------------

Mention(n, round) == [kind |-> n.kind, to |-> n.to, round |-> round, id |-> n.id]

\* What is known of a round: notices that are to be queued, jobs, and what was sent.
InListener == UNION {{Mention(l.left[i], l.round) : i \in DOMAIN l.left} : l \in listener}
InQueue == {Mention(jobs[id].notice, jobs[id].round) : id \in DOMAIN jobs}
InInbox ==
  {[kind |-> inbox[i].kind, to |-> inbox[i].to, round |-> inbox[i].round,
    id |-> inbox[i].key[1]] : i \in DOMAIN inbox}
Mentions == InListener \cup InQueue \cup InInbox

\* What tells one recipient the same of one operation has one name.
Agree(M) ==
  \A m, n \in M : m.kind = n.kind /\ m.to = n.to /\ m.round = n.round => m.id = n.id

OneName ==
  /\ Agree(Mentions)
  /\ \A m \in Mentions : m.round \in Nat /\ m.round < settings.round

\* A key is of a name, a kind and a channel, and was sent once.
OneKey ==
  /\ \A i \in DOMAIN inbox :
       inbox[i].key = <<inbox[i].key[1], inbox[i].kind, inbox[i].channel>>
  /\ \A i, k \in DOMAIN inbox : inbox[i].key = inbox[k].key => i = k

JobRecord(j) == j = [notice |-> j.notice, state |-> j.state, made |-> j.made, round |-> j.round]

Shapes ==
  /\ IsSeq(inbox)
  /\ settings = [active |-> settings.active, round |-> settings.round]
  /\ settings.active \subseteq Admins /\ settings.round \in Nat
  /\ \A l \in listener : l = [round |-> l.round, left |-> l.left] /\ IsSeq(l.left)
  /\ jobs = [id \in DOMAIN jobs |-> jobs[id]]
  /\ \A id \in DOMAIN jobs : JobRecord(jobs[id]) /\ jobs[id].notice.id = id
  /\ serving = [pc |-> serving.pc, id |-> serving.id, about |-> serving.about]
  /\ serving.pc = "idle" => serving = Notify!Idle
  /\ serving.pc # "idle" => serving.id \in DOMAIN jobs /\ jobs[serving.id].state = "active"

Naming == Shapes /\ OneName /\ OneKey

LEMMA NamingTells == OneName /\ OneKey => Notify!ToldOnce
<1> SUFFICES ASSUME OneName, OneKey, NEW i \in DOMAIN inbox, NEW k \in DOMAIN inbox,
                    inbox[i].kind = inbox[k].kind, inbox[i].to = inbox[k].to,
                    inbox[i].channel = inbox[k].channel, inbox[i].round = inbox[k].round
             PROVE  i = k
  BY DEF Notify!ToldOnce
<1> DEFINE said(j) == [kind |-> inbox[j].kind, to |-> inbox[j].to, round |-> inbox[j].round,
                       id |-> inbox[j].key[1]]
<1>1. said(i) \in Mentions /\ said(k) \in Mentions
  BY DEF Mentions, InInbox
<1>2. inbox[i].key[1] = inbox[k].key[1]
  BY <1>1 DEF OneName, Agree
<1> QED
  BY <1>2 DEF OneKey

\* Nothing new is mentioned.
LEMMA NothingNew ==
  ASSUME Shapes, OneName, Mentions' \subseteq Mentions, settings'.round = settings.round
  PROVE  OneName'
<1>1. Agree(Mentions')
  BY DEF OneName, Agree
<1>2. Agree(Mentions)'
  BY <1>1 DEF Agree
<1> QED
  BY <1>2 DEF OneName

LEMMA InboxStays ==
  ASSUME UNCHANGED inbox
  PROVE  (OneKey => OneKey') /\ InInbox' = InInbox
BY DEF OneKey, InInbox

-----------------------------------------------------------------------------
(* Operations *)

\* Events whose notices of one kind to one recipient have one name.
Alike(events) ==
  \A d, e \in events : \A i \in DOMAIN d, k \in DOMAIN e :
    d[i].kind = e[k].kind /\ d[i].to = e[k].to => d[i].id = e[k].id

LEMMA OperationNames ==
  ASSUME NEW events, \A e \in events : IsSeq(e), Alike(events), Naming,
         listener' = listener \cup {[round |-> settings.round, left |-> e] : e \in events},
         settings' = [settings EXCEPT !.round = @ + 1],
         UNCHANGED <<jobs, serving, inbox>>
  PROVE  Naming'
<1>1. /\ settings.round \in Nat /\ settings'.round = settings.round + 1
      /\ settings' = [active |-> settings'.active, round |-> settings'.round]
      /\ settings'.active = settings.active
  BY DEF Naming, Shapes
<1> DEFINE Fresh == UNION {{Mention(e[i], settings.round) : i \in DOMAIN e} : e \in events}
<1>2. InListener' \subseteq InListener \cup Fresh
  BY DEF InListener
<1>3. InQueue' = InQueue /\ InInbox' = InInbox
  BY DEF InQueue, InInbox
<1>4. \A m \in Mentions' : m \in Mentions \/ m \in Fresh
  BY <1>2, <1>3 DEF Mentions
<1>5. \A m \in Fresh : m.round = settings.round
  BY DEF Mention
<1>6. \A m \in Mentions : m.round \in Nat /\ m.round < settings.round
  BY DEF Naming, OneName
<1>7. ASSUME NEW m \in Fresh, NEW n \in Fresh, m.kind = n.kind, m.to = n.to
      PROVE  m.id = n.id
  <2>1. PICK d \in events : \E i \in DOMAIN d : m = Mention(d[i], settings.round)
    OBVIOUS
  <2>2. PICK i \in DOMAIN d : m = Mention(d[i], settings.round)
    BY <2>1
  <2>3. PICK e \in events : \E k \in DOMAIN e : n = Mention(e[k], settings.round)
    OBVIOUS
  <2>4. PICK k \in DOMAIN e : n = Mention(e[k], settings.round)
    BY <2>3
  <2>5. d[i].kind = e[k].kind /\ d[i].to = e[k].to
    BY <1>7, <2>2, <2>4 DEF Mention
  <2> QED
    BY <2>2, <2>4, <2>5 DEF Alike, Mention
<1> HIDE DEF Fresh
<1>8. ASSUME NEW m \in Mentions', NEW n \in Mentions',
             m.kind = n.kind, m.to = n.to, m.round = n.round
      PROVE  m.id = n.id
  <2>1. CASE m \in Fresh /\ n \in Fresh
    BY <1>7, <1>8, <2>1
  <2>2. CASE m \in Mentions /\ n \in Mentions
    BY <1>8, <2>2 DEF Naming, OneName, Agree
  <2>3. CASE m.round = settings.round /\ n \in Mentions
    <3>1. n.round \in Nat /\ n.round < settings.round
      BY <1>6, <2>3
    <3> QED
      BY <1>1, <1>8, <2>3, <3>1
  <2>4. CASE n.round = settings.round /\ m \in Mentions
    <3>1. m.round \in Nat /\ m.round < settings.round
      BY <1>6, <2>4
    <3> QED
      BY <1>1, <1>8, <2>4, <3>1
  <2> QED
    BY <1>4, <1>5, <2>1, <2>2, <2>3, <2>4
<1>9. ASSUME NEW m \in Mentions'
      PROVE  m.round \in Nat /\ m.round < settings'.round
  BY <1>1, <1>4, <1>5, <1>6
<1>10. OneName'
  BY <1>8, <1>9 DEF OneName, Agree
<1>11. Shapes'
  <2>1. \A l \in listener' : l = [round |-> l.round, left |-> l.left] /\ IsSeq(l.left)
    BY DEF Naming, Shapes
  <2> QED
    BY <1>1, <2>1 DEF Naming, Shapes
<1>12. OneKey'
  BY DEF Naming, OneKey
<1> QED
  BY <1>10, <1>11, <1>12 DEF Naming

LEMMA AdminNotices ==
  ASSUME NEW kind, NEW id, NEW about, NEW admins, IsFiniteSet(admins)
  PROVE  /\ IsSeq(Notify!ForAdmins(kind, id, about, admins))
         /\ \A i \in DOMAIN Notify!ForAdmins(kind, id, about, admins) :
              LET n == Notify!ForAdmins(kind, id, about, admins)[i]
              IN  n = Notify!Notice(kind, Append(id, n.to), about, n.to)
<1> DEFINE one == Notify!SetToSeq(admins)
<1>0. Notify!Cardinality(admins) = Cardinality(admins)
  BY DEF Notify!Cardinality, Cardinality
<1>1. ExistsBijection(1 .. Cardinality(admins), admins) /\ Cardinality(admins) \in Nat
  BY FS_CardinalityType
<1>2. \E f \in [1 .. Cardinality(admins) -> admins] : Notify!IsInjective(f)
  BY <1>1 DEF ExistsBijection, Bijection, Injection, Notify!IsInjective, IsInjective
<1>3. one \in [1 .. Cardinality(admins) -> admins]
  BY <1>0, <1>2 DEF Notify!SetToSeq
<1> HIDE DEF one
<1> DEFINE all == [i \in DOMAIN one |-> Notify!Notice(kind, Append(id, one[i]), about, one[i])]
<1>4. all = Notify!ForAdmins(kind, id, about, admins)
  BY DEF Notify!ForAdmins, one
<1>5. all \in [1 .. Cardinality(admins) -> {all[i] : i \in DOMAIN all}]
  BY <1>3
<1>6. all \in Seq({all[i] : i \in DOMAIN all})
  BY <1>1, <1>5
<1>7. \A i \in DOMAIN all : all[i] = Notify!Notice(kind, Append(id, all[i].to), about, all[i].to)
  BY DEF Notify!Notice
<1> HIDE DEF all
<1> QED
  BY <1>4, <1>6, <1>7 DEF IsSeq

LEMMA OneNotice ==
  ASSUME NEW n
  PROVE  IsSeq(<<n>>) /\ DOMAIN <<n>> = {1} /\ <<n>>[1] = n
<1>1. <<n>> \in Seq({n}) /\ DOMAIN <<n>> = {1} /\ <<n>>[1] = n
  OBVIOUS
<1>2. IsSeq(<<n>>)
  BY <1>1, Zenon DEF IsSeq
<1> QED
  BY <1>1, <1>2, Zenon

\* One event with a notice to the client, if any, and one to each administrator.
LEMMA OneEvent ==
  ASSUME NEW kind, NEW id, NEW about, NEW admins, IsFiniteSet(admins), NEW first,
         IsSeq(first),
         \A i, k \in DOMAIN first : first[i].id = first[k].id,
         \A i \in DOMAIN first : first[i].kind # kind,
         NEW e, e = first \o Notify!ForAdmins(kind, id, about, admins)
  PROVE  IsSeq(e) /\ Alike({e})
<1> DEFINE more == Notify!ForAdmins(kind, id, about, admins)
<1>1. /\ IsSeq(more)
      /\ \A i \in DOMAIN more : more[i] = Notify!Notice(kind, Append(id, more[i].to), about, more[i].to)
  BY AdminNotices
<1> HIDE DEF more
<1>2. e = first \o more
  BY DEF more
<1>3. /\ IsSeq(e)
      /\ \A i \in DOMAIN e : \/ \E k \in DOMAIN first : e[i] = first[k]
                             \/ \E k \in DOMAIN more : e[i] = more[k]
  BY <1>1, <1>2, Joined
<1>4. \A i \in DOMAIN more : /\ more[i].kind = kind
                             /\ more[i].id = Append(id, more[i].to)
  BY <1>1 DEF Notify!Notice
<1>5. ASSUME NEW i \in DOMAIN e, NEW k \in DOMAIN e, e[i].kind = e[k].kind, e[i].to = e[k].to
      PROVE  e[i].id = e[k].id
  <2>1. CASE e[i].kind = kind
    <3>1. PICK a \in DOMAIN more : e[i] = more[a]
      BY <1>3, <2>1
    <3>2. PICK b \in DOMAIN more : e[k] = more[b]
      BY <1>3, <1>5, <2>1
    <3>3. more[a].to = more[b].to
      BY <1>5, <3>1, <3>2
    <3>4. more[a].id = Append(id, more[a].to) /\ more[b].id = Append(id, more[b].to)
      BY <1>4
    <3> QED
      BY <3>1, <3>2, <3>3, <3>4
  <2>2. CASE e[i].kind # kind
    <3>1. PICK a \in DOMAIN first : e[i] = first[a]
      BY <1>3, <1>4, <2>2
    <3>2. PICK b \in DOMAIN first : e[k] = first[b]
      BY <1>3, <1>4, <1>5, <2>2
    <3> QED
      BY <3>1, <3>2
  <2> QED
    BY <2>1, <2>2
<1> QED
  BY <1>3, <1>5 DEF Alike

LEMMA NoneFirst == IsSeq(<<>>) /\ DOMAIN <<>> = {}
<1>1. <<>> \in Seq({}) /\ DOMAIN <<>> = {}
  OBVIOUS
<1> QED
  BY <1>1 DEF IsSeq

\* Whatever the rows become, an operation is one whose events are these.
LEMMA Operated ==
  ASSUME Naming, NEW events, \A e \in events : IsSeq(e), Alike(events), NEW op, NEW rows,
         Notify!Operate(op, rows, events)
  PROVE  Naming'
<1>1. /\ listener' = listener \cup {[round |-> settings.round, left |-> e] : e \in events}
      /\ settings' = [settings EXCEPT !.round = @ + 1]
      /\ UNCHANGED <<jobs, serving, inbox>>
  BY DEF Notify!Operate
<1> QED
  BY <1>1, OperationNames

FiniteAdmins == IsFiniteSet(Admins)

LEMMA ActiveFinite ==
  ASSUME FiniteAdmins, Naming
  PROVE  IsFiniteSet(settings.active)
BY FS_Subset DEF FiniteAdmins, Naming, Shapes

LEMMA OperationsName ==
  ASSUME FiniteAdmins, Naming, Notify!Operations
  PROVE  Naming'
<1>0. IsFiniteSet(settings.active)
  BY ActiveFinite
<1>1. ASSUME NEW n, NEW op, NEW rows, Notify!Operate(op, rows, {<<n>>})
      PROVE  Naming'
  <2>1. (\A e \in {<<n>>} : IsSeq(e)) /\ Alike({<<n>>})
    BY OneNotice DEF Alike
  <2> QED
    BY <1>1, <2>1, Operated
<1>2. ASSUME NEW op, NEW rows, Notify!Operate(op, rows, {})
      PROVE  Naming'
  <2>1. (\A e \in {} : IsSeq(e)) /\ Alike({})
    BY DEF Alike
  <2> QED
    BY <1>2, <2>1, Operated
<1>3. ASSUME NEW op, NEW rows, NEW kind, NEW id, NEW about, NEW first, IsSeq(first),
             \A i, k \in DOMAIN first : first[i].id = first[k].id,
             \A i \in DOMAIN first : first[i].kind # kind,
             Notify!Operate(op, rows, {first \o Notify!ForAdmins(kind, id, about, settings.active)})
      PROVE  Naming'
  <2> DEFINE e == first \o Notify!ForAdmins(kind, id, about, settings.active)
  <2>1. IsSeq(e) /\ Alike({e})
    BY <1>0, <1>3, OneEvent
  <2> HIDE DEF e
  <2>2. Notify!Operate(op, rows, {e})
    BY <1>3 DEF e
  <2> QED
    BY <2>1, <2>2, Operated
<1>4. CASE Notify!Confirm
  <2> DEFINE pending == {r \in Group : booking[r].status = "PENDIENTE"}
             told == {<<Notify!Notice("confirmed", <<"client-confirmed">>, {r}, "client")>> : r \in pending}
  <2>1. ASSUME NEW e \in told
        PROVE  IsSeq(e) /\ \A i \in DOMAIN e : e[i].id = <<"client-confirmed">>
    <3>1. PICK r \in pending : e = <<Notify!Notice("confirmed", <<"client-confirmed">>, {r}, "client")>>
      OBVIOUS
    <3> QED
      BY <3>1, OneNotice DEF Notify!Notice
  <2>2. Notify!Operate("confirm", [r \in pending |-> Notify!Row("CONFIRMADA", "NINGUNA", "confirmed")], told)
    BY <1>4 DEF Notify!Confirm
  <2> HIDE DEF told
  <2>3. Alike(told)
    BY <2>1 DEF Alike
  <2> QED
    BY <2>1, <2>2, <2>3, Operated
<1>5. CASE Notify!CancelByTimeout
  <2> DEFINE late == {r \in Group : Notify!Live(r)}
             told == {Notify!ForAdmins("timedOut", <<"admin-timeout">>, {r}, settings.active) : r \in late}
  <2>1. ASSUME NEW e \in told
        PROVE  IsSeq(e) /\ \A i \in DOMAIN e : e[i].id = Append(<<"admin-timeout">>, e[i].to)
    <3>1. PICK r \in late : e = Notify!ForAdmins("timedOut", <<"admin-timeout">>, {r}, settings.active)
      OBVIOUS
    <3>2. IsSeq(e) /\ \A i \in DOMAIN e : e[i] = Notify!Notice("timedOut", Append(<<"admin-timeout">>, e[i].to), {r}, e[i].to)
      BY <1>0, <3>1, AdminNotices
    <3> QED
      BY <3>2 DEF Notify!Notice
  <2>2. Notify!Operate("timeout", [r \in late |-> Notify!Row("CANCELADA", "TIMEOUT", "nothing")], told)
    BY <1>5 DEF Notify!CancelByTimeout
  <2> HIDE DEF told
  <2>3. Alike(told)
    BY <2>1 DEF Alike
  <2> QED
    BY <2>1, <2>2, <2>3, Operated
<1>6. ASSUME NEW r \in Group, Notify!CancelByAdmin(r)
      PROVE  Naming'
  BY <1>1, <1>2, <1>6 DEF Notify!CancelByAdmin
<1>7. CASE Notify!CancelByClient
  <2> DEFINE mine == {r \in Group : Notify!Live(r)}
             n == Notify!Notice("cancelledByClient", <<"client-cancelled", mine>>, mine, "client")
  <2>1. IsSeq(<<n>>) /\ (\A i, k \in DOMAIN <<n>> : <<n>>[i].id = <<n>>[k].id)
        /\ \A i \in DOMAIN <<n>> : <<n>>[i].kind # "adminCancelled"
    BY OneNotice DEF Notify!Notice
  <2> QED
    BY <1>3, <1>7, <2>1 DEF Notify!CancelByClient
<1>8. ASSUME NEW r \in Group, Notify!Reschedule(r)
      PROVE  Naming'
  <2> DEFINE n == Notify!Notice("rescheduled", <<"rescheduled", settings.round>>, {r}, "client")
  <2>1. IsSeq(<<n>>) /\ (\A i, k \in DOMAIN <<n>> : <<n>>[i].id = <<n>>[k].id)
        /\ \A i \in DOMAIN <<n>> : <<n>>[i].kind # "adminRescheduled"
    BY OneNotice DEF Notify!Notice
  <2>2. IsSeq(<<>>) /\ (\A i, k \in DOMAIN <<>> : <<>>[i].id = <<>>[k].id)
        /\ \A i \in DOMAIN <<>> : <<>>[i].kind # "adminRescheduled"
    BY NoneFirst
  <2>3. PICK notify \in BOOLEAN :
          Notify!Operate("reschedule", [q \in {} |-> booking[r]],
                   {(IF notify THEN <<n>> ELSE <<>>)
                    \o Notify!ForAdmins("adminRescheduled", <<"admin-rescheduled", settings.round>>, {r},
                                        settings.active)})
    BY <1>8 DEF Notify!Reschedule
  <2> HIDE DEF n
  <2>4. CASE notify
    BY <1>3, <2>1, <2>3, <2>4
  <2>5. CASE ~notify
    BY <1>3, <2>2, <2>3, <2>5
  <2> QED
    BY <2>4, <2>5
<1>9. ASSUME NEW r \in Group, Notify!Reject(r) \/ Notify!RequestLink(r)
      PROVE  Naming'
  BY <1>1, <1>9 DEF Notify!Reject, Notify!RequestLink
<1>10. CASE Notify!Handoff
  <2> DEFINE e == Notify!ForAdmins("handoff", <<"admin-handoff", settings.round>>, {}, settings.active)
  <2>1. IsSeq(e) /\ \A i \in DOMAIN e :
          e[i] = Notify!Notice("handoff", Append(<<"admin-handoff", settings.round>>, e[i].to), {}, e[i].to)
    BY <1>0, AdminNotices
  <2>2. Notify!Operate("handoff", [q \in {} |-> 0], {e})
    BY <1>10 DEF Notify!Handoff
  <2> HIDE DEF e
  <2>3. Alike({e})
    BY <2>1 DEF Alike, Notify!Notice
  <2> QED
    BY <2>1, <2>2, <2>3, Operated
<1>11. CASE Notify!Revive
  BY <1>2, <1>11 DEF Notify!Revive
<1>12. ASSUME NEW a \in Admins, Notify!Deactivate(a)
       PROVE  Naming'
  <2>1. /\ settings' = [settings EXCEPT !.active = @ \ {a}]
        /\ UNCHANGED <<listener, jobs, serving, inbox>>
    BY <1>12 DEF Notify!Deactivate
  <2>2. settings'.round = settings.round /\ Mentions' = Mentions
    BY <2>1 DEF Naming, Shapes, Mentions, InListener, InQueue, InInbox
  <2>3. OneName'
    BY <2>2, NothingNew DEF Naming
  <2>4. OneKey'
    BY <2>1 DEF Naming, OneKey
  <2>5. Shapes'
    BY <2>1 DEF Naming, Shapes
  <2> QED
    BY <2>3, <2>4, <2>5 DEF Naming
<1> QED
  BY <1>4, <1>5, <1>6, <1>7, <1>8, <1>9, <1>10, <1>11, <1>12 DEF Notify!Operations

-----------------------------------------------------------------------------
(* The queue and its worker *)

\* The handler of an event goes on with what is left of its notices.
LEMMA HandlersName ==
  ASSUME Naming, NEW l \in listener, l.left # <<>>,
         NEW rest, rest \in {<<>>, Tail(l.left)},
         listener' = (listener \ {l}) \cup {[l EXCEPT !.left = rest]}
  PROVE  /\ InListener' \subseteq InListener
         /\ \A k \in listener' : k = [round |-> k.round, left |-> k.left] /\ IsSeq(k.left)
         /\ Mention(Head(l.left), l.round) \in InListener
<1>1. l = [round |-> l.round, left |-> l.left] /\ IsSeq(l.left)
  BY DEF Naming, Shapes
<1>2. [l EXCEPT !.left = rest] = [round |-> l.round, left |-> rest]
  BY <1>1
<1>3. IsSeq(rest) /\ \A i \in DOMAIN rest : \E k \in DOMAIN l.left : rest[i] = l.left[k]
  <2>1. CASE rest = <<>>
    BY <2>1, NoneFirst
  <2>2. CASE rest = Tail(l.left)
    BY <1>1, <2>2, HeadAndTail
  <2> QED
    BY <2>1, <2>2
<1>4. \A k \in listener' : k \in listener \/ k = [round |-> l.round, left |-> rest]
  BY <1>2
<1>5. ASSUME NEW m \in InListener'
      PROVE  m \in InListener
  <2>1. PICK k \in listener' : \E i \in DOMAIN k.left : m = Mention(k.left[i], k.round)
    BY DEF InListener
  <2>2. CASE k \in listener
    BY <2>1, <2>2 DEF InListener
  <2>3. CASE k = [round |-> l.round, left |-> rest]
    <3>1. PICK i \in DOMAIN rest : m = Mention(rest[i], l.round)
      BY <2>1, <2>3
    <3>2. PICK j \in DOMAIN l.left : rest[i] = l.left[j]
      BY <1>3
    <3> QED
      BY <3>1, <3>2 DEF InListener
  <2> QED
    BY <1>4, <2>2, <2>3
<1>6. \A k \in listener' : k = [round |-> k.round, left |-> k.left] /\ IsSeq(k.left)
  BY <1>3, <1>4 DEF Naming, Shapes
<1>7. Head(l.left) = l.left[1] /\ 1 \in DOMAIN l.left
  BY <1>1, HeadAndTail
<1>8. Mention(Head(l.left), l.round) \in InListener
  BY <1>7 DEF InListener
<1> QED
  BY <1>5, <1>6, <1>8

LEMMA EnqueueNames ==
  ASSUME Naming, NEW l \in listener, Notify!Enqueue(l) \/ Notify!EnqueueFails(l)
  PROVE  Naming'
<1>1. /\ l.left # <<>> /\ UNCHANGED <<serving, inbox, settings>>
      /\ \E rest \in {<<>>, Tail(l.left)} :
           listener' = (listener \ {l}) \cup {[l EXCEPT !.left = rest]}
  <2>1. CASE Notify!Enqueue(l)
    <3>1. l = [round |-> l.round, left |-> l.left]
      BY DEF Naming, Shapes
    <3>2. [l EXCEPT !.left = Tail(@)] = [l EXCEPT !.left = Tail(l.left)]
      BY <3>1
    <3> QED
      BY <2>1, <3>2 DEF Notify!Enqueue
  <2>2. CASE Notify!EnqueueFails(l)
    <3> DEFINE rest == IF Head(l.left).to = "client" THEN <<>> ELSE Tail(l.left)
    <3>1. l = [round |-> l.round, left |-> l.left]
      BY DEF Naming, Shapes
    <3>2. [l EXCEPT !.left = IF Head(@).to = "client" THEN <<>> ELSE Tail(@)]
            = [l EXCEPT !.left = rest]
      BY <3>1
    <3>3. rest \in {<<>>, Tail(l.left)}
      OBVIOUS
    <3>4. /\ l.left # <<>> /\ UNCHANGED <<serving, inbox, settings>>
          /\ listener' = (listener \ {l}) \cup {[l EXCEPT !.left = rest]}
      BY <2>2, <3>2 DEF Notify!EnqueueFails
    <3> QED
      BY <3>3, <3>4
  <2> QED
    BY <2>1, <2>2
<1> DEFINE n == Head(l.left)
           new == [notice |-> n, state |-> "waiting", made |-> 0, round |-> l.round]
<1>2. \/ jobs' = jobs
      \/ /\ n.id \notin DOMAIN jobs
         /\ jobs' = [id \in DOMAIN jobs \cup {n.id} |-> IF id = n.id THEN new ELSE jobs[id]]
  BY DEF Notify!Enqueue, Notify!EnqueueFails
<1>3. /\ InListener' \subseteq InListener
      /\ \A k \in listener' : k = [round |-> k.round, left |-> k.left] /\ IsSeq(k.left)
      /\ Mention(n, l.round) \in InListener
  BY <1>1, HandlersName
<1> HIDE DEF n
<1>4. /\ jobs' = [id \in DOMAIN jobs' |-> jobs'[id]]
      /\ \A id \in DOMAIN jobs : id \in DOMAIN jobs' /\ jobs'[id] = jobs[id]
      /\ \A id \in DOMAIN jobs' : id \in DOMAIN jobs \/ (id = n.id /\ jobs'[id] = new)
  BY <1>2 DEF Naming, Shapes
<1>5. InQueue' \subseteq InQueue \cup {Mention(n, l.round)}
  BY <1>4 DEF InQueue
<1>6. InInbox' = InInbox /\ OneKey'
  BY <1>1, InboxStays DEF Naming
<1>7. Mentions' \subseteq Mentions
  BY <1>3, <1>5, <1>6 DEF Mentions
<1>8. OneName'
  BY <1>1, <1>7, NothingNew DEF Naming
<1>9. \A id \in DOMAIN jobs' : JobRecord(jobs'[id]) /\ jobs'[id].notice.id = id
  <2>1. JobRecord(new) /\ new.notice.id = n.id
    BY DEF JobRecord
  <2> QED
    BY <1>4, <2>1 DEF Naming, Shapes
<1>10. serving'.pc # "idle" => serving'.id \in DOMAIN jobs' /\ jobs'[serving'.id].state = "active"
  BY <1>1, <1>4 DEF Naming, Shapes
<1>11. Shapes'
  BY <1>1, <1>3, <1>4, <1>9, <1>10 DEF Naming, Shapes, JobRecord
<1> QED
  BY <1>6, <1>8, <1>11 DEF Naming

\* A job changes what the worker has done of it.
LEMMA TurnNames ==
  ASSUME Naming, NEW id \in DOMAIN jobs, NEW j, jobs' = [jobs EXCEPT ![id] = j],
         JobRecord(j), j.notice = jobs[id].notice, j.round = jobs[id].round,
         serving' = [pc |-> serving'.pc, id |-> serving'.id, about |-> serving'.about],
         serving'.pc = "idle" => serving' = Notify!Idle,
         serving'.pc # "idle" => serving'.id = id /\ j.state = "active",
         UNCHANGED <<listener, settings>>
  PROVE  /\ InListener' = InListener /\ InQueue' = InQueue
         /\ IsSeq(inbox)' => Shapes'
<1>1. /\ jobs' = [i \in DOMAIN jobs' |-> jobs'[i]] /\ DOMAIN jobs' = DOMAIN jobs
      /\ jobs'[id] = j /\ \A i \in DOMAIN jobs \ {id} : jobs'[i] = jobs[i]
  BY DEF Naming, Shapes
<1>2. \A i \in DOMAIN jobs : /\ jobs'[i].notice = jobs[i].notice /\ jobs'[i].round = jobs[i].round
                             /\ JobRecord(jobs'[i]) /\ jobs[i].notice.id = i
  BY <1>1 DEF Naming, Shapes
<1>3. InListener' = InListener
  BY DEF InListener
<1>4. InQueue' = InQueue
  BY <1>1, <1>2 DEF InQueue
<1>5. serving'.pc # "idle" => serving'.id \in DOMAIN jobs' /\ jobs'[serving'.id].state = "active"
  BY <1>1
<1>6. \A i \in DOMAIN jobs' : JobRecord(jobs'[i]) /\ jobs'[i].notice.id = i
  BY <1>1, <1>2
<1>7. IsSeq(inbox)' => Shapes'
  BY <1>1, <1>5, <1>6 DEF Naming, Shapes, JobRecord
<1> QED
  BY <1>3, <1>4, <1>7

\* What is sent has the name of its job, and a key that was not sent before.
LEMMA DeliveredNames ==
  ASSUME Naming, serving.pc \in {"send", "mail"}
  PROVE  /\ inbox' \in {inbox, Notify!Delivered} => IsSeq(inbox)' /\ OneKey'
         /\ inbox' \in {inbox, Notify!Delivered} => InInbox' \subseteq InInbox \cup InQueue
<1> DEFINE m == [key |-> Notify!Key, kind |-> Notify!Job.notice.kind, to |-> Notify!Job.notice.to,
                 about |-> serving.about, round |-> Notify!Job.round, channel |-> Notify!Channel]
<1>1. serving.id \in DOMAIN jobs /\ jobs[serving.id].notice.id = serving.id
  BY DEF Naming, Shapes
<1>2. m.key = <<m.key[1], m.kind, m.channel>> /\ m.key[1] = serving.id
  BY DEF Notify!Key
<1>3. [kind |-> m.kind, to |-> m.to, round |-> m.round, id |-> m.key[1]] \in InQueue
  <2>1. [kind |-> m.kind, to |-> m.to, round |-> m.round, id |-> m.key[1]]
          = Mention(jobs[serving.id].notice, jobs[serving.id].round)
    BY <1>1, <1>2 DEF Mention, Notify!Job
  <2> QED
    BY <1>1, <2>1 DEF InQueue
<1>4. CASE inbox' = inbox
  BY <1>4, InboxStays DEF Naming, Shapes
<1>5. CASE inbox' = Notify!Delivered /\ inbox' # inbox
  <2>1. inbox' = Append(inbox, m) /\ \A i \in DOMAIN inbox : inbox[i].key # m.key
    BY <1>5 DEF Notify!Delivered
  <2> HIDE DEF m
  <2>2. IsSeq(inbox)
    BY DEF Naming, Shapes
  <2>3. /\ IsSeq(inbox')
        /\ \A i \in DOMAIN inbox' : \/ i = Len(inbox) + 1 /\ inbox'[i] = m
                                    \/ i \in DOMAIN inbox /\ inbox'[i] = inbox[i]
    BY <2>1, <2>2, Longer
  <2>4. OneKey'
    <3>1. \A i \in DOMAIN inbox' :
            inbox'[i].key = <<inbox'[i].key[1], inbox'[i].kind, inbox'[i].channel>>
      BY <1>2, <2>3 DEF Naming, OneKey
    <3>2. \A i, k \in DOMAIN inbox' : inbox'[i].key = inbox'[k].key => i = k
      BY <2>1, <2>3 DEF Naming, OneKey
    <3> QED
      BY <3>1, <3>2 DEF OneKey
  <2>5. InInbox' \subseteq InInbox \cup InQueue
    BY <1>3, <2>3 DEF InInbox
  <2> QED
    BY <2>3, <2>4, <2>5 DEF IsSeq
<1> QED
  BY <1>4, <1>5

LEMMA WorkerNames ==
  ASSUME Naming,
         (\E id \in DOMAIN jobs : Notify!Take(id)) \/ Notify!Read \/ Notify!Send \/ Notify!End
           \/ Notify!SendFails \/ Notify!SendRefused \/ Notify!Die
  PROVE  Naming'
<1>1. ASSUME NEW id \in DOMAIN jobs, NEW j, jobs' = [jobs EXCEPT ![id] = j],
             JobRecord(j), j.notice = jobs[id].notice, j.round = jobs[id].round,
             serving' = [pc |-> serving'.pc, id |-> serving'.id, about |-> serving'.about],
             serving'.pc = "idle" => serving' = Notify!Idle,
             serving'.pc # "idle" => serving'.id = id /\ j.state = "active",
             UNCHANGED <<listener, settings>>,
             inbox' = inbox \/ (inbox' = Notify!Delivered /\ serving.pc \in {"send", "mail"})
      PROVE  Naming'
  <2>1. IsSeq(inbox)' /\ OneKey' /\ InInbox' \subseteq InInbox \cup InQueue
    <3>1. CASE inbox' = inbox
      BY <3>1, InboxStays DEF Naming, Shapes, IsSeq
    <3>2. CASE inbox' = Notify!Delivered /\ serving.pc \in {"send", "mail"}
      BY <3>2, DeliveredNames
    <3> QED
      BY <1>1, <3>1, <3>2
  <2>2. InListener' = InListener /\ InQueue' = InQueue /\ Shapes'
    BY <1>1, <2>1, TurnNames
  <2>3. Mentions' \subseteq Mentions
    BY <2>1, <2>2 DEF Mentions
  <2>4. OneName'
    BY <1>1, <2>3, NothingNew DEF Naming
  <2> QED
    BY <2>1, <2>2, <2>4 DEF Naming
<1>2. /\ \A id \in DOMAIN jobs : JobRecord(jobs[id])
      /\ jobs = [id \in DOMAIN jobs |-> jobs[id]]
      /\ serving = [pc |-> serving.pc, id |-> serving.id, about |-> serving.about]
      /\ serving.pc = "idle" => serving = Notify!Idle
      /\ serving.pc # "idle" => serving.id \in DOMAIN jobs /\ jobs[serving.id].state = "active"
  BY DEF Naming, Shapes
<1>3. ASSUME NEW id \in DOMAIN jobs, Notify!Take(id)
      PROVE  Naming'
  <2> DEFINE j == [jobs[id] EXCEPT !.state = "active", !.made = @ + 1]
  <2>1. JobRecord(j) /\ j.notice = jobs[id].notice /\ j.round = jobs[id].round /\ j.state = "active"
    <3> DEFINE made == jobs[id].made + 1
    <3> HIDE DEF made
    <3>1. jobs[id] = [notice |-> jobs[id].notice, state |-> jobs[id].state,
                      made |-> jobs[id].made, round |-> jobs[id].round]
      BY <1>2 DEF JobRecord
    <3>2. j = [notice |-> jobs[id].notice, state |-> "active", made |-> made,
               round |-> jobs[id].round]
      <4>1. j = [jobs[id] EXCEPT !.state = "active", !.made = made]
        BY DEF made
      <4> HIDE DEF j
      <4> QED
        BY <3>1, <4>1
    <3> QED
      BY <3>2 DEF JobRecord
  <2>2. /\ jobs' = [jobs EXCEPT ![id] = j]
        /\ serving' = [pc |-> "read", id |-> id, about |-> {}]
        /\ UNCHANGED <<listener, settings, inbox>>
    BY <1>2, <1>3 DEF Notify!Take, JobRecord
  <2> HIDE DEF j
  <2> QED
    BY <1>1, <2>1, <2>2
<1>4. ASSUME serving.pc # "idle", UNCHANGED <<jobs, listener, settings>>,
             NEW pc, pc # "idle", NEW about, serving' = [serving EXCEPT !.about = about, !.pc = pc],
             inbox' = inbox \/ (inbox' = Notify!Delivered /\ serving.pc \in {"send", "mail"})
      PROVE  Naming'
  <2>1. /\ serving' = [pc |-> serving'.pc, id |-> serving'.id, about |-> serving'.about]
        /\ serving'.id = serving.id /\ serving'.pc # "idle"
    BY <1>2, <1>4
  <2>2. jobs' = [jobs EXCEPT ![serving.id] = jobs[serving.id]]
    BY <1>2, <1>4
  <2> QED
    BY <1>1, <1>2, <1>4, <2>1, <2>2
<1>5. ASSUME serving.pc # "idle", NEW state, jobs' = Notify!Put(serving.id, "state", state), serving' = Notify!Idle,
             UNCHANGED <<listener, settings>>,
             inbox' = inbox \/ (inbox' = Notify!Delivered /\ serving.pc \in {"send", "mail"})
      PROVE  Naming'
  <2> DEFINE j == [jobs[serving.id] EXCEPT !.state = state]
  <2>1. JobRecord(j) /\ j.notice = jobs[serving.id].notice /\ j.round = jobs[serving.id].round
    BY <1>2, <1>5 DEF JobRecord
  <2>2. jobs' = [jobs EXCEPT ![serving.id] = j]
    BY <1>2, <1>5 DEF Notify!Put
  <2>3. serving' = [pc |-> serving'.pc, id |-> serving'.id, about |-> serving'.about] /\ serving'.pc = "idle"
    BY <1>5 DEF Notify!Idle
  <2> HIDE DEF j
  <2> QED
    BY <1>1, <1>2, <1>5, <2>1, <2>2, <2>3
<1>6. CASE Notify!Read
  BY <1>4, <1>6 DEF Notify!Read
<1>7. CASE Notify!Send
  <2>1. [serving EXCEPT !.pc = IF serving.pc = "send" /\ Notify!Job.notice.to # "client" THEN "mail" ELSE "end"]
          = [serving EXCEPT !.about = serving.about,
               !.pc = IF serving.pc = "send" /\ Notify!Job.notice.to # "client" THEN "mail" ELSE "end"]
    BY <1>2
  <2> QED
    BY <1>4, <1>7, <2>1 DEF Notify!Send
<1>8. CASE Notify!End
  BY <1>5, <1>8 DEF Notify!End
<1>9. CASE Notify!SendFails
  BY <1>5, <1>9 DEF Notify!SendFails
<1>10. CASE Notify!SendRefused
  <2>1. CASE serving.pc = "send"
    BY <1>5, <1>10, <2>1 DEF Notify!SendRefused
  <2>2. CASE serving.pc = "mail"
    <3>1. [serving EXCEPT !.pc = "end"] = [serving EXCEPT !.about = serving.about, !.pc = "end"]
      BY <1>2
    <3> QED
      BY <1>4, <1>10, <2>2, <3>1 DEF Notify!SendRefused
  <2> QED
    BY <1>10, <2>1, <2>2 DEF Notify!SendRefused
<1>11. CASE Notify!Die
  <2>1. serving.pc # "idle"
    BY <1>2, <1>11 DEF Notify!Die
  <2> QED
    BY <1>5, <1>11, <2>1 DEF Notify!Die
<1> QED
  BY <1>3, <1>6, <1>7, <1>8, <1>9, <1>10, <1>11

\* The worker's job is not forgotten.
LEMMA ForgetNames ==
  ASSUME Naming, NEW id \in DOMAIN jobs, Notify!Forget(id)
  PROVE  Naming'
<1>1. /\ jobs[id].state # "active" /\ UNCHANGED <<listener, serving, inbox, settings>>
      /\ jobs' = [other \in DOMAIN jobs \ {id} |-> jobs[other]]
  BY DEF Notify!Forget
<1>2. /\ DOMAIN jobs' = DOMAIN jobs \ {id} /\ \A i \in DOMAIN jobs' : jobs'[i] = jobs[i]
      /\ jobs' = [i \in DOMAIN jobs' |-> jobs'[i]]
  BY <1>1
<1>3. InListener' = InListener /\ InQueue' \subseteq InQueue /\ InInbox' = InInbox
  BY <1>1, <1>2 DEF InListener, InQueue, InInbox
<1>4. OneName'
  <2>1. Mentions' \subseteq Mentions
    BY <1>3 DEF Mentions
  <2> QED
    BY <1>1, <2>1, NothingNew DEF Naming
<1>5. OneKey'
  BY <1>1 DEF Naming, OneKey
<1>6. Shapes'
  BY <1>1, <1>2 DEF Naming, Shapes, JobRecord
<1> QED
  BY <1>4, <1>5, <1>6 DEF Naming

LEMMA NamingStarts == Notify!Init => Naming
<1> SUFFICES ASSUME Notify!Init
             PROVE  Naming
  OBVIOUS
<1>1. IsSeq(inbox) /\ inbox = <<>> /\ listener = {} /\ jobs = <<>> /\ DOMAIN jobs = {}
  BY NoneFirst DEF Notify!Init
<1>2. Mentions = {}
  BY <1>1 DEF Mentions, InListener, InQueue, InInbox
<1>3. OneName
  BY <1>2 DEF OneName, Agree
<1>4. OneKey
  BY <1>1 DEF OneKey
<1>5. settings = [active |-> Admins, round |-> 0] /\ serving = Notify!Idle
  BY DEF Notify!Init
<1>6. jobs = [id \in DOMAIN jobs |-> jobs[id]]
  BY <1>1
<1>7. Shapes
  BY <1>1, <1>5, <1>6 DEF Shapes, Notify!Idle
<1> QED
  BY <1>3, <1>4, <1>7 DEF Naming

LEMMA NamingStep ==
  ASSUME FiniteAdmins, Naming, [Notify!Next]_(Notify!vars)
  PROVE  Naming'
<1>1. CASE Notify!Operations
  BY <1>1, OperationsName
<1>2. CASE Notify!Handle \/ \E l \in listener : Notify!EnqueueFails(l)
  BY <1>2, EnqueueNames DEF Notify!Handle
<1>3. CASE Notify!Work \/ Notify!SendFails \/ Notify!SendRefused \/ Notify!Die
  BY <1>3, WorkerNames DEF Notify!Work
<1>4. CASE \E id \in DOMAIN jobs : Notify!Forget(id)
  BY <1>4, ForgetNames
<1>5. CASE UNCHANGED Notify!vars
  <2>1. UNCHANGED <<listener, jobs, serving, inbox, settings>>
    BY <1>5 DEF Notify!vars
  <2>2. Mentions' = Mentions /\ OneKey'
    BY <2>1 DEF Mentions, InListener, InQueue, InInbox, Naming, OneKey
  <2>3. OneName'
    BY <2>1, <2>2, NothingNew DEF Naming
  <2>4. Shapes'
    BY <2>1 DEF Naming, Shapes
  <2> QED
    BY <2>2, <2>3, <2>4 DEF Naming
<1> QED
  BY <1>1, <1>2, <1>3, <1>4, <1>5 DEF Notify!Next, Notify!Failures

\* However often a notice is queued, retried, left by a worker that died or forgotten by
\* the queue, for any number of rows, recipients, operations and failures: nobody is told
\* the same of one operation twice on one channel (booking-notifications, conduit keys).
THEOREM NoticesToldOnce == ASSUME FiniteAdmins PROVE Notify!Spec => []Notify!ToldOnce
<1>1. Naming /\ [Notify!Next]_(Notify!vars) => Naming'
  BY NamingStep
<1>2. Naming => Notify!ToldOnce
  BY NamingTells DEF Naming
<1> QED
  BY <1>1, <1>2, NamingStarts, PTL DEF Notify!Spec

-----------------------------------------------------------------------------
(* What the client was told last                                          *)

LEMMA LastOne ==
  ASSUME NEW S, NEW n \in Nat, S \subseteq 1 .. n, S # {}
  PROVE  \E i \in S : \A k \in S : k <= i
<1> DEFINE R == OpToRel(<, Nat)
           D == {n - i : i \in S}
<1>1. IsWellFoundedOn(R, Nat)
  BY NatLessThanWellFounded, Zenon
<1>2. D \subseteq Nat /\ D # {}
  <2>1. \A i \in S : n - i \in Nat
    OBVIOUS
  <2> QED
    BY <2>1
<1> HIDE DEF R, D
<1>3. PICK d \in D : \A m \in D : ~ (<<m, d>> \in R)
  BY <1>1, <1>2, WFMin
<1>4. \A m \in Nat : m < d => <<m, d>> \in R
  <2>1. d \in Nat
    BY <1>2
  <2> QED
    BY <2>1, Zenon DEF R, OpToRel
<1>5. \A m \in D : ~ (m < d)
  BY <1>2, <1>3, <1>4
<1>6. PICK i \in S : d = n - i
  BY DEF D
<1>7. \A k \in S : ~ (n - k < n - i)
  BY <1>5, <1>6 DEF D
<1> QED
  BY <1>7

\* When nothing waits, what was promised was told, and it was the last word.
LEMMA ForgottenTells ==
  ASSUME Naming, Notify!NothingIsForgotten
  PROVE  Notify!LastWordIsTrue
<1> SUFFICES ASSUME Notify!NothingWaits, ~trouble.lost, NEW r \in Group, booking[r].owed # "nothing"
             PROVE  Notify!LastWord(r) = booking[r].owed
  BY DEF Notify!LastWordIsTrue
<1>1. PICK last \in 0 .. settings.round : Notify!Promises(last)
  BY DEF Notify!NothingIsForgotten
<1>2. Notify!Promised(r, last)
  BY <1>1 DEF Notify!Promises
<1>3. Notify!Told(r)
  <2>1. \A l \in listener : DOMAIN l.left = {}
    BY DEF Notify!NothingWaits
  <2>2. \A id \in DOMAIN jobs : jobs[id].state \notin {"waiting", "active"}
    BY DEF Notify!NothingWaits
  <2> QED
    BY <1>2, <2>1, <2>2 DEF Notify!Promised
<1> DEFINE about == {i \in DOMAIN inbox : inbox[i].kind \in Notify!StatusKinds /\ r \in inbox[i].about}
<1>4. PICK told \in DOMAIN inbox : inbox[told].kind = booking[r].owed /\ r \in inbox[told].about
  BY <1>3 DEF Notify!Told
<1>5. booking[r].owed \in Notify!StatusKinds
  BY DEF Notify!NothingIsForgotten, Notify!Truthful, Notify!OwedIsTrue, Notify!StatusKinds, Notify!Cancellations
<1>6. told \in about
  BY <1>4, <1>5
<1>7. \E i \in about : \A k \in about : k <= i
  <2>1. Len(inbox) \in Nat /\ DOMAIN inbox = 1 .. Len(inbox)
    BY SeqOfItself DEF Naming, Shapes
  <2>2. about \subseteq 1 .. Len(inbox) /\ about # {}
    BY <1>6, <2>1
  <2> HIDE DEF about
  <2> QED
    BY <2>1, <2>2, LastOne
<1>8. PICK final \in about : /\ \A k \in about : k <= final
                             /\ Notify!LastWord(r) = inbox[final].kind
  BY <1>6, <1>7 DEF Notify!LastWord
<1>9. inbox[final].kind \in Notify!StatusKinds /\ r \in inbox[final].about /\ final \in DOMAIN inbox
  OBVIOUS
<1>10. CASE inbox[final].kind \in Notify!Cancellations
  BY <1>8, <1>9, <1>10 DEF Notify!NothingIsForgotten, Notify!Truthful, Notify!WellSent
<1>11. CASE inbox[final].kind = "confirmed"
  <2>1. SUFFICES ASSUME booking[r].owed # "confirmed"
                 PROVE  FALSE
    BY <1>8, <1>11
  <2>2. inbox[told].kind \in Notify!Cancellations
    BY <1>4, <1>5, <2>1 DEF Notify!StatusKinds, Notify!Cancellations
  <2>3. told <= final /\ told # final
    BY <1>6, <1>8, <1>11, <2>2 DEF Notify!Cancellations
  <2>4. told < final
    <3>1. told \in Nat /\ final \in Nat
      BY <1>9, SeqOfItself DEF Naming, Shapes
    <3> QED
      BY <2>3, <3>1
  <2> QED
    BY <1>4, <1>9, <1>11, <2>2, <2>4 DEF Notify!NothingIsForgotten, Notify!Truthful, Notify!WellSent
<1> QED
  BY <1>9, <1>10, <1>11 DEF Notify!StatusKinds, Notify!Cancellations

-----------------------------------------------------------------------------

\* What is final stays.
LEMMA FinalStays ==
  ASSUME \A r \in Group : booking[r].owed \in Notify!Cancellations => booking'[r] = booking[r]
  PROVE  /\ \A n : Notify!WellMade(n) => Notify!WellMade(n)'
         /\ UNCHANGED inbox /\ Notify!WellSent => Notify!WellSent'
<1>1. ASSUME NEW n, Notify!WellMade(n)
      PROVE  Notify!WellMade(n)'
  BY <1>1 DEF Notify!WellMade
<1>2. ASSUME UNCHANGED inbox, Notify!WellSent
      PROVE  Notify!WellSent'
  BY <1>2 DEF Notify!WellSent
<1> QED
  BY <1>1, <1>2

LEMMA OperationTells ==
  ASSUME Naming, Notify!NothingIsForgotten, NEW op, NEW rows, NEW events, Notify!Operate(op, rows, events),
         \A r \in Group : booking[r].owed \in Notify!Cancellations => booking'[r] = booking[r],
         Notify!OwedIsTrue', \A e \in events : \A i \in DOMAIN e : Notify!WellMade(e[i])',
         NEW confirms \in BOOLEAN,
         \A r \in Group :
           \/ booking'[r].owed = "nothing"
           \/ booking'[r].owed = booking[r].owed /\ (confirms => booking[r].owed \in Notify!Cancellations)
           \/ \E e \in events : \E i \in DOMAIN e :
                /\ e[i].kind = booking'[r].owed
                /\ IF e[i].kind = "confirmed" THEN confirms ELSE r \in e[i].about,
         confirms \/ \A r \in Group : booking'[r].owed = "confirmed" => booking[r].owed = "confirmed"
  PROVE  Notify!NothingIsForgotten'
<1>1. /\ settings.round \in Nat /\ settings'.round = settings.round + 1
      /\ listener' = listener \cup {[round |-> settings.round, left |-> e] : e \in events}
      /\ UNCHANGED <<jobs, serving, inbox, trouble>>
  BY DEF Notify!Operate, Naming, Shapes
<1>2. Notify!WellSent' /\ \A n : Notify!WellMade(n) => Notify!WellMade(n)'
  BY <1>1, FinalStays DEF Notify!NothingIsForgotten, Notify!Truthful
<1>3. Notify!Truthful'
  <2>1. \A l \in listener' : \A i \in DOMAIN l.left : Notify!WellMade(l.left[i])'
    BY <1>1, <1>2 DEF Notify!NothingIsForgotten, Notify!Truthful
  <2>2. \A id \in DOMAIN jobs' : /\ Notify!WellMade(jobs[id].notice)'
                                 /\ jobs'[id].state \in {"waiting", "active", "completed", "failed"}
    BY <1>1, <1>2 DEF Notify!NothingIsForgotten, Notify!Truthful
  <2>3. Notify!TurnTells'
    BY <1>1 DEF Notify!NothingIsForgotten, Notify!Truthful, Notify!TurnTells, Notify!Job
  <2> QED
    BY <1>1, <1>2, <2>1, <2>2, <2>3 DEF Notify!NothingIsForgotten, Notify!Truthful
<1>4. ASSUME ~trouble'.lost
      PROVE  \E last \in 0 .. settings'.round : Notify!Promises(last)'
  <2>1. PICK last \in 0 .. settings.round : Notify!Promises(last)
    BY <1>1, <1>4 DEF Notify!NothingIsForgotten
  <2>2. PICK next \in 0 .. settings'.round : next = IF confirms THEN settings.round + 1 ELSE last
    BY <1>1
  <2>3. \A id \in DOMAIN jobs : jobs[id].round \in Nat /\ jobs[id].round < settings.round
    <3>1. ASSUME NEW id \in DOMAIN jobs
          PROVE  Mention(jobs[id].notice, jobs[id].round) \in Mentions
      BY DEF Mentions, InQueue
    <3> QED
      BY <3>1 DEF Naming, OneName, Mention
  <2>4. \A i \in DOMAIN inbox : inbox[i].round \in Nat /\ inbox[i].round < settings.round
    <3> DEFINE m(i) == [kind |-> inbox[i].kind, to |-> inbox[i].to, round |-> inbox[i].round,
                        id |-> inbox[i].key[1]]
    <3>1. ASSUME NEW i \in DOMAIN inbox
          PROVE  m(i) \in Mentions
      BY DEF Mentions, InInbox
    <3>2. \A i \in DOMAIN inbox : m(i).round = inbox[i].round
      OBVIOUS
    <3> HIDE DEF m
    <3> QED
      BY <3>1, <3>2 DEF Naming, OneName
  <2>5. ASSUME NEW n, Notify!WellMade(n), NEW round \in Nat, round < settings.round, NEW r \in Group,
               Notify!Tells(n, round, r, next)'
        PROVE  Notify!Tells(n, round, r, last) /\ booking'[r].owed = booking[r].owed
    <3>1. n.kind = booking'[r].owed
      BY <2>5 DEF Notify!Tells
    <3>2. CASE n.kind = "confirmed"
      <4>1. round + 1 = next
        BY <2>5, <3>2 DEF Notify!Tells
      <4>2. ~confirms /\ next = last
        BY <1>1, <2>2, <2>5, <4>1
      <4>3. booking[r].owed = "confirmed"
        BY <3>1, <3>2, <4>2
      <4> QED
        BY <3>1, <3>2, <4>1, <4>2, <4>3 DEF Notify!Tells
    <3>3. CASE n.kind # "confirmed"
      <4>1. n.kind \in Notify!Cancellations /\ r \in n.about
        BY <2>5, <3>3 DEF Notify!Tells
      <4>2. booking[r].owed = n.kind
        BY <2>5, <4>1 DEF Notify!WellMade
      <4> QED
        BY <3>1, <3>3, <4>1, <4>2 DEF Notify!Tells
    <3> QED
      BY <3>2, <3>3
  <2>6. \A r \in Group : Notify!Told(r) /\ booking'[r].owed = booking[r].owed => Notify!Told(r)'
    BY <1>1 DEF Notify!Told
  <2>7. ASSUME NEW id \in DOMAIN jobs, NEW r \in Group,
               Notify!Tells(jobs[id].notice, jobs[id].round, r, next)'
        PROVE  Notify!Tells(jobs[id].notice, jobs[id].round, r, last) /\ booking'[r].owed = booking[r].owed
    <3>1. PICK n, round : n = jobs[id].notice /\ round = jobs[id].round
      OBVIOUS
    <3>2. Notify!WellMade(n) /\ round \in Nat /\ round < settings.round
      BY <2>3, <3>1 DEF Notify!NothingIsForgotten, Notify!Truthful
    <3>3. Notify!Tells(n, round, r, next)'
      BY <1>1, <2>7, <3>1 DEF Notify!Tells
    <3> QED
      BY <2>5, <3>1, <3>2, <3>3
  <2>8. ASSUME NEW r \in Group, booking'[r].owed # "nothing"
        PROVE  Notify!Promised(r, next)'
    <3>1. CASE booking'[r].owed = booking[r].owed /\ (confirms => booking[r].owed \in Notify!Cancellations)
      <4>1. Notify!Promised(r, last)
        BY <2>1, <2>8, <3>1 DEF Notify!Promises
      <4>2. ASSUME NEW n, NEW round, Notify!Tells(n, round, r, last)
            PROVE  Notify!Tells(n, round, r, next)'
        BY <2>2, <3>1, <4>2 DEF Notify!Tells, Notify!Cancellations
      <4>3. CASE Notify!Told(r)
        BY <2>6, <3>1, <4>3 DEF Notify!Promised
      <4>4. ASSUME NEW l \in listener, NEW i \in DOMAIN l.left, Notify!Tells(l.left[i], l.round, r, last)
            PROVE  Notify!Promised(r, next)'
        <5>1. l \in listener' /\ Notify!Tells(l.left[i], l.round, r, next)'
          BY <1>1, <4>2, <4>4
        <5> QED
          BY <5>1 DEF Notify!Promised
      <4>5. ASSUME NEW id \in DOMAIN jobs, jobs[id].state \in {"waiting", "active"},
                   Notify!Tells(jobs[id].notice, jobs[id].round, r, last)
            PROVE  Notify!Promised(r, next)'
        <5>1. PICK n, round : n = jobs[id].notice /\ round = jobs[id].round
          OBVIOUS
        <5>2. Notify!Tells(n, round, r, next)'
          BY <4>2, <4>5, <5>1
        <5>3. Notify!Tells(jobs[id].notice, jobs[id].round, r, next)'
          BY <1>1, <5>1, <5>2 DEF Notify!Tells
        <5> QED
          BY <1>1, <4>5, <5>3 DEF Notify!Promised
      <4> QED
        BY <4>1, <4>3, <4>4, <4>5 DEF Notify!Promised
    <3>2. ASSUME NEW e \in events, NEW i \in DOMAIN e, e[i].kind = booking'[r].owed,
                 IF e[i].kind = "confirmed" THEN confirms ELSE r \in e[i].about
          PROVE  Notify!Promised(r, next)'
      <4>1. PICK l \in listener' : l.round = settings.round /\ l.left = e
        <5>1. [round |-> settings.round, left |-> e] \in listener'
          BY <1>1
        <5> QED
          BY <5>1
      <4>2. e[i].kind \in {"confirmed"} \cup Notify!Cancellations
        BY <2>8, <3>2 DEF Notify!OwedIsTrue
      <4>3. Notify!Tells(l.left[i], l.round, r, next)'
        BY <2>2, <3>2, <4>1, <4>2 DEF Notify!Tells
      <4> QED
        BY <4>1, <4>3 DEF Notify!Promised
    <3> QED
      BY <2>8, <3>1, <3>2
  <2>9. \A id \in DOMAIN jobs', r \in Group :
          (jobs[id].state = "completed" /\ Notify!Tells(jobs[id].notice, jobs[id].round, r, next))'
            => Notify!Told(r)'
    BY <1>1, <2>1, <2>6, <2>7 DEF Notify!Promises
  <2>10. serving'.pc \in {"send", "end"} =>
           \A r \in Group : Notify!Tells(Notify!Job.notice, Notify!Job.round, r, next)' =>
             IF serving'.pc = "send" THEN r \in serving'.about ELSE Notify!Told(r)'
    <3> SUFFICES ASSUME serving'.pc \in {"send", "end"}, NEW r \in Group,
                        Notify!Tells(Notify!Job.notice, Notify!Job.round, r, next)'
                 PROVE  IF serving'.pc = "send" THEN r \in serving'.about ELSE Notify!Told(r)'
      OBVIOUS
    <3>1. PICK id \in DOMAIN jobs : id = serving.id
      BY <1>1 DEF Naming, Shapes
    <3>2. Notify!Tells(jobs[id].notice, jobs[id].round, r, next)'
      BY <1>1, <3>1 DEF Notify!Tells, Notify!Job
    <3>3. Notify!Tells(Notify!Job.notice, Notify!Job.round, r, last) /\ booking'[r].owed = booking[r].owed
      BY <2>7, <3>1, <3>2 DEF Notify!Job
    <3> QED
      BY <1>1, <2>1, <2>6, <3>3 DEF Notify!Promises
  <2>11. ASSUME NEW i \in DOMAIN inbox', NEW r \in Group, inbox'[i].kind = "confirmed",
                inbox'[i].round + 1 = next, booking'[r].owed = "confirmed"
         PROVE  r \in inbox'[i].about
    <3>1. ~confirms /\ next = last
      BY <1>1, <2>2, <2>4, <2>11
    <3> QED
      BY <1>1, <2>1, <2>11, <3>1 DEF Notify!Promises
  <2>12. Notify!Promises(next)'
    BY <1>1, <2>1, <2>8, <2>9, <2>10, <2>11 DEF Notify!Promises
  <2> QED
    BY <2>12
<1> QED
  BY <1>3, <1>4 DEF Notify!NothingIsForgotten

LEMMA Untouched ==
  ASSUME Notify!NothingIsForgotten, UNCHANGED <<booking, listener, jobs, serving, inbox, trouble>>,
         settings'.round = settings.round
  PROVE  Notify!NothingIsForgotten'
<1>1. Notify!Truthful'
  BY DEF Notify!NothingIsForgotten, Notify!Truthful, Notify!OwedIsTrue, Notify!WellSent, Notify!TurnTells, Notify!WellMade, Notify!Job
<1>2. ASSUME NEW last, Notify!Promises(last)
      PROVE  Notify!Promises(last)'
  BY <1>2 DEF Notify!Promises, Notify!Promised, Notify!Told, Notify!Tells, Notify!Job
<1> QED
  BY <1>1, <1>2 DEF Notify!NothingIsForgotten

\* A notice that does not say what became of a reservation.
Other(n) == n.kind \notin Notify!StatusKinds /\ n.id[1] \notin {"client-confirmed", "client-cancelled"}

LEMMA OthersWellMade == ASSUME NEW n, Other(n) PROVE Notify!WellMade(n)'
BY DEF Other, Notify!WellMade, Notify!StatusKinds, Notify!Cancellations

LEMMA FirstOfAppend ==
  ASSUME NEW x, NEW y, NEW t
  PROVE  Append(<<x>>, t)[1] = x /\ Append(<<x, y>>, t)[1] = x /\ <<x>>[1] = x /\ <<x, y>>[1] = x
<1>1. <<x>> \in Seq({x, y, t}) /\ <<x, y>> \in Seq({x, y, t}) /\ t \in {x, y, t}
  OBVIOUS
<1>2. Len(<<x>>) = 1 /\ Len(<<x, y>>) = 2
  OBVIOUS
<1> QED
  BY <1>1, <1>2

\* What administrators are told.
LEMMA AdminsOther ==
  ASSUME NEW kind, kind \notin Notify!StatusKinds, NEW x, x \notin {"client-confirmed", "client-cancelled"},
         NEW y, NEW id \in {<<x>>, <<x, y>>}, NEW about, NEW admins, IsFiniteSet(admins)
  PROVE  \A i \in DOMAIN Notify!ForAdmins(kind, id, about, admins) : Other(Notify!ForAdmins(kind, id, about, admins)[i])
<1> SUFFICES ASSUME NEW i \in DOMAIN Notify!ForAdmins(kind, id, about, admins)
             PROVE  Other(Notify!ForAdmins(kind, id, about, admins)[i])
  OBVIOUS
<1>1. PICK n : n = Notify!ForAdmins(kind, id, about, admins)[i]
  OBVIOUS
<1>2. n = Notify!Notice(kind, Append(id, n.to), about, n.to)
  BY <1>1, AdminNotices
<1>3. n.kind = kind /\ n.id = Append(id, n.to)
  BY <1>2 DEF Notify!Notice
<1>4. n.id[1] = x
  BY <1>3, FirstOfAppend
<1> QED
  BY <1>1, <1>3, <1>4 DEF Other

\* An operation after which nothing more is owed.
LEMMA QuietOperation ==
  ASSUME Naming, Notify!NothingIsForgotten, NEW op, NEW rows, NEW events, Notify!Operate(op, rows, events),
         \A e \in events : \A i \in DOMAIN e : Other(e[i]),
         \A r \in Group :
           \/ booking'[r] = booking[r]
           \/ /\ booking'[r].owed = "nothing" /\ booking'[r].status # "CONFIRMADA"
              /\ booking[r].owed \notin Notify!Cancellations
  PROVE  Notify!NothingIsForgotten'
<1>1. Notify!OwedIsTrue'
  BY DEF Notify!NothingIsForgotten, Notify!Truthful, Notify!OwedIsTrue, Notify!Cancellations
<1>2. \A e \in events : \A i \in DOMAIN e : Notify!WellMade(e[i])'
  BY OthersWellMade
<1>3. PICK confirms \in BOOLEAN : ~confirms
  OBVIOUS
<1> QED
  BY <1>1, <1>2, <1>3, OperationTells

\* A cancellation that the client is told of.
LEMMA Cancelling ==
  ASSUME Naming, Notify!NothingIsForgotten, NEW op, NEW rows, NEW e, Notify!Operate(op, rows, {e}),
         NEW kind \in Notify!Cancellations, NEW S \in SUBSET Group, S # {}, \A r \in S : Notify!Live(r),
         rows = [r \in S |-> Notify!Row("CANCELADA", IF kind = "cancelledByAdmin" THEN "ADMIN" ELSE "CLIENT",
                                        kind)],
         \A i \in DOMAIN e : Other(e[i]) \/ e[i] = Notify!Notice(kind, <<"client-cancelled", S>>, S, "client"),
         \E i \in DOMAIN e : e[i] = Notify!Notice(kind, <<"client-cancelled", S>>, S, "client")
  PROVE  Notify!NothingIsForgotten'
<1>1. \A r \in Group :
        booking'[r] = IF r \in S THEN Notify!Row("CANCELADA", IF kind = "cancelledByAdmin" THEN "ADMIN" ELSE "CLIENT",
                                                 kind)
                      ELSE booking[r]
  BY DEF Notify!Operate
<1>2. \A r \in S : /\ booking'[r].status = "CANCELADA" /\ booking'[r].owed = kind
                   /\ booking'[r].source = IF kind = "cancelledByAdmin" THEN "ADMIN" ELSE "CLIENT"
  BY <1>1 DEF Notify!Row
<1>3. \A r \in S : booking[r].owed \notin Notify!Cancellations
  BY DEF Notify!Live, Notify!NothingIsForgotten, Notify!Truthful, Notify!OwedIsTrue
<1>4. Notify!OwedIsTrue'
  BY <1>1, <1>2 DEF Notify!NothingIsForgotten, Notify!Truthful, Notify!OwedIsTrue, Notify!Cancellations
<1>5. PICK n : n = Notify!Notice(kind, <<"client-cancelled", S>>, S, "client")
  OBVIOUS
<1>6. n.kind = kind /\ n.id = <<"client-cancelled", S>> /\ n.about = S /\ n.to = "client"
  BY <1>5 DEF Notify!Notice
<1>7. Notify!WellMade(n)'
  <2>1. n.id[1] = "client-cancelled"
    BY <1>6
  <2>2. \A r \in S : booking'[r].owed = kind
    BY <1>2
  <2>3. n.kind # "confirmed" /\ n.kind \in Notify!Cancellations
    BY <1>6 DEF Notify!Cancellations
  <2> QED
    BY <1>6, <2>1, <2>2, <2>3 DEF Notify!WellMade
<1>8. \A d \in {e} : \A i \in DOMAIN d : Notify!WellMade(d[i])'
  BY <1>5, <1>7, OthersWellMade
<1>9. PICK confirms \in BOOLEAN : ~confirms
  OBVIOUS
<1>10. PICK events : events = {e}
  OBVIOUS
<1>11. ASSUME NEW r \in Group
       PROVE  \/ booking'[r].owed = booking[r].owed /\ (confirms => booking[r].owed \in Notify!Cancellations)
              \/ \E d \in events : \E i \in DOMAIN d :
                   /\ d[i].kind = booking'[r].owed
                   /\ IF d[i].kind = "confirmed" THEN confirms ELSE r \in d[i].about
  <2>1. CASE r \in S
    <3>1. PICK i \in DOMAIN e : e[i] = n
      BY <1>5
    <3>2. e[i].kind = booking'[r].owed /\ e[i].kind # "confirmed" /\ r \in e[i].about
      BY <1>2, <1>6, <2>1, <3>1 DEF Notify!Cancellations
    <3> QED
      BY <1>10, <3>2
  <2>2. CASE r \notin S
    BY <1>1, <1>9, <2>2
  <2> QED
    BY <2>1, <2>2
<1>12. \A r \in Group : booking'[r].owed = "confirmed" => booking[r].owed = "confirmed"
  BY <1>1, <1>2 DEF Notify!Cancellations
<1>13. \A r \in Group : booking[r].owed \in Notify!Cancellations => booking'[r] = booking[r]
  BY <1>1, <1>3
<1> QED
  BY <1>4, <1>8, <1>10, <1>11, <1>12, <1>13, OperationTells

LEMMA ConfirmTells ==
  ASSUME Naming, Notify!NothingIsForgotten, Notify!Confirm
  PROVE  Notify!NothingIsForgotten'
<1>1. PICK pending : pending = {r \in Group : booking[r].status = "PENDIENTE"}
  OBVIOUS
<1>2. PICK events :
        events = {<<Notify!Notice("confirmed", <<"client-confirmed">>, {r}, "client")>> : r \in pending}
  OBVIOUS
<1>3. PICK rows : rows = [r \in pending |-> Notify!Row("CONFIRMADA", "NINGUNA", "confirmed")]
  OBVIOUS
<1>4. pending # {} /\ Notify!Operate("confirm", rows, events)
  BY <1>1, <1>2, <1>3 DEF Notify!Confirm
<1>5. \A r \in Group : booking'[r] = IF r \in pending THEN Notify!Row("CONFIRMADA", "NINGUNA", "confirmed")
                                     ELSE booking[r]
  BY <1>3, <1>4 DEF Notify!Operate
<1>6. \A r \in pending : booking'[r].status = "CONFIRMADA" /\ booking'[r].owed = "confirmed"
  BY <1>1, <1>5 DEF Notify!Row
<1>7. \A r \in pending : booking[r].owed \notin Notify!Cancellations
  BY <1>1 DEF Notify!NothingIsForgotten, Notify!Truthful, Notify!OwedIsTrue
<1>8. Notify!OwedIsTrue'
  BY <1>5, <1>6 DEF Notify!NothingIsForgotten, Notify!Truthful, Notify!OwedIsTrue, Notify!Cancellations
<1>9. ASSUME NEW e \in events
      PROVE  /\ \A i \in DOMAIN e : Notify!WellMade(e[i])'
             /\ 1 \in DOMAIN e /\ e[1].kind = "confirmed"
  <2>1. PICK r \in pending : e = <<Notify!Notice("confirmed", <<"client-confirmed">>, {r}, "client")>>
    BY <1>2
  <2>2. PICK n : n = Notify!Notice("confirmed", <<"client-confirmed">>, {r}, "client")
    OBVIOUS
  <2>3. n.kind = "confirmed" /\ n.id = <<"client-confirmed">> /\ n.to = "client"
    BY <2>2 DEF Notify!Notice
  <2>4. n.id[1] = "client-confirmed"
    BY <2>3
  <2>5. Notify!WellMade(n)'
    BY <2>3, <2>4 DEF Notify!WellMade, Notify!Cancellations
  <2>6. DOMAIN e = {1} /\ e[1] = n
    BY <2>1, <2>2, OneNotice
  <2> QED
    BY <2>3, <2>5, <2>6
<1>10. PICK confirms \in BOOLEAN : confirms
  OBVIOUS
<1>11. ASSUME NEW r \in Group
       PROVE  \/ booking'[r].owed = "nothing"
              \/ booking'[r].owed = booking[r].owed /\ (confirms => booking[r].owed \in Notify!Cancellations)
              \/ \E e \in events : \E i \in DOMAIN e :
                   /\ e[i].kind = booking'[r].owed
                   /\ IF e[i].kind = "confirmed" THEN confirms ELSE r \in e[i].about
  <2>1. PICK e \in events : TRUE
    BY <1>2, <1>4
  <2>2. CASE booking'[r].owed = "confirmed"
    BY <1>9, <1>10, <2>1, <2>2
  <2>3. CASE booking'[r].owed # "confirmed"
    BY <1>5, <1>6, <2>3 DEF Notify!NothingIsForgotten, Notify!Truthful, Notify!OwedIsTrue
  <2> QED
    BY <2>2, <2>3
<1>12. \A r \in Group : booking[r].owed \in Notify!Cancellations => booking'[r] = booking[r]
  BY <1>5, <1>7
<1>13. \A e \in events : \A i \in DOMAIN e : Notify!WellMade(e[i])'
  BY <1>9
<1>14. confirms \/ \A r \in Group : booking'[r].owed = "confirmed" => booking[r].owed = "confirmed"
  BY <1>10
<1> QED
  BY <1>4, <1>8, <1>11, <1>12, <1>13, <1>14, OperationTells

LEMMA OperationsTell ==
  ASSUME FiniteAdmins, Naming, Notify!NothingIsForgotten, Notify!Operations
  PROVE  Notify!NothingIsForgotten'
<1>0. IsFiniteSet(settings.active)
  BY ActiveFinite
<1>1. Notify!OwedIsTrue
  BY DEF Notify!NothingIsForgotten, Notify!Truthful
<1>2. ASSUME NEW op, NEW n, Other(n), Notify!Operate(op, [q \in {} |-> 0], {<<n>>})
      PROVE  Notify!NothingIsForgotten'
  <2>1. \A e \in {<<n>>} : \A i \in DOMAIN e : Other(e[i])
    BY <1>2, OneNotice
  <2>2. \A r \in Group : booking'[r] = booking[r]
    BY <1>2 DEF Notify!Operate
  <2> QED
    BY <1>2, <2>1, <2>2, QuietOperation
<1>3. CASE Notify!CancelByTimeout
  <2>1. PICK late : late = {r \in Group : Notify!Live(r)}
    OBVIOUS
  <2>2. PICK events :
          events = {Notify!ForAdmins("timedOut", <<"admin-timeout">>, {r}, settings.active) : r \in late}
    OBVIOUS
  <2>3. PICK rows : rows = [r \in late |-> Notify!Row("CANCELADA", "TIMEOUT", "nothing")]
    OBVIOUS
  <2>4. Notify!Operate("timeout", rows, events)
    BY <1>3, <2>1, <2>2, <2>3 DEF Notify!CancelByTimeout
  <2>5. \A e \in events : \A i \in DOMAIN e : Other(e[i])
    BY <1>0, <2>2, AdminsOther DEF Notify!StatusKinds
  <2>6. \A r \in Group : booking'[r] = IF r \in late THEN Notify!Row("CANCELADA", "TIMEOUT", "nothing")
                                       ELSE booking[r]
    BY <2>3, <2>4 DEF Notify!Operate
  <2>7. \A r \in late : /\ booking'[r].owed = "nothing" /\ booking'[r].status # "CONFIRMADA"
                        /\ booking[r].owed \notin Notify!Cancellations
    BY <1>1, <2>1, <2>6 DEF Notify!Row, Notify!OwedIsTrue, Notify!Live
  <2> QED
    BY <2>4, <2>5, <2>6, <2>7, QuietOperation
<1>4. ASSUME NEW r \in Group, Notify!CancelByAdmin(r)
      PROVE  Notify!NothingIsForgotten'
  <2>1. PICK reason \in BOOLEAN :
          Notify!Operate("adminCancel",
                   [q \in {r} |-> Notify!Row("CANCELADA", "ADMIN", IF reason THEN "cancelledByAdmin" ELSE "nothing")],
                   IF reason
                   THEN {<<Notify!Notice("cancelledByAdmin", <<"client-cancelled", {r}>>, {r}, "client")>>}
                   ELSE {})
    BY <1>4 DEF Notify!CancelByAdmin
  <2>2. Notify!Live(r)
    BY <1>4 DEF Notify!CancelByAdmin
  <2>3. CASE reason
    <3>1. PICK kind \in Notify!Cancellations : kind = "cancelledByAdmin"
      BY DEF Notify!Cancellations
    <3>2. PICK S \in SUBSET Group : S = {r}
      OBVIOUS
    <3>3. PICK n : n = Notify!Notice(kind, <<"client-cancelled", S>>, S, "client")
      OBVIOUS
    <3>4. PICK rows : rows = [q \in S |-> Notify!Row("CANCELADA",
                                IF kind = "cancelledByAdmin" THEN "ADMIN" ELSE "CLIENT", kind)]
      OBVIOUS
    <3>5. PICK e : e = <<n>>
      OBVIOUS
    <3>6. Notify!Operate("adminCancel", rows, {e})
      BY <2>1, <2>3, <3>1, <3>2, <3>3, <3>4, <3>5
    <3>7. DOMAIN e = {1} /\ e[1] = n
      BY <3>5, OneNotice
    <3>8. S # {} /\ \A q \in S : Notify!Live(q)
      BY <2>2, <3>2
    <3> QED
      BY <3>3, <3>4, <3>6, <3>7, <3>8, Cancelling
  <2>4. CASE ~reason
    <3>1. PICK rows : rows = [q \in {r} |-> Notify!Row("CANCELADA", "ADMIN", "nothing")]
      OBVIOUS
    <3>2. Notify!Operate("adminCancel", rows, {})
      BY <2>1, <2>4, <3>1
    <3>3. \A q \in Group : booking'[q] = IF q = r THEN Notify!Row("CANCELADA", "ADMIN", "nothing")
                                         ELSE booking[q]
      BY <3>1, <3>2 DEF Notify!Operate
    <3>4. /\ booking'[r].owed = "nothing" /\ booking'[r].status # "CONFIRMADA"
          /\ booking[r].owed \notin Notify!Cancellations
      BY <1>1, <2>2, <3>3 DEF Notify!Row, Notify!OwedIsTrue, Notify!Live
    <3> QED
      BY <3>2, <3>3, <3>4, QuietOperation
  <2> QED
    BY <2>3, <2>4
<1>5. CASE Notify!CancelByClient
  <2>1. PICK kind \in Notify!Cancellations : kind = "cancelledByClient"
    BY DEF Notify!Cancellations
  <2>2. PICK S \in SUBSET Group : S = {r \in Group : Notify!Live(r)}
    OBVIOUS
  <2>3. PICK n : n = Notify!Notice(kind, <<"client-cancelled", S>>, S, "client")
    OBVIOUS
  <2>4. PICK more : more = Notify!ForAdmins("adminCancelled", <<"admin-client-cancelled", S>>, S,
                                            settings.active)
    OBVIOUS
  <2>5. PICK rows : rows = [q \in S |-> Notify!Row("CANCELADA",
                              IF kind = "cancelledByAdmin" THEN "ADMIN" ELSE "CLIENT", kind)]
    OBVIOUS
  <2>6. PICK e : e = <<n>> \o more
    OBVIOUS
  <2>7. S # {} /\ (\A q \in S : Notify!Live(q)) /\ Notify!Operate("clientCancel", rows, {e})
    BY <1>5, <2>1, <2>2, <2>3, <2>4, <2>5, <2>6 DEF Notify!CancelByClient
  <2>8. IsSeq(more) /\ \A i \in DOMAIN more : Other(more[i])
    BY <1>0, <2>4, AdminNotices, AdminsOther DEF Notify!StatusKinds
  <2>9. /\ \A i \in DOMAIN e : Other(e[i]) \/ e[i] = n
        /\ \E i \in DOMAIN e : e[i] = n
    <3>1. IsSeq(<<n>>) /\ DOMAIN <<n>> = {1} /\ <<n>>[1] = n
      BY OneNotice
    <3>2. \A i \in DOMAIN e : \/ \E k \in DOMAIN <<n>> : e[i] = <<n>>[k]
                              \/ \E k \in DOMAIN more : e[i] = more[k]
      BY <2>6, <2>8, <3>1, Joined
    <3>3. 1 \in DOMAIN e /\ e[1] = n
      <4>1. PICK M : more \in Seq(M)
        BY <2>8 DEF IsSeq
      <4>2. <<n>> \in Seq(M \cup {n}) /\ more \in Seq(M \cup {n}) /\ Len(<<n>>) = 1
        BY <4>1
      <4> QED
        BY <2>6, <4>2
    <3> QED
      BY <2>8, <3>1, <3>2, <3>3
  <2> QED
    BY <2>3, <2>5, <2>7, <2>9, Cancelling
<1>6. ASSUME NEW r \in Group, Notify!Reschedule(r)
      PROVE  Notify!NothingIsForgotten'
  <2>1. PICK more : more = Notify!ForAdmins("adminRescheduled", <<"admin-rescheduled", settings.round>>,
                                            {r}, settings.active)
    OBVIOUS
  <2>2. IsSeq(more) /\ \A i \in DOMAIN more : Other(more[i])
    BY <1>0, <2>1, AdminNotices, AdminsOther DEF Notify!StatusKinds
  <2>3. PICK n : n = Notify!Notice("rescheduled", <<"rescheduled", settings.round>>, {r}, "client")
    OBVIOUS
  <2>4. PICK first \in {<<n>>, <<>>} : Notify!Operate("reschedule", [q \in {} |-> booking[r]], {first \o more})
    BY <1>6, <2>1, <2>3 DEF Notify!Reschedule
  <2>5. Other(n)
    BY <2>3, FirstOfAppend DEF Notify!Notice, Other, Notify!StatusKinds
  <2>6. IsSeq(first) /\ \A i \in DOMAIN first : Other(first[i])
    BY <2>5, OneNotice, NoneFirst
  <2>7. PICK e : e = first \o more
    OBVIOUS
  <2>8. \A i \in DOMAIN e : Other(e[i])
    BY <2>2, <2>6, <2>7, Joined
  <2>9. \A q \in Group : booking'[q] = booking[q]
    BY <2>4 DEF Notify!Operate
  <2>10. Notify!Operate("reschedule", [q \in {} |-> booking[r]], {e})
    BY <2>4, <2>7
  <2> QED
    BY <2>8, <2>9, <2>10, QuietOperation
<1>7. ASSUME NEW r \in Group, Notify!Reject(r)
      PROVE  Notify!NothingIsForgotten'
  <2>1. PICK n : n = Notify!Notice(IF booking[r].status = "PENDIENTE" THEN "rejectedWithDeadline"
                                   ELSE "rejected", <<"rejected", settings.round>>, {r}, "client")
    OBVIOUS
  <2>2. Other(n)
    BY <2>1, FirstOfAppend DEF Notify!Notice, Other, Notify!StatusKinds
  <2>3. Notify!Operate("reject", [q \in {} |-> 0], {<<n>>})
    BY <1>7, <2>1 DEF Notify!Reject
  <2> QED
    BY <1>2, <2>2, <2>3
<1>8. ASSUME NEW r \in Group, Notify!RequestLink(r)
      PROVE  Notify!NothingIsForgotten'
  <2>1. PICK n : n = Notify!Notice("link", <<"link", settings.round>>, {r}, "client")
    OBVIOUS
  <2>2. Other(n)
    BY <2>1, FirstOfAppend DEF Notify!Notice, Other, Notify!StatusKinds
  <2>3. Notify!Operate("link", [q \in {} |-> 0], {<<n>>})
    BY <1>8, <2>1 DEF Notify!RequestLink
  <2> QED
    BY <1>2, <2>2, <2>3
<1>9. CASE Notify!Handoff
  <2>1. PICK e : e = Notify!ForAdmins("handoff", <<"admin-handoff", settings.round>>, {}, settings.active)
    OBVIOUS
  <2>2. \A i \in DOMAIN e : Other(e[i])
    BY <1>0, <2>1, AdminsOther DEF Notify!StatusKinds
  <2>3. Notify!Operate("handoff", [q \in {} |-> 0], {e})
    BY <1>9, <2>1 DEF Notify!Handoff
  <2>4. \A q \in Group : booking'[q] = booking[q]
    BY <2>3 DEF Notify!Operate
  <2> QED
    BY <2>2, <2>3, <2>4, QuietOperation
<1>10. CASE Notify!Revive
  <2>1. PICK rows : rows = [r \in Group |-> Notify!Row("PENDIENTE", "NINGUNA", "nothing")]
    OBVIOUS
  <2>2. Notify!Operate("revive", rows, {})
    BY <1>10, <2>1 DEF Notify!Revive
  <2>3. \A r \in Group : booking'[r] = Notify!Row("PENDIENTE", "NINGUNA", "nothing")
    BY <2>1, <2>2 DEF Notify!Operate
  <2>4. \A r \in Group : /\ booking'[r].owed = "nothing" /\ booking'[r].status # "CONFIRMADA"
                         /\ booking[r].owed \notin Notify!Cancellations
    BY <1>1, <1>10, <2>3 DEF Notify!Revive, Notify!Row, Notify!OwedIsTrue, Notify!Cancellations
  <2> QED
    BY <2>2, <2>4, QuietOperation
<1>11. ASSUME NEW a \in Admins, Notify!Deactivate(a)
       PROVE  Notify!NothingIsForgotten'
  <2>1. /\ UNCHANGED <<booking, listener, jobs, serving, inbox, trouble>>
        /\ settings'.round = settings.round
    BY <1>11 DEF Notify!Deactivate, Naming, Shapes
  <2> QED
    BY <2>1, Untouched
<1> QED
  BY <1>3, <1>4, <1>5, <1>6, <1>7, <1>8, <1>9, <1>10, <1>11, ConfirmTells DEF Notify!Operations

-----------------------------------------------------------------------------
(* The listener *)

\* A step of a handler keeps the other notices and all but the first of its own.
LEMMA HandlersLeave ==
  ASSUME Naming, NEW l \in listener, l.left # <<>>,
         NEW m, m = [l EXCEPT !.left = Tail(@)], listener' = (listener \ {l}) \cup {m}
  PROVE  /\ \A k \in listener : \A i \in DOMAIN k.left :
              \/ k.left[i] = Head(l.left) /\ k.round = l.round
              \/ \E o \in listener' : \E j \in DOMAIN o.left : o.left[j] = k.left[i] /\ o.round = k.round
<1>1. IsSeq(l.left) /\ l = [round |-> l.round, left |-> l.left]
  BY DEF Naming, Shapes
<1>2. m.left = Tail(l.left) /\ m.round = l.round /\ m \in listener'
  BY <1>1
<1>3. \A i \in DOMAIN l.left : l.left[i] = Head(l.left) \/ \E j \in DOMAIN m.left : m.left[j] = l.left[i]
  <2>1. PICK S : l.left \in Seq(S)
    BY <1>1 DEF IsSeq
  <2> SUFFICES ASSUME NEW i \in DOMAIN l.left, i # 1
               PROVE  \E j \in DOMAIN m.left : m.left[j] = l.left[i]
    BY <1>1, HeadAndTail
  <2>2. i - 1 \in DOMAIN m.left /\ m.left[i - 1] = l.left[i]
    BY <1>2, <2>1
  <2> QED
    BY <2>2
<1> QED
  BY <1>2, <1>3

\* What is queued in a listener is well made.
LEMMA LeftWellMade ==
  ASSUME Naming, Notify!Truthful, NEW l \in listener, l.left # <<>>, NEW k \in listener',
         listener' = (listener \ {l}) \cup
           {[l EXCEPT !.left = IF Head(@).to = "client" THEN <<>> ELSE Tail(@)]}
         \/ listener' = (listener \ {l}) \cup {[l EXCEPT !.left = Tail(@)]},
         UNCHANGED booking
  PROVE  \A i \in DOMAIN k.left : Notify!WellMade(k.left[i])'
<1>1. IsSeq(l.left) /\ l = [round |-> l.round, left |-> l.left]
  BY DEF Naming, Shapes
<1>2. \A n : Notify!WellMade(n) => Notify!WellMade(n)'
  BY FinalStays
<1>3. \A i \in DOMAIN k.left : \E o \in listener : \E j \in DOMAIN o.left : k.left[i] = o.left[j]
  BY <1>1, HeadAndTail, NoneFirst
<1> QED
  BY <1>2, <1>3 DEF Notify!Truthful

LEMMA EnqueueTells ==
  ASSUME Naming, Notify!NothingIsForgotten, NEW l \in listener, Notify!Enqueue(l)
  PROVE  Notify!NothingIsForgotten'
<1>1. PICK n : n = Head(l.left)
  OBVIOUS
<1>2. PICK new : new = [notice |-> n, state |-> "waiting", made |-> 0, round |-> l.round]
  OBVIOUS
<1>3. /\ l.left # <<>> /\ UNCHANGED <<booking, serving, inbox, settings>>
      /\ listener' = (listener \ {l}) \cup {[l EXCEPT !.left = Tail(@)]}
      /\ \/ /\ n.id \in DOMAIN jobs /\ UNCHANGED jobs
            /\ trouble' = [trouble EXCEPT !.lost = @ \/ jobs[n.id].round # l.round]
         \/ /\ n.id \notin DOMAIN jobs /\ UNCHANGED trouble
            /\ jobs' = [id \in DOMAIN jobs \cup {n.id} |-> IF id = n.id THEN new ELSE jobs[id]]
  BY <1>1, <1>2 DEF Notify!Enqueue
<1>4. Notify!WellMade(n)
  <2>1. IsSeq(l.left)
    BY DEF Naming, Shapes
  <2>2. 1 \in DOMAIN l.left /\ n = l.left[1]
    BY <1>1, <1>3, <2>1, HeadAndTail
  <2> QED
    BY <2>2 DEF Notify!NothingIsForgotten, Notify!Truthful
<1>5. /\ \A id \in DOMAIN jobs : id \in DOMAIN jobs' /\ jobs'[id] = jobs[id]
      /\ \A id \in DOMAIN jobs' : id \in DOMAIN jobs \/ (id = n.id /\ jobs'[id] = new)
      /\ n.id \in DOMAIN jobs'
  BY <1>3
<1>6. new.notice = n /\ new.state = "waiting" /\ new.round = l.round
  BY <1>2
<1>7. \A m : Notify!WellMade(m) => Notify!WellMade(m)'
  BY <1>3, FinalStays
<1>8. serving.pc # "idle" => serving.id \in DOMAIN jobs
  BY DEF Naming, Shapes
<1>9. Notify!Truthful'
  <2>1. \A k \in listener' : \A i \in DOMAIN k.left : Notify!WellMade(k.left[i])'
    BY <1>3, LeftWellMade DEF Notify!NothingIsForgotten
  <2>2. ASSUME NEW id \in DOMAIN jobs'
        PROVE  /\ Notify!WellMade(jobs[id].notice)'
               /\ jobs'[id].state \in {"waiting", "active", "completed", "failed"}
    <3>1. PICK m : m = jobs'[id].notice
      OBVIOUS
    <3>2. Notify!WellMade(m) /\ jobs'[id].state \in {"waiting", "active", "completed", "failed"}
      BY <1>4, <1>5, <1>6, <3>1 DEF Notify!NothingIsForgotten, Notify!Truthful
    <3>3. Notify!WellMade(m)'
      BY <1>7, <3>2
    <3>4. Notify!WellMade(jobs[id].notice)'
      BY <3>1, <3>3 DEF Notify!WellMade
    <3> QED
      BY <3>2, <3>4
  <2>3. Notify!TurnTells'
    BY <1>3, <1>5, <1>8 DEF Notify!NothingIsForgotten, Notify!Truthful, Notify!TurnTells, Notify!Job
  <2>4. Notify!OwedIsTrue' /\ Notify!WellSent'
    BY <1>3, FinalStays DEF Notify!NothingIsForgotten, Notify!Truthful, Notify!OwedIsTrue
  <2>5. trouble' = [faults |-> trouble'.faults, lost |-> trouble'.lost]
    BY <1>3 DEF Notify!NothingIsForgotten, Notify!Truthful
  <2> QED
    BY <2>1, <2>2, <2>3, <2>4, <2>5 DEF Notify!Truthful
<1>10. ASSUME ~trouble'.lost
       PROVE  \E last \in 0 .. settings'.round : Notify!Promises(last)'
  <2>1. ~trouble.lost /\ (n.id \in DOMAIN jobs => jobs[n.id].round = l.round)
    BY <1>3, <1>10 DEF Notify!NothingIsForgotten, Notify!Truthful
  <2>2. PICK last \in 0 .. settings.round : Notify!Promises(last)
    BY <2>1 DEF Notify!NothingIsForgotten
  <2>3. \A m, round : \A r \in Group : Notify!Tells(m, round, r, last)' <=> Notify!Tells(m, round, r, last)
    BY <1>3 DEF Notify!Tells
  <2>4. \A r \in Group : Notify!Told(r)' <=> Notify!Told(r)
    BY <1>3 DEF Notify!Told
  <2>5. ASSUME NEW r \in Group, Notify!Tells(n, l.round, r, last)
        PROVE  Notify!Promised(r, last)'
    <3>1. PICK j : j = jobs'[n.id]
      OBVIOUS
    <3>2. CASE n.id \notin DOMAIN jobs
      <4>1. j = new
        BY <1>5, <3>1, <3>2
      <4>2. Notify!Tells(j.notice, j.round, r, last)'
        BY <1>6, <2>3, <2>5, <4>1
      <4>3. Notify!Tells(jobs[n.id].notice, jobs[n.id].round, r, last)'
        BY <3>1, <4>2 DEF Notify!Tells
      <4> QED
        BY <1>5, <1>6, <3>1, <4>1, <4>3 DEF Notify!Promised
    <3>3. CASE n.id \in DOMAIN jobs
      <4>1. /\ j = jobs[n.id] /\ Notify!WellMade(j.notice) /\ j.notice.id = n.id /\ j.round = l.round
            /\ j.state \in {"waiting", "active", "completed", "failed"} /\ j.state # "failed"
        BY <1>5, <2>1, <2>2, <3>1, <3>3 DEF Notify!NothingIsForgotten, Notify!Truthful, Naming, Shapes, Notify!Promises
      <4>2. Notify!Tells(j.notice, j.round, r, last)
        <5>1. CASE n.kind = "confirmed"
          <6>1. j.notice.kind = "confirmed"
            BY <1>4, <4>1, <5>1 DEF Notify!WellMade
          <6> QED
            BY <2>5, <4>1, <5>1, <6>1 DEF Notify!Tells
        <5>2. CASE n.kind # "confirmed"
          <6>1. n.kind \in Notify!Cancellations /\ r \in n.about
            BY <2>5, <5>2 DEF Notify!Tells
          <6>2. j.notice.kind \in Notify!Cancellations
            BY <1>4, <4>1, <6>1 DEF Notify!WellMade
          <6>3. <<"client-cancelled", j.notice.about>> = <<"client-cancelled", n.about>>
            BY <1>4, <4>1, <6>1, <6>2 DEF Notify!WellMade
          <6>4. j.notice.about = n.about
            BY <6>3
          <6>5. booking[r].owed = j.notice.kind /\ j.notice.kind # "confirmed"
            BY <4>1, <6>1, <6>2, <6>4 DEF Notify!WellMade, Notify!Cancellations
          <6> QED
            BY <6>1, <6>2, <6>4, <6>5 DEF Notify!Tells
        <5> QED
          BY <5>1, <5>2
      <4>3. CASE j.state = "completed"
        <5>1. Notify!Told(r)
          BY <2>2, <3>3, <4>1, <4>2, <4>3 DEF Notify!Promises
        <5> QED
          BY <2>4, <5>1 DEF Notify!Promised
      <4>4. CASE j.state \in {"waiting", "active"}
        <5>1. Notify!Tells(j.notice, j.round, r, last)'
          BY <2>3, <4>2
        <5>2. Notify!Tells(jobs[n.id].notice, jobs[n.id].round, r, last)'
          BY <3>1, <5>1 DEF Notify!Tells
        <5> QED
          BY <1>5, <3>1, <4>4, <5>2 DEF Notify!Promised
      <4> QED
        BY <4>1, <4>3, <4>4
    <3> QED
      BY <3>2, <3>3
  <2>6. ASSUME NEW r \in Group, booking'[r].owed # "nothing"
        PROVE  Notify!Promised(r, last)'
    <3>1. Notify!Promised(r, last)
      BY <1>3, <2>2, <2>6 DEF Notify!Promises
    <3>2. CASE Notify!Told(r)
      BY <2>4, <3>2 DEF Notify!Promised
    <3>3. ASSUME NEW k \in listener, NEW i \in DOMAIN k.left, Notify!Tells(k.left[i], k.round, r, last)
          PROVE  Notify!Promised(r, last)'
      <4>1. CASE k.left[i] = n /\ k.round = l.round
        BY <2>5, <3>3, <4>1
      <4>2. ASSUME NEW o \in listener', NEW j \in DOMAIN o.left,
                   o.left[j] = k.left[i], o.round = k.round
            PROVE  Notify!Promised(r, last)'
        <5>1. Notify!Tells(o.left[j], o.round, r, last)'
          BY <2>3, <3>3, <4>2
        <5> QED
          BY <5>1 DEF Notify!Promised
      <4>3. PICK rest : rest = [l EXCEPT !.left = Tail(@)]
        OBVIOUS
      <4>4. listener' = (listener \ {l}) \cup {rest}
        BY <1>3, <4>3
      <4>5. \A p \in listener : \A q \in DOMAIN p.left :
              \/ p.left[q] = Head(l.left) /\ p.round = l.round
              \/ \E o \in listener' : \E j \in DOMAIN o.left :
                   o.left[j] = p.left[q] /\ o.round = p.round
        BY <1>3, <4>3, <4>4, HandlersLeave, Zenon
      <4> QED
        BY <1>1, <4>1, <4>2, <4>5
    <3>4. ASSUME NEW id \in DOMAIN jobs, jobs[id].state \in {"waiting", "active"},
                 Notify!Tells(jobs[id].notice, jobs[id].round, r, last)
          PROVE  Notify!Promised(r, last)'
      <4>1. id \in DOMAIN jobs' /\ jobs'[id] = jobs[id]
        BY <1>5
      <4>2. Notify!Tells(jobs[id].notice, jobs[id].round, r, last)'
        BY <1>3, <3>4, <4>1 DEF Notify!Tells
      <4> QED
        BY <3>4, <4>1, <4>2 DEF Notify!Promised
    <3> QED
      BY <3>1, <3>2, <3>3, <3>4 DEF Notify!Promised
  <2>7. ASSUME NEW id \in DOMAIN jobs', NEW r \in Group,
               jobs'[id].state = "completed", Notify!Tells(jobs[id].notice, jobs[id].round, r, last)'
        PROVE  Notify!Told(r)'
    <3>1. id \in DOMAIN jobs /\ jobs'[id] = jobs[id]
      BY <1>5, <1>6, <2>7
    <3>2. Notify!Tells(jobs[id].notice, jobs[id].round, r, last)
      BY <1>3, <2>7, <3>1 DEF Notify!Tells
    <3> QED
      BY <2>2, <2>4, <2>7, <3>1, <3>2 DEF Notify!Promises
  <2>8. \A id \in DOMAIN jobs' : jobs'[id].state # "failed"
    BY <1>5, <1>6, <2>2 DEF Notify!Promises
  <2>9. ASSUME serving'.pc \in {"send", "end"}, NEW r \in Group, Notify!Tells(Notify!Job.notice, Notify!Job.round, r, last)'
        PROVE  IF serving'.pc = "send" THEN r \in serving'.about ELSE Notify!Told(r)'
    <3>1. jobs'[serving.id] = jobs[serving.id]
      BY <1>3, <1>5, <1>8, <2>9
    <3>2. Notify!Tells(Notify!Job.notice, Notify!Job.round, r, last)
      BY <1>3, <2>9, <3>1 DEF Notify!Tells, Notify!Job
    <3> QED
      BY <1>3, <2>2, <2>4, <2>9, <3>2 DEF Notify!Promises
  <2>10. Notify!Promises(last)'
    BY <1>3, <2>2, <2>6, <2>7, <2>8, <2>9 DEF Notify!Promises
  <2> QED
    BY <1>3, <2>10
<1> QED
  BY <1>9, <1>10 DEF Notify!NothingIsForgotten

LEMMA EnqueueFailsTells ==
  ASSUME Naming, Notify!NothingIsForgotten, NEW l \in listener, Notify!EnqueueFails(l)
  PROVE  Notify!NothingIsForgotten'
<1>1. /\ l.left # <<>> /\ UNCHANGED <<booking, jobs, serving, inbox, settings>>
      /\ listener' = (listener \ {l}) \cup
           {[l EXCEPT !.left = IF Head(@).to = "client" THEN <<>> ELSE Tail(@)]}
      /\ trouble' = [faults |-> trouble'.faults, lost |-> trouble'.lost] /\ trouble'.lost
  BY DEF Notify!EnqueueFails, Notify!Troubled
<1>2. \A k \in listener' : \A i \in DOMAIN k.left : Notify!WellMade(k.left[i])'
  BY <1>1, LeftWellMade DEF Notify!NothingIsForgotten
<1>3. \A m : Notify!WellMade(m) => Notify!WellMade(m)'
  BY <1>1, FinalStays
<1>4. \A id \in DOMAIN jobs' : /\ Notify!WellMade(jobs[id].notice)'
                               /\ jobs'[id].state \in {"waiting", "active", "completed", "failed"}
  BY <1>1, <1>3 DEF Notify!NothingIsForgotten, Notify!Truthful, Notify!WellMade
<1>5. Notify!OwedIsTrue' /\ Notify!WellSent' /\ Notify!TurnTells'
  BY <1>1, FinalStays DEF Notify!NothingIsForgotten, Notify!Truthful, Notify!OwedIsTrue, Notify!TurnTells, Notify!Job
<1> QED
  BY <1>1, <1>2, <1>4, <1>5 DEF Notify!NothingIsForgotten, Notify!Truthful
-----------------------------------------------------------------------------
(* The worker *)

\* What the serving is about to tell, and what the last confirmation told.
TurnPromises(last) ==
  serving.pc \in {"send", "end"} =>
    \A r \in Group : Notify!Tells(Notify!Job.notice, Notify!Job.round, r, last) =>
      IF serving.pc = "send" THEN r \in serving.about ELSE Notify!Told(r)

InboxPromises(last) ==
  \A i \in DOMAIN inbox, r \in Group :
    /\ inbox[i].kind = "confirmed" /\ inbox[i].round + 1 = last
    /\ booking[r].owed = "confirmed"
    => r \in inbox[i].about

\* A step of the worker leaves what a job is about, and ends it when it was told.
LEMMA WorkerTells ==
  ASSUME Naming, Notify!NothingIsForgotten, UNCHANGED <<booking, listener, settings>>,
         DOMAIN jobs' = DOMAIN jobs,
         \A id \in DOMAIN jobs :
           /\ jobs'[id].notice = jobs[id].notice /\ jobs'[id].round = jobs[id].round
           /\ jobs'[id].state \in {"waiting", "active", "completed", "failed"},
         Notify!WellSent', Notify!TurnTells',
         trouble' = [faults |-> trouble'.faults, lost |-> trouble'.lost],
         ~trouble'.lost =>
           /\ ~trouble.lost
           /\ \A r \in Group : Notify!Told(r) => Notify!Told(r)'
           /\ \A id \in DOMAIN jobs :
                \/ jobs'[id].state = jobs[id].state
                \/ jobs'[id].state \in {"waiting", "active"}
                \/ jobs'[id].state = "completed" /\ serving.pc = "end" /\ id = serving.id
           /\ \A last : Notify!Promises(last) => TurnPromises(last)' /\ InboxPromises(last)'
  PROVE  Notify!NothingIsForgotten'
<1>1. Notify!Truthful'
  <2>1. ASSUME NEW id \in DOMAIN jobs'
        PROVE  /\ Notify!WellMade(jobs[id].notice)'
               /\ jobs'[id].state \in {"waiting", "active", "completed", "failed"}
    <3>1. PICK n : n = jobs[id].notice
      OBVIOUS
    <3>2. Notify!WellMade(n)
      BY <3>1 DEF Notify!NothingIsForgotten, Notify!Truthful
    <3> QED
      BY <3>1, <3>2 DEF Notify!WellMade
  <2>2. \A n : Notify!WellMade(n) => Notify!WellMade(n)'
    BY FinalStays
  <2>3. \A l \in listener' : \A i \in DOMAIN l.left : Notify!WellMade(l.left[i])'
    BY <2>2 DEF Notify!NothingIsForgotten, Notify!Truthful
  <2>4. Notify!OwedIsTrue'
    BY DEF Notify!NothingIsForgotten, Notify!Truthful, Notify!OwedIsTrue
  <2> QED
    BY <2>1, <2>3, <2>4 DEF Notify!Truthful
<1>2. ASSUME ~trouble'.lost
      PROVE  \E last \in 0 .. settings'.round : Notify!Promises(last)'
  <2>1. PICK last \in 0 .. settings.round : Notify!Promises(last)
    BY <1>2 DEF Notify!NothingIsForgotten
  <2>2. TurnPromises(last)' /\ InboxPromises(last)'
    BY <1>2, <2>1
  <2>3. ASSUME NEW id \in DOMAIN jobs, NEW r \in Group
        PROVE  Notify!Tells(jobs[id].notice, jobs[id].round, r, last)'
                        <=> Notify!Tells(jobs[id].notice, jobs[id].round, r, last)
    BY DEF Notify!Tells
  <2>4. ASSUME NEW id \in DOMAIN jobs, NEW r \in Group, jobs'[id].state = "completed",
               Notify!Tells(jobs[id].notice, jobs[id].round, r, last)
        PROVE  Notify!Told(r)'
    <3>1. CASE jobs[id].state = "completed"
      BY <1>2, <2>1, <2>4, <3>1 DEF Notify!Promises
    <3>2. CASE serving.pc = "end" /\ id = serving.id
      BY <1>2, <2>1, <2>4, <3>2 DEF Notify!Promises, Notify!Job
    <3> QED
      BY <1>2, <2>4, <3>1, <3>2
  <2>5. \A id \in DOMAIN jobs : jobs'[id].state # "failed"
    BY <1>2, <2>1 DEF Notify!Promises
  <2>6. ASSUME NEW r \in Group, booking'[r].owed # "nothing"
        PROVE  Notify!Promised(r, last)'
    <3>1. Notify!Promised(r, last)
      BY <2>1, <2>6 DEF Notify!Promises
    <3>2. CASE Notify!Told(r)
      BY <1>2, <3>2 DEF Notify!Promised
    <3>3. ASSUME NEW l \in listener, NEW i \in DOMAIN l.left, Notify!Tells(l.left[i], l.round, r, last)
          PROVE  Notify!Promised(r, last)'
      <4>1. l \in listener' /\ Notify!Tells(l.left[i], l.round, r, last)'
        BY <3>3 DEF Notify!Tells
      <4> QED
        BY <4>1 DEF Notify!Promised
    <3>4. ASSUME NEW id \in DOMAIN jobs, jobs[id].state \in {"waiting", "active"},
                 Notify!Tells(jobs[id].notice, jobs[id].round, r, last)
          PROVE  Notify!Promised(r, last)'
      <4>1. CASE jobs'[id].state = "completed"
        BY <2>4, <3>4, <4>1 DEF Notify!Promised
      <4>2. CASE jobs'[id].state \in {"waiting", "active"}
        BY <2>3, <3>4, <4>2 DEF Notify!Promised
      <4> QED
        BY <2>5, <4>1, <4>2
    <3> QED
      BY <3>1, <3>2, <3>3, <3>4 DEF Notify!Promised
  <2>7. \A id \in DOMAIN jobs', s \in Group :
          (jobs[id].state = "completed" /\ Notify!Tells(jobs[id].notice, jobs[id].round, s, last))'
            => Notify!Told(s)'
    BY <2>3, <2>4
  <2>8. Notify!Promises(last)'
    BY <2>2, <2>5, <2>6, <2>7 DEF Notify!Promises, TurnPromises, InboxPromises
  <2> QED
    BY <2>8
<1> QED
  BY <1>1, <1>2 DEF Notify!NothingIsForgotten

\* Nothing was sent, and the serving is not about to say that it told.
LEMMA Silent ==
  ASSUME Notify!NothingIsForgotten, UNCHANGED <<booking, inbox>>
  PROVE  /\ Notify!WellSent'
         /\ \A r \in Group : Notify!Told(r) => Notify!Told(r)'
         /\ \A last : Notify!Promises(last) => InboxPromises(last)'
<1>1. Notify!WellSent'
  BY FinalStays DEF Notify!NothingIsForgotten, Notify!Truthful
<1>2. \A r \in Group : Notify!Told(r) => Notify!Told(r)'
  BY DEF Notify!Told
<1>3. ASSUME NEW last, Notify!Promises(last)
      PROVE  InboxPromises(last)'
  BY <1>3 DEF Notify!Promises, InboxPromises
<1> QED
  BY <1>1, <1>2, <1>3

LEMMA TakeTells ==
  ASSUME Naming, Notify!NothingIsForgotten, NEW id \in DOMAIN jobs, Notify!Take(id)
  PROVE  Notify!NothingIsForgotten'
<1>1. /\ jobs' = [jobs EXCEPT ![id].state = "active", ![id].made = @ + 1]
      /\ serving' = [pc |-> "read", id |-> id, about |-> {}]
      /\ UNCHANGED <<booking, listener, inbox, settings, trouble>>
  BY DEF Notify!Take
<1>2. \A other \in DOMAIN jobs : JobRecord(jobs[other])
  BY DEF Naming, Shapes
<1>3. /\ DOMAIN jobs' = DOMAIN jobs
      /\ \A other \in DOMAIN jobs :
           /\ jobs'[other].notice = jobs[other].notice /\ jobs'[other].round = jobs[other].round
           /\ jobs'[other].state = IF other = id THEN "active" ELSE jobs[other].state
  BY <1>1, <1>2 DEF JobRecord
<1>4. \A last : TurnPromises(last)'
  BY <1>1 DEF TurnPromises
<1>5. Notify!TurnTells'
  BY <1>1 DEF Notify!TurnTells
<1>6. trouble' = [faults |-> trouble'.faults, lost |-> trouble'.lost] /\ trouble' = trouble
  BY <1>1 DEF Notify!NothingIsForgotten, Notify!Truthful
<1>7. \A other \in DOMAIN jobs : jobs[other].state \in {"waiting", "active", "completed", "failed"}
  BY DEF Notify!NothingIsForgotten, Notify!Truthful
<1> QED
  BY <1>1, <1>3, <1>4, <1>5, <1>6, <1>7, Silent, WorkerTells

\* What a notice tells of is still so when it is read.
LEMMA StillApplies ==
  ASSUME Notify!OwedIsTrue, NEW n, Notify!WellMade(n)
  PROVE  /\ n.kind \in Notify!Cancellations => Notify!Applies(n) = n.about
         /\ n.kind = "confirmed" => Notify!Applies(n) = {r \in Group : booking[r].owed = "confirmed"}
         /\ \A last, round : \A r \in Group : Notify!Tells(n, round, r, last) => r \in Notify!Applies(n) /\ Notify!Wanted(n)
<1>1. ASSUME n.kind \in Notify!Cancellations
      PROVE  Notify!Applies(n) = n.about
  <2>1. /\ n.about \subseteq Group
        /\ \A r \in n.about : booking[r].owed = n.kind /\ booking[r].status = "CANCELADA"
                              /\ booking[r].source = IF n.kind = "cancelledByAdmin" THEN "ADMIN"
                                                     ELSE "CLIENT"
    BY <1>1 DEF Notify!WellMade, Notify!OwedIsTrue
  <2>2. CASE n.kind = "cancelledByAdmin"
    BY <2>1, <2>2 DEF Notify!Applies, Notify!AdminCancellationApplies
  <2>3. CASE n.kind = "cancelledByClient"
    BY <2>1, <2>3 DEF Notify!Applies, Notify!ClientCancellationApplies, Notify!Cancelled
  <2> QED
    BY <1>1, <2>2, <2>3 DEF Notify!Cancellations
<1>2. ASSUME n.kind = "confirmed"
      PROVE  Notify!Applies(n) = {r \in Group : booking[r].owed = "confirmed"}
  BY <1>2 DEF Notify!Applies, Notify!ConfirmationApplies, Notify!OwedIsTrue
<1>3. ASSUME NEW last, NEW round, NEW r \in Group, Notify!Tells(n, round, r, last)
      PROVE  r \in Notify!Applies(n) /\ Notify!Wanted(n)
  <2>1. r \in Notify!Applies(n)
    BY <1>1, <1>2, <1>3 DEF Notify!Tells
  <2>2. n.to = "client"
    BY <1>3 DEF Notify!Tells, Notify!WellMade
  <2> QED
    BY <2>1, <2>2 DEF Notify!Wanted
<1> QED
  BY <1>1, <1>2, <1>3

LEMMA ReadTells ==
  ASSUME Naming, Notify!NothingIsForgotten, Notify!Read
  PROVE  Notify!NothingIsForgotten'
<1>1. serving.id \in DOMAIN jobs /\ serving = [pc |-> serving.pc, id |-> serving.id, about |-> serving.about]
  BY DEF Notify!Read, Naming, Shapes
<1>2. PICK n : n = jobs[serving.id].notice
  OBVIOUS
<1>3. /\ serving'.id = serving.id /\ serving'.about = Notify!Applies(n)
      /\ serving'.pc = IF Notify!Wanted(n) THEN "send" ELSE "end"
      /\ UNCHANGED <<booking, listener, jobs, inbox, settings, trouble>>
  BY <1>1, <1>2 DEF Notify!Read, Notify!Job
<1>4. Notify!WellMade(n) /\ Notify!OwedIsTrue
  BY <1>1, <1>2 DEF Notify!NothingIsForgotten, Notify!Truthful
<1>5. Notify!TurnTells'
  <2>1. n.kind \in Notify!Cancellations => serving'.about = n.about
    BY <1>3, <1>4, StillApplies
  <2>2. ASSUME n.kind = "confirmed", NEW i \in DOMAIN inbox, inbox[i].kind \in Notify!Cancellations
        PROVE  inbox[i].about \cap serving'.about = {}
    <3>1. serving'.about = {r \in Group : booking[r].owed = "confirmed"}
      BY <1>3, <1>4, <2>2, StillApplies
    <3>2. \A r \in inbox[i].about : booking[r].owed = inbox[i].kind
      BY <2>2 DEF Notify!NothingIsForgotten, Notify!Truthful, Notify!WellSent
    <3> QED
      BY <2>2, <3>1, <3>2 DEF Notify!Cancellations
  <2>3. Notify!Job'.notice = n
    BY <1>2, <1>3 DEF Notify!Job
  <2> QED
    BY <1>3, <2>1, <2>2, <2>3 DEF Notify!TurnTells
<1>6. ASSUME NEW last
      PROVE  TurnPromises(last)'
  <2>1. ASSUME NEW r \in Group, Notify!Tells(Notify!Job.notice, Notify!Job.round, r, last)'
        PROVE  serving'.pc = "send" /\ r \in serving'.about
    <3>1. PICK round : round = jobs[serving.id].round
      OBVIOUS
    <3>2. Notify!Tells(n, round, r, last)
      BY <1>2, <1>3, <2>1, <3>1 DEF Notify!Tells, Notify!Job
    <3> QED
      BY <1>3, <1>4, <3>2, StillApplies
  <2> QED
    BY <2>1 DEF TurnPromises
<1>7. trouble' = [faults |-> trouble'.faults, lost |-> trouble'.lost] /\ trouble' = trouble
  BY <1>3 DEF Notify!NothingIsForgotten, Notify!Truthful
<1>8. \A id \in DOMAIN jobs : jobs[id].state \in {"waiting", "active", "completed", "failed"}
  BY DEF Notify!NothingIsForgotten, Notify!Truthful
<1> QED
  BY <1>3, <1>5, <1>6, <1>7, <1>8, Silent, WorkerTells

\* What Conduit was asked to send was told, by this call or by an earlier one of its key.
LEMMA DeliveredTells ==
  ASSUME Naming, Notify!NothingIsForgotten, serving.pc \in {"send", "mail"}, UNCHANGED booking,
         inbox' \in {inbox, Notify!Delivered}
  PROVE  /\ Notify!WellSent'
         /\ \A r \in Group : Notify!Told(r) => Notify!Told(r)'
         /\ \A last : Notify!Promises(last) => InboxPromises(last)'
         /\ \A last : Notify!Promises(last) /\ inbox' = Notify!Delivered /\ ~Notify!Stale =>
              \A r \in Group : Notify!Tells(Notify!Job.notice, Notify!Job.round, r, last) => Notify!Told(r)'
<1>1. PICK n, round : n = Notify!Job.notice /\ round = Notify!Job.round
  OBVIOUS
<1>2. serving.id \in DOMAIN jobs /\ n.id = serving.id /\ IsSeq(inbox) /\ Len(inbox) \in Nat
      /\ DOMAIN inbox = 1 .. Len(inbox)
  BY <1>1, SeqOfItself DEF Naming, Shapes, Notify!Job
<1>3. Notify!WellMade(n) /\ Notify!WellSent
  BY <1>1, <1>2 DEF Notify!NothingIsForgotten, Notify!Truthful, Notify!Job
<1>4. /\ serving.pc = "mail" => n.kind \notin {"confirmed"} \cup Notify!Cancellations
      /\ serving.pc = "send" /\ n.kind \in Notify!Cancellations => serving.about = n.about
      /\ serving.pc = "send" /\ n.kind = "confirmed" =>
           \A i \in DOMAIN inbox :
             inbox[i].kind \in Notify!Cancellations => inbox[i].about \cap serving.about = {}
  BY <1>1, <1>3 DEF Notify!NothingIsForgotten, Notify!Truthful, Notify!TurnTells, Notify!WellMade
<1>5. PICK m : m = [key |-> Notify!Key, kind |-> n.kind, to |-> n.to, about |-> serving.about,
                    round |-> round, channel |-> Notify!Channel]
  OBVIOUS
<1>6. m.kind = n.kind /\ m.about = serving.about /\ m.round = round /\ m.key[1] = n.id /\ m.key = Notify!Key
  BY <1>2, <1>5 DEF Notify!Key
<1>7. \/ inbox' = inbox
      \/ inbox' = Append(inbox, m) /\ ~ \E i \in DOMAIN inbox : inbox[i].key = Notify!Key
  BY <1>1, <1>5 DEF Notify!Delivered
<1>8. \/ inbox' = inbox
      \/ /\ DOMAIN inbox' = 1 .. Len(inbox) + 1
         /\ inbox'[Len(inbox) + 1] = m /\ \A i \in DOMAIN inbox : inbox'[i] = inbox[i]
  <2>1. PICK S : inbox \in Seq(S)
    BY <1>2 DEF IsSeq
  <2> QED
    BY <1>7, <2>1
<1>9. \A i \in DOMAIN inbox' : \/ i \in DOMAIN inbox /\ inbox'[i] = inbox[i]
                               \/ i = Len(inbox) + 1 /\ inbox'[i] = m
  BY <1>2, <1>8
<1>10. \A i \in DOMAIN inbox : i \in DOMAIN inbox' /\ inbox'[i] = inbox[i] /\ i < Len(inbox) + 1
  BY <1>2, <1>8
<1>11. Notify!WellSent'
  <2> SUFFICES ASSUME NEW i \in DOMAIN inbox', inbox'[i].kind \in Notify!Cancellations
               PROVE  /\ inbox'[i].key[1] = <<"client-cancelled", inbox'[i].about>>
                      /\ inbox'[i].about \subseteq Group
                      /\ \A r \in inbox'[i].about : booking[r].owed = inbox'[i].kind
                      /\ \A k \in DOMAIN inbox' : i < k /\ inbox'[k].kind = "confirmed"
                           => inbox'[i].about \cap inbox'[k].about = {}
    BY DEF Notify!WellSent
  <2>1. CASE i \in DOMAIN inbox /\ inbox'[i] = inbox[i]
    <3>1. /\ inbox[i].key[1] = <<"client-cancelled", inbox[i].about>>
          /\ inbox[i].about \subseteq Group
          /\ \A r \in inbox[i].about : booking[r].owed = inbox[i].kind
      BY <1>3, <2>1 DEF Notify!WellSent
    <3>2. ASSUME NEW k \in DOMAIN inbox', i < k, inbox'[k].kind = "confirmed"
          PROVE  inbox[i].about \cap inbox'[k].about = {}
      <4>1. CASE k \in DOMAIN inbox /\ inbox'[k] = inbox[k]
        BY <1>3, <2>1, <3>2, <4>1 DEF Notify!WellSent
      <4>2. CASE inbox'[k] = m
        BY <1>4, <1>6, <2>1, <3>2, <4>2
      <4> QED
        BY <1>9, <4>1, <4>2
    <3> QED
      BY <2>1, <3>1, <3>2
  <2>2. CASE i = Len(inbox) + 1 /\ inbox'[i] = m
    <3>1. m.kind \in Notify!Cancellations /\ m.about = n.about
      BY <1>4, <1>6, <2>2
    <3>2. \A k \in DOMAIN inbox' : ~ (i < k)
      BY <1>2, <1>9, <2>2
    <3> QED
      BY <1>3, <1>6, <2>2, <3>1, <3>2 DEF Notify!WellMade
  <2> QED
    BY <1>9, <2>1, <2>2
<1>12. \A r \in Group : Notify!Told(r) => Notify!Told(r)'
  BY <1>10 DEF Notify!Told
<1>13. ASSUME NEW last, Notify!Promises(last)
       PROVE  InboxPromises(last)'
  <2> SUFFICES ASSUME NEW i \in DOMAIN inbox', NEW r \in Group, inbox'[i].kind = "confirmed",
                      inbox'[i].round + 1 = last, booking[r].owed = "confirmed"
               PROVE  r \in inbox'[i].about
    BY DEF InboxPromises
  <2>1. CASE i \in DOMAIN inbox /\ inbox'[i] = inbox[i]
    BY <1>13, <2>1 DEF Notify!Promises
  <2>2. CASE inbox'[i] = m
    <3>1. serving.pc = "send"
      BY <1>4, <1>6, <2>2
    <3>2. Notify!Tells(n, round, r, last)
      BY <1>6, <2>2 DEF Notify!Tells
    <3> QED
      BY <1>1, <1>6, <1>13, <2>2, <3>1, <3>2 DEF Notify!Promises
  <2> QED
    BY <1>9, <2>1, <2>2
<1>14. ASSUME NEW last, Notify!Promises(last), inbox' = Notify!Delivered, ~Notify!Stale, NEW r \in Group,
              Notify!Tells(Notify!Job.notice, Notify!Job.round, r, last)
       PROVE  Notify!Told(r)'
  <2>1. Notify!Tells(n, round, r, last)
    BY <1>1, <1>14
  <2>2. n.kind \in {"confirmed"} \cup Notify!Cancellations /\ n.kind = booking[r].owed
    BY <2>1 DEF Notify!Tells
  <2>3. serving.pc = "send" /\ r \in serving.about
    BY <1>4, <1>14, <2>2 DEF Notify!Promises
  <2>4. CASE inbox' # inbox
    <3>1. Len(inbox) + 1 \in DOMAIN inbox' /\ inbox'[Len(inbox) + 1] = m
      BY <1>2, <1>8, <2>4
    <3> QED
      BY <1>6, <2>2, <2>3, <3>1 DEF Notify!Told
  <2>5. CASE inbox' = inbox
    <3>1. PICK i \in DOMAIN inbox : inbox[i].key = Notify!Key
      <4>1. CASE inbox' = Append(inbox, m)
        BY <1>2, <1>8, <2>5, <4>1, Longer
      <4> QED
        BY <1>1, <1>5, <1>14, <4>1 DEF Notify!Delivered
    <3>2. inbox[i].round = round
      BY <1>1, <1>14, <3>1 DEF Notify!Stale
    <3>3. inbox[i].kind = n.kind /\ inbox[i].key[1] = n.id
      <4>1. inbox[i].key = <<inbox[i].key[1], inbox[i].kind, inbox[i].channel>>
        BY DEF Naming, OneKey
      <4>2. <<inbox[i].key[1], inbox[i].kind, inbox[i].channel>> = <<serving.id, n.kind, Notify!Channel>>
        BY <1>1, <3>1, <4>1 DEF Notify!Key
      <4> QED
        BY <1>2, <4>2
    <3>4. r \in inbox[i].about
      <4>1. CASE n.kind = "confirmed"
        BY <1>14, <2>1, <2>2, <3>2, <3>3, <4>1 DEF Notify!Promises, Notify!Tells
      <4>2. CASE n.kind \in Notify!Cancellations
        <5>1. <<"client-cancelled", inbox[i].about>> = <<"client-cancelled", n.about>>
          BY <1>3, <3>3, <4>2 DEF Notify!WellMade, Notify!WellSent
        <5>2. inbox[i].about = n.about
          BY <5>1
        <5> QED
          BY <1>4, <2>3, <4>2, <5>2
      <4> QED
        BY <2>2, <4>1, <4>2
    <3> QED
      BY <2>2, <2>5, <3>3, <3>4 DEF Notify!Told
  <2> QED
    BY <2>4, <2>5
<1> QED
  BY <1>11, <1>12, <1>13, <1>14
\* A job gets another state, and the worker takes the next one.
LEMMA PutTells ==
  ASSUME Naming, serving.pc # "idle", NEW state, jobs' = Notify!Put(serving.id, "state", state)
  PROVE  /\ DOMAIN jobs' = DOMAIN jobs
         /\ \A id \in DOMAIN jobs :
              /\ jobs'[id].notice = jobs[id].notice /\ jobs'[id].round = jobs[id].round
              /\ jobs'[id].state = IF id = serving.id THEN state ELSE jobs[id].state
<1>1. \A id \in DOMAIN jobs : JobRecord(jobs[id])
  BY DEF Naming, Shapes
<1>2. DOMAIN jobs' = DOMAIN jobs
      /\ \A id \in DOMAIN jobs :
           jobs'[id] = IF id = serving.id THEN [jobs[id] EXCEPT !["state"] = state] ELSE jobs[id]
  BY DEF Notify!Put
<1> QED
  BY <1>1, <1>2 DEF JobRecord

\* The serving is over, and tells nothing any more.
LEMMA TurnIsOver ==
  ASSUME serving' = Notify!Idle
  PROVE  Notify!TurnTells' /\ \A last : TurnPromises(last)'
<1>1. serving'.pc = "idle"
  BY DEF Notify!Idle
<1> QED
  BY <1>1 DEF Notify!TurnTells, TurnPromises

LEMMA SendTells ==
  ASSUME Naming, Notify!NothingIsForgotten, Notify!Send
  PROVE  Notify!NothingIsForgotten'
<1>1. serving.id \in DOMAIN jobs /\ serving = [pc |-> serving.pc, id |-> serving.id, about |-> serving.about]
  BY DEF Notify!Send, Naming, Shapes
<1>2. /\ serving.pc \in {"send", "mail"} /\ inbox' = Notify!Delivered
      /\ serving'.id = serving.id
      /\ serving'.pc = IF serving.pc = "send" /\ Notify!Job.notice.to # "client" THEN "mail" ELSE "end"
      /\ trouble' = [trouble EXCEPT !.lost = @ \/ Notify!Stale]
      /\ UNCHANGED <<booking, listener, jobs, settings>>
  BY <1>1 DEF Notify!Send
<1>3. /\ trouble' = [faults |-> trouble'.faults, lost |-> trouble'.lost]
      /\ ~trouble'.lost => ~trouble.lost /\ ~Notify!Stale
  BY <1>2 DEF Notify!NothingIsForgotten, Notify!Truthful
<1>4. Notify!Job' = Notify!Job
  BY <1>2 DEF Notify!Job
<1>5. Notify!TurnTells'
  BY <1>2, <1>4 DEF Notify!TurnTells
<1>6. ASSUME NEW last, Notify!Promises(last), ~trouble'.lost
      PROVE  TurnPromises(last)'
  <2>1. ASSUME serving'.pc = "end", NEW r \in Group, Notify!Tells(Notify!Job.notice, Notify!Job.round, r, last)'
        PROVE  Notify!Told(r)'
    <3>1. Notify!Tells(Notify!Job.notice, Notify!Job.round, r, last)
      BY <1>2, <1>4, <2>1 DEF Notify!Tells
    <3> QED
      BY <1>2, <1>3, <1>6, <3>1, DeliveredTells
  <2> QED
    BY <1>2, <2>1 DEF TurnPromises
<1>7. \A id \in DOMAIN jobs : jobs[id].state \in {"waiting", "active", "completed", "failed"}
  BY DEF Notify!NothingIsForgotten, Notify!Truthful
<1> QED
  BY <1>2, <1>3, <1>5, <1>6, <1>7, DeliveredTells, WorkerTells

LEMMA SendFailsTells ==
  ASSUME Naming, Notify!NothingIsForgotten, Notify!SendFails
  PROVE  Notify!NothingIsForgotten'
<1>1. PICK state : state = IF Notify!Job.made < Attempts THEN "waiting" ELSE "failed"
  OBVIOUS
<1>2. /\ serving.pc \in {"send", "mail"} /\ inbox' \in {inbox, Notify!Delivered}
      /\ jobs' = Notify!Put(serving.id, "state", state) /\ serving' = Notify!Idle
      /\ trouble' = [faults |-> trouble.faults + 1, lost |-> trouble.lost \/ ~ (Notify!Job.made < Attempts)]
      /\ UNCHANGED <<booking, listener, settings>>
  BY <1>1 DEF Notify!SendFails, Notify!Troubled
<1>3. /\ trouble' = [faults |-> trouble'.faults, lost |-> trouble'.lost]
      /\ ~trouble'.lost => ~trouble.lost /\ state = "waiting"
  BY <1>1, <1>2
<1>4. \A id \in DOMAIN jobs : jobs[id].state \in {"waiting", "active", "completed", "failed"}
  BY DEF Notify!NothingIsForgotten, Notify!Truthful
<1>5. serving.pc # "idle" /\ state \in {"waiting", "failed"}
  BY <1>1, <1>2
<1> QED
  BY <1>2, <1>3, <1>4, <1>5, DeliveredTells, PutTells, TurnIsOver, WorkerTells

LEMMA SendRefusedTells ==
  ASSUME Naming, Notify!NothingIsForgotten, Notify!SendRefused
  PROVE  Notify!NothingIsForgotten'
<1>1. /\ serving.pc \in {"send", "mail"} /\ UNCHANGED <<booking, listener, inbox, settings>>
      /\ trouble' = [faults |-> trouble.faults + 1, lost |-> trouble.lost \/ serving.pc = "send"]
  BY DEF Notify!SendRefused, Notify!Troubled
<1>2. /\ trouble' = [faults |-> trouble'.faults, lost |-> trouble'.lost]
      /\ ~trouble'.lost => ~trouble.lost /\ serving.pc = "mail"
  BY <1>1
<1>3. \A id \in DOMAIN jobs : jobs[id].state \in {"waiting", "active", "completed", "failed"}
  BY DEF Notify!NothingIsForgotten, Notify!Truthful
<1>4. CASE serving.pc = "send"
  <2>1. jobs' = Notify!Put(serving.id, "state", "failed") /\ serving' = Notify!Idle /\ serving.pc # "idle"
    BY <1>4 DEF Notify!SendRefused
  <2> QED
    BY <1>1, <1>2, <1>3, <1>4, <2>1, PutTells, TurnIsOver, Silent, WorkerTells
<1>5. CASE serving.pc = "mail"
  <2>1. serving.id \in DOMAIN jobs /\ serving = [pc |-> serving.pc, id |-> serving.id, about |-> serving.about]
    BY <1>5 DEF Naming, Shapes
  <2>2. serving'.pc = "end" /\ serving'.id = serving.id /\ UNCHANGED jobs
    BY <1>5, <2>1 DEF Notify!SendRefused
  <2>3. PICK n : n = Notify!Job.notice
    OBVIOUS
  <2>4. n = Notify!Job'.notice /\ n.kind \notin {"confirmed"} \cup Notify!Cancellations
    BY <1>5, <2>1, <2>2, <2>3 DEF Notify!NothingIsForgotten, Notify!Truthful, Notify!TurnTells, Notify!WellMade, Notify!Job
  <2>5. Notify!TurnTells'
    BY <2>2 DEF Notify!TurnTells
  <2>6. \A last : TurnPromises(last)'
    BY <2>4 DEF TurnPromises, Notify!Tells
  <2> QED
    BY <1>1, <1>2, <1>3, <2>2, <2>5, <2>6, Silent, WorkerTells
<1> QED
  BY <1>1, <1>4, <1>5

LEMMA EndTells ==
  ASSUME Naming, Notify!NothingIsForgotten, Notify!End
  PROVE  Notify!NothingIsForgotten'
<1>1. /\ serving.pc = "end" /\ serving.pc # "idle" /\ jobs' = Notify!Put(serving.id, "state", "completed")
      /\ serving' = Notify!Idle /\ UNCHANGED <<booking, listener, inbox, settings, trouble>>
  BY DEF Notify!End
<1>2. trouble' = [faults |-> trouble'.faults, lost |-> trouble'.lost] /\ trouble' = trouble
  BY <1>1 DEF Notify!NothingIsForgotten, Notify!Truthful
<1>3. \A id \in DOMAIN jobs : jobs[id].state \in {"waiting", "active", "completed", "failed"}
  BY DEF Notify!NothingIsForgotten, Notify!Truthful
<1> QED
  BY <1>1, <1>2, <1>3, PutTells, TurnIsOver, Silent, WorkerTells

LEMMA DieTells ==
  ASSUME Naming, Notify!NothingIsForgotten, Notify!Die
  PROVE  Notify!NothingIsForgotten'
<1>1. /\ jobs' = Notify!Put(serving.id, "state", "waiting") /\ serving' = Notify!Idle /\ serving.pc # "idle"
      /\ trouble' = [faults |-> trouble.faults + 1, lost |-> trouble.lost \/ FALSE]
      /\ UNCHANGED <<booking, listener, inbox, settings>>
  BY DEF Notify!Die, Notify!Troubled, Naming, Shapes
<1>2. /\ trouble' = [faults |-> trouble'.faults, lost |-> trouble'.lost]
      /\ ~trouble'.lost => ~trouble.lost
  BY <1>1
<1>3. \A id \in DOMAIN jobs : jobs[id].state \in {"waiting", "active", "completed", "failed"}
  BY DEF Notify!NothingIsForgotten, Notify!Truthful
<1> QED
  BY <1>1, <1>2, <1>3, PutTells, TurnIsOver, Silent, WorkerTells

\* What is forgotten was told, or given up.
LEMMA ForgetTells ==
  ASSUME Naming, Notify!NothingIsForgotten, NEW id \in DOMAIN jobs, Notify!Forget(id)
  PROVE  Notify!NothingIsForgotten'
<1>1. /\ jobs[id].state \in {"completed", "failed"} /\ DOMAIN jobs' = DOMAIN jobs \ {id}
      /\ \A other \in DOMAIN jobs' : jobs'[other] = jobs[other]
      /\ UNCHANGED <<booking, listener, serving, inbox, settings, trouble>>
  BY DEF Notify!Forget
<1>2. serving.pc # "idle" => serving.id \in DOMAIN jobs'
  BY <1>1 DEF Naming, Shapes
<1>3. serving.pc # "idle" => Notify!Job' = Notify!Job
  BY <1>1, <1>2 DEF Notify!Job
<1>4. Notify!WellSent' /\ \A last : Notify!Promises(last) => InboxPromises(last)'
  BY <1>1, Silent
<1>5. Notify!Truthful'
  <2>1. ASSUME NEW other \in DOMAIN jobs'
        PROVE  /\ Notify!WellMade(jobs[other].notice)'
               /\ jobs'[other].state \in {"waiting", "active", "completed", "failed"}
    BY <1>1 DEF Notify!NothingIsForgotten, Notify!Truthful, Notify!WellMade
  <2>2. \A l \in listener' : \A i \in DOMAIN l.left : Notify!WellMade(l.left[i])'
    BY <1>1 DEF Notify!NothingIsForgotten, Notify!Truthful, Notify!WellMade
  <2>3. Notify!TurnTells'
    BY <1>1, <1>3 DEF Notify!NothingIsForgotten, Notify!Truthful, Notify!TurnTells
  <2>4. Notify!OwedIsTrue'
    BY <1>1 DEF Notify!NothingIsForgotten, Notify!Truthful, Notify!OwedIsTrue
  <2> QED
    BY <1>1, <1>4, <2>1, <2>2, <2>3, <2>4 DEF Notify!NothingIsForgotten, Notify!Truthful
<1>6. ASSUME NEW last, Notify!Promises(last)
      PROVE  Notify!Promises(last)'
  <2>1. \A r \in Group : Notify!Told(r)' <=> Notify!Told(r)
    BY <1>1 DEF Notify!Told
  <2>2. \A n, round : \A r \in Group : Notify!Tells(n, round, r, last)' <=> Notify!Tells(n, round, r, last)
    BY <1>1 DEF Notify!Tells
  <2>3. ASSUME NEW other \in DOMAIN jobs', NEW r \in Group
        PROVE  Notify!Tells(jobs[other].notice, jobs[other].round, r, last)'
                        <=> Notify!Tells(jobs[other].notice, jobs[other].round, r, last)
    BY <1>1 DEF Notify!Tells
  <2>4. ASSUME NEW r \in Group, booking'[r].owed # "nothing"
        PROVE  Notify!Promised(r, last)'
    <3>1. Notify!Promised(r, last)
      BY <1>1, <1>6, <2>4 DEF Notify!Promises
    <3>2. CASE Notify!Told(r)
      BY <2>1, <3>2 DEF Notify!Promised
    <3>3. ASSUME NEW l \in listener, NEW i \in DOMAIN l.left, Notify!Tells(l.left[i], l.round, r, last)
          PROVE  Notify!Promised(r, last)'
      <4>1. l \in listener' /\ Notify!Tells(l.left[i], l.round, r, last)'
        BY <1>1, <2>2, <3>3
      <4> QED
        BY <4>1 DEF Notify!Promised
    <3>4. ASSUME NEW other \in DOMAIN jobs, jobs[other].state \in {"waiting", "active"},
                 Notify!Tells(jobs[other].notice, jobs[other].round, r, last)
          PROVE  Notify!Promised(r, last)'
      <4>1. other \in DOMAIN jobs' /\ jobs'[other].state \in {"waiting", "active"}
        BY <1>1, <3>4
      <4> QED
        BY <2>3, <3>4, <4>1 DEF Notify!Promised
    <3> QED
      BY <3>1, <3>2, <3>3, <3>4 DEF Notify!Promised
  <2>5. \A other \in DOMAIN jobs', r \in Group :
          (jobs[other].state = "completed"
             /\ Notify!Tells(jobs[other].notice, jobs[other].round, r, last))' => Notify!Told(r)'
    BY <1>1, <1>6, <2>1, <2>3 DEF Notify!Promises
  <2>6. TurnPromises(last)'
    <3>1. ASSUME serving.pc \in {"send", "end"}, NEW r \in Group,
                 Notify!Tells(Notify!Job.notice, Notify!Job.round, r, last)'
          PROVE  IF serving.pc = "send" THEN r \in serving.about ELSE Notify!Told(r)
      <4>1. Notify!Tells(Notify!Job.notice, Notify!Job.round, r, last)
        BY <1>1, <1>3, <3>1 DEF Notify!Tells
      <4> QED
        BY <1>6, <3>1, <4>1 DEF Notify!Promises
    <3> QED
      BY <1>1, <2>1, <3>1 DEF TurnPromises
  <2>7. \A other \in DOMAIN jobs' : jobs'[other].state # "failed"
    BY <1>1, <1>6 DEF Notify!Promises
  <2> QED
    BY <1>4, <1>6, <2>4, <2>5, <2>6, <2>7 DEF Notify!Promises, TurnPromises, InboxPromises
<1> QED
  BY <1>1, <1>5, <1>6 DEF Notify!NothingIsForgotten

LEMMA NothingOwedAtFirst == Notify!Init => Notify!NothingIsForgotten
<1> SUFFICES ASSUME Notify!Init
             PROVE  Notify!NothingIsForgotten
  OBVIOUS
<1>1. DOMAIN inbox = {} /\ listener = {} /\ DOMAIN jobs = {} /\ serving.pc = "idle"
      /\ trouble = [faults |-> 0, lost |-> FALSE] /\ settings.round = 0
      /\ \A r \in Group : booking[r] = [status |-> "PENDIENTE", source |-> "NINGUNA",
                                        owed |-> "nothing"]
  BY DEF Notify!Init, Notify!Idle
<1>2. Notify!Truthful
  BY <1>1 DEF Notify!Truthful, Notify!OwedIsTrue, Notify!WellSent, Notify!TurnTells, Notify!Cancellations
<1>3. Notify!Promises(0)
  BY <1>1 DEF Notify!Promises
<1> QED
  BY <1>1, <1>2, <1>3 DEF Notify!NothingIsForgotten

LEMMA NothingIsForgottenByAStep ==
  ASSUME FiniteAdmins, Naming, Notify!NothingIsForgotten, [Notify!Next]_(Notify!vars)
  PROVE  Notify!NothingIsForgotten'
<1>1. CASE Notify!Operations
  BY <1>1, OperationsTell
<1>2. CASE Notify!Handle
  BY <1>2, EnqueueTells DEF Notify!Handle
<1>3. CASE Notify!Work
  BY <1>3, TakeTells, ReadTells, SendTells, EndTells DEF Notify!Work
<1>4. CASE Notify!Failures
  BY <1>4, EnqueueFailsTells, SendFailsTells, SendRefusedTells, DieTells, ForgetTells DEF Notify!Failures
<1>5. CASE UNCHANGED Notify!vars
  BY <1>5, Untouched DEF Notify!vars
<1> QED
  BY <1>1, <1>2, <1>3, <1>4, <1>5 DEF Notify!Next

\* Notices are retried and overtake each other, names and keys are remembered and forgotten,
\* a confirmation is told while it is being cancelled, one message tells of all the
\* reservations of a combo: for any number of them, of recipients, operations, attempts and
\* failures, when all notices are through and none was lost, the last thing the client was
\* told of an appointment is what became of it (booking-notifications, conduit keys).
THEOREM LastWordHolds == ASSUME FiniteAdmins PROVE Notify!Spec => []Notify!LastWordIsTrue
<1> DEFINE Telling == Naming /\ Notify!NothingIsForgotten
<1>1. Notify!Init => Telling
  BY NamingStarts, NothingOwedAtFirst
<1>2. Telling /\ [Notify!Next]_(Notify!vars) => Telling'
  BY NamingStep, NothingIsForgottenByAStep
<1>3. Telling => Notify!LastWordIsTrue
  BY ForgottenTells
<1> QED
  BY <1>1, <1>2, <1>3, PTL DEF Notify!Spec


-----------------------------------------------------------------------------
(* Invitations after a visit                                               *)

MessageRecord == [job : Visits \X Rules, at : Nat]
ExecutionRecord == [rule : Rules, at : Nat]

Untroubled == trouble.faults = 0

FollowUpShapes ==
  /\ now \in Nat /\ trouble \in [faults : Nat]
  /\ inbox \in Seq(MessageRecord)
  /\ executed \subseteq ExecutionRecord
  /\ serving = [pc |-> serving.pc, job |-> serving.job]
  /\ serving.pc = "idle" => serving = Visit!Idle
  /\ serving.pc # "idle" => serving.job \in Visits \X Rules

\* What was sent is recorded, but for the message of the present serving.
Recorded(i) ==
  \/ \E x \in executed : x.at >= inbox[i].at
  \/ serving.pc = "log" /\ i = Len(inbox)

Spacing ==
  Untroubled =>
    /\ \A i \in DOMAIN inbox : inbox[i].at <= now /\ Recorded(i)
    /\ serving.pc = "send" => \A i \in DOMAIN inbox : inbox[i].at + Cooldown <= now
    /\ \A i, k \in DOMAIN inbox : i < k => inbox[k].at >= inbox[i].at + Cooldown

CooldownIsTime == Cooldown \in Nat

LEMMA SpacingTells == Spacing => Visit!SpacedOut
BY DEF Spacing, Visit!SpacedOut, Untroubled

LEMMA SpacingStarts == Visit!Init => FollowUpShapes /\ Spacing
<1> SUFFICES ASSUME Visit!Init
             PROVE  FollowUpShapes /\ Spacing
  OBVIOUS
<1>1. inbox = <<>> /\ inbox \in Seq(MessageRecord) /\ DOMAIN inbox = {}
  BY DEF Visit!Init
<1>2. serving = Visit!Idle /\ executed = {} /\ trouble = [faults |-> 0] /\ now = 1
  BY DEF Visit!Init
<1> QED
  BY <1>1, <1>2 DEF FollowUpShapes, Spacing, Visit!Idle

\* Nothing is sent or recorded, and no serving begins to send or leaves its record.
LEMMA QuietSteps ==
  ASSUME CooldownIsTime, FollowUpShapes, Spacing, UNCHANGED <<executed, inbox>>,
         now' \in Nat, now <= now', trouble' = trouble,
         serving'.pc # serving.pc => serving.pc # "log" /\ serving'.pc \notin {"send", "log"}
  PROVE  Spacing'
<1>1. now \in Nat /\ now' \in Nat /\ now <= now' /\ Cooldown \in Nat
  BY DEF FollowUpShapes, CooldownIsTime
<1>2. inbox \in Seq(MessageRecord)
  BY DEF FollowUpShapes
<1>3. \A i \in DOMAIN inbox : inbox[i] \in MessageRecord
  BY <1>2
<1>4. \A i \in DOMAIN inbox : inbox[i].at \in Nat
  BY <1>3 DEF MessageRecord
<1>5. CASE ~Untroubled
  BY <1>5 DEF Spacing, Untroubled
<1>6. CASE Untroubled
  <2>1. /\ \A i \in DOMAIN inbox : inbox[i].at <= now /\ Recorded(i)
        /\ serving.pc = "send" => \A i \in DOMAIN inbox : inbox[i].at + Cooldown <= now
        /\ \A i, k \in DOMAIN inbox : i < k => inbox[k].at >= inbox[i].at + Cooldown
    BY <1>6 DEF Spacing
  <2>2. \A i \in DOMAIN inbox : inbox[i].at <= now'
    BY <2>1, <1>1, <1>4
  <2>3. \A i \in DOMAIN inbox : Recorded(i)'
    BY <2>1 DEF Recorded
  <2>4. serving'.pc = "send" => \A i \in DOMAIN inbox : inbox[i].at + Cooldown <= now'
    BY <2>1, <1>1, <1>4
  <2> QED
    BY <2>1, <2>2, <2>3, <2>4 DEF Spacing
<1> QED
  BY <1>5, <1>6

\* After a failure nothing is said.
LEMMA FaultsRelease ==
  ASSUME FollowUpShapes, Visit!Fault
  PROVE  trouble' \in [faults : Nat] /\ ~Untroubled' /\ Spacing'
BY DEF FollowUpShapes, Visit!Fault, Spacing, Untroubled

LEMMA Checked ==
  ASSUME CooldownIsTime, FollowUpShapes, Spacing, Visit!CheckReactivation
  PROVE  Spacing'
<1>1. now \in Nat /\ Cooldown \in Nat
  BY DEF FollowUpShapes, CooldownIsTime
<1>2. inbox \in Seq(MessageRecord)
  BY DEF FollowUpShapes
<1>3. \A i \in DOMAIN inbox : inbox[i] \in MessageRecord
  BY <1>2
<1>4. \A i \in DOMAIN inbox : inbox[i].at \in Nat
  BY <1>3 DEF MessageRecord
<1>5. UNCHANGED <<executed, inbox, trouble, now>> /\ serving.pc = "read"
  BY DEF Visit!CheckReactivation
<1>6. CASE Visit!Wanted(serving.job[1], serving.job[2])
  <2>1. serving'.pc = "send"
    <3>1. serving' = [serving EXCEPT !.pc = "send"]
      BY <1>6 DEF Visit!CheckReactivation
    <3> QED
      BY <3>1 DEF FollowUpShapes
  <2> SUFFICES ASSUME Untroubled
               PROVE  Spacing'
    BY <1>5 DEF Spacing, Untroubled
  <2>2. /\ \A i \in DOMAIN inbox : inbox[i].at <= now /\ Recorded(i)
        /\ \A i, k \in DOMAIN inbox : i < k => inbox[k].at >= inbox[i].at + Cooldown
    BY DEF Spacing
  <2>3. \A i \in DOMAIN inbox : \E x \in executed : x.at >= inbox[i].at
    BY <2>2, <1>5 DEF Recorded
  <2>4. \A x \in executed : x.at \in Nat
    BY DEF FollowUpShapes, ExecutionRecord
  <2>5. \A x \in executed : ~(x.at + Cooldown > now)
    BY <1>6 DEF Visit!Wanted, Visit!Blocked
  <2>6. \A i \in DOMAIN inbox : inbox[i].at + Cooldown <= now
    BY <1>1, <1>4, <2>3, <2>4, <2>5
  <2>7. \A i \in DOMAIN inbox : Recorded(i)'
    BY <2>3, <1>5 DEF Recorded
  <2> QED
    BY <2>2, <2>6, <2>7, <1>5 DEF Spacing
<1>7. CASE ~Visit!Wanted(serving.job[1], serving.job[2])
  <2>1. serving'.pc = "end"
    <3>1. serving' = [serving EXCEPT !.pc = "end"]
      BY <1>7 DEF Visit!CheckReactivation
    <3> QED
      BY <3>1 DEF FollowUpShapes
  <2> QED
    BY <2>1, <1>1, <1>5, QuietSteps
<1> QED
  BY <1>6, <1>7

\* A new message is at least Cooldown younger than all others.
LEMMA Sent ==
  ASSUME CooldownIsTime, FollowUpShapes, Spacing, Visit!Send
  PROVE  inbox' \in Seq(MessageRecord) /\ Spacing'
<1> DEFINE new == [job |-> serving.job, at |-> now]
<1>1. now \in Nat /\ Cooldown \in Nat /\ serving.pc = "send" /\ new \in MessageRecord
  BY DEF FollowUpShapes, CooldownIsTime, Visit!Send, MessageRecord
<1>2. inbox \in Seq(MessageRecord)
  BY DEF FollowUpShapes
<1>3. \A i \in DOMAIN inbox : inbox[i] \in MessageRecord
  BY <1>2
<1>4. \A i \in DOMAIN inbox : inbox[i].at \in Nat
  BY <1>3 DEF MessageRecord
<1>5. UNCHANGED <<executed, trouble, now>> /\ serving'.pc = "log"
  BY DEF Visit!Send, FollowUpShapes
<1>6. inbox' = inbox \/ inbox' = Append(inbox, new)
  BY DEF Visit!Send, Visit!Delivered
<1>7. new.at = now
  OBVIOUS
<1> HIDE DEF new
<1>8. inbox' \in Seq(MessageRecord)
  BY <1>1, <1>2, <1>6
<1>9. Spacing'
  <2> SUFFICES ASSUME Untroubled
               PROVE  Spacing'
    BY <1>5 DEF Spacing, Untroubled
  <2>1. /\ \A i \in DOMAIN inbox : inbox[i].at <= now /\ Recorded(i)
        /\ \A i \in DOMAIN inbox : inbox[i].at + Cooldown <= now
        /\ \A i, k \in DOMAIN inbox : i < k => inbox[k].at >= inbox[i].at + Cooldown
    BY <1>1 DEF Spacing
  <2>2. \A i \in DOMAIN inbox : \E x \in executed : x.at >= inbox[i].at
    BY <2>1, <1>1 DEF Recorded
  <2>3. CASE inbox' = inbox
    <3>1. \A i \in DOMAIN inbox : Recorded(i)'
      BY <2>2, <2>3, <1>5 DEF Recorded
    <3> QED
      BY <2>1, <2>3, <3>1, <1>5 DEF Spacing
  <2>4. CASE inbox' = Append(inbox, new)
    <3>1. /\ DOMAIN inbox' = 1 .. Len(inbox) + 1 /\ Len(inbox') = Len(inbox) + 1
          /\ DOMAIN inbox = 1 .. Len(inbox) /\ Len(inbox) \in Nat
          /\ inbox'[Len(inbox) + 1] = new
          /\ \A i \in DOMAIN inbox : inbox'[i] = inbox[i]
      BY <2>4, <1>1, <1>2
    <3>2. \A i \in DOMAIN inbox' : i \in DOMAIN inbox \/ i = Len(inbox')
      BY <3>1
    <3>3. \A i \in DOMAIN inbox' : inbox'[i].at <= now
      BY <3>1, <3>2, <2>1, <1>7, <1>1
    <3>4. \A i \in DOMAIN inbox' : Recorded(i)'
      BY <3>1, <3>2, <2>2, <1>5 DEF Recorded
    <3>5. ASSUME NEW i \in DOMAIN inbox', NEW k \in DOMAIN inbox', i < k
          PROVE  inbox'[k].at >= inbox'[i].at + Cooldown
      <4>1. i \in DOMAIN inbox
        BY <3>1, <3>5
      <4>2. CASE k \in DOMAIN inbox
        BY <4>1, <4>2, <3>1, <3>5, <2>1
      <4>3. CASE k = Len(inbox')
        BY <4>1, <4>3, <3>1, <2>1, <1>1, <1>4, <1>7
      <4> QED
        BY <4>2, <4>3, <3>2
    <3> QED
      BY <3>3, <3>4, <3>5, <1>5 DEF Spacing
  <2> QED
    BY <2>3, <2>4, <1>6
<1> QED
  BY <1>8, <1>9

LEMMA Logged ==
  ASSUME CooldownIsTime, FollowUpShapes, Spacing, Visit!Log
  PROVE  executed' \subseteq ExecutionRecord /\ Spacing'
<1> DEFINE x == [rule |-> serving.job[2], at |-> now]
<1>1. now \in Nat /\ serving.pc = "log" /\ serving.job \in Visits \X Rules
  BY DEF FollowUpShapes, Visit!Log
<1>2. UNCHANGED <<inbox, trouble, now>> /\ serving'.pc = "end" /\ executed' = executed \cup {x}
  BY DEF Visit!Log, FollowUpShapes
<1>3. x \in ExecutionRecord /\ x.at = now
  BY <1>1 DEF ExecutionRecord
<1> HIDE DEF x
<1>4. Spacing'
  <2> SUFFICES ASSUME Untroubled
               PROVE  Spacing'
    BY <1>2 DEF Spacing, Untroubled
  <2>1. /\ \A i \in DOMAIN inbox : inbox[i].at <= now
        /\ \A i, k \in DOMAIN inbox : i < k => inbox[k].at >= inbox[i].at + Cooldown
    BY DEF Spacing
  <2>2. inbox \in Seq(MessageRecord)
    BY DEF FollowUpShapes
  <2>3. \A i \in DOMAIN inbox : inbox[i] \in MessageRecord
    BY <2>2
  <2>4. \A i \in DOMAIN inbox : inbox[i].at \in Nat
    BY <2>3 DEF MessageRecord
  <2>5. \A i \in DOMAIN inbox : x.at >= inbox[i].at
    BY <2>1, <2>4, <1>1, <1>3
  <2>6. \A i \in DOMAIN inbox : Recorded(i)'
    BY <2>5, <1>2 DEF Recorded
  <2> QED
    BY <2>1, <2>6, <1>2 DEF Spacing
<1> QED
  BY <1>2, <1>3, <1>4 DEF FollowUpShapes

\* What leaves the mail box, the records, the clock and the failures alone.
LEMMA StillShaped ==
  ASSUME FollowUpShapes, UNCHANGED <<executed, inbox>>, now' \in Nat, trouble' \in [faults : Nat],
         serving' = serving \/ serving' = Visit!Idle
  PROVE  FollowUpShapes'
BY DEF FollowUpShapes, Visit!Idle

LEMMA SpacingStep ==
  ASSUME CooldownIsTime, FollowUpShapes, Spacing, [Visit!Next]_(Visit!vars)
  PROVE  FollowUpShapes' /\ Spacing'
<1>0. now \in Nat /\ trouble \in [faults : Nat]
  BY DEF FollowUpShapes
<1>1. CASE UNCHANGED <<serving, executed, inbox, trouble>> /\ now' \in {now, now + 1}
  <2>1. now' \in Nat /\ now <= now'
    BY <1>0, <1>1
  <2> QED
    BY <1>0, <1>1, <2>1, QuietSteps, StillShaped
<1>2. CASE Visit!Fault /\ UNCHANGED <<executed, now>> /\ (serving' = serving \/ serving' = Visit!Idle)
           /\ inbox' \in Seq(MessageRecord)
  BY <1>2, FaultsRelease DEF FollowUpShapes, Visit!Idle
<1>3. ASSUME NEW j \in Visits \X Rules, Visit!Take(j)
      PROVE  FollowUpShapes' /\ Spacing'
  <2>1. /\ UNCHANGED <<executed, inbox, trouble, now>>
        /\ serving.pc = "idle" /\ serving' = [pc |-> "read", job |-> j]
    BY <1>3 DEF Visit!Take, Visit!Idle
  <2> QED
    BY <1>0, <2>1, QuietSteps DEF FollowUpShapes
<1>4. CASE Visit!CheckReactivation
  <2>1. UNCHANGED <<executed, inbox, trouble, now>> /\ serving.pc = "read"
    BY <1>4 DEF Visit!CheckReactivation
  <2>2. serving'.pc \in {"send", "end"} /\ serving' = [pc |-> serving'.pc, job |-> serving.job]
    BY <1>4 DEF Visit!CheckReactivation, FollowUpShapes
  <2> QED
    BY <1>4, <2>1, <2>2, Checked DEF FollowUpShapes
<1>5. CASE Visit!Send
  <2>1. UNCHANGED <<executed, trouble, now>> /\ serving.pc = "send"
    BY <1>5 DEF Visit!Send
  <2>2. serving'.pc = "log" /\ serving' = [pc |-> serving'.pc, job |-> serving.job]
    BY <1>5 DEF Visit!Send, FollowUpShapes
  <2> QED
    BY <1>5, <2>1, <2>2, Sent DEF FollowUpShapes
<1>6. CASE Visit!Log
  <2>1. UNCHANGED <<inbox, trouble, now>> /\ serving.pc = "log"
    BY <1>6 DEF Visit!Log
  <2>2. serving'.pc = "end" /\ serving' = [pc |-> serving'.pc, job |-> serving.job]
    BY <1>6 DEF Visit!Log, FollowUpShapes
  <2> QED
    BY <1>6, <2>1, <2>2, Logged DEF FollowUpShapes
<1>7. CASE Visit!End
  <2>1. UNCHANGED <<executed, inbox, trouble, now>> /\ serving.pc = "end" /\ serving' = Visit!Idle
    BY <1>7 DEF Visit!End
  <2> QED
    BY <1>0, <2>1, QuietSteps, StillShaped DEF Visit!Idle
<1>8. CASE \E v \in Visits : Visit!Book(v, now + 1) \/ Visit!CallOff(v) \/ Visit!Complete(v) \/ Visit!Handle(v)
  BY <1>1, <1>8 DEF Visit!Book, Visit!CallOff, Visit!Complete, Visit!Handle,
    Visit!FindRules, Visit!QueueCheck
<1>9. inbox \in Seq(MessageRecord)
  BY DEF FollowUpShapes
<1>10. CASE \E v \in Visits : Visit!Lose(v)
  BY <1>2, <1>9, <1>10 DEF Visit!Lose
<1>11. CASE Visit!SendFails
  <2>1. serving.pc = "send" /\ [job |-> serving.job, at |-> now] \in MessageRecord
    BY <1>0, <1>11 DEF Visit!SendFails, FollowUpShapes, MessageRecord
  <2>2. inbox' \in Seq(MessageRecord)
    BY <1>9, <1>11, <2>1 DEF Visit!SendFails, Visit!Delivered
  <2> QED
    BY <1>2, <1>11, <2>2 DEF Visit!SendFails
<1>12. CASE Visit!SendRefused \/ Visit!Die
  BY <1>2, <1>9, <1>12 DEF Visit!SendRefused, Visit!Die
<1>13. CASE Visit!Change \/ Visit!Tick \/ UNCHANGED Visit!vars
  BY <1>1, <1>13 DEF Visit!Change, Visit!Tick, Visit!vars
<1>14. CASE \E j \in Visits \X Rules : Visit!Promote(j)
  BY <1>1, <1>14 DEF Visit!Promote
<1> QED
  BY <1>3, <1>4, <1>5, <1>6, <1>7, <1>8, <1>10, <1>11, <1>12, <1>13, <1>14 DEF Visit!Next,
    Visit!Work

\* While no call is lost, two invitations to a client are a cooldown apart, for any rules,
\* visits and reservations (checkReactivation, the marketing cooldown).
THEOREM FollowUpsAreSpaced ==
  ASSUME CooldownIsTime
  PROVE  Visit!Spec => []Visit!SpacedOut
<1>1. Visit!Init => FollowUpShapes /\ Spacing
  BY SpacingStarts
<1>2. FollowUpShapes /\ Spacing /\ [Visit!Next]_(Visit!vars) => (FollowUpShapes /\ Spacing)'
  BY SpacingStep
<1> QED
  BY <1>1, <1>2, SpacingTells, PTL DEF Visit!Spec

-----------------------------------------------------------------------------
(* Pictures at Cloudinary                                                  *)

\* Requests have numbers, and no picture has one of the three that mean something else.
NumbersArePictures == Admins \subseteq Nat \ {Images!NoPicture, Images!Old, Images!Gone}

AdminOps == {"none", "upload", "removeImage", "update", "removeRow", "removeProduct"}
AdminPcs == {"idle", "upload", "set", "invalidate", "query", "destroy", "undo", "done"}
AdminRecord == [op : AdminOps, pc : AdminPcs, previous : Images!Pictures \cup {Images!NoPicture}]

MediaShapes ==
  /\ shown \in Images!Pictures \cup {Images!NoPicture, Images!Gone}
  /\ admin \in [Admins -> AdminRecord]

\* A request that has written the row, or will not.
Past(a) == admin[a].pc \in {"invalidate", "destroy", "undo", "done"}

PicturesKept ==
  /\ \A a \in Admins : shown = a => Past(a)
  /\ \A a, b \in Admins : admin[b].previous = a => Past(a)
  /\ \A a \in Admins : admin[a].pc \in {"invalidate", "destroy"} => ~Images!Shows(admin[a].previous)
  /\ \A a \in Admins : admin[a].pc = "undo" => shown # a \/ a \in severed
  /\ \A a \in Admins : admin[a].pc = "set" /\ admin[a].op = "upload" => a \in stored
  /\ Images!ShownIsStored

Tidy == {shown} \ {Images!NoPicture, Images!Gone}

\* What a request that nobody disturbs has done so far.
Undisturbed(a) ==
  /\ \A b \in Admins : b \in Images!UnderWay => b = a
  /\ admin[a].pc = "upload" => stored = Tidy /\ admin[a].op = "upload"
  /\ admin[a].pc = "set" =>
       stored = Tidy \cup (IF admin[a].op = "upload" THEN {a} ELSE {})
  /\ admin[a].pc \in {"upload", "set"} => admin[a].previous = shown /\ shown # Images!Gone
  /\ admin[a].pc \in {"invalidate", "destroy"} =>
       stored = {shown, admin[a].previous} \ {Images!NoPicture, Images!Gone}
  /\ admin[a].pc \notin {"undo", "query"}

Alone ==
  ~disturbed =>
    /\ \A a \in Admins : a \in Images!UnderWay => Undisturbed(a)
    /\ Images!UnderWay = {} => stored = Tidy

LEMMA MediaStarts ==
  ASSUME NumbersArePictures, Images!Init
  PROVE  MediaShapes /\ PicturesKept /\ Alone
<1>1. PICK k \in Kinds, picture \in {Images!NoPicture, Images!Old} : Images!Start(k, picture)
  BY DEF Images!Init
<1>2. /\ shown = picture /\ stored = {picture} \ {Images!NoPicture}
      /\ admin = [a \in Admins |-> Images!Idle]
      /\ shown \in {Images!NoPicture, Images!Old}
  BY <1>1 DEF Images!Start
<1>3. \A a \in Admins : a # shown /\ a # Images!NoPicture /\ admin[a] = Images!Idle
  BY <1>2 DEF NumbersArePictures
<1>4. MediaShapes
  BY <1>2 DEF MediaShapes, AdminRecord, AdminOps, AdminPcs, Images!Idle, Images!Pictures
<1>5. \A a \in Admins : admin[a].pc = "idle" /\ admin[a].previous = Images!NoPicture
  BY <1>3 DEF Images!Idle
<1>6. PicturesKept
  BY <1>2, <1>3, <1>5 DEF PicturesKept, Images!ShownIsStored, Images!Shows
<1>7. Images!UnderWay = {}
  BY <1>5 DEF Images!UnderWay
<1>8. Alone
  BY <1>2, <1>7 DEF Alone, Tidy, Images!Old, Images!NoPicture, Images!Gone
<1> QED
  BY <1>4, <1>6, <1>8

\* The record of one request is written.
LEMMA WriteAdmin ==
  ASSUME NumbersArePictures, MediaShapes, NEW a \in Admins, NEW x \in AdminRecord,
         admin' = [admin EXCEPT ![a] = x]
  PROVE  /\ admin' \in [Admins -> AdminRecord]
         /\ admin'[a] = x
         /\ \A b \in Admins \ {a} : admin'[b] = admin[b]
BY DEF MediaShapes

LEMMA Gotos ==
  ASSUME NumbersArePictures, MediaShapes, NEW a \in Admins, NEW pc \in AdminPcs, Images!Goto(a, pc)
  PROVE  /\ admin' \in [Admins -> AdminRecord]
         /\ admin'[a] = [op |-> admin[a].op, pc |-> pc, previous |-> admin[a].previous]
         /\ \A b \in Admins \ {a} : admin'[b] = admin[b]
<1>1. admin[a] \in AdminRecord
  BY DEF MediaShapes
<1>2. admin' = [admin EXCEPT ![a] = [op |-> admin[a].op, pc |-> pc,
                                     previous |-> admin[a].previous]]
  <2>1. admin' = [admin EXCEPT ![a] = [admin[a] EXCEPT !.pc = pc]]
    BY DEF Images!Goto
  <2>2. [admin[a] EXCEPT !.pc = pc] = [op |-> admin[a].op, pc |-> pc,
                                       previous |-> admin[a].previous]
    BY <1>1 DEF AdminRecord
  <2> QED
    BY <2>1, <2>2
<1>3. [op |-> admin[a].op, pc |-> pc, previous |-> admin[a].previous] \in AdminRecord
  BY <1>1 DEF AdminRecord
<1> QED
  BY <1>2, <1>3, WriteAdmin

LEMMA Found ==
  ASSUME NumbersArePictures, MediaShapes, PicturesKept, Alone,
         NEW a \in Admins, NEW op \in AdminOps, Images!Find(a, op)
  PROVE  MediaShapes' /\ PicturesKept' /\ Alone'
<1> DEFINE x == [op |-> op, previous |-> shown,
                 pc |-> IF op = "upload" THEN "upload" ELSE "set"]
<1>1. /\ admin[a].pc = "idle" /\ shown # Images!Gone
      /\ admin' = [admin EXCEPT ![a] = x]
      /\ disturbed' = (disturbed \/ Images!UnderWay # {})
      /\ UNCHANGED <<rowKind, shown, stored, severed>>
  BY DEF Images!Find
<1>2. x \in AdminRecord
  BY <1>1 DEF MediaShapes, AdminRecord, AdminPcs
<1>3. x.op = op /\ x.previous = shown /\ x.pc \in {"upload", "set"} /\ (x.pc = "set" <=> op # "upload")
  OBVIOUS
<1> HIDE DEF x
<1>4. /\ admin' \in [Admins -> AdminRecord] /\ admin'[a] = x
      /\ \A b \in Admins \ {a} : admin'[b] = admin[b]
  BY <1>1, <1>2, WriteAdmin
<1>5. MediaShapes'
  BY <1>1, <1>4 DEF MediaShapes
<1>6. shown # a /\ \A b \in Admins : admin[b].previous # a
  BY <1>1 DEF PicturesKept, Past
<1>7. \A b \in Admins : Past(b) => Past(b)'
  BY <1>1, <1>4 DEF Past
<1>8. \A b \in Admins : b # a => admin'[b] = admin[b]
  BY <1>4
<1>9. PicturesKept'
  <2>1. \A b \in Admins : shown' = b => Past(b)'
    BY <1>1, <1>7 DEF PicturesKept
  <2>2. ASSUME NEW b \in Admins, NEW c \in Admins, admin'[c].previous = b
        PROVE  Past(b)'
    <3>1. CASE c = a
      BY <1>3, <1>4, <1>7, <2>2, <3>1 DEF PicturesKept
    <3>2. CASE c # a
      BY <1>7, <1>8, <2>2, <3>2 DEF PicturesKept
    <3> QED
      BY <3>1, <3>2
  <2>3. \A b \in Admins : admin'[b].pc \in {"invalidate", "destroy"} =>
          ~(shown' = admin'[b].previous /\ admin'[b].previous \notin {Images!NoPicture, Images!Gone})
    BY <1>1, <1>3, <1>4, <1>8 DEF PicturesKept, Images!Shows
  <2>4. \A b \in Admins : admin'[b].pc = "undo" => shown' # b \/ b \in severed'
    BY <1>1, <1>3, <1>4, <1>8 DEF PicturesKept
  <2>5. \A b \in Admins : admin'[b].pc = "set" /\ admin'[b].op = "upload" => b \in stored'
    BY <1>1, <1>3, <1>4, <1>8 DEF PicturesKept
  <2>6. Images!ShownIsStored'
    <3>1. Images!ShownIsStored
      BY DEF PicturesKept
    <3> QED
      BY <1>1, <3>1 DEF Images!ShownIsStored, Images!Shows
  <2> QED
    BY <2>1, <2>2, <2>3, <2>4, <2>5, <2>6 DEF PicturesKept, Images!Shows
<1>10. Alone'
  <2> SUFFICES ASSUME ~disturbed'
               PROVE  Alone'
    BY DEF Alone
  <2>1. ~disturbed /\ Images!UnderWay = {} /\ stored = Tidy
    BY <1>1 DEF Alone
  <2>2. \A b \in Admins : b \in Images!UnderWay' <=> b = a
    BY <1>3, <1>4, <1>8, <2>1 DEF Images!UnderWay
  <2>3. Undisturbed(a)'
    BY <1>1, <1>3, <1>4, <2>1, <2>2 DEF Undisturbed, Tidy
  <2>4. a \in Images!UnderWay'
    BY <2>2
  <2> QED
    BY <2>2, <2>3, <2>4 DEF Alone
<1> QED
  BY <1>5, <1>9, <1>10

\* Requests that go on without writing the row: what they must not break.
LEMMA Goes ==
  ASSUME NumbersArePictures, MediaShapes, PicturesKept, NEW a \in Admins, NEW pc \in AdminPcs, Images!Goto(a, pc),
         UNCHANGED shown, severed \subseteq severed',
         pc \notin {"idle", "upload", "query"},
         Past(a) => pc # "set",
         pc \in {"invalidate", "destroy"} => ~Images!Shows(admin[a].previous),
         pc = "undo" => shown # a \/ a \in severed',
         pc = "set" /\ admin[a].op = "upload" => a \in stored',
         \A b \in Admins : b # a /\ admin[b].pc = "set" /\ admin[b].op = "upload" /\ b \in stored
                             => b \in stored',
         \A p \in Images!Pictures \ severed' : Images!Shows(p) /\ p \in stored => p \in stored'
  PROVE  MediaShapes' /\ PicturesKept'
<1>1. /\ admin' \in [Admins -> AdminRecord]
      /\ admin'[a] = [op |-> admin[a].op, pc |-> pc, previous |-> admin[a].previous]
      /\ \A b \in Admins : b # a => admin'[b] = admin[b]
  BY Gotos
<1>2. MediaShapes'
  BY <1>1 DEF MediaShapes
<1>3. \A b \in Admins : admin'[b].previous = admin[b].previous /\ admin'[b].op = admin[b].op
  BY <1>1
<1>4. admin'[a].pc = pc
  BY <1>1
<1>5. \A b \in Admins : Past(b) => Past(b)'
  BY <1>1, <1>4 DEF Past, AdminPcs
<1>6. QED
  <2>1. \A b \in Admins : shown' = b => Past(b)'
    BY <1>5 DEF PicturesKept
  <2>2. \A b, c \in Admins : admin'[c].previous = b => Past(b)'
    BY <1>3, <1>5 DEF PicturesKept
  <2>3. \A b \in Admins : admin'[b].pc \in {"invalidate", "destroy"} =>
          ~(shown' = admin'[b].previous /\ admin'[b].previous \notin {Images!NoPicture, Images!Gone})
    BY <1>1, <1>3, <1>4 DEF PicturesKept, Images!Shows
  <2>4. \A b \in Admins : admin'[b].pc = "undo" => shown' # b \/ b \in severed'
    BY <1>1, <1>4 DEF PicturesKept
  <2>5. \A b \in Admins : admin'[b].pc = "set" /\ admin'[b].op = "upload" => b \in stored'
    BY <1>1, <1>3, <1>4 DEF PicturesKept
  <2>6. Images!ShownIsStored'
    BY DEF PicturesKept, Images!ShownIsStored, Images!Shows
  <2> QED
    BY <1>2, <2>1, <2>2, <2>3, <2>4, <2>5, <2>6 DEF PicturesKept, Images!Shows

\* A request that goes on or ends, and what it leaves when it is alone.
LEMMA GoesAlone ==
  ASSUME NumbersArePictures, MediaShapes, Alone, NEW a \in Admins, NEW pc \in AdminPcs, Images!Goto(a, pc),
         a \in Images!UnderWay, UNCHANGED shown, pc \notin {"idle", "query"},
         ~disturbed' => ~disturbed,
         ~disturbed' /\ Undisturbed(a) =>
           /\ pc # "undo"
           /\ pc \in {"upload", "set"} => admin[a].pc \in {"upload", "set"}
           /\ pc = "upload" => admin[a].op = "upload"
           /\ pc \in {"upload", "done"} => stored' = Tidy
           /\ pc = "set" => stored' = Tidy \cup (IF admin[a].op = "upload" THEN {a} ELSE {})
           /\ pc \in {"invalidate", "destroy"} =>
                stored' = {shown, admin[a].previous} \ {Images!NoPicture, Images!Gone}
  PROVE  Alone'
<1>1. /\ admin'[a] = [op |-> admin[a].op, pc |-> pc, previous |-> admin[a].previous]
      /\ \A b \in Admins : b # a => admin'[b] = admin[b]
  BY Gotos
<1> SUFFICES ASSUME ~disturbed'
             PROVE  Alone'
  BY DEF Alone
<1>2. Undisturbed(a)
  BY DEF Alone
<1>3. \A b \in Admins : b \in Images!UnderWay' => b = a
  BY <1>1, <1>2 DEF Undisturbed, Images!UnderWay
<1>4. admin'[a].pc = pc /\ admin'[a].op = admin[a].op /\ admin'[a].previous = admin[a].previous
  BY <1>1
<1>5. Tidy' = Tidy
  BY DEF Tidy
<1>6. CASE pc = "done"
  <2>1. Images!UnderWay' = {}
    BY <1>3, <1>4, <1>6 DEF Images!UnderWay
  <2> QED
    BY <1>2, <1>5, <1>6, <2>1 DEF Alone
<1>7. CASE pc # "done"
  <2>1. a \in Images!UnderWay'
    BY <1>4, <1>7 DEF Images!UnderWay
  <2>2. Undisturbed(a)'
    BY <1>2, <1>3, <1>4, <1>5 DEF Undisturbed
  <2> QED
    BY <1>3, <2>1, <2>2 DEF Alone
<1> QED
  BY <1>6, <1>7

LEMMA Uploaded ==
  ASSUME NumbersArePictures, MediaShapes, PicturesKept, Alone, NEW a \in Admins, Images!Upload(a)
  PROVE  MediaShapes' /\ PicturesKept' /\ Alone'
<1>1. admin[a].pc = "upload" /\ UNCHANGED <<shown, severed>> /\ a \in Images!UnderWay
  BY DEF Images!Upload, Images!UnderWay
<1>2. ~Past(a) /\ shown # a /\ {"set", "undo"} \subseteq AdminPcs
  BY <1>1 DEF PicturesKept, Past, AdminPcs
<1>3. stored \subseteq stored'
  BY DEF Images!Upload
<1>4. CASE Images!Works /\ stored' = stored \cup {a} /\ Images!Goto(a, "set")
  <2>1. ~disturbed' => ~disturbed
    BY <1>4 DEF Images!Works
  <2>2. Undisturbed(a) => stored = Tidy /\ stored' = Tidy \cup {a} /\ (admin[a].op = "upload")
    BY <1>1, <1>4 DEF Undisturbed
  <2> QED
    BY <1>1, <1>2, <1>3, <1>4, <2>1, <2>2, Goes, GoesAlone
<1>5. CASE Images!Fails /\ Images!Goto(a, "undo")
  <2>1. disturbed'
    BY <1>5 DEF Images!Fails
  <2>2. MediaShapes' /\ PicturesKept'
    BY <1>1, <1>2, <1>3, <1>5, Goes
  <2> QED
    BY <2>1, <2>2 DEF Alone
<1> QED
  BY <1>4, <1>5 DEF Images!Upload

LEMMA Invalidated ==
  ASSUME NumbersArePictures, MediaShapes, PicturesKept, Alone, NEW a \in Admins, Images!Invalidate(a)
  PROVE  MediaShapes' /\ PicturesKept' /\ Alone'
<1>1. admin[a].pc = "invalidate" /\ UNCHANGED <<shown, stored>> /\ a \in Images!UnderWay
  BY DEF Images!Invalidate, Images!UnderWay
<1>2. Past(a) /\ ~Images!Shows(admin[a].previous) /\ {"destroy", "undo", "done"} \subseteq AdminPcs
  BY <1>1 DEF PicturesKept, Past, AdminPcs
<1>3. severed \subseteq severed'
  BY DEF Images!Invalidate
<1>4. CASE Images!Works /\ Images!Goto(a, "destroy") /\ UNCHANGED severed
  <2>1. ~disturbed' => ~disturbed
    BY <1>4 DEF Images!Works
  <2>2. Undisturbed(a) => stored = {shown, admin[a].previous} \ {Images!NoPicture, Images!Gone}
    BY <1>1 DEF Undisturbed
  <2> QED
    BY <1>1, <1>2, <1>3, <1>4, <2>1, <2>2, Goes, GoesAlone
<1>5. CASE Images!Fails
  <2>1. disturbed'
    BY <1>5 DEF Images!Fails
  <2>2. CASE Images!Goto(a, "undo") /\ a \in severed'
    BY <1>1, <1>2, <1>3, <2>1, <2>2, Goes DEF Alone
  <2>3. CASE Images!Goto(a, "done")
    BY <1>1, <1>2, <1>3, <2>1, <2>3, Goes DEF Alone
  <2> QED
    BY <1>4, <1>5, <2>2, <2>3 DEF Images!Invalidate
<1> QED
  BY <1>4, <1>5 DEF Images!Invalidate

\* A picture that no row shows is destroyed, or stays.
LEMMA DestroyedQuietly ==
  ASSUME NEW p, Images!Destroyed(p)
  PROVE  /\ stored' = stored \ {p} \/ stored' = stored
         /\ ~disturbed' => ~disturbed /\ stored' = stored \ {p}
BY DEF Images!Destroyed, Images!Works, Images!Fails

LEMMA DestroyedAfter ==
  ASSUME NumbersArePictures, MediaShapes, PicturesKept, Alone, NEW a \in Admins, Images!Destroy(a)
  PROVE  MediaShapes' /\ PicturesKept' /\ Alone'
<1> DEFINE p == admin[a].previous
<1>1. admin[a].pc = "destroy" /\ UNCHANGED <<shown, severed>> /\ a \in Images!UnderWay /\ Images!Goto(a, "done")
  BY DEF Images!Destroy, Images!UnderWay
<1>2. Past(a) /\ ~Images!Shows(p) /\ "done" \in AdminPcs
  BY <1>1 DEF PicturesKept, Past, AdminPcs
<1>3. \A b \in Admins : p = b => Past(b)
  BY DEF PicturesKept
<1>4. (p = Images!NoPicture /\ Images!Works /\ stored' = stored) \/ Images!Destroyed(p)
  BY DEF Images!Destroy
<1>5. stored' = stored \/ stored' = stored \ {p}
  BY <1>4, DestroyedQuietly
<1>6. \A b \in Admins : admin[b].pc = "set" /\ b \in stored => b \in stored'
  BY <1>3, <1>5 DEF Past
<1>7. \A q \in Images!Pictures : Images!Shows(q) /\ q \in stored => q \in stored'
  BY <1>2, <1>5
<1>8. MediaShapes' /\ PicturesKept'
  BY <1>1, <1>2, <1>6, <1>7, Goes
<1>9. ~disturbed' => ~disturbed
  BY <1>4, DestroyedQuietly DEF Images!Works
<1>10. ASSUME ~disturbed', Undisturbed(a)
       PROVE  stored' = Tidy
  <2>1. stored = {shown, p} \ {Images!NoPicture, Images!Gone}
    BY <1>1, <1>10 DEF Undisturbed
  <2>2. (p = Images!NoPicture /\ stored' = stored) \/ stored' = stored \ {p}
    BY <1>4, <1>10, DestroyedQuietly
  <2>3. p # shown \/ p \in {Images!NoPicture, Images!Gone}
    BY <1>2 DEF Images!Shows
  <2> QED
    BY <2>1, <2>2, <2>3 DEF Tidy
<1>11. Alone'
  BY <1>1, <1>2, <1>9, <1>10, GoesAlone
<1> QED
  BY <1>8, <1>11

LEMMA Undone ==
  ASSUME NumbersArePictures, MediaShapes, PicturesKept, Alone, NEW a \in Admins, Images!Undo(a)
  PROVE  MediaShapes' /\ PicturesKept' /\ Alone'
<1>1. admin[a].pc = "undo" /\ UNCHANGED <<shown, severed>> /\ a \in Images!UnderWay /\ Images!Goto(a, "done")
  BY DEF Images!Undo, Images!UnderWay
<1>2. Past(a) /\ (shown # a \/ a \in severed) /\ "done" \in AdminPcs
  BY <1>1 DEF PicturesKept, Past, AdminPcs
<1>3. stored' = stored \/ stored' = stored \ {a}
  BY DestroyedQuietly DEF Images!Undo
<1>4. \A b \in Admins : b # a /\ b \in stored => b \in stored'
  BY <1>3
<1>5. \A q \in Images!Pictures \ severed' : Images!Shows(q) /\ q \in stored => q \in stored'
  BY <1>1, <1>2, <1>3 DEF Images!Shows
<1>6. MediaShapes' /\ PicturesKept'
  BY <1>1, <1>2, <1>4, <1>5, Goes
<1>7. ~disturbed' => ~disturbed
  BY DestroyedQuietly DEF Images!Undo
<1>8. ~Undisturbed(a)
  BY <1>1 DEF Undisturbed
<1>9. Alone'
  BY <1>1, <1>2, <1>7, <1>8, GoesAlone
<1> QED
  BY <1>6, <1>9

\* The row is not written: the request is undone, or ends.
LEMMA NotSet ==
  ASSUME NumbersArePictures, MediaShapes, PicturesKept, Alone, NEW a \in Admins, admin[a].pc = "set",
         (shown = Images!Gone /\ Images!Works) \/ Images!Fails,
         Images!Goto(a, IF admin[a].op = "upload" THEN "undo" ELSE "done"),
         UNCHANGED <<shown, stored, severed>>
  PROVE  MediaShapes' /\ PicturesKept' /\ Alone'
<1> DEFINE pc == IF admin[a].op = "upload" THEN "undo" ELSE "done"
<1>1. pc \in {"undo", "done"} /\ pc \in AdminPcs /\ Images!Goto(a, pc)
  BY DEF AdminPcs
<1>2. shown # a /\ a \in Images!UnderWay
  BY DEF PicturesKept, Past, Images!UnderWay
<1> HIDE DEF pc
<1>3. MediaShapes' /\ PicturesKept'
  BY <1>1, <1>2, Goes
<1>4. ~(~disturbed' /\ Undisturbed(a))
  BY <1>2 DEF Alone, Undisturbed, Images!Works, Images!Fails
<1>5. ~disturbed' => ~disturbed
  BY DEF Images!Works, Images!Fails
<1>6. Alone'
  BY <1>1, <1>2, <1>4, <1>5, GoesAlone
<1> QED
  BY <1>3, <1>6

LEMMA Written ==
  ASSUME NumbersArePictures, MediaShapes, PicturesKept, Alone, NEW a \in Admins,
         admin[a].pc = "set", shown # Images!Gone, Images!Works, shown' = Images!Becomes(a),
         admin' = [admin EXCEPT ![a].pc = Images!AfterSet,
                                ![a].previous = IF admin[a].op = "removeProduct"
                                                THEN shown ELSE @],
         UNCHANGED <<stored, severed>>
  PROVE  MediaShapes' /\ PicturesKept' /\ Alone'
<1> DEFINE previous == IF admin[a].op = "removeProduct" THEN shown ELSE admin[a].previous
           x == [[admin[a] EXCEPT !.pc = Images!AfterSet] EXCEPT !.previous = previous]
<1>1. admin[a] \in AdminRecord
  BY DEF MediaShapes
<1>2. admin' = [admin EXCEPT ![a] = x]
  <2>1. admin' = [admin EXCEPT ![a].pc = Images!AfterSet, ![a].previous = previous]
    OBVIOUS
  <2> HIDE DEF previous
  <2>2. DOMAIN admin = Admins
    BY DEF MediaShapes
  <2>3. admin' \in [Admins -> {admin'[b] : b \in Admins}]
    BY <2>1, <2>2
  <2>4. \A b \in Admins : b # a => admin'[b] = admin[b]
    BY <2>1, <2>2
  <2>5. admin'[a] = [[admin[a] EXCEPT !.pc = Images!AfterSet] EXCEPT !.previous = previous]
    BY <2>1, <2>2
  <2>6. admin'[a] = x
    BY <2>5
  <2> HIDE DEF x
  <2> QED
    BY <2>2, <2>3, <2>4, <2>6
<1>3. previous \in Images!Pictures \cup {Images!NoPicture} /\ (previous = shown \/ previous = admin[a].previous)
  BY <1>1 DEF MediaShapes, AdminRecord
<1>4. Images!AfterSet \in {"invalidate", "destroy"}
  BY DEF Images!AfterSet
<1>5. x \in AdminRecord /\ x.op = admin[a].op /\ x.pc = Images!AfterSet /\ x.previous = previous
  BY <1>1, <1>3, <1>4 DEF AdminRecord, AdminPcs
<1> HIDE DEF x
<1>6. /\ admin' \in [Admins -> AdminRecord] /\ admin'[a] = x
      /\ \A b \in Admins : b # a => admin'[b] = admin[b]
  BY <1>2, <1>5, WriteAdmin
<1>7. /\ shown' \in {a, Images!NoPicture, Images!Gone}
      /\ shown' = a => admin[a].op = "upload" /\ a \in stored
      /\ admin[a].op = "upload" => shown' = a
  <2>1. a \notin {Images!NoPicture, Images!Gone}
    BY DEF NumbersArePictures
  <2> QED
    BY <2>1 DEF Images!Becomes, PicturesKept
<1>8. MediaShapes'
  BY <1>6, <1>7 DEF MediaShapes, Images!Pictures
<1>9. ~Past(a) /\ shown # a /\ \A b \in Admins : admin[b].previous # a
  BY DEF PicturesKept, Past
<1>10. previous # a
  BY <1>3, <1>9
<1>11. Past(a)' /\ \A b \in Admins : Past(b) => Past(b)'
  BY <1>4, <1>5, <1>6 DEF Past
<1> HIDE DEF previous
<1>12. PicturesKept'
  <2>1. \A b \in Admins : shown' = b => Past(b)'
    BY <1>7, <1>11 DEF NumbersArePictures
  <2>2. ASSUME NEW b \in Admins, NEW c \in Admins, admin'[c].previous = b
        PROVE  Past(b)'
    <3>1. CASE c = a
      BY <1>3, <1>5, <1>6, <1>11, <2>2, <3>1 DEF PicturesKept
    <3>2. CASE c # a
      BY <1>6, <1>11, <2>2, <3>2 DEF PicturesKept
    <3> QED
      BY <3>1, <3>2
  <2>3. \A b \in Admins : admin'[b].pc \in {"invalidate", "destroy"} =>
          ~(shown' = admin'[b].previous /\ admin'[b].previous \notin {Images!NoPicture, Images!Gone})
    <3>1. \A b \in Admins : admin'[b].previous # a
      BY <1>5, <1>6, <1>9, <1>10
    <3> QED
      BY <1>7, <3>1
  <2>4. \A b \in Admins : admin'[b].pc = "undo" => shown' # b \/ b \in severed'
    <3>1. \A b \in Admins : admin'[b].pc = "undo" => b # a
      BY <1>4, <1>5, <1>6
    <3> QED
      BY <1>7, <3>1 DEF NumbersArePictures
  <2>5. \A b \in Admins : admin'[b].pc = "set" /\ admin'[b].op = "upload" => b \in stored'
    BY <1>4, <1>5, <1>6 DEF PicturesKept
  <2>6. Images!ShownIsStored'
    <3>1. \A p \in Images!Pictures : shown' = p /\ p \notin {Images!NoPicture, Images!Gone} => p \in stored
      BY <1>7
    <3> QED
      BY <3>1 DEF Images!ShownIsStored, Images!Shows
  <2> QED
    BY <2>1, <2>2, <2>3, <2>4, <2>5, <2>6 DEF PicturesKept, Images!Shows
<1>13. Alone'
  <2> SUFFICES ASSUME ~disturbed'
               PROVE  Alone'
    BY DEF Alone
  <2>1. Undisturbed(a)
    BY DEF Alone, Images!Works, Images!UnderWay
  <2>2. \A b \in Admins : b \in Images!UnderWay' <=> b = a
    BY <1>4, <1>5, <1>6, <2>1 DEF Undisturbed, Images!UnderWay
  <2>3. /\ stored' = {shown', previous} \ {Images!NoPicture, Images!Gone}
    <3>1. stored' = ({shown} \ {Images!NoPicture, Images!Gone})
                      \cup (IF admin[a].op = "upload" THEN {a} ELSE {})
      BY <2>1 DEF Undisturbed, Tidy
    <3>2. previous = shown
      BY <1>3, <2>1 DEF Undisturbed
    <3>3. a \notin {Images!NoPicture, Images!Gone}
      BY DEF NumbersArePictures
    <3>4. CASE admin[a].op = "upload"
      BY <1>7, <3>1, <3>2, <3>3, <3>4
    <3>5. CASE admin[a].op # "upload"
      <4>1. shown' \in {Images!NoPicture, Images!Gone}
        BY <1>7, <3>5
      <4> QED
        BY <3>1, <3>2, <3>5, <4>1
    <3> QED
      BY <3>4, <3>5
  <2>4. Undisturbed(a)'
    BY <1>4, <1>5, <1>6, <2>2, <2>3 DEF Undisturbed
  <2> QED
    BY <2>2, <2>4 DEF Alone
<1> QED
  BY <1>8, <1>12, <1>13

LEMMA Crashed ==
  ASSUME NumbersArePictures, MediaShapes, PicturesKept, Alone, Images!Crash
  PROVE  MediaShapes' /\ PicturesKept' /\ Alone'
<1>1. /\ disturbed' /\ UNCHANGED <<shown, stored, severed>>
      /\ admin' = [a \in Admins |-> IF a \in Images!UnderWay THEN [admin[a] EXCEPT !.pc = "done"]
                                    ELSE admin[a]]
  BY DEF Images!Crash
<1>2. \A a \in Admins : admin[a] \in AdminRecord
  BY DEF MediaShapes
<1>3. \A a \in Admins : [admin[a] EXCEPT !.pc = "done"] =
        [op |-> admin[a].op, pc |-> "done", previous |-> admin[a].previous]
  BY <1>2 DEF AdminRecord
<1>4. \A a \in Admins :
        /\ admin'[a] \in AdminRecord
        /\ admin'[a].previous = admin[a].previous
        /\ (admin'[a].pc = "done" \/ admin'[a] = admin[a])
  BY <1>1, <1>2, <1>3 DEF AdminRecord, AdminPcs
<1>5. MediaShapes'
  BY <1>1, <1>4 DEF MediaShapes
<1>6. \A a \in Admins : Past(a) => Past(a)'
  BY <1>4 DEF Past
<1>7. PicturesKept'
  <2>1. Images!ShownIsStored
    BY DEF PicturesKept
  <2>2. Images!ShownIsStored'
    BY <1>1, <2>1 DEF Images!ShownIsStored, Images!Shows
  <2>3. \A a \in Admins : shown' = a => Past(a)'
    BY <1>1, <1>6 DEF PicturesKept
  <2>4. \A a, b \in Admins : admin'[b].previous = a => Past(a)'
    BY <1>4, <1>6 DEF PicturesKept
  <2>5. \A b \in Admins : admin'[b].pc \in {"invalidate", "destroy"} =>
          ~(shown' = admin'[b].previous /\ admin'[b].previous \notin {Images!NoPicture, Images!Gone})
    BY <1>1, <1>4 DEF PicturesKept, Images!Shows
  <2>6. \A b \in Admins : admin'[b].pc = "undo" => shown' # b \/ b \in severed'
    BY <1>1, <1>4 DEF PicturesKept
  <2>7. \A b \in Admins : admin'[b].pc = "set" /\ admin'[b].op = "upload" => b \in stored'
    BY <1>1, <1>4 DEF PicturesKept
  <2> QED
    BY <2>2, <2>3, <2>4, <2>5, <2>6, <2>7 DEF PicturesKept, Images!Shows
<1> QED
  BY <1>1, <1>5, <1>7 DEF Alone

LEMMA MediaStep ==
  ASSUME NumbersArePictures, MediaShapes, PicturesKept, Alone, [Images!Next]_(Images!vars)
  PROVE  MediaShapes' /\ PicturesKept' /\ Alone'
<1>1. ASSUME NEW a \in Admins, NEW op \in AdminOps, Images!Find(a, op)
      PROVE  MediaShapes' /\ PicturesKept' /\ Alone'
  BY <1>1, Found
<1>2. ASSUME NEW a \in Admins, Images!Set(a)
      PROVE  MediaShapes' /\ PicturesKept' /\ Alone'
  <2>1. admin[a].pc = "set" /\ UNCHANGED <<stored, severed>>
    BY <1>2 DEF Images!Set
  <2>2. CASE /\ shown # Images!Gone /\ Images!Works /\ shown' = Images!Becomes(a)
             /\ admin' = [admin EXCEPT
                  ![a].pc = Images!AfterSet,
                  ![a].previous = IF admin[a].op = "removeProduct" THEN shown ELSE @]
    BY <2>1, <2>2, Written
  <2>3. CASE /\ (shown = Images!Gone /\ Images!Works) \/ Images!Fails
             /\ Images!Goto(a, IF admin[a].op = "upload" THEN "undo" ELSE "done")
             /\ UNCHANGED shown
    BY <2>1, <2>3, NotSet
  <2> QED
    BY <1>2, <2>2, <2>3 DEF Images!Set
<1>3. ASSUME NEW a \in Admins, Images!Upload(a) \/ Images!Invalidate(a) \/ Images!Destroy(a) \/ Images!Undo(a)
      PROVE  MediaShapes' /\ PicturesKept' /\ Alone'
  BY <1>3, Uploaded, Invalidated, DestroyedAfter, Undone
<1>4. CASE Images!Crash
  BY <1>4, Crashed
<1>5. CASE UNCHANGED Images!vars
  <2>1. UNCHANGED <<shown, stored, admin, severed, disturbed>>
    BY <1>5 DEF Images!vars
  <2>2. UNCHANGED <<Images!UnderWay, Tidy>>
    BY <2>1 DEF Images!UnderWay, Tidy
  <2>3. MediaShapes'
    BY <2>1 DEF MediaShapes
  <2>4. PicturesKept'
    BY <2>1 DEF PicturesKept, Images!ShownIsStored, Images!Shows, Past
  <2>5. Alone'
    BY <2>1, <2>2 DEF Alone, Undisturbed
  <2> QED
    BY <2>3, <2>4, <2>5
<1> QED
  BY <1>1, <1>2, <1>3, <1>4, <1>5 DEF Images!Next, AdminOps

\* What rows show is stored, and undisturbed requests leave nothing behind.
THEOREM PicturesAreKept ==
  ASSUME NumbersArePictures
  PROVE  Images!Init /\ [][Images!Next]_(Images!vars) => [](Images!ShownIsStored /\ Images!NothingIsLeft)
<1>1. Images!Init => MediaShapes /\ PicturesKept /\ Alone
  BY MediaStarts
<1>2. MediaShapes /\ PicturesKept /\ Alone /\ [Images!Next]_(Images!vars) => (MediaShapes /\ PicturesKept /\ Alone)'
  BY MediaStep
<1>3. PicturesKept /\ Alone => Images!ShownIsStored /\ Images!NothingIsLeft
  BY DEF PicturesKept, Alone, Images!NothingIsLeft, Tidy
<1> QED
  BY <1>1, <1>2, <1>3, PTL
=============================================================================
