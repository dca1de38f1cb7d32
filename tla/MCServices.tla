----------------------------- MODULE MCServices -----------------------------
(***************************************************************************)
(* Services of the backend that share no state, so that a run explores     *)
(* small instances of them side by side; Init chooses one and the others   *)
(* rest. First what is sent to other systems: the income of completed      *)
(* reservations (SiigoSync), business events (ConduitOutbox) and campaigns *)
(* (Campaigns). Then the credit of a client (DepositCredit), the sessions  *)
(* of a user (Sessions), requests with one idempotency key (Idempotency)   *)
(* and the plan of a campaign (Pacing). Last, what clients and             *)
(* administrators are told by the worker of the communications queue, the  *)
(* reminder of an appointment (Reminders), the invitation after a visit    *)
(* (FollowUps) and the notices of a booking (Notices), and what is kept of *)
(* a client and her anonymisation (ClientRecords), her tags (ClientTags)   *)
(* and the audiences she is in (Audiences).                                *)
(***************************************************************************)
EXTENDS Naturals, Sequences, FiniteSets, TLC

CONSTANTS
  q1, q2,          \* worker processes
  e1,              \* an event
  c1, c2,          \* campaigns
  a1, b1, a2, b2,  \* their recipients: Ana and Bea in each
  NoUpload, NoJob, Nobody

VARIABLES
  scenario,
  upload, requests, vouchers, sweep, mishaps,
  event, received, job, worker, publishing, admin, faults,
  campaign, recipient, finished, messages, lock, runner, phase

siigoVars == <<upload, requests, vouchers, sweep, mishaps>>
outboxVars == <<event, received, job, worker, publishing>>
campaignVars == <<campaign, recipient, finished, messages, lock, runner, phase>>
\* These two the outbox and the campaigns have in common, by name only.
sharedVars == <<admin, faults>>
outboundVars == <<scenario, siigoVars, outboxVars, campaignVars, sharedVars>>

-----------------------------------------------------------------------------
(* Instances *)

Lines1 == {"CASH", "TRANSFER"}

\* One process, two rows, every pace kept, one mishap.
Punctual == INSTANCE SiigoSync WITH
  Uploads <- {1, 2}, LinesOf <- <<Lines1, {"CASH"}>>, Sweepers <- {q1},
  MaxAttempts <- 2, BaseRetryDelay <- 1, MaxRetryDelay <- 2, StaleSending <- 3,
  Timeout <- 1, RequestsPerSweep <- 2, CandidateLimit <- 2,
  Timely <- TRUE, MaxMishaps <- 1

\* Two processes and a row that one of them takes over when the other dies.
Takeover == INSTANCE SiigoSync WITH
  Uploads <- {1}, LinesOf <- <<Lines1>>, Sweepers <- {q1, q2},
  MaxAttempts <- 2, BaseRetryDelay <- 1, MaxRetryDelay <- 2, StaleSending <- 5,
  Timeout <- 1, RequestsPerSweep <- 2, CandidateLimit <- 2,
  Timely <- TRUE, MaxMishaps <- 1

\* Two processes that may be held up anywhere, for any time.
HeldUp == INSTANCE SiigoSync WITH
  Uploads <- {1}, LinesOf <- <<Lines1>>, Sweepers <- {q1, q2},
  MaxAttempts <- 2, BaseRetryDelay <- 1, MaxRetryDelay <- 2, StaleSending <- 5,
  Timeout <- 1, RequestsPerSweep <- 2, CandidateLimit <- 2,
  Timely <- FALSE, MaxMishaps <- 0

Outbox == INSTANCE ConduitOutbox WITH
  Events <- {e1}, Workers <- {q1, q2}, Attempts <- 2, MaxStalls <- 1,
  MaxRetries <- 1, MaxFaults <- 2

ClientOfRecipient == (a1 :> "ana") @@ (a2 :> "ana") @@ (b1 :> "bea") @@ (b2 :> "bea")

\* One campaign that administrators pause, resume and cancel.
Managed == INSTANCE Campaigns WITH
  Campaign <- {c1}, Recipients <- <<a1, b1>>, CampaignOf <- (a1 :> c1) @@ (b1 :> c1),
  ClientOf <- ClientOfRecipient, Operations <- {"pause", "resume", "cancel"},
  Runners <- {q1, q2}, MaxAttempts <- 2, BreakerStreak <- 2, Gap <- 1, HourlyCap <- 1,
  Hour <- 1, MaxPerDay <- 2, Day <- 3, Window <- {0, 1}, Cooldown <- 3, RetryDelay <- 1,
  Calm <- TRUE, MaxResumes <- 1, MaxFaults <- 0

\* Two campaigns to the same client.
Twofold == INSTANCE Campaigns WITH
  Campaign <- {c1, c2}, Recipients <- <<a1, a2>>, CampaignOf <- (a1 :> c1) @@ (a2 :> c2),
  ClientOf <- ClientOfRecipient, Operations <- {},
  Runners <- {q1, q2}, MaxAttempts <- 2, BreakerStreak <- 2, Gap <- 1, HourlyCap <- 1,
  Hour <- 1, MaxPerDay <- 2, Day <- 3, Window <- {0, 1}, Cooldown <- 3, RetryDelay <- 1,
  Calm <- TRUE, MaxResumes <- 0, MaxFaults <- 0

\* A campaign with more recipients than the streak that stops it.
Failing == INSTANCE Campaigns WITH
  Campaign <- {c1}, Recipients <- <<a1, b1, b2>>,
  CampaignOf <- (a1 :> c1) @@ (b1 :> c1) @@ (b2 :> c1),
  ClientOf <- (a1 :> "ana") @@ (b1 :> "bea") @@ (b2 :> "dora"), Operations <- {"pause"},
  Runners <- {q1}, MaxAttempts <- 1, BreakerStreak <- 2, Gap <- 0, HourlyCap <- 4,
  Hour <- 1, MaxPerDay <- 4, Day <- 1, Window <- {0}, Cooldown <- 1, RetryDelay <- 1,
  Calm <- TRUE, MaxResumes <- 0, MaxFaults <- 0

\* Runners that die or are held up, Redis failing, and an administrator.
Troubled == INSTANCE Campaigns WITH
  Campaign <- {c1}, Recipients <- <<a1>>, CampaignOf <- a1 :> c1,
  ClientOf <- ClientOfRecipient, Operations <- {"cancel"},
  Runners <- {q1, q2}, MaxAttempts <- 2, BreakerStreak <- 2, Gap <- 0, HourlyCap <- 4,
  Hour <- 1, MaxPerDay <- 4, Day <- 1, Window <- {0}, Cooldown <- 0, RetryDelay <- 1,
  Calm <- FALSE, MaxResumes <- 1, MaxFaults <- 1

-----------------------------------------------------------------------------

SiigoRests == Punctual!Init
OutboxRests ==
  /\ event = <<>> /\ received = {} /\ job = <<>> /\ worker = <<>> /\ publishing = <<>>
CampaignsRest ==
  /\ campaign = <<>> /\ recipient = <<>> /\ finished = <<>> /\ messages = {}
  /\ lock = 0 /\ runner = <<>> /\ phase = 0
SharedRest == admin = <<>> /\ faults = 0

OutboundRests ==
  SiigoRests /\ OutboxRests /\ CampaignsRest /\ SharedRest

OutboundInit ==
  \/ /\ OutboxRests /\ CampaignsRest /\ SharedRest
     /\ \/ scenario = "punctual" /\ Punctual!Init
        \/ scenario = "takeover" /\ Takeover!Init
        \/ scenario = "heldUp" /\ HeldUp!Init
  \/ scenario = "outbox" /\ Outbox!Init /\ SiigoRests /\ CampaignsRest
  \/ /\ SiigoRests /\ OutboxRests
     /\ \/ scenario = "managed" /\ Managed!Init
        \/ scenario = "twofold" /\ Twofold!Init
        \/ scenario = "failing" /\ Failing!Init
        \/ scenario = "troubled" /\ Troubled!Init

SiigoOnly == UNCHANGED <<outboxVars, campaignVars, sharedVars>>
CampaignsOnly == UNCHANGED <<siigoVars, outboxVars>>

OutboundNext ==
  /\ UNCHANGED scenario
  /\ \/ /\ \/ scenario = "punctual" /\ Punctual!Next
           \/ scenario = "takeover" /\ Takeover!Next
           \/ scenario = "heldUp" /\ HeldUp!Next
        /\ SiigoOnly
     \/ scenario = "outbox" /\ Outbox!Next /\ UNCHANGED <<siigoVars, campaignVars>>
     \/ /\ \/ scenario = "managed" /\ Managed!Next
           \/ scenario = "twofold" /\ Twofold!Next
           \/ scenario = "failing" /\ Failing!Next
           \/ scenario = "troubled" /\ Troubled!Next
        /\ CampaignsOnly

\* The clock that runs in one of the instances.
Clock ==
  /\ UNCHANGED scenario
  /\ \/ scenario = "punctual" /\ Punctual!Tick /\ SiigoOnly
     \/ scenario = "takeover" /\ Takeover!Tick /\ SiigoOnly
     \/ scenario = "managed" /\ Managed!Tick /\ CampaignsOnly
     \/ scenario = "twofold" /\ Twofold!Tick /\ CampaignsOnly

\* What process q has to do.
Works(q) ==
  /\ UNCHANGED scenario
  /\ \/ /\ scenario = "punctual" /\ q = q1
        /\ Punctual!Sweep(q) \/ Punctual!Step(q)
        /\ SiigoOnly
     \/ scenario = "takeover" /\ (Takeover!Sweep(q) \/ Takeover!Step(q)) /\ SiigoOnly
     \/ scenario = "outbox" /\ Outbox!Attempt(q) /\ UNCHANGED <<siigoVars, campaignVars>>
     \/ scenario = "managed" /\ (Managed!Run(q) \/ Managed!Turn(q)) /\ CampaignsOnly
     \/ scenario = "twofold" /\ (Twofold!Run(q) \/ Twofold!Turn(q)) /\ CampaignsOnly

JobGoesOn(j) ==
  Outbox!Promote(j) \/ Outbox!Stalled(j) \/ \E q \in {q1, q2} : Outbox!Take(q, j)

\* Time passes, and a process that is alive does what it has to do: the scheduler
\* starts the sweeps of Siigo every minute, the runner of campaigns has a timer, and
\* an abort signal ends every request.  Of the outbox, also the sweep is repeated,
\* BullMQ's timers run, jobs that wait are taken, and a call of Redis ends somehow.
\* Nothing is asked of Siigo, Conduit, administrators or evictions.
OutboundFairness ==
  /\ WF_outboundVars(Clock)
  /\ \A q \in {q1, q2} : WF_outboundVars(Works(q))
  /\ WF_outboxVars(scenario = "outbox" /\ Outbox!BecomeStale(e1))
  /\ WF_outboxVars(scenario = "outbox" /\ Outbox!Sweep)
  /\ \A by \in {"enqueue", "sweep"} :
       WF_outboxVars(scenario = "outbox" /\ Outbox!PublishEnds(e1, by))
  /\ \A n \in 0 .. 1 : WF_outboxVars(scenario = "outbox" /\ JobGoesOn(<<e1, n>>))

-----------------------------------------------------------------------------
(* What is recorded is true, and stands *)

\* A row reported as uploaded has a voucher of its own at Siigo for each of its
\* payment lines, and the document numbers an accountant reads on a row are those of
\* its own lines, however often its sending was interrupted, repeated or taken over
\* while the first sender went on (SyncedIsComplete and ReceiptsAreTheirs, within the
\* inductive invariant that proves them).
UploadsAreTrue ==
  /\ scenario = "punctual" => Punctual!Bookkeeping
  /\ scenario = "takeover" => Takeover!Bookkeeping
  /\ scenario = "heldUp" => HeldUp!Bookkeeping

\* An event marked as sent did reach Conduit, whatever attempts, workers and manual
\* retries crossed on the way; and whoever is marked as SENT in a campaign did get the
\* message of that campaign, even when it was sent by a turn that died and by the one
\* that repeated it, or the client is in another campaign too (by Told, the inductive
\* invariant).
SentIsTrue ==
  /\ scenario = "outbox" => Outbox!SentWasReceived
  /\ scenario = "managed" => Managed!Told
  /\ scenario = "twofold" => Twofold!Told
  /\ scenario = "troubled" => Troubled!Told /\ Troubled!Shapes

\* Processes that keep their pace never send a settled upload again nor take its
\* verdict back, although the updates that settle it name only its id; and no attempt
\* of the outbox that ends later takes back that an event was sent, unless a person
\* asked for another one.
VerdictsStand ==
  [][/\ scenario = "punctual" => Punctual!VerdictsStand
     /\ scenario = "takeover" => Takeover!VerdictsStand
     /\ scenario = "outbox" => Outbox!VerdictStands]_outboundVars

-----------------------------------------------------------------------------
(* One sender at a time, within the limits *)

\* Processes that keep their pace never send one upload together: the ten minutes
\* after which it counts as abandoned are longer than its calls can last (by Claims, the
\* inductive invariant).  Nor do two workers push one event, which the sweep may publish
\* while it is being pushed (by Deliveries).
OneSender ==
  /\ scenario = "takeover" => Takeover!OneSender /\ Takeover!Claims
  /\ scenario = "outbox" => Outbox!OneWorkerPerEvent /\ Outbox!Deliveries

\* While turns end before the lock expires, the limits hold for all campaigns
\* together: within any hour, within a day and between two messages; and a client in
\* two of them is not sent a second marketing message before the cooldown is over (by
\* Turns, the inductive invariant, which LimitsHold and CooldownKept are part of).  A
\* campaign that nobody resumed stops at the streak of failures, even while an
\* administrator pauses it or a message is on its way (by Streaks).
CampaignsHold ==
  /\ scenario = "managed" => Managed!Turns
  /\ scenario = "twofold" => Twofold!Turns
  /\ scenario = "failing" => Failing!StreakStops /\ Failing!Turns /\ Failing!Streaks

-----------------------------------------------------------------------------
(* Everything comes to an end *)

\* The uploads of completed reservations are settled, however crashes, refused
\* credentials and requests without an answer delay them.  An event has its verdict by
\* itself, unless the failure of its job went unrecorded.  The recipients of a running
\* campaign get their turn, unless the campaign stops, and one that nobody resumed is
\* closed once nobody is left to send to.
OutboundSettled ==
  /\ scenario = "punctual" => Punctual!NothingOpen
  /\ scenario = "takeover" => Takeover!NothingOpen
  /\ scenario = "outbox" => Outbox!NothingUndecided
  /\ scenario = "managed" => Managed!NobodyExpects /\ Managed!NoneLeftOpen
  /\ scenario = "twofold" => Twofold!NobodyExpects /\ Twofold!NoneLeftOpen

OutboundTypes ==
  /\ scenario = "punctual" => Punctual!TypeOK
  /\ scenario = "takeover" => Takeover!TypeOK
  /\ scenario = "heldUp" => HeldUp!TypeOK
  /\ scenario = "outbox" => Outbox!TypeOK
  /\ scenario = "managed" => Managed!TypeOK
  /\ scenario = "twofold" => Twofold!TypeOK
  /\ scenario = "failing" => Failing!TypeOK
  /\ scenario = "troubled" => Troubled!TypeOK

-----------------------------------------------------------------------------
(* Credit, sessions, keys and plans *)

CONSTANT None

VARIABLES
  reservation, paid, appliedTo, deducted, handler,
  user, token, request,
  record, attempt, writes, effects, mishap,
  chosen, cursor, batch, times

creditVars == <<reservation, paid, appliedTo, deducted, handler>>
sessionVars == <<user, token, request>>
idempotencyVars == <<record, attempt, writes, effects, mishap>>
pacingVars == <<chosen, cursor, batch, times>>
officeVars == <<creditVars, sessionVars, idempotencyVars, pacingVars>>
servicesVars == <<outboundVars, officeVars>>

-----------------------------------------------------------------------------
(* Instances *)

\* A combo paid for by its first reservation, another combo and a single booking.
Combos == INSTANCE DepositCredit WITH
  Reservations <- 1 .. 5, Bookings <- {<<3, 4>>, <<5>>},
  Combo <- <<{1, 2}, {1, 2}, {3, 4}, {3, 4}, {5}>>, Arrivals <- {2, 3},
  Paid <- <<1>>, CoveredBy <- <<None, 1, None, None, None>>,
  Handlers <- {1}, Timely <- TRUE

\* Single bookings, and two requests at a time.
Singles == INSTANCE DepositCredit WITH
  Reservations <- 1 .. 3, Bookings <- {<<2>>, <<3>>},
  Combo <- <<{1}, {2}, {3}>>, Arrivals <- 1 .. 3,
  Paid <- <<1>>, CoveredBy <- <<None, None, None>>,
  Handlers <- {1, 2}, Timely <- TRUE

\* Two requests of one user, of any kind.
Tabs == INSTANCE Sessions WITH
  Requests <- {1, 2}, Offered <- {"login", "google", "refresh", "password", "logout"},
  MaxFailedAttempts <- 2, MaxTokens <- 3, MaxPasswords <- 2

\* Three requests with one key, one of them with another body, that may be refused.
Orderly == INSTANCE Idempotency WITH
  Attempts <- {1, 2, 3}, BodyOf <- <<"a", "a", "b">>, MarkTtl <- 3, AnswerTtl <- 4,
  HandlerTime <- 2, MaxFailures <- 2, MaxFaults <- 0, NoRecord <- None

\* The same with calls of Redis that fail and processes that die.
Faulty == INSTANCE Idempotency WITH
  Attempts <- {1, 2, 3}, BodyOf <- <<"a", "a", "b">>, MarkTtl <- 3, AnswerTtl <- 4,
  HandlerTime <- 2, MaxFailures <- 1, MaxFaults <- 2, NoRecord <- None

\* What the theorems about DepositCredit, Idempotency, SiigoSync, ConduitOutbox and
\* Campaigns assume of these instances.
ASSUME ServicesAssumption ==
  /\ Combos!Separate /\ Singles!Separate /\ Orderly!InTime
  /\ Punctual!SiigoBounds /\ Takeover!SiigoBounds /\ HeldUp!SiigoBounds
  /\ Takeover!Punctuality /\ Outbox!OutboxBounds
  /\ Managed!CampaignBounds /\ Twofold!CampaignBounds /\ Troubled!CampaignBounds
  /\ Failing!CampaignBounds /\ Failing!StreakBounds

Between(from, to) == [from |-> from, to |-> to]

\* Windows that are none, overlap, are too short or span the day; starts at midnight,
\* inside and after the windows; a day that is new and one that is almost full.
Plan == INSTANCE Pacing WITH
  Settings <- {{}, {Between(0, 5), Between(4, 8), Between(11, 14)},
               {Between(3, 4), Between(9, 12)}, {Between(0, 11)}},
  Start <- {0, 6, 11}, Sent <- {0, 2}, Count <- 4, Day <- 12, Hour <- 3,
  Hard <- Between(2, 11), Shortest <- 2, Default <- <<Between(3, 5), Between(7, 9)>>,
  Jitter <- 2, Gaps <- {1, 2}, Batches <- {2, 3}, Pauses <- {2, 4},
  HourlyCap <- 2, MaxPerDay <- 3

-----------------------------------------------------------------------------

CreditRests ==
  reservation = <<>> /\ paid = <<>> /\ appliedTo = <<>> /\ deducted = <<>> /\ handler = <<>>
SessionsRest == user = <<>> /\ token = <<>> /\ request = <<>>
IdempotencyRests ==
  record = <<>> /\ attempt = <<>> /\ writes = {} /\ effects = 0 /\ mishap = <<>>
PacingRests == chosen = <<>> /\ cursor = 0 /\ batch = <<>> /\ times = <<>>

ServicesInit ==
  \/ OutboundInit /\ CreditRests /\ SessionsRest /\ IdempotencyRests /\ PacingRests
  \/ /\ OutboundRests
     /\ \/ /\ SessionsRest /\ IdempotencyRests /\ PacingRests
           /\ \/ scenario = "combos" /\ Combos!Init
              \/ scenario = "singles" /\ Singles!Init
        \/ /\ scenario = "tabs" /\ Tabs!Init
           /\ CreditRests /\ IdempotencyRests /\ PacingRests
        \/ /\ \/ scenario = "orderly" /\ Orderly!Init
              \/ scenario = "faulty" /\ Faulty!Init
           /\ CreditRests /\ SessionsRest /\ PacingRests
        \/ /\ scenario = "plan" /\ Plan!Init
           /\ CreditRests /\ SessionsRest /\ IdempotencyRests

ServicesNext ==
  \/ OutboundNext /\ UNCHANGED officeVars
  \/ /\ UNCHANGED outboundVars
     /\ \/ /\ \/ scenario = "combos" /\ Combos!Next
              \/ scenario = "singles" /\ Singles!Next
           /\ UNCHANGED <<sessionVars, idempotencyVars, pacingVars>>
        \/ /\ scenario = "tabs" /\ Tabs!Next
           /\ UNCHANGED <<creditVars, idempotencyVars, pacingVars>>
        \/ /\ \/ scenario = "orderly" /\ Orderly!Next
              \/ scenario = "faulty" /\ Faulty!Next
           /\ UNCHANGED <<creditVars, sessionVars, pacingVars>>
        \/ /\ scenario = "plan" /\ Plan!Next
           /\ UNCHANGED <<creditVars, sessionVars, idempotencyVars>>

\* Redis and the handlers answer in the end, time passes, a client who got no answer
\* asks again, and the loop of planSchedule goes on.
OfficeFairness ==
  /\ WF_idempotencyVars(scenario = "faulty" /\ Faulty!Tick)
  /\ \A a \in {1, 2, 3} :
       /\ WF_idempotencyVars(scenario = "faulty" /\ (Faulty!Serve(a) \/ Faulty!Retry(a)))
       /\ WF_idempotencyVars(
            scenario = "faulty" /\ \E w \in writes : w.by = a /\ Faulty!Arrive(w))
  /\ WF_pacingVars(scenario = "plan" /\ Plan!Next)

-----------------------------------------------------------------------------
(* Money *)

\* What was confirmed on a payment or a credit keeps it, whatever the client books,
\* calls off or attends late at the same time; and a payment that moved from one booking
\* to another is deducted from one price.  Both follow from Accounts, the inductive
\* invariant of Clients_proofs.
AdvancesHold ==
  /\ scenario = "combos" => Combos!Accounts /\ Combos!DeductedOnce
  /\ scenario = "singles" => Singles!Accounts /\ Singles!DeductedOnce

\* 'si la reserva que consumió el crédito se cancela antes de confirmarse, el crédito
\* se libera y no se pierde dinero' (test/integration/money.int-spec.ts:535).
NoAdvanceLost == scenario = "singles" => Singles!NoAdvanceLost

-----------------------------------------------------------------------------
(* Sessions and keys *)

\* No session begun with an old password is accepted once it is changed.
OldPasswordOpensNothing == scenario = "tabs" => Tabs!OldPasswordOpensNothing

\* Two tabs that refresh at once do not end the session.
RevokesReuseOnly == scenario = "tabs" => Tabs!RevokesReuseOnly

\* Requests with one key have their effect once while Redis answers, by the inductive
\* invariant of Idempotency.
ExecutedOnce == scenario = "orderly" => Orderly!OneOwner /\ Orderly!ExecutedOnce

-----------------------------------------------------------------------------
(* Plans *)

\* What campaigns send keeps the limits (CampaignsHold), and what is planned keeps the
\* windows, the caps and the gaps of its pace.
PacesHold ==
  CampaignsHold /\ (scenario = "plan" => Plan!InsideWindows /\ Plan!WithinCaps)

-----------------------------------------------------------------------------

\* Uploads, events and campaigns come to an end (OutboundSettled), a request whose key
\* was left marked is answered after all, and every recipient is given a time.
ServicesSettled ==
  /\ OutboundSettled
  /\ scenario = "faulty" => Faulty!EverybodyAnswered
  /\ scenario = "plan" => Plan!EverybodyPlanned

\* The type invariants of the modules.
ServicesTypes ==
  /\ OutboundTypes
  /\ scenario = "combos" => Combos!TypeOK
  /\ scenario = "singles" => Singles!TypeOK
  /\ scenario = "tabs" => Tabs!TypeOK
  /\ scenario = "orderly" => Orderly!TypeOK
  /\ scenario = "faulty" => Faulty!TypeOK
  /\ scenario = "plan" => Plan!TypeOK

-----------------------------------------------------------------------------
(* Messages and clients *)

VARIABLES booking, listener, jobs, turn, executed, inbox, settings, trouble, now

messageVars ==
  <<booking, listener, jobs, turn, executed, inbox, settings, trouble, now>>
systemVars == <<servicesVars, messageVars>>

-----------------------------------------------------------------------------
(* Instances *)

\* An appointment that moves between two dates.
Reminder == INSTANCE Reminders WITH
  Starts <- {3, 5}, Lead <- 1, Attempts <- 2, Horizon <- 5,
  MaxEvents <- 3, MaxFaults <- 1, Serial <- TRUE

\* Two visits, followed up by one rule.
Visit == INSTANCE FollowUps WITH
  Visits <- {1, 2}, Rules <- {1}, TreatmentRules <- {1}, Promoted <- {1}, Days <- <<1>>,
  Day <- 3, From <- 1, To <- 2, Cooldown <- 2, Attempts <- 2, Horizon <- 5,
  MaxChanges <- 0, MaxFaults <- 0

\* One visit and three rules, while settings change and calls fail.
Lapse == INSTANCE FollowUps WITH
  Visits <- {1}, Rules <- {1, 2, 3}, TreatmentRules <- {1, 2}, Promoted <- {1},
  Days <- <<1, 2, 1>>, Day <- 3, From <- 1, To <- 2, Cooldown <- 2, Attempts <- 2,
  Horizon <- 5, MaxChanges <- 1, MaxFaults <- 1

\* A combo that is confirmed, cancelled and revived, and its client.
Combined == INSTANCE Notices WITH
  Group <- {1, 2}, Admins <- {},
  Offered <- {"confirm", "timeout", "adminCancel", "clientCancel", "revive", "forget"},
  Attempts <- 2, MaxEvents <- 3, MaxFaults <- 1

\* A single booking, its client and an administrator.
Single == INSTANCE Notices WITH
  Group <- {1}, Admins <- {"eva"},
  Offered <- {"confirm", "timeout", "clientCancel", "reschedule", "reject", "link",
              "handoff", "deactivate"},
  Attempts <- 2, MaxEvents <- 2, MaxFaults <- 1

-----------------------------------------------------------------------------

FollowUpsRest == settings = <<>>
RemindersRest == executed = <<>> /\ now = 0
MessagesRest ==
  /\ RemindersRest /\ FollowUpsRest
  /\ booking = <<>> /\ listener = <<>> /\ jobs = <<>> /\ turn = <<>> /\ inbox = <<>>
  /\ trouble = <<>>
ServicesRest ==
  OutboundRests /\ CreditRests /\ SessionsRest /\ IdempotencyRests /\ PacingRests

MessagesInit ==
  \/ ServicesInit /\ MessagesRest
  \/ /\ ServicesRest
     /\ \/ scenario = "reminder" /\ Reminder!Init /\ FollowUpsRest
        \/ scenario = "visit" /\ Visit!Init
        \/ scenario = "lapse" /\ Lapse!Init
        \/ scenario = "combined" /\ Combined!Init /\ RemindersRest
        \/ scenario = "single" /\ Single!Init /\ RemindersRest

MessagesOnlyNext ==
  \/ scenario = "reminder" /\ Reminder!Next /\ UNCHANGED settings
  \/ scenario = "visit" /\ Visit!Next
  \/ scenario = "lapse" /\ Lapse!Next
  \/ /\ \/ scenario = "combined" /\ Combined!Next
        \/ scenario = "single" /\ Single!Next
     /\ UNCHANGED <<executed, now>>

MessagesNext ==
  \/ ServicesNext /\ UNCHANGED messageVars
  \/ MessagesOnlyNext /\ UNCHANGED servicesVars

\* Handlers go on, BullMQ promotes jobs that are due, the worker takes and ends them,
\* and time passes.  A behaviour has finitely many of these steps, so that one condition
\* for all of them says as much as one for each.
GoesOn ==
  \/ scenario = "reminder" /\ UNCHANGED settings
     /\ (Reminder!Work \/ Reminder!Tick \/ \E e \in 1 .. 3 : Reminder!Handle(e))
  \/ scenario = "visit"
     /\ (Visit!Work \/ Visit!Tick \/ \E v \in {1, 2} : Visit!Handle(v))
  \/ scenario = "lapse" /\ (Lapse!Work \/ Lapse!Tick \/ Lapse!Handle(1))
  \/ /\ \/ scenario = "combined" /\ (Combined!Work \/ Combined!Handle)
        \/ scenario = "single" /\ (Single!Work \/ Single!Handle)
     /\ UNCHANGED <<executed, now>>

MessagesFairness == WF_messageVars(GoesOn)

-----------------------------------------------------------------------------
(* Messages *)


\* Unless a call was lost: an appointment that is confirmed has its reminder on its
\* present date, a client who does not come back is written to, and the last thing a
\* client was told of a booking is what became of it (and what is owed to her is on its way
\* until then).
ClientIsTold ==
  /\ scenario = "reminder" => Reminder!ReminderIsSet
  /\ scenario = "visit" => Visit!FollowUpComes
  /\ scenario = "lapse" => Lapse!FollowUpComes
  /\ scenario = "combined" => Combined!NothingIsForgotten /\ Combined!LastWordIsTrue
  /\ scenario = "single" => Single!NothingIsForgotten /\ Single!LastWordIsTrue

\* What is planned, sent by campaigns (PacesHold) and by rules keeps its limits: also
\* two rules, or two visits, write to a client once within the cooldown.
MessageLimits ==
  /\ PacesHold
  /\ scenario = "visit" => Visit!SpacedOut
  /\ scenario = "lapse" => Lapse!SpacedOut

\* Uploads, events, campaigns, requests and plans come to an end (ServicesSettled), a
\* job that is due is done, and so are the notices of every operation.
MessagesSettled ==
  /\ ServicesSettled
  /\ scenario = "reminder" => Reminder!NothingDue
  /\ scenario = "visit" => Visit!NothingDue
  /\ scenario = "lapse" => Lapse!NothingDue
  /\ scenario = "combined" => Combined!NothingWaits
  /\ scenario = "single" => Single!NothingWaits

\* The type invariants of the modules.
MessagesTypes ==
  /\ ServicesTypes
  /\ scenario = "reminder" => Reminder!TypeOK
  /\ scenario = "visit" => Visit!TypeOK
  /\ scenario = "lapse" => Lapse!TypeOK
  /\ scenario = "combined" => Combined!TypeOK
  /\ scenario = "single" => Single!TypeOK

-----------------------------------------------------------------------------
(* What is kept of a client *)

VARIABLES
  client, consent, byJid, search, eraser, image, reached, events, losses,
  status, today, stored, sync, anonymous, changes,
  clients, filter, marketing, preview, members, stage

recordVars == <<client, consent, byJid, search, eraser, image, reached, events, losses>>
tagVars == <<status, today, stored, sync, anonymous, changes>>
audienceVars == <<clients, filter, marketing, preview, members, stage>>
clientVars == <<recordVars, tagVars, audienceVars>>
knownVars == <<systemVars, clientVars>>

-----------------------------------------------------------------------------
(* Instances *)

\* One person, whose row may be made anonymous while bookings look for it.
Person == INSTANCE ClientRecords WITH
  Clients <- {1, 2}, Requests <- {1, 2}, Channel <- <<"whatsapp", "web">>,
  Sensitive <- {1, 2}, Consenting <- {1, 2}, Batch <- 1, MaxEvents <- 1, MaxFaults <- 1

\* The same for a client who gives no consent, and an administrator who creates her.
Desk == INSTANCE ClientRecords WITH
  Clients <- {1, 2}, Requests <- {1, 2}, Channel <- <<"whatsapp", "desk">>,
  Sensitive <- {1, 2}, Consenting <- {2}, Batch <- 1, MaxEvents <- 1, MaxFaults <- 0

\* Three clients, some of whom a booking or a credit binds, and sweeps of one.
Sweeps == INSTANCE ClientRecords WITH
  Clients <- 1 .. 3, Requests <- {}, Channel <- <<>>, Sensitive <- {}, Consenting <- {},
  Batch <- 1, MaxEvents <- 2, MaxFaults <- 1

\* She is new; or known, with the proof of a payment that binds her or that does not.
PersonStarts ==
  LET none == Person!Unused IN
  {<<none, none>>, <<Person!Known({"jid"}, {}), none>>,
   <<Person!Known({"health", "hair"}, {"credit"}), none>>}

Proofs(rows) == [k \in {1, 2} |-> IF rows[k].phone = "none" THEN "none" ELSE "shown"]

PersonStart == \E rows \in PersonStarts : Person!StartWith(rows, Proofs(rows))
DeskStart == \E rows \in PersonStarts : Desk!StartWith(rows, Proofs(rows))
SweepsStart ==
  \E bond \in [1 .. 3 -> {{}, {"active"}, {"credit"}, {"recent"}}] :
    Sweeps!StartWith([k \in 1 .. 3 |-> Sweeps!Known({}, bond[k])], [k \in 1 .. 3 |-> "none"])

\* A client of three appointments, whose card is viewed while the refresh runs.
Tags == INSTANCE ClientTags WITH
  Reservations <- 1 .. 3, Start <- <<1, 2, 4>>, Category <- <<1, 2, 1>>,
  Treatment <- <<1, 2, 1>>, Birthday <- 6, Views <- 1, Months <- {3, 4, 7, 14},
  MaxChanges <- 1

Visited(category, ago) == [category |-> category, ago |-> ago]
Profile(anonym, jid, agreed, contacted, tags, visits) ==
  [anonymous |-> anonym, jid |-> jid, consent |-> agreed, contacted |-> contacted,
   tags |-> tags, visits |-> visits]

\* Clients whom each condition tells apart from the first.
Profiles ==
  {Profile(FALSE, TRUE, TRUE, FALSE, {"NUEVA"}, {Visited(1, 20)}),
   Profile(FALSE, TRUE, TRUE, TRUE, {"NUEVA"}, {Visited(1, 20), Visited(2, 50)}),
   Profile(FALSE, TRUE, FALSE, TRUE, {"NUEVA"}, {Visited(2, 20)}),
   Profile(FALSE, TRUE, FALSE, FALSE, {"NUEVA", "EN_PAUSA"}, {Visited(1, 100)}),
   Profile(FALSE, FALSE, TRUE, FALSE, {"NUEVA"}, {Visited(1, 20)}),
   Profile(FALSE, FALSE, FALSE, FALSE, {}, {}),
   Profile(TRUE, FALSE, FALSE, FALSE, {"NUEVA"}, {Visited(1, 20)})}

Filter(tags, exclude, category, within, without) ==
  [tags |-> tags, excludeTags |-> exclude, category |-> category,
   within |-> within, without |-> without]

Filters ==
  {Filter({}, {}, 0, 0, 0), Filter({"NUEVA"}, {"EN_PAUSA"}, 0, 0, 0),
   Filter({}, {}, 1, 30, 0), Filter({}, {}, 0, 0, 30)}

Audience == INSTANCE Audiences WITH
  Clients <- 1 .. 3, Profiles <- Profiles, Filters <- Filters, Sample <- 1

-----------------------------------------------------------------------------

RecordsRest ==
  /\ client = <<>> /\ consent = <<>> /\ byJid = 0 /\ search = <<>> /\ eraser = <<>>
  /\ image = <<>> /\ reached = <<>> /\ events = 0 /\ losses = 0
TagsRest ==
  /\ status = <<>> /\ today = 0 /\ stored = <<>> /\ sync = <<>> /\ anonymous = FALSE
  /\ changes = 0
AudiencesRest ==
  /\ clients = <<>> /\ filter = <<>> /\ marketing = FALSE /\ preview = <<>>
  /\ members = <<>> /\ stage = ""
ClientsRest == RecordsRest /\ TagsRest /\ AudiencesRest

ClientsInit ==
  \/ MessagesInit /\ ClientsRest
  \/ /\ ServicesRest /\ MessagesRest
     /\ \/ /\ \/ scenario = "person" /\ PersonStart
              \/ scenario = "desk" /\ DeskStart
              \/ scenario = "sweeps" /\ SweepsStart
           /\ TagsRest /\ AudiencesRest
        \/ scenario = "tags" /\ Tags!Init /\ RecordsRest /\ AudiencesRest
        \/ scenario = "audience" /\ Audience!Init /\ RecordsRest /\ TagsRest

ClientsNext ==
  \/ MessagesNext /\ UNCHANGED clientVars
  \/ /\ \/ /\ \/ scenario = "person" /\ Person!Next
              \/ scenario = "desk" /\ Desk!Next
              \/ scenario = "sweeps" /\ Sweeps!Next
           /\ UNCHANGED <<tagVars, audienceVars>>
        \/ scenario = "tags" /\ Tags!Next /\ UNCHANGED <<recordVars, audienceVars>>
        \/ scenario = "audience" /\ Audience!Next /\ UNCHANGED <<recordVars, tagVars>>
     /\ UNCHANGED systemVars

\* The schedulers start a sweep of inactive clients every night and a refresh of tags
\* every quarter of an hour, and what they start goes on while the process lives.
ClientsFairness ==
  /\ WF_recordVars(scenario = "sweeps" /\ (Sweeps!Sweep \/ Sweeps!EraserStep))
  /\ WF_tagVars(scenario = "tags" /\ \E s \in {0, 1} : Tags!Synchronize(s))

\* The credit of single bookings alone.
CreditSpec ==
  /\ ServicesInit /\ scenario = "singles" /\ MessagesRest /\ ClientsRest
  /\ [][ClientsNext]_knownVars

-----------------------------------------------------------------------------
(* Clients *)

\* Of a client who was made anonymous nothing is left that was there when it began, in
\* whatever order bookings, credits and proofs of payment cross the anonymisation; and
\* health data is kept of nobody who did not consent (with what makes both inductive).
PrivacyHolds ==
  /\ scenario = "person" => Person!Privacy
  /\ scenario = "desk" => Desk!Privacy

\* No deposit shows an image that is no longer stored, whichever call fails.
ProofsAreStored ==
  /\ scenario = "person" => Person!ShownIsStored
  /\ scenario = "sweeps" => Sweeps!ShownIsStored

\* The tags derived from one history do not contradict each other, and the preview of an
\* audience accounts for every client its filter matches.
WhatIsToldOfClients ==
  /\ scenario = "tags" => Tags!DerivedAgree
  /\ scenario = "audience" => Audience!PreviewIsTrue

\* Beside what MessagesSettled says: inactive clients whom nothing binds are made
\* anonymous, and stored tags come to be those of the history.
ClientsSettled ==
  /\ MessagesSettled
  /\ scenario = "sweeps" => Sweeps!InactiveAreErased
  /\ scenario = "tags" => Tags!TagsAreTrue

ClientsTypes ==
  /\ MessagesTypes
  /\ scenario = "person" => Person!TypeOK
  /\ scenario = "desk" => Desk!TypeOK
  /\ scenario = "sweeps" => Sweeps!TypeOK
  /\ scenario = "tags" => Tags!TypeOK
  /\ scenario = "audience" => Audience!TypeOK
=============================================================================
