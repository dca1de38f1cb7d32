----------------------------- MODULE Campaigns -----------------------------
(***************************************************************************)
(* Broadcast campaigns over WhatsApp.  Every process has a timer that tries *)
(* to take a lock in Redis and then sends at most one message: the due one  *)
(* that was scheduled first, if the send window is open and the limits      *)
(* leave room.  Administrators launch, pause, resume and cancel campaigns   *)
(* meanwhile.  Conduit may refuse a message, fail, or deliver it without    *)
(* its answer arriving.                                                     *)
(*                                                                         *)
(* A tick of the clock is as long as the lock lives.  Instants are ages and *)
(* delays, in ticks.                                                        *)
(***************************************************************************)
EXTENDS Integers, SequencesExt, FiniteSets, TLC

CONSTANTS
  Campaign,
  Recipients,          \* the campaigns' recipients, in the order of their plan
  CampaignOf, ClientOf,
  Operations,          \* what administrators do
  Runners,             \* processes with a CampaignRunnerService
  MaxAttempts, BreakerStreak,
  Gap, HourlyCap, Hour,     \* the pace of the campaigns
  MaxPerDay, Day, Window,   \* the limit of a day and its send windows
  Cooldown, RetryDelay,
  Calm,                \* every turn ends before the lock expires, and nothing fails
  MaxResumes,          \* bound: resumptions of one campaign
  MaxFaults,           \* bound: crashes and failed calls of Redis
  Nobody

VARIABLES
  campaign, recipient,
  finished,  \* per campaign: its SENT and FAILED recipients, by updatedAt
  messages,  \* what Conduit has delivered
  lock,      \* ticks until the lock expires
  runner,
  admin,     \* per campaign: the handler of an administrator
  phase,     \* ticks since midnight
  faults

campaignVars == <<campaign, recipient, finished, messages, lock, runner,
                  admin, phase, faults>>

Ids == {Recipients[i] : i \in DOMAIN Recipients}
Of(c) == SelectSeq(Recipients, LAMBDA r : CampaignOf[r] = c)
Smaller(a, b) == IF a < b THEN a ELSE b

Resting == [pc |-> "idle", recipient |-> Nobody, attempts |-> 0, age |-> 0,
            outcome |-> "none"]

Init ==
  /\ campaign = [c \in Campaign |-> [status |-> "ABSENT", resumes |-> 0]]
  /\ recipient = [r \in Ids |-> [status |-> "ABSENT", attempts |-> 0, wait |-> 0, age |-> 0]]
  /\ finished = [c \in Campaign |-> <<>>]
  /\ messages = {}
  /\ lock = 0
  /\ runner = [q \in Runners |-> Resting]
  /\ admin = [c \in Campaign |-> "idle"]
  /\ phase = 0
  /\ faults = 0

Fault == ~Calm /\ faults < MaxFaults /\ faults' = faults + 1

-----------------------------------------------------------------------------
(* Administrators *)

\* The tightest schedule planSchedule gives: the i-th waits for i - 1 gaps.
Planned(pending) ==
  [r \in Ids |->
     IF \E i \in DOMAIN pending : pending[i] = r
     THEN [recipient[r] EXCEPT !.wait = (CHOOSE i \in DOMAIN pending : pending[i] = r) * Gap - Gap]
     ELSE recipient[r]]

Pending(c) == SelectSeq(Of(c), LAMBDA r : recipient[r].status = "PENDING")

Create(c) ==
  /\ campaign[c].status = "ABSENT"
  /\ campaign' = [campaign EXCEPT ![c].status = "RUNNING"]
  /\ recipient' = [r \in Ids |-> IF CampaignOf[r] = c
                                 THEN [Planned(Of(c))[r] EXCEPT !.status = "PENDING"]
                                 ELSE recipient[r]]
  /\ UNCHANGED <<finished, messages, lock, runner, admin, phase, faults>>

\* Each handler reads the campaign, and writes it by its id alone.
Begin(c, operation, from) ==
  /\ operation \in Operations
  /\ admin[c] = "idle"
  /\ campaign[c].status \in from
  /\ admin' = [admin EXCEPT ![c] = operation]
  /\ UNCHANGED <<campaign, recipient, finished, messages, lock, runner, phase, faults>>

Ask(c) ==
  \/ Begin(c, "pause", {"RUNNING"})
  \/ Begin(c, "resume", {"PAUSED"}) /\ campaign[c].resumes < MaxResumes
  \/ Begin(c, "cancel", {"RUNNING", "PAUSED"})

Pause(c) ==
  /\ admin[c] = "pause"
  /\ campaign' = [campaign EXCEPT ![c].status = "PAUSED"]
  /\ admin' = [admin EXCEPT ![c] = "idle"]
  /\ UNCHANGED <<recipient, finished, messages, lock, runner, phase, faults>>

Again(c) == SortSeq(Pending(c), LAMBDA r, s : recipient[r].wait < recipient[s].wait)

\* The pending recipients are planned anew from now on, in the order they had.
Resume(c) ==
  /\ admin[c] = "resume"
  /\ recipient' = Planned(Again(c))
  /\ campaign' = [campaign EXCEPT ![c].status = "RUNNING", ![c].resumes = @ + 1]
  /\ admin' = [admin EXCEPT ![c] = "idle"]
  /\ UNCHANGED <<finished, messages, lock, runner, phase, faults>>

Cancel(c) ==
  /\ admin[c] = "cancel"
  /\ recipient' = [r \in Ids |->
                     IF CampaignOf[r] = c /\ recipient[r].status = "PENDING"
                     THEN [recipient[r] EXCEPT !.status = "SKIPPED", !.wait = 0] ELSE recipient[r]]
  /\ campaign' = [campaign EXCEPT ![c].status = "CANCELLED"]
  /\ admin' = [admin EXCEPT ![c] = "idle"]
  /\ UNCHANGED <<finished, messages, lock, runner, phase, faults>>

-----------------------------------------------------------------------------
(* The runner *)

At(q, pc) == runner[q].pc = pc
Goes(q, pc) == runner' = [runner EXCEPT ![q].pc = pc]
Rests(q) == runner' = [runner EXCEPT ![q] = Resting]

\* Variant with a bug: a lock that is taken is no reason to wait.
FreeLockAlways == TRUE

FreeLock == lock = 0

\* SET NX with a time to live; when Redis does not answer the turn is taken anyway.
Run(q) ==
  /\ At(q, "idle")
  /\ \/ FreeLock /\ lock' = 1 /\ UNCHANGED faults
     \/ Fault /\ UNCHANGED lock
  /\ Goes(q, "tick")
  /\ UNCHANGED <<campaign, recipient, finished, messages, admin, phase>>

Due == {r \in Ids : /\ recipient[r].status = "PENDING"
                    /\ recipient[r].wait = 0
                    /\ campaign[CampaignOf[r]].status = "RUNNING"}

Sent == {r \in Ids : recipient[r].status = "SENT"}

SentWithin(ticks) == {r \in Sent : recipient[r].age <= ticks}

Room ==
  /\ Cardinality(SentWithin(phase)) < MaxPerDay
  /\ Cardinality(SentWithin(Hour)) < HourlyCap
  /\ \A r \in Sent : recipient[r].age >= Gap

\* Nothing to send, or no room for it.
Passes(q) ==
  /\ At(q, "tick")
  /\ ~(phase \in Window /\ Due # {} /\ Room)
  /\ Rests(q)
  /\ UNCHANGED <<campaign, recipient, finished, messages, lock, admin, phase, faults>>

\* Of the due ones the one that was scheduled first: here any, for delays that have
\* run out are all the same.
Picks(q) ==
  /\ At(q, "tick")
  /\ phase \in Window /\ Room
  /\ \E r \in Due :
       runner' = [runner EXCEPT ![q].pc = "deliver", ![q].recipient = r,
                                ![q].attempts = recipient[r].attempts]
  /\ UNCHANGED <<campaign, recipient, finished, messages, lock, admin, phase, faults>>

Mine(q) == runner[q].recipient
CampaignOfTurn(q) == CampaignOf[Mine(q)]

\* pause() reads the campaign and refuses one that is not running: the turn ends.
PauseOrRest(q) ==
  IF campaign[CampaignOfTurn(q)].status = "RUNNING" THEN Goes(q, "pause") ELSE Rests(q)

\* The template is gone, or its promotion is over.
Unusable(q) ==
  /\ At(q, "deliver")
  /\ PauseOrRest(q)
  /\ UNCHANGED <<campaign, recipient, finished, messages, lock, admin, phase, faults>>

PauseWrite(q) ==
  /\ At(q, "pause")
  /\ campaign' = [campaign EXCEPT ![CampaignOfTurn(q)].status = "PAUSED"]
  /\ IF runner[q].outcome = "none" THEN Rests(q) ELSE Goes(q, "close")
  /\ UNCHANGED <<recipient, finished, messages, lock, admin, phase, faults>>

\* Variant with a bug: only messages of the same campaign count.
RecentlyContactedHere(r) ==
  \E s \in Sent : s = r /\ recipient[s].age < Cooldown

RecentlyContacted(r) ==
  \E s \in Sent : ClientOf[s] = ClientOf[r] /\ recipient[s].age < Cooldown

\* Variant with a bug: nobody looks whether that was the last recipient.
SkipsOnly(q) ==
  /\ At(q, "deliver")
  /\ recipient' = [recipient EXCEPT ![Mine(q)].status = "SKIPPED"]
  /\ Rests(q)
  /\ UNCHANGED <<campaign, finished, messages, lock, admin, phase, faults>>

\* Another marketing message not long ago; or what the client's record says now is
\* against it (no consent, no WhatsApp, anonymised), which may be at any time.
Skips(q) ==
  /\ At(q, "deliver")
  /\ recipient' = [recipient EXCEPT ![Mine(q)].status = "SKIPPED"]
  /\ Goes(q, "close")
  /\ UNCHANGED <<campaign, finished, messages, lock, admin, phase, faults>>

\* Variant with a bug: the key names the client only.
MessageKeyOfClient(r) == <<ClientOf[r]>>

MessageKey(r) == <<CampaignOf[r], ClientOf[r]>>

Sends(q) ==
  /\ At(q, "deliver")
  /\ ~RecentlyContacted(Mine(q))
  /\ Goes(q, "send")
  /\ UNCHANGED <<campaign, recipient, finished, messages, lock, admin, phase, faults>>

\* Conduit delivers a message of a new key; for one it knows it only answers.
Delivers(q) ==
  /\ At(q, "send")
  /\ LET key == MessageKey(Mine(q))
     IN  messages' = IF \E m \in messages : m.key = key THEN messages
                     ELSE messages \cup {[key |-> key, to |-> Mine(q)]}
  /\ Goes(q, "answer")
  /\ UNCHANGED <<campaign, recipient, finished, lock, admin, phase, faults>>

\* What the runner learns of it.
Answered(q) ==
  /\ \/ At(q, "answer") /\ runner' = [runner EXCEPT ![q].pc = "record", ![q].outcome = "delivered"]
     \/ /\ At(q, "send")
        /\ runner' = [runner EXCEPT ![q].pc = "record", ![q].outcome = "permanent"]
     \/ /\ runner[q].pc \in {"send", "answer"}
        /\ runner' = [runner EXCEPT ![q].pc = "record", ![q].outcome = "transient"]
  /\ UNCHANGED <<campaign, recipient, finished, messages, lock, admin, phase, faults>>

\* SENT, FAILED or another attempt later.
Records(q) ==
  /\ At(q, "record")
  /\ LET r == Mine(q)
         c == CampaignOf[r]
         attempts == runner[q].attempts + 1
         failed == runner[q].outcome = "permanent" \/ attempts >= MaxAttempts
     IN  \/ /\ runner[q].outcome = "delivered"
            /\ recipient' = [recipient EXCEPT ![r] = [status |-> "SENT", attempts |-> attempts,
                                                      wait |-> 0, age |-> runner[q].age]]
            /\ finished' = [finished EXCEPT ![c] = Append(RemoveFirst(@, r), r)]
            /\ Goes(q, "close")
         \/ /\ runner[q].outcome # "delivered" /\ failed
            /\ recipient' = [recipient EXCEPT ![r].status = "FAILED", ![r].attempts = attempts,
                                              ![r].wait = 0]
            /\ finished' = [finished EXCEPT ![c] = Append(RemoveFirst(@, r), r)]
            /\ Goes(q, "streak")
         \/ /\ runner[q].outcome # "delivered" /\ ~failed
            /\ recipient' = [recipient EXCEPT ![r].attempts = attempts, ![r].wait = RetryDelay]
            /\ UNCHANGED finished
            /\ Goes(q, "close")
  /\ UNCHANGED <<campaign, messages, lock, admin, phase, faults>>

LastFinished(c) ==
  LET log == finished[c]
      n == Smaller(Len(log), BreakerStreak)
  IN  SubSeq(log, Len(log) - n + 1, Len(log))

\* Variant with a bug: one failure too many before the pause.
StreakOneMore(c) ==
  /\ Len(finished[c]) > BreakerStreak
  /\ \A i \in DOMAIN finished[c] : recipient[finished[c][i]].status = "FAILED"

Streak(c) ==
  /\ Len(LastFinished(c)) = BreakerStreak
  /\ \A i \in 1 .. BreakerStreak : recipient[LastFinished(c)[i]].status = "FAILED"

PausesIfStreak(q) ==
  /\ At(q, "streak")
  /\ IF Streak(CampaignOfTurn(q)) THEN PauseOrRest(q) ELSE Goes(q, "close")
  /\ UNCHANGED <<campaign, recipient, finished, messages, lock, admin, phase, faults>>

ClosesIfDone(q) ==
  /\ At(q, "close")
  /\ LET c == CampaignOfTurn(q)
     IN  campaign' = IF Pending(c) = <<>> /\ campaign[c].status = "RUNNING"
                     THEN [campaign EXCEPT ![c].status = "COMPLETED"] ELSE campaign
  /\ Rests(q)
  /\ UNCHANGED <<recipient, finished, messages, lock, admin, phase, faults>>

Crash(q) ==
  /\ ~At(q, "idle")
  /\ Fault
  /\ Rests(q)
  /\ UNCHANGED <<campaign, recipient, finished, messages, lock, admin, phase>>

\* When all is calm the timers see to it that no tick passes without a turn.
Tick ==
  /\ Calm => ~FreeLock /\ \A q \in Runners : At(q, "idle")
  /\ phase' = (phase + 1) % Day
  /\ lock' = IF lock = 0 THEN 0 ELSE lock - 1
  /\ recipient' = [r \in Ids |->
       [recipient[r] EXCEPT
          !.wait = IF @ = 0 THEN 0 ELSE @ - 1,
          !.age = IF recipient[r].status = "SENT" THEN Smaller(@ + 1, Day) ELSE 0]]
  /\ runner' = [q \in Runners |-> IF At(q, "idle") THEN runner[q]
                                  ELSE [runner[q] EXCEPT !.age = Smaller(@ + 1, Day)]]
  /\ UNCHANGED <<campaign, finished, messages, admin, faults>>

-----------------------------------------------------------------------------

Turn(q) ==
  \/ Passes(q) \/ Picks(q) \/ Unusable(q) \/ PauseWrite(q) \/ Skips(q) \/ Sends(q)
  \/ Delivers(q) \/ Answered(q) \/ Records(q) \/ PausesIfStreak(q) \/ ClosesIfDone(q)

Next ==
  \/ \E c \in Campaign : Create(c) \/ Ask(c) \/ Pause(c) \/ Resume(c) \/ Cancel(c)
  \/ \E q \in Runners : Run(q) \/ Turn(q) \/ Crash(q)
  \/ Tick

Spec == Init /\ [][Next]_campaignVars

-----------------------------------------------------------------------------
(* Properties *)

TypeOK ==
  /\ campaign \in [Campaign -> [status : {"ABSENT", "RUNNING", "PAUSED", "COMPLETED", "CANCELLED"},
                                resumes : 0 .. MaxResumes]]
  /\ recipient \in [Ids -> [status : {"ABSENT", "PENDING", "SENT", "FAILED", "SKIPPED"},
                            attempts : 0 .. MaxAttempts, wait : Nat, age : 0 .. Day]]
  /\ lock \in 0 .. 1
  /\ admin \in [Campaign -> {"idle", "pause", "resume", "cancel"}]
  /\ phase \in 0 .. Day - 1
  /\ faults \in 0 .. MaxFaults

\* Whoever is marked as SENT did get the message of that campaign, even when the
\* message was sent by a turn that died and by the one that repeated it, or the
\* client is in another campaign too (the idempotency key).
SentWasDelivered == \A r \in Sent : \E m \in messages : m.to = r

\* The limits hold for all campaigns together: within any hour, within a day and
\* between two messages.  The counts are read long before the message is marked
\* as sent; only the lock keeps two turns apart (tick).
LimitsHold ==
  /\ Cardinality(SentWithin(Hour)) <= HourlyCap
  /\ Cardinality(SentWithin(phase)) <= MaxPerDay
  /\ \A r, s \in Sent : r # s /\ recipient[r].age <= recipient[s].age /\ recipient[s].age < Day
                          => recipient[s].age - recipient[r].age >= Gap

\* A client in two campaigns is not sent a second marketing message before the
\* cooldown is over (MarketingFrequencyService.blockedUntil).
CooldownKept ==
  \A r, s \in Sent : r # s /\ ClientOf[r] = ClientOf[s]
                        => recipient[r].age >= Cooldown \/ recipient[s].age >= Cooldown

\* A campaign that nobody resumed stops at the third failure in a row, whatever
\* an administrator does to it meanwhile (pauseIfStreak).
StreakStops ==
  \A c \in Campaign :
    LET log == finished[c]
    IN  campaign[c].resumes = 0 /\ Len(log) > BreakerStreak =>
          \E i \in Len(log) - BreakerStreak .. Len(log) : recipient[log[i]].status = "SENT"

\* Nobody waits for a message of a running campaign.
NobodyExpects ==
  \A r \in Ids : recipient[r].status = "PENDING" => campaign[CampaignOf[r]].status # "RUNNING"

\* No campaign that was never resumed is open with nobody left to send to.
NoneLeftOpen ==
  \A c \in Campaign :
    campaign[c].status = "RUNNING" /\ campaign[c].resumes = 0 => Pending(c) # <<>>

-----------------------------------------------------------------------------
(* What the runners know between their steps *)

\* The limits are numbers, a cooldown is no longer than ages are counted, and a campaign
\* has each client once at most (@@unique([campaignId, clientId])).
CampaignBounds ==
  /\ IsFiniteSet(Ids) /\ Nobody \notin Ids
  /\ MaxAttempts \in Nat /\ HourlyCap \in Nat /\ MaxPerDay \in Nat
  /\ Gap \in Nat /\ Hour \in Nat /\ Day \in Nat \ {0} /\ Cooldown \in 0 .. Day
  /\ \A r, s \in Ids : CampaignOf[r] = CampaignOf[s] /\ ClientOf[r] = ClientOf[s] => r = s

\* (The delay, which none of the safety properties is about, may be anything.)
IsRecipient(x) ==
  x \in [status : {"ABSENT", "PENDING", "SENT", "FAILED", "SKIPPED"},
         attempts : Nat, wait : {x.wait}, age : 0 .. Day]

TurnRecord ==
  [pc : {"idle", "tick", "deliver", "pause", "send", "answer", "record", "streak", "close"},
   recipient : Ids \cup {Nobody}, attempts : Nat, age : 0 .. Day,
   outcome : {"none", "delivered", "permanent", "transient"}]

RecipientShapes ==
  /\ recipient = [r \in Ids |-> recipient[r]]
  /\ \A r \in Ids : IsRecipient(recipient[r])

\* Whoever has taken a recipient knows one of the plan.
TurnShapes ==
  /\ runner \in [Runners -> TurnRecord]
  /\ \A q \in Runners : runner[q].pc \notin {"idle", "tick"} => Mine(q) \in Ids

Shapes ==
  RecipientShapes /\ TurnShapes /\ phase \in 0 .. Day - 1 /\ lock \in 0 .. 1

\* A message tells whose it is, and who learned of its delivery has its message.
Told ==
  /\ \A m \in messages : m.to \in Ids /\ m.key = MessageKey(m.to)
  /\ \A q \in Runners :
       runner[q].pc = "answer" \/ (runner[q].pc = "record" /\ runner[q].outcome = "delivered")
         => \E m \in messages : m.to = Mine(q)
  /\ SentWasDelivered

\* A turn has the lock for itself while no tick passes, so the room it found is left.
TurnHolds(q) ==
  /\ runner[q].age = 0
  /\ runner[q].pc # "idle" => lock = 1 /\ \A p \in Runners : runner[p].pc # "idle" => p = q
  /\ runner[q].pc \in {"deliver", "send", "answer", "record"} =>
       Room /\ recipient[Mine(q)].status # "SENT"
  /\ runner[q].pc \in {"send", "answer", "record"} => ~RecentlyContacted(Mine(q))

Turns ==
  /\ Shapes
  /\ \A q \in Runners : TurnHolds(q)
  /\ LimitsHold /\ CooldownKept

\* Recipients are of a campaign, and a streak has a length.
StreakBounds ==
  /\ BreakerStreak \in Nat \ {0}
  /\ \A r \in Ids : CampaignOf[r] \in Campaign

CampaignRecord ==
  [status : {"ABSENT", "RUNNING", "PAUSED", "COMPLETED", "CANCELLED"}, resumes : Nat]

\* What the list of a campaign holds.
Listed(c) ==
  /\ finished[c] \in Seq(Ids)
  /\ \A i \in DOMAIN finished[c] : /\ recipient[finished[c][i]].status \in {"SENT", "FAILED"}
                                   /\ CampaignOf[finished[c][i]] = c
  /\ campaign[c].status = "ABSENT" => finished[c] = <<>>

\* The last BreakerStreak recipients have all failed.
Hopeless(c) ==
  /\ Len(finished[c]) >= BreakerStreak
  /\ \A i \in Len(finished[c]) - BreakerStreak + 1 .. Len(finished[c]) :
       recipient[finished[c][i]].status = "FAILED"

StopsInTime(c) ==
  Len(finished[c]) > BreakerStreak =>
    \E i \in Len(finished[c]) - BreakerStreak .. Len(finished[c]) :
      recipient[finished[c][i]].status = "SENT"

Stopping(q) == runner[q].pc \in {"streak", "pause"}
Serving(q) == runner[q].pc \in {"deliver", "send", "answer", "record"}

\* A campaign that is hopeless does not run, or is about to be stopped.
StreakSeen(c) ==
  campaign[c].resumes = 0 /\ Hopeless(c) =>
    \/ campaign[c].status # "RUNNING"
    \/ \E q \in Runners : Stopping(q) /\ CampaignOfTurn(q) = c

\* Nobody is served of a campaign that is hopeless.
HopeLeft(q) ==
  Serving(q) =>
    /\ recipient[Mine(q)].status \in {"PENDING", "SKIPPED"}
    /\ campaign[CampaignOfTurn(q)].status # "ABSENT"
    /\ campaign[CampaignOfTurn(q)].resumes = 0 => ~Hopeless(CampaignOfTurn(q))

Streaks ==
  /\ campaign \in [Campaign -> CampaignRecord]
  /\ finished = [c \in Campaign |-> finished[c]]
  /\ \A c \in Campaign :
       /\ Listed(c) /\ StreakSeen(c)
       /\ campaign[c].resumes = 0 => StopsInTime(c)
  /\ \A q \in Runners : HopeLeft(q)
=============================================================================
