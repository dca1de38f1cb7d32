----------------------------- MODULE RateLimits -----------------------------
(***************************************************************************)
(* What stands before every handler (GlobalGuardChain): who asks, for      *)
(* which role, the CSRF token, and at last the limits of requests          *)
(* (ThrottlerGuard), counted in Redis for all processes.  A process that   *)
(* Redis does not answer counts in its own memory, and after some failures *)
(* in a row stops asking for a while (ResilientThrottlerStorage).  Bound   *)
(* of the model: the windows of the counters do not end.                   *)
(***************************************************************************)
EXTENDS Integers, FiniteSets, Sequences, SequencesExt, Functions

CONSTANTS
  Requests,     \* numbered from 1
  Processes,
  Handlers,     \* name -> [public, skipsCsrf, safe, creates, path, limit]: path holds the
                \* parts the limits look for, limit gives each of them its number
  Asked,        \* [handler, ip, phone, session, csrf, apiKey]
  NumberOf,     \* phone as written -> the number it is
  NoPhone,
  BeforeOpen,   \* FAILURES_BEFORE_OPEN
  MaxTroubles   \* bound of the model: calls that Redis does not answer

VARIABLES
  hits,      \* in Redis: key -> requests counted
  memory,    \* process -> key -> requests counted
  breaker,   \* process -> [open, failures, trial]
  caller,
  troubles,
  resent     \* calls that Redis executed twice (history)

vars == <<hits, memory, breaker, caller, troubles, resent>>

THROTTLERS == <<"default", "availability", "reservations", "client-booking", "webhooks">>

Idle == [pc |-> "idle"]
NoKey == "none"

-----------------------------------------------------------------------------
(* Which requests are counted, and as whose *)

\* getThrottlerConfig: skipIf of each limit.
Applies(name, handler) ==
  LET h == Handlers[handler] IN
  \/ name = "default"
  \/ name = "availability" /\ "availability" \in h.path
  \/ name = "reservations" /\ "reservations" \in h.path /\ ~h.safe
  \/ name = "client-booking" /\ h.creates
  \/ name = "webhooks" /\ "conduit" \in h.path

\* Variant with a bug: any key is trusted.
TrustsAnyKey(r) == r.apiKey # NoKey \/ r.session = "valid"

\* shouldSkipThrottle: Conduit, or an administrator whose session is valid.
Trusted(r) == r.apiKey = "right" \/ r.session = "valid"

\* Variant with a bug: a number counts as it is written.
TrackerAsWritten(name, r) ==
  IF name = "client-booking" /\ r.phone # NoPhone THEN <<"phone", r.phone>> ELSE <<"ip", r.ip>>

\* clientIpTracker, bookingClientTracker.
Tracker(name, r) ==
  IF name = "client-booking" /\ r.phone # NoPhone
  THEN <<"phone", NumberOf[r.phone]>> ELSE <<"ip", r.ip>>

\* The limits a request is counted for, in their order (a key is of a handler).
LimitsOf(r) ==
  IF Trusted(r) THEN <<>> ELSE SelectSeq(THROTTLERS, LAMBDA name : Applies(name, r.handler))
Key(name, r) == <<r.handler, name, Tracker(name, r)>>
Limit(k) == Handlers[k[1]].limit[k[2]]

-----------------------------------------------------------------------------
(* Counting *)

Of(counters, k) == IF k \in DOMAIN counters THEN counters[k] ELSE 0

\* A counter beyond its limit is blocked and does not grow.
Counted(counters, k) ==
  IF Of(counters, k) > Limit(k) THEN counters
  ELSE [j \in DOMAIN counters \cup {k} |-> Of(counters, j) + IF j = k THEN 1 ELSE 0]

Blocked(counters, k) == Of(counters, k) > Limit(k)

\* Variant with a bug: without Redis there are no limits.
FallbackOpen(counters, k) == counters

Fallback(counters, k) == Counted(counters, k)

\* ConsecutiveBreaker, and the one call it allows when it has been open for a while.
Failed(b) ==
  [open |-> b.open \/ b.failures + 1 >= BeforeOpen, trial |-> FALSE,
   failures |-> IF b.open \/ b.failures + 1 >= BeforeOpen THEN 0 ELSE b.failures + 1]
Closed == [open |-> FALSE, failures |-> 0, trial |-> FALSE]

-----------------------------------------------------------------------------

TypeOK ==
  /\ \A k \in DOMAIN hits : hits[k] \in 1 .. Limit(k) + 1
  /\ \A p \in Processes : \A k \in DOMAIN memory[p] : memory[p][k] \in 1 .. Limit(k) + 1
  /\ \A p \in Processes : breaker[p].failures \in 0 .. BeforeOpen - 1
  /\ \A q \in Requests :
       caller[q].pc \in {"idle", "count", "passed", "unauthorized", "forged", "limited"}
  /\ troubles \in 0 .. MaxTroubles

Init ==
  /\ hits = <<>> /\ memory = [p \in Processes |-> <<>>]
  /\ breaker = [p \in Processes |-> Closed]
  /\ caller = [q \in Requests |-> Idle] /\ troubles = 0 /\ resent = <<>>

\* JwtAuthGuard and RolesGuard (there is one role): on a public handler a session that is
\* not valid is as none.
Identified(r) == Handlers[r.handler].public \/ r.session = "valid"

\* CsrfGuard.
Genuine(r) == Handlers[r.handler].safe \/ Handlers[r.handler].skipsCsrf \/ r.csrf

\* Variant with a bug: requests are counted before it is known who asks.
LimitsFirst(r) == "count"

\* GlobalGuardChain: the limits come last.
Chain(r) ==
  IF ~Identified(r) THEN "unauthorized" ELSE IF ~Genuine(r) THEN "forged" ELSE "count"

\* Requests are numbered as they come.
Ask(q) ==
  /\ caller[q].pc = "idle" /\ \A p \in Requests : p < q => caller[p].pc # "idle"
  /\ \E r \in Asked, p \in Processes :
       caller' = [caller EXCEPT ![q] =
         [pc |-> Chain(r), asked |-> r, at |-> p, counted |-> <<>>,
          left |-> IF Chain(r) = "count" THEN LimitsOf(r) ELSE <<>>]]
  /\ UNCHANGED <<hits, memory, breaker, troubles, resent>>

\* The first limit of those left has been counted, and refuses the request or not.
Answered(f, refused) ==
  [f EXCEPT !.pc = IF refused THEN "limited" ELSE @,
            !.left = IF refused THEN <<>> ELSE Tail(@),
            !.counted = Append(@, Key(Head(f.left), f.asked))]

\* increment: Redis answers in time.
Count(q) ==
  LET f == caller[q]  k == Key(Head(f.left), f.asked)  b == breaker[f.at] IN
  /\ f.pc = "count" /\ f.left # <<>> /\ (b.open => b.trial)
  /\ hits' = Counted(hits, k)
  /\ breaker' = [breaker EXCEPT ![f.at] = Closed]
  /\ caller' = [caller EXCEPT ![q] = Answered(f, Blocked(hits', k))]
  /\ UNCHANGED <<memory, troubles, resent>>

\* increment: Redis is not asked, or does not answer: the call may not have reached it, may
\* have been executed, or twice when the connection was made again.
CountHere(q) ==
  LET f == caller[q]  k == Key(Head(f.left), f.asked)  b == breaker[f.at] IN
  /\ f.pc = "count" /\ f.left # <<>>
  /\ \/ b.open /\ ~b.trial /\ UNCHANGED <<hits, breaker, troubles, resent>>
     \/ /\ b.open => b.trial
        /\ troubles < MaxTroubles /\ troubles' = troubles + 1
        /\ breaker' = [breaker EXCEPT ![f.at] = Failed(b)]
        /\ \/ UNCHANGED <<hits, resent>>
           \/ hits' = Counted(hits, k) /\ UNCHANGED resent
           \/ hits' = Counted(Counted(hits, k), k) /\ resent' = Append(resent, k)
  /\ memory' = [memory EXCEPT ![f.at] = Fallback(@, k)]
  /\ caller' = [caller EXCEPT ![q] = Answered(f, Blocked(memory'[f.at], k))]

\* No limit is left: the handler runs.
Pass(q) ==
  /\ caller[q].pc = "count" /\ caller[q].left = <<>>
  /\ caller' = [caller EXCEPT ![q].pc = "passed"]
  /\ UNCHANGED <<hits, memory, breaker, troubles, resent>>

\* HALF_OPEN_AFTER_MS have passed.
HalfOpen(p) ==
  /\ breaker[p].open /\ ~breaker[p].trial
  /\ breaker' = [breaker EXCEPT ![p].trial = TRUE]
  /\ UNCHANGED <<hits, memory, caller, troubles, resent>>

Next ==
  \/ \E q \in Requests : Ask(q) \/ Count(q) \/ CountHere(q) \/ Pass(q)
  \/ \E p \in Processes : HalfOpen(p)

Spec == Init /\ [][Next]_vars

-----------------------------------------------------------------------------
(* Properties, stated of what was asked for and not of the keys *)

Stranger(q) == caller[q].asked.session # "valid" /\ caller[q].asked.apiKey # "right"
Came(pcs) == {q \in Requests : caller[q].pc \in pcs}
Sameness(name, q, p) ==
  /\ caller[p].asked.handler = caller[q].asked.handler
  /\ IF name = "client-booking" /\ caller[q].asked.phone # NoPhone
     THEN caller[p].asked.phone # NoPhone
            /\ NumberOf[caller[p].asked.phone] = NumberOf[caller[q].asked.phone]
     ELSE caller[p].asked.ip = caller[q].asked.ip
            /\ (name = "client-booking" => caller[p].asked.phone = NoPhone)

\* Of the requests of one origin, or for one number, no more are served than the limit
\* while Redis answers, and as many again for each process that had to count by itself.
ServedWithinLimits ==
  \A q \in Came({"passed"}) : Stranger(q) =>
    \A name \in ToSet(THROTTLERS) : Applies(name, caller[q].asked.handler) =>
      LET limit == Handlers[caller[q].asked.handler].limit[name]
          served == {p \in Came({"passed"}) : Stranger(p) /\ Sameness(name, q, p)}
          alone == {p \in Processes : memory[p] # <<>>}
      IN  Cardinality(served) <= limit * (1 + Cardinality(alone))

\* Who is refused for a limit has come after as many others that the guards before had let
\* through (a call that Redis executed twice counts twice): requests without a session or
\* a token use up nobody's share.
RefusedForOthers ==
  \A q \in Came({"limited"}) :
    LET k == Last(caller[q].counted)
        others == {p \in Came({"count", "passed", "limited"}) \ {q} :
                     Identified(caller[p].asked) /\ Genuine(caller[p].asked)
                       /\ Sameness(k[2], q, p)}
        twice == {i \in DOMAIN resent : resent[i] = k}
    IN  Stranger(q) /\ Cardinality(others) + Cardinality(twice) >= Limit(k)
=============================================================================
