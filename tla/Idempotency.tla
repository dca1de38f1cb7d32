---------------------------- MODULE Idempotency ----------------------------
(***************************************************************************)
(* Requests that carry the same idempotency key (idempotency.interceptor,  *)
(* idempotency.service): the first marks the key in Redis and is carried   *)
(* out, the others are refused while it runs and get its answer after it.  *)
(* Redis may fail (safe-cache.service turns that into null), a process may *)
(* die, and neither the answer nor the removal of the mark is waited for.  *)
(***************************************************************************)
EXTENDS Integers, FiniteSets

CONSTANTS
  Attempts,     \* requests with the key
  BodyOf,       \* [Attempts -> bodies]: the fingerprint of each
  MarkTtl,      \* IN_PROGRESS_TTL_SECONDS
  AnswerTtl,    \* COMPLETED_TTL_SECONDS
  HandlerTime,  \* how long a request is carried out, at most
  MaxFailures,  \* bound: requests that the handler refuses
  MaxFaults,    \* bound: calls of Redis that fail and processes that die
  NoRecord

VARIABLES
  record,   \* what Redis has under the key
  attempt,  \* how far each request is, and for how long it has been carried out
  writes,   \* writes to Redis that nobody waits for
  effects,  \* how often the request was carried out, for as long as its answer is kept
  mishap    \* failures and faults so far

idempotencyVars == <<record, attempt, writes, effects, mishap>>

Fresh == [pc |-> "get", age |-> 0]
At(a) == attempt[a].pc

Init ==
  /\ record = NoRecord
  /\ attempt = [a \in Attempts |-> Fresh]
  /\ writes = {}
  /\ effects = 0
  /\ mishap = [failures |-> 0, faults |-> 0]

Move(a, pc) == attempt' = [attempt EXCEPT ![a] = [pc |-> pc, age |-> 0]]

\* A call of Redis fails.
Fault ==
  /\ mishap.faults < MaxFaults
  /\ mishap' = [mishap EXCEPT !.faults = @ + 1]

\* decideIdempotency, of a record that is there: refused for another body or while
\* the first is carried out, otherwise answered with what is kept.
Decision(rec, a) ==
  IF rec.body # BodyOf[a] THEN "reused"
  ELSE IF rec.state = "IN_PROGRESS" THEN "busy"
  ELSE "answered"

-----------------------------------------------------------------------------

\* IdempotencyService.begin asks for the record.
Get(a) ==
  /\ At(a) = "get"
  /\ \/ /\ Move(a, IF record = NoRecord THEN "reserve" ELSE Decision(record, a))
        /\ UNCHANGED mishap
     \/ Move(a, "reserve") /\ Fault
  /\ UNCHANGED <<record, writes, effects>>

Mark(a) == [state |-> "IN_PROGRESS", body |-> BodyOf[a], ttl |-> MarkTtl]

\* setIfAbsent.  Variant with a bug: the mark is set although there is one.
FreeAlways == TRUE

Free == record = NoRecord

\* The mark is set; without Redis the request goes on without it, and the mark may
\* have been set all the same by a call that only took too long.
Reserve(a) ==
  /\ At(a) = "reserve"
  /\ \/ /\ IF Free THEN record' = Mark(a) /\ Move(a, "execute")
                   ELSE UNCHANGED record /\ Move(a, "raced")
        /\ UNCHANGED mishap
     \/ /\ Move(a, "execute") /\ Fault
        /\ record' \in {record, IF Free THEN Mark(a) ELSE record}
  /\ UNCHANGED <<writes, effects>>

\* Somebody else was first; a record that is gone again counts as in progress.
Raced(a) ==
  /\ At(a) = "raced"
  /\ \/ /\ Move(a, IF record = NoRecord THEN "busy" ELSE Decision(record, a))
        /\ UNCHANGED mishap
     \/ Move(a, "busy") /\ Fault
  /\ UNCHANGED <<record, writes, effects>>

-----------------------------------------------------------------------------

\* The handler succeeds: its answer is sent, and to Redis without waiting.
Succeed(a) ==
  /\ At(a) = "execute"
  /\ effects' = effects + 1
  /\ writes' = writes \cup {[by |-> a, kind |-> "complete"]}
  /\ Move(a, "answered")
  /\ UNCHANGED <<record, mishap>>

\* The handler refuses or fails: the mark is removed, without waiting.
Fail(a) ==
  /\ At(a) = "execute"
  /\ mishap.failures < MaxFailures
  /\ mishap' = [mishap EXCEPT !.failures = @ + 1]
  /\ writes' = writes \cup {[by |-> a, kind |-> "abandon"]}
  /\ Move(a, "failed")
  /\ UNCHANGED <<record, effects>>

\* complete and abandon, whosever mark there is by then.
Arrive(w) ==
  /\ w \in writes
  /\ writes' = writes \ {w}
  /\ \/ /\ record' = IF w.kind = "abandon" THEN NoRecord
                      ELSE [state |-> "COMPLETED", body |-> BodyOf[w.by], ttl |-> AnswerTtl]
        /\ UNCHANGED mishap
     \/ UNCHANGED record /\ Fault
  /\ UNCHANGED <<attempt, effects>>

\* The process dies, before or after the handler committed; its client knows nothing.
Crash(a) ==
  /\ At(a) = "execute"
  /\ Fault
  /\ effects' \in {effects, effects + 1}
  /\ Move(a, "failed")
  /\ UNCHANGED <<record, writes>>

\* A client that was refused while the first one ran, or got no answer, tries again.
Retry(a) ==
  /\ At(a) \in {"busy", "failed"}
  /\ Move(a, "get")
  /\ UNCHANGED <<record, writes, effects, mishap>>

\* The record an instant later.  Variant with a bug: a mark does not expire.
AgedAnswersOnly ==
  IF record = NoRecord \/ record.state = "IN_PROGRESS" THEN record
  ELSE IF record.ttl = 1 THEN NoRecord ELSE [record EXCEPT !.ttl = @ - 1]

\* Variant with a bug: a record never goes.
AgedPastEnd ==
  IF record = NoRecord THEN record
  ELSE IF record.ttl = 0 THEN record ELSE [record EXCEPT !.ttl = @ - 1]

Aged ==
  IF record = NoRecord \/ record.ttl = 1 THEN NoRecord ELSE [record EXCEPT !.ttl = @ - 1]

\* Handlers end in time, and so do the writes to Redis.  Once an answer is forgotten
\* the key may be used again.
Tick ==
  /\ writes = {}
  /\ \A a \in Attempts : attempt[a].age < HandlerTime
  /\ record # NoRecord \/ \E a \in Attempts : At(a) = "execute"
  /\ record' = Aged
  /\ effects' = IF record # NoRecord /\ record.state = "COMPLETED" /\ Aged = NoRecord
                  THEN 0 ELSE effects
  /\ attempt' = [a \in Attempts |->
                   IF At(a) = "execute" THEN [attempt[a] EXCEPT !.age = @ + 1]
                   ELSE attempt[a]]
  /\ UNCHANGED <<writes, mishap>>

Serve(a) == Get(a) \/ Reserve(a) \/ Raced(a) \/ Succeed(a) \/ Fail(a)

Next ==
  \/ \E a \in Attempts : Serve(a) \/ Crash(a) \/ Retry(a)
  \/ \E w \in writes : Arrive(w)
  \/ Tick

Spec == Init /\ [][Next]_idempotencyVars

-----------------------------------------------------------------------------
(* Properties *)

TypeOK ==
  /\ record = NoRecord \/ record.ttl \in 1 .. AnswerTtl
  /\ attempt \in [Attempts ->
       [pc : {"get", "reserve", "raced", "execute", "answered", "busy", "reused",
              "failed"}, age : 0 .. HandlerTime]]
  /\ effects \in 0 .. Cardinality(Attempts) * (1 + MaxFaults)

\* While Redis answers and no process dies, requests with one key have their effect
\* once for as long as its answer is kept, however they overlap, fail and are retried.
ExecutedOnce == effects <= 1

\* A mark whose owner died or could not remove it does not refuse its client for ever.
EverybodyAnswered == \A a \in Attempts : At(a) \in {"answered", "reused"}

-----------------------------------------------------------------------------
(* The inductive invariant behind ExecutedOnce, and its proof *)

Kept == [state : {"IN_PROGRESS", "COMPLETED"}, body : {BodyOf[a] : a \in Attempts},
         ttl : Int]

\* Redis answers, no process dies, and a handler ends before its mark expires.
InTime ==
  /\ MaxFaults = 0 /\ NoRecord \notin Kept
  /\ MarkTtl \in Nat /\ AnswerTtl \in Nat /\ HandlerTime \in Nat /\ HandlerTime < MarkTtl

\* The record is the mark of a, as old as a is.
Marked(a) ==
  record = [state |-> "IN_PROGRESS", body |-> BodyOf[a], ttl |-> MarkTtl - attempt[a].age]

\* The key is with the one request that carries it out, or with the one write that tells
\* what became of it, or with the answer.
OneOwner ==
  /\ attempt \in [Attempts -> [pc : {"get", "reserve", "raced", "execute", "answered",
                                    "busy", "reused", "failed"}, age : 0 .. HandlerTime]]
  /\ record \in Kept \cup {NoRecord}
  /\ mishap.faults = 0
  /\ \A a \in Attempts : At(a) = "execute" =>
       /\ Marked(a) /\ writes = {}
       /\ \A b \in Attempts : At(b) = "execute" => b = a
  /\ \A w \in writes :
       /\ w.by \in Attempts /\ w.kind \in {"complete", "abandon"}
       /\ writes = {w} /\ record # NoRecord /\ record.state = "IN_PROGRESS"
  /\ effects = IF \/ record # NoRecord /\ record.state = "COMPLETED"
                  \/ \E w \in writes : w.kind = "complete"
                  THEN 1 ELSE 0

=============================================================================
