------------------------------- MODULE Audit -------------------------------
(***************************************************************************)
(* The audit log (audit/): a request that matches a rule has the row it    *)
(* names read before its handler (AuditInterceptor.loadSnapshot) and, once *)
(* the handler has succeeded, an entry written for that row, or for each   *)
(* row that it made, without waiting.  A handler may succeed because there *)
(* was nothing left to do: its entry is written like any other.  A request *)
(* repeated with its idempotency key is answered further out and never     *)
(* gets here.  Other requests change the same rows, reads and writes of    *)
(* the log fail and processes die.                                         *)
(***************************************************************************)
EXTENDS Integers, FiniteSets, Sequences, SequencesExt

CONSTANTS
  Requests,   \* numbered from 1
  Routes,     \* what they may ask for: [method, path]; the path has AnId for an id
  OwnRows,    \* rows there are at first: id -> resource
  NewRows,    \* ids of rows that are made, ascending
  Groups,     \* sets of ids: appointments that move together
  MaxLapses   \* bound of the model: reads and writes that fail, processes that die

VARIABLES
  row,      \* id -> resource, and the request that wrote it last
  entries,  \* the log
  request,
  history,  \* what handlers that succeeded left of their rows, in order (history)
  lapses

vars == <<row, entries, request, history, lapses>>

AnId == "{id}"
AnyVerb == "{verb}"
Unread == -1   \* no row, or nothing read
Initially == 0

-----------------------------------------------------------------------------
(* Rules *)

Rule(method, pattern, action, source) ==
  [method |-> method, pattern |-> pattern, action |-> action, source |-> source]

AUDIT_RULES == <<
  Rule("POST", <<"clients">>, "CREATE_CLIENT", "result"),
  Rule("PATCH", <<"clients", AnId>>, "UPDATE_CLIENT", "param"),
  Rule("PUT", <<"clients", AnId, "hair-profile">>, "UPDATE_CLIENT", "param"),
  Rule("POST", <<"clients", AnId, "hair-profile", "confirm">>, "UPDATE_CLIENT", "param"),
  Rule("POST", <<"clients", AnId, "consents">>, "RECORD_CLIENT_CONSENT", "param"),
  Rule("POST", <<"clients", AnId, "anonymize">>, "ANONYMIZE_CLIENT", "param"),
  Rule("POST", <<"reservations">>, "CREATE_RESERVATION", "result-reservations"),
  Rule("PATCH", <<"reservations", AnId, AnyVerb>>, "UPDATE_RESERVATION", "param"),
  Rule("POST", <<"treatments">>, "CREATE_TREATMENT", "result"),
  Rule("PATCH", <<"treatments", AnId>>, "UPDATE_TREATMENT", "param"),
  Rule("DELETE", <<"treatments", AnId>>, "DELETE_TREATMENT", "param"),
  Rule("PATCH", <<"capacity-pools", AnId>>, "UPDATE_CAPACITY_POOL", "param")>>

\* A part between two slashes; any word may stand for an id, but no id for a verb.
Fits(part, word) == part \in {word, AnId} \/ (part = AnyVerb /\ word # AnId)

\* Variant with a bug: the pattern is not tied to the end of the path.
MatchesStart(rule, route) ==
  /\ rule.method = route.method /\ Len(rule.pattern) <= Len(route.path)
  /\ \A i \in DOMAIN rule.pattern : Fits(rule.pattern[i], route.path[i])

Matches(rule, route) ==
  /\ rule.method = route.method /\ Len(rule.pattern) = Len(route.path)
  /\ \A i \in DOMAIN rule.pattern : Fits(rule.pattern[i], route.path[i])

\* matchAuditRule: the first that matches.
Matching(route) == SelectSeq(AUDIT_RULES, LAMBDA rule : Matches(rule, route))
IsAudited(route) == Matching(route) # <<>>

-----------------------------------------------------------------------------
(* Requests *)

Idle == [pc |-> "idle"]

TypeOK ==
  /\ \A k \in DOMAIN row : row[k].by \in Requests \cup {Initially}
  /\ \A i \in DOMAIN entries : entries[i].by \in Requests
  /\ \A q \in Requests : request[q].pc \in {"idle", "snapshot", "handle", "end"}
  /\ lapses \in 0 .. MaxLapses

Init ==
  /\ row = [k \in DOMAIN OwnRows |-> [resource |-> OwnRows[k], by |-> Initially]]
  /\ entries = <<>> /\ history = <<>> /\ lapses = 0
  /\ request = [q \in Requests |-> Idle]

Names(route) == \E i \in DOMAIN route.path : route.path[i] = AnId
OfResource(route) == {k \in DOMAIN row : row[k].resource = route.path[1]}

\* A request arrives: a rule has the row read first, if there is an id in its path.
Arrive(q) ==
  /\ request[q].pc = "idle"
  /\ \E route \in Routes : \E k \in IF Names(route) THEN OfResource(route) ELSE {Unread} :
       request' = [request EXCEPT ![q] =
         [pc |-> IF Names(route) /\ IsAudited(route) THEN "snapshot" ELSE "handle",
          route |-> route, id |-> k, before |-> Unread, since |-> Len(history),
          pending |-> <<>>, done |-> {}, lapsed |-> FALSE]]
  /\ UNCHANGED <<row, entries, history, lapses>>

\* The row as it is now, or nothing when it cannot be read.
LoadSnapshot(q) ==
  /\ request[q].pc = "snapshot"
  /\ \/ /\ request' = [request EXCEPT ![q].pc = "handle", ![q].since = Len(history),
                                      ![q].before = row[request[q].id].by]
        /\ UNCHANGED lapses
     \/ /\ lapses < MaxLapses /\ lapses' = lapses + 1
        /\ request' = [request EXCEPT ![q].pc = "handle", ![q].lapsed = TRUE]
  /\ UNCHANGED <<row, entries, history>>

\* Who may succeed without a change: the consent was there, the client was anonymised, the
\* client had cancelled, the visit had begun.
MayLeave(route) ==
  route.path \in {<<"clients", AnId, "consents">>, <<"clients", AnId, "anonymize">>,
                  <<"reservations", AnId, "cancel">>, <<"reservations", AnId, "check-in">>}

\* What a handler writes: the row it names or, of its combo, those that were left to write;
\* or new ones, of a combo as many as it has parts.
Written(f) ==
  IF Names(f.route)
  THEN {{f.id}} \cup (IF MayLeave(f.route) THEN {{}} ELSE {})
         \cup UNION {SUBSET combo : combo \in {c \in Groups : f.id \in c}}
  ELSE LET free == {k \in NewRows : k \notin DOMAIN row}
       IN  {new \in SUBSET free :
              /\ Cardinality(new) \in IF f.route.path = <<"reservations">> THEN {1, 2} ELSE {1}
              /\ \A k \in new, j \in free \ new : k < j}

\* Variant with a bug: of those in the result the first is recorded.
IdsFirst(f, new) ==
  IF Names(f.route) THEN <<f.id>> ELSE <<CHOOSE k \in new : \A j \in new : k <= j>>

\* Which rows the entries are about: the one the path names and no other of its combo, or
\* those of the result in their order.
Ids(f, new) ==
  IF Names(f.route) THEN <<f.id>> ELSE SetToSortSeq(new, LAMBDA j, k : j < k)

\* Variant with a bug: the entries are written whether or not the handler succeeds.
TapsAlways(succeeds) == TRUE

Taps(succeeds) == succeeds

\* The handler succeeds or fails, and its answer is given; what is recorded is under way.
\* The row it names may be left as it is.
Handle(q) ==
  LET f == request[q] IN
  /\ f.pc = "handle"
  /\ \E new \in Written(f), succeeds \in BOOLEAN :
       LET about == SetToSortSeq(new \cup ({f.id} \ {Unread}), LAMBDA j, k : j < k)
           was(k) == IF k \in DOMAIN row THEN row[k].by ELSE Unread
       IN  /\ row' = IF ~succeeds THEN row
                     ELSE [k \in DOMAIN row \cup new |->
                             IF k \in new THEN [resource |-> f.route.path[1], by |-> q] ELSE row[k]]
           /\ history' = IF ~succeeds THEN history
                         ELSE history \o [i \in DOMAIN about |->
                                [by |-> q, id |-> about[i], from |-> was(about[i]),
                                 to |-> IF about[i] \in new THEN q ELSE was(about[i])]]
           /\ request' = [request EXCEPT ![q].pc = "end",
                ![q].done = IF succeeds THEN ToSet(about) ELSE {},
                ![q].pending = IF IsAudited(f.route) /\ Taps(succeeds)
                               THEN Ids(f, new) ELSE <<>>]
  /\ UNCHANGED <<entries, lapses>>

\* Variant with a bug: what the row was is read when it is recorded.
OldAsNow(f) == IF f.id = Unread THEN Unread ELSE row[f.id].by

Old(f) == f.before

\* One entry after the other; one that cannot be written is left out.
Record(q) ==
  LET f == request[q] IN
  /\ f.pc = "end" /\ f.pending # <<>>
  /\ \/ /\ entries' = Append(entries, [by |-> q, id |-> Head(f.pending), old |-> Old(f),
                                       new |-> q, action |-> Matching(f.route)[1].action])
        /\ request' = [request EXCEPT ![q].pending = Tail(@)]
        /\ UNCHANGED lapses
     \/ /\ lapses < MaxLapses /\ lapses' = lapses + 1
        /\ request' = [request EXCEPT ![q].pending = Tail(@), ![q].lapsed = TRUE]
        /\ UNCHANGED entries
  /\ UNCHANGED <<row, history>>

\* The process dies after the handler committed.
Die(q) ==
  /\ lapses < MaxLapses /\ lapses' = lapses + 1
  /\ request[q].pc = "end" /\ request[q].pending # <<>>
  /\ request' = [request EXCEPT ![q].pending = <<>>, ![q].lapsed = TRUE]
  /\ UNCHANGED <<row, entries, history>>


\* The interceptor of idempotency keys is the outermost.
Inside(replayed) == ~replayed

\* A request with the key of one that was answered: the same answer.
Repeat(q) ==
  /\ request[q].pc = "idle"
  /\ \E p \in Requests :
       /\ request[p].pc = "end" /\ request[p].done # {}
       /\ request' = [request EXCEPT ![q] =
            [request[p] EXCEPT !.before = Unread, !.since = Len(history), !.done = {},
               !.lapsed = FALSE,
               !.pending = IF Inside(TRUE) /\ IsAudited(request[p].route)
                           THEN Ids(request[p], request[p].done) ELSE <<>>]]
  /\ UNCHANGED <<row, entries, history, lapses>>

Next ==
  \E q \in Requests :
    \/ Arrive(q) \/ LoadSnapshot(q) \/ Handle(q) \/ Record(q) \/ Die(q) \/ Repeat(q)

Spec == Init /\ [][Next]_vars

-----------------------------------------------------------------------------

\* Where in the history a request left a row; 0: nowhere.
LeftAt(q, k) ==
  LET at == {i \in DOMAIN history : history[i].by = q /\ history[i].id = k}
  IN  IF at = {} THEN 0 ELSE CHOOSE i \in at : TRUE

\* An entry is about a row that its own handler made, changed or, having succeeded, left as
\* it was, and there is one entry for it: refused and repeated requests leave none.
EntriesAreTrue ==
  /\ \A i \in DOMAIN entries :
       LeftAt(entries[i].by, entries[i].id) # 0
  /\ \A i, j \in DOMAIN entries :
       entries[i].by = entries[j].by /\ entries[i].id = entries[j].id => i = j

\* What an entry says the row was is what its handler met, unless it could not be read or
\* another request changed the row after it was read.
OldIsTrue ==
  \A i \in DOMAIN entries :
    LET e == entries[i]
        at == LeftAt(e.by, e.id)
    IN  at # 0 =>
          \/ e.old = history[at].from
          \/ e.old = Unread /\ request[e.by].lapsed
          \/ \E j \in request[e.by].since + 1 .. at - 1 :
               history[j].id = e.id /\ history[j].from # history[j].to

\* Every row that an audited request made, and the one it was asked to change, has its entry
\* once the recording is over, unless a write of the log failed or the process died.  The
\* rest of a combo that moved with the row named changes without an entry.
NothingUnrecorded ==
  \A q \in Requests :
    request[q].pc = "end" /\ request[q].pending = <<>> /\ ~request[q].lapsed
      /\ IsAudited(request[q].route) =>
        \A k \in IF Names(request[q].route) THEN request[q].done \cap {request[q].id}
                 ELSE request[q].done :
          \E i \in DOMAIN entries : entries[i].by = q /\ entries[i].id = k

\* No path is matched by two rules: their order does not matter.
RulesAreDistinct == \A route \in Routes : Len(Matching(route)) <= 1
=============================================================================
