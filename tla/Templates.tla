------------------------------ MODULE Templates ------------------------------
(***************************************************************************)
(* The templates of Conduit as this system knows them                      *)
(* (ConduitTemplateResolver): a message is sent with the id that Conduit   *)
(* gave to the template of a name, read page by page and kept five minutes;*)
(* and the requests of the panel (ConduitAdminController), which change    *)
(* templates and the bot, may time out although they are carried out, and  *)
(* forget what is kept when, and only when, they are answered.             *)
(***************************************************************************)
EXTENDS Integers, Sequences, FiniteSets, SequencesExt

CONSTANTS
  Wanted,       \* names the messages of this system ask for
  Names,        \* names of templates, those of other systems included
  Env,          \* names whose id a variable of the environment sets
  Lists,        \* what Conduit may have at first
  KnownIds,     \* ids of templates the panel may name
  NewIds,       \* ids of templates created later
  PageSize,     \* templates of a page
  Resolvers,    \* messages about to be sent
  Requests,     \* requests of the panel
  Kinds,        \* what they ask for
  Unset,        \* calls about what the environment gives no uuid of
  TTL,          \* how long a list is kept
  Patience,     \* how long the pages of a list may take, each with its own timeout
  MaxTime,      \* bound of the model
  MaxOutages    \* bound of the model: requests without an answer

VARIABLES
  listing,   \* Conduit's templates in its order: sequence of [id, name]
  cache,     \* the ids kept and since when; NoCache: none
  resolver,  \* messages
  panel,     \* requests of the panel
  clock, outages,
  revision,   \* number of changes of the list so far (history)
  forgotten, \* number of times the cache was forgotten (history)
  left       \* when an id ceased to have a name (history)

vars == <<listing, cache, resolver, panel, clock, outages, revision, forgotten, left>>

Edits == {"create", "rename", "remove"}
BotCalls == {"bot", "connection"}
TalkCalls == {"intents", "conversations"}
MessageCalls == {"messages"}
Missing == 0
FromEnv == -1
NoCache == <<>>
NoIds == [n \in Wanted |-> Missing]
Waiting == [pc |-> "idle"]
Unsent == [pc |-> "idle"]

TypeOK ==
  /\ \A i \in DOMAIN listing : listing[i].name \in Names
  /\ cache # NoCache => cache.at \in 0 .. clock /\ DOMAIN cache.byName = Wanted
  /\ \A r \in Resolvers : resolver[r].pc \in {"idle", "ask", "answered", "done"}
  /\ \A q \in Requests : panel[q].pc \in {"idle", "sent", "told"}
  /\ clock \in 0 .. MaxTime /\ outages \in 0 .. MaxOutages

-----------------------------------------------------------------------------
(* The list of Conduit *)

Bears(id, n) == [id |-> id, name |-> n] \in ToSet(listing)

\* The pages there are, and one of them.
TotalPages == (Len(listing) + PageSize - 1) \div PageSize
PageAt(page) ==
  SubSeq(listing, (page - 1) * PageSize + 1,
         IF page * PageSize < Len(listing) THEN page * PageSize ELSE Len(listing))

\* The first of each name in a list of templates.
FirstOf(templates, n) ==
  LET with == {i \in DOMAIN templates : templates[i].name = n}
  IN  IF with = {} THEN Missing
      ELSE templates[CHOOSE i \in with : \A j \in with : i <= j].id

\* Variant with a bug: the last of each name.
FoundLast(ids, templates) ==
  [n \in Wanted |-> IF FirstOf(templates, n) # Missing THEN FirstOf(templates, n) ELSE ids[n]]

\* The ids found so far, and those of a further page.
Found(ids, templates) ==
  [n \in Wanted |-> IF ids[n] # Missing THEN ids[n] ELSE FirstOf(templates, n)]

Init ==
  /\ listing \in Lists /\ cache = NoCache
  /\ resolver = [r \in Resolvers |-> Waiting] /\ panel = [q \in Requests |-> Unsent]
  /\ clock = 0 /\ outages = 0 /\ revision = 0 /\ forgotten = 0
  /\ left = [b \in {} |-> 0]

-----------------------------------------------------------------------------
(* Which id a message is sent with *)

\* Variant with a bug: a list that was read is kept.
FreshForEver == cache # NoCache

Fresh == cache # NoCache /\ clock - cache.at < TTL

\* What a message is sent with: its name, the id, and what the answer is of.
Answer(n, ids, failed) ==
  [pc |-> "done", name |-> n, id |-> ids[n], at |-> clock, failed |-> failed]

\* The variable of the environment goes first; then what is kept; else the list is read.
Resolve(r, n) ==
  /\ resolver[r].pc = "idle"
  /\ resolver' = [resolver EXCEPT ![r] =
       IF n \in Env THEN Answer(n, [NoIds EXCEPT ![n] = FromEnv], FALSE)
       ELSE IF Fresh THEN Answer(n, cache.byName, FALSE)
       ELSE [pc |-> "ask", name |-> n, page |-> 1, ids |-> NoIds, began |-> clock,
             revision |-> revision, forgotten |-> forgotten]]
  /\ UNCHANGED <<listing, cache, panel, clock, outages, revision, forgotten, left>>

\* Conduit answers with a page of what it has now.
SendPage(r) ==
  /\ resolver[r].pc = "ask"
  /\ resolver' = [resolver EXCEPT ![r] =
       [pc |-> "answered", name |-> @.name, page |-> @.page, ids |-> @.ids,
        began |-> @.began, revision |-> @.revision, forgotten |-> @.forgotten,
        templates |-> PageAt(@.page), total |-> TotalPages]]
  /\ UNCHANGED <<listing, cache, panel, clock, outages, revision, forgotten, left>>

\* Variant with a bug: only the first page is read.
IsFirst(page, total) == TRUE

IsLast(page, total) == page >= total

\* The page is added; after the last the list is kept, as of now, and the message has its id.
TakePage(r) ==
  LET f == resolver[r]
      ids == Found(f.ids, f.templates)
  IN  /\ f.pc = "answered"
      /\ IF IsLast(f.page, f.total)
         THEN /\ cache' = [at |-> clock, byName |-> ids, revision |-> f.revision,
                           forgotten |-> f.forgotten]
              /\ resolver' = [resolver EXCEPT ![r] = Answer(f.name, ids, FALSE)]
         ELSE /\ resolver' = [resolver EXCEPT ![r] =
                   [pc |-> "ask", name |-> f.name, page |-> f.page + 1, ids |-> ids,
                    began |-> f.began, revision |-> f.revision, forgotten |-> f.forgotten]]
              /\ UNCHANGED cache
      /\ UNCHANGED <<listing, panel, clock, outages, revision, forgotten, left>>

\* A page does not come: what was kept serves, however old; nothing, when nothing was.
LoseList(r) ==
  /\ resolver[r].pc = "ask" /\ outages < MaxOutages
  /\ outages' = outages + 1
  /\ resolver' = [resolver EXCEPT ![r] =
       Answer(@.name, IF cache = NoCache THEN NoIds ELSE cache.byName, TRUE)]
  /\ UNCHANGED <<listing, cache, panel, clock, revision, forgotten, left>>

\* The message is sent, or given up for good without an id; another is due.
Use(r) ==
  /\ resolver[r].pc = "done"
  /\ resolver' = [resolver EXCEPT ![r] = Waiting]
  /\ UNCHANGED <<listing, cache, panel, clock, outages, revision, forgotten, left>>

-----------------------------------------------------------------------------
(* The panel *)

\* A call about the bot or the connection is not made without its id.
Refused(kind) == kind \in Unset

\* The requests of the panel: a template of a new id, one renamed or removed (perhaps one
\* that is gone), a call about the bot, its connection, what it talks about or messages.
Calls ==
  [kind : {"create"}, id : NewIds, name : Names]
  \cup [kind : {"rename"}, id : KnownIds, name : Names]
  \cup [kind : {"remove"}, id : KnownIds, name : {""}]
  \cup [kind : BotCalls \cup TalkCalls \cup MessageCalls, id : {Missing}, name : {""}]

Ask(q, call) ==
  /\ panel[q].pc = "idle" /\ call.kind \in Kinds
  /\ panel' = [panel EXCEPT ![q] =
       IF Refused(call.kind)
       THEN [pc |-> "told", kind |-> call.kind, id |-> call.id, name |-> call.name,
             fate |-> "refused", status |-> 0, told |-> "CONDUIT_NOT_CONFIGURED"]
       ELSE [pc |-> "sent", kind |-> call.kind, id |-> call.id, name |-> call.name,
             fate |-> "open", status |-> 0, told |-> ""]]
  /\ UNCHANGED <<listing, cache, resolver, clock, outages, revision, forgotten, left>>

\* What becomes of the list; Conduit lists what is new first.
Edited(f) ==
  CASE f.kind = "create" -> <<[id |-> f.id, name |-> f.name]>> \o listing
    [] f.kind = "remove" -> SelectSeq(listing, LAMBDA t : t.id # f.id)
    [] f.kind = "rename" ->
         [i \in DOMAIN listing |-> IF listing[i].id = f.id THEN [listing[i] EXCEPT !.name = f.name]
                                   ELSE listing[i]]
    [] OTHER -> listing

\* What Conduit has decided of a request; its status is of use only while it is awaited.
Decided(f, fate, status) ==
  [f EXCEPT !.fate = fate, !.id = Missing, !.name = "",
            !.status = IF f.pc = "sent" THEN status ELSE 0]

Known(id) == \E t \in ToSet(listing) : t.id = id

\* Conduit carries a request out, even one the panel no longer waits for; its answer may
\* still be that it failed.
CarryOut(q) ==
  LET f == panel[q]
      lost == {b \in ToSet(listing) : b.name \in Wanted /\ b \notin ToSet(Edited(f))}
  IN  /\ f.pc # "idle" /\ f.fate = "open"
      /\ f.kind \in {"rename", "remove"} => Known(f.id)
      /\ f.kind = "create" => ~Known(f.id)
      /\ listing' = Edited(f)
      /\ revision' = IF Edited(f) = listing THEN revision ELSE revision + 1
      /\ left' = [b \in DOMAIN left \cup {<<t.id, t.name>> : t \in lost} |->
                    IF b \in DOMAIN left /\ ~\E t \in lost : b = <<t.id, t.name>> THEN left[b]
                    ELSE clock]
      /\ \E status \in {200, 500} :
           panel' = [panel EXCEPT ![q] = Decided(f, "done", status)]
      /\ UNCHANGED <<cache, resolver, clock, outages, forgotten>>

\* Or refuses it: the key of this system, a template that is not there, what the body says.
Reject(q) ==
  LET f == panel[q] IN
  /\ f.pc # "idle" /\ f.fate = "open"
  /\ \E status \in {401, 404, 409, 500} :
       /\ status = 404 => f.kind \in {"rename", "remove"} /\ ~Known(f.id)
       /\ panel' = [panel EXCEPT ![q] = Decided(f, "refused", status)]
  /\ UNCHANGED <<listing, cache, resolver, clock, outages, revision, forgotten, left>>

\* Variant with a bug: an error of Conduit counts as its refusal.
ToldRejected(status) ==
  CASE status = 200 -> "done"
    [] status = 0 -> "CONDUIT_UNAVAILABLE"
    [] status = 404 -> "NOT_FOUND"
    [] OTHER -> "CONDUIT_REQUEST_REJECTED"

\* What the panel is told of an answer, and of none (status 0).
Told(status) ==
  CASE status = 200 -> "done"
    [] status = 0 \/ status >= 500 -> "CONDUIT_UNAVAILABLE"
    [] status \in {401, 403} -> "CONDUIT_NOT_CONFIGURED"
    [] status = 404 -> "NOT_FOUND"
    [] OTHER -> "CONDUIT_REQUEST_REJECTED"

Finished(f, status) ==
  [f EXCEPT !.pc = "told", !.told = Told(status), !.status = 0,
            !.id = IF f.fate = "open" THEN @ ELSE Missing,
            !.name = IF f.fate = "open" THEN @ ELSE ""]

\* Variant with a bug: what is removed stays in the cache.
ForgetsAdditions(kind) == kind \in {"create", "rename"}

\* Edits of templates forget what is kept.
Forgets(kind) == kind \in Edits

\* The answer arrives: a template that was edited forgets what is kept.
Hear(q) ==
  LET f == panel[q]
      forgets == f.status = 200 /\ Forgets(f.kind)
  IN  /\ f.pc = "sent" /\ f.fate # "open"
      /\ panel' = [panel EXCEPT ![q] = Finished(f, f.status)]
      /\ cache' = IF forgets THEN NoCache ELSE cache
      /\ forgotten' = IF forgets THEN forgotten + 1 ELSE forgotten
      /\ UNCHANGED <<listing, resolver, clock, outages, revision, left>>

\* Ten seconds without an answer: nothing is forgotten, whatever becomes of the request.
TimeOut(q) ==
  /\ panel[q].pc = "sent" /\ outages < MaxOutages
  /\ outages' = outages + 1
  /\ panel' = [panel EXCEPT ![q] = Finished(@, 0)]
  /\ UNCHANGED <<listing, cache, resolver, clock, revision, forgotten, left>>

Tick ==
  /\ clock < MaxTime
  /\ \A r \in Resolvers :
       resolver[r].pc \in {"ask", "answered"} => clock - resolver[r].began < Patience
  /\ clock' = clock + 1
  /\ UNCHANGED <<listing, cache, resolver, panel, outages, revision, forgotten, left>>

Next ==
  \/ \E r \in Resolvers :
       \/ \E n \in Wanted : Resolve(r, n)
       \/ SendPage(r) \/ TakePage(r) \/ LoseList(r) \/ Use(r)
  \/ \E q \in Requests :
       \/ (\E call \in Calls : Ask(q, call)) \/ CarryOut(q) \/ Reject(q) \/ Hear(q) \/ TimeOut(q)
  \/ Tick

Spec == Init /\ [][Next]_vars

-----------------------------------------------------------------------------

\* The panel is told that a request was carried out when it was, and that it was refused
\* or found nothing only when nothing was changed (translate).
ToldIsTrue ==
  \A q \in Requests : panel[q].pc = "told" =>
    /\ panel[q].told = "done" => panel[q].fate = "done"
    /\ panel[q].told \in {"NOT_FOUND", "CONDUIT_REQUEST_REJECTED", "CONDUIT_NOT_CONFIGURED"} =>
         panel[q].fate = "refused"

\* What is kept is what Conduit has, all pages of it, the first of each name - unless the
\* list changed meanwhile by a request that is not answered yet or never was, or was
\* answered while the list was being read (invalidate forgets what is kept, not what is
\* under way).
KeptIsTrue ==
  cache # NoCache =>
    \/ cache.byName = Found(NoIds, listing)
    \/ cache.revision < revision /\
         \/ cache.forgotten < forgotten
         \/ \E q \in Requests :
              panel[q].pc # "idle" /\ panel[q].fate = "done" /\ panel[q].kind \in Edits
              /\ panel[q].told # "done"

\* An id that a message is sent with had its name not longer ago than a list is kept and
\* read, except where Conduit did not give a new list (templatesByName).
IdsAreRecent ==
  \A r \in Resolvers : resolver[r].pc = "done" =>
    LET f == resolver[r] IN
    f.id \in {Missing, FromEnv} \/ f.failed \/ Bears(f.id, f.name)
    \/ left[<<f.id, f.name>>] >= f.at - TTL - Patience
=============================================================================
