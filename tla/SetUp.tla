------------------------------- MODULE SetUp -------------------------------
(***************************************************************************)
(* What the deployment writes before the spa works, and writes again with  *)
(* every deployment: the rows of its own database (prisma/seed.ts) and,    *)
(* through Conduit's interface, the templates, tools, prompt and intents   *)
(* of the assistant (prisma/seed-conduit-*.ts).  A run may die or fail at  *)
(* any request and is simply run again, while the operator of the panel    *)
(* writes, creates and removes the same things.                            *)
(***************************************************************************)
EXTENDS Naturals, FiniteSets, Sequences, SequencesExt

CONSTANTS MaxRuns,      \* runs of the seed, one after the other
          MaxMeddling,  \* how often the panel writes meanwhile
          MaxFailures   \* how many requests fail and processes die

VARIABLES
  rows,      \* rows[r]: what is found under the key of a row of the seed
  remote,    \* remote[i]: what Conduit keeps under a name of the catalogues
  seeder,    \* the run
  meddling, failing,   \* bounds
  lost,      \* what the panel wrote and a run replaced without being told to
  doubled,   \* what a run created although it was there when it looked
  removed    \* what the panel removed

vars == <<rows, remote, seeder, meddling, failing, lost, doubled, removed>>

-----------------------------------------------------------------------------
(* The catalogues, one entry for each way in which they are treated *)

\* The rows in the order of the seed: the administrator and the opening hours; the
\* categories; and what is found under the id of the category that has its name now,
\* pools and treatments.
OwnRows == <<"window", "category", "treatment">>

Templates == <<"reminder", "notice">>
Tools == <<"tool">>
\* The settings stand for the hook of business information as well.
PromptItems == <<"prompt", "settings">>

\* The catalogue lists an intent of the assistant before the one it can fall back to,
\* and one whose text is to be reviewed.
Intent(key, slim, fallback, locked) ==
  [key |-> key, slim |-> slim, fallbackTo |-> fallback, lockedMode |-> locked]
IntentCatalogue ==
  <<Intent("payments", FALSE, {}, TRUE), Intent("info", FALSE, {"question"}, FALSE),
    Intent("question", TRUE, {}, FALSE)>>
Intents == {IntentCatalogue[k].key : k \in DOMAIN IntentCatalogue}
TheIntent(key) == CHOOSE e \in ToSet(IntentCatalogue) : e.key = key

\* Variant with a bug: in the order of the catalogue.
OrderedAsListed == [k \in DOMAIN IntentCatalogue |-> IntentCatalogue[k].key]

\* Those of the reduced assistant first: others may fall back to them.
Ordered ==
  LET keys(slim) == SelectSeq(IntentCatalogue, LAMBDA e : e.slim = slim)
      both == keys(TRUE) \o keys(FALSE)
  IN [k \in DOMAIN both |-> both[k].key]

Parts == <<"rows", "templates", "tools", "prompt", "intents">>
Entries(part) ==
  CASE part = "rows" -> OwnRows
    [] part = "templates" -> Templates
    [] part = "tools" -> Tools
    [] part = "prompt" -> PromptItems
    [] part = "intents" -> Ordered

Items == ToSet(Templates) \cup ToSet(Tools) \cup ToSet(PromptItems) \cup Intents

\* What a bot has from the beginning: a prompt of Conduit's own.
Absent == [copies |-> 0, by |-> "nobody", mode |-> "none", modeBy |-> "nobody"]
Original == [Absent EXCEPT !.copies = 1]

Idle == [runs |-> 0, pc |-> "idle", part |-> 0, left |-> <<>>, known |-> {}, custom |-> {},
         since |-> {}, gone |-> {}, overwrite |-> FALSE, requested |-> "none", failed |-> {}]

Init ==
  /\ rows = [r \in ToSet(OwnRows) |-> "absent"]
  /\ remote = [i \in Items |-> IF i = "prompt" THEN Original ELSE Absent]
  /\ seeder = Idle
  /\ meddling = 0 /\ failing = 0 /\ lost = {} /\ doubled = {} /\ removed = {}

-----------------------------------------------------------------------------
(* A run *)

\* A run with the settings of its environment.
Start ==
  /\ seeder.pc \in {"idle", "done", "dead"} /\ seeder.runs < MaxRuns
  /\ \E overwrite \in BOOLEAN, requested \in {"none", "ACTIVE"} :
       seeder' = [Idle EXCEPT !.runs = seeder.runs + 1, !.pc = "row", !.part = 1,
                    !.left = OwnRows, !.overwrite = overwrite, !.requested = requested]
  /\ UNCHANGED <<rows, remote, meddling, failing, lost, doubled, removed>>

\* What was read is of no use any more.
Forgotten(s) == [s EXCEPT !.known = {}, !.custom = {}, !.since = {}]

\* The part is left behind, done or failed, and the next one begins.
Following(s) ==
  IF s.part = Len(Parts) THEN [Forgotten(s) EXCEPT !.pc = "done", !.left = <<>>]
  ELSE [Forgotten(s) EXCEPT !.part = @ + 1, !.pc = "list",
                            !.left = Entries(Parts[s.part + 1])]

\* The entry is dealt with.
Past(s) ==
  LET t == [s EXCEPT !.left = Tail(@)]
  IN IF t.left = <<>> THEN Following(t)
     ELSE IF Parts[t.part] = "prompt" THEN [Forgotten(t) EXCEPT !.pc = "list"]
     ELSE t

\* Variant with a bug: the row is written as the catalogue has it.
UpsertRowAnew ==
  /\ seeder.pc = "row"
  /\ rows' = [rows EXCEPT ![Head(seeder.left)] = "seeded"]
  /\ seeder' = Past(seeder)
  /\ lost' = lost \cup {r \in {Head(seeder.left)} : rows[r] = "edited"}
  /\ UNCHANGED <<remote, meddling, failing, doubled, removed>>

\* upsert with update: {}: the row is created unless its key is there (of the category
\* of the hair only its mark is set again).
UpsertRow ==
  /\ seeder.pc = "row"
  /\ LET r == Head(seeder.left)
     IN rows' = [rows EXCEPT ![r] = IF @ = "absent" THEN "seeded" ELSE @]
  /\ seeder' = Past(seeder)
  /\ UNCHANGED <<remote, meddling, failing, lost, doubled, removed>>

Present == {i \in Items : remote[i].copies > 0}

\* Variant with a bug: only the first page of the templates is read.
ListedFirstPage(part) ==
  IF part = "templates" THEN Present \cap {Templates[1]}
  ELSE Present \cap ToSet(Entries(part))

\* Every page.
Listed(part) == Present \cap ToSet(Entries(part))

\* What is there is listed once for the part; of the prompt's part every entry is read
\* just before it is written.
List ==
  /\ seeder.pc = "list"
  /\ LET s == seeder
         about == IF Parts[s.part] = "prompt" THEN {Head(s.left)}
                  ELSE ToSet(s.left)
     IN seeder' = [s EXCEPT !.pc = "write", !.since = {},
                             !.known = Listed(Parts[s.part]) \cap about,
                             !.custom = {i \in about : remote[i].by # "nobody"}]
  /\ UNCHANGED <<rows, remote, meddling, failing, lost, doubled, removed>>

\* Variant with a bug: tools are always written again.
WritesTools(s, i) ==
  i \notin s.known \/ s.overwrite \/ i = "tool" \/ (i = "prompt" /\ i \notin s.custom)

\* An entry is written when it was not listed, when the run overwrites, and the prompt
\* as long as it is Conduit's own.
Writes(s, i) ==
  i \notin s.known \/ s.overwrite \/ (i = "prompt" /\ i \notin s.custom)

\* Variant with a bug: the mode that was asked for goes before.
ModeAsRequested(s, i) ==
  IF i \notin Intents THEN remote[i].mode
  ELSE IF s.requested # "none" THEN s.requested
  ELSE IF TheIntent(i).lockedMode THEN "SHADOW"
  ELSE IF i \in s.known THEN remote[i].mode ELSE "SHADOW"

\* The mode of a new intent; of one that is there only a mode that was asked for or is
\* locked is set.
Mode(s, i) ==
  IF i \notin Intents THEN remote[i].mode
  ELSE IF TheIntent(i).lockedMode THEN "SHADOW"
  ELSE IF s.requested # "none" THEN s.requested
  ELSE IF i \in s.known THEN remote[i].mode ELSE "SHADOW"

\* Templates and tools that were not listed are created, whether or not one has come
\* meanwhile (Conduit may refuse that, see Refuse); the rest is put under its key.
Created(s, i) == i \in ToSet(Templates) \cup ToSet(Tools) /\ i \notin s.known

Effect(i) ==
  LET s == seeder
      old == remote[i]
      words == old.by = "operator" /\ ~Created(s, i) /\ ~s.overwrite
      mode == /\ old.modeBy = "operator" /\ Mode(s, i) # old.mode
              /\ s.requested = "none" /\ ~TheIntent(i).lockedMode
  IN /\ remote' = [remote EXCEPT ![i] =
          [copies |-> IF Created(s, i) THEN @.copies + 1 ELSE 1,
           by |-> IF Created(s, i) /\ @.copies > 0 THEN @.by ELSE "seed",
           mode |-> Mode(s, i),
           modeBy |-> IF Mode(s, i) = @.mode THEN @.modeBy ELSE "seed"]]
     /\ lost' = IF (words \/ mode) /\ i \notin s.since THEN lost \cup {i} ELSE lost
     /\ doubled' = IF Created(s, i) /\ remote[i].copies > 0 /\ i \notin s.since
                   THEN doubled \cup {i} ELSE doubled

\* The request for an entry: those that PUT or PATCH something that was removed fail.
Write ==
  LET s == seeder
      i == Head(s.left)
  IN /\ s.pc = "write" /\ Writes(s, i)
     /\ remote[i].copies < 2
     /\ i \in s.known /\ remote[i].copies = 0 => i \in Intents
     /\ Effect(i)
     /\ seeder' = Past(s)
     /\ UNCHANGED <<rows, meddling, failing, removed>>

\* The entry stays as it is.
Keep ==
  /\ seeder.pc = "write" /\ ~Writes(seeder, Head(seeder.left))
  /\ seeder' = Past(seeder)
  /\ UNCHANGED <<rows, remote, meddling, failing, lost, doubled, removed>>

Dead(s) == [Idle EXCEPT !.runs = s.runs, !.pc = "dead"]

\* Variant with a bug: a part that fails ends the run.
AbandonAll(s) == [s EXCEPT !.pc = "done", !.left = <<>>, !.failed = @ \cup {Parts[s.part]}]

\* A request fails, or is too often told to wait: the part is given up with a warning
\* and the next one begins; without its rows the run ends.
Abandon(s) ==
  IF Parts[s.part] = "rows" THEN Dead(s)
  ELSE Following([s EXCEPT !.failed = @ \cup {Parts[s.part]}])

\* Conduit refuses to create what it has, or to change what was removed.
Refuse ==
  LET s == seeder
      i == Head(s.left)
  IN /\ s.pc = "write" /\ Writes(s, i)
     /\ \/ Created(s, i) /\ remote[i].copies > 0
        \/ i \in s.known /\ remote[i].copies = 0 /\ i \notin Intents
     /\ seeder' = Abandon(s)
     /\ UNCHANGED <<rows, remote, meddling, failing, lost, doubled, removed>>

\* A request that fails may have been carried out (it is given up after ten seconds).
Fail ==
  LET s == seeder
  IN /\ s.pc \in {"row", "list", "write"} /\ failing < MaxFailures
     /\ failing' = failing + 1
     /\ \/ /\ seeder' = Abandon(s)
           /\ UNCHANGED <<remote, lost, doubled>>
        \/ /\ s.pc = "write" /\ Writes(s, Head(s.left)) /\ remote[Head(s.left)].copies < 2
           /\ Head(s.left) \in s.known => Head(s.left) \in Present \cup Intents
           /\ Effect(Head(s.left))
           /\ seeder' = Abandon(s)
     /\ UNCHANGED <<rows, meddling, removed>>

\* The process dies.
Die ==
  /\ seeder.pc \in {"row", "list", "write"} /\ failing < MaxFailures
  /\ failing' = failing + 1
  /\ seeder' = Dead(seeder)
  /\ UNCHANGED <<rows, remote, meddling, lost, doubled, removed>>

-----------------------------------------------------------------------------
(* The panel *)

Meddle == meddling < MaxMeddling /\ meddling' = meddling + 1

\* A row is changed, or gets a name under which the seed does not find it, and with a
\* category what is in it.
EditRow(r) ==
  /\ Meddle /\ rows[r] # "absent"
  /\ \/ rows' = [rows EXCEPT ![r] = "edited"] /\ UNCHANGED removed
     \/ /\ rows' = [q \in DOMAIN rows |->
             IF q = r \/ (r = "category" /\ q = "treatment")
             THEN "absent" ELSE rows[q]]
        /\ removed' = removed \cup {r}
  /\ seeder' = [seeder EXCEPT !.gone = IF seeder.pc = "dead" THEN @ ELSE @ \cup {"rows"}]
  /\ UNCHANGED <<remote, failing, lost, doubled>>

\* The run that has looked does not know.
Since(i) ==
  IF seeder.pc = "write" THEN [seeder EXCEPT !.since = @ \cup {i}] ELSE seeder

\* The operator writes an entry, whether or not it was there.
OperatorWrites(i) ==
  /\ Meddle /\ remote[i].copies < 2
  /\ remote' = [remote EXCEPT ![i] =
       IF @.copies > 0 THEN [@ EXCEPT !.by = "operator"]
       ELSE [copies |-> 1, by |-> "operator", modeBy |-> "operator",
             mode |-> IF i \in Intents THEN "SHADOW" ELSE "none"]]
  /\ seeder' = Since(i)
  /\ UNCHANGED <<rows, failing, lost, doubled, removed>>

\* The operator lets an intent answer.
OperatorSetsMode(i) ==
  /\ Meddle /\ remote[i].copies > 0
  /\ remote' = [remote EXCEPT ![i] = [@ EXCEPT !.mode = "ACTIVE", !.modeBy = "operator"]]
  /\ seeder' = Since(i)
  /\ UNCHANGED <<rows, failing, lost, doubled, removed>>

\* The operator removes a template, a tool or an intent.
OperatorRemoves(i) ==
  /\ Meddle /\ remote[i].copies = 1 /\ i \notin ToSet(PromptItems)
  /\ remote' = [remote EXCEPT ![i] = Absent]
  /\ removed' = removed \cup {i}
  /\ seeder' = [Since(i) EXCEPT !.gone = IF seeder.pc = "dead" THEN @ ELSE @ \cup {i}]
  /\ UNCHANGED <<rows, failing, lost, doubled>>

Next ==
  \/ Start \/ UpsertRow \/ List \/ Write \/ Keep \/ Refuse \/ Fail \/ Die
  \/ \E r \in ToSet(OwnRows) : EditRow(r)
  \/ \E i \in Items : OperatorWrites(i) \/ OperatorRemoves(i)
  \/ \E i \in Intents : OperatorSetsMode(i)

-----------------------------------------------------------------------------
TypeOK ==
  /\ rows \in [ToSet(OwnRows) -> {"absent", "seeded", "edited"}]
  /\ remote \in [Items -> [copies : 0 .. 2, by : {"nobody", "seed", "operator"},
                           modeBy : {"nobody", "seed", "operator"},
                           mode : {"none", "SHADOW", "ACTIVE"}]]
  /\ seeder.pc \in {"idle", "row", "list", "write", "done", "dead"}
  /\ seeder.failed \subseteq ToSet(Parts) /\ seeder.runs \in 0 .. MaxRuns
  /\ lost \subseteq Items \cup ToSet(OwnRows) /\ doubled \subseteq Items
  /\ removed \subseteq Items \cup ToSet(OwnRows)

\* What the spa wrote is replaced only by a run that was told to overwrite, or when it
\* was written after the run had looked (seed-conduit-*.ts; update: {} in seed.ts).
EditsAreKept == lost = {}

\* Nothing is created twice but what came after the run had looked.
CreatedOnce == doubled = {}

\* An intent never falls back to one that is not there, wherever a run breaks off, as
\* long as the operator has not removed that one.
FallbackStands ==
  \A i \in Intents \cap Present : remote[i].by = "seed" =>
    TheIntent(i).fallbackTo \subseteq Present \cup removed

\* An intent whose text waits for review answers nobody unless the operator lets it.
LockedIsSilent ==
  \A i \in Intents \cap Present : TheIntent(i).lockedMode =>
    remote[i].mode = "SHADOW" \/ remote[i].modeBy = "operator"

\* After a run that went through, whatever earlier ones left undone, everything is
\* there but the parts that were reported as failed and what the panel removed
\* meanwhile; a part that fails keeps none of the others from being done.
RunCompletes ==
  seeder.pc = "done" =>
    /\ \A r \in ToSet(OwnRows) : rows[r] # "absent" \/ "rows" \in seeder.gone
    /\ \A p \in ToSet(Parts) \ (seeder.failed \cup {"rows"}) :
         ToSet(Entries(p)) \subseteq Present \cup seeder.gone

Spec == Init /\ [][Next]_vars
=============================================================================
