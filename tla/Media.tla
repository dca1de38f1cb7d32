------------------------------- MODULE Media -------------------------------
(***************************************************************************)
(* A picture or video that a row shows and Cloudinary stores: of a variant *)
(* of a product, of a service or of a testimonial.  It is stored before    *)
(* the row names it and destroyed after the row has ceased to, with other  *)
(* requests of administrators, failures and crashes in between.            *)
(***************************************************************************)
EXTENDS Naturals, FiniteSets

CONSTANTS
  Admins,       \* requests; the picture that one uploads has its number
  Kinds,        \* of row, a part of {"variant", "video", "testimonial"}
  MaxFailures,  \* bound on calls that fail
  MaxCrashes    \* bound on crashes of the process

NoPicture == 0
Old == 100      \* the picture of before

VARIABLES
  kind,
  shown,     \* imagePublicId of the row, or "gone": there is no row
  stored,    \* pictures at Cloudinary
  admin,     \* requests
  failures, crashes,
  severed,   \* pictures that were destroyed for a query after they were shown (history)
  disturbed  \* two requests overlapped, a call failed or the process crashed (history)

vars == <<kind, shown, stored, admin, failures, crashes, severed, disturbed>>

Gone == 200
Pictures == Admins \cup {Old}
Idle == [op |-> "none", pc |-> "idle", previous |-> NoPicture]

TypeOK ==
  /\ kind \in Kinds /\ shown \in Pictures \cup {NoPicture, Gone} /\ stored \subseteq Pictures
  /\ \A a \in Admins :
       /\ admin[a].op \in {"none", "upload", "removeImage", "update", "removeRow",
                           "removeProduct"}
       /\ admin[a].pc \in {"idle", "upload", "set", "invalidate", "query", "destroy", "undo",
                           "done"}
       /\ admin[a].previous \in Pictures \cup {NoPicture}
  /\ failures \in 0 .. MaxFailures /\ crashes \in 0 .. MaxCrashes /\ severed \subseteq Pictures
  /\ disturbed \in BOOLEAN

Start(k, picture) ==
  /\ kind = k /\ shown = picture /\ stored = {picture} \ {NoPicture}
  /\ admin = [a \in Admins |-> Idle]
  /\ failures = 0 /\ crashes = 0 /\ severed = {} /\ disturbed = FALSE

Init == \E k \in Kinds, picture \in {NoPicture, Old} : Start(k, picture)

-----------------------------------------------------------------------------

Fails == failures < MaxFailures /\ failures' = failures + 1 /\ disturbed' = TRUE
Works == UNCHANGED <<failures, disturbed>>
Goto(a, pc) == admin' = [admin EXCEPT ![a].pc = pc]
UnderWay == {a \in Admins : admin[a].pc \notin {"idle", "done"}}

\* The row is read.  Nothing is removed that is not there; a picture of a variant may be.
\* An update of a variant to another address of its picture forgets the one stored.
Offered ==
  {"upload"}
  \cup (IF kind = "variant" \/ shown # NoPicture THEN {"removeImage"} ELSE {})
  \cup (IF kind = "variant" THEN {"update", "removeRow", "removeProduct"} ELSE {})
  \cup (IF kind = "testimonial" THEN {"removeRow"} ELSE {})

Find(a, op) ==
  /\ admin[a].pc = "idle" /\ shown # Gone /\ op \in Offered
  /\ admin' = [admin EXCEPT ![a] = [op |-> op, previous |-> shown,
                                    pc |-> IF op = "upload" THEN "upload" ELSE "set"]]
  /\ disturbed' = (disturbed \/ UnderWay # {})
  /\ UNCHANGED <<kind, shown, stored, failures, crashes, severed>>

\* An upload that fails after its retries may have been stored.
Upload(a) ==
  /\ admin[a].pc = "upload"
  /\ \/ Works /\ stored' = stored \cup {a} /\ Goto(a, "set")
     \/ Fails /\ stored' \in {stored, stored \cup {a}} /\ Goto(a, "undo")
  /\ UNCHANGED <<kind, shown, crashes, severed>>

Becomes(a) ==
  CASE admin[a].op = "upload" -> a
    [] admin[a].op \in {"removeImage", "update"} -> NoPicture
    [] OTHER -> Gone

AfterSet == IF kind = "testimonial" THEN "destroy" ELSE "invalidate"

\* The row is written, unless it is gone or the database fails.  A product is deleted
\* with its variants, whose pictures are then read.
Set(a) ==
  /\ admin[a].pc = "set"
  /\ \/ /\ shown # Gone /\ Works /\ shown' = Becomes(a)
        /\ admin' = [admin EXCEPT
             ![a].pc = AfterSet,
             ![a].previous = IF admin[a].op = "removeProduct" THEN shown ELSE @]
     \/ /\ \/ shown = Gone /\ Works
           \/ Fails
        /\ Goto(a, IF admin[a].op = "upload" THEN "undo" ELSE "done")
        /\ UNCHANGED shown
  /\ UNCHANGED <<kind, stored, crashes, severed>>

\* Entries of the cache are deleted, which never fails; of a variant the treatments that
\* recommend the product are asked for, which may: then an upload is undone.
Invalidate(a) ==
  /\ admin[a].pc = "invalidate"
  /\ \/ Works /\ Goto(a, "destroy") /\ UNCHANGED severed
     \/ /\ kind = "variant" /\ admin[a].op # "removeProduct" /\ Fails
        /\ IF admin[a].op = "upload"
           THEN Goto(a, "undo") /\ severed' = severed \cup {a}
           ELSE Goto(a, "done") /\ UNCHANGED severed
  /\ UNCHANGED <<kind, shown, stored, crashes>>

\* A picture is destroyed quietly: a failure is logged.
Destroyed(picture) ==
  \/ Works /\ stored' = stored \ {picture}
  \/ Fails /\ UNCHANGED stored

\* Variant with a bug: what the row shows by now is destroyed.
DestroyShown(a) ==
  /\ admin[a].pc = "destroy" /\ Goto(a, "done")
  /\ IF admin[a].previous = NoPicture THEN Works /\ UNCHANGED stored
     ELSE Destroyed(IF shown = a THEN admin[a].previous ELSE shown)
  /\ UNCHANGED <<kind, shown, crashes, severed>>

\* Variant with a bug: a row that is removed leaves its picture.
DestroyReplaced(a) ==
  /\ admin[a].pc = "destroy" /\ Goto(a, "done")
  /\ IF admin[a].op \in {"removeRow", "removeProduct"} THEN Works /\ UNCHANGED stored
     ELSE Destroyed(admin[a].previous)
  /\ UNCHANGED <<kind, shown, crashes, severed>>

Destroy(a) ==
  /\ admin[a].pc = "destroy" /\ Goto(a, "done")
  /\ IF admin[a].previous = NoPicture THEN Works /\ UNCHANGED stored
     ELSE Destroyed(admin[a].previous)
  /\ UNCHANGED <<kind, shown, crashes, severed>>

Undo(a) ==
  /\ admin[a].pc = "undo" /\ Goto(a, "done") /\ Destroyed(a)
  /\ UNCHANGED <<kind, shown, crashes, severed>>

Crash ==
  /\ crashes < MaxCrashes /\ UnderWay # {} /\ crashes' = crashes + 1 /\ disturbed' = TRUE
  /\ admin' = [a \in Admins |-> IF a \in UnderWay THEN [admin[a] EXCEPT !.pc = "done"]
                                ELSE admin[a]]
  /\ UNCHANGED <<kind, shown, stored, failures, severed>>

Next ==
  \/ \E a \in Admins :
       \/ \E op \in {"upload", "removeImage", "update", "removeRow", "removeProduct"} :
            Find(a, op)
       \/ Upload(a) \/ Set(a) \/ Invalidate(a) \/ Destroy(a) \/ Undo(a)
  \/ Crash

-----------------------------------------------------------------------------
(* Properties *)

Shows(picture) == shown = picture /\ picture \notin {NoPicture, Gone}

\* What a row shows is stored, however requests overlap, fail or are cut short; but for
\* a picture of a variant whose upload is undone when a query fails after the row names it.
ShownIsStored == \A p \in Pictures \ severed : Shows(p) => p \in stored

\* Requests one at a time that go well leave nothing at Cloudinary that no row names.
NothingIsLeft == ~disturbed /\ UnderWay = {} => stored = {shown} \ {NoPicture, Gone}
=============================================================================
