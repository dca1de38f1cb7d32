---------------------------- MODULE Testimonials ----------------------------
(***************************************************************************)
(* The order of testimonials on the website (testimonials/): an            *)
(* administrator writes the position of every one, row after row in one    *)
(* transaction, while others write theirs, add one or remove one.          *)
(***************************************************************************)
EXTENDS Naturals, FiniteSets, Sequences, Functions

CONSTANTS
  Admins,   \* requests of administrators
  Ids,      \* testimonials that may exist
  Orders    \* orders an administrator may ask for, sequences of Ids

VARIABLES
  place,    \* displayOrder of each; Absent: not created yet; Removed: no more
  admin,    \* requests
  asked,    \* the orders written last, in the order of their commits (history)
  tied      \* two creations overlapped (history)

vars == <<place, admin, asked, tied>>

Absent == 99
Removed == 98
Present == {i \in Ids : place[i] \notin {Absent, Removed}}
Idle == [pc |-> "idle", order |-> <<>>, written |-> [i \in {} |-> 0], id |-> 0]

TypeOK ==
  /\ \A i \in Ids : place[i] \in 0 .. 2 * Cardinality(Ids) \cup {Absent, Removed}
  /\ \A a \in Admins :
       /\ admin[a].pc \in {"idle", "reorder", "create", "remove", "done", "aborted"}
       /\ DOMAIN admin[a].written \subseteq Ids
  /\ tied \in BOOLEAN

Init ==
  /\ \E n \in Ids : place = [i \in Ids |-> IF i <= n THEN i - 1 ELSE Absent]
  /\ admin = [a \in Admins |-> Idle] /\ asked = <<>> /\ tied = FALSE

\* A row is locked by the transaction that wrote it until that ends.
Locked(i) == {a \in Admins : i \in DOMAIN admin[a].written}
NextRow(a) == admin[a].order[Cardinality(DOMAIN admin[a].written) + 1]
Wanted(a) ==
  CASE admin[a].pc = "reorder" /\ Len(admin[a].order) > Cardinality(DOMAIN admin[a].written)
         -> {NextRow(a)}
    [] admin[a].pc = "remove" -> {admin[a].id}
    [] OTHER -> {}
WaitsFor(a) == UNION {Locked(i) : i \in Wanted(a)} \ {a}

-----------------------------------------------------------------------------

\* The order asked for must name every testimonial there is.
Reorder(a, order) ==
  /\ admin[a].pc = "idle"
  /\ admin' = [admin EXCEPT ![a] =
       [Idle EXCEPT !.pc = IF Range(order) = Present THEN "reorder" ELSE "done",
                    !.order = order]]
  /\ UNCHANGED <<place, asked, tied>>

\* The rows are written in the order of the list.  A row that was removed ends it.
WriteRow(a) ==
  /\ admin[a].pc = "reorder" /\ Wanted(a) # {} /\ WaitsFor(a) = {}
  /\ LET i == NextRow(a) IN
     admin' = [admin EXCEPT ![a] =
       IF i \notin Present THEN [Idle EXCEPT !.pc = "aborted"]
       ELSE [@ EXCEPT !.written = [j \in {i} \cup DOMAIN @ |->
              IF j = i THEN Cardinality(DOMAIN @) ELSE @[j]]]]
  /\ UNCHANGED <<place, asked, tied>>

\* Variant with a bug: without a transaction each position is written at once.
CommitHalf(a) ==
  /\ admin[a].pc = "reorder" /\ admin[a].written # Idle.written
  /\ place' = [i \in Ids |-> IF i \in DOMAIN admin[a].written THEN admin[a].written[i]
                             ELSE place[i]]
  /\ admin' = [admin EXCEPT ![a].pc = "done", ![a].written = Idle.written]
  /\ asked' = <<admin[a].order>> /\ UNCHANGED tied

Commit(a) ==
  /\ admin[a].pc = "reorder" /\ Wanted(a) = {}
  /\ place' = [i \in Ids |-> IF i \in DOMAIN admin[a].written THEN admin[a].written[i]
                             ELSE place[i]]
  /\ admin' = [admin EXCEPT ![a].pc = "done", ![a].written = Idle.written]
  /\ asked' = <<admin[a].order>> /\ UNCHANGED tied

\* Of transactions that wait for each other the database aborts one.
BreakDeadlock(a) ==
  /\ \E b \in WaitsFor(a) : a \in WaitsFor(b)
  /\ admin' = [admin EXCEPT ![a] = [Idle EXCEPT !.pc = "aborted"]]
  /\ UNCHANGED <<place, asked, tied>>

AfterLast == LET places == {place[i] : i \in Present} IN
  IF places = {} THEN 0 ELSE 1 + CHOOSE p \in places : \A q \in places : q <= p

\* A new one comes after the last that is committed, ...
Create(a) ==
  /\ admin[a].pc = "idle"
  /\ \E i \in Ids : 
       /\ place[i] = Absent /\ \A b \in Admins : admin[b].id # i
       /\ admin' = [admin EXCEPT ![a] = [Idle EXCEPT !.pc = "create", !.id = i,
                                                     !.order = <<AfterLast>>]]
  /\ tied' = (tied \/ \E b \in Admins : admin[b].pc = "create")
  /\ UNCHANGED <<place, asked>>

\* ... as it was read before the row is inserted.
Insert(a) ==
  /\ admin[a].pc = "create"
  /\ place' = [place EXCEPT ![admin[a].id] = admin[a].order[1]]
  /\ admin' = [admin EXCEPT ![a] = [@ EXCEPT !.pc = "done"]]
  /\ asked' = [k \in DOMAIN asked |-> Append(asked[k], admin[a].id)] /\ UNCHANGED tied

Remove(a, i) ==
  /\ admin[a].pc = "idle" /\ i \in Present
  /\ admin' = [admin EXCEPT ![a] = [Idle EXCEPT !.pc = "remove", !.id = i]]
  /\ UNCHANGED <<place, asked, tied>>

Delete(a) ==
  /\ admin[a].pc = "remove" /\ WaitsFor(a) = {}
  /\ place' = [place EXCEPT ![admin[a].id] = Removed]
  /\ admin' = [admin EXCEPT ![a] = [Idle EXCEPT !.pc = "done"]]
  /\ UNCHANGED <<asked, tied>>

Step(a) == WriteRow(a) \/ Commit(a) \/ BreakDeadlock(a) \/ Insert(a) \/ Delete(a)

Next ==
  \E a \in Admins :
    \/ \E order \in Orders : Reorder(a, order)
    \/ Create(a) \/ (\E i \in Ids : Remove(a, i))
    \/ Step(a)

-----------------------------------------------------------------------------
(* Properties *)

\* The website shows the order that was committed last, whole: those removed since are
\* missing and those added since are behind; unless two were added at once.
OrderIsTheLastAsked ==
  asked # <<>> /\ ~tied =>
    \A k, l \in DOMAIN asked[1] :
      LET i == asked[1][k]
          j == asked[1][l] IN
      k < l /\ {i, j} \subseteq Present => place[i] < place[j]

\* Administrators who wait for each other's rows are not left waiting.
NobodyWaits == \A a \in Admins : admin[a].pc \in {"idle", "done", "aborted"}
=============================================================================
