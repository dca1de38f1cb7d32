----------------------------- MODULE Promotions -----------------------------
(***************************************************************************)
(* Promotions of one service and of its category (promotions/).  That two  *)
(* of one target do not overlap is looked up before a promotion is written *)
(* and is no constraint of the database; an update writes the fields it    *)
(* was given, on whatever the row holds by then.                           *)
(***************************************************************************)
EXTENDS Naturals, FiniteSets, TLC

CONSTANTS
  Admins,   \* requests of administrators
  Ids,      \* promotions, as many as there may be
  Times     \* 0 .. n

VARIABLES
  promotion,  \* rows; NoPromotion: there is none
  admin,      \* requests
  crossed     \* promotions written by a request that another overtook (history)

vars == <<promotion, admin, crossed>>

NoPromotion == <<>>
Fields == {"treatment", "category", "startsAt", "endsAt", "isActive"}
Idle == [pc |-> "idle", id |-> 0, dto |-> NoPromotion, seen |-> NoPromotion, overtaken |-> FALSE]
Exists(i) == promotion[i] # NoPromotion

TypeOK ==
  /\ DOMAIN promotion = Ids
  /\ \A i \in Ids : Exists(i) =>
       /\ DOMAIN promotion[i] = Fields
       /\ promotion[i].startsAt \in Times /\ promotion[i].endsAt \in Times
  /\ \A a \in Admins :
       /\ admin[a].pc \in {"idle", "find", "check", "write", "done"}
       /\ DOMAIN admin[a].dto \subseteq Fields
  /\ crossed \subseteq Ids

-----------------------------------------------------------------------------
(* What is asked for *)

Of(target) == [treatment |-> target = "treatment", category |-> target = "category"]
During(from, to) == [startsAt |-> from, endsAt |-> to]

Creations ==
  {Of(target) @@ During(from, to) @@ [isActive |-> TRUE] :
     target \in {"treatment", "category"}, from \in Times, to \in Times}

Updates ==
  {[startsAt |-> t] : t \in Times} \cup {[endsAt |-> t] : t \in Times}
  \cup {[isActive |-> b] : b \in BOOLEAN} \cup {Of("treatment"), Of("category")}

Init ==
  /\ \E first \in {NoPromotion} \cup {Of("treatment") @@ During(0, 1) @@ [isActive |-> b] :
                                 b \in BOOLEAN} :
       promotion = [i \in Ids |-> IF i = 1 THEN first ELSE NoPromotion]
  /\ admin = [a \in Admins |-> Idle] /\ crossed = {}

-----------------------------------------------------------------------------
(* Checks *)

OneTarget(p) == p.treatment # p.category
InOrder(p) == p.startsAt < p.endsAt

SameTarget(p, q) == IF p.treatment THEN q.treatment ELSE q.category /\ ~q.treatment

\* Variant with a bug: a promotion that lies within the new one is not seen.
FindOverlappingEnds(p, but) ==
  {i \in Ids \ but :
     /\ Exists(i) /\ promotion[i].isActive /\ SameTarget(p, promotion[i])
     /\ \/ promotion[i].startsAt <= p.startsAt /\ p.startsAt < promotion[i].endsAt
        \/ promotion[i].startsAt < p.endsAt /\ p.endsAt < promotion[i].endsAt}

\* Active promotions of the same target that share more than an instant with p.
FindOverlapping(p, but) ==
  {i \in Ids \ but :
     /\ Exists(i) /\ promotion[i].isActive /\ SameTarget(p, promotion[i])
     /\ promotion[i].startsAt < p.endsAt /\ p.startsAt < promotion[i].endsAt}

\* The target is looked at when it is given, and overlaps if the promotion is active.
Accepted(dto, seen, but) ==
  LET p == dto @@ seen IN
  /\ {"treatment", "category"} \cap DOMAIN dto # {} => OneTarget(p)
  /\ InOrder(p)
  /\ p.isActive => FindOverlapping(p, but) = {}

-----------------------------------------------------------------------------
(* Requests *)

Step(a, record) == admin' = [admin EXCEPT ![a] = record]

AskCreate(a, dto) ==
  /\ admin[a].pc = "idle" /\ Step(a, [Idle EXCEPT !.pc = "check", !.dto = dto])
  /\ UNCHANGED <<promotion, crossed>>

AskUpdate(a, i, dto) ==
  /\ admin[a].pc = "idle" /\ Exists(i)
  /\ Step(a, [Idle EXCEPT !.pc = "check", !.id = i, !.dto = dto, !.seen = promotion[i]])
  /\ UNCHANGED <<promotion, crossed>>

\* A request that is refused writes nothing.
Check(a) ==
  /\ admin[a].pc = "check"
  /\ LET me == admin[a] IN
     Step(a, [me EXCEPT !.pc = IF Accepted(me.dto, me.seen, {me.id}) THEN "write" ELSE "done"])
  /\ UNCHANGED <<promotion, crossed>>

\* The row is written; others that are under way have been overtaken.
Write(a) ==
  LET me == admin[a] IN
  /\ me.pc = "write"
  /\ \E i \in Ids :
       /\ IF me.id = 0 THEN ~Exists(i) /\ \A j \in Ids : j < i => Exists(j) ELSE i = me.id
       /\ promotion' = [promotion EXCEPT ![i] = me.dto @@ @]
       /\ crossed' = IF me.overtaken THEN crossed \cup {i} ELSE crossed
  /\ admin' = [b \in Admins |->
       IF b = a THEN [me EXCEPT !.pc = "done"]
       ELSE IF admin[b].pc \in {"check", "write"} THEN [admin[b] EXCEPT !.overtaken = TRUE]
       ELSE admin[b]]

\* Deactivation only sets isActive.
Deactivate(a, i) ==
  /\ admin[a].pc = "idle" /\ Exists(i)
  /\ Step(a, [Idle EXCEPT !.pc = "write", !.id = i, !.dto = [isActive |-> FALSE]])
  /\ UNCHANGED <<promotion, crossed>>

Next ==
  \E a \in Admins :
    \/ \E dto \in Creations : AskCreate(a, dto)
    \/ \E i \in Ids : (\E dto \in Updates : AskUpdate(a, i, dto)) \/ Deactivate(a, i)
    \/ Check(a) \/ Write(a)

-----------------------------------------------------------------------------
(* Properties *)

Valid(i, now) ==
  Exists(i) /\ promotion[i].isActive /\ promotion[i].startsAt <= now
    /\ now <= promotion[i].endsAt

\* The promotions of one target that may be applied at an instant, the latest first.
Candidates(i, now) ==
  {j \in Ids : Valid(j, now) /\ SameTarget(promotion[i], promotion[j])}

Sound(i) == OneTarget(promotion[i]) /\ InOrder(promotion[i])

\* A promotion has one target and lasts, and at every instant it is clear which one of a
\* target applies: at most two are valid, when one begins as the other ends, and the
\* later is taken; unless requests of administrators crossed.
PromotionIsClear ==
  \A i \in Ids \ crossed : Exists(i) =>
    /\ Sound(i)
    /\ \A now \in Times : Valid(i, now) =>
         \A j \in Candidates(i, now) \ ({i} \cup crossed) :
           promotion[i].startsAt # promotion[j].startsAt
             /\ now \in {promotion[i].startsAt, promotion[j].startsAt}
=============================================================================
