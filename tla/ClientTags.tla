----------------------------- MODULE ClientTags -----------------------------
(***************************************************************************)
(* The tags of a client (clients/tags/): derived from her birthday and her *)
(* reservations, stored, and kept up to date by a periodic refresh and by  *)
(* every view of her card.  A synchronisation reads her history, then the  *)
(* stored tags, and writes the difference in a transaction; refresh and    *)
(* views may cross.  Time is in months of thirty days, in which the        *)
(* thresholds of the rules are whole numbers.                              *)
(***************************************************************************)
EXTENDS Integers, FiniteSets, FiniteSetsExt, SequencesExt

CONSTANTS
  Reservations, \* ids
  Start,        \* month of the appointment of each
  Category,     \* category of each, a number in the order of the names
  Treatment,    \* treatment of each, likewise
  Birthday,     \* month of the year of her birthday
  Views,        \* how many views of her card
  Months,       \* months in which an instance begins
  MaxChanges    \* bound on what happens to the client, time included

VARIABLES
  status,       \* of each reservation
  today,        \* the month
  stored,       \* client_tags: the tags stored
  sync,         \* synchronisations, of the refresh and of views: what they read
  anonymous,    \* the client was made anonymous
  changes

vars == <<status, today, stored, sync, anonymous, changes>>

-----------------------------------------------------------------------------
(* Rules (client-tag.rules.ts) *)

NewClient == 2             \* NEW_CLIENT_DAYS
RecurringWindow == 6       \* RECURRING_WINDOW_DAYS
RecurringMinVisits == 3
PausedAfter == 3           \* PAUSED_AFTER_DAYS
InactiveAfter == 12        \* INACTIVE_AFTER_DAYS
Year == 12                 \* NO_SHOW_, FREQUENT_ and PROMOTION_WINDOW_DAYS
NoShowRepeatedMin == 2
BirthdaySoon == 1          \* BIRTHDAY_SOON_DAYS
FrequentMinVisits == 2
FrequentCategoryLimit == 2

Pending == {"SOLICITUD_INICIADA", "PENDIENTE_VALORACION", "PENDIENTE_DEPOSITO"}
Upcoming == {"CONFIRMADA", "CITA_EN_CURSO"}

\* Of the names that occur often enough the most frequent ones, equals by name.
TopByCount(visited, name, limit, least) ==
  LET count(n) == Cardinality({r \in visited : name[r] = n})
      often == {n \in {name[r] : r \in visited} : count(n) >= least}
      before(a, b) == count(a) > count(b) \/ (count(a) = count(b) /\ a < b) IN
  {n \in often : Cardinality({o \in often : before(o, n)}) < limit}

DaysUntilBirthday(birthday, month) == (birthday - month) % 12

\* Variant with a bug: a pause has no end.
PausedForEver(since) == since > PausedAfter

Paused(since) == since > PausedAfter /\ since <= InactiveAfter

Tag(key, detail) == [key |-> key, detail |-> detail]

\* A visit counts from the month it was completed, here that of its appointment.
DeriveClientTags(state, birthday, month) ==
  LET completed == {r \in Reservations : state[r] = "COMPLETADA"}
      within(n) == {r \in completed : month - Start[r] <= n}
      noShows == {r \in Reservations : state[r] = "NO_SHOW" /\ month - Start[r] <= Year}
      repeatedNoShow == Cardinality(noShows) >= NoShowRepeatedMin
      visited == completed # {}
      sinceFirst == month - Min({Start[r] : r \in completed})
      sinceLast == month - Max({Start[r] : r \in completed})
      coming(states) == \E r \in Reservations : state[r] \in states /\ Start[r] >= month
      holds == [
        CON_CITA_PROXIMA  |-> coming(Upcoming),
        RESERVA_PENDIENTE |-> coming(Pending),
        SIN_VISITAS       |-> ~visited,
        NUEVA             |-> visited /\ sinceFirst <= NewClient,
        RECURRENTE        |-> Cardinality(within(RecurringWindow)) >= RecurringMinVisits,
        INACTIVA          |-> visited /\ sinceLast > InactiveAfter,
        EN_PAUSA          |-> visited /\ Paused(sinceLast),
        APTA_PROMOCION    |-> within(Year) # {} /\ ~repeatedNoShow,
        NO_SHOW_REITERADO |-> repeatedNoShow,
        CUMPLE_PRONTO     |-> DaysUntilBirthday(birthday, month) <= BirthdaySoon] IN
  {Tag(k, 0) : k \in {k \in DOMAIN holds : holds[k]}}
    \cup {Tag("FRECUENTA", c) : c \in
            TopByCount(within(Year), Category, FrequentCategoryLimit, FrequentMinVisits)}
    \cup {Tag("REPITE_SERVICIO", t) : t \in
            TopByCount(within(Year), Treatment, 1, FrequentMinVisits)}

\* Anonymisation sets the birthday to the first of January.
Derived ==
  DeriveClientTags(status, IF anonymous THEN 0 ELSE Birthday, today)

-----------------------------------------------------------------------------

Refresh == 0
Syncs == Refresh .. Views
Idle == [pc |-> "idle", derived |-> {}, stale |-> {}, missing |-> {}]

TypeOK ==
  /\ DOMAIN status = Reservations /\ today \in Nat /\ anonymous \in BOOLEAN
  /\ stored \subseteq [key : STRING, detail : Nat]
  /\ \A s \in Syncs :
       sync[s].pc \in {"idle", "read", "found", "ended"} /\ sync[s].stale \subseteq
         [key : STRING, detail : Nat]
  /\ changes \in 0 .. MaxChanges

Init ==
  /\ status \in [Reservations -> {"CONFIRMADA", "COMPLETADA", "NO_SHOW"}]
  /\ today \in Months /\ stored = {} /\ sync = [s \in Syncs |-> Idle]
  /\ anonymous = FALSE /\ changes = 0

\* What happens to the client: a reservation, a month, her anonymisation.
Happens == changes < MaxChanges /\ changes' = changes + 1

Change(r) ==
  /\ Happens /\ status[r] = "CONFIRMADA"
  /\ \E to \in {"COMPLETADA", "NO_SHOW", "CANCELADA"} : status' = [status EXCEPT ![r] = to]
  /\ UNCHANGED <<today, stored, sync, anonymous>>

Tick ==
  /\ Happens /\ today' = today + 1
  /\ UNCHANGED <<status, stored, sync, anonymous>>

\* Her tags stay.
Anonymize ==
  /\ Happens /\ ~anonymous /\ anonymous' = TRUE
  /\ UNCHANGED <<status, today, stored, sync>>

\* The refresh leaves out anonymous clients, a view does not.
ReadHistory(s) ==
  /\ sync[s].pc = "idle" /\ (s = Refresh => ~anonymous)
  /\ sync' = [sync EXCEPT ![s] = [Idle EXCEPT !.pc = "read", !.derived = Derived]]
  /\ UNCHANGED <<status, today, stored, anonymous, changes>>

After(s) == IF s = Refresh THEN Idle ELSE [Idle EXCEPT !.pc = "ended"]

\* The difference to the stored tags, if there is any, is what will be written.
ReadTags(s) ==
  LET stale == stored \ sync[s].derived
      missing == sync[s].derived \ stored IN
  /\ sync[s].pc = "read"
  /\ sync' = [sync EXCEPT ![s] =
       IF stale \cup missing = {} THEN After(s)
       ELSE [@ EXCEPT !.pc = "found", !.stale = stale, !.missing = missing]]
  /\ UNCHANGED <<status, today, stored, anonymous, changes>>

\* Variant with a bug: tags that no longer hold are kept.
WriteMissing(s) ==
  /\ sync[s].pc = "found"
  /\ stored' = stored \cup sync[s].missing
  /\ sync' = [sync EXCEPT ![s] = After(s)]
  /\ UNCHANGED <<status, today, anonymous, changes>>

\* Rows are deleted by their id: one deleted here is not there to be deleted by another,
\* although the tag may be created again.  Tags that exist are not created twice.
Write(s) ==
  /\ sync[s].pc = "found"
  /\ stored' = (stored \ sync[s].stale) \cup sync[s].missing
  /\ sync' = [t \in Syncs |->
       IF t = s THEN After(s) ELSE [sync[t] EXCEPT !.stale = @ \ sync[s].stale]]
  /\ UNCHANGED <<status, today, anonymous, changes>>

\* A call fails: the error is logged, and the next refresh comes in a quarter of an hour.
Fail(s) ==
  /\ sync[s].pc \in {"read", "found"} /\ Happens
  /\ sync' = [sync EXCEPT ![s] = After(s)]
  /\ UNCHANGED <<status, today, stored, anonymous>>

Synchronize(s) == ReadHistory(s) \/ ReadTags(s) \/ Write(s)

Next ==
  \/ \E s \in Syncs : Synchronize(s) \/ Fail(s)
  \/ \E r \in Reservations : Change(r)
  \/ Tick \/ Anonymize

-----------------------------------------------------------------------------
(* Properties *)

\* Whatever her history, the tags derived from it do not contradict each other: what
\* counts visits is not told of who has none, who is inactive is neither in pause, new,
\* recurrent nor a frequent visitor, a new client is not in pause, and none is fit for
\* a promotion who fails to appear.
DerivedAgree ==
  \A s \in Syncs :
    LET keys == {t.key : t \in sync[s].derived}
        present == {"NUEVA", "RECURRENTE", "EN_PAUSA", "APTA_PROMOCION", "FRECUENTA",
                    "REPITE_SERVICIO"} IN
    /\ "SIN_VISITAS" \in keys => keys \cap (present \cup {"INACTIVA"}) = {}
    /\ "INACTIVA" \in keys => keys \cap present = {}
    /\ ~({"NUEVA", "EN_PAUSA"} \subseteq keys)
    /\ ~({"APTA_PROMOCION", "NO_SHOW_REITERADO"} \subseteq keys)

\* Synchronisations that cross may leave tags that contradict each other; the tags of a
\* client who is not anonymous come to be those of her history for all that.
TagsAreTrue == anonymous \/ stored = Derived
=============================================================================
