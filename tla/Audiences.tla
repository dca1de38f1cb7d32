----------------------------- MODULE Audiences -----------------------------
(***************************************************************************)
(* Who a campaign is for (audiences/): the filter of an administrator as a *)
(* condition on clients, the preview of its audience with those it leaves  *)
(* out, and the members of the campaign that is made after it.  Clients    *)
(* do not change meanwhile.                                                *)
(***************************************************************************)
EXTENDS Naturals, FiniteSets

CONSTANTS
  Clients,   \* numbered in the order of their names
  Profiles,  \* what a client may be: see TypeOK
  Filters,   \* filters: tags, excludeTags, category, within and without (days, 0: any)
  Sample     \* SAMPLE_SIZE

VARIABLES
  clients,   \* profile of each
  filter, marketing,
  preview,   \* what the preview told
  members,   \* recipients of the campaign
  stage

vars == <<clients, filter, marketing, preview, members, stage>>

\* A visit is a completed reservation: its category and how many days ago it was.
TypeOK ==
  /\ clients \in [Clients -> Profiles] /\ filter \in Filters /\ marketing \in BOOLEAN
  /\ \A p \in Profiles :
       DOMAIN p = {"anonymous", "jid", "consent", "contacted", "tags", "visits"}
  /\ preview.sample \subseteq Clients /\ members \subseteq Clients
  /\ stage \in {"estimate", "create", "created"}

\* The filter, condition by condition (buildAudienceWhere).
Matches(p) ==
  /\ ~p.anonymous
  /\ filter.tags \subseteq p.tags
  /\ filter.excludeTags \cap p.tags = {}
  /\ filter.category # 0 => \E v \in p.visits : v.category = filter.category
  /\ filter.within # 0 => \E v \in p.visits : v.ago <= filter.within
  /\ filter.without # 0 => ~\E v \in p.visits : v.ago <= filter.without

BuildAudienceWhere == {c \in Clients : Matches(clients[c])}
ReachableWhere == {c \in BuildAudienceWhere : clients[c].jid}
Consented == {c \in ReachableWhere : clients[c].consent}
EligibleWhere == IF marketing THEN Consented ELSE ReachableWhere

\* Only marketing leaves out clients who were written to lately.
RecentlyContacted == {c \in Clients : marketing /\ clients[c].contacted}

-----------------------------------------------------------------------------

Init ==
  /\ clients \in [Clients -> Profiles] /\ filter \in Filters /\ marketing \in BOOLEAN
  /\ preview = [total |-> 0, withoutWhatsapp |-> 0, withoutConsent |-> 0,
                recentlyMessaged |-> 0, sample |-> {}]
  /\ members = {} /\ stage = "estimate"

First(set) == {c \in set : Cardinality({d \in set : d < c}) < Sample}

\* Variant with a bug: who was written to lately counts, whether or not she consented.
PreviewOfAll ==
  LET eligible == EligibleWhere \ RecentlyContacted IN
  /\ stage = "estimate" /\ stage' = "create"
  /\ preview' =
       [total |-> Cardinality(eligible),
        withoutWhatsapp |-> Cardinality({c \in BuildAudienceWhere : ~clients[c].jid}),
        withoutConsent |-> IF marketing THEN Cardinality(ReachableWhere \ Consented) ELSE 0,
        recentlyMessaged |-> Cardinality(ReachableWhere \cap RecentlyContacted),
        sample |-> First(eligible)]
  /\ UNCHANGED <<clients, filter, marketing, members>>

Preview ==
  LET eligible == EligibleWhere \ RecentlyContacted IN
  /\ stage = "estimate" /\ stage' = "create"
  /\ preview' =
       [total |-> Cardinality(eligible),
        withoutWhatsapp |-> Cardinality({c \in BuildAudienceWhere : ~clients[c].jid}),
        withoutConsent |-> IF marketing THEN Cardinality(ReachableWhere \ Consented) ELSE 0,
        recentlyMessaged |-> Cardinality(Consented \cap RecentlyContacted),
        sample |-> First(eligible)]
  /\ UNCHANGED <<clients, filter, marketing, members>>

\* A campaign without members is refused.
Members ==
  /\ stage = "create" /\ stage' = "created"
  /\ EligibleWhere \ RecentlyContacted # {}
  /\ members' = EligibleWhere \ RecentlyContacted
  /\ UNCHANGED <<clients, filter, marketing, preview>>

Next == Preview \/ Members

-----------------------------------------------------------------------------
(* Properties *)

\* The preview accounts once for every client the filter matches: she is in the
\* audience, or left out for one reason; and the campaign is for as many as its
\* preview said, those it showed among them.
PreviewIsTrue ==
  /\ stage # "estimate" =>
       preview.total + preview.withoutWhatsapp + preview.withoutConsent
         + preview.recentlyMessaged = Cardinality(BuildAudienceWhere)
  /\ stage = "created" =>
       preview.total = Cardinality(members) /\ preview.sample \subseteq members
=============================================================================
