----------------------------- MODULE Catalogue -----------------------------
(***************************************************************************)
(* What the website shows of services and products (catalog/, products/)   *)
(* is cached in Redis for a few minutes.  A reader who misses reads the    *)
(* database and sets the entry without waiting for it; an edit of an       *)
(* administrator writes rows and then deletes the entries it knows to show *)
(* them.  Rows are versions: the edit that wrote them last.                *)
(***************************************************************************)
EXTENDS Naturals, FiniteSets

CONSTANTS
  Readers,    \* readers, who look once
  MaxEdits,   \* bound on edits
  MaxFailures   \* bound on calls that fail

VARIABLES
  row,        \* of each kind of row, the number of the edit that wrote it last
  cached,     \* of each view, what its entry shows; Missing: there is none
  reader,     \* readers: the view they want and what they read of it
  edit,       \* the edit in progress
  edits,      \* edits begun
  asked,      \* the edits that were asked for (history)
  crossed,    \* entries set by a reader whom an edit overtook (history)
  missed,     \* entries whose deletion failed (history)
  failures

vars == <<row, cached, reader, edit, edits, asked, crossed, missed, failures>>

\* A new category or treatment shows in lists, but nothing refers to it yet; no treatment
\* recommends a product that is new or may be removed.
Rows == {"category", "newCategory", "treatment", "newTreatment", "video", "hairPricing",
         "productCategory", "product", "loneProduct", "variant", "tag", "tagAssignment",
         "recommendation"}

-----------------------------------------------------------------------------
(* Views: the rows that are selected for each *)

Shows == [
  categories     |-> {"category", "newCategory"},
  treatments     |-> {"treatment", "newTreatment", "video", "hairPricing", "category"},
  products       |-> {"product", "loneProduct", "variant", "productCategory", "tag",
                      "tagAssignment"},
  productCatalog |-> {"product", "loneProduct", "variant", "productCategory", "tag",
                      "tagAssignment", "recommendation", "treatment", "category"},
  showcase       |-> {"category", "treatment", "newTreatment", "video", "recommendation",
                      "productCategory", "product", "variant"},
  recommendation |-> {"recommendation", "product", "variant"}]

Views == DOMAIN Shows
Content(v) == [r \in Shows[v] |-> row[r]]
Missing == <<>>

-----------------------------------------------------------------------------
(* Edits: the rows they write and the entries they delete, in a second round those of *)
(* the treatments that recommend a product, for which the database is asked again     *)

Edit(rows, entries, round) ==
  [pc |-> "write", writes |-> rows, deletes |-> entries, then |-> round]

\* Variant with a bug: the page of a treatment, which shows its products, is forgotten.
ProductKeysOfCatalog == {"products", "productCatalog"}
ProductKeys == {"products", "productCatalog", "showcase"}

\* A category is removed when it has no products, which then no view shows.
ProductCategoryEdits == [
  createProductCategory |-> Edit({}, ProductKeys, {}),
  updateProductCategory |-> Edit({"productCategory"}, ProductKeys, {}),
  removeProductCategory |-> Edit({}, {}, {})]

\* A product is removed when no treatment recommends it.
ProductEdits == [
  createProduct |-> Edit({"loneProduct"}, ProductKeys, {}),
  updateProduct |-> Edit({"product"}, ProductKeys, {"recommendation"}),
  toggleActive  |-> Edit({"product"}, ProductKeys, {"recommendation"}),
  removeProduct |-> Edit({"loneProduct"}, ProductKeys, {}),
  assignTags    |-> Edit({"tagAssignment"}, ProductKeys, {"recommendation"})]

VariantEdit == Edit({"variant"}, ProductKeys, {"recommendation"})
VariantEdits ==
  [op \in {"addVariant", "updateVariant", "removeVariant", "uploadVariantImage",
           "removeVariantImage"} |-> VariantEdit]

\* A new tag is assigned to nothing.
TagEdits == [
  createTag |-> Edit({}, {}, {}),
  updateTag |-> Edit({"tag"}, ProductKeys, {}),
  removeTag |-> Edit({"tag", "tagAssignment"}, ProductKeys, {})]

RecommendationKeys == {"recommendation", "productCatalog", "showcase"}
RecommendationEdits == [
  addRecommendation    |-> Edit({"recommendation"}, RecommendationKeys, {}),
  removeRecommendation |-> Edit({"recommendation"}, RecommendationKeys, {})]

TreatmentKeys == {"treatments", "showcase"}
TreatmentEdits == [
  createTreatment |-> Edit({"newTreatment"}, TreatmentKeys, {}),
  updateTreatment |-> Edit({"treatment"}, TreatmentKeys, {}),
  uploadVideo     |-> Edit({"video"}, TreatmentKeys, {}),
  removeVideo     |-> Edit({"video"}, TreatmentKeys, {})]

HairPricingEdits == [
  setHairLengthPricing   |-> Edit({"hairPricing"}, {}, {}),
  setHairColorSurcharges |-> Edit({"hairPricing"}, {}, {})]

CategoryKeys == {"categories", "showcase"}
CategoryEdits == [
  createCategory |-> Edit({"newCategory"}, CategoryKeys, {}),
  updateCategory |-> Edit({"category"}, CategoryKeys, {})]

\* The scripts that import the shop and the texts of the services: run to their end, and
\* without their last step, because they broke off or know of no Redis.
ShopRows == {"product", "loneProduct", "variant", "productCategory", "tag", "tagAssignment",
             "recommendation"}
ScriptEdits == [
  importProducts   |-> Edit(ShopRows, {"products", "productCatalog"}, {}),
  applyContent     |-> Edit({"category", "treatment"}, {"showcase", "treatments"}, {}),
  importBrokenOff  |-> Edit(ShopRows, {}, {}),
  contentBrokenOff |-> Edit({"category", "treatment"}, {}, {})]

Services == {ProductCategoryEdits, ProductEdits, VariantEdits, TagEdits, RecommendationEdits,
             TreatmentEdits, HairPricingEdits, CategoryEdits, ScriptEdits}

-----------------------------------------------------------------------------

NoEdit == [pc |-> "none", writes |-> {}, deletes |-> {}, then |-> {}]
NoReader == [pc |-> "idle", view |-> "none", content |-> Missing]

TypeOK ==
  /\ row \in [Rows -> 0 .. MaxEdits] /\ DOMAIN cached = Views
  /\ \A v \in Views : cached[v] # Missing => DOMAIN cached[v] = Shows[v]
  /\ \A q \in Readers : reader[q].pc \in {"idle", "read", "set", "done"}
  /\ edit.pc \in {"none", "write", "delete"}
  /\ edit.deletes \subseteq Views /\ edit.then \subseteq Views
  /\ edits \in 0 .. MaxEdits /\ crossed \subseteq Views /\ missed \subseteq Views
  /\ failures \in 0 .. MaxFailures

Init ==
  /\ row = [r \in Rows |-> 0] /\ cached = [v \in Views |-> Missing]
  /\ reader = [q \in Readers |-> NoReader] /\ edit = NoEdit /\ edits = 0 /\ asked = {}
  /\ crossed = {} /\ missed = {} /\ failures = 0

Fails == failures < MaxFailures /\ failures' = failures + 1

\* A reader looks for an entry, and is answered with it, ...
Look(q, v) ==
  /\ reader[q].pc = "idle" /\ cached[v] = Missing
  /\ reader' = [reader EXCEPT ![q] = [NoReader EXCEPT !.pc = "read", !.view = v]]
  /\ UNCHANGED <<row, cached, edit, edits, asked, crossed, missed, failures>>

\* ... or reads the database ...
Load(q) ==
  /\ reader[q].pc = "read"
  /\ reader' = [reader EXCEPT ![q].pc = "set", ![q].content = Content(reader[q].view)]
  /\ UNCHANGED <<row, cached, edit, edits, asked, crossed, missed, failures>>

\* ... and sets the entry, unless Redis fails.
SetEntry(q) ==
  LET v == reader[q].view IN
  /\ reader[q].pc = "set"
  /\ reader' = [reader EXCEPT ![q] = [NoReader EXCEPT !.pc = "done"]]
  /\ \/ /\ cached' = [cached EXCEPT ![v] = reader[q].content]
        /\ crossed' = IF reader[q].content = Content(v) THEN crossed \ {v} ELSE crossed \cup {v}
        /\ missed' = missed \ {v} /\ UNCHANGED failures
     \/ Fails /\ UNCHANGED <<cached, crossed, missed>>
  /\ UNCHANGED <<row, edit, edits, asked>>

Expire(v) ==
  /\ cached[v] # Missing /\ cached' = [cached EXCEPT ![v] = Missing]
  /\ crossed' = crossed \ {v} /\ missed' = missed \ {v}
  /\ UNCHANGED <<row, reader, edit, edits, asked, failures>>

\* An edit that its checks refuse writes nothing.
Ask(service, op) ==
  /\ edit = NoEdit /\ edits < MaxEdits /\ edits' = edits + 1 /\ asked' = asked \cup {op}
  /\ edit' = service[op]
  /\ UNCHANGED <<row, cached, reader, crossed, missed, failures>>

Write ==
  /\ edit.pc = "write"
  /\ \/ /\ row' = [r \in Rows |-> IF r \in edit.writes THEN edits ELSE row[r]]
        /\ edit' = [edit EXCEPT !.pc = "delete"]
     \/ edit' = NoEdit /\ UNCHANGED row
  /\ UNCHANGED <<cached, reader, edits, asked, crossed, missed, failures>>

\* Entries are deleted side by side; a failure is logged and the entry stays.
Delete ==
  /\ edit.pc = "delete"
  /\ \E v \in edit.deletes :
       /\ edit' = [edit EXCEPT !.deletes = @ \ {v}]
       /\ \/ /\ cached' = [cached EXCEPT ![v] = Missing] /\ crossed' = crossed \ {v}
             /\ missed' = missed \ {v} /\ UNCHANGED failures
          \/ Fails /\ missed' = missed \cup {v} /\ UNCHANGED <<cached, crossed>>
  /\ UNCHANGED <<row, reader, edits, asked>>

\* The entries of the first round are gone.  The query for those of the second may fail.
AskWhoRecommends ==
  /\ edit.pc = "delete" /\ edit.deletes = {}
  /\ \/ /\ edit' = IF edit.then = {} THEN NoEdit
                   ELSE [edit EXCEPT !.deletes = edit.then, !.then = {}]
        /\ UNCHANGED <<missed, failures>>
     \/ edit.then # {} /\ Fails /\ edit' = NoEdit /\ missed' = missed \cup edit.then
  /\ UNCHANGED <<row, cached, reader, edits, asked, crossed>>

-----------------------------------------------------------------------------

ReaderStep(q) == (\E v \in Views : Look(q, v)) \/ Load(q) \/ SetEntry(q)
EditStep == Write \/ Delete \/ AskWhoRecommends
Work == (\E q \in Readers : Load(q) \/ SetEntry(q)) \/ EditStep \/ \E v \in Views : Expire(v)

Next ==
  \/ \E q \in Readers : ReaderStep(q)
  \/ \E service \in Services : \E op \in DOMAIN service : Ask(service, op)
  \/ EditStep
  \/ \E v \in Views : Expire(v)

-----------------------------------------------------------------------------
(* Properties *)

\* What the services overlook: products show the treatments that recommend them, a
\* treatment its category and its prices by hair; the scripts forget what other views
\* show of the rows they write.
Overlooked == [
  importProducts         |-> {"showcase", "recommendation"},
  applyContent           |-> {"categories", "productCatalog"},
  importBrokenOff        |-> Views,
  contentBrokenOff       |-> Views,
  updateTreatment        |-> {"productCatalog"},
  updateCategory         |-> {"productCatalog", "treatments"},
  setHairLengthPricing   |-> {"treatments"},
  setHairColorSurcharges |-> {"treatments"}]

Stale(v) == cached[v] # Missing /\ cached[v] # Content(v)

\* Once an edit is done no view shows what was there before it, whichever service wrote
\* the rows; unless a reader crossed it, Redis did not answer, or the services overlook
\* that the view shows them.
EditsAreShown ==
  edit = NoEdit =>
    \A v \in Views : Stale(v) =>
      \/ v \in crossed \cup missed
      \/ \E op \in asked \cap DOMAIN Overlooked : v \in Overlooked[op]

\* And what is shown of before it is shown for a few minutes only.
NothingStale == \A v \in Views : ~Stale(v)
=============================================================================
