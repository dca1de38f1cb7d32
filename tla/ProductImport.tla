--------------------------- MODULE ProductImport ---------------------------
(***************************************************************************)
(* The scripts that bring the shop and the website to what is written in   *)
(* files: prisma/seed-product-catalog.ts (products with variants and tags  *)
(* by brand; whatever else the shop has is deleted) and                    *)
(* prisma/seed-treatment-content.ts (texts and steps of the services).     *)
(* Only the deletion and each service's texts are transactions: a script   *)
(* that breaks off is run again.  The caches are in Catalogue.             *)
(***************************************************************************)
EXTENDS Naturals, FiniteSets, Sequences, SequencesExt, FiniteSetsExt

CONSTANTS MaxRuns,   \* runs of the scripts
          MaxTouches   \* what an administrator does meanwhile

VARIABLES
  shelves,   \* the categories of products
  shop,      \* the products: NoProduct, or shelf, variants and tags
  texts,     \* of each service, its text and its steps
  script,    \* the script that runs
  touches,
  touched    \* an administrator changed something since the script began (history)

vars == <<shelves, shop, texts, script, touches, touched>>

-----------------------------------------------------------------------------
(* The files *)

Brands == <<"Salerm", "Others">>

Row(brand, line, presentation) ==
  [brand |-> brand, line |-> line, presentation |-> presentation]
CatalogRows ==
  <<Row("Others", "argan", "single"), Row("Salerm", "biokera", "250 ml"),
    Row("Salerm", "biokera", "1 l")>>

\* What is known of a line.
LineTags == [argan |-> {"oil"}, biokera |-> {"oil", "keratin"}]

\* Rows of one brand and line (and type) are one product, known by its slug; the order
\* is that of the brands.
Slugs == {CatalogRows[k].line : k \in DOMAIN CatalogRows}
RowsOf(slug) == {CatalogRows[k] : k \in {j \in DOMAIN CatalogRows : CatalogRows[j].line = slug}}
BrandOf(slug) == (CHOOSE r \in RowsOf(slug) : TRUE).brand
IndexOf(brand) == CHOOSE k \in DOMAIN Brands : Brands[k] = brand
GroupsInOrder ==
  SetToSortSeq(Slugs, LAMBDA a, b : IndexOf(BrandOf(a)) < IndexOf(BrandOf(b)))

\* The brand of products whose brand is not known is shown as to be confirmed.
VariantBrand(slug) ==
  IF BrandOf(slug) = "Others" THEN "to be confirmed" ELSE BrandOf(slug)
VariantsOf(slug) ==
  {[brand |-> VariantBrand(slug), presentation |-> r.presentation] : r \in RowsOf(slug)}
Presentations(variants) == {v.presentation : v \in variants}

\* One product that the file does not have, and one shelf.
Own == "own"
Products == Slugs \cup {Own}
NoProduct == [shelf |-> "none", variants |-> {}, tags |-> {}]
There(p) == shop[p] # NoProduct

\* The services and how many steps the file and an administrator give them.
Services == <<"smoothing", "nails">>
StepsOf == [smoothing |-> 3, nails |-> 2]
Text(by, count) == [text |-> by, steps |-> [k \in 1 .. count |-> by]]

NoScript == [runs |-> 0, pc |-> "idle", left |-> <<>>, stale |-> {}, variants |-> {},
             tags |-> {}]
Idle(runs) == [NoScript EXCEPT !.runs = runs]

Init ==
  /\ shelves = {"Salerm", Own}
  /\ shop = [p \in Products |->
       IF p = Own THEN [shelf |-> Own, tags |-> {"gift"}, variants |->
                          {[brand |-> "Leonice", presentation |-> "single"]}]
       ELSE NoProduct]
  /\ texts = [s \in ToSet(Services) |-> Text("none", 0)]
  /\ script = NoScript /\ touches = 0 /\ touched = FALSE

-----------------------------------------------------------------------------
(* The products *)

\* One statement of the script; the script may break off before any.
At(point) == script.pc = point
Goes(point) == script' = [script EXCEPT !.pc = point]

StartProducts ==
  /\ At("idle") /\ script.runs < MaxRuns
  /\ script' = [NoScript EXCEPT !.runs = script.runs + 1, !.pc = "brands"]
  /\ touched' = FALSE
  /\ UNCHANGED <<shelves, shop, texts, touches>>

\* The brands become categories, one statement each.
UpsertBrands ==
  /\ At("brands")
  /\ \/ /\ ~(ToSet(Brands) \subseteq shelves)
        /\ \E b \in ToSet(Brands) \ shelves :
             /\ \A k \in 1 .. IndexOf(b) - 1 : Brands[k] \in shelves
             /\ shelves' = shelves \cup {b}
        /\ UNCHANGED script
     \/ ToSet(Brands) \subseteq shelves /\ Goes("stale") /\ UNCHANGED shelves
  /\ UNCHANGED <<shop, texts, touches, touched>>

\* The products whose slug the file does not have are read ...
ReadStale ==
  /\ At("stale")
  /\ script' = [script EXCEPT !.pc = "purge",
                              !.stale = {p \in Products \ Slugs : There(p)}]
  /\ UNCHANGED <<shelves, shop, texts, touches, touched>>

NextProduct(s) ==
  IF s.left = <<>> THEN Idle(s.runs)
  ELSE [s EXCEPT !.pc = "product", !.variants = {}, !.tags = {}]

\* Variant with a bug: the categories are left.
PurgeProducts ==
  /\ At("purge")
  /\ shop' = [p \in Products |-> IF p \in script.stale THEN NoProduct ELSE shop[p]]
  /\ script' = NextProduct([script EXCEPT !.left = GroupsInOrder, !.stale = {}])
  /\ UNCHANGED <<shelves, texts, touches, touched>>

\* ... and deleted with all that refers to them, and the categories that are no brands,
\* in one transaction.  It fails when one of these still has a product, and with it the
\* run, again and again.
Purge ==
  /\ At("purge")
  /\ \/ /\ \A p \in Products \ script.stale : There(p) => shop[p].shelf \in ToSet(Brands)
        /\ shop' = [p \in Products |-> IF p \in script.stale THEN NoProduct ELSE shop[p]]
        /\ shelves' = shelves \cap ToSet(Brands)
        /\ script' = NextProduct([script EXCEPT !.left = GroupsInOrder, !.stale = {}])
     \/ /\ \E p \in Products \ script.stale : There(p) /\ shop[p].shelf \notin ToSet(Brands)
        /\ script' = Idle(script.runs) /\ UNCHANGED <<shop, shelves>>
  /\ UNCHANGED <<texts, touches, touched>>

\* The product is put under its slug, on the shelf of its brand.
UpsertProduct ==
  /\ At("product")
  /\ LET p == Head(script.left)
     IN shop' = [shop EXCEPT ![p] = [@ EXCEPT !.shelf = BrandOf(p)]]
  /\ Goes("dropVariants")
  /\ UNCHANGED <<shelves, texts, touches, touched>>

\* Variants in presentations that the file does not have are deleted, ...
DropVariants ==
  /\ At("dropVariants")
  /\ LET p == Head(script.left)
         kept == {v \in shop[p].variants : v.presentation \in Presentations(VariantsOf(p))}
     IN /\ shop' = [shop EXCEPT ![p].variants = kept]
        /\ script' = [script EXCEPT !.pc = "variant", !.variants = VariantsOf(p)]
  /\ UNCHANGED <<shelves, texts, touches, touched>>

\* ... the others put under brand and presentation, ...
UpsertVariant ==
  /\ At("variant")
  /\ \/ \E v \in script.variants :
          /\ shop' = [shop EXCEPT ![Head(script.left)].variants = @ \cup {v}]
          /\ script' = [script EXCEPT !.variants = @ \ {v}]
     \/ script.variants = {} /\ Goes("dropTags") /\ UNCHANGED shop
  /\ UNCHANGED <<shelves, texts, touches, touched>>

\* Variant with a bug: the tags it has are left.
KeepTags ==
  /\ At("dropTags")
  /\ script' = [script EXCEPT !.pc = "tag",
                  !.tags = LineTags[Head(script.left)] \ shop[Head(script.left)].tags]
  /\ UNCHANGED <<shop, shelves, texts, touches, touched>>

\* ... the tags taken off ...
DropTags ==
  /\ At("dropTags")
  /\ shop' = [shop EXCEPT ![Head(script.left)].tags = {}]
  /\ script' = [script EXCEPT !.pc = "tag", !.tags = LineTags[Head(script.left)]]
  /\ UNCHANGED <<shelves, texts, touches, touched>>

\* ... and assigned anew, one by one; one that came meanwhile ends the run.
AssignTag ==
  /\ At("tag")
  /\ LET p == Head(script.left)
     IN \/ /\ \E t \in script.tags :
                \/ /\ t \notin shop[p].tags
                   /\ shop' = [shop EXCEPT ![p].tags = @ \cup {t}]
                   /\ script' = [script EXCEPT !.tags = @ \ {t}]
                \/ /\ t \in shop[p].tags
                   /\ script' = Idle(script.runs) /\ UNCHANGED shop
           /\ UNCHANGED touched
        \/ /\ script.tags = {}
           /\ script' = NextProduct([script EXCEPT !.left = Tail(@)])
           /\ UNCHANGED <<shop, touched>>
  /\ UNCHANGED <<shelves, texts, touches>>

-----------------------------------------------------------------------------
(* The texts of the services *)

StartTexts ==
  /\ At("idle") /\ script.runs < MaxRuns
  /\ script' = [NoScript EXCEPT !.runs = script.runs + 1, !.pc = "text", !.left = Services]
  /\ touched' = FALSE
  /\ UNCHANGED <<shelves, shop, texts, touches>>

\* Variant with a bug: the steps are added to those there are.
ApplyStepsOnTop(s) ==
  [text |-> "file", steps |-> texts[s].steps \o Text("file", StepsOf[s]).steps]

\* A service's texts and all its steps in one transaction, that waits for the row.
Applied(s) == Text("file", StepsOf[s])

ApplyText ==
  /\ At("text")
  /\ LET s == Head(script.left)
     IN texts' = [texts EXCEPT ![s] = Applied(s)]
  /\ script' = IF Len(script.left) = 1 THEN Idle(script.runs)
               ELSE [script EXCEPT !.left = Tail(@)]
  /\ UNCHANGED <<shelves, shop, touches, touched>>

-----------------------------------------------------------------------------
(* What else happens *)

\* The script breaks off: a statement fails, or the process dies.
BreakOff ==
  /\ script.pc \notin {"idle"} /\ touches < MaxTouches /\ touches' = touches + 1
  /\ script' = Idle(script.runs) /\ touched' = TRUE
  /\ UNCHANGED <<shelves, shop, texts>>

Touch == touches < MaxTouches /\ touches' = touches + 1 /\ touched' = TRUE

\* The administrator moves a product to another shelf, ...
MoveProduct ==
  /\ Touch
  /\ \E p \in Slugs : There(p) /\ \E c \in shelves : shop' = [shop EXCEPT ![p].shelf = c]
  /\ UNCHANGED <<shelves, texts, script>>

\* ... has an own category and an own product again, ...
CreateOwn ==
  /\ Touch /\ ~There(Own)
  /\ shelves' = shelves \cup {Own}
  /\ \E c \in {Own, "Salerm"} : shop' = [shop EXCEPT ![Own].shelf = c]
  /\ UNCHANGED <<texts, script>>

\* ... adds variants and tags to a product, ...
AddVariant ==
  /\ Touch
  /\ \E p \in Slugs, v \in {[brand |-> "Leonice", presentation |-> "250 ml"],
                            [brand |-> "Salerm", presentation |-> "5 l"]} :
       There(p) /\ shop' = [shop EXCEPT ![p].variants = @ \cup {v}]
  /\ UNCHANGED <<shelves, texts, script>>

AssignTags ==
  /\ Touch
  /\ \E p \in Slugs, tags \in {{"gift"}, {"oil"}} :
       There(p) /\ shop' = [shop EXCEPT ![p].tags = tags]
  /\ UNCHANGED <<shelves, texts, script>>

\* ... and writes the text of a service, not its steps.
WriteText ==
  /\ Touch
  /\ \E s \in ToSet(Services) : texts' = [texts EXCEPT ![s].text = "own"]
  /\ UNCHANGED <<shelves, shop, script>>

Statement ==
  \/ UpsertBrands \/ ReadStale \/ Purge \/ UpsertProduct \/ DropVariants \/ UpsertVariant
  \/ DropTags \/ AssignTag \/ ApplyText

Next ==
  \/ StartProducts \/ StartTexts \/ Statement \/ BreakOff
  \/ MoveProduct \/ CreateOwn \/ AddVariant \/ AssignTags \/ WriteText

-----------------------------------------------------------------------------
TypeOK ==
  /\ shelves \subseteq ToSet(Brands) \cup {Own}
  /\ \A p \in Products : There(p) => shop[p].shelf \in ToSet(Brands) \cup {Own}
  /\ DOMAIN texts = ToSet(Services) /\ touches \in 0 .. MaxTouches /\ touched \in BOOLEAN

\* After the last product of a run the shop is what the file says, whatever runs that
\* broke off and the administrator had left before it began: products, shelves, tags and
\* presentations (a variant of another brand in one of these stays).
ImportIsExact ==
  /\ At("tag") /\ script.left = <<Last(GroupsInOrder)>> /\ script.tags = {} /\ ~touched =>
       /\ shelves = ToSet(Brands)
       /\ {p \in Products : There(p)} = Slugs
       /\ \A p \in Slugs :
            /\ shop[p].shelf = BrandOf(p) /\ shop[p].tags = LineTags[p]
            /\ VariantsOf(p) \subseteq shop[p].variants
            /\ Presentations(shop[p].variants) = Presentations(VariantsOf(p))

\* No product stands on a shelf that is not there.
EverythingHasAShelf == \A p \in Products : There(p) => shop[p].shelf \in shelves

\* The steps of a service are always those of one version, and the text of the file is
\* never shown with other steps than its own.
StepsAreWhole ==
  \A s \in ToSet(Services) :
    /\ Len(texts[s].steps) \in {0, StepsOf[s]}
    /\ texts[s].text = "file" => texts[s].steps = Text("file", StepsOf[s]).steps

Spec == Init /\ [][Next]_vars
=============================================================================
