----------------------------- MODULE Storefront -----------------------------
(***************************************************************************)
(* What the website computes of the products and services that are         *)
(* active: the list of products with filters, order, pages and facets      *)
(* (products/catalog/product-catalog.mapper.ts), and the summaries of      *)
(* categories (catalog/showcase/showcase.mapper.ts).  All of it is         *)
(* computed for each visitor from the cached rows.                         *)
(***************************************************************************)
EXTENDS Integers, FiniteSets, Sequences, SequencesExt, FiniteSetsExt

CONSTANTS Catalogs,     \* what the shop may have: sequences of products
          Menus,        \* services of a category, as [min, max, off]
          Filters       \* what a visitor may ask for

VARIABLES stock, menu, asking

vars == <<stock, menu, asking>>

\* A filter that is not given is the empty set, and a price that is not set.
NoFilter == [category |-> {}, tags |-> {}, min |-> {}, max |-> {}, sort |-> "featured",
             size |-> {}, page |-> 1]
Only(set) == CHOOSE x \in set : TRUE

-----------------------------------------------------------------------------
(* Filters; a product is [name, category, order, tags, prices], its category *)
(* the order in which it is displayed, its prices those of its variants      *)

MinPrice(p) == IF p.prices = {} THEN {} ELSE {Min(p.prices)}
MaxPrice(p) == IF p.prices = {} THEN {} ELSE {Max(p.prices)}

\* Variant with a bug: the lowest price is to be in the range.
InRangeByLowest(p, f) ==
  /\ f.min # {} => p.prices # {} /\ Only(MinPrice(p)) >= Only(f.min)
  /\ f.max # {} => p.prices # {} /\ Only(MinPrice(p)) <= Only(f.max)

\* The prices of the product reach into the range; one without prices is in none.
InRange(p, f) ==
  /\ f.min # {} => p.prices # {} /\ Only(MaxPrice(p)) >= Only(f.min)
  /\ f.max # {} => p.prices # {} /\ Only(MinPrice(p)) <= Only(f.max)

\* A facet does not restrict what it counts itself.
Passes(p, f, ignore) ==
  /\ ignore # "category" /\ f.category # {} => p.category \in f.category
  /\ ignore # "tags" /\ f.tags # {} => f.tags \cap p.tags # {}
  /\ ignore # "price" => InRange(p, f)

Passing(f, ignore) == SelectSeq(stock, LAMBDA p : Passes(p, f, ignore))

-----------------------------------------------------------------------------
(* Order and pages *)

\* Variant with a bug: the order of prices is turned, and with it those without.
CheaperTurned(a, b, sign) ==
  IF a.prices = {} THEN FALSE
  ELSE IF b.prices = {} THEN sign = 1
  ELSE Only(MinPrice(a)) * sign < Only(MinPrice(b)) * sign

\* Products without a price come last in either direction.
Cheaper(a, b, sign) ==
  /\ a.prices # {}
  /\ b.prices = {} \/ Only(MinPrice(a)) * sign < Only(MinPrice(b)) * sign

Displayed(a, b) ==
  a.category < b.category \/ (a.category = b.category /\ a.order < b.order)

First(a, b, sort) ==
  CASE sort = "name" -> FALSE
    [] sort = "price-asc" -> Cheaper(a, b, 1)
    [] sort = "price-desc" -> Cheaper(a, b, -1)
    [] OTHER -> Displayed(a, b)

\* Products that are equal in order come by name.
Before(a, b, sort) == First(a, b, sort) \/ (~First(b, a, sort) /\ a.name < b.name)
Sorted(products, sort) ==
  SetToSortSeq(ToSet(products), LAMBDA a, b : Before(a, b, sort))

\* Variant with a bug: the last page is lost unless it is full.
PageCountFull(total, f) ==
  IF f.size = {} THEN 1 ELSE Max({total \div Only(f.size), 1})

PageCount(total, f) ==
  IF f.size = {} THEN 1
  ELSE Max({(total + Only(f.size) - 1) \div Only(f.size), 1})

\* A page that does not exist is the first or the last one.
Page(total, f) == Min({Max({f.page, 1}), PageCount(total, f)})

Items(f) ==
  LET sorted == Sorted(Passing(f, "none"), f.sort)
      from == (Page(Len(sorted), f) - 1) * Only(f.size)
  IN IF f.size = {} THEN sorted
     ELSE SubSeq(sorted, from + 1, Min({from + Only(f.size), Len(sorted)}))

Total(f) == Len(Passing(f, "none"))

-----------------------------------------------------------------------------
(* Facets: how many products each further choice would leave *)

\* Variant with a bug: what is already chosen restricts its own facet.
CountOfChosen(f, c) ==
  Cardinality({p \in ToSet(Passing(f, "none")) : p.category = c})

CategoryCount(f, c) ==
  Cardinality({p \in ToSet(Passing(f, "category")) : p.category = c})
TagCount(f, t) == Cardinality({p \in ToSet(Passing(f, "tags")) : t \in p.tags})
Categories == {p.category : p \in ToSet(stock)}
Tags == UNION {p.tags : p \in ToSet(stock)}
PricesOffered(f) == UNION {p.prices : p \in ToSet(Passing(f, "price"))}

\* Products like one: two points for its category, one for each tag; four at most.
Score(p, q) ==
  (IF p.category = q.category THEN 2 ELSE 0) + Cardinality(p.tags \cap q.tags)
Related(p) ==
  LET like == {q \in ToSet(stock) : q # p /\ Score(p, q) > 0}
      sorted == SetToSortSeq(like, LAMBDA a, b :
                  \/ Score(p, a) > Score(p, b)
                  \/ Score(p, a) = Score(p, b) /\ a.name < b.name)
  IN SubSeq(sorted, 1, Min({4, Len(sorted)}))

-----------------------------------------------------------------------------
(* Services: [min, max, off], a price or none and the percentage of a promotion, or none *)

\* Prices are in hundredths here: two decimals are kept.
FromOf(s) == IF s.off = {} \/ s.min = {} THEN s.min
             ELSE {(Only(s.min) * (100 - Only(s.off))) \div 100}
ToOf(s) == LET max == IF s.max = {} THEN s.min ELSE s.max
           IN IF s.off = {} \/ max = {} THEN max
              ELSE {(Only(max) * (100 - Only(s.off))) \div 100}

\* Variant with a bug: without its promotion.
FromWithoutPromotion(services) ==
  LET all == UNION {services[k].min : k \in DOMAIN services}
  IN IF all = {} THEN {} ELSE {Min(all)}

\* The summary of a category tells the lowest price of a card, whatever is reduced.
PriceFrom(services) ==
  LET all == UNION {FromOf(services[k]) : k \in DOMAIN services}
  IN IF all = {} THEN {} ELSE {Min(all)}
HasPromotion(services) == \E k \in DOMAIN services : services[k].off # {}

-----------------------------------------------------------------------------
Init == stock \in Catalogs /\ menu \in Menus /\ asking = NoFilter
Ask == asking = NoFilter /\ asking' \in Filters /\ UNCHANGED <<stock, menu>>
Next == Ask
Spec == Init /\ [][Next]_vars

TypeOK ==
  /\ \A k \in DOMAIN stock : stock[k].prices \subseteq Nat /\ stock[k].category \in Nat
  /\ asking \in Filters \cup {NoFilter}

\* The pages together are all that matches, each product once and in order, and every
\* page that is asked for exists.
PagesCoverTheList ==
  LET f == asking
      pages == [n \in 1 .. PageCount(Total(f), f) |-> Items([f EXCEPT !.page = n])]
  IN /\ FlattenSeq(pages) = Sorted(Passing(f, "none"), f.sort)
     /\ \E n \in DOMAIN pages : Items(f) = pages[n]
     /\ Total(f) > 0 => Items(f) # <<>>

\* A number beside a choice is what choosing it would show.
FacetsAreTrue ==
  /\ \A c \in Categories : CategoryCount(asking, c) = Total([asking EXCEPT !.category = {c}])
  /\ \A t \in Tags : TagCount(asking, t) = Total([asking EXCEPT !.tags = {t}])

\* No filter by price hides a product that has a variant at such a price, and the range
\* that is offered hides nothing that has a price.
PriceFilterHidesNothing ==
  /\ \A p \in ToSet(Passing(asking, "price")) :
       (\E x \in p.prices : /\ asking.min # {} => x >= Only(asking.min)
                            /\ asking.max # {} => x <= Only(asking.max))
         => Passes(p, asking, "none")
  /\ PricesOffered(asking) # {} =>
       LET whole == [asking EXCEPT !.min = {Min(PricesOffered(asking))},
                                   !.max = {Max(PricesOffered(asking))}]
       IN Total(whole) = Cardinality({p \in ToSet(Passing(asking, "price")) : p.prices # {}})

\* In either order of prices no product without a price precedes one that has one, and a
\* product's price never precedes a better one.
OrderIsByPrice ==
  \A k \in 1 .. Len(Items(asking)) - 1 :
    LET a == Items(asking)[k]
        b == Items(asking)[k + 1]
    IN asking.sort \in {"price-asc", "price-desc"} =>
         /\ a.prices = {} => b.prices = {}
         /\ a.prices # {} /\ b.prices # {} =>
              IF asking.sort = "price-asc" THEN Min(a.prices) <= Min(b.prices)
              ELSE Min(a.prices) >= Min(b.prices)

\* The price a category is announced with is that of one of its cards, and no card is
\* cheaper; one that no card has without its promotion is marked as reduced; no card
\* ends below where it begins.
AnnouncedPriceIsReal ==
  LET froms == UNION {FromOf(menu[k]) : k \in DOMAIN menu}
  IN /\ PriceFrom(menu) \subseteq froms
     /\ (\A k \in DOMAIN menu : menu[k].min # PriceFrom(menu)) => HasPromotion(menu)
     /\ \A x \in froms, y \in PriceFrom(menu) : y <= x
     /\ \A k \in DOMAIN menu : \A x \in FromOf(menu[k]), y \in ToOf(menu[k]) : x <= y

\* What is shown beside a product is not itself, has something in common with it, and
\* nothing closer was left out.
RelatedAreClosest ==
  \A p \in ToSet(stock) :
    /\ \A q \in ToSet(Related(p)) : q # p /\ Score(p, q) > 0
    /\ \A q \in ToSet(stock) \ (ToSet(Related(p)) \cup {p}) :
         \A r \in ToSet(Related(p)) : Score(p, q) <= Score(p, r)
=============================================================================
