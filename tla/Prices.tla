------------------------------- MODULE Prices -------------------------------
(***************************************************************************)
(* What a service costs: as the website and the assistant say it           *)
(* (catalog/showcase/showcase.mapper.ts, conduit/tools/                    *)
(* bot-treatment-view.ts) and as a booking charges it (catalog/treatments/ *)
(* validators/compute-treatment-pricing.ts), with the promotion that       *)
(* applies and the hair of the client, either of which may change between. *)
(***************************************************************************)
EXTENDS Integers, FiniteSets, FiniteSetsExt

CONSTANTS
  Treatments,  \* what a service may be: see TypeOK.  Amounts are hundredths of the unit
  Discounts,   \* percentages
  Lengths, Colors

\* An amount that may be missing is a set of at most one.
Or(amount, default) == IF amount = {} THEN default ELSE CHOOSE a \in amount : TRUE

VARIABLES
  treatment,  \* the service
  promotion,  \* percentages of the promotions valid for it and for its category
  hair,       \* profile of the client: known, length, color, valid
  quote,      \* what she was told
  charged,    \* finalPrice of the reservation
  changed,    \* the service, the promotions or her profile are not what they were (history)
  phase

vars == <<treatment, promotion, hair, quote, charged, changed, phase>>

\* All lengths have a price or none has (setHairLengthPricing).
TypeOK ==
  /\ treatment \in Treatments
  /\ \A t \in Treatments :
       /\ DOMAIN t = {"requiresPriorAssessment", "hasHairVariablePricing", "basePriceMin",
                      "basePriceMax", "length", "color"}
       /\ DOMAIN t.length \in {{}, Lengths} /\ DOMAIN t.color \subseteq Colors
  /\ DOMAIN promotion = {"treatment", "category"}
  /\ hair.length \in Lengths /\ hair.color \in Colors /\ hair.valid \in BOOLEAN
  /\ charged \in Nat /\ changed \in BOOLEAN /\ phase \in {"ask", "book", "booked"}

NoQuote == [by |-> "none", from |-> {}, to |-> {}]

Promotions == [treatment : {{}} \cup {{d} : d \in Discounts},
               category : {{}} \cup {{d} : d \in Discounts}]
Hair == [length : Lengths, color : Colors, valid : BOOLEAN]

Init ==
  /\ treatment \in Treatments /\ promotion \in Promotions /\ hair \in Hair
  /\ quote = NoQuote /\ charged = 0 /\ changed = FALSE /\ phase = "ask"

-----------------------------------------------------------------------------
(* Promotions *)

\* That of the service comes before that of its category.
ResolveApplicablePromotion ==
  IF promotion.treatment # {} THEN promotion.treatment ELSE promotion.category

\* Half a hundredth is rounded up (Math.round).
ApplyPercentageDiscount(price, discount) == (price * (100 - discount) + 50) \div 100

ApplyPromotion(price) == ApplyPercentageDiscount(price, Or(ResolveApplicablePromotion, 0))

\* The website rounds a product of fractions (toFixed), half a hundredth up or down.
Discounted(price) ==
  LET rest == price * (100 - Or(ResolveApplicablePromotion, 0)) IN
  {(rest + 50) \div 100, (rest + 49) \div 100}

-----------------------------------------------------------------------------
(* The price of a service for a client *)

ByHair == treatment.hasHairVariablePricing /\ DOMAIN treatment.length # {}
Surcharge(color) == IF color \in DOMAIN treatment.color THEN treatment.color[color] ELSE 0
ExactHairPricing == treatment.length[hair.length] + Surcharge(hair.color)

\* Variant with a bug: what color adds is forgotten.
CombineLengthsOnly == treatment.length[hair.length]

\* The same for the assistant, written a second time in clients/domain/.
CombineHairPricing == treatment.length[hair.length] + Surcharge(hair.color)

\* Variant with a bug: the dearest of the combinations that have a row of their own.
WorstOfShortHair ==
  Max({treatment.length[CHOOSE l \in Lengths : TRUE] + Surcharge(c) : c \in Colors})

WorstCaseHairPricing ==
  Max({0} \cup {treatment.length[l] : l \in DOMAIN treatment.length})
  + Max({0} \cup {treatment.color[c] : c \in DOMAIN treatment.color})

DetermineTreatmentPricing ==
  IF ~ByHair
  THEN IF treatment.requiresPriorAssessment THEN Or(treatment.basePriceMax, 0)
       ELSE Or(treatment.basePriceMin, 0)
  ELSE IF hair.valid THEN ExactHairPricing ELSE WorstCaseHairPricing

-----------------------------------------------------------------------------
(* Actions *)

\* The website shows from the least to the most; where the most is missing, the least.
AskWebsite ==
  LET most == IF treatment.basePriceMax = {} THEN treatment.basePriceMin
              ELSE treatment.basePriceMax
      Shown(amount) == IF amount = {} THEN {{}}
                       ELSE {{a} : a \in Discounted(Or(amount, 0))} IN
  /\ phase = "ask" /\ phase' = "book"
  /\ \E from \in Shown(treatment.basePriceMin), to \in Shown(most) :
       quote' = [by |-> "website", from |-> from, to |-> to]
  /\ UNCHANGED <<treatment, promotion, hair, charged, changed>>

\* The assistant tells a client whose hair it knows her price, others the range, ...
AskAssistant ==
  LET most == IF treatment.basePriceMin = {} \/ treatment.basePriceMax = {}
              THEN treatment.basePriceMin ELSE treatment.basePriceMax
      Told(amount) == {ApplyPromotion(a) : a \in amount} IN
  /\ phase = "ask" /\ phase' = "book"
  /\ quote' = IF ByHair /\ hair.valid
              THEN [by |-> "her", from |-> {ApplyPromotion(CombineHairPricing)},
                    to |-> {ApplyPromotion(CombineHairPricing)}]
              ELSE [by |-> "assistant", from |-> Told(treatment.basePriceMin),
                    to |-> Told(most)]
  /\ UNCHANGED <<treatment, promotion, hair, charged, changed>>

\* ... a promotion begins or ends, her profile lapses or is renewed, the service is edited, ...
Change ==
  /\ phase = "book" /\ ~changed /\ changed' = TRUE
  /\ \/ promotion' \in Promotions \ {promotion} /\ UNCHANGED <<treatment, hair>>
     \/ hair' \in Hair \ {hair} /\ UNCHANGED <<treatment, promotion>>
     \/ treatment' \in Treatments \ {treatment} /\ UNCHANGED <<promotion, hair>>
  /\ UNCHANGED <<quote, charged, phase>>

\* ... and she books.
Book ==
  /\ phase = "book" /\ phase' = "booked"
  /\ charged' = ApplyPromotion(DetermineTreatmentPricing)
  /\ UNCHANGED <<treatment, promotion, hair, quote, changed>>

Next == AskWebsite \/ AskAssistant \/ Change \/ Book

-----------------------------------------------------------------------------
(* Properties *)

\* The price of a service that is priced after an assessment and has no highest price.
Unpriced ==
  \/ treatment.requiresPriorAssessment /\ treatment.basePriceMax = {}
  \/ ~treatment.requiresPriorAssessment /\ treatment.basePriceMin = {}

\* What she was told is what she is charged, if nothing changed between: her own price
\* exactly, a service without prices by hair within its range, a hundredth of rounding
\* aside; but for a service whose price is missing, which is booked for nothing.
QuoteIsKept ==
  phase = "booked" /\ ~changed =>
    /\ quote.by = "her" => charged \in quote.from
    /\ quote.by # "her" /\ ~ByHair /\ ~Unpriced =>
         Or(quote.from, charged) <= charged /\ charged <= Or(quote.to, charged) + 1

\* Who books without a valid profile is charged at least what any hair would cost her.
ProfileIsNeverDearer ==
  phase = "booked" /\ ByHair /\ ~hair.valid =>
    \A l \in Lengths, c \in Colors :
      ApplyPromotion(treatment.length[l] + Surcharge(c)) <= charged
=============================================================================
