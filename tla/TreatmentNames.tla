--------------------------- MODULE TreatmentNames ---------------------------
(***************************************************************************)
(* Which treatment is meant by the words of a client (treatment-matcher),  *)
(* for the tools of the bot that describe and book treatments by name.     *)
(* Words are without accents and without the words that say nothing, and   *)
(* may be the beginning of one another, as a singular is of its plural.    *)
(***************************************************************************)
EXTENDS Naturals, Sequences, FiniteSets, SequencesExt

CONSTANTS
  Catalogs,    \* sequences of treatments: the words of their names and of their addresses
  Queries,     \* what is asked for
  MaxOptions   \* treatments named when several are meant

VARIABLES catalog, query

vars == <<catalog, query>>

\* A word: the longer of two words of one root begins with the shorter.
Word(root, length) == [root |-> root, length |-> length]

TypeOK == catalog \in Catalogs /\ query \in Queries

-----------------------------------------------------------------------------

\* Variant with a bug: a word is any that begins with it.
SameBeginning(a, b) == a.root = b.root

\* Two words are one when they differ by an ending of two letters at most.
SameWord(a, b) ==
  \/ a = b
  \/ /\ a.root = b.root /\ a.length >= 4 /\ b.length >= 4
     /\ a.length <= b.length + 2 /\ b.length <= a.length + 2

Covers(name, words) ==
  \A i \in DOMAIN words : \E j \in DOMAIN name : SameWord(name[j], words[i])

\* The treatments whose name and address have all the words.
Candidates(words, treatments) ==
  SelectSeq(treatments, LAMBDA t : Covers(t.name \o t.slug, words))

\* Variant with a bug: a name that has all the words and others counts as exact.
ExactLonger(words, treatments) ==
  SelectSeq(Candidates(words, treatments), LAMBDA t : Covers(t.name, words))

\* Those of them whose name has no other words.
Exact(words, treatments) ==
  SelectSeq(Candidates(words, treatments),
            LAMBDA t : Len(t.name) = Len(words) /\ Covers(t.name, words))

NotFound == [status |-> "not_found", options |-> <<>>]
FoundOne(t) == [status |-> "found", options |-> <<t>>]
Several(ts) ==
  [status |-> "ambiguous", options |-> SubSeq(ts, 1, IF Len(ts) < MaxOptions THEN Len(ts) ELSE MaxOptions)]

\* Variant with a bug: the first of several is taken.
DecidedFirst(candidates, exact) ==
  IF candidates = <<>> THEN NotFound
  ELSE IF Len(candidates) = 1 THEN FoundOne(candidates[1])
  ELSE IF exact # <<>> THEN FoundOne(exact[1])
  ELSE Several(candidates)

\* One candidate, or one that is exactly what was asked, is found; of several none is.
Decided(candidates, exact) ==
  IF candidates = <<>> THEN NotFound
  ELSE IF Len(candidates) = 1 THEN FoundOne(candidates[1])
  ELSE IF Len(exact) = 1 THEN FoundOne(exact[1])
  ELSE Several(candidates)

Matched(words, treatments) ==
  IF words = <<>> THEN NotFound
  ELSE Decided(Candidates(words, treatments), Exact(words, treatments))

Init == catalog \in Catalogs /\ query = <<>>

Ask == query' \in Queries /\ UNCHANGED catalog

Next == Ask

Spec == Init /\ [][Next]_vars

-----------------------------------------------------------------------------

\* Two treatments that no words tell apart.
Twins(t, u) == Len(t.name) = Len(u.name) /\ Covers(t.name, u.name) /\ Covers(u.name, t.name)

\* A client who says the whole name of a treatment gets it, or is asked, when another has
\* the same name; so does one who repeats an option she was offered.
OwnNameFinds ==
  \A i \in DOMAIN catalog :
    LET t == catalog[i]
        answer == Matched(t.name, catalog)
    IN  t.name # <<>> =>
          \/ answer = FoundOne(t)
          \/ answer.status = "ambiguous" /\ \E j \in DOMAIN catalog \ {i} : Twins(t, catalog[j])

\* The catalogue may be in any order: the answer is of the same treatments.
OrderDoesNotMatter ==
  LET one == Matched(query, catalog)
      other == Matched(query, Reverse(catalog))
  IN  /\ one.status = other.status
      /\ one.status = "found" => one.options = other.options

\* The words of a name at some of its places.
Chosen(name, places) == FoldLeft(LAMBDA words, i : IF i \in places THEN Append(words, name[i]) ELSE words,
                                 <<>>, [i \in DOMAIN name |-> i])

\* A word that is said twice counts twice, and can make a longer name the exact one.
Repeats(words) == \E i, j \in DOMAIN words : i # j /\ SameWord(words[i], words[j])

\* More words of the name of the treatment that was found never find another one, when no
\* word is repeated.
PrecisionHelps ==
  LET answer == Matched(query, catalog)
      t == answer.options[1]
  IN  answer.status = "found" =>
        \A more \in SUBSET DOMAIN t.name :
          LET words == query \o Chosen(t.name, more)
              next == Matched(words, catalog)
          IN  ~Repeats(words) =>
              /\ next.status # "not_found"
              /\ next.status = "found" => next.options[1] = t

\* What is offered has every word that was said.
OptionsHaveTheWords ==
  \A i \in DOMAIN Matched(query, catalog).options :
    LET t == Matched(query, catalog).options[i] IN
    \A w \in ToSet(query) : \E v \in ToSet(t.name \o t.slug) :
      v.root = w.root /\ v.length <= w.length + 2 /\ w.length <= v.length + 2
=============================================================================
