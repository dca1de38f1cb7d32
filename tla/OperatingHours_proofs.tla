----------------------- MODULE OperatingHours_proofs -----------------------
(***************************************************************************)
(* What the functions of OperatingHours compute, for all schedules: the    *)
(* open time of a day, and the deadline that the deposit clock ends at.    *)
(***************************************************************************)
EXTENDS OperatingHours, FiniteSetTheorems, SequenceTheorems, TLAPS

---------------------------------------------------------------------------
(* Induction over numbers, finite sets and folds                           *)

LEMMA LeastNumber ==
  ASSUME NEW S, S \subseteq Nat, S # {}
  PROVE  \E n \in S : \A m \in S : n <= m
<1> DEFINE R == OpToRel(<, Nat)
<1>1. IsWellFoundedOn(R, Nat)
  BY NatLessThanWellFounded, Zenon
<1> HIDE DEF R
<1>2. PICK n \in S : \A m \in S : ~ (<<m, n>> \in R)
  BY <1>1, WFMin
<1>3. \A m \in Nat : m < n => <<m, n>> \in R
  <2>1. n \in Nat
    OBVIOUS
  <2> QED
    BY <2>1, Zenon DEF R, OpToRel
<1>4. \A m \in S : ~ (m < n)
  BY <1>2, <1>3
<1> QED
  BY <1>4

\* A set of numbers that holds 0 and, with each number, the next one up to n.
LEMMA Counting ==
  ASSUME NEW n \in Nat, NEW Good, 0 \in Good,
         \A k \in 1 .. n : k - 1 \in Good => k \in Good
  PROVE  \A k \in 0 .. n : k \in Good
<1> SUFFICES ASSUME NEW j \in 0 .. n, j \notin Good
             PROVE  FALSE
  OBVIOUS
<1> DEFINE Bad == {k \in 0 .. n : k \notin Good}
<1>1. Bad \subseteq Nat /\ Bad # {}
  OBVIOUS
<1>2. PICK k \in Bad : \A m \in Bad : k <= m
  <2> HIDE DEF Bad
  <2> QED
    BY <1>1, LeastNumber
<1>3. k \in 1 .. n /\ k - 1 \in 0 .. n /\ k - 1 < k
  BY <1>2
<1>4. k - 1 \in Good
  BY <1>2, <1>3
<1> QED
  BY <1>2, <1>3, <1>4

\* A set of subsets that holds the empty one, and each one of which it holds what is
\* left when a member is taken away.
LEMMA Growing ==
  ASSUME NEW S, IsFiniteSet(S), NEW Good, {} \in Good,
         \A T \in SUBSET S : T # {} /\ (\A x \in T : T \ {x} \in Good) => T \in Good
  PROVE  \A T \in SUBSET S : T \in Good
<1> DEFINE Sized(n) == {T \in SUBSET S : Cardinality(T) = n}
           Done == {n \in Nat : Sized(n) \subseteq Good}
<1>1. \A T \in SUBSET S : IsFiniteSet(T) /\ Cardinality(T) \in Nat
  BY FS_Subset, FS_CardinalityType
<1>2. 0 \in Done
  <2>1. \A T \in Sized(0) : T = {}
    BY <1>1, FS_EmptySet
  <2> QED
    BY <2>1
<1>3. ASSUME NEW n \in Nat, n > 0, n - 1 \in Done
      PROVE  n \in Done
  <2> SUFFICES ASSUME NEW T \in SUBSET S, Cardinality(T) = n
               PROVE  T \in Good
    OBVIOUS
  <2>1. T # {}
    BY <1>1, <1>3, FS_EmptySet
  <2>2. \A x \in T : Cardinality(T \ {x}) = n - 1
    BY <1>1, FS_RemoveElement
  <2>3. \A x \in T : T \ {x} \in Sized(n - 1)
    BY <2>2
  <2> QED
    BY <1>3, <2>1, <2>3
<1>4. \A n \in Nat : n \in Done
  <2> HIDE DEF Done
  <2> TAKE n \in Nat
  <2>1. \A k \in 1 .. n : k - 1 \in Done => k \in Done
    BY <1>3
  <2>2. \A k \in 0 .. n : k \in Done
    BY <1>2, <2>1, Counting
  <2> QED
    BY <2>2
<1> QED
  BY <1>1, <1>4

\* There is a function that unfolds as MapThenFoldSet says.
PicksMember(pick, S) == \A T \in SUBSET S : T # {} => pick[T] \in T
StaysIn(V, step, S) == \A x \in S, v \in V : step[<<x, v>>] \in V
UnfoldsTo(f, base, pick, step, S) ==
  \A T \in SUBSET S :
    f[T] = IF T = {} THEN base ELSE step[<<pick[T], f[T \ {pick[T]}]>>]

LEMMA Unfolds ==
  ASSUME NEW S, IsFiniteSet(S), NEW V, NEW base \in V, NEW pick, NEW step,
         PicksMember(pick, S), StaysIn(V, step, S)
  PROVE  \E f \in [SUBSET S -> V] : UnfoldsTo(f, base, pick, step, S)
<1> USE DEF PicksMember, StaysIn, UnfoldsTo
<1> DEFINE Small(n) == {T \in SUBSET S : Cardinality(T) <= n}
           Value(f, T) == IF T = {} THEN base ELSE step[<<pick[T], f[T \ {pick[T]}]>>]
           Unfolding(n, f) == \A T \in Small(n) : f[T] = Value(f, T)
           Done == {n \in Nat : \E f \in [Small(n) -> V] : Unfolding(n, f)}
<1>1. \A T \in SUBSET S : IsFiniteSet(T) /\ Cardinality(T) \in Nat
  BY FS_Subset, FS_CardinalityType
<1>2. 0 \in Done
  <2>1. \A T \in Small(0) : T = {}
    BY <1>1, FS_EmptySet
  <2> DEFINE f == [T \in Small(0) |-> base]
  <2>2. f \in [Small(0) -> V] /\ Unfolding(0, f)
    BY <2>1
  <2> QED
    BY <2>2
<1>3. ASSUME NEW n \in Nat, n > 0, n - 1 \in Done
      PROVE  n \in Done
  <2>1. PICK f \in [Small(n - 1) -> V] : Unfolding(n - 1, f)
    BY <1>3
  <2>2. \A T \in Small(n) : T # {} => T \ {pick[T]} \in Small(n - 1)
    BY <1>1, FS_RemoveElement
  <2> DEFINE g == [T \in Small(n) |-> Value(f, T)]
  <2>3. \A T \in Small(n - 1) : T \in Small(n) /\ g[T] = f[T]
    BY <1>1, <2>1
  <2>4. \A T \in Small(n) : g[T] = Value(g, T)
    <3> TAKE T \in Small(n)
    <3>1. CASE T = {}
      BY <3>1
    <3>2. CASE T # {}
      <4>1. T \ {pick[T]} \in Small(n - 1)
        BY <2>2, <3>2
      <4>2. g[T \ {pick[T]}] = f[T \ {pick[T]}]
        BY <2>3, <4>1
      <4> QED
        BY <4>2
    <3> QED
      BY <3>1, <3>2
  <2>5. \A T \in Small(n) : g[T] \in V
    <3> TAKE T \in Small(n)
    <3>1. T # {} => T \ {pick[T]} \in Small(n - 1) /\ f[T \ {pick[T]}] \in V /\ pick[T] \in S
      BY <2>1, <2>2
    <3> QED
      BY <3>1
  <2>6. g \in [Small(n) -> V]
    BY <2>5
  <2> QED
    BY <2>4, <2>6
<1>4. \A n \in Nat : n \in Done
  <2> HIDE DEF Done
  <2> TAKE n \in Nat
  <2>1. \A k \in 1 .. n : k - 1 \in Done => k \in Done
    BY <1>3
  <2>2. \A k \in 0 .. n : k \in Done
    BY <1>2, <2>1, Counting
  <2> QED
    BY <2>2
<1>5. Small(Cardinality(S)) = SUBSET S
  BY <1>1, FS_Subset
<1>6. PICK f \in [SUBSET S -> V] : \A T \in SUBSET S : f[T] = Value(f, T)
  <2>1. Cardinality(S) \in Done
    BY <1>1, <1>4
  <2>2. PICK f \in [Small(Cardinality(S)) -> V] : Unfolding(Cardinality(S), f)
    BY <2>1
  <2> QED
    BY <1>5, <2>2
<1> QED
  BY <1>6

---------------------------------------------------------------------------
(* mergeMinuteRanges                                                       *)

MinuteRange == [from : Nat, to : Nat]

\* Windows in order, with time between them.
Apart(m) ==
  /\ \A i \in DOMAIN m : m[i].from < m[i].to
  /\ \A i, j \in DOMAIN m : i < j => m[i].to < m[j].from

LEMMA InMinutes ==
  \A R, t : t \in Minutes(R) <=> \E r \in R : t \in r.from .. r.to - 1
BY DEF Minutes

LEMMA LatestIsLast ==
  ASSUME NEW S, S \subseteq MinuteRange, IsFiniteSet(S), S # {}
  PROVE  Latest(S) \in S /\ \A s \in S : s.from <= Latest(S).from
<1> DEFINE IsLast(r, T) == \A s \in T \ {r} : Earlier(s, r)
           Good == {T \in SUBSET S : T = {} \/ \E r \in T : IsLast(r, T)}
<1>1. ASSUME NEW T \in SUBSET S, T # {}, \A x \in T : T \ {x} \in Good
      PROVE  T \in Good
  <2>1. PICK x \in T : TRUE
    BY <1>1
  <2>2. CASE T \ {x} = {}
    <3>1. IsLast(x, T)
      BY <2>2
    <3> QED
      BY <3>1
  <2>3. CASE T \ {x} # {}
    <3>1. PICK r \in T \ {x} : IsLast(r, T \ {x})
      BY <1>1, <2>1, <2>3
    <3>2. r # x /\ r \in MinuteRange /\ x \in MinuteRange
      BY <2>1, <3>1
    <3>3. r.from # x.from \/ r.to # x.to
      BY <3>2 DEF MinuteRange
    <3>4. CASE Earlier(x, r)
      <4>1. IsLast(r, T)
        BY <3>1, <3>4
      <4> QED
        BY <4>1
    <3>5. CASE Earlier(r, x)
      <4>1. \A s \in T \ {x} : Earlier(s, x)
        <5> TAKE s \in T \ {x}
        <5>1. s = r \/ Earlier(s, r)
          BY <3>1
        <5>2. s \in MinuteRange
          OBVIOUS
        <5> QED
          BY <3>2, <3>5, <5>1, <5>2 DEF Earlier, MinuteRange
      <4> QED
        BY <4>1
    <3> QED
      BY <3>2, <3>3, <3>4, <3>5 DEF Earlier, MinuteRange
  <2> QED
    BY <2>2, <2>3
<1>2. S \in Good
  <2>1. {} \in Good
    OBVIOUS
  <2> HIDE DEF Good
  <2> QED
    BY <1>1, <2>1, Growing
<1>3. \E r \in S : IsLast(r, S)
  BY <1>2
<1>4. Latest(S) \in S /\ IsLast(Latest(S), S)
  BY <1>3 DEF Latest
<1> HIDE DEF IsLast
<1>5. \A s \in S : s = Latest(S) \/ Earlier(s, Latest(S))
  BY <1>4 DEF IsLast
<1> QED
  BY <1>4, <1>5 DEF Earlier, MinuteRange

\* What becomes of the windows so far when the next range begins no earlier.
LEMMA AbsorbMerges ==
  ASSUME NEW m \in Seq(MinuteRange), Apart(m), NEW r \in MinuteRange, r.from < r.to,
         \A i \in DOMAIN m : m[i].from <= r.from
  PROVE  /\ Absorb(m, r) \in Seq(MinuteRange) /\ Apart(Absorb(m, r))
         /\ Minutes(ToSet(Absorb(m, r))) = Minutes(ToSet(m) \cup {r})
         /\ \A i \in DOMAIN Absorb(m, r) :
              /\ \E q \in ToSet(m) \cup {r} : Absorb(m, r)[i].from = q.from
              /\ \E q \in ToSet(m) \cup {r} : Absorb(m, r)[i].to = q.to
<1> DEFINE n == Absorb(m, r)
           k == Len(m)
<1>1. /\ r.from \in Nat /\ r.to \in Nat /\ k \in Nat /\ DOMAIN m = 1 .. k
      /\ \A i \in 1 .. k : m[i] \in MinuteRange /\ m[i].from \in Nat /\ m[i].to \in Nat
  <2>1. k \in Nat /\ DOMAIN m = 1 .. k /\ \A i \in 1 .. k : m[i] \in MinuteRange
    OBVIOUS
  <2>2. \A q \in MinuteRange : q.from \in Nat /\ q.to \in Nat
    BY DEF MinuteRange
  <2> QED
    BY <2>1, <2>2
<1>2. CASE m # <<>> /\ r.from <= Last(m).to
  <2>1. k > 0 /\ k \in DOMAIN m /\ Last(m) = m[k]
    BY <1>1, <1>2 DEF Last
  <2> DEFINE end == Later(m[k].to, r.to)
             joined == [m[k] EXCEPT !.to = end]
  <2>2. /\ end \in Nat /\ end >= m[k].to /\ end >= r.to /\ end \in {m[k].to, r.to}
        /\ joined \in MinuteRange /\ joined.from = m[k].from /\ joined.to = end
    BY <1>1, <2>1 DEF Later, MinuteRange
  <2>3. n = [m EXCEPT ![k] = joined]
    BY <1>2 DEF Absorb
  <2> HIDE DEF end, joined, k
  <2>4. /\ n \in Seq(MinuteRange) /\ DOMAIN n = 1 .. k /\ n[k] = joined
        /\ \A i \in 1 .. k : i # k => n[i] = m[i]
    BY <1>1, <2>1, <2>2, <2>3
  <2> HIDE DEF n
  <2>5. Apart(n)
    <3>1. \A i \in 1 .. k : n[i].from = m[i].from /\ (i = k \/ n[i].to = m[i].to)
      BY <2>2, <2>4
    <3>2. n[k].from < n[k].to
      BY <1>1, <2>1, <2>2, <2>4 DEF Apart
    <3>3. \A i \in 1 .. k : n[i].from < n[i].to
      BY <3>1, <3>2, <1>1 DEF Apart
    <3>4. \A i, j \in 1 .. k : i < j => n[i].to < n[j].from
      <4> TAKE i, j \in 1 .. k
      <4> HAVE i < j
      <4>1. i # k
        BY <1>1
      <4> QED
        BY <1>1, <3>1, <4>1 DEF Apart
    <3> QED
      BY <2>4, <3>3, <3>4 DEF Apart
  <2>6. ASSUME NEW t PROVE t \in Minutes(ToSet(n)) <=> t \in Minutes(ToSet(m) \cup {r})
    <3>1. t \in Minutes(ToSet(n)) <=> \E i \in 1 .. k : t \in n[i].from .. n[i].to - 1
      BY <2>4, InMinutes DEF ToSet
    <3>2. t \in Minutes(ToSet(m) \cup {r})
            <=> \/ \E i \in 1 .. k : t \in m[i].from .. m[i].to - 1
                \/ t \in r.from .. r.to - 1
      <4>1. \A q : q \in ToSet(m) \cup {r} <=> q = r \/ \E i \in 1 .. k : q = m[i]
        BY <1>1 DEF ToSet
      <4> QED
        BY <4>1, InMinutes
    <3>3. t \in joined.from .. joined.to - 1
            <=> t \in m[k].from .. m[k].to - 1 \/ t \in r.from .. r.to - 1
      <4>1. m[k].from <= r.from /\ r.from <= m[k].to
        BY <1>2, <2>1
      <4> QED
        BY <1>1, <2>1, <2>2, <4>1
    <3> QED
      BY <2>1, <2>4, <3>1, <3>2, <3>3
  <2>7. \A i \in DOMAIN n : /\ \E q \in ToSet(m) \cup {r} : n[i].from = q.from
                            /\ \E q \in ToSet(m) \cup {r} : n[i].to = q.to
    <3> TAKE i \in DOMAIN n
    <3>1. m[i] \in ToSet(m) /\ i \in 1 .. k
      BY <1>1, <2>4 DEF ToSet
    <3> QED
      BY <2>2, <2>4, <3>1
  <2> QED
    BY <2>4, <2>5, <2>6, <2>7 DEF n
<1>3. CASE ~ (m # <<>> /\ r.from <= Last(m).to)
  <2>1. n = Append(m, r)
    BY <1>3 DEF Absorb
  <2>2. /\ n \in Seq(MinuteRange) /\ DOMAIN n = 1 .. k + 1 /\ n[k + 1] = r
        /\ \A i \in 1 .. k : n[i] = m[i]
    BY <1>1, <2>1
  <2>7. k > 0 => m # <<>> /\ Last(m) = m[k]
    BY DEF Last
  <2> HIDE DEF n, k
  <2>3. \A i \in 1 .. k : m[i].to < r.from
    <3> TAKE i \in 1 .. k
    <3>1. k \in 1 .. k /\ m # <<>> /\ Last(m) = m[k]
      BY <1>1, <2>7
    <3>2. m[k].to < r.from
      BY <1>1, <1>3, <3>1
    <3>3. m[k].from < m[k].to
      BY <1>1, <3>1 DEF Apart
    <3>4. i = k \/ i < k
      BY <1>1
    <3>5. i < k => m[i].to < m[k].from
      BY <1>1, <3>1 DEF Apart
    <3>6. m[i].to \in Int /\ m[k].to \in Int /\ m[k].from \in Int /\ r.from \in Int
      BY <1>1, <3>1 DEF MinuteRange
    <3> QED
      BY <3>2, <3>3, <3>4, <3>5, <3>6
  <2>4. Apart(n)
    <3>1. \A i \in DOMAIN n : n[i].from < n[i].to
      BY <1>1, <2>2 DEF Apart
    <3>2. ASSUME NEW i \in DOMAIN n, NEW j \in DOMAIN n, i < j
          PROVE  n[i].to < n[j].from
      <4>1. CASE j = k + 1
        BY <1>1, <2>2, <2>3, <3>2, <4>1
      <4>2. CASE j # k + 1
        <5>1. i \in 1 .. k /\ j \in 1 .. k
          BY <1>1, <2>2, <3>2, <4>2
        <5>2. m[i].to < m[j].from
          BY <1>1, <3>2, <5>1 DEF Apart
        <5> QED
          BY <2>2, <5>1, <5>2
      <4> QED
        BY <4>1, <4>2
    <3> QED
      BY <3>1, <3>2 DEF Apart
  <2>5. ToSet(n) = ToSet(m) \cup {r}
    <3>1. ToSet(n) = {n[i] : i \in 1 .. k + 1} /\ ToSet(m) = {m[i] : i \in 1 .. k}
      BY <1>1, <2>2 DEF ToSet
    <3>2. \A i : i \in 1 .. k + 1 <=> i \in 1 .. k \/ i = k + 1
      BY <1>1
    <3> QED
      BY <2>2, <3>1, <3>2
  <2>6. \A i \in DOMAIN n : n[i] \in ToSet(m) \cup {r}
    BY <2>5 DEF ToSet
  <2> QED
    BY <2>2, <2>4, <2>5, <2>6 DEF n
<1> QED
  BY <1>2, <1>3

\* Ranges that are merged: their minutes as windows apart, with ends of their own.
Merged(ranges, m) ==
  /\ m \in Seq(MinuteRange) /\ Apart(m)
  /\ Minutes(ToSet(m)) = Minutes(ranges)
  /\ \A i \in DOMAIN m : /\ \E q \in ranges : m[i].from = q.from
                         /\ \E q \in ranges : m[i].to = q.to

LEMMA MergedNext ==
  ASSUME NEW T, T \subseteq MinuteRange, NEW r \in T, r.from < r.to,
         \A q \in T : q.from <= r.from,
         NEW m, Merged(T \ {r}, m)
  PROVE  Merged(T, Absorb(m, r))
<1>1. \A i \in DOMAIN m : m[i].from <= r.from
  BY DEF Merged
<1>2. r \in MinuteRange /\ m \in Seq(MinuteRange) /\ Apart(m)
  BY DEF Merged
<1> DEFINE n == Absorb(m, r)
<1>3. /\ n \in Seq(MinuteRange) /\ Apart(n)
      /\ Minutes(ToSet(n)) = Minutes(ToSet(m) \cup {r})
      /\ \A i \in DOMAIN n :
           /\ \E q \in ToSet(m) \cup {r} : n[i].from = q.from
           /\ \E q \in ToSet(m) \cup {r} : n[i].to = q.to
  BY <1>1, <1>2, AbsorbMerges
<1> HIDE DEF n
<1>4. Minutes(ToSet(m) \cup {r}) = Minutes(T)
  <2>1. Minutes(ToSet(m)) = Minutes(T \ {r})
    BY DEF Merged
  <2>2. \A A : Minutes(A \cup {r}) = Minutes(A) \cup Minutes({r})
    BY DEF Minutes
  <2>3. T = (T \ {r}) \cup {r}
    OBVIOUS
  <2> QED
    BY <2>1, <2>2, <2>3
<1>5. \A q \in ToSet(m) \cup {r} : /\ \E p \in T : q.from = p.from
                                   /\ \E p \in T : q.to = p.to
  BY DEF Merged, ToSet
<1>6. \A i \in DOMAIN n : /\ \E q \in T : n[i].from = q.from
                          /\ \E q \in T : n[i].to = q.to
  BY <1>3, <1>5
<1> QED
  BY <1>3, <1>4, <1>6 DEF Merged, n

\* mergeMinuteRanges keeps exactly the minutes of its ranges.
LEMMA MergeIsExact ==
  ASSUME NEW ranges, ranges \subseteq MinuteRange, IsFiniteSet(ranges)
  PROVE  Merged(ranges, MergeMinuteRanges(ranges))
<1> DEFINE S == {r \in ranges : r.to > r.from}
           V == Seq(MinuteRange)
           Unfolding(f) ==
             f = [T \in SUBSET S |->
                    IF T = {} THEN <<>> ELSE Absorb(f[T \ {Latest(T)}], Latest(T))]
           f == CHOOSE f : Unfolding(f)
           Good == {T \in SUBSET S : Merged(T, f[T])}
<1>1. S \subseteq MinuteRange /\ IsFiniteSet(S) /\ \A T \in SUBSET S : IsFiniteSet(T)
  BY FS_Subset
<1>2. \A T \in SUBSET S : T # {} => Latest(T) \in T /\ \A q \in T : q.from <= Latest(T).from
  <2> HIDE DEF S
  <2> QED
    BY <1>1, LatestIsLast
<1>3. MergeMinuteRanges(ranges) = f[S]
  BY DEF MergeMinuteRanges, MapThenFoldSet
<1>4. Unfolding(f)
  <2> HIDE DEF S
  <2> DEFINE pick == [T \in SUBSET S |-> Latest(T)]
             step == [p \in S \X V |-> Absorb(p[2], p[1])]
             none == <<>>
  <2>1. \A T \in SUBSET S : pick[T] = Latest(T) /\ (T # {} => pick[T] \in T)
    BY <1>2
  <2>2. \A x \in S, v \in V : step[<<x, v>>] = Absorb(v, x)
    OBVIOUS
  <2>3. \A x \in S, v \in V : Absorb(v, x) \in V
    <3> TAKE x \in S, v \in V
    <3>1. x \in MinuteRange /\ Append(v, x) \in V
      BY <1>1
    <3>2. CASE v # <<>>
      <4>1. Len(v) \in DOMAIN v /\ v[Len(v)] \in MinuteRange
        BY <3>2
      <4>2. [v[Len(v)] EXCEPT !.to = Later(@, x.to)] \in MinuteRange
        BY <3>1, <4>1 DEF MinuteRange, Later
      <4>3. [v EXCEPT ![Len(v)].to = Later(@, x.to)]
              = [v EXCEPT ![Len(v)] = [v[Len(v)] EXCEPT !.to = Later(@, x.to)]]
        OBVIOUS
      <4>4. [v EXCEPT ![Len(v)].to = Later(@, x.to)] \in V
        BY <4>1, <4>2, <4>3
      <4> QED
        BY <3>1, <4>4 DEF Absorb
    <3> QED
      BY <3>1, <3>2 DEF Absorb
  <2>4. none \in V
    OBVIOUS
  <2>5. PicksMember(pick, S) /\ StaysIn(V, step, S)
    BY <2>1, <2>2, <2>3 DEF PicksMember, StaysIn
  <2>6. PICK g \in [SUBSET S -> V] : UnfoldsTo(g, none, pick, step, S)
    <3> HIDE DEF S, V, none, pick, step
    <3> QED
      BY <1>1, <2>4, <2>5, Unfolds
  <2>7. \A T \in SUBSET S :
          g[T] = IF T = {} THEN <<>> ELSE Absorb(g[T \ {Latest(T)}], Latest(T))
    <3> TAKE T \in SUBSET S
    <3>1. CASE T # {}
      <4>1. Latest(T) \in S /\ g[T \ {Latest(T)}] \in V
        BY <1>2, <3>1, <2>6
      <4> QED
        BY <2>1, <2>2, <2>6, <3>1, <4>1 DEF UnfoldsTo
    <3> QED
      BY <2>6, <3>1 DEF UnfoldsTo
  <2>8. Unfolding(g)
    BY <2>6, <2>7
  <2> QED
    BY <2>8
<1> HIDE DEF f
<1>5. {} \in Good
  <2>1. f[{}] = <<>>
    BY <1>4
  <2>2. <<>> \in V /\ DOMAIN <<>> = {}
    OBVIOUS
  <2>3. ToSet(<<>>) = {}
    BY <2>2 DEF ToSet
  <2>4. Merged({}, <<>>)
    BY <2>2, <2>3 DEF Merged, Apart
  <2> QED
    BY <2>1, <2>4
<1>6. ASSUME NEW T \in SUBSET S, T # {}, \A x \in T : T \ {x} \in Good
      PROVE  T \in Good
  <2>1. Latest(T) \in T /\ Merged(T \ {Latest(T)}, f[T \ {Latest(T)}])
    BY <1>2, <1>6
  <2>2. f[T] = Absorb(f[T \ {Latest(T)}], Latest(T))
    BY <1>4, <1>6
  <2>3. Latest(T).from < Latest(T).to
    BY <2>1
  <2>4. Merged(T, f[T])
    BY <1>1, <1>2, <2>1, <2>2, <2>3, MergedNext
  <2> QED
    BY <2>4
<1>7. S \in Good
  <2> HIDE DEF S, Good
  <2> QED
    BY <1>1, <1>5, <1>6, Growing
<1>8. Minutes(S) = Minutes(ranges)
  <2>1. \A r \in ranges : r \notin S => r.from .. r.to - 1 = {}
    BY DEF MinuteRange
  <2> QED
    BY <2>1 DEF Minutes
<1> QED
  BY <1>3, <1>7, <1>8 DEF Merged

---------------------------------------------------------------------------
(* FoldLeft takes the elements of a sequence in their order                *)

LEMMA GreatestIndex ==
  ASSUME NEW n \in Nat, NEW T \in SUBSET (1 .. n), T # {}
  PROVE  Max(T) \in T /\ \A k \in T : k <= Max(T)
<1> DEFINE Below == {n - k : k \in T}
<1>0. \A k \in T : k \in Nat /\ k <= n
  OBVIOUS
<1>1. Below \subseteq Nat /\ Below # {}
  <2>1. \A k \in T : n - k \in Nat
    BY <1>0
  <2> QED
    BY <2>1
<1>2. PICK b \in Below : \A m \in Below : b <= m
  <2> HIDE DEF Below
  <2> QED
    BY <1>1, LeastNumber
<1>3. PICK k \in T : b = n - k
  BY <1>2
<1>4. \A j \in T : k >= j
  <2> TAKE j \in T
  <2>1. n - k <= n - j
    BY <1>2, <1>3
  <2> QED
    BY <1>0, <2>1
<1>5. Max(T) \in T /\ \A j \in T : Max(T) >= j
  BY <1>3, <1>4 DEF Max
<1> QED
  BY <1>0, <1>5

LEMMA LastTaken ==
  ASSUME NEW k \in Nat, k > 0
  PROVE  1 .. k # {} /\ Max(1 .. k) = k /\ (1 .. k) \ {k} = 1 .. (k - 1)
<1>1. k \in 1 .. k
  OBVIOUS
<1>2. Max(1 .. k) = k
  <2>1. Max(1 .. k) \in 1 .. k /\ \A j \in 1 .. k : j <= Max(1 .. k)
    BY <1>1, GreatestIndex
  <2> QED
    BY <1>1, <2>1
<1>3. \A j : j \in (1 .. k) \ {k} <=> j \in 1 .. (k - 1)
  OBVIOUS
<1> DEFINE rest == (1 .. k) \ {k}
           less == 1 .. (k - 1)
<1>4. rest = less
  <2>1. \A j : j \in rest <=> j \in less
    BY <1>3
  <2> HIDE DEF rest, less
  <2> QED
    BY <2>1
<1>5. 1 .. k # {}
  BY <1>1
<1> QED
  BY <1>2, <1>4, <1>5

\* There is a function that unfolds as FoldLeft says.
LEMMA UnfoldsLeft ==
  ASSUME NEW n \in Nat, NEW V, NEW base \in V, NEW step, StaysIn(V, step, 1 .. n)
  PROVE  \E f \in [SUBSET (1 .. n) -> V] :
           UnfoldsTo(f, base, [T \in SUBSET (1 .. n) |-> Max(T)], step, 1 .. n)
<1> DEFINE pick == [T \in SUBSET (1 .. n) |-> Max(T)]
<1>1. PicksMember(pick, 1 .. n)
  BY GreatestIndex DEF PicksMember
<1>2. IsFiniteSet(1 .. n)
  BY FS_Interval
<1> HIDE DEF pick
<1>3. \E f \in [SUBSET (1 .. n) -> V] : UnfoldsTo(f, base, pick, step, 1 .. n)
  BY <1>1, <1>2, Unfolds
<1> QED
  BY <1>3 DEF pick

---------------------------------------------------------------------------
(* subtractMinuteRanges                                                    *)

LEMMA PiecesAreWhatIsLeft ==
  ASSUME NEW r \in MinuteRange, NEW cut \in MinuteRange, r.from < r.to, cut.from < cut.to
  PROVE  /\ Pieces(r, cut) \in Seq(MinuteRange) /\ Apart(Pieces(r, cut))
         /\ Minutes(ToSet(Pieces(r, cut))) = (r.from .. r.to - 1) \ (cut.from .. cut.to - 1)
         /\ \A i \in DOMAIN Pieces(r, cut) :
              r.from <= Pieces(r, cut)[i].from /\ Pieces(r, cut)[i].to <= r.to
<1>1. r.from \in Nat /\ r.to \in Nat /\ cut.from \in Nat /\ cut.to \in Nat
  BY DEF MinuteRange
<1> DEFINE before == Between(r.from, cut.from)
           after == Between(cut.to, r.to)
           p == Pieces(r, cut)
<1>2. /\ before \in MinuteRange /\ before.from = r.from /\ before.to = cut.from
      /\ after \in MinuteRange /\ after.from = cut.to /\ after.to = r.to
  BY <1>1 DEF Between, MinuteRange
<1>3. CASE cut.to <= r.from \/ cut.from >= r.to
  <2>1. p = <<r>>
    BY <1>3 DEF Pieces
  <2>2. p \in Seq(MinuteRange) /\ DOMAIN p = {1} /\ p[1] = r /\ ToSet(p) = {r}
    BY <2>1 DEF ToSet
  <2> HIDE DEF p
  <2>3. Apart(p)
    BY <2>2 DEF Apart
  <2>4. Minutes(ToSet(p)) = (r.from .. r.to - 1) \ (cut.from .. cut.to - 1)
    BY <1>1, <1>3, <2>2 DEF Minutes
  <2>5. \A i \in DOMAIN p : r.from <= p[i].from /\ p[i].to <= r.to
    BY <1>1, <2>2
  <2> QED
    BY <2>2, <2>3, <2>4, <2>5 DEF p
<1>4. CASE ~ (cut.to <= r.from \/ cut.from >= r.to)
  <2> HIDE DEF before, after
  <2>1. p = (IF r.from < cut.from THEN <<before>> ELSE <<>>)
              \o (IF cut.to < r.to THEN <<after>> ELSE <<>>)
    BY <1>4 DEF Pieces, before, after
  <2>2. CASE r.from < cut.from /\ cut.to < r.to
    <3> DEFINE a == <<before>>
               b == <<after>>
    <3>1. p = a \o b
      BY <2>1, <2>2
    <3> HIDE DEF p
    <3>6. /\ a \in Seq(MinuteRange) /\ Len(a) = 1 /\ a[1] = before
          /\ b \in Seq(MinuteRange) /\ Len(b) = 1 /\ b[1] = after
      BY <1>2
    <3> HIDE DEF a, b
    <3>7. p \in Seq(MinuteRange) /\ Len(p) = 2 /\ p[1] = before /\ p[2] = after
      <4>1. /\ a \o b \in Seq(MinuteRange) /\ Len(a \o b) = Len(a) + Len(b)
            /\ \A i \in 1 .. Len(a) + Len(b) :
                 (a \o b)[i] = IF i <= Len(a) THEN a[i] ELSE b[i - Len(a)]
        BY <3>6, ConcatProperties
      <4> QED
        BY <3>1, <3>6, <4>1
    <3>2. /\ p \in Seq(MinuteRange) /\ DOMAIN p = {1, 2} /\ p[1] = before /\ p[2] = after
          /\ ToSet(p) = {before, after}
      BY <3>7 DEF ToSet
    <3> HIDE DEF p
    <3>3. Apart(p)
      BY <1>1, <1>2, <2>2, <3>2 DEF Apart
    <3>4. Minutes(ToSet(p)) = (r.from .. r.to - 1) \ (cut.from .. cut.to - 1)
      BY <1>1, <1>2, <2>2, <3>2 DEF Minutes
    <3>5. \A i \in DOMAIN p : r.from <= p[i].from /\ p[i].to <= r.to
      BY <1>1, <1>2, <2>2, <3>2
    <3> QED
      BY <3>2, <3>3, <3>4, <3>5 DEF p
  <2>3. CASE r.from < cut.from /\ ~ (cut.to < r.to)
    <3>1. p = <<before>>
      BY <2>1, <2>3
    <3>2. p \in Seq(MinuteRange) /\ DOMAIN p = {1} /\ p[1] = before /\ ToSet(p) = {before}
      BY <1>2, <3>1 DEF ToSet
    <3> HIDE DEF p
    <3>3. Apart(p)
      BY <1>1, <1>2, <2>3, <3>2 DEF Apart
    <3>4. Minutes(ToSet(p)) = (r.from .. r.to - 1) \ (cut.from .. cut.to - 1)
      BY <1>1, <1>2, <1>4, <2>3, <3>2 DEF Minutes
    <3>5. \A i \in DOMAIN p : r.from <= p[i].from /\ p[i].to <= r.to
      BY <1>1, <1>2, <1>4, <2>3, <3>2
    <3> QED
      BY <3>2, <3>3, <3>4, <3>5 DEF p
  <2>4. CASE ~ (r.from < cut.from) /\ cut.to < r.to
    <3>1. p = <<after>>
      BY <2>1, <2>4
    <3>2. p \in Seq(MinuteRange) /\ DOMAIN p = {1} /\ p[1] = after /\ ToSet(p) = {after}
      BY <1>2, <3>1 DEF ToSet
    <3> HIDE DEF p
    <3>3. Apart(p)
      BY <1>1, <1>2, <2>4, <3>2 DEF Apart
    <3>4. Minutes(ToSet(p)) = (r.from .. r.to - 1) \ (cut.from .. cut.to - 1)
      BY <1>1, <1>2, <1>4, <2>4, <3>2 DEF Minutes
    <3>5. \A i \in DOMAIN p : r.from <= p[i].from /\ p[i].to <= r.to
      BY <1>1, <1>2, <1>4, <2>4, <3>2
    <3> QED
      BY <3>2, <3>3, <3>4, <3>5 DEF p
  <2>5. CASE ~ (r.from < cut.from) /\ ~ (cut.to < r.to)
    <3>1. p = <<>>
      BY <2>1, <2>5
    <3>2. p \in Seq(MinuteRange) /\ DOMAIN p = {} /\ ToSet(p) = {}
      BY <3>1 DEF ToSet
    <3> HIDE DEF p
    <3>4. Minutes(ToSet(p)) = (r.from .. r.to - 1) \ (cut.from .. cut.to - 1)
      BY <1>1, <2>5, <3>2 DEF Minutes
    <3> QED
      BY <3>2, <3>4 DEF p, Apart
  <2> QED
    BY <2>2, <2>3, <2>4, <2>5
<1> QED
  BY <1>3, <1>4

\* Windows apart that are followed by others.
LEMMA JoinedApart ==
  ASSUME NEW a \in Seq(MinuteRange), NEW b \in Seq(MinuteRange), Apart(a), Apart(b),
         \A i \in DOMAIN a, j \in DOMAIN b : a[i].to < b[j].from
  PROVE  /\ a \o b \in Seq(MinuteRange) /\ Apart(a \o b)
         /\ ToSet(a \o b) = ToSet(a) \cup ToSet(b)
<1> DEFINE c == a \o b
           k == Len(a)
           l == Len(b)
<1>1. /\ k \in Nat /\ l \in Nat /\ DOMAIN a = 1 .. k /\ DOMAIN b = 1 .. l
      /\ c \in Seq(MinuteRange) /\ DOMAIN c = 1 .. k + l
      /\ \A i \in 1 .. k : c[i] = a[i]
      /\ \A i \in 1 .. l : c[k + i] = b[i]
  OBVIOUS
<1>2. \A i \in 1 .. k + l : i \in 1 .. k \/ (i - k \in 1 .. l /\ c[i] = b[i - k])
  <2> HIDE DEF c, k, l
  <2> TAKE i \in 1 .. k + l
  <2>1. CASE i > k
    <3>1. i - k \in 1 .. l /\ k + (i - k) = i
      BY <1>1, <2>1
    <3> QED
      BY <1>1, <3>1
  <2> QED
    BY <1>1, <2>1
<1> HIDE DEF c, k, l
<1>3. Apart(c)
  <2>1. \A i \in DOMAIN c : c[i].from < c[i].to
    BY <1>1, <1>2 DEF Apart
  <2>2. ASSUME NEW i \in DOMAIN c, NEW j \in DOMAIN c, i < j
        PROVE  c[i].to < c[j].from
    <3>1. CASE i \in 1 .. k /\ j \in 1 .. k
      BY <1>1, <2>2, <3>1 DEF Apart
    <3>2. CASE i \in 1 .. k /\ j \notin 1 .. k
      <4>1. j - k \in DOMAIN b /\ c[j] = b[j - k]
        BY <1>1, <1>2, <3>2
      <4>2. i \in DOMAIN a /\ c[i] = a[i]
        BY <1>1, <3>2
      <4> QED
        BY <4>1, <4>2
    <3>3. CASE i \notin 1 .. k
      <4>1. i - k \in 1 .. l /\ j - k \in 1 .. l /\ i - k < j - k /\ j \notin 1 .. k
        BY <1>1, <1>2, <2>2, <3>3
      <4>2. c[i] = b[i - k] /\ c[j] = b[j - k]
        BY <1>1, <1>2, <3>3, <4>1
      <4> QED
        BY <1>1, <4>1, <4>2 DEF Apart
    <3> QED
      BY <3>1, <3>2, <3>3
  <2> QED
    BY <2>1, <2>2 DEF Apart
<1>4. ToSet(c) = ToSet(a) \cup ToSet(b)
  <2>1. \A x \in ToSet(c) : x \in ToSet(a) \cup ToSet(b)
    BY <1>1, <1>2 DEF ToSet
  <2>2. \A i \in 1 .. l : k + i \in 1 .. k + l
    BY <1>1
  <2>3. \A i \in 1 .. k : i \in 1 .. k + l
    BY <1>1
  <2>4. \A x \in ToSet(a) \cup ToSet(b) : x \in ToSet(c)
    BY <1>1, <2>2, <2>3 DEF ToSet
  <2> QED
    BY <2>1, <2>4
<1> QED
  BY <1>1, <1>3, <1>4 DEF c

LEMMA CutOutChain ==
  ASSUME NEW rem \in Seq(MinuteRange), \A i \in DOMAIN rem : rem[i].from < rem[i].to,
         NEW cut \in MinuteRange, cut.from < cut.to
  PROVE  \E c : /\ c[0] = <<>> /\ CutOut(rem, cut) = c[Len(rem)]
                /\ \A k \in 1 .. Len(rem) : c[k] = c[k - 1] \o Pieces(rem[k], cut)
<1> DEFINE n == Len(rem)
           V == Seq(MinuteRange)
           Unfolding(f) ==
             f = [T \in SUBSET DOMAIN rem |->
                    IF T = {} THEN <<>> ELSE f[T \ {Max(T)}] \o Pieces(rem[Max(T)], cut)]
           f == CHOOSE f : Unfolding(f)
           step == [p \in (1 .. n) \X V |-> p[2] \o Pieces(rem[p[1]], cut)]
           pick == [T \in SUBSET (1 .. n) |-> Max(T)]
           none == <<>>
<1>1. n \in Nat /\ DOMAIN rem = 1 .. n
  OBVIOUS
<1>2. CutOut(rem, cut) = f[DOMAIN rem]
  BY DEF CutOut, FoldLeft, MapThenFoldSet
<1>3. \A k \in 1 .. n : Pieces(rem[k], cut) \in V
  BY <1>1, PiecesAreWhatIsLeft
<1>4. \A k \in 1 .. n, v \in V :
        step[<<k, v>>] = v \o Pieces(rem[k], cut) /\ v \o Pieces(rem[k], cut) \in V
  <2> TAKE k \in 1 .. n, v \in V
  <2>1. step[<<k, v>>] = v \o Pieces(rem[k], cut)
    OBVIOUS
  <2>2. v \o Pieces(rem[k], cut) \in V
    BY <1>3, ConcatProperties
  <2> QED
    BY <2>1, <2>2
<1>5. StaysIn(V, step, 1 .. n)
  BY <1>4 DEF StaysIn
<1>6. none \in V
  OBVIOUS
<1> HIDE DEF n, V, step, none
<1>7. PICK g \in [SUBSET (1 .. n) -> V] : UnfoldsTo(g, none, pick, step, 1 .. n)
  BY <1>1, <1>5, <1>6, UnfoldsLeft
<1>8. Unfolding(f)
  <2>1. \A T \in SUBSET (1 .. n) :
          g[T] = IF T = {} THEN <<>> ELSE g[T \ {Max(T)}] \o Pieces(rem[Max(T)], cut)
    <3> TAKE T \in SUBSET (1 .. n)
    <3>1. pick[T] = Max(T)
      OBVIOUS
    <3> HIDE DEF pick
    <3>2. CASE T # {}
      <4>1. Max(T) \in 1 .. n
        BY <1>1, <3>2, GreatestIndex
      <4>2. g[T \ {Max(T)}] \in V
        OBVIOUS
      <4>3. g[T] = step[<<Max(T), g[T \ {Max(T)}]>>]
        BY <1>7, <3>1, <3>2 DEF UnfoldsTo
      <4> QED
        BY <1>4, <3>2, <4>1, <4>2, <4>3
    <3>3. CASE T = {}
      BY <1>7, <3>3 DEF UnfoldsTo, none
    <3> QED
      BY <3>2, <3>3
  <2>2. Unfolding(g)
    BY <1>1, <2>1
  <2> QED
    BY <2>2
<1> HIDE DEF f
<1>9. \A T \in SUBSET (1 .. n) :
        f[T] = IF T = {} THEN <<>> ELSE f[T \ {Max(T)}] \o Pieces(rem[Max(T)], cut)
  BY <1>1, <1>8
<1> DEFINE c == [k \in 0 .. n |-> f[1 .. k]]
<1>10. c[0] = <<>>
  <2>1. 1 .. 0 = {} /\ 0 \in 0 .. n
    BY <1>1
  <2> QED
    BY <1>9, <2>1
<1>11. CutOut(rem, cut) = c[n]
  BY <1>1, <1>2
<1>12. \A k \in 1 .. n : c[k] = c[k - 1] \o Pieces(rem[k], cut)
  <2> TAKE k \in 1 .. n
  <2>1. 1 .. k \in SUBSET (1 .. n) /\ k \in 0 .. n /\ k - 1 \in 0 .. n /\ k \in Nat /\ k > 0
    BY <1>1
  <2>2. 1 .. k # {} /\ Max(1 .. k) = k /\ (1 .. k) \ {k} = 1 .. (k - 1)
    BY <2>1, LastTaken
  <2>3. f[1 .. k] = f[(1 .. k) \ {Max(1 .. k)}] \o Pieces(rem[Max(1 .. k)], cut)
    BY <1>9, <2>1, <2>2
  <2>4. c[k] = f[1 .. k] /\ c[k - 1] = f[1 .. (k - 1)]
    BY <2>1
  <2> QED
    BY <2>2, <2>3, <2>4
<1> HIDE DEF c
<1> QED
  BY <1>10, <1>11, <1>12 DEF n

\* What is left of the first k windows once the range is cut out of them.
LeftOf(rem, cut, k, m) ==
  /\ m \in Seq(MinuteRange) /\ Apart(m)
  /\ \A t : t \in Minutes(ToSet(m))
              <=> /\ \E j \in 1 .. k : t \in rem[j].from .. rem[j].to - 1
                  /\ t \notin cut.from .. cut.to - 1
  /\ \A i \in DOMAIN m : \E j \in 1 .. k : rem[j].from <= m[i].from /\ m[i].to <= rem[j].to

LEMMA LeftOfNext ==
  ASSUME NEW rem \in Seq(MinuteRange), Apart(rem), NEW cut \in MinuteRange, cut.from < cut.to,
         NEW k \in 1 .. Len(rem), NEW m, LeftOf(rem, cut, k - 1, m)
  PROVE  LeftOf(rem, cut, k, m \o Pieces(rem[k], cut))
<1> DEFINE p == Pieces(rem[k], cut)
           r == rem[k]
           c == m \o p
<1>1. /\ k \in Nat /\ k - 1 \in Nat /\ k \in DOMAIN rem /\ r \in MinuteRange /\ r.from < r.to
      /\ r.from \in Nat /\ r.to \in Nat
  <2>1. k \in Nat /\ k - 1 \in Nat /\ k \in DOMAIN rem
    OBVIOUS
  <2>2. r \in MinuteRange /\ r.from < r.to
    BY <2>1 DEF Apart
  <2> QED
    BY <2>1, <2>2 DEF MinuteRange
<1>2. /\ p \in Seq(MinuteRange) /\ Apart(p)
      /\ Minutes(ToSet(p)) = (r.from .. r.to - 1) \ (cut.from .. cut.to - 1)
      /\ \A i \in DOMAIN p : r.from <= p[i].from /\ p[i].to <= r.to
  BY <1>1, PiecesAreWhatIsLeft
<1>3. /\ m \in Seq(MinuteRange) /\ Apart(m)
      /\ \A i \in DOMAIN m :
           \E j \in 1 .. k - 1 : rem[j].from <= m[i].from /\ m[i].to <= rem[j].to
  BY DEF LeftOf
<1>4. \A j \in 1 .. k - 1 : j \in DOMAIN rem /\ j < k /\ rem[j].to \in Nat /\ rem[j].to < r.from
  <2> TAKE j \in 1 .. k - 1
  <2>1. j \in DOMAIN rem /\ j < k
    BY <1>1
  <2>2. rem[j] \in MinuteRange
    BY <2>1
  <2> QED
    BY <1>1, <2>1, <2>2 DEF Apart, MinuteRange
<1> HIDE DEF p, r
<1>5. \A i \in DOMAIN m, j \in DOMAIN p : m[i].to < p[j].from
  <2> TAKE i \in DOMAIN m, j \in DOMAIN p
  <2>4. m[i] \in MinuteRange /\ p[j] \in MinuteRange
    BY <1>2, <1>3
  <2>1. m[i].to \in Nat /\ p[j].from \in Nat
    BY <2>4 DEF MinuteRange
  <2>2. PICK h \in 1 .. k - 1 : m[i].to <= rem[h].to
    BY <1>3
  <2>3. r.from <= p[j].from
    BY <1>2
  <2> QED
    BY <1>1, <1>4, <2>1, <2>2, <2>3
<1>6. c \in Seq(MinuteRange) /\ Apart(c) /\ ToSet(c) = ToSet(m) \cup ToSet(p)
  BY <1>2, <1>3, <1>5, JoinedApart
<1>7. ASSUME NEW t
      PROVE  t \in Minutes(ToSet(c))
               <=> /\ \E j \in 1 .. k : t \in rem[j].from .. rem[j].to - 1
                   /\ t \notin cut.from .. cut.to - 1
  <2>1. t \in Minutes(ToSet(c)) <=> t \in Minutes(ToSet(m)) \/ t \in Minutes(ToSet(p))
    BY <1>6 DEF Minutes
  <2>2. \A j : j \in 1 .. k <=> j = k \/ j \in 1 .. k - 1
    BY <1>1
  <2>3. t \in Minutes(ToSet(p)) <=> t \in r.from .. r.to - 1 /\ t \notin cut.from .. cut.to - 1
    BY <1>2
  <2>4. t \in Minutes(ToSet(m))
          <=> /\ \E j \in 1 .. k - 1 : t \in rem[j].from .. rem[j].to - 1
              /\ t \notin cut.from .. cut.to - 1
    BY DEF LeftOf
  <2>5. (\E j \in 1 .. k : t \in rem[j].from .. rem[j].to - 1)
          <=> \/ t \in r.from .. r.to - 1
              \/ \E j \in 1 .. k - 1 : t \in rem[j].from .. rem[j].to - 1
    BY <2>2, Zenon DEF r
  <2> QED
    BY <2>1, <2>3, <2>4, <2>5, Zenon
<1>8. \A i \in DOMAIN c : \E j \in 1 .. k : rem[j].from <= c[i].from /\ c[i].to <= rem[j].to
  <2> TAKE i \in DOMAIN c
  <2>1. c[i] \in ToSet(m) \cup ToSet(p)
    BY <1>6 DEF ToSet
  <2>2. CASE c[i] \in ToSet(m)
    <3>1. PICK h \in DOMAIN m : c[i] = m[h]
      BY <2>2 DEF ToSet
    <3>2. PICK j \in 1 .. k - 1 : rem[j].from <= m[h].from /\ m[h].to <= rem[j].to
      BY <1>3
    <3>3. j \in 1 .. k
      BY <1>1
    <3> QED
      BY <3>1, <3>2, <3>3
  <2>3. CASE c[i] \in ToSet(p)
    <3>1. PICK h \in DOMAIN p : c[i] = p[h]
      BY <2>3 DEF ToSet
    <3>2. k \in 1 .. k
      BY <1>1
    <3> QED
      BY <1>2, <3>1, <3>2 DEF r
  <2> QED
    BY <2>1, <2>2, <2>3
<1> HIDE DEF c
<1>9. LeftOf(rem, cut, k, c)
  BY <1>6, <1>7, <1>8 DEF LeftOf
<1> QED
  BY <1>9 DEF c, p

\* A range that is cut out takes its minutes with it, and no others.
LEMMA CutOutIsExact ==
  ASSUME NEW rem \in Seq(MinuteRange), Apart(rem), NEW cut \in MinuteRange, cut.from < cut.to
  PROVE  LeftOf(rem, cut, Len(rem), CutOut(rem, cut))
<1>1. \A i \in DOMAIN rem : rem[i].from < rem[i].to
  BY DEF Apart
<1>2. PICK c : /\ c[0] = <<>> /\ CutOut(rem, cut) = c[Len(rem)]
               /\ \A k \in 1 .. Len(rem) : c[k] = c[k - 1] \o Pieces(rem[k], cut)
  BY <1>1, CutOutChain
<1> DEFINE Good == {k \in 0 .. Len(rem) : LeftOf(rem, cut, k, c[k])}
<1>3. 0 \in Good
  <2>1. c[0] \in Seq(MinuteRange) /\ DOMAIN c[0] = {}
    BY <1>2
  <2>2. ToSet(c[0]) = {}
    BY <2>1 DEF ToSet
  <2>3. 1 .. 0 = {} /\ 0 \in 0 .. Len(rem)
    OBVIOUS
  <2>4. LeftOf(rem, cut, 0, c[0])
    BY <2>1, <2>2, <2>3 DEF LeftOf, Apart, Minutes
  <2> QED
    BY <2>3, <2>4
<1>4. ASSUME NEW k \in 1 .. Len(rem), k - 1 \in Good
      PROVE  k \in Good
  <2>1. LeftOf(rem, cut, k, c[k])
    BY <1>2, <1>4, LeftOfNext
  <2> QED
    BY <2>1
<1> HIDE DEF Good
<1>5. \A k \in 0 .. Len(rem) : k \in Good
  <2>1. Len(rem) \in Nat /\ \A k \in 1 .. Len(rem) : k - 1 \in Good => k \in Good
    BY <1>4
  <2> QED
    BY <1>3, <2>1, Counting
<1> QED
  BY <1>2, <1>5 DEF Good

LEMMA SubtractChain ==
  ASSUME NEW ranges, ranges \subseteq MinuteRange, IsFiniteSet(ranges),
         NEW cuts, cuts \subseteq MinuteRange, IsFiniteSet(cuts)
  PROVE  LET blocks == MergeMinuteRanges(cuts)
         IN \E c : /\ c[0] = MergeMinuteRanges(ranges)
                   /\ SubtractMinuteRanges(ranges, cuts) = c[Len(blocks)]
                   /\ \A k \in 1 .. Len(blocks) : c[k] = CutOut(c[k - 1], blocks[k])
<1> DEFINE blocks == MergeMinuteRanges(cuts)
           open == MergeMinuteRanges(ranges)
           n == Len(blocks)
           V == {m \in Seq(MinuteRange) : Apart(m)}
           Unfolding(f) ==
             f = [T \in SUBSET DOMAIN blocks |->
                    IF T = {} THEN open ELSE CutOut(f[T \ {Max(T)}], blocks[Max(T)])]
           f == CHOOSE f : Unfolding(f)
           step == [p \in (1 .. n) \X V |-> CutOut(p[2], blocks[p[1]])]
           pick == [T \in SUBSET (1 .. n) |-> Max(T)]
<1>1. /\ blocks \in Seq(MinuteRange) /\ Apart(blocks) /\ open \in V
  BY MergeIsExact DEF Merged
<1>2. SubtractMinuteRanges(ranges, cuts) = f[DOMAIN blocks]
  BY DEF SubtractMinuteRanges, FoldLeft, MapThenFoldSet
<1> HIDE DEF blocks, open
<1>3. n \in Nat /\ DOMAIN blocks = 1 .. n
  BY <1>1
<1>4. \A k \in 1 .. n, v \in V :
        step[<<k, v>>] = CutOut(v, blocks[k]) /\ CutOut(v, blocks[k]) \in V
  <2> TAKE k \in 1 .. n, v \in V
  <2>1. step[<<k, v>>] = CutOut(v, blocks[k])
    OBVIOUS
  <2>2. blocks[k] \in MinuteRange /\ blocks[k].from < blocks[k].to
    BY <1>1, <1>3 DEF Apart
  <2>3. LeftOf(v, blocks[k], Len(v), CutOut(v, blocks[k]))
    BY <2>2, CutOutIsExact
  <2> QED
    BY <2>1, <2>3 DEF LeftOf
<1>5. StaysIn(V, step, 1 .. n)
  BY <1>4 DEF StaysIn
<1> HIDE DEF n, V, step
<1>7. PICK g \in [SUBSET (1 .. n) -> V] : UnfoldsTo(g, open, pick, step, 1 .. n)
  BY <1>1, <1>3, <1>5, UnfoldsLeft
<1>8. Unfolding(f)
  <2>1. \A T \in SUBSET (1 .. n) :
          g[T] = IF T = {} THEN open ELSE CutOut(g[T \ {Max(T)}], blocks[Max(T)])
    <3> TAKE T \in SUBSET (1 .. n)
    <3>1. pick[T] = Max(T)
      OBVIOUS
    <3> HIDE DEF pick
    <3>2. CASE T # {}
      <4>1. Max(T) \in 1 .. n
        BY <1>3, <3>2, GreatestIndex
      <4>2. g[T \ {Max(T)}] \in V
        OBVIOUS
      <4>3. g[T] = step[<<Max(T), g[T \ {Max(T)}]>>]
        BY <1>7, <3>1, <3>2 DEF UnfoldsTo
      <4> QED
        BY <1>4, <3>2, <4>1, <4>2, <4>3
    <3>3. CASE T = {}
      BY <1>7, <3>3 DEF UnfoldsTo
    <3> QED
      BY <3>2, <3>3
  <2>2. Unfolding(g)
    BY <1>3, <2>1
  <2> QED
    BY <2>2
<1> HIDE DEF f
<1>9. \A T \in SUBSET (1 .. n) :
        f[T] = IF T = {} THEN open ELSE CutOut(f[T \ {Max(T)}], blocks[Max(T)])
  BY <1>3, <1>8
<1> DEFINE c == [k \in 0 .. n |-> f[1 .. k]]
<1>10. c[0] = open
  <2>1. 1 .. 0 = {} /\ 0 \in 0 .. n
    BY <1>3
  <2> QED
    BY <1>9, <2>1
<1>11. SubtractMinuteRanges(ranges, cuts) = c[n]
  BY <1>2, <1>3
<1>12. \A k \in 1 .. n : c[k] = CutOut(c[k - 1], blocks[k])
  <2> TAKE k \in 1 .. n
  <2>1. 1 .. k \in SUBSET (1 .. n) /\ k \in 0 .. n /\ k - 1 \in 0 .. n /\ k \in Nat /\ k > 0
    BY <1>3
  <2>2. 1 .. k # {} /\ Max(1 .. k) = k /\ (1 .. k) \ {k} = 1 .. (k - 1)
    BY <2>1, LastTaken
  <2>3. f[1 .. k] = CutOut(f[(1 .. k) \ {Max(1 .. k)}], blocks[Max(1 .. k)])
    BY <1>9, <2>1, <2>2
  <2>4. c[k] = f[1 .. k] /\ c[k - 1] = f[1 .. (k - 1)]
    BY <2>1
  <2> QED
    BY <2>2, <2>3, <2>4
<1> HIDE DEF c
<1> QED
  BY <1>10, <1>11, <1>12 DEF n, open, blocks

\* The windows m hold the minutes of the ranges that are in none of the cuts, and
\* begin and end within the ranges.
Subtracted(ranges, cuts, m) ==
  /\ m \in Seq(MinuteRange) /\ Apart(m)
  /\ Minutes(ToSet(m)) = Minutes(ranges) \ Minutes(cuts)
  /\ \A i \in DOMAIN m : /\ \E q \in ranges : q.from <= m[i].from
                         /\ \E q \in ranges : m[i].to <= q.to

LEMMA SubtractIsExact ==
  ASSUME NEW ranges, ranges \subseteq MinuteRange, IsFiniteSet(ranges),
         NEW cuts, cuts \subseteq MinuteRange, IsFiniteSet(cuts)
  PROVE  Subtracted(ranges, cuts, SubtractMinuteRanges(ranges, cuts))
<1> DEFINE blocks == MergeMinuteRanges(cuts)
           n == Len(blocks)
           Cut(k) == {blocks[j] : j \in 1 .. k}
<1>1. PICK c : /\ c[0] = MergeMinuteRanges(ranges)
               /\ SubtractMinuteRanges(ranges, cuts) = c[n]
               /\ \A k \in 1 .. n : c[k] = CutOut(c[k - 1], blocks[k])
  BY SubtractChain
<1>2. Merged(ranges, c[0]) /\ Merged(cuts, blocks)
  BY <1>1, MergeIsExact
<1> HIDE DEF blocks
<1>3. /\ blocks \in Seq(MinuteRange) /\ Apart(blocks) /\ n \in Nat /\ DOMAIN blocks = 1 .. n
      /\ Minutes(ToSet(blocks)) = Minutes(cuts)
  BY <1>2 DEF Merged
<1> HIDE DEF n
<1> DEFINE Good == {k \in 0 .. n : Subtracted(ranges, Cut(k), c[k])}
<1>4. 0 \in Good
  <2>1. 0 \in 0 .. n /\ 1 .. 0 = {}
    BY <1>3
  <2>2. Cut(0) = {} /\ Minutes(Cut(0)) = {}
    BY <2>1 DEF Minutes
  <2>3. \A q \in ranges : q.from <= q.from /\ q.to <= q.to
    BY DEF MinuteRange
  <2>4. Subtracted(ranges, Cut(0), c[0])
    BY <1>2, <2>2, <2>3 DEF Merged, Subtracted
  <2> QED
    BY <2>1, <2>4
<1>5. ASSUME NEW k \in 1 .. n, k - 1 \in Good
      PROVE  k \in Good
  <2> DEFINE m == c[k - 1]
             cut == blocks[k]
  <2>1. Subtracted(ranges, Cut(k - 1), m) /\ c[k] = CutOut(m, cut) /\ k \in 0 .. n
    BY <1>1, <1>3, <1>5
  <2>2. cut \in MinuteRange /\ cut.from < cut.to
    BY <1>3 DEF Apart
  <2>3. LeftOf(m, cut, Len(m), c[k])
    BY <2>1, <2>2, CutOutIsExact DEF Subtracted
  <2>4. ASSUME NEW t
        PROVE  t \in Minutes(ToSet(c[k])) <=> t \in Minutes(ranges) \ Minutes(Cut(k))
    <3>1. t \in Minutes(ToSet(m)) <=> \E j \in 1 .. Len(m) : t \in m[j].from .. m[j].to - 1
      <4>1. DOMAIN m = 1 .. Len(m)
        BY <2>1 DEF Subtracted
      <4> QED
        BY <4>1 DEF ToSet, Minutes
    <3>2. t \in Minutes(ToSet(c[k])) <=> t \in Minutes(ToSet(m)) /\ t \notin cut.from .. cut.to - 1
      BY <2>3, <3>1 DEF LeftOf
    <3>3. Cut(k) = Cut(k - 1) \cup {cut}
      <4>1. \A j : j \in 1 .. k <=> j = k \/ j \in 1 .. k - 1
        BY <1>3
      <4> QED
        BY <4>1
    <3>4. t \in Minutes(Cut(k)) <=> t \in Minutes(Cut(k - 1)) \/ t \in cut.from .. cut.to - 1
      <4> HIDE DEF Cut, cut
      <4> QED
        BY <3>3 DEF Minutes
    <3>5. t \in Minutes(ToSet(m)) <=> t \in Minutes(ranges) /\ t \notin Minutes(Cut(k - 1))
      BY <2>1 DEF Subtracted
    <3> QED
      BY <3>2, <3>4, <3>5
  <2>5. \A i \in DOMAIN c[k] : /\ \E q \in ranges : q.from <= c[k][i].from
                               /\ \E q \in ranges : c[k][i].to <= q.to
    <3> TAKE i \in DOMAIN c[k]
    <3>1. PICK j \in 1 .. Len(m) : m[j].from <= c[k][i].from /\ c[k][i].to <= m[j].to
      BY <2>3 DEF LeftOf
    <3>2. j \in DOMAIN m /\ m[j] \in MinuteRange
      BY <2>1 DEF Subtracted
    <3>3. c[k][i] \in MinuteRange
      BY <2>3 DEF LeftOf
    <3>4. /\ \E q \in ranges : q.from <= m[j].from
          /\ \E q \in ranges : m[j].to <= q.to
      BY <2>1, <3>2 DEF Subtracted
    <3>5. \A q \in ranges : q.from \in Nat /\ q.to \in Nat
      BY DEF MinuteRange
    <3>6. /\ m[j].from \in Nat /\ m[j].to \in Nat
          /\ c[k][i].from \in Nat /\ c[k][i].to \in Nat
      BY <3>2, <3>3 DEF MinuteRange
    <3>7. \A a, b, d \in Nat : a <= b /\ b <= d => a <= d
      OBVIOUS
    <3> HIDE DEF m
    <3> QED
      BY <3>1, <3>4, <3>5, <3>6, <3>7
  <2>6. Subtracted(ranges, Cut(k), c[k])
    BY <2>3, <2>4, <2>5 DEF Subtracted, LeftOf
  <2> QED
    BY <2>1, <2>6
<1> HIDE DEF Good
<1>6. n \in Good
  <2>1. \A k \in 1 .. n : k - 1 \in Good => k \in Good
    BY <1>5
  <2>2. \A k \in 0 .. n : k \in Good
    BY <1>3, <1>4, <2>1, Counting
  <2> QED
    BY <1>3, <2>2
<1>7. Cut(n) = ToSet(blocks)
  BY <1>3 DEF ToSet
<1> QED
  BY <1>1, <1>3, <1>6, <1>7 DEF Good, Subtracted

---------------------------------------------------------------------------
(* resolveDayMinuteRanges                                                  *)

DayRange == [from : 0 .. MinutesPerDay, to : 0 .. MinutesPerDay]

LEMMA DayRanges == DayRange \subseteq MinuteRange /\ IsFiniteSet(DayRange)
<1> DEFINE Times == 0 .. MinutesPerDay
           f == [p \in Times \X Times |-> [from |-> p[1], to |-> p[2]]]
<1>1. IsFiniteSet(Times \X Times)
  <2>1. IsFiniteSet(Times)
    BY DayAssumption, FS_Interval
  <2> HIDE DEF Times
  <2> QED
    BY <2>1, FS_Product
<1>2. f \in Surjection(Times \X Times, DayRange)
  <2> HIDE DEF Times
  <2>1. DayRange = [from : Times, to : Times]
    BY DEF DayRange, Times
  <2>2. \A p \in Times \X Times : f[p] \in DayRange
    BY <2>1
  <2>3. \A r \in DayRange : <<r.from, r.to>> \in Times \X Times /\ f[<<r.from, r.to>>] = r
    BY <2>1
  <2> QED
    BY <2>2, <2>3 DEF Surjection
<1>3. IsFiniteSet(DayRange)
  <2> HIDE DEF f, Times
  <2> QED
    BY <1>1, <1>2, FS_Surjection
<1>4. DayRange \subseteq MinuteRange
  <2>1. 0 .. MinutesPerDay \subseteq Nat
    BY DayAssumption
  <2> QED
    BY <2>1 DEF DayRange, MinuteRange
<1> QED
  BY <1>3, <1>4

\* The windows of a day are what is open of it, within the day.
LEMMA ResolveIsExact ==
  ASSUME NEW base, base \subseteq DayRange,
         NEW E, \A e \in E : e.range \in DayRange,
         NEW category
  PROVE  LET windows == ResolveDayMinuteRanges(base, E, category)
             open == base \cup RangesOf(E, "OPEN", category)
         IN /\ Subtracted(open, RangesOf(E, "BLOCK", category), windows)
            /\ \A i \in DOMAIN windows : windows[i] \in DayRange
<1> DEFINE windows == ResolveDayMinuteRanges(base, E, category)
           open == base \cup RangesOf(E, "OPEN", category)
           blocked == RangesOf(E, "BLOCK", category)
<1>1. open \subseteq DayRange /\ blocked \subseteq DayRange
  BY DEF RangesOf
<1>2. Subtracted(open, blocked, windows)
  <2> HIDE DEF open, blocked, windows
  <2>1. open \subseteq MinuteRange /\ blocked \subseteq MinuteRange
    BY <1>1, DayRanges
  <2>2. IsFiniteSet(open) /\ IsFiniteSet(blocked)
    BY <1>1, DayRanges, FS_Subset
  <2>3. windows = SubtractMinuteRanges(open, blocked)
    BY DEF ResolveDayMinuteRanges, windows, open, blocked
  <2> QED
    BY <2>1, <2>2, <2>3, SubtractIsExact
<1> HIDE DEF windows, open, blocked
<1>3. ASSUME NEW i \in DOMAIN windows
      PROVE  windows[i] \in DayRange
  <2>1. windows[i] \in MinuteRange /\ windows[i].from < windows[i].to
    BY <1>2 DEF Subtracted, Apart
  <2>2. PICK q \in open : windows[i].to <= q.to
    BY <1>2 DEF Subtracted
  <2>3. q.to \in 0 .. MinutesPerDay
    BY <1>1, <2>2 DEF DayRange
  <2>4. windows[i].from \in 0 .. MinutesPerDay /\ windows[i].to \in 0 .. MinutesPerDay
    BY <2>1, <2>2, <2>3, DayAssumption DEF MinuteRange
  <2> QED
    BY <2>1, <2>4 DEF MinuteRange, DayRange
<1> QED
  BY <1>2, <1>3 DEF windows, open, blocked

---------------------------------------------------------------------------
(* computeDepositExpiry                                                    *)

TimeWindow == [start : Nat, end : Nat]

InTime(w) ==
  /\ \A i \in DOMAIN w : w[i].start < w[i].end
  /\ \A i, j \in DOMAIN w : i < j => w[i].end <= w[j].start

\* The instants of the first k windows.
OpenIn(w, k) == UNION {w[i].start .. w[i].end - 1 : i \in 1 .. k}

Counted(O, from, t) == {m \in O : from <= m /\ m < t}

Clock == [expired : BOOLEAN, at : Int, remaining : Int]

LEMMA SpendIsClock ==
  ASSUME NEW clock \in Clock, NEW window \in TimeWindow, NEW from \in Nat, NEW limit \in Nat
  PROVE  Spend(clock, window, from, limit) \in Clock
<1> DEFINE begin == Later(window.start, from)
           until == IF window.end <= limit THEN window.end ELSE limit
<1>1. window.start \in Nat /\ window.end \in Nat
  BY DEF TimeWindow
<1>2. begin \in Nat /\ until \in Nat
  BY <1>1 DEF Later
<1>3. /\ clock.remaining \in Int
      /\ [clock EXCEPT !.expired = TRUE, !.at = begin + clock.remaining] \in Clock
      /\ [clock EXCEPT !.remaining = @ - (until - begin)] \in Clock
  <2> HIDE DEF begin, until
  <2>1. clock.remaining \in Int
    BY DEF Clock
  <2> DEFINE at == begin + clock.remaining
             rest == clock.remaining - (until - begin)
  <2>2. at \in Int /\ rest \in Int
    BY <1>2, <2>1
  <2> HIDE DEF at, rest
  <2>3. [clock EXCEPT !.remaining = rest] \in Clock
    BY <2>2 DEF Clock
  <2>4. [clock EXCEPT !.expired = TRUE, !.at = at] \in Clock
    <3>1. [clock EXCEPT !.expired = TRUE] \in Clock
      BY DEF Clock
    <3>2. [[clock EXCEPT !.expired = TRUE] EXCEPT !.at = at] \in Clock
      BY <2>2, <3>1 DEF Clock
    <3> QED
      BY <3>2
  <2> QED
    BY <2>1, <2>3, <2>4 DEF at, rest
<1> QED
  BY <1>3 DEF Spend

LEMMA ClockChain ==
  ASSUME NEW w \in Seq(TimeWindow), NEW from \in Nat, NEW limit \in Nat, from < limit,
         NEW operating \in Int
  PROVE  \E c : /\ c[0] = [expired |-> FALSE, at |-> limit, remaining |-> operating]
                /\ ComputeDepositExpiry(from, operating, limit, w) = c[Len(w)].at
                /\ \A k \in 1 .. Len(w) :
                     c[k - 1] \in Clock /\ c[k] = Spend(c[k - 1], w[k], from, limit)
<1> DEFINE n == Len(w)
           V == Clock
           full == [expired |-> FALSE, at |-> limit, remaining |-> operating]
           Unfolding(f) ==
             f = [T \in SUBSET DOMAIN w |->
                    IF T = {} THEN full
                    ELSE Spend(f[T \ {Max(T)}], w[Max(T)], from, limit)]
           f == CHOOSE f : Unfolding(f)
           step == [p \in (1 .. n) \X V |-> Spend(p[2], w[p[1]], from, limit)]
           pick == [T \in SUBSET (1 .. n) |-> Max(T)]
<1>1. n \in Nat /\ DOMAIN w = 1 .. n
  OBVIOUS
<1>2. ComputeDepositExpiry(from, operating, limit, w) = f[DOMAIN w].at
  <2>1. ~ (from >= limit)
    OBVIOUS
  <2> QED
    BY <2>1 DEF ComputeDepositExpiry, FoldLeft, MapThenFoldSet
<1>3. \A k \in 1 .. n, v \in V :
        /\ step[<<k, v>>] = Spend(v, w[k], from, limit)
        /\ Spend(v, w[k], from, limit) \in V
  <2> TAKE k \in 1 .. n, v \in V
  <2>1. w[k] \in TimeWindow
    BY <1>1
  <2>2. Spend(v, w[k], from, limit) \in V
    BY <2>1, SpendIsClock
  <2>3. step[<<k, v>>] = Spend(v, w[k], from, limit)
    OBVIOUS
  <2> QED
    BY <2>2, <2>3
<1>4. full \in V
  BY DEF Clock
<1>5. StaysIn(V, step, 1 .. n)
  BY <1>3 DEF StaysIn
<1> HIDE DEF n, V, step, full
<1>7. PICK g \in [SUBSET (1 .. n) -> V] : UnfoldsTo(g, full, pick, step, 1 .. n)
  BY <1>1, <1>4, <1>5, UnfoldsLeft
<1>8. Unfolding(g)
  <2>1. \A T \in SUBSET (1 .. n) :
          g[T] = IF T = {} THEN full
                 ELSE Spend(g[T \ {Max(T)}], w[Max(T)], from, limit)
    <3> TAKE T \in SUBSET (1 .. n)
    <3>1. pick[T] = Max(T)
      OBVIOUS
    <3> HIDE DEF pick
    <3>2. CASE T # {}
      <4>1. Max(T) \in 1 .. n
        BY <1>1, <3>2, GreatestIndex
      <4>2. g[T \ {Max(T)}] \in V
        OBVIOUS
      <4>3. g[T] = step[<<Max(T), g[T \ {Max(T)}]>>]
        BY <1>7, <3>1, <3>2 DEF UnfoldsTo
      <4> QED
        BY <1>3, <3>2, <4>1, <4>2, <4>3
    <3>3. CASE T = {}
      BY <1>7, <3>3 DEF UnfoldsTo
    <3> QED
      BY <3>2, <3>3
  <2> QED
    BY <1>1, <2>1
<1>13. Unfolding(f)
  BY <1>8
<1> HIDE DEF f
<1>9. \A T \in SUBSET (1 .. n) :
        f[T] = IF T = {} THEN full ELSE Spend(f[T \ {Max(T)}], w[Max(T)], from, limit)
  BY <1>1, <1>13
<1> DEFINE c == [k \in 0 .. n |-> f[1 .. k]]
<1>10. c[0] = full
  <2>1. 1 .. 0 = {} /\ 0 \in 0 .. n
    BY <1>1
  <2> QED
    BY <1>9, <2>1
<1>11. ComputeDepositExpiry(from, operating, limit, w) = c[n].at
  BY <1>1, <1>2
<1>12. \A k \in 1 .. n : c[k] = Spend(c[k - 1], w[k], from, limit)
  <2> TAKE k \in 1 .. n
  <2>1. 1 .. k \in SUBSET (1 .. n) /\ k \in 0 .. n /\ k - 1 \in 0 .. n /\ k \in Nat /\ k > 0
    BY <1>1
  <2>2. 1 .. k # {} /\ Max(1 .. k) = k /\ (1 .. k) \ {k} = 1 .. (k - 1)
    BY <2>1, LastTaken
  <2>3. f[1 .. k] = Spend(f[(1 .. k) \ {Max(1 .. k)}], w[Max(1 .. k)], from, limit)
    BY <1>9, <2>1, <2>2
  <2>4. c[k] = f[1 .. k] /\ c[k - 1] = f[1 .. (k - 1)]
    BY <2>1
  <2> QED
    BY <2>2, <2>3, <2>4
<1> HIDE DEF c
<1> DEFINE Good == {k \in 0 .. n : c[k] \in Clock}
<1>14. \A k \in 0 .. n : k \in Good
  <2>1. 0 \in Good
    BY <1>1, <1>4, <1>10 DEF V
  <2>2. \A k \in 1 .. n : k - 1 \in Good => k \in Good
    <3> TAKE k \in 1 .. n
    <3> HAVE k - 1 \in Good
    <3>1. c[k - 1] \in V /\ k \in 0 .. n
      BY <1>1 DEF V
    <3>2. c[k] \in V
      BY <1>3, <1>12, <3>1
    <3> QED
      BY <3>1, <3>2 DEF V
  <2> HIDE DEF Good
  <2> QED
    BY <1>1, <2>1, <2>2, Counting
<1>15. \A k \in 1 .. n : c[k - 1] \in Clock
  <2> TAKE k \in 1 .. n
  <2>1. k - 1 \in 0 .. n
    BY <1>1
  <2> QED
    BY <1>14, <2>1
<1> QED
  BY <1>10, <1>11, <1>12, <1>15 DEF n, full

LEMMA CountedIsFinite ==
  ASSUME NEW O, O \subseteq Nat, NEW from \in Nat, NEW t \in Int
  PROVE  IsFiniteSet(Counted(O, from, t)) /\ Cardinality(Counted(O, from, t)) \in Nat
<1>1. Counted(O, from, t) \subseteq from .. t - 1
  <2> SUFFICES ASSUME NEW m \in Counted(O, from, t)
               PROVE  m \in from .. t - 1
    OBVIOUS
  <2>1. m \in Nat /\ from <= m /\ m < t
    BY DEF Counted
  <2> QED
    BY <2>1
<1>2. IsFiniteSet(from .. t - 1)
  BY FS_Interval
<1> QED
  BY <1>1, <1>2, FS_Subset, FS_CardinalityType

\* What the clock says once the first k windows are spent: what they left of the time,
\* or the instant at which it was used up.
ClockAt(w, from, operating, limit, k, clock) ==
  /\ clock \in Clock
  /\ ~ clock.expired =>
       /\ clock.at = limit /\ clock.remaining > 0
       /\ clock.remaining = operating - Cardinality(Counted(OpenIn(w, k), from, limit))
  /\ clock.expired =>
       /\ clock.at \in from + 1 .. limit
       /\ clock.at - 1 \in OpenIn(w, k)
       /\ Cardinality(Counted(OpenIn(w, k), from, clock.at)) = operating
       /\ \A j \in DOMAIN w : j > k => clock.at <= w[j].start

LEMMA ClockNext ==
  ASSUME NEW w \in Seq(TimeWindow), InTime(w), NEW from \in Nat, NEW limit \in Nat, from < limit,
         NEW operating \in Nat, NEW k \in 1 .. Len(w),
         NEW clock, ClockAt(w, from, operating, limit, k - 1, clock)
  PROVE  ClockAt(w, from, operating, limit, k, Spend(clock, w[k], from, limit))
<1> DEFINE begin == Later(w[k].start, from)
           until == IF w[k].end <= limit THEN w[k].end ELSE limit
           before == OpenIn(w, k - 1)
           now == w[k].start .. w[k].end - 1
           next == Spend(clock, w[k], from, limit)
<1>1. /\ k \in Nat /\ k \in DOMAIN w /\ DOMAIN w = 1 .. Len(w)
      /\ \A i \in DOMAIN w : w[i].start \in Nat /\ w[i].end \in Nat
  <2>1. k \in Nat /\ k \in DOMAIN w /\ DOMAIN w = 1 .. Len(w)
    OBVIOUS
  <2>2. \A i \in DOMAIN w : w[i] \in TimeWindow
    OBVIOUS
  <2> QED
    BY <2>1, <2>2 DEF TimeWindow
<1>2. /\ begin \in Nat /\ until \in Nat /\ begin >= from /\ begin >= w[k].start
      /\ begin \in {from, w[k].start} /\ until <= limit /\ until <= w[k].end
      /\ until \in {limit, w[k].end}
  BY <1>1 DEF Later
<1>3. clock \in Clock /\ clock.remaining \in Int /\ clock.at \in Int
  BY DEF ClockAt, Clock
<1>4. OpenIn(w, k) = before \cup now
  <2>1. \A i : i \in 1 .. k <=> i = k \/ i \in 1 .. k - 1
    BY <1>1
  <2> QED
    BY <2>1 DEF OpenIn
<1>5. before \subseteq Nat /\ now \subseteq Nat /\ \A m \in before : m < w[k].start
  <2> SUFFICES ASSUME NEW m \in before
               PROVE  m \in Nat /\ m < w[k].start
    BY <1>1
  <2>1. PICK i \in 1 .. k - 1 : m \in w[i].start .. w[i].end - 1
    BY DEF OpenIn
  <2>2. i \in DOMAIN w /\ i < k
    BY <1>1
  <2>3. w[i].end <= w[k].start
    BY <1>1, <2>2 DEF InTime
  <2>4. PICK opens \in Nat, closes \in Nat, later \in Nat :
          opens = w[i].start /\ closes = w[i].end /\ later = w[k].start
    BY <1>1, <2>2
  <2>5. m \in opens .. closes - 1 /\ closes <= later
    BY <2>1, <2>3, <2>4
  <2>6. m \in Nat /\ m < later
    BY <2>5
  <2> QED
    BY <2>4, <2>6
<1>6. \A t \in Int : Counted(OpenIn(w, k), from, t)
                       = Counted(before, from, t) \cup Counted(now, from, t)
  BY <1>4 DEF Counted
<1>7. \A t \in Int : Counted(before, from, t) \cap Counted(now, from, t) = {}
  BY <1>1, <1>5 DEF Counted
<1>8. \A t \in Int : Cardinality(Counted(OpenIn(w, k), from, t))
                       = Cardinality(Counted(before, from, t)) + Cardinality(Counted(now, from, t))
  <2> TAKE t \in Int
  <2> DEFINE A == Counted(before, from, t)
             B == Counted(now, from, t)
  <2>1. IsFiniteSet(A) /\ IsFiniteSet(B) /\ Cardinality(A) \in Nat /\ Cardinality(B) \in Nat
    BY <1>5, CountedIsFinite
  <2>2. A \cap B = {}
    BY <1>7
  <2> HIDE DEF A, B
  <2>3. Cardinality(A \cup B) = Cardinality(A) + Cardinality(B)
    <3>1. Cardinality(A \cup B) = Cardinality(A) + Cardinality(B) - Cardinality(A \cap B)
      BY <2>1, FS_Union
    <3>2. Cardinality(A \cap B) = 0
      BY <2>2, FS_EmptySet
    <3> QED
      BY <2>1, <3>1, <3>2
  <2> QED
    BY <1>6, <2>3 DEF A, B
<1>9. \A t \in Int : w[k].start <= t /\ t <= w[k].end =>
        /\ Counted(now, from, t) = begin .. t - 1
        /\ Cardinality(Counted(now, from, t)) = IF begin < t THEN t - begin ELSE 0
  <2> TAKE t \in Int
  <2> HAVE w[k].start <= t /\ t <= w[k].end
  <2>1. \A m : m \in Counted(now, from, t) <=> m \in begin .. t - 1
    <3> TAKE m
    <3>1. PICK opens \in Nat, closes \in Nat, first \in Nat :
            opens = w[k].start /\ closes = w[k].end /\ first = begin
      BY <1>1, <1>2
    <3> HIDE DEF begin
    <3>2. /\ first >= from /\ first >= opens /\ first \in {from, opens}
          /\ opens <= t /\ t <= closes
      BY <1>2, <3>1
    <3>3. m \in opens .. closes - 1 /\ from <= m /\ m < t <=> m \in first .. t - 1
      BY <3>2
    <3> QED
      BY <3>1, <3>3 DEF Counted
  <2>2. Counted(now, from, t) = begin .. t - 1
    <3> HIDE DEF now, begin
    <3> QED
      BY <2>1
  <2>3. Cardinality(begin .. t - 1) = IF begin > t - 1 THEN 0 ELSE (t - 1) - begin + 1
    <3> HIDE DEF begin
    <3> QED
      BY <1>2, FS_Interval
  <2> HIDE DEF begin, now
  <2> QED
    BY <1>2, <2>2, <2>3
<1> HIDE DEF begin, until, before, now
<1>10. CASE clock.expired
  <2>1. next = clock
    BY <1>10 DEF Spend
  <2>2. clock.at <= w[k].start /\ clock.at \in from + 1 .. limit
    BY <1>1, <1>10 DEF ClockAt
  <2>3. Counted(now, from, clock.at) = {}
    BY <1>1, <1>3, <2>2 DEF Counted, now
  <2>4. Cardinality(Counted(OpenIn(w, k), from, clock.at)) = operating
    <3>1. Cardinality(Counted(before, from, clock.at)) = operating
      BY <1>10 DEF ClockAt, before
    <3>2. Cardinality(Counted(now, from, clock.at)) = 0
      BY <2>3, FS_EmptySet
    <3>3. Cardinality(Counted(OpenIn(w, k), from, clock.at))
            = Cardinality(Counted(before, from, clock.at))
                + Cardinality(Counted(now, from, clock.at))
      BY <1>3, <1>8
    <3> QED
      BY <3>1, <3>2, <3>3
  <2>5. clock.at - 1 \in OpenIn(w, k)
    BY <1>4, <1>10 DEF ClockAt, before
  <2>6. \A j \in DOMAIN w : j > k => clock.at <= w[j].start
    BY <1>1, <1>10 DEF ClockAt
  <2>7. ClockAt(w, from, operating, limit, k, clock)
    BY <1>3, <1>10, <2>2, <2>4, <2>5, <2>6 DEF ClockAt
  <2> QED
    BY <2>1, <2>7
<1>11. CASE ~ clock.expired
  <2>1. /\ clock.at = limit /\ clock.remaining > 0
        /\ clock.remaining = operating - Cardinality(Counted(before, from, limit))
    BY <1>11 DEF ClockAt, before
  <2>2. Cardinality(Counted(before, from, limit)) \in Nat
    BY <1>5, CountedIsFinite
  <2>3. Cardinality(Counted(now, from, limit)) = IF begin < until THEN until - begin ELSE 0
    <3>1. CASE limit < w[k].start
      <4>1. Counted(now, from, limit) = {}
        BY <1>1, <3>1 DEF Counted, now
      <4> QED
        BY <1>1, <1>2, <3>1, <4>1, FS_EmptySet
    <3>2. CASE w[k].start <= limit /\ limit <= w[k].end
      <4>1. until = limit
        BY <1>1, <3>2 DEF until
      <4> QED
        BY <1>9, <3>2, <4>1
    <3>3. CASE limit > w[k].end
      <4>1. until = w[k].end
        BY <1>1, <3>3 DEF until
      <4>2. Counted(now, from, limit) = Counted(now, from, w[k].end)
        BY <1>1, <3>3 DEF Counted, now
      <4>3. w[k].start <= w[k].end
        BY <1>1 DEF InTime
      <4> QED
        BY <1>1, <1>9, <4>1, <4>2, <4>3
    <3> QED
      BY <1>1, <3>1, <3>2, <3>3
  <2>4. CASE until <= begin
    <3>1. next = clock
      BY <2>4 DEF Spend, begin, until
    <3>2. Cardinality(Counted(OpenIn(w, k), from, limit)) = Cardinality(Counted(before, from, limit))
      BY <1>2, <1>8, <2>2, <2>3, <2>4
    <3>3. ClockAt(w, from, operating, limit, k, clock)
      BY <1>3, <1>11, <2>1, <3>2 DEF ClockAt
    <3> QED
      BY <3>1, <3>3
  <2>5. CASE begin < until /\ until - begin < clock.remaining
    <3>1. next = [clock EXCEPT !.remaining = clock.remaining - (until - begin)]
      BY <1>2, <1>3, <1>11, <2>5 DEF Spend, begin, until
    <3>2. Cardinality(Counted(OpenIn(w, k), from, limit))
            = Cardinality(Counted(before, from, limit)) + (until - begin)
      BY <1>8, <2>3, <2>5
    <3>3. /\ next \in Clock /\ ~ next.expired /\ next.at = limit
          /\ next.remaining = clock.remaining - (until - begin)
      <4>1. PICK left \in Int : left = clock.remaining - (until - begin)
        BY <1>2, <1>3
      <4>2. next = [clock EXCEPT !.remaining = left]
        BY <3>1, <4>1
      <4> HIDE DEF next
      <4>3. next \in Clock /\ ~ next.expired /\ next.at = limit /\ next.remaining = left
        BY <1>3, <1>11, <2>1, <4>2 DEF Clock
      <4> QED
        BY <4>1, <4>3
    <3> HIDE DEF next
    <3>4. ClockAt(w, from, operating, limit, k, next)
      <4>1. PICK spent \in Nat, left \in Int, used \in Int :
              /\ spent = Cardinality(Counted(before, from, limit))
              /\ left = clock.remaining /\ used = until - begin
        BY <1>2, <1>3, <2>2
      <4>2. left = operating - spent /\ used < left
        BY <2>1, <2>5, <4>1
      <4>3. next.remaining = left - used /\ left - used > 0
        BY <3>3, <4>1, <4>2
      <4>4. Cardinality(Counted(OpenIn(w, k), from, limit)) = spent + used
        BY <3>2, <4>1
      <4>5. next.remaining = operating - Cardinality(Counted(OpenIn(w, k), from, limit))
        BY <4>2, <4>3, <4>4
      <4>6. next.remaining > 0
        BY <4>3
      <4> QED
        BY <3>3, <4>5, <4>6 DEF ClockAt
    <3> QED
      BY <3>4 DEF next
  <2>6. CASE begin < until /\ until - begin >= clock.remaining
    <3> DEFINE at == begin + clock.remaining
    <3>1. next = [clock EXCEPT !.expired = TRUE, !.at = at]
      BY <1>2, <1>3, <1>11, <2>6 DEF Spend, begin, until
    <3>2. at \in Nat /\ begin < at /\ at <= until
      BY <1>2, <1>3, <2>1, <2>6
    <3> HIDE DEF at
    <3>3. next \in Clock /\ next.expired /\ next.at = at
      <4>1. next = [[clock EXCEPT !.expired = TRUE] EXCEPT !.at = at]
        BY <3>1
      <4>2. [clock EXCEPT !.expired = TRUE] \in Clock
        BY <1>3 DEF Clock
      <4> HIDE DEF next
      <4>3. [clock EXCEPT !.expired = TRUE].expired
        BY <1>3 DEF Clock
      <4> DEFINE over == [clock EXCEPT !.expired = TRUE]
      <4> HIDE DEF over
      <4>4. over \in Clock /\ over.expired /\ next = [over EXCEPT !.at = at]
        BY <4>1, <4>2, <4>3 DEF over
      <4> QED
        BY <3>2, <4>4 DEF Clock
    <3> HIDE DEF next
    <3>4. Counted(before, from, at) = Counted(before, from, limit)
      <4>1. \A m \in before : m < at /\ m < limit
        <5> TAKE m \in before
        <5>1. m \in Nat /\ m < w[k].start
          BY <1>5
        <5> QED
          BY <1>1, <1>2, <3>2, <5>1
      <4> QED
        BY <4>1 DEF Counted
    <3>5. Cardinality(Counted(now, from, at)) = at - begin
      <4>1. at \in Int /\ w[k].start <= at /\ at <= w[k].end
        BY <1>1, <1>2, <3>2
      <4> QED
        BY <1>9, <3>2, <4>1
    <3>6. Cardinality(Counted(OpenIn(w, k), from, at)) = operating
      <4>1. Cardinality(Counted(OpenIn(w, k), from, at))
              = Cardinality(Counted(before, from, at)) + Cardinality(Counted(now, from, at))
        BY <1>8, <3>2
      <4>2. PICK spent \in Nat, left \in Int :
              spent = Cardinality(Counted(before, from, limit)) /\ left = clock.remaining
        BY <1>3, <2>2
      <4>3. Cardinality(Counted(now, from, at)) = left
        BY <1>2, <3>5, <4>2 DEF at
      <4>4. left = operating - spent
        BY <2>1, <4>2
      <4>5. Cardinality(Counted(OpenIn(w, k), from, at)) = spent + left
        BY <3>4, <4>1, <4>2, <4>3
      <4> QED
        BY <4>4, <4>5
    <3>7. at - 1 \in OpenIn(w, k)
      <4>1. PICK opens \in Nat, closes \in Nat, first \in Nat, last \in Nat :
              opens = w[k].start /\ closes = w[k].end /\ first = begin /\ last = until
        BY <1>1, <1>2
      <4>2. first >= opens /\ first < at /\ at <= last /\ last <= closes
        BY <1>2, <3>2, <4>1
      <4>3. at - 1 \in opens .. closes - 1
        BY <3>2, <4>2
      <4> QED
        BY <1>4, <4>1, <4>3 DEF now
    <3>8. \A j \in DOMAIN w : j > k => at <= w[j].start
      <4> TAKE j \in DOMAIN w
      <4> HAVE j > k
      <4>1. w[k].end <= w[j].start
        BY <1>1 DEF InTime
      <4>2. PICK opens \in Nat, closes \in Nat, last \in Nat :
              opens = w[j].start /\ closes = w[k].end /\ last = until
        BY <1>1, <1>2
      <4>3. at <= last /\ last <= closes /\ closes <= opens
        BY <1>2, <3>2, <4>1, <4>2
      <4>4. at <= opens
        BY <3>2, <4>3
      <4> QED
        BY <4>2, <4>4
    <3>9. at \in from + 1 .. limit
      BY <1>2, <3>2
    <3>10. ClockAt(w, from, operating, limit, k, next)
      BY <3>3, <3>6, <3>7, <3>8, <3>9 DEF ClockAt
    <3> QED
      BY <3>10 DEF next
  <2> QED
    BY <1>2, <1>3, <2>4, <2>5, <2>6
<1> QED
  BY <1>10, <1>11

\* The first instant by which there were that many instants of O, or the limit.
Reached(O, from, operating, limit) ==
  {t \in from .. limit : Cardinality(Counted(O, from, t)) >= operating}

DeadlineOf(O, from, operating, limit) ==
  IF from >= limit \/ Reached(O, from, operating, limit) = {} THEN limit
  ELSE CHOOSE t \in Reached(O, from, operating, limit) :
         \A u \in Reached(O, from, operating, limit) : t <= u

\* computeDepositExpiry counts the instants of its windows.
LEMMA ExpiryIsDeadline ==
  ASSUME NEW w \in Seq(TimeWindow), InTime(w), NEW from \in Nat, NEW limit \in Nat,
         NEW operating \in Nat \ {0}
  PROVE  ComputeDepositExpiry(from, operating, limit, w)
           = DeadlineOf(OpenIn(w, Len(w)), from, operating, limit)
<1>1. CASE from >= limit
  BY <1>1 DEF ComputeDepositExpiry, DeadlineOf
<1>2. CASE from < limit
  <2> DEFINE n == Len(w)
             O == OpenIn(w, n)
  <2>1. PICK c : /\ c[0] = [expired |-> FALSE, at |-> limit, remaining |-> operating]
                 /\ ComputeDepositExpiry(from, operating, limit, w) = c[n].at
                 /\ \A k \in 1 .. n :
                      c[k - 1] \in Clock /\ c[k] = Spend(c[k - 1], w[k], from, limit)
    BY <1>2, ClockChain
  <2>2. n \in Nat
    OBVIOUS
  <2> DEFINE Good == {k \in 0 .. n : ClockAt(w, from, operating, limit, k, c[k])}
  <2>3. 0 \in Good
    <3>1. 1 .. 0 = {} /\ 0 \in 0 .. n
      BY <2>2
    <3>2. OpenIn(w, 0) = {} /\ Counted(OpenIn(w, 0), from, limit) = {}
      BY <3>1 DEF OpenIn, Counted
    <3>3. Cardinality(Counted(OpenIn(w, 0), from, limit)) = 0
      BY <3>2, FS_EmptySet
    <3>4. c[0] \in Clock /\ ~ c[0].expired /\ c[0].at = limit /\ c[0].remaining = operating
      BY <2>1 DEF Clock
    <3>5. ClockAt(w, from, operating, limit, 0, c[0])
      BY <3>3, <3>4 DEF ClockAt
    <3> QED
      BY <3>1, <3>5
  <2>4. ASSUME NEW k \in 1 .. n, k - 1 \in Good
        PROVE  k \in Good
    <3>1. ClockAt(w, from, operating, limit, k - 1, c[k - 1])
      BY <2>4
    <3>2. ClockAt(w, from, operating, limit, k, Spend(c[k - 1], w[k], from, limit))
      BY <1>2, <3>1, ClockNext
    <3>3. k \in 0 .. n
      BY <2>2
    <3> QED
      BY <2>1, <3>2, <3>3
  <2>5. ClockAt(w, from, operating, limit, n, c[n])
    <3> HIDE DEF Good
    <3>1. \A k \in 0 .. n : k \in Good
      BY <2>2, <2>3, <2>4, Counting
    <3> QED
      BY <2>2, <3>1 DEF Good
  <2>6. O \subseteq Nat
    <3>1. \A i \in 1 .. n : w[i] \in TimeWindow
      OBVIOUS
    <3>2. \A i \in 1 .. n : w[i].start \in Nat
      BY <3>1 DEF TimeWindow
    <3> QED
      BY <3>2 DEF OpenIn
  <2> HIDE DEF O, n
  <2>10. \A t \in Int : /\ IsFiniteSet(Counted(O, from, t))
                       /\ Cardinality(Counted(O, from, t)) \in Nat
    BY <2>6, CountedIsFinite
  <2>7. \A t, u \in Int : t <= u =>
          /\ Counted(O, from, t) \subseteq Counted(O, from, u)
          /\ Cardinality(Counted(O, from, t)) <= Cardinality(Counted(O, from, u))
    <3> TAKE t, u \in Int
    <3> HAVE t <= u
    <3>1. ASSUME NEW m \in Counted(O, from, t)
          PROVE  m \in Counted(O, from, u)
      <4>1. m \in O /\ m \in Nat /\ from <= m /\ m < t
        BY <2>6 DEF Counted
      <4> QED
        BY <4>1 DEF Counted
    <3>2. Counted(O, from, t) \subseteq Counted(O, from, u)
      BY <3>1
    <3>3. IsFiniteSet(Counted(O, from, u))
      BY <2>10
    <3> QED
      BY <3>2, <3>3, FS_Subset
  <2>8. CASE ~ c[n].expired
    <3>1. c[n].at = limit /\ Cardinality(Counted(O, from, limit)) < operating
      <4>1. Cardinality(Counted(O, from, limit)) \in Nat
        BY <2>10
      <4> QED
        BY <2>5, <2>8, <4>1 DEF ClockAt, O
    <3>2. Reached(O, from, operating, limit) = {}
      <4> SUFFICES ASSUME NEW t \in from .. limit, Cardinality(Counted(O, from, t)) >= operating
                   PROVE  FALSE
        BY DEF Reached
      <4>1. Cardinality(Counted(O, from, t)) <= Cardinality(Counted(O, from, limit))
        BY <2>7
      <4>2. /\ Cardinality(Counted(O, from, t)) \in Nat
            /\ Cardinality(Counted(O, from, limit)) \in Nat
        <5>1. t \in Int /\ limit \in Int
          OBVIOUS
        <5> QED
          BY <2>10, <5>1, Zenon
      <4> QED
        BY <3>1, <4>1, <4>2
    <3> QED
      BY <2>1, <3>1, <3>2 DEF DeadlineOf, O, n
  <2>9. CASE c[n].expired
    <3> DEFINE at == c[n].at
               R == Reached(O, from, operating, limit)
    <3>1. /\ at \in from + 1 .. limit /\ at - 1 \in O
          /\ Cardinality(Counted(O, from, at)) = operating
      BY <2>5, <2>9 DEF ClockAt, O
    <3>2. at \in R
      BY <3>1 DEF Reached
    <3>3. ASSUME NEW u \in R, u < at
          PROVE  FALSE
      <4>1. u \in from .. limit /\ Cardinality(Counted(O, from, u)) >= operating
        BY DEF Reached
      <4>2. Counted(O, from, u) \subseteq Counted(O, from, at)
        BY <2>7, <3>1, <3>3, <4>1
      <4>3. at - 1 \in Counted(O, from, at) /\ at - 1 \notin Counted(O, from, u)
        BY <3>1, <3>3, <4>1 DEF Counted
      <4>4. /\ IsFiniteSet(Counted(O, from, at)) /\ Cardinality(Counted(O, from, at)) \in Nat
            /\ IsFiniteSet(Counted(O, from, u)) /\ Cardinality(Counted(O, from, u)) \in Nat
        <5>1. at \in Int /\ u \in Int
          BY <3>1, <4>1
        <5> QED
          BY <2>10, <5>1, Zenon
      <4> HIDE DEF at
      <4>5. /\ Cardinality(Counted(O, from, u)) <= Cardinality(Counted(O, from, at))
            /\ Cardinality(Counted(O, from, u)) = Cardinality(Counted(O, from, at))
                 => Counted(O, from, u) = Counted(O, from, at)
        BY <4>2, <4>4, FS_Subset
      <4> QED
        BY <3>1, <4>1, <4>3, <4>4, <4>5
    <3>4. \A u \in R : u \in Int /\ at <= u
      <4>1. \A u \in R : u \in Int
        BY DEF Reached
      <4> QED
        BY <3>1, <3>3, <4>1
    <3> HIDE DEF R, at
    <3>5. at = CHOOSE t \in R : \A u \in R : t <= u
      <4>1. \A t \in R : (\A u \in R : t <= u) => t = at
        BY <3>1, <3>2, <3>4
      <4> QED
        BY <3>2, <3>4, <4>1
    <3> QED
      BY <1>2, <2>1, <3>2, <3>5 DEF DeadlineOf, R, at, O, n
  <2> QED
    BY <2>8, <2>9
<1> QED
  BY <1>1, <1>2

\* Instants that are taken away never bring the deadline forward.
LEMMA DeadlineNeverHastens ==
  ASSUME NEW O, O \subseteq Nat, NEW P, P \subseteq O, NEW from \in Nat, NEW limit \in Nat,
         NEW operating \in Nat
  PROVE  DeadlineOf(P, from, operating, limit) >= DeadlineOf(O, from, operating, limit)
<1> DEFINE R == Reached(O, from, operating, limit)
           S == Reached(P, from, operating, limit)
<1>1. S \subseteq R
  <2> SUFFICES ASSUME NEW t \in from .. limit, Cardinality(Counted(P, from, t)) >= operating
               PROVE  Cardinality(Counted(O, from, t)) >= operating
    BY DEF Reached
  <2>1. Counted(P, from, t) \subseteq Counted(O, from, t)
    BY DEF Counted
  <2>2. /\ IsFiniteSet(Counted(O, from, t)) /\ Cardinality(Counted(O, from, t)) \in Nat
        /\ Cardinality(Counted(P, from, t)) \in Nat
    <3>1. P \subseteq Nat /\ t \in Int
      OBVIOUS
    <3> QED
      BY <3>1, CountedIsFinite
  <2>3. Cardinality(Counted(P, from, t)) <= Cardinality(Counted(O, from, t))
    BY <2>1, <2>2, FS_Subset
  <2> QED
    BY <2>2, <2>3
<1>2. R \subseteq Nat /\ \A t \in R : t <= limit
  BY DEF Reached
<1> DEFINE Least(T) == CHOOSE t \in T : \A u \in T : t <= u
<1>3. ASSUME NEW T, T \subseteq R, T # {}
      PROVE  Least(T) \in T /\ \A u \in T : Least(T) <= u
  <2>1. T \subseteq Nat
    BY <1>2, <1>3
  <2>2. \E t \in T : \A u \in T : t <= u
    BY <1>3, <2>1, LeastNumber
  <2> QED
    BY <2>2
<1> HIDE DEF R, S, Least
<1>4. DeadlineOf(O, from, operating, limit) = IF from >= limit \/ R = {} THEN limit ELSE Least(R)
  BY DEF DeadlineOf, R, Least
<1>5. DeadlineOf(P, from, operating, limit) = IF from >= limit \/ S = {} THEN limit ELSE Least(S)
  BY DEF DeadlineOf, S, Least
<1>6. S # {} => Least(S) \in R /\ Least(R) <= Least(S)
  BY <1>1, <1>3
<1>7. R # {} => Least(R) \in R /\ Least(R) <= limit
  BY <1>2, <1>3
<1>8. R = {} => S = {}
  BY <1>1
<1> QED
  BY <1>2, <1>4, <1>5, <1>6, <1>7, <1>8

=============================================================================
