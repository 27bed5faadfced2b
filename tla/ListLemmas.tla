------------------------------ MODULE ListLemmas ------------------------------
(***************************************************************************)
(* What removal does to a list without duplicates, and least and greatest   *)
(* elements.  Most parts of the system keep such lists and remove from the *)
(* middle of them: the queue a decided id, the linker the hint that        *)
(* matched, the cache the entry it moves to the end.                       *)
(***************************************************************************)
EXTENDS Integers, FiniteSets, SequencesExt, TLAPS, FiniteSetTheorems,
        SequenceTheorems, WellFoundedInduction

\* Removing position i of a sequence closes the gap.
LEMMA RemoveAtProperties ==
    ASSUME NEW S, NEW s \in Seq(S), NEW i \in 1..Len(s)
    PROVE  /\ RemoveAt(s, i) \in Seq(S)
           /\ Len(RemoveAt(s, i)) = Len(s) - 1
           /\ \A j \in 1..(Len(s) - 1) :
                 RemoveAt(s, i)[j] = IF j < i THEN s[j] ELSE s[j + 1]
<1> DEFINE left == SubSeq(s, 1, i - 1)
           right == SubSeq(s, i + 1, Len(s))
<1>1. /\ left \in Seq(S)
      /\ Len(left) = i - 1
      /\ \A j \in 1..(i - 1) : left[j] = s[j]
  <2>1. \A j \in 1..(i - 1) : s[j] \in S
    BY ElementOfSeq, LenProperties
  <2>2. 1 \in Int /\ i - 1 \in Int
    BY LenProperties
  <2> HIDE DEF left
  <2>3. QED BY <2>1, <2>2, SubSeqProperties, LenProperties DEF left
<1>2. /\ right \in Seq(S)
      /\ Len(right) = Len(s) - i
      /\ \A j \in 1..(Len(s) - i) : right[j] = s[i + j]
  <2>1. \A j \in (i + 1)..Len(s) : s[j] \in S
    BY ElementOfSeq, LenProperties
  <2>2. i + 1 \in Int /\ Len(s) \in Int
    BY LenProperties
  <2> HIDE DEF right
  <2>3. QED BY <2>1, <2>2, SubSeqProperties, LenProperties DEF right
<1>3. RemoveAt(s, i) = left \o right
  BY DEF RemoveAt
<1> HIDE DEF left, right
<1>4. /\ left \o right \in Seq(S)
      /\ Len(left \o right) = Len(left) + Len(right)
      /\ \A j \in 1..(Len(left) + Len(right)) :
            (left \o right)[j] = IF j <= Len(left) THEN left[j] ELSE right[j - Len(left)]
  BY <1>1, <1>2, ConcatProperties
<1>5. Len(s) \in Nat
  BY LenProperties
<1>6. QED BY <1>1, <1>2, <1>3, <1>4, <1>5

\* list.remove on a list without duplicates: the one occurrence goes, if any.
LEMMA RemoveFirstProperties ==
    ASSUME NEW S, NEW s \in Seq(S), IsInjective(s), NEW e
    PROVE  \/ /\ \A j \in 1..Len(s) : s[j] # e
              /\ RemoveFirst(s, e) = s
           \/ \E i \in 1..Len(s) :
                 /\ s[i] = e
                 /\ RemoveFirst(s, e) = RemoveAt(s, i)
<1> DEFINE I == {i \in 1..Len(s) : s[i] = e}
<1>1. CASE \A j \in 1..Len(s) : s[j] # e
  BY <1>1 DEF RemoveFirst
<1>2. ASSUME NEW m \in 1..Len(s), s[m] = e
      PROVE  RemoveFirst(s, e) = RemoveAt(s, m)
  <2>1. I = {m}
    BY <1>2, LenProperties DEF IsInjective
  <2>2. Min({m}) = m
    BY LenProperties DEF Min
  <2>3. RemoveFirst(s, e) = RemoveAt(s, Min(I))
    BY <1>2, <2>1 DEF RemoveFirst, SelectInSeq
  <2>4. QED BY <2>1, <2>2, <2>3
<1>3. QED BY <1>1, <1>2

\* x is in the list s; the elements of r are elements of s, in the same order.
Holds(s, x) == \E j \in 1..Len(s) : s[j] = x
KeepsOrder(r, s) ==
    \A i, j \in 1..Len(r) : i < j =>
        \E k, l \in 1..Len(s) : k < l /\ s[k] = r[i] /\ s[l] = r[j]

\* It stays a duplicate-free list, in the same order, of the other elements.
LEMMA RemovalKeepsOrder ==
    ASSUME NEW S, NEW s \in Seq(S), IsInjective(s), NEW e
    PROVE  /\ RemoveFirst(s, e) \in Seq(S)
           /\ IsInjective(RemoveFirst(s, e))
           /\ \A x : Holds(RemoveFirst(s, e), x) <=> x # e /\ Holds(s, x)
           /\ KeepsOrder(RemoveFirst(s, e), s)
<1> DEFINE r == RemoveFirst(s, e)
<1>1. CASE (\A j \in 1..Len(s) : s[j] # e) /\ r = s
  BY <1>1 DEF Holds, KeepsOrder
<1>2. ASSUME NEW m \in 1..Len(s), s[m] = e, r = RemoveAt(s, m)
      PROVE  /\ r \in Seq(S)
             /\ IsInjective(r)
             /\ \A x : Holds(r, x) <=> x # e /\ Holds(s, x)
             /\ KeepsOrder(r, s)
  <2> HIDE DEF r
  <2>1. /\ r \in Seq(S)
        /\ Len(r) = Len(s) - 1
        /\ \A j \in 1..(Len(s) - 1) : r[j] = IF j < m THEN s[j] ELSE s[j + 1]
    BY <1>2, RemoveAtProperties
  <2>2. Len(s) \in Nat /\ DOMAIN s = 1..Len(s) /\ DOMAIN r = 1..Len(r)
    BY <2>1, LenProperties
  <2>3. IsInjective(r)
    <3>1. SUFFICES ASSUME NEW i \in 1..Len(r), NEW j \in 1..Len(r), r[i] = r[j]
                   PROVE  i = j
      BY <2>2 DEF IsInjective
    <3> DEFINE at(n) == IF n < m THEN n ELSE n + 1
    <3>2. at(i) \in 1..Len(s) /\ at(j) \in 1..Len(s)
      BY <2>1, <2>2
    <3>3. s[at(i)] = s[at(j)]
      BY <2>1, <2>2, <3>1
    <3>4. at(i) = at(j)
      <4> HIDE DEF at
      <4>1. QED BY <3>2, <3>3, <2>2 DEF IsInjective
    <3>5. QED BY <3>4, <2>1, <2>2
  <2>4. ASSUME NEW x, NEW j \in 1..Len(r), r[j] = x
        PROVE  x # e /\ \E k \in 1..Len(s) : s[k] = x
    BY <2>1, <2>2, <2>4, <1>2 DEF IsInjective
  <2>5. ASSUME NEW x, x # e, NEW k \in 1..Len(s), s[k] = x
        PROVE  \E j \in 1..Len(r) : r[j] = x
    <3>1. CASE k < m
      <4>1. k \in 1..Len(r) /\ r[k] = x
        BY <2>1, <2>2, <2>5, <3>1
      <4>2. QED BY <4>1
    <3>2. CASE k > m
      <4>1. k - 1 \in 1..Len(r) /\ r[k - 1] = x
        BY <2>1, <2>2, <2>5, <3>2
      <4>2. QED BY <4>1
    <3>3. QED BY <3>1, <3>2, <2>2, <2>5, <1>2
  <2>6. ASSUME NEW i \in 1..Len(r), NEW j \in 1..Len(r), i < j
        PROVE  \E k, l \in 1..Len(s) : k < l /\ s[k] = r[i] /\ s[l] = r[j]
    <3> DEFINE at(n) == IF n < m THEN n ELSE n + 1
    <3>1. at(i) \in 1..Len(s) /\ at(j) \in 1..Len(s) /\ at(i) < at(j)
      BY <2>1, <2>2, <2>6
    <3>2. s[at(i)] = r[i] /\ s[at(j)] = r[j]
      BY <2>1, <2>2
    <3>3. QED BY <3>1, <3>2
  <2>7. QED BY <2>1, <2>3, <2>4, <2>5, <2>6 DEF Holds, KeepsOrder
<1>3. QED BY <1>1, <1>2, RemoveFirstProperties

\* The same of the set of elements.
LEMMA RemovalRange ==
    ASSUME NEW S, NEW s \in Seq(S), IsInjective(s), NEW e
    PROVE  /\ RemoveFirst(s, e) \in Seq(S)
           /\ Range(RemoveFirst(s, e)) = Range(s) \ {e}
<1> DEFINE r == RemoveFirst(s, e)
<1>1. r \in Seq(S) /\ \A x : Holds(r, x) <=> x # e /\ Holds(s, x)
  BY RemovalKeepsOrder
<1> HIDE DEF r
<1>2. Range(r) = {r[j] : j \in 1..Len(r)} /\ Range(s) = {s[j] : j \in 1..Len(s)}
  BY <1>1, RangeEquality
<1>3. Range(r) = Range(s) \ {e}
  BY <1>1, <1>2 DEF Holds
<1>4. QED BY <1>1, <1>3 DEF r

\* The elements of a list are its head's and its tail's.
LEMMA HeadTailRange ==
    ASSUME NEW S, NEW s \in Seq(S), s # <<>>
    PROVE  /\ Head(s) \in S
           /\ Tail(s) \in Seq(S)
           /\ Range(s) = {Head(s)} \cup Range(Tail(s))
<1>1. /\ Head(s) \in S
      /\ Tail(s) \in Seq(S)
      /\ Len(s) \in Nat /\ Len(s) > 0
      /\ Len(Tail(s)) = Len(s) - 1
      /\ \A i \in 1..Len(Tail(s)) : Tail(s)[i] = s[i + 1]
      /\ Head(s) = s[1]
  BY HeadTailProperties, EmptySeq, LenProperties
<1>2. Range(s) = {s[j] : j \in 1..Len(s)}
  BY RangeEquality
<1>3. Range(Tail(s)) = {Tail(s)[j] : j \in 1..Len(Tail(s))}
  BY <1>1, RangeEquality
<1>4. ASSUME NEW j \in 1..Len(s)
      PROVE  s[j] \in {Head(s)} \cup Range(Tail(s))
  <2>1. CASE j = 1
    BY <1>1, <2>1
  <2>2. CASE j # 1
    <3>1. j - 1 \in 1..Len(Tail(s)) /\ Tail(s)[j - 1] = s[j]
      BY <1>1, <2>2
    <3>2. QED BY <3>1, <1>3
  <2>3. QED BY <2>1, <2>2
<1>5. ASSUME NEW j \in 1..Len(Tail(s))
      PROVE  Tail(s)[j] \in Range(s)
  <2>1. j + 1 \in 1..Len(s) /\ Tail(s)[j] = s[j + 1]
    BY <1>1
  <2>2. QED BY <2>1, <1>2
<1>6. Head(s) \in Range(s)
  BY <1>1, <1>2
<1>7. QED BY <1>1, <1>2, <1>3, <1>4, <1>5, <1>6

\* Putting a new element at the end of a list without duplicates.
LEMMA AppendNew ==
    ASSUME NEW S, NEW s \in Seq(S), IsInjective(s), NEW x \in S, x \notin Range(s)
    PROVE  /\ Append(s, x) \in Seq(S)
           /\ IsInjective(Append(s, x))
           /\ Range(Append(s, x)) = Range(s) \cup {x}
<1> DEFINE r == Append(s, x)
<1>1. /\ r \in Seq(S) /\ Len(r) = Len(s) + 1 /\ Len(s) \in Nat
      /\ \A j \in 1..Len(s) : r[j] = s[j]
      /\ r[Len(s) + 1] = x
  BY AppendProperties, LenProperties
<1> HIDE DEF r
<1>2. Range(r) = {r[j] : j \in 1..Len(r)} /\ Range(s) = {s[j] : j \in 1..Len(s)}
  BY <1>1, RangeEquality
<1>3. DOMAIN r = 1..Len(r) /\ DOMAIN s = 1..Len(s)
  BY <1>1, LenProperties
<1>4. \A j \in 1..Len(s) : s[j] # x
  BY <1>2
<1>5. ASSUME NEW i \in 1..Len(r), NEW j \in 1..Len(r), r[i] = r[j]
      PROVE  i = j
  <2>1. CASE i \in 1..Len(s) /\ j \in 1..Len(s)
    BY <1>1, <1>3, <1>5, <2>1 DEF IsInjective
  <2>2. CASE i = Len(s) + 1 \/ j = Len(s) + 1
    BY <1>1, <1>4, <1>5, <2>2
  <2>3. QED BY <1>1, <2>1, <2>2
<1>6. IsInjective(r)
  BY <1>3, <1>5 DEF IsInjective
<1>7. ASSUME NEW y
      PROVE  y \in Range(r) <=> y \in Range(s) \cup {x}
  <2>1. ASSUME NEW j \in 1..Len(r)
        PROVE  r[j] \in Range(s) \cup {x}
    <3>1. CASE j \in 1..Len(s)
      BY <1>1, <1>2, <3>1
    <3>2. CASE j = Len(s) + 1
      BY <1>1, <3>2
    <3>3. QED BY <1>1, <3>1, <3>2
  <2>2. ASSUME NEW j \in 1..Len(s)
        PROVE  s[j] \in Range(r)
    <3>1. j \in 1..Len(r) /\ r[j] = s[j]
      BY <1>1
    <3>2. QED BY <1>2, <3>1
  <2>3. x \in Range(r)
    <3>1. Len(s) + 1 \in 1..Len(r) /\ r[Len(s) + 1] = x
      BY <1>1
    <3>2. QED BY <1>2, <3>1
  <2>4. QED BY <1>2, <2>1, <2>2, <2>3
<1>8. Range(r) = Range(s) \cup {x}
  BY <1>7
<1>9. QED BY <1>1, <1>6, <1>8 DEF r

\* Taking the head off a list without duplicates takes it out.
LEMMA TailOfInjective ==
    ASSUME NEW S, NEW s \in Seq(S), s # <<>>, IsInjective(s)
    PROVE  /\ Head(s) \in S
           /\ Tail(s) \in Seq(S)
           /\ IsInjective(Tail(s))
           /\ Range(Tail(s)) = Range(s) \ {Head(s)}
<1>1. /\ Head(s) \in S /\ Tail(s) \in Seq(S)
      /\ Len(s) \in Nat /\ Len(s) > 0
      /\ Len(Tail(s)) = Len(s) - 1
      /\ \A i \in 1..Len(Tail(s)) : Tail(s)[i] = s[i + 1]
      /\ Head(s) = s[1]
  BY HeadTailProperties, EmptySeq, LenProperties
<1>2. DOMAIN s = 1..Len(s) /\ DOMAIN Tail(s) = 1..Len(Tail(s))
  BY <1>1, LenProperties
<1>3. IsInjective(Tail(s))
  <2> SUFFICES ASSUME NEW i \in 1..Len(Tail(s)), NEW j \in 1..Len(Tail(s)),
                      Tail(s)[i] = Tail(s)[j]
               PROVE  i = j
    BY <1>2 DEF IsInjective
  <2>1. i + 1 \in 1..Len(s) /\ j + 1 \in 1..Len(s) /\ s[i + 1] = s[j + 1]
    BY <1>1
  <2>2. i + 1 = j + 1
    BY <1>2, <2>1 DEF IsInjective
  <2>3. QED BY <2>2
<1>4. Head(s) \notin Range(Tail(s))
  <2> SUFFICES ASSUME NEW i \in 1..Len(Tail(s)), Tail(s)[i] = Head(s)
               PROVE  FALSE
    <3>1. Range(Tail(s)) = {Tail(s)[j] : j \in 1..Len(Tail(s))}
      BY <1>1, RangeEquality
    <3>2. QED BY <3>1
  <2>1. i + 1 \in 1..Len(s) /\ 1 \in 1..Len(s) /\ s[i + 1] = s[1]
    BY <1>1
  <2>2. i + 1 = 1
    BY <1>2, <2>1 DEF IsInjective
  <2>3. QED BY <2>2
<1>5. Range(s) = {Head(s)} \cup Range(Tail(s))
  BY HeadTailRange
<1>6. QED BY <1>1, <1>3, <1>4, <1>5

\* Nothing is in the empty list.
LEMMA EmptyRange == Range(<<>>) = {}
BY DEF Range

\* A list is a prefix of itself and of what it is the beginning of.
LEMMA ConcatExtends ==
    ASSUME NEW S, NEW s \in Seq(S), NEW t \in Seq(S)
    PROVE  IsPrefix(s, s) /\ IsPrefix(s, s \o t)
<1>1. Len(s) \in Nat /\ s \in [1..Len(s) -> S]
  BY LenProperties
<1>2. IsPrefix(s, s)
  BY <1>1 DEF IsPrefix
<1> DEFINE new == s \o t
           old == SubSeq(s, 1, Len(s))
           pre == SubSeq(new, 1, Len(s))
<1>3. /\ new \in Seq(S) /\ Len(new) = Len(s) + Len(t) /\ Len(t) \in Nat
      /\ \A i \in 1..Len(s) : new[i] = s[i] /\ s[i] \in S
  BY <1>1, ConcatProperties, LenProperties
<1> HIDE DEF new
<1>4. 1 \in Int /\ Len(s) \in Int /\ Len(s) - 1 + 1 = Len(s)
  BY <1>1
<1>5. /\ pre \in Seq(S)
      /\ Len(pre) = Len(s)
      /\ \A i \in 1..Len(s) : pre[i] = new[i]
  BY <1>1, <1>3, <1>4, SubSeqProperties
<1>6. /\ old \in Seq(S)
      /\ Len(old) = Len(s)
      /\ \A i \in 1..Len(s) : old[i] = s[i]
  BY <1>1, <1>3, <1>4, SubSeqProperties
<1> HIDE DEF old, pre
<1>7. old = pre
  BY <1>3, <1>5, <1>6, SeqEqual
<1>8. IsPrefix(s, new)
  BY <1>1, <1>3, <1>7 DEF IsPrefix, old, pre
<1>9. QED BY <1>2, <1>8 DEF new

-----------------------------------------------------------------------------
(* Sets of numbers.                                                        *)

\* A set of numbers that is not empty has a least one, which Min gives.
LEMMA MinIsLeast ==
    ASSUME NEW S, S \subseteq Nat, S # {}
    PROVE  Min(S) \in S /\ \A x \in S : Min(S) <= x
<1> DEFINE R == {ss \in Nat \X Nat : ss[1] < ss[2]}
<1>1. IsWellFoundedOn(R, Nat)
  BY NatLessThanWellFounded, Zenon DEF OpToRel
<1>2. PICK x \in S : \A y \in S : ~(<<y, x>> \in R)
  <2> HIDE DEF R
  <2>1. QED BY <1>1, WFMin
<1>3. ASSUME NEW y \in S PROVE x <= y
  <2>1. x \in Nat /\ y \in Nat /\ <<y, x>> \notin R
    BY <1>2
  <2>2. <<y, x>> \in Nat \X Nat /\ <<y, x>>[1] = y /\ <<y, x>>[2] = x
    BY <2>1
  <2>3. ~(y < x)
    BY <2>1, <2>2
  <2>4. QED BY <2>1, <2>3
<1>4. QED BY <1>3 DEF Min

\* A finite set of numbers that is not empty has a greatest, which Max gives.
LEMMA MaxIsGreatest ==
    ASSUME NEW S, S \subseteq Nat, S # {}, IsFiniteSet(S)
    PROVE  Max(S) \in S /\ \A x \in S : x <= Max(S)
<1> DEFINE Above(x) == {y \in S : y > x}
           sizes == {Cardinality(Above(x)) : x \in S}
<1>1. \A x \in S : IsFiniteSet(Above(x)) /\ Cardinality(Above(x)) \in Nat
  <2>1. \A x \in S : Above(x) \in SUBSET S
    OBVIOUS
  <2> HIDE DEF Above
  <2>2. QED BY <2>1, FS_Subset, FS_CardinalityType
<1>2. PICK m \in S : \A x \in S : Cardinality(Above(m)) <= Cardinality(Above(x))
  <2>1. sizes \subseteq Nat /\ sizes # {}
    BY <1>1
  <2> HIDE DEF sizes, Above
  <2>2. Min(sizes) \in sizes /\ \A n \in sizes : Min(sizes) <= n
    BY <2>1, MinIsLeast
  <2>3. QED BY <2>2 DEF sizes
<1>3. ASSUME NEW x \in S, x > m PROVE FALSE
  <2>1. Above(x) \in SUBSET Above(m) /\ x \in Above(m) /\ x \notin Above(x)
    <3>1. x \in Nat /\ m \in Nat /\ \A y \in S : y \in Nat
      OBVIOUS
    <3>2. \A y \in Above(x) : y \in Above(m)
      BY <1>3, <3>1
    <3>3. x \in Above(m) /\ x \notin Above(x)
      BY <1>3, <3>1
    <3> HIDE DEF Above
    <3>4. QED BY <3>2, <3>3
  <2> HIDE DEF Above
  <2>2. Cardinality(Above(x)) <= Cardinality(Above(m)) /\ Cardinality(Above(x)) # Cardinality(Above(m))
    BY <1>1, <2>1, FS_Subset
  <2>3. QED BY <1>1, <1>2, <2>2
<1>4. \A x \in S : x <= m
  BY <1>3
<1>5. QED BY <1>4 DEF Max

=============================================================================
