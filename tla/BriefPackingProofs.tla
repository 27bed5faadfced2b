--------------------------- MODULE BriefPackingProofs ---------------------------
(***************************************************************************)
(* Proofs about the briefs, for any history of any elements, any lengths,  *)
(* budgets and cutoffs.  First each strategy by itself: whatever history   *)
(* it gets, what it makes of it keeps the promises of HistoryRetrieval.    *)
(* Then the packing, which takes the segments as they come.                *)
(***************************************************************************)
EXTENDS BriefPacking, ListLemmas

-----------------------------------------------------------------------------
(* Places in an order.                                                     *)

\* Ranked by how many come before it, each of a finite set has a place of its own, and
\* no place is left out.
LEMMA PlacesInOrder ==
    ASSUME NEW S, IsFiniteSet(S), NEW R,
           \A i \in S : <<i, i>> \notin R,
           \A i, j, k \in S : <<i, j>> \in R /\ <<j, k>> \in R => <<i, k>> \in R,
           \A i, j \in S : i = j \/ <<i, j>> \in R \/ <<j, i>> \in R
    PROVE  /\ Cardinality(S) \in Nat
           /\ \A n \in 1..Cardinality(S) : Nth(S, R, n) \in S
           /\ \A i \in S : \E n \in 1..Cardinality(S) : Nth(S, R, n) = i
           /\ \A m, n \in 1..Cardinality(S) : <<Nth(S, R, m), Nth(S, R, n)>> \in R <=> m < n
<1> DEFINE before(i) == {j \in S : <<j, i>> \in R}
           rank == [i \in S |-> Cardinality(before(i))]
<1>1. PICK c : c = Cardinality(S)
  OBVIOUS
<1>2. c \in Nat
  BY <1>1, FS_CardinalityType
<1>3. ASSUME NEW i \in S
      PROVE  /\ IsFiniteSet(before(i)) /\ rank[i] = Cardinality(before(i))
             /\ rank[i] \in 0..(c - 1)
  <2>1. before(i) \in SUBSET (S \ {i})
    OBVIOUS
  <2>2. IsFiniteSet(S \ {i}) /\ Cardinality(S \ {i}) = c - 1
    BY <1>1, FS_RemoveElement
  <2> HIDE DEF before
  <2>3. /\ IsFiniteSet(before(i)) /\ Cardinality(before(i)) \in Nat
        /\ Cardinality(before(i)) <= c - 1
    BY <2>1, <2>2, FS_Subset, FS_CardinalityType
  <2>4. QED BY <1>2, <2>3
<1>4. ASSUME NEW i \in S, NEW k \in S, <<i, k>> \in R
      PROVE  rank[i] < rank[k]
  <2>1. before(i) \in SUBSET before(k)
    BY <1>4
  <2>2. i \in before(k) /\ i \notin before(i)
    BY <1>4
  <2> HIDE DEF before, rank
  <2>3. IsFiniteSet(before(k)) /\ rank[i] \in Int /\ rank[k] \in Int
    <3>1. IsFiniteSet(before(k)) /\ rank[i] \in 0..(c - 1) /\ rank[k] \in 0..(c - 1)
      BY <1>3
    <3>2. QED BY <1>2, <3>1
  <2>4. rank[i] = Cardinality(before(i)) /\ rank[k] = Cardinality(before(k))
    BY <1>3
  <2>5. rank[i] <= rank[k] /\ rank[i] # rank[k]
    BY <2>1, <2>2, <2>3, <2>4, FS_Subset
  <2>6. QED BY <2>3, <2>5
<1>5. \A i, k \in S : rank[i] = rank[k] => i = k
  <2> HIDE DEF before, rank
  <2>1. \A i \in S : rank[i] \in Int
    <3>1. \A i \in S : rank[i] \in 0..(c - 1)
      BY <1>3
    <3>2. QED BY <1>2, <3>1
  <2>2. SUFFICES ASSUME NEW i \in S, NEW k \in S, rank[i] = rank[k], i # k
                 PROVE  FALSE
    OBVIOUS
  <2>3. rank[i] < rank[k] \/ rank[k] < rank[i]
    BY <1>4, <2>2
  <2>4. QED BY <2>1, <2>2, <2>3
<1>6. \A n \in 1..c : \E i \in S : rank[i] = n - 1
  <2>1. rank \in [S -> 0..(c - 1)]
    BY <1>3
  <2>2. rank \in Injection(S, 0..(c - 1))
    <3> HIDE DEF rank
    <3>1. DOMAIN rank = S
      BY <2>1
    <3>2. QED BY <1>5, <2>1, <3>1 DEF Injection, IsInjective
  <2>3. IsFiniteSet(0..(c - 1)) /\ Cardinality(0..(c - 1)) = c
    <3>1. 0 \in Int /\ c - 1 \in Int /\ (IF 0 > c - 1 THEN 0 ELSE (c - 1) - 0 + 1) = c
      BY <1>2
    <3>2. QED BY <3>1, FS_Interval
  <2> HIDE DEF rank
  <2>4. rank \in Surjection(S, 0..(c - 1))
    BY <1>1, <2>2, <2>3, FS_Injection
  <2>5. \A m \in 0..(c - 1) : \E i \in S : rank[i] = m
    BY <2>4 DEF Surjection
  <2>6. \A n \in 1..c : n - 1 \in 0..(c - 1)
    BY <1>2
  <2>7. QED BY <2>5, <2>6
<1>7. ASSUME NEW n \in 1..c
      PROVE  Nth(S, R, n) \in S /\ rank[Nth(S, R, n)] = n - 1
  <2>1. \E i \in S : Cardinality(before(i)) = n - 1
    <3>1. PICK i \in S : rank[i] = n - 1
      BY <1>6
    <3>2. Cardinality(before(i)) = n - 1
      BY <1>3, <3>1
    <3>3. QED BY <3>2
  <2>2. Nth(S, R, n) \in S /\ Cardinality(before(Nth(S, R, n))) = n - 1
    BY <2>1 DEF Nth
  <2>3. QED BY <1>3, <2>2
<1>8. \A i \in S : rank[i] \in 0..(c - 1)
  BY <1>3
<1> HIDE DEF rank
<1>9. ASSUME NEW i \in S
      PROVE  \E n \in 1..c : Nth(S, R, n) = i
  <2>1. PICK n : n = rank[i] + 1
    OBVIOUS
  <2>2. n \in 1..c /\ n - 1 = rank[i]
    BY <1>2, <1>8, <2>1
  <2>3. QED BY <1>5, <1>7, <2>2
<1>10. ASSUME NEW m \in 1..c, NEW n \in 1..c
       PROVE  <<Nth(S, R, m), Nth(S, R, n)>> \in R <=> m < n
  <2>1. PICK i, k : i = Nth(S, R, m) /\ k = Nth(S, R, n)
    OBVIOUS
  <2>2. i \in S /\ k \in S /\ rank[i] = m - 1 /\ rank[k] = n - 1
    BY <1>7, <2>1
  <2>3. <<i, k>> \in R <=> rank[i] < rank[k]
    <3>1. <<i, k>> \in R => rank[i] < rank[k]
      BY <1>4, <2>2
    <3>2. i = k \/ <<i, k>> \in R \/ <<k, i>> \in R
      BY <2>2
    <3>3. <<k, i>> \in R => rank[k] < rank[i]
      BY <1>4, <2>2
    <3>4. rank[i] \in Int /\ rank[k] \in Int
      BY <1>2, <1>8, <2>2
    <3>5. QED BY <3>1, <3>2, <3>3, <3>4
  <2>4. QED BY <1>2, <2>1, <2>2, <2>3
<1>11. QED BY <1>1, <1>2, <1>7, <1>9, <1>10

\* A table that puts each element in its place, by priority, and equals in their order.
Sorting(p, segs, out) ==
    /\ p \in [1..Len(segs) -> 1..Len(segs)]
    /\ \A n \in 1..Len(segs) : out[n] = segs[p[n]]
    /\ \A i \in 1..Len(segs) : \E n \in 1..Len(segs) : p[n] = i
    /\ \A m, n \in 1..Len(segs) :
          m < n <=> \/ segs[p[m]].priority > segs[p[n]].priority
                    \/ segs[p[m]].priority = segs[p[n]].priority /\ p[m] < p[n]

\* Sorting by priority is such a permutation.
LEMMA SortedByPriority ==
    ASSUME NEW S, NEW segs \in Seq(S), \A s \in S : s.priority \in Nat
    PROVE  /\ ByPriority(segs) \in Seq(S) /\ Len(ByPriority(segs)) = Len(segs)
           /\ \E p : Sorting(p, segs, ByPriority(segs))
<1>1. PICK l, D, R : l = Len(segs) /\ D = 1..l /\ R = Precedence(segs)
  OBVIOUS
<1>2. /\ l \in Nat /\ DOMAIN segs = D
      /\ \A i \in D : segs[i] \in S /\ segs[i].priority \in Nat /\ i \in Int
  BY <1>1, LenProperties, ElementOfSeq
<1>3. ASSUME NEW i \in D, NEW j \in D
      PROVE  <<i, j>> \in R <=> \/ segs[i].priority > segs[j].priority
                                \/ segs[i].priority = segs[j].priority /\ i < j
  <2>1. R = {e \in D \X D : \/ segs[e[1]].priority > segs[e[2]].priority
                            \/ segs[e[1]].priority = segs[e[2]].priority /\ e[1] < e[2]}
    BY <1>1, <1>2 DEF Precedence
  <2>2. <<i, j>> \in D \X D /\ <<i, j>>[1] = i /\ <<i, j>>[2] = j
    OBVIOUS
  <2>3. QED BY <2>1, <2>2
<1>4. IsFiniteSet(D) /\ Cardinality(D) = l
  <2>1. 1 \in Int /\ l \in Int /\ (IF 1 > l THEN 0 ELSE l - 1 + 1) = l
    BY <1>2
  <2>2. IsFiniteSet(1..l) /\ Cardinality(1..l) = (IF 1 > l THEN 0 ELSE l - 1 + 1)
    BY <2>1, FS_Interval
  <2>3. QED BY <1>1, <2>1, <2>2
<1>5. \A i \in D : <<i, i>> \notin R
  BY <1>2, <1>3
<1>6. \A i, j, k \in D : <<i, j>> \in R /\ <<j, k>> \in R => <<i, k>> \in R
  <2> TAKE i, j, k \in D
  <2>1. /\ segs[i].priority \in Nat /\ segs[j].priority \in Nat /\ segs[k].priority \in Nat
        /\ i \in Int /\ j \in Int /\ k \in Int
    BY <1>2
  <2>2. QED BY <1>3, <2>1
<1>7. \A i, j \in D : i = j \/ <<i, j>> \in R \/ <<j, i>> \in R
  <2> TAKE i, j \in D
  <2>1. /\ segs[i].priority \in Nat /\ segs[j].priority \in Nat
        /\ i \in Int /\ j \in Int
    BY <1>2
  <2>2. QED BY <1>3, <2>1
<1>8. /\ \A n \in D : Nth(D, R, n) \in D
      /\ \A i \in D : \E n \in D : Nth(D, R, n) = i
      /\ \A m, n \in D : <<Nth(D, R, m), Nth(D, R, n)>> \in R <=> m < n
  <2>1. /\ \A n \in 1..Cardinality(D) : Nth(D, R, n) \in D
        /\ \A i \in D : \E n \in 1..Cardinality(D) : Nth(D, R, n) = i
        /\ \A m, n \in 1..Cardinality(D) : <<Nth(D, R, m), Nth(D, R, n)>> \in R <=> m < n
    BY <1>4, <1>5, <1>6, <1>7, PlacesInOrder
  <2>2. 1..Cardinality(D) = D
    BY <1>1, <1>4
  <2>3. QED BY <2>1, <2>2
<1>9. PICK p : p = [n \in D |-> Nth(D, R, n)]
  OBVIOUS
<1>10. /\ p \in [D -> D]
       /\ \A i \in D : \E n \in D : p[n] = i
       /\ \A m, n \in D : <<p[m], p[n]>> \in R <=> m < n
  BY <1>8, <1>9
<1>11. ByPriority(segs) = [n \in D |-> segs[p[n]]]
  BY <1>1, <1>2, <1>9 DEF ByPriority
<1>12. ByPriority(segs) \in [D -> S]
  BY <1>2, <1>10, <1>11
<1>13. ByPriority(segs) \in Seq(S) /\ Len(ByPriority(segs)) = l
  BY <1>1, <1>2, <1>12, SeqDef, LenProperties
<1>14. \A m, n \in D :
          m < n <=> \/ segs[p[m]].priority > segs[p[n]].priority
                    \/ segs[p[m]].priority = segs[p[n]].priority /\ p[m] < p[n]
  <2> TAKE m, n \in D
  <2>1. p[m] \in D /\ p[n] \in D
    BY <1>10
  <2>2. <<p[m], p[n]>> \in R <=> m < n
    BY <1>10
  <2>3. <<p[m], p[n]>> \in R <=> \/ segs[p[m]].priority > segs[p[n]].priority
                                 \/ segs[p[m]].priority = segs[p[n]].priority /\ p[m] < p[n]
    BY <1>3, <2>1, Zenon
  <2>4. QED BY <2>2, <2>3, Zenon
<1>15. \A n \in D : ByPriority(segs)[n] = segs[p[n]]
  BY <1>11
<1>16. D = 1..Len(segs) /\ l = Len(segs)
  BY <1>1
<1>17. Sorting(p, segs, ByPriority(segs))
  BY <1>10, <1>14, <1>15, <1>16, Zenon DEF Sorting
<1>18. QED BY <1>13, <1>16, <1>17, Zenon

-----------------------------------------------------------------------------
(* What retrieval makes.                                                   *)

\* A segment shows an element of the history, or is the summary.
SegmentsOf(msgs, acts) ==
    {s \in Segments :
        /\ s.source = "summary" => s.item = 0
        /\ s.source = "prior_action" => s.item \in DOMAIN acts
        /\ s.source \in MessageSources => s.item \in DOMAIN msgs}

\* A history within the bound.
Histories == {h \in Seq(Items) : Len(h) <= MaxHistory}

\* What is asked of an element of the history.
LEMMA ItemFields ==
    ASSUME NEW x \in Items
    PROVE  /\ x.len \in Nat \ {0} /\ x.time \in Nat /\ x.score \in Nat /\ x.match \in Nat
           /\ Rescored(x) \in Nat
<1>1. /\ x.len \in Nat \ {0} /\ x.time \in 0..99 /\ x.score \in 0..9 /\ x.match \in 0..9
      /\ Now \in Nat
  BY RetrievalAssumption
<1>2. /\ x.time \in Nat /\ x.score \in Nat /\ x.match \in Nat
  BY <1>1
<1>3. Recency(x.time) \in Nat
  BY <1>1 DEF Recency
<1>4. QED BY <1>1, <1>2, <1>3 DEF Rescored

\* Every band, and the likeness, is a priority.
LEMMA PrioritiesTyped ==
    /\ \A band \in Nat : Banded(band) \in [Items -> Nat] /\ \A x \in Items : Banded(band)[x] = band + x.time
    /\ Time \in [Items -> Nat] /\ \A x \in Items : Time[x] = x.time
    /\ Similarity \in [Items -> Nat] /\ \A x \in Items : Similarity[x] = 100 * x.score + x.time
<1>1. \A x \in Items : x.time \in Nat /\ x.score \in Nat
  BY ItemFields
<1>2. \A band \in Nat : Banded(band) \in [Items -> Nat] /\ \A x \in Items : Banded(band)[x] = band + x.time
  BY <1>1 DEF Banded
<1>3. Time \in [Items -> Nat] /\ \A x \in Items : Time[x] = x.time
  BY <1>1 DEF Banded, Time
<1>4. Similarity \in [Items -> Nat] /\ \A x \in Items : Similarity[x] = 100 * x.score + x.time
  BY <1>1 DEF Similarity
<1>5. QED BY <1>2, <1>3, <1>4

\* The list whose elements segments of a source show.
ListOf(source, msgs, acts) == IF source = "prior_action" THEN acts ELSE msgs

\* Those of a source that have the priority a table gives what they show.
Graded(source, prio, msgs, acts) ==
    {s \in SegmentsOf(msgs, acts) :
        s.source = source /\ s.priority = prio[ListOf(source, msgs, acts)[s.item]]}

\* A list of such segments that shows some elements.
Piece(segs, source, members, prio, msgs, acts) ==
    /\ segs \in Seq(Graded(source, prio, msgs, acts))
    /\ \A kinds : Shown(segs, kinds) = IF source \in kinds THEN members ELSE {}

\* A segment of an element that has the priority a table gives the element.
LEMMA SegmentTyped ==
    ASSUME NEW msgs \in Histories, NEW acts \in Histories, NEW prio \in [Items -> Nat],
           NEW source \in Sources \ {"summary"}, NEW list, list = ListOf(source, msgs, acts)
    PROVE  /\ DOMAIN list = 1..Len(list) /\ Len(list) \in Nat
           /\ \A i \in 1..Len(list) :
                 /\ Segment(source, list, i, prio[list[i]]) \in Graded(source, prio, msgs, acts)
                 /\ Segment(source, list, i, prio[list[i]]).source = source
                 /\ Segment(source, list, i, prio[list[i]]).item = i
<1>1. list \in Histories
  BY DEF ListOf
<1>2. /\ list \in Seq(Items) /\ Len(list) \in Nat /\ Len(list) <= MaxHistory
      /\ DOMAIN list = 1..Len(list) /\ MaxHistory \in Nat
  BY <1>1, LenProperties, BriefAssumption DEF Histories
<1>3. ASSUME NEW i \in 1..Len(list)
      PROVE  /\ Segment(source, list, i, prio[list[i]]) \in Graded(source, prio, msgs, acts)
             /\ Segment(source, list, i, prio[list[i]]).source = source
             /\ Segment(source, list, i, prio[list[i]]).item = i
  <2>1. PICK s : s = Segment(source, list, i, prio[list[i]])
    OBVIOUS
  <2>2. list[i] \in Items
    BY <1>2, ElementOfSeq
  <2>3. s = [source |-> source, item |-> i, len |-> list[i].len, priority |-> prio[list[i]]]
    BY <2>1 DEF Segment
  <2>4. list[i].len \in Nat \ {0} /\ prio[list[i]] \in Nat /\ i \in 0..MaxHistory
    BY <1>2, <2>2, ItemFields
  <2>5. s \in Segments
    BY <2>3, <2>4 DEF Segments
  <2>6. s.source = source /\ s.item = i /\ s.priority = prio[list[i]]
    BY <2>3
  <2>7. source = "prior_action" => i \in DOMAIN acts
    BY <1>2 DEF ListOf
  <2>8. source \in MessageSources => i \in DOMAIN msgs
    BY <1>2 DEF ListOf, MessageSources
  <2>9. s \in SegmentsOf(msgs, acts)
    BY <2>5, <2>6, <2>7, <2>8 DEF SegmentsOf
  <2>10. s \in Graded(source, prio, msgs, acts)
    BY <2>6, <2>9 DEF Graded
  <2>11. QED BY <2>1, <2>6, <2>10
<1>4. QED BY <1>2, <1>3

\* Segments that show some elements, each by one at least.
LEMMA PieceOfTable ==
    ASSUME NEW msgs, NEW acts, NEW prio, NEW source, NEW members,
           NEW segs \in Seq(Graded(source, prio, msgs, acts)),
           \A n \in 1..Len(segs) : segs[n].item \in members,
           \A i \in members : \E n \in 1..Len(segs) : segs[n].item = i
    PROVE  Piece(segs, source, members, prio, msgs, acts)
<1>1. DOMAIN segs = 1..Len(segs)
  BY LenProperties
<1>2. \A n \in 1..Len(segs) : segs[n].source = source
  <2>1. \A n \in 1..Len(segs) : segs[n] \in Graded(source, prio, msgs, acts)
    BY ElementOfSeq
  <2>2. QED BY <2>1 DEF Graded
<1>3. ASSUME NEW kinds
      PROVE  Shown(segs, kinds) = IF source \in kinds THEN members ELSE {}
  BY <1>1, <1>2 DEF Shown
<1>4. QED BY <1>1, <1>3 DEF Piece

\* The segments of a list, in its order.
LEMMA RenderedPiece ==
    ASSUME NEW msgs \in Histories, NEW acts \in Histories, NEW prio \in [Items -> Nat],
           NEW source \in Sources \ {"summary"}, NEW list, list = ListOf(source, msgs, acts)
    PROVE  /\ Piece(Rendered(source, list, prio), source, DOMAIN list, prio, msgs, acts)
           /\ Len(Rendered(source, list, prio)) = Len(list)
           /\ \A i \in 1..Len(list) : /\ Rendered(source, list, prio)[i].source = source
                                      /\ Rendered(source, list, prio)[i].item = i
<1>1. PICK l, r : l = Len(list) /\ r = Rendered(source, list, prio)
  OBVIOUS
<1>2. /\ l \in Nat /\ DOMAIN list = 1..l
      /\ \A i \in 1..l :
            /\ Segment(source, list, i, prio[list[i]]) \in Graded(source, prio, msgs, acts)
            /\ Segment(source, list, i, prio[list[i]]).source = source
            /\ Segment(source, list, i, prio[list[i]]).item = i
  BY <1>1, SegmentTyped
<1>3. r = [i \in 1..l |-> Segment(source, list, i, prio[list[i]])]
  BY <1>1, <1>2 DEF Rendered
<1>4. /\ r \in [1..l -> Graded(source, prio, msgs, acts)]
      /\ \A i \in 1..l : r[i].source = source /\ r[i].item = i
  BY <1>2, <1>3
<1>5. Piece(r, source, DOMAIN list, prio, msgs, acts) /\ Len(r) = l
  <2>1. r \in Seq(Graded(source, prio, msgs, acts)) /\ Len(r) = l
    BY <1>2, <1>4, SeqDef, LenProperties
  <2>2. /\ \A n \in 1..Len(r) : r[n].item \in DOMAIN list
        /\ \A i \in DOMAIN list : \E n \in 1..Len(r) : r[n].item = i
    BY <1>2, <1>4, <2>1
  <2>3. QED BY <2>1, <2>2, PieceOfTable
<1>6. QED BY <1>1, <1>4, <1>5

\* The segments of some of the messages, each once.
LEMMA TierPiece ==
    ASSUME NEW msgs \in Histories, NEW acts \in Histories, NEW prio \in [Items -> Nat],
           NEW source \in MessageSources, NEW members, members \subseteq DOMAIN msgs
    PROVE  /\ Piece(Tier(msgs, source, members, prio), source, members, prio, msgs, acts)
           /\ Len(Tier(msgs, source, members, prio)) = Cardinality(members)
           /\ IsFiniteSet(members) /\ Cardinality(members) \in Nat
<1>1. PICK l, c, R, T, f :
         /\ l = Len(msgs) /\ c = Cardinality(members) /\ R = Ascending(members)
         /\ T = Tier(msgs, source, members, prio) /\ f = [n \in 1..c |-> Nth(members, R, n)]
  OBVIOUS
<1>2. source \in Sources \ {"summary"} /\ msgs = ListOf(source, msgs, acts)
  BY DEF MessageSources, Sources, ListOf
<1>3. PICK all : all = Rendered(source, msgs, prio)
  OBVIOUS
<1>4. /\ l \in Nat /\ DOMAIN msgs = 1..l
      /\ \A i \in 1..l : all[i] \in Graded(source, prio, msgs, acts) /\ all[i].item = i
  <2>1. /\ Piece(all, source, DOMAIN msgs, prio, msgs, acts) /\ Len(all) = l
        /\ \A i \in 1..l : all[i].item = i
    BY <1>1, <1>2, <1>3, RenderedPiece
  <2>2. all \in Seq(Graded(source, prio, msgs, acts)) /\ l \in Nat /\ DOMAIN msgs = 1..l
    BY <1>1, <2>1, LenProperties DEF Piece, Histories
  <2>3. \A i \in 1..l : all[i] \in Graded(source, prio, msgs, acts)
    BY <2>1, <2>2, ElementOfSeq
  <2>4. QED BY <2>1, <2>2, <2>3
<1>5. IsFiniteSet(members) /\ \A i \in members : i \in 1..l /\ i \in Int
  <2>1. IsFiniteSet(1..l)
    BY <1>4, FS_Interval
  <2>2. QED BY <1>4, <2>1, FS_Subset
<1>6. \A i, j \in members : <<i, j>> \in R <=> i < j
  <2> TAKE i, j \in members
  <2>1. <<i, j>> \in members \X members /\ <<i, j>>[1] = i /\ <<i, j>>[2] = j
    OBVIOUS
  <2>2. QED BY <1>1, <2>1 DEF Ascending
<1>7. /\ c \in Nat
      /\ \A n \in 1..c : Nth(members, R, n) \in members
      /\ \A i \in members : \E n \in 1..c : Nth(members, R, n) = i
  <2>1. \A i \in members : <<i, i>> \notin R
    BY <1>5, <1>6
  <2>2. \A i, j, k \in members : <<i, j>> \in R /\ <<j, k>> \in R => <<i, k>> \in R
    <3> TAKE i, j, k \in members
    <3>1. /\ i \in Int /\ j \in Int /\ k \in Int
          /\ <<i, j>> \in R <=> i < j
          /\ <<j, k>> \in R <=> j < k
          /\ <<i, k>> \in R <=> i < k
      BY <1>5, <1>6
    <3>2. QED BY <3>1
  <2>3. \A i, j \in members : i = j \/ <<i, j>> \in R \/ <<j, i>> \in R
    <3> TAKE i, j \in members
    <3>1. /\ i \in Int /\ j \in Int
          /\ <<i, j>> \in R <=> i < j
          /\ <<j, i>> \in R <=> j < i
      BY <1>5, <1>6
    <3>2. QED BY <3>1
  <2>4. /\ Cardinality(members) \in Nat
        /\ \A n \in 1..Cardinality(members) : Nth(members, R, n) \in members
        /\ \A i \in members : \E n \in 1..Cardinality(members) : Nth(members, R, n) = i
    BY <1>5, <2>1, <2>2, <2>3, PlacesInOrder
  <2>5. QED BY <1>1, <2>4
<1>8. T = [n \in 1..c |-> all[Nth(members, R, n)]]
  BY <1>1, <1>3 DEF Tier
<1>9. \A n \in 1..c : f[n] = Nth(members, R, n) /\ T[n] = all[f[n]] /\ f[n] \in 1..l
  BY <1>1, <1>5, <1>7, <1>8
<1>10. /\ T \in [1..c -> Graded(source, prio, msgs, acts)]
       /\ \A n \in 1..c : T[n].item = f[n]
  BY <1>4, <1>8, <1>9
<1>11. /\ \A n \in 1..c : T[n].item \in members
       /\ \A i \in members : \E n \in 1..c : T[n].item = i
  BY <1>7, <1>9, <1>10
<1>12. Piece(T, source, members, prio, msgs, acts) /\ Len(T) = c
  <2>1. T \in Seq(Graded(source, prio, msgs, acts)) /\ Len(T) = c
    BY <1>7, <1>10, SeqDef, LenProperties
  <2>2. QED BY <1>11, <2>1, PieceOfTable
<1>13. QED BY <1>1, <1>5, <1>7, <1>12

-----------------------------------------------------------------------------
(* What lists of segments show.                                            *)

\* A part and what follows it.
LEMMA ConcatPlaces ==
    ASSUME NEW S, NEW a \in Seq(S), NEW b \in Seq(S)
    PROVE  /\ a \o b \in Seq(S) /\ Len(a \o b) = Len(a) + Len(b)
           /\ Len(a) \in Nat /\ Len(b) \in Nat
           /\ DOMAIN a = 1..Len(a) /\ DOMAIN b = 1..Len(b)
           /\ DOMAIN (a \o b) = 1..(Len(a) + Len(b))
           /\ \A i \in 1..Len(a) : i \in 1..(Len(a) + Len(b)) /\ (a \o b)[i] = a[i]
           /\ \A i \in 1..Len(b) : /\ Len(a) + i \in 1..(Len(a) + Len(b))
                                  /\ (a \o b)[Len(a) + i] = b[i]
           /\ \A i \in 1..(Len(a) + Len(b)) :
                 \/ i \in 1..Len(a)
                 \/ \E j \in 1..Len(b) : i = Len(a) + j
<1>1. PICK c, m, n : c = a \o b /\ m = Len(a) /\ n = Len(b)
  OBVIOUS
<1>2. m \in Nat /\ n \in Nat /\ DOMAIN a = 1..m /\ DOMAIN b = 1..n
  BY <1>1, LenProperties
<1>3. /\ c \in Seq(S) /\ Len(c) = m + n
      /\ \A i \in 1..(m + n) : c[i] = IF i <= m THEN a[i] ELSE b[i - m]
  BY <1>1, ConcatProperties
<1>4. DOMAIN c = 1..(m + n)
  BY <1>3, LenProperties
<1>5. \A i \in 1..m : i \in 1..(m + n) /\ c[i] = a[i]
  BY <1>2, <1>3
<1>6. \A i \in 1..n : m + i \in 1..(m + n) /\ ~(m + i <= m) /\ (m + i) - m = i
  BY <1>2
<1>7. \A i \in 1..n : c[m + i] = b[i]
  BY <1>3, <1>6
<1>8. ASSUME NEW i \in 1..(m + n), i \notin 1..m
      PROVE  \E j \in 1..n : i = m + j
  <2>1. i - m \in 1..n /\ i = m + (i - m)
    BY <1>2, <1>8
  <2>2. QED BY <2>1
<1>9. QED BY <1>1, <1>2, <1>3, <1>4, <1>5, <1>6, <1>7, <1>8

\* Lists one after the other show what both show.
LEMMA ConcatShows ==
    ASSUME NEW S, NEW a \in Seq(S), NEW b \in Seq(S), NEW kinds
    PROVE  Shown(a \o b, kinds) = Shown(a, kinds) \cup Shown(b, kinds)
<1>1. PICK c, m, n : c = a \o b /\ m = Len(a) /\ n = Len(b)
  OBVIOUS
<1>2. /\ DOMAIN a = 1..m /\ DOMAIN b = 1..n /\ DOMAIN c = 1..(m + n)
      /\ \A i \in 1..m : i \in 1..(m + n) /\ c[i] = a[i]
      /\ \A i \in 1..n : m + i \in 1..(m + n) /\ c[m + i] = b[i]
      /\ \A i \in 1..(m + n) : i \in 1..m \/ \E j \in 1..n : i = m + j
  BY <1>1, ConcatPlaces
<1>3. ASSUME NEW x \in Shown(c, kinds)
      PROVE  x \in Shown(a, kinds) \cup Shown(b, kinds)
  <2>1. PICK i \in 1..(m + n) : c[i].source \in kinds /\ x = c[i].item
    BY <1>2 DEF Shown
  <2>2. CASE i \in 1..m
    BY <1>2, <2>1, <2>2 DEF Shown
  <2>3. CASE \E j \in 1..n : i = m + j
    BY <1>2, <2>1, <2>3 DEF Shown
  <2>4. QED BY <1>2, <2>2, <2>3
<1>4. ASSUME NEW x \in Shown(a, kinds)
      PROVE  x \in Shown(c, kinds)
  BY <1>2 DEF Shown
<1>5. ASSUME NEW x \in Shown(b, kinds)
      PROVE  x \in Shown(c, kinds)
  <2>1. PICK i \in 1..n : b[i].source \in kinds /\ x = b[i].item
    BY <1>2 DEF Shown
  <2>2. m + i \in 1..(m + n) /\ c[m + i] = b[i]
    BY <1>2
  <2>3. QED BY <1>2, <2>1, <2>2 DEF Shown
<1>6. QED BY <1>1, <1>3, <1>4, <1>5

\* A list sorted shows what it showed, and its priorities do not rise.
LEMMA SortedList ==
    ASSUME NEW S, NEW segs \in Seq(S), \A s \in S : s.priority \in Nat
    PROVE  /\ ByPriority(segs) \in Seq(S) /\ Len(ByPriority(segs)) = Len(segs)
           /\ \A kinds : Shown(ByPriority(segs), kinds) = Shown(segs, kinds)
           /\ \A m, n \in 1..Len(segs) :
                 m < n => ByPriority(segs)[m].priority >= ByPriority(segs)[n].priority
<1>1. PICK l, t, N : l = Len(segs) /\ t = ByPriority(segs) /\ N = 1..l
  OBVIOUS
<1>2. t \in Seq(S) /\ Len(t) = l /\ \E p : Sorting(p, segs, t)
  BY <1>1, SortedByPriority
<1>0. PICK p : Sorting(p, segs, t)
  BY <1>2
<1>3. /\ p \in [N -> N]
      /\ \A n \in N : t[n] = segs[p[n]]
      /\ \A i \in N : \E n \in N : p[n] = i
      /\ \A m, n \in N :
            m < n <=> \/ segs[p[m]].priority > segs[p[n]].priority
                      \/ segs[p[m]].priority = segs[p[n]].priority /\ p[m] < p[n]
  <2>1. N = 1..Len(segs)
    BY <1>1
  <2>2. QED BY <1>0, <2>1 DEF Sorting
<1>4. DOMAIN segs = N /\ DOMAIN t = N
  BY <1>1, <1>2, LenProperties
<1>5. ASSUME NEW kinds
      PROVE  Shown(t, kinds) = Shown(segs, kinds)
  <2>1. ASSUME NEW x \in Shown(t, kinds)
        PROVE  x \in Shown(segs, kinds)
    <3>1. PICK n \in N : t[n].source \in kinds /\ x = t[n].item
      BY <1>4 DEF Shown
    <3>2. p[n] \in N /\ segs[p[n]].source \in kinds /\ x = segs[p[n]].item
      BY <1>3, <3>1
    <3>3. QED BY <1>4, <3>2 DEF Shown
  <2>2. ASSUME NEW x \in Shown(segs, kinds)
        PROVE  x \in Shown(t, kinds)
    <3>1. PICK i \in N : segs[i].source \in kinds /\ x = segs[i].item
      BY <1>4 DEF Shown
    <3>2. PICK n \in N : p[n] = i
      BY <1>3
    <3>3. t[n].source \in kinds /\ x = t[n].item
      BY <1>3, <3>1, <3>2
    <3>4. QED BY <1>4, <3>3 DEF Shown
  <2>3. QED BY <2>1, <2>2
<1>6. ASSUME NEW m \in N, NEW n \in N, m < n
      PROVE  t[m].priority >= t[n].priority
  <2>1. p[m] \in N /\ p[n] \in N /\ t[m] = segs[p[m]] /\ t[n] = segs[p[n]]
    BY <1>3
  <2>2. segs[p[m]].priority \in Nat /\ segs[p[n]].priority \in Nat
    <3>1. segs[p[m]] \in S /\ segs[p[n]] \in S
      BY <1>1, <2>1, ElementOfSeq
    <3>2. QED BY <3>1
  <2>3. segs[p[m]].priority > segs[p[n]].priority \/ segs[p[m]].priority = segs[p[n]].priority
    BY <1>3, <1>6
  <2>4. QED BY <2>1, <2>2, <2>3
<1>7. QED BY <1>1, <1>2, <1>5, <1>6

\* A list of some is a list of more.
LEMMA SeqOfMore ==
    ASSUME NEW S, NEW T, S \subseteq T, NEW s \in Seq(S)
    PROVE  s \in Seq(T)
<1>1. s \in [1..Len(s) -> S] /\ Len(s) \in Nat
  BY LenProperties
<1>2. s \in [1..Len(s) -> T]
  BY <1>1
<1>3. QED BY <1>1, <1>2, SeqDef

\* What a segment of an action shows, and its priority.
LEMMA GradedActions ==
    ASSUME NEW msgs \in Histories, NEW acts \in Histories, NEW prio \in [Items -> Nat],
           NEW s \in Graded("prior_action", prio, msgs, acts)
    PROVE  /\ s \in SegmentsOf(msgs, acts) /\ s.source = "prior_action"
           /\ s.item \in DOMAIN acts /\ acts[s.item] \in Items
           /\ s.priority = prio[acts[s.item]] /\ s.priority \in Nat
<1>1. s \in SegmentsOf(msgs, acts) /\ s.source = "prior_action" /\ s.priority = prio[acts[s.item]]
  BY DEF Graded, ListOf
<1>2. s.item \in DOMAIN acts
  BY <1>1 DEF SegmentsOf
<1>3. acts[s.item] \in Items
  BY <1>2, LenProperties, ElementOfSeq DEF Histories
<1>4. QED BY <1>1, <1>2, <1>3

\* The same of a message.
LEMMA GradedMessages ==
    ASSUME NEW msgs \in Histories, NEW acts \in Histories, NEW prio \in [Items -> Nat],
           NEW source \in MessageSources, NEW s \in Graded(source, prio, msgs, acts)
    PROVE  /\ s \in SegmentsOf(msgs, acts) /\ s.source = source
           /\ s.item \in DOMAIN msgs /\ msgs[s.item] \in Items
           /\ s.priority = prio[msgs[s.item]] /\ s.priority \in Nat
<1>1. s \in SegmentsOf(msgs, acts) /\ s.source = source /\ s.priority = prio[msgs[s.item]]
  BY DEF Graded, ListOf, MessageSources
<1>2. s.item \in DOMAIN msgs
  BY <1>1 DEF SegmentsOf
<1>3. msgs[s.item] \in Items
  BY <1>2, LenProperties, ElementOfSeq DEF Histories
<1>4. QED BY <1>1, <1>2, <1>3

-----------------------------------------------------------------------------
(* The strategies.                                                         *)

\* What HistoryKept says of a history and what was made of it.
KeepsHistory(by, msgs, acts, segs) ==
    /\ segs \in Seq(SegmentsOf(msgs, acts))
    /\ ShownOnce(msgs, acts, segs) /\ OldestUnshown(by, msgs, acts, segs)
    /\ ActionsInOrder(by, msgs, acts, segs) /\ MessagesInOrder(by, msgs, segs)

\* Without a summary, as many segments as elements, and all of them shown.
LEMMA AllShown ==
    ASSUME NEW msgs \in Histories, NEW acts \in Histories,
           NEW segs, Len(segs) = Len(msgs) + Len(acts),
           Shown(segs, {"prior_action"}) = DOMAIN acts,
           Shown(segs, MessageSources) = DOMAIN msgs,
           \A i \in DOMAIN segs : segs[i].source # "summary",
           NEW by
    PROVE  ShownOnce(msgs, acts, segs) /\ OldestUnshown(by, msgs, acts, segs)
<1>1. Unshown(msgs, segs) = {} /\ SummaryPlaces(segs) = {}
  BY DEF Unshown, SummaryPlaces
<1>2. Cardinality({}) = 0
  BY FS_EmptySet
<1>3. Len(msgs) \in Nat /\ Len(acts) \in Nat
  BY LenProperties DEF Histories
<1>4. Len(segs) = Len(msgs) + Len(acts) - Cardinality(Unshown(msgs, segs))
                     + Cardinality(SummaryPlaces(segs))
  BY <1>1, <1>2, <1>3
<1>5. QED BY <1>1, <1>4 DEF ShownOnce, OldestUnshown

\* An action and a message of the same priority stay in the order they were put in.
LEMMA RecencyKeeps ==
    ASSUME NEW msgs \in Histories, NEW acts \in Histories
    PROVE  KeepsHistory("recency", msgs, acts, RecencySegments(msgs, acts))
<1>1. PICK A, M, a, m, pre, out :
        /\ A = Graded("prior_action", Banded(ActionBoost), msgs, acts)
        /\ M = Graded("recent_message", Time, msgs, acts)
        /\ a = Rendered("prior_action", acts, Banded(ActionBoost))
        /\ m = Rendered("recent_message", msgs, Time)
        /\ pre = a \o m /\ out = ByPriority(pre)
  OBVIOUS
<1>2. out = RecencySegments(msgs, acts)
  BY <1>1 DEF RecencySegments
<1>3. /\ Banded(ActionBoost) \in [Items -> Nat] /\ \A x \in Items : Banded(ActionBoost)[x] = 1 + x.time
      /\ Time \in [Items -> Nat] /\ \A x \in Items : Time[x] = x.time
  BY PrioritiesTyped DEF ActionBoost
<1>4. /\ Piece(a, "prior_action", DOMAIN acts, Banded(ActionBoost), msgs, acts) /\ Len(a) = Len(acts)
      /\ Piece(m, "recent_message", DOMAIN msgs, Time, msgs, acts) /\ Len(m) = Len(msgs)
  <2>1. acts = ListOf("prior_action", msgs, acts) /\ msgs = ListOf("recent_message", msgs, acts)
    BY DEF ListOf
  <2>2. "prior_action" \in Sources \ {"summary"} /\ "recent_message" \in Sources \ {"summary"}
    BY DEF Sources
  <2>3. QED BY <1>1, <1>3, <2>1, <2>2, RenderedPiece
<1>5. /\ \A s \in A : /\ s \in SegmentsOf(msgs, acts) /\ s.source = "prior_action"
                      /\ s.item \in DOMAIN acts /\ acts[s.item].time \in Nat
                      /\ s.priority = 1 + acts[s.item].time /\ s.priority \in Nat
      /\ \A s \in M : /\ s \in SegmentsOf(msgs, acts) /\ s.source = "recent_message"
                      /\ s.item \in DOMAIN msgs /\ msgs[s.item].time \in Nat
                      /\ s.priority = msgs[s.item].time /\ s.priority \in Nat
  <2>1. "recent_message" \in MessageSources
    BY DEF MessageSources
  <2>2. ASSUME NEW s \in A
        PROVE  /\ s \in SegmentsOf(msgs, acts) /\ s.source = "prior_action"
               /\ s.item \in DOMAIN acts /\ acts[s.item].time \in Nat
               /\ s.priority = 1 + acts[s.item].time /\ s.priority \in Nat
    <3>1. /\ s \in SegmentsOf(msgs, acts) /\ s.source = "prior_action"
          /\ s.item \in DOMAIN acts /\ acts[s.item] \in Items
          /\ s.priority = Banded(ActionBoost)[acts[s.item]] /\ s.priority \in Nat
      BY <1>1, <1>3, GradedActions
    <3>2. QED BY <1>3, <3>1, ItemFields
  <2>3. ASSUME NEW s \in M
        PROVE  /\ s \in SegmentsOf(msgs, acts) /\ s.source = "recent_message"
               /\ s.item \in DOMAIN msgs /\ msgs[s.item].time \in Nat
               /\ s.priority = msgs[s.item].time /\ s.priority \in Nat
    <3>1. /\ s \in SegmentsOf(msgs, acts) /\ s.source = "recent_message"
          /\ s.item \in DOMAIN msgs /\ msgs[s.item] \in Items
          /\ s.priority = Time[msgs[s.item]] /\ s.priority \in Nat
      BY <1>1, <1>3, <2>1, GradedMessages
    <3>2. QED BY <1>3, <3>1, ItemFields
  <2>4. QED BY <2>2, <2>3
<1>6. /\ a \in Seq(A) /\ m \in Seq(M)
      /\ a \in Seq(A \cup M) /\ m \in Seq(A \cup M) /\ pre \in Seq(A \cup M)
  <2>1. a \in Seq(A) /\ m \in Seq(M)
    BY <1>1, <1>4 DEF Piece
  <2>2. a \in Seq(A \cup M) /\ m \in Seq(A \cup M)
    <3>1. A \subseteq A \cup M /\ M \subseteq A \cup M
      OBVIOUS
    <3>2. QED BY <2>1, <3>1, SeqOfMore
  <2>3. QED BY <1>1, <2>1, <2>2, ConcatPlaces
<1>7. PICK l : l = Len(pre)
  OBVIOUS
<1>8. l = Len(acts) + Len(msgs) /\ l \in Nat /\ Len(acts) \in Nat
  <2>1. Len(pre) = Len(a) + Len(m) /\ Len(a) \in Nat /\ Len(m) \in Nat
    BY <1>1, <1>6, ConcatPlaces
  <2>2. QED BY <1>4, <1>7, <2>1
<1>9. /\ out \in Seq(A \cup M) /\ Len(out) = l /\ DOMAIN out = 1..l
      /\ \A kinds : Shown(out, kinds) = Shown(pre, kinds)
      /\ \A i, j \in 1..l : i < j => out[i].priority >= out[j].priority
      /\ \A i \in 1..l : out[i] \in A \cup M
  <2>1. \A s \in A \cup M : s.priority \in Nat
    BY <1>5
  <2>2. /\ out \in Seq(A \cup M) /\ Len(out) = l
        /\ \A kinds : Shown(out, kinds) = Shown(pre, kinds)
        /\ \A i, j \in 1..l : i < j => out[i].priority >= out[j].priority
    BY <1>1, <1>6, <1>7, <2>1, SortedList
  <2>3. DOMAIN out = 1..l /\ \A i \in 1..l : out[i] \in A \cup M
    BY <2>2, LenProperties, ElementOfSeq
  <2>4. QED BY <2>2, <2>3
<1>10. /\ Shown(out, {"prior_action"}) = DOMAIN acts
       /\ Shown(out, MessageSources) = DOMAIN msgs
  <2>1. \A kinds : Shown(out, kinds) = Shown(a, kinds) \cup Shown(m, kinds)
    BY <1>1, <1>6, <1>9, ConcatShows
  <2>2. \A kinds : /\ Shown(m, kinds) = IF "recent_message" \in kinds THEN DOMAIN msgs ELSE {}
                   /\ Shown(a, kinds) = IF "prior_action" \in kinds THEN DOMAIN acts ELSE {}
    BY <1>4 DEF Piece
  <2>3. PICK K, L : K = {"prior_action"} /\ L = MessageSources
    OBVIOUS
  <2>4. /\ "recent_message" \notin K /\ "prior_action" \in K
        /\ "recent_message" \in L /\ "prior_action" \notin L
    BY <2>3 DEF MessageSources
  <2>5. Shown(m, K) = {} /\ Shown(a, K) = DOMAIN acts
    BY <2>2, <2>4
  <2>6. Shown(m, L) = DOMAIN msgs /\ Shown(a, L) = {}
    BY <2>2, <2>4
  <2>7. Shown(out, K) = DOMAIN acts /\ Shown(out, L) = DOMAIN msgs
    BY <2>1, <2>5, <2>6
  <2>8. QED BY <2>3, <2>7
<1>11. out \in Seq(SegmentsOf(msgs, acts))
  <2>1. A \cup M \subseteq SegmentsOf(msgs, acts)
    BY <1>5
  <2>2. QED BY <1>9, <2>1, SeqOfMore
<1>12. ShownOnce(msgs, acts, out) /\ OldestUnshown("recency", msgs, acts, out)
  <2>1. \A i \in DOMAIN out : out[i].source # "summary"
    BY <1>5, <1>9
  <2>2. Len(out) = Len(msgs) + Len(acts)
    BY <1>8, <1>9, LenProperties DEF Histories
  <2>3. QED BY <1>10, <2>1, <2>2, AllShown
<1>13. MessagesInOrder("recency", msgs, out)
  BY <1>5, <1>9 DEF MessagesInOrder, MessageSources
<1>14. ASSUME NEW i \in 1..l, NEW j \in 1..l, i < j,
              out[i].source \in MessageSources, out[j].source = "prior_action"
       PROVE  msgs[out[i].item].time > acts[out[j].item].time + ActionBoost
  <2>1. PICK p :
          /\ p \in [1..l -> 1..l]
          /\ \A n \in 1..l : out[n] = pre[p[n]]
          /\ \A k, n \in 1..l :
                k < n <=> \/ pre[p[k]].priority > pre[p[n]].priority
                          \/ pre[p[k]].priority = pre[p[n]].priority /\ p[k] < p[n]
    <3>1. \A s \in A \cup M : s.priority \in Nat
      BY <1>5
    <3>2. \E p : Sorting(p, pre, out)
      BY <1>1, <1>6, <3>1, SortedByPriority
    <3>3. QED BY <1>7, <3>2, Zenon DEF Sorting
  <2>2. out[i] \in M /\ out[j] \in A
    BY <1>5, <1>9, <1>14 DEF MessageSources
  <2>3. \A k \in 1..l : IF k <= Len(acts) THEN pre[k] \in A ELSE pre[k] \in M
    <3> TAKE k \in 1..l
    <3>1. /\ \A n \in 1..Len(a) : pre[n] = a[n] /\ a[n] \in A
          /\ \A n \in 1..Len(m) : pre[Len(a) + n] = m[n] /\ m[n] \in M
          /\ k \in 1..Len(a) \/ \E n \in 1..Len(m) : k = Len(a) + n
      <4>1. Len(pre) = Len(a) + Len(m)
        BY <1>1, <1>6, ConcatPlaces
      <4>2. /\ \A n \in 1..Len(a) : pre[n] = a[n]
            /\ \A n \in 1..Len(m) : pre[Len(a) + n] = m[n]
            /\ k \in 1..Len(a) \/ \E n \in 1..Len(m) : k = Len(a) + n
        <5>1. k \in 1..(Len(a) + Len(m))
          BY <1>7, <4>1
        <5>2. /\ \A n \in 1..Len(a) : (a \o m)[n] = a[n]
              /\ \A n \in 1..Len(m) : (a \o m)[Len(a) + n] = m[n]
              /\ \A n \in 1..(Len(a) + Len(m)) :
                    n \in 1..Len(a) \/ \E o \in 1..Len(m) : n = Len(a) + o
          BY <1>6, ConcatPlaces
        <5>3. QED BY <1>1, <5>1, <5>2
      <4>3. (\A n \in 1..Len(a) : a[n] \in A) /\ \A n \in 1..Len(m) : m[n] \in M
        BY <1>6, ElementOfSeq
      <4>4. QED BY <4>2, <4>3
    <3>2. Len(a) = Len(acts)
      BY <1>4
    <3>3. CASE k \in 1..Len(a)
      BY <1>8, <3>1, <3>2, <3>3
    <3>4. CASE \E n \in 1..Len(m) : k = Len(a) + n
      <4>1. PICK n \in 1..Len(m) : k = Len(a) + n
        BY <3>4
      <4>2. ~(k <= Len(acts)) /\ pre[k] \in M
        BY <1>8, <3>1, <3>2, <4>1
      <4>3. QED BY <4>2
    <3>5. QED BY <3>1, <3>3, <3>4
  <2>4. p[i] \in 1..l /\ p[j] \in 1..l /\ pre[p[i]] = out[i] /\ pre[p[j]] = out[j]
    BY <2>1
  <2>5. ~(p[i] < p[j])
    <3>1. p[j] <= Len(acts)
      BY <1>5, <2>2, <2>3, <2>4
    <3>2. ~(p[i] <= Len(acts))
      BY <1>5, <2>2, <2>3, <2>4
    <3>3. QED BY <1>8, <2>4, <3>1, <3>2
  <2>6. out[i].priority > out[j].priority
    BY <1>14, <2>1, <2>4, <2>5
  <2>7. QED BY <1>5, <2>2, <2>6 DEF ActionBoost
<1>15. ActionsInOrder("recency", msgs, acts, out)
  BY <1>9, <1>14 DEF ActionsInOrder
<1>16. QED BY <1>2, <1>11, <1>12, <1>13, <1>15 DEF KeepsHistory

\* Its segments are of the two sources, each element has one, and priorities are likeness.
LEMMA SemanticList ==
    ASSUME NEW msgs \in Histories, NEW acts \in Histories, NEW out, out = SemanticSegments(msgs, acts)
    PROVE  /\ out \in Seq(SegmentsOf(msgs, acts)) /\ Len(out) \in Nat /\ DOMAIN out = 1..Len(out)
           /\ Len(out) = Len(msgs) + Len(acts)
           /\ Shown(out, {"prior_action"}) = DOMAIN acts
           /\ Shown(out, MessageSources) = DOMAIN msgs
           /\ \A i \in 1..Len(out) :
                 \/ out[i] \in Graded("semantic_match", Similarity, msgs, acts)
                 \/ out[i] \in Graded("prior_action", Similarity, msgs, acts)
           /\ \A i, j \in 1..Len(out) : i < j => out[i].priority >= out[j].priority
<1>1. PICK A, M, a, m, pre :
        /\ A = Graded("prior_action", Similarity, msgs, acts)
        /\ M = Graded("semantic_match", Similarity, msgs, acts)
        /\ a = Rendered("prior_action", acts, Similarity)
        /\ m = Rendered("semantic_match", msgs, Similarity)
        /\ pre = m \o a
  OBVIOUS
<1>2. out = ByPriority(pre)
  BY <1>1 DEF SemanticSegments
<1>3. Similarity \in [Items -> Nat]
  BY PrioritiesTyped
<1>4. /\ Piece(a, "prior_action", DOMAIN acts, Similarity, msgs, acts) /\ Len(a) = Len(acts)
      /\ Piece(m, "semantic_match", DOMAIN msgs, Similarity, msgs, acts) /\ Len(m) = Len(msgs)
  <2>1. acts = ListOf("prior_action", msgs, acts) /\ msgs = ListOf("semantic_match", msgs, acts)
    BY DEF ListOf
  <2>2. "prior_action" \in Sources \ {"summary"} /\ "semantic_match" \in Sources \ {"summary"}
    BY DEF Sources
  <2>3. QED BY <1>1, <1>3, <2>1, <2>2, RenderedPiece
<1>5. PICK S : S = A \cup M
  OBVIOUS
<1>6. \A s \in S : s \in SegmentsOf(msgs, acts) /\ s.priority \in Nat
  <2>1. \A s \in A : s \in SegmentsOf(msgs, acts) /\ s.priority \in Nat
    BY <1>1, <1>3, GradedActions
  <2>2. \A s \in M : s \in SegmentsOf(msgs, acts) /\ s.priority \in Nat
    <3>1. "semantic_match" \in MessageSources
      BY DEF MessageSources
    <3>2. QED BY <1>1, <1>3, <3>1, GradedMessages
  <2>3. QED BY <1>5, <2>1, <2>2
<1>7. a \in Seq(S) /\ m \in Seq(S) /\ pre \in Seq(S) /\ Len(pre) = Len(m) + Len(a)
  <2>1. a \in Seq(A) /\ m \in Seq(M)
    BY <1>1, <1>4 DEF Piece
  <2>2. a \in Seq(S) /\ m \in Seq(S)
    <3>1. A \subseteq S /\ M \subseteq S
      BY <1>5
    <3>2. QED BY <2>1, <3>1, SeqOfMore
  <2>3. QED BY <1>1, <2>2, ConcatPlaces
<1>8. /\ out \in Seq(S) /\ Len(out) = Len(pre)
      /\ \A kinds : Shown(out, kinds) = Shown(pre, kinds)
      /\ \A i, j \in 1..Len(pre) : i < j => out[i].priority >= out[j].priority
  BY <1>2, <1>6, <1>7, SortedList
<1>9. /\ Len(out) \in Nat /\ DOMAIN out = 1..Len(out)
      /\ \A i \in 1..Len(out) : out[i] \in S
  BY <1>8, LenProperties, ElementOfSeq
<1>10. /\ Shown(out, {"prior_action"}) = DOMAIN acts
       /\ Shown(out, MessageSources) = DOMAIN msgs
  <2>1. \A kinds : Shown(out, kinds) = Shown(m, kinds) \cup Shown(a, kinds)
    BY <1>1, <1>7, <1>8, ConcatShows
  <2>2. \A kinds : /\ Shown(m, kinds) = IF "semantic_match" \in kinds THEN DOMAIN msgs ELSE {}
                   /\ Shown(a, kinds) = IF "prior_action" \in kinds THEN DOMAIN acts ELSE {}
    BY <1>4 DEF Piece
  <2>3. PICK K, L : K = {"prior_action"} /\ L = MessageSources
    OBVIOUS
  <2>4. /\ "semantic_match" \notin K /\ "prior_action" \in K
        /\ "semantic_match" \in L /\ "prior_action" \notin L
    BY <2>3 DEF MessageSources
  <2>5. Shown(m, K) = {} /\ Shown(a, K) = DOMAIN acts
    BY <2>2, <2>4
  <2>6. Shown(m, L) = DOMAIN msgs /\ Shown(a, L) = {}
    BY <2>2, <2>4
  <2>7. Shown(out, K) = DOMAIN acts /\ Shown(out, L) = DOMAIN msgs
    BY <2>1, <2>5, <2>6
  <2>8. QED BY <2>3, <2>7
<1>11. out \in Seq(SegmentsOf(msgs, acts))
  <2>1. S \subseteq SegmentsOf(msgs, acts)
    BY <1>6
  <2>2. QED BY <1>8, <2>1, SeqOfMore
<1>12. Len(out) = Len(msgs) + Len(acts)
  BY <1>4, <1>7, <1>8
<1>13. \A i, j \in 1..Len(out) : i < j => out[i].priority >= out[j].priority
  <2>1. PICK l : l = Len(pre)
    OBVIOUS
  <2>2. Len(out) = l /\ \A i, j \in 1..l : i < j => out[i].priority >= out[j].priority
    BY <1>8, <2>1
  <2>3. QED BY <2>2
<1>14. \A i \in 1..Len(out) : out[i] \in M \/ out[i] \in A
  BY <1>5, <1>9
<1>15. QED BY <1>1, <1>9, <1>10, <1>11, <1>12, <1>13, <1>14

\* The newer of equals has the higher likeness, since times stay below a unit of it.
LEMMA SemanticKeeps ==
    ASSUME NEW msgs \in Histories, NEW acts \in Histories
    PROVE  KeepsHistory("semantic", msgs, acts, SemanticSegments(msgs, acts))
<1>1. PICK out, l : out = SemanticSegments(msgs, acts) /\ l = Len(out)
  OBVIOUS
<1>2. /\ out \in Seq(SegmentsOf(msgs, acts)) /\ l \in Nat /\ DOMAIN out = 1..l
      /\ l = Len(msgs) + Len(acts)
      /\ Shown(out, {"prior_action"}) = DOMAIN acts
      /\ Shown(out, MessageSources) = DOMAIN msgs
      /\ \A i \in 1..l : \/ out[i] \in Graded("semantic_match", Similarity, msgs, acts)
                         \/ out[i] \in Graded("prior_action", Similarity, msgs, acts)
      /\ \A i, j \in 1..l : i < j => out[i].priority >= out[j].priority
  BY <1>1, SemanticList
<1>3. \A i \in 1..l : out[i].source = "semantic_match" \/ out[i].source = "prior_action"
  BY <1>2 DEF Graded
<1>4. ShownOnce(msgs, acts, out) /\ OldestUnshown("semantic", msgs, acts, out)
  <2>1. \A i \in DOMAIN out : out[i].source # "summary"
    BY <1>2, <1>3
  <2>2. QED BY <1>1, <1>2, <2>1, AllShown
<1>5. ActionsInOrder("semantic", msgs, acts, out)
  BY DEF ActionsInOrder
<1>6. ASSUME NEW i \in 1..l, out[i].source \in MessageSources
      PROVE  LET x == msgs[out[i].item]
             IN  /\ out[i].source = "semantic_match"
                 /\ x.time \in 0..99 /\ x.score \in 0..9
                 /\ out[i].priority = 100 * x.score + x.time
  <2>1. "semantic_match" \in MessageSources /\ Similarity \in [Items -> Nat]
    BY PrioritiesTyped DEF MessageSources
  <2>2. out[i] \in Graded("semantic_match", Similarity, msgs, acts)
    BY <1>2, <1>6 DEF Graded, MessageSources
  <2>3. PICK x : x = msgs[out[i].item]
    OBVIOUS
  <2>4. x \in Items /\ out[i].source = "semantic_match" /\ out[i].priority = Similarity[x]
    BY <2>1, <2>2, <2>3, GradedMessages
  <2>5. out[i].priority = 100 * x.score + x.time
    BY <2>4, PrioritiesTyped
  <2>6. x.time \in 0..99 /\ x.score \in 0..9
    BY <2>4, RetrievalAssumption
  <2>7. QED BY <2>3, <2>4, <2>5, <2>6
<1>7. ASSUME NEW i \in 1..l, NEW j \in 1..l, i < j,
             out[i].source \in MessageSources, out[j].source \in MessageSources
      PROVE  /\ \/ msgs[out[i].item].time >= msgs[out[j].item].time
                \/ /\ msgs[out[i].item].score > msgs[out[j].item].score
                   /\ out[i].source = "semantic_match"
             /\ out[j].source # "recent_message"
  <2>1. PICK x, y : x = msgs[out[i].item] /\ y = msgs[out[j].item]
    OBVIOUS
  <2>2. /\ out[i].source = "semantic_match" /\ x.time \in 0..99 /\ x.score \in 0..9
        /\ out[i].priority = 100 * x.score + x.time
    BY <1>6, <1>7, <2>1
  <2>3. /\ out[j].source = "semantic_match" /\ y.time \in 0..99 /\ y.score \in 0..9
        /\ out[j].priority = 100 * y.score + y.time
    BY <1>6, <1>7, <2>1
  <2>4. 100 * x.score + x.time >= 100 * y.score + y.time
    BY <1>2, <1>7, <2>2, <2>3
  <2>5. x.time >= y.time \/ x.score > y.score
    <3>1. PICK a, b, c, d : a = x.score /\ b = x.time /\ c = y.score /\ d = y.time
      OBVIOUS
    <3>2. a \in Int /\ b \in 0..99 /\ c \in Int /\ d \in 0..99 /\ 100 * a + b >= 100 * c + d
      BY <2>2, <2>3, <2>4, <3>1
    <3>3. b >= d \/ a > c
      BY <3>2
    <3>4. QED BY <3>1, <3>3
  <2>6. QED BY <2>1, <2>2, <2>3, <2>5
<1>8. MessagesInOrder("semantic", msgs, out)
  BY <1>2, <1>7 DEF MessagesInOrder
<1>9. QED BY <1>1, <1>2, <1>4, <1>5, <1>8 DEF KeepsHistory

\* Scored anew and sorted, the first segments show what they showed; the rest stays.
LEMMA RerankKeeps ==
    ASSUME NEW msgs \in Histories, NEW acts \in Histories
    PROVE  /\ KeepsHistory("rerank", msgs, acts, RerankSegments(msgs, acts))
           /\ KeepsHistory("rerank", msgs, acts, SemanticSegments(msgs, acts))
<1>0. PICK segs, l : segs = SemanticSegments(msgs, acts) /\ l = Len(segs)
  OBVIOUS
<1>2. /\ segs \in Seq(SegmentsOf(msgs, acts)) /\ l \in Nat /\ DOMAIN segs = 1..l
      /\ l = Len(msgs) + Len(acts)
      /\ Shown(segs, {"prior_action"}) = DOMAIN acts
      /\ Shown(segs, MessageSources) = DOMAIN msgs
      /\ \A i \in 1..l : \/ segs[i] \in Graded("semantic_match", Similarity, msgs, acts)
                         \/ segs[i] \in Graded("prior_action", Similarity, msgs, acts)
  BY <1>0, SemanticList
<1>1. PICK k : k = IF l < TopK THEN l ELSE TopK
  OBVIOUS
<1>3. k \in Nat /\ k <= l
  BY <1>1, <1>2, RetrievalAssumption
<1>4. PICK S : S = {s \in SegmentsOf(msgs, acts) : s.source \in {"semantic_match", "prior_action"}}
  OBVIOUS
<1>5. \A i \in 1..l : segs[i] \in S
  <2>1. \A i \in 1..l : segs[i] \in SegmentsOf(msgs, acts)
    BY <1>0, <1>2, ElementOfSeq
  <2>2. QED BY <1>2, <1>4, <2>1 DEF Graded
<1>6. \A s \in S : s \in Segments /\ s.priority \in Nat /\ s.source # "summary"
  BY <1>4 DEF SegmentsOf, Segments
<1>7. ASSUME NEW by \in {"rerank"}, NEW out \in Seq(S), Len(out) = l,
             \A kinds : Shown(out, kinds) = Shown(segs, kinds)
      PROVE  KeepsHistory(by, msgs, acts, out)
  <2>1. DOMAIN out = 1..l /\ \A i \in 1..l : out[i] \in S
    BY <1>7, LenProperties, ElementOfSeq
  <2>2. ShownOnce(msgs, acts, out) /\ OldestUnshown(by, msgs, acts, out)
    <3>1. \A i \in DOMAIN out : out[i].source # "summary"
      BY <1>6, <2>1
    <3>2. QED BY <1>2, <1>7, <3>1, AllShown
  <2>3. ActionsInOrder(by, msgs, acts, out)
    BY DEF ActionsInOrder
  <2>4. \A i \in 1..l : out[i].source # "recent_message"
    BY <1>4, <2>1
  <2>5. MessagesInOrder(by, msgs, out)
    BY <2>1, <2>4 DEF MessagesInOrder
  <2>6. out \in Seq(SegmentsOf(msgs, acts))
    <3>1. S \subseteq SegmentsOf(msgs, acts)
      BY <1>4
    <3>2. QED BY <1>7, <3>1, SeqOfMore
  <2>7. QED BY <2>2, <2>3, <2>5, <2>6 DEF KeepsHistory
<1>8. PICK itemOf, head, tail, out :
        /\ itemOf = [s \in S |-> IF s.source = "prior_action" THEN acts[s.item] ELSE msgs[s.item]]
        /\ head = [i \in 1..k |-> [segs[i] EXCEPT !.priority = Rescored(itemOf[segs[i]])]]
        /\ tail = SubSeq(segs, k + 1, l)
        /\ out = ByPriority(head) \o tail
  OBVIOUS
<1>9. out = RerankSegments(msgs, acts)
  <2>1. \A i \in 1..k : itemOf[segs[i]] = IF segs[i].source = "prior_action"
                                          THEN acts[segs[i].item] ELSE msgs[segs[i].item]
    <3>1. TAKE i \in 1..k
    <3>2. segs[i] \in S
      BY <1>2, <1>3, <1>5
    <3>3. QED BY <1>8, <3>2
  <2>2. head = [i \in 1..k |-> [segs[i] EXCEPT !.priority =
                   Rescored(IF segs[i].source = "prior_action"
                            THEN acts[segs[i].item] ELSE msgs[segs[i].item])]]
    BY <1>8, <2>1
  <2>3. QED BY <1>0, <1>1, <1>8, <2>2 DEF RerankSegments
<1>10. ASSUME NEW i \in 1..k
       PROVE  /\ head[i] \in S
              /\ head[i].source = segs[i].source /\ head[i].item = segs[i].item
  <2>1. segs[i] \in S /\ i \in 1..l
    BY <1>2, <1>3, <1>5
  <2>2. itemOf[segs[i]] \in Items
    <3>1. \/ segs[i].source = "prior_action" /\ segs[i].item \in DOMAIN acts
          \/ segs[i].source # "prior_action" /\ segs[i].item \in DOMAIN msgs
      BY <1>4, <2>1 DEF SegmentsOf, MessageSources
    <3>2. \/ segs[i].source = "prior_action" /\ acts[segs[i].item] \in Items
          \/ segs[i].source # "prior_action" /\ msgs[segs[i].item] \in Items
      BY <3>1, LenProperties, ElementOfSeq DEF Histories
    <3>3. QED BY <1>8, <2>1, <3>2
  <2>3. PICK r : r = Rescored(itemOf[segs[i]])
    OBVIOUS
  <2>4. r \in Nat
    BY <2>2, <2>3, ItemFields
  <2>5. head[i] = [segs[i] EXCEPT !.priority = r]
    BY <1>8, <2>3
  <2>6. /\ head[i] \in Segments
        /\ head[i].source = segs[i].source /\ head[i].item = segs[i].item
    BY <1>6, <2>1, <2>4, <2>5 DEF Segments
  <2>7. head[i] \in S
    BY <1>4, <2>1, <2>6 DEF SegmentsOf
  <2>8. QED BY <2>6, <2>7
<1>11. head \in Seq(S) /\ Len(head) = k /\ DOMAIN head = 1..k
  <2>1. head \in [1..k -> S]
    BY <1>8, <1>10
  <2>2. QED BY <1>3, <2>1, SeqDef, LenProperties
<1>12. /\ tail \in Seq(S) /\ Len(tail) = l - k /\ DOMAIN tail = 1..(l - k)
       /\ \A i \in 1..(l - k) : tail[i] = segs[k + i] /\ k + i \in 1..l
  <2>1. segs \in Seq(S) /\ Len(segs) = l
    <3>1. segs \in [1..l -> S]
      BY <1>0, <1>2, <1>5, LenProperties
    <3>2. QED BY <1>0, <1>2, <3>1, SeqDef
  <2>2. /\ SubSeq(segs, k + 1, l) \in Seq(S)
        /\ Len(SubSeq(segs, k + 1, l)) = IF k + 1 <= l THEN l - (k + 1) + 1 ELSE 0
        /\ \A i \in 1..(l - (k + 1) + 1) : SubSeq(segs, k + 1, l)[i] = segs[(k + 1) + i - 1]
    <3>1. k + 1 \in 1..(l + 1) /\ l \in (k + 1 - 1)..l
      BY <1>2, <1>3
    <3>2. QED BY <2>1, <3>1, SubSeqProperties
  <2>3. tail \in Seq(S) /\ Len(tail) = l - k
    BY <1>2, <1>3, <1>8, <2>2, SMTT(20)
  <2>4. \A i \in 1..(l - k) : /\ i \in 1..(l - (k + 1) + 1) /\ (k + 1) + i - 1 = k + i
                              /\ k + i \in 1..l
    BY <1>2, <1>3
  <2>5. QED BY <1>8, <2>2, <2>3, <2>4, LenProperties
<1>13. /\ ByPriority(head) \in Seq(S) /\ Len(ByPriority(head)) = k
       /\ \A kinds : Shown(ByPriority(head), kinds) = Shown(head, kinds)
  <2>1. \A s \in S : s.priority \in Nat
    BY <1>6
  <2>2. QED BY <1>11, <2>1, SortedList
<1>14. out \in Seq(S) /\ Len(out) = l
  <2>1. out \in Seq(S) /\ Len(out) = k + (l - k)
    <3>1. PICK sorted : sorted = ByPriority(head)
      OBVIOUS
    <3>2. sorted \in Seq(S) /\ Len(sorted) = k
      BY <1>13, <3>1
    <3>3. tail \in Seq(S) /\ Len(tail) = l - k
      BY <1>12
    <3>4. sorted \o tail \in Seq(S) /\ Len(sorted \o tail) = Len(sorted) + Len(tail)
      BY <3>2, <3>3, ConcatPlaces
    <3>5. QED BY <1>8, <3>1, <3>2, <3>3, <3>4
  <2>2. QED BY <1>2, <1>3, <2>1
<1>15. ASSUME NEW kinds
       PROVE  Shown(out, kinds) = Shown(segs, kinds)
  <2>1. Shown(out, kinds) = Shown(head, kinds) \cup Shown(tail, kinds)
    <3>1. Shown(ByPriority(head) \o tail, kinds) = Shown(ByPriority(head), kinds) \cup Shown(tail, kinds)
      BY <1>12, <1>13, ConcatShows
    <3>2. QED BY <1>8, <1>13, <3>1
  <2>2. ASSUME NEW x \in Shown(head, kinds) \cup Shown(tail, kinds)
        PROVE  x \in Shown(segs, kinds)
    <3>1. \A i \in 1..k : i \in 1..l
      BY <1>2, <1>3
    <3>2. CASE x \in Shown(head, kinds)
      BY <1>2, <1>10, <1>11, <3>1, <3>2 DEF Shown
    <3>3. CASE x \in Shown(tail, kinds)
      BY <1>2, <1>12, <3>3 DEF Shown
    <3>4. QED BY <2>2, <3>2, <3>3
  <2>3. ASSUME NEW x \in Shown(segs, kinds)
        PROVE  x \in Shown(head, kinds) \cup Shown(tail, kinds)
    <3>1. PICK i \in 1..l : segs[i].source \in kinds /\ x = segs[i].item
      BY <1>2 DEF Shown
    <3>2. CASE i \in 1..k
      BY <1>10, <1>11, <3>1, <3>2 DEF Shown
    <3>3. CASE i \notin 1..k
      <4>1. PICK j : j = i - k
        OBVIOUS
      <4>2. j \in 1..(l - k) /\ k + j = i
        BY <1>2, <1>3, <3>3, <4>1
      <4>3. QED BY <1>12, <3>1, <4>2 DEF Shown
    <3>4. QED BY <3>2, <3>3
  <2>4. QED BY <2>1, <2>2, <2>3
<1>16. segs \in Seq(S)
  <2>1. segs \in [1..l -> S]
    BY <1>0, <1>2, <1>5, LenProperties
  <2>2. QED BY <1>2, <2>1, SeqDef
<1>17. KeepsHistory("rerank", msgs, acts, out)
  BY <1>7, <1>14, <1>15
<1>18. KeepsHistory("rerank", msgs, acts, segs)
  BY <1>0, <1>7, <1>16
<1>19. QED BY <1>0, <1>9, <1>17, <1>18

\* A summary, if there is one, is put before all else.
SummaryThen(R, rest, out, cold, msgs, acts) ==
    /\ out \in Seq(SegmentsOf(msgs, acts)) /\ DOMAIN out = 1..Len(out)
    /\ Len(out) = Len(rest) + Cardinality(SummaryPlaces(out))
    /\ Cardinality(SummaryPlaces(out)) \in Nat
    /\ SummaryPlaces(out) \subseteq {1}
    /\ SummaryPlaces(out) # {} => cold # <<>>
    /\ \A kinds : "summary" \notin kinds => Shown(out, kinds) = Shown(rest, kinds)
    /\ \A i \in 1..Len(out) : out[i] \in R \/ out[i].source = "summary"
    /\ \A i, j \in 1..Len(out) : i < j => out[i].priority >= out[j].priority

\* The summary has the highest band, so it comes first, and the rest follows in its order.
LEMMA SummaryFirst ==
    ASSUME NEW msgs \in Histories, NEW acts \in Histories, NEW cold, NEW n \in SummaryLengths,
           NEW R, NEW rest \in Seq(R),
           \A s \in R : /\ s \in SegmentsOf(msgs, acts) /\ s.source # "summary"
                        /\ s.priority \in Nat /\ s.priority < SummaryBand,
           NEW out, out = ByPriority(SummaryOf(cold, n) \o rest)
    PROVE  SummaryThen(R, rest, out, cold, msgs, acts)
<1>1. PICK sm, pre, l, sum, S :
        /\ sm = SummaryOf(cold, n) /\ pre = sm \o rest /\ l = Len(pre)
        /\ sum = [source |-> "summary", item |-> 0, len |-> n, priority |-> SummaryBand]
        /\ S = R \cup {s \in {sum} : n # 0}
  OBVIOUS
<1>2. n \in Nat /\ MaxHistory \in Nat
  BY RetrievalAssumption, BriefAssumption
<1>3. /\ \A s \in S : s \in SegmentsOf(msgs, acts) /\ s.priority \in Nat
      /\ sum.source = "summary" /\ sum.priority = SummaryBand /\ SummaryBand \in Nat
  <2>1. /\ sum.source = "summary" /\ sum.item = 0 /\ sum.priority = SummaryBand
        /\ SummaryBand \in Nat
    BY <1>1 DEF SummaryBand
  <2>2. n # 0 => sum \in Segments
    BY <1>1, <1>2 DEF Segments, Sources, SummaryBand
  <2>3. n # 0 => sum \in SegmentsOf(msgs, acts)
    BY <2>1, <2>2 DEF SegmentsOf, MessageSources
  <2>4. \A s \in S : s \in SegmentsOf(msgs, acts) /\ s.priority \in Nat
    BY <1>1, <2>1, <2>3
  <2>5. QED BY <2>1, <2>4
<1>4. /\ sm \in Seq(S)
      /\ \/ sm = <<>>
         \/ sm = <<sum>> /\ cold # <<>> /\ n # 0
  <2>1. CASE cold = <<>> \/ n = 0
    <3>1. sm = <<>>
      BY <1>1, <2>1 DEF SummaryOf
    <3>2. QED BY <3>1
  <2>2. CASE cold # <<>> /\ n # 0
    <3>1. sm = <<sum>> /\ sum \in S
      BY <1>1, <2>2 DEF SummaryOf
    <3>2. QED BY <2>2, <3>1
  <2>3. QED BY <2>1, <2>2
<1>5. rest \in Seq(S)
  <2>1. R \subseteq S
    BY <1>1
  <2>2. QED BY <2>1, SeqOfMore
<1>6. /\ pre \in Seq(S) /\ l = Len(sm) + Len(rest) /\ l \in Nat
      /\ Len(sm) \in Nat /\ Len(rest) \in Nat
      /\ \A i \in 1..Len(sm) : i \in 1..l /\ pre[i] = sm[i]
      /\ \A i \in 1..l : i \in 1..Len(sm) \/ pre[i] \in R
  <2>1. /\ pre \in Seq(S) /\ l = Len(sm) + Len(rest)
        /\ Len(sm) \in Nat /\ Len(rest) \in Nat
    <3>1. /\ sm \o rest \in Seq(S) /\ Len(sm \o rest) = Len(sm) + Len(rest)
          /\ Len(sm) \in Nat /\ Len(rest) \in Nat
      BY <1>4, <1>5, ConcatPlaces
    <3>2. QED BY <1>1, <3>1
  <2>2. /\ \A i \in 1..Len(sm) : i \in 1..(Len(sm) + Len(rest)) /\ (sm \o rest)[i] = sm[i]
        /\ \A i \in 1..Len(rest) : (sm \o rest)[Len(sm) + i] = rest[i]
        /\ \A i \in 1..(Len(sm) + Len(rest)) :
              i \in 1..Len(sm) \/ \E j \in 1..Len(rest) : i = Len(sm) + j
    BY <1>4, <1>5, ConcatPlaces
  <2>3. \A i \in 1..Len(rest) : rest[i] \in R
    BY ElementOfSeq
  <2>4. \A i \in 1..Len(sm) : i \in 1..l /\ pre[i] = sm[i]
    BY <1>1, <2>1, <2>2
  <2>5. \A i \in 1..l : i \in 1..Len(sm) \/ pre[i] \in R
    BY <1>1, <2>1, <2>2, <2>3
  <2>6. QED BY <2>1, <2>4, <2>5
<1>7. /\ out \in Seq(S) /\ Len(out) = l
      /\ \A kinds : Shown(out, kinds) = Shown(pre, kinds)
      /\ \A i, j \in 1..l : i < j => out[i].priority >= out[j].priority
      /\ \E p : Sorting(p, pre, out)
  <2>1. \A s \in S : s.priority \in Nat
    BY <1>3
  <2>2. out = ByPriority(pre)
    BY <1>1
  <2>3. /\ out \in Seq(S) /\ Len(out) = l
        /\ \A kinds : Shown(out, kinds) = Shown(pre, kinds)
        /\ \A i, j \in 1..l : i < j => out[i].priority >= out[j].priority
    <3>1. /\ ByPriority(pre) \in Seq(S) /\ Len(ByPriority(pre)) = Len(pre)
          /\ \A kinds : Shown(ByPriority(pre), kinds) = Shown(pre, kinds)
          /\ \A i, j \in 1..Len(pre) :
                i < j => ByPriority(pre)[i].priority >= ByPriority(pre)[j].priority
      BY <1>6, <2>1, SortedList
    <3>2. l = Len(pre)
      BY <1>1
    <3>3. QED BY <2>2, <3>1, <3>2
  <2>4. \E p : Sorting(p, pre, out)
    BY <1>6, <2>1, <2>2, SortedByPriority
  <2>5. QED BY <2>3, <2>4
<1>8. PICK p : Sorting(p, pre, out)
  BY <1>7
<1>9. /\ p \in [1..l -> 1..l]
      /\ \A i \in 1..l : out[i] = pre[p[i]]
      /\ \A i \in 1..l : \E j \in 1..l : p[j] = i
      /\ \A i, j \in 1..l :
            i < j <=> \/ pre[p[i]].priority > pre[p[j]].priority
                      \/ pre[p[i]].priority = pre[p[j]].priority /\ p[i] < p[j]
  <2>1. Len(pre) = l
    BY <1>1, <1>6
  <2>2. QED BY <1>8, <2>1, Zenon DEF Sorting
<1>10. DOMAIN out = 1..l
  BY <1>7, LenProperties
<1>11. out \in Seq(SegmentsOf(msgs, acts))
  <2>1. S \subseteq SegmentsOf(msgs, acts)
    BY <1>3
  <2>2. QED BY <1>7, <2>1, SeqOfMore
<1>12. ASSUME NEW kinds, "summary" \notin kinds
       PROVE  Shown(out, kinds) = Shown(rest, kinds)
  <2>1. Shown(sm \o rest, kinds) = Shown(sm, kinds) \cup Shown(rest, kinds)
    BY <1>4, <1>5, ConcatShows
  <2>2. Shown(sm, kinds) = {}
    <3>1. \A i \in DOMAIN sm : sm[i].source = "summary"
      BY <1>3, <1>4
    <3>2. QED BY <1>12, <3>1 DEF Shown
  <2>3. QED BY <1>1, <1>7, <2>1, <2>2
<1>13. CASE sm = <<>>
  <2>1. Len(sm) = 0 /\ l = Len(rest)
    BY <1>6, <1>13
  <2>2. \A i \in 1..l : pre[i] \in R
    BY <1>6, <2>1
  <2>3. \A i \in 1..l : out[i] \in R
    BY <1>9, <2>2
  <2>4. SummaryPlaces(out) = {}
    BY <1>10, <2>3 DEF SummaryPlaces
  <2>5. Cardinality(SummaryPlaces(out)) = 0
    BY <2>4, FS_EmptySet
  <2>6. QED BY <1>6, <1>7, <1>10, <1>11, <1>12, <2>1, <2>3, <2>4, <2>5 DEF SummaryThen
<1>14. CASE sm = <<sum>> /\ cold # <<>> /\ n # 0
  <2>1. Len(sm) = 1 /\ sm[1] = sum
    BY <1>14
  <2>2. l = 1 + Len(rest) /\ 1 \in 1..l /\ pre[1] = sum /\ \A i \in 1..l : i = 1 \/ pre[i] \in R
    BY <1>6, <2>1
  <2>3. PICK j \in 1..l : p[j] = 1
    BY <1>9, <2>2
  <2>4. \A i \in 1..l : i = 1 \/ (pre[i].priority \in Nat /\ pre[i].priority < SummaryBand)
    BY <2>2
  <2>5. \A i \in 1..l : ~(i < j)
    <3> TAKE i \in 1..l
    <3>1. p[i] \in 1..l /\ p[j] = 1 /\ pre[p[j]].priority = SummaryBand
      BY <1>3, <1>9, <2>2, <2>3
    <3>2. p[i] = 1 \/ (pre[p[i]].priority \in Nat /\ pre[p[i]].priority < SummaryBand)
      BY <2>4, <3>1
    <3>3. p[i] = 1 => pre[p[i]].priority = SummaryBand
      BY <1>3, <2>2
    <3>4. i < j => \/ pre[p[i]].priority > pre[p[j]].priority
                   \/ pre[p[i]].priority = pre[p[j]].priority /\ p[i] < p[j]
      BY <1>9
    <3>5. QED BY <1>3, <3>1, <3>2, <3>3, <3>4
  <2>6. p[1] = 1
    <3>1. j = 1
      BY <1>6, <2>2, <2>5
    <3>2. QED BY <2>3, <3>1
  <2>7. \A i \in 1..l : i = 1 \/ out[i] \in R
    <3> TAKE i \in 1..l
    <3>1. SUFFICES ASSUME i # 1, p[i] = 1
                   PROVE  FALSE
      BY <1>9, <2>2
    <3>2. 1 < i
      BY <3>1
    <3>3. pre[1].priority > pre[1].priority \/ 1 < 1
      <4>1. 1 < i => \/ pre[p[1]].priority > pre[p[i]].priority
                     \/ pre[p[1]].priority = pre[p[i]].priority /\ p[1] < p[i]
        BY <1>9, <2>2
      <4>2. QED BY <2>6, <3>1, <3>2, <4>1
    <3>4. QED BY <1>3, <2>2, <3>3
  <2>8. out[1] = sum
    <3>1. out[1] = pre[p[1]]
      BY <1>9, <2>2
    <3>2. QED BY <2>2, <2>6, <3>1
  <2>9. SummaryPlaces(out) = {1}
    <3>1. 1 \in DOMAIN out /\ out[1].source = "summary"
      BY <1>3, <1>10, <2>2, <2>8
    <3>2. \A i \in DOMAIN out : out[i].source = "summary" => i = 1
      BY <1>10, <2>7
    <3>3. QED BY <3>1, <3>2 DEF SummaryPlaces
  <2>10. Cardinality(SummaryPlaces(out)) = 1
    BY <2>9, FS_Singleton
  <2>11. \A i \in 1..l : out[i] \in R \/ out[i].source = "summary"
    BY <1>3, <2>7, <2>8
  <2>12. Len(out) = Len(rest) + Cardinality(SummaryPlaces(out))
    BY <1>6, <1>7, <2>2, <2>10
  <2>13. \A a, b \in 1..Len(out) : a < b => out[a].priority >= out[b].priority
    BY <1>7, <1>11
  <2>14. Cardinality(SummaryPlaces(out)) \in Nat /\ SummaryPlaces(out) \subseteq {1}
    BY <2>9, <2>10
  <2>15. DOMAIN out = 1..Len(out) /\ \A i \in 1..Len(out) : out[i] \in R \/ out[i].source = "summary"
    BY <1>7, <1>10, <2>11
  <2>16. QED BY <1>11, <1>12, <1>14, <2>12, <2>13, <2>14, <2>15 DEF SummaryThen
<1>15. QED BY <1>4, <1>13, <1>14

\* What follows a summary may be put together first.
LEMMA SummaryConcat ==
    ASSUME NEW cold, NEW n, NEW R, NEW a \in Seq(R), NEW b \in Seq(R)
    PROVE  SummaryOf(cold, n) \o (a \o b) = (SummaryOf(cold, n) \o a) \o b
<1>1. PICK x, T :
        /\ x = [source |-> "summary", item |-> 0, len |-> n, priority |-> SummaryBand]
        /\ T = R \cup {x}
  OBVIOUS
<1>2. SummaryOf(cold, n) = IF cold = <<>> \/ n = 0 THEN <<>> ELSE <<x>>
  BY <1>1 DEF SummaryOf
<1>3. SummaryOf(cold, n) \in Seq(T)
  <2>1. CASE cold = <<>> \/ n = 0
    BY <1>2, <2>1
  <2>2. CASE ~(cold = <<>> \/ n = 0)
    BY <1>1, <1>2, <2>2
  <2>3. QED BY <2>1, <2>2
<1>4. a \in Seq(T) /\ b \in Seq(T)
  <2>1. R \subseteq T
    BY <1>1
  <2>2. QED BY <2>1, SeqOfMore
<1>5. QED BY <1>3, <1>4, ConcatAssociative

\* The messages, the newest first, each in one place.
FromNewest(newest, msgs) ==
    /\ Len(newest) = Len(msgs)
    /\ \A i \in 1..Len(msgs) : newest[i].item \in 1..Len(msgs)
    /\ \A i \in 1..Len(msgs) : \E j \in 1..Len(msgs) : newest[j].item = i
    /\ \A i, j \in 1..Len(msgs) :
          i < j => /\ newest[i].item # newest[j].item
                   /\ msgs[newest[i].item].time >= msgs[newest[j].item].time

\* Sorting the messages alone by time gives that.
LEMMA NewestFirst ==
    ASSUME NEW msgs \in Histories, NEW acts \in Histories,
           NEW newest, newest = ByPriority(Rendered("recent_message", msgs, Time))
    PROVE  /\ newest \in Seq(Graded("recent_message", Time, msgs, acts))
           /\ FromNewest(newest, msgs)
<1>1. PICK G, r, l :
        /\ G = Graded("recent_message", Time, msgs, acts)
        /\ r = Rendered("recent_message", msgs, Time) /\ l = Len(msgs)
  OBVIOUS
<1>2. Time \in [Items -> Nat] /\ \A x \in Items : Time[x] = x.time
  BY PrioritiesTyped
<1>3. /\ Piece(r, "recent_message", DOMAIN msgs, Time, msgs, acts) /\ Len(r) = l
      /\ \A i \in 1..l : r[i].item = i
  <2>1. msgs = ListOf("recent_message", msgs, acts) /\ "recent_message" \in Sources \ {"summary"}
    BY DEF ListOf, Sources
  <2>2. QED BY <1>1, <1>2, <2>1, RenderedPiece
<1>4. r \in Seq(G) /\ l \in Nat /\ DOMAIN msgs = 1..l
  BY <1>1, <1>3, LenProperties DEF Piece, Histories
<1>5. \A s \in G : /\ s.item \in DOMAIN msgs /\ msgs[s.item] \in Items
                   /\ s.priority = msgs[s.item].time /\ s.priority \in Nat
  <2>1. "recent_message" \in MessageSources
    BY DEF MessageSources
  <2>2. ASSUME NEW s \in G
        PROVE  /\ s.item \in DOMAIN msgs /\ msgs[s.item] \in Items
               /\ s.priority = Time[msgs[s.item]] /\ s.priority \in Nat
    BY <1>1, <1>2, <2>1, GradedMessages
  <2>3. QED BY <1>2, <2>2
<1>6. newest \in Seq(G) /\ Len(newest) = l /\ \E p : Sorting(p, r, newest)
  <2>1. \A s \in G : s.priority \in Nat
    BY <1>5
  <2>2. QED BY <1>1, <1>3, <1>4, <2>1, SortedByPriority
<1>7. PICK p : Sorting(p, r, newest)
  BY <1>6
<1>8. /\ p \in [1..l -> 1..l]
      /\ \A i \in 1..l : newest[i] = r[p[i]]
      /\ \A i \in 1..l : \E j \in 1..l : p[j] = i
      /\ \A i, j \in 1..l :
            i < j <=> \/ r[p[i]].priority > r[p[j]].priority
                      \/ r[p[i]].priority = r[p[j]].priority /\ p[i] < p[j]
  BY <1>3, <1>7 DEF Sorting
<1>9. \A i \in 1..l : newest[i].item = p[i] /\ p[i] \in 1..l
  <2> TAKE i \in 1..l
  <2>1. p[i] \in 1..l /\ newest[i] = r[p[i]]
    BY <1>8
  <2>2. QED BY <1>3, <2>1
<1>10. \A i \in 1..l : r[i].priority = msgs[i].time /\ r[i].priority \in Nat
  <2>1. \A i \in 1..l : r[i] \in G
    BY <1>3, <1>4, ElementOfSeq
  <2>2. QED BY <1>3, <1>5, <2>1
<1>11. ASSUME NEW i \in 1..l, NEW j \in 1..l, i < j
       PROVE  p[i] # p[j] /\ msgs[p[i]].time >= msgs[p[j]].time
  <2>1. p[i] \in 1..l /\ p[j] \in 1..l
    BY <1>8
  <2>2. /\ r[p[i]].priority = msgs[p[i]].time /\ r[p[i]].priority \in Nat
        /\ r[p[j]].priority = msgs[p[j]].time /\ r[p[j]].priority \in Nat
    BY <1>10, <2>1
  <2>3. \/ r[p[i]].priority > r[p[j]].priority
        \/ r[p[i]].priority = r[p[j]].priority /\ p[i] < p[j]
    BY <1>8, <1>11
  <2>4. QED BY <2>1, <2>2, <2>3
<1>12. \A i \in 1..l : \E j \in 1..l : newest[j].item = i
  <2> TAKE i \in 1..l
  <2>1. PICK j \in 1..l : p[j] = i
    BY <1>8
  <2>2. newest[j].item = i
    BY <1>9, <2>1
  <2>3. QED BY <2>2
<1>13. \A i, j \in 1..l : i < j => /\ newest[i].item # newest[j].item
                                   /\ msgs[newest[i].item].time >= msgs[newest[j].item].time
  BY <1>9, <1>11
<1>14. FromNewest(newest, msgs)
  BY <1>1, <1>6, <1>9, <1>12, <1>13 DEF FromNewest
<1>15. QED BY <1>1, <1>6, <1>14

\* All but the newest are older than those, and so many fewer are shown.
LEMMA SummarizedKeeps ==
    ASSUME NEW msgs \in Histories, NEW acts \in Histories, NEW n \in SummaryLengths
    PROVE  KeepsHistory("summarized", msgs, acts, SummarizedSegments(msgs, acts, n))
<1>1. PICK A, M, newest, l :
        /\ A = Graded("prior_action", Banded(ActionBand), msgs, acts)
        /\ M = Graded("recent_message", Time, msgs, acts)
        /\ newest = ByPriority(Rendered("recent_message", msgs, Time))
        /\ l = Len(newest)
  OBVIOUS
<1>2. /\ newest \in Seq(M) /\ l = Len(msgs) /\ l \in Nat /\ DOMAIN msgs = 1..l
      /\ \A i \in 1..l : newest[i].item \in 1..l
      /\ \A i \in 1..l : \E j \in 1..l : newest[j].item = i
      /\ \A i, j \in 1..l : i < j => /\ newest[i].item # newest[j].item
                                     /\ msgs[newest[i].item].time >= msgs[newest[j].item].time
  <2>1. newest \in Seq(M) /\ FromNewest(newest, msgs)
    BY <1>1, NewestFirst
  <2>2. l = Len(msgs)
    BY <1>1, <2>1 DEF FromNewest
  <2>3. l \in Nat /\ DOMAIN msgs = 1..l
    BY <2>2, LenProperties DEF Histories
  <2>4. QED BY <2>1, <2>2, <2>3 DEF FromNewest
<1>w. PICK w, warm, cold :
        /\ w = IF l > RecentWindow THEN RecentWindow ELSE l
        /\ warm = SubSeq(newest, 1, w) /\ cold = SubSeq(newest, RecentWindow + 1, l)
  OBVIOUS
<1>3. w \in 0..l /\ (w < l => w = RecentWindow) /\ RecentWindow \in Nat /\ w <= RecentWindow
  BY <1>2, <1>w, RetrievalAssumption
<1>4. /\ warm \in Seq(M) /\ Len(warm) = w /\ DOMAIN warm = 1..w
      /\ \A i \in 1..w : warm[i] = newest[i] /\ warm[i] \in M /\ i \in 1..l
  <2>1. 1 \in 1..(Len(newest) + 1) /\ w \in (1 - 1)..Len(newest)
    BY <1>1, <1>2, <1>3
  <2>2. /\ SubSeq(newest, 1, w) \in Seq(M)
        /\ Len(SubSeq(newest, 1, w)) = IF 1 <= w THEN w - 1 + 1 ELSE 0
        /\ \A i \in 1..(w - 1 + 1) : SubSeq(newest, 1, w)[i] = newest[1 + i - 1]
    BY <1>2, <2>1, SubSeqProperties
  <2>3. \A i \in 1..w : i \in 1..(w - 1 + 1) /\ 1 + i - 1 = i /\ i \in 1..l
    BY <1>2, <1>3
  <2>4. warm \in Seq(M) /\ Len(warm) = w
    BY <1>3, <1>w, <2>2
  <2>5. \A i \in 1..w : warm[i] = newest[i] /\ i \in 1..l
    BY <1>w, <2>2, <2>3
  <2>6. DOMAIN warm = 1..w /\ \A i \in 1..w : warm[i] \in M
    BY <2>4, LenProperties, ElementOfSeq
  <2>7. QED BY <2>4, <2>5, <2>6
<1>5. cold # <<>> => w < l
  <2>1. SUFFICES ASSUME w = l
                 PROVE  cold = <<>>
    BY <1>2, <1>3
  <2>2. RecentWindow + 1 > l
    BY <1>2, <1>3, <2>1
  <2>3. SubSeq(newest, RecentWindow + 1, l) = <<>>
    BY <1>2, <1>3, <2>2
  <2>4. QED BY <1>w, <2>3
<1>a. PICK a : a = Rendered("prior_action", acts, Banded(ActionBand))
  OBVIOUS
<1>6. /\ Banded(ActionBand) \in [Items -> Nat] /\ \A x \in Items : Banded(ActionBand)[x] = 2000 + x.time
      /\ Time \in [Items -> Nat] /\ \A x \in Items : Time[x] = x.time
  BY PrioritiesTyped DEF ActionBand
<1>7. Piece(a, "prior_action", DOMAIN acts, Banded(ActionBand), msgs, acts) /\ Len(a) = Len(acts)
  <2>1. acts = ListOf("prior_action", msgs, acts) /\ "prior_action" \in Sources \ {"summary"}
    BY DEF ListOf, Sources
  <2>2. QED BY <1>6, <1>a, <2>1, RenderedPiece
<1>8. /\ \A s \in A : /\ s \in SegmentsOf(msgs, acts) /\ s.source = "prior_action"
                      /\ s.priority \in 2000..2099
      /\ \A s \in M : /\ s \in SegmentsOf(msgs, acts) /\ s.source = "recent_message"
                      /\ s.item \in DOMAIN msgs /\ msgs[s.item].time \in 0..99
                      /\ s.priority = msgs[s.item].time
  <2>1. \A x \in Items : x.time \in 0..99
    BY RetrievalAssumption
  <2>2. ASSUME NEW s \in A
        PROVE  /\ s \in SegmentsOf(msgs, acts) /\ s.source = "prior_action"
               /\ s.priority \in 2000..2099
    <3>1. /\ s \in SegmentsOf(msgs, acts) /\ s.source = "prior_action"
          /\ acts[s.item] \in Items /\ s.priority = Banded(ActionBand)[acts[s.item]]
      BY <1>1, <1>6, GradedActions
    <3>2. s.priority = 2000 + acts[s.item].time /\ acts[s.item].time \in 0..99
      BY <1>6, <2>1, <3>1
    <3>3. QED BY <3>1, <3>2
  <2>3. ASSUME NEW s \in M
        PROVE  /\ s \in SegmentsOf(msgs, acts) /\ s.source = "recent_message"
               /\ s.item \in DOMAIN msgs /\ msgs[s.item].time \in 0..99
               /\ s.priority = msgs[s.item].time
    <3>1. "recent_message" \in MessageSources
      BY DEF MessageSources
    <3>2. /\ s \in SegmentsOf(msgs, acts) /\ s.source = "recent_message"
          /\ s.item \in DOMAIN msgs /\ msgs[s.item] \in Items
          /\ s.priority = Time[msgs[s.item]]
      BY <1>1, <1>6, <3>1, GradedMessages
    <3>3. QED BY <1>6, <2>1, <3>2
  <2>4. QED BY <2>2, <2>3
<1>9. PICK R : R = A \cup M
  OBVIOUS
<1>10. \A s \in R : /\ s \in SegmentsOf(msgs, acts) /\ s.source # "summary"
                    /\ s.priority \in Nat /\ s.priority < SummaryBand
  BY <1>8, <1>9 DEF SummaryBand
<1>r. PICK rest, out : rest = a \o warm /\ out = ByPriority(SummaryOf(cold, n) \o rest)
  OBVIOUS
<1>11. /\ a \in Seq(R) /\ warm \in Seq(R) /\ rest \in Seq(R) /\ Len(rest) = Len(acts) + w
  <2>1. a \in Seq(A)
    BY <1>1, <1>7 DEF Piece
  <2>2. A \subseteq R /\ M \subseteq R
    BY <1>9
  <2>3. a \in Seq(R) /\ warm \in Seq(R)
    BY <1>4, <2>1, <2>2, SeqOfMore
  <2>4. a \o warm \in Seq(R) /\ Len(a \o warm) = Len(a) + Len(warm)
    BY <2>3, ConcatPlaces
  <2>5. QED BY <1>4, <1>7, <1>r, <2>3, <2>4
<1>12. /\ out \in Seq(SegmentsOf(msgs, acts)) /\ DOMAIN out = 1..Len(out)
       /\ Len(out) = Len(rest) + Cardinality(SummaryPlaces(out))
       /\ Cardinality(SummaryPlaces(out)) \in Nat
       /\ SummaryPlaces(out) \subseteq {1}
       /\ SummaryPlaces(out) # {} => cold # <<>>
       /\ \A kinds : "summary" \notin kinds => Shown(out, kinds) = Shown(rest, kinds)
       /\ \A i \in 1..Len(out) : out[i] \in R \/ out[i].source = "summary"
       /\ \A i, j \in 1..Len(out) : i < j => out[i].priority >= out[j].priority
  <2>1. SummaryThen(R, rest, out, cold, msgs, acts)
    BY <1>10, <1>11, <1>r, SummaryFirst
  <2>2. QED BY <2>1 DEF SummaryThen
<1>13. /\ Shown(out, {"prior_action"}) = DOMAIN acts
       /\ Shown(out, MessageSources) = {newest[i].item : i \in 1..w}
  <2>1. \A kinds : Shown(rest, kinds) = Shown(a, kinds) \cup Shown(warm, kinds)
    BY <1>11, <1>r, ConcatShows
  <2>2. \A i \in 1..w : warm[i] = newest[i] /\ warm[i].source = "recent_message"
    BY <1>4, <1>8
  <2>3. Shown(warm, {"prior_action"}) = {} /\ Shown(warm, MessageSources) = {newest[i].item : i \in 1..w}
    BY <1>4, <2>2 DEF Shown, MessageSources
  <2>4. Shown(a, {"prior_action"}) = DOMAIN acts /\ Shown(a, MessageSources) = {}
    BY <1>7 DEF Piece, MessageSources
  <2>5. "summary" \notin MessageSources
    BY DEF MessageSources
  <2>6. QED BY <1>12, <2>1, <2>3, <2>4, <2>5
<1>14. PICK gone : gone = Unshown(msgs, out)
  OBVIOUS
<1>15. gone = {newest[i].item : i \in (w + 1)..l}
  <2>1. gone = (1..l) \ {newest[i].item : i \in 1..w}
    BY <1>2, <1>13, <1>14 DEF Unshown
  <2>2. \A i \in 1..w, j \in (w + 1)..l : newest[i].item # newest[j].item
    <3> TAKE i \in 1..w, j \in (w + 1)..l
    <3>1. i \in 1..l /\ j \in 1..l /\ i < j
      BY <1>2, <1>3
    <3>2. QED BY <1>2, <3>1
  <2>3. \A j \in (w + 1)..l : newest[j].item \in 1..l
    <3>1. \A j \in (w + 1)..l : j \in 1..l
      BY <1>2, <1>3
    <3>2. QED BY <1>2, <3>1
  <2>4. \A x \in 1..l : \/ \E i \in 1..w : x = newest[i].item
                        \/ \E i \in (w + 1)..l : x = newest[i].item
    <3> TAKE x \in 1..l
    <3>1. PICK i \in 1..l : newest[i].item = x
      BY <1>2
    <3>2. i \in 1..w \/ i \in (w + 1)..l
      BY <1>2, <1>3
    <3>3. QED BY <3>1, <3>2
  <2>5. QED BY <2>1, <2>2, <2>3, <2>4
<1>16. Cardinality(gone) = l - w /\ (gone # {} => w < l) /\ (w < l => gone # {})
  <2>1. PICK T, f : T = (w + 1)..l /\ f = [i \in T |-> newest[i].item]
    OBVIOUS
  <2>2. IsFiniteSet(T) /\ Cardinality(T) = l - w
    <3>1. w + 1 \in Int /\ l \in Int /\ (IF w + 1 > l THEN 0 ELSE l - (w + 1) + 1) = l - w
      BY <1>2, <1>3
    <3>2. IsFiniteSet((w + 1)..l) /\ Cardinality((w + 1)..l) = IF w + 1 > l THEN 0 ELSE l - (w + 1) + 1
      BY <3>1, FS_Interval
    <3>3. QED BY <2>1, <3>1, <3>2
  <2>3. \A i \in T : i \in 1..l /\ f[i] = newest[i].item /\ f[i] \in gone
    BY <1>2, <1>3, <1>15, <2>1
  <2>4. f \in [T -> gone]
    BY <2>1, <2>3
  <2>5. \A x \in gone : \E i \in T : f[i] = x
    BY <1>15, <2>1, <2>3
  <2>6. \A i, j \in T : f[i] = f[j] => i = j
    <3> TAKE i, j \in T
    <3>1. i \in 1..l /\ j \in 1..l /\ f[i] = newest[i].item /\ f[j] = newest[j].item
      BY <2>3
    <3>2. i < j => newest[i].item # newest[j].item
      BY <1>2, <3>1
    <3>3. j < i => newest[i].item # newest[j].item
      BY <1>2, <3>1
    <3>4. QED BY <3>1, <3>2, <3>3
  <2>7. f \in Bijection(T, gone)
    <3>1. DOMAIN f = T
      BY <2>1
    <3>2. f \in Injection(T, gone)
      BY <2>4, <2>6, <3>1 DEF Injection, IsInjective
    <3>3. f \in Surjection(T, gone)
      BY <2>4, <2>5 DEF Surjection
    <3>4. QED BY <3>2, <3>3 DEF Bijection
  <2>8. Cardinality(gone) = l - w
    BY <2>2, <2>7, FS_Bijection DEF ExistsBijection
  <2>9. gone # {} => w < l
    BY <1>2, <1>3, <1>15
  <2>10. w < l => gone # {}
    <3>1. SUFFICES ASSUME w < l
                   PROVE  gone # {}
      OBVIOUS
    <3>2. l \in T
      BY <1>2, <1>3, <2>1, <3>1
    <3>3. QED BY <2>3, <3>2
  <2>11. QED BY <2>8, <2>9, <2>10
<1>17. ShownOnce(msgs, acts, out)
  <2>1. Len(acts) \in Nat
    BY LenProperties DEF Histories
  <2>2. Len(out) = Len(msgs) + Len(acts) - Cardinality(gone) + Cardinality(SummaryPlaces(out))
    BY <1>2, <1>3, <1>11, <1>12, <1>16, <2>1
  <2>3. \A i \in SummaryPlaces(out) : i = 1 /\ gone # {}
    BY <1>5, <1>12, <1>16
  <2>4. QED BY <1>13, <1>14, <2>2, <2>3 DEF ShownOnce
<1>18. OldestUnshown("summarized", msgs, acts, out)
  <2>1. SUFFICES ASSUME gone # {}
                 PROVE  /\ \A i \in gone, j \in DOMAIN msgs \ gone : msgs[i].time <= msgs[j].time
                        /\ Len(msgs) - Cardinality(gone) = RecentWindow
    BY <1>14 DEF OldestUnshown
  <2>2. w < l /\ w = RecentWindow
    BY <1>3, <1>16, <2>1
  <2>3. ASSUME NEW i \in gone, NEW j \in DOMAIN msgs \ gone
        PROVE  msgs[i].time <= msgs[j].time
    <3>1. PICK x \in (w + 1)..l : i = newest[x].item
      BY <1>15
    <3>2. PICK y \in 1..l : j = newest[y].item
      BY <1>2
    <3>3. y \notin (w + 1)..l
      BY <1>15, <2>3, <3>2
    <3>4. x \in 1..l /\ y < x
      BY <1>2, <1>3, <3>3
    <3>5. msgs[j].time >= msgs[i].time
      BY <1>2, <3>1, <3>2, <3>4
    <3>6. msgs[i].time \in Int /\ msgs[j].time \in Int
      <4>1. i \in DOMAIN msgs /\ j \in DOMAIN msgs
        BY <1>14, <2>3 DEF Unshown
      <4>2. msgs[i] \in Items /\ msgs[j] \in Items
        BY <4>1, LenProperties, ElementOfSeq DEF Histories
      <4>3. QED BY <4>2, ItemFields
    <3>7. QED BY <3>5, <3>6
  <2>4. QED BY <1>2, <1>3, <1>16, <2>2, <2>3
<1>19. \A i \in 1..Len(out) : \/ out[i] \in A /\ out[i].source = "prior_action"
                              \/ out[i] \in M /\ out[i].source = "recent_message"
                              \/ out[i].source = "summary"
  BY <1>8, <1>9, <1>12
<1>20. ActionsInOrder("summarized", msgs, acts, out)
  <2>1. SUFFICES ASSUME NEW i \in 1..Len(out), NEW j \in 1..Len(out), i < j,
                        out[i].source \in MessageSources, out[j].source = "prior_action"
                 PROVE  FALSE
    BY <1>12 DEF ActionsInOrder
  <2>2. out[i] \in M /\ out[j] \in A
    BY <1>19, <2>1 DEF MessageSources
  <2>3. out[i].priority \in 0..99 /\ out[j].priority \in 2000..2099
    <3>1. /\ msgs[out[i].item].time \in 0..99 /\ out[i].priority = msgs[out[i].item].time
          /\ out[j].priority \in 2000..2099
      BY <1>8, <2>2
    <3>2. QED BY <3>1
  <2>4. out[i].priority >= out[j].priority
    BY <1>12, <2>1
  <2>5. PICK x, y : x = out[i].priority /\ y = out[j].priority
    OBVIOUS
  <2>6. x \in 0..99 /\ y \in 2000..2099 /\ x >= y
    BY <2>3, <2>4, <2>5
  <2>7. QED BY <2>6
<1>21. MessagesInOrder("summarized", msgs, out)
  <2>1. ASSUME NEW i \in 1..Len(out), NEW j \in 1..Len(out), i < j,
               out[i].source \in MessageSources, out[j].source \in MessageSources
        PROVE  /\ msgs[out[i].item].time >= msgs[out[j].item].time
               /\ out[i].source = "recent_message"
    <3>1. out[i] \in M /\ out[j] \in M /\ out[i].source = "recent_message"
      BY <1>19, <2>1 DEF MessageSources
    <3>2. out[i].priority >= out[j].priority
      BY <1>12, <2>1
    <3>3. QED BY <1>8, <3>1, <3>2
  <2>2. QED BY <1>12, <2>1 DEF MessagesInOrder
<1>22. out = SummarizedSegments(msgs, acts, n)
  <2>1. SummaryOf(cold, n) \o rest = SummaryOf(cold, n) \o a \o warm
    BY <1>11, <1>r, SummaryConcat
  <2>2. QED BY <1>1, <1>w, <1>a, <1>r, <2>1 DEF SummarizedSegments
<1>23. QED BY <1>12, <1>17, <1>18, <1>20, <1>21, <1>22 DEF KeepsHistory

\* The reference is a time of the history.
LEMMA ReferenceIsATime ==
    ASSUME NEW msgs \in Histories, NEW acts \in Histories, ~(msgs = <<>> /\ acts = <<>>)
    PROVE  /\ Reference(msgs, acts) \in Nat
           /\ \E item \in Range(msgs) \cup Range(acts) : item.time = Reference(msgs, acts)
<1>1. PICK T : T = {msgs[i].time : i \in DOMAIN msgs} \cup {acts[i].time : i \in DOMAIN acts}
  OBVIOUS
<1>2. /\ msgs \in Seq(Items) /\ DOMAIN msgs = 1..Len(msgs) /\ Len(msgs) \in Nat
      /\ acts \in Seq(Items) /\ DOMAIN acts = 1..Len(acts) /\ Len(acts) \in Nat
  BY LenProperties DEF Histories
<1>3. /\ \A i \in DOMAIN msgs : msgs[i].time \in 0..99
      /\ \A i \in DOMAIN acts : acts[i].time \in 0..99
  BY <1>2, ElementOfSeq, RetrievalAssumption
<1>4. T \subseteq 0..99
  BY <1>1, <1>3
<1>5. T \subseteq Nat /\ IsFiniteSet(T)
  <2>1. IsFiniteSet(0..99)
    <3>1. 0 \in Int /\ 99 \in Int
      OBVIOUS
    <3>2. QED BY <3>1, FS_Interval, Zenon
  <2>2. IsFiniteSet(T)
    BY <1>4, <2>1, FS_Subset
  <2>3. QED BY <1>4, <2>2
<1>6. T # {}
  <2>1. Len(msgs) # 0 \/ Len(acts) # 0
    BY <1>2, EmptySeq
  <2>2. 1 \in DOMAIN msgs \/ 1 \in DOMAIN acts
    BY <1>2, <2>1
  <2>3. QED BY <1>1, <2>2
<1>7. Max(T) \in T
  BY <1>5, <1>6, MaxIsGreatest
<1>8. Reference(msgs, acts) = Max(T)
  BY <1>1 DEF Reference
<1>9. \E item \in Range(msgs) \cup Range(acts) : item.time = Max(T)
  <2>1. CASE \E i \in DOMAIN msgs : Max(T) = msgs[i].time
    BY <2>1 DEF Range
  <2>2. CASE \E i \in DOMAIN acts : Max(T) = acts[i].time
    BY <2>2 DEF Range
  <2>3. QED BY <1>1, <1>7, <2>1, <2>2
<1>10. QED BY <1>5, <1>7, <1>8, <1>9

\* With valid cutoffs each message is in one tier.
Tiers(msgs, reference, warm, mid, cold) ==
    /\ warm = {i \in DOMAIN msgs : IsWarm(msgs[i].time, reference)}
    /\ mid = {i \in DOMAIN msgs : IsMid(msgs[i].time, reference)}
    /\ cold = {i \in DOMAIN msgs : IsCold(msgs[i].time, reference)}

\* So the tiers divide the messages.
LEMMA TiersPart ==
    ASSUME NEW msgs \in Histories, NEW reference \in Nat, CutoffsValid,
           NEW warm, NEW mid, NEW cold, Tiers(msgs, reference, warm, mid, cold)
    PROVE  /\ warm \subseteq DOMAIN msgs /\ mid \subseteq DOMAIN msgs /\ cold \subseteq DOMAIN msgs
           /\ DOMAIN msgs \ (warm \cup mid) = cold
           /\ Cardinality(warm) \in Nat /\ Cardinality(mid) \in Nat /\ Cardinality(cold) \in Nat
           /\ Len(msgs) = Cardinality(warm) + Cardinality(mid) + Cardinality(cold)
<1>1. PICK D : D = DOMAIN msgs
  OBVIOUS
<1>2. msgs \in Seq(Items) /\ D = 1..Len(msgs) /\ Len(msgs) \in Nat
  BY <1>1, LenProperties DEF Histories
<1>3. \A i \in D : msgs[i].time \in Nat
  BY <1>2, ElementOfSeq, ItemFields
<1>4. WarmCutoff \in Nat /\ ColdCutoff \in Nat /\ ColdCutoff > WarmCutoff
  BY RetrievalAssumption DEF CutoffsValid
<1>5. \A i \in D : /\ i \in warm <=> msgs[i].time >= reference - WarmCutoff
                   /\ i \in mid <=> /\ msgs[i].time < reference - WarmCutoff
                                    /\ msgs[i].time >= reference - ColdCutoff
                   /\ i \in cold <=> msgs[i].time < reference - ColdCutoff
  BY <1>1 DEF Tiers, IsWarm, IsMid, IsCold
<1>6. warm \subseteq D /\ mid \subseteq D /\ cold \subseteq D
  BY <1>1 DEF Tiers
<1>7. \A i \in D : /\ i \in warm \/ i \in mid \/ i \in cold
                   /\ ~(i \in warm /\ i \in mid)
                   /\ ~(i \in cold /\ (i \in warm \/ i \in mid))
  <2> TAKE i \in D
  <2>1. PICK t : t = msgs[i].time
    OBVIOUS
  <2>2. t \in Nat
    BY <1>3, <2>1
  <2>3. /\ i \in warm <=> t >= reference - WarmCutoff
        /\ i \in mid <=> /\ t < reference - WarmCutoff
                         /\ t >= reference - ColdCutoff
        /\ i \in cold <=> t < reference - ColdCutoff
    BY <1>5, <2>1
  <2>4. QED BY <1>4, <2>2, <2>3
<1>8. /\ IsFiniteSet(D) /\ Cardinality(D) = Len(msgs)
      /\ IsFiniteSet(warm) /\ IsFiniteSet(mid) /\ IsFiniteSet(cold)
      /\ Cardinality(warm) \in Nat /\ Cardinality(mid) \in Nat /\ Cardinality(cold) \in Nat
  <2>1. IsFiniteSet(D) /\ Cardinality(D) = Len(msgs)
    <3>1. IsFiniteSet(1..Len(msgs)) /\ Cardinality(1..Len(msgs)) = IF 1 > Len(msgs) THEN 0 ELSE Len(msgs) - 1 + 1
      <4>1. PICK l : l = Len(msgs)
        OBVIOUS
      <4>2. 1 \in Int /\ l \in Int
        BY <1>2, <4>1
      <4>3. IsFiniteSet(1..l) /\ Cardinality(1..l) = IF 1 > l THEN 0 ELSE l - 1 + 1
        BY <4>2, FS_Interval
      <4>4. QED BY <4>1, <4>3
    <3>2. (IF 1 > Len(msgs) THEN 0 ELSE Len(msgs) - 1 + 1) = Len(msgs)
      BY <1>2
    <3>3. QED BY <1>2, <3>1, <3>2
  <2>2. IsFiniteSet(warm) /\ IsFiniteSet(mid) /\ IsFiniteSet(cold)
    BY <1>6, <2>1, FS_Subset
  <2>3. QED BY <2>1, <2>2, FS_CardinalityType
<1>9. /\ warm \cap mid = {} /\ (warm \cup mid) \cap cold = {}
      /\ (warm \cup mid) \cup cold = D /\ D \ (warm \cup mid) = cold
  BY <1>6, <1>7
<1>10. /\ IsFiniteSet(warm \cup mid)
       /\ Cardinality(warm \cup mid) = Cardinality(warm) + Cardinality(mid)
  <2>1. Cardinality(warm \cap mid) = 0
    BY <1>9, FS_EmptySet
  <2>2. /\ IsFiniteSet(warm \cup mid)
        /\ Cardinality(warm \cup mid) = Cardinality(warm) + Cardinality(mid) - Cardinality(warm \cap mid)
    BY <1>8, FS_Union
  <2>3. QED BY <1>8, <2>1, <2>2
<1>11. Cardinality(D) = Cardinality(warm \cup mid) + Cardinality(cold)
  <2>1. PICK U : U = warm \cup mid
    OBVIOUS
  <2>2. IsFiniteSet(U) /\ U \cap cold = {} /\ U \cup cold = D
    BY <1>9, <1>10, <2>1
  <2>3. Cardinality(U \cap cold) = 0
    BY <2>2, FS_EmptySet
  <2>4. Cardinality(U \cup cold) = Cardinality(U) + Cardinality(cold) - Cardinality(U \cap cold)
    BY <1>8, <2>2, FS_Union
  <2>5. Cardinality(U) \in Nat /\ Cardinality(cold) \in Nat
    BY <1>8, <2>2, FS_CardinalityType
  <2>6. Cardinality(D) = Cardinality(U) + Cardinality(cold)
    <3>1. Cardinality(D) = Cardinality(U) + Cardinality(cold) - 0
      BY <2>2, <2>3, <2>4
    <3>2. QED BY <2>5, <3>1
  <2>7. QED BY <2>1, <2>6
<1>12. QED BY <1>1, <1>6, <1>8, <1>9, <1>10, <1>11

\* The warm before the mid by their bands, the cold left to a summary.
LEMMA HybridKeeps ==
    ASSUME NEW msgs \in Histories, NEW acts \in Histories, NEW n \in SummaryLengths, CutoffsValid
    PROVE  KeepsHistory("hybrid", msgs, acts, HybridSegments(msgs, acts, n))
<1>1. CASE msgs = <<>> /\ acts = <<>>
  <2>1. PICK out : out = HybridSegments(msgs, acts, n)
    OBVIOUS
  <2>2. out = <<>>
    BY <1>1, <2>1 DEF HybridSegments
  <2>3. /\ out \in Seq(SegmentsOf(msgs, acts)) /\ Len(out) = 0 /\ DOMAIN out = {}
        /\ Len(msgs) = 0 /\ Len(acts) = 0 /\ DOMAIN msgs = {} /\ DOMAIN acts = {}
    BY <1>1, <2>2
  <2>4. \A kinds : Shown(out, kinds) = {}
    BY <2>3 DEF Shown
  <2>5. ShownOnce(msgs, acts, out) /\ OldestUnshown("hybrid", msgs, acts, out)
    <3>1. Len(out) = Len(msgs) + Len(acts)
      BY <2>3
    <3>2. Shown(out, {"prior_action"}) = DOMAIN acts /\ Shown(out, MessageSources) = DOMAIN msgs
      BY <2>3, <2>4
    <3>3. \A i \in DOMAIN out : out[i].source # "summary"
      BY <2>3
    <3>4. QED BY <3>1, <3>2, <3>3, AllShown
  <2>6. ActionsInOrder("hybrid", msgs, acts, out) /\ MessagesInOrder("hybrid", msgs, out)
    BY <2>3 DEF ActionsInOrder, MessagesInOrder
  <2>7. QED BY <2>1, <2>3, <2>5, <2>6 DEF KeepsHistory
<1>2. SUFFICES ASSUME ~(msgs = <<>> /\ acts = <<>>)
               PROVE  KeepsHistory("hybrid", msgs, acts, HybridSegments(msgs, acts, n))
  BY <1>1
<1>3. PICK ref : ref = Reference(msgs, acts)
  OBVIOUS
<1>4. /\ ref \in Nat
      /\ \E item \in Range(msgs) \cup Range(acts) : item.time = ref
  BY <1>2, <1>3, ReferenceIsATime
<1>5. PICK warm, mid, cold :
        /\ warm = {i \in DOMAIN msgs : IsWarm(msgs[i].time, ref)}
        /\ mid = {i \in DOMAIN msgs : IsMid(msgs[i].time, ref)}
        /\ cold = {i \in DOMAIN msgs : IsCold(msgs[i].time, ref)}
  OBVIOUS
<1>6. /\ warm \subseteq DOMAIN msgs /\ mid \subseteq DOMAIN msgs /\ cold \subseteq DOMAIN msgs
      /\ DOMAIN msgs \ (warm \cup mid) = cold
      /\ Cardinality(warm) \in Nat /\ Cardinality(mid) \in Nat /\ Cardinality(cold) \in Nat
      /\ Len(msgs) = Cardinality(warm) + Cardinality(mid) + Cardinality(cold)
  <2>1. Tiers(msgs, ref, warm, mid, cold)
    BY <1>5 DEF Tiers
  <2>2. QED BY <1>4, <2>1, TiersPart
<1>7. /\ Banded(ActionBand) \in [Items -> Nat] /\ \A x \in Items : Banded(ActionBand)[x] = 2000 + x.time
      /\ Banded(WarmBand) \in [Items -> Nat] /\ \A x \in Items : Banded(WarmBand)[x] = 1000 + x.time
      /\ Time \in [Items -> Nat]
      /\ Similarity \in [Items -> Nat] /\ \A x \in Items : Similarity[x] = 100 * x.score + x.time
      /\ \A x \in Items : x.time \in 0..99 /\ x.score \in 0..9
  BY PrioritiesTyped, RetrievalAssumption DEF ActionBand, WarmBand
<1>8. "recent_message" \in MessageSources /\ "semantic_match" \in MessageSources
  BY DEF MessageSources
<1>9. PICK a, b, c, t :
        /\ a = Rendered("prior_action", acts, Banded(ActionBand))
        /\ b = Tier(msgs, "recent_message", warm, Banded(WarmBand))
        /\ c = Tier(msgs, "semantic_match", mid, Similarity)
        /\ t = Tier(msgs, "recent_message", cold, Time)
  OBVIOUS
<1>10. Piece(a, "prior_action", DOMAIN acts, Banded(ActionBand), msgs, acts) /\ Len(a) = Len(acts)
  <2>1. acts = ListOf("prior_action", msgs, acts) /\ "prior_action" \in Sources \ {"summary"}
    BY DEF ListOf, Sources
  <2>2. QED BY <1>7, <1>9, <2>1, RenderedPiece
<1>11. /\ Piece(b, "recent_message", warm, Banded(WarmBand), msgs, acts) /\ Len(b) = Cardinality(warm)
       /\ Piece(c, "semantic_match", mid, Similarity, msgs, acts) /\ Len(c) = Cardinality(mid)
       /\ Len(t) = Cardinality(cold) /\ IsFiniteSet(cold)
  <2>1. Piece(b, "recent_message", warm, Banded(WarmBand), msgs, acts) /\ Len(b) = Cardinality(warm)
    BY <1>6, <1>7, <1>8, <1>9, TierPiece
  <2>2. Piece(c, "semantic_match", mid, Similarity, msgs, acts) /\ Len(c) = Cardinality(mid)
    BY <1>6, <1>7, <1>8, <1>9, TierPiece
  <2>3. Len(t) = Cardinality(cold) /\ IsFiniteSet(cold)
    BY <1>6, <1>7, <1>8, <1>9, TierPiece, SMTT(20)
  <2>4. QED BY <2>1, <2>2, <2>3
<1>12. PICK A, W, M :
         /\ A = Graded("prior_action", Banded(ActionBand), msgs, acts)
         /\ W = Graded("recent_message", Banded(WarmBand), msgs, acts)
         /\ M = Graded("semantic_match", Similarity, msgs, acts)
  OBVIOUS
<1>13. ASSUME NEW s \in A
       PROVE  /\ s \in SegmentsOf(msgs, acts) /\ s.source = "prior_action"
              /\ s.priority \in 2000..2099
  <2>1. /\ s \in SegmentsOf(msgs, acts) /\ s.source = "prior_action"
        /\ acts[s.item] \in Items /\ s.priority = Banded(ActionBand)[acts[s.item]]
    BY <1>7, <1>12, GradedActions
  <2>2. s.priority = 2000 + acts[s.item].time /\ acts[s.item].time \in 0..99
    BY <1>7, <2>1
  <2>3. QED BY <2>1, <2>2
<1>14. ASSUME NEW s \in W
       PROVE  /\ s \in SegmentsOf(msgs, acts) /\ s.source = "recent_message"
              /\ msgs[s.item].time \in 0..99 /\ s.priority = 1000 + msgs[s.item].time
              /\ s.priority \in 1000..1099
  <2>1. /\ s \in SegmentsOf(msgs, acts) /\ s.source = "recent_message"
        /\ msgs[s.item] \in Items /\ s.priority = Banded(WarmBand)[msgs[s.item]]
    BY <1>7, <1>8, <1>12, GradedMessages
  <2>2. s.priority = 1000 + msgs[s.item].time /\ msgs[s.item].time \in 0..99
    BY <1>7, <2>1
  <2>3. QED BY <2>1, <2>2
<1>15. ASSUME NEW s \in M
       PROVE  /\ s \in SegmentsOf(msgs, acts) /\ s.source = "semantic_match"
              /\ msgs[s.item].time \in 0..99 /\ msgs[s.item].score \in 0..9
              /\ s.priority = 100 * msgs[s.item].score + msgs[s.item].time
              /\ s.priority \in 0..999
  <2>1. /\ s \in SegmentsOf(msgs, acts) /\ s.source = "semantic_match"
        /\ msgs[s.item] \in Items /\ s.priority = Similarity[msgs[s.item]]
    BY <1>7, <1>8, <1>12, GradedMessages
  <2>2. PICK x, y : x = msgs[s.item].score /\ y = msgs[s.item].time
    OBVIOUS
  <2>3. s.priority = 100 * x + y /\ y \in 0..99 /\ x \in 0..9
    BY <1>7, <2>1, <2>2
  <2>4. 100 * x + y \in 0..999
    BY <2>3
  <2>5. s.priority \in 0..999
    BY <2>3, <2>4
  <2>6. s.priority = 100 * msgs[s.item].score + msgs[s.item].time
    BY <2>2, <2>3
  <2>7. msgs[s.item].time \in 0..99 /\ msgs[s.item].score \in 0..9
    BY <2>2, <2>3
  <2>8. QED BY <2>1, <2>5, <2>6, <2>7
<1>16. PICK R : R = A \cup W \cup M
  OBVIOUS
<1>17. \A s \in R : /\ s \in SegmentsOf(msgs, acts) /\ s.source # "summary"
                    /\ s.priority \in Nat /\ s.priority < SummaryBand
  <2>1. \A s \in A : /\ s \in SegmentsOf(msgs, acts) /\ s.source # "summary"
                     /\ s.priority \in Nat /\ s.priority < SummaryBand
    BY <1>13 DEF SummaryBand
  <2>2. \A s \in W : /\ s \in SegmentsOf(msgs, acts) /\ s.source # "summary"
                     /\ s.priority \in Nat /\ s.priority < SummaryBand
    BY <1>14 DEF SummaryBand
  <2>3. \A s \in M : /\ s \in SegmentsOf(msgs, acts) /\ s.source # "summary"
                     /\ s.priority \in Nat /\ s.priority < SummaryBand
    <3>1. TAKE s \in M
    <3>2. PICK p : p = s.priority
      OBVIOUS
    <3>3. s \in SegmentsOf(msgs, acts) /\ s.source = "semantic_match" /\ p \in 0..999
      BY <1>15, <3>2
    <3>4. p \in Nat /\ p < SummaryBand
      BY <3>3 DEF SummaryBand
    <3>5. QED BY <3>2, <3>3, <3>4
  <2>4. QED BY <1>16, <2>1, <2>2, <2>3
<1>18. a \in Seq(R) /\ b \in Seq(R) /\ c \in Seq(R) /\ a \o b \in Seq(R)
  <2>1. a \in Seq(A) /\ b \in Seq(W) /\ c \in Seq(M)
    BY <1>10, <1>11, <1>12 DEF Piece
  <2>2. A \subseteq R /\ W \subseteq R /\ M \subseteq R
    BY <1>16
  <2>3. a \in Seq(R) /\ b \in Seq(R) /\ c \in Seq(R)
    BY <2>1, <2>2, SeqOfMore
  <2>4. QED BY <2>3, ConcatPlaces
<1>19. PICK rest, out : rest = (a \o b) \o c /\ out = ByPriority(SummaryOf(t, n) \o rest)
  OBVIOUS
<1>20. out = HybridSegments(msgs, acts, n)
  <2>1. SummaryOf(t, n) \o (a \o b) = (SummaryOf(t, n) \o a) \o b
    BY <1>18, SummaryConcat
  <2>2. SummaryOf(t, n) \o rest = (SummaryOf(t, n) \o (a \o b)) \o c
    <3>1. PICK ab : ab = a \o b
      OBVIOUS
    <3>2. ab \in Seq(R)
      BY <1>18, <3>1
    <3>3. SummaryOf(t, n) \o (ab \o c) = (SummaryOf(t, n) \o ab) \o c
      BY <1>18, <3>2, SummaryConcat
    <3>4. QED BY <1>19, <3>1, <3>3
  <2>3. out = ByPriority(SummaryOf(t, n) \o a \o b \o c)
    BY <1>19, <2>1, <2>2
  <2>4. QED BY <1>2, <1>3, <1>5, <1>9, <2>3 DEF HybridSegments
<1>21. rest \in Seq(R) /\ Len(rest) = Len(acts) + Cardinality(warm) + Cardinality(mid)
  <2>1. Len(a \o b) = Len(a) + Len(b)
    BY <1>18, ConcatPlaces
  <2>2. (a \o b) \o c \in Seq(R) /\ Len((a \o b) \o c) = Len(a \o b) + Len(c)
    BY <1>18, ConcatPlaces
  <2>3. QED BY <1>10, <1>11, <1>19, <2>1, <2>2
<1>22. /\ out \in Seq(SegmentsOf(msgs, acts)) /\ DOMAIN out = 1..Len(out)
       /\ Len(out) = Len(rest) + Cardinality(SummaryPlaces(out))
       /\ Cardinality(SummaryPlaces(out)) \in Nat
       /\ SummaryPlaces(out) \subseteq {1}
       /\ SummaryPlaces(out) # {} => t # <<>>
       /\ \A kinds : "summary" \notin kinds => Shown(out, kinds) = Shown(rest, kinds)
       /\ \A i \in 1..Len(out) : out[i] \in R \/ out[i].source = "summary"
       /\ \A i, j \in 1..Len(out) : i < j => out[i].priority >= out[j].priority
  <2>1. SummaryThen(R, rest, out, t, msgs, acts)
    BY <1>17, <1>19, <1>21, SummaryFirst
  <2>2. QED BY <2>1 DEF SummaryThen
<1>23. /\ Shown(out, {"prior_action"}) = DOMAIN acts
       /\ Shown(out, {"recent_message"}) = warm
       /\ Shown(out, {"semantic_match"}) = mid
       /\ Shown(out, MessageSources) = warm \cup mid
  <2>1. ASSUME NEW kinds, "summary" \notin kinds
        PROVE  Shown(out, kinds) = Shown(a, kinds) \cup Shown(b, kinds) \cup Shown(c, kinds)
    <3>1. Shown(a \o b, kinds) = Shown(a, kinds) \cup Shown(b, kinds)
      BY <1>18, ConcatShows
    <3>2. Shown((a \o b) \o c, kinds) = Shown(a \o b, kinds) \cup Shown(c, kinds)
      <4>1. PICK ab : ab = a \o b
        OBVIOUS
      <4>2. ab \in Seq(R)
        BY <1>18, <4>1
      <4>3. Shown(ab \o c, kinds) = Shown(ab, kinds) \cup Shown(c, kinds)
        BY <1>18, <4>2, ConcatShows
      <4>4. QED BY <4>1, <4>3
    <3>3. QED BY <1>19, <1>22, <2>1, <3>1, <3>2
  <2>2. \A kinds : /\ Shown(a, kinds) = IF "prior_action" \in kinds THEN DOMAIN acts ELSE {}
                   /\ Shown(b, kinds) = IF "recent_message" \in kinds THEN warm ELSE {}
                   /\ Shown(c, kinds) = IF "semantic_match" \in kinds THEN mid ELSE {}
    BY <1>10, <1>11 DEF Piece
  <2>3. Shown(out, {"prior_action"}) = DOMAIN acts
    <3>1. PICK K : K = {"prior_action"}
      OBVIOUS
    <3>2. "summary" \notin K /\ "prior_action" \in K /\ "recent_message" \notin K /\ "semantic_match" \notin K
      BY <3>1
    <3>3. Shown(out, K) = Shown(a, K) \cup Shown(b, K) \cup Shown(c, K)
      BY <2>1, <3>2
    <3>4. Shown(a, K) = DOMAIN acts /\ Shown(b, K) = {} /\ Shown(c, K) = {}
      BY <2>2, <3>2
    <3>5. QED BY <3>1, <3>3, <3>4
  <2>4. Shown(out, {"recent_message"}) = warm
    <3>1. PICK K : K = {"recent_message"}
      OBVIOUS
    <3>2. "summary" \notin K /\ "prior_action" \notin K /\ "recent_message" \in K /\ "semantic_match" \notin K
      BY <3>1
    <3>3. Shown(out, K) = Shown(a, K) \cup Shown(b, K) \cup Shown(c, K)
      BY <2>1, <3>2
    <3>4. Shown(a, K) = {} /\ Shown(b, K) = warm /\ Shown(c, K) = {}
      BY <2>2, <3>2
    <3>5. QED BY <3>1, <3>3, <3>4
  <2>5. Shown(out, {"semantic_match"}) = mid
    <3>1. PICK K : K = {"semantic_match"}
      OBVIOUS
    <3>2. "summary" \notin K /\ "prior_action" \notin K /\ "recent_message" \notin K /\ "semantic_match" \in K
      BY <3>1
    <3>3. Shown(out, K) = Shown(a, K) \cup Shown(b, K) \cup Shown(c, K)
      BY <2>1, <3>2
    <3>4. Shown(a, K) = {} /\ Shown(b, K) = {} /\ Shown(c, K) = mid
      BY <2>2, <3>2
    <3>5. QED BY <3>1, <3>3, <3>4
  <2>6. Shown(out, MessageSources) = warm \cup mid
    BY <2>1, <2>2 DEF MessageSources
  <2>7. QED BY <2>3, <2>4, <2>5, <2>6
<1>24. Unshown(msgs, out) = cold
  BY <1>6, <1>23 DEF Unshown
<1>25. t # <<>> => cold # {}
  <2>1. SUFFICES ASSUME cold = {}
                 PROVE  t = <<>>
    OBVIOUS
  <2>2. Len(t) = 0
    BY <1>11, <2>1, FS_EmptySet
  <2>3. t \in Seq(Graded("recent_message", Time, msgs, acts))
    <3>1. Piece(t, "recent_message", cold, Time, msgs, acts)
      BY <1>6, <1>7, <1>8, <1>9, TierPiece, SMTT(20)
    <3>2. QED BY <3>1 DEF Piece
  <2>4. QED BY <2>2, <2>3, EmptySeq
<1>26. ShownOnce(msgs, acts, out)
  <2>1. Len(acts) \in Nat
    BY LenProperties DEF Histories
  <2>2. Len(out) = Len(msgs) + Len(acts) - Cardinality(cold) + Cardinality(SummaryPlaces(out))
    BY <1>6, <1>21, <1>22, <2>1
  <2>3. \A i \in SummaryPlaces(out) : i = 1 /\ cold # {}
    BY <1>22, <1>25
  <2>4. QED BY <1>23, <1>24, <2>2, <2>3 DEF ShownOnce
<1>27. \A i \in DOMAIN msgs : msgs[i].time \in Nat
  <2>1. \A i \in DOMAIN msgs : msgs[i] \in Items
    BY LenProperties, ElementOfSeq DEF Histories
  <2>2. QED BY <2>1, ItemFields
<1>28. /\ \A i \in cold : msgs[i].time < ref - ColdCutoff
       /\ \A j \in DOMAIN msgs \ cold : ~(msgs[j].time < ref - ColdCutoff)
       /\ \A i \in warm : msgs[i].time >= ref - WarmCutoff
       /\ \A i \in mid : msgs[i].time < ref - WarmCutoff
  BY <1>5 DEF IsWarm, IsMid, IsCold
<1>29. WarmCutoff \in Nat /\ ColdCutoff \in Nat
  BY RetrievalAssumption
<1>30. OldestUnshown("hybrid", msgs, acts, out)
  <2>1. ASSUME NEW i \in cold, NEW j \in DOMAIN msgs \ cold
        PROVE  msgs[i].time <= msgs[j].time
    <3>1. msgs[i].time \in Nat /\ msgs[j].time \in Nat
      BY <1>6, <1>27
    <3>2. msgs[i].time < ref - ColdCutoff /\ ~(msgs[j].time < ref - ColdCutoff)
      BY <1>28
    <3>3. QED BY <1>4, <1>29, <3>1, <3>2
  <2>2. ASSUME NEW i \in cold
        PROVE  \E item \in Range(msgs) \cup Range(acts) : item.time - msgs[i].time > ColdCutoff
    <3>1. PICK item \in Range(msgs) \cup Range(acts) : item.time = ref
      BY <1>4
    <3>2. msgs[i].time \in Nat /\ msgs[i].time < ref - ColdCutoff
      BY <1>6, <1>27, <1>28
    <3>3. item.time - msgs[i].time > ColdCutoff
      BY <1>4, <1>29, <3>1, <3>2
    <3>4. QED BY <3>3
  <2>3. QED BY <1>24, <2>1, <2>2 DEF OldestUnshown
<1>31. \A i \in 1..Len(out) : \/ out[i] \in A /\ out[i].source = "prior_action"
                              \/ out[i] \in W /\ out[i].source = "recent_message"
                              \/ out[i] \in M /\ out[i].source = "semantic_match"
                              \/ out[i].source = "summary"
  BY <1>13, <1>14, <1>15, <1>16, <1>22
<1>32. ActionsInOrder("hybrid", msgs, acts, out)
  <2>1. SUFFICES ASSUME NEW i \in 1..Len(out), NEW j \in 1..Len(out), i < j,
                        out[i].source \in MessageSources, out[j].source = "prior_action"
                 PROVE  FALSE
    BY <1>22 DEF ActionsInOrder
  <2>2. (out[i] \in W \/ out[i] \in M) /\ out[j] \in A
    BY <1>31, <2>1 DEF MessageSources
  <2>3. PICK x, y : x = out[i].priority /\ y = out[j].priority
    OBVIOUS
  <2>4. x \in 0..999 \/ x \in 1000..1099
    BY <1>14, <1>15, <2>2, <2>3
  <2>5. y \in 2000..2099
    BY <1>13, <2>2, <2>3
  <2>6. x >= y
    BY <1>22, <2>1, <2>3
  <2>7. CASE x \in 0..999
    BY <2>5, <2>6, <2>7
  <2>8. CASE x \in 1000..1099
    BY <2>5, <2>6, <2>8
  <2>9. QED BY <2>4, <2>7, <2>8
<1>33. ASSUME NEW i \in 1..Len(out)
       PROVE  /\ out[i].source = "recent_message" => out[i].item \in warm
              /\ out[i].source = "semantic_match" => out[i].item \in mid
  <2>1. /\ out[i].source = "recent_message" => out[i].item \in Shown(out, {"recent_message"})
        /\ out[i].source = "semantic_match" => out[i].item \in Shown(out, {"semantic_match"})
    BY <1>22 DEF Shown
  <2>2. QED BY <1>23, <2>1
<1>34. ASSUME NEW i \in 1..Len(out), NEW j \in 1..Len(out), i < j,
              out[i].source \in MessageSources, out[j].source \in MessageSources
       PROVE  /\ \/ msgs[out[i].item].time >= msgs[out[j].item].time
                 \/ /\ msgs[out[i].item].score > msgs[out[j].item].score
                    /\ out[i].source = "semantic_match"
              /\ out[j].source = "recent_message" => out[i].source = "recent_message"
  <2>1. PICK p, q, x, y :
          /\ p = out[i].priority /\ q = out[j].priority
          /\ x = msgs[out[i].item].time /\ y = msgs[out[j].item].time
    OBVIOUS
  <2>2. p >= q
    BY <1>22, <1>34, <2>1
  <2>3. \/ out[i].source = "recent_message" /\ out[i] \in W
        \/ out[i].source = "semantic_match" /\ out[i] \in M
    BY <1>31, <1>34 DEF MessageSources
  <2>4. \/ out[j].source = "recent_message" /\ out[j] \in W
        \/ out[j].source = "semantic_match" /\ out[j] \in M
    BY <1>31, <1>34 DEF MessageSources
  <2>5. CASE out[i] \in W /\ out[j] \in W
    <3>1. p = 1000 + x /\ q = 1000 + y /\ x \in 0..99 /\ y \in 0..99
      BY <1>14, <2>1, <2>5
    <3>2. x >= y
      BY <2>2, <3>1
    <3>3. out[i].source = "recent_message"
      BY <1>14, <2>5
    <3>4. QED BY <2>1, <3>2, <3>3
  <2>6. CASE out[i] \in W /\ out[j] \in M
    <3>1. out[i].source = "recent_message" /\ out[j].source = "semantic_match"
      BY <1>14, <1>15, <2>6
    <3>2. out[i].item \in warm /\ out[j].item \in mid
      BY <1>33, <3>1
    <3>3. x >= ref - WarmCutoff /\ y < ref - WarmCutoff
      BY <1>28, <2>1, <3>2
    <3>4. x \in 0..99 /\ y \in 0..99
      BY <1>14, <1>15, <2>1, <2>6
    <3>5. x >= y
      BY <1>4, <1>29, <3>3, <3>4
    <3>6. QED BY <2>1, <3>1, <3>5
  <2>7. CASE out[i] \in M /\ out[j] \in W
    <3>1. p \in 0..999 /\ q \in 1000..1099
      BY <1>14, <1>15, <2>1, <2>7
    <3>2. QED BY <2>2, <3>1
  <2>8. CASE out[i] \in M /\ out[j] \in M
    <3>1. PICK d, e : d = msgs[out[i].item].score /\ e = msgs[out[j].item].score
      OBVIOUS
    <3>2. /\ p = 100 * d + x /\ q = 100 * e + y
          /\ x \in 0..99 /\ y \in 0..99 /\ d \in 0..9 /\ e \in 0..9
      BY <1>15, <2>1, <2>8, <3>1
    <3>3. x >= y \/ d > e
      BY <2>2, <3>2
    <3>4. out[i].source = "semantic_match" /\ out[j].source = "semantic_match"
      BY <1>15, <2>8
    <3>5. QED BY <2>1, <3>1, <3>3, <3>4
  <2>9. QED BY <2>3, <2>4, <2>5, <2>6, <2>7, <2>8
<1>35. MessagesInOrder("hybrid", msgs, out)
  BY <1>22, <1>34 DEF MessagesInOrder
<1>36. QED BY <1>20, <1>22, <1>26, <1>30, <1>32, <1>35 DEF KeepsHistory

\* Whatever the strategy makes of a history.
LEMMA RetrievalKeeps ==
    ASSUME NEW msgs \in Histories, NEW acts \in Histories, NEW by \in Strategies,
           by = "hybrid" => CutoffsValid,
           NEW segs \in Retrieved(by, msgs, acts)
    PROVE  KeepsHistory(by, msgs, acts, segs)
<1>1. CASE by = "recency"
  <2>1. segs = RecencySegments(msgs, acts)
    BY <1>1 DEF Retrieved
  <2>2. QED BY <1>1, <2>1, RecencyKeeps
<1>2. CASE by = "summarized"
  <2>1. PICK n \in SummaryLengths : segs = SummarizedSegments(msgs, acts, n)
    BY <1>2 DEF Retrieved
  <2>2. QED BY <1>2, <2>1, SummarizedKeeps
<1>3. CASE by = "semantic"
  <2>1. segs = SemanticSegments(msgs, acts)
    BY <1>3 DEF Retrieved
  <2>2. QED BY <1>3, <2>1, SemanticKeeps
<1>4. CASE by = "hybrid"
  <2>1. PICK n \in SummaryLengths : segs = HybridSegments(msgs, acts, n)
    BY <1>4 DEF Retrieved
  <2>2. QED BY <1>4, <2>1, HybridKeeps
<1>5. CASE by = "rerank"
  <2>1. segs = RerankSegments(msgs, acts) \/ segs = SemanticSegments(msgs, acts)
    BY <1>5 DEF Retrieved
  <2>2. QED BY <1>5, <2>1, RerankKeeps
<1>6. QED BY <1>1, <1>2, <1>3, <1>4, <1>5 DEF Strategies

-----------------------------------------------------------------------------
(* Texts joined by newlines.                                               *)

\* The lengths of a list's beginnings, joined.
Prefixed(f, lens, l) ==
    f = [n \in 0..l |-> IF n = 0 THEN 0 ELSE f[n - 1] + lens[n] + IF n = 1 THEN 0 ELSE 1]

\* Each list has them.
LEMMA PrefixedExists ==
    ASSUME NEW lens, NEW l \in Nat
    PROVE  \E f : Prefixed(f, lens, l)
<1> DEFINE bad == {k \in Nat : ~\E f : Prefixed(f, lens, k)}
<1>1. SUFFICES ASSUME bad # {} PROVE FALSE
  OBVIOUS
<1>2. PICK m \in bad : \A k \in bad : m <= k
  <2>1. bad \subseteq Nat
    OBVIOUS
  <2>2. Min(bad) \in bad /\ \A k \in bad : Min(bad) <= k
    BY <1>1, <2>1, MinIsLeast
  <2>3. QED BY <2>2
<1>3. m \in Nat /\ ~\E f : Prefixed(f, lens, m)
  OBVIOUS
<1>4. CASE m = 0
  <2>1. PICK f : f = [n \in {0} |-> 0]
    OBVIOUS
  <2>2. 0..m = {0}
    BY <1>4
  <2>3. f = [n \in 0..m |-> IF n = 0 THEN 0 ELSE f[n - 1] + lens[n] + IF n = 1 THEN 0 ELSE 1]
    BY <2>1, <2>2
  <2>4. QED BY <1>3, <2>3 DEF Prefixed
<1>5. CASE m # 0
  <2>1. m - 1 \in Nat /\ m - 1 \notin bad
    BY <1>2, <1>3, <1>5
  <2>2. PICK g : Prefixed(g, lens, m - 1)
    BY <2>1
  <2>3. PICK f : f = [n \in 0..m |-> IF n = 0 THEN 0 ELSE g[n - 1] + lens[n] + IF n = 1 THEN 0 ELSE 1]
    OBVIOUS
  <2>4. \A n \in 0..(m - 1) : f[n] = g[n]
    <3>1. TAKE n \in 0..(m - 1)
    <3>2. n \in 0..m
      BY <1>3
    <3>3. g[n] = IF n = 0 THEN 0 ELSE g[n - 1] + lens[n] + IF n = 1 THEN 0 ELSE 1
      BY <2>2 DEF Prefixed
    <3>4. f[n] = IF n = 0 THEN 0 ELSE g[n - 1] + lens[n] + IF n = 1 THEN 0 ELSE 1
      BY <2>3, <3>2
    <3>5. QED BY <3>3, <3>4
  <2>5. \A n \in 0..m : n # 0 => f[n - 1] = g[n - 1]
    <3>1. TAKE n \in 0..m
    <3>2. n # 0 => n - 1 \in 0..(m - 1)
      BY <1>3
    <3>3. QED BY <2>4, <3>2
  <2>6. f = [n \in 0..m |-> IF n = 0 THEN 0 ELSE f[n - 1] + lens[n] + IF n = 1 THEN 0 ELSE 1]
    BY <2>3, <2>5
  <2>7. QED BY <1>3, <2>6 DEF Prefixed
<1>6. QED BY <1>4, <1>5

\* The joined length, and the lengths of the beginnings of the list.
LEMMA JoinedByPrefix ==
    ASSUME NEW lens, Len(lens) \in Nat
    PROVE  \E f : Prefixed(f, lens, Len(lens)) /\ JoinedLength(lens) = f[Len(lens)]
<1>1. PICK f : f = CHOOSE g : Prefixed(g, lens, Len(lens))
  OBVIOUS
<1>2. Prefixed(f, lens, Len(lens))
  BY <1>1, PrefixedExists
<1>3. JoinedLength(lens) = f[Len(lens)]
  BY <1>1 DEF JoinedLength, Prefixed
<1>4. QED BY <1>2, <1>3

\* Lists that begin alike have the same lengths of beginnings.
Alike(a, b, l) == \A n \in 1..l : a[n] = b[n]

\* The lengths depend on nothing that comes later.
LEMMA PrefixedAgree ==
    ASSUME NEW a, NEW b, NEW l \in Nat, NEW m \in Nat, l <= m, Alike(a, b, l),
           NEW f, NEW h, Prefixed(f, a, l), Prefixed(h, b, m)
    PROVE  \A n \in 0..l : f[n] = h[n]
<1> DEFINE bad == {k \in 0..l : f[k] # h[k]}
<1>1. SUFFICES ASSUME bad # {} PROVE FALSE
  OBVIOUS
<1>2. PICK k \in bad : \A j \in bad : k <= j
  <2>1. bad \subseteq Nat
    OBVIOUS
  <2>2. Min(bad) \in bad /\ \A j \in bad : Min(bad) <= j
    BY <1>1, <2>1, MinIsLeast
  <2>3. QED BY <2>2
<1>3. k \in 0..l /\ k \in 0..m /\ f[k] # h[k]
  OBVIOUS
<1>4. f[k] = IF k = 0 THEN 0 ELSE f[k - 1] + a[k] + IF k = 1 THEN 0 ELSE 1
  BY <1>3 DEF Prefixed
<1>5. h[k] = IF k = 0 THEN 0 ELSE h[k - 1] + b[k] + IF k = 1 THEN 0 ELSE 1
  BY <1>3 DEF Prefixed
<1>6. k # 0
  BY <1>3, <1>4, <1>5
<1>7. k - 1 \in 0..l /\ k \in 1..l
  BY <1>3, <1>6
<1>8. f[k - 1] = h[k - 1]
  <2>1. k - 1 \notin bad
    BY <1>2, <1>3, <1>7
  <2>2. QED BY <1>7, <2>1
<1>9. a[k] = b[k]
  BY <1>7 DEF Alike
<1>10. QED BY <1>3, <1>4, <1>5, <1>8, <1>9

\* A joined length is a number.
LEMMA PrefixedTyped ==
    ASSUME NEW lens \in Seq(Nat), NEW f, Prefixed(f, lens, Len(lens))
    PROVE  \A n \in 0..Len(lens) : f[n] \in Nat
<1> DEFINE bad == {k \in 0..Len(lens) : f[k] \notin Nat}
<1>1. SUFFICES ASSUME bad # {} PROVE FALSE
  OBVIOUS
<1>2. PICK k \in bad : \A j \in bad : k <= j
  <2>1. bad \subseteq Nat
    OBVIOUS
  <2>2. Min(bad) \in bad /\ \A j \in bad : Min(bad) <= j
    BY <1>1, <2>1, MinIsLeast
  <2>3. QED BY <2>2
<1>3. k \in 0..Len(lens) /\ f[k] \notin Nat /\ Len(lens) \in Nat
  BY LenProperties
<1>4. f[k] = IF k = 0 THEN 0 ELSE f[k - 1] + lens[k] + IF k = 1 THEN 0 ELSE 1
  BY <1>3 DEF Prefixed
<1>5. k # 0
  BY <1>3, <1>4
<1>6. k - 1 \in 0..Len(lens) /\ k \in 1..Len(lens)
  BY <1>3, <1>5
<1>7. f[k - 1] \in Nat
  <2>1. k - 1 \notin bad
    BY <1>2, <1>3, <1>6
  <2>2. QED BY <1>6, <2>1
<1>8. lens[k] \in Nat
  BY <1>6, ElementOfSeq
<1>9. QED BY <1>3, <1>4, <1>5, <1>7, <1>8

\* What one more text adds to the joined length: its own, and a newline if it is not
\* the first.
LEMMA JoinedGrows ==
    ASSUME NEW lens \in Seq(Nat), NEW x \in Nat
    PROVE  /\ JoinedLength(lens) \in Nat
           /\ lens = <<>> => JoinedLength(lens) = 0
           /\ JoinedLength(Append(lens, x)) = (IF lens = <<>> THEN 0 ELSE JoinedLength(lens) + 1) + x
<1>1. PICK l, more : l = Len(lens) /\ more = Append(lens, x)
  OBVIOUS
<1>2. /\ l \in Nat /\ Len(more) = l + 1 /\ more[l + 1] = x
      /\ \A n \in 1..l : lens[n] = more[n]
      /\ more \in Seq(Nat)
  BY <1>1, LenProperties, AppendProperties
<1>3. PICK f : Prefixed(f, lens, l) /\ JoinedLength(lens) = f[l]
  BY <1>1, <1>2, JoinedByPrefix
<1>4. PICK h : Prefixed(h, more, l + 1) /\ JoinedLength(more) = h[l + 1]
  BY <1>2, JoinedByPrefix
<1>5. f[l] \in Nat
  BY <1>1, <1>2, <1>3, PrefixedTyped
<1>6. f[l] = h[l]
  <2>1. PICK m : m = l + 1
    OBVIOUS
  <2>2. m \in Nat /\ l <= m /\ l \in 0..l /\ Prefixed(f, lens, l) /\ Prefixed(h, more, m)
    BY <1>2, <1>3, <1>4, <2>1
  <2>3. \A n \in 0..l : f[n] = h[n]
    <3>1. Alike(lens, more, l)
      BY <1>2 DEF Alike
    <3>2. QED BY <1>2, <2>2, <3>1, PrefixedAgree
  <2>4. QED BY <2>2, <2>3
<1>7. h[l + 1] = h[l] + x + IF l = 0 THEN 0 ELSE 1
  <2>1. l + 1 \in 0..(l + 1) /\ l + 1 # 0 /\ (l + 1) - 1 = l /\ (l + 1 = 1 <=> l = 0)
    BY <1>2
  <2>2. PICK k : k = l + 1
    OBVIOUS
  <2>3. h[k] = IF k = 0 THEN 0 ELSE h[k - 1] + more[k] + IF k = 1 THEN 0 ELSE 1
    BY <1>4, <2>1, <2>2 DEF Prefixed
  <2>4. QED BY <1>2, <2>1, <2>2, <2>3
<1>8. lens = <<>> <=> l = 0
  BY <1>1, EmptySeq
<1>9. f[0] = 0
  <2>1. 0 \in 0..l
    BY <1>2
  <2>2. QED BY <1>3, <2>1 DEF Prefixed
<1>10. QED BY <1>1, <1>2, <1>3, <1>4, <1>5, <1>6, <1>7, <1>8, <1>9

-----------------------------------------------------------------------------
(* The assembly.                                                           *)

\* What was retrieved is what the strategy makes of the history there is.
HistorySound ==
    /\ messages \in Seq(Items) /\ priorActions \in Seq(Items)
    /\ Len(messages) + Len(priorActions) <= MaxHistory
    /\ phase \notin {"history", "failed"} =>
          /\ strategy \in Strategies
          /\ strategy = "hybrid" => CutoffsValid
          /\ segments \in Retrieved(strategy, messages, priorActions)

\* Until the loop nothing is packed, and before that nothing is there to be packed.
NothingPacked ==
    /\ phase \in {"history", "failed"} => segments = <<>> /\ header = 0
    /\ phase \in {"history", "header", "failed"} =>
          next = 1 /\ kept = <<>> /\ used = 0 /\ size = 0

KeptBehind == \A j \in Range(kept) : j < next

\* A part's charge pays for it and its newline, four to a token.
Counted ==
    /\ size = Joined(kept) /\ used <= budget
    /\ kept # <<>> => size + 1 <= 4 * used

LeftOut ==
    /\ \A i \in Left : used + CostAt(i) > budget
    /\ \A i \in Left, j \in Range(kept) : i < j => CostAt(j) < CostAt(i)

BriefInv ==
    PackTypeOK /\ HistorySound /\ NothingPacked /\ KeptBehind /\ Counted /\ LeftOut

\* A list with one more.
LEMMA AppendRange ==
    ASSUME NEW S, NEW s \in Seq(S), NEW x \in S
    PROVE  /\ Append(s, x) \in Seq(S) /\ Append(s, x) # <<>>
           /\ Range(Append(s, x)) = Range(s) \cup {x}
<1>1. PICK r, l : r = Append(s, x) /\ l = Len(s)
  OBVIOUS
<1>2. /\ r \in Seq(S) /\ l \in Nat /\ Len(r) = l + 1 /\ r[l + 1] = x
      /\ \A i \in 1..l : r[i] = s[i]
      /\ DOMAIN r = 1..(l + 1) /\ DOMAIN s = 1..l
  BY <1>1, LenProperties, AppendProperties
<1>3. \A y : y \in Range(r) <=> y \in Range(s) \cup {x}
  <2>1. TAKE y
  <2>2. y \in Range(r) <=> \E i \in 1..(l + 1) : r[i] = y
    BY <1>2 DEF Range
  <2>3. y \in Range(s) <=> \E i \in 1..l : s[i] = y
    BY <1>2 DEF Range
  <2>4. \A i : i \in 1..(l + 1) <=> i \in 1..l \/ i = l + 1
    BY <1>2
  <2>5. (\E i \in 1..(l + 1) : r[i] = y) <=> (\E i \in 1..l : s[i] = y) \/ x = y
    BY <1>2, <2>4
  <2>6. QED BY <2>2, <2>3, <2>5
<1>4. Range(r) = Range(s) \cup {x}
  BY <1>3
<1>5. r # <<>>
  BY <1>2
<1>6. QED BY <1>1, <1>2, <1>4, <1>5

\* Nothing joined is nothing.
LEMMA NothingJoined == JoinedLength(<<>>) = 0
<1>1. <<>> \in Seq(Nat) /\ 0 \in Nat
  OBVIOUS
<1>2. QED BY <1>1, JoinedGrows

\* The lengths and charges of what can be packed.
LEMMA Charges ==
    ASSUME PackTypeOK, NEW i \in 0..Len(segments)
    PROVE  /\ LengthAt(i) \in Nat /\ CostAt(i) \in Nat /\ CostAt(i) >= 1
           /\ LengthAt(i) + 1 <= 4 * CostAt(i)
<1>1. LengthAt(i) \in Nat
  <2>1. CASE i = 0
    <3>1. header \in Nat
      <4>1. header \in Headers \cup {0}
        BY DEF PackTypeOK
      <4>2. Headers \subseteq Nat
        BY BriefAssumption
      <4>3. QED BY <4>1, <4>2
    <3>2. QED BY <2>1, <3>1 DEF LengthAt
  <2>2. CASE i # 0
    <3>1. segments \in Seq(Segments) /\ Len(segments) \in Nat
      BY LenProperties DEF PackTypeOK
    <3>2. i \in 1..Len(segments)
      BY <2>2, <3>1
    <3>3. segments[i] \in Segments
      BY <3>1, <3>2, ElementOfSeq
    <3>4. segments[i].len \in Nat
      BY <3>3 DEF Segments
    <3>5. QED BY <2>2, <3>4 DEF LengthAt
  <2>3. QED BY <2>1, <2>2
<1>2. PICK l : l = LengthAt(i)
  OBVIOUS
<1>3. CostAt(i) = l \div 4 + 1
  BY <1>2 DEF CostAt, Cost, estimate_tokens
<1>4. l \in Nat
  BY <1>1, <1>2
<1>5. l \div 4 \in Nat /\ l + 1 <= 4 * (l \div 4 + 1)
  BY <1>4
<1>6. QED BY <1>2, <1>3, <1>4, <1>5

\* A part adds its length and a newline.
LEMMA PartJoined ==
    ASSUME PackTypeOK, NEW i \in 0..Len(segments)
    PROVE  /\ Joined(kept) \in Nat
           /\ kept = <<>> => Joined(kept) = 0
           /\ Joined(Append(kept, i)) = (IF kept = <<>> THEN 0 ELSE Joined(kept) + 1) + LengthAt(i)
<1>1. PICK l, lens, more :
        /\ l = Len(kept)
        /\ lens = [n \in DOMAIN kept |-> LengthAt(kept[n])]
        /\ more = [n \in DOMAIN Append(kept, i) |-> LengthAt(Append(kept, i)[n])]
  OBVIOUS
<1>2. kept \in Seq(0..Len(segments)) /\ l \in Nat /\ DOMAIN kept = 1..l
  BY <1>1, LenProperties DEF PackTypeOK
<1>3. \A n \in 1..l : LengthAt(kept[n]) \in Nat
  <2>1. \A n \in 1..l : kept[n] \in 0..Len(segments)
    BY <1>1, <1>2, ElementOfSeq
  <2>2. QED BY <2>1, Charges
<1>4. lens \in Seq(Nat) /\ Len(lens) = l
  <2>1. lens \in [1..l -> Nat]
    BY <1>1, <1>2, <1>3
  <2>2. QED BY <1>2, <2>1, SeqDef, LenProperties
<1>5. LengthAt(i) \in Nat
  BY Charges
<1>6. more = Append(lens, LengthAt(i))
  <2>1. /\ Len(Append(kept, i)) = l + 1 /\ DOMAIN Append(kept, i) = 1..(l + 1)
        /\ Append(kept, i)[l + 1] = i
        /\ \A n \in 1..l : Append(kept, i)[n] = kept[n]
    BY <1>1, <1>2, AppendProperties, LenProperties
  <2>2. PICK t : t = Append(lens, LengthAt(i))
    OBVIOUS
  <2>3. /\ t \in Seq(Nat) /\ Len(t) = l + 1 /\ DOMAIN t = 1..(l + 1)
        /\ t[l + 1] = LengthAt(i)
        /\ \A n \in 1..l : t[n] = lens[n]
    BY <1>4, <1>5, <2>2, AppendProperties, LenProperties
  <2>4. DOMAIN more = 1..(l + 1) /\ \A n \in 1..(l + 1) : more[n] = LengthAt(Append(kept, i)[n])
    BY <1>1, <2>1
  <2>5. \A n \in 1..(l + 1) : n \in 1..l \/ n = l + 1
    BY <1>2
  <2>6. \A n \in 1..l : n \in 1..(l + 1) /\ lens[n] = LengthAt(kept[n])
    BY <1>1, <1>2
  <2>7. \A n \in 1..(l + 1) : more[n] = t[n]
    BY <2>1, <2>3, <2>4, <2>5, <2>6
  <2>8. more = [n \in 1..(l + 1) |-> more[n]] /\ t = [n \in 1..(l + 1) |-> t[n]]
    BY <1>1, <2>1, <2>3
  <2>9. QED BY <2>2, <2>7, <2>8
<1>7. Joined(kept) = JoinedLength(lens) /\ Joined(Append(kept, i)) = JoinedLength(more)
  BY <1>1 DEF Joined
<1>8. lens = <<>> <=> kept = <<>>
  <2>1. lens = <<>> <=> l = 0
    BY <1>4, EmptySeq
  <2>2. kept = <<>> <=> l = 0
    BY <1>1, <1>2, EmptySeq
  <2>3. QED BY <2>1, <2>2
<1>9. /\ JoinedLength(lens) \in Nat
      /\ lens = <<>> => JoinedLength(lens) = 0
      /\ JoinedLength(Append(lens, LengthAt(i)))
           = (IF lens = <<>> THEN 0 ELSE JoinedLength(lens) + 1) + LengthAt(i)
  BY <1>4, <1>5, JoinedGrows
<1>10. QED BY <1>6, <1>7, <1>8, <1>9

\* Nothing is left out where nothing was seen.
LEMMA NothingLeft ==
    ASSUME next = 1, phase \in {"history", "header"}
    PROVE  Left = {}
BY DEF Left, Seen

\* At first there is no history and nothing is packed.
LEMMA BriefInitInv == PackInit => BriefInv
<1>1. SUFFICES ASSUME PackInit PROVE BriefInv
  OBVIOUS
<1>2. PackTypeOK
  <2>1. /\ messages = <<>> /\ priorActions = <<>> /\ strategy = "" /\ segments = <<>>
        /\ budget = 0 /\ header = 0 /\ phase = "history"
        /\ next = 1 /\ kept = <<>> /\ used = 0 /\ size = 0
    BY <1>1 DEF PackInit
  <2>2. messages \in Seq(Items) /\ priorActions \in Seq(Items) /\ segments \in Seq(Segments)
    <3>1. \A S : <<>> \in Seq(S)
      OBVIOUS
    <3>2. QED BY <2>1, <3>1, Zenon
  <2>3. Len(segments) = 0
    BY <2>1
  <2>4. next \in 1..(Len(segments) + 1) /\ kept \in Seq(0..Len(segments))
    <3>1. \A S : <<>> \in Seq(S)
      OBVIOUS
    <3>2. kept \in Seq(0..Len(segments))
      BY <2>1, <3>1, Zenon
    <3>3. next \in 1..(Len(segments) + 1)
      <4>1. next = 1
        BY <2>1
      <4>2. QED BY <2>3, <4>1
    <3>4. QED BY <3>2, <3>3
  <2>5. /\ strategy \in Strategies \cup {""} /\ budget \in Budgets \cup {0} /\ header \in Headers \cup {0}
        /\ phase \in {"history", "header", "loop", "check", "done", "failed"}
        /\ used \in Nat /\ size \in Nat
    BY <2>1
  <2>6. QED BY <2>2, <2>4, <2>5 DEF PackTypeOK
<1>3. HistorySound
  <2>1. messages = <<>> /\ priorActions = <<>> /\ phase = "history"
    BY <1>1 DEF PackInit
  <2>2. messages \in Seq(Items) /\ priorActions \in Seq(Items)
    BY <2>1
  <2>3. Len(messages) + Len(priorActions) <= MaxHistory
    <3>1. Len(messages) = 0 /\ Len(priorActions) = 0 /\ MaxHistory \in Nat
      BY <2>1, BriefAssumption
    <3>2. QED BY <3>1
  <2>4. QED BY <2>1, <2>2, <2>3 DEF HistorySound
<1>4. NothingPacked
  BY <1>1 DEF PackInit, NothingPacked
<1>5. KeptBehind
  <2>1. Range(kept) = {}
    BY <1>1, EmptyRange DEF PackInit
  <2>2. QED BY <2>1 DEF KeptBehind
<1>6. Counted
  <2>1. kept = <<>> /\ used = 0 /\ budget = 0 /\ size = 0
    BY <1>1 DEF PackInit
  <2>2. Joined(kept) = 0
    <3>1. [n \in DOMAIN kept |-> LengthAt(kept[n])] = <<>>
      BY <2>1
    <3>2. QED BY <3>1, NothingJoined DEF Joined
  <2>3. QED BY <2>1, <2>2 DEF Counted
<1>7. LeftOut
  <2>1. Left = {}
    BY <1>1, NothingLeft DEF PackInit
  <2>2. QED BY <2>1 DEF LeftOut
<1>8. QED BY <1>2, <1>3, <1>4, <1>5, <1>6, <1>7 DEF BriefInv

\* As long as what is packed stays, so does what is said of it.
LEMMA PackedStays ==
    ASSUME BriefInv, UNCHANGED <<segments, budget, header, next, kept, used, size>>,
           (phase' \in {"history", "header"}) = (phase \in {"history", "header"})
    PROVE  KeptBehind' /\ Counted' /\ LeftOut'
<1>1. KeptBehind'
  BY DEF BriefInv, KeptBehind
<1>2. Joined(kept)' = Joined(kept)
  BY DEF Joined, LengthAt
<1>3. Counted'
  BY <1>2 DEF BriefInv, Counted
<1>4. Left' = Left
  BY DEF Left, Seen
<1>5. \A i : CostAt(i)' = CostAt(i)
  BY DEF CostAt, LengthAt
<1>6. LeftOut'
  BY <1>4, <1>5 DEF BriefInv, LeftOut
<1>7. QED BY <1>1, <1>3, <1>6

\* The history grows before anything is made of it.
LEMMA GrowthKeeps ==
    ASSUME BriefInv, NEW item \in Items, IngestMessage(item) \/ RecordAction(item)
    PROVE  BriefInv'
<1>1. /\ phase = "history" /\ phase' = phase
      /\ Len(messages) + Len(priorActions) < MaxHistory
      /\ UNCHANGED <<strategy, segments, budget, header, next, kept, used, size>>
  BY DEF IngestMessage, RecordAction, Grows
<1>2. messages \in Seq(Items) /\ priorActions \in Seq(Items)
  BY DEF BriefInv, HistorySound
<1>3. /\ messages' \in Seq(Items) /\ priorActions' \in Seq(Items)
      /\ Len(messages') + Len(priorActions') <= MaxHistory
  <2>1. Len(messages) \in Nat /\ Len(priorActions) \in Nat /\ MaxHistory \in Nat
    BY <1>2, LenProperties, BriefAssumption
  <2>2. CASE IngestMessage(item)
    <3>1. messages' = Append(messages, item) /\ priorActions' = priorActions
      BY <2>2 DEF IngestMessage
    <3>2. messages' \in Seq(Items) /\ Len(messages') = Len(messages) + 1
      BY <1>2, <3>1, AppendProperties
    <3>3. QED BY <1>1, <1>2, <2>1, <3>1, <3>2
  <2>3. CASE RecordAction(item)
    <3>1. priorActions' = Append(priorActions, item) /\ messages' = messages
      BY <2>3 DEF RecordAction
    <3>2. priorActions' \in Seq(Items) /\ Len(priorActions') = Len(priorActions) + 1
      BY <1>2, <3>1, AppendProperties
    <3>3. QED BY <1>1, <1>2, <2>1, <3>1, <3>2
  <2>4. QED BY <2>2, <2>3
<1>4. PackTypeOK'
  BY <1>1, <1>3 DEF BriefInv, PackTypeOK
<1>5. HistorySound'
  BY <1>1, <1>3 DEF HistorySound
<1>6. NothingPacked'
  BY <1>1 DEF BriefInv, NothingPacked
<1>7. KeptBehind' /\ Counted' /\ LeftOut'
  BY <1>1, PackedStays
<1>8. QED BY <1>4, <1>5, <1>6, <1>7 DEF BriefInv

\* What a strategy makes of the history is made of segments.
LEMMA MadeOfSegments ==
    ASSUME NEW msgs \in Seq(Items), NEW acts \in Seq(Items), Len(msgs) + Len(acts) <= MaxHistory,
           NEW by \in Strategies, by = "hybrid" => CutoffsValid, NEW segs \in Retrieved(by, msgs, acts)
    PROVE  segs \in Seq(Segments) /\ KeepsHistory(by, msgs, acts, segs)
<1>1. msgs \in Histories /\ acts \in Histories
  <2>1. Len(msgs) \in Nat /\ Len(acts) \in Nat /\ MaxHistory \in Nat
    BY LenProperties, BriefAssumption
  <2>2. Len(msgs) <= MaxHistory /\ Len(acts) <= MaxHistory
    BY <2>1
  <2>3. QED BY <2>2 DEF Histories
<1>2. KeepsHistory(by, msgs, acts, segs)
  BY <1>1, RetrievalKeeps
<1>3. segs \in Seq(SegmentsOf(msgs, acts)) /\ SegmentsOf(msgs, acts) \subseteq Segments
  BY <1>2 DEF KeepsHistory, SegmentsOf
<1>4. QED BY <1>2, <1>3, SeqOfMore

\* What is retrieved is made of the history as it is then, and nothing of it is packed yet.
LEMMA RetrieveKeeps ==
    ASSUME BriefInv, NEW s \in Strategies, NEW b \in Budgets, NEW h \in Headers \cup {0},
           Retrieve(s, b, h)
    PROVE  BriefInv'
<1>1. /\ phase = "history" /\ phase' = "header"
      /\ s = "hybrid" => CutoffsValid
      /\ segments' \in Retrieved(s, messages, priorActions)
      /\ strategy' = s /\ budget' = b /\ header' = h
      /\ UNCHANGED <<messages, priorActions, next, kept, used, size>>
  BY DEF Retrieve
<1>2. next = 1 /\ kept = <<>> /\ used = 0 /\ size = 0
  BY <1>1 DEF BriefInv, NothingPacked
<1>3. HistorySound'
  BY <1>1 DEF BriefInv, HistorySound
<1>4. segments' \in Seq(Segments)
  BY <1>1, MadeOfSegments DEF BriefInv, HistorySound
<1>5. PackTypeOK'
  <2>1. Len(segments') \in Nat
    BY <1>4, LenProperties
  <2>2. next' \in 1..(Len(segments') + 1)
    BY <1>1, <1>2, <2>1
  <2>3. kept' \in Seq(0..Len(segments'))
    BY <1>1, <1>2
  <2>4. QED BY <1>1, <1>2, <1>4, <2>2, <2>3 DEF BriefInv, PackTypeOK
<1>6. NothingPacked'
  BY <1>1, <1>2 DEF NothingPacked
<1>7. KeptBehind'
  BY <1>1, <1>2 DEF KeptBehind, Range
<1>8. Counted'
  <2>1. Joined(kept)' = 0
    <3>1. [n \in DOMAIN kept' |-> LengthAt(kept[n])'] = <<>>
      BY <1>1, <1>2
    <3>2. QED BY <3>1, NothingJoined DEF Joined
  <2>2. b \in Nat
    BY BriefAssumption
  <2>3. QED BY <1>1, <1>2, <2>1, <2>2 DEF Counted
<1>9. LeftOut'
  <2>1. Left' = {}
    BY <1>1, <1>2 DEF Left, Seen
  <2>2. QED BY <2>1 DEF LeftOut
<1>10. QED BY <1>3, <1>5, <1>6, <1>7, <1>8, <1>9 DEF BriefInv

\* A strategy that raises leaves nothing to be packed.
LEMMA RaiseKeeps ==
    ASSUME BriefInv, NEW s \in Strategies, RetrieveRaises(s)
    PROVE  BriefInv'
<1>1. /\ phase = "history" /\ phase' = "failed" /\ strategy' = s
      /\ UNCHANGED <<messages, priorActions, segments, budget, header, next, kept, used, size>>
  BY DEF RetrieveRaises
<1>2. next = 1 /\ kept = <<>> /\ used = 0 /\ size = 0
  BY <1>1 DEF BriefInv, NothingPacked
<1>3. PackTypeOK'
  BY <1>1 DEF BriefInv, PackTypeOK
<1>4. HistorySound' /\ NothingPacked'
  BY <1>1 DEF BriefInv, HistorySound, NothingPacked
<1>5. KeptBehind'
  BY <1>1 DEF BriefInv, KeptBehind
<1>6. Counted'
  <2>1. Joined(kept)' = Joined(kept)
    BY <1>1 DEF Joined, LengthAt
  <2>2. QED BY <1>1, <2>1 DEF BriefInv, Counted
<1>7. LeftOut'
  <2>1. Left' = {}
    <3>1. header' = 0
      BY <1>1 DEF BriefInv, NothingPacked
    <3>2. QED BY <1>1, <1>2, <3>1 DEF Left, Seen
  <2>2. QED BY <2>1 DEF LeftOut
<1>8. QED BY <1>3, <1>4, <1>5, <1>6, <1>7 DEF BriefInv

\* What it means for a part to be left out.
LEMMA LeftMember ==
    ASSUME PackTypeOK, phase = "loop"
    PROVE  /\ \A i : i \in Left <=>
              i \in 0..(next - 1) /\ i \notin Range(kept) /\ (i > 0 \/ header > 0)
           /\ next \in 1..(Len(segments) + 1) /\ Len(segments) \in Nat
           /\ kept \in Seq(0..Len(segments)) /\ Range(kept) \subseteq 0..Len(segments)
<1>1. \A i : i \in Left <=>
              i \in 0..(next - 1) /\ i \notin Range(kept) /\ (i > 0 \/ header > 0)
  <2>1. phase \notin {"history", "header"}
    OBVIOUS
  <2>2. \A i : i \in Seen <=> i \in 0..(next - 1) /\ (i > 0 \/ header > 0)
    BY <2>1 DEF Seen
  <2>3. \A i : i \in Left <=> i \in Seen /\ i \notin Range(kept)
    BY DEF Left
  <2>4. QED BY <2>2, <2>3, Zenon
<1>2. next \in 1..(Len(segments) + 1) /\ kept \in Seq(0..Len(segments)) /\ segments \in Seq(Segments)
  BY DEF PackTypeOK
<1>3. Len(segments) \in Nat
  BY <1>2, LenProperties
<1>4. Range(kept) \subseteq 0..Len(segments)
  <2>1. PICK S : S = 0..Len(segments)
    OBVIOUS
  <2>2. \A n \in 1..Len(kept) : kept[n] \in S
    BY <1>2, <2>1, ElementOfSeq
  <2>3. DOMAIN kept = 1..Len(kept)
    BY <1>2, LenProperties
  <2>4. QED BY <2>1, <2>2, <2>3 DEF Range
<1>5. QED BY <1>1, <1>2, <1>3, <1>4

\* Keeping a part pays for it.
LEMMA KeepCounts ==
    ASSUME BriefInv, NEW i \in 0..Len(segments), Keep(i), UNCHANGED <<budget, header, segments>>
    PROVE  /\ Counted' /\ used' \in Nat /\ size' \in Nat
           /\ used' >= used + 1 /\ used + CostAt(i) <= budget
           /\ kept' \in Seq(0..Len(segments)) /\ Range(kept') = Range(kept) \cup {i}
<1>1. PICK c, l : c = CostAt(i) /\ l = LengthAt(i)
  OBVIOUS
<1>2. /\ used + c <= budget /\ kept' = Append(kept, i) /\ used' = used + c
      /\ size' = (IF kept = <<>> THEN 0 ELSE size + 1) + l
  BY <1>1 DEF Keep
<1>3. PackTypeOK
  BY DEF BriefInv
<1>4. l \in Nat /\ c \in Nat /\ c >= 1 /\ l + 1 <= 4 * c
  BY <1>1, <1>3, Charges
<1>5. used \in Nat /\ size \in Nat /\ kept \in Seq(0..Len(segments))
  BY <1>3 DEF PackTypeOK
<1>6. kept' \in Seq(0..Len(segments)) /\ kept' # <<>> /\ Range(kept') = Range(kept) \cup {i}
  <2>1. PICK S : S = 0..Len(segments)
    OBVIOUS
  <2>2. kept \in Seq(S) /\ i \in S
    BY <1>5, <2>1
  <2>3. /\ Append(kept, i) \in Seq(S) /\ Append(kept, i) # <<>>
        /\ Range(Append(kept, i)) = Range(kept) \cup {i}
    BY <2>2, AppendRange
  <2>4. QED BY <1>2, <2>1, <2>3
<1>7. size' = Joined(kept)'
  <2>1. Joined(kept)' = Joined(Append(kept, i))
    BY <1>2 DEF Joined, LengthAt
  <2>2. Joined(Append(kept, i)) = (IF kept = <<>> THEN 0 ELSE Joined(kept) + 1) + l
    BY <1>1, <1>3, PartJoined
  <2>3. size = Joined(kept)
    BY DEF BriefInv, Counted
  <2>4. QED BY <1>2, <2>1, <2>2, <2>3
<1>8. used' \in Nat /\ size' \in Nat /\ used' >= used + 1
  BY <1>2, <1>4, <1>5
<1>9. size' + 1 <= 4 * used'
  <2>1. CASE kept = <<>>
    BY <1>2, <1>4, <1>5, <2>1
  <2>2. CASE kept # <<>>
    <3>1. size + 1 <= 4 * used
      BY <2>2 DEF BriefInv, Counted
    <3>2. QED BY <1>2, <1>4, <1>5, <2>2, <3>1
  <2>3. QED BY <2>1, <2>2
<1>10. Counted'
  BY <1>2, <1>6, <1>7, <1>9 DEF Counted
<1>11. QED BY <1>1, <1>2, <1>6, <1>8, <1>10

\* The header is the first part, or there is none, or it does not fit.
LEMMA HeaderKeeps ==
    ASSUME BriefInv, PackHeader
    PROVE  BriefInv'
<1>1. /\ phase = "header" /\ phase' = "loop"
      /\ \/ header > 0 /\ Keep(0)
         \/ (header > 0 => used + CostAt(0) > budget) /\ UNCHANGED <<kept, used, size>>
      /\ UNCHANGED <<messages, priorActions, strategy, segments, budget, header, next>>
  BY DEF PackHeader
<1>2. next = 1 /\ kept = <<>>
  BY <1>1 DEF BriefInv, NothingPacked
<1>3. PackTypeOK /\ Len(segments) \in Nat /\ segments \in Seq(Segments)
  BY LenProperties DEF BriefInv, PackTypeOK
<1>4. 0 \in 0..Len(segments)
  BY <1>3
<1>5. HistorySound' /\ NothingPacked'
  BY <1>1 DEF BriefInv, HistorySound, NothingPacked
<1>6. Range(kept) = {}
  BY <1>2, EmptyRange
<1>7. \A i : i \in Left' <=> i = 0 /\ i \notin Range(kept') /\ header > 0
  <2>1. phase' \notin {"history", "header"} /\ next' = 1 /\ header' = header
    BY <1>1, <1>2
  <2>2. \A i : i \in Seen' <=> i = 0 /\ header > 0
    BY <2>1 DEF Seen
  <2>3. \A i : i \in Left' <=> i \in Seen' /\ i \notin Range(kept')
    BY DEF Left
  <2>4. QED BY <2>2, <2>3, Zenon
<1>8. CASE header > 0 /\ Keep(0)
  <2>1. /\ Counted' /\ used' \in Nat /\ size' \in Nat
        /\ kept' \in Seq(0..Len(segments)) /\ Range(kept') = Range(kept) \cup {0}
    BY <1>1, <1>4, <1>8, KeepCounts
  <2>2. PackTypeOK'
    BY <1>1, <2>1 DEF BriefInv, PackTypeOK
  <2>3. Range(kept') = {0}
    BY <1>6, <2>1
  <2>4. KeptBehind'
    <3>1. Range(kept)' = {0} /\ next' = 1
      BY <1>1, <1>2, <2>3
    <3>2. QED BY <3>1 DEF KeptBehind
  <2>5. LeftOut'
    <3>1. Left' = {}
      BY <1>7, <2>3
    <3>2. QED BY <3>1 DEF LeftOut
  <2>6. QED BY <1>5, <2>1, <2>2, <2>4, <2>5 DEF BriefInv
<1>9. CASE (header > 0 => used + CostAt(0) > budget) /\ UNCHANGED <<kept, used, size>>
  <2>1. PackTypeOK'
    BY <1>1, <1>9 DEF BriefInv, PackTypeOK
  <2>2. KeptBehind'
    BY <1>1, <1>9 DEF BriefInv, KeptBehind
  <2>3. Counted'
    <3>1. Joined(kept)' = Joined(kept)
      BY <1>1, <1>9 DEF Joined, LengthAt
    <3>2. QED BY <1>1, <1>9, <3>1 DEF BriefInv, Counted
  <2>4. LeftOut'
    <3>1. Range(kept)' = {}
      BY <1>6, <1>9
    <3>2. \A i : CostAt(i)' = CostAt(i)
      BY <1>1 DEF CostAt, LengthAt
    <3>3. \A i \in Left' : i = 0 /\ header > 0
      BY <1>7
    <3>4. \A i \in Left' : used' + CostAt(i)' > budget'
      BY <1>1, <1>9, <3>2, <3>3
    <3>5. QED BY <3>1, <3>4 DEF LeftOut
  <2>5. QED BY <1>5, <2>1, <2>2, <2>3, <2>4 DEF BriefInv
<1>10. QED BY <1>1, <1>8, <1>9

\* A segment is kept if it fits and left out if it does not; what was left out before is
\* larger than what is kept now, and fits even less after it.
LEMMA SegmentKeeps ==
    ASSUME BriefInv, PackSegment
    PROVE  BriefInv'
<1>1. /\ phase = "loop" /\ phase' = "loop" /\ next <= Len(segments)
      /\ Keep(next) \/ Skip(next)
      /\ next' = next + 1
      /\ UNCHANGED <<messages, priorActions, strategy, segments, budget, header>>
  BY DEF PackSegment, Skip
<1>2. PackTypeOK /\ KeptBehind /\ LeftOut
  BY DEF BriefInv
<1>3. /\ \A i : i \in Left <=>
              i \in 0..(next - 1) /\ i \notin Range(kept) /\ (i > 0 \/ header > 0)
      /\ next \in 1..(Len(segments) + 1) /\ Len(segments) \in Nat
      /\ kept \in Seq(0..Len(segments)) /\ Range(kept) \subseteq 0..Len(segments)
  BY <1>1, <1>2, LeftMember
<1>4. /\ next \in 1..Len(segments) /\ next \in 0..Len(segments) /\ next \in Nat
      /\ next + 1 \in 1..(Len(segments) + 1)
  BY <1>1, <1>3
<1>5. HistorySound' /\ NothingPacked'
  BY <1>1 DEF BriefInv, HistorySound, NothingPacked
<1>6. \A i : i \in Left' <=>
              i \in 0..next /\ i \notin Range(kept') /\ (i > 0 \/ header > 0)
  <2>1. phase' \notin {"history", "header"} /\ next' - 1 = next /\ header' = header
    BY <1>1, <1>4
  <2>2. \A i : i \in Seen' <=> i \in 0..next /\ (i > 0 \/ header > 0)
    BY <2>1 DEF Seen
  <2>3. \A i : i \in Left' <=> i \in Seen' /\ i \notin Range(kept')
    BY DEF Left
  <2>4. QED BY <2>2, <2>3, Zenon
<1>7. \A i : CostAt(i)' = CostAt(i)
  BY <1>1 DEF CostAt, LengthAt
<1>8. \A i \in 0..Len(segments) : CostAt(i) \in Nat
  BY <1>2, Charges
<1>9. used \in Nat /\ budget \in Nat
  <2>1. used \in Nat /\ budget \in Budgets \cup {0}
    BY <1>2 DEF PackTypeOK
  <2>2. Budgets \subseteq Nat
    BY BriefAssumption
  <2>3. QED BY <2>1, <2>2
<1>10. next \notin Range(kept) /\ \A j \in Range(kept) : j \in 0..(next - 1)
  <2>1. \A j \in Range(kept) : j < next /\ j \in 0..Len(segments)
    BY <1>2, <1>3 DEF KeptBehind
  <2>2. \A j \in Range(kept) : j \in 0..(next - 1)
    BY <1>4, <2>1
  <2>3. QED BY <1>4, <2>1
<1>11. \A i : i \in 0..next <=> i \in 0..(next - 1) \/ i = next
  BY <1>4
<1>12. CASE Keep(next)
  <2>1. /\ Counted' /\ used' \in Nat /\ size' \in Nat
        /\ used' >= used + 1 /\ used + CostAt(next) <= budget
        /\ kept' \in Seq(0..Len(segments)) /\ Range(kept') = Range(kept) \cup {next}
    BY <1>1, <1>4, <1>12, KeepCounts
  <2>2. PackTypeOK'
    BY <1>1, <1>4, <2>1 DEF BriefInv, PackTypeOK
  <2>3. KeptBehind'
    <3>1. \A j \in Range(kept)' : j \in 0..(next - 1) \/ j = next
      BY <1>10, <2>1
    <3>2. \A j \in Range(kept)' : j < next'
      BY <1>1, <1>4, <3>1
    <3>3. QED BY <3>2 DEF KeptBehind
  <2>4. \A i \in Left' : i \in Left
    BY <1>3, <1>6, <1>11, <2>1
  <2>5. \A i \in Left : /\ used + CostAt(i) > budget /\ CostAt(i) \in Nat
                       /\ used' + CostAt(i) > budget
                       /\ CostAt(next) < CostAt(i)
    <3>1. TAKE i \in Left
    <3>2. i \in 0..Len(segments)
      BY <1>3, <1>4
    <3>3. PICK c, d : c = CostAt(i) /\ d = CostAt(next)
      OBVIOUS
    <3>4. c \in Nat /\ d \in Nat
      BY <1>4, <1>8, <3>2, <3>3
    <3>5. used + c > budget
      BY <1>2, <3>3 DEF LeftOut
    <3>6. used + d <= budget
      BY <2>1, <3>3
    <3>7. used' + c > budget /\ d < c
      <4>1. PICK u, v, b : u = used /\ v = used' /\ b = budget
        OBVIOUS
      <4>2. u \in Nat /\ v \in Nat /\ b \in Nat /\ v >= u + 1 /\ u + c > b /\ u + d <= b
        BY <1>9, <2>1, <3>5, <3>6, <4>1
      <4>3. v + c > b /\ d < c
        BY <3>4, <4>2
      <4>4. QED BY <4>1, <4>3
    <3>8. QED BY <3>3, <3>4, <3>5, <3>7
  <2>6. \A i \in Left, j \in Range(kept') : i < j => CostAt(j) < CostAt(i)
    <3>1. TAKE i \in Left, j \in Range(kept')
    <3>2. CASE j = next
      BY <2>5, <3>2
    <3>3. CASE j \in Range(kept)
      BY <1>2, <3>3 DEF LeftOut
    <3>4. QED BY <2>1, <3>2, <3>3
  <2>7. LeftOut'
    <3>1. \A i \in Left' : used' + CostAt(i)' > budget'
      BY <1>1, <1>7, <2>4, <2>5
    <3>2. \A i \in Left', j \in Range(kept)' : i < j => CostAt(j)' < CostAt(i)'
      BY <1>7, <2>4, <2>6
    <3>3. QED BY <3>1, <3>2 DEF LeftOut
  <2>8. QED BY <1>5, <2>1, <2>2, <2>3, <2>7 DEF BriefInv
<1>13. CASE Skip(next)
  <2>1. used + CostAt(next) > budget /\ UNCHANGED <<kept, used, size>>
    BY <1>13 DEF Skip
  <2>2. PackTypeOK'
    BY <1>1, <1>4, <2>1 DEF BriefInv, PackTypeOK
  <2>3. KeptBehind'
    <3>1. \A j \in Range(kept)' : j \in 0..(next - 1)
      BY <1>10, <2>1
    <3>2. \A j \in Range(kept)' : j < next'
      BY <1>1, <1>4, <3>1
    <3>3. QED BY <3>2 DEF KeptBehind
  <2>4. Counted'
    <3>1. Joined(kept)' = Joined(kept)
      BY <1>1, <2>1 DEF Joined, LengthAt
    <3>2. QED BY <1>1, <2>1, <3>1 DEF BriefInv, Counted
  <2>5. \A i \in Left' : i \in Left \/ i = next
    BY <1>3, <1>6, <1>11, <2>1
  <2>6. LeftOut'
    <3>1. \A i \in Left' : used' + CostAt(i)' > budget'
      <4>1. TAKE i \in Left'
      <4>2. used + CostAt(i) > budget
        BY <1>2, <2>1, <2>5 DEF LeftOut
      <4>3. QED BY <1>1, <1>7, <2>1, <4>2
    <3>2. \A i \in Left', j \in Range(kept)' : i < j => CostAt(j)' < CostAt(i)'
      <4>1. SUFFICES ASSUME NEW i \in Left', NEW j \in Range(kept)', i < j
                     PROVE  CostAt(j) < CostAt(i)
        BY <1>7
      <4>2. j \in Range(kept) /\ j \in 0..(next - 1)
        BY <1>10, <2>1
      <4>3. i # next
        BY <1>4, <4>1, <4>2
      <4>4. i \in Left
        BY <2>5, <4>3
      <4>5. QED BY <1>2, <4>1, <4>2, <4>4 DEF LeftOut
    <3>3. QED BY <3>1, <3>2 DEF LeftOut
  <2>7. QED BY <1>5, <2>2, <2>3, <2>4, <2>6 DEF BriefInv
<1>14. QED BY <1>1, <1>12, <1>13

\* At the end of the loop all stays as it is.
LEMMA EndKeeps ==
    ASSUME BriefInv, EndLoop
    PROVE  BriefInv'
<1>1. /\ phase = "loop" /\ phase' = "check"
      /\ UNCHANGED <<messages, priorActions, strategy, segments, budget, header, next, kept, used, size>>
  BY DEF EndLoop
<1>2. PackTypeOK'
  BY <1>1 DEF BriefInv, PackTypeOK
<1>3. HistorySound' /\ NothingPacked'
  BY <1>1 DEF BriefInv, HistorySound, NothingPacked
<1>4. KeptBehind' /\ Counted' /\ LeftOut'
  BY <1>1, PackedStays
<1>5. QED BY <1>2, <1>3, <1>4 DEF BriefInv

\* By the accounting the parts joined are within the budget.
LEMMA WithinBudget ==
    ASSUME BriefInv
    PROVE  /\ size = Joined(kept) /\ size \in Nat /\ used <= budget
           /\ estimate_tokens(size) <= budget
<1>1. size = Joined(kept) /\ used <= budget /\ (kept # <<>> => size + 1 <= 4 * used)
  BY DEF BriefInv, Counted
<1>2. size \in Nat /\ used \in Nat /\ PackTypeOK
  BY DEF BriefInv, PackTypeOK
<1>3. budget \in Nat
  <2>1. budget \in Budgets \cup {0}
    BY <1>2 DEF PackTypeOK
  <2>2. Budgets \subseteq Nat
    BY BriefAssumption
  <2>3. QED BY <2>1, <2>2
<1>4. CASE kept = <<>>
  <2>1. size = 0
    <3>1. [n \in DOMAIN kept |-> LengthAt(kept[n])] = <<>>
      BY <1>4
    <3>2. QED BY <1>1, <3>1, NothingJoined DEF Joined
  <2>2. estimate_tokens(size) = 0
    BY <2>1 DEF estimate_tokens
  <2>3. QED BY <1>1, <1>2, <1>3, <2>2
<1>5. CASE kept # <<>>
  <2>1. PICK u, b, z : u = used /\ b = budget /\ z = size
    OBVIOUS
  <2>2. u \in Nat /\ b \in Nat /\ z \in Nat /\ z + 1 <= 4 * u /\ u <= b
    BY <1>1, <1>2, <1>3, <1>5, <2>1
  <2>3. z \div 4 <= b
    BY <2>2
  <2>4. QED BY <1>1, <1>2, <2>1, <2>3 DEF estimate_tokens
<1>6. QED BY <1>4, <1>5

\* The check at the end finds nothing to take away.
LEMMA CheckKeeps ==
    ASSUME BriefInv, Check
    PROVE  BriefInv'
<1>1. /\ phase = "check" /\ phase' = "done"
      /\ UNCHANGED <<messages, priorActions, strategy, segments, budget, header, next, used>>
  BY DEF Check
<1>2. PICK n \in 0..Len(kept) :
        /\ kept' = SubSeq(kept, 1, n)
        /\ \A m \in (n + 1)..Len(kept) : estimate_tokens(Joined(SubSeq(kept, 1, m))) > budget
        /\ size' = Joined(kept')
  BY DEF Check
<1>3. PICK S : S = 0..Len(segments)
  OBVIOUS
<1>4. kept \in Seq(S) /\ Len(kept) \in Nat
  BY <1>3, LenProperties DEF BriefInv, PackTypeOK
<1>5. SubSeq(kept, 1, Len(kept)) = kept
  <2>1. PICK l, t : l = Len(kept) /\ t = SubSeq(kept, 1, l)
    OBVIOUS
  <2>2. t = [i \in 1..l |-> kept[i]]
    BY <1>4, <2>1
  <2>3. kept = [i \in 1..l |-> kept[i]]
    BY <1>4, <2>1, LenProperties
  <2>4. QED BY <2>1, <2>2, <2>3
<1>6. size = Joined(kept) /\ size \in Nat /\ used <= budget /\ estimate_tokens(size) <= budget
  BY WithinBudget
<1>7. n = Len(kept)
  <2>1. SUFFICES ASSUME n # Len(kept)
                 PROVE  FALSE
    OBVIOUS
  <2>2. Len(kept) \in (n + 1)..Len(kept)
    BY <1>4, <2>1
  <2>3. estimate_tokens(Joined(kept)) > budget
    BY <1>2, <1>5, <2>2
  <2>4. estimate_tokens(size) \in Nat
    BY <1>6 DEF estimate_tokens
  <2>5. budget \in Nat
    <3>1. budget \in Budgets \cup {0}
      BY DEF BriefInv, PackTypeOK
    <3>2. Budgets \subseteq Nat
      BY BriefAssumption
    <3>3. QED BY <3>1, <3>2
  <2>6. QED BY <1>6, <2>3, <2>4, <2>5
<1>8. kept' = kept /\ size' = size
  BY <1>2, <1>5, <1>6, <1>7
<1>9. PackTypeOK'
  BY <1>1, <1>8 DEF BriefInv, PackTypeOK
<1>10. HistorySound' /\ NothingPacked'
  BY <1>1 DEF BriefInv, HistorySound, NothingPacked
<1>11. KeptBehind' /\ Counted' /\ LeftOut'
  BY <1>1, <1>8, PackedStays
<1>12. QED BY <1>9, <1>10, <1>11 DEF BriefInv

\* As it does when nothing happens.
LEMMA BriefStutters ==
    ASSUME BriefInv, UNCHANGED packVars
    PROVE  BriefInv'
<1>1. UNCHANGED <<messages, priorActions, strategy, segments, budget, header, phase, next, kept, used, size>>
  BY DEF packVars
<1>2. PackTypeOK'
  BY <1>1 DEF BriefInv, PackTypeOK
<1>3. HistorySound' /\ NothingPacked'
  BY <1>1 DEF BriefInv, HistorySound, NothingPacked
<1>4. KeptBehind' /\ Counted' /\ LeftOut'
  BY <1>1, PackedStays
<1>5. QED BY <1>2, <1>3, <1>4 DEF BriefInv

\* Every step keeps the invariant.
LEMMA BriefStepKeeps == BriefInv /\ [PackNext]_packVars => BriefInv'
<1>1. SUFFICES ASSUME BriefInv, [PackNext]_packVars
               PROVE  BriefInv'
  OBVIOUS
<1>2. CASE UNCHANGED packVars
  BY <1>1, <1>2, BriefStutters
<1>3. CASE \E item \in Items : IngestMessage(item) \/ RecordAction(item)
  BY <1>1, <1>3, GrowthKeeps
<1>4. CASE \E b \in Budgets, h \in Headers : AssembleContext(b, h)
  <2>1. PICK b \in Budgets, h \in Headers : Retrieve("recency", b, h)
    BY <1>4 DEF AssembleContext
  <2>2. "recency" \in Strategies /\ h \in Headers \cup {0}
    BY DEF Strategies
  <2>3. QED BY <1>1, <2>1, <2>2, RetrieveKeeps
<1>5. CASE \E s \in Strategies \ {"recency"}, b \in Budgets : Retrieve(s, b, 0)
  <2>1. PICK s \in Strategies, b \in Budgets : Retrieve(s, b, 0)
    BY <1>5
  <2>2. 0 \in Headers \cup {0}
    OBVIOUS
  <2>3. QED BY <1>1, <2>1, <2>2, RetrieveKeeps
<1>6. CASE \E s \in Strategies : RetrieveRaises(s)
  BY <1>1, <1>6, RaiseKeeps
<1>7. CASE PackHeader
  BY <1>1, <1>7, HeaderKeeps
<1>8. CASE PackSegment
  BY <1>1, <1>8, SegmentKeeps
<1>9. CASE EndLoop
  BY <1>1, <1>9, EndKeeps
<1>10. CASE Check
  BY <1>1, <1>10, CheckKeeps
<1>11. QED BY <1>1, <1>2, <1>3, <1>4, <1>5, <1>6, <1>7, <1>8, <1>9, <1>10 DEF PackNext

\* So it holds throughout.
LEMMA BriefInvariant == PackSpec => []BriefInv
<1>1. BriefInv /\ [PackNext]_packVars => BriefInv'
  BY BriefStepKeeps
<1>2. QED BY <1>1, BriefInitInv, PTL DEF PackSpec

\* Whatever the history and the strategy, and whether or not elements have the same time,
\* each element of the history is shown once or left to a summary that only the oldest are
\* left to, in the order the strategy promises (context_engine/retrieval/*.py).
THEOREM BriefsKeepHistory == PackSpec => []HistoryKept
<1>1. BriefInv => HistoryKept
  <2>1. SUFFICES ASSUME BriefInv, phase \notin {"history", "failed"}
                 PROVE  KeepsHistory(strategy, messages, priorActions, segments)
    BY DEF HistoryKept, KeepsHistory
  <2>2. QED BY <2>1, MadeOfSegments DEF BriefInv, HistorySound
<1>2. QED BY <1>1, BriefInvariant, PTL

\* A brief is within its budget, for any history, header and budget: the charges by the
\* part pay for the joined text, so that the check at the end takes nothing away, and no
\* part was left out that would still fit (context_engine/brief_assembly.py, assemble_brief).
THEOREM BriefsFitBudget == PackSpec => []BriefFits
<1>1. BriefInv => BriefFits
  <2>1. SUFFICES ASSUME BriefInv
                 PROVE  BriefFits
    OBVIOUS
  <2>2. PackTypeOK /\ LeftOut
    BY <2>1 DEF BriefInv
  <2>3. size = Joined(kept) /\ used <= budget /\ estimate_tokens(size) <= budget
    BY <2>1, WithinBudget
  <2>4. QED BY <2>2, <2>3 DEF BriefFits, LeftOut
<1>2. QED BY <1>1, BriefInvariant, PTL
================================================================================
