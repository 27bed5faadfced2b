------------------------ MODULE DecisionPipelineProofs ------------------------
(***************************************************************************)
(* Proofs about the approval queue, for any set of actions, tenants and    *)
(* approvers and any set of quorum sizes, and about the decision pipeline, *)
(* for any events and action types as well.  The pipeline implements the   *)
(* queue, so what is shown of the queue alone holds of the queue inside    *)
(* the pipeline.                                                           *)
(***************************************************************************)
EXTENDS DecisionPipeline, ListLemmas

-----------------------------------------------------------------------------
(* Lemmas about the operators the queue is built from.                     *)

\* A dictionary assignment binds the key and leaves the other keys alone.
LEMMA DictPutProperties ==
    ASSUME NEW d, NEW k, NEW v
    PROVE  /\ DOMAIN DictPut(d, k, v) = DOMAIN d \cup {k}
           /\ DictPut(d, k, v)[k] = v
           /\ \A x \in DOMAIN d : x # k => DictPut(d, k, v)[x] = d[x]
BY DEF DictPut

-----------------------------------------------------------------------------
(* The inductive invariant.                                                *)

\* The empty queue the constructor makes satisfies the invariant.
THEOREM QueueInitInv == QueueInit => QueueInv
<1> SUFFICES ASSUME QueueInit PROVE QueueInv
  OBVIOUS
<1>1. DOMAIN rows = {} /\ \A t \in Tenants : pendingByTenant[t] = <<>>
  BY DEF QueueInit
<1>2. QueueTypeOK
  BY <1>1 DEF QueueInit, QueueTypeOK
<1>3. PendingListExact
  BY <1>1 DEF PendingListExact, Range
<1>4. StampsInOrder
  BY <1>1, FS_EmptySet DEF StampsInOrder
<1>5. QED BY <1>1, <1>2, <1>3, <1>4 DEF QueueInv, QuorumExact, ArmedRulesValid

\* The list part of the invariant, element by element.
LEMMA ListFacts ==
    ASSUME QueueTypeOK, PendingListExact, NEW t \in Tenants
    PROVE  LET list == pendingByTenant[t]
           IN  /\ list \in Seq(ActionIds)
               /\ Len(list) \in Nat
               /\ DOMAIN list = 1..Len(list)
               /\ IsInjective(list)
               /\ \A a : (\E j \in 1..Len(list) : list[j] = a)
                            <=> a \in DOMAIN rows /\ rows[a].state = "pending"
                                                  /\ rows[a].tenant = t
<1> DEFINE list == pendingByTenant[t]
<1>1. list \in Seq(ActionIds)
  BY DEF QueueTypeOK
<1> HIDE DEF list
<1>2. Len(list) \in Nat /\ DOMAIN list = 1..Len(list)
  BY <1>1, LenProperties
<1>3. Range(list) = {a \in DOMAIN rows : rows[a].state = "pending"
                                         /\ rows[a].tenant = t}
  BY DEF PendingListExact, list
<1>4. \A a : (\E j \in 1..Len(list) : list[j] = a)
               <=> a \in DOMAIN rows /\ rows[a].state = "pending" /\ rows[a].tenant = t
  BY <1>2, <1>3 DEF Range
<1>5. \A i, j \in 1..Len(list) :
         i < j => rows[list[i]].enqueuedAt < rows[list[j]].enqueuedAt
  BY DEF PendingListExact, list
<1>6. \A i \in 1..Len(list) : rows[list[i]].enqueuedAt \in Nat
  BY <1>4 DEF QueueTypeOK, Rows
<1>7. IsInjective(list)
  <2>1. SUFFICES ASSUME NEW i \in 1..Len(list), NEW j \in 1..Len(list),
                        list[i] = list[j], i # j
                 PROVE  FALSE
    BY <1>2 DEF IsInjective
  <2>2. i < j \/ j < i
    BY <2>1, <1>2
  <2>3. QED BY <2>1, <2>2, <1>5, <1>6
<1>8. QED BY <1>1, <1>2, <1>4, <1>7 DEF list

\* ListIs(R, list, t): list is what a tenant's pending list has to be when the
\* rows are R.
ListIs(R, list, t) ==
    /\ list \in Seq(ActionIds)
    /\ IsInjective(list)
    /\ \A b : Holds(list, b) <=> b \in DOMAIN R /\ R[b].state = "pending" /\ R[b].tenant = t
    /\ \A i, j \in 1..Len(list) : i < j => R[list[i]].enqueuedAt < R[list[j]].enqueuedAt

\* What ListIs says of a list: it holds the pending rows of its tenant, oldest
\* first.
LEMMA ListIsExact ==
    ASSUME NEW R, NEW list, NEW t, ListIs(R, list, t)
    PROVE  /\ Range(list) = {b \in DOMAIN R : R[b].state = "pending" /\ R[b].tenant = t}
           /\ \A i, j \in 1..Len(list) :
                 i < j => R[list[i]].enqueuedAt < R[list[j]].enqueuedAt
<1>1. Range(list) = {list[j] : j \in 1..Len(list)}
  BY RangeEquality DEF ListIs
<1>2. QED BY <1>1 DEF ListIs, Holds

\* In a state of the queue every tenant's list is such a list.
LEMMA ListIsNow ==
    ASSUME QueueTypeOK, PendingListExact, NEW t \in Tenants
    PROVE  ListIs(rows, pendingByTenant[t], t)
BY ListFacts DEF ListIs, Holds, PendingListExact

\* Removing an id whose row is no longer pending.
LEMMA ListIsAfterRemoval ==
    ASSUME NEW R, NEW R2, NEW old, NEW new, NEW t, NEW a,
           ListIs(R, old, t),
           new = RemoveFirst(old, a),
           DOMAIN R2 = DOMAIN R,
           \A b \in DOMAIN R : b # a => R2[b] = R[b],
           R2[a].state # "pending"
    PROVE  ListIs(R2, new, t)
<1>1. old \in Seq(ActionIds) /\ IsInjective(old)
  BY DEF ListIs
<1>2. /\ new \in Seq(ActionIds)
      /\ IsInjective(new)
      /\ \A b : Holds(new, b) <=> b # a /\ Holds(old, b)
      /\ KeepsOrder(new, old)
  BY <1>1, RemovalKeepsOrder
<1>3. \A b : Holds(new, b)
                <=> b \in DOMAIN R2 /\ R2[b].state = "pending" /\ R2[b].tenant = t
  BY <1>2 DEF ListIs
<1>4. ASSUME NEW j \in 1..Len(new)
      PROVE  R2[new[j]] = R[new[j]]
  <2>1. Holds(new, new[j])
    BY DEF Holds
  <2>2. QED BY <2>1, <1>2 DEF ListIs
<1>5. ASSUME NEW i \in 1..Len(new), NEW j \in 1..Len(new), i < j
      PROVE  R2[new[i]].enqueuedAt < R2[new[j]].enqueuedAt
  <2>1. PICK k \in 1..Len(old), l \in 1..Len(old) :
                 k < l /\ old[k] = new[i] /\ old[l] = new[j]
    BY <1>2, <1>5 DEF KeepsOrder
  <2>2. R[old[k]].enqueuedAt < R[old[l]].enqueuedAt
    BY <2>1 DEF ListIs
  <2>3. QED BY <2>1, <2>2, <1>4
<1>6. QED BY <1>2, <1>3, <1>5 DEF ListIs

\* Every change of an existing row keeps the parts of the invariant that speak
\* of one row at a time.
LEMMA RowUpdate ==
    ASSUME QueueInv, NEW a \in DOMAIN rows, NEW row \in Rows,
           rows' = DictPut(rows, a, row),
           row.required = rows[a].required,
           row.eligible = rows[a].eligible,
           row.enqueuedAt = rows[a].enqueuedAt,
           IsInjective(row.approvals),
           Range(row.approvals) \subseteq row.eligible,
           row.state # "approved" => Len(row.approvals) < row.required,
           row.state = "approved" =>
              \/ Len(row.approvals) = row.required
              \/ row.required = 1 /\ row.approvals = <<>> /\ row.decidedBy = Nobody
    PROVE  /\ DOMAIN rows' = DOMAIN rows
           /\ rows'[a] = row
           /\ \A b \in DOMAIN rows : b # a => rows'[b] = rows[b]
           /\ \A b \in DOMAIN rows' : rows'[b] \in Rows
           /\ QuorumExact'
           /\ ArmedRulesValid'
           /\ StampsInOrder'
<1>1. /\ DOMAIN rows' = DOMAIN rows
      /\ rows'[a] = row
      /\ \A b \in DOMAIN rows : b # a => rows'[b] = rows[b]
  BY DEF DictPut
<1>2. \A b \in DOMAIN rows' : rows'[b] \in Rows
  BY <1>1 DEF QueueInv, QueueTypeOK
<1>3. QuorumExact'
  BY <1>1 DEF QueueInv, QuorumExact
<1>4. ArmedRulesValid'
  <2>1. SUFFICES ASSUME NEW b \in DOMAIN rows
                 PROVE  ValidRule([required |-> rows'[b].required,
                                   eligible |-> rows'[b].eligible])
    BY <1>1 DEF ArmedRulesValid
  <2>2. rows'[b].required = rows[b].required /\ rows'[b].eligible = rows[b].eligible
    BY <1>1
  <2>3. QED BY <2>2 DEF QueueInv, ArmedRulesValid
<1>5. StampsInOrder'
  BY <1>1 DEF QueueInv, StampsInOrder
<1>6. QED BY <1>1, <1>2, <1>3, <1>4, <1>5

\* enqueue keeps the invariant: the new row is the youngest and goes last.
THEOREM EnqueueInv ==
    ASSUME QueueInv, NEW a \in ActionIds, NEW t \in Tenants, NEW rule \in QuorumRules,
           Enqueue(a, t, rule)
    PROVE  QueueInv'
<1> DEFINE row == [tenant |-> t, state |-> "pending", required |-> rule.required,
                   eligible |-> rule.eligible, approvals |-> <<>>,
                   decidedBy |-> Nobody, version |-> 1,
                   enqueuedAt |-> Cardinality(DOMAIN rows)]
<1>1. /\ DOMAIN rows' = DOMAIN rows \cup {a}
      /\ rows'[a] = row
      /\ a \notin DOMAIN rows
      /\ \A b \in DOMAIN rows : rows'[b] = rows[b]
  BY DEF Enqueue, DictPut
<1>2. Cardinality(DOMAIN rows) \in Nat
      /\ IsFiniteSet(DOMAIN rows')
      /\ Cardinality(DOMAIN rows') = Cardinality(DOMAIN rows) + 1
  BY <1>1, FS_CardinalityType, FS_AddElement DEF QueueInv, StampsInOrder, Enqueue
<1>3. row \in Rows
  BY <1>2 DEF Rows, QuorumRules, RowStates, OpenPool
<1>4. /\ Len(<<>>) = 0 /\ IsInjective(<<>>) /\ Range(<<>>) = {}
  BY DEF IsInjective, Range
<1>5. \A t2 \in Tenants :
         pendingByTenant'[t2] = IF t2 = t THEN Append(pendingByTenant[t], a)
                                ELSE pendingByTenant[t2]
  BY DEF Enqueue, QueueInv, QueueTypeOK
<1> HIDE DEF row
<1>6. QueueTypeOK'
  <2>1. pendingByTenant' \in [Tenants -> Seq(ActionIds)]
    BY AppendProperties DEF QueueInv, QueueTypeOK, Enqueue
  <2>2. QED BY <1>1, <1>3, <2>1 DEF QueueInv, QueueTypeOK
<1>7. row.required = rule.required /\ row.eligible = rule.eligible
      /\ row.approvals = <<>> /\ row.state = "pending" /\ row.tenant = t
      /\ row.enqueuedAt = Cardinality(DOMAIN rows)
  BY DEF row
<1>8. QuorumExact'
  <2>1. ASSUME NEW b \in DOMAIN rows', b # a
        PROVE  b \in DOMAIN rows /\ rows'[b] = rows[b]
    BY <1>1, <2>1
  <2>2. 0 < rule.required
    <3>1. rule.required \in Nat
      BY QueueAssumption DEF QuorumRules
    <3>2. QED BY <3>1 DEF Enqueue, ValidRule
  <2>3. QED BY <1>1, <1>4, <1>7, <2>1, <2>2 DEF QueueInv, QuorumExact
<1>9. ArmedRulesValid'
  <2>1. SUFFICES ASSUME NEW b \in DOMAIN rows'
                 PROVE  ValidRule([required |-> rows'[b].required,
                                   eligible |-> rows'[b].eligible])
    BY DEF ArmedRulesValid
  <2>2. CASE b = a
    BY <1>1, <1>7, <2>2 DEF Enqueue, ValidRule
  <2>3. CASE b # a
    BY <1>1, <2>3 DEF QueueInv, ArmedRulesValid
  <2>4. QED BY <2>2, <2>3
<1>10. StampsInOrder'
  <2>1. \A b \in DOMAIN rows : rows[b].enqueuedAt \in Nat
    BY DEF QueueInv, QueueTypeOK, Rows
  <2>2. ASSUME NEW b \in DOMAIN rows'
        PROVE  rows'[b].enqueuedAt < Cardinality(DOMAIN rows')
    <3>1. CASE b = a
      BY <1>1, <1>2, <1>7, <3>1
    <3>2. CASE b # a
      BY <1>1, <1>2, <2>1, <3>2 DEF QueueInv, StampsInOrder
    <3>3. QED BY <3>1, <3>2
  <2>3. QED BY <1>2, <2>2 DEF StampsInOrder
<1>11. PendingListExact'
  <2>1. SUFFICES ASSUME NEW u \in Tenants
                 PROVE  LET list == pendingByTenant'[u] IN
                        /\ Range(list) = {b \in DOMAIN rows' :
                                            rows'[b].state = "pending"
                                            /\ rows'[b].tenant = u}
                        /\ \A i, j \in 1..Len(list) : i < j =>
                              rows'[list[i]].enqueuedAt < rows'[list[j]].enqueuedAt
    BY DEF PendingListExact
  <2> DEFINE old == pendingByTenant[u]
             new == pendingByTenant'[u]
  <2>2. /\ old \in Seq(ActionIds)
        /\ Len(old) \in Nat
        /\ \A b : (\E j \in 1..Len(old) : old[j] = b)
              <=> b \in DOMAIN rows /\ rows[b].state = "pending" /\ rows[b].tenant = u
    BY ListFacts DEF QueueInv
  <2>3. /\ \A i, j \in 1..Len(old) : i < j =>
              rows[old[i]].enqueuedAt < rows[old[j]].enqueuedAt
        /\ \A b \in DOMAIN rows : rows[b].enqueuedAt < Cardinality(DOMAIN rows)
    BY DEF QueueInv, PendingListExact, StampsInOrder
  <2>4. \A j \in 1..Len(old) : rows'[old[j]] = rows[old[j]] /\ old[j] \in DOMAIN rows
    BY <2>2, <1>1
  <2>5. CASE u # t
    <3>1. new = old
      BY <1>5, <2>5
    <3>2. \A b : b \in DOMAIN rows' /\ rows'[b].state = "pending" /\ rows'[b].tenant = u
             <=> b \in DOMAIN rows /\ rows[b].state = "pending" /\ rows[b].tenant = u
      BY <1>1, <1>7, <2>5
    <3> HIDE DEF old, new
    <3>3. Range(old) = {old[j] : j \in 1..Len(old)}
      BY <2>2, RangeEquality
    <3>4. QED BY <2>2, <2>3, <2>4, <3>1, <3>2, <3>3 DEF new
  <2>6. CASE u = t
    <3>1. new = Append(old, a)
      BY <1>5, <2>6
    <3> HIDE DEF old, new
    <3>2. /\ new \in Seq(ActionIds)
          /\ Len(new) = Len(old) + 1
          /\ \A j \in 1..Len(old) : new[j] = old[j]
          /\ new[Len(old) + 1] = a
      BY <2>2, <3>1, AppendProperties
    <3>3. \A b : (\E j \in 1..Len(new) : new[j] = b) <=> b = a \/ \E j \in 1..Len(old) : old[j] = b
      BY <2>2, <3>2
    <3>4. \A b : b \in DOMAIN rows' /\ rows'[b].state = "pending" /\ rows'[b].tenant = u
             <=> b = a \/ (b \in DOMAIN rows /\ rows[b].state = "pending" /\ rows[b].tenant = u)
      BY <1>1, <1>7, <2>6
    <3>5. Range(new) = {new[j] : j \in 1..Len(new)}
      BY <3>2, RangeEquality
    <3>6. Range(new) = {b \in DOMAIN rows' : rows'[b].state = "pending"
                                             /\ rows'[b].tenant = u}
      <4>1. \A b : b \in Range(new) <=> \E j \in 1..Len(new) : new[j] = b
        BY <3>5
      <4>2. \A b : b \in Range(new) <=>
                b = a \/ (b \in DOMAIN rows /\ rows[b].state = "pending" /\ rows[b].tenant = u)
        BY <2>2, <3>3, <4>1
      <4>3. QED BY <3>4, <4>2
    <3>7. ASSUME NEW i \in 1..Len(new), NEW j \in 1..Len(new), i < j
          PROVE  rows'[new[i]].enqueuedAt < rows'[new[j]].enqueuedAt
      <4>1. CASE j \in 1..Len(old)
        BY <2>2, <2>3, <2>4, <3>2, <3>7, <4>1
      <4>2. CASE j = Len(old) + 1
        BY <1>1, <1>7, <2>2, <2>3, <2>4, <3>2, <3>7, <4>2
      <4>3. QED BY <4>1, <4>2, <2>2, <3>2
    <3>8. QED BY <3>6, <3>7 DEF new
  <2>7. QED BY <2>5, <2>6
<1>12. QED BY <1>6, <1>8, <1>9, <1>10, <1>11 DEF QueueInv

\* The row that the terminal transition writes.
LEMMA DecidedRow ==
    ASSUME NEW old \in Rows, NEW state \in RowStates, NEW approvals \in Seq(Approvers),
           NEW v \in OpenPool
    PROVE  LET row == ResolvedRow(old, state, v, approvals)
           IN  /\ row \in Rows
               /\ row.state = state /\ row.approvals = approvals /\ row.decidedBy = v
               /\ row.required = old.required /\ row.eligible = old.eligible
               /\ row.enqueuedAt = old.enqueuedAt /\ row.tenant = old.tenant
               /\ row.version = old.version + 1
<1> DEFINE r1 == [old EXCEPT !.state = state]
           r2 == [r1 EXCEPT !.approvals = approvals]
           r3 == [r2 EXCEPT !.decidedBy = v]
           r4 == [r3 EXCEPT !.version = @ + 1]
<1>1. ResolvedRow(old, state, v, approvals) = r4
  BY DEF ResolvedRow
<1>2. r1 \in Rows
  BY DEF Rows
<1>3. r2 \in Rows
  <2> HIDE DEF r1
  <2>1. QED BY <1>2 DEF Rows
<1>4. r3 \in Rows
  <2> HIDE DEF r2
  <2>1. QED BY <1>3 DEF Rows
<1>5. r4 \in Rows
  <2> HIDE DEF r3
  <2>1. r3.version + 1 \in Nat
    BY <1>4 DEF Rows
  <2> DEFINE n == r3.version + 1
  <2> HIDE DEF n
  <2>2. [r3 EXCEPT !.version = n] \in Rows
    BY <1>4, <2>1 DEF Rows, n
  <2>3. QED BY <2>2 DEF n
<1>6. /\ r4.state = state /\ r4.approvals = approvals /\ r4.decidedBy = v
      /\ r4.required = old.required /\ r4.eligible = old.eligible
      /\ r4.enqueuedAt = old.enqueuedAt /\ r4.tenant = old.tenant
      /\ r4.version = old.version + 1
  BY DEF Rows
<1> HIDE DEF r4
<1>7. QED BY <1>1, <1>5, <1>6

\* A row that leaves the pending state leaves its tenant's list, and that only.
THEOREM ResolveInv ==
    ASSUME QueueInv, NEW a \in ActionIds, IsPending(a),
           NEW state \in {"approved", "rejected"}, NEW v \in OpenPool,
           NEW approvals \in Seq(Approvers),
           IsInjective(approvals), Range(approvals) \subseteq rows[a].eligible,
           state = "rejected" => Len(approvals) < rows[a].required,
           state = "approved" =>
              \/ Len(approvals) = rows[a].required
              \/ rows[a].required = 1 /\ approvals = <<>> /\ v = Nobody,
           Resolve(a, state, v, approvals)
    PROVE  QueueInv'
<1> DEFINE row == ResolvedRow(rows[a], state, v, approvals)
<1>1. a \in DOMAIN rows /\ rows[a] \in Rows /\ rows[a].state = "pending"
  BY DEF IsPending, QueueInv, QueueTypeOK
<1>2. /\ row \in Rows
      /\ row.state = state /\ row.approvals = approvals /\ row.decidedBy = v
      /\ row.required = rows[a].required /\ row.eligible = rows[a].eligible
      /\ row.enqueuedAt = rows[a].enqueuedAt /\ row.tenant = rows[a].tenant
  <2>1. state \in RowStates
    BY DEF RowStates
  <2>2. QED BY <1>1, <2>1, DecidedRow
<1>3. rows' = DictPut(rows, a, row)
  BY DEF Resolve
<1> HIDE DEF row
<1>4. /\ DOMAIN rows' = DOMAIN rows
      /\ rows'[a] = row
      /\ \A b \in DOMAIN rows : b # a => rows'[b] = rows[b]
      /\ \A b \in DOMAIN rows' : rows'[b] \in Rows
      /\ QuorumExact'
      /\ ArmedRulesValid'
      /\ StampsInOrder'
  BY <1>1, <1>2, <1>3, RowUpdate
<1>5. rows[a].tenant \in Tenants
  BY <1>1 DEF Rows
<1>6. \A u \in Tenants :
         pendingByTenant'[u] = IF u = rows[a].tenant
                               THEN RemoveFirst(pendingByTenant[u], a)
                               ELSE pendingByTenant[u]
  BY <1>5 DEF Resolve, QueueInv, QueueTypeOK
<1>7. \A u \in Tenants : pendingByTenant[u] \in Seq(ActionIds)
                         /\ IsInjective(pendingByTenant[u])
  BY ListFacts DEF QueueInv
<1>8. QueueTypeOK'
  <2>1. RemoveFirst(pendingByTenant[rows[a].tenant], a) \in Seq(ActionIds)
    BY <1>5, <1>7, RemovalKeepsOrder
  <2>2. pendingByTenant' \in [Tenants -> Seq(ActionIds)]
    BY <2>1, <1>5 DEF Resolve, QueueInv, QueueTypeOK
  <2>3. QED BY <1>4, <2>2 DEF QueueInv, QueueTypeOK
<1>9. PendingListExact'
  <2>1. ASSUME NEW u \in Tenants
        PROVE  ListIs(rows', pendingByTenant'[u], u)
    <3>1. ListIs(rows, pendingByTenant[u], u)
      BY ListIsNow DEF QueueInv
    <3>2. CASE u = rows[a].tenant
      <4>1. rows'[a].state # "pending"
        BY <1>2, <1>4
      <4>2. QED BY <1>4, <1>6, <3>1, <3>2, <4>1, ListIsAfterRemoval
    <3>3. CASE u # rows[a].tenant
      <4>1. \A b : b \in DOMAIN rows' /\ rows'[b].state = "pending" /\ rows'[b].tenant = u
               <=> b \in DOMAIN rows /\ rows[b].state = "pending" /\ rows[b].tenant = u
        BY <1>1, <1>2, <1>4, <3>3
      <4>2. \A j \in 1..Len(pendingByTenant[u]) :
               rows'[pendingByTenant[u][j]] = rows[pendingByTenant[u][j]]
        BY <1>4, <3>1, <3>3 DEF ListIs, Holds
      <4>3. pendingByTenant'[u] = pendingByTenant[u]
        BY <1>6, <3>3
      <4>4. QED BY <3>1, <4>1, <4>2, <4>3 DEF ListIs
    <3>4. QED BY <3>2, <3>3
  <2>2. QED BY <2>1, ListIsExact DEF PendingListExact
<1>10. QED BY <1>4, <1>8, <1>9 DEF QueueInv

\* Appending a new voter to a duplicate-free list of eligible voters.
LEMMA AppendVoter ==
    ASSUME NEW votes \in Seq(Approvers), IsInjective(votes),
           NEW pool, Range(votes) \subseteq pool,
           NEW v \in Approvers, v \in pool, v \notin Range(votes)
    PROVE  /\ Append(votes, v) \in Seq(Approvers)
           /\ IsInjective(Append(votes, v))
           /\ Range(Append(votes, v)) \subseteq pool
           /\ Len(Append(votes, v)) = Len(votes) + 1
<1> DEFINE new == Append(votes, v)
<1>1. /\ new \in Seq(Approvers)
      /\ Len(new) = Len(votes) + 1
      /\ \A j \in 1..Len(votes) : new[j] = votes[j]
      /\ new[Len(votes) + 1] = v
  BY AppendProperties
<1> HIDE DEF new
<1>2. /\ DOMAIN votes = 1..Len(votes)
      /\ DOMAIN new = 1..(Len(votes) + 1)
      /\ Len(votes) \in Nat
  BY <1>1, LenProperties
<1>3. \A j \in 1..Len(votes) : votes[j] \in pool /\ votes[j] # v
  BY <1>2 DEF Range
<1>4. Range(new) \subseteq pool
  BY <1>1, <1>2, <1>3 DEF Range
<1>5. IsInjective(new)
  BY <1>1, <1>2, <1>3 DEF IsInjective
<1>6. QED BY <1>1, <1>4, <1>5 DEF new

\* The row that a vote short of the quorum writes.
LEMMA VotedRow ==
    ASSUME NEW old \in Rows, NEW v, Append(old.approvals, v) \in Seq(Approvers)
    PROVE  LET row == WithVote(old, v)
           IN  /\ row \in Rows
               /\ row.state = old.state /\ row.approvals = Append(old.approvals, v)
               /\ row.required = old.required /\ row.eligible = old.eligible
               /\ row.enqueuedAt = old.enqueuedAt /\ row.tenant = old.tenant
               /\ row.version = old.version + 1
<1> DEFINE r1 == [old EXCEPT !.approvals = Append(@, v)]
           r2 == [r1 EXCEPT !.version = @ + 1]
<1>1. WithVote(old, v) = r2
  BY DEF WithVote
<1>2. r1 \in Rows
  BY DEF Rows
<1>3. r2 \in Rows
  <2> HIDE DEF r1
  <2>1. QED BY <1>2 DEF Rows
<1>4. /\ r2.state = old.state /\ r2.approvals = Append(old.approvals, v)
      /\ r2.required = old.required /\ r2.eligible = old.eligible
      /\ r2.enqueuedAt = old.enqueuedAt /\ r2.tenant = old.tenant
      /\ r2.version = old.version + 1
  BY DEF Rows
<1> HIDE DEF r2
<1>5. QED BY <1>1, <1>3, <1>4

\* A vote that does not complete the quorum changes nothing but the votes.
THEOREM PartialInv ==
    ASSUME QueueInv, NEW a \in ActionIds, NEW v \in OpenPool, ApprovePartial(a, v)
    PROVE  QueueInv'
<1> DEFINE old == rows[a]
           row == WithVote(old, v)
<1>1. a \in DOMAIN rows /\ old \in Rows /\ old.state = "pending"
  BY DEF ApprovePartial, MayVote, MayDecide, IsPending, QueueInv, QueueTypeOK
<1>2. /\ Append(old.approvals, v) \in Seq(Approvers)
      /\ IsInjective(Append(old.approvals, v))
      /\ Range(Append(old.approvals, v)) \subseteq old.eligible
      /\ Len(Append(old.approvals, v)) = Len(old.approvals) + 1
  <2>1. /\ old.approvals \in Seq(Approvers)
        /\ IsInjective(old.approvals)
        /\ Range(old.approvals) \subseteq old.eligible
    BY <1>1 DEF Rows, QueueInv, QuorumExact
  <2>2. v \in Approvers /\ v \in old.eligible /\ v \notin Range(old.approvals)
    BY DEF ApprovePartial, MayVote, MayDecide, Voted, OpenPool
  <2> HIDE DEF old
  <2>3. QED BY <2>1, <2>2, AppendVoter
<1>3. Len(old.approvals) + 1 < old.required
  BY DEF ApprovePartial
<1>4. rows' = DictPut(rows, a, row) /\ pendingByTenant' = pendingByTenant
  BY DEF ApprovePartial
<1> HIDE DEF old
<1>5. /\ row \in Rows
      /\ row.state = "pending" /\ row.approvals = Append(old.approvals, v)
      /\ row.required = old.required /\ row.eligible = old.eligible
      /\ row.enqueuedAt = old.enqueuedAt /\ row.tenant = old.tenant
  BY <1>1, <1>2, VotedRow
<1> HIDE DEF row
<1>6. /\ DOMAIN rows' = DOMAIN rows
      /\ rows'[a] = row
      /\ \A b \in DOMAIN rows : b # a => rows'[b] = rows[b]
      /\ \A b \in DOMAIN rows' : rows'[b] \in Rows
      /\ QuorumExact'
      /\ ArmedRulesValid'
      /\ StampsInOrder'
  BY <1>1, <1>2, <1>3, <1>4, <1>5, RowUpdate DEF old
<1>7. QueueTypeOK'
  BY <1>4, <1>6 DEF QueueInv, QueueTypeOK
<1>8. PendingListExact'
  <2>1. \A b \in DOMAIN rows : /\ rows'[b].state = rows[b].state
                              /\ rows'[b].tenant = rows[b].tenant
                              /\ rows'[b].enqueuedAt = rows[b].enqueuedAt
    BY <1>1, <1>5, <1>6 DEF old
  <2>2. ASSUME NEW u \in Tenants
        PROVE  ListIs(rows', pendingByTenant'[u], u)
    <3>1. ListIs(rows, pendingByTenant[u], u)
      BY ListIsNow DEF QueueInv
    <3>2. \A j \in 1..Len(pendingByTenant[u]) : pendingByTenant[u][j] \in DOMAIN rows
      BY <3>1 DEF ListIs, Holds
    <3>3. QED BY <1>4, <1>6, <2>1, <3>1, <3>2 DEF ListIs
  <2>3. QED BY <2>2, ListIsExact DEF PendingListExact
<1>9. QED BY <1>6, <1>7, <1>8 DEF QueueInv

\* Every step of the queue preserves the invariant.
THEOREM QueueStep ==
    ASSUME QueueInv, [QueueNext]_queueVars
    PROVE  QueueInv'
<1>1. CASE UNCHANGED queueVars
  BY <1>1 DEF queueVars, QueueInv, QueueTypeOK, PendingListExact, QuorumExact,
              ArmedRulesValid, StampsInOrder
<1>2. ASSUME NEW a \in ActionIds, NEW t \in Tenants, NEW rule \in QuorumRules,
             Enqueue(a, t, rule)
      PROVE  QueueInv'
  BY <1>2, EnqueueInv
<1>3. ASSUME NEW a \in ActionIds, NEW v \in OpenPool, MayDecide(a, v)
      PROVE  /\ IsPending(a)
             /\ rows[a].approvals \in Seq(Approvers)
             /\ rows[a].required \in Nat /\ rows[a].required >= 1
             /\ IsInjective(rows[a].approvals)
             /\ Range(rows[a].approvals) \subseteq rows[a].eligible
             /\ Len(rows[a].approvals) \in Nat
             /\ Len(rows[a].approvals) < rows[a].required
  <2>1. IsPending(a) /\ rows[a] \in Rows
    BY <1>3 DEF MayDecide, IsPending, QueueInv, QueueTypeOK
  <2>2. rows[a].approvals \in Seq(Approvers) /\ rows[a].required \in Nat
    BY <2>1, QueueAssumption DEF Rows
  <2>3. ValidRule([required |-> rows[a].required, eligible |-> rows[a].eligible])
    BY <2>1 DEF IsPending, QueueInv, ArmedRulesValid
  <2>4. rows[a].required >= 1
    BY <2>3 DEF ValidRule
  <2>5. /\ IsInjective(rows[a].approvals)
        /\ Range(rows[a].approvals) \subseteq rows[a].eligible
        /\ Len(rows[a].approvals) < rows[a].required
    BY <2>1 DEF IsPending, QueueInv, QuorumExact
  <2>6. QED BY <2>1, <2>2, <2>4, <2>5, LenProperties
<1>4. ASSUME NEW a \in ActionIds, NEW v \in OpenPool, ApproveSingle(a, v)
      PROVE  QueueInv'
  <2>1. MayDecide(a, v) /\ rows[a].required <= 1
    BY <1>4 DEF ApproveSingle
  <2>2. /\ rows[a].required = 1
        /\ rows[a].approvals = <<>>
    BY <1>3, <2>1, EmptySeq
  <2>3. Range(<<>>) = {} /\ IsInjective(<<>>) /\ Len(<<>>) = 0
    BY DEF Range, IsInjective
  <2>4. CASE v = Nobody
    <3>1. Resolve(a, "approved", v, <<>>)
      BY <1>4, <2>2, <2>4 DEF ApproveSingle
    <3>2. QED BY <1>3, <2>1, <2>2, <2>3, <2>4, <3>1, ResolveInv
  <2>5. CASE v # Nobody
    <3> DEFINE new == Append(rows[a].approvals, v)
    <3>1. v \in Approvers /\ v \in rows[a].eligible
          /\ v \notin Range(rows[a].approvals)
      BY <2>1, <2>2, <2>3, <2>5 DEF OpenPool, MayDecide
    <3>2. /\ new \in Seq(Approvers) /\ IsInjective(new)
          /\ Range(new) \subseteq rows[a].eligible
          /\ Len(new) = Len(rows[a].approvals) + 1
      BY <1>3, <2>1, <3>1, AppendVoter
    <3>3. Resolve(a, "approved", v, new)
      BY <1>4, <2>5, <3>1 DEF ApproveSingle, Voted
    <3> HIDE DEF new
    <3>4. Len(new) = rows[a].required
      BY <2>2, <2>3, <3>2
    <3>5. QED BY <1>3, <2>1, <3>2, <3>3, <3>4, ResolveInv
  <2>6. QED BY <2>4, <2>5
<1>5. ASSUME NEW a \in ActionIds, NEW v \in OpenPool, ApproveFinal(a, v)
      PROVE  QueueInv'
  <2> DEFINE new == Append(rows[a].approvals, v)
  <2>1. MayDecide(a, v) /\ v \in Approvers /\ v \in rows[a].eligible
        /\ v \notin Range(rows[a].approvals)
    BY <1>5 DEF ApproveFinal, MayVote, MayDecide, OpenPool, Voted
  <2>2. /\ new \in Seq(Approvers) /\ IsInjective(new)
        /\ Range(new) \subseteq rows[a].eligible
        /\ Len(new) = Len(rows[a].approvals) + 1
    BY <1>3, <2>1, AppendVoter
  <2>3. Len(rows[a].approvals) + 1 >= rows[a].required /\ Resolve(a, "approved", v, new)
    BY <1>5 DEF ApproveFinal
  <2> HIDE DEF new
  <2>4. Len(new) = rows[a].required
    BY <1>3, <2>1, <2>2, <2>3
  <2>5. QED BY <1>3, <2>1, <2>2, <2>3, <2>4, ResolveInv
<1>6. ASSUME NEW a \in ActionIds, NEW v \in OpenPool, ApprovePartial(a, v)
      PROVE  QueueInv'
  BY <1>6, PartialInv
<1>7. ASSUME NEW a \in ActionIds, NEW v \in OpenPool, Veto(a, v)
      PROVE  QueueInv'
  <2>1. MayDecide(a, v) /\ Resolve(a, "rejected", v, rows[a].approvals)
    BY <1>7 DEF Veto
  <2>2. QED BY <1>3, <2>1, ResolveInv
<1>8. QED BY <1>1, <1>2, <1>4, <1>5, <1>6, <1>7 DEF QueueNext

\* The queue keeps its indexes exact, its votes lawful and its types, whatever
\* the order in which actions are enqueued, voted on and vetoed.
THEOREM QueueCorrect == QueueSpec => []QueueInv
<1>1. QED BY QueueInitInv, QueueStep, PTL DEF QueueSpec

\* Every tenant's pending list is exact at all times (PendingListExact).
THEOREM PendingListIsExact == QueueSpec => []PendingListExact
<1>1. QueueInv => PendingListExact
  BY DEF QueueInv
<1>2. QED BY <1>1, QueueCorrect, PTL

\* No row is approved short of its quorum, and none waits with it reached
\* (QuorumExact).
THEOREM QuorumIsExact == QueueSpec => []QuorumExact
<1>1. QueueInv => QuorumExact
  BY DEF QueueInv
<1>2. QED BY <1>1, QueueCorrect, PTL

\* A duplicate-free list of votes has as many voters as votes.
LEMMA VotesCounted ==
    ASSUME NEW votes \in Seq(Approvers), IsInjective(votes)
    PROVE  Cardinality(Range(votes)) = Len(votes)
<1>1. DOMAIN votes = 1..Len(votes) /\ Len(votes) \in Nat
  BY LenProperties
<1>2. votes \in Bijection(1..Len(votes), Range(votes))
  <2>1. votes \in [1..Len(votes) -> Range(votes)]
    BY <1>1, LenProperties DEF Range
  <2>2. \A i, j \in 1..Len(votes) : votes[i] = votes[j] => i = j
    BY <1>1 DEF IsInjective
  <2>3. \A x \in Range(votes) : \E i \in 1..Len(votes) : votes[i] = x
    BY <1>1 DEF Range
  <2>4. QED BY <1>1, <2>1, <2>2, <2>3 DEF Bijection, Injection, Surjection, IsInjective
<1>3. ExistsBijection(1..Len(votes), Range(votes))
  BY <1>2 DEF ExistsBijection
<1>4. QED BY <1>1, <1>3, FS_CountingElements

\* A pending row with a pool of its own always has enough of the pool left to
\* reach its quorum (NeverStuck).
THEOREM QueueNeverStuck == QueueSpec => []NeverStuck
<1>1. ASSUME QueueInv, NEW a \in DOMAIN rows, IsPending(a), rows[a].eligible # OpenPool
      PROVE  Cardinality(rows[a].eligible \ Voted(a))
                >= rows[a].required - Len(rows[a].approvals)
  <2> DEFINE votes == rows[a].approvals
             pool == rows[a].eligible
  <2>1. /\ votes \in Seq(Approvers) /\ pool \subseteq Approvers
        /\ rows[a].required \in Nat
    BY <1>1, QueueAssumption DEF QueueInv, QueueTypeOK, Rows, Pools
  <2>2. IsInjective(votes) /\ Range(votes) \subseteq pool
    BY <1>1 DEF QueueInv, QuorumExact
  <2>3. rows[a].required <= Cardinality(pool)
    <3>1. ValidRule([required |-> rows[a].required, eligible |-> pool])
      BY <1>1 DEF QueueInv, ArmedRulesValid
    <3>2. QED BY <3>1, <1>1 DEF ValidRule
  <2> HIDE DEF votes, pool
  <2>4. IsFiniteSet(pool)
    BY <2>1, QueueAssumption, FS_Subset
  <2>5. DOMAIN votes = 1..Len(votes) /\ Len(votes) \in Nat
    BY <2>1, LenProperties
  <2>6. Cardinality(Range(votes)) = Len(votes)
    BY <2>1, <2>2, VotesCounted
  <2>7. /\ Cardinality(pool \ Range(votes))
              = Cardinality(pool) - Cardinality(pool \cap Range(votes))
        /\ pool \cap Range(votes) = Range(votes)
        /\ Cardinality(pool) \in Nat
    BY <2>2, <2>4, FS_Difference, FS_CardinalityType
  <2>8. Cardinality(pool \ Range(votes)) >= rows[a].required - Len(votes)
    <3>1. Cardinality(pool \ Range(votes)) = Cardinality(pool) - Len(votes)
      BY <2>6, <2>7
    <3>2. rows[a].required \in Nat /\ Cardinality(pool) \in Nat /\ Len(votes) \in Nat
      BY <2>1, <2>5, <2>7
    <3>3. QED BY <3>1, <3>2, <2>3
  <2>9. QED BY <2>8 DEF votes, pool, Voted
<1>2. QueueInv => NeverStuck
  BY <1>1 DEF NeverStuck
<1>3. QED BY <1>2, QueueCorrect, PTL

\* Votes are only ever appended.
LEMMA VotesGrow ==
    ASSUME NEW votes \in Seq(Approvers)
    PROVE  /\ IsPrefix(votes, votes)
           /\ \A v \in Approvers : IsPrefix(votes, Append(votes, v))
<1>1. ASSUME NEW v \in Approvers
      PROVE  Append(votes, v) = votes \o <<v>> /\ <<v>> \in Seq(Approvers)
  BY AppendIsConcat
<1>2. IsPrefix(votes, votes)
  BY ConcatExtends
<1>3. QED BY <1>1, <1>2, ConcatExtends

\* What a call may do to the rows there are.
LEMMA RowsStep ==
    ASSUME QueueInv, [QueueNext]_queueVars
    PROVE  RowsEvolve
<1>1. ASSUME QueueInv, NEW a \in ActionIds, IsPending(a), NEW row,
             rows' = DictPut(rows, a, row), RowEvolves(rows[a], row)
      PROVE  RowsEvolve
  BY <1>1 DEF RowsEvolve, DictPut, IsPending
<1>2. ASSUME QueueInv, NEW a \in ActionIds, NEW v \in OpenPool, MayDecide(a, v)
      PROVE  /\ IsPending(a) /\ rows[a] \in Rows /\ rows[a].state = "pending"
             /\ rows[a].approvals \in Seq(Approvers)
  BY <1>2 DEF MayDecide, IsPending, QueueInv, QueueTypeOK, Rows
<1>3. ASSUME QueueInv, NEW a \in ActionIds, NEW v \in OpenPool, MayDecide(a, v),
             NEW state \in {"approved", "rejected"},
             NEW approvals \in Seq(Approvers),
             IsPrefix(rows[a].approvals, approvals),
             Resolve(a, state, v, approvals)
      PROVE  RowsEvolve
  <2> DEFINE row == ResolvedRow(rows[a], state, v, approvals)
  <2>1. IsPending(a) /\ rows[a] \in Rows /\ rows[a].state = "pending" /\ state \in RowStates
    BY <1>2, <1>3 DEF RowStates
  <2>2. rows' = DictPut(rows, a, row)
    BY <1>3 DEF Resolve
  <2>3. /\ row.approvals = approvals
        /\ row.required = rows[a].required /\ row.eligible = rows[a].eligible
        /\ row.enqueuedAt = rows[a].enqueuedAt /\ row.tenant = rows[a].tenant
        /\ row.version = rows[a].version + 1
    BY <2>1, DecidedRow
  <2> HIDE DEF row
  <2>4. RowEvolves(rows[a], row)
    BY <1>3, <2>1, <2>3 DEF RowEvolves
  <2>5. QED BY <1>1, <1>3, <2>1, <2>2, <2>4
<1>4. ASSUME QueueInv, QueueNext
      PROVE  RowsEvolve
  <2>1. ASSUME NEW a \in ActionIds, NEW t \in Tenants, NEW rule \in QuorumRules,
               Enqueue(a, t, rule)
        PROVE  RowsEvolve
    BY <2>1 DEF RowsEvolve, Enqueue, DictPut
  <2>2. ASSUME NEW a \in ActionIds, NEW v \in OpenPool, ApproveSingle(a, v)
        PROVE  RowsEvolve
    <3>1. MayDecide(a, v) /\ rows[a].approvals \in Seq(Approvers)
      BY <1>2, <1>4, <2>2 DEF ApproveSingle
    <3>2. CASE v # Nobody /\ v \notin Voted(a)
      <4>1. /\ v \in Approvers
            /\ Append(rows[a].approvals, v) \in Seq(Approvers)
            /\ IsPrefix(rows[a].approvals, Append(rows[a].approvals, v))
        BY <3>1, <3>2, VotesGrow, AppendProperties DEF OpenPool
      <4>2. Resolve(a, "approved", v, Append(rows[a].approvals, v))
        BY <2>2, <3>2 DEF ApproveSingle
      <4>3. QED BY <1>3, <1>4, <3>1, <4>1, <4>2
    <3>3. CASE ~(v # Nobody /\ v \notin Voted(a))
      <4>1. Resolve(a, "approved", v, rows[a].approvals)
        BY <2>2, <3>3 DEF ApproveSingle
      <4>2. QED BY <1>3, <1>4, <3>1, <4>1, VotesGrow
    <3>4. QED BY <3>2, <3>3
  <2>3. ASSUME NEW a \in ActionIds, NEW v \in OpenPool, MayVote(a, v)
        PROVE  /\ MayDecide(a, v) /\ v \in Approvers
               /\ Append(rows[a].approvals, v) \in Seq(Approvers)
               /\ IsPrefix(rows[a].approvals, Append(rows[a].approvals, v))
    <3>1. MayDecide(a, v) /\ v \in Approvers
      BY <2>3 DEF MayVote, OpenPool
    <3>2. rows[a].approvals \in Seq(Approvers)
      BY <1>2, <1>4, <3>1
    <3>3. QED BY <3>1, <3>2, VotesGrow, AppendProperties
  <2>4. ASSUME NEW a \in ActionIds, NEW v \in OpenPool, ApproveFinal(a, v)
        PROVE  RowsEvolve
    BY <1>3, <1>4, <2>3, <2>4 DEF ApproveFinal
  <2>5. ASSUME NEW a \in ActionIds, NEW v \in OpenPool, ApprovePartial(a, v)
        PROVE  RowsEvolve
    <3> DEFINE row == WithVote(rows[a], v)
    <3>1. /\ MayVote(a, v)
          /\ rows' = DictPut(rows, a, row)
      BY <2>5 DEF ApprovePartial
    <3>2. IsPending(a) /\ rows[a] \in Rows /\ rows[a].state = "pending"
      BY <1>2, <1>4, <2>3, <3>1
    <3>3. /\ row.approvals = Append(rows[a].approvals, v)
          /\ row.required = rows[a].required /\ row.eligible = rows[a].eligible
          /\ row.enqueuedAt = rows[a].enqueuedAt /\ row.tenant = rows[a].tenant
          /\ row.version = rows[a].version + 1
      BY <2>3, <3>1, <3>2, VotedRow
    <3> HIDE DEF row
    <3>4. RowEvolves(rows[a], row)
      BY <2>3, <3>1, <3>2, <3>3 DEF RowEvolves
    <3>5. QED BY <1>1, <1>4, <3>1, <3>2, <3>4
  <2>6. ASSUME NEW a \in ActionIds, NEW v \in OpenPool, Veto(a, v)
        PROVE  RowsEvolve
    <3>1. /\ MayDecide(a, v)
          /\ Resolve(a, "rejected", v, rows[a].approvals)
      BY <2>6 DEF Veto
    <3>2. rows[a].approvals \in Seq(Approvers)
      BY <1>2, <1>4, <3>1
    <3>3. QED BY <1>3, <1>4, <3>1, <3>2, VotesGrow
  <2>7. QED BY <1>4, <2>1, <2>2, <2>4, <2>5, <2>6 DEF QueueNext
<1>5. CASE UNCHANGED queueVars
  BY <1>5 DEF queueVars, RowsEvolve
<1>6. QED BY <1>4, <1>5

\* A step changes an existing row only as RowEvolves allows, and no row is lost
\* (RowHistory): what resolve, vote and veto may do to each other's rows.
THEOREM RowsKeepHistory == QueueSpec => RowHistory
<1>1. QueueInv /\ [QueueNext]_queueVars => [RowsEvolve]_queueVars
  BY RowsStep
<1>2. QED BY <1>1, QueueCorrect, PTL DEF QueueSpec, RowHistory

-----------------------------------------------------------------------------
(* The pipeline drives the queue only through the queue's own operations.  *)

\* Every handler that clear is not does to the queue what one of its calls does, or
\* nothing.
LEMMA PipelineStepIsQueueStep ==
    ASSUME PipelineTypeOK, [PipelineNext]_vars
    PROVE  [QueueNext]_queueVars
<1>1. CASE UNCHANGED vars
  BY <1>1 DEF vars, queueVars
<1>2. ASSUME NEW a \in ActionIds, NEW t \in Tenants, NEW e \in Events,
             NEW ty \in ActionTypes, NEW by \in Planners,
             HandleProposal(a, t, e, ty, by)
      PROVE  [QueueNext]_queueVars
  <2>1. CASE ProposeReject(a, t, e, ty, by)
    BY <2>1 DEF ProposeReject, queueVars
  <2>2. CASE ProposeQueue(a, t, e, ty, by)
    <3>1. Enqueue(a, t, ResolveQuorum(t, ty))
      BY <2>2 DEF ProposeQueue
    <3>2. ResolveQuorum(t, ty) \in QuorumRules
      BY PipelineAssumption DEF ResolveQuorum, SingleApprover, QuorumRules, Pools,
                                PipelineTypeOK
    <3>3. QED BY <3>1, <3>2 DEF QueueNext
  <2>3. CASE \E ok \in BOOLEAN : ProposeAuto(a, t, e, ty, by, ok)
    BY <2>3 DEF ProposeAuto, queueVars
  <2>4. QED BY <1>2, <2>1, <2>2, <2>3 DEF HandleProposal
<1>3. ASSUME NEW a \in ActionIds, NEW v \in Approvers,
             NEW tn \in Tenants \cup {AnyTenant}, Decide(a, v, tn)
      PROVE  [QueueNext]_queueVars
  <2>1. v \in OpenPool
    BY DEF OpenPool
  <2>2. \/ ApprovePartial(a, v) \/ ApproveSingle(a, v) \/ ApproveFinal(a, v)
        \/ Veto(a, v)
    BY <1>3 DEF Decide, ApproveVote, ApproveExecute, RejectAction
  <2>3. QED BY <2>1, <2>2 DEF QueueNext
<1>4. ASSUME NEW t \in Tenants, Configure(t)
      PROVE  [QueueNext]_queueVars
  BY <1>4 DEF Configure, SetPolicies, SetQuorumRule
<1>5. QED BY <1>1, <1>2, <1>3, <1>4 DEF PipelineNext

-----------------------------------------------------------------------------
(* Types.                                                                  *)

\* Changing an action's status keeps the store well typed.
LEMMA SetStatusType ==
    ASSUME PipelineTypeOK, NEW a \in DOMAIN actions, NEW status \in Statuses,
           SetStatus(a, status)
    PROVE  /\ DOMAIN actions' \subseteq ActionIds
           /\ \A b \in DOMAIN actions' : actions'[b] \in ActionRecords
BY DEF SetStatus, DictPut, PipelineTypeOK, ActionRecords

\* The store holds action records after a put.
LEMMA PutType ==
    ASSUME PipelineTypeOK, NEW a \in ActionIds, NEW t \in Tenants, NEW e \in Events,
           NEW ty \in ActionTypes, NEW status \in Statuses, Put(a, t, e, ty, status)
    PROVE  /\ DOMAIN actions' \subseteq ActionIds
           /\ \A b \in DOMAIN actions' : actions'[b] \in ActionRecords
BY DEF Put, DictPut, PipelineTypeOK, ActionRecords

\* The trail holds audit entries after a write.
LEMMA WriteType ==
    ASSUME PipelineTypeOK, NEW a \in ActionIds, NEW entries \in Seq(AuditEntries),
           Write(a, entries)
    PROVE  trail' \in [ActionIds -> Seq(AuditEntries)]
<1>1. trail[a] \in Seq(AuditEntries)
  BY DEF PipelineTypeOK
<1>2. trail[a] \o entries \in Seq(AuditEntries)
  BY <1>1, ConcatProperties
<1>3. QED BY <1>2 DEF Write, PipelineTypeOK

\* Lists of one to three elements are lists.
LEMMA ShortSequences ==
    ASSUME NEW S, NEW x \in S, NEW y \in S, NEW z \in S
    PROVE  <<x>> \in Seq(S) /\ <<x, y>> \in Seq(S) /\ <<x, y, z>> \in Seq(S)
OBVIOUS

\* Every row a handler writes is an audit entry.
LEMMA EntryTypes ==
    /\ \A by \in Planners : Proposed(by) \in AuditEntries
    /\ \A d \in Decisions : Decided(d) \in AuditEntries
    /\ \A v \in OpenPool : Rejected(v) \in AuditEntries
    /\ \A ok \in BOOLEAN : Executed(ok) \in AuditEntries
    /\ \A v \in OpenPool, n \in Nat, s \in {"quorum_open", "quorum_reached"} :
           Signed(v, n, s) \in AuditEntries
<1>1. Nobody \in OpenPool
  BY DEF OpenPool
<1>2. QED BY <1>1 DEF AuditEntries, Proposed, Decided, Rejected, Executed, Signed

\* The dedup index and the executor's call counts.
LEMMA NewProposalType ==
    ASSUME PipelineTypeOK, NEW a \in ActionIds, NEW t \in Tenants, NEW e \in Events,
           NewProposal(a, t, e)
    PROVE  /\ DOMAIN dedup' \subseteq Tenants \X Events
           /\ \A k \in DOMAIN dedup' : dedup'[k] \in ActionIds
           /\ policy' = policy /\ quorum' = quorum
BY DEF NewProposal, DictPut, PipelineTypeOK

\* The executor's count stays a number.
LEMMA RunExecutorType ==
    ASSUME PipelineTypeOK, NEW a \in ActionIds, RunExecutor(a)
    PROVE  effects' \in [ActionIds -> Nat]
BY DEF RunExecutor, PipelineTypeOK

\* What a decision writes to the trail.
LEMMA DecisionEntries ==
    ASSUME QueueTypeOK', NEW a \in ActionIds, NEW v \in Approvers,
           NEW tn \in Tenants \cup {AnyTenant}, Decide(a, v, tn)
    PROVE  \E entries \in Seq(AuditEntries) : entries # <<>> /\ Write(a, entries)
<1>1. Len(rows'[a].approvals) \in Nat
  <2>1. a \in DOMAIN rows /\ (ApprovePartial(a, v) \/ ApproveSingle(a, v)
                              \/ ApproveFinal(a, v) \/ Veto(a, v))
    BY DEF Decide, ApproveVote, ApproveExecute, RejectAction, ApprovePartial,
                ApproveSingle, ApproveFinal, Veto, MayVote, MayDecide, IsPending
  <2>2. a \in DOMAIN rows'
    BY <2>1 DEF ApprovePartial, ApproveSingle, ApproveFinal, Veto, Resolve, DictPut
  <2>3. rows'[a].approvals \in Seq(Approvers)
    BY <2>2 DEF QueueTypeOK, Rows
  <2>4. QED BY <2>3, LenProperties
<1>2. /\ Rejected(v) \in AuditEntries
      /\ \A ok \in BOOLEAN : Executed(ok) \in AuditEntries
      /\ Signed(v, Len(rows'[a].approvals), "quorum_open") \in AuditEntries
      /\ Signed(v, Len(rows'[a].approvals), "quorum_reached") \in AuditEntries
  BY <1>1, EntryTypes DEF OpenPool
<1> DEFINE n == Len(rows'[a].approvals)
<1>3. CASE ApproveVote(a, v, tn)
  <2>1. <<Signed(v, n, "quorum_open")>> \in Seq(AuditEntries)
    BY <1>2, ShortSequences
  <2>2. QED BY <2>1, <1>3 DEF ApproveVote
<1>4. ASSUME NEW ok \in BOOLEAN, ApproveExecute(a, v, tn, ok)
      PROVE  \E entries \in Seq(AuditEntries) : entries # <<>> /\ Write(a, entries)
  <2>1. <<Signed(v, n, "quorum_reached"), Executed(ok)>> \in Seq(AuditEntries)
    BY <1>2, ShortSequences
  <2>2. QED BY <2>1, <1>4 DEF ApproveExecute
<1>5. CASE RejectAction(a, v, tn)
  <2>1. <<Rejected(v)>> \in Seq(AuditEntries)
    BY <1>2, ShortSequences
  <2>2. QED BY <2>1, <1>5 DEF RejectAction
<1>6. QED BY <1>3, <1>4, <1>5 DEF Decide

\* Every handler keeps the types of its stores.
LEMMA PipelineTypeStep ==
    ASSUME QueueInv, PipelineTypeOK, [PipelineNext]_vars
    PROVE  PipelineTypeOK'
<1>1. QueueTypeOK'
  BY QueueStep, PipelineStepIsQueueStep DEF QueueInv
<1>2. CASE UNCHANGED vars
  BY <1>1, <1>2 DEF vars, pipelineVars, PipelineTypeOK
<1>3. ASSUME NEW a \in ActionIds, NEW t \in Tenants, NEW e \in Events,
             NEW ty \in ActionTypes, NEW by \in Planners,
             HandleProposal(a, t, e, ty, by)
      PROVE  PipelineTypeOK'
  <2>1. NewProposal(a, t, e)
    BY <1>3 DEF HandleProposal, ProposeReject, ProposeQueue, ProposeAuto
  <2>2. \E status \in Statuses : Put(a, t, e, ty, status)
    BY <1>3 DEF HandleProposal, ProposeReject, ProposeQueue, ProposeAuto, Statuses,
                ExecStatus
  <2>3. \E entries \in Seq(AuditEntries) : Write(a, entries)
    <3>1. /\ Proposed(by) \in AuditEntries /\ Rejected(Nobody) \in AuditEntries
          /\ \A ok \in BOOLEAN : Executed(ok) \in AuditEntries
      BY EntryTypes DEF OpenPool
    <3>2. /\ Decided("reject") \in AuditEntries /\ Decided("auto") \in AuditEntries
          /\ Decided("approval_required") \in AuditEntries
      BY EntryTypes DEF Decisions
    <3>3. CASE ProposeReject(a, t, e, ty, by)
      <4>1. <<Proposed(by), Decided("reject"), Rejected(Nobody)>> \in Seq(AuditEntries)
        BY <3>1, <3>2, ShortSequences
      <4>2. QED BY <4>1, <3>3 DEF ProposeReject
    <3>4. CASE ProposeQueue(a, t, e, ty, by)
      <4>1. <<Proposed(by), Decided("approval_required")>> \in Seq(AuditEntries)
        BY <3>1, <3>2, ShortSequences
      <4>2. QED BY <4>1, <3>4 DEF ProposeQueue
    <3>5. ASSUME NEW ok \in BOOLEAN, ProposeAuto(a, t, e, ty, by, ok)
          PROVE  \E entries \in Seq(AuditEntries) : Write(a, entries)
      <4>1. <<Proposed(by), Decided("auto"), Executed(ok)>> \in Seq(AuditEntries)
        BY <3>1, <3>2, ShortSequences
      <4>2. QED BY <4>1, <3>5 DEF ProposeAuto
    <3>6. QED BY <1>3, <3>3, <3>4, <3>5 DEF HandleProposal
  <2>4. effects' \in [ActionIds -> Nat]
    <3>1. effects' = effects \/ RunExecutor(a)
      BY <1>3 DEF HandleProposal, ProposeReject, ProposeQueue, ProposeAuto
    <3>2. QED BY <3>1, RunExecutorType DEF PipelineTypeOK
  <2>5. QED BY <1>1, <2>1, <2>2, <2>3, <2>4, NewProposalType, PutType, WriteType
            DEF PipelineTypeOK
<1>4. ASSUME NEW a \in ActionIds, NEW v \in Approvers,
             NEW tn \in Tenants \cup {AnyTenant}, Decide(a, v, tn)
      PROVE  PipelineTypeOK'
  <2>1. a \in DOMAIN actions /\ UNCHANGED <<dedup, policy, quorum>>
    BY <1>4 DEF Decide, ApproveVote, ApproveExecute, RejectAction, Visible
  <2>2. /\ DOMAIN actions' \subseteq ActionIds
        /\ \A b \in DOMAIN actions' : actions'[b] \in ActionRecords
    <3>1. actions' = actions \/ \E status \in Statuses : SetStatus(a, status)
      BY <1>4 DEF Decide, ApproveVote, ApproveExecute, RejectAction, Statuses, ExecStatus
    <3>2. QED BY <2>1, <3>1, SetStatusType DEF PipelineTypeOK
  <2>3. \E entries \in Seq(AuditEntries) : Write(a, entries)
    BY <1>1, <1>4, DecisionEntries
  <2>4. effects' \in [ActionIds -> Nat]
    <3>1. effects' = effects \/ RunExecutor(a)
      BY <1>4 DEF Decide, ApproveVote, ApproveExecute, RejectAction
    <3>2. QED BY <3>1, RunExecutorType DEF PipelineTypeOK
  <2>5. QED BY <1>1, <2>1, <2>2, <2>3, <2>4, WriteType DEF PipelineTypeOK
<1>5. ASSUME NEW t \in Tenants, Configure(t)
      PROVE  PipelineTypeOK'
  <2>1. UNCHANGED <<actions, dedup, trail, effects>>
    BY <1>5 DEF Configure, SetPolicies, SetQuorumRule
  <2>2. policy' \in [Tenants -> [ActionTypes -> Decisions]]
    BY <1>5 DEF Configure, SetPolicies, SetQuorumRule, PipelineTypeOK
  <2>3. /\ DOMAIN quorum' \subseteq Tenants \X ActionTypes
        /\ \A k \in DOMAIN quorum' : quorum'[k] \in QuorumRules /\ ValidRule(quorum'[k])
    <3>1. CASE quorum' = quorum
      BY <3>1 DEF PipelineTypeOK
    <3>2. ASSUME NEW ty \in ActionTypes, NEW rule \in QuorumRules,
                 SetQuorumRule(t, ty, rule)
          PROVE  /\ DOMAIN quorum' \subseteq Tenants \X ActionTypes
                 /\ \A k \in DOMAIN quorum' : quorum'[k] \in QuorumRules
                                            /\ ValidRule(quorum'[k])
      <4> DEFINE key == <<t, ty>>
      <4>2. /\ ValidRule(rule) /\ key \in Tenants \X ActionTypes
            /\ quorum' = DictPut(quorum, key, rule)
        BY <3>2 DEF SetQuorumRule
      <4> HIDE DEF key
      <4>1. /\ DOMAIN quorum' = DOMAIN quorum \cup {key}
            /\ quorum'[key] = rule
            /\ \A k \in DOMAIN quorum : k # key => quorum'[k] = quorum[k]
        BY <4>2 DEF DictPut
      <4>3. QED BY <4>1, <4>2 DEF PipelineTypeOK
    <3>3. QED BY <1>5, <3>1, <3>2 DEF Configure, SetPolicies
  <2>4. QED BY <1>1, <2>1, <2>2, <2>3 DEF PipelineTypeOK
<1>6. QED BY <1>2, <1>3, <1>4, <1>5 DEF PipelineNext

\* clear leaves what the process starts with, but for the policies.
LEMMA ClearTypes ==
    ASSUME PipelineTypeOK, Clear
    PROVE  PipelineTypeOK' /\ QueueInv'
<1>1. QueueInit'
  BY DEF Clear, QueueInit
<1>2. QueueInit' => QueueInv'
  BY QueueInitInv, PTL
<1>3. PipelineTypeOK'
  BY <1>1, <1>2 DEF Clear, PipelineTypeOK, QueueInv
<1>4. QED BY <1>1, <1>2, <1>3

\* The stores begin empty, and typed.
LEMMA PipelineInitTypes == PipelineInit => PipelineTypeOK /\ QueueInv
<1> SUFFICES ASSUME PipelineInit PROVE PipelineTypeOK /\ QueueInv
  OBVIOUS
<1>1. QueueInv
  BY QueueInitInv DEF PipelineInit
<1>2. PipelineTypeOK
  BY <1>1 DEF PipelineInit, PipelineTypeOK, QueueInv, Decisions
<1>3. QED BY <1>1, <1>2

\* Every variable of the pipeline keeps its type, and the queue inside it keeps
\* the queue's invariant: votes, lists and armed rules.
THEOREM PipelineTyped == ClearableSpec => [](PipelineTypeOK /\ QueueInv)
<1>1. PipelineTypeOK /\ QueueInv /\ [PipelineNext]_vars => (PipelineTypeOK /\ QueueInv)'
  BY PipelineTypeStep, PipelineStepIsQueueStep, QueueStep
<1>2. PipelineTypeOK /\ QueueInv /\ [PipelineNext \/ Clear]_vars
          => (PipelineTypeOK /\ QueueInv)'
  BY <1>1, ClearTypes
<1>3. QED BY PipelineInitTypes, <1>2, PTL DEF ClearableSpec

\* The pipeline implements the approval queue.
THEOREM PipelineImplementsQueue == PipelineSpec => QueueSpec
<1>1. PipelineInit => QueueInit
  BY DEF PipelineInit
<1>2. PipelineTypeOK /\ [PipelineNext]_vars => [QueueNext]_queueVars
  BY PipelineStepIsQueueStep
<1>3. PipelineSpec => ClearableSpec
  BY PTL DEF PipelineSpec, ClearableSpec
<1>4. QED BY <1>1, <1>2, <1>3, PipelineTyped, PTL DEF PipelineSpec, QueueSpec

-----------------------------------------------------------------------------
(* One action per event.                                                   *)

\* A step either materializes one action, with its entry in the index, or keeps
\* every action's tenant and event and the index.
LEMMA StoreStep ==
    ASSUME PipelineTypeOK, [PipelineNext]_vars
    PROVE  \/ \E a \in ActionIds, t \in Tenants, e \in Events :
                 /\ NewProposal(a, t, e)
                 /\ \E ty \in ActionTypes, status \in Statuses : Put(a, t, e, ty, status)
           \/ /\ dedup' = dedup
              /\ DOMAIN actions' = DOMAIN actions
              /\ \A a \in DOMAIN actions : /\ actions'[a].tenant = actions[a].tenant
                                           /\ actions'[a].event = actions[a].event
<1>1. CASE UNCHANGED vars
  BY <1>1 DEF vars, pipelineVars
<1>2. ASSUME NEW a \in ActionIds, NEW t \in Tenants, NEW e \in Events,
             NEW ty \in ActionTypes, NEW by \in Planners,
             HandleProposal(a, t, e, ty, by)
      PROVE  /\ NewProposal(a, t, e)
             /\ \E status \in Statuses : Put(a, t, e, ty, status)
  BY <1>2 DEF HandleProposal, ProposeReject, ProposeQueue, ProposeAuto, Statuses, ExecStatus
<1>3. ASSUME NEW a \in ActionIds, NEW v \in Approvers,
             NEW tn \in Tenants \cup {AnyTenant}, Decide(a, v, tn)
      PROVE  /\ dedup' = dedup
             /\ DOMAIN actions' = DOMAIN actions
             /\ \A b \in DOMAIN actions : /\ actions'[b].tenant = actions[b].tenant
                                          /\ actions'[b].event = actions[b].event
  <2>1. /\ dedup' = dedup /\ a \in DOMAIN actions
        /\ actions' = actions \/ \E status \in Statuses : SetStatus(a, status)
    BY <1>3 DEF Decide, ApproveVote, ApproveExecute, RejectAction, Visible, Statuses,
                ExecStatus
  <2>2. CASE actions' = actions
    BY <2>1, <2>2
  <2>3. ASSUME NEW status \in Statuses, SetStatus(a, status)
        PROVE  /\ DOMAIN actions' = DOMAIN actions
               /\ \A b \in DOMAIN actions : /\ actions'[b].tenant = actions[b].tenant
                                            /\ actions'[b].event = actions[b].event
    BY <2>1, <2>3 DEF SetStatus, DictPut, PipelineTypeOK, ActionRecords
  <2>4. QED BY <2>1, <2>2, <2>3
<1>4. ASSUME NEW t \in Tenants, Configure(t)
      PROVE  dedup' = dedup /\ actions' = actions
  BY <1>4 DEF Configure, SetPolicies, SetQuorumRule
<1>5. QED BY <1>1, <1>2, <1>3, <1>4 DEF PipelineNext

\* No handler gives an event a second action or leaves the index behind the store.
LEMMA OneActionStep ==
    ASSUME PipelineTypeOK, OneActionPerEvent, [PipelineNext]_vars
    PROVE  OneActionPerEvent'
<1>1. ASSUME NEW a \in ActionIds, NEW t \in Tenants, NEW e \in Events,
             NewProposal(a, t, e),
             NEW ty \in ActionTypes, NEW status \in Statuses, Put(a, t, e, ty, status)
      PROVE  OneActionPerEvent'
  <2> DEFINE key == <<t, e>>
             new == [tenant |-> t, event |-> e, type |-> ty, status |-> status]
  <2>1. /\ key \notin DOMAIN dedup /\ a \notin DOMAIN actions
        /\ dedup' = DictPut(dedup, key, a)
        /\ actions' = DictPut(actions, a, new)
    BY <1>1 DEF NewProposal, Put
  <2>2. <<new.tenant, new.event>> = key
    OBVIOUS
  <2> HIDE DEF key, new
  <2>3. /\ DOMAIN dedup' = DOMAIN dedup \cup {key} /\ dedup'[key] = a
        /\ \A k \in DOMAIN dedup : dedup'[k] = dedup[k]
        /\ DOMAIN actions' = DOMAIN actions \cup {a} /\ actions'[a] = new
        /\ \A b \in DOMAIN actions : actions'[b] = actions[b]
    BY <2>1 DEF DictPut
  <2>4. ASSUME NEW k \in DOMAIN dedup'
        PROVE  /\ dedup'[k] \in DOMAIN actions'
               /\ <<actions'[dedup'[k]].tenant, actions'[dedup'[k]].event>> = k
    <3>1. CASE k = key
      BY <2>2, <2>3, <3>1
    <3>2. CASE k # key
      BY <2>3, <3>2 DEF OneActionPerEvent
    <3>3. QED BY <3>1, <3>2
  <2>5. ASSUME NEW b \in DOMAIN actions'
        PROVE  /\ <<actions'[b].tenant, actions'[b].event>> \in DOMAIN dedup'
               /\ dedup'[<<actions'[b].tenant, actions'[b].event>>] = b
    <3>1. CASE b = a
      BY <2>2, <2>3, <3>1
    <3>2. CASE b # a
      BY <2>3, <3>2 DEF OneActionPerEvent
    <3>3. QED BY <3>1, <3>2
  <2>6. QED BY <2>4, <2>5 DEF OneActionPerEvent
<1>2. CASE /\ dedup' = dedup
           /\ DOMAIN actions' = DOMAIN actions
           /\ \A a \in DOMAIN actions : /\ actions'[a].tenant = actions[a].tenant
                                        /\ actions'[a].event = actions[a].event
  BY <1>2 DEF OneActionPerEvent
<1>3. QED BY <1>1, <1>2, StoreStep

\* However often an event is delivered, it has one action, and every action is
\* found by its event (OneActionPerEvent).
THEOREM OneActionPerEventHolds == ClearableSpec => []OneActionPerEvent
<1>1. PipelineInit => OneActionPerEvent
  BY DEF PipelineInit, OneActionPerEvent
<1>2. Clear => OneActionPerEvent'
  BY DEF Clear, OneActionPerEvent
<1>3. PipelineTypeOK /\ OneActionPerEvent /\ [PipelineNext \/ Clear]_vars
          => OneActionPerEvent'
  BY <1>2, OneActionStep
<1>4. QED BY <1>1, <1>3, PipelineTyped, PTL DEF ClearableSpec

-----------------------------------------------------------------------------
(* The executor runs only with authority.                                  *)

\* What makes it inductive: an action that is not in the store has done nothing
\* and is not queued, one that waits for approval has not been executed, and
\* the second audit row, which names the decision, is never the last to come.
ExecOK(a) ==
    /\ a \notin DOMAIN actions => /\ a \notin DOMAIN rows
                                 /\ effects[a] = 0
                                 /\ trail[a] = <<>>
    /\ a \in DOMAIN actions => Len(trail[a]) >= 2
    /\ IsPending(a) => effects[a] = 0
    /\ effects[a] > 0 => /\ effects[a] = 1
                         /\ actions[a].status \in {"executed", "execution_failed"}
                         /\ Authorized(a)

ExecInv == \A a \in ActionIds : ExecOK(a)

\* A step on one action leaves the others as they are.
Untouched(b) ==
    /\ b \in DOMAIN actions' <=> b \in DOMAIN actions
    /\ b \in DOMAIN actions => actions'[b] = actions[b]
    /\ b \in DOMAIN rows' <=> b \in DOMAIN rows
    /\ b \in DOMAIN rows => rows'[b] = rows[b]
    /\ trail'[b] = trail[b]
    /\ effects'[b] = effects[b]

\* An action nothing is written about keeps its authorisation.
LEMMA UntouchedOK ==
    ASSUME NEW b \in ActionIds, ExecOK(b), Untouched(b)
    PROVE  ExecOK(b)'
<1>1. IsPending(b)' <=> IsPending(b)
  BY DEF Untouched, IsPending
<1>2. b \in DOMAIN actions => (Authorized(b)' <=> Authorized(b))
  BY DEF Untouched, Authorized
<1>3. QED BY <1>1, <1>2 DEF ExecOK, Untouched

\* What a vote or a veto on a row leaves of the other rows.
LEMMA OtherRowsStay ==
    ASSUME QueueInv, NEW a \in ActionIds, NEW v \in OpenPool,
           ApprovePartial(a, v) \/ ApproveSingle(a, v) \/ ApproveFinal(a, v) \/ Veto(a, v)
    PROVE  /\ a \in DOMAIN rows /\ IsPending(a)
           /\ DOMAIN rows' = DOMAIN rows
           /\ \A b \in DOMAIN rows : b # a => rows'[b] = rows[b]
<1>1. a \in DOMAIN rows /\ IsPending(a)
  BY DEF ApprovePartial, ApproveSingle, ApproveFinal, Veto, MayVote, MayDecide, IsPending
<1>2. \E row : rows' = DictPut(rows, a, row)
  BY DEF ApprovePartial, ApproveSingle, ApproveFinal, Veto, Resolve
<1>3. QED BY <1>1, <1>2 DEF DictPut

\* handle_proposal touches one action, which is new.
LEMMA ProposalUntouched ==
    ASSUME PipelineTypeOK, NEW a \in ActionIds, a \notin DOMAIN rows,
           NEW t \in Tenants, NEW e \in Events, NEW ty \in ActionTypes,
           NEW by \in Planners, HandleProposal(a, t, e, ty, by),
           NEW b \in ActionIds, b # a
    PROVE  Untouched(b)
<1>1. CASE ProposeReject(a, t, e, ty, by)
  BY <1>1 DEF ProposeReject, Put, DictPut, Write, queueVars, PipelineTypeOK, Untouched
<1>2. CASE ProposeQueue(a, t, e, ty, by)
  BY <1>2 DEF ProposeQueue, Enqueue, Put, DictPut, Write, PipelineTypeOK, Untouched
<1>3. ASSUME NEW ok \in BOOLEAN, ProposeAuto(a, t, e, ty, by, ok)
      PROVE  Untouched(b)
  BY <1>3 DEF ProposeAuto, Put, DictPut, Write, RunExecutor, queueVars, PipelineTypeOK,
              Untouched
<1>4. QED BY <1>1, <1>2, <1>3 DEF HandleProposal

\* approve_action and reject_action touch one action, which is queued.
LEMMA DecisionUntouched ==
    ASSUME QueueInv, PipelineTypeOK, NEW a \in ActionIds, a \in DOMAIN actions,
           NEW v \in Approvers, NEW tn \in Tenants \cup {AnyTenant}, Decide(a, v, tn),
           NEW b \in ActionIds, b # a
    PROVE  Untouched(b)
<1>1. ApprovePartial(a, v) \/ ApproveSingle(a, v) \/ ApproveFinal(a, v) \/ Veto(a, v)
  BY DEF Decide, ApproveVote, ApproveExecute, RejectAction
<1>2. /\ DOMAIN rows' = DOMAIN rows
      /\ b \in DOMAIN rows => rows'[b] = rows[b]
  BY <1>1, OtherRowsStay DEF OpenPool
<1>3. trail'[b] = trail[b] /\ effects'[b] = effects[b]
  BY DEF Decide, ApproveVote, ApproveExecute, RejectAction, Write, RunExecutor, PipelineTypeOK
<1>4. /\ DOMAIN actions' = DOMAIN actions
      /\ b \in DOMAIN actions => actions'[b] = actions[b]
  BY DEF Decide, ApproveVote, ApproveExecute, RejectAction, SetStatus, DictPut
<1>5. QED BY <1>2, <1>3, <1>4 DEF Untouched

\* The second audit row of an action stays where it is.
LEMMA DecisionRowStays ==
    ASSUME PipelineTypeOK, NEW a \in ActionIds, Len(trail[a]) >= 2,
           NEW entries \in Seq(AuditEntries), Write(a, entries)
    PROVE  Len(trail'[a]) >= 2 /\ trail'[a][2] = trail[a][2]
<1>1. trail[a] \in Seq(AuditEntries) /\ trail'[a] = trail[a] \o entries
  BY DEF Write, PipelineTypeOK
<1>2. /\ Len(trail[a] \o entries) = Len(trail[a]) + Len(entries)
      /\ (trail[a] \o entries)[2] = trail[a][2]
      /\ Len(trail[a]) \in Nat /\ Len(entries) \in Nat
  BY <1>1, ConcatProperties, LenProperties
<1>3. QED BY <1>1, <1>2

\* A new proposal: the fresh action has at most been executed on the policy's
\* word, and its trail starts with the proposal and the decision.
LEMMA ProposalExecOK ==
    ASSUME QueueInv, PipelineTypeOK, ExecInv,
           NEW a \in ActionIds, NEW t \in Tenants, NEW e \in Events,
           NEW ty \in ActionTypes, NEW by \in Planners, HandleProposal(a, t, e, ty, by)
    PROVE  ExecInv'
<1>1. /\ a \notin DOMAIN actions /\ a \notin DOMAIN rows
      /\ effects[a] = 0 /\ trail[a] = <<>>
  BY DEF HandleProposal, ProposeReject, ProposeQueue, ProposeAuto, NewProposal,
         ExecInv, ExecOK
<1>2. a \in DOMAIN actions'
  BY DEF HandleProposal, ProposeReject, ProposeQueue, ProposeAuto, Put, DictPut
<1>3. ASSUME NEW b \in ActionIds, b # a
      PROVE  ExecOK(b)'
  BY <1>1, <1>3, UntouchedOK, ProposalUntouched DEF ExecInv
<1>4. ExecOK(a)'
  <2>1. CASE ProposeReject(a, t, e, ty, by)
    <3>1. effects'[a] = 0 /\ Len(trail'[a]) = 3 /\ a \in DOMAIN actions'
      BY <1>1, <1>2, <2>1 DEF ProposeReject, Write, PipelineTypeOK
    <3>2. QED BY <3>1 DEF ExecOK
  <2>2. CASE ProposeQueue(a, t, e, ty, by)
    <3>1. effects'[a] = 0 /\ Len(trail'[a]) = 2 /\ a \in DOMAIN actions'
      BY <1>1, <1>2, <2>2 DEF ProposeQueue, Write, PipelineTypeOK
    <3>2. QED BY <3>1 DEF ExecOK
  <2>3. ASSUME NEW ok \in BOOLEAN, ProposeAuto(a, t, e, ty, by, ok)
        PROVE  ExecOK(a)'
    <3>1. /\ effects'[a] = 1 /\ a \in DOMAIN actions' /\ a \notin DOMAIN rows'
          /\ trail'[a] = <<Proposed(by), Decided("auto"), Executed(ok)>>
      BY <1>1, <1>2, <2>3 DEF ProposeAuto, Write, RunExecutor, queueVars, PipelineTypeOK
    <3>2. actions'[a].status \in {"executed", "execution_failed"}
      BY <2>3 DEF ProposeAuto, Put, DictPut, ExecStatus
    <3>3. Len(trail'[a]) = 3 /\ trail'[a][2].says = "auto"
      BY <3>1 DEF Decided
    <3>4. QED BY <3>1, <3>2, <3>3 DEF ExecOK, Authorized, IsPending
  <2>4. QED BY <2>1, <2>2, <2>3 DEF HandleProposal
<1>5. QED BY <1>3, <1>4 DEF ExecInv

\* A named approver who completes a row's review has the quorum behind him.
LEMMA ApprovalHasQuorum ==
    ASSUME QueueInv, QueueInv', NEW a \in ActionIds, NEW v \in Approvers,
           ApproveSingle(a, v) \/ ApproveFinal(a, v)
    PROVE  /\ a \in DOMAIN rows'
           /\ rows'[a].state = "approved"
           /\ Range(rows'[a].approvals) \subseteq rows'[a].eligible
           /\ Cardinality(Range(rows'[a].approvals)) = rows'[a].required
<1>1. a \in DOMAIN rows /\ rows[a] \in Rows
  BY DEF ApproveSingle, ApproveFinal, MayVote, MayDecide, IsPending, QueueInv, QueueTypeOK
<1>2. \E approvals : Resolve(a, "approved", v, approvals)
  BY DEF ApproveSingle, ApproveFinal
<1>3. a \in DOMAIN rows' /\ rows'[a].state = "approved" /\ rows'[a].decidedBy = v
  BY <1>1, <1>2 DEF Resolve, ResolvedRow, DictPut, Rows
<1>4. /\ IsInjective(rows'[a].approvals)
      /\ Range(rows'[a].approvals) \subseteq rows'[a].eligible
      /\ Len(rows'[a].approvals) = rows'[a].required
  BY <1>3, QueueAssumption DEF QueueInv, QuorumExact
<1>5. rows'[a].approvals \in Seq(Approvers)
  BY <1>3 DEF QueueInv, QueueTypeOK, Rows
<1>6. QED BY <1>3, <1>4, <1>5, VotesCounted

\* A vote or a veto keeps every execution authorised.
LEMMA DecisionExecOK ==
    ASSUME QueueInv, QueueInv', PipelineTypeOK, ExecInv,
           NEW a \in ActionIds, NEW v \in Approvers,
           NEW tn \in Tenants \cup {AnyTenant}, Decide(a, v, tn)
    PROVE  ExecInv'
<1>1. ApprovePartial(a, v) \/ ApproveSingle(a, v) \/ ApproveFinal(a, v) \/ Veto(a, v)
  BY DEF Decide, ApproveVote, ApproveExecute, RejectAction
<1>2. /\ a \in DOMAIN rows /\ IsPending(a)
      /\ DOMAIN rows' = DOMAIN rows
      /\ \A b \in DOMAIN rows : b # a => rows'[b] = rows[b]
  BY <1>1, OtherRowsStay DEF OpenPool
<1>3. /\ a \in DOMAIN actions /\ effects[a] = 0 /\ Len(trail[a]) >= 2
  BY <1>2 DEF ExecInv, ExecOK
<1>4. ASSUME NEW b \in ActionIds, b # a
      PROVE  ExecOK(b)'
  BY <1>3, <1>4, UntouchedOK, DecisionUntouched DEF ExecInv
<1>5. DOMAIN actions' = DOMAIN actions
  BY <1>3 DEF Decide, ApproveVote, ApproveExecute, RejectAction, SetStatus, DictPut
<1>6. Len(trail'[a]) >= 2 /\ trail'[a][2] = trail[a][2]
  <2>1. \E entries \in Seq(AuditEntries) : Write(a, entries)
    BY DecisionEntries DEF QueueInv
  <2>2. QED BY <1>3, <2>1, DecisionRowStays
<1>7. ExecOK(a)'
  <2>1. CASE ApproveVote(a, v, tn)
    <3>1. effects'[a] = 0
      BY <1>3, <2>1 DEF ApproveVote
    <3>2. QED BY <1>3, <1>5, <1>6, <3>1 DEF ExecOK
  <2>2. ASSUME NEW ok \in BOOLEAN, ApproveExecute(a, v, tn, ok)
        PROVE  ExecOK(a)'
    <3>1. effects'[a] = 1
      BY <1>3, <2>2 DEF ApproveExecute, RunExecutor, PipelineTypeOK
    <3>2. actions'[a].status \in {"executed", "execution_failed"}
      BY <1>3, <2>2 DEF ApproveExecute, SetStatus, DictPut, ExecStatus, PipelineTypeOK,
                        ActionRecords
    <3>3. /\ a \in DOMAIN rows' /\ rows'[a].state = "approved"
          /\ Range(rows'[a].approvals) \subseteq rows'[a].eligible
          /\ Cardinality(Range(rows'[a].approvals)) = rows'[a].required
      BY <2>2, ApprovalHasQuorum DEF ApproveExecute
    <3>4. QED BY <1>3, <1>5, <1>6, <3>1, <3>2, <3>3 DEF ExecOK, Authorized, IsPending
  <2>3. CASE RejectAction(a, v, tn)
    <3>1. effects'[a] = 0
      BY <1>3, <2>3 DEF RejectAction
    <3>2. QED BY <1>3, <1>5, <1>6, <3>1 DEF ExecOK
  <2>4. QED BY <2>1, <2>2, <2>3 DEF Decide
<1>8. QED BY <1>4, <1>7 DEF ExecInv

\* Every handler does.
LEMMA ExecStep ==
    ASSUME QueueInv, PipelineTypeOK, ExecInv, [PipelineNext]_vars
    PROVE  ExecInv'
<1>1. CASE UNCHANGED vars
  BY <1>1, UntouchedOK DEF vars, pipelineVars, Untouched, ExecInv
<1>2. ASSUME NEW t \in Tenants, Configure(t)
      PROVE  ExecInv'
  BY <1>2, UntouchedOK DEF Configure, SetPolicies, SetQuorumRule, queueVars, Untouched, ExecInv
<1>3. QueueInv'
  BY QueueStep, PipelineStepIsQueueStep
<1>4. QED BY <1>1, <1>2, <1>3, ProposalExecOK, DecisionExecOK DEF PipelineNext

\* The executor never runs without authority and never twice for an action
\* (ExecutionAuthorized): not on a vote short of the quorum, not after a veto,
\* not on a second delivery of the event.
THEOREM ExecutionIsAuthorized == ClearableSpec => []ExecutionAuthorized
<1>1. PipelineInit => ExecInv
  BY DEF PipelineInit, QueueInit, ExecInv, ExecOK, IsPending
<1>2. Clear => ExecInv'
  BY DEF Clear, ExecInv, ExecOK, IsPending
<1>3. QueueInv /\ PipelineTypeOK /\ ExecInv /\ [PipelineNext \/ Clear]_vars => ExecInv'
  BY <1>2, ExecStep
<1>4. ExecInv => ExecutionAuthorized
  BY DEF ExecInv, ExecOK, ExecutionAuthorized
<1>5. QED BY <1>1, <1>3, <1>4, PipelineTyped, PTL DEF ClearableSpec
-----------------------------------------------------------------------------
(* The store, the queue and the audit log tell one story.                  *)

\* An audit row that closes an action: the executor's answer or a rejection.
Closing(entry) ==
    /\ entry.kind \in {"execution", "execution_failed", "rejection"}
    /\ entry.says = ""

ClosedBy(a, entry) == Closing(entry) /\ actions[a].status = StatusTold(entry)

Votes(a) == Len(rows[a].approvals)

VotesRecorded(a) ==
    \A i \in 1..Votes(a) : /\ trail[a][i + 2].kind = "approval"
                           /\ trail[a][i + 2].actor = rows[a].approvals[i]
                           /\ trail[a][i + 2].tally = i

\* While an action waits its trail is the proposal, the decision and the votes;
WaitingRecord(a) ==
    /\ Len(trail[a]) = Votes(a) + 2
    /\ trail[a][Votes(a) + 2].kind \in {"decision", "approval"}
    /\ trail[a][Votes(a) + 2].says \in {"approval_required", "quorum_open"}
    /\ actions[a].status = "pending_approval"

\* once it is resolved one more row follows, which tells its status.
ResolvedRecord(a) ==
    /\ Len(trail[a]) = Votes(a) + 3
    /\ ClosedBy(a, trail[a][Votes(a) + 3])
    /\ RowAgrees(rows[a].state, actions[a].status)

QueuedRecord(a) ==
    /\ rows[a].tenant = actions[a].tenant
    /\ trail[a][2].says = "approval_required"
    /\ VotesRecorded(a)
    /\ rows[a].state = "pending" => WaitingRecord(a)
    /\ rows[a].state # "pending" => ResolvedRecord(a)

\* An action that was never queued was closed by the handler that made it.
DirectRecord(a) ==
    /\ trail[a][2].says # "approval_required"
    /\ Len(trail[a]) = 3
    /\ ClosedBy(a, trail[a][3])

StoredRecord(a) ==
    /\ Len(trail[a]) >= 2
    /\ trail[a][1].kind = "proposal" /\ trail[a][2].kind = "decision"
    /\ a \in DOMAIN rows => QueuedRecord(a)
    /\ a \notin DOMAIN rows => DirectRecord(a)

NoRecord(a) == a \notin DOMAIN rows /\ trail[a] = <<>>

RecordOK(a) ==
    /\ a \in DOMAIN actions => StoredRecord(a)
    /\ a \notin DOMAIN actions => NoRecord(a)

\* The inductive invariant behind StatusMatchesTrail, TrailRecordsVotes and
\* QueueMatchesStore: the whole shape of every action's trail.
RecordInv == \A a \in ActionIds : RecordOK(a)

\* The last row of an action's trail tells its status.
LEMMA StatusOnRecord ==
    ASSUME QueueInv, PipelineTypeOK, NEW a \in DOMAIN actions, RecordOK(a)
    PROVE  /\ trail[a] # <<>>
           /\ actions[a].status = StatusTold(trail[a][Len(trail[a])])
<1>1. Len(trail[a]) \in Nat /\ (Len(trail[a]) >= 2 => trail[a] # <<>>)
  BY LenProperties, EmptySeq DEF PipelineTypeOK
<1>2. StoredRecord(a)
  BY DEF RecordOK
<1>3. CASE a \notin DOMAIN rows
  BY <1>1, <1>2, <1>3 DEF StoredRecord, DirectRecord, ClosedBy
<1>4. CASE a \in DOMAIN rows /\ rows[a].state # "pending"
  BY <1>1, <1>2, <1>4 DEF StoredRecord, QueuedRecord, ResolvedRecord, ClosedBy
<1>5. CASE a \in DOMAIN rows /\ rows[a].state = "pending"
  <2>1. WaitingRecord(a)
    BY <1>2, <1>5 DEF StoredRecord, QueuedRecord
  <2>2. StatusTold(trail[a][Len(trail[a])]) = "pending_approval"
    BY <2>1 DEF WaitingRecord, StatusTold
  <2>3. QED BY <1>1, <1>2, <2>1, <2>2 DEF StoredRecord, WaitingRecord
<1>6. QED BY <1>3, <1>4, <1>5

\* What the invariants say of an action whose record is in this shape.
LEMMA RecordTells ==
    ASSUME QueueInv, PipelineTypeOK, RecordInv
    PROVE  StatusMatchesTrail /\ TrailRecordsVotes /\ QueueMatchesStore
<1>1. \A a \in ActionIds : Len(trail[a]) \in Nat /\ (Len(trail[a]) >= 2 => trail[a] # <<>>)
  BY LenProperties, EmptySeq DEF PipelineTypeOK
<1>2. \A a \in DOMAIN rows : /\ a \in ActionIds /\ Votes(a) \in Nat
                             /\ rows[a].state \in RowStates
  BY LenProperties DEF QueueInv, QueueTypeOK, Rows, Votes
<1>3. StatusMatchesTrail
  BY StatusOnRecord DEF StatusMatchesTrail, RecordInv, RecordOK, NoRecord
<1>4. TrailRecordsVotes
  <2>1. SUFFICES ASSUME NEW a \in DOMAIN actions,
                        NEW votes, votes = IF a \in DOMAIN rows
                                           THEN rows[a].approvals ELSE <<>>,
                        NEW i \in 1..Len(trail[a])
                 PROVE  /\ trail[a][i].kind = "approval" <=> i - 2 \in 1..Len(votes)
                        /\ i - 2 \in 1..Len(votes) => /\ trail[a][i].actor = votes[i - 2]
                                                      /\ trail[a][i].tally = i - 2
    BY DEF TrailRecordsVotes
  <2>2. a \in ActionIds /\ StoredRecord(a) /\ Len(trail[a]) \in Nat
    BY <1>1 DEF RecordInv, RecordOK, PipelineTypeOK
  <2>3. CASE a \notin DOMAIN rows
    <3>1. Len(votes) = 0
      BY <2>1, <2>3
    <3>2. /\ Len(trail[a]) = 3 /\ trail[a][1].kind # "approval"
          /\ trail[a][2].kind # "approval" /\ trail[a][3].kind # "approval"
      BY <2>2, <2>3 DEF StoredRecord, DirectRecord, ClosedBy, Closing
    <3>3. i = 1 \/ i = 2 \/ i = 3
      BY <3>2
    <3>4. QED BY <3>1, <3>2, <3>3
  <2>4. CASE a \in DOMAIN rows
    <3>1. /\ Len(votes) = Votes(a) /\ Votes(a) \in Nat /\ VotesRecorded(a)
          /\ votes = rows[a].approvals
      BY <1>2, <2>1, <2>2, <2>4 DEF Votes, StoredRecord, QueuedRecord
    <3>2. /\ Len(trail[a]) \in {Votes(a) + 2, Votes(a) + 3}
          /\ Len(trail[a]) = Votes(a) + 3 => trail[a][Votes(a) + 3].kind # "approval"
      <4>1. CASE rows[a].state = "pending"
        BY <2>2, <2>4, <3>1, <4>1 DEF StoredRecord, QueuedRecord, WaitingRecord
      <4>2. CASE rows[a].state # "pending"
        <5>1. Len(trail[a]) = Votes(a) + 3 /\ Closing(trail[a][Votes(a) + 3])
          BY <2>2, <2>4, <4>2 DEF StoredRecord, QueuedRecord, ResolvedRecord, ClosedBy
        <5>2. QED BY <5>1 DEF Closing
      <4>3. QED BY <4>1, <4>2
    <3>3. CASE i \in 1..2
      BY <2>2, <3>1, <3>3 DEF StoredRecord
    <3>4. CASE i - 2 \in 1..Votes(a)
      <4>1. /\ trail[a][(i - 2) + 2].kind = "approval"
            /\ trail[a][(i - 2) + 2].actor = votes[i - 2]
            /\ trail[a][(i - 2) + 2].tally = i - 2
        BY <3>1, <3>4 DEF VotesRecorded
      <4>2. (i - 2) + 2 = i
        OBVIOUS
      <4>3. QED BY <3>1, <3>4, <4>1, <4>2
    <3>5. CASE i = Votes(a) + 3
      BY <2>2, <3>1, <3>2, <3>5
    <3>6. i \in 1..2 \/ i - 2 \in 1..Votes(a) \/ i = Votes(a) + 3
      BY <2>2, <3>1, <3>2
    <3>7. QED BY <3>3, <3>4, <3>5, <3>6
  <2>5. QED BY <2>3, <2>4
<1>5. QueueMatchesStore
  <2>1. ASSUME NEW a \in DOMAIN rows
        PROVE  /\ a \in DOMAIN actions
               /\ rows[a].tenant = actions[a].tenant
               /\ RowAgrees(rows[a].state, actions[a].status)
    <3>1. a \in DOMAIN actions /\ QueuedRecord(a)
      BY <1>2 DEF RecordInv, RecordOK, NoRecord, StoredRecord
    <3>2. CASE rows[a].state = "pending"
      BY <3>1, <3>2 DEF QueuedRecord, WaitingRecord, RowAgrees
    <3>3. CASE rows[a].state # "pending"
      BY <3>1, <3>3 DEF QueuedRecord, ResolvedRecord
    <3>4. QED BY <3>1, <3>2, <3>3 DEF QueuedRecord
  <2>2. ASSUME NEW a \in DOMAIN actions
        PROVE  a \in DOMAIN rows <=> (Len(trail[a]) > 1
                                      /\ trail[a][2].says = "approval_required")
    <3>1. StoredRecord(a) /\ Len(trail[a]) \in Nat
      BY <1>1 DEF RecordInv, RecordOK, PipelineTypeOK
    <3>2. QED BY <3>1 DEF StoredRecord, QueuedRecord, DirectRecord
  <2>3. QED BY <2>1, <2>2 DEF QueueMatchesStore
<1>6. QED BY <1>3, <1>4, <1>5

\* An action nothing is written about keeps its record.
LEMMA UntouchedRecord ==
    ASSUME NEW b \in ActionIds, RecordOK(b), Untouched(b)
    PROVE  RecordOK(b)'
<1>1. b \in DOMAIN rows => (QueuedRecord(b) /\ b \in DOMAIN actions => QueuedRecord(b)')
  BY DEF Untouched, QueuedRecord, VotesRecorded, Votes, WaitingRecord, ResolvedRecord,
         ClosedBy
<1>2. DirectRecord(b) /\ b \in DOMAIN actions => DirectRecord(b)'
  BY DEF Untouched, DirectRecord, ClosedBy
<1>3. QED BY <1>1, <1>2 DEF RecordOK, StoredRecord, NoRecord, Untouched

\* Rows written to a trail come after those it has.
LEMMA WrittenAfter ==
    ASSUME PipelineTypeOK, NEW a \in ActionIds,
           NEW entries \in Seq(AuditEntries), Write(a, entries)
    PROVE  /\ Len(trail[a]) \in Nat
           /\ Len(trail'[a]) = Len(trail[a]) + Len(entries)
           /\ \A i \in 1..Len(trail[a]) : trail'[a][i] = trail[a][i]
           /\ \A i \in 1..Len(entries) : trail'[a][Len(trail[a]) + i] = entries[i]
           /\ \A b \in ActionIds : b # a => trail'[b] = trail[b]
<1>1. trail[a] \in Seq(AuditEntries) /\ trail'[a] = trail[a] \o entries
  BY DEF Write, PipelineTypeOK
<1>2. \A b \in ActionIds : b # a => trail'[b] = trail[b]
  BY DEF Write, PipelineTypeOK
<1> DEFINE old == trail[a]
           new == old \o entries
<1>3. /\ Len(new) = Len(old) + Len(entries)
      /\ \A i \in 1..Len(old) + Len(entries) :
             new[i] = IF i <= Len(old) THEN old[i] ELSE entries[i - Len(old)]
      /\ Len(old) \in Nat /\ Len(entries) \in Nat
  BY <1>1, ConcatProperties, LenProperties
<1> HIDE DEF old, new
<1>4. \A i \in 1..Len(old) : new[i] = old[i]
  BY <1>3
<1>5. ASSUME NEW i \in 1..Len(entries)
      PROVE  new[Len(old) + i] = entries[i]
  <2>1. /\ Len(old) + i \in 1..Len(old) + Len(entries)
        /\ ~(Len(old) + i <= Len(old)) /\ (Len(old) + i) - Len(old) = i
    BY <1>3
  <2>2. QED BY <1>3, <2>1
<1>6. QED BY <1>1, <1>2, <1>3, <1>4, <1>5 DEF old, new

\* One row written to a trail is its last.
LEMMA WroteOne ==
    ASSUME PipelineTypeOK, NEW a \in ActionIds, NEW entry \in AuditEntries,
           Write(a, <<entry>>)
    PROVE  /\ Len(trail[a]) \in Nat
           /\ Len(trail'[a]) = Len(trail[a]) + 1
           /\ \A i \in 1..Len(trail[a]) : trail'[a][i] = trail[a][i]
           /\ trail'[a][Len(trail[a]) + 1] = entry
           /\ \A b \in ActionIds : b # a => trail'[b] = trail[b]
<1> DEFINE new == <<entry>>
<1>1. new \in Seq(AuditEntries) /\ Len(new) = 1 /\ new[1] = entry /\ Write(a, new)
  OBVIOUS
<1> HIDE DEF new
<1>2. 1 \in 1..Len(new)
  BY <1>1
<1>3. QED BY <1>1, <1>2, WrittenAfter

\* An action whose status changes keeps its other fields, and the other actions.
LEMMA StatusSet ==
    ASSUME PipelineTypeOK, NEW a \in DOMAIN actions, NEW status \in Statuses,
           SetStatus(a, status)
    PROVE  /\ DOMAIN actions' = DOMAIN actions
           /\ actions'[a].status = status
           /\ actions'[a].tenant = actions[a].tenant /\ actions'[a].event = actions[a].event
           /\ \A b \in DOMAIN actions : b # a => actions'[b] = actions[b]
BY DEF SetStatus, DictPut, PipelineTypeOK, ActionRecords

\* The queue row a decision by a named approver leaves.
LEMMA DecisionOnRow ==
    ASSUME QueueInv, NEW a \in ActionIds, NEW v \in Approvers,
           ApprovePartial(a, v) \/ ApproveSingle(a, v) \/ ApproveFinal(a, v) \/ Veto(a, v)
    PROVE  /\ a \in DOMAIN rows /\ a \in DOMAIN rows' /\ rows[a].state = "pending"
           /\ rows'[a].tenant = rows[a].tenant /\ rows'[a].required = rows[a].required
           /\ rows[a].approvals \in Seq(Approvers)
           /\ ApprovePartial(a, v) => /\ rows'[a].state = "pending"
                                      /\ rows'[a].approvals = Append(rows[a].approvals, v)
           /\ ApproveSingle(a, v) \/ ApproveFinal(a, v)
                  => /\ rows'[a].state = "approved"
                     /\ rows'[a].approvals = Append(rows[a].approvals, v)
           /\ Veto(a, v) => /\ rows'[a].state = "rejected"
                            /\ rows'[a].approvals = rows[a].approvals
<1>1. /\ a \in DOMAIN rows /\ rows[a].state = "pending" /\ rows[a] \in Rows
      /\ rows[a].approvals \in Seq(Approvers)
  BY DEF ApprovePartial, ApproveSingle, ApproveFinal, Veto, MayVote, MayDecide, IsPending,
         QueueInv, QueueTypeOK, Rows
<1>2. /\ Append(rows[a].approvals, v) \in Seq(Approvers)
      /\ v \in OpenPool /\ {"approved", "rejected"} \subseteq RowStates
  BY <1>1, AppendProperties DEF OpenPool, RowStates
<1>3. ASSUME NEW row, rows' = DictPut(rows, a, row)
      PROVE  a \in DOMAIN rows' /\ rows'[a] = row
  BY <1>3 DEF DictPut
<1>4. ASSUME ApprovePartial(a, v)
      PROVE  /\ a \in DOMAIN rows' /\ rows'[a].tenant = rows[a].tenant
             /\ rows'[a].required = rows[a].required
             /\ rows'[a].state = "pending"
             /\ rows'[a].approvals = Append(rows[a].approvals, v)
  BY <1>1, <1>2, <1>3, <1>4, VotedRow DEF ApprovePartial
<1>5. ASSUME NEW state \in {"approved", "rejected"}, NEW votes \in Seq(Approvers),
             Resolve(a, state, v, votes)
      PROVE  /\ a \in DOMAIN rows' /\ rows'[a].tenant = rows[a].tenant
             /\ rows'[a].required = rows[a].required
             /\ rows'[a].state = state /\ rows'[a].approvals = votes
  BY <1>1, <1>2, <1>3, <1>5, DecidedRow DEF Resolve
<1>6. ASSUME ApproveSingle(a, v)
      PROVE  Resolve(a, "approved", v, Append(rows[a].approvals, v))
  <2>1. v # Nobody
    BY QueueAssumption
  <2>2. rows[a].approvals = <<>>
    <3>1. /\ Len(rows[a].approvals) < rows[a].required /\ rows[a].required <= 1
          /\ rows[a].required \in Nat /\ Len(rows[a].approvals) \in Nat
      BY <1>1, <1>6, LenProperties, QueueAssumption
         DEF QueueInv, QuorumExact, ApproveSingle, Rows
    <3>2. Len(rows[a].approvals) = 0
      BY <3>1
    <3>3. QED BY <1>1, <3>2, EmptySeq
  <2>3. v \notin Voted(a)
    BY <2>2, EmptyRange DEF Voted
  <2>4. QED BY <1>6, <2>1, <2>3 DEF ApproveSingle
<1>7. ApproveFinal(a, v) => Resolve(a, "approved", v, Append(rows[a].approvals, v))
  BY DEF ApproveFinal
<1>8. Veto(a, v) => Resolve(a, "rejected", v, rows[a].approvals)
  BY DEF Veto
<1>9. ASSUME ApproveSingle(a, v) \/ ApproveFinal(a, v)
      PROVE  /\ a \in DOMAIN rows' /\ rows'[a].tenant = rows[a].tenant
             /\ rows'[a].required = rows[a].required
             /\ rows'[a].state = "approved"
             /\ rows'[a].approvals = Append(rows[a].approvals, v)
  BY <1>2, <1>5, <1>6, <1>7, <1>9
<1>10. ASSUME Veto(a, v)
       PROVE  /\ a \in DOMAIN rows' /\ rows'[a].tenant = rows[a].tenant
              /\ rows'[a].required = rows[a].required
              /\ rows'[a].state = "rejected" /\ rows'[a].approvals = rows[a].approvals
  BY <1>1, <1>5, <1>8, <1>10
<1>11. QED BY <1>1, <1>4, <1>9, <1>10

\* handle_proposal starts the record of one action and leaves the others.
LEMMA ProposalRecord ==
    ASSUME QueueInv, PipelineTypeOK, RecordInv,
           NEW a \in ActionIds, NEW t \in Tenants, NEW e \in Events,
           NEW ty \in ActionTypes, NEW by \in Planners, HandleProposal(a, t, e, ty, by)
    PROVE  RecordInv'
<1>1. a \notin DOMAIN actions /\ a \notin DOMAIN rows /\ trail[a] = <<>>
  BY DEF HandleProposal, ProposeReject, ProposeQueue, ProposeAuto, NewProposal,
         RecordInv, RecordOK, NoRecord
<1>2. ASSUME NEW b \in ActionIds, b # a
      PROVE  RecordOK(b)'
  BY <1>1, <1>2, UntouchedRecord, ProposalUntouched DEF RecordInv
<1>3. ASSUME NEW status, Put(a, t, e, ty, status)
      PROVE  /\ a \in DOMAIN actions'
             /\ actions'[a].tenant = t /\ actions'[a].status = status
  BY <1>3 DEF Put, DictPut
<1>4. StoredRecord(a)'
  <2>1. CASE ProposeReject(a, t, e, ty, by)
    <3>1. trail'[a] = <<Proposed(by), Decided("reject"), Rejected(Nobody)>>
      BY <1>1, <2>1 DEF ProposeReject, Write, PipelineTypeOK
    <3>2. /\ Len(trail'[a]) = 3 /\ trail'[a][1].kind = "proposal"
          /\ trail'[a][2].kind = "decision" /\ trail'[a][2].says = "reject"
          /\ trail'[a][3] = Rejected(Nobody)
      BY <3>1 DEF Proposed, Decided
    <3>3. a \notin DOMAIN rows' /\ actions'[a].status = "rejected"
      BY <1>1, <1>3, <2>1 DEF ProposeReject, queueVars
    <3>4. Closing(Rejected(Nobody)) /\ StatusTold(Rejected(Nobody)) = "rejected"
      BY DEF Closing, Rejected, StatusTold
    <3>5. QED BY <3>2, <3>3, <3>4 DEF StoredRecord, DirectRecord, ClosedBy
  <2>2. CASE ProposeQueue(a, t, e, ty, by)
    <3>1. trail'[a] = <<Proposed(by), Decided("approval_required")>>
      BY <1>1, <2>2 DEF ProposeQueue, Write, PipelineTypeOK
    <3>2. /\ Len(trail'[a]) = 2 /\ trail'[a][1].kind = "proposal"
          /\ trail'[a][2].kind = "decision" /\ trail'[a][2].says = "approval_required"
      BY <3>1 DEF Proposed, Decided
    <3>3. /\ a \in DOMAIN rows' /\ rows'[a].state = "pending"
          /\ rows'[a].tenant = t /\ rows'[a].approvals = <<>>
      BY <2>2 DEF ProposeQueue, Enqueue, DictPut
    <3>4. actions'[a].tenant = t /\ actions'[a].status = "pending_approval"
      BY <1>3, <2>2 DEF ProposeQueue
    <3>5. Votes(a)' = 0
      BY <3>3 DEF Votes
    <3>6. QED BY <3>2, <3>3, <3>4, <3>5
                 DEF StoredRecord, QueuedRecord, WaitingRecord, VotesRecorded
  <2>3. ASSUME NEW ok \in BOOLEAN, ProposeAuto(a, t, e, ty, by, ok)
        PROVE  StoredRecord(a)'
    <3>1. trail'[a] = <<Proposed(by), Decided("auto"), Executed(ok)>>
      BY <1>1, <2>3 DEF ProposeAuto, Write, PipelineTypeOK
    <3>2. /\ Len(trail'[a]) = 3 /\ trail'[a][1].kind = "proposal"
          /\ trail'[a][2].kind = "decision" /\ trail'[a][2].says = "auto"
          /\ trail'[a][3] = Executed(ok)
      BY <3>1 DEF Proposed, Decided
    <3>3. a \notin DOMAIN rows' /\ actions'[a].status = ExecStatus(ok)
      BY <1>1, <1>3, <2>3 DEF ProposeAuto, queueVars
    <3>4. Closing(Executed(ok)) /\ ExecStatus(ok) = StatusTold(Executed(ok))
      BY DEF Closing, Executed, ExecStatus, StatusTold
    <3>5. QED BY <3>2, <3>3, <3>4 DEF StoredRecord, DirectRecord, ClosedBy
  <2>4. QED BY <2>1, <2>2, <2>3 DEF HandleProposal
<1>5. a \in DOMAIN actions'
  BY <1>3 DEF HandleProposal, ProposeReject, ProposeQueue, ProposeAuto
<1>6. RecordOK(a)'
  BY <1>4, <1>5 DEF RecordOK
<1>7. QED BY <1>2, <1>6 DEF RecordInv

\* approve_action and reject_action carry the record of one action on: a vote
\* adds its row, the vote that completes the quorum adds two, a veto the last.
LEMMA DecisionRecord ==
    ASSUME QueueInv, QueueInv', PipelineTypeOK, RecordInv,
           NEW a \in ActionIds, NEW v \in Approvers,
           NEW tn \in Tenants \cup {AnyTenant}, Decide(a, v, tn)
    PROVE  RecordInv'
<1>1. ApprovePartial(a, v) \/ ApproveSingle(a, v) \/ ApproveFinal(a, v) \/ Veto(a, v)
  BY DEF Decide, ApproveVote, ApproveExecute, RejectAction
<1>2. /\ a \in DOMAIN rows /\ a \in DOMAIN rows' /\ rows[a].state = "pending"
      /\ rows'[a].tenant = rows[a].tenant /\ rows[a].approvals \in Seq(Approvers)
  BY <1>1, DecisionOnRow
<1>3. a \in DOMAIN actions /\ StoredRecord(a) /\ QueuedRecord(a) /\ WaitingRecord(a)
  BY <1>2 DEF RecordInv, RecordOK, NoRecord, StoredRecord, QueuedRecord
<1> DEFINE votes == rows[a].approvals
           k == Votes(a)
<1>4. k \in Nat /\ k = Len(votes) /\ Len(trail[a]) = k + 2
  BY <1>2, <1>3, LenProperties DEF Votes, WaitingRecord
<1>5. ASSUME NEW b \in ActionIds, b # a
      PROVE  RecordOK(b)'
  BY <1>3, <1>5, UntouchedRecord, DecisionUntouched DEF RecordInv
<1>6. a \in DOMAIN actions' /\ actions'[a].tenant = rows'[a].tenant
  <2>1. rows[a].tenant = actions[a].tenant
    BY <1>3 DEF QueuedRecord
  <2>2. actions' = actions \/ \E status \in Statuses : SetStatus(a, status)
    BY DEF Decide, ApproveVote, ApproveExecute, RejectAction, Statuses, ExecStatus
  <2>3. QED BY <1>2, <1>3, <2>1, <2>2 DEF SetStatus, DictPut, PipelineTypeOK, ActionRecords
<1>7. ASSUME NEW status \in Statuses, SetStatus(a, status)
      PROVE  actions'[a].status = status
  BY <1>3, <1>7 DEF SetStatus, DictPut, PipelineTypeOK, ActionRecords
<1> DEFINE Old == /\ \A i \in 1..Len(trail[a]) : trail'[a][i] = trail[a][i]
                  /\ \A b \in ActionIds : b # a => trail'[b] = trail[b]
<1>8. ASSUME Old
      PROVE  /\ trail'[a][1].kind = "proposal" /\ trail'[a][2].kind = "decision"
             /\ trail'[a][2].says = "approval_required"
             /\ \A i \in 1..k : /\ trail'[a][i + 2].kind = "approval"
                                /\ trail'[a][i + 2].actor = votes[i]
                                /\ trail'[a][i + 2].tally = i
  <2>1. trail[a][1].kind = "proposal" /\ trail[a][2].kind = "decision"
        /\ trail[a][2].says = "approval_required" /\ VotesRecorded(a)
    BY <1>3 DEF StoredRecord, QueuedRecord
  <2>2. 1 \in 1..Len(trail[a]) /\ 2 \in 1..Len(trail[a])
        /\ \A i \in 1..k : i + 2 \in 1..Len(trail[a])
    BY <1>4
  <2>3. QED BY <1>8, <2>1, <2>2 DEF VotesRecorded
<1>9. ASSUME NEW row, row.kind = "approval", row.actor = v, row.tally = k + 1, Old,
             trail'[a][k + 3] = row, rows'[a].approvals = Append(votes, v)
      PROVE  VotesRecorded(a)' /\ Votes(a)' = k + 1
  <2>1. /\ Len(rows'[a].approvals) = k + 1 /\ rows'[a].approvals[k + 1] = v
        /\ \A i \in 1..k : rows'[a].approvals[i] = votes[i]
    BY <1>2, <1>4, <1>9, AppendProperties
  <2>2. ASSUME NEW i \in 1..(k + 1)
        PROVE  /\ trail'[a][i + 2].kind = "approval"
               /\ trail'[a][i + 2].actor = rows'[a].approvals[i]
               /\ trail'[a][i + 2].tally = i
    <3>1. CASE i \in 1..k
      BY <1>8, <1>9, <2>1, <3>1
    <3>2. CASE i = k + 1
      <4>1. i + 2 = k + 3
        BY <1>4, <3>2
      <4>2. QED BY <1>9, <2>1, <3>2, <4>1
    <3>3. QED BY <1>4, <3>1, <3>2
  <2>3. QED BY <2>1, <2>2 DEF VotesRecorded, Votes
<1>10. StoredRecord(a)'
  <2>1. CASE ApproveVote(a, v, tn)
    <3> DEFINE row == Signed(v, Len(rows'[a].approvals), "quorum_open")
    <3>1. rows'[a].state = "pending" /\ rows'[a].approvals = Append(votes, v)
      BY <1>2, <2>1, DecisionOnRow DEF ApproveVote
    <3>2. Len(rows'[a].approvals) = k + 1
      BY <1>2, <1>4, <3>1, AppendProperties
    <3>3. row \in AuditEntries
      BY <1>4, <3>2, EntryTypes DEF OpenPool
    <3>4. Write(a, <<row>>) /\ actions' = actions
      BY <2>1 DEF ApproveVote
    <3>5. /\ row.kind = "approval" /\ row.actor = v /\ row.tally = k + 1
          /\ row.says = "quorum_open"
      BY <3>2 DEF Signed
    <3> HIDE DEF row
    <3>6. Old /\ Len(trail'[a]) = k + 3 /\ trail'[a][k + 3] = row
      <4>1. Old /\ Len(trail'[a]) = Len(trail[a]) + 1 /\ trail'[a][Len(trail[a]) + 1] = row
        BY <3>3, <3>4, WroteOne
      <4>2. (k + 2) + 1 = k + 3
        BY <1>4
      <4>3. QED BY <1>4, <4>1, <4>2
    <3>7. VotesRecorded(a)' /\ Votes(a)' = k + 1
      BY <1>9, <3>1, <3>5, <3>6
    <3>8. (k + 1) + 2 = k + 3
      BY <1>4
    <3>9. WaitingRecord(a)'
      BY <1>3, <3>4, <3>5, <3>6, <3>7, <3>8 DEF WaitingRecord
    <3>10. QED BY <1>2, <1>4, <1>6, <1>8, <3>1, <3>6, <3>7, <3>9
                  DEF StoredRecord, QueuedRecord
  <2>2. ASSUME NEW ok \in BOOLEAN, ApproveExecute(a, v, tn, ok)
        PROVE  StoredRecord(a)'
    <3> DEFINE row == Signed(v, Len(rows'[a].approvals), "quorum_reached")
               last == Executed(ok)
    <3>1. rows'[a].state = "approved" /\ rows'[a].approvals = Append(votes, v)
      BY <1>2, <2>2, DecisionOnRow DEF ApproveExecute
    <3>2. Len(rows'[a].approvals) = k + 1
      BY <1>2, <1>4, <3>1, AppendProperties
    <3>3. row \in AuditEntries /\ last \in AuditEntries
      BY <1>4, <3>2, EntryTypes DEF OpenPool
    <3>4. /\ Write(a, <<row, last>>) /\ actions'[a].status = ExecStatus(ok)
      BY <1>7, <2>2 DEF ApproveExecute, ExecStatus, Statuses
    <3>5. /\ row.kind = "approval" /\ row.actor = v /\ row.tally = k + 1
      BY <3>2 DEF Signed
    <3>6. Closing(last) /\ ExecStatus(ok) = StatusTold(last)
      BY DEF Closing, Executed, ExecStatus, StatusTold
    <3> HIDE DEF row, last
    <3>7. /\ Old /\ Len(trail'[a]) = k + 4
          /\ trail'[a][k + 3] = row /\ trail'[a][k + 4] = last
      <4> DEFINE new == <<row, last>>
      <4>1. /\ new \in Seq(AuditEntries) /\ Len(new) = 2
            /\ new[1] = row /\ new[2] = last
        BY <3>3
      <4>2. Write(a, new)
        BY <3>4
      <4> HIDE DEF new
      <4>3. /\ Old /\ Len(trail'[a]) = Len(trail[a]) + 2
            /\ trail'[a][Len(trail[a]) + 1] = row /\ trail'[a][Len(trail[a]) + 2] = last
        <5>1. 1 \in 1..Len(new) /\ 2 \in 1..Len(new)
          BY <4>1
        <5>2. /\ Old /\ Len(trail'[a]) = Len(trail[a]) + Len(new)
              /\ \A i \in 1..Len(new) : trail'[a][Len(trail[a]) + i] = new[i]
          BY <4>2, <4>1, WrittenAfter
        <5>3. QED BY <4>1, <5>1, <5>2
      <4>4. (k + 2) + 1 = k + 3 /\ (k + 2) + 2 = k + 4
        BY <1>4
      <4>5. QED BY <1>4, <4>3, <4>4
    <3>8. VotesRecorded(a)' /\ Votes(a)' = k + 1
      BY <1>9, <3>1, <3>5, <3>7
    <3>9. (k + 1) + 3 = k + 4
      BY <1>4
    <3>10. ResolvedRecord(a)'
      <4>1. RowAgrees("approved", ExecStatus(ok))
        BY DEF RowAgrees, ExecStatus
      <4>2. QED BY <3>1, <3>4, <3>6, <3>7, <3>8, <3>9, <4>1 DEF ResolvedRecord, ClosedBy
    <3>11. QED BY <1>2, <1>4, <1>6, <1>8, <3>1, <3>7, <3>8, <3>10
                  DEF StoredRecord, QueuedRecord
  <2>3. CASE RejectAction(a, v, tn)
    <3> DEFINE last == Rejected(v)
    <3>1. rows'[a].state = "rejected" /\ rows'[a].approvals = votes
      BY <1>2, <2>3, DecisionOnRow DEF RejectAction
    <3>2. last \in AuditEntries
      BY EntryTypes DEF OpenPool
    <3>3. Write(a, <<last>>) /\ actions'[a].status = "rejected"
      BY <1>7, <2>3 DEF RejectAction, Statuses
    <3>4. Closing(last) /\ StatusTold(last) = "rejected"
      BY DEF Closing, Rejected, StatusTold
    <3> HIDE DEF last
    <3>5. Old /\ Len(trail'[a]) = k + 3 /\ trail'[a][k + 3] = last
      <4>1. Old /\ Len(trail'[a]) = Len(trail[a]) + 1 /\ trail'[a][Len(trail[a]) + 1] = last
        BY <3>2, <3>3, WroteOne
      <4>2. (k + 2) + 1 = k + 3
        BY <1>4
      <4>3. QED BY <1>4, <4>1, <4>2
    <3>6. Votes(a)' = k
      BY <3>1 DEF Votes
    <3>7. VotesRecorded(a)'
      BY <1>8, <3>1, <3>5, <3>6 DEF VotesRecorded
    <3>8. ResolvedRecord(a)'
      <4>1. RowAgrees("rejected", "rejected")
        BY DEF RowAgrees
      <4>2. QED BY <3>1, <3>3, <3>4, <3>5, <3>6, <4>1 DEF ResolvedRecord, ClosedBy
    <3>9. QED BY <1>2, <1>4, <1>6, <1>8, <3>1, <3>5, <3>7, <3>8
                 DEF StoredRecord, QueuedRecord
  <2>4. QED BY <2>1, <2>2, <2>3 DEF Decide
<1>11. QED BY <1>5, <1>6, <1>10 DEF RecordOK, RecordInv

\* Every handler leaves store, queue and trail telling the same of every action.
LEMMA RecordStep ==
    ASSUME QueueInv, PipelineTypeOK, RecordInv, [PipelineNext]_vars
    PROVE  RecordInv'
<1>1. CASE UNCHANGED vars
  BY <1>1, UntouchedRecord DEF vars, pipelineVars, Untouched, RecordInv
<1>2. ASSUME NEW t \in Tenants, Configure(t)
      PROVE  RecordInv'
  BY <1>2, UntouchedRecord
     DEF Configure, SetPolicies, SetQuorumRule, queueVars, Untouched, RecordInv
<1>3. QueueInv'
  BY QueueStep, PipelineStepIsQueueStep
<1>4. QED BY <1>1, <1>2, <1>3, ProposalRecord, DecisionRecord DEF PipelineNext

\* Every action's trail has the shape RecordInv describes, whatever proposals,
\* votes and vetoes come and however often clear empties the stores.
THEOREM RecordsHold == ClearableSpec => []RecordInv
<1>1. PipelineInit => RecordInv
  BY DEF PipelineInit, QueueInit, RecordInv, RecordOK, NoRecord
<1>2. Clear => RecordInv'
  BY DEF Clear, RecordInv, RecordOK, NoRecord
<1>3. QueueInv /\ PipelineTypeOK /\ RecordInv /\ [PipelineNext \/ Clear]_vars
          => RecordInv'
  BY <1>2, RecordStep
<1>4. QED BY <1>1, <1>3, PipelineTyped, PTL DEF ClearableSpec

\* No handler leaves the store and the audit log disagreeing on a status
\* (StatusMatchesTrail).
THEOREM StatusIsTold == ClearableSpec => []StatusMatchesTrail
BY RecordsHold, RecordTells, PipelineTyped, PTL

\* The approval rows of a trail are exactly the votes of the queue row, in
\* order and with the running tally (TrailRecordsVotes).
THEOREM VotesAreRecorded == ClearableSpec => []TrailRecordsVotes
BY RecordsHold, RecordTells, PipelineTyped, PTL

\* The queue holds a row for exactly the actions the policy sent to approval,
\* and row and action agree on tenant and outcome (QueueMatchesStore).
THEOREM QueueAgreesWithStore == ClearableSpec => []QueueMatchesStore
BY RecordsHold, RecordTells, PipelineTyped, PTL

-----------------------------------------------------------------------------
(* Nothing happens off the record.                                         *)

\* What a step does with an action that is in the store.
OnTheRecord(a) ==
    /\ IsPrefix(trail[a], trail'[a])
    /\ trail'[a] = trail[a] => /\ actions'[a] = actions[a]
                               /\ effects'[a] = effects[a]
                               /\ a \in DOMAIN rows => rows'[a] = rows[a]
                               /\ a \notin DOMAIN rows => a \notin DOMAIN rows'

\* What nothing was written about has not changed.
LEMMA UntouchedOnTheRecord ==
    ASSUME PipelineTypeOK, NEW a \in DOMAIN actions, Untouched(a)
    PROVE  OnTheRecord(a) /\ a \in DOMAIN actions'
<1>1. trail[a] \in Seq(AuditEntries)
  BY DEF PipelineTypeOK
<1>2. IsPrefix(trail[a], trail[a])
  BY <1>1, ConcatExtends
<1>3. QED BY <1>2 DEF OnTheRecord, Untouched

\* What rows were written about may have changed.
LEMMA WrittenOnTheRecord ==
    ASSUME PipelineTypeOK, NEW a \in DOMAIN actions,
           NEW entries \in Seq(AuditEntries), entries # <<>>, Write(a, entries)
    PROVE  OnTheRecord(a)
<1>1. a \in ActionIds /\ trail[a] \in Seq(AuditEntries) /\ trail'[a] = trail[a] \o entries
  BY DEF Write, PipelineTypeOK
<1>2. IsPrefix(trail[a], trail'[a])
  BY <1>1, ConcatExtends
<1>3. trail'[a] # trail[a]
  BY <1>1, ConcatEqualIffEmpty
<1>4. QED BY <1>2, <1>3 DEF OnTheRecord

\* Every handler but clear writes a row about whatever it changes.
LEMMA StepOnTheRecord ==
    ASSUME QueueInv, QueueInv', PipelineTypeOK, RecordInv, PipelineNext
    PROVE  /\ DOMAIN actions \subseteq DOMAIN actions'
           /\ \A a \in DOMAIN actions : OnTheRecord(a)
<1>1. SUFFICES ASSUME NEW b \in DOMAIN actions
               PROVE  OnTheRecord(b) /\ b \in DOMAIN actions'
  OBVIOUS
<1>2. b \in ActionIds
  BY DEF PipelineTypeOK
<1>3. ASSUME NEW a \in ActionIds, NEW t \in Tenants, NEW e \in Events,
             NEW ty \in ActionTypes, NEW by \in Planners,
             HandleProposal(a, t, e, ty, by)
      PROVE  Untouched(b)
  <2>1. a \notin DOMAIN actions
    BY <1>3 DEF HandleProposal, ProposeReject, ProposeQueue, ProposeAuto, NewProposal
  <2>2. a \notin DOMAIN rows /\ b # a
    BY <2>1 DEF RecordInv, RecordOK, NoRecord
  <2>3. QED BY <1>2, <1>3, <2>2, ProposalUntouched
<1>4. ASSUME NEW a \in ActionIds, NEW v \in Approvers,
             NEW tn \in Tenants \cup {AnyTenant}, Decide(a, v, tn)
      PROVE  OnTheRecord(b) /\ b \in DOMAIN actions'
  <2>1. a \in DOMAIN actions
    BY <1>4 DEF Decide, ApproveVote, ApproveExecute, RejectAction, Visible
  <2>2. CASE b # a
    BY <1>2, <1>4, <2>1, <2>2, DecisionUntouched, UntouchedOnTheRecord
  <2>3. CASE b = a
    <3>1. \E entries \in Seq(AuditEntries) : entries # <<>> /\ Write(a, entries)
      BY <1>4, DecisionEntries DEF QueueInv
    <3>2. DOMAIN actions' = DOMAIN actions
      BY <1>4, <2>1 DEF Decide, ApproveVote, ApproveExecute, RejectAction, SetStatus, DictPut
    <3>3. QED BY <2>3, <3>1, <3>2, WrittenOnTheRecord
  <2>4. QED BY <2>2, <2>3
<1>5. ASSUME NEW t \in Tenants, Configure(t)
      PROVE  Untouched(b)
  BY <1>5 DEF Configure, SetPolicies, SetQuorumRule, queueVars, Untouched
<1>6. QED BY <1>3, <1>4, <1>5, UntouchedOnTheRecord DEF PipelineNext

\* Whatever changes an action's status, its queue row or its count of executor
\* calls adds to its trail in the same handler, and no handler but clear takes
\* an audit row away (NoSilentChange).
THEOREM NothingIsSilent == ClearableSpec => NoSilentChange
<1>1. QueueInv /\ PipelineTypeOK /\ RecordInv /\ [PipelineNext \/ Clear]_vars
          => [\/ Clear
              \/ /\ DOMAIN actions \subseteq DOMAIN actions'
                 /\ \A a \in DOMAIN actions :
                      /\ IsPrefix(trail[a], trail'[a])
                      /\ trail'[a] = trail[a] =>
                           /\ actions'[a] = actions[a]
                           /\ effects'[a] = effects[a]
                           /\ a \in DOMAIN rows => rows'[a] = rows[a]
                           /\ a \notin DOMAIN rows => a \notin DOMAIN rows']_vars
  <2>1. QueueInv /\ PipelineTypeOK /\ PipelineNext => QueueInv'
    BY QueueStep, PipelineStepIsQueueStep
  <2>2. QED BY <2>1, StepOnTheRecord DEF OnTheRecord
<1>2. QED BY <1>1, RecordsHold, PipelineTyped, PTL DEF ClearableSpec, NoSilentChange

=============================================================================
