---------------------------- MODULE ApprovalQueue ----------------------------
(***************************************************************************)
(* The human-in-the-loop approval queue (orchestrator/approval_queue.py):  *)
(* a dictionary of queue rows by action id, and for each tenant the list   *)
(* of its pending action ids, oldest first.  Every public method of the    *)
(* class holds the queue's own lock from its first read to its last write, *)
(* so each is one action here.  A call that raises changes nothing: it is  *)
(* the action being disabled, and what it raises is which guard fails.     *)
(*                                                                         *)
(* The module declares only the queue's variables; DecisionPipeline        *)
(* extends it and conjoins these actions with what the pipeline does       *)
(* around them.                                                            *)
(***************************************************************************)
EXTENDS Integers, FiniteSets, SequencesExt

CONSTANTS
    ActionIds,   \* ids of actions; a row is keyed by its action's id
    Tenants,     \* tenant ids
    Approvers,   \* the names a human approver may sign with
    Nobody,      \* decided_by = None: an anonymous approver
    Quorums      \* the values of required_approvals a caller may ask for

ASSUME QueueAssumption ==
    /\ IsFiniteSet(Approvers)
    /\ Nobody \notin Approvers
    /\ Quorums \subseteq Nat

VARIABLES
    rows,            \* _by_id: action id -> ApprovalRule, for the ids enqueued
    pendingByTenant  \* _pending_by_tenant: tenant -> pending ids, FIFO

queueVars == <<rows, pendingByTenant>>

\* d[k] = v on a Python dictionary.
DictPut(d, k, v) == [x \in DOMAIN d \cup {k} |-> IF x = k THEN v ELSE d[x]]

-----------------------------------------------------------------------------
(* An open pool (eligible_approvers = None) accepts anyone, the anonymous  *)
(* approver too; a pool accepts exactly the approvers it names.            *)

OpenPool == Approvers \cup {Nobody}
Pools == {OpenPool} \cup SUBSET Approvers

QuorumRules == [required : Quorums, eligible : Pools]

\* Mutants of ValidRule: no check of the pool's size; no check of required >= 1.
ValidRuleAnyPool(rule) == rule.required >= 1
ValidRuleZero(rule) ==
    rule.eligible # OpenPool => rule.required <= Cardinality(rule.eligible)

\* The checks of enqueue (and of QuorumRule.__post_init__).
ValidRule(rule) ==
    /\ rule.required >= 1
    /\ rule.eligible # OpenPool => rule.required <= Cardinality(rule.eligible)

RowStates == {"pending", "approved", "rejected"}

Rows == [tenant     : Tenants,
         state      : RowStates,
         required   : Quorums,
         eligible   : Pools,
         approvals  : Seq(Approvers),
         decidedBy  : OpenPool,
         version    : Nat,
         enqueuedAt : Nat]

QueueTypeOK ==
    /\ DOMAIN rows \subseteq ActionIds
    /\ \A a \in DOMAIN rows : rows[a] \in Rows
    /\ pendingByTenant \in [Tenants -> Seq(ActionIds)]

QueueInit ==
    /\ rows = [a \in {} |-> {}]
    /\ pendingByTenant = [t \in Tenants |-> <<>>]

-----------------------------------------------------------------------------

IsPending(a) == a \in DOMAIN rows /\ rows[a].state = "pending"
Voted(a) == Range(rows[a].approvals)

\* Mutant of Enqueue: the newest row is listed first.
EnqueueInFront(a, t, rule) ==
    /\ ValidRule(rule)
    /\ a \notin DOMAIN rows
    /\ rows' = DictPut(rows, a,
                   [tenant |-> t, state |-> "pending", required |-> rule.required,
                    eligible |-> rule.eligible, approvals |-> <<>>,
                    decidedBy |-> Nobody, version |-> 1,
                    enqueuedAt |-> Cardinality(DOMAIN rows)])
    /\ pendingByTenant' = [pendingByTenant EXCEPT ![t] = <<a>> \o @]

\* enqueue of an id that has no row yet.  (Enqueueing a known id returns the
\* row it has and changes nothing.)  enqueuedAt stands for the timestamp.
Enqueue(a, t, rule) ==
    /\ ValidRule(rule)
    /\ a \notin DOMAIN rows
    /\ rows' = DictPut(rows, a,
                   [tenant     |-> t,
                    state      |-> "pending",
                    required   |-> rule.required,
                    eligible   |-> rule.eligible,
                    approvals  |-> <<>>,
                    decidedBy  |-> Nobody,
                    version    |-> 1,
                    enqueuedAt |-> Cardinality(DOMAIN rows)])
    /\ pendingByTenant' = [pendingByTenant EXCEPT ![t] = Append(@, a)]

\* _require_pending and _check_eligible, shared by approve and reject.
MayDecide(a, v) == IsPending(a) /\ v \in rows[a].eligible

ResolvedRow(row, state, v, approvals) ==
    [row EXCEPT !.state = state, !.approvals = approvals, !.decidedBy = v,
                !.version = @ + 1]

\* Mutant of Resolve: the id stays in the tenant's list.
ResolveKeepsListed(a, state, v, approvals) ==
    /\ rows' = DictPut(rows, a, ResolvedRow(rows[a], state, v, approvals))
    /\ UNCHANGED pendingByTenant

\* _resolve: the terminal transition, which also drops the id from the
\* tenant's pending list.
Resolve(a, state, v, approvals) ==
    /\ rows' = DictPut(rows, a, ResolvedRow(rows[a], state, v, approvals))
    /\ pendingByTenant' =
           [pendingByTenant EXCEPT ![rows[a].tenant] = RemoveFirst(@, a)]

\* approve on a single-approver row: the first vote, named or not, resolves it.
ApproveSingle(a, v) ==
    /\ MayDecide(a, v)
    /\ rows[a].required <= 1
    /\ Resolve(a, "approved", v,
               IF v # Nobody /\ v \notin Voted(a)
               THEN Append(rows[a].approvals, v) ELSE rows[a].approvals)

\* Mutant of MayVote: an approver may vote twice.
MayVoteAgain(a, v) ==
    /\ MayDecide(a, v)
    /\ rows[a].required > 1
    /\ v # Nobody

\* The part of approve common to both outcomes of a vote on a quorum row: the
\* voter is named and has not voted on the row before.
MayVote(a, v) ==
    /\ MayDecide(a, v)
    /\ rows[a].required > 1
    /\ v # Nobody
    /\ v \notin Voted(a)

\* approve on a quorum row, by the voter who completes the quorum.
ApproveFinal(a, v) ==
    /\ MayVote(a, v)
    /\ Len(rows[a].approvals) + 1 >= rows[a].required
    /\ Resolve(a, "approved", v, Append(rows[a].approvals, v))

\* Mutant of WithVote: a vote that leaves row_version alone.
WithVoteUnversioned(row, v) == [row EXCEPT !.approvals = Append(@, v)]

WithVote(row, v) == [row EXCEPT !.approvals = Append(@, v), !.version = @ + 1]

\* approve on a quorum row that stays pending after the vote.
ApprovePartial(a, v) ==
    /\ MayVote(a, v)
    /\ Len(rows[a].approvals) + 1 < rows[a].required
    /\ rows' = DictPut(rows, a, WithVote(rows[a], v))
    /\ UNCHANGED pendingByTenant

\* reject: one eligible veto resolves the row whatever votes it has.
Veto(a, v) ==
    /\ MayDecide(a, v)
    /\ Resolve(a, "rejected", v, rows[a].approvals)

QueueNext ==
    \E a \in ActionIds :
        \/ \E t \in Tenants, rule \in QuorumRules : Enqueue(a, t, rule)
        \/ \E v \in OpenPool :
               \/ ApproveSingle(a, v)
               \/ ApproveFinal(a, v)
               \/ ApprovePartial(a, v)
               \/ Veto(a, v)

QueueSpec == QueueInit /\ [][QueueNext]_queueVars

-----------------------------------------------------------------------------
(* What the queue promises.                                                *)

\* The two indexes agree: a tenant's list holds exactly the ids of its pending
\* rows, each once, oldest first (list_pending: "all state=pending rows for
\* tenant_id, FIFO"; _resolve removes from the middle of the list).
PendingListExact ==
    \A t \in Tenants :
        LET list == pendingByTenant[t]
        IN  /\ Range(list) = {a \in DOMAIN rows : rows[a].state = "pending"
                                                  /\ rows[a].tenant = t}
            /\ \A i, j \in 1..Len(list) :
                   i < j => rows[list[i]].enqueuedAt < rows[list[j]].enqueuedAt

\* Votes are by distinct eligible approvers, a row is pending only while it
\* lacks votes, and it is approved only with a full quorum - except the
\* single-approver row resolved by the anonymous approver, which has no name
\* to record.
QuorumExact ==
    \A a \in DOMAIN rows :
        LET row == rows[a] IN
        /\ IsInjective(row.approvals)
        /\ Range(row.approvals) \subseteq row.eligible
        /\ row.state # "approved" => Len(row.approvals) < row.required
        /\ row.state = "approved" =>
              \/ Len(row.approvals) = row.required
              \/ row.required = 1 /\ row.approvals = <<>> /\ row.decidedBy = Nobody

\* A pending row with a named pool can still be resolved: enough of its pool
\* has not voted yet (enqueue: a pool smaller than the quorum is rejected "at
\* the config boundary, rather than surfacing as a stuck row later").
NeverStuck ==
    \A a \in DOMAIN rows :
        (IsPending(a) /\ rows[a].eligible # OpenPool) =>
            Cardinality(rows[a].eligible \ Voted(a))
                >= rows[a].required - Len(rows[a].approvals)

\* What makes the three above inductive: an armed rule passed the checks of
\* enqueue, and a row is stamped with the number of rows enqueued before it.
ArmedRulesValid ==
    \A a \in DOMAIN rows : ValidRule([required |-> rows[a].required,
                                     eligible |-> rows[a].eligible])
StampsInOrder ==
    /\ IsFiniteSet(DOMAIN rows)
    /\ \A a \in DOMAIN rows : rows[a].enqueuedAt < Cardinality(DOMAIN rows)

QueueInv ==
    /\ QueueTypeOK
    /\ PendingListExact
    /\ QuorumExact
    /\ ArmedRulesValid
    /\ StampsInOrder

\* How a row may evolve: it never disappears, its tenant and its armed quorum
\* never change, votes are only added, nothing touches it once it is resolved,
\* and every change is visible to an optimistic reader as one more row_version.
RowEvolves(old, new) ==
    /\ old.state = "pending"
    /\ new.version = old.version + 1
    /\ <<new.tenant, new.required, new.eligible, new.enqueuedAt>>
           = <<old.tenant, old.required, old.eligible, old.enqueuedAt>>
    /\ IsPrefix(old.approvals, new.approvals)

RowsEvolve ==
    /\ DOMAIN rows \subseteq DOMAIN rows'
    /\ \A a \in DOMAIN rows : rows'[a] # rows[a] => RowEvolves(rows[a], rows'[a])

RowHistory == [][RowsEvolve]_queueVars
=============================================================================
