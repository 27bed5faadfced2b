--------------------------- MODULE DecisionPipeline ---------------------------
(***************************************************************************)
(* The decision pipeline (orchestrator/decision_pipeline.py): proposals in, *)
(* policy decision, approval queue, executor, audit trail.                 *)
(*                                                                         *)
(* handle_proposal, approve_action and reject_action each run under the    *)
(* pipeline's lock from start to end, so each is atomic with respect to    *)
(* the others and one action here per path through it.  What the unlocked  *)
(* readers and configuration writers see of the steps in between is the    *)
(* subject of PipelineThreads.                                             *)
(***************************************************************************)
EXTENDS ApprovalQueue

CONSTANTS
    Events,       \* event ids, unique within a tenant
    ActionTypes,  \* values of ActionType
    AnyTenant     \* expected_tenant_id = None

ASSUME PipelineAssumption ==
    /\ AnyTenant \notin Tenants
    /\ 1 \in Quorums

VARIABLES
    actions,  \* action store: action id -> Action, for the ids materialized
    dedup,    \* _dedup: <<tenant, event>> -> the id of its one action
    trail,    \* audit log, by action: the entries of an action, oldest first
    policy,   \* the decision each tenant's policy table resolves a type to
    quorum,   \* QuorumPolicy: <<tenant, type>> -> configured rule
    effects   \* history: how often the executor was called for an action

pipelineVars == <<actions, dedup, trail, policy, quorum, effects>>
vars == <<rows, pendingByTenant, pipelineVars>>

-----------------------------------------------------------------------------

Decisions == {"auto", "approval_required", "reject"}
Planners == {"llm", "fallback"}

Statuses == {"pending_policy", "pending_approval", "pending_exec",
             "executed", "execution_failed", "rejected"}

ActionRecords == [tenant : Tenants, event : Events, type : ActionTypes,
                  status : Statuses]

\* An audit row: its kind, the actor (the approver, or Nobody for the system
\* and the planner), what its payload says, and the running tally of votes.
AuditEntries ==
    [kind  : {"proposal", "decision", "approval", "rejection", "execution",
              "execution_failed"},
     actor : OpenPool,
     says  : Planners \cup Decisions \cup {"", "quorum_open", "quorum_reached"},
     tally : Nat]

Proposed(by)   == [kind |-> "proposal", actor |-> Nobody, says |-> by, tally |-> 0]
Decided(d)     == [kind |-> "decision", actor |-> Nobody, says |-> d, tally |-> 0]
Signed(v, n, s) == [kind |-> "approval", actor |-> v, says |-> s, tally |-> n]
Rejected(v)    == [kind |-> "rejection", actor |-> v, says |-> "", tally |-> 0]
Executed(ok)   == [kind  |-> IF ok THEN "execution" ELSE "execution_failed",
                   actor |-> Nobody, says |-> "", tally |-> 0]

\* QuorumPolicy.resolve: the configured rule, or one approver from an open pool.
SingleApprover == [required |-> 1, eligible |-> OpenPool]
ResolveQuorum(t, ty) ==
    IF <<t, ty>> \in DOMAIN quorum THEN quorum[<<t, ty>>] ELSE SingleApprover

PipelineTypeOK ==
    /\ QueueTypeOK
    /\ DOMAIN actions \subseteq ActionIds
    /\ \A a \in DOMAIN actions : actions[a] \in ActionRecords
    /\ DOMAIN dedup \subseteq Tenants \X Events
    /\ \A k \in DOMAIN dedup : dedup[k] \in ActionIds
    /\ trail \in [ActionIds -> Seq(AuditEntries)]
    /\ policy \in [Tenants -> [ActionTypes -> Decisions]]
    /\ DOMAIN quorum \subseteq Tenants \X ActionTypes
    /\ \A k \in DOMAIN quorum : quorum[k] \in QuorumRules /\ ValidRule(quorum[k])
    /\ effects \in [ActionIds -> Nat]

\* A tenant without a table gets the safe default, approval_required.
PipelineInit ==
    /\ QueueInit
    /\ actions = [a \in {} |-> {}]
    /\ dedup = [k \in {} |-> {}]
    /\ trail = [a \in ActionIds |-> <<>>]
    /\ policy = [t \in Tenants |-> [ty \in ActionTypes |-> "approval_required"]]
    /\ quorum = [k \in {} |-> {}]
    /\ effects = [a \in ActionIds |-> 0]

-----------------------------------------------------------------------------

Put(a, t, e, ty, status) ==
    actions' = DictPut(actions, a, [tenant |-> t, event |-> e, type |-> ty,
                                    status |-> status])

SetStatus(a, status) ==
    actions' = DictPut(actions, a, [actions[a] EXCEPT !.status = status])

Write(a, entries) == trail' = [trail EXCEPT ![a] = @ \o entries]

\* _execute: one call of the executor; an exception it raises becomes the
\* status execution_failed and is not re-raised.
RunExecutor(a) == effects' = [effects EXCEPT ![a] = @ + 1]
\* Mutant of ExecStatus: a failure is stored as success.
ExecStatusOptimistic(ok) == "executed"
ExecStatus(ok) == IF ok THEN "executed" ELSE "execution_failed"

\* Mutant of NewProposal: the dedup index is written but not read.
NewProposalUnchecked(a, t, e) ==
    /\ a \notin DOMAIN actions
    /\ dedup' = DictPut(dedup, <<t, e>>, a)
    /\ UNCHANGED <<policy, quorum>>

\* handle_proposal for an event not seen before: a gets a fresh id.  (For an
\* event in the index the cached action is returned and nothing changes.)
NewProposal(a, t, e) ==
    /\ <<t, e>> \notin DOMAIN dedup
    /\ a \notin DOMAIN actions
    /\ dedup' = DictPut(dedup, <<t, e>>, a)
    /\ UNCHANGED <<policy, quorum>>

ProposeReject(a, t, e, ty, by) ==
    /\ NewProposal(a, t, e)
    /\ policy[t][ty] = "reject"
    /\ Put(a, t, e, ty, "rejected")
    /\ Write(a, <<Proposed(by), Decided("reject"), Rejected(Nobody)>>)
    /\ UNCHANGED <<queueVars, effects>>

ProposeQueue(a, t, e, ty, by) ==
    /\ NewProposal(a, t, e)
    /\ policy[t][ty] = "approval_required"
    /\ Put(a, t, e, ty, "pending_approval")
    /\ Enqueue(a, t, ResolveQuorum(t, ty))
    /\ Write(a, <<Proposed(by), Decided("approval_required")>>)
    /\ UNCHANGED effects

ProposeAuto(a, t, e, ty, by, ok) ==
    /\ NewProposal(a, t, e)
    /\ policy[t][ty] = "auto"
    /\ Put(a, t, e, ty, ExecStatus(ok))
    /\ Write(a, <<Proposed(by), Decided("auto"), Executed(ok)>>)
    /\ RunExecutor(a)
    /\ UNCHANGED queueVars

\* The lookup and tenant guard that open approve_action and reject_action.
Visible(a, tn) == a \in DOMAIN actions /\ tn \in {AnyTenant, actions[a].tenant}

\* Mutants of ApproveVote: a partial vote is not audited; it executes the action.
ApproveVoteUnaudited(a, v, tn) ==
    /\ Visible(a, tn)
    /\ ApprovePartial(a, v)
    /\ UNCHANGED <<actions, dedup, trail, policy, quorum, effects>>

ApproveVoteExecutes(a, v, tn) ==
    /\ Visible(a, tn)
    /\ ApprovePartial(a, v)
    /\ Write(a, <<Signed(v, Len(rows'[a].approvals), "quorum_open")>>)
    /\ RunExecutor(a)
    /\ UNCHANGED <<actions, dedup, policy, quorum>>

\* approve_action, the vote does not complete the quorum.
ApproveVote(a, v, tn) ==
    /\ Visible(a, tn)
    /\ ApprovePartial(a, v)
    /\ Write(a, <<Signed(v, Len(rows'[a].approvals), "quorum_open")>>)
    /\ UNCHANGED <<actions, dedup, policy, quorum, effects>>

\* approve_action, the vote resolves the row and the action is executed.
ApproveExecute(a, v, tn, ok) ==
    /\ Visible(a, tn)
    /\ ApproveSingle(a, v) \/ ApproveFinal(a, v)
    /\ Write(a, <<Signed(v, Len(rows'[a].approvals), "quorum_reached"),
                  Executed(ok)>>)
    /\ SetStatus(a, ExecStatus(ok))
    /\ RunExecutor(a)
    /\ UNCHANGED <<dedup, policy, quorum>>

\* Mutants of RejectAction: the store is not updated; the veto is not audited.
RejectActionUnstored(a, v, tn) ==
    /\ Visible(a, tn)
    /\ Veto(a, v)
    /\ Write(a, <<Rejected(v)>>)
    /\ UNCHANGED <<actions, dedup, policy, quorum, effects>>

RejectActionUnaudited(a, v, tn) ==
    /\ Visible(a, tn)
    /\ Veto(a, v)
    /\ SetStatus(a, "rejected")
    /\ UNCHANGED <<dedup, trail, policy, quorum, effects>>

\* reject_action.
RejectAction(a, v, tn) ==
    /\ Visible(a, tn)
    /\ Veto(a, v)
    /\ Write(a, <<Rejected(v)>>)
    /\ SetStatus(a, "rejected")
    /\ UNCHANGED <<dedup, policy, quorum, effects>>

\* PolicyEngine.set_policies replaces a tenant's table.
SetPolicies(t, table) ==
    /\ policy' = [policy EXCEPT ![t] = table]
    /\ UNCHANGED <<queueVars, actions, dedup, trail, quorum, effects>>

\* Mutant of SetQuorumRule: the rule is not validated.
SetQuorumRuleUnchecked(t, ty, rule) ==
    /\ quorum' = DictPut(quorum, <<t, ty>>, rule)
    /\ UNCHANGED <<queueVars, actions, dedup, trail, policy, effects>>

\* QuorumPolicy.set_rule; an armed row keeps the rule it was enqueued with.
SetQuorumRule(t, ty, rule) ==
    /\ ValidRule(rule)
    /\ quorum' = DictPut(quorum, <<t, ty>>, rule)
    /\ UNCHANGED <<queueVars, actions, dedup, trail, policy, effects>>

-----------------------------------------------------------------------------

HandleProposal(a, t, e, ty, by) ==
    \/ ProposeReject(a, t, e, ty, by)
    \/ ProposeQueue(a, t, e, ty, by)
    \/ \E ok \in BOOLEAN : ProposeAuto(a, t, e, ty, by, ok)

Decide(a, v, tn) ==
    \/ ApproveVote(a, v, tn)
    \/ \E ok \in BOOLEAN : ApproveExecute(a, v, tn, ok)
    \/ RejectAction(a, v, tn)

Configure(t) ==
    \/ \E table \in [ActionTypes -> Decisions] : SetPolicies(t, table)
    \/ \E ty \in ActionTypes, rule \in QuorumRules : SetQuorumRule(t, ty, rule)

PipelineNext ==
    \/ \E a \in ActionIds, t \in Tenants, e \in Events, ty \in ActionTypes,
          by \in Planners : HandleProposal(a, t, e, ty, by)
    \/ \E a \in ActionIds, v \in Approvers, tn \in Tenants \cup {AnyTenant} :
          Decide(a, v, tn)
    \/ \E t \in Tenants : Configure(t)

PipelineSpec == PipelineInit /\ [][PipelineNext]_vars

\* clear: every store, the dedup index and the quorum rules are emptied, the
\* policies stay.  (An id is never used again; here its history starts anew.)
Clear ==
    /\ rows' = [a \in {} |-> {}]
    /\ pendingByTenant' = [t \in Tenants |-> <<>>]
    /\ actions' = [a \in {} |-> {}]
    /\ dedup' = [k \in {} |-> {}]
    /\ trail' = [a \in ActionIds |-> <<>>]
    /\ quorum' = [k \in {} |-> {}]
    /\ effects' = [a \in ActionIds |-> 0]
    /\ UNCHANGED policy

ClearableSpec == PipelineInit /\ [][PipelineNext \/ Clear]_vars

-----------------------------------------------------------------------------
(* What the pipeline promises.                                             *)

\* The status an audit trail ending in this entry tells.
StatusTold(entry) ==
    CASE entry.kind = "execution"        -> "executed"
      [] entry.kind = "execution_failed" -> "execution_failed"
      [] entry.kind = "rejection"        -> "rejected"
      [] entry.says \in {"approval_required", "quorum_open"} -> "pending_approval"
      [] OTHER -> "unknown"

\* The audit trail alone tells every action's status: no handler leaves the
\* store and the log disagreeing, and an id without an action has no trail.
StatusMatchesTrail ==
    \A a \in ActionIds :
        IF a \in DOMAIN actions
        THEN /\ trail[a] # <<>>
             /\ actions[a].status = StatusTold(trail[a][Len(trail[a])])
        ELSE trail[a] = <<>>

\* approve_action: "a compliance officer can reconstruct exactly who signed
\* off and in what order".  The approval rows of a queued action's trail are
\* the votes of its queue row, in order and with the running tally; they
\* follow the proposal and decision rows and there are no others.
TrailRecordsVotes ==
    \A a \in DOMAIN actions :
        LET votes == IF a \in DOMAIN rows THEN rows[a].approvals ELSE <<>>
        IN  \A i \in 1..Len(trail[a]) :
                /\ trail[a][i].kind = "approval" <=> i - 2 \in 1..Len(votes)
                /\ i - 2 \in 1..Len(votes) =>
                       /\ trail[a][i].actor = votes[i - 2]
                       /\ trail[a][i].tally = i - 2

\* The status a queue row in a given state leaves its action with.
RowAgrees(state, status) ==
    CASE state = "pending"  -> status = "pending_approval"
      [] state = "rejected" -> status = "rejected"
      [] state = "approved" -> status \in {"executed", "execution_failed"}

\* Queue and store agree: the actions the policy sent to approval are those
\* with a row, under the same tenant, and the row's state tells the status.
QueueMatchesStore ==
    /\ DOMAIN rows \subseteq DOMAIN actions
    /\ \A a \in DOMAIN rows : /\ rows[a].tenant = actions[a].tenant
                              /\ RowAgrees(rows[a].state, actions[a].status)
    /\ \A a \in DOMAIN actions :
           a \in DOMAIN rows <=> (Len(trail[a]) > 1
                                  /\ trail[a][2].says = "approval_required")

\* The policy said auto, or the row was approved by as many distinct eligible
\* approvers as the rule armed at enqueue time asks for.
Authorized(a) ==
    \/ trail[a][2].says = "auto"
    \/ /\ a \in DOMAIN rows
       /\ rows[a].state = "approved"
       /\ Range(rows[a].approvals) \subseteq rows[a].eligible
       /\ Cardinality(Range(rows[a].approvals)) = rows[a].required

\* The executor is called at most once for an action, only with authority, and
\* never for an action that is or will be rejected.
ExecutionAuthorized ==
    \A a \in ActionIds : effects[a] > 0 =>
        /\ effects[a] = 1
        /\ actions[a].status \in {"executed", "execution_failed"}
        /\ Authorized(a)

\* One action per event: the dedup index names for each event it knows the one
\* action materialized for it, and every action is in the index.
OneActionPerEvent ==
    /\ \A k \in DOMAIN dedup :
           /\ dedup[k] \in DOMAIN actions
           /\ <<actions[dedup[k]].tenant, actions[dedup[k]].event>> = k
    /\ \A a \in DOMAIN actions :
           /\ <<actions[a].tenant, actions[a].event>> \in DOMAIN dedup
           /\ dedup[<<actions[a].tenant, actions[a].event>>] = a

\* Nothing happens to an action off the record: an audit row, once written,
\* stays (until clear forgets everything), and whatever changes an action's
\* status, its queue row or its count of executor calls adds to its trail in
\* the same handler.
NoSilentChange ==
    [][\/ Clear
       \/ /\ DOMAIN actions \subseteq DOMAIN actions'
          /\ \A a \in DOMAIN actions :
               /\ IsPrefix(trail[a], trail'[a])
               /\ trail'[a] = trail[a] =>
                    /\ actions'[a] = actions[a]
                    /\ effects'[a] = effects[a]
                    /\ a \in DOMAIN rows => rows'[a] = rows[a]
                    /\ a \notin DOMAIN rows => a \notin DOMAIN rows'
      ]_vars
=============================================================================
