--------------------------- MODULE ActionLifecycle ---------------------------
(***************************************************************************)
(* What the orchestrator promises of one action, without threads, locks,   *)
(* stores or indexes: the state machine of Action.status                   *)
(* (contracts/actions.py) joined to the review of an N-of-M approval row   *)
(* (contracts/policies.py, ApprovalRule).  PipelineThreads implements it.  *)
(***************************************************************************)
EXTENDS Integers, FiniteSets

CONSTANTS
    ActionIds,
    Approvers,
    Quorums     \* values of required_approvals

VARIABLES
    status,     \* Action.status, or "none" before the action is materialized
    review,     \* the approval row: "none", "open", "approved" or "rejected"
    need,       \* the row's required_approvals, 0 without a row
    signed,     \* the approvers whose vote the row holds
    ran         \* how often the action's side effect was run

lifecycleVars == <<status, review, need, signed, ran>>

Terminal == {"executed", "execution_failed", "rejected"}

Init ==
    /\ status = [a \in ActionIds |-> "none"]
    /\ review = [a \in ActionIds |-> "none"]
    /\ need = [a \in ActionIds |-> 0]
    /\ signed = [a \in ActionIds |-> {}]
    /\ ran = [a \in ActionIds |-> 0]

Move(a, from, to) ==
    /\ status[a] = from
    /\ status' = [status EXCEPT ![a] = to]
    /\ UNCHANGED <<review, need, signed, ran>>

Materialize(a) == Move(a, "none", "pending_policy")

\* The policy decision.
Gate(a) ==
    \E to \in {"pending_exec", "pending_approval", "rejected"} :
        Move(a, "pending_policy", to)

\* A review opens on an action that waits for one, with a quorum of at least one.
OpenReview(a) ==
    /\ status[a] = "pending_approval"
    /\ review[a] = "none"
    /\ review' = [review EXCEPT ![a] = "open"]
    /\ \E n \in Quorums \ {0} : need' = [need EXCEPT ![a] = n]
    /\ UNCHANGED <<status, signed, ran>>

\* One more approver signs; the review closes exactly when the quorum is full.
Sign(a) ==
    /\ review[a] = "open"
    /\ \E v \in Approvers \ signed[a] :
           /\ signed' = [signed EXCEPT ![a] = @ \cup {v}]
           /\ review' = [review EXCEPT ![a] =
                            IF Cardinality(signed'[a]) = need[a]
                            THEN "approved" ELSE "open"]
    /\ UNCHANGED <<status, need, ran>>

Refuse(a) ==
    /\ review[a] = "open"
    /\ review' = [review EXCEPT ![a] = "rejected"]
    /\ UNCHANGED <<status, need, signed, ran>>

\* The action follows its review.
Promote(a) == review[a] = "approved" /\ Move(a, "pending_approval", "pending_exec")
Withdraw(a) == review[a] = "rejected" /\ Move(a, "pending_approval", "rejected")

\* The side effect runs once, before the action is reported done or failed.
Run(a) ==
    /\ status[a] = "pending_exec"
    /\ ran[a] = 0
    /\ ran' = [ran EXCEPT ![a] = 1]
    /\ UNCHANGED <<status, review, need, signed>>

Finish(a) ==
    /\ ran[a] = 1
    /\ \E to \in {"executed", "execution_failed"} : Move(a, "pending_exec", to)

Next ==
    \E a \in ActionIds :
        \/ Materialize(a) \/ Gate(a)
        \/ OpenReview(a) \/ Sign(a) \/ Refuse(a)
        \/ Promote(a) \/ Withdraw(a)
        \/ Run(a) \/ Finish(a)

Spec == Init /\ [][Next]_lifecycleVars
=============================================================================
