---------------------------- MODULE PipelineThreads ----------------------------
(***************************************************************************)
(* The decision pipeline under threads.  The API's endpoints run on a      *)
(* thread pool and the event listener on a thread of its own, all on one   *)
(* DecisionPipeline.  Its handlers hold the pipeline's lock, but they work *)
(* through stores that are also read, and configuration that is written,   *)
(* without that lock: list_pending_actions, get_action, _action_view,      *)
(* set_policies and set_rule.  Here every store call of a handler is a     *)
(* step of its own (a store call is atomic under the store's own lock).    *)
(* One step may hold two calls if nothing outside the handler can come     *)
(* between them and tell: it reads the configuration and then writes a     *)
(* store, or it takes the lock, and looks something up, and writes.        *)
(***************************************************************************)
EXTENDS DecisionPipeline

CONSTANTS
    Threads,   \* the threads that call into the pipeline
    Free       \* no thread holds the lock

ASSUME ThreadsAssumption == Free \notin Threads

VARIABLES
    lock,      \* DecisionPipeline._lock: its holder, or Free
    pc,        \* where each thread is in the call it runs
    job        \* each thread's arguments and local variables

threadVars == <<lock, pc, job>>
allVars == <<vars, threadVars>>

NoJob == [op |-> "none"]

\* The arguments of a call that takes the lock: its action, the approver, what
\* it passes from one step to the next, and the executor's outcome.
Call(op, a, v) == [op |-> op, a |-> a, v |-> v, says |-> "", ok |-> FALSE]

\* Labels of the code a thread runs with the lock, and without it.
Locked == {"proposal", "policy", "apply", "refused", "enqueue", "index",
           "execute", "ran", "report", "signed", "promote", "vetoed", "withdraw"}
Unlocked == {"idle", "trail", "row", "list", "replied"}

ThreadsTypeOK ==
    /\ PipelineTypeOK
    /\ lock \in Threads \cup {Free}
    /\ pc \in [Threads -> Locked \cup Unlocked]
    /\ DOMAIN job = Threads
    /\ \A th \in Threads : pc[th] \in Locked <=> lock = th

ThreadsInit ==
    /\ PipelineInit
    /\ lock = Free
    /\ pc = [th \in Threads |-> "idle"]
    /\ job = [th \in Threads |-> NoJob]

-----------------------------------------------------------------------------
(* Control.                                                                *)

Goto(th, label) == pc' = [pc EXCEPT ![th] = label]

\* Mutant of Acquire: the lock is taken without waiting for it.
AcquireAtOnce(th, label, args) ==
    /\ pc[th] = "idle"
    /\ lock' = th
    /\ job' = [job EXCEPT ![th] = args]
    /\ Goto(th, label)

\* Start a call that takes the lock; the guard is the wait for it.
Acquire(th, label, args) ==
    /\ pc[th] = "idle"
    /\ lock = Free
    /\ lock' = th
    /\ job' = [job EXCEPT ![th] = args]
    /\ Goto(th, label)

\* Go on with the lock held.
Continue(th, from, to) ==
    /\ pc[th] = from
    /\ Goto(th, to)
    /\ UNCHANGED <<lock, job>>

\* Leave the handler with the action it returns; an HTTP call renders it.
Return(th, from, args) ==
    /\ pc[th] = from
    /\ lock' = Free
    /\ job' = [job EXCEPT ![th] = args]
    /\ Goto(th, IF args = NoJob THEN "idle" ELSE "trail")

\* The action of the call, and what the call leaves alone.
Its(th) == job[th].a
OnlyActions == UNCHANGED <<queueVars, dedup, trail, policy, quorum, effects>>
OnlyTrail == UNCHANGED <<queueVars, actions, dedup, policy, quorum, effects>>
OnlyQueue == UNCHANGED <<actions, dedup, trail, policy, quorum, effects>>

-----------------------------------------------------------------------------
(* handle_proposal.  (An event in the index returns at once.)              *)

BeginProposal(th, a, t, e, ty, by) ==
    /\ <<t, e>> \notin DOMAIN dedup
    /\ a \notin DOMAIN actions
    /\ Acquire(th, "proposal", [Call("propose", a, Nobody) EXCEPT !.says = by])
    /\ Put(a, t, e, ty, "pending_policy")
    /\ OnlyActions

AuditProposal(th) ==
    /\ Continue(th, "proposal", "policy")
    /\ Write(Its(th), <<Proposed(job[th].says)>>)
    /\ OnlyTrail

DecidePolicy(th) ==
    LET action == actions[Its(th)]
        d == policy[action.tenant][action.type]
    IN  /\ pc[th] = "policy"
        /\ job' = [job EXCEPT ![th].says = d]
        /\ Goto(th, "apply")
        /\ UNCHANGED lock
        /\ Write(Its(th), <<Decided(d)>>)
        /\ OnlyTrail

\* _apply_decision, to the first store call.
ApplyReject(th) ==
    /\ Continue(th, "apply", "refused")
    /\ job[th].says = "reject"
    /\ SetStatus(Its(th), "rejected")
    /\ OnlyActions

ApplyQueue(th) ==
    /\ Continue(th, "apply", "enqueue")
    /\ job[th].says = "approval_required"
    /\ SetStatus(Its(th), "pending_approval")
    /\ OnlyActions

ApplyAuto(th) ==
    /\ Continue(th, "apply", "execute")
    /\ job[th].says = "auto"
    /\ SetStatus(Its(th), "pending_exec")
    /\ OnlyActions

AuditRefusal(th) ==
    /\ Continue(th, "refused", "index")
    /\ Write(Its(th), <<Rejected(Nobody)>>)
    /\ OnlyTrail

\* The quorum rule is read here, not when the policy decided.
EnqueueAction(th) ==
    LET action == actions[Its(th)] IN
    /\ Continue(th, "enqueue", "index")
    /\ Enqueue(Its(th), action.tenant, ResolveQuorum(action.tenant, action.type))
    /\ OnlyQueue

IndexEvent(th) ==
    LET action == actions[Its(th)] IN
    /\ Return(th, "index", NoJob)
    /\ dedup' = DictPut(dedup, <<action.tenant, action.event>>, Its(th))
    /\ UNCHANGED <<queueVars, actions, trail, policy, quorum, effects>>

-----------------------------------------------------------------------------
(* _execute, shared by handle_proposal and approve_action.                 *)

\* Mutant of Execute: what the executor raises is not caught.
ExecuteRaises(th) ==
    /\ pc[th] = "execute"
    /\ \/ /\ job' = [job EXCEPT ![th].ok = TRUE]
          /\ Goto(th, "ran")
          /\ UNCHANGED lock
       \/ /\ job' = [job EXCEPT ![th] = NoJob]
          /\ Goto(th, "idle")
          /\ lock' = Free
    /\ RunExecutor(Its(th))
    /\ UNCHANGED <<queueVars, actions, dedup, trail, policy, quorum>>

Execute(th) ==
    /\ pc[th] = "execute"
    /\ \E ok \in BOOLEAN : job' = [job EXCEPT ![th].ok = ok]
    /\ Goto(th, "ran")
    /\ RunExecutor(Its(th))
    /\ UNCHANGED <<lock, queueVars, actions, dedup, trail, policy, quorum>>

PutResult(th) ==
    /\ Continue(th, "ran", "report")
    /\ SetStatus(Its(th), ExecStatus(job[th].ok))
    /\ OnlyActions

\* What the response of a request is rendered from: the action as the handler
\* returned it, then its audit trail and its queue row, both still to be read.
Reply(op, a, v) ==
    [op |-> op, a |-> a, v |-> v, status |-> actions[a].status,
     trail |-> <<>>, review |-> "none", votes |-> <<>>]

AuditResult(th) ==
    /\ pc[th] = "report"
    /\ \/ job[th].op = "propose" /\ Continue(th, "report", "index")
       \/ /\ job[th].op # "propose"
          /\ Return(th, "report", Reply("approve", Its(th), job[th].v))
    /\ Write(Its(th), <<Executed(job[th].ok)>>)
    /\ OnlyTrail

-----------------------------------------------------------------------------
(* approve_action and reject_action.  (A call whose tenant guard or queue  *)
(* call raises changes nothing and releases the lock.)                     *)

BeginApprove(th, a, v, tn) ==
    /\ Visible(a, tn)
    /\ Acquire(th, "signed", Call("approve", a, v))
    /\ ApproveSingle(a, v) \/ ApproveFinal(a, v) \/ ApprovePartial(a, v)
    /\ OnlyQueue

\* Mutant of AuditApproval: a vote short of the quorum goes on to execution.
AuditApprovalGoesOn(th) ==
    LET a == Its(th) IN
    /\ Continue(th, "signed", "promote")
    /\ Write(a, <<Signed(job[th].v, Len(rows[a].approvals), "quorum_reached")>>)
    /\ OnlyTrail

AuditApproval(th) ==
    LET a == Its(th)
        reached == rows[a].state = "approved"
    IN  /\ pc[th] = "signed"
        /\ \/ reached /\ Continue(th, "signed", "promote")
           \/ ~reached /\ Return(th, "signed", Reply("approve", a, job[th].v))
        /\ Write(a, <<Signed(job[th].v, Len(rows[a].approvals),
                             IF reached THEN "quorum_reached" ELSE "quorum_open")>>)
        /\ OnlyTrail

Promote(th) ==
    /\ Continue(th, "promote", "execute")
    /\ SetStatus(Its(th), "pending_exec")
    /\ OnlyActions

\* Mutant of BeginReject: the action is stored as rejected before its row is.
BeginRejectStoreFirst(th, a, v, tn) ==
    /\ Visible(a, tn)
    /\ MayDecide(a, v)
    /\ Acquire(th, "vetoed", Call("reject", a, v))
    /\ SetStatus(a, "rejected")
    /\ OnlyActions

BeginReject(th, a, v, tn) ==
    /\ Visible(a, tn)
    /\ Acquire(th, "vetoed", Call("reject", a, v))
    /\ Veto(a, v)
    /\ OnlyQueue

AuditVeto(th) ==
    /\ Continue(th, "vetoed", "withdraw")
    /\ Write(Its(th), <<Rejected(job[th].v)>>)
    /\ OnlyTrail

Withdraw(th) ==
    /\ Return(th, "withdraw", [Reply("reject", Its(th), job[th].v)
                                   EXCEPT !.status = "rejected"])
    /\ SetStatus(Its(th), "rejected")
    /\ OnlyActions

-----------------------------------------------------------------------------
(* The unlocked side.                                                      *)

\* GET /actions: get_action, then the view.
BeginGet(th, a, tn) ==
    /\ pc[th] = "idle"
    /\ Visible(a, tn)
    /\ job' = [job EXCEPT ![th] = Reply("get", a, Nobody)]
    /\ Goto(th, "trail")
    /\ UNCHANGED <<vars, lock>>

\* _action_view reads the audit trail, then (_approval_progress) the queue row.
ViewTrail(th) ==
    /\ pc[th] = "trail"
    /\ job' = [job EXCEPT ![th].trail = trail[Its(th)]]
    /\ Goto(th, "row")
    /\ UNCHANGED <<vars, lock>>

ViewRow(th) ==
    /\ pc[th] = "row"
    /\ job' = IF Its(th) \in DOMAIN rows
              THEN [job EXCEPT ![th].review = rows[Its(th)].state,
                               ![th].votes = rows[Its(th)].approvals]
              ELSE job
    /\ Goto(th, "replied")
    /\ UNCHANGED <<vars, lock>>

\* list_pending_actions: the tenant's rows, then the action of each.
BeginList(th, t) ==
    /\ pc[th] = "idle"
    /\ job' = [job EXCEPT ![th] = [op |-> "list", t |-> t,
                                   ids |-> pendingByTenant[t], got |-> <<>>]]
    /\ Goto(th, "list")
    /\ UNCHANGED <<vars, lock>>

ListGet(th) ==
    LET a == Head(job[th].ids) IN
    /\ pc[th] = "list"
    /\ job[th].ids # <<>>
    /\ job' = [job EXCEPT ![th].ids = Tail(@),
                          ![th].got = IF a \notin DOMAIN actions THEN @
                                      ELSE Append(@, [a |-> a, status |-> actions[a].status])]
    /\ UNCHANGED <<vars, lock, pc>>

ListDone(th) ==
    /\ pc[th] = "list"
    /\ job[th].ids = <<>>
    /\ Goto(th, "replied")
    /\ UNCHANGED <<vars, lock, job>>

EndCall(th) ==
    /\ pc[th] = "replied"
    /\ job' = [job EXCEPT ![th] = NoJob]
    /\ Goto(th, "idle")
    /\ UNCHANGED <<vars, lock>>

-----------------------------------------------------------------------------

Begin(th) ==
    \/ \E a \in ActionIds, t \in Tenants, e \in Events, ty \in ActionTypes,
          by \in Planners : BeginProposal(th, a, t, e, ty, by)
    \/ \E a \in ActionIds, v \in Approvers, tn \in Tenants \cup {AnyTenant} :
          BeginApprove(th, a, v, tn) \/ BeginReject(th, a, v, tn)
    \/ \E a \in ActionIds, tn \in Tenants \cup {AnyTenant} : BeginGet(th, a, tn)
    \/ \E t \in Tenants : BeginList(th, t)

Proceed(th) ==
    \/ AuditProposal(th) \/ DecidePolicy(th)
    \/ ApplyReject(th) \/ ApplyQueue(th) \/ ApplyAuto(th)
    \/ AuditRefusal(th) \/ EnqueueAction(th) \/ IndexEvent(th)
    \/ Execute(th) \/ PutResult(th) \/ AuditResult(th)
    \/ AuditApproval(th) \/ Promote(th)
    \/ AuditVeto(th) \/ Withdraw(th)
    \/ ViewTrail(th) \/ ViewRow(th)
    \/ ListGet(th) \/ ListDone(th)
    \/ EndCall(th)

ThreadsNext ==
    \/ \E th \in Threads : Begin(th) \/ Proceed(th)
    \/ (\E t \in Tenants : Configure(t)) /\ UNCHANGED threadVars

ThreadsSpec == ThreadsInit /\ [][ThreadsNext]_allVars

\* A thread that is in a call goes on: no step of a call waits for anything
\* (the lock is waited for only to begin), and the operating system runs every
\* thread.  That requests or events arrive is not assumed.
FairThreadsSpec == ThreadsSpec /\ \A th \in Threads : WF_allVars(Proceed(th))

-----------------------------------------------------------------------------
(* What holds under threads.                                               *)

\* Whenever the lock is free, the stores agree as they do between the atomic
\* handlers of DecisionPipeline: no interleaving of calls, readers and
\* configuration changes leaves a handler's work half done or done twice.
QuiescentlyConsistent ==
    lock = Free => /\ StatusMatchesTrail
                   /\ TrailRecordsVotes
                   /\ QueueMatchesStore
                   /\ ExecutionAuthorized
                   /\ OneActionPerEvent

\* list_pending_actions: a queue row that references an action the store lacks
\* "should be impossible in single-process mode (we always create the action
\* before enqueueing)"; nor does the list ever show one the policy has not
\* decided on yet.  This holds at every step, for the list takes no lock.
QueuedIsStored ==
    \A a \in DOMAIN rows :
        /\ a \in DOMAIN actions
        /\ rows[a].tenant = actions[a].tenant
        /\ actions[a].status # "pending_policy"
        /\ rows[a].state = "pending" => actions[a].status = "pending_approval"

\* What the stores promise each other, inside a handler and between two.
StoresAgree == ThreadsTypeOK /\ QueuedIsStored /\ QuiescentlyConsistent

Replied(th, ops) == pc[th] = "replied" /\ job[th].op \in ops

\* approvals_approve: "the response embeds approval_progress, so the caller sees
\* how many more approvals are needed".  The view is rendered after the lock is
\* released, yet it never misses the vote it answers, and the final status an
\* approver is told is the one the trail in the same response ends with.
ResponseShowsDecision ==
    \A th \in Threads : Replied(th, {"approve", "reject"}) =>
        LET r == job[th] IN
        /\ \E i \in 1..Len(r.trail) :
               r.trail[i].actor = r.v
               /\ r.trail[i].kind = IF r.op = "approve" THEN "approval" ELSE "rejection"
        /\ r.op = "approve" => r.v \in Range(r.votes)
        /\ r.status # "pending_approval" => StatusTold(Last(r.trail)) = r.status

\* _approval_progress is read after the action, so it is never behind it: an
\* action shown as decided is shown with the review that decided it.
ProgressNotBehind ==
    \A th \in Threads : Replied(th, {"get", "approve", "reject"}) =>
        LET r == job[th] IN
        /\ r.review = "pending" => r.status \in {"pending_policy", "pending_approval"}
        /\ r.review = "approved" => r.status # "rejected"
        /\ (r.review # "none" /\ r.status \in {"pending_exec", "executed", "execution_failed"})
               => r.review = "approved"
        /\ (r.review # "none" /\ r.status = "rejected") => r.review = "rejected"

\* A response is behind neither its own decision nor the review it shows.
ResponsesCurrent == ResponseShowsDecision /\ ProgressNotBehind

\* list_pending_actions returns the tenant's actions in FIFO order and skips no
\* action that is still pending and older than one it returns.
ListInOrder ==
    \A th \in Threads : Replied(th, {"list"}) =>
        LET got == job[th].got
            ids == {got[i].a : i \in 1..Len(got)}
        IN  /\ \A i, j \in 1..Len(got) :
                   i < j => rows[got[i].a].enqueuedAt < rows[got[j].a].enqueuedAt
            /\ \A a \in ids : actions[a].tenant = job[th].t
            /\ \A a \in ids, b \in DOMAIN rows :
                   (/\ rows[b].tenant = job[th].t
                    /\ rows[b].state = "pending"
                    /\ rows[b].enqueuedAt < rows[a].enqueuedAt) => b \in ids

\* "Pending = action store filtered to status=pending_approval": the docstring
\* of list_pending_actions.
ListedArePending ==
    \A th \in Threads : Replied(th, {"list"}) =>
        \A i \in 1..Len(job[th].got) : job[th].got[i].status = "pending_approval"

\* Statuses only a handler under way shows: no action stays in one, whatever the
\* executor does and whoever else is calling.
InTransit(a) ==
    a \in DOMAIN actions
    /\ \/ actions[a].status \in {"pending_policy", "pending_exec"}
       \/ actions[a].status = "pending_approval" /\ ~IsPending(a)

TransitEnds == \A a \in ActionIds : InTransit(a) ~> ~InTransit(a)

\* Every call returns: handlers, views and lists.
CallsReturn == \A th \in Threads : pc[th] # "idle" ~> pc[th] = "idle"

\* Nothing is begun that does not end, on the caller's side and in the stores.
CallsEnd == TransitEnds /\ CallsReturn

\* What a reader of the stores sees of each action, whoever holds the lock.
StatusSeen ==
    [a \in ActionIds |-> IF a \in DOMAIN actions THEN actions[a].status ELSE "none"]
ReviewSeen ==
    [a \in ActionIds |-> IF a \notin DOMAIN rows THEN "none"
                         ELSE IF rows[a].state = "pending" THEN "open"
                         ELSE rows[a].state]
NeedSeen ==
    [a \in ActionIds |-> IF a \in DOMAIN rows THEN rows[a].required ELSE 0]
SignedSeen ==
    [a \in ActionIds |-> IF a \in DOMAIN rows THEN Range(rows[a].approvals) ELSE {}]

\* The threaded pipeline implements the lifecycle of an action.
Lifecycle == INSTANCE ActionLifecycle WITH
    status <- StatusSeen,
    review <- ReviewSeen,
    need   <- NeedSeen,
    signed <- SignedSeen,
    ran    <- effects

ImplementsLifecycle == Lifecycle!Spec
=============================================================================
