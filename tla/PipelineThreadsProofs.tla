------------------------- MODULE PipelineThreadsProofs -------------------------
(***************************************************************************)
(* Proofs about the decision pipeline under threads, for any number of     *)
(* threads.  The invariant says, for each label of a handler, what it has  *)
(* written so far of the action it works on; every other action is as the  *)
(* atomic handlers of DecisionPipeline leave one.                          *)
(***************************************************************************)
EXTENDS PipelineThreads, DecisionPipelineProofs

-----------------------------------------------------------------------------
(* The invariant.                                                          *)

\* The event an action was made for, as the key of the dedup index.
KeyOf(a) == <<actions[a].tenant, actions[a].event>>

Indexed(a) == KeyOf(a) \in DOMAIN dedup /\ dedup[KeyOf(a)] = a

IndexSound ==
    \A k \in DOMAIN dedup : dedup[k] \in DOMAIN actions /\ KeyOf(dedup[k]) = k

\* An action no handler is working on.
Settled(a) == RecordOK(a) /\ ExecOK(a) /\ (a \in DOMAIN actions => Indexed(a))

\* The arguments of a call that holds the lock.
Calls == [op   : {"propose", "approve", "reject"},
          a    : ActionIds,
          v    : OpenPool,
          says : Planners \cup Decisions \cup {""},
          ok   : BOOLEAN]

\* The store's side of an action whose handler is under way, and the proposal
\* and decision rows its trail opens with.
Shows(a, status, calls) ==
    /\ a \in DOMAIN actions
    /\ actions[a].status = status
    /\ effects[a] = calls

Opened(a) ==
    /\ trail[a][1].kind = "proposal"
    /\ trail[a][2].kind = "decision"

\* handle_proposal: before the policy decided, and after it said what says is.
Undecided(a, n) ==
    /\ Shows(a, "pending_policy", 0)
    /\ Len(trail[a]) = n
    /\ n = 1 => trail[a][1].kind = "proposal"

DecidedAs(a, says, status, calls) ==
    /\ Shows(a, status, calls)
    /\ Len(trail[a]) = 2 /\ Opened(a)
    /\ trail[a][2].says = says

ProposalLabels == {"proposal", "policy", "apply", "refused", "enqueue",
                   "execute", "ran", "report"}

ProposalStage(th) ==
    LET a == Its(th) IN
    /\ a \notin DOMAIN rows
    /\ pc[th] \in ProposalLabels
    /\ pc[th] = "proposal" => Undecided(a, 0) /\ job[th].says \in Planners
    /\ pc[th] = "policy"   => Undecided(a, 1)
    /\ pc[th] = "apply"    => DecidedAs(a, job[th].says, "pending_policy", 0)
                              /\ job[th].says \in Decisions
    /\ pc[th] = "refused"  => DecidedAs(a, "reject", "rejected", 0)
    /\ pc[th] = "enqueue"  => DecidedAs(a, "approval_required", "pending_approval", 0)
    /\ pc[th] = "execute"  => DecidedAs(a, "auto", "pending_exec", 0)
    /\ pc[th] = "ran"      => DecidedAs(a, "auto", "pending_exec", 1)
    /\ pc[th] = "report"   => DecidedAs(a, "auto", ExecStatus(job[th].ok), 1)

\* All that is missing of a new action is its entry in the index.
IndexStage(th) == pc[th] = "index" /\ RecordOK(Its(th)) /\ ExecOK(Its(th))

\* approve_action and reject_action: the row is in state, n rows are written of
\* the trail, and of these those after the first two are the votes.
Reviewed(a, state, n, status, calls) ==
    /\ Shows(a, status, calls)
    /\ a \in DOMAIN rows
    /\ rows[a].state = state
    /\ rows[a].tenant = actions[a].tenant
    /\ Opened(a) /\ trail[a][2].says = "approval_required"
    /\ Len(trail[a]) = n
    /\ \A i \in 1..Votes(a) : i + 2 <= n =>
           /\ trail[a][i + 2].kind = "approval"
           /\ trail[a][i + 2].actor = rows[a].approvals[i]
           /\ trail[a][i + 2].tally = i

Approved(a, status, calls) ==
    Votes(a) >= 1 /\ Reviewed(a, "approved", Votes(a) + 2, status, calls)

ApprovalStage(th) ==
    LET a == Its(th) IN
    /\ pc[th] \in {"signed", "promote", "execute", "ran", "report"}
    /\ pc[th] = "signed"  =>
           /\ Votes(a) >= 1 /\ rows[a].approvals[Votes(a)] = job[th].v
           /\ \/ Reviewed(a, "pending", Votes(a) + 1, "pending_approval", 0)
              \/ Reviewed(a, "approved", Votes(a) + 1, "pending_approval", 0)
    /\ pc[th] = "promote" => Approved(a, "pending_approval", 0)
    /\ pc[th] = "execute" => Approved(a, "pending_exec", 0)
    /\ pc[th] = "ran"     => Approved(a, "pending_exec", 1)
    /\ pc[th] = "report"  => Approved(a, ExecStatus(job[th].ok), 1)

RejectionStage(th) ==
    LET a == Its(th) IN
    /\ pc[th] \in {"vetoed", "withdraw"}
    /\ pc[th] = "vetoed"   => Reviewed(a, "rejected", Votes(a) + 2, "pending_approval", 0)
    /\ pc[th] = "withdraw" =>
           /\ Reviewed(a, "rejected", Votes(a) + 3, "pending_approval", 0)
           /\ trail[a][Votes(a) + 3] = Rejected(job[th].v)

\* What the handler that holds the lock has done of its work.
Stage(th) ==
    /\ job[th] \in Calls
    /\ Its(th) \in DOMAIN actions
    /\ job[th].op = "propose" => /\ KeyOf(Its(th)) \notin DOMAIN dedup
                                 /\ ProposalStage(th) \/ IndexStage(th)
    /\ job[th].op # "propose" => Indexed(Its(th))
    /\ job[th].op = "approve" => ApprovalStage(th)
    /\ job[th].op = "reject"  => RejectionStage(th)

Busy(a) == \E th \in Threads : lock = th /\ Its(th) = a

ThreadsInv ==
    /\ ThreadsTypeOK
    /\ QueueInv
    /\ IndexSound
    /\ \A a \in ActionIds : ~Busy(a) => Settled(a)
    /\ \A th \in Threads : lock = th => Stage(th)

-----------------------------------------------------------------------------
(* The holder of the lock.                                                 *)

\* A thread at a label of a handler holds the lock, alone, and its stage tells
\* what it works on.
LEMMA Holder ==
    ASSUME ThreadsInv, NEW th \in Threads, pc[th] \in Locked
    PROVE  /\ lock = th /\ th # Free
           /\ Stage(th)
           /\ job[th] \in Calls /\ Its(th) \in ActionIds /\ Its(th) \in DOMAIN actions
           /\ \A b \in ActionIds : b # Its(th) => Settled(b)
<1>1. lock = th /\ th # Free
  BY ThreadsAssumption DEF ThreadsInv, ThreadsTypeOK
<1>2. Stage(th)
  BY <1>1 DEF ThreadsInv
<1>3. job[th] \in Calls /\ Its(th) \in ActionIds /\ Its(th) \in DOMAIN actions
  BY <1>2 DEF Stage, Its, Calls
<1>4. \A b \in ActionIds : b # Its(th) => Settled(b)
  BY <1>1 DEF ThreadsInv, Busy
<1>5. QED BY <1>1, <1>2, <1>3, <1>4

\* Where the holder is tells which handler it is in, but for _execute.
LEMMA StageAt ==
    ASSUME NEW th \in Threads, Stage(th)
    PROVE  /\ pc[th] \in {"proposal", "policy", "apply", "refused", "enqueue"}
                  => /\ job[th].op = "propose" /\ ProposalStage(th)
                     /\ KeyOf(Its(th)) \notin DOMAIN dedup
           /\ pc[th] = "index" => /\ job[th].op = "propose" /\ IndexStage(th)
                                  /\ KeyOf(Its(th)) \notin DOMAIN dedup
           /\ pc[th] \in {"execute", "ran", "report"}
                  => \/ /\ job[th].op = "propose" /\ ProposalStage(th)
                        /\ KeyOf(Its(th)) \notin DOMAIN dedup
                     \/ job[th].op = "approve" /\ ApprovalStage(th) /\ Indexed(Its(th))
           /\ pc[th] \in {"signed", "promote"}
                  => job[th].op = "approve" /\ ApprovalStage(th) /\ Indexed(Its(th))
           /\ pc[th] \in {"vetoed", "withdraw"}
                  => job[th].op = "reject" /\ RejectionStage(th) /\ Indexed(Its(th))
<1>1. job[th].op \in {"propose", "approve", "reject"}
  BY DEF Stage, Calls
<1>2. CASE job[th].op = "propose"
  BY <1>2 DEF Stage, ProposalStage, ProposalLabels, IndexStage
<1>3. CASE job[th].op = "approve"
  BY <1>3 DEF Stage, ApprovalStage
<1>4. CASE job[th].op = "reject"
  BY <1>4 DEF Stage, RejectionStage
<1>5. QED BY <1>1, <1>2, <1>3, <1>4

-----------------------------------------------------------------------------
(* Taken apart into store calls, the handlers still drive the queue only    *)
(* through its own operations.                                             *)

\* The quorum the configuration resolves to is one of the rules.
LEMMA ResolvedRule ==
    ASSUME PipelineTypeOK, NEW t \in Tenants, NEW ty \in ActionTypes
    PROVE  ResolveQuorum(t, ty) \in QuorumRules
BY PipelineAssumption DEF ResolveQuorum, SingleApprover, QuorumRules, Pools, PipelineTypeOK

\* At the grain of store calls too, a step is one call of the queue or none.
LEMMA ThreadStepIsQueueStep ==
    ASSUME ThreadsInv, [ThreadsNext]_allVars
    PROVE  [QueueNext]_queueVars
<1>1. CASE UNCHANGED allVars
  BY <1>1 DEF allVars, vars, queueVars
<1>2. ASSUME NEW t \in Tenants, Configure(t)
      PROVE  UNCHANGED queueVars
  BY <1>2 DEF Configure, SetPolicies, SetQuorumRule
<1>3. ASSUME NEW th \in Threads, Begin(th)
      PROVE  [QueueNext]_queueVars
  <2>1. ASSUME NEW a \in ActionIds, NEW t \in Tenants, NEW e \in Events,
               NEW ty \in ActionTypes, NEW by \in Planners,
               BeginProposal(th, a, t, e, ty, by)
        PROVE  UNCHANGED queueVars
    BY <2>1 DEF BeginProposal, OnlyActions
  <2>2. ASSUME NEW a \in ActionIds, NEW v \in Approvers,
               NEW tn \in Tenants \cup {AnyTenant},
               BeginApprove(th, a, v, tn) \/ BeginReject(th, a, v, tn)
        PROVE  QueueNext
    <3>1. v \in OpenPool
      BY DEF OpenPool
    <3>2. ApproveSingle(a, v) \/ ApproveFinal(a, v) \/ ApprovePartial(a, v) \/ Veto(a, v)
      BY <2>2 DEF BeginApprove, BeginReject
    <3>3. QED BY <3>1, <3>2 DEF QueueNext
  <2>3. ASSUME NEW a \in ActionIds, NEW tn \in Tenants \cup {AnyTenant}, BeginGet(th, a, tn)
        PROVE  UNCHANGED queueVars
    BY <2>3 DEF BeginGet, vars, queueVars
  <2>4. ASSUME NEW t \in Tenants, BeginList(th, t)
        PROVE  UNCHANGED queueVars
    BY <2>4 DEF BeginList, vars, queueVars
  <2>5. QED BY <1>3, <2>1, <2>2, <2>3, <2>4 DEF Begin
<1>4. ASSUME NEW th \in Threads, Proceed(th)
      PROVE  [QueueNext]_queueVars
  <2>1. CASE EnqueueAction(th)
    <3> DEFINE a == Its(th)
               rule == ResolveQuorum(actions[a].tenant, actions[a].type)
    <3>1. a \in ActionIds /\ a \in DOMAIN actions
      BY <2>1, Holder DEF EnqueueAction, Continue, Locked
    <3>2. actions[a].tenant \in Tenants /\ actions[a].type \in ActionTypes /\ PipelineTypeOK
      BY <3>1 DEF ThreadsInv, ThreadsTypeOK, PipelineTypeOK, ActionRecords
    <3>3. rule \in QuorumRules
      BY <3>2, ResolvedRule
    <3>4. Enqueue(a, actions[a].tenant, rule)
      BY <2>1 DEF EnqueueAction
    <3>5. QED BY <3>1, <3>2, <3>3, <3>4 DEF QueueNext
  <2>2. CASE ~EnqueueAction(th)
    BY <1>4, <2>2 DEF Proceed, AuditProposal, DecidePolicy, ApplyReject, ApplyQueue, ApplyAuto,
          AuditRefusal, IndexEvent, Execute, PutResult, AuditResult, AuditApproval,
          Promote, AuditVeto, Withdraw, ViewTrail, ViewRow, ListGet, ListDone, EndCall,
          OnlyActions, OnlyTrail, vars, queueVars
  <2>3. QED BY <2>1, <2>2
<1>5. QED BY <1>1, <1>2, <1>3, <1>4 DEF ThreadsNext

-----------------------------------------------------------------------------
(* Types.                                                                  *)

\* What a step of a call under way may write of the stores.
LEMMA ProceedWrites ==
    ASSUME ThreadsInv, NEW th \in Threads, Proceed(th), ~ UNCHANGED vars
    PROVE  /\ pc[th] \in Locked
           /\ actions' = actions \/ \E status \in Statuses : SetStatus(Its(th), status)
           /\ trail' = trail \/ \E entries \in Seq(AuditEntries) : Write(Its(th), entries)
           /\ effects' = effects \/ RunExecutor(Its(th))
           /\ dedup' = dedup \/ IndexEvent(th)
           /\ policy' = policy /\ quorum' = quorum
<1> DEFINE a == Its(th)
           SetsStatus == \E status \in Statuses : SetStatus(a, status)
           WritesRows == \E entries \in Seq(AuditEntries) : Write(a, entries)
<1>1. pc[th] \in Locked
  <2>1. ~ (ViewTrail(th) \/ ViewRow(th) \/ ListGet(th) \/ ListDone(th) \/ EndCall(th))
    BY DEF ViewTrail, ViewRow, ListGet, ListDone, EndCall
  <2>2. QED BY <2>1 DEF Proceed, AuditProposal, DecidePolicy, ApplyReject, ApplyQueue,
          ApplyAuto, AuditRefusal, EnqueueAction, IndexEvent, Execute, PutResult,
          AuditResult, AuditApproval, Promote, AuditVeto, Withdraw, Continue, Return, Locked
<1>2. job[th] \in Calls /\ a \in DOMAIN actions /\ a \in ActionIds
  BY <1>1, Holder
<1>3. actions' = actions \/ SetsStatus
  BY DEF Proceed, AuditProposal, DecidePolicy, ApplyReject, ApplyQueue, ApplyAuto,
         AuditRefusal, EnqueueAction, IndexEvent, Execute, PutResult, AuditResult,
         AuditApproval, Promote, AuditVeto, Withdraw, ViewTrail, ViewRow, ListGet,
         ListDone, EndCall, OnlyActions, OnlyTrail, OnlyQueue, vars, pipelineVars,
         Statuses, ExecStatus
<1>4. effects' = effects \/ RunExecutor(a)
  BY DEF Proceed, AuditProposal, DecidePolicy, ApplyReject, ApplyQueue, ApplyAuto,
         AuditRefusal, EnqueueAction, IndexEvent, Execute, PutResult, AuditResult,
         AuditApproval, Promote, AuditVeto, Withdraw, ViewTrail, ViewRow, ListGet,
         ListDone, EndCall, OnlyActions, OnlyTrail, OnlyQueue, vars, pipelineVars
<1>5. dedup' = dedup \/ IndexEvent(th)
  BY DEF Proceed, AuditProposal, DecidePolicy, ApplyReject, ApplyQueue, ApplyAuto,
         AuditRefusal, EnqueueAction, IndexEvent, Execute, PutResult, AuditResult,
         AuditApproval, Promote, AuditVeto, Withdraw, ViewTrail, ViewRow, ListGet,
         ListDone, EndCall, OnlyActions, OnlyTrail, OnlyQueue, vars, pipelineVars
<1>6. policy' = policy /\ quorum' = quorum
  BY DEF Proceed, AuditProposal, DecidePolicy, ApplyReject, ApplyQueue, ApplyAuto,
         AuditRefusal, EnqueueAction, IndexEvent, Execute, PutResult, AuditResult,
         AuditApproval, Promote, AuditVeto, Withdraw, ViewTrail, ViewRow, ListGet,
         ListDone, EndCall, OnlyActions, OnlyTrail, OnlyQueue, vars, pipelineVars
<1>7. trail' = trail \/ WritesRows
  <2>1. ASSUME NEW entry \in AuditEntries, Write(a, <<entry>>)
        PROVE  WritesRows
    BY <2>1, ShortSequences
  <2>2. CASE AuditProposal(th)
    <3>1. pc[th] = "proposal" /\ Write(a, <<Proposed(job[th].says)>>)
      BY <2>2 DEF AuditProposal, Continue
    <3>2. job[th].says \in Planners
      BY <1>1, <3>1, Holder, StageAt DEF ProposalStage
    <3>3. QED BY <2>1, <3>1, <3>2, EntryTypes
  <2>3. CASE DecidePolicy(th)
    <3> DEFINE d == policy[actions[a].tenant][actions[a].type]
    <3>1. Write(a, <<Decided(d)>>)
      BY <2>3 DEF DecidePolicy
    <3>2. d \in Decisions
      BY <1>2 DEF ThreadsInv, ThreadsTypeOK, PipelineTypeOK, ActionRecords
    <3>3. QED BY <2>1, <3>1, <3>2, EntryTypes
  <2>4. CASE AuditRefusal(th)
    <3>1. Rejected(Nobody) \in AuditEntries
      BY EntryTypes DEF OpenPool
    <3>2. QED BY <2>1, <2>4, <3>1 DEF AuditRefusal
  <2>5. CASE AuditResult(th)
    <3>1. Executed(job[th].ok) \in AuditEntries
      BY <1>2, EntryTypes DEF Calls
    <3>2. QED BY <2>1, <2>5, <3>1 DEF AuditResult
  <2>6. CASE AuditApproval(th)
    <3> DEFINE n == Len(rows[a].approvals)
               says == IF rows[a].state = "approved" THEN "quorum_reached" ELSE "quorum_open"
    <3>1. pc[th] = "signed" /\ Write(a, <<Signed(job[th].v, n, says)>>)
      BY <2>6 DEF AuditApproval
    <3>2. a \in DOMAIN rows
      BY <1>1, <3>1, Holder, StageAt DEF ApprovalStage, Reviewed
    <3>3. n \in Nat
      BY <3>2, LenProperties DEF ThreadsInv, QueueInv, QueueTypeOK, Rows
    <3>4. says \in {"quorum_open", "quorum_reached"} /\ job[th].v \in OpenPool
      BY <1>2 DEF Calls
    <3>5. Signed(job[th].v, n, says) \in AuditEntries
      BY <3>3, <3>4, EntryTypes
    <3>6. QED BY <2>1, <3>1, <3>5
  <2>7. CASE AuditVeto(th)
    <3>1. Rejected(job[th].v) \in AuditEntries
      BY <1>2, EntryTypes DEF Calls
    <3>2. QED BY <2>1, <2>7, <3>1 DEF AuditVeto
  <2>8. CASE trail' = trail
    BY <2>8
  <2>9. trail' = trail \/ AuditProposal(th) \/ DecidePolicy(th) \/ AuditRefusal(th)
        \/ AuditResult(th) \/ AuditApproval(th) \/ AuditVeto(th)
    BY DEF Proceed, ApplyReject, ApplyQueue, ApplyAuto, EnqueueAction, IndexEvent, Execute,
           PutResult, Promote, Withdraw, ViewTrail, ViewRow, ListGet, ListDone, EndCall,
           OnlyActions, OnlyQueue, vars, pipelineVars
  <2>10. QED BY <2>2, <2>3, <2>4, <2>5, <2>6, <2>7, <2>8, <2>9
<1>8. QED BY <1>1, <1>3, <1>4, <1>5, <1>6, <1>7

\* Every store call keeps the types of the stores.
LEMMA ThreadStoreTypes ==
    ASSUME ThreadsInv, [ThreadsNext]_allVars
    PROVE  PipelineTypeOK'
<1>1. PipelineTypeOK /\ QueueInv
  BY DEF ThreadsInv, ThreadsTypeOK
<1>2. QueueTypeOK'
  BY <1>1, QueueStep, ThreadStepIsQueueStep DEF QueueInv
<1>3. CASE UNCHANGED vars
  BY <1>1, <1>3 DEF vars, queueVars, pipelineVars, PipelineTypeOK, QueueTypeOK
<1>4. ASSUME NEW t \in Tenants, Configure(t)
      PROVE  PipelineTypeOK'
  BY <1>1, <1>4, PipelineTypeStep DEF PipelineNext
<1>5. ASSUME NEW th \in Threads, Begin(th), ~ UNCHANGED vars
      PROVE  PipelineTypeOK'
  <2>1. ASSUME NEW a \in ActionIds, NEW t \in Tenants, NEW e \in Events,
               NEW ty \in ActionTypes, NEW by \in Planners,
               BeginProposal(th, a, t, e, ty, by)
        PROVE  PipelineTypeOK'
    <3>1. Put(a, t, e, ty, "pending_policy") /\ "pending_policy" \in Statuses
      BY <2>1 DEF BeginProposal, Statuses
    <3>2. UNCHANGED <<dedup, trail, policy, quorum, effects>>
      BY <2>1 DEF BeginProposal, OnlyActions
    <3>3. QED BY <1>1, <1>2, <3>1, <3>2, PutType DEF PipelineTypeOK
  <2>2. CASE UNCHANGED <<actions, dedup, trail, policy, quorum, effects>>
    BY <1>1, <1>2, <2>2 DEF PipelineTypeOK
  <2>3. QED BY <1>5, <2>1, <2>2 DEF Begin, BeginApprove, BeginReject, OnlyQueue, BeginGet,
               BeginList
<1>6. ASSUME NEW th \in Threads, Proceed(th), ~ UNCHANGED vars
      PROVE  PipelineTypeOK'
  <2> DEFINE a == Its(th)
  <2>1. /\ pc[th] \in Locked
        /\ actions' = actions \/ \E status \in Statuses : SetStatus(a, status)
        /\ trail' = trail \/ \E entries \in Seq(AuditEntries) : Write(a, entries)
        /\ effects' = effects \/ RunExecutor(a)
        /\ dedup' = dedup \/ IndexEvent(th)
        /\ policy' = policy /\ quorum' = quorum
    BY <1>6, ProceedWrites
  <2>2. a \in ActionIds /\ a \in DOMAIN actions
    BY <2>1, Holder
  <2>3. /\ DOMAIN actions' \subseteq ActionIds
        /\ \A b \in DOMAIN actions' : actions'[b] \in ActionRecords
    BY <1>1, <2>1, <2>2, SetStatusType DEF PipelineTypeOK
  <2>4. trail' \in [ActionIds -> Seq(AuditEntries)]
    BY <1>1, <2>1, <2>2, WriteType DEF PipelineTypeOK
  <2>5. effects' \in [ActionIds -> Nat]
    BY <1>1, <2>1, <2>2, RunExecutorType DEF PipelineTypeOK
  <2>6. /\ DOMAIN dedup' \subseteq Tenants \X Events
        /\ \A k \in DOMAIN dedup' : dedup'[k] \in ActionIds
    <3>1. CASE IndexEvent(th)
      <4> DEFINE key == KeyOf(a)
      <4>1. dedup' = DictPut(dedup, key, a)
        BY <3>1 DEF IndexEvent, KeyOf
      <4>2. key \in Tenants \X Events
        BY <1>1, <2>2 DEF KeyOf, PipelineTypeOK, ActionRecords
      <4> HIDE DEF key
      <4>3. QED BY <1>1, <2>2, <4>1, <4>2 DEF DictPut, PipelineTypeOK
    <3>2. QED BY <1>1, <2>1, <3>1 DEF PipelineTypeOK
  <2>7. QED BY <1>1, <1>2, <2>1, <2>3, <2>4, <2>5, <2>6 DEF PipelineTypeOK
<1>7. QED BY <1>3, <1>4, <1>5, <1>6 DEF ThreadsNext, allVars

\* The labels and the lock: a thread is at a label of a handler exactly while it
\* holds the lock.
Controlled ==
    /\ lock \in Threads \cup {Free}
    /\ pc \in [Threads -> Locked \cup Unlocked]
    /\ DOMAIN job = Threads
    /\ \A th \in Threads : pc[th] \in Locked <=> lock = th

\* The three moves of a thread: it takes the lock, goes on with it, or lets it go;
\* or it was and stays without.
LEMMA ControlMoves ==
    ASSUME Controlled, NEW th \in Threads, NEW to, pc' = [pc EXCEPT ![th] = to],
           DOMAIN job' = Threads,
           \/ lock = Free /\ lock' = th /\ to \in Locked
           \/ pc[th] \in Locked /\ lock' = lock /\ to \in Locked
           \/ pc[th] \in Locked /\ lock' = Free /\ to \in Unlocked
           \/ pc[th] \notin Locked /\ lock' = lock /\ to \in Unlocked
    PROVE  Controlled'
<1>1. Locked \cap Unlocked = {}
  BY DEF Locked, Unlocked
<1>2. \A q \in Threads : q # Free
  BY ThreadsAssumption
<1>3. /\ pc'[th] = to /\ \A q \in Threads : q # th => pc'[q] = pc[q]
      /\ pc' \in [Threads -> Locked \cup Unlocked] /\ lock' \in Threads \cup {Free}
  BY DEF Controlled
<1>4. ASSUME NEW q \in Threads
      PROVE  pc'[q] \in Locked <=> lock' = q
  <2>1. pc[q] \in Locked <=> lock = q
    BY DEF Controlled
  <2>2. pc[th] \in Locked <=> lock = th
    BY DEF Controlled
  <2>3. to \in Unlocked => to \notin Locked
    BY <1>1
  <2>4. CASE q = th
    BY <1>2, <1>3, <2>2, <2>3, <2>4
  <2>5. CASE q # th
    BY <1>2, <1>3, <2>1, <2>2, <2>5
  <2>6. QED BY <2>4, <2>5
<1>5. QED BY <1>3, <1>4 DEF Controlled

\* The labels between two steps of a call.
LEMMA ProceedMoves ==
    ASSUME Controlled, NEW th \in Threads, Proceed(th)
    PROVE  /\ \A q \in Threads : q # th => pc'[q] = pc[q] /\ job'[q] = job[q]
           /\ Controlled'
<1>1. DOMAIN job' = Threads /\ \A q \in Threads : q # th => job'[q] = job[q]
  BY DEF Controlled, Proceed, AuditProposal, DecidePolicy, ApplyReject, ApplyQueue, ApplyAuto,
         AuditRefusal, EnqueueAction, IndexEvent, Execute, PutResult, AuditResult,
         AuditApproval, Promote, AuditVeto, Withdraw, ViewTrail, ViewRow, ListGet,
         ListDone, EndCall, Continue, Return
<1>2. \E to : /\ pc' = [pc EXCEPT ![th] = to]
              /\ \/ pc[th] \in Locked /\ lock' = lock /\ to \in Locked
                 \/ pc[th] \in Locked /\ lock' = Free /\ to \in Unlocked
                 \/ pc[th] \notin Locked /\ lock' = lock /\ to \in Unlocked
  <2>1. CASE ListGet(th)
    BY <2>1 DEF ListGet, Controlled, Locked, Unlocked
  <2>2. CASE ~ ListGet(th)
    BY <2>2 DEF Proceed, AuditProposal, DecidePolicy, ApplyReject, ApplyQueue, ApplyAuto,
           AuditRefusal, EnqueueAction, IndexEvent, Execute, PutResult, AuditResult,
           AuditApproval, Promote, AuditVeto, Withdraw, ViewTrail, ViewRow,
           ListDone, EndCall, Continue, Return, Goto, Locked, Unlocked
  <2>3. QED BY <2>1, <2>2
<1>3. \A q \in Threads : q # th => pc'[q] = pc[q]
  BY <1>2 DEF Controlled
<1>4. Controlled'
  BY <1>1, <1>2, ControlMoves
<1>5. QED BY <1>1, <1>3, <1>4

\* A thread that takes the lock moves alone, and takes it from nobody.
LEMMA BeginMoves ==
    ASSUME Controlled, NEW th \in Threads, Begin(th)
    PROVE  /\ \A q \in Threads : q # th => pc'[q] = pc[q] /\ job'[q] = job[q]
           /\ pc[th] \notin Locked
           /\ Controlled'
<1>1. DOMAIN job' = Threads /\ \A q \in Threads : q # th => job'[q] = job[q]
  BY DEF Controlled, Begin, BeginProposal, BeginApprove, BeginReject, BeginGet, BeginList,
         Acquire
<1>2. \E to : /\ pc' = [pc EXCEPT ![th] = to]
              /\ \/ lock = Free /\ lock' = th /\ to \in Locked
                 \/ pc[th] \notin Locked /\ lock' = lock /\ to \in Unlocked
  BY DEF Begin, BeginProposal, BeginApprove, BeginReject, BeginGet, BeginList, Acquire,
         Goto, Locked, Unlocked
<1>3. \A q \in Threads : q # th => pc'[q] = pc[q]
  BY <1>2 DEF Controlled
<1>4. Controlled'
  BY <1>1, <1>2, ControlMoves
<1>5. pc[th] \notin Locked
  BY <1>2, ThreadsAssumption DEF Controlled
<1>6. QED BY <1>1, <1>3, <1>4, <1>5

-----------------------------------------------------------------------------
(* What a step leaves alone.                                               *)

\* The index keeps its entries, and actions keep the event they were made for.
IndexKeeps == \A k \in DOMAIN dedup : k \in DOMAIN dedup' /\ dedup'[k] = dedup[k]
KeysKept ==
    \A b \in DOMAIN actions : b \in DOMAIN actions' /\ KeyOf(b)' = KeyOf(b)

\* An action no handler is at stays settled when nothing is written about it.
LEMMA SettledStays ==
    ASSUME NEW b \in ActionIds, Settled(b), Untouched(b), IndexKeeps
    PROVE  Settled(b)'
<1>1. RecordOK(b)' /\ ExecOK(b)'
  BY UntouchedRecord, UntouchedOK DEF Settled
<1>2. b \in DOMAIN actions' => b \in DOMAIN actions /\ KeyOf(b)' = KeyOf(b)
  BY DEF Untouched, KeyOf
<1>3. b \in DOMAIN actions' => Indexed(b)'
  <2>1. SUFFICES ASSUME b \in DOMAIN actions'
                 PROVE  KeyOf(b)' \in DOMAIN dedup' /\ dedup'[KeyOf(b)'] = b
    BY DEF Indexed
  <2>2. KeyOf(b) \in DOMAIN dedup /\ dedup[KeyOf(b)] = b
    BY <1>2, <2>1 DEF Settled, Indexed
  <2>3. QED BY <1>2, <2>1, <2>2 DEF IndexKeeps
<1>4. QED BY <1>1, <1>3 DEF Settled

\* The index stays sound when neither it nor the keys of the actions change.
LEMMA IndexStays ==
    ASSUME IndexSound, KeysKept, dedup' = dedup
    PROVE  IndexSound'
BY DEF IndexSound, KeysKept

\* One step of the holder, or of a thread that takes the lock: the others' actions
\* are untouched, and its own is at the next stage, or settled when it lets go.
LEMMA HolderMoves ==
    ASSUME ThreadsInv, Controlled', PipelineTypeOK', QueueInv', IndexSound', IndexKeeps,
           NEW th \in Threads, NEW a \in ActionIds,
           \A b \in ActionIds : b # a => Untouched(b) /\ Settled(b),
           \A q \in Threads : q # th => lock' # q,
           lock' = th => Stage(th)' /\ Its(th)' = a,
           lock' # th => Settled(a)'
    PROVE  ThreadsInv'
<1>1. ThreadsTypeOK'
  BY DEF ThreadsTypeOK, Controlled
<1>2. \A b \in ActionIds : b # a => Settled(b)'
  BY SettledStays
<1>3. \A b \in ActionIds : ~ Busy(b)' => Settled(b)'
  <2>1. SUFFICES ASSUME ~ Busy(a)' PROVE Settled(a)'
    BY <1>2
  <2>2. lock' # th
    BY <2>1 DEF Busy
  <2>3. QED BY <2>2
<1>4. \A q \in Threads : lock' = q => Stage(q)'
  OBVIOUS
<1>5. QED BY <1>1, <1>3, <1>4 DEF ThreadsInv

\* The writes of one store, as a frame for the others' actions.
LEMMA OnlyTrailFrame ==
    ASSUME PipelineTypeOK, NEW a \in ActionIds, NEW entry \in AuditEntries,
           Write(a, <<entry>>), OnlyTrail
    PROVE  /\ \A b \in ActionIds : b # a => Untouched(b)
           /\ KeysKept /\ IndexKeeps
           /\ DOMAIN rows' = DOMAIN rows /\ rows' = rows
           /\ actions' = actions /\ effects' = effects /\ dedup' = dedup
BY WroteOne DEF OnlyTrail, queueVars, Untouched, KeysKept, KeyOf, IndexKeeps

\* A change of status touches one action and no other store.
LEMMA OnlyActionsFrame ==
    ASSUME PipelineTypeOK, NEW a \in DOMAIN actions, NEW status \in Statuses,
           SetStatus(a, status), OnlyActions
    PROVE  /\ \A b \in ActionIds : b # a => Untouched(b)
           /\ KeysKept /\ IndexKeeps
           /\ rows' = rows /\ trail' = trail /\ effects' = effects /\ dedup' = dedup
BY StatusSet DEF OnlyActions, queueVars, Untouched, KeysKept, KeyOf, IndexKeeps

-----------------------------------------------------------------------------
(* handle_proposal, step by step.                                          *)

\* The holder goes on in the same call, at the next label.
GoesOn(th) ==
    /\ job'[th] \in Calls /\ job'[th].op = job[th].op /\ job'[th].a = job[th].a
    /\ lock' = lock

\* A handler that goes on stays with its job.
LEMMA ContinueKeeps ==
    ASSUME NEW th \in Threads, job[th] \in Calls, Controlled, NEW from, NEW to,
           Continue(th, from, to)
    PROVE  /\ GoesOn(th) /\ job' = job
           /\ pc[th] = from /\ pc'[th] = to
BY DEF Continue, Goto, GoesOn, Controlled

\* A new action reaches its next stage once its own side is shown.
LEMMA ProposalGoesOn ==
    ASSUME NEW th \in Threads, Stage(th), GoesOn(th), job[th].op = "propose",
           KeyOf(Its(th)) \notin DOMAIN dedup, KeysKept, dedup' = dedup,
           \/ ProposalStage(th)'
           \/ IndexStage(th)'
    PROVE  Stage(th)' /\ Its(th)' = Its(th)
<1>1. Its(th)' = Its(th) /\ Its(th) \in DOMAIN actions'
  BY DEF Its, GoesOn, KeysKept, Stage
<1>2. KeyOf(Its(th))' = KeyOf(Its(th))
  <2> DEFINE a == Its(th)
  <2>1. a \in DOMAIN actions /\ a' = a
    BY <1>1 DEF Stage
  <2>2. KeyOf(a)' = <<actions'[a].tenant, actions'[a].event>>
    BY <2>1 DEF KeyOf
  <2>3. QED BY <2>1, <2>2 DEF KeysKept, KeyOf
<1>3. QED BY <1>1, <1>2 DEF Stage, GoesOn

\* What every step of a thread keeps, whatever it does.
LEMMA StepFacts ==
    ASSUME ThreadsInv, NEW th \in Threads, Begin(th) \/ Proceed(th)
    PROVE  /\ PipelineTypeOK /\ PipelineTypeOK'
           /\ QueueInv /\ QueueInv'
           /\ Controlled /\ Controlled'
           /\ \A q \in Threads : q # th => pc'[q] = pc[q] /\ job'[q] = job[q]
<1>1. [ThreadsNext]_allVars
  BY DEF ThreadsNext
<1>2. Controlled /\ PipelineTypeOK /\ QueueInv
  BY DEF ThreadsInv, ThreadsTypeOK, Controlled
<1>3. QueueInv'
  BY <1>1, <1>2, QueueStep, ThreadStepIsQueueStep
<1>4. PipelineTypeOK'
  BY <1>1, ThreadStoreTypes
<1>5. QED BY <1>2, <1>3, <1>4, ProceedMoves, BeginMoves

\* A step of the holder keeps the invariant once its own action is shown to be at
\* the next stage, or to be settled.
LEMMA HolderKeeps ==
    ASSUME ThreadsInv, NEW th \in Threads, Proceed(th), pc[th] \in Locked,
           NEW a, a = Its(th),
           \A b \in ActionIds : b # a => Untouched(b),
           IndexKeeps, IndexSound',
           \/ lock' = lock /\ Stage(th)' /\ Its(th)' = a
           \/ lock' = Free /\ Settled(a)'
    PROVE  ThreadsInv'
<1>1. /\ lock = th /\ th # Free /\ a \in ActionIds
      /\ \A b \in ActionIds : b # a => Settled(b)
  BY Holder
<1>2. PipelineTypeOK' /\ QueueInv' /\ Controlled'
  BY StepFacts
<1>3. /\ \A q \in Threads : q # th => lock' # q
      /\ lock' = th => Stage(th)' /\ Its(th)' = a
      /\ lock' # th => Settled(a)'
  BY <1>1, ThreadsAssumption
<1>4. QED BY <1>1, <1>2, <1>3, HolderMoves

\* The holder goes on with a proposal whose own side is at the next stage.
LEMMA ProposalKeeps ==
    ASSUME ThreadsInv, NEW th \in Threads, Proceed(th), pc[th] \in Locked, GoesOn(th),
           job[th].op = "propose", KeyOf(Its(th)) \notin DOMAIN dedup,
           NEW a, a = Its(th),
           \A b \in ActionIds : b # a => Untouched(b),
           KeysKept, dedup' = dedup,
           ProposalStage(th)' \/ IndexStage(th)'
    PROVE  ThreadsInv'
<1>1. Stage(th) /\ IndexSound
  BY Holder DEF ThreadsInv
<1>2. Stage(th)' /\ Its(th)' = Its(th)
  BY <1>1, ProposalGoesOn
<1>3. IndexKeeps /\ IndexSound'
  BY <1>1, IndexStays DEF IndexKeeps
<1>4. QED BY <1>2, <1>3, HolderKeeps DEF GoesOn

\* The holder writes one row to its action's trail.
LEMMA HolderWrites ==
    ASSUME ThreadsInv, NEW a \in ActionIds, NEW entry \in AuditEntries,
           Write(a, <<entry>>), OnlyTrail
    PROVE  /\ \A b \in ActionIds : b # a => Untouched(b)
           /\ KeysKept /\ IndexKeeps /\ IndexSound'
           /\ rows' = rows /\ actions' = actions /\ effects' = effects /\ dedup' = dedup
           /\ Len(trail[a]) \in Nat
           /\ Len(trail'[a]) = Len(trail[a]) + 1
           /\ \A i \in 1..Len(trail[a]) : trail'[a][i] = trail[a][i]
           /\ trail'[a][Len(trail[a]) + 1] = entry
<1>1. PipelineTypeOK /\ IndexSound
  BY DEF ThreadsInv, ThreadsTypeOK
<1>2. QED BY <1>1, OnlyTrailFrame, WroteOne, IndexStays

\* The holder sets its action's status.
LEMMA HolderSets ==
    ASSUME ThreadsInv, NEW a \in DOMAIN actions, NEW status \in Statuses,
           SetStatus(a, status), OnlyActions
    PROVE  /\ \A b \in ActionIds : b # a => Untouched(b)
           /\ KeysKept /\ IndexKeeps /\ IndexSound'
           /\ rows' = rows /\ trail' = trail /\ effects' = effects /\ dedup' = dedup
           /\ DOMAIN actions' = DOMAIN actions
           /\ actions'[a].status = status
           /\ actions'[a].tenant = actions[a].tenant /\ actions'[a].event = actions[a].event
<1>1. PipelineTypeOK /\ IndexSound
  BY DEF ThreadsInv, ThreadsTypeOK
<1>2. QED BY <1>1, OnlyActionsFrame, StatusSet, IndexStays

\* The row of the proposal, after the action is stored.
LEMMA AuditProposalKeeps ==
    ASSUME ThreadsInv, NEW th \in Threads, AuditProposal(th)
    PROVE  ThreadsInv'
<1> DEFINE a == Its(th)
           entry == Proposed(job[th].says)
<1>1. Proceed(th) /\ Controlled
  BY StepFacts DEF Proceed
<1>2. Continue(th, "proposal", "policy") /\ Write(a, <<entry>>) /\ OnlyTrail
  BY DEF AuditProposal
<1>3. /\ pc[th] \in Locked /\ pc[th] = "proposal"
      /\ job[th] \in Calls /\ a \in ActionIds /\ a \in DOMAIN actions /\ Stage(th)
  BY <1>2, Holder DEF Continue, Locked
<1>4. GoesOn(th) /\ job' = job /\ pc'[th] = "policy" /\ a' = a
  BY <1>1, <1>2, <1>3, ContinueKeeps DEF Its
<1>5. /\ job[th].op = "propose" /\ KeyOf(a) \notin DOMAIN dedup
      /\ a \notin DOMAIN rows /\ job[th].says \in Planners
      /\ Shows(a, "pending_policy", 0) /\ Len(trail[a]) = 0
  BY <1>3, StageAt DEF ProposalStage, Undecided
<1>6. entry \in AuditEntries /\ entry.kind = "proposal"
  BY <1>5, EntryTypes DEF Proposed
<1>7. /\ \A b \in ActionIds : b # a => Untouched(b)
      /\ KeysKept /\ rows' = rows /\ actions' = actions /\ effects' = effects
      /\ dedup' = dedup
      /\ Len(trail'[a]) = Len(trail[a]) + 1 /\ trail'[a][Len(trail[a]) + 1] = entry
  BY <1>2, <1>3, <1>6, HolderWrites
<1>8. Len(trail'[a]) = 1 /\ trail'[a][1].kind = "proposal"
  BY <1>5, <1>6, <1>7
<1>9. ProposalStage(th)'
  BY <1>4, <1>5, <1>7, <1>8 DEF ProposalStage, ProposalLabels, Undecided, Shows
<1>10. QED BY <1>1, <1>3, <1>4, <1>5, <1>7, <1>9, ProposalKeeps

\* The policy decided, and its row written.
LEMMA DecidePolicyKeeps ==
    ASSUME ThreadsInv, NEW th \in Threads, DecidePolicy(th)
    PROVE  ThreadsInv'
<1> DEFINE a == Its(th)
           d == policy[actions[a].tenant][actions[a].type]
           entry == Decided(d)
<1>1. Proceed(th) /\ Controlled /\ PipelineTypeOK
  BY StepFacts DEF Proceed
<1>2. /\ pc[th] = "policy" /\ Goto(th, "apply") /\ lock' = lock
      /\ job' = [job EXCEPT ![th].says = d]
      /\ Write(a, <<entry>>) /\ OnlyTrail
  BY DEF DecidePolicy
<1>3. /\ pc[th] \in Locked
      /\ job[th] \in Calls /\ a \in ActionIds /\ a \in DOMAIN actions /\ Stage(th)
  BY <1>2, Holder DEF Locked
<1>4. d \in Decisions
  BY <1>1, <1>3 DEF PipelineTypeOK, ActionRecords
<1>5. /\ GoesOn(th) /\ job'[th].says = d /\ pc'[th] = "apply" /\ a' = a
  BY <1>1, <1>2, <1>3, <1>4 DEF Goto, GoesOn, Calls, Controlled, Its
<1>6. /\ job[th].op = "propose" /\ KeyOf(a) \notin DOMAIN dedup
      /\ a \notin DOMAIN rows
      /\ Shows(a, "pending_policy", 0) /\ Len(trail[a]) = 1
      /\ trail[a][1].kind = "proposal"
  BY <1>2, <1>3, StageAt DEF ProposalStage, Undecided
<1>7. entry \in AuditEntries /\ entry.kind = "decision" /\ entry.says = d
  BY <1>4, EntryTypes DEF Decided
<1>8. /\ \A b \in ActionIds : b # a => Untouched(b)
      /\ KeysKept /\ rows' = rows /\ actions' = actions /\ effects' = effects
      /\ dedup' = dedup
      /\ Len(trail'[a]) = Len(trail[a]) + 1 /\ trail'[a][Len(trail[a]) + 1] = entry
      /\ \A i \in 1..Len(trail[a]) : trail'[a][i] = trail[a][i]
  BY <1>2, <1>3, <1>7, HolderWrites
<1>9. /\ Len(trail'[a]) = 2 /\ trail'[a][1].kind = "proposal"
      /\ trail'[a][2].kind = "decision" /\ trail'[a][2].says = d
  BY <1>6, <1>7, <1>8
<1>10. ProposalStage(th)'
  BY <1>4, <1>5, <1>6, <1>8, <1>9 DEF ProposalStage, ProposalLabels, DecidedAs, Opened, Shows
<1>11. QED BY <1>1, <1>3, <1>5, <1>6, <1>8, <1>10, ProposalKeeps

\* _apply_decision: the status it stores is the one its branch goes on from.
LEMMA ApplyKeeps ==
    ASSUME ThreadsInv, NEW th \in Threads, ApplyReject(th) \/ ApplyQueue(th) \/ ApplyAuto(th)
    PROVE  ThreadsInv'
<1> DEFINE a == Its(th)
<1>1. Proceed(th) /\ Controlled
  BY StepFacts DEF Proceed
<1>2. PICK to, says, status :
          /\ Continue(th, "apply", to) /\ job[th].says = says /\ SetStatus(a, status)
          /\ <<to, says, status>> \in {<<"refused", "reject", "rejected">>,
                                       <<"enqueue", "approval_required", "pending_approval">>,
                                       <<"execute", "auto", "pending_exec">>}
  BY DEF ApplyReject, ApplyQueue, ApplyAuto
<1>3. /\ pc[th] \in Locked /\ pc[th] = "apply" /\ OnlyActions /\ status \in Statuses
      /\ job[th] \in Calls /\ a \in ActionIds /\ a \in DOMAIN actions /\ Stage(th)
  BY <1>2, Holder DEF Continue, Locked, Statuses, ApplyReject, ApplyQueue, ApplyAuto
<1>4. GoesOn(th) /\ job' = job /\ pc'[th] = to /\ a' = a
  BY <1>1, <1>2, <1>3, ContinueKeeps DEF Its
<1>5. /\ job[th].op = "propose" /\ KeyOf(a) \notin DOMAIN dedup
      /\ a \notin DOMAIN rows
      /\ DecidedAs(a, says, "pending_policy", 0)
  BY <1>2, <1>3, StageAt DEF ProposalStage
<1>6. /\ \A b \in ActionIds : b # a => Untouched(b)
      /\ KeysKept /\ rows' = rows /\ trail' = trail /\ effects' = effects
      /\ dedup' = dedup
      /\ DOMAIN actions' = DOMAIN actions /\ actions'[a].status = status
  BY <1>2, <1>3, HolderSets
<1>7. DecidedAs(a, says, status, 0)'
  BY <1>3, <1>4, <1>5, <1>6 DEF DecidedAs, Opened, Shows
<1>8. ProposalStage(th)'
  BY <1>2, <1>4, <1>5, <1>6, <1>7 DEF ProposalStage, ProposalLabels
<1>9. QED BY <1>1, <1>3, <1>4, <1>5, <1>6, <1>8, ProposalKeeps

\* A proposal the policy rejects: its record is closed.
LEMMA AuditRefusalKeeps ==
    ASSUME ThreadsInv, NEW th \in Threads, AuditRefusal(th)
    PROVE  ThreadsInv'
<1> DEFINE a == Its(th)
           entry == Rejected(Nobody)
<1>1. Proceed(th) /\ Controlled
  BY StepFacts DEF Proceed
<1>2. Continue(th, "refused", "index") /\ Write(a, <<entry>>) /\ OnlyTrail
  BY DEF AuditRefusal
<1>3. /\ pc[th] \in Locked /\ pc[th] = "refused"
      /\ job[th] \in Calls /\ a \in ActionIds /\ a \in DOMAIN actions /\ Stage(th)
  BY <1>2, Holder DEF Continue, Locked
<1>4. GoesOn(th) /\ job' = job /\ pc'[th] = "index" /\ a' = a
  BY <1>1, <1>2, <1>3, ContinueKeeps DEF Its
<1>5. /\ job[th].op = "propose" /\ KeyOf(a) \notin DOMAIN dedup
      /\ a \notin DOMAIN rows
      /\ DecidedAs(a, "reject", "rejected", 0)
  BY <1>3, StageAt DEF ProposalStage
<1>6. /\ entry \in AuditEntries /\ Closing(entry) /\ StatusTold(entry) = "rejected"
  BY EntryTypes DEF Rejected, OpenPool, Closing, StatusTold
<1>7. /\ \A b \in ActionIds : b # a => Untouched(b)
      /\ KeysKept /\ rows' = rows /\ actions' = actions /\ effects' = effects
      /\ dedup' = dedup
      /\ Len(trail'[a]) = Len(trail[a]) + 1 /\ trail'[a][Len(trail[a]) + 1] = entry
      /\ \A i \in 1..Len(trail[a]) : trail'[a][i] = trail[a][i]
  BY <1>2, <1>3, <1>6, HolderWrites
<1>8. /\ Len(trail'[a]) = 3
      /\ trail'[a][1].kind = "proposal" /\ trail'[a][2].kind = "decision"
      /\ trail'[a][2].says = "reject" /\ trail'[a][3] = entry
  BY <1>5, <1>7 DEF DecidedAs, Opened
<1>9. /\ a \in DOMAIN actions' /\ a \notin DOMAIN rows'
      /\ actions'[a].status = "rejected" /\ effects'[a] = 0
  BY <1>5, <1>7 DEF DecidedAs, Shows
<1>10. RecordOK(a)' /\ ExecOK(a)'
  BY <1>4, <1>6, <1>8, <1>9 DEF RecordOK, StoredRecord, DirectRecord, ClosedBy, ExecOK, IsPending
<1>11. IndexStage(th)'
  BY <1>4, <1>10 DEF IndexStage
<1>12. QED BY <1>1, <1>3, <1>4, <1>5, <1>7, <1>11, ProposalKeeps

\* A proposal sent to approval: its row is pending, with no vote yet.
LEMMA EnqueueActionKeeps ==
    ASSUME ThreadsInv, NEW th \in Threads, EnqueueAction(th)
    PROVE  ThreadsInv'
<1> DEFINE a == Its(th)
           t == actions[a].tenant
           rule == ResolveQuorum(t, actions[a].type)
<1>1. Proceed(th) /\ Controlled
  BY StepFacts DEF Proceed
<1>2. Continue(th, "enqueue", "index") /\ Enqueue(a, t, rule)
      /\ UNCHANGED <<actions, dedup, trail, policy, quorum, effects>>
  BY DEF EnqueueAction, OnlyQueue
<1>3. /\ pc[th] \in Locked /\ pc[th] = "enqueue"
      /\ job[th] \in Calls /\ a \in ActionIds /\ a \in DOMAIN actions /\ Stage(th)
  BY <1>2, Holder DEF Continue, Locked
<1>4. GoesOn(th) /\ job' = job /\ pc'[th] = "index" /\ a' = a
  BY <1>1, <1>2, <1>3, ContinueKeeps DEF Its
<1>5. /\ job[th].op = "propose" /\ KeyOf(a) \notin DOMAIN dedup
      /\ DecidedAs(a, "approval_required", "pending_approval", 0)
  BY <1>3, StageAt DEF ProposalStage
<1>6. /\ \A b \in DOMAIN rows : b # a => b \in DOMAIN rows' /\ rows'[b] = rows[b]
      /\ DOMAIN rows' = DOMAIN rows \cup {a}
      /\ rows'[a].tenant = t /\ rows'[a].state = "pending" /\ rows'[a].approvals = <<>>
  BY <1>2 DEF Enqueue, DictPut
<1>7. /\ \A b \in ActionIds : b # a => Untouched(b)
      /\ KeysKept
  BY <1>2, <1>6 DEF Untouched, KeysKept, KeyOf
<1>8. /\ Len(trail'[a]) = 2
      /\ trail'[a][1].kind = "proposal" /\ trail'[a][2].kind = "decision"
      /\ trail'[a][2].says = "approval_required"
  BY <1>2, <1>5 DEF DecidedAs, Opened
<1>9. /\ a \in DOMAIN actions' /\ a \in DOMAIN rows' /\ actions'[a].tenant = t
      /\ actions'[a].status = "pending_approval" /\ effects'[a] = 0
  BY <1>2, <1>5, <1>6 DEF DecidedAs, Shows
<1>10. Votes(a)' = 0
  BY <1>4, <1>6 DEF Votes
<1>11. QueuedRecord(a)'
  BY <1>4, <1>6, <1>8, <1>9, <1>10 DEF QueuedRecord, WaitingRecord, VotesRecorded
<1>12. RecordOK(a)' /\ ExecOK(a)'
  BY <1>4, <1>8, <1>9, <1>11 DEF RecordOK, StoredRecord, ExecOK
<1>13. IndexStage(th)'
  BY <1>4, <1>12 DEF IndexStage
<1>14. QED BY <1>1, <1>2, <1>3, <1>4, <1>5, <1>7, <1>13, ProposalKeeps

\* The last step of handle_proposal, which lets the lock go: the new action is in
\* the index, under an event that was not there, and settled.
LEMMA IndexEventKeeps ==
    ASSUME ThreadsInv, NEW th \in Threads, IndexEvent(th)
    PROVE  ThreadsInv'
<1>1. Proceed(th) /\ IndexSound
  BY DEF Proceed, ThreadsInv
<1>2. PICK a, key : a = Its(th) /\ key = KeyOf(a)
  OBVIOUS
<1>3. /\ pc[th] = "index" /\ lock' = Free
      /\ dedup' = DictPut(dedup, key, a)
      /\ rows' = rows /\ actions' = actions /\ trail' = trail /\ effects' = effects
  BY <1>2 DEF IndexEvent, Return, queueVars, KeyOf
<1>4. /\ pc[th] \in Locked
      /\ a \in ActionIds /\ a \in DOMAIN actions /\ Stage(th)
  BY <1>2, <1>3, Holder DEF Locked
<1>5. key \notin DOMAIN dedup /\ RecordOK(a) /\ ExecOK(a)
  BY <1>2, <1>3, <1>4, StageAt DEF IndexStage
<1>6. \A b \in ActionIds : Untouched(b)
  BY <1>3 DEF Untouched
<1>7. /\ DOMAIN dedup' = DOMAIN dedup \cup {key} /\ dedup'[key] = a
      /\ \A x \in DOMAIN dedup : dedup'[x] = dedup[x]
  BY <1>3, <1>5 DEF DictPut
<1>8. IndexKeeps
  BY <1>7 DEF IndexKeeps
<1>9. \A b : KeyOf(b)' = KeyOf(b)
  BY <1>3 DEF KeyOf
<1>10. IndexSound'
  BY <1>1, <1>2, <1>3, <1>4, <1>7, <1>9 DEF IndexSound
<1>11. Settled(a)'
  BY <1>2, <1>4, <1>5, <1>6, <1>7, <1>9, UntouchedRecord, UntouchedOK DEF Settled, Indexed
<1>12. QED BY <1>1, <1>2, <1>3, <1>4, <1>6, <1>8, <1>10, <1>11, HolderKeeps

-----------------------------------------------------------------------------
(* _execute, for a proposal and for an approval.                           *)

\* A request under way reaches its next stage once its own side is shown.
LEMMA RequestKeeps ==
    ASSUME ThreadsInv, NEW th \in Threads, Proceed(th), pc[th] \in Locked, GoesOn(th),
           job[th].op # "propose", Indexed(Its(th)),
           NEW a, a = Its(th),
           \A b \in ActionIds : b # a => Untouched(b),
           KeysKept, dedup' = dedup,
           job[th].op = "approve" => ApprovalStage(th)',
           job[th].op = "reject" => RejectionStage(th)'
    PROVE  ThreadsInv'
<1>1. Stage(th) /\ IndexSound
  BY Holder DEF ThreadsInv
<1>2. Its(th)' = a /\ a \in DOMAIN actions' /\ KeyOf(a)' = KeyOf(a)
  BY <1>1 DEF Its, GoesOn, KeysKept, Stage
<1>3. Indexed(a)'
  BY <1>2 DEF Indexed
<1>4. Stage(th)'
  BY <1>2, <1>3 DEF Stage, GoesOn
<1>5. IndexKeeps /\ IndexSound'
  BY <1>1, IndexStays DEF IndexKeeps
<1>6. QED BY <1>2, <1>4, <1>5, HolderKeeps DEF GoesOn

\* An approved action keeps its row and trail while its status and the count of
\* executor calls move on.
LEMMA ApprovedMoves ==
    ASSUME NEW a, NEW old, NEW calls, NEW status, NEW more,
           Approved(a, old, calls), rows' = rows, trail' = trail,
           actions'[a].tenant = actions[a].tenant, Shows(a, status, more)'
    PROVE  Approved(a, status, more)'
<1>1. Votes(a)' = Votes(a)
  BY DEF Votes
<1>2. QED BY <1>1 DEF Approved, Reviewed, Opened

\* A proposal the policy lets through keeps its trail in the same way.
LEMMA DecidedMoves ==
    ASSUME NEW a, NEW says, NEW old, NEW calls, NEW status, NEW more,
           DecidedAs(a, says, old, calls), trail' = trail, Shows(a, status, more)'
    PROVE  DecidedAs(a, says, status, more)'
BY DEF DecidedAs, Opened

\* The executor called, which may raise.
LEMMA ExecuteKeeps ==
    ASSUME ThreadsInv, NEW th \in Threads, Execute(th)
    PROVE  ThreadsInv'
<1>1. Proceed(th) /\ Controlled /\ PipelineTypeOK
  BY StepFacts DEF Proceed
<1>2. PICK a, ok : a = Its(th) /\ ok \in BOOLEAN /\ job' = [job EXCEPT ![th].ok = ok]
  BY DEF Execute
<1>3. /\ pc[th] = "execute" /\ Goto(th, "ran") /\ lock' = lock /\ RunExecutor(a)
      /\ rows' = rows /\ actions' = actions /\ dedup' = dedup /\ trail' = trail
  BY <1>2 DEF Execute, queueVars
<1>4. /\ pc[th] \in Locked
      /\ job[th] \in Calls /\ a \in ActionIds /\ a \in DOMAIN actions /\ Stage(th)
  BY <1>2, <1>3, Holder DEF Locked
<1>5. GoesOn(th) /\ pc'[th] = "ran" /\ Its(th)' = a
  BY <1>1, <1>2, <1>3, <1>4 DEF Goto, GoesOn, Calls, Controlled, Its
<1>6. effects'[a] = effects[a] + 1 /\ \A b \in ActionIds : b # a => effects'[b] = effects[b]
  BY <1>1, <1>3, <1>4 DEF RunExecutor, PipelineTypeOK
<1>7. /\ \A b \in ActionIds : b # a => Untouched(b)
      /\ KeysKept
  BY <1>3, <1>6 DEF Untouched, KeysKept, KeyOf
<1>8. Shows(a, "pending_exec", 0) => Shows(a, "pending_exec", 1)'
  BY <1>3, <1>6 DEF Shows
<1>9. CASE /\ job[th].op = "propose" /\ ProposalStage(th)
           /\ KeyOf(a) \notin DOMAIN dedup
  <2>1. a \notin DOMAIN rows /\ DecidedAs(a, "auto", "pending_exec", 0)
    BY <1>2, <1>3, <1>9 DEF ProposalStage
  <2>2. DecidedAs(a, "auto", "pending_exec", 1)'
    BY <1>3, <1>8, <2>1, DecidedMoves DEF DecidedAs
  <2>3. ProposalStage(th)'
    BY <1>3, <1>5, <2>1, <2>2 DEF ProposalStage, ProposalLabels
  <2>4. QED BY <1>1, <1>2, <1>3, <1>4, <1>5, <1>7, <1>9, <2>3, ProposalKeeps
<1>10. CASE job[th].op = "approve" /\ ApprovalStage(th) /\ Indexed(a)
  <2>1. Approved(a, "pending_exec", 0)
    BY <1>2, <1>3, <1>10 DEF ApprovalStage
  <2>2. Approved(a, "pending_exec", 1)'
    BY <1>3, <1>8, <2>1, ApprovedMoves DEF Approved, Reviewed
  <2>3. ApprovalStage(th)'
    BY <1>5, <2>2 DEF ApprovalStage
  <2>4. QED BY <1>1, <1>2, <1>3, <1>4, <1>5, <1>7, <1>10, <2>3, RequestKeeps
<1>11. QED BY <1>2, <1>3, <1>4, <1>9, <1>10, StageAt

\* Its outcome stored, and the lock released.
LEMMA PutResultKeeps ==
    ASSUME ThreadsInv, NEW th \in Threads, PutResult(th)
    PROVE  ThreadsInv'
<1>1. Proceed(th) /\ Controlled
  BY StepFacts DEF Proceed
<1>2. PICK a, status : a = Its(th) /\ status = ExecStatus(job[th].ok)
  OBVIOUS
<1>3. Continue(th, "ran", "report") /\ SetStatus(a, status) /\ OnlyActions
  BY <1>2 DEF PutResult
<1>4. /\ pc[th] \in Locked /\ pc[th] = "ran" /\ status \in Statuses
      /\ job[th] \in Calls /\ a \in ActionIds /\ a \in DOMAIN actions /\ Stage(th)
  BY <1>2, <1>3, Holder DEF Continue, Locked, ExecStatus, Statuses
<1>5. /\ GoesOn(th) /\ pc'[th] = "report" /\ Its(th)' = a
      /\ ExecStatus(job[th].ok)' = status
  BY <1>1, <1>2, <1>3, <1>4, ContinueKeeps DEF Its
<1>6. /\ \A b \in ActionIds : b # a => Untouched(b)
      /\ KeysKept /\ rows' = rows /\ trail' = trail /\ effects' = effects
      /\ dedup' = dedup /\ DOMAIN actions' = DOMAIN actions
      /\ actions'[a].status = status /\ actions'[a].tenant = actions[a].tenant
  BY <1>3, <1>4, HolderSets
<1>7. Shows(a, "pending_exec", 1) => Shows(a, status, 1)'
  BY <1>6 DEF Shows
<1>8. CASE /\ job[th].op = "propose" /\ ProposalStage(th)
           /\ KeyOf(a) \notin DOMAIN dedup
  <2>1. a \notin DOMAIN rows /\ DecidedAs(a, "auto", "pending_exec", 1)
    BY <1>2, <1>4, <1>8 DEF ProposalStage
  <2>2. DecidedAs(a, "auto", status, 1)'
    BY <1>6, <1>7, <2>1, DecidedMoves DEF DecidedAs
  <2>3. ProposalStage(th)'
    BY <1>5, <1>6, <2>1, <2>2 DEF ProposalStage, ProposalLabels
  <2>4. QED BY <1>1, <1>2, <1>4, <1>5, <1>6, <1>8, <2>3, ProposalKeeps
<1>9. CASE job[th].op = "approve" /\ ApprovalStage(th) /\ Indexed(a)
  <2>1. Approved(a, "pending_exec", 1)
    BY <1>2, <1>4, <1>9 DEF ApprovalStage
  <2>2. Approved(a, status, 1)'
    BY <1>6, <1>7, <2>1, ApprovedMoves DEF Approved, Reviewed
  <2>3. ApprovalStage(th)'
    BY <1>5, <2>2 DEF ApprovalStage
  <2>4. QED BY <1>1, <1>2, <1>4, <1>5, <1>6, <1>9, <2>3, RequestKeeps
<1>10. QED BY <1>2, <1>4, <1>8, <1>9, StageAt

\* A resolved row's record, from its votes and the row that closes it.
LEMMA ResolvedByOne ==
    ASSUME NEW a, NEW n \in Nat, NEW status, NEW state, NEW entry,
           a \in DOMAIN actions', a \in DOMAIN rows',
           rows'[a].state = state, state # "pending",
           rows'[a].tenant = actions'[a].tenant,
           actions'[a].status = status,
           Opened(a)', trail'[a][2].says = "approval_required",
           Votes(a)' = n, Len(trail'[a]) = n + 3, VotesRecorded(a)',
           trail'[a][n + 3] = entry, Closing(entry), StatusTold(entry) = status,
           RowAgrees(state, status)
    PROVE  RecordOK(a)'
<1>1. ResolvedRecord(a)'
  BY DEF ResolvedRecord, ClosedBy
<1>2. QueuedRecord(a)'
  BY <1>1 DEF QueuedRecord
<1>3. QED BY <1>2 DEF RecordOK, StoredRecord, Opened

\* The votes behind an approved row are those of a full quorum.
LEMMA ApprovedIsAuthorized ==
    ASSUME QueueInv', NEW a \in DOMAIN rows', rows'[a].state = "approved", Votes(a)' >= 1
    PROVE  Authorized(a)'
<1>1. rows'[a].approvals \in Seq(Approvers)
  BY DEF QueueInv, QueueTypeOK, Rows
<1>2. rows'[a].approvals # <<>>
  BY DEF Votes
<1>3. /\ IsInjective(rows'[a].approvals)
      /\ Range(rows'[a].approvals) \subseteq rows'[a].eligible
      /\ Len(rows'[a].approvals) = rows'[a].required
  BY <1>2 DEF QueueInv, QuorumExact
<1>4. Cardinality(Range(rows'[a].approvals)) = rows'[a].required
  BY <1>1, <1>3, VotesCounted
<1>5. QED BY <1>3, <1>4 DEF Authorized

\* The row the executor's answer leaves closes the record of the action: a
\* proposal is still to be indexed, an approval lets the lock go.
LEMMA AuditResultKeeps ==
    ASSUME ThreadsInv, NEW th \in Threads, AuditResult(th)
    PROVE  ThreadsInv'
<1>1. Proceed(th) /\ Controlled /\ PipelineTypeOK /\ QueueInv'
  BY StepFacts DEF Proceed
<1>2. PICK a, ok, status, entry : a = Its(th) /\ ok = job[th].ok /\ status = ExecStatus(ok)
                                  /\ entry = Executed(ok)
  OBVIOUS
<1>3. pc[th] = "report" /\ Write(a, <<entry>>) /\ OnlyTrail
  BY <1>2 DEF AuditResult
<1>4. /\ pc[th] \in Locked
      /\ job[th] \in Calls /\ a \in ActionIds /\ a \in DOMAIN actions /\ Stage(th)
  BY <1>2, <1>3, Holder DEF Locked
<1>5. /\ entry \in AuditEntries /\ Closing(entry) /\ StatusTold(entry) = status
      /\ status \in {"executed", "execution_failed"}
  BY <1>2, <1>4, EntryTypes DEF Calls, Executed, Closing, StatusTold, ExecStatus
<1>6. /\ \A b \in ActionIds : b # a => Untouched(b)
      /\ KeysKept /\ IndexKeeps /\ IndexSound'
      /\ rows' = rows /\ actions' = actions /\ effects' = effects /\ dedup' = dedup
      /\ Len(trail[a]) \in Nat
      /\ Len(trail'[a]) = Len(trail[a]) + 1 /\ trail'[a][Len(trail[a]) + 1] = entry
      /\ \A i \in 1..Len(trail[a]) : trail'[a][i] = trail[a][i]
  BY <1>3, <1>4, <1>5, HolderWrites
<1>7. CASE /\ job[th].op = "propose" /\ ProposalStage(th)
           /\ KeyOf(a) \notin DOMAIN dedup
  <2>1. a \notin DOMAIN rows /\ DecidedAs(a, "auto", status, 1)
    BY <1>2, <1>3, <1>7 DEF ProposalStage
  <2>2. Continue(th, "report", "index")
    BY <1>7 DEF AuditResult
  <2>3. GoesOn(th) /\ pc'[th] = "index" /\ Its(th)' = a
    BY <1>1, <1>2, <1>4, <2>2, ContinueKeeps DEF Its
  <2>4. /\ Len(trail'[a]) = 3
        /\ trail'[a][1].kind = "proposal" /\ trail'[a][2].kind = "decision"
        /\ trail'[a][2].says = "auto" /\ trail'[a][3] = entry
    BY <1>6, <2>1 DEF DecidedAs, Opened
  <2>5. /\ a \in DOMAIN actions' /\ a \notin DOMAIN rows'
        /\ actions'[a].status = status /\ effects'[a] = 1
    BY <1>6, <2>1 DEF DecidedAs, Shows
  <2>6. RecordOK(a)'
    BY <1>5, <2>4, <2>5 DEF RecordOK, StoredRecord, DirectRecord, ClosedBy
  <2>7. ExecOK(a)'
    BY <1>5, <2>4, <2>5 DEF ExecOK, Authorized, IsPending
  <2>8. IndexStage(th)'
    BY <2>3, <2>6, <2>7 DEF IndexStage
  <2>9. QED BY <1>1, <1>2, <1>4, <1>6, <1>7, <2>3, <2>8, ProposalKeeps
<1>8. CASE job[th].op = "approve" /\ ApprovalStage(th) /\ Indexed(a)
  <2>1. Approved(a, status, 1)
    BY <1>2, <1>3, <1>8 DEF ApprovalStage
  <2>2. lock' = Free
    BY <1>8 DEF AuditResult, Return
  <2>3. PICK n : n = Votes(a)
    OBVIOUS
  <2>4. /\ n \in Nat /\ n >= 1 /\ Votes(a)' = n
        /\ a \in DOMAIN rows' /\ rows'[a].state = "approved"
    <3>1. a \in DOMAIN rows /\ rows[a].state = "approved" /\ Votes(a) >= 1
      BY <2>1 DEF Approved, Reviewed
    <3>2. rows[a].approvals \in Seq(Approvers)
      BY <3>1 DEF ThreadsInv, QueueInv, QueueTypeOK, Rows
    <3>3. Votes(a) \in Nat
      BY <3>2, LenProperties DEF Votes
    <3>4. Votes(a)' = Votes(a)
      BY <1>6 DEF Votes
    <3>5. QED BY <1>6, <2>3, <3>1, <3>3, <3>4
  <2>5. /\ Len(trail[a]) = n + 2 /\ Opened(a) /\ trail[a][2].says = "approval_required"
        /\ \A i \in 1..n : /\ trail[a][i + 2].kind = "approval"
                           /\ trail[a][i + 2].actor = rows[a].approvals[i]
                           /\ trail[a][i + 2].tally = i
    BY <2>1, <2>3, <2>4 DEF Approved, Reviewed
  <2>6. /\ Len(trail'[a]) = n + 3 /\ trail'[a][n + 3] = entry
        /\ \A i \in 1..n + 2 : trail'[a][i] = trail[a][i]
    BY <1>6, <2>4, <2>5
  <2>7. /\ Opened(a)' /\ trail'[a][2].says = "approval_required"
    <3>1. 1 \in 1..n + 2 /\ 2 \in 1..n + 2
      BY <2>4
    <3>2. QED BY <2>5, <2>6, <3>1 DEF Opened
  <2>8. VotesRecorded(a)'
    <3>1. \A i \in 1..n : i + 2 \in 1..n + 2
      BY <2>4
    <3>2. QED BY <1>6, <2>4, <2>5, <2>6, <3>1 DEF VotesRecorded
  <2>9. /\ a \in DOMAIN actions' /\ actions'[a].status = status /\ effects'[a] = 1
        /\ rows'[a].tenant = actions'[a].tenant
    BY <1>6, <2>1 DEF Approved, Reviewed, Shows
  <2>10. RecordOK(a)'
    <3>1. RowAgrees("approved", status)
      BY <1>5 DEF RowAgrees
    <3>2. QED BY <1>5, <2>4, <2>6, <2>7, <2>8, <2>9, <3>1, ResolvedByOne
  <2>11. ExecOK(a)'
    <3>1. Authorized(a)'
      BY <1>1, <2>4, ApprovedIsAuthorized
    <3>2. QED BY <1>5, <2>4, <2>6, <2>9, <3>1 DEF ExecOK, IsPending
  <2>12. Indexed(a)'
    BY <1>6, <1>8 DEF Indexed, KeyOf
  <2>13. Settled(a)'
    BY <2>10, <2>11, <2>12 DEF Settled
  <2>14. QED BY <1>1, <1>2, <1>4, <1>6, <2>2, <2>13, HolderKeeps
<1>9. QED BY <1>2, <1>3, <1>4, <1>7, <1>8, StageAt

-----------------------------------------------------------------------------
(* approve_action and reject_action, step by step.                         *)

\* The votes of a row are a list of approvers and their number a number.
LEMMA VotesNat ==
    ASSUME QueueInv, NEW a \in DOMAIN rows
    PROVE  rows[a].approvals \in Seq(Approvers) /\ Votes(a) \in Nat
BY LenProperties DEF QueueInv, QueueTypeOK, Rows, Votes

\* A call is of the type of calls and has the fields it is made of.
LEMMA CallTypes ==
    ASSUME NEW op \in {"propose", "approve", "reject"}, NEW a \in ActionIds,
           NEW v \in OpenPool
    PROVE  /\ Call(op, a, v) \in Calls
           /\ Call(op, a, v).op = op /\ Call(op, a, v).a = a /\ Call(op, a, v).v = v
BY DEF Call, Calls

\* A thread that takes the lock finds every action settled.
LEMMA BeginKeeps ==
    ASSUME ThreadsInv, NEW th \in Threads, Begin(th), lock = Free, lock' = th,
           NEW a \in ActionIds,
           Settled(a) /\ (\A b \in ActionIds : Settled(b))
               => /\ \A b \in ActionIds : b # a => Untouched(b)
                  /\ IndexKeeps /\ IndexSound'
                  /\ Stage(th)' /\ Its(th)' = a
    PROVE  ThreadsInv'
<1>1. \A b \in ActionIds : Settled(b)
  BY ThreadsAssumption DEF ThreadsInv, Busy
<1>2. PipelineTypeOK' /\ QueueInv' /\ Controlled'
  BY StepFacts
<1>3. \A q \in Threads : q # th => lock' # q
  OBVIOUS
<1>4. QED BY <1>1, <1>2, <1>3, HolderMoves

\* handle_proposal begins with an action that no store knows yet.
LEMMA BeginProposalKeeps ==
    ASSUME ThreadsInv, NEW th \in Threads, NEW a \in ActionIds, NEW t \in Tenants,
           NEW e \in Events, NEW ty \in ActionTypes, NEW by \in Planners,
           BeginProposal(th, a, t, e, ty, by)
    PROVE  ThreadsInv'
<1>1. Begin(th) /\ Controlled /\ IndexSound /\ PipelineTypeOK
  BY StepFacts DEF Begin, ThreadsInv
<1>2. /\ lock = Free /\ lock' = th /\ pc'[th] = "proposal"
      /\ job'[th] = [Call("propose", a, Nobody) EXCEPT !.says = by]
      /\ <<t, e>> \notin DOMAIN dedup /\ a \notin DOMAIN actions
      /\ Put(a, t, e, ty, "pending_policy")
      /\ rows' = rows /\ dedup' = dedup /\ trail' = trail /\ effects' = effects
  BY <1>1 DEF BeginProposal, Acquire, Goto, Controlled, OnlyActions, queueVars
<1>3. SUFFICES ASSUME Settled(a)
               PROVE  /\ \A b \in ActionIds : b # a => Untouched(b)
                      /\ IndexKeeps /\ IndexSound'
                      /\ Stage(th)' /\ Its(th)' = a
  BY <1>1, <1>2, BeginKeeps
<1>4. /\ a \in DOMAIN actions' /\ actions'[a].status = "pending_policy"
      /\ actions'[a].tenant = t /\ actions'[a].event = e
      /\ \A b \in ActionIds : b # a => (b \in DOMAIN actions' <=> b \in DOMAIN actions)
      /\ \A b \in DOMAIN actions : b \in DOMAIN actions' /\ actions'[b] = actions[b]
  BY <1>2 DEF Put, DictPut
<1>5. /\ \A b \in ActionIds : b # a => Untouched(b)
      /\ KeysKept /\ IndexKeeps /\ IndexSound'
  BY <1>1, <1>2, <1>4, IndexStays DEF Untouched, KeysKept, KeyOf, IndexKeeps
<1>6. a \notin DOMAIN rows /\ trail[a] = <<>> /\ effects[a] = 0
  BY <1>2, <1>3 DEF Settled, ExecOK
<1>7. /\ job'[th] \in Calls /\ job'[th].a = a /\ job'[th].op = "propose"
      /\ job'[th].says = by
  BY <1>2 DEF Call, Calls, OpenPool
<1>8. KeyOf(a)' \notin DOMAIN dedup'
  BY <1>2, <1>4 DEF KeyOf
<1>9. Undecided(a, 0)'
  BY <1>2, <1>4, <1>6 DEF Undecided, Shows
<1>10. ProposalStage(th)'
  BY <1>2, <1>6, <1>7, <1>9 DEF ProposalStage, ProposalLabels, Its
<1>11. QED BY <1>4, <1>5, <1>7, <1>8, <1>10 DEF Stage, Its

\* What a pending row says of a settled action: it waits for its review.
LEMMA SettledPending ==
    ASSUME QueueInv, NEW a \in ActionIds, Settled(a), IsPending(a)
    PROVE  /\ a \in DOMAIN rows /\ a \in DOMAIN actions /\ Indexed(a)
           /\ Reviewed(a, "pending", Votes(a) + 2, "pending_approval", 0)
<1>1. a \in DOMAIN rows /\ rows[a].state = "pending"
  BY DEF IsPending
<1>2. a \in DOMAIN actions /\ effects[a] = 0 /\ Indexed(a)
  BY <1>1 DEF Settled, ExecOK
<1>3. StoredRecord(a) /\ QueuedRecord(a) /\ WaitingRecord(a)
  BY <1>1, <1>2 DEF Settled, RecordOK, StoredRecord, QueuedRecord
<1>4. QED BY <1>1, <1>2, <1>3
          DEF StoredRecord, QueuedRecord, WaitingRecord, VotesRecorded, Reviewed, Shows, Opened

\* The vote is in the row and not yet in the trail.
LEMMA BeginApproveKeeps ==
    ASSUME ThreadsInv, NEW th \in Threads, NEW a \in ActionIds, NEW v \in Approvers,
           NEW tn \in Tenants \cup {AnyTenant}, BeginApprove(th, a, v, tn)
    PROVE  ThreadsInv'
<1>1. Begin(th) /\ QueueInv /\ QueueInv' /\ Controlled /\ IndexSound
  BY StepFacts DEF Begin, ThreadsInv
<1>2. /\ lock = Free /\ lock' = th /\ pc'[th] = "signed"
      /\ job'[th] = Call("approve", a, v)
      /\ ApproveSingle(a, v) \/ ApproveFinal(a, v) \/ ApprovePartial(a, v)
      /\ UNCHANGED <<actions, dedup, trail, policy, quorum, effects>>
  BY <1>1 DEF BeginApprove, Acquire, Goto, Controlled, OnlyQueue
<1>3. SUFFICES ASSUME Settled(a)
               PROVE  /\ \A b \in ActionIds : b # a => Untouched(b)
                      /\ IndexKeeps /\ IndexSound'
                      /\ Stage(th)' /\ Its(th)' = a
  BY <1>1, <1>2, BeginKeeps
<1>4. /\ IsPending(a) /\ DOMAIN rows' = DOMAIN rows
      /\ \A b \in DOMAIN rows : b # a => rows'[b] = rows[b]
  BY <1>1, <1>2, OtherRowsStay DEF OpenPool
<1>5. /\ a \in DOMAIN rows /\ a \in DOMAIN actions /\ Indexed(a)
      /\ Reviewed(a, "pending", Votes(a) + 2, "pending_approval", 0)
      /\ rows[a].approvals \in Seq(Approvers) /\ Votes(a) \in Nat
  BY <1>1, <1>3, <1>4, SettledPending, VotesNat
<1>6. /\ \A b \in ActionIds : b # a => Untouched(b)
      /\ KeysKept /\ IndexKeeps /\ IndexSound'
  BY <1>1, <1>2, <1>4, IndexStays DEF Untouched, KeysKept, KeyOf, IndexKeeps
<1>7. /\ rows'[a].state \in {"pending", "approved"}
      /\ rows'[a].tenant = rows[a].tenant
      /\ rows'[a].approvals = Append(rows[a].approvals, v)
  BY <1>1, <1>2, DecisionOnRow
<1>8. PICK k : k = Votes(a)
  OBVIOUS
<1>9. /\ Votes(a)' = k + 1 /\ k \in Nat
      /\ rows'[a].approvals[k + 1] = v
      /\ \A i \in 1..k : rows'[a].approvals[i] = rows[a].approvals[i]
  BY <1>5, <1>7, <1>8, AppendProperties DEF Votes
<1>10. job'[th] \in Calls /\ job'[th].a = a /\ job'[th].op = "approve" /\ job'[th].v = v
  BY <1>2, CallTypes DEF OpenPool
<1>11. PICK state : state = rows'[a].state
  OBVIOUS
<1>12. Reviewed(a, state, k + 2, "pending_approval", 0)'
  <2>1. /\ a \in DOMAIN rows' /\ rows'[a].state = state
        /\ rows'[a].tenant = actions'[a].tenant /\ Opened(a)'
        /\ trail'[a][2].says = "approval_required" /\ Len(trail'[a]) = k + 2
        /\ Shows(a, "pending_approval", 0)'
    BY <1>2, <1>4, <1>5, <1>7, <1>8, <1>11 DEF Reviewed, Shows, Opened
  <2>2. ASSUME NEW i \in 1..Votes(a)', i + 2 <= k + 2
        PROVE  /\ trail'[a][i + 2].kind = "approval"
               /\ trail'[a][i + 2].actor = rows'[a].approvals[i]
               /\ trail'[a][i + 2].tally = i
    <3>1. i \in 1..k /\ i + 2 <= k + 2
      BY <1>9, <2>2
    <3>2. QED BY <1>2, <1>5, <1>8, <1>9, <3>1 DEF Reviewed
  <2>3. QED BY <2>1, <2>2 DEF Reviewed
<1>13. ApprovalStage(th)'
  <2>1. Its(th)' = a
    BY <1>10 DEF Its
  <2>2. Votes(a)' >= 1 /\ (Votes(a) + 1)' = k + 2 /\ rows'[a].approvals[Votes(a)'] = job'[th].v
    BY <1>9, <1>10
  <2>3. QED BY <1>2, <1>7, <1>11, <1>12, <2>1, <2>2 DEF ApprovalStage
<1>14. Indexed(a)'
  BY <1>2, <1>5 DEF Indexed, KeyOf
<1>15. QED BY <1>2, <1>5, <1>6, <1>10, <1>13, <1>14 DEF Stage, Its

\* The veto in the queue, which begins reject_action.
LEMMA BeginRejectKeeps ==
    ASSUME ThreadsInv, NEW th \in Threads, NEW a \in ActionIds, NEW v \in Approvers,
           NEW tn \in Tenants \cup {AnyTenant}, BeginReject(th, a, v, tn)
    PROVE  ThreadsInv'
<1>1. Begin(th) /\ QueueInv /\ QueueInv' /\ Controlled /\ IndexSound
  BY StepFacts DEF Begin, ThreadsInv
<1>2. /\ lock = Free /\ lock' = th /\ pc'[th] = "vetoed"
      /\ job'[th] = Call("reject", a, v) /\ Veto(a, v)
      /\ UNCHANGED <<actions, dedup, trail, policy, quorum, effects>>
  BY <1>1 DEF BeginReject, Acquire, Goto, Controlled, OnlyQueue
<1>3. SUFFICES ASSUME Settled(a)
               PROVE  /\ \A b \in ActionIds : b # a => Untouched(b)
                      /\ IndexKeeps /\ IndexSound'
                      /\ Stage(th)' /\ Its(th)' = a
  BY <1>1, <1>2, BeginKeeps
<1>4. /\ IsPending(a) /\ DOMAIN rows' = DOMAIN rows
      /\ \A b \in DOMAIN rows : b # a => rows'[b] = rows[b]
  BY <1>1, <1>2, OtherRowsStay DEF OpenPool
<1>5. /\ a \in DOMAIN rows /\ a \in DOMAIN actions /\ Indexed(a)
      /\ Reviewed(a, "pending", Votes(a) + 2, "pending_approval", 0)
  BY <1>1, <1>3, <1>4, SettledPending
<1>6. /\ \A b \in ActionIds : b # a => Untouched(b)
      /\ KeysKept /\ IndexKeeps /\ IndexSound'
  BY <1>1, <1>2, <1>4, IndexStays DEF Untouched, KeysKept, KeyOf, IndexKeeps
<1>7. /\ rows'[a].state = "rejected" /\ rows'[a].tenant = rows[a].tenant
      /\ rows'[a].approvals = rows[a].approvals
  BY <1>1, <1>2, DecisionOnRow
<1>8. job'[th] \in Calls /\ job'[th].a = a /\ job'[th].op = "reject"
  BY <1>2, CallTypes DEF OpenPool
<1>9. Votes(a)' = Votes(a)
  BY <1>7 DEF Votes
<1>10. Reviewed(a, "rejected", Votes(a) + 2, "pending_approval", 0)'
  BY <1>2, <1>4, <1>5, <1>7, <1>9 DEF Reviewed, Shows, Opened
<1>11. RejectionStage(th)'
  BY <1>2, <1>8, <1>10 DEF RejectionStage, Its
<1>12. Indexed(a)'
  BY <1>2, <1>5 DEF Indexed, KeyOf
<1>13. QED BY <1>2, <1>5, <1>6, <1>8, <1>11, <1>12 DEF Stage, Its

\* The trail records the vote; short of the quorum the handler is done.
LEMMA AuditApprovalKeeps ==
    ASSUME ThreadsInv, NEW th \in Threads, AuditApproval(th)
    PROVE  ThreadsInv'
<1>1. Proceed(th) /\ Controlled /\ QueueInv
  BY StepFacts DEF Proceed
<1>2. PICK a, v, k, says, entry :
          /\ a = Its(th) /\ v = job[th].v /\ k = Votes(a)
          /\ says = (IF rows[a].state = "approved" THEN "quorum_reached" ELSE "quorum_open")
          /\ entry = Signed(v, k, says)
  OBVIOUS
<1>3. pc[th] = "signed" /\ Write(a, <<entry>>) /\ OnlyTrail
  BY <1>2 DEF AuditApproval, Votes
<1>4. /\ pc[th] \in Locked
      /\ job[th] \in Calls /\ a \in ActionIds /\ a \in DOMAIN actions
      /\ job[th].op = "approve" /\ ApprovalStage(th) /\ Indexed(a)
  BY <1>2, <1>3, Holder, StageAt DEF Locked
<1>5. PICK state \in {"pending", "approved"} :
          Reviewed(a, state, k + 1, "pending_approval", 0)
  BY <1>2, <1>3, <1>4 DEF ApprovalStage
<1>6. /\ k \in Nat /\ k >= 1 /\ rows[a].approvals[k] = v /\ a \in DOMAIN rows
      /\ rows[a].state = state
  BY <1>1, <1>2, <1>3, <1>4, <1>5, VotesNat DEF ApprovalStage, Reviewed
<1>7. /\ entry \in AuditEntries /\ entry.kind = "approval" /\ entry.actor = v
      /\ entry.tally = k /\ entry.says = says
  BY <1>2, <1>4, <1>6, EntryTypes DEF Signed, Calls
<1>8. /\ \A b \in ActionIds : b # a => Untouched(b)
      /\ KeysKept /\ IndexKeeps /\ IndexSound'
      /\ rows' = rows /\ actions' = actions /\ effects' = effects /\ dedup' = dedup
      /\ Len(trail'[a]) = Len(trail[a]) + 1 /\ trail'[a][Len(trail[a]) + 1] = entry
      /\ \A i \in 1..Len(trail[a]) : trail'[a][i] = trail[a][i]
  BY <1>3, <1>4, <1>7, HolderWrites
<1>9. /\ Len(trail[a]) = k + 1 /\ Opened(a) /\ trail[a][2].says = "approval_required"
      /\ \A i \in 1..k : i + 2 <= k + 1 =>
             /\ trail[a][i + 2].kind = "approval"
             /\ trail[a][i + 2].actor = rows[a].approvals[i]
             /\ trail[a][i + 2].tally = i
  BY <1>2, <1>5 DEF Reviewed
<1>10. /\ Len(trail'[a]) = k + 2 /\ trail'[a][k + 2] = entry
       /\ \A i \in 1..k + 1 : trail'[a][i] = trail[a][i]
  BY <1>6, <1>8, <1>9
<1>11. Opened(a)' /\ trail'[a][2].says = "approval_required"
  <2>1. 1 \in 1..k + 1 /\ 2 \in 1..k + 1
    BY <1>6
  <2>2. QED BY <1>9, <1>10, <2>1 DEF Opened
<1>12. ASSUME NEW i \in 1..k
       PROVE  /\ trail'[a][i + 2].kind = "approval"
              /\ trail'[a][i + 2].actor = rows'[a].approvals[i]
              /\ trail'[a][i + 2].tally = i
  <2>1. CASE i = k
    BY <1>6, <1>7, <1>8, <1>10, <2>1
  <2>2. CASE i # k
    <3>1. i + 2 <= k + 1 /\ i + 2 \in 1..k + 1
      BY <1>6, <2>2
    <3>2. QED BY <1>8, <1>9, <1>10, <3>1
  <2>3. QED BY <2>1, <2>2
<1>13. Votes(a)' = k
  BY <1>2, <1>8 DEF Votes
<1>14. /\ Shows(a, "pending_approval", 0)'
       /\ a \in DOMAIN rows' /\ rows'[a].state = state
       /\ rows'[a].tenant = actions'[a].tenant
  BY <1>5, <1>6, <1>8 DEF Reviewed, Shows
<1>15. CASE state = "approved"
  <2>1. Continue(th, "signed", "promote")
    BY <1>2, <1>6, <1>15 DEF AuditApproval
  <2>2. GoesOn(th) /\ pc'[th] = "promote" /\ Its(th)' = a
    BY <1>1, <1>2, <1>4, <2>1, ContinueKeeps DEF Its
  <2>3. Approved(a, "pending_approval", 0)'
    BY <1>6, <1>10, <1>11, <1>12, <1>13, <1>14, <1>15 DEF Approved, Reviewed
  <2>4. ApprovalStage(th)'
    BY <2>2, <2>3 DEF ApprovalStage
  <2>5. QED BY <1>1, <1>2, <1>4, <1>8, <2>2, <2>4, RequestKeeps
<1>16. CASE state = "pending"
  <2>1. lock' = Free
    BY <1>2, <1>6, <1>16 DEF AuditApproval, Return
  <2>2. says = "quorum_open"
    BY <1>2, <1>6, <1>16
  <2>3. VotesRecorded(a)'
    BY <1>12, <1>13 DEF VotesRecorded
  <2>4. WaitingRecord(a)'
    BY <1>7, <1>10, <1>13, <1>14, <2>2 DEF WaitingRecord, Shows
  <2>5. QueuedRecord(a)'
    BY <1>11, <1>14, <1>16, <2>3, <2>4 DEF QueuedRecord
  <2>6. RecordOK(a)' /\ ExecOK(a)'
    BY <1>6, <1>10, <1>11, <1>14, <2>5 DEF RecordOK, StoredRecord, ExecOK, Opened, Shows
  <2>7. Indexed(a)'
    BY <1>4, <1>8 DEF Indexed, KeyOf
  <2>8. Settled(a)'
    BY <2>6, <2>7 DEF Settled
  <2>9. QED BY <1>1, <1>2, <1>4, <1>8, <2>1, <2>8, HolderKeeps
<1>17. QED BY <1>15, <1>16

\* The status of an action whose quorum is reached.
LEMMA PromoteKeeps ==
    ASSUME ThreadsInv, NEW th \in Threads, Promote(th)
    PROVE  ThreadsInv'
<1>1. Proceed(th) /\ Controlled
  BY StepFacts DEF Proceed
<1>2. PICK a : a = Its(th)
  OBVIOUS
<1>3. Continue(th, "promote", "execute") /\ SetStatus(a, "pending_exec") /\ OnlyActions
  BY <1>2 DEF Promote
<1>4. /\ pc[th] \in Locked /\ pc[th] = "promote"
      /\ job[th] \in Calls /\ a \in ActionIds /\ a \in DOMAIN actions
      /\ job[th].op = "approve" /\ ApprovalStage(th) /\ Indexed(a)
  BY <1>2, <1>3, Holder, StageAt DEF Locked, Continue
<1>5. GoesOn(th) /\ pc'[th] = "execute" /\ Its(th)' = a
  BY <1>1, <1>2, <1>3, <1>4, ContinueKeeps DEF Its
<1>6. /\ \A b \in ActionIds : b # a => Untouched(b)
      /\ KeysKept /\ rows' = rows /\ trail' = trail /\ effects' = effects
      /\ dedup' = dedup /\ DOMAIN actions' = DOMAIN actions
      /\ actions'[a].status = "pending_exec" /\ actions'[a].tenant = actions[a].tenant
  BY <1>3, <1>4, HolderSets DEF Statuses
<1>7. Approved(a, "pending_approval", 0)
  BY <1>2, <1>4 DEF ApprovalStage
<1>8. Shows(a, "pending_exec", 0)'
  BY <1>6, <1>7 DEF Shows, Approved, Reviewed
<1>9. Approved(a, "pending_exec", 0)'
  BY <1>6, <1>7, <1>8, ApprovedMoves
<1>10. ApprovalStage(th)'
  BY <1>5, <1>9 DEF ApprovalStage
<1>11. QED BY <1>1, <1>2, <1>4, <1>5, <1>6, <1>10, RequestKeeps

\* The row of a veto.
LEMMA AuditVetoKeeps ==
    ASSUME ThreadsInv, NEW th \in Threads, AuditVeto(th)
    PROVE  ThreadsInv'
<1>1. Proceed(th) /\ Controlled /\ QueueInv
  BY StepFacts DEF Proceed
<1>2. PICK a, k, entry : a = Its(th) /\ k = Votes(a) /\ entry = Rejected(job[th].v)
  OBVIOUS
<1>3. Continue(th, "vetoed", "withdraw") /\ Write(a, <<entry>>) /\ OnlyTrail
  BY <1>2 DEF AuditVeto
<1>4. /\ pc[th] \in Locked /\ pc[th] = "vetoed"
      /\ job[th] \in Calls /\ a \in ActionIds /\ a \in DOMAIN actions
      /\ job[th].op = "reject" /\ RejectionStage(th) /\ Indexed(a)
  BY <1>2, <1>3, Holder, StageAt DEF Locked, Continue
<1>5. GoesOn(th) /\ pc'[th] = "withdraw" /\ Its(th)' = a
  BY <1>1, <1>2, <1>3, <1>4, ContinueKeeps DEF Its
<1>6. /\ Reviewed(a, "rejected", k + 2, "pending_approval", 0) /\ a \in DOMAIN rows
      /\ k \in Nat
  BY <1>1, <1>2, <1>4, VotesNat DEF RejectionStage, Reviewed
<1>7. entry \in AuditEntries /\ job'[th].v = job[th].v
  BY <1>1, <1>2, <1>3, <1>4, ContinueKeeps, EntryTypes DEF Calls
<1>8. /\ \A b \in ActionIds : b # a => Untouched(b)
      /\ KeysKept
      /\ rows' = rows /\ actions' = actions /\ effects' = effects /\ dedup' = dedup
      /\ Len(trail'[a]) = Len(trail[a]) + 1 /\ trail'[a][Len(trail[a]) + 1] = entry
      /\ \A i \in 1..Len(trail[a]) : trail'[a][i] = trail[a][i]
  BY <1>3, <1>4, <1>7, HolderWrites
<1>9. /\ Len(trail[a]) = k + 2 /\ Opened(a) /\ trail[a][2].says = "approval_required"
      /\ \A i \in 1..k : i + 2 <= k + 2 =>
             /\ trail[a][i + 2].kind = "approval"
             /\ trail[a][i + 2].actor = rows[a].approvals[i]
             /\ trail[a][i + 2].tally = i
  BY <1>2, <1>6 DEF Reviewed
<1>10. /\ Len(trail'[a]) = k + 3 /\ trail'[a][k + 3] = entry
       /\ \A i \in 1..k + 2 : trail'[a][i] = trail[a][i]
  BY <1>6, <1>8, <1>9
<1>11. Opened(a)' /\ trail'[a][2].says = "approval_required"
  <2>1. 1 \in 1..k + 2 /\ 2 \in 1..k + 2
    BY <1>6
  <2>2. QED BY <1>9, <1>10, <2>1 DEF Opened
<1>12. \A i \in 1..k : /\ trail'[a][i + 2].kind = "approval"
                       /\ trail'[a][i + 2].actor = rows'[a].approvals[i]
                       /\ trail'[a][i + 2].tally = i
  <2>1. \A i \in 1..k : i + 2 <= k + 2 /\ i + 2 \in 1..k + 2
    BY <1>6
  <2>2. QED BY <1>8, <1>9, <1>10, <2>1
<1>13. Votes(a)' = k
  BY <1>2, <1>8 DEF Votes
<1>14. /\ Shows(a, "pending_approval", 0)'
       /\ a \in DOMAIN rows' /\ rows'[a].state = "rejected"
       /\ rows'[a].tenant = actions'[a].tenant
  BY <1>6, <1>8 DEF Reviewed, Shows
<1>15. Reviewed(a, "rejected", k + 3, "pending_approval", 0)'
  BY <1>10, <1>11, <1>12, <1>13, <1>14 DEF Reviewed
<1>16. RejectionStage(th)'
  BY <1>2, <1>5, <1>7, <1>10, <1>13, <1>15 DEF RejectionStage, Rejected
<1>17. QED BY <1>1, <1>2, <1>4, <1>5, <1>8, <1>16, RequestKeeps

\* The status of a vetoed action, and the lock released.
LEMMA WithdrawKeeps ==
    ASSUME ThreadsInv, NEW th \in Threads, Withdraw(th)
    PROVE  ThreadsInv'
<1>1. Proceed(th) /\ Controlled /\ QueueInv
  BY StepFacts DEF Proceed
<1>2. PICK a, k, entry : a = Its(th) /\ k = Votes(a) /\ entry = trail[a][k + 3]
  OBVIOUS
<1>3. pc[th] = "withdraw" /\ lock' = Free /\ SetStatus(a, "rejected") /\ OnlyActions
  BY <1>2 DEF Withdraw, Return
<1>4. /\ pc[th] \in Locked /\ a \in ActionIds /\ a \in DOMAIN actions
      /\ RejectionStage(th) /\ Indexed(a)
  BY <1>2, <1>3, Holder, StageAt DEF Locked
<1>5. /\ Reviewed(a, "rejected", k + 3, "pending_approval", 0) /\ a \in DOMAIN rows
      /\ k \in Nat /\ Closing(entry) /\ entry.kind = "rejection"
  <2>1. /\ Reviewed(a, "rejected", k + 3, "pending_approval", 0) /\ a \in DOMAIN rows
        /\ k \in Nat /\ entry = Rejected(job[th].v)
    BY <1>1, <1>2, <1>3, <1>4, VotesNat DEF RejectionStage, Reviewed
  <2>2. QED BY <2>1 DEF Rejected, Closing
<1>6. /\ \A b \in ActionIds : b # a => Untouched(b)
      /\ IndexKeeps /\ IndexSound'
      /\ rows' = rows /\ trail' = trail /\ effects' = effects
      /\ dedup' = dedup /\ DOMAIN actions' = DOMAIN actions
      /\ actions'[a].status = "rejected" /\ actions'[a].tenant = actions[a].tenant
      /\ actions'[a].event = actions[a].event
  BY <1>3, <1>4, HolderSets DEF Statuses
<1>7. Votes(a)' = k
  BY <1>2, <1>6 DEF Votes
<1>8. VotesRecorded(a)'
  <2>1. \A i \in 1..k : i + 2 <= k + 3
    BY <1>5
  <2>2. QED BY <1>2, <1>5, <1>6, <1>7, <2>1 DEF VotesRecorded, Reviewed
<1>9. RecordOK(a)'
  <2>1. StatusTold(entry) = "rejected" /\ RowAgrees("rejected", "rejected")
    BY <1>5 DEF Closing, StatusTold, RowAgrees
  <2>2. /\ a \in DOMAIN actions' /\ a \in DOMAIN rows' /\ rows'[a].state = "rejected"
        /\ rows'[a].tenant = actions'[a].tenant /\ Opened(a)'
        /\ trail'[a][2].says = "approval_required" /\ Len(trail'[a]) = k + 3
        /\ trail'[a][k + 3] = entry
    BY <1>2, <1>4, <1>5, <1>6 DEF Reviewed, Opened
  <2>3. QED BY <1>5, <1>6, <1>7, <1>8, <2>1, <2>2, ResolvedByOne
<1>10. ExecOK(a)'
  BY <1>4, <1>5, <1>6 DEF ExecOK, Reviewed, Shows, IsPending
<1>11. Indexed(a)'
  BY <1>4, <1>6 DEF Indexed, KeyOf
<1>12. Settled(a)'
  BY <1>9, <1>10, <1>11 DEF Settled
<1>13. QED BY <1>1, <1>2, <1>3, <1>4, <1>6, <1>12, HolderKeeps

-----------------------------------------------------------------------------
(* Every step.                                                             *)

\* A stage tells of the stores, and of what its thread has in hand.
LEMMA StageStays ==
    ASSUME NEW th \in Threads, Stage(th), pc'[th] = pc[th], job'[th] = job[th],
           UNCHANGED <<rows, actions, dedup, trail, effects>>
    PROVE  Stage(th)'
<1>1. Its(th)' = Its(th) /\ \A b : KeyOf(b)' = KeyOf(b)
  BY DEF Its, KeyOf
<1>2. ProposalStage(th) => ProposalStage(th)'
  BY <1>1 DEF ProposalStage, Undecided, DecidedAs, Opened, Shows
<1>3. IndexStage(th) => IndexStage(th)'
  <2>1. \A b \in ActionIds : Untouched(b)
    BY DEF Untouched
  <2>2. Its(th) \in ActionIds
    BY DEF Stage, Its, Calls
  <2>3. QED BY <1>1, <2>1, <2>2, UntouchedRecord, UntouchedOK DEF IndexStage
<1>4. ASSUME NEW a, NEW state, NEW n, NEW status, NEW calls,
             Reviewed(a, state, n, status, calls)
      PROVE  Reviewed(a, state, n, status, calls)'
  BY <1>4 DEF Reviewed, Shows, Opened, Votes
<1>5. \A a : Votes(a)' = Votes(a)
  BY DEF Votes
<1>6. ApprovalStage(th) => ApprovalStage(th)'
  BY <1>1, <1>4, <1>5 DEF ApprovalStage, Approved
<1>7. RejectionStage(th) => RejectionStage(th)'
  BY <1>1, <1>4, <1>5 DEF RejectionStage, Rejected
<1>8. QED BY <1>1, <1>2, <1>3, <1>6, <1>7 DEF Stage, Indexed

\* A step that leaves the stores, the lock and its holder alone.
LEMMA StoresStay ==
    ASSUME ThreadsInv, Controlled', PipelineTypeOK', QueueInv',
           UNCHANGED <<rows, actions, dedup, trail, effects, lock>>,
           \A th \in Threads : lock = th => pc'[th] = pc[th] /\ job'[th] = job[th]
    PROVE  ThreadsInv'
<1>1. ThreadsTypeOK'
  BY DEF ThreadsTypeOK, Controlled
<1>2. IndexKeeps /\ IndexSound'
  BY DEF ThreadsInv, IndexKeeps, IndexSound, KeyOf
<1>3. \A b \in ActionIds : Untouched(b)
  BY DEF Untouched
<1>4. \A b \in ActionIds : Busy(b) => Busy(b)'
  BY DEF Busy, Its
<1>5. \A b \in ActionIds : ~ Busy(b)' => Settled(b)'
  BY <1>2, <1>3, <1>4, SettledStays DEF ThreadsInv
<1>6. \A th \in Threads : lock' = th => Stage(th)'
  BY StageStays DEF ThreadsInv
<1>7. QED BY <1>1, <1>2, <1>5, <1>6 DEF ThreadsInv

\* Readers, and what a thread does when its handler has returned.
LEMMA UnlockedKeeps ==
    ASSUME ThreadsInv, NEW th \in Threads, Begin(th) \/ Proceed(th),
           vars' = vars, lock' = lock, pc[th] \notin Locked
    PROVE  ThreadsInv'
<1>1. /\ PipelineTypeOK' /\ QueueInv' /\ Controlled /\ Controlled'
      /\ \A q \in Threads : q # th => pc'[q] = pc[q] /\ job'[q] = job[q]
  BY StepFacts
<1>2. lock # th
  BY <1>1 DEF Controlled
<1>3. QED BY <1>1, <1>2, StoresStay DEF vars, pipelineVars

\* Whatever a thread does next, the invariant holds.
LEMMA ThreadsStep ==
    ASSUME ThreadsInv, [ThreadsNext]_allVars
    PROVE  ThreadsInv'
<1>1. Controlled /\ PipelineTypeOK' /\ QueueInv'
  BY ThreadStoreTypes, QueueStep, ThreadStepIsQueueStep
     DEF ThreadsInv, ThreadsTypeOK, Controlled
<1>2. CASE UNCHANGED allVars
  <2>1. Controlled' /\ UNCHANGED <<rows, actions, dedup, trail, effects, lock, pc, job>>
    BY <1>1, <1>2 DEF allVars, vars, pipelineVars, threadVars, Controlled
  <2>2. QED BY <1>1, <2>1, StoresStay
<1>3. ASSUME NEW t \in Tenants, Configure(t), UNCHANGED threadVars
      PROVE  ThreadsInv'
  <2>1. Controlled' /\ UNCHANGED <<rows, actions, dedup, trail, effects, lock, pc, job>>
    BY <1>1, <1>3 DEF Configure, SetPolicies, SetQuorumRule, queueVars, threadVars, Controlled
  <2>2. QED BY <1>1, <2>1, StoresStay
<1>4. ASSUME NEW th \in Threads, Begin(th)
      PROVE  ThreadsInv'
  <2>1. CASE vars' = vars /\ lock' = lock
    BY <1>1, <1>4, <2>1, BeginMoves, UnlockedKeeps
  <2>2. (vars' = vars /\ lock' = lock)
        \/ (\E a \in ActionIds, t \in Tenants, e \in Events, ty \in ActionTypes,
               by \in Planners : BeginProposal(th, a, t, e, ty, by))
        \/ (\E a \in ActionIds, v \in Approvers, tn \in Tenants \cup {AnyTenant} :
               BeginApprove(th, a, v, tn) \/ BeginReject(th, a, v, tn))
    BY <1>4 DEF Begin, BeginGet, BeginList
  <2>3. QED BY <2>1, <2>2, BeginProposalKeeps, BeginApproveKeeps, BeginRejectKeeps
<1>5. ASSUME NEW th \in Threads, Proceed(th)
      PROVE  ThreadsInv'
  <2>1. CASE ViewTrail(th) \/ ViewRow(th) \/ ListGet(th) \/ ListDone(th) \/ EndCall(th)
    BY <1>5, <2>1, UnlockedKeeps
       DEF ViewTrail, ViewRow, ListGet, ListDone, EndCall, Locked
  <2>2. QED BY <1>5, <2>1, AuditProposalKeeps, DecidePolicyKeeps, ApplyKeeps,
               AuditRefusalKeeps, EnqueueActionKeeps, IndexEventKeeps, ExecuteKeeps,
               PutResultKeeps, AuditResultKeeps, AuditApprovalKeeps, PromoteKeeps,
               AuditVetoKeeps, WithdrawKeeps
            DEF Proceed
<1>6. QED BY <1>2, <1>3, <1>4, <1>5 DEF ThreadsNext

\* With empty stores and idle threads the invariant holds.
LEMMA ThreadsInitInv == ThreadsInit => ThreadsInv
<1> SUFFICES ASSUME ThreadsInit PROVE ThreadsInv
  OBVIOUS
<1>1. PipelineTypeOK /\ QueueInv
  BY PipelineInitTypes DEF ThreadsInit
<1>2. ThreadsTypeOK
  <2>1. Free \notin Threads /\ "idle" \in Unlocked /\ "idle" \notin Locked
    BY ThreadsAssumption DEF Locked, Unlocked
  <2>2. QED BY <1>1, <2>1 DEF ThreadsInit, ThreadsTypeOK
<1>3. IndexSound
  BY DEF ThreadsInit, PipelineInit, IndexSound
<1>4. \A a \in ActionIds : Settled(a)
  BY DEF ThreadsInit, PipelineInit, QueueInit, Settled, RecordOK, NoRecord, ExecOK, IsPending
<1>5. \A th \in Threads : lock # th
  BY ThreadsAssumption DEF ThreadsInit
<1>6. QED BY <1>1, <1>2, <1>3, <1>4, <1>5 DEF ThreadsInv

\* Whoever calls while whoever else is in a handler: the handler that holds the
\* lock is where its label says, and every other action is settled (ThreadsInv).
THEOREM ThreadsCorrect == ThreadsSpec => []ThreadsInv
<1>1. QED BY ThreadsInitInv, ThreadsStep, PTL DEF ThreadsSpec

-----------------------------------------------------------------------------
(* What that says of the stores.                                           *)

\* Between two handlers every action is settled.
LEMMA QuiescenceTold ==
    ASSUME ThreadsInv
    PROVE  QuiescentlyConsistent
<1>1. SUFFICES ASSUME lock = Free
               PROVE  /\ StatusMatchesTrail /\ TrailRecordsVotes /\ QueueMatchesStore
                      /\ ExecutionAuthorized /\ OneActionPerEvent
  BY DEF QuiescentlyConsistent
<1>2. \A a \in ActionIds : Settled(a)
  BY <1>1, ThreadsAssumption DEF ThreadsInv, Busy
<1>3. RecordInv /\ ExecInv
  BY <1>2 DEF Settled, RecordInv, ExecInv
<1>4. PipelineTypeOK /\ QueueInv
  BY DEF ThreadsInv, ThreadsTypeOK
<1>5. ExecutionAuthorized
  BY <1>3 DEF ExecInv, ExecOK, ExecutionAuthorized
<1>6. OneActionPerEvent
  BY <1>2, <1>4 DEF ThreadsInv, IndexSound, Settled, Indexed, KeyOf, OneActionPerEvent,
                    PipelineTypeOK
<1>7. QED BY <1>3, <1>4, <1>5, <1>6, RecordTells

\* The statuses of an action that was let through to the executor.
LetThrough == {"pending_exec", "executed", "execution_failed"}

\* Inside a handler too a queue row has its action in the store, and the action
\* is never ahead of its review.
LEMMA RowTold ==
    ASSUME ThreadsInv, NEW a \in DOMAIN rows
    PROVE  /\ a \in DOMAIN actions
           /\ rows[a].tenant = actions[a].tenant
           /\ actions[a].status # "pending_policy"
           /\ rows[a].state = "pending" => actions[a].status = "pending_approval"
           /\ actions[a].status \in LetThrough => rows[a].state = "approved"
           /\ actions[a].status = "rejected" => rows[a].state = "rejected"
<1> DEFINE Told(state, status) ==
               /\ status # "pending_policy"
               /\ state = "pending" => status = "pending_approval"
               /\ status \in LetThrough => state = "approved"
               /\ status = "rejected" => state = "rejected"
<1>1. a \in ActionIds /\ rows[a].state \in RowStates
  BY DEF ThreadsInv, QueueInv, QueueTypeOK, Rows
<1>2. CASE RecordOK(a)
  <2>1. a \in DOMAIN actions /\ QueuedRecord(a)
    BY <1>2 DEF RecordOK, NoRecord, StoredRecord
  <2>2. CASE rows[a].state = "pending"
    BY <2>1, <2>2 DEF QueuedRecord, WaitingRecord, LetThrough
  <2>3. CASE rows[a].state # "pending"
    BY <1>1, <2>1, <2>3 DEF QueuedRecord, ResolvedRecord, RowAgrees, RowStates, LetThrough
  <2>4. QED BY <2>1, <2>2, <2>3 DEF QueuedRecord
<1>3. ASSUME NEW state, NEW n, NEW status, NEW calls, Reviewed(a, state, n, status, calls),
             Told(state, status)
      PROVE  /\ a \in DOMAIN actions
             /\ rows[a].tenant = actions[a].tenant
             /\ Told(rows[a].state, actions[a].status)
  BY <1>3 DEF Reviewed, Shows
<1>4. ASSUME NEW th \in Threads, Stage(th), Its(th) = a, ~ RecordOK(a)
      PROVE  \E state, n, status, calls :
                 Reviewed(a, state, n, status, calls) /\ Told(state, status)
  <2>1. job[th].op \in {"approve", "reject"}
    BY <1>4 DEF Stage, Calls, ProposalStage, IndexStage
  <2>2. CASE job[th].op = "approve"
    BY <1>4, <2>2 DEF Stage, ApprovalStage, Approved, ExecStatus, LetThrough
  <2>3. CASE job[th].op = "reject"
    BY <1>4, <2>3 DEF Stage, RejectionStage, LetThrough
  <2>4. QED BY <2>1, <2>2, <2>3
<1>5. CASE ~ RecordOK(a)
  <2>1. PICK th \in Threads : Stage(th) /\ Its(th) = a
    BY <1>1, <1>5 DEF ThreadsInv, Busy, Settled
  <2>2. QED BY <1>3, <1>4, <1>5, <2>1
<1>6. QED BY <1>2, <1>5

\* Every row of the queue is of a stored action.
LEMMA QueuedTold ==
    ASSUME ThreadsInv
    PROVE  QueuedIsStored
BY RowTold DEF QueuedIsStored

\* The stores keep their promises to each other, inside a handler and between
\* two, however calls, readers and configuration interleave (StoresAgree).
THEOREM StoresAlwaysAgree == ThreadsSpec => []StoresAgree
<1>1. ThreadsInv => StoresAgree
  BY QuiescenceTold, QueuedTold DEF StoresAgree, ThreadsInv
<1>2. QED BY <1>1, ThreadsCorrect, PTL

-----------------------------------------------------------------------------
(* The threaded pipeline implements the lifecycle of an action.            *)

\* What of an action stays as it is, the lifecycle sees unchanged.
LEMMA SeenStays ==
    /\ actions' = actions => StatusSeen' = StatusSeen
    /\ rows' = rows => /\ ReviewSeen' = ReviewSeen
                       /\ NeedSeen' = NeedSeen
                       /\ SignedSeen' = SignedSeen
BY DEF StatusSeen, ReviewSeen, NeedSeen, SignedSeen

\* A status written to the store is one move of the lifecycle.
LEMMA StatusIsMove ==
    ASSUME ThreadsInv, NEW a \in DOMAIN actions, NEW to \in Statuses, NEW from,
           SetStatus(a, to), OnlyActions, actions[a].status = from
    PROVE  Lifecycle!Move(a, from, to)
<1>1. PipelineTypeOK /\ a \in ActionIds
  BY DEF ThreadsInv, ThreadsTypeOK, PipelineTypeOK
<1>2. /\ \A b \in ActionIds : b # a => Untouched(b)
      /\ rows' = rows /\ effects' = effects /\ DOMAIN actions' = DOMAIN actions
      /\ actions'[a].status = to
  BY HolderSets
<1>3. StatusSeen[a] = from /\ StatusSeen'[a] = to
  BY <1>1, <1>2 DEF StatusSeen
<1>4. StatusSeen' = [StatusSeen EXCEPT ![a] = to]
  BY <1>1, <1>2, <1>3 DEF StatusSeen, Untouched
<1>5. QED BY <1>2, <1>3, <1>4, SeenStays DEF Lifecycle!Move

\* Storing an action is its beginning in the lifecycle.
LEMMA MaterializeStep ==
    ASSUME ThreadsInv, NEW th \in Threads, NEW a \in ActionIds, NEW t \in Tenants,
           NEW e \in Events, NEW ty \in ActionTypes, NEW by \in Planners,
           BeginProposal(th, a, t, e, ty, by)
    PROVE  Lifecycle!Materialize(a)
<1>1. /\ a \notin DOMAIN actions /\ rows' = rows /\ effects' = effects
      /\ DOMAIN actions' = DOMAIN actions \cup {a}
      /\ actions'[a].status = "pending_policy"
      /\ \A b \in DOMAIN actions : actions'[b] = actions[b]
  BY DEF BeginProposal, Put, DictPut, OnlyActions, queueVars
<1>2. /\ StatusSeen[a] = "none"
      /\ StatusSeen' = [StatusSeen EXCEPT ![a] = "pending_policy"]
  BY <1>1 DEF StatusSeen
<1>3. QED BY <1>1, <1>2, SeenStays DEF Lifecycle!Materialize, Lifecycle!Move

\* The policy's three decisions.
LEMMA GateStep ==
    ASSUME ThreadsInv, NEW th \in Threads,
           ApplyReject(th) \/ ApplyQueue(th) \/ ApplyAuto(th)
    PROVE  Lifecycle!Gate(Its(th))
<1>1. PICK a, to : /\ a = Its(th) /\ SetStatus(a, to) /\ OnlyActions /\ pc[th] = "apply"
                   /\ to \in {"pending_exec", "pending_approval", "rejected"}
  BY DEF ApplyReject, ApplyQueue, ApplyAuto, Continue
<1>2. a \in DOMAIN actions /\ ProposalStage(th)
  BY <1>1, Holder, StageAt DEF Locked
<1>3. actions[a].status = "pending_policy"
  BY <1>1, <1>2 DEF ProposalStage, DecidedAs, Shows
<1>4. Lifecycle!Move(a, "pending_policy", to)
  BY <1>1, <1>2, <1>3, StatusIsMove DEF Statuses
<1>5. QED BY <1>1, <1>4 DEF Lifecycle!Gate

\* A review opens with the quorum the rule in force asks for, at least one.
LEMMA OpenStep ==
    ASSUME ThreadsInv, NEW th \in Threads, EnqueueAction(th)
    PROVE  Lifecycle!OpenReview(Its(th))
<1>1. PICK a, t, rule : a = Its(th) /\ t = actions[a].tenant
                        /\ rule = ResolveQuorum(t, actions[a].type)
  OBVIOUS
<1>2. /\ pc[th] = "enqueue" /\ Enqueue(a, t, rule)
      /\ actions' = actions /\ trail' = trail /\ effects' = effects
  BY <1>1 DEF EnqueueAction, Continue, OnlyQueue
<1>3. /\ a \in ActionIds /\ a \in DOMAIN actions /\ ProposalStage(th)
      /\ PipelineTypeOK
  BY <1>1, <1>2, Holder, StageAt DEF Locked, ThreadsInv, ThreadsTypeOK
<1>4. a \notin DOMAIN rows /\ actions[a].status = "pending_approval"
  BY <1>1, <1>2, <1>3 DEF ProposalStage, DecidedAs, Shows
<1>5. /\ actions[a].tenant \in Tenants /\ actions[a].type \in ActionTypes
  BY <1>3 DEF PipelineTypeOK, ActionRecords
<1>6. rule.required \in Quorums \ {0}
  <2>1. rule \in QuorumRules /\ rule.required >= 1
    BY <1>1, <1>2, <1>3, <1>5, ResolvedRule DEF Enqueue, ValidRule
  <2>2. QED BY <2>1 DEF QuorumRules
<1>7. /\ DOMAIN rows' = DOMAIN rows \cup {a}
      /\ \A b \in DOMAIN rows : rows'[b] = rows[b]
      /\ rows'[a].state = "pending" /\ rows'[a].required = rule.required
      /\ rows'[a].approvals = <<>>
  BY <1>2, <1>4 DEF Enqueue, DictPut
<1>8. /\ StatusSeen[a] = "pending_approval" /\ ReviewSeen[a] = "none"
      /\ ReviewSeen' = [ReviewSeen EXCEPT ![a] = "open"]
      /\ NeedSeen' = [NeedSeen EXCEPT ![a] = rule.required]
  BY <1>3, <1>4, <1>7 DEF StatusSeen, ReviewSeen, NeedSeen
<1>9. SignedSeen' = SignedSeen
  <2>1. Range(rows'[a].approvals) = {}
    BY <1>7, EmptyRange
  <2>2. QED BY <1>4, <1>7, <2>1 DEF SignedSeen
<1>10. QED BY <1>1, <1>2, <1>6, <1>8, <1>9, SeenStays DEF Lifecycle!OpenReview

\* A vote: the voter is new to the row, which is approved exactly when he is the
\* last its quorum lacked.
LEMMA SignStep ==
    ASSUME ThreadsInv, NEW th \in Threads, NEW a \in ActionIds, NEW v \in Approvers,
           NEW tn \in Tenants \cup {AnyTenant}, BeginApprove(th, a, v, tn)
    PROVE  Lifecycle!Sign(a)
<1>1. QueueInv /\ QueueInv' /\ PipelineTypeOK
  BY StepFacts DEF Begin
<1>2. /\ ApproveSingle(a, v) \/ ApproveFinal(a, v) \/ ApprovePartial(a, v)
      /\ actions' = actions /\ effects' = effects
  BY DEF BeginApprove, OnlyQueue
<1>3. /\ a \in DOMAIN rows /\ rows[a].state = "pending"
      /\ DOMAIN rows' = DOMAIN rows
      /\ \A b \in DOMAIN rows : b # a => rows'[b] = rows[b]
  BY <1>1, <1>2, OtherRowsStay DEF OpenPool, IsPending
<1>4. /\ rows'[a].approvals = Append(rows[a].approvals, v)
      /\ rows'[a].state \in {"pending", "approved"}
  BY <1>1, <1>2, DecisionOnRow
<1>5. rows[a].approvals \in Seq(Approvers) /\ rows'[a].approvals \in Seq(Approvers)
  BY <1>1, <1>3 DEF QueueInv, QueueTypeOK, Rows
<1> DEFINE old == rows[a].approvals
           new == rows'[a].approvals
<1>6. v \notin Range(old)
  <2>1. CASE ApproveSingle(a, v)
    <3>1. Len(old) < rows[a].required /\ rows[a].required <= 1
      BY <1>1, <1>3, <2>1 DEF ApproveSingle, QueueInv, QuorumExact
    <3>2. rows[a].required \in Nat /\ Len(old) \in Nat
      BY <1>1, <1>3, <1>5, LenProperties, QueueAssumption DEF QueueInv, QueueTypeOK, Rows
    <3>3. old = <<>>
      BY <1>5, <3>1, <3>2, EmptySeq
    <3>4. QED BY <3>3, EmptyRange
  <2>2. QED BY <1>2, <2>1 DEF ApproveFinal, ApprovePartial, MayVote, Voted
<1>7. /\ Range(new) = Range(old) \cup {v} /\ IsInjective(new)
      /\ Len(new) = Len(old) + 1 /\ Len(old) \in Nat /\ new # <<>>
  BY <1>1, <1>3, <1>4, <1>5, <1>6, AppendNew, AppendProperties, LenProperties
     DEF QueueInv, QuorumExact
<1>8. rows'[a].required = rows[a].required
  BY <1>1, <1>2, DecisionOnRow
<1>9. rows'[a].state = "approved" <=> Len(new) = rows[a].required
  <2>1. rows'[a].state # "approved" => Len(new) < rows[a].required
    BY <1>1, <1>3, <1>8 DEF QueueInv, QuorumExact
  <2>2. rows'[a].state = "approved" => Len(new) = rows[a].required
    BY <1>1, <1>3, <1>7, <1>8 DEF QueueInv, QuorumExact
  <2>3. QED BY <1>7, <2>1, <2>2
<1>10. Cardinality(Range(new)) = Len(new)
  BY <1>5, <1>7, VotesCounted
<1>11. PICK pool, n : pool = Range(old) \cup {v} /\ n = rows[a].required
  OBVIOUS
<1>12. /\ ReviewSeen[a] = "open" /\ SignedSeen[a] = Range(old) /\ NeedSeen[a] = n
       /\ SignedSeen' = [SignedSeen EXCEPT ![a] = pool]
       /\ NeedSeen' = NeedSeen
       /\ ReviewSeen' = [ReviewSeen EXCEPT ![a] = IF Cardinality(pool) = n
                                                  THEN "approved" ELSE "open"]
  <2>1. ReviewSeen[a] = "open" /\ SignedSeen[a] = Range(old) /\ NeedSeen[a] = n
    BY <1>3, <1>11 DEF ReviewSeen, SignedSeen, NeedSeen
  <2>2. SignedSeen' = [SignedSeen EXCEPT ![a] = pool]
    BY <1>3, <1>7, <1>11 DEF SignedSeen
  <2>3. NeedSeen' = NeedSeen
    BY <1>3, <1>8 DEF NeedSeen
  <2>4. ReviewSeen' = [ReviewSeen EXCEPT ![a] = IF Cardinality(pool) = n
                                                THEN "approved" ELSE "open"]
    <3>1. Cardinality(pool) = n <=> rows'[a].state = "approved"
      BY <1>7, <1>9, <1>10, <1>11
    <3>2. ReviewSeen'[a] = IF Cardinality(pool) = n THEN "approved" ELSE "open"
      BY <1>3, <1>4, <3>1 DEF ReviewSeen
    <3>3. \A b \in ActionIds : b # a => ReviewSeen'[b] = ReviewSeen[b]
      BY <1>3 DEF ReviewSeen
    <3>4. QED BY <3>2, <3>3 DEF ReviewSeen
  <2>5. QED BY <2>1, <2>2, <2>3, <2>4
<1>13. SignedSeen'[a] = pool /\ v \in Approvers \ SignedSeen[a]
       /\ SignedSeen' = [SignedSeen EXCEPT ![a] = @ \cup {v}]
  BY <1>6, <1>11, <1>12 DEF SignedSeen
<1>14. ReviewSeen' = [ReviewSeen EXCEPT ![a] = IF Cardinality(SignedSeen'[a]) = NeedSeen[a]
                                               THEN "approved" ELSE "open"]
  BY <1>12, <1>13
<1>15. StatusSeen' = StatusSeen /\ effects' = effects /\ NeedSeen' = NeedSeen
       /\ ReviewSeen[a] = "open"
  BY <1>2, <1>12, SeenStays
<1>16. \A S : Lifecycle!Cardinality(S) = Cardinality(S)
  BY DEF Lifecycle!Cardinality, Cardinality
<1>17. QED BY <1>13, <1>14, <1>15, <1>16 DEF Lifecycle!Sign

\* The veto in the queue is the refusal of the lifecycle.
LEMMA RefuseStep ==
    ASSUME ThreadsInv, NEW th \in Threads, NEW a \in ActionIds, NEW v \in Approvers,
           NEW tn \in Tenants \cup {AnyTenant}, BeginReject(th, a, v, tn)
    PROVE  Lifecycle!Refuse(a)
<1>1. QueueInv /\ Veto(a, v) /\ actions' = actions /\ effects' = effects
  BY StepFacts DEF Begin, BeginReject, OnlyQueue
<1>2. /\ a \in DOMAIN rows /\ rows[a].state = "pending"
      /\ DOMAIN rows' = DOMAIN rows
      /\ \A b \in DOMAIN rows : b # a => rows'[b] = rows[b]
  BY <1>1, OtherRowsStay DEF OpenPool, IsPending
<1>3. rows'[a].approvals = rows[a].approvals /\ rows'[a].state = "rejected"
  BY <1>1, DecisionOnRow
<1>4. rows'[a].required = rows[a].required
  BY <1>1, DecisionOnRow
<1>5. ReviewSeen[a] = "open" /\ ReviewSeen' = [ReviewSeen EXCEPT ![a] = "rejected"]
  BY <1>2, <1>3 DEF ReviewSeen
<1>6. NeedSeen' = NeedSeen /\ SignedSeen' = SignedSeen
  BY <1>2, <1>3, <1>4 DEF NeedSeen, SignedSeen
<1>7. QED BY <1>1, <1>5, <1>6, SeenStays DEF Lifecycle!Refuse

\* The call of the executor is its run.
LEMMA RunStep ==
    ASSUME ThreadsInv, NEW th \in Threads, Execute(th)
    PROVE  Lifecycle!Run(Its(th))
<1>1. PICK a : a = Its(th)
  OBVIOUS
<1>2. /\ pc[th] = "execute" /\ RunExecutor(a)
      /\ rows' = rows /\ actions' = actions
  BY <1>1 DEF Execute, queueVars
<1>3. /\ a \in ActionIds /\ a \in DOMAIN actions /\ PipelineTypeOK
      /\ ProposalStage(th) \/ ApprovalStage(th)
  BY <1>1, <1>2, Holder, StageAt DEF Locked, ThreadsInv, ThreadsTypeOK
<1>4. actions[a].status = "pending_exec" /\ effects[a] = 0
  BY <1>1, <1>2, <1>3
     DEF ProposalStage, ApprovalStage, Approved, Reviewed, DecidedAs, Shows
<1>5. effects' = [effects EXCEPT ![a] = 1]
  BY <1>2, <1>4 DEF RunExecutor
<1>6. StatusSeen[a] = "pending_exec"
  BY <1>3, <1>4 DEF StatusSeen
<1>7. QED BY <1>1, <1>2, <1>4, <1>5, <1>6, SeenStays DEF Lifecycle!Run

\* The outcome stored is its end.
LEMMA FinishStep ==
    ASSUME ThreadsInv, NEW th \in Threads, PutResult(th)
    PROVE  Lifecycle!Finish(Its(th))
<1>1. PICK a, to : /\ a = Its(th) /\ SetStatus(a, to) /\ OnlyActions /\ pc[th] = "ran"
                   /\ to \in {"executed", "execution_failed"}
  BY DEF PutResult, Continue, ExecStatus
<1>2. a \in DOMAIN actions /\ (ProposalStage(th) \/ ApprovalStage(th))
  BY <1>1, Holder, StageAt DEF Locked
<1>3. actions[a].status = "pending_exec" /\ effects[a] = 1
  BY <1>1, <1>2 DEF ProposalStage, ApprovalStage, Approved, Reviewed, DecidedAs, Shows
<1>4. Lifecycle!Move(a, "pending_exec", to)
  BY <1>1, <1>2, <1>3, StatusIsMove DEF Statuses
<1>5. QED BY <1>1, <1>3, <1>4 DEF Lifecycle!Finish

\* The action follows its review.
LEMMA FollowStep ==
    ASSUME ThreadsInv, NEW th \in Threads
    PROVE  /\ Promote(th) => Lifecycle!Promote(Its(th))
           /\ Withdraw(th) => Lifecycle!Withdraw(Its(th))
<1>1. ASSUME NEW a, a \in DOMAIN actions, NEW state \in {"approved", "rejected"}, NEW n,
             Reviewed(a, state, n, "pending_approval", 0)
      PROVE  ReviewSeen[a] = state /\ actions[a].status = "pending_approval"
  <2>1. a \in ActionIds
    BY <1>1 DEF ThreadsInv, ThreadsTypeOK, PipelineTypeOK
  <2>2. QED BY <1>1, <2>1 DEF ReviewSeen, Reviewed, Shows
<1>2. PICK a : a = Its(th)
  OBVIOUS
<1>3. ASSUME Promote(th)
      PROVE  Lifecycle!Promote(a)
  <2>1. /\ pc[th] = "promote" /\ SetStatus(a, "pending_exec") /\ OnlyActions
    BY <1>2, <1>3 DEF Promote, Continue
  <2>2. a \in DOMAIN actions /\ Approved(a, "pending_approval", 0)
    BY <1>2, <2>1, Holder, StageAt DEF Locked, ApprovalStage
  <2>3. ReviewSeen[a] = "approved" /\ actions[a].status = "pending_approval"
    BY <1>1, <2>2 DEF Approved
  <2>4. Lifecycle!Move(a, "pending_approval", "pending_exec")
    BY <2>1, <2>2, <2>3, StatusIsMove DEF Statuses
  <2>5. QED BY <2>3, <2>4 DEF Lifecycle!Promote
<1>4. ASSUME Withdraw(th)
      PROVE  Lifecycle!Withdraw(a)
  <2>1. /\ pc[th] = "withdraw" /\ SetStatus(a, "rejected") /\ OnlyActions
    BY <1>2, <1>4 DEF Withdraw, Return
  <2>2. a \in DOMAIN actions /\ Reviewed(a, "rejected", Votes(a) + 3, "pending_approval", 0)
    BY <1>2, <2>1, Holder, StageAt DEF Locked, RejectionStage
  <2>3. ReviewSeen[a] = "rejected" /\ actions[a].status = "pending_approval"
    BY <1>1, <2>2
  <2>4. Lifecycle!Move(a, "pending_approval", "rejected")
    BY <2>1, <2>2, <2>3, StatusIsMove DEF Statuses
  <2>5. QED BY <2>3, <2>4 DEF Lifecycle!Withdraw
<1>5. QED BY <1>2, <1>3, <1>4

\* Every step of the threads is one step of the lifecycle, or is not seen by it.
LEMMA LifecycleStep ==
    ASSUME ThreadsInv, [ThreadsNext]_allVars
    PROVE  [Lifecycle!Next]_(Lifecycle!lifecycleVars)
<1>1. ASSUME UNCHANGED <<rows, actions, effects>>
      PROVE  UNCHANGED Lifecycle!lifecycleVars
  BY <1>1, SeenStays DEF Lifecycle!lifecycleVars
<1>2. CASE UNCHANGED allVars
  BY <1>1, <1>2 DEF allVars, vars, pipelineVars
<1>3. ASSUME NEW t \in Tenants, Configure(t)
      PROVE  UNCHANGED Lifecycle!lifecycleVars
  BY <1>1, <1>3 DEF Configure, SetPolicies, SetQuorumRule, queueVars
<1>4. ASSUME NEW th \in Threads, Begin(th)
      PROVE  [Lifecycle!Next]_(Lifecycle!lifecycleVars)
  <2>1. ASSUME NEW a \in ActionIds, NEW t \in Tenants, NEW e \in Events,
               NEW ty \in ActionTypes, NEW by \in Planners,
               BeginProposal(th, a, t, e, ty, by)
        PROVE  Lifecycle!Next
    BY <2>1, MaterializeStep DEF Lifecycle!Next
  <2>2. ASSUME NEW a \in ActionIds, NEW v \in Approvers,
               NEW tn \in Tenants \cup {AnyTenant}, BeginApprove(th, a, v, tn)
        PROVE  Lifecycle!Next
    BY <2>2, SignStep DEF Lifecycle!Next
  <2>3. ASSUME NEW a \in ActionIds, NEW v \in Approvers,
               NEW tn \in Tenants \cup {AnyTenant}, BeginReject(th, a, v, tn)
        PROVE  Lifecycle!Next
    BY <2>3, RefuseStep DEF Lifecycle!Next
  <2>4. CASE vars' = vars
    BY <1>1, <2>4 DEF vars, pipelineVars
  <2>5. QED BY <1>4, <2>1, <2>2, <2>3, <2>4 DEF Begin, BeginGet, BeginList
<1>5. ASSUME NEW th \in Threads, Proceed(th)
      PROVE  [Lifecycle!Next]_(Lifecycle!lifecycleVars)
  <2> DEFINE Moves == \/ ApplyReject(th) \/ ApplyQueue(th) \/ ApplyAuto(th)
                      \/ EnqueueAction(th) \/ Execute(th) \/ PutResult(th)
                      \/ Promote(th) \/ Withdraw(th)
  <2>1. CASE Moves
    <3>1. Its(th) \in ActionIds
      BY <2>1, Holder DEF ApplyReject, ApplyQueue, ApplyAuto, EnqueueAction, Execute,
         PutResult, Promote, Withdraw, Continue, Return, Locked
    <3>2. Lifecycle!Next
      BY <2>1, <3>1, GateStep, OpenStep, RunStep, FinishStep, FollowStep
         DEF Lifecycle!Next
    <3>3. QED BY <3>2
  <2>2. CASE ~ Moves
    <3>1. UNCHANGED <<rows, actions, effects>>
      BY <1>5, <2>2 DEF Proceed, AuditProposal, DecidePolicy, AuditRefusal, IndexEvent,
         AuditResult, AuditApproval, AuditVeto, ViewTrail, ViewRow, ListGet, ListDone,
         EndCall, OnlyTrail, queueVars, vars, pipelineVars
    <3>2. QED BY <1>1, <3>1
  <2>3. QED BY <2>1, <2>2
<1>6. QED BY <1>2, <1>3, <1>4, <1>5 DEF ThreadsNext

\* Taken apart into store calls and run by any number of threads, the pipeline
\* still takes every action through the lifecycle the contracts document, one
\* documented step at a time (ImplementsLifecycle).
THEOREM ThreadsImplementLifecycle == ThreadsSpec => ImplementsLifecycle
<1>1. ThreadsInit => Lifecycle!Init
  BY DEF ThreadsInit, PipelineInit, QueueInit, Lifecycle!Init, StatusSeen, ReviewSeen,
         NeedSeen, SignedSeen
<1>2. ThreadsInv /\ [ThreadsNext]_allVars => [Lifecycle!Next]_(Lifecycle!lifecycleVars)
  BY LifecycleStep
<1>3. QED BY <1>1, <1>2, ThreadsCorrect, PTL DEF ThreadsSpec, ImplementsLifecycle,
          Lifecycle!Spec

-----------------------------------------------------------------------------
(* What a step leaves of the actions it does not work on, and what never    *)
(* goes back.                                                              *)

\* A step of a call touches the action of the handler it is a step of, if any.
LEMMA ProceedTouchesItsOwn ==
    ASSUME ThreadsInv, NEW th \in Threads, Proceed(th),
           NEW b \in ActionIds, pc[th] \in Locked => b # Its(th)
    PROVE  Untouched(b)
<1>1. CASE UNCHANGED vars
  BY <1>1 DEF vars, pipelineVars, Untouched
<1>2. CASE ~ UNCHANGED vars
  <2> DEFINE a == Its(th)
  <2>1. /\ pc[th] \in Locked
        /\ actions' = actions \/ \E status \in Statuses : SetStatus(a, status)
        /\ trail' = trail \/ \E entries \in Seq(AuditEntries) : Write(a, entries)
        /\ effects' = effects \/ RunExecutor(a)
    BY <1>2, ProceedWrites
  <2>2. b # a /\ a \in ActionIds /\ a \in DOMAIN actions /\ PipelineTypeOK
    BY <2>1, Holder DEF ThreadsInv, ThreadsTypeOK
  <2>3. /\ b \in DOMAIN actions' <=> b \in DOMAIN actions
        /\ b \in DOMAIN actions => actions'[b] = actions[b]
    BY <2>1, <2>2, StatusSet
  <2>4. trail'[b] = trail[b]
    BY <2>1, <2>2, WrittenAfter
  <2>5. effects'[b] = effects[b]
    BY <2>1, <2>2 DEF RunExecutor, PipelineTypeOK
  <2>6. rows' = rows \/ EnqueueAction(th)
    BY DEF Proceed, AuditProposal, DecidePolicy, ApplyReject, ApplyQueue, ApplyAuto,
           AuditRefusal, IndexEvent, Execute, PutResult, AuditResult, AuditApproval,
           Promote, AuditVeto, Withdraw, ViewTrail, ViewRow, ListGet, ListDone, EndCall,
           OnlyActions, OnlyTrail, queueVars, vars
  <2>7. /\ b \in DOMAIN rows' <=> b \in DOMAIN rows
        /\ b \in DOMAIN rows => rows'[b] = rows[b]
    BY <2>2, <2>6 DEF EnqueueAction, Enqueue, DictPut
  <2>8. QED BY <2>3, <2>4, <2>5, <2>7 DEF Untouched
<1>3. QED BY <1>1, <1>2

\* A call begins with an action that is new or that waits for its review.
LEMMA BeginTouchesOne ==
    ASSUME ThreadsInv, NEW th \in Threads, Begin(th),
           NEW b \in DOMAIN actions, ~ IsPending(b)
    PROVE  /\ Untouched(b)
           /\ lock' = lock \/ (lock' = th /\ job'[th].a # b)
<1>1. b \in ActionIds /\ QueueInv /\ PipelineTypeOK /\ Controlled
  BY DEF ThreadsInv, ThreadsTypeOK, PipelineTypeOK, Controlled
<1>2. ASSUME NEW a \in ActionIds, NEW t \in Tenants, NEW e \in Events,
             NEW ty \in ActionTypes, NEW by \in Planners, BeginProposal(th, a, t, e, ty, by)
      PROVE  Untouched(b) /\ lock' = th /\ job'[th].a # b
  <2>1. a # b
    BY <1>2 DEF BeginProposal
  <2>2. QED BY <1>1, <1>2, <2>1 DEF BeginProposal, Put, DictPut, OnlyActions, queueVars,
            Untouched, Acquire, Call, Controlled
<1>3. ASSUME NEW a \in ActionIds, NEW v \in Approvers, NEW tn \in Tenants \cup {AnyTenant},
             BeginApprove(th, a, v, tn) \/ BeginReject(th, a, v, tn)
      PROVE  Untouched(b) /\ lock' = th /\ job'[th].a # b
  <2>1. /\ \/ ApprovePartial(a, v) \/ ApproveSingle(a, v) \/ ApproveFinal(a, v) \/ Veto(a, v)
        /\ OnlyQueue
        /\ lock' = th
        /\ job'[th] = Call("approve", a, v) \/ job'[th] = Call("reject", a, v)
    BY <1>1, <1>3 DEF BeginApprove, BeginReject, Acquire, Controlled
  <2>2. /\ IsPending(a) /\ DOMAIN rows' = DOMAIN rows
        /\ \A c \in DOMAIN rows : c # a => rows'[c] = rows[c]
    BY <1>1, <2>1, OtherRowsStay DEF OpenPool
  <2>3. Untouched(b) /\ a # b
    BY <2>1, <2>2 DEF OnlyQueue, Untouched
  <2>4. QED BY <2>1, <2>3, CallTypes DEF OpenPool
<1>4. CASE vars' = vars /\ lock' = lock
  BY <1>4 DEF vars, pipelineVars, Untouched
<1>5. QED BY <1>2, <1>3, <1>4 DEF Begin, BeginGet, BeginList

\* An action on which no handler is at work and none will be.
Done(a) == a \in DOMAIN actions /\ ~ Busy(a) /\ ~ IsPending(a)

\* An action that has come to its end stays as it is.
LEMMA DoneStays ==
    ASSUME ThreadsInv, [ThreadsNext]_allVars, NEW a, Done(a)
    PROVE  Done(a)' /\ actions'[a] = actions[a]
<1>1. /\ a \in ActionIds /\ a \in DOMAIN actions /\ ~ IsPending(a) /\ Controlled
      /\ \A q \in Threads : lock = q => job[q].a # a
  BY DEF Done, ThreadsInv, ThreadsTypeOK, PipelineTypeOK, Controlled, Busy, Its
<1>2. ASSUME Untouched(a), \A q \in Threads : lock' = q => job'[q].a # a
      PROVE  Done(a)' /\ actions'[a] = actions[a]
  BY <1>1, <1>2 DEF Untouched, Done, IsPending, Busy, Its
<1>3. ASSUME UNCHANGED <<rows, actions, trail, effects, lock, job>>
      PROVE  Done(a)' /\ actions'[a] = actions[a]
  BY <1>1, <1>2, <1>3 DEF Untouched
<1>4. CASE UNCHANGED allVars
  BY <1>3, <1>4 DEF allVars, vars, pipelineVars, threadVars
<1>5. ASSUME NEW t \in Tenants, Configure(t), UNCHANGED threadVars
      PROVE  Done(a)' /\ actions'[a] = actions[a]
  BY <1>3, <1>5 DEF Configure, SetPolicies, SetQuorumRule, queueVars, threadVars
<1>6. ASSUME NEW th \in Threads, Begin(th)
      PROVE  Done(a)' /\ actions'[a] = actions[a]
  <2>1. Untouched(a) /\ (lock' = lock \/ (lock' = th /\ job'[th].a # a))
    BY <1>1, <1>6, BeginTouchesOne
  <2>2. /\ \A q \in Threads : q # th => job'[q] = job[q]
        /\ lock # th
    BY <1>1, <1>6, BeginMoves DEF Controlled
  <2>3. QED BY <1>1, <1>2, <2>1, <2>2
<1>7. ASSUME NEW th \in Threads, Proceed(th)
      PROVE  Done(a)' /\ actions'[a] = actions[a]
  <2>1. pc[th] \in Locked => a # Its(th)
    BY <1>1 DEF Controlled, Its
  <2>2. Untouched(a)
    BY <1>1, <1>7, <2>1, ProceedTouchesItsOwn
  <2>3. \A q \in Threads : q # th => job'[q] = job[q]
    BY <1>1, <1>7, ProceedMoves
  <2>4. lock' = th => lock = th /\ job'[th].a = job[th].a
    <3>1. CASE ViewTrail(th) \/ ViewRow(th) \/ ListGet(th) \/ ListDone(th) \/ EndCall(th)
      BY <1>1, <3>1 DEF ViewTrail, ViewRow, ListGet, ListDone, EndCall, Controlled, Locked
    <3>2. CASE ~ (ViewTrail(th) \/ ViewRow(th) \/ ListGet(th) \/ ListDone(th) \/ EndCall(th))
      <4>1. pc[th] \in Locked
        BY <1>7, <3>2
           DEF Proceed, AuditProposal, DecidePolicy, ApplyReject, ApplyQueue, ApplyAuto,
               AuditRefusal, EnqueueAction, IndexEvent, Execute, PutResult, AuditResult,
               AuditApproval, Promote, AuditVeto, Withdraw, Continue, Return, Locked
      <4>2. lock = th /\ job[th] \in Calls
        BY <4>1, Holder
      <4>3. lock' = Free \/ job'[th].a = job[th].a
        BY <1>1, <1>7, <3>2, <4>2
           DEF Controlled, Calls, Proceed, AuditProposal, DecidePolicy, ApplyReject,
               ApplyQueue, ApplyAuto, AuditRefusal, EnqueueAction, IndexEvent, Execute,
               PutResult, AuditResult, AuditApproval, Promote, AuditVeto, Withdraw,
               Continue, Return
      <4>4. QED BY <4>2, <4>3, ThreadsAssumption
    <3>3. QED BY <3>1, <3>2
  <2>5. \A q \in Threads : lock' = q => q = th \/ lock = q
    BY <1>7, ThreadsAssumption
       DEF Proceed, AuditProposal, DecidePolicy, ApplyReject, ApplyQueue,
           ApplyAuto, AuditRefusal, EnqueueAction, IndexEvent, Execute, PutResult,
           AuditResult, AuditApproval, Promote, AuditVeto, Withdraw, ViewTrail, ViewRow,
           ListGet, ListDone, EndCall, Continue, Return
  <2>6. QED BY <1>1, <1>2, <2>2, <2>3, <2>4, <2>5
<1>8. QED BY <1>4, <1>5, <1>6, <1>7 DEF ThreadsNext

\* A trail is only added to.
LEMMA TrailsGrow ==
    ASSUME ThreadsInv, [ThreadsNext]_allVars, NEW a \in ActionIds
    PROVE  /\ Len(trail[a]) \in Nat /\ Len(trail'[a]) \in Nat
           /\ Len(trail[a]) <= Len(trail'[a])
           /\ \A i \in 1..Len(trail[a]) : trail'[a][i] = trail[a][i]
<1>1. PipelineTypeOK /\ Len(trail[a]) \in Nat
  BY LenProperties DEF ThreadsInv, ThreadsTypeOK, PipelineTypeOK
<1>2. CASE trail' = trail
  BY <1>1, <1>2
<1>3. ASSUME NEW th \in Threads, Proceed(th), trail' # trail
      PROVE  /\ Len(trail'[a]) \in Nat /\ Len(trail[a]) <= Len(trail'[a])
             /\ \A i \in 1..Len(trail[a]) : trail'[a][i] = trail[a][i]
  <2>1. ~ UNCHANGED vars
    BY <1>3 DEF vars, pipelineVars
  <2>2. /\ pc[th] \in Locked
        /\ \E entries \in Seq(AuditEntries) : Write(Its(th), entries)
    BY <1>3, <2>1, ProceedWrites
  <2>3. PICK entries \in Seq(AuditEntries) : Write(Its(th), entries)
    BY <2>2
  <2>4. Its(th) \in ActionIds /\ Len(entries) \in Nat
    BY <2>2, Holder, LenProperties
  <2>5. /\ Its(th) = a => Len(trail'[a]) = Len(trail[a]) + Len(entries)
        /\ Its(th) = a => \A i \in 1..Len(trail[a]) : trail'[a][i] = trail[a][i]
        /\ Its(th) # a => trail'[a] = trail[a]
    BY <1>1, <2>3, <2>4, WrittenAfter
  <2>6. QED BY <1>1, <2>4, <2>5
<1>4. ASSUME NEW th \in Threads, Begin(th)
      PROVE  trail' = trail
  BY <1>4 DEF Begin, BeginProposal, BeginApprove, BeginReject, BeginGet, BeginList,
              OnlyActions, OnlyQueue, vars, pipelineVars
<1>5. UNCHANGED allVars => trail' = trail
  BY DEF allVars, vars, pipelineVars
<1>6. ASSUME NEW t \in Tenants, Configure(t)
      PROVE  trail' = trail
  BY <1>6 DEF Configure, SetPolicies, SetQuorumRule
<1>7. QED BY <1>2, <1>3, <1>4, <1>5, <1>6 DEF ThreadsNext

\* The review that is read later is not behind the status read before: what was
\* let through is approved, or never comes to a review.
ReviewFollows(a, status) ==
    /\ status \in LetThrough =>
           \/ ReviewSeen[a] = "approved"
           \/ ReviewSeen[a] = "none" /\ StatusSeen[a] \in LetThrough
    /\ status = "rejected" =>
           \/ ReviewSeen[a] = "rejected"
           \/ ReviewSeen[a] = "none" /\ StatusSeen[a] = "rejected"

\* The status of an action in the store is one its review follows,
LEMMA StatusFollowed ==
    ASSUME ThreadsInv, NEW a \in DOMAIN actions
    PROVE  ReviewFollows(a, actions[a].status)
<1>1. a \in ActionIds
  BY DEF ThreadsInv, ThreadsTypeOK, PipelineTypeOK
<1>2. CASE a \in DOMAIN rows
  BY <1>1, <1>2, RowTold DEF ReviewFollows, ReviewSeen, LetThrough
<1>3. CASE a \notin DOMAIN rows
  BY <1>1, <1>3 DEF ReviewFollows, ReviewSeen, StatusSeen
<1>4. QED BY <1>2, <1>3

\* and stays one: no step of the lifecycle takes a review or a vote back.
LEMMA FollowsStays ==
    ASSUME [Lifecycle!Next]_(Lifecycle!lifecycleVars), NEW a \in ActionIds
    PROVE  /\ \A status : ReviewFollows(a, status) => ReviewFollows(a, status)'
           /\ SignedSeen[a] \subseteq SignedSeen'[a]
<1> DEFINE Status == StatusSeen[a]
           Review == ReviewSeen[a]
<1>1. /\ DOMAIN StatusSeen = ActionIds /\ DOMAIN ReviewSeen = ActionIds
      /\ DOMAIN SignedSeen = ActionIds
  BY DEF StatusSeen, ReviewSeen, SignedSeen
<1>2. CASE UNCHANGED Lifecycle!lifecycleVars
  BY <1>2 DEF Lifecycle!lifecycleVars, ReviewFollows
<1>3. ASSUME NEW b \in ActionIds, NEW from, NEW to, Lifecycle!Move(b, from, to),
             from \in LetThrough => to \in LetThrough, from # "rejected"
      PROVE  /\ \A status : ReviewFollows(a, status) => ReviewFollows(a, status)'
             /\ SignedSeen[a] \subseteq SignedSeen'[a]
  <2>1. /\ ReviewSeen'[a] = Review /\ SignedSeen' = SignedSeen
        /\ Status \in LetThrough => StatusSeen'[a] \in LetThrough
        /\ Status = "rejected" => StatusSeen'[a] = "rejected"
    BY <1>1, <1>3 DEF Lifecycle!Move
  <2>2. QED BY <2>1 DEF ReviewFollows
<1>4. ASSUME NEW b \in ActionIds,
             Lifecycle!OpenReview(b) \/ Lifecycle!Sign(b) \/ Lifecycle!Refuse(b) \/ Lifecycle!Run(b)
      PROVE  /\ \A status : ReviewFollows(a, status) => ReviewFollows(a, status)'
             /\ SignedSeen[a] \subseteq SignedSeen'[a]
  <2>1. /\ StatusSeen' = StatusSeen
        /\ SignedSeen[a] \subseteq SignedSeen'[a]
        /\ Review \in {"approved", "rejected"} => ReviewSeen'[a] = Review
        /\ Review = "none" => ReviewSeen'[a] = "none" \/ Status = "pending_approval"
    BY <1>1, <1>4 DEF Lifecycle!OpenReview, Lifecycle!Sign, Lifecycle!Refuse, Lifecycle!Run
  <2>2. QED BY <2>1 DEF ReviewFollows, LetThrough
<1>5. ASSUME NEW b \in ActionIds,
             \/ Lifecycle!Materialize(b) \/ Lifecycle!Gate(b) \/ Lifecycle!Promote(b)
             \/ Lifecycle!Withdraw(b) \/ Lifecycle!Finish(b)
      PROVE  \E from, to : /\ Lifecycle!Move(b, from, to)
                           /\ from \in LetThrough => to \in LetThrough
                           /\ from # "rejected"
  BY <1>5 DEF Lifecycle!Materialize, Lifecycle!Gate, Lifecycle!Promote, Lifecycle!Withdraw,
              Lifecycle!Finish, LetThrough
<1>6. QED BY <1>2, <1>3, <1>4, <1>5 DEF Lifecycle!Next

\* The trail of an action that is done with ends with the row that tells its status.
LEMMA TrailTells ==
    ASSUME ThreadsInv, NEW a, Done(a)
    PROVE  StatusTold(Last(trail[a])) = actions[a].status
<1>1. a \in ActionIds /\ a \in DOMAIN actions /\ QueueInv /\ PipelineTypeOK /\ Settled(a)
  BY DEF Done, ThreadsInv, ThreadsTypeOK, PipelineTypeOK
<1>2. actions[a].status = StatusTold(trail[a][Len(trail[a])])
  BY <1>1, StatusOnRecord DEF Settled
<1>3. QED BY <1>2 DEF Last

-----------------------------------------------------------------------------
(* What a caller is told.  A response is put together after the lock is    *)
(* let go, from an action, a trail and a row read one after another.       *)

Replies == [op     : {"get", "approve", "reject"},
            a      : ActionIds,
            v      : OpenPool,
            status : Statuses,
            trail  : Seq(AuditEntries),
            review : RowStates \cup {"none"},
            votes  : Seq(Approvers)]

Listings == [op  : {"list"},
             t   : Tenants,
             ids : Seq(ActionIds),
             got : Seq([a : ActionIds, status : Statuses])]

\* The row that records the decision the response answers.
DecisionIn(r, log) ==
    \E i \in 1..Len(log) :
        /\ log[i].actor = r.v
        /\ log[i].kind = IF r.op = "approve" THEN "approval" ELSE "rejection"

\* What makes it safe to read the row later, and the trail later.
ToRead(r) ==
    /\ r \in Replies
    /\ r.review = "none"
    /\ ReviewFollows(r.a, r.status)
    /\ r.op = "approve" => r.v \in SignedSeen[r.a]

TrailToRead(r) ==
    r.op # "get" => /\ DecisionIn(r, trail[r.a])
                    /\ r.status # "pending_approval" =>
                           Done(r.a) /\ actions[r.a].status = r.status

\* What the trail and the row, once read, show.
TrailRead(r) ==
    r.op # "get" => /\ DecisionIn(r, r.trail)
                    /\ r.status # "pending_approval" => StatusTold(Last(r.trail)) = r.status

RowRead(r) ==
    /\ r \in Replies
    /\ r.op = "approve" => r.v \in Range(r.votes)
    /\ r.status \in LetThrough => r.review \in {"none", "approved"}
    /\ r.status = "rejected" => r.review \in {"none", "rejected"}

ReplyInv(th) ==
    LET r == job[th] IN
    /\ pc[th] \in Locked => (r.op = "approve" => r.v \in SignedSeen[r.a])
    /\ pc[th] = "trail" => ToRead(r) /\ TrailToRead(r)
    /\ pc[th] = "row" => ToRead(r) /\ TrailRead(r)
    /\ pc[th] = "list" => r \in Listings
    /\ pc[th] = "replied" => r.op = "list" \/ (TrailRead(r) /\ RowRead(r))

RepliesInv == \A th \in Threads : ReplyInv(th)

\* What a caller waits to be told stays true whatever the threads do meanwhile.
LEMMA ReplyStays ==
    ASSUME ThreadsInv, [ThreadsNext]_allVars, NEW r, r \in Replies
    PROVE  /\ ToRead(r) => ToRead(r)'
           /\ TrailToRead(r) => TrailToRead(r)'
<1> DEFINE a == r.a
<1>1. a \in ActionIds
  BY DEF Replies
<1>2. ToRead(r) => ToRead(r)'
  BY <1>1, LifecycleStep, FollowsStays DEF ToRead
<1>3. DecisionIn(r, trail[a]) => DecisionIn(r, trail'[a])
  <2>1. /\ Len(trail[a]) \in Nat /\ Len(trail'[a]) \in Nat
        /\ Len(trail[a]) <= Len(trail'[a])
        /\ \A i \in 1..Len(trail[a]) : trail'[a][i] = trail[a][i]
    BY <1>1, TrailsGrow
  <2>2. QED BY <2>1 DEF DecisionIn
<1>4. Done(a) => Done(a)' /\ actions'[a] = actions[a]
  BY DoneStays
<1>5. QED BY <1>2, <1>3, <1>4 DEF TrailToRead

\* So a thread that makes no move keeps its part of the invariant.
LEMMA ReplyInvStays ==
    ASSUME ThreadsInv, [ThreadsNext]_allVars, NEW q \in Threads, ReplyInv(q),
           pc'[q] = pc[q], job'[q] = job[q]
    PROVE  ReplyInv(q)'
<1>1. PICK r : r = job[q]
  OBVIOUS
<1>2. CASE pc[q] \in Locked
  <2>1. r \in Calls
    BY <1>1, <1>2, Holder
  <2>2. r.a \in ActionIds
    BY <2>1 DEF Calls
  <2>3. SignedSeen[r.a] \subseteq SignedSeen'[r.a]
    BY <2>2, LifecycleStep, FollowsStays
  <2>4. pc'[q] \in Locked => (r.op = "approve" => r.v \in SignedSeen'[r.a])
    BY <1>1, <2>3 DEF ReplyInv
  <2>5. QED BY <1>1, <1>2, <2>4 DEF ReplyInv, Locked
<1>3. CASE pc[q] \in {"trail", "row"}
  <2>1. /\ r \in Replies /\ ToRead(r)
        /\ pc[q] = "trail" => TrailToRead(r)
        /\ pc[q] = "row" => TrailRead(r)
    BY <1>1, <1>3 DEF ReplyInv, ToRead
  <2>2. ToRead(r)' /\ (pc[q] = "trail" => TrailToRead(r)')
    BY <2>1, ReplyStays
  <2>3. pc'[q] = pc[q] /\ job'[q] = r
    BY <1>1
  <2>4. ToRead(job[q])' /\ (pc[q] = "trail" => TrailToRead(job[q])')
    BY <2>2, <2>3 DEF ToRead, TrailToRead, ReviewFollows, DecisionIn, Done, Busy, IsPending, Its
  <2>5. pc[q] = "row" => TrailRead(job[q])'
    BY <2>1, <2>3 DEF TrailRead, DecisionIn
  <2>6. QED BY <1>3, <2>3, <2>4, <2>5 DEF ReplyInv, Locked
<1>4. CASE pc[q] \notin Locked \cup {"trail", "row"}
  BY <1>4 DEF ReplyInv, TrailRead, RowRead, DecisionIn
<1>5. QED BY <1>2, <1>3, <1>4

\* A reply as the handler, or get_action, starts it.
LEMMA ReplyStarts ==
    ASSUME ThreadsInv, [ThreadsNext]_allVars, NEW a \in DOMAIN actions,
           NEW op \in {"get", "approve"}, NEW v \in OpenPool,
           op = "approve" => v \in SignedSeen[a],
           NEW r, r = Reply(op, a, v)
    PROVE  /\ r \in Replies /\ ToRead(r)'
           /\ r.op = op /\ r.a = a /\ r.v = v /\ r.status = actions[a].status
<1>1. a \in ActionIds /\ actions[a].status \in Statuses
  BY DEF ThreadsInv, ThreadsTypeOK, PipelineTypeOK, ActionRecords
<1>2. r = [op |-> op, a |-> a, v |-> v, status |-> actions[a].status,
           trail |-> <<>>, review |-> "none", votes |-> <<>>]
  BY DEF Reply
<1>3. /\ r \in Replies /\ r.review = "none"
      /\ r.op = op /\ r.a = a /\ r.v = v /\ r.status = actions[a].status
  BY <1>1, <1>2 DEF Replies
<1>4. ToRead(r)
  BY <1>3, StatusFollowed DEF ToRead
<1>5. QED BY <1>3, <1>4, ReplyStays

\* A call that begins: the vote of an approval is in the row from the first step on.
LEMMA ReplyBegins ==
    ASSUME ThreadsInv, NEW th \in Threads, Begin(th)
    PROVE  ReplyInv(th)'
<1>1. Controlled /\ QueueInv /\ QueueInv' /\ [ThreadsNext]_allVars
  BY StepFacts DEF ThreadsNext
<1>2. ASSUME NEW a \in ActionIds, NEW t \in Tenants, NEW e \in Events, NEW ty \in ActionTypes,
             NEW by \in Planners, BeginProposal(th, a, t, e, ty, by)
      PROVE  ReplyInv(th)'
  <2>1. pc'[th] = "proposal" /\ job'[th].op = "propose"
    BY <1>1, <1>2 DEF BeginProposal, Acquire, Goto, Controlled, Call
  <2>2. QED BY <2>1 DEF ReplyInv
<1>3. ASSUME NEW a \in ActionIds, NEW v \in Approvers, NEW tn \in Tenants \cup {AnyTenant},
             BeginApprove(th, a, v, tn)
      PROVE  ReplyInv(th)'
  <2>1. pc'[th] = "signed" /\ job'[th] = Call("approve", a, v)
    BY <1>1, <1>3 DEF BeginApprove, Acquire, Goto, Controlled
  <2>2. job'[th].a = a /\ job'[th].v = v
    BY <2>1, CallTypes DEF OpenPool
  <2>3. ApproveSingle(a, v) \/ ApproveFinal(a, v) \/ ApprovePartial(a, v)
    BY <1>3 DEF BeginApprove
  <2>4. a \in DOMAIN rows /\ DOMAIN rows' = DOMAIN rows
        /\ rows'[a].approvals = Append(rows[a].approvals, v)
    BY <1>1, <2>3, OtherRowsStay, DecisionOnRow DEF OpenPool
  <2>5. rows[a].approvals \in Seq(Approvers)
    BY <1>1, <2>4 DEF QueueInv, QueueTypeOK, Rows
  <2>6. v \in Range(rows'[a].approvals)
    <3> DEFINE old == rows[a].approvals
               new == rows'[a].approvals
    <3>1. /\ new \in Seq(Approvers) /\ Len(old) \in Nat /\ Len(new) = Len(old) + 1
          /\ new[Len(old) + 1] = v
      BY <2>4, <2>5, AppendProperties, LenProperties
    <3> HIDE DEF old, new
    <3>2. Len(old) + 1 \in 1..Len(new) /\ DOMAIN new = 1..Len(new)
      BY <3>1, LenProperties
    <3>3. QED BY <3>1, <3>2 DEF Range, new
  <2>7. v \in SignedSeen'[a]
    BY <2>4, <2>6 DEF SignedSeen
  <2>8. QED BY <2>1, <2>2, <2>7 DEF ReplyInv
<1>4. ASSUME NEW a \in ActionIds, NEW v \in Approvers, NEW tn \in Tenants \cup {AnyTenant},
             BeginReject(th, a, v, tn)
      PROVE  ReplyInv(th)'
  <2>1. pc'[th] = "vetoed" /\ job'[th] = Call("reject", a, v)
    BY <1>1, <1>4 DEF BeginReject, Acquire, Goto, Controlled
  <2>2. job'[th].op = "reject"
    BY <2>1, CallTypes DEF OpenPool
  <2>3. QED BY <2>1, <2>2 DEF ReplyInv
<1>5. ASSUME NEW a \in ActionIds, NEW tn \in Tenants \cup {AnyTenant}, BeginGet(th, a, tn)
      PROVE  ReplyInv(th)'
  <2>1. PICK r : r = Reply("get", a, Nobody)
    OBVIOUS
  <2>2. pc'[th] = "trail" /\ job'[th] = r /\ a \in DOMAIN actions
    BY <1>1, <1>5, <2>1 DEF BeginGet, Goto, Controlled, Visible
  <2>3. ToRead(r)' /\ r.op = "get"
    BY <1>1, <2>1, <2>2, ReplyStarts DEF OpenPool
  <2>4. ToRead(job[th])' /\ TrailToRead(job[th])'
    BY <2>2, <2>3 DEF ToRead, TrailToRead, ReviewFollows
  <2>5. QED BY <2>2, <2>4 DEF ReplyInv, Locked
<1>6. ASSUME NEW t \in Tenants, BeginList(th, t)
      PROVE  ReplyInv(th)'
  <2>1. pc'[th] = "list" /\ job'[th] \in Listings
    <3>1. pendingByTenant[t] \in Seq(ActionIds)
      BY <1>1 DEF QueueInv, QueueTypeOK
    <3>2. QED BY <1>1, <1>6, <3>1 DEF BeginList, Goto, Controlled, Listings
  <2>2. QED BY <2>1 DEF ReplyInv, Locked
<1>7. QED BY <1>2, <1>3, <1>4, <1>5, <1>6 DEF Begin

\* A handler returns: the response it starts has what ToRead and TrailToRead ask.
LEMMA ReplyHandedOver ==
    ASSUME NEW th \in Threads, NEW r, pc'[th] = "trail", job'[th] = r,
           ToRead(r)', TrailToRead(r)'
    PROVE  ReplyInv(th)'
<1>1. ToRead(job[th])' /\ TrailToRead(job[th])'
  BY DEF ToRead, TrailToRead, ReviewFollows, DecisionIn, Done, Busy, IsPending, Its
<1>2. QED BY <1>1 DEF ReplyInv, Locked

\* With the vote in the row and every vote of the row in the trail, the trail
\* holds the row the approver is to be shown.
LEMMA VoteInTrail ==
    ASSUME ThreadsInv, NEW a \in ActionIds, NEW status, NEW calls,
           Approved(a, status, calls), NEW v \in SignedSeen[a],
           NEW r, r.op = "approve", r.v = v
    PROVE  DecisionIn(r, trail[a])
<1>1. a \in DOMAIN rows
  BY DEF Approved, Reviewed
<1>2. rows[a].approvals \in Seq(Approvers) /\ Votes(a) \in Nat
  BY <1>1, VotesNat DEF ThreadsInv
<1>3. PICK i \in 1..Votes(a) : rows[a].approvals[i] = v
  BY <1>1, <1>2, LenProperties DEF SignedSeen, Range, Votes
<1>4. /\ Len(trail[a]) = Votes(a) + 2
      /\ trail[a][i + 2].kind = "approval" /\ trail[a][i + 2].actor = v
  BY <1>2, <1>3 DEF Approved, Reviewed
<1>5. i + 2 \in 1..Len(trail[a])
  BY <1>2, <1>4
<1>6. QED BY <1>4, <1>5 DEF DecisionIn

\* The approval that filled the quorum returns when its outcome is in the trail.
LEMMA AuditResultReplies ==
    ASSUME ThreadsInv, NEW th \in Threads, ReplyInv(th), AuditResult(th),
           job[th].op # "propose"
    PROVE  ReplyInv(th)'
<1>1. PICK a, v, r : a = Its(th) /\ v = job[th].v /\ r = Reply("approve", a, v)
  OBVIOUS
<1>2. Proceed(th) /\ [ThreadsNext]_allVars
  BY DEF Proceed, ThreadsNext
<1>3. Controlled /\ Controlled'
  BY <1>2, StepFacts
<1>4. /\ pc[th] = "report" /\ Return(th, "report", r)
      /\ rows' = rows /\ actions' = actions
  BY <1>1 DEF AuditResult, OnlyTrail, queueVars
<1>5. r # NoJob
  BY <1>1 DEF Reply, NoJob
<1>6. pc'[th] = "trail" /\ job'[th] = r /\ lock' = Free
  BY <1>3, <1>4, <1>5 DEF Return, Goto, Controlled
<1>7. /\ a \in ActionIds /\ a \in DOMAIN actions /\ job[th] \in Calls
      /\ job[th].op = "approve" /\ ApprovalStage(th)
  BY <1>1, <1>4, Holder, StageAt DEF Locked
<1>8. Approved(a, ExecStatus(job[th].ok), 1)
  BY <1>1, <1>4, <1>7 DEF ApprovalStage
<1>9. v \in SignedSeen[a] /\ v \in OpenPool
  BY <1>1, <1>4, <1>7 DEF ReplyInv, Locked, Its, Calls
<1>10. /\ r \in Replies /\ ToRead(r)'
       /\ r.op = "approve" /\ r.a = a /\ r.v = v /\ r.status = actions[a].status
  BY <1>1, <1>2, <1>7, <1>9, ReplyStarts
<1>11. DecisionIn(r, trail'[a])
  <2>1. DecisionIn(r, trail[a])
    BY <1>7, <1>8, <1>9, <1>10, VoteInTrail
  <2>2. /\ Len(trail[a]) \in Nat /\ Len(trail'[a]) \in Nat
        /\ Len(trail[a]) <= Len(trail'[a])
        /\ \A i \in 1..Len(trail[a]) : trail'[a][i] = trail[a][i]
    BY <1>2, <1>7, TrailsGrow
  <2>3. QED BY <2>1, <2>2 DEF DecisionIn
<1>12. Done(a)'
  <2>1. rows[a].state = "approved"
    BY <1>8 DEF Approved, Reviewed
  <2>2. QED BY <1>4, <1>6, <1>7, <2>1, ThreadsAssumption DEF Done, Busy, IsPending
<1>13. TrailToRead(r)'
  BY <1>4, <1>10, <1>11, <1>12 DEF TrailToRead
<1>14. QED BY <1>6, <1>10, <1>13, ReplyHandedOver

\* A vote short of the quorum returns as soon as it is in the trail.
LEMMA AuditApprovalReplies ==
    ASSUME ThreadsInv, NEW th \in Threads, ReplyInv(th), AuditApproval(th),
           rows[Its(th)].state # "approved"
    PROVE  ReplyInv(th)'
<1>1. PICK a, v, r : a = Its(th) /\ v = job[th].v /\ r = Reply("approve", a, v)
  OBVIOUS
<1>2. Proceed(th) /\ [ThreadsNext]_allVars
  BY DEF Proceed, ThreadsNext
<1>3. Controlled /\ Controlled' /\ QueueInv
  BY <1>2, StepFacts
<1> DEFINE entry == Signed(v, Votes(a), "quorum_open")
<1>4. /\ pc[th] = "signed" /\ Return(th, "signed", r)
      /\ Write(a, <<entry>>) /\ OnlyTrail
  BY <1>1 DEF AuditApproval, Votes
<1>5. r # NoJob
  BY <1>1 DEF Reply, NoJob
<1>6. pc'[th] = "trail" /\ job'[th] = r
  BY <1>3, <1>4, <1>5 DEF Return, Goto, Controlled
<1>7. /\ a \in ActionIds /\ a \in DOMAIN actions /\ job[th] \in Calls
      /\ job[th].op = "approve" /\ ApprovalStage(th)
  BY <1>1, <1>4, Holder, StageAt DEF Locked
<1>8. a \in DOMAIN rows /\ actions[a].status = "pending_approval"
  BY <1>1, <1>4, <1>7 DEF ApprovalStage, Reviewed, Shows
<1>9. v \in SignedSeen[a] /\ v \in OpenPool
  BY <1>1, <1>4, <1>7 DEF ReplyInv, Locked, Its, Calls
<1>10. /\ r \in Replies /\ ToRead(r)'
       /\ r.op = "approve" /\ r.a = a /\ r.v = v /\ r.status = actions[a].status
  BY <1>1, <1>2, <1>7, <1>9, ReplyStarts
<1>11. DecisionIn(r, trail'[a])
  <2>1. entry \in AuditEntries
    <3>1. Votes(a) \in Nat
      BY <1>3, <1>8, VotesNat
    <3>2. QED BY <1>9, <3>1, EntryTypes
  <2>2. /\ Len(trail[a]) \in Nat /\ Len(trail'[a]) = Len(trail[a]) + 1
        /\ trail'[a][Len(trail[a]) + 1] = entry
    BY <1>4, <1>7, <2>1, HolderWrites
  <2>3. entry.actor = v /\ entry.kind = "approval"
    BY DEF Signed
  <2>4. Len(trail[a]) + 1 \in 1..Len(trail'[a])
    BY <2>2
  <2>5. QED BY <1>10, <2>2, <2>3, <2>4 DEF DecisionIn
<1>12. TrailToRead(r)'
  BY <1>8, <1>10, <1>11 DEF TrailToRead
<1>13. QED BY <1>6, <1>10, <1>12, ReplyHandedOver

\* A rejection returns when the store and the trail both tell it.
LEMMA WithdrawReplies ==
    ASSUME ThreadsInv, NEW th \in Threads, Withdraw(th)
    PROVE  ReplyInv(th)'
<1>1. PICK a, v, r : /\ a = Its(th) /\ v = job[th].v
                     /\ r = [Reply("reject", Its(th), job[th].v)
                                  EXCEPT !.status = "rejected"]
  OBVIOUS
<1>2. Proceed(th) /\ [ThreadsNext]_allVars
  BY DEF Proceed, ThreadsNext
<1>3. Controlled /\ QueueInv
  BY <1>2, StepFacts
<1>4. /\ pc[th] = "withdraw" /\ Return(th, "withdraw", r)
      /\ SetStatus(a, "rejected") /\ OnlyActions
  <2>1. Return(th, "withdraw", r) /\ SetStatus(a, "rejected") /\ OnlyActions
    BY <1>1 DEF Withdraw
  <2>2. QED BY <2>1 DEF Return
<1>5. r = [op |-> "reject", a |-> a, v |-> v, status |-> "rejected",
           trail |-> <<>>, review |-> "none", votes |-> <<>>]
  BY <1>1 DEF Reply
<1>6. r # NoJob
  BY <1>5 DEF NoJob
<1>7. pc'[th] = "trail" /\ job'[th] = r /\ lock' = Free
  BY <1>3, <1>4, <1>6 DEF Return, Goto, Controlled
<1>8. /\ a \in ActionIds /\ a \in DOMAIN actions /\ job[th] \in Calls /\ RejectionStage(th)
  BY <1>1, <1>4, Holder, StageAt DEF Locked
<1>9. /\ a \in DOMAIN rows /\ rows[a].state = "rejected"
      /\ Len(trail[a]) = Votes(a) + 3 /\ trail[a][Votes(a) + 3] = Rejected(v)
  BY <1>1, <1>4, <1>8 DEF RejectionStage, Reviewed
<1>10. /\ r \in Replies /\ r.op = "reject" /\ r.a = a /\ r.v = v /\ r.status = "rejected"
       /\ r.review = "none"
  <2>1. v \in OpenPool /\ "rejected" \in Statuses
    BY <1>1, <1>8 DEF Calls, Statuses
  <2>2. QED BY <1>5, <1>8, <2>1 DEF Replies
<1>11. ToRead(r)'
  <2>1. ReviewSeen[a] = "rejected"
    BY <1>8, <1>9 DEF ReviewSeen
  <2>2. ReviewFollows(a, r.status)
    BY <1>10, <2>1 DEF ReviewFollows, LetThrough
  <2>3. ToRead(r)
    BY <1>10, <2>2 DEF ToRead
  <2>4. QED BY <1>2, <1>10, <2>3, ReplyStays
<1>12. /\ rows' = rows /\ trail' = trail /\ a \in DOMAIN actions'
       /\ actions'[a].status = "rejected"
  BY <1>4, <1>8, HolderSets DEF Statuses
<1>13. DecisionIn(r, trail'[a])
  <2>1. Votes(a) \in Nat
    BY <1>3, <1>9, VotesNat
  <2>2. Votes(a) + 3 \in 1..Len(trail'[a])
    BY <1>9, <1>12, <2>1
  <2>3. Rejected(v).actor = v /\ Rejected(v).kind = "rejection"
    BY DEF Rejected
  <2>4. QED BY <1>9, <1>10, <1>12, <2>2, <2>3 DEF DecisionIn
<1>14. Done(a)'
  BY <1>7, <1>9, <1>12, ThreadsAssumption DEF Done, Busy, IsPending
<1>15. TrailToRead(r)'
  BY <1>10, <1>12, <1>13, <1>14 DEF TrailToRead
<1>16. QED BY <1>7, <1>11, <1>15, ReplyHandedOver

\* A handler that goes on keeps its vote in the row.
LEMMA ReplyGoesOn ==
    ASSUME ThreadsInv, [ThreadsNext]_allVars, NEW th \in Threads, ReplyInv(th),
           pc[th] \in Locked, pc'[th] \in Locked,
           job'[th].op = job[th].op, job'[th].a = job[th].a, job'[th].v = job[th].v
    PROVE  ReplyInv(th)'
<1>1. PICK a : a = job[th].a
  OBVIOUS
<1>2. a \in ActionIds
  BY <1>1, Holder DEF Its
<1>3. SignedSeen[a] \subseteq SignedSeen'[a]
  BY <1>2, LifecycleStep, FollowsStays
<1>4. job[th].op = "approve" => job[th].v \in SignedSeen[a]
  BY <1>1 DEF ReplyInv
<1>5. job'[th].op = "approve" => job'[th].v \in SignedSeen'[job'[th].a]
  BY <1>1, <1>3, <1>4
<1>6. QED BY <1>5 DEF ReplyInv, Locked

\* The step after the trail is read, and the step after the row is.
LEMMA ViewTrailReplies ==
    ASSUME ThreadsInv, NEW th \in Threads, ReplyInv(th), ViewTrail(th)
    PROVE  ReplyInv(th)'
<1>1. PICK r, s : r = job[th] /\ s = [r EXCEPT !.trail = trail[r.a]]
  OBVIOUS
<1>2. Controlled /\ PipelineTypeOK /\ [ThreadsNext]_allVars
  BY StepFacts DEF Proceed, ThreadsNext
<1>3. /\ pc[th] = "trail" /\ pc'[th] = "row" /\ job'[th] = s
      /\ UNCHANGED <<rows, actions>>
  BY <1>1, <1>2 DEF ViewTrail, Goto, Controlled, Its, vars, pipelineVars
<1>4. ToRead(r) /\ TrailToRead(r) /\ r \in Replies
  BY <1>1, <1>3 DEF ReplyInv, ToRead
<1>5. trail[r.a] \in Seq(AuditEntries)
  BY <1>2, <1>4 DEF Replies, PipelineTypeOK
<1>6. /\ s \in Replies /\ s.trail = trail[r.a]
      /\ s.op = r.op /\ s.a = r.a /\ s.v = r.v /\ s.status = r.status
      /\ s.review = r.review
  BY <1>1, <1>4, <1>5 DEF Replies
<1>7. TrailRead(s)
  <2>1. DecisionIn(r, trail[r.a]) => DecisionIn(s, s.trail)
    BY <1>6 DEF DecisionIn
  <2>2. Done(r.a) => StatusTold(Last(trail[r.a])) = actions[r.a].status
    BY TrailTells
  <2>3. QED BY <1>4, <1>6, <2>1, <2>2 DEF TrailToRead, TrailRead
<1>8. ToRead(s)'
  <2>1. ToRead(s)
    BY <1>4, <1>6 DEF ToRead
  <2>2. QED BY <1>2, <1>6, <2>1, ReplyStays
<1>9. ToRead(job[th])' /\ TrailRead(job[th])'
  BY <1>3, <1>7, <1>8 DEF ToRead, ReviewFollows, TrailRead, DecisionIn
<1>10. QED BY <1>3, <1>9 DEF ReplyInv, Locked

\* A reply that takes in the row of the queue is still current.
LEMMA ViewRowReplies ==
    ASSUME ThreadsInv, NEW th \in Threads, ReplyInv(th), ViewRow(th)
    PROVE  ReplyInv(th)'
<1>1. PICK r, a, s : /\ r = job[th] /\ a = r.a
                     /\ s = IF a \in DOMAIN rows
                            THEN [r EXCEPT !.review = rows[a].state,
                                           !.votes = rows[a].approvals]
                            ELSE r
  OBVIOUS
<1>2. Controlled /\ QueueInv
  BY StepFacts DEF Proceed
<1>3. /\ pc[th] = "row" /\ pc'[th] = "replied" /\ job'[th] = s
  BY <1>1, <1>2 DEF ViewRow, Goto, Controlled, Its
<1>4. ToRead(r) /\ TrailRead(r) /\ r \in Replies /\ a \in ActionIds
  BY <1>1, <1>3 DEF ReplyInv, ToRead, Replies
<1>5. a \in DOMAIN rows => /\ rows[a].state \in RowStates
                           /\ rows[a].approvals \in Seq(Approvers)
  BY <1>2 DEF QueueInv, QueueTypeOK, Rows
<1>6. /\ s \in Replies
      /\ s.op = r.op /\ s.a = a /\ s.v = r.v /\ s.status = r.status /\ s.trail = r.trail
      /\ a \in DOMAIN rows => s.review = rows[a].state /\ s.votes = rows[a].approvals
      /\ a \notin DOMAIN rows => s.review = "none"
  BY <1>1, <1>4, <1>5 DEF Replies, ToRead
<1>7. TrailRead(s)
  BY <1>4, <1>6 DEF TrailRead, DecisionIn
<1>8. RowRead(s)
  <2>1. s.op = "approve" => s.v \in Range(s.votes)
    BY <1>1, <1>4, <1>6 DEF ToRead, SignedSeen
  <2>2. ReviewFollows(a, s.status)
    BY <1>1, <1>4, <1>6 DEF ToRead
  <2>3. /\ ReviewSeen[a] = "approved" => s.review = "approved"
        /\ ReviewSeen[a] = "rejected" => s.review = "rejected"
        /\ ReviewSeen[a] = "none" => s.review = "none"
    BY <1>4, <1>5, <1>6 DEF ReviewSeen, RowStates
  <2>4. QED BY <1>6, <2>1, <2>2, <2>3 DEF RowRead, ReviewFollows
<1>9. TrailRead(job[th])' /\ RowRead(job[th])'
  BY <1>3, <1>7, <1>8 DEF TrailRead, RowRead, DecisionIn
<1>10. QED BY <1>3, <1>9 DEF ReplyInv, Locked

\* list_pending_actions takes the action of the first id it still has to get.
LEMMA ListGets ==
    ASSUME ThreadsInv, NEW th \in Threads, job[th] \in Listings, ListGet(th),
           NEW l, l = job[th]
    PROVE  /\ pc' = pc /\ UNCHANGED vars
           /\ l.ids # <<>> /\ job'[th] \in Listings
           /\ job'[th].t = l.t /\ job'[th].ids = Tail(l.ids)
           /\ Head(l.ids) \notin DOMAIN actions => job'[th].got = l.got
           /\ Head(l.ids) \in DOMAIN actions =>
                  \E item \in [a : ActionIds, status : Statuses] :
                      item.a = Head(l.ids) /\ job'[th].got = Append(l.got, item)
<1> DEFINE a == Head(l.ids)
           item == [a |-> a, status |-> actions[a].status]
           got == IF a \notin DOMAIN actions THEN l.got ELSE Append(l.got, item)
<1>1. Controlled /\ PipelineTypeOK
  BY StepFacts DEF Proceed
<1>2. /\ l.ids # <<>> /\ pc' = pc /\ UNCHANGED vars
      /\ job' = [job EXCEPT ![th].ids = Tail(@), ![th].got = got]
  BY DEF ListGet
<1>3. /\ l.op = "list" /\ l.t \in Tenants /\ l.ids \in Seq(ActionIds)
      /\ l.got \in Seq([a : ActionIds, status : Statuses])
  BY DEF Listings
<1>4. a \in ActionIds /\ Tail(l.ids) \in Seq(ActionIds)
  BY <1>2, <1>3, HeadTailRange
<1>5. a \in DOMAIN actions => item \in [a : ActionIds, status : Statuses]
  BY <1>1, <1>4 DEF PipelineTypeOK, ActionRecords
<1>6. got \in Seq([a : ActionIds, status : Statuses])
  BY <1>3, <1>5, AppendProperties
<1>7. item.a = a
  OBVIOUS
<1> HIDE DEF got
<1>8. job'[th] = [op |-> "list", t |-> l.t, ids |-> Tail(l.ids), got |-> got]
  BY <1>1, <1>2, <1>3 DEF Controlled, Listings
<1>9. /\ job'[th] \in Listings
      /\ job'[th].t = l.t /\ job'[th].ids = Tail(l.ids) /\ job'[th].got = got
  BY <1>3, <1>4, <1>6, <1>8 DEF Listings
<1>10. QED BY <1>2, <1>5, <1>7, <1>9 DEF got

\* A call that goes on, returns or is read to its end.
LEMMA ReplyProceeds ==
    ASSUME ThreadsInv, NEW th \in Threads, ReplyInv(th), Proceed(th)
    PROVE  ReplyInv(th)'
<1>1. Controlled /\ Controlled' /\ [ThreadsNext]_allVars
  BY StepFacts DEF ThreadsNext
<1>2. CASE \/ AuditProposal(th) \/ ApplyReject(th) \/ ApplyQueue(th) \/ ApplyAuto(th)
           \/ AuditRefusal(th) \/ EnqueueAction(th) \/ PutResult(th) \/ Promote(th)
           \/ AuditVeto(th)
  <2>1. pc[th] \in Locked /\ pc'[th] \in Locked /\ job' = job
    BY <1>1, <1>2 DEF AuditProposal, ApplyReject, ApplyQueue, ApplyAuto, AuditRefusal,
       EnqueueAction, PutResult, Promote, AuditVeto, Continue, Goto, Controlled, Locked
  <2>2. QED BY <1>1, <2>1, ReplyGoesOn
<1>3. CASE DecidePolicy(th) \/ Execute(th)
  <2>1. pc[th] \in Locked /\ pc'[th] \in Locked
    BY <1>1, <1>3 DEF DecidePolicy, Execute, Goto, Controlled, Locked
  <2>2. job[th] \in Calls
    BY <2>1, Holder
  <2>3. /\ job'[th].op = job[th].op /\ job'[th].a = job[th].a /\ job'[th].v = job[th].v
    BY <1>1, <1>3, <2>2 DEF DecidePolicy, Execute, Controlled, Calls
  <2>4. QED BY <1>1, <2>1, <2>3, ReplyGoesOn
<1>4. CASE IndexEvent(th) \/ EndCall(th)
  <2>1. pc'[th] = "idle"
    BY <1>1, <1>4 DEF IndexEvent, EndCall, Return, Goto, Controlled
  <2>2. QED BY <2>1 DEF ReplyInv, Locked
<1>5. CASE AuditResult(th)
  <2>1. CASE job[th].op = "propose"
    <3>1. pc[th] \in Locked /\ pc'[th] \in Locked /\ job' = job
      BY <1>1, <1>5, <2>1 DEF AuditResult, Continue, Goto, Controlled, Locked
    <3>2. QED BY <1>1, <3>1, ReplyGoesOn
  <2>2. CASE job[th].op # "propose"
    BY <1>5, <2>2, AuditResultReplies
  <2>3. QED BY <2>1, <2>2
<1>6. CASE AuditApproval(th)
  <2>1. CASE rows[Its(th)].state = "approved"
    <3>1. pc[th] \in Locked /\ pc'[th] \in Locked /\ job' = job
      BY <1>1, <1>6, <2>1 DEF AuditApproval, Continue, Goto, Controlled, Locked
    <3>2. QED BY <1>1, <3>1, ReplyGoesOn
  <2>2. CASE rows[Its(th)].state # "approved"
    BY <1>6, <2>2, AuditApprovalReplies
  <2>3. QED BY <2>1, <2>2
<1>7. CASE ListGet(th) \/ ListDone(th)
  <2>1. /\ pc[th] = "list" /\ pc'[th] \in {"list", "replied"}
    BY <1>1, <1>7 DEF ListGet, ListDone, Goto, Controlled
  <2>2. job[th] \in Listings
    BY <2>1 DEF ReplyInv
  <2>3. job'[th] \in Listings
    BY <1>7, <2>2, ListGets DEF ListDone
  <2>4. job'[th].op = "list"
    BY <2>3 DEF Listings
  <2>5. QED BY <2>1, <2>3, <2>4 DEF ReplyInv, Locked
<1>8. QED BY <1>2, <1>3, <1>4, <1>5, <1>6, <1>7, WithdrawReplies, ViewTrailReplies,
             ViewRowReplies
          DEF Proceed

\* Every step keeps the replies in the making current.
LEMMA RepliesStep ==
    ASSUME ThreadsInv, RepliesInv, [ThreadsNext]_allVars
    PROVE  RepliesInv'
<1>1. \A q \in Threads : pc'[q] = pc[q] /\ job'[q] = job[q] => ReplyInv(q)'
  BY ReplyInvStays DEF RepliesInv
<1>2. CASE UNCHANGED threadVars
  BY <1>1, <1>2 DEF threadVars, RepliesInv
<1>3. ASSUME NEW th \in Threads, Begin(th) \/ Proceed(th)
      PROVE  RepliesInv'
  <2>1. \A q \in Threads : q # th => ReplyInv(q)'
    BY <1>1, <1>3, StepFacts
  <2>2. ReplyInv(th)'
    BY <1>3, ReplyBegins, ReplyProceeds DEF RepliesInv
  <2>3. QED BY <2>1, <2>2 DEF RepliesInv
<1>4. QED BY <1>2, <1>3 DEF ThreadsNext, allVars

\* However long a response takes to be put together and whatever is decided
\* meanwhile, it shows the decision it answers and is never behind the review it
\* shows (ResponsesCurrent).
THEOREM RepliesAreCurrent == ThreadsSpec => []ResponsesCurrent
<1>1. ThreadsInit => RepliesInv
  BY DEF ThreadsInit, RepliesInv, ReplyInv, Locked
<1>2. ThreadsInv /\ RepliesInv /\ [ThreadsNext]_allVars => RepliesInv'
  BY RepliesStep
<1>3. RepliesInv => ResponsesCurrent
  <2>1. SUFFICES ASSUME RepliesInv, NEW th \in Threads,
                        Replied(th, {"get", "approve", "reject"})
                 PROVE  LET r == job[th] IN
                        /\ r.op # "get" => DecisionIn(r, r.trail)
                        /\ r.op = "approve" => r.v \in Range(r.votes)
                        /\ r.op # "get" /\ r.status # "pending_approval"
                               => StatusTold(Last(r.trail)) = r.status
                        /\ r.review = "pending"
                               => r.status \in {"pending_policy", "pending_approval"}
                        /\ r.review = "approved" => r.status # "rejected"
                        /\ r.review # "none" /\ r.status \in LetThrough
                               => r.review = "approved"
                        /\ r.review # "none" /\ r.status = "rejected"
                               => r.review = "rejected"
    BY DEF ResponsesCurrent, ResponseShowsDecision, ProgressNotBehind, Replied, DecisionIn,
           LetThrough
  <2>2. TrailRead(job[th]) /\ RowRead(job[th])
    BY <2>1 DEF RepliesInv, ReplyInv, Replied
  <2>3. QED BY <2>2 DEF TrailRead, RowRead, LetThrough, Replies, Statuses
<1>4. QED BY <1>1, <1>2, <1>3, ThreadsCorrect, PTL DEF ThreadsSpec

-----------------------------------------------------------------------------
(* What a list shows.  list_pending_actions takes the tenant's ids, then    *)
(* gets their actions one by one, without the lock.                        *)

\* What is listed: the actions got, and the ids still to get.
Stamp(a) == rows[a].enqueuedAt
Got(l) == {l.got[i].a : i \in 1..Len(l.got)}
Listed(l) == Got(l) \cup Range(l.ids)

\* Rows of the tenant, oldest first, with every older one that is still pending.
ListOK(l) ==
    /\ l \in Listings
    /\ \A a \in Listed(l) : a \in DOMAIN rows /\ rows[a].tenant = l.t
    /\ \A i, j \in 1..Len(l.got) : i < j => Stamp(l.got[i].a) < Stamp(l.got[j].a)
    /\ \A i, j \in 1..Len(l.ids) : i < j => Stamp(l.ids[i]) < Stamp(l.ids[j])
    /\ \A a \in Got(l), b \in Range(l.ids) : Stamp(a) < Stamp(b)
    /\ \A a \in Listed(l), b \in DOMAIN rows :
           (rows[b].tenant = l.t /\ rows[b].state = "pending" /\ Stamp(b) < Stamp(a))
               => b \in Listed(l)

ListInv(th) ==
    LET l == job[th] IN
    /\ pc[th] = "list" => ListOK(l)
    /\ pc[th] = "replied" /\ l.op = "list" => ListOK(l) /\ l.ids = <<>>

ListsInv == \A th \in Threads : ListInv(th)

\* A row that comes later is younger than every row there is.
LEMMA RowsComeInOrder ==
    ASSUME ThreadsInv, [ThreadsNext]_allVars
    PROVE  /\ \A a \in DOMAIN rows :
                  /\ a \in DOMAIN rows' /\ rows'[a].tenant = rows[a].tenant
                  /\ Stamp(a)' = Stamp(a)
                  /\ rows'[a].state = "pending" => rows[a].state = "pending"
           /\ \A a \in DOMAIN rows, b \in DOMAIN rows' :
                  b \notin DOMAIN rows => Stamp(a)' < Stamp(b)'
<1>1. QueueInv /\ [QueueNext]_queueVars
  BY ThreadStepIsQueueStep DEF ThreadsInv
<1>2. RowsEvolve
  BY <1>1, RowsStep
<1>3. ASSUME NEW a \in DOMAIN rows
      PROVE  /\ a \in DOMAIN rows' /\ rows'[a].tenant = rows[a].tenant
             /\ rows'[a].enqueuedAt = rows[a].enqueuedAt
             /\ rows'[a].state = "pending" => rows[a].state = "pending"
  BY <1>2 DEF RowsEvolve, RowEvolves
<1>4. ASSUME NEW a \in DOMAIN rows, NEW b \in DOMAIN rows', b \notin DOMAIN rows
      PROVE  rows[a].enqueuedAt < rows'[b].enqueuedAt
  <2>1. rows[a].enqueuedAt < Cardinality(DOMAIN rows)
    BY <1>1 DEF QueueInv, StampsInOrder
  <2>2. ASSUME NEW c \in ActionIds, NEW t \in Tenants, NEW rule \in QuorumRules,
               Enqueue(c, t, rule)
        PROVE  rows'[b].enqueuedAt = Cardinality(DOMAIN rows)
    BY <1>4, <2>2 DEF Enqueue, DictPut
  <2>3. ASSUME NEW c \in ActionIds, NEW v \in OpenPool,
               ApprovePartial(c, v) \/ ApproveSingle(c, v) \/ ApproveFinal(c, v) \/ Veto(c, v)
        PROVE  DOMAIN rows' = DOMAIN rows
    BY <1>1, <2>3, OtherRowsStay
  <2>4. rows' # rows
    BY <1>4
  <2>5. QED BY <1>1, <1>4, <2>1, <2>2, <2>3, <2>4 DEF QueueNext, queueVars
<1>5. QED BY <1>3, <1>4 DEF Stamp

\* So a list stays what it is whatever is queued and decided meanwhile.
LEMMA ListStays ==
    ASSUME ThreadsInv, [ThreadsNext]_allVars, NEW l, ListOK(l)
    PROVE  ListOK(l)'
<1>1. /\ \A a \in DOMAIN rows :
             /\ a \in DOMAIN rows' /\ rows'[a].tenant = rows[a].tenant
             /\ Stamp(a)' = Stamp(a)
             /\ rows'[a].state = "pending" => rows[a].state = "pending"
      /\ \A a \in DOMAIN rows, b \in DOMAIN rows' :
             b \notin DOMAIN rows => Stamp(a)' < Stamp(b)'
  BY RowsComeInOrder
<1>2. \A a \in DOMAIN rows : Stamp(a) \in Nat
  BY DEF ThreadsInv, QueueInv, QueueTypeOK, Rows, Stamp
<1>3. \A b \in DOMAIN rows' : Stamp(b)' \in Nat
  <2>1. QueueInv'
    BY QueueStep, ThreadStepIsQueueStep DEF ThreadsInv
  <2>2. QED BY <2>1 DEF QueueInv, QueueTypeOK, Rows, Stamp
<1>4. /\ l \in Listings
      /\ \A a \in Listed(l) : a \in DOMAIN rows /\ rows[a].tenant = l.t
  BY DEF ListOK
<1>5. /\ \A i \in 1..Len(l.got) : l.got[i].a \in Listed(l)
      /\ \A i \in 1..Len(l.ids) : l.ids[i] \in Listed(l)
      /\ Got(l) \subseteq Listed(l) /\ Range(l.ids) \subseteq Listed(l)
  <2>1. l.ids \in Seq(ActionIds)
    BY <1>4 DEF Listings
  <2>2. DOMAIN l.ids = 1..Len(l.ids)
    BY <2>1, LenProperties
  <2>3. QED BY <2>2 DEF Listed, Got, Range
<1>6. \A a \in Listed(l) : a \in DOMAIN rows' /\ rows'[a].tenant = l.t /\ Stamp(a)' = Stamp(a)
  BY <1>1, <1>4
<1>7. ASSUME NEW a \in Listed(l), NEW b \in DOMAIN rows', rows'[b].tenant = l.t,
             rows'[b].state = "pending", Stamp(b)' < Stamp(a)'
      PROVE  b \in Listed(l)
  <2>1. a \in DOMAIN rows
    BY <1>4
  <2>2. b \in DOMAIN rows
    BY <1>1, <1>3, <1>6, <1>7, <2>1
  <2>3. rows[b].tenant = l.t /\ rows[b].state = "pending" /\ Stamp(b) < Stamp(a)
    BY <1>1, <1>7, <2>1, <2>2
  <2>4. QED BY <2>2, <2>3 DEF ListOK
<1>8. /\ \A i, j \in 1..Len(l.got) : i < j => Stamp(l.got[i].a)' < Stamp(l.got[j].a)'
      /\ \A i, j \in 1..Len(l.ids) : i < j => Stamp(l.ids[i])' < Stamp(l.ids[j])'
      /\ \A a \in Got(l), b \in Range(l.ids) : Stamp(a)' < Stamp(b)'
  BY <1>5, <1>6 DEF ListOK
<1>9. QED BY <1>4, <1>6, <1>7, <1>8 DEF ListOK

\* The list starts as the tenant's pending ids, all of them and oldest first.
LEMMA ListBegins ==
    ASSUME ThreadsInv, NEW t \in Tenants,
           NEW l, l = [op |-> "list", t |-> t, ids |-> pendingByTenant[t], got |-> <<>>]
    PROVE  ListOK(l)
<1> DEFINE ids == pendingByTenant[t]
<1>1. ids \in Seq(ActionIds) /\ PendingListExact
  BY DEF ThreadsInv, QueueInv, QueueTypeOK
<1>2. /\ Range(ids) = {a \in DOMAIN rows : rows[a].state = "pending" /\ rows[a].tenant = t}
      /\ \A i, j \in 1..Len(ids) : i < j => Stamp(ids[i]) < Stamp(ids[j])
  BY <1>1 DEF PendingListExact, Stamp
<1> HIDE DEF ids
<1>3. l.t = t /\ l.ids = ids /\ l.got = <<>> /\ l \in Listings
  BY <1>1 DEF Listings, ids
<1>4. Got(l) = {} /\ Listed(l) = Range(ids)
  BY <1>3 DEF Got, Listed
<1>5. QED BY <1>2, <1>3, <1>4 DEF ListOK

\* One action got: the same rows are listed, in the same order.
LEMMA ListMovesOn ==
    ASSUME ThreadsInv, NEW th \in Threads, ListOK(job[th]), ListGet(th)
    PROVE  ListOK(job'[th])
<1> DEFINE Items == [a : ActionIds, status : Statuses]
<1>1. PICK l, m : l = job[th] /\ m = job'[th]
  OBVIOUS
<1>2. l \in Listings /\ ListOK(l) /\ l.ids \in Seq(ActionIds) /\ l.got \in Seq(Items)
  BY <1>1 DEF ListOK, Listings
<1>3. l.ids # <<>> /\ m \in Listings /\ m.t = l.t /\ m.ids = Tail(l.ids)
  BY <1>1, <1>2, ListGets
<1>4. PICK h : h = Head(l.ids)
  OBVIOUS
<1>5. /\ Tail(l.ids) \in Seq(ActionIds)
      /\ Range(l.ids) = {h} \cup Range(m.ids)
  BY <1>2, <1>3, <1>4, HeadTailRange
<1>6. h \in DOMAIN rows /\ h \in DOMAIN actions
  <2>1. h \in Listed(l)
    BY <1>5 DEF Listed
  <2>2. h \in DOMAIN rows
    BY <1>2, <2>1 DEF ListOK
  <2>3. QED BY <2>2, RowTold
<1>7. PICK item \in Items : item.a = h /\ m.got = Append(l.got, item)
  BY <1>1, <1>2, <1>4, <1>6, ListGets
<1> DEFINE n == Len(l.got)
<1>8. /\ n \in Nat /\ Len(m.got) = n + 1
      /\ \A i \in 1..n : m.got[i] = l.got[i]
      /\ m.got[n + 1].a = h
  BY <1>2, <1>7, AppendProperties, LenProperties
<1>9. /\ Len(l.ids) \in Nat /\ Len(m.ids) = Len(l.ids) - 1 /\ Len(l.ids) >= 1
      /\ \A i \in 1..Len(m.ids) : m.ids[i] = l.ids[i + 1]
      /\ l.ids[1] = h
  BY <1>2, <1>3, <1>4, HeadTailProperties, LenProperties, EmptySeq
<1>10. Got(m) = Got(l) \cup {h}
  <2>1. \A i \in 1..n : i \in 1..Len(m.got)
    BY <1>8
  <2>2. n + 1 \in 1..Len(m.got) /\ \A i \in 1..Len(m.got) : i \in 1..n \/ i = n + 1
    BY <1>8
  <2>3. QED BY <1>8, <2>1, <2>2 DEF Got
<1>11. Listed(m) = Listed(l)
  BY <1>5, <1>10 DEF Listed
<1>12. \A i, j \in 1..Len(m.got) : i < j => Stamp(m.got[i].a) < Stamp(m.got[j].a)
  <2>1. SUFFICES ASSUME NEW i \in 1..Len(m.got), NEW j \in 1..Len(m.got), i < j
                 PROVE  Stamp(m.got[i].a) < Stamp(m.got[j].a)
    OBVIOUS
  <2>2. i \in 1..n /\ (j \in 1..n \/ j = n + 1)
    BY <1>8, <2>1
  <2>3. CASE j \in 1..n
    BY <1>2, <1>8, <2>1, <2>2, <2>3 DEF ListOK
  <2>4. CASE j = n + 1
    <3>1. l.got[i].a \in Got(l) /\ h \in Range(l.ids)
      BY <1>5, <2>2 DEF Got
    <3>2. Stamp(l.got[i].a) < Stamp(h)
      BY <1>2, <3>1 DEF ListOK
    <3>3. QED BY <1>8, <2>2, <2>4, <3>2
  <2>5. QED BY <2>2, <2>3, <2>4
<1>13. \A i, j \in 1..Len(m.ids) : i < j => Stamp(m.ids[i]) < Stamp(m.ids[j])
  <2>1. SUFFICES ASSUME NEW i \in 1..Len(m.ids), NEW j \in 1..Len(m.ids), i < j
                 PROVE  Stamp(m.ids[i]) < Stamp(m.ids[j])
    OBVIOUS
  <2>2. i + 1 \in 1..Len(l.ids) /\ j + 1 \in 1..Len(l.ids) /\ i + 1 < j + 1
    BY <1>9, <2>1
  <2>3. QED BY <1>2, <1>9, <2>2 DEF ListOK
<1>14. \A a \in Got(m), b \in Range(m.ids) : Stamp(a) < Stamp(b)
  <2>1. SUFFICES ASSUME NEW a \in Got(m), NEW b \in Range(m.ids)
                 PROVE  Stamp(a) < Stamp(b)
    OBVIOUS
  <2>2. CASE a \in Got(l)
    BY <1>2, <1>5, <2>1, <2>2 DEF ListOK
  <2>3. CASE a = h
    <3>1. PICK k \in 1..Len(m.ids) : m.ids[k] = b
      <4>1. DOMAIN m.ids = 1..Len(m.ids)
        BY <1>3, <1>5, LenProperties
      <4>2. QED BY <2>1, <4>1 DEF Range
    <3>2. 1 \in 1..Len(l.ids) /\ k + 1 \in 1..Len(l.ids) /\ 1 < k + 1
      BY <1>9, <3>1
    <3>3. l.ids[1] = h /\ l.ids[k + 1] = b
      BY <1>9, <3>1
    <3>4. QED BY <1>2, <2>3, <3>2, <3>3 DEF ListOK
  <2>4. QED BY <1>10, <2>1, <2>2, <2>3
<1>15. /\ \A a \in Listed(m) : a \in DOMAIN rows /\ rows[a].tenant = m.t
       /\ \A a \in Listed(m), b \in DOMAIN rows :
              (rows[b].tenant = m.t /\ rows[b].state = "pending" /\ Stamp(b) < Stamp(a))
                  => b \in Listed(m)
  BY <1>2, <1>3, <1>11 DEF ListOK
<1>16. ListOK(m)
  BY <1>3, <1>12, <1>13, <1>14, <1>15 DEF ListOK
<1>17. QED BY <1>1, <1>16

\* A thread at rest keeps its list, and the one that moves the list it makes.
LEMMA ListInvStays ==
    ASSUME ThreadsInv, [ThreadsNext]_allVars, NEW q \in Threads, ListInv(q),
           pc'[q] = pc[q], job'[q] = job[q]
    PROVE  ListInv(q)'
<1>1. PICK l : l = job[q]
  OBVIOUS
<1>2. ListOK(l) => ListOK(l)'
  BY ListStays
<1>3. ListOK(job[q]) => ListOK(job[q])'
  BY <1>1, <1>2 DEF ListOK, Listed, Got, Stamp
<1>4. QED BY <1>3 DEF ListInv

\* A list in the making stays in order when its own thread begins or goes on with
\* something.
LEMMA ListInvMoves ==
    ASSUME ThreadsInv, NEW th \in Threads, ReplyInv(th), ListInv(th), Begin(th) \/ Proceed(th)
    PROVE  ListInv(th)'
<1>1. Controlled /\ Controlled' /\ [ThreadsNext]_allVars
  BY StepFacts DEF ThreadsNext
<1>2. ASSUME NEW l, ListOK(l), job'[th] = l
      PROVE  ListOK(job[th])'
  <2>1. ListOK(l)'
    BY <1>1, <1>2, ListStays
  <2>2. QED BY <1>2, <2>1 DEF ListOK, Listed, Got, Stamp
<1>3. ASSUME NEW t \in Tenants, BeginList(th, t)
      PROVE  ListInv(th)'
  <2>1. PICK l : l = [op |-> "list", t |-> t, ids |-> pendingByTenant[t], got |-> <<>>]
    OBVIOUS
  <2>2. pc'[th] = "list" /\ job'[th] = l
    BY <1>1, <1>3, <2>1 DEF BeginList, Goto, Controlled
  <2>3. ListOK(l)
    BY <2>1, ListBegins
  <2>4. QED BY <1>2, <2>2, <2>3 DEF ListInv
<1>4. CASE ListGet(th)
  <2>1. pc[th] = "list" /\ pc' = pc
    BY <1>4 DEF ListGet
  <2>2. ListOK(job'[th])
    BY <1>4, <2>1, ListMovesOn DEF ListInv
  <2>3. QED BY <1>2, <2>1, <2>2 DEF ListInv
<1>5. CASE ListDone(th)
  <2>1. pc[th] = "list" /\ pc'[th] = "replied" /\ job'[th] = job[th] /\ job[th].ids = <<>>
    BY <1>1, <1>5 DEF ListDone, Goto, Controlled
  <2>2. QED BY <1>2, <2>1 DEF ListInv
<1>6. CASE ViewRow(th)
  <2>1. pc[th] = "row" /\ pc'[th] = "replied"
    BY <1>1, <1>6 DEF ViewRow, Goto, Controlled
  <2>2. job[th] \in Replies
    BY <2>1 DEF ReplyInv, ToRead
  <2>3. job'[th].op \in {"get", "approve", "reject"}
    BY <1>1, <1>6, <2>2 DEF ViewRow, Controlled, Replies
  <2>4. QED BY <2>1, <2>3 DEF ListInv
<1>7. CASE pc'[th] \notin {"list", "replied"}
  BY <1>7 DEF ListInv
<1>8. ASSUME Begin(th), \A t \in Tenants : ~ BeginList(th, t)
      PROVE  pc'[th] \notin {"list", "replied"}
  BY <1>1, <1>8 DEF Begin, BeginProposal, BeginApprove, BeginReject, BeginGet, Acquire, Goto,
                    Controlled
<1>9. ASSUME Proceed(th), ~ ListGet(th), ~ ListDone(th), ~ ViewRow(th)
      PROVE  pc'[th] \notin {"list", "replied"}
  BY <1>1, <1>9 DEF Proceed, AuditProposal, DecidePolicy, ApplyReject, ApplyQueue, ApplyAuto,
         AuditRefusal, EnqueueAction, IndexEvent, Execute, PutResult, AuditResult,
         AuditApproval, Promote, AuditVeto, Withdraw, ViewTrail, EndCall, Continue, Return,
         Goto, Controlled
<1>10. QED BY <1>3, <1>4, <1>5, <1>6, <1>7, <1>8, <1>9

\* Every step keeps the lists in the making in order.
LEMMA ListsStep ==
    ASSUME ThreadsInv, RepliesInv, ListsInv, [ThreadsNext]_allVars
    PROVE  ListsInv'
<1>1. \A q \in Threads : pc'[q] = pc[q] /\ job'[q] = job[q] => ListInv(q)'
  BY ListInvStays DEF ListsInv
<1>2. CASE UNCHANGED threadVars
  BY <1>1, <1>2 DEF threadVars, ListsInv
<1>3. ASSUME NEW th \in Threads, Begin(th) \/ Proceed(th)
      PROVE  ListsInv'
  <2>1. \A q \in Threads : q # th => ListInv(q)'
    BY <1>1, <1>3, StepFacts
  <2>2. ListInv(th)'
    BY <1>3, ListInvMoves DEF RepliesInv, ListsInv
  <2>3. QED BY <2>1, <2>2 DEF ListsInv
<1>4. QED BY <1>2, <1>3 DEF ThreadsNext, allVars

\* A list made without the lock is in FIFO order, shows no other tenant's action
\* and skips none that is still pending and older than one it shows (ListInOrder).
THEOREM ListsAreInOrder == ThreadsSpec => []ListInOrder
<1>1. ThreadsInit => RepliesInv /\ ListsInv
  BY DEF ThreadsInit, RepliesInv, ReplyInv, ListsInv, ListInv, Locked
<1>2. ThreadsInv /\ RepliesInv /\ ListsInv /\ [ThreadsNext]_allVars => RepliesInv' /\ ListsInv'
  BY RepliesStep, ListsStep
<1>3. ThreadsInv /\ ListsInv => ListInOrder
  <2>1. SUFFICES ASSUME ThreadsInv, ListsInv, NEW th \in Threads, Replied(th, {"list"})
                 PROVE  LET got == job[th].got
                            ids == {got[i].a : i \in 1..Len(got)}
                        IN  /\ \A i, j \in 1..Len(got) :
                                   i < j => Stamp(got[i].a) < Stamp(got[j].a)
                            /\ \A a \in ids : actions[a].tenant = job[th].t
                            /\ \A a \in ids, b \in DOMAIN rows :
                                   (/\ rows[b].tenant = job[th].t
                                    /\ rows[b].state = "pending"
                                    /\ Stamp(b) < Stamp(a)) => b \in ids
    BY DEF ListInOrder, Stamp
  <2>2. PICK l : l = job[th]
    OBVIOUS
  <2>3. ListOK(l) /\ l.ids = <<>>
    BY <2>1, <2>2 DEF ListsInv, ListInv, Replied
  <2>4. Listed(l) = Got(l)
    BY <2>3, EmptyRange DEF Listed
  <2>5. \A a \in Got(l) : a \in DOMAIN rows /\ actions[a].tenant = l.t
    BY <2>1, <2>3, <2>4, RowTold DEF ListOK
  <2>6. QED BY <2>2, <2>3, <2>4, <2>5 DEF ListOK, Got
<1>4. QED BY <1>1, <1>2, <1>3, ThreadsCorrect, PTL DEF ThreadsSpec

=============================================================================
