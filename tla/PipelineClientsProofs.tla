------------------------ MODULE PipelineClientsProofs -------------------------
(***************************************************************************)
(* Two clients of the decision pipeline: the planner before it makes at    *)
(* most one action for an event and gives it back to everyone who asks,    *)
(* and the two pages over it say of a row what is so and keep the demo's   *)
(* rules, for any sessions, planners and events, and however their calls   *)
(* come between one another.                                               *)
(***************************************************************************)
EXTENDS Planning, ApproverDesk, DecisionPipelineProofs

-----------------------------------------------------------------------------
(* The decision pipeline under the planner and under the pages.            *)

\* What is proved of the pipeline alone.
PipelineInv ==
    PipelineTypeOK /\ QueueInv /\ ExecInv /\ RecordInv /\ OneActionPerEvent

\* What is proved of the pipeline holds when it starts,
LEMMA PipelineInvInit == PipelineInit => PipelineInv
<1>1. PipelineInit => RecordInv
  BY DEF PipelineInit, QueueInit, RecordInv, RecordOK, NoRecord
<1>2. PipelineInit => OneActionPerEvent
  BY DEF PipelineInit, OneActionPerEvent
<1>3. PipelineInit => ExecInv
  BY DEF PipelineInit, QueueInit, ExecInv, ExecOK, IsPending
<1>4. QED BY <1>1, <1>2, <1>3, PipelineInitTypes DEF PipelineInv

\* after each of its calls,
LEMMA PipelineInvStep ==
    ASSUME PipelineInv, [PipelineNext]_vars
    PROVE  PipelineInv'
<1>1. PipelineTypeOK' /\ QueueInv'
  BY PipelineTypeStep, PipelineStepIsQueueStep, QueueStep DEF PipelineInv
<1>2. QED BY <1>1, ExecStep, RecordStep, OneActionStep DEF PipelineInv

\* and once it has been cleared.
LEMMA PipelineInvClear ==
    ASSUME PipelineInv, Clear
    PROVE  PipelineInv'
<1>1. RecordInv' /\ OneActionPerEvent'
  BY DEF Clear, RecordInv, RecordOK, NoRecord, OneActionPerEvent
<1>2. ExecInv'
  BY DEF Clear, ExecInv, ExecOK, IsPending
<1>3. QED BY <1>1, <1>2, ClearTypes DEF PipelineInv

\* What of an action never changes while it is in the store.
OriginStays(b) ==
    /\ actions'[b].tenant = actions[b].tenant /\ actions'[b].event = actions[b].event
    /\ actions'[b].type = actions[b].type
    /\ trail'[b][1] = trail[b][1]

\* The origin of a new action, which its first audit row tells.
IsBorn(a, t, e, ty, by) ==
    /\ DOMAIN actions' = DOMAIN actions \cup {a}
    /\ actions'[a].tenant = t /\ actions'[a].event = e /\ actions'[a].type = ty
    /\ trail'[a][1].says = by

\* A decision leaves every action's origin.
LEMMA DecisionKeepsOrigins ==
    ASSUME PipelineInv, NEW a \in ActionIds, NEW v \in Approvers,
           NEW tn \in Tenants \cup {AnyTenant}, Decide(a, v, tn)
    PROVE  DOMAIN actions' = DOMAIN actions /\ \A b \in DOMAIN actions : OriginStays(b)
<1>1. a \in DOMAIN actions /\ (actions' = actions \/ \E status \in Statuses : SetStatus(a, status))
  BY DEF Decide, ApproveVote, ApproveExecute, RejectAction, Visible, Statuses, ExecStatus
<1>2. /\ DOMAIN actions' = DOMAIN actions
      /\ \A b \in DOMAIN actions : /\ actions'[b].tenant = actions[b].tenant
                                   /\ actions'[b].event = actions[b].event
                                   /\ actions'[b].type = actions[b].type
  BY <1>1 DEF SetStatus, DictPut, PipelineTypeOK, PipelineInv, ActionRecords
<1>3. \E entries \in Seq(AuditEntries) : Write(a, entries)
  <2>1. QueueInv'
    BY PipelineInvStep DEF PipelineInv, PipelineNext
  <2>2. QED BY <2>1, DecisionEntries DEF PipelineInv, QueueInv
<1>4. ASSUME NEW b \in DOMAIN actions
      PROVE  trail'[b][1] = trail[b][1]
  <2>1. b \in ActionIds /\ Len(trail[b]) >= 2
    BY DEF PipelineInv, PipelineTypeOK, RecordInv, RecordOK, StoredRecord
  <2>2. PICK entries \in Seq(AuditEntries) : Write(a, entries)
    BY <1>3
  <2>3. Len(trail[a]) \in Nat /\ \A i \in 1..Len(trail[a]) : trail'[a][i] = trail[a][i]
    BY <2>2, WrittenAfter DEF PipelineInv
  <2>4. CASE b = a
    <3>1. 1 \in 1..Len(trail[a])
      BY <2>1, <2>3, <2>4
    <3>2. QED BY <2>3, <2>4, <3>1
  <2>5. CASE b # a
    BY <2>1, <2>2, <2>5, WrittenAfter DEF PipelineInv
  <2>6. QED BY <2>4, <2>5
<1>5. QED BY <1>2, <1>4 DEF OriginStays

\* handle_proposal makes one action, of what it is given.
LEMMA ProposalBears ==
    ASSUME PipelineInv, NEW a \in ActionIds, NEW t \in Tenants, NEW e \in Events,
           NEW ty \in ActionTypes, NEW by \in Planners, HandleProposal(a, t, e, ty, by)
    PROVE  /\ a \notin DOMAIN actions
           /\ IsBorn(a, t, e, ty, by)
           /\ \A b \in DOMAIN actions : OriginStays(b)
<1>1. a \notin DOMAIN actions /\ a \notin DOMAIN rows /\ trail[a] = <<>>
  BY DEF HandleProposal, ProposeReject, ProposeQueue, ProposeAuto, NewProposal,
         PipelineInv, RecordInv, RecordOK, NoRecord
<1>2. \E status \in Statuses : Put(a, t, e, ty, status)
  BY DEF HandleProposal, ProposeReject, ProposeQueue, ProposeAuto, Statuses, ExecStatus
<1>3. /\ DOMAIN actions' = DOMAIN actions \cup {a}
      /\ actions'[a].tenant = t /\ actions'[a].event = e /\ actions'[a].type = ty
  BY <1>2 DEF Put, DictPut
<1>4. trail'[a][1].says = by
  <2>1. CASE ProposeReject(a, t, e, ty, by)
    BY <1>1, <2>1 DEF ProposeReject, Write, PipelineInv, PipelineTypeOK, Proposed
  <2>2. CASE ProposeQueue(a, t, e, ty, by)
    BY <1>1, <2>2 DEF ProposeQueue, Write, PipelineInv, PipelineTypeOK, Proposed
  <2>3. ASSUME NEW ok \in BOOLEAN, ProposeAuto(a, t, e, ty, by, ok)
        PROVE  trail'[a][1].says = by
    BY <1>1, <2>3 DEF ProposeAuto, Write, PipelineInv, PipelineTypeOK, Proposed
  <2>4. QED BY <2>1, <2>2, <2>3 DEF HandleProposal
<1>5. ASSUME NEW b \in DOMAIN actions
      PROVE  OriginStays(b)
  <2>1. b \in ActionIds /\ b # a
    BY <1>1 DEF PipelineInv, PipelineTypeOK
  <2>2. Untouched(b)
    BY <1>1, <2>1, ProposalUntouched DEF PipelineInv
  <2>3. QED BY <2>2 DEF Untouched, OriginStays
<1>6. QED BY <1>1, <1>3, <1>4, <1>5 DEF IsBorn

-----------------------------------------------------------------------------
(* Planning.                                                               *)

DeliveryRecords ==
    [at     : {"planning", "planned", "shown", "done", "dropped"},
     via    : {"bus", "adapter"},
     tenant : Tenants,
     event  : Events,
     type   : ActionTypes \cup {""},
     by     : Planners \cup {""},
     action : Deliveries \cup {NoAction}]

\* A delivery that has been planned knows its proposal, and one that ended well has an
\* action of its event.
DeliveryOK(p) ==
    /\ p.at \in {"planned", "shown", "done"} => p.type \in ActionTypes /\ p.by \in Planners
    /\ p.at = "done" => /\ p.action \in DOMAIN actions
                        /\ actions[p.action].tenant = p.tenant
                        /\ actions[p.action].event = p.event

\* An action was made by the delivery that gave it its number, of what that proposed.
MadeOK(a) ==
    LET p == delivery[a]
    IN  /\ a \in Deliveries /\ p # NoDelivery
        /\ p.at = "done" /\ p.action = a
        /\ actions[a].tenant = p.tenant /\ actions[a].event = p.event
        /\ actions[a].type = p.type
        /\ trail[a][1].says = p.by

PlanInv ==
    /\ PipelineInv
    /\ setting \in Environments
    /\ delivery \in [Deliveries -> DeliveryRecords \cup {NoDelivery}]
    /\ \A d \in Deliveries : delivery[d] # NoDelivery => DeliveryOK(delivery[d])
    /\ \A a \in DOMAIN actions : MadeOK(a)

\* A record of a delivery is not the missing one.
LEMMA DeliveryThere ==
    ASSUME NEW p, p \in DeliveryRecords
    PROVE  p # NoDelivery
<1>1. p.at # "none"
  BY DEF DeliveryRecords
<1>2. NoDelivery.at = "none"
  BY DEF NoDelivery
<1>3. QED BY <1>1, <1>2

\* A delivery that goes on while the pipeline stands still.
LEMMA GoesOn ==
    ASSUME PlanInv, NEW d \in Deliveries, NEW to \in DeliveryRecords,
           delivery' = [delivery EXCEPT ![d] = to], UNCHANGED <<vars, setting>>,
           delivery[d] # NoDelivery => delivery[d].at # "done", DeliveryOK(to)
    PROVE  PlanInv'
<1>1. UNCHANGED <<actions, trail>> /\ PipelineInv'
  <2>1. [PipelineNext]_vars
    OBVIOUS
  <2>2. QED BY <2>1, PipelineInvStep DEF PlanInv, vars, pipelineVars
<1>2. /\ delivery' \in [Deliveries -> DeliveryRecords \cup {NoDelivery}]
      /\ delivery'[d] = to
      /\ \A c \in Deliveries : c # d => delivery'[c] = delivery[c]
  BY DEF PlanInv
<1>3. ASSUME NEW c \in Deliveries, delivery'[c] # NoDelivery
      PROVE  DeliveryOK(delivery[c])'
  <2>1. CASE c = d
    BY <1>1, <1>2, <2>1 DEF DeliveryOK
  <2>2. CASE c # d
    BY <1>1, <1>2, <1>3, <2>2 DEF DeliveryOK, PlanInv
  <2>3. QED BY <2>1, <2>2
<1>4. ASSUME NEW a \in DOMAIN actions'
      PROVE  MadeOK(a)'
  <2>1. MadeOK(a)
    BY <1>1 DEF PlanInv
  <2>2. a \in Deliveries /\ a # d
    BY <2>1 DEF MadeOK
  <2>3. delivery'[a] = delivery[a]
    BY <1>2, <2>2
  <2>4. QED BY <1>1, <2>1, <2>3 DEF MadeOK
<1>5. setting' \in Environments
  BY DEF PlanInv
<1>6. QED BY <1>1, <1>2, <1>3, <1>4, <1>5 DEF PlanInv

\* The handler is entered.
LEMMA DeliverKeeps ==
    ASSUME PlanInv, NEW d \in Deliveries, NEW via \in {"bus", "adapter"},
           NEW t \in Tenants, NEW e \in Events, Deliver(d, via, t, e)
    PROVE  PlanInv'
<1> DEFINE to == [at |-> "planning", via |-> via, tenant |-> t, event |-> e,
                  type |-> "", by |-> "", action |-> NoAction]
<1>1. to \in DeliveryRecords /\ DeliveryOK(to)
  BY DEF DeliveryRecords, DeliveryOK
<1>2. /\ delivery[d] = NoDelivery /\ delivery' = [delivery EXCEPT ![d] = to]
      /\ UNCHANGED <<vars, setting>>
  BY DEF Deliver
<1> HIDE DEF to
<1>3. QED BY <1>1, <1>2, GoesOn

\* What a delivery that goes on keeps of itself.
LEMMA GoingOn ==
    ASSUME PlanInv, NEW d \in Deliveries, NEW from, NEW to, Goes(d, from, to), from # "done"
    PROVE  /\ delivery[d] \in DeliveryRecords /\ DeliveryOK(delivery[d])
           /\ delivery[d] # NoDelivery /\ delivery[d].at = from
           /\ delivery' = [delivery EXCEPT ![d] = to]
BY DEF Goes, PlanInv

\* The model or the rules propose.
LEMMA ProposeKeeps ==
    ASSUME PlanInv, NEW d \in Deliveries, NEW ty \in ActionTypes, NEW by \in Planners,
           Propose(d, ty, by), UNCHANGED <<vars, setting>>
    PROVE  PlanInv'
<1> DEFINE p == delivery[d]
           to == [p EXCEPT !.at = "planned", !.type = ty, !.by = by]
<1>1. /\ p \in DeliveryRecords /\ DeliveryOK(p) /\ p.at = "planning"
      /\ delivery' = [delivery EXCEPT ![d] = to]
  BY GoingOn DEF Propose
<1>2. to \in DeliveryRecords /\ to.at = "planned" /\ to.type = ty /\ to.by = by
  BY <1>1 DEF DeliveryRecords
<1>3. DeliveryOK(to)
  BY <1>2 DEF DeliveryOK
<1>4. delivery[d].at # "done"
  BY <1>1
<1> HIDE DEF p, to
<1>5. QED BY <1>1, <1>2, <1>3, <1>4, GoesOn

\* The proposal is dropped, or shown.
LEMMA MovesKeep ==
    ASSUME PlanInv, NEW d \in Deliveries, NEW from \in {"planning", "planned"},
           NEW at \in {"shown", "dropped"}, from = "planning" => at = "dropped",
           Goes(d, from, [delivery[d] EXCEPT !.at = at]), UNCHANGED <<vars, setting>>
    PROVE  PlanInv'
<1> DEFINE p == delivery[d]
           to == [p EXCEPT !.at = at]
<1>1. /\ p \in DeliveryRecords /\ DeliveryOK(p) /\ p.at = from
      /\ delivery' = [delivery EXCEPT ![d] = to]
  BY GoingOn
<1>2. to \in DeliveryRecords /\ to.at = at /\ to.type = p.type /\ to.by = p.by
  BY <1>1 DEF DeliveryRecords
<1>3. DeliveryOK(to)
  BY <1>1, <1>2 DEF DeliveryOK
<1>4. delivery[d].at # "done"
  BY <1>1
<1> HIDE DEF p, to
<1>5. QED BY <1>1, <1>2, <1>3, <1>4, GoesOn

\* The cached action is returned.
LEMMA HandleAgainKeeps ==
    ASSUME PlanInv, NEW d \in Deliveries, HandleAgain(d)
    PROVE  PlanInv'
<1> DEFINE p == delivery[d]
           a == dedup[<<p.tenant, p.event>>]
           to == [p EXCEPT !.at = "done", !.action = a]
<1>1. ReadyToHandle(d) \in {"planned", "shown"}
  BY DEF ReadyToHandle
<1>2. Goes(d, ReadyToHandle(d), to) /\ UNCHANGED <<vars, setting>>
  BY DEF HandleAgain
<1>3. /\ p \in DeliveryRecords /\ DeliveryOK(p) /\ p.at \in {"planned", "shown"}
      /\ delivery' = [delivery EXCEPT ![d] = to]
  BY <1>1, <1>2, GoingOn
<1>4. /\ a \in DOMAIN actions
      /\ <<actions[a].tenant, actions[a].event>> = <<p.tenant, p.event>>
  BY DEF HandleAgain, PlanInv, PipelineInv, OneActionPerEvent
<1>5. a \in Deliveries
  BY <1>4 DEF PlanInv, MadeOK
<1>6. /\ to \in DeliveryRecords /\ to.at = "done" /\ to.action = a
      /\ to.tenant = p.tenant /\ to.event = p.event /\ to.type = p.type /\ to.by = p.by
  BY <1>3, <1>5 DEF DeliveryRecords
<1>7. DeliveryOK(to)
  BY <1>3, <1>4, <1>6 DEF DeliveryOK
<1>8. delivery[d].at # "done"
  BY <1>3
<1> HIDE DEF p, to, a
<1>9. QED BY <1>2, <1>3, <1>6, <1>7, <1>8, GoesOn

\* The pipeline makes the delivery's action.
LEMMA HandleFirstKeeps ==
    ASSUME PlanningAssumption, PlanInv, NEW d \in Deliveries, HandleFirst(d)
    PROVE  PlanInv'
<1> DEFINE p == delivery[d]
           to == [p EXCEPT !.at = "done", !.action = d]
<1>1. ReadyToHandle(d) \in {"planned", "shown"}
  BY DEF ReadyToHandle
<1>2. Goes(d, ReadyToHandle(d), to) /\ UNCHANGED <<setting, proposals>>
  BY DEF HandleFirst
<1>3. /\ p \in DeliveryRecords /\ DeliveryOK(p) /\ p.at \in {"planned", "shown"}
      /\ delivery' = [delivery EXCEPT ![d] = to]
  BY <1>1, <1>2, GoingOn
<1>4. /\ to \in DeliveryRecords /\ to.at = "done" /\ to.action = d
      /\ to.tenant = p.tenant /\ to.event = p.event /\ to.type = p.type /\ to.by = p.by
  BY <1>3 DEF DeliveryRecords
<1>5. /\ d \in ActionIds /\ p.tenant \in Tenants /\ p.event \in Events
      /\ p.type \in ActionTypes /\ p.by \in Planners
  BY <1>3 DEF DeliveryRecords, DeliveryOK, PlanningAssumption
<1>6. HandleProposal(d, p.tenant, p.event, p.type, p.by)
  BY DEF HandleFirst
<1>7. /\ delivery' \in [Deliveries -> DeliveryRecords \cup {NoDelivery}]
      /\ delivery'[d] = to
      /\ \A c \in Deliveries : c # d => delivery'[c] = delivery[c]
  BY <1>3, <1>4 DEF PlanInv
<1>8. to # NoDelivery
  BY <1>4, DeliveryThere
<1> HIDE DEF p, to
<1>9. PipelineInv'
  <2>1. PipelineNext
    BY <1>5, <1>6 DEF PipelineNext
  <2>2. QED BY <2>1, PipelineInvStep DEF PlanInv
<1>10. /\ d \notin DOMAIN actions
       /\ IsBorn(d, p.tenant, p.event, p.type, p.by)
       /\ \A b \in DOMAIN actions : OriginStays(b)
  BY <1>5, <1>6, ProposalBears DEF PlanInv
<1>11. ASSUME NEW c \in Deliveries, delivery'[c] # NoDelivery
       PROVE  DeliveryOK(delivery[c])'
  <2>1. CASE c = d
    <3>1. /\ d \in DOMAIN actions'
          /\ actions'[d].tenant = to.tenant /\ actions'[d].event = to.event
      BY <1>4, <1>10 DEF IsBorn
    <3>2. to.type \in ActionTypes /\ to.by \in Planners
      BY <1>4, <1>5
    <3>3. QED BY <1>4, <1>7, <2>1, <3>1, <3>2 DEF DeliveryOK
  <2>2. CASE c # d
    <3>1. DeliveryOK(delivery[c]) /\ delivery'[c] = delivery[c]
      BY <1>7, <1>11, <2>2 DEF PlanInv
    <3>2. DOMAIN actions \subseteq DOMAIN actions'
      BY <1>10 DEF IsBorn
    <3>3. QED BY <1>10, <3>1, <3>2 DEF DeliveryOK, OriginStays
  <2>3. QED BY <2>1, <2>2
<1>12. ASSUME NEW a \in DOMAIN actions'
       PROVE  MadeOK(a)'
  <2>1. CASE a = d
    BY <1>4, <1>7, <1>8, <1>10, <2>1 DEF MadeOK, IsBorn
  <2>2. CASE a # d
    <3>1. a \in DOMAIN actions /\ MadeOK(a)
      BY <1>10, <2>2 DEF IsBorn, PlanInv
    <3>2. a \in Deliveries /\ delivery'[a] = delivery[a]
      BY <1>7, <2>2, <3>1 DEF MadeOK
    <3>3. QED BY <1>10, <3>1, <3>2 DEF MadeOK, OriginStays
  <2>3. QED BY <2>1, <2>2
<1>13. setting' \in Environments
  BY <1>2 DEF PlanInv
<1>14. QED BY <1>7, <1>9, <1>11, <1>12, <1>13 DEF PlanInv

\* Approvers decide and tables are replaced meanwhile.
LEMMA PipelineGoesOnKeeps ==
    ASSUME PlanningAssumption, PlanInv, PipelineGoesOn
    PROVE  PlanInv'
<1>1. UNCHANGED <<setting, delivery>>
  BY DEF PipelineGoesOn, planVars
<1>2. [PipelineNext]_vars /\ DOMAIN actions' = DOMAIN actions
      /\ \A b \in DOMAIN actions : OriginStays(b)
  <2>1. ASSUME NEW a \in ActionIds, NEW v \in Signers, Decide(a, v, AnyTenant)
        PROVE  PipelineNext /\ DOMAIN actions' = DOMAIN actions
               /\ \A b \in DOMAIN actions : OriginStays(b)
    <3>1. v \in Approvers /\ AnyTenant \in Tenants \cup {AnyTenant}
      BY DEF PlanningAssumption
    <3>2. QED BY <2>1, <3>1, DecisionKeepsOrigins DEF PlanInv, PipelineNext
  <2>2. ASSUME NEW at \in Arrivals, NEW table \in Tables, SetPolicies(at[1], table)
        PROVE  PipelineNext /\ DOMAIN actions' = DOMAIN actions
               /\ \A b \in DOMAIN actions : OriginStays(b)
    <3>1. at[1] \in Tenants /\ table \in [ActionTypes -> Decisions]
      BY DEF PlanningAssumption
    <3>2. PipelineNext
      BY <2>2, <3>1 DEF PipelineNext, Configure
    <3>3. QED BY <2>2, <3>2 DEF SetPolicies, OriginStays
  <2>3. QED BY <2>1, <2>2 DEF PipelineGoesOn
<1>3. PipelineInv'
  BY <1>2, PipelineInvStep DEF PlanInv
<1>4. ASSUME NEW c \in Deliveries, delivery'[c] # NoDelivery
      PROVE  DeliveryOK(delivery[c])'
  BY <1>1, <1>2, <1>4 DEF DeliveryOK, OriginStays, PlanInv
<1>5. ASSUME NEW a \in DOMAIN actions'
      PROVE  MadeOK(a)'
  BY <1>1, <1>2 DEF MadeOK, OriginStays, PlanInv
<1>6. QED BY <1>1, <1>3, <1>4, <1>5 DEF PlanInv

\* Each step of a delivery, the pipeline's call among them, keeps the planner's
\* invariant.
LEMMA PlanStepKeeps ==
    ASSUME PlanningAssumption, FallbackAssumption, PlanInv, PlanNext
    PROVE  PlanInv'
<1>1. ASSUME NEW d \in Deliveries, NEW via \in {"bus", "adapter"}, NEW at \in Arrivals,
             Deliver(d, via, at[1], at[2])
      PROVE  PlanInv'
  <2>1. at[1] \in Tenants /\ at[2] \in Events
    BY DEF PlanningAssumption
  <2>2. QED BY <1>1, <2>1, DeliverKeeps
<1>2. ASSUME NEW d \in Deliveries, PlanByRules(d)
      PROVE  PlanInv'
  <2>1. delivery[d].event \in Events
    BY <1>2 DEF PlanByRules, Propose, Goes, PlanInv, DeliveryRecords
  <2>2. FallbackType(EventTypeOf[delivery[d].event]) \in ActionTypes /\ "fallback" \in Planners
    BY <2>1 DEF FallbackAssumption, Planners
  <2>3. /\ Propose(d, FallbackType(EventTypeOf[delivery[d].event]), "fallback")
        /\ UNCHANGED <<vars, setting>>
    BY <1>2 DEF PlanByRules
  <2>4. QED BY <2>2, <2>3, ProposeKeeps
<1>3. ASSUME NEW d \in Deliveries, PlanByModel(d)
      PROVE  PlanInv'
  <2>1. "llm" \in Planners
    BY DEF Planners
  <2>2. QED BY <1>3, <2>1, ProposeKeeps DEF PlanByModel
<1>4. ASSUME NEW d \in Deliveries, PlanRaises(d)
      PROVE  PlanInv'
  BY <1>4, MovesKeep DEF PlanRaises
<1>5. ASSUME NEW d \in Deliveries, AppendProposal(d)
      PROVE  PlanInv'
  BY <1>5, MovesKeep DEF AppendProposal
<1>6. QED BY <1>1, <1>2, <1>3, <1>4, <1>5, HandleFirstKeeps, HandleAgainKeeps,
             PipelineGoesOnKeeps DEF PlanNext

\* What the invariant says of the answers.
LEMMA AnswersAgree == PlanInv => OneAnswerPerEvent
<1> SUFFICES ASSUME PlanInv, NEW d \in Deliveries, delivery[d] # NoDelivery
             PROVE  LET p == delivery[d]
                        answer == delivery[p.action]
                    IN  /\ p.at = "done" =>
                              /\ p.action \in DOMAIN actions /\ p.action \in Deliveries
                              /\ <<p.tenant, p.event>> = <<answer.tenant, answer.event>>
                              /\ answer.action = p.action
                              /\ actions[p.action].type = answer.type
                              /\ Head(trail[p.action]).says = answer.by
                        /\ p.at # "done" => d \notin DOMAIN actions
  BY DEF OneAnswerPerEvent
<1>1. DeliveryOK(delivery[d])
  BY DEF PlanInv
<1>2. CASE delivery[d].at = "done"
  <2>1. PICK a : a = delivery[d].action
    OBVIOUS
  <2>2. /\ a \in DOMAIN actions /\ MadeOK(a)
        /\ actions[a].tenant = delivery[d].tenant /\ actions[a].event = delivery[d].event
    BY <1>1, <1>2, <2>1 DEF DeliveryOK, PlanInv
  <2>3. Head(trail[a]) = trail[a][1]
    <3>1. trail[a] \in Seq(AuditEntries) /\ Len(trail[a]) >= 2
      BY <2>2 DEF PlanInv, PipelineInv, PipelineTypeOK, RecordInv, RecordOK, StoredRecord
    <3>2. QED BY <3>1
  <2>4. QED BY <1>2, <2>1, <2>2, <2>3 DEF MadeOK
<1>3. CASE delivery[d].at # "done"
  BY <1>3 DEF PlanInv, MadeOK
<1>4. QED BY <1>2, <1>3

\* Deliveries of an event that end get one and the same action, made of the proposal
\* of one of them, for any deliveries, events and environments and whatever a model
\* proposes (OneAnswerPerEvent).
THEOREM AnswersAreOne == PlanSpec => []OneAnswerPerEvent
<1>1. PipelineInit /\ PlanInit => PlanInv
  <2> SUFFICES ASSUME PipelineInit, PlanInit PROVE PlanInv
    OBVIOUS
  <2>1. PipelineInv /\ DOMAIN actions = {}
    BY PipelineInvInit DEF PipelineInit
  <2>2. /\ delivery = [d \in Deliveries |-> NoDelivery]
        /\ setting \in Environments
    BY PlanningAssumption DEF PlanInit, PlanningAssumption
  <2>3. QED BY <2>1, <2>2 DEF PlanInv
<1>2. PlanInv /\ [PlanNext]_<<vars, planVars>> => PlanInv'
  <2>1. PlanInv /\ PlanNext => PlanInv'
    BY PlanStepKeeps, PlanningAssumption, FallbackAssumption
  <2>2. ASSUME PlanInv, UNCHANGED <<vars, planVars>>
        PROVE  PlanInv'
    <3>1. PipelineInv'
      <4>1. [PipelineNext]_vars
        BY <2>2
      <4>2. QED BY <2>2, <4>1, PipelineInvStep DEF PlanInv
    <3>2. UNCHANGED <<actions, trail, setting, delivery>>
      BY <2>2 DEF vars, pipelineVars, planVars
    <3>3. QED BY <2>2, <3>1, <3>2 DEF PlanInv, DeliveryOK, MadeOK
  <2>3. QED BY <2>1, <2>2
<1>3. QED BY <1>1, <1>2, AnswersAgree, PTL DEF PlanSpec

-----------------------------------------------------------------------------
(* The pages.                                                              *)

\* What of a row a page may rely on: its quorum stays, its votes stay, and once it is
\* decided nothing changes.
RowGoesOn(a) ==
    /\ a \in DOMAIN rows'
    /\ rows'[a].required = rows[a].required /\ rows'[a].eligible = rows[a].eligible
    /\ Range(rows[a].approvals) \subseteq Range(rows'[a].approvals)
    /\ Len(rows[a].approvals) \in Nat /\ Len(rows'[a].approvals) \in Nat
    /\ Len(rows[a].approvals) <= Len(rows'[a].approvals)
    /\ rows[a].state # "pending" => rows'[a] = rows[a] /\ effects'[a] = effects[a]

\* A longer list of votes has the votes of the shorter.
LEMMA PrefixGrows ==
    ASSUME NEW S, NEW s \in Seq(S), NEW t \in Seq(S), IsPrefix(s, t)
    PROVE  /\ Len(s) \in Nat /\ Len(t) \in Nat /\ Len(s) <= Len(t)
           /\ Range(s) \subseteq Range(t)
<1>1. Len(s) \in Nat /\ Len(t) \in Nat /\ Len(s) <= Len(t)
  BY LenProperties DEF IsPrefix
<1>2. ASSUME NEW i \in 1..Len(s)
      PROVE  s[i] = t[i]
  <2> DEFINE a == SubSeq(s, 1, Len(s))
             b == SubSeq(t, 1, Len(s))
  <2>1. a = b
    BY DEF IsPrefix
  <2>2. 1 \in Int /\ Len(s) \in Int /\ Len(s) - 1 + 1 = Len(s)
    BY <1>1
  <2>3. a[i] = s[i] /\ b[i] = t[i]
    BY <1>1
  <2> HIDE DEF a, b
  <2>4. QED BY <2>1, <2>3
<1>3. ASSUME NEW v \in Range(s)
      PROVE  v \in Range(t)
  <2>1. PICK i \in 1..Len(s) : s[i] = v
    BY DEF Range
  <2>2. i \in DOMAIN t /\ t[i] = v
    BY <1>1, <1>2, <2>1
  <2>3. QED BY <2>2 DEF Range
<1>4. QED BY <1>1, <1>3

\* A row that is decided is left alone, and so is what was executed for it.
LEMMA DecidedUntouched ==
    ASSUME PipelineInv, [PipelineNext]_vars, NEW a \in DOMAIN rows, rows[a].state # "pending"
    PROVE  Untouched(a)
<1>1. a \in ActionIds /\ ~IsPending(a)
  BY DEF PipelineInv, PipelineTypeOK, QueueTypeOK, IsPending
<1>2. ASSUME NEW b \in ActionIds, NEW t \in Tenants, NEW e \in Events,
             NEW ty \in ActionTypes, NEW by \in Planners, HandleProposal(b, t, e, ty, by)
      PROVE  Untouched(a)
  <2>1. b \notin DOMAIN actions
    BY <1>2 DEF HandleProposal, ProposeReject, ProposeQueue, ProposeAuto, NewProposal
  <2>2. b \notin DOMAIN rows /\ a # b
    BY <2>1 DEF PipelineInv, RecordInv, RecordOK, NoRecord
  <2>3. QED BY <1>1, <1>2, <2>2, ProposalUntouched DEF PipelineInv
<1>3. ASSUME NEW b \in ActionIds, NEW v \in Approvers,
             NEW tn \in Tenants \cup {AnyTenant}, Decide(b, v, tn)
      PROVE  Untouched(a)
  <2>1. b \in DOMAIN actions
    BY <1>3 DEF Decide, ApproveVote, ApproveExecute, RejectAction, Visible
  <2>2. ApprovePartial(b, v) \/ ApproveSingle(b, v) \/ ApproveFinal(b, v) \/ Veto(b, v)
    BY <1>3 DEF Decide, ApproveVote, ApproveExecute, RejectAction
  <2>3. IsPending(b)
    BY <2>2, OtherRowsStay DEF OpenPool, PipelineInv
  <2>4. QED BY <1>1, <1>3, <2>1, <2>3, DecisionUntouched DEF PipelineInv
<1>4. ASSUME NEW t \in Tenants, Configure(t)
      PROVE  Untouched(a)
  BY <1>4 DEF Configure, SetPolicies, SetQuorumRule, queueVars, Untouched
<1>5. CASE UNCHANGED vars
  BY <1>5 DEF vars, pipelineVars, Untouched
<1>6. QED BY <1>2, <1>3, <1>4, <1>5 DEF PipelineNext

\* What a call of the pipeline does to the rows there are.
LEMMA RowsGoOn ==
    ASSUME PipelineInv, [PipelineNext]_vars, NEW a \in DOMAIN rows
    PROVE  RowGoesOn(a)
<1>1. RowsEvolve
  BY RowsStep, PipelineStepIsQueueStep DEF PipelineInv
<1>2. a \in DOMAIN rows'
  BY <1>1 DEF RowsEvolve
<1>3. rows[a].approvals \in Seq(Approvers) /\ rows'[a].approvals \in Seq(Approvers)
  <2>1. PipelineInv'
    BY PipelineInvStep
  <2>2. QED BY <1>2, <2>1 DEF PipelineInv, PipelineTypeOK, QueueTypeOK, Rows
<1>4. CASE rows'[a] = rows[a]
  <2>1. Len(rows[a].approvals) \in Nat
    BY <1>3, LenProperties
  <2>2. rows[a].state # "pending" => effects'[a] = effects[a]
    BY DecidedUntouched DEF Untouched
  <2>3. QED BY <1>2, <1>4, <2>1, <2>2 DEF RowGoesOn
<1>5. CASE rows'[a] # rows[a]
  <2>1. RowEvolves(rows[a], rows'[a])
    BY <1>1, <1>5 DEF RowsEvolve
  <2>2. /\ Range(rows[a].approvals) \subseteq Range(rows'[a].approvals)
        /\ Len(rows[a].approvals) \in Nat /\ Len(rows'[a].approvals) \in Nat
        /\ Len(rows[a].approvals) <= Len(rows'[a].approvals)
    BY <1>3, <2>1, PrefixGrows DEF RowEvolves
  <2>3. QED BY <1>2, <2>1, <2>2 DEF RowEvolves, RowGoesOn
<1>6. QED BY <1>4, <1>5

TheWipe == [do |-> "wipe"]
TheSeed == [do |-> "seed"]
TheRule == [do |-> "rule"]

DemoSteps ==
    {TheWipe, TheSeed, TheRule}
        \cup [do : {"table"}, tenant : DemoTenants]
        \cup [do : {"propose"}, tenant : DemoTenants, event : DemoEvents, type : DemoTypes,
              by : Planners]

\* The message of a vote has the votes the row lacks, too.
Verbs == {"approved", "rejected", "not_found", "already_decided", "not_eligible",
          "duplicate_vote"}
Messages ==
    {NoMessage} \cup [kind : Verbs, action : Nat, by : Voters]
        \cup [kind : {"approved", "more"}, action : Nat, by : Voters, left : Int]

SessionRecords ==
    [todo : Seq(DemoSteps), page : SUBSET Nat, tenant : DemoTenants, generation : Nat,
     voted : Nat, by : OpenPool, message : Messages]

\* What a tenant's table and the bank's rule are once they have been seeded.
InPlace(t) == policy[t] = DemoTable(t)
RuleKey == <<Bank, "notify_loan_officer">>
RuleArmed == RuleKey \in DOMAIN quorum /\ quorum[RuleKey] = FourEyes

\* A step of a script that is to come before the i-th.
Ahead(todo, i, step) == \E j \in 1..Len(todo) : j < i /\ todo[j] = step

\* When a script comes to its i-th step, tables and rule will be in place; the rule only
\* if no clear has overtaken it.
Prepared(todo, generation, i) ==
    \/ Ahead(todo, i, TheSeed)
    \/ /\ \A t \in DemoTenants : InPlace(t) \/ Ahead(todo, i, SetTable(t))
       /\ generation = wipes => RuleArmed \/ Ahead(todo, i, TheRule)

\* A script clears first, if at all, and before its own rule.
ScriptOK(todo, generation) ==
    /\ \A i \in 1..Len(todo) :
          /\ todo[i] = TheWipe => i = 1 /\ app = "approver"
          /\ todo[i] = TheSeed => app = "scenario"
          /\ todo[i].do = "propose" =>
                /\ Prepared(todo, generation, i)
                /\ todo[1] = TheWipe => Ahead(todo, i, TheRule)
    /\ todo # <<>> /\ app = "approver" => todo[1] = TheWipe \/ wipes >= 1

\* What is so of a row when it is said, and stays so.
RowSays(m, row) ==
    \/ m.kind = "approved" /\ row.state = "approved" /\ m.by \in Range(row.approvals)
    \/ /\ m.kind = "more" /\ m.left \in Int /\ m.left >= 1
       /\ m.by \in Range(row.approvals)
       /\ m.left >= row.required - Len(row.approvals)
    \/ /\ m.kind = "rejected" /\ row.state = "rejected" /\ row.decidedBy = m.by
       /\ effects[m.action] = 0
    \/ m.kind = "already_decided" /\ row.state # "pending"
    \/ m.kind = "not_eligible" /\ m.by \notin row.eligible
    \/ m.kind = "duplicate_vote" /\ m.by \in Range(row.approvals)

Said(m) ==
    \/ m.kind = "not_found" /\ m.action \in 1..lastId /\ m.action \notin DOMAIN actions
    \/ m.action \in DOMAIN rows /\ RowSays(m, rows[m.action])

\* A page shows rows of its tenant, which may be gone.
PageOK(x) ==
    \A a \in x.page : /\ a \in 1..lastId
                      /\ a \in DOMAIN actions => /\ a \in DOMAIN rows
                                                 /\ actions[a].tenant = x.tenant

\* Where a session can be: in a script, or at its end, ...
Scripting(x) ==
    /\ x.page = {} /\ x.voted = NoVote /\ x.message = NoMessage
    /\ x.generation <= wipes /\ ScriptOK(x.todo, x.generation)

\* ... showing the rows that wait, ...
Browsing(x) ==
    /\ app = "approver" /\ wipes >= 1
    /\ x.todo = <<>> /\ x.voted = NoVote /\ x.message = NoMessage
    /\ x.generation = 0 /\ PageOK(x)

\* ... between a vote and its message, ...
Between(x) ==
    /\ app = "approver" /\ 1 <= x.generation /\ x.generation <= wipes
    /\ x.todo = <<>> /\ x.voted # NoVote /\ x.by \in Voters /\ x.message = NoMessage
    /\ x.generation = wipes =>
          x.voted \in DOMAIN rows /\ x.by \in Range(rows[x.voted].approvals)

\* ... or with a message, which is true unless a clear has overtaken it.
Telling(x) ==
    /\ app = "approver" /\ 1 <= x.generation /\ x.generation <= wipes
    /\ x.todo = <<>> /\ x.voted = NoVote /\ x.page = {}
    /\ x.generation = wipes => Said(x.message)

SessionOK(x) == Scripting(x) \/ Browsing(x) \/ Between(x) \/ Telling(x)

DeskInv ==
    /\ PipelineInv
    /\ app \in {"approver", "scenario"} /\ wipes \in Nat /\ lastId \in Nat
    /\ DOMAIN actions \subseteq 1..lastId
    /\ app = "scenario" => wipes = 0
    /\ app = "approver" /\ wipes = 0 => DOMAIN actions = {}
    /\ app = "scenario" /\ DOMAIN actions # {} =>
          RuleArmed /\ \A t \in DemoTenants : InPlace(t)
    /\ session \in [Sessions -> SessionRecords]
    /\ \A s \in Sessions : SessionOK(session[s])
    /\ DemoArmed

-----------------------------------------------------------------------------
(* What may happen beside a session.                                       *)

\* The calls of the pipeline that the pages make, but for the clear.
StoresGoOn ==
    /\ PipelineInv /\ PipelineInv'
    /\ DOMAIN actions \subseteq DOMAIN actions'
    /\ \A b \in DOMAIN actions : OriginStays(b)
    /\ \A b \in DOMAIN actions' : b \notin DOMAIN actions => b \in (lastId + 1)..lastId'
    /\ \A a \in DOMAIN rows : RowGoesOn(a)
    /\ \A a \in DOMAIN actions : a \in DOMAIN rows' => a \in DOMAIN rows
    /\ \A t \in DemoTenants : InPlace(t) => InPlace(t)'
    /\ RuleArmed => RuleArmed'
    /\ UNCHANGED <<app, wipes>>
    /\ lastId \in Nat /\ lastId' \in Nat /\ lastId <= lastId'

\* A script's place in the order stays good.
LEMMA ScriptStays ==
    ASSUME StoresGoOn, NEW todo, NEW generation, ScriptOK(todo, generation)
    PROVE  ScriptOK(todo, generation)'
<1>1. ASSUME NEW i \in 1..Len(todo), Prepared(todo, generation, i)
      PROVE  Prepared(todo, generation, i)'
  BY <1>1 DEF Prepared, Ahead, StoresGoOn
<1>2. UNCHANGED <<app, wipes>>
  BY DEF StoresGoOn
<1>3. QED BY <1>1, <1>2 DEF ScriptOK, Ahead

\* What was said stays true.
LEMMA SaidStays ==
    ASSUME StoresGoOn, NEW m, Said(m)
    PROVE  Said(m)'
<1>1. CASE m.kind = "not_found" /\ m.action \in 1..lastId /\ m.action \notin DOMAIN actions
  <2>1. m.action \notin DOMAIN actions'
    BY <1>1 DEF StoresGoOn
  <2>2. m.action \in 1..lastId'
    BY <1>1 DEF StoresGoOn
  <2>3. QED BY <1>1, <2>1, <2>2 DEF Said
<1>2. CASE m.action \in DOMAIN rows /\ RowSays(m, rows[m.action])
  <2>1. PICK old : old = rows[m.action]
    OBVIOUS
  <2>2. PICK new : new = rows'[m.action]
    OBVIOUS
  <2>3. /\ m.action \in DOMAIN rows'
        /\ new.required = old.required /\ new.eligible = old.eligible
        /\ Range(old.approvals) \subseteq Range(new.approvals)
        /\ Len(old.approvals) \in Nat /\ Len(new.approvals) \in Nat
        /\ Len(old.approvals) <= Len(new.approvals)
        /\ old.state # "pending" => new = old /\ effects'[m.action] = effects[m.action]
    BY <1>2, <2>1, <2>2 DEF StoresGoOn, RowGoesOn
  <2>4. old.required \in Nat
    <3>1. rows[m.action] \in Rows
      BY <1>2 DEF StoresGoOn, PipelineInv, PipelineTypeOK, QueueTypeOK
    <3>2. QED BY <2>1, <3>1, QueueAssumption DEF Rows
  <2>5. RowSays(m, old)
    BY <1>2, <2>1
  <2>6. RowSays(m, new)'
    <3>1. CASE m.kind = "more"
      BY <2>3, <2>4, <2>5, <3>1 DEF RowSays
    <3>2. CASE m.kind \in {"approved", "rejected", "already_decided"}
      BY <2>3, <2>5, <3>2 DEF RowSays
    <3>3. CASE m.kind \notin {"more", "approved", "rejected", "already_decided"}
      BY <2>3, <2>5, <3>3 DEF RowSays
    <3>4. QED BY <3>1, <3>2, <3>3
  <2>7. RowSays(m, rows[m.action])'
    BY <2>2, <2>6 DEF RowSays
  <2>8. QED BY <2>3, <2>7 DEF Said
<1>3. QED BY <1>1, <1>2 DEF Said

\* The rows a page shows are still its tenant's, or gone.
LEMMA PageStays ==
    ASSUME StoresGoOn, DOMAIN actions \subseteq 1..lastId, NEW x, PageOK(x)
    PROVE  PageOK(x)'
<1>1. SUFFICES ASSUME NEW a \in x.page
               PROVE  /\ a \in 1..lastId'
                      /\ a \in DOMAIN actions' => /\ a \in DOMAIN rows'
                                                  /\ actions'[a].tenant = x.tenant
  BY DEF PageOK
<1>2. a \in 1..lastId
  BY DEF PageOK
<1>3. a \in 1..lastId' /\ (a \in DOMAIN actions' => a \in DOMAIN actions)
  BY <1>2 DEF StoresGoOn
<1>4. ASSUME a \in DOMAIN actions
      PROVE  a \in DOMAIN rows' /\ actions'[a].tenant = x.tenant
  BY <1>4 DEF StoresGoOn, PageOK, RowGoesOn, OriginStays
<1>5. QED BY <1>3, <1>4

\* A session that stands still keeps what it may rely on.
LEMMA SessionStays ==
    ASSUME StoresGoOn, DOMAIN actions \subseteq 1..lastId, NEW x, SessionOK(x)
    PROVE  SessionOK(x)'
<1>1. UNCHANGED <<app, wipes>>
  BY DEF StoresGoOn
<1>2. CASE Scripting(x)
  BY <1>1, <1>2, ScriptStays DEF Scripting, SessionOK
<1>3. CASE Browsing(x)
  BY <1>1, <1>3, PageStays DEF Browsing, SessionOK
<1>4. CASE Between(x)
  BY <1>1, <1>4 DEF Between, SessionOK, StoresGoOn, RowGoesOn
<1>5. CASE Telling(x)
  BY <1>1, <1>5, SaidStays DEF Telling, SessionOK
<1>6. QED BY <1>2, <1>3, <1>4, <1>5 DEF SessionOK

\* The clear overtakes every session but the one that makes it.
LEMMA SessionWiped ==
    ASSUME Clear, wipes \in Nat, wipes' = wipes + 1, UNCHANGED <<app, lastId>>,
           NEW x \in SessionRecords, SessionOK(x)
    PROVE  SessionOK(x)'
<1>1. x.generation \in Nat /\ policy' = policy /\ DOMAIN actions' = {}
  BY DEF SessionRecords, Clear
<1>2. CASE Scripting(x)
  <2>1. x.generation <= wipes' /\ x.generation # wipes'
    BY <1>1, <1>2 DEF Scripting
  <2>2. ScriptOK(x.todo, x.generation)'
    BY <1>1, <1>2, <2>1 DEF Scripting, ScriptOK, Prepared, Ahead, InPlace
  <2>3. QED BY <1>2, <2>1, <2>2 DEF Scripting, SessionOK
<1>3. CASE Browsing(x)
  BY <1>1, <1>3 DEF Browsing, PageOK, SessionOK
<1>4. CASE Between(x)
  BY <1>1, <1>4 DEF Between, SessionOK
<1>5. CASE Telling(x)
  BY <1>1, <1>5 DEF Telling, SessionOK
<1>6. QED BY <1>2, <1>3, <1>4, <1>5 DEF SessionOK

\* The demo's rows stay armed.
LEMMA ArmedStays ==
    ASSUME StoresGoOn, DemoArmed, strays \subseteq strays',
           NEW a \in DOMAIN actions, a \notin strays'
    PROVE  /\ actions'[a].tenant \in DemoTenants /\ actions'[a].type = "send_borrower_message"
                 => a \notin DOMAIN rows'
           /\ actions'[a].tenant = Bank /\ actions'[a].type = "notify_loan_officer" =>
                 /\ a \in DOMAIN rows'
                 /\ <<rows'[a].required, rows'[a].eligible>> = <<2, Officers>>
<1>1. a \in DOMAIN actions \ strays
  OBVIOUS
<1>2. actions'[a].tenant = actions[a].tenant /\ actions'[a].type = actions[a].type
  BY DEF StoresGoOn, OriginStays
<1>3. actions'[a].tenant \in DemoTenants /\ actions'[a].type = "send_borrower_message"
         => a \notin DOMAIN rows'
  BY <1>1, <1>2 DEF StoresGoOn, DemoArmed
<1>4. ASSUME actions'[a].tenant = Bank, actions'[a].type = "notify_loan_officer"
      PROVE  /\ a \in DOMAIN rows'
             /\ <<rows'[a].required, rows'[a].eligible>> = <<2, Officers>>
  <2>1. /\ a \in DOMAIN rows
        /\ <<rows[a].required, rows[a].eligible>> = <<2, Officers>>
    BY <1>1, <1>2, <1>4 DEF DemoArmed
  <2>2. RowGoesOn(a)
    BY <2>1 DEF StoresGoOn
  <2>3. QED BY <2>1, <2>2 DEF RowGoesOn
<1>5. QED BY <1>3, <1>4

\* What a new action of the demo has to be like.
DemoArmedAt(a) ==
    /\ actions[a].tenant \in DemoTenants /\ actions[a].type = "send_borrower_message" =>
          a \notin DOMAIN rows
    /\ actions[a].tenant = Bank /\ actions[a].type = "notify_loan_officer" =>
          /\ a \in DOMAIN rows
          /\ <<rows[a].required, rows[a].eligible>> = <<2, Officers>>

\* One session moves.
LEMMA SessionMoves ==
    ASSUME DeskInv, StoresGoOn, NEW s \in Sessions, NEW x \in SessionRecords,
           session' = [session EXCEPT ![s] = x], SessionOK(x)', strays \subseteq strays',
           \A a \in DOMAIN actions' : a \notin DOMAIN actions =>
               /\ a \notin strays' => DemoArmedAt(a)'
               /\ app = "approver" => wipes >= 1
               /\ app = "scenario" => RuleArmed /\ \A t \in DemoTenants : InPlace(t)
    PROVE  DeskInv'
<1>1. /\ session' \in [Sessions -> SessionRecords]
      /\ session'[s] = x
      /\ \A r \in Sessions : r # s => session'[r] = session[r]
  BY DEF DeskInv
<1>2. PipelineInv' /\ UNCHANGED <<app, wipes>> /\ lastId' \in Nat
  BY DEF StoresGoOn
<1>3. DOMAIN actions' \subseteq 1..lastId'
  <2>1. SUFFICES ASSUME NEW a \in DOMAIN actions' PROVE a \in 1..lastId'
    OBVIOUS
  <2>2. a \in ActionIds
    BY <1>2 DEF PipelineInv, PipelineTypeOK
  <2>3. lastId \in Nat /\ lastId' \in Nat /\ lastId <= lastId'
    BY DEF StoresGoOn
  <2>4. CASE a \in DOMAIN actions
    <3>1. a \in 1..lastId
      BY <2>4 DEF DeskInv
    <3>2. QED BY <2>3, <3>1
  <2>5. CASE a \notin DOMAIN actions
    BY <2>3, <2>5 DEF StoresGoOn
  <2>6. QED BY <2>4, <2>5
<1>4. ASSUME NEW r \in Sessions
      PROVE  SessionOK(session[r])'
  <2>1. CASE r = s
    BY <1>1, <2>1
  <2>2. CASE r # s
    <3>1. PICK y : y = session[r]
      OBVIOUS
    <3>2. SessionOK(y) /\ y = session'[r] /\ DOMAIN actions \subseteq 1..lastId
      BY <1>1, <2>2, <3>1 DEF DeskInv
    <3>3. SessionOK(y)'
      BY <3>2, SessionStays
    <3>4. QED BY <3>2, <3>3
  <2>3. QED BY <2>1, <2>2
<1>5. DemoArmed'
  <2>1. SUFFICES ASSUME NEW a \in DOMAIN actions', a \notin strays'
                 PROVE  DemoArmedAt(a)'
    BY DEF DemoArmed, DemoArmedAt
  <2>2. CASE a \in DOMAIN actions
    <3>1. DemoArmed
      BY DEF DeskInv
    <3>2. QED BY <2>1, <2>2, <3>1, ArmedStays DEF DemoArmedAt
  <2>3. CASE a \notin DOMAIN actions
    BY <2>1, <2>3
  <2>4. QED BY <2>2, <2>3
<1>6. app' \in {"approver", "scenario"} /\ wipes' \in Nat /\ (app' = "scenario" => wipes' = 0)
  BY <1>2 DEF DeskInv
<1>7. app' = "approver" /\ wipes' = 0 => DOMAIN actions' = {}
  <2>1. ASSUME app' = "approver", wipes' = 0, NEW a \in DOMAIN actions'
        PROVE  FALSE
    BY <1>2, <2>1 DEF DeskInv
  <2>2. QED BY <2>1
<1>8. app' = "scenario" /\ DOMAIN actions' # {} =>
          RuleArmed' /\ \A t \in DemoTenants : InPlace(t)'
  <2>1. ASSUME app' = "scenario", NEW a \in DOMAIN actions'
        PROVE  RuleArmed /\ \A t \in DemoTenants : InPlace(t)
    BY <1>2, <2>1 DEF DeskInv
  <2>2. QED BY <2>1 DEF StoresGoOn
<1>9. QED BY <1>1, <1>2, <1>3, <1>4, <1>5, <1>6, <1>7, <1>8 DEF DeskInv

-----------------------------------------------------------------------------
(* The calls that go on beside the sessions.                               *)

\* Any call but handle_proposal and the clear.
LEMMA CallGoesOn ==
    ASSUME DeskInv, [PipelineNext]_vars, UNCHANGED <<app, wipes, lastId>>,
           DOMAIN actions' = DOMAIN actions, \A b \in DOMAIN actions : OriginStays(b),
           \A a \in DOMAIN actions : a \in DOMAIN rows' => a \in DOMAIN rows,
           \A t \in DemoTenants : InPlace(t) => InPlace(t)',
           RuleArmed => RuleArmed'
    PROVE  StoresGoOn
<1>1. PipelineInv /\ PipelineInv' /\ lastId \in Nat
  BY PipelineInvStep DEF DeskInv
<1>2. \A a \in DOMAIN rows : RowGoesOn(a)
  BY <1>1, RowsGoOn
<1>3. QED BY <1>1, <1>2 DEF StoresGoOn

\* A step that leaves the pipeline alone,
LEMMA NothingGoesOn ==
    ASSUME DeskInv, UNCHANGED <<vars, app, wipes, lastId>>
    PROVE  StoresGoOn /\ DOMAIN actions' = DOMAIN actions
<1>1. UNCHANGED <<rows, actions, trail, policy, quorum>>
  BY DEF vars, pipelineVars
<1>2. [PipelineNext]_vars
  OBVIOUS
<1>3. DOMAIN actions' = DOMAIN actions /\ \A b \in DOMAIN actions : OriginStays(b)
  BY <1>1 DEF OriginStays
<1>4. QED BY <1>1, <1>2, <1>3, CallGoesOn DEF InPlace, RuleArmed

\* the install of a tenant's demo table (seed_demo_data),
LEMMA TableGoesOn ==
    ASSUME DeskAssumption, DeskInv, NEW u \in DemoTenants, SetPolicies(u, DemoTable(u)),
           UNCHANGED <<app, wipes, lastId>>
    PROVE  StoresGoOn /\ DOMAIN actions' = DOMAIN actions /\ InPlace(u)'
<1>1. u \in Tenants /\ DemoTable(u) \in [ActionTypes -> Decisions]
  BY DEF DeskAssumption, DemoTable, Decisions
<1>2. PipelineNext
  BY <1>1 DEF PipelineNext, Configure
<1>3. UNCHANGED <<rows, actions, trail, quorum>>
  BY DEF SetPolicies, queueVars
<1>4. InPlace(u)' /\ \A t \in DemoTenants : InPlace(t) => InPlace(t)'
  <2>1. policy \in [Tenants -> [ActionTypes -> Decisions]]
    BY DEF DeskInv, PipelineInv, PipelineTypeOK
  <2>2. policy' = [policy EXCEPT ![u] = DemoTable(u)]
    BY DEF SetPolicies
  <2>3. \A t \in DemoTenants : policy'[t] = IF t = u THEN DemoTable(u) ELSE policy[t]
    BY <1>1, <2>1, <2>2 DEF DeskAssumption
  <2>4. QED BY <2>3 DEF InPlace, DemoTable
<1>5. DOMAIN actions' = DOMAIN actions /\ \A b \in DOMAIN actions : OriginStays(b)
  BY <1>3 DEF OriginStays
<1>6. RuleArmed => RuleArmed'
  BY <1>3 DEF RuleArmed
<1>7. QED BY <1>2, <1>3, <1>4, <1>5, <1>6, CallGoesOn

\* of the bank's rule,
LEMMA RuleGoesOn ==
    ASSUME DeskAssumption, DeskInv, SetQuorumRule(Bank, "notify_loan_officer", FourEyes),
           UNCHANGED <<app, wipes, lastId>>
    PROVE  StoresGoOn /\ DOMAIN actions' = DOMAIN actions /\ RuleArmed'
<1>1. /\ Bank \in Tenants /\ "notify_loan_officer" \in ActionTypes
      /\ FourEyes \in QuorumRules
  BY DEF DeskAssumption, DemoTenants, DemoTypes, FourEyes, QuorumRules, Pools
<1>2. PipelineNext
  BY <1>1 DEF PipelineNext, Configure
<1>3. UNCHANGED <<rows, actions, trail, policy>>
  BY DEF SetQuorumRule, queueVars
<1>4. RuleArmed'
  BY DEF SetQuorumRule, DictPut, RuleArmed, RuleKey
<1>5. DOMAIN actions' = DOMAIN actions /\ \A b \in DOMAIN actions : OriginStays(b)
  BY <1>3 DEF OriginStays
<1>6. \A t \in DemoTenants : InPlace(t) => InPlace(t)'
  BY <1>3 DEF InPlace
<1>7. QED BY <1>2, <1>3, <1>4, <1>5, <1>6, CallGoesOn

\* a vote or a veto (the dashboard's buttons),
LEMMA DecisionGoesOn ==
    ASSUME DeskInv, NEW a \in ActionIds, NEW v \in Approvers,
           NEW tn \in Tenants \cup {AnyTenant}, Decide(a, v, tn),
           UNCHANGED <<app, wipes, lastId>>
    PROVE  StoresGoOn /\ DOMAIN actions' = DOMAIN actions
<1>1. PipelineNext /\ PipelineInv
  BY DEF PipelineNext, DeskInv
<1>2. DOMAIN actions' = DOMAIN actions /\ \A b \in DOMAIN actions : OriginStays(b)
  BY <1>1, DecisionKeepsOrigins
<1>3. DOMAIN rows' = DOMAIN rows
  <2>1. ApprovePartial(a, v) \/ ApproveSingle(a, v) \/ ApproveFinal(a, v) \/ Veto(a, v)
    BY DEF Decide, ApproveVote, ApproveExecute, RejectAction
  <2>2. QED BY <1>1, <2>1, OtherRowsStay DEF OpenPool, PipelineInv
<1>4. UNCHANGED <<policy, quorum>>
  BY DEF Decide, ApproveVote, ApproveExecute, RejectAction
<1>5. QED BY <1>1, <1>2, <1>3, <1>4, CallGoesOn DEF InPlace, RuleArmed

\* and a proposal: each leaves the other sessions what they rely on.
LEMMA ProposalGoesOn ==
    ASSUME DeskInv, NEW a \in ActionIds, a = lastId + 1, NEW t \in Tenants, NEW e \in Events,
           NEW ty \in ActionTypes, NEW by \in Planners, HandleProposal(a, t, e, ty, by),
           lastId' = a, UNCHANGED <<app, wipes>>
    PROVE  /\ StoresGoOn
           /\ DOMAIN actions' = DOMAIN actions \cup {a} /\ a \notin DOMAIN actions
           /\ actions'[a].tenant = t /\ actions'[a].type = ty
<1>1. PipelineNext /\ PipelineInv /\ lastId \in Nat
  BY DEF PipelineNext, DeskInv
<1>2. PipelineInv'
  BY <1>1, PipelineInvStep
<1>3. /\ a \notin DOMAIN actions /\ IsBorn(a, t, e, ty, by)
      /\ \A b \in DOMAIN actions : OriginStays(b)
  BY <1>1, ProposalBears
<1>4. \A b \in DOMAIN rows : RowGoesOn(b)
  BY <1>1, RowsGoOn
<1>5. \A b \in DOMAIN actions : b \in DOMAIN rows' => b \in DOMAIN rows
  <2>1. a \notin DOMAIN rows
    BY <1>1, <1>3 DEF PipelineInv, RecordInv, RecordOK, NoRecord
  <2>2. ASSUME NEW b \in DOMAIN actions
        PROVE  b \in DOMAIN rows' => b \in DOMAIN rows
    <3>1. b \in ActionIds /\ b # a
      BY <1>1, <1>3 DEF PipelineInv, PipelineTypeOK
    <3>2. Untouched(b)
      BY <1>1, <2>1, <3>1, ProposalUntouched DEF PipelineInv
    <3>3. QED BY <3>2 DEF Untouched
  <2>3. QED BY <2>2
<1>6. UNCHANGED <<policy, quorum>>
  BY DEF HandleProposal, ProposeReject, ProposeQueue, ProposeAuto, NewProposal
<1>7. /\ \A b \in DOMAIN actions' : b \notin DOMAIN actions => b \in (lastId + 1)..lastId'
      /\ lastId' \in Nat /\ lastId <= lastId'
  BY <1>1, <1>3 DEF IsBorn
<1>8. StoresGoOn
  BY <1>1, <1>2, <1>3, <1>4, <1>5, <1>6, <1>7 DEF StoresGoOn, IsBorn, InPlace, RuleArmed
<1>9. QED BY <1>3, <1>8 DEF IsBorn

-----------------------------------------------------------------------------
(* Scripts.                                                                *)

\* The steps of a seed: tables, the rule, and proposals.
LEMMA SeedSteps ==
    /\ SeedScript \in Seq(DemoSteps) /\ Len(SeedScript) = 8
    /\ \A i \in 1..8 : SeedScript[i] # TheWipe /\ SeedScript[i] # TheSeed
    /\ \A i \in 1..4 : SeedScript[i].do # "propose"
    /\ \A t \in DemoTenants : \E j \in 1..3 : SeedScript[j] = SetTable(t)
    /\ SeedScript[4] = TheRule
<1>1. SeedScript[1] = SetTable(Bank) /\ SeedScript[2] = SetTable(Concierge)
      /\ SeedScript[3] = SetTable(CreditUnion) /\ SeedScript[4] = TheRule
  BY DEF SeedScript, TheRule
<1>2. /\ SeedScript[5] = ProposeDemo(Bank, "demo_1", "send_borrower_message", "llm")
      /\ SeedScript[6] = ProposeDemo(Bank, "demo_2", "notify_loan_officer", "llm")
      /\ SeedScript[7] = ProposeDemo(Concierge, "demo_1", "send_borrower_message", "fallback")
      /\ SeedScript[8] = ProposeDemo(CreditUnion, "demo_1", "request_document", "llm")
  BY DEF SeedScript
<1>3. Len(SeedScript) = 8
  BY DEF SeedScript
<1>4. \A t \in DemoTenants : SetTable(t) \in DemoSteps /\ SetTable(t).do = "table"
  BY DEF SetTable, DemoSteps
<1>5. \A t \in DemoTenants, e \in DemoEvents, ty \in DemoTypes, by \in Planners :
          ProposeDemo(t, e, ty, by) \in DemoSteps /\ ProposeDemo(t, e, ty, by).do = "propose"
  BY DEF ProposeDemo, DemoSteps
<1>6. /\ Bank \in DemoTenants /\ Concierge \in DemoTenants /\ CreditUnion \in DemoTenants
      /\ "demo_1" \in DemoEvents /\ "demo_2" \in DemoEvents
      /\ "send_borrower_message" \in DemoTypes /\ "notify_loan_officer" \in DemoTypes
      /\ "request_document" \in DemoTypes /\ "llm" \in Planners /\ "fallback" \in Planners
  BY DEF DemoTenants, DemoEvents, DemoTypes, Planners
<1>7. TheRule \in DemoSteps /\ TheRule.do = "rule"
  BY DEF TheRule, DemoSteps
<1>8. \A i \in 1..8 : SeedScript[i] \in DemoSteps
  BY <1>1, <1>2, <1>4, <1>5, <1>6, <1>7
<1>9. \A i \in 1..8 : SeedScript[i].do \in {"table", "rule", "propose"}
  BY <1>1, <1>2, <1>4, <1>5, <1>6, <1>7
<1>10. TheWipe.do = "wipe" /\ TheSeed.do = "seed"
  BY DEF TheWipe, TheSeed
<1>11. \A i \in 1..8 : SeedScript[i] # TheWipe /\ SeedScript[i] # TheSeed
  BY <1>9, <1>10
<1>12. \A i \in 1..4 : SeedScript[i].do # "propose"
  BY <1>1, <1>4, <1>6, <1>7
<1>13. \A t \in DemoTenants : \E j \in 1..3 : SeedScript[j] = SetTable(t)
  BY <1>1 DEF DemoTenants
<1>14. SeedScript \in Seq(DemoSteps)
  <2>1. SeedScript = [i \in 1..8 |-> SeedScript[i]]
    BY DEF SeedScript
  <2>2. QED BY <1>8, <2>1
<1>15. QED BY <1>1, <1>3, <1>11, <1>12, <1>13, <1>14

\* One list after another.
LEMMA OneAfterAnother ==
    ASSUME NEW first \in Seq(DemoSteps), NEW rest \in Seq(DemoSteps)
    PROVE  /\ first \o rest \in Seq(DemoSteps)
           /\ Len(first) \in Nat /\ Len(rest) \in Nat
           /\ Len(first \o rest) = Len(first) + Len(rest)
           /\ \A i \in 1..Len(first) : (first \o rest)[i] = first[i]
           /\ \A i \in 1..Len(rest) : (first \o rest)[Len(first) + i] = rest[i]
<1>1. Len(first) \in Nat /\ Len(rest) \in Nat
  BY LenProperties
<1> DEFINE all == first \o rest
<1>2. /\ all \in Seq(DemoSteps) /\ Len(all) = Len(first) + Len(rest)
      /\ \A i \in 1..(Len(first) + Len(rest)) :
            all[i] = IF i <= Len(first) THEN first[i] ELSE rest[i - Len(first)]
  BY ConcatProperties
<1> HIDE DEF all
<1>3. ASSUME NEW i \in 1..Len(first)
      PROVE  all[i] = first[i]
  <2>1. i \in 1..(Len(first) + Len(rest)) /\ i <= Len(first)
    BY <1>1
  <2>2. QED BY <1>2, <2>1
<1>4. ASSUME NEW i \in 1..Len(rest)
      PROVE  all[Len(first) + i] = rest[i]
  <2>1. PICK j \in 1..(Len(first) + Len(rest)) : j = Len(first) + i
    BY <1>1
  <2>2. ~(j <= Len(first)) /\ j - Len(first) = i
    BY <1>1, <2>1
  <2>3. all[j] = rest[j - Len(first)]
    BY <1>2, <2>2
  <2>4. QED BY <2>1, <2>2, <2>3
<1>5. QED BY <1>1, <1>2, <1>3, <1>4 DEF all

\* The seed, with k steps before it.
SeedAfter(todo, k) ==
    /\ todo \in Seq(DemoSteps) /\ Len(todo) \in Nat /\ Len(todo) >= k + 8
    /\ \A i \in 1..8 : todo[k + i] = SeedScript[i]

\* The seed comes before what a script had left.
LEMMA AfterSeed ==
    ASSUME NEW rest \in Seq(DemoSteps)
    PROVE  /\ SeedAfter(SeedScript \o rest, 0) /\ Len(rest) \in Nat
           /\ Len(SeedScript \o rest) = 8 + Len(rest)
           /\ \A i \in 1..Len(rest) : (SeedScript \o rest)[8 + i] = rest[i]
<1>1. SeedScript \in Seq(DemoSteps) /\ Len(SeedScript) = 8
  BY SeedSteps
<1>2. /\ SeedScript \o rest \in Seq(DemoSteps)
      /\ Len(rest) \in Nat
      /\ Len(SeedScript \o rest) = Len(SeedScript) + Len(rest)
      /\ \A i \in 1..Len(SeedScript) : (SeedScript \o rest)[i] = SeedScript[i]
      /\ \A i \in 1..Len(rest) : (SeedScript \o rest)[Len(SeedScript) + i] = rest[i]
  BY <1>1, OneAfterAnother
<1> DEFINE todo == SeedScript \o rest
<1>3. /\ todo \in Seq(DemoSteps)
      /\ Len(todo) = Len(SeedScript) + Len(rest)
      /\ \A i \in 1..Len(SeedScript) : todo[i] = SeedScript[i]
      /\ \A i \in 1..Len(rest) : todo[Len(SeedScript) + i] = rest[i]
  BY <1>2
<1> HIDE DEF todo
<1>4. /\ Len(todo) = 8 + Len(rest)
      /\ \A i \in 1..8 : todo[i] = SeedScript[i]
      /\ \A i \in 1..Len(rest) : todo[8 + i] = rest[i]
  BY <1>1, <1>3
<1>5. \A i \in 1..8 : todo[0 + i] = SeedScript[i]
  BY <1>4
<1>6. SeedAfter(todo, 0)
  <2>1. Len(todo) \in Nat /\ Len(todo) >= 0 + 8
    BY <1>2, <1>4
  <2>2. QED BY <1>3, <1>5, <2>1 DEF SeedAfter
<1>7. QED BY <1>2, <1>4, <1>6 DEF todo

\* The seed comes after the clear.
LEMMA WipeThenSeed ==
    /\ SeedAfter(<<TheWipe>> \o SeedScript, 1)
    /\ Len(<<TheWipe>> \o SeedScript) = 9 /\ (<<TheWipe>> \o SeedScript)[1] = TheWipe
<1> DEFINE first == <<TheWipe>>
           todo == first \o SeedScript
<1>1. first \in Seq(DemoSteps) /\ Len(first) = 1 /\ first[1] = TheWipe
  BY DEF DemoSteps
<1>2. SeedScript \in Seq(DemoSteps) /\ Len(SeedScript) = 8
  BY SeedSteps
<1> HIDE DEF first
<1>3. /\ todo \in Seq(DemoSteps)
      /\ Len(todo) = Len(first) + Len(SeedScript)
      /\ \A i \in 1..Len(first) : todo[i] = first[i]
      /\ \A i \in 1..Len(SeedScript) : todo[Len(first) + i] = SeedScript[i]
  BY <1>1, <1>2, OneAfterAnother
<1> HIDE DEF todo
<1>4. Len(todo) = 9 /\ todo[1] = TheWipe /\ \A i \in 1..8 : todo[1 + i] = SeedScript[i]
  BY <1>1, <1>2, <1>3
<1>5. SeedAfter(todo, 1)
  <2>1. Len(todo) \in Nat /\ Len(todo) >= 1 + 8
    BY <1>4
  <2>2. QED BY <1>3, <1>4, <2>1 DEF SeedAfter
<1>6. QED BY <1>4, <1>5 DEF todo, first

\* What comes before the proposals of a seed, and whatever follows it.
LEMMA SeedIsAhead ==
    ASSUME NEW k \in {0, 1}, NEW todo, SeedAfter(todo, k),
           NEW n \in 1..Len(todo), n > k, todo[n].do = "propose"
    PROVE  /\ Ahead(todo, n, TheRule)
           /\ \A t \in DemoTenants : Ahead(todo, n, SetTable(t))
<1>0. /\ k \in Int /\ Len(todo) \in Nat /\ Len(todo) >= k + 8
      /\ \A i \in 1..8 : todo[k + i] = SeedScript[i]
  BY DEF SeedAfter
<1>1. n > k + 4
  <2>1. ASSUME n <= k + 4
        PROVE  FALSE
    <3>1. PICK i \in 1..4 : n = k + i
      <4>1. n - k \in 1..4 /\ n = k + (n - k)
        BY <2>1
      <4>2. QED BY <4>1
    <3>2. i \in 1..8
      OBVIOUS
    <3>5. todo[k + i] = SeedScript[i]
      BY <1>0, <3>2
    <3>3. SeedScript[i].do = "propose"
      BY <3>1, <3>5
    <3>4. QED BY <3>3, SeedSteps
  <2>2. QED BY <2>1
<1>2. ASSUME NEW j \in 1..4
      PROVE  \A step : SeedScript[j] = step => Ahead(todo, n, step)
  <2>1. PICK m \in 1..Len(todo) : m = k + j
    <3>1. k + j \in 1..Len(todo)
      <4>1. k \in Int /\ Len(todo) \in Int /\ Len(todo) >= k + 8
        BY <1>0
      <4>2. k >= 0 /\ j \in Int /\ 1 <= j /\ j <= 4
        OBVIOUS
      <4>3. QED BY <4>1, <4>2
    <3>2. QED BY <3>1
  <2>2. m < n
    BY <1>1, <2>1
  <2>3. todo[k + j] = SeedScript[j]
    <3>1. j \in 1..8
      OBVIOUS
    <3>2. QED BY <1>0, <3>1
  <2>4. QED BY <2>1, <2>2, <2>3 DEF Ahead
<1>3. Ahead(todo, n, TheRule)
  <2>1. 4 \in 1..4
    OBVIOUS
  <2>2. QED BY <1>2, <2>1, SeedSteps
<1>4. ASSUME NEW t \in DemoTenants
      PROVE  Ahead(todo, n, SetTable(t))
  <2>1. PICK j \in 1..3 : SeedScript[j] = SetTable(t)
    BY SeedSteps
  <2>2. j \in 1..4
    OBVIOUS
  <2>3. QED BY <1>2, <2>1, <2>2
<1>5. QED BY <1>3, <1>4

\* The rest of a script.
LEMMA RestOfScript ==
    ASSUME NEW todo \in Seq(DemoSteps), todo # <<>>
    PROVE  /\ Len(todo) \in Nat /\ Len(todo) >= 1
           /\ Head(todo) = todo[1] /\ todo[1] \in DemoSteps
           /\ Tail(todo) \in Seq(DemoSteps) /\ Len(Tail(todo)) = Len(todo) - 1
           /\ \A i \in 1..(Len(todo) - 1) : Tail(todo)[i] = todo[i + 1]
           /\ \A i \in 1..(Len(todo) - 1) : \A step :
                 Ahead(todo, i + 1, step) => todo[1] = step \/ Ahead(Tail(todo), i, step)
<1>1. /\ Len(todo) \in Nat /\ Len(todo) >= 1
      /\ Head(todo) = todo[1] /\ todo[1] \in DemoSteps
      /\ Tail(todo) \in Seq(DemoSteps) /\ Len(Tail(todo)) = Len(todo) - 1
      /\ \A i \in 1..(Len(todo) - 1) : Tail(todo)[i] = todo[i + 1]
  BY HeadTailProperties, LenProperties, EmptySeq
<1> DEFINE rest == Tail(todo)
<1> HIDE DEF rest
<1>2. ASSUME NEW i \in 1..(Len(todo) - 1), NEW step, Ahead(todo, i + 1, step), todo[1] # step
      PROVE  Ahead(rest, i, step)
  <2>1. PICK j \in 1..Len(todo) : j < i + 1 /\ todo[j] = step
    BY <1>2 DEF Ahead
  <2>2. j - 1 \in 1..Len(rest) /\ j - 1 < i /\ j - 1 \in 1..(Len(todo) - 1)
    BY <1>1, <1>2, <2>1 DEF rest
  <2>3. rest[j - 1] = todo[(j - 1) + 1]
    BY <1>1, <2>2 DEF rest
  <2>4. rest[j - 1] = step
    BY <2>1, <2>3
  <2>5. QED BY <2>2, <2>4 DEF Ahead
<1>3. QED BY <1>1, <1>2 DEF rest

\* A session with a script is in it.
LEMMA InScript ==
    ASSUME DeskInv, NEW s \in Sessions, session[s].todo # <<>>
    PROVE  session[s] \in SessionRecords /\ Scripting(session[s])
BY DEF DeskInv, SessionOK, Browsing, Between, Telling

\* What has to be so once the first step of a script has been taken.
Taken(step) ==
    /\ step = TheSeed => RuleArmed /\ \A t \in DemoTenants : InPlace(t)
    /\ \A t \in DemoTenants : step = SetTable(t) => InPlace(t)
    /\ step = TheRule => RuleArmed

\* The first step of a script is taken.
LEMMA ScriptAdvances ==
    ASSUME StoresGoOn, NEW todo \in Seq(DemoSteps), NEW generation,
           ScriptOK(todo, generation), todo # <<>>, todo[1] # TheWipe, Taken(todo[1])'
    PROVE  Tail(todo) \in Seq(DemoSteps) /\ ScriptOK(Tail(todo), generation)'
<1>1. ScriptOK(todo, generation)'
  BY ScriptStays
<1>2. PICK rest : rest = Tail(todo)
  OBVIOUS
<1>3. /\ Len(todo) \in Nat /\ Len(todo) >= 1
      /\ rest \in Seq(DemoSteps) /\ Len(rest) = Len(todo) - 1
      /\ \A i \in 1..(Len(todo) - 1) : rest[i] = todo[i + 1]
      /\ \A i \in 1..(Len(todo) - 1) : \A step :
            Ahead(todo, i + 1, step) => todo[1] = step \/ Ahead(rest, i, step)
  BY <1>2, RestOfScript
<1>4. ASSUME NEW i \in 1..Len(rest)
      PROVE  /\ rest[i] # TheWipe
             /\ rest[i] = TheSeed => app' = "scenario"
             /\ rest[i].do = "propose" => Prepared(rest, generation, i)'
  <2>1. PICK j \in 1..Len(todo) : j = i + 1 /\ j # 1 /\ i \in 1..(Len(todo) - 1)
    <3>1. i + 1 \in 1..Len(todo) /\ i + 1 # 1 /\ i \in 1..(Len(todo) - 1)
      BY <1>3
    <3>2. QED BY <3>1
  <2>2. rest[i] = todo[j]
    BY <1>3, <2>1
  <2>3. /\ todo[j] # TheWipe
        /\ todo[j] = TheSeed => app' = "scenario"
        /\ todo[j].do = "propose" => Prepared(todo, generation, j)'
    BY <1>1, <2>1 DEF ScriptOK
  <2>4. \A step : Ahead(todo, j, step) => todo[1] = step \/ Ahead(rest, i, step)
    BY <1>3, <2>1
  <2>5. Prepared(todo, generation, j)' => Prepared(rest, generation, i)'
    BY <2>4 DEF Prepared, Taken
  <2>6. QED BY <2>2, <2>3, <2>5
<1>5. app' = "approver" => wipes' >= 1
  BY <1>1 DEF ScriptOK
<1>6. rest # <<>> => rest[1] # TheWipe
  <2>1. rest # <<>> => 1 \in 1..Len(rest)
    BY <1>3, EmptySeq, LenProperties
  <2>2. QED BY <1>4, <2>1
<1>7. ASSUME NEW i \in 1..Len(rest)
      PROVE  rest[1] # TheWipe
  <2>1. 1 \in 1..Len(rest)
    BY <1>3
  <2>2. QED BY <1>4, <2>1
<1>8. ScriptOK(rest, generation)'
  BY <1>4, <1>5, <1>7 DEF ScriptOK
<1>9. QED BY <1>2, <1>3, <1>8

\* A session goes on with its script.
LEMMA ScriptMoves ==
    ASSUME DeskInv, StoresGoOn, NEW s \in Sessions, session[s].todo # <<>>,
           session[s].todo[1] # TheWipe,
           \E step : step = session[s].todo[1] /\ Taken(step)',
           StepDone(s), strays \subseteq strays',
           \A a \in DOMAIN actions' : a \notin DOMAIN actions =>
               /\ a \notin strays' => DemoArmedAt(a)'
               /\ app = "approver" => wipes >= 1
               /\ app = "scenario" => RuleArmed /\ \A t \in DemoTenants : InPlace(t)
    PROVE  DeskInv'
<1>1. session[s] \in SessionRecords /\ Scripting(session[s])
  BY InScript
<1>2. PICK x : x = session[s]
  OBVIOUS
<1>3. PICK y : y = [x EXCEPT !.todo = Tail(@)]
  OBVIOUS
<1>4. x \in SessionRecords /\ Scripting(x) /\ x.todo # <<>> /\ x.todo[1] # TheWipe
  BY <1>1, <1>2
<1>11. Taken(x.todo[1])'
  <2>1. PICK step : step = session[s].todo[1] /\ Taken(step)'
    OBVIOUS
  <2>2. step = x.todo[1]
    BY <1>2, <2>1
  <2>3. QED BY <2>1, <2>2
<1>5. x.todo \in Seq(DemoSteps) /\ ScriptOK(x.todo, x.generation)
  BY <1>4 DEF SessionRecords, Scripting
<1>6. Tail(x.todo) \in Seq(DemoSteps) /\ ScriptOK(Tail(x.todo), x.generation)'
  BY <1>4, <1>5, <1>11, ScriptAdvances
<1>7. /\ y \in SessionRecords /\ y.todo = Tail(x.todo) /\ y.generation = x.generation
      /\ y.page = x.page /\ y.voted = x.voted /\ y.message = x.message
  BY <1>3, <1>4, <1>6 DEF SessionRecords
<1>8. SessionOK(y)'
  BY <1>4, <1>6, <1>7 DEF Scripting, SessionOK, StoresGoOn
<1>9. session' = [session EXCEPT ![s] = y]
  BY <1>2, <1>3 DEF StepDone
<1>10. QED BY <1>7, <1>8, <1>9, SessionMoves

-----------------------------------------------------------------------------
(* The actions of a script.                                                *)

\* The step a session is to take next.
LEMMA NextIs ==
    ASSUME DeskInv, NEW s \in Sessions, NEW what, NextStep(s, what)
    PROVE  /\ session[s].todo # <<>>
           /\ session[s].todo[1] \in DemoSteps /\ session[s].todo[1].do = what
           /\ Head(session[s].todo) = session[s].todo[1]
           /\ session[s] \in SessionRecords /\ Scripting(session[s])
<1>1. session[s].todo # <<>> /\ Head(session[s].todo).do = what
  BY DEF NextStep
<1>2. session[s] \in SessionRecords /\ Scripting(session[s])
  BY <1>1, InScript
<1>3. session[s].todo \in Seq(DemoSteps)
  BY <1>2 DEF SessionRecords
<1>4. Head(session[s].todo) = session[s].todo[1] /\ session[s].todo[1] \in DemoSteps
  BY <1>1, <1>3, RestOfScript
<1>5. QED BY <1>1, <1>2, <1>4

\* The kinds of steps are told by what they do.
LEMMA StepKinds ==
    ASSUME NEW step \in DemoSteps
    PROVE  /\ step.do = "wipe" => step = TheWipe
           /\ step.do = "seed" => step = TheSeed
           /\ step.do = "rule" => step = TheRule
           /\ step.do = "table" => step.tenant \in DemoTenants /\ step = SetTable(step.tenant)
           /\ step.do = "propose" => /\ step.tenant \in DemoTenants /\ step.event \in DemoEvents
                                     /\ step.type \in DemoTypes /\ step.by \in Planners
           /\ TheWipe.do = "wipe" /\ TheSeed.do = "seed" /\ TheRule.do = "rule"
           /\ \A t : SetTable(t).do = "table" /\ SetTable(t).tenant = t
BY DEF DemoSteps, TheWipe, TheSeed, TheRule, SetTable

\* A script's next step installs a table; the invariant stays.
LEMMA TableKeeps ==
    ASSUME DeskAssumption, DeskInv, NEW s \in Sessions, InstallTable(s)
    PROVE  DeskInv'
<1>1. PICK step : step = session[s].todo[1]
  OBVIOUS
<1>2. /\ session[s].todo # <<>> /\ step \in DemoSteps /\ step.do = "table"
      /\ Head(session[s].todo) = step
  BY <1>1, NextIs DEF InstallTable
<1>3. PICK u \in DemoTenants : u = step.tenant /\ step = SetTable(u)
  BY <1>2, StepKinds
<1>4. SetPolicies(u, DemoTable(u)) /\ UNCHANGED <<app, wipes, lastId, strays>> /\ StepDone(s)
  BY <1>2, <1>3 DEF InstallTable
<1>5. StoresGoOn /\ DOMAIN actions' = DOMAIN actions /\ InPlace(u)'
  BY <1>4, TableGoesOn
<1>6. step # TheWipe /\ step # TheSeed /\ step # TheRule
      /\ \A t \in DemoTenants : step = SetTable(t) => t = u
  BY <1>2, <1>3, StepKinds
<1>7. Taken(step)'
  BY <1>5, <1>6 DEF Taken
<1>8. QED BY <1>1, <1>2, <1>4, <1>5, <1>6, <1>7, ScriptMoves

\* A script arms the rule.
LEMMA RuleKeeps ==
    ASSUME DeskAssumption, DeskInv, NEW s \in Sessions, ArmRule(s)
    PROVE  DeskInv'
<1>1. PICK step : step = session[s].todo[1]
  OBVIOUS
<1>2. session[s].todo # <<>> /\ step \in DemoSteps /\ step.do = "rule"
  BY <1>1, NextIs DEF ArmRule
<1>3. SetQuorumRule(Bank, "notify_loan_officer", FourEyes)
      /\ UNCHANGED <<app, wipes, lastId, strays>> /\ StepDone(s)
  BY DEF ArmRule
<1>4. StoresGoOn /\ DOMAIN actions' = DOMAIN actions /\ RuleArmed'
  BY <1>3, RuleGoesOn
<1>5. step # TheWipe /\ step # TheSeed /\ \A t \in DemoTenants : step # SetTable(t)
  BY <1>2, StepKinds
<1>6. Taken(step)'
  BY <1>4, <1>5 DEF Taken
<1>7. QED BY <1>1, <1>2, <1>3, <1>4, <1>5, <1>6, ScriptMoves

\* A script proposes for an event that has its action.
LEMMA PushAgainKeeps ==
    ASSUME DeskInv, NEW s \in Sessions, PushAgain(s)
    PROVE  DeskInv'
<1>1. PICK step : step = session[s].todo[1]
  OBVIOUS
<1>2. session[s].todo # <<>> /\ step \in DemoSteps /\ step.do = "propose"
  BY <1>1, NextIs DEF PushAgain
<1>3. UNCHANGED <<vars, app, wipes, lastId, strays>> /\ StepDone(s)
  BY DEF PushAgain
<1>4. StoresGoOn /\ DOMAIN actions' = DOMAIN actions
  BY <1>3, NothingGoesOn
<1>5. /\ step # TheWipe /\ step # TheSeed /\ step # TheRule
      /\ \A t \in DemoTenants : step # SetTable(t)
  BY <1>2, StepKinds
<1>6. Taken(step)'
  BY <1>5 DEF Taken
<1>7. QED BY <1>1, <1>2, <1>3, <1>4, <1>5, <1>6, ScriptMoves

\* When a script proposes, the tables are in place, and the rule unless a clear has
\* overtaken the script.
LEMMA ProposesPrepared ==
    ASSUME DeskInv, NEW x, Scripting(x), x.todo \in Seq(DemoSteps), x.todo # <<>>,
           x.todo[1].do = "propose"
    PROVE  /\ \A t \in DemoTenants : InPlace(t)
           /\ x.generation = wipes => RuleArmed
           /\ app = "approver" => wipes >= 1
<1>1. 1 \in 1..Len(x.todo)
  BY EmptySeq, LenProperties
<1>2. \A step : ~Ahead(x.todo, 1, step)
  BY DEF Ahead
<1>3. Prepared(x.todo, x.generation, 1)
  BY <1>1 DEF Scripting, ScriptOK
<1>4. x.todo[1] # TheWipe
  BY StepKinds, <1>1, RestOfScript
<1>5. QED BY <1>2, <1>3, <1>4 DEF Prepared, Scripting, ScriptOK

\* What a demo table says of the demo's types.
LEMMA TablesSay ==
    ASSUME NEW t \in DemoTenants, DemoTypes \subseteq ActionTypes
    PROVE  /\ DemoTable(t)["send_borrower_message"] = "auto"
           /\ DemoTable(Bank)["notify_loan_officer"] = "approval_required"
BY DEF DemoTable, DemoTypes, Bank, Concierge

\* A proposal under the demo's tables and rule is what the demo promises.
LEMMA ProposesArmed ==
    ASSUME DeskAssumption, NEW a, a \notin DOMAIN rows,
           NEW t \in DemoTenants, NEW e, NEW ty \in DemoTypes, NEW by,
           ProposeQueue(a, t, e, ty, by) \/ ProposeAuto(a, t, e, ty, by, TRUE),
           InPlace(t), RuleArmed
    PROVE  DemoArmedAt(a)'
<1>1. actions'[a].tenant = t /\ actions'[a].type = ty
  <2>1. \E status : Put(a, t, e, ty, status)
    BY DEF ProposeQueue, ProposeAuto
  <2>2. QED BY <2>1 DEF Put, DictPut
<1>2. DemoTypes \subseteq ActionTypes
  BY DEF DeskAssumption
<1>3. ASSUME ty = "send_borrower_message"
      PROVE  a \notin DOMAIN rows'
  <2>1. policy[t][ty] = "auto"
    BY <1>2, <1>3, TablesSay DEF InPlace
  <2>2. ProposeAuto(a, t, e, ty, by, TRUE)
    BY <2>1 DEF ProposeQueue
  <2>3. QED BY <2>2 DEF ProposeAuto, queueVars
<1>4. ASSUME ty = "notify_loan_officer", t = Bank
      PROVE  a \in DOMAIN rows' /\ <<rows'[a].required, rows'[a].eligible>> = <<2, Officers>>
  <2>1. policy[t][ty] = "approval_required"
    BY <1>2, <1>4, TablesSay DEF InPlace
  <2>2. ProposeQueue(a, t, e, ty, by)
    BY <2>1 DEF ProposeAuto
  <2>3. ResolveQuorum(t, ty) = FourEyes
    BY <1>4 DEF ResolveQuorum, RuleArmed, RuleKey
  <2>4. Enqueue(a, t, FourEyes)
    BY <2>2, <2>3 DEF ProposeQueue
  <2>5. QED BY <2>4 DEF Enqueue, DictPut, FourEyes
<1>5. QED BY <1>1, <1>3, <1>4 DEF DemoArmedAt

\* A script proposes: tables and rule were in place, or its clear has been overtaken
\* and the action is a stray.
LEMMA PushNewKeeps ==
    ASSUME DeskAssumption, DeskInv, NEW s \in Sessions, PushNew(s)
    PROVE  DeskInv'
<1>1. PICK x : x = session[s]
  OBVIOUS
<1>2. PICK step : step = x.todo[1]
  OBVIOUS
<1>3. /\ x.todo # <<>> /\ step \in DemoSteps /\ step.do = "propose"
      /\ Head(x.todo) = step /\ x \in SessionRecords /\ Scripting(x)
  BY <1>1, <1>2, NextIs DEF PushNew
<1>4. PICK a \in ActionIds : a = lastId + 1
  BY DEF PushNew
<1>5. PICK t \in DemoTenants, e \in DemoEvents, ty \in DemoTypes, by \in Planners :
          step.tenant = t /\ step.event = e /\ step.type = ty /\ step.by = by
  BY <1>3, StepKinds
<1>6. /\ ProposeQueue(a, t, e, ty, by) \/ ProposeAuto(a, t, e, ty, by, TRUE)
      /\ lastId' = a /\ UNCHANGED <<app, wipes>> /\ StepDone(s)
      /\ strays' = IF x.generation = wipes THEN strays ELSE strays \cup {a}
  BY <1>1, <1>3, <1>4, <1>5 DEF PushNew
<1>7. t \in Tenants /\ e \in Events /\ ty \in ActionTypes
  BY DEF DeskAssumption
<1>8. HandleProposal(a, t, e, ty, by)
  BY <1>6 DEF HandleProposal
<1>9. /\ StoresGoOn
      /\ DOMAIN actions' = DOMAIN actions \cup {a} /\ a \notin DOMAIN actions
  BY <1>4, <1>6, <1>7, <1>8, ProposalGoesOn
<1>10. /\ \A u \in DemoTenants : InPlace(u)
       /\ x.generation = wipes => RuleArmed
       /\ app = "approver" => wipes >= 1
  BY <1>2, <1>3, ProposesPrepared DEF SessionRecords
<1>11. a \notin DOMAIN rows
  BY <1>9 DEF DeskInv, PipelineInv, RecordInv, RecordOK, NoRecord
<1>12. a \notin strays' => DemoArmedAt(a)'
  <2>1. a \notin strays' => x.generation = wipes
    BY <1>6
  <2>2. QED BY <1>6, <1>10, <1>11, <2>1, ProposesArmed
<1>13. app = "scenario" => RuleArmed
  BY <1>3, <1>10 DEF DeskInv, Scripting, SessionRecords
<1>14. /\ step # TheWipe /\ step # TheSeed /\ step # TheRule
       /\ \A u \in DemoTenants : step # SetTable(u)
  BY <1>3, StepKinds
<1>15. Taken(step)'
  BY <1>14 DEF Taken
<1>16. \A b \in DOMAIN actions' : b \notin DOMAIN actions =>
          /\ b \notin strays' => DemoArmedAt(b)'
          /\ app = "approver" => wipes >= 1
          /\ app = "scenario" => RuleArmed /\ \A u \in DemoTenants : InPlace(u)
  <2>1. SUFFICES ASSUME NEW b \in DOMAIN actions', b \notin DOMAIN actions
                 PROVE  /\ b \notin strays' => DemoArmedAt(b)'
                        /\ app = "approver" => wipes >= 1
                        /\ app = "scenario" => RuleArmed /\ \A u \in DemoTenants : InPlace(u)
    OBVIOUS
  <2>2. b = a
    BY <1>9, <2>1
  <2>3. QED BY <1>10, <1>12, <1>13, <2>2
<1>17. strays \subseteq strays'
  BY <1>6
<1>18. /\ session[s].todo # <<>> /\ session[s].todo[1] # TheWipe
       /\ \E st : st = session[s].todo[1] /\ Taken(st)'
  BY <1>1, <1>2, <1>3, <1>14, <1>15
<1>19. QED BY <1>6, <1>9, <1>16, <1>17, <1>18, ScriptMoves

\* A session moves and nothing else.
LEMMA OnlySession ==
    ASSUME DeskInv, NEW s \in Sessions, NEW y \in SessionRecords,
           session' = [session EXCEPT ![s] = y],
           UNCHANGED <<vars, app, lastId, wipes, strays>>, SessionOK(y)
    PROVE  DeskInv'
<1>1. StoresGoOn /\ DOMAIN actions' = DOMAIN actions
  BY NothingGoesOn
<1>2. DOMAIN actions \subseteq 1..lastId
  BY DEF DeskInv
<1>3. SessionOK(y)'
  BY <1>1, <1>2, SessionStays
<1>4. QED BY <1>1, <1>3, SessionMoves

\* The walkthrough is opened: its own proposals come after two seeds
\* (build_scenario_state).
LEMMA OpenScenarioKeeps ==
    ASSUME DeskInv, NEW s \in Sessions, OpenScenario(s)
    PROVE  DeskInv'
<1>1. PICK x : x = session[s]
  OBVIOUS
<1>2. x \in SessionRecords /\ SessionOK(x) /\ app = "scenario" /\ wipes = 0
  BY <1>1 DEF DeskInv, OpenScenario
<1>3. Scripting(x)
  BY <1>2 DEF SessionOK, Browsing, Between, Telling
<1>4. PICK todo : todo = ScenarioScript
  OBVIOUS
<1>5. /\ todo[1] = TheSeed /\ todo[2] = TheSeed /\ Len(todo) = 4
      /\ todo[3] = ProposeDemo(Bank, "jane_upload", "send_borrower_message", "llm")
      /\ todo[4] = ProposeDemo(Bank, "jane_anomaly", "notify_loan_officer", "llm")
      /\ todo = [i \in 1..4 |-> todo[i]]
  BY <1>4 DEF ScenarioScript, TheSeed
<1>6. todo[3] \in DemoSteps /\ todo[4] \in DemoSteps /\ TheSeed \in DemoSteps
  BY <1>5 DEF ProposeDemo, DemoSteps, DemoTenants, DemoEvents, DemoTypes, Planners
<1>7. todo[3].do = "propose" /\ todo[4].do = "propose"
  BY <1>5 DEF ProposeDemo
<1>8. TheWipe.do = "wipe" /\ TheSeed.do = "seed"
  BY DEF TheWipe, TheSeed
<1>9. todo \in Seq(DemoSteps)
  <2>1. \A i \in 1..4 : todo[i] \in DemoSteps
    BY <1>5, <1>6
  <2>2. QED BY <1>5, <2>1
<1>10. ASSUME NEW i \in 1..4
       PROVE  /\ todo[i] # TheWipe
              /\ todo[i].do = "propose" => Ahead(todo, i, TheSeed)
  <2>1. todo[i] # TheWipe
    BY <1>5, <1>7, <1>8
  <2>2. ASSUME todo[i].do = "propose"
        PROVE  1 < i
    BY <1>5, <1>8, <2>2
  <2>3. QED BY <1>5, <2>1, <2>2 DEF Ahead
<1>11. ScriptOK(todo, x.generation)
  <2>1. todo[1] # TheWipe /\ todo[1].do # "propose"
    BY <1>5, <1>8
  <2>2. app # "approver"
    BY <1>2
  <2>3. QED BY <1>2, <1>5, <1>10, <2>1, <2>2 DEF ScriptOK, Prepared
<1>12. PICK y : y = [x EXCEPT !.todo = todo]
  OBVIOUS
<1>13. /\ y \in SessionRecords /\ y.todo = todo /\ y.generation = x.generation
       /\ y.page = x.page /\ y.voted = x.voted /\ y.message = x.message
  BY <1>2, <1>9, <1>12 DEF SessionRecords
<1>14. SessionOK(y)
  BY <1>3, <1>11, <1>13 DEF Scripting, SessionOK
<1>15. session' = [session EXCEPT ![s] = y] /\ UNCHANGED <<vars, app, lastId, wipes, strays>>
  BY <1>1, <1>4, <1>12 DEF OpenScenario
<1>16. QED BY <1>13, <1>14, <1>15, OnlySession

\* The script of the seed button.
LEMMA SeedButtonKeeps ==
    ASSUME DeskInv, NEW s \in Sessions, SeedButton(s)
    PROVE  DeskInv'
<1>1. PICK todo : todo = <<TheWipe>> \o SeedScript
  OBVIOUS
<1>2. SeedAfter(todo, 1) /\ Len(todo) = 9 /\ todo[1] = TheWipe
  BY <1>1, WipeThenSeed
<1>3. todo \in Seq(DemoSteps) /\ app = "approver" /\ wipes \in Nat
  BY <1>2 DEF SeedAfter, SeedButton, DeskInv
<1>4. ASSUME NEW i \in 1..Len(todo)
      PROVE  /\ todo[i] = TheWipe => i = 1
             /\ todo[i] # TheSeed
             /\ todo[i].do = "propose" =>
                   /\ Ahead(todo, i, TheRule)
                   /\ \A t \in DemoTenants : Ahead(todo, i, SetTable(t))
  <2>1. CASE i = 1
    <3>1. TheWipe.do = "wipe" /\ TheSeed.do = "seed"
      BY DEF TheWipe, TheSeed
    <3>2. QED BY <1>2, <2>1, <3>1
  <2>2. CASE i # 1
    <3>1. PICK j \in 1..8 : i = 1 + j
      <4>1. i - 1 \in 1..8 /\ i = 1 + (i - 1)
        BY <1>2, <2>2
      <4>2. QED BY <4>1
    <3>2. todo[i] = SeedScript[j]
      BY <1>2, <3>1 DEF SeedAfter
    <3>3. todo[i] # TheWipe /\ todo[i] # TheSeed
      BY <3>2, SeedSteps
    <3>4. 1 \in {0, 1} /\ i > 1
      BY <2>2
    <3>5. todo[i].do = "propose" =>
              /\ Ahead(todo, i, TheRule)
              /\ \A t \in DemoTenants : Ahead(todo, i, SetTable(t))
      BY <1>2, <3>4, SeedIsAhead
    <3>6. QED BY <3>3, <3>5
  <2>3. QED BY <2>1, <2>2
<1>5. ScriptOK(todo, 0)
  BY <1>2, <1>3, <1>4 DEF ScriptOK, Prepared
<1>6. PICK y : y = [NewSession EXCEPT !.todo = todo]
  OBVIOUS
<1>7. /\ y \in SessionRecords /\ y.todo = todo /\ y.generation = 0
      /\ y.page = {} /\ y.voted = NoVote /\ y.message = NoMessage
  BY <1>3, <1>6 DEF NewSession, SessionRecords, NoVote, Messages, OpenPool, DemoTenants
<1>8. SessionOK(y)
  BY <1>3, <1>5, <1>7 DEF Scripting, SessionOK
<1>9. session' = [session EXCEPT ![s] = y] /\ UNCHANGED <<vars, app, lastId, wipes, strays>>
  BY <1>1, <1>6 DEF SeedButton, TheWipe
<1>10. QED BY <1>7, <1>8, <1>9, OnlySession

\* An empty pipeline is seeded.
LEMMA SeedsEmpty ==
    ASSUME DeskInv, NEW x \in SessionRecords, Scripting(x), x.todo # <<>>,
           x.todo[1] = TheSeed
    PROVE  /\ SeedScript \o Tail(x.todo) \in Seq(DemoSteps)
           /\ ScriptOK(SeedScript \o Tail(x.todo), x.generation)
<1>1. PICK old : old = x.todo
  OBVIOUS
<1>2. PICK rest : rest = Tail(old)
  OBVIOUS
<1>3. PICK todo : todo = SeedScript \o rest
  OBVIOUS
<1>4. old \in Seq(DemoSteps) /\ old # <<>> /\ old[1] = TheSeed /\ ScriptOK(old, x.generation)
  BY <1>1 DEF SessionRecords, Scripting
<1>5. /\ Len(old) \in Nat /\ Len(old) >= 1
      /\ rest \in Seq(DemoSteps) /\ Len(rest) = Len(old) - 1
      /\ \A i \in 1..(Len(old) - 1) : rest[i] = old[i + 1]
  BY <1>2, <1>4, RestOfScript
<1>6. /\ SeedAfter(todo, 0) /\ Len(rest) \in Nat /\ Len(todo) = 8 + Len(rest)
      /\ \A i \in 1..Len(rest) : todo[8 + i] = rest[i]
  BY <1>3, <1>5, AfterSeed
<1>7. app = "scenario"
  BY <1>4, <1>5 DEF ScriptOK
<1>8. ASSUME NEW i \in 1..Len(todo)
      PROVE  todo[i] # TheWipe
  <2>1. CASE i <= 8
    <3>1. i \in 1..8 /\ 0 + i = i
      BY <2>1
    <3>2. todo[0 + i] = SeedScript[i]
      BY <1>6, <3>1 DEF SeedAfter
    <3>3. QED BY <3>1, <3>2, SeedSteps
  <2>2. CASE i > 8
    <3>1. PICK j \in 1..Len(rest) : i = 8 + j
      <4>1. i - 8 \in 1..Len(rest) /\ i = 8 + (i - 8)
        BY <1>6, <2>2
      <4>2. QED BY <4>1
    <3>2. todo[i] = rest[j] /\ rest[j] = old[j + 1]
      BY <1>5, <1>6, <3>1
    <3>3. j + 1 \in 1..Len(old) /\ j + 1 # 1
      BY <1>5
    <3>4. old[j + 1] # TheWipe
      BY <1>4, <3>3 DEF ScriptOK
    <3>5. QED BY <3>2, <3>4
  <2>3. QED BY <1>6, <2>1, <2>2
<1>9. ASSUME NEW i \in 1..Len(todo), todo[i].do = "propose"
      PROVE  /\ Ahead(todo, i, TheRule)
             /\ \A t \in DemoTenants : Ahead(todo, i, SetTable(t))
  <2>1. 0 \in {0, 1} /\ i > 0
    OBVIOUS
  <2>2. QED BY <1>6, <1>9, <2>1, SeedIsAhead
<1>10. ScriptOK(todo, x.generation)
  <2>1. app # "approver"
    BY <1>7
  <2>2. QED BY <1>7, <1>8, <1>9, <2>1 DEF ScriptOK, Prepared
<1>11. todo \in Seq(DemoSteps)
  BY <1>6 DEF SeedAfter
<1>12. QED BY <1>1, <1>2, <1>3, <1>10, <1>11

\* seed_demo_data without force: with audit rows there is nothing to do, and tables
\* and rule are there; without, it does all of it.
LEMMA SeedIfEmptyKeeps ==
    ASSUME DeskInv, NEW s \in Sessions, SeedIfEmpty(s)
    PROVE  DeskInv'
<1>1. PICK x : x = session[s]
  OBVIOUS
<1>2. /\ x.todo # <<>> /\ x.todo[1] \in DemoSteps /\ x.todo[1].do = "seed"
      /\ x \in SessionRecords /\ Scripting(x)
  BY <1>1, NextIs DEF SeedIfEmpty
<1>3. x.todo[1] = TheSeed /\ TheSeed.do = "seed" /\ TheWipe.do = "wipe"
      /\ TheRule.do = "rule" /\ \A t : SetTable(t).do = "table"
  BY <1>2, StepKinds
<1>4. UNCHANGED <<vars, app, lastId, wipes, strays>>
  BY DEF SeedIfEmpty
<1>5. CASE \E a \in ActionIds : trail[a] # <<>>
  <2>1. StepDone(s)
    BY <1>5 DEF SeedIfEmpty, StepDone
  <2>2. app = "scenario"
    <3>1. x.todo \in Seq(DemoSteps) /\ 1 \in 1..Len(x.todo)
      BY <1>2, RestOfScript DEF SessionRecords
    <3>2. QED BY <1>2, <1>3, <3>1 DEF Scripting, ScriptOK
  <2>3. DOMAIN actions # {}
    BY <1>5 DEF DeskInv, PipelineInv, RecordInv, RecordOK, NoRecord
  <2>4. RuleArmed /\ \A t \in DemoTenants : InPlace(t)
    BY <2>2, <2>3 DEF DeskInv
  <2>5. StoresGoOn /\ DOMAIN actions' = DOMAIN actions
    BY <1>4, NothingGoesOn
  <2>6. Taken(TheSeed)'
    BY <1>3, <2>4, <2>5 DEF Taken, StoresGoOn
  <2>7. /\ session[s].todo # <<>> /\ session[s].todo[1] # TheWipe
        /\ \E st : st = session[s].todo[1] /\ Taken(st)'
    BY <1>1, <1>2, <1>3, <2>6
  <2>8. QED BY <1>4, <2>1, <2>5, <2>7, ScriptMoves
<1>6. CASE ~\E a \in ActionIds : trail[a] # <<>>
  <2>1. PICK todo : todo = SeedScript \o Tail(x.todo)
    OBVIOUS
  <2>2. todo \in Seq(DemoSteps) /\ ScriptOK(todo, x.generation)
    BY <1>2, <1>3, <2>1, SeedsEmpty
  <2>3. PICK y : y = [x EXCEPT !.todo = todo]
    OBVIOUS
  <2>4. /\ y \in SessionRecords /\ y.todo = todo /\ y.generation = x.generation
        /\ y.page = x.page /\ y.voted = x.voted /\ y.message = x.message
    BY <1>2, <2>2, <2>3 DEF SessionRecords
  <2>5. SessionOK(y)
    BY <1>2, <2>2, <2>4 DEF Scripting, SessionOK
  <2>6. session' = [session EXCEPT ![s] = y]
    BY <1>1, <1>6, <2>1, <2>3 DEF SeedIfEmpty
  <2>7. QED BY <1>4, <2>4, <2>5, <2>6, OnlySession
<1>7. QED BY <1>5, <1>6

\* seed_demo_data(force=True) forgets everything.
LEMMA WipeKeeps ==
    ASSUME DeskInv, NEW s \in Sessions, Wipe(s)
    PROVE  DeskInv'
<1>1. PICK x : x = session[s]
  OBVIOUS
<1>2. /\ x.todo # <<>> /\ x.todo[1] \in DemoSteps /\ x.todo[1].do = "wipe"
      /\ x \in SessionRecords /\ Scripting(x)
  BY <1>1, NextIs DEF Wipe
<1>3. x.todo[1] = TheWipe /\ TheWipe.do = "wipe" /\ \A t : SetTable(t).do = "table"
      /\ TheRule.do = "rule"
  BY <1>2, StepKinds
<1>4. PICK todo : todo = x.todo
  OBVIOUS
<1>5. PICK rest : rest = Tail(todo)
  OBVIOUS
<1>22. PICK g : g = wipes + 1
  OBVIOUS
<1>6. todo \in Seq(DemoSteps) /\ todo # <<>> /\ todo[1] = TheWipe /\ ScriptOK(todo, x.generation)
  BY <1>2, <1>3, <1>4 DEF SessionRecords, Scripting
<1>7. /\ Len(todo) \in Nat /\ Len(todo) >= 1
      /\ rest \in Seq(DemoSteps) /\ Len(rest) = Len(todo) - 1
      /\ \A i \in 1..(Len(todo) - 1) : rest[i] = todo[i + 1]
      /\ \A i \in 1..(Len(todo) - 1) : \A step :
            Ahead(todo, i + 1, step) => todo[1] = step \/ Ahead(rest, i, step)
  BY <1>5, <1>6, RestOfScript
<1>8. app = "approver"
  BY <1>6, <1>7 DEF ScriptOK
<1>9. /\ Clear /\ wipes \in Nat /\ wipes' = wipes + 1 /\ wipes' \in Nat /\ wipes' >= 1
      /\ UNCHANGED <<app, lastId>> /\ strays' = {}
  BY DEF Wipe, DeskInv
<1>10. UNCHANGED policy /\ DOMAIN actions' = {}
  BY <1>9 DEF Clear
<1>11. ASSUME NEW i \in 1..Len(rest)
       PROVE  /\ rest[i] # TheWipe /\ rest[i] # TheSeed
              /\ rest[i].do = "propose" => Prepared(rest, g, i)'
  <2>1. PICK j \in 1..Len(todo) : j = i + 1 /\ j # 1 /\ i \in 1..(Len(todo) - 1)
    <3>1. i + 1 \in 1..Len(todo) /\ i + 1 # 1 /\ i \in 1..(Len(todo) - 1)
      BY <1>7
    <3>2. QED BY <3>1
  <2>2. rest[i] = todo[j] /\ \A step : Ahead(todo, j, step) => todo[1] = step \/ Ahead(rest, i, step)
    BY <1>7, <2>1
  <2>3. todo[j] # TheWipe /\ todo[j] # TheSeed
    BY <1>6, <1>8, <2>1 DEF ScriptOK
  <2>4. ASSUME rest[i].do = "propose"
        PROVE  Prepared(rest, g, i)'
    <3>1. Prepared(todo, x.generation, j) /\ Ahead(todo, j, TheRule)
      BY <1>6, <2>2, <2>4 DEF ScriptOK
    <3>2. ~Ahead(todo, j, TheSeed)
      BY <1>6, <1>8 DEF ScriptOK, Ahead
    <3>3. \A t \in DemoTenants : InPlace(t) \/ Ahead(todo, j, SetTable(t))
      BY <3>1, <3>2 DEF Prepared
    <3>4. \A t \in DemoTenants : InPlace(t)' \/ Ahead(rest, i, SetTable(t))
      BY <1>3, <1>6, <1>10, <2>2, <3>3 DEF InPlace
    <3>5. Ahead(rest, i, TheRule)
      BY <1>3, <1>6, <2>2, <3>1, StepKinds, SeedSteps DEF TheRule, TheWipe
    <3>6. QED BY <3>4, <3>5 DEF Prepared
  <2>5. QED BY <2>2, <2>3, <2>4
<1>12. ScriptOK(rest, g)'
  <2>1. ASSUME NEW i \in 1..Len(rest)
        PROVE  rest[1] # TheWipe
    <3>1. 1 \in 1..Len(rest)
      BY <1>7
    <3>2. QED BY <1>11, <3>1
  <2>2. QED BY <1>9, <1>11, <2>1 DEF ScriptOK
<1>13. PICK y : y = [x EXCEPT !.todo = rest, !.generation = wipes + 1]
  OBVIOUS
<1>14. /\ y \in SessionRecords /\ y.todo = rest /\ y.generation = wipes + 1
       /\ y.page = x.page /\ y.voted = x.voted /\ y.message = x.message
  BY <1>2, <1>7, <1>9, <1>13 DEF SessionRecords
<1>15. SessionOK(y)'
  <2>1. ScriptOK(y.todo, y.generation)'
    <3>1. y.generation = g
      BY <1>14, <1>22
    <3>2. QED BY <1>12, <1>14, <3>1
  <2>2. y.generation <= wipes'
    BY <1>9, <1>14
  <2>3. QED BY <1>2, <1>14, <2>1, <2>2 DEF Scripting, SessionOK
<1>16. session' = [session EXCEPT ![s] = y]
  <2>1. session' = [session EXCEPT ![s].todo = Tail(@), ![s].generation = wipes + 1]
    BY DEF Wipe
  <2>2. session \in [Sessions -> SessionRecords]
    BY DEF DeskInv
  <2>3. QED BY <1>1, <1>2, <1>4, <1>5, <1>13, <2>1, <2>2 DEF SessionRecords
<1>17. /\ session' \in [Sessions -> SessionRecords] /\ session'[s] = y
       /\ \A r \in Sessions : r # s => session'[r] = session[r]
  BY <1>14, <1>16 DEF DeskInv
<1>18. ASSUME NEW r \in Sessions
       PROVE  SessionOK(session[r])'
  <2>1. CASE r = s
    BY <1>15, <1>17, <2>1
  <2>2. CASE r # s
    <3>1. PICK z : z = session[r]
      OBVIOUS
    <3>2. z \in SessionRecords /\ SessionOK(z) /\ z = session'[r]
      BY <1>17, <2>2, <3>1 DEF DeskInv
    <3>3. SessionOK(z)'
      BY <1>9, <3>2, SessionWiped
    <3>4. QED BY <3>2, <3>3
  <2>3. QED BY <2>1, <2>2
<1>19. PipelineInv'
  BY <1>9, PipelineInvClear DEF DeskInv
<1>20. DemoArmed'
  BY <1>10 DEF DemoArmed
<1>21. QED BY <1>8, <1>9, <1>10, <1>17, <1>18, <1>19, <1>20 DEF DeskInv

-----------------------------------------------------------------------------
(* The actions of the dashboard.                                           *)

\* The dashboard shows a tenant's pending rows (_render_pending_queue).
LEMMA RenderKeeps ==
    ASSUME DeskAssumption, DeskInv, NEW s \in Sessions, NEW t \in DemoTenants, Render(s, t)
    PROVE  DeskInv'
<1>1. /\ app = "approver" /\ pendingByTenant[t] # <<>> /\ t \in Tenants
      /\ UNCHANGED <<vars, app, lastId, wipes, strays>>
  BY DEF Render, DeskAssumption
<1>2. PICK page : page = Range(pendingByTenant[t])
  OBVIOUS
<1>3. PICK y : y = [NewSession EXCEPT !.tenant = t, !.page = page]
  OBVIOUS
<1>4. PipelineInv /\ wipes \in Nat /\ lastId \in Nat /\ DOMAIN actions \subseteq 1..lastId
  BY DEF DeskInv
<1>5. page = {a \in DOMAIN rows : rows[a].state = "pending" /\ rows[a].tenant = t}
  BY <1>1, <1>2, <1>4 DEF PipelineInv, QueueInv, PendingListExact
<1>6. QueueMatchesStore
  BY <1>4, RecordTells DEF PipelineInv
<1>7. \A a \in page : a \in DOMAIN actions /\ a \in DOMAIN rows /\ actions[a].tenant = t
  BY <1>5, <1>6 DEF QueueMatchesStore
<1>8. page # {}
  <2>1. pendingByTenant[t] \in Seq(ActionIds)
    BY <1>1, <1>4 DEF PipelineInv, PipelineTypeOK, QueueTypeOK
  <2>2. 1 \in DOMAIN pendingByTenant[t]
    BY <1>1, <2>1, EmptySeq, LenProperties
  <2>3. QED BY <1>2, <2>2 DEF Range
<1>9. wipes >= 1
  <2>1. wipes # 0
    BY <1>1, <1>7, <1>8 DEF DeskInv
  <2>2. QED BY <1>4, <2>1
<1>10. page \in SUBSET Nat
  BY <1>4, <1>7
<1>11. /\ y \in SessionRecords /\ y.todo = <<>> /\ y.generation = 0 /\ y.tenant = t
       /\ y.page = page /\ y.voted = NoVote /\ y.message = NoMessage
  <2>1. PICK fresh : fresh = NewSession
    OBVIOUS
  <2>2. /\ fresh \in SessionRecords /\ fresh.todo = <<>> /\ fresh.generation = 0
        /\ fresh.voted = NoVote /\ fresh.message = NoMessage
    BY <2>1 DEF NewSession, SessionRecords, NoVote, Messages, OpenPool, DemoTenants
  <2>3. QED BY <1>3, <1>10, <2>1, <2>2 DEF SessionRecords
<1>12. PageOK(y)
  BY <1>4, <1>7, <1>11 DEF PageOK
<1>13. SessionOK(y)
  BY <1>1, <1>9, <1>11, <1>12 DEF Browsing, SessionOK
<1>14. session' = [session EXCEPT ![s] = y]
  BY <1>2, <1>3 DEF Render
<1>15. QED BY <1>1, <1>11, <1>13, <1>14, OnlySession

\* A session whose page is clicked shows one.
LEMMA Clicked ==
    ASSUME DeskInv, NEW s \in Sessions, NEW a, Clicks(s, a)
    PROVE  session[s] \in SessionRecords /\ Browsing(session[s]) /\ a \in session[s].page
<1>1. /\ session[s] \in SessionRecords /\ SessionOK(session[s])
      /\ a \in session[s].page /\ session[s].voted = NoVote
  BY DEF DeskInv, Clicks, Ready
<1>2. ~Scripting(session[s]) /\ ~Between(session[s]) /\ ~Telling(session[s])
  BY <1>1 DEF Scripting, Between, Telling
<1>3. QED BY <1>1, <1>2 DEF SessionOK

\* What a call that raises is shown as is so.
LEMMA ErrorIsSo ==
    ASSUME NEW x, PageOK(x), NEW a \in x.page, NEW v, NEW vetoes,
           ErrorOf(a, v, x.tenant, vetoes) # "none",
           NEW m, m.kind = ErrorOf(a, v, x.tenant, vetoes), m.action = a, m.by = v
    PROVE  Said(m) /\ m.kind \in Verbs
<1>1. a \in 1..lastId /\ (a \in DOMAIN actions => a \in DOMAIN rows /\ actions[a].tenant = x.tenant)
  BY DEF PageOK
<1>2. CASE ~Visible(a, x.tenant) \/ a \notin DOMAIN rows
  <2>1. m.kind = "not_found" /\ a \notin DOMAIN actions
    BY <1>1, <1>2 DEF ErrorOf, Visible
  <2>2. QED BY <1>1, <2>1 DEF Said, Verbs
<1>3. CASE ~(~Visible(a, x.tenant) \/ a \notin DOMAIN rows)
  BY <1>3 DEF ErrorOf, Said, RowSays, Verbs
<1>4. QED BY <1>2, <1>3

\* A click that raises is shown as the error it is.
LEMMA RaisesKeeps ==
    ASSUME DeskAssumption, DeskInv, NEW s \in Sessions, NEW a \in ActionIds, NEW v \in Voters,
           NEW vetoes \in BOOLEAN, ClickRaises(s, a, v, vetoes)
    PROVE  DeskInv'
<1>1. PICK x : x = session[s]
  OBVIOUS
<1>2. x \in SessionRecords /\ Browsing(x) /\ a \in x.page
  BY <1>1, Clicked DEF ClickRaises
<1>3. PICK m : m = [kind |-> ErrorOf(a, v, x.tenant, vetoes), action |-> a, by |-> v]
  OBVIOUS
<1>4. ErrorOf(a, v, x.tenant, vetoes) # "none" /\ UNCHANGED <<vars, app, lastId, wipes, strays>>
  BY <1>1 DEF ClickRaises
<1>5. m.kind = ErrorOf(a, v, x.tenant, vetoes) /\ m.action = a /\ m.by = v
  BY <1>3
<1>6. Said(m) /\ m.kind \in Verbs
  BY <1>2, <1>4, <1>5, ErrorIsSo DEF Browsing
<1>7. m \in Messages
  BY <1>2, <1>3, <1>5, <1>6 DEF Messages, SessionRecords
<1>8. PICK y : y = [x EXCEPT !.message = m, !.voted = NoVote, !.by = Nobody, !.page = {},
                             !.generation = wipes]
  OBVIOUS
<1>9. wipes \in Nat
  BY DEF DeskInv
<1>10. /\ y \in SessionRecords /\ y.todo = x.todo /\ y.generation = wipes
       /\ y.page = {} /\ y.voted = NoVote /\ y.message = m
  BY <1>2, <1>7, <1>8, <1>9 DEF SessionRecords, OpenPool, NoVote
<1>11. SessionOK(y)
  BY <1>2, <1>6, <1>9, <1>10 DEF Browsing, Telling, SessionOK
<1>12. session' = [session EXCEPT ![s] = y]
  <2>1. x.generation = 0
    BY <1>2 DEF Browsing
  <2>2. Shows(s, m)
    BY <1>1, <1>3 DEF ClickRaises
  <2>3. session \in [Sessions -> SessionRecords]
    BY DEF DeskInv
  <2>4. QED BY <1>1, <1>2, <1>8, <2>1, <2>2, <2>3 DEF Shows, SessionRecords
<1>13. QED BY <1>4, <1>10, <1>11, <1>12, OnlySession

\* approve: the vote is on the row.
LEMMA VoteIsOnRow ==
    ASSUME QueueInv, NEW a \in ActionIds, NEW v \in Approvers, NEW tn,
           ApproveVote(a, v, tn) \/ ApproveExecute(a, v, tn, TRUE)
    PROVE  a \in DOMAIN rows' /\ v \in Range(rows'[a].approvals)
<1>1. ApprovePartial(a, v) \/ ApproveSingle(a, v) \/ ApproveFinal(a, v)
  BY DEF ApproveVote, ApproveExecute
<1>2. /\ a \in DOMAIN rows' /\ rows[a].approvals \in Seq(Approvers)
      /\ rows'[a].approvals = Append(rows[a].approvals, v)
  BY <1>1, DecisionOnRow
<1>3. PICK n \in Nat : n = Len(rows[a].approvals)
  BY <1>2, LenProperties
<1>4. n + 1 \in DOMAIN rows'[a].approvals /\ rows'[a].approvals[n + 1] = v
  BY <1>2, <1>3, AppendProperties
<1>5. QED BY <1>2, <1>4 DEF Range

\* approve: from here to its message the vote stays on the row.
LEMMA ClickApproveKeeps ==
    ASSUME DeskAssumption, DeskInv, NEW s \in Sessions, NEW a \in ActionIds, NEW v \in Voters,
           ClickApprove(s, a, v)
    PROVE  DeskInv'
<1>1. PICK x : x = session[s]
  OBVIOUS
<1>2. x \in SessionRecords /\ Browsing(x) /\ a \in x.page
  BY <1>1, Clicked DEF ClickApprove
<1>3. PICK tn : tn = x.tenant
  OBVIOUS
<1>4. v \in Approvers /\ tn \in Tenants \cup {AnyTenant} /\ v \in OpenPool
  BY <1>2, <1>3 DEF DeskAssumption, SessionRecords, OpenPool
<1>5. /\ ApproveVote(a, v, tn) \/ ApproveExecute(a, v, tn, TRUE)
      /\ UNCHANGED <<app, lastId, wipes, strays>>
  BY <1>1, <1>3 DEF ClickApprove
<1>6. Decide(a, v, tn)
  BY <1>5 DEF Decide
<1>7. StoresGoOn /\ DOMAIN actions' = DOMAIN actions
  BY <1>4, <1>5, <1>6, DecisionGoesOn
<1>8. a \in DOMAIN rows' /\ v \in Range(rows'[a].approvals)
  BY <1>4, <1>5, VoteIsOnRow DEF DeskInv, PipelineInv
<1>9. PICK y : y = [x EXCEPT !.voted = a, !.by = v, !.generation = wipes]
  OBVIOUS
<1>10. a \in 1..lastId /\ lastId \in Nat /\ wipes \in Nat
  BY <1>2 DEF Browsing, PageOK, DeskInv
<1>11. a \in Nat /\ a # NoVote
  BY <1>10 DEF NoVote
<1>12. /\ y \in SessionRecords /\ y.todo = x.todo /\ y.generation = wipes
       /\ y.voted = a /\ y.by = v /\ y.message = x.message
  BY <1>2, <1>4, <1>9, <1>10, <1>11 DEF SessionRecords
<1>13. SessionOK(y)'
  <2>1. UNCHANGED <<app, wipes>>
    BY <1>5
  <2>2. QED BY <1>2, <1>8, <1>10, <1>11, <1>12, <2>1 DEF Browsing, Between, SessionOK
<1>14. session' = [session EXCEPT ![s] = y]
  <2>1. session \in [Sessions -> SessionRecords]
    BY DEF DeskInv
  <2>2. QED BY <1>1, <1>9, <2>1 DEF ClickApprove, SessionRecords
<1>15. QED BY <1>5, <1>7, <1>12, <1>13, <1>14, SessionMoves

\* The second look at a row: it is approved, or it lacks the votes it is said to lack.
LEMMA SecondLook ==
    ASSUME QueueInv, NEW a \in DOMAIN rows
    PROVE  /\ Progress(a) \in Nat
           /\ Progress(a) = 0 => rows[a].state = "approved"
           /\ Progress(a) # 0 => Progress(a) >= 1
                                 /\ Progress(a) = rows[a].required - Len(rows[a].approvals)
<1>1. rows[a] \in Rows
  BY DEF QueueInv, QueueTypeOK
<1>2. rows[a].required \in Nat /\ Len(rows[a].approvals) \in Nat
  BY <1>1, LenProperties, QueueAssumption DEF Rows
<1>3. rows[a].state # "approved" => Len(rows[a].approvals) < rows[a].required
  BY DEF QueueInv, QuorumExact
<1>4. QED BY <1>2, <1>3 DEF Progress

\* The message of a vote, from the second look.
LEMMA ShowApprovedKeeps ==
    ASSUME DeskAssumption, DeskInv, NEW s \in Sessions, ShowApproved(s)
    PROVE  DeskInv'
<1>1. PICK x : x = session[s]
  OBVIOUS
<1>2. PICK a : a = x.voted
  OBVIOUS
<1>3. x \in SessionRecords /\ SessionOK(x) /\ a # NoVote
  BY <1>1, <1>2 DEF DeskInv, ShowApproved
<1>4. Between(x)
  BY <1>2, <1>3 DEF SessionOK, Scripting, Browsing, Telling
<1>5. PICK left : left = Progress(a)
  OBVIOUS
<1>6. PICK m : m = [kind |-> IF left = 0 THEN "approved" ELSE "more", action |-> a,
                    by |-> x.by, left |-> left]
  OBVIOUS
<1>7. QueueInv /\ wipes \in Nat
  BY DEF DeskInv, PipelineInv
<1>8. left \in Int
  <2>1. CASE a \in DOMAIN rows
    BY <1>5, <1>7, <2>1, SecondLook
  <2>2. CASE a \notin DOMAIN rows
    BY <1>5, <2>2 DEF Progress
  <2>3. QED BY <2>1, <2>2
<1>9. /\ m.kind = (IF left = 0 THEN "approved" ELSE "more") /\ m.action = a /\ m.by = x.by
      /\ m.left = left
  BY <1>6
<1>10. m \in Messages
  BY <1>2, <1>3, <1>4, <1>6, <1>8 DEF Messages, SessionRecords, Between
<1>11. ASSUME x.generation = wipes
       PROVE  Said(m)
  <2>1. a \in DOMAIN rows /\ x.by \in Range(rows[a].approvals)
    BY <1>2, <1>4, <1>11 DEF Between
  <2>2. CASE left = 0
    <3>1. rows[a].state = "approved"
      BY <1>5, <1>7, <2>1, <2>2, SecondLook
    <3>2. QED BY <1>9, <2>1, <2>2, <3>1 DEF Said, RowSays
  <2>3. CASE left # 0
    <3>1. left >= 1 /\ left = rows[a].required - Len(rows[a].approvals)
      BY <1>5, <1>7, <2>1, <2>3, SecondLook
    <3>2. m.kind = "more" /\ m.left \in Int /\ m.left >= 1
          /\ m.left >= rows[m.action].required - Len(rows[m.action].approvals)
      BY <1>8, <1>9, <2>3, <3>1
    <3>3. QED BY <1>9, <2>1, <3>2 DEF Said, RowSays
  <2>4. QED BY <2>2, <2>3
<1>12. PICK y : y = [x EXCEPT !.message = m, !.voted = NoVote, !.by = Nobody, !.page = {}]
  OBVIOUS
<1>13. /\ y \in SessionRecords /\ y.todo = x.todo /\ y.generation = x.generation
       /\ y.page = {} /\ y.voted = NoVote /\ y.message = m
  BY <1>3, <1>10, <1>12 DEF SessionRecords, OpenPool, NoVote
<1>14. SessionOK(y)
  BY <1>4, <1>11, <1>13 DEF Between, Telling, SessionOK
<1>15. UNCHANGED <<vars, app, lastId, wipes, strays>>
  BY DEF ShowApproved
<1>16. session' = [session EXCEPT ![s] = y]
  <2>1. x.generation # 0
    BY <1>3, <1>4 DEF Between, SessionRecords
  <2>2. Shows(s, m)
    BY <1>1, <1>2, <1>5, <1>6 DEF ShowApproved
  <2>3. session \in [Sessions -> SessionRecords]
    BY DEF DeskInv
  <2>4. QED BY <1>1, <1>3, <1>12, <2>1, <2>2, <2>3 DEF Shows, SessionRecords
<1>17. QED BY <1>13, <1>14, <1>15, <1>16, OnlySession

\* reject: nothing was executed for the row, and nothing will be.
LEMMA ClickRejectKeeps ==
    ASSUME DeskAssumption, DeskInv, NEW s \in Sessions, NEW a \in ActionIds, NEW v \in Voters,
           ClickReject(s, a, v)
    PROVE  DeskInv'
<1>1. PICK x : x = session[s]
  OBVIOUS
<1>2. x \in SessionRecords /\ Browsing(x) /\ a \in x.page
  BY <1>1, Clicked DEF ClickReject
<1>3. PICK tn : tn = x.tenant
  OBVIOUS
<1>4. v \in Approvers /\ tn \in Tenants \cup {AnyTenant} /\ v \in OpenPool
  BY <1>2, <1>3 DEF DeskAssumption, SessionRecords, OpenPool
<1>5. RejectAction(a, v, tn) /\ UNCHANGED <<app, lastId, wipes, strays>>
  BY <1>1, <1>3 DEF ClickReject
<1>6. Decide(a, v, tn)
  BY <1>5 DEF Decide
<1>7. StoresGoOn /\ DOMAIN actions' = DOMAIN actions
  BY <1>4, <1>5, <1>6, DecisionGoesOn
<1>8. QueueInv /\ IsPending(a) /\ effects[a] = 0 /\ rows[a] \in Rows
  BY <1>5 DEF DeskInv, PipelineInv, ExecInv, ExecOK, RejectAction, Veto, MayDecide,
              QueueInv, QueueTypeOK, IsPending
<1>9. /\ a \in DOMAIN rows' /\ rows'[a].state = "rejected" /\ rows'[a].decidedBy = v
      /\ effects'[a] = 0
  <2>1. rows' = DictPut(rows, a, ResolvedRow(rows[a], "rejected", v, rows[a].approvals))
        /\ UNCHANGED effects
    BY <1>5 DEF RejectAction, Veto, Resolve
  <2>2. "rejected" \in RowStates /\ rows[a].approvals \in Seq(Approvers)
    BY <1>8 DEF RowStates, Rows
  <2>3. a \in DOMAIN rows'
        /\ rows'[a] = ResolvedRow(rows[a], "rejected", v, rows[a].approvals)
    BY <2>1 DEF DictPut
  <2>4. QED BY <1>4, <1>8, <2>1, <2>2, <2>3, DecidedRow
<1>10. PICK m : m = [kind |-> "rejected", action |-> a, by |-> v]
  OBVIOUS
<1>11. m.kind = "rejected" /\ m.action = a /\ m.by = v
  BY <1>10
<1>12. Said(m)'
  BY <1>9, <1>11 DEF Said, RowSays
<1>13. m \in Messages
  BY <1>2, <1>10 DEF Messages, Verbs, SessionRecords
<1>14. PICK y : y = [x EXCEPT !.generation = wipes, !.page = {}, !.message = m]
  OBVIOUS
<1>15. wipes \in Nat
  BY DEF DeskInv
<1>16. /\ y \in SessionRecords /\ y.todo = x.todo /\ y.generation = wipes
       /\ y.page = {} /\ y.voted = x.voted /\ y.message = m
  BY <1>2, <1>13, <1>14, <1>15 DEF SessionRecords
<1>17. SessionOK(y)'
  <2>1. UNCHANGED <<app, wipes>>
    BY <1>5
  <2>2. QED BY <1>2, <1>12, <1>15, <1>16, <2>1 DEF Browsing, Telling, SessionOK
<1>18. session' = [session EXCEPT ![s] = y]
  <2>1. session \in [Sessions -> SessionRecords]
    BY DEF DeskInv
  <2>2. QED BY <1>1, <1>10, <1>14, <2>1 DEF ClickReject, SessionRecords
<1>19. QED BY <1>5, <1>7, <1>16, <1>17, <1>18, SessionMoves

-----------------------------------------------------------------------------
(* The pages keep what they promise.                                       *)

\* A process starts with the invariant,
LEMMA DeskInvInit ==
    ASSUME PipelineInit, DeskInit
    PROVE  DeskInv
<1>1. PipelineInv /\ DOMAIN actions = {}
  BY PipelineInvInit DEF PipelineInit
<1>2. /\ app \in {"approver", "scenario"} /\ wipes = 0 /\ lastId = 0
      /\ session = [s \in Sessions |-> NewSession]
  BY DEF DeskInit
<1>3. NewSession \in SessionRecords
  BY DEF NewSession, SessionRecords, NoVote, Messages, OpenPool, DemoTenants
<1>4. SessionOK(NewSession)
  <2>1. PICK x : x = NewSession
    OBVIOUS
  <2>2. /\ x.todo = <<>> /\ x.generation = 0 /\ x.page = {} /\ x.voted = NoVote
        /\ x.message = NoMessage
    BY <2>1 DEF NewSession
  <2>3. ScriptOK(<<>>, 0)
    BY DEF ScriptOK
  <2>4. QED BY <1>2, <2>1, <2>2, <2>3 DEF SessionOK, Scripting
<1>5. DemoArmed
  BY <1>1 DEF DemoArmed
<1>6. session \in [Sessions -> SessionRecords] /\ \A s \in Sessions : SessionOK(session[s])
  BY <1>2, <1>3, <1>4
<1>7. QED BY <1>1, <1>2, <1>5, <1>6 DEF DeskInv

\* keeps it while nothing happens,
LEMMA DeskInvStutter ==
    ASSUME DeskInv, UNCHANGED <<vars, deskVars>>
    PROVE  DeskInv'
<1>1. UNCHANGED <<app, session, lastId, wipes, strays>> /\ UNCHANGED vars
  BY DEF deskVars
<1>2. UNCHANGED <<rows, actions, trail, policy, quorum>>
  BY <1>1 DEF vars, pipelineVars
<1>3. StoresGoOn
  BY <1>1, NothingGoesOn
<1>4. ASSUME NEW s \in Sessions
      PROVE  SessionOK(session[s])'
  <2>1. PICK x : x = session[s]
    OBVIOUS
  <2>2. SessionOK(x) /\ DOMAIN actions \subseteq 1..lastId
    BY <2>1 DEF DeskInv
  <2>3. SessionOK(x)'
    BY <1>3, <2>2, SessionStays
  <2>4. QED BY <1>1, <2>1, <2>3
<1>5. DemoArmed' /\ PipelineInv'
  BY <1>1, <1>2, <1>3 DEF DeskInv, DemoArmed, StoresGoOn
<1>6. app' = "scenario" /\ DOMAIN actions' # {} =>
          RuleArmed' /\ \A t \in DemoTenants : InPlace(t)'
  BY <1>1, <1>2 DEF DeskInv, RuleArmed, InPlace
<1>7. QED BY <1>1, <1>2, <1>4, <1>5, <1>6 DEF DeskInv

\* and whichever session makes its next call.
LEMMA DeskInvStep ==
    ASSUME DeskAssumption, DeskInv, [DeskNext]_<<vars, deskVars>>
    PROVE  DeskInv'
<1>1. ASSUME NEW s \in Sessions,
             \/ SeedButton(s) \/ OpenScenario(s)
             \/ Wipe(s) \/ SeedIfEmpty(s) \/ InstallTable(s) \/ ArmRule(s)
             \/ PushNew(s) \/ PushAgain(s) \/ ShowApproved(s)
      PROVE  DeskInv'
  BY <1>1, SeedButtonKeeps, OpenScenarioKeeps, WipeKeeps, SeedIfEmptyKeeps, TableKeeps,
     RuleKeeps, PushNewKeeps, PushAgainKeeps, ShowApprovedKeeps
<1>2. ASSUME NEW s \in Sessions, NEW t \in DemoTenants, Render(s, t)
      PROVE  DeskInv'
  BY <1>2, RenderKeeps
<1>3. ASSUME NEW s \in Sessions, NEW a \in ActionIds, NEW v \in Voters,
             \/ ClickApprove(s, a, v) \/ ClickReject(s, a, v)
             \/ \E vetoes \in BOOLEAN : ClickRaises(s, a, v, vetoes)
      PROVE  DeskInv'
  BY <1>3, ClickApproveKeeps, ClickRejectKeeps, RaisesKeeps
<1>4. CASE UNCHANGED <<vars, deskVars>>
  BY <1>4, DeskInvStutter
<1>5. QED BY <1>1, <1>2, <1>3, <1>4 DEF DeskNext

\* What the invariant says of the messages.
LEMMA SaidIsTrue ==
    ASSUME NEW m, Said(m)
    PROVE  True(m)
<1>1. CASE m.kind = "not_found" /\ m.action \notin DOMAIN actions
  BY <1>1 DEF True
<1>2. CASE m.action \in DOMAIN rows /\ RowSays(m, rows[m.action])
  <2>1. CASE m.kind = "approved"
    BY <1>2, <2>1 DEF True, RowSays
  <2>2. CASE m.kind = "more"
    BY <1>2, <2>2 DEF True, RowSays
  <2>3. CASE m.kind = "rejected"
    BY <1>2, <2>3 DEF True, RowSays
  <2>4. CASE m.kind \in {"already_decided", "not_eligible", "duplicate_vote"}
    BY <1>2, <2>4 DEF True, RowSays
  <2>5. QED BY <1>2, <2>1, <2>2, <2>3, <2>4 DEF RowSays
<1>3. QED BY <1>1, <1>2 DEF Said

\* No session shows a message that is not so.
LEMMA SessionsTell ==
    ASSUME DeskInv
    PROVE  MessagesTrue
<1>1. SUFFICES ASSUME NEW s \in Sessions, session[s].generation = wipes
               PROVE  True(session[s].message)
  BY DEF MessagesTrue
<1>2. SessionOK(session[s])
  BY DEF DeskInv
<1>3. True(NoMessage)
  BY DEF True, NoMessage
<1>4. CASE session[s].message = NoMessage
  BY <1>3, <1>4
<1>5. CASE session[s].message # NoMessage
  <2>1. Telling(session[s])
    BY <1>2, <1>5 DEF SessionOK, Scripting, Browsing, Between
  <2>2. Said(session[s].message)
    BY <1>1, <2>1 DEF Telling
  <2>3. QED BY <2>2, SaidIsTrue
<1>6. QED BY <1>4, <1>5

\* The pages' invariant holds, however sessions, their scripts and the clears of
\* "Seed demo data" come between one another.
THEOREM DeskInvariant == DeskSpec => []DeskInv
<1>1. PipelineInit /\ DeskInit => DeskInv
  BY DeskInvInit
<1>2. DeskInv /\ [DeskNext]_<<vars, deskVars>> => DeskInv'
  BY DeskAssumption, DeskInvStep
<1>3. QED BY <1>1, <1>2, PTL DEF DeskSpec

\* What a page says of a row is true of it until the pipeline is cleared, whatever
\* other sessions do between the call and its message (MessagesTrue).
THEOREM MessagesStayTrue == DeskSpec => []MessagesTrue
<1>1. DeskInv => MessagesTrue
  BY SessionsTell
<1>2. QED BY <1>1, DeskInvariant, PTL

\* However sessions seed beside one another, the bank's notifications wait for two
\* of its three officers and the demo's messages wait for nobody, but for the
\* proposals of a seed that another's clear overtook (DemoArmed).
THEOREM DemoStaysArmed == DeskSpec => []DemoArmed
<1>1. DeskInv => DemoArmed
  BY DEF DeskInv
<1>2. QED BY <1>1, DeskInvariant, PTL
===============================================================================
