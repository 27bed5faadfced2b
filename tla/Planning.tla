------------------------------- MODULE Planning -------------------------------
(***************************************************************************)
(* From an event to its action: the planner (orchestrator/planner.py)      *)
(* before the decision pipeline, as the event listener's handler and the   *)
(* take-home adapter (takehome/orchestrator/orchestrator_impl.py) run it.  *)
(* An event may be delivered more than once, on threads of its own; every  *)
(* delivery is planned again, outside the pipeline's lock, and a model may *)
(* propose something else each time.                                       *)
(***************************************************************************)
EXTENDS DecisionPipeline, RingBuffers, LanguageModels

CONSTANTS
    Deliveries,    \* bound: 1..n, numbered as they come
    Arrivals,      \* bound: the <<tenant, event>> that may be delivered
    EventTypeOf,   \* the event_type of each event
    Settings,      \* bound: the environments the process may run in
    Tables,        \* bound: the resolved tables set_policies may install
    Signers,       \* bound: the approvers who decide meanwhile
    MaxProposals   \* max_per_tenant of the proposals buffer

\* An action made of a delivery's proposal takes the delivery's number as its id.
ASSUME PlanningAssumption ==
    /\ Deliveries \subseteq ActionIds
    /\ Settings \subseteq Environments
    /\ Tables \subseteq [ActionTypes -> Decisions]
    /\ Arrivals \subseteq Tenants \X Events /\ Signers \subseteq Approvers

VARIABLES
    setting,    \* the environment
    delivery,   \* each delivery: where its handler is, and with what
    proposals   \* ProposalsBuffer: tenant -> its newest proposals

planVars == <<setting, delivery, proposals>>

NoAction == 0
NoDelivery == [at |-> "none"]

PlanInit ==
    /\ setting \in Settings
    /\ delivery = [d \in Deliveries |-> NoDelivery]
    /\ proposals = [t \in Tenants |-> <<>>]

-----------------------------------------------------------------------------

FallbackRules ==
    [message_received  |-> "send_borrower_message",
     document_uploaded |-> "update_status",
     status_changed    |-> "notify_loan_officer",
     anomaly_detected  |-> "notify_loan_officer",
     system_event      |-> "no_op"]

FallbackType(event) ==
    IF event \in DOMAIN FallbackRules THEN FallbackRules[event] ELSE "notify_loan_officer"

\* The rules name members of ActionType.
ASSUME FallbackAssumption == \A e \in Events : FallbackType(EventTypeOf[e]) \in ActionTypes

\* The handler is entered, from the bus or from handle_event.
Deliver(d, via, t, e) ==
    /\ \A c \in Deliveries : c < d => delivery[c] # NoDelivery
    /\ delivery[d] = NoDelivery
    /\ delivery' = [delivery EXCEPT ![d] = [at |-> "planning", via |-> via, tenant |-> t,
                                            event |-> e, type |-> "", by |-> "",
                                            action |-> NoAction]]
    /\ UNCHANGED <<vars, setting, proposals>>

Goes(d, from, to) ==
    /\ delivery[d] # NoDelivery
    /\ delivery[d].at = from
    /\ delivery' = [delivery EXCEPT ![d] = to]

Propose(d, ty, by) ==
    Goes(d, "planning", [delivery[d] EXCEPT !.at = "planned", !.type = ty, !.by = by])

\* No proposal from the model: the mock is not asked; the call raises, or its
\* answer is empty or does not parse to an object with a known type.
PlanByRules(d) ==
    /\ Propose(d, FallbackType(EventTypeOf[delivery[d].event]), "fallback")
    /\ UNCHANGED <<vars, setting, proposals>>

PlanByModel(d) ==
    /\ "text" \in Completions(ClientFor(setting))
    /\ \E ty \in ActionTypes : Propose(d, ty, "llm")
    /\ UNCHANGED <<vars, setting, proposals>>

\* Making the client raises (get_client catches an ImportError only): the
\* handler drops the event, and handle_event raises.
PlanRaises(d) ==
    /\ ClientFor(setting) # "mock"
    /\ Goes(d, "planning", [delivery[d] EXCEPT !.at = "dropped"])
    /\ UNCHANGED <<vars, setting, proposals>>

\* The listener's handler first shows the proposal in the buffer.
AppendProposal(d) ==
    /\ Goes(d, "planned", [delivery[d] EXCEPT !.at = "shown"])
    /\ delivery[d].via = "bus"
    /\ proposals' = [proposals EXCEPT ![delivery[d].tenant] = TrimPush(@, d, MaxProposals)]
    /\ UNCHANGED <<vars, setting>>

ReadyToHandle(d) == IF delivery[d].via = "bus" THEN "shown" ELSE "planned"

\* handle_proposal of an event that has no action yet ...
HandleFirst(d) ==
    LET p == delivery[d] IN
    /\ p # NoDelivery
    /\ Goes(d, ReadyToHandle(d), [p EXCEPT !.at = "done", !.action = d])
    /\ HandleProposal(d, p.tenant, p.event, p.type, p.by)
    /\ UNCHANGED <<setting, proposals>>

\* Mutant of HandleAgain: the caller gets its own proposal back.
HandleAgainAsProposed(d) ==
    LET p == delivery[d] IN
    /\ p # NoDelivery
    /\ <<p.tenant, p.event>> \in DOMAIN dedup
    /\ Goes(d, ReadyToHandle(d), [p EXCEPT !.at = "done", !.action = d])
    /\ UNCHANGED <<vars, setting, proposals>>

\* ... and of one that has: the cached action is returned.
HandleAgain(d) ==
    LET p == delivery[d] IN
    /\ p # NoDelivery
    /\ <<p.tenant, p.event>> \in DOMAIN dedup
    /\ Goes(d, ReadyToHandle(d), [p EXCEPT !.at = "done",
                                          !.action = dedup[<<p.tenant, p.event>>]])
    /\ UNCHANGED <<vars, setting, proposals>>

\* The approvals API, and set_policies, in between.
PipelineGoesOn ==
    /\ \/ \E a \in ActionIds, v \in Signers : Decide(a, v, AnyTenant)
       \/ \E at \in Arrivals, table \in Tables : SetPolicies(at[1], table)
    /\ UNCHANGED planVars

PlanNext ==
    \/ \E d \in Deliveries, via \in {"bus", "adapter"}, at \in Arrivals :
          Deliver(d, via, at[1], at[2])
    \/ \E d \in Deliveries : \/ PlanByRules(d) \/ PlanByModel(d) \/ PlanRaises(d)
                             \/ AppendProposal(d)
                             \/ HandleFirst(d) \/ HandleAgain(d)
    \/ PipelineGoesOn

PlanSpec == PipelineInit /\ PlanInit /\ [][PlanNext]_<<vars, planVars>>

-----------------------------------------------------------------------------

\* handle_event: "On a duplicate event_id the pipeline returns the cached list".
\* However deliveries of an event interleave and whatever the model proposes to
\* each, those that end get one and the same action: the proposal of one of
\* them, planned as the action's first audit row says; and an event has its
\* action unless every delivery of it was dropped or is still on its way.
OneAnswerPerEvent ==
    \A d \in Deliveries : delivery[d] # NoDelivery =>
        LET p == delivery[d]
            answer == delivery[p.action]
        IN  /\ p.at = "done" =>
                  /\ p.action \in DOMAIN actions /\ p.action \in Deliveries
                  /\ <<p.tenant, p.event>> = <<answer.tenant, answer.event>>
                  /\ answer.action = p.action
                  /\ actions[p.action].type = answer.type
                  /\ Head(trail[p.action]).says = answer.by
            /\ p.at # "done" => d \notin DOMAIN actions
===============================================================================
