----------------------------- MODULE ApproverDesk -----------------------------
(***************************************************************************)
(* The two Streamlit pages over a pipeline (ui/): the approvers' dashboard *)
(* (approver_app.py) and the demo walkthrough (demo_scenario_app.py), both *)
(* through ui/approver_data.py.  A process runs one of them, with a thread *)
(* for each browser session.  A page's script is not atomic: it makes one  *)
(* call of the pipeline after another, each under the pipeline's lock, and *)
(* other sessions' calls come in between.                                  *)
(***************************************************************************)
EXTENDS DecisionPipeline

CONSTANTS
    Sessions,
    Voters,      \* bound: the names typed into the sidebar
    MaxWipes,    \* bound: presses of "Seed demo data" that get to the clear
    MaxVisits    \* bound: pages rendered

Bank == "tenant_acme_bank"
Concierge == "tenant_globetrek_concierge"
CreditUnion == "tenant_jefferson_credit"
DemoTenants == {Bank, Concierge, CreditUnion}
Officers == {"compliance_alice", "risk_bob", "legal_carol"}
FourEyes == [required |-> 2, eligible |-> Officers]

DemoTypes == {"send_borrower_message", "notify_loan_officer", "request_document"}
DemoEvents == {"demo_1", "demo_2", "jane_upload", "jane_anomaly"}

\* Actions are numbered as they are made, within ActionIds: an id is a fresh uuid.
ASSUME DeskAssumption ==
    /\ DemoTenants \subseteq Tenants /\ DemoTypes \subseteq ActionTypes
    /\ DemoEvents \subseteq Events
    /\ Officers \subseteq Approvers /\ Voters \subseteq Approvers
    /\ MaxWipes \in Nat /\ MaxVisits \in Nat /\ FourEyes.required \in Quorums

VARIABLES
    app,       \* the page the process serves
    session,   \* each session: the script it is in, and what it shows
    lastId,    \* ids given so far
    wipes,     \* how often the pipeline was cleared
    visits,    \* how many pages were rendered
    strays     \* ghost: actions proposed by a seed that another's clear overtook

deskVars == <<app, session, lastId, wipes, visits, strays>>

NoMessage == [kind |-> "none"]
NoVote == 0

\* generation: the clear after which the session's script, or its vote, came.
NewSession == [todo |-> <<>>, page |-> {}, tenant |-> Bank, generation |-> 0,
               voted |-> NoVote, by |-> Nobody, message |-> NoMessage]

DeskInit ==
    /\ app \in {"approver", "scenario"}
    /\ session = [s \in Sessions |-> NewSession]
    /\ lastId = 0 /\ wipes = 0 /\ visits = 0 /\ strays = {}

-----------------------------------------------------------------------------
(* The demo data.                                                          *)

\* A type the table does not name falls through to the safe default.
DemoTable(t) ==
    [ty \in ActionTypes |->
        IF ty = "send_borrower_message" \/ (ty = "notify_loan_officer" /\ t = Concierge)
        THEN "auto" ELSE "approval_required"]

SetTable(t) == [do |-> "table", tenant |-> t]
ProposeDemo(t, e, ty, by) ==
    [do |-> "propose", tenant |-> t, event |-> e, type |-> ty, by |-> by]

\* Mutant of SeedScript: the proposals come before the rule.
SeedScriptRuleLast ==
    <<SetTable(Bank), SetTable(Concierge), SetTable(CreditUnion),
      ProposeDemo(Bank, "demo_1", "send_borrower_message", "llm"),
      ProposeDemo(Bank, "demo_2", "notify_loan_officer", "llm"),
      ProposeDemo(Concierge, "demo_1", "send_borrower_message", "fallback"),
      ProposeDemo(CreditUnion, "demo_1", "request_document", "llm"),
      [do |-> "rule"]>>

\* What seed_demo_data does once it has decided to.
SeedScript ==
    <<SetTable(Bank), SetTable(Concierge), SetTable(CreditUnion),
      [do |-> "rule"],
      ProposeDemo(Bank, "demo_1", "send_borrower_message", "llm"),
      ProposeDemo(Bank, "demo_2", "notify_loan_officer", "llm"),
      ProposeDemo(Concierge, "demo_1", "send_borrower_message", "fallback"),
      ProposeDemo(CreditUnion, "demo_1", "request_document", "llm")>>

\* build_scenario_state, after the page's own seed_demo_data.
ScenarioScript ==
    <<[do |-> "seed"], [do |-> "seed"],
      ProposeDemo(Bank, "jane_upload", "send_borrower_message", "llm"),
      ProposeDemo(Bank, "jane_anomaly", "notify_loan_officer", "llm")>>

NextStep(s, what) == session[s].todo # <<>> /\ Head(session[s].todo).do = what
StepDone(s) == session' = [session EXCEPT ![s].todo = Tail(@)]
Ready(s) == session[s].todo = <<>> /\ session[s].voted = NoVote

SeedButton(s) ==
    /\ app = "approver" /\ Ready(s)
    /\ session' = [session EXCEPT ![s] =
                      [NewSession EXCEPT !.todo = <<[do |-> "wipe"]>> \o SeedScript]]
    /\ UNCHANGED <<vars, app, lastId, wipes, visits, strays>>

OpenScenario(s) ==
    /\ app = "scenario" /\ Ready(s)
    /\ session' = [session EXCEPT ![s].todo = ScenarioScript]
    /\ UNCHANGED <<vars, app, lastId, wipes, visits, strays>>

\* seed_demo_data(force=True) forgets everything first ...
Wipe(s) ==
    /\ NextStep(s, "wipe") /\ wipes < MaxWipes
    /\ Clear
    /\ wipes' = wipes + 1 /\ strays' = {}
    /\ session' = [session EXCEPT ![s].todo = Tail(@), ![s].generation = wipes + 1]
    /\ UNCHANGED <<app, lastId, visits>>

\* ... and without force it leaves a pipeline alone that has audit rows.
SeedIfEmpty(s) ==
    /\ NextStep(s, "seed")
    /\ session' = [session EXCEPT ![s].todo =
                      IF \E a \in ActionIds : trail[a] # <<>> THEN Tail(@)
                      ELSE SeedScript \o Tail(@)]
    /\ UNCHANGED <<vars, app, lastId, wipes, visits, strays>>

InstallTable(s) ==
    /\ NextStep(s, "table")
    /\ LET t == Head(session[s].todo).tenant IN SetPolicies(t, DemoTable(t))
    /\ StepDone(s)
    /\ UNCHANGED <<app, lastId, wipes, visits, strays>>

ArmRule(s) ==
    /\ NextStep(s, "rule")
    /\ SetQuorumRule(Bank, "notify_loan_officer", FourEyes)
    /\ StepDone(s)
    /\ UNCHANGED <<app, lastId, wipes, visits, strays>>

\* handle_proposal of a step that is new to the pipeline, and of one that is not.
\* The pages run on the mock executors, none of which fails.
PushNew(s) ==
    LET p == Head(session[s].todo) IN
    /\ NextStep(s, "propose") /\ lastId + 1 \in ActionIds
    /\ \/ ProposeQueue(lastId + 1, p.tenant, p.event, p.type, p.by)
       \/ ProposeAuto(lastId + 1, p.tenant, p.event, p.type, p.by, TRUE)
    /\ lastId' = lastId + 1
    /\ strays' = IF session[s].generation = wipes THEN strays ELSE strays \cup {lastId'}
    /\ StepDone(s)
    /\ UNCHANGED <<app, wipes, visits>>

PushAgain(s) ==
    /\ NextStep(s, "propose")
    /\ <<Head(session[s].todo).tenant, Head(session[s].todo).event>> \in DOMAIN dedup
    /\ StepDone(s)
    /\ UNCHANGED <<vars, app, lastId, wipes, visits, strays>>

-----------------------------------------------------------------------------
(* The dashboard.                                                          *)

\* The page shows a tenant's pending rows; it is as old as its last rendering.
Render(s, t) ==
    /\ app = "approver" /\ Ready(s) /\ pendingByTenant[t] # <<>>
    /\ visits < MaxVisits /\ visits' = visits + 1
    /\ session' = [session EXCEPT ![s] = [NewSession EXCEPT
                      !.tenant = t, !.page = Range(pendingByTenant[t])]]
    /\ UNCHANGED <<vars, app, lastId, wipes, strays>>

Shows(s, message) ==
    session' = [session EXCEPT ![s].message = message, ![s].voted = NoVote,
                               ![s].by = Nobody, ![s].page = {},
                               ![s].generation = IF @ = 0 THEN wipes ELSE @]

\* A click on a row of the page, in the voter's name.
Clicks(s, a) == Ready(s) /\ a \in session[s].page

\* What a call that raises is shown as, in the order of the checks.
ErrorOf(a, v, tn, vetoes) ==
    IF ~Visible(a, tn) \/ a \notin DOMAIN rows THEN "not_found"
    ELSE IF rows[a].state # "pending" THEN "already_decided"
    ELSE IF v \notin rows[a].eligible THEN "not_eligible"
    ELSE IF ~vetoes /\ rows[a].required > 1 /\ v \in Range(rows[a].approvals)
    THEN "duplicate_vote" ELSE "none"

ClickRaises(s, a, v, vetoes) ==
    LET error == ErrorOf(a, v, session[s].tenant, vetoes) IN
    /\ Clicks(s, a) /\ error # "none"
    /\ Shows(s, [kind |-> error, action |-> a, by |-> v])
    /\ UNCHANGED <<vars, app, lastId, wipes, visits, strays>>

\* approve: the vote ...
ClickApprove(s, a, v) ==
    /\ Clicks(s, a)
    /\ \/ ApproveVote(a, v, session[s].tenant)
       \/ ApproveExecute(a, v, session[s].tenant, TRUE)
    /\ session' = [session EXCEPT ![s].voted = a, ![s].by = v, ![s].generation = wipes]
    /\ UNCHANGED <<app, lastId, wipes, visits, strays>>

\* Mutant of Progress: a row that lacks one more vote counts as approved.
ProgressEarly(a) ==
    IF a \in DOMAIN rows /\ rows[a].state # "approved"
       /\ rows[a].required - Len(rows[a].approvals) > 1
    THEN rows[a].required - Len(rows[a].approvals) ELSE 0

\* The votes a row lacks, for the message; 0 if it is approved, or gone.
Progress(a) ==
    IF a \in DOMAIN rows /\ rows[a].state # "approved"
    THEN rows[a].required - Len(rows[a].approvals) ELSE 0

\* ... and the message, from another look at the row.
ShowApproved(s) ==
    LET a == session[s].voted
        left == Progress(a)
    IN  /\ a # NoVote
        /\ Shows(s, [kind |-> IF left = 0 THEN "approved" ELSE "more",
                     action |-> a, by |-> session[s].by, left |-> left])
        /\ UNCHANGED <<vars, app, lastId, wipes, visits, strays>>

\* reject: its message needs no second look.
ClickReject(s, a, v) ==
    /\ Clicks(s, a)
    /\ RejectAction(a, v, session[s].tenant)
    /\ session' = [session EXCEPT ![s].generation = wipes, ![s].page = {},
                      ![s].message = [kind |-> "rejected", action |-> a, by |-> v]]
    /\ UNCHANGED <<app, lastId, wipes, visits, strays>>

DeskNext ==
    \E s \in Sessions :
        \/ SeedButton(s) \/ OpenScenario(s)
        \/ Wipe(s) \/ SeedIfEmpty(s) \/ InstallTable(s) \/ ArmRule(s)
        \/ PushNew(s) \/ PushAgain(s)
        \/ \E t \in DemoTenants : Render(s, t)
        \/ \E a \in ActionIds, v \in Voters :
              ClickApprove(s, a, v) \/ ClickReject(s, a, v)
                \/ \E vetoes \in BOOLEAN : ClickRaises(s, a, v, vetoes)
        \/ ShowApproved(s)

DeskSpec == PipelineInit /\ DeskInit /\ [][DeskNext]_<<vars, deskVars>>

-----------------------------------------------------------------------------
(* What the pages promise.                                                 *)

\* What is said of a row in a message is true of it, and stays true until the
\* pipeline is cleared.  A row that was vetoed between the vote and the second look
\* is still said to lack votes, which it does.
True(m) ==
    CASE m.kind = "none" -> TRUE
      [] m.kind = "approved" ->
            /\ rows[m.action].state = "approved" /\ m.by \in Range(rows[m.action].approvals)
      [] m.kind = "more" ->
            /\ m.left >= 1 /\ m.by \in Range(rows[m.action].approvals)
            /\ m.left >= rows[m.action].required - Len(rows[m.action].approvals)
      [] m.kind = "rejected" ->
            /\ rows[m.action].state = "rejected" /\ rows[m.action].decidedBy = m.by
            /\ effects[m.action] = 0
      [] m.kind = "not_found" -> m.action \notin DOMAIN actions
      [] m.kind = "already_decided" ->
            m.action \in DOMAIN rows /\ rows[m.action].state # "pending"
      [] m.kind = "not_eligible" ->
            m.action \in DOMAIN rows /\ m.by \notin rows[m.action].eligible
      [] m.kind = "duplicate_vote" -> m.by \in Range(rows[m.action].approvals)

MessagesTrue ==
    \A s \in Sessions : session[s].generation = wipes => True(session[s].message)

\* "Arm the acme_bank notify_loan_officer scenario as a 2-of-3 quorum", and
\* "ensures tenant policies + quorum rule exist": however sessions seed beside one
\* another, the bank's notifications wait for two of its three officers, and the
\* demo's messages are sent without one, unless another session's clear overtook
\* the seed that proposed them.
DemoArmed ==
    \A a \in DOMAIN actions \ strays :
        /\ actions[a].tenant \in DemoTenants /\ actions[a].type = "send_borrower_message" =>
              a \notin DOMAIN rows
        /\ actions[a].tenant = Bank /\ actions[a].type = "notify_loan_officer" =>
              /\ a \in DOMAIN rows
              /\ <<rows[a].required, rows[a].eligible>> = <<2, Officers>>
===============================================================================
