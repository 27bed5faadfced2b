----------------------------- MODULE PolicyEngines -----------------------------
(***************************************************************************)
(* The four policy engines (orchestrator/policy/): declarative,            *)
(* python_rules, llm_judge and naive.  Threads ask them while others set   *)
(* tables; each engine's lock covers the lookup of a tenant's table but    *)
(* not what is done with it: the compiled rules and the language model are *)
(* called after it is released, with the table that was found.             *)
(***************************************************************************)
EXTENDS Integers

CONSTANTS
    PolicyTenants, PolicyTypes,
    Askers,         \* the threads that ask for decisions
    PolicyTables,   \* bound: the tables set_policies is called with
    EventTypes,     \* event_type values of the event context
    NoVerdict

Verdicts == {"auto", "approval_required", "reject"}
SafeDefault == "approval_required"
Keys == PolicyTypes \cup {"default", "*"}

\* A table's values are what the caller sent; "other" is not a decision.
EngineAssumption ==
    /\ \A table \in PolicyTables :
          /\ DOMAIN table \subseteq Keys
          /\ \A k \in DOMAIN table : table[k] \in Verdicts \cup {"other"}
    /\ PolicyTypes \cap {"default", "*"} = {}
    /\ NoVerdict \notin Verdicts \cup PolicyTypes

VARIABLES
    engine,    \* the engine of the process
    model,     \* its client: the mock, or a provider's
    tables,    \* tenant -> its table, for the tenants configured
    question,  \* caller -> the question it has put and the table found for it
    answer     \* caller -> the last answer it got

engineVars == <<engine, model, tables, question, answer>>

EngineKinds == {"declarative", "python_rules", "llm_judge", "naive"}
NoQuestion == [type |-> NoVerdict]
EmptyTable == [k \in {} |-> SafeDefault]
TableOf(t) == IF t \in DOMAIN tables THEN tables[t] ELSE EmptyTable

EnginesInit ==
    /\ engine \in EngineKinds
    /\ model \in {"mock", "provider"}
    /\ tables = [t \in {} |-> EmptyTable]
    /\ question = [c \in Askers |-> NoQuestion]
    /\ answer = [c \in Askers |-> NoVerdict]

-----------------------------------------------------------------------------
(* Tables.                                                                 *)

\* All but naive, which only renders the table as text, refuse a value that is
\* not a decision, before anything is changed.
Accepted(table) == engine = "naive" \/ \A k \in DOMAIN table : table[k] \in Verdicts

EngineSetPolicies(t, table) ==
    /\ Accepted(table)
    /\ tables' = [u \in DOMAIN tables \cup {t} |-> IF u = t THEN table ELSE tables[u]]
    /\ UNCHANGED <<engine, model, question, answer>>

EngineClear ==
    /\ tables' = [t \in {} |-> EmptyTable]
    /\ UNCHANGED <<engine, model, question, answer>>

-----------------------------------------------------------------------------
(* Decisions.                                                              *)

\* Mutant of ResolveTable: the wildcard is looked at before the default.
ResolveWildcardFirst(table, ty) ==
    IF ty \in DOMAIN table THEN table[ty]
    ELSE IF "*" \in DOMAIN table THEN table["*"]
    ELSE IF "default" \in DOMAIN table THEN table["default"]
    ELSE SafeDefault

\* The lookup that three engines share: the type, "default", "*", a human.
ResolveTable(table, ty) ==
    IF ty \in DOMAIN table THEN table[ty]
    ELSE IF "default" \in DOMAIN table THEN table["default"]
    ELSE IF "*" \in DOMAIN table THEN table["*"]
    ELSE SafeDefault

\* decide, up to the release of the lock.
AskEngine(c, t, ty, event) ==
    /\ question[c] = NoQuestion
    /\ question' = [question EXCEPT ![c] = [type |-> ty, table |-> TableOf(t), event |-> event]]
    /\ answer' = [answer EXCEPT ![c] = NoVerdict]
    /\ UNCHANGED <<engine, model, tables>>

GivesAnswer(c, d) ==
    /\ question[c] # NoQuestion
    /\ question' = [question EXCEPT ![c] = NoQuestion]
    /\ answer' = [answer EXCEPT ![c] = d]
    /\ UNCHANGED <<engine, model, tables>>

\* No model is asked: the judge knows the mock, and reads the table itself.
TableDriven == engine \in {"declarative", "python_rules"} \/ (engine = "llm_judge" /\ model = "mock")

AnswerFromTable(c) ==
    /\ TableDriven
    /\ GivesAnswer(c, ResolveTable(question[c].table, question[c].type))

\* The mock echoes the prompt; naive answers by the type of the event then.
MockHeuristic(event) ==
    IF event \in {"message_received", "system_event"} THEN "auto" ELSE SafeDefault

AnswerFromHeuristic(c) ==
    /\ engine = "naive" /\ model = "mock"
    /\ GivesAnswer(c, MockHeuristic(question[c].event))

\* The judge's reply parses to an object whose decision is one of the three, or
\* it is anything else; in naive's only the words found in it count.
JudgeReplies == Verdicts \cup {"other"}
ParseJudge(reply) == IF reply \in Verdicts THEN reply ELSE SafeDefault

NaiveReplies == SUBSET {"reject", "approval", "auto"}
ParseNaive(words) ==
    IF "reject" \in words THEN "reject" ELSE IF words = {"auto"} THEN "auto" ELSE SafeDefault

AnswerFromModel(c) ==
    /\ ~TableDriven /\ model = "provider"
    /\ \/ engine = "llm_judge" /\ \E r \in JudgeReplies : GivesAnswer(c, ParseJudge(r))
       \/ engine = "naive" /\ \E w \in NaiveReplies : GivesAnswer(c, ParseNaive(w))

\* The call of the model raises.
ModelFails(c) ==
    /\ ~TableDriven /\ model = "provider"
    /\ GivesAnswer(c, SafeDefault)

EnginesNext ==
    \/ \E t \in PolicyTenants, table \in PolicyTables : EngineSetPolicies(t, table)
    \/ EngineClear
    \/ \E c \in Askers, t \in PolicyTenants, ty \in PolicyTypes, event \in EventTypes :
          AskEngine(c, t, ty, event)
    \/ \E c \in Askers : \/ AnswerFromTable(c)
                          \/ AnswerFromHeuristic(c)
                          \/ AnswerFromModel(c)
                          \/ ModelFails(c)

EnginesSpec == EnginesInit /\ [][EnginesNext]_engineVars

-----------------------------------------------------------------------------
(* What an engine promises.                                                *)

\* The keys of a table that speak for a type; the most specific one decides, and
\* without one a human does.
Speaking(table, ty) == {ty, "default", "*"} \cap DOMAIN table
Specific(k, l) == l = "*" \/ (l = "default" /\ k # "*") \/ k \notin {"default", "*"}

MostSpecific(table, ty) ==
    IF Speaking(table, ty) = {} THEN SafeDefault
    ELSE table[CHOOSE k \in Speaking(table, ty) : \A l \in Speaking(table, ty) : Specific(k, l)]

\* The tables of naive decide nothing.
DecidedBy(table, ty) == IF engine = "naive" THEN SafeDefault ELSE MostSpecific(table, ty)

Registry ==
    INSTANCE PolicyRegistry WITH
        Tenants <- PolicyTenants, ActionTypes <- PolicyTypes, Callers <- Askers,
        guesses <- ~TableDriven,
        decided <- [t \in PolicyTenants |-> [ty \in PolicyTypes |-> DecidedBy(TableOf(t), ty)]],
        taken   <- [c \in Askers |-> IF question[c] = NoQuestion THEN NoVerdict
                                      ELSE DecidedBy(question[c].table, question[c].type)]

\* The engines that read tables answer as the registry does: with the decision
\* of the asking tenant's whole table as it was when the question was put,
\* whatever is set while the rules or the prompt are made out of it; and what
\* the others answer is one of the three decisions, whatever the model says.
ImplementsRegistry == Registry!RegistrySpec
================================================================================
