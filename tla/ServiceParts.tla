----------------------------- MODULE ServiceParts -----------------------------
(***************************************************************************)
(* Seven parts of the two services that share no state with one another:   *)
(* the language model's response cache, a brief's retrieval and packing,   *)
(* the deferred calls, the policy engines, the planner before the decision *)
(* pipeline, the approvers' pages over one, and the schema's migrations.   *)
(* What one does leaves the others as they are, so a behaviour of the      *)
(* services is, to each part, a behaviour of that part with steps of the   *)
(* others in between; one part at a time is enough to check them all.      *)
(***************************************************************************)
EXTENDS SlowCalls, SemanticCache, BriefPacking, PolicyEngines, Planning, ApproverDesk, Migrations

VARIABLE part   \* the part whose behaviour this is

ASSUME ServiceAssumption == EngineAssumption

serviceVars ==
    <<part, cacheVars, packVars, engineVars, slowVars, vars, planVars, deskVars, migrationVars>>

Parts == {"cache", "brief", "slow", "engines", "planning", "desk", "schema"}

\* A part whose turn it is not is in one of its initial states.
ServiceInit ==
    /\ part \in Parts
    /\ CacheInit /\ PackInit /\ EnginesInit /\ SlowInit /\ PipelineInit /\ PlanInit
    /\ DeskInit /\ MigrationsInit
    /\ part # "engines" => engine = "naive" /\ model = "mock"
    /\ part # "planning" => setting.var["ANTHROPIC_API_KEY"] = "set"
    /\ part # "desk" => app = "approver"
    /\ part # "schema" => disk = Files

CacheStep ==
    /\ part = "cache" /\ CacheNext
    /\ UNCHANGED <<part, slowVars, packVars, engineVars, vars, planVars, deskVars, migrationVars>>
PackStep ==
    /\ part = "brief" /\ PackNext
    /\ UNCHANGED <<part, slowVars, cacheVars, engineVars, vars, planVars, deskVars, migrationVars>>
SlowStep ==
    /\ part = "slow" /\ SlowNext
    /\ UNCHANGED <<part, cacheVars, packVars, engineVars, vars, planVars, deskVars, migrationVars>>
EngineStep ==
    /\ part = "engines" /\ EnginesNext
    /\ UNCHANGED <<part, slowVars, cacheVars, packVars, vars, planVars, deskVars, migrationVars>>
PlanStep ==
    /\ part = "planning" /\ PlanNext
    /\ UNCHANGED <<part, slowVars, cacheVars, packVars, engineVars, deskVars, migrationVars>>
DeskStep ==
    /\ part = "desk" /\ DeskNext
    /\ UNCHANGED <<part, slowVars, cacheVars, packVars, engineVars, planVars, migrationVars>>
SchemaStep ==
    /\ part = "schema" /\ MigrationsNext
    /\ UNCHANGED <<part, slowVars, cacheVars, packVars, engineVars, vars, planVars, deskVars>>

ServiceNext == CacheStep \/ PackStep \/ SlowStep \/ EngineStep \/ PlanStep \/ DeskStep \/ SchemaStep

ServiceSpec == ServiceInit /\ [][ServiceNext]_serviceVars

===============================================================================
