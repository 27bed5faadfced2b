-------------------------- MODULE ServicePartsProofs --------------------------
(***************************************************************************)
(* Three of the parts of ServiceParts: the four engines keep the promise   *)
(* of PolicyRegistry, for any tenants, types, callers and tables; the      *)
(* ledger of the migrations is right about the schema, for any files and   *)
(* runs; and an answer that the response cache returns or keeps is the     *)
(* tenant's own, its store, index and order of use in step, for any        *)
(* tenants, prompts and clients and a cache of any size.                   *)
(***************************************************************************)
EXTENDS PolicyEngines, Migrations, SemanticCache, ListLemmas

-----------------------------------------------------------------------------
(* What a table decides.                                                   *)

\* A table of decisions, or of anything under naive, which does not read it.
Lawful(table) == engine = "naive" \/ \A k \in DOMAIN table : table[k] \in Verdicts

\* The nested lookup of the code finds the most specific key.
LEMMA ResolveIsSpecific ==
    ASSUME NEW table, NEW ty, ty \notin {"default", "*"}
    PROVE  ResolveTable(table, ty) = MostSpecific(table, ty)
<1> DEFINE keys == Speaking(table, ty)
           best(k) == k \in keys /\ \A l \in keys : Specific(k, l)
<1>1. ASSUME NEW k, best(k), \A l : best(l) => l = k
      PROVE  MostSpecific(table, ty) = table[k]
  <2>1. keys # {} /\ k = CHOOSE l \in keys : \A n \in keys : Specific(l, n)
    BY <1>1
  <2>2. QED BY <2>1 DEF MostSpecific
<1>2. CASE ty \in DOMAIN table
  <2>1. best(ty) /\ \A l : best(l) => l = ty
    BY <1>2 DEF Speaking, Specific
  <2>2. QED BY <1>1, <1>2, <2>1 DEF ResolveTable
<1>3. CASE ty \notin DOMAIN table /\ "default" \in DOMAIN table
  <2>1. best("default") /\ \A l : best(l) => l = "default"
    BY <1>3 DEF Speaking, Specific
  <2>2. QED BY <1>1, <1>3, <2>1 DEF ResolveTable
<1>4. CASE ty \notin DOMAIN table /\ "default" \notin DOMAIN table /\ "*" \in DOMAIN table
  <2>1. best("*") /\ \A l : best(l) => l = "*"
    BY <1>4 DEF Speaking, Specific
  <2>2. QED BY <1>1, <1>4, <2>1 DEF ResolveTable
<1>5. CASE {ty, "default", "*"} \cap DOMAIN table = {}
  BY <1>5 DEF ResolveTable, MostSpecific, Speaking
<1>6. QED BY <1>2, <1>3, <1>4, <1>5

\* What a lawful table decides is a decision.
LEMMA DecidedIsVerdict ==
    ASSUME NEW table, NEW ty, ty \notin {"default", "*"}, Lawful(table)
    PROVE  DecidedBy(table, ty) \in Verdicts
<1>1. CASE engine = "naive"
  BY <1>1 DEF DecidedBy, SafeDefault, Verdicts
<1>2. CASE engine # "naive"
  <2>1. ResolveTable(table, ty) \in Verdicts
    BY <1>2 DEF Lawful, ResolveTable, SafeDefault, Verdicts
  <2>2. QED BY <1>2, <2>1, ResolveIsSpecific DEF DecidedBy
<1>3. QED BY <1>1, <1>2

\* An empty table gives the safe default.
LEMMA NothingDecided == \A ty : MostSpecific(EmptyTable, ty) = SafeDefault
BY DEF MostSpecific, Speaking, EmptyTable

-----------------------------------------------------------------------------
(* The invariant: what is configured, and what a caller holds, is lawful.   *)

\* A question as AskEngine puts it.
Asked(q) ==
    /\ \E ty \in PolicyTypes : \E table, event :
          q = [type |-> ty, table |-> table, event |-> event]
    /\ q.type \in PolicyTypes /\ Lawful(q.table)

EnginesInv ==
    /\ engine \in EngineKinds
    /\ \A t \in DOMAIN tables : Lawful(tables[t])
    /\ question = [c \in Askers |-> question[c]]
    /\ \A c \in Askers : question[c] = NoQuestion \/ Asked(question[c])
    /\ answer \in [Askers -> Verdicts \cup {NoVerdict}]

\* A caller that has asked is told from one that has not.
LEMMA AskedIsNot == ASSUME EngineAssumption, NEW q, Asked(q) PROVE q # NoQuestion
<1>1. NoQuestion.type = NoVerdict /\ NoVerdict \notin PolicyTypes
  BY DEF NoQuestion, EngineAssumption
<1>2. QED BY <1>1 DEF Asked

\* A type is none of the two special keys.
LEMMA TypesAreNoKeys ==
    ASSUME EngineAssumption, NEW ty \in PolicyTypes PROVE ty \notin {"default", "*"}
BY DEF EngineAssumption

\* Whether a table is lawful depends on the engine only.
LEMMA LawfulIsLasting ==
    ASSUME NEW table, engine' = engine PROVE Lawful(table)' <=> Lawful(table)
BY DEF Lawful

\* The table in force for a tenant is lawful.
LEMMA TableIsLawful == ASSUME EnginesInv, NEW t PROVE Lawful(TableOf(t))
<1>1. CASE t \in DOMAIN tables
  BY <1>1 DEF EnginesInv, TableOf
<1>2. CASE t \notin DOMAIN tables
  <2>1. DOMAIN EmptyTable = {}
    BY DEF EmptyTable
  <2>2. QED BY <1>2, <2>1 DEF TableOf, Lawful
<1>3. QED BY <1>1, <1>2

-----------------------------------------------------------------------------
(* The refinement mapping, by name.                                         *)

DecidedNow == [t \in PolicyTenants |-> [ty \in PolicyTypes |-> DecidedBy(TableOf(t), ty)]]
TakenBy(q) == IF q = NoQuestion THEN NoVerdict ELSE DecidedBy(q.table, q.type)
TakenNow == [c \in Askers |-> TakenBy(question[c])]

\* What the tables decide stays when they do.
LEMMA TablesKept ==
    ASSUME UNCHANGED <<engine, model, tables>>
    PROVE  /\ TableDriven' = TableDriven
           /\ DecidedNow' = DecidedNow
BY DEF TableDriven, DecidedNow, DecidedBy, TableOf

\* What was decided for the questions put stays when they do.
LEMMA QuestionsKept ==
    ASSUME UNCHANGED <<engine, question>> PROVE TakenNow' = TakenNow
BY DEF TakenNow, TakenBy, DecidedBy

\* What a caller has taken is a decision.
LEMMA TakenIsVerdict ==
    ASSUME EngineAssumption, NEW q, Asked(q)
    PROVE  TakenBy(q) = DecidedBy(q.table, q.type) /\ TakenBy(q) \in Verdicts
<1>1. q # NoQuestion
  BY AskedIsNot
<1>2. q.type \notin {"default", "*"} /\ Lawful(q.table)
  BY TypesAreNoKeys DEF Asked
<1>3. QED BY <1>1, <1>2, DecidedIsVerdict DEF TakenBy

-----------------------------------------------------------------------------
(* Steps.                                                                  *)

\* With no table and no question the invariant holds, and nothing is promised.
LEMMA EnginesInitHolds ==
    ASSUME EngineAssumption, EnginesInit PROVE EnginesInv /\ Registry!RegistryInit
<1>1. DOMAIN tables = {}
  BY DEF EnginesInit
<1>2. EnginesInv
  BY <1>1 DEF EnginesInit, EnginesInv
<1>3. \A t, ty : DecidedBy(TableOf(t), ty) = SafeDefault
  BY <1>1, NothingDecided DEF TableOf, DecidedBy
<1>4. TakenNow = [c \in Askers |-> NoVerdict]
  BY DEF EnginesInit, TakenNow, TakenBy
<1>5. QED BY <1>2, <1>3, <1>4 DEF EnginesInit, Registry!RegistryInit, TakenNow, TakenBy

\* set_policies and clear.
LEMMA ConfigureStep ==
    ASSUME EngineAssumption, EnginesInv,
           NEW t \in PolicyTenants, NEW table \in PolicyTables, EngineSetPolicies(t, table)
    PROVE  EnginesInv' /\ Registry!Configure
<1> USE DEF EngineSetPolicies
<1>1. Lawful(table)
  BY DEF Accepted, Lawful
<1>2. \A u : TableOf(u)' = IF u = t THEN table ELSE TableOf(u)
  BY DEF TableOf
<1>3. \A u \in PolicyTenants, ty \in PolicyTypes : DecidedBy(TableOf(u)', ty) \in Verdicts
  <2>1. \A u : Lawful(TableOf(u)')
    BY <1>1, <1>2, TableIsLawful
  <2>2. QED BY <2>1, TypesAreNoKeys, DecidedIsVerdict
<1>4. DecidedNow' = [u \in PolicyTenants |-> [ty \in PolicyTypes |-> DecidedBy(TableOf(u)', ty)]]
  BY DEF DecidedNow, DecidedBy
<1>5. DecidedNow' \in [PolicyTenants -> [PolicyTypes -> Verdicts]]
  BY <1>3, <1>4
<1>6. \A u \in PolicyTenants \ {t} : DecidedNow'[u] = DecidedNow[u]
  BY <1>2, <1>4 DEF DecidedNow
<1>7. TakenNow' = TakenNow /\ TableDriven' = TableDriven
  BY QuestionsKept DEF TableDriven
<1>8. Registry!Configure
  BY <1>5, <1>6, <1>7 DEF Registry!Configure, DecidedNow, TakenNow, TakenBy
<1>9. EnginesInv'
  BY <1>1 DEF EnginesInv, Lawful, Asked
<1>10. QED BY <1>8, <1>9

\* clear drops every table, which the registry allows.
LEMMA ClearStep ==
    ASSUME EngineAssumption, EnginesInv, EngineClear PROVE EnginesInv' /\ Registry!Configure
<1> USE DEF EngineClear
<1>1. DOMAIN tables' = {}
  OBVIOUS
<1>2. \A u, ty : DecidedBy(TableOf(u)', ty) = SafeDefault
  BY <1>1, NothingDecided DEF TableOf, DecidedBy
<1>3. DecidedNow' = [u \in PolicyTenants |-> [ty \in PolicyTypes |-> SafeDefault]]
  BY <1>2 DEF DecidedNow, DecidedBy
<1>4. DecidedNow' \in [PolicyTenants -> [PolicyTypes -> Verdicts]]
  BY <1>3 DEF SafeDefault, Verdicts
<1>5. TakenNow' = TakenNow /\ TableDriven' = TableDriven
  BY QuestionsKept DEF TableDriven
<1>6. Registry!Configure
  BY <1>3, <1>4, <1>5 DEF Registry!Configure, DecidedNow, TakenNow, TakenBy
<1>7. EnginesInv'
  BY <1>1 DEF EnginesInv, Lawful, Asked
<1>8. QED BY <1>6, <1>7

\* decide, to the release of its lock.
LEMMA AskStep ==
    ASSUME EngineAssumption, EnginesInv,
           NEW c \in Askers, NEW t \in PolicyTenants, NEW ty \in PolicyTypes, NEW event,
           AskEngine(c, t, ty, event)
    PROVE  EnginesInv' /\ Registry!Ask(c, t, ty)
<1> DEFINE q == [type |-> ty, table |-> TableOf(t), event |-> event]
<1>1. Asked(q)
  BY TableIsLawful DEF Asked
<1>2. question[c] = NoQuestion /\ question' = [question EXCEPT ![c] = q]
  BY DEF AskEngine
<1>3. TakenBy(q) = DecidedNow[t][ty]
  BY <1>1, TakenIsVerdict DEF DecidedNow
<1>4. UNCHANGED <<engine, model, tables>>
  BY DEF AskEngine
<1> HIDE DEF q
<1>5. \A x : TakenBy(x)' = TakenBy(x)
  BY <1>4 DEF TakenBy, DecidedBy
<1>6. TakenNow' = [TakenNow EXCEPT ![c] = DecidedNow[t][ty]]
  BY <1>2, <1>3, <1>4, <1>5 DEF TakenNow, EnginesInv, TakenBy, DecidedBy
<1>7. TakenNow[c] = NoVerdict
  BY <1>2 DEF TakenNow, TakenBy
<1>8. answer' = [answer EXCEPT ![c] = NoVerdict]
  BY DEF AskEngine
<1>9. Registry!Ask(c, t, ty)
  BY <1>4, <1>6, <1>7, <1>8, TablesKept DEF Registry!Ask, DecidedNow, TakenNow, TakenBy
<1>10. EnginesInv'
  BY <1>1, <1>2, <1>4, <1>8 DEF EnginesInv, Lawful, Asked
<1>11. QED BY <1>9, <1>10

\* Whatever way an answer comes about.
LEMMA AnswerStep ==
    ASSUME EngineAssumption, EnginesInv,
           NEW c \in Askers, NEW d \in Verdicts, GivesAnswer(c, d),
           TableDriven => d = TakenBy(question[c])
    PROVE  EnginesInv' /\ Registry!Answer(c)
<1>1. UNCHANGED <<engine, model, tables>>
  BY DEF GivesAnswer
<1>2. question' = [question EXCEPT ![c] = NoQuestion]
  BY DEF GivesAnswer
<1>3. answer' = [answer EXCEPT ![c] = d]
  BY DEF GivesAnswer
<1>4. TakenBy(question[c]) \in Verdicts
  BY TakenIsVerdict DEF GivesAnswer, EnginesInv
<1>5. TakenNow[c] # NoVerdict
  BY <1>4 DEF TakenNow, EngineAssumption
<1>6. TakenNow' = [TakenNow EXCEPT ![c] = NoVerdict]
  <2>1. \A x : TakenBy(x)' = TakenBy(x)
    BY <1>1 DEF TakenBy, DecidedBy
  <2>2. QED BY <1>1, <1>2, <2>1 DEF TakenNow, EnginesInv, TakenBy, DecidedBy
<1>7. ~(~TableDriven) => d = TakenNow[c]
  BY DEF TakenNow
<1>8. Registry!Answer(c)
  <2>1. TableDriven' = TableDriven /\ DecidedNow' = DecidedNow
    BY <1>1, TablesKept
  <2>2. \E v \in Verdicts : /\ ~(~TableDriven) => v = TakenNow[c]
                            /\ answer' = [answer EXCEPT ![c] = v]
    BY <1>3, <1>7
  <2>3. QED BY <1>5, <1>6, <2>1, <2>2 DEF Registry!Answer, DecidedNow, TakenNow, TakenBy
<1>9. EnginesInv'
  BY <1>1, <1>2, <1>3 DEF EnginesInv, Lawful, Asked
<1>10. QED BY <1>8, <1>9

\* Every way to answer gives an answer the registry allows.
LEMMA AnswersAreVerdicts ==
    ASSUME EngineAssumption, EnginesInv, NEW c \in Askers,
           \/ AnswerFromTable(c) \/ AnswerFromHeuristic(c)
           \/ AnswerFromModel(c) \/ ModelFails(c)
    PROVE  EnginesInv' /\ Registry!Answer(c)
<1>1. CASE AnswerFromTable(c)
  <2> DEFINE d == ResolveTable(question[c].table, question[c].type)
  <2>1. Asked(question[c]) /\ GivesAnswer(c, d) /\ engine # "naive"
    BY <1>1 DEF AnswerFromTable, GivesAnswer, TableDriven, EnginesInv
  <2>2. question[c].type \notin {"default", "*"}
    BY <2>1, TypesAreNoKeys DEF Asked
  <2>3. d = TakenBy(question[c]) /\ d \in Verdicts
    BY <2>1, <2>2, ResolveIsSpecific, TakenIsVerdict DEF DecidedBy
  <2> HIDE DEF d
  <2>4. QED BY <2>1, <2>3, AnswerStep
<1>2. CASE AnswerFromHeuristic(c)
  <2>1. \A e : MockHeuristic(e) \in Verdicts
    BY DEF MockHeuristic, SafeDefault, Verdicts
  <2>2. ~TableDriven
    BY <1>2 DEF AnswerFromHeuristic, TableDriven
  <2>3. QED BY <1>2, <2>1, <2>2, AnswerStep DEF AnswerFromHeuristic
<1>3. CASE AnswerFromModel(c)
  <2>1. PICK d \in Verdicts : GivesAnswer(c, d)
    <3>1. (\A r : ParseJudge(r) \in Verdicts) /\ (\A w : ParseNaive(w) \in Verdicts)
      BY DEF ParseJudge, ParseNaive, SafeDefault, Verdicts
    <3>2. QED BY <1>3, <3>1 DEF AnswerFromModel
  <2>2. QED BY <1>3, <2>1, AnswerStep DEF AnswerFromModel
<1>4. CASE ModelFails(c)
  <2>1. SafeDefault \in Verdicts
    BY DEF SafeDefault, Verdicts
  <2>2. QED BY <1>4, <2>1, AnswerStep DEF ModelFails
<1>5. QED BY <1>1, <1>2, <1>3, <1>4

\* So every step of an engine is one of the registry, or none.
LEMMA RegistryStep ==
    ASSUME EngineAssumption, EnginesInv, [EnginesNext]_engineVars
    PROVE  EnginesInv' /\ [Registry!RegistryNext]_(Registry!registryVars)
<1>1. CASE UNCHANGED engineVars
  <2>1. UNCHANGED <<engine, model, tables>> /\ UNCHANGED <<engine, question>> /\ answer' = answer
    BY <1>1 DEF engineVars
  <2>2. UNCHANGED Registry!registryVars
    BY <2>1, TablesKept, QuestionsKept DEF Registry!registryVars, DecidedNow, TakenNow, TakenBy
  <2>3. EnginesInv'
    BY <2>1 DEF EnginesInv, Lawful, Asked
  <2>4. QED BY <2>2, <2>3
<1>2. CASE \E t \in PolicyTenants, table \in PolicyTables : EngineSetPolicies(t, table)
  BY <1>2, ConfigureStep DEF Registry!RegistryNext
<1>3. CASE EngineClear
  BY <1>3, ClearStep DEF Registry!RegistryNext
<1>4. CASE \E c \in Askers, t \in PolicyTenants, ty \in PolicyTypes, event \in EventTypes :
              AskEngine(c, t, ty, event)
  BY <1>4, AskStep DEF Registry!RegistryNext
<1>5. CASE \E c \in Askers : \/ AnswerFromTable(c) \/ AnswerFromHeuristic(c)
                              \/ AnswerFromModel(c) \/ ModelFails(c)
  BY <1>5, AnswersAreVerdicts DEF Registry!RegistryNext
<1>6. QED BY <1>1, <1>2, <1>3, <1>4, <1>5 DEF EnginesNext

-----------------------------------------------------------------------------

\* Every behaviour of an engine is one of the registry: with any tenants, types,
\* callers and tables, an engine that reads tables (declarative, python_rules,
\* llm_judge with the mock) answers what the asking tenant's most specific key said
\* when the question was put, and set_policies reaches no other tenant; the engines
\* that ask a model answer one of the three decisions whatever comes back.
THEOREM EnginesKeepPromise ==
    ASSUME EngineAssumption PROVE EnginesSpec => ImplementsRegistry
<1>1. EnginesInit => EnginesInv /\ Registry!RegistryInit
  BY EnginesInitHolds
<1>2. EnginesInv /\ [EnginesNext]_engineVars =>
         EnginesInv' /\ [Registry!RegistryNext]_(Registry!registryVars)
  BY RegistryStep
<1>3. QED BY <1>1, <1>2, PTL DEF EnginesSpec, ImplementsRegistry, Registry!RegistrySpec

-----------------------------------------------------------------------------
(* The schema.                                                             *)

\* The ledger names the file.
Named(f) == LedgerRow(f) \in committed

\* Some of the file's objects are there and some are not.
Half(f) == Objects(f) \cap committed # {} /\ ~(Objects(f) \subseteq committed)

Applying == {"apply", "waiting", "commit"}

RunRecords == [at         : Active \cup {"off", "done", "failed", "died"},
               files      : SUBSET Files,
               discovered : SUBSET Files,
               stmt       : Nat,
               own        : SUBSET (AllObjects \cup LedgerRows)]

SchemaTyped ==
    /\ disk \subseteq Files /\ boot \in {"running", "over"} /\ hasLedger \in BOOLEAN
    /\ committed \subseteq AllObjects \cup LedgerRows
    /\ \A row \in DOMAIN found : found[row] \subseteq Files
    /\ runs \in [Runs -> RunRecords]

\* The init scripts have filled the schema from the first statement on, in order.
Filled ==
    /\ committed \subseteq DiskObjects
    /\ \A o \in committed, p \in DiskObjects : Before(p, o) => p \in committed

\* The objects a run has passed at its file.
Passed(r) == {<<File(r), i>> : i \in {j \in DOMAIN Statements[File(r)] : j < runs[r].stmt}}

\* A run that applies a file: it has files left and the ledger names the others; what
\* it passed is committed or its own, and its own are some of those and, before it
\* commits, the ledger's row.
AtFile(r) ==
    LET run == runs[r] IN
    /\ hasLedger
    /\ run.files # {} /\ run.files \subseteq run.discovered
    /\ \A g \in run.discovered \ run.files : Named(g)
    /\ run.stmt \in 1 .. Len(Statements[File(r)]) + 2
    /\ Passed(r) \subseteq committed \cup run.own
    /\ run.at = "commit" => /\ AtRow(r)
                            /\ LedgerRow(File(r)) \in run.own
                            /\ run.own \subseteq Passed(r) \cup {LedgerRow(File(r))}
    /\ run.at # "commit" => /\ run.stmt <= Len(Statements[File(r)]) + 1
                            /\ run.own \subseteq Passed(r)

RunOK(r) ==
    /\ runs[r].at # "off" => boot = "over"
    /\ runs[r].at = "read" => hasLedger
    /\ runs[r].at \in Applying => AtFile(r)
    /\ runs[r].at \notin Applying => runs[r].own = {}
    /\ runs[r].at = "done" => \A g \in runs[r].discovered : Named(g)

\* A named file is there, and every earlier one its run knew of is named.
LedgerOK ==
    /\ DOMAIN found \subseteq committed
    /\ \A f \in Files : Named(f) =>
          /\ hasLedger
          /\ Objects(f) \subseteq committed
          /\ LedgerRow(f) \in DOMAIN found
          /\ \A g \in found[LedgerRow(f)] : g < f => Named(g)

OneMaker == \A q, r \in Runs : q # r => runs[q].own \cap runs[r].own = {}

SchemaInv ==
    /\ SchemaTyped
    /\ boot = "running" => Filled
    /\ \A f, g \in Files : Half(f) /\ Half(g) => f = g
    /\ LedgerOK
    /\ OneMaker
    /\ \A r \in Runs : RunOK(r)

-----------------------------------------------------------------------------
(* Runs.                                                                   *)

\* The first of some files.
LEMMA FirstFile ==
    ASSUME MigrationsAssumption, NEW files, files \subseteq Files, files # {}
    PROVE  /\ Min(files) \in files /\ Min(files) \in Files /\ Min(files) \in Nat
           /\ \A f \in files : Min(files) <= f
           /\ Statements[Min(files)] \in Seq(Kinds)
BY MinIsLeast DEF MigrationsAssumption

\* The file a run is at is the first of those it has left.
LEMMA FileIsFirst ==
    ASSUME MigrationsAssumption, SchemaTyped, NEW r \in Runs, runs[r].files # {}
    PROVE  /\ File(r) \in runs[r].files /\ File(r) \in Files /\ File(r) \in Nat
           /\ \A f \in runs[r].files : File(r) <= f
           /\ Statements[File(r)] \in Seq(Kinds)
<1>1. runs[r].files \subseteq Files
  BY DEF SchemaTyped, RunRecords
<1>2. QED BY <1>1, FirstFile DEF File

\* Objects of a file, and its row of the ledger.
LEMMA ObjectsOf ==
    ASSUME MigrationsAssumption
    PROVE  /\ \A f \in Files : Objects(f) \subseteq AllObjects /\ LedgerRow(f) \in LedgerRows
           /\ \A f \in Files : \A g : LedgerRow(g) \notin Objects(f)
           /\ \A f, g : f # g => Objects(f) \cap Objects(g) = {} /\ LedgerRow(f) # LedgerRow(g)
<1>1. ASSUME NEW f \in Files
      PROVE  Objects(f) \subseteq AllObjects /\ LedgerRow(f) \in LedgerRows
  BY DEF AllObjects, LedgerRows
<1>2. ASSUME NEW f \in Files, NEW g
      PROVE  LedgerRow(g) \notin Objects(f)
  <2>1. 0 \notin DOMAIN Statements[f]
    BY DEF MigrationsAssumption
  <2>2. QED BY <2>1 DEF LedgerRow, Objects
<1>3. QED BY <1>1, <1>2 DEF LedgerRow, Objects

\* A run that is looked at by another's step keeps what it relies on.
LEMMA OtherRunOK ==
    ASSUME NEW q \in Runs, RunOK(q), runs'[q] = runs[q],
           committed \subseteq committed', hasLedger => hasLedger', boot = "over" => boot' = "over"
    PROVE  RunOK(q)'
<1>1. /\ File(q)' = File(q) /\ Passed(q)' = Passed(q) /\ (AtRow(q)' <=> AtRow(q))
      /\ \A g : Named(g) => Named(g)'
  BY DEF File, Passed, AtRow, Named
<1>2. AtFile(q) => AtFile(q)'
  BY <1>1 DEF AtFile
<1>3. QED BY <1>1, <1>2 DEF RunOK

\* A step of a run that commits nothing.
RunMoves(r, new) ==
    /\ RunGoes(r, new)
    /\ UNCHANGED <<disk, boot, committed, found>>
    /\ hasLedger' \in BOOLEAN /\ (hasLedger => hasLedger')

\* A step of one run keeps the invariant, when what it holds is its own and it is as
\* it should be.
LEMMA RunMovesKeep ==
    ASSUME SchemaInv, NEW r \in Runs, NEW new \in RunRecords, RunMoves(r, new), RunOK(r)',
           \A q \in Runs \ {r} : runs[q].own \cap new.own = {}
    PROVE  SchemaInv'
<1>1. runs' = [runs EXCEPT ![r] = new] /\ runs \in [Runs -> RunRecords]
  BY DEF RunMoves, RunGoes, SchemaInv, SchemaTyped
<1>2. /\ runs' \in [Runs -> RunRecords]
      /\ runs'[r] = new
      /\ \A q \in Runs \ {r} : runs'[q] = runs[q]
  BY <1>1
<1>3. UNCHANGED <<disk, boot, committed, found>> /\ hasLedger' \in BOOLEAN /\ (hasLedger => hasLedger')
  BY DEF RunMoves
<1>4. SchemaTyped'
  BY <1>2, <1>3 DEF SchemaInv, SchemaTyped
<1>5. boot' = "running" => Filled'
  BY <1>3 DEF SchemaInv, Filled, DiskObjects
<1>6. \A f, g \in Files : Half(f)' /\ Half(g)' => f = g
  BY <1>3 DEF SchemaInv, Half
<1>7. LedgerOK'
  BY <1>3 DEF SchemaInv, LedgerOK, Named
<1>8. OneMaker'
  <2>1. SUFFICES ASSUME NEW p \in Runs, NEW q \in Runs, p # q
                 PROVE  runs'[p].own \cap runs'[q].own = {}
    BY DEF OneMaker
  <2>2. CASE p # r /\ q # r
    BY <1>2, <2>1, <2>2 DEF SchemaInv, OneMaker
  <2>3. CASE p = r \/ q = r
    BY <1>2, <2>1, <2>3
  <2>4. QED BY <2>2, <2>3
<1>9. ASSUME NEW q \in Runs PROVE RunOK(q)'
  <2>1. CASE q = r
    BY <2>1
  <2>2. CASE q # r
    BY <1>2, <1>3, <2>2, OtherRunOK DEF SchemaInv
  <2>3. QED BY <2>1, <2>2
<1>10. QED BY <1>4, <1>5, <1>6, <1>7, <1>8, <1>9 DEF SchemaInv

\* A run that is not at a file has nothing of its own.
LEMMA AwayKeeps ==
    ASSUME SchemaInv, NEW r \in Runs, NEW new \in RunRecords, RunMoves(r, new),
           new.at \notin Applying, new.own = {}, new.at # "off" => boot = "over",
           new.at = "read" => hasLedger',
           new.at = "done" => \A g \in new.discovered : Named(g)
    PROVE  SchemaInv'
<1>1. runs'[r] = new
  BY DEF RunMoves, RunGoes, SchemaInv, SchemaTyped
<1>2. UNCHANGED <<boot, committed>>
  BY DEF RunMoves
<1>3. RunOK(r)'
  BY <1>1, <1>2 DEF RunOK, Named
<1>4. QED BY <1>3, RunMovesKeep

\* main begins, after the init scripts.
LEMMA BeginRunKeeps ==
    ASSUME SchemaInv, NEW r \in Runs, BeginRun(r)
    PROVE  SchemaInv'
<1> DEFINE new == [runs[r] EXCEPT !.at = IF disk = {} THEN "done" ELSE "ledger", !.discovered = disk]
<1>1. runs[r] \in RunRecords /\ disk \subseteq Files /\ hasLedger \in BOOLEAN
  BY DEF SchemaInv, SchemaTyped
<1>2. new \in RunRecords /\ new.at = (IF disk = {} THEN "done" ELSE "ledger")
      /\ new.discovered = disk /\ new.own = runs[r].own
  BY <1>1 DEF RunRecords, Active
<1>3. runs[r].own = {} /\ boot = "over"
  BY DEF BeginRun, SchemaInv, RunOK, Applying
<1>4. RunMoves(r, new)
  BY <1>1 DEF BeginRun, RunMoves
<1> HIDE DEF new
<1>5. QED BY <1>2, <1>3, <1>4, AwayKeeps DEF Applying

\* The ledger's table is made if it is not there.
LEMMA EnsureLedgerKeeps ==
    ASSUME SchemaInv, NEW r \in Runs, EnsureLedger(r)
    PROVE  SchemaInv'
<1> DEFINE new == [runs[r] EXCEPT !.at = "read"]
<1>1. runs[r] \in RunRecords
  BY DEF SchemaInv, SchemaTyped
<1>2. new \in RunRecords /\ new.at = "read" /\ new.own = runs[r].own
  BY <1>1 DEF RunRecords, Active
<1>3. runs[r].own = {} /\ boot = "over"
  BY DEF EnsureLedger, SchemaInv, RunOK, Applying
<1>4. RunMoves(r, new) /\ hasLedger'
  BY DEF EnsureLedger, RunMoves
<1> HIDE DEF new
<1>5. QED BY <1>2, <1>3, <1>4, AwayKeeps DEF Applying

\* A run that fails or dies rolls back.
LEMMA GivesUpKeeps ==
    ASSUME SchemaInv, NEW r \in Runs, StatementFails(r) \/ Die(r)
    PROVE  SchemaInv'
<1>1. PICK to \in {"failed", "died"} : RunGoes(r, [runs[r] EXCEPT !.at = to, !.own = {}])
  BY DEF StatementFails, Die, Fail
<1> DEFINE new == [runs[r] EXCEPT !.at = to, !.own = {}]
<1>2. runs[r] \in RunRecords /\ hasLedger \in BOOLEAN
  BY DEF SchemaInv, SchemaTyped
<1>3. new \in RunRecords /\ new.at = to /\ new.own = {}
  BY <1>2 DEF RunRecords
<1>4. runs[r].at # "off"
  BY DEF StatementFails, Die, Active
<1>5. boot = "over"
  BY <1>4 DEF SchemaInv, RunOK
<1>6. RunMoves(r, new)
  BY <1>1, <1>2 DEF StatementFails, Die, RunMoves
<1> HIDE DEF new
<1>7. QED BY <1>3, <1>5, <1>6, AwayKeeps DEF Applying

\* What is pending goes on to be applied, from its first statement.
LEMMA ReadLedgerKeeps ==
    ASSUME MigrationsAssumption, SchemaInv, NEW r \in Runs, ReadLedger(r)
    PROVE  SchemaInv'
<1> DEFINE pending == {f \in runs[r].discovered : LedgerRow(f) \notin committed}
           new == [runs[r] EXCEPT !.at = IF pending = {} THEN "done" ELSE "apply",
                               !.files = pending, !.stmt = 1]
<1>1. runs[r] \in RunRecords /\ hasLedger \in BOOLEAN
  BY DEF SchemaInv, SchemaTyped
<1>2. /\ new \in RunRecords /\ new.at = (IF pending = {} THEN "done" ELSE "apply")
      /\ new.files = pending /\ new.discovered = runs[r].discovered
      /\ new.stmt = 1 /\ new.own = runs[r].own
  BY <1>1 DEF RunRecords, Active
<1>3. runs[r].at = "read" /\ RunMoves(r, new)
  BY <1>1 DEF ReadLedger, RunMoves
<1>4. runs[r].own = {} /\ boot = "over" /\ hasLedger
  BY <1>3 DEF SchemaInv, RunOK, Applying
<1>5. CASE pending = {}
  <2>1. \A g \in new.discovered : Named(g)
    BY <1>2, <1>5 DEF Named
  <2> HIDE DEF new
  <2>2. QED BY <1>2, <1>3, <1>4, <1>5, <2>1, AwayKeeps DEF Applying
<1>6. CASE pending # {}
  <2>1. runs'[r] = new /\ UNCHANGED <<boot, committed>> /\ hasLedger' \in BOOLEAN /\ hasLedger'
    BY <1>3, <1>4 DEF RunMoves, RunGoes, SchemaInv, SchemaTyped
  <2>2. SchemaTyped'
    BY <1>2, <1>3 DEF RunMoves, RunGoes, SchemaInv, SchemaTyped
  <2>3. runs'[r].files # {} /\ runs'[r].stmt = 1 /\ runs'[r].own = {} /\ runs'[r].at = "apply"
    BY <1>2, <1>4, <1>6, <2>1
  <2>4. Statements[File(r)'] \in Seq(Kinds)
    <3>1. runs'[r].files \subseteq Files /\ runs'[r].files # {}
      BY <2>2, <2>3 DEF SchemaTyped, RunRecords
    <3>2. QED BY <3>1, FirstFile DEF File
  <2>5. Passed(r)' = {}
    BY <2>3, <2>4 DEF Passed
  <2>6. \A g \in runs'[r].discovered \ runs'[r].files : Named(g)'
    BY <1>2, <2>1 DEF Named
  <2>7. AtFile(r)'
    BY <1>2, <2>1, <2>3, <2>4, <2>5, <2>6 DEF AtFile
  <2>8. RunOK(r)'
    BY <1>4, <2>1, <2>3, <2>7 DEF RunOK, Applying
  <2> HIDE DEF new
  <2>9. QED BY <1>2, <1>3, <1>4, <2>8, RunMovesKeep
<1>7. QED BY <1>5, <1>6

\* Where a run is while it applies a file.
LEMMA ApplyingFacts ==
    ASSUME MigrationsAssumption, SchemaInv, NEW r \in Runs, runs[r].at \in Applying
    PROVE  /\ runs[r] \in RunRecords /\ AtFile(r) /\ boot = "over" /\ hasLedger
           /\ File(r) \in runs[r].files /\ File(r) \in Files /\ File(r) \in Nat
           /\ \A f \in runs[r].files : File(r) <= f
           /\ Statements[File(r)] \in Seq(Kinds) /\ Len(Statements[File(r)]) \in Nat
           /\ DOMAIN Statements[File(r)] = 1 .. Len(Statements[File(r)])
           /\ runs[r].stmt \in Nat /\ runs[r].stmt >= 1
           /\ runs[r].at # "commit" /\ ~AtRow(r) => runs[r].stmt \in DOMAIN Statements[File(r)]
           /\ runs[r].at # "commit" /\ AtRow(r) => runs[r].stmt = Len(Statements[File(r)]) + 1
<1>1. runs[r] \in RunRecords /\ AtFile(r) /\ boot = "over"
  BY DEF SchemaInv, SchemaTyped, RunOK, Applying
<1>2. runs[r].files # {} /\ hasLedger
  BY <1>1 DEF AtFile
<1>3. /\ File(r) \in runs[r].files /\ File(r) \in Files /\ File(r) \in Nat
      /\ \A f \in runs[r].files : File(r) <= f
      /\ Statements[File(r)] \in Seq(Kinds)
  BY <1>2, FileIsFirst DEF SchemaInv
<1>4. /\ Len(Statements[File(r)]) \in Nat
      /\ DOMAIN Statements[File(r)] = 1 .. Len(Statements[File(r)])
  BY <1>3
<1>5. /\ runs[r].stmt \in Nat /\ runs[r].stmt >= 1
      /\ runs[r].at # "commit" => runs[r].stmt <= Len(Statements[File(r)]) + 1
  BY <1>1, <1>4 DEF AtFile
<1>6. QED BY <1>1, <1>2, <1>3, <1>4, <1>5 DEF AtRow

\* A run that has to wait stays where it was.
LEMMA WaitKeeps ==
    ASSUME MigrationsAssumption, SchemaInv, NEW r \in Runs, Wait(r)
    PROVE  SchemaInv'
<1> DEFINE new == [runs[r] EXCEPT !.at = "waiting"]
<1>1. runs[r].at = "apply" /\ RunMoves(r, new)
  BY DEF Wait, RunMoves, SchemaInv, SchemaTyped
<1>2. runs[r] \in RunRecords /\ AtFile(r) /\ boot = "over"
  BY <1>1, ApplyingFacts DEF Applying
<1>3. /\ new \in RunRecords /\ new.at = "waiting"
      /\ new.files = runs[r].files /\ new.discovered = runs[r].discovered
      /\ new.stmt = runs[r].stmt /\ new.own = runs[r].own
  BY <1>2 DEF RunRecords, Active
<1>4. runs'[r] = new /\ UNCHANGED <<boot, committed>> /\ (hasLedger => hasLedger')
  BY <1>1 DEF RunMoves, RunGoes, SchemaInv, SchemaTyped
<1> HIDE DEF new
<1>5. /\ File(r)' = File(r) /\ Passed(r)' = Passed(r)
      /\ \A g : Named(g) <=> Named(g)'
  BY <1>3, <1>4 DEF File, Passed, Named
<1>6. AtFile(r)'
  BY <1>1, <1>2, <1>3, <1>4, <1>5 DEF AtFile
<1>7. RunOK(r)'
  BY <1>2, <1>3, <1>4, <1>6 DEF RunOK, Applying
<1>8. QED BY <1>1, <1>3, <1>7, RunMovesKeep DEF SchemaInv, OneMaker

\* Past a statement: the object is there, or made and held by nobody else.
LEMMA PastStatement ==
    ASSUME MigrationsAssumption, SchemaInv, NEW r \in Runs,
           runs[r].at \in {"apply", "waiting"}, ~AtRow(r),
           NEW own, Advance(r, own), UNCHANGED <<disk, boot, committed, hasLedger, found>>,
           \/ own = runs[r].own /\ Target(r) \in committed
           \/ own = runs[r].own \cup {Target(r)} /\ Holders(r) = {}
    PROVE  SchemaInv'
<1> DEFINE new == [runs[r] EXCEPT !.at = "apply", !.stmt = @ + 1, !.own = own]
           n == runs[r].stmt
           f == File(r)
<1>1. /\ runs[r] \in RunRecords /\ AtFile(r) /\ boot = "over" /\ hasLedger
      /\ f \in Files /\ Len(Statements[f]) \in Nat
      /\ DOMAIN Statements[f] = 1 .. Len(Statements[f])
      /\ n \in Nat /\ n \in DOMAIN Statements[f]
  BY ApplyingFacts DEF Applying
<1>2. Target(r) = <<f, n>> /\ Target(r) \in AllObjects
  <2>1. <<f, n>> \in Objects(f)
    BY <1>1 DEF Objects
  <2>2. QED BY <1>1, <2>1, ObjectsOf DEF Target
<1>3. own \subseteq AllObjects \cup LedgerRows
  BY <1>1, <1>2 DEF RunRecords
<1>4. /\ new \in RunRecords /\ new.at = "apply"
      /\ new.files = runs[r].files /\ new.discovered = runs[r].discovered
      /\ new.stmt = n + 1 /\ new.own = own
  <2>1. n + 1 \in Nat /\ "apply" \in Active
    BY <1>1 DEF Active
  <2>2. QED BY <1>1, <1>3, <2>1 DEF RunRecords
<1>5. RunMoves(r, new)
  BY DEF Advance, RunMoves, SchemaInv, SchemaTyped
<1>6. runs'[r] = new
  BY <1>5 DEF RunMoves, RunGoes, SchemaInv, SchemaTyped
<1> HIDE DEF new
<1>7. File(r)' = f /\ \A g : Named(g) <=> Named(g)'
  BY <1>4, <1>6 DEF File, Named
<1>8. Passed(r)' = Passed(r) \cup {<<f, n>>}
  <2>1. {j \in DOMAIN Statements[f] : j < n + 1} = {j \in DOMAIN Statements[f] : j < n} \cup {n}
    BY <1>1
  <2>2. QED BY <1>4, <1>6, <1>7, <2>1 DEF Passed
<1>9. own \subseteq Passed(r)' /\ Passed(r)' \subseteq committed \cup own
  <2>1. runs[r].own \subseteq Passed(r) /\ Passed(r) \subseteq committed \cup runs[r].own
    BY <1>1 DEF AtFile
  <2>2. QED BY <1>2, <1>8, <2>1
<1>10. AtFile(r)'
  <2>1. n + 1 \in 1 .. Len(Statements[f]) + 2 /\ n + 1 <= Len(Statements[f]) + 1
    BY <1>1
  <2>2. QED BY <1>1, <1>4, <1>6, <1>7, <1>9, <2>1 DEF AtFile
<1>11. RunOK(r)'
  BY <1>1, <1>4, <1>6, <1>10 DEF RunOK, Applying
<1>12. \A q \in Runs \ {r} : runs[q].own \cap new.own = {}
  BY <1>4 DEF SchemaInv, OneMaker, Holders
<1>13. QED BY <1>4, <1>5, <1>11, <1>12, RunMovesKeep

\* Past the last one: the ledger's row.
LEMMA InsertRowKeeps ==
    ASSUME MigrationsAssumption, SchemaInv, NEW r \in Runs, InsertRow(r)
    PROVE  SchemaInv'
<1> DEFINE own == runs[r].own \cup {LedgerRow(File(r))}
           new == [runs[r] EXCEPT !.at = "commit", !.stmt = @ + 1, !.own = own]
           n == runs[r].stmt
           f == File(r)
<1>1. /\ runs[r] \in RunRecords /\ AtFile(r) /\ boot = "over" /\ hasLedger
      /\ f \in Files /\ Len(Statements[f]) \in Nat
      /\ DOMAIN Statements[f] = 1 .. Len(Statements[f])
      /\ n = Len(Statements[f]) + 1 /\ AtRow(r) /\ runs[r].at # "commit"
      /\ Target(r) = LedgerRow(f)
  BY ApplyingFacts DEF Applying, InsertRow, Target
<1>2. own \subseteq AllObjects \cup LedgerRows
  BY <1>1, ObjectsOf DEF RunRecords
<1>3. /\ new \in RunRecords /\ new.at = "commit"
      /\ new.files = runs[r].files /\ new.discovered = runs[r].discovered
      /\ new.stmt = n + 1 /\ new.own = own
  <2>1. n + 1 \in Nat /\ "commit" \in Active
    BY <1>1 DEF Active
  <2> HIDE DEF own
  <2>2. QED BY <1>1, <1>2, <2>1 DEF RunRecords
<1>4. RunMoves(r, new)
  BY <1>1 DEF InsertRow, Advance, RunMoves, SchemaInv, SchemaTyped
<1>5. runs'[r] = new /\ UNCHANGED <<boot, committed, hasLedger>>
  BY <1>4 DEF RunMoves, RunGoes, SchemaInv, SchemaTyped, InsertRow
<1> HIDE DEF new
<1>6. File(r)' = f /\ \A g : Named(g) <=> Named(g)'
  BY <1>3, <1>5 DEF File, Named
<1>7. Passed(r)' = Passed(r)
  <2>1. {j \in DOMAIN Statements[f] : j < n + 1} = {j \in DOMAIN Statements[f] : j < n}
    BY <1>1
  <2>2. QED BY <1>3, <1>5, <1>6, <2>1 DEF Passed
<1>8. runs[r].own \subseteq Passed(r) /\ Passed(r) \subseteq committed \cup runs[r].own
  BY <1>1 DEF AtFile
<1>9. AtRow(r)' /\ n + 1 \in 1 .. Len(Statements[f]) + 2
  BY <1>1, <1>3, <1>5, <1>6 DEF AtRow
<1>10. AtFile(r)'
  BY <1>1, <1>3, <1>5, <1>6, <1>7, <1>8, <1>9 DEF AtFile
<1>11. RunOK(r)'
  BY <1>1, <1>3, <1>5, <1>10 DEF RunOK, Applying
<1>12. \A q \in Runs \ {r} : runs[q].own \cap new.own = {}
  BY <1>1, <1>3 DEF SchemaInv, OneMaker, Holders, InsertRow
<1>13. QED BY <1>3, <1>4, <1>11, <1>12, RunMovesKeep

\* The commit of a file: all of it is there, with its row.
LEMMA CommitFileKeeps ==
    ASSUME MigrationsAssumption, SchemaInv, NEW r \in Runs, CommitFile(r)
    PROVE  SchemaInv'
<1>0. PICK f : f = File(r)
  OBVIOUS
<1> DEFINE own == runs[r].own
           rest == runs[r].files \ {f}
           new == [runs[r] EXCEPT !.at = IF rest = {} THEN "done" ELSE "apply",
                               !.files = rest, !.stmt = 1, !.own = {}]
<1>1. /\ runs[r] \in RunRecords /\ AtFile(r) /\ boot = "over" /\ hasLedger
      /\ f \in runs[r].files /\ f \in Files /\ f \in Nat
      /\ \A g \in runs[r].files : f <= g
      /\ Len(Statements[f]) \in Nat /\ DOMAIN Statements[f] = 1 .. Len(Statements[f])
      /\ runs[r].at = "commit" /\ runs[r].stmt \in Nat
  BY <1>0, ApplyingFacts DEF Applying, CommitFile
<1>2. /\ AtRow(r) /\ LedgerRow(f) \in own /\ own \subseteq Passed(r) \cup {LedgerRow(f)}
      /\ Passed(r) \subseteq committed \cup own
      /\ runs[r].files \subseteq runs[r].discovered
      /\ \A g \in runs[r].discovered \ runs[r].files : Named(g)
  BY <1>0, <1>1 DEF AtFile
<1>3. Passed(r) = Objects(f)
  <2>1. {j \in DOMAIN Statements[f] : j < runs[r].stmt} = DOMAIN Statements[f]
    BY <1>0, <1>1, <1>2 DEF AtRow
  <2>2. QED BY <1>0, <2>1 DEF Passed, Objects
<1>4. /\ committed' = committed \cup own /\ Objects(f) \subseteq committed'
      /\ UNCHANGED <<disk, boot, hasLedger>>
  BY <1>2, <1>3 DEF CommitFile
<1>5. /\ new \in RunRecords /\ new.at = (IF rest = {} THEN "done" ELSE "apply")
      /\ new.files = rest /\ new.discovered = runs[r].discovered
      /\ new.stmt = 1 /\ new.own = {}
  <2>1. rest \subseteq Files
    BY <1>1 DEF RunRecords
  <2>2. "apply" \in Active
    BY DEF Active
  <2>3. QED BY <1>1, <2>1, <2>2 DEF RunRecords
<1>6. /\ runs' \in [Runs -> RunRecords] /\ runs'[r] = new
      /\ \A q \in Runs \ {r} : runs'[q] = runs[q]
  <2>1. runs' = [runs EXCEPT ![r] = new] /\ runs \in [Runs -> RunRecords]
    BY <1>0 DEF CommitFile, RunGoes, SchemaInv, SchemaTyped
  <2>2. QED BY <1>5, <2>1
<1> HIDE DEF new, rest
<1>7. /\ \A g : Named(g) => Named(g)'
      /\ Named(f)'
      /\ \A g \in Files : Named(g)' => Named(g) \/ g = f
  <2>1. \A g : LedgerRow(g) \notin Objects(f) /\ (g # f => LedgerRow(g) # LedgerRow(f))
    BY <1>1, ObjectsOf
  <2>2. own \subseteq Objects(f) \cup {LedgerRow(f)} /\ LedgerRow(f) \in own
    BY <1>2, <1>3
  <2>3. QED BY <1>4, <2>1, <2>2 DEF Named
<1>8. DOMAIN found' = DOMAIN found \cup {LedgerRow(f)}
      /\ \A row \in DOMAIN found' :
            found'[row] = IF row \in DOMAIN found THEN found[row] ELSE runs[r].discovered
  BY <1>0 DEF CommitFile
<1>9. SchemaTyped'
  <2>1. runs[r].discovered \subseteq Files /\ own \subseteq AllObjects \cup LedgerRows
    BY <1>1 DEF RunRecords
  <2>2. /\ disk \subseteq Files /\ boot \in {"running", "over"} /\ hasLedger \in BOOLEAN
        /\ committed \subseteq AllObjects \cup LedgerRows
        /\ \A row \in DOMAIN found : found[row] \subseteq Files
    BY DEF SchemaInv, SchemaTyped
  <2>3. \A row \in DOMAIN found' : found'[row] \subseteq Files
    BY <1>8, <2>1, <2>2
  <2>4. QED BY <1>4, <1>6, <2>1, <2>2, <2>3 DEF SchemaTyped
<1>10. \A g, h \in Files : Half(g)' /\ Half(h)' => g = h
  <2>1. ASSUME NEW g \in Files, Half(g)' PROVE Half(g)
    <3>1. g # f
      BY <1>4, <2>1 DEF Half
    <3>2. Objects(g) \cap own = {}
      BY <1>1, <1>2, <1>3, <2>1, <3>1, ObjectsOf
    <3>3. QED BY <1>4, <2>1, <3>2 DEF Half
  <2>2. QED BY <2>1 DEF SchemaInv
<1>11. LedgerOK'
  <2>1. DOMAIN found' \subseteq committed'
    BY <1>2, <1>4, <1>8 DEF SchemaInv, LedgerOK
  <2>2. ASSUME NEW g \in Files, Named(g)'
        PROVE  /\ hasLedger' /\ Objects(g) \subseteq committed'
               /\ LedgerRow(g) \in DOMAIN found'
               /\ \A h \in found'[LedgerRow(g)] : h < g => Named(h)'
    <3>1. CASE Named(g)
      <4>1. /\ Objects(g) \subseteq committed /\ LedgerRow(g) \in DOMAIN found
            /\ \A h \in found[LedgerRow(g)] : h < g => Named(h)
        BY <3>1 DEF SchemaInv, LedgerOK
      <4>2. QED BY <1>1, <1>4, <1>7, <1>8, <4>1
    <3>2. CASE ~Named(g)
      <4>1. g = f
        BY <1>7, <2>2, <3>2
      <4>2. LedgerRow(f) \notin DOMAIN found
        BY <3>2, <4>1 DEF SchemaInv, LedgerOK, Named
      <4>3. found'[LedgerRow(f)] = runs[r].discovered
        BY <1>8, <4>2
      <4>4. runs[r].discovered \subseteq Nat
        BY <1>1 DEF RunRecords, MigrationsAssumption
      <4>5. \A h \in runs[r].discovered : h < f => Named(h)
        BY <1>1, <1>2, <4>4
      <4>6. QED BY <1>1, <1>4, <1>7, <1>8, <4>1, <4>3, <4>5
    <3>3. QED BY <3>1, <3>2
  <2>3. QED BY <2>1, <2>2 DEF LedgerOK
<1>12. OneMaker'
  BY <1>5, <1>6 DEF SchemaInv, OneMaker
<1>13. RunOK(r)'
  <2>1. \A g \in runs[r].discovered \ rest : Named(g)'
    BY <1>2, <1>7 DEF rest
  <2>2. CASE rest = {}
    BY <1>1, <1>4, <1>5, <1>6, <2>1, <2>2 DEF RunOK, Applying
  <2>3. CASE rest # {}
    <3>1. Statements[File(r)'] \in Seq(Kinds)
      <4>1. rest \subseteq Files
        BY <1>1 DEF rest, RunRecords
      <4>2. QED BY <1>5, <1>6, <2>3, <4>1, FirstFile DEF File
    <3>2. Passed(r)' = {}
      BY <1>5, <1>6, <3>1 DEF Passed
    <3>3. rest \subseteq runs[r].discovered
      BY <1>2 DEF rest
    <3>4. runs'[r].at = "apply"
      BY <1>5, <1>6, <2>3
    <3>5. AtFile(r)'
      BY <1>1, <1>4, <1>5, <1>6, <2>1, <2>3, <3>1, <3>2, <3>3, <3>4 DEF AtFile
    <3>6. QED BY <1>1, <1>4, <3>4, <3>5 DEF RunOK, Applying
  <2>4. QED BY <2>2, <2>3
<1>14. ASSUME NEW q \in Runs PROVE RunOK(q)'
  <2>1. CASE q = r
    BY <1>13, <2>1
  <2>2. CASE q # r
    BY <1>4, <1>6, <2>2, OtherRunOK DEF SchemaInv
  <2>3. QED BY <2>1, <2>2
<1>15. boot' = "over"
  BY <1>1, <1>4
<1>16. QED BY <1>9, <1>10, <1>11, <1>12, <1>14, <1>15 DEF SchemaInv

\* While the init scripts run, and when a file is deployed, no run moves.
LEMMA RunsWait ==
    ASSUME SchemaInv, runs' = runs, hasLedger' = hasLedger, found' = found,
           committed \subseteq committed', boot = "over" => boot' = "over"
    PROVE  OneMaker' /\ \A q \in Runs : RunOK(q)'
<1>1. OneMaker'
  BY DEF SchemaInv, OneMaker
<1>2. \A q \in Runs : RunOK(q)'
  BY OtherRunOK DEF SchemaInv
<1>3. QED BY <1>1, <1>2

\* A new version brings files; those that were there stay.
LEMMA DeployKeeps ==
    ASSUME SchemaInv, NEW f \in Files, Deploy(f)
    PROVE  SchemaInv'
<1>1. /\ boot = "over" /\ disk' = disk \cup {f}
      /\ UNCHANGED <<boot, committed, hasLedger, found, runs>>
  BY DEF Deploy
<1>2. SchemaTyped'
  BY <1>1 DEF SchemaInv, SchemaTyped
<1>3. \A g, h \in Files : Half(g)' /\ Half(h)' => g = h
  BY <1>1 DEF SchemaInv, Half
<1>4. LedgerOK'
  BY <1>1 DEF SchemaInv, LedgerOK, Named
<1>5. QED BY <1>1, <1>2, <1>3, <1>4, RunsWait DEF SchemaInv

\* The init scripts end, or stop half way; no run has begun.
LEMMA InitOverKeeps ==
    ASSUME SchemaInv, InitOver
    PROVE  SchemaInv'
<1>1. boot' = "over" /\ UNCHANGED <<disk, committed, hasLedger, found, runs>>
  BY DEF InitOver
<1>2. SchemaTyped'
  BY <1>1 DEF SchemaInv, SchemaTyped
<1>3. \A g, h \in Files : Half(g)' /\ Half(h)' => g = h
  BY <1>1 DEF SchemaInv, Half
<1>4. LedgerOK'
  BY <1>1 DEF SchemaInv, LedgerOK, Named
<1>5. QED BY <1>1, <1>2, <1>3, <1>4, RunsWait DEF SchemaInv

\* Of two files of which a part is there, the earlier one is whole: what is filled in
\* order has one edge.
LEMMA OneEdge ==
    ASSUME MigrationsAssumption, committed' \subseteq DiskObjects', disk' \subseteq Files,
           \A o \in committed', p \in DiskObjects' : Before(p, o) => p \in committed'
    PROVE  \A f, g \in Files : Half(f)' /\ Half(g)' => f = g
<1>1. ASSUME NEW f \in Files, NEW g \in Files, Half(f)', Half(g)', f < g PROVE FALSE
  <2>1. PICK o \in Objects(g) : o \in committed'
    BY <1>1 DEF Half
  <2>2. PICK p \in Objects(f) : p \notin committed'
    BY <1>1 DEF Half
  <2>3. PICK q \in Objects(f) : q \in committed'
    BY <1>1 DEF Half
  <2>4. f \in disk'
    <3>1. PICK h \in disk' : q \in Objects(h)
      BY <2>3 DEF DiskObjects
    <3>2. h = f
      BY <2>3, <3>1, ObjectsOf
    <3>3. QED BY <3>1, <3>2
  <2>5. p \in DiskObjects'
    BY <2>2, <2>4 DEF DiskObjects
  <2>6. p[1] = f /\ o[1] = g
    BY <2>1, <2>2 DEF Objects
  <2>7. QED BY <1>1, <2>1, <2>2, <2>5, <2>6 DEF Before
<1>2. \A f, g \in Files : f \in Nat /\ g \in Nat
  BY DEF MigrationsAssumption
<1>3. QED BY <1>1, <1>2

\* An object is a file's number and a place in it.
LEMMA DiskObjectsTyped ==
    ASSUME MigrationsAssumption, disk \subseteq Files
    PROVE  DiskObjects \subseteq AllObjects /\ DiskObjects \subseteq Nat \X Nat
<1>1. DiskObjects \subseteq AllObjects
  BY DEF DiskObjects, AllObjects
<1>2. ASSUME NEW f \in disk, NEW o \in Objects(f) PROVE o \in Nat \X Nat
  <2>1. PICK i \in DOMAIN Statements[f] : o = <<f, i>>
    BY DEF Objects
  <2>2. f \in Nat /\ i \in Nat
    BY DEF MigrationsAssumption
  <2>3. QED BY <2>1, <2>2
<1>3. QED BY <1>1, <1>2 DEF DiskObjects

\* A statement of the init scripts adds the next object to what is filled.
LEMMA InitStatementKeeps ==
    ASSUME MigrationsAssumption, SchemaInv, InitStatement
    PROVE  SchemaInv'
<1>1. PICK o \in DiskObjects \ committed :
         /\ \A p \in DiskObjects \ committed : p = o \/ Before(o, p)
         /\ committed' = committed \cup {o}
  BY DEF InitStatement
<1>2. boot = "running" /\ UNCHANGED <<disk, boot, hasLedger, found, runs>>
  BY DEF InitStatement
<1>3. disk \subseteq Files /\ Filled /\ DiskObjects' = DiskObjects
  BY <1>2 DEF SchemaInv, SchemaTyped, DiskObjects
<1>4. DiskObjects \subseteq AllObjects /\ DiskObjects \subseteq Nat \X Nat
  BY <1>3, DiskObjectsTyped
<1>5. SchemaTyped'
  BY <1>1, <1>2, <1>4 DEF SchemaInv, SchemaTyped
<1>6. Filled'
  <2>1. committed' \subseteq DiskObjects
    BY <1>1, <1>3 DEF Filled
  <2>2. ASSUME NEW u \in committed', NEW p \in DiskObjects, Before(p, u), p \notin committed'
        PROVE  FALSE
    <3>1. u = o
      BY <1>1, <1>3, <2>2 DEF Filled
    <3>2. Before(o, p)
      BY <1>1, <2>2
    <3>3. o[1] \in Nat /\ o[2] \in Nat /\ p[1] \in Nat /\ p[2] \in Nat
      BY <1>4
    <3>4. QED BY <2>2, <3>1, <3>2, <3>3 DEF Before
  <2>3. QED BY <1>3, <2>1, <2>2 DEF Filled
<1>7. \A f, g \in Files : Half(f)' /\ Half(g)' => f = g
  <2>1. /\ committed' \subseteq DiskObjects' /\ disk' \subseteq Files
        /\ \A u \in committed', p \in DiskObjects' : Before(p, u) => p \in committed'
    BY <1>2, <1>3, <1>6 DEF Filled
  <2>2. MigrationsAssumption
    BY MigrationsAssumption
  <2>3. QED BY <2>1, <2>2, OneEdge
<1>8. LedgerOK'
  <2>1. \A f : Named(f)' <=> Named(f)
    <3>1. \A f : LedgerRow(f) # o
      BY <1>1, <1>3, ObjectsOf DEF DiskObjects
    <3>2. QED BY <1>1, <3>1 DEF Named
  <2>2. QED BY <1>1, <1>2, <2>1 DEF SchemaInv, LedgerOK
<1>9. QED BY <1>1, <1>2, <1>5, <1>6, <1>7, <1>8, RunsWait DEF SchemaInv

-----------------------------------------------------------------------------

\* Before the first boot there is nothing.
LEMMA SchemaInitInv == MigrationsInit => SchemaInv
<1> SUFFICES ASSUME MigrationsInit PROVE SchemaInv
  OBVIOUS
<1>1. \A r \in Runs : runs[r] = NotStarted
  BY DEF MigrationsInit
<1>2. SchemaTyped
  <2>1. NotStarted \in RunRecords
    BY DEF NotStarted, RunRecords
  <2>2. QED BY <2>1 DEF MigrationsInit, SchemaTyped
<1>3. Filled /\ \A f : ~Half(f) /\ ~Named(f)
  BY DEF MigrationsInit, Filled, Half, Named
<1>4. LedgerOK
  BY <1>3 DEF MigrationsInit, LedgerOK
<1>5. OneMaker
  BY <1>1 DEF OneMaker, NotStarted
<1>6. \A r \in Runs : RunOK(r)
  BY <1>1 DEF RunOK, NotStarted, Applying
<1>7. QED BY <1>2, <1>3, <1>4, <1>5, <1>6 DEF SchemaInv

\* Every step of the init scripts and of the runs keeps the invariant.
LEMMA SchemaStep ==
    ASSUME MigrationsAssumption, SchemaInv, [MigrationsNext]_migrationVars
    PROVE  SchemaInv'
<1>1. CASE UNCHANGED migrationVars
  <2>1. UNCHANGED <<disk, boot, committed, hasLedger, found, runs>>
    BY <1>1 DEF migrationVars
  <2>2. SchemaTyped' /\ (boot' = "running" => Filled')
    BY <2>1 DEF SchemaInv, SchemaTyped, Filled, DiskObjects
  <2>3. \A g, h \in Files : Half(g)' /\ Half(h)' => g = h
    BY <2>1 DEF SchemaInv, Half
  <2>4. LedgerOK'
    BY <2>1 DEF SchemaInv, LedgerOK, Named
  <2>5. QED BY <2>1, <2>2, <2>3, <2>4, RunsWait DEF SchemaInv
<1>2. CASE \E f \in Files : Deploy(f)
  BY <1>2, DeployKeeps
<1>3. CASE InitStatement \/ InitOver
  BY <1>3, InitStatementKeeps, InitOverKeeps
<1>4. ASSUME NEW r \in Runs, CreateSeen(r) \/ MakeObject(r) PROVE SchemaInv'
  <2>1. CASE CreateSeen(r)
    BY <2>1, PastStatement DEF CreateSeen
  <2>2. CASE MakeObject(r)
    BY <2>2, PastStatement DEF MakeObject
  <2>3. QED BY <1>4, <2>1, <2>2
<1>5. ASSUME NEW r \in Runs,
             \/ BeginRun(r) \/ EnsureLedger(r) \/ ReadLedger(r)
             \/ InsertRow(r) \/ Wait(r) \/ StatementFails(r) \/ CommitFile(r) \/ Die(r)
      PROVE  SchemaInv'
  BY <1>5, BeginRunKeeps, EnsureLedgerKeeps, ReadLedgerKeeps, InsertRowKeeps, WaitKeeps,
     GivesUpKeeps, CommitFileKeeps
<1>6. QED BY <1>1, <1>2, <1>3, <1>4, <1>5 DEF MigrationsNext

\* A set of which any two elements are the same has one at most.
LEMMA OneAtMost ==
    ASSUME NEW S, \A x, y \in S : x = y
    PROVE  Cardinality(S) <= 1
<1>1. CASE S = {}
  BY <1>1, FS_EmptySet
<1>2. CASE S # {}
  <2>1. PICK x \in S : TRUE
    BY <1>2
  <2>2. S = {x}
    OBVIOUS
  <2>3. QED BY <2>2, FS_Singleton
<1>3. QED BY <1>1, <1>2

\* The ledger is right about the schema (SchemaWhole), with any files, any number of
\* runs of migrate.py that overlap, fail or die anywhere, and init scripts that stop
\* half way: what it names is there as a whole, with every earlier file its run knew
\* of; one file at most is there in part; and no two runs make the same object.
THEOREM SchemaIsWhole == MigrationsSpec => []SchemaWhole
<1> USE MigrationsAssumption
<1>1. MigrationsInit => SchemaInv
  BY SchemaInitInv
<1>2. SchemaInv /\ [MigrationsNext]_migrationVars => SchemaInv'
  BY SchemaStep
<1>3. SchemaInv => SchemaWhole
  <2> SUFFICES ASSUME SchemaInv PROVE SchemaWhole
    OBVIOUS
  <2> DEFINE named == {f \in Files : LedgerRow(f) \in committed}
             half == {f \in Files : Objects(f) \cap committed \notin {{}, Objects(f)}}
  <2>1. MigrationsTypeOK
    BY DEF SchemaInv, SchemaTyped, RunRecords, MigrationsTypeOK
  <2>2. \A f \in Files : (f \in named <=> Named(f)) /\ (f \in half <=> Half(f))
    BY DEF Named, Half
  <2>3. \A f \in named : /\ Objects(f) \subseteq committed
                         /\ \A g \in found[LedgerRow(f)] : g < f => g \in named
    BY <2>2 DEF SchemaInv, LedgerOK, SchemaTyped
  <2>4. Cardinality(half) <= 1
    BY <2>2, OneAtMost DEF SchemaInv
  <2>5. half \cap named = {}
    BY <2>2, <2>3 DEF Half
  <2>6. \A r \in Runs : runs[r].at = "done" => runs[r].discovered \subseteq named
    BY <2>2 DEF SchemaInv, SchemaTyped, RunRecords, RunOK
  <2>7. \A q, r \in Runs : q # r => runs[q].own \cap runs[r].own = {}
    BY DEF SchemaInv, OneMaker
  <2>8. named # {} => hasLedger
    BY <2>2 DEF SchemaInv, LedgerOK
  <2> HIDE DEF named, half
  <2>9. QED BY <2>1, <2>3, <2>4, <2>5, <2>6, <2>7, <2>8 DEF SchemaWhole, named, half
<1>4. QED BY <1>1, <1>2, <1>3, PTL DEF MigrationsSpec

-----------------------------------------------------------------------------
(* The response cache.                                                     *)

\* The prompts of a list of entries, by their places.
PromptsIn(es) == {es[i].prompt : i \in 1..Len(es)}

\* What a tenant's namespace is like: in the order of use the entries are the last of
\* the prompts used, as many as may be kept; the index names each, with its id.
BankOK(b, es, lu, index, next) ==
    /\ es \in Seq(Entries) /\ lu \in Seq(Prompts) /\ IsInjective(lu)
    /\ Len(es) <= Len(lu) /\ Len(es) <= MaxEntries
    /\ Len(es) = MaxEntries \/ Len(es) = Len(lu)
    /\ \A i \in 1..Len(es) : lu[Len(lu) - Len(es) + i] = es[i].prompt
    /\ DOMAIN index = PromptsIn(es)
    /\ \A i \in 1..Len(es) : es[i].id < next /\ index[es[i].prompt] = es[i].id
    /\ \A i, j \in 1..Len(es) : es[i].id = es[j].id => i = j
    /\ \A i \in 1..Len(es) : es[i].answer.bank = b /\ es[i].answer.prompt = es[i].prompt

ClientRecords == [at     : {"new", "hit", "model", "raised", "stored"},
                  bank   : Banks \cup {NoAnswer},
                  prompt : Prompts \cup {NoAnswer},
                  answer : Answers \cup {NoAnswer}]

\* The answer is one for the tenant and for a prompt as near as it must be.
OwnAnswer(c) ==
    /\ c.answer.bank = c.bank
    /\ c.answer.prompt = c.prompt \/ Near[c.prompt][c.answer.prompt] >= Threshold

ClientOK(c) ==
    /\ c.at # "new" => c.bank \in Banks /\ c.prompt \in Prompts
    /\ c.at \in {"hit", "stored"} => OwnAnswer(c)

\* Every entry there is, of any tenant.
Held == UNION {{b} \X IdsOf(entries[b]) : b \in Banks}

\* The part of the invariant that is about the namespaces.
BanksOK ==
    /\ entries \in [Banks -> Seq(Entries)] /\ lastUse \in [Banks -> Seq(Prompts)]
    /\ DOMAIN exact = Banks /\ nextId \in Nat
    /\ \A b \in Banks : BankOK(b, entries[b], lastUse[b], exact[b], nextId)

\* The part that is about the clients.
ClientsOK == client \in [Clients -> ClientRecords] /\ \A k \in Clients : ClientOK(client[k])

CacheInv ==
    /\ BanksOK /\ ClientsOK /\ stats \in [Counters -> Nat]
    /\ IsFiniteSet(Held) /\ Cardinality(Held) = nextId - stats["evictions"]

\* The list with another element, or the same, at its end in place of the one at i.
Moved(s, i, x) == Append(RemoveAt(s, i), x)

\* What is where in it.
IsMoved(s, i, x, t) ==
    /\ Len(t) = Len(s)
    /\ \A j \in 1..Len(s) : t[j] = IF j < i THEN s[j]
                                    ELSE IF j < Len(s) THEN s[j + 1] ELSE x

\* It is the list that was described.
LEMMA MovedToEnd ==
    ASSUME NEW S, NEW s \in Seq(S), NEW i \in 1..Len(s), NEW x \in S
    PROVE  /\ Moved(s, i, x) \in Seq(S) /\ Len(Moved(s, i, x)) = Len(s) /\ Len(s) \in Nat
           /\ \A j \in 1..Len(s) : Moved(s, i, x)[j] =
                 IF j < i THEN s[j] ELSE IF j < Len(s) THEN s[j + 1] ELSE x
<1> DEFINE r == RemoveAt(s, i)
<1>1. /\ r \in Seq(S) /\ Len(r) = Len(s) - 1 /\ Len(s) \in Nat
      /\ \A j \in 1..(Len(s) - 1) : r[j] = IF j < i THEN s[j] ELSE s[j + 1]
  BY RemoveAtProperties, LenProperties
<1>2. Moved(s, i, x) = Append(r, x)
  BY DEF Moved
<1> HIDE DEF r
<1>3. /\ Moved(s, i, x) \in Seq(S) /\ Len(Moved(s, i, x)) = Len(r) + 1
      /\ \A j \in 1..Len(r) : Moved(s, i, x)[j] = r[j]
      /\ Moved(s, i, x)[Len(r) + 1] = x
  BY <1>1, <1>2, AppendProperties
<1>4. QED BY <1>1, <1>3

\* The one occurrence of an element of a list without repeats is removed.
LEMMA RemovesAt ==
    ASSUME NEW S, NEW s \in Seq(S), IsInjective(s), NEW i \in 1..Len(s)
    PROVE  RemoveFirst(s, s[i]) = RemoveAt(s, i)
<1>1. PICK j \in 1..Len(s) : s[j] = s[i] /\ RemoveFirst(s, s[i]) = RemoveAt(s, j)
  BY RemoveFirstProperties
<1>2. DOMAIN s = 1..Len(s)
  BY LenProperties
<1>3. QED BY <1>1, <1>2 DEF IsInjective

\* A list stays without repeats when one element is moved to its end.
LEMMA MovedInjective ==
    ASSUME NEW S, NEW s \in Seq(S), IsInjective(s), NEW i \in 1..Len(s),
           NEW t \in Seq(S), Len(t) = Len(s),
           \A j \in 1..Len(s) : t[j] = IF j < i THEN s[j]
                                       ELSE IF j < Len(s) THEN s[j + 1] ELSE s[i]
    PROVE  IsInjective(t)
<1>1. DOMAIN s = 1..Len(s) /\ Len(s) \in Nat
  BY LenProperties
<1> DEFINE from(j) == IF j < i THEN j ELSE IF j < Len(s) THEN j + 1 ELSE i
<1>3. \A j \in 1..Len(s) : from(j) \in 1..Len(s) /\ t[j] = s[from(j)]
  BY <1>1
<1>4. \A j, l \in 1..Len(s) : from(j) = from(l) => j = l
  BY <1>1
<1> HIDE DEF from
<1>5. ASSUME NEW j \in 1..Len(s), NEW l \in 1..Len(s), t[j] = t[l] PROVE j = l
  <2>1. from(j) \in DOMAIN s /\ from(l) \in DOMAIN s /\ s[from(j)] = s[from(l)]
    BY <1>1, <1>3, <1>5
  <2>2. from(j) = from(l)
    BY <2>1 DEF IsInjective
  <2>3. QED BY <1>4, <2>2
<1>6. DOMAIN t = 1..Len(s)
  BY LenProperties
<1>7. QED BY <1>5, <1>6 DEF IsInjective

\* The ids of a list, by its places.
LEMMA IdsByPlace ==
    ASSUME NEW es \in Seq(Entries)
    PROVE  IdsOf(es) = {es[i].id : i \in 1..Len(es)}
<1>1. Range(es) = {es[i] : i \in 1..Len(es)}
  BY RangeEquality
<1>2. QED BY <1>1 DEF IdsOf

\* A list whose entries another has too, but for the answers.
LEMMA SameFields ==
    ASSUME NEW es \in Seq(Entries), NEW es2 \in Seq(Entries),
           \A j \in 1..Len(es2) : \E l \in 1..Len(es) :
              es2[j].id = es[l].id /\ es2[j].prompt = es[l].prompt
    PROVE  PromptsIn(es2) \subseteq PromptsIn(es) /\ IdsOf(es2) \subseteq IdsOf(es)
<1>1. ASSUME NEW j \in 1..Len(es2)
      PROVE  /\ es2[j].prompt \in {es[l].prompt : l \in 1..Len(es)}
             /\ es2[j].id \in {es[l].id : l \in 1..Len(es)}
  <2>1. PICK l \in 1..Len(es) : es2[j].id = es[l].id /\ es2[j].prompt = es[l].prompt
    OBVIOUS
  <2>2. QED BY <2>1
<1>2. PromptsIn(es2) \subseteq PromptsIn(es)
  BY <1>1 DEF PromptsIn
<1>3. IdsOf(es2) = {es2[j].id : j \in 1..Len(es2)} /\ IdsOf(es) = {es[l].id : l \in 1..Len(es)}
  BY IdsByPlace
<1>4. QED BY <1>1, <1>2, <1>3

\* An entry that is used, or gets a newer answer, goes to the end, as its prompt does
\* in the order of use.
LEMMA RenewedBank ==
    ASSUME NEW b, NEW es, NEW lu, NEW index, NEW next, BankOK(b, es, lu, index, next),
           NEW i \in 1..Len(es), NEW x \in Entries,
           x.id = es[i].id, x.prompt = es[i].prompt,
           x.answer.bank = b, x.answer.prompt = x.prompt,
           NEW es2 \in Seq(Entries), IsMoved(es, i, x, es2),
           NEW m \in 1..Len(lu), lu[m] = x.prompt,
           NEW lu2 \in Seq(Prompts), IsMoved(lu, m, x.prompt, lu2)
    PROVE  BankOK(b, es2, lu2, index, next) /\ IdsOf(es2) = IdsOf(es)
<1>0. /\ es \in Seq(Entries) /\ lu \in Seq(Prompts) /\ IsInjective(lu)
      /\ Len(es) \in Nat /\ Len(lu) \in Nat /\ Len(es) <= Len(lu)
  BY LenProperties DEF BankOK
<1>a. PICK n \in Nat : n = Len(es)
  BY <1>0
<1>b. PICK L \in Nat : L = Len(lu)
  BY <1>0
<1>c. m = L - n + i
  <2>1. L - n + i \in 1..L /\ lu[L - n + i] = x.prompt
    BY <1>0, <1>a, <1>b DEF BankOK
  <2>2. L - n + i \in DOMAIN lu /\ m \in DOMAIN lu
    BY <1>0, <1>b, <2>1
  <2>3. QED BY <1>0, <2>1, <2>2 DEF IsInjective
<1>1. i \in 1..n /\ n <= L /\ m \in 1..L /\ lu[m] = x.prompt /\ x.prompt \in Prompts
  <2>1. i \in 1..n /\ n <= L
    BY <1>0, <1>a, <1>b
  <2>2. m \in 1..L
    BY <2>1, <1>c
  <2>3. lu[m] = x.prompt
    BY <1>a, <1>b, <1>c DEF BankOK
  <2>4. x.prompt \in Prompts
    BY DEF Entries
  <2>5. QED BY <2>1, <2>2, <2>3, <2>4
<1> DEFINE from(j) == IF j < i THEN j ELSE IF j < n THEN j + 1 ELSE i
<1>2. Len(es2) = n /\ \A j \in 1..n : es2[j] = IF j < i THEN es[j]
                                              ELSE IF j < n THEN es[j + 1] ELSE x
  BY <1>a DEF IsMoved
<1>4. Len(lu2) = L /\ \A j \in 1..L : lu2[j] = IF j < m THEN lu[j]
                                              ELSE IF j < L THEN lu[j + 1] ELSE x.prompt
  BY <1>b DEF IsMoved
<1>5. IsInjective(lu2)
  <2>1. m \in 1..Len(lu) /\ Len(lu2) = Len(lu)
    BY <1>1, <1>4, <1>b
  <2>2. \A j \in 1..Len(lu) : lu2[j] = IF j < m THEN lu[j]
                                       ELSE IF j < Len(lu) THEN lu[j + 1] ELSE lu[m]
    BY <1>1, <1>4, <1>b
  <2>3. QED BY <1>0, <1>4, <2>1, <2>2, MovedInjective
<1>6. \A j \in 1..n : /\ from(j) \in 1..n
                      /\ es2[j].id = es[from(j)].id /\ es2[j].prompt = es[from(j)].prompt
                      /\ es2[j] = es[from(j)] \/ es2[j] = x
  <2>1. SUFFICES ASSUME NEW j \in 1..n
                 PROVE  /\ from(j) \in 1..n
                        /\ es2[j].id = es[from(j)].id /\ es2[j].prompt = es[from(j)].prompt
                        /\ es2[j] = es[from(j)] \/ es2[j] = x
    OBVIOUS
  <2>2. CASE j < i
    BY <1>1, <1>2, <2>2
  <2>3. CASE ~(j < i) /\ j < n
    BY <1>1, <1>2, <2>3
  <2>4. CASE ~(j < i) /\ ~(j < n)
    BY <1>1, <1>2, <2>4
  <2>5. QED BY <2>2, <2>3, <2>4
<1>7. \A j, l \in 1..n : from(j) = from(l) => j = l
  BY <1>1
<1>8. \A l \in 1..n : \E j \in 1..n : from(j) = l
  <2>1. ASSUME NEW l \in 1..n PROVE \E j \in 1..n : from(j) = l
    <3>1. CASE l < i
      BY <1>1, <3>1
    <3>2. CASE l = i
      <4>1. n \in 1..n /\ from(n) = i
        BY <1>1
      <4>2. QED BY <3>2, <4>1
    <3>3. CASE l > i
      <4>1. l - 1 \in 1..n /\ from(l - 1) = l
        BY <1>1, <3>3
      <4>2. QED BY <4>1
    <3>4. QED BY <1>1, <3>1, <3>2, <3>3
  <2>2. QED BY <2>1
<1>9. \A j \in 1..n : lu2[L - n + j] = es2[j].prompt
  <2>1. SUFFICES ASSUME NEW j \in 1..n PROVE lu2[L - n + j] = es2[j].prompt
    OBVIOUS
  <2>2. L - n + j \in 1..L
    BY <1>1
  <2>3. CASE j < i
    <3>1. L - n + j < m /\ lu[L - n + j] = es[j].prompt
      <4>1. L - n + j < m
        BY <1>1, <1>c, <2>3
      <4>2. lu[L - n + j] = es[j].prompt
        BY <1>a, <1>b DEF BankOK
      <4>3. QED BY <4>1, <4>2
    <3>2. QED BY <1>2, <1>4, <2>2, <2>3, <3>1
  <2>4. CASE j >= i /\ j < n
    <3>1. j + 1 \in 1..n
      BY <1>1, <2>4
    <3>2. lu[L - n + (j + 1)] = es[j + 1].prompt
      BY <1>a, <1>b, <3>1 DEF BankOK
    <3>3. L - n + (j + 1) = (L - n + j) + 1 /\ ~(L - n + j < m) /\ L - n + j < L
      BY <1>1, <1>c, <2>4
    <3>4. lu2[L - n + j] = lu[L - n + (j + 1)] /\ es2[j] = es[j + 1]
      BY <1>1, <1>2, <1>4, <2>2, <2>4, <3>3
    <3>5. QED BY <3>2, <3>4
  <2>5. CASE j = n
    <3>1. L - n + j = L /\ ~(L < m) /\ ~(j < i)
      BY <1>1, <1>c, <2>5
    <3>2. QED BY <1>1, <1>2, <1>4, <2>2, <2>5, <3>1
  <2>6. j \in Nat /\ i \in Nat /\ j <= n
    BY <1>1
  <2>7. j < i \/ (j >= i /\ j < n) \/ j = n
    BY <2>6
  <2>8. QED BY <2>3, <2>4, <2>5, <2>7, Zenon
<1> HIDE DEF from
<1>10. \A j \in 1..n : es2[j].answer.bank = b /\ es2[j].answer.prompt = es2[j].prompt
  <2>1. SUFFICES ASSUME NEW j \in 1..n
                 PROVE  es2[j].answer.bank = b /\ es2[j].answer.prompt = es2[j].prompt
    OBVIOUS
  <2>2. CASE es2[j] = x
    BY <2>2
  <2>3. CASE es2[j] = es[from(j)]
    <3>1. from(j) \in 1..Len(es)
      BY <1>6, <1>a
    <3>2. es[from(j)].answer.bank = b /\ es[from(j)].answer.prompt = es[from(j)].prompt
      BY <3>1 DEF BankOK
    <3>3. QED BY <2>3, <3>2
  <2>4. QED BY <1>6, <2>2, <2>3
<1>11. PromptsIn(es2) = PromptsIn(es) /\ IdsOf(es2) = IdsOf(es)
  <2>1. \A j \in 1..n : \E l \in 1..n : es2[j].id = es[l].id /\ es2[j].prompt = es[l].prompt
    BY <1>6
  <2>2. \A l \in 1..n : \E j \in 1..n : es2[j].id = es[l].id /\ es2[j].prompt = es[l].prompt
    <3>1. SUFFICES ASSUME NEW l \in 1..n
                   PROVE  \E j \in 1..n : es2[j].id = es[l].id /\ es2[j].prompt = es[l].prompt
      OBVIOUS
    <3>2. PICK j \in 1..n : from(j) = l
      BY <1>8
    <3>3. es2[j].id = es[from(j)].id /\ es2[j].prompt = es[from(j)].prompt
      BY <1>6
    <3>4. QED BY <3>2, <3>3
  <2>3. PromptsIn(es2) \subseteq PromptsIn(es) /\ IdsOf(es2) \subseteq IdsOf(es)
    BY <1>0, <1>2, <1>a, <2>1, SameFields
  <2>4. \A j \in 1..n : \E l \in 1..n : es[j].id = es2[l].id /\ es[j].prompt = es2[l].prompt
    BY <2>2, Zenon
  <2>5. PromptsIn(es) \subseteq PromptsIn(es2) /\ IdsOf(es) \subseteq IdsOf(es2)
    BY <1>0, <1>2, <1>a, <2>4, SameFields
  <2>6. QED BY <2>3, <2>5, Zenon
<1>12. \A j \in 1..n : es2[j].id < next /\ index[es2[j].prompt] = es2[j].id
  <2>1. SUFFICES ASSUME NEW j \in 1..n
                 PROVE  es2[j].id < next /\ index[es2[j].prompt] = es2[j].id
    OBVIOUS
  <2>2. from(j) \in 1..Len(es)
    BY <1>6, <1>a
  <2>3. es[from(j)].id < next /\ index[es[from(j)].prompt] = es[from(j)].id
    BY <2>2 DEF BankOK
  <2>4. QED BY <1>6, <2>3
<1>13. \A j, l \in 1..n : es2[j].id = es2[l].id => j = l
  <2>1. SUFFICES ASSUME NEW j \in 1..n, NEW l \in 1..n, es2[j].id = es2[l].id PROVE j = l
    OBVIOUS
  <2>2. from(j) \in 1..n /\ from(l) \in 1..n /\ es[from(j)].id = es[from(l)].id
    BY <1>6, <2>1
  <2>3. from(j) = from(l)
    BY <1>a, <2>2 DEF BankOK
  <2>4. QED BY <1>7, <2>3
<1>15. /\ n <= L /\ n <= MaxEntries /\ (n = MaxEntries \/ n = L)
       /\ DOMAIN index = PromptsIn(es)
  BY <1>1, <1>a, <1>b DEF BankOK
<1>16. BankOK(b, es2, lu2, index, next)
  BY <1>2, <1>4, <1>5, <1>9, <1>10, <1>11, <1>12, <1>13, <1>15 DEF BankOK
<1>17. QED BY <1>11, <1>16

\* No two entries of a namespace have the same prompt.
LEMMA PromptsDistinct ==
    ASSUME NEW b, NEW es, NEW lu, NEW index, NEW next, BankOK(b, es, lu, index, next),
           NEW i \in 1..Len(es), NEW j \in 1..Len(es), es[i].prompt = es[j].prompt
    PROVE  i = j
<1>1. /\ IsInjective(lu) /\ DOMAIN lu = 1..Len(lu)
      /\ Len(es) \in Nat /\ Len(lu) \in Nat /\ Len(es) <= Len(lu)
  BY LenProperties DEF BankOK
<1>2. lu[Len(lu) - Len(es) + i] = lu[Len(lu) - Len(es) + j]
  BY DEF BankOK
<1>3. Len(lu) - Len(es) + i \in DOMAIN lu /\ Len(lu) - Len(es) + j \in DOMAIN lu
  BY <1>1
<1>4. Len(lu) - Len(es) + i = Len(lu) - Len(es) + j
  BY <1>1, <1>2, <1>3 DEF IsInjective
<1>5. QED BY <1>1, <1>4

\* The order of use after p is used.
UsedLast(lu, p) == Append(RemoveFirst(lu, p), p)

\* A prompt that is not in the namespace is used: it is the last, after those that are.
LEMMA UsedNew ==
    ASSUME NEW b, NEW es, NEW lu, NEW index, NEW next, BankOK(b, es, lu, index, next),
           NEW p \in Prompts, p \notin PromptsIn(es),
           NEW lu2, lu2 = UsedLast(lu, p)
    PROVE  /\ lu2 \in Seq(Prompts) /\ IsInjective(lu2)
           /\ Len(lu2) \in Nat /\ lu2[Len(lu2)] = p /\ Len(lu2) > Len(es)
           /\ Len(es) = MaxEntries \/ Len(lu2) = Len(es) + 1
           /\ \A j \in 1..Len(es) : lu2[Len(lu2) - Len(es) - 1 + j] = es[j].prompt
<1>0. /\ es \in Seq(Entries) /\ lu \in Seq(Prompts) /\ IsInjective(lu)
      /\ Len(es) \in Nat /\ Len(lu) \in Nat /\ Len(es) <= Len(lu)
      /\ Len(es) = MaxEntries \/ Len(es) = Len(lu)
  BY LenProperties DEF BankOK
<1>1. \A j \in 1..Len(es) : lu[Len(lu) - Len(es) + j] = es[j].prompt
  BY DEF BankOK
<1>2. CASE (\A j \in 1..Len(lu) : lu[j] # p) /\ RemoveFirst(lu, p) = lu
  <2>1. lu2 = Append(lu, p)
    BY <1>2 DEF UsedLast
  <2>2. p \notin Range(lu)
    <3>1. Range(lu) = {lu[j] : j \in 1..Len(lu)}
      BY <1>0, RangeEquality
    <3>2. QED BY <1>2, <3>1
  <2>3. lu2 \in Seq(Prompts) /\ IsInjective(lu2)
    BY <1>0, <2>1, <2>2, AppendNew
  <2>4. /\ Len(lu2) = Len(lu) + 1 /\ lu2[Len(lu) + 1] = p
        /\ \A j \in 1..Len(lu) : lu2[j] = lu[j]
    BY <1>0, <2>1, AppendProperties
  <2>5. ASSUME NEW j \in 1..Len(es) PROVE lu2[Len(lu2) - Len(es) - 1 + j] = es[j].prompt
    <3>1. /\ Len(lu2) - Len(es) - 1 + j = Len(lu) - Len(es) + j
          /\ Len(lu) - Len(es) + j \in 1..Len(lu)
      BY <1>0, <2>4
    <3>2. lu2[Len(lu) - Len(es) + j] = lu[Len(lu) - Len(es) + j]
      BY <2>4, <3>1
    <3>3. lu[Len(lu) - Len(es) + j] = es[j].prompt
      BY <1>1
    <3>4. QED BY <3>1, <3>2, <3>3
  <2>6. Len(lu2) \in Nat /\ lu2[Len(lu2)] = p /\ Len(lu2) > Len(es)
    BY <1>0, <2>4
  <2>7. Len(es) = MaxEntries \/ Len(lu2) = Len(es) + 1
    BY <1>0, <2>4
  <2>8. QED BY <2>3, <2>5, <2>6, <2>7
<1>3. CASE \E m \in 1..Len(lu) : lu[m] = p /\ RemoveFirst(lu, p) = RemoveAt(lu, m)
  <2>1. PICK m \in 1..Len(lu) : lu[m] = p /\ RemoveFirst(lu, p) = RemoveAt(lu, m)
    BY <1>3
  <2>2. lu2 = Moved(lu, m, p)
    BY <2>1 DEF UsedLast, Moved
  <2>3. /\ lu2 \in Seq(Prompts) /\ Len(lu2) = Len(lu)
        /\ \A j \in 1..Len(lu) : lu2[j] = IF j < m THEN lu[j]
                                          ELSE IF j < Len(lu) THEN lu[j + 1] ELSE p
    <3>1. lu \in Seq(Prompts) /\ m \in 1..Len(lu) /\ p \in Prompts
      BY <1>0
    <3>2. /\ Moved(lu, m, p) \in Seq(Prompts) /\ Len(Moved(lu, m, p)) = Len(lu)
          /\ \A j \in 1..Len(lu) : Moved(lu, m, p)[j] =
                IF j < m THEN lu[j] ELSE IF j < Len(lu) THEN lu[j + 1] ELSE p
      BY <3>1, MovedToEnd
    <3>3. QED BY <2>2, <3>2
  <2>4. IsInjective(lu2)
    BY <1>0, <2>1, <2>3, MovedInjective
  <2>5. m <= Len(lu) - Len(es)
    <3>1. SUFFICES ASSUME m > Len(lu) - Len(es) PROVE FALSE
      BY <1>0
    <3>2. PICK j : j = m - (Len(lu) - Len(es))
      OBVIOUS
    <3>3. j \in 1..Len(es) /\ Len(lu) - Len(es) + j = m
      BY <1>0, <3>1, <3>2
    <3>4. es[j].prompt = p
      BY <1>1, <2>1, <3>3
    <3>5. QED BY <3>3, <3>4 DEF PromptsIn
  <2>6. ASSUME NEW j \in 1..Len(es) PROVE lu2[Len(lu2) - Len(es) - 1 + j] = es[j].prompt
    <3>1. PICK l : l = Len(lu) - Len(es) - 1 + j
      OBVIOUS
    <3>2. l \in 1..Len(lu) /\ ~(l < m) /\ l < Len(lu) /\ l + 1 = Len(lu) - Len(es) + j
      BY <1>0, <2>5, <3>1
    <3>3. lu2[l] = lu[l + 1]
      BY <2>3, <3>2
    <3>4. lu[l + 1] = es[j].prompt
      BY <1>1, <3>2
    <3>5. QED BY <2>3, <3>1, <3>3, <3>4
  <2>7. Len(lu2) \in Nat /\ Len(lu2) > Len(es) /\ Len(es) = MaxEntries
    BY <1>0, <2>1, <2>3, <2>5
  <2>8. lu2[Len(lu2)] = p
    <3>1. Len(lu) \in 1..Len(lu) /\ ~(Len(lu) < m)
      BY <1>0, <2>1
    <3>2. QED BY <1>0, <2>3, <3>1
  <2>9. QED BY <2>3, <2>4, <2>6, <2>7, <2>8
<1>4. QED BY <1>0, <1>2, <1>3, RemoveFirstProperties

\* The index with the new prompt.
Indexed(index, p, next) == [q \in DOMAIN index \cup {p} |-> IF q = p THEN next ELSE index[q]]

\* es2 is what is kept of es with x at the end, c entries are gone.
IsKept(es, x, c, gone, es2) ==
    /\ c = IF Len(es) = MaxEntries THEN 1 ELSE 0
    /\ gone = {es[l] : l \in 1..c}
    /\ Len(es2) = Len(es) + 1 - c
    /\ \A j \in 1..Len(es2) : es2[j] = IF j <= Len(es) - c THEN es[j + c] ELSE x

\* A new entry comes in at the end, and the first goes if there are as many as may be.
LEMMA StoredBank ==
    ASSUME NEW b, NEW es, NEW lu, NEW index, NEW next \in Nat, BankOK(b, es, lu, index, next),
           MaxEntries \in Nat \ {0},
           NEW p \in Prompts, p \notin PromptsIn(es),
           NEW x \in Entries, x.id = next, x.prompt = p, x.answer.bank = b, x.answer.prompt = p,
           NEW c, NEW gone, NEW es2 \in Seq(Entries), IsKept(es, x, c, gone, es2)
    PROVE  /\ BankOK(b, es2, UsedLast(lu, p), Unindexed(Indexed(index, p, next), gone), next + 1)
           /\ IdsOf(es2) = (IdsOf(es) \ {e.id : e \in gone}) \cup {next}
           /\ {e.id : e \in gone} \subseteq IdsOf(es)
<1>d. /\ c = IF Len(es) = MaxEntries THEN 1 ELSE 0
      /\ gone = {es[l] : l \in 1..c}
      /\ Len(es2) = Len(es) + 1 - c
      /\ \A j \in 1..Len(es2) : es2[j] = IF j <= Len(es) - c THEN es[j + c] ELSE x
  BY DEF IsKept
<1>e. PICK lu2 : lu2 = UsedLast(lu, p)
  OBVIOUS
<1>f. PICK index2 : index2 = Unindexed(Indexed(index, p, next), gone)
  OBVIOUS
<1>0. /\ es \in Seq(Entries) /\ Len(es) \in Nat /\ Len(es) <= MaxEntries
      /\ DOMAIN index = PromptsIn(es)
      /\ \A l \in 1..Len(es) : es[l] \in Entries /\ es[l].id \in Nat /\ es[l].id < next
  <2>1. es \in Seq(Entries) /\ Len(es) <= MaxEntries /\ DOMAIN index = PromptsIn(es)
    BY DEF BankOK
  <2>2. Len(es) \in Nat
    BY <2>1, LenProperties
  <2>3. \A l \in 1..Len(es) : es[l] \in Entries
    BY <2>1, ElementOfSeq
  <2>4. \A l \in 1..Len(es) : es[l].id < next
    BY DEF BankOK
  <2>5. \A e \in Entries : e.id \in Nat
    BY DEF Entries
  <2>6. QED BY <2>1, <2>2, <2>3, <2>4, <2>5
<1>a. PICK n \in Nat : n = Len(es)
  BY <1>0
<1>b. c \in {0, 1} /\ c <= n /\ (c = 1 <=> n = MaxEntries) /\ n <= MaxEntries /\ n + 1 - c \in Nat
  BY <1>0, <1>a, <1>d
<1>c. PICK m \in Nat : m = n + 1 - c
  BY <1>b
<1>1. /\ lu2 \in Seq(Prompts) /\ IsInjective(lu2)
      /\ Len(lu2) \in Nat /\ lu2[Len(lu2)] = p /\ Len(lu2) > n
      /\ n = MaxEntries \/ Len(lu2) = n + 1
      /\ \A j \in 1..n : lu2[Len(lu2) - n - 1 + j] = es[j].prompt
  BY <1>a, <1>e, UsedNew
<1>2. \A j \in 1..(m - 1) : j + c \in 1..n /\ es2[j] = es[j + c]
  BY <1>a, <1>b, <1>c, <1>d
<1>3. m \in 1..m /\ es2[m] = x /\ Len(es2) = m /\ \A j \in 1..m : j # m => j \in 1..(m - 1)
  BY <1>a, <1>b, <1>c, <1>d
<1>4. m <= Len(lu2) /\ m <= MaxEntries /\ (m = MaxEntries \/ m = Len(lu2))
  BY <1>1, <1>b, <1>c
<1>5. ASSUME NEW j \in 1..m PROVE lu2[Len(lu2) - m + j] = es2[j].prompt
  <2>1. CASE j = m
    <3>1. Len(lu2) - m + j = Len(lu2)
      BY <1>1, <2>1
    <3>2. QED BY <1>1, <1>3, <2>1, <3>1
  <2>2. CASE j \in 1..(m - 1)
    <3>1. Len(lu2) - m + j = Len(lu2) - n - 1 + (j + c)
      BY <1>1, <1>b, <1>c
    <3>2. lu2[Len(lu2) - n - 1 + (j + c)] = es[j + c].prompt
      BY <1>1, <1>2, <2>2
    <3>3. QED BY <1>2, <2>2, <3>1, <3>2
  <2>3. QED BY <1>3, <2>1, <2>2
<1>6. ASSUME NEW j \in 1..m PROVE es2[j].answer.bank = b /\ es2[j].answer.prompt = es2[j].prompt
  <2>1. CASE j = m
    BY <1>3, <2>1
  <2>2. CASE j \in 1..(m - 1)
    <3>1. es[j + c].answer.bank = b /\ es[j + c].answer.prompt = es[j + c].prompt
      BY <1>2, <1>a, <2>2 DEF BankOK
    <3>2. QED BY <1>2, <2>2, <3>1
  <2>3. QED BY <1>3, <2>1, <2>2
<1>7. \A l \in 1..n : es[l].prompt # p
  BY <1>a DEF PromptsIn
<1>8. PICK idx : idx = Indexed(index, p, next)
  OBVIOUS
<1>9. /\ DOMAIN idx = PromptsIn(es) \cup {p} /\ idx[p] = next
      /\ \A l \in 1..n : idx[es[l].prompt] = es[l].id
  <2>1. DOMAIN idx = PromptsIn(es) \cup {p} /\ idx[p] = next
    BY <1>0, <1>8 DEF Indexed
  <2>2. ASSUME NEW l \in 1..n PROVE idx[es[l].prompt] = es[l].id
    <3>1. es[l].prompt \in DOMAIN index /\ index[es[l].prompt] = es[l].id
      BY <1>0, <1>a DEF BankOK, PromptsIn
    <3>2. QED BY <1>7, <1>8, <3>1 DEF Indexed
  <2>3. QED BY <2>1, <2>2
<1>10. \A j \in 1..m : es2[j].prompt \in DOMAIN idx /\ idx[es2[j].prompt] = es2[j].id
  <2>1. SUFFICES ASSUME NEW j \in 1..m
                 PROVE  es2[j].prompt \in DOMAIN idx /\ idx[es2[j].prompt] = es2[j].id
    OBVIOUS
  <2>2. CASE j = m
    BY <1>3, <1>9, <2>2
  <2>3. CASE j \in 1..(m - 1)
    <3>1. es[j + c].prompt \in PromptsIn(es)
      BY <1>2, <1>a, <2>3 DEF PromptsIn
    <3>2. QED BY <1>2, <1>9, <2>3, <3>1
  <2>4. QED BY <1>3, <2>2, <2>3
<1>11. /\ DOMAIN index2 = {q \in DOMAIN idx : \A e \in gone : ~(e.prompt = q /\ e.id = idx[q])}
       /\ \A q \in DOMAIN index2 : index2[q] = idx[q]
  BY <1>8, <1>f DEF Unindexed
<1>12. ASSUME NEW j \in 1..m, NEW e \in gone PROVE e.prompt # es2[j].prompt /\ e.id # es2[j].id
  <2>1. PICK l \in 1..c : e = es[l]
    BY <1>d
  <2>2. l \in 1..n /\ l = 1 /\ c = 1
    BY <1>b
  <2>3. CASE j = m
    <3>1. es[l].prompt # p /\ es[l].id < next /\ es[l].id \in Nat
      BY <1>0, <1>7, <1>a, <2>2
    <3>2. QED BY <1>3, <2>1, <2>3, <3>1
  <2>4. CASE j \in 1..(m - 1)
    <3>1. l # j + c /\ j + c \in 1..n
      <4>1. j + c \in 1..n /\ j \in Nat /\ j >= 1
        BY <1>2, <2>4
      <4>2. j + 1 # 1
        BY <4>1
      <4>3. QED BY <2>2, <4>1, <4>2
    <3>2. es[l].prompt # es[j + c].prompt
      BY <1>a, <2>2, <3>1, PromptsDistinct
    <3>3. es[l].id # es[j + c].id
      BY <1>a, <2>2, <3>1 DEF BankOK
    <3>4. QED BY <1>2, <2>1, <2>4, <3>2, <3>3
  <2>5. QED BY <1>3, <2>3, <2>4
<1>13. \A j \in 1..m : es2[j].prompt \in DOMAIN index2 /\ index2[es2[j].prompt] = es2[j].id
  BY <1>10, <1>11, <1>12
<1>14. \A l \in 1..n : es[l] \in gone \/ \E j \in 1..m : es2[j] = es[l]
  <2>1. SUFFICES ASSUME NEW l \in 1..n PROVE es[l] \in gone \/ \E j \in 1..m : es2[j] = es[l]
    OBVIOUS
  <2>2. CASE l <= c
    <3>1. l \in 1..c
      BY <1>b, <2>2
    <3>2. QED BY <1>d, <3>1
  <2>3. CASE l > c
    <3>1. PICK j : j = l - c
      OBVIOUS
    <3>2. j \in 1..(m - 1) /\ j + c = l /\ j \in 1..m
      BY <1>b, <1>c, <2>3, <3>1
    <3>3. QED BY <1>2, <3>2
  <2>4. QED BY <1>b, <2>2, <2>3
<1>15. PromptsIn(es2) \subseteq DOMAIN index2
  BY <1>3, <1>13 DEF PromptsIn
<1>16. DOMAIN index2 \subseteq PromptsIn(es2)
  <2>1. SUFFICES ASSUME NEW q \in DOMAIN index2 PROVE \E j \in 1..m : q = es2[j].prompt
    BY <1>3 DEF PromptsIn
  <2>2. CASE q = p
    BY <1>3, <2>2
  <2>3. CASE q \in PromptsIn(es)
    <3>1. PICK l \in 1..n : q = es[l].prompt
      BY <1>a, <2>3 DEF PromptsIn
    <3>2. es[l] \notin gone
      BY <1>9, <1>11, <3>1
    <3>3. QED BY <1>14, <3>1, <3>2
  <2>4. QED BY <1>9, <1>11, <2>2, <2>3
<1>17. ASSUME NEW j \in 1..m PROVE es2[j].id \in Nat /\ es2[j].id < next + 1
  <2>1. CASE j = m
    BY <1>3, <2>1
  <2>2. CASE j \in 1..(m - 1)
    <3>1. es[j + c].id \in Nat /\ es[j + c].id < next
      BY <1>0, <1>2, <1>a, <2>2
    <3>2. QED BY <1>2, <2>2, <3>1
  <2>3. QED BY <1>3, <2>1, <2>2
<1>18. ASSUME NEW j \in 1..m, NEW l \in 1..m, es2[j].id = es2[l].id PROVE j = l
  <2>1. \A k \in 1..(m - 1) : es2[k].id \in Nat /\ es2[k].id < next
    BY <1>0, <1>2, <1>a
  <2>2. CASE j = m
    BY <1>3, <1>18, <2>1, <2>2
  <2>3. CASE l = m
    BY <1>3, <1>18, <2>1, <2>3
  <2>4. CASE j \in 1..(m - 1) /\ l \in 1..(m - 1)
    <3>1. j + c \in 1..Len(es) /\ l + c \in 1..Len(es) /\ es[j + c].id = es[l + c].id
      BY <1>2, <1>18, <1>a, <2>4
    <3>2. j + c = l + c
      BY <3>1 DEF BankOK
    <3>3. QED BY <1>b, <3>2
  <2>5. QED BY <1>3, <2>2, <2>3, <2>4
<1>19. BankOK(b, es2, lu2, index2, next + 1)
  <2>1. DOMAIN index2 = PromptsIn(es2)
    BY <1>15, <1>16
  <2>2. QED BY <1>1, <1>3, <1>4, <1>5, <1>6, <1>13, <1>17, <1>18, <2>1 DEF BankOK
<1>20. IdsOf(es) = {es[l].id : l \in 1..n} /\ IdsOf(es2) = {es2[j].id : j \in 1..m}
  BY <1>0, <1>3, <1>a, IdsByPlace
<1>21. \A e \in gone : e.id \in IdsOf(es)
  <2>1. SUFFICES ASSUME NEW e \in gone PROVE e.id \in IdsOf(es)
    OBVIOUS
  <2>2. PICK l \in 1..c : e = es[l]
    BY <1>d
  <2>3. l \in 1..n
    BY <1>b
  <2>4. QED BY <1>20, <2>2, <2>3
<1>22. IdsOf(es2) \subseteq (IdsOf(es) \ {e.id : e \in gone}) \cup {next}
  <2>1. SUFFICES ASSUME NEW j \in 1..m
                 PROVE  es2[j].id \in (IdsOf(es) \ {e.id : e \in gone}) \cup {next}
    BY <1>20
  <2>2. CASE j = m
    BY <1>3, <2>2
  <2>3. CASE j \in 1..(m - 1)
    <3>1. es2[j].id \in IdsOf(es)
      BY <1>2, <1>20, <2>3
    <3>2. QED BY <1>12, <3>1
  <2>4. QED BY <1>3, <2>2, <2>3
<1>23. (IdsOf(es) \ {e.id : e \in gone}) \cup {next} \subseteq IdsOf(es2)
  <2>1. next \in IdsOf(es2)
    BY <1>3, <1>20
  <2>2. ASSUME NEW d \in IdsOf(es), d \notin {e.id : e \in gone} PROVE d \in IdsOf(es2)
    <3>1. PICK l \in 1..n : d = es[l].id
      BY <1>20
    <3>2. es[l] \notin gone
      BY <2>2, <3>1
    <3>3. QED BY <1>14, <1>20, <3>1, <3>2
  <2>3. QED BY <2>1, <2>2
<1>24. QED BY <1>19, <1>21, <1>22, <1>23, <1>e, <1>f

\* So the use of an entry, as the actions make the lists, keeps the namespace good.
LEMMA RenewedUse ==
    ASSUME NEW b, NEW es, NEW lu, NEW index, NEW next, BankOK(b, es, lu, index, next),
           NEW i \in 1..Len(es), NEW x \in Entries,
           x.id = es[i].id, x.prompt = es[i].prompt,
           x.answer.bank = b, x.answer.prompt = x.prompt
    PROVE  /\ BankOK(b, Moved(es, i, x), UsedLast(lu, x.prompt), index, next)
           /\ IdsOf(Moved(es, i, x)) = IdsOf(es)
<1>1. /\ es \in Seq(Entries) /\ lu \in Seq(Prompts) /\ IsInjective(lu)
      /\ Len(es) \in Nat /\ Len(lu) \in Nat /\ Len(es) <= Len(lu)
  BY LenProperties DEF BankOK
<1>a. PICK p \in Prompts : p = x.prompt
  BY DEF Entries
<1>2. PICK m : m = Len(lu) - Len(es) + i
  OBVIOUS
<1>3. m \in 1..Len(lu) /\ lu[m] = p
  <2>1. lu[m] = p
    BY <1>2, <1>a DEF BankOK
  <2>2. QED BY <1>1, <1>2, <2>1
<1>4. UsedLast(lu, p) = Moved(lu, m, p)
  <2>1. RemoveFirst(lu, lu[m]) = RemoveAt(lu, m)
    BY <1>1, <1>3, RemovesAt
  <2>2. RemoveFirst(lu, p) = RemoveAt(lu, m)
    BY <1>3, <2>1
  <2>3. QED BY <2>2 DEF UsedLast, Moved
<1>5. PICK es2 : es2 = Moved(es, i, x)
  OBVIOUS
<1>6. PICK lu2 : lu2 = Moved(lu, m, p)
  OBVIOUS
<1>7. /\ es2 \in Seq(Entries) /\ Len(es2) = Len(es)
      /\ \A j \in 1..Len(es) : es2[j] =
            IF j < i THEN es[j] ELSE IF j < Len(es) THEN es[j + 1] ELSE x
  <2>1. es \in Seq(Entries) /\ i \in 1..Len(es) /\ x \in Entries
    BY <1>1
  <2>2. /\ Moved(es, i, x) \in Seq(Entries) /\ Len(Moved(es, i, x)) = Len(es)
        /\ \A j \in 1..Len(es) : Moved(es, i, x)[j] =
              IF j < i THEN es[j] ELSE IF j < Len(es) THEN es[j + 1] ELSE x
    BY <2>1, MovedToEnd
  <2>3. QED BY <1>5, <2>2
<1>8. /\ lu2 \in Seq(Prompts) /\ Len(lu2) = Len(lu)
      /\ \A j \in 1..Len(lu) : lu2[j] =
            IF j < m THEN lu[j] ELSE IF j < Len(lu) THEN lu[j + 1] ELSE x.prompt
  <2>1. lu \in Seq(Prompts) /\ m \in 1..Len(lu) /\ p \in Prompts
    BY <1>1, <1>3
  <2>2. /\ Moved(lu, m, p) \in Seq(Prompts) /\ Len(Moved(lu, m, p)) = Len(lu)
        /\ \A j \in 1..Len(lu) : Moved(lu, m, p)[j] =
              IF j < m THEN lu[j] ELSE IF j < Len(lu) THEN lu[j + 1] ELSE p
    BY <2>1, MovedToEnd
  <2>3. QED BY <1>6, <1>a, <2>2
<1>9. BankOK(b, es2, lu2, index, next) /\ IdsOf(es2) = IdsOf(es)
  <2>1. BankOK(b, es, lu, index, next) /\ i \in 1..Len(es) /\ x \in Entries
    OBVIOUS
  <2>2. x.id = es[i].id /\ x.prompt = es[i].prompt /\ x.answer.bank = b /\ x.answer.prompt = x.prompt
    OBVIOUS
  <2>3. m \in 1..Len(lu) /\ lu[m] = x.prompt
    BY <1>3, <1>a
  <2>4. IsMoved(es, i, x, es2) /\ IsMoved(lu, m, x.prompt, lu2)
    BY <1>7, <1>8 DEF IsMoved
  <2>5. es2 \in Seq(Entries) /\ lu2 \in Seq(Prompts)
    BY <1>7, <1>8
  <2>6. QED BY <2>1, <2>2, <2>3, <2>4, <2>5, RenewedBank
<1>10. QED BY <1>4, <1>5, <1>6, <1>9, <1>a

\* A namespace is as good when more ids have been given.
LEMMA BankLater ==
    ASSUME NEW b, NEW es, NEW lu, NEW index, NEW next \in Nat, NEW more \in Nat, next <= more,
           BankOK(b, es, lu, index, next)
    PROVE  BankOK(b, es, lu, index, more)
<1>1. \A i \in 1..Len(es) : es[i].id \in Nat /\ es[i].id < next
  <2>1. es \in Seq(Entries) /\ \A i \in 1..Len(es) : es[i].id < next
    BY DEF BankOK
  <2>2. \A i \in 1..Len(es) : es[i] \in Entries
    BY <2>1, ElementOfSeq
  <2>3. QED BY <2>1, <2>2 DEF Entries
<1>2. \A i \in 1..Len(es) : es[i].id < more
  BY <1>1
<1>3. QED BY <1>2 DEF BankOK

\* A step that changes one namespace, and gives ids.
LEMMA OneBankChanges ==
    ASSUME BanksOK, NEW b \in Banks, NEW es2, NEW lu2, NEW index2, NEW next2 \in Nat,
           nextId <= next2, BankOK(b, es2, lu2, index2, next2),
           entries' = [entries EXCEPT ![b] = es2], lastUse' = [lastUse EXCEPT ![b] = lu2],
           DOMAIN exact' = Banks, exact'[b] = index2,
           \A c \in Banks \ {b} : exact'[c] = exact[c], nextId' = next2
    PROVE  BanksOK' /\ Held' = (Held \ ({b} \X IdsOf(entries[b]))) \cup ({b} \X IdsOf(es2))
<1>1. es2 \in Seq(Entries) /\ lu2 \in Seq(Prompts)
  BY DEF BankOK
<1>2. /\ entries' \in [Banks -> Seq(Entries)] /\ lastUse' \in [Banks -> Seq(Prompts)]
      /\ entries'[b] = es2 /\ lastUse'[b] = lu2
      /\ \A c \in Banks \ {b} : entries'[c] = entries[c] /\ lastUse'[c] = lastUse[c]
  BY <1>1 DEF BanksOK
<1>3. \A c \in Banks : BankOK(c, entries'[c], lastUse'[c], exact'[c], nextId')
  <2>1. SUFFICES ASSUME NEW c \in Banks
                 PROVE  BankOK(c, entries'[c], lastUse'[c], exact'[c], nextId')
    OBVIOUS
  <2>2. CASE c = b
    BY <1>2, <2>2
  <2>3. CASE c # b
    <3>1. BankOK(c, entries[c], lastUse[c], exact[c], nextId) /\ nextId \in Nat
      BY DEF BanksOK
    <3>2. BankOK(c, entries[c], lastUse[c], exact[c], next2)
      BY <3>1, BankLater
    <3>3. QED BY <1>2, <2>3, <3>2
  <2>4. QED BY <2>2, <2>3
<1>4. BanksOK'
  BY <1>2, <1>3 DEF BanksOK
<1>5. \A c, d : <<c, d>> \in Held' <=> c \in Banks /\ d \in IdsOf(entries'[c])
  BY DEF Held
<1>6. \A c, d : <<c, d>> \in Held <=> c \in Banks /\ d \in IdsOf(entries[c])
  BY DEF Held
<1>7. Held' = (Held \ ({b} \X IdsOf(entries[b]))) \cup ({b} \X IdsOf(es2))
  <2>1. \A h \in Held' : h = <<h[1], h[2]>>
    BY DEF Held
  <2>2. \A h \in Held : h = <<h[1], h[2]>>
    BY DEF Held
  <2>3. ASSUME NEW h \in Held'
        PROVE  h \in (Held \ ({b} \X IdsOf(entries[b]))) \cup ({b} \X IdsOf(es2))
    <3>1. PICK c, d : h = <<c, d>>
      BY <2>1
    <3>2. c \in Banks /\ d \in IdsOf(entries'[c])
      BY <1>5, <3>1
    <3>3. CASE c = b
      BY <1>2, <3>1, <3>2, <3>3
    <3>4. CASE c # b
      <4>1. h \in Held /\ h \notin {b} \X IdsOf(entries[b])
        BY <1>2, <1>6, <3>1, <3>2, <3>4
      <4>2. QED BY <4>1
    <3>5. QED BY <3>3, <3>4
  <2>4. ASSUME NEW h \in (Held \ ({b} \X IdsOf(entries[b]))) \cup ({b} \X IdsOf(es2))
        PROVE  h \in Held'
    <3>1. CASE h \in {b} \X IdsOf(es2)
      <4>1. PICK d \in IdsOf(es2) : h = <<b, d>>
        BY <3>1
      <4>2. QED BY <1>2, <1>5, <4>1
    <3>2. CASE h \in Held /\ h \notin {b} \X IdsOf(entries[b])
      <4>1. PICK c, d : h = <<c, d>>
        BY <2>2, <3>2
      <4>2. c \in Banks /\ d \in IdsOf(entries[c]) /\ c # b
        BY <1>6, <3>2, <4>1
      <4>3. QED BY <1>2, <1>5, <4>1, <4>2
    <3>3. QED BY <3>1, <3>2
  <2>5. QED BY <2>3, <2>4
<1>8. QED BY <1>4, <1>7

\* The beginning.
LEMMA CacheInitInv == ASSUME CacheAssumption PROVE CacheInit => CacheInv
<1> SUFFICES ASSUME CacheInit PROVE CacheInv
  OBVIOUS
<1>1. Range(<<>>) = {} /\ Len(<<>>) = 0 /\ 1..0 = {} /\ <<>> \in Seq(Entries) /\ <<>> \in Seq(Prompts)
  <2>1. Range(<<>>) = {}
    BY EmptyRange
  <2>2. Len(<<>>) = 0 /\ 1..0 = {} /\ <<>> \in Seq(Entries) /\ <<>> \in Seq(Prompts)
    OBVIOUS
  <2>3. QED BY <2>1, <2>2
<1>2. ASSUME NEW b \in Banks PROVE BankOK(b, <<>>, <<>>, NoIndex, 0)
  <2>1. DOMAIN NoIndex = PromptsIn(<<>>)
    <3>1. PromptsIn(<<>>) = {}
      BY <1>1 DEF PromptsIn
    <3>2. QED BY <3>1 DEF NoIndex
  <2>2. IsInjective(<<>>)
    <3>1. DOMAIN <<>> = {}
      OBVIOUS
    <3>2. QED BY <3>1 DEF IsInjective
  <2>3. MaxEntries \in Nat
    BY SMT DEF CacheAssumption
  <2>4. \A i \in 1..Len(<<>>) : FALSE
    BY <1>1
  <2>5. QED BY <1>1, <2>1, <2>2, <2>3, <2>4 DEF BankOK
<1>3. Held = {}
  <2>1. IdsOf(<<>>) = {}
    BY <1>1 DEF IdsOf
  <2>2. \A b \in Banks : entries[b] = <<>>
    BY DEF CacheInit
  <2>3. \A b \in Banks : {b} \X IdsOf(entries[b]) = {}
    BY <2>1, <2>2
  <2>4. QED BY <2>3 DEF Held
<1>4. stats["evictions"] = 0 /\ stats \in [Counters -> Nat]
  BY DEF CacheInit, Counters
<1>5. client \in [Clients -> ClientRecords] /\ \A k \in Clients : ClientOK(client[k])
  BY DEF CacheInit, Idle, ClientRecords, ClientOK
<1>6. Cardinality(Held) = nextId - stats["evictions"] /\ IsFiniteSet(Held)
  <2>1. IsFiniteSet({}) /\ Cardinality({}) = 0
    BY FS_EmptySet
  <2>2. nextId = 0
    BY DEF CacheInit
  <2>3. QED BY <1>3, <1>4, <2>1, <2>2
<1>7. /\ entries \in [Banks -> Seq(Entries)] /\ lastUse \in [Banks -> Seq(Prompts)]
      /\ DOMAIN exact = Banks /\ nextId = 0
      /\ \A b \in Banks : entries[b] = <<>> /\ lastUse[b] = <<>> /\ exact[b] = NoIndex
  BY <1>1 DEF CacheInit
<1>8. \A b \in Banks : BankOK(b, entries[b], lastUse[b], exact[b], nextId)
  BY <1>2, <1>7
<1>9. QED BY <1>4, <1>5, <1>6, <1>7, <1>8 DEF CacheInv, BanksOK, ClientsOK

\* An entry of a namespace, by its place.
LEMMA EntryAt ==
    ASSUME BanksOK, NEW b \in Banks, NEW e \in Range(entries[b])
    PROVE  /\ e \in Entries
           /\ \E i \in 1..Len(entries[b]) : entries[b][i] = e
<1>1. entries[b] \in Seq(Entries)
  BY DEF BanksOK
<1>2. Range(entries[b]) = {entries[b][i] : i \in 1..Len(entries[b])}
  BY <1>1, RangeEquality
<1>3. PICK i \in 1..Len(entries[b]) : entries[b][i] = e
  BY <1>2
<1>4. e \in Entries
  BY <1>1, <1>3, ElementOfSeq
<1>5. QED BY <1>3, <1>4

\* A client that changes its state.
LEMMA ClientChanges ==
    ASSUME ClientsOK, NEW k \in Clients, NEW c \in ClientRecords, ClientOK(c),
           client' = [client EXCEPT ![k] = c]
    PROVE  ClientsOK'
<1>1. client' \in [Clients -> ClientRecords]
  BY DEF ClientsOK
<1>2. \A j \in Clients : client'[j] = IF j = k THEN c ELSE client[j]
  BY DEF ClientsOK
<1>3. \A j \in Clients : ClientOK(client'[j])
  BY <1>2 DEF ClientsOK
<1>4. QED BY <1>1, <1>3 DEF ClientsOK

\* A hit leaves the namespaces and the clients as they should be.
LEMMA HitKeeps ==
    ASSUME CacheInv, NEW k \in Clients, NEW b \in Banks, NEW p \in Prompts,
           NEW e \in Range(entries[b]), e.prompt = p \/ Near[p][e.prompt] >= Threshold,
           RecordHit(k, b, p, e)
    PROVE  CacheInv'
<1>1. BanksOK /\ ClientsOK /\ stats \in [Counters -> Nat]
  BY DEF CacheInv
<1>2. PICK i \in 1..Len(entries[b]) : entries[b][i] = e
  BY <1>1, EntryAt
<1>3. BankOK(b, entries[b], lastUse[b], exact[b], nextId) /\ entries[b] \in Seq(Entries) /\ nextId \in Nat
  BY <1>1 DEF BanksOK
<1>4. e \in Entries /\ e.answer.bank = b /\ e.answer.prompt = e.prompt
  <2>1. entries[b][i].answer.bank = b /\ entries[b][i].answer.prompt = entries[b][i].prompt
    BY <1>3 DEF BankOK
  <2>2. QED BY <1>1, <1>2, <2>1, EntryAt
<1>5. Touched(entries[b], e) = Moved(entries[b], i, e)
  <2>1. IsInjective(entries[b])
    <3>1. DOMAIN entries[b] = 1..Len(entries[b])
      BY <1>3, LenProperties
    <3>2. \A l, m \in 1..Len(entries[b]) : entries[b][l].id = entries[b][m].id => l = m
      BY <1>3 DEF BankOK
    <3>3. QED BY <3>1, <3>2 DEF IsInjective
  <2>2. RemoveFirst(entries[b], entries[b][i]) = RemoveAt(entries[b], i)
    BY <1>3, <2>1, RemovesAt
  <2>3. QED BY <1>2, <2>2 DEF Touched, Moved
<1>6. /\ BankOK(b, Moved(entries[b], i, e), UsedLast(lastUse[b], e.prompt), exact[b], nextId)
      /\ IdsOf(Moved(entries[b], i, e)) = IdsOf(entries[b])
  BY <1>2, <1>3, <1>4, RenewedUse
<1>7. PICK es2 : es2 = Moved(entries[b], i, e)
  OBVIOUS
<1>8. PICK lu2 : lu2 = UsedLast(lastUse[b], e.prompt)
  OBVIOUS
<1>9. /\ entries' = [entries EXCEPT ![b] = es2]
      /\ lastUse' = [lastUse EXCEPT ![b] = lu2]
      /\ exact' = exact /\ nextId' = nextId
      /\ DOMAIN exact' = Banks /\ exact'[b] = exact[b]
  <2>1. entries' = [entries EXCEPT ![b] = Touched(entries[b], e)] /\ exact' = exact /\ nextId' = nextId
    BY DEF RecordHit
  <2>2. lastUse' = [lastUse EXCEPT ![b] = UsedLast(lastUse[b], e.prompt)]
    BY DEF RecordHit, Used, UsedLast
  <2>3. QED BY <1>1, <1>5, <1>7, <1>8, <2>1, <2>2 DEF BanksOK
<1>10. /\ BanksOK'
       /\ Held' = (Held \ ({b} \X IdsOf(entries[b]))) \cup ({b} \X IdsOf(es2))
  <2>1. BankOK(b, es2, lu2, exact[b], nextId) /\ nextId <= nextId
    BY <1>3, <1>6, <1>7, <1>8
  <2>2. \A c \in Banks \ {b} : exact'[c] = exact[c]
    BY <1>9
  <2>3. QED BY <1>1, <1>3, <1>9, <2>1, <2>2, OneBankChanges
<1>11. Held' = Held
  <2>1. {b} \X IdsOf(entries[b]) \subseteq Held
    BY DEF Held
  <2>2. QED BY <1>6, <1>7, <1>10, <2>1
<1>12. ClientsOK'
  <2>1. PICK c : c = [at |-> "hit", bank |-> b, prompt |-> p, answer |-> e.answer]
    OBVIOUS
  <2>2. client' = [client EXCEPT ![k] = c]
    BY <2>1 DEF RecordHit, Asks
  <2>3. c \in ClientRecords
    BY <1>4, <2>1 DEF ClientRecords, Entries
  <2>4. ClientOK(c)
    BY <1>4, <2>1 DEF ClientOK, OwnAnswer
  <2>5. QED BY <1>1, <2>2, <2>3, <2>4, ClientChanges
<1>13. stats' \in [Counters -> Nat] /\ stats'["evictions"] = stats["evictions"]
  BY <1>1 DEF RecordHit, Counts, Counters
<1>14. IsFiniteSet(Held') /\ Cardinality(Held') = nextId' - stats'["evictions"]
  BY <1>9, <1>11, <1>13 DEF CacheInv
<1>15. QED BY <1>10, <1>12, <1>13, <1>14 DEF CacheInv

\* A lookup by the exact prompt finds that prompt's entry.
LEMMA LookupExactKeeps ==
    ASSUME CacheInv, NEW k \in Clients, NEW b \in Banks, NEW p \in Prompts, LookupExact(k, b, p)
    PROVE  CacheInv'
<1>1. PICK e \in Range(entries[b]) : e.id = exact[b][p] /\ RecordHit(k, b, p, e)
  BY DEF LookupExact
<1>2. BanksOK
  BY DEF CacheInv
<1>3. BankOK(b, entries[b], lastUse[b], exact[b], nextId)
  BY <1>2 DEF BanksOK
<1>4. PICK i \in 1..Len(entries[b]) : entries[b][i] = e
  BY <1>2, EntryAt
<1>5. PICK j \in 1..Len(entries[b]) : p = entries[b][j].prompt
  BY <1>3 DEF LookupExact, BankOK, PromptsIn
<1>6. exact[b][p] = entries[b][j].id
  BY <1>3, <1>5 DEF BankOK
<1>7. i = j
  <2>1. entries[b][i].id = entries[b][j].id
    BY <1>1, <1>4, <1>6
  <2>2. QED BY <1>3, <2>1 DEF BankOK
<1>8. e.prompt = p
  BY <1>4, <1>5, <1>7
<1>9. QED BY <1>1, <1>8, HitKeeps

\* The best score is at least the threshold only when an entry has it, and the nearest
\* entry does.
LEMMA NearestIsNear ==
    ASSUME CacheAssumption, BanksOK, NEW b \in Banks, NEW p \in Prompts, BestScore(b, p) >= Threshold
    PROVE  /\ Nearest(b, p) \in Range(entries[b])
           /\ Near[p][Nearest(b, p).prompt] >= Threshold
<1> DEFINE es == entries[b]
           scores == {Near[p][e.prompt] : e \in Range(es)}
           best == {i \in DOMAIN es : Near[p][es[i].prompt] = BestScore(b, p)}
<1>1. /\ es \in Seq(Entries) /\ Len(es) \in Nat /\ DOMAIN es = 1..Len(es)
      /\ Range(es) = {es[i] : i \in 1..Len(es)}
  BY LenProperties, RangeEquality DEF BanksOK
<1>2. \A i \in 1..Len(es) : es[i].prompt \in Prompts
  <2>1. \A i \in 1..Len(es) : es[i] \in Entries
    BY <1>1, ElementOfSeq
  <2>2. QED BY <2>1 DEF Entries
<1>3. \A q \in Prompts : Near[p][q] \in Nat
  BY DEF CacheAssumption
<1>4. Threshold \in Nat \ {0}
  BY DEF CacheAssumption
<1>5. scores \subseteq Nat /\ \A n \in scores : \E i \in 1..Len(es) : n = Near[p][es[i].prompt]
  BY <1>1, <1>2, <1>3
<1>6. IsFiniteSet(scores)
  <2>1. PICK f : f = [i \in 1..Len(es) |-> Near[p][es[i].prompt]]
    OBVIOUS
  <2>2. \A n \in scores : \E i \in 1..Len(es) : f[i] = n
    BY <1>5, <2>1
  <2>3. \A i \in 1..Len(es) : f[i] \in scores
    BY <1>1, <2>1
  <2> HIDE DEF scores
  <2>4. f \in Surjection(1..Len(es), scores)
    BY <2>1, <2>2, <2>3 DEF Surjection
  <2>5. IsFiniteSet(1..Len(es))
    <3>1. 1 \in Int /\ Len(es) \in Int
      BY <1>1
    <3>2. QED BY <3>1, FS_Interval
  <2>6. QED BY <2>4, <2>5, FS_Surjection
<1> HIDE DEF scores
<1>7. Max({0} \cup scores) \in {0} \cup scores
  <2>1. IsFiniteSet({0} \cup scores)
    BY <1>6, FS_Singleton, FS_Union
  <2>2. {0} \cup scores \subseteq Nat /\ {0} \cup scores # {}
    BY <1>5
  <2>3. QED BY <2>1, <2>2, MaxIsGreatest
<1>8. BestScore(b, p) \in scores
  <2>1. BestScore(b, p) = Max({0} \cup scores)
    BY DEF BestScore, scores
  <2>2. BestScore(b, p) \in {0} \cup scores
    BY <1>7, <2>1
  <2>3. ~(0 >= Threshold)
    BY <1>4
  <2>4. BestScore(b, p) # 0
    BY <2>3
  <2>5. QED BY <2>2, <2>4
<1>9. best \subseteq Nat /\ best # {}
  <2>1. PICK i \in 1..Len(es) : BestScore(b, p) = Near[p][es[i].prompt]
    BY <1>5, <1>8
  <2>2. i \in best
    BY <1>1, <2>1
  <2>3. best \subseteq 1..Len(es)
    BY <1>1
  <2>4. QED BY <2>2, <2>3
<1>10. Min(best) \in best
  <2> HIDE DEF best
  <2>1. QED BY <1>9, MinIsLeast
<1>11. Nearest(b, p) = es[Min(best)]
  BY DEF Nearest
<1>12. PICK i : i = Min(best)
  OBVIOUS
<1>13. i \in 1..Len(es) /\ Near[p][es[i].prompt] = BestScore(b, p) /\ Nearest(b, p) = es[i]
  BY <1>1, <1>10, <1>11, <1>12
<1>14. QED BY <1>1, <1>13

\* A lookup that finds one near enough.
LEMMA LookupNearKeeps ==
    ASSUME CacheAssumption, CacheInv, NEW k \in Clients, NEW b \in Banks, NEW p \in Prompts,
           LookupNear(k, b, p)
    PROVE  CacheInv'
<1>1. RecordHit(k, b, p, Nearest(b, p)) /\ BestScore(b, p) >= Threshold /\ BanksOK
  BY DEF LookupNear, CacheInv
<1>2. PICK e : e = Nearest(b, p)
  OBVIOUS
<1>3. e \in Range(entries[b]) /\ Near[p][e.prompt] >= Threshold
  BY <1>1, <1>2, NearestIsNear
<1>4. QED BY <1>1, <1>2, <1>3, HitKeeps

\* A miss, and a model that fails, only move the client.
LEMMA MissKeeps ==
    ASSUME CacheInv, NEW k \in Clients,
           \/ \E b \in Banks, p \in Prompts : LookupMiss(k, b, p)
           \/ ModelRaises(k)
    PROVE  CacheInv'
<1>1. BanksOK /\ ClientsOK /\ stats \in [Counters -> Nat]
  BY DEF CacheInv
<1>2. UNCHANGED <<entries, exact, nextId, lastUse>>
  BY DEF LookupMiss, ModelRaises
<1>3. BanksOK' /\ Held' = Held
  BY <1>1, <1>2 DEF BanksOK, Held
<1>4. ClientsOK'
  <2>1. CASE \E b \in Banks, p \in Prompts : LookupMiss(k, b, p)
    <3>1. PICK b \in Banks, p \in Prompts : LookupMiss(k, b, p)
      BY <2>1
    <3>2. PICK c : c = [at |-> "model", bank |-> b, prompt |-> p, answer |-> NoAnswer]
      OBVIOUS
    <3>3. client' = [client EXCEPT ![k] = c]
      BY <3>1, <3>2 DEF LookupMiss, Asks
    <3>4. c \in ClientRecords /\ ClientOK(c)
      BY <3>2 DEF ClientRecords, ClientOK
    <3>5. QED BY <1>1, <3>3, <3>4, ClientChanges
  <2>2. CASE ModelRaises(k)
    <3>1. PICK c : c = [client[k] EXCEPT !.at = "raised"]
      OBVIOUS
    <3>2. client' = [client EXCEPT ![k] = c] /\ client[k].at = "model"
      BY <2>2, <3>1 DEF ModelRaises
    <3>3. client[k] \in ClientRecords /\ ClientOK(client[k])
      BY <1>1 DEF ClientsOK
    <3>4. c \in ClientRecords
      BY <3>1, <3>3 DEF ClientRecords
    <3>5. ClientOK(c)
      BY <3>1, <3>2, <3>3 DEF ClientOK, ClientRecords
    <3>6. QED BY <1>1, <3>2, <3>4, <3>5, ClientChanges
  <2>3. QED BY <2>1, <2>2
<1>5. stats' \in [Counters -> Nat] /\ stats'["evictions"] = stats["evictions"]
  BY <1>1 DEF LookupMiss, ModelRaises, Counts, Counters
<1>6. QED BY <1>2, <1>3, <1>4, <1>5 DEF CacheInv

\* What a client stores is its own.
LEMMA StoringClient ==
    ASSUME ClientsOK, NEW k \in Clients, Stores(k)
    PROVE  /\ ClientsOK'
           /\ client[k].bank \in Banks /\ client[k].prompt \in Prompts
           /\ Made(k) \in Answers
           /\ Made(k).bank = client[k].bank /\ Made(k).prompt = client[k].prompt
           /\ lastUse' = [lastUse EXCEPT ![client[k].bank] =
                             UsedLast(lastUse[client[k].bank], client[k].prompt)]
<1>1. client[k] \in ClientRecords /\ client[k].bank \in Banks /\ client[k].prompt \in Prompts
  BY DEF ClientsOK, ClientOK, Stores
<1>2. Made(k) \in Answers /\ Made(k).bank = client[k].bank /\ Made(k).prompt = client[k].prompt
  BY <1>1 DEF Made, Answers
<1>3. PICK m : m = Made(k)
  OBVIOUS
<1>4. PICK c : c = [client[k] EXCEPT !.at = "stored", !.answer = m]
  OBVIOUS
<1>5. client' = [client EXCEPT ![k] = c]
  BY <1>3, <1>4 DEF Stores
<1>6. c \in ClientRecords
  BY <1>1, <1>2, <1>3, <1>4 DEF ClientRecords
<1>7. ClientOK(c)
  BY <1>1, <1>2, <1>3, <1>4 DEF ClientOK, ClientRecords, OwnAnswer
<1>8. ClientsOK'
  BY <1>5, <1>6, <1>7, ClientChanges
<1>9. lastUse' = [lastUse EXCEPT ![client[k].bank] =
                     UsedLast(lastUse[client[k].bank], client[k].prompt)]
  BY DEF Stores, Used, UsedLast
<1>10. QED BY <1>1, <1>2, <1>8, <1>9

\* A store that finds the prompt there gives its entry the newer answer.
LEMMA StoreRefreshKeeps ==
    ASSUME CacheInv, NEW k \in Clients, StoreRefresh(k)
    PROVE  CacheInv'
<1>1. BanksOK /\ ClientsOK /\ stats \in [Counters -> Nat] /\ Stores(k)
  BY DEF CacheInv, StoreRefresh
<1>2. PICK b \in Banks : b = client[k].bank
  BY <1>1, StoringClient
<1>3. PICK p \in Prompts : p = client[k].prompt
  BY <1>1, StoringClient
<1>4. PICK m \in Answers : m = Made(k) /\ m.bank = b /\ m.prompt = p
  BY <1>1, <1>2, <1>3, StoringClient
<1>5. /\ BankOK(b, entries[b], lastUse[b], exact[b], nextId)
      /\ entries[b] \in Seq(Entries) /\ nextId \in Nat
  BY <1>1 DEF BanksOK
<1>6. /\ p \in DOMAIN exact[b] /\ UNCHANGED <<exact, nextId>> /\ Counts("stores")
      /\ \E i \in DOMAIN entries[b] :
            /\ entries[b][i].id = exact[b][p]
            /\ entries' = [entries EXCEPT ![b] =
                              Append(RemoveAt(@, i), [entries[b][i] EXCEPT !.answer = m])]
  BY <1>2, <1>3, <1>4 DEF StoreRefresh
<1>7. PICK i \in DOMAIN entries[b] :
         /\ entries[b][i].id = exact[b][p]
         /\ entries' = [entries EXCEPT ![b] =
                           Append(RemoveAt(@, i), [entries[b][i] EXCEPT !.answer = m])]
  BY <1>6
<1>8. i \in 1..Len(entries[b])
  BY <1>5, LenProperties
<1>9. PICK x : x = [entries[b][i] EXCEPT !.answer = m]
  OBVIOUS
<1>10. entries[b][i].prompt = p
  <2>1. PICK j \in 1..Len(entries[b]) : p = entries[b][j].prompt
    BY <1>5, <1>6 DEF BankOK, PromptsIn
  <2>2. exact[b][p] = entries[b][j].id
    BY <1>5, <2>1 DEF BankOK
  <2>3. i = j
    BY <1>5, <1>7, <1>8, <2>2 DEF BankOK
  <2>4. QED BY <2>1, <2>3
<1>11. /\ x \in Entries /\ x.id = entries[b][i].id /\ x.prompt = entries[b][i].prompt
       /\ x.answer.bank = b /\ x.answer.prompt = x.prompt
  <2>1. entries[b][i] \in Entries
    BY <1>5, <1>8, ElementOfSeq
  <2>2. QED BY <1>4, <1>9, <1>10, <2>1 DEF Entries
<1>a. x.prompt = p
  BY <1>10, <1>11
<1>12. /\ BankOK(b, Moved(entries[b], i, x), UsedLast(lastUse[b], x.prompt), exact[b], nextId)
       /\ IdsOf(Moved(entries[b], i, x)) = IdsOf(entries[b])
  BY <1>5, <1>8, <1>11, RenewedUse
<1>13. PICK es2 : es2 = Moved(entries[b], i, x)
  OBVIOUS
<1>14. PICK lu2 : lu2 = UsedLast(lastUse[b], p)
  OBVIOUS
<1>15. /\ entries' = [entries EXCEPT ![b] = es2]
       /\ lastUse' = [lastUse EXCEPT ![b] = lu2]
       /\ exact' = exact /\ nextId' = nextId
       /\ DOMAIN exact' = Banks /\ exact'[b] = exact[b]
  <2>1. entries' = [entries EXCEPT ![b] = Moved(entries[b], i, x)]
    BY <1>7, <1>9 DEF Moved
  <2>2. lastUse' = [lastUse EXCEPT ![b] = UsedLast(lastUse[b], p)]
    BY <1>1, <1>2, <1>3, StoringClient
  <2>3. QED BY <1>1, <1>6, <1>13, <1>14, <2>1, <2>2 DEF BanksOK
<1>16. /\ BanksOK'
       /\ Held' = (Held \ ({b} \X IdsOf(entries[b]))) \cup ({b} \X IdsOf(es2))
  <2>1. BankOK(b, es2, lu2, exact[b], nextId) /\ nextId <= nextId
    BY <1>5, <1>12, <1>13, <1>14, <1>a
  <2>2. \A c \in Banks \ {b} : exact'[c] = exact[c]
    BY <1>15
  <2>3. QED BY <1>1, <1>5, <1>15, <2>1, <2>2, OneBankChanges
<1>17. Held' = Held
  <2>1. {b} \X IdsOf(entries[b]) \subseteq Held
    BY DEF Held
  <2>2. QED BY <1>12, <1>13, <1>16, <2>1
<1>18. stats' \in [Counters -> Nat] /\ stats'["evictions"] = stats["evictions"]
  BY <1>1, <1>6 DEF Counts, Counters
<1>19. IsFiniteSet(Held') /\ Cardinality(Held') = nextId' - stats'["evictions"]
  BY <1>15, <1>17, <1>18 DEF CacheInv
<1>20. ClientsOK'
  BY <1>1, StoringClient
<1>21. QED BY <1>16, <1>18, <1>19, <1>20 DEF CacheInv

\* What is kept of a namespace that got one more entry, and what makes room.
LEMMA KeptList ==
    ASSUME NEW es \in Seq(Entries), Len(es) <= MaxEntries, MaxEntries \in Nat \ {0},
           NEW x \in Entries,
           NEW long \in Seq(Entries), Len(long) = Len(es) + 1,
           \A i \in 1..Len(es) : long[i] = es[i], long[Len(es) + 1] = x,
           NEW c, c = IF Len(long) > MaxEntries THEN Len(long) - MaxEntries ELSE 0
    PROVE  /\ SubSeq(long, c + 1, Len(long)) \in Seq(Entries)
           /\ IsKept(es, x, c, Range(SubSeq(long, 1, c)), SubSeq(long, c + 1, Len(long)))
<1>1. PICK n \in Nat : n = Len(es)
  BY LenProperties
<1>2. c \in {0, 1} /\ (c = 1 <=> n = MaxEntries) /\ c <= n /\ n <= MaxEntries
  BY <1>1
<1>3. c \in Int /\ c + 1 \in Int /\ n + 1 \in Int /\ Len(long) = n + 1 /\ 1 \in Int
  BY <1>1, <1>2
<1>4. \A i \in 1..(n + 1) : long[i] \in Entries
  BY <1>3, ElementOfSeq
<1>5. PICK s : s = SubSeq(long, c + 1, n + 1)
  OBVIOUS
<1>6. /\ s \in Seq(Entries) /\ Len(s) = n + 1 - c
      /\ \A j \in 1..(n + 1 - c) : s[j] = long[c + j]
  <2>1. \A i \in (c + 1)..(n + 1) : long[i] \in Entries
    BY <1>2, <1>4
  <2>2. /\ SubSeq(long, c + 1, n + 1) \in Seq(Entries)
        /\ Len(SubSeq(long, c + 1, n + 1)) =
              IF c + 1 <= n + 1 THEN (n + 1) - (c + 1) + 1 ELSE 0
        /\ \A j \in 1..((n + 1) - (c + 1) + 1) : SubSeq(long, c + 1, n + 1)[j] = long[c + 1 + j - 1]
    <3>1. PICK lo \in Int : lo = c + 1
      BY <1>3
    <3>2. PICK hi \in Int : hi = n + 1
      BY <1>3
    <3>3. \A i \in lo..hi : long[i] \in Entries
      BY <2>1, <3>1, <3>2
    <3>4. /\ SubSeq(long, lo, hi) \in Seq(Entries)
          /\ Len(SubSeq(long, lo, hi)) = IF lo <= hi THEN hi - lo + 1 ELSE 0
          /\ \A j \in 1..(hi - lo + 1) : SubSeq(long, lo, hi)[j] = long[lo + j - 1]
      BY <3>3, SubSeqProperties
    <3>5. QED BY <3>1, <3>2, <3>4
  <2>3. c + 1 <= n + 1 /\ (n + 1) - (c + 1) + 1 = n + 1 - c
    BY <1>2
  <2>4. \A j \in 1..(n + 1 - c) : c + 1 + j - 1 = c + j
    BY <1>2
  <2>5. QED BY ZenonT(30), <1>5, <2>2, <2>3, <2>4
<1>7. ASSUME NEW j \in 1..(n + 1 - c)
      PROVE  s[j] = IF j <= n - c THEN es[j + c] ELSE x
  <2>1. CASE j <= n - c
    <3>1. c + j \in 1..n /\ c + j = j + c
      BY <1>2, <2>1
    <3>2. QED BY <1>1, <1>6, <2>1, <3>1
  <2>2. CASE ~(j <= n - c)
    <3>1. c + j = n + 1
      BY <1>2, <2>2
    <3>2. QED BY <1>1, <1>6, <2>2, <3>1
  <2>3. QED BY <2>1, <2>2
<1>8. PICK g : g = SubSeq(long, 1, c)
  OBVIOUS
<1>9. g \in Seq(Entries) /\ Len(g) = c /\ \A l \in 1..c : g[l] = es[l]
  <2>1. \A i \in 1..c : long[i] \in Entries
    BY <1>2, <1>4
  <2>2. /\ SubSeq(long, 1, c) \in Seq(Entries)
        /\ Len(SubSeq(long, 1, c)) = IF 1 <= c THEN c - 1 + 1 ELSE 0
        /\ \A l \in 1..(c - 1 + 1) : SubSeq(long, 1, c)[l] = long[1 + l - 1]
    BY <1>3, <2>1, SubSeqProperties
  <2>3. c - 1 + 1 = c /\ (~(1 <= c) => c = 0) /\ \A l \in 1..c : 1 + l - 1 = l /\ l \in 1..n
    BY <1>2
  <2>4. \A l \in 1..c : long[l] = es[l]
    BY <1>1, <2>3
  <2>5. QED BY <1>8, <2>2, <2>3, <2>4
<1>10. Range(g) = {es[l] : l \in 1..c}
  <2>1. Range(g) = {g[l] : l \in 1..Len(g)}
    BY <1>9, RangeEquality
  <2>2. QED BY <1>9, <2>1
<1>11. IsKept(es, x, c, Range(g), s)
  <2>1. c = IF Len(es) = MaxEntries THEN 1 ELSE 0
    BY <1>1, <1>2
  <2>2. Len(s) = Len(es) + 1 - c
    BY <1>1, <1>6
  <2>3. \A j \in 1..Len(s) : s[j] = IF j <= Len(es) - c THEN es[j + c] ELSE x
    BY <1>1, <1>6, <1>7
  <2>4. QED BY <1>10, <2>1, <2>2, <2>3, Zenon DEF IsKept
<1>12. SubSeq(long, c + 1, Len(long)) = s
  BY <1>3, <1>5
<1>13. QED BY <1>6, <1>8, <1>11, <1>12

\* A new entry, and one that makes room for it if there has to be.
LEMMA StoreNewKeeps ==
    ASSUME CacheAssumption, CacheInv, NEW k \in Clients, StoreNew(k)
    PROVE  CacheInv'
<1>0. MaxEntries \in Nat \ {0}
  BY DEF CacheAssumption
<1>1. BanksOK /\ ClientsOK /\ stats \in [Counters -> Nat] /\ Stores(k)
  BY DEF CacheInv, StoreNew
<1>2. PICK b \in Banks : b = client[k].bank
  BY <1>1, StoringClient
<1>3. PICK p \in Prompts : p = client[k].prompt
  BY <1>1, StoringClient
<1>4. PICK m \in Answers : m = Made(k) /\ m.bank = b /\ m.prompt = p
  BY <1>1, <1>2, <1>3, StoringClient
<1>5. PICK es \in Seq(Entries) : es = entries[b]
  BY <1>1 DEF BanksOK
<1>6. BankOK(b, es, lastUse[b], exact[b], nextId) /\ nextId \in Nat
  BY <1>1, <1>5 DEF BanksOK
<1>7. Len(es) \in Nat /\ Len(es) <= MaxEntries /\ DOMAIN exact[b] = PromptsIn(es)
  BY <1>6, LenProperties DEF BankOK
<1>8. PICK x \in Entries : x = [id |-> nextId, prompt |-> p, answer |-> m]
  BY <1>6 DEF Entries
<1>9. PICK long : long = Append(es, x)
  OBVIOUS
<1>10. /\ long \in Seq(Entries) /\ Len(long) = Len(es) + 1
       /\ \A i \in 1..Len(es) : long[i] = es[i]
       /\ long[Len(es) + 1] = x
  BY <1>9, AppendProperties
<1>11. PICK c : c = IF Len(long) > MaxEntries THEN Len(long) - MaxEntries ELSE 0
  OBVIOUS
<1>12. PICK es2 : es2 = SubSeq(long, c + 1, Len(long))
  OBVIOUS
<1>13. PICK gone : gone = Range(SubSeq(long, 1, c))
  OBVIOUS
<1>14. PICK index2 : index2 = Unindexed(Indexed(exact[b], p, nextId), gone)
  OBVIOUS
<1>15. /\ p \notin DOMAIN exact[b] /\ nextId' = nextId + 1
       /\ entries' = [entries EXCEPT ![b] = es2]
       /\ exact' = [exact EXCEPT ![b] = index2]
       /\ stats' = [stats EXCEPT !["stores"] = @ + 1, !["evictions"] = @ + c]
  BY SMTT(30), <1>2, <1>3, <1>4, <1>5, <1>8, <1>9, <1>11, <1>12, <1>13, <1>14 DEF StoreNew, Indexed
<1>16. es2 \in Seq(Entries) /\ IsKept(es, x, c, gone, es2)
  <2>1. /\ SubSeq(long, c + 1, Len(long)) \in Seq(Entries)
        /\ IsKept(es, x, c, Range(SubSeq(long, 1, c)), SubSeq(long, c + 1, Len(long)))
    BY <1>0, <1>7, <1>10, <1>11, KeptList
  <2>2. QED BY <1>12, <1>13, <2>1
<1>17. PICK lu2 : lu2 = UsedLast(lastUse[b], p)
  OBVIOUS
<1>18. /\ BankOK(b, es2, lu2, index2, nextId + 1)
       /\ IdsOf(es2) = (IdsOf(es) \ {e.id : e \in gone}) \cup {nextId}
       /\ {e.id : e \in gone} \subseteq IdsOf(es)
  <2>1. x.id = nextId /\ x.prompt = p /\ x.answer.bank = b /\ x.answer.prompt = p
    BY <1>4, <1>8
  <2>2. p \notin PromptsIn(es)
    BY <1>7, <1>15
  <2>3. /\ BankOK(b, es2, UsedLast(lastUse[b], p), Unindexed(Indexed(exact[b], p, nextId), gone),
                  nextId + 1)
        /\ IdsOf(es2) = (IdsOf(es) \ {e.id : e \in gone}) \cup {nextId}
        /\ {e.id : e \in gone} \subseteq IdsOf(es)
    BY <1>0, <1>6, <1>16, <2>1, <2>2, StoredBank
  <2>4. QED BY <1>14, <1>17, <2>3
<1>19. /\ BanksOK'
       /\ Held' = (Held \ ({b} \X IdsOf(es))) \cup ({b} \X IdsOf(es2))
  <2>1. DOMAIN exact' = Banks /\ exact'[b] = index2 /\ \A a \in Banks \ {b} : exact'[a] = exact[a]
    BY <1>1, <1>15 DEF BanksOK
  <2>2. lastUse' = [lastUse EXCEPT ![b] = lu2]
    BY <1>1, <1>2, <1>3, <1>17, StoringClient
  <2>3. nextId + 1 \in Nat /\ nextId <= nextId + 1
    BY <1>6
  <2>4. QED BY <1>1, <1>5, <1>15, <1>18, <2>1, <2>2, <2>3, OneBankChanges
<1>20. PICK lost : lost = {b} \X {e.id : e \in gone}
  OBVIOUS
<1>21. {b} \X IdsOf(es) \subseteq Held /\ lost \subseteq {b} \X IdsOf(es)
  BY <1>5, <1>18, <1>20 DEF Held
<1>22. Held' = (Held \ lost) \cup {<<b, nextId>>}
  <2>1. {b} \X IdsOf(es2) = (({b} \X IdsOf(es)) \ lost) \cup {<<b, nextId>>}
    BY <1>18, <1>20
  <2>2. QED BY <1>19, <1>21, <2>1
<1>23. <<b, nextId>> \notin Held
  <2>1. \A d \in IdsOf(es) : d \in Nat /\ d < nextId
    <3>1. IdsOf(es) = {es[i].id : i \in 1..Len(es)}
      BY IdsByPlace
    <3>2. \A i \in 1..Len(es) : es[i].id < nextId /\ es[i] \in Entries
      BY <1>6, ElementOfSeq DEF BankOK
    <3>3. \A e \in Entries : e.id \in Nat
      BY DEF Entries
    <3>4. \A i \in 1..Len(es) : es[i].id \in Nat /\ es[i].id < nextId
      BY <3>2, <3>3
    <3>5. QED BY <3>1, <3>4
  <2>2. nextId \notin IdsOf(es)
    BY <1>6, <2>1
  <2>3. QED BY <1>5, <2>2 DEF Held
<1>24. c \in {0, 1} /\ IsFiniteSet(Held \ lost) /\ Cardinality(Held \ lost) = Cardinality(Held) - c
       /\ Cardinality(Held) \in Nat
  <2>1. IsFiniteSet(Held) /\ Cardinality(Held) \in Nat
    BY FS_CardinalityType DEF CacheInv
  <2>a. c = (IF Len(es) = MaxEntries THEN 1 ELSE 0) /\ gone = {es[l] : l \in 1..c}
    BY <1>16 DEF IsKept
  <2>2. CASE c = 0
    <3>1. lost = {}
      BY <1>20, <2>2, <2>a
    <3>2. Held \ lost = Held
      BY <3>1
    <3>3. Cardinality(Held) - c = Cardinality(Held)
      BY <2>1, <2>2
    <3>4. QED BY <2>1, <2>2, <3>2, <3>3
  <2>3. CASE c = 1
    <3>1. gone = {es[1]}
      <4>1. 1..c = {1}
        BY <2>3
      <4>2. gone = {es[l] : l \in {1}}
        BY <2>a, <4>1
      <4>3. QED BY <4>2
    <3>2. lost = {<<b, es[1].id>>} /\ <<b, es[1].id>> \in Held
      BY <1>20, <1>21, <3>1
    <3>3. IsFiniteSet(Held \ {<<b, es[1].id>>})
          /\ Cardinality(Held \ {<<b, es[1].id>>}) = Cardinality(Held) - 1
      BY ZenonT(30), <2>1, <3>2, FS_RemoveElement
    <3>4. QED BY <2>1, <2>3, <3>2, <3>3
  <2>4. c \in {0, 1}
    BY <2>a
  <2>5. QED BY <2>1, <2>2, <2>3, <2>4
<1>25. IsFiniteSet(Held') /\ Cardinality(Held') = Cardinality(Held) - c + 1
  <2>1. <<b, nextId>> \notin Held \ lost
    BY <1>23
  <2>2. /\ IsFiniteSet((Held \ lost) \cup {<<b, nextId>>})
        /\ Cardinality((Held \ lost) \cup {<<b, nextId>>}) = Cardinality(Held \ lost) + 1
    BY <1>24, <2>1, FS_AddElement
  <2>3. QED BY <1>22, <1>24, <2>2
<1>26. stats' \in [Counters -> Nat] /\ stats'["evictions"] = stats["evictions"] + c
       /\ stats["evictions"] \in Nat
  <2>1. stats["evictions"] \in Nat /\ stats["stores"] \in Nat /\ c \in Nat
    BY <1>1, <1>24 DEF Counters
  <2>2. stats["evictions"] + c \in Nat /\ stats["stores"] + 1 \in Nat
    BY <2>1
  <2>3. QED BY <1>1, <1>15, <2>1, <2>2 DEF Counters
<1>27. Cardinality(Held') = nextId' - stats'["evictions"]
  <2>1. Cardinality(Held) = nextId - stats["evictions"]
    BY DEF CacheInv
  <2>2. QED BY <1>6, <1>15, <1>24, <1>25, <1>26, <2>1
<1>28. ClientsOK'
  BY <1>1, StoringClient
<1>29. QED BY <1>19, <1>25, <1>26, <1>27, <1>28 DEF CacheInv

\* A list is a suffix of another when its elements are the other's last.
LEMMA SuffixByPlace ==
    ASSUME NEW S, NEW s \in Seq(S), NEW t \in Seq(S), Len(s) <= Len(t),
           \A i \in 1..Len(s) : t[Len(t) - Len(s) + i] = s[i]
    PROVE  IsSuffix(s, t)
<1>1. PICK n \in Nat : n = Len(s)
  BY LenProperties
<1>2. PICK L \in Nat : L = Len(t)
  BY LenProperties
<1>3. n <= L /\ \A i \in 1..n : t[L - n + i] = s[i]
  BY <1>1, <1>2
<1>4. /\ \A i \in 1..n : s[i] \in S
      /\ \A i \in 1..L : t[i] \in S
  BY <1>1, <1>2, ElementOfSeq
<1>5. PICK r : r = [i \in 1..n |-> s[(n - i) + 1]]
  OBVIOUS
<1>6. PICK q : q = [i \in 1..L |-> t[(L - i) + 1]]
  OBVIOUS
<1>7. Reverse(s) = r /\ Reverse(t) = q
  BY <1>1, <1>2, <1>5, <1>6 DEF Reverse
<1>8. r \in Seq(S) /\ Len(r) = n
  <2>1. \A i \in 1..n : (n - i) + 1 \in 1..n
    OBVIOUS
  <2>2. r \in [1..n -> S]
    BY <1>4, <1>5, <2>1
  <2>3. r \in Seq(S)
    BY <2>2, IsASeq
  <2>4. DOMAIN r = 1..n /\ DOMAIN r = 1..Len(r) /\ Len(r) \in Nat
    BY <2>2, <2>3, LenProperties
  <2>5. QED BY <2>3, <2>4
<1>9. q \in Seq(S) /\ Len(q) = L
  <2>1. \A i \in 1..L : (L - i) + 1 \in 1..L
    OBVIOUS
  <2>2. q \in [1..L -> S]
    BY <1>4, <1>6, <2>1
  <2>3. q \in Seq(S)
    BY <2>2, IsASeq
  <2>4. DOMAIN q = 1..L /\ DOMAIN q = 1..Len(q) /\ Len(q) \in Nat
    BY <2>2, <2>3, LenProperties
  <2>5. QED BY <2>3, <2>4
<1>10. \A i \in 1..n : r[i] = q[i] /\ r[i] \in S
  <2>1. SUFFICES ASSUME NEW i \in 1..n PROVE r[i] = q[i] /\ r[i] \in S
    OBVIOUS
  <2>2. PICK j : j = (n - i) + 1
    OBVIOUS
  <2>3. j \in 1..n /\ (L - i) + 1 = L - n + j /\ i \in 1..L
    BY <1>3, <2>2
  <2>4. r[i] = s[j]
    BY <1>5, <2>2
  <2>5. q[i] = t[L - n + j]
    BY <1>6, <2>3
  <2>6. QED BY <1>3, <1>4, <2>3, <2>4, <2>5
<1>11. PICK u : u = SubSeq(r, 1, n)
  OBVIOUS
<1>12. PICK v : v = SubSeq(q, 1, n)
  OBVIOUS
<1>13. 1 \in Int /\ n \in Int /\ n - 1 + 1 = n /\ (~(1 <= n) => n = 0)
       /\ \A i \in 1..n : 1 + i - 1 = i /\ i \in 1..L
  BY <1>3
<1>14. \A i \in 1..n : r[i] \in S /\ q[i] \in S
  BY <1>10
<1>15. u \in Seq(S) /\ Len(u) = n /\ \A i \in 1..n : u[i] = r[i]
  <2>1. /\ SubSeq(r, 1, n) \in Seq(S)
        /\ Len(SubSeq(r, 1, n)) = IF 1 <= n THEN n - 1 + 1 ELSE 0
        /\ \A i \in 1..(n - 1 + 1) : SubSeq(r, 1, n)[i] = r[1 + i - 1]
    BY <1>13, <1>14, SubSeqProperties
  <2>2. QED BY <1>11, <1>13, <2>1
<1>16. v \in Seq(S) /\ Len(v) = n /\ \A i \in 1..n : v[i] = q[i]
  <2>1. /\ SubSeq(q, 1, n) \in Seq(S)
        /\ Len(SubSeq(q, 1, n)) = IF 1 <= n THEN n - 1 + 1 ELSE 0
        /\ \A i \in 1..(n - 1 + 1) : SubSeq(q, 1, n)[i] = q[1 + i - 1]
    BY <1>13, <1>14, SubSeqProperties
  <2>2. QED BY <1>12, <1>13, <2>1
<1>17. u = v
  BY <1>10, <1>15, <1>16, SeqEqual
<1>18. IsPrefix(r, q)
  BY <1>3, <1>8, <1>9, <1>11, <1>12, <1>17 DEF IsPrefix
<1>19. QED BY <1>7, <1>18 DEF IsSuffix

\* Every step keeps the invariant.
LEMMA CacheStepKeeps ==
    ASSUME CacheAssumption PROVE CacheInv /\ [CacheNext]_cacheVars => CacheInv'
<1> SUFFICES ASSUME CacheInv, [CacheNext]_cacheVars PROVE CacheInv'
  OBVIOUS
<1>1. CASE UNCHANGED cacheVars
  BY <1>1 DEF CacheInv, BanksOK, ClientsOK, Held, cacheVars
<1>2. CASE CacheNext
  <2>1. PICK k \in Clients :
           \/ \E b \in Banks, p \in Prompts :
                 LookupExact(k, b, p) \/ LookupNear(k, b, p) \/ LookupMiss(k, b, p)
           \/ ModelRaises(k) \/ StoreRefresh(k) \/ StoreNew(k)
    BY <1>2 DEF CacheNext
  <2>2. CASE \E b \in Banks, p \in Prompts : LookupExact(k, b, p)
    BY <2>2, LookupExactKeeps
  <2>3. CASE \E b \in Banks, p \in Prompts : LookupNear(k, b, p)
    BY <2>3, LookupNearKeeps
  <2>4. CASE ModelRaises(k) \/ \E b \in Banks, p \in Prompts : LookupMiss(k, b, p)
    BY <2>4, MissKeeps
  <2>5. CASE StoreRefresh(k)
    BY <2>5, StoreRefreshKeeps
  <2>6. CASE StoreNew(k)
    BY <2>6, StoreNewKeeps
  <2>7. QED BY <2>1, <2>2, <2>3, <2>4, <2>5, <2>6
<1>3. QED BY <1>1, <1>2

\* The invariant says that answers are own.
LEMMA OwnByInv == CacheInv => AnswersAreOwn
<1> SUFFICES ASSUME CacheInv PROVE AnswersAreOwn
  OBVIOUS
<1>1. BanksOK /\ ClientsOK
  BY DEF CacheInv
<1>2. \A k \in Clients : client[k].at \in {"hit", "stored"} =>
          /\ client[k].answer.bank = client[k].bank
          /\ \/ client[k].answer.prompt = client[k].prompt
             \/ Near[client[k].prompt][client[k].answer.prompt] >= Threshold
  BY <1>1 DEF ClientsOK, ClientOK, OwnAnswer
<1>3. ASSUME NEW b \in Banks, NEW e \in Range(entries[b])
      PROVE  e.answer.bank = b /\ e.answer.prompt = e.prompt
  <2>1. PICK i \in 1..Len(entries[b]) : entries[b][i] = e
    BY <1>1, EntryAt
  <2>2. BankOK(b, entries[b], lastUse[b], exact[b], nextId)
    BY <1>1 DEF BanksOK
  <2>3. QED BY <2>1, <2>2 DEF BankOK
<1>4. QED BY <1>2, <1>3 DEF AnswersAreOwn

\* It says that eviction takes the right entry, and the whole of it.
LEMMA EvictionByInv == ASSUME CacheAssumption PROVE CacheInv => EvictsInStep
<1> SUFFICES ASSUME CacheInv PROVE EvictsInStep
  OBVIOUS
<1>0. MaxEntries \in Nat
  BY DEF CacheAssumption
<1>1. BanksOK /\ ClientsOK /\ stats \in [Counters -> Nat]
  BY DEF CacheInv
<1>2. ASSUME NEW b \in Banks
      PROVE  /\ DOMAIN exact[b] \subseteq Prompts
             /\ Len(entries[b]) <= MaxEntries
             /\ \A i, j \in DOMAIN entries[b] :
                   entries[b][i].prompt = entries[b][j].prompt => i = j
             /\ DOMAIN exact[b] = Prompted(b)
             /\ \A e \in Range(entries[b]) : exact[b][e.prompt] = e.id /\ e.id < nextId
  <2>1. /\ BankOK(b, entries[b], lastUse[b], exact[b], nextId)
        /\ entries[b] \in Seq(Entries)
    BY <1>1 DEF BanksOK
  <2>2. DOMAIN entries[b] = 1..Len(entries[b])
    BY <2>1, LenProperties
  <2>3. \A i, j \in DOMAIN entries[b] : entries[b][i].prompt = entries[b][j].prompt => i = j
    BY <2>1, <2>2, PromptsDistinct
  <2>4. Len(entries[b]) <= MaxEntries /\ DOMAIN exact[b] = PromptsIn(entries[b])
    BY <2>1 DEF BankOK
  <2>5. PromptsIn(entries[b]) = Prompted(b)
    <3>1. Range(entries[b]) = {entries[b][i] : i \in 1..Len(entries[b])}
      BY <2>1, RangeEquality
    <3>2. QED BY <3>1 DEF PromptsIn, Prompted
  <2>6. PromptsIn(entries[b]) \subseteq Prompts
    <3>1. \A i \in 1..Len(entries[b]) : entries[b][i] \in Entries
      BY <2>1, ElementOfSeq
    <3>2. QED BY <3>1 DEF PromptsIn, Entries
  <2>7. ASSUME NEW e \in Range(entries[b]) PROVE exact[b][e.prompt] = e.id /\ e.id < nextId
    <3>1. PICK i \in 1..Len(entries[b]) : entries[b][i] = e
      BY <1>1, EntryAt
    <3>2. QED BY <2>1, <3>1 DEF BankOK
  <2>8. QED BY <2>3, <2>4, <2>5, <2>6, <2>7
<1>3. CacheTypeOK
  <2>1. \A k \in Clients : client[k].at \in {"new", "hit", "model", "raised", "stored"}
    BY <1>1 DEF ClientsOK, ClientRecords
  <2>2. QED BY <1>1, <1>2, <2>1 DEF CacheTypeOK, BanksOK
<1>4. IndexMatchesStore
  BY <1>2, <1>3 DEF IndexMatchesStore
<1>5. ASSUME NEW b \in Banks, NEW kept, kept = [i \in DOMAIN entries[b] |-> entries[b][i].prompt]
      PROVE  IsSuffix(kept, lastUse[b]) /\ Len(kept) = Min({MaxEntries, Len(lastUse[b])})
  <2>1. PICK es \in Seq(Entries) : es = entries[b]
    BY <1>1 DEF BanksOK
  <2>2. PICK lu \in Seq(Prompts) : lu = lastUse[b]
    BY <1>1 DEF BanksOK
  <2>3. BankOK(b, es, lu, exact[b], nextId)
    BY <1>1, <2>1, <2>2 DEF BanksOK
  <2>4. PICK n \in Nat : n = Len(es) /\ DOMAIN es = 1..n
    BY LenProperties
  <2>5. PICK L \in Nat : L = Len(lu)
    BY LenProperties
  <2>6. /\ n <= L /\ n <= MaxEntries /\ (n = MaxEntries \/ n = L)
        /\ \A i \in 1..n : lu[L - n + i] = es[i].prompt
    BY <2>3, <2>4, <2>5 DEF BankOK
  <2>7. kept \in Seq(Prompts) /\ Len(kept) = n /\ \A i \in 1..n : kept[i] = es[i].prompt
    <3>1. \A i \in 1..n : es[i].prompt \in Prompts
      <4>1. \A i \in 1..n : es[i] \in Entries
        BY <2>4, ElementOfSeq
      <4>2. QED BY <4>1 DEF Entries
    <3>2. kept = [i \in 1..n |-> es[i].prompt]
      BY <1>5, <2>1, <2>4
    <3>3. kept \in [1..n -> Prompts]
      BY <3>1, <3>2
    <3>4. kept \in Seq(Prompts)
      BY <3>3, IsASeq
    <3>5. DOMAIN kept = 1..n /\ DOMAIN kept = 1..Len(kept) /\ Len(kept) \in Nat
      BY <3>3, <3>4, LenProperties
    <3>6. QED BY <3>2, <3>4, <3>5
  <2>8. IsSuffix(kept, lu)
    <3>1. \A i \in 1..Len(kept) : lu[Len(lu) - Len(kept) + i] = kept[i]
      BY <2>5, <2>6, <2>7
    <3>2. Len(kept) <= Len(lu)
      BY <2>5, <2>6, <2>7
    <3>3. QED BY <2>7, <3>1, <3>2, SuffixByPlace
  <2>9. n = Min({MaxEntries, L})
    <3>1. {MaxEntries, L} \subseteq Nat /\ {MaxEntries, L} # {}
      BY <1>0
    <3>2. Min({MaxEntries, L}) \in {MaxEntries, L} /\ \A x \in {MaxEntries, L} : Min({MaxEntries, L}) <= x
      BY <3>1, MinIsLeast
    <3>3. QED BY <1>0, <2>6, <3>2
  <2>10. QED BY <2>2, <2>5, <2>7, <2>8, <2>9
<1>6. nextId - stats["evictions"] = Cardinality(UNION {{b} \X IdsOf(entries[b]) : b \in Banks})
  BY DEF CacheInv, Held
<1>7. LruKept
  BY <1>5, <1>6 DEF LruKept
<1>8. QED BY <1>4, <1>7 DEF EvictsInStep

\* A tenant's answer is for that tenant, and for a prompt as near as it must be, however
\* the clients of the cache come in between each other
\* (context_engine/llm/semantic_cache.py, lookup and store).
THEOREM AnswersStayOwn == CacheSpec => []AnswersAreOwn
<1>1. CacheInit => CacheInv
  BY CacheAssumption, CacheInitInv
<1>2. CacheInv /\ [CacheNext]_cacheVars => CacheInv'
  BY CacheAssumption, CacheStepKeeps
<1>3. CacheInv => AnswersAreOwn
  BY OwnByInv
<1>4. QED BY <1>1, <1>2, <1>3, PTL DEF CacheSpec

\* Store and index agree, and what is evicted is the least recently used, of a cache of
\* any size.
THEOREM EvictionIsInStep == CacheSpec => []EvictsInStep
<1>1. CacheInit => CacheInv
  BY CacheAssumption, CacheInitInv
<1>2. CacheInv /\ [CacheNext]_cacheVars => CacheInv'
  BY CacheAssumption, CacheStepKeeps
<1>3. CacheInv => EvictsInStep
  BY CacheAssumption, EvictionByInv
<1>4. QED BY <1>1, <1>2, <1>3, PTL DEF CacheSpec
===============================================================================
