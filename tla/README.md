# A TLA+ development of PennyCore

PennyCore is two Python services. The *context engine* takes events in from
every channel, links them to customers and announces them; the *orchestrator*
turns an announced event into a proposed action, gates it by the tenant's
policy, queues it for human approval, executes it and keeps an audit trail.
This directory specifies the parts of both that keep state, model-checks them
with TLC on small instances and proves the central results with TLAPS for every
value of the constants.

- `PROJECT.json` ties everything together: the map from definitions to source
  lines, the runs, the mutants, the findings, the hazards and the theorems.
- `tlc -config Queue.cfg MCApprovalQueue` (and so on, see "The runs") repeats a
  run; `tlapm DecisionPipelineProofs.tla` repeats a proof.

Paths below are relative to `src/`.

## Inventory

### Orchestrator

| part | state | operations | what makes it correct |
|---|---|---|---|
| approval queue, `orchestrator/approval_queue.py` | `_by_id` (rows), `_pending_by_tenant` (FIFO lists) | enqueue, approve (single, partial, final), reject, list_pending, clear | the two indexes agree; N distinct eligible votes, not fewer, not more; no row that cannot be resolved; a row's history is append-only |
| decision pipeline, `orchestrator/decision_pipeline.py` | action store, dedup index, one RLock | handle_proposal, approve_action, reject_action, list_pending_actions, get_action, clear | one action per event; store, queue and trail agree; execution only with authority and at most once |
| audit log, `orchestrator/audit.py` | rows and three indexes | write, readers, clear | what happened can be reconstructed from the rows alone |
| quorum configuration, `orchestrator/quorum.py` | rule per tenant and type | set_rule, resolve, clear | a rule that cannot be met is refused |
| policy engines, `orchestrator/policy/` | a table per tenant | set_policies, decide, clear | the type's own entry, then `default`, then `*`, then approval_required; one whole table per answer, whatever is set meanwhile |
| executor, `orchestrator/executor.py` | none | execute | raises only what the pipeline turns into execution_failed |
| planner, `orchestrator/planner.py` | proposals ring buffer | propose_action, the planning handler | a failure never stops the listener; deliveries of one event end with one action |
| approvers' pages, `ui/` | a page and a message per browser session | seed, open the scenario, render, approve, reject | a message is true of the row it names; the demo's quorum is armed before its proposals |
| listeners, `orchestrator/event_listener.py` | pump thread, subscription, ring buffer | start, stop, the handler | every published event is handled once |
| HTTP API, `orchestrator/api.py` | the singletons above | approvals, actions, policies, attach_in_memory_bus | responses show the decision they answer |

### Context engine

| part | state | operations | what makes it correct |
|---|---|---|---|
| ingestion, `context_engine/api.py`, `ingestion.py`, `repository.py`, `pg_repository.py` | events by idempotency key | POST /events | a key is stored and published once, and a replay has no effect |
| customer linking, `linking.py`, `customer_repository.py`, `pg_customer_repository.py` | customers, the UNIQUE identity index | resolve_customer, create_customer, add_identity | one identity, one customer, whatever races |
| event bus, `event_bus.py`, `redis_event_bus.py` | subscribers | publish, subscribe | a subscriber's failure is not the publisher's |
| quarantine, deferred calls, `quarantine.py`, `slow_call_queue.py`, `timeouts.py` | ring buffers, a thread pool | quarantine, defer, drain, with_deadline | bounded; a late call is not lost and not taken for two |
| semantic cache, `llm/semantic_cache.py` | LRU store and exact index per tenant | lookup, store, evict | the two indexes agree |
| retrieval and briefs, `brief_assembly.py`, `retrieval/` | none to speak of | five strategies, pack | nothing of a history lost or shown twice; never over budget |
| LLM clients, `llm/` | none | get_client, complete, summarize | what is missing or still a placeholder leaves the mock to answer |
| sanitiser, observability | none | | |

### Beside the services

| part | state | operations | what makes it correct |
|---|---|---|---|
| schema, `migrations/versions/`, `scripts/migrate.py` | the schema and its ledger | the container's init scripts, a run of migrate | a file in the ledger is wholly applied, wherever runs overlap, fail or die |
| assessment adapters, `takehome/*/` | a history, a listener's handler | ingest, assemble, handle_event | they add nothing to the parts they call |
| benchmarks, scripts, evaluators | none | | |

### How the parts interact

A post is served by a thread of the API's pool: replay check, linking, upsert
and publish are calls of four stores with other requests between any two. The
bus hands the envelope to the orchestrator's listener (a pump thread on Redis, or
the publisher's own thread in memory), whose handler plans an action and calls
`handle_proposal`. Approvers call `approve_action` and `reject_action` from the
API's threads. These three hold the pipeline's lock from start to end; the
queue, the action store, the audit log and the two configurations have locks of
their own, and `list_pending_actions`, `get_action`, the response views,
`set_policies` and `set_rule` take only those.

The hard behaviour is in four places: what readers and configuration writers see
of a handler half way through; decisions on one row racing each other; the gaps
between the calls that serve a post, with both the in-memory and the Postgres
repositories behind them; and delivery from the one service to the other, which
is at most once. `hazards` in `PROJECT.json` lists them line by line.

## The modules

| module | models | state and actions |
|---|---|---|
| `ApprovalQueue` | `approval_queue.py`, `QuorumRule`, `ApprovalRule` | `rows`, `pendingByTenant`; `Enqueue`, `ApproveSingle`, `ApprovePartial`, `ApproveFinal`, `Veto`. A call that raises changes nothing and is the action being disabled. |
| `DecisionPipeline` (extends it) | `decision_pipeline.py`, `audit.py`, the policy table, `quorum.py` | `actions`, `dedup`, `trail`, `policy`, `quorum`, and the history variable `effects`; one action per path through a handler (`ProposeReject`, `ProposeQueue`, `ProposeAuto`, `ApproveVote`, `ApproveExecute`, `RejectAction`), `SetPolicies`, `SetQuorumRule`, `Clear`. Handlers are atomic to each other because of the lock. |
| `PipelineThreads` (extends it) | the same handlers, one step per store call, on threads, with `_action_view` and `list_pending_actions` | `lock`, `pc`, `job`; one action per store call |
| `ActionLifecycle` | the promise: the status machine documented in `contracts/actions.py` joined to the N-of-M review of `contracts/policies.py` | `status`, `review`, `need`, `signed`, `ran`; no threads, stores or indexes |
| `CustomerLinking` | `linking.py` over both customer repositories | `store`, `customers`, `owner`, and per request `at`, `work`; one action per repository call, with Postgres' `add_identity` in its two statements |
| `EventIngestion` (extends it) | `post_event`, `ingest_event`, both event repositories' upsert, `publish` | `key`, `events`, `published`; `Receive`, `CheckHit`, `CheckMiss`, `Link`, `UpsertNew`, `UpsertSeen`, `Publish`, `PublishFails`, `Restart` |
| `IdentityTransactions` | `create_customer` in both customer repositories, statement by statement | `customers`, `owner` (committed), `progress`, `outcome`; `BeginCreate`, `InsertNext`, `InsertCollides`, `CreateRaises`, `DeadlockFound`, `CommitCreate`, `CreateInMemory` |
| `AtomicCreates` | the promise: "Create a new customer + the supplied identities atomically" | the same without transactions: all, nothing, or, for an overlong identity in memory only, a part |
| `EventDelivery` | `event_bus.py`, `redis_event_bus.py`, both listeners, `attach_in_memory_bus`, the planning handler | `sent`, `subscribed`, `inbox`, `run`, the listener in place (`current`, `armed`), `stopEvent`, the pump threads; `Publish`, start and stop of either listener in their steps, `Adapter`, the pump's loop, `Plan`, `Propose` and their failures |
| `AtMostOnceDelivery` | the promise: "fire and forget" | `fate` of each event |
| `LanguageModels` | `llm/__init__.py` and the clients | operators: which client an environment gives, and what a call of it can come to |
| `PolicyEngines` | the four engines of `orchestrator/policy/` | `tables`, and per caller the `question` it put with the table it met, and the `answer`; `EngineSetPolicies`, `EngineClear`, `AskEngine`, and the answer from the table, the heuristic or the model |
| `PolicyRegistry` | the promise, `PolicyEngine`'s protocol | what each type is decided to, the decisions taken and not given yet; no tables |
| `Planning` (extends the pipeline, `RingBuffers`, `LanguageModels`) | `planner.py`, and `handle_event` of the orchestrator adapter | `delivery`, `proposals`; `Deliver` (again), `PlanByModel`, `PlanByRules`, `PlanRaises`, `AppendProposal`, `HandleFirst`, `HandleAgain`, with approvers and `set_policies` in between |
| `ApproverDesk` (extends the pipeline) | `ui/approver_app.py`, `approver_data.py`, `demo_scenario.py`, `demo_scenario_app.py` | per session the script it is in, its page and its message; one action per call a page makes of the pipeline |
| `Migrations` | `scripts/migrate.py` and the kinds of statements of the files | `disk`, `committed`, `found`, `runs`; the init scripts, and a run from its discovery to its commits, with `Wait`, `StatementFails`, `Die` and `Deploy` |
| `RingBuffers` | the bounded buffer of `quarantine.py`, `slow_call_queue.py`, `planner.py` and `event_listener.py` | operators: push by trimming or by `maxlen`, the two ways to view the newest |
| `SlowCalls` (extends it) | `timeouts.py`, `slow_call_queue.py` | `future`, `backlog`, `caller`, `reason`, `deferred` and two histories; `NewCall`, `Retry`, the pool's `Begin` and `End`, the waiting thread's `Answer`, `Reraise`, `TimeOut`, `Cancel`, `Defer`, and `Drain` |
| `SemanticCache` | `llm/semantic_cache.py` | `entries`, `exact`, `nextId`, `stats`, `client` and the history `lastUse`; the three outcomes of `lookup`, the two of `store` with its eviction, and the model in between |
| `HistoryRetrieval` | the five strategies of `retrieval/` | operators from a history to its ordered segments |
| `BriefPacking` (extends it) | `brief_assembly.py`, and the callers of retrieval | a history that grows, `Retrieve` or its failure, the packing loop as `PackHeader`, `PackSegment`, `EndLoop`, `Check` |
| `ServiceParts`, `WaitingParts` | seven parts, and three, side by side | `part`: they share no state, so one of them is run at a time |
| `ListLemmas` | | lemmas on lists without duplicates, which the queue, the linker and the inboxes keep, and on the least and greatest of a set of numbers |
| `DecisionPipelineProofs` (of the queue too), `PipelineThreadsProofs`, `PipelineClientsProofs`, `EventIngestionProofs`, `WaitingPartsProofs`, `ServicePartsProofs`, `BriefPackingProofs` | | theorems and their lemmas |
| `MC...` | | symmetry sets, the hint sequences, one state constraint, the similarities, the items of a history, the tables and the environments |

Actions and events are model values; payloads, notes, reasoning text and wall
clock times are left out, except that `enqueuedAt` keeps the order the FIFO list
depends on. An audit entry keeps its kind, its actor, the decision or quorum
outcome it records and the running tally. The executor is a call that succeeds
or raises and is counted. Definitions named as mutants (`ValidRuleZero`,
`RejectActionUnaudited`, ...) are plausible bugs, each next to the definition it
is a bug of; no specification uses them.

The identities a payload carries are a sequence in lookup priority (the input
`Hints`): how they are spelt and normalised is not modelled. `IdentityCollision`,
`LookupError` and a bus failure are the ends of a request that stores nothing
more. `Restart` is modelled for Postgres, where it loses only the requests under
way; with the in-memory repositories a restart loses everything and is the start
of a new behaviour.

In `EventDelivery` a "listener" is one start: on Redis the object, its stop event
and its handler are the same for all starts, the thread and the subscription are
not. Starts and stops are made by one thread, as the application does. The
connection to the broker is taken to hold, so `get_message` fails only where
there is nothing to get. A `join` returns when the pump has ended, or when it is
in its handler: the join's timeout is four times the pump's, so a pump that is
not in the handler has ended by then. Copies of the subscribers that `publish`
takes are deliveries that wait (`run`), whoever unsubscribes meanwhile.

`SlowCalls` takes the pool's worker threads, and the reconciler that calls `drain`
and tries again, as external: the repository's own reconciler is still to be
written, and `with_deadline_and_defer` and the cache are called by tests and
benchmarks only, so the models are of what the two modules offer. A reconciler
makes each drained call once more. A callable may return, raise, raise a
`TimeoutError` of its own, or never end. In `SemanticCache` the similarity of two
prompts is an input; calls of the cache are serialised, as its docstring asks, and
the model's calls are not. Calls and clients are numbered in the order they come,
which loses nothing since they are alike.

In `HistoryRetrieval` and `BriefPacking` a text is its length, the likeness of two
texts a small rank, and an hour or a second a step of a small clock; a model's
summary has a length, which may be zero (the clients return an empty text, and the
retrievers then leave the summary out), or raises. The bands of priority are kept as
bands. A brief's history grows item by item, so every history up to `MaxHistory` is
retrieved by every strategy.

In `PolicyEngines` a question holds the table its lookup found: the lock is released
there, and the compiled rules or the model work on that table. A model's reply is
what the parser can tell apart. `Planning` plans outside the pipeline's lock, so two
deliveries of an event may both plan before either is handled. `ApproverDesk` takes
apart what the pages do between two renderings: `seed_demo_data` looks at the audit
log, clears, sets three tables, arms a rule and proposes, each a call with others'
in between, and an approval is the vote and then another look at the row. Each
process runs one of the pages; the sessions of one page share the pipeline.

`IdentityTransactions` follows Postgres at READ COMMITTED: an INSERT of a key that an
open transaction has inserted waits for it, then collides or goes on, and a circle
of those that wait is ended by failing one of them, with an error that is not an
IdentityCollision. A commit's reply may be lost. A statement of `Migrations` makes
an object or rows if they are not there (`create`, which raises, and `insert ... on
conflict do nothing`, which does not, if it had to wait for another run's), in any case
(`replace`), or in a table (`alter`); what it made is the transaction's until the file's
commit. The locks on tables are abstracted. `CREATE INDEX IF NOT EXISTS` takes SHARE on
its table even if the index is there, `CREATE TABLE ... REFERENCES` and `CREATE TRIGGER`
take SHARE ROW EXCLUSIVE, `DROP TRIGGER` and `ALTER TABLE` ACCESS EXCLUSIVE, all until
the commit, so two runs over a database that the init scripts left half filled can
deadlock: both hold SHARE on `customers`, one has made `customer_identities` and needs
SHARE ROW EXCLUSIVE of `customers`, the other waits for the name of the new table. Such a wait is a step of the model that
comes later, and the abort that ends the deadlock is `StatementFails`, which may happen at
any statement and to a run that waits. The module therefore has every history that there is with
these locks, and others; what is proved of it holds of both. It says nothing
about who waits for whom.

## The runs

| run | module, config | what it asks |
|---|---|---|
| queue | `MCApprovalQueue`, `Queue.cfg` | indexes, quorum arithmetic, stuck rows, row history |
| pipeline | `MCDecisionPipeline`, `Pipeline.cfg` | store, queue, dedup, trail and executor after every handler, with policies, quorum rules and `clear` between any two |
| threads | `MCPipelineThreads`, `Threads.cfg` | the same with the handlers taken apart, what unlocked readers see, and that the whole implements `ActionLifecycle` |
| threads_list | `ThreadsList.cfg` | the order and completeness of a list read while others decide |
| threads_live | `ThreadsLive.cfg` | every call returns and no status of a running handler is left behind |
| list_pending_doc | `ThreadsListDoc.cfg` | finding: the list shows an action that is no longer pending |
| ingestion | `MCEventIngestion`, `Ingestion.cfg` | links, publishing, lost create races, with both stores and restarts |
| ingestion_pg | `IngestionPg.cfg` | finding: a collision where nothing collides |
| ingestion_replay | `IngestionReplay.cfg` | finding: a replay that linked |
| waiting | `MCWaitingParts`, `Waiting.cfg` | liveness and promises where somebody waits: delivery over starts and stops of either listener, why calls were given a fallback and which are tried again, transactions that wait for one another |
| delivery_stop | `MCEventDelivery`, `DeliveryStop.cfg` | finding: a pump that was stopped and goes on |
| services | `MCServiceParts`, `Services.cfg` | which deferred calls are kept and which forgotten; the cache's index, isolation and order of eviction; that retrieval loses nothing and a brief fits; the engines' promise; one answer per event over its deliveries; the pages' messages and demo; the schema and its ledger |

Bounds, and why they are enough:

- *queue*: three ids in two tenants, so that a row is removed from the middle of
  a list; two approvers and the anonymous one; quorums 0 to 2, where 0 must be
  refused, 1 takes the short path and 2 needs two votes.
- *pipeline*: two actions of two events, one tenant, one type, two approvers,
  quorums 1 and 2. Cross-tenant lists are in *queue*; the tenant guard of the
  handlers only disables them.
- *threads*: two threads (a handler and a reader, or two handlers that contend),
  two ids for one event (so that a second action of it could be created), two
  approvers. *threads_list* gives up quorum rules (`MCNoQuorumRules`) for two
  events, which a list needs to be out of order.
- *ingestion*: three requests, because the races need a customer first and then
  two requests that meet; two identities and every hint sequence of them in
  priority order; two keys; three customer ids, one per request.
- *waiting*: three starts, because a pump that outlives its stop meets the next
  start and the one after; two events, so that one is handled while another waits;
  three calls over one worker, so that one is behind another that never ends; three
  transactions with up to two of three identities in either order, so that circles of
  two and of three arise, and one identity that the contract does not admit.
- *services*, slow calls: three calls of two tenants over one worker and a queue of
  two, so that the queue of one overflows and may not push out the other's.
  Cache: four clients of two tenants with three prompts and room for two entries
  (two prompts are near each other, one is apart), so that an entry is promoted
  before an eviction and a prompt is stored twice. Briefs: every history of up to
  three of six items from before the cold cutoff to after the clock, on both sides
  of and at each cutoff, two budgets, one of which fits nearly nothing, with and
  without header and summary. Engines: two callers and two tenants, each engine with
  the mock and a provider, five tables (empty, wildcard only, both fallbacks, one
  type, one that must be refused). Planning: two deliveries, which may be of one
  event and over either entry, a provider whose key is there or a placeholder.
  Pages: two sessions, two wipes (one that overtakes the other's seed), two
  renderings (a page that is stale). Schema: two overlapping runs and the init
  scripts, three files with statements of the four kinds, any of which may be deployed later.

The ids, requests, events, calls, deliveries and runs of *queue*, *services*,
*waiting*, the ingestion runs and *delivery_stop* run out, and the model stops
there: these set `CHECK_DEADLOCK FALSE`. In the others a stop would be an error.
Clients of the policy engines, tenants and sessions that are alike are symmetric in
*services*; it checks invariants and a refinement without liveness, for which that
is sound.

Fairness: `FairThreadsSpec` is weak fairness of each thread's steps inside a
call. No step of a call waits (the lock is waited for only to begin one), so all
it says is that the operating system runs every thread. `FairDeliverySpec` says
it of the pumps, of a publishing thread and of a stop under way, `FairSlowSpec` of a
thread that waits for a call (its deadline passes in the end), not of the pool's
workers, `TransactionsSpec` of a transaction that can go on, and of the database's
deadlock detector; `WaitingSpec` says the three together. None assumes that requests arrive,
or that a handler, which calls a language model, returns: `DeliveryGoesOn` and
`StoppedPumpsEnd` have that as a hypothesis (`HandlersReturn`).

### Findings

Four docstrings say something the code does not do; each has a run that shows it:

1. `list_pending_actions` says it filters on `pending_approval`. It does not,
   and an action decided between the two reads is returned as it now is.
2. The Postgres `add_identity` raises `IdentityCollision` when the identity was
   linked, between its two statements, to the *same* customer; its protocol says
   that case returns the row. The in-memory repository does what the protocol
   says (`MemoryCollisionIsReal` holds).
3. The replay short-circuit of `post_event` does not keep a replay from being
   linked when two posts of a key run together.
4. `stop` of the Redis listener is to release its thread. A pump still in its
   handler when the join times out depends on the stop event for that, which the
   next `start` clears: it then polls its closed subscription for ever, beside the
   new pump.

Others were met and have no run. No outbox replays an event whose publish failed
(`redis_event_bus.py:64` says one will). `with_deadline` takes a `TimeoutError` of
the callable itself for a missed deadline, which `DeadlineExceeded` was made to
tell apart. The comment in `lookup` of the cache says ties go to the entry inserted
first; they go to the one used least recently. `ProposalsBuffer.recent` returns
everything for a limit of 0, unlike the other buffers; the endpoint asks for 1 or more.

The same holds of what modelling the other parts showed:

- `hybrid.py` comments that the reference time is the "newest message timestamp (or
  newest action if no messages)"; it is the newest of both. The rescored head of
  `rerank.py` is followed by an unchanged tail, so its result is not "sorted by
  descending priority". A provider's empty summary drops the cold messages from a
  brief without a trace (`SummaryOf`).
- `migrate.py:100` says an edited file "shows up as drift on the next run"; the
  checksum in the ledger is never compared.
- `customer_repository.py:73` says `create_customer` is atomic; in memory an identity
  longer than `contracts/customers.py:53` admits raises after the customer and its
  earlier identities are stored (`FailTorn`).
- `.env.example` gives `AZURE_API_KEY` a placeholder (line 21), which `get_client` takes
  before a real `AZURE_OPENAI_API_KEY`, so the mock answers (`OrElse`).
- `naive.py` "falls back to APPROVAL_REQUIRED on ambiguity", but an answer with both
  *auto* and *reject* in it is a rejection (`ParseNaive`).
- `handle_event` says a duplicate needs no re-planning; it is planned again, and the
  second plan dropped (`HandleAgain`).
- The seed's result counts every row of the queue as pending, decided ones too. A
  seed that another session's clear overtakes between its rule and its proposals
  arms a row for one approver only (`strays`), and a vote that was partial may be
  shown as "approved" when a clear takes the row before the second look.
- The self-test of `0002_audit_log_append_only.sql` swallows its own failure.

## The theorems

`DecisionPipelineProofs` begins with the queue by itself: for all sets of ids, tenants
and quorums, and any finite set of approvers, `QueueInv` is inductive. The three properties of
interest are not inductive alone: that a list is in order after a removal needs
every id in it to be there once, that a quorum is exact needs the votes to be
distinct, and that a row is not stuck needs the armed rule to have passed
`ValidRule`; hence the conjuncts `ArmedRulesValid` and `StampsInOrder` (stamps
are below the number of rows, so a new row is youngest). From it follow
`PendingListIsExact`, `QuorumIsExact`, `QueueNeverStuck` and, with the step
lemmas, the action property `RowsKeepHistory`. What `RemoveFirst` does to a list
without duplicates is proved first, in `ListLemmas`.

Then it proves that every step of the pipeline other than `clear` is, for the queue's variables, a step of the queue or a stutter
(`PipelineStepIsQueueStep`), so `PipelineImplementsQueue` and all the queue's
theorems carry over. Its other theorems are about `ClearableSpec`, with `clear`,
after which the invariants hold because nothing is left. On the type invariant it
proves `OneActionPerEventHolds` (inductive as it stands) and
`ExecutionIsAuthorized`. The latter is strengthened to `ExecInv`: an action that
waits in the queue has not run yet, and an action that ran has its decision row
second in the trail, where no later write can move it. `RecordInv` fixes the shape
of a whole trail: proposal, decision, the votes of the row in their order, and the
row that closes the action, which is there exactly if the row of the queue is
decided and which tells the action's status. None of `StatusMatchesTrail`,
`TrailRecordsVotes` and `QueueMatchesStore` is inductive without the other two (a
vote is written where the length of the trail puts it, and that length is known
from the votes); all three follow from it. `NothingIsSilent` is an action property:
whatever a handler changes of an action, a row is appended to its trail.

`PipelineThreadsProofs` proves the same at the grain of store calls, where between
two calls of a handler none of these records hold. `ThreadsInv` says for each label
of a handler what it has written so far of the action it works on (`ProposalStage`,
`IndexStage`, `ApprovalStage`, `RejectionStage`), that only the owner of the lock is
at such a label (`Controlled`), and that every other action is settled: it satisfies
`RecordOK` and `ExecOK`, the two invariants of the atomic handlers, and is in the
index. A step of the owner moves its own action from one stage to the next and
leaves the others alone; a handler's last step makes its action settled. It gives
`StoresAlwaysAgree` and, since each label determines where its action is in the
documented life of an action, `ThreadsImplementLifecycle`: every store call is one
step of `ActionLifecycle` or a stutter, for any number of threads.
`RepliesAreCurrent` is about responses that are put together without the lock. Its
invariant `RepliesInv` says what must already be true when the action is read for
the trail and the row, read later, to be no older: the vote is in the row and its
signature in the trail, both of which only grow; a status that is final stays
(`DoneStays`); and a review never falls back behind a status that needed it
(`FollowsStays`, from the refinement of the lifecycle). `ListsAreInOrder` rests on
`ListsInv`: the ids still to look up and the rows already listed are ordered by
enqueue stamps, which never change, and a row enqueued later is younger than all.

`EventIngestionProofs` shows first what one linking step does, then
that ingestion keeps `IngestInv`, for any number of requests, with either
repository and with restarts. `RequestInv` (in `CustomerLinking`) is what a
request may rely on at each place it can be at: that its list of hints to do is
part of its hints, that every hint not on it is its customer's already, and
`Vouched`, the reason it attaches to that customer at all. It is proved for the
request that moves (`Safe`) and, because links only come (`Grows`), for every
request that looks on (`OthersKeepInv`). With `StoredByOne` and `PublishedByOne`
follow `IngestTypeOK`, `OwnersKept`, `RewalkHits`, `MemoryCollisionIsReal`,
`EventsLinked` and `PublishedOnce`. `RewalkHits` and `MemoryCollisionIsReal` are
the two claims of the code about races that are argued in its comments only.

`WaitingPartsProofs` is about the event bus and the slow calls. It proves `DeliveryInv`, for any number of events and of starts
and with either bus: only the listener in place is on the bus or has a handler, an
event is delivered to one listener only, and an inbox holds the deliveries that
wait, each once. With it every step does one of four things to the deliveries
(`StepsOfDelivery`), from which follow `NothingAfterStopHolds` (a pump that
outlived its stop has an empty inbox for ever) and the refinement `AtMostOnce`,
which `FateOfDelivery` reduces to the one delivery an event has.

Of the slow calls it proves `SlowInv`, for any number of calls, tenants and workers and
any limit. `TwiceOnlyIfLate` is an invariant of the retries (`RetriesDue`) and an action
property of the futures: one that ended or was cancelled stays so, though the pool has
the cancelled one in its backlog yet (`SettledCallStays`). It is not inductive alone: that a deferred call which
failed stays failed needs the pool never to begin it again, so that no call is
twice in the backlog and none in it has begun (`BacklogWaits`); and that the
reconciler has only such calls follows the call from the request (`CallerHasReason`)
through the queue to the drained list (`QueueOfFallen`). `DeferralsKept` needs where
the calls of a tenant are in the log of its deferrals (`QueueInStep`): the queue is the
log's end, what was drained comes from before it in the log's order, and what is in
neither has as many entries after it as the queue holds. `PushInStep` and `DrainInStep`
prove it of the two operations on any lists. `BuffersAgree` is about the four buffers:
for whatever list they are fed and whatever they may hold, the trimmed list and the
deque both hold the end of the list (`TrimmedIsNewest`, `DequeuedIsNewest`; the
induction is on the first prefix for which they would not), and the two views of it
are the same (`ViewsAgree`).

`ServicePartsProofs` is about three parts of `ServiceParts`. Its `EnginesKeepPromise` says that the four engines implement
`PolicyRegistry`, for any tenants, types, callers and tables. Its invariant
(`EnginesInv`) says that a table in force, or held by a question, has been accepted:
every value in it is one of the three decisions, unless the engine is the naive one,
which accepts anything but decides nothing by it. `ResolveIsSpecific` shows that the
lookup of the code and the promise's "the most specific entry decides" agree on
every table.

`SchemaIsWhole` is about the runs of the migrations, for any files with any
statements and any number of runs that overlap. What makes it inductive (`SchemaInv`)
is where the pieces of a file can be: what a run has passed of the file it is at is
committed or its own, the files before it that it knew are in the ledger, and the
init scripts, which commit statement by statement, fill a file from its first
statement, so only one file is half there. A run that is aborted, in a deadlock or
otherwise, loses what is its own and nothing else.

`AnswersStayOwn` and `EvictionIsInStep` are about the response cache, for any tenants,
prompts, similarities, clients and size. `CacheInv` says of each tenant's namespace
that its entries are the prompts it used last, as many as may be kept, in their
order; that its ids are distinct and were given out; that the index names each entry
and nothing else; and that there are as many entries as ids given less evictions. So
the entry that a lookup moves to the end, and the one that an eviction takes, are
found by prompt, place and index alike.

`PipelineClientsProofs` is about what stands before and above the pipeline, each with
the pipeline's calls in its own actions; `PipelineInv` collects what
`DecisionPipelineProofs` proves of it, and `OriginStays` that no call changes which
event an action is of. `AnswersAreOne` says that deliveries of one event get one
action. `PlanInv` adds to `OneActionPerEvent` that every action was made by the
delivery that has its number, of the tenant, event and type it proposed, and that a
delivery that ended has an action of its own event.

`DeskInvariant` is the rely and guarantee of the two pages. A session is in a script
(`Scripting`), before a page (`Browsing`), between a vote and the look that words its
message (`Between`), or with a message (`Telling`), and for each of these `SessionOK`
says what it may rely on. Every call of another session (`StoresGoOn`) keeps that:
votes and decisions stay on a row, its quorum stays, ids are not used again, tables
and rule once in place stay in place. Only `clear` does not; it makes the session's
`generation` an old one (`SessionWiped`). Of a script it is an invariant of the order
of its steps (`ScriptOK`): whatever it still proposes, the tables are in place or
ahead of it in the script, and so is the rule unless a clear has overtaken it.
`MessagesStayTrue` and `DemoStaysArmed` follow. That a page never shows an action
without a row, on which the words of an error rest, is `QueueMatchesStore` from
`RecordInv`; that the second look finds a row approved exactly if it lacks no votes is
`QuorumExact`.

`BriefPackingProofs` is about the briefs, for any elements of a history, their times
and ranks equal or not, any window, cutoffs and `TopK`, any lengths and budgets.
`BriefsKeepHistory` takes the five strategies one by one. What a stable sort does is
proved first: ranked by how many come before it, each of a finite set has a place of
its own and no place stays empty (`PlacesInOrder`), so sorting permutes
(`SortedByPriority`). `Piece` says of a part of the segments which elements it shows
and with what priority; a list of pieces, sorted, shows what the pieces show. The
order a strategy promises then follows from its bands: all actions are in a higher
one than any message (`SummarizedKeeps`, `HybridKeeps`), or a unit of likeness
outweighs all times there are (`SemanticKeeps`). The tiers of hybrid divide the
messages because the cutoffs are in order (`TiersPart`), and what the window of
summarized cuts off is as many and as old as it should be because the newest are
listed first (`NewestFirst`).
`BriefsFitBudget` is an induction over the packing loop. That the charges pay for the
joined text is inductive only as "one more than the joined length is at most four
times what was charged" (`Counted`): a part is charged a quarter of its length,
rounded down, and one token more, and its newline and what was rounded off are
together at most four characters. From it the check at the end finds nothing to take
away (`WithinBudget`, `CheckKeeps`). What was left out would not fit then or later
(`LeftOut`), since what is charged only grows. The joined length is a recursive
function; what one more text adds to it is proved from the first prefix on which two
such functions would differ (`PrefixedAgree`, `JoinedGrows`).

The proofs assume only the named `ASSUME`s of the modules: approvers are finite
in number, the anonymous approver and `AnyTenant` are none of the names, quorums
are natural numbers and 1 is one of them (the fallback rule); a request's hints
are sequences without duplicates, and `UnknownId`, `NoCustomer`, `NoKey` and
`NoListener` are none of the values; `MaxDeferred` is positive. A policy table's keys are types or the two special keys, its
values strings (`EngineAssumption`). The cache keeps at least one entry, its
threshold is positive and its similarity symmetric (`CacheAssumption`); lengths are
positive, times are below 100 and ranks below 10, so that the bands stay apart as those
of the code do (`RetrievalAssumption`), budgets positive (`BriefAssumption`); files are
numbered and each is a sequence of statements (`MigrationsAssumption`); the planner's rules name action types
(`FallbackAssumption`); and the names the demo uses are among the tenants, events,
types and approvers there are (`DeskAssumption`).

Model-checked only: liveness and fairness, among them that handlers end
(`CallsEnd`), calls answer (`CallersReturn`) and buses go on (`DeliveryGoesOn`), which
the provers do not reach; and `ImplementsAtomicCreates`, which promises that calls end.
Every invariant and every other action property that a passing run checks is a theorem.

## Not modelled

Text (prompts, parsing, normalisation, the injection patterns), the arithmetic of
scores (a rank stands for it), requests to model providers, spans and counters, what
the pages render beside the queue. The cache's docstring leaves locking to whoever
shares one, and no code of the repository does: its calls are serialised here.
`PipelineThreads` has no `clear`: `DecisionPipeline` and the pages have it between two
calls, under the pipeline's lock like any other handler; what an unlocked list meets when
one falls into it is not checked.
`with_deadline` hands its call to the pool outside its `try`, so a pool that was shut down
would make it raise in spite of its "NEVER raises" (`timeouts.py:109`); nothing shuts the
pool down, and the model has no such step. `migrate.py` exits with 2 on a file name
out of order before it connects; that changes no state and is left out. The
evaluators, benchmarks and artifact scripts are loops
over fixtures that call the parts above and print sums; they keep no state that
could go wrong between two steps. In memory the orchestrator's whole state is lost
on a restart; nothing recovers it, so there is nothing to check.

## Plan

Done: 1 `ApprovalQueue` and its proofs; 2 `DecisionPipeline` and its proofs;
3 `ActionLifecycle` and `PipelineThreads` and its proofs; 4 `CustomerLinking`,
`EventIngestion` and their proofs; 5 `EventDelivery` and its proofs;
6 `RingBuffers` and `SlowCalls` with its proofs; 7 `SemanticCache`; 8 `BriefPacking`;
9 `PolicyEngines` with the proof that it implements `PolicyRegistry`;
10 `IdentityTransactions` against `AtomicCreates`; 11 `Planning`, deliveries composed
with the pipeline; 12 `HistoryRetrieval`; 13 `ApproverDesk`; 14 `Migrations`.

Proved since: `SchemaWhole`, `EvictsInStep`, `AnswersAreOwn`, `OneAnswerPerEvent`,
`MessagesTrue`, `DemoArmed`, `DeferralsKept`, `HistoryKept` and `BriefFits`. To come:
the safety half of `ImplementsAtomicCreates`, that a create is all or nothing.
