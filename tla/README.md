# Sentinel3, verified parts

TLA+ models, TLC runs and TLAPS proofs for Sentinel3, the monitoring and response system of this
repository. Paths below are relative to `src/src/` of the repository tree unless they start with
`scripts/` or `config/`.

## 1. The system

Sentinel3 is two Python processes over one PostgreSQL database and one Redis:

- the **worker** (`worker/main.py`) polls chains, stores events, evaluates rules, invariants and ML
  models over them, and creates incidents. Its loops are asyncio tasks of one process: *Loop A*
  (ingestion), *Loop B* (detection), the runtime plane (mempool and pending blocks), statistics;
- the **API** (`api/`) serves the dashboard, lets analysts decide incidents, and runs the
  *Guardian*, which pauses contracts.

They share no memory. What one task can see of another is in the database, in Redis, or, within
the worker, in the objects below. In asyncio a task is interrupted only at an `await`; that is where
the steps of the models end.

### Modelled components

| Component | State it keeps | Operations | What is hard | What makes it correct |
|---|---|---|---|---|
| Finality tracker, `telemetry/finality_tracker.py` | window of recent heads, confirmed height, reorg count | `update_head` (record, detect, roll back, prune, confirm), reorg callback | heads repeat, skip and step back; forks shorter and longer than the window; callback runs later, as a task | nothing confirmed too early; the height and the window agree; confirmation goes on; the window is bounded; affected incidents are invalidated |
| Event bus, in memory, `pipeline/bus.py` | deque, set of used keys | `publish`, `consume`, `close` | full queue under three drop policies, key collisions | a key is handed out once; accepted messages are accounted for |
| Event bus, Redis Streams, `pipeline/bus.py` | stream, group cursor, pending list, set of processed keys, per-worker batch | the same | every Redis call is an `await`; calls raise before or after they take effect, workers crash, the stream is capped | one worker gets an entry, once; a crash or a failing call costs a bounded number; entries arrive |
| Chain ingestion (Loop A), `worker/main.py` | connection, breaker, rate limiter, processed height | one turn of `ingestion_loop` | any RPC call of a turn may fail, or its error be swallowed; four interacting guards; restart | no block twice, no block skipped close to the head, no lock-out |
| Event pipeline, `worker/main.py`, `database/service.py` | events table, seen set, batch in hand | direct save, publication, listener's handler, consume, batch save | three paths store the same event in any order, saves fail silently, the seen set is cut | rules see an event once per life and cut, an event is kept |
| Incident store and idempotency records, `database/service.py`, `database/idempotency.py` | incidents table, `event_processing` table, open transactions | `save_incident`, `mark_processed`, `mark_failed`, changes of status | two transactions per call, each holding a connection of a bounded pool; overlapping calls of one key, cancellation, failing requests, commits that take effect and raise | a processed key has its incident; failures alone make no duplicate; decisions stand; a save ends |
| Incident creation, `worker/main.py` | caches of events, rules and threats, the call in hand | rules and threat of an event in order, save, caches, alert and response | three caches with windows of 5, 30 and 60 minutes, filled after a save that may raise, also after its commit took effect | incidents are spaced; nothing is silenced that was not saved; a stored serious incident is announced |
| RPC provider, `telemetry/rpc_client.py` | health, failures and cooldown per endpoint, rotation index | selection, requests, failover, retries, cancellation | two loops share one provider and interleave at every request; the list they rotate over changes | a call asks every available endpoint before it raises; an endpoint rests through its cooldown |
| Runtime plane, `runtime/runtime_engine.py`, `runtime/risk_router.py`, `runtime/intent_sources/pseudo_block.py` | block cursor, transactions of the cycle, time stamps of simulations | a cycle, the routing of a transaction | calls raise, find nothing or lag in the middle of a range; the cursor only moves at blocks with transactions | simulations stay within the budget; a fault costs few blocks; blocks are reached |
| Guardian, `response/guardian.py`, `api/guardian_routes.py` | protocols, settings, connections, history, pending approvals, cooldowns | 13 endpoints and `handle_incident` | requests in any order, approvals much later than the request and after the registration was replaced, shared names, receipts that time out | decided once, large losses approved, a reported pause has happened for a protocol that fits, the cooldown holds |

### How they interact

```
 chain --heads--> FinalityTracker --reorg callback--> incidents table
   |
   +--logs--> Loop A (ChainIngestion) --save--> events table <--save-- Loop B
                 |         |                                        ^
                 |         +--publish--> event bus --consume--------+
                 +--listener's handler--> rules, ML (IncidentCreation) --> save_incident (IncidentStore)
                                                                          |
 analyst, triage --update_incident_status----------------------------------+
 incident, analyst --handle_incident, approve, pause--> Guardian --pause()--> contract
```

Loop A and the runtime plane both reach their chain through one `MultiRpcProvider` (RpcProvider).

`InMemoryBus` is used *inside* `EventPipeline` (EXTENDS), which therefore implements `EventBus` as
well; `RedisStreamsBus` implements `WorkQueue`, what several workers get from the other bus. The
other modules are coupled in the code only through values one passes to the other (a height, a set
of blocks, an incident id, the outcome of a request), and each model takes those from its
environment: `ChainIngestion` and `RuntimePlane` let every RPC call succeed or fail, which covers
every provider; `IncidentCreation` contains `save_incident` as the outcomes it has for calls that do
not overlap, and `IncidentStore` models it request by request.

### Components that are not modelled

| Component | Why not (yet) |
|---|---|
| bloXroute source: `runtime/intent_sources/` | needs a subscription; every deployment of the repository uses the pseudo block source |
| Transaction simulators: `runtime/simulator/` | an external process and numeric estimates; the outcome changes no state the runtime plane keeps |
| Runtime bus: `runtime/bus/redis_streams.py` | nothing in the repository imports it |
| Checkpoint store: `telemetry/checkpoint.py` | the ingestion loop never consults it; reads and writes of single values |
| Pause policy: `response/policy.py` | its two evaluations have no caller outside tests; its cooldown dictionary, which the manual pause uses, is in `Guardian` |
| `_handle_invariant_violation` in `worker/main.py` and the invariant engine, `invariants/` | the events the worker feeds it are typed by `event_signatures.py`, which has no mint, so the parity rules cannot be violated in it; the rest compares one event with numeric thresholds |
| Correlation and incident builder: `correlation/` | used by the older entry point `main.py`, not by the worker; pattern scores are heuristics |
| Rule engine, feedback loop: `rules/` | evaluation of one event; `EventPipeline` counts evaluations and abstracts their result |
| Listeners and pools: `telemetry/*_listener.py`, `*_pool.py` | decoding and chain-specific clients; their outcomes in a turn are choices |
| Alerting: `response/alerting.py` and channels, `notifications/` | fire-and-forget HTTP; nothing reads its state |
| Signer: `response/signer.py` | external key stores; `Guardian` models whether a signer is found |
| Database connection, migrations, sync, audit: `database/` | schema changes; caches of read queries. The limit and timeout of the pool are in `IncidentStore` |
| Shared state, websockets, pub/sub: `shared_state.py`, `api/websockets.py`, `api/ws_broadcast.py`, `runtime/pubsub.py` | values for display; `blocks_scanned` is in `ChainIngestion` |
| HTTP API: `api/server.py`, `api/routes.py`, `api/runtime_routes.py` | thin handlers over the database; those that keep state are in `Guardian` and `IncidentStore` |
| Authentication: `api/api_keys.py` | access control is outside the aim of this project |
| AI, ML and LLM triage: `ai/`, `ml/` | numeric models and prompts; a verdict is a change of status in `IncidentStore` |
| Graph, scanner, forensics, bridges: `graph/`, `scanner/` | analyses of one input at a time, without state between steps |

The hazards of this code, modelled and not, are listed with their lines in `PROJECT.json`.

## 2. The modules

Each state variable's comment in the module names the attribute or table it stands for;
`PROJECT.json` maps every definition to its lines.

**FinalityTracker.** One chain and its tracker. A hash is `<<number, fork>>`, so that it determines
its ancestry as a real one does. `ExtendChain` and `Reorg` are the chain, `UpdateHead(n)` is all of
`update_head`: `Recorded`, `ReorgDetected`, `MarkReorged` and `RolledBack` (`_handle_reorg`),
`Pruned`, `Confirms` with `HashChainConsistent`. The head handed over may lag the tip, repeat, or
step back, as answers of several endpoints do. Scheduled callbacks wait in `callbacks` and run
later, in any order. The manager class is one such tracker per chain.

**EventBus, InMemoryBus.** `EventBus` is what both loops may rely on: a key is spent once, only
accepted messages are handed out, each once, and only a bus that holds `Capacity` messages refuses
one or gives one up. `InMemoryBus` has one operator per method, as each
holds the bus's lock for its whole body, and a specification of its own, which the proofs are about;
TLC runs it inside `EventPipeline`. The key is spent *before* the capacity check, as in the code, and
`low_severity` refuses like `never` does.

**WorkQueue, RedisStreamsBus.** `WorkQueue` is what the workers of a stream get: a worker with empty
hands takes the oldest entries that wait, nobody takes them again, it delivers or loses them, and
the newest `Capacity` entries are never given up. In `RedisStreamsBus` each action is one Redis
call. `publish` is `CheckProcessed` then `Xadd` or `XaddFails`; `consume` is `ReadGroup`, then for each message
`MarkProcessed` and `Acknowledge` or `SkipMessage`, then `Return`. A call that raises may have taken
effect, only its answer being lost: `SkipMessage` is SADD or XACK raising on either side of its
effect, `ReadGroupUnheard` an XREADGROUP whose entries were assigned and never arrived. A skipped
message is pending, or, after a lost answer of XACK, known to nobody. The cap is approximate: Redis may
trim down to `MaxLen` or keep more. A crashed worker's successor is a new
consumer, because the consumer name contains the pid.

**ChainIngestion.** One turn of the loop for one chain is one action: no other task writes this
state. The actions are the ways a turn ends (`Reconnect`, `HeadCallFails`, `BlockCallFails`,
`NothingNew`, `PollBlocks`). `process_block` stops at a block when it raises (`reached`), and swallows a block
it cannot find, a failing `get_logs` and errors in parsing (`missed`): the loop goes on as if these
blocks had been listened to and tells neither guard, but no rule has seen them (`Heard`).
`CircuitBreaker` and `RateLimitHandler` are operators on records.
Deadlines are kept as time left, lowered by `Tick`. An exponent is kept as the last backoff, with
the same cap.

**EventPipeline.** Extends `InMemoryBus` with the loops around it. `PollSave` then `PollPublish` is
an event of `get_logs`, as often as it is polled; `HandleEvent` is the listener's handler with its
seen set, the only place that evaluates rules: when the set has more than `SeenLimit` entries it is cut to
any `SeenKept` of them (`Remembered`; 20000 and 10000 in the code), as a Python set has no order. The
listener keeps a set of its own before it, cut likewise, which can only skip more. `DetectConsume` then
`DetectSave` is Loop B. `Save` is
`save_events_batch`: a savepoint per row, failures reported by the return value only, and a commit
whose answer is lost leaves rows that nothing counted. A row is known
by chain and transaction, because no caller passes a `log_index`; the key of the bus hashes the log
index, so two events of one key are of one transaction (`PipelineAssumption`).

**IncidentStore.** `Calls` are calls of `save_incident` from any task or process. A call goes
through `CheckIdempotency`, `SelectIncident`, then `FlushIncident`, marking, `CommitNew` for a new
incident, or `CommitUpdate`, marking, for a known one. Marking is `MarkRead` and `MarkWrite`, a
transaction of its own, over a second connection: `HasConnection` counts those in use, and
`PoolTimeout` is a request that waited for one in vain. `SaveFails` is a failing request with its
`mark_failed`, `CommitUnheard` a commit that takes effect and raises, `Crash` a
cancelled task or dead process. Column-wise writes of the ORM are kept: a
field equal to what was read is not written.

**Guardian.** One action per endpoint; no handler yields between reading and writing, since no
callback is installed and Web3 calls block. The loops of the emergency endpoints do not yield
either; `sweep` holds the positions of the list still to be visited and takes one protocol per step,
because each has an outcome of its own, and excludes every other action until it is done. A pause
transaction is `mined`, `reverted`, or `unseen` (mined after the wait for its receipt timed out).
A registration brings a whole configuration (`Configs`: name, contracts, chain, key, settings) and
replaces the old one at its place in the dict; protocols may share names and contracts, and a response
is matched (`Matching`) to the first that has its name or its contract, again when it is approved. A
pause calls `PauseTarget`, the `pause_contract` of that protocol where it has one, while the record
names the main contract. `DeterminedAction` has the branches of critical and of high severity. The
endpoint registers protocols without a key; those with one come from callers of `register_protocol`.
The model is one life of the API process: its restart forgets history, approvals and cooldowns. A
response id is a prefix and a second, so two can collide.

**IncidentCreation.** What the handler of one chain does with what its detectors report. `HandleEvent`
takes an event and the rules and the threat it matched; `Consider` looks the next one up in the
caches (`Known`), and starts a save or drops it; `SaveKnown`, `SaveRow` and `SaveFails` are the
outcomes of `save_incident`, with a record that may be lost or survive the incident, and a save that
raises with its row stored, counted in `unheard`, when the commit took effect; `Announce` is
the rest of the function, with the entries, the purges at one and two hours, and the tasks of alert
and response. `created` is what the worker counted since its start.

**RpcProvider.** `Begin` and `Retry` select an endpoint (`Select`: sorted by health, rotated by one
shared index, or the one whose cooldown ends first) and send a request; `Answer` and `Fail` are
`_record_success` and `_record_failure`; `Abandon` is `wait_for` cancelling the call of a caller that
has a timeout of its own. `attempt` counts the requests of a call.

**RuntimePlane.** `StartCycle` and `GetBlock` are `get_pending_txs`: a cycle over up to `MaxBlocks`
new blocks, one call per step. `BlockFound` takes the transactions that fit the limit and moves the
cursor, `BlockMissing` skips a block that is missing or empty and leaves the cursor, `BlockRaises`
drops what the cycle has fetched, with the cursor left where it got to. `Route` is the router, and
`Simulate` the budget, for one transaction of the cycle. Time stamps are kept as `ages`; `listed`
says which of them the budget's list still holds. What follows a simulation is unreachable and left
out (see below).

The MC modules only give constants; TLC's own bounds are named constants in the guards.

## 3. The runs

| Run | Question | Bounds |
|---|---|---|
| `finality` | confirmation depth, agreement of the two views, bounded window, progress, roll back | 7 heights, 2 confirmations, `max_reorg_depth` 2, 1 fork of depth up to 3, heads lag by 1 |
| `redis_bus` | one worker per entry, order of record, acknowledgement and return, cost of a crash and of a failing call, arrival, refinement of `WorkQueue` | 2 workers, 2 keys, 3 entries, cap 2, batches of 2, 1 failure, 1 crash |
| `ingestion` | no block twice, no gap, bounded loss for the rules, probe decides, catches up | 5 blocks, 3 turns with a fault, 1 restart, threshold 2, two steps of both exponents |
| `pipeline` | one hand-out per key and accounting of the bus, refinement of `EventBus`, evaluations per life and cut, an event is kept, the queue drains | 3 events in 2 transactions, queue and batch of 2, policies `never` and `oldest`, seen set of 2 cut to 1, 1 failing save, 1 restart or cut |
| `pipeline_log_index` | *violated:* an unsaved event is a duplicate | the same |
| `incident_store` | duplicates need overlap, a record names a stored incident, records and decisions last, saves end | 3 calls of one key (2 with the same second), pool of 2, 2 failures or lost answers, 1 crash, 1 decision |
| `incident_exactly_once` | *violated:* a processed key has its incident | 1 failure, no crash |
| `incident_creation` | incidents are spaced, what is suppressed was saved, what is stored is announced | 2 rules and a threat, 2 events of a contract, windows of 1, 2 and 3 ticks, clock to 3, 3 calls, 1 failure or lost answer, 1 restart |
| `rpc` | failover to every endpoint, rest through the cooldown | 2 endpoints, 2 callers of which one gives up, threshold 3, cooldown 2, 3 requests per call |
| `rpc_failover` | *violated:* a lone call asks every available endpoint | 3 endpoints, 1 caller |
| `runtime` | budget in every window, cost of a fault, blocks are reached | 5 blocks with 7 transactions, limit 2, 2 blocks per cycle, budget of 2 in 3 ticks, 3 faults |
| `guardian` | pending and decided responses, approval, reported pauses, cooldown | 2 protocols, 2 configurations that share a name, on 2 chains, one pausing the other's contract, 2 responses, 2 instants, cooldown 1, 2 changes of the configuration |

Why the bounds are enough to be of use:

- *finality:* pruning starts at height 5 and a block is confirmed from height 3, so each happens
  before and after a fork; the fork is deeper (3) than the tracked depth (2), and heads can step
  over it, back below it, and repeat. Only one incident is needed for a callback to meet one
  (`Bounded`).
- *redis_bus:* three entries with a cap of two exercise what `WorkQueue` says of the newest, and
  trimming of unread, pending and acknowledged entries; two workers can hold the same key at once.
- *ingestion:* the breaker trips, probes and trips again for longer, and the rate limiter reaches its
  maximum; five blocks exceed the four of a turn, so a worker that is further behind skips; failures
  in different calls of the turn interleave with all that.
- *pipeline:* the transaction with two logs meets all orders of the three paths, a failing save can
  strike any one of them, and an event can be polled again at any time. Three events are one more
  than the queue holds, so every message meets an empty, a partly filled and a full queue, and one more
than the seen set holds, so that a cut can drop any of them and each can come again.
- *incident_store:* three calls is the least that lets a third meet what two overlapping ones left,
  and more than the pool has connections, so that two saves can hold them all while both wait for a
  second; two failures strike a commit and the marking after it.
- *incident_creation:* the windows keep their order (5, 30, 60 minutes become 1, 2, 3 ticks), the
  clock passes each of them, and a cluster ends with the third tick. A third call can meet the
  record, the row and the cache entries the first two left.
- *rpc:* two callers suffice to change the list under each other; the state space needs no bound
  but those of the code. The third endpoint makes the list shrink to two, which the violated run
  needs.
- *runtime:* the chain has a repeated transaction, a block the limit cuts and an empty block; a fault
  can hit any call of a cycle and two cycles of the same range.
- *guardian:* two responses suffice for a colliding id and for an approval meeting changed
  settings; time 0 and 1 with a cooldown of 1 contains an early, a late and an overriding pause; two
  changes register two protocols, or register one and replace, reconfigure, initialize or unregister it.
  Either protocol may be given either configuration, so a response can meet another protocol of its
  name, and after a replacement another contract, another chain or no key.

`CHECK_DEADLOCK FALSE` is set where the bounds (heights, entries, failures, calls) let the model
run out of steps. The RPC provider and the runtime plane never do: `rpc`, `rpc_failover` and `runtime`
are checked for deadlock.

### Fairness

- `ChainIngestion!FairSpec`: weak fairness of `Turn` (the loop sleeps and runs again whatever
  happens inside, as it catches every exception), of `Tick`, and of `NewBlock`. No fairness for
  success: after the bounded failures, calls succeed. `CatchesUp` says that nothing the guards keep
  from those failures locks the chain out.
- `RedisStreamsBus!FairSpec`: weak fairness of each worker's `Consumption`, as the detection loop
  calls `consume` in a `while` and every blocking call has a timeout. Producers get none.
- `IncidentStore!Spec`: weak fairness of each call's next step, its pool timeout included: a request
  is answered, fails, or gives up waiting for a connection after `pool_timeout`. Nothing is assumed
  of which call gets a connection. `SavesEnd` says that a pool in the hands of saves that all wait for
  a second connection still lets every one of them end.
- `RuntimePlane!Spec`: weak fairness of `Cycle`, the next step of the loop of five seconds that
  catches every exception. Neither the chain nor the clock has any.
- `EventPipeline!FairSpec`: weak fairness of `PollPublish` (Loop A goes on after its save) and of
  `DetectConsume` and `DetectSave` (Loop B). Nothing makes new events arrive.

### What the violated runs show

Each of them sets what the repository says against what the code does; `PROJECT.json` quotes both.

1. *Only one event of a transaction is stored.* No caller passes `log_index`, so the unique key is
   the transaction; the others are dropped by `ON CONFLICT DO NOTHING` and counted as saved.
2. *A processed key without an incident.* `mark_processed` commits before the incident; if the
   incident's commit fails, `mark_failed` is ignored and each retry returns an id nobody stored.
3. *Failover misses an endpoint.* One index rotates over the list of available endpoints, modulo its
   length. When a request of the call makes the list shorter, the next one can return to an endpoint
   already tried, and the call raises although another was never asked. It takes three endpoints;
   with two the property holds, which `rpc` checks under two callers.

### Observed, without a run of their own

Modelled as the code does it, and excluded from the properties by name where they matter:

- `InMemoryBus.publish` spends the key of a message it refuses, so it cannot be published again
  (`refused` in `PolledIsKept`);
- `InMemoryBus` and its users never learn of an eviction (`evicted` in `PolledIsKept`);
- a reorg below the polled head is detected, counted and reported again at every poll of that head;
- a block of a replaced fork can be confirmed: the consistency check follows parent links downwards
  from the candidate, not from the head;
- a turn polls up to four blocks where the comment says three, and skips the rest;
- a restart forgets the processed height; the checkpoint store is not consulted;
- a turn whose listener raised still counts its blocks as scanned;
- `RedisStreamsBus.publish` checks for duplicates only among *consumed* keys, so two publications
  before the first consumption are both delivered;
- it acknowledges before the message is processed, so a crash loses the batch in hand, and an
  acknowledgement that raises after it took effect loses one message that no pending list names;
- `process_block` swallows errors, so a block can pass for processed without any rule having seen it,
  and neither the breaker nor the limiter hears of it;
- a commit of `save_incident` that takes effect and raises leaves an incident stored and unannounced
  (`unheard` in `StoredIsAnnounced`);
- two responses that need approval in the same second share an id, and the first leaves the list;
- an unpause is recorded as a success without a transaction;
- two protocols that share a name share their responses: a response is matched to the first protocol
  with its name *or* contract, at the request and again at the approval. `ReportedPauseIsReal` says that
  a reported pause is one of a protocol that is registered then and fits the record, not that it is the
  one that was meant;
- `_pause_contract` pauses `pause_contract` where there is one, while the record and the protocol list
  name the main contract;
- failing `get_logs` never trips a breaker with a threshold above one: each turn's
  `get_block_number` answers first and resets the count;
- the finality callback asks `DatabaseService` for `get_incidents_by_block`, which does not exist,
  and ends in its `except`: `ReorgInvalidatesIncidents` states what its docstring promises, and no
  run checks it;
- the runtime plane's cursor starts at block 0 and only moves at a block with transactions: five empty
  ones in a row (`NoLongGap` in `BlocksAreReached`) stop the source for ever;
- a simulation's result is evaluated by `invariant_engine.evaluate` (`runtime_engine.py:308`), which
  `InvariantEngine` does not have; the `except` below it returns no violation, so no predicted
  incident is ever created;
- the simulator of every chain starts its process at port 8545 by default;
- the endpoints' "Exponential backoff" (`rpc_client.py:81`) is a constant cooldown, and an answer with
  a 5xx status counts as two failures;
- a request that outlives its caller's `wait_for` is cancelled before the session's timeout of equal
  length, so a hanging endpoint is not recorded as failing (`Abandon`);
- the alert and the response of an incident carry the id of the call, which differs from the stored
  one when `save_incident` found an older incident of the key.

## 4. What is proved

For every value of the constants that satisfies the modules' assumptions:

| Theorem | States |
|---|---|
| `FinalityTracker_proofs!TypeCorrect` | types, including that the window only holds recorded blocks |
| `FinalityTracker_proofs!FinalityThreshold` | nothing is confirmed less than `Confirmations` below a head seen |
| `FinalityTracker_proofs!ConfirmedViewsAgree` | no block above the confirmed height is marked CONFIRMED |
| `FinalityTracker_proofs!WindowIsBounded` | the window is bounded around the polled head |
| `FinalityTracker_proofs!ReorgsRollBack` | after a reorg nothing above its head's threshold is confirmed |
| `FinalityTracker_proofs!SteadyChainsConfirm` | twice `Confirmations` heads in a row get a block confirmed |
| `EventPipeline_proofs!BusTypeCorrect` | types; the queue never exceeds `MaxSize` |
| `EventPipeline_proofs!BusAtMostOnce` | waiting and handed-out messages never share a key |
| `EventPipeline_proofs!BusAccountsForAccepted` | an accepted message is in exactly one place |
| `EventPipeline_proofs!BusImplementsEventBus` | `InMemoryBus` implements `EventBus`, step by step: only a full bus refuses or gives up a message |
| `EventPipeline_proofs!PipelineAtMostOnce`, `PipelineAccountsForAccepted`, `PipelineImplementsEventBus` | the same of the bus inside the pipeline |
| `EventPipeline_proofs!PipelineTypeCorrect` | types of the events table, the seen set and both loops |
| `EventPipeline_proofs!RulesSeeAnEventOnce` | one evaluation per event, and one more for each restart and each cut of the seen set, and cuts are far apart |
| `EventPipeline_proofs!PolledEventsAreKept` | one failing save leaves no transaction whose event the queue took without a row or a message on its way |
| `RedisStreamsBus_proofs!TypeCorrect` | types |
| `RedisStreamsBus_proofs!HandedOnce` | an entry is handed to one worker, once |
| `RedisStreamsBus_proofs!ReturnedWasRecorded` | what is returned is recorded and acknowledged |
| `RedisStreamsBus_proofs!FaultsCostBatches` | a crash or a failing call costs at most `BatchSize` entries; a failing call at most one that is not pending |
| `RedisStreamsBus_proofs!StreamsImplementWorkQueue` | `RedisStreamsBus` implements `WorkQueue`, step by step |
| `ChainIngestion_proofs!IngestionTypeCorrect` | types, including those of breaker and rate limiter |
| `ChainIngestion_proofs!NoBlockIsStoredTwice` | blocks counted as scanned are different ones until a restart |
| `ChainIngestion_proofs!FewAreUnheard` | of the stored blocks the rules miss at most four per turn with a fault, swallowed errors included |
| `ChainIngestion_proofs!NoGapCloseToHead` | a worker at most four blocks behind passes over no block |
| `ChainIngestion_proofs!ProbesDecide` | a half open circuit is closed only by an answer, reopened for longer by a failure, and left to a later probe by a rate limit |
| `IncidentStore_proofs!TypeCorrect` | types of both tables and of every call's state |
| `IncidentStore_proofs!RecordNamesIncident` | a PROCESSED record names an incident that is stored, about to be, or lost with its call |
| `IncidentStore_proofs!ProcessedStays` | such a record is final while calls of its key do not overlap |
| `IncidentStore_proofs!DecisionsSurvive` | decisions are kept while calls of the key neither overlap nor fail |
| `IncidentStore_proofs!OverlapBoundsDuplicates` | a key has at most as many incidents as calls of it overlapped |
| `IncidentCreation_proofs!IncidentsAreSpaced` | incidents of a detector, and of an event's rules, keep their windows |
| `IncidentCreation_proofs!SuppressedWasSaved` | the caches hold back only what was saved or recorded |
| `IncidentCreation_proofs!StoredWasAnnounced` | all stored serious incidents but one for each lost answer of a commit and each restart were or will be announced |
| `Guardian_proofs!PendingResponsesAreOpen` | a pending response is an undecided one of the history |
| `Guardian_proofs!DecisionsAreFinal` | a decided response never changes |
| `Guardian_proofs!LargeLossesAreApproved` | a large loss is acted on only after approval |
| `Guardian_proofs!ReportedPausesHappened` | a reported pause was done for a protocol registered then that fits the record, shared names and replaced registrations included |
| `Guardian_proofs!CooldownHolds` | manual pauses without override keep the cooldown |
| `RuntimeRpc_proofs!PlaneTypeCorrect` | types; a cycle only asks for blocks of the chain |
| `RuntimeRpc_proofs!BudgetHolds` | no window sees more simulations than the budget |
| `RuntimeRpc_proofs!FaultsAreCheap` | a fault costs the engine fewer than `MaxBlocks` blocks |
| `RuntimeRpc_proofs!ProviderTypeCorrect` | types of the provider and its callers |
| `RuntimeRpc_proofs!ColdEndpointsRest` | an endpoint in its cooldown is asked only when all are in theirs, and then the first to leave it |
| `RuntimeRpc_proofs!LoneCallsTryAll` | of at most two endpoints, with three tries or more, a call that no other overlaps asks every available one |

**Finality tracker.** The invariant is `TypeOK /\ ConfirmedHasDepth /\ ConfirmedBelowMark`.
`ConfirmedBelowMark` alone is not inductive without the types of the window, and it is preserved by
a roll back only under `DepthAssumption`, `MaxReorgDepth >= Confirmations`: a reorg at head `n`
lowers the mark to `n - Confirmations - 1` and marks the blocks from `n - MaxReorgDepth` on as
reorged; were that set the smaller one, a block between the two would stay CONFIRMED above the mark.
The worker uses 12 for both when the configuration has no `finality` entry, and none of the chains
in `config/chains.yaml` has one; `scripts/test_phase1_finality.py` uses 12/12 and 5/10. One lemma
says for each helper of `update_head` (record, mark, prune, confirm) that it yields a window and
which blocks it can newly leave CONFIRMED; the step lemma composes them in the code's order.

`WindowIsBounded` adds that the tracker knows no block above the tip (`WindowIInv`): a polled head
lags it by at most `HeadLag`, and pruning at that head removes what lies too far below.

`SteadyChainConfirms` needs to know that the heads of a streak are all in the window, each linked to
the one before it (`StreakIInv`): recording a head that is no reorg links it to its predecessor
(`StreakRecorded`), pruning stays below twice the confirmations because `MaxReorgDepth` is not the
smaller one (`StreakPruned`), and a full streak reaches down to the last block that
`_is_hash_chain_consistent` looks at (`StreakConfirms`).

**Bus.** The invariant is `BusTypeOK /\ AtMostOncePerKey /\ AcceptedIsAccountedFor`. Each of the
last two needs the other: that a new key is not in the queue follows from what is waiting having
been accepted, and that accepted messages had their key spent. The lemmas about `Append`, `Tail` and
`SubSeq` say what they leave in the queue. The refinement maps `waiting` to the queue's elements,
`handed` to `delivered` and `spent` to `processed_keys`; an eviction is a `Publish` that loses a
message. That only a full bus loses or refuses one needs that the queue is as long as the set of its
elements is large (`QueueCounted`): it holds no key twice, so its places are a bijection.

**Event pipeline.** Its types (`PipelineTypeCorrect`) need that a save which writes the row of a
transaction finds a first event of it in the batch (`LeastPosition`). Every step of the pipeline is
a step of the bus or leaves it alone, so the bus's theorems carry over: `Spec => BusSpec` is the
lemma, `Restart` being `BusClose`. `EvaluatedOnce` needs that an event counts as seen no later than
it is evaluated, so that each evaluation is matched by a restart, a cut, or the event being in the set,
and that the set grows by one with each handled event: its cardinality and `SeenLimit - SeenKept + 1`
for every cut are at most `handled` (`PipelineIInv`). `PolledIsKept` is the deepest: an event is *safe* when its
transaction has a row or its key is still on the second way, and `KeptIInv` says that every polled
event is safe or in Loop A's hands, that every key the bus knows is that of a safe event, and that
an event without a row has used up one failure. The second is what a publication that is refused as
a duplicate needs, the third what a batch save that fails needs. It holds only if a key determines
its transaction, as a hash over it does (`PipelineAssumption`).

**Redis Streams bus.** What a worker holds in its batch is pending for it alone, and once
(`BatchIsPending`, `BatchIsDistinct`): XREADGROUP moves the group's cursor and assigns in one step.
From there an entry goes through recorded, acknowledged, collected and returned, and each part of
`StreamIInv` ties one of these to the ones before. For the cost of faults `LossIInv` bounds what is
collected and still in the batch by `BatchSize`; a crash abandons no more than that, a failing call
the one message it was about or the batch it did not receive, and every other step takes from
`Missing` or leaves it. `Forgotten`, what is missing and not pending either, grows by what a crash had
collected and by one message for a lost answer of XACK.

The refinement of `WorkQueue` maps what a worker holds to its batch together with what it has
collected, so that an acknowledgement, which moves an entry from one to the other, is a stutter
(`SplitBatch`); a skipped message and a crash are `Lose`, the return of `consume` is `Deliver`. What
waits is what neither the group's cursor nor the trimming has passed: `Unread` is its beginning, and
nothing before its end is left behind (`UnreadFacts`).

**Chain ingestion.** Until the first restart all stored blocks lie at or below the processed one
(`ProcessedIsLast`), so the blocks of a turn are new and are counted with their cardinality; a turn
has at most four, which also bounds those the listener missed. The other half of the module is about
the two guards. One lemma for each of their operators says which fields it changes and that the rest
keeps its type; with these `ProbeFails` shows that a probe that fails doubles the cooldown whether
or not the breaker was observed before, since observing a half open breaker again leaves it as it
is.

**Guardian.** `ResponseIInv` joins the types, `PendingIsOpen` and `LargeLossIsApproved`. All that
writes the history is described by `HistoryStep`: nothing happens to it, a record is added, or a
pending one is decided; each action is shown to be one of these, with what a reported pause needs.
Decisions are final because only pending records are rewritten and those are undecided.
`ReportedPauseIsReal` is a property of steps, because a registration may be replaced afterwards: the
protocol a pause was done for is the first one that matches, and that there is a first one is
`LeastPosition`, from the well-foundedness of strict inclusion. Nothing is assumed of names and
contracts. The cooldown needs that every manual pause is no later than the last attempt of its protocol
(`CooldownIInv`), which also holds across initializations and registrations.

**Incident creation.** An incident of a detector is in the cache of its key, or hidden there by a
later one, or its window is over (`Cached`), whatever was purged: entries leave at an hour, and no
window is longer (`CreationAssumption`). The call in hand is spaced from all of them (`Handled`), as
time only adds to it. `VouchedIInv` adds the id in hand to `SuppressedIsStored`. `StoredIInv`
says that the id in hand is new until its row is stored, and whose row the call in hand accounts for;
`CountIInv` counts the stored serious rows nobody accounts for (`Silent`): only a lost answer of a commit
or a restart adds one (`SilentGrows`), and an announcement adds none (`SilentShrinks`).

**Incident store.** The invariant joins `NamedIsStored` with what the calls know of the tables:
a record that is not PROCESSED names no incident (`MarkForm`); `mark_processing` only goes on to
write over what it did not read as PROCESSED (`LoadedIsOpen`); an updating call has found a stored
incident of its key (`FoundIsStored`); a flushed insert holds its id until it commits or fails
(`IdReserved`). With these, each write leaves the old record, a FAILED one, or one that names the
writing call's incident (`MarkedFacts`). A commit whose answer is lost is a commit for all of
them. `ProcessedStays` needs two more: what `overlap` counts
(`AloneAtWork`), and that a call working alone writes over what it has read (`LoadedIsCurrent`).
`DecisionStands` is about updates, so `QuietIInv` shows that there are none: while calls of a key
neither overlap nor fail nor find the pool empty, what is stored is recorded PROCESSED before the
next call looks, and that call returns early. `CountIInv` counts: the rows of a key and its open
inserts together never exceed the most calls of the key at work, and a call only becomes an insert
while no row of its key is stored. All of these hold for every `PoolSize`. The assumptions are that
finitely many calls exist and that `NoId` and the absent key are no id and no key.

**Runtime plane.** The types tie the phases to the cursor: a cycle that fetches is past the cursor,
within the chain and below its limit (`PlaneTypes`). The check of the budget only sees the timestamps
that are still listed; `BudgetIInv` says that these include every simulation of the window, which the
cleaning keeps because it drops nothing younger than `Kept`, and `Window <= Kept`.
`FaultsCostFewBlocks` is not inductive: in the middle of a cycle the cursor lies behind blocks that
were already missed. `FaultIInv` speaks of the last block the cycle has decided about (`Examined`), and
of the block it began with (`CycleFrom`): what was undelivered before the cycle is paid for by the
faults before it, and a cycle that goes wrong adds less than `MaxBlocks` blocks. With cycles of one
block a missing block is fetched again, and a fault costs nothing.

**RPC provider.** A selection takes the endpoint at a place of a sorted list; that there is one is
`NthExists`: no two endpoints have equally many ahead of them, each has fewer than there are, and an
injection between finite sets of one size reaches every place. From there on a request goes to an
endpoint of the list (`ProviderSound`). `CoolingRests` needs `RestSound`, that an endpoint whose
cooldown is not over rests unless it has answered since. For `LoneCallTriesAll` the invariant follows
the one call (`LoneCall`): the request in hand is the last one needed; or the index points at the place
of its endpoint, so that the next request goes to the other one; or the failure has made the endpoint
unhealthy and moved it in the list, where a second failure leaves it. That case takes a third try, and
the theorem asks for `MaxRetries >= 3`, which is the code's default. It asks for at most two endpoints
because the property is false for three (`rpc_failover`).

**Only model-checked:** the liveness properties, `CatchesUp`, `EveryEntryReturned`, `QueuedIsSaved`,
`SavesEnd` and `BlocksAreReached`: fairness and ENABLED are out of TLAPS's reach. Every invariant,
action property and refinement that a passing run checks is a theorem. No module has a RECURSIVE
operator.

## 5. What the models leave out

- *Data.* Payloads, severities, scores, amounts, transaction contents. A loss in `Guardian` is below
  or at the threshold; severities other than critical and high never leave a record there.
- *Time* is counted in small ticks; only order and the ends of cooldowns and backoffs matter.
- *The growth of `processed_keys`*, which is never cleaned.
- *Blocks of the runtime plane whose transactions fail to convert* (`pseudo_block.py`): conversions of
  single transactions are taken to succeed.
- *A restart of the API process*, which forgets all the state `Guardian` keeps.
- *The moment the hour of a cluster key is taken*: `IncidentCreation` takes it when the caches are looked
  up, the code a few lines later in the same call.
- *The schema.* Constraints that matter are in the actions (the unique key of events, the unique
  incident id); the missing one on `cluster_key` is the reason for `DuplicatesOverlap`.
- *Redis Streams' own crashes.* Redis is taken as reliable; calls to it may fail, with or without their effect.
- *Parsing, classification, enrichment* of logs before they are saved.
- *The quorum mode* of the RPC provider and `update_head_lag`, which have no caller.
- *The analyzer's verdicts and severities* in `IncidentCreation` are choices, as is which rules match.
- *Alerts and responses* started by `IncidentCreation` are tasks of their own; that they start is
  modelled, that they are delivered is not.

## 6. Plan

Done: FinalityTracker, EventBus and InMemoryBus, RedisStreamsBus, ChainIngestion, EventPipeline,
IncidentStore with its pool, Guardian, IncidentCreation, RpcProvider and RuntimePlane; the abstract
EventBus and WorkQueue with their refinements; proofs of every property but the liveness ones.

What would come next, in this order:

1. `RpcProvider` composed with `ChainIngestion` in place of the free choice of outcomes.
2. `IncidentBuilder`: clustering and auto-resolution, should the worker come to use it.
3. Totals of the invariant engine (lock and mint per bridge, velocity windows) against a reference
   definition, once the worker feeds it events it can judge.
4. The runtime bus (claim, dead letters, nack), should anything come to use it.
