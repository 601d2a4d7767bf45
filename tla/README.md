# TLA+ models of the bkmonitor-datalink mock-topology generator

This directory holds TLA+ models of the Python code under `src/`, and the TLC
configurations that check them. Most of the models cover
`src/pkg/unify-query/script/000.mock_resource_query_relation/001.mock_bkop_business_traffic.py`
(below: *the generator script*). That script fills a SurrealDB graph with a
synthetic Kubernetes topology and the metric metadata attached to pod-to-pod
traffic. The script's docstring and spec sections 3–4 promise that it is
**idempotent**: you can run it again and again, and a re-run duplicates no data
and never overwrites a `created_at`.

## 1. Inventory

### Components of the generator script

| Component | Code | State it keeps | Operations |
|---|---|---|---|
| Resource schema | `ResourceType`, `RelationType`, `ResourceIndexFields` (202–264) | none (constant tables) | `get_fields` |
| Identifier scheme | `IDGenerator` (271–303) | none | `generate_node_id`; `generate_directional_relation_id` (never called) |
| Storage client contract | `StorageClient` (310–358), `SurrealDBClient` (365–525), `BKBaseClient` (532–719) | the remote SurrealDB database, plus an HTTP session | `execute_sql`, `format_datetime`, `upsert_node`, `batch_upsert_nodes`, `upsert_relation` |
| Graph generator | `MockGenerator` (726–1315) | registry `resources`, `traffic_relations`, `current_time` | `create_*` stages, `generate_all` |
| Metric synthesizer | `generate_metric_values` (1171–1270) | output file `./metric_samples.json` | one series set per traffic pair |
| Entry point | `create_storage_client`, `main` (1322–1442) | none | connection test, run, exit code |
| Configuration | `.env` cascade, `MockConfig`, `*Config` (60–195) | environment | read at import time |

**How they interact.** `main` builds a client, sends a test query, and calls
`generate_all`. That function runs 11 stages in a fixed order:

1. biz
2. cluster
3. namespace
4. nodes (batch)
5. pods (batch)
6. services (batch)
7. deployments (batch)
8. static relations: the deployment → replica set → pod chain, then node_with_pod, then pod_with_service
9. pod_to_pod traffic
10. metric definitions
11. relation_has_metric

Every stage is a sequence of blocking storage calls. Each call builds SurrealQL
text and sends it in one HTTP request. The first exception ends the run, and
`main` returns 1. Nothing runs concurrently inside one run.

The database is the only state that outlives a run. The documented recovery is
to run the script again.

**Store semantics the code relies on.**

- `UPSERT t:\`id\` SET …, created_at = created_at OR <t>, updated_at = <t>`
  creates or updates one record. It keeps an existing `created_at`.
- A batch wraps its UPSERTs in `BEGIN/COMMIT TRANSACTION`, so it is all or
  nothing.
- `RELATE a->kind->b SET …` names no edge id, so it creates a new edge on every
  call.
- `SELECT id FROM pod_to_pod` returns the ids of every pod_to_pod edge in the
  store, written by any run.

**What is hard.**

- A failure at any call, then a re-run: partial state plus repetition.
- A request that the store applied but whose answer was lost.
- The order of the stages: a relation must never point at a record that is
  not there.
- The partition arithmetic (integer division, remainder, zero groups).
- IndexError and ZeroDivisionError raised by the code late in a run.
- How the SELECT result is used.
- Native requests have no timeout (BKBase has 60 s).

**Properties that make it correct.**

- **Store / client:** once a node record exists, its `created_at` never
  changes, and `updated_at` never goes back. A batch is atomic. A repeated
  `upsert_relation` does not duplicate its relation (spec 4.2).
- **Generator:**
  - Every relation points at stored records.
  - A successful run writes the exact static topology of spec 4.3: each pod has
    one node (round robin), one service and one replica set, and each deployment
    has one replica set.
  - Every relation_has_metric edge hangs off a stored pod_to_pod relation.
  - Configuration errors fail before anything is written.
  - A full run writes three relation_has_metric edges per traffic relation it
    generated (spec 8.6).
  - Every run ends.
- **Configuration:** every setting the client runs with comes from the
  highest source of the documented precedence for that client's backend
  (environment > `.env.<backend>.local` > `.env.<backend>` > `.env`).
- **Identifier scheme:** the same entity always gets the same id, and different
  entities get different ids (spec 8.1, 8.2).
- **Metric synthesizer:** one flow_error sample per flow_total sample, and one
  series set for each relation that carries metric edges.

### Other components of the repository

| Component | Code | State | Why it matters |
|---|---|---|---|
| CMDB bulk loader | `src/pkg/transfer/tools/cmdbtest/insert_cmdb.py` | MongoDB collections, `cc_idgenerator` SequenceIDs, module-global IP counters | SequenceID is read before the inserts and written after them, so a crash in between lets the next run reuse ids |
| Consul test-env deployers | `src/pkg/influxdb-proxy/testdata/test_env_deploy.py`, `src/pkg/transfer/tools/transfer_test/transfer_test.py` | Consul KV | delete-then-put, and an exception in the middle leaves a partial configuration |
| Feature-test harness | `src/pkg/bkmonitorbeat/script/featuretest.py` | echo servers, child process, stdout pipe | waits for the child's exit before reading its pipe |
| Commit-message hook | `src/scripts/pre_commit/check_commit_message.py` | none | on the missing-argument path, `0` is used as a string |

`PROJECT.json` lists every component with its status, and every hazard at the
source line where it bites.

## 2. Modules

| Module | Models | Source |
|---|---|---|
| `StorageClient` | the store, and what each request does to it | `SurrealDBClient`, `BKBaseClient` |
| `MockGenerator` | the generator script, run after run, with the client's call outcomes | `MockGenerator`, `main` |
| `IdempotentStore` | the abstract store the spec promises (no code; the refinement target) | spec 3, 4.2, glossary |
| `MetricSeries` | the values of one traffic pair's flow_total and flow_error series | `generate_metric_values` |
| `CmdbLoader` | `insert_cmdb.py`'s load of businesses, sets, modules and hosts | `batch_insert_*` |
| `FeatureTest` | `featuretest.py`'s harness and the command it runs, joined by the stdout pipe | `main`, `ServerManager` |
| `ConfigCascade` | the generator script's `.env` cascade at import, the configuration classes reading it, and `--backend` in `main` | lines 71–151, `main` |
| `MCMockGenerator`, `MCMetricSeries`, `MCCmdbLoader`, `MCFeatureTest`, `MCConfigCascade` | TLC entry points; each `.cfg` gives the sizes | |

### `StorageClient.tla`: the store as the clients drive it

- **Variables:**
  - `nodes`: record id → `[created, updated]`, or `Absent`.
  - `edges`: the set of edge records `[id, kind, from, to, created, updated]`.
  - `edgeSeq`: the source of fresh edge ids, like SurrealDB's random id.
- **Requests.** `Request` is the SurrealQL text of one `execute_sql` call, kept
  as what it does: `ReadReq` (INFO FOR DB, SELECT), `UpsertReq(ids, t)` (one
  UPSERT, or a batch in one transaction) and `RelateReq(kind, from, to, t)`.
  `NoReq` means the client is not waiting on the server.
- **Server steps.** `Apply(r)` executes a request: `UpsertedRecord` is the
  `created_at OR` rule, `Upserted` a batch, `NewEdge` what one RELATE creates.
  `Reject(r)` is an error status; `RolledBack` is a failed transaction.
- **Read:** `SelectIds`.
- **Timestamps:** abstracted to the number of the run that supplied them.
  - Every time a run passes lies in that run's window (`START_TIME..END_TIME`).
    `updated_at` is the run's `END_TIME`, and later runs have later windows.
  - Where a run's random `created_at` falls inside its window does not matter
    to any property checked here.

### `MockGenerator.tla`: the generator, run after run

This module instantiates `StorageClient` (`SC == INSTANCE StorageClient`) over
the same variables.

- **Generator variables:**
  - `run`: the run number.
  - `pc`: the stage, or one of its sub-steps.
  - `i`, `j`: the loop indices.
  - `traffic`: `self.traffic_relations`.
  - `selected`: the SELECT result.
  - `samples`: the pairs written to `metric_samples.json`.
  - `failures`: the number of failed or held calls (bounded by `MaxFailures`).
  - `lastExit`: how the last run ended.
  - `hung`: the request the client is blocked on in `session.post`, or `NoReq`.
  - `late`: writes whose client gave up and which the server may still apply.
  - `numNodes`, `numDeployments`, `backend` (`cfgVars`): what the process read
    at its start. `MockConfig` reads `NUM_NODES` and `NUM_DEPLOYMENTS` from the
    environment when its class body runs, and `main` parses `--backend`, so
    each run picks them anew from `NodeChoices`, `DeploymentChoices` and
    `BackendChoices`.
- **Control flow:**
  - `Stages` is the call order of `generate_all`. `NextStage` moves through it.
  - There is one action per stage, and one action per storage call inside a
    loop.
  - The loop-advance steps are separate actions (`ChainNextDeployment`,
    `PodWithServiceNext`, …).
- **Storage calls.** Every call goes through `StorageCall(r, continue)`, which
  has four outcomes:
  - answered: the write happens and the run continues;
  - rejected: nothing is written and the run aborts;
  - applied, answer lost: the write happens and the run aborts;
  - held: the server does not answer and the client blocks (`hung' = r`).
- **The server, for a held request.**
  - `Resume`: the server gets to it, and the call then has one of the outcomes
    above.
  - `Timeout`: only if `HasTimeout(backend)`. BKBase posts with `timeout=60`
    and the native client has no timeout. The run aborts, and a held write
    goes into `late`.
  - `LateApply`: the server applies a late write at any later time, including
    during the next run.
- **Backend.** `backend` is `"native"` or `"bkbase"`, per run. Both clients
  send the same SurrealQL, so they differ only in the timeout.
- **Code errors.** Python errors of the generator itself abort through
  `CodeError`:
  - the `IndexError` for more deployments than `SERVICE_LIST` names;
  - the `ZeroDivisionError` for pods with no nodes.
- **Entity ids.** The id of the i-th entity of a kind is `Rid(kind, i) = <<kind, i>>`;
  `NodeIds` holds the ids of the largest configuration any run may choose.
  This assumes that `generate_node_id` is injective on the values the generator
  builds. That holds for the default configuration, because within one kind only
  the last index field varies and it is a distinct name.
- **Registry.** It is not a variable. After its stage, the registry entry of a
  kind is exactly `Ids(kind)`, and the later stages read only that.
- **Random choices.** The probability draw and the target pod of
  `create_dynamic_relations` are nondeterministic (`PodToPod` / `NoTraffic`).
- **SELECT result order.** The SELECT result is taken in edge-creation order
  (`ByNumber`). Order only affects which metric edges an aborted run leaves.
- **Fairness.** `FairSpec == Spec /\ WF_vars(ClientStep)`. `ClientStep` is
  every step of the script's one thread, the requests library's timeout
  included. That thread is never starved: when it can take a step, it does.
  - Nothing is assumed of the server. `Resume` and `LateApply` are not fair,
    because a server may hold a request forever.
  - Nothing is assumed of the operator. `StartRun` is not fair.
- **Refinement.** `Idem == INSTANCE IdempotentStore WITH anodes <- nodes,
  rels <- {<<e.kind, e.from, e.to>> : e \in edges}, clock <- run`, and
  `IdempotentStoreSpec == Idem!ASpec` is checked as a PROPERTY.

### `IdempotentStore.tla`: what the client promises

This is the store as the spec states it. It has no requests, failures or edge
records.

- `anodes`: id → `[created, updated]`, or `Absent`.
- `rels`: relation keys.
- `clock`: the current run.

A `WriteNodes` step stamps some records with one time `t ≤ clock`:
- an existing record keeps `created`;
- `updated` never goes back.

`AddRelation` adds one key, and `Tick` advances time. Relations are a set, so
a RELATE that duplicates an existing relation refines to a stutter. Because of
that, the duplicate-edge finding is checked separately, by
`NoDuplicateRelations`.

### `MetricSeries.tla`: one pair's series

- **Loops.** The two loops of `generate_metric_values` run in order, one step
  per point. `FlowTotalStep` draws an increment from `Increments`, and
  `FlowErrorStep` draws a rate `num / RateDen`.
- **`int(total * rate)`.** `ErrorsOf(total, num)` models it: `Trunc` is Python's
  truncation. When the exact product is a whole number, the float product may
  land just below it (`100 * 0.29 = 28.999999999999996`), so both that number
  and the one below are possible.
- **Left out.** The `flow_seconds` gauge is an independent draw per point, with
  no state, and is not modelled.

### `CmdbLoader.tla`: insert_cmdb.py

- **Collections.** Each collection is a bag (`BagAdd`), because `insert_one`
  checks no uniqueness.
  - `seqId` holds `cc_idgenerator`'s SequenceID per table.
  - `hostDocs` holds `[id, ip, run]`.
  - `configDocs` holds `[host, module]`.
- **The process.**
  - `pc` is the next MongoDB call.
  - `bizs` and `bi` form the outer loop.
  - `base` and `cur` are a batch's `ll/l`, `ss/s` or `mm/m`.
  - `hBase` and `hCur` are the host loop's `ii/i`.
  - `ip` is the local `a.b.c.d`; `gip` holds the module globals `aa..dd`.
- **Steps.** There is one action per MongoDB call:
  - `ReadSeq` reads a SequenceID;
  - `BizInsert`, `SetInsert`, `ModuleInsert`, `HostInsert` and
    `HostConfigInsert` insert a document;
  - `WriteSeq` and `HostSeq` update a SequenceID.
- **Crashes and runs.**
  - `Crash` ends the process before any call.
  - `StartRun` is a new process, so the globals go back to `20.0.0.0`.
- **Numbers.**
  - `NextIp` is the three carry `if`s.
  - `MoreHosts(n) == n * NumBiz < TotalHosts` is the loop test
    `i < ii + host_count`, where the host count is the float `600000/20`.

### `FeatureTest.tla`: the feature-test harness

- **Two processes.** The harness (`hpc`) is `main()`: `FirstPoll`, `Spawn`
  (`Popen(..., stdout=PIPE)`), `ServeLoop` (the `while process.poll() is None`
  loop around `poll_and_do`), `Shutdown`, `CheckStatus` and `ReadOutput`. The
  command (`cpc`) is the other process. Per probe it does `Send` to one echo
  server, then `Echo` or `ProbeTimeout`, then `WriteResult`; at the end it
  does `ChildExit`.
- **Servers.** `pending` holds each server's queued requests, and `echoed`
  the probes that were answered. `PollAndDo` serves one request per ready
  server, as `_handle_request_noblock` does. A poll that finds nothing ready
  changes nothing, so it is a stuttering step.
- **The pipe.** `pipe` is a sequence of at most `PipeCap` result lines (the
  pipe buffer divided by the line size). `WriteResult` is enabled only while
  there is room. Nothing reads the pipe before the command has exited.
- **Exit status.** `sys.exit(-abs(code))` is modelled by what it does:
  `ExitStatus(n) == n % 256`. `import html` exists only on Python 3, where
  `info.has_key` raises AttributeError, so `ReadOutput` ends with status 1 on
  the first line.
- **Exit test.** `process.poll() is None` is "the command has not exited",
  so `ServeLoop` and `Shutdown` test `cpc` against `"exited"`.
- **Fairness.** `WF_vars(HarnessStep) /\ WF_vars(ChildStep)`: these are two
  operating-system processes, and each one that can run eventually does.

### `ConfigCascade.tla`: where a setting comes from

- **Inputs (Init).** `argv` is `sys.argv[1:]`, from `ArgvChoices`. `files`
  says what each of the five files sets (`.env`, `.env.native`,
  `.env.bkbase`, and the two `.local` files); an absent file sets nothing.
  `explicit` is the process environment at start, and `dotenv` says whether
  python-dotenv is installed.
- **Keys.** `STORAGE_BACKEND`, and `Setting`, which stands for any one
  connection setting the client reads (`SURREAL_URL`, `BKBASE_API_URL`, …).
  A value of `Setting` is the name of the source it came from, so the checked
  property can tell the sources apart.
- **`Import`.** This is the whole import-time block, in code order:
  - `CascadeBackend` is the backend whose files are loaded. `ScannedBackend`
    is the argv loop, which takes the token after the first `--backend` that
    is not last. Otherwise it is `STORAGE_BACKEND`, otherwise `native`.
  - `LoadDotenv(e, path, override)` is `load_dotenv`: it writes every key the
    file sets, except that `override=False` keeps a key already present. It
    is applied to `.env` (False), then `.env.<b>` (True), then
    `.env.<b>.local` (True).
  - On `ImportError`, nothing is loaded.
  - Finally, the class bodies of `SurrealDBConfig` and `BKBaseConfig` read the
    setting.
- **`ParseArgs`.** This is argparse in `main`. `ParsedBackend` takes the last
  `--backend X` or `--backend=X`. Otherwise it takes the default,
  `os.getenv('STORAGE_BACKEND', 'native')`, read after the cascade.

## 3. Runs

`CHECK_DEADLOCK FALSE` is set everywhere, because the programs really
stop: the two loaders after their last run, and the harness after its exit.
`ConfigCascade` stops once the client is built, which is where its property
is decided.

| Run | cfg (module) | Expect | What it shows |
|---|---|---|---|
| generator_safety | `MCMockGenerator.cfg` (MCMockGenerator) | pass | Native backend; 2 nodes, 3 pods, 2 services, 2 deployments; 2 runs; any one call failing or held. Checks `TypeOK`, `BatchAllOrNothing`, `GraphEdgesReferToNodes`, `StaticTopologyExact` and `IdempotentStoreSpec` (refinement). About 248k states, about 1 min. |
| config_change | `MCConfigChange.cfg` | pass | `NUM_NODES` ∈ {0, 1} and `NUM_DEPLOYMENTS` ∈ {0, 1, 3} chosen anew by each of 2 runs; 2 pods, 2 services; one failing or held call. The backend is BKBase, with its timeout and late writes, under `FairSpec`. This covers the empty batches, the skipped chain, ZeroDivisionError and IndexError, on top of the records of an earlier, different run. Checks `TypeOK`, `BatchAllOrNothing`, `GraphEdgesReferToNodes`, `StaticTopologyExact` and the liveness `RunEnds`. About 99k states, under a minute. |
| duplicate_relations | `MCDuplicateRelations.cfg` | violation | `NoDuplicateRelations`: a re-run writes a second copy of a relation, because RELATE has no id. |
| dangling_metric_edges | `MCDanglingMetricEdges.cfg` | violation | `MetricEdgesReferToRelations`: the edge starts at `pod_to_pod:\`pod_to_pod:<key>\``, which is not the relation. |
| metric_edge_count | `MCMetricEdgeCount.cfg` | violation | `MetricEdgesMatchTraffic`: run 1 writes one traffic relation; run 2 writes none but attaches the three metric definitions to run 1's relation. |
| late_write | `MCLateWrite.cfg` | violation | `IdempotentStoreSpec`, with either backend per run. Run 1's held upsert times out. Run 2 writes the record with updated = 2. The server then applies run 1's upsert, and updated drops back to 1. |
| native_hang | `MCNativeHang.cfg` | violation | `RunEnds` on native. A held request is never answered and nothing times out, so the run never ends. |
| metric_series | `MCMetricSeries.cfg` (MCMetricSeries) | pass | 4 points, increments {10, 1000}, rates {0, 0.01, 0.05, 0.10}. Checks `TypeOK` (the series lengths and the reach of every loop step); the sum itself is a single `+=` of a positive draw and gets no property of its own. About 29k states. |
| cmdb_loader | `MCCmdbLoader.cfg` (MCCmdbLoader) | pass | 3 businesses, 6 hosts, octets wrap after 1, 2 runs, at most one crash. Checks `TypeOK`, `HostIpsUniqueInRun` and `HostTotalExact`. About 2k states. |
| cmdb_crash | `MCCmdbCrash.cfg` | violation | `InstIdsUnique`. A run dies after its first business insert and before the SequenceID write, so the next run inserts `bk_biz_id` 1 again. |
| pipe_deadlock | `MCPipeDeadlock.cfg` (MCFeatureTest) | violation | `HarnessEnds` under `FairSpec`. Three probes and a two-line pipe: the third write blocks, and the harness, waiting for the exit, has nothing left to serve. |
| config_precedence | `MCConfigPrecedence.cfg` (MCConfigCascade) | violation | `SettingsByPrecedence`, over 4 command lines, every content of the five files, and every process environment. TLC's trace: the environment has `STORAGE_BACKEND=bkbase` and the setting, and `.env.bkbase.local`, loaded with `override=True`, replaces the setting. About 750k states, 10 s. |

**Findings** (details in `PROJECT.json`):

- RELATE duplicates on every re-run.
- relation_has_metric edges hang off non-existent records.
- A re-run attaches metrics to earlier runs' relations (`:1148`, spec 8.6).
- A late BKBase write moves `updated_at` back (`:586`).
- The native client has no request ceiling, against spec §5 (`:389`).
- `insert_cmdb.py` reuses ids after a crash (`insert_cmdb.py:313`, and `:220`
  for hosts).
- `featuretest.py` deadlocks on a full stdout pipe (`featuretest.py:110`).
- The `.env` cascade lets a file override an exported environment variable
  (`:106`). The code's own comment (lines 64–67, 116–117) and spec section 6
  say the environment wins. The same override can change `STORAGE_BACKEND`
  after the files were picked. If the environment does not set the setting,
  TLC's trace is `.env.bkbase.local` setting `STORAGE_BACKEND=native`, and
  then `main` runs the native client with bkbase's files (`:1355`).

Further problems are reachable in the models, but no run checks them:

- **Configuration errors fail late.** `NUM_NODES=0` raises ZeroDivisionError
  in stage 8, and `NUM_DEPLOYMENTS > 3` raises IndexError in stage 7, both
  after earlier stages wrote. Spec 4.3 asks for them to fail fast, and spec 8.5
  expects 4 deployments to work. `config_change` fires both paths; a
  single-run test shows the divergence, so it has no run of its own.
- **`has_key` on Python 3.** A non-dry harness run exits 1 on the first
  output line, whatever the probes reported (`featuretest.py:122`).
  `FeatureTest` models it. The first such run shows it, so no run is spent on
  it.
- **The commit hook without its argument.** `check_commit_message.py` warns
  "skipped", then calls `startswith` on the int 0 and exits 1 (line 49). Git
  always passes the path, so this happens only when the script is run by hand.
- **The flow_error series.** It is declared a counter, but its samples can
  decrease (with totals 100 then 110 and rates 0.10 then 0.05, the samples are
  10 then 5). Spec §9 leaves this open.

**Why these bounds are enough.**

- **generator_safety: 3 pods over 2 nodes, 2 services, 2 deployments.** This
  exercises:
  - the round-robin wrap-around;
  - the remainder going to the last group;
  - every target choice of the traffic stage;
  - the has-metric loop over several relations.
- **Two runs and one failure.** That is enough for each of these:
  - a failure at any call, followed by a re-run over partial state;
  - a lost answer, followed by a repetition;
  - a held request that times out, and whose write lands anywhere in the next
    run.
- **config_change: smaller sizes.** The BKBase backend adds `hung` and
  `late`.
  - A bkbase instance of generator_safety's size does not finish in minutes.
  - `BatchAllOrNothing` allows a kind's stored entities to be any whole
    batch `1..c` of a count some run may choose. The union of whole batches
    is the largest of them.
- **OctetMax = 1.** It makes six hosts carry `d` into `c` twice. That is the
  carry logic at 254, reached with 6 hosts instead of 255.
- **config_change: 2 runs.** Each run picks its own counts, so one run can
  write a larger topology than the next. With 3 runs the state space grows to
  about 4 million states.
- **pipe_deadlock: 3 probes, 2 lines of pipe.** One line more than the pipe
  holds is the smallest case. The real buffer is 64 KiB, so a command whose
  output exceeds it is in the same state.
- **config_precedence: every input.** Two backends give five files. Each
  file sets the setting or not, and `STORAGE_BACKEND` to either backend or
  not. There are four command lines, including the `=` form that only argparse
  reads. Together these cover every way the scan, the files and argparse can
  disagree.
- **TotalHosts = 6 over 3 businesses.** This gives two hosts per module, so
  the host loop's bound is exercised on both sides.

**Mutants.** Every property of a passing run has a mutant in `PROJECT.json`
that TLC finds violating it:

| Mutant | Breaks |
|---|---|
| created_at overwritten | `IdempotentStoreSpec` |
| no transaction around a batch | `BatchAllOrNothing` |
| RELATE with its endpoints swapped | `TypeOK` |
| the chain before the deployments | `GraphEdgesReferToNodes` |
| no remainder in the partition | `StaticTopologyExact` |
| slice end one too far left | `StaticTopologyExact` (config_change) |
| no `timeout=60` in BKBase | `RunEnds` |
| one point too many | `MetricSeries` `TypeOK` |
| no octet carry | `HostIpsUniqueInRun` |
| an octet wrapping one step late | `CmdbLoader` `TypeOK` |
| `<=` in the host loop | `HostTotalExact` |

## 4. Not modelled, and why

- **The remaining arguments, the metric ranges and logging.** They have no
  state to model (spec section 1). `--debug` only sets the log level. The
  metric ranges and time window feed the random source, so they are the
  `MetricSeries` CONSTANTS. The cascade itself is `ConfigCascade`.
- **`format_datetime` and the SurrealQL text.** Timestamps and records are
  abstracted (see above). Quoting of values inside the SQL is not modelled.
- **The BKBase envelope.** The `result` flag and `data.list` are not modelled,
  because they do not change which writes happen.
- **Consul deployers and the commit-message hook.** `test_env_deploy.py`,
  `transfer_test.py` and `check_commit_message.py` each run once, straight
  through, with no other actor and nothing carried from one run to the next.
  One execution per input shows each of their paths, so a model checker adds
  nothing a test would not. Their hazards are listed in `PROJECT.json`.
- **The identifier string construction.** `generate_node_id` collides only on
  values that contain `,` or `=`, and a unit test on two such values shows it.
  The generator's own values are distinct names, so the models use `Rid`.
- **`insert_cmdb.py`'s unused functions.** `insert_host_to_target`, the
  deletes, and `inster_instance` are never called by the script.

## 5. Plan

The project holds 12 runs, and each of these needs a run slot in place of
one of them. Most important first:

1. **`IdScheme`.** `generate_node_id` over a small alphabet including `,` and
   `=`, with missing fields as `''`, against the reference definition of spec
   8.1 and 8.2.
2. **A pass run of `FeatureTest`.** With `--dry-run` and a pipe larger than
   the output, it would check `HarnessEnds` and that the exit status follows
   the command's.
3. **The flow_error counter.** It would be a violation run of monotonicity
   for `flow_error` in `MetricSeries`, once spec section 9 decides whether the
   series is a counter.
