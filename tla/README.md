# Registry V2 and the MLAT reference: a TLA+ verification project

The repository holds a public registry of infrastructure receivers on CKB
("Registry V2": a type script, a TypeScript SDK, a Python client) and a
reference consumer of it, a multilateration (MLAT) processor with an API and an
operator console. These modules model the parts whose correctness depends on an
order of events: transactions, pages, awaits, signals, refreshes, requests,
byte streams, and the steps of the tools that produce and check evidence.

All paths below are relative to the repository.

## 1. Inventory

| Component | Source | State it keeps | Operations | What is hard |
|---|---|---|---|---|
| Type script | `contracts/registry-v2/src` | the live cells | creation, successor (update, transfer, revoke) | every transaction anyone can build: several groups, merges, splits, repeats |
| Discovery (Python) | `src/ckb_registry/discovery.py`, `record.py` | `cached_peers`, `quarantined_identities` | `discover_peers` | pages awaited while the chain moves; limits; a scan that fails half way |
| SDK lifecycle | `sdk/typescript/src/lifecycle.ts`, `record.ts` | none but the cached deployment check | `create`, `update`, `transfer`, `revoke`, `waitForIndexedTransaction` | read, prepare and send with awaits between; other writers; an indexer that lags |
| SDK discovery, history | `discovery.ts`, `history.ts`, `strict-json.ts` | none | `discover`, `findByIdentity`, history | pagination races; two calls that describe two chains |
| MLAT process | `src/mlat_reference/runtime.py`, `base.py` | `is_running`, `_stopped`, `receiver_positions` | `main`, `start`, `stop`, refresh, processing, statistics loops | a stop between any two awaits; a refresh that fails half way |
| Feed client | `ingest/client.py`, `ingest/feed_transports.py` | `active_receivers`, `_stream_tasks`, `_message_callback` | `start_streaming`, `restart_streaming`, `monitor_streaming`, `refresh_registry_receivers` | tasks that crash, are cancelled or are lost |
| Correlator | `correlation/correlator.py` | `signal_buffer`, `processed_groups` | `add_signal`, `correlate` | late, repeated and mixed-clock signals |
| Solver | `solver/robust.py` | none | `solve_position` | numerics |
| Database | `database/database.py` | SQLite tables | receivers, positions, statistics, accounts, retention | two processes; updates in place; rows of earlier processes |
| Rate limiter | `api/rate_limit.py` | a window of times per client, least recently used first | `consume` | the clock read before the lock; eviction |
| API | `api/rest_api.py` | broadcaster, rooms of subscribers; everything else in SQLite | REST routes, WebSocket subscribe and broadcast, runtime state, history | several statements per request while keys, plans and rows change; telemetry of a process that is gone |
| Operator console | `reference/mlat/frontend` | local storage | reads the API, writes through the SDK | two dashboards of one operator |
| Beast bridge | `tools/mlat/multi_receiver_beast_bridge.py`, `beast_tcp_adapter.py`, `receiver_config.py` | a connection and a buffer per receiver | connect, read, frame, normalise time, write a line | chunks cut anywhere, escapes, a counter that wraps, one failing task of several |
| Registry evidence | `tools/registry/registry_v2_testnet_lifecycle.py`, `verify_registry_v2_evidence.py`, `generate_registry_v2_checksums.py` | a directory of files | register to revoke, attacks, captures; offline check | lost answers, runs that die, other runs of the same binary |
| Live evidence | `tools/mlat/check_live_ingest_readiness.py`, `capture_grant_evidence.py`, `capture_reliability_window.py`, `export_positions_for_benchmark.py`, `verify_live_evidence.py` | a bundle of files | preflight, gates, capture, offline check | each file read at another moment of a running system |
| Benchmarks | `tools/mlat/run_reproducible_benchmark.py` and others | none | numerics over files | none in the order of events |

How they interact. The SDK writes transactions; the type script decides which
commit. Discovery reads the live cells and gives the MLAT process its pool. The
pool selects which feed tasks run, which signals are accepted and which
receivers may take part in a solution; positions and receiver rows go to SQLite,
which the API reads and whose new positions its broadcaster emits. The bridge feeds
the process and keeps an audit log of what it passed on; the evidence tools read
the log, the API and the chain, and write what the verifiers read. `PROJECT.json` lists each component with its status, and
under `hazards` each place where an order of events can go wrong.

What makes each correct: one live cell per identity and a terminal revocation
(type script); nothing missed, stale or partial in a discovery; no lost update
and a waiter that ends (SDK); memory, database and feed that follow the verified
pool, and a stop that stops (process); groups of simultaneous signals, positions
of current receivers only (correlator and gates); every new position emitted, in
order, and the last emission of it the current one (feed); a bounded rate and a
bounded memory (limiter); answers that some plan allowed and that are metered
(API); lines that are the frames sent, with their true times (bridge); a verified
bundle that is true, and a true one that verifies (evidence).

## 2. Modules

| Module | Models | State and actions |
|---|---|---|
| `RegistryLifecycle` | the abstract specification: one identity's life | `lifecycle`; `Register`, `Succeed` |
| `RegistryChain` | `entry.rs`, `record.rs` on a chain | `cells`, `height`; `Commit` over every transaction within the bounds |
| `RegistryDiscovery` | `discover_peers` on a chain | extends `RegistryChain`; scan state; start, one action per page or failure, `Publish`, `CommitMeanwhile` |
| `RegistryDiscovery_proofs` | theorems about `RegistryChain` and `RegistryDiscovery` | |
| `RegistrySdk` | several SDK sessions next to `RegistryChain` | one job per session, snapshots, indexer height, node pool |
| `RegistrySdk_proofs` | theorems about `RegistrySdk` | |
| `MlatRuntime` | `main`, `stop`, refresh, monitor, cache, feed tasks | one action per stretch of code between two awaits that suspend |
| `MlatRuntime_proofs` | theorems about `MlatRuntime` | |
| `SignalPipeline` | signal to position | buffer, processed groups, positions table |
| `PositionFeed` | positions table, event queue, background broadcaster | rows, queue, the thread's phase and batch; one action per statement or queue operation |
| `PositionFeed_proofs` | theorems about `PositionFeed` | |
| `RateLimiter` | `consume` by several threads | buckets, order of use, calls under way; `ReadClock`, then `Admit` or `Refuse` under the lock |
| `ApiAccess` | limit, keys, plans, entitlements, metering | extends `RateLimiter`; one request per thread, one action per look at the tables; an operator, a restart |
| `ApiAccess_proofs` | theorems about `RateLimiter` and `ApiAccess` | |
| `BeastBridge` | receivers, their streams, the bridge and its launch | bytes on the wire, buffers, lines; `Read` takes a chunk of any length and runs the framing |
| `SignalPath_proofs` | theorems about `BeastBridge` and `SignalPipeline` | |
| `RegistryEvidence` | lifecycle runs and the offline check | node pool, ledger, indexer, and each run's position and files; one action per file a run saves |
| `RegistryEvidence_proofs` | theorems about `RegistryEvidence` | |
| `LiveEvidence` | processors, statistics, API state, preflight, capture, check | tables, audit log, receiver file, capture; one action per read of something that moves |
| `LiveEvidence_proofs` | theorems about `LiveEvidence` | |
| `MC*` | instances for TLC | |

`RegistryDiscovery` EXTENDS `RegistryChain` and `RegistrySdk` INSTANCEs it: the chain under them is the proved one. `MlatRuntime` abstracts a discovery to "some pool, or a
failure" (what the pool is, is `RegistryDiscovery`); `SignalPipeline` abstracts a
refresh to "some receiver leaves or returns" (what a refresh does, is
`MlatRuntime`); `PositionFeed` abstracts the positions that `SignalPipeline`
stores to keys and versions. `ApiAccess` has the limiter of `RateLimiter` in front of
its requests. `RegistryEvidence` does not repeat the type script: which attacks a
contract takes is a parameter (none for the contract of `RegistryChain`), because
the evidence is to tell a wrong contract from a right one.

What stands for what:

- *A record* is its label, status, sequence, time, and which stream fields it
  has. `wellFormed` is the conjunction of the checks on one field alone (strict
  JSON, schema version, label syntax, coordinates, capabilities, hash).
- *An identity* is the pair (first input, output index) its Type ID hashes: the
  hash is taken to have no collisions.
- *A transaction* is any injective sequence of live inputs, any map of output
  types, any payloads and locks. Signatures play no part in `RegistryChain`,
  because the type script does not look at locks; `RegistrySdk` has its sessions
  sign only what they own.
- *A coroutine* is atomic between two awaits that really suspend. In
  `MlatRuntime` `start_streaming` and the receiver cache do not suspend, and
  `_stop_stream_tasks` suspends exactly when there are tasks.
- *Indexer and node* are outside the repository and are marked external in the
  map: an indexer page is a consistent snapshot in key order after a cursor; the
  indexer may lag behind the chain but never goes back; there is no chain
  reorganisation. `IdentityFirst` selects the order of the keys: by block and
  then index (FALSE) or by type script arguments first (TRUE). The latter is
  that of the RocksDB indexer under a prefix search; `discovery` runs the former,
  the theorems hold for both. A page need not come from there: behind a load balancer
  another indexer may answer, or one that goes on from an earlier place
  (`ReadElsewhere`). Such a page is not empty, shows cells that were live when the
  scan began or are live now, and sets `astray`.
- *A solution* exists or does not; the gates in front of the solver are modelled,
  the floats are not. Clock quality is three classes: qualified, precise
  (has a `timestamp_ns` only) and wall.
- *The clusters* of a message are not computed signal by signal: `Firsts` says which
  time keys start one (those not close to the start before them), and any set that
  satisfies it gives the clusters. `MCSignalPipeline` has TLC compare it with the loop
  of `_cluster_by_time` for every set of keys of the instance, and `FirstsAreDetermined`
  proves that there is never more than one.
- *The order of use* of the limiter's buckets is a sequence without repetition; moving
  a client to its end and evicting from its front are `Served` and `Excess`.
- *The program of a lifecycle run* (`Program` of `RegistryEvidence`) is written out part
  by part: what is sent, waited for and saved, in the order of the code.
- *Simulated demo receivers* are left out: pool and rows are the Registry's. The
  statistics and processing loops of `MlatRuntime` are one flag.
- *A thread of the API* is atomic within one statement on SQLite, or under the
  limiter's lock. Rows of positions are reduced to the span of time they cover
  and whether there are more than the public plan gives.
- *A request refused for its parameters* (400: not a number, a limit too large, a start
  after its end) ends in `ApiAccess` like one that fails (`Fail`): past the limiter and
  the key, without an answer and without usage.
- *A byte* of `BeastBridge` is a number below 8, a time stamp one byte instead of
  six, a tick one unit of time. The counter wraps at 8, the escape byte is one of
  its values, and bodies hold whatever looks like a frame.
- *The parser* of `BeastBridge` is not its loops: `Attempt` says what decoding from one
  start comes to, and `Made` which starts the search tries: those that none tried before
  it passes over. There is one such set. `MCBeastBridge` has TLC compare
  `parse_beast_frames` with the loops of the code for every buffer of up to 7 bytes of
  four kinds (`ParserAssumption`).
- *A message of a type the bridge does not know* may hold what looks like the start of a
  frame, but not a whole wanted frame (`HidesNothing`): Beast's other types are no longer
  than a long frame. The parser steps over such a message byte by byte, so one that did
  hold a frame would be taken for it: under `--include-short-frames` the assumption
  excludes a longer message of another type with room for a short frame behind a mark.
- *An update* of `RegistrySdk` is given a patch or a full record. Plain cells that
  `completeInputsByCapacity` adds to a creation behind its first input are left out:
  they carry no record, and could only make it conflict with more transactions.
- *The contract binary* in a bundle of `RegistryEvidence` is there or not, and is the
  deployed one or not: both hashes of it are one fact. `main` saves neither it nor the
  two reports, so what a run leaves never verifies as it is; `AddContract`,
  `AddReports` and `Rehash` are the steps of whoever completes the bundle. The saved
  answers of the deployment itself and the manifest's own fields are taken to hold.
- *A registry cell* of `RegistryEvidence` is its identity and whether it is active; a
  deployment gives one identity, because main uses the deployment's change as the
  anchor. Under `data1` all deployments of a binary share one code hash, so a run
  sees the receivers of the others.
- *A group* of observations of `LiveEvidence` is one observation: it names the file
  its processor was started with, when it was made, and whether its clocks
  vouched for it. Positions of a simulated feed carry the same solver label as
  solved ones, as in the code. Its message stands for the aircraft, the subset of
  receivers and the few milliseconds by which the code links a position to the log.
- *A line of the bridge* of `LiveEvidence` is printed (`Observe`) and logged (`LogLine`)
  in two steps, as in `emit_record`: in between the processor may solve it, its position
  may be exported, the log be copied, or the bridge die and the line be lost.
- *A registry refresh* of `LiveEvidence` (`Refresh`) fails, finds receivers or none, and
  may restart the bridge, which then loads the receiver file as it is. Each statistics
  row tells whether the last one succeeded, and the capture, the reliability window and
  the performance baseline look at that (`PipelinePasses`, `DataIsLive`).
- *A position* is its key (aircraft and time) and a version. The clock is any
  cutoff: a retention or a starting point may fall anywhere among the times.
- *The shared process* ("local") of `PositionFeed` is what the code of the queue
  is for; the shipped deployments run two processes, and both are checked. One
  broadcaster is modelled; the `mlat-api` command starts two, which share only
  the table, so each behaves like this one and everything is emitted twice.

## 3. Runs

Counts are distinct states.

| Run | Bounds | Shows |
|---|---|---|
| `chain` (18 669) | 3 transactions, 2 inputs, 2 outputs, 2 labels, 1 owner, sequences to 2 | identities unique, anchors spent, live records valid, sequences paced, final cells stay, implements `RegistryLifecycle` |
| `discovery` (610 214) | pages of 1, 3 pages, 2 cells, one scan; pages from elsewhere without end | nothing missed, revoked, stale or superseded; the scan ends |
| `sdk` (512 193) | 2 sessions, 2 owners, 3 operations, 3 transactions, 2 lookups | prepared transactions verify, no lost update, the waiter returns its own output and ends |
| `runtime` (157 549) | 2 receivers, 2 endpoints, both transports, strict and not | inventory agrees, empty when not live, strict feed follows the pool, crashes noticed, a strict stop ends |
| `runtime_stop` | same | violation: see 5 |
| `pipeline` (998 520) | 3 receivers, 2 messages, times 0 to 3, window 1, buffer 2, 3 signals | simultaneous groups, complete groups of recent signals found, verified receivers solve; clusters as the loop finds them |
| `feed` (342 204) | 1 aircraft, times 1 to 3, 3 rows, polls of 2, 1 update at a time, one process or two | nothing skipped, polled in order, shared-process updates converge, every position emitted |
| `limiter` (93 990) | 2 threads, 2 clients, room for 1, limit 2, window 2, delay 1, times to 5 | bounded rate, bounded memory |
| `api` (1 623 432) | 1 thread, 1 client, 1 key, 2 plans, 2 entitlement rows, 2 requests, 2 changes, times to 2 | answers within a plan, served is metered |
| `evidence` (1 495 551) | 2 runs, 2 deployments, indexer 2 behind, up to 2 flaws | a verified bundle is true, an undisturbed run verifies once it is completed |
| `bridge` (331 762) | 2 receivers, 5 files and a short one, 2 frames, 2 connections, times to 4, counter of 8 | lines are frames, times are true, a launch for MLAT never ends by a frame |
| `ops` (4 724 544) | 2 processors one after the other, 2 signals, 1 edit, 2 refreshes, 4 of these together, 2 receiver files, times to 4 | history not overstated, verified is observed, a calm capture publishes |

Why the bounds are enough.

- `chain`: three transactions allow a creation, a successor, and an attempt on
  what that left (a resurrection, a second mint, a merge with a second identity);
  two inputs and outputs give every cardinality of a script group the rule tells
  apart (0, 1, more). The payloads hold every sequence up to the largest, another
  label, an earlier clock and each rejected encoding. One owner, because the
  type script ignores locks; two owners were checked as well (4.6 minutes, hence
  not kept), transfer is exercised by `sdk`, and the theorems hold for any set.
- `discovery`: pages of one cell put a commit between any two cells. Two cells
  and three pages reach both limits. The run uses the order by block, in which a
  moved cell always comes again. The chain holds few cells, so it alone would end a
  scan; `ReadElsewhere` gives pages that are never empty and never end, and then
  either limit alone still ends the scan. The mutant of `DiscoveryEnds` therefore
  has such a page escape both counts. `MovesAstray` FALSE stops the chain at the
  first such page, which ends the states sooner; the theorems assume neither value.
- `feed`: three rows are one more than a poll returns, and three times in three
  rows give every order of storage against time. One update suffices to meet a
  row in each place (stored, queued, taken, in a batch, emitted); two were
  checked as well, without the liveness property (3 023 492 states, no error).
- `sdk`: two sessions and three transactions give read-read-write-write races,
  with creation, and a successor of a successor between two lookups.
- `runtime`: two receivers are the least that can share an endpoint; three are
  needed for a task created before the shared one (see 5).
- `pipeline`: with a window of 1 and times to 3 a group can be extended at either
  end, split, or fall out of the buffer; three signals are the two of a group and
  the late one. `MinReceivers` is 2 where the program uses 4: the code compares
  with it and nothing else.
- `limiter`: a limit of 2 needs a third admission to be exceeded, the time allows
  two windows and a delay, and one place for two clients evicts. The theorems
  hold for any values.
- `api`: one thread is enough, because requests share nothing but the tables and
  the limiter: the operator's changes stand for what other requests would see
  and `limiter` has the threads. Two requests and two changes let a right be
  taken and given back within one request. The rows hold one that ends within
  the time and one whose end cannot be read.
- `evidence`: one more run is one that disturbs or that died before; two flaws
  let an attack the contract took be covered up by another one (a burn by a
  second cell). While the contract has a flaw at most one run does anything, bytes
  other than the deployed ones are added only when no other run does anything, and the
  files are hashed again when both binary and reports are there. The theorems are
  proved of the actions with these three bounds in them.
- `bridge`: two frames of which the first may be of a type the bridge ignores,
  cut at each byte; the counter of receiver 1 wraps within the time, and the
  validity of the clocks begins and ends within it. The clocks cover each branch
  of the launch check and of the normalisation.
- `ops`: two processors are a restart and a switch between a simulated and a live
  feed; two signals are one for each, and two refreshes are one that fails and one
  that recovers. Four starts, edits, refreshes and signals together (`MaxEvents`) leave
  room for a capture between them. The clocks of the second file begin later and end
  within the time. All times are 1 or 2 units, in the order of the defaults. Each
  premise of `Calm` and `LinesStayWhole` was dropped in turn, and TLC then found the
  capture refused, but for two: a row is too old for its processor only at a later time
  than the bound, and a processor with another file than the present one writes lines
  that another premise excludes.

Every property has a mutant in `PROJECT.json`: a change of one mapped definition
as a plausible bug would make it (a dropped comparison, a missing reset, a
cutoff by arrival), under which TLC finds the property violated.

`TypeOK` says in each module what its variables hold, for the reader; the runs spend
their time on the rest. That of `RegistryChain` is the first part of its inductive
invariant and so proved with it, and that of `SignalPipeline` is a theorem.

Deadlock is not checked where the system may stop: the chain, the scans, the
runs, requests, frames and captures are bounded, and the process exits.

## 4. Fairness

- `RegistryDiscovery`: weak fairness of `Scan`: each `get_cells` call answers or
  times out. (`api_timeout` is a limit on each operation of the socket, not on the
  call: an answer that drips in byte by byte is taken not to go on for ever.) The chain
  and the indexer owe nothing, so `DiscoveryEnds` holds although each page may show a
  cell again and none be empty.
- `RegistrySdk`: weak fairness of a session's waiting steps: `waitTransaction` has
  a timeout and each lookup returns. Neither commits nor the indexer are fair.
- `MlatRuntime`: weak fairness of every ready coroutine (the asyncio loop runs
  them all): sleeps end, calls return or time out, cancelled tasks end. Signals,
  crashes and database errors are not fair.
- `PositionFeed`: weak fairness of the broadcaster thread: its wait for an event
  has a timeout, its reads and emissions return or raise. An exception that ends
  it and the processor are not fair.
- `SignalPipeline`, `RegistryChain`, `RateLimiter`, `ApiAccess`, `BeastBridge`,
  `RegistryEvidence` and `LiveEvidence` have safety properties only: requests, bytes,
  transactions and operators owe nothing.

## 5. Disagreements found

`runtime_stop` is a `violation` run with an entry of `findings`: a stop that falls
into `restart_streaming` is undone by it. `StrictStopEnds` shows the part that holds: a
strict WebSocket feed then raises, because the pool is empty.

Seen while modelling, without a run. The first five are behaviours of the present
modules, each found there as a counterexample to the sentence it contradicts:

- a cell updated between two pages is read twice and its identity quarantined
  (`discovery.py:160`), although `docs/registry/INTEGRATION.md:147` speaks of "duplicate
  live cells for the same identity", which it never had;
- a refresh after which two receivers share an endpoint leaves a non-strict
  process serving without any feed (`runtime.py:405`), against `runtime.py:377-378`;
- the tasks `create_tasks` had started when it raised (`feed_transports.py:278`) are held
  by no list and outlive later refreshes, against `docs/pilot/lessons-learned.md:11-12`;
- a late, earlier signal renames its group (`correlator.py:180`), and receptions already
  solved are solved again, against `correlator.py:110` and `182`;
- the waiter of the SDK reports "not indexed" when another session has replaced
  the output it waits for (`lifecycle.ts:308`), which `sdk/typescript/README.md:337` explains
  by an indexer that lags.

The others were only read:

- no lifecycle run leaves a bundle that verifies: the verifier always asks for
  `contract/receiver-registry` and its two hashes (`verify_registry_v2_evidence.py:458-470`)
  and for two reports, which `main` does not save (`registry_v2_testnet_lifecycle.py:628-634`);
- a statistics row stored after a registry refresh that failed makes a capture, a
  reliability window or a baseline fail or count as not live (`rest_api.py:1236-1243`,
  `capture_reliability_window.py:126`), although positions keep coming;
- the bridge prints and flushes a line before it logs it
  (`multi_receiver_beast_bridge.py:107-112`), so a bridge that dies in between leaves a
  position without its record in the log, and the capture refuses it;
- `/api/aircraft/<id>/latest`, documented as "Latest position for aircraft"
  (`rest_api.py:1825`), answers the oldest row kept (`rest_api.py:1701-1711`);
- a processor without an API never empties its event queue (`database.py:991-998`), and
  the correlator never prunes `processed_groups` (`correlator.py:111`);
- an update in place is not broadcast across processes (`database.py:461-507`); a
  broadcaster that raised is still reported as started (`rest_api.py:914`); two start
  with the `mlat-api` command (`rest_api.py:1939`), and each starts from the newest time, not
  the largest id (`rest_api.py:818`);
- a track is limited in length only: `end_time` may lie in the past, so any history
  can be read in pieces (`rest_api.py:1649`); a subscriber stays in its room after its
  entitlement ends (`rest_api.py:1925`); statistics bills before it reads what it answers
  (`rest_api.py:1727`); each new process restores the plans (`database.py:380`);
- positions of a simulated feed that are still in the table count as benchmarkable
  after a switch to a live one (`rest_api.py:1211`), where `rest_api.py:1340` says that
  replay provenance prevents live claims; the bundle's link to the audit log is
  what keeps them out (`VerifiedIsObserved`);
- a restarted processor already past the counters of the old one is taken for its
  continuation (`rest_api.py:692`), so the history loses signals; it never invents any
  (`NeverOverstated`);
- an escape within a frame of an unknown type is read as the start of a frame
  (`beast_tcp_adapter.py:164`). Types no longer than a long frame cannot hold a false
  long one; with `--include-short-frames` they can hold a false short one;
- two names of one host pass the check of distinct endpoints (`receiver_config.py:216`);
- the two attacks on a tombstone have no later stage that would notice one that the
  node took although its answer was lost (`registry_v2_testnet_lifecycle.py:337`);
- a diagnostic launch accepts clocks on which the first frame ends the whole bridge
  (`multi_receiver_beast_bridge.py:156`).

## 6. Theorems

`RegistryDiscovery_proofs` proves of the chain, for every value of the constants, from
`BoundsAssumption` (bounds are naturals, at least one input and output),
`PayloadsAssumption` (payloads are records) and `MarkersAssumption` (the markers
of plain cells are no identity and no record):

| Theorem | States |
|---|---|
| `UniqueIdentity` | `Spec => []OneLiveCellPerIdentity` |
| `AnchorsAreSpent` | `Spec => []AnchorIsSpent` |
| `RecordsStayValid` | `Spec => []LiveRecordsValidate` |
| `SequencesArePaced` | `Spec => []SequenceIsPaced` |
| `FinalityHolds` | `Spec => FinalCellsStay` |
| `ChainImplementsLifecycle` | `Spec => LifecycleSpec` |

The argument for the chain. `OneLiveCellPerIdentity` is not inductive: a creation could repeat
an identity whose cell is live, or was. It cannot because `check_type_id` ties a
new identity to the first input of its transaction, and the anchor of a live
identity is no longer live (`AnchorIsSpent`, which also records that the anchor's
transaction is older than the cell's, so that new outpoints are never anchors).
`IInv` is the conjunction of the type invariant, uniqueness, the spent anchors,
valid records and paced sequences; `InitIInv`, `NextIInv` and `Invariance` are
its three facts, and each listed invariant follows from it. Finality is a step
property: a transaction that spends a final cell has its identity's group, which
`ShapeAccepted` forces to be a transition, which `validate_successor` refuses.
For the refinement, `AbstractionIsRead` says what the mapping gives under `IInv`
(the CHOOSE in it has one candidate by uniqueness), and `StepRefines` takes each
identity through creation, transition or no group at all.

It proves of discovery, from `DiscoveryAssumption` (naturals, a positive size
and number of pages) and the assumptions of the chain:

| Theorem | States |
|---|---|
| `NothingIsMissed` | `DiscoverySpec => []NothingMissed` |
| `RevokedIsOut` | `DiscoverySpec => []RevokedStaysOut` |
| `NothingIsStale` | `DiscoverySpec => []NothingStalePublished` |
| `NothingSupersededIsPublished` | `DiscoverySpec => []NothingSupersededPublished` |

The keys of the indexer are totally ordered, so the number of keys below a key is
its position in a reply: `RankIsPosition` and its lemmas get that from the
cardinalities of the sets of smaller keys (no induction). Hence a reply is an initial
part of the cells behind the cursor, and a cell that was live throughout the scan
is either read or still behind the cursor. `ScanInv` says so of each cell, together with
where what was read came from; it needs uniqueness and finality from the chain's
`IInv`, which is why the two are one invariant. It holds while each page continues
after the cursor; `NothingMissed` has that as its premise. The other three do not:
`ReadInv` says what holds of any page that shows live cells or those of the start
(an identity that is revoked at the start is read only as its tombstone), and
`DiscoveryInv` is the two together.

`RegistrySdk_proofs` proves, from `SdkAssumption` and for any number of sessions,
operations and transactions, `PreparedIsVerified` (`[]PreparedVerifies`),
`UpdatesAreNotLost` (`[]NoLostUpdate`) and `ReturnIsTheOwnOutput`
(`[]ReturnedIsOwn`). What a session prepares comes of snapshots of different ages, so
the invariant speaks of the history: all cells that were ever live, by outpoint.
An outpoint is never used twice, so a cell means the same in every snapshot
(`HistoryInv`). A prepared transaction is a creation or a succession of cells of the
history (`IsPrepared`), whatever has happened to them since; that the checks of
`record.ts` imply those of `record.rs` is `PreparedIsAccepted`. If its inputs are still live when it
is sent, the type script therefore accepts it, and if they are not, it is refused:
an update is applied to the cell it was computed from or not at all.

`MlatRuntime_proofs` proves, for any receivers, endpoints and either transport,
`InventoryFollowsPool` (`[]InventoryAgrees`), `FailedMeansEmpty`
(`[]NotLiveMeansEmpty`) and `StrictFeedIsExact` (`[]StrictFeedFollowsPool`). The invariant is
by the step the process is in: what a start that is under way holds (`StartInv`), what
a process that serves holds (`ServingInv`), what a refresh remembers to put back
(`PrevInv`), and which tasks belong to which receivers (`TasksInv`, `OrphansInv`).

`ApiAccess_proofs` proves `RateIsBounded` (`LimiterSpec => []BoundedRate`) and
`MemoryIsBounded` (`LimiterSpec => []BoundedMemory`) from
`LimiterAssumption` (limit, window and number of clients are positive, the delay is
a natural). A bucket is not sorted, because threads enter it out of the order of
the times they read, so "the last `Limit` admissions" and "the entries of the
bucket" differ. The invariant `LimiterInv` (theorem `LimiterInvariant`) relates them, for
every client since its last eviction: the bucket is the end of the history of its
admissions (`IsTail`); what is no longer in it saw a time at least a window before
the present (`DroppedAreOld`); and an admission really happened at most `MaxDelay`
after the time it saw (`Timely`, from the same fact about the calls under way). A
call is admitted when fewer than `Limit` entries are left, so the admission `Limit`
places earlier has been dropped: it saw a time a window ago, and happened at most
`MaxDelay` after that. For the memory, `KeysInv` says that a client with times
in its bucket is in the order of use and that the order is no longer than
`MaxClients`: a new client makes it one too long, and evicting from the front
never takes the client just served (`EvictionKeepsTheLast`). `ProcessKeepsLimits`
carries both bounds over to `ApiAccess`: each of its steps is a step of the limiter,
a stutter of it, or a restart, which empties it (`ProcessStep`).

It proves, from `ApiAssumption`, for any number of threads, clients, keys,
plans and rows, `AnswersAreWithinPlan` (`[]AnswersWithinPlan`) and `ServiceIsMetered`
(`[]ServedIsMetered`). A request reads the tables several times while they change. The
invariant relates each value it holds to the rights in force at some time since it began:
the key it authenticated (`AuthIsHeld`), the plan (`PlanIsPremium`), the entitlement row
(`RowIsInForce`), the span that plan allows (`SpanIsCovered`), the usage it has recorded (`IsMetered`).

`PositionFeed_proofs` proves, from `FeedAssumption` (a poll returns at least one row),
`NothingIsSkipped` (`[]NothingSkipped`), `PollsAreOrdered` (`PolledInOrder`) and
`SubscribersAgree` (`[]SubscribersConverge`). `NothingSkipped` alone is not inductive: the
last id jumps to that of whatever is emitted next. The invariant therefore follows a
row that was not emitted yet: nothing that is taken or in a batch overtakes it
(`AheadInv`); in one process it is always on its way as an event, before any newer
one (`EventInv`), although polls may emit it first; in two processes the batch is ascending and behind
the last id (`PollInv`). `VersionInv` does the same for updates in place. `PollsAreInOrder` says that
a limited poll passes over no row; its lemmas are those of the pages of discovery,
over ids.

`LiveEvidence_proofs` proves, from `TimesAssumption` (a stale signal is younger than what
API and export look back over, as by default), `VerifiedBundlesAreObserved`
(`[]VerifiedIsObserved`), `CalmCapturesPublish` (`[]CalmCapturePublishes`) and
`HistoryIsNotOverstated` (`[]NeverOverstated`). For the first, a message names one
observation wherever it is held (`MessageInv`) and only live ones are printed and logged
(`LogInv`), so a position linked to a record of the log is that record. For the second,
what "nothing disturbs" means is `Calm`, of each state, and `LinesStayWhole`, of each step: the
processor launched with the file runs on, its refreshes succeed, it reports and solves in
time, no bridge dies between printing a line and logging it, and the log is not copied
in just that moment of a line whose position is already exported. The code fails a
capture without each of these. `CalmPasses`
derives each gate from `Calm`, with `RowsInv` for the statistics: rows newer than the start
of the processor are its own, so the newest row speaks for it and counts no less than
the row that `Calm` asks for. A solved position may be ahead of the log: while nothing was
lost its line is logged or still held by the bridge (`Printed` in `LogInv`), which is enough when
the log is copied; `CalmInv` keeps what has been read. For the third, the history
variable `claimed` adds the sample of each row when the row is stored. `ClaimInv`: what was
claimed, and what the running processor has not reported yet, were all received. Only
the processor's own last row continues it for certain; a row of an earlier processor that is
taken for its own makes the sample smaller, never larger.

`RegistryEvidence_proofs` proves, for any runs, deployments, flaws of the contract and lag of
the indexer, `VerifiedBundleIsTrue` (`[]VerifiedIsTrue`) and `UndisturbedRunIsVerified`
(`[]UndisturbedRunVerifies`). The first needs the chain and the meaning of the files:
an input has one spender and a transaction follows the one it spends (`ChainInv`), and a
saved file says what was so when it was saved (`FilesInv`, with `Says` for each kind of file). A verified
bundle holds the committed revocation, which follows the three other stages; each attack
before it has an input in common with one of them, and so have the creations of two runs
under one deployment. For the second, `RunInv`
says how far a run must have come for a transaction of its to be there, so a snapshot
taken after one stage and before the next shows exactly that stage's cell, if nobody else
commits and no attack was taken. Its premises are that the deployed binary and the reports
are in the bundle and hashed, because the run does not save them.

`SignalPath_proofs` proves, from `PipelineAssumption` (times are naturals, at least one
receiver is asked for):

| Theorem | States |
|---|---|
| `TypeCorrectness` | `Spec => []TypeOK` |
| `GroupsSpanOneWindow` | `Spec => []GroupsAreSimultaneous` |
| `CompleteMessageIsFound` | `Spec => []CompleteIsFound` |
| `RemovedReceiversNeverSolve` | `Spec => VerifiedReceiversSolve` |
| `FirstsAreDetermined` | at most one set of first keys satisfies the window rule |
| `ClustersPartition` | each of finitely many signals is in exactly one cluster of the batch |

The cutoff of a clean-up is computed from the buffer, not from the history, and signals
arrive late. `BufferInv` says that the buffer is nevertheless the recent part of all that
was accepted: `CleanupKeepsRecent` carries it over an arrival, because the newest signal
ever accepted is never removed. A complete message is then found with its earliest
signal as the only first key. In general the set of first keys exists (`FirstsExist`: a set
of keys with none has a smallest initial part with none, and what serves for the part
before it can be extended) and is unique (`FirstsAreDetermined`), hence `ClustersPartition`.
For groups, every member's key is the first key or comes
after it and is close to it (`ClusterFacts`), so two precise members cannot be further apart
than the window. For positions, `SolvableFacts` counts receivers by observations, none of
which share one.

It also proves, from `BridgeAssumption` (types and lengths are numbers and none is the
mark, a message is as long as its type says or hides no frame), of the bridge:

| Theorem | States |
|---|---|
| `BridgeInvariance` | `BridgeSpec => []BridgeInv` |
| `LinesAreTheFramesSent` | `BridgeSpec => []LinesAreFrames` |
| `TimestampsAreThoseHeard` | `BridgeSpec => []TimestampsAreTrue` |
| `MlatLaunchNeverEnds` | `BridgeSpec => []ReadyNeverEnds` |

`LinesAreFrames` is not inductive: the next lines depend on what the buffer holds. `BridgeInv`
adds where the buffer stands on the wire. `Stream` says that the bytes sent on a connection
are its frames one after the other, each with its marks doubled (`EscapeHolds`,
`StreamGrows`); `Rests` that the buffer is the part of that wire which ends where the bridge
has read to, begins within no frame of a known type and holds none of them whole. The
parser then works on a part of a stream (`IsPart`). From a byte of a frame its cursor goes
to the next byte of the same frame and gets stuck at its end (`ByteAt`, `Tracks`), so an
attempt at a frame that is there whole yields it, and an attempt anywhere else yields
nothing wanted and passes over no frame's start (`AttemptFacts`, `StartFacts`). `MadeExists`
shows, by the smallest number for which it fails, that there is a set as `Made` asks for;
`ParseFacts` collects what a chunk gives: the wanted frames that end in it, and a rest that
`Rests` again. For the time, `TimeIsTold` shows that a tick from within the window is told
from all others until the counter has gone once around from the window's start. That proof
corrected `WithinReach`, which had the two halves of an odd counter swapped.

The invariants were checked by TLC on the instances of the runs before they were
proved.

Only model-checked: that the loop of `_cluster_by_time` computes the one set of first keys
and the loops of `parse_beast_frames` the attempts of `Made` (recursions over data; TLC
compares both in `pipeline` and `bridge`); and all liveness: `DiscoveryEnds`, `WaitEnds`,
`CrashIsNoticed`, `StrictStopEnds` and `EveryPositionIsEmitted`.

## 7. Not modelled

Solver numerics; route handlers that only read (health, maps, saved reports);
retention of statistics; the simulated feed's signals; configuration; the
benchmark and analysis tools; the encoding of transactions and the online part
of the Registry verifier; the single-receiver bridge commands; the console's
rendering. Reorganisations of the chain. What the live capture also asks for, an
accuracy report and a clean work tree, is taken to hold, and so is the
re-solving of positions by its verifier.

## 8. Plan

Done, the most important first: chain and its abstract specification; discovery;
process; pipeline; SDK; position feed; rate limiter; API access; Registry evidence;
Beast bridge; live evidence; and theorems that state every safety property of the passing
runs. Next:

1. The API's handlers that only read (health, maps, saved reports).
2. History of the SDK over a list and a fetch, and the console's store, as far as
   they can be composed into the present runs.
