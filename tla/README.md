# Verification of rh-searcher

rh-searcher watches Uniswap V3 pools of an Arbitrum-style chain, looks for
two-hop cycles through WETH after every Swap, simulates them, and records what
it would have done. It is a set of Go programs (`src/cmd/*`) over shared
packages (`src/internal/*`). What can go wrong in it is seldom arithmetic and
mostly *order*: the chain an RPC node serves changes between two calls, the
process dies between two transactions, logs and heads come by different
subscriptions, caches outlive the block they were read at.

This directory holds TLA+ models of those parts, TLC runs on small instances,
and TLAPS proofs for arbitrary ones. `PROJECT.json` lists the runs, the mutants
that show each property can fail, the source lines of every definition, the
findings, the hazards and the theorems.

    tlc -config Pipeline_faults.cfg MCArbitragePipeline.tla
    tlapm ArbitragePipelineProofs.tla

## 1. The system

### Components

| Component | State it keeps | Operations | Talks to |
|---|---|---|---|
| Arbitrage pipeline (`cmd/rh-arbitrage/main.go`) | `lastApplied(Hash)`, `lastEvaluated`, pool registry, decay queue | `backfill`, `ingestOne`, `handleReorg`, `evaluatePending`, live loop | chain source (heads), RPC node (logs, headers, state), storage, engine |
| Adaptive log query (`batchLogs`) | window size | halve, double, back off | RPC node |
| Storage (`internal/storage`) | `strategy_checkpoints` (two cursors), `processed_blocks`, `block_affected_pools`, `block_evaluations`, `opportunities`, `dex_pools` | one SQL transaction per operation | PostgreSQL |
| Chain sources (`internal/chain`) | last height queried and seen, `LogCursor`, `GapDetector`, reorg tracker | `SubscribeBlocks`, `SubscribeLogs`, `Observe`, `Seen`, `Advance` | RPC node |
| V3 adapter, pools, searcher (`internal/dex/v3`, `internal/arbitrage/candidate.go`) | `bitmapWordCache`, `headerCache`, `headerHint`, `snapshotCache`, pool state | `RefreshPoolsStateAt`, `SnapshotRoute`, `SnapshotTokenGroup`, `InvalidateBitmapCache`, `ResyncMintBurn` | RPC node |
| Engine and simulation (`internal/arbitrage/engine.go`, `internal/simulation`) | configuration, the latch `histUnsupported` | `ProcessBlockAt`, `ProcessTokenGroupAt`, `DecayQuote`, `VerifyBlockHash`, `Simulate` | searcher, second RPC node |
| Input search (`internal/arbitrage/candidate.go`) | none between calls | `routeMaxInput`, `computeBounds`, `OptimizeAt`, `TopKOptimizeAt` | snapshot of the route's pools |
| Canary (`cmd/rh-canary/main.go`) | cursor, subscribed pools, discovery queue and caches, head and header | `run`, `recoverAndProcess`, `handleLog`, `discoveryWorker`, `burstDecay` | websocket, HTTP node, engine |
| Graph and registry (`internal/dex`) | pools by address, adjacency by token | `UpsertPool`, `AddPool`, `Reset`, `RestorePools` | pipeline, canary, searcher |
| Universe and bootstrap (`cmd/rh-cli`, `universe.go`, `bootstrap.go`) | JSON Lines file, checkpoint file, `dex_pools` and its cursor | scan, append, checkpoint, load, commit; restore and scan on | RPC node, file system, PostgreSQL |
| RPC pool, broadcaster, retry (`internal/rpc`) | endpoint health | `Best`, `SendRawTransaction`, `Retry` | RPC nodes |
| Signer and nonces (`internal/signer`) | next nonce, in-flight transactions | `Next`, `Observe`, `Confirm`, `Reset` | RPC node |
| Indexer (`cmd/rh-indexer`) | head checkpoint | head and PoolCreated loop | polling source, storage |
| Liquidator, Morpho (`cmd/rh-liquidator`, `internal/liquidation`, `internal/morpho`) | markets, positions | polling skeleton, interest, health | RPC node |
| Contracts (`contracts/src`) | owner, pool in callback | swap cycle with profit check | Uniswap pools |

### How they interact

*rh-arbitrage* is one goroutine. A head event starts `backfill(from, head)`:
for each chunk of 256 heights it asks for the logs (`batchLogs`), reads the
header of every height that has logs, commits the block's queue rows, history
row and checkpoint in one transaction, and applies the logs to the registry.
An anchor row is committed for the chunk's last height. A parent hash that does
not fit leads to `handleReorg`: a search down the history for a block the chain
still has, one rollback transaction, a registry rebuilt from the database.
Between chunks and after each head, `evaluatePending` takes queued blocks,
quotes all routes of their pools on a snapshot of the current head (or of the
block itself in `historical_strict`), and commits the candidates together with
the second cursor.

*rh-canary* has four kinds of goroutines: the shard readers that forward logs
of the websocket into one channel, the run loop that consumes it (and evaluates
on the spot), the `newHeads` reader that keeps the head, and the discovery
worker. `burstDecay` goroutines quote profitable routes again. The locks `pmu`,
`engineMu`, `headMu` and `hintMu` protect single accesses, not sequences.

*Both* hand a block's routes to the engine, which asks the searcher for a
snapshot and for up to `simulation_top_k` amounts per route, and lets the
simulation node judge each amount by up to five calls. *rh-cli* fills the pool
universe, as a file and in PostgreSQL; rh-arbitrage restores the pools from the
database and scans on from its cursor. Where no WebSocket is configured, the
programs other than rh-canary take heads and logs from the two pollers of
`PollingSource`.

### Hard behaviours, and what correctness means there

| Part | Hard because | Correct when |
|---|---|---|
| Ingestion | the chain may change between any two RPC calls; a crash may fall between any two transactions | no Swap of the followed chain is lost, history is one chain, cursors agree with history |
| Evaluation queue | two cursors, a budget, stale skips, lost acknowledgements | every queued block is evaluated or skipped on record, once, in order |
| Reorganisation | search, rollback and rebuild are separate steps | the rollback lands on the chain, candidates that depended on removed blocks are orphaned, others are not |
| Log window | two reactions that undo each other; failures taken for a sign of size | the call ends; it gives up for cause only |
| Feed | reconnections, failing recovery, several subscriptions, an HTTP node behind the stream | every log of a watched pool is handled, repetitions are confined |
| Discovery | two goroutines, five critical sections per address, a bounded queue | nothing evaluated unregistered, nothing resolved twice at a time, pending ends |
| Quote caches | keyed by number, by hash and by nothing; filled at one head, used at another | all data of a quote belongs to its block; a handled Mint or Burn is in it |
| Route evaluation | two nodes that may disagree, failures known by overlapping substrings of their text, a latch, a crash in the middle | no decision rests on a failure a retry would cure, quotes and simulation are of one block, at most one candidate is selected, and the block is decided in the end |
| Input search | bisection over quotes that may have a gap, integer thirds, clamping to bounds that cut the peak off | the largest quotable input is found, the peak is not cut off, nothing found is lost |
| Universe | a file appended to, a checkpoint overwritten in place, two writers of one database, death anywhere | no pool below a cursor is missing; a run ends |
| Polling | two independent pollers, failing calls, a chain replaced between two queries | logs once and in order, no head passed over in silence, the head is reached |

`PROJECT.json` lists 40 hazards at their lines. All but six have properties. Five
of the six are behaviours where the code does not do what one would wish, described
under *Other divergences* in section 3; the sixth, a live node taken for one that
refuses (`main.go:741`), is bounded by a theorem instead. Where a property holds
only outside the worst case of a hazard, the hazard's note says so.

## 2. The modules

| Module | Models | Composes |
|---|---|---|
| `DualCursor` | abstract: two cursors over an open set of heights | |
| `ArbitragePipeline` | `cmd/rh-arbitrage/main.go` with `internal/storage/postgres.go` | implements `DualCursor` |
| `ArbitragePipelineProofs` | theorems | extends `ArbitragePipeline` and `LogWindow` |
| `LogWindow` | `batchLogs` | its result is `FetchLogs` of the pipeline; `ArbitragePipelineProofs` holds its theorems |
| `CanaryFeed`, `CanaryFeedProofs` | `canary.run`, `recoverAndProcess`, `LogCursor` | takes discovery as one step |
| `PoolDiscovery`, `PoolDiscoveryProofs` | `handleSwap`, `enqueueDiscovery`, `resolvePool`, `handlePoolCreated` | |
| `QuoteCache`, `QuoteCacheProofs` | caches of `candidate.go` and `adapter.go` in both programs | uses the pipeline's ingest and rollback, the feed's log order |
| `RouteEvaluation`, `RouteEvaluationProofs` | `engine.go`, `evaluator.go`, `executor_sim.go` | the pipeline's `eval` step; its header cache is `QuoteCache`'s |
| `InputSearch`, `InputSearchProofs` | bounds, grid, thirds and Top-K of `candidate.go` | its candidates are the shortlists of `RouteEvaluation` |
| `PoolUniverse`, `PoolUniverseProofs` | `rh-cli pools bootstrap`, `bootstrap.go`, `universe.go`, their PostgreSQL writes | its database is where the pipeline's registry starts |
| `PollingSource`, `PollingSourceProofs` | `polling.go`, `GapDetector` | one of the sources of the pipeline's heads |
| `MC*` | constants for TLC | extend their module |

### ArbitragePipeline

Variables follow the code: the process's locals (`lastApplied`,
`lastEvaluated`, the chunk, the header in hand), the tables, and the RPC node's
current chain `view`. A block is `[num, fork]`; its hash is its identity. Every
RPC read and every transaction is a step, so the chain may change, and the
process may stop, between any two. `pc` names the place in the code:

| `pc` | code |
|---|---|
| `fetch` | `batchLogs` for the next chunk |
| `scan`, `recheck`, `commit` | header of the next block with logs, parent check with its second read, `ingestOne` |
| `search`, `rollback` | `handleReorg` |
| `anchor` | the chunk's anchor row |
| `load`, `eval` | `evaluatePending` |
| `wait` | the live loop |
| `down`, `no_ancestor` | the process has ended |

A transaction and the memory updates that follow it are one step: a crash in
between leaves what a crash just after would leave. The first start is
modelled as a start from a database that holds its first checkpoint.
Abstractions: one pool set (`Swapped` says which blocks enter the queue), an
evaluation is a set of amounts chosen freely, `EvalBudget` and `ChunkSize` are
small. Left out: the decay queue, dry runs, provenance of `dex_pools`.

`DualCursor` says what the two cursors promise: ingestion opens heights,
evaluation closes them in order, a rollback moves both back and drops what is
above. `ImplementsDualCursor` maps it to the tables.

### LogWindow

`batchLogs` over blocks `1 .. to` for a node that answers for up to `limit` blocks
per request (0: none) and may fail any request by itself (`Fault`: a timeout, an
internal error). Either failure halves the window, since the code cannot tell them
apart; only a 429 is waited for. The theorems are for every range up to the first
window (256 blocks; a caller's chunk is no longer) and every limit.

### CanaryFeed

The chain grows block by block; a subscription carries the logs from its start
on. A shard's channel and a recovery query's answer are sets read in the order
of the chain, `aggCh` is a sequence. `lost` stands for `errCh`; a full channel is a lost connection. `handled`
counts calls of `handleLog`. `Discover` is the one-step abstraction of the
worker modelled in `PoolDiscovery`; `ConsumeCreated` is `handlePoolCreated`
with its flag `resubscribe`. The end of a run (`stopReached`) is left out. The
chain is bounded, so the five silent seconds that let a pending resubscription
happen do come.

### PoolDiscovery

One step per critical section of `pmu` and `engineMu` and per RPC call, for
the event loop and the worker. Addresses are of four kinds: WETH pool, other
pool, pool of another factory, no pool.

### QuoteCache

One evaluation quotes one route through all pools; each pool has one current
bitmap word. A word is told apart by the set of Mint and Burn blocks it
reflects, prices by the block they were read at. The variable `mode` holds what is fixed
when a process starts: `streamed` chooses rh-canary (head from `newHeads`,
header hint, invalidation), otherwise rh-arbitrage (head asked for at the start
of the batch, or the queued block when `strict`; reload instead of
invalidation); `verified` says whether the evaluator implements
`VerifyBlockHash` (simulation does, the canary and `local_only` have
none). The whole refresh is there: header by hint, cache or RPC; snapshot cache
emptied by hash; loaded words merged into the word cache; prices read by
number; missing words read by number; both caches filled. A failed read keeps
what was merged. `Rollback` happens on a real replacement only; the pipeline's
false reorganisations would have the same effect on the caches. The canary's
head only moves up here, so runs with a replaced chain are rh-arbitrage's. Head
and hint are set under different locks, by the `newHeads` goroutine (`NewHead`,
`SetHeaderHint`) and by the evaluation (`TakeHead`, `PinHint`), so each may overtake the
other. A burst that quotes between `TakeHead` and `PinHint` is left out; one that read its
head before the previous evaluation did has the same effect. A
restart empties every cache and is left out, as are the decay quotes of
rh-arbitrage, which fill the caches like an evaluation at the batch's head.

### RouteEvaluation

`pc` names the next call of the evaluation:

| `pc` | code |
|---|---|
| `snapshot`, `verify`, `search` | `SnapshotRoute`, `VerifyBlockHash`, `TopKOptimizeAt` in `evaluateRoute(WithSnapshot)` |
| `candidate` | the local decision on the next candidate, then `Simulate`'s header read |
| `call`, `gas`, `latest`, `l1` | `eth_call`, gas estimate at the block or on the latest one, L1 component |
| `commit`, `done` | `ProcessBlockAt` returns, the block's results are written |

An answer is the *set of classes its text matches*, because the code tells
failures apart by overlapping substrings: good, poor (no base fee, an empty or
short result), or any subset of infrastructure, revert, unsupported.
`isInfra`, `isRevert` and `isUnsupported` are the code's tests in the code's
order. What the searcher offers is any list it could return. Blocks of the
height evaluated are numbered in the order in which the chain adopts them; the
read node and the sim node follow it each at its own pace and never go back
(what happens when they do is shown by `QuoteCache`). `on` and `doubtful`
remember, for the properties, which blocks a candidate's calls ran on and
whether a failure was heard. `local_only` has no `VerifyBlockHash`.

### InputSearch

One route on one snapshot, step by step: first-hop bound, bisection, clipping,
grid, thirds, Top-K. What the route earns and which amounts it can quote are
parameters; the pool arithmetic behind them is not modelled. The geometric grid
is any set of amounts that holds the smallest one. Its amounts are `lo` times
powers of a float64 ratio and nothing clamps the last one, so it may lie above the
largest input (by some `hi * 2^-53`); `GridSlack` says how far. The candidates are clamped
again: where the grid's best lies above the bound, the bound itself is a
candidate, and only then may every candidate earn less than the grid had found.

### PoolUniverse

`StartScan`, `Discover`, `Append`, `WriteCheckpoint`, `CommitUniverse` are
`rh-cli pools bootstrap`; `StartArbitrage`, `Bootstrap`, `CommitPools` are
rh-arbitrage's start. A crash is possible anywhere: a line may be torn, the
checkpoint damaged (it is overwritten in place), a commit undone. `batch`
halves and doubles as the two scanners do it, each by its own rule.

### PollingSource

The two goroutines of `polling.go` with `GapDetector`: head read, range query,
gap filling header by header. `fork` counts how often the block of a height was
replaced. Any call may fail. The `seen` map is left out, with a reason in the
module: it never holds a height that is asked for again.

## 3. Runs

Expected to pass:

| Run | Shows |
|---|---|
| `faults` | two forks, two replacements at any moment, failing reads, lost acknowledgements, one crash: the database invariants, no lost evaluation, logs applied to memory once per height and queued as applied, the refinement of `DualCursor`, and `CatchesUp` (787,242 states) |
| `calm` | the chain is replaced only while the process waits or is down, and reads succeed: one canonical row per height, every rollback meets the chain, every queued block is evaluated or skipped in the end (72,433 states) |
| `feed_drops` | a lost connection or two, a pool created at run time, recoveries that may fail: unless one failed, no log of a pool watched from the start is skipped and all are handled in the end; repetitions stay in the cursor's block (16,498 states) |
| `discovery_room` | five addresses of every kind, failing calls, a queue with room: no address is evaluated unregistered, resolved twice at a time, misfiled or left pending (22,184 states) |
| `quote_modes` | six modes of the two programs side by side, with a chain that goes away and back: what a quote can rely on in each (760,315 states) |
| `evaluation` | two blocks of two routes in each simulation mode, every mixture of failure texts, a replaced block under two nodes, a crash: selection, where simulation ran, what decisions rest on, and that there is one (281,536 states) |
| `search` | all routes over six amounts with one peak or a gap, every depth, bounds and balances, the grid's last amount up to one above the bound: the largest input, the peak, the candidates (370,152 states) |
| `universe` | three pools, three runs of two programs in any order, cut short anywhere: nothing below a cursor is missing, every run ends (137,866 states) |
| `polling` | both pollers over five heights with failures and a replaced chain: logs in order and complete, heads announced, the head reached (45,230 states) |

Expected to be violated; each is a finding in `PROJECT.json` with the comment it
contradicts:

| Run | What happens |
|---|---|
| `silent_loss` | the parent of the first block *with logs* is compared with the hash of a lower height, so an unchanged chain counts as reorganised; after the rollback the anchor of the same chunk is committed, and the heights in between are never ingested |
| `feed_shards` | two subscriptions share one forward-only cursor: the slower one's logs are dropped as seen |
| `window_ends` | the node answers for fewer blocks than the range: an answer that does not cover the range is thrown away and the window doubled, the next request fails and the window is halved, for ever; the comment speaks of a partial range that the caller continues |

### Other divergences met while modelling

These follow from the same models with other constants or a stronger formula.
They limit what the properties above claim, and are the reason for their
conditions.

| Where | What the code does | How to see it |
|---|---|---|
| `main.go:774` (arbitrage) | logs and header are two calls: logs of one fork are committed under the hash of another, and memory then holds the logs of a block that is not canonical | `\A r \in queue : r.src = r.block`, or `registry \subseteq canon`, as an invariant of `faults` |
| `main.go:846` (arbitrage) | a chunk whose chain was replaced meanwhile and that has no logs is anchored without a parent check: orphaned rows below the anchor stay canonical, against the comments at 807 and 847 | with blocks 3 and 4 of the fork in `Quiet`: at `pc = "load"` the checkpoint is on `view`, a row of `canon` below it is not |
| `main.go:741` (arbitrage) | every failure but a 429 counts as a sign of size: nine timeouts in a row end the call, and the process with it, on a node that would have answered | `limit >= to => call # "failed"` in `LogWindow` |
| `postgres.go:361` | a block and an anchor of one height, read from two forks, leave two canonical rows of that height | `OneCanonicalPerHeight` with `Roaming = TRUE` |
| `main.go:623` (arbitrage) | the ancestor search stops at the first height without a row; rows exist only for blocks with logs and for anchors | a fork one block above a quiet one, `pc = "no_ancestor"` with a common canonical row within `MaxDepth` |
| `postgres.go:243` | away and back: blocks become canonical again, their re-evaluated candidates stay orphaned (`ON CONFLICT DO NOTHING`) | two switches, `o.block \in canon` and evaluated but `~o.canonical` |
| `websocket.go:142` | the cursor remembers one log of its block; after a reconnection the others are handled again | `\A l \in Log : handled[l] <= 1` in `feed_drops` |
| `main.go:748` (canary) | a recovery that fails is only warned about; the stream then moves the cursor over the gap | `NothingSkipped` without `~failed` |
| `main.go:849` (canary) | recovery ends at the HTTP node's head; blocks between it and the subscription are in neither | `NothingSkipped` with `HttpLag = 1` |
| `main.go:746` (canary) | the first logs of a new pool lie behind the cursor that other pools moved | `NothingSkipped` with `Watched` for `Original` |
| `main.go:1010` (canary) | a pool the worker registers never asks for a new subscription | `p \in RouteCapable(registry) ~> p \in Watched` |
| `main.go:996` (canary) | a negative answer of a node that is behind is cached for good | `CachedForGood` with `StaleNode = TRUE` |
| `main.go:1258` (canary) | a Mint handled before its block's header: the evaluation at the older head caches the old word afterwards | `NoDroppedFlip` with `Modes = {Early}` |
| `main.go:1375` (canary) | `burstDecay` quotes at a head it read before it waited for the lock, with the same effect | `NoDroppedFlip` with `Modes = {Bursty}` |
| `main.go:557-558` (arbitrage) | a snapshot taken before a Mint was ingested is reused after it; a failed reload leaves a word that later refreshes prefer | `NoDroppedFlip` with `Modes = {Latest}` |
| `adapter.go:439` | words of the cache that lives across heads and prices are of different blocks | `snaps[p].word = WordAt(view, p, job.num)` at a quote |
| `candidate.go:250` | headers are cached by number: without `VerifyBlockHash` snapshots of a replaced block stay in use; with it, in `historical_strict`, the queue stays blocked on the replaced block's header | `OneBlock` without `Verified`; `DrainsWhenSteady` without `switches > 0` and a mode that is strict, verified and roams |
| `engine.go:323` | a chain that switches away and back between reading prices and comparing hashes passes the comparison | `OneBlock` with `Verified` alone, two replacements |
| `main.go:939` (canary) | an address a full discovery queue drops stays marked as pending for good | `PendingEnds` with `QueueCap = 1` |
| `main.go:659` (arbitrage) | after a rollback the adapter's words still hold the orphaned block's Mint | `IsOn(b, view)` for the blocks of a quoted word |
| `engine.go:329` | the cached header of an orphaned block and a sim node that lags agree: the whole block is judged on the orphan | `SimulatedWhereQuoted` without `header = chain` |
| `engine.go:439` | `latest_observe` selects for analysis only candidates of approximate cost; on a node that does estimate at a height nothing is ever selected | a group of `latest_observe` with complete costs and positive net, none `analysis` |
| `executor_sim.go:153` | the substring `eof` also matches `balanceOf`: a deterministic revert that names it is retried for ever | `DecidesWhenSteady` with a call that always answers `{"revert", "infra"}` |
| `executor_sim.go:266` | one unsupported estimate switches historical estimates off until the restart, so nothing can be selected for sending any more | read off `EstimateGasAt`: only a restart resets `unsupported` |
| `polling.go:103` | `haveLast` is set before the first query; when that fails the next tick starts at block 1, against the comment that the same range is retried (`polling.go:114`) | `start` after a failing first `FilterLogs` with `fromBlock = 4` |
| `polling.go:51` | a header of a gap that fails to load is skipped for good | `HeadsAnnounced` without `skipped` |
| `universe.go:50` | a repeated line makes `RouteCapablePools` count one pool as two | read from the code; lines are not repeated in the model |
| `universe.go` | a line torn by a crash makes `LoadUniverse` fail until somebody edits the file | `end = "whole"` as an invariant of `universe` |
| `rh-cli/main.go` | `--from` beyond the checkpoint leaves a gap the next resume does not see | read from the code; the flag is left out |

Further observations, from reading only: `storage/checkpoint.go:53` writes to a
nil map when `Save` follows a failed `Load`; rh-indexer asserts `st.(*v3.Pool)`
without a check; without PostgreSQL, a restart from the JSON checkpoint begins
`Bootstrap` there with an empty registry.

### Bounds, and why they are enough

*Pipeline.* Heights 0-3 (`faults`) and 0-4 (the others), chunks of 2, search
depth 2. In `faults` the fork leaves the main chain at its first block and is
served only at its full height: a crash between the rollback and the anchor then
makes the next start ingest heights again that had been ingested from the other
fork, without which `QueuedAsApplied` says little. In `calm` the two forks part
at height 2. A chunk has a first, a last and a missing block; a
reorganisation may fall inside a chunk, at its end, or below it; the search may
succeed at each depth and fail. Two switches let the chain go away and back,
two starts put a crash at every step. `MaxLag` 1 and `EvalBudget` 1 make blocks
stale and evaluation lag behind.

*Feed.* Three blocks with up to three logs each, three pools of one token of
which one is created in block 2, one or two subscriptions, at most two lost
connections.

*Discovery.* Five addresses: a preloaded and an unknown WETH pool and one of
every other kind; the queue has room for all that are unknown (4).

*Window.* The code's first window of 256 blocks; ranges of 1, 100 and 256 blocks,
nodes that answer for 0, 1, 30, 100 and 256: none, some and all of each range. Up to
ten requests fail by themselves, one more than it takes to get from 256 to giving up.

*Quotes.* Two pools with different Mint blocks, two chains of heights 0-3 and
0-2 that part at height 1, two replacements, so that the chain may come back,
and a header cache of 2 entries instead of 16, so that it is emptied within a
run.

*Evaluation.* Two queued blocks of two routes, of one and of up to two
candidates; gross profits 0 and 2, contract profits on both sides of the cost,
equal ones included. One replacement and one failure or crash: a failure throws
the attempt away, so what a second one could add is only another attempt from
the same state; the latch is carried from the first block to the second.

*Search.* Six amounts, landscapes with one peak and gentle or steep slopes on
either side, every quotable range and every single gap, four rounds of thirds,
after which the interval no longer shrinks. Smallest inputs 1 to 3, no or a low
largest input, balances unread, empty and in between, one or three candidates. The
grid's last amount may be one above the bound (`GridSlack`): float rounding.

*Universe.* Three pools in blocks 1, 2 and 4 of five, batches of 1 to 4, three
runs: one that is cut short, one that resumes, one of the other program.

*Polling.* Five heights of which one has no log, starts without, at and above
the first head, two failures, one replacement at any height.

### Fairness

`FairSpec` of the pipeline: weak fairness of `Process`, the goroutine's own
steps. Nothing forces the chain to grow, to be replaced, or anybody to restart
a stopped process; the properties say "or the process has ended".
`CatchesUp` needs no promise that reads succeed, because an ingest error ends
the process. `QueueDrained` is checked with `Errors = FALSE`: a node that never
answers never drains the queue. That also excludes the hash mismatch of
`VerifyBlockHash`, which is among the divergences above.

`CanaryFeed`: weak fairness of the run loop and of each shard reader. Neither
connections nor the worker's calls are promised.

`PoolDiscovery`: weak fairness of both goroutines: each RPC call returns, with
a result or an error.

`LogWindow`: weak fairness of the back-off timer and strong fairness of
"answered or refused": the node does not rate-limit for ever. Without it the
documented behaviour, retrying a 429 without end, would be the counterexample.

`QuoteCache`: weak fairness of the evaluating goroutine, strong fairness of
`Ingest` and `Rollback`, because every head event ingests before it evaluates.

`RouteEvaluation`: weak fairness of the evaluation's steps. A failed attempt is
tried again because `evaluatePending` runs at every head and after every chunk;
failures are bounded, and `DecidesWhenSteady` is about a block that is not
replaced.

`PoolUniverse`: weak fairness of a running program's steps; nobody has to start
one. `PollingSource`: weak fairness of each poller, which its ticker
justifies, as long as the consumers drain their channels. `InputSearch` states
safety only.

## 4. Proofs

All theorems hold for every value of the constants that satisfies the `ASSUME`s
of the module: chains are functions from heights to fork labels, *a hash
commits to its ancestry* (`HashChainAssumption`), only blocks with logs hold
Swaps, parameters are natural numbers.

### ArbitragePipelineProofs

`Inductive`: `Spec => []IInv`, with `IInv == DbInv /\ ProcType /\ MemInv /\ ChunkInv`.

- `DbInv` is what the tables promise each other: types, the checkpoint is the
  top canonical row, queue rows are canonical and one per height, a queued row
  at or below the evaluation cursor has an audit row, canonical candidates have
  canonical blocks. It would not be inductive alone: that a *committed* block
  extends the top of history is a fact about the process.
- `ProcType` types the process's variables, as far as `pc` makes them matter.
- `MemInv` ties memory to tables: `lastApplied = ckpt`, the memory evaluation
  cursor is not ahead, the registry has applied the logs of one block per height
  of history, and the queue names the same blocks.
- `ChunkInv` says what the goroutine relies on in the middle of a chunk: the
  batch lies above the checkpoint and within the chunk, the header in hand is
  of the height about to be committed, the ancestor found is a canonical row.

There is one lemma per transaction (`IngestPreserves`, `SkipPreserves`,
`EvaluationPreserves`, `RollbackPreserves`) about `DbInv`, one per group of
actions about `IInv`, and `StepPreserves` puts them together. From `IInv`
follow `TypeCorrect`, `CursorsNeverDiverge`, `CheckpointIsTopOfHistory`,
`QueueStaysUnambiguous`, `NoEvaluationIsLost`, `CanonicalCandidatesTraceable`,
`LogsApplyOnce`, `QueueFollowsMemory`. `Refinement` (`Spec => ImplementsDualCursor`) maps
every step to a step of `DualCursor` or a stutter; `EvaluationInOrder` is its
consequence for the evaluation cursor.

`CalmInv` is a second invariant, for a chain that is replaced only while the
process waits or is down (`Roaming = FALSE`; reads may fail). From the log query
to the last commit of a chunk, and from the search to the rollback, the chain
then only grows, so what was read stays true: the blocks in hand are of the
served chain (`HandServed`), the rows the search has gone past are not
(`SearchedRows`), an anchor at the checkpoint's height is the checkpoint
(`AnchorServed`). It rests on `IInv` and gives `CanonicalRowsAreUnique` and
the action property `RollbackIsExact`. Without the assumption both fail: the first
is a divergence of section 3, and a chain replaced between search and rollback
defeats the second.

`IngestionIsComplete` is the counterpart of the finding of `silent_loss`: when
every block emits logs, `NoSilentLoss` holds until the chain is first replaced,
through every failing read, crash and restart. Its invariant `SteadyInv` says
that the batch is what is missing between the checkpoint and the chunk's end,
and that no parent check has failed. A loss therefore needs a quiet height, for
which the check fails on an unchanged chain, or a replaced chain.

Three theorems say that the goroutine's work between two heads comes to an end,
and where. `WorkEnds`: every step lowers a rank (heights that remain of the
round, stage of the chunk, what is left of the stage), whatever fails and however
the chain moves. The point is that a false or real reorganisation in the middle
of a chunk goes on behind the chunk and does not start it again (`RoundInv`).
`HeadIsReached`: a process that waits has committed every height up to its last
head; with `WorkEnds` that is `CatchesUp` but for the fairness.
`IdleMeansEvaluated`: with `Errors = FALSE`, a process that waits has left no queued
block, although batches end at their budget; in strict mode until the first
replacement. It is the same half of `QueueDrained`.

`LogWindow` comes last; its state lives only as long as one call, and its
definitions keep names of their own (`BatchSpec`) so that one module can extend
both. `GivesUpOnlyForCause`: the call ends in an error of its own only on a node
that answers for nothing, that answers for less than the range and failed a request
besides, or that failed nine requests. Its invariant `WindowAbove` says that on a node
that answers for the whole range, `f` failures leave at least what `f` halvings leave
of 256. `EveryRequestCounts`: on a node that answers for the whole range or for
nothing the window moves one way only, so the call ends; in between it does not,
which is the finding of `window_ends`.

### CanaryFeedProofs

`RepeatsStayAtCursor` holds without conditions; its invariant `CursorInv` says
that the cursor is the highest block of a log handed on, and such a log itself.

`NothingIsSkipped` and `QuietMeansComplete` need `OneOrderedSource`: one
subscription carries every pool (`-all-pools`, or up to one shard of pools) and
the HTTP node knows the head. Both conditions are necessary: `feed_shards` and a
divergence of section 3 violate `NothingSkipped` without them. The invariant
`FeedInv` follows the logs:

- `Accounted`: a log owed, up to the head, is handled, on its way through the
  shard's channel or `aggCh`, or in the part of the gap recovery has not gone
  through. When the connection is lost this holds for what lies below a log
  that is still on its way; the rest is the next recovery's.
- `InOrder`: what is on its way keeps the order of blocks, so that consuming a
  log never moves the cursor past another one. With several shards it is false.
- `BelowHead`: neither cursor nor recovery is ahead of the chain, so what a new
  block brings is not behind the cursor.
- `StaysWatched`: a rebuilt subscription still has the original pools, because
  `RouteCapable` grows with the registry.

`NothingBehind`, that all below the cursor is handled, follows from step to
step; a failed recovery ends it, as the code's own warning says.

`OnlyTwoWaysToLose` drops both conditions: with any number of subscriptions and
any `HttpLag`, a log of a pool watched from the start that is not handed on when
the loop has emptied its channels was overtaken by the shared cursor (the finding
of `feed_shards`) or lies in the `HttpLag` blocks behind the last recovery's end
(`main.go:849`). So these two divergences are all there is, as long as no
recovery fails. Its invariant is `NoOtherLoss`.

### PoolDiscoveryProofs

`DiscoveryTyped`, `NeverEvaluatedUnregistered`, `NeverResolvedTwice` and
`CacheIsDeterministic` (the last under `~StaleNode`, whose case is among the
divergences of section 3). `RegInv` strengthens `EvaluatedIsRegistered` by what
the two goroutines carry between their locks: whoever is about to enter a pool into
`wethPools` has registered it. `NothingForgotten` is the safety half of
`PendingEnds`: with a queue that has room for every address unknown at startup,
a pending address is queued or in the worker's hands. The queue's addresses
differ from each other and from the one that comes (`NeverResolvedTwice`), so by
counting there is room for it (`RoomToSend`). With less room it is false.
`StrangersStayOut` needs no condition: only WETH pools of the factory get into the
registry and the graph, also past a stale node, which errs to the safe side.

### QuoteCacheProofs

`IInv` has one part per question. `OnChain`: without a replacement, whatever
names a block names one of the served chain. `Priced`: a stored price is of the
cached header's block, *or that block had been replaced when the price was
read, and the node has served another one at its height since* - which is why
the hash comparison helps after one replacement, and why it does not after two.
`NotAhead`: words are not ahead of the last quoted block where quotes only move
up. `Invalidated` and `Reloading`: where a handled Mint or Burn is between two
quotes, in rh-canary's caches and in rh-arbitrage's registry. From it
`QuotesAreOfOneBlock`, `QuotesAreNotAhead`, `HandledFlipsAreQuoted` and the
types (`CacheTyped`), for all chains and modes and any number of replacements.

`EvaluationStaysBehind` says that rh-arbitrage evaluates nothing it has not
ingested, rollbacks included. `SteadyEvaluationsQuote` and `EvaluationEnds`
together are `DrainsWhenSteady` without the fairness: an evaluation takes
finitely many steps (a rank of stage and of prices and words still to read;
no Mint, head or rollback sends an evaluation under way back), and
on a chain that stays and a node that answers it ends in a quote, whatever old
headers, words and snapshots the caches hold.

### RouteEvaluationProofs

`IInv` says that nothing is under judgement between two routes, that judged
candidates are unmarked until their group is concluded, that no doubtful failure
has been heard of so far, and (`Placed`) that while the cached header is the
chain's, every call so far ran on that block. From it `SelectionIsFormal`,
`SimulationFollowsQuotes` and `DecisionsAreClear`, for any number of routes and
candidates and any profits and costs. `EveryRouteDecided`: a block is committed
with one group of verdicts per route.

`AttemptsEnd` and `SteadyAttemptsFailByCallsOnly` are the two safety halves of
`DecidesWhenSteady`: an attempt is finite (a rank of routes, stage and calls), and
while the block is not replaced nothing but a failing call or a crash ends it
without the commit. `LatchWithholdsCompleteCosts`: once `histUnsupported` is set no
candidate, not even the one under way, has a complete cost; with
`SelectionIsFormal` this is what the divergence at `executor_sim.go:266` costs.

### InputSearchProofs

`Bisecting` is the invariant of a binary search on a predicate that need not be
monotone: what is below `low` and was found is quotable, and on a route that
quotes up to some largest amount that amount is still inside. `Enclosed` sharpens
`PeakEnclosed`: the peak is one above the interval only when the interval is a
single amount. Then `BisectionIsExact`, `ThirdsEnclosePeak` and
`CandidatesLoseNothing` for every number of amounts, rounds and candidates.

`ChosenNearPeak` says how good the outcome is: the code keeps the best amount and
the interval in separate variables, and the theorem ties them together. The best
amount is never cut off (`RoundKeepsBest`), so it is off the peak by no more than
the width that is left, and `GridSlack`: a best amount above the bound survives
only as long as every third still points upwards. `IntervalsShrink` bounds that width: a round of bisection
leaves at most half, a round of thirds two thirds and one. What 24 rounds make of
it is an induction over the rounds, left to arithmetic on paper.

### PoolUniverseProofs, PollingSourceProofs

`Scanning` and `Bootstrapping` say which pools are safe at each step of a scan:
those below `from` in the file or the registry, those of the batch in `found`
or already listed. `FileIsComplete` and `DatabaseIsComplete` follow for any
pools, batch sizes and number of runs. `RunsAdvance` is the safety half of
`RunEnds`: each step lowers a rank of blocks left, stage, batch and pools to
write. `Polling` relates the query in flight to
the last one answered, `Announcing` says that nothing is left to send between
two ticks; `LogsGoOutInOrder` and `NoHeadPassedOver` follow for any heights,
failures and replacements. `EveryPollCounts` is the safety half of
`PollsToTheHead`: whatever the log poller does is a failing call, the beginning of
a query, or an answer that takes `last` nearer to the head.

### Only model-checked

Liveness (`CatchesUp`, `QueueDrained`, `EventuallyHandled`, `PendingEnds`,
`DrainsWhenSteady`, `DecidesWhenSteady`, `RunEnds`,
`PollsToTheHead`): fairness and ENABLED are out of the prover's reach. For each
of them theorems state what the argument needs of the steps:

| Property | Proved of its steps |
|---|---|
| `CatchesUp` | `WorkEnds`, `HeadIsReached` |
| `QueueDrained` | `WorkEnds`, `IdleMeansEvaluated` |
| `EventuallyHandled` | `QuietMeansComplete` |
| `PendingEnds` | `NothingForgotten` |
| `DrainsWhenSteady` | `EvaluationEnds`, `SteadyEvaluationsQuote` |
| `DecidesWhenSteady` | `AttemptsEnd`, `SteadyAttemptsFailByCallsOnly` |
| `RunEnds` | `RunsAdvance` |
| `PollsToTheHead` | `EveryPollCounts` |

What remains in each case is that a step is enabled and is taken.
Every invariant and action property of the passing runs is stated by a theorem;
some theorems have hypotheses on the environment, which are named with them above.

The geometric grid, tick decoding and swap steps are computations over data,
which induction would have to establish; they are parameters or choices here.

## 5. Not modelled, and why

| Part | Why |
|---|---|
| V3 pool arithmetic | sequential 256-bit arithmetic, tested against vectors in the repository; no small width stands for it. The search takes quotability and profit as parameters |
| Database migrations | applied once at start, each file in a transaction under an advisory lock |
| JSON checkpoint files | written whole and renamed; used by rh-indexer, and by rh-arbitrage without a database. rh-cli's own checkpoint file is in `PoolUniverse` |
| RPC pool, broadcaster, retry | only rh-cli's benchmark command constructs a pool; nothing constructs the broadcaster or calls the retry helper |
| Signer and nonce manager | no program constructs them, so how their calls interleave is not determined by the code |
| `ReorgTracker` | constructed by no program |
| `WebsocketSource` | wraps the subscriptions that `CanaryFeed` models; its backfill runs before the subscription, a gap of the kind `CanaryFeed` shows for recovery |
| Indexer | its source is `PollingSource`; its loop is superseded by rh-arbitrage's bootstrap |
| Liquidator, Morpho | a skeleton that logs what it would evaluate |
| Contracts | the Go programs only simulate them; `CallContract` takes their answer as a choice |
| Configuration, telemetry, calldata, build and deployment | no state a property would be about |

Left out of modelled parts: the decay queue of rh-arbitrage (samples by batches
instead of heads), flags and dry runs, provenance of `dex_pools`, the
token-group variant's own loop (its judgement is the same), the graph's route
enumeration, statistics and output files.

What would come next: the decay queue, and a composition of `PollingSource` with
the pipeline's heads.
