------------------------- MODULE ArbitragePipeline -------------------------
(***************************************************************************)
(* The ingest / reorg / evaluate pipeline of rh-arbitrage                  *)
(* (cmd/rh-arbitrage/main.go) over its PostgreSQL tables                   *)
(* (internal/storage/postgres.go).                                         *)
(*                                                                         *)
(* One goroutine runs everything: it fetches logs for a chunk of heights,  *)
(* reads a header for every height that has logs, commits that block in    *)
(* one database transaction, commits an anchor row for the chunk's last    *)
(* height, evaluates a few queued blocks, and goes on.  What makes it hard *)
(* is around it: the chain an RPC node serves may change between any two   *)
(* calls, and the process may die between any two of them and restart from *)
(* what the database holds.  Every RPC read and every transaction is a     *)
(* step of its own.                                                        *)
(*                                                                         *)
(* A transaction and the memory updates that follow it are one step: a     *)
(* crash in between is indistinguishable from a crash just after, since    *)
(* the memory is lost either way.  An ingest transaction whose commit      *)
(* acknowledgement is lost is the same case, because every ingest error    *)
(* ends the process (main.go:1111-1113).                                   *)
(***************************************************************************)
EXTENDS Integers, FiniteSets

CONSTANTS
  Fork,        \* labels telling apart the blocks of one height
  Chains,      \* the chains an RPC node may serve
  Logged,      \* blocks for which FilterLogs(Swap, Mint, Burn) returns a log
  Swapped,     \* those of them that hold a Swap of a registered pool
  Amount,      \* input amounts the optimiser can choose for a route
  ChunkSize,   \* heights per log query (256 in the code)
  MaxDepth,    \* how deep the ancestor search goes (64 in the code)
  MaxLag,      \* maxObsLag: older queue entries are skipped (default 2)
  EvalBudget,  \* queue entries evaluated between two chunks (8 in the code)
  Strict,      \* TRUE: simulation mode historical_strict
  Errors,      \* TRUE: RPC reads and commit acknowledgements may fail
  Roaming,     \* TRUE: the chain may be replaced while the process works
  MaxSwitches, \* bound: how often the served chain is replaced
  MaxStarts    \* bound: how often the process is started

\* A block hash.  Hashes of different heights differ, so the height is part of
\* the value; fork tells the blocks of one height apart.
Hash == [num : Nat, fork : Fork]

ASSUME ChainsAssumption ==
  \A c \in Chains : c.head \in Nat /\ c.at \in [0 .. c.head -> Fork]

\* A hash commits to its ancestry.
ASSUME HashChainAssumption ==
  \A c, d \in Chains : \A h \in 0 .. c.head :
    h <= d.head /\ c.at[h] = d.at[h] => \A k \in 0 .. h : c.at[k] = d.at[k]

ASSUME BlockAssumption == Logged \subseteq Hash /\ Swapped \subseteq Logged

ASSUME ParameterAssumption ==
  /\ ChunkSize \in Nat \ {0} /\ MaxDepth \in Nat /\ MaxLag \in Nat
  /\ EvalBudget \in Nat /\ MaxSwitches \in Nat /\ MaxStarts \in Nat
  /\ Strict \in BOOLEAN /\ Errors \in BOOLEAN /\ Roaming \in BOOLEAN

VARIABLES
  \* --- the RPC node
  view,          \* the chain it serves now
  switches,      \* how often that chain was replaced
  \* --- the process
  pc,            \* where the goroutine is
  starts,        \* how often it was started
  lastApplied,   \* lastApplied and lastAppliedHash
  lastEvaluated, \* lastEvaluated (a height)
  target,        \* backfill's argument "to"
  chunkTo,       \* last height of the chunk
  batch,         \* blocks whose logs were fetched and not yet committed
  checked,       \* the chunk's parent check has been passed
  hdr,           \* the header, or the ancestor, in hand
  depth,         \* d of the ancestor search
  round,         \* evaluation between chunks ("chunk") or after a head ("head")
  evalHead,      \* head shared by one evaluation batch
  left,          \* evaluations left in that batch
  registry,      \* blocks whose logs the in-memory pools have applied (for the
                 \* properties: a pool does not know them)
  \* --- the database
  ckpt,          \* strategy_checkpoints, 'arbitrage:blocks'
  evalCkpt,      \* strategy_checkpoints, 'arbitrage:evaluate'
  canon,         \* processed_blocks, canonical rows
  orphan,        \* processed_blocks, other rows
  queue,         \* block_affected_pools: [block, src], src being the block
                 \* that emitted the logs
  audits,        \* block_evaluations: blocks with a row (a repetition after a lost
                 \* acknowledgement inserts one more, which is not counted)
  opps           \* opportunities

envVars  == <<view, switches>>
workVars == <<target, chunkTo, batch, checked, hdr, depth>>
evalVars == <<round, evalHead, left>>
memVars  == <<lastApplied, lastEvaluated, registry>>
dbVars   == <<ckpt, evalCkpt, canon, orphan, queue, audits, opps>>
vars     == <<envVars, workVars, evalVars, memVars, dbVars, pc, starts>>

Down    == {"down", "no_ancestor"}
Working == {"fetch", "scan", "recheck", "commit", "search", "rollback",
            "anchor", "load", "eval"}

Lower(m, n)   == IF m < n THEN m ELSE n
BlockAt(c, h) == [num |-> h, fork |-> c.at[h]]
IsOn(b, c)    == b.num <= c.head /\ c.at[b.num] = b.fork

-----------------------------------------------------------------------------
(* Transactions of internal/storage/postgres.go.                           *)

\* CommitBlockIngest: queue rows, checkpoint and history row together.  A row
\* whose hash was orphaned before becomes canonical again.
CommitBlockIngest(b, rows) ==
  /\ queue'  = queue \cup rows
  /\ ckpt'   = b
  /\ canon'  = canon \cup {b}
  /\ orphan' = orphan \ {b}
  /\ UNCHANGED <<evalCkpt, audits, opps>>

\* Candidates are inserted ON CONFLICT (id) DO NOTHING; the id is made of the
\* block hash, the route and the amount, not of the block the state was read at.
Inserted(b, amounts, state) ==
  opps \cup {[block |-> b, amount |-> a, state |-> state, canonical |-> TRUE] :
               a \in {x \in amounts :
                        \A o \in opps : ~(o.block = b /\ o.amount = x)}}

CommitEvaluation(b, amounts, state) ==
  /\ opps'     = Inserted(b, amounts, state)
  /\ audits'   = audits \cup {b}
  /\ evalCkpt' = b
  /\ UNCHANGED <<ckpt, canon, orphan, queue>>

SkipStaleBlock(b) ==
  /\ audits'   = audits \cup {b}
  /\ evalCkpt' = b
  /\ UNCHANGED <<ckpt, canon, orphan, queue, opps>>

\* A candidate depends on the block that triggered it and on the block its
\* state was read at: GREATEST(observed_block, state_block) > ancestor.
OrphanedAboveOldCursor(o, a) == o.block.num > ckpt.num \/ o.state > ckpt.num
Orphaned(o, a) == o.block.num > a.num \/ o.state > a.num

\* The evaluation cursor only ever moves back: LEAST(block_number, ancestor).
RolledBackEval_NoLeast(a)  == evalCkpt
RolledBackEval_Ancestor(a) == a
RolledBackEval(a) == IF evalCkpt.num > a.num THEN a ELSE evalCkpt

\* What survives a rollback: history rows and queue rows up to the ancestor.
KeptHistory_All(a)      == canon
KeptHistory_Strictly(a) == {b \in canon : b.num < a.num}
KeptHistory(a)          == {b \in canon : b.num <= a.num}
KeptQueue_All(a)        == queue
KeptQueue(a)            == {r \in queue : r.block.num <= a.num}

RollbackToAncestor(a) ==
  /\ canon'    = KeptHistory(a)
  /\ orphan'   = orphan \cup (canon \ canon')
  /\ opps'     = {IF Orphaned(o, a) THEN [o EXCEPT !.canonical = FALSE] ELSE o :
                    o \in opps}
  /\ queue'    = KeptQueue(a)
  /\ ckpt'     = a
  /\ evalCkpt' = RolledBackEval(a)
  /\ UNCHANGED audits

\* LoadPendingAffected: blocks above a cursor, in ascending order.
Pending(from) == {r \in queue : r.block.num > from}
FirstPending_Unordered(from) == Pending(from)
FirstPending(from) ==
  {r \in Pending(from) : \A s \in Pending(from) : r.block.num <= s.block.num}

-----------------------------------------------------------------------------
(* Backfill.                                                               *)

\* FilterLogs(from, to) on the chain served now.
LogsOf(c, from, to) == {BlockAt(c, h) : h \in from .. Lower(to, c.head)} \cap Logged

FetchLogs ==
  /\ pc = "fetch"
  /\ chunkTo' = Lower(lastApplied.num + ChunkSize, target)
  /\ batch'   = LogsOf(view, lastApplied.num + 1, chunkTo')
  /\ checked' = FALSE
  /\ pc'      = IF batch' = {} THEN "anchor" ELSE "scan"
  /\ UNCHANGED <<envVars, memVars, evalVars, dbVars, target, hdr, depth, starts>>

\* Heights without logs are stepped over: no header, no commit.
NextBlock == {b \in batch : \A o \in batch : b.num <= o.num}

\* The parent of the first block with logs is compared with lastAppliedHash,
\* whether or not that block follows lastApplied directly.
ParentMatches(n) == n <= view.head /\ BlockAt(view, n - 1) = lastApplied

ReadHeader ==
  /\ pc = "scan"
  /\ \E b \in NextBlock :
       /\ b.num <= view.head
       /\ hdr' = BlockAt(view, b.num)
       /\ pc'  = IF checked \/ ParentMatches(b.num) THEN "commit" ELSE "recheck"
  /\ UNCHANGED <<envVars, memVars, evalVars, dbVars, target, chunkTo, batch,
                 checked, depth, starts>>

\* Three re-reads, 100 ms apart: a header whose parent matches is taken, a
\* mismatch that stays, or a failing read, is a reorg.
RecheckParent ==
  /\ pc = "recheck"
  /\ \E b \in NextBlock :
       \/ /\ ParentMatches(b.num)
          /\ hdr' = BlockAt(view, b.num)
          /\ pc'  = "commit"
          /\ UNCHANGED depth
       \/ /\ Errors \/ ~ParentMatches(b.num)
          /\ pc'    = "search"
          /\ depth' = 0
          /\ UNCHANGED hdr
  /\ UNCHANGED <<envVars, memVars, evalVars, dbVars, target, chunkTo, batch,
                 checked, starts>>

\* ingestOne: the logs of b are committed under the hash of the header read
\* later, and then applied to the pools in memory; the hash comparison of
\* processBlockWithLogs is switched off here.
CommitBlock ==
  /\ pc = "commit"
  /\ \E b \in NextBlock :
       /\ CommitBlockIngest(hdr, IF b \in Swapped
                                 THEN {[block |-> hdr, src |-> b]} ELSE {})
       /\ batch'    = batch \ {b}
       /\ registry' = registry \cup {b}
  /\ lastApplied' = hdr
  /\ checked'     = TRUE
  /\ pc'          = IF batch' = {} THEN "anchor" ELSE "scan"
  /\ UNCHANGED <<envVars, evalVars, lastEvaluated, target, chunkTo, hdr, depth,
                 starts>>

\* The process ends and its memory is lost (the variables keep no trace of it:
\* they hold what the next start will load, or nothing).
Exit(how) ==
  /\ pc' = how
  /\ lastApplied' = ckpt /\ lastEvaluated' = evalCkpt.num /\ registry' = {}
  /\ target' = 0 /\ chunkTo' = 0 /\ batch' = {} /\ checked' = FALSE
  /\ hdr' = ckpt /\ depth' = 0
  /\ round' = "head" /\ evalHead' = 0 /\ left' = 0
  /\ UNCHANGED <<envVars, dbVars, starts>>

\* handleReorg, the search: from lastApplied downwards, given up at the first
\* height that has no canonical row, or beyond MaxDepth.
Layer == {r \in canon : r.num = lastApplied.num - depth}

\* The row's hash is compared with that of the header served at its height.
IsAncestor_Unread(r) == r.num <= view.head
IsAncestor(r)        == IsOn(r, view)

SearchAncestor ==
  /\ pc = "search"
  /\ depth <= MaxDepth
  /\ \E r \in Layer :
       /\ r.num <= view.head
       /\ IF IsAncestor(r)
          THEN pc' = "rollback" /\ hdr' = r /\ UNCHANGED depth
          ELSE depth' = depth + 1 /\ UNCHANGED <<pc, hdr>>
  /\ UNCHANGED <<envVars, memVars, evalVars, dbVars, target, chunkTo, batch,
                 checked, starts>>

NoAncestor ==
  /\ pc = "search"
  /\ depth > MaxDepth \/ Layer = {}
  /\ Exit("no_ancestor")

\* handleReorg, the rollback.  The caller leaves the scan of the chunk and goes
\* on with the anchor of the same chunk.
AfterRollback_Refetch == "fetch"
AfterRollback         == "anchor"

\* reg.Reset and RestorePools: no log of a rolled-back block stays applied.
RestoredRegistry_NoReset == registry
RestoredRegistry         == {}

Rollback ==
  /\ pc = "rollback"
  /\ hdr.num <= view.head
  /\ RollbackToAncestor(hdr)
  /\ lastApplied'   = hdr
  /\ lastEvaluated' = Lower(lastEvaluated, hdr.num)
  /\ registry'      = RestoredRegistry
  /\ batch'         = {}
  /\ depth'         = 0
  /\ pc'            = AfterRollback
  /\ UNCHANGED <<envVars, evalVars, target, chunkTo, checked, hdr, starts>>

\* The anchor: a history row and the checkpoint for the chunk's last height.
CommitAnchor ==
  /\ pc = "anchor"
  /\ chunkTo <= view.head
  /\ CommitBlockIngest(BlockAt(view, chunkTo), {})
  /\ lastApplied' = BlockAt(view, chunkTo)
  /\ hdr'         = lastApplied'
  /\ pc'          = "load"
  /\ UNCHANGED <<envVars, evalVars, target, chunkTo, batch, checked, depth,
                 lastEvaluated, registry, starts>>

\* A header above the served head: the read fails and the process exits.
Needed == CASE pc = "scan"     -> {b.num : b \in NextBlock}
            [] pc = "search"   -> {r.num : r \in Layer}
            [] pc = "rollback" -> {hdr.num}
            [] pc = "anchor"   -> {chunkTo}
            [] OTHER           -> {}

HeaderMissing ==
  /\ \E h \in Needed : h > view.head
  /\ Exit("down")

-----------------------------------------------------------------------------
(* Evaluation.                                                             *)

\* Where the goroutine goes after an evaluation batch, complete or not.
Resume ==
  IF round = "head"
  THEN pc' = "wait" /\ UNCHANGED round
  ELSE IF lastApplied.num < target
       THEN pc' = "fetch" /\ UNCHANGED round
       ELSE pc' = "load" /\ round' = "head"

LoadPending ==
  /\ pc = "load"
  /\ evalHead' = view.head
  /\ left'     = EvalBudget
  /\ pc'       = "eval"
  /\ UNCHANGED <<envVars, workVars, memVars, dbVars, round, starts>>

Exhausted_AlwaysBudgeted == left = 0
Exhausted == round = "chunk" /\ left = 0

Stale(b) == ~Strict /\ evalHead > b.num + MaxLag

\* The memory cursor follows the database when the commit is acknowledged; when
\* the acknowledgement is lost the batch ends and the cursor stays.
Acknowledge(b) ==
  \/ /\ lastEvaluated' = b.num
     /\ left' = IF left > 0 THEN left - 1 ELSE 0
     /\ UNCHANGED <<pc, round>>
  \/ /\ Errors
     /\ Resume
     /\ UNCHANGED <<lastEvaluated, left>>

SkipBlock ==
  /\ pc = "eval" /\ ~Exhausted
  /\ \E r \in FirstPending(lastEvaluated) :
       /\ Stale(r.block)
       /\ SkipStaleBlock(r.block)
       /\ Acknowledge(r.block)
  /\ UNCHANGED <<envVars, workVars, lastApplied, registry, evalHead, starts>>

\* historical_strict reads the state at the queued height itself.
StateReadable(b) == Strict => b.num <= view.head

\* ProcessBlockAt and CommitEvaluation; the candidates' amounts depend on the
\* pool state the RPC node returns, so any subset may come out.
EvaluateBlock ==
  /\ pc = "eval" /\ ~Exhausted
  /\ \E r \in FirstPending(lastEvaluated), amounts \in SUBSET Amount :
       /\ ~Stale(r.block)
       /\ StateReadable(r.block)
       /\ CommitEvaluation(r.block, amounts,
                           IF Strict THEN r.block.num ELSE evalHead)
       /\ Acknowledge(r.block)
  /\ UNCHANGED <<envVars, workVars, lastApplied, registry, evalHead, starts>>

EvaluationDone ==
  /\ pc = "eval"
  /\ Exhausted \/ Pending(lastEvaluated) = {}
  /\ Resume
  /\ UNCHANGED <<envVars, workVars, memVars, dbVars, evalHead, left, starts>>

\* A read fails: the block stays unevaluated and the batch ends.
EvaluationFails ==
  /\ \/ Errors /\ pc \in {"load", "eval"}
     \/ /\ pc = "eval"
        /\ \E r \in FirstPending(lastEvaluated) : ~StateReadable(r.block)
  /\ Resume
  /\ UNCHANGED <<envVars, workVars, memVars, dbVars, evalHead, left, starts>>

-----------------------------------------------------------------------------
(* Start, main loop, failure, and the chain itself.                        *)

\* The process starts from the two cursors in the database and backfills to
\* the head; with nothing to backfill it evaluates what is queued.
Start ==
  /\ pc \in Down
  /\ starts < MaxStarts
  /\ starts'        = starts + 1
  /\ lastApplied'   = ckpt
  /\ lastEvaluated' = evalCkpt.num
  /\ registry'      = {}
  /\ target'        = view.head
  /\ pc'            = IF ckpt.num < view.head THEN "fetch" ELSE "load"
  /\ round'         = IF ckpt.num < view.head THEN "chunk" ELSE "head"
  /\ UNCHANGED <<envVars, dbVars, chunkTo, batch, checked, hdr, depth, evalHead, left>>

\* A head event above lastApplied; lower ones are dropped.
NewHead ==
  /\ pc = "wait"
  /\ \E h \in lastApplied.num + 1 .. view.head : target' = h
  /\ pc'    = "fetch"
  /\ round' = "chunk"
  /\ UNCHANGED <<envVars, memVars, dbVars, chunkTo, batch, checked, hdr, depth,
                 evalHead, left, starts>>

\* The process dies, or exits because a read or an ingest transaction failed.
Stop ==
  /\ pc \notin Down
  /\ Exit("down")

Extends(c, d) == d.head <= c.head /\ \A h \in 0 .. d.head : c.at[h] = d.at[h]

\* The node's chain grows.
ChainGrows ==
  /\ \E c \in Chains \ {view} : Extends(c, view) /\ view' = c
  /\ UNCHANGED <<switches, workVars, evalVars, memVars, dbVars, pc, starts>>

\* The node's chain is replaced: a reorganisation, or a load balancer that
\* hands over to a node with another or a shorter chain.
ChainSwitches ==
  /\ switches < MaxSwitches
  /\ Roaming \/ pc \notin Working
  /\ \E c \in Chains : ~Extends(c, view) /\ view' = c
  /\ switches' = switches + 1
  /\ UNCHANGED <<workVars, evalVars, memVars, dbVars, pc, starts>>

-----------------------------------------------------------------------------
\* The database is the one InitializeBlockCheckpoint leaves behind: both
\* cursors and one history row at the head of the chain served at that moment.
Init ==
  /\ view \in Chains
  /\ switches = 0
  /\ ckpt = BlockAt(view, view.head)
  /\ evalCkpt = ckpt
  /\ canon = {ckpt}
  /\ orphan = {} /\ queue = {} /\ audits = {} /\ opps = {}
  /\ pc = "down" /\ starts = 0
  /\ lastApplied = ckpt /\ lastEvaluated = ckpt.num /\ registry = {}
  /\ target = 0 /\ chunkTo = 0 /\ batch = {} /\ checked = FALSE
  /\ hdr = ckpt /\ depth = 0
  /\ round = "head" /\ evalHead = 0 /\ left = 0

Process ==
  \/ FetchLogs \/ ReadHeader \/ RecheckParent \/ CommitBlock
  \/ SearchAncestor \/ NoAncestor \/ Rollback \/ CommitAnchor \/ HeaderMissing
  \/ LoadPending \/ SkipBlock \/ EvaluateBlock \/ EvaluationDone \/ EvaluationFails
  \/ NewHead

Next ==
  \/ Process
  \/ Start
  \/ Stop
  \/ ChainGrows
  \/ ChainSwitches

Spec == Init /\ [][Next]_vars

\* The goroutine keeps running until it stops; heads keep arriving.  Nothing
\* makes anybody restart it, nor the chain grow.
FairSpec == Spec /\ WF_vars(Process)

-----------------------------------------------------------------------------
(* Properties.                                                             *)

\* Every variable keeps its type.
TypeOK ==
  /\ view \in Chains /\ switches \in Nat /\ starts \in Nat
  /\ pc \in Down \cup Working \cup {"wait"}
  /\ lastApplied \in Hash /\ lastEvaluated \in Nat /\ registry \subseteq Logged
  /\ target \in Nat /\ chunkTo \in Nat /\ batch \subseteq Logged
  /\ checked \in BOOLEAN /\ hdr \in Hash /\ depth \in Nat
  /\ round \in {"chunk", "head"} /\ evalHead \in Nat /\ left \in Nat
  /\ ckpt \in Hash /\ evalCkpt \in Hash /\ canon \subseteq Hash /\ orphan \subseteq Hash
  /\ queue \subseteq [block : Hash, src : Logged]
  /\ audits \subseteq Hash
  /\ opps \subseteq [block : Hash, amount : Amount, state : Nat, canonical : BOOLEAN]

\* The evaluation cursor never overtakes the ingest cursor (main.go:374), and
\* the cursors in memory never run ahead of the two in the database, whatever
\* acknowledgement was lost and wherever the process died.
CursorsAgree ==
  /\ evalCkpt.num <= ckpt.num
  /\ lastApplied = ckpt
  /\ lastEvaluated <= evalCkpt.num

\* The checkpoint is a canonical history row and no canonical row lies above
\* it, so an ancestor search always has a layer to start from (postgres.go:592).
HistoryEndsAtCheckpoint ==
  /\ ckpt \in canon
  /\ \A b \in canon : b.num <= ckpt.num

\* The evaluation queue holds canonical blocks only, and one per height: the
\* grouping of LoadPendingAffected by height never mixes two blocks' pools.
QueueUnambiguous ==
  /\ \A r \in queue : r.block \in canon
  /\ \A r, s \in queue : r.block.num = s.block.num => r = s

\* No queued block is passed by the evaluation cursor without being evaluated
\* or skipped on record (migration 0008: candidates are not lost in a crash).
NoLostEvaluation ==
  \A r \in queue : r.block.num <= evalCkpt.num => r.block \in audits

\* A candidate that counts as canonical was triggered by a block that is
\* canonical in the history and lies at or below the evaluation cursor.
CandidatesTraceable ==
  \A o \in opps : o.canonical => o.block \in canon /\ o.block.num <= evalCkpt.num

\* The pools in memory have applied the logs of at most one block per height, and
\* only of heights the history has a canonical row for: neither a failed
\* transaction nor a rolled-back block leaves a trace (main.go:400, exactly once).
AppliedOnce ==
  /\ \A x, y \in registry : x.num = y.num => x = y
  /\ \A x \in registry : \E r \in canon : r.num = x.num

\* A block is evaluated for the pools that the logs applied in memory touched,
\* although logs and header are two answers of the node and may come from two
\* forks (main.go:774): the queue never names the pools of another block
\* than the one whose logs were applied at that height.
QueuedAsApplied ==
  \A x \in registry, r \in queue : r.block.num = x.num => r.src = x

\* The evaluation cursor moves up from one queued canonical block to the next,
\* never over one.
EvaluatedInOrder ==
  [][evalCkpt'.num > evalCkpt.num =>
       /\ evalCkpt' \in canon
       /\ \A r \in queue : ~(evalCkpt.num < r.block.num /\ r.block.num < evalCkpt'.num)]_vars

\* A rollback goes to a block of the chain served at that moment, and orphans
\* no block of that chain.
RollbackMeetsChain ==
  [][pc = "rollback" /\ pc' \notin Down \cup {"rollback"} =>
       /\ IsOn(ckpt', view)
       /\ \A b \in canon \ canon' : ~IsOn(b, view)]_vars

\* Once the chain stays as it is, the ingest cursor reaches its head unless the
\* process has ended.
CatchesUp == <>[](pc \in Down \/ ckpt.num >= view.head)

\* ... and every queued block is evaluated.
QueueDrained == <>[](pc \in Down \/ Pending(evalCkpt.num) = {})

\* Every Swap of the chain the cursor stands on, between the first block of
\* the history and the cursor, is in the queue (main.go:706, no silent loss).
NoSilentLoss ==
  \A c \in Chains : IsOn(ckpt, c) =>
    \A h \in 0 .. ckpt.num :
      /\ BlockAt(c, h) \in Swapped
      /\ \E b \in canon : b.num < h
      => \E r \in queue : r.src = BlockAt(c, h)

\* No two canonical history rows of one height (commit_block_result_test.go:170).
OneCanonicalPerHeight ==
  \A b, d \in canon : b.num = d.num => b = d

-----------------------------------------------------------------------------
(* The two cursors and the queue as the abstract specification sees them.  *)

openHeights == {r.block.num : r \in Pending(evalCkpt.num)}

Abstract == INSTANCE DualCursor WITH
  ingested <- ckpt.num, evaluated <- evalCkpt.num, open <- openHeights

\* The pipeline implements the dual-cursor queue.
ImplementsDualCursor == Abstract!Spec
=============================================================================
