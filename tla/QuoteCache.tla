----------------------------- MODULE QuoteCache -----------------------------
(***************************************************************************)
(* The caches behind a quote: LocalSearcher's headers and snapshots        *)
(* (internal/arbitrage/candidate.go) and Adapter's tickBitmap words        *)
(* (internal/dex/v3/adapter.go), in the two programs that use them.        *)
(*                                                                         *)
(* rh-canary (Streamed) evaluates at the head its newHeads subscription    *)
(* announced and drops a pool's cached state when a Mint or Burn of the    *)
(* pool comes by.  rh-arbitrage evaluates at the head it asked for, or at  *)
(* the queued block (Strict), never drops anything, and instead reloads    *)
(* the word of the pool in its registry, which every refresh prefers.      *)
(*                                                                         *)
(* A pool's price state is told apart by the block it was read at, its     *)
(* current bitmap word by the blocks whose Mint or Burn it reflects.       *)
(* An evaluation covers one route through all pools.                       *)
(***************************************************************************)
EXTENDS Integers, FiniteSets

CONSTANTS
  Fork,        \* labels telling apart the blocks of one height
  Chains,      \* the chains an RPC node may serve
  Pool,        \* the pools of the route
  Flips,       \* per pool: blocks with a Mint or Burn that changes its word
  Modes,       \* the programs, flags and surroundings to consider, see Mode
  HeaderSlots, \* headers kept before the header cache is emptied (16)
  MaxSwitches, \* bound: how often a served chain that roams is replaced
  None         \* nothing cached

Block == [num : Nat, fork : Fork]

\* How a process runs, fixed when it starts.
Mode == [streamed  : BOOLEAN,  \* TRUE: rh-canary, FALSE: rh-arbitrage
         strict    : BOOLEAN,  \* simulation mode historical_strict
         verified  : BOOLEAN,  \* an evaluator that implements VerifyBlockHash
         headFirst : BOOLEAN,  \* newHeads announces a block before its logs are handled
         bursts    : BOOLEAN,  \* rh-canary: routes are profitable and quoted again
         errors    : BOOLEAN,  \* RPC calls may fail
         roams     : BOOLEAN]  \* the served chain may be replaced

ASSUME QuoteAssumption ==
  /\ \A c \in Chains : c.head \in Nat /\ c.at \in [0 .. c.head -> Fork]
  /\ Flips \in [Pool -> SUBSET Block]
  /\ None \notin Block
  /\ None \notin [slot : Block, word : SUBSET Block]
  /\ \A p \in Pool : \A w \in SUBSET Flips[p] : w # None
  /\ HeaderSlots \in Nat \ {0} /\ MaxSwitches \in Nat
  /\ Modes \subseteq Mode

VARIABLES
  mode,      \* how this process runs
  view,      \* the chain the node serves
  switches,  \* how often it was replaced
  known,     \* rh-canary: headVal
  pushed,    \* the header newHeads has yet to hand to the searcher, or None
  burst,     \* the head a burstDecay goroutine has read, or None
  hint,      \* headerHint
  headers,   \* headerCache
  cacheHead, \* snapshotCacheHead
  snaps,     \* snapshotCache: per pool [slot, word], or None
  words,     \* bitmapWordCache: per pool a word, or None
  loaded,    \* the word the registry's pool has loaded, or None
  told,      \* per pool: Mints and Burns the process has handled
  applied,   \* rh-arbitrage: lastApplied (rh-canary: H0, where it started)
  evaluated, \* rh-arbitrage: height of the last evaluated block
  pc,        \* where the evaluation is
  job        \* its block number, whether it is burstDecay's, its header, the
             \* pools being refreshed and the block their prices are from

nodeVars  == <<mode, view, switches>>
headVars  == <<known, pushed, burst, hint>>
cacheVars == <<headers, cacheHead, snaps, words>>
feedVars  == <<loaded, told, applied, evaluated>>
vars == <<nodeVars, headVars, cacheVars, feedVars, pc, job>>

Streamed == mode.streamed
Strict   == mode.strict
Verified == mode.verified
Errors   == mode.errors

BlockAt(c, h) == [num |-> h, fork |-> c.at[h]]
IsOn(b, c)    == b.num <= c.head /\ c.at[b.num] = b.fork
Served(h)     == h <= view.head

\* tickBitmap of a pool's current word at a height of a chain.
WordAt(c, p, h) == {b \in Flips[p] : b.num <= h /\ IsOn(b, c)}

-----------------------------------------------------------------------------
(* The evaluation.                                                         *)

\* rh-arbitrage: the queued block is evaluated at the head asked for by the batch,
\* or at itself.
StateHeight_Next == view.head + 1
StateHeight == IF Strict THEN evaluated + 1 ELSE view.head

Begin ==
  /\ ~Streamed
  /\ pc = "idle"
  /\ evaluated < applied.num
  /\ job' = [job EXCEPT !.num = StateHeight]
  /\ pc' = "header"
  /\ UNCHANGED <<nodeVars, headVars, cacheVars, feedVars>>

\* rh-canary reads head and header together, under headMu; the head it starts
\* from came without a header.
TakeHead ==
  /\ Streamed
  /\ pc = "idle"
  /\ job' = [job EXCEPT !.num = known.num, !.again = FALSE,
                        !.header = IF known = applied THEN None ELSE known]
  /\ pc' = "pin"
  /\ UNCHANGED <<nodeVars, headVars, cacheVars, feedVars>>

\* It pins the header as the searcher's hint after it has released headMu:
\* newHeads may have announced another head by then, and replace the hint later.
PinHint ==
  /\ pc = "pin"
  /\ hint' = IF job.header = None THEN hint ELSE job.header
  /\ pc' = "header"
  /\ UNCHANGED <<nodeVars, known, pushed, burst, cacheVars, feedVars, job>>

\* burstDecay quotes a route again from a goroutine of its own: it reads the
\* head, then waits for engineMu.
BurstReadsHead ==
  /\ Streamed /\ mode.bursts
  /\ burst = None
  /\ burst' = known
  /\ UNCHANGED <<nodeVars, known, pushed, hint, cacheVars, feedVars, pc, job>>

BurstBegins ==
  /\ pc = "idle"
  /\ burst # None
  /\ job' = [job EXCEPT !.num = burst.num, !.again = TRUE]
  /\ burst' = None
  /\ pc' = "header"
  /\ UNCHANGED <<nodeVars, known, pushed, hint, cacheVars, feedVars>>

\* cachedHeaderAt: the hint, the cache by number, or the node.
Hinted  == hint # None /\ hint.num = job.num
Cached  == {b \in headers : b.num = job.num}
Remembered(b) == (IF Cardinality(headers) >= HeaderSlots THEN {} ELSE headers) \cup {b}

\* A header with another hash than the last one empties the snapshot cache.
Kept_Always(b) == snaps
Kept(b) == IF cacheHead = b THEN snaps ELSE [p \in Pool |-> None]

ReadHeader ==
  /\ pc = "header"
  /\ \E b \in IF Hinted THEN {hint}
              ELSE IF Cached # {} THEN Cached
              ELSE {BlockAt(view, h) : h \in {job.num} \cap 0 .. view.head} :
       /\ job'       = [job EXCEPT !.header = b]
       /\ headers'   = IF Hinted \/ Cached # {} THEN headers ELSE Remembered(b)
       /\ snaps'     = Kept(b)
       /\ cacheHead' = b
  /\ pc' = IF \E p \in Pool : snaps'[p] = None THEN "price" ELSE "verify"
  /\ UNCHANGED <<nodeVars, headVars, words, feedVars>>

\* SnapshotTokenGroup refreshes all missing pools together, SnapshotRoute one
\* by one.
Missing == {p \in Pool : snaps[p] = None}
Batches == IF Streamed /\ ~job.again THEN {Missing} ELSE {{p} : p \in Missing}

\* Words the pools have loaded are merged into the word cache first.
Merged_Kept(g) ==
  [p \in Pool |-> IF p \in g /\ words[p] = None THEN loaded[p] ELSE words[p]]
Merged(g) ==
  [p \in Pool |-> IF p \in g /\ loaded[p] # None THEN loaded[p] ELSE words[p]]

\* RefreshPoolsStateAt, phase 1: slot0 and liquidity by block number ...
ReadPrices ==
  /\ pc = "price"
  /\ Served(job.num)
  /\ \E g \in Batches :
       /\ job'   = [job EXCEPT !.pools = g, !.slot = BlockAt(view, job.num)]
       /\ words' = Merged(g)
  /\ pc' = "word"
  /\ UNCHANGED <<nodeVars, headVars, headers, cacheHead, snaps, feedVars>>

\* ... phase 2: the words that are not cached.
Uncached == {p \in job.pools : words[p] = None}
WordRead_Latest(p) == WordAt(view, p, view.head)
WordRead(p) == WordAt(view, p, job.num)

ReadWords ==
  /\ pc = "word"
  /\ Uncached = {} \/ Served(job.num)
  /\ words' = [p \in Pool |-> IF p \in Uncached THEN WordRead(p) ELSE words[p]]
  /\ snaps' = [p \in Pool |-> IF p \in job.pools
                              THEN [slot |-> job.slot, word |-> words'[p]]
                              ELSE snaps[p]]
  /\ pc' = IF \E p \in Pool : snaps'[p] = None THEN "price" ELSE "verify"
  /\ UNCHANGED <<nodeVars, headVars, headers, cacheHead, feedVars, job>>

\* The sim node's block of that number must have the snapshot's hash.
Agreed_Number == Served(job.num)
Agreed == IsOn(job.header, view)

Verify ==
  /\ pc = "verify"
  /\ Verified => Agreed
  /\ pc' = "quote"
  /\ UNCHANGED <<nodeVars, headVars, cacheVars, feedVars, job>>

\* The route is quoted on the snapshot; rh-arbitrage commits the evaluation.
Quote ==
  /\ pc = "quote"
  /\ pc' = "idle"
  /\ evaluated' = IF Streamed THEN evaluated ELSE evaluated + 1
  /\ UNCHANGED <<nodeVars, headVars, cacheVars, loaded, told, applied, job>>

\* A read that fails, a height the node does not have, or a hash mismatch ends
\* the evaluation; what the caches took in stays.
Fail ==
  /\ \/ Errors /\ pc \in {"header", "price", "word", "verify"}
     \/ pc = "header" /\ ~Hinted /\ Cached = {} /\ ~Served(job.num)
     \/ pc = "price" /\ ~Served(job.num)
     \/ pc = "word" /\ Uncached # {} /\ ~Served(job.num)
     \/ pc = "verify" /\ Verified /\ ~Agreed
  /\ words' \in IF pc = "price" THEN {Merged(g) : g \in Batches} ELSE {words}
  /\ pc' = "idle"
  /\ UNCHANGED <<nodeVars, headVars, headers, cacheHead, snaps, feedVars, job>>

-----------------------------------------------------------------------------
(* rh-canary: heads and Mint or Burn logs.                                 *)

\* The newHeads goroutine sets the head under headMu ...
NewHead ==
  /\ Streamed
  /\ pushed = None
  /\ \E h \in known.num + 1 .. view.head : known' = BlockAt(view, h)
  /\ pushed' = known'
  /\ UNCHANGED <<nodeVars, burst, hint, cacheVars, feedVars, pc, job>>

\* ... and, having released it, the searcher's hint.
SetHeaderHint ==
  /\ pushed # None
  /\ hint' = pushed
  /\ pushed' = None
  /\ UNCHANGED <<nodeVars, known, burst, cacheVars, feedVars, pc, job>>

\* handleLPEvent drops the pool's word and its snapshot.
Invalidate_SnapshotOnly(p) ==
  snaps' = [snaps EXCEPT ![p] = None] /\ UNCHANGED words
Invalidate(p) ==
  snaps' = [snaps EXCEPT ![p] = None] /\ words' = [words EXCEPT ![p] = None]

\* Logs come in block order.
NextLogs(p) ==
  {b \in WordAt(view, p, view.head) \ told[p] :
     \A q \in Pool : \A d \in WordAt(view, q, b.num - 1) : d \in told[q]}

HandleLPEvent(p) ==
  /\ Streamed
  /\ pc = "idle"
  /\ \E b \in NextLogs(p) :
       /\ mode.headFirst => b.num <= known.num
       /\ told' = [told EXCEPT ![p] = @ \cup {b}]
  /\ Invalidate(p)
  /\ UNCHANGED <<nodeVars, headVars, headers, cacheHead, loaded, applied,
                 evaluated, pc, job>>

-----------------------------------------------------------------------------
(* rh-arbitrage: ingestion and reorganisation.                             *)

\* After the commit the Mint or Burn is applied to the word if it is loaded,
\* and the word is reloaded from the latest state.  Where the reload fails the
\* applied word stays: right, or unchanged if the tick's history is incomplete.
Touched(b) == {p \in Pool : b \in Flips[p]}
Failing(b) == IF Errors THEN SUBSET Touched(b) ELSE {{}}
Reloaded(p, b, failing, right) ==
  CASE p \notin Touched(b)                  -> loaded[p]
    [] p \in Touched(b) \ failing           -> WordAt(view, p, view.head)
    [] p \in right /\ loaded[p] # None      -> loaded[p] \cup {b}
    [] OTHER                                -> loaded[p]

Ingest ==
  /\ ~Streamed
  /\ pc = "idle"
  /\ IsOn(applied, view) /\ applied.num < view.head
  /\ applied' = BlockAt(view, applied.num + 1)
  /\ told'    = [p \in Pool |-> told[p] \cup ({applied'} \cap Flips[p])]
  /\ \E failing \in Failing(applied') : \E right \in SUBSET failing :
       loaded' = [p \in Pool |-> Reloaded(p, applied', failing, right)]
  /\ UNCHANGED <<nodeVars, headVars, cacheVars, evaluated, pc, job>>

\* handleReorg goes back to a common ancestor and rebuilds the registry from
\* the database; the searcher and the adapter keep what they hold.
Rollback ==
  /\ ~Streamed
  /\ pc = "idle"
  /\ ~IsOn(applied, view)
  /\ \E old \in {c \in Chains : IsOn(applied, c)}, h \in 0 .. applied.num - 1 :
       /\ IsOn(BlockAt(old, h), view)
       /\ applied'   = BlockAt(old, h)
       /\ evaluated' = IF evaluated > h THEN h ELSE evaluated
       /\ told'      = [p \in Pool |-> {b \in told[p] : b.num <= h}]
  /\ loaded' = [p \in Pool |-> None]
  /\ UNCHANGED <<nodeVars, headVars, cacheVars, pc, job>>

-----------------------------------------------------------------------------
Extends(c, d) == d.head <= c.head /\ \A h \in 0 .. d.head : c.at[h] = d.at[h]

ChainGrows ==
  /\ \E c \in Chains \ {view} : Extends(c, view) /\ view' = c
  /\ UNCHANGED <<mode, switches, headVars, cacheVars, feedVars, pc, job>>

ChainSwitches ==
  /\ mode.roams /\ switches < MaxSwitches
  /\ \E c \in Chains : ~Extends(c, view) /\ view' = c
  /\ switches' = switches + 1
  /\ UNCHANGED <<mode, headVars, cacheVars, feedVars, pc, job>>

Init ==
  /\ mode \in Modes
  /\ view \in Chains
  /\ switches = 0
  /\ known = BlockAt(view, view.head)
  /\ pushed = None /\ burst = None /\ hint = None
  /\ headers = {} /\ cacheHead = None
  /\ snaps  = [p \in Pool |-> None]
  /\ words  = [p \in Pool |-> None]
  /\ loaded = [p \in Pool |-> None]
  /\ told   = [p \in Pool |-> WordAt(view, p, view.head)]
  /\ applied = BlockAt(view, view.head)
  /\ evaluated = applied.num
  /\ pc = "idle"
  /\ job = [num |-> 0, again |-> FALSE, header |-> None, pools |-> {}, slot |-> None]

Process ==
  \/ Begin \/ TakeHead \/ PinHint \/ BurstBegins
  \/ ReadHeader \/ ReadPrices \/ ReadWords \/ Verify \/ Quote \/ Fail
  \/ Ingest \/ Rollback

Next ==
  \/ Process
  \/ NewHead
  \/ SetHeaderHint
  \/ BurstReadsHead
  \/ \E p \in Pool : HandleLPEvent(p)
  \/ ChainGrows
  \/ ChainSwitches

Spec == Init /\ [][Next]_vars

\* The program's goroutine runs, and ingests whenever it is to evaluate;
\* nothing makes the chain grow.
FairSpec == Spec /\ WF_vars(Process) /\ SF_vars(Ingest) /\ SF_vars(Rollback)

-----------------------------------------------------------------------------
\* Every variable keeps its type, and the header cache its size.
TypeOK ==
  /\ mode \in Modes
  /\ view \in Chains /\ switches \in 0 .. MaxSwitches
  /\ known \in Block /\ {pushed, burst, hint, cacheHead} \subseteq Block \cup {None}
  /\ headers \subseteq Block /\ Cardinality(headers) <= HeaderSlots
  /\ snaps \in [Pool -> [slot : Block, word : SUBSET Block] \cup {None}]
  /\ words \in [Pool -> {None} \cup SUBSET Block]
  /\ loaded \in [Pool -> {None} \cup SUBSET Block]
  /\ told \in [Pool -> SUBSET Block]
  /\ applied \in Block /\ evaluated \in Nat
  /\ pc \in {"idle", "pin", "header", "price", "word", "verify", "quote"}
  /\ job \in [num : Nat, again : BOOLEAN, header : Block \cup {None},
             pools : SUBSET Pool, slot : Block \cup {None}]

\* A quote never uses a bitmap word from before a Mint or Burn the process has
\* handled: invalidation in rh-canary (main.go handleLPEvent, adapter.go
\* InvalidateBitmapCache), the reload in rh-arbitrage (main.go applyCommitted).
NoDroppedFlip ==
  pc = "quote" =>
    \A p \in Pool : {b \in told[p] : b.num <= job.num} \subseteq snaps[p].word

\* ... while a block's header comes before its logs and no route is quoted again
\* at an older head (rh-canary), or while every reload succeeds and blocks are
\* quoted one by one (rh-arbitrage), and the chain stays.
InOrder ==
  /\ switches = 0
  /\ IF Streamed THEN mode.headFirst /\ ~mode.bursts ELSE Strict /\ ~Errors
NoDroppedFlipInOrder == InOrder => NoDroppedFlip

\* No quote uses a word with a Mint or Burn that the quoted block does not
\* contain, where evaluations only ever move up and follow the head.
NothingFromLater ==
  pc = "quote" /\ switches = 0 /\ ~mode.bursts /\ (Streamed \/ ~Strict) =>
    \A p \in Pool : snaps[p].word \subseteq WordAt(view, p, job.num)

\* All pools of a quote were read at the block whose hash the snapshot states,
\* from whatever evaluations the cache took them (candidate.go SnapshotRoute):
\* always on one chain, and on a chain that was replaced once if
\* VerifyBlockHash is consulted (a chain that comes back deceives it).
OneBlock ==
  pc = "quote" /\ (switches = 0 \/ (Verified /\ switches = 1)) =>
    \A p \in Pool : snaps[p].slot = job.header

\* Every ingested block is evaluated in the end where calls succeed and the
\* chain stays (engine.go:324-325).
DrainsWhenSteady ==
  <>[](Streamed \/ Errors \/ switches > 0 \/ evaluated >= applied.num)
=============================================================================
