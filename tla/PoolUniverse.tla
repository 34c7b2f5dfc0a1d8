---------------------------- MODULE PoolUniverse ----------------------------
(***************************************************************************)
(* How the WETH pools get into the system before any event is handled.     *)
(* "rh-cli pools bootstrap" (cmd/rh-cli/main.go) scans the factory's logs  *)
(* in adaptive batches into a file of one line per pool, notes each        *)
(* finished batch in a checkpoint file, resumes from it, and writes the    *)
(* file to PostgreSQL; rh-arbitrage restores the pools of the database and *)
(* scans on from its cursor (internal/dex/v3/bootstrap.go).  The process   *)
(* may die between any two steps, a line may reach the disk in part, and   *)
(* queries fail.                                                           *)
(***************************************************************************)
EXTENDS Integers, FiniteSets

CONSTANTS
  Pool,          \* WETH pools the factory creates
  Created,       \* ... and the block of each
  Genesis,       \* the factory's block
  MaxTip,        \* bound: the chain's length
  MinBatch,      \* 1000 blocks: a query this small is not halved any more
  MaxBatch,      \* 100000 blocks
  MaxFails,      \* 3: failures in a row that Bootstrap answers by halving
  MaxRuns        \* bound: runs of the two programs

ASSUME UniverseAssumption ==
  /\ Genesis \in Nat \ {0} /\ MaxTip \in Nat /\ Genesis <= MaxTip
  /\ Created \in [Pool -> Genesis .. MaxTip]
  /\ MinBatch \in Nat \ {0} /\ MaxBatch \in Nat /\ MinBatch <= MaxBatch
  /\ MaxFails \in Nat /\ MaxRuns \in Nat

VARIABLES
  tip,                 \* height of the chain
  listed,              \* pools with a whole line in the universe file
  end,                 \* last line: "whole", "torn", or "spoilt" (written onto a torn one)
  ckpt,                \* block in the checkpoint file (0: none)
  dbPools, dbCursor,   \* dex_pools and the arbitrage:pools checkpoint
  pc,                  \* step of the program that runs
  from, head, batch, fails,
  last,                \* last block of the batches that are done
  found,               \* pools of the batch that are still to be written
  registry,            \* pools in the memory of rh-arbitrage
  runs

file == <<listed, end, ckpt>>
database == <<dbPools, dbCursor>>
vars == <<tip, file, database, pc, from, head, batch, fails, last, found, registry, runs>>

Least(x, y)    == IF x <= y THEN x ELSE y
Greatest(x, y) == IF x >= y THEN x ELSE y

\* End of the batch that starts at from.
To == Least(from + batch - 1, head)

CreatedIn(a, b) == {p \in Pool : Created[p] \in a .. b}
Loadable        == end = "whole"    \* LoadUniverse: one bad line spoils the file

-----------------------------------------------------------------------------
(* rh-cli pools bootstrap.                                                 *)

\* The checkpoint only moves the start forward.
Resume(start) == IF ckpt >= start THEN ckpt + 1 ELSE start

\* Start: nothing to do, or the first batch.
StartScan ==
  /\ pc = "down" /\ runs < MaxRuns
  /\ pc' = "discover" /\ runs' = runs + 1
  /\ from' = Resume(Genesis) /\ head' \in from' .. tip /\ last' = 0
  /\ \E b \in 1 .. MaxBatch : batch' = b     \* the --batch flag
  /\ fails' = 0 /\ found' = {} /\ registry' = {}
  /\ UNCHANGED <<tip, file, database>>

\* DiscoverWETHPools: both queries of the batch succeed, or one of them fails.
Halvable_Floorless == TRUE   \* mutant: no smallest batch
Halvable == batch > MinBatch

\* Mutant: the checkpoint is written before the pools.
Discover_Early ==
  /\ pc = "discover" /\ from <= head
  /\ found' = CreatedIn(from, To) /\ pc' = "append" /\ ckpt' = To
  /\ UNCHANGED <<tip, listed, end, database, from, head, batch, fails, last, registry, runs>>

Discover ==
  /\ pc = "discover" /\ from <= head
  /\ \/ /\ found' = CreatedIn(from, To) /\ pc' = "append"
        /\ UNCHANGED batch
     \/ /\ Halvable /\ batch' = batch \div 2
        /\ UNCHANGED <<found, pc>>
     \/ /\ ~Halvable /\ pc' = "down"
        /\ UNCHANGED <<batch, found>>
  /\ UNCHANGED <<tip, file, database, from, head, fails, last, registry, runs>>

\* AppendUniverseLine: a whole line, or a part of it, on which the program exits.
Append(p) ==
  /\ pc = "append" /\ p \in found
  /\ \/ /\ listed' = IF end = "torn" THEN listed ELSE listed \cup {p}
        /\ end' = IF end = "torn" THEN "spoilt" ELSE end
        /\ found' = found \ {p} /\ UNCHANGED pc
     \/ /\ end' = IF end = "whole" THEN "torn" ELSE end
        /\ pc' = "down" /\ UNCHANGED <<listed, found>>
  /\ UNCHANGED <<tip, ckpt, database, from, head, batch, fails, last, registry, runs>>

Grown == IF batch < MaxBatch THEN Least(2 * batch, MaxBatch) ELSE batch

\* The checkpoint of the finished batch.  The file is truncated and written anew
\* and an error is ignored, so it may hold a first part of the number.
WriteCheckpoint ==
  /\ pc = "append" /\ found = {}
  /\ \E c \in 0 .. To : ckpt' = c
  /\ from' = To + 1 /\ last' = To /\ batch' = Grown
  /\ pc' = "discover"
  /\ UNCHANGED <<tip, listed, end, database, head, fails, found, registry, runs>>

\* After the last batch, or after --max-batches: the file goes to PostgreSQL.
\* Mutant: the head is noted as done, also after --max-batches.
CommitUniverse_Head ==
  /\ pc = "discover" /\ last # 0
  /\ pc' = "down"
  /\ Loadable /\ dbPools' = dbPools \cup listed /\ dbCursor' = head
  /\ UNCHANGED <<tip, file, from, head, batch, fails, last, found, registry, runs>>

CommitUniverse ==
  /\ pc = "discover" /\ last # 0
  /\ pc' = "down"
  /\ \/ /\ Loadable
        /\ dbPools' = dbPools \cup listed /\ dbCursor' = last
     \/ UNCHANGED database           \* no database, or it fails, or the file does not load
  /\ UNCHANGED <<tip, file, from, head, batch, fails, last, found, registry, runs>>

-----------------------------------------------------------------------------
(* The start of rh-arbitrage: RestorePools, Bootstrap, CommitPools.        *)

StartArbitrage ==
  /\ pc = "down" /\ runs < MaxRuns
  /\ pc' = "bootstrap" /\ runs' = runs + 1
  /\ registry' = dbPools
  /\ from' = Greatest(dbCursor, Genesis) /\ last' = from' /\ head' \in Genesis .. tip
  /\ batch' = MaxBatch /\ fails' = 0 /\ found' = {}
  /\ UNCHANGED <<tip, file, database>>

\* DiscoverPools of a batch; after a success the batch is as large as at first.
Bootstrap ==
  /\ pc = "bootstrap" /\ from <= head
  /\ \/ /\ registry' = registry \cup CreatedIn(from, To)
        /\ from' = To + 1 /\ last' = To /\ fails' = 0 /\ batch' = MaxBatch
        /\ UNCHANGED pc
     \/ /\ fails' = fails + 1
        /\ \/ Halvable /\ fails' <= MaxFails /\ batch' = batch \div 2 /\ UNCHANGED pc
           \/ (~Halvable \/ fails' > MaxFails) /\ pc' = "down" /\ UNCHANGED batch
        /\ UNCHANGED <<registry, from, last>>
  /\ UNCHANGED <<tip, file, database, head, found, runs>>

\* Pools and cursor in one transaction.
CommitPools ==
  /\ pc = "bootstrap" /\ from > head
  /\ pc' = "down"
  /\ \/ dbPools' = dbPools \cup registry /\ dbCursor' = last
     \/ UNCHANGED database
  /\ UNCHANGED <<tip, file, from, head, batch, fails, last, found, registry, runs>>

-----------------------------------------------------------------------------
(* The environment.                                                        *)

Crash ==
  /\ pc # "down" /\ pc' = "down"
  /\ UNCHANGED <<tip, file, database, from, head, batch, fails, last, found, registry, runs>>

ChainGrows ==
  /\ tip < MaxTip /\ tip' = tip + 1
  /\ UNCHANGED <<file, database, pc, from, head, batch, fails, last, found, registry, runs>>

Init ==
  /\ tip = Genesis
  /\ listed = {} /\ end = "whole" /\ ckpt = 0
  /\ dbPools = {} /\ dbCursor = 0
  /\ pc = "down" /\ from = Genesis /\ head = Genesis /\ batch = MaxBatch /\ fails = 0 /\ last = 0
  /\ found = {} /\ registry = {} /\ runs = 0

Step ==
  \/ Discover \/ (\E p \in Pool : Append(p)) \/ WriteCheckpoint \/ CommitUniverse
  \/ Bootstrap \/ CommitPools

Next == StartScan \/ StartArbitrage \/ Step \/ Crash \/ ChainGrows

Spec == Init /\ [][Next]_vars

\* A program that runs goes on; nobody has to start one.
FairSpec == Spec /\ WF_vars(Step)
-----------------------------------------------------------------------------
(* Properties.                                                             *)

TypeOK ==
  /\ tip \in Genesis .. MaxTip
  /\ listed \subseteq Pool /\ end \in {"whole", "torn", "spoilt"} /\ ckpt \in 0 .. tip
  /\ dbPools \subseteq Pool /\ dbCursor \in 0 .. tip
  /\ pc \in {"down", "discover", "append", "bootstrap"}
  /\ from \in Genesis .. MaxTip + 1 /\ head \in Genesis .. tip
  /\ batch \in 1 .. MaxBatch /\ fails \in Nat /\ last \in 0 .. tip
  /\ found \subseteq Pool /\ registry \subseteq Pool /\ runs \in 0 .. MaxRuns

\* A universe file that loads holds every pool created up to its checkpoint,
\* wherever runs were cut short: pools without swaps are in no other source
\* (universe.go:2).  Lines come before the checkpoint, and a damaged checkpoint
\* only makes the next run start earlier.
UniverseComplete == Loadable => CreatedIn(Genesis, ckpt) \subseteq listed

\* The database holds every pool created up to its pools cursor, whichever of
\* the two programs wrote it last and however far each had come.
DatabaseComplete == CreatedIn(Genesis, dbCursor) \subseteq dbPools

\* A run ends, whatever the node answers: halving the batch is bounded, and a
\* batch that succeeds is never asked for again.
RunEnds == []<>(pc = "down")
=============================================================================
