------------------------- MODULE PoolUniverseProofs -------------------------
(***************************************************************************)
(* Proofs about the pool universe: for every chain, batch size and number  *)
(* of runs, however they are cut short, a universe file that loads is      *)
(* complete up to its checkpoint and the database up to its cursor.        *)
(***************************************************************************)
EXTENDS PoolUniverse, TLAPS

USE UniverseAssumption

\* A scan has listed, in a file that loads, all pools below its next block, and
\* those of the batch being written are listed or still to be written.
Scanning ==
  /\ pc \in {"discover", "append"} /\ Loadable => CreatedIn(Genesis, from - 1) \subseteq listed
  /\ pc = "append" => from <= head
  /\ pc = "append" /\ Loadable => CreatedIn(from, To) \subseteq listed \cup found
  /\ pc = "discover" /\ last # 0 => last = from - 1

\* The start of rh-arbitrage has every pool below its next block in memory, and
\* before its first batch nothing but what the database holds.
Bootstrapping ==
  pc = "bootstrap" =>
    /\ CreatedIn(Genesis, from - 1) \subseteq registry
    /\ dbPools \subseteq registry
    /\ last = from - 1 \/ (last = from /\ from \in {dbCursor, Genesis})

IInv == TypeOK /\ Scanning /\ UniverseComplete /\ Bootstrapping /\ DatabaseComplete

-----------------------------------------------------------------------------
\* Two neighbouring ranges make one.
LEMMA Joined ==
  ASSUME NEW a \in Int, NEW b \in Int, NEW c \in Int
  PROVE  /\ CreatedIn(a, c) \subseteq CreatedIn(a, b - 1) \cup CreatedIn(b, c)
         /\ c <= b => CreatedIn(a, c) \subseteq CreatedIn(a, b)
         /\ c < a => CreatedIn(a, c) = {}
  BY DEF CreatedIn

\* A batch ends where the chain does, at the latest, and never before it starts.
LEMMA BatchEnd ==
  ASSUME TypeOK, from <= head
  PROVE  To \in Nat /\ from <= To /\ To <= head /\ head <= tip /\ tip <= MaxTip
  BY DEF TypeOK, To, Least

\* The invariant holds in the beginning.
LEMMA InitIInv == Init => IInv
  <1> SUFFICES ASSUME Init PROVE IInv
    OBVIOUS
  <1>1. TypeOK  BY DEF Init, TypeOK
  <1>2. CreatedIn(Genesis, 0) = {}  BY Joined
  <1> QED  BY <1>1, <1>2 DEF Init, IInv, Scanning, UniverseComplete, Bootstrapping, DatabaseComplete

\* A step of StartScan keeps the invariant.
LEMMA StartScanInd == IInv /\ StartScan => IInv'
  <1> SUFFICES ASSUME IInv, StartScan PROVE IInv'
    OBVIOUS
  <1> USE DEF IInv
  <1>1. /\ pc' = "discover" /\ from' = Resume(Genesis) /\ head' \in from' .. tip /\ last' = 0
        /\ batch' \in 1 .. MaxBatch /\ runs < MaxRuns /\ runs' = runs + 1
        /\ fails' = 0 /\ found' = {} /\ registry' = {}
        /\ UNCHANGED <<tip, listed, end, ckpt, dbPools, dbCursor>>
    BY DEF StartScan, file, database
  <1>2. /\ Resume(Genesis) \in Nat /\ Genesis <= Resume(Genesis)
        /\ Resume(Genesis) - 1 = ckpt \/ Resume(Genesis) - 1 < Genesis
    BY DEF Resume, TypeOK
  <1>3. TypeOK'  BY <1>1, <1>2 DEF TypeOK
  <1>4. Loadable => CreatedIn(Genesis, Resume(Genesis) - 1) \subseteq listed
    BY <1>2, Joined DEF UniverseComplete
  <1>5. Scanning'
    BY <1>1, <1>4 DEF Scanning, Loadable, CreatedIn
  <1> QED
    BY <1>1, <1>3, <1>5 DEF UniverseComplete, DatabaseComplete, Bootstrapping, Loadable, CreatedIn

\* A step of Discover keeps the invariant.
LEMMA DiscoverInd == IInv /\ Discover => IInv'
  <1> SUFFICES ASSUME IInv, Discover PROVE IInv'
    OBVIOUS
  <1> USE DEF IInv
  <1>1. /\ pc = "discover" /\ from <= head
        /\ UNCHANGED <<tip, listed, end, ckpt, dbPools, dbCursor, from, head, fails, last, registry, runs>>
    BY DEF Discover, file, database
  <1>2. UniverseComplete' /\ DatabaseComplete'
    BY <1>1 DEF UniverseComplete, DatabaseComplete, Loadable, CreatedIn
  <1>3. CASE found' = CreatedIn(from, To) /\ pc' = "append" /\ UNCHANGED batch
    <2>1. TypeOK'  BY <1>1, <1>3 DEF TypeOK, CreatedIn
    <2>2. Scanning'  BY <1>1, <1>3 DEF Scanning, Loadable, CreatedIn, To
    <2> QED  BY <1>2, <1>3, <2>1, <2>2 DEF Bootstrapping
  <1>4. CASE Halvable /\ batch' = batch \div 2 /\ UNCHANGED <<found, pc>>
    <2>1. batch' \in 1 .. MaxBatch  BY <1>4 DEF Halvable, TypeOK
    <2>2. TypeOK'  BY <1>1, <1>4, <2>1 DEF TypeOK
    <2>3. Scanning'  BY <1>1, <1>4 DEF Scanning, Loadable, CreatedIn
    <2> QED  BY <1>1, <1>2, <1>4, <2>2, <2>3 DEF Bootstrapping
  <1>5. CASE pc' = "down" /\ UNCHANGED <<batch, found>>
    <2>1. TypeOK'  BY <1>1, <1>5 DEF TypeOK
    <2> QED  BY <1>2, <1>5, <2>1 DEF Scanning, Bootstrapping
  <1> QED  BY <1>3, <1>4, <1>5 DEF Discover

\* A step of Append keeps the invariant.
LEMMA AppendInd == ASSUME NEW p \in Pool PROVE IInv /\ Append(p) => IInv'
  <1> SUFFICES ASSUME IInv, Append(p) PROVE IInv'
    OBVIOUS
  <1> USE DEF IInv
  <1>1. /\ pc = "append" /\ p \in found
        /\ UNCHANGED <<tip, ckpt, dbPools, dbCursor, from, head, batch, fails, last, registry, runs>>
    BY DEF Append, database
  <1>2. DatabaseComplete'  BY <1>1 DEF DatabaseComplete, CreatedIn
  <1>3. CASE /\ listed' = IF end = "torn" THEN listed ELSE listed \cup {p}
             /\ end' = IF end = "torn" THEN "spoilt" ELSE end
             /\ found' = found \ {p} /\ UNCHANGED pc
    <2>1. TypeOK'  BY <1>1, <1>3 DEF TypeOK
    <2>2. Loadable' => Loadable /\ listed' = listed \cup {p}  BY <1>3 DEF Loadable
    <2>3. UniverseComplete'  BY <1>1, <2>2 DEF UniverseComplete, CreatedIn
    <2>4. Scanning'  BY <1>1, <1>3, <2>2 DEF Scanning, CreatedIn, To
    <2> QED  BY <1>1, <1>2, <1>3, <2>1, <2>3, <2>4 DEF Bootstrapping
  <1>4. CASE /\ end' = IF end = "whole" THEN "torn" ELSE end
             /\ pc' = "down" /\ UNCHANGED <<listed, found>>
    <2>1. TypeOK'  BY <1>1, <1>4 DEF TypeOK
    <2>2. UniverseComplete'  BY <1>4 DEF UniverseComplete, Loadable
    <2> QED  BY <1>2, <1>4, <2>1, <2>2 DEF Scanning, Bootstrapping
  <1> QED  BY <1>3, <1>4 DEF Append

\* A step of WriteCheckpoint keeps the invariant.
LEMMA WriteCheckpointInd == IInv /\ WriteCheckpoint => IInv'
  <1> SUFFICES ASSUME IInv, WriteCheckpoint PROVE IInv'
    OBVIOUS
  <1> USE DEF IInv
  <1>1. /\ pc = "append" /\ found = {} /\ pc' = "discover" /\ from <= head
        /\ ckpt' \in 0 .. To /\ from' = To + 1 /\ last' = To /\ batch' = Grown
        /\ UNCHANGED <<tip, listed, end, dbPools, dbCursor, head, fails, found, registry, runs>>
    BY DEF WriteCheckpoint, database, Scanning
  <1>2. To \in Nat /\ from <= To /\ To <= head /\ head <= tip /\ tip <= MaxTip
    BY <1>1, BatchEnd
  <1>3. from \in Nat /\ Genesis <= from  BY DEF TypeOK
  <1>4. Grown \in 1 .. MaxBatch  BY DEF Grown, Least, TypeOK
  <1>5. TypeOK'
    <2>1. from' \in Genesis .. MaxTip + 1 /\ last' \in 0 .. tip /\ ckpt' \in 0 .. tip
      BY <1>1, <1>2, <1>3 DEF TypeOK
    <2> QED  BY <1>1, <1>4, <2>1 DEF TypeOK
  <1>6. Loadable => CreatedIn(Genesis, To) \subseteq listed
    <2>1. CreatedIn(Genesis, To) \subseteq CreatedIn(Genesis, from - 1) \cup CreatedIn(from, To)
      BY <1>2, <1>3, Joined
    <2> QED  BY <1>1, <2>1 DEF Scanning
  <1>7. UniverseComplete'
    <2>1. CreatedIn(Genesis, ckpt') \subseteq CreatedIn(Genesis, To)
      BY <1>1, <1>2, Joined
    <2> QED  BY <1>1, <1>6, <2>1 DEF UniverseComplete, Loadable, CreatedIn
  <1>8. Scanning'
    <2>1. (To + 1) - 1 = To  BY <1>2
    <2> QED  BY <1>1, <1>6, <2>1 DEF Scanning, Loadable, CreatedIn
  <1> QED  BY <1>1, <1>5, <1>7, <1>8 DEF DatabaseComplete, Bootstrapping, CreatedIn

\* A step of CommitUniverse keeps the invariant.
LEMMA CommitUniverseInd == IInv /\ CommitUniverse => IInv'
  <1> SUFFICES ASSUME IInv, CommitUniverse PROVE IInv'
    OBVIOUS
  <1> USE DEF IInv
  <1>1. /\ pc = "discover" /\ last # 0 /\ pc' = "down"
        /\ UNCHANGED <<tip, listed, end, ckpt, from, head, batch, fails, last, found, registry, runs>>
    BY DEF CommitUniverse, file
  <1>2. UniverseComplete'  BY <1>1 DEF UniverseComplete, Loadable, CreatedIn
  <1>3. CASE Loadable /\ dbPools' = dbPools \cup listed /\ dbCursor' = last
    <2>1. TypeOK'  BY <1>1, <1>3 DEF TypeOK
    <2>2. DatabaseComplete'  BY <1>1, <1>3 DEF Scanning, DatabaseComplete, CreatedIn
    <2> QED  BY <1>1, <1>2, <2>1, <2>2 DEF Scanning, Bootstrapping
  <1>4. CASE UNCHANGED database
    <2>1. TypeOK' /\ DatabaseComplete'
      BY <1>1, <1>4 DEF TypeOK, DatabaseComplete, database, CreatedIn
    <2> QED  BY <1>1, <1>2, <2>1 DEF Scanning, Bootstrapping
  <1> QED  BY <1>3, <1>4 DEF CommitUniverse

\* A step of StartArbitrage keeps the invariant.
LEMMA StartArbitrageInd == IInv /\ StartArbitrage => IInv'
  <1> SUFFICES ASSUME IInv, StartArbitrage PROVE IInv'
    OBVIOUS
  <1> USE DEF IInv
  <1>1. /\ pc' = "bootstrap" /\ runs < MaxRuns /\ runs' = runs + 1 /\ registry' = dbPools
        /\ from' = Greatest(dbCursor, Genesis) /\ last' = from' /\ head' \in Genesis .. tip
        /\ batch' = MaxBatch /\ fails' = 0 /\ found' = {}
        /\ UNCHANGED <<tip, listed, end, ckpt, dbPools, dbCursor>>
    BY DEF StartArbitrage, file, database
  <1>2. /\ from' \in Nat /\ Genesis <= from' /\ from' <= tip /\ from' \in {dbCursor, Genesis}
        /\ from' - 1 < dbCursor \/ from' - 1 < Genesis
    BY <1>1 DEF Greatest, TypeOK
  <1>3. TypeOK'  BY <1>1, <1>2 DEF TypeOK
  <1>4. CreatedIn(Genesis, from' - 1) \subseteq dbPools
    <2>1. dbCursor \in Int  BY DEF TypeOK
    <2> QED  BY <1>2, <2>1, Joined DEF DatabaseComplete
  <1>5. Bootstrapping'  BY <1>1, <1>2, <1>4 DEF Bootstrapping, CreatedIn
  <1> QED
    BY <1>1, <1>3, <1>5 DEF Scanning, UniverseComplete, DatabaseComplete, Loadable, CreatedIn

\* A step of Bootstrap keeps the invariant.
LEMMA BootstrapInd == IInv /\ Bootstrap => IInv'
  <1> SUFFICES ASSUME IInv, Bootstrap PROVE IInv'
    OBVIOUS
  <1> USE DEF IInv
  <1>1. /\ pc = "bootstrap" /\ from <= head
        /\ UNCHANGED <<tip, listed, end, ckpt, dbPools, dbCursor, head, found, runs>>
    BY DEF Bootstrap, file, database
  <1>2. UniverseComplete' /\ DatabaseComplete'
    BY <1>1 DEF UniverseComplete, DatabaseComplete, Loadable, CreatedIn
  <1>3. CASE /\ registry' = registry \cup CreatedIn(from, To)
             /\ from' = To + 1 /\ last' = To /\ fails' = 0 /\ batch' = MaxBatch /\ UNCHANGED pc
    <2>1. To \in Nat /\ from <= To /\ To <= head /\ head <= tip /\ tip <= MaxTip
      BY <1>1, BatchEnd
    <2>2. from \in Nat /\ Genesis <= from  BY DEF TypeOK
    <2>3. TypeOK'
      <3>1. from' \in Genesis .. MaxTip + 1 /\ last' \in 0 .. tip /\ registry' \subseteq Pool
        BY <1>3, <2>1, <2>2 DEF TypeOK, CreatedIn
      <3> QED  BY <1>1, <1>3, <3>1 DEF TypeOK
    <2>4. CreatedIn(Genesis, To) \subseteq registry'
      <3>1. CreatedIn(Genesis, To) \subseteq CreatedIn(Genesis, from - 1) \cup CreatedIn(from, To)
        BY <2>1, <2>2, Joined
      <3> QED  BY <1>1, <1>3, <3>1 DEF Bootstrapping
    <2>5. (To + 1) - 1 = To  BY <2>1
    <2>6. Bootstrapping'  BY <1>1, <1>3, <2>4, <2>5 DEF Bootstrapping, CreatedIn
    <2> QED  BY <1>1, <1>2, <1>3, <2>3, <2>6 DEF Scanning
  <1>4. CASE fails' = fails + 1 /\ UNCHANGED <<registry, from, last>>
             /\ (\/ Halvable /\ batch' = batch \div 2 /\ UNCHANGED pc
                 \/ pc' = "down" /\ UNCHANGED batch)
    <2>1. batch' \in 1 .. MaxBatch  BY <1>4 DEF Halvable, TypeOK
    <2>2. pc' \in {"down", "bootstrap"}  BY <1>1, <1>4
    <2>3. TypeOK'  BY <1>1, <1>4, <2>1, <2>2 DEF TypeOK
    <2>4. Bootstrapping'  BY <1>1, <1>4 DEF Bootstrapping, CreatedIn
    <2> QED  BY <1>2, <2>2, <2>3, <2>4 DEF Scanning
  <1> QED  BY <1>3, <1>4 DEF Bootstrap

\* A step of CommitPools keeps the invariant.
LEMMA CommitPoolsInd == IInv /\ CommitPools => IInv'
  <1> SUFFICES ASSUME IInv, CommitPools PROVE IInv'
    OBVIOUS
  <1> USE DEF IInv
  <1>1. /\ pc = "bootstrap" /\ from > head /\ pc' = "down"
        /\ UNCHANGED <<tip, listed, end, ckpt, from, head, batch, fails, last, found, registry, runs>>
    BY DEF CommitPools, file
  <1>2. UniverseComplete'  BY <1>1 DEF UniverseComplete, Loadable, CreatedIn
  <1>3. CASE dbPools' = dbPools \cup registry /\ dbCursor' = last
    <2>1. TypeOK'  BY <1>1, <1>3 DEF TypeOK
    <2>2. last = from - 1 \/ last = dbCursor
      BY <1>1 DEF Bootstrapping, TypeOK
    <2>3. CreatedIn(Genesis, last) \subseteq registry
      BY <1>1, <2>2 DEF Bootstrapping, DatabaseComplete
    <2>4. DatabaseComplete'  BY <1>3, <2>3 DEF DatabaseComplete, CreatedIn
    <2> QED  BY <1>1, <1>2, <2>1, <2>4 DEF Scanning, Bootstrapping
  <1>4. CASE UNCHANGED database
    <2>1. TypeOK' /\ DatabaseComplete'
      BY <1>1, <1>4 DEF TypeOK, DatabaseComplete, database, CreatedIn
    <2> QED  BY <1>1, <1>2, <2>1 DEF Scanning, Bootstrapping
  <1> QED  BY <1>3, <1>4 DEF CommitPools

\* Crashes, the chain's growth and stutters keep the invariant.
LEMMA EnvironmentInd == IInv /\ (Crash \/ ChainGrows \/ UNCHANGED vars) => IInv'
  <1> SUFFICES ASSUME IInv, Crash \/ ChainGrows \/ UNCHANGED vars PROVE IInv'
    OBVIOUS
  <1> USE DEF IInv
  <1>1. /\ UNCHANGED <<listed, end, ckpt, dbPools, dbCursor, from, head, batch, fails, last, found,
                       registry, runs>>
        /\ tip' \in tip .. MaxTip /\ pc' \in {pc, "down"}
    BY DEF Crash, ChainGrows, vars, file, database, TypeOK
  <1>2. TypeOK'  BY <1>1 DEF TypeOK
  <1>3. UniverseComplete' /\ DatabaseComplete'
    BY <1>1 DEF UniverseComplete, DatabaseComplete, Loadable, CreatedIn
  <1>4. Scanning' /\ Bootstrapping'
    BY <1>1 DEF Scanning, Bootstrapping, Loadable, CreatedIn, To
  <1> QED  BY <1>2, <1>3, <1>4

\* Every step keeps the invariant.
LEMMA StepIInv == IInv /\ [Next]_vars => IInv'
  BY StartScanInd, DiscoverInd, AppendInd, WriteCheckpointInd, CommitUniverseInd,
     StartArbitrageInd, BootstrapInd, CommitPoolsInd, EnvironmentInd DEF Next, Step

\* The inductive invariant holds of every sequence of runs.
THEOREM UniverseInvariant == Spec => []IInv
  BY InitIInv, StepIInv, PTL DEF Spec

-----------------------------------------------------------------------------
\* Type correctness of rh-cli's scan and of the start of rh-arbitrage.
THEOREM UniverseTyped == Spec => []TypeOK
  <1>1. IInv => TypeOK  BY DEF IInv
  <1> QED  BY <1>1, UniverseInvariant, PTL

\* However runs of rh-cli pools bootstrap end, a file that loads holds every
\* pool created up to its checkpoint.
THEOREM FileIsComplete == Spec => []UniverseComplete
  <1>1. IInv => UniverseComplete  BY DEF IInv
  <1> QED  BY <1>1, UniverseInvariant, PTL

\* Whichever program wrote it last, the database holds every pool created up to
\* its pools cursor.
THEOREM DatabaseIsComplete == Spec => []DatabaseComplete
  <1>1. IInv => DatabaseComplete  BY DEF IInv
  <1> QED  BY <1>1, UniverseInvariant, PTL

-----------------------------------------------------------------------------
(* Why a run ends: halving and doubling cannot alternate for ever, because *)
(* a batch grows only when the scan has moved past it.                     *)

\* A step that ends the run, moves on to a later block, or does with the same
\* first block a part of what is to be done only so often: the batch is halved,
\* its pools are found, one of them is written.
Advances ==
  /\ head' = head
  /\ \/ pc' = "down"
     \/ from < from' /\ from' <= head + 1
     \/ from' = from /\ pc' = pc /\ batch' < batch /\ 0 < batch'
     \/ from' = from /\ pc = "discover" /\ pc' = "append"
     \/ from' = from /\ pc = "append" /\ pc' = pc /\ found' \subseteq found /\ found' # found

\* Every step of a running program brings its end nearer, whatever queries fail
\* and however the batch was halved and doubled before.
THEOREM RunsAdvance == Spec => [][Step => Advances]_vars
  <1>1. ASSUME IInv, Step PROVE Advances
    <2> USE DEF Advances
    <2>1. from \in Nat /\ head \in Nat /\ batch \in Nat \ {0}
      BY <1>1 DEF IInv, TypeOK
    <2>2. CASE Discover
      BY <2>1, <2>2 DEF Discover, Halvable
    <2>3. ASSUME NEW p \in Pool, Append(p) PROVE Advances
      BY <2>3 DEF Append
    <2>4. CASE WriteCheckpoint
      <3>1. from <= To /\ To <= head /\ To \in Nat
        BY <1>1, <2>4, BatchEnd DEF IInv, Scanning, WriteCheckpoint
      <3> QED  BY <2>1, <2>4, <3>1 DEF WriteCheckpoint
    <2>5. CASE Bootstrap
      <3>1. from <= To /\ To <= head /\ To \in Nat
        BY <1>1, <2>5, BatchEnd DEF IInv, Bootstrap
      <3> QED  BY <2>1, <2>5, <3>1 DEF Bootstrap, Halvable
    <2>6. CASE CommitUniverse \/ CommitPools
      BY <2>6 DEF CommitUniverse, CommitPools
    <2> QED  BY <1>1, <2>2, <2>3, <2>4, <2>5, <2>6 DEF Step
  <1>2. IInv => [Step => Advances]_vars
    BY <1>1
  <1> QED  BY <1>2, UniverseInvariant, PTL DEF Spec
=============================================================================
