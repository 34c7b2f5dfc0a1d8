---------------------- MODULE ArbitragePipelineProofs ----------------------
(***************************************************************************)
(* Proofs about ArbitragePipeline, for all chains, chunk sizes, depths and *)
(* bounds.  The invariant is inductive only together with what the         *)
(* goroutine knows about its chunk (ChunkInv) and about the queue rows     *)
(* between its own evaluation cursor and the one in the database.          *)
(***************************************************************************)
EXTENDS ArbitragePipeline, LogWindow, TLAPS

\* The database part: what every transaction preserves.
DbInv ==
  /\ ckpt \in Hash /\ evalCkpt \in Hash /\ canon \subseteq Hash /\ orphan \subseteq Hash
  /\ queue \subseteq [block : Hash, src : Logged]
  /\ audits \subseteq Hash
  /\ opps \subseteq [block : Hash, amount : Amount, state : Nat, canonical : BOOLEAN]
  /\ evalCkpt.num <= ckpt.num
  /\ HistoryEndsAtCheckpoint
  /\ QueueUnambiguous
  /\ NoLostEvaluation
  /\ CandidatesTraceable

\* The types of everything outside the database.
ProcType ==
  /\ view \in Chains /\ switches \in Nat /\ starts \in Nat
  /\ pc \in Down \cup Working \cup {"wait"}
  /\ lastApplied \in Hash /\ lastEvaluated \in Nat /\ registry \subseteq Logged
  /\ target \in Nat /\ chunkTo \in Nat /\ batch \subseteq Logged
  /\ checked \in BOOLEAN /\ hdr \in Hash /\ depth \in Nat
  /\ round \in {"chunk", "head"} /\ evalHead \in Nat /\ left \in Nat

\* The memory follows the database.
MemInv ==
  /\ lastApplied = ckpt
  /\ lastEvaluated <= evalCkpt.num
  /\ AppliedOnce /\ QueuedAsApplied
  \* at most the row at the database cursor is seen a second time
  /\ \A r \in queue : r.block.num > lastEvaluated => r.block.num >= evalCkpt.num

\* What the goroutine has in hand lies above the checkpoint and in the chunk.
ChunkInv ==
  /\ pc = "fetch" => lastApplied.num < target
  /\ \A b \in batch : b.num > lastApplied.num /\ b.num <= chunkTo
  /\ \A b, d \in batch : b.num = d.num => b = d
  /\ pc \in {"scan", "recheck", "commit", "search", "rollback", "anchor"}
       => lastApplied.num <= chunkTo
  /\ pc = "commit" => \A b \in NextBlock : hdr.num = b.num
  /\ pc = "rollback" => hdr \in canon
  /\ pc = "anchor" => batch = {}

IInv == DbInv /\ ProcType /\ MemInv /\ ChunkInv

-----------------------------------------------------------------------------
\* Hashes have a height and a label; a block of a served chain is a hash.
LEMMA BlockAtIsHash ==
  ASSUME NEW c \in Chains, NEW h \in Nat, h <= c.head
  PROVE  BlockAt(c, h) \in Hash /\ BlockAt(c, h).num = h
<1>1. c.head \in Nat /\ c.at \in [0 .. c.head -> Fork]
  BY ChainsAssumption
<1>2. h \in 0 .. c.head
  BY <1>1
<1> QED
  BY <1>1, <1>2 DEF BlockAt, Hash

\* What FilterLogs returns: logged blocks of the range, one per height.
LEMMA LogsOfRange ==
  ASSUME NEW c \in Chains, NEW from \in Nat, NEW upto \in Nat
  PROVE  /\ LogsOf(c, from, upto) \subseteq Logged
         /\ \A b \in LogsOf(c, from, upto) :
              b.num \in Nat /\ from <= b.num /\ b.num <= upto
         /\ \A b, d \in LogsOf(c, from, upto) : b.num = d.num => b = d
<1>1. c.head \in Nat
  BY ChainsAssumption
<1>2. \A h \in from .. Lower(upto, c.head) : h \in Nat /\ from <= h /\ h <= upto
  BY <1>1 DEF Lower
<1> QED
  BY <1>2 DEF LogsOf, BlockAt

-----------------------------------------------------------------------------
(* The transactions preserve the database part.                            *)

\* An ingest transaction at or above the checkpoint, which queues at most the
\* block itself and only strictly above the checkpoint.
LEMMA IngestPreserves ==
  ASSUME DbInv, NEW b \in Hash, NEW rows,
         b.num >= ckpt.num,
         rows \subseteq [block : {b}, src : Logged],
         \A r, s \in rows : r = s,
         rows # {} => b.num > ckpt.num,
         CommitBlockIngest(b, rows)
  PROVE  DbInv'
<1> USE DEF CommitBlockIngest, DbInv
<1>1. \A r \in rows : r \in [block : Hash, src : Logged] /\ r.block = b
  OBVIOUS
<1>2. b.num \in Nat /\ ckpt.num \in Nat /\ evalCkpt.num \in Nat
      /\ \A d \in canon : d.num \in Nat
  BY DEF Hash
<1>3. /\ ckpt' \in Hash /\ evalCkpt' \in Hash /\ canon' \subseteq Hash
      /\ orphan' \subseteq Hash /\ audits' \subseteq Hash
      /\ queue' \subseteq [block : Hash, src : Logged]
      /\ opps' \subseteq [block : Hash, amount : Amount, state : Nat, canonical : BOOLEAN]
  BY <1>1
<1>4. (evalCkpt.num <= ckpt.num)'
  BY <1>2
<1>5. HistoryEndsAtCheckpoint'
  BY <1>2 DEF HistoryEndsAtCheckpoint
<1>6. \A r \in queue : r.block.num <= ckpt.num
  BY DEF QueueUnambiguous, HistoryEndsAtCheckpoint
<1>7. QueueUnambiguous'
  <2>1. \A r \in queue' : (r.block \in canon)'
    BY <1>1 DEF QueueUnambiguous
  <2>2. ASSUME NEW r \in queue', NEW s \in queue', r.block.num = s.block.num
        PROVE  r = s
    <3>1. CASE r \in queue /\ s \in queue
      BY <2>2, <3>1 DEF QueueUnambiguous
    <3>2. CASE r \in rows /\ s \in rows
      BY <3>2
    <3>3. CASE r \in queue /\ s \in rows
      BY <2>2, <3>3, <1>1, <1>2, <1>6 DEF Hash
    <3>4. CASE r \in rows /\ s \in queue
      BY <2>2, <3>4, <1>1, <1>2, <1>6 DEF Hash
    <3> QED
      BY <3>1, <3>2, <3>3, <3>4
  <2> QED
    BY <2>1, <2>2 DEF QueueUnambiguous
<1>8. NoLostEvaluation'
  BY <1>1, <1>2 DEF NoLostEvaluation
<1>9. CandidatesTraceable'
  BY DEF CandidatesTraceable
<1> QED
  BY <1>3, <1>4, <1>5, <1>7, <1>8, <1>9

\* Moving the evaluation cursor onto a queued row that no other queued row
\* separates from it, with that row recorded as audited.
LEMMA EvalCursorPreserves ==
  ASSUME DbInv, NEW r \in queue,
         evalCkpt.num <= r.block.num,
         \A s \in queue : s.block.num < r.block.num => s.block.num <= evalCkpt.num,
         evalCkpt' = r.block, audits' = audits \cup {r.block},
         UNCHANGED <<ckpt, canon, orphan, queue>>
  PROVE  /\ evalCkpt' \in Hash /\ audits' \subseteq Hash
         /\ (evalCkpt.num <= ckpt.num)'
         /\ HistoryEndsAtCheckpoint' /\ QueueUnambiguous' /\ NoLostEvaluation'
<1>1. r.block \in Hash /\ r.block \in canon /\ r.block.num <= ckpt.num
  BY DEF DbInv, QueueUnambiguous, HistoryEndsAtCheckpoint
<1>2. NoLostEvaluation'
  <2> SUFFICES ASSUME NEW s \in queue, s.block.num <= r.block.num
               PROVE  s.block \in audits \cup {r.block}
    BY DEF NoLostEvaluation
  <2>1. s.block.num \in Nat /\ r.block.num \in Nat
    BY DEF DbInv, Hash
  <2>2. CASE s.block.num = r.block.num
    BY <2>2 DEF DbInv, QueueUnambiguous
  <2>3. CASE s.block.num < r.block.num
    BY <2>3 DEF DbInv, NoLostEvaluation
  <2> QED
    BY <2>1, <2>2, <2>3
<1> QED
  BY <1>1, <1>2 DEF DbInv, HistoryEndsAtCheckpoint, QueueUnambiguous

\* Skipping a stale block keeps what the tables promise each other.
LEMMA SkipPreserves ==
  ASSUME DbInv, NEW r \in queue,
         evalCkpt.num <= r.block.num,
         \A s \in queue : s.block.num < r.block.num => s.block.num <= evalCkpt.num,
         SkipStaleBlock(r.block)
  PROVE  DbInv'
<1>1. /\ evalCkpt' = r.block /\ audits' = audits \cup {r.block}
      /\ UNCHANGED <<ckpt, canon, orphan, queue>> /\ opps' = opps
  BY DEF SkipStaleBlock
<1>2. /\ evalCkpt' \in Hash /\ audits' \subseteq Hash
      /\ (evalCkpt.num <= ckpt.num)'
      /\ HistoryEndsAtCheckpoint' /\ QueueUnambiguous' /\ NoLostEvaluation'
  BY <1>1, EvalCursorPreserves
<1>3. CandidatesTraceable'
  <2>1. r.block.num \in Nat /\ evalCkpt.num \in Nat
    BY DEF DbInv, Hash
  <2>2. \A o \in opps : o.block.num \in Nat
    BY DEF DbInv, Hash
  <2> QED
    BY <1>1, <2>1, <2>2 DEF DbInv, CandidatesTraceable
<1> QED
  BY <1>1, <1>2, <1>3 DEF DbInv

\* Committing an evaluation keeps what the tables promise each other.
LEMMA EvaluationPreserves ==
  ASSUME DbInv, NEW r \in queue, NEW amounts \in SUBSET Amount, NEW state \in Nat,
         evalCkpt.num <= r.block.num,
         \A s \in queue : s.block.num < r.block.num => s.block.num <= evalCkpt.num,
         CommitEvaluation(r.block, amounts, state)
  PROVE  DbInv'
<1>1. /\ evalCkpt' = r.block /\ audits' = audits \cup {r.block}
      /\ UNCHANGED <<ckpt, canon, orphan, queue>>
      /\ opps' = Inserted(r.block, amounts, state)
  BY DEF CommitEvaluation
<1>2. /\ evalCkpt' \in Hash /\ audits' \subseteq Hash
      /\ (evalCkpt.num <= ckpt.num)'
      /\ HistoryEndsAtCheckpoint' /\ QueueUnambiguous' /\ NoLostEvaluation'
  BY <1>1, EvalCursorPreserves
<1>3. r.block \in Hash /\ r.block \in canon /\ r.block.num \in Nat /\ evalCkpt.num \in Nat
  BY DEF DbInv, QueueUnambiguous, Hash
<1>4. ASSUME NEW o \in opps'
      PROVE  o \in opps \/ \E x \in amounts :
               o = [block |-> r.block, amount |-> x, state |-> state, canonical |-> TRUE]
  BY <1>1, <1>4 DEF Inserted
<1>5. opps' \subseteq [block : Hash, amount : Amount, state : Nat, canonical : BOOLEAN]
  <2> SUFFICES ASSUME NEW o \in opps'
               PROVE  o \in [block : Hash, amount : Amount, state : Nat, canonical : BOOLEAN]
    OBVIOUS
  <2>1. CASE o \in opps
    BY <2>1 DEF DbInv
  <2>2. CASE \E x \in amounts :
               o = [block |-> r.block, amount |-> x, state |-> state, canonical |-> TRUE]
    BY <2>2, <1>3
  <2> QED
    BY <1>4, <2>1, <2>2
<1>6. CandidatesTraceable'
  <2> SUFFICES ASSUME NEW o \in opps', o.canonical
               PROVE  o.block \in canon /\ o.block.num <= r.block.num
    BY <1>1 DEF CandidatesTraceable
  <2>1. CASE o \in opps
    <3>1. o.block \in canon /\ o.block.num <= evalCkpt.num /\ o.block.num \in Nat
      BY <2>1 DEF DbInv, CandidatesTraceable, Hash
    <3> QED
      BY <3>1, <1>3
  <2>2. CASE \E x \in amounts :
               o = [block |-> r.block, amount |-> x, state |-> state, canonical |-> TRUE]
    BY <2>2, <1>3
  <2> QED
    BY <1>4, <2>1, <2>2
<1> QED
  BY <1>1, <1>2, <1>5, <1>6 DEF DbInv

\* Rolling back to an ancestor keeps what the tables promise each other.
LEMMA RollbackPreserves ==
  ASSUME DbInv, NEW b \in canon, RollbackToAncestor(b)
  PROVE  DbInv'
<1>1. b \in Hash /\ b.num \in Nat /\ evalCkpt.num \in Nat
      /\ \A d \in canon : d.num \in Nat
  BY DEF DbInv, Hash
<1>2. /\ canon' = {d \in canon : d.num <= b.num}
      /\ orphan' = orphan \cup (canon \ canon')
      /\ queue' = {r \in queue : r.block.num <= b.num}
      /\ ckpt' = b /\ evalCkpt' = RolledBackEval(b) /\ audits' = audits
      /\ opps' = {IF Orphaned(o, b) THEN [o EXCEPT !.canonical = FALSE] ELSE o : o \in opps}
  BY DEF RollbackToAncestor, KeptHistory, KeptQueue
<1>3. evalCkpt' \in Hash /\ evalCkpt'.num <= b.num /\ evalCkpt'.num <= evalCkpt.num
      /\ evalCkpt'.num \in Nat
      /\ (evalCkpt'.num = b.num \/ evalCkpt' = evalCkpt)
  BY <1>1, <1>2 DEF RolledBackEval, DbInv
<1>4. /\ canon' \subseteq Hash /\ orphan' \subseteq Hash /\ audits' \subseteq Hash
      /\ queue' \subseteq [block : Hash, src : Logged] /\ ckpt' \in Hash
  BY <1>1, <1>2 DEF DbInv
<1>5. opps' \subseteq [block : Hash, amount : Amount, state : Nat, canonical : BOOLEAN]
  BY <1>2 DEF DbInv
<1>6. HistoryEndsAtCheckpoint'
  BY <1>1, <1>2 DEF HistoryEndsAtCheckpoint
<1>7. QueueUnambiguous'
  BY <1>2 DEF DbInv, QueueUnambiguous
<1>8. NoLostEvaluation'
  <2> SUFFICES ASSUME NEW r \in queue', r.block.num <= evalCkpt'.num
               PROVE  r.block \in audits
    BY <1>2 DEF NoLostEvaluation
  <2>1. r \in queue /\ r.block.num \in Nat
    BY <1>2 DEF DbInv, Hash
  <2>2. r.block.num <= evalCkpt.num
    BY <1>1, <1>3, <2>1
  <2> QED
    BY <2>1, <2>2 DEF DbInv, NoLostEvaluation
<1>9. CandidatesTraceable'
  <2> SUFFICES ASSUME NEW o \in opps', o.canonical
               PROVE  o.block \in canon' /\ o.block.num <= evalCkpt'.num
    BY DEF CandidatesTraceable
  <2>1. PICK p \in opps : o = IF Orphaned(p, b) THEN [p EXCEPT !.canonical = FALSE] ELSE p
    BY <1>2
  <2>2. p \in [block : Hash, amount : Amount, state : Nat, canonical : BOOLEAN]
    BY DEF DbInv
  <2>3. ~Orphaned(p, b) /\ o = p
    BY <2>1, <2>2
  <2>4. o.block.num <= b.num /\ o.block.num \in Nat
    BY <1>1, <2>2, <2>3 DEF Orphaned, Hash
  <2>5. o.block \in canon /\ o.block.num <= evalCkpt.num
    BY <2>3 DEF DbInv, CandidatesTraceable
  <2> QED
    BY <1>2, <1>3, <2>4, <2>5
<1> QED
  BY <1>2, <1>3, <1>4, <1>5, <1>6, <1>7, <1>8, <1>9 DEF DbInv

-----------------------------------------------------------------------------
(* The steps of the process.                                               *)

\* A process that ends keeps the invariant.
LEMMA ExitPreserves ==
  ASSUME IInv, NEW how \in Down, Exit(how)
  PROVE  IInv'
<1>1. DbInv'
  BY DEF IInv, DbInv, Exit, dbVars, HistoryEndsAtCheckpoint, QueueUnambiguous,
         NoLostEvaluation, CandidatesTraceable
<1>2. evalCkpt.num \in Nat /\ ckpt \in Hash
  BY DEF IInv, DbInv, Hash
<1>3. ProcType'
  BY <1>2 DEF IInv, ProcType, Exit, envVars
<1>4. MemInv'
  BY <1>2 DEF IInv, DbInv, Exit, dbVars, MemInv, AppliedOnce, QueuedAsApplied, Hash
<1>5. ChunkInv'
  BY DEF Exit, ChunkInv, Down
<1> QED
  BY <1>1, <1>3, <1>4, <1>5 DEF IInv

\* A step of FetchLogs keeps the invariant.
LEMMA FetchPreserves == IInv /\ FetchLogs => IInv'
<1> SUFFICES ASSUME IInv, FetchLogs PROVE IInv'
  OBVIOUS
<1>1. /\ lastApplied \in Hash /\ lastApplied.num \in Nat /\ target \in Nat
      /\ lastApplied.num < target /\ view \in Chains /\ ChunkSize \in Nat \ {0}
  BY ParameterAssumption DEF IInv, ProcType, ChunkInv, FetchLogs, Hash
<1>2. chunkTo' \in Nat /\ lastApplied.num < chunkTo'
  BY <1>1 DEF FetchLogs, Lower
<1>3. /\ batch' \subseteq Logged
      /\ \A b \in batch' : b.num \in Nat /\ lastApplied.num + 1 <= b.num /\ b.num <= chunkTo'
      /\ \A b, d \in batch' : b.num = d.num => b = d
  BY <1>1, <1>2, LogsOfRange, lastApplied.num + 1 \in Nat DEF FetchLogs
<1>4. UNCHANGED <<dbVars, envVars, memVars, evalVars, target, hdr, depth, starts>>
  BY DEF FetchLogs
<1>5. DbInv'
  BY <1>4 DEF IInv, DbInv, dbVars, HistoryEndsAtCheckpoint, QueueUnambiguous,
         NoLostEvaluation, CandidatesTraceable
<1>6. ProcType'
  BY <1>2, <1>3, <1>4 DEF IInv, ProcType, FetchLogs, envVars, memVars, evalVars, Working
<1>7. MemInv'
  BY <1>4 DEF IInv, MemInv, AppliedOnce, QueuedAsApplied, dbVars, memVars
<1>8. ChunkInv'
  <2>1. pc' \in {"anchor", "scan"} /\ (pc' = "anchor" => batch' = {})
    BY DEF FetchLogs
  <2>2. \A b \in batch' : b.num > lastApplied.num
    BY <1>1, <1>3
  <2>3. lastApplied' = lastApplied /\ lastApplied.num <= chunkTo'
    BY <1>1, <1>2, <1>4 DEF memVars
  <2> QED
    BY <1>3, <2>1, <2>2, <2>3 DEF ChunkInv
<1> QED
  BY <1>5, <1>6, <1>7, <1>8 DEF IInv

\* The header in hand is at the height of the block to commit.
LEMMA ReadPreserves == IInv /\ (ReadHeader \/ RecheckParent) => IInv'
<1> SUFFICES ASSUME IInv, ReadHeader \/ RecheckParent PROVE IInv'
  OBVIOUS
<1>1. UNCHANGED <<dbVars, envVars, memVars, evalVars, target, chunkTo, batch, checked, starts>>
  BY DEF ReadHeader, RecheckParent
<1>2. \A b \in NextBlock : b \in batch /\ b \in Hash /\ b.num \in Nat
  BY BlockAssumption DEF IInv, ProcType, NextBlock, Hash
<1>3. /\ hdr' \in Hash /\ depth' \in Nat
      /\ pc' \in {"commit", "recheck", "search"}
      /\ pc' = "commit" => \A b \in NextBlock : hdr'.num = b.num
  <2>1. PICK b \in NextBlock :
          \/ /\ b.num <= view.head /\ hdr' = BlockAt(view, b.num) /\ depth' = depth
             /\ pc' \in {"commit", "recheck"}
          \/ /\ hdr' = hdr /\ depth' = 0 /\ pc' = "search"
    BY DEF ReadHeader, RecheckParent, ParentMatches
  <2>2. view \in Chains /\ hdr \in Hash /\ depth \in Nat
    BY DEF IInv, ProcType
  <2>3. \A d \in NextBlock : d.num = b.num
    BY <1>2, <2>1 DEF NextBlock
  <2>4. b.num <= view.head => BlockAt(view, b.num) \in Hash /\ BlockAt(view, b.num).num = b.num
    BY <1>2, <2>1, <2>2, BlockAtIsHash
  <2> QED
    BY <2>1, <2>2, <2>3, <2>4
<1>4. DbInv'
  BY <1>1 DEF IInv, DbInv, dbVars, HistoryEndsAtCheckpoint, QueueUnambiguous,
         NoLostEvaluation, CandidatesTraceable
<1>5. ProcType'
  BY <1>1, <1>3 DEF IInv, ProcType, envVars, memVars, evalVars, Working
<1>6. MemInv'
  BY <1>1 DEF IInv, MemInv, AppliedOnce, QueuedAsApplied, dbVars, memVars
<1>7. ChunkInv'
  <2>1. pc \in {"scan", "recheck"}
    BY DEF ReadHeader, RecheckParent
  <2>2. NextBlock' = NextBlock
    BY <1>1 DEF NextBlock
  <2> QED
    BY <1>1, <1>3, <2>1, <2>2 DEF IInv, ChunkInv, memVars
<1> QED
  BY <1>4, <1>5, <1>6, <1>7 DEF IInv

\* A step of CommitBlock keeps the invariant.
LEMMA CommitBlockPreserves == IInv /\ CommitBlock => IInv'
<1> SUFFICES ASSUME IInv, CommitBlock PROVE IInv'
  OBVIOUS
<1> DEFINE rows(b) == IF b \in Swapped THEN {[block |-> hdr, src |-> b]} ELSE {}
<1>1. PICK b \in NextBlock : /\ CommitBlockIngest(hdr, rows(b)) /\ batch' = batch \ {b}
                            /\ registry' = registry \cup {b}
  BY DEF CommitBlock
<1>2. /\ b \in batch /\ b \in Logged /\ b.num \in Nat /\ hdr.num = b.num /\ hdr \in Hash
      /\ \A d \in batch : d.num \in Nat /\ b.num <= d.num
  BY BlockAssumption DEF IInv, ProcType, ChunkInv, CommitBlock, NextBlock, Hash
<1>3. /\ ckpt.num \in Nat /\ evalCkpt.num \in Nat /\ evalCkpt.num <= ckpt.num
      /\ lastApplied = ckpt /\ hdr.num > ckpt.num
  BY <1>2 DEF IInv, DbInv, MemInv, ChunkInv, Hash
<1>4. DbInv'
  <2>1. rows(b) \subseteq [block : {hdr}, src : Logged] /\ \A r, s \in rows(b) : r = s
    BY <1>2
  <2>2. hdr.num >= ckpt.num
    BY <1>2, <1>3
  <2>3. DbInv
    BY DEF IInv
  <2> QED
    BY <1>1, <1>2, <1>3, <2>1, <2>2, <2>3, IngestPreserves
<1>5. /\ lastApplied' = hdr /\ checked' = TRUE
      /\ pc' \in {"anchor", "scan"} /\ (pc' = "anchor" => batch' = {})
      /\ UNCHANGED <<envVars, evalVars, lastEvaluated, target, chunkTo, hdr, depth, starts>>
  BY DEF CommitBlock
<1>6. /\ ckpt' = hdr /\ evalCkpt' = evalCkpt /\ canon' = canon \cup {hdr}
      /\ queue' = queue \cup rows(b)
  BY <1>1 DEF CommitBlockIngest
<1>7. ProcType'
  BY <1>1, <1>2, <1>5 DEF IInv, ProcType, envVars, evalVars, Working
<1>8. MemInv'
  <2>1. \A r \in queue' : r.block.num > lastEvaluated => r.block.num >= evalCkpt.num
    <3>1. \A r \in rows(b) : r.block.num >= evalCkpt.num
      BY <1>2, <1>3
    <3> QED
      BY <1>6, <3>1 DEF IInv, MemInv
  <2>2. /\ \A d \in canon : d.num < b.num
        /\ \A r \in queue : r.block.num < b.num
        /\ \A x \in registry : x.num < b.num
    BY <1>2, <1>3 DEF IInv, DbInv, MemInv, HistoryEndsAtCheckpoint, QueueUnambiguous, AppliedOnce, Hash
  <2>3. AppliedOnce'
    BY <1>1, <1>2, <1>6, <2>2 DEF IInv, MemInv, AppliedOnce
  <2>4. QueuedAsApplied'
    <3>1. \A r \in rows(b) : r.block.num = b.num /\ r.src = b
      BY <1>2
    <3> QED
      BY <1>1, <1>2, <1>6, <2>2, <3>1 DEF IInv, MemInv, QueuedAsApplied
  <2> QED
    BY <1>5, <1>6, <2>1, <2>3, <2>4 DEF IInv, MemInv
<1>9. ChunkInv'
  <2>1. \A d \in batch' : d.num > hdr.num
    BY <1>1, <1>2 DEF IInv, ChunkInv
  <2>2. hdr.num <= chunkTo
    BY <1>2 DEF IInv, ChunkInv
  <2> QED
    BY <1>1, <1>5, <2>1, <2>2 DEF IInv, ChunkInv
<1> QED
  BY <1>4, <1>7, <1>8, <1>9 DEF IInv

\* The search only moves the ancestor in hand within the canonical rows.
LEMMA SearchPreserves == IInv /\ SearchAncestor => IInv'
<1> SUFFICES ASSUME IInv, SearchAncestor PROVE IInv'
  OBVIOUS
<1>1. UNCHANGED <<dbVars, envVars, memVars, evalVars, target, chunkTo, batch, checked, starts>>
  BY DEF SearchAncestor
<1>2. PICK r \in Layer :
        \/ pc' = "rollback" /\ hdr' = r /\ depth' = depth
        \/ depth' = depth + 1 /\ pc' = pc /\ hdr' = hdr
  BY DEF SearchAncestor
<1>3. r \in canon /\ r \in Hash
  BY DEF IInv, DbInv, Layer
<1>4. DbInv'
  BY <1>1 DEF IInv, DbInv, dbVars, HistoryEndsAtCheckpoint, QueueUnambiguous,
         NoLostEvaluation, CandidatesTraceable
<1>5. ProcType'
  <2>1. pc' \in Down \cup Working \cup {"wait"} /\ hdr' \in Hash /\ depth' \in Nat
    BY <1>2, <1>3 DEF IInv, ProcType, Working
  <2> QED
    BY <1>1, <2>1 DEF IInv, ProcType, envVars, memVars, evalVars
<1>6. MemInv'
  BY <1>1 DEF IInv, MemInv, AppliedOnce, QueuedAsApplied, dbVars, memVars
<1>7. ChunkInv'
  <2>1. pc = "search" /\ pc' \in {"rollback", "search"} /\ (pc' = "rollback" => hdr' \in canon)
    BY <1>2, <1>3 DEF SearchAncestor
  <2> QED
    BY <1>1, <2>1 DEF IInv, ChunkInv, memVars, dbVars
<1> QED
  BY <1>4, <1>5, <1>6, <1>7 DEF IInv

\* A rollback keeps exactly the rows, and the pools none of the logs, above
\* which the cursors were moved down.
LEMMA RollbackStepPreserves == IInv /\ Rollback => IInv'
<1> SUFFICES ASSUME IInv, Rollback PROVE IInv'
  OBVIOUS
<1>1. /\ RollbackToAncestor(hdr) /\ hdr \in canon /\ lastApplied' = hdr /\ registry' = {}
      /\ lastEvaluated' = Lower(lastEvaluated, hdr.num) /\ batch' = {} /\ depth' = 0
      /\ pc' = "anchor"
      /\ UNCHANGED <<envVars, evalVars, target, chunkTo, checked, hdr, starts>>
  BY DEF IInv, ChunkInv, Rollback, RestoredRegistry, AfterRollback
<1>2. /\ hdr \in Hash /\ hdr.num \in Nat /\ lastEvaluated \in Nat /\ ckpt.num \in Nat
      /\ evalCkpt.num \in Nat /\ hdr.num <= ckpt.num /\ lastEvaluated <= evalCkpt.num
      /\ lastApplied = ckpt /\ chunkTo \in Nat
      /\ \A r \in queue : r.block.num \in Nat
  BY <1>1 DEF IInv, DbInv, ProcType, MemInv, HistoryEndsAtCheckpoint, Hash
<1>3. /\ queue' = {r \in queue : r.block.num <= hdr.num}
      /\ ckpt' = hdr /\ evalCkpt' = IF evalCkpt.num > hdr.num THEN hdr ELSE evalCkpt
  BY <1>1 DEF RollbackToAncestor, KeptQueue, RolledBackEval
<1>4. DbInv'
  BY <1>1, RollbackPreserves DEF IInv
<1>5. lastEvaluated' \in Nat /\ lastEvaluated' <= evalCkpt'.num
  BY <1>1, <1>2, <1>3 DEF Lower
<1>6. ProcType'
  BY <1>1, <1>2, <1>5 DEF IInv, ProcType, envVars, evalVars, Working
<1>7. MemInv'
  <2> SUFFICES ASSUME NEW r \in queue', r.block.num > lastEvaluated'
               PROVE  r.block.num >= evalCkpt'.num
    BY <1>1, <1>3, <1>5 DEF MemInv, AppliedOnce, QueuedAsApplied
  <2>1. r \in queue /\ r.block.num <= hdr.num /\ r.block.num \in Nat
    BY <1>2, <1>3
  <2>2. lastEvaluated < r.block.num
    BY <1>1, <1>2, <2>1 DEF Lower
  <2>3. r.block.num >= evalCkpt.num
    BY <2>1, <2>2 DEF IInv, MemInv
  <2> QED
    BY <1>2, <1>3, <2>1, <2>3
<1>8. ChunkInv'
  <2>1. hdr.num <= chunkTo
    BY <1>2 DEF IInv, ChunkInv, Rollback
  <2> QED
    BY <1>1, <2>1 DEF ChunkInv
<1> QED
  BY <1>4, <1>6, <1>7, <1>8 DEF IInv

\* The anchor queues nothing, so it may stand at the checkpoint itself.
LEMMA AnchorPreserves == IInv /\ CommitAnchor => IInv'
<1> SUFFICES ASSUME IInv, CommitAnchor PROVE IInv'
  OBVIOUS
<1> DEFINE b == BlockAt(view, chunkTo)
<1>1. b \in Hash /\ b.num = chunkTo /\ chunkTo \in Nat
  BY BlockAtIsHash DEF IInv, ProcType, CommitAnchor
<1>2. /\ CommitBlockIngest(b, {}) /\ lastApplied' = b /\ hdr' = b /\ pc' = "load"
      /\ batch = {}
      /\ UNCHANGED <<envVars, evalVars, target, chunkTo, batch, checked, depth,
                     lastEvaluated, registry, starts>>
  BY DEF IInv, ChunkInv, CommitAnchor
<1>3. b.num >= ckpt.num
  BY <1>1 DEF IInv, DbInv, ChunkInv, MemInv, CommitAnchor, Hash
<1> HIDE DEF b
<1>4. DbInv'
  <2>1. DbInv
    BY DEF IInv
  <2> QED
    BY <1>1, <1>2, <1>3, <2>1, IngestPreserves
<1>5. queue' = queue /\ ckpt' = b /\ evalCkpt' = evalCkpt /\ canon' = canon \cup {b}
  BY <1>2 DEF CommitBlockIngest
<1>6. ProcType'
  BY <1>1, <1>2 DEF IInv, ProcType, envVars, evalVars, Working
<1>7. MemInv'
  <2>1. AppliedOnce' /\ QueuedAsApplied'
    BY <1>2, <1>5 DEF IInv, MemInv, AppliedOnce, QueuedAsApplied
  <2> QED
    BY <1>2, <1>5, <2>1 DEF IInv, MemInv
<1>8. ChunkInv'
  BY <1>2 DEF ChunkInv
<1> QED
  BY <1>4, <1>6, <1>7, <1>8 DEF IInv

\* Wherever evaluation leads to, it leads there with the chunk finished.
LEMMA ResumeTarget ==
  ASSUME ProcType, Resume
  PROVE  /\ pc' \in {"wait", "fetch", "load"} /\ round' \in {"chunk", "head"}
         /\ pc' = "fetch" => lastApplied.num < target
BY DEF ProcType, Resume

\* Steps that change nothing but where the goroutine is and its batch counters.
LEMMA ControlPreserves ==
  ASSUME IInv,
         UNCHANGED <<dbVars, envVars, workVars, memVars, starts>>,
         pc' \in {"wait", "fetch", "load", "eval"},
         pc' = "fetch" => lastApplied.num < target,
         round' \in {"chunk", "head"}, evalHead' \in Nat, left' \in Nat
  PROVE  IInv'
<1>1. DbInv'
  BY DEF IInv, DbInv, dbVars, HistoryEndsAtCheckpoint, QueueUnambiguous,
         NoLostEvaluation, CandidatesTraceable
<1>2. ProcType'
  BY DEF IInv, ProcType, envVars, workVars, memVars, Working
<1>3. MemInv'
  BY DEF IInv, MemInv, AppliedOnce, QueuedAsApplied, dbVars, memVars
<1>4. ChunkInv'
  BY DEF IInv, ChunkInv, workVars, memVars
<1> QED
  BY <1>1, <1>2, <1>3, <1>4 DEF IInv

\* Loading the queue keeps the invariant.
LEMMA LoadPreserves ==
  IInv /\ (LoadPending \/ EvaluationDone \/ EvaluationFails) => IInv'
<1> SUFFICES ASSUME IInv, LoadPending \/ EvaluationDone \/ EvaluationFails PROVE IInv'
  OBVIOUS
<1>1. view.head \in Nat /\ EvalBudget \in Nat /\ ProcType
  BY ChainsAssumption, ParameterAssumption DEF IInv, ProcType
<1>2. CASE LoadPending
  <2>1. /\ UNCHANGED <<dbVars, envVars, workVars, memVars, starts>> /\ pc' = "eval"
        /\ round' \in {"chunk", "head"} /\ evalHead' \in Nat /\ left' \in Nat
    BY <1>1, <1>2 DEF LoadPending, ProcType
  <2> QED
    BY <2>1, ControlPreserves
<1>3. CASE EvaluationDone \/ EvaluationFails
  <2>1. /\ UNCHANGED <<dbVars, envVars, workVars, memVars, starts>> /\ Resume
        /\ evalHead' \in Nat /\ left' \in Nat
    BY <1>1, <1>3 DEF EvaluationDone, EvaluationFails, ProcType
  <2> QED
    BY <1>1, <2>1, ResumeTarget, ControlPreserves
<1> QED
  BY <1>2, <1>3

\* The row evaluated next is the lowest above the memory cursor, hence the
\* lowest above the database cursor or the row at that cursor.
LEMMA FirstPendingFacts ==
  ASSUME IInv, NEW r \in FirstPending(lastEvaluated)
  PROVE  /\ r \in queue /\ r.block \in Hash /\ r.block.num \in Nat
         /\ lastEvaluated < r.block.num
         /\ evalCkpt.num <= r.block.num
         /\ \A s \in queue : s.block.num < r.block.num => s.block.num <= lastEvaluated
         /\ \A s \in queue : s.block.num < r.block.num => s.block.num <= evalCkpt.num
<1>1. r \in queue /\ r.block.num > lastEvaluated
      /\ \A s \in queue : s.block.num > lastEvaluated => r.block.num <= s.block.num
  BY DEF FirstPending, Pending
<1>2. /\ \A s \in queue : s.block \in Hash /\ s.block.num \in Nat
      /\ lastEvaluated \in Nat /\ evalCkpt.num \in Nat /\ lastEvaluated <= evalCkpt.num
  BY DEF IInv, DbInv, ProcType, MemInv, Hash
<1>3. evalCkpt.num <= r.block.num
  BY <1>1, <1>2 DEF IInv, MemInv
<1>4. \A s \in queue : s.block.num < r.block.num => s.block.num <= lastEvaluated
  BY <1>1, <1>2
<1> QED
  BY <1>1, <1>2, <1>3, <1>4

\* Evaluating or skipping a row, with or without its acknowledgement.
LEMMA EvaluatePreserves == IInv /\ (SkipBlock \/ EvaluateBlock) => IInv'
<1> SUFFICES ASSUME IInv, SkipBlock \/ EvaluateBlock PROVE IInv'
  OBVIOUS
<1>1. PICK r \in FirstPending(lastEvaluated) :
        /\ Acknowledge(r.block)
        /\ \/ SkipStaleBlock(r.block)
           \/ \E amounts \in SUBSET Amount :
                CommitEvaluation(r.block, amounts, IF Strict THEN r.block.num ELSE evalHead)
  BY DEF SkipBlock, EvaluateBlock
<1>2. /\ r \in queue /\ r.block \in Hash /\ r.block.num \in Nat
      /\ lastEvaluated < r.block.num /\ evalCkpt.num <= r.block.num
      /\ \A s \in queue : s.block.num < r.block.num => s.block.num <= lastEvaluated
      /\ \A s \in queue : s.block.num < r.block.num => s.block.num <= evalCkpt.num
  BY FirstPendingFacts
<1>3. UNCHANGED <<envVars, workVars, lastApplied, registry, evalHead, starts>>
  BY DEF SkipBlock, EvaluateBlock
<1>4. DbInv /\ ProcType /\ pc = "eval"
  BY DEF IInv, SkipBlock, EvaluateBlock
<1>5. DbInv'
  <2>1. CASE SkipStaleBlock(r.block)
    BY <1>2, <1>4, <2>1, SkipPreserves
  <2>2. ASSUME NEW amounts \in SUBSET Amount,
               CommitEvaluation(r.block, amounts, IF Strict THEN r.block.num ELSE evalHead)
        PROVE  DbInv'
    <3>1. (IF Strict THEN r.block.num ELSE evalHead) \in Nat
      BY <1>2, <1>4, ParameterAssumption DEF ProcType
    <3> QED
      BY <1>2, <1>4, <2>2, <3>1, EvaluationPreserves
  <2> QED
    BY <1>1, <2>1, <2>2
<1>6. evalCkpt' = r.block /\ UNCHANGED <<ckpt, canon, queue>>
  BY <1>1 DEF SkipStaleBlock, CommitEvaluation
<1>7. /\ lastEvaluated' \in {lastEvaluated, r.block.num}
      /\ pc' \in {"wait", "fetch", "load", "eval"} /\ round' \in {"chunk", "head"}
      /\ pc' = "fetch" => lastApplied.num < target
      /\ left' \in Nat
  <2>1. CASE Resume /\ UNCHANGED <<lastEvaluated, left>>
    BY <1>4, <2>1, ResumeTarget DEF ProcType
  <2>2. CASE /\ lastEvaluated' = r.block.num
             /\ left' = (IF left > 0 THEN left - 1 ELSE 0)
             /\ UNCHANGED <<pc, round>>
    BY <1>4, <2>2 DEF ProcType
  <2> QED
    BY <1>1, <2>1, <2>2 DEF Acknowledge
<1>8. ProcType'
  <2>1. lastEvaluated' \in Nat
    BY <1>2, <1>4, <1>7 DEF ProcType
  <2> QED
    BY <1>3, <1>4, <1>7, <2>1 DEF ProcType, envVars, workVars, Working
<1>9. MemInv'
  <2>1. lastEvaluated' <= r.block.num
    BY <1>2, <1>4, <1>7 DEF ProcType
  <2>2. \A s \in queue : s.block.num > lastEvaluated' => s.block.num >= r.block.num
    <3> SUFFICES ASSUME NEW s \in queue, s.block.num > lastEvaluated'
                 PROVE  s.block.num >= r.block.num
      OBVIOUS
    <3>1. s.block.num \in Nat /\ lastEvaluated \in Nat
      BY <1>4 DEF DbInv, ProcType, Hash
    <3> QED
      BY <1>2, <1>7, <3>1
  <2> QED
    BY <1>3, <1>6, <2>1, <2>2 DEF IInv, MemInv, AppliedOnce, QueuedAsApplied
<1>10. ChunkInv'
  BY <1>3, <1>4, <1>7 DEF IInv, ChunkInv, workVars
<1> QED
  BY <1>5, <1>8, <1>9, <1>10 DEF IInv

\* A start finds in memory what Exit left: the cursors of the database.
LEMMA StartPreserves == IInv /\ Start => IInv'
<1> SUFFICES ASSUME IInv, Start PROVE IInv'
  OBVIOUS
<1>1. UNCHANGED <<envVars, dbVars, chunkTo, batch, checked, hdr, depth, evalHead, left>>
  BY DEF Start
<1>2. /\ starts' \in Nat /\ lastApplied' = ckpt /\ lastEvaluated' = evalCkpt.num
      /\ registry' = {} /\ target' = view.head /\ pc' \in {"fetch", "load"}
      /\ round' \in {"chunk", "head"} /\ (pc' = "fetch" => ckpt.num < target')
      /\ view.head \in Nat /\ lastApplied = ckpt
      /\ evalCkpt.num \in Nat /\ ckpt \in Hash
  BY ChainsAssumption DEF IInv, DbInv, ProcType, MemInv, Start, Hash
<1>3. DbInv'
  BY <1>1 DEF IInv, DbInv, dbVars, HistoryEndsAtCheckpoint, QueueUnambiguous,
         NoLostEvaluation, CandidatesTraceable
<1>4. ProcType'
  BY <1>1, <1>2 DEF IInv, ProcType, envVars, Working
<1>5. MemInv'
  <2>1. \A r \in queue : r.block.num \in Nat
    BY DEF IInv, DbInv, Hash
  <2> QED
    BY <1>1, <1>2, <2>1 DEF MemInv, AppliedOnce, QueuedAsApplied, dbVars
<1>6. ChunkInv'
  BY <1>1, <1>2 DEF IInv, ChunkInv
<1> QED
  BY <1>3, <1>4, <1>5, <1>6 DEF IInv

\* A step of NewHead keeps the invariant.
LEMMA NewHeadPreserves == IInv /\ NewHead => IInv'
<1> SUFFICES ASSUME IInv, NewHead PROVE IInv'
  OBVIOUS
<1>1. UNCHANGED <<envVars, memVars, dbVars, chunkTo, batch, checked, hdr, depth,
                  evalHead, left, starts>>
      /\ pc' = "fetch" /\ round' = "chunk"
  BY DEF NewHead
<1>2. target' \in Nat /\ lastApplied.num < target'
  <2>1. lastApplied.num \in Nat /\ view.head \in Nat
    BY ChainsAssumption DEF IInv, ProcType, Hash
  <2> QED
    BY <2>1 DEF NewHead
<1>3. DbInv'
  BY <1>1 DEF IInv, DbInv, dbVars, HistoryEndsAtCheckpoint, QueueUnambiguous,
         NoLostEvaluation, CandidatesTraceable
<1>4. ProcType'
  BY <1>1, <1>2 DEF IInv, ProcType, envVars, memVars, Working
<1>5. MemInv'
  BY <1>1 DEF IInv, MemInv, AppliedOnce, QueuedAsApplied, dbVars, memVars
<1>6. ChunkInv'
  BY <1>1, <1>2 DEF IInv, ChunkInv, memVars
<1> QED
  BY <1>3, <1>4, <1>5, <1>6 DEF IInv

\* What the node serves is no part of the invariant.
LEMMA ChainPreserves == IInv /\ (ChainGrows \/ ChainSwitches) => IInv'
<1> SUFFICES ASSUME IInv, ChainGrows \/ ChainSwitches PROVE IInv'
  OBVIOUS
<1>1. UNCHANGED <<workVars, evalVars, memVars, dbVars, pc, starts>>
      /\ view' \in Chains /\ switches' \in Nat
  BY DEF IInv, ProcType, ChainGrows, ChainSwitches
<1>2. DbInv'
  BY <1>1 DEF IInv, DbInv, dbVars, HistoryEndsAtCheckpoint, QueueUnambiguous,
         NoLostEvaluation, CandidatesTraceable
<1>3. ProcType'
  BY <1>1 DEF IInv, ProcType, workVars, evalVars, memVars
<1>4. MemInv'
  BY <1>1 DEF IInv, MemInv, AppliedOnce, QueuedAsApplied, dbVars, memVars
<1>5. ChunkInv'
  BY <1>1 DEF IInv, ChunkInv, NextBlock, workVars, memVars, dbVars
<1> QED
  BY <1>2, <1>3, <1>4, <1>5 DEF IInv

\* A stutter keeps the invariant.
LEMMA StutterPreserves == IInv /\ UNCHANGED vars => IInv'
<1> SUFFICES ASSUME IInv, UNCHANGED vars PROVE IInv'
  OBVIOUS
<1>1. UNCHANGED <<envVars, workVars, evalVars, memVars, dbVars, pc, starts>>
  BY DEF vars
<1>2. DbInv'
  BY <1>1 DEF IInv, DbInv, dbVars, HistoryEndsAtCheckpoint, QueueUnambiguous,
         NoLostEvaluation, CandidatesTraceable
<1>3. ProcType'
  BY <1>1 DEF IInv, ProcType, envVars, workVars, evalVars, memVars
<1>4. MemInv'
  BY <1>1 DEF IInv, MemInv, AppliedOnce, QueuedAsApplied, dbVars, memVars
<1>5. ChunkInv'
  BY <1>1 DEF IInv, ChunkInv, NextBlock, workVars, memVars, dbVars
<1> QED
  BY <1>2, <1>3, <1>4, <1>5 DEF IInv

-----------------------------------------------------------------------------
(* The theorems.                                                           *)

\* The invariant holds in the beginning.
LEMMA InitEstablishes == Init => IInv
<1> SUFFICES ASSUME Init PROVE IInv
  OBVIOUS
<1>1. view \in Chains /\ view.head \in Nat /\ ckpt = BlockAt(view, view.head)
  BY ChainsAssumption DEF Init
<1>2. ckpt \in Hash /\ ckpt.num \in Nat
  BY <1>1, BlockAtIsHash DEF Hash
<1>3. DbInv
  BY <1>2 DEF Init, DbInv, HistoryEndsAtCheckpoint, QueueUnambiguous,
              NoLostEvaluation, CandidatesTraceable
<1>4. ProcType
  BY <1>1, <1>2 DEF Init, ProcType, Down
<1>5. MemInv
  BY <1>2 DEF Init, MemInv, AppliedOnce, QueuedAsApplied
<1>6. ChunkInv
  BY DEF Init, ChunkInv
<1> QED
  BY <1>3, <1>4, <1>5, <1>6 DEF IInv

\* Every step keeps the invariant.
LEMMA StepPreserves == IInv /\ [Next]_vars => IInv'
<1> SUFFICES ASSUME IInv, [Next]_vars PROVE IInv'
  OBVIOUS
<1>1. CASE FetchLogs
  BY <1>1, FetchPreserves
<1>2. CASE ReadHeader \/ RecheckParent
  BY <1>2, ReadPreserves
<1>3. CASE CommitBlock
  BY <1>3, CommitBlockPreserves
<1>4. CASE SearchAncestor
  BY <1>4, SearchPreserves
<1>5. CASE NoAncestor
  BY <1>5, "no_ancestor" \in Down, ExitPreserves DEF NoAncestor, Down
<1>6. CASE Rollback
  BY <1>6, RollbackStepPreserves
<1>7. CASE CommitAnchor
  BY <1>7, AnchorPreserves
<1>8. CASE HeaderMissing \/ Stop
  BY <1>8, "down" \in Down, ExitPreserves DEF HeaderMissing, Stop, Down
<1>9. CASE LoadPending \/ EvaluationDone \/ EvaluationFails
  BY <1>9, LoadPreserves
<1>10. CASE SkipBlock \/ EvaluateBlock
  BY <1>10, EvaluatePreserves
<1>11. CASE Start
  BY <1>11, StartPreserves
<1>12. CASE NewHead
  BY <1>12, NewHeadPreserves
<1>13. CASE ChainGrows \/ ChainSwitches
  BY <1>13, ChainPreserves
<1>14. CASE UNCHANGED vars
  BY <1>14, StutterPreserves
<1> QED
  BY <1>1, <1>2, <1>3, <1>4, <1>5, <1>6, <1>7, <1>8, <1>9, <1>10, <1>11, <1>12,
     <1>13, <1>14 DEF Next, Process

\* The inductive invariant holds in every reachable state.
THEOREM Inductive == Spec => []IInv
<1>1. Init => IInv
  BY InitEstablishes
<1>2. IInv /\ [Next]_vars => IInv'
  BY StepPreserves
<1> QED
  BY <1>1, <1>2, PTL DEF Spec

\* Every variable of process and database keeps its type.
THEOREM TypeCorrect == Spec => []TypeOK
<1>1. IInv => TypeOK
  BY DEF IInv, DbInv, ProcType, TypeOK
<1> QED
  BY <1>1, Inductive, PTL

\* Evaluation never overtakes ingestion, and no cursor in memory runs ahead of
\* the one in the database, whatever acknowledgement is lost and wherever the
\* process dies.
THEOREM CursorsNeverDiverge == Spec => []CursorsAgree
<1>1. IInv => CursorsAgree
  BY DEF IInv, DbInv, MemInv, CursorsAgree
<1> QED
  BY <1>1, Inductive, PTL

\* The checkpoint stays the top canonical row of processed_blocks through every
\* ingest, anchor, rollback and restart.
THEOREM CheckpointIsTopOfHistory == Spec => []HistoryEndsAtCheckpoint
<1>1. IInv => HistoryEndsAtCheckpoint
  BY DEF IInv, DbInv
<1> QED
  BY <1>1, Inductive, PTL

\* block_affected_pools holds one canonical block per height.
THEOREM QueueStaysUnambiguous == Spec => []QueueUnambiguous
<1>1. IInv => QueueUnambiguous
  BY DEF IInv, DbInv
<1> QED
  BY <1>1, Inductive, PTL

\* Crash, lost acknowledgement and rollback lose no queued evaluation.
THEOREM NoEvaluationIsLost == Spec => []NoLostEvaluation
<1>1. IInv => NoLostEvaluation
  BY DEF IInv, DbInv
<1> QED
  BY <1>1, Inductive, PTL

\* A canonical candidate belongs to a canonical block at or below the
\* evaluation cursor: RollbackToAncestor orphans all others.
THEOREM CanonicalCandidatesTraceable == Spec => []CandidatesTraceable
<1>1. IInv => CandidatesTraceable
  BY DEF IInv, DbInv
<1> QED
  BY <1>1, Inductive, PTL

\* The pools in memory have applied the logs of one block per height, and none of
\* a height without a canonical row (main.go:400), also when the logs of one fork
\* were committed under the header of another.
THEOREM LogsApplyOnce == Spec => []AppliedOnce
<1>1. IInv => AppliedOnce
  BY DEF IInv, MemInv
<1> QED
  BY <1>1, Inductive, PTL

\* A queued height is evaluated for the pools whose logs memory has applied at it.
THEOREM QueueFollowsMemory == Spec => []QueuedAsApplied
<1>1. IInv => QueuedAsApplied
  BY DEF IInv, MemInv
<1> QED
  BY <1>1, Inductive, PTL

-----------------------------------------------------------------------------
(* The pipeline implements DualCursor: each of the transactions is an      *)
(* abstract step or, when a row is evaluated a second time after a lost    *)
(* acknowledgement, a stutter; every other step leaves the abstract state. *)

\* Cursors and queued blocks have heights, none above the checkpoint.
LEMMA QueueHeights ==
  ASSUME IInv
  PROVE  /\ ckpt.num \in Nat /\ evalCkpt.num \in Nat
         /\ \A r \in queue : r.block.num \in Nat /\ r.block.num <= ckpt.num
BY DEF IInv, DbInv, QueueUnambiguous, HistoryEndsAtCheckpoint, Hash

\* Ingesting a block is a step of DualCursor that opens its height.
LEMMA IngestRefines ==
  ASSUME IInv, NEW b \in Hash, NEW rows, CommitBlockIngest(b, rows),
         b.num >= ckpt.num,
         \A r \in rows : r.block = b,
         rows # {} => b.num > ckpt.num
  PROVE  Abstract!Ingest
<1>1. /\ ckpt' = b /\ evalCkpt' = evalCkpt /\ queue' = queue \cup rows
  BY DEF CommitBlockIngest
<1>2. b.num \in Nat
  BY DEF Hash
<1>3. openHeights \subseteq openHeights'
  BY <1>1 DEF openHeights, Pending
<1>4. openHeights' \subseteq openHeights \cup {h \in {b.num} : h > ckpt.num}
  BY <1>1, <1>2, QueueHeights DEF openHeights, Pending
<1> QED
  BY <1>1, <1>2, <1>3, <1>4 DEF Abstract!Ingest

\* An evaluation or a skip closes the next open height of DualCursor.
LEMMA EvaluationRefines ==
  ASSUME IInv, NEW r \in FirstPending(lastEvaluated),
         evalCkpt' = r.block, UNCHANGED <<ckpt, queue>>
  PROVE  Abstract!Evaluate \/ UNCHANGED <<ckpt.num, evalCkpt.num, openHeights>>
<1>1. /\ r \in queue /\ r.block.num \in Nat /\ evalCkpt.num <= r.block.num
      /\ \A s \in queue : s.block.num < r.block.num => s.block.num <= evalCkpt.num
  BY FirstPendingFacts
<1>2. CASE r.block.num = evalCkpt.num
  BY <1>2 DEF openHeights, Pending
<1>3. CASE r.block.num # evalCkpt.num
  <2>1. r.block.num > evalCkpt.num
    BY <1>1, <1>3, QueueHeights
  <2>2. r.block.num \in openHeights
    BY <1>1, <2>1 DEF openHeights, Pending
  <2>3. \A o \in openHeights : r.block.num <= o
    BY <1>1, QueueHeights DEF openHeights, Pending
  <2>4. openHeights' = openHeights \ {r.block.num}
    BY <1>1, <2>1, QueueHeights DEF openHeights, Pending
  <2> QED
    BY <2>2, <2>3, <2>4 DEF Abstract!Evaluate
<1> QED
  BY <1>2, <1>3

\* A rollback moves both cursors of DualCursor back.
LEMMA RollbackRefines ==
  ASSUME IInv, NEW b \in canon, RollbackToAncestor(b)
  PROVE  Abstract!Rollback
<1>1. /\ ckpt' = b /\ queue' = {r \in queue : r.block.num <= b.num}
      /\ evalCkpt' = IF evalCkpt.num > b.num THEN b ELSE evalCkpt
  BY DEF RollbackToAncestor, KeptQueue, RolledBackEval
<1>2. b.num \in Nat /\ b.num <= ckpt.num
  BY DEF IInv, DbInv, HistoryEndsAtCheckpoint, Hash
<1>3. openHeights' = {h \in openHeights : h <= b.num}
  <2>1. CASE evalCkpt.num > b.num
    BY <1>1, <1>2, <2>1, QueueHeights DEF openHeights, Pending
  <2>2. CASE ~(evalCkpt.num > b.num)
    BY <1>1, <2>2 DEF openHeights, Pending
  <2> QED
    BY <2>1, <2>2
<1> QED
  BY <1>1, <1>2, <1>3 DEF Abstract!Rollback

\* Every step of the pipeline is a step of DualCursor or a stutter.
LEMMA StepRefines ==
  ASSUME IInv, [Next]_vars
  PROVE  [Abstract!Next]_(Abstract!vars)
<1> DEFINE same == UNCHANGED <<ckpt, evalCkpt, queue>>
<1>1. CASE same
  BY <1>1 DEF Abstract!vars, openHeights, Pending
<1>2. CASE CommitBlock
  <2>1. PICK b \in NextBlock :
          CommitBlockIngest(hdr, IF b \in Swapped THEN {[block |-> hdr, src |-> b]} ELSE {})
    BY <1>2 DEF CommitBlock
  <2>2. hdr \in Hash /\ hdr.num > ckpt.num /\ hdr.num >= ckpt.num
    BY <1>2, <2>1, BlockAssumption
    DEF IInv, DbInv, ProcType, MemInv, ChunkInv, CommitBlock, NextBlock, Hash
  <2>3. Abstract!Ingest
    BY <2>1, <2>2, IngestRefines
  <2> QED
    BY <2>3 DEF Abstract!Next
<1>3. CASE CommitAnchor
  <2>1. /\ BlockAt(view, chunkTo) \in Hash
        /\ BlockAt(view, chunkTo).num >= ckpt.num
    <3>1. view \in Chains /\ chunkTo \in Nat /\ chunkTo <= view.head /\ ckpt.num <= chunkTo
      BY <1>3 DEF IInv, ProcType, MemInv, ChunkInv, CommitAnchor
    <3>2. BlockAt(view, chunkTo) \in Hash /\ BlockAt(view, chunkTo).num = chunkTo
      BY <3>1, BlockAtIsHash
    <3> QED
      BY <3>1, <3>2
  <2>2. CommitBlockIngest(BlockAt(view, chunkTo), {})
    BY <1>3 DEF CommitAnchor
  <2>3. Abstract!Ingest
    BY <2>1, <2>2, IngestRefines
  <2> QED
    BY <2>3 DEF Abstract!Next
<1>4. CASE Rollback
  <2>1. hdr \in canon /\ RollbackToAncestor(hdr)
    BY <1>4 DEF IInv, ChunkInv, Rollback
  <2> QED
    BY <2>1, RollbackRefines DEF Abstract!Next
<1>5. CASE SkipBlock \/ EvaluateBlock
  <2>1. PICK r \in FirstPending(lastEvaluated) :
          evalCkpt' = r.block /\ UNCHANGED <<ckpt, queue>>
    BY <1>5 DEF SkipBlock, EvaluateBlock, SkipStaleBlock, CommitEvaluation
  <2>2. Abstract!Evaluate \/ UNCHANGED <<ckpt.num, evalCkpt.num, openHeights>>
    BY <2>1, EvaluationRefines
  <2> QED
    BY <2>2 DEF Abstract!Next, Abstract!vars
<1>6. CASE FetchLogs \/ ReadHeader \/ RecheckParent \/ SearchAncestor \/ NoAncestor
  BY <1>6, <1>1 DEF FetchLogs, ReadHeader, RecheckParent, SearchAncestor, NoAncestor,
                    Exit, dbVars
<1>7. CASE HeaderMissing \/ Stop \/ Start \/ NewHead \/ ChainGrows \/ ChainSwitches
  BY <1>7, <1>1 DEF HeaderMissing, Stop, Start, NewHead, ChainGrows, ChainSwitches,
                    Exit, dbVars
<1>8. CASE LoadPending \/ EvaluationDone \/ EvaluationFails \/ UNCHANGED vars
  BY <1>8, <1>1 DEF LoadPending, EvaluationDone, EvaluationFails, vars, dbVars
<1> QED
  BY <1>2, <1>3, <1>4, <1>5, <1>6, <1>7, <1>8 DEF Next, Process

\* Ingest, evaluation, reorg and restart together are the dual-cursor queue of
\* DualCursor, with the heights of the pending rows as its open heights.
THEOREM Refinement == Spec => ImplementsDualCursor
<1>1. Init => Abstract!Init
  <2> SUFFICES ASSUME Init PROVE Abstract!Init
    OBVIOUS
  <2>1. ckpt.num \in Nat /\ evalCkpt = ckpt /\ queue = {}
    BY ChainsAssumption DEF Init, BlockAt
  <2> QED
    BY <2>1 DEF Abstract!Init, openHeights, Pending
<1>2. IInv /\ [Next]_vars => [Abstract!Next]_(Abstract!vars)
  BY StepRefines
<1> QED
  BY <1>1, <1>2, Inductive, PTL DEF Spec, ImplementsDualCursor, Abstract!Spec

\* No evaluation cursor step passes a queued block: it goes to the block of a
\* queued row with nothing queued in between.
THEOREM EvaluationInOrder == Spec => EvaluatedInOrder
<1> DEFINE Step == evalCkpt'.num > evalCkpt.num =>
                     /\ evalCkpt' \in canon
                     /\ \A r \in queue : ~(evalCkpt.num < r.block.num /\ r.block.num < evalCkpt'.num)
<1>1. IInv /\ [Next]_vars => [Step]_vars
  <2> SUFFICES ASSUME IInv, [Next]_vars PROVE [Step]_vars
    OBVIOUS
  <2>1. CASE evalCkpt' = evalCkpt
    BY <2>1, QueueHeights
  <2>2. CASE Rollback
    <3>1. evalCkpt'.num <= evalCkpt.num /\ evalCkpt'.num \in Nat /\ evalCkpt.num \in Nat
      BY <2>2 DEF IInv, DbInv, ProcType, Rollback, RollbackToAncestor, RolledBackEval, Hash
    <3> QED
      BY <3>1
  <2>3. CASE SkipBlock \/ EvaluateBlock
    <3>1. PICK r \in FirstPending(lastEvaluated) : evalCkpt' = r.block
      BY <2>3 DEF SkipBlock, EvaluateBlock, SkipStaleBlock, CommitEvaluation
    <3>2. /\ r \in queue
          /\ \A s \in queue : s.block.num < r.block.num => s.block.num <= evalCkpt.num
      BY <3>1, FirstPendingFacts
    <3>3. r.block \in canon
      BY <3>2 DEF IInv, DbInv, QueueUnambiguous
    <3> QED
      BY <3>1, <3>2, <3>3, QueueHeights
  <2>4. CASE CommitBlock \/ CommitAnchor
    BY <2>1, <2>4 DEF CommitBlock, CommitAnchor, CommitBlockIngest
  <2>5. CASE FetchLogs \/ ReadHeader \/ RecheckParent \/ SearchAncestor \/ NoAncestor
    BY <2>1, <2>5 DEF FetchLogs, ReadHeader, RecheckParent, SearchAncestor, NoAncestor,
                      Exit, dbVars
  <2>6. CASE HeaderMissing \/ Stop \/ Start \/ NewHead \/ ChainGrows \/ ChainSwitches
    BY <2>1, <2>6 DEF HeaderMissing, Stop, Start, NewHead, ChainGrows, ChainSwitches,
                      Exit, dbVars
  <2>7. CASE LoadPending \/ EvaluationDone \/ EvaluationFails \/ UNCHANGED vars
    BY <2>1, <2>7 DEF LoadPending, EvaluationDone, EvaluationFails, vars, dbVars
  <2> QED
    BY <2>2, <2>3, <2>4, <2>5, <2>6, <2>7 DEF Next, Process
<1> QED
  BY <1>1, Inductive, PTL DEF Spec, EvaluatedInOrder

-----------------------------------------------------------------------------
(* What a chain that is replaced only while the process waits or is down   *)
(* adds (Roaming = FALSE): from the log query to the last commit of a      *)
(* chunk, and from the search for an ancestor to the rollback, the chain   *)
(* only grows, so what was read stays true.                                *)

\* What the goroutine has in hand is of the served chain.
HandServed ==
  /\ \A b \in batch : IsOn(b, view)
  /\ pc \in {"commit", "rollback"} => IsOn(hdr, view)

\* An anchor at the height of the checkpoint is the checkpoint itself.
AnchorServed == pc = "anchor" => lastApplied.num < chunkTo \/ IsOn(lastApplied, view)

\* The rows the search has gone past are not of the served chain.
SearchedRows ==
  pc \in {"search", "rollback"} =>
    \A b \in canon : b.num > lastApplied.num - depth => b.num <= view.head /\ ~IsOn(b, view)

\* The ancestor in hand is the row at the depth reached.
AncestorInHand == pc = "rollback" => hdr.num = lastApplied.num - depth

\* Blocks are in hand only from the log query to the end of their chunk.
BatchInWork == batch # {} => pc \in {"scan", "recheck", "commit", "search", "rollback"}

CalmInv ==
  /\ OneCanonicalPerHeight /\ BatchInWork
  /\ HandServed /\ AnchorServed /\ SearchedRows /\ AncestorInHand

\* A chain holds the block it has at a height, and one block per height.
LEMMA IsOnBlockAt ==
  ASSUME NEW c \in Chains, NEW h \in Nat, h <= c.head
  PROVE  IsOn(BlockAt(c, h), c)
BY BlockAtIsHash DEF IsOn, BlockAt

\* Two blocks of one height on one chain are the same block.
LEMMA OneBlockOfHeight ==
  ASSUME NEW c \in Chains, NEW b \in Hash, NEW d \in Hash,
         IsOn(b, c), IsOn(d, c), b.num = d.num
  PROVE  b = d
BY DEF IsOn, Hash

\* When a chain grows, nothing is decided anew up to its old head.
LEMMA IsOnGrows ==
  ASSUME NEW c \in Chains, NEW d \in Chains, Extends(c, d), NEW b \in Hash, b.num <= d.head
  PROVE  b.num <= c.head /\ (IsOn(b, c) <=> IsOn(b, d))
<1>1. b.num \in 0 .. d.head /\ c.head \in Nat /\ d.head \in Nat /\ b.num \in Nat
  BY ChainsAssumption DEF Hash
<1> QED
  BY <1>1 DEF Extends, IsOn

\* The logs of a range are logs of blocks of the chain that was asked.
LEMMA LogsAreServed ==
  ASSUME NEW c \in Chains, NEW from \in Nat, NEW upto \in Nat, NEW b \in LogsOf(c, from, upto)
  PROVE  IsOn(b, c)
<1>1. PICK h \in from .. Lower(upto, c.head) : b = BlockAt(c, h)
  BY DEF LogsOf
<1>2. h \in Nat /\ h <= c.head
  BY ChainsAssumption DEF Lower
<1> QED
  BY <1>1, <1>2, IsOnBlockAt

-----------------------------------------------------------------------------
\* Steps that leave chain, history and queue alone, take nothing new in hand
\* and end outside of ingestion and search.
LEMMA CalmFrame ==
  ASSUME CalmInv, UNCHANGED <<view, canon, queue>>, batch' = {},
         pc' \notin {"commit", "search", "rollback", "anchor"}
  PROVE  CalmInv'
BY DEF CalmInv, OneCanonicalPerHeight, BatchInWork, HandServed, AnchorServed,
       SearchedRows, AncestorInHand, IsOn

\* A chunk's logs are of the chain served now, and its anchor, when there are
\* none, lies above the checkpoint.
LEMMA FetchCalm == IInv /\ CalmInv /\ FetchLogs => CalmInv'
<1> SUFFICES ASSUME IInv, CalmInv, FetchLogs PROVE CalmInv'
  OBVIOUS
<1>1. /\ lastApplied.num \in Nat /\ target \in Nat /\ lastApplied.num < target
      /\ view \in Chains /\ ChunkSize \in Nat \ {0}
  BY ParameterAssumption DEF IInv, ProcType, ChunkInv, FetchLogs, Hash
<1>2. chunkTo' \in Nat /\ lastApplied.num < chunkTo'
  BY <1>1 DEF FetchLogs, Lower
<1>3. batch' = LogsOf(view, lastApplied.num + 1, chunkTo')
      /\ pc' = (IF batch' = {} THEN "anchor" ELSE "scan")
      /\ UNCHANGED <<view, canon, queue, lastApplied>>
  BY DEF FetchLogs, envVars, memVars, dbVars
<1>4. \A b \in batch' : IsOn(b, view)
  BY <1>1, <1>2, <1>3, LogsAreServed, lastApplied.num + 1 \in Nat
<1> QED
  BY <1>2, <1>3, <1>4 DEF CalmInv, OneCanonicalPerHeight, BatchInWork, HandServed,
     AnchorServed, SearchedRows, AncestorInHand, IsOn

\* The header in hand is the served chain's block of its height.
LEMMA ReadCalm == IInv /\ CalmInv /\ (ReadHeader \/ RecheckParent) => CalmInv'
<1> SUFFICES ASSUME IInv, CalmInv, ReadHeader \/ RecheckParent PROVE CalmInv'
  OBVIOUS
<1>1. UNCHANGED <<view, canon, queue, lastApplied, chunkTo, batch>>
  BY DEF ReadHeader, RecheckParent, envVars, memVars, dbVars
<1>2. PICK b \in NextBlock :
        \/ b.num <= view.head /\ hdr' = BlockAt(view, b.num) /\ pc' \in {"commit", "recheck"}
        \/ pc' = "search" /\ depth' = 0
  BY DEF ReadHeader, RecheckParent, ParentMatches
<1>3. b.num \in Nat /\ view \in Chains
  BY BlockAssumption DEF IInv, ProcType, NextBlock, Hash
<1>4. pc' = "commit" => IsOn(hdr', view)
  BY <1>2, <1>3, IsOnBlockAt
<1>5. pc' = "search" => \A d \in canon : ~(d.num > lastApplied.num - depth')
  BY <1>2 DEF IInv, DbInv, MemInv, HistoryEndsAtCheckpoint, Hash
<1> QED
  BY <1>1, <1>2, <1>4, <1>5 DEF CalmInv, OneCanonicalPerHeight,
     BatchInWork, HandServed, AnchorServed, SearchedRows, AncestorInHand, IsOn

\* The block committed lies above the history.
LEMMA CommitBlockCalm == IInv /\ CalmInv /\ CommitBlock => CalmInv'
<1> SUFFICES ASSUME IInv, CalmInv, CommitBlock PROVE CalmInv'
  OBVIOUS
<1>1. PICK b \in NextBlock :
        /\ CommitBlockIngest(hdr, IF b \in Swapped THEN {[block |-> hdr, src |-> b]} ELSE {})
        /\ batch' = batch \ {b}
  BY DEF CommitBlock
<1>2. /\ b \in batch /\ b \in Hash /\ hdr \in Hash /\ hdr.num = b.num /\ view \in Chains
      /\ b.num > lastApplied.num /\ lastApplied = ckpt
  BY BlockAssumption DEF IInv, ProcType, MemInv, ChunkInv, CommitBlock, NextBlock
<1>3. IsOn(b, view) /\ IsOn(hdr, view)
  BY <1>2 DEF CalmInv, HandServed, CommitBlock
<1>5. /\ canon' = canon \cup {hdr} /\ lastApplied' = hdr
      /\ pc' = (IF batch' = {} THEN "anchor" ELSE "scan")
      /\ UNCHANGED <<view, chunkTo>>
  BY <1>1 DEF CommitBlock, CommitBlockIngest, envVars
<1>6. OneCanonicalPerHeight'
  <2>1. \A d \in canon : d.num < hdr.num
    BY <1>2 DEF IInv, DbInv, HistoryEndsAtCheckpoint, Hash
  <2> QED
    BY <1>2, <1>5, <2>1 DEF CalmInv, OneCanonicalPerHeight, Hash
<1> QED
  BY <1>1, <1>3, <1>5, <1>6 DEF CalmInv, BatchInWork, HandServed, AnchorServed, SearchedRows,
     AncestorInHand, IsOn

\* A row of the search that is not of the served chain is the only row of its
\* height: the search has gone past that height altogether.
LEMMA SearchCalm == IInv /\ CalmInv /\ SearchAncestor => CalmInv'
<1> SUFFICES ASSUME IInv, CalmInv, SearchAncestor PROVE CalmInv'
  OBVIOUS
<1>1. UNCHANGED <<view, canon, queue, lastApplied, batch>> /\ pc = "search"
  BY DEF SearchAncestor, envVars, memVars, dbVars
<1>2. PICK r \in Layer :
        /\ r.num <= view.head
        /\ \/ IsOn(r, view) /\ pc' = "rollback" /\ hdr' = r /\ depth' = depth
           \/ ~IsOn(r, view) /\ depth' = depth + 1 /\ pc' = pc
  BY DEF SearchAncestor, IsAncestor
<1>3. r \in canon /\ r.num = lastApplied.num - depth /\ depth \in Nat /\ lastApplied.num \in Nat
  BY DEF Layer, IInv, ProcType, Hash
<1>4. \A b \in canon : b.num > lastApplied.num - depth => b.num <= view.head /\ ~IsOn(b, view)
  BY <1>1 DEF CalmInv, SearchedRows
<1>5. \A b \in canon : b.num \in Nat /\ (b.num = r.num => b = r)
  BY <1>3 DEF CalmInv, OneCanonicalPerHeight, IInv, DbInv, Hash
<1>6. \A b \in canon : b.num > lastApplied.num - depth' => b.num <= view.head /\ ~IsOn(b, view)
  <2>1. CASE depth' = depth
    BY <1>4, <2>1
  <2>2. CASE ~IsOn(r, view) /\ depth' = depth + 1
    BY <1>2, <1>3, <1>4, <1>5, <2>2
  <2> QED
    BY <1>2, <2>1, <2>2
<1> QED
  BY <1>1, <1>2, <1>3, <1>6 DEF CalmInv, OneCanonicalPerHeight,
     BatchInWork, HandServed, AnchorServed, SearchedRows, AncestorInHand, IsOn

\* The ancestor in hand is still served when it becomes the checkpoint.
LEMMA RollbackCalm == IInv /\ CalmInv /\ Rollback => CalmInv'
<1> SUFFICES ASSUME IInv, CalmInv, Rollback PROVE CalmInv'
  OBVIOUS
<1>1. /\ canon' \subseteq canon /\ queue' \subseteq queue /\ lastApplied' = hdr
      /\ batch' = {} /\ pc' = "anchor" /\ UNCHANGED view
  BY DEF Rollback, RollbackToAncestor, KeptHistory, KeptQueue, AfterRollback, envVars
<1>2. IsOn(hdr, view)
  BY DEF CalmInv, HandServed, Rollback
<1> QED
  BY <1>1, <1>2 DEF CalmInv, OneCanonicalPerHeight, BatchInWork, HandServed,
     AnchorServed, SearchedRows, AncestorInHand, IsOn

\* An anchor lies above the history or is its top row.
LEMMA AnchorCalm == IInv /\ CalmInv /\ CommitAnchor => CalmInv'
<1> SUFFICES ASSUME IInv, CalmInv, CommitAnchor PROVE CalmInv'
  OBVIOUS
<1> DEFINE b == BlockAt(view, chunkTo)
<1>1. /\ view \in Chains /\ chunkTo \in Nat /\ chunkTo <= view.head /\ batch = {}
      /\ lastApplied = ckpt /\ ckpt \in Hash /\ ckpt.num <= chunkTo
  BY DEF IInv, DbInv, ProcType, MemInv, ChunkInv, CommitAnchor
<1>2. b \in Hash /\ b.num = chunkTo /\ IsOn(b, view)
  BY <1>1, BlockAtIsHash, IsOnBlockAt
<1>3. /\ canon' = canon \cup {b} /\ queue' = queue /\ pc' = "load"
      /\ UNCHANGED <<view, batch>>
  BY DEF CommitAnchor, CommitBlockIngest, envVars
<1> HIDE DEF b
<1>4. b = ckpt \/ ckpt.num < b.num
  <2>1. CASE lastApplied.num < chunkTo
    BY <1>1, <1>2, <2>1
  <2>2. CASE IsOn(lastApplied, view) /\ ckpt.num = chunkTo
    BY <1>1, <1>2, <2>2, OneBlockOfHeight
  <2> QED
    BY <1>1, <2>1, <2>2 DEF CalmInv, AnchorServed, CommitAnchor, Hash
<1>5. \A d \in canon : d.num \in Nat /\ d.num <= ckpt.num
  BY DEF IInv, DbInv, HistoryEndsAtCheckpoint, Hash
<1>6. OneCanonicalPerHeight'
  <2>1. CASE b = ckpt
    BY <1>3, <2>1 DEF CalmInv, OneCanonicalPerHeight, IInv, DbInv, HistoryEndsAtCheckpoint
  <2>2. CASE ckpt.num < b.num
    <3>1. \A d \in canon : d.num # b.num
      BY <1>1, <1>2, <1>5, <2>2 DEF Hash
    <3> QED
      BY <1>3, <3>1 DEF CalmInv, OneCanonicalPerHeight
  <2> QED
    BY <1>4, <2>1, <2>2
<1> QED
  BY <1>1, <1>3, <1>6 DEF CalmInv, BatchInWork, HandServed, AnchorServed, SearchedRows,
     AncestorInHand, IsOn

\* While the process works its chain only grows.
LEMMA ChainCalm ==
  ASSUME Roaming = FALSE, IInv, CalmInv, ChainGrows \/ ChainSwitches
  PROVE  CalmInv'
<1>1. view' \in Chains /\ UNCHANGED <<canon, queue, batch, pc, hdr, depth, lastApplied, chunkTo>>
  BY DEF ChainGrows, ChainSwitches, workVars, memVars, dbVars
<1>2. CASE pc \notin Working
  BY <1>1, <1>2 DEF CalmInv, OneCanonicalPerHeight, BatchInWork, HandServed,
     AnchorServed, SearchedRows, AncestorInHand, Working
<1>3. CASE pc \in Working
  <2>1. view \in Chains /\ Extends(view', view)
    BY <1>3 DEF IInv, ProcType, ChainGrows, ChainSwitches
  <2>2. ASSUME NEW b \in Hash, IsOn(b, view) PROVE IsOn(b, view')
    BY <1>1, <2>1, <2>2, IsOnGrows DEF IsOn
  <2>3. ASSUME NEW b \in Hash, b.num <= view.head, ~IsOn(b, view)
        PROVE  b.num <= view'.head /\ ~IsOn(b, view')
    BY <1>1, <2>1, <2>3, IsOnGrows
  <2>4. /\ batch \subseteq Hash /\ hdr \in Hash /\ lastApplied \in Hash /\ canon \subseteq Hash
    BY BlockAssumption DEF IInv, DbInv, ProcType
  <2>5. HandServed'
    <3>1. \A b \in batch : IsOn(b, view')
      BY <2>2, <2>4 DEF CalmInv, HandServed
    <3>2. pc \in {"commit", "rollback"} => IsOn(hdr, view')
      BY <2>2, <2>4 DEF CalmInv, HandServed
    <3> QED
      BY <1>1, <3>1, <3>2 DEF HandServed, IsOn
  <2>6. AnchorServed'
    <3>1. pc = "anchor" => lastApplied.num < chunkTo \/ IsOn(lastApplied, view')
      BY <2>2, <2>4 DEF CalmInv, AnchorServed
    <3> QED
      BY <1>1, <3>1 DEF AnchorServed, IsOn
  <2>7. SearchedRows'
    <3>1. pc \in {"search", "rollback"} =>
            \A b \in canon : b.num > lastApplied.num - depth =>
              b.num <= view'.head /\ ~IsOn(b, view')
      BY <2>3, <2>4 DEF CalmInv, SearchedRows
    <3> QED
      BY <1>1, <3>1 DEF SearchedRows, IsOn
  <2> QED
    BY <1>1, <2>5, <2>6, <2>7 DEF CalmInv, OneCanonicalPerHeight,
       BatchInWork, AncestorInHand
<1> QED
  BY <1>2, <1>3

\* Every step keeps the calm invariant when the chain is replaced only outside
\* of the process's work.
LEMMA StepCalm ==
  ASSUME Roaming = FALSE PROVE IInv /\ CalmInv /\ [Next]_vars => CalmInv'
<1> SUFFICES ASSUME IInv, CalmInv, [Next]_vars PROVE CalmInv'
  OBVIOUS
<1>1. CASE FetchLogs
  BY <1>1, FetchCalm
<1>2. CASE ReadHeader \/ RecheckParent
  BY <1>2, ReadCalm
<1>3. CASE CommitBlock
  BY <1>3, CommitBlockCalm
<1>4. CASE SearchAncestor
  BY <1>4, SearchCalm
<1>5. CASE Rollback
  BY <1>5, RollbackCalm
<1>6. CASE CommitAnchor
  BY <1>6, AnchorCalm
<1>7. CASE NoAncestor \/ HeaderMissing \/ Stop
  <2>1. UNCHANGED <<view, canon, queue>> /\ batch' = {} /\ pc' \in {"down", "no_ancestor"}
    BY <1>7 DEF NoAncestor, HeaderMissing, Stop, Exit, envVars, dbVars
  <2> QED
    BY <2>1, CalmFrame
<1>8. CASE LoadPending \/ EvaluationDone \/ EvaluationFails \/ SkipBlock \/ EvaluateBlock
  <2>1. pc \in {"load", "eval"} /\ UNCHANGED <<view, canon, queue, batch>>
    BY <1>8 DEF LoadPending, EvaluationDone, EvaluationFails, SkipBlock, EvaluateBlock,
       SkipStaleBlock, CommitEvaluation, envVars, workVars, dbVars
  <2>2. pc' \in {"wait", "fetch", "load", "eval"}
    BY <1>8, <2>1 DEF LoadPending, EvaluationDone, EvaluationFails, SkipBlock,
       EvaluateBlock, Acknowledge, Resume
  <2>3. batch = {}
    BY <2>1 DEF CalmInv, BatchInWork
  <2> QED
    BY <2>1, <2>2, <2>3, CalmFrame
<1>9. CASE Start \/ NewHead
  <2>1. pc \in Down \cup {"wait"} /\ UNCHANGED <<view, canon, queue, batch>>
        /\ pc' \in {"fetch", "load"}
    BY <1>9 DEF Start, NewHead, envVars, dbVars
  <2>2. batch = {}
    BY <2>1 DEF CalmInv, BatchInWork, Down
  <2> QED
    BY <2>1, <2>2, CalmFrame
<1>10. CASE ChainGrows \/ ChainSwitches
  BY <1>10, ChainCalm
<1>11. CASE UNCHANGED vars
  BY <1>11 DEF vars, envVars, workVars, memVars, dbVars, CalmInv, OneCanonicalPerHeight,
     BatchInWork, HandServed, AnchorServed, SearchedRows,
     AncestorInHand, IsOn
<1> QED
  BY <1>1, <1>2, <1>3, <1>4, <1>5, <1>6, <1>7, <1>8, <1>9, <1>10, <1>11 DEF Next, Process

\* The calm invariant holds in every reachable state.
THEOREM CalmInductive == ASSUME Roaming = FALSE PROVE Spec => []CalmInv
<1>1. Init => CalmInv
  BY DEF Init, CalmInv, OneCanonicalPerHeight, BatchInWork, HandServed,
     AnchorServed, SearchedRows, AncestorInHand
<1>2. IInv /\ CalmInv /\ [Next]_vars => CalmInv'
  BY StepCalm
<1> QED
  BY <1>1, <1>2, Inductive, PTL DEF Spec

\* processed_blocks holds one canonical row per height, anchors and rollbacks
\* included, when the chain is not replaced while the process works.
THEOREM CanonicalRowsAreUnique == ASSUME Roaming = FALSE PROVE Spec => []OneCanonicalPerHeight
<1>1. CalmInv => OneCanonicalPerHeight
  BY DEF CalmInv
<1> QED
  BY <1>1, CalmInductive, PTL

\* handleReorg rolls back to a block of the served chain and orphans none of it.
THEOREM RollbackIsExact == ASSUME Roaming = FALSE PROVE Spec => RollbackMeetsChain
<1> DEFINE Step == pc = "rollback" /\ pc' \notin Down \cup {"rollback"} =>
                     /\ IsOn(ckpt', view)
                     /\ \A b \in canon \ canon' : ~IsOn(b, view)
<1>1. IInv /\ CalmInv /\ [Next]_vars => [Step]_vars
  <2> SUFFICES ASSUME IInv, CalmInv, Next, pc = "rollback", pc' \notin Down \cup {"rollback"}
               PROVE  IsOn(ckpt', view) /\ \A b \in canon \ canon' : ~IsOn(b, view)
    OBVIOUS
  <2>1. Rollback
    BY DEF Next, Process, FetchLogs, ReadHeader, RecheckParent, CommitBlock, SearchAncestor,
       NoAncestor, CommitAnchor, HeaderMissing, Exit, LoadPending, SkipBlock, EvaluateBlock,
       EvaluationDone, EvaluationFails, NewHead, Start, Stop, ChainGrows, ChainSwitches,
       Down
  <2>2. ckpt' = hdr /\ canon' = {b \in canon : b.num <= hdr.num}
    BY <2>1 DEF Rollback, RollbackToAncestor, KeptHistory
  <2>3. IsOn(hdr, view) /\ hdr.num = lastApplied.num - depth
    BY DEF CalmInv, HandServed, AncestorInHand
  <2>4. ASSUME NEW b \in canon \ canon' PROVE ~IsOn(b, view)
    <3>1. b.num \in Nat /\ hdr.num \in Nat
      BY DEF IInv, DbInv, ProcType, Hash
    <3>2. b.num > lastApplied.num - depth
      BY <2>2, <2>3, <3>1
    <3> QED
      BY <3>2 DEF CalmInv, SearchedRows
  <2> QED
    BY <2>2, <2>3, <2>4 DEF IsOn
<1> QED
  BY <1>1, Inductive, CalmInductive, PTL DEF Spec, RollbackMeetsChain

-----------------------------------------------------------------------------
(* What ingestion keeps of the chain.  A Swap can only be lost when the    *)
(* chain is replaced, or when the parent check of a chunk fails because    *)
(* heights below the chunk's first logs are quiet.  Without either, the    *)
(* batch is what is missing between the checkpoint and the chunk's     *)
(* end, whatever reads fail and wherever the process stops.                *)

\* Every block emits a Swap, a Mint or a Burn.
EveryBlockLogged == \A c \in Chains : \A h \in 0 .. c.head : BlockAt(c, h) \in Logged

\* Every Swap between the history and the checkpoint is queued.
Complete ==
  \A h \in 0 .. ckpt.num :
    BlockAt(view, h) \in Swapped /\ (\E b \in canon : b.num < h)
      => \E r \in queue : r.src = BlockAt(view, h)

\* The goroutine works through its chunk block by block.
ChunkServed ==
  /\ target <= view.head
  /\ pc \notin {"recheck", "search", "rollback"}
  /\ pc \in {"scan", "commit"} =>
       /\ lastApplied.num < chunkTo /\ chunkTo <= view.head
       /\ batch = {BlockAt(view, h) : h \in lastApplied.num + 1 .. chunkTo}
  /\ pc = "commit" => hdr = BlockAt(view, lastApplied.num + 1)
  /\ pc = "anchor" => lastApplied.num = chunkTo

SteadyInv == IsOn(lastApplied, view) /\ ChunkServed /\ Complete

\* A block of a chain is the chain's block of its height.
LEMMA ServedBlock ==
  ASSUME NEW c \in Chains, NEW b \in Hash, IsOn(b, c) PROVE b = BlockAt(c, b.num)
BY DEF IsOn, BlockAt, Hash

\* The log query answers with every block of its range.
LEMMA LogsOfAll ==
  ASSUME EveryBlockLogged, NEW c \in Chains, NEW from \in Nat, NEW up \in Nat, up <= c.head
  PROVE  LogsOf(c, from, up) = {BlockAt(c, h) : h \in from .. up}
<1>1. c.head \in Nat /\ Lower(up, c.head) = up
  BY ChainsAssumption DEF Lower
<1>2. \A h \in from .. up : BlockAt(c, h) \in Logged
  BY <1>1 DEF EveryBlockLogged
<1> QED
  BY <1>1, <1>2 DEF LogsOf

\* The next block of a chunk is the one above the checkpoint, and its parent is
\* the block last applied.
LEMMA NextIsAbove ==
  ASSUME IInv, SteadyInv, pc \in {"scan", "commit"}
  PROVE  /\ NextBlock = {BlockAt(view, lastApplied.num + 1)}
         /\ BlockAt(view, lastApplied.num + 1).num = lastApplied.num + 1
         /\ IsOn(BlockAt(view, lastApplied.num + 1), view)
         /\ ParentMatches(lastApplied.num + 1)
<1>1. /\ view \in Chains /\ view.head \in Nat /\ lastApplied \in Hash /\ lastApplied.num \in Nat
      /\ chunkTo \in Nat /\ lastApplied.num < chunkTo /\ chunkTo <= view.head
      /\ batch = {BlockAt(view, h) : h \in lastApplied.num + 1 .. chunkTo}
  BY ChainsAssumption DEF IInv, ProcType, SteadyInv, ChunkServed, Hash
<1>2. \A h : BlockAt(view, h).num = h
  BY DEF BlockAt
<1>3. NextBlock = {BlockAt(view, lastApplied.num + 1)}
  BY <1>1, <1>2 DEF NextBlock
<1>4. IsOn(BlockAt(view, lastApplied.num + 1), view)
  BY <1>1, IsOnBlockAt, lastApplied.num + 1 \in Nat
<1>5. ParentMatches(lastApplied.num + 1)
  BY <1>1, ServedBlock DEF ParentMatches, SteadyInv
<1> QED
  BY <1>2, <1>3, <1>4, <1>5

\* A chunk's query returns the blocks above the checkpoint.
LEMMA FetchSteady ==
  ASSUME EveryBlockLogged, IInv, SteadyInv, FetchLogs PROVE SteadyInv'
<1>1. /\ lastApplied.num \in Nat /\ target \in Nat /\ lastApplied.num < target
      /\ target <= view.head /\ view \in Chains /\ ChunkSize \in Nat \ {0}
  BY ParameterAssumption DEF IInv, ProcType, ChunkInv, FetchLogs, Hash, SteadyInv, ChunkServed
<1>2. chunkTo' \in Nat /\ lastApplied.num < chunkTo' /\ chunkTo' <= view.head
  BY <1>1, ChainsAssumption DEF FetchLogs, Lower
<1>3. /\ batch' = LogsOf(view, lastApplied.num + 1, chunkTo')
      /\ pc' = (IF batch' = {} THEN "anchor" ELSE "scan")
      /\ UNCHANGED <<view, canon, queue, ckpt, lastApplied, target, hdr>>
  BY DEF FetchLogs, envVars, memVars, dbVars
<1>4. batch' = {BlockAt(view, h) : h \in lastApplied.num + 1 .. chunkTo'}
  BY <1>1, <1>2, <1>3, LogsOfAll, lastApplied.num + 1 \in Nat
<1>5. pc' = "scan"
  BY <1>1, <1>2, <1>3, <1>4
<1> QED
  BY <1>1, <1>2, <1>3, <1>4, <1>5 DEF SteadyInv, ChunkServed, Complete, IsOn, BlockAt

\* The header read is the next block's, and its parent matches at once.
LEMMA ReadSteady ==
  ASSUME IInv, SteadyInv, ReadHeader \/ RecheckParent PROVE SteadyInv'
<1>1. ReadHeader /\ pc = "scan"
  BY DEF ReadHeader, RecheckParent, SteadyInv, ChunkServed
<1>2. pc' = "commit" /\ hdr' = BlockAt(view, lastApplied.num + 1)
  BY <1>1, NextIsAbove DEF ReadHeader
<1>3. UNCHANGED <<view, canon, queue, ckpt, lastApplied, target, chunkTo, batch>>
  BY <1>1 DEF ReadHeader, envVars, memVars, dbVars
<1> QED
  BY <1>1, <1>2, <1>3 DEF SteadyInv, ChunkServed, Complete, IsOn, BlockAt

\* The block committed is the next one of the chain, and is queued when it holds
\* a Swap.
LEMMA CommitBlockSteady ==
  ASSUME IInv, SteadyInv, CommitBlock PROVE SteadyInv'
<1> DEFINE n == lastApplied.num + 1
           b == BlockAt(view, n)
<1>1. /\ NextBlock = {b} /\ b.num = n /\ IsOn(b, view) /\ hdr = b
      /\ lastApplied.num \in Nat /\ n \in Nat /\ chunkTo \in Nat
      /\ lastApplied.num < chunkTo /\ chunkTo <= view.head
      /\ batch = {BlockAt(view, h) : h \in n .. chunkTo}
      /\ ckpt = lastApplied
  BY NextIsAbove DEF CommitBlock, SteadyInv, ChunkServed, IInv, ProcType, MemInv, Hash
<1>2. /\ queue' = queue \cup (IF b \in Swapped THEN {[block |-> b, src |-> b]} ELSE {})
      /\ canon' = canon \cup {b} /\ ckpt' = b /\ lastApplied' = b
      /\ batch' = batch \ {b} /\ pc' = (IF batch' = {} THEN "anchor" ELSE "scan")
      /\ UNCHANGED <<view, target, chunkTo>>
  BY <1>1 DEF CommitBlock, CommitBlockIngest, envVars
<1>3. \A h : BlockAt(view, h).num = h
  BY DEF BlockAt
<1>4. batch' = {BlockAt(view, h) : h \in n + 1 .. chunkTo}
  BY <1>1, <1>2, <1>3
<1>5. pc' = "anchor" => n = chunkTo
  <2>1. n < chunkTo => BlockAt(view, n + 1) \in batch'
    BY <1>1, <1>4
  <2> QED
    BY <1>1, <1>2, <2>1
<1>6. pc' = "scan" => n < chunkTo
  BY <1>1, <1>2, <1>4
<1>7. ChunkServed'
  BY <1>1, <1>2, <1>4, <1>5, <1>6 DEF SteadyInv, ChunkServed, BlockAt
<1>8. Complete'
  <2> SUFFICES ASSUME NEW h \in 0 .. n, BlockAt(view, h) \in Swapped, \E d \in canon' : d.num < h
               PROVE  \E r \in queue' : r.src = BlockAt(view, h)
    BY <1>1, <1>2 DEF Complete, BlockAt
  <2>1. CASE h = n
    <3>1. b \in Swapped
      BY <2>1
    <3>2. [block |-> b, src |-> b] \in queue'
      BY <1>2, <3>1
    <3>3. [block |-> b, src |-> b].src = b
      OBVIOUS
    <3> QED
      BY <2>1, <3>2, <3>3
  <2>2. CASE h # n
    <3>1. h \in 0 .. ckpt.num /\ \E d \in canon : d.num < h
      BY <1>1, <1>2, <2>2
    <3> QED
      BY <1>2, <3>1 DEF SteadyInv, Complete
  <2> QED
    BY <2>1, <2>2
<1>9. IsOn(lastApplied, view)'
  BY <1>1, <1>2 DEF IsOn
<1> QED
  BY <1>7, <1>8, <1>9 DEF SteadyInv

\* The anchor is the block the chunk ended with.
LEMMA AnchorSteady ==
  ASSUME IInv, SteadyInv, CommitAnchor PROVE SteadyInv'
<1>1. /\ view \in Chains /\ lastApplied \in Hash /\ lastApplied = ckpt /\ ckpt \in canon
      /\ lastApplied.num = chunkTo /\ BlockAt(view, chunkTo) = lastApplied
  BY ServedBlock DEF IInv, DbInv, ProcType, MemInv, HistoryEndsAtCheckpoint, SteadyInv,
     ChunkServed, CommitAnchor
<1>2. /\ canon' = canon /\ ckpt' = ckpt /\ queue' = queue /\ lastApplied' = lastApplied
      /\ pc' = "load" /\ UNCHANGED <<view, target>>
  BY <1>1 DEF CommitAnchor, CommitBlockIngest, envVars
<1> QED
  BY <1>2 DEF SteadyInv, ChunkServed, Complete, IsOn, BlockAt

\* A chain that grows keeps what was read from it.
LEMMA GrowthSteady ==
  ASSUME IInv, SteadyInv, ChainGrows PROVE SteadyInv'
<1>1. /\ view \in Chains /\ view' \in Chains /\ Extends(view', view)
      /\ UNCHANGED <<pc, canon, queue, ckpt, lastApplied, target, chunkTo, batch, hdr>>
      /\ view.head \in Nat /\ view'.head \in Nat /\ view.head <= view'.head
      /\ lastApplied \in Hash /\ lastApplied = ckpt /\ lastApplied.num \in Nat
      /\ target \in Nat /\ chunkTo \in Nat
  BY ChainsAssumption DEF ChainGrows, Extends, workVars, memVars, dbVars, IInv, ProcType,
     MemInv, Hash
<1>2. \A h \in 0 .. view.head : BlockAt(view', h) = BlockAt(view, h)
  BY <1>1 DEF Extends, BlockAt
<1>3. IsOn(lastApplied, view') /\ lastApplied.num <= view.head
  BY <1>1, IsOnGrows DEF SteadyInv, IsOn
<1>4. ChunkServed'
  <2>1. target' <= view'.head
    BY <1>1 DEF SteadyInv, ChunkServed
  <2>2. ASSUME pc \in {"scan", "commit"}
        PROVE  /\ lastApplied.num < chunkTo /\ chunkTo <= view'.head
               /\ batch = {BlockAt(view', h) : h \in lastApplied.num + 1 .. chunkTo}
               /\ BlockAt(view', lastApplied.num + 1) = BlockAt(view, lastApplied.num + 1)
    <3>1. /\ lastApplied.num < chunkTo /\ chunkTo <= view.head
          /\ batch = {BlockAt(view, h) : h \in lastApplied.num + 1 .. chunkTo}
      BY <2>2 DEF SteadyInv, ChunkServed
    <3>2. \A h \in lastApplied.num + 1 .. chunkTo : h \in 0 .. view.head
      BY <1>1, <3>1
    <3> QED
      BY <1>1, <1>2, <3>1, <3>2
  <2> QED
    BY <1>1, <2>1, <2>2 DEF SteadyInv, ChunkServed, BlockAt
<1>5. Complete'
  BY <1>1, <1>2, <1>3 DEF SteadyInv, Complete
<1> QED
  BY <1>1, <1>3, <1>4, <1>5 DEF SteadyInv, IsOn

\* Steps outside of ingestion touch neither history nor queue.
LEMMA OtherSteady ==
  ASSUME IInv, SteadyInv, UNCHANGED <<view, canon, queue, ckpt>>,
         lastApplied' \in {lastApplied, ckpt}, target' <= view.head,
         pc' \notin {"scan", "commit", "anchor", "recheck", "search", "rollback"}
  PROVE  SteadyInv'
BY DEF SteadyInv, ChunkServed, Complete, IsOn, BlockAt, IInv, MemInv

\* As long as the chain has not been replaced, every step keeps ingestion
\* complete.
LEMMA StepSteady ==
  ASSUME EveryBlockLogged, IInv, SteadyInv, [Next]_vars, switches = 0, switches' = 0
  PROVE  SteadyInv'
<1>1. /\ view \in Chains /\ view.head \in Nat /\ target <= view.head
      /\ pc \notin {"recheck", "search", "rollback"}
  BY ChainsAssumption DEF IInv, ProcType, SteadyInv, ChunkServed
<1>2. CASE FetchLogs
  BY <1>2, FetchSteady
<1>3. CASE ReadHeader \/ RecheckParent
  BY <1>3, ReadSteady
<1>4. CASE CommitBlock
  BY <1>4, CommitBlockSteady
<1>5. CASE CommitAnchor
  BY <1>5, AnchorSteady
<1>6. CASE SearchAncestor \/ Rollback
  BY <1>1, <1>6 DEF SearchAncestor, Rollback
<1>7. CASE NoAncestor \/ HeaderMissing \/ Stop
  <2>1. /\ UNCHANGED <<view, canon, queue, ckpt>> /\ lastApplied' = ckpt /\ target' = 0
        /\ pc' \in {"down", "no_ancestor"}
    BY <1>7 DEF NoAncestor, HeaderMissing, Stop, Exit, envVars, dbVars
  <2> QED
    BY <1>1, <2>1, OtherSteady
<1>8. CASE LoadPending \/ EvaluationDone \/ EvaluationFails \/ SkipBlock \/ EvaluateBlock
  <2>1. pc \in {"load", "eval"} /\ UNCHANGED <<view, canon, queue, ckpt, lastApplied, target>>
    BY <1>8 DEF LoadPending, EvaluationDone, EvaluationFails, SkipBlock, EvaluateBlock,
       SkipStaleBlock, CommitEvaluation, envVars, workVars, memVars, dbVars
  <2>2. pc' \in {"wait", "fetch", "load", "eval"}
    BY <1>8, <2>1 DEF LoadPending, EvaluationDone, EvaluationFails, SkipBlock,
       EvaluateBlock, Acknowledge, Resume
  <2> QED
    BY <1>1, <2>1, <2>2, OtherSteady
<1>9. CASE Start \/ NewHead
  <2>1. /\ UNCHANGED <<view, canon, queue, ckpt>> /\ lastApplied' \in {lastApplied, ckpt}
        /\ pc' \in {"fetch", "load"}
    BY <1>9 DEF Start, NewHead, envVars, memVars, dbVars
  <2>2. target' <= view.head
    BY <1>1, <1>9 DEF Start, NewHead
  <2> QED
    BY <2>1, <2>2, OtherSteady
<1>10. CASE ChainGrows
  BY <1>10, GrowthSteady
<1>11. CASE ChainSwitches
  BY <1>11 DEF ChainSwitches
<1>12. CASE UNCHANGED vars
  BY <1>12 DEF vars, envVars, workVars, memVars, dbVars, SteadyInv, ChunkServed, Complete, IsOn,
     BlockAt
<1> QED
  BY <1>2, <1>3, <1>4, <1>5, <1>6, <1>7, <1>8, <1>9, <1>10, <1>11, <1>12 DEF Next, Process

\* Until the chain is replaced for the first time, and when every block emits
\* logs, no Swap behind the cursor is missing from the queue, whatever reads
\* fail and wherever the process stops and starts again: the loss that the code
\* allows (main.go:818, 838) needs a quiet height or a replaced chain.
THEOREM IngestionIsComplete ==
  ASSUME EveryBlockLogged PROVE Spec => [](switches = 0 => NoSilentLoss)
<1>1. Init => (switches = 0 => SteadyInv)
  <2> SUFFICES ASSUME Init PROVE SteadyInv
    OBVIOUS
  <2>1. view \in Chains /\ view.head \in Nat /\ ckpt = BlockAt(view, view.head)
        /\ ckpt.num = view.head /\ canon = {ckpt} /\ lastApplied = ckpt
    BY ChainsAssumption DEF Init, BlockAt
  <2>2. IsOn(lastApplied, view)
    BY <2>1, IsOnBlockAt
  <2>3. ChunkServed
    BY <2>1 DEF Init, ChunkServed
  <2>4. Complete
    BY <2>1 DEF Complete
  <2> QED
    BY <2>2, <2>3, <2>4 DEF SteadyInv
<1>2. IInv /\ (switches = 0 => SteadyInv) /\ [Next]_vars => (switches = 0 => SteadyInv)'
  <2> SUFFICES ASSUME IInv, switches = 0 => SteadyInv, [Next]_vars, switches' = 0
               PROVE  SteadyInv'
    OBVIOUS
  <2>1. switches = 0
    BY DEF IInv, ProcType, Next, Process, FetchLogs, ReadHeader, RecheckParent, CommitBlock,
       SearchAncestor, NoAncestor, Rollback, CommitAnchor, HeaderMissing, LoadPending, SkipBlock,
       EvaluateBlock, EvaluationDone, EvaluationFails, NewHead, Start, Stop, Exit, ChainGrows,
       ChainSwitches, vars, envVars
  <2> QED
    BY <2>1, StepSteady
<1>3. IInv /\ SteadyInv => NoSilentLoss
  <2> SUFFICES ASSUME IInv, SteadyInv, NEW c \in Chains, IsOn(ckpt, c), NEW h \in 0 .. ckpt.num,
                      BlockAt(c, h) \in Swapped, \E b \in canon : b.num < h
               PROVE  \E r \in queue : r.src = BlockAt(c, h)
    BY DEF NoSilentLoss
  <2>1. /\ view \in Chains /\ ckpt \in Hash /\ IsOn(ckpt, view) /\ ckpt.num \in Nat
        /\ c.head \in Nat /\ view.head \in Nat
    BY ChainsAssumption DEF IInv, DbInv, ProcType, MemInv, SteadyInv, Hash
  <2>2. /\ ckpt.num \in 0 .. view.head /\ ckpt.num <= c.head
        /\ view.at[ckpt.num] = c.at[ckpt.num]
    BY <2>1 DEF IsOn
  <2>3. view.at[h] = c.at[h]
    BY <2>1, <2>2, HashChainAssumption
  <2> QED
    BY <2>3 DEF SteadyInv, Complete, BlockAt
<1> QED
  BY <1>1, <1>2, <1>3, Inductive, PTL DEF Spec

-----------------------------------------------------------------------------
(* Why a head's work ends: what the goroutine has left to do is ranked by  *)
(* the heights above its chunk, by its place in the chunk, and by what is  *)
(* left at that place.  No count of queue rows is needed: cursors rise.    *)

Ingesting == pc \in {"scan", "recheck", "commit", "search", "rollback", "anchor"}

\* A chunk, or an evaluation between chunks, belongs to a backfill up to
\* "target"; an ancestor search goes one step beyond its depth at most.
RoundInv ==
  /\ pc = "fetch" \/ Ingesting => round = "chunk"
  /\ Ingesting => chunkTo <= target
  /\ pc \in {"load", "eval"} /\ round = "chunk" => lastApplied.num <= target
  /\ pc = "search" => depth <= MaxDepth + 1

Remaining ==
  CASE Ingesting                                 -> (target - chunkTo) + 1
    [] pc \in {"load", "eval"} /\ round = "head" -> 0
    [] OTHER                                     -> (target - lastApplied.num) + 1

Stage ==
  CASE pc \in {"scan", "recheck", "commit"} -> 6
    [] pc = "search"                        -> 5
    [] pc = "rollback"                      -> 4
    [] pc = "anchor"                        -> 3
    [] pc = "load"                          -> 2
    [] pc = "eval"                          -> 1
    [] OTHER                                -> 0

Rest ==
  CASE pc = "scan"    -> 3 * (chunkTo - lastApplied.num) + 2
    [] pc = "recheck" -> 3 * (chunkTo - lastApplied.num) + 1
    [] pc = "commit"  -> 3 * (chunkTo - lastApplied.num)
    [] pc = "search"  -> (MaxDepth + 1) - depth
    [] pc = "eval"    -> lastApplied.num - lastEvaluated
    [] OTHER          -> 0

Closer ==
  \/ Remaining' < Remaining
  \/ Remaining' = Remaining /\ Stage' < Stage
  \/ Remaining' = Remaining /\ Stage' = Stage /\ Rest' < Rest

\* A step of the environment: the work left is the same.
ChainMoves == UNCHANGED <<Remaining, Stage, Rest>> /\ view' # view

\* Heights in hand are natural numbers.
LEMMA Heights ==
  ASSUME IInv
  PROVE  /\ lastApplied.num \in Nat /\ target \in Nat /\ chunkTo \in Nat /\ depth \in Nat
         /\ lastEvaluated \in Nat /\ lastEvaluated <= lastApplied.num
         /\ \A b \in batch : b.num \in Nat
         /\ \A r \in queue : r.block.num \in Nat /\ r.block.num <= lastApplied.num
         /\ MaxDepth \in Nat /\ ChunkSize \in Nat \ {0}
<1>1. /\ lastApplied \in Hash /\ evalCkpt \in Hash /\ ckpt \in Hash /\ lastApplied = ckpt
      /\ lastEvaluated \in Nat /\ lastEvaluated <= evalCkpt.num /\ evalCkpt.num <= ckpt.num
      /\ target \in Nat /\ chunkTo \in Nat /\ depth \in Nat /\ batch \subseteq Hash
  BY BlockAssumption DEF IInv, DbInv, ProcType, MemInv
<1>2. \A b \in Hash : b.num \in Nat
  BY DEF Hash
<1>3. lastEvaluated <= lastApplied.num
  BY <1>1, <1>2
<1>4. \A r \in queue : r.block \in Hash /\ r.block.num <= ckpt.num
  BY DEF IInv, DbInv, HistoryEndsAtCheckpoint, QueueUnambiguous
<1> QED
  BY <1>1, <1>2, <1>3, <1>4, ParameterAssumption

\* The block a scan goes on with lies within the chunk, above the cursor.
LEMMA NextInChunk ==
  ASSUME IInv, NEW b \in NextBlock
  PROVE  b \in batch /\ b.num \in Nat /\ lastApplied.num < b.num /\ b.num <= chunkTo
BY Heights DEF NextBlock, IInv, ChunkInv

\* After an evaluation batch: the next chunk, the last batch, or the wait.
LEMMA ResumeEnds ==
  ASSUME IInv, Resume, UNCHANGED <<lastApplied, target>>
  PROVE  \/ pc' = "wait" /\ round = "head"
         \/ /\ pc' = "fetch" /\ round = "chunk" /\ round' = "chunk"
            /\ lastApplied.num < target
         \/ /\ pc' = "load" /\ round = "chunk" /\ round' = "head"
BY DEF Resume, IInv, ProcType

\* Every step keeps the backfill's frame.
LEMMA RoundStep == IInv /\ RoundInv /\ [Next]_vars => RoundInv'
<1> SUFFICES ASSUME IInv, RoundInv, [Next]_vars PROVE RoundInv'
  OBVIOUS
<1> USE DEF RoundInv, Ingesting
<1>1. CASE FetchLogs
  <2>1. chunkTo' <= target /\ target' = target /\ round' = round /\ pc' \in {"anchor", "scan"}
    BY <1>1, Heights DEF FetchLogs, Lower, evalVars
  <2> QED
    BY <1>1, <2>1 DEF FetchLogs
<1>2. CASE ReadHeader \/ CommitBlock \/ RecheckParent
  <2>1. /\ pc \in {"scan", "commit", "recheck"} /\ UNCHANGED <<round, chunkTo, target>>
        /\ pc' \in {"commit", "recheck", "anchor", "scan", "search"}
        /\ pc' = "search" => depth' = 0
    BY <1>2 DEF ReadHeader, CommitBlock, RecheckParent, evalVars
  <2> QED
    BY <2>1, Heights
<1>3. CASE SearchAncestor
  <2>1. /\ pc = "search" /\ UNCHANGED <<round, chunkTo, target>> /\ depth <= MaxDepth
        /\ pc' \in {"search", "rollback"} /\ depth' \in {depth, depth + 1}
    BY <1>3 DEF SearchAncestor, evalVars
  <2> QED
    BY <2>1, Heights
<1>4. CASE Rollback
  BY <1>4 DEF Rollback, AfterRollback, evalVars
<1>5. CASE CommitAnchor
  BY <1>5 DEF CommitAnchor, BlockAt, evalVars
<1>6. CASE NoAncestor \/ HeaderMissing \/ Stop
  BY <1>6 DEF NoAncestor, HeaderMissing, Stop, Exit
<1>7. CASE LoadPending
  BY <1>7 DEF LoadPending, workVars, memVars
<1>8. CASE SkipBlock \/ EvaluateBlock \/ EvaluationDone \/ EvaluationFails
  <2>1. UNCHANGED <<lastApplied, target, chunkTo, depth>> /\ pc \in {"load", "eval"}
    BY <1>8 DEF SkipBlock, EvaluateBlock, EvaluationDone, EvaluationFails, workVars, memVars
  <2>2. CASE Resume
    BY <2>1, <2>2, ResumeEnds
  <2>3. CASE UNCHANGED <<pc, round>>
    BY <2>1, <2>3
  <2> QED
    BY <1>8, <2>2, <2>3 DEF SkipBlock, EvaluateBlock, EvaluationDone, EvaluationFails, Acknowledge
<1>9. CASE NewHead \/ Start
  BY <1>9 DEF NewHead, Start
<1>10. CASE ChainGrows \/ ChainSwitches \/ UNCHANGED vars
  BY <1>10 DEF ChainGrows, ChainSwitches, vars, workVars, evalVars, memVars
<1> QED
  BY <1>1, <1>2, <1>3, <1>4, <1>5, <1>6, <1>7, <1>8, <1>9, <1>10 DEF Next, Process

\* A step of the chunk brings its end nearer.
LEMMA IngestCloser ==
  ASSUME IInv, RoundInv, pc' \in Working,
         FetchLogs \/ ReadHeader \/ RecheckParent \/ CommitBlock \/ SearchAncestor
         \/ NoAncestor \/ Rollback \/ CommitAnchor \/ HeaderMissing
  PROVE  Closer
<1> USE DEF Closer, Remaining, Stage, Rest, Ingesting
<1>1. CASE FetchLogs
  <2>1. /\ pc = "fetch" /\ lastApplied.num < target /\ UNCHANGED <<lastApplied, target>>
        /\ pc' \in {"anchor", "scan"} /\ chunkTo' = Lower(lastApplied.num + ChunkSize, target)
    BY <1>1 DEF FetchLogs, IInv, ChunkInv, memVars
  <2>2. chunkTo' \in Nat /\ lastApplied.num < chunkTo' /\ chunkTo' <= target
    BY <2>1, Heights DEF Lower
  <2> QED
    BY <2>1, <2>2, Heights
<1>2. CASE ReadHeader \/ RecheckParent
  <2>1. /\ UNCHANGED <<lastApplied, chunkTo, target>>
        /\ \/ pc = "scan" /\ pc' \in {"commit", "recheck"}
           \/ pc = "recheck" /\ pc' \in {"commit", "search"}
    BY <1>2 DEF ReadHeader, RecheckParent, memVars
  <2> QED
    BY <2>1, Heights
<1>3. CASE CommitBlock
  <2>1. PICK b \in NextBlock : TRUE
    BY <1>3 DEF CommitBlock
  <2>2. hdr.num = b.num /\ lastApplied' = hdr /\ UNCHANGED <<chunkTo, target>>
        /\ pc = "commit" /\ pc' \in {"anchor", "scan"}
    BY <1>3, <2>1 DEF CommitBlock, IInv, ChunkInv
  <2>3. lastApplied.num < lastApplied'.num /\ lastApplied'.num <= chunkTo
        /\ lastApplied'.num \in Nat
    BY <2>2, NextInChunk
  <2> QED
    BY <2>2, <2>3, Heights
<1>4. CASE SearchAncestor
  <2>1. /\ pc = "search" /\ UNCHANGED <<chunkTo, target>>
        /\ \/ pc' = "rollback"
           \/ pc' = pc /\ depth' = depth + 1
    BY <1>4 DEF SearchAncestor
  <2> QED
    BY <2>1, Heights
<1>5. CASE Rollback
  <2>1. pc = "rollback" /\ pc' = "anchor" /\ UNCHANGED <<chunkTo, target>>
    BY <1>5 DEF Rollback, AfterRollback
  <2> QED
    BY <2>1, Heights
<1>6. CASE CommitAnchor
  <2>1. /\ pc = "anchor" /\ pc' = "load" /\ UNCHANGED <<chunkTo, target, round>>
        /\ lastApplied'.num = chunkTo /\ round = "chunk"
    BY <1>6 DEF CommitAnchor, BlockAt, evalVars, RoundInv
  <2> QED
    BY <2>1, Heights
<1>7. CASE NoAncestor \/ HeaderMissing
  BY <1>7 DEF NoAncestor, HeaderMissing, Exit, Working
<1> QED
  BY <1>1, <1>2, <1>3, <1>4, <1>5, <1>6, <1>7

\* A step of the evaluation brings its end nearer.
LEMMA EvaluationCloser ==
  ASSUME IInv, RoundInv, pc' \in Working,
         LoadPending \/ SkipBlock \/ EvaluateBlock \/ EvaluationDone \/ EvaluationFails
  PROVE  Closer
<1> USE DEF Closer, Remaining, Stage, Rest, Ingesting
<1>1. UNCHANGED <<lastApplied, target>> /\ round \in {"chunk", "head"}
  BY DEF LoadPending, SkipBlock, EvaluateBlock, EvaluationDone, EvaluationFails,
     workVars, memVars, IInv, ProcType
<1>2. CASE LoadPending
  BY <1>1, <1>2, Heights DEF LoadPending
<1>3. CASE Resume /\ pc \in {"load", "eval"}
  <2>1. CASE pc' = "wait"
    BY <2>1 DEF Working
  <2>2. CASE pc' = "fetch" /\ round = "chunk" /\ lastApplied.num < target
    BY <1>1, <1>3, <2>2, Heights
  <2>3. CASE pc' = "load" /\ round = "chunk" /\ round' = "head"
    <3>1. lastApplied.num <= target
      BY <1>3, <2>3 DEF RoundInv
    <3> QED
      BY <1>1, <1>3, <2>3, <3>1, Heights
  <2> QED
    BY <1>1, <1>3, <2>1, <2>2, <2>3, ResumeEnds
<1>4. ASSUME NEW r \in FirstPending(lastEvaluated), pc = "eval",
             lastEvaluated' = r.block.num, UNCHANGED <<pc, round>>
      PROVE  Closer
  <2>1. r.block.num \in Nat /\ lastEvaluated < r.block.num /\ r.block.num <= lastApplied.num
    BY Heights DEF FirstPending, Pending
  <2> QED
    BY <1>1, <1>4, <2>1, Heights
<1>5. CASE SkipBlock \/ EvaluateBlock
  <2>1. PICK r \in FirstPending(lastEvaluated) : Acknowledge(r.block)
    BY <1>5 DEF SkipBlock, EvaluateBlock
  <2> QED
    BY <1>3, <1>4, <1>5, <2>1 DEF Acknowledge, SkipBlock, EvaluateBlock
<1> QED
  BY <1>2, <1>3, <1>5 DEF EvaluationDone, EvaluationFails

\* Between two heads the goroutine makes finitely many steps, whatever reads and
\* acknowledgements fail and however often the chain is replaced meanwhile: every
\* step lowers the rank, a change of the chain leaves it.  In particular a
\* rollback in the middle of a chunk does not start the chunk again.
THEOREM WorkEnds ==
  Spec => /\ [](pc \in Working => Remaining \in Nat /\ Stage \in Nat /\ Rest \in Nat)
          /\ [][{pc, pc'} \subseteq Working => Closer \/ ChainMoves]_vars
<1>1. Init => RoundInv
  BY DEF Init, RoundInv, Ingesting
<1>2. IInv /\ RoundInv => (pc \in Working => Remaining \in Nat /\ Stage \in Nat /\ Rest \in Nat)
  <2> SUFFICES ASSUME IInv, RoundInv, pc \in Working
               PROVE  Remaining \in Nat /\ Stage \in Nat /\ Rest \in Nat
    OBVIOUS
  <2>1. Ingesting => lastApplied.num <= chunkTo /\ chunkTo <= target
    BY DEF IInv, ChunkInv, RoundInv, Ingesting
  <2>2. round \in {"chunk", "head"} /\ (pc = "fetch" => lastApplied.num < target)
    BY DEF IInv, ProcType, ChunkInv
  <2>3. Remaining \in Nat
    BY <2>1, <2>2, Heights DEF Remaining, RoundInv, Working, Ingesting
  <2>4. Rest \in Nat
    BY <2>1, Heights DEF Rest, RoundInv, Ingesting
  <2> QED
    BY <2>3, <2>4 DEF Stage
<1>3. ASSUME IInv, RoundInv, Next, pc \in Working, pc' \in Working
      PROVE  Closer \/ ChainMoves
  <2>1. CASE NewHead \/ Start \/ Stop
    BY <1>3, <2>1 DEF NewHead, Start, Stop, Exit, Down, Working
  <2>2. CASE ChainGrows \/ ChainSwitches
    <3>1. UNCHANGED <<pc, lastApplied, lastEvaluated, target, chunkTo, depth, round>>
      BY <2>2 DEF ChainGrows, ChainSwitches, workVars, evalVars, memVars
    <3>2. view \in Chains /\ view.head \in Nat
      BY <1>3, ChainsAssumption DEF IInv, ProcType
    <3>3. Extends(view, view)
      BY <3>2 DEF Extends
    <3>4. view' # view
      BY <2>2, <3>3 DEF ChainGrows, ChainSwitches
    <3> QED
      BY <3>1, <3>4 DEF ChainMoves, Remaining, Stage, Rest, Ingesting
  <2> QED
    BY <1>3, <2>1, <2>2, IngestCloser, EvaluationCloser DEF Next, Process
<1>4. IInv /\ RoundInv /\ [Next]_vars =>
        [{pc, pc'} \subseteq Working => Closer \/ ChainMoves]_vars
  BY <1>3
<1> QED
  BY <1>1, <1>2, <1>4, RoundStep, Inductive, PTL DEF Spec

\* A backfill is not given up half-way.
RoundDone ==
  pc = "wait" \/ (pc \in {"load", "eval"} /\ round = "head") => lastApplied.num >= target

\* Every step keeps that.
LEMMA RoundDoneStep == IInv /\ RoundInv /\ RoundDone /\ [Next]_vars => RoundDone'
<1> SUFFICES ASSUME IInv, RoundInv, RoundDone, [Next]_vars PROVE RoundDone'
  OBVIOUS
<1> USE DEF RoundDone
<1>1. CASE FetchLogs \/ ReadHeader \/ RecheckParent \/ CommitBlock \/ SearchAncestor \/ Rollback
  BY <1>1 DEF FetchLogs, ReadHeader, RecheckParent, CommitBlock, SearchAncestor, Rollback,
     AfterRollback
<1>2. CASE CommitAnchor
  BY <1>2 DEF CommitAnchor, evalVars, RoundInv, Ingesting
<1>3. CASE NoAncestor \/ HeaderMissing \/ Stop
  BY <1>3 DEF NoAncestor, HeaderMissing, Stop, Exit
<1>4. CASE LoadPending
  BY <1>4 DEF LoadPending, workVars, memVars
<1>5. CASE SkipBlock \/ EvaluateBlock \/ EvaluationDone \/ EvaluationFails
  <2>1. /\ UNCHANGED <<lastApplied, target>> /\ pc \in {"load", "eval"}
        /\ Resume \/ UNCHANGED <<pc, round>>
    BY <1>5 DEF SkipBlock, EvaluateBlock, EvaluationDone, EvaluationFails, Acknowledge,
       workVars, memVars
  <2>2. CASE Resume
    <3>1. ~(lastApplied.num < target) => lastApplied.num >= target
      BY Heights
    <3> QED
      BY <2>1, <2>2, <3>1 DEF Resume
  <2> QED
    BY <2>1, <2>2
<1>6. CASE NewHead
  BY <1>6 DEF NewHead
<1>7. CASE Start
  <2>1. view.head \in Nat /\ ckpt.num \in Nat
    BY ChainsAssumption, Heights DEF IInv, ProcType, MemInv
  <2> QED
    BY <1>7, <2>1 DEF Start
<1>8. CASE ChainGrows \/ ChainSwitches \/ UNCHANGED vars
  BY <1>8 DEF ChainGrows, ChainSwitches, vars, workVars, evalVars, memVars
<1> QED
  BY <1>1, <1>2, <1>3, <1>4, <1>5, <1>6, <1>7, <1>8 DEF Next, Process

\* A head's backfill ends at the head or with the process: whatever reads fail,
\* chains are replaced and rollbacks go on from the middle of a chunk, a process
\* that waits for the next head has committed every height up to the last one it
\* was told of.  Together with WorkEnds: the safety half of CatchesUp.
THEOREM HeadIsReached == Spec => [](pc = "wait" => ckpt.num >= target)
<1>1. Init => RoundInv /\ RoundDone
  BY DEF Init, RoundInv, Ingesting, RoundDone
<1>2. IInv /\ RoundDone => (pc = "wait" => ckpt.num >= target)
  BY DEF IInv, MemInv, RoundDone
<1> QED
  BY <1>1, <1>2, RoundStep, RoundDoneStep, Inductive, PTL DEF Spec

\* Until the chain is replaced for the first time, no canonical row and no header
\* about to be committed lies above the served head.
BelowServed ==
  switches = 0 => /\ \A b \in canon : b.num <= view.head
                  /\ pc = "commit" => hdr.num <= view.head

\* A goroutine that waits has nothing queued above its own cursor.
Drained == pc = "wait" => Pending(lastEvaluated) = {}

\* Commits add blocks the node serves, and a chain that grows keeps its heights.
LEMMA BelowServedStep == IInv /\ BelowServed /\ [Next]_vars => BelowServed'
<1> SUFFICES ASSUME IInv, BelowServed, [Next]_vars, switches' = 0
             PROVE  /\ \A b \in canon' : b.num <= view'.head
                    /\ pc' = "commit" => hdr'.num <= view'.head
  BY DEF BelowServed
<1>1. /\ view \in Chains /\ view.head \in Nat /\ switches \in Nat
      /\ \A b \in canon : b.num \in Nat
  BY ChainsAssumption DEF IInv, DbInv, ProcType, Hash
<1>2. CASE FetchLogs \/ SearchAncestor \/ NoAncestor \/ HeaderMissing \/ LoadPending
           \/ EvaluationDone \/ EvaluationFails \/ NewHead \/ Start \/ Stop
  <2>1. UNCHANGED <<view, switches, canon>> /\ (pc' = "commit" => FALSE)
    BY <1>2 DEF FetchLogs, SearchAncestor, NoAncestor, HeaderMissing, LoadPending,
       EvaluationDone, EvaluationFails, NewHead, Start, Stop, Exit, Resume, envVars, dbVars
  <2> QED
    BY <2>1 DEF BelowServed
<1>3. CASE ReadHeader \/ RecheckParent
  <2>1. UNCHANGED <<view, switches, canon>>
    BY <1>3 DEF ReadHeader, RecheckParent, envVars, dbVars
  <2>2. ASSUME pc' = "commit" PROVE hdr'.num <= view.head
    BY <1>3, <2>2 DEF ReadHeader, RecheckParent, ParentMatches, BlockAt
  <2> QED
    BY <2>1, <2>2 DEF BelowServed
<1>4. CASE CommitBlock
  BY <1>4 DEF CommitBlock, CommitBlockIngest, envVars, BelowServed
<1>5. CASE Rollback
  BY <1>5 DEF Rollback, AfterRollback, RollbackToAncestor, KeptHistory, envVars, BelowServed
<1>6. CASE CommitAnchor
  BY <1>6 DEF CommitAnchor, CommitBlockIngest, BlockAt, envVars, BelowServed
<1>7. CASE SkipBlock \/ EvaluateBlock
  <2>1. UNCHANGED <<view, switches, canon>> /\ (pc' = "commit" => FALSE)
    BY <1>7 DEF SkipBlock, EvaluateBlock, SkipStaleBlock, CommitEvaluation, Acknowledge,
       Resume, envVars
  <2> QED
    BY <2>1 DEF BelowServed
<1>8. CASE ChainGrows
  <2>1. /\ UNCHANGED <<switches, canon, pc, hdr>>
        /\ view' \in Chains /\ view.head <= view'.head /\ view'.head \in Nat /\ hdr.num \in Nat
    BY <1>8, ChainsAssumption DEF ChainGrows, Extends, workVars, dbVars, IInv, ProcType, Hash
  <2>2. /\ \A b \in canon : b.num <= view.head
        /\ pc = "commit" => hdr.num <= view.head
    BY <2>1 DEF BelowServed
  <2> QED
    BY <1>1, <2>1, <2>2
<1>9. CASE ChainSwitches
  BY <1>1, <1>9 DEF ChainSwitches
<1>10. CASE UNCHANGED vars
  BY <1>10 DEF vars, envVars, workVars, dbVars, BelowServed
<1> QED
  BY <1>2, <1>3, <1>4, <1>5, <1>6, <1>7, <1>8, <1>9, <1>10 DEF Next, Process

\* An evaluation batch that precedes the wait ends with nothing pending.
LEMMA DrainedStep ==
  ASSUME Errors = FALSE, IInv, BelowServed, Drained, [Next]_vars,
         Strict => switches = 0
  PROVE  Drained'
<1>1. CASE FetchLogs \/ ReadHeader \/ RecheckParent \/ CommitBlock \/ SearchAncestor \/ Rollback
           \/ NoAncestor \/ HeaderMissing \/ CommitAnchor \/ LoadPending \/ NewHead \/ Start
           \/ Stop
  BY <1>1 DEF FetchLogs, ReadHeader, RecheckParent, CommitBlock, SearchAncestor, Rollback,
     AfterRollback, NoAncestor, HeaderMissing, Exit, CommitAnchor, LoadPending, NewHead,
     Start, Stop, Drained
<1>2. CASE SkipBlock \/ EvaluateBlock
  <2>1. pc = "eval" /\ pc' = pc
    BY <1>2 DEF SkipBlock, EvaluateBlock, Acknowledge
  <2> QED
    BY <2>1 DEF Drained
<1>3. CASE EvaluationDone
  <2>1. UNCHANGED <<queue, lastEvaluated>>
    BY <1>3 DEF EvaluationDone, memVars, dbVars
  <2>2. pc' = "wait" => round = "head"
    BY <1>3 DEF EvaluationDone, Resume
  <2>3. round = "head" => Pending(lastEvaluated) = {}
    BY <1>3 DEF EvaluationDone, Exhausted
  <2> QED
    BY <2>1, <2>2, <2>3 DEF Drained, Pending
<1>4. CASE EvaluationFails
  <2>1. PICK r \in FirstPending(lastEvaluated) : ~StateReadable(r.block)
    BY <1>4 DEF EvaluationFails
  <2>2. Strict /\ ~(r.block.num <= view.head) /\ r.block \in canon
    BY <2>1 DEF StateReadable, FirstPending, Pending, IInv, DbInv, QueueUnambiguous
  <2> QED
    BY <2>2 DEF BelowServed
<1>5. CASE ChainGrows \/ ChainSwitches \/ UNCHANGED vars
  BY <1>5 DEF ChainGrows, ChainSwitches, vars, evalVars, memVars, dbVars, Drained, Pending
<1> QED
  BY <1>1, <1>2, <1>3, <1>4, <1>5 DEF Next, Process

\* A queue is not left over: when no read and no acknowledgement fails, a process
\* that waits for the next head has evaluated, or skipped on record, every queued
\* block, although batches between chunks end at their budget.  In
\* historical_strict mode a replaced chain may lack the state of a queued height,
\* so there only until the first replacement.  The safety half of QueueDrained.
THEOREM IdleMeansEvaluated ==
  ASSUME Errors = FALSE
  PROVE  Spec => [](pc = "wait" /\ (Strict => switches = 0) => Pending(evalCkpt.num) = {})
<1> DEFINE Idle == (Strict => switches = 0) => Drained
<1>1. Init => BelowServed /\ Idle
  <2> SUFFICES ASSUME Init PROVE BelowServed /\ Idle
    OBVIOUS
  <2>1. view.head \in Nat /\ ckpt.num = view.head
    BY ChainsAssumption DEF Init, BlockAt
  <2> QED
    BY <2>1 DEF Init, BelowServed, Drained
<1>2. IInv /\ BelowServed /\ Idle /\ [Next]_vars => Idle'
  <2> SUFFICES ASSUME IInv, BelowServed, Idle, [Next]_vars, Strict => switches' = 0
               PROVE  Drained'
    OBVIOUS
  <2>1. Strict => switches = 0
    BY DEF IInv, ProcType, Next, Process, FetchLogs, ReadHeader, RecheckParent, CommitBlock,
       SearchAncestor, NoAncestor, Rollback, CommitAnchor, HeaderMissing, LoadPending, SkipBlock,
       EvaluateBlock, EvaluationDone, EvaluationFails, NewHead, Start, Stop, Exit, ChainGrows,
       ChainSwitches, vars, envVars
  <2> QED
    BY <2>1, DrainedStep
<1>3. IInv /\ Idle => (pc = "wait" /\ (Strict => switches = 0) => Pending(evalCkpt.num) = {})
  <2> SUFFICES ASSUME IInv, Drained, pc = "wait" PROVE Pending(evalCkpt.num) = {}
    OBVIOUS
  <2>1. \A r \in queue : r.block.num \in Nat
    BY Heights
  <2>2. lastEvaluated \in Nat /\ evalCkpt.num \in Nat /\ lastEvaluated <= evalCkpt.num
    BY DEF IInv, DbInv, ProcType, MemInv, Hash
  <2> QED
    BY <2>1, <2>2 DEF Drained, Pending
<1> HIDE DEF Idle
<1>4. Init => Idle
  BY <1>1
<1>5. Init => BelowServed
  BY <1>1
<1> QED
  BY <1>2, <1>3, <1>4, <1>5, BelowServedStep, Inductive, PTL DEF Spec

-----------------------------------------------------------------------------
(* The result of FetchLogs: every chunk's logs come out of one adaptive    *)
(* query (LogWindow), which the pipeline takes as one step that answers    *)
(* for the whole range or fails.  Its state is the query's own and lives   *)
(* only as long as the call.                                               *)

\* The range one request reaches.
LEMMA TopInRange ==
  ASSUME WindowOK
  PROVE  Top \in 1 .. MaxWindow /\ Top <= to /\ Top <= size
BY DEF WindowOK, Top, Smaller, MaxWindow

\* Every step of batchLogs keeps the window between one block and its bound.
LEMMA WindowStep ==
  ASSUME WindowOK, [BatchNext]_batchVars PROVE WindowOK'
<1>1. CASE Answered
  <2>1. Grown \in 1 .. MaxWindow
    BY DEF WindowOK, Grown, Smaller, MaxWindow
  <2> QED
    BY <1>1, <2>1 DEF WindowOK, Answered
<1>2. CASE Refused \/ Fault
  <2>1. Halved /\ faults' \in Nat
    BY <1>2 DEF Refused, Fault, WindowOK
  <2>2. size > 1 => size \div 2 \in 1 .. MaxWindow
    BY DEF WindowOK, MaxWindow
  <2> QED
    BY <2>1, <2>2 DEF WindowOK, Halved
<1>3. CASE Limited \/ BackoffOver \/ Cancelled \/ UNCHANGED batchVars
  BY <1>3 DEF WindowOK, Limited, BackoffOver, Cancelled, batchVars
<1> QED
  BY <1>1, <1>2, <1>3 DEF BatchNext

\* The window of the query stays between one block and its bound.
THEOREM WindowTyped ==
  BatchSpec => []WindowOK
<1>1. BatchInit => WindowOK
  BY DEF BatchInit, WindowOK, MaxWindow
<1> QED
  BY <1>1, WindowStep, PTL DEF BatchSpec

\* Where the node answers for the whole range, only transient failures halve the
\* window, each of them once, and nothing else makes it smaller.
WindowAbove ==
  limit >= to =>
    /\ faults = 0 => size >= 256
    /\ faults = 1 => size >= 128
    /\ faults = 2 => size >= 64
    /\ faults = 3 => size >= 32
    /\ faults = 4 => size >= 16
    /\ faults = 5 => size >= 8
    /\ faults = 6 => size >= 4
    /\ faults = 7 => size >= 2

\* Every step of batchLogs keeps it.
LEMMA WindowAboveStep ==
  ASSUME WindowOK, WindowAbove, [BatchNext]_batchVars PROVE WindowAbove'
<1>1. CASE Answered
  <2>1. Grown >= size
    BY DEF WindowOK, Grown, Smaller, MaxWindow
  <2>2. size' >= size /\ size' \in Nat /\ UNCHANGED <<to, limit, faults>>
    BY <1>1, <2>1 DEF Answered, WindowOK, Grown, Smaller, MaxWindow
  <2> QED
    BY <2>2 DEF WindowAbove, WindowOK
<1>2. CASE Refused
  <2>1. limit < to
    BY <1>2, TopInRange DEF Refused, WindowOK
  <2> QED
    BY <1>2, <2>1 DEF Refused, Halved, WindowAbove, WindowOK
<1>3. CASE Fault
  <2>1. /\ faults' = faults + 1 /\ UNCHANGED <<to, limit>> /\ faults \in Nat
        /\ size' = size \/ (size > 1 /\ size' = size \div 2)
        /\ size' = size => size <= 1
    BY <1>3 DEF Fault, Halved, WindowOK
  <2>2. size \in Nat /\ limit \in Nat /\ to \in Nat
    BY DEF WindowOK
  <2> QED
    BY <2>1, <2>2 DEF WindowAbove
<1>4. CASE Limited \/ BackoffOver \/ Cancelled \/ UNCHANGED batchVars
  BY <1>4 DEF WindowAbove, Limited, BackoffOver, Cancelled, batchVars
<1> QED
  BY <1>1, <1>2, <1>3, <1>4 DEF BatchNext

\* The query gives up by itself (main.go:741) only on a node that answers for no
\* block, or one that answers for less than the range and failed a request it
\* would answer, or one that did so nine times.
THEOREM GivesUpOnlyForCause ==
  BatchSpec => GivesUpForCause
<1> DEFINE Cause == \/ limit = 0
                    \/ limit < to /\ faults' >= 1
                    \/ faults' >= 9
<1>1. ASSUME WindowOK, WindowAbove, BatchNext, call = "asking", call' = "failed"
      PROVE  Cause
  <2>1. /\ Refused \/ Fault
        /\ size <= 1
    BY <1>1 DEF BatchNext, Answered, Refused, Fault, Halved, Limited, BackoffOver, Cancelled
  <2>2. Top = 1 /\ size = 1 /\ limit \in Nat /\ to \in Nat /\ faults \in Nat
    BY <1>1, <2>1, TopInRange DEF WindowOK
  <2>3. CASE Refused
    BY <2>2, <2>3 DEF Refused
  <2>4. CASE Fault
    <3>1. faults' = faults + 1
      BY <2>4 DEF Fault
    <3>2. limit >= to => faults >= 8
      BY <1>1, <2>2 DEF WindowAbove
    <3> QED
      BY <2>2, <3>1, <3>2
  <2> QED
    BY <2>1, <2>3, <2>4
<1>2. WindowOK /\ WindowAbove /\ [BatchNext]_batchVars =>
        [call = "asking" /\ call' = "failed" => Cause]_batchVars
  BY <1>1
<1>3. BatchInit => WindowAbove
  BY DEF BatchInit, WindowAbove, MaxWindow
<1> QED
  BY <1>2, <1>3, WindowTyped, WindowAboveStep, PTL DEF BatchSpec, GivesUpForCause

\* On a node that answers for the whole range or for nothing, every request that
\* is answered or refused ends the call or moves the window one way, up or down
\* within its bounds: the call ends after a bounded number of them.  In between,
\* where AnsweringNodeEnds fails, the window goes up and down (main.go:720, 744).
THEOREM EveryRequestCounts ==
  BatchSpec =>
    [][Answered \/ Refused =>
         /\ limit = 0 => call' = "failed" \/ size' < size
         /\ limit >= to => call' = "returned" \/ size' > size]_batchVars
<1>1. ASSUME WindowOK, Answered
      PROVE  /\ limit # 0
             /\ call' = "returned" \/ size' > size
  <2>1. limit # 0
    BY <1>1, TopInRange DEF Answered, WindowOK
  <2>2. Top # to => Grown > size
    BY <1>1 DEF Top, Grown, Smaller, WindowOK, MaxWindow
  <2> QED
    BY <1>1, <2>1, <2>2 DEF Answered
<1>2. ASSUME WindowOK, Refused
      PROVE  /\ limit < to
             /\ call' = "failed" \/ size' < size
  <2>1. limit < to
    BY <1>2, TopInRange DEF Refused, WindowOK
  <2>2. size > 1 => size \div 2 < size
    BY <1>2 DEF WindowOK
  <2> QED
    BY <1>2, <2>1, <2>2 DEF Refused, Halved
<1>3. WindowOK => limit \in Nat /\ to \in Nat
  BY DEF WindowOK
<1>4. WindowOK /\ (Answered \/ Refused) =>
        /\ limit = 0 => call' = "failed" \/ size' < size
        /\ limit >= to => call' = "returned" \/ size' > size
  BY <1>1, <1>2, <1>3
<1>5. WindowOK =>
        [Answered \/ Refused =>
           /\ limit = 0 => call' = "failed" \/ size' < size
           /\ limit >= to => call' = "returned" \/ size' > size]_batchVars
  BY <1>4
<1> QED
  BY <1>5, WindowTyped, PTL DEF BatchSpec
=============================================================================
