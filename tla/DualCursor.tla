----------------------------- MODULE DualCursor -----------------------------
(***************************************************************************)
(* What the two checkpoints of rh-arbitrage promise (main.go:374-390,      *)
(* migration 0008): an ingest cursor that follows the chain and may be     *)
(* rolled back, and an evaluation cursor that visits every height queued   *)
(* by ingestion exactly once and in order, never overtaking the former.    *)
(* Processes, crashes, RPC reads and block hashes are all hidden.          *)
(***************************************************************************)
EXTENDS Naturals

VARIABLES
  ingested,   \* height of the ingest cursor
  evaluated,  \* height of the evaluation cursor
  open        \* queued heights not yet evaluated

vars == <<ingested, evaluated, open>>

Init ==
  /\ ingested \in Nat
  /\ evaluated = ingested
  /\ open = {}

\* The ingest cursor moves up; a height is queued only when it is passed.
Ingest ==
  /\ ingested' \in Nat
  /\ ingested' >= ingested
  /\ open \subseteq open'
  /\ open' \subseteq open \cup {h \in {ingested'} : h > ingested}
  /\ UNCHANGED evaluated

\* The lowest open height is evaluated.
Evaluate ==
  /\ \E h \in open :
       /\ \A o \in open : h <= o
       /\ evaluated' = h
       /\ open' = open \ {h}
  /\ UNCHANGED ingested

\* A reorganisation closes what was queued above the ancestor; the evaluation
\* cursor never moves up.
Rollback ==
  /\ ingested'  \in Nat
  /\ ingested'  <= ingested
  /\ evaluated' = IF evaluated > ingested' THEN ingested' ELSE evaluated
  /\ open'      = {h \in open : h <= ingested'}

Next == Ingest \/ Evaluate \/ Rollback

Spec == Init /\ [][Next]_vars
=============================================================================
