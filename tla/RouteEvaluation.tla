-------------------------- MODULE RouteEvaluation --------------------------
(***************************************************************************)
(* The engine judges the routes of one queued block after the other        *)
(* (internal/arbitrage/engine.go): it fixes a snapshot, compares its block *)
(* with the simulation node, and lets every candidate of every route be    *)
(* simulated by up to five calls (internal/simulation).  Any call may fail *)
(* and any failure but a clear refusal sends the whole block back.  The    *)
(* block at the height evaluated may be replaced meanwhile, and the two    *)
(* nodes learn of it at different times; blocks of that height are         *)
(* numbered 0, 1, ... in the order in which the chain adopts them.         *)
(***************************************************************************)
EXTENDS Integers, Sequences

CONSTANTS
  Modes,         \* settings of arbitrage.simulation_mode that are explored
  Routes,        \* number of routes of a block
  TopK,          \* candidates the searcher returns for each route, at most
  Gross,         \* local gross profits of a candidate
  Profit,        \* profits the contract returns
  Cost,          \* gas cost plus safety margin
  MinProfit,     \* arbitrage.min_profit_wei
  MaxBlocks,     \* bound: blocks taken from the queue
  MaxReplaced,   \* bound: replacements of the block evaluated
  MaxFailures    \* bound: attempts ended by a failing call, and crashes

ASSUME EvaluationAssumption ==
  /\ Modes \subseteq {"historical_strict", "latest_observe", "local_only"}
  /\ Routes \in Nat \ {0} /\ TopK \in [1 .. Routes -> Nat \ {0}]
  /\ Gross \subseteq Int /\ Profit \subseteq Int /\ Cost \in Nat /\ MinProfit \in Int
  /\ MaxBlocks \in Nat /\ MaxReplaced \in Nat /\ MaxFailures \in Nat

VARIABLES
  mode,         \* the simulation mode of this process
  pc,           \* next call of the evaluation
  block,        \* queued blocks taken so far
  route,        \* route under evaluation
  todo,         \* its candidates, best gross profit first, still to judge
  sim,          \* what the calls for the first of them have returned
  judged,       \* the candidates judged so far
  results,      \* the groups of the routes finished in this attempt
  unsupported,  \* histUnsupported: historical gas estimates are switched off
  header,       \* block whose header the searcher caches for this height
  chain,        \* block the chain holds at this height
  view,         \* ... and those the read node and the sim node know
  failures      \* attempts that a call has ended

node == <<chain, view>>
vars == <<mode, pc, block, route, todo, sim, judged, results, unsupported, header,
          node, failures>>

-----------------------------------------------------------------------------
(* Answers of a node.  A failure is the set of classes its text matches: a  *)
(* text may match several, and one that matches none is unknown.            *)

Good     == {"ok"}
Poor     == {"ok", "poor"}      \* a block without base fee, a short or empty result
Failing  == SUBSET {"infra", "revert", "unsupported"}
Answers  == {Good, Poor} \cup Failing

isOk(a)          == "ok" \in a
isInfra(a)       == "infra" \in a
isRevert(a)      == "revert" \in a /\ ~isInfra(a)
isUnsupported_First(a) == "unsupported" \in a   \* mutant: tried before the transient errors
isUnsupported(a) == "unsupported" \in a /\ ~isInfra(a)

\* Failures a retry may cure, or that nobody can interpret.
Doubtful(a) == ~isOk(a) /\ (isInfra(a) \/ (~isRevert(a) /\ ~isUnsupported(a)))

NoBlock   == -1
Observing == mode # "historical_strict"
Fresh     == [profit |-> 0, cost |-> "none", on |-> {}, doubtful |-> FALSE]

\* A candidate of the searcher, and what the engine makes of it.
Candidate == [gross : Gross, rejected : BOOLEAN]
Verdict   == [decision : {"local_rejected", "local_candidate", "local_unprofitable",
                          "local_profitable_observed", "simulation_rejected",
                          "simulation_valid_cost_approx", "simulation_accepted",
                          "simulation_valid"},
              net : Int, cost : {"none", "complete", "latest", "max"},
              on : SUBSET (0 .. MaxReplaced), doubtful : BOOLEAN,
              selected : {"no", "analysis", "live"}]

\* TopKOptimizeAt and the engine's sort: rejected samples have no gross profit.
Shortlists ==
  {s \in UNION {[1 .. n -> Candidate] : n \in 1 .. TopK[route]} :
     /\ \A i, j \in DOMAIN s : i < j => s[i].gross >= s[j].gross
     /\ \A i \in DOMAIN s : s[i].rejected => s[i].gross = 0}

-----------------------------------------------------------------------------
(* The group of a route: which candidate is the best, and what becomes of  *)
(* the others.                                                             *)

Eligible_Approximate(v) ==   \* mutant: an approximate cost is good enough
  CASE mode = "local_only" -> v.decision = "local_profitable_observed"
    [] OTHER -> v.decision \in {"simulation_valid_cost_approx", "simulation_accepted"} /\ v.net > 0

Eligible(v) ==
  CASE mode = "local_only" -> v.decision = "local_profitable_observed"
    [] mode = "latest_observe" -> v.decision = "simulation_valid_cost_approx" /\ v.net > 0
    [] OTHER -> v.decision = "simulation_accepted"

IsBest(g, i) ==
  /\ Eligible(g[i])
  /\ \A j \in DOMAIN g : Eligible(g[j]) => g[j].net < g[i].net \/ (g[j].net = g[i].net /\ i <= j)

Mark(g, i) ==
  IF IsBest(g, i) THEN [g[i] EXCEPT !.selected = IF Observing THEN "analysis" ELSE "live"]
  ELSE IF g[i].decision = "simulation_accepted" THEN [g[i] EXCEPT !.decision = "simulation_valid"]
  ELSE g[i]

Marked(g) == [i \in DOMAIN g |-> Mark(g, i)]

\* The group is complete: the next route, or the block's commit.
Conclude(g) ==
  /\ results' = Append(results, Marked(g))
  /\ judged' = <<>> /\ todo' = <<>> /\ sim' = Fresh
  /\ route' = route + 1
  /\ pc' = IF route = Routes THEN "commit" ELSE "snapshot"
  /\ UNCHANGED <<mode, block, header, node, failures>>

\* The verdict on the first candidate of todo.
Decide(decision, net, s) ==
  LET g == Append(judged, [decision |-> decision, net |-> net, cost |-> s.cost, on |-> s.on,
                           doubtful |-> s.doubtful, selected |-> "no"]) IN
  IF Len(todo) = 1 THEN Conclude(g)
  ELSE /\ judged' = g /\ todo' = Tail(todo) /\ sim' = Fresh /\ pc' = "candidate"
       /\ UNCHANGED <<mode, block, route, results, header, node, failures>>

\* An error of the evaluation: nothing of the attempt is kept, and the block
\* stays in the queue.
Abort ==
  /\ pc' = "idle" /\ route' = 1
  /\ todo' = <<>> /\ judged' = <<>> /\ results' = <<>> /\ sim' = Fresh
  /\ UNCHANGED <<mode, block, header, node>>

Failure == failures < MaxFailures /\ failures' = failures + 1 /\ Abort

\* A call of the simulation succeeded (or failed in a way that is understood).
Proceed(s, to) ==
  /\ sim' = s /\ pc' = to
  /\ UNCHANGED <<mode, block, route, todo, judged, results, header, node, failures>>

-----------------------------------------------------------------------------
(* Snapshot and comparison of the two nodes.                               *)

Begin ==
  /\ pc = "idle"
  /\ pc' = "snapshot"
  /\ UNCHANGED <<mode, block, route, todo, sim, judged, results, unsupported, header, node, failures>>

\* SnapshotRoute: an infrastructure error, a route that cannot be evaluated, or
\* the state of the cached block.
SnapshotRoute ==
  /\ pc = "snapshot" /\ UNCHANGED unsupported
  /\ \/ Failure
     \/ Conclude(<<[decision |-> "local_rejected", net |-> 0, cost |-> "none", on |-> {},
                    doubtful |-> FALSE, selected |-> "no"]>>)
     \/ /\ header' = IF header = NoBlock THEN view.read ELSE header
        /\ pc' = IF mode = "local_only" THEN "search" ELSE "verify"
        /\ UNCHANGED <<mode, block, route, todo, sim, judged, results, node, failures>>

Agree_Unasked == TRUE            \* mutant: the evaluator does not forward the check
Agree_Number  == view.sim = block \* mutant: a hash compared with a number
Agree == view.sim = header

\* VerifyBlockHash: the simulation node must hold the snapshot's block.
VerifyBlockHash ==
  /\ pc = "verify" /\ UNCHANGED unsupported
  /\ \/ Failure
     \/ ~Agree /\ Abort /\ UNCHANGED failures
     \/ Agree /\ Proceed(sim, "search")

TopKOptimizeAt ==
  /\ pc = "search"
  /\ \E s \in Shortlists : todo' = s
  /\ pc' = "candidate"
  /\ UNCHANGED <<mode, block, route, sim, judged, results, unsupported, header, node, failures>>

-----------------------------------------------------------------------------
(* One candidate.                                                          *)

\* The searcher has rejected it, or nothing is to be earned.
DecideLocally ==
  /\ pc = "candidate" /\ UNCHANGED unsupported
  /\ LET c == Head(todo) IN
     \/ c.rejected /\ Decide("local_rejected", 0, sim)
     \/ /\ ~c.rejected /\ mode = "local_only"
        /\ \/ Failure                                          \* a head without base fee
           \/ c.gross <= 0 /\ Decide("local_unprofitable", 0, sim)
           \/ /\ c.gross > 0
              /\ Decide(IF c.gross - Cost <= 0 THEN "local_unprofitable"
                        ELSE "local_profitable_observed", c.gross - Cost, sim)
     \/ ~c.rejected /\ mode # "local_only" /\ c.gross <= 0 /\ Decide("local_candidate", 0, sim)

Simulated(s) == [s EXCEPT !.on = @ \cup {view.sim}]
Heard(s, a)  == [s EXCEPT !.doubtful = @ \/ Doubtful(a)]

\* Simulate: the header of the block, for deadline and base fee.
ReadHeader ==
  /\ pc = "candidate" /\ UNCHANGED unsupported
  /\ LET c == Head(todo) IN ~c.rejected /\ mode # "local_only" /\ c.gross > 0
  /\ Failure \/ Proceed(Simulated(sim), "call")

\* ... eth_call of executeV3Cycle at the block's height.
CallContract ==
  /\ pc = "call" /\ UNCHANGED unsupported
  /\ \E a \in Answers :
       LET s == Heard(Simulated(sim), a) IN
       \/ /\ isOk(a) /\ a # Poor
          /\ \E p \in Profit : Proceed([s EXCEPT !.profit = p], "gas")
       \/ (isRevert(a) \/ a = Poor) /\ Decide("simulation_rejected", 0, s)
       \/ ~isOk(a) /\ ~isRevert(a) /\ Failure

\* ... eth_estimateGas at the block's height, unless it is switched off.
EstimateGasAt ==
  /\ pc = "gas" /\ ~unsupported
  /\ \E a \in Answers :
       LET s == Heard(Simulated(sim), a) IN
       \/ a = Good /\ Proceed([s EXCEPT !.cost = "complete"], "l1") /\ UNCHANGED unsupported
       \/ isUnsupported(a) /\ unsupported' = TRUE /\ Proceed(Heard(sim, a), "latest")
       \/ a # Good /\ ~isUnsupported(a) /\ Failure /\ UNCHANGED unsupported

\* ... or eth_estimateGas on the latest block, which may fall back to the limit.
EstimateGas ==
  /\ UNCHANGED unsupported
  /\ pc = "latest" \/ (pc = "gas" /\ unsupported)
  /\ \E a \in Answers :
       LET s == [sim EXCEPT !.doubtful = @ \/ isInfra(a)] IN
       \/ isOk(a) /\ Proceed([s EXCEPT !.cost = "latest"], "l1")
       \/ ~isOk(a) /\ ~isInfra(a) /\ Proceed([s EXCEPT !.cost = "max"], "l1")
       \/ isInfra(a) /\ Failure

\* Evaluate: the verdict on a simulation that has returned a profit.
Judge(s) ==
  LET net == s.profit - Cost IN
  Decide(IF s.cost # "complete" THEN "simulation_valid_cost_approx"
         ELSE IF net < MinProfit THEN "simulation_rejected"
         ELSE "simulation_accepted", net, s)

\* ... and the L1 component of the cost, without which it is not complete.
L1Component ==
  /\ pc = "l1" /\ UNCHANGED unsupported
  /\ \E a \in Answers :
       LET s == Heard(Simulated(sim), a) IN
       \/ a = Good /\ Judge(s)
       \/ isUnsupported(a) /\ Judge([s EXCEPT !.cost = IF @ = "complete" THEN "latest" ELSE @])
       \/ a = Poor /\ (IF sim.cost = "complete" THEN Failure ELSE Judge(s))
       \/ ~isOk(a) /\ ~isUnsupported(a) /\ Failure

Commit ==
  /\ pc = "commit"
  /\ pc' = "done"
  /\ UNCHANGED <<mode, block, route, todo, sim, judged, results, unsupported, header, node, failures>>

\* The next block of the queue: another height, which no header is cached for.
NextBlock ==
  /\ pc = "done" /\ block < MaxBlocks
  /\ block' = block + 1 /\ pc' = "idle" /\ route' = 1 /\ results' = <<>>
  /\ header' = NoBlock /\ chain' = 0 /\ view' = [read |-> 0, sim |-> 0]
  /\ UNCHANGED <<mode, todo, sim, judged, unsupported, failures>>

-----------------------------------------------------------------------------
(* The environment.                                                        *)

Crash ==
  /\ pc # "done" /\ failures < MaxFailures /\ failures' = failures + 1
  /\ unsupported' = FALSE /\ header' = NoBlock
  /\ pc' = "idle" /\ route' = 1
  /\ todo' = <<>> /\ judged' = <<>> /\ results' = <<>> /\ sim' = Fresh
  /\ UNCHANGED <<mode, block, node>>

ChainReplaces ==
  /\ chain < MaxReplaced
  /\ chain' = chain + 1
  /\ UNCHANGED <<mode, pc, block, route, todo, sim, judged, results, unsupported, header, view, failures>>

\* A node learns of a newer block; it never returns to an older one.
NodeFollows(n) ==
  /\ \E v \in view[n] + 1 .. chain : view' = [view EXCEPT ![n] = v]
  /\ UNCHANGED <<mode, pc, block, route, todo, sim, judged, results, unsupported, header, chain, failures>>

Init ==
  /\ mode \in Modes
  /\ pc = "idle" /\ block = 1 /\ route = 1
  /\ todo = <<>> /\ sim = Fresh /\ judged = <<>> /\ results = <<>>
  /\ unsupported = FALSE /\ header = NoBlock
  /\ chain = 0 /\ view = [read |-> 0, sim |-> 0] /\ failures = 0

Process ==
  \/ Begin \/ SnapshotRoute \/ VerifyBlockHash \/ TopKOptimizeAt \/ DecideLocally
  \/ ReadHeader \/ CallContract \/ EstimateGasAt \/ EstimateGas \/ L1Component
  \/ Commit \/ NextBlock

Next ==
  \/ Process
  \/ Crash \/ ChainReplaces
  \/ \E n \in {"read", "sim"} : NodeFollows(n)

Spec == Init /\ [][Next]_vars

\* The evaluation loop goes on (evaluatePending is called for ever).
FairSpec == Spec /\ WF_vars(Process)

-----------------------------------------------------------------------------
(* Properties.                                                             *)

Steps == {"idle", "snapshot", "verify", "search", "candidate", "call", "gas", "latest", "l1",
          "commit", "done"}

\* Every variable keeps its type, a route is under evaluation until the commit
\* and candidates are left to judge whenever a call is made for one.
TypeOK ==
  /\ mode \in Modes /\ pc \in Steps /\ block \in Nat /\ failures \in Nat
  /\ route \in 1 .. Routes + 1 /\ (pc \notin {"commit", "done"} => route <= Routes)
  /\ todo \in Seq(Candidate) /\ (pc \in {"candidate", "call", "gas", "latest", "l1"} => todo # <<>>)
  /\ sim \in [profit : Int, cost : {"none", "complete", "latest", "max"},
              on : SUBSET (0 .. MaxReplaced), doubtful : BOOLEAN]
  /\ judged \in Seq(Verdict) /\ results \in Seq(Seq(Verdict))
  /\ unsupported \in BOOLEAN /\ header \in -1 .. MaxReplaced
  /\ chain \in 0 .. MaxReplaced /\ view \in [{"read", "sim"} -> 0 .. MaxReplaced]

\* Of the candidates of a route at most one is selected for sending, and only in
\* historical_strict: its cost is complete, its net profit reaches the minimum
\* and no other candidate that was accepted would have earned more; no second
\* one is left in the state that the sender looks for (engine.go:459).  This
\* holds for a group judged while historical estimates are switched off, too.
FormalSelection ==
  \A r \in DOMAIN results : LET g == results[r] IN
    \A i \in DOMAIN g : g[i].selected = "live" \/ g[i].decision = "simulation_accepted" =>
      /\ g[i].decision = "simulation_accepted" /\ g[i].cost = "complete" /\ g[i].net >= MinProfit
      /\ mode = "historical_strict" => g[i].selected = "live"
      /\ \A j \in DOMAIN g \ {i} :
           /\ g[j].selected = "no" /\ g[j].decision # "simulation_accepted"
           /\ g[j].decision = "simulation_valid" => g[j].net <= g[i].net
      /\ Observing => g[i].selected = "no"

\* A block that is still the chain's when it is committed was simulated, call
\* by call, on the very block its local quotes were made on (engine.go:323).
SimulatedWhereQuoted ==
  pc = "done" /\ header = chain =>
    \A r \in DOMAIN results : \A i \in DOMAIN results[r] : results[r][i].on \subseteq {header}

\* No decision rests on a failure that a retry may cure, whatever else its text
\* matches (executor_sim.go:153), nor on one that nobody can interpret; only the
\* gas estimate on the latest block, which is an approximation anyhow, may fail
\* without a reason and be replaced by the gas limit.
TransientNeverDecides ==
  \A r \in DOMAIN results : \A i \in DOMAIN results[r] : ~results[r][i].doubtful

\* A block that is not replaced is decided in the end, failures and crashes
\* notwithstanding, and so is every block of the queue.
DecidesWhenSteady == [](chain = 0) => <>(block = MaxBlocks /\ pc = "done")
=============================================================================
