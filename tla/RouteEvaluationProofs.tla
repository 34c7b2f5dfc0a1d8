----------------------- MODULE RouteEvaluationProofs -----------------------
(***************************************************************************)
(* Proofs about the engine's judgement of routes: for every number of      *)
(* routes and candidates, profit, cost, failure and replacement of blocks, *)
(* which candidate is selected, where it was simulated, and on which       *)
(* answers a decision never rests.                                         *)
(***************************************************************************)
EXTENDS RouteEvaluation, SequenceTheorems, TLAPS

USE EvaluationAssumption

Sims == [profit : Int, cost : {"none", "complete", "latest", "max"},
         on : SUBSET (0 .. MaxReplaced), doubtful : BOOLEAN]

Judging    == {"candidate", "call", "gas", "latest", "l1"}
Decisions  == {"local_rejected", "local_candidate", "local_unprofitable",
               "local_profitable_observed", "simulation_rejected",
               "simulation_valid_cost_approx", "simulation_accepted"}

-----------------------------------------------------------------------------
(* The inductive invariant.                                                *)

\* Nothing is under judgement between two routes.
Between == pc \notin Judging => todo = <<>> /\ judged = <<>> /\ sim = Fresh

\* What a judged candidate looks like before its group is concluded.
Unmarked(v) ==
  /\ v.selected = "no" /\ v.decision \in Decisions
  /\ v.decision = "simulation_accepted" => v.cost = "complete" /\ v.net >= MinProfit

JudgedUnmarked == \A i \in DOMAIN judged : Unmarked(judged[i])

\* No failure that a retry may cure has been heard of so far.
NothingDoubtful == ~sim.doubtful /\ \A i \in DOMAIN judged : ~judged[i].doubtful

\* Blocks are numbered in the order of the chain, and a header is cached once a
\* snapshot is fixed.
Known ==
  /\ header <= chain /\ view["read"] <= chain /\ view["sim"] <= chain
  /\ pc \in Judging \cup {"verify", "search"} => header # NoBlock
  /\ pc \in {"verify", "call", "gas", "latest", "l1"} => mode # "local_only"

\* While the cached header is the chain's, calls were made on its block only.
OnHeader(blocks) ==
  /\ header = NoBlock => blocks = {}
  /\ header = chain   => blocks \subseteq {header}

Placed ==
  /\ OnHeader(sim.on)
  /\ \A i \in DOMAIN judged : OnHeader(judged[i].on)
  /\ \A r \in DOMAIN results : \A i \in DOMAIN results[r] : OnHeader(results[r][i].on)
  /\ pc \in Judging \cup {"search"} /\ mode # "local_only" /\ header = chain => view["sim"] = chain

IInv ==
  /\ TypeOK /\ Between /\ JudgedUnmarked /\ NothingDoubtful /\ TransientNeverDecides
  /\ Known /\ Placed /\ FormalSelection

-----------------------------------------------------------------------------
(* Sequences.                                                              *)

\* Appending adds one element and keeps the others.
LEMMA AppendElements ==
  ASSUME NEW S, NEW s \in Seq(S), NEW e \in S
  PROVE  /\ Append(s, e) \in Seq(S)
         /\ \A i \in DOMAIN Append(s, e) :
              (i \in DOMAIN s /\ Append(s, e)[i] = s[i]) \/ Append(s, e)[i] = e
  OBVIOUS

\* A function over a sequence's positions is a sequence.
LEMMA Mapped ==
  ASSUME NEW S, NEW T, NEW s \in Seq(S), NEW t, DOMAIN t = DOMAIN s,
         t = [i \in DOMAIN s |-> t[i]], \A i \in DOMAIN s : t[i] \in T
  PROVE  t \in Seq(T)
  OBVIOUS

\* The empty sequence is one, of anything.
LEMMA EmptyIsSeq == \A S : <<>> \in Seq(S) /\ DOMAIN <<>> = {}
  OBVIOUS

-----------------------------------------------------------------------------
(* Groups.                                                                 *)

FormalGroup(g) ==
  \A i \in DOMAIN g : g[i].selected = "live" \/ g[i].decision = "simulation_accepted" =>
      /\ g[i].decision = "simulation_accepted" /\ g[i].cost = "complete" /\ g[i].net >= MinProfit
      /\ mode = "historical_strict" => g[i].selected = "live"
      /\ \A j \in DOMAIN g \ {i} :
           /\ g[j].selected = "no" /\ g[j].decision # "simulation_accepted"
           /\ g[j].decision = "simulation_valid" => g[j].net <= g[i].net
      /\ Observing => g[i].selected = "no"

\* Marking changes a verdict's selection and decision only.
LEMMA MarkType ==
  ASSUME NEW g \in Seq(Verdict), \A i \in DOMAIN g : Unmarked(g[i]), NEW k \in DOMAIN g
  PROVE  /\ Mark(g, k) \in Verdict
         /\ Mark(g, k).net = g[k].net /\ Mark(g, k).cost = g[k].cost
         /\ Mark(g, k).on = g[k].on /\ Mark(g, k).doubtful = g[k].doubtful
         /\ IsBest(g, k) => /\ Mark(g, k).selected = IF Observing THEN "analysis" ELSE "live"
                            /\ Mark(g, k).decision = g[k].decision
         /\ ~IsBest(g, k) => /\ Mark(g, k).selected = "no"
                             /\ Mark(g, k).decision = IF g[k].decision = "simulation_accepted"
                                                      THEN "simulation_valid" ELSE g[k].decision
  <1>1. g[k] \in Verdict /\ g[k].selected = "no"  BY DEF Unmarked
  <1> QED  BY <1>1 DEF Mark, Verdict

\* There is at most one best candidate.
LEMMA OneBest ==
  ASSUME NEW g \in Seq(Verdict), NEW i \in DOMAIN g, NEW j \in DOMAIN g, IsBest(g, i), IsBest(g, j)
  PROVE  i = j
  <1>1. g[i].net \in Int /\ g[j].net \in Int
    <2>1. g[i] \in Verdict /\ g[j] \in Verdict  OBVIOUS
    <2> QED  BY <2>1 DEF Verdict
  <1>2. i \in Int /\ j \in Int  OBVIOUS
  <1>3. /\ g[j].net < g[i].net \/ (g[j].net = g[i].net /\ i <= j)
        /\ g[i].net < g[j].net \/ (g[i].net = g[j].net /\ j <= i)
    BY DEF IsBest
  <1> QED  BY <1>1, <1>2, <1>3

\* A group that is concluded keeps its verdicts and is formally selected from.
LEMMA MarkedGroup ==
  ASSUME mode \in Modes, NEW g \in Seq(Verdict), \A i \in DOMAIN g : Unmarked(g[i])
  PROVE  /\ Marked(g) \in Seq(Verdict) /\ DOMAIN Marked(g) = DOMAIN g
         /\ \A i \in DOMAIN g : Marked(g)[i].on = g[i].on /\ Marked(g)[i].doubtful = g[i].doubtful
         /\ FormalGroup(Marked(g))
  <1>1. DOMAIN Marked(g) = DOMAIN g /\ \A i \in DOMAIN g : Marked(g)[i] = Mark(g, i)
    BY DEF Marked
  <1>2. Marked(g) \in Seq(Verdict)
    <2>1. \A i \in DOMAIN g : Marked(g)[i] \in Verdict  BY <1>1, MarkType
    <2>2. Marked(g) = [i \in DOMAIN g |-> Marked(g)[i]]  BY <1>1 DEF Marked
    <2> QED  BY <1>1, <2>1, <2>2, Mapped
  <1>3. \A i \in DOMAIN g : Marked(g)[i].on = g[i].on /\ Marked(g)[i].doubtful = g[i].doubtful
    BY <1>1, MarkType
  <1>4. ASSUME NEW i \in DOMAIN g,
               Mark(g, i).selected = "live" \/ Mark(g, i).decision = "simulation_accepted"
        PROVE  /\ IsBest(g, i) /\ mode = "historical_strict" /\ ~Observing
               /\ g[i].decision = "simulation_accepted"
    <2>1. IsBest(g, i)  BY <1>4, MarkType
    <2>2. CASE Observing
      <3>1. Mark(g, i).decision = "simulation_accepted"  BY <1>4, <2>1, <2>2, MarkType
      <3>2. g[i].decision = "simulation_accepted"  BY <2>1, <3>1, MarkType
      <3>3. mode \in {"latest_observe", "local_only"}  BY <2>2 DEF Observing
      <3> QED  BY <2>1, <3>2, <3>3 DEF IsBest, Eligible
    <2>3. CASE ~Observing
      <3>1. mode = "historical_strict"  BY <2>3 DEF Observing
      <3> QED  BY <2>1, <2>3, <3>1 DEF IsBest, Eligible
    <2> QED  BY <2>2, <2>3
  <1>5. ASSUME NEW i \in DOMAIN g, NEW j \in DOMAIN g \ {i}, IsBest(g, i), mode = "historical_strict"
        PROVE  /\ Mark(g, j).selected = "no" /\ Mark(g, j).decision # "simulation_accepted"
               /\ Mark(g, j).decision = "simulation_valid" => g[j].net <= g[i].net
    <2>1. ~IsBest(g, j)  BY <1>5, OneBest
    <2>2. Unmarked(g[j])  OBVIOUS
    <2>3. /\ Mark(g, j).selected = "no"
          /\ Mark(g, j).decision = IF g[j].decision = "simulation_accepted"
                                   THEN "simulation_valid" ELSE g[j].decision
      BY <2>1, MarkType
    <2>4. Mark(g, j).decision = "simulation_valid" => g[j].decision = "simulation_accepted"
      BY <2>2, <2>3 DEF Unmarked, Decisions
    <2>5. g[j].decision = "simulation_accepted" => g[j].net <= g[i].net
      <3>1. g[j].decision = "simulation_accepted" => Eligible(g[j])
        BY <1>5 DEF Eligible
      <3>2. g[i].net \in Int /\ g[j].net \in Int
        <4>1. g[i] \in Verdict /\ g[j] \in Verdict  OBVIOUS
        <4> QED  BY <4>1 DEF Verdict
      <3> QED  BY <1>5, <3>1, <3>2 DEF IsBest
    <2> QED  BY <2>3, <2>4, <2>5
  <1>6. FormalGroup(Marked(g))
    <2> SUFFICES ASSUME NEW i \in DOMAIN g,
                        Mark(g, i).selected = "live" \/ Mark(g, i).decision = "simulation_accepted"
                 PROVE  /\ Mark(g, i).decision = "simulation_accepted"
                        /\ Mark(g, i).cost = "complete" /\ Mark(g, i).net >= MinProfit
                        /\ Mark(g, i).selected = "live"
                        /\ \A j \in DOMAIN g \ {i} :
                             /\ Mark(g, j).selected = "no"
                             /\ Mark(g, j).decision # "simulation_accepted"
                             /\ Mark(g, j).decision = "simulation_valid" =>
                                  Mark(g, j).net <= Mark(g, i).net
                        /\ ~Observing
      BY <1>1 DEF FormalGroup
    <2>1. IsBest(g, i) /\ mode = "historical_strict" /\ ~Observing /\ g[i].decision = "simulation_accepted"
      BY <1>4
    <2>2. Unmarked(g[i])  OBVIOUS
    <2>3. /\ Mark(g, i).decision = "simulation_accepted" /\ Mark(g, i).selected = "live"
          /\ Mark(g, i).cost = g[i].cost /\ Mark(g, i).net = g[i].net
      BY <2>1, MarkType
    <2>4. \A j \in DOMAIN g : Mark(g, j).net = g[j].net  BY MarkType
    <2> QED  BY <1>5, <2>1, <2>2, <2>3, <2>4 DEF Unmarked
  <1> QED  BY <1>1, <1>2, <1>3, <1>6

\* The other conjuncts do not look into the groups.
LEMMA FormalByGroup == FormalSelection <=> \A r \in DOMAIN results : FormalGroup(results[r])
  BY DEF FormalSelection, FormalGroup

-----------------------------------------------------------------------------
(* The ways an action may end.                                             *)

\* A group of unmarked verdicts is concluded.
LEMMA ConcludeInd ==
  ASSUME IInv, NEW g \in Seq(Verdict), Conclude(g), unsupported' \in BOOLEAN,
         pc \notin {"commit", "done"},
         \A i \in DOMAIN g : Unmarked(g[i]) /\ ~g[i].doubtful /\ OnHeader(g[i].on)
  PROVE  IInv'
  <1> USE DEF IInv
  <1>1. /\ results' = Append(results, Marked(g))
        /\ judged' = <<>> /\ todo' = <<>> /\ sim' = Fresh /\ route' = route + 1
        /\ pc' = IF route = Routes THEN "commit" ELSE "snapshot"
        /\ UNCHANGED <<mode, block, header, chain, view, failures>>
    BY DEF Conclude, node
  <1>2. /\ Marked(g) \in Seq(Verdict) /\ DOMAIN Marked(g) = DOMAIN g
        /\ \A i \in DOMAIN g : Marked(g)[i].on = g[i].on /\ Marked(g)[i].doubtful = g[i].doubtful
        /\ FormalGroup(Marked(g))
    BY MarkedGroup DEF TypeOK
  <1>3. /\ results' \in Seq(Seq(Verdict))
        /\ \A r \in DOMAIN results' :
             (r \in DOMAIN results /\ results'[r] = results[r]) \/ results'[r] = Marked(g)
    <2>1. results \in Seq(Seq(Verdict))  BY DEF TypeOK
    <2> QED  BY <1>1, <1>2, <2>1, AppendElements
  <1>4. Fresh \in Sims /\ ~Fresh.doubtful /\ Fresh.on = {}
    BY DEF Fresh, Sims
  <1>5. TypeOK'
    <2>1. route' \in 1 .. Routes + 1 /\ (pc' \notin {"commit", "done"} => route' <= Routes)
      BY <1>1 DEF TypeOK
    <2>2. <<>> \in Seq(Candidate) /\ <<>> \in Seq(Verdict)  BY EmptyIsSeq
    <2>3. pc' \in {"commit", "snapshot"}  BY <1>1
    <2> QED  BY <1>1, <1>3, <1>4, <2>1, <2>2, <2>3 DEF TypeOK, Steps, Sims
  <1>6. Between' /\ JudgedUnmarked' /\ NothingDoubtful'
    <2>1. DOMAIN judged' = {}  BY <1>1, EmptyIsSeq
    <2> QED  BY <1>1, <1>4, <2>1 DEF Between, JudgedUnmarked, NothingDoubtful
  <1>7. TransientNeverDecides'
    BY <1>2, <1>3 DEF TransientNeverDecides
  <1>8. Known'  BY <1>1 DEF Known, Judging
  <1>9. Placed'
    <2>1. DOMAIN judged' = {}  BY <1>1, EmptyIsSeq
    <2>2. \A b : OnHeader(b)' <=> OnHeader(b)  BY <1>1 DEF OnHeader
    <2>3. \A r \in DOMAIN results' : \A i \in DOMAIN results'[r] : OnHeader(results'[r][i].on)
      BY <1>2, <1>3 DEF Placed
    <2>4. OnHeader({})  BY DEF OnHeader
    <2>5. pc' \notin Judging \cup {"search"}  BY <1>1 DEF Judging
    <2> QED  BY <1>1, <1>4, <2>1, <2>2, <2>3, <2>4, <2>5 DEF Placed
  <1>10. FormalSelection'
    <2>1. \A r \in DOMAIN results' : FormalGroup(results'[r])
      BY <1>2, <1>3, FormalByGroup
    <2>2. \A x : FormalGroup(x)' <=> FormalGroup(x)
      BY <1>1 DEF FormalGroup, Observing
    <2> QED  BY <2>1, <2>2 DEF FormalSelection, FormalGroup
  <1> QED  BY <1>5, <1>6, <1>7, <1>8, <1>9, <1>10

\* The first candidate left is judged.
LEMMA DecideInd ==
  ASSUME IInv, NEW d \in Decisions, NEW n \in Int, NEW s \in Sims, Decide(d, n, s),
         unsupported' \in BOOLEAN, pc \in Judging,
         d = "simulation_accepted" => s.cost = "complete" /\ n >= MinProfit,
         ~s.doubtful, OnHeader(s.on)
  PROVE  IInv'
  <1> USE DEF IInv
  <1> DEFINE v == [decision |-> d, net |-> n, cost |-> s.cost, on |-> s.on,
                   doubtful |-> s.doubtful, selected |-> "no"]
             g == Append(judged, v)
  <1>1. v \in Verdict /\ Unmarked(v) /\ ~v.doubtful /\ OnHeader(v.on)
    BY DEF Verdict, Unmarked, Sims, Decisions
  <1>2. /\ g \in Seq(Verdict)
        /\ \A i \in DOMAIN g : (i \in DOMAIN judged /\ g[i] = judged[i]) \/ g[i] = v
    <2>1. judged \in Seq(Verdict)  BY DEF TypeOK
    <2> HIDE DEF v, IInv
    <2> QED  BY <1>1, <2>1, AppendElements
  <1>3. \A i \in DOMAIN g : Unmarked(g[i]) /\ ~g[i].doubtful /\ OnHeader(g[i].on)
    <2> HIDE DEF v, g
    <2> QED  BY <1>1, <1>2 DEF JudgedUnmarked, NothingDoubtful, Placed
  <1>4. \/ Conclude(g)
        \/ /\ Len(todo) # 1 /\ judged' = g /\ todo' = Tail(todo) /\ sim' = Fresh /\ pc' = "candidate"
           /\ UNCHANGED <<mode, block, route, results, header, chain, view, failures>>
    BY DEF Decide, node
  <1> HIDE DEF v, g
  <1>5. CASE Conclude(g)
    <2>1. pc \notin {"commit", "done"}  BY DEF Judging
    <2> QED  BY <1>2, <1>3, <1>5, <2>1, ConcludeInd
  <1>6. CASE /\ Len(todo) # 1 /\ judged' = g /\ todo' = Tail(todo) /\ sim' = Fresh /\ pc' = "candidate"
             /\ UNCHANGED <<mode, block, route, results, header, chain, view, failures>>
    <2>1. todo \in Seq(Candidate) /\ todo # <<>>  BY DEF TypeOK, Judging
    <2>2. Tail(todo) \in Seq(Candidate) /\ Tail(todo) # <<>>
      <3> HIDE DEF IInv
      <3>1. Len(todo) \in Nat /\ Len(todo) # 0  BY <2>1
      <3>2. Tail(todo) \in Seq(Candidate) /\ Len(Tail(todo)) = Len(todo) - 1  BY <2>1
      <3>3. Len(Tail(todo)) # 0  BY <1>6, <3>1, <3>2
      <3>4. Len(<<>>) = 0  OBVIOUS
      <3>5. Tail(todo) # <<>>  BY <3>3, <3>4
      <3> QED  BY <3>2, <3>5
    <2>3. Fresh \in Sims /\ ~Fresh.doubtful /\ Fresh.on = {}  BY DEF Fresh, Sims
    <2>4. TypeOK'
      <3>1. route \in 1 .. Routes /\ route <= Routes  BY DEF TypeOK, Judging
      <3>2. /\ mode' \in Modes /\ block' \in Nat /\ failures' \in Nat /\ results' \in Seq(Seq(Verdict))
            /\ header' \in -1 .. MaxReplaced /\ chain' \in 0 .. MaxReplaced
            /\ view' \in [{"read", "sim"} -> 0 .. MaxReplaced]
        BY <1>6 DEF TypeOK
      <3>3. route' \in 1 .. Routes + 1 /\ route' <= Routes /\ pc' \in Steps
        BY <1>6, <3>1 DEF Steps
      <3>4. judged' \in Seq(Verdict) /\ todo' \in Seq(Candidate) /\ todo' # <<>> /\ sim' \in Sims
        BY <1>2, <1>6, <2>2, <2>3
      <3> HIDE DEF IInv
      <3> QED  BY <3>2, <3>3, <3>4 DEF TypeOK, Sims
    <2>5. Between' /\ JudgedUnmarked' /\ NothingDoubtful' /\ TransientNeverDecides' /\ Known'
      BY <1>3, <1>6, <2>3 DEF Between, JudgedUnmarked, Unmarked, NothingDoubtful, TransientNeverDecides,
         Known, Judging
    <2>6. Placed'
      <3>1. \A b : OnHeader(b)' <=> OnHeader(b)  BY <1>6 DEF OnHeader
      <3>2. OnHeader({})  BY DEF OnHeader
      <3> QED  BY <1>3, <1>6, <2>3, <3>1, <3>2 DEF Placed, Judging
    <2>7. FormalSelection'  BY <1>6 DEF FormalSelection, Observing
    <2> QED  BY <2>4, <2>5, <2>6, <2>7
  <1> QED  BY <1>4, <1>5, <1>6

\* The evaluation goes on with the next call.
LEMMA ProceedInd ==
  ASSUME IInv, NEW s \in Sims, NEW to \in {"search", "call", "gas", "latest", "l1"}, Proceed(s, to),
         unsupported' \in BOOLEAN, pc \in Judging \cup {"verify"}, mode # "local_only",
         ~s.doubtful, OnHeader(s.on),
         IF to = "search" THEN pc = "verify" /\ s = sim /\ (header = chain => view["sim"] = chain)
                          ELSE pc \in Judging
  PROVE  IInv'
  <1> USE DEF IInv
  <1>1. /\ sim' = s /\ pc' = to
        /\ UNCHANGED <<mode, block, route, todo, judged, results, header, chain, view, failures>>
    BY DEF Proceed, node
  <1>2. TypeOK'
    <2>1. s \in [profit : Int, cost : {"none", "complete", "latest", "max"},
                 on : SUBSET (0 .. MaxReplaced), doubtful : BOOLEAN]
      BY DEF Sims
    <2>2. pc' \in Steps /\ pc' \notin {"commit", "done"} /\ pc \notin {"commit", "done"}
      BY <1>1 DEF Steps, Judging
    <2>3. pc' \in Judging => todo # <<>>  BY <1>1 DEF TypeOK, Judging
    <2> QED  BY <1>1, <2>1, <2>2, <2>3 DEF TypeOK, Judging
  <1>3. Between' /\ JudgedUnmarked' /\ NothingDoubtful' /\ TransientNeverDecides' /\ Known'
    BY <1>1 DEF Between, JudgedUnmarked, Unmarked, NothingDoubtful, TransientNeverDecides, Known, Judging
  <1>4. Placed'
    <2>1. \A b : OnHeader(b)' <=> OnHeader(b)  BY <1>1 DEF OnHeader
    <2> QED  BY <1>1, <2>1 DEF Placed, Judging
  <1>5. FormalSelection'  BY <1>1 DEF FormalSelection, Observing
  <1> QED  BY <1>2, <1>3, <1>4, <1>5

\* The attempt is given up.
LEMMA AbortInd ==
  ASSUME IInv, Abort, unsupported' \in BOOLEAN, failures' \in Nat
  PROVE  IInv'
  <1> USE DEF IInv
  <1>1. /\ pc' = "idle" /\ route' = 1
        /\ todo' = <<>> /\ judged' = <<>> /\ results' = <<>> /\ sim' = Fresh
        /\ UNCHANGED <<mode, block, header, chain, view>>
    BY DEF Abort, node
  <1>2. /\ \A S : <<>> \in Seq(S)
        /\ DOMAIN judged' = {} /\ DOMAIN results' = {}
    BY <1>1, EmptyIsSeq
  <1>3. Fresh \in Sims /\ ~Fresh.doubtful /\ Fresh.on = {}  BY DEF Fresh, Sims
  <1>4. TypeOK'  BY <1>1, <1>2, <1>3 DEF TypeOK, Steps, Sims
  <1>5. Between' /\ JudgedUnmarked' /\ NothingDoubtful' /\ TransientNeverDecides' /\ Known'
    BY <1>1, <1>2, <1>3 DEF Between, JudgedUnmarked, NothingDoubtful, TransientNeverDecides, Known, Judging
  <1>6. Placed' /\ FormalSelection'
    BY <1>1, <1>2, <1>3 DEF Placed, OnHeader, Judging, FormalSelection
  <1> QED  BY <1>4, <1>5, <1>6

\* An attempt that a call ends keeps the invariant.
LEMMA FailureInd ==
  ASSUME IInv, Failure, unsupported' \in BOOLEAN
  PROVE  IInv'
  <1>1. failures' \in Nat  BY DEF Failure, IInv, TypeOK
  <1> QED  BY <1>1, AbortInd DEF Failure

-----------------------------------------------------------------------------
(* The actions.                                                            *)

\* A call on the sim node after the comparison is a call on the header's block.
LEMMA SimulatedHere ==
  ASSUME IInv, pc \in Judging, mode # "local_only"
  PROVE  /\ Simulated(sim) \in Sims /\ ~Simulated(sim).doubtful /\ OnHeader(Simulated(sim).on)
         /\ Simulated(sim).cost = sim.cost
         /\ sim \in Sims /\ ~sim.doubtful /\ OnHeader(sim.on)
  <1> USE DEF IInv
  <1>1. sim \in Sims /\ ~sim.doubtful /\ OnHeader(sim.on)
    BY DEF TypeOK, Sims, NothingDoubtful, Placed
  <1>2. view["sim"] \in 0 .. MaxReplaced  BY DEF TypeOK
  <1>3. /\ Simulated(sim).on = sim.on \cup {view["sim"]} /\ Simulated(sim).doubtful = sim.doubtful
        /\ Simulated(sim).cost = sim.cost /\ Simulated(sim) \in Sims
    BY <1>1, <1>2 DEF Simulated, Sims
  <1>4. header # NoBlock /\ (header = chain => view["sim"] = header)
    BY DEF Known, Placed
  <1> QED  BY <1>1, <1>3, <1>4 DEF OnHeader

\* Hearing an answer that is not doubtful changes nothing.
LEMMA HeardClearly ==
  ASSUME NEW s \in Sims, ~s.doubtful, NEW a, ~Doubtful(a)
  PROVE  /\ Heard(s, a) \in Sims /\ ~Heard(s, a).doubtful /\ Heard(s, a).on = s.on
         /\ Heard(s, a).cost = s.cost
  <1>1. Doubtful(a) \in BOOLEAN  BY DEF Doubtful, isOk, isInfra, isRevert, isUnsupported
  <1> QED  BY <1>1 DEF Heard, Sims

\* The call's record keeps its type when its cost is set.
LEMMA WithCost ==
  ASSUME NEW s \in Sims, NEW c \in {"none", "complete", "latest", "max"}
  PROVE  /\ [s EXCEPT !.cost = c] \in Sims /\ [s EXCEPT !.cost = c].on = s.on
         /\ [s EXCEPT !.cost = c].doubtful = s.doubtful /\ [s EXCEPT !.cost = c].cost = c
  BY DEF Sims

\* The call's record keeps its type when its profit is set.
LEMMA WithProfit ==
  ASSUME NEW s \in Sims, NEW p \in Profit
  PROVE  /\ [s EXCEPT !.profit = p] \in Sims /\ [s EXCEPT !.profit = p].on = s.on
         /\ [s EXCEPT !.profit = p].doubtful = s.doubtful
  BY DEF Sims

\* A step of SnapshotRoute keeps the invariant.
LEMMA SnapshotRouteInd == IInv /\ SnapshotRoute => IInv'
  <1> SUFFICES ASSUME IInv, SnapshotRoute PROVE IInv'
    OBVIOUS
  <1> USE DEF IInv
  <1>1. pc = "snapshot" /\ unsupported' \in BOOLEAN  BY DEF SnapshotRoute, TypeOK
  <1>2. CASE Failure  BY <1>1, <1>2, FailureInd
  <1>3. CASE Conclude(<<[decision |-> "local_rejected", net |-> 0, cost |-> "none", on |-> {},
                         doubtful |-> FALSE, selected |-> "no"]>>)
    <2> DEFINE v == [decision |-> "local_rejected", net |-> 0, cost |-> "none", on |-> {},
                     doubtful |-> FALSE, selected |-> "no"]
    <2>1. v \in Verdict /\ Unmarked(v) /\ ~v.doubtful /\ OnHeader(v.on)
      BY DEF Verdict, Unmarked, OnHeader, Decisions
    <2> HIDE DEF v
    <2>2. <<v>> \in Seq(Verdict) /\ \A i \in DOMAIN <<v>> : <<v>>[i] = v
      BY <2>1
    <2>3. Conclude(<<v>>)  BY <1>3 DEF v
    <2> QED  BY <1>1, <2>1, <2>2, <2>3, ConcludeInd
  <1>4. CASE /\ header' = IF header = NoBlock THEN view.read ELSE header
             /\ pc' = IF mode = "local_only" THEN "search" ELSE "verify"
             /\ UNCHANGED <<mode, block, route, todo, sim, judged, results, node, failures>>
    <2>1. view["read"] \in 0 .. MaxReplaced /\ view["read"] <= chain  BY DEF TypeOK, Known
    <2>2. header' \in 0 .. MaxReplaced /\ header' <= chain /\ header' # NoBlock
      BY <1>4, <2>1 DEF TypeOK, Known, NoBlock
    <2>3. TypeOK'  BY <1>1, <1>4, <2>2 DEF TypeOK, Steps, node
    <2>4. /\ Between' /\ JudgedUnmarked' /\ NothingDoubtful' /\ TransientNeverDecides' /\ Known'
          /\ FormalSelection'
      BY <1>1, <1>4, <2>2 DEF Between, JudgedUnmarked, Unmarked, NothingDoubtful, TransientNeverDecides,
         Known, Judging, node, FormalSelection, Observing
    <2>5. \A b : OnHeader(b) => OnHeader(b)'
      BY <1>4, <2>2 DEF OnHeader, node
    <2>6. Placed'  BY <1>1, <1>4, <2>5 DEF Placed, Judging, node
    <2> QED  BY <2>3, <2>4, <2>6
  <1> QED  BY <1>2, <1>3, <1>4 DEF SnapshotRoute

\* A step of VerifyBlockHash keeps the invariant.
LEMMA VerifyBlockHashInd == IInv /\ VerifyBlockHash => IInv'
  <1> SUFFICES ASSUME IInv, VerifyBlockHash PROVE IInv'
    OBVIOUS
  <1> USE DEF IInv
  <1>1. pc = "verify" /\ unsupported' \in BOOLEAN /\ mode # "local_only"
    BY DEF VerifyBlockHash, TypeOK, Known
  <1>2. CASE Failure  BY <1>1, <1>2, FailureInd
  <1>3. CASE Abort /\ UNCHANGED failures
    <2>1. failures' \in Nat  BY <1>3 DEF TypeOK
    <2> QED  BY <1>1, <1>3, <2>1, AbortInd
  <1>4. CASE Agree /\ Proceed(sim, "search")
    <2>1. sim \in Sims /\ ~sim.doubtful /\ OnHeader(sim.on)
      BY DEF TypeOK, Sims, NothingDoubtful, Placed
    <2>2. header = chain => view["sim"] = chain  BY <1>4 DEF Agree
    <2> QED  BY <1>1, <1>4, <2>1, <2>2, ProceedInd
  <1> QED  BY <1>2, <1>3, <1>4 DEF VerifyBlockHash

\* A step of TopKOptimizeAt keeps the invariant.
LEMMA TopKOptimizeAtInd == IInv /\ TopKOptimizeAt => IInv'
  <1> SUFFICES ASSUME IInv, TopKOptimizeAt PROVE IInv'
    OBVIOUS
  <1> USE DEF IInv
  <1>1. /\ pc = "search" /\ pc' = "candidate" /\ todo' \in Shortlists
        /\ UNCHANGED <<mode, block, route, sim, judged, results, unsupported, header, chain, view, failures>>
    BY DEF TopKOptimizeAt, node
  <1>2. todo' \in Seq(Candidate) /\ todo' # <<>>
    <2>1. route \in 1 .. Routes  BY <1>1 DEF TypeOK
    <2>2. PICK n \in 1 .. TopK[route] : todo' \in [1 .. n -> Candidate]
      BY <1>1 DEF Shortlists
    <2>3. n \in Nat /\ n # 0  BY <2>1
    <2>4. todo' \in Seq(Candidate) /\ Len(todo') = n  BY <2>2, <2>3
    <2>5. Len(<<>>) = 0  OBVIOUS
    <2> QED  BY <2>3, <2>4, <2>5
  <1>3. TypeOK'  BY <1>1, <1>2 DEF TypeOK, Steps
  <1>4. /\ Between' /\ JudgedUnmarked' /\ NothingDoubtful' /\ TransientNeverDecides' /\ Known'
        /\ FormalSelection'
    BY <1>1 DEF Between, JudgedUnmarked, Unmarked, NothingDoubtful, TransientNeverDecides, Known,
       Judging, FormalSelection, Observing
  <1>5. Placed'
    <2>1. \A b : OnHeader(b)' <=> OnHeader(b)  BY <1>1 DEF OnHeader
    <2> QED  BY <1>1, <2>1 DEF Placed, Judging
  <1> QED  BY <1>3, <1>4, <1>5

\* A step of DecideLocally keeps the invariant.
LEMMA DecideLocallyInd == IInv /\ DecideLocally => IInv'
  <1> SUFFICES ASSUME IInv, DecideLocally PROVE IInv'
    OBVIOUS
  <1> USE DEF IInv
  <1>1. pc = "candidate" /\ pc \in Judging /\ unsupported' \in BOOLEAN
    BY DEF DecideLocally, TypeOK, Judging
  <1>2. sim \in Sims /\ ~sim.doubtful /\ OnHeader(sim.on)
    BY DEF TypeOK, Sims, NothingDoubtful, Placed
  <1>3. CASE Failure  BY <1>1, <1>3, FailureInd
  <1>4. ASSUME NEW d \in Decisions \ {"simulation_accepted"}, NEW n \in Int, Decide(d, n, sim)
        PROVE  IInv'
    BY <1>1, <1>2, <1>4, DecideInd
  <1>5. Head(todo).gross \in Int
    <2>1. todo \in Seq(Candidate) /\ todo # <<>>  BY <1>1 DEF TypeOK
    <2>2. Head(todo) \in Candidate  BY <2>1
    <2> QED  BY <2>2 DEF Candidate
  <1>6. {"local_rejected", "local_candidate", "local_unprofitable", "local_profitable_observed"}
          \subseteq Decisions \ {"simulation_accepted"}
    BY DEF Decisions
  <1>7. /\ 0 \in Int /\ Head(todo).gross - Cost \in Int
        /\ "local_rejected" \in Decisions \ {"simulation_accepted"}
        /\ "local_candidate" \in Decisions \ {"simulation_accepted"}
        /\ "local_unprofitable" \in Decisions \ {"simulation_accepted"}
        /\ (IF Head(todo).gross - Cost <= 0 THEN "local_unprofitable"
            ELSE "local_profitable_observed") \in Decisions \ {"simulation_accepted"}
    BY <1>5, <1>6
  <1>8. \/ Failure
        \/ Decide("local_rejected", 0, sim) \/ Decide("local_unprofitable", 0, sim)
        \/ Decide("local_candidate", 0, sim)
        \/ Decide(IF Head(todo).gross - Cost <= 0 THEN "local_unprofitable"
                  ELSE "local_profitable_observed", Head(todo).gross - Cost, sim)
    BY DEF DecideLocally
  <1> HIDE DEF IInv
  <1> QED  BY <1>3, <1>4, <1>7, <1>8

\* A step of ReadHeader keeps the invariant.
LEMMA ReadHeaderInd == IInv /\ ReadHeader => IInv'
  <1> SUFFICES ASSUME IInv, ReadHeader PROVE IInv'
    OBVIOUS
  <1>1. pc = "candidate" /\ pc \in Judging /\ unsupported' \in BOOLEAN /\ mode # "local_only"
    BY DEF ReadHeader, IInv, TypeOK, Judging
  <1>2. CASE Failure  BY <1>1, <1>2, FailureInd
  <1>3. CASE Proceed(Simulated(sim), "call")
    BY <1>1, <1>3, SimulatedHere, ProceedInd
  <1> QED  BY <1>2, <1>3 DEF ReadHeader

\* A step of CallContract keeps the invariant.
LEMMA CallContractInd == IInv /\ CallContract => IInv'
  <1> SUFFICES ASSUME IInv, CallContract PROVE IInv'
    OBVIOUS
  <1>1. pc = "call" /\ pc \in Judging /\ unsupported' \in BOOLEAN /\ mode # "local_only"
    BY DEF CallContract, IInv, TypeOK, Judging, Known
  <1> DEFINE h(a) == Heard(Simulated(sim), a)
  <1>2. PICK a \in Answers :
          \/ isOk(a) /\ \E p \in Profit : Proceed([h(a) EXCEPT !.profit = p], "gas")
          \/ (isRevert(a) \/ a = Poor) /\ Decide("simulation_rejected", 0, h(a))
          \/ Failure
    BY DEF CallContract
  <1>3. CASE Failure  BY <1>1, <1>3, FailureInd
  <1>4. ASSUME ~Doubtful(a)
        PROVE  h(a) \in Sims /\ ~h(a).doubtful /\ OnHeader(h(a).on)
    BY <1>1, <1>4, SimulatedHere, HeardClearly
  <1>5. isOk(a) \/ isRevert(a) \/ a = Poor => ~Doubtful(a)
    BY DEF Doubtful, isOk, isRevert, Poor
  <1> HIDE DEF h
  <1>6. ASSUME isOk(a), NEW p \in Profit, Proceed([h(a) EXCEPT !.profit = p], "gas")
        PROVE  IInv'
    <2>1. h(a) \in Sims /\ ~h(a).doubtful /\ OnHeader(h(a).on)  BY <1>4, <1>5, <1>6
    <2>2. /\ [h(a) EXCEPT !.profit = p] \in Sims
          /\ ~[h(a) EXCEPT !.profit = p].doubtful /\ OnHeader([h(a) EXCEPT !.profit = p].on)
      BY <2>1, WithProfit
    <2> QED  BY <1>1, <1>6, <2>2, ProceedInd
  <1>7. CASE (isRevert(a) \/ a = Poor) /\ Decide("simulation_rejected", 0, h(a))
    <2>1. h(a) \in Sims /\ ~h(a).doubtful /\ OnHeader(h(a).on)  BY <1>4, <1>5, <1>7
    <2>2. "simulation_rejected" \in Decisions /\ 0 \in Int  BY DEF Decisions
    <2> QED  BY <1>1, <1>7, <2>1, <2>2, DecideInd
  <1> QED  BY <1>2, <1>3, <1>6, <1>7

\* A step of EstimateGasAt keeps the invariant.
LEMMA EstimateGasAtInd == IInv /\ EstimateGasAt => IInv'
  <1> SUFFICES ASSUME IInv, EstimateGasAt PROVE IInv'
    OBVIOUS
  <1>1. pc = "gas" /\ pc \in Judging /\ mode # "local_only" /\ unsupported \in BOOLEAN
    BY DEF EstimateGasAt, IInv, TypeOK, Judging, Known
  <1> DEFINE h(a) == Heard(Simulated(sim), a)
  <1>2. PICK a \in Answers :
          \/ a = Good /\ Proceed([h(a) EXCEPT !.cost = "complete"], "l1") /\ UNCHANGED unsupported
          \/ isUnsupported(a) /\ unsupported' = TRUE /\ Proceed(Heard(sim, a), "latest")
          \/ Failure /\ UNCHANGED unsupported
    BY DEF EstimateGasAt
  <1>3. unsupported' \in BOOLEAN  BY <1>1, <1>2
  <1>4. a = Good \/ isUnsupported(a) => ~Doubtful(a)
    BY DEF Doubtful, isOk, isUnsupported, Good
  <1>5. ASSUME ~Doubtful(a)
        PROVE  /\ h(a) \in Sims /\ ~h(a).doubtful /\ OnHeader(h(a).on)
               /\ Heard(sim, a) \in Sims /\ ~Heard(sim, a).doubtful /\ OnHeader(Heard(sim, a).on)
    BY <1>1, <1>5, SimulatedHere, HeardClearly
  <1> HIDE DEF h
  <1>6. CASE a = Good /\ Proceed([h(a) EXCEPT !.cost = "complete"], "l1")
    <2>1. h(a) \in Sims /\ ~h(a).doubtful /\ OnHeader(h(a).on)  BY <1>4, <1>5, <1>6
    <2>2. /\ [h(a) EXCEPT !.cost = "complete"] \in Sims
          /\ ~[h(a) EXCEPT !.cost = "complete"].doubtful /\ OnHeader([h(a) EXCEPT !.cost = "complete"].on)
      BY <2>1, WithCost
    <2> QED  BY <1>1, <1>3, <1>6, <2>2, ProceedInd
  <1>7. CASE isUnsupported(a) /\ Proceed(Heard(sim, a), "latest")
    <2>1. Heard(sim, a) \in Sims /\ ~Heard(sim, a).doubtful /\ OnHeader(Heard(sim, a).on)
      BY <1>4, <1>5, <1>7
    <2> QED  BY <1>1, <1>3, <1>7, <2>1, ProceedInd
  <1>8. CASE Failure  BY <1>3, <1>8, FailureInd
  <1> QED  BY <1>2, <1>6, <1>7, <1>8

\* A step of EstimateGas keeps the invariant.
LEMMA EstimateGasInd == IInv /\ EstimateGas => IInv'
  <1> SUFFICES ASSUME IInv, EstimateGas PROVE IInv'
    OBVIOUS
  <1>1. pc \in {"gas", "latest"} /\ pc \in Judging /\ mode # "local_only" /\ unsupported' \in BOOLEAN
    BY DEF EstimateGas, IInv, TypeOK, Judging, Known
  <1>2. PICK a \in Answers :
          \/ ~isInfra(a) /\ \E c \in {"latest", "max"} :
               Proceed([[sim EXCEPT !.doubtful = @ \/ isInfra(a)] EXCEPT !.cost = c], "l1")
          \/ Failure
    <2>1. \A a \in Answers : isOk(a) => ~isInfra(a)
      BY DEF Answers, Failing, Good, Poor, isOk, isInfra
    <2> QED  BY <2>1 DEF EstimateGas
  <1>3. CASE Failure  BY <1>1, <1>3, FailureInd
  <1>4. ASSUME ~isInfra(a), NEW c \in {"latest", "max"},
               Proceed([[sim EXCEPT !.doubtful = @ \/ isInfra(a)] EXCEPT !.cost = c], "l1")
        PROVE  IInv'
    <2> DEFINE s == [sim EXCEPT !.doubtful = @ \/ isInfra(a)]
    <2>1. sim \in Sims /\ ~sim.doubtful /\ OnHeader(sim.on)  BY <1>1, SimulatedHere
    <2>2. s \in Sims /\ ~s.doubtful /\ s.on = sim.on
      <3>1. isInfra(a) \in BOOLEAN  BY DEF isInfra
      <3> QED  BY <1>4, <2>1, <3>1 DEF Sims
    <2> HIDE DEF s
    <2>3. [s EXCEPT !.cost = c] \in Sims /\ ~[s EXCEPT !.cost = c].doubtful /\ OnHeader([s EXCEPT !.cost = c].on)
      <3>1. c \in {"none", "complete", "latest", "max"}  BY <1>4
      <3>2. OnHeader(s.on)  BY <2>1, <2>2
      <3>3. /\ [s EXCEPT !.cost = c] \in Sims /\ [s EXCEPT !.cost = c].on = s.on
            /\ [s EXCEPT !.cost = c].doubtful = s.doubtful
        BY <2>2, <3>1, WithCost
      <3> QED  BY <2>2, <3>2, <3>3
    <2>4. Proceed([s EXCEPT !.cost = c], "l1")  BY <1>4 DEF s
    <2> QED  BY <1>1, <2>3, <2>4, ProceedInd
  <1> QED  BY <1>2, <1>3, <1>4

\* The verdict on a simulation accepts a complete cost and enough profit only.
LEMMA JudgeInd ==
  ASSUME IInv, pc \in Judging, unsupported' \in BOOLEAN,
         NEW s \in Sims, ~s.doubtful, OnHeader(s.on), Judge(s)
  PROVE  IInv'
  <1> DEFINE net == s.profit - Cost
             d == IF s.cost # "complete" THEN "simulation_valid_cost_approx"
                  ELSE IF net < MinProfit THEN "simulation_rejected" ELSE "simulation_accepted"
  <1>1. net \in Int  BY DEF Sims
  <1>2. d \in Decisions /\ (d = "simulation_accepted" => s.cost = "complete" /\ net >= MinProfit)
    BY <1>1 DEF Decisions
  <1>3. Decide(d, net, s)  BY DEF Judge
  <1> HIDE DEF net, d
  <1> QED  BY <1>1, <1>2, <1>3, DecideInd

\* A step of L1Component keeps the invariant.
LEMMA L1ComponentInd == IInv /\ L1Component => IInv'
  <1> SUFFICES ASSUME IInv, L1Component PROVE IInv'
    OBVIOUS
  <1>1. pc = "l1" /\ pc \in Judging /\ mode # "local_only" /\ unsupported' \in BOOLEAN
    BY DEF L1Component, IInv, TypeOK, Judging, Known
  <1> DEFINE h(a) == Heard(Simulated(sim), a)
  <1>2. PICK a \in Answers :
          \/ (a = Good \/ a = Poor) /\ Judge(h(a))
          \/ isUnsupported(a) /\ Judge([h(a) EXCEPT !.cost = IF @ = "complete" THEN "latest" ELSE @])
          \/ Failure
    BY DEF L1Component
  <1>3. CASE Failure  BY <1>1, <1>3, FailureInd
  <1>4. a = Good \/ a = Poor \/ isUnsupported(a) => ~Doubtful(a)
    BY DEF Doubtful, isOk, isUnsupported, Good, Poor
  <1>5. ASSUME ~Doubtful(a)
        PROVE  h(a) \in Sims /\ ~h(a).doubtful /\ OnHeader(h(a).on)
    BY <1>1, <1>5, SimulatedHere, HeardClearly
  <1> HIDE DEF h
  <1>6. CASE (a = Good \/ a = Poor) /\ Judge(h(a))
    BY <1>1, <1>4, <1>5, <1>6, JudgeInd
  <1>7. CASE isUnsupported(a) /\ Judge([h(a) EXCEPT !.cost = IF @ = "complete" THEN "latest" ELSE @])
    <2> DEFINE c == IF h(a).cost = "complete" THEN "latest" ELSE h(a).cost
    <2>1. h(a) \in Sims /\ ~h(a).doubtful /\ OnHeader(h(a).on)  BY <1>4, <1>5, <1>7
    <2>2. c \in {"none", "complete", "latest", "max"}  BY <2>1 DEF Sims
    <2>3. Judge([h(a) EXCEPT !.cost = c])  BY <1>7
    <2> HIDE DEF c
    <2>4. [h(a) EXCEPT !.cost = c] \in Sims /\ ~[h(a) EXCEPT !.cost = c].doubtful
          /\ OnHeader([h(a) EXCEPT !.cost = c].on)
      BY <2>1, <2>2, WithCost
    <2> QED  BY <1>1, <2>3, <2>4, JudgeInd
  <1> QED  BY <1>2, <1>3, <1>6, <1>7

\* The beginning of an attempt, its commit and stutters keep the invariant.
LEMMA BeginCommitInd == IInv /\ (Begin \/ Commit \/ UNCHANGED vars) => IInv'
  <1> SUFFICES ASSUME IInv, Begin \/ Commit \/ UNCHANGED vars PROVE IInv'
    OBVIOUS
  <1> USE DEF IInv
  <1>1. /\ UNCHANGED <<mode, block, route, todo, sim, judged, results, unsupported, header, chain, view,
                       failures>>
        /\ \/ pc = "idle" /\ pc' = "snapshot"
           \/ pc = "commit" /\ pc' = "done"
           \/ pc' = pc
    <2> HIDE DEF IInv
    <2>1. CASE Begin  BY <2>1 DEF Begin, node
    <2>2. CASE Commit  BY <2>2 DEF Commit, node
    <2>3. CASE UNCHANGED vars  BY <2>3 DEF vars, node
    <2> QED  BY <2>1, <2>2, <2>3
  <1>2. TypeOK'  BY <1>1 DEF TypeOK, Steps
  <1>3. /\ Between' /\ JudgedUnmarked' /\ NothingDoubtful' /\ TransientNeverDecides' /\ Known'
        /\ FormalSelection'
    BY <1>1 DEF Between, JudgedUnmarked, Unmarked, NothingDoubtful, TransientNeverDecides, Known,
       Judging, FormalSelection, Observing
  <1>4. Placed'
    <2>1. \A b : OnHeader(b)' <=> OnHeader(b)  BY <1>1 DEF OnHeader
    <2> QED  BY <1>1, <2>1 DEF Placed, Judging
  <1> QED  BY <1>2, <1>3, <1>4

\* A step of NextBlock keeps the invariant.
LEMMA NextBlockInd == IInv /\ NextBlock => IInv'
  <1> SUFFICES ASSUME IInv, NextBlock PROVE IInv'
    OBVIOUS
  <1> USE DEF IInv
  <1>1. /\ pc = "done" /\ block' = block + 1 /\ pc' = "idle" /\ route' = 1 /\ results' = <<>>
        /\ header' = NoBlock /\ chain' = 0 /\ view' = [read |-> 0, sim |-> 0]
        /\ UNCHANGED <<mode, todo, sim, judged, unsupported, failures>>
    BY DEF NextBlock
  <1>2. \A S : <<>> \in Seq(S)  BY EmptyIsSeq
  <1>3. todo = <<>> /\ judged = <<>> /\ sim = Fresh  BY <1>1 DEF Between, Judging
  <1>4. DOMAIN judged' = {} /\ DOMAIN results' = {}  BY <1>1, <1>3, EmptyIsSeq
  <1>5. ~Fresh.doubtful /\ Fresh.on = {}  BY DEF Fresh
  <1>6. view' \in [{"read", "sim"} -> 0 .. MaxReplaced] /\ view'["read"] = 0 /\ view'["sim"] = 0
    BY <1>1
  <1>7. TypeOK'  BY <1>1, <1>2, <1>6 DEF TypeOK, Steps, NoBlock
  <1>8. /\ Between' /\ JudgedUnmarked' /\ NothingDoubtful' /\ TransientNeverDecides' /\ Known'
        /\ FormalSelection' /\ Placed'
    BY <1>1, <1>3, <1>4, <1>5, <1>6 DEF Between, JudgedUnmarked, NothingDoubtful, TransientNeverDecides,
       Known, Judging, FormalSelection, Placed, OnHeader, NoBlock
  <1> QED  BY <1>7, <1>8

\* A step of Crash keeps the invariant.
LEMMA CrashInd == IInv /\ Crash => IInv'
  <1> SUFFICES ASSUME IInv, Crash PROVE IInv'
    OBVIOUS
  <1> USE DEF IInv
  <1>1. /\ failures' = failures + 1 /\ unsupported' = FALSE /\ header' = NoBlock
        /\ pc' = "idle" /\ route' = 1
        /\ todo' = <<>> /\ judged' = <<>> /\ results' = <<>> /\ sim' = Fresh
        /\ UNCHANGED <<mode, block, chain, view>>
    BY DEF Crash, node
  <1>2. (\A S : <<>> \in Seq(S)) /\ DOMAIN judged' = {} /\ DOMAIN results' = {}
    BY <1>1, EmptyIsSeq
  <1>3. Fresh \in Sims /\ ~Fresh.doubtful /\ Fresh.on = {}  BY DEF Fresh, Sims
  <1>4. TypeOK'
    <2>1. header' \in -1 .. MaxReplaced /\ failures' \in Nat /\ route' \in 1 .. Routes + 1 /\ route' <= Routes
      BY <1>1 DEF NoBlock, TypeOK
    <2>2. pc' \in Steps /\ pc' \notin {"candidate", "call", "gas", "latest", "l1"}
      BY <1>1 DEF Steps
    <2> QED  BY <1>1, <1>2, <1>3, <2>1, <2>2 DEF TypeOK, Sims
  <1>5. /\ Between' /\ JudgedUnmarked' /\ NothingDoubtful' /\ TransientNeverDecides'
        /\ FormalSelection'
    BY <1>1, <1>2, <1>3 DEF Between, JudgedUnmarked, NothingDoubtful, TransientNeverDecides,
       FormalSelection
  <1>6. chain' \in Nat /\ view["read"] <= chain /\ view["sim"] <= chain
    BY <1>1 DEF TypeOK, Known
  <1>7. Known' /\ Placed'
    BY <1>1, <1>2, <1>3, <1>6 DEF Known, Judging, Placed, OnHeader, NoBlock
  <1> QED  BY <1>4, <1>5, <1>7

\* A replaced block's header is never the chain's again, and the sim node does
\* not leave the chain's block while it is.
LEMMA ChainInd ==
  IInv /\ (ChainReplaces \/ \E n \in {"read", "sim"} : NodeFollows(n)) => IInv'
  <1> SUFFICES ASSUME IInv, ChainReplaces \/ \E n \in {"read", "sim"} : NodeFollows(n) PROVE IInv'
    OBVIOUS
  <1> USE DEF IInv
  <1>1. UNCHANGED <<mode, pc, block, route, todo, sim, judged, results, unsupported, header, failures>>
    BY DEF ChainReplaces, NodeFollows
  <1>2. /\ chain \in 0 .. MaxReplaced /\ view \in [{"read", "sim"} -> 0 .. MaxReplaced]
        /\ header \in -1 .. MaxReplaced /\ view["read"] <= chain /\ view["sim"] <= chain /\ header <= chain
    BY DEF TypeOK, Known
  <1>3. /\ chain' \in chain .. MaxReplaced /\ view' \in [{"read", "sim"} -> 0 .. MaxReplaced]
        /\ view'["read"] <= chain' /\ view'["sim"] <= chain'
        /\ header = chain' => header = chain /\ (view["sim"] = chain => view'["sim"] = chain')
    <2>1. CASE ChainReplaces
      BY <1>2, <2>1 DEF ChainReplaces
    <2>2. CASE \E n \in {"read", "sim"} : NodeFollows(n)
      <3>1. PICK n \in {"read", "sim"} : NodeFollows(n)  BY <2>2
      <3>2. PICK v \in view[n] + 1 .. chain : view' = [view EXCEPT ![n] = v]
        BY <3>1 DEF NodeFollows
      <3>3. chain' = chain  BY <3>1 DEF NodeFollows
      <3>4. v \in 0 .. MaxReplaced /\ v <= chain /\ view[n] < v  BY <1>2, <3>2
      <3> QED  BY <1>2, <3>2, <3>3, <3>4
    <2> QED  BY <2>1, <2>2
  <1>4. TypeOK'
    <2>1. chain' \in 0 .. MaxReplaced  BY <1>2, <1>3
    <2> QED  BY <1>1, <1>3, <2>1 DEF TypeOK
  <1>5. /\ Between' /\ JudgedUnmarked' /\ NothingDoubtful' /\ TransientNeverDecides' /\ FormalSelection'
    BY <1>1 DEF Between, JudgedUnmarked, Unmarked, NothingDoubtful, TransientNeverDecides,
       FormalSelection, Observing
  <1>6. Known'
    <2>1. header <= chain'  BY <1>2, <1>3
    <2> QED  BY <1>1, <1>3, <2>1 DEF Known
  <1>7. Placed'
    <2>1. \A b : OnHeader(b) => OnHeader(b)'
      BY <1>1, <1>3 DEF OnHeader
    <2> QED  BY <1>1, <1>3, <2>1 DEF Placed
  <1> QED  BY <1>4, <1>5, <1>6, <1>7

\* The invariant holds in the beginning.
LEMMA InitIInv == Init => IInv
  <1> SUFFICES ASSUME Init PROVE IInv
    OBVIOUS
  <1>1. (\A S : <<>> \in Seq(S)) /\ DOMAIN judged = {} /\ DOMAIN results = {}
    BY EmptyIsSeq DEF Init
  <1>2. Fresh \in Sims /\ ~Fresh.doubtful /\ Fresh.on = {}  BY DEF Fresh, Sims
  <1>3. view \in [{"read", "sim"} -> 0 .. MaxReplaced] /\ view["read"] = 0 /\ view["sim"] = 0
    BY DEF Init
  <1>4. TypeOK
    <2>1. header \in -1 .. MaxReplaced /\ failures \in Nat /\ route \in 1 .. Routes + 1 /\ route <= Routes
      BY DEF Init, NoBlock
    <2>2. pc \in Steps /\ pc \notin {"candidate", "call", "gas", "latest", "l1"}
      BY DEF Init, Steps
    <2> QED  BY <1>1, <1>2, <1>3, <2>1, <2>2 DEF Init, TypeOK, Sims
  <1>5. /\ Between /\ JudgedUnmarked /\ NothingDoubtful /\ TransientNeverDecides /\ Known
        /\ FormalSelection /\ Placed
    BY <1>1, <1>2, <1>3 DEF Init, Between, JudgedUnmarked, NothingDoubtful, TransientNeverDecides,
       Known, Judging, FormalSelection, Placed, OnHeader, NoBlock
  <1> QED  BY <1>4, <1>5 DEF IInv

\* Every step keeps the invariant.
LEMMA StepIInv == IInv /\ [Next]_vars => IInv'
  BY SnapshotRouteInd, VerifyBlockHashInd, TopKOptimizeAtInd, DecideLocallyInd, ReadHeaderInd,
     CallContractInd, EstimateGasAtInd, EstimateGasInd, L1ComponentInd, BeginCommitInd, NextBlockInd,
     CrashInd, ChainInd DEF Next, Process

\* The inductive invariant holds of every run of the evaluation.
THEOREM EvaluationInvariant == Spec => []IInv
  BY InitIInv, StepIInv, PTL DEF Spec

-----------------------------------------------------------------------------
\* Type correctness of the engine's loop and of the simulation of a candidate.
THEOREM EvaluationTyped == Spec => []TypeOK
  <1>1. IInv => TypeOK  BY DEF IInv
  <1> QED  BY <1>1, EvaluationInvariant, PTL

\* At most one candidate of a route is selected for sending, only in
\* historical_strict, with a complete cost, enough profit, and none better.
THEOREM SelectionIsFormal == Spec => []FormalSelection
  <1>1. IInv => FormalSelection  BY DEF IInv
  <1> QED  BY <1>1, EvaluationInvariant, PTL

\* A block that is still the chain's when it is committed was simulated on the
\* block its local quotes were made on, in every interleaving with the nodes.
THEOREM SimulationFollowsQuotes == Spec => []SimulatedWhereQuoted
  <1>1. IInv => SimulatedWhereQuoted
    BY DEF IInv, Placed, OnHeader, SimulatedWhereQuoted
  <1> QED  BY <1>1, EvaluationInvariant, PTL

\* No decision rests on a failure that a retry may cure.
THEOREM DecisionsAreClear == Spec => []TransientNeverDecides
  <1>1. IInv => TransientNeverDecides  BY DEF IInv
  <1> QED  BY <1>1, EvaluationInvariant, PTL

-----------------------------------------------------------------------------
(* What a block is committed with.                                         *)

\* One group for every route passed so far.
GroupPerRoute ==
  /\ Len(results) = route - 1
  /\ pc \in {"commit", "done"} => route = Routes + 1

\* Every step keeps the groups and the routes together: a group is concluded
\* when its route is left, and a failure throws all of them away.
LEMMA GroupStep == IInv /\ GroupPerRoute /\ [Next]_vars => GroupPerRoute'
  <1> SUFFICES ASSUME IInv, GroupPerRoute, [Next]_vars PROVE GroupPerRoute'
    OBVIOUS
  <1> USE DEF GroupPerRoute
  <1>1. results \in Seq(Seq(Verdict)) /\ route \in Nat /\ Routes \in Nat
        /\ route <= Routes + 1 /\ (pc \notin {"commit", "done"} => route <= Routes)
    BY DEF IInv, TypeOK
  <1>2. ASSUME NEW g, Conclude(g), pc \notin {"commit", "done"} PROVE GroupPerRoute'
    <2>1. results' = Append(results, Marked(g)) /\ route' = route + 1
          /\ pc' = IF route = Routes THEN "commit" ELSE "snapshot"
      BY <1>2 DEF Conclude
    <2>2. Len(results') = Len(results) + 1
      BY <1>1, <2>1
    <2> QED  BY <1>1, <1>2, <2>1, <2>2
  <1>3. ASSUME NEW d, NEW n, NEW s, Decide(d, n, s), pc \notin {"commit", "done"}
        PROVE  GroupPerRoute'
    <2>1. CASE Len(todo) = 1
      BY <1>2, <1>3, <2>1 DEF Decide
    <2>2. CASE Len(todo) # 1
      BY <1>3, <2>2 DEF Decide
    <2> QED  BY <2>1, <2>2
  <1>4. Abort => GroupPerRoute'
    BY DEF Abort
  <1>5. Failure => GroupPerRoute'
    BY <1>4 DEF Failure
  <1>6. ASSUME NEW s, NEW to, Proceed(s, to), to \notin {"commit", "done"} PROVE GroupPerRoute'
    BY <1>6 DEF Proceed
  <1>7. CASE Begin \/ TopKOptimizeAt \/ Commit
    BY <1>7 DEF Begin, TopKOptimizeAt, Commit
  <1>8. CASE SnapshotRoute
    <2>1. CASE Failure
      BY <1>5, <2>1
    <2>2. ASSUME NEW g, Conclude(g) PROVE GroupPerRoute'
      BY <1>2, <1>8, <2>2 DEF SnapshotRoute
    <2>3. CASE UNCHANGED <<route, results>> /\ pc' \in {"search", "verify"}
      BY <2>3
    <2> QED  BY <1>8, <2>1, <2>2, <2>3 DEF SnapshotRoute
  <1>9. CASE VerifyBlockHash
    BY <1>4, <1>5, <1>6, <1>9 DEF VerifyBlockHash
  <1>10. CASE DecideLocally \/ ReadHeader
    BY <1>3, <1>5, <1>6, <1>10 DEF DecideLocally, ReadHeader
  <1>11. CASE CallContract
    BY <1>3, <1>5, <1>6, <1>11 DEF CallContract
  <1>12. CASE EstimateGasAt \/ EstimateGas
    <2>1. \A s : Proceed(s, "l1") \/ Proceed(s, "latest") => GroupPerRoute'
      BY <1>6
    <2> HIDE DEF GroupPerRoute
    <2>2. CASE EstimateGasAt
      BY <1>5, <2>1, <2>2 DEF EstimateGasAt
    <2>3. CASE EstimateGas
      BY <1>5, <2>1, <2>3 DEF EstimateGas
    <2> QED  BY <1>12, <2>2, <2>3
  <1>13. CASE L1Component
    BY <1>3, <1>5, <1>13 DEF L1Component, Judge
  <1>14. CASE NextBlock \/ Crash
    BY <1>14 DEF NextBlock, Crash
  <1>15. CASE ChainReplaces \/ (\E n \in {"read", "sim"} : NodeFollows(n)) \/ UNCHANGED vars
    BY <1>15 DEF ChainReplaces, NodeFollows, vars
  <1> QED
    BY <1>7, <1>8, <1>9, <1>10, <1>11, <1>12, <1>13, <1>14, <1>15 DEF Next, Process

\* A block is committed with one group of verdicts for every route, whichever
\* attempts failed before and wherever the process was restarted: no route is
\* left out and none is counted twice (ProcessBlockAt returns all or an error).
THEOREM EveryRouteDecided ==
  Spec => [](pc \in {"commit", "done"} => Len(results) = Routes)
  <1>1. Init => GroupPerRoute
    BY DEF Init, GroupPerRoute
  <1>2. IInv /\ GroupPerRoute => (pc \in {"commit", "done"} => Len(results) = Routes)
    BY DEF IInv, TypeOK, GroupPerRoute
  <1> QED  BY <1>1, <1>2, GroupStep, EvaluationInvariant, PTL DEF Spec

-----------------------------------------------------------------------------
(* How an attempt ends.                                                    *)

Attempt == Steps \ {"idle", "done"}

\* What is left of an attempt: routes, then the way to their candidates, then
\* the calls for them.
RoutesLeft == (Routes + 1) - route

Phase ==
  CASE pc = "snapshot" -> 3
    [] pc = "verify"   -> 2
    [] pc = "search"   -> 1
    [] OTHER           -> 0

CallsLeft ==
  5 * Len(todo) + CASE pc = "candidate" -> 4
                    [] pc = "call"      -> 3
                    [] pc = "gas"       -> 2
                    [] pc = "latest"    -> 1
                    [] OTHER            -> 0

Closer ==
  \/ RoutesLeft' < RoutesLeft
  \/ RoutesLeft' = RoutesLeft /\ Phase' < Phase
  \/ RoutesLeft' = RoutesLeft /\ Phase' = Phase /\ CallsLeft' < CallsLeft

Onward  == Closer /\ pc' # "idle"
Refused == pc = "verify" /\ ~Agree /\ Abort

\* A group that is concluded leaves a route less.
LEMMA ConcludeOnward ==
  ASSUME IInv, NEW g, Conclude(g) PROVE Onward
  <1>1. route \in Nat /\ Routes \in Nat /\ route' = route + 1 /\ pc' # "idle"
    BY DEF Conclude, IInv, TypeOK
  <1> QED  BY <1>1 DEF Onward, Closer, RoutesLeft

\* A verdict leaves a candidate less, or none.
LEMMA DecideOnward ==
  ASSUME IInv, pc \in Judging, NEW d, NEW n, NEW s, Decide(d, n, s) PROVE Onward
  <1>1. CASE Len(todo) = 1
    BY <1>1, ConcludeOnward DEF Decide
  <1>2. CASE Len(todo) # 1
    <2>1. /\ todo' = Tail(todo) /\ route' = route /\ pc' = "candidate"
          /\ todo \in Seq(Candidate) /\ todo # <<>> /\ route \in Nat /\ Routes \in Nat
      BY <1>2 DEF Decide, IInv, TypeOK, Judging
    <2>2. Len(todo) \in Nat /\ Len(todo') = Len(todo) - 1
      BY <2>1
    <2>3. RoutesLeft' = RoutesLeft /\ RoutesLeft \in Int
      BY <2>1 DEF RoutesLeft
    <2>4. Phase' = Phase
      BY <2>1 DEF Phase, Judging
    <2>5. CallsLeft' < CallsLeft
      BY <2>1, <2>2 DEF CallsLeft
    <2> QED  BY <2>1, <2>3, <2>4, <2>5 DEF Onward, Closer
  <1> QED  BY <1>1, <1>2

\* A call that succeeded leaves a call less.
LEMMA ProceedOnward ==
  ASSUME IInv, NEW s, NEW to, Proceed(s, to),
         \/ pc = "verify" /\ to = "search"
         \/ pc = "candidate" /\ to = "call"
         \/ pc = "call" /\ to = "gas"
         \/ pc = "gas" /\ to \in {"latest", "l1"}
         \/ pc = "latest" /\ to = "l1"
  PROVE  Onward
  <1>1. pc' = to /\ UNCHANGED <<route, todo>> /\ route \in Nat /\ Routes \in Nat /\ Len(todo) \in Nat
    BY DEF Proceed, IInv, TypeOK
  <1>2. RoutesLeft' = RoutesLeft /\ RoutesLeft \in Int
    BY <1>1 DEF RoutesLeft
  <1>3. CASE pc = "verify"
    BY <1>1, <1>2, <1>3 DEF Onward, Closer, Phase
  <1>4. CASE pc # "verify"
    <2>1. Phase' = Phase /\ CallsLeft' < CallsLeft /\ pc' # "idle"
      BY <1>1, <1>4 DEF Phase, CallsLeft
    <2> QED  BY <1>2, <2>1 DEF Onward, Closer
  <1> QED  BY <1>3, <1>4

\* A step within an attempt ends it, by a failure, a crash, a refusal or its
\* commit, or brings its end nearer; the chain and the nodes leave it alone.
LEMMA AttemptStep ==
  ASSUME IInv, Next, pc \in Attempt
  PROVE  \/ Failure \/ Crash \/ Refused \/ pc' = "done" \/ Onward
         \/ UNCHANGED <<pc, route, todo>>
  <1>1. CASE SnapshotRoute
    <2>1. CASE UNCHANGED <<route, todo>> /\ pc' \in {"search", "verify"}
      <3>1. pc = "snapshot" /\ route \in Nat /\ Routes \in Nat
        BY <1>1 DEF SnapshotRoute, IInv, TypeOK
      <3> QED  BY <2>1, <3>1 DEF Onward, Closer, RoutesLeft, Phase
    <2> QED  BY <1>1, <2>1, ConcludeOnward DEF SnapshotRoute
  <1>2. CASE VerifyBlockHash
    BY <1>2, ProceedOnward DEF VerifyBlockHash, Refused
  <1>3. CASE TopKOptimizeAt
    <2>1. pc = "search" /\ pc' = "candidate" /\ route' = route /\ route \in Nat /\ Routes \in Nat
      BY <1>3 DEF TopKOptimizeAt, IInv, TypeOK
    <2> QED  BY <2>1 DEF Onward, Closer, RoutesLeft, Phase
  <1>4. CASE DecideLocally
    <2>1. pc \in Judging
      BY <1>4 DEF DecideLocally, Judging
    <2> QED  BY <1>4, <2>1, DecideOnward DEF DecideLocally
  <1>5. CASE ReadHeader
    BY <1>5, ProceedOnward DEF ReadHeader
  <1>6. CASE CallContract
    <2>1. pc = "call" /\ pc \in Judging
      BY <1>6 DEF CallContract, Judging
    <2> QED  BY <1>6, <2>1, DecideOnward, ProceedOnward DEF CallContract
  <1>7. CASE EstimateGasAt
    <2>1. pc = "gas"
      BY <1>7 DEF EstimateGasAt
    <2>2. \A s : Proceed(s, "l1") \/ Proceed(s, "latest") => Onward
      BY <2>1, ProceedOnward
    <2> QED  BY <1>7, <2>2 DEF EstimateGasAt
  <1>8. CASE EstimateGas
    <2>1. pc \in {"gas", "latest"}
      BY <1>8 DEF EstimateGas
    <2>2. \A s : Proceed(s, "l1") => Onward
      BY <2>1, ProceedOnward
    <2> QED  BY <1>8, <2>2 DEF EstimateGas
  <1>9. CASE L1Component
    <2>1. pc = "l1" /\ pc \in Judging
      BY <1>9 DEF L1Component, Judging
    <2>2. \A s : Judge(s) => Onward
      BY <2>1, DecideOnward DEF Judge
    <2> QED  BY <1>9, <2>2 DEF L1Component
  <1>10. CASE Begin \/ NextBlock
    BY <1>10 DEF Begin, NextBlock, Attempt
  <1>11. CASE Commit
    BY <1>11 DEF Commit
  <1>12. CASE ChainReplaces \/ \E n \in {"read", "sim"} : NodeFollows(n)
    BY <1>12 DEF ChainReplaces, NodeFollows
  <1> QED
    BY <1>1, <1>2, <1>3, <1>4, <1>5, <1>6, <1>7, <1>8, <1>9, <1>10, <1>11, <1>12 DEF Next, Process

\* An attempt at a block takes finitely many calls, whatever they answer, however
\* many candidates a route has and however the chain and the nodes move under it:
\* each call brings its end nearer, by route, candidate and call.
THEOREM AttemptsEnd ==
  Spec => /\ [](RoutesLeft \in Nat /\ Phase \in Nat /\ CallsLeft \in Nat)
          /\ [][{pc, pc'} \subseteq Attempt => Closer \/ UNCHANGED <<pc, route, todo>>]_vars
  <1>1. IInv => RoutesLeft \in Nat /\ Phase \in Nat /\ CallsLeft \in Nat
    <2> SUFFICES ASSUME IInv PROVE RoutesLeft \in Nat /\ Phase \in Nat /\ CallsLeft \in Nat
      OBVIOUS
    <2>1. route \in 1 .. Routes + 1 /\ Routes \in Nat /\ Len(todo) \in Nat
      BY DEF IInv, TypeOK
    <2> QED  BY <2>1 DEF RoutesLeft, Phase, CallsLeft
  <1>2. ASSUME IInv, Next, pc \in Attempt, pc' \in Attempt
        PROVE  Closer \/ UNCHANGED <<pc, route, todo>>
    BY <1>2, AttemptStep DEF Failure, Crash, Refused, Abort, Onward, Attempt
  <1>3. IInv /\ [Next]_vars =>
          [{pc, pc'} \subseteq Attempt => Closer \/ UNCHANGED <<pc, route, todo>>]_vars
    BY <1>2
  <1> QED  BY <1>1, <1>3, EvaluationInvariant, PTL DEF Spec

\* As long as the block is not replaced, an attempt at it is given up for a call
\* that failed or a crash only: the two nodes' blocks are never found to differ,
\* whichever header the searcher keeps from earlier attempts (engine.go:323).
\* The safety half of DecidesWhenSteady.
THEOREM SteadyAttemptsFailByCallsOnly ==
  Spec => [][chain = 0 /\ pc \in Attempt /\ pc' = "idle" => failures' = failures + 1]_vars
  <1>1. ASSUME IInv, Next, chain = 0, pc \in Attempt, pc' = "idle"
        PROVE  failures' = failures + 1
    <2>1. ~Refused
      <3> SUFFICES ASSUME pc = "verify" PROVE Agree
        BY DEF Refused
      <3>1. /\ header \in -1 .. MaxReplaced /\ header # NoBlock /\ header <= chain
            /\ view["sim"] \in 0 .. MaxReplaced /\ view["sim"] <= chain
        BY <1>1 DEF IInv, TypeOK, Known
      <3> QED  BY <1>1, <3>1 DEF Agree, NoBlock
    <2> QED
      BY <1>1, <2>1, AttemptStep DEF Failure, Crash, Onward, Attempt
  <1>2. IInv /\ [Next]_vars =>
          [chain = 0 /\ pc \in Attempt /\ pc' = "idle" => failures' = failures + 1]_vars
    BY <1>1
  <1> QED  BY <1>2, EvaluationInvariant, PTL DEF Spec

\* A complete cost is one under way to its verdict, with the latch open.
Costed == sim.cost = "complete" => pc = "l1" /\ ~unsupported

\* Once a node has been taken for one without historical estimates, no candidate
\* gets a complete cost until the process is restarted, not even one that was
\* under way: with SelectionIsFormal, none of them is selected for sending
\* (executor_sim.go, histUnsupported).
THEOREM LatchWithholdsCompleteCosts == Spec => [](unsupported => sim.cost # "complete")
  <1>1. Init => Costed
    BY DEF Init, Costed, Fresh
  <1>2. ASSUME IInv, Costed, [Next]_vars PROVE Costed'
    <2>1. Fresh.cost # "complete"
      BY DEF Fresh
    <2>2. ASSUME NEW g, Conclude(g) PROVE Costed'
      BY <2>1, <2>2 DEF Conclude, Costed
    <2>3. ASSUME NEW d, NEW n, NEW s, Decide(d, n, s) PROVE Costed'
      BY <2>1, <2>2, <2>3 DEF Decide, Costed
    <2>4. Abort => Costed'
      BY <2>1 DEF Abort, Costed
    <2>5. Failure => Costed'
      BY <2>4 DEF Failure
    <2>6. ASSUME NEW s, NEW to, Proceed(s, to), s.cost = sim.cost, pc # "l1" PROVE Costed'
      BY <1>2, <2>6 DEF Proceed, Costed
    <2>7. sim \in Sims
      BY <1>2 DEF IInv, TypeOK, Sims
    <2>8. CASE SnapshotRoute
      <3>1. CASE UNCHANGED <<sim, unsupported>>
        BY <1>2, <2>8, <3>1 DEF SnapshotRoute, Costed
      <3> QED  BY <2>2, <2>5, <2>8, <3>1 DEF SnapshotRoute
    <2>9. CASE VerifyBlockHash
      BY <2>4, <2>5, <2>6, <2>9 DEF VerifyBlockHash
    <2>10. CASE DecideLocally \/ ReadHeader
      <3>1. Simulated(sim).cost = sim.cost
        BY <2>7 DEF Simulated, Sims
      <3> QED  BY <2>3, <2>5, <2>6, <2>10, <3>1 DEF DecideLocally, ReadHeader
    <2>11. CASE CallContract
      <3>1. \A a, p : [Heard(Simulated(sim), a) EXCEPT !.profit = p].cost = sim.cost
        BY <2>7 DEF Heard, Simulated, Sims
      <3> QED  BY <2>3, <2>5, <2>6, <2>11, <3>1 DEF CallContract
    <2>12. CASE EstimateGasAt
      <3>1. \A a : Heard(sim, a).cost = sim.cost
        BY <2>7 DEF Heard, Sims
      <3>2. pc = "gas" /\ ~unsupported
        BY <2>12 DEF EstimateGasAt
      <3>3. ASSUME NEW s, Proceed(s, "l1"), UNCHANGED unsupported PROVE Costed'
        BY <3>2, <3>3 DEF Proceed, Costed
      <3> QED  BY <2>5, <2>6, <2>12, <3>1, <3>2, <3>3 DEF EstimateGasAt
    <2>13. CASE EstimateGas
      <3>1. \A a : \A c \in {"latest", "max"} :
              [[sim EXCEPT !.doubtful = @ \/ isInfra(a)] EXCEPT !.cost = c].cost = c
        BY <2>7 DEF Sims
      <3> QED  BY <2>5, <2>13, <3>1 DEF EstimateGas, Proceed, Costed
    <2>14. CASE L1Component
      BY <2>3, <2>5, <2>14 DEF L1Component, Judge
    <2>15. CASE Crash
      BY <2>1, <2>15 DEF Crash, Costed
    <2>16. CASE Begin \/ TopKOptimizeAt \/ Commit \/ NextBlock \/ ChainReplaces
                \/ (\E n \in {"read", "sim"} : NodeFollows(n)) \/ UNCHANGED vars
      BY <1>2, <2>1, <2>16 DEF Begin, TopKOptimizeAt, Commit, NextBlock, ChainReplaces, NodeFollows,
         vars, Costed
    <2> QED
      BY <1>2, <2>8, <2>9, <2>10, <2>11, <2>12, <2>13, <2>14, <2>15, <2>16 DEF Next, Process
  <1>3. Costed => (unsupported => sim.cost # "complete")
    BY DEF Costed
  <1> QED  BY <1>1, <1>2, <1>3, EvaluationInvariant, PTL DEF Spec
=============================================================================
