---------------------------- MODULE InputSearch ----------------------------
(***************************************************************************)
(* The searcher's choice of input amounts for one route on one snapshot    *)
(* (internal/arbitrage/candidate.go): the largest amount the route can     *)
(* quote is bisected, the interval up to it is sampled on a coarse grid,   *)
(* the neighbourhood of the best sample is narrowed by thirds, and amounts *)
(* around the outcome become the candidates.  The bounds that TopKOptimizeAt *)
(* computes a second time are those of the first: the snapshot is the same. *)
(***************************************************************************)
EXTENDS Integers, FiniteSets

CONSTANTS
  Limit,       \* amounts are 1 .. Limit
  Landscapes,  \* what the route earns per amount, as far as it can be quoted
  Quotables,   \* sets of amounts that can be quoted
  MinInputs, MaxInputs, TopK,  \* settings of arbitrage.min_input_wei (always
               \* positive), max_input_wei (0: none) and simulation_top_k explored
  Balances,    \* WETH of the executor (-1: not read)
  GridSlack,   \* how far rounding may take the grid past the largest input
  Rounds       \* rounds of the search by thirds

Amount == 1 .. Limit

ASSUME SearchAssumption ==
  /\ Limit \in Nat \ {0} /\ Rounds \in Nat
  /\ Landscapes \subseteq [Amount -> Int]
  /\ Quotables \subseteq SUBSET Amount
  /\ MinInputs \subseteq Amount /\ MaxInputs \subseteq Nat /\ Balances \subseteq Int
  /\ TopK \subseteq Nat \ {0} /\ GridSlack \in Nat

VARIABLES
  profit, quotable, depth,       \* the snapshot: earnings per amount, amounts that
                                 \* can be quoted, 5% of the first pool's reserve
  lo, maxInput, balance, topK,   \* the settings
  pc,
  low, high,          \* interval of the search that runs
  hi,                 \* largest input: of the route at first, then of the search
  best, found,        \* best amount so far; the best of the grid
  round,
  samples             \* input amounts of the candidates

settings == <<profit, quotable, depth, lo, maxInput, balance, topK>>
vars == <<settings, pc, low, high, hi, best, found, round, samples>>

-----------------------------------------------------------------------------
\* profitOf: an amount that cannot be quoted counts as no profit.
ProfitOf(x) == IF x \in quotable THEN profit[x] ELSE 0

Least(x, y)    == IF x <= y THEN x ELSE y
Greatest(x, y) == IF x >= y THEN x ELSE y

\* clampAmount
Clamp(x) == IF x < lo THEN lo ELSE IF x > hi THEN hi ELSE x

\* The search ends without an amount to optimise; only a route without profit
\* keeps one, the smallest.
Reject(amounts) ==
  /\ pc' = "rejected" /\ samples' = amounts
  /\ UNCHANGED <<settings, low, high, hi, best, found, round>>

\* routeMaxInput: 5% of the first pool's depth, if the route can quote it.
FirstHopBound ==
  /\ pc = "bound"
  /\ \/ depth = 0 /\ Reject({})
     \/ /\ depth \in quotable
        /\ pc' = "clip" /\ hi' = depth
        /\ UNCHANGED <<settings, low, high, best, found, round, samples>>
     \/ /\ depth # 0 /\ depth \notin quotable
        /\ pc' = "bisect" /\ low' = lo /\ high' = depth /\ hi' = 0
        /\ UNCHANGED <<settings, best, found, round, samples>>

Mid == (low + high) \div 2

\* Mutant: whatever was tried last counts.
Bisect_Last ==
  /\ pc = "bisect" /\ low <= high
  /\ hi' = Mid
  /\ \/ Mid \in quotable /\ low' = Mid + 1 /\ UNCHANGED high
     \/ Mid \notin quotable /\ high' = Mid - 1 /\ UNCHANGED low
  /\ UNCHANGED <<settings, pc, best, found, round, samples>>

\* ... or the largest amount below it that can be quoted.
Bisect ==
  /\ pc = "bisect" /\ low <= high
  /\ \/ Mid \in quotable /\ hi' = Mid /\ low' = Mid + 1 /\ UNCHANGED high
     \/ Mid \notin quotable /\ high' = Mid - 1 /\ UNCHANGED <<low, hi>>
  /\ UNCHANGED <<settings, pc, best, found, round, samples>>

BisectEnds ==
  /\ pc = "bisect" /\ low > high
  /\ pc' = "clip"
  /\ UNCHANGED <<settings, low, high, hi, best, found, round, samples>>

\* The limits of the configuration and of the contract's balance.
Funded ==
  LET m == IF maxInput > 0 THEN Least(hi, maxInput) ELSE hi IN
  IF balance >= 0 THEN Least(m, balance) ELSE m

\* computeBounds: no capacity, no funds, or less than the smallest input.
ComputeBounds ==
  /\ pc = "clip"
  /\ \/ (hi = 0 \/ Funded < lo) /\ Reject({})
     \/ /\ hi # 0 /\ Funded >= lo
        /\ pc' = "grid" /\ hi' = Funded
        /\ UNCHANGED <<settings, low, high, best, found, round, samples>>

\* OptimizeAt, the geometric grid from lo to hi: it holds lo, and the others are
\* lo times a power of the float64 ratio hi / lo, so which they are depends on
\* rounding, and the last one, which nothing clamps, may lie somewhat above hi
\* (never twice as far).  The first of its best amounts is kept.
GridEnd == hi + Least(GridSlack, hi)

SearchGrid ==
  /\ pc = "grid"
  /\ \/ ProfitOf(lo) <= 0 /\ Reject({lo})
     \/ \E x \in lo .. GridEnd :
          /\ ProfitOf(x) > 0 /\ (x # lo => ProfitOf(x) > ProfitOf(lo))
          /\ pc' = "thirds" /\ best' = x /\ found' = x /\ round' = 0
          /\ low' = x \div 2 /\ high' = Least(2 * x, hi)
          /\ UNCHANGED <<settings, hi, samples>>

m1 == low + (high - low) \div 3
m2 == low + (2 * (high - low)) \div 3

\* ... and one round of the search by thirds around it.
Better(x) == IF ProfitOf(x) > ProfitOf(best) THEN x ELSE best

\* Mutant: the interval ends at the better third, not behind it.
SearchThirds_Tight ==
  /\ pc = "thirds" /\ round < Rounds
  /\ round' = round + 1
  /\ \/ ProfitOf(m1) >= ProfitOf(m2) /\ high' = m1 /\ best' = Better(m1) /\ UNCHANGED low
     \/ ProfitOf(m1) < ProfitOf(m2) /\ low' = m1 /\ best' = Better(m2) /\ UNCHANGED high
  /\ UNCHANGED <<settings, pc, hi, found, samples>>

SearchThirds ==
  /\ pc = "thirds" /\ round < Rounds
  /\ round' = round + 1
  /\ \/ ProfitOf(m1) >= ProfitOf(m2) /\ high' = m2 /\ best' = Better(m1) /\ UNCHANGED low
     \/ ProfitOf(m1) < ProfitOf(m2) /\ low' = m1 /\ best' = Better(m2) /\ UNCHANGED high
  /\ UNCHANGED <<settings, pc, hi, found, samples>>

\* TopKOptimizeAt: k amounts a quarter of the best apart, brought into the
\* bounds; equal ones are one candidate.
Offset_Above(i) == Greatest(1, best \div 4) * (i + 1)   \* mutant: only larger amounts
Offset(i) == Greatest(1, best \div 4) * (i - (topK - 1) \div 2)

TopKOptimizeAt ==
  /\ pc = "thirds" /\ round = Rounds
  /\ pc' = "candidates"
  /\ samples' = {Clamp(Greatest(1, best + Offset(i))) : i \in 0 .. topK - 1}
  /\ UNCHANGED <<settings, low, high, hi, best, found, round>>

Init ==
  /\ profit \in Landscapes /\ quotable \in Quotables
  /\ depth \in 0 .. Limit
  /\ lo \in MinInputs /\ maxInput \in MaxInputs /\ balance \in Balances /\ topK \in TopK
  /\ pc = "bound" /\ low = 0 /\ high = 0 /\ hi = 0 /\ best = 0 /\ found = 0 /\ round = 0
  /\ samples = {}

Next ==
  \/ FirstHopBound \/ Bisect \/ BisectEnds \/ ComputeBounds
  \/ SearchGrid \/ SearchThirds \/ TopKOptimizeAt

Spec == Init /\ [][Next]_vars

-----------------------------------------------------------------------------
(* Properties.                                                             *)

\* The interval and the amounts stay within the amounts there are.
TypeOK ==
  /\ profit \in [Amount -> Int] /\ quotable \in SUBSET Amount
  /\ depth \in 0 .. Limit /\ lo \in Amount /\ maxInput \in Nat /\ balance \in Int
  /\ topK \in Nat \ {0}
  /\ pc \in {"bound", "bisect", "clip", "grid", "thirds", "candidates", "rejected"}
  /\ low \in 0 .. Limit + 1 /\ high \in 0 .. Limit /\ hi \in 0 .. Limit
  /\ best \in 0 .. Limit /\ found \in 0 .. Limit
  /\ round \in 0 .. Rounds /\ samples \subseteq Amount

\* A route that can quote exactly the amounts up to some largest one, lo among
\* them, as a pool within one range of ticks does.
Quotable(x)   == x \in quotable
UpTo(largest) == lo <= largest /\ \A x \in Amount : x >= lo => (Quotable(x) <=> x <= largest)

\* The bound on the input that bisection returns can be quoted by every hop of
\* the route, and on such a route no larger amount below the depth can
\* (candidate.go:483): capital is neither refused nor sent where it has no price.
LargestInputFound ==
  pc = "clip" =>
    /\ hi # 0 => Quotable(hi)
    /\ \A largest \in Amount : UpTo(largest) /\ lo <= depth => hi = Least(largest, depth)

\* Up to amount last, profit rises to one amount and falls behind it.
Peaked(top, last) ==
  \A x, y \in 1 .. last : x < y =>
    /\ y <= top => ProfitOf(x) < ProfitOf(y)
    /\ top <= x => ProfitOf(x) > ProfitOf(y)

\* The search by thirds never cuts off the optimum it started around: with one
\* peak, the peak stays in the interval or is the amount right above it
\* (integer division).
PeakEnclosed ==
  pc = "thirds" =>
    \A top \in Amount :
      Peaked(top, hi) /\ found \div 2 <= top /\ top <= Least(2 * found, hi) =>
        low <= top /\ top <= high + 1

\* The candidates stay within the bounds, also where the grid's best amount does
\* not, and on a route with one peak one of them earns at least what the grid had
\* found: narrowing, spreading and clamping lose nothing, also where the peak
\* lies below the smallest input.  Where the grid's best is an amount above the
\* largest input that no better one replaces, the largest input is a candidate.
NothingLost ==
  pc = "candidates" =>
    /\ samples \subseteq lo .. hi
    /\ (\E top \in Amount : Peaked(top, Greatest(hi, found))) =>
         \E x \in samples : ProfitOf(x) >= ProfitOf(found) \/ (x = hi /\ hi < found)
=============================================================================
