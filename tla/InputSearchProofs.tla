------------------------- MODULE InputSearchProofs -------------------------
(***************************************************************************)
(* Proofs about the search for input amounts: what bisection returns, that *)
(* the search by thirds keeps the peak, and that the candidates lose       *)
(* nothing, for every landscape, setting and number of rounds.             *)
(***************************************************************************)
EXTENDS InputSearch, TLAPS

\* The thirds of an interval lie in it, and apart unless it has two amounts.
LEMMA ThirdsOf ==
  ASSUME NEW l \in Nat, NEW h \in Nat, l <= h
  PROVE  LET d == h - l  a == l + d \div 3  b == l + (2 * d) \div 3 IN
         /\ a \in Int /\ b \in Int /\ l <= a /\ a <= b /\ b <= h
         /\ d >= 2 => a < b
         /\ d <= 1 => a = l /\ b = l
  OBVIOUS

\* The middle of an interval lies in it.
LEMMA MidOf ==
  ASSUME NEW l \in Nat, NEW h \in Nat, l <= h
  PROVE  (l + h) \div 2 \in Nat /\ l <= (l + h) \div 2 /\ (l + h) \div 2 <= h
  OBVIOUS

\* What a route earns is a number.
LEMMA ProfitIsInt ==
  ASSUME TypeOK, NEW x \in Int
  PROVE  ProfitOf(x) \in Int /\ (ProfitOf(x) > 0 => x \in Amount)
  <1>1. CASE x \in quotable
    <2>1. x \in Amount  BY <1>1 DEF TypeOK
    <2> QED  BY <1>1, <2>1 DEF TypeOK, ProfitOf
  <1>2. CASE x \notin quotable  BY <1>2 DEF ProfitOf
  <1> QED  BY <1>1, <1>2

-----------------------------------------------------------------------------
(* The inductive invariant.                                                *)

\* Bisection keeps the largest amount between the bounds, and the amount it
\* found last is right below the lower one.
Bisecting ==
  pc = "bisect" =>
    /\ lo <= low /\ depth \notin quotable
    /\ high <= depth
    /\ lo <= depth => low <= high + 1
    /\ lo > depth => low > high /\ hi = 0
    /\ hi # 0 => Quotable(hi)
    /\ hi = low - 1 \/ (hi = 0 /\ low = lo)
    /\ \A largest \in Amount : UpTo(largest) /\ lo <= depth =>
         low - 1 <= largest /\ largest <= high /\ largest < depth

InBounds == pc \in {"grid", "thirds", "candidates"} => lo <= hi

\* The best amount so far is the grid's or lies within the bounds, is no worse
\* than the grid's, and an interval that starts at 0 belongs to amount 1.
Narrowing ==
  pc \in {"thirds", "candidates"} =>
    /\ found \in lo .. GridEnd /\ best \in 1 .. Limit
    /\ best <= hi \/ best = found
    /\ ProfitOf(found) > 0 /\ ProfitOf(best) >= ProfitOf(found)
    /\ low <= high /\ high <= hi
    /\ low = 0 => found = 1

\* A peak right behind the interval only with an interval of one amount.
Enclosed ==
  pc = "thirds" =>
    \A top \in Amount :
      Peaked(top, hi) /\ found \div 2 <= top /\ top <= Least(2 * found, hi) =>
        low <= top /\ (top <= high \/ (low = high /\ top = high + 1))

IInv ==
  /\ TypeOK /\ Bisecting /\ InBounds /\ LargestInputFound /\ Narrowing /\ Enclosed
  /\ NothingLost

-----------------------------------------------------------------------------
\* The invariant holds in the beginning.
LEMMA InitIInv == Init => IInv
  <1> SUFFICES ASSUME Init PROVE IInv
    OBVIOUS
  <1>1. TypeOK  BY SearchAssumption DEF Init, TypeOK, Amount
  <1> QED  BY <1>1 DEF Init, IInv, Bisecting, InBounds, LargestInputFound, Narrowing, Enclosed, NothingLost

\* Steps that touch none of the numbers or leave the phase an invariant is about.
LEMMA FirstHopBoundInd == IInv /\ FirstHopBound => IInv'
  <1> SUFFICES ASSUME IInv, FirstHopBound PROVE IInv'
    OBVIOUS
  <1> USE SearchAssumption DEF IInv, TypeOK, settings, Reject, Amount
  <1>1. TypeOK'
    <2>1. CASE Reject({})  BY <2>1
    <2>2. CASE pc' = "clip" /\ hi' = depth /\ UNCHANGED <<settings, low, high, best, found, round, samples>>
      BY <2>2
    <2>3. CASE /\ pc' = "bisect" /\ low' = lo /\ high' = depth /\ hi' = 0
               /\ UNCHANGED <<settings, best, found, round, samples>>
      BY <2>3
    <2> QED  BY <2>1, <2>2, <2>3 DEF FirstHopBound
  <1>2. LargestInputFound'
    <2>1. CASE depth = 0 /\ Reject({})  BY <2>1 DEF LargestInputFound
    <2>2. CASE depth \in quotable /\ pc' = "clip" /\ hi' = depth /\ UNCHANGED settings
      <3>1. SUFFICES ASSUME NEW largest \in Amount, UpTo(largest)', lo <= depth
                     PROVE  hi' = Least(largest, depth)
        BY <2>2 DEF LargestInputFound, Quotable
      <3>2. depth <= largest  BY <2>2, <3>1 DEF UpTo, Quotable
      <3> QED  BY <2>2, <3>2 DEF Least
    <2>3. CASE pc' = "bisect"  BY <2>3 DEF LargestInputFound
    <2> QED  BY <2>1, <2>2, <2>3 DEF FirstHopBound
  <1>3. Bisecting'
    <2>1. SUFFICES ASSUME pc' = "bisect" PROVE Bisecting'
      BY DEF Bisecting
    <2>2. /\ depth # 0 /\ depth \notin quotable
          /\ low' = lo /\ high' = depth /\ hi' = 0 /\ UNCHANGED settings
      BY <2>1 DEF FirstHopBound
    <2>3. \A largest \in Amount : UpTo(largest)' /\ lo <= depth => lo <= largest /\ largest < depth
      BY <2>2 DEF UpTo, Quotable
    <2> QED  BY <2>2, <2>3 DEF Bisecting, Quotable
  <1>4. pc' \in {"rejected", "clip", "bisect"}  BY DEF FirstHopBound
  <1> QED  BY <1>1, <1>2, <1>3, <1>4 DEF InBounds, Narrowing, Enclosed, NothingLost

\* A step of Bisect keeps the invariant.
LEMMA BisectInd == IInv /\ Bisect => IInv'
  <1> SUFFICES ASSUME IInv, Bisect PROVE IInv'
    OBVIOUS
  <1> USE SearchAssumption DEF IInv, TypeOK, settings, Amount
  <1>1. Mid \in Nat /\ low <= Mid /\ Mid <= high  BY MidOf DEF Bisect, Mid
  <1>2. pc = "bisect" /\ pc' = "bisect" /\ UNCHANGED settings  BY DEF Bisect
  <1>3. lo <= Mid /\ Mid \in Amount  BY <1>1, <1>2 DEF Bisecting
  <1>4. TypeOK'
    <2>1. CASE hi' = Mid /\ low' = Mid + 1 /\ UNCHANGED high
      BY <1>1, <1>2, <1>3, <2>1 DEF Bisect
    <2>2. CASE high' = Mid - 1 /\ UNCHANGED <<low, hi>>
      BY <1>1, <1>2, <1>3, <2>2 DEF Bisect
    <2> QED  BY <2>1, <2>2 DEF Bisect
  <1>5. Bisecting'
    <2>1. \A largest \in Amount : UpTo(largest)' <=> UpTo(largest)
      BY <1>2 DEF UpTo, Quotable
    <2>2. CASE Mid \in quotable /\ hi' = Mid /\ low' = Mid + 1 /\ UNCHANGED high
      <3>1. \A largest \in Amount : UpTo(largest) => Mid <= largest
        BY <1>3, <2>2 DEF UpTo, Quotable
      <3>2. lo <= depth  BY <1>1, <1>2, <1>3 DEF Bisecting
      <3> QED  BY <1>1, <1>2, <1>3, <2>1, <2>2, <3>1, <3>2 DEF Bisecting, Quotable
    <2>3. CASE Mid \notin quotable /\ high' = Mid - 1 /\ UNCHANGED <<low, hi>>
      <3>1. \A largest \in Amount : UpTo(largest) => largest < Mid
        BY <1>3, <2>3 DEF UpTo, Quotable
      <3>2. lo <= depth  BY <1>1, <1>2, <1>3 DEF Bisecting
      <3> QED  BY <1>1, <1>2, <1>3, <2>1, <2>3, <3>1, <3>2 DEF Bisecting, Quotable
    <2> QED  BY <2>2, <2>3 DEF Bisect
  <1> QED  BY <1>2, <1>4, <1>5 DEF InBounds, LargestInputFound, Narrowing, Enclosed, NothingLost

\* A step of BisectEnds keeps the invariant.
LEMMA BisectEndsInd == IInv /\ BisectEnds => IInv'
  <1> SUFFICES ASSUME IInv, BisectEnds PROVE IInv'
    OBVIOUS
  <1> USE SearchAssumption DEF IInv, TypeOK, settings, Amount
  <1>1. /\ pc = "bisect" /\ low > high /\ pc' = "clip"
        /\ UNCHANGED <<settings, low, high, hi, best, found, round, samples>>
    BY DEF BisectEnds
  <1>2. \A largest \in Amount : UpTo(largest)' <=> UpTo(largest)
    BY <1>1 DEF UpTo, Quotable
  <1>3. ASSUME NEW largest \in Amount, UpTo(largest), lo <= depth
        PROVE  hi = Least(largest, depth)
    <2>1. low - 1 <= largest /\ largest <= high /\ largest < depth /\ lo <= largest
      BY <1>1, <1>3 DEF Bisecting, UpTo
    <2>2. largest = low - 1  BY <1>1, <2>1
    <2>3. hi = low - 1  BY <1>1, <2>1, <2>2 DEF Bisecting
    <2> QED  BY <2>1, <2>2, <2>3 DEF Least
  <1>4. LargestInputFound'  BY <1>1, <1>2, <1>3 DEF LargestInputFound, Bisecting, Quotable
  <1> QED  BY <1>1, <1>4 DEF Bisecting, InBounds, Narrowing, Enclosed, NothingLost

\* A step of ComputeBounds keeps the invariant.
LEMMA ComputeBoundsInd == IInv /\ ComputeBounds => IInv'
  <1> SUFFICES ASSUME IInv, ComputeBounds PROVE IInv'
    OBVIOUS
  <1> USE SearchAssumption DEF IInv, TypeOK, settings, Amount
  <1>1. Funded \in Int /\ Funded <= hi
    BY DEF Funded, Least
  <1>2. pc' \in {"rejected", "grid"}  BY DEF ComputeBounds, Reject
  <1>3. TypeOK' /\ InBounds'
    <2>1. CASE Reject({})  BY <2>1 DEF InBounds, Reject
    <2>2. CASE /\ hi # 0 /\ Funded >= lo /\ pc' = "grid" /\ hi' = Funded
               /\ UNCHANGED <<settings, low, high, best, found, round, samples>>
      <3>1. Funded \in 0 .. Limit  BY <1>1, <2>2
      <3> HIDE DEF Amount
      <3>2. TypeOK'  BY <2>2, <3>1
      <3> QED  BY <2>2, <3>2 DEF InBounds
    <2> QED  BY <2>1, <2>2 DEF ComputeBounds
  <1> QED  BY <1>2, <1>3 DEF Bisecting, LargestInputFound, Narrowing, Enclosed, NothingLost

\* A step of SearchGrid keeps the invariant.
LEMMA SearchGridInd == IInv /\ SearchGrid => IInv'
  <1> SUFFICES ASSUME IInv, SearchGrid PROVE IInv'
    OBVIOUS
  <1> USE SearchAssumption DEF IInv, TypeOK, settings
  <1>1. CASE Reject({lo})
    BY <1>1 DEF Reject, Bisecting, InBounds, LargestInputFound, Narrowing, Enclosed, NothingLost
  <1>2. ASSUME NEW x \in lo .. GridEnd,
               ProfitOf(x) > 0, pc' = "thirds", best' = x, found' = x, round' = 0,
               low' = x \div 2, high' = Least(2 * x, hi), UNCHANGED <<settings, hi, samples>>
        PROVE  IInv'
    <2>1. lo \in Nat \ {0} /\ hi \in Nat /\ lo <= hi /\ x \in Nat \ {0}
      BY DEF Amount, InBounds, SearchGrid
    <2>2. x \div 2 \in Nat /\ x \div 2 <= x /\ (x \div 2 = 0 => x = 1) /\ x \div 2 <= hi
      <3>1. x <= 2 * hi  BY <2>1 DEF GridEnd, Least
      <3> QED  BY <2>1, <3>1
    <2>3. high' \in Nat /\ x \div 2 <= high' /\ high' <= hi
      BY <1>2, <2>1, <2>2 DEF Least
    <2>4. hi \in 0 .. Limit /\ x \in 1 .. Limit /\ high' \in 0 .. Limit /\ low' \in 0 .. Limit + 1
      <3>1. x \in 1 .. Limit  BY <1>2, <2>1, ProfitIsInt DEF Amount
      <3> QED  BY <1>2, <2>1, <2>2, <2>3, <3>1
    <2>5. TypeOK'  BY <1>2, <2>4
    <2>6. ProfitOf(x)' = ProfitOf(x)  BY <1>2 DEF ProfitOf
    <2>7. Narrowing'
      <3>1. ProfitOf(x) \in Int  BY <2>1, ProfitIsInt
      <3>2. GridEnd' = GridEnd  BY <1>2 DEF GridEnd
      <3> QED  BY <1>2, <2>1, <2>2, <2>3, <2>4, <2>6, <3>1, <3>2 DEF Narrowing, ProfitOf
    <2>8. Enclosed'
      BY <1>2, <2>1, <2>2, <2>3 DEF Enclosed, Amount, Least
    <2> QED  BY <1>2, <2>1, <2>5, <2>7, <2>8 DEF Bisecting, InBounds, LargestInputFound, NothingLost
  <1> QED  BY <1>1, <1>2 DEF SearchGrid

\* What the profits at the thirds say of a peak in the interval.
LEMMA ThirdsKeepPeak ==
  ASSUME IInv, pc = "thirds", NEW top \in Amount, Peaked(top, hi),
         low <= top, top <= high \/ (low = high /\ top = high + 1),
         high - low >= 2
  PROVE  /\ ProfitOf(m1) >= ProfitOf(m2) => top <= m2
         /\ ProfitOf(m1) < ProfitOf(m2) => m1 <= top
  <1> USE DEF IInv
  <1>1. low \in Nat /\ high \in Nat /\ hi \in Nat /\ low <= high /\ high <= hi /\ top \in Nat \ {0}
    BY SearchAssumption DEF TypeOK, Narrowing, Amount
  <1>2. /\ m1 \in Int /\ m2 \in Int /\ low <= m1 /\ m1 < m2 /\ m2 <= high
    BY <1>1, ThirdsOf DEF m1, m2
  <1>3. ProfitOf(m1) \in Int /\ ProfitOf(m2) \in Int
    BY <1>2, ProfitIsInt
  <1>4. ASSUME ProfitOf(m1) >= ProfitOf(m2), top > m2
        PROVE  FALSE
    <2>1. CASE m1 \in 1 .. hi
      <3>1. m2 \in 1 .. hi  BY <1>1, <1>2, <2>1
      <3>2. ProfitOf(m1) < ProfitOf(m2)  BY <1>1, <1>2, <1>4, <2>1, <3>1 DEF Peaked
      <3> QED  BY <1>3, <1>4, <3>2
    <2>2. CASE m1 = 0
      <3>1. low = 0 /\ found = 1 /\ ProfitOf(1) > 0
        BY <1>1, <1>2, <2>2 DEF Narrowing
      <3>2. ProfitOf(m1) = 0  BY <2>2 DEF ProfitOf, TypeOK, Amount
      <3>3. m2 \in 1 .. hi /\ 1 \in 1 .. hi  BY <1>1, <1>2, <2>2
      <3>4. ProfitOf(1) \in Int  BY ProfitIsInt
      <3>5. m2 = 1 \/ ProfitOf(1) < ProfitOf(m2)
        BY <1>1, <1>2, <1>4, <3>3 DEF Peaked
      <3> QED  BY <1>3, <1>4, <3>1, <3>2, <3>4, <3>5
    <2> QED  BY <1>1, <1>2, <2>1, <2>2
  <1>5. ASSUME ProfitOf(m1) < ProfitOf(m2), top < m1
        PROVE  FALSE
    <2>1. m1 \in 1 .. hi /\ m2 \in 1 .. hi  BY <1>1, <1>2, <1>5
    <2>2. ProfitOf(m1) > ProfitOf(m2)  BY <1>1, <1>2, <1>5, <2>1 DEF Peaked
    <2> QED  BY <1>3, <1>5, <2>2
  <1> QED  BY <1>1, <1>2, <1>4, <1>5

\* A step of SearchThirds keeps the invariant.
LEMMA SearchThirdsInd == IInv /\ SearchThirds => IInv'
  <1> SUFFICES ASSUME IInv, SearchThirds PROVE IInv'
    OBVIOUS
  <1> USE SearchAssumption DEF IInv
  <1>1. /\ pc = "thirds" /\ pc' = "thirds" /\ round < Rounds /\ round' = round + 1
        /\ UNCHANGED <<settings, hi, found, samples>>
    BY DEF SearchThirds
  <1>2. low \in Nat /\ high \in Nat /\ hi \in Nat /\ hi <= Limit /\ low <= high /\ high <= hi
    BY <1>1 DEF TypeOK, Narrowing
  <1>3. /\ m1 \in Int /\ m2 \in Int /\ low <= m1 /\ m1 <= m2 /\ m2 <= high
        /\ high - low >= 2 => m1 < m2
        /\ high - low <= 1 => m1 = low /\ m2 = low
    BY <1>2, ThirdsOf DEF m1, m2
  <1>4. \A x : ProfitOf(x)' = ProfitOf(x)
    BY <1>1 DEF ProfitOf, settings
  <1>5. /\ ProfitOf(m1) \in Int /\ ProfitOf(m2) \in Int
        /\ ProfitOf(best) \in Int /\ ProfitOf(found) \in Int
    BY <1>3, ProfitIsInt DEF TypeOK
  <1>6. /\ \/ ProfitOf(m1) >= ProfitOf(m2) /\ high' = m2 /\ low' = low
           \/ ProfitOf(m1) < ProfitOf(m2) /\ low' = m1 /\ high' = high
        /\ low' <= high' /\ high' <= high /\ low <= low'
    BY <1>2, <1>3 DEF SearchThirds
  <1>7. low' \in 0 .. Limit + 1 /\ high' \in 0 .. Limit
    BY <1>2, <1>3, <1>6
  <1>8. best' \in 1 .. Limit /\ (best' <= hi \/ best' = found) /\ ProfitOf(best') >= ProfitOf(found)
    <2>1. ASSUME NEW m \in {m1, m2}
          PROVE  /\ Better(m) \in 1 .. Limit /\ (Better(m) <= hi \/ Better(m) = found)
                 /\ ProfitOf(Better(m)) >= ProfitOf(found)
      <3>1. m \in Int /\ m <= hi /\ ProfitOf(m) \in Int  BY <1>2, <1>3, <1>5
      <3>2. ProfitOf(found) > 0 /\ ProfitOf(best) >= ProfitOf(found) /\ best \in 1 .. Limit
            /\ (best <= hi \/ best = found)
        BY <1>1 DEF Narrowing
      <3>3. ProfitOf(m) > 0 => m \in Amount  BY <3>1, ProfitIsInt
      <3> QED  BY <1>2, <1>5, <3>1, <3>2, <3>3 DEF Better, Amount
    <2>2. best' = Better(m1) \/ best' = Better(m2)  BY DEF SearchThirds
    <2> QED  BY <2>1, <2>2
  <1>9. TypeOK'
    <2>1. best' \in 0 .. Limit /\ round' \in 0 .. Rounds
      BY <1>1, <1>2, <1>8 DEF TypeOK
    <2> QED  BY <1>1, <1>7, <2>1 DEF TypeOK, settings
  <1>10. Narrowing'
    <2>1. low' = 0 => low = 0  BY <1>2, <1>6, <1>7
    <2>2. found \in lo .. GridEnd /\ ProfitOf(found) > 0 /\ (low = 0 => found = 1)
      BY <1>1 DEF Narrowing
    <2>4. GridEnd' = GridEnd  BY <1>1 DEF GridEnd
    <2>3. ProfitOf(best)' = ProfitOf(best') /\ ProfitOf(found)' = ProfitOf(found)
      BY <1>1 DEF ProfitOf, settings
    <2> QED  BY <1>1, <1>2, <1>3, <1>6, <1>8, <2>1, <2>2, <2>3, <2>4 DEF Narrowing, settings
  <1>11. Enclosed'
    <2>1. SUFFICES ASSUME NEW top \in Amount, Peaked(top, hi)',
                          (found \div 2 <= top)', (top <= Least(2 * found, hi))'
                   PROVE  low' <= top /\ (top <= high' \/ (low' = high' /\ top = high' + 1))
      BY DEF Enclosed
    <2>2. Peaked(top, hi)
      <3>1. hi' = hi  BY <1>1
      <3> QED  BY <1>4, <2>1, <3>1 DEF Peaked
    <2>3. low <= top /\ (top <= high \/ (low = high /\ top = high + 1))
      BY <1>1, <2>1, <2>2 DEF Enclosed
    <2>4. top \in Nat  BY DEF Amount
    <2>5. CASE high - low <= 1
      <3>1. ~(ProfitOf(m1) < ProfitOf(m2))  BY <1>3, <1>5, <2>5
      <3>2. high' = low /\ low' = low  BY <1>3, <1>6, <2>5, <3>1
      <3> QED  BY <1>2, <2>3, <2>4, <2>5, <3>2
    <2>6. CASE high - low >= 2
      <3>1. /\ ProfitOf(m1) >= ProfitOf(m2) => top <= m2
            /\ ProfitOf(m1) < ProfitOf(m2) => m1 <= top
        BY <1>1, <2>2, <2>3, <2>6, ThirdsKeepPeak
      <3> QED  BY <1>2, <1>3, <1>6, <2>3, <2>4, <2>6, <3>1
    <2> QED  BY <1>2, <2>5, <2>6
  <1> QED  BY <1>1, <1>9, <1>10, <1>11 DEF Bisecting, InBounds, LargestInputFound, NothingLost, settings

\* Clamping the best amount loses nothing on a route with one peak, unless that
\* amount is the grid's and above the largest input.
LEMMA ClampKeepsBest ==
  ASSUME IInv, pc = "thirds", NEW top \in Amount, Peaked(top, Greatest(hi, found))
  PROVE  ProfitOf(Clamp(best)) >= ProfitOf(found) \/ (Clamp(best) = hi /\ hi < found)
  <1> USE DEF IInv
  <1>1. /\ lo \in Nat \ {0} /\ hi \in Nat /\ lo <= hi
        /\ found \in Nat /\ lo <= found /\ best \in Nat \ {0} /\ (best <= hi \/ best = found)
        /\ ProfitOf(best) >= ProfitOf(found) /\ top \in Nat
    BY SearchAssumption DEF TypeOK, Narrowing, InBounds, Amount
  <1> DEFINE last == Greatest(hi, found)
  <1>5. last \in Nat /\ hi <= last /\ found <= last /\ Peaked(top, last)
    BY <1>1 DEF Greatest
  <1> HIDE DEF last
  <1>2. ProfitOf(lo) \in Int /\ ProfitOf(best) \in Int /\ ProfitOf(found) \in Int
    BY <1>1, ProfitIsInt
  <1>3. CASE best >= lo
    <2>1. CASE best <= hi
      <3>1. Clamp(best) = best  BY <1>1, <1>3, <2>1 DEF Clamp
      <3> QED  BY <1>1, <3>1
    <2>2. CASE best > hi
      <3>1. Clamp(best) = hi  BY <1>1, <1>3, <2>2 DEF Clamp
      <3> QED  BY <1>1, <2>2, <3>1
    <2> QED  BY <1>1, <2>1, <2>2
  <1>4. CASE best < lo
    <2>1. Clamp(best) = lo  BY <1>4 DEF Clamp
    <2>2. CASE top <= lo
      <3>1. lo = found \/ ProfitOf(lo) > ProfitOf(found)
        BY <1>1, <1>5, <2>2 DEF Peaked
      <3> QED  BY <1>2, <2>1, <3>1
    <2>3. CASE lo <= top
      <3>1. ProfitOf(best) < ProfitOf(lo)
        BY <1>1, <1>4, <1>5, <2>3 DEF Peaked
      <3> QED  BY <1>1, <1>2, <2>1, <3>1
    <2> QED  BY <1>1, <2>2, <2>3
  <1> QED  BY <1>1, <1>3, <1>4

\* A step of TopKOptimizeAt keeps the invariant.
LEMMA TopKOptimizeAtInd == IInv /\ TopKOptimizeAt => IInv'
  <1> SUFFICES ASSUME IInv, TopKOptimizeAt PROVE IInv'
    OBVIOUS
  <1> USE SearchAssumption DEF IInv
  <1> DEFINE Moved(i) == Clamp(Greatest(1, best + Offset(i)))
  <1>1. /\ pc = "thirds" /\ pc' = "candidates"
        /\ samples' = {Moved(i) : i \in 0 .. topK - 1}
        /\ UNCHANGED <<settings, low, high, hi, best, found, round>>
    BY DEF TopKOptimizeAt
  <1>2. /\ lo \in Nat \ {0} /\ hi \in Nat /\ lo <= hi /\ hi <= Limit /\ best \in 1 .. Limit
        /\ topK \in Nat \ {0}
    BY <1>1 DEF TypeOK, Narrowing, InBounds, Amount
  <1>3. \A x \in Int : Clamp(x) \in lo .. hi
    BY <1>2 DEF Clamp
  <1>4. ASSUME NEW i \in 0 .. topK - 1 PROVE Moved(i) \in lo .. hi
    <2>1. Offset(i) \in Int  BY <1>2 DEF Offset, Greatest
    <2>2. Greatest(1, best + Offset(i)) \in Int  BY <1>2, <2>1 DEF Greatest
    <2> QED  BY <1>3, <2>2
  <1>5. samples' \subseteq lo .. hi
    BY <1>1, <1>4
  <1>6. TypeOK'
    <2>1. samples' \subseteq Amount  BY <1>2, <1>5 DEF Amount
    <2> QED  BY <1>1, <2>1 DEF TypeOK, settings
  <1>7. Clamp(best) \in samples'
    <2>1. (topK - 1) \div 2 \in 0 .. topK - 1  BY <1>2
    <2>2. Offset((topK - 1) \div 2) = 0  BY <1>2, <2>1 DEF Offset, Greatest
    <2>3. Greatest(1, best + 0) = best  BY <1>2 DEF Greatest
    <2>4. Moved((topK - 1) \div 2) = Clamp(best)  BY <2>2, <2>3
    <2> HIDE DEF Moved
    <2> QED  BY <1>1, <2>1, <2>4
  <1>8. NothingLost'
    <2>1. \A x : ProfitOf(x)' = ProfitOf(x)
      BY <1>1 DEF ProfitOf, settings
    <2>2. ASSUME NEW top \in Amount, Peaked(top, Greatest(hi, found))'
          PROVE  ProfitOf(Clamp(best)) >= ProfitOf(found) \/ (Clamp(best) = hi /\ hi < found)
      <3>1. hi' = hi /\ found' = found  BY <1>1
      <3>2. Peaked(top, Greatest(hi, found))  BY <2>1, <2>2, <3>1 DEF Peaked
      <3> QED  BY <1>1, <3>2, ClampKeepsBest
    <2>3. ProfitOf(Clamp(best))' = ProfitOf(Clamp(best)) /\ ProfitOf(found)' = ProfitOf(found)
      BY <1>1 DEF ProfitOf, Clamp, settings
    <2>4. lo' = lo /\ hi' = hi /\ found' = found  BY <1>1 DEF settings
    <2>5. \A x : (ProfitOf(x) >= ProfitOf(found))' <=> ProfitOf(x) >= ProfitOf(found)
      BY <2>4, <1>1 DEF ProfitOf, settings
    <2> QED  BY <1>5, <1>7, <2>2, <2>4, <2>5 DEF NothingLost
  <1>9. Narrowing'
    BY <1>1 DEF Narrowing, ProfitOf, settings, GridEnd
  <1> QED  BY <1>1, <1>6, <1>8, <1>9 DEF Bisecting, InBounds, LargestInputFound, Enclosed, settings

\* Every step keeps the invariant.
LEMMA StepIInv == IInv /\ [Next]_vars => IInv'
  <1> SUFFICES ASSUME IInv, [Next]_vars PROVE IInv'
    OBVIOUS
  <1>1. CASE UNCHANGED vars
    <2> USE <1>1 DEF vars, settings
    <2>1. TypeOK' /\ InBounds'  BY DEF IInv, TypeOK, InBounds
    <2>2. Bisecting' /\ LargestInputFound'
      BY DEF IInv, Bisecting, LargestInputFound, UpTo, Quotable
    <2>3. Narrowing'  BY DEF IInv, Narrowing, ProfitOf, GridEnd
    <2>4. \A top, last : Peaked(top, last)' <=> Peaked(top, last)  BY DEF Peaked, ProfitOf
    <2>5. Enclosed'  BY <2>4 DEF IInv, Enclosed
    <2>6. NothingLost'  BY DEF IInv, NothingLost, ProfitOf, Peaked
    <2> QED  BY <2>1, <2>2, <2>3, <2>5, <2>6 DEF IInv
  <1> QED  BY <1>1, FirstHopBoundInd, BisectInd, BisectEndsInd, ComputeBoundsInd,
             SearchGridInd, SearchThirdsInd, TopKOptimizeAtInd DEF Next

\* The inductive invariant holds of every run of the search.
THEOREM SearchInvariant == Spec => []IInv
  BY InitIInv, StepIInv, PTL DEF Spec

-----------------------------------------------------------------------------
\* The interval and the amounts of the search (candidate.go) stay within the
\* amounts there are.
THEOREM SearchTyped == Spec => []TypeOK
  <1>1. IInv => TypeOK  BY DEF IInv
  <1> QED  BY <1>1, SearchInvariant, PTL

\* Bisection (routeMaxInput) returns the largest amount that the route can
\* quote, for every route that can quote exactly the amounts up to one.
THEOREM BisectionIsExact == Spec => []LargestInputFound
  <1>1. IInv => LargestInputFound  BY DEF IInv
  <1> QED  BY <1>1, SearchInvariant, PTL

\* The search by thirds (OptimizeAt) keeps a peak it started around, for every
\* landscape with one peak and every number of rounds.
THEOREM ThirdsEnclosePeak == Spec => []PeakEnclosed
  <1>1. IInv => PeakEnclosed
    <2> SUFFICES ASSUME IInv, pc = "thirds", NEW top \in Amount, Peaked(top, hi),
                        found \div 2 <= top, top <= Least(2 * found, hi)
                 PROVE  low <= top /\ top <= high + 1
      BY DEF PeakEnclosed
    <2>1. low <= top /\ (top <= high \/ top = high + 1)  BY DEF IInv, Enclosed
    <2>2. top \in Nat /\ high \in Nat  BY SearchAssumption DEF IInv, TypeOK, Amount
    <2> QED  BY <2>1, <2>2
  <1> QED  BY <1>1, SearchInvariant, PTL

\* Spreading and clamping the candidates (TopKOptimizeAt) loses nothing of what
\* the grid had found, but where rounding took the grid above the largest input.
THEOREM CandidatesLoseNothing == Spec => []NothingLost
  <1>1. IInv => NothingLost  BY DEF IInv
  <1> QED  BY <1>1, SearchInvariant, PTL

-----------------------------------------------------------------------------
(* How far the chosen amount is from the optimum, and at what price.       *)

\* The one peak lies where the search by thirds looks for it.
Around(top) == Peaked(top, Greatest(hi, found)) /\ found \div 2 <= top /\ top <= Least(2 * found, hi)

\* An amount lies in the interval, or right behind an interval of one amount.
Inside(x) == low <= x /\ (x <= high \/ (low = high /\ x = high + 1))

\* The best amount is the grid's, above the largest input, and the interval has
\* not moved away from that input by more than an interval of one amount.
Overshot == best = found /\ hi < found /\ (high = hi \/ (low = high /\ high = hi - 1))

BestInside ==
  pc \in {"thirds", "candidates"} =>
    \A top \in Amount : Around(top) => Inside(top) /\ (Inside(best) \/ Overshot)

\* A round cuts off neither the peak nor the best amount: what is cut off earns
\* less than the third that was evaluated beside it.
LEMMA RoundKeepsBest ==
  ASSUME IInv, SearchThirds, NEW top \in Amount, Peaked(top, Greatest(hi, found)), Inside(top),
         Inside(best) \/ Overshot
  PROVE  Inside(best)' \/ Overshot'
  <1> USE DEF Inside
  <1>1. /\ pc = "thirds" /\ low \in Nat /\ high \in Nat /\ hi \in Nat /\ low <= high /\ high <= hi
        /\ best \in Nat \ {0} /\ found \in Nat /\ (best <= hi \/ best = found) /\ top \in Nat
        /\ hi' = hi /\ found' = found
    BY SearchAssumption DEF IInv, TypeOK, Narrowing, SearchThirds, Amount
  <1>2. /\ m1 \in Int /\ m2 \in Int /\ low <= m1 /\ m1 <= m2 /\ m2 <= high
        /\ high - low >= 2 => m1 < m2
        /\ high - low <= 1 => m1 = low /\ m2 = low
    BY <1>1, ThirdsOf DEF m1, m2
  <1>3. ProfitOf(m1) \in Int /\ ProfitOf(m2) \in Int /\ ProfitOf(best) \in Int
    BY <1>1, <1>2, ProfitIsInt DEF IInv
  <1> DEFINE last == Greatest(hi, found)
  <1>6. last \in Nat /\ hi <= last /\ found <= last /\ best <= last /\ Peaked(top, last)
    BY <1>1 DEF Greatest
  <1> HIDE DEF last
  <1>7. Peaked(top, hi)
    BY <1>1, <1>6 DEF Peaked
  <1>4. CASE ProfitOf(m1) >= ProfitOf(m2) /\ high' = m2 /\ low' = low /\ best' = Better(m1)
    <2>1. CASE best' = m1
      BY <1>1, <1>2, <1>4, <2>1
    <2>2. CASE high - low <= 1 /\ best' = best
      BY <1>1, <1>2, <1>4, <2>2 DEF Overshot
    <2>3. CASE high - low >= 2 /\ best' = best /\ best' # m1
      <3>1. top <= m2
        BY <1>1, <1>4, <1>7, <2>3, ThirdsKeepPeak
      <3>2. ProfitOf(best) >= ProfitOf(m2)
        BY <1>3, <1>4, <2>3 DEF Better
      <3>3. ~(m2 < best)
        BY <1>1, <1>2, <1>3, <1>6, <2>3, <3>1, <3>2 DEF Peaked
      <3> QED  BY <1>1, <1>2, <1>4, <2>3, <3>3 DEF Overshot
    <2>4. best' = m1 \/ best' = best
      BY <1>4 DEF Better
    <2> QED  BY <1>1, <2>1, <2>2, <2>3, <2>4
  <1>5. CASE ProfitOf(m1) < ProfitOf(m2) /\ low' = m1 /\ high' = high /\ best' = Better(m2)
    <2>1. high - low >= 2
      BY <1>1, <1>2, <1>3, <1>5
    <2>2. CASE best' = m2
      BY <1>1, <1>2, <1>5, <2>2
    <2>3. CASE best' = best /\ best' # m2
      <3>1. m1 <= top
        BY <1>1, <1>5, <1>7, <2>1, ThirdsKeepPeak
      <3>2. ProfitOf(best) > ProfitOf(m1)
        BY <1>3, <1>5, <2>3 DEF Better
      <3>3. ~(best < m1)
        BY <1>1, <1>2, <1>3, <1>6, <3>1, <3>2 DEF Peaked
      <3> QED  BY <1>1, <1>2, <1>5, <2>1, <2>3, <3>3 DEF Overshot
    <2>4. best' = m2 \/ best' = best
      BY <1>5 DEF Better
    <2> QED  BY <2>2, <2>3, <2>4
  <1> QED  BY <1>4, <1>5 DEF SearchThirds

\* Such a peak is in the interval, or right behind one of one amount.
LEMMA AroundIsPeak ==
  ASSUME TypeOK', Enclosed', pc' = "thirds", NEW top \in Amount, Around(top)'
  PROVE  Inside(top)'
  <1>1. hi' \in Nat /\ found' \in Nat
    BY SearchAssumption DEF TypeOK
  <1>2. 1 .. hi' \subseteq 1 .. Greatest(hi', found')
    BY <1>1 DEF Greatest
  <1>3. Peaked(top, hi)'
    BY <1>2 DEF Around, Peaked, Greatest
  <1> QED  BY <1>3 DEF Enclosed, Around, Inside

\* Every step keeps both of them inside.
LEMMA InsideStep == IInv /\ IInv' /\ BestInside /\ [Next]_vars => BestInside'
  <1> SUFFICES ASSUME IInv, IInv', BestInside, [Next]_vars PROVE BestInside'
    OBVIOUS
  <1>1. CASE SearchGrid
    <2> SUFFICES ASSUME pc' = "thirds" PROVE BestInside'
      BY <1>1 DEF SearchGrid, Reject, BestInside
    <2>1. PICK x \in lo .. GridEnd :
            best' = x /\ found' = x /\ low' = x \div 2 /\ high' = Least(2 * x, hi) /\ hi' = hi
      BY <1>1 DEF SearchGrid, Reject
    <2>2. x \in Nat /\ hi \in Nat /\ x \div 2 <= x /\ (x <= hi => x <= Least(2 * x, hi))
          /\ (hi < x => Least(2 * x, hi) = hi)
      BY <2>1, SearchAssumption DEF IInv, TypeOK, Amount, Least
    <2>3. (Inside(best) \/ Overshot)'
      BY <2>1, <2>2 DEF Inside, Overshot
    <2>4. \A top \in Amount : Around(top)' => Inside(top)'
      BY AroundIsPeak DEF IInv
    <2> QED  BY <2>3, <2>4 DEF BestInside, Amount
  <1>2. CASE SearchThirds
    <2>1. pc = "thirds" /\ UNCHANGED <<pc, settings, hi, found>>
      BY <1>2 DEF SearchThirds
    <2>2. \A x : ProfitOf(x)' = ProfitOf(x)
      BY <2>1 DEF ProfitOf, settings
    <2>3. \A top : Around(top)' <=> Around(top)
      BY <2>1, <2>2 DEF Around, Peaked
    <2>4. \A top \in Amount : Around(top)' => Inside(top)'
      BY <2>1, AroundIsPeak DEF IInv
    <2>5. ASSUME NEW top \in Amount, Around(top) PROVE (Inside(best) \/ Overshot)'
      <3>1. Inside(top) /\ (Inside(best) \/ Overshot) /\ Peaked(top, Greatest(hi, found))
        BY <2>1, <2>5 DEF BestInside, Around
      <3> QED  BY <1>2, <3>1, RoundKeepsBest
    <2> QED  BY <2>3, <2>4, <2>5 DEF BestInside, Amount
  <1>3. CASE TopKOptimizeAt \/ UNCHANGED vars
    <2>1. UNCHANGED <<settings, low, high, hi, best, found>>
          /\ (pc' \in {"thirds", "candidates"} => pc \in {"thirds", "candidates"})
      BY <1>3 DEF TopKOptimizeAt, vars
    <2>2. \A x : ProfitOf(x)' = ProfitOf(x)
      BY <2>1 DEF ProfitOf, settings
    <2>3. \A top : Around(top)' <=> Around(top)
      BY <2>1, <2>2 DEF Around, Peaked
    <2> QED  BY <2>1, <2>3 DEF BestInside, Inside, Overshot, Amount
  <1>4. CASE FirstHopBound \/ Bisect \/ BisectEnds \/ ComputeBounds
    BY <1>4 DEF FirstHopBound, Bisect, BisectEnds, ComputeBounds, Reject, BestInside
  <1> QED  BY <1>1, <1>2, <1>3, <1>4 DEF Next

\* On a route with one peak, the amount the candidates are spread around is off
\* the peak by no more than the width of the interval that is left, and by what
\* rounding took the grid past the largest input, whatever the grid has hit, as
\* long as the peak is in its neighbourhood (OptimizeAt keeps bestProfit and the
\* interval apart).
THEOREM ChosenNearPeak ==
  Spec => [](pc \in {"thirds", "candidates"} =>
               \A top \in Amount : Around(top) =>
                 /\ top \in low .. high + 1
                 /\ best \in low .. high + 1 + GridSlack)
  <1>1. Init => BestInside
    BY DEF Init, BestInside
  <1>2. IInv /\ BestInside =>
          (pc \in {"thirds", "candidates"} =>
             \A top \in Amount : Around(top) =>
               /\ top \in low .. high + 1
               /\ best \in low .. high + 1 + GridSlack)
    <2> SUFFICES ASSUME IInv, BestInside, pc \in {"thirds", "candidates"},
                        NEW top \in Amount, Around(top)
                 PROVE  top \in low .. high + 1 /\ best \in low .. high + 1 + GridSlack
      OBVIOUS
    <2>1. /\ low \in Nat /\ high \in Nat /\ hi \in Nat /\ best \in Nat /\ found \in Nat /\ top \in Nat
          /\ GridSlack \in Nat /\ low <= high /\ high <= hi /\ found <= hi + GridSlack
      BY SearchAssumption DEF IInv, TypeOK, Narrowing, GridEnd, Least, Amount
    <2>2. Inside(top) /\ (Inside(best) \/ Overshot)
      BY DEF BestInside
    <2> QED  BY <2>1, <2>2 DEF Inside, Overshot
  <1> QED  BY <1>1, <1>2, InsideStep, SearchInvariant, PTL DEF Spec

\* What the calls buy: a round of bisection leaves at most half of the amounts,
\* a round of the search by thirds at most two thirds of the width and one
\* (rounding), so that both come down to the precision of their rounds
\* (routeMaxInput; OptimizeAt makes 24).
THEOREM IntervalsShrink ==
  Spec => [][/\ {pc, pc'} \subseteq {"bisect"} => 2 * (high' - low' + 1) <= high - low + 1
             /\ {pc, pc'} \subseteq {"thirds"} => 3 * (high' - low') <= 2 * (high - low) + 2]_vars
  <1>1. ASSUME IInv, Next, pc = "bisect", pc' = "bisect"
        PROVE  2 * (high' - low' + 1) <= high - low + 1
    <2>1. Bisect
      BY <1>1 DEF Next, FirstHopBound, BisectEnds, ComputeBounds, SearchGrid, SearchThirds,
         TopKOptimizeAt
    <2>2. low \in Nat /\ high \in Nat
      BY <1>1, SearchAssumption DEF IInv, TypeOK
    <2>3. low <= high
      BY <2>1 DEF Bisect
    <2>4. (low' = Mid + 1 /\ high' = high) \/ (high' = Mid - 1 /\ low' = low)
      BY <2>1 DEF Bisect
    <2>5. 2 * Mid \in low + high - 1 .. low + high /\ Mid \in Int
      BY <2>2 DEF Mid
    <2> QED  BY <2>2, <2>3, <2>4, <2>5
  <1>2. ASSUME IInv, Next, pc = "thirds", pc' = "thirds"
        PROVE  3 * (high' - low') <= 2 * (high - low) + 2
    <2>1. SearchThirds
      BY <1>2 DEF Next, FirstHopBound, Bisect, BisectEnds, ComputeBounds, SearchGrid,
         TopKOptimizeAt
    <2>2. low \in Nat /\ high \in Nat /\ low <= high
      BY <1>2, SearchAssumption DEF IInv, TypeOK, Narrowing
    <2>3. (high' = m2 /\ low' = low) \/ (low' = m1 /\ high' = high)
      BY <2>1 DEF SearchThirds
    <2>4. 3 * (high - m1) <= 2 * (high - low) + 2 /\ m1 \in Int
      BY <2>2 DEF m1
    <2>5. 3 * (m2 - low) <= 2 * (high - low) /\ m2 \in Int
      BY <2>2 DEF m2
    <2> QED  BY <2>2, <2>3, <2>4, <2>5
  <1>3. IInv /\ [Next]_vars =>
          [/\ {pc, pc'} \subseteq {"bisect"} => 2 * (high' - low' + 1) <= high - low + 1
           /\ {pc, pc'} \subseteq {"thirds"} => 3 * (high' - low') <= 2 * (high - low) + 2]_vars
    BY <1>1, <1>2
  <1> QED  BY <1>3, SearchInvariant, PTL DEF Spec
=============================================================================
