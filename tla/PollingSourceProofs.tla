------------------------ MODULE PollingSourceProofs ------------------------
(***************************************************************************)
(* Proofs about the polling source: for every chain, query and number of   *)
(* failures and replacements, logs go out once and in order, and no head   *)
(* is passed over unless its header failed to load.                        *)
(***************************************************************************)
EXTENDS PollingSource, SequenceTheorems, FiniteSetTheorems, TLAPS

USE PollingAssumption

\* Replacing the chain's end touches every height above: how often a height was
\* replaced never falls with the height.
ForksRise == \A g, h \in 1 .. MaxTip : g <= h => fork[g] <= fork[h]

\* What the goroutine of SubscribeLogs relies on: before the first query there
\* is nothing, afterwards a query starts behind last, or at the first height.
Polling ==
  /\ ~haveLast => lpc = "tick" /\ last = 0 /\ first = 0
  /\ haveLast => first >= 1
  /\ lpc = "query" =>
       /\ haveLast /\ start <= target /\ last < start
       /\ start = last + 1 \/ (last = 0 /\ start = first)
  /\ \A i \in DOMAIN logs : logs[i][1] <= last

\* ... and that of SubscribeBlocks: between two ticks nothing is left to send.
Announcing ==
  /\ hpc = "tick" => gap = {} /\ (haveSeen => head \in heads)
  /\ hpc = "fill" => haveSeen /\ head >= 1

IInv == TypeOK /\ ForksRise /\ Polling /\ LogsInOrder /\ Announcing /\ HeadsAnnounced

-----------------------------------------------------------------------------
\* The invariant holds in the beginning.
LEMMA InitIInv == Init => IInv
  <1> SUFFICES ASSUME Init PROVE IInv
    OBVIOUS
  <1>1. TypeOK
    <2>1. <<>> \in Seq(Logged \X (0 .. MaxReplaced))  OBVIOUS
    <2>2. fork \in [1 .. MaxTip -> 0 .. MaxReplaced]  BY DEF Init
    <2>3. fromBlock \in FromBlocks  BY DEF Init
    <2>4. MaxFailures \in Nat /\ tip \in 1 .. MaxTip /\ 0 \in 0 .. tip  BY DEF Init
    <2>5. logs \in Seq(Logged \X (0 .. MaxReplaced))  BY <2>1 DEF Init
    <2>6. /\ start \in 0 .. MaxTip /\ target \in 0 .. tip /\ last \in 0 .. tip /\ first \in 0 .. tip
          /\ head \in 0 .. tip /\ lastSeen \in 0 .. tip /\ firstSeen \in 0 .. tip
          /\ failures \in 0 .. MaxFailures
      BY <2>4 DEF Init
    <2>7. gap \subseteq 1 .. tip /\ heads \subseteq 1 .. tip /\ skipped \subseteq 1 .. tip
      BY DEF Init
    <2>8. /\ lpc \in {"tick", "query"} /\ hpc \in {"tick", "fill"}
          /\ haveLast \in BOOLEAN /\ haveSeen \in BOOLEAN
      BY DEF Init
    <2> HIDE PollingAssumption
    <2> QED  BY <2>2, <2>3, <2>4, <2>5, <2>6, <2>7, <2>8 DEF TypeOK
  <1>2. LogsInOrder
    <2>1. \A h \in Logged : ~(first <= h /\ h <= last)  BY DEF Init
    <2> QED  BY <2>1 DEF Init, LogsInOrder
  <1> QED  BY <1>1, <1>2 DEF Init, IInv, ForksRise, Polling, Announcing, HeadsAnnounced

\* A function on 1 .. n is a sequence of length n.
LEMMA SeqOfFunction ==
  ASSUME NEW S, NEW n \in Nat, NEW s \in [1 .. n -> S]
  PROVE  s \in Seq(S) /\ Len(s) = n /\ DOMAIN s = 1 .. Len(s)
  OBVIOUS

\* An answer for the heights a .. b is a sequence of their logs, in order.
IsAnswer(s, a, b) ==
  /\ s \in Seq(Logged \X (0 .. MaxReplaced))
  /\ Len(s) \in Nat /\ DOMAIN s = 1 .. Len(s)
  /\ \A i \in 1 .. Len(s) : a <= s[i][1] /\ s[i][1] <= b
  /\ \A i, j \in 1 .. Len(s) : i < j => s[i][1] < s[j][1]
  /\ \A h \in Logged : a <= h /\ h <= b => \E i \in 1 .. Len(s) : s[i][1] = h

\* What eth_getLogs returns is one.
LEMMA AnswerType ==
  ASSUME TypeOK, NEW a \in Nat, NEW b \in Nat, NEW s \in LogsOf(a, b)
  PROVE  IsAnswer(s, a, b)
  <1> USE DEF IsAnswer
  <1> DEFINE hs == {h \in Logged : a <= h /\ h <= b}
             n == Cardinality(hs)
             T == {<<h, fork[h]>> : h \in hs}
  <1>1. n \in Nat
    <2>1. IsFiniteSet(1 .. MaxTip)  BY FS_Interval
    <2>2. IsFiniteSet(hs)  BY <2>1, FS_Subset
    <2> QED  BY <2>2, FS_CardinalityType
  <1>2. s \in [1 .. n -> T]
    BY DEF LogsOf
  <1>3. \A t \in T : t \in Logged \X (0 .. MaxReplaced) /\ a <= t[1] /\ t[1] <= b
    BY DEF TypeOK
  <1>4. s \in [1 .. n -> Logged \X (0 .. MaxReplaced)]
    BY <1>2, <1>3
  <1>5. s \in Seq(Logged \X (0 .. MaxReplaced)) /\ Len(s) = n /\ DOMAIN s = 1 .. Len(s)
    <2> HIDE DEF n
    <2> QED  BY <1>1, <1>4, SeqOfFunction
  <1>6. \A i \in 1 .. Len(s) : s[i] \in T  BY <1>2, <1>5
  <1>7. /\ \A i, j \in DOMAIN s : i < j => s[i][1] < s[j][1]
        /\ \A h \in hs : \E i \in DOMAIN s : s[i][1] = h
    BY DEF LogsOf
  <1> QED  BY <1>1, <1>3, <1>5, <1>6, <1>7

\* Appending an answer for heights above last keeps the order and closes the range.
LEMMA FilterLogsInd == IInv /\ FilterLogs => IInv'
  <1> SUFFICES ASSUME IInv, FilterLogs PROVE IInv'
    OBVIOUS
  <1> USE DEF IInv
  <1>1. /\ lpc = "query" /\ lpc' = "tick" /\ failures' \in 0 .. MaxFailures
        /\ UNCHANGED <<chain, start, target, haveLast, fromBlock, first, header>>
    BY DEF FilterLogs, Fails, TypeOK
  <1>2. ForksRise' /\ Announcing' /\ HeadsAnnounced'
    BY <1>1 DEF chain, header, ForksRise, Announcing, HeadsAnnounced
  <1>3. CASE UNCHANGED <<last, logs>>
    <2>1. TypeOK'  BY <1>1, <1>3 DEF TypeOK, chain, header
    <2> QED  BY <1>1, <1>2, <1>3, <2>1 DEF Polling, LogsInOrder
  <1>4. ASSUME NEW s \in LogsOf(start, target), logs' = logs \o s, last' = target
        PROVE  IInv'
    <2> DEFINE E == Logged \X (0 .. MaxReplaced)
    <2>1. start \in Nat /\ target \in Nat /\ last \in Nat /\ first \in Nat /\ last < start
          /\ start <= target /\ logs \in Seq(E)
      BY <1>1 DEF TypeOK, Polling
    <2>2. /\ s \in Seq(E) /\ Len(s) \in Nat /\ DOMAIN s = 1 .. Len(s)
          /\ \A i \in 1 .. Len(s) : start <= s[i][1] /\ s[i][1] <= target
          /\ \A i, j \in 1 .. Len(s) : i < j => s[i][1] < s[j][1]
          /\ \A h \in Logged : start <= h /\ h <= target => \E i \in 1 .. Len(s) : s[i][1] = h
      <3>1. TypeOK  OBVIOUS
      <3>2. start \in Nat /\ target \in Nat  BY <2>1
      <3>3. IsAnswer(s, start, target)
        <4> HIDE DEF IInv
        <4> QED  BY <3>1, <3>2, AnswerType
      <3> QED  BY <3>3 DEF IsAnswer
    <2>3. /\ logs' \in Seq(E)
          /\ Len(logs) \in Nat /\ DOMAIN logs = 1 .. Len(logs)
          /\ DOMAIN logs' = 1 .. Len(logs) + Len(s)
          /\ \A i \in 1 .. Len(logs) + Len(s) :
               logs'[i] = IF i <= Len(logs) THEN logs[i] ELSE s[i - Len(logs)]
      <3> HIDE DEF E
      <3>1. /\ logs \o s \in Seq(E) /\ Len(logs \o s) = Len(logs) + Len(s)
            /\ \A i \in 1 .. Len(logs) + Len(s) :
                 (logs \o s)[i] = IF i <= Len(logs) THEN logs[i] ELSE s[i - Len(logs)]
        BY <2>1, <2>2, ConcatProperties
      <3> QED  BY <1>4, <2>1, <2>2, <3>1
    <2>4. /\ \A i \in 1 .. Len(logs) : logs[i][1] \in Nat /\ logs[i][1] <= last
          /\ \A i \in 1 .. Len(s) : s[i][1] \in Nat
      <3>1. \A e \in E : e[1] \in Nat
        <4>1. \A e \in E : e[1] \in Logged  OBVIOUS
        <4>2. Logged \subseteq Nat  OBVIOUS
        <4> HIDE DEF E
        <4> QED  BY <4>1, <4>2
      <3> HIDE DEF E
      <3>2. /\ \A i \in 1 .. Len(logs) : logs[i] \in E
            /\ \A i \in 1 .. Len(s) : s[i] \in E
        BY <2>1, <2>2, <2>3
      <3> QED  BY <2>3, <3>1, <3>2 DEF Polling
    <2>5. \A i \in DOMAIN logs' : logs'[i][1] <= target
      <3> SUFFICES ASSUME NEW i \in DOMAIN logs' PROVE logs'[i][1] <= target
        OBVIOUS
      <3>1. CASE i <= Len(logs)
        <4>1. i \in 1 .. Len(logs) /\ logs'[i] = logs[i]  BY <2>2, <2>3, <3>1
        <4> QED  BY <2>1, <2>4, <4>1
      <3>2. CASE i > Len(logs)
        <4>1. i - Len(logs) \in 1 .. Len(s) /\ logs'[i] = s[i - Len(logs)]
          BY <2>2, <2>3, <3>2
        <4> QED  BY <2>2, <4>1
      <3> QED  BY <2>3, <3>1, <3>2
    <2>6. \A i, j \in DOMAIN logs' : i < j => logs'[i][1] < logs'[j][1]
      <3> SUFFICES ASSUME NEW i \in DOMAIN logs', NEW j \in DOMAIN logs', i < j
                   PROVE  logs'[i][1] < logs'[j][1]
        OBVIOUS
      <3>1. CASE j <= Len(logs)
        <4>1. i \in 1 .. Len(logs) /\ j \in 1 .. Len(logs) /\ logs'[i] = logs[i] /\ logs'[j] = logs[j]
          BY <2>2, <2>3, <3>1
        <4> QED  BY <2>3, <4>1 DEF LogsInOrder
      <3>2. CASE i <= Len(logs) /\ j > Len(logs)
        <4>1. /\ i \in 1 .. Len(logs) /\ logs'[i] = logs[i]
              /\ j - Len(logs) \in 1 .. Len(s) /\ logs'[j] = s[j - Len(logs)]
          BY <2>2, <2>3, <3>2, SMTT(30)
        <4>2. logs[i][1] <= last /\ start <= s[j - Len(logs)][1]  BY <2>2, <2>4, <4>1
        <4> QED  BY <2>1, <2>4, <4>1, <4>2, SMTT(30)
      <3>3. CASE i > Len(logs)
        <4>1. i \in 1 .. Len(logs) + Len(s) /\ j \in 1 .. Len(logs) + Len(s)  BY <2>3
        <4>2. logs'[i] = s[i - Len(logs)] /\ logs'[j] = s[j - Len(logs)]
          <5>1. ~(i <= Len(logs)) /\ ~(j <= Len(logs))  BY <2>2, <2>3, <3>3, <4>1
          <5> QED  BY <2>3, <4>1, <5>1
        <4>3. /\ i - Len(logs) \in 1 .. Len(s) /\ j - Len(logs) \in 1 .. Len(s)
              /\ i - Len(logs) < j - Len(logs)
          <5>1. i \in Int /\ j \in Int /\ Len(logs) \in Int /\ Len(s) \in Int  BY <2>2, <2>3, <4>1
          <5> QED  BY <3>3, <4>1, <5>1
        <4> QED  BY <2>2, <4>2, <4>3
      <3> QED  BY <2>3, <3>1, <3>2, <3>3
    <2>7. ASSUME NEW h \in Logged, first <= h, h <= target
          PROVE  \E i \in DOMAIN logs' : logs'[i][1] = h
      <3>1. CASE h <= last
        <4>1. PICK i \in 1 .. Len(logs) : logs[i][1] = h
          BY <2>3, <2>7, <3>1 DEF LogsInOrder
        <4>2. i \in DOMAIN logs' /\ logs'[i] = logs[i]  BY <2>2, <2>3
        <4> QED  BY <4>1, <4>2
      <3>2. CASE h > last
        <4>1. start <= h  BY <1>1, <2>1, <2>7, <3>2 DEF Polling
        <4>2. PICK i \in 1 .. Len(s) : s[i][1] = h  BY <2>2, <2>7, <4>1
        <4>3. i + Len(logs) \in 1 .. Len(logs) + Len(s) /\ ~(i + Len(logs) <= Len(logs))
              /\ (i + Len(logs)) - Len(logs) = i
          BY <2>2, <2>3
        <4>4. i + Len(logs) \in DOMAIN logs' /\ logs'[i + Len(logs)] = s[i]
          BY <2>3, <4>3
        <4> QED  BY <4>2, <4>4
      <3> QED  BY <2>1, <3>1, <3>2
    <2>8. LogsInOrder'  BY <1>1, <1>4, <2>6, <2>7 DEF LogsInOrder
    <2>9. TypeOK'  BY <1>1, <1>4, <2>1, <2>3 DEF TypeOK, chain, header
    <2>10. Polling'  BY <1>1, <1>4, <2>5 DEF Polling
    <2> QED  BY <1>2, <2>8, <2>9, <2>10
  <1> QED  BY <1>3, <1>4 DEF FilterLogs

\* A step of PollHead keeps the invariant.
LEMMA PollHeadInd == IInv /\ PollHead => IInv'
  <1> SUFFICES ASSUME IInv, PollHead PROVE IInv'
    OBVIOUS
  <1> USE DEF IInv
  <1>1. UNCHANGED <<chain, last, logs, fromBlock, header>> /\ failures' \in 0 .. MaxFailures
    BY DEF PollHead, Fails, TypeOK, poller
  <1>2. ForksRise' /\ Announcing' /\ HeadsAnnounced'
    BY <1>1 DEF chain, header, ForksRise, Announcing, HeadsAnnounced
  <1>3. tip \in 1 .. MaxTip /\ tip \in Nat /\ last \in Nat /\ fromBlock \in Nat
    BY DEF TypeOK
  <1>4. CASE UNCHANGED poller
    <2>1. TypeOK'  BY <1>1, <1>4 DEF TypeOK, chain, header, poller
    <2> QED  BY <1>2, <1>4, <2>1 DEF Polling, LogsInOrder, poller
  <1>5. CASE /\ ~haveLast /\ FirstStart(tip) <= tip
             /\ haveLast' = TRUE /\ start' = FirstStart(tip) /\ target' = tip /\ lpc' = "query"
             /\ first' = FirstStart(tip)
    <2>1. FirstStart(tip) \in 1 .. tip  BY <1>3, <1>5 DEF FirstStart
    <2>2. last = 0  BY <1>5 DEF Polling
    <2>3. TypeOK'  BY <1>1, <1>3, <1>5, <2>1, SMTT(30) DEF TypeOK, chain, header
    <2>4. Polling'
      <3>1. UNCHANGED <<last, logs, fromBlock>>  BY <1>1
      <3>2. start' = first' /\ start' \in 1 .. tip /\ target' = tip /\ haveLast'  BY <1>5, <2>1
      <3> QED  BY <1>3, <1>5, <2>1, <2>2, <3>1, <3>2 DEF Polling
    <2>5. LogsInOrder'
      <3>1. \A h \in Logged : ~(first' <= h /\ h <= last')
        BY <1>1, <1>3, <1>5, <2>1, <2>2
      <3> QED  BY <1>1, <3>1 DEF LogsInOrder
    <2> QED  BY <1>2, <2>3, <2>4, <2>5
  <1>6. CASE /\ haveLast /\ last + 1 <= tip
             /\ start' = last + 1 /\ target' = tip /\ lpc' = "query" /\ UNCHANGED <<haveLast, first>>
    <2>1. TypeOK'  BY <1>1, <1>3, <1>6 DEF TypeOK, chain, header
    <2>2. Polling'  BY <1>1, <1>3, <1>6 DEF Polling
    <2> QED  BY <1>1, <1>2, <1>6, <2>1, <2>2 DEF LogsInOrder
  <1> QED  BY <1>4, <1>5, <1>6 DEF PollHead

\* A step of ReadHead keeps the invariant.
LEMMA ReadHeadInd == IInv /\ ReadHead => IInv'
  <1> SUFFICES ASSUME IInv, ReadHead PROVE IInv'
    OBVIOUS
  <1> USE DEF IInv
  <1>1. UNCHANGED <<chain, poller, heads, skipped>> /\ failures' \in 0 .. MaxFailures
    BY DEF ReadHead, Fails, TypeOK, header
  <1>2. ForksRise' /\ Polling' /\ LogsInOrder'
    BY <1>1 DEF chain, poller, ForksRise, Polling, LogsInOrder
  <1>3. tip \in 1 .. MaxTip /\ tip \in Nat /\ lastSeen \in 0 .. tip /\ firstSeen \in 0 .. tip
    BY DEF TypeOK
  <1>4. CASE UNCHANGED header
    <2>1. TypeOK'  BY <1>1, <1>4 DEF TypeOK, chain, header, poller
    <2> QED  BY <1>2, <1>4, <2>1 DEF Announcing, HeadsAnnounced, header
  <1>5. CASE /\ hpc = "tick" /\ haveSeen' = TRUE
             /\ lastSeen' = IF haveSeen /\ tip <= lastSeen THEN lastSeen ELSE tip
             /\ firstSeen' = IF haveSeen THEN firstSeen ELSE tip
             /\ gap' = Missed(tip) /\ head' = tip /\ hpc' = "fill"
    <2>1. Missed(tip) \subseteq 1 .. tip  BY <1>3 DEF Missed
    <2>2. TypeOK'  BY <1>1, <1>3, <1>5, <2>1 DEF TypeOK, chain, poller
    <2>3. Announcing'  BY <1>3, <1>5 DEF Announcing
    <2>4. ASSUME NEW n \in firstSeen' .. lastSeen', n # tip, n \notin Missed(tip)
          PROVE  n \in heads \cup skipped
      <3>1. haveSeen /\ n \in firstSeen .. lastSeen
        BY <1>3, <1>5, <2>4 DEF Missed
      <3> QED  BY <1>5, <3>1 DEF Announcing, HeadsAnnounced
    <2>5. HeadsAnnounced'  BY <1>1, <1>5, <2>4 DEF HeadsAnnounced
    <2> QED  BY <1>2, <2>2, <2>3, <2>5
  <1> QED  BY <1>4, <1>5 DEF ReadHead

\* A step of FillGap keeps the invariant.
LEMMA FillGapInd == IInv /\ FillGap => IInv'
  <1> SUFFICES ASSUME IInv, FillGap PROVE IInv'
    OBVIOUS
  <1> USE DEF IInv
  <1>1. PICK n \in gap : /\ gap' = gap \ {n}
                         /\ \/ Fails /\ skipped' = skipped \cup {n} /\ UNCHANGED heads
                            \/ heads' = heads \cup {n} /\ UNCHANGED <<failures, skipped>>
    BY DEF FillGap
  <1>2. /\ UNCHANGED <<chain, poller, hpc, head, lastSeen, haveSeen, firstSeen>> /\ hpc = "fill"
        /\ failures' \in 0 .. MaxFailures
    BY DEF FillGap, Fails, TypeOK
  <1>3. ForksRise' /\ Polling' /\ LogsInOrder'
    BY <1>2 DEF chain, poller, ForksRise, Polling, LogsInOrder
  <1>4. TypeOK'  BY <1>1, <1>2 DEF TypeOK, chain, poller
  <1>5. Announcing' /\ HeadsAnnounced'  BY <1>1, <1>2 DEF Announcing, HeadsAnnounced
  <1> QED  BY <1>3, <1>4, <1>5

\* A step of SendHead keeps the invariant.
LEMMA SendHeadInd == IInv /\ SendHead => IInv'
  <1> SUFFICES ASSUME IInv, SendHead PROVE IInv'
    OBVIOUS
  <1> USE DEF IInv
  <1>1. ForksRise' /\ Polling' /\ LogsInOrder'
    BY DEF SendHead, chain, poller, ForksRise, Polling, LogsInOrder
  <1>2. head \in 1 .. tip  BY DEF SendHead, TypeOK, Announcing, HeadsAnnounced
  <1>3. TypeOK'  BY <1>2 DEF SendHead, TypeOK, chain, poller
  <1>4. Announcing' /\ HeadsAnnounced'  BY DEF SendHead, Announcing, HeadsAnnounced
  <1> QED  BY <1>1, <1>3, <1>4

\* What happens to the chain keeps the invariant.
LEMMA ChainInd == IInv /\ (ChainGrows \/ ChainReplaces) => IInv'
  <1> SUFFICES ASSUME IInv, ChainGrows \/ ChainReplaces PROVE IInv'
    OBVIOUS
  <1> USE DEF IInv
  <1>1. UNCHANGED <<failures, poller, header>>  BY DEF ChainGrows, ChainReplaces
  <1>2. Polling' /\ LogsInOrder' /\ Announcing' /\ HeadsAnnounced'
    BY <1>1 DEF poller, header, Polling, LogsInOrder, Announcing, HeadsAnnounced
  <1>3. CASE ChainGrows
    <2>1. tip' \in 1 .. MaxTip /\ tip < tip' /\ fork' = fork  BY <1>3 DEF ChainGrows, TypeOK
    <2>2. TypeOK'  BY <1>1, <2>1 DEF TypeOK, poller, header
    <2> QED  BY <1>2, <2>1, <2>2 DEF ForksRise
  <1>4. CASE ChainReplaces
    <2>1. PICK r \in 1 .. tip : fork' = [g \in DOMAIN fork |-> IF g >= r THEN fork[g] + 1 ELSE fork[g]]
      BY <1>4 DEF ChainReplaces
    <2>2. tip' = tip /\ fork[MaxTip] < MaxReplaced  BY <1>4 DEF ChainReplaces, Replaced
    <2>3. \A g \in 1 .. MaxTip : fork[g] \in Nat /\ fork[g] <= fork[MaxTip]
      BY DEF TypeOK, ForksRise
    <2>4. MaxTip \in 1 .. MaxTip  OBVIOUS
    <2>5. fork' \in [1 .. MaxTip -> 0 .. MaxReplaced]
      <3>1. DOMAIN fork = 1 .. MaxTip  BY DEF TypeOK
      <3>2. \A g \in 1 .. MaxTip : fork[g] + 1 \in 0 .. MaxReplaced /\ fork[g] \in 0 .. MaxReplaced
        BY <2>2, <2>3, <2>4 DEF TypeOK
      <3> QED  BY <2>1, <3>1, <3>2
    <2>6. ForksRise'
      <3>1. \A g \in 1 .. MaxTip : fork'[g] = IF g >= r THEN fork[g] + 1 ELSE fork[g]
        BY <2>1 DEF TypeOK
      <3> QED  BY <2>3, <3>1 DEF ForksRise, TypeOK
    <2>7. TypeOK'  BY <1>1, <2>2, <2>5 DEF TypeOK, poller, header
    <2> QED  BY <1>2, <2>6, <2>7
  <1> QED  BY <1>3, <1>4

\* Every step keeps the invariant.
LEMMA StepIInv == IInv /\ [Next]_vars => IInv'
  <1> SUFFICES ASSUME IInv, [Next]_vars PROVE IInv'
    OBVIOUS
  <1>1. CASE UNCHANGED vars
    BY <1>1 DEF vars, chain, poller, header, IInv, TypeOK, ForksRise, Polling, LogsInOrder,
         Announcing, HeadsAnnounced
  <1> QED  BY <1>1, FilterLogsInd, PollHeadInd, ReadHeadInd, FillGapInd, SendHeadInd, ChainInd
           DEF Next, LogPoller, HeadPoller

\* The inductive invariant holds of every run of the source.
THEOREM PollingInvariant == Spec => []IInv
  BY InitIInv, StepIInv, PTL DEF Spec

-----------------------------------------------------------------------------
\* Type correctness of both goroutines of polling.go.
THEOREM PollingTyped == Spec => []TypeOK
  <1>1. IInv => TypeOK  BY DEF IInv
  <1> QED  BY <1>1, PollingInvariant, PTL

\* SubscribeLogs sends logs once, in the order of their heights and without
\* leaving out a height of its range, whatever fails or is replaced.
THEOREM LogsGoOutInOrder == Spec => []LogsInOrder
  <1>1. IInv => LogsInOrder  BY DEF IInv
  <1> QED  BY <1>1, PollingInvariant, PTL

\* SubscribeBlocks passes over no height between the first and the newest head
\* but those whose header failed to load.
THEOREM NoHeadPassedOver == Spec => []HeadsAnnounced
  <1>1. IInv => HeadsAnnounced  BY DEF IInv
  <1> QED  BY <1>1, PollingInvariant, PTL

\* No poll is made in vain: whatever SubscribeLogs does is a failing call, the
\* beginning of a query, or an answer that takes last nearer to the head of the
\* chain, never past it, so that a chain of any length is answered for after as
\* many queries as it has heights and failures.  The safety half of PollsToTheHead.
THEOREM EveryPollCounts ==
  Spec => [][poller' # poller =>
               \/ failures' > failures
               \/ failures' = failures /\ last' > last /\ last' <= tip'
               \/ failures' = failures /\ last' = last /\ lpc = "tick" /\ lpc' = "query"]_vars
  <1>1. ASSUME IInv, Next, poller' # poller
        PROVE  \/ failures' > failures
               \/ failures' = failures /\ last' > last /\ last' <= tip'
               \/ failures' = failures /\ last' = last /\ lpc = "tick" /\ lpc' = "query"
    <2>1. failures \in Nat /\ tip \in Nat /\ target \in 0 .. tip /\ last \in Nat
      BY <1>1 DEF IInv, TypeOK
    <2>2. CASE PollHead
      BY <1>1, <2>1, <2>2 DEF PollHead, Fails
    <2>3. CASE FilterLogs
      <3>1. start \in Nat /\ last < start /\ start <= target
        BY <1>1, <2>3 DEF IInv, TypeOK, Polling, FilterLogs
      <3> QED  BY <2>1, <2>3, <3>1 DEF FilterLogs, Fails, chain
    <2>4. CASE HeadPoller \/ ChainGrows \/ ChainReplaces
      BY <1>1, <2>4 DEF HeadPoller, ReadHead, FillGap, SendHead, ChainGrows, ChainReplaces
    <2> QED  BY <1>1, <2>2, <2>3, <2>4 DEF Next, LogPoller
  <1>2. IInv /\ [Next]_vars =>
          [poller' # poller =>
               \/ failures' > failures
               \/ failures' = failures /\ last' > last /\ last' <= tip'
               \/ failures' = failures /\ last' = last /\ lpc = "tick" /\ lpc' = "query"]_vars
    BY <1>1
  <1> QED  BY <1>2, PollingInvariant, PTL DEF Spec
=============================================================================
