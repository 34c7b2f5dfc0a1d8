--------------------------- MODULE PollingSource ---------------------------
(***************************************************************************)
(* The polling data source (internal/chain/polling.go), which the programs *)
(* fall back to when the endpoint offers no WebSocket.  Two goroutines ask *)
(* the node at every tick: one for the head, whose gaps it fills header by *)
(* header (GapDetector, internal/chain/reorg.go), one for the logs of the  *)
(* blocks since its last answer.  Any call may fail, and the chain may be  *)
(* replaced between two calls.                                             *)
(***************************************************************************)
EXTENDS Integers, Sequences, FiniteSets

CONSTANTS
  Logged,       \* heights whose block holds a log of the query
  FromBlocks,   \* settings of query.FromBlock that are explored (0: none)
  FirstTip,     \* height of the chain at the start
  MaxTip,       \* bound: the chain's length
  MaxReplaced,  \* bound: replacements of the chain's end
  MaxFailures   \* bound: failing calls

ASSUME PollingAssumption ==
  /\ FirstTip \in Nat \ {0} /\ MaxTip \in Nat /\ FirstTip <= MaxTip
  /\ Logged \subseteq 1 .. MaxTip /\ FromBlocks \subseteq 0 .. MaxTip
  /\ MaxReplaced \in Nat /\ MaxFailures \in Nat

VARIABLES
  tip,                   \* height of the chain
  fork,                  \* per height: how often its block has been replaced
  failures,
  lpc, start, target,    \* the goroutine of SubscribeLogs and its query
  last, haveLast,        \* last height queried
  fromBlock,
  first,                 \* height of its first query (0: none yet)
  logs,                  \* logs sent to the consumer, as <<height, fork>>
  hpc, gap, head,        \* the goroutine of SubscribeBlocks: gap to fill, head read
  lastSeen, haveSeen,    \* GapDetector
  heads,                 \* headers sent to the consumer
  firstSeen, skipped     \* first height seen; headers that failed to load

chain  == <<tip, fork>>
poller == <<lpc, start, target, last, haveLast, fromBlock, first, logs>>
header == <<hpc, gap, head, lastSeen, haveSeen, heads, firstSeen, skipped>>
vars   == <<chain, failures, poller, header>>

Fails == failures < MaxFailures /\ failures' = failures + 1

-----------------------------------------------------------------------------
(* SubscribeLogs.                                                          *)

\* The range of the next query.  The first one respects FromBlock; a FromBlock
\* above the head is waited for.
FirstStart(n) == IF fromBlock > 0 THEN fromBlock ELSE n

PollHead_Strict ==   \* mutant: a range of one block is taken for an empty one
  /\ lpc = "tick"
  /\ \/ Fails /\ UNCHANGED <<chain, poller, header>>
     \/ /\ ~haveLast /\ FirstStart(tip) < tip
        /\ haveLast' = TRUE /\ start' = FirstStart(tip) /\ target' = tip /\ lpc' = "query"
        /\ first' = FirstStart(tip)
        /\ UNCHANGED <<chain, failures, last, fromBlock, logs, header>>
     \/ /\ haveLast /\ last + 1 < tip
        /\ start' = last + 1 /\ target' = tip /\ lpc' = "query"
        /\ UNCHANGED <<chain, failures, last, haveLast, fromBlock, first, logs, header>>
PollHead ==
  /\ lpc = "tick"
  /\ \/ Fails /\ UNCHANGED <<chain, poller, header>>
     \/ /\ ~haveLast /\ FirstStart(tip) <= tip
        /\ haveLast' = TRUE /\ start' = FirstStart(tip) /\ target' = tip /\ lpc' = "query"
        /\ first' = FirstStart(tip)
        /\ UNCHANGED <<chain, failures, last, fromBlock, logs, header>>
     \/ /\ haveLast /\ last + 1 <= tip
        /\ start' = last + 1 /\ target' = tip /\ lpc' = "query"
        /\ UNCHANGED <<chain, failures, last, haveLast, fromBlock, first, logs, header>>

\* The answer for the heights a .. b: a log of every logged height, in order, of
\* the block that is served now.
LogsOf(a, b) ==
  LET hs == {h \in Logged : a <= h /\ h <= b} IN
  {s \in [1 .. Cardinality(hs) -> {<<h, fork[h]>> : h \in hs}] :
     /\ \A i, j \in DOMAIN s : i < j => s[i][1] < s[j][1]
     /\ \A h \in hs : \E i \in DOMAIN s : s[i][1] = h}

FilterLogs_Moves ==   \* mutant: the range counts as done although the call failed
  /\ lpc = "query" /\ lpc' = "tick" /\ last' = target
  /\ \/ Fails /\ UNCHANGED logs
     \/ (\E s \in LogsOf(start, target) : logs' = logs \o s) /\ UNCHANGED failures
  /\ UNCHANGED <<chain, start, target, haveLast, fromBlock, first, header>>
\* FilterLogs; after an error the next tick starts from last again: from block 1
\* when no query has been answered yet.  The map of queried heights the code also
\* keeps never holds a height above last, so it drops nothing.
FilterLogs ==
  /\ lpc = "query" /\ lpc' = "tick"
  /\ \/ Fails /\ UNCHANGED <<last, logs>>
     \/ /\ \E s \in LogsOf(start, target) : logs' = logs \o s
        /\ last' = target /\ UNCHANGED failures
  /\ UNCHANGED <<chain, start, target, haveLast, fromBlock, first, header>>

-----------------------------------------------------------------------------
(* SubscribeBlocks.                                                        *)

Missed_Wide(n) == IF haveSeen /\ n > lastSeen + 2 THEN lastSeen + 1 .. n - 1 ELSE {}   \* mutant: a gap of one is none
\* GapDetector.Observe: the heights missed since the last head.
Missed(n) == IF haveSeen /\ n > lastSeen + 1 THEN lastSeen + 1 .. n - 1 ELSE {}

ReadHead ==
  /\ hpc = "tick"
  /\ \/ Fails /\ UNCHANGED <<chain, poller, header>>
     \/ /\ haveSeen' = TRUE
        /\ lastSeen' = IF haveSeen /\ tip <= lastSeen THEN lastSeen ELSE tip
        /\ firstSeen' = IF haveSeen THEN firstSeen ELSE tip
        /\ gap' = Missed(tip) /\ head' = tip /\ hpc' = "fill"
        /\ UNCHANGED <<chain, failures, poller, heads, skipped>>

\* One header of the gap, from the oldest on; a failure skips it.
FillGap ==
  /\ hpc = "fill" /\ gap # {}
  /\ \E n \in gap :
     /\ \A m \in gap : n <= m
     /\ gap' = gap \ {n}
     /\ \/ Fails /\ skipped' = skipped \cup {n} /\ UNCHANGED heads
        \/ heads' = heads \cup {n} /\ UNCHANGED <<failures, skipped>>
  /\ UNCHANGED <<chain, poller, hpc, head, lastSeen, haveSeen, firstSeen>>

\* The head itself goes out after its gap, at every tick.
SendHead ==
  /\ hpc = "fill" /\ gap = {}
  /\ heads' = heads \cup {head} /\ hpc' = "tick"
  /\ UNCHANGED <<chain, failures, poller, gap, head, lastSeen, haveSeen, firstSeen, skipped>>

-----------------------------------------------------------------------------
(* The chain.                                                              *)

ChainGrows ==
  /\ tip < MaxTip /\ tip' = tip + 1
  /\ UNCHANGED <<fork, failures, poller, header>>

Replaced == fork[MaxTip]

ChainReplaces ==
  /\ Replaced < MaxReplaced
  /\ \E h \in 1 .. tip : fork' = [g \in DOMAIN fork |-> IF g >= h THEN fork[g] + 1 ELSE fork[g]]
  /\ UNCHANGED <<tip, failures, poller, header>>

Init ==
  /\ tip = FirstTip /\ fork = [h \in 1 .. MaxTip |-> 0] /\ failures = 0
  /\ fromBlock \in FromBlocks
  /\ lpc = "tick" /\ start = 0 /\ target = 0 /\ last = 0 /\ haveLast = FALSE /\ first = 0 /\ logs = <<>>
  /\ hpc = "tick" /\ gap = {} /\ head = 0 /\ lastSeen = 0 /\ haveSeen = FALSE
  /\ heads = {} /\ firstSeen = 0 /\ skipped = {}

LogPoller  == PollHead \/ FilterLogs
HeadPoller == ReadHead \/ FillGap \/ SendHead

Next == LogPoller \/ HeadPoller \/ ChainGrows \/ ChainReplaces

Spec == Init /\ [][Next]_vars

\* Both tickers go on; the consumers take what is sent and drain the errors.
FairSpec == Spec /\ WF_vars(LogPoller) /\ WF_vars(HeadPoller)

-----------------------------------------------------------------------------
(* Properties.                                                             *)

TypeOK ==
  /\ tip \in 1 .. MaxTip /\ fork \in [1 .. MaxTip -> 0 .. MaxReplaced] /\ failures \in 0 .. MaxFailures
  /\ lpc \in {"tick", "query"} /\ start \in 0 .. MaxTip /\ target \in 0 .. tip
  /\ last \in 0 .. tip /\ haveLast \in BOOLEAN /\ fromBlock \in FromBlocks /\ first \in 0 .. tip
  /\ logs \in Seq(Logged \X (0 .. MaxReplaced))
  /\ hpc \in {"tick", "fill"} /\ gap \subseteq 1 .. tip /\ head \in 0 .. tip
  /\ lastSeen \in 0 .. tip /\ haveSeen \in BOOLEAN /\ heads \subseteq 1 .. tip
  /\ firstSeen \in 0 .. tip /\ skipped \subseteq 1 .. tip

\* Whatever fails and whenever the chain is replaced, logs go out in the order
\* of their heights, none twice, and between the first height asked for and the
\* last one answered no logged height is left out.  A consumer never sees the
\* logs of two blocks of one height (polling.go:117).
LogsInOrder ==
  /\ \A i, j \in DOMAIN logs : i < j => logs[i][1] < logs[j][1]
  /\ \A h \in Logged : first <= h /\ h <= last => \E i \in DOMAIN logs : logs[i][1] = h

\* Every height between the first head and the newest one has been announced,
\* or is about to be, unless its header failed to load (polling.go:49).
HeadsAnnounced ==
  haveSeen => firstSeen .. lastSeen \subseteq heads \cup skipped \cup gap \cup {head}

\* The log poller reaches the head of a chain that stops growing.
PollsToTheHead == <>[](fromBlock <= tip => last = tip)
=============================================================================
