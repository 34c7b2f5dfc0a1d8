----------------------------- MODULE CanaryFeed -----------------------------
(***************************************************************************)
(* The event feed of rh-canary: Swap, Mint and Burn logs pushed over one   *)
(* websocket connection (a subscription per shard of pools), aggregated    *)
(* in one channel and handed to handleLog by one loop, with the gap since  *)
(* the cursor fetched over HTTP after every (re)connection.                *)
(*                                                                         *)
(* The chain only grows here: neither the feed nor the cursor looks at a   *)
(* removed log or at a parent hash.  The run never ends (stopReached is a  *)
(* time limit), and a connection that overflows is a connection that is    *)
(* lost.  "handled" is a history of the calls of handleLog.                *)
(***************************************************************************)
EXTENDS Integers, Sequences

CONSTANTS
  Log,          \* logs of the chain: [num : block, idx : index, pool : pool]
  Pool,         \* pools with WETH on one side
  Known,        \* pools of the universe the process starts with
  Token,        \* the other token of a pool
  Born,         \* block whose PoolCreated log announces a pool
  Shard,        \* subscriptions
  ShardOf,      \* the subscription that carries a pool
  StartFrom,    \* head read at startup (H0)
  MaxBlock,     \* bound: last block of the chain
  Chunk,        \* blocks of one recovery query
  AllPools,     \* the -all-pools flag: one subscription without addresses
  HttpLag,      \* blocks the HTTP endpoint may be behind the stream
  Errors,       \* whether recovery queries may fail for good
  MaxDrops,     \* bound: connections lost
  NoLog         \* the cursor before the first log

ASSUME FeedAssumption ==
  /\ Log \subseteq [num : Nat, idx : Nat, pool : Pool]
  /\ \A l, m \in Log : l.num = m.num /\ l.idx = m.idx => l = m
  /\ NoLog \notin Log
  /\ Born \in [Pool \ Known -> Nat]
  /\ Known \subseteq Pool
  /\ ShardOf \in [Pool -> Shard]
  /\ Chunk \in Nat \ {0}
  /\ {StartFrom, MaxBlock, HttpLag, MaxDrops} \subseteq Nat
  /\ {AllPools, Errors} \subseteq BOOLEAN

VARIABLES
  head,        \* the chain's head
  pc,          \* where the run loop is
  lost,        \* the connection is gone and errCh says so
  feed,        \* logs pushed to a shard's channel and not forwarded yet: a channel
               \* keeps the order of the chain
  agg,         \* aggCh
  created,     \* createdCh: the pools announced
  cursor,      \* LogCursor: the log it names, or NoLog
  span,        \* what recovery still covers: [from, to]
  page,        \* logs of the current recovery query still to be gone through, in
               \* the order of the chain
  subscribed,  \* subscribedPools
  registry,    \* pools registered in the registry and the graph
  resubscribe, \* the flag that asks for a new subscription
  drops,       \* connections lost so far
  handled,     \* history: how often handleLog got a log
  failed       \* history: whether a recovery ended with a warning

conn == <<lost, feed, agg, created>>
pools == <<subscribed, registry, resubscribe>>
vars == <<head, pc, conn, cursor, span, page, pools, drops, handled, failed>>

-----------------------------------------------------------------------------
Before(l, m) == l.num < m.num \/ (l.num = m.num /\ l.idx < m.idx)

\* What eth_getLogs answers for a range: every log of the three topics.
LogsIn(lo, hi) == {l \in Log : l.num \in lo .. hi}

\* The log that comes first in the order of the chain, if there is any.
First(logs) == {l \in logs : \A m \in logs \ {l} : Before(l, m)}

\* Pools of a token that has at least two of them can form a two-hop cycle.
RouteCapable(reg) ==
  {p \in reg : \E q \in reg \ {p} : Token[q] = Token[p]}

\* An empty address list is no filter at all.
Watched == IF AllPools \/ subscribed = {} THEN Pool ELSE subscribed

\* Logs of block n a subscription pushes.
Pushed(s, n) ==
  {l \in Log : l.num = n /\ l.pool \in Watched /\ ShardOf[l.pool] = s}

Announced(n) == {p \in Pool \ Known : Born[p] = n}

Seen_IdentityOnly(l) == l = cursor
Seen(l) ==
  /\ cursor # NoLog
  /\ l.num < cursor.num \/ l = cursor

Advance(l) == IF cursor = NoLog \/ l.num > cursor.num THEN l ELSE cursor

\* One log of the recovery or of the subscription: skipped, or handed on.
Deliver(l) ==
  \/ Seen(l) /\ UNCHANGED <<cursor, handled>>
  \/ /\ ~Seen(l)
     /\ cursor' = Advance(l)
     /\ handled' = [handled EXCEPT ![l] = @ + 1]
-----------------------------------------------------------------------------
Connected_AfterRecovery == pc = "consume" /\ ~lost
Connected == pc # "dial" /\ ~lost

\* Environment: a block is added and pushed to the subscriptions.
NewBlock ==
  /\ head < MaxBlock
  /\ head' = head + 1
  /\ feed' = IF Connected
             THEN [s \in Shard |-> feed[s] \cup Pushed(s, head + 1)] ELSE feed
  /\ created' = IF Connected THEN created \cup Announced(head + 1) ELSE created
  /\ UNCHANGED <<pc, lost, agg, cursor, span, page, pools, drops, handled, failed>>

\* Environment: the connection is lost; what was pushed stays readable.
Drop ==
  /\ Connected
  /\ drops < MaxDrops
  /\ drops' = drops + 1
  /\ lost' = TRUE
  /\ UNCHANGED <<head, pc, feed, agg, created, cursor, span, page, pools, handled, failed>>

\* The logs and the PoolCreated subscriptions stand; recovery comes first.
Connect ==
  /\ pc = "dial"
  /\ pc' = "recover"
  /\ UNCHANGED <<head, conn, cursor, span, page, pools, drops, handled, failed>>

\* A shard's goroutine forwards one log.
Forward(s) ==
  /\ pc # "dial"
  /\ \E l \in First(feed[s]) :
       /\ agg' = Append(agg, l)
       /\ feed' = [feed EXCEPT ![s] = @ \ {l}]
  /\ UNCHANGED <<head, pc, lost, created, cursor, span, page, pools, drops, handled, failed>>

RecoverFrom_Exclusive == IF cursor # NoLog THEN cursor.num + 1 ELSE StartFrom
RecoverFrom == IF cursor # NoLog THEN cursor.num ELSE StartFrom

\* recoverAndProcess reads the head from the HTTP endpoint ...
ReadHead ==
  /\ pc = "recover"
  /\ \E h \in (head - HttpLag) .. head :
       /\ span' = [from |-> RecoverFrom, to |-> h]
       /\ pc' = IF RecoverFrom > h THEN "consume" ELSE "query"
  /\ UNCHANGED <<head, conn, cursor, page, pools, drops, handled, failed>>

QueryEnd == IF span.from + Chunk - 1 > span.to THEN span.to ELSE span.from + Chunk - 1

\* ... queries one chunk of the gap ...
Query ==
  /\ pc = "query"
  /\ page' = LogsIn(span.from, QueryEnd)
  /\ pc' = "page"
  /\ UNCHANGED <<head, conn, cursor, span, pools, drops, handled, failed>>

\* ... goes through its logs ...
RecoverLog ==
  /\ pc = "page"
  /\ \E l \in First(page) :
       /\ Deliver(l)
       /\ page' = page \ {l}
  /\ UNCHANGED <<head, pc, conn, span, pools, drops, failed>>

\* ... and moves on to the next chunk, or to the subscription.
NextQuery ==
  /\ pc = "page"
  /\ page = {}
  /\ span' = [span EXCEPT !.from = QueryEnd + 1]
  /\ pc' = IF QueryEnd + 1 > span.to THEN "consume" ELSE "query"
  /\ UNCHANGED <<head, conn, cursor, page, pools, drops, handled, failed>>

\* A head read or a query that fails ends the recovery with a warning.
RecoveryFails ==
  /\ Errors
  /\ pc \in {"recover", "query"}
  /\ pc' = "consume"
  /\ failed' = TRUE
  /\ UNCHANGED <<head, conn, cursor, span, page, pools, drops, handled>>

\* The consume loop takes a log from aggCh ...
Consume ==
  /\ pc = "consume"
  /\ agg # <<>>
  /\ Deliver(Head(agg))
  /\ agg' = Tail(agg)
  /\ UNCHANGED <<head, pc, lost, feed, created, span, page, pools, drops, failed>>

\* ... or a PoolCreated log: a pool not registered yet joins the universe.
ConsumeCreated ==
  /\ pc = "consume"
  /\ \E p \in created :
       /\ \A o \in created : Born[p] <= Born[o]
       /\ created' = created \ {p}
       /\ IF p \in registry THEN UNCHANGED pools
          ELSE /\ registry' = registry \cup {p}
               /\ resubscribe' = (resubscribe \/ (~AllPools /\ p \notin subscribed))
               /\ UNCHANGED subscribed
  /\ UNCHANGED <<head, pc, lost, feed, agg, cursor, span, page, drops, handled, failed>>

\* The discovery worker registers a pool of which a log came by.
Discover(p) ==
  /\ p \notin registry
  /\ \E l \in Log : l.pool = p /\ handled[l] > 0
  /\ registry' = registry \cup {p}
  /\ UNCHANGED <<head, pc, conn, cursor, span, page, subscribed, resubscribe,
                 drops, handled, failed>>

\* The loop ends on an error of the connection, or, when nothing arrives for
\* five seconds, on the flag; a flag that is set rebuilds the pool set.
Close ==
  /\ pc = "consume"
  /\ \/ lost
     \/ resubscribe /\ agg = <<>> /\ created = {}
  /\ pc' = "dial"
  /\ lost' = FALSE
  /\ feed' = [s \in Shard |-> {}]
  /\ agg' = <<>>
  /\ created' = {}
  /\ resubscribe' = FALSE
  /\ subscribed' = IF resubscribe THEN RouteCapable(registry) ELSE subscribed
  /\ UNCHANGED <<head, cursor, span, page, registry, drops, handled, failed>>
-----------------------------------------------------------------------------
Init ==
  /\ head = StartFrom
  /\ pc = "dial"
  /\ lost = FALSE
  /\ feed = [s \in Shard |-> {}]
  /\ agg = <<>>
  /\ created = {}
  /\ cursor = NoLog
  /\ span = [from |-> StartFrom, to |-> StartFrom]
  /\ page = {}
  /\ subscribed = RouteCapable(Known)
  /\ registry = Known
  /\ resubscribe = FALSE
  /\ drops = 0
  /\ handled = [l \in Log |-> 0]
  /\ failed = FALSE

Run ==
  \/ Connect
  \/ ReadHead \/ Query \/ RecoverLog \/ NextQuery
  \/ Consume \/ ConsumeCreated \/ Close

Next ==
  \/ NewBlock
  \/ Drop
  \/ RecoveryFails
  \/ \E s \in Shard : Forward(s)
  \/ \E p \in Pool : Discover(p)
  \/ Run

Spec == Init /\ [][Next]_vars

\* The goroutines of the process run; nothing makes the chain grow, the
\* connection drop, or the worker's RPC calls succeed.
FairSpec == Spec /\ WF_vars(Run) /\ \A s \in Shard : WF_vars(Forward(s))
-----------------------------------------------------------------------------
\* The pools subscribed to from the first connection on.
Original == IF AllPools THEN Pool ELSE RouteCapable(Known)

\* As long as no recovery has failed, no log of a pool watched from the start is
\* left behind the cursor: the cursor is all the next recovery starts from, and
\* all that decides whether a pushed log has been seen, so a log in an earlier
\* block that handleLog never saw is never fetched or delivered again
\* (cmd/rh-canary/main.go run, recoverAndProcess, LogCursor.Seen).
NothingSkipped ==
  ~failed =>
    \A l \in Log :
      (/\ cursor # NoLog
       /\ l.num \in StartFrom .. cursor.num - 1
       /\ l.pool \in Original) => handled[l] > 0

\* A log is handed to handleLog twice only while its block is the cursor's:
\* whatever is reconnected, re-read and re-delivered, the repetitions stay in
\* the block recovery restarts from (LogCursor.Seen, Advance).
RepeatsOnlyAtCursor ==
  [][\A l \in Log :
       handled[l] > 0 /\ handled'[l] # handled[l] => l.num = cursor.num]_vars

\* Every log of a pool watched from the start that the chain holds is handed on
\* in the end, whatever connections are lost and subscriptions rebuilt, unless a
\* recovery fails (subscribe first, then recover the gap).
EventuallyHandled ==
  \A l \in Log :
    (l.num \in StartFrom .. head /\ l.pool \in Original) ~> (handled[l] > 0 \/ failed)
=============================================================================
