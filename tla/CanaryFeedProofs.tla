-------------------------- MODULE CanaryFeedProofs --------------------------
(***************************************************************************)
(* The canary's feed skips no log and repeats logs only in the cursor's    *)
(* block, for every chain, chunk, number of lost connections and pools     *)
(* created at run time.                                                    *)
(*                                                                         *)
(* That the cursor never passes an unhandled log rests on what is still on *)
(* its way: every log up to the head is handled, pushed and not consumed   *)
(* yet, or part of the gap that recovery has not gone through; and what is *)
(* on its way arrives in the order of blocks.  The latter holds for one    *)
(* subscription only, and the former for an HTTP node that is not behind.  *)
(***************************************************************************)
EXTENDS CanaryFeed, TLAPS

\* One subscription carries every pool, and the HTTP node knows the head.
OneOrderedSource ==
  /\ \A p, q \in Pool : ShardOf[p] = ShardOf[q]
  /\ HttpLag = 0

\* The types.
FeedTyped ==
  /\ head \in Nat /\ StartFrom <= head
  /\ pc \in {"dial", "recover", "query", "page", "consume"}
  /\ lost \in BOOLEAN /\ failed \in BOOLEAN /\ resubscribe \in BOOLEAN
  /\ feed \in [Shard -> SUBSET Log]
  /\ agg \in Seq(Log)
  /\ created \subseteq Pool
  /\ cursor \in Log \cup {NoLog}
  /\ span \in [from : Int, to : Int]
  /\ page \subseteq Log
  /\ subscribed \subseteq Pool /\ registry \subseteq Pool
  /\ drops \in Nat
  /\ handled \in [Log -> Nat]

\* The cursor is the highest block of a log handed on, and such a log itself.
CursorInv ==
  /\ \A l \in Log : handled[l] > 0 => cursor # NoLog /\ l.num <= cursor.num
  /\ cursor # NoLog => handled[cursor] > 0

\* The pools watched from the start stay watched.
StaysWatched ==
  /\ Known \subseteq registry
  /\ AllPools \/ RouteCapable(Known) \subseteq subscribed

\* Pushed and not consumed yet.
Waiting(l) == \E i \in 1 .. Len(agg) : agg[i] = l
Pushing(l) == \E s \in Shard : l \in feed[s]
OnItsWay(l) == Waiting(l) \/ Pushing(l)

\* What is on its way keeps the order of blocks up to the head.
InOrder ==
  /\ \A i, j \in 1 .. Len(agg) : i <= j => agg[i].num <= agg[j].num
  /\ \A i \in 1 .. Len(agg), s \in Shard : \A l \in feed[s] : agg[i].num <= l.num
  /\ \A i \in 1 .. Len(agg) : agg[i].num <= head
  /\ \A s \in Shard : \A l \in feed[s] :
       l.num <= head /\ l.pool \in Pool /\ ShardOf[l.pool] = s

Recovering == pc \in {"query", "page"}

\* Neither the cursor nor recovery is ahead of the chain.
BelowHead ==
  /\ cursor # NoLog => cursor.num <= head
  /\ Recovering => span.to <= head
  /\ pc = "page" => \A l \in page : l.num <= head

\* In the part of the gap recovery has not gone through.
ToRecover(l) ==
  \/ pc = "query" /\ span.from <= l.num /\ l.num <= span.to
  \/ pc = "page" /\ (l \in page \/ (QueryEnd < l.num /\ l.num <= span.to))

Covered(l) == handled[l] > 0 \/ OnItsWay(l) \/ ToRecover(l)

\* The logs the guarantee is about.
Owed == {l \in Log : StartFrom <= l.num /\ l.pool \in Original}

\* No log owed is lost between the chain and handleLog.
Accounted ==
  /\ Recovering \/ pc = "consume" =>
       /\ ~lost => \A l \in Owed : l.num <= head => Covered(l)
       /\ \A m \in Log : OnItsWay(m) => \A l \in Owed : l.num < m.num => Covered(l)
  /\ Recovering =>
       \A l \in Owed : l.num <= span.to => handled[l] > 0 \/ ToRecover(l)
  /\ pc = "page" => \A l \in page : l.num <= QueryEnd /\ QueryEnd <= span.to

\* What the cursor has passed was handed on.
NothingBehind == \A l \in Owed : cursor # NoLog /\ l.num < cursor.num => handled[l] > 0

\* The feed's inductive invariant.
FeedInv ==
  /\ FeedTyped /\ CursorInv /\ StaysWatched /\ InOrder /\ BelowHead
  /\ ~failed => NothingBehind /\ Accounted
-----------------------------------------------------------------------------
(* Sequences: the aggregated channel grows at its end and is read at its   *)
(* head.                                                                   *)

\* Reading the head moves every other log one place down.
LEMMA TailOfChannel ==
  ASSUME NEW S, NEW q \in Seq(S), q # <<>>
  PROVE  /\ Tail(q) \in Seq(S) /\ Head(q) = q[1] /\ Head(q) \in S
         /\ Len(q) \in Nat /\ 1 <= Len(q) /\ Len(Tail(q)) = Len(q) - 1
         /\ \A i \in 1 .. Len(Tail(q)) : i + 1 \in 1 .. Len(q) /\ Tail(q)[i] = q[i + 1]
OBVIOUS

\* Forwarding leaves every log in its place.
LEMMA AppendToChannel ==
  ASSUME NEW S, NEW q \in Seq(S), NEW x \in S
  PROVE  /\ Append(q, x) \in Seq(S) /\ Len(q) \in Nat /\ Len(Append(q, x)) = Len(q) + 1
         /\ \A i \in 1 .. Len(q) : Append(q, x)[i] = q[i]
         /\ Append(q, x)[Len(q) + 1] = x
OBVIOUS

-----------------------------------------------------------------------------
(* Types, the cursor, and the pools watched.                               *)

\* Pools that form a cycle are registered, and stay so as the registry grows.
LEMMA OnlyRegistered ==
  ASSUME NEW reg PROVE RouteCapable(reg) \subseteq reg
BY DEF RouteCapable

\* A pool that forms a cycle still does when more pools are registered.
LEMMA RouteCapableGrows ==
  ASSUME NEW small, NEW large, small \subseteq large
  PROVE  RouteCapable(small) \subseteq RouteCapable(large)
BY DEF RouteCapable

\* A log that is handed on is counted, and the cursor stays a log.
LEMMA DeliverTyped ==
  ASSUME FeedTyped, NEW l \in Log, Deliver(l)
  PROVE  cursor' \in Log \cup {NoLog} /\ handled' \in [Log -> Nat]
<1>1. handled \in [Log -> Nat] /\ cursor \in Log \cup {NoLog} /\ handled[l] + 1 \in Nat
  BY DEF FeedTyped
<1>2. CASE UNCHANGED <<cursor, handled>>
  BY <1>1, <1>2
<1>3. CASE cursor' = Advance(l) /\ handled' = [handled EXCEPT ![l] = @ + 1]
  BY <1>1, <1>3 DEF Advance
<1> QED
  BY <1>2, <1>3 DEF Deliver

\* Every step keeps the types.
LEMMA TypeStep == FeedTyped /\ [Next]_vars => FeedTyped'
<1> SUFFICES ASSUME FeedTyped, [Next]_vars PROVE FeedTyped'
  OBVIOUS
<1> USE DEF conn, pools
<1>1. CASE NewBlock
  <2>1. feed' \in [Shard -> SUBSET Log] /\ created' \subseteq Pool
    BY <1>1 DEF FeedTyped, NewBlock, Pushed, Announced
  <2> QED
    BY <1>1, <2>1, FeedAssumption DEF FeedTyped, NewBlock
<1>2. CASE Drop \/ Connect \/ RecoveryFails
  <2>1. CASE Drop
    BY <2>1 DEF FeedTyped, Drop
  <2>2. CASE Connect
    BY <2>2 DEF FeedTyped, Connect
  <2>3. CASE RecoveryFails
    BY <2>3 DEF FeedTyped, RecoveryFails
  <2> QED
    BY <1>2, <2>1, <2>2, <2>3
<1>3. ASSUME NEW s \in Shard, Forward(s) PROVE FeedTyped'
  <2>1. PICK l \in First(feed[s]) : agg' = Append(agg, l) /\ feed' = [feed EXCEPT ![s] = @ \ {l}]
    BY <1>3 DEF Forward
  <2>2. l \in Log
    BY <2>1 DEF FeedTyped, First
  <2>3. agg' \in Seq(Log)
    BY <2>1, <2>2, AppendToChannel DEF FeedTyped
  <2>4. feed' \in [Shard -> SUBSET Log]
    BY <2>1 DEF FeedTyped
  <2> QED
    BY <1>3, <2>3, <2>4 DEF FeedTyped, Forward
<1>4. CASE ReadHead
  <2>1. PICK h \in (head - HttpLag) .. head :
          /\ span' = [from |-> RecoverFrom, to |-> h]
          /\ pc' = IF RecoverFrom > h THEN "consume" ELSE "query"
    BY <1>4 DEF ReadHead
  <2>2. RecoverFrom \in Int /\ h \in Int
    BY FeedAssumption DEF FeedTyped, RecoverFrom
  <2> QED
    BY <1>4, <2>1, <2>2 DEF FeedTyped, ReadHead
<1>5. CASE Query
  BY <1>5 DEF FeedTyped, Query, LogsIn
<1>6. CASE RecoverLog
  <2>1. PICK l \in First(page) : Deliver(l) /\ page' = page \ {l}
    BY <1>6 DEF RecoverLog
  <2>2. l \in Log
    BY <2>1 DEF FeedTyped, First
  <2> QED
    BY <1>6, <2>1, <2>2, DeliverTyped DEF FeedTyped, RecoverLog
<1>7. CASE NextQuery
  <2>1. QueryEnd + 1 \in Int
    BY FeedAssumption DEF FeedTyped, QueryEnd
  <2> QED
    BY <1>7, <2>1 DEF FeedTyped, NextQuery
<1>8. CASE Consume
  <2>1. Head(agg) \in Log /\ Tail(agg) \in Seq(Log)
    BY <1>8, TailOfChannel DEF FeedTyped, Consume
  <2> QED
    BY <1>8, <2>1, DeliverTyped DEF FeedTyped, Consume
<1>9. CASE ConsumeCreated
  <2>1. created' \subseteq Pool /\ subscribed' \subseteq Pool /\ registry' \subseteq Pool
    BY <1>9 DEF FeedTyped, ConsumeCreated
  <2>2. resubscribe' \in BOOLEAN
    BY <1>9 DEF FeedTyped, ConsumeCreated
  <2> QED
    BY <1>9, <2>1, <2>2 DEF FeedTyped, ConsumeCreated
<1>10. ASSUME NEW p \in Pool, Discover(p) PROVE FeedTyped'
  BY <1>10 DEF FeedTyped, Discover
<1>11. CASE Close
  <2>1. subscribed' \subseteq Pool
    BY <1>11, OnlyRegistered DEF FeedTyped, Close
  <2>2. <<>> \in Seq(Log)
    OBVIOUS
  <2> QED
    BY <1>11, <2>1, <2>2 DEF FeedTyped, Close
<1>12. CASE UNCHANGED vars
  BY <1>12 DEF FeedTyped, vars
<1> QED
  BY <1>1, <1>2, <1>3, <1>4, <1>5, <1>6, <1>7, <1>8, <1>9, <1>10, <1>11, <1>12 DEF Next, Run

\* The process starts with nothing handled and nothing on its way.
LEMMA InitTyped == Init => FeedTyped
<1> SUFFICES ASSUME Init PROVE FeedTyped
  OBVIOUS
<1>1. <<>> \in Seq(Log) /\ RouteCapable(Known) \subseteq Pool /\ StartFrom \in Nat
  BY FeedAssumption, OnlyRegistered
<1>2. lost \in BOOLEAN /\ failed \in BOOLEAN /\ resubscribe \in BOOLEAN
  BY DEF Init
<1>3. feed \in [Shard -> SUBSET Log] /\ handled \in [Log -> Nat]
      /\ span \in [from : Int, to : Int]
  BY <1>1 DEF Init
<1> QED
  BY <1>1, <1>2, <1>3, FeedAssumption DEF Init, FeedTyped

\* Every variable of the feed keeps its type.
THEOREM FeedTypes == Spec => []FeedTyped
<1> QED
  BY InitTyped, TypeStep, PTL DEF Spec

\* Nothing but a delivery touches the cursor or the count of calls.
LEMMA OnlyDeliveries ==
  ASSUME FeedTyped, [Next]_vars
  PROVE  UNCHANGED <<cursor, handled>> \/ \E l \in Log : Deliver(l)
<1>1. CASE RecoverLog
  BY <1>1 DEF RecoverLog, First, FeedTyped
<1>2. CASE Consume
  BY <1>2, TailOfChannel DEF Consume, FeedTyped
<1> QED
  BY <1>1, <1>2 DEF Next, Run, NewBlock, Drop, Connect, Forward, ReadHead, Query, NextQuery,
     RecoveryFails, ConsumeCreated, Discover, Close, vars, conn, pools

\* A delivery keeps the cursor on top of what was handed on, and repeats a log
\* only of the cursor's block.
LEMMA DeliverCursor ==
  ASSUME FeedTyped, CursorInv, NEW m \in Log, Deliver(m)
  PROVE  /\ CursorInv'
         /\ \A l \in Log : handled[l] > 0 /\ handled'[l] # handled[l] => l.num = cursor.num
<1>1. \A l \in Log : l.num \in Nat
  BY FeedAssumption
<1>2. CASE Seen(m) /\ UNCHANGED <<cursor, handled>>
  BY <1>2 DEF CursorInv
<1>3. CASE ~Seen(m) /\ cursor' = Advance(m) /\ handled' = [handled EXCEPT ![m] = @ + 1]
  <2>1. \A l \in Log : handled'[l] = IF l = m THEN handled[l] + 1 ELSE handled[l]
    BY <1>3 DEF FeedTyped
  <2>2. handled[m] \in Nat /\ cursor \in Log \cup {NoLog} /\ NoLog \notin Log
    BY FeedAssumption DEF FeedTyped
  <2>3. CASE cursor = NoLog \/ m.num > cursor.num
    BY <1>1, <1>3, <2>1, <2>2, <2>3 DEF CursorInv, Advance
  <2>4. CASE cursor # NoLog /\ ~(m.num > cursor.num)
    BY <1>1, <1>3, <2>1, <2>2, <2>4 DEF CursorInv, Advance, Seen
  <2> QED
    BY <2>3, <2>4
<1> QED
  BY <1>2, <1>3 DEF Deliver

\* Every step keeps the cursor on top of what was handed on.
LEMMA CursorStep == FeedTyped /\ CursorInv /\ [Next]_vars => CursorInv'
BY OnlyDeliveries, DeliverCursor DEF CursorInv

\* The cursor is the highest block of a log handed on.
THEOREM CursorIsOnTop == Spec => []CursorInv
<1>1. Init => CursorInv
  BY DEF Init, CursorInv
<1> QED
  BY <1>1, CursorStep, FeedTypes, PTL DEF Spec

\* With any number of subscriptions, connections and failures: a log is handed
\* on again only while its block is the cursor's.
THEOREM RepeatsStayAtCursor == Spec => RepeatsOnlyAtCursor
<1>1. FeedTyped /\ CursorInv /\ [Next]_vars =>
        [\A l \in Log : handled[l] > 0 /\ handled'[l] # handled[l] => l.num = cursor.num]_vars
  BY OnlyDeliveries, DeliverCursor
<1> QED
  BY <1>1, FeedTypes, CursorIsOnTop, PTL DEF Spec, RepeatsOnlyAtCursor

\* The registry keeps the pools it started with, so a subscription that is built
\* again covers at least those of the first one.
LEMMA WatchStep == FeedTyped /\ StaysWatched /\ [Next]_vars => StaysWatched'
<1> SUFFICES ASSUME FeedTyped, StaysWatched, [Next]_vars PROVE StaysWatched'
  OBVIOUS
<1>1. CASE ConsumeCreated \/ \E p \in Pool : Discover(p)
  BY <1>1 DEF StaysWatched, ConsumeCreated, Discover, pools
<1>2. CASE Close
  <2>1. RouteCapable(Known) \subseteq RouteCapable(registry)
    BY RouteCapableGrows DEF StaysWatched
  <2> QED
    BY <1>2, <2>1 DEF StaysWatched, Close
<1> QED
  BY <1>1, <1>2 DEF StaysWatched, Next, Run, NewBlock, Drop, Connect, Forward, ReadHead, Query,
     RecoverLog, NextQuery, RecoveryFails, Consume, vars, conn, pools

\* The pools watched from the start are watched now.
LEMMA OriginalWatched ==
  ASSUME StaysWatched PROVE Original \subseteq Watched
<1>1. Known \subseteq Pool
  BY FeedAssumption
<1> QED
  BY <1>1, OnlyRegistered DEF Original, Watched, StaysWatched

-----------------------------------------------------------------------------
(* Order: one shard's logs are forwarded first to last, so what is in the  *)
(* aggregated channel precedes what is not.                                *)

\* A block's logs are pushed behind everything on its way.
LEMMA PushInOrder == FeedTyped /\ InOrder /\ NewBlock => InOrder'
<1> SUFFICES ASSUME FeedTyped, InOrder, NewBlock PROVE InOrder'
  OBVIOUS
<1>1. head \in Nat /\ head' = head + 1 /\ agg' = agg /\ (\A l \in Log : l.num \in Nat /\ l.pool \in Pool)
  BY FeedAssumption DEF FeedTyped, NewBlock
<1>2. ASSUME NEW s \in Shard, NEW l \in feed'[s]
      PROVE  l \in feed[s] \/ (l \in Log /\ l.num = head + 1 /\ ShardOf[l.pool] = s)
  BY <1>2 DEF FeedTyped, NewBlock, Pushed
<1>3. \A i \in 1 .. Len(agg) : agg[i] \in Log /\ agg[i].num \in Nat /\ agg[i].num <= head
  <2>1. agg \in Seq(Log)
    BY DEF FeedTyped
  <2>2. \A i \in 1 .. Len(agg) : agg[i] \in Log
    BY <2>1
  <2>3. \A i \in 1 .. Len(agg) : agg[i].num <= head
    BY DEF InOrder
  <2> QED
    BY <1>1, <2>2, <2>3
<1>4. \A s \in Shard : \A l \in feed[s] :
        l \in Log /\ l.num \in Nat /\ l.num <= head /\ ShardOf[l.pool] = s
  BY <1>1 DEF FeedTyped, InOrder
<1>5. \A s \in Shard : \A l \in feed'[s] :
        l.num <= head' /\ l.pool \in Pool /\ ShardOf[l.pool] = s
  BY <1>1, <1>2, <1>4 DEF InOrder
<1>6. \A i \in 1 .. Len(agg), s \in Shard : \A l \in feed'[s] : agg[i].num <= l.num
  BY <1>1, <1>2, <1>3 DEF InOrder
<1>7. \A i \in 1 .. Len(agg) : agg[i].num <= head'
  BY <1>1, <1>3
<1> QED
  BY <1>1, <1>5, <1>6, <1>7 DEF InOrder

\* The log forwarded is the first of all that wait in the one subscription.
LEMMA ForwardInOrder ==
  ASSUME OneOrderedSource, FeedTyped, InOrder, NEW s \in Shard, Forward(s)
  PROVE  InOrder'
<1>1. PICK l \in First(feed[s]) : agg' = Append(agg, l) /\ feed' = [feed EXCEPT ![s] = @ \ {l}]
  BY DEF Forward
<1>2. l \in feed[s] /\ l \in Log /\ head' = head /\ (\A m \in Log : m.num \in Nat)
  BY <1>1, FeedAssumption DEF First, FeedTyped, Forward
<1>3. \A t \in Shard : \A m \in feed[t] : t = s /\ m \in Log /\ l.num <= m.num
  <2> SUFFICES ASSUME NEW t \in Shard, NEW m \in feed[t]
               PROVE  t = s /\ m \in Log /\ l.num <= m.num
    OBVIOUS
  <2>1. t = s
    BY <1>2 DEF InOrder, OneOrderedSource
  <2>2. m \in Log
    BY DEF FeedTyped
  <2> QED
    BY <1>1, <1>2, <2>1, <2>2 DEF First, Before
<1>4. \A t \in Shard : feed'[t] \subseteq feed[t]
  BY <1>1 DEF FeedTyped
<1>5. /\ Len(agg) \in Nat /\ Len(agg') = Len(agg) + 1 /\ agg'[Len(agg) + 1] = l
      /\ \A i \in 1 .. Len(agg) : agg'[i] = agg[i]
  BY <1>1, <1>2, AppendToChannel DEF FeedTyped
<1>6. \A i \in 1 .. Len(agg') : i \in 1 .. Len(agg) \/ i = Len(agg) + 1
  BY <1>5
<1>7. \A i \in 1 .. Len(agg) : agg[i].num <= l.num /\ agg[i].num <= head
  BY <1>2 DEF InOrder
<1>8. l.num <= head /\ l.num <= l.num
  BY <1>2 DEF InOrder
<1>9. \A i, j \in 1 .. Len(agg') : i <= j => agg'[i].num <= agg'[j].num
  BY <1>5, <1>6, <1>7, <1>8 DEF InOrder
<1>10. \A i \in 1 .. Len(agg'), t \in Shard : \A m \in feed'[t] : agg'[i].num <= m.num
  <2> SUFFICES ASSUME NEW i \in 1 .. Len(agg'), NEW t \in Shard, NEW m \in feed'[t]
               PROVE  agg'[i].num <= m.num
    OBVIOUS
  <2>1. m \in feed[t]
    BY <1>4
  <2>2. CASE i \in 1 .. Len(agg)
    BY <1>5, <2>1, <2>2 DEF InOrder
  <2>3. CASE i = Len(agg) + 1
    BY <1>3, <1>5, <2>1, <2>3
  <2> QED
    BY <1>6, <2>2, <2>3
<1>11. \A i \in 1 .. Len(agg') : agg'[i].num <= head'
  BY <1>2, <1>5, <1>6, <1>7, <1>8
<1>12. \A t \in Shard : \A m \in feed'[t] :
         m.num <= head' /\ m.pool \in Pool /\ ShardOf[m.pool] = t
  BY <1>2, <1>4 DEF InOrder
<1> QED
  BY <1>9, <1>10, <1>11, <1>12 DEF InOrder

\* Taking the head leaves the order of the rest.
LEMMA ConsumeInOrder == FeedTyped /\ InOrder /\ Consume => InOrder'
<1> SUFFICES ASSUME FeedTyped, InOrder, Consume PROVE InOrder'
  OBVIOUS
<1>1. /\ Len(agg) \in Nat /\ Len(agg') = Len(agg) - 1
      /\ \A i \in 1 .. Len(agg') : i + 1 \in 1 .. Len(agg) /\ agg'[i] = agg[i + 1]
  BY TailOfChannel DEF FeedTyped, Consume
<1>2. UNCHANGED <<head, feed>>
  BY DEF Consume
<1>3. \A i, j \in 1 .. Len(agg') : i <= j => i + 1 <= j + 1
  OBVIOUS
<1> QED
  BY <1>1, <1>2, <1>3 DEF InOrder

\* Every step keeps the order.
LEMMA OrderStep ==
  ASSUME OneOrderedSource PROVE FeedTyped /\ InOrder /\ [Next]_vars => InOrder'
<1> SUFFICES ASSUME FeedTyped, InOrder, [Next]_vars PROVE InOrder'
  OBVIOUS
<1>1. CASE NewBlock
  BY <1>1, PushInOrder
<1>2. CASE \E s \in Shard : Forward(s)
  BY <1>2, ForwardInOrder
<1>3. CASE Consume
  BY <1>3, ConsumeInOrder
<1>4. CASE Close
  <2>1. Len(agg') = 0 /\ \A s \in Shard : feed'[s] = {}
    BY <1>4 DEF Close
  <2> QED
    BY <2>1 DEF InOrder
<1>5. CASE UNCHANGED <<head, feed, agg>>
  BY <1>5 DEF InOrder
<1> QED
  BY <1>1, <1>2, <1>3, <1>4, <1>5 DEF Next, Run, Drop, Connect, ReadHead, Query, RecoverLog,
     NextQuery, RecoveryFails, ConsumeCreated, Discover, vars, conn

\* Logs have heights.
LEMMA LogHeights == \A l \in Log : l.num \in Nat /\ l.pool \in Pool
BY FeedAssumption

\* Every step keeps cursor and recovery below the head.
LEMMA HeadStep == FeedTyped /\ InOrder /\ BelowHead /\ [Next]_vars => BelowHead'
<1> SUFFICES ASSUME FeedTyped, InOrder, BelowHead, [Next]_vars PROVE BelowHead'
  OBVIOUS
<1>1. /\ head \in Nat /\ cursor \in Log \cup {NoLog} /\ span.from \in Int /\ span.to \in Int
      /\ Chunk \in Nat \ {0} /\ HttpLag \in Nat
      /\ \A l \in Log : l.num \in Nat
  BY LogHeights, FeedAssumption DEF FeedTyped
<1>2. ASSUME NEW m \in Log, Deliver(m), m.num <= head, head' = head
      PROVE  cursor' # NoLog => cursor'.num <= head'
  BY <1>2 DEF BelowHead, Deliver, Advance
<1>3. CASE NewBlock
  <2>1. /\ head' = head + 1 /\ page \subseteq Log
        /\ UNCHANGED <<pc, cursor, span, page>>
    BY <1>3 DEF NewBlock, FeedTyped
  <2>2. /\ cursor' # NoLog => cursor'.num <= head'
        /\ Recovering' => span'.to <= head'
    BY <1>1, <2>1 DEF BelowHead, Recovering
  <2>3. pc' = "page" => \A l \in page' : l.num <= head'
    BY <1>1, <2>1 DEF BelowHead
  <2> QED
    BY <2>2, <2>3 DEF BelowHead
<1>4. CASE ReadHead
  <2>1. PICK h \in (head - HttpLag) .. head :
          /\ span' = [from |-> RecoverFrom, to |-> h]
          /\ pc' = IF RecoverFrom > h THEN "consume" ELSE "query"
    BY <1>4 DEF ReadHead
  <2>2. span'.to = h /\ h <= head /\ pc' # "page" /\ UNCHANGED <<head, cursor>>
    BY <1>1, <1>4, <2>1 DEF ReadHead
  <2> QED
    BY <2>2 DEF BelowHead
<1>5. CASE Query
  <2>1. QueryEnd \in Int /\ QueryEnd <= span.to /\ span.to <= head
    BY <1>1, <1>5 DEF QueryEnd, BelowHead, Query, Recovering
  <2> QED
    BY <1>1, <1>5, <2>1 DEF BelowHead, Query, LogsIn, Recovering
<1>6. CASE RecoverLog
  <2>1. PICK m \in First(page) : Deliver(m) /\ page' = page \ {m}
    BY <1>6 DEF RecoverLog
  <2>2. m \in Log /\ m.num <= head
    BY <1>6, <2>1 DEF First, FeedTyped, BelowHead, RecoverLog
  <2> QED
    BY <1>2, <1>6, <2>1, <2>2 DEF BelowHead, RecoverLog, Recovering
<1>7. CASE NextQuery
  BY <1>7 DEF BelowHead, NextQuery, Recovering, FeedTyped
<1>8. CASE Consume
  <2>1. Head(agg) \in Log /\ Head(agg).num <= head
    BY <1>8, TailOfChannel DEF FeedTyped, InOrder, Consume
  <2> QED
    BY <1>2, <1>8, <2>1 DEF BelowHead, Consume, Recovering
<1>9. CASE RecoveryFails \/ Connect \/ Close
  BY <1>9 DEF BelowHead, RecoveryFails, Connect, Close, Recovering
<1>10. CASE UNCHANGED <<head, pc, cursor, span, page>>
  BY <1>10 DEF BelowHead, Recovering
<1> QED
  BY <1>3, <1>4, <1>5, <1>6, <1>7, <1>8, <1>9, <1>10 DEF Next, Run, Drop, Forward,
     ConsumeCreated, Discover, vars, conn

-----------------------------------------------------------------------------
(* Accounting: where each log owed is, step by step.                       *)

\* The log delivered, when it is owed, has been handed on afterwards: one that
\* is skipped as seen was handed on before.
LEMMA DeliveredIsHandled ==
  ASSUME FeedTyped, CursorInv, NothingBehind, NEW m \in Log, Deliver(m)
  PROVE  /\ \A l \in Log : handled[l] > 0 => handled'[l] > 0
         /\ m \in Owed => handled'[m] > 0
<1>1. CASE Seen(m) /\ UNCHANGED <<cursor, handled>>
  BY <1>1 DEF Seen, NothingBehind, CursorInv
<1>2. CASE handled' = [handled EXCEPT ![m] = @ + 1]
  <2>1. \A l \in Log : handled[l] \in Nat /\ handled'[l] = IF l = m THEN handled[l] + 1 ELSE handled[l]
    BY <1>2 DEF FeedTyped
  <2> QED
    BY <2>1
<1> QED
  BY <1>1, <1>2 DEF Deliver

\* A delivery keeps everything behind the cursor handed on, when everything
\* below the log delivered is.
LEMMA DeliverSkipsNothing ==
  ASSUME FeedTyped, CursorInv, NothingBehind, NEW m \in Log, Deliver(m),
         \A l \in Owed : l.num < m.num => handled[l] > 0
  PROVE  NothingBehind'
<1>1. \A l \in Owed : l \in Log /\ (handled[l] > 0 => handled'[l] > 0)
  BY DeliveredIsHandled DEF Owed
<1>2. CASE UNCHANGED cursor
  BY <1>1, <1>2 DEF NothingBehind, Owed, Original
<1>3. CASE cursor' = m
  BY <1>1, <1>3 DEF NothingBehind, Owed, Original
<1> QED
  BY <1>2, <1>3 DEF Deliver, Advance

\* A new block is pushed to a connection that stands, and covered by nothing
\* when it is lost; then nothing that comes later is on its way either.
LEMMA PushAccounted ==
  ASSUME FeedInv, ~failed, NewBlock PROVE Accounted'
<1>1. /\ head \in Nat /\ head' = head + 1 /\ feed \in [Shard -> SUBSET Log]
      /\ UNCHANGED <<pc, lost, agg, span, page, handled>>
      /\ feed' = IF Connected THEN [s \in Shard |-> feed[s] \cup Pushed(s, head + 1)] ELSE feed
  BY DEF FeedInv, FeedTyped, NewBlock
<1>2. \A l \in Log : Covered(l) => Covered(l)'
  BY <1>1 DEF Covered, OnItsWay, Waiting, Pushing, ToRecover, QueryEnd
<1>3. \A l \in Log : OnItsWay(l)' => OnItsWay(l) \/ (Connected /\ l.num = head + 1)
  BY <1>1 DEF OnItsWay, Waiting, Pushing, Pushed
<1>4. ASSUME NEW l \in Owed, l.num = head + 1, Connected PROVE Covered(l)'
  <2>1. l \in Log /\ l.pool \in Watched /\ ShardOf[l.pool] \in Shard
    BY OriginalWatched, FeedAssumption DEF Owed, FeedInv
  <2>2. l \in feed'[ShardOf[l.pool]]
    BY <1>1, <1>4, <2>1 DEF Pushed
  <2> QED
    BY <2>1, <2>2 DEF Covered, OnItsWay, Pushing
<1>5. ASSUME pc \in {"query", "page", "consume"} PROVE
        /\ ~lost => \A l \in Owed : l.num <= head + 1 => Covered(l)'
        /\ \A m \in Log : OnItsWay(m)' => \A l \in Owed : l.num < m.num => Covered(l)'
  <2>1. ~lost => \A l \in Owed : l.num <= head => Covered(l)
    BY <1>5 DEF FeedInv, Accounted, Recovering
  <2>2. \A m \in Log : OnItsWay(m) => \A l \in Owed : l.num < m.num => Covered(l)
    BY <1>5 DEF FeedInv, Accounted, Recovering
  <2>3. \A l \in Owed : l \in Log /\ l.num \in Nat
    BY LogHeights DEF Owed
  <2>4. Connected <=> ~lost
    BY <1>5 DEF Connected
  <2>5. ~lost => \A l \in Owed : l.num <= head + 1 => Covered(l)'
    BY <1>1, <1>2, <1>4, <2>1, <2>3, <2>4
  <2>6. ASSUME NEW m \in Log, OnItsWay(m)', NEW l \in Owed, l.num < m.num PROVE Covered(l)'
    BY <1>1, <1>2, <1>3, <2>1, <2>2, <2>3, <2>4, <2>6
  <2> QED
    BY <2>5, <2>6
<1>6. \A l \in Log : handled[l] > 0 \/ ToRecover(l) => handled'[l] > 0 \/ ToRecover(l)'
  BY <1>1 DEF ToRecover, QueryEnd
<1>7. /\ Recovering' = Recovering /\ QueryEnd' = QueryEnd /\ Owed' = Owed
      /\ \A l \in Owed : l \in Log
  BY <1>1 DEF Recovering, QueryEnd, Owed, Original
<1>8. Recovering \/ pc = "consume" <=> pc \in {"query", "page", "consume"}
  BY DEF Recovering
<1>9. (Recovering \/ pc = "consume" =>
        /\ ~lost => \A l \in Owed : l.num <= head => Covered(l)
        /\ \A m \in Log : OnItsWay(m) => \A l \in Owed : l.num < m.num => Covered(l))'
  BY <1>1, <1>5, <1>7, <1>8
<1>10. (Recovering => \A l \in Owed : l.num <= span.to => handled[l] > 0 \/ ToRecover(l))'
  BY <1>1, <1>6, <1>7 DEF FeedInv, Accounted
<1>11. (pc = "page" => \A l \in page : l.num <= QueryEnd /\ QueryEnd <= span.to)'
  BY <1>1, <1>7 DEF FeedInv, Accounted
<1> QED
  BY <1>9, <1>10, <1>11 DEF Accounted

\* A step of the loop that stays where it is, brings nothing on its way, and
\* leaves every log owed accounted for.
LEMMA AccountedFrame ==
  ASSUME Accounted, UNCHANGED <<head, pc, span>>, lost' \/ ~lost, page' \subseteq page,
         \A l \in Log : OnItsWay(l)' => OnItsWay(l),
         \A l \in Owed : Covered(l) => Covered(l)',
         \A l \in Owed : handled[l] > 0 \/ ToRecover(l) => handled'[l] > 0 \/ ToRecover(l)'
  PROVE  Accounted'
<1>1. /\ Recovering' = Recovering /\ QueryEnd' = QueryEnd /\ Owed' = Owed
  BY DEF Recovering, QueryEnd, Owed, Original
<1>2. (Recovering \/ pc = "consume" =>
        /\ ~lost => \A l \in Owed : l.num <= head => Covered(l)
        /\ \A m \in Log : OnItsWay(m) => \A l \in Owed : l.num < m.num => Covered(l))'
  BY <1>1 DEF Accounted
<1>3. (Recovering => \A l \in Owed : l.num <= span.to => handled[l] > 0 \/ ToRecover(l))'
  BY <1>1 DEF Accounted
<1>4. (pc = "page" => \A l \in page : l.num <= QueryEnd /\ QueryEnd <= span.to)'
  BY <1>1 DEF Accounted
<1> QED
  BY <1>2, <1>3, <1>4 DEF Accounted

\* A log that is forwarded is still on its way.
LEMMA ForwardAccounted ==
  ASSUME FeedInv, Accounted, NEW s \in Shard, Forward(s) PROVE Accounted'
<1>1. PICK x \in First(feed[s]) : agg' = Append(agg, x) /\ feed' = [feed EXCEPT ![s] = @ \ {x}]
  BY DEF Forward
<1>2. /\ x \in feed[s] /\ x \in Log /\ feed \in [Shard -> SUBSET Log] /\ agg \in Seq(Log)
      /\ UNCHANGED <<head, pc, lost, span, page, handled>>
  BY <1>1 DEF First, FeedInv, FeedTyped, Forward
<1>3. /\ Len(agg) \in Nat /\ Len(agg') = Len(agg) + 1 /\ agg'[Len(agg) + 1] = x
      /\ \A i \in 1 .. Len(agg) : agg'[i] = agg[i]
  BY <1>1, <1>2, AppendToChannel
<1>4. ASSUME NEW l \in Log PROVE OnItsWay(l)' <=> OnItsWay(l)
  <2>1. Waiting(l)' <=> Waiting(l) \/ l = x
    <3>1. \A i \in 1 .. Len(agg') : i \in 1 .. Len(agg) \/ i = Len(agg) + 1
      BY <1>3
    <3>2. 1 .. Len(agg) \subseteq 1 .. Len(agg') /\ Len(agg) + 1 \in 1 .. Len(agg')
      BY <1>3
    <3> QED
      BY <1>3, <3>1, <3>2 DEF Waiting
  <2>2. Pushing(l)' => Pushing(l)
    BY <1>1, <1>2 DEF Pushing
  <2>3. Pushing(l) => Pushing(l)' \/ l = x
    BY <1>1, <1>2 DEF Pushing
  <2>4. Pushing(x)
    BY <1>2 DEF Pushing
  <2> QED
    BY <2>1, <2>2, <2>3, <2>4 DEF OnItsWay
<1>5. \A l \in Log : ToRecover(l)' <=> ToRecover(l)
  BY <1>2 DEF ToRecover, QueryEnd
<1>6. \A l \in Owed : l \in Log
  BY DEF Owed
<1>7. \A l \in Owed : Covered(l) => Covered(l)'
  BY <1>2, <1>4, <1>5, <1>6 DEF Covered
<1>8. \A l \in Owed : handled[l] > 0 \/ ToRecover(l) => handled'[l] > 0 \/ ToRecover(l)'
  BY <1>2, <1>5, <1>6
<1>9. lost' \/ ~lost
  BY <1>2
<1> QED
  BY <1>2, <1>4, <1>7, <1>8, <1>9, AccountedFrame

\* With the head read, every block up to it is handled or to be recovered:
\* recovery starts in the cursor's block, and nothing behind it is missing.
LEMMA ReadHeadAccounted ==
  ASSUME OneOrderedSource, FeedInv, NothingBehind, ReadHead PROVE Accounted'
<1>1. /\ head \in Nat /\ StartFrom \in Nat /\ StartFrom <= head
      /\ cursor \in Log \cup {NoLog} /\ (cursor # NoLog => cursor.num \in Nat /\ cursor.num <= head)
      /\ UNCHANGED <<head, lost, feed, agg, cursor, page, handled>>
      /\ Owed' = Owed
  <2>1. cursor # NoLog => cursor \in Log /\ cursor.num \in Nat
    BY LogHeights DEF FeedInv, FeedTyped
  <2> QED
    BY <2>1, FeedAssumption DEF FeedInv, FeedTyped, BelowHead, ReadHead, conn, Owed, Original
<1>2. span' = [from |-> RecoverFrom, to |-> head] /\ RecoverFrom <= head /\ pc' = "query"
  BY <1>1 DEF ReadHead, OneOrderedSource, RecoverFrom
<1>3. RecoverFrom \in Int /\ \A l \in Owed : l \in Log /\ l.num \in Nat /\ StartFrom <= l.num
  BY <1>1, LogHeights DEF Owed, RecoverFrom
<1>4. ASSUME NEW l \in Owed, l.num <= head
      PROVE  handled'[l] > 0 \/ ToRecover(l)'
  <2>1. CASE l.num < RecoverFrom
    BY <1>1, <1>3, <2>1 DEF NothingBehind, RecoverFrom
  <2>2. CASE RecoverFrom <= l.num
    BY <1>2, <1>4, <2>2 DEF ToRecover
  <2> QED
    BY <1>3, <2>1, <2>2
<1>5. \A m \in Log : OnItsWay(m)' => m.num <= head
  BY <1>1 DEF OnItsWay, Waiting, Pushing, FeedInv, InOrder
<1>6. ASSUME NEW m \in Log, OnItsWay(m)', NEW l \in Owed, l.num < m.num PROVE Covered(l)'
  BY <1>1, <1>3, <1>4, <1>5, <1>6, LogHeights DEF Covered
<1>7. \A l \in Owed : l.num <= head => Covered(l)'
  BY <1>4 DEF Covered
<1> QED
  BY <1>1, <1>2, <1>4, <1>6, <1>7 DEF Accounted

\* A query takes the logs of its chunk; those of later chunks stay to recover.
LEMMA QueryAccounted ==
  ASSUME FeedInv, Accounted, Query PROVE Accounted'
<1>1. /\ pc = "query" /\ pc' = "page" /\ page' = LogsIn(span.from, QueryEnd)
      /\ UNCHANGED <<head, lost, feed, agg, span, handled>>
      /\ span.from \in Int /\ span.to \in Int
      /\ Owed' = Owed /\ QueryEnd' = QueryEnd
  BY DEF Query, conn, FeedInv, FeedTyped, Owed, Original, QueryEnd
<1>2. QueryEnd \in Int /\ QueryEnd <= span.to
  BY <1>1, FeedAssumption DEF QueryEnd
<1>3. ASSUME NEW l \in Log PROVE /\ ToRecover(l) => ToRecover(l)'
                                 /\ Covered(l) => Covered(l)'
                                 /\ OnItsWay(l)' <=> OnItsWay(l)
  <2>1. ToRecover(l) => ToRecover(l)'
    BY <1>1, <1>2, LogHeights DEF ToRecover, LogsIn
  <2>2. OnItsWay(l)' <=> OnItsWay(l)
    BY <1>1 DEF OnItsWay, Waiting, Pushing
  <2> QED
    BY <1>1, <2>1, <2>2 DEF Covered
<1>4. \A l \in Owed : l \in Log
  BY DEF Owed
<1>5. \A l \in page' : l.num <= QueryEnd
  BY <1>1, <1>2, LogHeights DEF LogsIn
<1>6. /\ ~lost => \A l \in Owed : l.num <= head => Covered(l)'
      /\ \A m \in Log : OnItsWay(m)' => \A l \in Owed : l.num < m.num => Covered(l)'
  <2>1. /\ ~lost => \A l \in Owed : l.num <= head => Covered(l)
        /\ \A m \in Log : OnItsWay(m) => \A l \in Owed : l.num < m.num => Covered(l)
    BY <1>1 DEF Accounted, Recovering
  <2> QED
    BY <1>3, <1>4, <2>1
<1>7. \A l \in Owed : l.num <= span.to => handled'[l] > 0 \/ ToRecover(l)'
  <2>1. \A l \in Owed : l.num <= span.to => handled[l] > 0 \/ ToRecover(l)
    BY <1>1 DEF Accounted, Recovering
  <2> QED
    BY <1>1, <1>3, <1>4, <2>1
<1> QED
  BY <1>1, <1>2, <1>5, <1>6, <1>7 DEF Accounted

\* The log recovery takes from its page is the first of the gap that is left:
\* all that comes before it is handled.
LEMMA RecoverAccounted ==
  ASSUME FeedInv, NothingBehind, Accounted, RecoverLog
  PROVE  NothingBehind' /\ Accounted'
<1>1. PICK x \in First(page) : Deliver(x) /\ page' = page \ {x}
  BY DEF RecoverLog
<1>2. /\ x \in page /\ x \in Log /\ page \subseteq Log /\ pc = "page"
      /\ UNCHANGED <<head, pc, lost, feed, agg, span>>
      /\ span.to \in Int /\ span.from \in Int
      /\ \A l \in Owed : l \in Log
      /\ \A l \in Log : l.num \in Nat
  BY <1>1, LogHeights DEF First, FeedInv, FeedTyped, RecoverLog, conn, Owed
<1>3. x.num <= QueryEnd /\ QueryEnd <= span.to /\ QueryEnd \in Int
  BY <1>2, FeedAssumption DEF Accounted, QueryEnd
<1>4. ASSUME NEW l \in Owed, l.num < x.num PROVE handled[l] > 0
  <2>1. l.num <= span.to
    BY <1>2, <1>3, <1>4
  <2>2. l \notin page
    BY <1>1, <1>2, <1>4 DEF First, Before
  <2>3. handled[l] > 0 \/ ToRecover(l)
    BY <1>2, <2>1 DEF Accounted, Recovering
  <2> QED
    BY <1>2, <1>3, <1>4, <2>2, <2>3 DEF ToRecover
<1>5. NothingBehind'
  BY <1>1, <1>2, <1>4, DeliverSkipsNothing DEF FeedInv
<1>6. /\ \A l \in Log : handled[l] > 0 => handled'[l] > 0
      /\ x \in Owed => handled'[x] > 0
  BY <1>1, <1>2, DeliveredIsHandled DEF FeedInv
<1>7. \A l \in Log : OnItsWay(l)' <=> OnItsWay(l)
  BY <1>2 DEF OnItsWay, Waiting, Pushing
<1>8. ASSUME NEW l \in Owed, handled[l] > 0 \/ ToRecover(l)
      PROVE  handled'[l] > 0 \/ ToRecover(l)'
  BY <1>1, <1>2, <1>6, <1>8 DEF ToRecover, QueryEnd
<1>9. \A l \in Owed : Covered(l) => Covered(l)'
  BY <1>2, <1>6, <1>7, <1>8 DEF Covered
<1>10. page' \subseteq page /\ (lost' \/ ~lost)
  BY <1>1, <1>2 DEF FeedInv, FeedTyped
<1>11. Accounted'
  BY <1>2, <1>7, <1>8, <1>9, <1>10, AccountedFrame
<1> QED
  BY <1>5, <1>11

\* With the page gone through, the gap begins behind its chunk; after the last
\* chunk what is not handled is on its way.
LEMMA NextQueryAccounted ==
  ASSUME FeedInv, Accounted, NextQuery PROVE Accounted'
<1>1. /\ pc = "page" /\ page = {} /\ span' = [span EXCEPT !.from = QueryEnd + 1]
      /\ pc' = IF QueryEnd + 1 > span.to THEN "consume" ELSE "query"
      /\ UNCHANGED <<head, lost, feed, agg, page, handled>>
      /\ span \in [from : Int, to : Int] /\ span.from \in Int /\ span.to \in Int
      /\ Owed' = Owed
  BY DEF NextQuery, conn, FeedInv, FeedTyped, Owed, Original
<1>2. QueryEnd \in Int /\ QueryEnd <= span.to
  BY <1>1, FeedAssumption DEF QueryEnd
<1>3. span'.from = QueryEnd + 1 /\ span'.to = span.to
  BY <1>1
<1>4. ASSUME NEW l \in Log PROVE /\ ToRecover(l) => ToRecover(l)'
                                 /\ Covered(l) => Covered(l)'
                                 /\ OnItsWay(l)' <=> OnItsWay(l)
  <2>1. ToRecover(l) => ToRecover(l)'
    BY <1>1, <1>2, <1>3, LogHeights DEF ToRecover
  <2>2. OnItsWay(l)' <=> OnItsWay(l)
    BY <1>1 DEF OnItsWay, Waiting, Pushing
  <2> QED
    BY <1>1, <2>1, <2>2 DEF Covered
<1>5. \A l \in Owed : l \in Log
  BY DEF Owed
<1>6. /\ ~lost => \A l \in Owed : l.num <= head => Covered(l)'
      /\ \A m \in Log : OnItsWay(m)' => \A l \in Owed : l.num < m.num => Covered(l)'
  <2>1. /\ ~lost => \A l \in Owed : l.num <= head => Covered(l)
        /\ \A m \in Log : OnItsWay(m) => \A l \in Owed : l.num < m.num => Covered(l)
    BY <1>1 DEF Accounted, Recovering
  <2> QED
    BY <1>4, <1>5, <2>1
<1>7. \A l \in Owed : l.num <= span.to => handled'[l] > 0 \/ ToRecover(l)'
  <2>1. \A l \in Owed : l.num <= span.to => handled[l] > 0 \/ ToRecover(l)
    BY <1>1 DEF Accounted, Recovering
  <2> QED
    BY <1>1, <1>4, <1>5, <2>1
<1>8. pc' # "page"
  BY <1>1
<1> QED
  BY <1>1, <1>3, <1>6, <1>7, <1>8 DEF Accounted

\* The log the loop takes is the first of all on their way: all that comes
\* before it is handled.
LEMMA ConsumeAccounted ==
  ASSUME FeedInv, NothingBehind, Accounted, Consume
  PROVE  NothingBehind' /\ Accounted'
<1> DEFINE x == Head(agg)
<1>1. /\ x \in Log /\ x = agg[1] /\ 1 \in 1 .. Len(agg) /\ Len(agg) \in Nat
      /\ Len(agg') = Len(agg) - 1 /\ Deliver(x)
      /\ \A i \in 1 .. Len(agg') : i + 1 \in 1 .. Len(agg) /\ agg'[i] = agg[i + 1]
  BY TailOfChannel DEF FeedInv, FeedTyped, Consume
<1>2. /\ pc = "consume" /\ UNCHANGED <<head, pc, lost, feed, span, page>>
      /\ \A l \in Owed : l \in Log
      /\ \A l \in Log : l.num \in Nat
  BY LogHeights DEF Consume, Owed
<1> HIDE DEF x
<1>3. ASSUME NEW m \in Log, OnItsWay(m) PROVE x.num <= m.num
  <2>1. CASE Waiting(m)
    BY <1>1, <2>1 DEF Waiting, FeedInv, InOrder
  <2>2. CASE Pushing(m)
    BY <1>1, <2>2 DEF Pushing, FeedInv, InOrder
  <2> QED
    BY <1>3, <2>1, <2>2 DEF OnItsWay
<1>4. OnItsWay(x)
  BY <1>1 DEF OnItsWay, Waiting
<1>5. ASSUME NEW l \in Owed, l.num < x.num PROVE handled[l] > 0
  <2>1. Covered(l)
    BY <1>1, <1>2, <1>4, <1>5 DEF Accounted
  <2>2. ~OnItsWay(l) /\ ~ToRecover(l)
    BY <1>1, <1>2, <1>3, <1>5 DEF ToRecover
  <2> QED
    BY <2>1, <2>2 DEF Covered
<1>6. NothingBehind'
  BY <1>1, <1>5, DeliverSkipsNothing DEF FeedInv
<1>7. /\ \A l \in Log : handled[l] > 0 => handled'[l] > 0
      /\ x \in Owed => handled'[x] > 0
  BY <1>1, DeliveredIsHandled DEF FeedInv
<1>8. ASSUME NEW l \in Log PROVE /\ OnItsWay(l)' => OnItsWay(l)
                                 /\ OnItsWay(l) => OnItsWay(l)' \/ l = x
  <2>1. Waiting(l)' => Waiting(l)
    BY <1>1 DEF Waiting
  <2>2. Waiting(l) => Waiting(l)' \/ l = x
    <3> SUFFICES ASSUME NEW i \in 1 .. Len(agg), agg[i] = l, i # 1 PROVE Waiting(l)'
      BY <1>1 DEF Waiting
    <3>1. i - 1 \in 1 .. Len(agg') /\ agg'[i - 1] = l
      BY <1>1
    <3> QED
      BY <3>1 DEF Waiting
  <2>3. Pushing(l)' <=> Pushing(l)
    BY <1>2 DEF Pushing
  <2> QED
    BY <2>1, <2>2, <2>3 DEF OnItsWay
<1>9. \A l \in Log : ToRecover(l)' <=> ToRecover(l)
  BY <1>2 DEF ToRecover, QueryEnd
<1>10. ASSUME NEW l \in Owed, handled[l] > 0 \/ ToRecover(l)
       PROVE  handled'[l] > 0 \/ ToRecover(l)'
  BY <1>2, <1>7, <1>9, <1>10
<1>11. \A l \in Owed : Covered(l) => Covered(l)'
  BY <1>2, <1>7, <1>8, <1>10 DEF Covered
<1>12. UNCHANGED <<head, pc, span>> /\ page' \subseteq page /\ (lost' \/ ~lost)
  BY <1>2 DEF FeedInv, FeedTyped
<1>13. \A l \in Log : OnItsWay(l)' => OnItsWay(l)
  BY <1>8
<1>14. \A l \in Owed : handled[l] > 0 \/ ToRecover(l) => handled'[l] > 0 \/ ToRecover(l)'
  BY <1>10
<1>15. Accounted'
  BY <1>11, <1>12, <1>13, <1>14, AccountedFrame
<1> QED
  BY <1>6, <1>15

\* As long as no recovery fails, every step leaves each log owed accounted for
\* and nothing unhandled behind the cursor.
LEMMA AccountStep ==
  ASSUME OneOrderedSource, FeedInv, [Next]_vars, ~failed'
  PROVE  NothingBehind' /\ Accounted'
<1>1. NothingBehind /\ Accounted /\ FeedTyped /\ CursorInv
  <2>1. ~failed
    BY DEF Next, Run, NewBlock, Drop, Connect, Forward, ReadHead, Query, RecoverLog, NextQuery,
       RecoveryFails, Consume, ConsumeCreated, Discover, Close, vars
  <2> QED
    BY <2>1 DEF FeedInv
<1>2. ASSUME UNCHANGED <<cursor, handled>> PROVE NothingBehind'
  BY <1>1, <1>2 DEF NothingBehind, Owed, Original
<1>3. CASE NewBlock
  <2>1. ~failed /\ UNCHANGED <<cursor, handled>>
    BY <1>3 DEF NewBlock
  <2> QED
    BY <1>2, <1>3, <2>1, PushAccounted
<1>4. ASSUME NEW s \in Shard, Forward(s) PROVE NothingBehind' /\ Accounted'
  <2>1. UNCHANGED <<cursor, handled>>
    BY <1>4 DEF Forward
  <2> QED
    BY <1>1, <1>2, <1>4, <2>1, ForwardAccounted
<1>5. CASE ReadHead
  <2>1. UNCHANGED <<cursor, handled>>
    BY <1>5 DEF ReadHead
  <2> QED
    BY <1>1, <1>2, <1>5, <2>1, ReadHeadAccounted
<1>6. CASE Query
  <2>1. UNCHANGED <<cursor, handled>>
    BY <1>6 DEF Query
  <2> QED
    BY <1>1, <1>2, <1>6, <2>1, QueryAccounted
<1>7. CASE RecoverLog
  BY <1>1, <1>7, RecoverAccounted
<1>8. CASE NextQuery
  <2>1. UNCHANGED <<cursor, handled>>
    BY <1>8 DEF NextQuery
  <2> QED
    BY <1>1, <1>2, <1>8, <2>1, NextQueryAccounted
<1>9. CASE Consume
  BY <1>1, <1>9, ConsumeAccounted
<1>10. CASE Connect \/ Close
  <2>1. UNCHANGED <<cursor, handled>> /\ pc' \in {"dial", "recover"}
    BY <1>10 DEF Connect, Close
  <2> QED
    BY <1>2, <2>1 DEF Accounted, Recovering
<1>11. CASE RecoveryFails
  BY <1>11 DEF RecoveryFails
<1>12. CASE UNCHANGED <<head, pc, feed, agg, cursor, span, page, handled>> /\ (lost' \/ ~lost)
  <2>1. \A l \in Log : /\ OnItsWay(l)' <=> OnItsWay(l)
                       /\ ToRecover(l)' <=> ToRecover(l)
    BY <1>12 DEF OnItsWay, Waiting, Pushing, ToRecover, QueryEnd
  <2>2. /\ \A l \in Log : OnItsWay(l)' => OnItsWay(l)
        /\ \A l \in Owed : Covered(l) => Covered(l)'
        /\ \A l \in Owed : handled[l] > 0 \/ ToRecover(l) => handled'[l] > 0 \/ ToRecover(l)'
    BY <1>12, <2>1 DEF Owed, Covered
  <2>3. UNCHANGED <<head, pc, span>> /\ page' \subseteq page
    BY <1>12
  <2> QED
    BY <1>1, <1>2, <1>12, <2>2, <2>3, AccountedFrame
<1>13. CASE Drop \/ ConsumeCreated \/ \E p \in Pool : Discover(p)
  BY <1>12, <1>13 DEF Drop, ConsumeCreated, Discover, conn
<1>14. CASE UNCHANGED vars
  BY <1>1, <1>12, <1>14 DEF vars, conn, FeedTyped
<1> QED
  BY <1>3, <1>4, <1>5, <1>6, <1>7, <1>8, <1>9, <1>10, <1>11, <1>13, <1>14 DEF Next, Run

\* With one subscription and an HTTP node that knows the head, the feed keeps
\* its invariant.
THEOREM FeedInductive ==
  ASSUME OneOrderedSource PROVE Spec => []FeedInv
<1>1. Init => FeedInv
  <2> SUFFICES ASSUME Init PROVE FeedInv
    OBVIOUS
  <2>1. CursorInv /\ StaysWatched /\ NothingBehind
    BY DEF Init, CursorInv, StaysWatched, NothingBehind
  <2>2. InOrder
    <3>1. Len(agg) = 0 /\ \A s \in Shard : feed[s] = {}
      BY DEF Init
    <3> QED
      BY <3>1 DEF InOrder
  <2>3. BelowHead /\ Accounted
    BY DEF Init, BelowHead, Accounted, Recovering
  <2>4. FeedTyped
    BY InitTyped
  <2> QED
    BY <2>1, <2>2, <2>3, <2>4 DEF FeedInv
<1>2. FeedInv /\ [Next]_vars => FeedInv'
  <2> SUFFICES ASSUME FeedInv, [Next]_vars PROVE FeedInv'
    OBVIOUS
  <2>1. FeedTyped' /\ CursorInv' /\ StaysWatched' /\ InOrder' /\ BelowHead'
    BY TypeStep, CursorStep, WatchStep, OrderStep, HeadStep DEF FeedInv
  <2>2. ~failed' => NothingBehind' /\ Accounted'
    BY AccountStep
  <2> QED
    BY <2>1, <2>2 DEF FeedInv
<1> QED
  BY <1>1, <1>2, PTL DEF Spec

\* The canary hands on every log of a pool watched from the start before the
\* cursor passes it, however often the connection is lost, whatever pools are
\* created and whenever the subscription is built again, unless a recovery has
\* failed: with one subscription and an HTTP node that knows the head.
THEOREM NothingIsSkipped ==
  ASSUME OneOrderedSource PROVE Spec => []NothingSkipped
<1>1. FeedInv => NothingSkipped
  <2> SUFFICES ASSUME FeedInv, ~failed, NEW l \in Log, cursor # NoLog,
                      l.num \in StartFrom .. cursor.num - 1, l.pool \in Original
               PROVE  handled[l] > 0
    BY DEF NothingSkipped
  <2>1. cursor.num \in Nat /\ StartFrom \in Nat /\ l.num \in Nat
    BY LogHeights, FeedAssumption DEF FeedInv, FeedTyped
  <2> QED
    BY <2>1 DEF FeedInv, NothingBehind, Owed
<1> QED
  BY <1>1, FeedInductive, PTL

\* Nothing is left in the channels, and the connection stands.
Quiet == pc = "consume" /\ ~lost /\ agg = <<>> /\ \A s \in Shard : feed[s] = {}

\* When the loop has caught up with its channels, every log of the chain of a
\* pool watched from the start has been handed on, unless a recovery has failed:
\* there is no log that only a later reconnection would bring
\* (subscribe first, recover the gap, then consume).
THEOREM QuietMeansComplete ==
  ASSUME OneOrderedSource
  PROVE  Spec => [](Quiet /\ ~failed => \A l \in Owed : l.num <= head => handled[l] > 0)
<1>1. FeedInv => (Quiet /\ ~failed => \A l \in Owed : l.num <= head => handled[l] > 0)
  <2> SUFFICES ASSUME FeedInv, Quiet, ~failed, NEW l \in Owed, l.num <= head
               PROVE  handled[l] > 0
    OBVIOUS
  <2>1. Covered(l)
    BY DEF FeedInv, Accounted, Quiet
  <2>2. ~OnItsWay(l)
    BY DEF Quiet, OnItsWay, Waiting, Pushing
  <2>3. ~ToRecover(l)
    BY DEF Quiet, ToRecover
  <2> QED
    BY <2>1, <2>2, <2>3 DEF Covered
<1> QED
  BY <1>1, FeedInductive, PTL

-----------------------------------------------------------------------------
(* Several subscriptions, and an HTTP node that lags: the two ways to lose *)
(* a log.  Each log owed is handed on, on its way, to be recovered, or     *)
(* overtaken by the cursor, except in the blocks the HTTP node did not     *)
(* know when recovery read the head from it.                               *)

\* In a block the cursor has passed: never recovered and never delivered again.
Overtaken(l) == cursor # NoLog /\ l.num < cursor.num

\* In a block the chain may have had when recovery read an older head.
InLag(l) == span.to < l.num /\ l.num <= span.to + HttpLag

\* Nothing else happens to a log of the chain as long as the connection stands.
Kept(l) == Covered(l) \/ Overtaken(l) \/ InLag(l)

NoOtherLoss ==
  ~failed /\ ~lost /\ (Recovering \/ pc = "consume")
    => \A l \in Owed : l.num <= head => Kept(l)

\* A log delivered has been handed on, now or before, or is overtaken; what was
\* handed on or overtaken stays so.
LEMMA DeliveryKeeps ==
  ASSUME FeedTyped, CursorInv, NEW m \in Log, Deliver(m)
  PROVE  /\ handled'[m] > 0 \/ Overtaken(m)'
         /\ \A l \in Log : /\ handled[l] > 0 => handled'[l] > 0
                           /\ Overtaken(l) => Overtaken(l)'
<1>1. \A l \in Log : l.num \in Nat /\ handled[l] \in Nat
  BY LogHeights DEF FeedTyped
<1>2. CASE Seen(m) /\ UNCHANGED <<cursor, handled>>
  BY <1>2 DEF Seen, Overtaken, CursorInv
<1>3. CASE handled' = [handled EXCEPT ![m] = @ + 1] /\ cursor' = Advance(m)
  <2>1. \A l \in Log : handled'[l] = IF l = m THEN handled[l] + 1 ELSE handled[l]
    BY <1>3 DEF FeedTyped
  <2>2. ASSUME NEW l \in Log, Overtaken(l) PROVE Overtaken(l)'
    <3>1. cursor \in Log /\ cursor # NoLog /\ l.num < cursor.num
      BY <2>2 DEF Overtaken, FeedTyped
    <3>2. cursor' # NoLog /\ cursor.num <= cursor'.num /\ cursor'.num \in Nat
      BY <1>1, <1>3, <3>1, FeedAssumption DEF Advance
    <3> QED
      BY <1>1, <3>1, <3>2 DEF Overtaken
  <2> QED
    BY <1>1, <2>1, <2>2
<1> QED
  BY <1>2, <1>3 DEF Deliver

\* Every log of a new block is pushed to a connection that stands.
LEMMA PushKeeps ==
  ASSUME FeedTyped, StaysWatched, NoOtherLoss, NewBlock PROVE NoOtherLoss'
<1>1. /\ head \in Nat /\ head' = head + 1 /\ feed \in [Shard -> SUBSET Log]
      /\ UNCHANGED <<pc, lost, failed, agg, cursor, span, page, handled>>
      /\ feed' = IF Connected THEN [s \in Shard |-> feed[s] \cup Pushed(s, head + 1)] ELSE feed
      /\ Owed' = Owed
  BY DEF FeedTyped, NewBlock, Owed, Original
<1> SUFFICES ASSUME ~failed, ~lost, Recovering \/ pc = "consume", NEW l \in Owed, l.num <= head + 1
             PROVE  Kept(l)'
  BY <1>1 DEF NoOtherLoss, Recovering
<1>2. l \in Log /\ l.num \in Nat
  BY LogHeights DEF Owed
<1>3. CASE l.num <= head
  <2>1. Kept(l)
    BY <1>3 DEF NoOtherLoss
  <2> QED
    BY <1>1, <1>2, <2>1 DEF Kept, Covered, OnItsWay, Waiting, Pushing, ToRecover, QueryEnd,
       Overtaken, InLag
<1>4. CASE l.num = head + 1
  <2>1. l.pool \in Watched /\ ShardOf[l.pool] \in Shard
    BY <1>2, OriginalWatched, FeedAssumption DEF Owed
  <2>2. Connected
    BY DEF Connected, Recovering
  <2>3. l \in feed'[ShardOf[l.pool]]
    BY <1>1, <1>2, <1>4, <2>1, <2>2 DEF Pushed
  <2> QED
    BY <2>1, <2>3 DEF Kept, Covered, OnItsWay, Pushing
<1> QED
  BY <1>1, <1>2, <1>3, <1>4

\* A log that is forwarded is on its way before and after.
LEMMA ForwardKeeps ==
  ASSUME FeedTyped, NEW s \in Shard, Forward(s), NEW l \in Log, OnItsWay(l)
  PROVE  OnItsWay(l)'
<1>1. PICK x \in First(feed[s]) : agg' = Append(agg, x) /\ feed' = [feed EXCEPT ![s] = @ \ {x}]
  BY DEF Forward
<1>2. x \in Log /\ feed \in [Shard -> SUBSET Log] /\ agg \in Seq(Log)
  BY <1>1 DEF First, FeedTyped
<1>3. /\ Len(agg) \in Nat /\ Len(agg') = Len(agg) + 1 /\ agg'[Len(agg) + 1] = x
      /\ \A i \in 1 .. Len(agg) : agg'[i] = agg[i]
  BY <1>1, <1>2, AppendToChannel
<1>4. 1 .. Len(agg) \subseteq 1 .. Len(agg') /\ Len(agg) + 1 \in 1 .. Len(agg')
  BY <1>3
<1>5. Waiting(l) \/ l = x => Waiting(l)'
  BY <1>3, <1>4 DEF Waiting
<1>6. Pushing(l) => Pushing(l)' \/ l = x
  BY <1>1, <1>2 DEF Pushing
<1> QED
  BY <1>5, <1>6 DEF OnItsWay

\* The log the loop takes is the only one that is no longer on its way.
LEMMA ConsumeKeeps ==
  ASSUME FeedTyped, Consume, NEW l \in Log, OnItsWay(l), l # Head(agg)
  PROVE  OnItsWay(l)'
<1>1. /\ Head(agg) = agg[1] /\ Len(agg) \in Nat /\ Len(agg') = Len(agg) - 1
      /\ \A i \in 1 .. Len(agg') : i + 1 \in 1 .. Len(agg) /\ agg'[i] = agg[i + 1]
  BY TailOfChannel DEF FeedTyped, Consume
<1>2. ASSUME NEW i \in 1 .. Len(agg), agg[i] = l PROVE Waiting(l)'
  <2>1. i - 1 \in 1 .. Len(agg') /\ agg'[i - 1] = l
    BY <1>1, <1>2
  <2> QED
    BY <2>1 DEF Waiting
<1>3. Pushing(l) => Pushing(l)'
  BY DEF Pushing, Consume
<1> QED
  BY <1>2, <1>3 DEF OnItsWay, Waiting

\* Recovery starts in the cursor's block, or at the head of the startup, and ends
\* at the head the HTTP node knows.
LEMMA ReadHeadKeeps ==
  ASSUME FeedTyped, ReadHead PROVE NoOtherLoss'
<1>1. PICK h \in (head - HttpLag) .. head :
        /\ span' = [from |-> RecoverFrom, to |-> h]
        /\ pc' = IF RecoverFrom > h THEN "consume" ELSE "query"
  BY DEF ReadHead
<1>2. /\ head \in Nat /\ HttpLag \in Nat /\ StartFrom \in Nat /\ UNCHANGED <<head, cursor>>
      /\ cursor # NoLog => cursor.num \in Nat
      /\ h \in Int /\ h <= head /\ head <= h + HttpLag
  BY <1>1, LogHeights, FeedAssumption DEF FeedTyped, ReadHead
<1>3. ASSUME NEW l \in Owed, l.num <= head PROVE Kept(l)'
  <2>1. l.num \in Nat /\ StartFrom <= l.num
    BY LogHeights DEF Owed
  <2>2. CASE h < l.num
    BY <1>1, <1>2, <1>3, <2>1, <2>2 DEF Kept, InLag
  <2>3. CASE l.num < RecoverFrom
    BY <1>2, <2>1, <2>3 DEF Kept, Overtaken, RecoverFrom
  <2>4. CASE RecoverFrom <= l.num /\ l.num <= h
    <3>1. ~(RecoverFrom > h)
      BY <1>2, <2>1, <2>4 DEF RecoverFrom
    <3> QED
      BY <1>1, <2>4, <3>1 DEF Kept, Covered, ToRecover
  <2> QED
    BY <1>2, <2>1, <2>2, <2>3, <2>4 DEF RecoverFrom
<1> QED
  BY <1>2, <1>3 DEF NoOtherLoss, Owed, Original

\* The queries cover the span chunk by chunk, without a hole between two of them.
LEMMA GapKeeps ==
  ASSUME FeedTyped, Query \/ NextQuery, NEW l \in Log, ToRecover(l) PROVE ToRecover(l)'
<1>1. /\ span \in [from : Int, to : Int] /\ span.from \in Int /\ span.to \in Int
      /\ QueryEnd \in Int /\ l.num \in Nat
  BY LogHeights, FeedAssumption DEF FeedTyped, QueryEnd
<1>2. CASE Query
  BY <1>1, <1>2 DEF Query, ToRecover, LogsIn, QueryEnd
<1>3. CASE NextQuery
  BY <1>1, <1>3 DEF NextQuery, ToRecover
<1> QED
  BY <1>2, <1>3

\* No step loses a log in any other way.
LEMMA LossStep ==
  ASSUME FeedTyped, CursorInv, StaysWatched, NoOtherLoss, [Next]_vars
  PROVE  NoOtherLoss'
<1>1. Owed' = Owed /\ Owed \subseteq Log
  BY DEF Owed, Original
<1>2. ASSUME UNCHANGED <<head, span>>, ~failed' /\ ~lost' => ~failed /\ ~lost,
             Recovering' \/ pc' = "consume" => Recovering \/ pc = "consume",
             \A l \in Log : Covered(l) => Covered(l)' \/ Overtaken(l)',
             \A l \in Log : Overtaken(l) => Overtaken(l)'
      PROVE  NoOtherLoss'
  BY <1>1, <1>2 DEF NoOtherLoss, Kept, InLag
<1>3. CASE NewBlock
  BY <1>3, PushKeeps
<1>4. CASE ReadHead
  BY <1>4, ReadHeadKeeps
<1>5. CASE Connect \/ Close
  BY <1>5 DEF Connect, Close, NoOtherLoss, Recovering
<1>6. CASE RecoveryFails
  BY <1>6 DEF RecoveryFails, NoOtherLoss
<1>7. ASSUME NEW s \in Shard, Forward(s) PROVE NoOtherLoss'
  <2>1. UNCHANGED <<head, span, failed, lost, pc, cursor, page, handled>>
    BY <1>7 DEF Forward
  <2>2. ASSUME NEW l \in Log, Covered(l) PROVE Covered(l)'
    BY <1>7, <2>1, <2>2, ForwardKeeps DEF Covered, ToRecover, QueryEnd
  <2> QED
    BY <1>2, <2>1, <2>2 DEF Recovering, Overtaken
<1>8. CASE Query
  <2>1. /\ UNCHANGED <<head, failed, lost, feed, agg, cursor, handled, span>>
        /\ pc = "query" /\ pc' = "page"
    BY <1>8 DEF Query, conn
  <2>2. ASSUME NEW l \in Log, Covered(l) PROVE Covered(l)'
    BY <1>8, <2>1, <2>2, GapKeeps DEF Covered, OnItsWay, Waiting, Pushing
  <2> QED
    BY <1>2, <2>1, <2>2 DEF Recovering, Overtaken
<1>9. CASE NextQuery
  <2>1. /\ UNCHANGED <<head, failed, lost, feed, agg, cursor, handled>> /\ span'.to = span.to
        /\ pc = "page"
    BY <1>9 DEF NextQuery, conn, FeedTyped
  <2>2. ASSUME NEW l \in Log, Covered(l) PROVE Covered(l)'
    BY <1>9, <2>1, <2>2, GapKeeps DEF Covered, OnItsWay, Waiting, Pushing
  <2> QED
    BY <1>1, <2>1, <2>2 DEF NoOtherLoss, Kept, InLag, Recovering, Overtaken
<1>10. CASE RecoverLog
  <2>1. PICK m \in First(page) : Deliver(m) /\ page' = page \ {m}
    BY <1>10 DEF RecoverLog
  <2>2. /\ UNCHANGED <<head, failed, lost, feed, agg, span, pc>>
        /\ m \in Log
    BY <1>10, <2>1 DEF RecoverLog, conn, First, FeedTyped
  <2>3. ASSUME NEW l \in Log, Covered(l) PROVE Covered(l)' \/ Overtaken(l)'
    <3>1. CASE l = m
      BY <2>1, <2>2, <3>1, DeliveryKeeps DEF Covered, Overtaken, CursorInv
    <3>2. CASE l # m
      BY <2>1, <2>2, <2>3, <3>2, DeliveryKeeps DEF Covered, OnItsWay, Waiting, Pushing,
         ToRecover, QueryEnd
    <3> QED
      BY <3>1, <3>2
  <2> QED
    BY <1>2, <2>1, <2>2, <2>3, DeliveryKeeps DEF Recovering
<1>11. CASE Consume
  <2>1. /\ Head(agg) \in Log /\ Deliver(Head(agg))
        /\ UNCHANGED <<head, failed, lost, feed, span, pc, page>>
    BY <1>11, TailOfChannel DEF Consume, FeedTyped
  <2>2. ASSUME NEW l \in Log, Covered(l) PROVE Covered(l)' \/ Overtaken(l)'
    <3>1. CASE l = Head(agg)
      BY <2>1, <3>1, DeliveryKeeps DEF Covered
    <3>2. CASE l # Head(agg)
      BY <1>11, <2>1, <2>2, <3>2, DeliveryKeeps, ConsumeKeeps DEF Covered, ToRecover, QueryEnd
    <3> QED
      BY <3>1, <3>2
  <2> QED
    BY <1>2, <2>1, <2>2, DeliveryKeeps DEF Recovering
<1>12. CASE Drop \/ ConsumeCreated \/ (\E p \in Pool : Discover(p)) \/ UNCHANGED vars
  <2>1. UNCHANGED <<head, span, failed, pc, feed, agg, cursor, page, handled>>
        /\ (~lost' => ~lost)
    BY <1>12 DEF Drop, ConsumeCreated, Discover, vars, conn
  <2>2. /\ \A l \in Log : Covered(l) => Covered(l)'
        /\ \A l \in Log : Overtaken(l) => Overtaken(l)'
    BY <2>1 DEF Covered, OnItsWay, Waiting, Pushing, ToRecover, QueryEnd, Overtaken
  <2> QED
    BY <1>2, <2>1, <2>2 DEF Recovering
<1> QED
  BY <1>3, <1>4, <1>5, <1>6, <1>7, <1>8, <1>9, <1>10, <1>11, <1>12 DEF Next, Run

\* For any number of subscriptions, in any interleaving, with any lag of the HTTP
\* node and any number of lost connections: a log that the loop has not handed on
\* when its channels are empty lies behind the cursor, where a log of another
\* subscription overtook it, or in the few blocks the HTTP node did not know when
\* it was asked for the head (main.go:849).  There is no third way.
THEOREM OnlyTwoWaysToLose ==
  Spec => [](Quiet /\ ~failed =>
               \A l \in Owed : l.num <= head => handled[l] > 0 \/ Overtaken(l) \/ InLag(l))
<1>1. Init => StaysWatched /\ NoOtherLoss
  BY DEF Init, StaysWatched, NoOtherLoss, Recovering
<1>2. FeedTyped /\ NoOtherLoss =>
        (Quiet /\ ~failed =>
           \A l \in Owed : l.num <= head => handled[l] > 0 \/ Overtaken(l) \/ InLag(l))
  BY DEF NoOtherLoss, Quiet, Kept, Covered, OnItsWay, Waiting, Pushing, ToRecover
<1>3. FeedTyped /\ CursorInv /\ StaysWatched /\ NoOtherLoss /\ [Next]_vars => NoOtherLoss'
  BY LossStep
<1> QED
  BY <1>1, <1>2, <1>3, WatchStep, FeedTypes, CursorIsOnTop, PTL DEF Spec
=============================================================================
