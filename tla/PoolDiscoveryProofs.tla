------------------------ MODULE PoolDiscoveryProofs ------------------------
(***************************************************************************)
(* Discovery registers a pool before anyone evaluates it and resolves an   *)
(* address once at a time, for every set of addresses, every queue and     *)
(* every interleaving of the worker with the event loop.  With a queue     *)
(* that has room for all unknown addresses it forgets none of them.        *)
(***************************************************************************)
EXTENDS PoolDiscovery, FiniteSets, FiniteSetTheorems, TLAPS

\* Every step of the two goroutines stays within the types.
LEMMA TypeStep == TypeOK /\ [Next]_vars => TypeOK'
<1> SUFFICES ASSUME TypeOK, [Next]_vars PROVE TypeOK'
  OBVIOUS
<1> USE DiscoveryAssumption DEF TypeOK, At, Idle, caches
<1>1. ASSUME NEW a \in Addr, SwapArrives(a) PROVE TypeOK'
  BY <1>1 DEF SwapArrives
<1>2. ASSUME NEW a \in Addr, PoolCreated(a) PROVE TypeOK'
  BY <1>2 DEF PoolCreated
<1>3. CASE Enqueue
  BY <1>3 DEF Enqueue
<1>4. CASE Evaluate
  BY <1>4 DEF Evaluate
<1>5. CASE RegisterCreated
  BY <1>5 DEF RegisterCreated
<1>6. CASE JoinCreated
  BY <1>6 DEF JoinCreated
<1>7. CASE Take
  BY <1>7 DEF Take
<1>8. CASE Check
  BY <1>8 DEF Check, Done
<1>9. CASE TokenPair
  BY <1>9 DEF TokenPair, Done
<1>10. CASE Validate
  BY <1>10 DEF Validate, Done
<1>11. CASE CallFails
  BY <1>11 DEF CallFails, Done
<1>12. CASE Register
  BY <1>12 DEF Register
<1>13. CASE Mark
  BY <1>13 DEF Mark, Done
<1>14. CASE UNCHANGED vars
  BY <1>14 DEF vars
<1> QED BY <1>1, <1>2, <1>3, <1>4, <1>5, <1>6, <1>7, <1>8, <1>9, <1>10, <1>11,
           <1>12, <1>13, <1>14 DEF Next, EventLoop, Worker

\* Type correctness of pool discovery.
THEOREM DiscoveryTyped == Spec => []TypeOK
<1>1. Init => TypeOK
  BY DiscoveryAssumption DEF Init, TypeOK, Idle
<1> QED BY <1>1, TypeStep, PTL DEF Spec

\* The inductive invariant of registration: between registering a pool and
\* marking it, either goroutine holds a pool that is registered.
RegInv ==
  /\ EvaluatedIsRegistered
  /\ loop.pc = "join" => loop.addr \in registry
  /\ worker.pc = "mark" => worker.addr \in registry

\* Steps change one of the two goroutines and never shrink the registry.
LEMMA RegStep == RegInv /\ [Next]_vars => RegInv'
<1> SUFFICES ASSUME RegInv, [Next]_vars PROVE RegInv'
  OBVIOUS
<1> USE DEF RegInv, EvaluatedIsRegistered, At, Idle, caches
<1>1. ASSUME NEW a \in Addr, SwapArrives(a) PROVE RegInv'
  BY <1>1 DEF SwapArrives
<1>2. ASSUME NEW a \in Addr, PoolCreated(a) PROVE RegInv'
  BY <1>2 DEF PoolCreated
<1>3. CASE Enqueue \/ Evaluate \/ RegisterCreated \/ JoinCreated
  BY <1>3 DEF Enqueue, Evaluate, RegisterCreated, JoinCreated
<1>4. CASE Take \/ Check \/ CallFails
  BY <1>4 DEF Take, Check, CallFails, Done
<1>5. CASE TokenPair \/ Validate
  BY <1>5 DEF TokenPair, Validate, Done
<1>6. CASE Register \/ Mark
  BY <1>6 DEF Register, Mark, Done
<1>7. CASE UNCHANGED vars
  BY <1>7 DEF vars
<1> QED BY <1>1, <1>2, <1>3, <1>4, <1>5, <1>6, <1>7 DEF Next, EventLoop, Worker

\* A pool that is evaluated is in the registry and the graph.
THEOREM NeverEvaluatedUnregistered == Spec => []EvaluatedIsRegistered
<1>1. Init => RegInv
  BY DEF Init, RegInv, EvaluatedIsRegistered, Idle
<1>2. RegInv => EvaluatedIsRegistered
  BY DEF RegInv
<1> QED BY <1>1, <1>2, RegStep, PTL DEF Spec

\* The pending mark keeps an address from being queued twice, and is cleared
\* only by the worker that took the address out.
LEMMA OnceStep == TypeOK /\ ResolvedOnce /\ [Next]_vars => ResolvedOnce'
<1> SUFFICES ASSUME TypeOK, ResolvedOnce, [Next]_vars PROVE ResolvedOnce'
  OBVIOUS
<1> USE DEF ResolvedOnce, At, Idle, caches
<1>0. queue \in Seq(Addr)
  BY DEF TypeOK
<1>1. ASSUME NEW a \in Addr, SwapArrives(a) \/ PoolCreated(a) PROVE ResolvedOnce'
  BY <1>1 DEF SwapArrives, PoolCreated
<1>2. CASE Enqueue
  <2>1. CASE queue' = queue
    BY <1>2, <2>1 DEF Enqueue
  <2>2. CASE loop.addr \notin pending /\ queue' = Append(queue, loop.addr)
    <3>1. loop.addr \in Addr
      BY <1>2 DEF TypeOK, Enqueue
    <3>2. \A i \in DOMAIN queue : queue[i] # loop.addr
      BY <2>2
    <3> QED BY <1>0, <1>2, <2>2, <3>1, <3>2 DEF Enqueue
  <2> QED BY <1>2, <2>1, <2>2 DEF Enqueue
<1>3. CASE Evaluate \/ RegisterCreated \/ JoinCreated
  BY <1>3 DEF Evaluate, RegisterCreated, JoinCreated
<1>4. CASE Take
  <2>1. Len(queue) \in Nat \ {0} /\ queue' = Tail(queue)
    BY <1>0, <1>4 DEF Take
  <2>2. \A i \in DOMAIN queue' : i + 1 \in DOMAIN queue /\ queue'[i] = queue[i + 1]
    BY <1>0, <2>1
  <2>3. Head(queue) = queue[1] /\ 1 \in DOMAIN queue
    BY <1>0, <2>1
  <2>4. DOMAIN queue' \subseteq Nat
    BY <1>0, <2>1
  <2> QED BY <1>4, <2>2, <2>3, <2>4 DEF Take
<1>5. CASE Check \/ CallFails
  BY <1>5 DEF Check, CallFails, Done
<1>6. CASE TokenPair \/ Validate
  BY <1>6 DEF TokenPair, Validate, Done
<1>7. CASE Register \/ Mark
  BY <1>7 DEF Register, Mark, Done
<1>8. CASE UNCHANGED vars
  BY <1>8 DEF vars
<1> QED BY <1>1, <1>2, <1>3, <1>4, <1>5, <1>6, <1>7, <1>8 DEF Next, EventLoop, Worker

\* An address is queued or resolved at most once at a time.
THEOREM NeverResolvedTwice == Spec => []ResolvedOnce
<1>1. Init => ResolvedOnce
  BY DEF Init, ResolvedOnce
<1> QED BY <1>1, OnceStep, DiscoveryTyped, PTL DEF Spec

\* With a node that is not behind, no WETH pool is cached as a stranger.
THEOREM CacheIsDeterministic ==
  ASSUME StaleNode = FALSE PROVE Spec => []CachedForGood
<1>1. Init => CachedForGood
  BY DEF Init, CachedForGood
<1>2. TypeOK /\ CachedForGood /\ [Next]_vars => CachedForGood'
  BY DEF CachedForGood, Next, EventLoop, Worker, SwapArrives, PoolCreated,
         Enqueue, Evaluate, RegisterCreated, JoinCreated, Take, Check, TokenPair,
         Validate, CallFails, Register, Mark, Done, caches, vars
<1> QED BY <1>1, <1>2, DiscoveryTyped, PTL DEF Spec

-----------------------------------------------------------------------------
(* The pending mark is set before a send that a full queue drops.  What    *)
(* keeps a mark from outliving its address is that the addresses in the    *)
(* queue differ, so that a queue with room for all of them is never full   *)
(* when another one comes.                                                 *)

\* The queue has room for every address that is not known at startup.
RoomForAll == IsFiniteSet(Addr) /\ Cardinality(Addr \ Preloaded) <= QueueCap

Queued(a) == \E i \in DOMAIN queue : queue[i] = a

\* What is marked as pending is queued or being resolved.
NoneForgotten ==
  \A a \in pending : Queued(a) \/ (worker # Idle /\ worker.addr = a)

\* Addresses known at startup are never queued.
OnlyUnknownQueued ==
  /\ Preloaded \subseteq weth
  /\ loop.pc = "enqueue" => loop.addr \notin Preloaded
  /\ \A a \in Preloaded : ~Queued(a)

\* An address is queued only after the caches have been asked for it, and the
\* caches keep what was preloaded.
LEMMA UnknownStep ==
  TypeOK /\ OnlyUnknownQueued /\ [Next]_vars => OnlyUnknownQueued'
<1> SUFFICES ASSUME TypeOK, OnlyUnknownQueued, [Next]_vars PROVE OnlyUnknownQueued'
  OBVIOUS
<1> USE DEF OnlyUnknownQueued, Queued, At, Idle, caches
<1>0. queue \in Seq(Addr)
  BY DEF TypeOK
<1>1. ASSUME NEW a \in Addr, SwapArrives(a) \/ PoolCreated(a) PROVE OnlyUnknownQueued'
  BY <1>1 DEF SwapArrives, PoolCreated, Unknown
<1>2. CASE Enqueue
  <2>1. CASE queue' = queue
    BY <1>2, <2>1 DEF Enqueue
  <2>2. CASE queue' = Append(queue, loop.addr)
    <3>1. loop.addr \in Addr \ Preloaded
      BY <1>2 DEF TypeOK, Enqueue
    <3>2. \A i \in DOMAIN queue' : queue'[i] = loop.addr \/ Queued(queue'[i])
      BY <1>0, <2>2, <3>1
    <3> QED BY <1>2, <3>1, <3>2 DEF Enqueue
  <2> QED BY <1>2, <2>1, <2>2 DEF Enqueue
<1>3. CASE Evaluate \/ RegisterCreated \/ JoinCreated
  BY <1>3 DEF Evaluate, RegisterCreated, JoinCreated
<1>4. CASE Take
  <2>1. queue # <<>> /\ queue' = Tail(queue)
    BY <1>4 DEF Take
  <2>2. \A i \in DOMAIN queue' : i + 1 \in DOMAIN queue /\ queue'[i] = queue[i + 1]
    BY <1>0, <2>1
  <2> QED BY <1>4, <2>2 DEF Take
<1>5. CASE Check \/ CallFails
  BY <1>5 DEF Check, CallFails, Done
<1>6. CASE TokenPair \/ Validate
  BY <1>6 DEF TokenPair, Validate, Done
<1>7. CASE Register \/ Mark
  BY <1>7 DEF Register, Mark, Done
<1>8. CASE UNCHANGED vars
  BY <1>8 DEF vars
<1> QED BY <1>1, <1>2, <1>3, <1>4, <1>5, <1>6, <1>7, <1>8 DEF Next, EventLoop, Worker

\* An address that is not queued finds room: the queued ones differ from it and
\* from each other, and all of them are unknown at startup.
LEMMA RoomToSend ==
  ASSUME RoomForAll, TypeOK, ResolvedOnce, OnlyUnknownQueued,
         NEW a \in Addr \ Preloaded, ~Queued(a)
  PROVE  Len(queue) < QueueCap
<1> DEFINE n == Len(queue)
           Rest == (Addr \ Preloaded) \ {a}
<1>1. queue \in Seq(Addr) /\ n \in Nat /\ DOMAIN queue = 1 .. n /\ QueueCap \in Nat
  BY DiscoveryAssumption DEF TypeOK
<1>2. IsFiniteSet(Addr \ Preloaded)
  BY FS_Subset DEF RoomForAll
<1>3. IsFiniteSet(Rest) /\ Cardinality(Rest) = Cardinality(Addr \ Preloaded) - 1
  BY <1>2, FS_RemoveElement
<1>4. \A i \in 1 .. n : queue[i] \in Rest
  BY <1>1 DEF OnlyUnknownQueued, Queued
<1>5. [i \in 1 .. n |-> queue[i]] \in Injection(1 .. n, Rest)
  BY <1>1, <1>4 DEF ResolvedOnce, Injection, IsInjective
<1>6. Cardinality(1 .. n) <= Cardinality(Rest)
  BY <1>3, <1>5, FS_Injection
<1>7. Cardinality(1 .. n) = n
  BY <1>1, FS_Interval
<1>8. Cardinality(Addr \ Preloaded) \in Nat
  BY <1>2, FS_CardinalityType
<1> QED BY <1>1, <1>3, <1>6, <1>7, <1>8 DEF RoomForAll

\* A mark comes with a place in the queue, follows the address to the worker,
\* and goes when the worker is done.
LEMMA ForgetStep ==
  ASSUME RoomForAll
  PROVE  TypeOK /\ ResolvedOnce /\ OnlyUnknownQueued /\ NoneForgotten /\ [Next]_vars
           => NoneForgotten'
<1> SUFFICES ASSUME TypeOK, ResolvedOnce, OnlyUnknownQueued, NoneForgotten, [Next]_vars
             PROVE  NoneForgotten'
  OBVIOUS
<1> USE DEF NoneForgotten, Queued, At, Idle, caches
<1>0. queue \in Seq(Addr)
  BY DEF TypeOK
<1>1. ASSUME NEW a \in Addr, SwapArrives(a) \/ PoolCreated(a) PROVE NoneForgotten'
  BY <1>1 DEF SwapArrives, PoolCreated
<1>2. CASE Enqueue
  <2>1. loop.addr \in Addr \ Preloaded
    BY <1>2 DEF TypeOK, Enqueue, OnlyUnknownQueued
  <2>2. CASE loop.addr \in pending
    BY <1>2, <2>2 DEF Enqueue
  <2>3. CASE loop.addr \notin pending
    <3>1. ~Queued(loop.addr)
      BY <2>3 DEF ResolvedOnce
    <3>2. queue' = Append(queue, loop.addr)
      BY <1>2, <2>1, <2>3, <3>1, RoomToSend DEF Enqueue
    <3>3. \A i \in DOMAIN queue : i \in DOMAIN queue' /\ queue'[i] = queue[i]
      BY <1>0, <2>1, <3>2
    <3>4. Len(queue) + 1 \in DOMAIN queue' /\ queue'[Len(queue) + 1] = loop.addr
      BY <1>0, <2>1, <3>2
    <3> QED BY <1>2, <3>3, <3>4 DEF Enqueue
  <2> QED BY <2>2, <2>3
<1>3. CASE Evaluate \/ RegisterCreated \/ JoinCreated
  BY <1>3 DEF Evaluate, RegisterCreated, JoinCreated
<1>4. CASE Take
  <2>1. queue # <<>> /\ queue' = Tail(queue) /\ worker = Idle /\ pending' = pending
        /\ worker' = At("check", Head(queue))
    BY <1>4 DEF Take
  <2>2. \A i \in DOMAIN queue : i = 1 \/ (i - 1 \in DOMAIN queue' /\ queue'[i - 1] = queue[i])
    BY <1>0, <2>1
  <2>3. worker' # Idle /\ worker'.addr = queue[1]
    BY <1>0, <2>1
  <2>4. ASSUME NEW a \in pending PROVE Queued(a)' \/ worker'.addr = a
    <3>1. PICK i \in DOMAIN queue : queue[i] = a
      BY <2>1, <2>4
    <3> QED BY <2>2, <2>3, <3>1
  <2> QED BY <2>1, <2>3, <2>4
<1>5. CASE Check \/ CallFails
  BY <1>5 DEF Check, CallFails, Done
<1>6. CASE TokenPair \/ Validate
  BY <1>6 DEF TokenPair, Validate, Done
<1>7. CASE Register \/ Mark
  BY <1>7 DEF Register, Mark, Done
<1>8. CASE UNCHANGED vars
  BY <1>8 DEF vars
<1> QED BY <1>1, <1>2, <1>3, <1>4, <1>5, <1>6, <1>7, <1>8 DEF Next, EventLoop, Worker

\* With room for every unknown address, no address stays marked as pending
\* without being queued or resolved, in every interleaving of the two goroutines
\* (enqueueDiscovery; a smaller queue does forget addresses, main.go:939).
THEOREM NothingForgotten == ASSUME RoomForAll PROVE Spec => []NoneForgotten
<1>1. Init => OnlyUnknownQueued /\ NoneForgotten
  BY DEF Init, OnlyUnknownQueued, NoneForgotten, Queued, Idle
<1>2. Init => ResolvedOnce
  BY DEF Init, ResolvedOnce
<1> QED BY <1>1, <1>2, UnknownStep, ForgetStep, OnceStep, DiscoveryTyped, PTL DEF Spec

-----------------------------------------------------------------------------
(* What gets into the registry.                                            *)

\* Both ways into the registry hold WETH pools of the factory only: the worker
\* behind PoolByAddress, the event loop behind the PoolCreated event.
Admitted ==
  /\ \A a \in registry \cup weth : KindOf[a] = "weth"
  /\ loop.pc \in {"evaluate", "register", "join"} => KindOf[loop.addr] = "weth"
  /\ worker.pc \in {"register", "mark"} => KindOf[worker.addr] = "weth"

\* Every step of the two goroutines keeps them so.
LEMMA AdmittedStep == Admitted /\ [Next]_vars => Admitted'
<1> SUFFICES ASSUME Admitted, [Next]_vars PROVE Admitted'
  OBVIOUS
<1> USE DEF Admitted, At, Idle, caches
<1>1. ASSUME NEW a \in Addr, SwapArrives(a) \/ PoolCreated(a) PROVE Admitted'
  BY <1>1 DEF SwapArrives, PoolCreated
<1>2. CASE Enqueue \/ Evaluate \/ RegisterCreated \/ JoinCreated
  BY <1>2 DEF Enqueue, Evaluate, RegisterCreated, JoinCreated
<1>3. CASE Take \/ Check \/ CallFails
  BY <1>3 DEF Take, Check, CallFails, Done
<1>4. CASE TokenPair \/ Validate
  BY <1>4 DEF TokenPair, Validate, Done
<1>5. CASE Register \/ Mark
  BY <1>5 DEF Register, Mark, Done
<1>6. CASE UNCHANGED vars
  BY <1>6 DEF vars
<1> QED BY <1>1, <1>2, <1>3, <1>4, <1>5, <1>6 DEF Next, EventLoop, Worker

\* No address that merely emits Swap logs gets into the registry or the graph:
\* whatever is evaluated is a WETH pool of the factory, in every interleaving and
\* whichever calls fail or meet a node that is behind (resolvePool,
\* handlePoolCreated).
THEOREM StrangersStayOut ==
  Spec => [](\A a \in registry \cup weth : KindOf[a] = "weth")
<1>1. Init => Admitted
  BY DiscoveryAssumption DEF Init, Admitted, Idle
<1>2. Admitted => \A a \in registry \cup weth : KindOf[a] = "weth"
  BY DEF Admitted
<1> QED BY <1>1, <1>2, AdmittedStep, PTL DEF Spec
=============================================================================
