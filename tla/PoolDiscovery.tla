--------------------------- MODULE PoolDiscovery ---------------------------
(***************************************************************************)
(* rh-canary's pool discovery: the event loop classifies the pool of every *)
(* Swap by three caches and queues the unknown ones; one worker goroutine  *)
(* resolves them with RPC calls.  The caches share the lock pmu, registry  *)
(* and graph the lock engineMu, so each step below is one critical section *)
(* and the two goroutines interleave between them.                         *)
(***************************************************************************)
EXTENDS Naturals, Sequences

CONSTANTS
  Addr,       \* addresses that emit Swap logs
  KindOf,     \* what an address is on the chain
  Preloaded,  \* WETH pools known at startup
  QueueCap,   \* capacity of discoverCh
  Errors,     \* whether RPC calls may fail
  StaleNode   \* whether the factory query may meet a node that is behind

\* A factory pool with or without WETH, a pool of another factory, no pool.
Kind == {"weth", "other", "foreign", "none"}

ASSUME DiscoveryAssumption ==
  /\ KindOf \in [Addr -> Kind]
  /\ Preloaded \subseteq {a \in Addr : KindOf[a] = "weth"}
  /\ QueueCap \in Nat \ {0}
  /\ {Errors, StaleNode} \subseteq BOOLEAN

VARIABLES
  loop,      \* the event loop: [pc, addr]
  worker,    \* the discovery worker: [pc, addr]
  queue,     \* discoverCh
  pending,   \* discoverPending
  weth,      \* wethPools
  nonWeth,   \* nonWeth
  notV3,     \* notV3
  registry   \* pools in the registry and the graph

caches == <<weth, nonWeth, notV3>>
vars == <<loop, worker, queue, pending, caches, registry>>

At(pc, a) == [pc |-> pc, addr |-> a]
Idle == [pc |-> "idle"]

\* poolState
Unknown(a) == a \notin weth \cup nonWeth \cup notV3
-----------------------------------------------------------------------------
\* handleSwap: the pool's state is read under the lock and used after it.
SwapArrives(a) ==
  /\ loop = Idle
  /\ \/ Unknown(a) /\ loop' = At("enqueue", a)
     \/ a \in weth /\ loop' = At("evaluate", a)
     \/ a \notin weth /\ ~Unknown(a) /\ UNCHANGED loop
  /\ UNCHANGED <<worker, queue, pending, caches, registry>>

\* The pending mark is set before the send, which a full queue drops.
Enqueue_NoDedup ==
  /\ loop.pc = "enqueue"
  /\ loop' = Idle
  /\ pending' = pending \cup {loop.addr}
  /\ queue' = IF Len(queue) < QueueCap THEN Append(queue, loop.addr) ELSE queue
  /\ UNCHANGED <<worker, caches, registry>>
Enqueue ==
  /\ loop.pc = "enqueue"
  /\ loop' = Idle
  /\ pending' = pending \cup {loop.addr}
  /\ queue' = IF loop.addr \notin pending /\ Len(queue) < QueueCap
              THEN Append(queue, loop.addr) ELSE queue
  /\ UNCHANGED <<worker, caches, registry>>

\* tokenOf reads the registry; a pool that is not there is an eval_error.
Evaluate ==
  /\ loop.pc = "evaluate"
  /\ loop' = Idle
  /\ UNCHANGED <<worker, queue, pending, caches, registry>>

\* handlePoolCreated: pools without WETH and pools known already are left.
PoolCreated_JoinOnly(a) ==
  /\ loop = Idle
  /\ KindOf[a] = "weth"
  /\ a \notin weth
  /\ loop' = At("join", a)
  /\ UNCHANGED <<worker, queue, pending, caches, registry>>
PoolCreated(a) ==
  /\ loop = Idle
  /\ KindOf[a] = "weth"
  /\ a \notin weth
  /\ loop' = At("register", a)
  /\ UNCHANGED <<worker, queue, pending, caches, registry>>

RegisterCreated ==
  /\ loop.pc = "register"
  /\ registry' = registry \cup {loop.addr}
  /\ loop' = At("join", loop.addr)
  /\ UNCHANGED <<worker, queue, pending, caches>>

JoinCreated ==
  /\ loop.pc = "join"
  /\ weth' = weth \cup {loop.addr}
  /\ loop' = Idle
  /\ UNCHANGED <<worker, queue, pending, nonWeth, notV3, registry>>
-----------------------------------------------------------------------------
\* resolvePool, step by step.
Take ==
  /\ worker = Idle
  /\ queue # <<>>
  /\ worker' = At("check", Head(queue))
  /\ queue' = Tail(queue)
  /\ UNCHANGED <<loop, pending, caches, registry>>

\* Every way out clears the pending mark and ends the resolution.
Done ==
  /\ pending' = pending \ {worker.addr}
  /\ worker' = Idle
  /\ UNCHANGED <<loop, queue, registry>>

Check ==
  /\ worker.pc = "check"
  /\ \/ ~Unknown(worker.addr) /\ Done /\ UNCHANGED caches
     \/ /\ Unknown(worker.addr)
        /\ worker' = At("pair", worker.addr)
        /\ UNCHANGED <<loop, queue, pending, caches, registry>>

\* A call that fails for any other reason than a revert is not cached.
CallFails_Cached ==
  /\ Errors
  /\ worker.pc \in {"pair", "validate"}
  /\ Done
  /\ notV3' = notV3 \cup {worker.addr}
  /\ UNCHANGED <<weth, nonWeth>>
CallFails_StaysPending ==
  /\ Errors
  /\ worker.pc \in {"pair", "validate"}
  /\ worker' = Idle
  /\ UNCHANGED <<loop, queue, pending, caches, registry>>
CallFails ==
  /\ Errors
  /\ worker.pc \in {"pair", "validate"}
  /\ Done
  /\ UNCHANGED caches

\* tokenPair: a revert means no pool; a pool without WETH ends here.
TokenPair ==
  /\ worker.pc = "pair"
  /\ \/ /\ KindOf[worker.addr] = "none"
        /\ Done
        /\ notV3' = notV3 \cup {worker.addr}
        /\ UNCHANGED <<weth, nonWeth>>
     \/ /\ KindOf[worker.addr] = "other"
        /\ Done
        /\ nonWeth' = nonWeth \cup {worker.addr}
        /\ UNCHANGED <<weth, notV3>>
     \/ /\ KindOf[worker.addr] \in {"weth", "foreign"}
        /\ worker' = At("validate", worker.addr)
        /\ UNCHANGED <<loop, queue, pending, caches, registry>>

\* PoolByAddress: the factory names this pool, or ErrNotFactoryPool is cached.
Validate ==
  /\ worker.pc = "validate"
  /\ \/ /\ KindOf[worker.addr] = "weth"
        /\ worker' = At("register", worker.addr)
        /\ UNCHANGED <<loop, queue, pending, caches, registry>>
     \/ /\ KindOf[worker.addr] = "foreign" \/ StaleNode
        /\ Done
        /\ notV3' = notV3 \cup {worker.addr}
        /\ UNCHANGED <<weth, nonWeth>>

\* First the registry and the graph, then the mark the event loop looks at.
Register ==
  /\ worker.pc = "register"
  /\ registry' = registry \cup {worker.addr}
  /\ worker' = At("mark", worker.addr)
  /\ UNCHANGED <<loop, queue, pending, caches>>

Mark ==
  /\ worker.pc = "mark"
  /\ weth' = weth \cup {worker.addr}
  /\ Done
  /\ UNCHANGED <<nonWeth, notV3>>
-----------------------------------------------------------------------------
Init ==
  /\ loop = Idle
  /\ worker = Idle
  /\ queue = <<>>
  /\ pending = {}
  /\ weth = Preloaded
  /\ nonWeth = {}
  /\ notV3 = {}
  /\ registry = Preloaded

EventLoop == Enqueue \/ Evaluate \/ RegisterCreated \/ JoinCreated
Worker == Take \/ Check \/ TokenPair \/ Validate \/ CallFails \/ Register \/ Mark

Next ==
  \/ \E a \in Addr : SwapArrives(a) \/ PoolCreated(a)
  \/ EventLoop
  \/ Worker

Spec == Init /\ [][Next]_vars

\* Both goroutines run and every RPC call answers; no event is promised.
FairSpec == Spec /\ WF_vars(EventLoop) /\ WF_vars(Worker)
-----------------------------------------------------------------------------
\* Type invariant of the discovery's state.
TypeOK ==
  /\ loop \in {Idle} \cup [pc : {"enqueue", "evaluate", "register", "join"}, addr : Addr]
  /\ worker \in {Idle} \cup
       [pc : {"check", "pair", "validate", "register", "mark"}, addr : Addr]
  /\ queue \in Seq(Addr) /\ Len(queue) <= QueueCap
  /\ {pending, weth, nonWeth, notV3, registry} \subseteq SUBSET Addr

\* A pool the event loop evaluates is in the registry and the graph, whichever
\* of the worker and handlePoolCreated made it known (tokenOf, and the comment
\* on the order of registration in resolvePool).
EvaluatedIsRegistered ==
  /\ weth \subseteq registry
  /\ loop.pc = "evaluate" => loop.addr \in registry

\* An address is queued or resolved at most once at a time, and only while it
\* is pending, although marking, sending, taking and clearing are separate
\* (enqueueDiscovery, resolvePool).
ResolvedOnce ==
  /\ \A i, j \in DOMAIN queue : queue[i] = queue[j] => i = j
  /\ \A i \in DOMAIN queue : queue[i] \in pending
  /\ worker # Idle =>
       /\ worker.addr \in pending
       /\ \A i \in DOMAIN queue : queue[i] # worker.addr

\* No address is cached as a stranger that the chain knows as a WETH pool:
\* what is cached is deterministic (resolvePool's comment).
CachedForGood ==
  \A a \in nonWeth \cup notV3 : KindOf[a] # "weth"

\* A pool that waits for discovery is resolved, or may be queued again.
PendingEnds == \A a \in Addr : a \in pending ~> a \notin pending
=============================================================================
