----------------------------- MODULE LogWindow -----------------------------
(***************************************************************************)
(* The adaptive log query of the pipeline (batchLogs): the logs of the     *)
(* blocks 1 .. to are asked for in one request whose window halves when    *)
(* the request fails and doubles when it is answered.  ArbitragePipeline   *)
(* takes its result, the logs of the whole range or an error; the names    *)
(* here differ from those of ArbitragePipeline, whose proofs use both.     *)
(***************************************************************************)
EXTENDS Naturals

CONSTANTS
  Ranges,      \* numbers of blocks asked for that are explored
  Limits,      \* numbers of blocks a node answers for in one request, explored
  MaxFaults    \* bound: requests that fail although the node would answer them

\* Window of the first request and its upper bound; a caller's range, one chunk,
\* is no larger (main.go:788).
MaxWindow == 256

VARIABLES
  to,      \* last block asked for; the first is 1
  limit,   \* blocks the node answers for in one request, 0 when none
  size,    \* the window
  call,    \* "asking", "backoff" after a 429, or how the call ended
  faults   \* transient failures so far

batchVars == <<to, limit, size, call, faults>>

Smaller(x, y) == IF x < y THEN x ELSE y

Top == Smaller(size, to)

\* The window after an answer that does not reach "to".
Grown == Smaller(2 * size, MaxWindow)
-----------------------------------------------------------------------------
\* An answer is returned only when it covers the range; otherwise it is thrown
\* away, the window grows and the same first block is asked for again.
Answered ==
  /\ call = "asking"
  /\ Top <= limit
  /\ \/ Top = to /\ call' = "returned" /\ UNCHANGED size
     \/ Top # to /\ size' = Grown /\ UNCHANGED call
  /\ UNCHANGED <<to, limit, faults>>

\* An error other than a rate limit: the window halves, down to one block.
Halved ==
  /\ call = "asking"
  /\ \/ size <= 1 /\ call' = "failed" /\ UNCHANGED size
     \/ size > 1 /\ size' = size \div 2 /\ UNCHANGED call
  /\ UNCHANGED <<to, limit>>

\* The node refuses a request that is too large for it ...
Refused == Top > limit /\ Halved /\ UNCHANGED faults

\* ... or fails one that it would answer, by a timeout or an internal error;
\* batchLogs cannot tell the two apart.
Fault == Top <= limit /\ faults < MaxFaults /\ Halved /\ faults' = faults + 1

\* A rate limit, whatever the window: wait and repeat the same request.
Limited ==
  /\ call = "asking"
  /\ call' = "backoff"
  /\ UNCHANGED <<to, limit, size, faults>>

BackoffOver ==
  /\ call = "backoff"
  /\ call' = "asking"
  /\ UNCHANGED <<to, limit, size, faults>>

\* The process is asked to stop while it waits.
Cancelled ==
  /\ call = "backoff"
  /\ call' = "failed"
  /\ UNCHANGED <<to, limit, size, faults>>

BatchInit ==
  /\ to \in Ranges \cap (1 .. MaxWindow)
  /\ limit \in Limits \cap Nat
  /\ size = MaxWindow
  /\ call = "asking"
  /\ faults = 0

BatchNext == Answered \/ Refused \/ Fault \/ Limited \/ BackoffOver \/ Cancelled

BatchSpec == BatchInit /\ [][BatchNext]_batchVars

\* The goroutine runs, and the node does not rate-limit for ever: a request
\* that is repeated is answered or refused again and again.
BatchFairSpec ==
  /\ BatchSpec
  /\ WF_batchVars(BackoffOver)
  /\ SF_batchVars(Answered \/ Refused)
-----------------------------------------------------------------------------
Ended == call \in {"returned", "failed"}

\* Type invariant; the window is never empty and never above its bound.
WindowOK ==
  /\ to \in 1 .. MaxWindow /\ limit \in Nat /\ faults \in Nat
  /\ size \in 1 .. MaxWindow
  /\ call \in {"asking", "backoff", "returned", "failed"}

\* A node that answers for at least one block brings the call to its end: what is
\* too large is halved to a part of the range, from whose end the caller goes on
\* (main.go:705-706).
AnsweringNodeEnds == limit > 0 ~> Ended

\* A failure is taken for a sign of size, so batchLogs may give up on a node that
\* would answer, but only for cause: the node answers for nothing, or for less
\* than the range and a request failed by itself, or nine of them did (one for
\* every halving of 256, and one at a single block).
GivesUpForCause ==
  [][call = "asking" /\ call' = "failed" =>
       \/ limit = 0
       \/ limit < to /\ faults' >= 1
       \/ faults' >= 9]_batchVars
=============================================================================
