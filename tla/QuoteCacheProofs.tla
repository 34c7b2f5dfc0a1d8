-------------------------- MODULE QuoteCacheProofs --------------------------
(***************************************************************************)
(* Proofs about the caches behind a quote: for all chains, pools, Mints    *)
(* and Burns, what the data of a quote have in common with its block, and  *)
(* in which modes of the two programs a handled Mint or Burn is in them.   *)
(***************************************************************************)
EXTENDS QuoteCache, FiniteSetTheorems, TLAPS

USE QuoteAssumption

Working == {"header", "price", "word", "verify", "quote"}
AtWork(b) == b # None /\ b.num = job.num

-----------------------------------------------------------------------------
(* The inductive invariant.                                                *)

\* The type of a price that is about to be stored with its words.
Typed ==
  /\ TypeOK
  /\ IsFiniteSet(headers)
  /\ pc = "word" => job.slot \in Block

\* On one chain, whatever names a block names a block of it.
OnChain ==
  switches = 0 =>
    \A b \in headers \cup ({known, pushed, burst, hint, cacheHead, applied, job.header} \ {None}) :
      IsOn(b, view)

\* A price is from the cached header's block, or that block was replaced before
\* the price was read, and the node serves another one in its place.
Fits(s) ==
  \/ s = cacheHead
  \/ switches > 1
  \/ switches = 1 /\ cacheHead.num <= view.head /\ ~IsOn(cacheHead, view)

Priced ==
  /\ \A p \in Pool : snaps[p] # None => cacheHead # None /\ Fits(snaps[p].slot)
  /\ pc = "word" => Fits(job.slot)
  /\ pc \in Working \ {"header"} => job.header = cacheHead /\ AtWork(cacheHead)
  /\ pc \in {"verify", "quote"} => \A p \in Pool : snaps[p] # None
  /\ OneBlock

\* Where quotes only move up, words are not ahead of the block quoted last.
Upward == switches = 0 /\ ~mode.bursts /\ (Streamed \/ ~Strict)
Highest == IF Streamed THEN known.num ELSE view.head

NotAhead ==
  /\ ~Streamed \/ ~mode.bursts => burst = None
  /\ Streamed => \A p \in Pool : loaded[p] = None
  /\ Upward =>
       /\ job.num <= Highest
       /\ \A p \in Pool :
            /\ words[p] # None => words[p] \subseteq WordAt(view, p, job.num)
            /\ snaps[p] # None => snaps[p].word \subseteq WordAt(view, p, job.num)
            /\ loaded[p] # None =>
                 loaded[p] \subseteq
                   WordAt(view, p, IF pc = "idle" THEN view.head ELSE job.num)

\* The two modes NoDroppedFlipInOrder is about.
HeadByHead == InOrder /\ Streamed
BlockByBlock == InOrder /\ ~Streamed

\* rh-canary in order: what was handled is below the head, and in every word
\* and snapshot, since they were dropped when it was handled.
Invalidated ==
  HeadByHead =>
    \A p \in Pool :
      /\ told[p] \subseteq WordAt(view, p, known.num)
      /\ pc # "idle" => told[p] \subseteq WordAt(view, p, job.num)
      /\ words[p] # None => told[p] \subseteq words[p]
      /\ snaps[p] # None => told[p] \subseteq snaps[p].word

\* rh-arbitrage block by block: what was ingested is in the registry's word,
\* which the next refresh prefers, or was there from the start.
Reloading ==
  BlockByBlock =>
    /\ evaluated <= applied.num
    /\ pc # "idle" => job.num = evaluated + 1 /\ job.num <= applied.num
    /\ cacheHead # None => cacheHead.num <= applied.num
    /\ \A p \in Pool :
         /\ told[p] \subseteq WordAt(view, p, applied.num)
         /\ loaded[p] # None => told[p] \subseteq loaded[p]
         /\ loaded[p] = None => \A b \in told[p] : b.num <= evaluated
         /\ words[p] # None /\ loaded[p] = None => told[p] \subseteq words[p]
         /\ pc = "word" /\ p \in job.pools /\ loaded[p] # None => words[p] = loaded[p]
         /\ snaps[p] # None => {b \in told[p] : b.num <= cacheHead.num} \subseteq snaps[p].word

IInv == Typed /\ OnChain /\ Priced /\ NotAhead /\ Invalidated /\ Reloading

-----------------------------------------------------------------------------
(* Chains, blocks and words.                                               *)

\* A served height has a block, which is on the chain.
LEMMA ServedBlock ==
  ASSUME NEW c \in Chains, NEW h \in 0 .. c.head
  PROVE  BlockAt(c, h) \in Block /\ BlockAt(c, h).num = h /\ IsOn(BlockAt(c, h), c)
BY DEF BlockAt, Block, IsOn

\* Two blocks of one height on one chain are the same block.
LEMMA OneBlockPerHeight ==
  ASSUME NEW c, NEW b \in Block, NEW d \in Block, IsOn(b, c), IsOn(d, c), b.num = d.num
  PROVE  b = d
BY DEF Block, IsOn

\* A word is a set of Mint and Burn blocks, and never mistaken for no word.
LEMMA WordType ==
  ASSUME NEW c, NEW p \in Pool, NEW h
  PROVE  WordAt(c, p, h) \in SUBSET Block /\ WordAt(c, p, h) # None
  <1>1. WordAt(c, p, h) \in SUBSET Flips[p]
    BY DEF WordAt
  <1> QED
    BY <1>1

\* Words only grow with the height, and with the chain.
LEMMA WordGrows ==
  ASSUME NEW c \in Chains, NEW d \in Chains, c = d \/ Extends(d, c),
         NEW p \in Pool, NEW h \in Int, NEW k \in Int, h <= k
  PROVE  WordAt(c, p, h) \subseteq WordAt(d, p, k)
  <1> SUFFICES ASSUME NEW b \in Flips[p], b.num <= h, IsOn(b, c)
               PROVE  b.num <= k /\ IsOn(b, d)
    BY DEF WordAt
  <1>1. b \in Block
    OBVIOUS
  <1> QED
    BY <1>1 DEF Block, IsOn, Extends

-----------------------------------------------------------------------------
(* Types.                                                                  *)

\* A process that starts is typed.
LEMMA TypedInit == Init => Typed
  <1> SUFFICES ASSUME Init PROVE Typed
    OBVIOUS
  <1>1. view \in Chains /\ view.head \in 0 .. view.head
    BY DEF Init
  <1>2. BlockAt(view, view.head) \in Block
    BY <1>1, ServedBlock
  <1>3. told \in [Pool -> SUBSET Block]
    BY WordType DEF Init
  <1>4. IsFiniteSet(headers) /\ Cardinality(headers) = 0
    BY FS_EmptySet DEF Init
  <1>5. evaluated \in Nat
    BY <1>2 DEF Init, Block
  <1> QED
    BY <1>1, <1>2, <1>3, <1>4, <1>5 DEF Init, Typed, TypeOK

\* The header cache stays within its size.
LEMMA RememberedType ==
  ASSUME Typed, NEW b \in Block
  PROVE  /\ Remembered(b) \subseteq Block /\ IsFiniteSet(Remembered(b))
         /\ Cardinality(Remembered(b)) <= HeaderSlots
  <1>1. CASE Cardinality(headers) >= HeaderSlots
    <2>1. Remembered(b) = {b}
      BY <1>1 DEF Remembered
    <2>2. IsFiniteSet({b}) /\ Cardinality({b}) = 1
      BY FS_Singleton
    <2>3. Remembered(b) \subseteq Block
      BY <2>1
    <2> QED
      BY <2>1, <2>2, <2>3
  <1>2. CASE ~(Cardinality(headers) >= HeaderSlots)
    <2>1. Remembered(b) = headers \cup {b}
      BY <1>2 DEF Remembered
    <2>2. Cardinality(headers) \in Nat
      BY FS_CardinalityType DEF Typed
    <2>3. /\ IsFiniteSet(headers \cup {b})
          /\ \/ Cardinality(headers \cup {b}) = Cardinality(headers)
             \/ Cardinality(headers \cup {b}) = Cardinality(headers) + 1
      BY FS_AddElement DEF Typed
    <2> QED
      BY <1>2, <2>1, <2>2, <2>3 DEF Typed, TypeOK
  <1> QED
    BY <1>1, <1>2

\* Merging words of the registry yields words.
LEMMA MergedType ==
  ASSUME Typed, NEW g
  PROVE  Merged(g) \in [Pool -> {None} \cup SUBSET Block]
BY DEF Typed, TypeOK, Merged

\* Every step keeps the types.
LEMMA TypedStep == Typed /\ [Next]_vars => Typed'
  <1> SUFFICES ASSUME Typed, [Next]_vars PROVE Typed'
    OBVIOUS
  <1> USE DEF Typed, TypeOK
  <1>1. CASE Begin \/ TakeHead
    <2>1. known.num \in Nat /\ evaluated + 1 \in Nat /\ view.head \in Nat
      BY DEF Block
    <2>2. StateHeight \in Nat
      BY <2>1 DEF StateHeight
    <2>3. job'.num \in Nat /\ job'.again \in BOOLEAN /\ job'.header \in Block \cup {None}
          /\ job' = [job EXCEPT !.num = job'.num, !.again = job'.again, !.header = job'.header]
      <3>1. CASE Streamed
        BY <1>1, <2>1, <3>1 DEF Begin, TakeHead
      <3>2. CASE ~Streamed
        BY <1>1, <2>2, <3>2 DEF Begin, TakeHead
      <3> QED
        BY <3>1, <3>2
    <2>4. job' \in [num : Nat, again : BOOLEAN, header : Block \cup {None},
                   pools : SUBSET Pool, slot : Block \cup {None}]
      BY <2>3
    <2>5. pc' \in {"pin", "header"}
      BY <1>1 DEF Begin, TakeHead
    <2> QED
      BY <1>1, <2>4, <2>5 DEF Begin, TakeHead, nodeVars, headVars, cacheVars, feedVars
  <1>2. CASE BurstReadsHead
    BY <1>2 DEF BurstReadsHead, nodeVars, cacheVars, feedVars
  <1>3. CASE BurstBegins
    BY <1>3, ZenonT(60) DEF BurstBegins, nodeVars, cacheVars, feedVars, Block
  <1>4. CASE ReadHeader
    <2>1. PICK b \in IF Hinted THEN {hint}
                     ELSE IF Cached # {} THEN Cached
                     ELSE {BlockAt(view, h) : h \in {job.num} \cap 0 .. view.head} :
            /\ job'       = [job EXCEPT !.header = b]
            /\ headers'   = IF Hinted \/ Cached # {} THEN headers ELSE Remembered(b)
            /\ snaps'     = Kept(b)
            /\ cacheHead' = b
      BY <1>4 DEF ReadHeader
    <2>2. b \in Block
      BY ServedBlock DEF Hinted, Cached
    <2>3. headers' \subseteq Block /\ IsFiniteSet(headers') /\ Cardinality(headers') <= HeaderSlots
      BY <2>1, <2>2, RememberedType
    <2>4. snaps' \in [Pool -> [slot : Block, word : SUBSET Block] \cup {None}]
      BY <2>1 DEF Kept
    <2> QED
      BY <1>4, <2>1, <2>2, <2>3, <2>4, ZenonT(60) DEF ReadHeader, nodeVars, headVars, feedVars
  <1>5. CASE ReadPrices
    <2>1. PICK g \in Batches :
            /\ job'   = [job EXCEPT !.pools = g, !.slot = BlockAt(view, job.num)]
            /\ words' = Merged(g)
      BY <1>5 DEF ReadPrices
    <2>2. g \subseteq Pool
      BY DEF Batches, Missing
    <2>3. BlockAt(view, job.num) \in Block
      BY <1>5, ServedBlock DEF ReadPrices, Served
    <2>4. words' \in [Pool -> {None} \cup SUBSET Block]
      BY <2>1, MergedType
    <2> QED
      BY <1>5, <2>1, <2>2, <2>3, <2>4 DEF ReadPrices, nodeVars, headVars, feedVars
  <1>6. CASE ReadWords
    <2>1. \A p \in Pool : WordRead(p) \in SUBSET Block
      BY WordType DEF WordRead
    <2>2. /\ words' \in [Pool -> {None} \cup SUBSET Block]
          /\ \A p \in job.pools : words'[p] \in SUBSET Block
      BY <1>6, <2>1 DEF ReadWords, Uncached
    <2>3. job.slot \in Block
      BY <1>6 DEF ReadWords
    <2>4. snaps' \in [Pool -> [slot : Block, word : SUBSET Block] \cup {None}]
      BY <1>6, <2>2, <2>3 DEF ReadWords
    <2> QED
      BY <1>6, <2>2, <2>4 DEF ReadWords, nodeVars, headVars, feedVars
  <1>7. CASE Verify
    BY <1>7 DEF Verify, nodeVars, headVars, cacheVars, feedVars
  <1>8. CASE Quote
    BY <1>8 DEF Quote, nodeVars, headVars, cacheVars
  <1>9. CASE Fail
    <2>1. words' \in [Pool -> {None} \cup SUBSET Block]
      BY <1>9, MergedType DEF Fail
    <2> QED
      BY <1>9, <2>1 DEF Fail, nodeVars, headVars, feedVars
  <1>10. CASE Ingest
    <2>1. applied' \in Block
      BY <1>10, ServedBlock DEF Ingest, Block
    <2>2. told' \in [Pool -> SUBSET Block]
      BY <1>10 DEF Ingest
    <2>3. loaded' \in [Pool -> {None} \cup SUBSET Block]
      <3>1. PICK failing \in Failing(applied') : \E right \in SUBSET failing :
              loaded' = [p \in Pool |-> Reloaded(p, applied', failing, right)]
        BY <1>10 DEF Ingest
      <3>2. PICK right \in SUBSET failing :
              loaded' = [p \in Pool |-> Reloaded(p, applied', failing, right)]
        BY <3>1
      <3>3. \A p \in Pool : Reloaded(p, applied', failing, right) \in {None} \cup SUBSET Block
        BY <2>1, WordType DEF Reloaded
      <3> QED
        BY <3>2, <3>3
    <2> QED
      BY <1>10, <2>1, <2>2, <2>3 DEF Ingest, nodeVars, headVars, cacheVars
  <1>11. CASE Rollback
    <2>1. PICK old \in {c \in Chains : IsOn(applied, c)}, h \in 0 .. applied.num - 1 :
            /\ applied'   = BlockAt(old, h)
            /\ evaluated' = IF evaluated > h THEN h ELSE evaluated
            /\ told'      = [p \in Pool |-> {b \in told[p] : b.num <= h}]
      BY <1>11 DEF Rollback
    <2>2. h \in 0 .. old.head /\ h \in Nat
      BY DEF IsOn, Block
    <2>3. applied' \in Block
      BY <2>1, <2>2, ServedBlock
    <2> QED
      BY <1>11, <2>1, <2>2, <2>3 DEF Rollback, nodeVars, headVars, cacheVars
  <1>12. CASE NewHead
    <2>1. PICK h \in known.num + 1 .. view.head : known' = BlockAt(view, h)
      BY <1>12 DEF NewHead
    <2>2. known' \in Block
      BY <2>1, ServedBlock DEF Block
    <2> QED
      BY <1>12, <2>2 DEF NewHead, nodeVars, cacheVars, feedVars
  <1>13. ASSUME NEW p \in Pool, HandleLPEvent(p) PROVE Typed'
    <2>1. told' \in [Pool -> SUBSET Block]
      BY <1>13 DEF HandleLPEvent, NextLogs, WordAt
    <2> QED
      BY <1>13, <2>1 DEF HandleLPEvent, Invalidate, nodeVars, headVars
  <1>14. CASE ChainGrows
    BY <1>14 DEF ChainGrows, headVars, cacheVars, feedVars
  <1>15. CASE ChainSwitches
    BY <1>15 DEF ChainSwitches, headVars, cacheVars, feedVars
  <1>16. CASE UNCHANGED vars
    BY <1>16 DEF vars, nodeVars, headVars, cacheVars, feedVars
  <1>17. CASE PinHint
    BY <1>17 DEF PinHint, nodeVars, cacheVars, feedVars
  <1>18. CASE SetHeaderHint
    BY <1>18 DEF SetHeaderHint, nodeVars, cacheVars, feedVars
  <1> QED
    BY <1>1, <1>2, <1>3, <1>4, <1>5, <1>6, <1>7, <1>8, <1>9, <1>10, <1>11, <1>12,
       <1>13, <1>14, <1>15, <1>16, <1>17, <1>18 DEF Next, Process

-----------------------------------------------------------------------------
(* Blocks on the chain.                                                    *)

\* A block that is on the chain stays on it while the chain only grows.
LEMMA OnStays ==
  ASSUME Typed, NEW b \in Block, ChainGrows
  PROVE  /\ IsOn(b, view) => IsOn(b, view')
         /\ b.num <= view.head /\ ~IsOn(b, view) => b.num <= view'.head /\ ~IsOn(b, view')
BY DEF ChainGrows, Typed, TypeOK, Extends, IsOn, Block

\* Every step keeps names of blocks on the chain, as long as there is one chain.
LEMMA OnChainStep == Typed /\ OnChain /\ [Next]_vars => OnChain'
  <1> SUFFICES ASSUME Typed, OnChain, [Next]_vars, switches' = 0
               PROVE  \A b \in (headers \cup ({known, pushed, burst, hint, cacheHead, applied,
                                             job.header} \ {None}))' : IsOn(b, view')
    BY DEF OnChain
  <1> DEFINE Names == headers \cup ({known, pushed, burst, hint, cacheHead, applied,
                                   job.header} \ {None})
  <1>a. switches \in Nat
    BY DEF Typed, TypeOK
  <1>b. Names \subseteq Block
    BY DEF Typed, TypeOK
  <1>0. ASSUME ~ChainSwitches, switches = 0 PROVE \A b \in Names : IsOn(b, view)
    BY <1>0 DEF OnChain
  <1>1. CASE ChainSwitches
    BY <1>1, <1>a DEF ChainSwitches
  <1>2. CASE ChainGrows
    BY <1>2, <1>b, OnStays DEF ChainGrows, OnChain, headVars, cacheVars, feedVars
  <1>3. CASE ReadHeader
    <2>1. PICK b \in IF Hinted THEN {hint}
                     ELSE IF Cached # {} THEN Cached
                     ELSE {BlockAt(view, h) : h \in {job.num} \cap 0 .. view.head} :
            /\ job'       = [job EXCEPT !.header = b]
            /\ headers'   = IF Hinted \/ Cached # {} THEN headers ELSE Remembered(b)
            /\ cacheHead' = b
      BY <1>3 DEF ReadHeader
    <2>2. /\ switches = 0 /\ UNCHANGED <<known, pushed, burst, hint, applied, view>>
          /\ job'.header = b
      BY <1>3, <2>1 DEF ReadHeader, nodeVars, headVars, feedVars, Typed, TypeOK
    <2>3. IsOn(b, view)
      <3>1. CASE Hinted
        BY <2>1, <2>2, <3>1 DEF Hinted, OnChain
      <3>2. CASE ~Hinted /\ Cached # {}
        BY <2>1, <2>2, <3>2 DEF Cached, OnChain
      <3>3. CASE ~Hinted /\ Cached = {}
        BY <2>1, <3>3, ServedBlock DEF Typed, TypeOK
      <3> QED
        BY <3>1, <3>2, <3>3
    <2>4. headers' \subseteq headers \cup {b}
      BY <2>1 DEF Remembered
    <2> QED
      BY <2>1, <2>2, <2>3, <2>4 DEF OnChain
  <1>4. CASE NewHead
    <2>1. PICK h \in known.num + 1 .. view.head : known' = BlockAt(view, h)
      BY <1>4 DEF NewHead
    <2>2. IsOn(known', view)
      BY <2>1, ServedBlock DEF Typed, TypeOK, Block
    <2> QED
      BY <1>4, <2>2 DEF NewHead, nodeVars, cacheVars, feedVars, OnChain
  <1>5. CASE Ingest
    <2>1. IsOn(applied', view)
      BY <1>5, ServedBlock DEF Ingest, Typed, TypeOK, Block
    <2> QED
      BY <1>5, <2>1 DEF Ingest, nodeVars, headVars, cacheVars, OnChain
  <1>6. CASE Rollback
    BY <1>6 DEF Rollback, nodeVars, OnChain, Typed, TypeOK
  <1>7. CASE Begin \/ TakeHead
    <2>1. /\ UNCHANGED <<switches, view, headers, known, pushed, burst, hint, cacheHead, applied>>
          /\ job'.header \in {None, known, job.header}
      BY <1>7 DEF Begin, TakeHead, nodeVars, headVars, cacheVars, feedVars, Typed, TypeOK
    <2> QED
      BY <2>1 DEF OnChain, Typed, TypeOK
  <1>8. CASE BurstReadsHead
    BY <1>8 DEF BurstReadsHead, nodeVars, cacheVars, feedVars, OnChain, Typed, TypeOK
  <1>9. CASE BurstBegins
    <2>1. /\ UNCHANGED <<switches, view, headers, known, pushed, hint, cacheHead, applied>>
          /\ job'.header = job.header /\ burst' = None
      BY <1>9 DEF BurstBegins, nodeVars, cacheVars, feedVars, Typed, TypeOK
    <2> QED
      BY <2>1 DEF OnChain
  <1>10. CASE ReadPrices \/ ReadWords \/ Verify \/ Quote \/ Fail \/ UNCHANGED vars
    <2>1. job'.header = job.header
      BY <1>10 DEF ReadPrices, ReadWords, Verify, Quote, Fail, vars, Typed, TypeOK
    <2> QED
      BY <1>10, <2>1 DEF ReadPrices, ReadWords, Verify, Quote, Fail, vars, nodeVars, headVars,
                   cacheVars, feedVars, OnChain
  <1>11. ASSUME NEW p \in Pool, HandleLPEvent(p)
         PROVE  \A b \in Names' : IsOn(b, view')
    BY <1>11 DEF HandleLPEvent, nodeVars, headVars, OnChain
  <1>12. CASE PinHint
    BY <1>12 DEF PinHint, nodeVars, cacheVars, feedVars, OnChain
  <1>13. CASE SetHeaderHint
    BY <1>13 DEF SetHeaderHint, nodeVars, cacheVars, feedVars, OnChain
  <1> QED
    BY <1>1, <1>2, <1>3, <1>4, <1>5, <1>6, <1>7, <1>8, <1>9, <1>10, <1>11, <1>12, <1>13
       DEF Next, Process

-----------------------------------------------------------------------------
(* Prices and headers.                                                     *)

\* The header an evaluation reads is of the number it evaluates.
LEMMA HeaderFits ==
  ASSUME Typed, ReadHeader
  PROVE  /\ cacheHead' # None /\ cacheHead'.num = job'.num /\ job'.header = cacheHead'
         /\ snaps' = Kept(cacheHead')
  <1>1. PICK b \in IF Hinted THEN {hint}
                   ELSE IF Cached # {} THEN Cached
                   ELSE {BlockAt(view, h) : h \in {job.num} \cap 0 .. view.head} :
          /\ job'       = [job EXCEPT !.header = b]
          /\ snaps'     = Kept(b)
          /\ cacheHead' = b
    BY DEF ReadHeader
  <1>2. b \in Block /\ b.num = job.num
    BY ServedBlock DEF Hinted, Cached, Typed, TypeOK
  <1> QED
    BY <1>1, <1>2 DEF Typed, TypeOK

\* What fits goes on fitting, whatever the chain does.
LEMMA FitsStays ==
  ASSUME Typed, NEW s, cacheHead \in Block, Fits(s), ChainGrows \/ ChainSwitches,
         switches = 0 => s = cacheHead
  PROVE  Fits(s)'
  <1>1. CASE ChainGrows
    <2>1. UNCHANGED <<switches, cacheHead>>
      BY <1>1 DEF ChainGrows, cacheVars
    <2> QED
      BY <1>1, <2>1, OnStays DEF Fits
  <1>2. CASE ChainSwitches
    BY <1>2 DEF ChainSwitches, cacheVars, Fits, Typed, TypeOK
  <1> QED
    BY <1>1, <1>2

\* Every step keeps prices fitting the header they are stored under.
LEMMA PricedStep == Typed /\ OnChain /\ Priced /\ [Next]_vars => Priced'
  <1> SUFFICES ASSUME Typed, OnChain, Priced, [Next]_vars PROVE Priced'
    OBVIOUS
  <1> USE DEF AtWork, Working
  <1>1. CASE ReadHeader
    <2>1. /\ cacheHead' # None /\ cacheHead'.num = job'.num /\ job'.header = cacheHead'
          /\ snaps' = Kept(cacheHead')
      BY <1>1, HeaderFits
    <2>2. /\ UNCHANGED <<switches, view, mode>> /\ pc' \in {"price", "verify"}
          /\ pc' = "verify" => \A p \in Pool : snaps'[p] # None
      BY <1>1 DEF ReadHeader, nodeVars
    <2>3. ASSUME NEW p \in Pool, snaps'[p] # None PROVE Fits(snaps[p].slot)'
      <3>1. cacheHead' = cacheHead /\ snaps' = snaps
        BY <2>1, <2>3 DEF Kept
      <3> QED
        BY <2>2, <2>3, <3>1 DEF Priced, Fits
    <2> QED
      BY <2>1, <2>2, <2>3 DEF Priced, OneBlock
  <1>2. CASE ReadPrices
    <2>1. /\ UNCHANGED <<switches, view, cacheHead, snaps, mode>> /\ pc' = "word"
          /\ job'.header = job.header /\ job'.num = job.num
          /\ job'.slot = BlockAt(view, job.num) /\ job.num \in 0 .. view.head
      BY <1>2 DEF ReadPrices, nodeVars, Served, Typed, TypeOK
    <2>2. cacheHead \in Block /\ job.header = cacheHead /\ cacheHead.num = job.num
      BY <1>2 DEF ReadPrices, Priced, Typed, TypeOK
    <2>3. BlockAt(view, job.num) \in Block /\ IsOn(BlockAt(view, job.num), view)
          /\ BlockAt(view, job.num).num = job.num
      BY <2>1, ServedBlock DEF Typed, TypeOK
    <2>4. IsOn(cacheHead, view) => job'.slot = cacheHead
      BY <2>1, <2>2, <2>3, OneBlockPerHeight
    <2>5. switches = 0 => IsOn(cacheHead, view)
      BY <2>2 DEF OnChain
    <2>6. switches \in Nat /\ cacheHead.num <= view.head
      BY <2>1, <2>2 DEF Typed, TypeOK
    <2>7. Fits(job'.slot)
      BY <2>4, <2>5, <2>6 DEF Fits
    <2> QED
      BY <2>1, <2>2, <2>7 DEF Priced, OneBlock, Fits
  <1>3. CASE ReadWords
    <2>1. /\ UNCHANGED <<switches, view, cacheHead, job, mode>> /\ pc' \in {"price", "verify"}
          /\ pc' = "verify" => \A p \in Pool : snaps'[p] # None
          /\ \A p \in Pool : snaps'[p] = snaps[p] \/ snaps'[p].slot = job.slot
      BY <1>3 DEF ReadWords, nodeVars
    <2>2. Fits(job.slot) /\ job.header = cacheHead /\ cacheHead # None /\ cacheHead.num = job.num
      BY <1>3 DEF ReadWords, Priced
    <2>3. \A p \in Pool : snaps'[p] # None => Fits(snaps'[p].slot)
      BY <2>1, <2>2 DEF Priced
    <2> QED
      BY <2>1, <2>2, <2>3 DEF Priced, OneBlock, Fits
  <1>4. CASE Verify
    <2>1. /\ UNCHANGED <<switches, view, cacheHead, job, mode, snaps>> /\ pc' = "quote"
          /\ Verified => IsOn(job.header, view)
      BY <1>4 DEF Verify, nodeVars, cacheVars, Agreed
    <2>2. /\ job.header = cacheHead /\ cacheHead # None /\ cacheHead.num = job.num
          /\ \A p \in Pool : snaps[p] # None /\ Fits(snaps[p].slot)
      BY <1>4 DEF Verify, Priced
    <2>3. OneBlock'
      BY <2>1, <2>2 DEF OneBlock, Fits, Verified
    <2> QED
      BY <2>1, <2>2, <2>3 DEF Priced, Fits
  <1>5. CASE ChainGrows \/ ChainSwitches
    <2>1. UNCHANGED <<cacheHead, job, mode, snaps, pc>>
      BY <1>5 DEF ChainGrows, ChainSwitches, cacheVars
    <2>2. ASSUME NEW t, cacheHead \in Block, Fits(t) PROVE Fits(t)'
      BY <1>5, <2>2, FitsStays DEF Fits
    <2>3. /\ \A p \in Pool : snaps[p] # None => cacheHead # None /\ Fits(snaps[p].slot)'
          /\ pc = "word" => Fits(job.slot)'
      BY <2>1, <2>2 DEF Priced, Fits, Typed, TypeOK
    <2>4. OneBlock'
      <3>1. CASE switches' = 0 \/ switches = switches'
        BY <1>5, <2>1, <3>1 DEF OneBlock, Priced, ChainGrows, ChainSwitches, Typed, TypeOK, Verified
      <3>2. CASE switches' # 0 /\ switches # switches'
        <4>1. switches' = switches + 1
          BY <1>5, <3>2 DEF ChainGrows, ChainSwitches
        <4>2. switches' = 1 => switches = 0
          BY <4>1 DEF Typed, TypeOK
        <4> QED
          BY <2>1, <3>2, <4>2 DEF OneBlock, Priced
      <3> QED
        BY <3>1, <3>2
    <2> QED
      BY <2>1, <2>3, <2>4 DEF Priced, Fits
  <1>6. CASE Begin \/ TakeHead \/ PinHint \/ BurstReadsHead \/ BurstBegins
    <2>1. /\ UNCHANGED <<switches, view, cacheHead, snaps, mode>>
          /\ pc' \in {"pin", "header"} \/ UNCHANGED <<pc, job>>
      BY <1>6 DEF Begin, TakeHead, PinHint, BurstReadsHead, BurstBegins, nodeVars, cacheVars
    <2> QED
      BY <2>1 DEF Priced, OneBlock, Fits, Verified
  <1>7. CASE Quote \/ Fail
    <2>1. UNCHANGED <<switches, view, cacheHead, snaps, mode>> /\ pc' = "idle"
      BY <1>7 DEF Quote, Fail, nodeVars, cacheVars
    <2> QED
      BY <2>1 DEF Priced, OneBlock, Fits
  <1>8. CASE NewHead \/ SetHeaderHint \/ Ingest \/ Rollback \/ UNCHANGED vars
    <2>1. UNCHANGED <<switches, view, cacheHead, snaps, mode, pc, job>>
      BY <1>8 DEF NewHead, SetHeaderHint, Ingest, Rollback, vars, nodeVars, cacheVars
    <2> QED
      BY <2>1 DEF Priced, OneBlock, Fits, Verified
  <1>9. ASSUME NEW p \in Pool, HandleLPEvent(p) PROVE Priced'
    <2>1. /\ UNCHANGED <<switches, view, cacheHead, mode, pc, job>> /\ pc = "idle"
          /\ \A q \in Pool : snaps'[q] # None => snaps'[q] = snaps[q]
      BY <1>9 DEF HandleLPEvent, Invalidate, nodeVars, Typed, TypeOK
    <2> QED
      BY <2>1 DEF Priced, OneBlock, Fits
  <1> QED
    BY <1>1, <1>2, <1>3, <1>4, <1>5, <1>6, <1>7, <1>8, <1>9 DEF Next, Process

-----------------------------------------------------------------------------
(* Words that are not ahead.                                               *)

\* What Ingest does to the registry's words: nothing, the latest state, or the
\* ingested block on top.
LEMMA IngestedWords ==
  ASSUME Ingest, Typed, NEW p \in Pool
  PROVE  /\ \/ loaded'[p] = loaded[p]
            \/ loaded'[p] = WordAt(view, p, view.head)
            \/ loaded[p] # None /\ applied' \in Flips[p] /\ loaded'[p] = loaded[p] \cup {applied'}
         /\ ~Errors => loaded'[p] = IF applied' \in Flips[p] THEN WordAt(view, p, view.head)
                                                              ELSE loaded[p]
  <1>1. PICK failing \in Failing(applied') : \E right \in SUBSET failing :
          loaded' = [q \in Pool |-> Reloaded(q, applied', failing, right)]
    BY DEF Ingest
  <1>2. PICK right \in SUBSET failing :
          loaded' = [q \in Pool |-> Reloaded(q, applied', failing, right)]
    BY <1>1
  <1>3. loaded'[p] = Reloaded(p, applied', failing, right)
    BY <1>2
  <1>4. failing \subseteq Touched(applied') /\ (~Errors => failing = {})
    BY <1>1 DEF Failing
  <1> QED
    BY <1>3, <1>4 DEF Reloaded, Touched

\* Every step keeps the words behind the quotes, where quotes only move up.
LEMMA NotAheadStep == Typed /\ OnChain /\ NotAhead /\ [Next]_vars => NotAhead'
  <1> SUFFICES ASSUME Typed, OnChain, NotAhead, [Next]_vars PROVE NotAhead'
    OBVIOUS
  <1>a. job.num \in Int /\ view \in Chains /\ view.head \in Int /\ known.num \in Int
    BY DEF Typed, TypeOK, Block
  <1>b. \A p \in Pool, h \in Int, k \in Int : h <= k => WordAt(view, p, h) \subseteq WordAt(view, p, k)
    BY <1>a, WordGrows
  <1>1. CASE Begin \/ TakeHead
    <2>1. /\ UNCHANGED <<mode, view, switches, known, burst, words, snaps, loaded>>
          /\ pc = "idle" /\ pc' # "idle"
          /\ Streamed => job'.num = known.num
          /\ ~Streamed /\ ~Strict => job'.num = view.head
      BY <1>1 DEF Begin, TakeHead, nodeVars, headVars, cacheVars, feedVars, StateHeight, Typed, TypeOK
    <2>2. Upward => job'.num = Highest /\ job'.num \in Int /\ job.num <= job'.num
      BY <1>a, <2>1 DEF Upward, Highest, NotAhead
    <2>3. Upward' = Upward /\ Highest' = Highest
      BY <2>1 DEF Upward, Highest, Streamed, Strict
    <2>4. ASSUME Upward, NEW p \in Pool
          PROVE  /\ words[p] # None => words[p] \subseteq WordAt(view, p, job'.num)
                 /\ snaps[p] # None => snaps[p].word \subseteq WordAt(view, p, job'.num)
                 /\ loaded[p] # None => loaded[p] \subseteq WordAt(view, p, job'.num)
      BY <1>a, <1>b, <2>1, <2>2, <2>4 DEF NotAhead, Upward, Highest
    <2> QED
      BY <1>a, <2>1, <2>2, <2>3, <2>4 DEF NotAhead, Streamed
  <1>2. CASE BurstBegins \/ BurstReadsHead
    <2>1. Streamed /\ mode.bursts
      BY <1>2 DEF BurstBegins, BurstReadsHead, NotAhead, Typed, TypeOK, Mode, Streamed
    <2> QED
      BY <1>2, <2>1 DEF BurstBegins, BurstReadsHead, NotAhead, Upward, Streamed, nodeVars, feedVars
  <1>3. CASE ReadHeader
    <2>1. /\ UNCHANGED <<mode, view, switches, known, burst, words, loaded>>
          /\ pc # "idle" /\ pc' # "idle" /\ job'.num = job.num
          /\ \A p \in Pool : snaps'[p] # None => snaps'[p] = snaps[p]
      BY <1>3 DEF ReadHeader, Kept, nodeVars, headVars, feedVars, Typed, TypeOK
    <2> QED
      BY <2>1 DEF NotAhead, Upward, Highest, Streamed, Strict
  <1>4. CASE ReadPrices
    <2>1. PICK g : words' = Merged(g)
      BY <1>4 DEF ReadPrices
    <2>2. /\ UNCHANGED <<mode, view, switches, known, burst, snaps, loaded>>
          /\ pc # "idle" /\ pc' # "idle" /\ job'.num = job.num
          /\ \A p \in Pool : words'[p] = words[p] \/ words'[p] = loaded[p]
      BY <1>4, <2>1 DEF ReadPrices, Merged, nodeVars, headVars, feedVars, Typed, TypeOK
    <2> QED
      BY <2>2 DEF NotAhead, Upward, Highest, Streamed, Strict
  <1>5. CASE ReadWords
    <2>1. /\ UNCHANGED <<mode, view, switches, known, burst, loaded, job>>
          /\ pc # "idle" /\ pc' # "idle"
          /\ \A p \in Pool : /\ words'[p] = words[p] \/ words'[p] = WordAt(view, p, job.num)
                             /\ snaps'[p] = snaps[p] \/ snaps'[p].word = words'[p]
          /\ \A p \in Pool : snaps'[p] # snaps[p] => words'[p] # None
      <3>1. \A p \in Pool : words'[p] = IF p \in Uncached THEN WordAt(view, p, job.num) ELSE words[p]
        BY <1>5 DEF ReadWords, WordRead
      <3>2. \A p \in Pool : snaps'[p] = IF p \in job.pools THEN [slot |-> job.slot, word |-> words'[p]]
                                                          ELSE snaps[p]
        BY <1>5 DEF ReadWords
      <3>3. \A p \in job.pools : words'[p] # None
        BY <3>1, WordType DEF Uncached, Typed, TypeOK
      <3> QED
        BY <1>5, <3>1, <3>2, <3>3 DEF ReadWords, nodeVars, headVars, feedVars
    <2> QED
      BY <2>1 DEF NotAhead, Upward, Highest, Streamed, Strict
  <1>6. CASE Verify
    BY <1>6 DEF Verify, nodeVars, headVars, cacheVars, feedVars, NotAhead, Upward, Highest,
                Streamed, Strict
  <1>7. CASE Quote \/ Fail
    <2>1. /\ UNCHANGED <<mode, view, switches, known, burst, snaps, loaded, job>>
          /\ pc # "idle" /\ pc' = "idle"
          /\ \A p \in Pool : words'[p] = words[p] \/ words'[p] = loaded[p]
      <3>1. CASE Quote
        BY <3>1 DEF Quote, nodeVars, headVars, cacheVars
      <3>2. CASE Fail
        <4>1. words' = words \/ \E g \in Batches : words' = Merged(g)
          BY <3>2 DEF Fail
        <4>2. \A p \in Pool : words'[p] = words[p] \/ words'[p] = loaded[p]
          BY <4>1 DEF Merged
        <4> QED
          BY <3>2, <4>2 DEF Fail, nodeVars, headVars, feedVars
      <3> QED
        BY <1>7, <3>1, <3>2
    <2>2. /\ ~Streamed => (Upward => job.num <= view.head)
          /\ Streamed => \A p \in Pool : loaded[p] = None
      BY DEF NotAhead, Highest
    <2>3. ASSUME Upward, NEW p \in Pool, loaded[p] # None
          PROVE  loaded[p] \subseteq WordAt(view, p, view.head)
      BY <1>a, <1>b, <2>1, <2>2, <2>3 DEF NotAhead
    <2> QED
      BY <2>1, <2>3 DEF NotAhead, Upward, Highest, Streamed, Strict
  <1>8. CASE NewHead
    <2>1. /\ UNCHANGED <<mode, view, switches, burst, words, snaps, loaded, pc, job>>
          /\ Streamed /\ known.num <= known'.num /\ known'.num \in Int
      BY <1>8, <1>a, ServedBlock DEF NewHead, nodeVars, cacheVars, feedVars, BlockAt
    <2> QED
      BY <1>a, <2>1 DEF NotAhead, Upward, Highest, Streamed, Strict
  <1>9. ASSUME NEW q \in Pool, HandleLPEvent(q) PROVE NotAhead'
    <2>1. /\ UNCHANGED <<mode, view, switches, known, burst, loaded, pc, job>>
          /\ \A p \in Pool : /\ words'[p] # None => words'[p] = words[p]
                             /\ snaps'[p] # None => snaps'[p] = snaps[p]
      BY <1>9 DEF HandleLPEvent, Invalidate, nodeVars, headVars, Typed, TypeOK
    <2> QED
      BY <2>1 DEF NotAhead, Upward, Highest, Streamed, Strict
  <1>10. CASE Ingest
    <2>1. /\ UNCHANGED <<mode, view, switches, known, burst, words, snaps, pc, job>>
          /\ ~Streamed /\ pc = "idle"
      BY <1>10 DEF Ingest, nodeVars, headVars, cacheVars
    <2>2. applied'.num <= view.head /\ IsOn(applied', view)
      BY <1>10, ServedBlock DEF Ingest, Typed, TypeOK, Block, BlockAt
    <2>3. ASSUME Upward, NEW p \in Pool, loaded'[p] # None
          PROVE  loaded'[p] \subseteq WordAt(view, p, view.head)
      <3>1. applied' \in Flips[p] => applied' \in WordAt(view, p, view.head)
        BY <2>2 DEF WordAt
      <3> QED
        BY <1>10, <2>1, <2>3, <3>1, IngestedWords DEF NotAhead
    <2> QED
      BY <2>1, <2>3 DEF NotAhead, Upward, Highest, Streamed, Strict
  <1>11. CASE Rollback
    <2>1. /\ UNCHANGED <<mode, view, switches, known, burst, words, snaps, pc, job>>
          /\ \A p \in Pool : loaded'[p] = None
      BY <1>11 DEF Rollback, nodeVars, headVars, cacheVars
    <2> QED
      BY <2>1 DEF NotAhead, Upward, Highest, Streamed, Strict
  <1>12. CASE ChainGrows
    <2>1. /\ UNCHANGED <<mode, switches, known, burst, words, snaps, loaded, pc, job>>
          /\ view' \in Chains /\ Extends(view', view) /\ view.head <= view'.head
          /\ view'.head \in Int
      BY <1>12 DEF ChainGrows, headVars, cacheVars, feedVars, Extends
    <2>2. \A p \in Pool, h \in Int, k \in Int :
            h <= k => WordAt(view, p, h) \subseteq WordAt(view', p, k)
      BY <1>a, <2>1, WordGrows
    <2> QED
      BY <1>a, <2>1, <2>2 DEF NotAhead, Upward, Highest, Streamed, Strict
  <1>13. CASE ChainSwitches
    <2>1. /\ UNCHANGED <<mode, burst, loaded>> /\ switches' # 0
      BY <1>13 DEF ChainSwitches, headVars, feedVars, Typed, TypeOK
    <2> QED
      BY <2>1 DEF NotAhead, Upward, Streamed
  <1>14. CASE UNCHANGED vars
    BY <1>14 DEF vars, nodeVars, headVars, cacheVars, feedVars, NotAhead, Upward, Highest,
                 Streamed, Strict
  <1>15. CASE PinHint \/ SetHeaderHint
    <2>1. /\ UNCHANGED <<mode, view, switches, known, burst, words, snaps, loaded, job>>
          /\ pc = "idle" <=> pc' = "idle"
      BY <1>15 DEF PinHint, SetHeaderHint, nodeVars, cacheVars, feedVars
    <2> QED
      BY <2>1 DEF NotAhead, Upward, Highest, Streamed, Strict
  <1> QED
    BY <1>1, <1>2, <1>3, <1>4, <1>5, <1>6, <1>7, <1>8, <1>9, <1>10, <1>11, <1>12, <1>13,
       <1>14, <1>15 DEF Next, Process

-----------------------------------------------------------------------------
(* Handled Mints and Burns.                                                *)

\* Every step keeps what rh-canary has handled in what it has cached.
LEMMA InvalidatedStep == Typed /\ NotAhead /\ Invalidated /\ [Next]_vars => Invalidated'
  <1> SUFFICES ASSUME Typed, NotAhead, Invalidated, [Next]_vars PROVE Invalidated'
    OBVIOUS
  <1> USE DEF HeadByHead
  <1>a. job.num \in Int /\ view \in Chains /\ view.head \in Int /\ known.num \in Int
    BY DEF Typed, TypeOK, Block
  <1>b. \A p \in Pool, h \in Int, k \in Int : h <= k => WordAt(view, p, h) \subseteq WordAt(view, p, k)
    BY <1>a, WordGrows
  <1>c. Streamed => \A p \in Pool : loaded[p] = None
    BY DEF NotAhead
  <1>d. ASSUME UNCHANGED <<mode, switches>> PROVE HeadByHead' = HeadByHead
    BY <1>d DEF InOrder, Streamed, Strict, Errors
  <1>1. CASE Begin \/ TakeHead
    <2>1. /\ UNCHANGED <<mode, view, switches, known, words, snaps, told>>
          /\ Streamed => job'.num = known.num
      BY <1>1 DEF Begin, TakeHead, nodeVars, headVars, cacheVars, feedVars, Typed, TypeOK
    <2> QED
      BY <2>1, <1>d DEF Invalidated
  <1>2. CASE BurstBegins
    <2>1. mode.bursts /\ UNCHANGED <<mode, switches>>
      BY <1>2 DEF BurstBegins, NotAhead, Typed, TypeOK, Mode, Streamed, nodeVars
    <2>2. ~HeadByHead
      BY <2>1 DEF InOrder
    <2> QED
      BY <2>1, <2>2, <1>d DEF Invalidated
  <1>3. CASE ReadHeader
    <2>1. /\ UNCHANGED <<mode, view, switches, known, words, told>>
          /\ pc # "idle" /\ job'.num = job.num
          /\ \A p \in Pool : snaps'[p] # None => snaps'[p] = snaps[p]
      BY <1>3 DEF ReadHeader, Kept, nodeVars, headVars, feedVars, Typed, TypeOK
    <2> QED
      BY <2>1, <1>d DEF Invalidated
  <1>4. CASE ReadPrices
    <2>1. PICK g : words' = Merged(g)
      BY <1>4 DEF ReadPrices
    <2>2. /\ UNCHANGED <<mode, view, switches, known, snaps, told>>
          /\ pc # "idle" /\ job'.num = job.num
          /\ Streamed => \A p \in Pool : words'[p] = words[p]
      BY <1>4, <1>c, <2>1 DEF ReadPrices, Merged, nodeVars, headVars, feedVars, Typed, TypeOK
    <2> QED
      BY <2>2, <1>d DEF Invalidated
  <1>5. CASE ReadWords
    <2>1. \A p \in Pool : words'[p] = IF p \in Uncached THEN WordAt(view, p, job.num) ELSE words[p]
      BY <1>5 DEF ReadWords, WordRead
    <2>2. \A p \in Pool : /\ p \in job.pools => snaps'[p].word = words'[p]
                          /\ p \notin job.pools => snaps'[p] = snaps[p]
      BY <1>5 DEF ReadWords
    <2>3. \A p \in job.pools : words'[p] # None
      BY <2>1, WordType DEF Uncached, Typed, TypeOK
    <2>4. UNCHANGED <<mode, view, switches, known, told, job>> /\ pc # "idle"
      BY <1>5 DEF ReadWords, nodeVars, headVars, feedVars
    <2>5. ASSUME HeadByHead, NEW p \in Pool
          PROVE  /\ words'[p] # None => told[p] \subseteq words'[p]
                 /\ snaps'[p] # None => told[p] \subseteq snaps'[p].word
      <3>1. words'[p] # None => told[p] \subseteq words'[p]
        BY <2>1, <2>4, <2>5 DEF Invalidated
      <3>2. CASE p \in job.pools
        <4>1. words'[p] # None /\ snaps'[p].word = words'[p]
          BY <2>2, <2>3, <3>2
        <4> QED
          BY <3>1, <4>1
      <3>3. CASE p \notin job.pools
        BY <2>2, <2>5, <3>1, <3>3 DEF Invalidated
      <3> QED
        BY <3>2, <3>3
    <2> QED
      BY <2>4, <2>5, <1>d DEF Invalidated
  <1>6. CASE Verify \/ Quote \/ UNCHANGED vars \/ BurstReadsHead \/ PinHint \/ SetHeaderHint
    <2>1. /\ UNCHANGED <<mode, view, switches, known, words, snaps, told, job>>
          /\ pc' # "idle" => pc # "idle"
      BY <1>6 DEF Verify, Quote, BurstReadsHead, PinHint, SetHeaderHint, vars, nodeVars, headVars,
                  cacheVars, feedVars
    <2> QED
      BY <2>1, <1>d DEF Invalidated
  <1>7. CASE Fail
    <2>1. words' = words \/ \E g \in Batches : words' = Merged(g)
      BY <1>7 DEF Fail
    <2>2. Streamed => \A p \in Pool : words'[p] = words[p]
      BY <1>c, <2>1 DEF Merged
    <2>3. UNCHANGED <<mode, view, switches, known, snaps, told>> /\ pc' = "idle"
      BY <1>7 DEF Fail, nodeVars, headVars, feedVars
    <2> QED
      BY <2>2, <2>3, <1>d DEF Invalidated
  <1>8. CASE NewHead
    <2>1. /\ UNCHANGED <<mode, view, switches, words, snaps, told, pc, job>>
          /\ known.num <= known'.num /\ known'.num \in Int
      BY <1>8, <1>a DEF NewHead, nodeVars, cacheVars, feedVars, BlockAt
    <2> QED
      BY <1>a, <1>b, <2>1, <1>d DEF Invalidated
  <1>9. ASSUME NEW q \in Pool, HandleLPEvent(q) PROVE Invalidated'
    <2>1. PICK b \in NextLogs(q) : /\ mode.headFirst => b.num <= known.num
                                   /\ told' = [told EXCEPT ![q] = @ \cup {b}]
      BY <1>9 DEF HandleLPEvent
    <2>2. /\ UNCHANGED <<mode, view, switches, known, pc, job>> /\ pc = "idle"
          /\ words'[q] = None /\ snaps'[q] = None
          /\ \A p \in Pool \ {q} : /\ words'[p] = words[p] /\ snaps'[p] = snaps[p]
                                   /\ told'[p] = told[p]
      BY <1>9, <2>1 DEF HandleLPEvent, Invalidate, nodeVars, headVars, Typed, TypeOK
    <2>3. told'[q] = told[q] \cup {b}
      BY <2>1 DEF Typed, TypeOK
    <2>4. HeadByHead => b \in WordAt(view, q, known.num)
      BY <2>1 DEF InOrder, NextLogs, WordAt
    <2> QED
      BY <2>2, <2>3, <2>4, <1>d DEF Invalidated
  <1>10. CASE Ingest \/ Rollback
    <2>1. ~Streamed /\ UNCHANGED <<mode, switches>>
      BY <1>10 DEF Ingest, Rollback, nodeVars
    <2> QED
      BY <2>1, <1>d DEF Invalidated
  <1>11. CASE ChainGrows
    <2>1. /\ UNCHANGED <<mode, switches, known, words, snaps, told, pc, job>>
          /\ view' \in Chains /\ Extends(view', view)
      BY <1>11 DEF ChainGrows, headVars, cacheVars, feedVars
    <2>2. \A p \in Pool, h \in Int : WordAt(view, p, h) \subseteq WordAt(view', p, h)
      BY <1>a, <2>1, WordGrows
    <2> QED
      BY <1>a, <2>1, <2>2, <1>d DEF Invalidated
  <1>12. CASE ChainSwitches
    BY <1>12 DEF ChainSwitches, Invalidated, InOrder, Typed, TypeOK
  <1> QED
    BY <1>1, <1>2, <1>3, <1>4, <1>5, <1>6, <1>7, <1>8, <1>9, <1>10, <1>11, <1>12 DEF Next, Process

\* Every step keeps what rh-arbitrage has ingested in what it will quote with.
LEMMA ReloadingStep ==
  Typed /\ OnChain /\ Priced /\ NotAhead /\ Reloading /\ [Next]_vars => Reloading'
  <1> SUFFICES ASSUME Typed, OnChain, Priced, NotAhead, Reloading, [Next]_vars
               PROVE  Reloading'
    OBVIOUS
  <1> USE DEF BlockByBlock
  <1>a. /\ job.num \in Int /\ view \in Chains /\ view.head \in Int
        /\ applied.num \in Int /\ evaluated \in Int
        /\ \A p \in Pool : \A b \in told[p] : b.num \in Int
    BY DEF Typed, TypeOK, Block
  <1>b. \A p \in Pool, h \in Int, k \in Int : h <= k => WordAt(view, p, h) \subseteq WordAt(view, p, k)
    BY <1>a, WordGrows
  <1>c. BlockByBlock => /\ switches = 0 /\ ~Streamed /\ Strict /\ ~Errors
                        /\ IsOn(applied, view)
    BY DEF InOrder, OnChain, Typed, TypeOK
  <1>d. ASSUME UNCHANGED <<mode, switches>> PROVE BlockByBlock' = BlockByBlock
    BY <1>d DEF InOrder, Streamed, Strict, Errors
  <1>1. CASE Begin \/ TakeHead
    <2>1. /\ UNCHANGED <<mode, view, switches, cacheHead, words, snaps, told, loaded,
                         applied, evaluated>>
          /\ BlockByBlock => pc' = "header"
          /\ BlockByBlock => evaluated < applied.num /\ job'.num = evaluated + 1
      BY <1>1, <1>c DEF Begin, TakeHead, nodeVars, headVars, cacheVars, feedVars, StateHeight, Typed, TypeOK
    <2> QED
      BY <2>1, <1>a, <1>d DEF Reloading
  <1>2. CASE BurstBegins
    <2>1. Streamed /\ UNCHANGED <<mode, switches>>
      BY <1>2 DEF BurstBegins, NotAhead, Typed, TypeOK, Mode, Streamed, nodeVars
    <2> QED
      BY <2>1, <1>d DEF Reloading
  <1>3. CASE ReadHeader
    <2>1. /\ UNCHANGED <<mode, view, switches, words, told, loaded, applied, evaluated>>
          /\ pc # "idle" /\ pc' \in {"price", "verify"} /\ job'.num = job.num
      BY <1>3 DEF ReadHeader, nodeVars, headVars, feedVars, Typed, TypeOK
    <2>2. /\ cacheHead'.num = job.num
          /\ \A p \in Pool : snaps'[p] # None => snaps'[p] = snaps[p] /\ cacheHead' = cacheHead
      BY <1>3, <2>1, HeaderFits DEF Kept
    <2> QED
      BY <2>1, <2>2, <1>a, <1>d DEF Reloading
  <1>4. CASE ReadPrices
    <2>1. PICK g \in Batches :
            /\ job'   = [job EXCEPT !.pools = g, !.slot = BlockAt(view, job.num)]
            /\ words' = Merged(g)
      BY <1>4 DEF ReadPrices
    <2>2. /\ UNCHANGED <<mode, view, switches, cacheHead, snaps, told, loaded, applied, evaluated>>
          /\ pc = "price" /\ pc' = "word" /\ job'.num = job.num /\ job'.pools = g
          /\ \A p \in Pool : words'[p] = IF p \in g /\ loaded[p] # None THEN loaded[p] ELSE words[p]
      BY <1>4, <2>1 DEF ReadPrices, Merged, nodeVars, headVars, feedVars, Typed, TypeOK
    <2> QED
      BY <2>2, <1>d DEF Reloading
  <1>5. CASE ReadWords
    <2>1. \A p \in Pool : words'[p] = IF p \in Uncached THEN WordAt(view, p, job.num) ELSE words[p]
      BY <1>5 DEF ReadWords, WordRead
    <2>2. \A p \in Pool : /\ p \in job.pools => snaps'[p].word = words'[p]
                          /\ p \notin job.pools => snaps'[p] = snaps[p]
      BY <1>5 DEF ReadWords
    <2>3. /\ UNCHANGED <<mode, view, switches, cacheHead, told, loaded, applied, evaluated, job>>
          /\ pc = "word" /\ pc' \in {"price", "verify"}
      BY <1>5 DEF ReadWords, nodeVars, headVars, feedVars
    <2>4. cacheHead.num = job.num
      BY <2>3 DEF Priced, AtWork, Working
    <2>5. ASSUME BlockByBlock, NEW p \in Pool, NEW b \in told[p], b.num <= job.num
          PROVE  b \in WordAt(view, p, job.num)
      BY <2>5 DEF Reloading, WordAt
    <2>6. ASSUME BlockByBlock, NEW p \in Pool, words'[p] # None, loaded[p] = None
          PROVE  told[p] \subseteq words'[p]
      <3>1. CASE p \in Uncached
        <4>1. evaluated < job.num /\ \A b \in told[p] : b.num <= evaluated
          BY <2>3, <2>6, <1>a DEF Reloading
        <4>2. \A b \in told[p] : b.num <= job.num
          BY <4>1, <1>a
        <4> QED
          BY <2>1, <2>5, <2>6, <3>1, <4>2
      <3>2. CASE p \notin Uncached
        BY <2>1, <2>6, <3>2 DEF Reloading
      <3> QED
        BY <3>1, <3>2
    <2>7. ASSUME BlockByBlock, NEW p \in Pool, snaps'[p] # None
          PROVE  {b \in told[p] : b.num <= cacheHead.num} \subseteq snaps'[p].word
      <3>1. CASE p \notin job.pools
        BY <2>2, <2>7, <3>1 DEF Reloading
      <3>2. CASE p \in job.pools /\ p \in Uncached
        BY <2>1, <2>2, <2>4, <2>5, <2>7, <3>2
      <3>3. CASE p \in job.pools /\ p \notin Uncached /\ loaded[p] = None
        <4>1. words[p] # None
          BY <3>3 DEF Uncached
        <4> QED
          BY <2>1, <2>2, <2>6, <2>7, <3>3, <4>1
      <3>4. CASE p \in job.pools /\ p \notin Uncached /\ loaded[p] # None
        <4>1. words'[p] = loaded[p] /\ told[p] \subseteq loaded[p]
          BY <2>1, <2>3, <2>7, <3>4 DEF Reloading
        <4> QED
          BY <2>2, <3>4, <4>1
      <3> QED
        BY <3>1, <3>2, <3>3, <3>4
    <2> QED
      BY <2>3, <2>6, <2>7, <1>d DEF Reloading
  <1>6. CASE Verify \/ UNCHANGED vars \/ BurstReadsHead \/ NewHead \/ PinHint \/ SetHeaderHint
    <2>1. /\ UNCHANGED <<mode, view, switches, cacheHead, words, snaps, told, loaded,
                         applied, evaluated, job>>
          /\ pc' # "idle" => pc # "idle"
          /\ pc' = "word" => pc = "word"
      BY <1>6 DEF Verify, BurstReadsHead, NewHead, PinHint, SetHeaderHint, vars, nodeVars, headVars,
                  cacheVars, feedVars
    <2> QED
      BY <2>1, <1>d DEF Reloading
  <1>7. CASE Quote
    <2>1. /\ UNCHANGED <<mode, view, switches, cacheHead, words, snaps, told, loaded, applied>>
          /\ pc # "idle" /\ pc' = "idle"
          /\ BlockByBlock => evaluated' = evaluated + 1
      BY <1>7, <1>c DEF Quote, nodeVars, headVars, cacheVars
    <2>2. BlockByBlock => evaluated + 1 <= applied.num
      BY <2>1 DEF Reloading
    <2>3. BlockByBlock => \A p \in Pool : loaded[p] = None => \A b \in told[p] : b.num <= evaluated + 1
      BY <1>a DEF Reloading
    <2> QED
      BY <2>1, <2>2, <2>3, <1>d DEF Reloading
  <1>8. CASE Fail
    <2>1. words' = words \/ \E g \in Batches : words' = Merged(g)
      BY <1>8 DEF Fail
    <2>2. \A p \in Pool : words'[p] = words[p] \/ (loaded[p] # None /\ words'[p] = loaded[p])
      BY <2>1 DEF Merged
    <2>3. /\ UNCHANGED <<mode, view, switches, cacheHead, snaps, told, loaded, applied, evaluated>>
          /\ pc' = "idle"
      BY <1>8 DEF Fail, nodeVars, headVars, feedVars
    <2> QED
      BY <2>2, <2>3, <1>d DEF Reloading
  <1>9. ASSUME NEW q \in Pool, HandleLPEvent(q) PROVE Reloading'
    BY <1>9, <1>d DEF HandleLPEvent, Reloading, nodeVars
  <1>10. CASE Ingest
    <2>1. /\ UNCHANGED <<mode, view, switches, cacheHead, words, snaps, evaluated, pc, job>>
          /\ pc = "idle" /\ IsOn(applied, view) /\ applied.num < view.head
          /\ applied' = BlockAt(view, applied.num + 1)
      BY <1>10 DEF Ingest, nodeVars, headVars, cacheVars
    <2>2. applied'.num = applied.num + 1 /\ IsOn(applied', view)
      BY <2>1, ServedBlock DEF Typed, TypeOK, Block
    <2>3. \A p \in Pool : told'[p] = told[p] \cup ({applied'} \cap Flips[p])
      BY <1>10 DEF Ingest
    <2>4. \A p \in Pool :
            BlockByBlock =>
              loaded'[p] = IF applied' \in Flips[p] THEN WordAt(view, p, view.head) ELSE loaded[p]
      BY <1>10, <1>c, IngestedWords
    <2>5. ASSUME BlockByBlock, NEW p \in Pool
          PROVE  told'[p] \subseteq WordAt(view, p, applied'.num)
      <3>1. told[p] \subseteq WordAt(view, p, applied.num + 1)
        BY <1>a, <1>b, <2>5 DEF Reloading
      <3>2. {applied'} \cap Flips[p] \subseteq WordAt(view, p, applied.num + 1)
        BY <1>a, <2>2 DEF WordAt
      <3> QED
        BY <2>2, <2>3, <3>1, <3>2
    <2>6. ASSUME BlockByBlock, NEW p \in Pool, applied' \in Flips[p]
          PROVE  loaded'[p] # None /\ told'[p] \subseteq loaded'[p]
      <3>1. loaded'[p] = WordAt(view, p, view.head)
        BY <2>4, <2>6
      <3>2. WordAt(view, p, applied'.num) \subseteq WordAt(view, p, view.head)
        BY <1>a, <1>b, <2>1, <2>2
      <3> QED
        BY <2>5, <2>6, <3>1, <3>2, WordType
    <2>7. ASSUME NEW p \in Pool, applied' \notin Flips[p]
          PROVE  told'[p] = told[p] /\ (BlockByBlock => loaded'[p] = loaded[p])
      BY <2>3, <2>4, <2>7, ZenonT(60)
    <2>8. ASSUME BlockByBlock, NEW p \in Pool, snaps[p] # None
          PROVE  {b \in told'[p] : b.num <= cacheHead.num} \subseteq snaps[p].word
      <3>1. cacheHead # None /\ cacheHead.num <= applied.num /\ cacheHead.num \in Int
        BY <2>8 DEF Priced, Reloading, Typed, TypeOK, Block
      <3> QED
        BY <1>a, <2>2, <2>3, <2>8, <3>1 DEF Reloading
    <2>9. BlockByBlock => /\ evaluated <= applied'.num
                          /\ cacheHead # None => cacheHead.num <= applied'.num
      BY <1>a, <2>2 DEF Reloading, Typed, TypeOK, Block
    <2> QED
      BY <2>1, <2>5, <2>6, <2>7, <2>8, <2>9, <1>d DEF Reloading
  <1>11. CASE Rollback
    <2>1. ~IsOn(applied, view) /\ UNCHANGED <<mode, switches>>
      BY <1>11 DEF Rollback, nodeVars
    <2> QED
      BY <2>1, <1>c, <1>d DEF Reloading
  <1>12. CASE ChainGrows
    <2>1. /\ UNCHANGED <<mode, switches, cacheHead, words, snaps, told, loaded, applied,
                         evaluated, pc, job>>
          /\ view' \in Chains /\ Extends(view', view)
      BY <1>12 DEF ChainGrows, headVars, cacheVars, feedVars
    <2>2. \A p \in Pool, h \in Int : WordAt(view, p, h) \subseteq WordAt(view', p, h)
      BY <1>a, <2>1, WordGrows
    <2> QED
      BY <1>a, <2>1, <2>2, <1>d DEF Reloading
  <1>13. CASE ChainSwitches
    BY <1>13 DEF ChainSwitches, Reloading, InOrder, Typed, TypeOK
  <1> QED
    BY <1>1, <1>2, <1>3, <1>4, <1>5, <1>6, <1>7, <1>8, <1>9, <1>10, <1>11, <1>12, <1>13
       DEF Next, Process

-----------------------------------------------------------------------------
(* The theorems.                                                           *)

\* The invariant holds when a process starts.
LEMMA InvariantInit == Init => IInv
  <1> SUFFICES ASSUME Init PROVE IInv
    OBVIOUS
  <1>1. Typed
    BY TypedInit
  <1>2. view \in Chains /\ view.head \in 0 .. view.head
    BY <1>1 DEF Typed, TypeOK
  <1>3. /\ IsOn(BlockAt(view, view.head), view) /\ BlockAt(view, view.head).num = view.head
    BY <1>2, ServedBlock
  <1>4. OnChain
    BY <1>3 DEF Init, OnChain
  <1>5. Priced
    BY DEF Init, Priced, OneBlock, Working
  <1>6. NotAhead
    BY <1>2, <1>3 DEF Init, NotAhead, Highest, Upward
  <1>7. Invalidated
    BY <1>2, <1>3 DEF Init, Invalidated
  <1>8. Reloading
    <2>1. \A p \in Pool : \A b \in told[p] : b.num <= evaluated
      BY <1>3 DEF Init, WordAt
    <2> QED
      BY <1>2, <1>3, <2>1 DEF Init, Reloading
  <1> QED
    BY <1>1, <1>4, <1>5, <1>6, <1>7, <1>8 DEF IInv

\* The inductive invariant holds throughout.
THEOREM CacheInvariant == Spec => []IInv
  <1>1. Init => IInv
    BY InvariantInit
  <1>2. IInv /\ [Next]_vars => IInv'
    BY TypedStep, OnChainStep, PricedStep, NotAheadStep, InvalidatedStep, ReloadingStep DEF IInv
  <1> QED
    BY <1>1, <1>2, PTL DEF Spec

\* Every variable keeps its type, and the header cache its size, in every mode.
THEOREM CacheTyped == Spec => []TypeOK
  <1>1. IInv => TypeOK
    BY DEF IInv, Typed
  <1> QED
    BY <1>1, CacheInvariant, PTL

\* All pools of a quote were read at the block the snapshot states: always on
\* one chain, and behind VerifyBlockHash on a chain replaced once.
THEOREM QuotesAreOfOneBlock == Spec => []OneBlock
  <1>1. IInv => OneBlock
    BY DEF IInv, Priced
  <1> QED
    BY <1>1, CacheInvariant, PTL

\* While quotes only move up, none uses a word from after its block.
THEOREM QuotesAreNotAhead == Spec => []NothingFromLater
  <1>1. IInv => NothingFromLater
    BY DEF IInv, NotAhead, Upward, Priced, NothingFromLater
  <1> QED
    BY <1>1, CacheInvariant, PTL

\* In the two orderly modes a handled Mint or Burn is in every later quote.
THEOREM HandledFlipsAreQuoted == Spec => []NoDroppedFlipInOrder
  <1>1. ASSUME IInv PROVE NoDroppedFlipInOrder
    <2> SUFFICES ASSUME InOrder, pc = "quote", NEW p \in Pool
                 PROVE  {b \in told[p] : b.num <= job.num} \subseteq snaps[p].word
      BY DEF NoDroppedFlipInOrder, NoDroppedFlip
    <2>1. snaps[p] # None /\ cacheHead.num = job.num
      BY <1>1 DEF IInv, Priced, AtWork, Working
    <2>2. CASE Streamed
      BY <1>1, <2>1, <2>2 DEF IInv, Invalidated, HeadByHead
    <2>3. CASE ~Streamed
      BY <1>1, <2>1, <2>3 DEF IInv, Reloading, BlockByBlock
    <2> QED
      BY <2>2, <2>3
  <1> QED
    BY <1>1, CacheInvariant, PTL

-----------------------------------------------------------------------------
(* Progress: how an evaluation ends, and what it leaves to be evaluated.   *)

\* A batch in hand is a part of what is missing, and the evaluation of
\* rh-arbitrage is one of a block that is ingested and not evaluated yet.
Underway ==
  /\ pc = "price" => Missing # {}
  /\ pc = "word" => job.pools # {} /\ job.pools \subseteq Missing
  /\ ~Streamed => evaluated <= applied.num /\ (pc # "idle" => evaluated < applied.num)

\* Until the chain is replaced, the height evaluated is a height of the chain.
Reachable == switches = 0 /\ pc # "idle" => job.num <= view.head

\* A batch is stored whole: what was missing and not in it is what is missing.
LEMMA StoredBatch ==
  ASSUME Typed, Underway, ReadWords
  PROVE  /\ pc = "word" /\ Missing' = Missing \ job.pools
         /\ pc' = IF Missing' = {} THEN "verify" ELSE "price"
  <1>1. /\ pc = "word" /\ job.pools \subseteq Missing /\ Missing \subseteq Pool
        /\ snaps' = [p \in Pool |-> IF p \in job.pools
                                    THEN [slot |-> job.slot, word |-> words'[p]]
                                    ELSE snaps[p]]
        /\ pc' = IF \E p \in Pool : snaps'[p] = None THEN "price" ELSE "verify"
    BY DEF ReadWords, Underway, Missing
  <1>2. ASSUME NEW p \in job.pools PROVE snaps'[p] # None
    <2>1. words'[p] \in SUBSET Block /\ job.slot \in Block /\ p \in Pool
      <3>1. words'[p] = IF p \in Uncached THEN WordRead(p) ELSE words[p]
        BY <1>1, <1>2 DEF ReadWords
      <3>2. p \notin Uncached => words[p] \in SUBSET Block
        BY <1>1, <1>2 DEF Uncached, Typed, TypeOK
      <3> QED
        BY <1>1, <1>2, <3>1, <3>2, WordType DEF WordRead, Typed
    <2>2. snaps'[p] \in [slot : Block, word : SUBSET Block]
      BY <1>1, <2>1
    <2> QED
      BY <2>2
  <1>3. Missing' = Missing \ job.pools
    BY <1>1, <1>2 DEF Missing
  <1>4. (\E p \in Pool : snaps'[p] = None) <=> Missing' # {}
    BY DEF Missing
  <1> QED
    BY <1>1, <1>3, <1>4

\* Every step keeps the batch within what is missing and the evaluation behind
\* ingestion: a rollback of the ingest cursor takes the evaluation along.
LEMMA UnderwayStep == IInv /\ Underway /\ [Next]_vars => Underway'
  <1> SUFFICES ASSUME IInv, Typed, Underway, [Next]_vars PROVE Underway'
    BY DEF IInv
  <1>1. evaluated \in Nat /\ applied \in Block /\ applied.num \in Nat
    BY DEF Typed, TypeOK, Block
  <1>2. CASE Begin \/ TakeHead \/ BurstBegins
    <2>1. /\ pc' \in {"pin", "header"} /\ UNCHANGED <<mode, evaluated, applied>>
          /\ ~Streamed => evaluated < applied.num
      BY <1>2 DEF Begin, TakeHead, BurstBegins, nodeVars, feedVars, IInv, NotAhead
    <2> QED
      BY <1>1, <2>1 DEF Underway, Streamed
  <1>3. CASE ReadHeader
    <2>1. /\ UNCHANGED <<mode, evaluated, applied>> /\ pc = "header"
          /\ pc' = IF \E p \in Pool : snaps'[p] = None THEN "price" ELSE "verify"
      BY <1>3 DEF ReadHeader, nodeVars, feedVars
    <2> QED
      BY <2>1 DEF Underway, Streamed, Missing
  <1>4. CASE ReadPrices
    <2>1. /\ UNCHANGED <<mode, evaluated, applied, snaps>> /\ pc = "price" /\ pc' = "word"
          /\ job'.pools \in Batches
      BY <1>4 DEF ReadPrices, nodeVars, feedVars, Typed, TypeOK
    <2>2. job'.pools # {} /\ job'.pools \subseteq Missing
      BY <2>1 DEF Batches, Underway
    <2> QED
      BY <2>1, <2>2 DEF Underway, Streamed, Missing
  <1>5. CASE ReadWords
    <2>1. UNCHANGED <<mode, evaluated, applied>>
      BY <1>5 DEF ReadWords, nodeVars, feedVars
    <2> QED
      BY <1>5, <2>1, StoredBatch DEF Underway, Streamed
  <1>6. CASE Verify
    BY <1>6 DEF Verify, nodeVars, feedVars, Underway, Streamed
  <1>7. CASE Quote
    BY <1>1, <1>7 DEF Quote, nodeVars, Underway, Streamed
  <1>8. CASE Fail
    BY <1>8 DEF Fail, nodeVars, feedVars, Underway, Streamed
  <1>9. CASE Ingest
    <2>1. applied'.num = applied.num + 1 /\ pc = "idle" /\ UNCHANGED <<mode, evaluated, pc>>
      BY <1>9 DEF Ingest, nodeVars, BlockAt
    <2> QED
      BY <1>1, <2>1 DEF Underway, Streamed
  <1>10. CASE Rollback
    <2>1. PICK h \in Nat : applied'.num = h /\ evaluated' = IF evaluated > h THEN h ELSE evaluated
      <3>1. \E c \in Chains, h \in 0 .. applied.num - 1 :
              /\ applied' = BlockAt(c, h)
              /\ evaluated' = IF evaluated > h THEN h ELSE evaluated
        BY <1>10 DEF Rollback
      <3> QED
        BY <3>1 DEF BlockAt
    <2> QED
      BY <1>1, <1>10, <2>1 DEF Rollback, Underway
  <1>11. CASE NewHead \/ BurstReadsHead \/ (\E p \in Pool : HandleLPEvent(p))
    <2>1. UNCHANGED <<mode, evaluated, applied, pc>> /\ Streamed
      BY <1>11 DEF NewHead, BurstReadsHead, HandleLPEvent, nodeVars, feedVars
    <2>2. pc = "idle" \/ UNCHANGED <<job, snaps>>
      BY <1>11 DEF NewHead, BurstReadsHead, HandleLPEvent, cacheVars
    <2> QED
      BY <2>1, <2>2 DEF Underway, Streamed, Missing
  <1>12. CASE ChainGrows \/ ChainSwitches \/ UNCHANGED vars
    BY <1>12 DEF ChainGrows, ChainSwitches, vars, nodeVars, cacheVars, feedVars, Underway,
       Streamed, Missing
  <1>13. CASE PinHint \/ SetHeaderHint
    <2>1. /\ UNCHANGED <<mode, evaluated, applied, snaps, job>>
          /\ \/ UNCHANGED pc
             \/ pc = "pin" /\ pc' = "header"
      BY <1>13 DEF PinHint, SetHeaderHint, nodeVars, cacheVars, feedVars
    <2> QED
      BY <2>1 DEF Underway, Streamed, Missing
  <1> QED
    BY <1>2, <1>3, <1>4, <1>5, <1>6, <1>7, <1>8, <1>9, <1>10, <1>11, <1>12, <1>13
       DEF Next, Process

\* The process evaluates what it knows: heads that were announced, blocks it
\* ingested, or the head it asked for.
LEMMA ReachableStep == IInv /\ Underway /\ Reachable /\ [Next]_vars => Reachable'
  <1> SUFFICES ASSUME IInv, Underway, Reachable, [Next]_vars, switches' = 0, pc' # "idle"
               PROVE  job'.num <= view'.head
    BY DEF Reachable
  <1>1. /\ view \in Chains /\ view.head \in Nat /\ switches \in Nat
        /\ evaluated \in Nat /\ applied \in Block /\ known \in Block
        /\ burst \in Block \cup {None}
        /\ \A b \in Block : b.num \in Nat
    BY DEF IInv, Typed, TypeOK, Block
  <1>2. CASE Begin \/ TakeHead
    <2>1. switches = 0 /\ view' = view
      BY <1>2 DEF Begin, TakeHead, nodeVars
    <2>2. known.num <= view.head /\ applied.num <= view.head
      BY <1>1, <2>1 DEF IInv, OnChain, IsOn
    <2>3. CASE Streamed
      BY <1>2, <2>1, <2>2, <2>3 DEF Begin, TakeHead, IInv, Typed, TypeOK
    <2>4. CASE ~Streamed
      <3>1. job'.num = StateHeight /\ evaluated < applied.num
        BY <1>2, <2>4 DEF Begin, TakeHead, IInv, Typed, TypeOK
      <3> QED
        BY <1>1, <2>1, <2>2, <3>1 DEF StateHeight
    <2> QED
      BY <2>3, <2>4
  <1>3. CASE BurstBegins
    <2>1. switches = 0 /\ view' = view /\ burst # None /\ job'.num = burst.num
      BY <1>3 DEF BurstBegins, nodeVars, IInv, Typed, TypeOK
    <2> QED
      BY <1>1, <2>1 DEF IInv, OnChain, IsOn
  <1>4. CASE PinHint \/ ReadHeader \/ ReadPrices \/ ReadWords \/ Verify
    <2>1. UNCHANGED <<switches, view>> /\ pc # "idle" /\ job'.num = job.num
      BY <1>4, ZenonT(60) DEF PinHint, ReadHeader, ReadPrices, ReadWords, Verify, nodeVars, IInv,
         Typed, TypeOK
    <2> QED
      BY <2>1 DEF Reachable
  <1>5. CASE Quote \/ Fail \/ Ingest \/ Rollback
    BY <1>5 DEF Quote, Fail, Ingest, Rollback
  <1>6. CASE NewHead \/ SetHeaderHint \/ BurstReadsHead \/ (\E p \in Pool : HandleLPEvent(p))
             \/ UNCHANGED vars
    BY <1>6 DEF NewHead, SetHeaderHint, BurstReadsHead, HandleLPEvent, vars, nodeVars, Reachable
  <1>7. CASE ChainGrows
    <2>1. /\ UNCHANGED <<switches, pc, job>> /\ view' \in Chains /\ view.head <= view'.head
          /\ view'.head \in Nat /\ job.num \in Nat
      BY <1>7 DEF ChainGrows, Extends, IInv, Typed, TypeOK
    <2>2. job.num <= view.head
      BY <2>1 DEF Reachable
    <2> QED
      BY <1>1, <2>1, <2>2
  <1>8. CASE ChainSwitches
    BY <1>1, <1>8 DEF ChainSwitches
  <1> QED
    BY <1>2, <1>3, <1>4, <1>5, <1>6, <1>7, <1>8 DEF Next, Process

\* Evaluation never passes ingestion, at whatever height its state is read and
\* however far a rollback takes the ingest cursor back.
THEOREM EvaluationStaysBehind == Spec => [](~Streamed => evaluated <= applied.num)
  <1>1. Init => Underway
    BY DEF Init, Underway, BlockAt
  <1>2. Underway => (~Streamed => evaluated <= applied.num)
    BY DEF Underway
  <1> QED
    BY <1>1, <1>2, UnderwayStep, CacheInvariant, PTL DEF Spec

\* An evaluation that has begun ends in a quote, where calls succeed and the
\* chain stays, although the node's head moves and headers, words and snapshots
\* come from caches of any age: no height is out of reach, and the snapshot's
\* hash is never refused (VerifyBlockHash).  The safety half of DrainsWhenSteady.
THEOREM SteadyEvaluationsQuote ==
  Spec => [][switches = 0 /\ ~Errors /\ pc # "idle" /\ pc' = "idle" => pc = "quote"]_vars
  <1>1. Init => Underway /\ Reachable
    BY DEF Init, Underway, Reachable, BlockAt
  <1>2. ASSUME IInv, Reachable, Next, switches = 0, ~Errors, pc # "idle", pc' = "idle"
        PROVE  pc = "quote"
    <2>1. CASE Fail
      <3>1. /\ job.num <= view.head /\ view.head \in Nat
            /\ pc \in {"header", "price", "word", "verify"}
        BY <1>2, <2>1 DEF Reachable, Fail, IInv, Typed, TypeOK
      <3>2. pc = "verify" => Agreed
        <4> SUFFICES ASSUME pc = "verify" PROVE IsOn(job.header, view)
          BY DEF Agreed
        <4>1. job.header = cacheHead /\ cacheHead # None
          BY <1>2 DEF IInv, Priced, AtWork, Working
        <4> QED
          BY <1>2, <4>1 DEF IInv, OnChain
      <3> QED
        BY <1>2, <2>1, <3>1, <3>2 DEF Fail, Served
    <2>2. CASE ~Fail
      BY <1>2, <2>2 DEF Next, Process, Begin, TakeHead, PinHint, BurstBegins, ReadHeader,
         ReadPrices, ReadWords, Verify, Quote, Ingest, Rollback, NewHead, SetHeaderHint,
         BurstReadsHead, HandleLPEvent, ChainGrows, ChainSwitches
    <2> QED
      BY <2>1, <2>2
  <1>3. IInv /\ Reachable /\ [Next]_vars =>
          [switches = 0 /\ ~Errors /\ pc # "idle" /\ pc' = "idle" => pc = "quote"]_vars
    BY <1>2
  <1> QED
    BY <1>1, <1>3, UnderwayStep, ReachableStep, CacheInvariant, PTL DEF Spec

\* What an evaluation has still to read.
Left ==
  CASE pc = "pin"    -> 2 * Cardinality(Pool) + 5
    [] pc = "header" -> 2 * Cardinality(Pool) + 4
    [] pc = "price"  -> 2 * Cardinality(Missing) + 3
    [] pc = "word"   -> 2 * Cardinality(Missing) + 2
    [] pc = "verify" -> 1
    [] OTHER         -> 0

\* An evaluation ends after finitely many steps of its own, with a quote or not:
\* batch after batch, whatever Mints, Burns and heads arrive and however often
\* the chain is replaced in between, the caches it fills are not emptied again.
THEOREM EvaluationEnds ==
  ASSUME IsFiniteSet(Pool)
  PROVE  Spec => /\ [](Left \in Nat)
                 /\ [][{pc, pc'} \subseteq Working \cup {"pin"}
                         => Left' < Left \/ UNCHANGED <<pc, job, snaps>>]_vars
  <1>1. Init => Underway
    BY DEF Init, Underway, BlockAt
  <1>2. /\ IsFiniteSet(Missing) /\ Cardinality(Missing) \in Nat
        /\ Cardinality(Missing) <= Cardinality(Pool) /\ Cardinality(Pool) \in Nat
    BY FS_Subset, FS_CardinalityType DEF Missing
  <1>3. Left \in Nat
    BY <1>2 DEF Left
  <1>4. ASSUME Typed, Underway, Next, {pc, pc'} \subseteq Working \cup {"pin"}
        PROVE  Left' < Left \/ UNCHANGED <<pc, job, snaps>>
    <2>1. IsFiniteSet(Missing') /\ Cardinality(Missing') \in Nat
          /\ Cardinality(Missing') <= Cardinality(Pool)
      BY FS_Subset, FS_CardinalityType DEF Missing
    <2>2. CASE ReadHeader
      BY <1>2, <2>1, <2>2 DEF ReadHeader, Left
    <2>3. CASE ReadPrices
      <3>1. Missing' = Missing
        BY <2>3 DEF ReadPrices, Missing
      <3> QED
        BY <1>2, <2>3, <3>1 DEF ReadPrices, Left
    <2>4. CASE ReadWords
      <3>1. /\ pc = "word" /\ Missing' = Missing \ job.pools
            /\ pc' = IF Missing' = {} THEN "verify" ELSE "price"
            /\ job.pools # {} /\ job.pools \subseteq Missing
        BY <1>4, <2>4, StoredBatch DEF Underway
      <3>2. Missing' \subseteq Missing /\ Missing' # Missing
        BY <3>1
      <3>3. Cardinality(Missing') < Cardinality(Missing)
        BY <1>2, <2>1, <3>2, FS_Subset
      <3> QED
        BY <1>2, <2>1, <3>1, <3>3 DEF Left
    <2>5. CASE Verify
      BY <2>5 DEF Verify, Left
    <2>6. CASE NewHead \/ SetHeaderHint \/ BurstReadsHead \/ ChainGrows \/ ChainSwitches
      BY <2>6 DEF NewHead, SetHeaderHint, BurstReadsHead, ChainGrows, ChainSwitches, cacheVars
    <2>7. CASE Begin \/ TakeHead \/ BurstBegins \/ Quote \/ Fail \/ Ingest \/ Rollback
               \/ (\E p \in Pool : HandleLPEvent(p))
      BY <1>4, <2>7 DEF Begin, TakeHead, BurstBegins, Quote, Fail, Ingest, Rollback, HandleLPEvent,
         Working
    <2>8. CASE PinHint
      BY <1>2, <2>8 DEF PinHint, Left
    <2> QED
      BY <1>4, <2>2, <2>3, <2>4, <2>5, <2>6, <2>7, <2>8 DEF Next, Process
  <1>5. Typed /\ Underway /\ [Next]_vars =>
          [{pc, pc'} \subseteq Working \cup {"pin"}
             => Left' < Left \/ UNCHANGED <<pc, job, snaps>>]_vars
    BY <1>4
  <1>6. IInv => Typed
    BY DEF IInv
  <1> QED
    BY <1>1, <1>3, <1>5, <1>6, UnderwayStep, CacheInvariant, PTL DEF Spec
=============================================================================
