------------------------ MODULE MCArbitragePipeline ------------------------
EXTENDS ArbitragePipeline

CONSTANTS a, b   \* labels of the main chain and of the competing fork

\* A chain from the labels of heights 0, 1, 2, ...
ChainOf(labels) ==
  [head |-> Cardinality(DOMAIN labels) - 1,
   at   |-> [h \in 0 .. Cardinality(DOMAIN labels) - 1 |-> labels[h + 1]]]

Prefix(c, n) == [head |-> n, at |-> [h \in 0 .. n |-> c.at[h]]]

\* What a node can serve while the chains of the set grow from height "from".
Growing(full, from) == UNION {{Prefix(c, n) : n \in from .. c.head} : c \in full}

OneChain  == {ChainOf(<<a, a, a, a, a>>)}
ShortMain == {ChainOf(<<a, a, a, a>>)}
ShortFork == {ChainOf(<<a, b, b, b>>)}
LongChains == {ChainOf(<<a, a, a, a, a>>), ChainOf(<<a, a, b, b, b>>)}

MCFork    == {a, b}
MCOne     == Growing(OneChain, 1)
\* The main chain grows from its first block; the fork, which leaves it there,
\* is served only at its full height.
MCTwo     == Growing(ShortMain, 0) \cup Growing(ShortFork, 3)
MCLong    == Growing(LongChains, 1)

AllBlocks  == [num : 0 .. 4, fork : MCFork]
Quiet      == {[num |-> 2, fork |-> a]}   \* blocks without any log

LoggedSome  == AllBlocks \ Quiet
\* Block 3 of the main chain holds only a Mint or a Burn.
SwappedSome == LoggedSome \ {[num |-> 3, fork |-> a]}
=============================================================================
