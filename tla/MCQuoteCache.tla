---------------------------- MODULE MCQuoteCache ----------------------------
EXTENDS QuoteCache

CONSTANTS a, b,   \* labels of the main chain and of the competing fork
          p, q    \* pools

ChainOf(labels) ==
  [head |-> Cardinality(DOMAIN labels) - 1,
   at   |-> [h \in 0 .. Cardinality(DOMAIN labels) - 1 |-> labels[h + 1]]]
Prefix(c, n) == [head |-> n, at |-> [h \in 0 .. n |-> c.at[h]]]
Growing(full, from) == UNION {{Prefix(c, n) : n \in from .. c.head} : c \in full}

MCChains == Growing({ChainOf(<<a, a, a, a>>), ChainOf(<<a, b, b>>)}, 1)

MCFork == {a, b}
MCPool == {p, q}

Main(h) == [num |-> h, fork |-> a]
Side(h) == [num |-> h, fork |-> b]

\* p changes on the main chain only, q in the later blocks of either.
MCFlips ==
  [x \in MCPool |-> IF x = p THEN {Main(1), Main(2)} ELSE {Main(2), Main(3), Side(2)}]

Flags == [streamed |-> FALSE, strict |-> FALSE, verified |-> FALSE, headFirst |-> FALSE,
          bursts |-> FALSE, errors |-> TRUE, roams |-> FALSE]

\* rh-canary, in the order of newHeads, in any order, and with burstDecay.
Ordered == [Flags EXCEPT !.streamed = TRUE, !.headFirst = TRUE]
Early   == [Flags EXCEPT !.streamed = TRUE]
Bursty  == [Ordered EXCEPT !.bursts = TRUE]
\* rh-arbitrage at the head, and block by block; its node replaces the chain.
Latest  == Flags
Blocks  == [Flags EXCEPT !.strict = TRUE, !.verified = TRUE, !.errors = FALSE]
Checked == [Flags EXCEPT !.verified = TRUE, !.errors = FALSE,
                          !.roams = TRUE]

AllModes   == {Ordered, Early, Bursty, Latest, Blocks, Checked}
=============================================================================
