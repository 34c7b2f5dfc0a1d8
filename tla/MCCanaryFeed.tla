---------------------------- MODULE MCCanaryFeed ----------------------------
EXTENDS CanaryFeed

CONSTANTS p, q, r,   \* pools of one token; r may be created late
          s, t       \* subscriptions

L(n, i, x) == [num |-> n, idx |-> i, pool |-> x]

OldPools == {p, q}
AllOfThem == {p, q, r}

\* Blocks with logs of several pools; r trades from its creation in block 2 on.
Logs == {L(1, 0, p), L(2, 0, p), L(2, 1, q), L(2, 2, r), L(3, 0, q), L(3, 1, r)}

OneToken == [x \in AllOfThem |-> "token"]
BornAt2  == [x \in {r} |-> 2]

OneShard  == {s}
TwoShards == {s, t}
AllInOne  == [x \in Pool |-> s]
Split     == [x \in Pool |-> IF x = p THEN s ELSE t]
=============================================================================
