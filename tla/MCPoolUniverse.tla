--------------------------- MODULE MCPoolUniverse ---------------------------
EXTENDS PoolUniverse

CONSTANTS early, middle, late

MCPool    == {early, middle, late}
MCCreated == [p \in MCPool |-> CASE p = early -> 1 [] p = middle -> 2 [] p = late -> 4]
=============================================================================
