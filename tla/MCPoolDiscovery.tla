-------------------------- MODULE MCPoolDiscovery --------------------------
EXTENDS PoolDiscovery

CONSTANTS w, x, o, f, n   \* two WETH pools, one of each other kind

MCAddr   == {w, x, o, f, n}
MCKindOf == [a \in MCAddr |->
              CASE a \in {w, x} -> "weth"
                [] a = o -> "other"
                [] a = f -> "foreign"
                [] a = n -> "none"]
MCPreloaded == {x}
=============================================================================
