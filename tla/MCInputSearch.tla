--------------------------- MODULE MCInputSearch ---------------------------
EXTENDS InputSearch

\* One peak, with a gentle or a steep slope on either side of it.
Slope(top, height, up, down) ==
  [x \in Amount |-> IF x <= top THEN height - up * (top - x) ELSE height - down * (x - top)]

MCLandscapes == {Slope(top, 2, up, down) : top \in Amount, up, down \in {1, 3}}

\* Amounts that can be quoted: up to a largest one, or with a gap.
MCQuotables == {1 .. n : n \in 0 .. Limit} \cup {Amount \ {n} : n \in Amount}

\* Not read, empty, or less than the largest amount.
MCBalances == {-1, 0, 5}
=============================================================================
