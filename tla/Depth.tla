-------------------------------- MODULE Depth --------------------------------
(***************************************************************************)
(* Price levels as the code's book analytics see them.  A side of a book   *)
(* is a function from prices to quantities; a ladder is its levels from    *)
(* the best price outwards, the order in which every loop of               *)
(* itch-parser/itch_book.hpp and orderbook/orderbook_pro.hpp               *)
(* visits them.  A ratio is a pair <<numerator, denominator>>, with        *)
(* denominator 0 where the code returns 0.0 for "no value".                *)
(***************************************************************************)
EXTENDS Integers, FiniteSets, Sequences, FiniteSetsExt, SequencesExt, Functions

Contra(side) == IF side = "B" THEN "S" ELSE "B"

\* p is at least as good as q for an order resting on side
AtLeast(side, p, q) == IF side = "B" THEN p >= q ELSE p <= q

Ladder(levels, side) ==
    LET better(p, q) == p # q /\ AtLeast(side, p, q)
        prices == SetToSortSeq(DOMAIN levels, better)
    IN  [i \in DOMAIN prices |-> [px |-> prices[i], qty |-> levels[prices[i]]]]

Upto(ladder, n) == SubSeq(ladder, 1, IF n < Len(ladder) THEN n ELSE Len(ladder))
Shares(ladder) == FoldLeft(LAMBDA sum, l : sum + l.qty, 0, ladder)
Notional(ladder) == FoldLeft(LAMBDA sum, l : sum + l.px * l.qty, 0, ladder)

\* How many levels an order for shares goes through, 0 when the ladder is too thin.
Reach(ladder, shares) ==
    LET deep == {n \in DOMAIN ladder : Shares(Upto(ladder, n)) >= shares}
    IN  IF deep = {} THEN 0 ELSE Min(deep)

\* What an order for shares takes, and what it pays.
Sweep(ladder, shares) ==
    LET take(s, l) == LET q == IF s.left < l.qty THEN s.left ELSE l.qty
                      IN  [left |-> s.left - q, filled |-> s.filled + q, paid |-> s.paid + q * l.px]
    IN  FoldLeft(take, [left |-> shares, filled |-> 0, paid |-> 0], ladder)

\* (x - y) / (x + y), the code's imbalance of two non-negative amounts
Imbalance(x, y) == <<x - y, x + y>>
\* x / y, or no value
Ratio(x, y) == IF y = 0 THEN <<0, 0>> ELSE <<x, y>>
\* a / b < c / d for ratios with positive denominators
Below(r, s) == r[1] * s[2] < s[1] * r[2]
Defined(r) == r[2] > 0
==============================================================================
