------------------------------ MODULE ITCHFeed -------------------------------
(***************************************************************************)
(* itch-parser/itch_book.hpp: ITCHOrderBook, the book a feed handler       *)
(* rebuilds from the exchange's messages.  A method that returns dollars   *)
(* returns ticks here.  Side "B" is bids_, side "S" is asks_; where the    *)
(* code's `side` is that of an incoming order the parameter is taker.      *)
(***************************************************************************)
EXTENDS Depth

NoTape == [shares |-> 0, notional |-> 0,
           against |-> [s \in {"B", "S"} |-> 0], worth |-> [s \in {"B", "S"} |-> 0],
           maxDelta |-> 0, minDelta |-> 0, pulled |-> [s \in {"B", "S"} |-> 0],
           buyPrints |-> 0, sellPrints |-> 0, moved |-> 0, repriced |-> 0, maxMove |-> 0,
           prints |-> 0, largest |-> 0, lastPx |-> 0, lastBuy |-> FALSE, tick |-> 0,
           run |-> 0, buyRun |-> 0, sellRun |-> 0]
\* also clear()
EmptyITCH == [orders |-> <<>>, levels |-> [s \in {"B", "S"} |-> <<>>], tape |-> NoTape,
              adds |-> 0, executes |-> 0, cancels |-> 0, deletes |-> 0, replaces |-> 0, orphans |-> 0]

Knows(b, ref) == ref \in DOMAIN b.orders
\* the shares a message about ref really takes from it
Taken(b, ref, qty) == IF qty < b.orders[ref].shares THEN qty ELSE b.orders[ref].shares
Put(f, k, v) == [x \in DOMAIN f \cup {k} |-> IF x = k THEN v ELSE f[x]]
Drop(f, k) == Restrict(f, DOMAIN f \ {k})
QtyAt(b, side, px) == IF px \in DOMAIN b.levels[side] THEN b.levels[side][px] ELSE 0

\* Mutant of Reduce: a level that runs empty stays in the book.
ReduceKeepsLevel(b, ref, qty) ==
    IF ~Knows(b, ref) THEN [b EXCEPT !.orphans = @ + 1]
    ELSE LET o == b.orders[ref]
             dec == Taken(b, ref, qty)
         IN  [b EXCEPT !.orders = IF dec = o.shares THEN Drop(@, ref) ELSE [@ EXCEPT ![ref].shares = @ - dec],
                       !.levels[o.side] = Put(@, o.px, QtyAt(b, o.side, o.px) - dec)]

\* reduce_
Reduce(b, ref, qty) ==
    IF ~Knows(b, ref) THEN [b EXCEPT !.orphans = @ + 1]
    ELSE LET o == b.orders[ref]
             dec == Taken(b, ref, qty)
             left == QtyAt(b, o.side, o.px) - dec
         IN  [b EXCEPT !.orders = IF dec = o.shares THEN Drop(@, ref) ELSE [@ EXCEPT ![ref].shares = @ - dec],
                       !.levels[o.side] = CASE o.px \notin DOMAIN @ -> @
                                            [] o.px \in DOMAIN @ /\ left <= 0 -> Drop(@, o.px)
                                            [] OTHER -> Put(@, o.px, left)]

\* to_ticks: a wire price has two decimals more than a tick
ToTicks(price) == (price + 50) \div 100

OnAdd(b, ref, side, price, shares) ==
    LET px == ToTicks(price) IN
    IF shares = 0 THEN b
    ELSE [b EXCEPT !.orders = Put(@, ref, [side |-> side, px |-> px, shares |-> shares]),
                   !.levels[side] = Put(@, px, QtyAt(b, side, px) + shares),
                   !.adds = @ + 1]

CumulativeDelta(t) == t.against["S"] - t.against["B"]

\* Mutant of Printed: a run is not started anew when the aggressor changes.
PrintRuns(t, o, dec) ==
    LET buy == o.side = "S"
        delta == CumulativeDelta(t) + (IF buy THEN dec ELSE -dec)
        run == IF buy THEN t.run + 1 ELSE t.run - 1
    IN  [t EXCEPT !.shares = @ + dec, !.notional = @ + dec * o.px,
                  !.against[o.side] = @ + dec, !.worth[o.side] = @ + dec * o.px,
                  !.maxDelta = IF delta > @ THEN delta ELSE @,
                  !.minDelta = IF delta < @ THEN delta ELSE @,
                  !.buyPrints = IF buy THEN @ + 1 ELSE @, !.sellPrints = IF buy THEN @ ELSE @ + 1,
                  !.prints = @ + 1, !.largest = IF dec > @ THEN dec ELSE @,
                  !.lastPx = o.px, !.lastBuy = buy, !.run = run,
                  !.buyRun = IF run > @ THEN run ELSE @, !.sellRun = IF -run > @ THEN -run ELSE @]

\* What on_execute writes on the tape: order o gave dec shares to an aggressor.
Printed(t, o, dec) ==
    LET buy == o.side = "S"
        delta == CumulativeDelta(t) + (IF buy THEN dec ELSE -dec)
        run == CASE t.run > 0 /\ buy -> t.run + 1
                 [] t.run < 0 /\ ~buy -> t.run - 1
                 [] OTHER -> IF buy THEN 1 ELSE -1
    IN  [t EXCEPT !.shares = @ + dec, !.notional = @ + dec * o.px,
                  !.against[o.side] = @ + dec, !.worth[o.side] = @ + dec * o.px,
                  !.maxDelta = IF delta > @ THEN delta ELSE @,
                  !.minDelta = IF delta < @ THEN delta ELSE @,
                  !.buyPrints = IF buy THEN @ + 1 ELSE @, !.sellPrints = IF buy THEN @ ELSE @ + 1,
                  !.prints = @ + 1, !.largest = IF dec > @ THEN dec ELSE @,
                  !.tick = CASE t.lastPx # 0 /\ o.px > t.lastPx -> 1
                             [] t.lastPx # 0 /\ o.px < t.lastPx -> -1
                             [] OTHER -> @,
                  !.lastPx = o.px, !.lastBuy = buy, !.run = run,
                  !.buyRun = IF run > @ THEN run ELSE @,
                  !.sellRun = IF run <= t.buyRun /\ -run > @ THEN -run ELSE @]

OnExecute(b, ref, qty) ==
    LET told == IF Knows(b, ref) THEN [b EXCEPT !.tape = Printed(@, b.orders[ref], Taken(b, ref, qty))] ELSE b
    IN  [Reduce(told, ref, qty) EXCEPT !.executes = @ + 1]

Pull(b, ref, qty) ==
    IF Knows(b, ref) THEN [b EXCEPT !.tape.pulled[b.orders[ref].side] = @ + Taken(b, ref, qty)] ELSE b
OnCancel(b, ref, qty) == [Reduce(Pull(b, ref, qty), ref, qty) EXCEPT !.cancels = @ + 1]
OnDelete(b, ref) ==
    LET all == IF Knows(b, ref) THEN b.orders[ref].shares ELSE 0
    IN  [Reduce(Pull(b, ref, all), ref, all) EXCEPT !.deletes = @ + 1]

OnReplace(b, ref, new, price, shares) ==
    IF ~Knows(b, ref) THEN [b EXCEPT !.orphans = @ + 1, !.replaces = @ + 1]
    ELSE LET o == b.orders[ref]
             move == IF ToTicks(price) > o.px THEN ToTicks(price) - o.px ELSE o.px - ToTicks(price)
             t == [b EXCEPT !.tape.moved = @ + move, !.tape.repriced = @ + 1,
                            !.tape.maxMove = IF move > @ THEN move ELSE @]
         IN  [OnAdd(Reduce(t, ref, o.shares), new, o.side, price, shares)
                EXCEPT !.adds = @ - 1, !.replaces = @ + 1]

\* apply: a message m as parse left it; other types do not touch the book
Apply(b, m) == CASE m.type = "add" -> OnAdd(b, m.ref, m.side, m.price, m.qty)
                 [] m.type = "execute" -> OnExecute(b, m.ref, m.qty)
                 [] m.type = "cancel" -> OnCancel(b, m.ref, m.qty)
                 [] m.type = "delete" -> OnDelete(b, m.ref)
                 [] m.type = "replace" -> OnReplace(b, m.ref, m.new, m.price, m.qty)
                 [] OTHER -> b

------------------------------------------------------------------------------
(***************************************************************************)
(* itch-parser/itch_book.hpp: what ITCHOrderBook tells about the levels    *)
(* and the orders it holds.  Depth's ratios stand for its doubles; a mean  *)
(* of n prices is <<sum, n>>.                                              *)
(***************************************************************************)
Side(b, side) == Ladder(b.levels[side], side)
\* the levels an order of side taker meets
Against(b, taker) == Side(b, Contra(taker))
Empty(b, side) == DOMAIN b.levels[side] = {}
TwoSided(b) == ~Empty(b, "B") /\ ~Empty(b, "S")

(* The top of the book *)

BestBid(b) == IF Empty(b, "B") THEN 0 ELSE Max(DOMAIN b.levels["B"])
BestAsk(b) == IF Empty(b, "S") THEN 0 ELSE Min(DOMAIN b.levels["S"])
BestBidQty(b) == IF Empty(b, "B") THEN 0 ELSE b.levels["B"][BestBid(b)]
BestAskQty(b) == IF Empty(b, "S") THEN 0 ELSE b.levels["S"][BestAsk(b)]
SpreadTicks(b) == IF TwoSided(b) THEN BestAsk(b) - BestBid(b) ELSE 0
\* mid_price, as a mean of two prices
MidPrice(b) == IF TwoSided(b) THEN <<BestBid(b) + BestAsk(b), 2>> ELSE <<0, 0>>
SpreadOverMid(b) == IF TwoSided(b) THEN <<2 * SpreadTicks(b), BestBid(b) + BestAsk(b)>> ELSE <<0, 0>>
IsLocked(b) == TwoSided(b) /\ BestBid(b) = BestAsk(b)
IsCrossed(b) == TwoSided(b) /\ BestBid(b) > BestAsk(b)
IsMarketable(b, taker, limit) ==
    ~Empty(b, Contra(taker)) /\ AtLeast(taker, limit, IF taker = "B" THEN BestAsk(b) ELSE BestBid(b))
TopImbalance(b) == Imbalance(BestBidQty(b), BestAskQty(b))
\* threshold in percent
ImbalanceSignal(b, threshold) ==
    LET i == TopImbalance(b)
    IN  CASE Defined(i) /\ 100 * i[1] > threshold * i[2] -> 1
          [] Defined(i) /\ 100 * i[1] < -threshold * i[2] -> -1
          [] OTHER -> 0
Microprice(b) ==
    IF TwoSided(b)
    THEN <<BestAsk(b) * BestBidQty(b) + BestBid(b) * BestAskQty(b), BestBidQty(b) + BestAskQty(b)>>
    ELSE <<0, 0>>
MicropriceSkew(b) ==
    LET p == Microprice(b) m == MidPrice(b)
    IN  IF TwoSided(b) THEN <<p[1] * m[2] - m[1] * p[2], p[2] * m[2]>> ELSE <<0, 0>>

(* Levels within so many ticks of the best *)

Within(b, side, ticks) ==
    IF ticks < 0 \/ Empty(b, side) THEN <<>>
    ELSE LET near(l) == l.px \in (Side(b, side)[1].px - ticks)..(Side(b, side)[1].px + ticks)
         IN  SelectSeq(Side(b, side), near)
LiquidityWithin(b, side, ticks) == Shares(Within(b, side, ticks))
NotionalWithin(b, side, ticks) == Notional(Within(b, side, ticks))
LevelsWithin(b, side, ticks) == Len(Within(b, side, ticks))
LiquidityImbalanceWithin(b, ticks) ==
    Imbalance(LiquidityWithin(b, "B", ticks), LiquidityWithin(b, "S", ticks))

(* What an order would meet *)

FillableShares(b, taker, limit) ==
    Shares(SelectSeq(Against(b, taker), LAMBDA l : AtLeast(taker, limit, l.px)))

\* Mutant of PriceToFill: the order must be more than covered.
PriceToFillStrict(b, taker, shares) ==
    LET n == Reach(Against(b, taker), shares + 1)
    IN  IF shares <= 0 \/ n = 0 THEN 0 ELSE Against(b, taker)[n].px

PriceToFill(b, taker, shares) ==
    LET n == Reach(Against(b, taker), shares)
    IN  IF shares <= 0 \/ n = 0 THEN 0 ELSE Against(b, taker)[n].px
LevelsToFill(b, taker, shares) ==
    LET n == Reach(Against(b, taker), shares)
    IN  CASE shares <= 0 -> 0
          [] shares > 0 /\ n = 0 -> -1
          [] OTHER -> n
SpreadAtSize(b, shares) ==
    LET buy == PriceToFill(b, "B", shares)
        sell == PriceToFill(b, "S", shares)
    IN  IF buy > 0 /\ sell > 0 THEN buy - sell ELSE 0
ExpectedFill(b, taker, shares) == Sweep(Against(b, taker), IF shares <= 0 THEN 0 ELSE shares)
FillShortfall(b, taker, shares) == IF shares <= 0 THEN 0 ELSE shares - ExpectedFill(b, taker, shares).filled
\* slippage_bps without the factor 10000: how far from mid, relative to mid
Slippage(b, taker, shares) ==
    LET f == ExpectedFill(b, taker, shares)
        m == MidPrice(b)
        worse == f.paid * m[2] - m[1] * f.filled
    IN  IF f.filled = 0 \/ ~TwoSided(b) THEN <<0, 0>>
        ELSE <<IF taker = "B" THEN worse ELSE -worse, m[1] * f.filled>>
RoundTripCost(b, shares) == <<Slippage(b, "B", shares), Slippage(b, "S", shares)>>

(* The first n levels *)

TopLevels(b, side, n) == IF n <= 0 THEN <<>> ELSE Upto(Side(b, side), n)
NthLevelPrice(b, side, n) == IF n \in 0..(Len(Side(b, side)) - 1) THEN Side(b, side)[n + 1].px ELSE 0
NthLevelQty(b, side, n) == IF n \in 0..(Len(Side(b, side)) - 1) THEN Side(b, side)[n + 1].qty ELSE 0
CumulativeQty(b, side, n) == Shares(TopLevels(b, side, n))
DepthNotional(b, side, n) == Notional(TopLevels(b, side, n))
VwapDepth(b, side, n) == Ratio(DepthNotional(b, side, n), CumulativeQty(b, side, n))
\* va - vb and (va + vb) / 2 over the same denominator
DepthWeightedSpread(b, n) ==
    LET vb == VwapDepth(b, "B", n) va == VwapDepth(b, "S", n)
    IN  <<va[1] * vb[2] - vb[1] * va[2], va[2] * vb[2]>>
DepthWeightedMid(b, n) ==
    LET vb == VwapDepth(b, "B", n) va == VwapDepth(b, "S", n)
    IN  <<va[1] * vb[2] + vb[1] * va[2], 2 * va[2] * vb[2]>>
DepthImbalance(b, n) == Imbalance(CumulativeQty(b, "B", n), CumulativeQty(b, "S", n))
NotionalImbalance(b, n) == Imbalance(DepthNotional(b, "B", n), DepthNotional(b, "S", n))
DepthConcentration(b, side, n) == Ratio(CumulativeQty(b, side, n), Shares(Side(b, side)))
LargestLevelGap(b, side, n) ==
    LET top == TopLevels(b, side, n)
        gap(i) == IF side = "B" THEN top[i - 1].px - top[i].px ELSE top[i].px - top[i - 1].px
    IN  IF n <= 1 \/ Len(top) < 2 THEN 0 ELSE Max({gap(i) : i \in 2..Len(top)})
BookSlope(b, side, n) ==
    LET top == TopLevels(b, side, n)
        span == IF side = "B" THEN top[1].px - top[Len(top)].px ELSE top[Len(top)].px - top[1].px
    IN  IF n <= 1 \/ Len(top) < 2 THEN <<0, 0>> ELSE Ratio(Shares(top), span)
\* (bs - as) / (bs + as), a slope without a value counting as 0
BookSlopeImbalance(b, n) ==
    LET bs == BookSlope(b, "B", n) as == BookSlope(b, "S", n)
        d(r) == IF Defined(r) THEN r[2] ELSE 1
    IN  Imbalance(bs[1] * d(as), as[1] * d(bs))

(* The orders *)

TotalShares(b, side) == Shares(Side(b, side))
TotalNotional(b, side) == Notional(Side(b, side))
OrdersOf(b, side) == {r \in DOMAIN b.orders : b.orders[r].side = side}
OrderCountAt(b, side, px) == Cardinality({r \in OrdersOf(b, side) : b.orders[r].px = px})
ParticipantImbalance(b) == Imbalance(Cardinality(OrdersOf(b, "B")), Cardinality(OrdersOf(b, "S")))
SharesOf(b, refs) == MapThenSumSet(LAMBDA r : b.orders[r].shares, refs)
AvgRestingOrderSize(b, side) == Ratio(SharesOf(b, OrdersOf(b, side)), Cardinality(OrdersOf(b, side)))
LargestRestingOrder(b, side) == Max({b.orders[r].shares : r \in OrdersOf(b, side)} \cup {0})
LargestLevel(b, side) == Max({b.levels[side][p] : p \in DOMAIN b.levels[side]} \cup {0})

\* audit_book: 0 when the levels are what the orders add up to
AuditBook(b) ==
    LET tally(side) == [p \in {b.orders[r].px : r \in OrdersOf(b, side)} |->
                          SharesOf(b, {r \in OrdersOf(b, side) : b.orders[r].px = p})]
    IN  CASE \E p \in DOMAIN b.levels["B"] : b.levels["B"][p] <= 0 -> 1
          [] \E p \in DOMAIN b.levels["S"] : b.levels["S"][p] <= 0 -> 2
          [] \E r \in DOMAIN b.orders : b.orders[r].shares = 0 -> 5
          [] tally("B") # b.levels["B"] -> 3
          [] tally("S") # b.levels["S"] -> 4
          [] OTHER -> 0

(* The tape *)

ExecutedVwap(t) == Ratio(t.notional, t.shares)
BuyVwap(t) == Ratio(t.worth["S"], t.against["S"])
SellVwap(t) == Ratio(t.worth["B"], t.against["B"])
AvgTradeSize(t) == Ratio(t.shares, t.prints)
PullToTakeRatio(t, side) == Ratio(t.pulled[side], t.against[side])
PullImbalance(t) == Imbalance(t.pulled["B"], t.pulled["S"])
TapeImbalance(t) == Imbalance(t.against["S"], t.against["B"])
PrintImbalance(t) == Imbalance(t.buyPrints, t.sellPrints)
AvgRepriceTicks(t) == Ratio(t.moved, t.repriced)
TapeEffectiveSpread(t) ==
    LET buy == BuyVwap(t) sell == SellVwap(t)
    IN  <<buy[1] * sell[2] - sell[1] * buy[2], buy[2] * sell[2]>>
\* mid_vs_vwap_bps without the factor 10000
MidVsVwap(b) ==
    LET v == ExecutedVwap(b.tape) m == MidPrice(b)
    IN  IF Defined(v) /\ Defined(m) THEN <<m[1] * v[2] - v[1] * m[2], v[1] * m[2]>> ELSE <<0, 0>>
RefEventCount(b) == b.executes + b.cancels + b.deletes + b.replaces
OrphanRate(b) == Ratio(b.orphans, RefEventCount(b))
CancelToAddRatio(b) == Ratio(b.cancels, b.adds)
ExecuteToAddRatio(b) == Ratio(b.executes, b.adds)
OrderToTradeRatio(b) == Ratio(b.adds + b.cancels + b.deletes + b.replaces, b.tape.prints)

------------------------------------------------------------------------------
(***************************************************************************)
(* itch-parser/itch_parser.hpp, itch-parser/itch_book.hpp: an exchange     *)
(* reports every change of its book; messages may be lost or cut short on  *)
(* the way; ITCHParser reads what arrives and ITCHOrderBook applies it.    *)
(* A wire message is its type, its length and its fields.                  *)
(***************************************************************************)
CONSTANTS MaxRef,       \* bound: order reference numbers, never reused
          WirePrice,    \* prices on the wire, in 1/10000 dollars
          MaxShares,    \* bound: shares of an order
          MaxLoss,      \* bound: messages lost or cut short
          MaxMessages   \* bound: messages sent

VARIABLES live,     \* the exchange's orders: reference -> side, price, shares
          nextRef,
          trades,   \* history: what the exchange executed and the book could see
          lost,     \* messages lost or cut short so far
          sentItch, \* messages sent so far
          book, stats
itchVars == <<live, nextRef, trades, lost, sentItch, book, stats>>

------------------------------------------------------------------------------
(* ITCHParser *)

\* Where parse_* read their fields: offset and width.  The type is byte 0.
Layout(type) ==
    CASE type = "A" -> {<<1, 8>>, <<9, 8>>, <<17, 1>>, <<18, 4>>, <<22, 8>>, <<30, 4>>}
      [] type = "F" -> {<<1, 8>>, <<9, 8>>, <<17, 1>>, <<18, 4>>, <<22, 8>>, <<30, 4>>, <<34, 4>>}
      [] type = "D" -> {<<1, 8>>, <<9, 8>>}
      [] type = "U" -> {<<1, 8>>, <<9, 8>>, <<17, 8>>, <<25, 4>>, <<29, 4>>}
      [] type = "E" -> {<<1, 8>>, <<9, 8>>, <<17, 4>>, <<21, 8>>}
      [] type = "C" -> {<<1, 8>>, <<9, 8>>, <<17, 4>>}
      [] type = "P" -> {<<1, 8>>, <<9, 8>>, <<17, 1>>, <<18, 4>>, <<22, 8>>, <<30, 4>>, <<34, 8>>}
      [] type = "S" -> {<<1, 8>>, <<9, 1>>}
      [] type = "R" -> {<<1, 8>>, <<9, 8>>, <<17, 1>>}

\* the guards of parse_*
MinLength(type) == CASE type = "A" -> 34 [] type = "F" -> 38 [] type = "D" -> 17
                     [] type = "U" -> 33 [] type = "E" -> 29 [] type = "C" -> 21
                     [] type = "P" -> 42 [] type = "S" -> 10 [] type = "R" -> 18

Meaning(type) == CASE type \in {"A", "F"} -> "add" [] type = "D" -> "delete" [] type = "U" -> "replace"
                   [] type = "E" -> "execute" [] type = "C" -> "cancel" [] OTHER -> "other"
Types == {"A", "F", "D", "U", "E", "C", "P", "S", "R"}

NewStats == [total |-> 0, kind |-> [k \in {"A", "D", "U", "E", "C", "P", "S", "unknown"} |-> 0]]
Counted(type) == CASE type = "F" -> "A" [] type \in {"A", "D", "U", "E", "C", "P", "S"} -> type
                   [] type = "R" -> "none" [] OTHER -> "unknown"

\* parse: what the message says, and the statistics, which count it before its
\* length is looked at
Parse(w) == IF w.len < 1 \/ w.type \notin Types \/ w.len < MinLength(w.type)
            THEN [type |-> "error"]
            ELSE [w.body EXCEPT !.type = Meaning(w.type)]
Tally(s, w) == IF w.len < 1 THEN s
               ELSE [total |-> s.total + 1,
                     kind |-> IF Counted(w.type) = "none" THEN s.kind
                              ELSE [s.kind EXCEPT ![Counted(w.type)] = @ + 1]]

------------------------------------------------------------------------------
(* The exchange, and what arrives *)

Body(ref, side, price, qty, new) ==
    [type |-> "", ref |-> ref, side |-> side, price |-> price, qty |-> qty, new |-> new]
Wire(type, body) == [type |-> type, len |-> MinLength(type), body |-> body]

ITCHInit == /\ live = <<>> /\ nextRef = 1 /\ trades = <<>> /\ lost = 0 /\ sentItch = 0
            /\ book = EmptyITCH /\ stats = NewStats

\* The message arrives whole, or is lost or cut short.
Arrives(w) ==
    \/ /\ book' = Apply(book, Parse(w)) /\ stats' = Tally(stats, w)
       /\ trades' = IF w.type = "E" /\ Knows(book, w.body.ref)
                    THEN Append(trades, [side |-> book.orders[w.body.ref].side,
                                         px |-> book.orders[w.body.ref].px,
                                         qty |-> Taken(book, w.body.ref, w.body.qty)])
                    ELSE trades
       /\ UNCHANGED lost
    \/ /\ lost < MaxLoss /\ lost' = lost + 1
       /\ \E len \in {0, w.len - 1} :
             LET cut == [w EXCEPT !.len = len]
             IN  book' = Apply(book, Parse(cut)) /\ stats' = Tally(stats, cut)
       /\ UNCHANGED trades

Deliver(w) == sentItch < MaxMessages /\ sentItch' = sentItch + 1 /\ Arrives(w)

BestOf(side) == {live[r].price : r \in {x \in DOMAIN live : live[x].side = side}}
\* Orders that would trade never come to rest.
Rests(side, price) == \A p \in BestOf(Contra(side)) : IF side = "B" THEN price < p ELSE price > p

Added(side, price, qty) ==
    /\ nextRef <= MaxRef /\ Rests(side, price)
    /\ live' = Put(live, nextRef, [side |-> side, price |-> price, shares |-> qty])
    /\ nextRef' = nextRef + 1
    /\ \E type \in {"A", "F"} : Deliver(Wire(type, Body(nextRef, side, price, qty, 0)))

\* Executed or cancelled in part or as a whole, or deleted
Reduced(type, ref, qty) ==
    /\ ref \in DOMAIN live /\ qty <= live[ref].shares
    /\ type = "D" => qty = live[ref].shares
    /\ live' = IF qty = live[ref].shares THEN Drop(live, ref) ELSE [live EXCEPT ![ref].shares = @ - qty]
    /\ Deliver(Wire(type, Body(ref, "", 0, qty, 0)))
    /\ UNCHANGED nextRef

Replaced(ref, price, qty) ==
    /\ ref \in DOMAIN live /\ nextRef <= MaxRef /\ Rests(live[ref].side, price)
    /\ live' = Put(Drop(live, ref), nextRef, [side |-> live[ref].side, price |-> price, shares |-> qty])
    /\ nextRef' = nextRef + 1
    /\ Deliver(Wire("U", Body(ref, "", price, qty, nextRef)))

ITCHNext == \/ \E s \in {"B", "S"}, p \in WirePrice, q \in 1..MaxShares : Added(s, p, q)
            \/ \E t \in {"E", "C", "D"}, r \in 1..MaxRef, q \in 1..MaxShares : Reduced(t, r, q)
            \/ \E r \in 1..MaxRef, p \in WirePrice, q \in 1..MaxShares : Replaced(r, p, q)

------------------------------------------------------------------------------
(***************************************************************************)
(* Properties                                                              *)
(***************************************************************************)
Net(k) == FoldLeft(LAMBDA d, t : IF t.side = "S" THEN d + t.qty ELSE d - t.qty, 0, SubSeq(trades, 1, k))
\* lengths of the stretches of trades on one side
Runs(side) == {j - i + 1 : <<i, j>> \in {x \in (DOMAIN trades) \X (DOMAIN trades) :
                                        x[1] <= x[2] /\ \A k \in x[1]..x[2] : trades[k].side = side}}

\* The rebuilt book is the exchange's: order by order as long as no message was
\* lost; and whatever was lost or cut short, every level holds exactly what its
\* orders add up to, no message is read beyond its length, and only messages
\* about orders the book never saw count as orphans.
BookMirrors ==
    sentItch > 0 =>
    /\ AuditBook(book) = 0
    /\ lost = 0 => /\ book.orders = [r \in DOMAIN live |-> [side |-> live[r].side,
                                        px |-> ToTicks(live[r].price), shares |-> live[r].shares]]
                   /\ book.orphans = 0 /\ ~IsCrossed(book)
    /\ \A t \in Types : \A f \in Layout(t) : f[1] + f[2] <= MinLength(t)
    /\ stats.total = MapThenSumSet(LAMBDA k : stats.kind[k], DOMAIN stats.kind)
    /\ OrphanRate(book)[1] <= RefEventCount(book) /\ book.executes - book.tape.prints <= book.orphans

\* The tape's running figures are those of the executions it saw: volume and
\* worth by side, the extremes of the cumulative delta, the longest run of
\* aggressors on one side, the direction of the last change of price.
TapeExact ==
    LET t == book.tape
        of(side) == SelectSeq(trades, LAMBDA x : x.side = side)
        changes == {i \in 2..Len(trades) : trades[i].px # trades[i - 1].px}
    IN  sentItch > 0 =>
        /\ t.prints = Len(trades) /\ t.shares = Shares(trades) /\ t.notional = Notional(trades)
        /\ \A side \in {"B", "S"} : t.against[side] = Shares(of(side)) /\ t.worth[side] = Notional(of(side))
        /\ t.maxDelta = Max({Net(k) : k \in 0..Len(trades)})
        /\ t.minDelta = Min({Net(k) : k \in 0..Len(trades)})
        /\ t.buyRun = Max({0} \cup Runs("S")) /\ t.sellRun = Max({0} \cup Runs("B"))
        /\ t.tick = IF changes = {} THEN 0
                    ELSE IF trades[Max(changes)].px > trades[Max(changes) - 1].px THEN 1 ELSE -1
        /\ t.buyPrints + t.sellPrints = t.prints /\ CumulativeDelta(t) = Net(Len(trades))
        /\ t.prints > 0 => t.largest * t.prints >= t.shares

\* The answers about depth agree with one another on every book: the price to
\* fill an order is the first at which enough is fillable, the levels it takes
\* are the first that hold enough, what a sweep fills and falls short add up,
\* the figures over n levels are sums of the single ones, no level is passed
\* over, and averages lie between the prices averaged.  The answers do not read
\* the tape: books that saw no execution yet have all the shapes there are.
DepthAgrees ==
    sentItch > 0 /\ trades = <<>> => \A side \in {"B", "S"}, q \in 1..(2 * MaxShares) :
        LET taker == Contra(side)
            n == LevelsToFill(book, taker, q)
            p == PriceToFill(book, taker, q)
            f == ExpectedFill(book, taker, q)
            ladder == Side(book, side)
            v == VwapDepth(book, side, q)
        IN  /\ n > 0 => /\ CumulativeQty(book, side, n) >= q /\ CumulativeQty(book, side, n - 1) < q
                        /\ p = NthLevelPrice(book, side, n - 1) /\ FillableShares(book, taker, p) >= q
                        /\ FillableShares(book, taker, p) = CumulativeQty(book, side, n)
                        /\ LevelsWithin(book, side, IF side = "B" THEN ladder[1].px - p ELSE p - ladder[1].px) = n
            /\ n = -1 <=> FillShortfall(book, taker, q) > 0
            /\ f.filled + FillShortfall(book, taker, q) = q
            /\ n = -1 => f.filled = TotalShares(book, side) /\ f.paid = TotalNotional(book, side)
            /\ n > 0 => IsMarketable(book, taker, p)
            /\ CumulativeQty(book, side, q) = CumulativeQty(book, side, q - 1) + NthLevelQty(book, side, q - 1)
            /\ Defined(v) => ~Below(v, <<Min(DOMAIN book.levels[side]), 1>>)
                             /\ ~Below(<<Max(DOMAIN book.levels[side]), 1>>, v)
            /\ LiquidityWithin(book, side, q) <= TotalShares(book, side)
            /\ NotionalWithin(book, side, 9) = TotalNotional(book, side)
            /\ LargestLevel(book, side) >= LargestRestingOrder(book, side)
            /\ TotalShares(book, side) = AvgRestingOrderSize(book, side)[1]
            /\ LargestLevelGap(book, side, q) * (Len(ladder) - 1) >= (IF Len(Upto(ladder, q)) < 2 THEN 0 ELSE
                  LET top == Upto(ladder, q) IN IF side = "B" THEN top[1].px - top[Len(top)].px
                                                ELSE top[Len(top)].px - top[1].px)
            /\ \A px \in DOMAIN book.levels[side] : OrderCountAt(book, side, px) > 0
            /\ LET s == Slippage(book, taker, q)
               IN  ~IsCrossed(book) /\ Defined(s) => s[1] >= 0
            /\ ~IsCrossed(book) /\ TwoSided(book) =>
                   /\ ~Below(Microprice(book), <<BestBid(book), 1>>)
                   /\ ~Below(<<BestAsk(book), 1>>, Microprice(book))
                   /\ SpreadAtSize(book, q) # 0 => SpreadAtSize(book, q) >= SpreadTicks(book)
                   /\ ~Below(DepthWeightedSpread(book, q), <<SpreadTicks(book), 1>>)
                   /\ ImbalanceSignal(book, 0) * MicropriceSkew(book)[1] >= 0
==============================================================================
