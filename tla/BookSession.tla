----------------------------- MODULE BookSession -----------------------------
(***************************************************************************)
(* orderbook/orderbook_pro.hpp: what FullOrderBook says of its levels and  *)
(* orders without changing them.  Ratios in basis points keep the integer  *)
(* division of the code.                                                   *)
(***************************************************************************)
EXTENDS OrderBook

Quot(n, d) == IF n >= 0 THEN n \div d ELSE -((-n) \div d)
Bps(n, d) == IF d = 0 THEN 0 ELSE Quot(n * 10000, d)
Over(prices, f(_)) == MapThenSumSet(f, prices)

\* The loops over the levels of a side, best price outwards
Reaches(b, side) == IF side = "BUY" THEN (IF HasBid(b) THEN 0..b.bid ELSE {}) ELSE b.ask..MaxTick
Outwards(side, prices) == SetToSortSeq(prices, LAMBDA p, q : IF side = "BUY" THEN p > q ELSE p < q)
Levels(b, side) == Outwards(side, {p \in Reaches(b, side) : b.level[p].qty > 0})
First(s, n) == SubSeq(s, 1, Least(n, Len(s)))
QtyOf(b, seq) == FoldLeft(LAMBDA n, p : n + b.level[p].qty, 0, seq)

\* depth: price, quantity and orders of the best levels
Depth(b, side, n) ==
    LET s == First(Levels(b, side), n)
    IN  [i \in DOMAIN s |-> [price |-> s[i], qty |-> b.level[s[i]].qty, count |-> b.level[s[i]].count]]

BidQty(b) == IF HasBid(b) THEN b.level[b.bid].qty ELSE 0
AskQty(b) == IF HasAsk(b) THEN b.level[b.ask].qty ELSE 0
TwoSided(b) == HasBid(b) /\ HasAsk(b)

TopOfBookOf(b) ==
    [bid |-> b.bid, ask |-> b.ask, bidQty |-> BidQty(b), askQty |-> AskQty(b),
     bidCount |-> IF HasBid(b) THEN b.level[b.bid].count ELSE 0,
     askCount |-> IF HasAsk(b) THEN b.level[b.ask].count ELSE 0]

IsLocked(b) == TwoSided(b) /\ b.bid = b.ask
IsCrossed(b) == TwoSided(b) /\ b.bid > b.ask
SpreadTicks(b) == IF TwoSided(b) THEN b.ask - b.bid ELSE -1
HalfSpreadBps(b) ==
    IF ~TwoSided(b) \/ Mid(b) <= 0 THEN -1 ELSE Quot(Quot(SpreadTicks(b) * 10000, 2), Mid(b))

MicropriceTicks(b) ==
    IF ~TwoSided(b) THEN -1
    ELSE IF BidQty(b) + AskQty(b) = 0 THEN Mid(b)
    ELSE (b.bid * AskQty(b) + b.ask * BidQty(b)) \div (BidQty(b) + AskQty(b))

ImbalanceBps(b) == IF TwoSided(b) THEN Bps(BidQty(b) - AskQty(b), BidQty(b) + AskQty(b)) ELSE 0
TobSkewnessBps(b) == IF TwoSided(b) THEN Bps(BidQty(b) - AskQty(b), BidQty(b) + AskQty(b)) ELSE 0
ImbalanceBpsN(b, n) ==
    LET bids == QtyOf(b, First(Levels(b, "BUY"), n))
        asks == QtyOf(b, First(Levels(b, "SELL"), n))
    IN  IF TwoSided(b) THEN Bps(bids - asks, bids + asks) ELSE 0

\* Place in the queue of its level; a waiting stop is not in one and is not found.
QueuePosition(b, id) ==
    LET k == b.index[id]
        q == b.level[b.order[k].price].queue
    IN  IF k = 0 THEN -1
        ELSE IF Contains(q, k) THEN (CHOOSE i \in DOMAIN q : q[i] = k) - 1 ELSE Len(q)

VolumeProfile(b, lo, hi, n) ==
    First(SetToSortSeq({p \in Price : lo <= p /\ p <= hi /\ b.level[p].qty > 0}, <), n)

CumulativeRestingVolume(b, side) == Over(Reaches(b, side), LAMBDA p : b.level[p].qty)
RestingOrderCount(b, side) == Over(Reaches(b, side), LAMBDA p : b.level[p].count)
ActivePriceLevels(b) == Cardinality({p \in Price : b.level[p].count > 0})
ForEachOrder(b) ==
    LET visit(side) == LET s == Outwards(side, Reaches(b, side))
                       IN  FlattenSeq([i \in DOMAIN s |-> b.level[s[i]].queue])
    IN  visit("BUY") \o visit("SELL")

\* Levels by number of orders: 1, 2, up to 4, up to 8, up to 16, more
QueueDepthHistogram(b) ==
    LET top == <<1, 2, 4, 8, 16, MaxId>>
        bin(c) == CHOOSE i \in 1..6 : c <= top[i] /\ (i = 1 \/ c > top[i - 1])
    IN  [i \in 1..6 |-> Cardinality({p \in Price : b.level[p].count > 0 /\ bin(b.level[p].count) = i})]

DepthConcentrationBps(b, side, n) ==
    LET s == Levels(b, side) IN Bps(QtyOf(b, First(s, n)), QtyOf(b, s))

DepthPyramidSteepnessBps(b, side, n) ==
    LET s == Levels(b, side)
    IN  IF n < 2 \/ Len(s) < n THEN 0
        ELSE Bps(b.level[s[1]].qty - b.level[s[n]].qty, b.level[s[1]].qty)

------------------------------------------------------------------------------
\* Mutant of WalkTheBook: the level at the limit price is not walked.
WalkTheBookStrict(b, side, qty, limit) ==
    LET far == SelectSeq(Levels(b, Opposite(side)),
                         LAMBDA p : IF side = "BUY" THEN p < limit ELSE p > limit)
        take(acc, p) == LET n == Least(b.level[p].qty, qty - acc.got)
                        IN  IF n <= 0 THEN acc
                            ELSE [got |-> acc.got + n, cost |-> acc.cost + n * p,
                                  levels |-> acc.levels + 1, worst |-> p]
    IN  FoldLeft(take, [got |-> 0, cost |-> 0, levels |-> 0, worst |-> 0], far)
\* What an order could take within its limit, and at which prices
WalkTheBook(b, side, qty, limit) ==
    LET far == SelectSeq(Levels(b, Opposite(side)),
                         LAMBDA p : IF side = "BUY" THEN p <= limit ELSE p >= limit)
        take(acc, p) == LET n == Least(b.level[p].qty, qty - acc.got)
                        IN  IF n <= 0 THEN acc
                            ELSE [got |-> acc.got + n, cost |-> acc.cost + n * p,
                                  levels |-> acc.levels + 1, worst |-> p]
    IN  FoldLeft(take, [got |-> 0, cost |-> 0, levels |-> 0, worst |-> 0], far)

PredictedVwapTicks(b, side, qty) ==
    LET take(acc, p) == LET n == Least(b.level[p].qty, qty - acc.got)
                        IN  [got |-> acc.got + n, cost |-> acc.cost + n * p]
        w == FoldLeft(take, [got |-> 0, cost |-> 0], Levels(b, Opposite(side)))
    IN  IF w.got = 0 THEN 0 ELSE w.cost \div w.got

PredictedSlippageTicks(b, side, qty) ==
    LET v == PredictedVwapTicks(b, side, qty)
    IN  IF ~TwoSided(b) \/ v = 0 THEN 0 ELSE v - Mid(b)

DepthWithinOffset(b, side, offset) ==
    IF ~TwoSided(b) THEN 0
    ELSE Over({p \in Reaches(b, Opposite(side)) :
                  IF side = "BUY" THEN p <= Mid(b) + offset ELSE p >= Mid(b) - offset},
              LAMBDA p : b.level[p].qty)

------------------------------------------------------------------------------
InLevels(b) == FlattenSeq([p \in 1..(MaxTick + 1) |-> b.level[p - 1].queue])
SumQty(b) == Over(Price, LAMBDA p : b.level[p].qty)
SumHidden(b) == Over(Price, LAMBDA p : b.level[p].hidden)

\* The k largest of a sequence, the earlier of equals first
Largest(s, k) == First(SortSeq([i \in DOMAIN s |-> <<s[i], i>>],
                               LAMBDA x, y : x[1] > y[1] \/ (x[1] = y[1] /\ x[2] < y[2])), k)
TopKActiveLevelsByQty(b, k) ==
    LET s == VolumeProfile(b, 0, MaxTick, MaxTick + 1)
        best == Largest([i \in DOMAIN s |-> b.level[s[i]].qty], k)
    IN  [i \in DOMAIN best |-> s[best[i][2]]]
TopKRestingQty(b, k) ==
    LET left == [i \in DOMAIN InLevels(b) |-> Remaining(b.order[InLevels(b)[i]])]
        best == Largest(SelectSeq(left, LAMBDA n : n > 0), k)
    IN  [i \in DOMAIN best |-> best[i][1]]
LargestRestingOrderQty(b) == Max({0} \cup {Remaining(b.order[k]) : k \in Range(InLevels(b))})

\* Numerator and denominator of hidden_liquidity_ratio and avg_resting_qty_per_order
HiddenLiquidityRatio(b) == <<SumHidden(b), SumQty(b) + SumHidden(b)>>
AvgRestingQtyPerOrder(b) == <<SumQty(b), Over(Price, LAMBDA p : b.level[p].count)>>

\* How many aggregates of levels are not those of the orders in their queues
AuditBookIntegrity(b) ==
    LET add(q, f(_)) == FoldLeft(LAMBDA n, k : n + f(b.order[k]), 0, q)
        wrong(p) == LET l == b.level[p] IN
             Cardinality({i \in DOMAIN l.queue : b.order[l.queue[i]].price # p})
           + (IF l.count # Len(l.queue) THEN 1 ELSE 0)
           + (IF l.qty # add(l.queue, LAMBDA o : o.shown) THEN 1 ELSE 0)
           + (IF l.hidden # add(l.queue, Hidden) THEN 1 ELSE 0)
    IN  Over(Price, wrong)

LiquiditySnapshot(b) ==
    [bids |-> Depth(b, "BUY", 10), asks |-> Depth(b, "SELL", 10), spread |-> SpreadTicks(b),
     imbalance |-> ImbalanceBps(b), microprice |-> MicropriceTicks(b),
     bidVolume |-> QtyOf(b, First(Levels(b, "BUY"), 10)),
     askVolume |-> QtyOf(b, First(Levels(b, "SELL"), 10))]

OcoPartnerOf(b, id) == b.oco[id]
ActiveOcoPairs(b) == Cardinality({i \in Id : b.oco[i] # 0}) \div 2
TrailingStopsCount(b) == Cardinality({i \in DOMAIN b.stops : b.order[b.stops[i]].offset > 0})

------------------------------------------------------------------------------
(***************************************************************************)
(* orderbook/orderbook_pro.hpp: the trading day of FullOrderBook.  Orders  *)
(* queue in auction mode and are then crossed at one price, at the open,   *)
(* at the close (with the market- and limit-on-close orders) and after a   *)
(* pause; shorts and orders that may only reduce a position; two-sided     *)
(* quotes in one call.                                                     *)
(***************************************************************************)
CONSTANT Surplus          \* the surplus over which try_run_auction defers the cross

------------------------------------------------------------------------------
(***************************************************************************)
(* The cross                                                               *)
(***************************************************************************)
NoCross == [executed |-> FALSE, price |-> -1, matched |-> 0, bids |-> 0, asks |-> 0]
Lowest(b) == Least(b.bid, b.ask)
Highest(b) == IF b.bid >= b.ask THEN b.bid ELSE b.ask

InBook(b) == {b.index[i] : i \in {j \in Id : b.index[j] # 0 /\ Active(b.order[b.index[j]])}}
Wanted(b, side, prices) ==
    MapThenSumSet(LAMBDA k : b.order[k].shown,
                  {k \in InBook(b) : b.order[k].side = side /\ b.order[k].price \in prices})
CumBid(b, p) == Wanted(b, "BUY", p..Highest(b))
CumAsk(b, p) == Wanted(b, "SELL", Lowest(b)..p)
Gap(x, y) == IF x >= y THEN x - y ELSE y - x

\* Most matched, then least left over, then the lowest price.
Better(b, p, q) ==
    LET m(x) == Least(CumBid(b, x), CumAsk(b, x))
        d(x) == Gap(CumBid(b, x), CumAsk(b, x))
    IN  \/ m(p) > m(q)
        \/ m(p) = m(q) /\ (d(p) < d(q) \/ (d(p) = d(q) /\ p <= q))

CrossAt(p, bids, asks) ==
    LET n == Least(bids, asks)
    IN  [executed |-> n > 0, price |-> IF n > 0 THEN p ELSE -1, matched |-> n,
         bids |-> bids - n, asks |-> asks - n]
IndicativeAuctionInfo(b) ==
    IF ~HasBid(b) \/ ~HasAsk(b) THEN NoCross
    ELSE LET p == CHOOSE x \in Lowest(b)..Highest(b) : \A y \in Lowest(b)..Highest(b) : Better(b, x, y)
         IN  CrossAt(p, CumBid(b, p), CumAsk(b, p))

\* One order's part of the cross; acc is the book, what is left to give out, and
\* the history.
CrossOne(acc, k) ==
    LET o == acc.book.order[k]
        n == Least(Remaining(o), acc.left)
        seen == Least(n, o.shown)
        b == [acc.book EXCEPT !.order[k].filled = @ + n, !.order[k].shown = @ - seen,
                              !.order[k].status = "PARTIAL",
                              !.level[o.price].qty = @ - seen,
                              !.level[o.price].hidden = @ - (n - seen)]
        gone == [UnlinkFromLevel(b, k) EXCEPT !.index[o.id] = 0]
    IN  IF acc.left = 0 THEN acc
        ELSE [book |-> IF o.filled + n < o.total THEN b
                       ELSE FreeOrder(BracketOnFullFill(OcoOnComplete(gone, o.id), o.id), k),
              left |-> acc.left - n,
              hist |-> [acc.hist EXCEPT ![o.id].got = @ + n]]

\* The orders of a side that take part, best price first, each level in its order.
InTurn(b, side, prices) ==
    LET levels == SetToSortSeq(prices, LAMBDA p, q : IF side = "BUY" THEN p > q ELSE p < q)
        mine(k) == b.order[k].side = side /\ Active(b.order[k])
    IN  FlattenSeq([i \in DOMAIN levels |-> SelectSeq(b.level[levels[i]].queue, mine)])

\* Mutant of CrossSide: the surplus of the bids trades too.
CrossSideSurplus(acc, r, ks) == FoldLeft(CrossOne, [acc EXCEPT !.left = r.matched + r.bids], ks)
CrossSide(acc, r, ks) == FoldLeft(CrossOne, [acc EXCEPT !.left = r.matched], ks)
CancelGTX(b) == FoldLeft(CancelInternal, b, SetToSortSeq({k \in InBook(b) : b.order[k].tif = "GTX"}, <))

\* The best prices are looked for from the ends of the grid, and the rest of GTX
\* orders is cancelled.
AfterCrossing(b, r) ==
    CancelGTX(RefreshBestAskFrom(RefreshBestBidFrom(
        [b EXCEPT !.last = r.price, !.ssr = @ \/ Declined(r.price)], MaxTick), 0))

\* run_auction at the price of r on b, to return into the calls of stack
Cross(b, r, h, stack) ==
    LET both == CrossSide(CrossSide([book |-> b, left |-> 0, hist |-> h], r,
                                    InTurn(b, "BUY", r.price..Highest(b))),
                          r, InTurn(b, "SELL", Lowest(b)..r.price))
    IN  IF r.executed
        THEN /\ book' = ProcessOcoPending(AfterCrossing(both.book, r)) /\ hist' = both.hist
             /\ call' = <<[at |-> "arm"]>> \o stack /\ ret' = ret
        ELSE book' = b /\ hist' = h /\ call' = stack /\ ret' = ret
RunAuction(b, h, stack) == Cross(b, IndicativeAuctionInfo(b), h, stack)

------------------------------------------------------------------------------
(***************************************************************************)
(* The day                                                                 *)
(***************************************************************************)
BeginPreOpen == /\ Call("cross")
                /\ Atomic([book EXCEPT !.phase = "PRE_OPEN", !.auction = TRUE])

OpenMarket == /\ Call("cross")
              /\ RunAuction([book EXCEPT !.phase = "CONTINUOUS", !.auction = FALSE], hist, <<>>)

BeginClosing == /\ Call("close")
                /\ Atomic([book EXCEPT !.phase = "CLOSING", !.auction = TRUE])

HaltForAuction == /\ Call("pause")
                  /\ Atomic([book EXCEPT !.auction = TRUE])

ResumeWithAuction == /\ Call("pause")
                     /\ RunAuction([book EXCEPT !.auction = FALSE], hist, <<>>)

\* enter_auction_mode and exit_auction_mode
AuctionMode == /\ Call("try")
               /\ Atomic([book EXCEPT !.auction = ~@])

\* A surplus on either side defers the cross.
TryRunAuction ==
    /\ Call("try")
    /\ LET r == IndicativeAuctionInfo(book)
       IN  /\ r.executed /\ r.bids <= Surplus /\ r.asks <= Surplus
           /\ RunAuction(book, hist, <<>>)

\* submit_moc and submit_loc: the order waits outside the book under its own id.
SubmitOnClose ==
    /\ Call("close") /\ book.phase # "CLOSED"
    /\ \E side \in Side, qty \in use.qty, price \in use.prices \cup {-1} :
          LET r == [NewOrder(side, price, qty) EXCEPT !.id = book.nextId, !.internal = TRUE]
              b == [book EXCEPT !.nextId = @ + 1]
          IN  Atomic(IF price = -1 THEN [b EXCEPT !.moc = Append(@, r)]
                     ELSE [b EXCEPT !.loc = Append(@, r)])

\* cancel_moc and cancel_loc
CancelOnClose ==
    /\ Call("close") /\ Call("cancel")
    /\ \/ \E i \in DOMAIN book.moc : Atomic([book EXCEPT !.moc = SwapErase(@, i)])
       \/ \E i \in DOMAIN book.loc : Atomic([book EXCEPT !.loc = SwapErase(@, i)])

\* close_market begins run_closing_auction: the limit orders enter the book, which
\* is in auction mode.
CloseMarket == /\ Call("close")
               /\ book' = [book EXCEPT !.auction = TRUE]
               /\ call' = <<[at |-> "loc", ids |-> <<>>]>>
               /\ UNCHANGED <<ret, hist>>

InjectLimit == /\ At("loc") /\ book.loc # <<>>
               /\ LET r == Head(book.loc)
                  IN  Submit([book EXCEPT !.loc = Tail(@)], r,
                             <<[Top EXCEPT !.ids = Append(@, r.id)]>> \o Below)
               /\ UNCHANGED <<use, requests>>

Closed(b) == [b EXCEPT !.auction = FALSE, !.phase = "CLOSED"]

\* The market orders are priced at the ends of the book, if there is one.
PriceMarket ==
    /\ At("loc") /\ book.loc = <<>>
    /\ LET one == IF HasBid(book) THEN book.bid ELSE book.ask
           two == HasBid(book) /\ HasAsk(book)
       IN  IF ~HasBid(book) /\ ~HasAsk(book)
           THEN book' = Closed([book EXCEPT !.moc = <<>>]) /\ call' = Below
           ELSE /\ book' = book
                /\ call' = <<[at |-> "moc", locs |-> Top.ids, ids |-> <<>>,
                              lo |-> IF two THEN Lowest(book) ELSE one,
                              hi |-> IF two THEN Highest(book) ELSE one]>> \o Below
    /\ UNCHANGED <<ret, hist, use, requests>>

InjectMarket ==
    /\ At("moc") /\ book.moc # <<>>
    /\ LET r == Head(book.moc)
       IN  Submit([book EXCEPT !.moc = Tail(@)],
                  [r EXCEPT !.price = IF r.side = "BUY" THEN Top.hi ELSE Top.lo],
                  <<[Top EXCEPT !.ids = Append(@, r.id)]>> \o Below)
    /\ UNCHANGED <<use, requests>>

ToSweep == <<[at |-> "sweep", ids |-> Top.ids \o Top.locs]>> \o Below
CrossClosing ==
    /\ At("moc") /\ book.moc = <<>>
    /\ RunAuction([book EXCEPT !.auction = FALSE], hist, ToSweep)
    /\ UNCHANGED <<use, requests>>

\* What the closing cross left of its own orders does not rest.
SweepClosing ==
    /\ At("sweep") /\ Top.ids # <<>>
    /\ LET k == book.index[Head(Top.ids)]
       IN  book' = IF k = 0 THEN book ELSE CancelInternal(book, k)
    /\ call' = <<[Top EXCEPT !.ids = Tail(@)]>> \o Below
    /\ UNCHANGED <<ret, hist, use, requests>>

EndClosing == /\ At("sweep") /\ Top.ids = <<>>
              /\ book' = Closed(ProcessOcoPending(book))
              /\ call' = Below
              /\ UNCHANGED <<ret, hist, use, requests>>

------------------------------------------------------------------------------
(***************************************************************************)
(* Restricted orders, and quotes                                           *)
(***************************************************************************)
\* submit_short: under the restriction a short may not trade down to the bid.
SubmitShort ==
    /\ Call("short")
    /\ \E price \in use.prices, qty \in use.qty, c \in use.clients :
          /\ ~(book.ssr /\ HasBid(book) /\ price <= book.bid)
          /\ Submit(book, [NewOrder("SELL", price, qty) EXCEPT !.client = c], <<>>)

Reducible(c, side) == LET n == book.expo[c].net
                      IN  IF c = 0 THEN 0
                          ELSE IF side = "SELL" THEN (IF n > 0 THEN n ELSE 0)
                          ELSE IF n < 0 THEN -n ELSE 0

SubmitReduceOnly ==
    /\ Call("reduce")
    /\ \E side \in Side, price \in use.prices, qty \in use.qty, c \in use.clients :
          /\ Reducible(c, side) > 0
          /\ Submit(book, [NewOrder(side, price, Least(qty, Reducible(c, side))) EXCEPT !.client = c],
                    <<>>)

\* mass_quote of a bid and an ask: both are checked against the book as it is,
\* then each is submitted.
MassQuote ==
    /\ Call("quote")
    /\ \E bid, ask \in use.prices, qty \in use.qty, c \in use.clients :
          LET quote(side, price) == [NewOrder(side, price, qty) EXCEPT !.type = "POST_ONLY", !.client = c]
              put(acc, r) == IF Admissible(acc.book, r)
                             THEN [book |-> Complete(Accept(acc.book, r), Head(acc.book.free)),
                                   hist |-> Noted(acc.hist, acc.book.nextId, r, 0)]
                             ELSE [acc EXCEPT !.book = Refused(acc.book, r)]
              done == put(put([book |-> book, hist |-> hist], quote("BUY", bid)), quote("SELL", ask))
          IN  /\ Len(book.free) >= 2
              /\ ~WouldCross(book, "BUY", bid) /\ ~WouldCross(book, "SELL", ask)
              /\ book' = done.book /\ hist' = done.hist
              /\ UNCHANGED <<call, ret>>

DayRequest == \/ BeginPreOpen \/ OpenMarket \/ BeginClosing \/ HaltForAuction \/ ResumeWithAuction
              \/ AuctionMode \/ TryRunAuction \/ SubmitOnClose \/ CancelOnClose \/ CloseMarket
              \/ SubmitShort \/ SubmitReduceOnly \/ MassQuote

DayStep == \/ InjectLimit \/ PriceMarket \/ InjectMarket
           \/ CrossClosing \/ SweepClosing \/ EndClosing

DayNext == Next \/ DayRequest \/ DayStep
\* What CrossClosing does to the stack of calls
AfterCross == /\ At("moc") /\ book.moc = <<>>
              /\ call' \in {ToSweep, <<[at |-> "arm"]>> \o ToSweep}
DaySpec == /\ Init /\ [][DayNext]_vars
           /\ WF_vars(Step)
           /\ WF_vars(InjectLimit \/ PriceMarket \/ InjectMarket \/ SweepClosing \/ EndClosing)
           /\ WF_call(AfterCross)


------------------------------------------------------------------------------
(***************************************************************************)
(* Properties                                                              *)
(***************************************************************************)
\* The orders of a side that a cross may still take, at a price
Willing(b, side, p) ==
    MapThenSumSet(LAMBDA k : b.order[k].shown,
                  {k \in InBook(b) : /\ b.order[k].side = side
                                     /\ IF side = "BUY" THEN b.order[k].price >= p
                                        ELSE b.order[k].price <= p})
Executed(side) == MapThenSumSet(LAMBDA i : hist'[i].got - hist[i].got, {i \in Id : hist'[i].side = side})

(***************************************************************************)
(* A cross takes the most that could trade at any one price of the grid,   *)
(* buys as much as it sells, gives nobody a price beyond the limit, and    *)
(* leaves no two displayed orders that could have traded with each other.  *)
(***************************************************************************)
CrossClears ==
    [][(Idle \/ At("moc")) /\ hist' # hist /\ call' # <<>> /\ Head(call').at = "arm" =>
          LET p == book'.last
              most == Max({Least(Willing(book, "BUY", x), Willing(book, "SELL", x)) : x \in Price})
          IN  /\ Executed("BUY") = Executed("SELL")
              /\ "ICEBERG" \notin use.on => Executed("BUY") = most
              /\ \A i \in Live : hist'[i].got > hist[i].got =>
                    IF hist[i].side = "BUY" THEN book.order[book.index[i]].price >= p
                    ELSE book.order[book.index[i]].price <= p
              /\ "ICEBERG" \notin use.on =>
                    \A x \in Price : Willing(book', "BUY", x) = 0 \/ Willing(book', "SELL", x) = 0]_vars

\* Ways in which an order ends, changes or begins that the accounts are not told of.
Untold == {"IOC", "expire", "modify", "peg", "restart", "cross", "close", "pause", "try"}

(***************************************************************************)
(* The exposure of an account: its position is what was executed for it,   *)
(* and what it has open is what its orders in the book have left, where    *)
(* every way an order may end is reported to the account.                  *)
(***************************************************************************)
AccountsAgree ==
    Idle => \A c \in use.clients \ {0} :
       LET mine(side) == {i \in Id : hist[i].who = c /\ hist[i].side = side}
           got(side) == MapThenSumSet(LAMBDA i : hist[i].got, mine(side))
           left(side) == MapThenSumSet(LAMBDA k : Remaining(book.order[k]),
                            {k \in InBook(book) : book.order[k].client = c /\ book.order[k].side = side})
       IN  /\ use.on \cap {"restart", "cross", "close", "pause", "try"} = {} =>
                 book.expo[c].net = got("BUY") - got("SELL")
           /\ use.on \cap Untold = {} =>
                 book.expo[c].buy = left("BUY") /\ book.expo[c].sell = left("SELL")

(***************************************************************************)
(* What the book says of itself between two calls is what its orders say:  *)
(* its audit finds nothing; depth, volumes and counts are those of the     *)
(* orders of the side; the walk of walk_the_book takes what is asked if it *)
(* is there, at prices from the best to the worst it names, and a sweep    *)
(* without a limit pays what predicted_vwap_ticks says; the measures of    *)
(* the top agree with those of more levels; and the places in a queue are  *)
(* those of its orders, each once.                                         *)
(***************************************************************************)
BookViewsAgree ==
    Idle /\ Ordinary =>
    LET orders(side) == {k \in InBook(book) : book.order[k].side = side}
        shares(side) == MapThenSumSet(LAMBDA k : book.order[k].shown, orders(side))
        bids == Depth(book, "BUY", MaxTick)
        asks == Depth(book, "SELL", MaxTick)
        q(side) == LET s == Depth(book, side, MaxTick) IN FoldLeft(LAMBDA n, l : n + l.qty, 0, s)
    IN  /\ AuditBookIntegrity(book) = 0
        /\ Range(ForEachOrder(book)) = InBook(book)
        /\ ActivePriceLevels(book) = FoldLeft(LAMBDA n, x : n + x, 0, QueueDepthHistogram(book))
        /\ \A side \in Side :
              /\ q(side) = shares(side) /\ CumulativeRestingVolume(book, side) = shares(side)
              /\ RestingOrderCount(book, side) = Cardinality(orders(side))
              /\ shares(side) > 0 => DepthConcentrationBps(book, side, MaxTick) = 10000
              /\ DepthPyramidSteepnessBps(book, side, 2) > 0 =>
                    book.level[Levels(book, side)[1]].qty > book.level[Levels(book, side)[2]].qty
              /\ TwoSided(book) => /\ DepthWithinOffset(book, side, MaxTick) = shares(Opposite(side))
                                   /\ PredictedSlippageTicks(book, side, 2) * (IF side = "BUY" THEN 1 ELSE -1) >= 0
              /\ \A n \in use.qty, limit \in Price :
                    LET w == WalkTheBook(book, side, n, limit)
                        best == IF side = "BUY" THEN book.ask ELSE book.bid
                    IN  /\ w.got = Least(n, Available(book, side, limit))
                        /\ w.got > 0 => /\ limit = (IF side = "BUY" THEN MaxTick ELSE 0) =>
                                              PredictedVwapTicks(book, side, n) = w.cost \div w.got
                                        /\ w.levels <= Gap(w.worst, best) + 1
                                        /\ Gap(w.cost, w.got * best) <= w.got * Gap(w.worst, best)
        /\ TwoSided(book) =>
              /\ MicropriceTicks(book) \in book.bid..book.ask
              /\ ImbalanceBpsN(book, 1) = ImbalanceBps(book) /\ TobSkewnessBps(book) = ImbalanceBps(book)
              /\ HalfSpreadBps(book) # -1 => HalfSpreadBps(book) * 2 * Mid(book) <= SpreadTicks(book) * 10000
              /\ (ImbalanceBpsN(book, MaxTick) > 0) = (shares("BUY") > shares("SELL"))
              /\ ~IsLocked(book) /\ ~IsCrossed(book)
        /\ \A p \in Price : {QueuePosition(book, i) : i \in {j \in Live : Contains(book.level[p].queue, book.index[j])}}
                             = 0..(book.level[p].count - 1)
        /\ Range(VolumeProfile(book, 0, MaxTick, MaxTick + 1)) = {bids[i].price : i \in DOMAIN bids}
                                                              \cup {asks[i].price : i \in DOMAIN asks}
        /\ LET k == TopKRestingQty(book, 2) IN k # <<>> => Head(k) = LargestRestingOrderQty(book)
        /\ LET k == TopKActiveLevelsByQty(book, 1)
           IN  k # <<>> => \A p \in Price : book.level[p].qty <= book.level[k[1]].qty
        /\ HiddenLiquidityRatio(book)[2] = MapThenSumSet(LAMBDA k : Remaining(book.order[k]), InBook(book))
        /\ AvgRestingQtyPerOrder(book) = <<shares("BUY") + shares("SELL"), Cardinality(InBook(book))>>
        /\ LET s == LiquiditySnapshot(book)
               t == TopOfBookOf(book)
           IN  /\ s.bidVolume = shares("BUY") /\ s.askVolume = shares("SELL")
               /\ s.bids # <<>> => Head(s.bids) = [price |-> t.bid, qty |-> t.bidQty, count |-> t.bidCount]
               /\ s.asks # <<>> => Head(s.asks) = [price |-> t.ask, qty |-> t.askQty, count |-> t.askCount]
        /\ \A i \in Id : OcoPartnerOf(book, i) # 0 => OcoPartnerOf(book, OcoPartnerOf(book, i)) = i
        /\ TrailingStopsCount(book) = Cardinality({i \in Live : LET o == book.order[book.index[i]]
                                                               IN  Waiting(o) /\ o.offset > 0})
        /\ 2 * ActiveOcoPairs(book) = Cardinality({i \in Id : OcoPartnerOf(book, i) # 0})

(***************************************************************************)
(* "CROSSED: best_bid > best_ask (crossed market - a pathology)": once the *)
(* opening cross is over the book is not crossed.                          *)
(***************************************************************************)
OpensUncrossed == Idle /\ book.phase = "CONTINUOUS" /\ ~book.auction => ~(book.bid > book.ask)
==============================================================================
