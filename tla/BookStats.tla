------------------------------ MODULE BookStats ------------------------------
(***************************************************************************)
(* orderbook/orderbook_pro.hpp: record_trade and what is read of it.  A    *)
(* trade x has a price, a quantity, the side of the taker, a time and the  *)
(* mid of the book when it happened.  The counters of record_trade are     *)
(* grouped; each group has an operator that adds a trade to it.  A ratio   *)
(* is a pair <<numerator, denominator>>, the latter 0 for "no value".      *)
(* Left out: variances and exponential averages, which need reals.         *)
(***************************************************************************)
EXTENDS Integers, Sequences, SequencesExt, FiniteSetsExt

CONSTANTS TapeCap,        \* TAPE_CAP
          TapePrice,      \* the prices of the grid
          TakerFee, MakerFee, LarbWindow

Sign(side) == IF side = "BUY" THEN 1 ELSE -1
AbsOf(n) == IF n >= 0 THEN n ELSE -n
TruncDiv(n, d) == IF n >= 0 THEN n \div d ELSE -((-n) \div d)
Share(n, d) == IF d = 0 THEN 0 ELSE TruncDiv(n * 10000, d)
NoTrade == [price |-> 0, qty |-> 0, side |-> "BUY", at |-> 0, mid |-> 0]
Sides == {"BUY", "SELL"}
Zeros(S) == [x \in S |-> 0]

NewTape ==
    [ring |-> [i \in 0..(TapeCap - 1) |-> NoTrade], head |-> 0, count |-> 0, fills |-> 0, volume |-> 0,
     sizes |-> Zeros(1..4), fees |-> [taker |-> 0, maker |-> 0],
     mifid |-> [n |-> 0, volume |-> 0, notional |-> 0, spread |-> 0, impact |-> 0],
     flow |-> Zeros(Sides), flowCount |-> Zeros(Sides), notional |-> Zeros(Sides),
     pairs |-> Zeros(Sides \X Sides), prevSide |-> "NONE",
     gap |-> [prev |-> 0, min |-> 0, max |-> 0, sum |-> 0, n |-> 0, last |-> 0, xy |-> 0, xx |-> 0],
     largest |-> 0, prevPx |-> -1,
     ready |-> [buy |-> 0, sell |-> 0, correct |-> 0, none |-> 0],
     changes |-> Zeros(-4..4),
     kyle |-> [side \in Sides |-> [pv |-> 0, vsq |-> 0]],
     roll |-> [xy |-> 0, x |-> 0, y |-> 0, n |-> 0, prev |-> 0, has |-> FALSE],
     larb |-> [n |-> 0, side |-> "BUY", at |-> 0], lastAt |-> Zeros(Sides),
     atPrice |-> Zeros(TapePrice)]

\* Mutant of OnRing: the slot after the head is written.
OnRingNext(t, x) == [t EXCEPT !.ring[(t.head + 1) % TapeCap] = x, !.head = @ + 1, !.count = @ + 1,
                              !.fills = @ + 1, !.volume = @ + x.qty]
OnRing(t, x) == [t EXCEPT !.ring[t.head % TapeCap] = x, !.head = @ + 1, !.count = @ + 1,
                          !.fills = @ + 1, !.volume = @ + x.qty]

\* update_size_distribution: small, medium, large, block
SizeClass(qty) == IF qty <= 100 THEN 1 ELSE IF qty <= 1000 THEN 2 ELSE IF qty <= 10000 THEN 3 ELSE 4
OnSizes(t, x) == [t EXCEPT !.sizes[SizeClass(x.qty)] = @ + x.qty]

OnFees(t, x) == [t EXCEPT !.fees.taker = @ + x.price * x.qty * TakerFee,
                          !.fees.maker = @ + x.price * x.qty * MakerFee]

\* The report of best execution, with the spread and the impact where there is a mid
OnMifid(t, x) ==
    LET d == x.price - x.mid
        m == t.mifid
        n == [m EXCEPT !.n = @ + 1, !.volume = @ + x.qty, !.notional = @ + x.price * x.qty]
    IN  [t EXCEPT !.mifid = IF x.mid <= 0 THEN n
                            ELSE [n EXCEPT !.spread = @ + AbsOf(d) * 2 * x.qty,
                                           !.impact = @ + Sign(x.side) * d * x.qty]]

OnFlow(t, x) == [t EXCEPT !.flow[x.side] = @ + x.qty, !.flowCount[x.side] = @ + 1]
OnMarkov(t, x) == [t EXCEPT !.pairs = IF t.prevSide = "NONE" THEN @
                                      ELSE [@ EXCEPT ![<<t.prevSide, x.side>>] = @ + 1],
                            !.prevSide = x.side]
OnNotional(t, x) == [t EXCEPT !.notional[x.side] = @ + x.price * x.qty]

\* Gaps between trades; a trade at the time of the one before has none.
OnGap(t, x) ==
    LET g == t.gap
        d == x.at - g.prev
    IN  [t EXCEPT !.gap =
           IF g.prev = 0 \/ d <= 0 THEN [g EXCEPT !.prev = x.at]
           ELSE [prev |-> x.at, min |-> IF g.n = 0 \/ d < g.min THEN d ELSE g.min,
                 max |-> IF d > g.max THEN d ELSE g.max, sum |-> g.sum + d, n |-> g.n + 1,
                 last |-> d, xy |-> g.xy + d * g.last, xx |-> g.xx + g.last * g.last]]

OnLargest(t, x) == [t EXCEPT !.largest = IF x.qty > @ THEN x.qty ELSE @]

\* Lee and Ready: above the mid a buy, below it a sale, at it by the last change
LeeReady(t, x) == IF x.mid > 0 /\ x.price # x.mid THEN (IF x.price > x.mid THEN "BUY" ELSE "SELL")
                  ELSE IF t.prevPx >= 0 /\ x.price # t.prevPx
                  THEN (IF x.price > t.prevPx THEN "BUY" ELSE "SELL")
                  ELSE "NONE"
OnLeeReady(t, x) ==
    LET c == LeeReady(t, x)
        one(b) == IF b THEN 1 ELSE 0
    IN  [t EXCEPT !.ready = [buy |-> @.buy + one(c = "BUY"), sell |-> @.sell + one(c = "SELL"),
                             correct |-> @.correct + one(c = x.side), none |-> @.none + one(c = "NONE")]]

Clip(n) == IF n > 4 THEN 4 ELSE IF n < -4 THEN -4 ELSE n
Change(t, x) == x.price - t.prevPx
OnChange(t, x) == IF t.prevPx < 0 THEN t ELSE [t EXCEPT !.changes[Clip(Change(t, x))] = @ + 1]
OnKyle(t, x) == IF t.prevPx < 0 THEN t
                ELSE [t EXCEPT !.kyle[x.side].pv = @ + Change(t, x) * Sign(x.side) * x.qty,
                               !.kyle[x.side].vsq = @ + x.qty * x.qty]
OnRoll(t, x) ==
    LET r == t.roll
        d == Change(t, x)
    IN  IF t.prevPx < 0 THEN t
        ELSE [t EXCEPT !.roll = IF r.has THEN [xy |-> r.xy + d * r.prev, x |-> r.x + d, y |-> r.y + r.prev,
                                               n |-> r.n + 1, prev |-> d, has |-> TRUE]
                                ELSE [r EXCEPT !.prev = d, !.has = TRUE]]

\* Fast fills on one side
OnLarb(t, x) ==
    LET l == t.larb
        fast == l.at # 0 /\ x.at > l.at /\ x.at - l.at <= LarbWindow /\ x.side = l.side
    IN  [t EXCEPT !.larb = [n |-> IF fast THEN l.n + 1 ELSE l.n, side |-> x.side, at |-> x.at],
                  !.lastAt[x.side] = x.at]
OnPrice(t, x) == [t EXCEPT !.atPrice[x.price] = @ + x.qty]

RecordTrade(t, x) ==
    LET a == OnMarkov(OnFlow(OnMifid(OnFees(OnSizes(OnRing(t, x), x), x), x), x), x)
        b == OnLargest(OnGap(OnNotional(a, x), x), x)
        c == OnRoll(OnKyle(OnChange(OnLeeReady(b, x), x), x), x)
    IN  OnPrice(OnLarb([c EXCEPT !.prevPx = x.price], x), x)

------------------------------------------------------------------------------
TapeSize(t) == IF t.count < TapeCap THEN t.count ELSE TapeCap
Back(t, i) == t.ring[(t.head + TapeCap - 1 - i) % TapeCap]
AtMost(n, m) == IF n <= m THEN n ELSE m

\* The newest first
RecentTrades(t, n) == [i \in 1..AtMost(TapeSize(t), n) |-> Back(t, i - 1)]
Total(s, f(_)) == FoldLeft(LAMBDA n, x : n + f(x), 0, s)
Paid(x) == x.price * x.qty
QtyIn(x) == x.qty

LastNVwapTicks(t, n) == LET s == RecentTrades(t, n)
                        IN  IF Total(s, QtyIn) = 0 THEN 0 ELSE Total(s, Paid) \div Total(s, QtyIn)
TapeVwapTicks(t) == LET s == RecentTrades(t, TapeCap)
                    IN  IF Total(s, QtyIn) = 0 THEN -1 ELSE Total(s, Paid) \div Total(s, QtyIn)
TapeTwapTicks(t) == IF TapeSize(t) = 0 THEN -1
                    ELSE Total(RecentTrades(t, TapeCap), LAMBDA x : x.price) \div TapeSize(t)
TradeMomentumLastN(t, n) == Total(RecentTrades(t, n), LAMBDA x : Sign(x.side))
TapeStatistics(t) ==
    LET s == Range(RecentTrades(t, TapeCap))
    IN  IF s = {} THEN [n |-> 0, minQty |-> 0, maxQty |-> 0, minPx |-> 0, maxPx |-> 0]
        ELSE [n |-> TapeSize(t),
              minQty |-> Min({x.qty : x \in s}), maxQty |-> Max({x.qty : x \in s}),
              minPx |-> Min({x.price : x \in s}), maxPx |-> Max({x.price : x \in s})]
\* Trades over the time from the oldest on the tape to the newest
TradesPerSecond(t) ==
    LET n == TapeSize(t)
        dt == Back(t, 0).at - Back(t, n - 1).at
    IN  IF n < 2 \/ dt <= 0 THEN <<0, 0>> ELSE <<n - 1, dt>>

FlowImbalanceBps(t) == Share(t.flow["BUY"] - t.flow["SELL"], t.flow["BUY"] + t.flow["SELL"])
VpinBps(t) == Share(AbsOf(t.flow["BUY"] - t.flow["SELL"]), t.flow["BUY"] + t.flow["SELL"])

\* The lowest price with the most volume
PointOfControlTicks(t) ==
    LET most == Max(Range(t.atPrice))
    IN  IF most = 0 THEN -1 ELSE Min({p \in TapePrice : t.atPrice[p] = most})

KyleLambda(t) == <<t.kyle["BUY"].pv + t.kyle["SELL"].pv, t.kyle["BUY"].vsq + t.kyle["SELL"].vsq>>
KyleLambdaSide(t, side) == <<t.kyle[side].pv, t.kyle[side].vsq>>
\* The covariance of successive changes, times the square of their number; 0 if positive
RollCovariance(t) == LET c == t.roll.n * t.roll.xy - t.roll.x * t.roll.y IN IF c >= 0 THEN 0 ELSE c

ChangeTotal(t) == MapThenSumSet(LAMBDA d : t.changes[d], -4..4)
PriceChangeHistZeroFraction(t) == <<t.changes[0], ChangeTotal(t)>>
PriceChangeHistTailFraction(t) == <<t.changes[-4] + t.changes[4], ChangeTotal(t)>>
VwapTicks(t, side) == IF t.flow[side] = 0 THEN 0 ELSE t.notional[side] \div t.flow[side]
BuyVsSellVwapSpreadTicks(t) ==
    IF VwapTicks(t, "BUY") = 0 \/ VwapTicks(t, "SELL") = 0 THEN 0
    ELSE VwapTicks(t, "BUY") - VwapTicks(t, "SELL")
InterTradeGapMin(t) == IF t.gap.n = 0 THEN 0 ELSE t.gap.min
InterTradeGapMean(t) == IF t.gap.n = 0 THEN 0 ELSE t.gap.sum \div t.gap.n
\* Clipped to the range from -1 to 1
InterTradeGapAutocorrLag1(t) ==
    IF t.gap.xx <= 0 THEN <<0, 0>> ELSE <<AtMost(t.gap.xy, t.gap.xx), t.gap.xx>>
MeanTradeQty(t) == <<t.volume, t.fills>>
MeanFillNotionalTicks(t) == <<t.notional["BUY"] + t.notional["SELL"], t.fills>>
MarkovProbBuyGiven(t, side) == <<t.pairs[<<side, "BUY">>], t.pairs[<<side, "BUY">>] + t.pairs[<<side, "SELL">>]>>
\* Numerator of pbb + pss - 1 over the product of the two totals
MarkovTrendPersistence(t) ==
    LET b == t.pairs[<<"BUY", "BUY">>] + t.pairs[<<"BUY", "SELL">>]
        s == t.pairs[<<"SELL", "BUY">>] + t.pairs[<<"SELL", "SELL">>]
    IN  IF b = 0 \/ s = 0 THEN 0
        ELSE t.pairs[<<"BUY", "BUY">>] * s + t.pairs[<<"SELL", "SELL">>] * b - b * s
LeeReadyAccuracy(t) == <<t.ready.correct, t.ready.buy + t.ready.sell>>
MidMinusTapeVwapTicks(t, mid) ==
    IF TapeVwapTicks(t) <= 0 \/ mid <= 0 THEN 0 ELSE mid - TapeVwapTicks(t)

------------------------------------------------------------------------------
(***************************************************************************)
(* orderbook/orderbook_pro.hpp: the meters of FullOrderBook that a caller  *)
(* samples (sample_..., poll_...), those its operations feed, and the      *)
(* queues a client empties.  A top of the book q has the best prices,      *)
(* NoBid and NoAsk for none, and their quantities.                         *)
(***************************************************************************)
CONSTANTS RingCap,        \* MID_RING_CAP
          SpreadBins,     \* SPREAD_HIST_BINS
          NoBidTick, NoAskTick, Tight, Wide, BandTicks, Burst

HasB(q) == q.bid # NoBidTick
HasA(q) == q.ask # NoAskTick
Both(q) == HasB(q) /\ HasA(q)
MidOf(q) == (q.bid + q.ask) \div 2
SpreadOf(q) == q.ask - q.bid
Distance(n) == IF n >= 0 THEN n ELSE -n
Inc(b) == IF b THEN 1 ELSE 0
Fewer(n, m) == IF n <= m THEN n ELSE m

------------------------------------------------------------------------------
\* sample_ofi: the change of the best quantities
NewOfi == [bid |-> 0, ask |-> 0, bidQty |-> 0, askQty |-> 0, sum |-> 0]
SampleOfi(s, q) ==
    LET n == [bid |-> IF HasB(q) THEN q.bid ELSE 0, ask |-> IF HasA(q) THEN q.ask ELSE 0,
              bidQty |-> IF HasB(q) THEN q.bidQty ELSE 0, askQty |-> IF HasA(q) THEN q.askQty ELSE 0]
        d == (IF n.bid >= s.bid THEN n.bidQty - s.bidQty ELSE 0)
             - (IF n.ask <= s.ask THEN n.askQty - s.askQty ELSE 0)
    IN  [bid |-> n.bid, ask |-> n.ask, bidQty |-> n.bidQty, askQty |-> n.askQty, sum |-> s.sum + d]

\* sample_ofi_ck
NewOfiCk == [bid |-> NoBidTick, ask |-> 0, bidQty |-> 0, askQty |-> 0, sum |-> 0, n |-> 0]
BidPart(s, q) == IF q.bid > s.bid THEN q.bidQty ELSE IF q.bid < s.bid THEN -s.bidQty ELSE q.bidQty - s.bidQty
AskPart(s, q) == IF q.ask > s.ask THEN s.askQty ELSE IF q.ask < s.ask THEN -q.askQty ELSE s.askQty - q.askQty
SampleOfiCk(s, q) ==
    IF ~Both(q) THEN s
    ELSE [bid |-> q.bid, ask |-> q.ask, bidQty |-> q.bidQty, askQty |-> q.askQty, n |-> s.n + 1,
          sum |-> IF s.bid = NoBidTick THEN s.sum ELSE s.sum + BidPart(s, q) - AskPart(s, q)]
OfiPerSample(s) == IF s.n < 2 THEN <<0, 0>> ELSE <<s.sum, s.n - 1>>

\* poll_tob_change
NewPoll == [bid |-> NoBidTick, ask |-> NoAskTick, same |-> 0, most |-> 0, at |-> 0, life |-> 0,
            changes |-> 0, flicker |-> 0, tight |-> 0]
TobHasChanged(s, q) == q.bid # s.bid \/ q.ask # s.ask
\* Mutant of PollTobChange: the time of the first change counts as life.
PollTobChangeFromZero(s, q, now, filled) ==
    IF ~TobHasChanged(s, q)
    THEN [s EXCEPT !.same = @ + 1, !.most = IF s.same + 1 > @ THEN s.same + 1 ELSE @]
    ELSE [s EXCEPT !.same = 0, !.bid = q.bid, !.ask = q.ask, !.at = now, !.changes = @ + 1,
                   !.life = @ + (now - s.at), !.flicker = @ + Inc(s.at # 0 /\ filled < s.at),
                   !.tight = @ + Inc(Both(q) /\ SpreadOf(q) < Tight /\ Tight > 0)]
PollTobChange(s, q, now, filled) ==
    IF ~TobHasChanged(s, q)
    THEN [s EXCEPT !.same = @ + 1, !.most = IF s.same + 1 > @ THEN s.same + 1 ELSE @]
    ELSE [s EXCEPT !.same = 0, !.bid = q.bid, !.ask = q.ask, !.at = now, !.changes = @ + 1,
                   !.life = @ + (IF s.at # 0 /\ now > s.at THEN now - s.at ELSE 0),
                   !.flicker = @ + Inc(s.at # 0 /\ filled < s.at),
                   !.tight = @ + Inc(Both(q) /\ SpreadOf(q) < Tight /\ Tight > 0)]
MeanTobLife(s) == IF s.changes < 2 THEN 0 ELSE s.life \div (s.changes - 1)

\* poll_tob_micro: one-sided books, where the mid leans, how the queues move
NewMicro == [bidOnly |-> 0, askOnly |-> 0, askSide |-> 0, bidSide |-> 0, neutral |-> 0,
             moreBid |-> 0, lessBid |-> 0, moreAsk |-> 0, lessAsk |-> 0, bidQty |-> -1, askQty |-> -1]
PollTobMicro(s, q) ==
    LET up == q.ask - MidOf(q)
        down == MidOf(q) - q.bid
    IN  IF HasB(q) /\ ~HasA(q) THEN [s EXCEPT !.bidOnly = @ + 1]
        ELSE IF ~HasB(q) /\ HasA(q) THEN [s EXCEPT !.askOnly = @ + 1]
        ELSE IF ~Both(q) THEN s
        ELSE [s EXCEPT !.askSide = @ + Inc(up < down), !.bidSide = @ + Inc(down < up),
                       !.neutral = @ + Inc(up = down),
                       !.moreBid = @ + Inc(s.bidQty >= 0 /\ q.bidQty > s.bidQty),
                       !.lessBid = @ + Inc(s.bidQty >= 0 /\ q.bidQty < s.bidQty),
                       !.moreAsk = @ + Inc(s.askQty >= 0 /\ q.askQty > s.askQty),
                       !.lessAsk = @ + Inc(s.askQty >= 0 /\ q.askQty < s.askQty),
                       !.bidQty = q.bidQty, !.askQty = q.askQty]

\* sample_time_weighted_spread: the spread found, for the time since the last sample
NewWeighted == [at |-> 0, sum |-> 0, time |-> 0, value |-> 0]
SampleTimeWeightedSpread(s, q, now) ==
    IF ~Both(q) THEN s
    ELSE IF s.at = 0 THEN [s EXCEPT !.at = now]
    ELSE IF now > s.at THEN [s EXCEPT !.sum = @ + SpreadOf(q) * (now - s.at), !.time = @ + (now - s.at),
                                      !.at = now]
    ELSE s
\* sample_time_weighted_mid: the mid of the last sample, for the time since then
SampleTimeWeightedMid(s, q, now) ==
    IF ~Both(q) THEN s
    ELSE IF s.at = 0 THEN [s EXCEPT !.at = now, !.value = MidOf(q)]
    ELSE IF now > s.at THEN [at |-> now, sum |-> s.sum + s.value * (now - s.at),
                             time |-> s.time + (now - s.at), value |-> MidOf(q)]
    ELSE s
MeanWeighted(s) == <<s.sum, s.time>>

\* sample_mid_to_ring and sample_microprice_to_ring
NewRing == [at |-> [i \in 0..(RingCap - 1) |-> 0], head |-> 0, n |-> 0]
ToRing(s, v) == [at |-> [s.at EXCEPT ![s.head % RingCap] = v], head |-> s.head + 1, n |-> Fewer(s.n + 1, RingCap)]
SampleMidToRing(s, q) == IF Both(q) THEN ToRing(s, MidOf(q)) ELSE s
Micro(q) == IF q.bidQty + q.askQty = 0 THEN MidOf(q)
            ELSE (q.bid * q.askQty + q.ask * q.bidQty) \div (q.bidQty + q.askQty)
SampleMicropriceToRing(s, q) == IF Both(q) THEN ToRing(s, Micro(q)) ELSE s
Momentum(s) == IF s.n < 2 THEN 0
               ELSE s.at[(s.head + RingCap - 1) % RingCap] - s.at[(s.head + RingCap - s.n) % RingCap]
ClassifyMidTrend(s, band) ==
    IF s.n < 2 THEN "UNKNOWN" ELSE IF Momentum(s) > band THEN "UP"
    ELSE IF Momentum(s) < -band THEN "DOWN" ELSE "SIDEWAYS"

\* sample_spread_regime
NewRegime == [tight |-> 0, normal |-> 0, wide |-> 0]
SampleSpreadRegime(s, q) ==
    IF ~Both(q) \/ Tight <= 0 \/ Wide <= 0 THEN s
    ELSE IF SpreadOf(q) <= Tight THEN [s EXCEPT !.tight = @ + 1]
    ELSE IF SpreadOf(q) >= Wide THEN [s EXCEPT !.wide = @ + 1] ELSE [s EXCEPT !.normal = @ + 1]

\* sample_spread_to_histogram; a crossed book wraps and lands in the last bin
NewSpreads == [i \in 0..(SpreadBins - 1) |-> 0]
SampleSpreadToHistogram(s, q) ==
    IF ~Both(q) THEN s
    ELSE [s EXCEPT ![IF SpreadOf(q) < 0 THEN SpreadBins - 1 ELSE Fewer(SpreadOf(q), SpreadBins - 1)] = @ + 1]
SpreadsUpTo(s, i) == MapThenSumSet(LAMBDA j : s[j], 0..i)
SpreadHistogramMedianTicks(s) ==
    LET n == SpreadsUpTo(s, SpreadBins - 1)
    IN  IF n = 0 THEN -1 ELSE Min({i \in DOMAIN s : SpreadsUpTo(s, i) > n \div 2})

\* sample_quoted_spread
NewQuoted == [sum |-> 0, n |-> 0]
SampleQuotedSpread(s, q) == IF Both(q) THEN [sum |-> s.sum + SpreadOf(q), n |-> s.n + 1] ELSE s

\* sample_best_qty_histogram: bins of powers of two, the last (QTY_HIST_BINS - 1) open
QtyToLog2Bin(n) == IF n <= 1 THEN 0 ELSE IF n <= 3 THEN 1 ELSE IF n <= 7 THEN 2 ELSE 3
NewBestQty == [bid |-> [i \in 0..3 |-> 0], ask |-> [i \in 0..3 |-> 0]]
SampleBestQtyHistogram(s, q) ==
    [bid |-> IF HasB(q) THEN [s.bid EXCEPT ![QtyToLog2Bin(q.bidQty)] = @ + 1] ELSE s.bid,
     ask |-> IF HasA(q) THEN [s.ask EXCEPT ![QtyToLog2Bin(q.askQty)] = @ + 1] ELSE s.ask]

\* sample_maker_survival: which of the orders of the last sample are still there
NewSurvival == [polls |-> 0, ids |-> {}, seen |-> 0, alive |-> 0]
SampleMakerSurvival(s, ids) ==
    [polls |-> s.polls + 1, ids |-> ids, seen |-> s.seen + Cardinality(s.ids),
     alive |-> s.alive + Cardinality(s.ids \cap ids)]
MakerSurvivalRatio(s) == <<s.alive, s.seen>>

------------------------------------------------------------------------------
\* The end of match_against: n levels consumed by an order that executed something
NewSweeps == [n |-> 0, levels |-> 0, multi |-> 0, spread |-> 0, samples |-> 0, inside |-> 0,
              outside |-> 0]
OnSweep(s, levels, price, mid) ==
    LET d == Distance(price - mid)
        c == [s EXCEPT !.n = @ + 1, !.levels = @ + levels, !.multi = @ + Inc(levels >= 2)]
    IN  IF mid < 0 THEN c
        ELSE [c EXCEPT !.spread = @ + 2 * d, !.samples = @ + 1,
                       !.inside = @ + Inc(BandTicks > 0 /\ d <= BandTicks),
                       !.outside = @ + Inc(BandTicks > 0 /\ d > BandTicks)]
AvgLevelsPerSweep(s) == <<s.levels, s.n>>
MultiLevelSweepRatio(s) == <<s.multi, s.n>>
FillBandComplianceRatio(s) == <<s.inside, s.inside + s.outside>>
MeanEffectiveSpreadTicks(s) == <<s.spread, s.samples>>

\* record_first_fill_latency and record_lifecycle_age
NewLag == [n |-> 0, sum |-> 0, max |-> 0, min |-> 0]
RecordLag(s, from, to) ==
    LET d == to - from
    IN  IF from = 0 \/ to < from THEN s
        ELSE [n |-> s.n + 1, sum |-> s.sum + d, max |-> IF d > s.max THEN d ELSE s.max,
              min |-> IF s.n = 0 \/ d < s.min THEN d ELSE s.min]
MeanLag(s) == IF s.n = 0 THEN 0 ELSE s.sum \div s.n

\* Runs of submits that follow each other within the window
NewBurst == [at |-> 0, runs |-> 0, run |-> 0]
OnBurst(s, now) ==
    LET fast == s.at # 0 /\ now > s.at /\ now - s.at <= Burst
    IN  [at |-> now, runs |-> s.runs + Inc(fast /\ s.run = 0),
         run |-> IF ~fast THEN 0 ELSE IF s.run = 0 THEN 2 ELSE s.run + 1]

\* account_vwap_on_fill
NewVwap == [notional |-> 0, volume |-> 0]
AccountVwapOnFill(s, price, qty) == [notional |-> s.notional + price * qty, volume |-> s.volume + qty]
AccountVwapTicks(s) == IF s.volume = 0 THEN 0 ELSE s.notional \div s.volume

\* consume_rate_token; refill tokens a tick
ConsumeRateToken(s, capacity, refill, now) ==
    LET more == IF now > s.at THEN Fewer(capacity, s.tokens + (now - s.at) * refill) ELSE s.tokens
    IN  [at |-> IF now > s.at THEN now ELSE s.at, ok |-> more >= 1,
         tokens |-> IF more >= 1 THEN more - 1 ELSE more]

\* cancels of a client since its flag was cleared, and whether it is flagged
NewStuffing == [n |-> 0, flagged |-> FALSE, flags |-> 0]
OnCancelCount(s, threshold) ==
    LET over == s.n + 1 > threshold /\ ~s.flagged
    IN  [n |-> s.n + 1, flagged |-> s.flagged \/ over, flags |-> s.flags + Inc(over)]
ClearStuffingFlag(s) == [s EXCEPT !.n = 0, !.flagged = FALSE]

\* push_delta and pop_delta_queue; push_audit and pop_audit_records are the same
NewQueue == [seq |-> 0, queue |-> <<>>]
PushDelta(s, x) == [seq |-> s.seq + 1, queue |-> Append(s.queue, <<s.seq + 1, x>>)]
Popped(s, n) == SubSeq(s.queue, 1, Fewer(n, Len(s.queue)))
PopDeltaQueue(s, n) == [s EXCEPT !.queue = SubSeq(@, Fewer(n, Len(@)) + 1, Len(@))]

------------------------------------------------------------------------------
(***************************************************************************)
(* The statistics of FullOrderBook against the history they summarise: a   *)
(* book trades, its top moves, a monitor polls the samplers, clients       *)
(* submit and cancel.  Every counter is kept incrementally by the code; the *)
(* properties recompute it from the whole history.                         *)
(***************************************************************************)
CONSTANTS StatPrice, StatQty, StatMid, Gaps, MaxTrades, MaxPolls, Tops, Ids

VARIABLES trades, tape, polls, meters, drained

statVars == <<trades, tape, polls, meters, drained>>

NewMeters ==
    [ofi |-> NewOfi, ck |-> NewOfiCk, poll |-> NewPoll, micro |-> NewMicro, spread |-> NewWeighted,
     mid |-> NewWeighted, mids |-> NewRing, micros |-> NewRing, regime |-> NewRegime,
     spreads |-> NewSpreads, quoted |-> NewQuoted, best |-> NewBestQty, alive |-> NewSurvival,
     sweeps |-> NewSweeps, lag |-> NewLag, burst |-> NewBurst, vwap |-> NewVwap,
     bucket |-> [tokens |-> 1, at |-> 0, ok |-> TRUE], stuffing |-> NewStuffing, deltas |-> NewQueue]

StatInit == trades = <<>> /\ tape = NewTape /\ polls = <<>> /\ meters = NewMeters /\ drained = <<>>

LastAt(s) == IF s = <<>> THEN 1 ELSE Last(s).at

\* A trade on the tape
Trades ==
    /\ polls = <<>> /\ Len(trades) < MaxTrades
    /\ \E p \in StatPrice, n \in StatQty, side \in Sides, d \in Gaps, m \in StatMid :
          LET x == [price |-> p, qty |-> n, side |-> side, at |-> LastAt(trades) + d, mid |-> m]
          IN  trades' = Append(trades, x) /\ tape' = RecordTrade(tape, x)
    /\ UNCHANGED <<polls, meters, drained>>

\* Everything a monitor samples when it polls the top q, the orders ids rest and a client
\* has just cancelled and submitted
Sampled(m, q, ids, now) ==
    [m EXCEPT !.ofi = SampleOfi(@, q), !.ck = SampleOfiCk(@, q), !.poll = PollTobChange(@, q, now, 0),
              !.micro = PollTobMicro(@, q), !.spread = SampleTimeWeightedSpread(@, q, now),
              !.mid = SampleTimeWeightedMid(@, q, now), !.mids = SampleMidToRing(@, q),
              !.micros = SampleMicropriceToRing(@, q), !.regime = SampleSpreadRegime(@, q),
              !.spreads = SampleSpreadToHistogram(@, q), !.quoted = SampleQuotedSpread(@, q),
              !.best = SampleBestQtyHistogram(@, q), !.alive = SampleMakerSurvival(@, ids),
              !.sweeps = IF Both(q) THEN OnSweep(@, q.bidQty, q.ask, MidOf(q)) ELSE @,
              !.lag = RecordLag(@, 1, now), !.burst = OnBurst(@, now),
              !.vwap = IF HasA(q) THEN AccountVwapOnFill(@, q.ask, q.askQty) ELSE @,
              !.bucket = ConsumeRateToken(@, 2, 1, now),
              !.stuffing = IF ids = {} THEN ClearStuffingFlag(@) ELSE OnCancelCount(@, 1),
              !.deltas = PushDelta(@, q.bid)]

Polls ==
    /\ trades = <<>> /\ Len(polls) < MaxPolls
    /\ \E q \in Tops, ids \in Ids, d \in Gaps :
          LET now == LastAt(polls) + d
          IN  /\ polls' = Append(polls, [q |-> q, ids |-> ids, at |-> now])
              /\ meters' = Sampled(meters, q, ids, now)
    /\ UNCHANGED <<trades, tape, drained>>

\* The subscriber of the deltas takes some
Drains ==
    /\ meters.deltas.queue # <<>>
    /\ \E n \in 1..2 : /\ drained' = drained \o Popped(meters.deltas, n)
                       /\ meters' = [meters EXCEPT !.deltas = PopDeltaQueue(@, n)]
    /\ UNCHANGED <<trades, tape, polls>>

StatNext == Trades \/ Polls \/ Drains
StatSpec == StatInit /\ [][StatNext]_statVars

------------------------------------------------------------------------------
Pick(s, Test(_)) == SelectSeq(s, Test)
Newest(s, n) == [i \in 1..AtMost(n, Len(s)) |-> s[Len(s) + 1 - i]]
Steps(s) == 2..Len(s)
Among(S, Test(_)) == Cardinality({i \in S : Test(i)})
SumOn(S, f(_)) == MapThenSumSet(f, S)

(***************************************************************************)
(* record_trade keeps some fifty counters and a ring from which a dozen    *)
(* figures are read; nobody recomputes them.  For every history of trades: *)
(* the ring holds its newest TAPE_CAP, newest first, and the averages over *)
(* it are the averages of those; the volume is divided without loss among  *)
(* the sides, the sizes and the prices; every pair of successive trades is *)
(* one transition, one price change and, unless they are simultaneous, one *)
(* gap; the changes of the price telescope; each trade is classified once. *)
(***************************************************************************)
TapeTells ==
    LET n == Len(trades)
        volume == Total(trades, QtyIn)
        kept == Newest(trades, TapeCap)
        of(side) == Pick(trades, LAMBDA x : x.side = side)
        step(i) == trades[i].price - trades[i - 1].price
        gap(i) == trades[i].at - trades[i - 1].at
        apart == {i \in Steps(trades) : gap(i) > 0}
        later == {i \in Steps(trades) : i > 2}
    IN  /\ RecentTrades(tape, TapeCap) = kept /\ TapeSize(tape) = Len(kept)
        /\ TapeVwapTicks(tape) = LastNVwapTicks(tape, TapeCap) \/ n = 0
        /\ TapeTwapTicks(tape) = IF n = 0 THEN -1 ELSE Total(kept, LAMBDA x : x.price) \div Len(kept)
        /\ TradeMomentumLastN(tape, 1) \in {-1, 0, 1} /\ (TradeMomentumLastN(tape, 1) = 0 <=> n = 0)
        /\ n > 0 => LET s == TapeStatistics(tape)
                    IN  /\ s.minPx <= TapeVwapTicks(tape) /\ TapeVwapTicks(tape) <= s.maxPx
                        /\ s.maxQty <= tape.largest /\ s.n = Len(kept)
                        /\ MidMinusTapeVwapTicks(tape, TapeVwapTicks(tape)) = 0
        /\ n > 1 /\ TradesPerSecond(tape)[2] # 0 =>
              TradesPerSecond(tape) = <<Len(kept) - 1, kept[1].at - kept[Len(kept)].at>>
        /\ tape.volume = volume /\ MeanTradeQty(tape) = <<volume, n>>
        /\ volume = tape.flow["BUY"] + tape.flow["SELL"]
        /\ volume = SumOn(1..4, LAMBDA i : tape.sizes[i])
        /\ volume = SumOn(TapePrice, LAMBDA p : tape.atPrice[p])
        /\ volume = tape.mifid.volume /\ n = tape.mifid.n /\ n = tape.flowCount["BUY"] + tape.flowCount["SELL"]
        /\ \A side \in Sides : /\ tape.flow[side] = Total(of(side), QtyIn)
                               /\ tape.notional[side] = Total(of(side), Paid)
                               /\ VwapTicks(tape, side) = IF of(side) = <<>> THEN 0
                                     ELSE Total(of(side), Paid) \div Total(of(side), QtyIn)
        /\ BuyVsSellVwapSpreadTicks(tape) # 0 => \A side \in Sides : of(side) # <<>>
        /\ MeanFillNotionalTicks(tape)[1] = tape.mifid.notional
        /\ tape.fees.taker = TakerFee * tape.mifid.notional /\ tape.fees.maker = MakerFee * tape.mifid.notional
        /\ AbsOf(tape.mifid.impact) * 2 <= tape.mifid.spread
        /\ VpinBps(tape) = AbsOf(FlowImbalanceBps(tape)) /\ VpinBps(tape) <= 10000
        /\ n > 0 => tape.atPrice[PointOfControlTicks(tape)] * Cardinality(TapePrice) >= volume
        /\ \A a, b \in Sides : tape.pairs[<<a, b>>] =
              Among(Steps(trades), LAMBDA i : trades[i - 1].side = a /\ trades[i].side = b)
        /\ MarkovProbBuyGiven(tape, "BUY")[2] + MarkovProbBuyGiven(tape, "SELL")[2] = Cardinality(Steps(trades))
        /\ MarkovTrendPersistence(tape) > 0 =>
              \E a \in Sides : tape.pairs[<<a, a>>] > tape.pairs[<<a, CHOOSE b \in Sides : b # a>>]
        /\ tape.gap.n = Cardinality(apart) /\ tape.gap.sum = SumOn(apart, gap)
        /\ n > 0 => tape.gap.sum = Last(trades).at - Head(trades).at
        /\ InterTradeGapMin(tape) <= InterTradeGapMean(tape) /\ InterTradeGapMean(tape) <= tape.gap.max
        /\ InterTradeGapAutocorrLag1(tape)[1] <= InterTradeGapAutocorrLag1(tape)[2]
        /\ ChangeTotal(tape) = Cardinality(Steps(trades))
        /\ PriceChangeHistZeroFraction(tape)[1] + PriceChangeHistTailFraction(tape)[1] <= ChangeTotal(tape)
        /\ n > 0 => SumOn(-4..4, LAMBDA d : d * tape.changes[d]) = Last(trades).price - Head(trades).price
        /\ KyleLambda(tape)[1] = SumOn(Steps(trades), LAMBDA i : step(i) * Sign(trades[i].side) * trades[i].qty)
        /\ KyleLambda(tape)[2] = KyleLambdaSide(tape, "BUY")[2] + KyleLambdaSide(tape, "SELL")[2]
        /\ tape.roll.n = Cardinality(later) /\ tape.roll.xy = SumOn(later, LAMBDA i : step(i) * step(i - 1))
        /\ RollCovariance(tape) <= 0
        /\ tape.ready.buy + tape.ready.sell + tape.ready.none = n
        /\ LeeReadyAccuracy(tape)[1] <= LeeReadyAccuracy(tape)[2]
        /\ tape.larb.n = Among(Steps(trades), LAMBDA i : gap(i) \in 1..LarbWindow /\ trades[i].side = trades[i - 1].side)
        /\ \A side \in Sides : tape.lastAt[side] = IF of(side) = <<>> THEN 0 ELSE Last(of(side)).at

(***************************************************************************)
(* The samplers keep the last sample and a sum, and are skipped when the   *)
(* book has only one side; the sums must still be what the polls amount    *)
(* to.  The flow imbalances telescope while the prices stand; the time of  *)
(* the weighted means is the time between the first and the last sample    *)
(* with two sides; the life of a top is the time between its changes; every *)
(* poll with two sides is in one regime, one bin and one lean; orders are  *)
(* found alive at most as often as they were seen; the bucket holds no more *)
(* than its capacity and no client cancels past the threshold unflagged;   *)
(* deltas are delivered once each, in order, numbered without a hole.      *)
(***************************************************************************)
SamplerTells ==
    LET n == Len(polls)
        two == Pick(polls, LAMBDA p : Both(p.q))
        span == IF two = <<>> THEN 0 ELSE Last(two).at - Head(two).at
        top(i) == <<polls[i].q.bid, polls[i].q.ask>>
        moved == {i \in 1..n : top(i) # IF i = 1 THEN <<NoBidTick, NoAskTick>> ELSE top(i - 1)}
        m == meters
        kept == Newest(two, RingCap)
        still == \A i \in 1..n : Both(polls[i].q) /\ top(i) = top(1)
    IN  /\ (still /\ n > 0) =>
              /\ m.ck.sum = (polls[n].q.bidQty - polls[1].q.bidQty) + (polls[n].q.askQty - polls[1].q.askQty)
              /\ m.ofi.sum = polls[n].q.bidQty - IF polls[1].q.ask <= 0 THEN polls[n].q.askQty
                                                  ELSE polls[n].q.askQty - polls[1].q.askQty
        /\ m.ck.n = Len(two) /\ OfiPerSample(m.ck)[2] \in {0, Len(two) - 1}
        /\ m.poll.changes = Cardinality(moved)
        /\ moved # {} => m.poll.life = polls[Max(moved)].at - polls[Min(moved)].at
        /\ m.poll.flicker = Cardinality(moved) - Inc(moved # {})
        /\ MeanTobLife(m.poll) * (m.poll.changes - 1) <= m.poll.life
        /\ m.poll.same = n - (IF moved = {} THEN 0 ELSE Max(moved)) /\ m.poll.same <= m.poll.most
        /\ m.poll.tight <= m.poll.changes
        /\ m.micro.askSide + m.micro.bidSide + m.micro.neutral = Len(two)
        /\ m.micro.bidOnly + m.micro.askOnly + Len(two) <= n
        /\ m.micro.moreBid + m.micro.lessBid <= Len(two) - Inc(two # <<>>)
        /\ m.spread.time = span /\ m.mid.time = span
        /\ span > 0 => /\ \E p \in Range(two) : MidOf(p.q) * span <= MeanWeighted(m.mid)[1]
                       /\ \E p \in Range(two) : MidOf(p.q) * span >= MeanWeighted(m.mid)[1]
                       /\ \E p \in Range(two) : SpreadOf(p.q) * span <= MeanWeighted(m.spread)[1]
        /\ Momentum(m.mids) = IF Len(kept) < 2 THEN 0 ELSE MidOf(kept[1].q) - MidOf(kept[Len(kept)].q)
        /\ Momentum(m.micros) = IF Len(kept) < 2 THEN 0 ELSE Micro(kept[1].q) - Micro(kept[Len(kept)].q)
        /\ ClassifyMidTrend(m.mids, 0) = "UNKNOWN" <=> Len(two) < 2
        /\ m.regime.tight + m.regime.normal + m.regime.wide = Len(two)
        /\ SpreadsUpTo(m.spreads, SpreadBins - 1) = Len(two) /\ m.quoted.n = Len(two)
        /\ m.quoted.sum = SumOn(DOMAIN two, LAMBDA i : SpreadOf(two[i].q))
        /\ LET median == SpreadHistogramMedianTicks(m.spreads)
           IN  two # <<>> => 2 * SpreadsUpTo(m.spreads, median) > Len(two)
        /\ SumOn(0..3, LAMBDA i : m.best.bid[i]) = Len(Pick(polls, LAMBDA p : HasB(p.q)))
        /\ SumOn(0..3, LAMBDA i : m.best.ask[i]) = Len(Pick(polls, LAMBDA p : HasA(p.q)))
        /\ m.alive.polls = n /\ MakerSurvivalRatio(m.alive)[1] =
              SumOn(2..n, LAMBDA i : Cardinality(polls[i - 1].ids \cap polls[i].ids))
        /\ MakerSurvivalRatio(m.alive)[1] <= MakerSurvivalRatio(m.alive)[2]
        /\ MultiLevelSweepRatio(m.sweeps)[1] * 2 <= AvgLevelsPerSweep(m.sweeps)[1]
        /\ FillBandComplianceRatio(m.sweeps)[2] \in {0, MeanEffectiveSpreadTicks(m.sweeps)[2]}
        /\ n > 0 => /\ m.lag.min <= MeanLag(m.lag) /\ MeanLag(m.lag) <= m.lag.max
                    /\ m.lag.n = n /\ m.burst.at = Last(polls).at
        /\ m.burst.runs * 2 <= n
        /\ m.vwap.volume > 0 => \E p \in Range(polls) : HasA(p.q) /\ p.q.ask <= AccountVwapTicks(m.vwap)
        /\ m.bucket.tokens \in 0..2
        /\ m.stuffing.n > 1 <=> m.stuffing.flagged
        /\ drained \o m.deltas.queue = [i \in 1..n |-> <<i, polls[i].q.bid>>]
==============================================================================
