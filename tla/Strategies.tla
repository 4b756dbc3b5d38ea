----------------------------- MODULE Strategies ------------------------------
(***************************************************************************)
(* The window strategies of strategy/ (mean_reversion, momentum,           *)
(* bollinger, rsi, donchian, ma_crossover), the vote of ensemble.hpp on    *)
(* their signals, and the gates after it: SignalThrottle and TrailingStop. *)
(* Each strategy has a table of at most MaxStocks windows, found by name;  *)
(* a window is a ring of the last values with running sums.                *)
(*                                                                         *)
(* Prices are whole numbers and quotients are compared by cross products,  *)
(* so the rounding of doubles is left out.  A name is stored cut to eight  *)
(* characters and compared whole: a longer one never matches its window.   *)
(***************************************************************************)
EXTENDS Integers, Sequences, FiniteSetsExt, SequencesExt

CONSTANTS Stocks, Cut,       \* names, and what strncpy(.., 8) keeps of each
          TickPrice,         \* prices; 0 is not a valid one
          MaxStocks,         \* MAX_STOCKS
          Window, Fast,      \* window sizes; fast_ of MACrossover
          ThresholdPct, NumStd,   \* threshold_pct; num_std_ in tenths
          Overbought, Oversold,
          MinAgree, Cooldown, Trail,
          MaxTicks           \* bound: ticks

VARIABLES state,       \* by strategy: [windows, buys, sells, holds, signal]
          vote,        \* the last combined signal
          throttle, trail,
          ticks        \* history: the ticks

stratVars == <<state, vote, throttle, trail, ticks>>

Strategy == {"reversion", "momentum", "bollinger", "rsi", "donchian", "crossover"}
Valid(price) == price > 0
Total(s) == FoldFunction(+, 0, s)

NewWindow(stock) ==
    [symbol |-> Cut[stock], ring |-> [i \in 1..Window |-> 0], head |-> 1, count |-> 0, sum |-> 0, sumSq |-> 0,
     prev |-> 0, hasPrev |-> FALSE, above |-> FALSE]

\* find_or_create: the index of the window, 0 when the table is full
FindOrCreate(windows, stock) ==
    LET found == {i \in DOMAIN windows : windows[i].symbol = stock}
    IN  IF found # {} THEN Min(found) ELSE IF Len(windows) < MaxStocks THEN Len(windows) + 1 ELSE 0

\* Mutant of Pushed: the value that falls out stays in the sums.
PushedKeeps(w, x) ==
    [w EXCEPT !.ring[w.head] = x, !.sum = @ + x, !.sumSq = @ + x * x,
              !.head = IF w.head = Window THEN 1 ELSE @ + 1, !.count = Min({@ + 1, Window})]

\* add: a full ring gives up its oldest value, and the sums with it
Pushed(w, x) ==
    LET old == IF w.count = Window THEN w.ring[w.head] ELSE 0
    IN  [w EXCEPT !.ring[w.head] = x, !.sum = @ + x - old, !.sumSq = @ + x * x - old * old,
                  !.head = IF w.head = Window THEN 1 ELSE @ + 1, !.count = Min({@ + 1, Window})]
Full(w) == w.count >= Window

\* Each handler: the window after the tick, and "buy", "sell" or "hold".
Outcome(w, side) == [window |-> w, side |-> side]
Above(w, price) == (w.count * price - w.sum) * 100 > ThresholdPct * w.sum
Below(w, price) == (w.count * price - w.sum) * 100 < -(ThresholdPct * w.sum)
OnReversion(w0, price) ==
    LET w == Pushed(w0, price)
    IN  Outcome(w, IF ~Full(w) THEN "hold" ELSE IF Above(w, price) THEN "sell"
                   ELSE IF Below(w, price) THEN "buy" ELSE "hold")
OnMomentum(w0, price) ==
    LET w == Pushed(w0, price)
    IN  Outcome(w, IF ~Full(w) THEN "hold" ELSE IF Above(w, price) THEN "buy"
                   ELSE IF Below(w, price) THEN "sell" ELSE "hold")
\* the price against mean + num_std * sd, squared and times count^2
OnBollinger(w0, price) ==
    LET w == Pushed(w0, price)
        off == w.count * price - w.sum
        spread == w.count * w.sumSq - w.sum * w.sum
        outside == spread > 0 /\ 100 * off * off > NumStd * NumStd * spread
    IN  Outcome(w, IF ~Full(w) \/ ~outside THEN "hold" ELSE IF off > 0 THEN "sell" ELSE "buy")
\* the ring holds the changes; without a loss the index is 100
OnRsi(w0, price) ==
    LET w == IF w0.hasPrev THEN [Pushed(w0, price - w0.prev) EXCEPT !.prev = price]
                           ELSE [w0 EXCEPT !.prev = price, !.hasPrev = TRUE]
        gains == Total([i \in 1..w.count |-> Max({w.ring[i], 0})])
        losses == Total([i \in 1..w.count |-> Max({-w.ring[i], 0})])
        rsi == IF losses = 0 THEN [num |-> 100, den |-> 1] ELSE [num |-> 100 * gains, den |-> gains + losses]
    IN  Outcome(w, IF ~w0.hasPrev \/ ~Full(w) THEN "hold" ELSE IF rsi.num > Overbought * rsi.den THEN "sell"
                   ELSE IF rsi.num < Oversold * rsi.den THEN "buy" ELSE "hold")
\* the channel is that of the ticks before this one
OnDonchian(w, price) ==
    Outcome(Pushed(w, price),
            IF ~Full(w) THEN "hold" ELSE IF price > Max(Range(w.ring)) THEN "buy"
            ELSE IF price < Min(Range(w.ring)) THEN "sell" ELSE "hold")
\* the fast mean is over the last Fast of the ring, walked back from head
OnCrossover(w0, price) ==
    LET w == Pushed(w0, price)
        back(k) == w.ring[((w.head - 1 - k + Window) % Window) + 1]
        above == Total([k \in 1..Fast |-> back(k)]) * Window > w.sum * Fast
    IN  IF ~Full(w) THEN Outcome(w, "hold")
        ELSE Outcome([w EXCEPT !.above = above, !.hasPrev = TRUE],
                     IF w.hasPrev /\ above # w.above THEN (IF above THEN "buy" ELSE "sell") ELSE "hold")

Handler(kind, w, price) ==
    CASE kind = "reversion" -> OnReversion(w, price)
      [] kind = "momentum"  -> OnMomentum(w, price)
      [] kind = "bollinger" -> OnBollinger(w, price)
      [] kind = "rsi"       -> OnRsi(w, price)
      [] kind = "donchian"  -> OnDonchian(w, price)
      [] kind = "crossover" -> OnCrossover(w, price)

\* on_market_data
OnMarketData(kind, s, stock, price) ==
    LET i == IF Valid(price) THEN FindOrCreate(s.windows, stock) ELSE 0
        w == IF i \in DOMAIN s.windows THEN s.windows[i] ELSE NewWindow(stock)
        r == Handler(kind, w, price)
        windows == IF i \in DOMAIN s.windows THEN [s.windows EXCEPT ![i] = r.window] ELSE Append(s.windows, r.window)
        side == IF i = 0 THEN "hold" ELSE r.side
    IN  [windows |-> IF i = 0 THEN s.windows ELSE windows, signal |-> side,
         buys |-> s.buys + (IF side = "buy" THEN 1 ELSE 0), sells |-> s.sells + (IF side = "sell" THEN 1 ELSE 0),
         holds |-> s.holds + (IF side = "hold" THEN 1 ELSE 0)]

\* combine_signals: the majority, when it is large enough
CombineSignals(sigs, minAgree) ==
    LET buys == Cardinality({k \in DOMAIN sigs : sigs[k] = "buy"})
        sells == Cardinality({k \in DOMAIN sigs : sigs[k] = "sell"})
    IN  IF minAgree <= 0 THEN "hold" ELSE IF buys >= minAgree /\ buys > sells THEN "buy"
        ELSE IF sells >= minAgree /\ sells > buys THEN "sell" ELSE "hold"

\* SignalThrottle::allow, by the number of the tick
Allow(th, stock, seq) ==
    IF stock \notin DOMAIN th.last \/ seq - th.last[stock] >= Cooldown
    THEN [th EXCEPT !.last = (stock :> seq) @@ @, !.allowed = TRUE]
    ELSE [th EXCEPT !.suppressed = @ + 1, !.allowed = FALSE]

\* TrailingStop of a long position entered at the first valid price
NewTrail(entry) == [stop |-> entry - Trail, active |-> TRUE, fired |-> FALSE]
UpdateTrail(t, price) ==
    IF ~t.active THEN [t EXCEPT !.fired = FALSE]
    ELSE LET stop == Max({t.stop, price - Trail})
         IN  [stop |-> stop, active |-> price > stop, fired |-> price <= stop]

------------------------------------------------------------------------------
StratInit ==
    /\ state = [k \in Strategy |-> [windows |-> <<>>, buys |-> 0, sells |-> 0, holds |-> 0, signal |-> "hold"]]
    /\ vote = "hold" /\ ticks = <<>>
    /\ throttle = [last |-> <<>>, suppressed |-> 0, allowed |-> FALSE]
    /\ \E entry \in TickPrice \ {0} : trail = NewTrail(entry)

MarketTick(stock, price) ==
    /\ Len(ticks) < MaxTicks
    /\ ticks' = Append(ticks, <<stock, price>>)
    /\ state' = [k \in Strategy |-> OnMarketData(k, state[k], stock, price)]
    /\ vote' = CombineSignals([k \in Strategy |-> state'[k].signal], MinAgree)
    /\ throttle' = IF vote' = "hold" THEN [throttle EXCEPT !.allowed = FALSE]
                   ELSE Allow(throttle, stock, Len(ticks'))
    /\ trail' = UpdateTrail(trail, price)

StratNext == \E stock \in Stocks, price \in TickPrice : MarketTick(stock, price)
StratSpec == StratInit /\ [][StratNext]_stratVars

------------------------------------------------------------------------------
\* what the history says: the valid prices of a name, the last n of them
PricesOf(stock) ==
    LET mine == SelectSeq(ticks, LAMBDA t : t[1] = stock /\ Valid(t[2])) IN [i \in DOMAIN mine |-> mine[i][2]]
LastOf(s, n) == SubSeq(s, Max({1, Len(s) - n + 1}), Len(s))
InOrder(w) == [i \in 1..w.count |-> w.ring[((w.head - 1 - w.count + i - 1 + Window) % Window) + 1]]
Watched(stock) ==
    /\ stock \in Stocks /\ Cut[stock] = stock
    /\ \E i \in DOMAIN state["reversion"].windows : state["reversion"].windows[i].symbol = stock

(***************************************************************************)
(* Whatever the interleaving of the symbols, each window is the last       *)
(* prices of its own symbol and the running sums are their sums; so the    *)
(* signals say what the history says: reversion and momentum never agree,  *)
(* a breakout is above or below every one of the Window prices before, an  *)
(* RSI of rising prices sells.  The counters add up to the ticks, the vote *)
(* is a majority, two signals let through for a symbol are Cooldown apart, *)
(* and the trailing stop is the highest price seen less Trail, never lower *)
(* than before.                                                            *)
(***************************************************************************)
SignalsTell ==
    /\ \A k \in Strategy :
          /\ state[k].buys + state[k].sells + state[k].holds = Len(ticks)
          /\ \A i \in DOMAIN state[k].windows :
                LET w == state[k].windows[i]
                IN  /\ w.sum = Total([j \in 1..w.count |-> w.ring[j]])
                    /\ k # "rsi" /\ Watched(w.symbol) => InOrder(w) = LastOf(PricesOf(w.symbol), Window)
                    /\ k = "rsi" /\ Watched(w.symbol) => w.sum = w.prev - LastOf(PricesOf(w.symbol), w.count + 1)[1]
    /\ state["reversion"].signal = "buy" <=> state["momentum"].signal = "sell"
    /\ state["reversion"].signal = "sell" <=> state["momentum"].signal = "buy"
    /\ ticks # <<>> /\ Watched(Last(ticks)[1]) /\ Valid(Last(ticks)[2]) =>
          LET prices == PricesOf(Last(ticks)[1])
              before == LastOf(Front(prices), Window)
              price == Last(prices)
          IN  /\ state["donchian"].signal = "buy" <=> Len(before) = Window /\ \A i \in DOMAIN before : before[i] < price
              /\ state["bollinger"].signal = "sell" => \E i \in DOMAIN before : before[i] < price
              /\ Len(before) = Window /\ (\A i \in 1..Window : Append(before, price)[i] < Append(before, price)[i + 1])
                    => state["rsi"].signal = "sell"
    /\ vote = "buy" => Cardinality({k \in Strategy : state[k].signal = "buy"}) >= MinAgree
    /\ trail.fired => ~trail.active
    /\ trail.active => \A i \in DOMAIN ticks : ticks[i][2] - Trail <= trail.stop
    /\ trail.active /\ ticks # <<>> => Last(ticks)[2] > trail.stop
    /\ throttle.allowed => vote # "hold" /\ throttle.last[Last(ticks)[1]] = Len(ticks)

------------------------------------------------------------------------------
(***************************************************************************)
(* strategy/exec_algo.hpp and pov_algo.hpp: a parent order is cut into     *)
(* children, over time (TWAP), along a volume profile (VWAP) or as a share *)
(* of the market's volume (POV).  Ticks may be missed and fills may be     *)
(* late, partial or in any order; the executors see both, and nothing else.*)
(***************************************************************************)
CONSTANTS TotalQty, NumSlices, Duration,   \* of the ParentOrder; it starts at 0
          Profile,                         \* weights given to the VWAPExecutor, any sum
          Rate,                            \* POV participation, percent
          TradePrice,                      \* prices of fills and of the market's trades
          MaxTime, MaxTape                 \* bounds

VARIABLES algo,      \* the executor the parent order was given to
          twap, vwap, pov, tape,
          now,
          sent,      \* history: shares of the children given out
          late       \* history: TWAP had a tick while a child was not filled

execVars == <<algo, twap, vwap, pov, tape, now, sent, late>>

SecondsPerSlice == IF NumSlices > 0 THEN Max({1, Duration \div NumSlices}) ELSE 1
SliceSize == IF NumSlices > 0 THEN TotalQty \div NumSlices ELSE 0
SlotAt(t) == t \div SecondsPerSlice

NewStats == [filled |-> 0, cash |-> 0, fills |-> 0, emitted |-> 0, skipped |-> 0]
NewTwap == NewStats
NewVwap == [stats |-> NewStats, next |-> 0, emitted |-> 0]
NewPov == [remaining |-> TotalQty, executed |-> 0, slices |-> 0]

\* apply_fill, of either executor
ApplyFill(s, qty, price) ==
    IF qty <= 0 \/ price <= 0 THEN s
    ELSE [s EXCEPT !.filled = @ + qty, !.cash = @ + qty * price, !.fills = @ + 1]
RealizedVwap(s) == IF s.filled > 0 THEN s.cash \div s.filled ELSE 0

\* TWAPExecutor::on_tick: the shares of the child, 0 for none
TwapChild(s, t) ==
    LET slot == SlotAt(t)
        base == IF slot = NumSlices - 1 THEN TotalQty - SliceSize * (NumSlices - 1) ELSE SliceSize
    IN  IF NumSlices <= 0 \/ s.filled >= TotalQty \/ slot < s.emitted \/ slot >= NumSlices THEN 0
        ELSE Max({0, Min({base, TotalQty - s.filled})})

\* The running totals of the profile, rounded to shares; the last slot has it all.
Weight == FoldFunction(+, 0, Profile)
TargetCumulative(slot) ==
    LET upTo == FoldFunctionOnSet(+, 0, Profile, 1..Min({slot + 1, Len(Profile)}))
    IN  IF slot = NumSlices - 1 THEN TotalQty
        ELSE IF Weight = 0 THEN 0
        ELSE (2 * upTo * TotalQty + Weight) \div (2 * Weight)

\* VWAPExecutor::on_tick: whether a slot is taken, and the child
VwapTakes(v, t) == /\ NumSlices > 0 /\ v.stats.filled < TotalQty
                   /\ SlotAt(t) >= v.next /\ SlotAt(t) < NumSlices
\* Mutant of VwapChild: the slot's own share, whatever was sent.
VwapChildAlone(v, t) == TargetCumulative(SlotAt(t))
VwapChild(v, t) == Max({0, TargetCumulative(SlotAt(t)) - v.emitted})
VwapOnTick(v, t) ==
    IF ~VwapTakes(v, t) THEN v
    ELSE LET qty == VwapChild(v, t)
             taken == [v EXCEPT !.next = SlotAt(t) + 1, !.emitted = @ + qty]
         IN  IF qty = 0 THEN [taken EXCEPT !.stats.skipped = @ + 1]
             ELSE [taken EXCEPT !.stats.emitted = @ + 1]

\* POVExecutor::on_market_volume
PovChild(p, volume) == IF p.remaining <= 0 \/ volume <= 0 THEN 0
                       ELSE Min({(2 * Rate * volume + 100) \div 200, p.remaining})
OnMarketVolume(p, volume) ==
    LET child == PovChild(p, volume)
    IN  IF child = 0 THEN p
        ELSE [remaining |-> p.remaining - child, executed |-> p.executed + child, slices |-> p.slices + 1]

\* MarketVWAPTracker
OnMarketTrade(m, price, qty) == IF price <= 0 \/ qty <= 0 THEN m
                          ELSE [cash |-> m.cash + price * qty, volume |-> m.volume + qty]
VwapTicks(m) == IF m.volume > 0 THEN m.cash \div m.volume ELSE 0

\* slippage_bps, as the cost of the shares filled: positive is worse for a buy and for a sell
Slippage(side, s, bench) ==
    LET diff == (RealizedVwap(s) - bench) * 10000
    IN  IF bench <= 0 THEN <<0, 1>> ELSE <<IF side = "BUY" THEN diff ELSE -diff, bench>>

\* u_shape_profile, in percent of the day times the slots of its part
UShapeProfile(n) ==
    LET edge == Max({1, n \div 5})
        middle == Max({1, n - 2 * edge})
    IN  IF n <= 0 THEN <<>>
        ELSE [i \in 1..(2 * edge + middle) |-> IF i <= edge \/ i > edge + middle THEN <<30, edge>> ELSE <<40, middle>>]

------------------------------------------------------------------------------
ExecInit == /\ algo \in {"TWAP", "VWAP", "POV"}
            /\ twap = NewTwap /\ vwap = NewVwap /\ pov = NewPov
            /\ tape = [cash |-> 0, volume |-> 0]
            /\ now = 0 /\ sent = 0 /\ late = FALSE

TwapOnTick ==
    LET child == TwapChild(twap, now)
    IN  /\ algo = "TWAP" /\ child > 0
        /\ twap' = [twap EXCEPT !.emitted = @ + 1]
        /\ sent' = sent + child
        /\ late' = (late \/ twap.filled < sent)
        /\ UNCHANGED <<algo, vwap, pov, tape, now>>
VwapTick ==
    /\ algo = "VWAP" /\ VwapTakes(vwap, now)
    /\ vwap' = VwapOnTick(vwap, now)
    /\ sent' = sent + vwap'.emitted - vwap.emitted
    /\ UNCHANGED <<algo, twap, pov, tape, now, late>>

\* The market: time passes, children are filled, others trade.
Elapses == now < MaxTime /\ algo # "POV" /\ now' = now + 1 /\ UNCHANGED <<algo, twap, vwap, pov, tape, sent, late>>
TwapFilled == \E qty \in 1..(sent - twap.filled), price \in TradePrice :
                 /\ algo = "TWAP"
                 /\ twap' = ApplyFill(twap, qty, price)
                 /\ UNCHANGED <<algo, vwap, pov, tape, now, sent, late>>
VwapFilled == \E qty \in 1..(sent - vwap.stats.filled), price \in TradePrice :
                 /\ algo = "VWAP"
                 /\ vwap' = [vwap EXCEPT !.stats = ApplyFill(@, qty, price)]
                 /\ UNCHANGED <<algo, twap, pov, tape, now, sent, late>>
Trades == \E qty \in 1..(MaxTape - tape.volume), price \in TradePrice :
             /\ algo = "POV" \/ tape.volume = 0
             /\ tape' = OnMarketTrade(tape, price, qty)
             /\ pov' = IF algo = "POV" THEN OnMarketVolume(pov, qty) ELSE pov
             /\ UNCHANGED <<algo, twap, vwap, now, sent, late>>

ExecNext == TwapOnTick \/ VwapTick \/ Elapses \/ TwapFilled \/ VwapFilled \/ Trades
ExecSpec == ExecInit /\ [][ExecNext]_execVars

------------------------------------------------------------------------------
(***************************************************************************)
(* No executor gives out more than the parent order.  VWAP keeps to it     *)
(* whatever ticks are missed and however late fills are, has sent the      *)
(* target of the last slot it took, and everything once the last slot had  *)
(* its tick; POV splits its total into executed and remaining and takes no *)
(* more than its share, rounded, of every trade.  TWAP looks at fills: it  *)
(* keeps to the total as long as no child is open when the next goes out.  *)
(* Prices paid lie within the prices of the market, and the profile of the *)
(* day adds up to the day.                                                 *)
(***************************************************************************)
ExecWithin ==
    /\ algo = "VWAP" => sent = vwap.emitted /\ sent <= TotalQty
    /\ vwap.next > 0 => vwap.emitted = TargetCumulative(vwap.next - 1)
    /\ vwap.next = NumSlices => sent = TotalQty
    /\ vwap.stats.emitted + vwap.stats.skipped <= vwap.next
    /\ algo = "TWAP" /\ ~late => sent <= TotalQty
    /\ twap.emitted <= NumSlices
    /\ pov.executed + pov.remaining = TotalQty
    /\ 200 * pov.executed <= 2 * Rate * tape.volume + 100 * pov.slices
    /\ \A s \in {twap, vwap.stats} : s.filled > 0 =>
          /\ RealizedVwap(s) \in Min(TradePrice)..Max(TradePrice)
          /\ (s.filled <= TotalQty /\ tape.volume > 0) =>
                Slippage("BUY", s, VwapTicks(tape))[1] = -Slippage("SELL", s, VwapTicks(tape))[1]
    /\ tape.volume > 0 => VwapTicks(tape) \in Min(TradePrice)..Max(TradePrice)
    /\ \A n \in 3..12 : LET p == UShapeProfile(n)
                            unit == p[1][2] * p[n \div 2 + 1][2]
                        IN  /\ Len(p) = n
                            /\ FoldFunction(+, 0, [i \in 1..n |-> p[i][1] * (unit \div p[i][2])]) = 100 * unit

(***************************************************************************)
(* exec_algo.hpp:126 and :161: TWAP "guarantees the sum = total" and does  *)
(* "not submit more than remains of the total".                            *)
(***************************************************************************)
TwapWithin == algo = "TWAP" => sent <= TotalQty

------------------------------------------------------------------------------
(***************************************************************************)
(* backtest/backtest.hpp, a running account of closed trades, fed by the   *)
(* fills of common/fill_simulator.hpp: an order is bought at a simulated   *)
(* fill and sold at the next price, with the same simulator.               *)
(*                                                                         *)
(* The random draws of the simulator are choices; a quotient of the report *)
(* is kept as its two terms, square roots as their squares.                *)
(***************************************************************************)
CONSTANTS QuotedPrice, OrderQty,      \* an order of quantity 0 is not one
          Slippages,                  \* slippage plus impact, whole ticks
          MinPartialPct,              \* min_partial_ratio
          Tags, NoTag,
          ConfidencePct,              \* of value_at_risk
          MaxTrips                    \* bound: round trips

VARIABLES acct,     \* the Backtester's fields
          fills,    \* history: [asked, got] of every simulated fill
          closed    \* history: [pnl, tag] of every trade

testVars == <<acct, fills, closed>>

Sum(s) == FoldFunction(+, 0, s)
Larger(x, y) == Max({x, y})

(***************************************************************************)
(* FillSimulator::simulate: nothing for a request that is not one; or a    *)
(* reject; or the quantity or part of it, at a price that is worse by the  *)
(* slippage and never below a tick.                                        *)
(***************************************************************************)
NoFill == [rejected |-> FALSE, qty |-> 0, price |-> 0]
PartialQty(asked) == {Larger(1, (asked * pct) \div 100) : pct \in {MinPartialPct, (MinPartialPct + 100) \div 2, 99}}
Simulate(side, asked, quoted) ==
    IF asked <= 0 \/ quoted <= 0 THEN {NoFill}
    ELSE {[NoFill EXCEPT !.rejected = TRUE]}
         \union {[rejected |-> FALSE, qty |-> q,
                  price |-> Larger(1, IF side = "buy" THEN quoted + s ELSE quoted - s)]
                    : q \in {asked} \union PartialQty(asked), s \in Slippages}

------------------------------------------------------------------------------
NewAccount ==
    [trades |-> 0, wins |-> 0, losses |-> 0, submitted |-> 0, filled |-> 0,
     sumPnl |-> 0, sumSq |-> 0, sumSqNeg |-> 0, sumWin |-> 0, sumLoss |-> 0,
     equity |-> 0, peak |-> 0, maxDd |-> 0, largestWin |-> 0, largestLoss |-> 0,
     winStreak |-> 0, maxWinStreak |-> 0, lossStreak |-> 0, maxLossStreak |-> 0,
     byTag |-> [t \in Tags |-> 0], curve |-> <<>>]

OnOrder(a, filled) == [a EXCEPT !.submitted = @ + 1, !.filled = @ + (IF filled THEN 1 ELSE 0)]

Won(a, pnl) ==
    [a EXCEPT !.wins = @ + 1, !.sumWin = @ + pnl, !.largestWin = Larger(@, pnl),
              !.lossStreak = 0, !.winStreak = @ + 1, !.maxWinStreak = Larger(@, a.winStreak + 1)]
Lost(a, pnl) ==
    [a EXCEPT !.losses = @ + 1, !.sumLoss = @ + pnl, !.sumSqNeg = @ + pnl * pnl, !.largestLoss = Min({@, pnl}),
              !.winStreak = 0, !.lossStreak = @ + 1, !.maxLossStreak = Larger(@, a.lossStreak + 1)]

\* on_trade: a trade of 0 is a win
OnTrade(a, pnl) ==
    LET b == IF pnl >= 0 THEN Won(a, pnl) ELSE Lost(a, pnl)
        equity == a.equity + pnl
        peak == Larger(a.peak, equity)
    IN  [b EXCEPT !.trades = @ + 1, !.sumPnl = @ + pnl, !.sumSq = @ + pnl * pnl, !.equity = equity,
                  !.peak = peak, !.maxDd = Larger(@, peak - equity), !.curve = Append(@, equity)]
OnTaggedTrade(a, pnl, tag) ==
    IF tag = NoTag THEN OnTrade(a, pnl) ELSE [OnTrade(a, pnl) EXCEPT !.byTag[tag] = @ + pnl]

\* compute(); Infinite is INFINITY, and a ratio is [over, under]
Infinite == [over |-> 1, under |-> 0]
Nil == [over |-> 0, under |-> 1]
Ratio(a, b) == IF b = 0 THEN Nil ELSE [over |-> a, under |-> b]
RatioOrInfinite(a, b) == IF b > 0 THEN [over |-> a, under |-> b] ELSE IF a > 0 THEN Infinite ELSE Nil
Report(a) ==
    [avgWin |-> Ratio(a.sumWin, a.wins), avgLoss |-> Ratio(a.sumLoss, a.losses),
     hitRate |-> Ratio(a.wins, a.trades), profitFactor |-> RatioOrInfinite(a.sumWin, -a.sumLoss),
     payoff |-> IF a.losses = 0 THEN RatioOrInfinite(a.sumWin, 0)
                ELSE [over |-> a.sumWin * a.losses, under |-> -(a.sumLoss * Larger(1, a.wins))],
     kelly |-> IF a.losses = 0 THEN (IF a.wins > 0 THEN [over |-> 1, under |-> 1] ELSE Nil)
               ELSE IF a.sumWin > 0
                    THEN [over |-> a.wins * (a.sumWin + a.sumLoss), under |-> a.trades * a.sumWin]
                    ELSE Nil,
     recovery |-> RatioOrInfinite(a.sumPnl, a.maxDd), fillRate |-> Ratio(a.filled, a.submitted),
     expectancy |-> Ratio(a.sumPnl, a.trades),
     variance |-> a.trades * a.sumSq - a.sumPnl * a.sumPnl, downside |-> a.sumSqNeg]

\* The longest run of trades below the peak, and the squared drawdowns
Peaks(curve) == [i \in DOMAIN curve |-> Larger(0, Max({curve[j] : j \in 1..i}))]
MaxDrawdownDuration(a) ==
    LET peak == Peaks(a.curve)
        under(i) == i >= 1 /\ a.curve[i] < peak[i]
    IN  Max({0} \union {n \in 1..Len(a.curve) : \E i \in n..Len(a.curve) : \A j \in (i - n + 1)..i : under(j)})
UlcerSum(a) == LET peak == Peaks(a.curve) IN Sum([i \in DOMAIN a.curve |-> (peak[i] - a.curve[i]) * (peak[i] - a.curve[i])])

\* The trades read back from the curve; the quantiles of their order
TradePnls(a) == [i \in DOMAIN a.curve |-> a.curve[i] - (IF i = 1 THEN 0 ELSE a.curve[i - 1])]
QuantileValue(sorted, pct) == sorted[((pct * (Len(sorted) - 1)) \div 100) + 1]
ValueAtRisk(a) ==
    IF a.curve = <<>> THEN 0 ELSE Larger(0, -QuantileValue(SortSeq(TradePnls(a), <), 100 - ConfidencePct))
\* the mean of the k worst, as its sum and k
ConditionalValueAtRisk(a) ==
    LET k == Larger(1, ((100 - ConfidencePct) * Len(a.curve)) \div 100)
    IN  IF a.curve = <<>> THEN [sum |-> 0, k |-> 1]
        ELSE [sum |-> Larger(0, -Sum(SubSeq(SortSeq(TradePnls(a), <), 1, k))), k |-> k]

------------------------------------------------------------------------------
TestInit == acct = NewAccount /\ fills = <<>> /\ closed = <<>>

\* An order in, and the position out at another price
RoundTrip(asked, bidAt, soldAt, tag) ==
    /\ Len(fills) < 2 * MaxTrips
    /\ \E in \in Simulate("buy", asked, bidAt) :
          \/ /\ in.qty = 0
             /\ acct' = OnOrder(acct, FALSE)
             /\ fills' = Append(fills, [asked |-> asked, got |-> 0]) /\ UNCHANGED closed
          \/ \E out \in Simulate("sell", in.qty, soldAt) :
                LET pnl == (out.price - in.price) * out.qty
                    both == OnOrder(OnOrder(acct, TRUE), out.qty > 0)
                IN  /\ in.qty > 0
                    /\ acct' = IF out.qty = 0 THEN both ELSE OnTaggedTrade(both, pnl, tag)
                    /\ closed' = IF out.qty = 0 THEN closed ELSE Append(closed, [pnl |-> pnl, tag |-> tag])
                    /\ fills' = fills \o << [asked |-> asked, got |-> in.qty], [asked |-> in.qty, got |-> out.qty] >>

TestNext == \E q \in OrderQty, b, s \in QuotedPrice, t \in Tags \union {NoTag} : RoundTrip(q, b, s, t)
TestSpec == TestInit /\ [][TestNext]_testVars

\* what the list of trades says
pnls == [i \in DOMAIN closed |-> closed[i].pnl]
Runs(Is(_)) ==
    Max({0} \union {n \in 1..Len(pnls) : \E i \in n..Len(pnls) : \A j \in (i - n + 1)..i : Is(pnls[j])})

(***************************************************************************)
(* The running account is the account of the list of trades: streaks,      *)
(* extremes, the split into wins and losses and the deepest drawdown are   *)
(* those of the list, and the curve gives the trades back.  The report is  *)
(* sound with no trades, no losses and only losses: no rate is above one,  *)
(* Kelly is above zero exactly when the profit is, or nothing was lost; the *)
(* value at risk is at most the conditional one.                           *)
(***************************************************************************)
ReportExact ==
    /\ TradePnls(acct) = pnls
    /\ acct.maxWinStreak = Runs(LAMBDA x : x >= 0) /\ acct.maxLossStreak = Runs(LAMBDA x : x < 0)
    /\ acct.sumWin + acct.sumLoss = Sum(pnls) /\ acct.wins + acct.losses = Len(pnls)
    /\ acct.largestWin = Max(Range(pnls) \union {0}) /\ acct.largestLoss = Min(Range(pnls) \union {0})
    /\ acct.maxDd = Max({0} \union {Larger(0, Max({acct.curve[j] : j \in 1..i})) - acct.curve[i] : i \in DOMAIN acct.curve})
    /\ acct.maxDd = 0 <=> MaxDrawdownDuration(acct) = 0
    /\ acct.maxDd * acct.maxDd <= UlcerSum(acct)
    /\ \A t \in Tags : acct.byTag[t] = Sum([i \in DOMAIN closed |-> IF closed[i].tag = t THEN closed[i].pnl ELSE 0])
    /\ \A i \in DOMAIN fills : fills[i].got \in 0..fills[i].asked
    /\ acct.filled = Len(SelectSeq(fills, LAMBDA f : f.got > 0)) /\ acct.submitted = Len(fills)
    /\ LET r == Report(acct)
       IN  /\ r.hitRate.over <= r.hitRate.under /\ r.fillRate.over <= r.fillRate.under
           /\ r.variance >= 0 /\ r.downside <= acct.sumSq
           /\ r.kelly.over > 0 <=> IF acct.losses = 0 THEN acct.wins > 0 ELSE acct.sumPnl > 0
           /\ r.profitFactor.over > r.profitFactor.under <=> acct.sumPnl > 0
           /\ r.recovery = Infinite => acct.maxDd = 0
    /\ LET c == ConditionalValueAtRisk(acct) IN c.k * ValueAtRisk(acct) <= c.sum
==============================================================================
