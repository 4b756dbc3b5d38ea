--------------------------- MODULE TradingPipeline ---------------------------
(***************************************************************************)
(* simulator/market_sim.hpp, run_pipeline with risk checks: the loop that  *)
(* takes market messages through strategy, router or market maker, the     *)
(* risk manager, the OMS and the matching book, and settles fills at once  *)
(* or some iterations later.  A step is one call to a component, so the    *)
(* state between two calls of one iteration is visible.                    *)
(*                                                                         *)
(* Prices are in ticks and a dollar is a tick.  The rate limiter, which    *)
(* the simulator relaxes, is out of reach.                                 *)
(***************************************************************************)
EXTENDS Integers, Sequences, Totals

CONSTANTS NSymbols, Price, Qty, Limits, NoFile, NoOrder, MaxPnL, MaxOpen,
          MaxPosition, MaxOrderValue,   \* of the OMS
          QuoteSize, HalfSpread, MaxInventory, SkewShares,
          Spread,                       \* of the quotes given to the router
          LevelLiq, MaxLadder,          \* BookMatchEngine: level_liq_, MAX_LADDER
          Modes,                        \* fill_latency_iters, use_strategy, use_router, use_book, use_mm
          Messages                      \* bound: msg_idx

VARIABLES positions, pending, exposure, pnl, peak, losses, turnover, kill, reason, restricted,
          cap, ref, ring, answer, order, file, now, crashes, open, day, tripped, sent,
          orders, pos,
          makers,         \* per symbol
          i,              \* the iteration
          pc,             \* the call that comes next
          msg,            \* the order this iteration wants
          fills,          \* pending_fills
          fill,           \* the fill do_fill settles
          gain,           \* what it realized
          mode            \* the options of this run

Risk == INSTANCE RiskManager WITH PnL <- {}, Caps <- {}, RefPrice <- {}, Banned <- {},
            RingSize <- 1, Second <- 1, MaxNow <- 0, MaxCrash <- 0
Oms == INSTANCE OMS WITH Symbols <- 1..NSymbols, FillPrice <- {}, Expiry <- {0}, Scale <- 1,
            HalfWord <- 1000, MaxOrders <- Messages

(***************************************************************************)
(* strategy/market_maker.hpp: a two-sided quoter with inventory skew.  The *)
(* state of a maker is [position, cash]; prices are in ticks.  The counts  *)
(* of quotes and of adverse moves, which no decision reads, are left out.  *)
(***************************************************************************)
NewMaker == [position |-> 0, cash |-> 0]

NoQuote == [bid |-> 0, ask |-> 0, bidSize |-> 0, askSize |-> 0]

\* -position * risk_aversion_ticks, cut towards zero
Skew(m) == IF m.position >= 0 THEN -(m.position \div SkewShares)
           ELSE (-m.position) \div SkewShares

\* Mutant of Quote: the bid is not disabled at the long limit.
QuoteUnlimited(m, bestBid, bestAsk) ==
    LET mid == (bestBid + bestAsk) \div 2
    IN  IF bestBid <= 0 \/ bestAsk <= bestBid THEN NoQuote
        ELSE [bid |-> mid - HalfSpread + Skew(m), bidSize |-> QuoteSize,
              ask |-> mid + HalfSpread + Skew(m), askSize |-> QuoteSize]

\* quote: a side is disabled at its inventory limit
Quote(m, bestBid, bestAsk) ==
    LET mid == (bestBid + bestAsk) \div 2
        buys == m.position < MaxInventory
        sells == m.position > -MaxInventory
    IN  IF bestBid <= 0 \/ bestAsk <= bestBid THEN NoQuote
        ELSE [bid |-> IF buys THEN mid - HalfSpread + Skew(m) ELSE 0,
              bidSize |-> IF buys THEN QuoteSize ELSE 0,
              ask |-> IF sells THEN mid + HalfSpread + Skew(m) ELSE 0,
              askSize |-> IF sells THEN QuoteSize ELSE 0]

\* apply_fill
Traded(m, side, qty, price) ==
    LET signed == IF side = "BUY" THEN qty ELSE -qty
    IN  IF qty <= 0 THEN m
        ELSE [position |-> m.position + signed, cash |-> m.cash - signed * price]

Symbol == 1..NSymbols
Side == {"BUY", "SELL"}

risk == <<positions, pending, exposure, pnl, peak, losses, turnover, kill, reason, restricted,
          cap, ref, ring, answer, order, file, now, crashes, open, day, tripped, sent>>
oms == <<orders, pos>>
loop == <<i, pc, msg, fills, fill, gain>>
vars == <<risk, oms, makers, loop, mode>>

NoFill == [id |-> 0, shares |-> 0, price |-> 0, due |-> 0]
NoMsg == [symbol |-> 0, side |-> "BUY", price |-> 0, qty |-> 0]

Init == /\ Risk!Init /\ Oms!Init
        /\ makers = [s \in Symbol |-> NewMaker]
        /\ i = 1 /\ pc = "drain" /\ msg = NoMsg /\ fills = <<>> /\ fill = NoFill /\ gain = 0
        /\ mode \in Modes

------------------------------------------------------------------------------
(***************************************************************************)
(* The start of an iteration, and the final drain                          *)
(***************************************************************************)
\* A fill whose deadline has passed; after the last message every fill.
Due == fills # <<>> /\ (Head(fills).due <= i \/ i > Messages)

Drain == /\ pc = "drain" /\ Due
         /\ fill' = Head(fills) /\ fills' = Tail(fills)
         /\ pc' = "settle"
         /\ UNCHANGED <<risk, oms, makers, i, msg, gain, mode>>

\* A message that is not tradable.
Skip == /\ pc = "drain" /\ ~Due /\ i <= Messages
        /\ i' = i + 1
        /\ UNCHANGED <<risk, oms, makers, pc, msg, fills, fill, gain, mode>>

\* The strategy has no signal for the message's price.
NoSignal(s, price) ==
    /\ pc = "drain" /\ ~Due /\ i <= Messages /\ ~mode.mm /\ mode.strategy
    /\ Risk!UpdateReferencePrice(s, price)
    /\ i' = i + 1
    /\ UNCHANGED <<oms, makers, pc, msg, fills, fill, gain, mode>>

\* What the strategy or the message asks for, at the price or at the router's quote.
Wanted(s, side, price, qty) ==
    [symbol |-> s, side |-> side, qty |-> qty,
     price |-> IF ~mode.router THEN price ELSE IF side = "BUY" THEN price + Spread ELSE price - Spread]

Flow(s, side, price, qty) ==
    /\ pc = "drain" /\ ~Due /\ i <= Messages /\ ~mode.mm
    /\ Risk!UpdateReferencePrice(s, price)
    /\ msg' = Wanted(s, side, price, qty)
    /\ pc' = "check"
    /\ UNCHANGED <<oms, makers, i, fills, fill, gain, mode>>

\* The quote that an aggressor of the given side hits.
Hit(s, aggressor, price) ==
    LET q == Quote(makers[s], price - 1, price + 1)
    IN  IF aggressor = "BUY" THEN [symbol |-> s, side |-> "SELL", qty |-> q.askSize, price |-> q.ask]
        ELSE [symbol |-> s, side |-> "BUY", qty |-> q.bidSize, price |-> q.bid]

Aggress(s, aggressor, price) ==
    LET m == Hit(s, aggressor, price)
    IN  /\ pc = "drain" /\ ~Due /\ i <= Messages /\ mode.mm
        /\ Risk!UpdateReferencePrice(s, price)
        /\ IF m.qty > 0 /\ m.price > 0 THEN msg' = m /\ pc' = "check" /\ UNCHANGED i
           ELSE i' = i + 1 /\ UNCHANGED <<msg, pc>>
        /\ UNCHANGED <<oms, makers, fills, fill, gain, mode>>

\* Mutant of Finish: there is no final drain.
FinishEarly == /\ pc = "drain" /\ i > Messages
               /\ pc' = "done"
               /\ UNCHANGED <<risk, oms, makers, i, msg, fills, fill, gain, mode>>

\* The end of the stream.
Finish == /\ pc = "drain" /\ fills = <<>> /\ i > Messages
          /\ pc' = "done"
          /\ UNCHANGED <<risk, oms, makers, i, msg, fills, fill, gain, mode>>

------------------------------------------------------------------------------
(***************************************************************************)
(* Risk check, submission and matching                                     *)
(***************************************************************************)
NextMessage == pc' = "drain" /\ i' = i + 1 /\ msg' = NoMsg

Check ==
    /\ pc = "check"
    /\ \/ Risk!CheckRejected(msg.symbol, msg.side, msg.price, msg.qty)
       \/ Risk!CheckTrips(msg.symbol, msg.side, msg.price, msg.qty)
       \/ Risk!CheckRate(msg.symbol, msg.side, msg.price, msg.qty)
    /\ IF answer' = "ALLOW" THEN pc' = "submit" /\ UNCHANGED <<i, msg>> ELSE NextMessage
    /\ UNCHANGED <<oms, makers, fills, fill, gain, mode>>

Submit ==
    /\ pc = "submit"
    /\ \/ /\ Oms!SubmitReject(msg.symbol, msg.side, msg.price, msg.qty)
          /\ Risk!Refused
          /\ NextMessage
       \/ /\ Oms!Submit(msg.symbol, msg.side, msg.price, msg.qty, 0)
          /\ pc' = "sent"
          /\ UNCHANGED <<risk, i, msg>>
    /\ UNCHANGED <<makers, fills, fill, gain, mode>>

Least(a, b) == IF a < b THEN a ELSE b

\* BookMatchEngine::match: the depth of the ladder of counter-orders
Levels(qty) == Least(MaxLadder, qty \div LevelLiq + 2)
Matched(qty) == Least(qty, Levels(qty) * LevelLiq)

\* Shares taken k levels away from the touch, and their distance summed.
TakenAt(qty, k) == LET left == Matched(qty) - k * LevelLiq
                   IN  IF left < 0 THEN 0 ELSE Least(left, LevelLiq)
Slipped(qty) == Total([k \in 1..Levels(qty) |-> (k - 1) * TakenAt(qty, k - 1)], Levels(qty))

\* The average price of the match; to_fixed rounds it.
Vwap(side, price, qty) ==
    LET n == Matched(qty)
        signed == IF side = "BUY" THEN Slipped(qty) ELSE -Slipped(qty)
    IN  (2 * (price * n + signed) + n) \div (2 * n)

\* What the order just submitted is filled with, and when.
Execution ==
    LET whole == mode.mm \/ ~mode.book
    IN  [id |-> Len(orders),
         shares |-> IF whole THEN msg.qty ELSE Matched(msg.qty),
         price |-> IF whole THEN msg.price ELSE Vwap(msg.side, msg.price, msg.qty),
         due |-> i + mode.latency]

\* on_order_sent, the market maker's own book, and the fill, now or deferred
Sent ==
    /\ pc = "sent"
    /\ Risk!OnOrderSent
    /\ makers' = IF mode.mm THEN [makers EXCEPT ![msg.symbol] =
                               Traded(@, msg.side, msg.qty, msg.price)]
                 ELSE makers
    /\ IF mode.latency > 0 /\ ~mode.mm
       THEN fills' = Append(fills, Execution) /\ NextMessage /\ UNCHANGED fill
       ELSE fill' = Execution /\ pc' = "settle" /\ i' = i + 1 /\ msg' = NoMsg /\ UNCHANGED fills
    /\ UNCHANGED <<oms, gain, mode>>

------------------------------------------------------------------------------
(***************************************************************************)
(* do_fill                                                                 *)
(***************************************************************************)
Settle ==
    LET applied == IF Oms!Working(fill.id) THEN Oms!Applied(orders[fill.id], fill.shares) ELSE 0
        s == orders[fill.id].symbol
    IN  /\ pc = "settle"
        /\ IF applied > 0
           THEN /\ Oms!Fill(fill.id, fill.shares, fill.price)
                /\ fill' = [fill EXCEPT !.shares = applied]
                /\ gain' = pos'[s].realized - pos[s].realized
                /\ pc' = "position"
           ELSE /\ Oms!FillIgnored(fill.id, fill.shares)
                /\ fill' = NoFill /\ pc' = "drain" /\ UNCHANGED gain
        /\ UNCHANGED <<risk, makers, i, msg, fills, mode>>

\* risk.update_position
ReportPosition ==
    /\ pc = "position"
    /\ Risk!UpdatePosition(orders[fill.id].symbol, orders[fill.id].side, fill.shares)
    /\ fill' = NoFill
    /\ pc' = IF gain = 0 THEN "drain" ELSE "pnl"
    /\ UNCHANGED <<oms, makers, i, msg, fills, gain, mode>>

\* Mutant of ReportPnL: a profit is not reported.
ReportLoss ==
    /\ pc = "pnl"
    /\ IF gain < 0 THEN Risk!UpdatePnL(gain) ELSE UNCHANGED risk
    /\ gain' = 0 /\ pc' = "drain"
    /\ UNCHANGED <<oms, makers, i, msg, fills, fill, mode>>

\* risk.update_pnl
ReportPnL ==
    /\ pc = "pnl"
    /\ Risk!UpdatePnL(gain)
    /\ gain' = 0 /\ pc' = "drain"
    /\ UNCHANGED <<oms, makers, i, msg, fills, fill, mode>>

Done == pc = "done" /\ UNCHANGED vars

Next ==
    \/ Drain \/ Skip \/ Finish \/ Check \/ Submit \/ Sent
    \/ \E s \in Symbol, side \in Side, price \in Price :
          \/ \E qty \in Qty : Flow(s, side, price, qty)
          \/ Aggress(s, side, price)
    \/ \E s \in Symbol, price \in Price : NoSignal(s, price)
    \/ Settle \/ ReportPosition \/ ReportPnL \/ Done

Spec == Init /\ [][Next]_vars

------------------------------------------------------------------------------
\* The types of the loop's own state.
Order == [symbol : Symbol \cup {0}, side : Side, price : Int, qty : Nat]
Fills == [id : 0..Messages, shares : Nat, price : Int, due : Nat]
TypeOK ==
    /\ i \in 1..(Messages + 1)
    /\ pc \in {"drain", "check", "submit", "sent", "settle", "position", "pnl", "done"}
    /\ msg \in Order /\ fills \in Seq(Fills) /\ fill \in Fills /\ gain \in Int
    /\ makers \in [Symbol -> [position : Int, cash : Int]]

(***************************************************************************)
(* The risk manager and the OMS keep the same books, each from its own     *)
(* calls: between two messages and between two fills the positions, the    *)
(* quantities in flight and the realized P&L of both agree, whatever       *)
(* refusals, partial matches and deferred fills came before.               *)
(***************************************************************************)
Realized == Total([s \in Symbol |-> pos[s].realized], NSymbols)
BooksAgree ==
    pc \in {"drain", "check", "done"} =>
        /\ \A s \in Symbol : positions[s] = pos[s].net /\ pending[s] = pos[s].pending
        /\ pnl = Realized

(***************************************************************************)
(* "nothing reaches the OMS without a positive check_order()": the OMS     *)
(* takes no order while the kill switch is on, nor after its own books     *)
(* show a loss beyond max_daily_loss, although fills still in flight go on *)
(* moving the P&L.                                                         *)
(***************************************************************************)
NoOrderInLoss ==
    [][Len(orders') > Len(orders) => ~kill /\ Realized >= -Limits.loss]_vars

(***************************************************************************)
(* Without cancels the limits hold at every moment, between the calls of   *)
(* an iteration too: the shares committed per symbol stay within the OMS's *)
(* and the risk manager's caps and the portfolio within its cap.           *)
(***************************************************************************)
LimitsHold ==
    /\ \A s \in Symbol : /\ Oms!Abs(Oms!Committed(s)) <= MaxPosition
                         /\ Oms!Committed(s) <= Limits.position
                         /\ -Oms!Committed(s) <= Risk!ShortCap(s)
    /\ exposure <= Limits.exposure

(***************************************************************************)
(* A deferred fill is neither lost nor cut: until it is settled its order  *)
(* works and has as much open, and when the stream has ended everything    *)
(* matched has been settled; without the book that is every order.         *)
(***************************************************************************)
FillsSettle ==
    /\ \A k \in DOMAIN fills :
          Oms!Working(fills[k].id) /\ fills[k].shares <= Oms!Remaining(orders[fills[k].id])
    /\ pc = "done" => /\ fills = <<>>
                      /\ \A n \in DOMAIN orders :
                            orders[n].filled = IF mode.book THEN Matched(orders[n].quantity)
                                               ELSE orders[n].quantity

(***************************************************************************)
(* A market maker's own books are those of the OMS: position and cash flow *)
(* agree between two messages; max_inventory is exceeded by less than one  *)
(* quote.                                                                  *)
(***************************************************************************)
MakerAgrees ==
    mode.mm => \A s \in Symbol :
            /\ pc = "drain" => /\ makers[s].position = pos[s].net
                               /\ makers[s].cash = Oms!Cash(s)
            /\ Oms!Abs(makers[s].position) < MaxInventory + QuoteSize
==============================================================================
