-------------------------------- MODULE MCRisk --------------------------------
(***************************************************************************)
(* Risk before and after the trade: the risk manager with breakers within  *)
(* reach (part "halt", and "record" with the statistics kept), the same    *)
(* with position and exposure limits within reach (part "ledger"), and the *)
(* code that decides and accounts for trades: executors, strategies and    *)
(* the backtester.  A behaviour is one of Parts.                           *)
(***************************************************************************)
EXTENDS RiskViews

CONSTANTS Parts, NoTag

VARIABLES part,
          state, vote, throttle, trail, ticks,
          algo, twap, vwap, pov, tape, time, given, late,
          acct, fills, closed

(***************************************************************************)
(* Limits.  A zero turns a limit off, as in the code; the limits a part is *)
(* not about are out of reach.                                             *)
(***************************************************************************)
Moves == {-2, 0, 2}
Swings == {-2, 0, 3}

Loose == [position |-> 10, exposure |-> 3, loss |-> 100, rate |-> 1, value |-> 100,
          drawdown |-> 1000, band |-> 0, shares |-> 0, short |-> 0, streak |-> 0,
          turnover |-> 0, price |-> 0, notional |-> 0]

\* Asymmetric position caps, a portfolio cap, and limits on the single order.
Ledgers == [Loose EXCEPT !.position = 2, !.short = 1, !.value = 3, !.band = 50]

\* The breakers: a loss of 3, half of the peak, two losses in a row; two orders
\* per second, and a turnover that is used up by the first trade.
Breakers == [Loose EXCEPT !.loss = 3, !.drawdown = 50, !.streak = 2, !.rate = 2,
                          !.turnover = 1]

\* The breakers without the streak.
NoStreak == [Loose EXCEPT !.loss = 3, !.drawdown = 50]

Ledger == INSTANCE RiskViews WITH
    Price <- {1, 2}, Qty <- {1, 2}, PnL <- {}, Caps <- {1}, RefPrice <- {1}, Banned <- {},
    Limits <- Ledgers, RingSize <- 1, Second <- 1, MaxNow <- 0, MaxPnL <- 0, MaxOpen <- 2, MaxCrash <- 0

\* The statistics, with larger moves
Day == INSTANCE RiskViews WITH PnL <- Swings, MaxPnL <- 6

\* A name longer than eight characters is stored as the eight
Trade == INSTANCE Strategies WITH
    Stocks <- {"a", "long"}, Cut <- [s \in {"a", "long"} |-> IF s = "long" THEN "lo" ELSE s],
    TickPrice <- {0, 1, 2, 4}, MaxStocks <- 2, Window <- 2, Fast <- 1, ThresholdPct <- 10, NumStd <- 5,
    Overbought <- 70, Oversold <- 30, MinAgree <- 2, Cooldown <- 2, Trail <- 1, MaxTicks <- 5,
    TotalQty <- 5, NumSlices <- 3, Duration <- 7, Profile <- <<3, 0, 5>>, Rate <- 30, TradePrice <- {1, 3},
    MaxTime <- 7, MaxTape <- 4, QuotedPrice <- {2, 6}, OrderQty <- {0, 2}, Slippages <- {1},
    MinPartialPct <- 50, Tags <- {"t"}, ConfidencePct <- 95, MaxTrips <- 3,
    now <- time, sent <- given

exec == <<algo, twap, vwap, pov, tape, time, given, late>>
signals == <<state, vote, throttle, trail, ticks>>
testing == <<acct, fills, closed>>
mcVars == <<part, riskVars, exec, signals, testing>>

MCInit ==
    /\ part \in Parts
    /\ RiskInit /\ Trade!StratInit /\ Trade!ExecInit /\ Trade!TestInit
    /\ part # "exec" => algo = "TWAP"
    /\ part # "strategies" => trail = Trade!NewTrail(1)

\* The breakers are tried with orders of the first symbol.
FirstOnly == order' # NoOrder => order'.symbol = 1
\* Only the first symbol gets a limit of its own and a reference price.
FirstSetUp == cap'[2] = 0 /\ ref'[2] = 0

MCNext ==
    \/ /\ UNCHANGED <<part, exec, signals, testing>>
       /\ \/ part = "halt" /\ Next /\ FirstOnly /\ UNCHANGED <<record, checked, history>>
          \/ part = "record" /\ Day!RiskNext /\ FirstOnly
          \/ part = "ledger" /\ Ledger!Next /\ FirstSetUp /\ UNCHANGED <<record, checked, history>>
    \/ part = "exec" /\ Trade!ExecNext /\ UNCHANGED <<part, riskVars, signals, testing>>
    \/ part = "strategies" /\ Trade!StratNext /\ UNCHANGED <<part, riskVars, exec, testing>>
    \/ part = "backtest" /\ Trade!TestNext /\ UNCHANGED <<part, riskVars, exec, signals>>

MCSpec == MCInit /\ [][MCNext]_mcVars

------------------------------------------------------------------------------


\* on_tick of the TWAPExecutor never has more shares out than the parent order.
TwapWithin == Trade!TwapWithin
==============================================================================
