-------------------------------- MODULE MCDesk --------------------------------
(***************************************************************************)
(* The OMS: a desk with its counters and reports, two orders with more     *)
(* prices, quantities and expiries (part "orders"), and the simulator's    *)
(* loop that trades through it (part "trading").  Ten ticks make a dollar  *)
(* for the OMS; 5 ticks is below a dollar, 25 is two dollars and a half.   *)
(* A behaviour is one of the three.                                        *)
(***************************************************************************)
EXTENDS OMSDesk, TLC

CONSTANTS NoFile, NoOrder

VARIABLES part,
          positions, pending, exposure, pnl, peak, losses, turnover, kill, reason, restricted,
          cap, ref, ring, answer, order, file, now, crashes, open, day, tripped, sent,
          book, held, makers, iteration, pc, msg, fills, fill, gain, mode

Symmetric == Permutations(Symbols)

Desk == INSTANCE OMSDesk WITH
    Price <- {0, 10}, FillPrice <- {10, 12}, Qty <- {1, 2}, Expiry <- {0}, MaxPosition <- 1, MaxOrderValue <- 2

\* A loss of 1 trips the breaker at the next order, two losses in a row at once.
Tight == [position |-> 5, exposure |-> 6, loss |-> 1, rate |-> 1, value |-> 12,
          drawdown |-> 1000, band |-> 60, shares |-> 0, short |-> 3, streak |-> 2,
          turnover |-> 0, price |-> 0, notional |-> 0]
\* Fills at once or two messages later, with and without the options that change
\* price and quantity.
Plain == [latency |-> 0, strategy |-> FALSE, router |-> FALSE, book |-> FALSE, mm |-> FALSE]
Options == {[Plain EXCEPT !.book = TRUE, !.router = TRUE, !.strategy = TRUE],
            [Plain EXCEPT !.latency = 2, !.book = TRUE, !.router = TRUE],
            [Plain EXCEPT !.mm = TRUE]}
Trading == INSTANCE TradingPipeline WITH
    NSymbols <- 2, Price <- {2, 4}, Qty <- {2, 3}, Limits <- Tight, MaxPnL <- 100, MaxOpen <- 100,
    MaxPosition <- 4, MaxOrderValue <- 12, QuoteSize <- 2, HalfSpread <- 1, MaxInventory <- 1,
    SkewShares <- 2, Spread <- 1, LevelLiq <- 1, MaxLadder <- 2, Modes <- Options, Messages <- 4,
    orders <- book, pos <- held, i <- iteration

counters == <<tally, at, fees, trips, commission, clock, before, asides>>
risk == <<positions, pending, exposure, pnl, peak, losses, turnover, kill, reason, restricted,
          cap, ref, ring, answer, order, file, now, crashes, open, day, tripped, sent>>
loop == <<book, held, makers, iteration, pc, msg, fills, fill, gain, mode>>
mcVars == <<part, deskVars, risk, loop>>

MCInit == /\ part \in {"desk", "orders", "trading"}
          /\ DeskInit /\ Trading!Init
          /\ part # "trading" => mode = [Plain EXCEPT !.mm = TRUE]

MCNext ==
    \/ part = "desk" /\ Desk!DeskNext /\ UNCHANGED <<part, risk, loop>>
    \/ part = "orders" /\ Next /\ UNCHANGED <<part, counters, risk, loop>>
    \/ part = "trading" /\ Trading!Next /\ UNCHANGED <<part, deskVars>>

MCSpec == MCInit /\ [][MCNext]_mcVars

------------------------------------------------------------------------------
(***************************************************************************)
(* The counters and the reports of the desk, kept by increments or read    *)
(* by scans, agree with the orders and positions (oms.hpp, 524-1425).      *)
(***************************************************************************)
DeskReports == part = "desk" => Desk!DeskAgrees /\ Desk!ReportsAgree

(***************************************************************************)
(* The simulator's loop keeps one set of books: risk manager, OMS and      *)
(* market makers agree between messages, limits hold between the calls of  *)
(* an iteration, a deferred fill is neither lost nor cut, and when the     *)
(* stream has ended all of them are settled (run_pipeline).                *)
(***************************************************************************)
TradingSound ==
    part = "trading" => /\ Trading!BooksAgree /\ Trading!LimitsHold
                        /\ Trading!FillsSettle /\ Trading!MakerAgrees

(***************************************************************************)
(* "nothing reaches the OMS without a positive check_order()": no order is *)
(* taken while the kill switch is on or the books show a loss beyond       *)
(* max_daily_loss (run_pipeline).                                          *)
(***************************************************************************)
NoOrderInLoss == Trading!NoOrderInLoss
==============================================================================
