----------------------------- MODULE RiskManager -----------------------------
(***************************************************************************)
(* risk/risk_manager.hpp: the pre-trade gate.  One thread calls it: an     *)
(* order that check_order allowed goes to the OMS and is reported with     *)
(* on_order_sent before the next call, or the OMS refuses it.              *)
(*                                                                         *)
(* Money is in whole dollars and a percentage limit is an integer, so the  *)
(* comparisons of the code are made without its divisions.  Left out: the  *)
(* statistics of update_pnl and check_order, which no check reads.         *)
(***************************************************************************)
EXTENDS Integers, Sequences, FiniteSets, Totals

CONSTANTS NSymbols,         \* symbols are numbered
          Price, Qty, PnL,  \* the prices, quantities and P&L changes that occur
          Caps,             \* limits given to set_symbol_position_limit
          RefPrice,         \* prices given to update_reference_price
          Banned,           \* symbols given to restrict_symbol
          Limits,           \* struct RiskLimits
          RingSize,         \* of the TimestampRing
          Second,           \* 1 s, in ticks of the clock
          NoFile, NoOrder,
          MaxNow,           \* bound: the clock
          MaxPnL,           \* bound: |P&L| of the day
          MaxOpen,          \* bound: shares open per symbol and side, and position
          MaxCrash          \* bound: crashes

Symbol == 1..NSymbols
Side == {"BUY", "SELL"}

ASSUME RiskAssumption ==
    /\ NSymbols \in Nat
    /\ Price \subseteq Nat \ {0} /\ Qty \subseteq Nat \ {0} /\ PnL \subseteq Int
    /\ Caps \subseteq Int /\ RefPrice \subseteq Nat \ {0} /\ Banned \subseteq Symbol
    /\ Limits \in [position : Int, exposure : Int, loss : Nat, rate : Nat, value : Nat,
                   drawdown : Nat, band : Nat, shares : Nat, short : Nat, streak : Nat,
                   turnover : Nat, price : Nat, notional : Nat]
    /\ RingSize \in Nat \ {0} /\ Second \in Nat \ {0}
    /\ NoFile \notin [active : BOOLEAN, pnl : Int]
    /\ MaxNow \in Nat /\ MaxPnL \in Nat /\ MaxOpen \in Nat /\ MaxCrash \in Nat

VARIABLES positions, pending, exposure,  \* positions_, pending_, total_abs_exposure_
          pnl, peak, losses, turnover,   \* daily_pnl_, peak_pnl_, consec_losses_, traded_notional_
          kill, reason,                  \* kill_switch_active_, kill_reason_
          restricted, cap, ref,          \* restricted_, symbol_pos_limit_, ref_price_ (0: none)
          ring,                          \* rate_ring_, oldest first
          answer, order,                 \* what check_order returned, and for which order
          file,                          \* what persist_path_ holds
          now, crashes,
          open,                          \* shares the exchange still works, per symbol and side
          day,                           \* P&L of the day, whatever restarts
          tripped,                       \* a halt was declared and not lifted
          sent                           \* times of the latest orders allowed

book == <<positions, pending, exposure>>
money == <<pnl, peak, losses, turnover>>
halt == <<kill, reason, file, tripped>>
setup == <<restricted, cap, ref>>
rate == <<ring, sent>>
call == <<answer, order>>
clock == <<now, crashes>>
vars == <<book, money, halt, setup, rate, call, day, clock, open>>

Abs(n) == IF n < 0 THEN -n ELSE n
Zero == [s \in Symbol |-> 0]
NoneOpen == [s \in Symbol |-> [side \in Side |-> 0]]

\* signed_qty
Signed(side, q) == IF side = "BUY" THEN q ELSE -q

Init ==
    /\ positions = Zero /\ pending = Zero /\ exposure = 0
    /\ pnl = 0 /\ peak = 0 /\ losses = 0 /\ turnover = 0
    /\ kill = FALSE /\ reason = "NONE" /\ file = NoFile /\ tripped = FALSE
    /\ restricted = {} /\ cap = Zero /\ ref = Zero
    /\ ring = <<>> /\ sent = <<>>
    /\ answer = "NONE" /\ order = NoOrder
    /\ day = 0
    /\ now = 0 /\ crashes = 0
    /\ open = NoneOpen

\* No order is between check_order and on_order_sent.
Idle == order = NoOrder

------------------------------------------------------------------------------
(***************************************************************************)
(* The kill switch and its file.  persist_state replaces the file by a     *)
(* rename, so a crash leaves the old or the new one.                       *)
(***************************************************************************)
\* What persist_state writes.
Saved(active, p) == [active |-> active, pnl |-> p]

\* Mutant of Latch: the switch is not written to the file.
LatchUnsaved(why, p) == kill' = TRUE /\ reason' = why /\ file' = file /\ tripped' = TRUE

\* latch_kill_switch
Latch(why, p) ==
    kill' = TRUE /\ reason' = why /\ file' = Saved(TRUE, p) /\ tripped' = TRUE

ActivateKillSwitch ==
    /\ Latch("MANUAL", pnl)
    /\ UNCHANGED <<book, money, setup, rate, call, day, clock, open>>

DeactivateKillSwitch ==
    /\ Idle
    /\ kill' = FALSE /\ reason' = "NONE" /\ file' = Saved(FALSE, pnl) /\ tripped' = FALSE
    /\ UNCHANGED <<book, money, setup, rate, call, day, clock, open>>

------------------------------------------------------------------------------
(***************************************************************************)
(* check_order                                                             *)
(***************************************************************************)
Exposed(s) == positions[s] + pending[s]

LongCap(s) == IF cap[s] > 0 THEN cap[s] ELSE Limits.position
ShortCap(s) == IF Limits.short > 0 THEN Limits.short ELSE LongCap(s)

\* 1b to 2c
OrderOK(s, price, qty) ==
    /\ s \notin restricted
    /\ price * qty <= Limits.value
    /\ Limits.shares > 0 => qty <= Limits.shares
    /\ Limits.price > 0 => price >= Limits.price
    /\ Limits.band > 0 /\ ref[s] > 0 => Abs(price - ref[s]) * 100 <= Limits.band * ref[s]
    /\ Limits.turnover > 0 => turnover < Limits.turnover

\* 3, with the asymmetric caps
PositionOK(s, side, qty) ==
    LET projected == Exposed(s) + Signed(side, qty)
    IN  IF projected >= 0 THEN projected <= LongCap(s) ELSE -projected <= ShortCap(s)

NotionalOK(s, side, price, qty) ==
    Limits.notional > 0 => Abs(Exposed(s) + Signed(side, qty)) * price <= Limits.notional

\* Mutant of ExposureOK: what the symbol contributes already is counted twice.
ExposureOKNew(s, side, qty) == Abs(Exposed(s) + Signed(side, qty)) <= Limits.exposure

\* 4, from the running total
ExposureOK(s, side, qty) ==
    exposure - Abs(Exposed(s)) + Abs(Exposed(s) + Signed(side, qty)) <= Limits.exposure

\* Mutant of HeadroomShares: the short cap is measured from flat.
HeadroomFlat(s, side) ==
    LET room == IF side = "BUY" THEN LongCap(s) - Exposed(s) ELSE ShortCap(s)
    IN  IF LongCap(s) > 0 /\ room > 0 THEN room ELSE 0

\* headroom_shares
HeadroomShares(s, side) ==
    LET room == IF side = "BUY" THEN LongCap(s) - Exposed(s) ELSE ShortCap(s) + Exposed(s)
    IN  IF LongCap(s) > 0 /\ room > 0 THEN room ELSE 0

WithinLimits(s, side, price, qty) ==
    /\ OrderOK(s, price, qty)
    /\ PositionOK(s, side, qty)
    /\ NotionalOK(s, side, price, qty)
    /\ ExposureOK(s, side, qty)

\* Mutant of LossBreach: the sign of the loss is lost.
LossBreachUnsigned == Abs(pnl) < -Limits.loss

\* 5 and 6
LossBreach == pnl < -Limits.loss
DrawdownBreach == peak > 0 /\ (peak - pnl) * 100 > Limits.drawdown * peak

Reject == answer' = "REJECT" /\ order' = NoOrder

CheckRejected(s, side, price, qty) ==
    /\ Idle
    /\ kill \/ ~WithinLimits(s, side, price, qty)
    /\ Reject
    /\ UNCHANGED <<book, money, halt, setup, rate, day, clock, open>>

CheckTrips(s, side, price, qty) ==
    /\ Idle
    /\ ~kill /\ WithinLimits(s, side, price, qty)
    /\ LossBreach \/ DrawdownBreach
    /\ Latch(IF LossBreach THEN "CIRCUIT_BREAKER" ELSE "DRAWDOWN", pnl)
    /\ Reject
    /\ UNCHANGED <<book, money, setup, rate, day, clock, open>>

\* TimestampRing::evict: drop what is a second old
Evicted == LET old == {i \in DOMAIN ring : \A j \in 1..i : ring[j] <= now - Second}
               n == IF old = {} THEN 0 ELSE CHOOSE i \in old : \A j \in old : j <= i
           IN  SubSeq(ring, n + 1, Len(ring))

\* TimestampRing::push: the ring holds one less than its size, the oldest goes
Pushed(r) == LET t == Append(r, now) IN IF Len(t) = RingSize THEN Tail(t) ELSE t

\* One more than the rate limit allows in a second is enough to remember.
Latest(times) == IF Len(times) > Limits.rate + 1 THEN Tail(times) ELSE times

\* Mutant of RateFull: the limit is off by one.
RateFullLate == Len(Evicted) > Limits.rate

\* 7, check_rate_limit
RateFull == Len(Evicted) >= Limits.rate

CheckRate(s, side, price, qty) ==
    /\ Idle
    /\ ~kill /\ WithinLimits(s, side, price, qty) /\ ~LossBreach /\ ~DrawdownBreach
    /\ \/ /\ RateFull
          /\ ring' = Evicted
          /\ Reject
          /\ UNCHANGED sent
       \/ /\ ~RateFull
          /\ ring' = Pushed(Evicted)
          /\ sent' = Latest(Append(sent, now))
          /\ answer' = "ALLOW"
          /\ order' = [symbol |-> s, side |-> side, qty |-> qty]
    /\ UNCHANGED <<book, money, halt, setup, day, clock, open>>

------------------------------------------------------------------------------
(***************************************************************************)
(* The life of an order that was allowed                                   *)
(***************************************************************************)
\* adjust_pending
AdjustPending(s, delta) ==
    /\ pending' = [pending EXCEPT ![s] = @ + delta]
    /\ exposure' = exposure + Abs(Exposed(s) + delta) - Abs(Exposed(s))
    /\ UNCHANGED positions

OnOrderSent ==
    /\ ~Idle
    /\ open[order.symbol][order.side] + order.qty <= MaxOpen
    /\ AdjustPending(order.symbol, Signed(order.side, order.qty))
    /\ open' = [open EXCEPT ![order.symbol][order.side] = @ + order.qty]
    /\ order' = NoOrder
    /\ UNCHANGED <<money, halt, setup, rate, answer, day, clock>>

\* The OMS refuses the order: nothing is reported.
Refused ==
    /\ ~Idle
    /\ order' = NoOrder
    /\ UNCHANGED <<book, money, halt, setup, rate, answer, day, clock, open>>

OnOrderCancelled(s, side, remaining) ==
    /\ Idle
    /\ open[s][side] >= remaining
    /\ AdjustPending(s, -Signed(side, remaining))
    /\ open' = [open EXCEPT ![s][side] = @ - remaining]
    /\ UNCHANGED <<money, halt, setup, rate, call, day, clock>>

\* Mutant of UpdatePosition: a fill is added to the position and not taken from pending.
UpdatePositionOnly(s, side, qty) ==
    /\ Idle
    /\ open[s][side] >= qty /\ Abs(positions[s] + Signed(side, qty)) <= MaxOpen
    /\ positions' = [positions EXCEPT ![s] = @ + Signed(side, qty)]
    /\ open' = [open EXCEPT ![s][side] = @ - qty]
    /\ UNCHANGED <<pending, exposure, money, halt, setup, rate, call, day, clock>>

UpdatePosition(s, side, qty) ==
    /\ Idle
    /\ open[s][side] >= qty /\ Abs(positions[s] + Signed(side, qty)) <= MaxOpen
    /\ positions' = [positions EXCEPT ![s] = @ + Signed(side, qty)]
    /\ pending' = [pending EXCEPT ![s] = @ - Signed(side, qty)]
    /\ open' = [open EXCEPT ![s][side] = @ - qty]
    /\ UNCHANGED <<exposure, money, halt, setup, rate, call, day, clock>>

\* The streak of losses after change; a flat update keeps it.
Streak(change) == IF change < 0 THEN losses + 1 ELSE IF change > 0 THEN 0 ELSE losses

UpdatePnL(change) ==
    /\ Idle
    /\ Abs(day + change) <= MaxPnL
    /\ pnl' = pnl + change
    /\ peak' = IF pnl' > peak THEN pnl' ELSE peak
    /\ losses' = Streak(change)
    /\ day' = day + change
    /\ IF change < 0 /\ Limits.streak > 0 /\ losses' >= Limits.streak
       THEN Latch("CONSECUTIVE_LOSSES", pnl')
       ELSE UNCHANGED halt
    /\ UNCHANGED <<turnover, book, setup, rate, call, clock, open>>

\* Nothing distinguishes totals past the limit, or any while there is no limit.
AddTradedNotional(notional) ==
    /\ Idle /\ Limits.turnover > 0 /\ turnover < Limits.turnover
    /\ turnover' = turnover + notional
    /\ UNCHANGED <<pnl, peak, losses, book, halt, setup, rate, call, day, clock, open>>

------------------------------------------------------------------------------
(***************************************************************************)
(* Settings, the clock, the new day, and restarts                          *)
(***************************************************************************)
RestrictSymbol(s) ==
    /\ Idle
    /\ restricted' = restricted \cup {s}
    /\ UNCHANGED <<cap, ref, book, money, halt, rate, call, day, clock, open>>

AllowSymbol(s) ==
    /\ Idle
    /\ restricted' = restricted \ {s}
    /\ UNCHANGED <<cap, ref, book, money, halt, rate, call, day, clock, open>>

ClearRestricted ==
    /\ Idle
    /\ restricted' = {}
    /\ UNCHANGED <<cap, ref, book, money, halt, rate, call, day, clock, open>>

SetSymbolPositionLimit(s, limit) ==
    /\ Idle
    /\ cap' = [cap EXCEPT ![s] = IF limit > 0 THEN limit ELSE 0]
    /\ UNCHANGED <<restricted, ref, book, money, halt, rate, call, day, clock, open>>

UpdateReferencePrice(s, price) ==
    /\ Idle /\ price > 0
    /\ ref' = [ref EXCEPT ![s] = price]
    /\ UNCHANGED <<restricted, cap, book, money, halt, rate, call, day, clock, open>>

Tick ==
    /\ now < MaxNow
    /\ now' = now + 1
    /\ UNCHANGED <<crashes, book, money, halt, setup, rate, call, day, open>>

\* Mutant of PositionExposure: the running total is not recomputed.
PositionExposureKept == exposure

\* sum of |position| over the symbols
PositionExposure == Total([s \in Symbol |-> Abs(positions[s])], NSymbols)

\* "open orders from the previous day are cancelled by the exchange at midnight"
ResetDaily ==
    /\ Idle
    /\ pnl' = 0 /\ peak' = 0 /\ losses' = 0 /\ turnover' = 0
    /\ day' = 0
    /\ ring' = <<>> /\ sent' = <<>>
    /\ pending' = Zero /\ exposure' = PositionExposure
    /\ open' = NoneOpen
    /\ kill' = FALSE /\ reason' = "NONE" /\ file' = NoFile /\ tripped' = FALSE
    /\ UNCHANGED <<positions, setup, call, clock>>

\* The process dies and a new one constructs the manager and calls load_persisted_state.
Restart ==
    /\ crashes < MaxCrash
    /\ crashes' = crashes + 1
    /\ positions' = Zero /\ pending' = Zero /\ exposure' = 0 /\ open' = NoneOpen
    /\ pnl' = IF file = NoFile THEN 0 ELSE file.pnl
    /\ kill' = (file # NoFile /\ file.active)
    /\ peak' = 0 /\ losses' = 0 /\ turnover' = 0 /\ reason' = "NONE"
    /\ restricted' = {} /\ cap' = Zero /\ ref' = Zero
    /\ ring' = <<>> /\ sent' = <<>>
    /\ answer' = "NONE" /\ order' = NoOrder
    /\ UNCHANGED <<file, tripped, day, now>>

Next ==
    \/ \E s \in Symbol, side \in Side, qty \in Qty :
          \/ \E price \in Price : \/ CheckRejected(s, side, price, qty)
                                  \/ CheckTrips(s, side, price, qty)
                                  \/ CheckRate(s, side, price, qty)
          \/ OnOrderCancelled(s, side, qty)
          \/ UpdatePosition(s, side, qty)
    \/ OnOrderSent \/ Refused
    \/ \E change \in PnL : UpdatePnL(change)
    \/ \E notional \in Price : AddTradedNotional(notional)
    \/ \E s \in Banned : RestrictSymbol(s) \/ AllowSymbol(s)
    \/ \E s \in Symbol : \/ \E limit \in Caps : SetSymbolPositionLimit(s, limit)
                         \/ \E price \in RefPrice : UpdateReferencePrice(s, price)
    \/ ActivateKillSwitch \/ DeactivateKillSwitch
    \/ ClearRestricted \/ Tick \/ ResetDaily \/ Restart

Spec == Init /\ [][Next]_vars

------------------------------------------------------------------------------
\* The types; the ring never holds as many entries as its size (head_ = tail_ is empty).
TypeOK ==
    /\ positions \in [Symbol -> Int] /\ pending \in [Symbol -> Int] /\ exposure \in Nat
    /\ pnl \in Int /\ peak \in Nat /\ losses \in Nat /\ turnover \in Nat
    /\ kill \in BOOLEAN
    /\ reason \in {"NONE", "MANUAL", "CIRCUIT_BREAKER", "DRAWDOWN", "CONSECUTIVE_LOSSES"}
    /\ file \in {NoFile} \cup [active : BOOLEAN, pnl : Int]
    /\ restricted \subseteq Symbol /\ cap \in [Symbol -> Nat] /\ ref \in [Symbol -> Nat]
    /\ ring \in Seq(Nat) /\ Len(ring) < RingSize
    /\ answer \in {"NONE", "ALLOW", "REJECT"}
    /\ order \in {NoOrder} \cup [symbol : Symbol, side : Side, qty : Qty]
    /\ open \in [Symbol -> [Side -> Nat]] /\ now \in Nat

(***************************************************************************)
(* "total_abs_exposure_ = sum_s |positions_[s] + pending_[s]|": the        *)
(* running total that check 4 relies on is exact after any history of      *)
(* sends, partial fills, cancels and new days.                             *)
(***************************************************************************)
ExposureExact == exposure = Total([s \in Symbol |-> Abs(Exposed(s))], NSymbols)

(***************************************************************************)
(* pending_ is what the exchange still works of the orders reported with   *)
(* on_order_sent: nothing is released twice or stays reserved.             *)
(***************************************************************************)
PendingIsOpen == \A s \in Symbol : pending[s] = open[s]["BUY"] - open[s]["SELL"]

(***************************************************************************)
(* Check 4 keeps the portfolio within max_portfolio_exposure: a step that  *)
(* leaves it above the limit and larger than before released an open       *)
(* order.                                                                  *)
(***************************************************************************)
OnlyReleasesOverExpose ==
    [][\/ exposure' <= Limits.exposure
       \/ exposure' <= exposure
       \/ positions' = positions
             /\ \E s \in Symbol, side \in Side : open'[s][side] < open[s][side]]_vars

(***************************************************************************)
(* headroom_shares is the largest order the position check lets through,   *)
(* for a long, a short and a flip.                                         *)
(***************************************************************************)
HeadroomExact ==
    \A s \in Symbol, side \in Side :
        LET room == HeadroomShares(s, side)
        IN  /\ room > 0 => PositionOK(s, side, room)
            /\ ~PositionOK(s, side, room + 1)

(***************************************************************************)
(* A halt that was declared, by the breakers, the streak or by hand, is in *)
(* force until it is lifted by hand or by the new day, whatever restarts   *)
(* happen in between ("restart cannot bypass the trip").                   *)
(***************************************************************************)
HaltHolds == tripped => kill

(***************************************************************************)
(* No more than max_orders_per_second orders are allowed in any second.    *)
(***************************************************************************)
RateHeld == Cardinality({k \in DOMAIN sent : sent[k] > now - Second}) <= Limits.rate

(***************************************************************************)
(* "A process restart during the trading day must SEE that the limit was   *)
(* already breached today": no order is allowed while the loss of the day  *)
(* exceeds max_daily_loss.                                                 *)
(***************************************************************************)
NoTradeInBreach ==
    [][order' # order /\ order' # NoOrder => day >= -Limits.loss]_vars
==============================================================================
