--------------------------------- MODULE OMS ---------------------------------
(***************************************************************************)
(* oms/oms.hpp: the order management system.  Orders are numbered from 1   *)
(* and never forgotten, so orders_ is a sequence.  A position is created   *)
(* on first use; here every symbol has one, flat at first.                 *)
(*                                                                         *)
(* Prices are the fixed-point integers of the code, with Scale ticks to    *)
(* the dollar.  Left out: time stamps, commissions, the session counters   *)
(* and the reason of the last reject, which no operation reads.            *)
(***************************************************************************)
EXTENDS Integers, Sequences, Totals

CONSTANTS Symbols,
          Price,          \* to_fixed of the prices submitted and replaced with
          FillPrice,      \* to_fixed of the prices filled at
          Qty,            \* the quantities submitted, filled and amended to
          Expiry,         \* expire_ns: 0 is "no expiry"
          Scale,          \* PRICE_SCALE
          MaxPosition,    \* max_position_
          MaxOrderValue,  \* max_order_value_
          HalfWord,       \* 2^31: uint32_t quantities are cast to int32_t
          MaxOrders       \* bound: orders submitted

ASSUME NumberAssumption == /\ Price \subseteq Int
                           /\ FillPrice \subseteq Nat
                           /\ Qty \subseteq Nat
                           /\ Expiry \subseteq Nat
                           /\ Scale \in Nat \ {0}
                           /\ MaxPosition \in Nat
                           /\ MaxOrderValue \in Nat
                           /\ HalfWord \in Nat \ {0}
                           /\ MaxOrders \in Nat

VARIABLES orders,         \* orders_
          pos             \* positions_

vars == <<orders, pos>>

Side == {"BUY", "SELL"}

Abs(n) == IF n < 0 THEN -n ELSE n

\* static_cast<int32_t>(qty)
ToInt32(q) == IF q >= HalfWord THEN q - 2 * HalfWord ELSE q

SignedQty(side, q) == IF side = "BUY" THEN ToInt32(q) ELSE -ToInt32(q)

Flat == [net |-> 0, pending |-> 0, avg |-> 0, realized |-> 0, cost |-> 0]

Init == /\ orders = <<>>
        /\ pos = [s \in Symbols |-> Flat]

\* The guard of fill, cancel, replace and amend.
Working(i) == orders[i].status \in {"SENT", "PARTIAL"}

\* order_value in whole dollars: the price is cut to dollars first
Value(price, qty) == (price \div Scale) * qty

\* Mutant of OverLimit: what is in flight is not counted.
OverLimitNet(s, change) == Abs(pos[s].net + change) > MaxPosition

\* Pre-trade check: realized + pending + change
OverLimit(s, change) == Abs(pos[s].net + pos[s].pending + change) > MaxPosition

------------------------------------------------------------------------------
(***************************************************************************)
(* submit_order                                                            *)
(***************************************************************************)
Submittable(s, side, price, qty) ==
    /\ price > 0
    /\ qty # 0
    /\ Value(price, qty) <= MaxOrderValue
    /\ ~OverLimit(s, SignedQty(side, qty))

NewOrder(s, side, price, qty, expire) ==
    [symbol |-> s, side |-> side, price |-> price, quantity |-> qty, filled |-> 0,
     status |-> "SENT", notional |-> 0, fills |-> 0, expire |-> expire]

\* pending_qty += n
Reserve(p, n) == [p EXCEPT !.pending = @ + n]

SubmitReject(s, side, price, qty) ==
    /\ ~Submittable(s, side, price, qty)
    /\ UNCHANGED vars

Submit(s, side, price, qty, expire) ==
    /\ Len(orders) < MaxOrders
    /\ Submittable(s, side, price, qty)
    /\ orders' = Append(orders, NewOrder(s, side, price, qty, expire))
    /\ pos' = [pos EXCEPT ![s] = Reserve(@, SignedQty(side, qty))]

(***************************************************************************)
(* fill_order                                                              *)
(***************************************************************************)
\* The open quantity; an over-fill is clamped to it.
Remaining(o) == o.quantity - o.filled

\* Mutant of Applied: an over-fill is not clamped.
AppliedWhole(o, qty) == qty

Applied(o, qty) == IF qty > Remaining(o) THEN Remaining(o) ELSE qty

SameDirection(net, signed) == net = 0 \/ (net > 0 <=> signed > 0)

\* Mutant of Average: the fill price is weighted with the old position.
AverageWrong(p, qty, price) ==
    LET total == Abs(p.net) + qty
    IN  (p.avg * qty + price * Abs(p.net) + total \div 2) \div total

\* The weighted average entry price, rounded; no fill price is negative, so the
\* division of the code, which truncates, is \div.
Average(p, qty, price) ==
    LET total == Abs(p.net) + qty
    IN  (p.avg * Abs(p.net) + price * qty + total \div 2) \div total

\* Mutant of NewNet: a fill through zero only closes the position.
NewNetNoFlip(p, signed) ==
    IF ~SameDirection(p.net, signed) /\ Abs(signed) > Abs(p.net) THEN 0 ELSE p.net + signed

NewNet(p, signed) == p.net + signed

\* Mutant of Entry: the entry price is not cleared when the position closes.
EntryKept(p, signed, qty, price) ==
    IF SameDirection(p.net, signed) THEN Average(p, qty, price)
    ELSE IF p.net > 0 <=> NewNet(p, signed) > 0 THEN p.avg
    ELSE price

\* avg_price: averaged in, cleared when flat, kept when reduced, the fill's after a flip.
Entry(p, signed, qty, price) ==
    IF SameDirection(p.net, signed) THEN Average(p, qty, price)
    ELSE IF NewNet(p, signed) = 0 THEN 0
    ELSE IF p.net > 0 <=> NewNet(p, signed) > 0 THEN p.avg
    ELSE price

\* What a fill against the position realizes.
Gain(p, signed, qty, price) ==
    LET closed == IF Abs(p.net) < qty THEN Abs(p.net) ELSE qty
    IN  IF SameDirection(p.net, signed) THEN 0
        ELSE IF p.net > 0 THEN closed * (price - p.avg)
        ELSE closed * (p.avg - price)

\* apply_fill_to_position
ApplyFill(p, signed, qty, price) ==
    [p EXCEPT !.net = NewNet(p, signed),
              !.avg = Entry(p, signed, qty, price),
              !.realized = @ + Gain(p, signed, qty, price),
              !.cost = Entry(p, signed, qty, price) * Abs(NewNet(p, signed))]

\* fill_qty == 0, an order that is not working, or nothing left to fill.
FillIgnored(i, qty) ==
    /\ qty = 0 \/ ~Working(i) \/ Applied(orders[i], qty) = 0
    /\ UNCHANGED vars

Execution(o, q, price) ==
    [o EXCEPT !.filled = @ + q, !.notional = @ + q * price, !.fills = @ + 1,
              !.status = IF o.filled + q >= o.quantity THEN "FILLED" ELSE "PARTIAL"]

Fill(i, qty, price) ==
    LET o == orders[i]
        q == Applied(o, qty)
        signed == SignedQty(o.side, q)
    IN  /\ Working(i)
        /\ q # 0
        /\ orders' = [orders EXCEPT ![i] = Execution(o, q, price)]
        /\ pos' = [pos EXCEPT ![o.symbol] =
                                     ApplyFill(Reserve(@, -signed), signed, q, price)]

(***************************************************************************)
(* cancel_order, cancel_all, cancel_all_symbol, purge_expired              *)
(***************************************************************************)
\* What the orders in ids still hold of s's pending quantity.
Open(s, ids) == [i \in 1..Len(orders) |->
                   IF i \in ids /\ orders[i].symbol = s
                   THEN SignedQty(orders[i].side, Remaining(orders[i]))
                   ELSE 0]

\* cancel_order for each of them
CancelOrders(ids) ==
    /\ orders' = [i \in DOMAIN orders |->
                    IF i \in ids THEN [orders[i] EXCEPT !.status = "CANCELLED"] ELSE orders[i]]
    /\ pos' = [s \in Symbols |->
                 Reserve(pos[s], -Total(Open(s, ids), Len(orders)))]

WorkingIds == {i \in DOMAIN orders : Working(i)}

CancelIgnored(i) == ~Working(i) /\ UNCHANGED vars

Cancel(i) == Working(i) /\ CancelOrders({i})

CancelAll == CancelOrders(WorkingIds)

CancelAllSymbol(s) == CancelOrders({i \in WorkingIds : orders[i].symbol = s})

PurgeExpired(now) ==
    CancelOrders({i \in WorkingIds : orders[i].expire > 0 /\ orders[i].expire <= now})

(***************************************************************************)
(* replace_order, amend_quantity                                           *)
(***************************************************************************)
\* new_pend - old_pend
Shift(o, qty) == SignedQty(o.side, qty - o.filled) - SignedQty(o.side, Remaining(o))

\* Mutant of Replaceable: the new quantity may be below what is filled.
ReplaceableBelow(i, price, qty) ==
    /\ Working(i)
    /\ price > 0
    /\ qty # 0
    /\ Value(price, qty) <= MaxOrderValue
    /\ ~OverLimit(orders[i].symbol, Shift(orders[i], qty))

Replaceable(i, price, qty) ==
    /\ Working(i)
    /\ price > 0
    /\ qty # 0
    /\ qty >= orders[i].filled
    /\ Value(price, qty) <= MaxOrderValue
    /\ ~OverLimit(orders[i].symbol, Shift(orders[i], qty))

ReplaceIgnored(i, price, qty) == ~Replaceable(i, price, qty) /\ UNCHANGED vars

Replacement(o, price, qty) ==
    [o EXCEPT !.price = price, !.quantity = qty,
              !.status = IF o.filled >= qty THEN "FILLED"
                         ELSE IF o.filled > 0 THEN "PARTIAL" ELSE "SENT"]

Replace(i, price, qty) ==
    LET o == orders[i]
    IN  /\ Replaceable(i, price, qty)
        /\ pos' = [pos EXCEPT ![o.symbol] = Reserve(@, Shift(o, qty))]
        /\ orders' = [orders EXCEPT ![i] = Replacement(o, price, qty)]

\* A reduction at the same price, by replace_order.
AmendQuantity(i, qty) == /\ Working(i)
                         /\ qty < orders[i].quantity
                         /\ Replace(i, orders[i].price, qty)

Next ==
    \/ \E s \in Symbols, side \in Side, price \in Price, qty \in Qty :
          \/ SubmitReject(s, side, price, qty)
          \/ \E expire \in Expiry : Submit(s, side, price, qty, expire)
    \/ \E i \in DOMAIN orders :
          \/ \E qty \in Qty : FillIgnored(i, qty) \/ AmendQuantity(i, qty)
          \/ \E qty \in Qty, price \in FillPrice : Fill(i, qty, price)
          \/ \E qty \in Qty, price \in Price :
                Replace(i, price, qty) \/ ReplaceIgnored(i, price, qty)
          \/ Cancel(i) \/ CancelIgnored(i)
    \/ CancelAll
    \/ \E s \in Symbols : CancelAllSymbol(s)
    \/ \E now \in Expiry : PurgeExpired(now)

Spec == Init /\ [][Next]_vars

------------------------------------------------------------------------------
\* struct Order, struct Position
Order == [symbol : Symbols, side : Side, price : Int, quantity : Nat, filled : Nat,
          status : {"SENT", "PARTIAL", "FILLED", "CANCELLED"},
          notional : Int, fills : Nat, expire : Nat]
Position == [net : Int, pending : Int, avg : Int, realized : Int, cost : Int]

\* The types of the order table and of the positions.
TypeOK == orders \in Seq(Order) /\ pos \in [Symbols -> Position]

(***************************************************************************)
(* The pending quantity of a symbol is exactly what its working orders     *)
(* have open, whatever fills, late fills, over-fills, amendments and mass  *)
(* cancels happened: nothing is released twice and nothing leaks (the      *)
(* concern of the comment "#556" in fill_order).                           *)
(***************************************************************************)
PendingIsOpen ==
    \A s \in Symbols : pos[s].pending = Total(Open(s, WorkingIds), Len(orders))

(***************************************************************************)
(* The net position of a symbol is what its orders have been filled for,   *)
(* cancelled ones included.                                                *)
(***************************************************************************)
Executed(s) == [i \in 1..Len(orders) |->
                  IF orders[i].symbol = s THEN SignedQty(orders[i].side, orders[i].filled) ELSE 0]
NetIsExecuted == \A s \in Symbols : pos[s].net = Total(Executed(s), Len(orders))

(***************************************************************************)
(* An order is never filled beyond its quantity, and it is FILLED exactly  *)
(* when nothing is left, also after its quantity was amended.              *)
(***************************************************************************)
OrdersSound ==
    \A i \in DOMAIN orders :
        LET o == orders[i]
        IN  /\ o.filled <= o.quantity
            /\ o.status = "FILLED" <=> (o.filled = o.quantity /\ o.status # "CANCELLED")
            /\ o.status = "SENT" => o.filled = 0
            /\ o.status = "PARTIAL" => o.filled > 0

(***************************************************************************)
(* Profit is conserved: what was realized, plus the position at its        *)
(* average entry price, is the money that changed hands, up to the         *)
(* rounding of the averages (half a tick per share and fill), through      *)
(* reductions, closes and flips.                                           *)
(***************************************************************************)
Cash(s) == Total([i \in 1..Len(orders) |->
                    IF orders[i].symbol # s THEN 0
                    ELSE IF orders[i].side = "BUY" THEN -orders[i].notional
                    ELSE orders[i].notional], Len(orders))
Fills == Total([i \in 1..Len(orders) |-> orders[i].fills], Len(orders))
Shares == Total([i \in 1..Len(orders) |-> orders[i].filled], Len(orders))
ProfitConserved ==
    \A s \in Symbols :
        2 * Abs(pos[s].realized - Cash(s) - pos[s].net * pos[s].avg) <= Fills * Shares

(***************************************************************************)
(* A position that is flat carries no entry price and no cost; otherwise   *)
(* total_cost is its basis.                                                *)
(***************************************************************************)
CostIsBasis ==
    \A s \in Symbols : /\ pos[s].net = 0 => pos[s].avg = 0
                      /\ pos[s].cost = pos[s].avg * Abs(pos[s].net)

(***************************************************************************)
(* The ledger is exact whatever fills, over-fills, flips, amendments and   *)
(* late reports happened (fill_order, replace_order): the position is what *)
(* was executed, its cost is its basis, profit is conserved up to          *)
(* rounding, and every order's status tells how far it is filled.          *)
(***************************************************************************)
LedgerExact == NetIsExecuted /\ CostIsBasis /\ ProfitConserved /\ OrdersSound

(***************************************************************************)
(* A fill never changes the committed exposure ("pos.net_qty +             *)
(* pos.pending_qty stays unchanged"), and an order that is filled or       *)
(* cancelled is never changed again, not even by a fill that raced the     *)
(* cancel.                                                                 *)
(***************************************************************************)
DoneIsFinal ==
    [][\A i \in DOMAIN orders :
         orders[i].status \in {"FILLED", "CANCELLED"} => orders'[i] = orders[i]]_vars
FillKeepsExposure ==
    [][\A s \in Symbols :
         pos'[s].net # pos[s].net =>
             pos'[s].net + pos'[s].pending = pos[s].net + pos[s].pending]_vars

(***************************************************************************)
(* The pre-trade check holds the committed exposure of a symbol within     *)
(* max_position_ through submits, fills and replaces in any order: a step  *)
(* that moves it and leaves it above the limit cancels an order.           *)
(***************************************************************************)
Committed(s) == pos[s].net + pos[s].pending
OnlyCancelsOverCommit ==
    [][\A s \in Symbols :
         \/ Abs(Committed(s)') <= MaxPosition
         \/ Committed(s)' = Committed(s)
         \/ \E i \in DOMAIN orders : Working(i) /\ orders'[i].status = "CANCELLED"]_vars
==============================================================================
