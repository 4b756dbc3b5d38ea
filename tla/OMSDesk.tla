------------------------------- MODULE OMSDesk -------------------------------
(***************************************************************************)
(* oms/oms.hpp: what is read of an OMS with orders os, positions ps and    *)
(* counters t.  Money is fixed point; a ratio is <<numerator, denominator>> *)
(* and has no value when the denominator is 0.  Where the code scans an    *)
(* unordered map for an extreme, the answer is the set it may come from.   *)
(***************************************************************************)
EXTENDS OMS, FiniteSetsExt

Held(os) == {i \in DOMAIN os : os[i].status \in {"SENT", "PARTIAL"}}
Over(S, f(_)) == MapThenSumSet(f, S)
OverAll(ps, f(_)) == MapThenSumSet(LAMBDA s : f(ps[s]), DOMAIN ps)
Top(S) == IF S = {} THEN 0 ELSE Max(S)
Least(S) == IF S = {} THEN 0 ELSE Min(S)
CountPos(ps, Test(_)) == Cardinality({s \in DOMAIN ps : Test(ps[s])})

AvgFillPrice(o) == IF o.filled > 0 THEN o.notional \div o.filled ELSE 0
UnrealizedPnl(p, mark) == p.net * (mark - p.avg)
NetPnl(p, fees) == p.realized - fees
TotalPnl(p, fees, mark) == p.realized + UnrealizedPnl(p, mark) - fees

OpenOrderNotional(os) == Over(Held(os), LAMBDA i : os[i].price * Remaining(os[i]))
OpenOrderNotionalSymbol(os, s) ==
    Over({i \in Held(os) : os[i].symbol = s}, LAMBDA i : os[i].price * Remaining(os[i]))
OpenPositionCount(ps) == CountPos(ps, LAMBDA p : p.net # 0)
GrossPositionShares(ps) == OverAll(ps, LAMBDA p : Abs(p.net))
LargestPosition(ps) == Top({Abs(ps[s].net) : s \in DOMAIN ps} \cup {0})
Basis(p) == Abs(p.net) * p.avg
InventoryValue(ps) == OverAll(ps, Basis)
NetPositionShares(ps) == OverAll(ps, LAMBDA p : p.net)
NetInventoryValue(ps) == OverAll(ps, LAMBDA p : p.net * p.avg)
LargestPositionNotional(ps) == Top({Basis(ps[s]) : s \in DOMAIN ps} \cup {0})
LargestPositionSymbol(ps) ==
    LET held == {s \in DOMAIN ps : ps[s].net # 0}
    IN  {s \in held : \A x \in held : Basis(ps[x]) <= Basis(ps[s])}
PendingBuyShares(ps) == OverAll(ps, LAMBDA p : IF p.pending > 0 THEN p.pending ELSE 0)
PendingSellShares(ps) == OverAll(ps, LAMBDA p : IF p.pending < 0 THEN -p.pending ELSE 0)
IsFlat(os, ps) == OpenPositionCount(ps) = 0 /\ Held(os) = {}
CountByStatus(os, st) == Cardinality({i \in DOMAIN os : os[i].status = st})
WorkingOrderCount(os) == Cardinality(Held(os))
DoneOrderCount(os) == Cardinality({i \in DOMAIN os : os[i].status \in {"FILLED", "CANCELLED", "REJECTED"}})

\* Ages and times; at[i] has the times order i was sent, last filled and cancelled.
Since(from, to) == IF to > from THEN to - from ELSE 0
OldestWorkingOrderAge(os, at, now) ==
    LET sent == {at[i].sent : i \in Held(os)} IN IF sent = {} THEN 0 ELSE Since(Min(sent), now)
OldestWorkingOrderId(os, at) == {i \in Held(os) : \A j \in Held(os) : at[i].sent <= at[j].sent}
AvgWorkingOrderAge(os, at, now) ==
    IF Held(os) = {} THEN 0 ELSE Over(Held(os), LAMBDA i : Since(at[i].sent, now)) \div Cardinality(Held(os))
Filled(os, at) == {i \in DOMAIN os : os[i].status = "FILLED" /\ at[i].filled > at[i].sent}
Cancelled(os, at) == {i \in DOMAIN os : os[i].status = "CANCELLED" /\ at[i].cancelled > at[i].sent}
FillTime(at, i) == at[i].filled - at[i].sent
CancelTime(at, i) == at[i].cancelled - at[i].sent
AvgTimeToFill(os, at) ==
    IF Filled(os, at) = {} THEN 0
    ELSE Over(Filled(os, at), LAMBDA i : FillTime(at, i)) \div Cardinality(Filled(os, at))
MaxTimeToFill(os, at) == Top({FillTime(at, i) : i \in Filled(os, at)})
MinTimeToFill(os, at) == Least({FillTime(at, i) : i \in Filled(os, at)})
AvgTimeToCancel(os, at) ==
    IF Cancelled(os, at) = {} THEN 0
    ELSE Over(Cancelled(os, at), LAMBDA i : CancelTime(at, i)) \div Cardinality(Cancelled(os, at))
MaxTimeToCancel(os, at) == Top({CancelTime(at, i) : i \in Cancelled(os, at)})
MinTimeToCancel(os, at) == Least({CancelTime(at, i) : i \in Cancelled(os, at)})

\* Profit by symbol; fees are those of all symbols together.
Won(p) == p.realized > 0
LostOn(p) == p.realized < 0
TotalRealizedPnl(ps) == OverAll(ps, LAMBDA p : p.realized)
TotalNetPnl(ps, fees) == TotalRealizedPnl(ps) - Over(DOMAIN fees, LAMBDA s : fees[s])
WinningSymbols(ps) == CountPos(ps, Won)
LosingSymbols(ps) == CountPos(ps, LostOn)
SymbolWinRate(ps) == <<WinningSymbols(ps), WinningSymbols(ps) + LosingSymbols(ps)>>
GrossProfit(ps) == OverAll(ps, LAMBDA p : IF Won(p) THEN p.realized ELSE 0)
GrossLoss(ps) == OverAll(ps, LAMBDA p : IF LostOn(p) THEN -p.realized ELSE 0)
Decided(ps) == {s \in DOMAIN ps : ps[s].realized # 0}
BestRealizedSymbol(ps) == {s \in Decided(ps) : \A x \in Decided(ps) : ps[x].realized <= ps[s].realized}
WorstRealizedSymbol(ps) == {s \in Decided(ps) : \A x \in Decided(ps) : ps[x].realized >= ps[s].realized}
LargestWin(ps) == Top({ps[s].realized : s \in DOMAIN ps} \cup {0})
LargestLoss(ps) == Top({-ps[s].realized : s \in DOMAIN ps} \cup {0})
ProfitConcentration(ps) == <<LargestWin(ps), GrossProfit(ps)>>
LossConcentration(ps) == <<LargestLoss(ps), GrossLoss(ps)>>
ProfitFactor(ps) == <<GrossProfit(ps), GrossLoss(ps)>>
AvgWinPerSymbol(ps) == <<GrossProfit(ps), WinningSymbols(ps)>>
AvgLossPerSymbol(ps) == <<GrossLoss(ps), LosingSymbols(ps)>>
ExpectancyPerSymbol(ps) == <<GrossProfit(ps) - GrossLoss(ps), WinningSymbols(ps) + LosingSymbols(ps)>>

\* The counters of the session
Reasons == {"INVALID_INPUT", "ORDER_VALUE", "POSITION_LIMIT"}
TotalRejects(t) == Over(Reasons, LAMBDA r : t.rejects[r])
RejectShare(t, r) == <<t.rejects[r], TotalRejects(t)>>
\* The first of the enumeration with the most, or none
MostCommonReject(t) ==
    LET most == Max({t.rejects[r] : r \in Reasons})
        first == <<"INVALID_INPUT", "ORDER_VALUE", "POSITION_LIMIT">>
    IN  IF most = 0 THEN "NONE" ELSE first[Min({i \in 1..3 : t.rejects[first[i]] = most})]
SubmitRejectRate(t) == <<TotalRejects(t), t.submitted + TotalRejects(t)>>
AvgFillSize(t) == <<t.filled, t.fills>>
CancelToFillRatio(t) == <<t.cancels, t.fills>>
AvgSubmittedSize(t) == <<t.ordered, t.submitted>>
AvgPriceImprovementPerShare(t) == <<t.improvement, t.filled>>
AvgCommissionPerShare(t) == <<t.fees, t.filled>>
FeeOfTurnover(t) == <<t.fees, t.traded>>
AvgPnlPerRoundTrip(t, ps) == <<TotalRealizedPnl(ps), t.trips>>
AvgNetPnlPerRoundTrip(t, ps, fees) == <<TotalNetPnl(ps, fees), t.trips>>
RealizedPnlPerShare(t, ps) == <<TotalRealizedPnl(ps), t.filled>>
NetPnlPerShare(t, ps, fees) == <<TotalNetPnl(ps, fees), t.filled>>
MaxOrderFillCount(os) == Top({os[i].fills : i \in DOMAIN os})
MostFragmentedOrderId(os) == {i \in DOMAIN os : os[i].fills > 0 /\ os[i].fills = MaxOrderFillCount(os)}
OrderFillRate(t, os) == <<CountByStatus(os, "FILLED"), t.submitted>>
CancelRate(t) == <<t.cancels, t.submitted>>
ReplaceRate(t) == <<t.replaces, t.submitted>>
NotionalFillRatio(t) == <<t.traded, t.asked>>
AvgSubmittedNotional(t) == <<t.asked, t.submitted>>
AvgTradePrice(t) == <<t.traded, t.filled>>
FillRatio(t) == <<t.filled, t.ordered>>

------------------------------------------------------------------------------
(***************************************************************************)
(* oms/oms.hpp: the OMS of module OMS together with what its operations    *)
(* also keep: the counters of the session, commissions, completed round    *)
(* trips and the times of every order.  Time passes between calls.         *)
(***************************************************************************)
CONSTANTS Commissions,    \* commission_fp_ a desk sets; 0 to begin with
          MaxAsides       \* bound: rejections, replacements, settings, resets and ticks

VARIABLES tally,          \* total_..., reject_counts_, price_improvement_fp_, round_trips_
          at,             \* sent_ns, filled_ns and cancelled_ns of the orders
          fees,           \* Position::fees
          trips,          \* Position::round_trips
          commission, clock,
          before,         \* history: the life-time totals when the session was reset
          asides

deskVars == <<orders, pos, tally, at, fees, trips, commission, clock, before, asides>>

Aside == asides < MaxAsides /\ asides' = asides + 1

NewTally == [submitted |-> 0, fills |-> 0, cancels |-> 0, replaces |-> 0, ordered |-> 0, filled |-> 0,
             traded |-> 0, asked |-> 0, largest |-> 0, improvement |-> 0, trips |-> 0, fees |-> 0,
             rejects |-> [r \in Reasons |-> 0], last |-> "NONE"]
NoTotals == [submitted |-> 0, fills |-> 0, filled |-> 0, cancels |-> 0, traded |-> 0, trips |-> 0, set |-> FALSE]

DeskInit == /\ Init
            /\ tally = NewTally /\ at = <<>> /\ fees = [s \in Symbols |-> 0] /\ trips = [s \in Symbols |-> 0]
            /\ commission = 0 /\ clock = 1 /\ before = NoTotals /\ asides = 0

\* The first test of submit_order that fails
Reason(s, side, price, qty) ==
    IF price <= 0 \/ qty = 0 THEN "INVALID_INPUT"
    ELSE IF Value(price, qty) > MaxOrderValue THEN "ORDER_VALUE" ELSE "POSITION_LIMIT"

DeskReject(s, side, price, qty) ==
    /\ Aside
    /\ SubmitReject(s, side, price, qty)
    /\ tally' = [tally EXCEPT !.rejects[Reason(s, side, price, qty)] = @ + 1,
                              !.last = Reason(s, side, price, qty)]
    /\ UNCHANGED <<at, fees, trips, commission, clock, before>>

DeskSubmit(s, side, price, qty, expire) ==
    /\ Submit(s, side, price, qty, expire)
    /\ at' = Append(at, [sent |-> clock, filled |-> 0, cancelled |-> 0])
    /\ tally' = [tally EXCEPT !.submitted = @ + 1, !.ordered = @ + qty, !.asked = @ + price * qty,
                              !.largest = Top({@, price * qty}), !.last = "NONE"]
    /\ UNCHANGED <<fees, trips, commission, clock, before, asides>>

\* A position that lands on flat, or flips through it, completes a round trip.
\* Mutant of Completes: only a flip is counted.
CompletesFlip(net, new) == net # 0 /\ new # 0 /\ ~(net > 0 <=> new > 0)
Completes(net, new) == net # 0 /\ (new = 0 \/ ~(net > 0 <=> new > 0))
Improvement(o, price, q) == (IF o.side = "BUY" THEN o.price - price ELSE price - o.price) * q

DeskFill(i, qty, price) ==
    LET o == orders[i]
        q == Applied(o, qty)
        done == IF Completes(pos[o.symbol].net, pos'[o.symbol].net) THEN 1 ELSE 0
    IN  /\ Fill(i, qty, price)
        /\ at' = [at EXCEPT ![i].filled = clock]
        /\ trips' = [trips EXCEPT ![o.symbol] = @ + done]
        /\ fees' = [fees EXCEPT ![o.symbol] = @ + q * commission]
        /\ tally' = [tally EXCEPT !.fills = @ + 1, !.filled = @ + q, !.traded = @ + q * price,
                                  !.improvement = @ + Improvement(o, price, q), !.trips = @ + done,
                                  !.fees = @ + q * commission]
        /\ UNCHANGED <<commission, clock, before, asides>>

\* cancel_order for every order that the step cancels
DeskCancels ==
    LET gone == {i \in DOMAIN orders : orders'[i].status # orders[i].status}
    IN  /\ at' = [i \in DOMAIN at |-> IF i \in gone THEN [at[i] EXCEPT !.cancelled = clock] ELSE at[i]]
        /\ tally' = [tally EXCEPT !.cancels = @ + Cardinality(gone)]
        /\ UNCHANGED <<fees, trips, commission, clock, before, asides>>

DeskReplaced ==
    /\ Aside
    /\ tally' = [tally EXCEPT !.replaces = @ + 1]
    /\ UNCHANGED <<at, fees, trips, commission, clock, before>>

DeskIgnores == UNCHANGED <<tally, at, fees, trips, commission, clock, before, asides>>

\* Life-time totals, from the orders
Lifetime == [submitted |-> Len(orders), fills |-> Fills, filled |-> Shares,
             cancels |-> CountByStatus(orders, "CANCELLED"),
             traded |-> Over(DOMAIN orders, LAMBDA i : orders[i].notional),
             trips |-> Over(Symbols, LAMBDA s : trips[s]), set |-> TRUE]

\* total_fees_ and last_reject_ are not of the session.
ResetSessionCounters ==
    /\ Aside /\ ~before.set
    /\ before' = Lifetime
    /\ tally' = [NewTally EXCEPT !.fees = tally.fees, !.last = tally.last]
    /\ UNCHANGED <<orders, pos, at, fees, trips, commission, clock>>

SetCommission == /\ Aside
                 /\ commission' \in Commissions \ {commission}
                 /\ UNCHANGED <<orders, pos, tally, at, fees, trips, clock, before>>

Tick == /\ Aside
        /\ clock' = clock + 1
        /\ UNCHANGED <<orders, pos, tally, at, fees, trips, commission, before>>

DeskNext ==
    \/ \E s \in Symbols, side \in Side, price \in Price, qty \in Qty :
          \/ DeskReject(s, side, price, qty)
          \/ \E expire \in Expiry : DeskSubmit(s, side, price, qty, expire)
    \/ \E i \in DOMAIN orders :
          \/ \E qty \in Qty : FillIgnored(i, qty) /\ DeskIgnores
          \/ \E qty \in Qty : AmendQuantity(i, qty) /\ DeskReplaced
          \/ \E qty \in Qty, price \in FillPrice : DeskFill(i, qty, price)
          \/ \E qty \in Qty, price \in Price :
                \/ Replace(i, price, qty) /\ DeskReplaced
                \/ ReplaceIgnored(i, price, qty) /\ DeskIgnores
          \/ Cancel(i) /\ DeskCancels
          \/ CancelIgnored(i) /\ DeskIgnores
    \/ CancelAll /\ DeskCancels
    \/ \E s \in Symbols : CancelAllSymbol(s) /\ DeskCancels
    \/ \E now \in Expiry : PurgeExpired(now) /\ DeskCancels
    \/ ResetSessionCounters
    \/ SetCommission
    \/ Tick

DeskSpec == DeskInit /\ [][DeskNext]_deskVars

------------------------------------------------------------------------------
(***************************************************************************)
(* The report of the desk is kept by increments in five handlers and read  *)
(* by some sixty functions.  Whatever was filled, over-filled, amended,    *)
(* cancelled in bulk or expired, in this session or before it was reset:   *)
(* the counters are the difference of the life-time totals, which the      *)
(* order table gives; the fees of the symbols add up; every order is       *)
(* working or done; a name that is flat after trading has completed a      *)
(* round trip; the extremes are attained and bound the averages; and       *)
(* profit in the books, before fees, is profit and loss of the names.      *)
(***************************************************************************)
DeskAgrees ==
    LET now == Lifetime
        t == tally
        avg(x) == IF x[2] = 0 THEN 0 ELSE x[1] \div x[2]
        traded(s) == {i \in DOMAIN orders : orders[i].symbol = s /\ orders[i].filled > 0}
    IN  /\ \A f \in {"submitted", "fills", "filled", "cancels", "traded", "trips"} : t[f] = now[f] - before[f]
        /\ t.fees = Over(Symbols, LAMBDA s : fees[s])
        /\ \A s \in Symbols : LET shares == Over(traded(s), LAMBDA i : orders[i].filled)
                            IN  fees[s] \in Min(Commissions) * shares .. Max(Commissions) * shares
        /\ WorkingOrderCount(orders) + DoneOrderCount(orders) = Len(orders)
        /\ DoneOrderCount(orders) = CountByStatus(orders, "FILLED") + CountByStatus(orders, "CANCELLED")
        /\ \A s \in Symbols : (pos[s].net = 0 /\ traded(s) # {}) => trips[s] > 0
        /\ \A s \in Symbols : trips[s] > 0 => \E i, j \in traded(s) : orders[i].side # orders[j].side
        /\ (t.replaces = 0 /\ ~before.set) =>
              /\ t.ordered = Over(DOMAIN orders, LAMBDA i : orders[i].quantity)
              /\ t.asked = Over(DOMAIN orders, LAMBDA i : orders[i].price * orders[i].quantity)
              /\ t.improvement = Over(DOMAIN orders, LAMBDA i :
                    Improvement(orders[i], 0, orders[i].filled)
                    + (IF orders[i].side = "BUY" THEN -1 ELSE 1) * orders[i].notional)
              /\ FillRatio(t)[1] <= FillRatio(t)[2]
              /\ OrderFillRate(t, orders)[1] + CancelRate(t)[1] <= t.submitted
        /\ avg(AvgSubmittedNotional(t)) <= t.largest
        /\ avg(AvgSubmittedSize(t)) * t.submitted <= t.ordered
        /\ avg(AvgFillSize(t)) <= Top(Qty) /\ avg(AvgTradePrice(t)) <= Top(FillPrice)
        /\ TotalRejects(t) = SubmitRejectRate(t)[2] - t.submitted
        /\ MostCommonReject(t) = "NONE" <=> TotalRejects(t) = 0
        /\ MostCommonReject(t) # "NONE" => 3 * RejectShare(t, MostCommonReject(t))[1] >= TotalRejects(t)
        /\ MaxOrderFillCount(orders) = 0 <=> MostFragmentedOrderId(orders) = {}
        /\ before.set \/ MaxOrderFillCount(orders) <= t.fills
        /\ \A i \in DOMAIN orders : AvgFillPrice(orders[i]) <= Top(FillPrice)

\* What is read of positions, orders and times, one way and another.
ReportsAgree ==
    LET mark == Max(FillPrice)
    IN  /\ Over(Symbols, LAMBDA s : OpenOrderNotionalSymbol(orders, s)) = OpenOrderNotional(orders)
        /\ IsFlat(orders, pos) <=> (GrossPositionShares(pos) = 0 /\ WorkingOrderCount(orders) = 0)
        /\ IsFlat(orders, pos) => PendingBuyShares(pos) + PendingSellShares(pos) = 0
        /\ Abs(NetPositionShares(pos)) <= GrossPositionShares(pos)
        /\ GrossPositionShares(pos) <= OpenPositionCount(pos) * LargestPosition(pos)
        /\ Abs(NetInventoryValue(pos)) <= InventoryValue(pos)
        /\ \A s \in LargestPositionSymbol(pos) : Basis(pos[s]) = LargestPositionNotional(pos)
        /\ LargestPositionSymbol(pos) = {} <=> OpenPositionCount(pos) = 0
        /\ InventoryValue(pos) = Over(Symbols, LAMBDA s : pos[s].cost)
        /\ GrossProfit(pos) - GrossLoss(pos) = TotalRealizedPnl(pos)
        /\ TotalNetPnl(pos, fees) = Over(Symbols, LAMBDA s : NetPnl(pos[s], fees[s]))
        /\ Over(Symbols, LAMBDA s : TotalPnl(pos[s], fees[s], mark))
              = TotalNetPnl(pos, fees) + mark * NetPositionShares(pos) - NetInventoryValue(pos)
        /\ \A s \in BestRealizedSymbol(pos), x \in WorstRealizedSymbol(pos) :
              /\ pos[s].realized >= pos[x].realized
              /\ LargestWin(pos) = Top({pos[s].realized, 0}) /\ LargestLoss(pos) = Top({-pos[x].realized, 0})
        /\ ProfitConcentration(pos)[1] <= ProfitConcentration(pos)[2]
        /\ ProfitConcentration(pos)[1] * WinningSymbols(pos) >= GrossProfit(pos)
        /\ LossConcentration(pos)[1] <= LossConcentration(pos)[2]
        /\ AvgWinPerSymbol(pos)[2] + AvgLossPerSymbol(pos)[2] = SymbolWinRate(pos)[2]
        /\ ExpectancyPerSymbol(pos) = <<TotalRealizedPnl(pos), Cardinality(Decided(pos))>>
        /\ \A x \in {<<Filled(orders, at), MinTimeToFill(orders, at), AvgTimeToFill(orders, at), MaxTimeToFill(orders, at)>>,
                     <<Cancelled(orders, at), MinTimeToCancel(orders, at), AvgTimeToCancel(orders, at), MaxTimeToCancel(orders, at)>>} :
              x[2] <= x[3] /\ x[3] <= x[4] /\ (x[1] = {} <=> x[4] = 0)
        /\ AvgWorkingOrderAge(orders, at, clock) <= OldestWorkingOrderAge(orders, at, clock)
        /\ \A i \in OldestWorkingOrderId(orders, at) : clock - at[i].sent = OldestWorkingOrderAge(orders, at, clock)
==============================================================================
