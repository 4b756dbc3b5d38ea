----------------------------- MODULE OUCHClient ------------------------------
(***************************************************************************)
(* ouch-protocol/ouch_protocol.hpp: the OUCH codec.  A message on the wire *)
(* is its type byte, its length and its cells: what was written at which   *)
(* offset and width.  A read finds a value only where a write put one.     *)
(* Prices are in cents, 1/10000 dollars on the wire; tokens and symbols    *)
(* stand for names that fit their fields, which padding and stripping      *)
(* return unchanged.  Orders within MAX_ORDER_SHARES and MAX_ORDER_PRICE   *)
(* fit the 32-bit fields.                                                  *)
(***************************************************************************)
EXTENDS Integers, Sequences, FiniteSets, FiniteSetsExt, SequencesExt, TLC

Garbage == "garbage"

PriceToWire(cents) == cents * 100
PriceFromWire(wire) == wire \div 100

Write(type, len, layout, m) ==
    [type |-> type, len |-> len,
     cells |-> [place \in {layout[f] : f \in DOMAIN layout} |->
                 LET f == CHOOSE g \in DOMAIN layout : layout[g] = place
                 IN  IF f = "price" THEN PriceToWire(m.price) ELSE m[f]]]

Read(w, f, place) ==
    IF place \notin DOMAIN w.cells THEN Garbage
    ELSE IF f = "price" THEN PriceFromWire(w.cells[place]) ELSE w.cells[place]

------------------------------------------------------------------------------
(* Client to exchange *)

OrderLayout(type) ==
    CASE type = "O" -> [token |-> <<1, 14>>, side |-> <<15, 1>>, shares |-> <<16, 4>>,
                        stock |-> <<20, 8>>, price |-> <<28, 4>>, tif |-> <<32, 1>>]
      [] type = "X" -> [token |-> <<1, 14>>, shares |-> <<15, 4>>]
      [] type = "U" -> [token |-> <<1, 14>>, new_token |-> <<15, 14>>,
                        shares |-> <<29, 4>>, price |-> <<33, 4>>]
      [] type = "M" -> [token |-> <<1, 14>>, shares |-> <<15, 4>>]

OrderLength(type) == CASE type = "O" -> 33 [] type = "X" -> 19 [] type = "U" -> 37 [] type = "M" -> 19

\* enter_order, cancel_order, replace_order, modify_order
EncodeOrder(m) == Write(m.type, OrderLength(m.type), OrderLayout(m.type), m)

BlankOrder == [type |-> "E", token |-> "", new_token |-> "", side |-> " ", shares |-> 0,
               stock |-> "", price |-> 0, tif |-> " ", valid |-> FALSE]

ReadOrder(type) ==
    CASE type = "O" -> [token |-> <<1, 14>>, side |-> <<15, 1>>, shares |-> <<16, 4>>,
                        stock |-> <<20, 8>>, price |-> <<28, 4>>, tif |-> <<32, 1>>]
      [] type = "X" -> [token |-> <<1, 14>>, shares |-> <<15, 4>>]
      [] type = "U" -> [token |-> <<1, 14>>, new_token |-> <<15, 14>>,
                        shares |-> <<29, 4>>, price |-> <<33, 4>>]
      [] type = "M" -> [token |-> <<1, 14>>, shares |-> <<15, 4>>]

ParseOrder(w) ==
    IF w.len < 1 \/ w.type \notin {"O", "X", "U", "M"}
       \/ w.len < (CASE w.type = "O" -> 33 [] w.type = "X" -> 19 [] w.type = "U" -> 37 [] OTHER -> 19)
    THEN BlankOrder
    ELSE LET at == ReadOrder(w.type)
         IN  [f \in DOMAIN at |-> Read(w, f, at[f])] @@ [type |-> w.type, valid |-> TRUE] @@ BlankOrder

MaxOrderShares == 1000000
MaxOrderPrice == 19999999

SizedOK(o) == o.shares > 0 /\ o.shares <= MaxOrderShares
PricedOK(o) == o.price > 0 /\ o.price <= MaxOrderPrice

\* validate_order returns no complaint
Validated(o) ==
    /\ o.valid /\ o.token # ""
    /\ o.type = "O" => o.side \in {"B", "S"} /\ SizedOK(o) /\ PricedOK(o) /\ o.stock # ""
    /\ o.type = "U" => o.new_token # "" /\ SizedOK(o) /\ PricedOK(o)
    /\ o.type = "M" => SizedOK(o)
    /\ o.type = "X" => o.shares >= 0

------------------------------------------------------------------------------
(* Exchange to client *)

ReportLayout(type) ==
    CASE type = "A" -> [token |-> <<1, 14>>, side |-> <<15, 1>>, shares |-> <<16, 4>>, stock |-> <<20, 8>>,
                        price |-> <<28, 4>>, tif |-> <<32, 1>>, order_ref |-> <<33, 8>>]
      [] type = "E" -> [token |-> <<1, 14>>, shares |-> <<15, 4>>, price |-> <<19, 4>>, match |-> <<23, 8>>]
      [] type = "C" -> [token |-> <<1, 14>>, shares |-> <<15, 4>>, reason |-> <<19, 1>>]
      [] type = "J" -> [token |-> <<1, 14>>, reason |-> <<15, 1>>]
      [] type = "I" -> [token |-> <<1, 14>>, reason |-> <<15, 1>>]
      [] type = "P" -> [token |-> <<1, 14>>]
      [] type = "D" -> [token |-> <<1, 14>>, shares |-> <<15, 4>>, reason |-> <<19, 1>>]
      [] type = "S" -> [match |-> <<1, 8>>, reason |-> <<9, 1>>]
      [] type = "R" -> [token |-> <<1, 14>>, shares |-> <<15, 4>>, price |-> <<19, 4>>, reason |-> <<23, 1>>]
      [] type = "U" -> [token |-> <<1, 14>>, prev_token |-> <<15, 14>>, shares |-> <<29, 4>>,
                        price |-> <<33, 4>>, order_ref |-> <<37, 8>>]
      [] type = "B" -> [token |-> <<1, 14>>, shares |-> <<15, 4>>, match |-> <<19, 8>>, reason |-> <<27, 1>>]

\* what each encode_ returns
ReportLength(type) ==
    CASE type = "A" -> 41 [] type = "E" -> 31 [] type = "C" -> 20 [] type = "J" -> 16 [] type = "I" -> 16
      [] type = "P" -> 15 [] type = "D" -> 20 [] type = "S" -> 10 [] type = "R" -> 24 [] type = "U" -> 45
      [] type = "B" -> 28

EncodeReport(m) == Write(m.type, ReportLength(m.type), ReportLayout(m.type), m)

\* Mutant of ExpectedLength: one type shorter than its encoder.
ExpectedLengthShort(type) ==
    CASE type = "A" -> 41 [] type = "C" -> 20 [] type = "E" -> 31 [] type = "J" -> 16 [] type = "U" -> 37
      [] type = "B" -> 28 [] type = "I" -> 16 [] type = "P" -> 15 [] type = "D" -> 20 [] type = "S" -> 10
      [] type = "R" -> 24 [] OTHER -> 0

ExpectedLength(type) ==
    CASE type = "A" -> 41 [] type = "C" -> 20 [] type = "E" -> 31 [] type = "J" -> 16 [] type = "U" -> 45
      [] type = "B" -> 28 [] type = "I" -> 16 [] type = "P" -> 15 [] type = "D" -> 20 [] type = "S" -> 10
      [] type = "R" -> 24 [] OTHER -> 0

BlankResponse == [type |-> "", token |-> "", side |-> "", shares |-> 0, stock |-> "", price |-> 0,
                  order_ref |-> 0, match |-> 0, reason |-> "", prev_token |-> ""]

\* what parse_response reads, and the name it gives the type
Meaning ==
    [A |-> "ACCEPTED", C |-> "CANCELLED", E |-> "EXECUTED", B |-> "BROKEN", J |-> "REJECTED", I |-> "CXL_REJECT",
     P |-> "CXL_PEND", D |-> "AIQ_CXL", S |-> "SYS_EVENT", R |-> "RESTATED", U |-> "REPLACED"]

ReadReport(type) ==
    CASE type = "A" -> [token |-> <<1, 14>>, side |-> <<15, 1>>, shares |-> <<16, 4>>, stock |-> <<20, 8>>,
                        price |-> <<28, 4>>, order_ref |-> <<33, 8>>]
      [] type = "C" -> [token |-> <<1, 14>>, shares |-> <<15, 4>>, reason |-> <<19, 1>>]
      [] type = "E" -> [token |-> <<1, 14>>, shares |-> <<15, 4>>, price |-> <<19, 4>>, match |-> <<23, 8>>]
      [] type = "B" -> [token |-> <<1, 14>>, shares |-> <<15, 4>>, match |-> <<19, 8>>, reason |-> <<27, 1>>]
      [] type = "J" -> [token |-> <<1, 14>>, reason |-> <<15, 1>>]
      [] type = "I" -> [token |-> <<1, 14>>, reason |-> <<15, 1>>]
      [] type = "P" -> [token |-> <<1, 14>>]
      [] type = "D" -> [token |-> <<1, 14>>, shares |-> <<15, 4>>, reason |-> <<19, 1>>]
      [] type = "S" -> [match |-> <<1, 8>>, reason |-> <<9, 1>>]
      [] type = "R" -> [token |-> <<1, 14>>, shares |-> <<15, 4>>, price |-> <<19, 4>>, reason |-> <<23, 1>>]
      [] type = "U" -> [token |-> <<1, 14>>, prev_token |-> <<15, 14>>, shares |-> <<29, 4>>,
                        price |-> <<33, 4>>, order_ref |-> <<37, 8>>]

\* the guards of parse_response
ResponseGuard(type) ==
    CASE type = "A" -> 41 [] type = "C" -> 20 [] type = "E" -> 31 [] type = "B" -> 28 [] type = "J" -> 16
      [] type = "I" -> 16 [] type = "P" -> 15 [] type = "D" -> 20 [] type = "S" -> 10 [] type = "R" -> 24
      [] type = "U" -> 45

ParseResponse(w) ==
    IF w.len < 1 THEN [BlankResponse EXCEPT !.type = "ERROR"]
    ELSE IF w.type \notin DOMAIN Meaning THEN [BlankResponse EXCEPT !.type = "UNKNOWN"]
    ELSE IF w.len < ResponseGuard(w.type) THEN [BlankResponse EXCEPT !.type = "ERROR"]
    ELSE LET at == ReadReport(w.type)
             side(s) == IF s = "B" THEN "BUY" ELSE "SELL"
         IN  [f \in DOMAIN at |-> IF f = "side" THEN side(Read(w, f, at[f])) ELSE Read(w, f, at[f])]
             @@ [type |-> Meaning[w.type]] @@ BlankResponse

\* parse_stream over the first len bytes of messages laid end to end: the
\* responses parsed and the bytes consumed.  Between two messages' starts no
\* type byte is found.
ParseStream(messages, len) ==
    LET start(i) == FoldLeft(LAMBDA n, m : n + m.len, 0, SubSeq(messages, 1, i - 1))
        step(s, i) ==
            IF s.done \/ s.off # start(i) \/ s.off >= len THEN [s EXCEPT !.done = TRUE]
            ELSE LET n == ExpectedLength(messages[i].type)
                 IN  IF n <= 0 \/ s.off + n > len THEN [s EXCEPT !.done = TRUE]
                     ELSE [s EXCEPT !.off = @ + n,
                                    !.out = Append(@, ParseResponse([messages[i] EXCEPT !.len = n]))]
    IN  FoldLeft(step, [off |-> 0, out |-> <<>>, done |-> FALSE], [i \in DOMAIN messages |-> i])

------------------------------------------------------------------------------
(***************************************************************************)
(* ouch-protocol/ouch_order_state.hpp: OUCHOrderTracker, the client's      *)
(* picture of its orders, a record moved by on_new, on_cancel_sent and     *)
(* on_response.  Notionals are kept in 1/Unit cents, so that the           *)
(* proportional unwinding of a broken trade stays exact.                   *)
(***************************************************************************)
CONSTANT Unit  \* divisible by every number of shares an order or a side can have filled
ASSUME UnitAssumption == Unit \in Nat \ {0}

NewTracker ==
    [orders |-> <<>>, live |-> 0, filled |-> 0, cancelled |-> 0, rejected |-> 0, broken |-> 0,
     orderedShares |-> 0, brokenShares |-> 0, execCount |-> 0, execShares |-> 0, maxExec |-> 0, minExec |-> 0,
     cancelledShares |-> 0, lastReject |-> "", responses |-> 0, cancelRejects |-> 0, replaced |-> 0,
     desyncs |-> 0, notional |-> 0, bought |-> 0, sold |-> 0, buyNotional |-> 0, sellNotional |-> 0]

Tracked(t, token) == token \in DOMAIN t.orders
IsWorking(rec) == rec.state \in {"LIVE", "PARTIAL"}
Terminal == {"FILLED", "CANCELLED", "REJECTED"}
Lesser(a, b) == IF a < b THEN a ELSE b

OnNew(t, token, shares) ==
    [t EXCEPT !.orders = (token :> [state |-> "NEW", original |-> shares, remaining |-> shares, filled |-> 0,
                                    ref |-> 0, pending |-> FALSE, notional |-> 0, side |-> " ", price |-> 0]) @@ @,
              !.orderedShares = @ + shares]

OnCancelSent(t, token) ==
    IF Tracked(t, token) /\ IsWorking(t.orders[token])
    THEN [t EXCEPT !.orders[token].pending = TRUE] ELSE t

\* Mutant of OnReplaced: the filled shares do not follow the chain.
OnReplacedFresh(t, r) ==
    IF ~Tracked(t, r.prev_token) THEN [t EXCEPT !.rejected = @ + 1, !.desyncs = @ + 1]
    ELSE LET old == t.orders[r.prev_token]
             rest == [k \in DOMAIN t.orders \ {r.prev_token} |-> t.orders[k]]
         IN  [t EXCEPT !.replaced = @ + 1,
                       !.orders = (r.token :> [old EXCEPT !.remaining = r.shares, !.ref = r.order_ref,
                                                          !.pending = FALSE, !.price = r.price,
                                                          !.filled = 0, !.state = "LIVE"]) @@ rest]

\* A replaced order is looked up under its previous token and moves to the new one.
OnReplaced(t, r) ==
    IF ~Tracked(t, r.prev_token) THEN [t EXCEPT !.rejected = @ + 1, !.desyncs = @ + 1]
    ELSE LET old == t.orders[r.prev_token]
             rest == [k \in DOMAIN t.orders \ {r.prev_token} |-> t.orders[k]]
         IN  [t EXCEPT !.replaced = @ + 1,
                       !.orders = (r.token :> [old EXCEPT !.remaining = r.shares, !.ref = r.order_ref,
                                                          !.pending = FALSE, !.price = r.price,
                                                          !.state = IF old.filled > 0 THEN "PARTIAL" ELSE "LIVE"])
                                  @@ rest]

OnAccepted(t, r) ==
    [t EXCEPT !.live = @ + 1,
              !.orders[r.token] = [@ EXCEPT !.state = "LIVE", !.ref = r.order_ref, !.price = r.price,
                                            !.side = CASE r.side = "BUY" -> "B" [] r.side = "SELL" -> "S"
                                                       [] OTHER -> " "]]

\* An execution applies to a working order only, and to no more than it has left.
OnExecuted(t, r) ==
    LET rec == t.orders[r.token]
        exec == Lesser(r.shares, rec.remaining)
        paid == r.price * exec * Unit
        left == rec.remaining - exec
        moved == [rec EXCEPT !.filled = @ + exec, !.remaining = left, !.notional = @ + paid,
                             !.state = IF left <= 0 THEN "FILLED" ELSE IF exec > 0 THEN "PARTIAL" ELSE @]
        tape == [t EXCEPT !.execShares = @ + exec, !.execCount = @ + 1, !.notional = @ + paid,
                          !.maxExec = IF exec > @ THEN exec ELSE @,
                          !.minExec = IF @ = 0 \/ exec < @ THEN exec ELSE @,
                          !.bought = IF rec.side = "B" THEN @ + exec ELSE @,
                          !.buyNotional = IF rec.side = "B" THEN @ + paid ELSE @,
                          !.sold = IF rec.side = "S" THEN @ + exec ELSE @,
                          !.sellNotional = IF rec.side = "S" THEN @ + paid ELSE @]
    IN  IF rec.state \in Terminal THEN t
        ELSE [(IF exec > 0 THEN tape ELSE t) EXCEPT
                !.orders[r.token] = moved, !.filled = IF left <= 0 THEN @ + 1 ELSE @]

\* Every cancellation is taken to be of everything left, whatever r.shares says.
OnCancelled(t, r) ==
    [t EXCEPT !.cancelledShares = @ + t.orders[r.token].remaining, !.cancelled = @ + 1,
              !.orders[r.token] = [@ EXCEPT !.state = "CANCELLED", !.remaining = 0, !.pending = FALSE]]


\* A fill is taken back at the average price: the shares are open again.
OnBroken(t, r) ==
    LET rec == t.orders[r.token]
        back == Lesser(r.shares, rec.filled)
        unwind(n, of) == IF of > 0 THEN n - (n * back) \div of ELSE n
        moved == [rec EXCEPT !.notional = unwind(@, rec.filled), !.filled = @ - back, !.remaining = @ + back,
                             !.state = IF rec.filled - back > 0 THEN "PARTIAL" ELSE "LIVE"]
    IN  [t EXCEPT !.orders[r.token] = moved, !.broken = @ + 1, !.brokenShares = @ + back,
                  !.buyNotional = IF rec.side = "B" THEN unwind(@, t.bought) ELSE @,
                  !.bought = IF rec.side = "B" THEN @ - back ELSE @,
                  !.sellNotional = IF rec.side = "S" THEN unwind(@, t.sold) ELSE @,
                  !.sold = IF rec.side = "S" THEN @ - back ELSE @]

OnCancelPending(t, r) == [t EXCEPT !.orders[r.token].pending = TRUE]
OnCancelReject(t, r) == [t EXCEPT !.orders[r.token].pending = FALSE, !.cancelRejects = @ + 1]
OnRestated(t, r) == [t EXCEPT !.orders[r.token].remaining = r.shares, !.orders[r.token].price = r.price]

OnAIQCancelled(t, r) ==
    LET rec == t.orders[r.token]
        dec == Lesser(r.shares, rec.remaining)
        out == rec.remaining = dec
    IN  [t EXCEPT !.cancelledShares = @ + dec, !.cancelled = IF out THEN @ + 1 ELSE @,
                  !.orders[r.token] = [@ EXCEPT !.remaining = @ - dec,
                                                !.state = IF out THEN "CANCELLED" ELSE @,
                                                !.pending = @ /\ ~out]]

OnRejected(t, r) == [t EXCEPT !.orders[r.token].state = "REJECTED", !.rejected = @ + 1,
                              !.lastReject = IF r.reason # "" THEN r.reason ELSE @]
OnError(t, r) == [t EXCEPT !.orders[r.token].state = "REJECTED", !.rejected = @ + 1]

OnResponse(t0, r) ==
    LET t == [t0 EXCEPT !.responses = @ + 1]
    IN  IF r.type = "REPLACED" THEN OnReplaced(t, r)
        ELSE IF ~Tracked(t, r.token) THEN [t EXCEPT !.rejected = @ + 1, !.desyncs = @ + 1]
        ELSE CASE r.type = "ACCEPTED"   -> OnAccepted(t, r)
               [] r.type = "EXECUTED"   -> OnExecuted(t, r)
               [] r.type = "CANCELLED"  -> OnCancelled(t, r)
               [] r.type = "BROKEN"     -> OnBroken(t, r)
               [] r.type = "CXL_PEND"   -> OnCancelPending(t, r)
               [] r.type = "CXL_REJECT" -> OnCancelReject(t, r)
               [] r.type = "RESTATED"   -> OnRestated(t, r)
               [] r.type = "AIQ_CXL"    -> OnAIQCancelled(t, r)
               [] r.type = "REJECTED"   -> OnRejected(t, r)
               [] OTHER                 -> OnError(t, r)

ResetSession(t) == NewTracker

------------------------------------------------------------------------------
(***************************************************************************)
(* ouch-protocol/ouch_order_state.hpp: what OUCHOrderTracker answers about *)
(* its orders and its fills.  Notionals are in 1/Unit cents as in          *)
(* OUCHTracker, a ratio is a pair, <<0, 0>> where the code returns 0.0     *)
(* because it has no value.                                                *)
(***************************************************************************)
Part(n, d) == IF d > 0 THEN <<n, d>> ELSE <<0, 0>>
SumOver(t, tokens, value(_)) == MapThenSumSet(LAMBDA k : value(t.orders[k]), tokens)

WorkingTokens(t) == {k \in DOMAIN t.orders : IsWorking(t.orders[k])}
SideTokens(t, side) == {k \in WorkingTokens(t) : t.orders[k].side = side}
PendingTokens(t) == {k \in DOMAIN t.orders : t.orders[k].pending}

IsPendingCancel(t, k) == Tracked(t, k) /\ t.orders[k].pending
State(t, k) == IF Tracked(t, k) THEN t.orders[k].state ELSE "REJECTED"
Remaining(t, k) == IF Tracked(t, k) THEN t.orders[k].remaining ELSE 0
Filled(t, k) == IF Tracked(t, k) THEN t.orders[k].filled ELSE 0
FilledFraction(t, k) == Part(Filled(t, k), Filled(t, k) + Remaining(t, k))
AvgFillPrice(t, k) == IF Filled(t, k) <= 0 THEN <<0, 0>> ELSE <<t.orders[k].notional, Filled(t, k)>>
FillVwap(t) == Part(t.notional, t.execShares)
OrderCount(t) == Cardinality(DOMAIN t.orders)

TotalFilledShares(t) == SumOver(t, DOMAIN t.orders, LAMBDA o : o.filled)
TotalRemainingShares(t) == SumOver(t, DOMAIN t.orders, LAMBDA o : o.remaining)
WorkingShares(t) == SumOver(t, WorkingTokens(t), LAMBDA o : o.remaining)
LargestRemaining(t) == Max({0} \cup {t.orders[k].remaining : k \in WorkingTokens(t)})
WorkingSharesSide(t, side) == SumOver(t, SideTokens(t, side), LAMBDA o : o.remaining)
WorkingNotional(t) == SumOver(t, WorkingTokens(t), LAMBDA o : o.remaining * o.price * Unit)
WorkingNotionalSide(t, side) == SumOver(t, SideTokens(t, side), LAMBDA o : o.remaining * o.price * Unit)
NetWorkingNotional(t) == WorkingNotionalSide(t, "B") - WorkingNotionalSide(t, "S")
WorkingVwap(t, side) == Part(WorkingNotionalSide(t, side), WorkingSharesSide(t, side))

NetFilledShares(t) == t.bought - t.sold
AvgBuyPrice(t) == Part(t.buyNotional, t.bought)
AvgSellPrice(t) == Part(t.sellNotional, t.sold)
\* avg_sell_price() - avg_buy_price()
RealizedSpreadCapture(t) ==
    IF t.bought > 0 /\ t.sold > 0
    THEN <<t.sellNotional * t.bought - t.buyNotional * t.sold, t.sold * t.bought>> ELSE <<0, 0>>
RealizedSpreadCaptureBps(t) ==
    IF t.bought > 0 /\ t.sold > 0 /\ t.buyNotional > 0
    THEN <<(t.sellNotional * t.bought - t.buyNotional * t.sold) * 10000, t.sold * t.buyNotional>> ELSE <<0, 0>>
GrossTradedNotional(t) == t.notional
NetCashFlow(t) == t.sellNotional - t.buyNotional
MarkToMarketPnl(t, mark) == NetCashFlow(t) + NetFilledShares(t) * mark * Unit
\* matched shares at the spread between the two averages
RealizedPnl(t) ==
    LET matched == Lesser(t.bought, t.sold)
        spread == RealizedSpreadCapture(t)
    IN  IF matched > 0 THEN <<matched * spread[1], spread[2]>> ELSE <<0, 1>>
UnrealizedPnl(t, mark) ==
    <<MarkToMarketPnl(t, mark) * RealizedPnl(t)[2] - RealizedPnl(t)[1], RealizedPnl(t)[2]>>
BreakevenMark(t) == IF NetFilledShares(t) # 0 THEN <<-NetCashFlow(t), NetFilledShares(t)>> ELSE <<0, 0>>
NetWorkingShares(t) == WorkingSharesSide(t, "B") - WorkingSharesSide(t, "S")
ProjectedNetShares(t) == NetFilledShares(t) + NetWorkingShares(t)

\* the token is one of those with the most left; which of them the map decides
LargestRemainingToken(t, token) ==
    IF LargestRemaining(t) = 0 THEN token = ""
    ELSE token \in WorkingTokens(t) /\ t.orders[token].remaining = LargestRemaining(t)
AvgWorkingShares(t) == Part(WorkingShares(t), Cardinality(WorkingTokens(t)))
ActiveCount(t) == Cardinality({k \in DOMAIN t.orders : t.orders[k].state \notin Terminal})
CancelPendingCount(t) == Cardinality(PendingTokens(t))
PendingCancelShares(t) == SumOver(t, PendingTokens(t), LAMBDA o : o.remaining)
PendingCancelFraction(t) == Part(PendingCancelShares(t), WorkingShares(t))
PendingCancelNotional(t) == SumOver(t, PendingTokens(t), LAMBDA o : o.remaining * o.price * Unit)
StatusCount(t, state) == Cardinality({k \in DOMAIN t.orders : t.orders[k].state = state})
FillRate(t) == Part(TotalFilledShares(t), t.orderedShares)
DesyncRate(t) == Part(t.desyncs, t.responses)
BrokenShareRate(t) == Part(t.brokenShares, t.orderedShares)
CancelledShareRate(t) == Part(t.cancelledShares, t.orderedShares)
CancelToFillRatio(t) == Part(t.cancelledShares, TotalFilledShares(t))
RejectRate(t) == Part(t.rejected, OrderCount(t))
CancelRate(t) == Part(t.cancelled, OrderCount(t))
OrderFillRate(t) == Part(t.filled, OrderCount(t))
AvgExecShares(t) == Part(t.execShares, t.execCount)
AvgOrderSize(t) == Part(t.orderedShares, OrderCount(t))
ExecutionsPerOrder(t) == Part(t.execCount, OrderCount(t))

------------------------------------------------------------------------------
(***************************************************************************)
(* ouch-protocol/soupbin.hpp and soupbin_session.hpp: frames, the          *)
(* sequence tracker, the heartbeat timer, the session client and the mock  *)
(* exchange.  A frame is its type, the length its header announces and     *)
(* what it carries.                                                        *)
(***************************************************************************)
HeaderSize == 3
UsernameLen == 6
PasswordLen == 10
SessionLen == 10
SeqnumLen == 20

\* pack_header: the length of the type byte and the payload
Frame(type, payloadLen, body) == [type |-> type, rest |-> 1 + payloadLen, body |-> body]
PackHeartbeat(clientSide) == Frame(IF clientSide THEN "R" ELSE "H", 0, <<>>)
PackLoginRequest(seq) == Frame("L", UsernameLen + PasswordLen + SessionLen + SeqnumLen, [seq |-> seq])
PackLogoutRequest == Frame("O", 0, <<>>)
\* pack_data with room for it
PackData(wire, clientSide) == Frame(IF clientSide THEN "U" ELSE "S", wire.len, wire)

\* pack_enter_order, pack_cancel_order, pack_replace_order
PackEnterOrder(token, side, shares, price) ==
    PackData(EncodeOrder([type |-> "O", token |-> token, side |-> side, shares |-> shares, stock |-> "STK",
                          price |-> price, tif |-> "D"]), TRUE)
PackCancelOrder(token, shares) ==
    PackData(EncodeOrder([type |-> "X", token |-> token, shares |-> shares]), TRUE)
PackReplaceOrder(token, new, shares, price) ==
    PackData(EncodeOrder([type |-> "U", token |-> token, new_token |-> new, shares |-> shares, price |-> price]), TRUE)

\* the bytes parse_packet consumes
FrameLength(f) == 2 + f.rest
Bytes(frames) == FoldLeft(LAMBDA n, f : n + FrameLength(f), 0, frames)

\* parse_packet needs the header, a type and all that the header announces.
Complete(f, len) == len >= HeaderSize /\ f.rest >= 1 /\ len >= FrameLength(f)

------------------------------------------------------------------------------
(* SequenceTracker and OuchSessionClient *)

ResetTo(start) == [expected |-> start, received |-> 0, gaps |-> 0]
ObserveSequenced(s) == [s EXCEPT !.expected = @ + 1, !.received = @ + 1]

NewClient == [loggedIn |-> FALSE, ended |-> FALSE, seq |-> ResetTo(1),
              kind |-> [k \in {"ACCEPTED", "EXECUTED", "CANCELLED", "REJECTED", "REPLACED", "other"} |-> 0],
              heartbeats |-> 0, errors |-> 0]

\* Mutant of LoginAccepted: the numbering starts afresh.
LoginAcceptedAtOne(c, f) == [c EXCEPT !.loggedIn = TRUE, !.seq = ResetTo(1)]

LoginAccepted(c, f) ==
    [c EXCEPT !.loggedIn = TRUE,
              !.seq = IF f.rest - 1 >= SessionLen + SeqnumLen
                      THEN ResetTo(IF f.body.seq = 0 THEN 1 ELSE f.body.seq) ELSE @]
LoginRejected(c, f) == [c EXCEPT !.loggedIn = FALSE, !.errors = @ + 1]

SequencedData(c, f) ==
    LET type == ParseResponse(f.body).type
        seen == [c EXCEPT !.seq = ObserveSequenced(@)]
    IN  IF type \in {"ERROR", "UNKNOWN"} THEN [seen EXCEPT !.errors = @ + 1]
        ELSE [seen EXCEPT !.kind[IF type \in DOMAIN c.kind THEN type ELSE "other"] = @ + 1]

\* on_packet for a valid packet
OnPacket(c, f) ==
    CASE f.type = "A" -> LoginAccepted(c, f)
      [] f.type = "J" -> LoginRejected(c, f)
      [] f.type = "S" -> SequencedData(c, f)
      [] f.type = "H" -> [c EXCEPT !.heartbeats = @ + 1]
      [] f.type = "Z" -> [c EXCEPT !.ended = TRUE]
      [] f.type = "+" -> c
      [] OTHER        -> [c EXCEPT !.errors = @ + 1]

\* consume: the number of frames that are complete in the first len bytes
Whole(frames, len) ==
    Max({n \in 0..Len(frames) :
           \A i \in 1..n : Complete(frames[i], len - Bytes(SubSeq(frames, 1, i - 1)))})

------------------------------------------------------------------------------
(* mock_exchange_respond *)

\* Answers to the frames of a client stream, as long as there is room for them:
\* an order is accepted and at once filled.
MockExchangeRespond(frames, cap, startSeq) ==
    LET room(s, n) == s.bytes + n <= cap
        put(s, f) == [s EXCEPT !.out = Append(@, f), !.bytes = @ + FrameLength(f)]
        report(m) == PackData(EncodeReport(m), FALSE)
        step(s, f) ==
            IF s.full THEN s
            ELSE IF f.type = "L"
            THEN LET a == Frame("A", SessionLen + SeqnumLen, [seq |-> startSeq])
                 IN  IF room(s, FrameLength(a)) THEN put(s, a) ELSE [s EXCEPT !.full = TRUE]
            ELSE IF f.type = "U" /\ f.body.type = "O"
            THEN LET o == ParseOrder(f.body)
                     a == report([type |-> "A", token |-> o.token, side |-> o.side, shares |-> o.shares,
                                  stock |-> o.stock, price |-> o.price, order_ref |-> s.ref, tif |-> o.tif])
                     e == report([type |-> "E", token |-> o.token, shares |-> o.shares, price |-> o.price,
                                  match |-> s.match])
                     one == [put(s, a) EXCEPT !.ref = @ + 1]
                 IN  IF ~room(s, FrameLength(a)) THEN [s EXCEPT !.full = TRUE]
                     ELSE IF ~room(one, FrameLength(e)) THEN [one EXCEPT !.full = TRUE]
                     ELSE [put(one, e) EXCEPT !.match = @ + 1]
            ELSE IF f.type = "O"
            THEN IF room(s, HeaderSize) THEN put(s, Frame("Z", 0, <<>>)) ELSE [s EXCEPT !.full = TRUE]
            ELSE s
    IN  FoldLeft(step, [out |-> <<>>, bytes |-> 0, ref |-> 7000, match |-> 90000, full |-> FALSE], frames).out
==============================================================================
