------------------------------ MODULE OrderBook ------------------------------
(***************************************************************************)
(* orderbook/orderbook_pro.hpp: the state of FullOrderBook as a record and *)
(* its private helpers as operators from one book to the next.             *)
(*                                                                         *)
(* Orders live in the slots of a pool; a level is one queue of slots, bids *)
(* and asks together, with its aggregates.  Left out: the events, the      *)
(* clock, and the order types MARKET and AON, which are treated as LIMIT;  *)
(* the statistics are in BookStats.                                        *)
(***************************************************************************)
EXTENDS Integers, Sequences, SequencesExt, FiniteSetsExt

CONSTANTS MaxTick,        \* LEVELS - 1
          Pool,           \* MAX_ORDERS
          MaxId,          \* bound: order ids, given out from 1
          Client,         \* client_id; 0 is anonymous
          Firm            \* client_to_firm_; 0 is none

Price == 0..MaxTick
Slot == 1..Pool
Id == 1..MaxId
NoBid == -1
NoAsk == MaxTick + 1
Opposite(side) == IF side = "BUY" THEN "SELL" ELSE "BUY"
Least(a, b) == IF a <= b THEN a ELSE b

Blank == [id |-> 0, client |-> 0, price |-> 0, total |-> 0, filled |-> 0, shown |-> 0,
          side |-> "BUY", type |-> "LIMIT", tif |-> "DAY", status |-> "NEW",
          trigger |-> 0, offset |-> 0, ice |-> 0]

NoSpec == [side |-> "BUY", tp |-> 0, sl |-> 0, qty |-> 0, client |-> 0]

EmptyBook == [order |-> [k \in Slot |-> Blank],
              free |-> [k \in Slot |-> k],            \* free_list_head_ first
              index |-> [i \in Id |-> 0],             \* id_index_; 0: not in it
              level |-> [p \in Price |-> [queue |-> <<>>, qty |-> 0, hidden |-> 0, count |-> 0]],
              bid |-> NoBid, ask |-> NoAsk, last |-> -1,
              stops |-> <<>>, pegs |-> <<>>,
              oco |-> [i \in Id |-> 0], ocoDue |-> <<>>,
              specs |-> [i \in Id |-> NoSpec], armDue |-> <<>>,
              mmp |-> [c \in Client |-> [fills |-> 0, tripped |-> FALSE]], mmpDue |-> <<>>,
              nextId |-> 1, auction |-> FALSE, phase |-> "CONTINUOUS", halted |-> FALSE,
              expo |-> [c \in Client |-> [buy |-> 0, sell |-> 0, net |-> 0]],
              moc |-> <<>>, loc |-> <<>>, ssr |-> FALSE]

HasBid(b) == b.bid # NoBid
HasAsk(b) == b.ask # NoAsk
Mid(b) == IF HasBid(b) /\ HasAsk(b) THEN (b.bid + b.ask) \div 2 ELSE -1
Remaining(o) == o.total - o.filled
Hidden(o) == o.total - o.filled - o.shown
Active(o) == o.status \in {"OPEN", "PARTIAL"}
Waiting(o) == o.type = "STOP" /\ o.status = "NEW"

------------------------------------------------------------------------------
(***************************************************************************)
(* The pool and the levels                                                 *)
(***************************************************************************)
\* alloc_order, with the fields its callers set
AllocOrder(b, o) == [b EXCEPT !.order[Head(b.free)] = o, !.free = Tail(@)]

\* Nothing reads the fields of a free slot.
FreeOrder(b, k) == [b EXCEPT !.free = <<k>> \o @, !.order[k] = Blank]

EnqueueAtLevel(b, k) ==
    LET o == b.order[k]
    IN  [b EXCEPT !.level[o.price] = [queue |-> Append(@.queue, k), qty |-> @.qty + o.shown,
                                      hidden |-> @.hidden + Hidden(o), count |-> @.count + 1]]

UnlinkFromLevel(b, k) ==
    LET o == b.order[k]
    IN  [b EXCEPT !.level[o.price] = [queue |-> Remove(@.queue, k), qty |-> @.qty - o.shown,
                                      hidden |-> @.hidden - Hidden(o), count |-> @.count - 1]]

Displayed(b) == {p \in Price : b.level[p].qty > 0}

RefreshBestBidFrom(b, start) ==
    LET ps == {p \in Displayed(b) : p <= start}
    IN  [b EXCEPT !.bid = IF start \notin Price \/ ps = {} THEN NoBid ELSE Max(ps)]

RefreshBestAskFrom(b, start) ==
    LET ps == {p \in Displayed(b) : p >= start}
    IN  [b EXCEPT !.ask = IF start \notin Price \/ ps = {} THEN NoAsk ELSE Min(ps)]

\* Mutant of RefreshAfter: the best ask is left as it was.
RefreshAfterBid(b, side, price) ==
    IF b.level[price].queue # <<>> \/ side = "SELL" \/ price # b.bid THEN b
    ELSE RefreshBestBidFrom(b, price - 1)

\* After an order has left its level: only a best level that is now empty matters.
RefreshAfter(b, side, price) ==
    IF b.level[price].queue # <<>> THEN b
    ELSE IF side = "BUY" /\ price = b.bid THEN RefreshBestBidFrom(b, price - 1)
    ELSE IF side = "SELL" /\ price = b.ask THEN RefreshBestAskFrom(b, price + 1)
    ELSE b

\* Mutant of Improve: the latest order sets the best price.
ImproveAlways(b, side, price) ==
    IF side = "BUY" THEN [b EXCEPT !.bid = price] ELSE [b EXCEPT !.ask = price]

\* The update of the best price when an order enters the book.
Improve(b, side, price) ==
    IF side = "BUY" THEN [b EXCEPT !.bid = IF @ = NoBid \/ price > @ THEN price ELSE @]
    ELSE [b EXCEPT !.ask = IF @ = NoAsk \/ price < @ THEN price ELSE @]

------------------------------------------------------------------------------
(***************************************************************************)
(* account_exposure_: what each client has open, and its net position.     *)
(* Anonymous orders are not counted.                                       *)
(***************************************************************************)
Open(b, client, side, qty) ==
    IF client = 0 THEN b
    ELSE IF side = "BUY" THEN [b EXCEPT !.expo[client].buy = @ + qty]
    ELSE [b EXCEPT !.expo[client].sell = @ + qty]
ExposureOnSubmit(b, o) == Open(b, o.client, o.side, o.total)
ExposureOnCancel(b, o) == Open(b, o.client, o.side, -Remaining(o))
\* Mutant of ExposureOnFill: a sale adds to the position.
ExposureOnFillGross(b, o, n) ==
    LET c == Open(b, o.client, o.side, -n)
    IN  IF o.client = 0 THEN c ELSE [c EXCEPT !.expo[o.client].net = @ + n]
ExposureOnFill(b, o, n) ==
    LET c == Open(b, o.client, o.side, -n)
    IN  IF o.client = 0 THEN c
        ELSE [c EXCEPT !.expo[o.client].net = IF o.side = "BUY" THEN @ + n ELSE @ - n]

------------------------------------------------------------------------------
(***************************************************************************)
(* Linked orders, and cancellation                                         *)
(***************************************************************************)
OcoOnComplete(b, id) ==
    LET partner == b.oco[id]
    IN  IF partner = 0 THEN b
        ELSE [b EXCEPT !.oco[id] = 0, !.oco[partner] = 0, !.ocoDue = Append(@, partner)]

BracketOnFullFill(b, id) ==
    IF b.specs[id] = NoSpec THEN b
    ELSE [b EXCEPT !.armDue = Append(@, b.specs[id]), !.specs[id] = NoSpec]

LinkOco(b, x, y) ==
    IF \/ x = y
       \/ b.index[x] = 0 \/ b.index[y] = 0
       \/ b.oco[x] # 0 \/ b.oco[y] # 0
    THEN b ELSE [b EXCEPT !.oco[x] = y, !.oco[y] = x]

UnlinkOco(b, id) ==
    IF b.oco[id] = 0 THEN b ELSE [b EXCEPT !.oco[id] = 0, !.oco[b.oco[id]] = 0]

\* An order leaves the index, its pair and its bracket, and its slot is free.
Retire(b, k, status) ==
    LET id == b.order[k].id
        c == OcoOnComplete([b EXCEPT !.order[k].status = status, !.index[id] = 0], id)
    IN  FreeOrder([c EXCEPT !.specs[id] = NoSpec], k)

\* cancel_internal, and with "EXPIRED" the body of expire_gtd, which leaves the
\* account's exposure as it was
TakeOff(b, k, status) ==
    LET o == b.order[k]
        u == RefreshAfter(UnlinkFromLevel(b, k), o.side, o.price)
    IN  IF ~Active(o) THEN b
        ELSE Retire(IF status = "EXPIRED" THEN u ELSE ExposureOnCancel(u, o), k, status)
CancelInternal(b, k) == TakeOff(b, k, "CANCELLED")

\* The element at i is replaced by the last one.
SwapErase(s, i) == Front([s EXCEPT ![i] = Last(s)])

CancelPendingStop(b, k) ==
    LET at == {i \in DOMAIN b.stops : b.stops[i] = k}
    IN  IF at = {} THEN b
        ELSE Retire([b EXCEPT !.stops = SwapErase(@, Min(at))], k, "CANCELLED")

CancelEither(b, k) ==
    IF Waiting(b.order[k]) THEN CancelPendingStop(b, k) ELSE CancelInternal(b, k)

\* process_oco_pending: from the back of the queue
ProcessOcoPending(b) ==
    LET step(id, c) == IF c.index[id] = 0 THEN c ELSE CancelEither(c, c.index[id])
    IN  FoldRight(step, b.ocoDue, [b EXCEPT !.ocoDue = <<>>])

\* mass_cancel: orders in the book first, then waiting stops
MassCancel(b, client) ==
    LET mine == {k \in Range(b.index) \ {0} : b.order[k].client = client}
        open == SetToSortSeq({k \in mine : Active(b.order[k])}, <)
        stop == SetToSortSeq({k \in mine : Waiting(b.order[k])}, <)
    IN  ProcessOcoPending(FoldLeft(CancelPendingStop, FoldLeft(CancelInternal, b, open), stop))

------------------------------------------------------------------------------
(***************************************************************************)
(* orderbook/orderbook_pro.hpp: continuous trading on FullOrderBook.  The  *)
(* book has one thread; a step is one maker met, or one return from a call *)
(* to submit, so that the loops of the matching engine and its calls into  *)
(* itself (exits of brackets, triggered stops, replacements) are steps     *)
(* and may fail to end.  The calls that have not returned are a stack.     *)
(***************************************************************************)
CONSTANTS Scenarios,      \* features in use, with bounds: calls, clients, prices, quantities
          MaxFills,       \* MMP: fills a maker may get in a window
          Band            \* the prices within the LULD bands

VARIABLES book,
          call,           \* stack of pending calls, the innermost first
          ret,            \* what the last submit returned; 0 is a reject
          hist,           \* history: what was asked and executed under each id
          use,            \* the scenario of this behaviour
          requests        \* how many calls were made

vars == <<book, call, ret, hist, use, requests>>

Side == {"BUY", "SELL"}
\* A quantity asked for, what must be executed at once, what was executed, and
\* whether an order that replaced a partly filled one was modified again; whose it is.
Asked == [qty |-> 0, least |-> 0, got |-> 0, again |-> FALSE, who |-> 0, side |-> "BUY"]

Init == /\ book = EmptyBook
        /\ call = <<>>
        /\ ret = 0
        /\ hist = [i \in Id |-> Asked]
        /\ use \in Scenarios
        /\ requests = 0

Idle == call = <<>>
Top == Head(call)
Below == Tail(call)
At(place) == ~Idle /\ Top.at = place

------------------------------------------------------------------------------
(***************************************************************************)
(* submit, up to the match                                                 *)
(***************************************************************************)
NewOrder(side, price, qty) ==
    [side |-> side, price |-> price, qty |-> qty, type |-> "LIMIT", tif |-> "DAY", id |-> 0,
     client |-> 0, show |-> 0, min |-> 0, internal |-> FALSE, asked |-> qty, again |-> FALSE]

WouldCross(b, side, p) == IF side = "BUY" THEN HasAsk(b) /\ p >= b.ask ELSE HasBid(b) /\ p <= b.bid

\* Mutant of Available: levels beyond the limit price count.
AvailableAnyPrice(b, side, price) ==
    MapThenSumSet(LAMBDA p : b.level[p].qty,
                  {p \in Price : IF side = "BUY" THEN b.ask <= p ELSE p <= b.bid})

\* What fok_fillable and walk_the_book find up to a limit price.
Available(b, side, price) ==
    MapThenSumSet(LAMBDA p : b.level[p].qty,
                  {p \in Price : IF side = "BUY" THEN b.ask <= p /\ p <= price
                                 ELSE price <= p /\ p <= b.bid})

Whole(r) == r.type = "FOK" \/ r.tif = "FOK"
Resting(b, r) == r.type \in {"POST_ONLY", "HIDDEN"} \/ b.auction

\* The checks of submit before the price bands
Eligible(b, r) ==
    /\ b.phase # "CLOSED" /\ ~b.halted
    /\ r.qty > 0 /\ r.price \in Price
    /\ r.id # 0 => b.index[r.id] = 0
    /\ ~r.internal => ~b.mmp[r.client].tripped

\* A price outside the bands is refused, and stops the book: trading, or orders too.
Breach(b, r) == "luld" \in use.on /\ Eligible(b, r) /\ r.price \notin Band
Refused(b, r) == IF ~Breach(b, r) THEN b
                 ELSE IF "pause" \in use.on THEN [b EXCEPT !.auction = TRUE]
                 ELSE [b EXCEPT !.halted = TRUE]

Admissible(b, r) ==
    /\ Eligible(b, r) /\ ~Breach(b, r)
    /\ r.type = "POST_ONLY" => ~WouldCross(b, r.side, r.price)
    /\ Whole(r) => Available(b, r.side, r.price) >= r.qty
    /\ ~Resting(b, r) => Least(r.qty, Available(b, r.side, r.price)) >= r.min
    /\ b.free # <<>>

\* The order submit makes of a request
Incoming(b, r) ==
    LET ice == IF r.type = "ICEBERG" /\ r.show > 0 THEN Least(r.show, r.qty) ELSE 0
    IN  [Blank EXCEPT !.id = IF r.id = 0 THEN b.nextId ELSE r.id, !.client = r.client,
                      !.price = r.price, !.total = r.qty, !.ice = ice,
                      !.shown = IF r.type = "HIDDEN" THEN 0 ELSE IF ice > 0 THEN ice ELSE r.qty,
                      !.side = r.side, !.type = r.type, !.tif = r.tif]

Accept(b, r) ==
    ExposureOnSubmit(AllocOrder([b EXCEPT !.nextId = IF r.id = 0 THEN @ + 1 ELSE @], Incoming(b, r)),
                     Incoming(b, r))

\* The end of submit for an order that is not complete: it enters the book.
Rest(b, k) ==
    LET o == b.order[k]
        s == [b EXCEPT !.order[k].status = IF o.filled > 0 THEN "PARTIAL" ELSE "OPEN",
                       !.order[k].shown = IF o.filled > 0 THEN Least(@, Remaining(o)) ELSE @,
                       !.index[o.id] = k]
        e == EnqueueAtLevel(s, k)
    IN  IF o.type = "HIDDEN" THEN e ELSE Improve(e, o.side, o.price)

\* The end of submit: filled, cancelled (IOC) or resting
Complete(b, k) ==
    LET o == b.order[k]
    IN  CASE o.filled >= o.total -> FreeOrder([b EXCEPT !.order[k].status = "FILLED"], k)
          [] o.filled < o.total /\ "IOC" \in {o.type, o.tif} ->
                FreeOrder([b EXCEPT !.order[k].status = "CANCELLED"], k)
          [] OTHER -> Rest(b, k)

Matching(k, left) == [at |-> "match", slot |-> k, left |-> left, level |-> -1, maker |-> 0]

Noted(h, id, r, least) ==
    [h EXCEPT ![id] = [@ EXCEPT !.qty = r.asked, !.again = @ \/ r.again, !.least = least,
                                !.who = r.client, !.side = r.side]]

\* submit(r) on book b, to return into the calls of stack.  A client over its
\* message rate is refused like any other.
Submit(b, r, stack) ==
    \/ /\ Admissible(b, r)
       /\ LET k == Head(b.free)
              c == Accept(b, r)
              id == c.order[k].id
          IN  /\ IF Resting(b, r)
                 THEN book' = Complete(c, k) /\ call' = stack /\ ret' = id
                 ELSE book' = c /\ call' = <<Matching(k, r.qty)>> \o stack /\ ret' = ret
              /\ hist' = Noted(hist, id, r, IF Whole(r) THEN r.qty ELSE IF Resting(b, r) THEN 0 ELSE r.min)
    \/ /\ ~Admissible(b, r)
       /\ book' = Refused(b, r) /\ call' = stack /\ ret' = 0 /\ hist' = hist
    \/ /\ Eligible(b, r) /\ "throttle" \in use.on /\ ~r.internal /\ r.client # 0
       /\ book' = b /\ call' = stack /\ ret' = 0 /\ hist' = hist

------------------------------------------------------------------------------
(***************************************************************************)
(* match_against and match_at_level                                        *)
(***************************************************************************)
Taker == book.order[Top.slot]
Maker == book.order[Top.maker]

CanMatch == /\ Top.left > 0
            /\ WouldCross(book, Taker.side, Taker.price)

EnterLevel == /\ At("match") /\ Top.level = -1 /\ CanMatch
              /\ LET p == IF Taker.side = "BUY" THEN book.ask ELSE book.bid
                     q == book.level[p].queue
                 IN  call' = <<[Top EXCEPT !.level = p,
                                           !.maker = IF q = <<>> THEN 0 ELSE Head(q)]>> \o Below
              /\ UNCHANGED <<book, ret, hist, use, requests>>

Meeting == At("match") /\ Top.level # -1 /\ Top.maker # 0 /\ Top.left > 0

\* next_at_level, read before the maker is moved or freed
NextMaker == LET q == book.level[Top.level].queue
                 i == CHOOSE i \in DOMAIN q : q[i] = Top.maker
             IN  IF i = Len(q) THEN 0 ELSE q[i + 1]

SameEntity(x, y) == /\ x # 0 /\ y # 0
                    /\ x = y \/ (Firm[x] # 0 /\ Firm[x] = Firm[y])

Policies == {"newest", "oldest", "both"}

SelfTrade(policy) == /\ Meeting /\ use.on \cap Policies = {policy}
                     /\ SameEntity(Maker.client, Taker.client)

StpCancelNewest == /\ SelfTrade("newest")
                   /\ call' = <<[Top EXCEPT !.left = 0]>> \o Below
                   /\ UNCHANGED <<book, ret, hist, use, requests>>

StpCancelOldest == /\ SelfTrade("oldest")
                   /\ book' = CancelInternal(book, Top.maker)
                   /\ call' = <<[Top EXCEPT !.maker = NextMaker]>> \o Below
                   /\ UNCHANGED <<ret, hist, use, requests>>

StpCancelBoth == /\ SelfTrade("both")
                 /\ book' = CancelInternal(book, Top.maker)
                 /\ call' = <<[Top EXCEPT !.left = 0]>> \o Below
                 /\ UNCHANGED <<ret, hist, use, requests>>

\* mmp_on_maker_fill; the window may have run out
MmpOnMakerFill(b, client, expired) ==
    LET m == b.mmp[client]
        n == IF expired THEN 1 ELSE m.fills + 1
    IN  IF "mmp" \notin use.on \/ client = 0 \/ m.tripped THEN b
        ELSE [b EXCEPT !.mmp[client] = [fills |-> n, tripped |-> n > MaxFills],
                       !.mmpDue = IF n > MaxFills THEN Append(@, client) ELSE @]

\* An iceberg shows its next part and goes to the back of the queue.
Refill(b, k) ==
    LET o == b.order[k]
        show == Least(Remaining(o), o.ice)
    IN  [b EXCEPT !.order[k].shown = show,
                  !.level[o.price] = [@ EXCEPT !.qty = @ + show, !.hidden = @ - show,
                                               !.queue = Append(Remove(@, k), k)]]

\* A maker that is filled leaves the level by hand, not through unlink_from_level.
MakerDone(b, k) ==
    LET o == b.order[k]
        u == [b EXCEPT !.order[k].status = "FILLED", !.index[o.id] = 0,
                       !.level[o.price] = [@ EXCEPT !.queue = Remove(@, k), !.count = @ - 1]]
    IN  FreeOrder(BracketOnFullFill(OcoOnComplete(u, o.id), o.id), k)

AfterFill(b, k) ==
    LET o == b.order[k]
    IN  IF o.shown = 0 /\ Remaining(o) > 0 /\ o.type = "ICEBERG" THEN Refill(b, k)
        ELSE IF o.filled >= o.total THEN MakerDone(b, k)
        ELSE [b EXCEPT !.order[k].status = "PARTIAL"]

\* The circuit breaker of record_trade for short sales, armed at the lowest price
Declined(price) == "short" \in use.on /\ price <= Min(use.prices)

\* One execution, with record_trade
Trade == /\ Meeting
         /\ use.on \cap Policies # {} => ~SameEntity(Maker.client, Taker.client)
         /\ LET n == Least(Top.left, Maker.shown)
                b == [book EXCEPT !.order[Top.maker].filled = @ + n,
                                  !.order[Top.maker].shown = @ - n,
                                  !.order[Top.slot].filled = @ + n,
                                  !.level[Top.level].qty = @ - n,
                                  !.last = Maker.price, !.ssr = @ \/ Declined(Maker.price)]
                c == ExposureOnFill(ExposureOnFill(b, Maker, n), Taker, n)
            IN  /\ \E expired \in IF "mmp" \in use.on THEN BOOLEAN ELSE {FALSE} :
                      book' = AfterFill(MmpOnMakerFill(c, Maker.client, expired), Top.maker)
                /\ hist' = [hist EXCEPT ![Maker.id].got = @ + n, ![Taker.id].got = @ + n]
                /\ call' = <<[Top EXCEPT !.left = @ - n, !.maker = NextMaker]>> \o Below
         /\ UNCHANGED <<ret, use, requests>>

\* Mutant of LeaveLevel: the best price is not refreshed when its level empties.
LeaveLevelStale ==
    /\ At("match") /\ Top.level # -1 /\ (Top.maker = 0 \/ Top.left = 0)
    /\ call' = <<[Top EXCEPT !.level = -1]>> \o Below
    /\ UNCHANGED <<book, ret, hist, use, requests>>

LeaveLevel ==
    /\ At("match") /\ Top.level # -1 /\ (Top.maker = 0 \/ Top.left = 0)
    /\ book' = IF book.level[Top.level].queue # <<>> THEN book
               ELSE IF Taker.side = "BUY" THEN RefreshBestAskFrom(book, book.ask + 1)
               ELSE RefreshBestBidFrom(book, book.bid - 1)
    /\ call' = <<[Top EXCEPT !.level = -1]>> \o Below
    /\ UNCHANGED <<ret, hist, use, requests>>

\* The end of match_against, with process_oco_pending
EndMatch == /\ At("match") /\ Top.level = -1 /\ ~CanMatch
            /\ book' = ProcessOcoPending(book)
            /\ call' = <<[at |-> "arm"], [at |-> "finish", slot |-> Top.slot]>> \o Below
            /\ UNCHANGED <<ret, hist, use, requests>>

\* process_mmp_pending and the end of submit
Finish == /\ At("finish")
          /\ LET b == FoldRight(LAMBDA c, x : MassCancel(x, c), book.mmpDue,
                                [book EXCEPT !.mmpDue = <<>>])
             IN  book' = Complete(b, Top.slot) /\ ret' = Taker.id
          /\ call' = Below
          /\ UNCHANGED <<hist, use, requests>>

------------------------------------------------------------------------------
(***************************************************************************)
(* Brackets and stops                                                      *)
(***************************************************************************)
StopOrder(side, trigger, limit, qty, client) ==
    [Blank EXCEPT !.side = side, !.trigger = trigger, !.price = limit, !.total = qty,
                  !.shown = qty, !.client = client, !.type = "STOP"]

\* submit_stop, whose order gets the next id
SubmitStop(b, o) ==
    IF b.phase = "CLOSED" \/ o.total <= 0 \/ o.trigger \notin Price \/ b.free = <<>> THEN b
    ELSE LET k == Head(b.free)
             c == AllocOrder([b EXCEPT !.nextId = @ + 1], [o EXCEPT !.id = b.nextId])
         IN  [c EXCEPT !.stops = Append(@, k), !.index[b.nextId] = k]

TakeProfit(s) == [NewOrder(s.side, s.tp, s.qty) EXCEPT !.tif = "GTC", !.client = s.client,
                                                       !.internal = TRUE]

\* arm_bracket_exits begins with the take-profit order.
ArmExits(b, s, stack) == Submit(b, TakeProfit(s), <<[at |-> "stoploss", spec |-> s]>> \o stack)

ArmNext == /\ At("arm") /\ book.armDue # <<>>
           /\ ArmExits([book EXCEPT !.armDue = Front(@)], Last(book.armDue), call)
           /\ UNCHANGED <<use, requests>>

ArmDone == /\ At("arm") /\ book.armDue = <<>>
           /\ call' = Below
           /\ UNCHANGED <<book, ret, hist, use, requests>>

\* The stop of a bracket, linked to the take-profit order if both were accepted
StopLoss == /\ At("stoploss")
            /\ LET s == Top.spec
                   b == SubmitStop(book, StopOrder(s.side, s.sl, 0, s.qty, s.client))
               IN  book' = IF ret # 0 /\ b # book THEN LinkOco(b, ret, book.nextId) ELSE b
            /\ call' = Below
            /\ UNCHANGED <<ret, hist, use, requests>>

\* submit_bracket, after its entry order was submitted
Entered == /\ At("entered")
           /\ \/ /\ ret = 0
                 /\ call' = Below /\ UNCHANGED <<book, ret, hist>>
              \/ /\ ret # 0 /\ book.index[ret] # 0
                 /\ book' = [book EXCEPT !.specs[ret] = Top.spec]
                 /\ call' = Below /\ UNCHANGED <<ret, hist>>
              \/ /\ ret # 0 /\ book.index[ret] = 0
                 /\ ArmExits(book, Top.spec, Below)
           /\ UNCHANGED <<use, requests>>

\* The trigger of a trailing stop follows the market.
Ratchet(o, ref) ==
    LET t == IF o.side = "SELL" THEN ref - o.offset ELSE ref + o.offset
    IN  IF /\ o.offset > 0 /\ t \in Price
           /\ IF o.side = "SELL" THEN t > o.trigger ELSE t < o.trigger
        THEN t ELSE o.trigger

\* A trailing stop follows the mid if asked to, every other stop the last trade.
Reference(o) == IF o.offset > 0 /\ "mid" \in use.on /\ Mid(book) > 0 THEN Mid(book) ELSE book.last

Triggered(o, ref) == IF o.side = "BUY" THEN ref >= o.trigger ELSE ref <= o.trigger

\* check_stop_triggers at position i: a stop that fires is submitted under its own id.
CheckStop ==
    /\ At("stops") /\ Top.i <= Len(book.stops)
    /\ LET k == book.stops[Top.i]
           ref == Reference(book.order[k])
           o == [book.order[k] EXCEPT !.trigger = Ratchet(book.order[k], ref)]
       IN  IF Triggered(o, ref)
           THEN LET b == FreeOrder([book EXCEPT !.order[k] = o, !.index[o.id] = 0,
                                                !.stops = SwapErase(@, Top.i)], k)
                    limit == IF o.price > 0 THEN o.price ELSE IF o.side = "BUY" THEN MaxTick ELSE 0
                IN  Submit(b, [NewOrder(o.side, limit, o.total) EXCEPT
                                  !.id = o.id, !.client = o.client, !.internal = TRUE], call)
           ELSE /\ book' = [book EXCEPT !.order[k] = o]
                /\ call' = <<[Top EXCEPT !.i = @ + 1]>> \o Below
                /\ UNCHANGED <<ret, hist>>
    /\ UNCHANGED <<use, requests>>

StopsChecked == /\ At("stops") /\ Top.i > Len(book.stops)
                /\ call' = Below
                /\ UNCHANGED <<book, ret, hist, use, requests>>

------------------------------------------------------------------------------
(***************************************************************************)
(* modify                                                                  *)
(***************************************************************************)
\* Less quantity at the same price keeps the place in the queue.
InPlace(o, price, qty) == price = o.price /\ qty < o.total /\ qty > o.filled


Reduce(b, k, qty) ==
    LET o == b.order[k]
        seen == Least(o.total - qty, o.shown)
    IN  [b EXCEPT !.order[k].total = qty, !.order[k].shown = @ - seen,
                  !.level[o.price].qty = @ - seen,
                  !.level[o.price].hidden = @ - (o.total - qty - seen),
                  !.specs[o.id] = IF @ = NoSpec THEN @ ELSE [@ EXCEPT !.qty = qty]]

\* Mutant of Replacement: what the order has already executed is asked for again.
ReplacementInFull(o, price, qty) ==
    [NewOrder(o.side, price, qty) EXCEPT !.id = o.id, !.type = o.type, !.tif = o.tif,
                                         !.client = o.client, !.asked = qty]

Replacement(o, price, qty) ==
    [NewOrder(o.side, price, qty - o.filled) EXCEPT !.id = o.id, !.type = o.type, !.tif = o.tif,
                                                    !.client = o.client, !.asked = qty]

\* After the replacement was submitted: its pair and its bracket are restored.
Modified ==
    /\ At("modified")
    /\ LET rests == ret # 0 /\ book.index[ret] # 0
           gone == ret # 0 /\ book.index[ret] = 0
           paired == Top.partner # 0
           b == IF paired /\ rests /\ book.index[Top.partner] # 0
                THEN LinkOco(book, ret, Top.partner)
                ELSE IF paired /\ gone
                THEN ProcessOcoPending([book EXCEPT !.ocoDue = Append(@, Top.partner)])
                ELSE book
       IN  /\ book' = IF Top.spec = NoSpec \/ ret = 0 THEN b
                      ELSE IF b.index[ret] # 0 THEN [b EXCEPT !.specs[ret] = Top.spec]
                      ELSE [b EXCEPT !.armDue = Append(@, Top.spec)]
           /\ call' = IF Top.spec # NoSpec /\ gone THEN <<[at |-> "arm"]>> \o Below ELSE Below
    /\ UNCHANGED <<ret, hist, use, requests>>

------------------------------------------------------------------------------
(***************************************************************************)
(* Pegged orders                                                           *)
(***************************************************************************)
\* Where a peg belongs: best price of its side, or mid, plus offset; -1: nowhere
Target(b, o) ==
    LET base == IF o.trigger = 1 THEN Mid(b) ELSE IF o.side = "BUY" THEN b.bid ELSE b.ask
        known == IF o.trigger = 1 THEN Mid(b) >= 0 ELSE IF o.side = "BUY" THEN HasBid(b) ELSE HasAsk(b)
    IN  IF known /\ base + o.offset \in Price THEN base + o.offset ELSE -1

\* A peg enters the book without being matched.
PlacePeg(b, o) ==
    LET k == Head(b.free)
        c == AllocOrder([b EXCEPT !.nextId = @ + 1], [o EXCEPT !.id = b.nextId])
    IN  Improve(EnqueueAtLevel([c EXCEPT !.index[b.nextId] = k, !.pegs = Append(@, k)], k),
                o.side, o.price)

\* The body of reprice_pegs.  peg_orders_ keeps the slot of a peg that is gone.
RepricePeg(b, k) ==
    LET o == b.order[k]
        t == Target(b, o)
        u == RefreshAfter(UnlinkFromLevel(b, k), o.side, o.price)
        e == EnqueueAtLevel([u EXCEPT !.order[k].price = t], k)
    IN  IF ~Active(o) \/ t \in {-1, o.price} THEN b
        ELSE IF o.side = "BUY" THEN [e EXCEPT !.bid = IF t > @ THEN t ELSE @]
        ELSE [e EXCEPT !.ask = IF t < @ THEN t ELSE @]

------------------------------------------------------------------------------
(***************************************************************************)
(* Snapshots                                                               *)
(***************************************************************************)
\* The orders of serialize_snapshot: level by level, then the waiting stops
Snapshot(b) == FlattenSeq([p \in 1..(MaxTick + 1) |-> b.level[p - 1].queue]) \o b.stops

LoadRecord(b, o) ==
    LET k == Head(b.free)
        c == [AllocOrder(b, o) EXCEPT !.index[o.id] = k,
                                      !.nextId = IF o.id >= @ THEN o.id + 1 ELSE @]
        d == IF o.type = "PEG" THEN [c EXCEPT !.pegs = Append(@, k)] ELSE c
    IN  IF Waiting(o) THEN [c EXCEPT !.stops = Append(@, k)]
        ELSE Improve(EnqueueAtLevel(d, k), o.side, o.price)

\* load_snapshot into a new book: pairs, brackets and protections are not saved.
Reloaded(b) ==
    LET s == Snapshot(b) IN FoldLeft(LoadRecord, EmptyBook, [i \in DOMAIN s |-> b.order[s[i]]])

------------------------------------------------------------------------------
(***************************************************************************)
(* Calls from outside                                                      *)
(***************************************************************************)
Call(op) == /\ Idle /\ requests < use.max /\ op \in use.on
            /\ requests' = requests + 1
            /\ use' = use

Atomic(b) == book' = b /\ UNCHANGED <<call, ret, hist>>

Types == {"LIMIT"} \cup (use.on \cap {"IOC", "FOK", "POST_ONLY", "ICEBERG", "HIDDEN"})
Tifs(type) == {"DAY"} \cup IF type = "LIMIT" THEN use.on \cap {"GTD", "GTX"} ELSE {}
Mins == IF "min" \in use.on THEN {0, 2} ELSE {0}

SubmitOrder ==
    /\ Call("submit")
    /\ \E side \in Side, price \in use.prices, qty \in use.qty, type \in Types, client \in use.clients :
       \E tif \in Tifs(type), min \in Mins :
          Submit(book, [NewOrder(side, price, qty) EXCEPT !.type = type, !.tif = tif, !.min = min,
                           !.client = client, !.show = IF type = "ICEBERG" THEN 1 ELSE 0], <<>>)

Live == {i \in Id : book.index[i] # 0}

Cancel == /\ Call("cancel")
          /\ \E id \in Live : Atomic(ProcessOcoPending(CancelEither(book, book.index[id])))

\* A waiting stop is not modified.
Modify ==
    /\ Call("modify")
    /\ \E id \in Live, price \in use.prices, qty \in use.qty :
          LET k == book.index[id]
              o == book.order[k]
              again == hist[id].got > o.filled
              spec == IF book.specs[id] = NoSpec THEN NoSpec ELSE [book.specs[id] EXCEPT !.qty = qty]
          IN  /\ ~Waiting(o)
              /\ IF InPlace(o, price, qty)
                 THEN /\ book' = Reduce(book, k, qty)
                      /\ hist' = [hist EXCEPT ![id].qty = qty, ![id].again = @ \/ again]
                      /\ UNCHANGED <<call, ret>>
                 ELSE Submit(CancelInternal(UnlinkOco(book, id), k),
                             [Replacement(o, price, qty) EXCEPT !.again = again],
                             <<[at |-> "modified", partner |-> book.oco[id], spec |-> spec]>>)

MassCancelClient == /\ Call("mass")
                    /\ \E c \in use.clients : Atomic(MassCancel(book, c))

\* expire_gtd: any of the orders with a date may be due
ExpireGtd ==
    /\ Call("expire")
    /\ \E due \in SUBSET {k \in Range(book.index) \ {0} :
                             book.order[k].tif = "GTD" /\ Active(book.order[k])} :
          /\ due # {}
          /\ Atomic(ProcessOcoPending(FoldLeft(LAMBDA b, k : TakeOff(b, k, "EXPIRED"), book,
                                               SetToSortSeq(due, <))))

\* submit_stop
NewStop == /\ Call("stop")
           /\ \E side \in Side, trigger, limit \in use.prices, qty \in use.qty, c \in use.clients :
                 Atomic(SubmitStop(book, StopOrder(side, trigger, limit, qty, c)))

\* submit_trailing_stop, with an offset of one tick
NewTrailingStop ==
    /\ Call("trail")
    /\ \E side \in Side, limit \in use.prices, qty \in use.qty, c \in use.clients :
          LET ref == IF book.last >= 0 THEN book.last ELSE Mid(book)
              trigger == IF side = "SELL" THEN ref - 1 ELSE ref + 1
          IN  /\ ref >= 0
              /\ Atomic(SubmitStop(book, [StopOrder(side, trigger, limit, qty, c) EXCEPT !.offset = 1]))

CheckStopTriggers == /\ Call("check")
                     /\ book.last >= 0 /\ book.stops # <<>>
                     /\ call' = <<[at |-> "stops", i |-> 1]>>
                     /\ UNCHANGED <<book, ret, hist>>

LinkPair == /\ Call("oco")
            /\ \E x, y \in Live : x < y /\ Atomic(LinkOco(book, x, y))

\* submit_bracket
NewBracket ==
    /\ Call("bracket")
    /\ \E side \in Side, price, tp, sl \in use.prices, qty \in use.qty, c \in use.clients :
          /\ tp # sl
          /\ Submit(book, [NewOrder(side, price, qty) EXCEPT !.client = c],
                 <<[at |-> "entered", spec |-> [side |-> Opposite(side), tp |-> tp, sl |-> sl,
                                                qty |-> qty, client |-> c]]>>)

MmpReset == /\ Call("mmp")
            /\ \E c \in use.clients : Atomic([book EXCEPT !.mmp[c] = [fills |-> 0, tripped |-> FALSE]])

\* submit_peg and submit_peg_mid
NewPeg ==
    /\ Call("peg")
    /\ \E side \in Side, offset \in {-1, 0, 1}, qty \in use.qty, c \in use.clients, mid \in {0, 1} :
          LET o == [Blank EXCEPT !.side = side, !.offset = offset, !.total = qty, !.shown = qty,
                                 !.client = c, !.type = "PEG", !.trigger = mid, !.status = "OPEN"]
              t == IF mid = 0 /\ side = "BUY" /\ ~HasBid(book) THEN 0
                   ELSE IF mid = 0 /\ side = "SELL" /\ ~HasAsk(book) THEN MaxTick
                   ELSE Target(book, o)
          IN  /\ t # -1 /\ book.free # <<>>
              /\ book' = PlacePeg(book, [o EXCEPT !.price = t])
              /\ hist' = [hist EXCEPT ![book.nextId] = [@ EXCEPT !.qty = qty, !.who = c, !.side = side]]
              /\ UNCHANGED <<call, ret>>

RepricePegs == /\ Call("peg")
               /\ Atomic(FoldLeft(RepricePeg, book, book.pegs))

\* A new process gives out again the ids of orders that are complete.
Restart == /\ Call("restart")
           /\ book' = Reloaded(book)
           /\ hist' = [i \in Id |-> IF i < Reloaded(book).nextId THEN hist[i] ELSE Asked]
           /\ UNCHANGED <<call, ret>>

Halt == /\ Call("halt")
        /\ Atomic([book EXCEPT !.halted = ~@])

Request == \/ SubmitOrder \/ Cancel \/ Modify \/ MassCancelClient \/ ExpireGtd
           \/ NewStop \/ NewTrailingStop \/ CheckStopTriggers \/ LinkPair \/ NewBracket
           \/ MmpReset \/ NewPeg \/ RepricePegs \/ Restart \/ Halt

Step == \/ EnterLevel \/ StpCancelNewest \/ StpCancelOldest \/ StpCancelBoth \/ Trade
        \/ LeaveLevel \/ EndMatch \/ Finish
        \/ ArmNext \/ ArmDone \/ StopLoss \/ Entered
        \/ CheckStop \/ StopsChecked \/ Modified

Next == Request \/ Step
Spec == Init /\ [][Next]_vars
\* The book runs a call to its end; calls come when they come.
FairSpec == Spec /\ WF_vars(Step)

------------------------------------------------------------------------------
(***************************************************************************)
(* Properties                                                              *)
(***************************************************************************)
Sum(seq, f(_)) == FoldLeft(LAMBDA n, k : n + f(book.order[k]), 0, seq)
Distinct(s) == \A i, j \in DOMAIN s : s[i] = s[j] => i = j
Takers == {call[i].slot : i \in {j \in DOMAIN call : call[j].at \in {"match", "finish"}}}


\* Features under which the best prices are not those of the displayed orders.
Ordinary == /\ use.on \cap (Policies \cup {"HIDDEN", "peg", "cross", "close", "pause", "try"}) = {}
            /\ ~({"ICEBERG", "modify"} \subseteq use.on)

Shown(side) == {book.order[book.index[i]].price : i \in
                   {j \in Live : LET o == book.order[book.index[j]]
                                 IN  Active(o) /\ o.side = side /\ o.shown > 0}}

(***************************************************************************)
(* Between two calls the best prices the book publishes are those of its   *)
(* displayed orders, and the book is not crossed.                          *)
(***************************************************************************)
TopOfBook ==
    Idle /\ Ordinary =>
            /\ book.bid = IF Shown("BUY") = {} THEN NoBid ELSE Max(Shown("BUY"))
            /\ book.ask = IF Shown("SELL") = {} THEN NoAsk ELSE Min(Shown("SELL"))
            /\ book.bid < book.ask

(***************************************************************************)
(* Between two calls an order in the book has left what its owner last     *)
(* asked for less what was executed under its id, and the exits of its     *)
(* bracket are for all of it: a replacement forgets the executions of the  *)
(* order it replaces, so this ends when a replacement is modified.         *)
(***************************************************************************)
LeavesAsked ==
    Idle => \A i \in Live : LET o == book.order[book.index[i]] IN
               Active(o) /\ ~hist[i].again =>
                  /\ Remaining(o) = hist[i].qty - hist[i].got
                  /\ book.specs[i] # NoSpec => book.specs[i].qty = hist[i].qty

(***************************************************************************)
(* An accepted FOK order is executed in full, an accepted order with a     *)
(* minimum quantity at least to that quantity, by the time submit returns: *)
(* what fok_fillable and walk_the_book promised was there to be had.       *)
(* Self-trade prevention takes it away.                                    *)
(***************************************************************************)
PromiseKept == Idle /\ use.on \cap Policies = {} => \A i \in Id : hist[i].got >= hist[i].least

(***************************************************************************)
(* Price and time priority: an execution is within the taker's limit, and  *)
(* no displayed order of the other side has a better price, or the same    *)
(* price and an earlier place.                                             *)
(***************************************************************************)
Before(j, k) == LET q == book.level[book.order[k].price].queue
                IN  \E x, y \in DOMAIN q : x < y /\ q[x] = j /\ q[y] = k
Ahead(side, j, k) ==
    LET p == book.order[j].price
        r == book.order[k].price
    IN  \/ p # r /\ (side = "SELL" <=> p < r)
        \/ p = r /\ Before(j, k)
PriceTime ==
    [][At("match") /\ hist' # hist /\ Ordinary =>
          /\ IF Taker.side = "BUY" THEN Maker.price <= Taker.price ELSE Maker.price >= Taker.price
          /\ Maker.side = Opposite(Taker.side)
          /\ \A i \in Live : LET j == book.index[i]
                                 o == book.order[j]
                             IN  ~(Active(o) /\ o.side = Maker.side /\ o.shown > 0
                                   /\ Ahead(Maker.side, j, Top.maker))]_vars

\* Every call returns, unless hidden orders are all there is at the best price.
Returns == "HIDDEN" \notin use.on => (~Idle ~> Idle)
==============================================================================
