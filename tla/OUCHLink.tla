------------------------------- MODULE OUCHLink -------------------------------
(***************************************************************************)
(* A client of ouch-protocol/ connected to an exchange: OUCHOrderTracker   *)
(* behind OuchSessionClient, over a TCP connection that may break.  Frames *)
(* arrive in order and cut anywhere; a break loses what is in flight both  *)
(* ways; the client logs in again asking for the sequence number it        *)
(* expects, and the exchange sends its reports again from there.  The      *)
(* exchange, its matching and the code that ties the parts together are    *)
(* not in the repository.                                                  *)
(***************************************************************************)
EXTENDS OUCHClient

CONSTANTS Tokens,       \* order tokens, in the order the client uses them, each once
          Entries,      \* side, shares and price of the orders the client may enter
          Prices,       \* in cents
          MaxShares,    \* bound: shares of an order
          MaxRequests,  \* bound: requests the client sends
          MaxReports,   \* bound: reports the exchange sends
          MaxDrops      \* bound: times the connection breaks

VARIABLES tracker, client,
          used,       \* how many tokens the client has given to an order
          up,         \* whether the connection stands
          toVenue, toClient,
          orders,     \* the exchange's orders
          log,        \* the reports it sent, numbered from 1
          views,      \* its orders after each of them
          position,   \* the next report to send on this connection
          requests, drops
ouchVars == <<tracker, client, used, up, toVenue, toClient, orders, log, views, position, requests, drops>>

OUCHInit ==
    /\ tracker = NewTracker /\ client = NewClient /\ used = 0
    /\ up = FALSE /\ toVenue = <<>> /\ toClient = <<>>
    /\ orders = <<>> /\ log = <<>> /\ views = <<>> /\ position = 0
    /\ requests = 0 /\ drops = 0

TokenSet == Range(Tokens)
Consumed == client.seq.expected - 1
ViewAt(n) == IF n = 0 THEN <<>> ELSE views[n]

------------------------------------------------------------------------------
(* The client's caller *)

Connect ==
    /\ ~up /\ up' = TRUE
    /\ toVenue' = <<PackLoginRequest(client.seq.expected)>>
    /\ UNCHANGED <<tracker, client, used, toClient, orders, log, views, position, requests, drops>>

Send(frame) == /\ up /\ client.loggedIn /\ requests < MaxRequests
               /\ requests' = requests + 1 /\ toVenue' = Append(toVenue, frame)
               /\ UNCHANGED <<client, up, toClient, orders, log, views, position, drops>>

EnterOrder(side, shares, price) ==
    /\ used < Len(Tokens) /\ used' = used + 1
    /\ Send(PackEnterOrder(Tokens[used'], side, shares, price))
    /\ tracker' = OnNew(tracker, Tokens[used'], shares)

CancelOrder(token, shares) ==
    /\ Tracked(tracker, token)
    /\ Send(PackCancelOrder(token, shares))
    /\ tracker' = OnCancelSent(tracker, token) /\ UNCHANGED used

ReplaceOrder(token, shares, price) ==
    /\ Tracked(tracker, token) /\ used < Len(Tokens) /\ used' = used + 1
    /\ Send(PackReplaceOrder(token, Tokens[used'], shares, price))
    /\ UNCHANGED tracker

ModifyOrder(token, shares) ==
    /\ Tracked(tracker, token)
    /\ Send(PackData(EncodeOrder([type |-> "M", token |-> token, shares |-> shares]), TRUE))
    /\ UNCHANGED <<tracker, used>>

\* consume over the first len bytes that arrived, each report then handed to the tracker
Consume(len) ==
    LET n == Whole(toClient, len)
        taken == SubSeq(toClient, 1, n)
        reports == SelectSeq(taken, LAMBDA f : f.type = "S")
    IN  /\ n > 0
        /\ client' = FoldLeft(OnPacket, client, taken)
        /\ tracker' = FoldLeft(LAMBDA t, f : OnResponse(t, ParseResponse(f.body)), tracker, reports)
        /\ toClient' = SubSeq(toClient, n + 1, Len(toClient))
        /\ UNCHANGED <<used, up, toVenue, orders, log, views, position, requests, drops>>

------------------------------------------------------------------------------
(* The exchange *)

Open(k) == k \in DOMAIN orders /\ orders[k].out = "no" /\ orders[k].open > 0

\* the exchange's orders become next and it reports m
Report(m, next) ==
    /\ Len(log) < MaxReports
    /\ orders' = next /\ log' = Append(log, m) /\ views' = Append(views, next)

Order(side, price, open) ==
    [side |-> side, price |-> price, open |-> open, filled |-> 0, paid |-> 0, out |-> "no", xpend |-> FALSE, ghost |-> 0]
Without(k) == [j \in DOMAIN orders \ {k} |-> orders[j]]
Out(o) == [o EXCEPT !.open = 0, !.out = "cancelled", !.xpend = FALSE]

Admit(o) ==
    IF Validated(o) /\ o.token \notin DOMAIN orders
    THEN Report([type |-> "A", token |-> o.token, side |-> o.side, shares |-> o.shares, stock |-> o.stock,
                 price |-> o.price, tif |-> o.tif, order_ref |-> Len(log)],
                (o.token :> Order(o.side, o.price, o.shares)) @@ orders)
    ELSE Report([type |-> "J", token |-> o.token, reason |-> "O"],
                (o.token :> [Order(o.side, o.price, 0) EXCEPT !.out = "rejected"]) @@ orders)

Reject(o) ==
    Report([type |-> "J", token |-> o.token, reason |-> "H"],
           (o.token :> [Order(o.side, o.price, 0) EXCEPT !.out = "rejected"]) @@ orders)

Cancel(o) ==
    IF ~Open(o.token) THEN Report([type |-> "I", token |-> o.token, reason |-> "L"], orders)
    ELSE \/ /\ o.shares > 0 /\ o.shares < orders[o.token].open
            /\ Report([type |-> "C", token |-> o.token, shares |-> o.shares, reason |-> "U"],
                      [orders EXCEPT ![o.token].open = @ - o.shares])
         \/ /\ o.shares = 0 \/ o.shares >= orders[o.token].open
            /\ Report([type |-> "C", token |-> o.token, shares |-> orders[o.token].open, reason |-> "U"],
                      [orders EXCEPT ![o.token] = Out(@)])
         \/ /\ o.shares = 0 /\ ~orders[o.token].xpend
            /\ Report([type |-> "P", token |-> o.token], [orders EXCEPT ![o.token].xpend = TRUE])

Replace(o) ==
    IF Open(o.token) /\ Validated(o) /\ o.new_token \notin DOMAIN orders
    THEN Report([type |-> "U", token |-> o.new_token, prev_token |-> o.token, shares |-> o.shares,
                 price |-> o.price, order_ref |-> Len(log)],
                (o.new_token :> [orders[o.token] EXCEPT !.open = o.shares, !.price = o.price, !.xpend = FALSE])
                @@ Without(o.token))
    ELSE UNCHANGED <<orders, log, views>>

Modify(o) ==
    IF Open(o.token) /\ Validated(o) /\ o.shares < orders[o.token].open
    THEN Report([type |-> "R", token |-> o.token, shares |-> o.shares, price |-> orders[o.token].price,
                 reason |-> "U"], [orders EXCEPT ![o.token].open = o.shares])
    ELSE UNCHANGED <<orders, log, views>>

\* the exchange takes the next frame of the client
Handle ==
    LET f == Head(toVenue)
        o == ParseOrder(f.body)
    IN  /\ up /\ toVenue # <<>> /\ toVenue' = Tail(toVenue)
        /\ \/ /\ f.type = "L" /\ position' = f.body.seq
              /\ toClient' = Append(toClient, Frame("A", SessionLen + SeqnumLen, f.body))
              /\ UNCHANGED <<orders, log, views>>
           \/ /\ f.type = "U" /\ UNCHANGED <<position, toClient>>
              /\ \/ o.type = "O" /\ (Admit(o) \/ Reject(o))
                 \/ o.type = "X" /\ Cancel(o)
                 \/ o.type = "U" /\ Replace(o)
                 \/ o.type = "M" /\ Modify(o)
        /\ UNCHANGED <<tracker, client, used, up, requests, drops>>

Own(m, next) == Report(m, next) /\ UNCHANGED <<tracker, client, used, up, toVenue, toClient, position, requests, drops>>

Execute(k, q, p) ==
    /\ Open(k) /\ q <= orders[k].open
    /\ Own([type |-> "E", token |-> k, shares |-> q, price |-> p, match |-> Len(log)],
           [orders EXCEPT ![k].open = @ - q, ![k].filled = @ + q, ![k].paid = @ + q * p])

\* A broken trade: of a cancelled order nothing comes back to the book.
Break(k, q) ==
    /\ k \in DOMAIN orders /\ orders[k].filled >= q
    /\ \A i \in DOMAIN log : log[i].type # "B"
    /\ Own([type |-> "B", token |-> k, shares |-> q, match |-> 0, reason |-> "E"],
           [orders EXCEPT ![k].filled = @ - q,
                          ![k].open = IF orders[k].out = "no" THEN @ + q ELSE @,
                          ![k].ghost = IF orders[k].out = "no" THEN @ ELSE @ + q])

SelfMatch(k, q) ==
    /\ Open(k) /\ q <= orders[k].open
    /\ Own([type |-> "D", token |-> k, shares |-> q, reason |-> "Q"],
           [orders EXCEPT ![k] = IF q = @.open THEN Out(@) ELSE [@ EXCEPT !.open = @ - q]])

Restate(k, p) ==
    /\ Open(k) /\ p # orders[k].price
    /\ Own([type |-> "R", token |-> k, shares |-> orders[k].open, price |-> p, reason |-> "P"],
           [orders EXCEPT ![k].price = p])

\* a cancellation that had to wait
Settle(k) ==
    /\ k \in DOMAIN orders /\ orders[k].xpend
    /\ IF Open(k)
       THEN Own([type |-> "C", token |-> k, shares |-> orders[k].open, reason |-> "U"],
                [orders EXCEPT ![k] = Out(@)])
       ELSE Own([type |-> "I", token |-> k, reason |-> "L"], [orders EXCEPT ![k].xpend = FALSE])

SendReport ==
    /\ up /\ position \in 1..Len(log)
    /\ toClient' = Append(toClient, PackData(EncodeReport(log[position]), FALSE))
    /\ position' = position + 1
    /\ UNCHANGED <<tracker, client, used, up, toVenue, orders, log, views, requests, drops>>

Drop ==
    /\ up /\ drops < MaxDrops /\ drops' = drops + 1
    /\ up' = FALSE /\ toVenue' = <<>> /\ toClient' = <<>> /\ position' = 0
    /\ UNCHANGED <<tracker, client, used, orders, log, views, requests>>

\* frames arrive whole or with the last one cut short
Arrived == {Bytes(SubSeq(toClient, 1, n)) - cut : n \in DOMAIN toClient, cut \in {0, 1}}

OUCHNext ==
    \/ Connect
    \/ \E e \in Entries : EnterOrder(e[1], e[2], e[3])
    \/ \E k \in TokenSet : CancelOrder(k, 0)   \* all of it
    \/ \E k \in TokenSet, q \in 1..MaxShares, p \in Prices : ReplaceOrder(k, q, p)
    \/ \E k \in TokenSet, q \in 1..MaxShares : ModifyOrder(k, q)
    \/ \E len \in Arrived : Consume(len)
    \/ Handle
    \/ \E k \in TokenSet, q \in 1..MaxShares, p \in Prices : Execute(k, q, p)
    \/ \E k \in TokenSet, q \in 1..MaxShares : Break(k, q) \/ SelfMatch(k, q)
    \/ \E k \in TokenSet, p \in Prices : Restate(k, p)
    \/ \E k \in TokenSet : Settle(k)
    \/ SendReport
    \/ Drop

Answerable == up /\ toVenue # <<>> /\ (Head(toVenue).type = "L" \/ Len(log) < MaxReports)

\* A connected peer keeps handling, sending and reading, and a broken connection is
\* made again.  Each conjunct names the step by what only it does to one variable.
OUCHFairness ==
    /\ WF_up(~up /\ up' = TRUE)
    /\ WF_toVenue(Answerable /\ toVenue' = Tail(toVenue))
    /\ WF_position(up /\ position \in 1..Len(log) /\ position' = position + 1)
    /\ WF_toClient(toClient # <<>> /\ toClient' = <<>>)
------------------------------------------------------------------------------
(* What is checked *)

Status(o) == CASE o.ghost > 0 -> (IF o.filled > 0 THEN "PARTIAL" ELSE "LIVE")
               [] o.out = "cancelled" -> "CANCELLED" [] o.out = "rejected" -> "REJECTED"
               [] o.open = 0 -> "FILLED" [] o.filled > 0 -> "PARTIAL" [] OTHER -> "LIVE"

\* the exchange has an answer to a cancellation of k under way
Answering(k) ==
    \/ \E i \in DOMAIN toVenue : toVenue[i].type = "U" /\ ParseOrder(toVenue[i].body).token = k
    \/ \E i \in Consumed + 1 .. Len(log) : log[i].token = k /\ log[i].type \in {"C", "I", "P"}
    \/ k \in DOMAIN ViewAt(Consumed) /\ ViewAt(Consumed)[k].xpend

\* After every report the tracker's orders are the exchange's orders as of that
\* report: state, shares left and filled, side and price, through cancellations,
\* replacements, self-match decrements and executions that cross them, and through
\* a break of the connection and the replay after it (OUCHOrderTracker::on_response,
\* OuchSessionClient::consume).  The one order held otherwise is one whose fill is
\* broken after its cancellation: the tracker has it open again.  A pending
\* cancellation has its answer under way unless a break lost it, and the reports
\* for tokens the tracker does not know are late answers for replaced ones.
TrackerAgrees ==
    LET view == ViewAt(Consumed)
        late == {i \in 1..Consumed : log[i].token \notin DOMAIN views[i]}
    IN  /\ \A k \in DOMAIN view :
             /\ Tracked(tracker, k) /\ State(tracker, k) = Status(view[k])
             /\ view[k].out # "rejected" =>
                  /\ Filled(tracker, k) = view[k].filled
                  /\ Remaining(tracker, k) = view[k].open + view[k].ghost
                  /\ tracker.orders[k].side = view[k].side /\ tracker.orders[k].price = view[k].price
        /\ \A k \in DOMAIN tracker.orders \ DOMAIN view : State(tracker, k) = "NEW"
        /\ tracker.responses = Consumed /\ tracker.desyncs <= Cardinality(late)
        /\ drops = 0 => tracker.desyncs = Cardinality(late)
        /\ \A k \in DOMAIN tracker.orders : IsPendingCancel(tracker, k) /\ drops = 0 => Answering(k)

\* The money and the share counts the tracker derives agree with what the exchange
\* executed: the net position, the cash paid while no trade was broken, the marked
\* profit split into a realized part on the matched shares and an unrealized part on
\* the rest at its average price, and every share ordered is filled, left or
\* cancelled unless a report changed the size of an order (the accessors of
\* OUCHOrderTracker).
PositionAgrees ==
    LET t == tracker
        view == ViewAt(Consumed)
        sum(side, value(_)) == MapThenSumSet(LAMBDA k : value(view[k]), {k \in DOMAIN view : view[k].side = side})
        net == NetFilledShares(t)
        resized == \E i \in 1..Consumed : log[i].type \in {"U", "R"}
        alike(r, s) == r[1] * s[2] = s[1] * r[2]
    IN  /\ t.bought = sum("B", LAMBDA o : o.filled) /\ t.sold = sum("S", LAMBDA o : o.filled)
        /\ TotalFilledShares(t) = t.bought + t.sold /\ t.execShares - t.brokenShares = TotalFilledShares(t)
        /\ t.broken = 0 =>
             /\ t.buyNotional = Unit * sum("B", LAMBDA o : o.paid)
             /\ t.sellNotional = Unit * sum("S", LAMBDA o : o.paid)
             /\ GrossTradedNotional(t) = t.buyNotional + t.sellNotional
             /\ \A k \in DOMAIN t.orders : Filled(t, k) > 0 => AvgFillPrice(t, k) = <<Unit * view[k].paid, view[k].filled>>
        /\ \A mark \in Prices :
             LET open == IF net > 0 THEN <<net * (mark * Unit * t.bought - t.buyNotional), t.bought>>
                         ELSE IF net < 0 THEN <<net * (mark * Unit * t.sold - t.sellNotional), t.sold>> ELSE <<0, 1>>
             IN  /\ alike(UnrealizedPnl(t, mark), open)
                 /\ net # 0 => MarkToMarketPnl(t, mark) = BreakevenMark(t)[2] * mark * Unit - BreakevenMark(t)[1]
        /\ t.bought > 0 /\ t.sold > 0 /\ t.buyNotional > 0 =>
             (RealizedSpreadCapture(t)[1] > 0 <=> RealizedSpreadCaptureBps(t)[1] > 0)
        /\ ~resized => t.orderedShares = TotalFilledShares(t) + TotalRemainingShares(t) + t.cancelledShares
        /\ WorkingShares(t) = WorkingSharesSide(t, "B") + WorkingSharesSide(t, "S")
        /\ NetWorkingNotional(t) <= WorkingNotional(t)
        /\ ProjectedNetShares(t) - net = NetWorkingShares(t)
        /\ LargestRemaining(t) * Cardinality(WorkingTokens(t)) >= WorkingShares(t)
        /\ ActiveCount(t) = StatusCount(t, "NEW") + Cardinality(WorkingTokens(t))
        /\ t.execCount * t.minExec <= t.execShares /\ t.execShares <= t.execCount * t.maxExec

\* What the exchange encodes is what the client reads: every report and every frame
\* comes back with the fields it was written with, a run of reports laid end to end
\* is cut into the same reports, whole ones only, and a stream of orders answered by
\* the mock exchange leaves each of them filled (OUCHMessage, parse_stream,
\* mock_exchange_respond).  It is looked at before the client has read anything, as
\* reading changes none of it.
WireExact ==
    LET wires == [i \in DOMAIN log |-> EncodeReport(log[i])]
        total == FoldLeft(LAMBDA n, w : n + w.len, 0, wires)
        reads == [i \in DOMAIN log |-> ParseResponse(wires[i])]
        entered == SelectSeq(toVenue, LAMBDA f : f.type = "U" /\ f.body.type = "O")
        fresh == FoldLeft(LAMBDA t, f : OnNew(t, ParseOrder(f.body).token, ParseOrder(f.body).shares), NewTracker, entered)
        mock == MockExchangeRespond(toVenue, 1000, 1)
        answered == FoldLeft(LAMBDA t, f : OnResponse(t, ParseResponse(f.body)), fresh,
                             SelectSeq(mock, LAMBDA f : f.type = "S"))
        short == MockExchangeRespond(toVenue, Bytes(mock) - 1, 1)
    IN  Consumed = 0 =>
        /\ \A i \in DOMAIN log : \A f \in DOMAIN log[i] \ {"type", "side", "tif"} : reads[i][f] = log[i][f]
        /\ ParseStream(wires, total).out = reads /\ ParseStream(wires, total).off = total
        /\ log # <<>> => ParseStream(wires, total - 1).out = SubSeq(reads, 1, Len(log) - 1)
        /\ \A k \in DOMAIN answered.orders : answered.orders[k].state = "FILLED"
        /\ mock # <<>> => IsPrefix(short, mock) /\ Len(short) < Len(mock)
        /\ FoldLeft(OnPacket, NewClient, mock).kind["EXECUTED"] = Len(entered)

\* Once the connection stays up the tracker has read everything the exchange sent
\* (SequenceTracker::reset_to with the number the login is answered with).
CatchesUp == <>[](Consumed = Len(log))
==============================================================================
