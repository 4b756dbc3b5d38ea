------------------------------- MODULE FIXLink -------------------------------
(***************************************************************************)
(* Two FIXSessions over a TCP connection: a client that keeps its orders   *)
(* in a FIXOrderTracker, and an exchange.  A message is built (which takes *)
(* its number), the numbers are saved, and only then is it written, as     *)
(* persist_seq asks.  The connection may break or go silent, a process may *)
(* die between any two steps and come back with the numbers it saved, a    *)
(* message may be too long to build.  The exchange and the code that ties  *)
(* the parts together are not in the repository.                           *)
(***************************************************************************)
EXTENDS FIXSession

CONSTANTS Scenarios,    \* which of "orders", "clock" and "kinds" to explore
          OrderIds,     \* the ClOrdIDs, in the order the client uses them
          Plans,        \* bounds to explore: how many ids the client uses, the size of its
                        \* orders, how many cancels and status requests it sends, and how
                        \* many breaks, crashes, logouts and failed builds there are
          HeartBt,      \* the heartbeat interval agreed at logon
          PollEvery,    \* the callers call tick at least this often
          MaxDelay,     \* a live connection delivers within this time
          MaxTime       \* bound: the length of a clock scenario

VARIABLES scenario, sess, staged, wire, due, saved,
          linked,   \* "down", "up", or "silent": up for both ends, delivering nothing
          desk,     \* the client's FIXOrderTracker
          exch,     \* the exchange's orders
          hist,     \* what was written, reported, missed and asked for
          budget,
          clock     \* the time, and the time since the last poll and delivery
fixVars == <<scenario, sess, staged, wire, due, saved, linked, desk, exch, hist, budget, clock>>
still == <<scenario, clock>>

Sides == {"client", "exchange"}
Peer(p) == CHOOSE q \in Sides : q # p
Both(x) == [p \in Sides |-> x]
None == <<>>

FIXInit ==
    /\ scenario \in Scenarios
    /\ sess = Both(IF scenario = "orders" THEN NewSession ELSE MarkLogonReceived(NewSession, HeartBt))
    /\ staged = Both(None) /\ wire = Both(<<>>) /\ due = Both(<<>>)
    /\ saved = Both(PersistSeq(NewSession))
    /\ linked = IF scenario = "orders" THEN "down" ELSE "up"
    /\ desk = NewFIXTracker /\ exch = <<>>
    /\ hist = [written |-> Both(0), got |-> Both({}), asked |-> Both({}), missed |-> 0,
               newest |-> <<>>, tested |-> Both(MaxTime), ended |-> {}, built |-> {}]
    /\ \E plan \in Plans :
         budget = [ids |-> 0, left |-> plan[1], qty |-> plan[2], asks |-> plan[3], breaks |-> plan[4]]
    /\ clock = [now |-> 0, poll |-> Both(0), delivery |-> Both(0)]

------------------------------------------------------------------------------
(* Building, saving and writing a message *)

\* Each process is one loop: it answers what it read before it does anything else.
Idle(p) == staged[p] = None /\ due[p] = <<>>

\* The number is taken and saved; the message waits to be written.
Stage(p, s, type, fields) ==
    /\ staged[p] = None
    /\ LET taken == IF type = "0" THEN BuildHeartbeat(s) ELSE NextOutboundSeq(s)
       IN  /\ staged' = [staged EXCEPT ![p] = Build(type, s.nextOut, fields)]
           /\ sess' = [sess EXCEPT ![p] = taken]
           /\ saved' = [saved EXCEPT ![p] = PersistSeq(taken)]

Write(p) ==
    /\ staged[p] # None /\ linked # "down"
    /\ staged' = [staged EXCEPT ![p] = None]
    /\ wire' = [wire EXCEPT ![Peer(p)] = IF linked = "up" THEN Append(@, staged[p]) ELSE @]
    /\ sess' = [sess EXCEPT ![p] = IF MsgType(staged[p]) = "A" /\ @.state = "DISCONNECTED"
                                   THEN MarkLogonSent(@) ELSE MarkOutbound(@)]
    /\ hist' = [hist EXCEPT !.written[p] = GetField(staged[p], 34)]
    /\ clock' = [clock EXCEPT !.delivery[Peer(p)] = IF wire[Peer(p)] = <<>> THEN 0 ELSE @]
    /\ UNCHANGED <<scenario, due, saved, linked, desk, exch, budget>>

\* A builder returns 0: the number is spent, nothing is written.
BuildFails(p) ==
    /\ scenario = "orders" /\ Idle(p) /\ sess[p].state = "LOGGED_IN" /\ budget.breaks > 0
    /\ sess' = [sess EXCEPT ![p] = NextOutboundSeq(@)]
    /\ budget' = [budget EXCEPT !.breaks = @ - 1]
    /\ UNCHANGED <<still, staged, wire, due, saved, linked, desk, exch, hist>>

------------------------------------------------------------------------------
(* The client's requests *)

Logon ==
    /\ linked = "down" /\ linked' = "up" /\ sess["client"].state = "DISCONNECTED"
    /\ Stage("client", sess["client"], "A", <<<<108, HeartBt>>>>)
    /\ UNCHANGED <<still, wire, due, desk, exch, hist, budget>>

Ready == scenario = "orders" /\ Idle("client") /\ sess["client"].state = "LOGGED_IN" /\ linked = "up"
Asks == Ready /\ budget.asks > 0 /\ budget' = [budget EXCEPT !.asks = @ - 1]
FreshId == budget.left > 0

NewOrder ==
    LET id == OrderIds[budget.ids + 1]
    IN  /\ Ready /\ FreshId /\ budget' = [budget EXCEPT !.ids = @ + 1, !.left = @ - 1]
        /\ Stage("client", sess["client"], "D",
                 <<<<11, id>>, <<55, "SYM">>, <<54, "1">>, <<38, budget.qty>>, <<44, 1>>, <<40, "2">>>>)
        /\ desk' = OnNewOrder(desk, id, budget.qty)
        /\ UNCHANGED <<still, wire, due, linked, exch, hist>>

\* the cancel's own ClOrdID names no order
CancelOrder(orig) ==
    /\ Asks /\ Known(desk, orig)
    /\ Stage("client", sess["client"], "F",
             <<<<11, "C">>, <<41, orig>>, <<55, "SYM">>, <<54, "1">>, <<38, budget.qty>>>>)
    /\ desk' = OnCancelRequested(desk, orig)
    /\ UNCHANGED <<still, wire, due, linked, exch, hist>>

ReplaceOrder(orig) ==
    LET id == OrderIds[budget.ids + 1]
    IN  /\ Ready /\ FreshId /\ budget' = [budget EXCEPT !.ids = @ + 1, !.left = @ - 1]
        /\ Known(desk, orig) /\ Works(desk.orders[orig])
        /\ Stage("client", sess["client"], "G",
                 <<<<11, id>>, <<41, orig>>, <<55, "SYM">>, <<54, "1">>, <<38, budget.qty>>, <<44, 1>>, <<40, "2">>>>)
        /\ UNCHANGED <<still, wire, due, linked, desk, exch, hist>>

OrderStatus(id) ==
    /\ Asks /\ Known(desk, id)
    /\ Stage("client", sess["client"], "H", <<<<11, id>>, <<55, "SYM">>, <<54, "1">>>>)
    /\ UNCHANGED <<still, wire, due, linked, desk, exch, hist>>

------------------------------------------------------------------------------
(* Receiving *)

\* the last quantities of the reports of a sequence of messages
Flying(msgs) == FoldLeft(LAMBDA n, m : n + (IF MsgType(m) = "8" /\ HasField(m, 32) THEN GetField(m, 32) ELSE 0), 0, msgs)

\* what a message obliges its receiver to send
Duties(p, s, m) ==
    LET type == MsgType(m)
        gap == IF GapOf(s, m) THEN <<<<"2", s.expectedIn>>>> ELSE <<>>
        answer == CASE type = "A" /\ p = "exchange" -> <<<<"A", HeartBt>>>>
                    [] type = "2" -> <<<<"4", 0>>>>
                    [] type = "1" -> <<<<"0", GetField(m, 112)>>>>
                    [] type \in {"D", "H"} -> <<<<type, GetField(m, 11)>>>>
                    [] type = "F" -> <<<<"F", GetField(m, 41)>>>>
                    [] type = "G" -> <<<<"G", <<GetField(m, 41), GetField(m, 11)>>>>>>
                    [] OTHER -> <<>>
    IN  answer \o gap

Receive(p) ==
    /\ wire[p] # <<>> /\ Idle(p) /\ scenario # "kinds"
    /\ LET m == ParseFields(Head(wire[p]))
           n == GetField(m, 34)
           s == ProcessInbound(sess[p], m)
           gap == GapOf(sess[p], m)
           report == p = "client" /\ MsgType(m) = "8"
           told == IF report THEN OnExecReport(desk, m)
                   ELSE IF p = "client" /\ MsgType(m) = "9" THEN OnCancelRejected(desk, m) ELSE desk
       IN  /\ IsValid(m)
           /\ sess' = [sess EXCEPT ![p] = IF gap THEN MarkResendRequested(s) ELSE s]
           /\ due' = [due EXCEPT ![p] = @ \o Duties(p, sess[p], m)]
           /\ desk' = told
           /\ exch' = IF p = "exchange" /\ MsgType(m) = "D"
                      THEN (GetField(m, 11) :> [cum |-> 0, leaves |-> GetField(m, 38), status |-> "0"]) @@ exch
                      ELSE exch
           /\ hist' = [hist EXCEPT
                !.got[p] = @ \cup {n},
                !.asked[p] = @ \cup (IF gap THEN sess[p].expectedIn .. n - 1 ELSE {})
                               \cup (IF MsgType(m) = "4" THEN sess[p].expectedIn .. GetField(m, 36) - 1 ELSE {}),
                !.missed = @ + (IF report THEN Flying(<<m>>) - (told.shares - desk.shares) ELSE 0),
                !.newest = IF report /\ GetField(m, 11) \in DOMAIN @ /\ @[GetField(m, 11)] = n
                           THEN [@ EXCEPT ![GetField(m, 11)] = 0] ELSE @]
    /\ wire' = [wire EXCEPT ![p] = Tail(@)]
    /\ clock' = [clock EXCEPT !.delivery[p] = 0]
    /\ UNCHANGED <<scenario, staged, saved, linked, budget>>

------------------------------------------------------------------------------
(* Answers; the exchange's matching *)

Live(id) == id \in DOMAIN exch /\ exch[id].leaves > 0
Report(id, o, last, extra) ==
    <<<<11, id>>>> \o extra \o <<<<37, id>>, <<17, 1>>, <<150, o.status>>, <<39, o.status>>, <<55, "SYM">>, <<54, "1">>,
      <<32, last>>, <<31, IF last > 0 THEN 1 ELSE 0>>, <<14, o.cum>>, <<151, o.leaves>>>>
\* the exchange's order, and the number of the newest report about it
Tell(id, o, last, extra) ==
    /\ exch' = (id :> o) @@ exch
    /\ hist' = [hist EXCEPT !.newest = (id :> sess["exchange"].nextOut) @@ @]
    /\ Stage("exchange", sess["exchange"], "8", Report(id, o, last, extra))

Answer(p) ==
    /\ due[p] # <<>> /\ due' = [due EXCEPT ![p] = Tail(@)]
    /\ LET what == Head(due[p])[1]
           arg == Head(due[p])[2]
           s == sess[p]
           Refuse(id) == /\ Stage(p, s, "9", <<<<11, "C">>, <<41, id>>, <<37, id>>, <<39, "8">>, <<434, "1">>, <<102, 0>>>>)
                         /\ UNCHANGED <<exch, hist>>
       IN  CASE what = "A" -> Stage(p, s, "A", <<<<108, arg>>>>) /\ UNCHANGED <<exch, hist>>
             [] what = "2" -> Stage(p, s, "2", <<<<7, arg>>, <<16, 0>>>>) /\ UNCHANGED <<exch, hist>>
             [] what = "4" -> Stage(p, s, "4", <<<<36, s.nextOut + 1>>, <<123, "Y">>>>) /\ UNCHANGED <<exch, hist>>
             [] what = "0" -> Stage(p, ClearPendingTestReq(s), "0", <<<<112, arg>>>>) /\ UNCHANGED <<exch, hist>>
             [] what = "D" -> Tell(arg, exch[arg], 0, <<>>)
             [] what = "H" -> IF arg \in DOMAIN exch THEN Tell(arg, exch[arg], 0, <<>>) ELSE Refuse(arg)
             [] what = "F" -> IF Live(arg) THEN Tell(arg, [exch[arg] EXCEPT !.leaves = 0, !.status = "4"], 0, <<>>)
                                           ELSE Refuse(arg)
             [] what = "G" -> IF Live(arg[1])
                              THEN LET o == exch[arg[1]] IN
                                   /\ Stage(p, s, "8", Report(arg[2], [o EXCEPT !.status = "5"], 0, <<<<41, arg[1]>>>>))
                                   /\ exch' = [k \in (DOMAIN exch \cup {arg[2]}) \ {arg[1]} |->
                                                 IF k = arg[2] THEN [o EXCEPT !.status = IF o.cum > 0 THEN "1" ELSE "0"]
                                                 ELSE exch[k]]
                                   /\ hist' = [hist EXCEPT !.newest =
                                                 [k \in (DOMAIN @ \cup {arg[2]}) \ {arg[1]} |->
                                                    IF k = arg[2] THEN s.nextOut ELSE @[k]]]
                              ELSE Refuse(arg[1])
    /\ UNCHANGED <<still, wire, linked, desk, budget>>

Fill(id) ==
    LET cum == exch[id].cum + 1
    IN  /\ scenario = "orders" /\ Idle("exchange") /\ Live(id) /\ sess["exchange"].state = "LOGGED_IN" /\ linked = "up"
        /\ Tell(id, [cum |-> cum, leaves |-> exch[id].leaves - 1, status |-> IF exch[id].leaves = 1 THEN "2" ELSE "1"],
                1, <<>>)
        /\ UNCHANGED <<still, wire, due, linked, desk, budget>>

------------------------------------------------------------------------------
(* Faults *)

Lost == Flying(wire["client"]) + Flying(IF staged["exchange"] = None THEN <<>> ELSE <<staged["exchange"]>>)

\* Both ends see the connection go; what was built and not written is dropped.
Break ==
    /\ scenario = "orders" /\ linked = "up" /\ budget.breaks > 0
    /\ linked' = "down" /\ budget' = [budget EXCEPT !.breaks = @ - 1]
    /\ sess' = [p \in Sides |-> MarkDisconnected(sess[p])]
    /\ staged' = Both(None) /\ wire' = Both(<<>>) /\ due' = Both(<<>>)
    /\ hist' = [hist EXCEPT !.missed = @ + Lost]
    /\ UNCHANGED <<still, saved, desk, exch>>

\* A process dies and comes back with the numbers it saved last.
Crash(p) ==
    /\ scenario = "orders" /\ budget.breaks > 0
    /\ linked' = "down" /\ budget' = [budget EXCEPT !.breaks = @ - 1]
    /\ sess' = [q \in Sides |-> IF q = p THEN LoadPersistedSeq(NewSession, saved[p]) ELSE MarkDisconnected(sess[q])]
    /\ staged' = Both(None) /\ wire' = Both(<<>>) /\ due' = Both(<<>>)
    /\ desk' = IF p = "client" THEN NewFIXTracker ELSE desk
    /\ hist' = [hist EXCEPT !.missed = @ + Lost + (IF p = "client" THEN desk.shares ELSE 0)]
    /\ UNCHANGED <<still, saved, exch>>

Logout(p) ==
    /\ scenario = "orders" /\ Idle(p) /\ sess[p].state = "LOGGED_IN" /\ linked = "up" /\ budget.breaks > 0
    /\ budget' = [budget EXCEPT !.breaks = @ - 1]
    /\ Stage(p, MarkLogout(sess[p]), "5", <<>>)
    /\ UNCHANGED <<still, wire, due, linked, desk, exch, hist>>

\* once both sides are out, the connection is closed
Close ==
    /\ linked = "up" /\ \A p \in Sides : sess[p].state = "LOGOUT" /\ wire[p] = <<>> /\ staged[p] = None
    /\ linked' = "down" /\ sess' = [p \in Sides |-> MarkDisconnected(sess[p])]
    /\ due' = Both(<<>>)
    /\ UNCHANGED <<still, staged, wire, saved, desk, exch, hist, budget>>

------------------------------------------------------------------------------
(* Time *)

Cut ==
    /\ scenario = "clock" /\ linked = "up" /\ linked' = "silent"
    /\ wire' = Both(<<>>) /\ hist' = [hist EXCEPT !.ended = {}]
    /\ UNCHANGED <<still, sess, staged, due, saved, desk, exch, budget>>

\* one unit of time: the callers have polled, written what they built, and a live
\* connection has delivered what has waited its longest
Wait ==
    /\ scenario = "clock" /\ clock.now < MaxTime
    /\ \A p \in Sides : /\ clock.poll[p] < PollEvery /\ staged[p] = None /\ due[p] = <<>>
                        /\ wire[p] # <<>> => clock.delivery[p] < MaxDelay
    /\ clock' = [now |-> clock.now + 1, poll |-> [p \in Sides |-> clock.poll[p] + 1],
                 delivery |-> [p \in Sides |-> IF wire[p] = <<>> THEN 0 ELSE clock.delivery[p] + 1]]
    /\ sess' = [p \in Sides |-> [sess[p] EXCEPT !.sinceIn = @ + 1, !.sinceOut = @ + 1]]
    /\ hist' = [hist EXCEPT !.tested = [p \in Sides |-> IF @[p] < MaxTime THEN @[p] + 1 ELSE @[p]]]
    /\ UNCHANGED <<scenario, staged, wire, due, saved, linked, desk, exch, budget>>

\* the caller's poll: it does what tick asks for
Poll(p) ==
    /\ scenario = "clock" /\ clock.poll[p] > 0 /\ Idle(p)
    /\ clock' = [clock EXCEPT !.poll[p] = 0]
    /\ LET asked == TickAction(sess[p])
           s == Tick(sess[p])
       IN  \/ /\ asked = "NONE" /\ sess' = [sess EXCEPT ![p] = s]
              /\ UNCHANGED <<staged, saved, hist>>
           \/ /\ asked = "SEND_HEARTBEAT" /\ Stage(p, s, "0", <<>>) /\ UNCHANGED hist
           \/ /\ asked = "SEND_TEST_REQUEST" /\ Stage(p, s, "1", <<<<112, "T">>>>)
              /\ hist' = [hist EXCEPT !.tested[p] = 0]
           \/ /\ asked = "DISCONNECT" /\ sess' = [sess EXCEPT ![p] = MarkDisconnected(s)]
              /\ hist' = [hist EXCEPT !.ended = @ \cup {<<p, hist.tested[p]>>}]
              /\ UNCHANGED <<staged, saved>>
    /\ UNCHANGED <<scenario, wire, due, linked, desk, exch, budget>>

------------------------------------------------------------------------------
(* Every kind of message the builders make, read by a session that is logged out *)

ReadAny(kind) ==
    /\ scenario = "kinds" /\ hist.built = {}
    /\ LET m == Build(kind[1], sess["exchange"].nextOut, [i \in DOMAIN kind[2] |->
                      <<kind[2][i], IF kind[2][i] = 112 THEN "T" ELSE i>>])
           out == MarkLogout(sess["client"])
       IN  /\ sess' = [sess EXCEPT !["client"] = ProcessInbound(out, ParseFields(m)),
                                      !["exchange"] = NextOutboundSeq(@)]
           /\ hist' = [hist EXCEPT !.built = {m}, !.got["client"] = {sess["exchange"].nextOut}]
    /\ UNCHANGED <<still, staged, wire, due, saved, linked, desk, exch, budget>>

FIXNext ==
    \/ Logon \/ NewOrder \/ Break \/ Close \/ Cut \/ Wait
    \/ \E id \in Range(OrderIds) : CancelOrder(id) \/ ReplaceOrder(id) \/ OrderStatus(id) \/ Fill(id)
    \/ \E p \in Sides : Write(p) \/ BuildFails(p) \/ Receive(p) \/ Answer(p) \/ Crash(p) \/ Logout(p) \/ Poll(p)
    \/ \E kind \in Built : ReadAny(kind)

------------------------------------------------------------------------------
\* Sequence numbers survive faults: a side never writes a number it has written
\* before, even after a crash; the other never expects more than was taken; and
\* every number passed over was read, was in a reported gap, or was reset.
NumbersHold ==
    \A p \in Sides :
      /\ sess[p].nextOut > hist.written[p]
      /\ staged[p] # None => GetField(staged[p], 34) > hist.written[p]
      /\ sess[p].expectedIn <= sess[Peer(p)].nextOut
      /\ 1..(sess[p].expectedIn - 1) \subseteq hist.got[p] \cup hist.asked[p]

\* However many reports were lost, the tracker equals the exchange on an order whose
\* newest report it has read, and its fills are the exchange's less the missed ones.
ReportsHeal ==
    /\ desk.shares + hist.missed + Lost = MapThenSumSet(LAMBDA id : exch[id].cum, DOMAIN exch)
    /\ \A id \in DOMAIN exch \cap DOMAIN desk.orders :
         id \in DOMAIN hist.newest /\ hist.newest[id] = 0 =>
            /\ CumQty(desk, id) = exch[id].cum
            /\ LeavesQty(desk, id) = exch[id].leaves
            /\ StateOf(desk, id) \in {"NEW", "PARTIAL"} <=> Live(id)
    /\ \A id \in DOMAIN desk.orders : desk.orders[id].pending => StateOf(desk, id) # "CANCELED"
    /\ TotalFilledQty(desk) >= desk.shares

\* A session that is kept hears of a silent line in time, and one that is ended was
\* silent for two intervals and had been asked: a live line is never given up.
SilenceJudged ==
    scenario = "clock" =>
      \A p \in Sides :
        /\ sess[p].state = "LOGGED_IN" => sess[p].sinceIn <= 2 * HeartBt + 2 * PollEvery
        /\ sess[p].state = "DISCONNECTED" => linked = "silent" /\ sess[p].testPending

\* What a builder writes is a valid message, every reader made for it finds each of
\* its tags (the optional ones 45, 55, 58, 112 and 379 aside), no other reader takes it, and the repeating groups come back whole.
FIXReadsBack ==
    \A raw \in hist.built :
      LET m == ParseFields(raw)
          mine == {r \in Readers : Decodes(r, m)}
      IN  /\ IsValid(m)
          /\ Cardinality(mine) = (IF MsgType(m) = "3" THEN 0 ELSE 1)
          /\ \A r \in mine : r.tags \subseteq {m[i][1] : i \in DOMAIN m}
                              \cup {45, 55, 58, 112, 379}
          /\ MsgType(m) = "i" => Len(MassQuoteEntries(m)) = 2 /\ MassQuoteEntries(m)[2][1] = 9
          /\ MsgType(m) = "W" => Len(SnapshotEntries(m)) = 2
==============================================================================
