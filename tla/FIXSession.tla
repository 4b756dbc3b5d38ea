----------------------------- MODULE FIXSession ------------------------------
(***************************************************************************)
(* fix-protocol/fix_parser.hpp and the builders and readers of             *)
(* fix-protocol/fix_session.hpp.  A message is its sequence of fields, a   *)
(* tag and a value each; values are opaque, a value read is the one        *)
(* written.  A body's length is the number of its fields, its checksum the *)
(* fields themselves.                                                      *)
(***************************************************************************)
EXTENDS Integers, Sequences, FiniteSets, SequencesExt, TLC, FiniteSetsExt

MaxFixTags == 32

\* The tags each builder writes after the header 35, 49, 56, 34.
LogonTags == <<108>>
HeartbeatTags(answer) == IF answer THEN <<112>> ELSE <<>>
TestRequestTags == <<112>>
ResendRequestTags == <<7, 16>>
SequenceResetTags == <<36, 123>>
LogoutTags(text) == IF text THEN <<58>> ELSE <<>>
NewOrderTags == <<11, 55, 54, 38, 44, 40>>
CancelOrderTags == <<11, 41, 55, 54, 38>>
CancelReplaceTags == <<11, 41, 55, 54, 38, 44, 40>>
OrderStatusRequestTags == <<11, 55, 54>>
MassCancelTags(symbol) == IF symbol THEN <<11, 530, 55>> ELSE <<11, 530>>
MassCancelReportTags == <<11, 531, 533>>
MarketDataRequestTags == <<262, 263, 264, 146, 55>>
MDSnapshotTags == <<262, 55, 268, 269, 270, 271, 269, 270, 271>>
MDIncrementalTags == <<262, 268, 279, 269, 55, 270, 271>>
MDRequestRejectTags == <<262, 281>>
QuoteTags == <<117, 55, 132, 133, 134, 135>>
QuoteRequestTags == <<131, 146, 55>>
QuoteCancelTags == <<117, 298, 55>>
MassQuoteTags == <<117, 296, 295, 299, 55, 132, 133, 299, 55, 132, 133>>
TradeCaptureReportTags == <<571, 55, 54, 32, 31, 75>>
BusinessRejectTags == <<45, 372, 380, 58>>
SessionStatusRequestTags == <<335, 336, 263>>
SessionStatusTags == <<336, 340>>
MassStatusRequestTags == <<584, 585, 55>>
IOITags == <<23, 28, 55, 54, 27, 44>>
ExecReportTags == <<11, 37, 17, 150, 39, 55, 54, 32, 31, 14, 151>>
RejectTags == <<45, 372, 373, 58>>
BusinessRejectByIdTags == <<372, 379, 380, 58>>
CancelRejectTags == <<11, 41, 37, 39, 434, 102, 58>>
QuoteStatusTags(text) == IF text THEN <<117, 55, 297, 58>> ELSE <<117, 55, 297>>
DontKnowTradeTags(text) == <<37, 17, 127, 55, 54, 38>> \o (IF text THEN <<58>> ELSE <<>>)

\* every message the builders can produce, as <<type, tags>>
Built ==
    {<<"A", LogonTags>>, <<"1", TestRequestTags>>, <<"2", ResendRequestTags>>, <<"4", SequenceResetTags>>,
     <<"D", NewOrderTags>>, <<"F", CancelOrderTags>>, <<"G", CancelReplaceTags>>, <<"H", OrderStatusRequestTags>>,
     <<"r", MassCancelReportTags>>, <<"V", MarketDataRequestTags>>, <<"W", MDSnapshotTags>>,
     <<"X", MDIncrementalTags>>, <<"Y", MDRequestRejectTags>>, <<"S", QuoteTags>>, <<"R", QuoteRequestTags>>,
     <<"Z", QuoteCancelTags>>, <<"i", MassQuoteTags>>, <<"AE", TradeCaptureReportTags>>,
     <<"j", BusinessRejectTags>>, <<"j", BusinessRejectByIdTags>>, <<"g", SessionStatusRequestTags>>,
     <<"h", SessionStatusTags>>, <<"AF", MassStatusRequestTags>>, <<"6", IOITags>>, <<"8", ExecReportTags>>,
     <<"3", RejectTags>>, <<"9", CancelRejectTags>>}
    \cup {<<"0", HeartbeatTags(b)>> : b \in BOOLEAN} \cup {<<"5", LogoutTags(b)>> : b \in BOOLEAN}
    \cup {<<"q", MassCancelTags(b)>> : b \in BOOLEAN} \cup {<<"AI", QuoteStatusTags(b)>> : b \in BOOLEAN}
    \cup {<<"Q", DontKnowTradeTags(b)>> : b \in BOOLEAN}

\* build_message frames a body with 8, 9 and 10
BuildMessage(body) == <<<<8, "FIX.4.2">>, <<9, Len(body)>>>> \o body \o <<<<10, body>>>>

\* the message a builder makes of a type, a number and its own fields
Build(type, seq, fields) ==
    BuildMessage(<<<<35, type>>, <<49, "SENDER">>, <<56, "TARGET">>, <<34, seq>>>> \o fields)

------------------------------------------------------------------------------
(* FIXMessage *)

\* parse keeps the first MAX_FIX_TAGS fields
ParseFields(raw) == SubSeq(raw, 1, IF Len(raw) < MaxFixTags THEN Len(raw) ELSE MaxFixTags)
Occurrences(m, tag) == SelectSeq(m, LAMBDA f : f[1] = tag)
HasField(m, tag) == Occurrences(m, tag) # <<>>
GetField(m, tag) == Occurrences(m, tag)[1][2]
CountField(m, tag) == Len(Occurrences(m, tag))
GetFieldNth(m, tag, n) == Occurrences(m, tag)[n + 1][2]
MsgType(m) == IF HasField(m, 35) THEN GetField(m, 35) ELSE "UNKNOWN"
IsAdmin(m) == HasField(m, 35) /\ MsgType(m) \in {"0", "1", "2", "3", "4", "5", "A"}

HasRequiredHeader(m) == \A tag \in {8, 9, 35, 10} : HasField(m, tag)
\* validate: the checksum over what precedes tag 10, the length from after tag 9
BodyOf(m) ==
    LET from == SelectInSeq(m, LAMBDA f : f[1] = 9) + 1
        to == SelectInSeq(m, LAMBDA f : f[1] = 10) - 1
    IN  SubSeq(m, from, to)
IsValid(m) == HasRequiredHeader(m) /\ GetField(m, 9) = Len(BodyOf(m)) /\ GetField(m, 10) = BodyOf(m)

------------------------------------------------------------------------------
(* The readers: the type each accepts and the tags it reads.  Most look at the
   first character of the type only. *)

First(type) == IF type \in {"AE", "AF", "AI"} THEN "A" ELSE type
Reader(type, exact, tags) == [type |-> type, exact |-> exact, tags |-> tags]

ParseIOI == Reader("6", FALSE, {28, 54, 27, 44})
ParseExecReport == Reader("8", FALSE, {39, 150, 32, 31, 14, 151})
ParseQuoteStatus == Reader("AI", TRUE, {297})
ParseMassStatusRequest == Reader("AF", TRUE, {584, 55, 585})
ParseMDIncremental == Reader("X", FALSE, {262, 55, 279, 269, 270, 271})
ParseResendRequest == Reader("2", FALSE, {7, 16})
ParseSequenceReset == Reader("4", FALSE, {36, 123})
ParseLogon == Reader("A", TRUE, {108})
ParseLogout == Reader("5", FALSE, {58})
ParseTestRequest == Reader("1", FALSE, {112})
ParseHeartbeat == Reader("0", FALSE, {112})
ParseDontKnowTrade == Reader("Q", TRUE, {127})
ParseTradeCaptureReport == Reader("AE", TRUE, {571, 55, 54, 32, 31, 75})
ParseNewOrder == Reader("D", FALSE, {11, 55, 54, 40, 38, 44})
ParseCancelRequest == Reader("F", FALSE, {11, 41, 55, 54, 38})
ParseReplaceRequest == Reader("G", FALSE, {11, 41, 55, 54, 40, 38, 44})
ParseCancelReject == Reader("9", FALSE, {11, 41, 37, 39, 434, 58, 102})
ParseBusinessReject == Reader("j", FALSE, {379, 372, 58, 45, 380})
ParseOrderStatusRequest == Reader("H", FALSE, {11, 55, 54})
ParseMassCancel == Reader("q", FALSE, {11, 530, 55})
ParseMassCancelReport == Reader("r", TRUE, {11, 531, 533})
ParseSessionStatusRequest == Reader("g", FALSE, {335, 336, 263})
ParseSessionStatus == Reader("h", FALSE, {336, 340})
ParseQuoteCancel == Reader("Z", FALSE, {117, 298, 55})
ParseQuoteRequest == Reader("R", FALSE, {131, 55})
ParseQuote == Reader("S", FALSE, {117, 55, 132, 133, 134, 135})
ParseMDRequestReject == Reader("Y", FALSE, {262, 281})
ParseMarketDataRequest == Reader("V", FALSE, {262, 55, 263, 264})
ParseMassQuote == Reader("i", FALSE, {117, 295})
ParseMDSnapshot == Reader("W", FALSE, {262, 55, 268})

Readers ==
    {ParseIOI, ParseExecReport, ParseQuoteStatus, ParseMassStatusRequest, ParseMDIncremental, ParseResendRequest,
     ParseSequenceReset, ParseLogon, ParseLogout, ParseTestRequest, ParseHeartbeat, ParseDontKnowTrade,
     ParseTradeCaptureReport, ParseNewOrder, ParseCancelRequest, ParseReplaceRequest, ParseCancelReject,
     ParseBusinessReject, ParseOrderStatusRequest, ParseMassCancel, ParseMassCancelReport,
     ParseSessionStatusRequest, ParseSessionStatus, ParseQuoteCancel, ParseQuoteRequest, ParseQuote,
     ParseMDRequestReject, ParseMarketDataRequest, ParseMassQuote, ParseMDSnapshot}

Decodes(reader, m) == IF reader.exact THEN MsgType(m) = reader.type ELSE First(MsgType(m)) = reader.type

\* the entries of the repeating groups: 55, 132, 133 of a mass quote, up to 8 of
\* them, and 269, 270, 271 of a snapshot
MassQuoteEntries(m) ==
    LET n == CountField(m, 55)
    IN  [i \in 1..(IF n < 8 THEN n ELSE 8) |->
           <<GetFieldNth(m, 55, i - 1), GetFieldNth(m, 132, i - 1), GetFieldNth(m, 133, i - 1)>>]
SnapshotEntries(m) ==
    [i \in 1..CountField(m, 269) |->
       <<GetFieldNth(m, 269, i - 1), GetFieldNth(m, 270, i - 1), GetFieldNth(m, 271, i - 1)>>]

\* validate_new_order returns no complaint; positive is the set of the values atoi and
\* atof read as more than zero
ValidNewOrder(m, positive) ==
    /\ First(MsgType(m)) = "D" /\ HasField(m, 11) /\ HasField(m, 55)
    /\ HasField(m, 54) /\ First(GetField(m, 54)) \in {"1", "2"}
    /\ HasField(m, 38) /\ GetField(m, 38) \in positive
    /\ HasField(m, 40) /\ First(GetField(m, 40)) = "2" => HasField(m, 44) /\ GetField(m, 44) \in positive

------------------------------------------------------------------------------
(***************************************************************************)
(* fix-protocol/fix_session.hpp: the session's sequence numbers, state and *)
(* timers.  The two time stamps are ages: how long ago the last message    *)
(* came in and the last one went out.                                      *)
(***************************************************************************)
DefaultHeartBt == 30
NewSession == [state |-> "DISCONNECTED", expectedIn |-> 1, nextOut |-> 1, heartBt |-> DefaultHeartBt,
               sinceIn |-> 0, sinceOut |-> 0, testPending |-> FALSE, testReqId |-> "",
               gaps |-> 0, heartbeats |-> 0, resends |-> 0]

IsGap(s, n) == n > s.expectedIn

ObserveInbound(s, n) ==
    [s EXCEPT !.sinceIn = 0, !.testPending = FALSE,
              !.expectedIn = IF n >= @ THEN n + 1 ELSE @,
              !.gaps = IF IsGap(s, n) THEN @ + 1 ELSE @]

ApplyInboundSequenceReset(s, n) == [s EXCEPT !.expectedIn = IF n >= @ THEN n ELSE @]

MarkLogonSent(s) == [s EXCEPT !.state = "LOGON_SENT", !.sinceOut = 0]
MarkLogonReceived(s, hb) ==
    [s EXCEPT !.state = "LOGGED_IN", !.heartBt = IF hb > 0 THEN hb ELSE DefaultHeartBt, !.sinceIn = 0]
MarkLogout(s) == [s EXCEPT !.state = "LOGOUT", !.sinceOut = 0]
MarkDisconnected(s) == [s EXCEPT !.state = "DISCONNECTED"]
MarkOutbound(s) == [s EXCEPT !.sinceOut = 0]
MarkResendRequested(s) == [s EXCEPT !.resends = @ + 1]
ClearPendingTestReq(s) == [s EXCEPT !.testReqId = ""]

ProcessInbound(s, m) ==
    IF MsgType(m) = "4"
    THEN [(IF HasField(m, 36) THEN ApplyInboundSequenceReset(s, GetField(m, 36)) ELSE s) EXCEPT !.sinceIn = 0]
    ELSE LET seen == IF HasField(m, 34) THEN ObserveInbound(s, GetField(m, 34)) ELSE [s EXCEPT !.sinceIn = 0]
             kind == First(MsgType(m))
         IN  CASE kind = "A" -> MarkLogonReceived(seen, IF HasField(m, 108) THEN GetField(m, 108) ELSE DefaultHeartBt)
               [] kind = "5" -> MarkLogout(seen)
               [] kind = "1" -> [seen EXCEPT !.testReqId = IF HasField(m, 112) THEN GetField(m, 112) ELSE @]
               [] OTHER -> seen

\* the gap process_inbound reports: a sequence reset reports none
GapOf(s, m) == MsgType(m) # "4" /\ HasField(m, 34) /\ IsGap(s, GetField(m, 34))

\* what tick asks for, and what it leaves behind
TickAction(s) ==
    IF s.state # "LOGGED_IN" THEN "NONE"
    ELSE IF s.sinceIn > 2 * s.heartBt THEN (IF s.testPending THEN "DISCONNECT" ELSE "SEND_TEST_REQUEST")
    ELSE IF s.sinceOut > s.heartBt THEN "SEND_HEARTBEAT" ELSE "NONE"


Tick(s) ==
    CASE TickAction(s) = "SEND_TEST_REQUEST" -> [s EXCEPT !.testPending = TRUE]
      [] TickAction(s) = "SEND_HEARTBEAT" -> [s EXCEPT !.heartbeats = @ + 1, !.sinceOut = 0]
      [] OTHER -> s

PersistSeq(s) == [out |-> s.nextOut, in |-> s.expectedIn]

\* Mutant of LoadPersistedSeq: the two numbers are read in the wrong order.
LoadPersistedSeqSwapped(s, saved) == [s EXCEPT !.nextOut = saved.in, !.expectedIn = saved.out]
LoadPersistedSeq(s, saved) == [s EXCEPT !.nextOut = saved.out, !.expectedIn = saved.in]

NextOutboundSeq(s) == [s EXCEPT !.nextOut = @ + 1]
BuildHeartbeat(s) == [NextOutboundSeq(s) EXCEPT !.heartbeats = @ + 1]

\* parse_resend_request's range: open to the end when EndSeqNo is 0
ResendCount(begin, end) == IF end >= begin /\ end > 0 THEN end - begin + 1 ELSE 0

------------------------------------------------------------------------------
(***************************************************************************)
(* fix-protocol/fix_order_state.hpp: FIXOrderTracker, the client's picture *)
(* of its orders, moved by execution reports and cancel rejects.           *)
(***************************************************************************)
NewFIXTracker == [orders |-> <<>>, fills |-> 0, cancels |-> 0, rejects |-> 0, cancelRejects |-> 0,
                  replaces |-> 0, notional |-> 0, shares |-> 0]

MapStatus(s) == CASE s = "0" -> "NEW" [] s = "1" -> "PARTIAL" [] s = "2" -> "FILLED"
                  [] s = "4" -> "CANCELED" [] s = "8" -> "REJECTED" [] OTHER -> "UNKNOWN"
Known(t, id) == id \in DOMAIN t.orders
Works(o) == o.state \in {"NEW", "PARTIAL"}

OnNewOrder(t, id, qty) ==
    [t EXCEPT !.orders = (id :> [state |-> "NEW", ordered |-> qty, cum |-> 0, leaves |-> qty, pending |-> FALSE]) @@ @]

\* cum_qty and leaves_qty as far as the report has them
Told(o, m) == [o EXCEPT !.cum = IF HasField(m, 14) THEN GetField(m, 14) ELSE @,
                        !.leaves = IF HasField(m, 151) THEN GetField(m, 151) ELSE @]

\* An accepted replacement moves the record from the original id to the new one.
OnReplacedReport(t, m) ==
    IF ~HasField(m, 41) \/ ~Known(t, GetField(m, 41)) THEN t
    ELSE LET orig == GetField(m, 41)
             moved == Told(t.orders[orig], m)
             rest == [k \in DOMAIN t.orders \ {orig} |-> t.orders[k]]
         IN  [t EXCEPT !.replaces = @ + 1,
                       !.orders = (GetField(m, 11) :> [moved EXCEPT !.pending = FALSE,
                                     !.state = IF moved.cum > 0 THEN "PARTIAL" ELSE "NEW"]) @@ rest]

\* Mutant of OnExecReport: the fill is counted from the cumulative quantity.
OnExecReportCum(t, m) ==
    IF ~HasField(m, 11) \/ ~Known(t, GetField(m, 11)) THEN t
    ELSE LET id == GetField(m, 11)
             o == Told(t.orders[id], m)
             state == IF HasField(m, 39) THEN MapStatus(GetField(m, 39)) ELSE "UNKNOWN"
         IN  [t EXCEPT !.orders[id] = [o EXCEPT !.state = state], !.shares = @ + o.cum]

OnExecReport(t, m) ==
    IF ~HasField(m, 11) THEN t
    ELSE IF HasField(m, 39) /\ GetField(m, 39) = "5" THEN OnReplacedReport(t, m)
    ELSE IF ~Known(t, GetField(m, 11)) THEN t
    ELSE LET id == GetField(m, 11)
             traded == HasField(m, 32) /\ HasField(m, 31) /\ GetField(m, 32) > 0 /\ GetField(m, 31) > 0
             state == IF HasField(m, 39) THEN MapStatus(GetField(m, 39)) ELSE "UNKNOWN"
             o == Told(t.orders[id], m)
         IN  [t EXCEPT !.orders[id] = [o EXCEPT !.state = state, !.pending = @ /\ state # "CANCELED"],
                       !.notional = IF traded THEN @ + GetField(m, 32) * GetField(m, 31) ELSE @,
                       !.shares = IF traded THEN @ + GetField(m, 32) ELSE @,
                       !.fills = IF state = "FILLED" THEN @ + 1 ELSE @,
                       !.cancels = IF state = "CANCELED" THEN @ + 1 ELSE @,
                       !.rejects = IF state = "REJECTED" THEN @ + 1 ELSE @]

OnCancelRequested(t, orig) ==
    IF Known(t, orig) /\ Works(t.orders[orig]) THEN [t EXCEPT !.orders[orig].pending = TRUE] ELSE t

OnCancelRejected(t, m) ==
    IF ~HasField(m, 41) \/ ~Known(t, GetField(m, 41)) THEN t
    ELSE [t EXCEPT !.orders[GetField(m, 41)].pending = FALSE, !.cancelRejects = @ + 1]

Share(n, d) == IF d > 0 THEN <<n, d>> ELSE <<0, 0>>
SumFIX(t, ids, value(_)) == MapThenSumSet(LAMBDA k : value(t.orders[k]), ids)
WorkingIds(t) == {k \in DOMAIN t.orders : Works(t.orders[k])}
IsPendingCancelFIX(t, id) == Known(t, id) /\ t.orders[id].pending
StateOf(t, id) == IF Known(t, id) THEN t.orders[id].state ELSE "UNKNOWN"
CumQty(t, id) == IF Known(t, id) THEN t.orders[id].cum ELSE 0
LeavesQty(t, id) == IF Known(t, id) THEN t.orders[id].leaves ELSE 0
WorkingOrders(t) == Cardinality(WorkingIds(t))
WorkingQty(t) == SumFIX(t, WorkingIds(t), LAMBDA o : o.leaves)
PendingCancelQty(t) == SumFIX(t, {k \in DOMAIN t.orders : t.orders[k].pending}, LAMBDA o : o.leaves)
PendingCancelShare(t) == Share(PendingCancelQty(t), WorkingQty(t))
TotalFilledQty(t) == SumFIX(t, DOMAIN t.orders, LAMBDA o : o.cum)
FIXFillRate(t) == Share(TotalFilledQty(t), SumFIX(t, DOMAIN t.orders, LAMBDA o : o.ordered))
FIXFillVwap(t) == Share(t.notional, t.shares)
FIXOrderFillRate(t) == Share(t.fills, Cardinality(DOMAIN t.orders))
FIXCancelRate(t) == Share(t.cancels, Cardinality(DOMAIN t.orders))
FIXRejectRate(t) == Share(t.rejects, Cardinality(DOMAIN t.orders))
==============================================================================
