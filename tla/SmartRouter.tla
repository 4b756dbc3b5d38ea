----------------------------- MODULE SmartRouter -----------------------------
(***************************************************************************)
(* router/smart_router.hpp: SmartOrderRouter.  The venues are a sequence,  *)
(* the array's order deciding ties; prices and fees are integers, a fee    *)
(* below zero a rebate.  The router's own latency is not modelled.         *)
(***************************************************************************)
EXTENDS Depth

MaxVenues == 16

NewVenue(name, latency, p99, fee) ==
    [name |-> name, latency |-> latency, p99 |-> p99, fee |-> fee, bid |-> 0, ask |-> 0, bidSize |-> 0, askSize |-> 0,
     active |-> TRUE, ewma |-> <<0, 1>>, samples |-> 0, failures |-> 0, shares |-> 0, routes |-> 0, quoted |-> 0]
NewRouter(strategy, threshold, maxFailures) ==
    [venues |-> <<>>, strategy |-> strategy, threshold |-> threshold, maxFailures |-> maxFailures,
     routes |-> 0, rejected |-> 0, unfilled |-> 0, notional |-> 0, fees |-> 0]

SelectionLatency(v) == IF v.samples > 0 THEN v.ewma[1] \div v.ewma[2] ELSE IF v.p99 > 0 THEN v.p99 ELSE v.latency

------------------------------------------------------------------------------
(* Venues and their health *)

Place(r, name) == SelectInSeq(r.venues, LAMBDA v : v.name = name)
Listed(r, name) == Place(r, name) > 0
VenueAt(r, name) == r.venues[Place(r, name)]
OnVenue(r, name, change(_)) ==
    IF Listed(r, name) THEN [r EXCEPT !.venues[Place(r, name)] = change(@)] ELSE r

AddVenue(r, v) == IF Len(r.venues) < MaxVenues THEN [r EXCEPT !.venues = Append(@, v)] ELSE r
RemoveVenue(r, name) == IF Listed(r, name) THEN [r EXCEPT !.venues = RemoveAt(@, Place(r, name))] ELSE r

\* the moving average takes a fifth of the new sample
RecordLatency(r, name, observed) ==
    LET revived(v) == [v EXCEPT !.ewma = IF v.samples = 0 THEN <<observed, 1>>
                                         ELSE <<observed * @[2] + 4 * @[1], 5 * @[2]>>,
                                !.samples = @ + 1, !.failures = 0, !.active = TRUE]
    IN  IF observed <= 0 THEN r ELSE OnVenue(r, name, revived)

\* Mutant of RecordReject: the threshold is off by one.
RecordRejectLate(r, name) ==
    OnVenue(r, name, LAMBDA v : [v EXCEPT !.failures = @ + 1, !.active = @ /\ v.failures < r.maxFailures])

RecordReject(r, name) ==
    OnVenue(r, name, LAMBDA v : [v EXCEPT !.failures = @ + 1, !.active = @ /\ v.failures + 1 < r.maxFailures])
RecordSuccess(r, name) == OnVenue(r, name, LAMBDA v : [v EXCEPT !.failures = 0, !.active = TRUE])
SetVenueActive(r, name, active) ==
    OnVenue(r, name, LAMBDA v : [v EXCEPT !.active = active, !.failures = IF active THEN 0 ELSE @])
SetVenueFee(r, name, fee) == OnVenue(r, name, LAMBDA v : [v EXCEPT !.fee = fee])
UpdateQuote(r, name, bid, ask, bidSize, askSize, now) ==
    OnVenue(r, name, LAMBDA v : [v EXCEPT !.bid = bid, !.ask = ask, !.bidSize = bidSize, !.askSize = askSize,
                                          !.quoted = now])

------------------------------------------------------------------------------
(* Routing *)

Quote(v, buy) == IF buy THEN v.ask ELSE v.bid
Size(v, buy) == IF buy THEN v.askSize ELSE v.bidSize
HasLiquidity(v, buy) == v.active /\ Quote(v, buy) > 0 /\ Size(v, buy) > 0
EffectivePrice(v, buy) == IF buy THEN v.ask + v.fee ELSE v.bid - v.fee
Cheaper(buy, p, q) == IF buy THEN p < q ELSE p > q

\* the places of the venues with liquidity on a side
Candidates(r, buy) == SelectSeq([i \in DOMAIN r.venues |-> i], LAMBDA i : HasLiquidity(r.venues[i], buy))

\* a scan that keeps its first choice among equals
Scan(r, places, better(_, _)) ==
    FoldLeft(LAMBDA best, i : IF better(r.venues[i], r.venues[best]) THEN i ELSE best, Head(places), places)
Fastest(r, places) == Scan(r, places, LAMBDA v, w : SelectionLatency(v) < SelectionLatency(w))
Cheapest(r, places, buy) == Scan(r, places, LAMBDA v, w : Cheaper(buy, EffectivePrice(v, buy), EffectivePrice(w, buy)))

\* split_order's exchange sort
SortByPrice(r, places, buy) ==
    LET price(i) == EffectivePrice(r.venues[i], buy)
        pairs == SetToSortSeq({ij \in (DOMAIN places) \X (DOMAIN places) : ij[1] < ij[2]},
                              LAMBDA a, b : a[1] < b[1] \/ (a[1] = b[1] /\ a[2] < b[2]))
        swap(s, ij) == IF Cheaper(buy, price(s[ij[2]]), price(s[ij[1]]))
                       THEN [s EXCEPT ![ij[1]] = s[ij[2]], ![ij[2]] = s[ij[1]]] ELSE s
    IN  FoldLeft(swap, places, pairs)

\* The legs of a walk over places: what each venue is given of quantity.
Walk(r, places, buy, quantity) ==
    LET give(s, i) == LET q == Min({s.left, Size(r.venues[i], buy)})
                      IN  IF q <= 0 THEN s ELSE [left |-> s.left - q, legs |-> Append(s.legs, <<i, q>>)]
    IN  FoldLeft(give, [left |-> quantity, legs |-> <<>>], places).legs

NoRoute(reason) == [valid |-> FALSE, reason |-> reason, venue |-> "", qty |-> 0, unfilled |-> 0, legs |-> <<>>,
                    paid |-> 0, fee |-> 0]
SumLegs(legs, value(_)) == FoldLeft(LAMBDA s, leg : s + value(leg), 0, legs)
\* a route over legs: its price and its effective price are means, kept as sums
Route(r, legs, buy, quantity) ==
    LET filled == SumLegs(legs, LAMBDA leg : leg[2])
    IN  [valid |-> TRUE, reason |-> "NONE", venue |-> r.venues[legs[1][1]].name, qty |-> filled,
         unfilled |-> quantity - filled, legs |-> legs,
         paid |-> SumLegs(legs, LAMBDA leg : Quote(r.venues[leg[1]], buy) * leg[2]),
         fee |-> SumLegs(legs, LAMBDA leg : r.venues[leg[1]].fee * leg[2])]

\* Mutant of Decide: the venues are walked in the order of the array.
DecideUnsorted(r, buy, quantity, strategy) ==
    LET places == Candidates(r, buy)
    IN  IF places = <<>> THEN NoRoute("NO_LIQUIDITY") ELSE Route(r, Walk(r, places, buy, quantity), buy, quantity)

\* route_order's decision
Decide(r, buy, quantity, strategy) ==
    LET places == Candidates(r, buy)
        best == IF strategy = "LOWEST_LATENCY" THEN Fastest(r, places) ELSE Cheapest(r, places, buy)
        split == Walk(r, SortByPrice(r, places, buy), buy, quantity)
    IN  CASE places = <<>> -> NoRoute(IF r.venues = <<>> THEN "NO_VENUES" ELSE "NO_LIQUIDITY")
          [] places # <<>> /\ strategy = "SPLIT" /\ quantity >= r.threshold ->
               IF split = <<>> THEN NoRoute("NO_LIQUIDITY") ELSE Route(r, split, buy, quantity)
          [] OTHER -> Route(r, <<<<best, Min({quantity, Size(r.venues[best], buy)})>>>>, buy, quantity)

\* Mutant of RouteOrder: only the first leg is credited to its venue.
RouteOrderFirst(r, buy, quantity, strategy) ==
    LET d == Decide(r, buy, quantity, strategy)
    IN  IF ~d.valid THEN [r EXCEPT !.rejected = @ + 1]
        ELSE [r EXCEPT !.routes = @ + 1, !.unfilled = @ + d.unfilled, !.notional = @ + d.paid, !.fees = @ + d.fee,
                       !.venues[d.legs[1][1]].shares = @ + d.legs[1][2], !.venues[d.legs[1][1]].routes = @ + 1]

\* what route_order leaves behind
RouteOrder(r, buy, quantity, strategy) ==
    LET d == Decide(r, buy, quantity, strategy)
        credit(venues, leg) == [venues EXCEPT ![leg[1]].shares = @ + leg[2], ![leg[1]].routes = @ + 1]
    IN  IF ~d.valid THEN [r EXCEPT !.rejected = @ + 1]
        ELSE [r EXCEPT !.venues = FoldLeft(credit, @, d.legs), !.routes = @ + 1, !.unfilled = @ + d.unfilled,
                       !.notional = @ + d.paid, !.fees = @ + d.fee]

ResetRoutingStats(r) == [r EXCEPT !.venues = [i \in DOMAIN @ |-> [@[i] EXCEPT !.shares = 0, !.routes = 0]]]
ResetSessionStats(r) ==
    [ResetRoutingStats(r) EXCEPT !.routes = 0, !.rejected = 0, !.unfilled = 0, !.notional = 0, !.fees = 0]

------------------------------------------------------------------------------
(***************************************************************************)
(* router/smart_router.hpp: what SmartOrderRouter tells about the venues,  *)
(* the consolidated market and what it routed.                             *)
(***************************************************************************)
Active(r) == {i \in DOMAIN r.venues : r.venues[i].active}
Liquid(r, buy) == {i \in DOMAIN r.venues : HasLiquidity(r.venues[i], buy)}
Venue(r, i) == r.venues[i]
Sum(set, value(_)) == MapThenSumSet(value, set)
NameAt(r, i) == IF i = 0 THEN "" ELSE r.venues[i].name
\* the first place of set that no other beats; 0 when there is none
FirstBest(r, set, value(_)) ==
    IF set = {} THEN 0
    ELSE Min({i \in set : \A j \in set : value(r.venues[j]) <= value(r.venues[i])})

(* Health and age *)
VenueActive(r, name) == Listed(r, name) /\ VenueAt(r, name).active
VenueFailureStreak(r, name) == IF Listed(r, name) THEN VenueAt(r, name).failures ELSE -1
VenueEwmaLatency(r, name) == IF Listed(r, name) THEN VenueAt(r, name).ewma ELSE <<0, 1>>
LeastHealthyVenue(r) ==
    NameAt(r, FirstBest(r, {i \in Active(r) : Venue(r, i).failures > 0}, LAMBDA v : v.failures))
Fresh(r, maxAge, at) == {i \in Active(r) : Venue(r, i).quoted # 0 /\ at - Venue(r, i).quoted <= maxAge}
FreshVenueCount(r, maxAge, at) == Cardinality(Fresh(r, maxAge, at))
Age(v, at) == IF at > v.quoted THEN at - v.quoted ELSE 0
VenueQuoteAge(r, name, at) ==
    IF Listed(r, name) /\ VenueAt(r, name).quoted # 0 THEN Age(VenueAt(r, name), at) ELSE -1
Quoted(r) == {i \in Active(r) : Venue(r, i).quoted # 0}
StalestQuoteAge(r, at) == IF Quoted(r) = {} THEN -1 ELSE Max({Age(Venue(r, i), at) : i \in Quoted(r)})
StalestQuoteVenue(r, at) == NameAt(r, FirstBest(r, Quoted(r), LAMBDA v : Age(v, at)))

(* The national best bid and offer: raw quotes; the bid must be above 0 *)
Bidding(r) == {i \in Active(r) : Venue(r, i).bidSize > 0 /\ Venue(r, i).bid > 0}
Offering(r) == {i \in Active(r) : Venue(r, i).askSize > 0}
NationalBestBid(r) == IF Bidding(r) = {} THEN 0 ELSE Max({Venue(r, i).bid : i \in Bidding(r)})
NationalBestAsk(r) == IF Offering(r) = {} THEN 0 ELSE Min({Venue(r, i).ask : i \in Offering(r)})
NbboBidVenue(r) == NameAt(r, FirstBest(r, Bidding(r), LAMBDA v : v.bid))
NbboAskVenue(r) == NameAt(r, FirstBest(r, Offering(r), LAMBDA v : -v.ask))
Whole(r) == NationalBestBid(r) > 0 /\ NationalBestAsk(r) > 0
NbboMid(r) == IF Whole(r) THEN <<NationalBestBid(r) + NationalBestAsk(r), 2>> ELSE <<0, 0>>
NbboSpread(r) == IF Whole(r) THEN NationalBestAsk(r) - NationalBestBid(r) ELSE 0
NbboSpreadOverMid(r) ==
    IF Whole(r) THEN <<2 * NbboSpread(r), NationalBestBid(r) + NationalBestAsk(r)>> ELSE <<0, 0>>
NbboLocked(r) == Whole(r) /\ NationalBestBid(r) = NationalBestAsk(r)
NbboCrossed(r) == Whole(r) /\ NationalBestBid(r) > NationalBestAsk(r)
AtTouch(r, bidSide) == IF bidSide THEN {i \in Active(r) : Venue(r, i).bidSize > 0 /\ Venue(r, i).bid = NationalBestBid(r)}
                       ELSE {i \in Active(r) : Venue(r, i).askSize > 0 /\ Venue(r, i).ask = NationalBestAsk(r)}
Touch(r, buy) == IF buy THEN NationalBestAsk(r) ELSE NationalBestBid(r)
VenuesAtNbbo(r, bidSide) == IF Touch(r, ~bidSide) <= 0 THEN 0 ELSE Cardinality(AtTouch(r, bidSide))
NbboDepth(r, buy) == IF Touch(r, buy) <= 0 THEN 0 ELSE Sum(AtTouch(r, ~buy), LAMBDA i : Size(Venue(r, i), buy))
NbboDepthNotional(r, buy) == NbboDepth(r, buy) * Touch(r, buy)
NbboImbalance(r) ==
    IF Whole(r) THEN Imbalance(NbboDepth(r, FALSE), NbboDepth(r, TRUE)) ELSE <<0, 0>>
\* the sizes are those of the first venue at each side of the touch
NbboMicroprice(r) ==
    LET b == FirstBest(r, Bidding(r), LAMBDA v : v.bid)
        a == FirstBest(r, Liquid(r, TRUE), LAMBDA v : -v.ask)
    IN  IF a = 0 \/ b = 0 THEN <<0, 0>>
        ELSE <<Venue(r, b).bid * Venue(r, a).askSize + Venue(r, a).ask * Venue(r, b).bidSize,
               Venue(r, b).bidSize + Venue(r, a).askSize>>
InternallyCrossedCount(r) ==
    Cardinality({i \in Active(r) : Venue(r, i).bid > 0 /\ Venue(r, i).ask > 0 /\ Venue(r, i).bid > Venue(r, i).ask})
FreshNbboMid(r, maxAge, at) ==
    LET bids == {Venue(r, i).bid : i \in Fresh(r, maxAge, at) \cap Liquid(r, FALSE)}
        asks == {Venue(r, i).ask : i \in Fresh(r, maxAge, at) \cap Liquid(r, TRUE)}
    IN  IF bids = {} \/ asks = {} THEN <<0, 0>> ELSE <<Max(bids) + Min(asks), 2>>

(* Liquidity *)
SizeOf(r, set, buy) == Sum(set, LAMBDA i : Size(Venue(r, i), buy))
ActiveVenueCount(r) == Cardinality(Active(r))
TwoSidedVenueCount(r) == Cardinality(Liquid(r, TRUE) \cap Liquid(r, FALSE))
LiquidityVenueCount(r, buy) == Cardinality(Liquid(r, buy))
AvailableLiquidity(r, buy) == SizeOf(r, Liquid(r, buy), buy)
FreshAvailableLiquidity(r, buy, maxAge, at) == SizeOf(r, Fresh(r, maxAge, at) \cap Liquid(r, buy), buy)
AvailableLiquidityNotional(r, buy) ==
    Sum(Liquid(r, buy), LAMBDA i : Quote(Venue(r, i), buy) * Size(Venue(r, i), buy))
RouterShortfall(r, buy, shares) == Max({shares - AvailableLiquidity(r, buy), 0})
FillableRatio(r, buy, shares) ==
    IF shares <= 0 THEN <<0, 0>> ELSE <<Min({AvailableLiquidity(r, buy), shares}), shares>>
TouchConcentration(r, buy) == Ratio(NbboDepth(r, buy), AvailableLiquidity(r, buy))
\* Mutant of WithinLimit: a venue exactly at the limit is left out.
WithinLimitStrict(r, buy, limit) ==
    {i \in Liquid(r, buy) : Cheaper(buy, EffectivePrice(Venue(r, i), buy), limit)}

\* the venues whose price with fee is no worse than limit
WithinLimit(r, buy, limit) ==
    {i \in Liquid(r, buy) : ~Cheaper(buy, limit, EffectivePrice(Venue(r, i), buy))}

LiquidityAtLimit(r, buy, limit) == SizeOf(r, WithinLimit(r, buy, limit), buy)
VenueLiquidityShare(r, name, buy) ==
    Ratio(IF Listed(r, name) /\ HasLiquidity(VenueAt(r, name), buy) THEN Size(VenueAt(r, name), buy) ELSE 0,
          AvailableLiquidity(r, buy))
\* the sum of the squared shares, over the squared total
LiquidityConcentration(r, buy) ==
    Ratio(Sum(Liquid(r, buy), LAMBDA i : Size(Venue(r, i), buy) ^ 2), AvailableLiquidity(r, buy) ^ 2)
DeepestVenue(r, buy) == NameAt(r, FirstBest(r, Liquid(r, buy), LAMBDA v : Size(v, buy)))

(* Prices with fees *)
Goodness(buy, v) == IF buy THEN -EffectivePrice(v, buy) ELSE EffectivePrice(v, buy)
CheapestVenue(r, buy) == NameAt(r, FirstBest(r, Liquid(r, buy), LAMBDA v : Goodness(buy, v)))
MostExpensiveVenue(r, buy) == NameAt(r, FirstBest(r, Liquid(r, buy), LAMBDA v : -Goodness(buy, v)))
AllIn(r, buy) == {EffectivePrice(Venue(r, i), buy) : i \in Liquid(r, buy)}
BestEffectivePrice(r, buy) == IF AllIn(r, buy) = {} THEN 0 ELSE IF buy THEN Min(AllIn(r, buy)) ELSE Max(AllIn(r, buy))
EffectivePriceDispersion(r, buy) == IF AllIn(r, buy) = {} THEN 0 ELSE Max(AllIn(r, buy)) - Min(AllIn(r, buy))
EffectiveSpreadOverMid(r) ==
    LET a == BestEffectivePrice(r, TRUE)
        b == BestEffectivePrice(r, FALSE)
    IN  IF a <= 0 \/ b <= 0 THEN <<0, 0>> ELSE <<2 * (a - b), a + b>>
RouterMarketable(r, buy, limit) ==
    BestEffectivePrice(r, buy) > 0 /\ ~Cheaper(buy, limit, BestEffectivePrice(r, buy))
VenueEffectivePrice(r, name, buy) ==
    IF Listed(r, name) /\ HasLiquidity(VenueAt(r, name), buy) THEN EffectivePrice(VenueAt(r, name), buy) ELSE 0
RebateVenueCount(r) == Cardinality({i \in Active(r) : Venue(r, i).fee < 0})
AvgVenueFee(r) == Ratio(Sum(Active(r), LAMBDA i : Venue(r, i).fee), Cardinality(Active(r)))
CheapestFeeVenue(r) == NameAt(r, FirstBest(r, Active(r), LAMBDA v : -v.fee))
DearestFeeVenue(r) == NameAt(r, FirstBest(r, Active(r), LAMBDA v : v.fee))

(* Latency *)
FastestVenue(r) == NameAt(r, FirstBest(r, Active(r), LAMBDA v : -SelectionLatency(v)))
SlowestVenue(r) == NameAt(r, FirstBest(r, Active(r), LAMBDA v : SelectionLatency(v)))
AvgVenueLatency(r) == Ratio(Sum(Active(r), LAMBDA i : SelectionLatency(Venue(r, i))), Cardinality(Active(r)))
VenueLatencySpread(r) ==
    LET all == {SelectionLatency(Venue(r, i)) : i \in Active(r)} IN IF all = {} THEN 0 ELSE Max(all) - Min(all)

(* Sweeps: the venues as levels, best first, the raw quote or the price with fee *)
Ranked(r, set, price(_), buy) ==
    LET before(i, j) == \/ Cheaper(buy, price(Venue(r, i)), price(Venue(r, j)))
                        \/ price(Venue(r, i)) = price(Venue(r, j)) /\ i < j
        order == SetToSortSeq(set, before)
    IN  [n \in DOMAIN order |-> [px |-> price(Venue(r, order[n])), qty |-> Size(Venue(r, order[n]), buy)]]
RawLadder(r, set, buy) == Ranked(r, set, LAMBDA v : Quote(v, buy), buy)
AllInLadder(r, buy, limit) == Ranked(r, WithinLimit(r, buy, limit), LAMBDA v : EffectivePrice(v, buy), buy)
Swept(ladder, shares) == IF shares <= 0 THEN [left |-> 0, filled |-> 0, paid |-> 0] ELSE Sweep(ladder, shares)
SweepToFill(r, buy, shares) == Swept(RawLadder(r, Liquid(r, buy), buy), shares)
SweepToFillFresh(r, buy, shares, maxAge, at) ==
    Swept(RawLadder(r, Liquid(r, buy) \cap Fresh(r, maxAge, at), buy), shares)
SweepToFillAtLimit(r, buy, shares, limit) == Swept(AllInLadder(r, buy, limit), shares)
Touched(ladder, shares) == IF shares <= 0 THEN 0 ELSE LET n == Reach(ladder, shares) IN IF n = 0 THEN -1 ELSE n
VenuesToFill(r, buy, shares) == Touched(RawLadder(r, Liquid(r, buy), buy), shares)
VenuesToFillAtLimit(r, buy, shares, limit) == Touched(AllInLadder(r, buy, limit), shares)
\* over the mid: (paid / filled - mid) / mid
SweepSlippage(r, buy, shares) ==
    LET s == SweepToFill(r, buy, shares)
        m == NbboMid(r)
    IN  IF s.filled = 0 \/ ~Defined(m) THEN <<0, 0>>
        ELSE <<(IF buy THEN 1 ELSE -1) * (s.paid * m[2] - m[1] * s.filled), m[1] * s.filled>>

(* What was routed *)
VenueRoutedShares(r, name) == IF Listed(r, name) THEN VenueAt(r, name).shares ELSE 0
VenueRouteCount(r, name) == IF Listed(r, name) THEN VenueAt(r, name).routes ELSE -1
AvgRouteSize(r, name) == IF Listed(r, name) THEN Ratio(VenueAt(r, name).shares, VenueAt(r, name).routes) ELSE <<0, 0>>
TotalRoutedShares(r) == Sum(DOMAIN r.venues, LAMBDA i : Venue(r, i).shares)
VenueSharePct(r, name) == Ratio(VenueRoutedShares(r, name), TotalRoutedShares(r))
RoutingConcentration(r) == Ratio(Sum(DOMAIN r.venues, LAMBDA i : Venue(r, i).shares ^ 2), TotalRoutedShares(r) ^ 2)
BusiestVenue(r) ==
    NameAt(r, FirstBest(r, {i \in DOMAIN r.venues : Venue(r, i).shares > 0}, LAMBDA v : v.shares))
MostChosenVenue(r) ==
    NameAt(r, FirstBest(r, {i \in DOMAIN r.venues : Venue(r, i).routes > 0}, LAMBDA v : v.routes))
IdleVenueCount(r, buy) == Cardinality({i \in Liquid(r, buy) : Venue(r, i).shares = 0})
AvgFeePerShare(r) == Ratio(r.fees, TotalRoutedShares(r))
RouterRejectRate(r) == Ratio(r.rejected, r.routes + r.rejected)
RouteShortfallRate(r) == Ratio(r.unfilled, TotalRoutedShares(r) + r.unfilled)
AvgRoutedPrice(r) == Ratio(r.notional, TotalRoutedShares(r))
FeeOverNotional(r) == IF r.notional > 0 THEN <<r.fees, r.notional>> ELSE <<0, 0>>

------------------------------------------------------------------------------
(***************************************************************************)
(* A SmartOrderRouter in use: venues are listed and withdrawn, quotes and  *)
(* fees change, orders are routed under each strategy, and the venues'     *)
(* answers come back late and in any order.  The callers are not in the    *)
(* repository.                                                             *)
(***************************************************************************)
CONSTANTS Catalogue,   \* the venues that may be listed, as NewVenue's arguments
          Quotes,      \* bid, ask, bid size, ask size
          Opening,     \* the quote every venue of a session under way has
          Fees,        \* what a fee may be set to
          MaxQty,      \* bound: the size of an order placed; one larger is asked about
          Threshold,   \* split_threshold
          MaxFailures, \* set_failure_threshold
          MaxCalls     \* bound: calls made of the router, less for one that starts with quotes

VARIABLES router,
          inFlight,  \* the venues an order was sent to and has no answer from
          now,       \* the calls made so far, which is also the time
          past       \* what was asked of the router, streaks and halts as the venues gave them
routerVars == <<router, inFlight, now, past>>

Names == {c[1] : c \in Catalogue}
Bare == NewRouter("BEST_PRICE", Threshold, MaxFailures)
\* a router with the whole catalogue listed and quoted, at the start of a session:
\* the last one's orders may still be answered
Stocked(quote) ==
    FoldLeft(LAMBDA r, c : UpdateQuote(AddVenue(r, NewVenue(c[1], c[2], c[3], c[4])), c[1],
                                       quote[c[1]][1], quote[c[1]][2], quote[c[1]][3], quote[c[1]][4], 1),
             Bare, SetToSortSeq(Catalogue, LAMBDA c, d : c[2] > d[2]))
RouterInit ==
    /\ \/ router = Bare /\ now = 2 /\ inFlight = [n \in Names |-> 0]
       \/ /\ router = Stocked([n \in Names |-> Opening]) /\ now = 2
          /\ inFlight = [n \in Names |-> 2]
       \/ \E quote \in [Names -> Quotes] : /\ router = Stocked(quote) /\ now = MaxCalls - 1
                                          /\ inFlight = [n \in Names |-> 0]
    /\ past = [asked |-> 0, paid |-> 0, fees |-> 0, calls |-> 0, withdrawn |-> 0,
               streak |-> [n \in Names |-> 0], halted |-> {}]

Call(r, p) == now < MaxCalls /\ now' = now + 1 /\ router' = r /\ past' = p
Held(n) == Listed(router, n)
Calm(n) == [past EXCEPT !.streak[n] = 0]

List(c) == /\ ~Held(c[1]) /\ Call(AddVenue(router, NewVenue(c[1], c[2], c[3], c[4])), Calm(c[1]))
           /\ UNCHANGED inFlight
Withdraw(n) == /\ Held(n) /\ UNCHANGED inFlight
               /\ Call(RemoveVenue(router, n),
                       [Calm(n) EXCEPT !.withdrawn = @ + VenueRoutedShares(router, n), !.halted = @ \ {n}])
Requote(n, q) == Held(n) /\ Call(UpdateQuote(router, n, q[1], q[2], q[3], q[4], now + 1), past) /\ UNCHANGED inFlight
Reprice(n, fee) == /\ Held(n) /\ VenueAt(router, n).fee # fee /\ Call(SetVenueFee(router, n, fee), past)
                   /\ UNCHANGED inFlight
Enable(n) == Held(n) /\ Call(SetVenueActive(router, n, TRUE), [Calm(n) EXCEPT !.halted = @ \ {n}]) /\ UNCHANGED inFlight
Disable(n) == /\ Held(n) /\ Call(SetVenueActive(router, n, FALSE), [past EXCEPT !.halted = @ \cup {n}])
              /\ UNCHANGED inFlight

Submit(buy, qty, strategy) ==
    LET d == Decide(router, buy, qty, strategy)
        used == {router.venues[d.legs[k][1]].name : k \in DOMAIN d.legs}
    IN  /\ Call(RouteOrder(router, buy, qty, strategy),
                [past EXCEPT !.calls = @ + 1, !.asked = @ + (IF d.valid THEN qty ELSE 0),
                             !.paid = @ + d.paid, !.fees = @ + d.fee])
        /\ inFlight' = [n \in Names |-> IF n \in used THEN inFlight[n] + 1 ELSE inFlight[n]]

\* an answer to an order sent earlier, wherever the venue stands now
Answered(n) == inFlight[n] > 0 /\ inFlight' = [inFlight EXCEPT ![n] = @ - 1]
Refused(n) == Answered(n) /\ Call(RecordReject(router, n), [past EXCEPT !.streak[n] = IF Held(n) THEN @ + 1 ELSE @])
Filled(n) == Answered(n) /\ Call(RecordSuccess(router, n), Calm(n))
Timed(n, t) == Answered(n) /\ Call(RecordLatency(router, n, t), Calm(n))

NewSession == /\ past.calls > 0 /\ UNCHANGED inFlight
              /\ Call(ResetSessionStats(router), [past EXCEPT !.asked = 0, !.paid = 0, !.fees = 0, !.calls = 0,
                                                              !.withdrawn = 0])

Strategies == {"BEST_PRICE", "LOWEST_LATENCY", "SPLIT"}
RouterNext ==
    \/ \E c \in Catalogue : List(c)
    \/ \E n \in Names : \/ Withdraw(n) \/ Enable(n) \/ Disable(n) \/ Refused(n) \/ Filled(n)
                        \/ \E q \in Quotes : Requote(n, q)
                        \/ \E fee \in Fees : Reprice(n, fee)
                        \/ \E t \in {1, 6} : Timed(n, t)
    \/ \E buy \in BOOLEAN, qty \in 1..MaxQty, strategy \in Strategies : Submit(buy, qty, strategy)
    \/ NewSession

RouterSpec == RouterInit /\ [][RouterNext]_routerVars

------------------------------------------------------------------------------
\* every way to place qty over the venues with liquidity, as shares by place
Placements(r, buy, qty) ==
    {f \in [Liquid(r, buy) -> 0..qty] : /\ \A i \in Liquid(r, buy) : f[i] <= Size(Venue(r, i), buy)
                                        /\ MapThenSumSet(LAMBDA i : f[i], Liquid(r, buy)) = qty}
Cost(r, buy, f) == MapThenSumSet(LAMBDA i : f[i] * EffectivePrice(Venue(r, i), buy), DOMAIN f)

\* Whatever is quoted, a split order is placed at the best total price, fees
\* included, of all the ways to place that many shares, it takes all there is, and
\* a single route has the best price or the shortest latency; no leg is larger than
\* its venue shows (route_order, split_order).
RoutesBest ==
    \A buy \in BOOLEAN, qty \in 1..MaxQty + 1, strategy \in Strategies :
      LET d == Decide(router, buy, qty, strategy)
          there == Liquid(router, buy)
          spent == IF buy THEN d.paid + d.fee ELSE d.paid - d.fee
          first == Venue(router, d.legs[1][1])
      IN  /\ d.valid <=> there # {}
          /\ d.valid =>
               /\ \A k \in DOMAIN d.legs : d.legs[k][1] \in there /\ d.legs[k][2] \in 1..Size(Venue(router, d.legs[k][1]), buy)
               /\ IF strategy = "SPLIT" /\ qty >= Threshold
                  THEN /\ d.qty = Min({qty, AvailableLiquidity(router, buy)})
                       /\ \A f \in Placements(router, buy, d.qty) : ~Cheaper(buy, Cost(router, buy, f), spent)
                  ELSE /\ d.qty + d.unfilled = qty /\ d.qty = Min({qty, Size(first, buy)})
                       /\ strategy # "LOWEST_LATENCY" => EffectivePrice(first, buy) = BestEffectivePrice(router, buy)
                       /\ strategy = "LOWEST_LATENCY" =>
                            \A i \in there : SelectionLatency(first) <= SelectionLatency(Venue(router, i))

\* The session's figures account for every share asked for: routed to a venue still
\* listed, routed to one withdrawn since, or unfilled; the money is that of the
\* decisions, and every call was routed or refused (route_order, reset_session_stats,
\* remove_venue and the figures derived from them).
RoutesAccounted ==
    LET r == router
        routed == TotalRoutedShares(r)
        gone == past.withdrawn
    IN  /\ routed + gone + r.unfilled = past.asked
        /\ r.notional = past.paid /\ r.fees = past.fees
        /\ r.routes + r.rejected = past.calls
        /\ RouterRejectRate(r)[1] <= RouterRejectRate(r)[2]
        /\ routed > 0 => /\ Listed(r, BusiestVenue(r)) /\ VenueRouteCount(r, MostChosenVenue(r)) > 0
                         /\ Sum(Names, LAMBDA n : VenueSharePct(r, n)[1]) = VenueSharePct(r, BusiestVenue(r))[2]
                         /\ RoutingConcentration(r)[1] <= RoutingConcentration(r)[2]
                         /\ RoutingConcentration(r)[1] * Len(r.venues) >= RoutingConcentration(r)[2]
        /\ gone = 0 /\ past.asked > 0 => RouteShortfallRate(r) = <<r.unfilled, past.asked>>
        /\ gone = 0 /\ routed > 0 => FeeOverNotional(r)[1] * AvgRoutedPrice(r)[1] = AvgFeePerShare(r)[1] * r.notional

\* A venue is in play exactly when its rejects since the last good answer are below
\* the threshold and nobody has disabled it since; being out of play it is in none of
\* the consolidated views and no order goes to it (record_reject, record_success,
\* record_latency, set_venue_active).  A good answer to an order sent before it was
\* disabled puts a venue back in play.
BreakerExact ==
    \A n \in Names : Held(n) =>
      LET v == VenueAt(router, n)
      IN  /\ v.failures = past.streak[n]
          /\ v.active => past.streak[n] < MaxFailures
          /\ ~v.active => past.streak[n] >= MaxFailures \/ n \in past.halted
          /\ ~v.active => VenueEffectivePrice(router, n, TRUE) = 0 /\ VenueLiquidityShare(router, n, TRUE)[1] = 0

\* The consolidated views agree with each other: depth at the touch, liquidity within
\* a limit, sweeps and the number of venues they go through, the fresh subset and
\* the whole, the mid and the spread, prices with and without fees.
ViewsAgree ==
    LET r == router
        big == AvailableLiquidity(r, TRUE) + AvailableLiquidity(r, FALSE)
    IN  /\ Whole(r) => /\ NbboCrossed(r) <=> NbboSpread(r) < 0
                       /\ NbboLocked(r) <=> NbboSpread(r) = 0
                       /\ ~NbboCrossed(r) => /\ InternallyCrossedCount(r) = 0
                                             /\ ~Below(NbboMicroprice(r), <<NationalBestBid(r), 1>>)
                                             /\ ~Below(<<NationalBestAsk(r), 1>>, NbboMicroprice(r))
                       /\ VenueAt(r, NbboBidVenue(r)).bid = NationalBestBid(r)
                       /\ VenueAt(r, NbboAskVenue(r)).ask = NationalBestAsk(r)
        /\ \A buy \in BOOLEAN :
             LET all == AvailableLiquidity(r, buy)
                 sweep == SweepToFill(r, buy, big)
             IN  /\ NbboDepth(r, buy) <= all /\ NbboDepth(r, buy) > 0 => VenuesAtNbbo(r, ~buy) > 0
                 /\ sweep.filled = all /\ sweep.paid = AvailableLiquidityNotional(r, buy)
                 /\ NbboDepth(r, buy) = all /\ all > 0 => sweep.paid = NbboDepthNotional(r, buy)
                 /\ VenuesToFill(r, buy, all) = LiquidityVenueCount(r, buy)
                 /\ FreshAvailableLiquidity(r, buy, 1, now) = SweepToFillFresh(r, buy, big, 1, now).filled
                 /\ StalestQuoteAge(r, now) <= 1 => FreshVenueCount(r, 1, now) = Cardinality(Quoted(r))
                 /\ \A limit \in 0..6 :
                      /\ LiquidityAtLimit(r, buy, limit) = SweepToFillAtLimit(r, buy, big, limit).filled
                      /\ BestEffectivePrice(r, buy) > 0 =>
                           (RouterMarketable(r, buy, limit) <=> LiquidityAtLimit(r, buy, limit) > 0)
                 /\ all > 0 => /\ EffectivePriceDispersion(r, buy) = 0 <=>
                                    VenueEffectivePrice(r, CheapestVenue(r, buy), buy)
                                      = VenueEffectivePrice(r, MostExpensiveVenue(r, buy), buy)
                               /\ ~Below(LiquidityConcentration(r, buy), VenueLiquidityShare(r, "none", buy))
                               /\ ~Below(VenueLiquidityShare(r, DeepestVenue(r, buy), buy), LiquidityConcentration(r, buy))
==============================================================================
