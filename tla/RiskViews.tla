------------------------------ MODULE RiskViews ------------------------------
(***************************************************************************)
(* risk/risk_manager.hpp: what a strategy and a dashboard read of the risk *)
(* manager, and the statistics that update_pnl, check_order and the kill   *)
(* switch keep for them.  A ratio is <<numerator, denominator>> and has no *)
(* value when the denominator is not positive.  Square roots are left out: *)
(* a deviation is given by its square.                                     *)
(***************************************************************************)
EXTENDS RiskManager, FiniteSetsExt

CONSTANTS MaxHistory,     \* bound: P&L updates of a day
          MaxChecks,      \* bound: checks of a process
          MaxKills        \* bound: halts of a day by hand

VARIABLES record,         \* the statistics of the day
          checked,        \* total_checks_, total_rejects_, for the life of the process
          history         \* history: the P&L changes of the day, oldest first

riskVars == <<vars, record, checked, history>>

Reasons == <<"MANUAL", "CIRCUIT_BREAKER", "DRAWDOWN", "CONSECUTIVE_LOSSES">>
Over(S, f(_)) == MapThenSumSet(f, S)
Above0(n) == IF n > 0 THEN n ELSE 0

------------------------------------------------------------------------------
\* Exposure
GetExposure(s) == Abs(Exposed(s))
TotalPendingExposure == Over(Symbol, LAMBDA s : Abs(pending[s]))
NetExposure == Over(Symbol, LAMBDA s : positions[s]) + Over(Symbol, LAMBDA s : pending[s])
\* Mutant of LongExposure: the net is taken for the half of it.
LongExposureNet == exposure + NetExposure
LongExposure == (exposure + NetExposure) \div 2
ShortExposure == (exposure - NetExposure) \div 2
PortfolioSkew == <<NetExposure, exposure>>
LargestSymbolExposure == Max({GetExposure(s) : s \in Symbol} \cup {0})
\* unordered maps: any of the largest
LargestExposureSymbol == {s \in Symbol : GetExposure(s) > 0 /\ GetExposure(s) = LargestSymbolExposure}
ExposureConcentration == <<LargestSymbolExposure, exposure>>
ExposureUtilization == <<exposure, Limits.exposure>>
ExposureHeadroom == Above0(Limits.exposure - exposure)
IsNearPositionLimit(s, warn) == LongCap(s) > 0 /\ GetExposure(s) * 100 >= LongCap(s) * warn
PositionUtilization(s) == <<GetExposure(s), LongCap(s)>>
GetPositionNotional(s) == GetExposure(s) * ref[s]
SymbolNotionalUtilization(s) == <<GetPositionNotional(s), Limits.notional>>

\* What an order would do, before it is sent to check_order
ProjectedExposure(s, side, qty) == Abs(Exposed(s) + Signed(side, qty))
WouldBreachPosition(s, side, qty) ==
    /\ LongCap(s) > 0
    /\ LET projected == Exposed(s) + Signed(side, qty)
       IN  IF projected >= 0 THEN projected > LongCap(s) ELSE -projected > ShortCap(s)
WouldBreachPriceBand(s, price) ==
    Limits.band > 0 /\ ref[s] > 0 /\ Abs(price - ref[s]) * 100 > Limits.band * ref[s]
WouldBreachSymbolNotional(s, side, qty, price) ==
    Limits.notional > 0 /\ ProjectedExposure(s, side, qty) * price > Limits.notional
WouldBreachExposure(s, side, qty) ==
    Limits.exposure > 0 /\ exposure - GetExposure(s) + ProjectedExposure(s, side, qty) > Limits.exposure
\* -1: no limit.  The code evicts what is old, as the next check_order would.
RateLimitHeadroom == IF Limits.rate <= 0 THEN -1 ELSE Above0(Limits.rate - Len(Evicted))
RemainingTurnoverBudget == IF Limits.turnover <= 0 THEN -1 ELSE Above0(Limits.turnover - turnover)
DailyTurnover == <<turnover, Limits.turnover>>

\* Loss and drawdown
CurrentDrawdown == Above0(peak - pnl)
CurrentDrawdownPct == IF peak <= 0 THEN <<0, 1>> ELSE <<(peak - pnl) * 100, peak>>
DrawdownHeadroom == Above0(Limits.drawdown * CurrentDrawdownPct[2] - CurrentDrawdownPct[1])
ConsecutiveLossesRemaining == IF Limits.streak <= 0 THEN -1 ELSE Above0(Limits.streak - losses)
RemainingLossBudget == Above0(Limits.loss + pnl)
LossBudgetUtilization == <<Min({Above0(-pnl), Limits.loss}), Limits.loss>>

------------------------------------------------------------------------------
\* The statistics of the day
NewRecord == [deepest |-> 0, wins |-> 0, streak |-> 0, winning |-> 0, losing |-> 0, won |-> 0, lost |-> 0,
              sum |-> 0, squares |-> 0, cubes |-> 0, fourths |-> 0, updates |-> 0, lossSquares |-> 0,
              gain |-> 0, loss |-> 0, under |-> 0, longest |-> 0, totalUnder |-> 0, painSquares |-> 0,
              winStreak |-> 0, kills |-> [i \in 1..4 |-> 0]]

Underwater(r, p, top) == IF p < top THEN r.under + 1 ELSE 0

\* update_pnl: P&L becomes p and the peak top
Measured(r, change, p, top) ==
    LET under == Underwater(r, p, top)
        lost == Above0(-change)
        won == Above0(change)
        wins == IF change > 0 THEN r.wins + 1 ELSE IF change < 0 THEN 0 ELSE r.wins
    IN  [r EXCEPT !.sum = @ + change, !.squares = @ + change^2, !.cubes = @ + change^3,
                  !.fourths = @ + change^4, !.updates = @ + 1,
                  !.deepest = Max({@, top - p}), !.painSquares = @ + (top - p)^2,
                  !.under = under, !.longest = Max({@, under}),
                  !.totalUnder = @ + (IF p < top THEN 1 ELSE 0),
                  !.wins = wins, !.winStreak = Max({@, wins}), !.streak = Max({@, Streak(change)}),
                  !.losing = @ + (IF change < 0 THEN 1 ELSE 0), !.lost = @ + lost,
                  !.lossSquares = @ + lost^2, !.loss = Max({@, lost}),
                  !.winning = @ + (IF change > 0 THEN 1 ELSE 0), !.won = @ + won,
                  !.gain = Max({@, won})]

\* latch_kill_switch counts a switch that was off.
Latched(r, why) == IF kill THEN r ELSE [r EXCEPT !.kills[CHOOSE i \in 1..4 : Reasons[i] = why] = @ + 1]

KillSwitchActivations(r) == Over(1..4, LAMBDA i : r.kills[i])
\* the first of the most frequent, "NONE" while there are none
MostCommonKillReason(r) ==
    LET most == Max({r.kills[i] : i \in 1..4})
    IN  IF most = 0 THEN "NONE" ELSE Reasons[Min({i \in 1..4 : r.kills[i] = most})]

PnlWinRate(r) == <<r.winning, r.winning + r.losing>>
AvgPnlWin(r) == <<r.won, r.winning>>
AvgPnlLoss(r) == <<r.lost, r.losing>>
\* (won / winning) / (lost / losing)
PnlPayoffRatio(r) == <<r.won * r.losing, r.lost * r.winning>>
\* w - (1 - w) / payoff, over its common denominator
KellyFraction(r) == <<r.won * r.winning - r.lost * r.winning, r.won * (r.winning + r.losing)>>
\* squares / n - (sum / n)^2, times n^2
Variance(r) == r.updates * r.squares - r.sum^2
PnlVariance(r) == IF r.updates < 2 THEN 0 ELSE Above0(Variance(r))
\* The central moments, times n^3 and n^4
PnlThirdMoment(r) == r.cubes * r.updates^2 - 3 * r.sum * r.squares * r.updates + 2 * r.sum^3
PnlFourthMoment(r) ==
    r.fourths * r.updates^3 - 4 * r.sum * r.cubes * r.updates^2 + 6 * r.sum^2 * r.squares * r.updates - 3 * r.sum^4
PnlRecoveryFactor(r) == <<pnl, r.deepest>>
PnlPainSquare(r) == <<r.painSquares, r.updates>>
PnlDownsideSquare(r) == <<r.lossSquares, r.updates>>
PnlGainConcentration(r) == <<r.gain, r.won>>
PnlLossConcentration(r) == <<r.loss, r.lost>>
PnlTailRatio(r) == <<r.gain, r.loss>>
PnlProfitFactor(r) == <<r.won, r.lost>>
PnlExpectancy(r) == <<r.won - r.lost, r.winning + r.losing>>
UnderwaterFraction(r) == <<r.totalUnder, r.updates>>
\* losses of average size that the budget still takes, -1 when it cannot tell
LossBudgetRunway(r) == IF Limits.loss <= 0 \/ r.lost = 0 THEN <<-1, 1>> ELSE <<RemainingLossBudget * r.losing, r.lost>>
CheckRejectRate == <<checked.rejects, checked.checks>>

------------------------------------------------------------------------------
NoChecks == [checks |-> 0, rejects |-> 0]
RiskInit == Init /\ record = NewRecord /\ checked = NoChecks /\ history = <<>>

\* check_order and make_reject
Counted == checked.checks < MaxChecks /\ checked' = [checked EXCEPT !.checks = @ + 1,
                                                            !.rejects = @ + (IF answer' = "REJECT" THEN 1 ELSE 0)]

RiskCheck(s, side, price, qty) ==
    \/ (CheckRejected(s, side, price, qty) \/ CheckRate(s, side, price, qty)) /\ Counted /\ UNCHANGED <<record, history>>
    \/ CheckTrips(s, side, price, qty) /\ Counted /\ record' = Latched(record, reason') /\ UNCHANGED history

RiskUpdatePnL(change) ==
    /\ Len(history) < MaxHistory
    /\ UpdatePnL(change)
    /\ LET r == Measured(record, change, pnl', peak')
       IN  record' = IF reason' = "CONSECUTIVE_LOSSES" /\ change < 0 /\ losses' >= Limits.streak
                     THEN Latched(r, reason') ELSE r
    /\ history' = Append(history, change)
    /\ UNCHANGED checked

RiskActivate == record.kills[1] < MaxKills /\ ActivateKillSwitch /\ record' = Latched(record, "MANUAL") /\ UNCHANGED <<checked, history>>
RiskResetDaily == ResetDaily /\ record' = NewRecord /\ history' = <<>> /\ UNCHANGED checked
RiskRestart == Restart /\ record' = NewRecord /\ history' = <<>> /\ checked' = NoChecks

RiskNext ==
    \/ \E s \in Symbol, side \in Side, price \in Price, qty \in Qty : RiskCheck(s, side, price, qty)
    \/ Refused /\ UNCHANGED <<record, checked, history>>
    \/ \E change \in PnL : RiskUpdatePnL(change)
    \/ RiskActivate
    \/ DeactivateKillSwitch /\ UNCHANGED <<record, checked, history>>
    \/ RiskResetDaily
    \/ RiskRestart

RiskSpec == RiskInit /\ [][RiskNext]_riskVars

------------------------------------------------------------------------------
(***************************************************************************)
(* The questions a strategy asks before it sends an order are the tests    *)
(* that check_order will make: would_breach_position, _exposure,           *)
(* _price_band and _symbol_notional together with the limits of the single *)
(* order say exactly which orders pass, headroom that is reported is       *)
(* headroom that is granted, and the long and the short side add up to the *)
(* exposure although they are derived from the running total.              *)
(***************************************************************************)
PrechecksAgree ==
    /\ \A s \in Symbol, side \in Side, qty \in Qty :
          /\ PositionOK(s, side, qty) <=> ~WouldBreachPosition(s, side, qty)
          /\ ExposureOK(s, side, qty) <=> ~WouldBreachExposure(s, side, qty)
          /\ qty <= ExposureHeadroom => ExposureOK(s, side, qty)
          /\ \A price \in Price :
                /\ NotionalOK(s, side, price, qty) <=> ~WouldBreachSymbolNotional(s, side, qty, price)
                /\ WouldBreachPriceBand(s, price) => ~OrderOK(s, price, qty)
                /\ RemainingTurnoverBudget = 0 => ~OrderOK(s, price, qty)
    /\ LongExposure = Over({s \in Symbol : Exposed(s) > 0}, GetExposure)
    /\ ShortExposure = Over({s \in Symbol : Exposed(s) < 0}, GetExposure)
    /\ PortfolioSkew[1] \in -exposure..exposure
    /\ exposure = 0 <=> LargestExposureSymbol = {}
    /\ ExposureConcentration[1] <= exposure /\ exposure <= NSymbols * LargestSymbolExposure
    /\ \A s \in Symbol : /\ IsNearPositionLimit(s, 100) <=> PositionUtilization(s)[1] >= LongCap(s)
                         /\ GetPositionNotional(s) <= LargestSymbolExposure * Max(RefPrice \cup {0})

(***************************************************************************)
(* The P&L statistics of the day, kept by increments in update_pnl, are    *)
(* those of the changes of the day: the sums and extremes, the streaks,    *)
(* the deepest drawdown and the longest time under water; the central      *)
(* moments computed from power sums are those of the definition.  A day    *)
(* that starts from a P&L restored from the file starts from that level.   *)
(***************************************************************************)
RecordExact ==
    LET n == Len(history)
        base == pnl - record.sum
        level[k \in 0..n] == IF k = 0 THEN base ELSE level[k - 1] + history[k]
        top[k \in 0..n] == IF k = 0 THEN 0 ELSE Max({top[k - 1], level[k]})
        under(k) == level[k] < top[k]
        decided == SelectSeq(history, LAMBDA c : c # 0)
        run(k, Test(_)) == Max({m \in 0..k : \A j \in (k - m + 1)..k : Test(j)})
        longest(m, Test(_)) == Max({run(k, Test) : k \in 0..m})
        inSum(e) == Over(1..n, LAMBDA k : (n * history[k] - record.sum)^e)
    IN  /\ record.updates = n /\ record.sum = level[n] - base
        /\ record.won - record.lost = record.sum
        /\ Variance(record) * n = inSum(2)
        /\ n < 4 => PnlThirdMoment(record) * n = inSum(3) /\ PnlFourthMoment(record) * n = inSum(4)
        /\ PnlVariance(record) >= 0
        /\ record.deepest = Max({0} \cup {top[k] - level[k] : k \in 1..n})
        /\ record.under = run(n, under) /\ record.longest = longest(n, under)
        /\ record.totalUnder = Cardinality({k \in 1..n : under(k)})
        /\ record.gain = Max({0} \cup {history[k] : k \in 1..n})
        /\ record.loss = Max({0} \cup {-history[k] : k \in 1..n})
        /\ record.streak = longest(Len(decided), LAMBDA k : decided[k] < 0)
        /\ record.winStreak = longest(Len(decided), LAMBDA k : decided[k] > 0)
        /\ PnlPainSquare(record)[1] <= n * record.deepest^2
        /\ PnlDownsideSquare(record)[1] <= record.squares
        /\ UnderwaterFraction(record)[1] <= n
        /\ PnlWinRate(record)[2] <= n
        /\ PnlExpectancy(record) = <<pnl - base, Len(decided)>>
        /\ LET k == KellyFraction(record)
               p == PnlPayoffRatio(record)
           IN  p[1] > 0 /\ p[2] > 0 => (k[1] > 0 <=> record.won > record.lost)
        /\ AvgPnlWin(record)[1] <= record.winning * record.gain
        /\ AvgPnlLoss(record)[1] <= record.losing * record.loss
        /\ PnlGainConcentration(record)[1] <= record.won /\ PnlLossConcentration(record)[1] <= record.lost
        /\ KillSwitchActivations(record) = 0 <=> MostCommonKillReason(record) = "NONE"
        /\ reason # "NONE" /\ crashes = 0 => KillSwitchActivations(record) > 0
        /\ n > 0 => CurrentDrawdown <= record.deepest
        /\ CheckRejectRate[1] <= CheckRejectRate[2]
==============================================================================
