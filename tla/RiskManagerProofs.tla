-------------------------- MODULE RiskManagerProofs --------------------------
(***************************************************************************)
(* The exposure total and the halt of the risk manager, for any number of  *)
(* symbols, any limits and any history of calls and restarts.              *)
(***************************************************************************)
EXTENDS RiskManager, Lemmas, FiniteSetTheorems, TLAPS

\* The types the ledger rests on.
BookOK == /\ positions \in [Symbol -> Int] /\ pending \in [Symbol -> Int] /\ exposure \in Int
          /\ open \in [Symbol -> [Side -> Int]]
          /\ order # NoOrder => /\ order.symbol \in Symbol /\ order.side \in Side
                                /\ order.qty \in Int

LedgerInv == BookOK /\ ExposureExact /\ PendingIsOpen

\* What the proofs use of the constants.
LEMMA Settings == /\ RingSize \in Nat \ {0} /\ Second \in Nat
                  /\ Limits.rate \in Nat /\ Limits.exposure \in Int
                  /\ \A q \in Qty : q \in Nat /\ q > 0
BY RiskAssumption

\* What they use of the type invariant where only the rate ring matters.
LEMMA RateTyped == TypeOK => now \in Nat /\ ring \in Seq(Nat) /\ Len(ring) \in Nat
BY DEF TypeOK

LEMMA AbsInt == \A n \in Int : Abs(n) \in Int
BY DEF Abs

LEMMA SignedInt == \A side \in Side, q \in Int : Signed(side, q) \in Int /\ -Signed(side, q) \in Int
BY DEF Signed

\* The ledgers depend on the book and the open orders only.
LEMMA LedgerUnchanged ==
    ASSUME LedgerInv, UNCHANGED <<book, open>>, order' = order \/ order' = NoOrder
    PROVE  LedgerInv'
BY DEF LedgerInv, BookOK, ExposureExact, PendingIsOpen, Exposed, book

\* adjust_pending moves the total by what it moves the symbol.
LEMMA AdjustExact ==
    ASSUME LedgerInv, NEW s \in Symbol, NEW d \in Int, AdjustPending(s, d)
    PROVE  /\ positions' \in [Symbol -> Int] /\ pending' \in [Symbol -> Int] /\ exposure' \in Int
           /\ ExposureExact'
<1>1. /\ positions \in [Symbol -> Int] /\ pending \in [Symbol -> Int] /\ exposure \in Int
      /\ NSymbols \in Nat
  BY RiskAssumption DEF LedgerInv, BookOK
<1>2. /\ pending' = [pending EXCEPT ![s] = @ + d] /\ positions' = positions
      /\ exposure' = exposure + Abs(Exposed(s) + d) - Abs(Exposed(s))
  BY DEF AdjustPending
<1>3. Exposed(s) \in Int /\ Exposed(s) + d \in Int
  BY <1>1 DEF Exposed
<1>4. Abs(Exposed(s)) \in Int /\ Abs(Exposed(s) + d) \in Int
  BY <1>3, AbsInt
<1>5. pending' \in [Symbol -> Int] /\ exposure' \in Int
  <2>1. pending' \in [Symbol -> Int]
    BY <1>1, <1>2
  <2> QED BY <1>1, <1>2, <1>4, <2>1
<1> DEFINE t == [r \in Symbol |-> Abs(Exposed(r))]
           u == [r \in Symbol |-> Abs(positions'[r] + pending'[r])]
<1>6. t \in [Symbol -> Int] /\ u \in [Symbol -> Int]
  BY <1>1, <1>2, <1>5, AbsInt DEF Exposed
<1>7. /\ t[s] = Abs(Exposed(s)) /\ u[s] = Abs(Exposed(s) + d)
      /\ \A r \in Symbol : r # s => u[r] = t[r]
  <2>1. positions[s] + (pending[s] + d) = Exposed(s) + d
    BY <1>1 DEF Exposed
  <2> QED BY <1>1, <1>2, <2>1 DEF Exposed
<1>8. exposure = Total(t, NSymbols)
  BY DEF LedgerInv, ExposureExact
<1>9. ExposureExact' <=> exposure' = Total(u, NSymbols)
  BY DEF ExposureExact, Exposed
<1> HIDE DEF t, u
<1>10. Total(u, NSymbols) = Total(t, NSymbols) - t[s] + u[s]
  BY ONLY <1>1, <1>6, <1>7, TotalUpdate, s \in Symbol DEF Symbol
<1>11. exposure' = Total(u, NSymbols)
  BY <1>1, <1>2, <1>4, <1>7, <1>8, <1>10
<1> QED BY <1>1, <1>2, <1>5, <1>9, <1>11

LEMMA SentStep == ASSUME LedgerInv, OnOrderSent PROVE LedgerInv'
<1>1. /\ order.symbol \in Symbol /\ order.side \in Side /\ order.qty \in Int
      /\ pending \in [Symbol -> Int] /\ open \in [Symbol -> [Side -> Int]]
  BY DEF LedgerInv, BookOK, OnOrderSent, Idle
<1> DEFINE s == order.symbol
           d == Signed(order.side, order.qty)
<1>2. d \in Int
  BY <1>1, SignedInt
<1>3. AdjustPending(s, d) /\ open' = [open EXCEPT ![s][order.side] = @ + order.qty] /\ order' = NoOrder
  BY DEF OnOrderSent
<1>4. /\ positions' \in [Symbol -> Int] /\ pending' \in [Symbol -> Int] /\ exposure' \in Int
      /\ ExposureExact'
  BY <1>1, <1>2, <1>3, AdjustExact
<1>5. open' \in [Symbol -> [Side -> Int]]
  BY <1>1, <1>3
<1>6. PendingIsOpen'
  <2> DEFINE side == order.side
             q == order.qty
  <2>1. /\ pending' = [pending EXCEPT ![s] = @ + Signed(side, q)] /\ open' = [open EXCEPT ![s][side] = @ + q]
        /\ s \in Symbol /\ side \in Side /\ q \in Int
        /\ \A r \in Symbol : pending[r] = open[r]["BUY"] - open[r]["SELL"]
    BY <1>1, <1>3 DEF LedgerInv, PendingIsOpen, AdjustPending
  <2> HIDE DEF s, side, q
  <2> QED BY ONLY <1>1, <2>1 DEF PendingIsOpen, Signed, Side
<1> QED BY <1>3, <1>4, <1>5, <1>6 DEF LedgerInv, BookOK

LEMMA CancelledStep ==
    ASSUME LedgerInv, NEW s \in Symbol, NEW side \in Side, NEW q \in Qty, OnOrderCancelled(s, side, q)
    PROVE  LedgerInv'
<1>1. pending \in [Symbol -> Int] /\ open \in [Symbol -> [Side -> Int]] /\ q \in Int
  BY RiskAssumption DEF LedgerInv, BookOK
<1> DEFINE d == -Signed(side, q)
<1>2. d \in Int
  BY <1>1, SignedInt
<1>3. AdjustPending(s, d) /\ open' = [open EXCEPT ![s][side] = @ - q] /\ order' = order
  BY DEF OnOrderCancelled, call
<1>4. /\ positions' \in [Symbol -> Int] /\ pending' \in [Symbol -> Int] /\ exposure' \in Int
      /\ ExposureExact'
  BY <1>2, <1>3, AdjustExact
<1>5. open' \in [Symbol -> [Side -> Int]]
  BY <1>1, <1>3
<1>6. PendingIsOpen'
  BY <1>1, <1>3 DEF LedgerInv, PendingIsOpen, AdjustPending, Signed, Side
<1> QED BY <1>3, <1>4, <1>5, <1>6 DEF LedgerInv, BookOK

\* A fill leaves what the symbol contributes.
LEMMA PositionStep ==
    ASSUME LedgerInv, NEW s \in Symbol, NEW side \in Side, NEW q \in Qty, UpdatePosition(s, side, q)
    PROVE  LedgerInv'
<1>1. /\ positions \in [Symbol -> Int] /\ pending \in [Symbol -> Int] /\ open \in [Symbol -> [Side -> Int]]
      /\ q \in Int
  BY RiskAssumption DEF LedgerInv, BookOK
<1> DEFINE d == Signed(side, q)
<1>2. d \in Int
  BY <1>1, SignedInt
<1>3. /\ positions' = [positions EXCEPT ![s] = @ + d] /\ pending' = [pending EXCEPT ![s] = @ - d]
      /\ open' = [open EXCEPT ![s][side] = @ - q] /\ order' = order /\ exposure' = exposure
  BY DEF UpdatePosition, call
<1>4. open' \in [Symbol -> [Side -> Int]]
  BY <1>1, <1>3
<1>5. PendingIsOpen'
  BY <1>1, <1>3 DEF LedgerInv, PendingIsOpen, Signed, Side
<1> HIDE DEF d
<1>6. positions' \in [Symbol -> Int] /\ pending' \in [Symbol -> Int]
  BY <1>1, <1>2, <1>3
<1>7. \A r \in Symbol : positions'[r] + pending'[r] = positions[r] + pending[r]
  BY <1>1, <1>2, <1>3
<1>8. [r \in Symbol |-> Abs(positions'[r] + pending'[r])] = [r \in Symbol |-> Abs(positions[r] + pending[r])]
  BY <1>7
<1>9. ExposureExact'
  BY <1>3, <1>8 DEF LedgerInv, ExposureExact, Exposed
<1> QED BY <1>3, <1>4, <1>5, <1>6, <1>9 DEF LedgerInv, BookOK

LEMMA ResetStep == ASSUME LedgerInv, ResetDaily PROVE LedgerInv'
<1>1. /\ positions \in [Symbol -> Int] /\ NSymbols \in Nat
  BY RiskAssumption DEF LedgerInv, BookOK
<1>2. /\ positions' = positions /\ pending' = Zero /\ open' = NoneOpen /\ order' = order
      /\ exposure' = PositionExposure
  BY DEF ResetDaily, call
<1>3. pending' \in [Symbol -> Int] /\ open' \in [Symbol -> [Side -> Int]]
  BY <1>2 DEF Zero, NoneOpen
<1>4. PendingIsOpen'
  BY <1>2 DEF PendingIsOpen, Zero, NoneOpen, Side
<1> DEFINE t == [s \in Symbol |-> Abs(positions[s])]
<1>5. [s \in Symbol |-> Abs(positions'[s] + pending'[s])] = t
  BY <1>1, <1>2 DEF Zero
<1>6. ExposureExact'
  BY <1>2, <1>5 DEF ExposureExact, Exposed, PositionExposure
<1>7. t \in [1..NSymbols -> Int]
  BY <1>1, AbsInt DEF Symbol
<1>8. exposure' \in Int
  BY <1>1, <1>2, <1>7, TotalType DEF PositionExposure
<1> QED BY <1>1, <1>2, <1>3, <1>4, <1>6, <1>8 DEF LedgerInv, BookOK

\* Nothing is held and nothing is owed at the start, and after a restart.
LEMMA FlatBook ==
    ASSUME positions = Zero, pending = Zero, exposure = 0, open = NoneOpen, order = NoOrder
    PROVE  LedgerInv
<1>1. NSymbols \in Nat
  BY RiskAssumption
<1>2. BookOK
  BY DEF BookOK, Zero, NoneOpen
<1>3. PendingIsOpen
  BY DEF PendingIsOpen, Zero, NoneOpen, Side
<1> DEFINE z == [s \in Symbol |-> 0]
<1>4. [s \in Symbol |-> Abs(Exposed(s))] = z
  BY DEF Exposed, Zero, Abs
<1>5. z \in [1..NSymbols -> Int] /\ \A s \in 1..NSymbols : z[s] = z[s] - z[s]
  BY DEF Symbol
<1> HIDE DEF z
<1>6. Total(z, NSymbols) = Total(z, NSymbols) - Total(z, NSymbols) /\ Total(z, NSymbols) \in Int
  BY <1>1, <1>5, TotalMinus, TotalType
<1>7. ExposureExact
  BY <1>4, <1>6 DEF ExposureExact
<1> QED BY <1>2, <1>3, <1>7 DEF LedgerInv

Flat == positions = Zero /\ pending = Zero /\ exposure = 0 /\ open = NoneOpen /\ order = NoOrder

LEMMA FlatNext == Flat' => LedgerInv'
<1>1. Flat => LedgerInv
  BY FlatBook DEF Flat
<1> QED BY <1>1, PTL

LEMMA LedgerStep == LedgerInv /\ [Next]_vars => LedgerInv'
<1> SUFFICES ASSUME LedgerInv, [Next]_vars PROVE LedgerInv'
  OBVIOUS
<1>1. ASSUME NEW s \in Symbol, NEW side \in Side, NEW q \in Qty, NEW price \in Price,
             CheckRejected(s, side, price, q) \/ CheckTrips(s, side, price, q)
      PROVE  LedgerInv'
  BY <1>1, LedgerUnchanged DEF CheckRejected, CheckTrips, Reject
<1>2. ASSUME NEW s \in Symbol, NEW side \in Side, NEW q \in Qty, NEW price \in Price,
             CheckRate(s, side, price, q)
      PROVE  LedgerInv'
  <2>1. UNCHANGED <<book, open>>
    BY <1>2 DEF CheckRate
  <2>2. order' = NoOrder \/ order' = [symbol |-> s, side |-> side, qty |-> q]
    BY <1>2 DEF CheckRate, Reject
  <2>3. CASE order' = NoOrder
    BY <2>1, <2>3, LedgerUnchanged
  <2>4. CASE order' = [symbol |-> s, side |-> side, qty |-> q]
    <3>1. order'.symbol \in Symbol /\ order'.side \in Side /\ order'.qty \in Int
      BY <2>4, RiskAssumption
    <3> QED BY <2>1, <3>1 DEF LedgerInv, BookOK, ExposureExact, PendingIsOpen, Exposed, book
  <2> QED BY <2>2, <2>3, <2>4
<1>3. CASE Refused
  BY <1>3, LedgerUnchanged DEF Refused
<1>4. ASSUME NEW change \in PnL, UpdatePnL(change) PROVE LedgerInv'
  BY <1>4, LedgerUnchanged DEF UpdatePnL, call
<1>5. ASSUME NEW notional \in Price, AddTradedNotional(notional) PROVE LedgerInv'
  BY <1>5, LedgerUnchanged DEF AddTradedNotional, call
<1>6. ASSUME NEW s \in Banned, RestrictSymbol(s) \/ AllowSymbol(s) PROVE LedgerInv'
  BY <1>6, LedgerUnchanged DEF RestrictSymbol, AllowSymbol, call
<1>7. ASSUME NEW s \in Symbol, NEW limit \in Caps, SetSymbolPositionLimit(s, limit) PROVE LedgerInv'
  BY <1>7, LedgerUnchanged DEF SetSymbolPositionLimit, call
<1>8. ASSUME NEW s \in Symbol, NEW price \in RefPrice, UpdateReferencePrice(s, price) PROVE LedgerInv'
  BY <1>8, LedgerUnchanged DEF UpdateReferencePrice, call
<1>9. CASE ActivateKillSwitch \/ DeactivateKillSwitch \/ ClearRestricted \/ Tick
  BY <1>9, LedgerUnchanged DEF ActivateKillSwitch, DeactivateKillSwitch, ClearRestricted, Tick, call
<1>10. CASE Restart
  BY <1>10, FlatNext DEF Flat, Restart, Zero, NoneOpen
<1>11. CASE UNCHANGED vars
  BY <1>11, LedgerUnchanged DEF vars, call
<1> QED BY <1>1, <1>2, <1>3, <1>4, <1>5, <1>6, <1>7, <1>8, <1>9, <1>10, <1>11,
           SentStep, CancelledStep, PositionStep, ResetStep DEF Next

THEOREM LedgerInvariance == Spec => []LedgerInv
<1>1. Init => LedgerInv
  BY FlatBook DEF Init
<1> QED BY <1>1, LedgerStep, PTL DEF Spec

(***************************************************************************)
(* total_abs_exposure_ is the sum of |position + pending|, for any number  *)
(* of symbols.                                                             *)
(***************************************************************************)
THEOREM ExposureStaysExact == Spec => []ExposureExact
<1>1. LedgerInv => ExposureExact
  BY DEF LedgerInv
<1> QED BY <1>1, LedgerInvariance, PTL

\* pending_ is what the exchange still works, however fills and cancels arrive.
THEOREM PendingStaysExact == Spec => []PendingIsOpen
<1>1. LedgerInv => PendingIsOpen
  BY DEF LedgerInv
<1> QED BY <1>1, LedgerInvariance, PTL

------------------------------------------------------------------------------
File == [active : BOOLEAN, pnl : Int]

\* A halt in force is on file.
HaltInv == /\ pnl \in Int
           /\ file \in {NoFile} \cup File
           /\ tripped => kill /\ file # NoFile /\ file.active

LEMMA LatchStep ==
    ASSUME NEW why, NEW p \in Int, Latch(why, p)
    PROVE  file' \in File /\ kill' /\ file' # NoFile /\ file'.active
<1>1. Saved(TRUE, p) \in File /\ Saved(TRUE, p).active
  BY DEF Saved, File
<1>2. NoFile \notin File
  BY RiskAssumption DEF File
<1> QED BY <1>1, <1>2 DEF Latch

LEMMA HaltStep == HaltInv /\ [Next]_vars => HaltInv'
<1> SUFFICES ASSUME HaltInv, [Next]_vars PROVE HaltInv'
  OBVIOUS
<1>1. ASSUME UNCHANGED <<money, halt>> PROVE HaltInv'
  BY <1>1 DEF HaltInv, money, halt
<1>2. ASSUME NEW why, Latch(why, pnl), UNCHANGED money PROVE HaltInv'
  BY <1>2, LatchStep DEF HaltInv, money
<1>3. ASSUME NEW s \in Symbol, NEW side \in Side, NEW q \in Qty, NEW price \in Price,
             CheckRejected(s, side, price, q) \/ CheckRate(s, side, price, q)
      PROVE  HaltInv'
  BY <1>1, <1>3 DEF CheckRejected, CheckRate
<1>4. ASSUME NEW s \in Symbol, NEW side \in Side, NEW q \in Qty, NEW price \in Price,
              CheckTrips(s, side, price, q)
       PROVE  HaltInv'
  BY <1>2, <1>4 DEF CheckTrips
<1>5. ASSUME NEW s \in Symbol, NEW side \in Side, NEW q \in Qty,
              OnOrderCancelled(s, side, q) \/ UpdatePosition(s, side, q)
       PROVE  HaltInv'
  BY <1>1, <1>5 DEF OnOrderCancelled, UpdatePosition
<1>6. CASE OnOrderSent \/ Refused
  BY <1>1, <1>6 DEF OnOrderSent, Refused
<1>7. ASSUME NEW change \in PnL, UpdatePnL(change) PROVE HaltInv'
  <2>1. pnl' \in Int
    BY <1>7, RiskAssumption DEF UpdatePnL, HaltInv
  <2>2. Latch("CONSECUTIVE_LOSSES", pnl') \/ UNCHANGED halt
    BY <1>7 DEF UpdatePnL
  <2>3. CASE Latch("CONSECUTIVE_LOSSES", pnl')
    BY <2>1, <2>3, LatchStep DEF HaltInv
  <2>4. CASE UNCHANGED halt
    BY <2>1, <2>4 DEF HaltInv, halt
  <2> QED BY <2>2, <2>3, <2>4
<1>8. ASSUME NEW notional \in Price, AddTradedNotional(notional) PROVE HaltInv'
  BY <1>8 DEF AddTradedNotional, HaltInv, halt
<1>9. ASSUME NEW s \in Banned, RestrictSymbol(s) \/ AllowSymbol(s) PROVE HaltInv'
  BY <1>1, <1>9 DEF RestrictSymbol, AllowSymbol
<1>10. ASSUME NEW s \in Symbol, NEW limit \in Caps, SetSymbolPositionLimit(s, limit) PROVE HaltInv'
  BY <1>1, <1>10 DEF SetSymbolPositionLimit
<1>11. ASSUME NEW s \in Symbol, NEW price \in RefPrice, UpdateReferencePrice(s, price) PROVE HaltInv'
  BY <1>1, <1>11 DEF UpdateReferencePrice
<1>12. CASE ActivateKillSwitch
  BY <1>2, <1>12 DEF ActivateKillSwitch
<1>13. CASE DeactivateKillSwitch
  <2>1. Saved(FALSE, pnl) \in File
    BY DEF HaltInv, Saved, File
  <2> QED BY <1>13, <2>1 DEF DeactivateKillSwitch, HaltInv, money
<1>14. CASE ClearRestricted \/ Tick
  BY <1>1, <1>14 DEF ClearRestricted, Tick
<1>15. CASE ResetDaily
  BY <1>15 DEF ResetDaily, HaltInv
<1>16. CASE Restart
  <2>1. pnl' \in Int
    BY <1>16 DEF Restart, HaltInv, File
  <2>2. file' = file /\ tripped' = tripped /\ kill' = (file # NoFile /\ file.active)
    BY <1>16 DEF Restart
  <2> QED BY <2>1, <2>2 DEF HaltInv
<1>17. CASE UNCHANGED vars
  BY <1>1, <1>17 DEF vars
<1> QED BY <1>3, <1>4, <1>5, <1>6, <1>7, <1>8, <1>9, <1>10,
           <1>11, <1>12, <1>13, <1>14, <1>15, <1>16, <1>17 DEF Next

(***************************************************************************)
(* A declared halt outlives every restart until it is lifted.              *)
(***************************************************************************)
THEOREM HaltStays == Spec => []HaltHolds
<1>1. Init => HaltInv
  BY DEF Init, HaltInv
<1>2. HaltInv => HaltHolds
  BY DEF HaltInv, HaltHolds
<1> QED BY <1>1, <1>2, HaltStep, PTL DEF Spec

------------------------------------------------------------------------------
(***************************************************************************)
(* evict() drops a prefix of the ring, all of it a second old.             *)
(***************************************************************************)
LEMMA EvictedIs ==
    ASSUME ring \in Seq(Nat)
    PROVE  \E n \in 0..Len(ring) :
              /\ Evicted = SubSeq(ring, n + 1, Len(ring))
              /\ \A j \in 1..n : ring[j] <= now - Second
<1> DEFINE old == {k \in DOMAIN ring : \A j \in 1..k : ring[j] <= now - Second}
           n == IF old = {} THEN 0 ELSE CHOOSE k \in old : \A j \in old : j <= k
<1>1. Len(ring) \in Nat /\ DOMAIN ring = 1..Len(ring)
  OBVIOUS
<1>2. Evicted = SubSeq(ring, n + 1, Len(ring))
  BY DEF Evicted
<1>3. n \in 0..Len(ring) /\ \A j \in 1..n : ring[j] <= now - Second
  <2>1. CASE old = {}
    <3>1. n = 0
      BY <2>1
    <3> HIDE DEF n, old
    <3> QED BY ONLY <1>1, <3>1
  <2>2. CASE old # {}
    <3> DEFINE T == {m \in Nat : m <= Len(ring) /\ Len(ring) - m \in old}
    <3>1. T \in SUBSET Nat /\ T # {}
      <4>1. PICK k \in old : TRUE
        BY <2>2
      <4>2. Len(ring) - k \in T
        BY <1>1, <4>1
      <4> QED BY <4>2
    <3>2. PICK x \in T : \A y \in T : x <= y
      <4> HIDE DEF T
      <4> QED BY <3>1, LeastElement
    <3>3. Len(ring) - x \in old /\ \A j \in old : j <= Len(ring) - x
      <4>1. ASSUME NEW j \in old PROVE j <= Len(ring) - x
        <5>1. j \in 1..Len(ring)
          BY <1>1
        <5>2. /\ Len(ring) - j \in Nat /\ Len(ring) - j <= Len(ring)
              /\ Len(ring) - (Len(ring) - j) = j
          BY ONLY <1>1, <5>1
        <5>3. Len(ring) - j \in T /\ x \in Nat
          <6> HIDE DEF old
          <6> QED BY <5>2
        <5>4. x <= Len(ring) - j
          <6> HIDE DEF T
          <6> QED BY ONLY <3>2, <5>3
        <5> QED BY ONLY <1>1, <5>1, <5>3, <5>4
      <4> QED BY <3>2, <4>1
    <3>4. n = CHOOSE k \in old : \A j \in old : j <= k
      BY <2>2
    <3> HIDE DEF n
    <3>5. n \in old
      <4> HIDE DEF old
      <4> QED BY <3>3, <3>4
    <3> QED BY <1>1, <3>5
  <2> QED BY <2>1, <2>2
<1> HIDE DEF n
<1> QED BY <1>2, <1>3

LEMMA EvictedType ==
    ASSUME ring \in Seq(Nat)
    PROVE  Evicted \in Seq(Nat) /\ Len(Evicted) <= Len(ring)
<1>1. PICK n \in 0..Len(ring) : Evicted = SubSeq(ring, n + 1, Len(ring))
  BY EvictedIs
<1>2. n + 1 \in Int /\ Len(ring) \in Int /\ \A k \in (n + 1)..Len(ring) : ring[k] \in Nat
  OBVIOUS
<1>3. /\ SubSeq(ring, n + 1, Len(ring)) \in Seq(Nat)
      /\ Len(SubSeq(ring, n + 1, Len(ring)))
            = IF n + 1 <= Len(ring) THEN Len(ring) - (n + 1) + 1 ELSE 0
  BY <1>2
<1> QED BY <1>1, <1>2, <1>3

------------------------------------------------------------------------------
(***************************************************************************)
(* Type correctness.  The exposure is a natural number because it is the   *)
(* sum it stands for.                                                      *)
(***************************************************************************)
ExposureTyped == exposure \in Nat

LEMMA ExposureNat == LedgerInv => ExposureTyped
<1> SUFFICES ASSUME LedgerInv PROVE exposure \in Nat
  BY DEF ExposureTyped
<1> DEFINE t == [s \in Symbol |-> Abs(Exposed(s))]
<1>1. positions \in [Symbol -> Int] /\ pending \in [Symbol -> Int] /\ NSymbols \in Nat
  BY RiskAssumption DEF LedgerInv, BookOK
<1>2. t \in [1..NSymbols -> Nat]
  BY <1>1 DEF Exposed, Abs, Symbol
<1>3. exposure = Total(t, NSymbols)
  BY DEF LedgerInv, ExposureExact
<1> HIDE DEF t
<1> QED BY <1>1, <1>2, <1>3, TotalNat

LEMMA ExposureNatNext == LedgerInv' => ExposureTyped'
BY ExposureNat, PTL

LEMMA TypeStep == TypeOK /\ LedgerInv' /\ [Next]_vars => TypeOK'
<1> SUFFICES ASSUME TypeOK, LedgerInv', [Next]_vars PROVE TypeOK'
  OBVIOUS
<1>0. exposure' \in Nat /\ positions' \in [Symbol -> Int] /\ pending' \in [Symbol -> Int]
  BY ExposureNatNext DEF ExposureTyped, LedgerInv, BookOK
<1>a. /\ ring \in Seq(Nat) /\ Len(ring) < RingSize /\ Len(ring) \in Nat
      /\ RingSize \in Nat \ {0} /\ now \in Nat
  BY RiskAssumption DEF TypeOK
<1>b. Evicted \in Seq(Nat) /\ Len(Evicted) \in Nat /\ Len(Evicted) < RingSize
  <2>1. Evicted \in Seq(Nat) /\ Len(Evicted) <= Len(ring)
    BY ONLY <1>a, EvictedType
  <2>2. Len(Evicted) \in Nat
    BY ONLY <2>1
  <2> QED BY ONLY <1>a, <2>1, <2>2
<1>c. Pushed(Evicted) \in Seq(Nat) /\ Len(Pushed(Evicted)) < RingSize
  <2> DEFINE t == Append(Evicted, now)
  <2>0. Evicted \in Seq(Nat) /\ now \in Nat
    BY ONLY <1>a, <1>b
  <2>a. t \in Seq(Nat) /\ Len(t) = Len(Evicted) + 1
    BY ONLY <2>0, Appended
  <2>1. t \in Seq(Nat) /\ Len(t) = Len(Evicted) + 1 /\ t # <<>>
    <3> HIDE DEF t
    <3> QED BY ONLY <1>b, <2>a
  <2>2. Pushed(Evicted) = IF Len(t) = RingSize THEN Tail(t) ELSE t
    BY DEF Pushed
  <2> HIDE DEF t
  <2>3. Tail(t) \in Seq(Nat) /\ Len(Tail(t)) = Len(t) - 1
    BY ONLY <2>1
  <2> QED BY ONLY <1>a, <1>b, <2>1, <2>2, <2>3
<1>d. MaxNow \in Nat /\ \A limit \in Caps : limit \in Int
  BY RiskAssumption
<1> USE DEF TypeOK, book, money, halt, setup, rate, call, clock
<1>1. ASSUME NEW s \in Symbol, NEW side \in Side, NEW q \in Qty, NEW price \in Price,
             CheckRejected(s, side, price, q)
      PROVE  TypeOK'
  BY <1>0, <1>1 DEF CheckRejected, Reject
<1>2. ASSUME NEW s \in Symbol, NEW side \in Side, NEW q \in Qty, NEW price \in Price,
             CheckTrips(s, side, price, q)
      PROVE  TypeOK'
  <2>1. Saved(TRUE, pnl) \in [active : BOOLEAN, pnl : Int]
    BY DEF Saved
  <2> QED BY <1>0, <1>2, <2>1 DEF CheckTrips, Reject, Latch
<1>3. ASSUME NEW s \in Symbol, NEW side \in Side, NEW q \in Qty, NEW price \in Price,
             CheckRate(s, side, price, q)
      PROVE  TypeOK'
  <2>3. ring' \in Seq(Nat) /\ Len(ring') < RingSize
    BY <1>b, <1>c, <1>3 DEF CheckRate
  <2>4. /\ answer' \in {"NONE", "ALLOW", "REJECT"}
        /\ order' \in {NoOrder} \cup [symbol : Symbol, side : Side, qty : Qty]
    <3>1. answer' \in {"ALLOW", "REJECT"}
      BY ONLY <1>3 DEF CheckRate, Reject
    <3>2. order' = NoOrder \/ order' = [symbol |-> s, side |-> side, qty |-> q]
      BY ONLY <1>3 DEF CheckRate, Reject
    <3>3. [symbol |-> s, side |-> side, qty |-> q] \in [symbol : Symbol, side : Side, qty : Qty]
      BY ONLY s \in Symbol, side \in Side, q \in Qty
    <3> QED BY ONLY <3>1, <3>2, <3>3
  <2> QED BY <1>0, <1>3, <2>3, <2>4 DEF CheckRate
<1>4. ASSUME NEW s \in Symbol, NEW side \in Side, NEW q \in Qty,
             OnOrderCancelled(s, side, q) \/ UpdatePosition(s, side, q)
      PROVE  TypeOK'
  <2>a. open[s][side] >= q
    BY ONLY <1>4 DEF OnOrderCancelled, UpdatePosition
  <2>b. open \in [Symbol -> [Side -> Nat]]
    OBVIOUS
  <2>1. q \in Nat /\ open[s][side] \in Nat /\ open[s][side] >= q
    BY ONLY <2>a, <2>b, s \in Symbol, side \in Side, q \in Qty, Settings
  <2>2. open' = [open EXCEPT ![s][side] = @ - q]
    BY <1>4 DEF OnOrderCancelled, UpdatePosition
  <2>3. open' \in [Symbol -> [Side -> Nat]]
    BY <2>1, <2>2
  <2> QED BY <1>0, <1>4, <2>3 DEF OnOrderCancelled, UpdatePosition
<1>5. CASE OnOrderSent
  <2>1. /\ order.symbol \in Symbol /\ order.side \in Side /\ order.qty \in Nat
        /\ open' = [open EXCEPT ![order.symbol][order.side] = @ + order.qty]
    BY <1>5, RiskAssumption DEF OnOrderSent, Idle
  <2>2. open' \in [Symbol -> [Side -> Nat]]
    BY <2>1
  <2> QED BY <1>0, <1>5, <2>2 DEF OnOrderSent
<1>6. CASE Refused
  BY <1>0, <1>6 DEF Refused
<1>7. ASSUME NEW change \in PnL, UpdatePnL(change) PROVE TypeOK'
  <2>1. /\ pnl' \in Int /\ peak' \in Nat /\ losses' \in Nat
    BY <1>7, RiskAssumption DEF UpdatePnL, Streak
  <2>2. Saved(TRUE, pnl') \in [active : BOOLEAN, pnl : Int]
    BY <2>1 DEF Saved
  <2>3. /\ kill' \in BOOLEAN /\ reason' \in {"NONE", "MANUAL", "CIRCUIT_BREAKER", "DRAWDOWN", "CONSECUTIVE_LOSSES"}
        /\ file' \in {NoFile} \cup [active : BOOLEAN, pnl : Int]
    BY <1>7, <2>2 DEF UpdatePnL, Latch
  <2> QED BY <1>0, <1>7, <2>1, <2>3 DEF UpdatePnL
<1>8. ASSUME NEW notional \in Price, AddTradedNotional(notional) PROVE TypeOK'
  <2>1. notional \in Nat /\ turnover' = turnover + notional
    BY <1>8, RiskAssumption DEF AddTradedNotional
  <2>2. turnover' \in Nat
    BY <2>1
  <2> QED BY <1>0, <1>8, <2>2 DEF AddTradedNotional
<1>9. ASSUME NEW s \in Banned, RestrictSymbol(s) \/ AllowSymbol(s) PROVE TypeOK'
  <2>1. s \in Symbol
    BY RiskAssumption
  <2> QED BY <1>0, <1>9, <2>1 DEF RestrictSymbol, AllowSymbol
<1>10. ASSUME NEW s \in Symbol, NEW limit \in Caps, SetSymbolPositionLimit(s, limit) PROVE TypeOK'
  <2>1. limit \in Int /\ cap' = [cap EXCEPT ![s] = IF limit > 0 THEN limit ELSE 0]
    BY <1>d, <1>10 DEF SetSymbolPositionLimit
  <2>2. cap' \in [Symbol -> Nat]
    BY <2>1
  <2> QED BY <1>0, <1>10, <2>2 DEF SetSymbolPositionLimit
<1>11. ASSUME NEW s \in Symbol, NEW price \in RefPrice, UpdateReferencePrice(s, price) PROVE TypeOK'
  <2>1. price \in Nat /\ ref' = [ref EXCEPT ![s] = price]
    BY <1>11, RiskAssumption DEF UpdateReferencePrice
  <2>2. ref' \in [Symbol -> Nat]
    BY <2>1
  <2> QED BY <1>0, <1>11, <2>2 DEF UpdateReferencePrice
<1>12. CASE ActivateKillSwitch \/ DeactivateKillSwitch
  <2>1. Saved(TRUE, pnl) \in [active : BOOLEAN, pnl : Int] /\ Saved(FALSE, pnl) \in [active : BOOLEAN, pnl : Int]
    BY DEF Saved
  <2> QED BY <1>0, <1>12, <2>1 DEF ActivateKillSwitch, DeactivateKillSwitch, Latch
<1>13. CASE ClearRestricted \/ Tick
  <2>1. CASE ClearRestricted
    BY <1>0, <2>1 DEF ClearRestricted
  <2>2. CASE Tick
    <3>1. now' = now + 1
      BY ONLY <2>2 DEF Tick
    <3>2. now' \in Nat
      BY ONLY <1>a, <3>1
    <3> QED BY <1>0, <2>2, <3>2 DEF Tick
  <2> QED BY ONLY <1>13, <2>1, <2>2
<1>14. ASSUME ring' = <<>> PROVE ring' \in Seq(Nat) /\ Len(ring') < RingSize
  BY <1>14, RiskAssumption
<1>15. CASE ResetDaily
  <2>1. ring' \in Seq(Nat) /\ Len(ring') < RingSize
    BY <1>14, <1>15 DEF ResetDaily
  <2>2. open' \in [Symbol -> [Side -> Nat]]
    BY <1>15 DEF ResetDaily, NoneOpen
  <2>3. /\ pnl' = 0 /\ peak' = 0 /\ losses' = 0 /\ turnover' = 0
        /\ reason' = "NONE" /\ file' = NoFile
        /\ UNCHANGED <<restricted, cap, ref, answer, order, now>>
    BY <1>15 DEF ResetDaily
  <2>4. kill' \in BOOLEAN
    BY <1>15 DEF ResetDaily
  <2> QED BY <1>0, <2>1, <2>2, <2>3, <2>4
<1>16. CASE Restart
  <2>1. pnl' \in Int /\ kill' \in BOOLEAN
    BY <1>16 DEF Restart
  <2> QED BY <1>0, <1>14, <1>16, <2>1 DEF Restart, NoneOpen, Zero
<1>17. CASE UNCHANGED vars
  BY <1>17 DEF vars
<1> QED BY <1>1, <1>2, <1>3, <1>4, <1>5, <1>6, <1>7, <1>8, <1>9, <1>10,
           <1>11, <1>12, <1>13, <1>15, <1>16, <1>17 DEF Next

\* The ring is never as full as its array, and the exposure is never negative.
THEOREM TypeCorrect == Spec => []TypeOK
<1>1. Init => TypeOK
  <2> SUFFICES ASSUME Init PROVE TypeOK
    OBVIOUS
  <2>1. ring \in Seq(Nat) /\ Len(ring) < RingSize
    BY RiskAssumption DEF Init
  <2>2. /\ positions \in [Symbol -> Int] /\ pending \in [Symbol -> Int]
        /\ cap \in [Symbol -> Nat] /\ ref \in [Symbol -> Nat]
        /\ open \in [Symbol -> [Side -> Nat]]
    BY DEF Init, Zero, NoneOpen
  <2>3. /\ exposure \in Nat /\ pnl \in Int /\ peak \in Nat /\ losses \in Nat /\ turnover \in Nat
        /\ reason = "NONE" /\ file = NoFile /\ restricted = {}
        /\ answer = "NONE" /\ order = NoOrder /\ now \in Nat
    BY DEF Init
  <2>4. kill \in BOOLEAN
    BY DEF Init
  <2> QED BY <2>1, <2>2, <2>3, <2>4 DEF TypeOK
<1> QED BY <1>1, TypeStep, LedgerInvariance, PTL DEF Spec

------------------------------------------------------------------------------
(***************************************************************************)
(* headroom_shares agrees with the position check, both caps being above   *)
(* zero.                                                                   *)
(***************************************************************************)
LEMMA RoomIsLargest ==
    ASSUME TypeOK, Limits.position > 0, NEW s \in Symbol, NEW side \in Side
    PROVE  LET room == HeadroomShares(s, side)
           IN  /\ room > 0 => PositionOK(s, side, room)
               /\ ~PositionOK(s, side, room + 1)
<1> DEFINE long == LongCap(s)
           short == ShortCap(s)
           e == Exposed(s)
<1>1. long \in Nat \ {0} /\ short \in Nat \ {0} /\ e \in Int
  <2>1. cap[s] \in Nat /\ positions[s] \in Int /\ pending[s] \in Int
    BY DEF TypeOK
  <2>2. Limits.position \in Nat \ {0} /\ Limits.short \in Nat
    BY RiskAssumption
  <2> QED BY ONLY <2>1, <2>2 DEF LongCap, ShortCap, Exposed
<1> HIDE DEF long, short, e
<1>2. CASE side = "BUY"
  <2> DEFINE room == IF long - e > 0 THEN long - e ELSE 0
  <2>1. HeadroomShares(s, side) = room
    BY <1>1, <1>2 DEF HeadroomShares, long, short, e
  <2>2. room \in Int /\ room + 1 \in Int /\ e + (room + 1) > long /\ e + (room + 1) >= 0
        /\ (room > 0 => e + room = long /\ e + room >= 0)
    BY <1>1
  <2> HIDE DEF room
  <2>3. \A q \in Int : PositionOK(s, side, q) <=> IF e + q >= 0 THEN e + q <= long ELSE -(e + q) <= short
    BY <1>2 DEF PositionOK, Signed, long, short, e
  <2>4. ~PositionOK(s, side, room + 1) /\ (room > 0 => PositionOK(s, side, room))
    BY <1>1, <2>2, <2>3
  <2> QED BY <2>1, <2>4
<1>3. CASE side = "SELL"
  <2> DEFINE room == IF short + e > 0 THEN short + e ELSE 0
  <2>1. HeadroomShares(s, side) = room
    BY <1>1, <1>3 DEF HeadroomShares, long, short, e
  <2>2. room \in Int /\ room + 1 \in Int /\ -(e + (-(room + 1))) > short /\ e + (-(room + 1)) < 0
        /\ (room > 0 => -(e + (-room)) = short /\ e + (-room) < 0)
    BY <1>1
  <2> HIDE DEF room
  <2>3. \A q \in Int : PositionOK(s, side, q)
                         <=> IF e + (-q) >= 0 THEN e + (-q) <= long ELSE -(e + (-q)) <= short
    BY <1>3 DEF PositionOK, Signed, long, short, e
  <2>4. ~PositionOK(s, side, room + 1) /\ (room > 0 => PositionOK(s, side, room))
    BY <1>1, <2>2, <2>3
  <2> QED BY <2>1, <2>4
<1> QED BY <1>2, <1>3 DEF Side

\* headroom_shares is the largest order the position check lets through,
\* wherever the position and the open orders are, when there is a position limit.
THEOREM HeadroomStays == Spec => [](Limits.position > 0 => HeadroomExact)
<1>1. TypeOK => (Limits.position > 0 => HeadroomExact)
  BY RoomIsLargest DEF HeadroomExact
<1> QED BY <1>1, TypeCorrect, PTL

------------------------------------------------------------------------------
(***************************************************************************)
(* The exposure limit.  An order between check_order and on_order_sent     *)
(* still passes check 4: nothing that moves the exposure runs in between.  *)
(***************************************************************************)
LimitInv == /\ TypeOK /\ LedgerInv
            /\ order # NoOrder => ExposureOK(order.symbol, order.side, order.qty)

LEMMA LimitStep == LimitInv /\ TypeOK' /\ LedgerInv' /\ [Next]_vars => LimitInv'
<1> SUFFICES ASSUME LimitInv, [Next]_vars, order' # NoOrder
             PROVE  ExposureOK(order.symbol, order.side, order.qty)'
  BY DEF LimitInv
<1>1. ASSUME UNCHANGED <<book, order>> PROVE ExposureOK(order.symbol, order.side, order.qty)'
  BY <1>1 DEF LimitInv, ExposureOK, Exposed, book
<1>2. ASSUME Idle, order' = order PROVE FALSE
  BY <1>2 DEF Idle
<1>3. ASSUME NEW s \in Symbol, NEW side \in Side, NEW q \in Qty, NEW price \in Price,
             CheckRejected(s, side, price, q) \/ CheckTrips(s, side, price, q)
      PROVE  FALSE
  BY <1>3 DEF CheckRejected, CheckTrips, Reject
<1>4. ASSUME NEW s \in Symbol, NEW side \in Side, NEW q \in Qty, NEW price \in Price,
             CheckRate(s, side, price, q)
      PROVE  ExposureOK(order.symbol, order.side, order.qty)'
  <2>1. UNCHANGED book /\ order' = [symbol |-> s, side |-> side, qty |-> q]
    BY <1>4 DEF CheckRate, Reject
  <2>2. ExposureOK(s, side, q)
    BY <1>4 DEF CheckRate, WithinLimits
  <2>3. order'.symbol = s /\ order'.side = side /\ order'.qty = q
    BY <2>1
  <2> QED BY <2>1, <2>2, <2>3 DEF ExposureOK, Exposed, book
<1>5. ASSUME NEW s \in Symbol, NEW side \in Side, NEW q \in Qty,
             OnOrderCancelled(s, side, q) \/ UpdatePosition(s, side, q)
      PROVE  FALSE
  BY <1>2, <1>5 DEF OnOrderCancelled, UpdatePosition, call
<1>6. CASE OnOrderSent \/ Refused \/ Restart
  BY <1>6 DEF OnOrderSent, Refused, Restart
<1>7. ASSUME NEW change \in PnL, UpdatePnL(change) PROVE FALSE
  BY <1>2, <1>7 DEF UpdatePnL, call
<1>8. ASSUME NEW notional \in Price, AddTradedNotional(notional) PROVE FALSE
  BY <1>2, <1>8 DEF AddTradedNotional, call
<1>9. ASSUME NEW s \in Banned, RestrictSymbol(s) \/ AllowSymbol(s) PROVE FALSE
  BY <1>2, <1>9 DEF RestrictSymbol, AllowSymbol, call
<1>10. ASSUME NEW s \in Symbol, NEW limit \in Caps, SetSymbolPositionLimit(s, limit) PROVE FALSE
  BY <1>2, <1>10 DEF SetSymbolPositionLimit, call
<1>11. ASSUME NEW s \in Symbol, NEW price \in RefPrice, UpdateReferencePrice(s, price) PROVE FALSE
  BY <1>2, <1>11 DEF UpdateReferencePrice, call
<1>12. CASE ActivateKillSwitch \/ Tick
  BY <1>1, <1>12 DEF ActivateKillSwitch, Tick, call
<1>13. CASE DeactivateKillSwitch \/ ClearRestricted \/ ResetDaily
  BY <1>2, <1>13 DEF DeactivateKillSwitch, ClearRestricted, ResetDaily, call
<1>14. CASE UNCHANGED vars
  BY <1>1, <1>14 DEF vars, call
<1> QED BY <1>3, <1>4, <1>5, <1>6, <1>7, <1>8, <1>9, <1>10, <1>11, <1>12, <1>13, <1>14 DEF Next

\* A new day that raises the exposure released an order that offset a position.
LEMMA NewDayReleases ==
    ASSUME LimitInv, ResetDaily, ~(exposure' <= exposure)
    PROVE  \E s \in Symbol, side \in Side : open'[s][side] < open[s][side]
<1>1. /\ positions \in [Symbol -> Int] /\ pending \in [Symbol -> Int] /\ exposure \in Nat
      /\ open \in [Symbol -> [Side -> Nat]]
      /\ exposure = Total([s \in Symbol |-> Abs(Exposed(s))], NSymbols)
      /\ \A s \in Symbol : pending[s] = open[s]["BUY"] - open[s]["SELL"]
  BY DEF LimitInv, TypeOK, LedgerInv, ExposureExact, PendingIsOpen
<1>2. exposure' = Total([s \in Symbol |-> Abs(positions[s])], NSymbols) /\ open' = NoneOpen
  BY DEF ResetDaily, PositionExposure
<1>3. PICK s \in Symbol : pending[s] # 0
  <2> SUFFICES ASSUME \A s \in Symbol : pending[s] = 0 PROVE FALSE
    OBVIOUS
  <2>1. \A s \in Symbol : Abs(Exposed(s)) = Abs(positions[s])
    <3>1. \A s \in Symbol : Exposed(s) = positions[s]
      BY <1>1 DEF Exposed
    <3> QED BY <3>1
  <2>2. [s \in Symbol |-> Abs(Exposed(s))] = [s \in Symbol |-> Abs(positions[s])]
    BY <2>1
  <2>3. exposure' = exposure
    BY <1>1, <1>2, <2>2
  <2> QED BY <1>1, <2>3
<1>4. PICK side \in Side : open[s][side] > 0
  BY <1>1, <1>3 DEF Side
<1>5. open'[s][side] = 0
  BY <1>2 DEF NoneOpen
<1> QED BY <1>4, <1>5

LEMMA LimitHeld ==
    ASSUME LimitInv, [Next]_vars
    PROVE  \/ exposure' <= Limits.exposure
           \/ exposure' <= exposure
           \/ positions' = positions
                 /\ \E s \in Symbol, side \in Side : open'[s][side] < open[s][side]
<1> DEFINE Goal == \/ exposure' <= Limits.exposure
                   \/ exposure' <= exposure
                   \/ positions' = positions
                         /\ \E s \in Symbol, side \in Side : open'[s][side] < open[s][side]
<1> SUFFICES Goal
  OBVIOUS
<1>0. exposure \in Nat /\ Limits.exposure \in Int
  <2>1. exposure \in Nat
    BY DEF LimitInv, TypeOK
  <2> QED BY ONLY <2>1, Settings
<1>1. ASSUME exposure' = exposure PROVE Goal
  BY <1>0, <1>1
<1>2. ASSUME OnOrderSent PROVE Goal
  <2>1. /\ exposure' = exposure + Abs(Exposed(order.symbol) + Signed(order.side, order.qty))
                         - Abs(Exposed(order.symbol))
        /\ exposure - Abs(Exposed(order.symbol))
             + Abs(Exposed(order.symbol) + Signed(order.side, order.qty)) <= Limits.exposure
    BY <1>2 DEF OnOrderSent, AdjustPending, LimitInv, Idle, ExposureOK
  <2>2. /\ Abs(Exposed(order.symbol)) \in Int
        /\ Abs(Exposed(order.symbol) + Signed(order.side, order.qty)) \in Int
    <3>1. order.symbol \in Symbol /\ order.side \in Side /\ order.qty \in Int
      <4>1. order # NoOrder
        BY ONLY <1>2 DEF OnOrderSent, Idle
      <4> QED BY ONLY <4>1, LimitInv DEF LimitInv, LedgerInv, BookOK
    <3>2. Exposed(order.symbol) \in Int /\ Signed(order.side, order.qty) \in Int
      <4>1. positions[order.symbol] \in Int /\ pending[order.symbol] \in Int
        BY <3>1 DEF LimitInv, TypeOK
      <4> QED BY <3>1, <4>1, SignedInt DEF Exposed
    <3>3. Exposed(order.symbol) + Signed(order.side, order.qty) \in Int
      BY <3>2
    <3> QED BY <3>2, <3>3, AbsInt
  <2>3. exposure' <= Limits.exposure
    BY <1>0, <2>1, <2>2
  <2> QED BY <2>3
<1>3. ASSUME NEW s \in Symbol, NEW side \in Side, NEW q \in Qty, OnOrderCancelled(s, side, q)
      PROVE  Goal
  <2>1. /\ positions' = positions /\ open' = [open EXCEPT ![s][side] = @ - q]
        /\ open \in [Symbol -> [Side -> Nat]] /\ q \in Nat \ {0}
    BY <1>3, RiskAssumption DEF OnOrderCancelled, AdjustPending, LimitInv, TypeOK
  <2>2. open'[s][side] < open[s][side]
    BY <2>1
  <2> QED BY <2>1, <2>2
<1>4. ASSUME ResetDaily PROVE Goal
  <2>1. positions' = positions
    BY <1>4 DEF ResetDaily
  <2> QED BY <1>4, <2>1, NewDayReleases
<1>5. ASSUME Restart PROVE Goal
  <2>1. exposure' = 0
    BY ONLY <1>5 DEF Restart
  <2>2. exposure' <= exposure
    BY ONLY <1>0, <2>1
  <2> QED BY <2>2
<1> HIDE DEF Goal
<1>6. ASSUME NEW s \in Symbol, NEW side \in Side, NEW q \in Qty, NEW price \in Price,
             \/ CheckRejected(s, side, price, q) \/ CheckTrips(s, side, price, q)
             \/ CheckRate(s, side, price, q)
      PROVE  Goal
  BY <1>1, <1>6 DEF CheckRejected, CheckTrips, CheckRate, book
<1>6a. ASSUME NEW s \in Symbol, NEW side \in Side, NEW q \in Qty, UpdatePosition(s, side, q)
       PROVE  Goal
  BY <1>1, <1>6a DEF UpdatePosition
<1>7. ASSUME NEW change \in PnL, UpdatePnL(change) PROVE Goal
  BY <1>1, <1>7 DEF UpdatePnL, book
<1>8. ASSUME NEW notional \in Price, AddTradedNotional(notional) PROVE Goal
  BY <1>1, <1>8 DEF AddTradedNotional, book
<1>9. ASSUME NEW s \in Banned, RestrictSymbol(s) \/ AllowSymbol(s) PROVE Goal
  BY <1>1, <1>9 DEF RestrictSymbol, AllowSymbol, book
<1>10. ASSUME NEW s \in Symbol, NEW limit \in Caps, SetSymbolPositionLimit(s, limit) PROVE Goal
  BY <1>1, <1>10 DEF SetSymbolPositionLimit, book
<1>11. ASSUME NEW s \in Symbol, NEW price \in RefPrice, UpdateReferencePrice(s, price) PROVE Goal
  BY <1>1, <1>11 DEF UpdateReferencePrice, book
<1>12. ASSUME Refused \/ ActivateKillSwitch \/ DeactivateKillSwitch \/ ClearRestricted \/ Tick
       PROVE  Goal
  BY <1>1, <1>12 DEF Refused, ActivateKillSwitch, DeactivateKillSwitch, ClearRestricted, Tick, book
<1>13. ASSUME UNCHANGED vars PROVE Goal
  BY <1>1, <1>13 DEF vars, book
<1>14. CASE Next
  BY <1>2, <1>3, <1>4, <1>5, <1>6, <1>7, <1>8, <1>9, <1>10, <1>11, <1>12, <1>14, <1>6a
  DEF Next
<1> QED BY <1>13, <1>14

(***************************************************************************)
(* Check 4 bounds the portfolio: only releasing an order that offset a     *)
(* position takes the exposure above max_portfolio_exposure.               *)
(***************************************************************************)
THEOREM ExposureLimitHolds == Spec => OnlyReleasesOverExpose
<1>1. Init => (order # NoOrder => ExposureOK(order.symbol, order.side, order.qty))
  BY DEF Init
<1>2. Spec => []LimitInv
  <2>1. Init /\ TypeOK /\ LedgerInv => LimitInv
    BY <1>1 DEF LimitInv
  <2> QED BY <2>1, LimitStep, TypeCorrect, LedgerInvariance, PTL DEF Spec
<1>3. LimitInv /\ [Next]_vars
        => [\/ exposure' <= Limits.exposure
            \/ exposure' <= exposure
            \/ positions' = positions
                  /\ \E s \in Symbol, side \in Side : open'[s][side] < open[s][side]]_vars
  BY LimitHeld
<1> QED BY <1>2, <1>3, PTL DEF Spec, OnlyReleasesOverExpose

------------------------------------------------------------------------------
(***************************************************************************)
(* The rate limit.  Ring r tracks history s at time t: it is the end of    *)
(* the history, and what it no longer holds is a second old.               *)
(***************************************************************************)
Tracks(r, s, t) ==
    /\ r \in Seq(Nat) /\ s \in Seq(Nat) /\ Len(r) <= Len(s)
    /\ \A k \in 1..Len(r) : r[k] = s[Len(s) - Len(r) + k]
    /\ \A k \in 1..(Len(s) - Len(r)) : s[k] <= t - Second

LEMMA EvictTracks ==
    ASSUME Tracks(ring, sent, now), now \in Nat
    PROVE  Tracks(Evicted, sent, now) /\ Len(Evicted) <= Len(ring)
<1>1. /\ ring \in Seq(Nat) /\ sent \in Seq(Nat) /\ Len(ring) \in Nat /\ Len(sent) \in Nat
      /\ Len(ring) <= Len(sent)
      /\ \A k \in 1..Len(ring) : ring[k] = sent[Len(sent) - Len(ring) + k]
      /\ \A k \in 1..(Len(sent) - Len(ring)) : sent[k] <= now - Second
  BY DEF Tracks
<1>2. PICK n \in 0..Len(ring) : /\ Evicted = SubSeq(ring, n + 1, Len(ring))
                                /\ \A j \in 1..n : ring[j] <= now - Second
  <2>1. ring \in Seq(Nat)
    BY <1>1
  <2> QED BY ONLY <2>1, EvictedIs
<1>3. n + 1 \in Int /\ Len(ring) \in Int /\ \A k \in (n + 1)..Len(ring) : ring[k] \in Nat
  <2>1. ring \in Seq(Nat) /\ Len(ring) \in Nat
    BY ONLY <1>1
  <2>2. n \in 0..Len(ring)
    OBVIOUS
  <2> QED BY ONLY <2>1, <2>2
<1> DEFINE e == Evicted
<1>4. /\ e \in Seq(Nat) /\ Len(e) = Len(ring) - n
      /\ \A k \in 1..(Len(ring) - n) : e[k] = ring[n + k]
  <2>1. /\ SubSeq(ring, n + 1, Len(ring)) \in Seq(Nat)
        /\ Len(SubSeq(ring, n + 1, Len(ring)))
              = IF n + 1 <= Len(ring) THEN Len(ring) - (n + 1) + 1 ELSE 0
        /\ \A k \in 1..(Len(ring) - (n + 1) + 1) :
              SubSeq(ring, n + 1, Len(ring))[k] = ring[(n + 1) + k - 1]
    BY <1>3
  <2>2. /\ Len(ring) - (n + 1) + 1 = Len(ring) - n /\ Len(ring) - n \in Nat
        /\ n + 1 <= Len(ring) \/ Len(ring) - n = 0
        /\ \A k \in 1..(Len(ring) - n) : (n + 1) + k - 1 = n + k
    BY <1>1
  <2>3. /\ e \in Seq(Nat)
        /\ Len(e) = IF n + 1 <= Len(ring) THEN Len(ring) - n ELSE 0
        /\ \A k \in 1..(Len(ring) - n) : e[k] = ring[(n + 1) + k - 1]
    BY <1>2, <2>1, <2>2
  <2> HIDE DEF e
  <2>4. \A k \in 1..(Len(ring) - n) : e[k] = ring[n + k]
    BY ONLY <2>2, <2>3
  <2>5. Len(e) = Len(ring) - n
    BY ONLY <1>1, <2>2, <2>3, n \in 0..Len(ring)
  <2> QED BY ONLY <2>3, <2>4, <2>5
<1> HIDE DEF e
<1>5. ASSUME NEW k \in 1..Len(e) PROVE e[k] = sent[Len(sent) - Len(e) + k]
  <2>1. /\ n + k \in 1..Len(ring) /\ k \in 1..(Len(ring) - n)
        /\ Len(sent) - Len(ring) + (n + k) = Len(sent) - Len(e) + k
    BY <1>1, <1>4
  <2>2. ring[n + k] = sent[Len(sent) - Len(ring) + (n + k)]
    BY <1>1, <2>1
  <2> QED BY <1>4, <2>1, <2>2
<1>6. ASSUME NEW k \in 1..(Len(sent) - Len(e)) PROVE sent[k] <= now - Second
  <2>1. CASE k <= Len(sent) - Len(ring)
    BY <1>1, <2>1
  <2>2. CASE k > Len(sent) - Len(ring)
    <3> DEFINE j == k - (Len(sent) - Len(ring))
    <3>1. j \in 1..n /\ j \in 1..Len(ring) /\ Len(sent) - Len(ring) + j = k
      <4>1. k \in Int /\ k <= Len(sent) - (Len(ring) - n)
        BY <1>1, <1>4
      <4>2. Len(sent) \in Nat /\ Len(ring) \in Nat /\ n \in 0..Len(ring)
        BY <1>1
      <4>3. j \in Int /\ j >= 1 /\ j <= n
        BY ONLY <2>2, <4>1, <4>2
      <4>4. Len(sent) - Len(ring) + j = k
        BY ONLY <4>1, <4>2
      <4> HIDE DEF j
      <4> QED BY ONLY <4>2, <4>3, <4>4
    <3> HIDE DEF j
    <3>2. ring[j] = sent[Len(sent) - Len(ring) + j] /\ ring[j] <= now - Second
      BY <1>1, <1>2, <3>1
    <3> QED BY <3>1, <3>2
  <2> QED BY <1>1, <2>1, <2>2
<1>7. Tracks(e, sent, now) /\ Len(e) <= Len(ring)
  BY <1>1, <1>4, <1>5, <1>6 DEF Tracks
<1> QED BY <1>7 DEF e

LEMMA PushTracks ==
    ASSUME NEW r, NEW s, NEW t \in Nat, Tracks(r, s, t)
    PROVE  Tracks(Append(r, t), Append(s, t), t)
<1>1. /\ r \in Seq(Nat) /\ s \in Seq(Nat) /\ Len(r) \in Nat /\ Len(s) \in Nat /\ Len(r) <= Len(s)
      /\ \A k \in 1..Len(r) : r[k] = s[Len(s) - Len(r) + k]
      /\ \A k \in 1..(Len(s) - Len(r)) : s[k] <= t - Second
  BY DEF Tracks
<1> DEFINE p == Append(r, t)
           u == Append(s, t)
<1>2. /\ p \in Seq(Nat) /\ Len(p) = Len(r) + 1
      /\ \A k \in 1..Len(r) : p[k] = r[k]
      /\ p[Len(r) + 1] = t
  <2>1. r \in Seq(Nat) /\ t \in Nat
    BY <1>1
  <2> QED BY ONLY <2>1, Appended
<1>3. /\ u \in Seq(Nat) /\ Len(u) = Len(s) + 1
      /\ \A k \in 1..Len(s) : u[k] = s[k]
      /\ u[Len(s) + 1] = t
  <2>1. s \in Seq(Nat) /\ t \in Nat
    BY <1>1
  <2> QED BY ONLY <2>1, Appended
<1> HIDE DEF p, u
<1>4. ASSUME NEW k \in 1..Len(p) PROVE p[k] = u[Len(u) - Len(p) + k]
  <2>1. CASE k = Len(r) + 1
    <3>1. Len(r) \in Nat /\ Len(s) \in Nat /\ Len(p) = Len(r) + 1 /\ Len(u) = Len(s) + 1
      BY <1>1, <1>2, <1>3
    <3>2. Len(u) - Len(p) + k = Len(s) + 1
      BY ONLY <2>1, <3>1
    <3> QED BY ONLY <1>2, <1>3, <2>1, <3>2
  <2>2. CASE k \in 1..Len(r)
    <3>1. /\ Len(u) - Len(p) + k = Len(s) - Len(r) + k
          /\ Len(s) - Len(r) + k \in 1..Len(s)
      BY <1>1, <1>2, <1>3, <2>2
    <3> QED BY <1>1, <1>2, <1>3, <2>2, <3>1
  <2> QED BY <1>1, <1>2, <2>1, <2>2
<1>5. ASSUME NEW k \in 1..(Len(u) - Len(p)) PROVE u[k] <= t - Second
  <2>0. Len(r) \in Nat /\ Len(s) \in Nat /\ Len(p) = Len(r) + 1 /\ Len(u) = Len(s) + 1
    BY ONLY <1>1, <1>2, <1>3
  <2>1. k \in 1..(Len(s) - Len(r)) /\ k \in 1..Len(s)
    BY ONLY <2>0, k \in 1..(Len(u) - Len(p))
  <2> QED BY ONLY <1>1, <1>3, <2>1
<1>6. Tracks(p, u, t)
  <2>1. p \in Seq(Nat) /\ u \in Seq(Nat)
    BY ONLY <1>2, <1>3
  <2>2. Len(p) <= Len(u)
    BY ONLY <1>1, <1>2, <1>3
  <2> QED BY ONLY <1>4, <1>5, <2>1, <2>2 DEF Tracks
<1> QED BY <1>6 DEF p, u

\* The history may forget its oldest entry once the ring has.
LEMMA DropTracks ==
    ASSUME NEW r, NEW s, NEW t \in Nat, Tracks(r, s, t), Len(r) < Len(s)
    PROVE  Tracks(r, Tail(s), t)
<1>1. /\ r \in Seq(Nat) /\ s \in Seq(Nat) /\ Len(r) \in Nat /\ Len(s) \in Nat /\ s # <<>>
      /\ \A k \in 1..Len(r) : r[k] = s[Len(s) - Len(r) + k]
      /\ \A k \in 1..(Len(s) - Len(r)) : s[k] <= t - Second
  BY DEF Tracks
<1> DEFINE u == Tail(s)
<1>2. u \in Seq(Nat) /\ Len(u) = Len(s) - 1 /\ \A k \in 1..Len(u) : u[k] = s[k + 1]
  BY <1>1
<1> HIDE DEF u
<1>3. ASSUME NEW k \in 1..Len(r) PROVE r[k] = u[Len(u) - Len(r) + k]
  <2>1. /\ Len(u) - Len(r) + k \in 1..Len(u)
        /\ (Len(u) - Len(r) + k) + 1 = Len(s) - Len(r) + k
    BY <1>1, <1>2
  <2>2. u[Len(u) - Len(r) + k] = s[(Len(u) - Len(r) + k) + 1]
    BY <1>2, <2>1
  <2> QED BY <1>1, <2>1, <2>2
<1>4. ASSUME NEW k \in 1..(Len(u) - Len(r)) PROVE u[k] <= t - Second
  <2>1. k + 1 \in 1..(Len(s) - Len(r)) /\ k \in 1..Len(u)
    BY <1>1, <1>2
  <2> QED BY <1>1, <1>2, <2>1
<1>5. Tracks(r, u, t)
  BY <1>1, <1>2, <1>3, <1>4 DEF Tracks
<1> QED BY <1>5 DEF u

RateInv == Limits.rate < RingSize => Tracks(ring, sent, now) /\ Len(ring) <= Limits.rate

LEMMA CheckRateTracks ==
    ASSUME TypeOK, RateInv, NEW s \in Symbol, NEW side \in Side, NEW q \in Qty, NEW price \in Price,
           CheckRate(s, side, price, q)
    PROVE  RateInv'
<1> SUFFICES ASSUME Limits.rate < RingSize
             PROVE  Tracks(ring', sent', now) /\ Len(ring') <= Limits.rate
  <2>1. now' = now
    BY DEF CheckRate, clock
  <2> QED BY <2>1 DEF RateInv, Tracks
<1>1. /\ now \in Nat /\ Limits.rate \in Nat /\ RingSize \in Nat
      /\ Tracks(ring, sent, now) /\ Len(ring) \in Nat /\ Len(ring) <= Limits.rate
  <2>1. Tracks(ring, sent, now) /\ Len(ring) <= Limits.rate
    BY ONLY RateInv, Limits.rate < RingSize DEF RateInv
  <2> QED BY ONLY TypeOK, <2>1, RateTyped, Settings
<1>2. /\ Tracks(Evicted, sent, now) /\ Len(Evicted) <= Len(ring)
      /\ Evicted \in Seq(Nat) /\ Len(Evicted) \in Nat /\ sent \in Seq(Nat) /\ Len(sent) \in Nat
  <2>1. Tracks(Evicted, sent, now) /\ Len(Evicted) <= Len(ring)
    BY <1>1, EvictTracks
  <2>2. Evicted \in Seq(Nat) /\ sent \in Seq(Nat)
    BY ONLY <2>1 DEF Tracks
  <2> QED BY ONLY <2>1, <2>2
<1>3. CASE RateFull /\ ring' = Evicted /\ UNCHANGED sent
  BY <1>1, <1>2, <1>3
<1>4. CASE ~RateFull /\ ring' = Pushed(Evicted) /\ sent' = Latest(Append(sent, now))
  <2>1. Len(Evicted) < Limits.rate
    BY <1>1, <1>2, <1>4 DEF RateFull
  <2> DEFINE p == Append(Evicted, now)
             u == Append(sent, now)
  <2>2. Tracks(p, u, now) /\ Len(p) = Len(Evicted) + 1 /\ Len(u) = Len(sent) + 1
    BY <1>1, <1>2, PushTracks
  <2>3. ring' = IF Len(p) = RingSize THEN Tail(p) ELSE p
    BY <1>4 DEF Pushed
  <2>4. sent' = IF Len(u) > Limits.rate + 1 THEN Tail(u) ELSE u
    BY <1>4 DEF Latest
  <2> HIDE DEF p, u
  <2>5. ring' = p /\ Len(p) <= Limits.rate
    BY <1>1, <1>2, <2>1, <2>2, <2>3
  <2>6. CASE Len(u) > Limits.rate + 1
    <3>1. Len(p) < Len(u)
      BY <1>1, <1>2, <2>2, <2>5, <2>6
    <3>2. Tracks(p, Tail(u), now)
      BY <1>1, <2>2, <3>1, DropTracks
    <3> QED BY <2>4, <2>5, <2>6, <3>2
  <2>7. CASE ~(Len(u) > Limits.rate + 1)
    BY <2>2, <2>4, <2>5, <2>7
  <2> QED BY <2>6, <2>7
<1> QED BY <1>3, <1>4 DEF CheckRate

LEMMA RateStep == TypeOK /\ RateInv /\ [Next]_vars => RateInv'
<1> SUFFICES ASSUME TypeOK, RateInv, [Next]_vars PROVE RateInv'
  OBVIOUS
<1>1. ASSUME UNCHANGED <<rate, clock>> PROVE RateInv'
  BY <1>1 DEF RateInv, Tracks, rate, clock
<1>2. ASSUME ring' = <<>>, sent' = <<>> PROVE RateInv'
  <2>1. ring' \in Seq(Nat) /\ sent' \in Seq(Nat) /\ Len(ring') = 0 /\ Len(sent') = 0
    BY <1>2
  <2> QED BY <2>1, RiskAssumption DEF RateInv, Tracks
<1>3. ASSUME NEW s \in Symbol, NEW side \in Side, NEW q \in Qty, NEW price \in Price,
             CheckRejected(s, side, price, q) \/ CheckTrips(s, side, price, q)
      PROVE  RateInv'
  BY <1>1, <1>3 DEF CheckRejected, CheckTrips
<1>4. ASSUME NEW s \in Symbol, NEW side \in Side, NEW q \in Qty,
             OnOrderCancelled(s, side, q) \/ UpdatePosition(s, side, q)
      PROVE  RateInv'
  BY <1>1, <1>4 DEF OnOrderCancelled, UpdatePosition
<1>5. CASE OnOrderSent \/ Refused
  BY <1>1, <1>5 DEF OnOrderSent, Refused
<1>6. ASSUME NEW change \in PnL, UpdatePnL(change) PROVE RateInv'
  BY <1>1, <1>6 DEF UpdatePnL
<1>7. ASSUME NEW notional \in Price, AddTradedNotional(notional) PROVE RateInv'
  BY <1>1, <1>7 DEF AddTradedNotional
<1>8. ASSUME NEW s \in Banned, RestrictSymbol(s) \/ AllowSymbol(s) PROVE RateInv'
  BY <1>1, <1>8 DEF RestrictSymbol, AllowSymbol
<1>9. ASSUME NEW s \in Symbol, NEW limit \in Caps, SetSymbolPositionLimit(s, limit) PROVE RateInv'
  BY <1>1, <1>9 DEF SetSymbolPositionLimit
<1>10. ASSUME NEW s \in Symbol, NEW price \in RefPrice, UpdateReferencePrice(s, price) PROVE RateInv'
  BY <1>1, <1>10 DEF UpdateReferencePrice
<1>11. CASE ActivateKillSwitch \/ DeactivateKillSwitch \/ ClearRestricted
  BY <1>1, <1>11 DEF ActivateKillSwitch, DeactivateKillSwitch, ClearRestricted
<1>12. CASE ResetDaily \/ Restart
  BY <1>2, <1>12 DEF ResetDaily, Restart
\* Time only makes old entries older.
<1>13. CASE Tick
  <2> SUFFICES ASSUME Limits.rate < RingSize
               PROVE  Tracks(ring', sent', now') /\ Len(ring') <= Limits.rate
    BY DEF RateInv
  <2>1. /\ ring' = ring /\ sent' = sent /\ now' = now + 1 /\ now \in Nat /\ Second \in Nat
        /\ sent \in Seq(Nat) /\ Len(sent) \in Nat /\ ring \in Seq(Nat) /\ Len(ring) \in Nat
        /\ Tracks(ring, sent, now) /\ Len(ring) <= Limits.rate
    <3>1. ring' = ring /\ sent' = sent /\ now' = now + 1
      BY ONLY <1>13 DEF Tick, rate
    <3>2. Tracks(ring, sent, now) /\ Len(ring) <= Limits.rate
      BY ONLY RateInv, Limits.rate < RingSize DEF RateInv
    <3>3. sent \in Seq(Nat) /\ Len(sent) \in Nat
      BY ONLY <3>2 DEF Tracks
    <3> QED BY ONLY <3>1, <3>2, <3>3, TypeOK, RateTyped, Settings
  <2>2. ASSUME NEW k \in 1..(Len(sent) - Len(ring)) PROVE sent[k] <= now' - Second
    <3>1. k \in 1..Len(sent) /\ sent[k] \in Nat /\ sent[k] <= now - Second
      BY <2>1 DEF Tracks
    <3> QED BY <2>1, <3>1
  <2> QED BY <2>1, <2>2 DEF Tracks
<1>14. CASE UNCHANGED vars
  BY <1>1, <1>14 DEF vars
<1> QED BY <1>3, <1>4, <1>5, <1>6, <1>7, <1>8, <1>9, <1>10, <1>11, <1>12, <1>13, <1>14,
           CheckRateTracks DEF Next

\* No second sees more than max_orders_per_second orders allowed, for any limit
\* the ring has room for.
THEOREM RateStays == Spec => [](Limits.rate < RingSize => RateHeld)
<1>1. Init => RateInv
  <2>1. ASSUME Init PROVE ring = <<>> /\ sent = <<>>
    BY <2>1 DEF Init
  <2>2. <<>> \in Seq(Nat) /\ Len(<<>>) = 0
    OBVIOUS
  <2> QED BY <2>1, <2>2, RiskAssumption DEF RateInv, Tracks
<1>2. TypeOK /\ RateInv => (Limits.rate < RingSize => RateHeld)
  <2> SUFFICES ASSUME TypeOK, RateInv, Limits.rate < RingSize PROVE RateHeld
    OBVIOUS
  <2> DEFINE recent == {k \in DOMAIN sent : sent[k] > now - Second}
             d == Len(sent) - Len(ring)
  <2>a. /\ sent \in Seq(Nat) /\ ring \in Seq(Nat) /\ Len(ring) <= Len(sent)
        /\ \A k \in 1..d : sent[k] <= now - Second
        /\ Len(ring) <= Limits.rate
    BY DEF RateInv, Tracks
  <2>b. Limits.rate \in Nat /\ now \in Nat /\ Second \in Nat
    BY ONLY TypeOK, RateTyped, Settings
  <2>c. Len(sent) \in Nat /\ Len(ring) \in Nat
    BY ONLY <2>a
  <2>d. d \in Nat /\ d + Len(ring) = Len(sent) /\ now - Second \in Int
    BY ONLY <2>a, <2>b, <2>c
  <2>1. /\ sent \in Seq(Nat) /\ Len(sent) \in Nat /\ Len(ring) \in Nat /\ d \in Nat
        /\ Len(ring) <= Limits.rate /\ Limits.rate \in Nat /\ now - Second \in Int
        /\ d + Len(ring) = Len(sent)
        /\ \A k \in 1..d : sent[k] <= now - Second
    BY ONLY <2>a, <2>b, <2>c, <2>d
  <2>2. recent \in SUBSET ((d + 1)..Len(sent))
    <3> HIDE DEF d
    <3> SUFFICES ASSUME NEW k \in recent PROVE k \in (d + 1)..Len(sent)
      OBVIOUS
    <3>1. k \in 1..Len(sent) /\ sent[k] > now - Second /\ sent[k] \in Nat
      BY <2>1
    <3>2. k \notin 1..d
      BY <2>1, <3>1
    <3> QED BY <2>1, <3>1, <3>2
  <2>3. /\ IsFiniteSet((d + 1)..Len(sent))
        /\ Cardinality((d + 1)..Len(sent)) = IF d + 1 > Len(sent) THEN 0 ELSE Len(sent) - (d + 1) + 1
    <3>1. d + 1 \in Int /\ Len(sent) \in Int
      BY <2>1
    <3> QED BY <3>1, FS_Interval
  <2> HIDE DEF d, recent
  <2>4. IsFiniteSet(recent) /\ Cardinality(recent) <= Cardinality((d + 1)..Len(sent))
    BY <2>2, <2>3, FS_Subset
  <2>5. Cardinality(recent) \in Nat
    BY <2>4, FS_CardinalityType
  <2>6. Cardinality(recent) <= Limits.rate
    BY <2>1, <2>3, <2>4, <2>5
  <2> QED BY <2>6 DEF RateHeld, recent
<1> QED BY <1>1, <1>2, RateStep, TypeCorrect, PTL DEF Spec

------------------------------------------------------------------------------
(***************************************************************************)
(* The daily loss.  NoTradeInBreach fails across restarts, because the     *)
(* file holds the P&L of the latest latch.  Nothing else breaks it: as     *)
(* long as the process has not restarted, daily_pnl_ is the P&L of the day.*)
(***************************************************************************)
DayInv == /\ crashes \in Nat /\ day \in Int
          /\ crashes = 0 => pnl = day

LEMMA DayStep == DayInv /\ [Next]_vars => DayInv'
<1> SUFFICES ASSUME DayInv, [Next]_vars PROVE DayInv'
  OBVIOUS
<1>1. ASSUME UNCHANGED <<pnl, day, crashes>> PROVE DayInv'
  BY <1>1 DEF DayInv
<1>2. ASSUME NEW s \in Symbol, NEW side \in Side, NEW q \in Qty, NEW price \in Price,
             \/ CheckRejected(s, side, price, q)
             \/ CheckTrips(s, side, price, q)
             \/ CheckRate(s, side, price, q)
      PROVE  DayInv'
  BY <1>1, <1>2 DEF CheckRejected, CheckTrips, CheckRate, money, clock
<1>3. ASSUME NEW s \in Symbol, NEW side \in Side, NEW q \in Qty,
             OnOrderCancelled(s, side, q) \/ UpdatePosition(s, side, q)
      PROVE  DayInv'
  BY <1>1, <1>3 DEF OnOrderCancelled, UpdatePosition, money, clock
<1>4. CASE OnOrderSent \/ Refused
  BY <1>1, <1>4 DEF OnOrderSent, Refused, money, clock
<1>5. ASSUME NEW change \in PnL, UpdatePnL(change) PROVE DayInv'
  <2>1. change \in Int
    BY RiskAssumption
  <2>2. pnl' = pnl + change /\ day' = day + change /\ crashes' = crashes
    BY <1>5 DEF UpdatePnL, clock
  <2> QED BY ONLY <2>1, <2>2, DayInv DEF DayInv
<1>6. ASSUME NEW notional \in Price, AddTradedNotional(notional) PROVE DayInv'
  BY <1>1, <1>6 DEF AddTradedNotional, clock
<1>7. ASSUME NEW s \in Banned, RestrictSymbol(s) \/ AllowSymbol(s) PROVE DayInv'
  BY <1>1, <1>7 DEF RestrictSymbol, AllowSymbol, money, clock
<1>8. ASSUME NEW s \in Symbol, NEW limit \in Caps, SetSymbolPositionLimit(s, limit) PROVE DayInv'
  BY <1>1, <1>8 DEF SetSymbolPositionLimit, money, clock
<1>9. ASSUME NEW s \in Symbol, NEW price \in RefPrice, UpdateReferencePrice(s, price) PROVE DayInv'
  BY <1>1, <1>9 DEF UpdateReferencePrice, money, clock
<1>10. CASE ActivateKillSwitch \/ DeactivateKillSwitch
  BY <1>1, <1>10 DEF ActivateKillSwitch, DeactivateKillSwitch, money, clock
<1>11. CASE ClearRestricted \/ Tick
  BY <1>1, <1>11 DEF ClearRestricted, Tick, money, clock
<1>12. CASE ResetDaily
  BY <1>12 DEF ResetDaily, DayInv, clock
<1>13. CASE Restart
  BY <1>13 DEF Restart, DayInv
<1>14. CASE UNCHANGED vars
  BY <1>1, <1>14 DEF vars, money, clock
<1> QED BY <1>2, <1>3, <1>4, <1>5, <1>6, <1>7, <1>8, <1>9, <1>10,
           <1>11, <1>12, <1>13, <1>14 DEF Next

\* Only check 7 hands out an order, and it comes after the loss was looked at.
LEMMA AllowedUnderLoss ==
    ASSUME TypeOK, DayInv, crashes = 0, Next, order' # order, order' # NoOrder
    PROVE  day >= -Limits.loss
<1> DEFINE Kept == order' = order \/ order' = NoOrder
<1>1. ASSUME NEW s \in Symbol, NEW side \in Side, NEW q \in Qty, NEW price \in Price,
             CheckRejected(s, side, price, q) \/ CheckTrips(s, side, price, q)
      PROVE  Kept
  BY <1>1 DEF CheckRejected, CheckTrips, Reject
<1>2. ASSUME NEW s \in Symbol, NEW side \in Side, NEW q \in Qty,
             OnOrderCancelled(s, side, q) \/ UpdatePosition(s, side, q)
      PROVE  Kept
  BY <1>2 DEF OnOrderCancelled, UpdatePosition, call
<1>3. ASSUME NEW x, UpdatePnL(x) \/ AddTradedNotional(x) \/ RestrictSymbol(x) \/ AllowSymbol(x)
      PROVE  Kept
  BY <1>3 DEF UpdatePnL, AddTradedNotional, RestrictSymbol, AllowSymbol, call
<1>4. ASSUME NEW s, NEW x, SetSymbolPositionLimit(s, x) \/ UpdateReferencePrice(s, x)
      PROVE  Kept
  BY <1>4 DEF SetSymbolPositionLimit, UpdateReferencePrice, call
<1>5. CASE OnOrderSent \/ Refused
  <2> Kept
    BY <1>5 DEF OnOrderSent, Refused
  <2> QED OBVIOUS
<1>6. CASE ActivateKillSwitch \/ DeactivateKillSwitch \/ ClearRestricted \/ Tick
  <2> Kept
    BY <1>6 DEF ActivateKillSwitch, DeactivateKillSwitch, ClearRestricted, Tick, call
  <2> QED OBVIOUS
<1>7. CASE ResetDaily \/ Restart
  <2> Kept
    BY <1>7 DEF ResetDaily, Restart, call
  <2> QED OBVIOUS
<1>8. ASSUME NEW s \in Symbol, NEW side \in Side, NEW q \in Qty, NEW price \in Price,
             CheckRate(s, side, price, q)
      PROVE  day >= -Limits.loss
  <2>1. ~(pnl < -Limits.loss)
    BY <1>8 DEF CheckRate, LossBreach
  <2>2. pnl = day /\ day \in Int /\ Limits.loss \in Nat
    BY RiskAssumption DEF DayInv
  <2> QED BY <2>1, <2>2
<1> QED BY <1>1, <1>2, <1>3, <1>4, <1>5, <1>6, <1>7, <1>8 DEF Next

(***************************************************************************)
(* A process that has not restarted allows no order while the loss of the  *)
(* day exceeds max_daily_loss: the breach of NoTradeInBreach takes a       *)
(* restart.                                                                *)
(***************************************************************************)
THEOREM BreachTakesRestart ==
    Spec => [][crashes = 0 /\ order' # order /\ order' # NoOrder => day >= -Limits.loss]_vars
<1>1. Init => DayInv
  BY DEF Init, DayInv
<1>2. TypeOK /\ DayInv /\ [Next]_vars =>
        [crashes = 0 /\ order' # order /\ order' # NoOrder => day >= -Limits.loss]_vars
  BY AllowedUnderLoss
<1> QED BY <1>1, <1>2, DayStep, TypeCorrect, PTL DEF Spec
==============================================================================
