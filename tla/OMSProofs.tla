------------------------------ MODULE OMSProofs ------------------------------
(***************************************************************************)
(* The ledgers of the OMS, for every set of symbols, prices and            *)
(* quantities below 2^31, and for any number of orders.                    *)
(***************************************************************************)
EXTENDS OMS, Lemmas, TLAPS

\* No quantity is changed by the cast to int32_t.
NoWrap == \A q \in Qty : q < HalfWord

Bounded == \A i \in 1..Len(orders) : orders[i].quantity < HalfWord

IInv == TypeOK /\ Bounded /\ OrdersSound /\ PendingIsOpen /\ NetIsExecuted /\ CostIsBasis

------------------------------------------------------------------------------
\* The sign of a quantity that does not wrap.
LEMMA SignedQtyIs ==
    ASSUME NEW q \in Nat, q < HalfWord, NEW side
    PROVE  SignedQty(side, q) = IF side = "BUY" THEN q ELSE -q
BY NumberAssumption DEF SignedQty, ToInt32

LEMMA SignedQtyType ==
    ASSUME NEW q \in Int, NEW side
    PROVE  SignedQty(side, q) \in Int
BY NumberAssumption DEF SignedQty, ToInt32

LEMMA AbsType == \A n \in Int : Abs(n) \in Nat
BY DEF Abs

\* What an order adds to the pending and to the net position of s.
Held(o, s) == IF o.symbol = s /\ o.status \in {"SENT", "PARTIAL"}
              THEN SignedQty(o.side, Remaining(o)) ELSE 0
Done(o, s) == IF o.symbol = s THEN SignedQty(o.side, o.filled) ELSE 0

HeldTable(os, s) == [i \in 1..Len(os) |-> Held(os[i], s)]
DoneTable(os, s) == [i \in 1..Len(os) |-> Done(os[i], s)]

LEMMA TableType ==
    ASSUME NEW os \in Seq(Order), NEW s
    PROVE  /\ Len(os) \in Nat
           /\ \A i \in 1..Len(os) : Held(os[i], s) \in Int /\ Done(os[i], s) \in Int
           /\ HeldTable(os, s) \in [1..Len(os) -> Int]
           /\ DoneTable(os, s) \in [1..Len(os) -> Int]
<1>1. Len(os) \in Nat
  OBVIOUS
<1>2. ASSUME NEW i \in 1..Len(os) PROVE Held(os[i], s) \in Int /\ Done(os[i], s) \in Int
  <2>1. os[i] \in Order
    OBVIOUS
  <2>2. os[i].quantity \in Nat /\ os[i].filled \in Nat
    BY <2>1 DEF Order
  <2>3. SignedQty(os[i].side, Remaining(os[i])) \in Int /\ SignedQty(os[i].side, os[i].filled) \in Int
    BY <2>2, SignedQtyType DEF Remaining
  <2> QED BY <2>3 DEF Held, Done
<1> QED BY <1>1, <1>2 DEF HeldTable, DoneTable

\* A step that changes order k changes the totals by as much.
LEMMA ChangeOne ==
    ASSUME NEW os \in Seq(Order), NEW ot \in Seq(Order), Len(ot) = Len(os), NEW s,
           NEW k \in 1..Len(os), \A i \in 1..Len(os) : i # k => ot[i] = os[i]
    PROVE  /\ Total(HeldTable(ot, s), Len(ot))
                = Total(HeldTable(os, s), Len(os)) - Held(os[k], s) + Held(ot[k], s)
           /\ Total(DoneTable(ot, s), Len(ot))
                = Total(DoneTable(os, s), Len(os)) - Done(os[k], s) + Done(ot[k], s)
<1>1. Len(os) \in Nat
  OBVIOUS
<1>2. /\ HeldTable(os, s) \in [1..Len(os) -> Int] /\ DoneTable(os, s) \in [1..Len(os) -> Int]
      /\ HeldTable(ot, s) \in [1..Len(os) -> Int] /\ DoneTable(ot, s) \in [1..Len(os) -> Int]
  BY TableType
<1>3. \A i \in 1..Len(os) : /\ HeldTable(os, s)[i] = Held(os[i], s) /\ DoneTable(os, s)[i] = Done(os[i], s)
                            /\ HeldTable(ot, s)[i] = Held(ot[i], s) /\ DoneTable(ot, s)[i] = Done(ot[i], s)
  BY DEF HeldTable, DoneTable
<1> HIDE DEF HeldTable, DoneTable
<1>4. \A i \in 1..Len(os) : i # k => /\ HeldTable(ot, s)[i] = HeldTable(os, s)[i]
                                     /\ DoneTable(ot, s)[i] = DoneTable(os, s)[i]
  BY <1>3
<1>5. Total(HeldTable(ot, s), Len(os))
         = Total(HeldTable(os, s), Len(os)) - HeldTable(os, s)[k] + HeldTable(ot, s)[k]
  BY ONLY k \in 1..Len(os), <1>1, <1>2, <1>4, TotalUpdate
<1>6. Total(DoneTable(ot, s), Len(os))
         = Total(DoneTable(os, s), Len(os)) - DoneTable(os, s)[k] + DoneTable(ot, s)[k]
  BY ONLY k \in 1..Len(os), <1>1, <1>2, <1>4, TotalUpdate
<1> QED BY <1>3, <1>5, <1>6

\* The same, stated for the properties of the module.
LEMMA Tables ==
    TypeOK => \A s \in Symbols : /\ Open(s, WorkingIds) = HeldTable(orders, s)
                                /\ Executed(s) = DoneTable(orders, s)
<1> SUFFICES ASSUME TypeOK, NEW s \in Symbols
             PROVE  /\ Open(s, WorkingIds) = HeldTable(orders, s)
                    /\ Executed(s) = DoneTable(orders, s)
  OBVIOUS
<1>1. DOMAIN orders = 1..Len(orders)
  BY DEF TypeOK
<1>2. ASSUME NEW i \in 1..Len(orders)
      PROVE  (i \in WorkingIds /\ orders[i].symbol = s)
                <=> (orders[i].symbol = s /\ orders[i].status \in {"SENT", "PARTIAL"})
  BY <1>1 DEF WorkingIds, Working
<1> QED BY <1>2 DEF Open, Executed, HeldTable, DoneTable, Held, Done

Ledgers == \A s \in Symbols : /\ pos[s].pending = Total(HeldTable(orders, s), Len(orders))
                             /\ pos[s].net = Total(DoneTable(orders, s), Len(orders))

LEMMA LedgersAre == TypeOK => (Ledgers <=> PendingIsOpen /\ NetIsExecuted)
BY Tables DEF Ledgers, PendingIsOpen, NetIsExecuted

LEMMA LedgersAreNext == TypeOK' => (Ledgers' <=> PendingIsOpen' /\ NetIsExecuted')
BY LedgersAre, PTL

------------------------------------------------------------------------------
LEMMA ReserveIs ==
    ASSUME NEW p \in Position, NEW n \in Int
    PROVE  /\ p.pending \in Int /\ p.net \in Int
           /\ Reserve(p, n) \in Position
           /\ Reserve(p, n).pending = p.pending + n
           /\ Reserve(p, n).net = p.net /\ Reserve(p, n).avg = p.avg /\ Reserve(p, n).cost = p.cost
           /\ Reserve(p, n).realized = p.realized
BY DEF Position, Reserve

\* What is known of order i before a step that changes it.
LEMMA WorkingOrder ==
    ASSUME IInv, NEW i \in 1..Len(orders), Working(i)
    PROVE  /\ orders[i] \in Order
           /\ orders[i].symbol \in Symbols
           /\ orders[i].status \in {"SENT", "PARTIAL"}
           /\ orders[i].quantity \in Nat /\ orders[i].filled \in Nat
           /\ orders[i].filled <= orders[i].quantity
           /\ orders[i].quantity < HalfWord
           /\ Remaining(orders[i]) \in Nat
           /\ pos[orders[i].symbol] \in Position
<1>1. orders[i] \in Order /\ i \in DOMAIN orders
  BY DEF IInv, TypeOK
<1>2. /\ orders[i].symbol \in Symbols /\ orders[i].quantity \in Nat /\ orders[i].filled \in Nat
      /\ orders[i].status \in {"SENT", "PARTIAL"}
  BY <1>1 DEF Order, Working
<1>3. orders[i].filled <= orders[i].quantity
  BY <1>1 DEF IInv, OrdersSound
<1>4. orders[i].quantity < HalfWord
  BY DEF IInv, Bounded
<1>5. pos[orders[i].symbol] \in Position
  BY <1>2 DEF IInv, TypeOK
<1> QED BY <1>1, <1>2, <1>3, <1>4, <1>5 DEF Remaining

\* A step that replaces order i by n, of the same symbol and side, and moves the
\* position of its symbol by as much, keeps the ledgers.
LEMMA OneOrderStep ==
    ASSUME IInv, NEW i \in 1..Len(orders), NEW n \in Order, NEW p \in Position,
           orders' = [orders EXCEPT ![i] = n],
           pos' = [pos EXCEPT ![orders[i].symbol] = p],
           n.symbol = orders[i].symbol, n.quantity < HalfWord, n.filled <= n.quantity,
           n.status = "FILLED" <=> (n.filled = n.quantity /\ n.status # "CANCELLED"),
           n.status = "SENT" => n.filled = 0,
           n.status = "PARTIAL" => n.filled > 0,
           p.net = 0 => p.avg = 0, p.cost = p.avg * Abs(p.net),
           p.pending = pos[orders[i].symbol].pending
                         - Held(orders[i], orders[i].symbol) + Held(n, orders[i].symbol),
           p.net = pos[orders[i].symbol].net
                     - Done(orders[i], orders[i].symbol) + Done(n, orders[i].symbol)
    PROVE  IInv'
<1>1. /\ orders \in Seq(Order) /\ pos \in [Symbols -> Position]
      /\ orders[i] \in Order /\ orders[i].symbol \in Symbols
  <2>1. orders \in Seq(Order) /\ pos \in [Symbols -> Position]
    BY DEF IInv, TypeOK
  <2>2. orders[i] \in Order
    BY ONLY <2>1, i \in 1..Len(orders)
  <2> QED BY ONLY <2>1, <2>2 DEF Order
<1>2. /\ orders' \in Seq(Order) /\ Len(orders') = Len(orders)
      /\ orders'[i] = n /\ \A j \in 1..Len(orders) : j # i => orders'[j] = orders[j]
      /\ DOMAIN orders' = 1..Len(orders) /\ DOMAIN orders = 1..Len(orders)
  BY <1>1
<1>3. /\ pos' \in [Symbols -> Position]
      /\ pos'[orders[i].symbol] = p
      /\ \A s \in Symbols : s # orders[i].symbol => pos'[s] = pos[s]
  BY <1>1
<1>4. TypeOK'
  BY <1>2, <1>3 DEF TypeOK
<1>5. Bounded'
  BY <1>2 DEF Bounded, IInv
<1>6. OrdersSound'
  <2> SUFFICES ASSUME NEW j \in 1..Len(orders)
               PROVE  LET o == orders'[j]
                      IN  /\ o.filled <= o.quantity
                          /\ o.status = "FILLED" <=> (o.filled = o.quantity /\ o.status # "CANCELLED")
                          /\ o.status = "SENT" => o.filled = 0
                          /\ o.status = "PARTIAL" => o.filled > 0
    BY <1>2 DEF OrdersSound
  <2>1. CASE j = i
    BY <1>2, <2>1
  <2>2. CASE j # i
    BY <1>2, <2>2 DEF IInv, OrdersSound
  <2> QED BY <2>1, <2>2
<1>7. CostIsBasis'
  <2> SUFFICES ASSUME NEW s \in Symbols
               PROVE  /\ pos'[s].net = 0 => pos'[s].avg = 0
                      /\ pos'[s].cost = pos'[s].avg * Abs(pos'[s].net)
    BY DEF CostIsBasis
  <2>1. CASE s = orders[i].symbol
    BY <1>3, <2>1
  <2>2. CASE s # orders[i].symbol
    BY <1>3, <2>2 DEF IInv, CostIsBasis
  <2> QED BY <2>1, <2>2
<1>8. Ledgers'
  <2> SUFFICES ASSUME NEW s \in Symbols
               PROVE  /\ pos'[s].pending = Total(HeldTable(orders', s), Len(orders'))
                      /\ pos'[s].net = Total(DoneTable(orders', s), Len(orders'))
    BY DEF Ledgers
  <2>1. /\ pos[s].pending = Total(HeldTable(orders, s), Len(orders))
        /\ pos[s].net = Total(DoneTable(orders, s), Len(orders))
    BY LedgersAre DEF IInv, Ledgers
  <2>2. /\ Total(HeldTable(orders', s), Len(orders'))
             = Total(HeldTable(orders, s), Len(orders)) - Held(orders[i], s) + Held(n, s)
        /\ Total(DoneTable(orders', s), Len(orders'))
             = Total(DoneTable(orders, s), Len(orders)) - Done(orders[i], s) + Done(n, s)
    BY ONLY i \in 1..Len(orders), <1>1, <1>2, ChangeOne
  <2>3. CASE s = orders[i].symbol
    BY <1>3, <2>1, <2>2, <2>3
  <2>4. CASE s # orders[i].symbol
    <3>1. Held(orders[i], s) = 0 /\ Held(n, s) = 0 /\ Done(orders[i], s) = 0 /\ Done(n, s) = 0
      BY <2>4 DEF Held, Done
    <3>2. pos[s].pending \in Int /\ pos[s].net \in Int /\ pos'[s] = pos[s]
      BY <1>1, <1>3, <2>4 DEF Position
    <3> QED BY <2>1, <2>2, <3>1, <3>2
  <2> QED BY <2>3, <2>4
<1> QED BY <1>4, <1>5, <1>6, <1>7, <1>8, LedgersAreNext DEF IInv

\* r is position p after a fill of signed shares.
Filled(r, p, signed) ==
    /\ r \in Position
    /\ r.net = p.net + signed
    /\ r.pending = p.pending - signed
    /\ r.net = 0 => r.avg = 0
    /\ r.cost = r.avg * Abs(r.net)

\* What a fill does to the position, and what it leaves well formed.
LEMMA ApplyFillIs ==
    ASSUME NEW p \in Position, NEW signed \in Int, NEW q \in Nat \ {0}, NEW price \in Int,
           signed = q \/ signed = -q
    PROVE  Filled(ApplyFill(Reserve(p, -signed), signed, q, price), p, signed)
<1> DEFINE b == Reserve(p, -signed)
           e == Entry(b, signed, q, price)
           g == Gain(b, signed, q, price)
<1>1. /\ b \in Position /\ b.net = p.net /\ b.pending = p.pending - signed
      /\ b.net \in Int /\ b.avg \in Int /\ b.realized \in Int
  BY DEF Position, Reserve
<1> HIDE DEF b
<1>2. Average(b, q, price) \in Int
  <2>1. Abs(b.net) \in Nat
    BY <1>1, AbsType
  <2> DEFINE a == Abs(b.net)
             x == b.avg * a + price * q + (a + q) \div 2
  <2>2. x \in Int /\ a + q \in Nat /\ a + q > 0
    BY <1>1, <2>1
  <2>3. Average(b, q, price) = x \div (a + q)
    BY DEF Average
  <2> HIDE DEF x, a
  <2> QED BY <2>2, <2>3
<1>3. e \in Int
  BY <1>1, <1>2 DEF Entry
<1>4. g \in Int
  <2>1. Abs(b.net) \in Nat
    BY <1>1, AbsType
  <2> DEFINE c == IF Abs(b.net) < q THEN Abs(b.net) ELSE q
  <2>2. c \in Int
    BY <2>1
  <2>3. g = IF SameDirection(b.net, signed) THEN 0
            ELSE IF b.net > 0 THEN c * (price - b.avg) ELSE c * (b.avg - price)
    BY DEF Gain
  <2> HIDE DEF c, g
  <2> QED BY <1>1, <2>2, <2>3
<1>5. NewNet(b, signed) = 0 => e = 0
  <2>1. NewNet(b, signed) = 0 => ~SameDirection(b.net, signed)
    BY <1>1 DEF NewNet, SameDirection
  <2> QED BY <2>1 DEF Entry
<1>6. NewNet(b, signed) = p.net + signed /\ NewNet(b, signed) \in Int
  BY <1>1 DEF NewNet
<1>7. Abs(NewNet(b, signed)) \in Nat
  BY <1>6, AbsType
<1> HIDE DEF e, g
<1>8. ApplyFill(b, signed, q, price)
        = [b EXCEPT !.net = NewNet(b, signed), !.avg = e, !.realized = @ + g,
                    !.cost = e * Abs(NewNet(b, signed))]
  BY DEF ApplyFill, e, g
<1>9. e * Abs(NewNet(b, signed)) \in Int /\ b.realized + g \in Int
  BY <1>1, <1>3, <1>4, <1>7
<1> DEFINE r == ApplyFill(b, signed, q, price)
<1>10. /\ r \in Position /\ r.net = NewNet(b, signed) /\ r.pending = b.pending
       /\ r.avg = e /\ r.cost = e * Abs(NewNet(b, signed))
  BY <1>1, <1>3, <1>6, <1>8, <1>9 DEF Position
<1> HIDE DEF r
<1>11. /\ r \in Position /\ r.net = p.net + signed /\ r.pending = p.pending - signed
       /\ (r.net = 0 => r.avg = 0) /\ r.cost = r.avg * Abs(r.net)
  BY <1>1, <1>5, <1>6, <1>10
<1>12. Filled(r, p, signed)
  BY ONLY <1>11 DEF Filled
<1> QED BY ONLY <1>12 DEF r, b

LEMMA FillStep ==
    ASSUME NoWrap, IInv, NEW i \in 1..Len(orders), NEW qty \in Qty, NEW price \in FillPrice,
           Fill(i, qty, price)
    PROVE  IInv'
<1> DEFINE o == orders[i]
           q == Applied(o, qty)
           signed == SignedQty(o.side, q)
           n == Execution(o, q, price)
           p == ApplyFill(Reserve(pos[o.symbol], -signed), signed, q, price)
<1>1. Working(i) /\ q # 0 /\ qty \in Nat /\ price \in Int
  BY NumberAssumption DEF Fill
<1>2. /\ o \in Order /\ o.symbol \in Symbols /\ o.status \in {"SENT", "PARTIAL"}
      /\ o.quantity \in Nat /\ o.filled \in Nat /\ o.filled <= o.quantity /\ o.quantity < HalfWord
      /\ Remaining(o) \in Nat /\ pos[o.symbol] \in Position
  BY <1>1, WorkingOrder
<1>3. q \in Nat \ {0} /\ q <= Remaining(o) /\ q < HalfWord /\ q <= o.quantity - o.filled
  BY <1>1, <1>2, NumberAssumption DEF Applied, Remaining
<1>4. orders' = [orders EXCEPT ![i] = n] /\ pos' = [pos EXCEPT ![o.symbol] = p]
  BY DEF Fill
<1> HIDE DEF q
<1>5. signed \in Int /\ signed = IF o.side = "BUY" THEN q ELSE -q
  BY <1>3, SignedQtyIs
<1> HIDE DEF signed
<1>6. /\ p \in Position
      /\ p.net = pos[o.symbol].net + signed
      /\ p.pending = pos[o.symbol].pending - signed
      /\ p.net = 0 => p.avg = 0
      /\ p.cost = p.avg * Abs(p.net)
  <2> DEFINE b == pos[o.symbol]
  <2>1. b \in Position
    BY <1>2
  <2>2. p = ApplyFill(Reserve(b, -signed), signed, q, price)
    OBVIOUS
  <2> HIDE DEF b, o, p
  <2>3. q \in Nat \ {0} /\ price \in Int /\ signed \in Int /\ (signed = q \/ signed = -q)
    BY ONLY <1>1, <1>3, <1>5
  <2>4. Filled(p, b, signed)
    BY ONLY <2>1, <2>2, <2>3, ApplyFillIs
  <2> QED BY ONLY <2>4 DEF b, Filled
<1>7. /\ n \in Order /\ n.symbol = o.symbol /\ n.side = o.side
      /\ n.quantity = o.quantity /\ n.filled = o.filled + q
      /\ n.status = IF o.filled + q >= o.quantity THEN "FILLED" ELSE "PARTIAL"
  <2>1. o.notional \in Int /\ o.fills \in Nat
    BY <1>2 DEF Order
  <2>2. o.notional + q * price \in Int /\ o.fills + 1 \in Nat /\ o.filled + q \in Nat
    <3> DEFINE m == q * price
    <3>1. m \in Int
      BY <1>1, <1>3
    <3>2. o.filled \in Nat /\ q \in Nat
      BY <1>2, <1>3
    <3> HIDE DEF m
    <3>3. o.notional + m \in Int /\ o.fills + 1 \in Nat /\ o.filled + q \in Nat
      BY ONLY <2>1, <3>1, <3>2
    <3> QED BY ONLY <3>3 DEF m
  <2> HIDE DEF o
  <2> QED BY <1>2, <2>2 DEF Order, Execution
<1> HIDE DEF n, p
<1>8. /\ n.filled <= n.quantity /\ n.quantity < HalfWord
      /\ n.status = "FILLED" <=> (n.filled = n.quantity /\ n.status # "CANCELLED")
      /\ (n.status = "SENT" => n.filled = 0) /\ (n.status = "PARTIAL" => n.filled > 0)
  BY <1>2, <1>3, <1>7
<1>9. Held(o, o.symbol) = signed + Held(n, o.symbol) /\ Held(n, o.symbol) \in Int
  <2>1. Held(o, o.symbol) = IF o.side = "BUY" THEN Remaining(o) ELSE -Remaining(o)
    BY <1>2, SignedQtyIs, NumberAssumption DEF Held, Remaining
  <2>2. CASE o.filled + q >= o.quantity
    <3>1. Held(n, o.symbol) = 0 /\ Remaining(o) = q
      BY <1>2, <1>3, <1>7, <2>2 DEF Held, Remaining
    <3> QED BY <1>3, <1>5, <2>1, <3>1
  <2>3. CASE ~(o.filled + q >= o.quantity)
    <3>1. /\ Remaining(n) = Remaining(o) - q /\ Remaining(n) \in Nat /\ Remaining(n) < HalfWord
          /\ n.status = "PARTIAL"
      <4>1. Remaining(n) = o.quantity - (o.filled + q) /\ n.status = "PARTIAL"
        BY <1>7, <2>3 DEF Remaining
      <4>2. HalfWord \in Nat /\ Remaining(o) = o.quantity - o.filled
        BY NumberAssumption DEF Remaining
      <4> HIDE DEF o
      <4> QED BY ONLY <1>2, <1>3, <2>3, <4>1, <4>2
    <3>2. Held(n, o.symbol) = IF o.side = "BUY" THEN Remaining(n) ELSE -Remaining(n)
      BY <1>7, <3>1, SignedQtyIs DEF Held
    <3> QED BY <1>2, <1>3, <1>5, <2>1, <3>1, <3>2
  <2> QED BY <2>2, <2>3
<1>10. Done(n, o.symbol) = Done(o, o.symbol) + signed /\ Done(o, o.symbol) \in Int
  <2>1. Done(o, o.symbol) = IF o.side = "BUY" THEN o.filled ELSE -o.filled
    BY <1>2, SignedQtyIs, NumberAssumption DEF Done
  <2>2. Done(n, o.symbol) = IF o.side = "BUY" THEN o.filled + q ELSE -(o.filled + q)
    <3>1. n.filled \in Nat /\ n.filled < HalfWord
      BY <1>2, <1>3, <1>7, NumberAssumption
    <3> QED BY <1>7, <3>1, SignedQtyIs DEF Done
  <2>3. o.filled \in Nat /\ q \in Nat
    BY <1>2, <1>3
  <2> HIDE DEF o
  <2> QED BY ONLY <1>5, <2>1, <2>2, <2>3
<1>11. pos[o.symbol].pending \in Int /\ pos[o.symbol].net \in Int
  BY <1>2 DEF Position
<1>12. /\ p.pending = pos[o.symbol].pending - Held(o, o.symbol) + Held(n, o.symbol)
       /\ p.net = pos[o.symbol].net - Done(o, o.symbol) + Done(n, o.symbol)
  BY <1>5, <1>6, <1>9, <1>10, <1>11
<1> QED BY <1>4, <1>6, <1>7, <1>8, <1>12, OneOrderStep

LEMMA ReplaceStep ==
    ASSUME NoWrap, IInv, NEW i \in 1..Len(orders), NEW qty \in Qty, NEW price \in Int,
           Replace(i, price, qty)
    PROVE  IInv'
<1> DEFINE o == orders[i]
           n == Replacement(o, price, qty)
           b == pos[o.symbol]
           p == Reserve(b, Shift(o, qty))
<1>1. Working(i) /\ qty \in Nat \ {0} /\ qty < HalfWord /\ qty >= o.filled
  BY NumberAssumption DEF Replace, Replaceable, NoWrap
<1>2. /\ o \in Order /\ o.symbol \in Symbols /\ o.status \in {"SENT", "PARTIAL"}
      /\ o.quantity \in Nat /\ o.filled \in Nat /\ o.filled <= o.quantity /\ o.quantity < HalfWord
      /\ Remaining(o) \in Nat /\ b \in Position
  BY <1>1, WorkingOrder
<1>3. orders' = [orders EXCEPT ![i] = n] /\ pos' = [pos EXCEPT ![o.symbol] = p]
  BY DEF Replace
<1>4. (o.status = "SENT" => o.filled = 0) /\ (o.status = "PARTIAL" => o.filled > 0)
  BY DEF IInv, TypeOK, OrdersSound
<1> HIDE DEF o, b
<1>5. /\ n \in Order /\ n.symbol = o.symbol /\ n.side = o.side
      /\ n.quantity = qty /\ n.filled = o.filled
      /\ n.status = IF o.filled >= qty THEN "FILLED" ELSE IF o.filled > 0 THEN "PARTIAL" ELSE "SENT"
  BY <1>1, <1>2 DEF Order, Replacement
<1> HIDE DEF n
<1>6. /\ n.filled <= n.quantity /\ n.quantity < HalfWord
      /\ n.status = "FILLED" <=> (n.filled = n.quantity /\ n.status # "CANCELLED")
      /\ (n.status = "SENT" => n.filled = 0) /\ (n.status = "PARTIAL" => n.filled > 0)
  BY <1>1, <1>2, <1>5
<1>7. /\ Held(o, o.symbol) = SignedQty(o.side, Remaining(o))
      /\ Held(n, o.symbol) = SignedQty(o.side, qty - o.filled)
  <2>1. Held(o, o.symbol) = SignedQty(o.side, Remaining(o))
    BY <1>2 DEF Held
  <2>2. CASE o.filled >= qty
    <3>1. qty - o.filled = 0 /\ n.status = "FILLED"
      BY <1>1, <1>2, <1>5, <2>2
    <3>2. SignedQty(o.side, 0) = 0
      BY SignedQtyIs, NumberAssumption
    <3> QED BY <2>1, <3>1, <3>2 DEF Held
  <2>3. CASE ~(o.filled >= qty)
    BY <1>5, <2>1, <2>3 DEF Held, Remaining
  <2> QED BY <2>2, <2>3
<1>8. Held(o, o.symbol) \in Int /\ Held(n, o.symbol) \in Int
  BY <1>1, <1>2, <1>7, SignedQtyType
<1>9. Shift(o, qty) = Held(n, o.symbol) - Held(o, o.symbol)
  BY <1>7 DEF Shift
<1>10. /\ b.pending \in Int /\ b.net \in Int
       /\ p \in Position /\ p.net = b.net /\ p.avg = b.avg /\ p.cost = b.cost
       /\ p.pending = b.pending + (Held(n, o.symbol) - Held(o, o.symbol))
  <2> DEFINE d == Held(n, o.symbol) - Held(o, o.symbol)
  <2>1. d \in Int /\ p = Reserve(b, d)
    BY <1>8, <1>9
  <2> HIDE DEF d, p
  <2>2. /\ b.pending \in Int /\ b.net \in Int
        /\ p \in Position /\ p.net = b.net /\ p.avg = b.avg /\ p.cost = b.cost
        /\ p.pending = b.pending + d
    BY ONLY <1>2, <2>1, ReserveIs
  <2> QED BY ONLY <2>2 DEF d
<1> HIDE DEF p
<1>11. (b.net = 0 => b.avg = 0) /\ b.cost = b.avg * Abs(b.net)
  BY <1>2 DEF b, IInv, CostIsBasis
<1>12. Done(n, o.symbol) = Done(o, o.symbol) /\ Done(o, o.symbol) \in Int
  BY <1>2, <1>5, SignedQtyType DEF Done
<1>13. /\ p.pending = b.pending - Held(o, o.symbol) + Held(n, o.symbol)
       /\ p.net = b.net - Done(o, o.symbol) + Done(n, o.symbol)
  BY <1>8, <1>10, <1>12
<1>14. (p.net = 0 => p.avg = 0) /\ p.cost = p.avg * Abs(p.net)
  BY <1>10, <1>11
<1> QED BY <1>3, <1>5, <1>6, <1>10, <1>13, <1>14, OneOrderStep DEF o, b

\* cancel_order for a set of working orders.
LEMMA CancelStep ==
    ASSUME IInv, NEW ids, ids \subseteq WorkingIds, CancelOrders(ids)
    PROVE  IInv'
<1>1. /\ orders \in Seq(Order) /\ pos \in [Symbols -> Position] /\ Len(orders) \in Nat
      /\ DOMAIN orders = 1..Len(orders)
  BY DEF IInv, TypeOK
<1> DEFINE n(j) == IF j \in ids THEN [orders[j] EXCEPT !.status = "CANCELLED"] ELSE orders[j]
<1>2. \A j \in 1..Len(orders) : orders[j] \in Order
  BY <1>1
<1>3. ASSUME NEW j \in 1..Len(orders)
      PROVE  /\ n(j) \in Order /\ n(j).symbol = orders[j].symbol /\ n(j).side = orders[j].side
             /\ n(j).quantity = orders[j].quantity /\ n(j).filled = orders[j].filled
             /\ n(j).status = IF j \in ids THEN "CANCELLED" ELSE orders[j].status
  BY <1>2 DEF Order
<1> HIDE DEF n
<1>4. orders' = [j \in 1..Len(orders) |-> n(j)]
  BY <1>1 DEF CancelOrders, n
<1>5. orders' \in Seq(Order) /\ Len(orders') = Len(orders) /\ DOMAIN orders' = 1..Len(orders)
  BY <1>1, <1>3, <1>4
<1>6. \A j \in 1..Len(orders) : orders'[j] = n(j)
  BY <1>4
<1>7. ASSUME NEW s \in Symbols
      PROVE  /\ Open(s, ids) \in [1..Len(orders) -> Int]
             /\ HeldTable(orders, s) \in [1..Len(orders) -> Int]
             /\ \A j \in 1..Len(orders) :
                   HeldTable(orders', s)[j] = HeldTable(orders, s)[j] - Open(s, ids)[j]
             /\ DoneTable(orders, s) \in [1..Len(orders) -> Int]
             /\ \A j \in 1..Len(orders) : DoneTable(orders', s)[j] = DoneTable(orders, s)[j]
  <2>1. HeldTable(orders, s) \in [1..Len(orders) -> Int] /\ DoneTable(orders, s) \in [1..Len(orders) -> Int]
    BY <1>1, TableType
  <2>2. ASSUME NEW j \in 1..Len(orders)
        PROVE  /\ HeldTable(orders, s)[j] = Held(orders[j], s) /\ HeldTable(orders', s)[j] = Held(n(j), s)
               /\ DoneTable(orders, s)[j] = Done(orders[j], s) /\ DoneTable(orders', s)[j] = Done(n(j), s)
               /\ Held(orders[j], s) \in Int
    BY <1>1, <1>5, <1>6, TableType DEF HeldTable, DoneTable
  <2>3. ASSUME NEW j \in 1..Len(orders)
        PROVE  /\ Open(s, ids)[j] = IF j \in ids THEN Held(orders[j], s) ELSE 0
               /\ Held(n(j), s) = IF j \in ids THEN 0 ELSE Held(orders[j], s)
               /\ Done(n(j), s) = Done(orders[j], s)
    <3>1. j \in ids => orders[j].status \in {"SENT", "PARTIAL"}
      BY DEF WorkingIds, Working
    <3>2. Open(s, ids)[j] = IF j \in ids THEN Held(orders[j], s) ELSE 0
      BY <3>1 DEF Open, Held
    <3>3. Held(n(j), s) = IF j \in ids THEN 0 ELSE Held(orders[j], s)
      BY <1>3 DEF Held, Remaining
    <3>4. Done(n(j), s) = Done(orders[j], s)
      BY <1>3 DEF Done
    <3> QED BY <3>2, <3>3, <3>4
  <2>4. DOMAIN Open(s, ids) = 1..Len(orders) /\ Open(s, ids) = [j \in 1..Len(orders) |-> Open(s, ids)[j]]
    BY DEF Open
  <2>5. Open(s, ids) \in [1..Len(orders) -> Int]
    BY <2>2, <2>3, <2>4
  <2> QED BY <2>1, <2>2, <2>3, <2>5
<1>8. ASSUME NEW s \in Symbols
      PROVE  /\ Total(HeldTable(orders', s), Len(orders))
                  = Total(HeldTable(orders, s), Len(orders)) - Total(Open(s, ids), Len(orders))
             /\ Total(DoneTable(orders', s), Len(orders)) = Total(DoneTable(orders, s), Len(orders))
             /\ Total(Open(s, ids), Len(orders)) \in Int
  BY ONLY <1>1, <1>7, TotalMinus, TotalSame, TotalType, s \in Symbols
<1>9. ASSUME NEW s \in Symbols
      PROVE  /\ pos'[s] \in Position /\ pos'[s].net = pos[s].net
             /\ pos'[s].avg = pos[s].avg /\ pos'[s].cost = pos[s].cost
             /\ pos'[s].pending = pos[s].pending - Total(Open(s, ids), Len(orders))
  <2> DEFINE t == Total(Open(s, ids), Len(orders))
  <2>1. pos'[s] = Reserve(pos[s], -t)
    BY DEF CancelOrders
  <2>2. pos[s] \in Position /\ t \in Int
    BY <1>1, <1>8
  <2> HIDE DEF t
  <2>3. -t \in Int
    BY <2>2
  <2>4. /\ pos'[s] \in Position /\ pos'[s].net = pos[s].net
        /\ pos'[s].avg = pos[s].avg /\ pos'[s].cost = pos[s].cost
        /\ pos'[s].pending = pos[s].pending + (-t) /\ pos[s].pending \in Int
    <3> DEFINE m == -t
               b == pos[s]
               c == pos'[s]
    <3>1. m \in Int /\ b \in Position /\ c = Reserve(b, m)
      BY <2>1, <2>2, <2>3
    <3> HIDE DEF m, b, c
    <3>2. /\ c \in Position /\ c.net = b.net /\ c.avg = b.avg /\ c.cost = b.cost
          /\ c.pending = b.pending + m /\ b.pending \in Int
      BY ONLY <3>1, ReserveIs
    <3> QED BY ONLY <3>2 DEF m, b, c
  <2>5. pos'[s].pending = pos[s].pending - t
    BY <2>2, <2>4
  <2> QED BY <2>4, <2>5 DEF t
<1>10. TypeOK'
  <2>1. pos' = [s \in Symbols |-> pos'[s]]
    BY DEF CancelOrders
  <2> QED BY <1>5, <1>9, <2>1 DEF TypeOK
<1>11. Bounded' /\ OrdersSound'
  <2>1. Bounded'
    BY <1>3, <1>5, <1>6 DEF IInv, Bounded
  <2>2. ASSUME NEW j \in 1..Len(orders)
        PROVE  /\ orders'[j].filled <= orders'[j].quantity
               /\ orders'[j].status = "FILLED"
                     <=> (orders'[j].filled = orders'[j].quantity /\ orders'[j].status # "CANCELLED")
               /\ orders'[j].status = "SENT" => orders'[j].filled = 0
               /\ orders'[j].status = "PARTIAL" => orders'[j].filled > 0
    <3>1. /\ orders[j].filled <= orders[j].quantity
          /\ orders[j].status = "FILLED"
                     <=> (orders[j].filled = orders[j].quantity /\ orders[j].status # "CANCELLED")
          /\ orders[j].status = "SENT" => orders[j].filled = 0
          /\ orders[j].status = "PARTIAL" => orders[j].filled > 0
      BY <1>1 DEF IInv, OrdersSound
    <3> QED BY <1>3, <1>6, <3>1
  <2>3. OrdersSound'
    BY <1>5, <2>2 DEF OrdersSound
  <2> QED BY <2>1, <2>3
<1>12. CostIsBasis'
  BY <1>9 DEF IInv, CostIsBasis
<1>13. Ledgers'
  BY <1>5, <1>8, <1>9, LedgersAre DEF IInv, Ledgers
<1> QED BY <1>10, <1>11, <1>12, <1>13, LedgersAreNext DEF IInv

LEMMA SubmitStep ==
    ASSUME NoWrap, IInv, NEW s \in Symbols, NEW side \in Side, NEW price \in Price,
           NEW qty \in Qty, NEW expire \in Expiry, Submit(s, side, price, qty, expire)
    PROVE  IInv'
<1> DEFINE n == NewOrder(s, side, price, qty, expire)
           signed == SignedQty(side, qty)
           p == Reserve(pos[s], signed)
           k == Len(orders) + 1
<1>1. /\ orders \in Seq(Order) /\ pos \in [Symbols -> Position] /\ Len(orders) \in Nat
      /\ DOMAIN orders = 1..Len(orders) /\ pos[s] \in Position
  BY DEF IInv, TypeOK
<1>2. qty \in Nat \ {0} /\ qty < HalfWord /\ price \in Int /\ expire \in Nat
  BY NumberAssumption DEF Submit, Submittable, NoWrap
<1>3. signed \in Int
  BY <1>2, SignedQtyType
<1>4. orders' = Append(orders, n) /\ pos' = [pos EXCEPT ![s] = p]
  BY DEF Submit
<1>5. /\ n \in Order /\ n.symbol = s /\ n.side = side /\ n.quantity = qty
      /\ n.filled = 0 /\ n.status = "SENT"
  BY <1>2 DEF Order, NewOrder
<1> HIDE DEF n
<1>6. /\ orders' \in Seq(Order) /\ Len(orders') = k /\ DOMAIN orders' = 1..k
      /\ orders'[k] = n /\ \A j \in 1..Len(orders) : orders'[j] = orders[j]
  BY <1>1, <1>4, <1>5
<1>7. \A j \in 1..k : j = k \/ j \in 1..Len(orders)
  BY <1>1
<1> HIDE DEF signed
<1>8. /\ p \in Position /\ p.net = pos[s].net /\ p.avg = pos[s].avg /\ p.cost = pos[s].cost
      /\ p.pending = pos[s].pending + signed
  BY <1>1, <1>3, ReserveIs
<1> HIDE DEF p
<1>9. pos' \in [Symbols -> Position] /\ pos'[s] = p /\ \A r \in Symbols \ {s} : pos'[r] = pos[r]
  BY <1>1, <1>4, <1>8
<1>10. TypeOK'
  BY <1>6, <1>9 DEF TypeOK
<1>11. Bounded'
  BY <1>2, <1>5, <1>6, <1>7 DEF IInv, Bounded
<1>12. OrdersSound'
  <2> SUFFICES ASSUME NEW j \in 1..k
               PROVE  LET o == orders'[j]
                      IN  /\ o.filled <= o.quantity
                          /\ o.status = "FILLED" <=> (o.filled = o.quantity /\ o.status # "CANCELLED")
                          /\ o.status = "SENT" => o.filled = 0
                          /\ o.status = "PARTIAL" => o.filled > 0
    BY <1>6 DEF OrdersSound
  <2>1. CASE j = k
    BY <1>2, <1>5, <1>6, <2>1
  <2>2. CASE j \in 1..Len(orders)
    BY <1>1, <1>6, <2>2 DEF IInv, OrdersSound
  <2> QED BY <1>7, <2>1, <2>2
<1>13. CostIsBasis'
  <2> SUFFICES ASSUME NEW r \in Symbols
               PROVE  /\ pos'[r].net = 0 => pos'[r].avg = 0
                      /\ pos'[r].cost = pos'[r].avg * Abs(pos'[r].net)
    BY DEF CostIsBasis
  <2>1. pos'[r].net = pos[r].net /\ pos'[r].avg = pos[r].avg /\ pos'[r].cost = pos[r].cost
    BY <1>8, <1>9
  <2> QED BY <2>1 DEF IInv, CostIsBasis
<1>14. ASSUME NEW r \in Symbols
       PROVE  /\ Total(HeldTable(orders', r), k) = Total(HeldTable(orders, r), Len(orders)) + Held(n, r)
              /\ Total(DoneTable(orders', r), k) = Total(DoneTable(orders, r), Len(orders)) + Done(n, r)
  <2>1. /\ HeldTable(orders, r) \in [1..Len(orders) -> Int]
        /\ DoneTable(orders, r) \in [1..Len(orders) -> Int]
        /\ HeldTable(orders', r) \in [1..k -> Int]
        /\ DoneTable(orders', r) \in [1..k -> Int]
    BY <1>1, <1>6, TableType
  <2>2. /\ \A j \in 1..Len(orders) : /\ HeldTable(orders', r)[j] = HeldTable(orders, r)[j]
                                      /\ DoneTable(orders', r)[j] = DoneTable(orders, r)[j]
        /\ HeldTable(orders', r)[k] = Held(n, r) /\ DoneTable(orders', r)[k] = Done(n, r)
    BY <1>1, <1>6 DEF HeldTable, DoneTable
  <2> QED BY ONLY <1>1, <2>1, <2>2, TotalAppend
<1>15. /\ \A r \in Symbols : Held(n, r) = IF r = s THEN signed ELSE 0
       /\ \A r \in Symbols : Done(n, r) = 0
  <2>1. SignedQty(side, 0) = 0
    BY SignedQtyIs, NumberAssumption
  <2>2. Remaining(n) = qty
    BY <1>2, <1>5 DEF Remaining
  <2> QED BY <1>5, <2>1, <2>2 DEF Held, Done, signed
<1>16. Ledgers'
  <2> SUFFICES ASSUME NEW r \in Symbols
               PROVE  /\ pos'[r].pending = Total(HeldTable(orders', r), k)
                      /\ pos'[r].net = Total(DoneTable(orders', r), k)
    BY <1>6 DEF Ledgers
  <2>1. /\ pos[r].pending = Total(HeldTable(orders, r), Len(orders))
        /\ pos[r].net = Total(DoneTable(orders, r), Len(orders))
        /\ pos[r].pending \in Int /\ pos[r].net \in Int
    <3>1. pos[r] \in Position
      BY <1>1
    <3> QED BY <3>1, LedgersAre DEF IInv, Ledgers, Position
  <2>2. pos'[r].pending = pos[r].pending + Held(n, r) /\ pos'[r].net = pos[r].net
    <3>1. CASE r = s
      BY ONLY <1>8, <1>9, <1>15, <3>1, r \in Symbols
    <3>2. CASE r # s
      <4>1. pos'[r] = pos[r] /\ Held(n, r) = 0
        BY ONLY <1>9, <1>15, <3>2, r \in Symbols
      <4> QED BY ONLY <2>1, <4>1
    <3> QED BY <3>1, <3>2
  <2>3. /\ Total(HeldTable(orders', r), k) = pos[r].pending + Held(n, r)
        /\ Total(DoneTable(orders', r), k) = pos[r].net + Done(n, r) /\ Done(n, r) = 0
    BY <1>14, <1>15, <2>1
  <2> HIDE DEF n, k
  <2> QED BY ONLY <2>1, <2>2, <2>3
<1> QED BY <1>10, <1>11, <1>12, <1>13, <1>16, LedgersAreNext DEF IInv

------------------------------------------------------------------------------
\* The operations that change something; the others leave everything as it is.
LEMMA Cases ==
    ASSUME TypeOK, Next
    PROVE  \/ \E s \in Symbols, side \in Side, price \in Price, qty \in Qty, expire \in Expiry :
                Submit(s, side, price, qty, expire)
           \/ \E i \in 1..Len(orders), qty \in Qty, price \in FillPrice : Fill(i, qty, price)
           \/ \E i \in 1..Len(orders), qty \in Qty, price \in Int : Replace(i, price, qty)
           \/ \E ids \in SUBSET WorkingIds : CancelOrders(ids)
           \/ UNCHANGED vars
<1>1. DOMAIN orders = 1..Len(orders) /\ \A i \in 1..Len(orders) : orders[i].price \in Int
  <2>1. orders \in Seq(Order)
    BY DEF TypeOK
  <2>2. \A i \in 1..Len(orders) : orders[i] \in Order
    BY <2>1
  <2>3. \A o \in Order : o.price \in Int
    BY DEF Order
  <2>4. DOMAIN orders = 1..Len(orders)
    BY <2>1
  <2> QED BY ONLY <2>2, <2>3, <2>4
<1>2. Price \subseteq Int
  BY NumberAssumption
<1>3. CASE \E s \in Symbols, side \in Side, price \in Price, qty \in Qty :
              \/ SubmitReject(s, side, price, qty)
              \/ \E expire \in Expiry : Submit(s, side, price, qty, expire)
  BY <1>3 DEF SubmitReject
<1>4. CASE \E i \in DOMAIN orders : \E qty \in Qty : FillIgnored(i, qty) \/ AmendQuantity(i, qty)
  BY <1>1, <1>4 DEF FillIgnored, AmendQuantity
<1>5. CASE \E i \in DOMAIN orders : \E qty \in Qty, price \in FillPrice : Fill(i, qty, price)
  BY <1>1, <1>5
<1>6. CASE \E i \in DOMAIN orders : \E qty \in Qty, price \in Price :
              Replace(i, price, qty) \/ ReplaceIgnored(i, price, qty)
  BY <1>1, <1>2, <1>6 DEF ReplaceIgnored
<1>7. CASE \E i \in DOMAIN orders : Cancel(i) \/ CancelIgnored(i)
  <2>1. PICK i \in DOMAIN orders : Cancel(i) \/ CancelIgnored(i)
    BY <1>7
  <2>2. CASE Cancel(i)
    <3>1. {i} \in SUBSET WorkingIds
      BY <2>2 DEF Cancel, WorkingIds
    <3> QED BY <2>2, <3>1 DEF Cancel
  <2> QED BY <2>1, <2>2 DEF CancelIgnored
<1>8. CASE CancelAll
  BY <1>8 DEF CancelAll
<1>9. CASE \E s \in Symbols : CancelAllSymbol(s)
  BY <1>9 DEF CancelAllSymbol
<1>10. CASE \E now \in Expiry : PurgeExpired(now)
  BY <1>10 DEF PurgeExpired
<1> QED BY <1>3, <1>4, <1>5, <1>6, <1>7, <1>8, <1>9, <1>10 DEF Next

LEMMA InitIInv == Init => IInv
<1> SUFFICES ASSUME Init PROVE IInv
  OBVIOUS
<1>1. orders = <<>> /\ Len(orders) = 0 /\ DOMAIN orders = {} /\ 1..Len(orders) = {}
  BY DEF Init
<1>2. TypeOK
  BY <1>1 DEF Init, TypeOK, Flat, Position
<1>3. Bounded /\ OrdersSound
  BY <1>1 DEF Bounded, OrdersSound
<1>4. CostIsBasis
  BY DEF Init, CostIsBasis, Flat, Abs
<1>5. Ledgers
  BY <1>1, TotalEmpty DEF Init, Ledgers, Flat
<1> QED BY <1>2, <1>3, <1>4, <1>5, LedgersAre DEF IInv

LEMMA NextIInv == ASSUME NoWrap PROVE IInv /\ [Next]_vars => IInv'
<1> SUFFICES ASSUME IInv, [Next]_vars PROVE IInv'
  OBVIOUS
<1>1. CASE UNCHANGED vars
  <2>1. /\ TypeOK' <=> TypeOK
        /\ Bounded' <=> Bounded
        /\ OrdersSound' <=> OrdersSound
        /\ CostIsBasis' <=> CostIsBasis
        /\ Ledgers' <=> Ledgers
    BY <1>1 DEF vars, TypeOK, Bounded, OrdersSound, CostIsBasis, Ledgers
  <2> QED BY <2>1, LedgersAre, LedgersAreNext DEF IInv
<1>2. TypeOK
  BY DEF IInv
<1>3. CASE Next
  BY <1>1, <1>2, <1>3, Cases, SubmitStep, FillStep, ReplaceStep, CancelStep
<1> QED BY <1>1, <1>3

\* The strengthened invariant: the two ledgers rest on the orders being sound.
THEOREM Invariance == ASSUME NoWrap PROVE Spec => []IInv
<1>1. IInv /\ [Next]_vars => IInv'
  BY NextIInv
<1> QED BY <1>1, InitIInv, PTL DEF Spec

(***************************************************************************)
(* pending_qty is exactly what the working orders have open, for any       *)
(* number of orders and symbols.                                           *)
(***************************************************************************)
THEOREM PendingExact == ASSUME NoWrap PROVE Spec => []PendingIsOpen
<1>1. IInv => PendingIsOpen
  BY DEF IInv
<1> QED BY <1>1, Invariance, PTL

\* net_qty is exactly what the orders were filled for.
THEOREM NetExact == ASSUME NoWrap PROVE Spec => []NetIsExecuted
<1>1. IInv => NetIsExecuted
  BY DEF IInv
<1> QED BY <1>1, Invariance, PTL

\* No order is filled beyond its quantity, and its status says how far it is.
THEOREM OrdersStaySound == ASSUME NoWrap PROVE Spec => []OrdersSound
<1>1. IInv => OrdersSound
  BY DEF IInv
<1> QED BY <1>1, Invariance, PTL

\* The order table and the positions keep their types.
THEOREM TypeCorrect == ASSUME NoWrap PROVE Spec => []TypeOK
<1>1. IInv => TypeOK
  BY DEF IInv
<1> QED BY <1>1, Invariance, PTL

\* total_cost is the basis of the position at its average price.
THEOREM CostExact == ASSUME NoWrap PROVE Spec => []CostIsBasis
<1>1. IInv => CostIsBasis
  BY DEF IInv
<1> QED BY <1>1, Invariance, PTL

------------------------------------------------------------------------------
(***************************************************************************)
(* Profit.  Cash, Fills and Shares as totals over the orders.              *)
(***************************************************************************)
\* What an order has brought in for s.
Paid(o, s) == IF o.symbol # s THEN 0 ELSE IF o.side = "BUY" THEN -o.notional ELSE o.notional

PaidTable(os, s) == [i \in 1..Len(os) |-> Paid(os[i], s)]
FillTable(os) == [i \in 1..Len(os) |-> os[i].fills]
ShareTable(os) == [i \in 1..Len(os) |-> os[i].filled]

LEMMA MoneyIs ==
    /\ \A s : Cash(s) = Total(PaidTable(orders, s), Len(orders))
    /\ Fills = Total(FillTable(orders), Len(orders))
    /\ Shares = Total(ShareTable(orders), Len(orders))
BY DEF Cash, Fills, Shares, PaidTable, Paid, FillTable, ShareTable

LEMMA MoneyIsNext ==
    /\ \A s : Cash(s)' = Total(PaidTable(orders', s), Len(orders'))
    /\ Fills' = Total(FillTable(orders'), Len(orders'))
    /\ Shares' = Total(ShareTable(orders'), Len(orders'))
BY DEF Cash, Fills, Shares, PaidTable, Paid, FillTable, ShareTable

LEMMA MoneyTables ==
    ASSUME NEW os \in Seq(Order), NEW s
    PROVE  /\ Len(os) \in Nat
           /\ PaidTable(os, s) \in [1..Len(os) -> Int]
           /\ FillTable(os) \in [1..Len(os) -> Nat]
           /\ ShareTable(os) \in [1..Len(os) -> Nat]
<1>1. ASSUME NEW i \in 1..Len(os)
      PROVE  Paid(os[i], s) \in Int /\ os[i].fills \in Nat /\ os[i].filled \in Nat
  <2>1. os[i] \in Order
    OBVIOUS
  <2>2. os[i].notional \in Int /\ os[i].fills \in Nat /\ os[i].filled \in Nat
    BY <2>1 DEF Order
  <2> QED BY <2>2 DEF Paid
<1> QED BY <1>1 DEF PaidTable, FillTable, ShareTable

LEMMA MoneyType ==
    ASSUME NEW os \in Seq(Order), NEW s
    PROVE  /\ Total(PaidTable(os, s), Len(os)) \in Int
           /\ Total(FillTable(os), Len(os)) \in Nat
           /\ Total(ShareTable(os), Len(os)) \in Nat
BY MoneyTables, TotalType, TotalNat

\* A step that changes order k changes the totals by as much.
LEMMA MoneyChange ==
    ASSUME NEW os \in Seq(Order), NEW ot \in Seq(Order), Len(ot) = Len(os), NEW s,
           NEW k \in 1..Len(os), \A i \in 1..Len(os) : i # k => ot[i] = os[i]
    PROVE  /\ Total(PaidTable(ot, s), Len(ot))
                = Total(PaidTable(os, s), Len(os)) - Paid(os[k], s) + Paid(ot[k], s)
           /\ Total(FillTable(ot), Len(ot))
                = Total(FillTable(os), Len(os)) - os[k].fills + ot[k].fills
           /\ Total(ShareTable(ot), Len(ot))
                = Total(ShareTable(os), Len(os)) - os[k].filled + ot[k].filled
<1>1. /\ Len(os) \in Nat
      /\ PaidTable(os, s) \in [1..Len(os) -> Int] /\ PaidTable(ot, s) \in [1..Len(os) -> Int]
      /\ FillTable(os) \in [1..Len(os) -> Nat] /\ FillTable(ot) \in [1..Len(os) -> Nat]
      /\ ShareTable(os) \in [1..Len(os) -> Nat] /\ ShareTable(ot) \in [1..Len(os) -> Nat]
  BY MoneyTables
<1>2. /\ FillTable(os) \in [1..Len(os) -> Int] /\ FillTable(ot) \in [1..Len(os) -> Int]
      /\ ShareTable(os) \in [1..Len(os) -> Int] /\ ShareTable(ot) \in [1..Len(os) -> Int]
  BY ONLY <1>1
<1>3. \A i \in 1..Len(os) :
         /\ PaidTable(os, s)[i] = Paid(os[i], s) /\ PaidTable(ot, s)[i] = Paid(ot[i], s)
         /\ FillTable(os)[i] = os[i].fills /\ FillTable(ot)[i] = ot[i].fills
         /\ ShareTable(os)[i] = os[i].filled /\ ShareTable(ot)[i] = ot[i].filled
  BY DEF PaidTable, FillTable, ShareTable
<1>4. \A i \in 1..Len(os) : i # k => /\ PaidTable(ot, s)[i] = PaidTable(os, s)[i]
                                     /\ FillTable(ot)[i] = FillTable(os)[i]
                                     /\ ShareTable(ot)[i] = ShareTable(os)[i]
  BY <1>3
<1>5. Total(PaidTable(ot, s), Len(os))
         = Total(PaidTable(os, s), Len(os)) - PaidTable(os, s)[k] + PaidTable(ot, s)[k]
  BY ONLY k \in 1..Len(os), <1>1, <1>4, TotalUpdate
<1>6. Total(FillTable(ot), Len(os))
         = Total(FillTable(os), Len(os)) - FillTable(os)[k] + FillTable(ot)[k]
  BY ONLY k \in 1..Len(os), <1>1, <1>2, <1>4, TotalUpdate
<1>7. Total(ShareTable(ot), Len(os))
         = Total(ShareTable(os), Len(os)) - ShareTable(os)[k] + ShareTable(ot)[k]
  BY ONLY k \in 1..Len(os), <1>1, <1>2, <1>4, TotalUpdate
<1> QED BY <1>3, <1>5, <1>6, <1>7

\* No position is larger than what was ever executed.
NetWithin == \A s \in Symbols : Abs(pos[s].net) <= Shares

LEMMA NetWithinShares == IInv => NetWithin
<1> SUFFICES ASSUME IInv, NEW s \in Symbols PROVE Abs(pos[s].net) <= Shares
  BY DEF NetWithin
<1>1. orders \in Seq(Order) /\ pos[s] \in Position /\ DOMAIN orders = 1..Len(orders)
  BY DEF IInv, TypeOK
<1>2. /\ Len(orders) \in Nat /\ DoneTable(orders, s) \in [1..Len(orders) -> Int]
      /\ ShareTable(orders) \in [1..Len(orders) -> Nat]
  BY <1>1, TableType, MoneyTables
<1>3. ASSUME NEW i \in 1..Len(orders)
      PROVE  /\ -ShareTable(orders)[i] <= DoneTable(orders, s)[i]
             /\ DoneTable(orders, s)[i] <= ShareTable(orders)[i]
  <2>0. orders[i] \in Order
    BY <1>1
  <2>1. orders[i].filled \in Nat /\ orders[i].quantity \in Nat
    BY <2>0 DEF Order
  <2>2. orders[i].filled < HalfWord
    BY <1>1, <2>1, NumberAssumption DEF IInv, OrdersSound, Bounded
  <2>3. Done(orders[i], s) \in {0, orders[i].filled, -orders[i].filled}
    BY <2>1, <2>2, SignedQtyIs DEF Done
  <2> QED BY <2>1, <2>3 DEF DoneTable, ShareTable
<1>4. /\ -Total(ShareTable(orders), Len(orders)) <= Total(DoneTable(orders, s), Len(orders))
      /\ Total(DoneTable(orders, s), Len(orders)) <= Total(ShareTable(orders), Len(orders))
  BY ONLY <1>2, <1>3, TotalWithin
<1>5. pos[s].net = Total(DoneTable(orders, s), Len(orders)) /\ pos[s].net \in Int
  BY <1>1, LedgersAre DEF IInv, Ledgers, Position
<1>6. Shares = Total(ShareTable(orders), Len(orders)) /\ Shares \in Nat
  BY <1>1, MoneyIs, MoneyType
<1> QED BY <1>4, <1>5, <1>6 DEF Abs

LEMMA NetWithinSharesNext == IInv' => NetWithin'
BY NetWithinShares, PTL

\* The rounded average is within half a tick per share.
LEMMA RoundedAverage ==
    ASSUME NEW x \in Int, NEW n \in Nat \ {0}
    PROVE  LET a == (x + n \div 2) \div n
           IN  a \in Int /\ -n <= 2 * (x - n * a) /\ 2 * (x - n * a) <= n
<1> DEFINE h == n \div 2
           y == x + h
           a == y \div n
<1>1. h \in Nat /\ n - 1 <= 2 * h /\ 2 * h <= n
  OBVIOUS
<1>2. y \in Int /\ y = x + h
  BY <1>1
<1> HIDE DEF h, y
<1>3. a \in Int /\ y = n * a + (y % n) /\ y % n \in 0..(n - 1)
  BY <1>2, DivDef
<1> HIDE DEF a
<1> DEFINE m == n * a
           r == y % n
<1>4. m \in Int /\ r \in Int /\ y = m + r /\ 0 <= r /\ r <= n - 1
  BY <1>3
<1> HIDE DEF m, r
<1>5. -n <= 2 * (x - m) /\ 2 * (x - m) <= n
  BY <1>1, <1>2, <1>4
<1>6. a \in Int /\ -n <= 2 * (x - n * a) /\ 2 * (x - n * a) <= n
  BY <1>3, <1>5 DEF m
<1> QED BY <1>6 DEF a, y, h

\* The algebra of a fill that adds to a long or a short position, that closes s
\* of it, and that flips it.
LEMMA FillAlgebra ==
    ASSUME NEW z \in Int, NEW k \in Int, NEW q \in Int, NEW s \in Int, NEW price \in Int,
           NEW avg \in Int, NEW a \in Int
    PROVE  /\ (z + q * price - (k + q) * a) - (z - k * avg) = avg * k + price * q - (k + q) * a
           /\ (z + (-q) * price - ((-k) + (-q)) * a) - (z - (-k) * avg)
                 = -(avg * k + price * q - (k + q) * a)
           /\ (z + (-s) * (price - avg) + s * price - (k + s) * avg) - (z - k * avg) = 0
           /\ (z + k * (price - avg) + s * price - (k + s) * price) - (z - k * avg) = 0
           /\ (z + (-s) * (price - avg) + s * price - 0 * 0) - (z - (-s) * avg) = 0
           /\ q * (avg - price) = (-q) * (price - avg)
  OBVIOUS

\* What a fill changes in realized - cash - net * avg, with cash down by signed * price.
Drift(r, p, signed, price) ==
    (r.realized + signed * price - r.net * r.avg) - (p.realized - p.net * p.avg)

\* A fill that adds to the position rounds its average.
LEMMA DriftAdding ==
    ASSUME NEW p \in Position, NEW signed \in Int, NEW q \in Nat \ {0}, NEW price \in Int,
           signed = q \/ signed = -q, SameDirection(p.net, signed)
    PROVE  /\ Drift(ApplyFill(p, signed, q, price), p, signed, price) \in Int
           /\ 2 * Abs(Drift(ApplyFill(p, signed, q, price), p, signed, price))
                 <= Abs(p.net + signed)
<1> DEFINE r == ApplyFill(p, signed, q, price)
           k == Abs(p.net)
           n == k + q
           x == p.avg * k + price * q
           a == Average(p, q, price)
<1>1. p.net \in Int /\ p.avg \in Int /\ p.realized \in Int
  BY DEF Position
<1>2. k \in Nat /\ n \in Nat \ {0}
  BY <1>1, AbsType
<1>3. x \in Int
  BY <1>1, <1>2
<1>4. a = (x + n \div 2) \div n
  BY DEF Average
<1>5. a \in Int /\ -n <= 2 * (x - n * a) /\ 2 * (x - n * a) <= n
  <2> HIDE DEF x, n, a
  <2> QED BY ONLY <1>2, <1>3, <1>4, RoundedAverage
<1>6. r.realized = p.realized + 0 /\ r.net = p.net + signed /\ r.avg = a
  BY DEF ApplyFill, NewNet, Entry, Gain, Position
<1> DEFINE d == Drift(r, p, signed, price)
<1>7. d = (p.realized + signed * price - (p.net + signed) * a) - (p.realized - p.net * p.avg)
  BY <1>1, <1>6 DEF Drift
<1> HIDE DEF d, r, a
<1> DEFINE w == x - n * a
<1>8. w \in Int /\ -n <= 2 * w /\ 2 * w <= n
  BY <1>2, <1>3, <1>5
<1>9. CASE signed = q
  <2>1. p.net >= 0 /\ k = p.net /\ Abs(p.net + signed) = n
    BY <1>1, <1>9 DEF SameDirection, Abs
  <2>2. d = w
    <3>1. d = (p.realized + q * price - (k + q) * a) - (p.realized - k * p.avg)
      BY <1>7, <1>9, <2>1
    <3> HIDE DEF k
    <3> QED BY ONLY <1>1, <1>2, <1>5, <3>1, q \in Int, price \in Int, FillAlgebra
  <2> HIDE DEF w, n
  <2> QED BY <1>2, <1>8, <2>1, <2>2 DEF Abs, d, r
<1>10. CASE signed = -q
  <2>1. p.net <= 0 /\ p.net = -k /\ Abs(p.net + signed) = n
    BY <1>1, <1>10 DEF SameDirection, Abs
  <2>2. d = -w
    <3>1. d = (p.realized + (-q) * price - ((-k) + (-q)) * a) - (p.realized - (-k) * p.avg)
      BY <1>7, <1>10, <2>1
    <3> HIDE DEF k
    <3> QED BY ONLY <1>1, <1>2, <1>5, <3>1, q \in Int, price \in Int, FillAlgebra
  <2> HIDE DEF w, n
  <2> QED BY <1>2, <1>8, <2>1, <2>2 DEF Abs, d, r
<1> QED BY <1>9, <1>10

\* A fill against the position realizes exactly what it closes.
LEMMA DriftClosing ==
    ASSUME NEW p \in Position, NEW signed \in Int, NEW q \in Nat \ {0}, NEW price \in Int,
           signed = q \/ signed = -q, ~SameDirection(p.net, signed)
    PROVE  Drift(ApplyFill(p, signed, q, price), p, signed, price) = 0
<1> DEFINE r == ApplyFill(p, signed, q, price)
           c == IF Abs(p.net) < q THEN Abs(p.net) ELSE q
           g == IF p.net > 0 THEN c * (price - p.avg) ELSE c * (p.avg - price)
           e == IF p.net + signed = 0 THEN 0
                ELSE IF p.net > 0 <=> p.net + signed > 0 THEN p.avg ELSE price
<1>1. p.net \in Int /\ p.avg \in Int /\ p.realized \in Int
  BY DEF Position
<1>2. r.realized = p.realized + g /\ r.net = p.net + signed /\ r.avg = e
  BY DEF ApplyFill, NewNet, Entry, Gain, Position
<1> DEFINE d == Drift(r, p, signed, price)
<1>3. d = (p.realized + g + signed * price - (p.net + signed) * e) - (p.realized - p.net * p.avg)
  BY <1>2 DEF Drift
<1> HIDE DEF d, r
<1>4. p.net # 0 /\ IF p.net > 0 THEN signed = -q ELSE signed = q
  BY <1>1 DEF SameDirection
<1>5. CASE p.net + signed = 0
  <2>1. e = 0 /\ c = q /\ p.net = -signed
    BY <1>1, <1>4, <1>5 DEF Abs
  <2>2. g = (-signed) * (price - p.avg)
    <3>1. g = IF p.net > 0 THEN q * (price - p.avg) ELSE q * (p.avg - price)
      BY <2>1
    <3> HIDE DEF g, e
    <3>2. CASE p.net > 0
      <4>1. q = -signed
        BY <1>4, <3>2
      <4> QED BY ONLY <3>1, <3>2, <4>1
    <3>3. CASE ~(p.net > 0)
      <4>1. q * (p.avg - price) = (-q) * (price - p.avg)
        BY ONLY <1>1, q \in Int, price \in Int, FillAlgebra
      <4> QED BY ONLY <1>4, <3>1, <3>3, <4>1
    <3> QED BY <3>2, <3>3
  <2> HIDE DEF g, e
  <2>3. d = (p.realized + (-signed) * (price - p.avg) + signed * price - 0 * 0)
              - (p.realized - (-signed) * p.avg)
    BY <1>3, <1>5, <2>1, <2>2
  <2>4. d = 0
    BY ONLY <1>1, <2>3, signed \in Int, price \in Int, FillAlgebra
  <2> QED BY <2>4 DEF d, r
<1>6. CASE p.net + signed # 0 /\ (p.net > 0 <=> p.net + signed > 0)
  <2>1. e = p.avg /\ c = q
    BY <1>1, <1>4, <1>6 DEF Abs
  <2>2. g = (-signed) * (price - p.avg)
    <3>1. g = IF p.net > 0 THEN q * (price - p.avg) ELSE q * (p.avg - price)
      BY <2>1
    <3> HIDE DEF g, e
    <3>2. CASE p.net > 0
      <4>1. q = -signed
        BY <1>4, <3>2
      <4> QED BY ONLY <3>1, <3>2, <4>1
    <3>3. CASE ~(p.net > 0)
      <4>1. q * (p.avg - price) = (-q) * (price - p.avg)
        BY ONLY <1>1, q \in Int, price \in Int, FillAlgebra
      <4> QED BY ONLY <1>4, <3>1, <3>3, <4>1
    <3> QED BY <3>2, <3>3
  <2> HIDE DEF g, e
  <2>3. d = (p.realized + (-signed) * (price - p.avg) + signed * price - (p.net + signed) * p.avg)
              - (p.realized - p.net * p.avg)
    BY <1>3, <2>1, <2>2
  <2>4. d = 0
    BY ONLY <1>1, <2>3, signed \in Int, price \in Int, FillAlgebra
  <2> QED BY <2>4 DEF d, r
<1>7. CASE p.net + signed # 0 /\ ~(p.net > 0 <=> p.net + signed > 0)
  <2>1. e = price /\ c = IF p.net > 0 THEN p.net ELSE -p.net
    BY <1>1, <1>4, <1>7 DEF Abs
  <2>2. g = p.net * (price - p.avg)
    <3>1. g = IF p.net > 0 THEN p.net * (price - p.avg) ELSE (-p.net) * (p.avg - price)
      BY <2>1
    <3>2. -(-p.net) = p.net /\ -p.net \in Int
      BY <1>1
    <3> HIDE DEF g, e
    <3> QED BY <1>1, <3>1, <3>2, FillAlgebra
  <2> HIDE DEF g, e
  <2>3. d = (p.realized + p.net * (price - p.avg) + signed * price - (p.net + signed) * price)
              - (p.realized - p.net * p.avg)
    BY <1>3, <2>1, <2>2
  <2>4. d = 0
    BY ONLY <1>1, <2>3, signed \in Int, price \in Int, FillAlgebra
  <2> QED BY <2>4 DEF d, r
<1> QED BY <1>5, <1>6, <1>7

\* realized - cash - net * avg of s: what the rounding of the averages has cost.
Slack(s) == pos[s].realized - Cash(s) - pos[s].net * pos[s].avg

MoneyTyped == /\ Fills \in Nat /\ Shares \in Nat
              /\ \A s \in Symbols : Cash(s) \in Int /\ Slack(s) \in Int

LEMMA MoneyTypes == TypeOK => MoneyTyped
<1> SUFFICES ASSUME TypeOK PROVE MoneyTyped
  OBVIOUS
<1>1. orders \in Seq(Order) /\ pos \in [Symbols -> Position]
  BY DEF TypeOK
<1>2. Fills \in Nat /\ Shares \in Nat /\ \A s : Cash(s) \in Int
  BY <1>1, MoneyIs, MoneyType
<1>3. ASSUME NEW s \in Symbols PROVE Slack(s) \in Int
  <2>1. pos[s] \in Position
    BY <1>1
  <2>2. pos[s].realized \in Int /\ pos[s].net \in Int /\ pos[s].avg \in Int
    BY <2>1 DEF Position
  <2>3. pos[s].net * pos[s].avg \in Int
    BY <2>2
  <2> QED BY <1>2, <2>2, <2>3 DEF Slack
<1> QED BY <1>2, <1>3 DEF MoneyTyped

LEMMA MoneyTypesNext == TypeOK' => MoneyTyped'
BY MoneyTypes, PTL

\* A step that moves no money and no shares keeps the account.
LEMMA NoMoneyStep ==
    ASSUME ProfitConserved, Fills' = Fills, Shares' = Shares,
           \A s \in Symbols : /\ Cash(s)' = Cash(s) /\ pos'[s].realized = pos[s].realized
                              /\ pos'[s].net = pos[s].net /\ pos'[s].avg = pos[s].avg
    PROVE  ProfitConserved'
BY DEF ProfitConserved

LEMMA FillMoney ==
    ASSUME NoWrap, IInv, ProfitConserved, NEW i \in 1..Len(orders), NEW qty \in Qty,
           NEW price \in FillPrice, Fill(i, qty, price)
    PROVE  ProfitConserved'
<1>0. Working(i) /\ qty \in Nat /\ price \in Int
  BY NumberAssumption DEF Fill
<1>1. /\ orders[i] \in Order /\ orders[i].symbol \in Symbols
      /\ orders[i].quantity \in Nat /\ orders[i].filled \in Nat
      /\ orders[i].quantity < HalfWord /\ Remaining(orders[i]) \in Nat
      /\ pos[orders[i].symbol] \in Position
  BY <1>0, WorkingOrder
<1>2. PICK o \in Order : o = orders[i]
  BY <1>1
<1>3. PICK t \in Symbols : t = o.symbol
  BY <1>1, <1>2
<1>4. PICK b \in Position : b = pos[t]
  BY <1>1, <1>2, <1>3
<1> DEFINE q == Applied(o, qty)
           signed == SignedQty(o.side, q)
           n == Execution(o, q, price)
           c == Reserve(b, -signed)
           r == ApplyFill(c, signed, q, price)
<1>5. q \in Nat \ {0} /\ q < HalfWord
  <2>1. q # 0
    BY <1>2 DEF Fill
  <2> QED BY <1>0, <1>1, <1>2, <2>1, NumberAssumption DEF Applied, Remaining
<1>6. /\ orders' = [orders EXCEPT ![i] = n] /\ pos' = [pos EXCEPT ![t] = r]
      /\ orders \in Seq(Order) /\ pos \in [Symbols -> Position]
  BY <1>2, <1>3, <1>4 DEF Fill, IInv, TypeOK
<1>7. IInv' /\ TypeOK /\ TypeOK' /\ orders' \in Seq(Order) /\ pos' \in [Symbols -> Position]
  BY FillStep DEF IInv, TypeOK
<1>8. /\ Len(orders') = Len(orders) /\ orders'[i] = n
      /\ \A j \in 1..Len(orders) : j # i => orders'[j] = orders[j]
  BY <1>6
<1> HIDE DEF q
<1>9. signed \in Int /\ -signed \in Int /\ signed = IF o.side = "BUY" THEN q ELSE -q
  BY <1>5, SignedQtyIs
<1> HIDE DEF signed
<1>10. /\ n.symbol = t /\ n.side = o.side /\ n.fills = o.fills + 1
       /\ n.filled = o.filled + q /\ n.notional = o.notional + q * price
       /\ o.notional \in Int /\ o.fills \in Nat /\ o.filled \in Nat
  BY <1>3 DEF Execution, Order
<1> HIDE DEF n
<1>11. ASSUME NEW s \in Symbols
       PROVE  /\ Fills' = Fills - o.fills + n.fills
              /\ Shares' = Shares - o.filled + n.filled
              /\ Cash(s)' = Cash(s) - Paid(o, s) + Paid(n, s)
  <2>1. /\ Total(PaidTable(orders', s), Len(orders'))
             = Total(PaidTable(orders, s), Len(orders)) - Paid(orders[i], s) + Paid(orders'[i], s)
        /\ Total(FillTable(orders'), Len(orders'))
             = Total(FillTable(orders), Len(orders)) - orders[i].fills + orders'[i].fills
        /\ Total(ShareTable(orders'), Len(orders'))
             = Total(ShareTable(orders), Len(orders)) - orders[i].filled + orders'[i].filled
    <3>1. orders \in Seq(Order) /\ orders' \in Seq(Order)
      BY <1>6, <1>7
    <3> QED BY ONLY i \in 1..Len(orders), <1>8, <3>1, MoneyChange
  <2> QED BY <1>2, <1>8, <2>1, MoneyIs, MoneyIsNext
<1>12. /\ Fills \in Nat /\ Shares \in Nat /\ Fills' \in Nat /\ Shares' \in Nat
       /\ \A s \in Symbols : /\ Cash(s) \in Int /\ Slack(s) \in Int
                             /\ Cash(s)' \in Int /\ Slack(s)' \in Int
  BY <1>7, MoneyTypes, MoneyTypesNext DEF MoneyTyped
<1>13. Fills' = Fills + 1 /\ Shares' = Shares + q
  <2>1. Fills' = Fills - o.fills + n.fills /\ Shares' = Shares - o.filled + n.filled
    BY <1>11
  <2> DEFINE f == Fills
             h == Shares
             k == o.fills
             m == o.filled
  <2>2. Fills' = f - k + (k + 1) /\ Shares' = h - m + (m + q)
    BY ONLY <1>10, <2>1
  <2>3. f \in Int /\ h \in Int /\ k \in Int /\ m \in Int /\ q \in Int
    BY ONLY <1>5, <1>10, <1>12
  <2> HIDE DEF f, h, k, m
  <2>4. f - k + (k + 1) = f + 1 /\ h - m + (m + q) = h + q
    BY ONLY <2>3
  <2> QED BY ONLY <2>2, <2>4 DEF f, h
<1>14. /\ c \in Position /\ c.net = b.net /\ c.avg = b.avg /\ c.realized = b.realized
       /\ c.net \in Int /\ c.avg \in Int /\ c.realized \in Int
  <2>1. c \in Position /\ c.net = b.net /\ c.avg = b.avg /\ c.realized = b.realized
    BY <1>9, ReserveIs
  <2> HIDE DEF c
  <2> QED BY <2>1 DEF Position
<1> HIDE DEF c
<1>15. pos'[t] = r /\ \A s \in Symbols : s # t => pos'[s] = pos[s]
  BY <1>6
<1>16. /\ r \in Position /\ r.net = c.net + signed
       /\ r.net \in Int /\ r.avg \in Int /\ r.realized \in Int
  <2>1. r \in Position
    BY <1>7, <1>15
  <2>2. r.net = c.net + signed
    BY <1>14 DEF ApplyFill, NewNet, Position
  <2> HIDE DEF r
  <2> QED BY <2>1, <2>2 DEF Position
<1> DEFINE d == Drift(r, c, signed, price)
<1>17. Abs(r.net) \in Nat /\ Abs(r.net) <= Shares'
  <2>1. Abs(pos'[t].net) <= Shares'
    BY <1>7, NetWithinSharesNext DEF NetWithin, Abs
  <2> HIDE DEF r
  <2> QED BY <1>15, <1>16, <2>1, AbsType
<1>18. d \in Int /\ 2 * Abs(d) <= Abs(r.net)
  <2>1. CASE SameDirection(c.net, signed)
    BY <1>0, <1>5, <1>9, <1>14, <1>16, <2>1, DriftAdding
  <2>2. CASE ~SameDirection(c.net, signed)
    <3>1. d = 0
      BY <1>0, <1>5, <1>9, <1>14, <2>2, DriftClosing
    <3> HIDE DEF d, r
    <3> QED BY <1>17, <3>1 DEF Abs
  <2> QED BY <2>1, <2>2
<1>19. d = (r.realized + signed * price - r.net * r.avg) - (c.realized - c.net * c.avg)
  BY DEF Drift
<1> HIDE DEF d, r
<1>20. Slack(t)' = Slack(t) + d
  <2>1. Paid(n, t) = Paid(o, t) - signed * price /\ Paid(o, t) \in Int
    <3>1. CASE o.side = "BUY"
      BY <1>0, <1>3, <1>5, <1>9, <1>10, <3>1 DEF Paid
    <3>2. CASE o.side # "BUY"
      <4>1. -signed * price = q * price /\ q * price \in Int /\ signed * price \in Int
        BY <1>0, <1>5, <1>9, <3>2
      <4> QED BY <1>3, <1>10, <3>2, <4>1 DEF Paid
    <3> QED BY <3>1, <3>2
  <2>2. Slack(t) = c.realized - Cash(t) - c.net * c.avg
    BY <1>4, <1>14 DEF Slack
  <2>3. Slack(t)' = r.realized - Cash(t)' - r.net * r.avg
    BY <1>15 DEF Slack
  <2>4. Cash(t)' = Cash(t) - Paid(o, t) + Paid(n, t) /\ Cash(t) \in Int
    BY <1>11, <1>12
  <2> DEFINE m == signed * price
             u == r.net * r.avg
             v == c.net * c.avg
  <2>5. m \in Int /\ u \in Int /\ v \in Int
    BY <1>0, <1>9, <1>14, <1>16
  <2> HIDE DEF m, u, v
  <2>6. Cash(t)' = Cash(t) - m
    BY ONLY <2>1, <2>4, <2>5 DEF m
  <2>7. d = (r.realized + m - u) - (c.realized - v)
    BY ONLY <1>19 DEF m, u, v
  <2> DEFINE k == Cash(t)
             x == Slack(t)
             y == Slack(t)'
             f == c.realized
             g == r.realized
  <2>8. x = f - k - v /\ y = g - (k - m) - u /\ d = (g + m - u) - (f - v)
    BY ONLY <2>2, <2>3, <2>6, <2>7 DEF u, v
  <2>9. k \in Int /\ f \in Int /\ g \in Int
    BY <1>14, <1>16, <2>4
  <2> HIDE DEF k, x, y, f, g
  <2>10. y = x + d
    BY ONLY <2>5, <2>8, <2>9
  <2> QED BY ONLY <2>10 DEF x, y
<1> DEFINE P == Fills * Shares
           R == Fills' * Shares'
<1>21. P \in Nat /\ R \in Nat /\ R >= P + Shares'
  <2>1. Fills * q \in Nat /\ P \in Nat
    BY <1>5, <1>12
  <2>2. R = P + Fills * q + Shares'
    BY <1>5, <1>12, <1>13
  <2> HIDE DEF P, R
  <2> QED BY <1>12, <2>1, <2>2
<1>22. ASSUME NEW s \in Symbols PROVE 2 * Abs(Slack(s)') <= R
  <2> DEFINE x == Slack(s)
             y == Slack(s)'
             h == Shares'
  <2>1. 2 * Abs(x) <= P
    BY DEF ProfitConserved, Slack
  <2>2. x \in Int /\ h \in Nat
    BY <1>12
  <2>3. CASE s = t
    <3>1. y = x + d
      BY <1>20, <2>3
    <3>2. 2 * Abs(d) <= h
      <4> DEFINE e == Abs(d)
                 f == Abs(r.net)
      <4>1. e \in Nat /\ f \in Nat /\ h \in Nat /\ 2 * e <= f /\ f <= h
        BY <1>12, <1>17, <1>18, AbsType
      <4> HIDE DEF e, f, h
      <4>2. 2 * e <= h
        BY ONLY <4>1
      <4> QED BY ONLY <4>2 DEF e
    <3> HIDE DEF P, R, x, y, h
    <3>3. P \in Nat /\ R \in Nat /\ R >= P + h
      BY <1>21 DEF h
    <3>4. 2 * Abs(y) <= R
      BY ONLY <1>18, <2>1, <2>2, <3>1, <3>2, <3>3 DEF Abs
    <3> QED BY ONLY <3>4 DEF y
  <2>4. CASE s # t
    <3>1. Paid(o, s) = 0 /\ Paid(n, s) = 0
      BY <1>3, <1>10, <2>4 DEF Paid
    <3>2. Cash(s)' = Cash(s)
      BY <1>11, <1>12, <3>1
    <3>3. y = x
      BY <1>15, <2>4, <3>2 DEF Slack
    <3> HIDE DEF P, R, x, y, h
    <3>4. P \in Nat /\ R \in Nat /\ R >= P + h
      BY <1>21 DEF h
    <3>5. 2 * Abs(y) <= R
      BY ONLY <2>1, <2>2, <3>3, <3>4 DEF Abs
    <3> QED BY ONLY <3>5 DEF y
  <2> QED BY <2>3, <2>4
<1>23. ProfitConserved' <=> \A s \in Symbols : 2 * Abs(Slack(s)') <= R
  BY DEF ProfitConserved, Slack, Abs
<1> QED BY <1>22, <1>23

\* Two order tables with the same executions have the same money.
LEMMA SameMoney ==
    ASSUME NEW os, NEW ot, Len(ot) = Len(os),
           \A j \in 1..Len(os) : /\ ot[j].symbol = os[j].symbol /\ ot[j].side = os[j].side
                                 /\ ot[j].notional = os[j].notional
                                 /\ ot[j].fills = os[j].fills /\ ot[j].filled = os[j].filled
    PROVE  /\ \A s : PaidTable(ot, s) = PaidTable(os, s)
           /\ FillTable(ot) = FillTable(os)
           /\ ShareTable(ot) = ShareTable(os)
BY DEF PaidTable, Paid, FillTable, ShareTable

LEMMA ReplaceMoney ==
    ASSUME IInv, ProfitConserved, NEW i \in 1..Len(orders), NEW qty \in Qty, NEW price \in Int,
           Replace(i, price, qty)
    PROVE  ProfitConserved'
<1> DEFINE o == orders[i]
           n == Replacement(o, price, qty)
           b == pos[o.symbol]
           d == Shift(o, qty)
<1>1. Working(i) /\ qty \in Nat
  BY NumberAssumption DEF Replace, Replaceable
<1>2. /\ o \in Order /\ o.symbol \in Symbols /\ o.filled \in Nat /\ Remaining(o) \in Nat
      /\ b \in Position
  BY <1>1, WorkingOrder
<1>3. /\ orders' = [orders EXCEPT ![i] = n] /\ pos' = [pos EXCEPT ![o.symbol] = Reserve(b, d)]
      /\ orders \in Seq(Order) /\ pos \in [Symbols -> Position]
  BY DEF Replace, IInv, TypeOK
<1>4. d \in Int
  BY <1>1, <1>2, SignedQtyType DEF Shift
<1> HIDE DEF d
<1>5. /\ Reserve(b, d).realized = b.realized /\ Reserve(b, d).net = b.net
      /\ Reserve(b, d).avg = b.avg
  BY <1>2, <1>4, ReserveIs
<1>6. \A s \in Symbols : /\ pos'[s].realized = pos[s].realized
                         /\ pos'[s].net = pos[s].net /\ pos'[s].avg = pos[s].avg
  <2> SUFFICES ASSUME NEW s \in Symbols
               PROVE  /\ pos'[s].realized = pos[s].realized
                      /\ pos'[s].net = pos[s].net /\ pos'[s].avg = pos[s].avg
    OBVIOUS
  <2>1. CASE s = o.symbol
    BY <1>3, <1>5, <2>1
  <2>2. CASE s # o.symbol
    BY <1>3, <2>2
  <2> QED BY <2>1, <2>2
<1>7. /\ n.symbol = o.symbol /\ n.side = o.side /\ n.notional = o.notional
      /\ n.fills = o.fills /\ n.filled = o.filled
  BY <1>2 DEF Replacement, Order
<1> HIDE DEF n
<1>8. /\ Len(orders') = Len(orders) /\ orders'[i] = n
      /\ \A j \in 1..Len(orders) : j # i => orders'[j] = orders[j]
  BY <1>3
<1>9. Fills' = Fills /\ Shares' = Shares /\ \A s : Cash(s)' = Cash(s)
  <2>1. \A j \in 1..Len(orders) :
           /\ orders'[j].symbol = orders[j].symbol /\ orders'[j].side = orders[j].side
           /\ orders'[j].notional = orders[j].notional
           /\ orders'[j].fills = orders[j].fills /\ orders'[j].filled = orders[j].filled
    BY <1>7, <1>8
  <2> QED BY <1>8, <2>1, SameMoney, MoneyIs, MoneyIsNext
<1> QED BY <1>6, <1>9, NoMoneyStep

LEMMA CancelMoney ==
    ASSUME IInv, ProfitConserved, NEW ids, CancelOrders(ids)
    PROVE  ProfitConserved'
<1>1. /\ orders \in Seq(Order) /\ pos \in [Symbols -> Position] /\ Len(orders) \in Nat
      /\ DOMAIN orders = 1..Len(orders)
  BY DEF IInv, TypeOK
<1>2. ASSUME NEW s \in Symbols
      PROVE  /\ pos'[s].realized = pos[s].realized
             /\ pos'[s].net = pos[s].net /\ pos'[s].avg = pos[s].avg
  <2>1. \A i \in 1..Len(orders) : SignedQty(orders[i].side, Remaining(orders[i])) \in Int
    <3> TAKE i \in 1..Len(orders)
    <3>0. orders[i] \in Order
      BY <1>1
    <3>1. orders[i].quantity \in Nat /\ orders[i].filled \in Nat
      BY <3>0 DEF Order
    <3> QED BY <3>1, SignedQtyType DEF Remaining
  <2>2. Open(s, ids) \in [1..Len(orders) -> Int]
    BY <2>1 DEF Open
  <2> DEFINE d == -Total(Open(s, ids), Len(orders))
  <2>3. d \in Int
    BY <1>1, <2>2, TotalType
  <2>4. pos'[s] = Reserve(pos[s], d) /\ pos[s] \in Position
    BY <1>1 DEF CancelOrders
  <2> HIDE DEF d
  <2> QED BY <2>3, <2>4, ReserveIs
<1>3. Len(orders') = Len(orders)
  <2>1. DOMAIN orders' = 1..Len(orders)
    BY <1>1 DEF CancelOrders
  <2>2. orders' \in [1..Len(orders) -> Order]
    <3>1. \A j \in 1..Len(orders) :
             /\ orders[j] \in Order
             /\ orders'[j] = IF j \in ids THEN [orders[j] EXCEPT !.status = "CANCELLED"] ELSE orders[j]
      BY <1>1 DEF CancelOrders
    <3>2. \A o \in Order : [o EXCEPT !.status = "CANCELLED"] \in Order
      BY DEF Order
    <3>4. \A j \in 1..Len(orders) : orders'[j] \in Order
      BY ONLY <3>1, <3>2
    <3>3. orders' = [j \in 1..Len(orders) |-> orders'[j]]
      BY <1>1 DEF CancelOrders
    <3> QED BY <3>3, <3>4
  <2>3. orders' \in Seq(Order)
    BY <1>1, <2>2
  <2> QED BY <1>1, <2>1, <2>3
<1>4. \A j \in 1..Len(orders) :
         /\ orders'[j].symbol = orders[j].symbol /\ orders'[j].side = orders[j].side
         /\ orders'[j].notional = orders[j].notional
         /\ orders'[j].fills = orders[j].fills /\ orders'[j].filled = orders[j].filled
  <2> TAKE j \in 1..Len(orders)
  <2>1. orders[j] \in Order
    BY <1>1
  <2>2. orders'[j] = IF j \in ids THEN [orders[j] EXCEPT !.status = "CANCELLED"] ELSE orders[j]
    BY <1>1 DEF CancelOrders
  <2> QED BY <2>1, <2>2 DEF Order
<1>5. Fills' = Fills /\ Shares' = Shares /\ \A s : Cash(s)' = Cash(s)
  BY <1>3, <1>4, SameMoney, MoneyIs, MoneyIsNext
<1> QED BY <1>2, <1>5, NoMoneyStep

LEMMA SubmitMoney ==
    ASSUME NoWrap, IInv, ProfitConserved, NEW s \in Symbols, NEW side \in Side, NEW price \in Price,
           NEW qty \in Qty, NEW expire \in Expiry, Submit(s, side, price, qty, expire)
    PROVE  ProfitConserved'
<1> DEFINE n == NewOrder(s, side, price, qty, expire)
           d == SignedQty(side, qty)
           k == Len(orders) + 1
<1>1. /\ orders \in Seq(Order) /\ pos \in [Symbols -> Position] /\ Len(orders) \in Nat
      /\ pos[s] \in Position
  BY DEF IInv, TypeOK
<1>2. qty \in Nat /\ price \in Int /\ expire \in Nat
  BY NumberAssumption
<1>3. d \in Int
  BY <1>2, SignedQtyType
<1>4. orders' = Append(orders, n) /\ pos' = [pos EXCEPT ![s] = Reserve(pos[s], d)]
  BY DEF Submit
<1>5. n \in Order /\ n.notional = 0 /\ n.fills = 0 /\ n.filled = 0
  <2>1. n = [symbol |-> s, side |-> side, price |-> price, quantity |-> qty, filled |-> 0,
             status |-> "SENT", notional |-> 0, fills |-> 0, expire |-> expire]
    BY DEF NewOrder
  <2>2. s \in Symbols /\ side \in Side
    OBVIOUS
  <2> HIDE DEF n
  <2> QED BY ONLY <1>2, <2>1, <2>2 DEF Order
<1> HIDE DEF n, d
<1>6. /\ orders' \in Seq(Order) /\ Len(orders') = k
      /\ orders'[k] = n /\ \A j \in 1..Len(orders) : orders'[j] = orders[j]
  <2>1. orders \in Seq(Order) /\ n \in Order /\ orders' = Append(orders, n)
    BY ONLY <1>1, <1>4, <1>5
  <2> QED BY ONLY <2>1, Appended
<1>7. ASSUME NEW t \in Symbols
      PROVE  /\ pos'[t].realized = pos[t].realized
             /\ pos'[t].net = pos[t].net /\ pos'[t].avg = pos[t].avg
  <2>1. CASE t = s
    <3>1. pos'[t] = Reserve(pos[s], d)
      BY ONLY <1>1, <1>4, <2>1
    <3>2. Reserve(pos[s], d).realized = pos[s].realized /\ Reserve(pos[s], d).net = pos[s].net
          /\ Reserve(pos[s], d).avg = pos[s].avg
      BY ONLY <1>1, <1>3, ReserveIs
    <3> QED BY ONLY <2>1, <3>1, <3>2
  <2>2. CASE t # s
    BY <1>1, <1>4, <2>2
  <2> QED BY <2>1, <2>2
<1>8. ASSUME NEW t
      PROVE  /\ Total(PaidTable(orders', t), k) = Total(PaidTable(orders, t), Len(orders)) + 0
             /\ Total(FillTable(orders'), k) = Total(FillTable(orders), Len(orders)) + 0
             /\ Total(ShareTable(orders'), k) = Total(ShareTable(orders), Len(orders)) + 0
  <2>1. /\ PaidTable(orders, t) \in [1..Len(orders) -> Int]
        /\ FillTable(orders) \in [1..Len(orders) -> Nat]
        /\ ShareTable(orders) \in [1..Len(orders) -> Nat]
        /\ PaidTable(orders', t) \in [1..k -> Int]
        /\ FillTable(orders') \in [1..k -> Nat]
        /\ ShareTable(orders') \in [1..k -> Nat]
    <3> HIDE DEF k
    <3> QED BY <1>1, <1>6, MoneyTables
  <2>2. /\ \A j \in 1..Len(orders) : /\ PaidTable(orders', t)[j] = PaidTable(orders, t)[j]
                                      /\ FillTable(orders')[j] = FillTable(orders)[j]
                                      /\ ShareTable(orders')[j] = ShareTable(orders)[j]
        /\ PaidTable(orders', t)[k] = 0 /\ FillTable(orders')[k] = 0 /\ ShareTable(orders')[k] = 0
    <3>1. k \in Nat /\ 1..Len(orders) \subseteq 1..k /\ k \in 1..k /\ Len(orders') = k
      BY ONLY <1>1, <1>6
    <3> HIDE DEF k
    <3>2. /\ PaidTable(orders', t)[k] = 0 /\ FillTable(orders')[k] = 0 /\ ShareTable(orders')[k] = 0
      <4>1. /\ PaidTable(orders', t)[k] = Paid(orders'[k], t)
            /\ FillTable(orders')[k] = orders'[k].fills /\ ShareTable(orders')[k] = orders'[k].filled
        BY ONLY <3>1 DEF PaidTable, FillTable, ShareTable
      <4>2. orders'[k] = n
        BY ONLY <1>6
      <4>3. Paid(n, t) = 0
        <5>1. n.notional = 0 /\ -n.notional = 0
          <6>1. \A x \in Int : -x \in Int /\ (-x) + x = 0
            OBVIOUS
          <6> DEFINE z == -n.notional
          <6>2. z \in Int /\ z + n.notional = 0
            BY ONLY <1>5, <6>1 DEF Order
          <6> HIDE DEF z
          <6>3. z = 0
            BY ONLY <1>5, <6>2
          <6> QED BY ONLY <1>5, <6>3 DEF z
        <5> QED BY ONLY <5>1, Zenon DEF Paid
      <4> QED BY ONLY <1>5, <4>1, <4>2, <4>3
    <3>3. ASSUME NEW j \in 1..Len(orders)
          PROVE  /\ PaidTable(orders', t)[j] = PaidTable(orders, t)[j]
                 /\ FillTable(orders')[j] = FillTable(orders)[j]
                 /\ ShareTable(orders')[j] = ShareTable(orders)[j]
      BY ONLY <1>6, <3>1, <3>3 DEF PaidTable, Paid, FillTable, ShareTable
    <3> QED BY ONLY <3>2, <3>3
  <2>3. /\ FillTable(orders) \in [1..Len(orders) -> Int]
        /\ ShareTable(orders) \in [1..Len(orders) -> Int]
        /\ FillTable(orders') \in [1..k -> Int]
        /\ ShareTable(orders') \in [1..k -> Int]
    BY ONLY <2>1
  <2> QED BY ONLY <1>1, <2>1, <2>2, <2>3, TotalAppend
<1>9. ASSUME NEW t PROVE Fills' = Fills /\ Shares' = Shares /\ Cash(t)' = Cash(t)
  <2>1. /\ Total(PaidTable(orders, t), Len(orders)) \in Int
        /\ Total(FillTable(orders), Len(orders)) \in Int
        /\ Total(ShareTable(orders), Len(orders)) \in Int
    BY ONLY <1>1, MoneyType
  <2>2. /\ Total(PaidTable(orders', t), k) = Total(PaidTable(orders, t), Len(orders))
        /\ Total(FillTable(orders'), k) = Total(FillTable(orders), Len(orders))
        /\ Total(ShareTable(orders'), k) = Total(ShareTable(orders), Len(orders))
    BY ONLY <1>8, <2>1
  <2> HIDE DEF k
  <2> QED BY ONLY <1>6, <2>2, MoneyIs, MoneyIsNext
<1> QED BY <1>7, <1>9, NoMoneyStep

LEMMA InitProfit == Init => ProfitConserved
<1> SUFFICES ASSUME Init, NEW s \in Symbols
             PROVE  2 * Abs(pos[s].realized - Cash(s) - pos[s].net * pos[s].avg) <= Fills * Shares
  BY DEF ProfitConserved
<1>1. Len(orders) = 0
  BY DEF Init
<1>2. Cash(s) = 0 /\ Fills = 0 /\ Shares = 0
  BY <1>1, MoneyIs, TotalEmpty
<1>3. pos[s].realized = 0 /\ pos[s].net = 0 /\ pos[s].avg = 0
  BY DEF Init, Flat
<1> QED BY <1>2, <1>3 DEF Abs

LEMMA NextProfit == ASSUME NoWrap PROVE IInv /\ ProfitConserved /\ [Next]_vars => ProfitConserved'
<1> SUFFICES ASSUME IInv, ProfitConserved, [Next]_vars PROVE ProfitConserved'
  OBVIOUS
<1>1. CASE UNCHANGED vars
  BY <1>1 DEF vars, ProfitConserved, Cash, Fills, Shares
<1>2. TypeOK
  BY DEF IInv
<1>3. CASE Next
  BY <1>1, <1>2, <1>3, Cases, SubmitMoney, FillMoney, ReplaceMoney, CancelMoney
<1> QED BY <1>1, <1>3

(***************************************************************************)
(* No money is made or lost: realized profit, the open position at its     *)
(* average price and the cash of the executions (fill_order,               *)
(* apply_fill_to_position) agree up to the rounding of the averages, for   *)
(* any sequence of submits, fills, flips, replaces and cancels.            *)
(***************************************************************************)
THEOREM ProfitStays == ASSUME NoWrap PROVE Spec => []ProfitConserved
<1>1. IInv /\ ProfitConserved /\ [Next]_vars => ProfitConserved'
  BY NextProfit
<1> QED BY <1>1, InitProfit, Invariance, PTL DEF Spec

\* The ledger of the OMS is exact: the four accounts it is made of, together.
THEOREM LedgerStaysExact == ASSUME NoWrap PROVE Spec => []LedgerExact
<1>1. IInv /\ ProfitConserved => LedgerExact
  BY DEF IInv, LedgerExact
<1> QED BY <1>1, Invariance, ProfitStays, PTL

------------------------------------------------------------------------------
\* A fill moves what was pending to the position.
LEMMA FillExposure ==
    ASSUME NoWrap, IInv, NEW i \in 1..Len(orders), NEW qty \in Qty, NEW price \in FillPrice,
           Fill(i, qty, price), NEW t \in Symbols
    PROVE  pos'[t].net + pos'[t].pending = pos[t].net + pos[t].pending
<1> DEFINE o == orders[i]
           q == Applied(o, qty)
           signed == SignedQty(o.side, q)
           b == pos[o.symbol]
           c == ApplyFill(Reserve(b, -signed), signed, q, price)
<1>1. Working(i) /\ q # 0 /\ qty \in Nat /\ price \in Int
  BY NumberAssumption DEF Fill
<1>2. /\ o.symbol \in Symbols /\ o.quantity \in Nat /\ o.quantity < HalfWord /\ o.filled \in Nat
      /\ Remaining(o) \in Nat /\ b \in Position
  BY <1>1, WorkingOrder
<1>3. q \in Nat \ {0} /\ q < HalfWord
  BY <1>1, <1>2, NumberAssumption DEF Applied, Remaining
<1>4. pos' = [pos EXCEPT ![o.symbol] = c] /\ pos \in [Symbols -> Position]
  BY DEF Fill, IInv, TypeOK
<1> HIDE DEF o, q, b
<1>5. signed \in Int /\ (signed = q \/ signed = -q)
  BY <1>3, SignedQtyIs
<1> HIDE DEF signed
<1>6. c.net = b.net + signed /\ c.pending = b.pending - signed
  <2>1. Filled(c, b, signed)
    BY ONLY <1>1, <1>2, <1>3, <1>5, ApplyFillIs
  <2> QED BY ONLY <2>1 DEF Filled
<1>7. b.net \in Int /\ b.pending \in Int
  BY <1>2 DEF Position
<1> HIDE DEF c
<1>8. c.net + c.pending = b.net + b.pending
  BY ONLY <1>5, <1>6, <1>7
<1>9. CASE t = o.symbol
  BY <1>2, <1>4, <1>8, <1>9 DEF b
<1>10. CASE t # o.symbol
  BY <1>4, <1>10
<1> QED BY <1>9, <1>10

\* Cancelling no order releases nothing.
LEMMA NothingOpen ==
    ASSUME NEW n \in Nat, NEW p \in Position
    PROVE  Reserve(p, -Total([j \in 1..n |-> 0], n)).net = p.net
           /\ Reserve(p, -Total([j \in 1..n |-> 0], n)).pending = p.pending
<1> DEFINE z == [j \in 1..n |-> 0]
<1>1. z \in [1..n -> Int] /\ \A j \in 1..n : z[j] = z[j] - z[j]
  OBVIOUS
<1> HIDE DEF z
<1>2. Total(z, n) = Total(z, n) - Total(z, n) /\ Total(z, n) \in Int
  BY <1>1, TotalMinus, TotalType
<1>3. Total(z, n) = 0 /\ -Total(z, n) = 0
  BY <1>2
<1>4. Reserve(p, 0).net = p.net /\ Reserve(p, 0).pending = p.pending
  <2>1. p.pending \in Int /\ p.pending + 0 = p.pending
    BY DEF Position
  <2>2. Reserve(p, 0).net = p.net /\ Reserve(p, 0).pending = p.pending + 0
    BY ReserveIs
  <2> QED BY <2>1, <2>2
<1> QED BY <1>3, <1>4 DEF z

(***************************************************************************)
(* A fill never changes the committed exposure of a symbol.                *)
(***************************************************************************)
ExposureStep == \A s \in Symbols :
                   pos'[s].net # pos[s].net =>
                       pos'[s].net + pos'[s].pending = pos[s].net + pos[s].pending

THEOREM FillsKeepExposure == ASSUME NoWrap PROVE Spec => FillKeepsExposure
<1>1. IInv /\ [Next]_vars => [ExposureStep]_vars
  <2> SUFFICES ASSUME IInv, Next, NEW t \in Symbols
               PROVE  pos'[t].net # pos[t].net =>
                         pos'[t].net + pos'[t].pending = pos[t].net + pos[t].pending
    BY DEF ExposureStep
  <2>1. TypeOK /\ pos \in [Symbols -> Position]
    BY DEF IInv, TypeOK
  <2>2. ASSUME NEW s \in Symbols, NEW n, pos' = [pos EXCEPT ![s] = Reserve(@, n)]
        PROVE  pos'[t].net = pos[t].net
    BY <2>1, <2>2 DEF Reserve, Position
  <2>3. ASSUME NEW s \in Symbols, NEW side \in Side, NEW price \in Price, NEW qty \in Qty,
               NEW expire \in Expiry, Submit(s, side, price, qty, expire)
        PROVE  pos'[t].net = pos[t].net
    BY <2>2, <2>3 DEF Submit
  <2>4. ASSUME NEW i \in 1..Len(orders), NEW qty \in Qty, NEW price \in Int, Replace(i, price, qty)
        PROVE  pos'[t].net = pos[t].net
    <3>1. orders[i].symbol \in Symbols
      BY <2>4, WorkingOrder DEF Replace, Replaceable
    <3> QED BY <2>2, <2>4, <3>1 DEF Replace
  <2>5. ASSUME NEW ids \in SUBSET WorkingIds, CancelOrders(ids)
        PROVE  pos'[t].net = pos[t].net
    BY <2>1, <2>5 DEF CancelOrders, Reserve, Position
  <2>6. CASE UNCHANGED vars
    BY <2>6 DEF vars
  <2> QED BY <2>1, <2>3, <2>4, <2>5, <2>6, Cases, FillExposure
<1>2. Spec => [][ExposureStep]_vars
  BY <1>1, Invariance, PTL DEF Spec
<1> QED BY <1>2 DEF FillKeepsExposure, ExposureStep

(***************************************************************************)
(* A filled or cancelled order is never changed again.                     *)
(***************************************************************************)
FinalStep == \A i \in DOMAIN orders :
                orders[i].status \in {"FILLED", "CANCELLED"} => orders'[i] = orders[i]

THEOREM DoneStaysFinal == ASSUME NoWrap PROVE Spec => DoneIsFinal
<1>1. IInv /\ [Next]_vars => [FinalStep]_vars
  <2> SUFFICES ASSUME IInv, Next, NEW j \in 1..Len(orders), orders[j].status \in {"FILLED", "CANCELLED"}
               PROVE  orders'[j] = orders[j]
    <3>1. IInv => DOMAIN orders = 1..Len(orders)
      BY DEF IInv, TypeOK
    <3> QED BY <3>1 DEF FinalStep
  <2>1. TypeOK /\ orders \in Seq(Order) /\ DOMAIN orders = 1..Len(orders) /\ ~Working(j)
    <3>1. TypeOK /\ orders \in Seq(Order)
      BY DEF IInv, TypeOK
    <3>2. ~Working(j)
      BY ONLY orders[j].status \in {"FILLED", "CANCELLED"} DEF Working
    <3> QED BY ONLY <3>1, <3>2
  <2>2. ASSUME NEW s \in Symbols, NEW side \in Side, NEW price \in Price, NEW qty \in Qty,
               NEW expire \in Expiry, Submit(s, side, price, qty, expire)
        PROVE  orders'[j] = orders[j]
    <3> DEFINE n == NewOrder(s, side, price, qty, expire)
    <3>1. orders' = Append(orders, n)
      BY <2>2 DEF Submit
    <3>2. n \in Order
      BY NumberAssumption DEF NewOrder, Order
    <3> HIDE DEF n
    <3> QED BY ONLY j \in 1..Len(orders), <2>1, <3>1, <3>2, Appended
  <2>3. ASSUME NEW i \in 1..Len(orders), NEW qty \in Qty, NEW price \in FillPrice, Fill(i, qty, price)
        PROVE  orders'[j] = orders[j]
    BY <2>1, <2>3 DEF Fill
  <2>4. ASSUME NEW i \in 1..Len(orders), NEW qty \in Qty, NEW price \in Int, Replace(i, price, qty)
        PROVE  orders'[j] = orders[j]
    BY <2>1, <2>4 DEF Replace, Replaceable
  <2>5. ASSUME NEW ids \in SUBSET WorkingIds, CancelOrders(ids)
        PROVE  orders'[j] = orders[j]
    BY <2>1, <2>5 DEF CancelOrders, WorkingIds
  <2>6. CASE UNCHANGED vars
    BY <2>6 DEF vars
  <2> QED BY <2>1, <2>2, <2>3, <2>4, <2>5, <2>6, Cases
<1>2. Spec => [][FinalStep]_vars
  BY <1>1, Invariance, PTL DEF Spec
<1> QED BY <1>2 DEF DoneIsFinal, FinalStep

(***************************************************************************)
(* Submits, fills and replaces keep the committed exposure of every symbol *)
(* within max_position_, whatever their order; only a cancel can raise it. *)
(***************************************************************************)
LimitStep == \A s \in Symbols :
                \/ Abs(Committed(s)') <= MaxPosition
                \/ Committed(s)' = Committed(s)
                \/ \E i \in DOMAIN orders : Working(i) /\ orders'[i].status = "CANCELLED"

THEOREM PreTradeCheck == ASSUME NoWrap PROVE Spec => OnlyCancelsOverCommit
<1>1. IInv /\ [Next]_vars => [LimitStep]_vars
  <2> SUFFICES ASSUME IInv, Next, NEW t \in Symbols
               PROVE  \/ Abs(Committed(t)') <= MaxPosition
                      \/ Committed(t)' = Committed(t)
                      \/ \E i \in DOMAIN orders : Working(i) /\ orders'[i].status = "CANCELLED"
    BY DEF LimitStep
  <2>1. TypeOK /\ pos \in [Symbols -> Position] /\ orders \in Seq(Order) /\ DOMAIN orders = 1..Len(orders)
    BY DEF IInv, TypeOK
  <2>2. pos[t].net \in Int /\ pos[t].pending \in Int /\ MaxPosition \in Nat
    BY <2>1, NumberAssumption DEF Position
  \* A reservation that passed the limit check.
  <2>3. ASSUME NEW s \in Symbols, NEW n \in Int, ~OverLimit(s, n), pos' = [pos EXCEPT ![s] = Reserve(@, n)]
        PROVE  Abs(Committed(t)') <= MaxPosition \/ Committed(t)' = Committed(t)
    <3>1. CASE s # t
      BY <2>1, <2>3, <3>1 DEF Committed
    <3>2. CASE s = t
      <4> DEFINE b == pos[t]
                 c == pos'[t]
      <4>1. b \in Position /\ c = Reserve(b, n)
        BY <2>1, <2>3, <3>2
      <4> HIDE DEF b, c
      <4>2. c.net = b.net /\ c.pending = b.pending + n /\ b.net \in Int /\ b.pending \in Int
        BY ONLY <4>1, n \in Int, ReserveIs
      <4>3. c.net + c.pending = b.net + b.pending + n
        BY ONLY <4>2, n \in Int
      <4>4. ~(Abs(b.net + b.pending + n) > MaxPosition)
        BY <2>3, <3>2 DEF OverLimit, b
      <4>5. Abs(b.net + b.pending + n) \in Nat
        BY <4>2, AbsType
      <4>6. Abs(c.net + c.pending) <= MaxPosition
        BY ONLY <2>2, <4>3, <4>4, <4>5
      <4> QED BY <4>6 DEF c, Committed
    <3> QED BY <3>1, <3>2
  <2>4. ASSUME NEW s \in Symbols, NEW side \in Side, NEW price \in Price, NEW qty \in Qty,
               NEW expire \in Expiry, Submit(s, side, price, qty, expire)
        PROVE  Abs(Committed(t)') <= MaxPosition \/ Committed(t)' = Committed(t)
    <3>1. SignedQty(side, qty) \in Int
      BY NumberAssumption, SignedQtyType
    <3> QED BY <2>3, <2>4, <3>1 DEF Submit, Submittable
  <2>5. ASSUME NEW i \in 1..Len(orders), NEW qty \in Qty, NEW price \in FillPrice, Fill(i, qty, price)
        PROVE  Committed(t)' = Committed(t)
    BY <2>5, FillExposure DEF Committed
  <2>6. ASSUME NEW i \in 1..Len(orders), NEW qty \in Qty, NEW price \in Int, Replace(i, price, qty)
        PROVE  Abs(Committed(t)') <= MaxPosition \/ Committed(t)' = Committed(t)
    <3>1. /\ Working(i) /\ ~OverLimit(orders[i].symbol, Shift(orders[i], qty))
          /\ pos' = [pos EXCEPT ![orders[i].symbol] = Reserve(@, Shift(orders[i], qty))]
      BY <2>6 DEF Replace, Replaceable
    <3>2. /\ orders[i].symbol \in Symbols /\ orders[i].filled \in Nat /\ Remaining(orders[i]) \in Nat
      BY <3>1, WorkingOrder
    <3>3. Shift(orders[i], qty) \in Int
      <4>1. qty - orders[i].filled \in Int
        BY <3>2, NumberAssumption
      <4>2. SignedQty(orders[i].side, qty - orders[i].filled) \in Int /\ SignedQty(orders[i].side, Remaining(orders[i])) \in Int
        BY <3>2, <4>1, SignedQtyType
      <4> QED BY <4>2 DEF Shift
    <3> QED BY <2>3, <3>1, <3>2, <3>3
  <2>7. ASSUME NEW ids \in SUBSET WorkingIds, CancelOrders(ids)
        PROVE  \/ Committed(t)' = Committed(t)
               \/ \E i \in DOMAIN orders : Working(i) /\ orders'[i].status = "CANCELLED"
    <3>1. CASE ids = {}
      <4>1. Open(t, ids) = [j \in 1..Len(orders) |-> 0]
        BY <3>1 DEF Open
      <4> QED BY <2>1, <2>2, <2>7, <3>1, <4>1, NothingOpen DEF CancelOrders, Committed
    <3>2. CASE ids # {}
      <4>1. PICK i \in ids : TRUE
        BY <3>2
      <4>2. i \in DOMAIN orders /\ Working(i)
        BY <4>1 DEF WorkingIds
      <4>3. orders'[i] = [orders[i] EXCEPT !.status = "CANCELLED"] /\ orders[i] \in Order
        BY <2>1, <2>7, <4>1, <4>2 DEF CancelOrders
      <4>4. orders'[i].status = "CANCELLED"
        BY <4>3 DEF Order
      <4> QED BY <4>2, <4>4
    <3> QED BY <3>1, <3>2
  <2>8. CASE UNCHANGED vars
    BY <2>8 DEF vars, Committed
  <2> QED BY <2>1, <2>4, <2>5, <2>6, <2>7, <2>8, Cases
<1>2. Spec => [][LimitStep]_vars
  BY <1>1, Invariance, PTL DEF Spec
<1> QED BY <1>2 DEF OnlyCancelsOverCommit, LimitStep
==============================================================================
