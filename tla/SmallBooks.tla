----------------------------- MODULE SmallBooks ------------------------------
(***************************************************************************)
(* orderbook/orderbook_flat.hpp: a book of aggregated levels, in arrays    *)
(* with a bitmap of the levels in use and a cursor at the best of each     *)
(* side; and the book of two std::maps, with orders by id, of              *)
(* orderbook/orderbook_v2.cpp (orderbook.cpp, latency_histogram.cpp and    *)
(* the reference of orderbook_flat.cpp match as it does).  The two are     *)
(* driven by the same calls.                                               *)
(*                                                                         *)
(* A word of the bitmap is the set of the bits that are on.                *)
(***************************************************************************)
EXTENDS Integers, FiniteSets, FiniteSetsExt, Sequences, SequencesExt

CONSTANTS LevelCount, WordBits,   \* LEVELS, and 64
          Ids, Quantities,        \* of orders; a quantity may be 0
          MaxCalls                \* bound: calls

VARIABLES flat,    \* [qty, bits, best, trades, orders], by side
          map,     \* [qty, trades, orders] of the map book
          calls

levelVars == <<flat, map, calls>>

Prices == 0..(LevelCount - 1)
Words == 0..(LevelCount \div WordBits - 1)
NoBid == -1
NoAsk == LevelCount
Side == {"bid", "ask"}
Lesser(x, y) == Min({x, y})

SetBit(bits, p) == [bits EXCEPT ![p \div WordBits] = @ \union {p % WordBits}]
ClearBit(bits, p) == [bits EXCEPT ![p \div WordBits] = @ \ {p % WordBits}]

\* Mutant of ScanDown: the mask leaves out the cursor's own bit.
ScanDownBelow(bits, from) ==
    LET w0 == from \div WordBits
        word(w) == IF w = w0 THEN bits[w] \cap 0..((from % WordBits) - 1) ELSE bits[w]
        used == {w \in 0..w0 : word(w) # {}}
    IN  IF from < 0 \/ used = {} THEN NoBid ELSE Max(used) * WordBits + Max(word(Max(used)))

ScanDown(bits, from) ==
    LET w0 == from \div WordBits
        word(w) == IF w = w0 THEN bits[w] \cap 0..(from % WordBits) ELSE bits[w]
        used == {w \in 0..w0 : word(w) # {}}
    IN  IF from < 0 \/ used = {} THEN NoBid ELSE Max(used) * WordBits + Max(word(Max(used)))

ScanUp(bits, from) ==
    LET w0 == from \div WordBits
        word(w) == IF w = w0 THEN bits[w] \cap (from % WordBits)..(WordBits - 1) ELSE bits[w]
        used == {w \in Words : w >= w0 /\ word(w) # {}}
    IN  IF from >= LevelCount \/ used = {} THEN NoAsk ELSE Min(used) * WordBits + Min(word(Min(used)))

Scan(side, bits, from) == IF side = "bid" THEN ScanDown(bits, from) ELSE ScanUp(bits, from)

\* shares leave level p of a side; the level and the cursor follow
LeaveLevel(b, side, p, n) ==
    LET left == b.qty[side][p] - n
        bits == IF left = 0 THEN ClearBit(b.bits[side], p) ELSE b.bits[side]
    IN  [b EXCEPT !.qty[side][p] = left, !.bits[side] = bits, !.best[side] = Scan(side, bits, @)]

RECURSIVE TryMatch(_)
TryMatch(b) ==
    LET bid == b.best["bid"]
        ask == b.best["ask"]
        fill == Lesser(b.qty["bid"][bid], b.qty["ask"][ask])
    IN  IF bid = NoBid \/ ask = NoAsk \/ bid < ask THEN b
        ELSE TryMatch([LeaveLevel(LeaveLevel(b, "bid", bid, fill), "ask", ask, fill) EXCEPT !.trades = @ + 1])

ValidLevel(p, n) == p \in Prices /\ n > 0
Opposite(side) == IF side = "bid" THEN "ask" ELSE "bid"

\* add_buy, add_sell
AddLevel(b, side, p, n) ==
    TryMatch([b EXCEPT !.bits[side] = IF b.qty[side][p] = 0 THEN SetBit(@, p) ELSE @,
                       !.qty[side][p] = @ + n,
                       !.best[side] = IF side = "bid" THEN Max({@, p}) ELSE Lesser(@, p)])

Untracked == [side |-> "none", price |-> 0, qty |-> 0]
SubmitWithId(b, id, p, n, side) ==
    IF ~ValidLevel(p, n) \/ b.orders[id] # Untracked THEN b
    ELSE AddLevel([b EXCEPT !.orders[id] = [side |-> side, price |-> p, qty |-> n]], side, p, n)

CancelId(b, id) ==
    LET o == b.orders[id]
    IN  IF o = Untracked THEN b
        ELSE LeaveLevel([b EXCEPT !.orders[id] = Untracked], o.side, o.price, Lesser(o.qty, b.qty[o.side][o.price]))

\* A replacement that is refused has already cancelled the order.
ModifyId(b, id, p, n) ==
    LET o == b.orders[id] IN IF o = Untracked THEN b ELSE SubmitWithId(CancelId(b, id), id, p, n, o.side)

------------------------------------------------------------------------------
\* The book of two maps; a level that is not in the map is 0.
MapBest(m, side) ==
    LET used == {p \in Prices : m.qty[side][p] # 0}
    IN  IF side = "bid" THEN Max(used \union {NoBid}) ELSE Min(used \union {NoAsk})

RECURSIVE MapTryMatch(_)
MapTryMatch(m) ==
    LET bid == MapBest(m, "bid")
        ask == MapBest(m, "ask")
        fill == Lesser(m.qty["bid"][bid], m.qty["ask"][ask])
    IN  IF bid = NoBid \/ ask = NoAsk \/ bid < ask THEN m
        ELSE MapTryMatch([m EXCEPT !.qty["bid"][bid] = @ - fill, !.qty["ask"][ask] = @ - fill, !.trades = @ + 1])

MapAdd(m, side, p, n) == MapTryMatch([m EXCEPT !.qty[side][p] = @ + n])
MapAddOrder(m, id, p, n, side) ==
    MapAdd([m EXCEPT !.orders[id] = [side |-> side, price |-> p, qty |-> n]], side, p, n)

\* the shares of the order leave its level, which is erased at 0 or below
MapTakeOut(m, o) == [m EXCEPT !.qty[o.side][o.price] = Max({0, @ - o.qty})]

MapCancelOrder(m, id) ==
    LET o == m.orders[id]
    IN  IF o = Untracked THEN m ELSE [MapTakeOut(m, o) EXCEPT !.orders[id] = Untracked, !.cancels = @ + 1]

MapModifyOrder(m, id, p, n) ==
    LET o == m.orders[id]
    IN  IF o = Untracked THEN m
        ELSE [MapAddOrder(MapTakeOut(m, o), id, p, n, o.side) EXCEPT !.modifies = @ + 1]

------------------------------------------------------------------------------
Nothing == [s \in Side |-> [p \in Prices |-> 0]]

LevelInit ==
    /\ flat = [qty |-> Nothing, bits |-> [s \in Side |-> [w \in Words |-> {}]],
               best |-> [s \in Side |-> IF s = "bid" THEN NoBid ELSE NoAsk],
               trades |-> 0, orders |-> [i \in Ids |-> Untracked]]
    /\ map = [qty |-> Nothing, trades |-> 0, cancels |-> 0, modifies |-> 0, orders |-> [i \in Ids |-> Untracked]]
    /\ calls = 0

Call == calls < MaxCalls /\ calls' = calls + 1

\* An order without an id; refused by the flat book, it is not sent to the other.
AddBoth(side, p, n) ==
    /\ Call /\ ValidLevel(p, n)
    /\ flat' = AddLevel(flat, side, p, n) /\ map' = MapAdd(map, side, p, n)

\* The map book has no refusals: it is sent what the flat book takes.
SubmitBoth(id, p, n, side) ==
    /\ Call
    /\ flat' = SubmitWithId(flat, id, p, n, side)
    /\ map' = IF ValidLevel(p, n) /\ flat.orders[id] = Untracked THEN MapAddOrder(map, id, p, n, side) ELSE map

CancelBoth(id) == Call /\ flat' = CancelId(flat, id) /\ map' = MapCancelOrder(map, id)

ModifyBoth(id, p, n) ==
    /\ Call
    /\ flat' = ModifyId(flat, id, p, n)
    /\ map' = IF ValidLevel(p, n) THEN MapModifyOrder(map, id, p, n) ELSE MapCancelOrder(map, id)

LevelNext ==
    \/ \E s \in Side, p \in Prices, n \in Quantities : AddBoth(s, p, n)
    \/ \E id \in Ids, s \in Side, p \in Prices \union {-1, LevelCount}, n \in Quantities : SubmitBoth(id, p, n, s)
    \/ \E id \in Ids : CancelBoth(id)
    \/ \E id \in Ids, p \in Prices \union {LevelCount}, n \in Quantities : ModifyBoth(id, p, n)

LevelSpec == LevelInit /\ [][LevelNext]_levelVars

(***************************************************************************)
(* The flat book is the map book: after the same calls the two have the    *)
(* same levels, orders and trades, although one walks cursors over a       *)
(* bitmap and the other keeps sorted maps; the bitmap marks exactly the    *)
(* levels in use, the cursors are the best of them, no level is negative   *)
(* and the book is never left crossed.  This holds also after a stale id   *)
(* took the shares of others off its level.                                *)
(***************************************************************************)
FlatIsMap ==
    /\ flat.qty = map.qty /\ flat.trades = map.trades /\ flat.orders = map.orders
    /\ \A s \in Side, p \in Prices :
          /\ flat.qty[s][p] >= 0
          /\ (p % WordBits \in flat.bits[s][p \div WordBits]) <=> flat.qty[s][p] > 0
    /\ \A s \in Side : flat.best[s] = MapBest(map, s)
    /\ flat.best["bid"] < flat.best["ask"]

------------------------------------------------------------------------------
(***************************************************************************)
(* orderbook/orderbook_pro_cluster.hpp: several order books under their    *)
(* symbols, found by linear search over the first eight characters.        *)
(*                                                                         *)
(* A book is FullOrderBook as the cluster sees it: the best quotes with    *)
(* their sizes, the orders it has and its counters.  Its snapshot holds    *)
(* the orders only; clear and load_snapshot keep the counters.             *)
(***************************************************************************)
CONSTANTS Slots,             \* N_SYMBOLS
          Names, Packed,     \* names, and the eight characters pack() keeps of each
          Ticks, Sizes,      \* quotes
          MaxMoves           \* bound: changes of the books

VARIABLES books, symbols,    \* by slot; a free slot has symbol Unused
          activeCount, moves,
          saved, loaded      \* the last snapshot; history: outcome of a load just made

clusterVars == <<books, symbols, activeCount, moves, saved, loaded>>

Slot == 1..Slots
Unused == "unused"
NoSide == 0
EmptyBook == [bid |-> NoSide, bidQty |-> 0, ask |-> NoSide, askQty |-> 0, buy |-> 0, sell |-> 0]
UsedSlots == {i \in Slot : symbols[i] # Unused}

ActiveOrders(b) == (IF b.bid # NoSide THEN 1 ELSE 0) + (IF b.ask # NoSide THEN 1 ELSE 0)
TotalVolume(b) == b.buy + b.sell
SpreadTicks(b) == IF b.bid = NoSide \/ b.ask = NoSide THEN -1 ELSE b.ask - b.bid
\* a / b of C++, towards zero
Quotient(a, b) == IF a >= 0 THEN a \div b ELSE -((-a) \div b)
Size(n) == IF n < 0 THEN -n ELSE n
FlowImbalance(b) == IF TotalVolume(b) = 0 THEN 0 ELSE Quotient((b.buy - b.sell) * 10000, TotalVolume(b))

\* find_slot; 0 is none
FindSlot(name) == Min({i \in UsedSlots : symbols[i] = Packed[name]} \union {Slots + 1}) % (Slots + 1)

ClusterInit ==
    /\ books = [i \in Slot |-> EmptyBook] /\ symbols = [i \in Slot |-> Unused]
    /\ activeCount = 0 /\ moves = 0 /\ saved = <<>> /\ loaded = "none"

FirstFree == Min(Slot \ UsedSlots)

RegisterSymbol(name) ==
    /\ FindSlot(name) = 0 /\ UsedSlots # Slot
    /\ symbols' = [symbols EXCEPT ![FirstFree] = Packed[name]]
    /\ activeCount' = activeCount + 1 /\ loaded' = "none"
    /\ UNCHANGED <<books, moves, saved>>

\* book(name): the orders that reach it set a quote or trade against one
Quote(name, side, p, n) ==
    LET i == FindSlot(name)
    IN  /\ moves < MaxMoves /\ i # 0
        /\ books' = [books EXCEPT ![i] = IF side = "bid" THEN [@ EXCEPT !.bid = p, !.bidQty = n]
                                                        ELSE [@ EXCEPT !.ask = p, !.askQty = n]]
        /\ (books'[i].bid # NoSide /\ books'[i].ask # NoSide => books'[i].bid < books'[i].ask)
        /\ moves' = moves + 1 /\ loaded' = "none"
        /\ UNCHANGED <<symbols, activeCount, saved>>

Take(name, side) ==
    LET i == FindSlot(name)
        b == books[i]
    IN  /\ moves < MaxMoves /\ i # 0
        /\ \/ /\ side = "buy" /\ b.ask # NoSide
              /\ books' = [books EXCEPT ![i] = [@ EXCEPT !.buy = @ + b.askQty, !.ask = NoSide, !.askQty = 0]]
           \/ /\ side = "sell" /\ b.bid # NoSide
              /\ books' = [books EXCEPT ![i] = [@ EXCEPT !.sell = @ + b.bidQty, !.bid = NoSide, !.bidQty = 0]]
        /\ moves' = moves + 1 /\ loaded' = "none"
        /\ UNCHANGED <<symbols, activeCount, saved>>

\* serialize_snapshot: the used slots in order, the orders of each
Orders(b) == [bid |-> b.bid, bidQty |-> b.bidQty, ask |-> b.ask, askQty |-> b.askQty]
Image == LET used == SetToSortSeq(UsedSlots, <)
         IN  [k \in DOMAIN used |-> [symbol |-> symbols[used[k]], orders |-> Orders(books[used[k]])]]
SnapshotSizeEstimate == 16 + FoldSet(LAMBDA i, n : n + 17 + 16 + ActiveOrders(books[i]), 0, UsedSlots)

SerializeSnapshot ==
    /\ saved' = Image /\ loaded' = "none"
    /\ UNCHANGED <<books, symbols, activeCount, moves>>

\* the book with its orders replaced; its counters stay
Restored(b, orders) == orders @@ [buy |-> b.buy, sell |-> b.sell]
Cleared(b) == Restored(b, Orders(EmptyBook))

\* Mutant of LoadSnapshot: the books that were in use keep their orders.
LoadSnapshotOver(whole) ==
    LET n == IF whole THEN Len(saved) ELSE Len(saved) - 1
    IN  /\ saved # <<>> /\ moves < MaxMoves
        /\ symbols' = [i \in Slot |-> IF i <= n THEN saved[i].symbol ELSE Unused]
        /\ books' = [i \in Slot |-> IF i <= n /\ saved[i].orders # Orders(EmptyBook)
                                    THEN Restored(books[i], saved[i].orders) ELSE books[i]]
        /\ activeCount' = n
        /\ loaded' = IF whole THEN "all" ELSE "part"
        /\ moves' = moves + 1
        /\ UNCHANGED saved

(***************************************************************************)
(* load_snapshot: the books in use are cleared and the slots given up, and *)
(* the entries are registered and loaded one by one.  A buffer cut before  *)
(* its last entry is noticed only there: the load fails with the entries   *)
(* before it in place and the old books gone.                              *)
(***************************************************************************)
LoadSnapshot(whole) ==
    LET n == IF whole THEN Len(saved) ELSE Len(saved) - 1
        clean == [i \in Slot |-> IF i \in UsedSlots THEN Cleared(books[i]) ELSE books[i]]
    IN  /\ saved # <<>> /\ moves < MaxMoves
        /\ symbols' = [i \in Slot |-> IF i <= n THEN saved[i].symbol ELSE Unused]
        /\ books' = [i \in Slot |-> IF i <= n THEN Restored(clean[i], saved[i].orders) ELSE clean[i]]
        /\ activeCount' = n
        /\ loaded' = IF whole THEN "all" ELSE "part"
        /\ moves' = moves + 1
        /\ UNCHANGED saved

ClusterNext ==
    \/ \E name \in Names : RegisterSymbol(name)
    \/ \E name \in Names, side \in {"bid", "ask"}, p \in Ticks, n \in Sizes : Quote(name, side, p, n)
    \/ \E name \in Names, side \in {"buy", "sell"} : Take(name, side)
    \/ SerializeSnapshot
    \/ \E whole \in BOOLEAN : LoadSnapshot(whole)

ClusterSpec == ClusterInit /\ [][ClusterNext]_clusterVars

------------------------------------------------------------------------------
Across(Of(_)) == FoldSet(LAMBDA i, t : t + Of(books[i]), 0, UsedSlots)
TotalVolumeAcrossAll == Across(TotalVolume)
TotalActiveOrders == Across(ActiveOrders)
Quoted == {i \in UsedSlots : SpreadTicks(books[i]) >= 0}
AvgSpreadTicks ==
    IF Quoted = {} THEN -1
    ELSE FoldSet(LAMBDA i, t : t + SpreadTicks(books[i]), 0, Quoted) \div Cardinality(Quoted)
\* the first slot of the largest value, when one is above the floor
FirstLargest(Of(_), above) ==
    LET high == Max({Of(books[i]) : i \in UsedSlots} \union {above})
    IN  IF high = above THEN 0 ELSE Min({i \in UsedSlots : Of(books[i]) = high})
Magnitude(b) == Size(FlowImbalance(b))
BusiestSymbol == FirstLargest(ActiveOrders, 0)
MostImbalancedSymbol == FirstLargest(Magnitude, -1)
\* the mean spread by volume, as a fraction
WeightedSpread ==
    LET traded == {i \in Quoted : TotalVolume(books[i]) > 0}
    IN  [over |-> FoldSet(LAMBDA i, t : t + SpreadTicks(books[i]) * TotalVolume(books[i]), 0, traded),
         under |-> FoldSet(LAMBDA i, t : t + TotalVolume(books[i]), 0, traded)]
ClusterFlowImbalance ==
    LET buy == Across(LAMBDA b : b.buy)
        sell == Across(LAMBDA b : b.sell)
    IN  IF buy + sell = 0 THEN 0 ELSE Quotient((buy - sell) * 10000, buy + sell)

\* detect_cross_arb: sell at i's bid what is bought at j's ask
ArbPairs == {ij \in UsedSlots \X UsedSlots :
                /\ ij[1] # ij[2]
                /\ books[ij[1]].bid # NoSide /\ books[ij[2]].ask # NoSide
                /\ books[ij[1]].bid > books[ij[2]].ask}
ArbRow(ij) == [long |-> symbols[ij[2]], short |-> symbols[ij[1]],
               spread |-> books[ij[1]].bid - books[ij[2]].ask,
               qty |-> Min({books[ij[2]].askQty, books[ij[1]].bidQty})]
DetectCrossArb(maxN) ==
    LET rows == SetToSortSeq(ArbPairs, LAMBDA a, b : a[1] < b[1] \/ (a[1] = b[1] /\ a[2] < b[2]))
    IN  [k \in 1..Min({maxN, Len(rows)}) |-> ArbRow(rows[k])]
CountCrossArb == Cardinality(ArbPairs)

(***************************************************************************)
(* A symbol has one book: names that agree in eight characters share a     *)
(* slot, others never do, and the count is the slots in use.  After a load *)
(* that succeeded, until the books change, the cluster is what was saved;  *)
(* after one that failed it is a proper prefix of it.  The totals and the  *)
(* arbitrage rows are those of the books in use: every row is a profit     *)
(* between two symbols, in a size both have.                               *)
(***************************************************************************)
ClusterSound ==
    /\ activeCount = Cardinality(UsedSlots)
    /\ \A i, j \in UsedSlots : i # j => symbols[i] # symbols[j]
    /\ \A i \in Slot \ UsedSlots : ActiveOrders(books[i]) = 0
    /\ \A a, b \in Names : FindSlot(a) # 0 => (FindSlot(a) = FindSlot(b) <=> Packed[a] = Packed[b])
    /\ CountCrossArb = Len(DetectCrossArb(Slots * Slots))
    /\ \A maxN \in 0..1 : Len(DetectCrossArb(maxN)) = Min({maxN, CountCrossArb})
    /\ \A k \in DOMAIN DetectCrossArb(Slots * Slots) :
          LET row == DetectCrossArb(Slots * Slots)[k]
          IN  row.long # row.short /\ row.spread > 0 /\ row.qty > 0
    /\ TotalActiveOrders = 0 <=> BusiestSymbol = 0
    /\ UsedSlots = {} <=> MostImbalancedSymbol = 0
    /\ UsedSlots # {} => Magnitude(books[MostImbalancedSymbol]) >= Size(ClusterFlowImbalance)
    /\ TotalVolumeAcrossAll >= WeightedSpread.under
    /\ WeightedSpread.under > 0 => WeightedSpread.over > 0 /\ AvgSpreadTicks >= 0
    /\ SnapshotSizeEstimate = 16 + FoldFunction(LAMBDA e, n : n + 33 + ActiveOrders(e.orders), 0, Image)
    /\ loaded = "all" => Image = saved
    /\ loaded = "part" => Image = SubSeq(saved, 1, Len(saved) - 1)
==============================================================================
