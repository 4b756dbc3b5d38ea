----------------------------- MODULE MarketFeed ------------------------------
(***************************************************************************)
(* The simulated exchange: MarketDataGenerator of simulator/market_sim.hpp *)
(* makes random messages about the orders it keeps in a table.  The k-th   *)
(* message has timestamp k (seq_), and references count from 0 instead of  *)
(* 1000.  An execution or a cancel with no active order adds one instead:  *)
(* it is the step GenerateAddOrder.                                        *)
(***************************************************************************)
EXTENDS FiniteSets, SequencesExt, Integers, FeedTrackers

CONSTANTS TableSize,            \* MAX_ACTIVE_ORDERS
          ShareSizes,           \* SHARE_SIZES
          ExecSizes,            \* the three smallest of them
          MaxMessages           \* bound: messages generated

VARIABLES table,       \* slot -> [ref, shares], shares = 0: not active
          orderRef, activeCount,
          published    \* the messages, in order

marketVars == <<table, orderRef, activeCount, published>>

ActiveSlots == {i \in 1..TableSize : table[i].shares > 0}

MarketInit ==
    /\ table = [i \in 1..TableSize |-> [ref |-> 0, shares |-> 0]]
    /\ orderRef = 0 /\ activeCount = 0 /\ published = <<>>

Publish(m) == Len(published) < MaxMessages /\ published' = Append(published, m)

\* The order goes into the first free slot; with none it is announced all the same.
GenerateAddOrder(n) ==
    LET free == (1..TableSize) \ ActiveSlots
    IN  /\ Publish([type |-> "A", ref |-> orderRef + 1, shares |-> n])
        /\ orderRef' = orderRef + 1
        /\ table' = IF free = {} THEN table ELSE [table EXCEPT ![Min(free)] = [ref |-> orderRef + 1, shares |-> n]]
        /\ activeCount' = IF free = {} THEN activeCount ELSE activeCount + 1

\* Mutant of GenerateExecute: the size drawn is not cut to the order's shares.
GenerateExecuteOver(i, n) ==
    /\ i \in ActiveSlots
    /\ Publish([type |-> "E", ref |-> table[i].ref, shares |-> n])
    /\ table' = [table EXCEPT ![i].shares = IF @ > n THEN @ - n ELSE 0]
    /\ activeCount' = IF table[i].shares <= n THEN activeCount - 1 ELSE activeCount
    /\ UNCHANGED orderRef

GenerateExecute(i, n) ==
    LET shares == Min({table[i].shares, n})
    IN  /\ i \in ActiveSlots
        /\ Publish([type |-> "E", ref |-> table[i].ref, shares |-> shares])
        /\ table' = [table EXCEPT ![i].shares = @ - shares]
        /\ activeCount' = IF table[i].shares = shares THEN activeCount - 1 ELSE activeCount
        /\ UNCHANGED orderRef

GenerateCancel(i) ==
    /\ i \in ActiveSlots
    /\ Publish([type |-> "C", ref |-> table[i].ref, shares |-> table[i].shares])
    /\ table' = [table EXCEPT ![i].shares = 0] /\ activeCount' = activeCount - 1
    /\ UNCHANGED orderRef

GenerateTrade(n) ==
    /\ Publish([type |-> "P", ref |-> 0, shares |-> n])
    /\ UNCHANGED <<table, orderRef, activeCount>>

GenerateSystemEvent ==
    /\ Publish([type |-> "S", ref |-> 0, shares |-> 0])
    /\ UNCHANGED <<table, orderRef, activeCount>>

MarketNext ==
    \/ \E n \in ShareSizes : GenerateAddOrder(n) \/ GenerateTrade(n)
    \/ \E i \in 1..TableSize, n \in ExecSizes : GenerateExecute(i, n)
    \/ \E i \in 1..TableSize : GenerateCancel(i)
    \/ GenerateSystemEvent

MarketSpec == MarketInit /\ [][MarketNext]_marketVars

------------------------------------------------------------------------------
\* the shares of an order that the messages leave
Left(ref) ==
    FoldLeft(LAMBDA n, m : IF m.ref # ref THEN n ELSE IF m.type = "A" THEN m.shares ELSE n - m.shares, 0, published)

(***************************************************************************)
(* The feed can be replayed into a book: an order is announced once,       *)
(* executions and cancels name an order that is alive and never take more  *)
(* than it has, and what they leave is what the table has.  An order that  *)
(* found the table full is announced and never mentioned again.            *)
(***************************************************************************)
FeedReplays ==
    /\ \A r \in 1..orderRef : Left(r) >= 0
    /\ \A i \in ActiveSlots : Left(table[i].ref) = table[i].shares
    /\ activeCount = Cardinality(ActiveSlots)
    /\ \A i, j \in ActiveSlots : i # j => table[i].ref # table[j].ref
    /\ \A i, j \in DOMAIN published :
          published[i].type = "A" /\ published[j].ref = published[i].ref => i <= j

------------------------------------------------------------------------------
(***************************************************************************)
(* The MoldUDP64 framing of multicast/multicast.hpp: datagrams of messages *)
(* with consecutive numbers, written by mold_serialize_packet, read by     *)
(* mold_parse_packet and counted by a SequenceTracker.  The network, which *)
(* is external, loses, repeats, swaps and cuts datagrams.  A message is    *)
(* its number; of the layout the model keeps how many whole blocks there   *)
(* are, which is all the parser's bounds checks tell apart.                *)
(***************************************************************************)
CONSTANTS EndOfSession,         \* MOLD_END_OF_SESSION
          MaxSent,              \* bound: messages sent
          MaxBatch,             \* bound: messages in a datagram
          MaxFaults             \* bound: datagrams lost, repeated, swapped or cut

VARIABLES packed,      \* messages sent so far
          net,         \* datagrams under way
          tracker,     \* the receiver's tracker
          handed,      \* the numbers given to on_msg, in order
          first,       \* history: the number the tracker started at
          faults       \* history: the kinds of fault so far

moldVars == <<packed, net, tracker, handed, first, faults>>

MoldInit ==
    packed = 0 /\ net = <<>> /\ tracker = NewTracker /\ handed = <<>> /\ first = 0 /\ faults = <<>>

Send(p) == Len(net) < 2 /\ net' = Append(net, p) /\ UNCHANGED <<tracker, handed, first, faults>>

\* mold_serialize_packet: the next messages, none for a heartbeat
SerializePacket(n) ==
    /\ packed + n <= MaxSent
    /\ Send([sequence |-> packed + 1, count |-> n, blocks |-> [k \in 1..n |-> packed + k]])
    /\ packed' = packed + n

WriteEndOfSession ==
    /\ Send([sequence |-> packed + 1, count |-> EndOfSession, blocks |-> <<>>])
    /\ UNCHANGED packed

\* Mutant of ParsePacket: the end of the session counts as its number of messages.
ParsePacketControl(p) ==
    /\ tracker' = ObservePacket(tracker, p.sequence, p.count)
    /\ first' = IF tracker.init THEN first ELSE p.sequence
    /\ handed' = handed \o p.blocks

(***************************************************************************)
(* mold_parse_packet: the tracker is told first, then the blocks are read; *)
(* a datagram that ends early is an error after the blocks before the end  *)
(* were given to on_msg.  A repeated datagram is given to it again.        *)
(***************************************************************************)
ParsePacket(p) ==
    LET control == p.count \in {0, EndOfSession}
    IN  /\ tracker' = ObservePacket(tracker, p.sequence, IF control THEN 0 ELSE p.count)
        /\ first' = IF tracker.init THEN first ELSE p.sequence
        /\ handed' = IF control THEN handed ELSE handed \o p.blocks

ReceivePacket == net # <<>> /\ ParsePacket(Head(net)) /\ net' = Tail(net) /\ UNCHANGED <<packed, faults>>

\* The network
Fault(kind) == Len(faults) < MaxFaults /\ faults' = Append(faults, kind) /\ net # <<>> /\ UNCHANGED packed
LosePacket == Fault("lost") /\ net' = Tail(net) /\ UNCHANGED <<tracker, handed, first>>
RepeatPacket == Fault("repeated") /\ ParsePacket(Head(net)) /\ UNCHANGED net
SwapPackets == Fault("swapped") /\ Len(net) = 2 /\ net' = Reverse(net) /\ UNCHANGED <<tracker, handed, first>>
CutPacket ==
    /\ Fault("cut") /\ Head(net).blocks # <<>>
    /\ ParsePacket([Head(net) EXCEPT !.blocks = Front(@)]) /\ net' = Tail(net)

MoldNext ==
    \/ \E n \in 0..MaxBatch : SerializePacket(n)
    \/ WriteEndOfSession \/ ReceivePacket \/ LosePacket \/ RepeatPacket \/ SwapPackets \/ CutPacket

MoldSpec == MoldInit /\ [][MoldNext]_moldVars

------------------------------------------------------------------------------
Met(kind) == kind \in Range(faults)
Counted == Range(handed) \intersect first..(tracker.expected - 1)

(***************************************************************************)
(* From the number it started at, the tracker has every number it passed   *)
(* either received or lost and never both, over loss, repeats, swaps,      *)
(* heartbeats and the end of the session; it expects no number beyond the  *)
(* next to be sent.  Of whole datagrams in order, what it counts as        *)
(* received is what on_msg was given; swapped ones arrive after they were  *)
(* counted lost, and stay so.  A cut one is counted whole.                 *)
(***************************************************************************)
TrackerAccounts ==
    /\ tracker.init => tracker.received + tracker.lost = tracker.expected - first
    /\ tracker.init => tracker.expected <= packed + 1
    /\ ~Met("cut") => /\ tracker.received <= Cardinality(Counted)
                      /\ Cardinality(Counted) <= tracker.received + tracker.lost
    /\ ~Met("cut") /\ ~Met("swapped") => tracker.received = Cardinality(Counted) /\ Range(handed) = Counted
    /\ ~Met("lost") /\ ~Met("swapped") => tracker.lost = 0
    /\ ~Met("repeated") /\ ~Met("swapped") => tracker.duplicates = 0
==============================================================================
