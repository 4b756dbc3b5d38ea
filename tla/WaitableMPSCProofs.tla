------------------------- MODULE WaitableMPSCProofs --------------------------
(***************************************************************************)
(* WaitableMPSC for every SIZE of at least two cells and any number of     *)
(* producers: the MPSC queue under it has no data race on its cells and    *)
(* implements a FIFO; the wait on top of it loses no wake-up as long as    *)
(* the accesses to has_waiter_ and to the queue stay in order, and a wait  *)
(* that reports a wake-up is followed by a pop that succeeds.              *)
(***************************************************************************)
EXTENDS WaitableMPSC, Lemmas

(***************************************************************************)
(* What the code fixes about its constants: the consumer is a thread of    *)
(* its own, and "free" is no thread.  The code admits SIZE = 1, but there  *)
(* "published" and "free in the next lap" are the same sequence number.    *)
(***************************************************************************)
Setting == /\ SIZE \in Nat /\ SIZE >= 2
           /\ Consumer \notin Producer
           /\ "free" \notin Producer /\ "free" # Consumer

Index == 0..(SIZE - 1)
Thread == Producer \cup {Consumer}

LEMMA SizePositive == ASSUME Setting PROVE SIZE \in Nat \ {0}
  BY DEF Setting

\* The cell of a position.
LEMMA CellIndex == ASSUME Setting PROVE \A n \in Nat : Q!Cell(n) \in Index
  BY SizePositive, ModRange DEF Q!Cell, Index

LEMMA CellLap == ASSUME Setting PROVE \A n \in Nat : Q!Cell(n + SIZE) = Q!Cell(n)
  BY SizePositive, ModLap DEF Q!Cell

LEMMA CellDistinct ==
    ASSUME Setting
    PROVE  \A m, n \in Nat : m < n /\ n < m + SIZE => Q!Cell(m) # Q!Cell(n)
  BY SizePositive, ModDistinct DEF Q!Cell

------------------------------------------------------------------------------
(***************************************************************************)
(* The inductive invariant of the queue.  First is the first position      *)
(* whose cell belongs to this lap: pop() frees the cell of tail_ before it *)
(* advances tail_, so in between First is ahead of tail_.  From First on,  *)
(* the positions of one lap cover every cell once, and the sequence number *)
(* of a cell tells whether its position was claimed and published.         *)
(***************************************************************************)
First == IF pc[Consumer] = "advance" THEN tail + 1 ELSE tail

Writing(p) == pc[p] \in {"write", "publish"}

Bounds == First <= head /\ head <= First + SIZE

Producing(p) ==
    /\ pc[p] \in {"idle", "seq", "cas", "write", "publish"}
    /\ pos[p] <= head
    /\ pc[p] # "idle" => val[p] \in Value
    /\ pc[p] = "cas" /\ pos[p] = head => seq[Q!Cell(head)] = head
    /\ Writing(p) => First <= pos[p] /\ pos[p] < head /\ seq[Q!Cell(pos[p])] = pos[p]
    /\ pc[p] = "publish" => data[Q!Cell(pos[p])] = val[p]

Consuming ==
    /\ pc[Consumer] \in {"idle", "read", "release", "advance"}
    /\ pc[Consumer] # "idle" => pos[Consumer] = tail
    /\ pc[Consumer] \in {"read", "release"} => tail < head /\ seq[Q!Cell(tail)] = tail + 1

ProducersApart == \A p, q \in Producer : p # q /\ Writing(p) /\ Writing(q) => pos[p] # pos[q]

CellInv == \A n \in First..(First + SIZE - 1) :
               /\ n < head => seq[Q!Cell(n)] \in {n, n + 1}
               /\ n >= head => seq[Q!Cell(n)] = n

IInv == /\ TypeOK
        /\ Bounds
        /\ \A p \in Producer : Producing(p)
        /\ Consuming
        /\ ProducersApart
        /\ CellInv

(***************************************************************************)
(* The inductive invariant of the wait.  The mutex is held where the code  *)
(* holds it; in order, has_waiter_ is visible from its store to its reset; *)
(* and once the consumer has found the queue empty under the mutex, an     *)
(* item can only be there if the producer that published it has yet to     *)
(* look at has_waiter_ or is on its way to notify.                         *)
(***************************************************************************)
WaitType == /\ machine \in {"buffered", "strict"}
            /\ wpc \in [Thread -> {"queue", "check", "lock", "notify", "set", "test", "sleep", "asleep",
                                   "wake", "late", "lasttest", "clear", "unlock", "final"}]
            /\ \A p \in Producer : wpc[p] \in {"queue", "check", "lock", "notify"}
            /\ wpc[Consumer] \notin {"check", "notify"}
            /\ wpc[Consumer] \notin {"queue", "final"} => pc[Consumer] = "idle"

Locked == /\ wpc[Consumer] \in {"set", "test", "sleep", "lasttest", "clear", "unlock"}
                 => mtx = Consumer
          /\ \A p \in Producer : wpc[p] = "notify" => mtx = p

Visible == machine = "strict" =>
               /\ ~buffered
               /\ wpc[Consumer] \in {"test", "sleep", "asleep", "wake", "late", "lasttest"} => flag

Roused == /\ machine = "strict" /\ wpc[Consumer] \in {"sleep", "asleep"} /\ ~Empty
                 => \E p \in Producer : wpc[p] # "queue"
          /\ wpc[Consumer] \in {"clear", "unlock"} /\ woke => ~Empty
          /\ WokenPopSucceeds

WInv == IInv /\ WaitType /\ Locked /\ Visible /\ Roused

------------------------------------------------------------------------------
LEMMA InitIInv == ASSUME Setting, Init PROVE IInv
<1>1. \A n \in 0..(SIZE - 1) : Q!Cell(n) = n
  BY SizePositive, ModOnce DEF Q!Cell
<1> USE DEF Init, Q!Init, Q!Index, Q!Thread, Setting
<1>2. TypeOK /\ Bounds
  BY DEF TypeOK, Bounds, First
<1>3. CellInv
  BY <1>1 DEF CellInv, First
<1>4. (\A p \in Producer : Producing(p)) /\ Consuming /\ ProducersApart
  BY DEF Producing, Consuming, ProducersApart, Writing
<1> QED BY <1>2, <1>3, <1>4 DEF IInv

\* The invariant, with First named.
LEMMA Facts ==
    ASSUME Setting, IInv
    PROVE  /\ SIZE \in Nat /\ head \in Nat /\ tail \in Nat /\ First \in Nat
           /\ seq \in [Index -> Nat] /\ data \in [Index -> Value \cup {NoValue}]
           /\ pos \in [Thread -> Nat] /\ val \in [Thread -> Value \cup {NoValue}]
           /\ pc \in [Thread -> {"idle", "seq", "cas", "write", "publish", "read", "release", "advance"}]
           /\ First <= head /\ head <= First + SIZE
           /\ Consumer \in Thread /\ Consumer \notin Producer /\ Producer \subseteq Thread
  BY DEF Setting, IInv, TypeOK, Bounds, First, Index, Thread

\* A step of a producer that only moves its locals, outside its claim.
LocalChange(p) ==
    /\ UNCHANGED <<seq, data, head, tail>>
    /\ ~Writing(p)
    /\ pc' = [pc EXCEPT ![p] = pc'[p]]
    /\ pos' = [pos EXCEPT ![p] = pos'[p]]
    /\ val' = [val EXCEPT ![p] = val'[p]]
    /\ pc'[p] \in {"idle", "seq", "cas"}
    /\ pos'[p] \in Nat
    /\ val'[p] \in Value \cup {NoValue}
    /\ pos'[p] <= head
    /\ pc'[p] # "idle" => val'[p] \in Value
    /\ pc'[p] = "cas" /\ pos'[p] = head => seq[Q!Cell(head)] = head

LEMMA LocalStep ==
    ASSUME Setting, IInv, NEW p \in Producer, LocalChange(p)
    PROVE  IInv'
<1> USE DEF Writing, LocalChange, Thread
<1>0. pc'[Consumer] = pc[Consumer] /\ pos'[Consumer] = pos[Consumer] /\ First' = First
  BY Facts DEF First
<1>1. TypeOK'
  BY DEF IInv, TypeOK
<1>2. Bounds' /\ CellInv' /\ Consuming'
  BY <1>0 DEF IInv, Bounds, CellInv, Consuming, Q!Cell
<1>3. ASSUME NEW q \in Producer PROVE Producing(q)'
  BY <1>0, Facts DEF IInv, Producing, Q!Cell
<1>4. ProducersApart'
  BY Facts DEF IInv, ProducersApart
<1> QED BY <1>1, <1>2, <1>3, <1>4 DEF IInv

\* The CAS of a push claims a position less than a lap ahead of First.
LEMMA ClaimStep ==
    ASSUME Setting, IInv, NEW p \in Producer, Q!PushClaim(p)
    PROVE  IInv' /\ head < First + SIZE
<1> USE DEF Writing
<1>1. /\ pc[p] = "cas" /\ pos[p] = head /\ head' = head + 1
      /\ pc' = [pc EXCEPT ![p] = "write"]
      /\ UNCHANGED <<seq, data, tail, pos, val>>
      /\ seq[Q!Cell(head)] = head
  BY DEF Q!PushClaim, Q!Goto, IInv, Producing
<1>2. pc'[Consumer] = pc[Consumer] /\ First' = First
  BY <1>1, Facts DEF First
<1>3. head # First + SIZE
  <2> SUFFICES ASSUME head = First + SIZE PROVE FALSE
    OBVIOUS
  <2>1. seq[Q!Cell(First)] \in {First, First + 1}
    BY Facts DEF IInv, CellInv, Setting
  <2>2. Q!Cell(head) = Q!Cell(First)
    BY CellLap, Facts
  <2> QED BY <1>1, <2>1, <2>2, Facts DEF Setting
<1>4. TypeOK'
  BY <1>1, Facts DEF IInv, TypeOK, Thread
<1>5. Bounds'
  BY <1>1, <1>2, <1>3, Facts DEF Bounds
<1>6. ASSUME NEW q \in Producer PROVE Producing(q)'
  BY <1>1, <1>2, Facts DEF IInv, Producing, Q!Cell
<1>7. Consuming'
  BY <1>1, <1>2, Facts DEF IInv, Consuming, Q!Cell
<1>8. ProducersApart'
  BY <1>1, Facts DEF IInv, ProducersApart, Producing
<1>9. CellInv'
  <2> SUFFICES ASSUME NEW n \in First..(First + SIZE - 1)
               PROVE  /\ n < head + 1 => seq[Q!Cell(n)] \in {n, n + 1}
                      /\ n >= head + 1 => seq[Q!Cell(n)] = n
    BY <1>1, <1>2 DEF CellInv, Q!Cell
  <2>1. CASE n = head
    BY <1>1, <2>1
  <2>2. CASE n # head
    BY <1>1, <2>2, Facts DEF IInv, CellInv
  <2> QED BY <2>1, <2>2
<1> QED BY <1>3, <1>4, <1>5, <1>6, <1>7, <1>8, <1>9, Facts DEF IInv

\* Storing a cell's sequence number disturbs no other position of the lap.
LEMMA OtherCells ==
    ASSUME Setting, IInv, NEW m \in Nat, NEW k \in Nat,
           seq' = [seq EXCEPT ![Q!Cell(m)] = k]
    PROVE  /\ seq' \in [Index -> Nat]
           /\ seq'[Q!Cell(m)] = k
           /\ \A n \in Nat : n # m /\ n < m + SIZE /\ m < n + SIZE
                                => seq'[Q!Cell(n)] = seq[Q!Cell(n)]
<1>1. Q!Cell(m) \in Index
  BY CellIndex
<1>2. ASSUME NEW n \in Nat, n # m, n < m + SIZE, m < n + SIZE
      PROVE  seq'[Q!Cell(n)] = seq[Q!Cell(n)]
  <2>1. Q!Cell(n) # Q!Cell(m)
    BY <1>2, CellDistinct, Facts
  <2> QED BY <1>1, <2>1, CellIndex, Facts
<1> QED BY <1>1, <1>2, Facts

\* Publishing an item.
LEMMA PublishStep ==
    ASSUME Setting, IInv, NEW p \in Producer, Q!PushPublish(p)
    PROVE  /\ IInv'
           /\ pc[Consumer] = "idle" /\ ~Empty => ~Empty'
<1> USE DEF Writing
<1>1. /\ pc[p] = "publish" /\ pc' = [pc EXCEPT ![p] = "idle"]
      /\ UNCHANGED <<data, head, tail, pos, val>>
      /\ pos[p] \in Nat /\ First <= pos[p] /\ pos[p] < head /\ seq[Q!Cell(pos[p])] = pos[p]
  BY Facts DEF Q!PushPublish, Q!Goto, IInv, Producing
<1>2. PICK m \in Nat : m = pos[p]
  BY <1>1
<1>3. /\ seq' \in [Index -> Nat]
      /\ seq'[Q!Cell(m)] = m + 1
      /\ \A n \in Nat : n # m /\ n < m + SIZE /\ m < n + SIZE
                           => seq'[Q!Cell(n)] = seq[Q!Cell(n)]
  <2>1. seq' = [seq EXCEPT ![Q!Cell(m)] = m + 1] /\ m + 1 \in Nat
    BY <1>2 DEF Q!PushPublish
  <2> QED BY <2>1, OtherCells
<1>4. pc'[Consumer] = pc[Consumer] /\ First' = First
  BY <1>1, Facts DEF First
<1>5. TypeOK' /\ Bounds'
  BY <1>1, <1>3, <1>4, Facts DEF IInv, TypeOK, Bounds, Thread, Index
<1>6. ASSUME NEW q \in Producer PROVE Producing(q)'
  <2>0. Producing(q) /\ pos[q] \in Nat
    BY Facts DEF IInv
  <2>1. CASE q = p
    BY <1>1, <2>0, <2>1, Facts DEF Producing
  <2>2. CASE q # p
    <3>1. pc'[q] = pc[q] /\ pos'[q] = pos[q] /\ val'[q] = val[q]
      BY <1>1, <2>2, Facts
    <3>2. Writing(q) => seq'[Q!Cell(pos[q])] = pos[q]
      <4>1. Writing(q) => pos[q] # m
        BY <1>1, <1>2, <2>2 DEF IInv, ProducersApart
      <4> QED BY <1>1, <1>2, <1>3, <2>0, <4>1, Facts DEF Producing
    <3>3. pc[q] = "cas" /\ pos[q] = head => seq'[Q!Cell(head)] = head
      <4> SUFFICES ASSUME pc[q] = "cas", pos[q] = head PROVE seq'[Q!Cell(head)] = head
        OBVIOUS
      <4>1. seq[Q!Cell(head)] = head
        BY <2>0 DEF Producing
      <4>2. head # m + SIZE
        BY <1>1, <1>2, <4>1, CellLap, Facts DEF Setting
      <4>3. head \in Nat /\ head # m /\ head < m + SIZE /\ m < head + SIZE
        BY <1>1, <1>2, <4>2, Facts
      <4> QED BY <1>3, <4>1, <4>3
    <3> QED BY <1>1, <1>4, <2>0, <3>1, <3>2, <3>3 DEF Producing, Q!Cell
  <2> QED BY <2>1, <2>2
<1>7. tail \in Nat /\ First \in {tail, tail + 1}
  BY Facts DEF First
<1>8. ASSUME seq[Q!Cell(tail)] = tail + 1, pc[Consumer] # "advance"
      PROVE  seq'[Q!Cell(tail)] = tail + 1
  BY <1>1, <1>2, <1>3, <1>7, <1>8, Facts DEF First
<1>9. Consuming'
  BY <1>1, <1>4, <1>8, Facts DEF IInv, Consuming, Q!Cell
<1>10. ProducersApart'
  BY <1>1, Facts DEF IInv, ProducersApart
<1>11. CellInv'
  <2> SUFFICES ASSUME NEW n \in First..(First + SIZE - 1)
               PROVE  /\ n < head => seq'[Q!Cell(n)] \in {n, n + 1}
                      /\ n >= head => seq'[Q!Cell(n)] = n
    BY <1>1, <1>4 DEF CellInv, Q!Cell
  <2>1. CASE n = m
    BY <1>1, <1>2, <1>3, <2>1, Facts
  <2>2. CASE n # m
    <3>1. seq'[Q!Cell(n)] = seq[Q!Cell(n)]
      BY <1>1, <1>2, <1>3, <2>2, Facts
    <3> QED BY <3>1 DEF IInv, CellInv
  <2> QED BY <2>1, <2>2
<1>12. pc[Consumer] = "idle" /\ ~Empty => ~Empty'
  BY <1>1, <1>8 DEF Empty, Published, Q!Cell
<1> QED BY <1>5, <1>6, <1>9, <1>10, <1>11, <1>12 DEF IInv

\* Finding the cell of tail_ published.
LEMMA ReadyStep ==
    ASSUME Setting, IInv, PopReady
    PROVE  IInv'
<1> USE DEF Writing
<1>1. /\ pc[Consumer] = "idle" /\ seq[Q!Cell(tail)] = tail + 1
      /\ pos' = [pos EXCEPT ![Consumer] = tail]
      /\ pc' = [pc EXCEPT ![Consumer] = "read"]
      /\ UNCHANGED <<seq, data, head, tail, val>>
  BY DEF PopReady, Q!Goto, Empty, Published
<1>2. /\ First = tail /\ First' = tail /\ pc'[Consumer] = "read" /\ pos'[Consumer] = tail
      /\ \A p \in Producer : pc'[p] = pc[p] /\ pos'[p] = pos[p]
  BY <1>1, Facts DEF First
<1>3. tail < head
  <2>1. tail >= head => seq[Q!Cell(tail)] = tail
    BY <1>2, Facts DEF IInv, CellInv, Setting
  <2> QED BY <1>1, <2>1, Facts
<1>4. TypeOK'
  BY <1>1, Facts DEF IInv, TypeOK, Thread
<1>5. Bounds' /\ CellInv'
  BY <1>1, <1>2 DEF IInv, Bounds, CellInv, Q!Cell
<1>6. ASSUME NEW p \in Producer PROVE Producing(p)'
  BY <1>1, <1>2 DEF IInv, Producing, Q!Cell
<1>7. Consuming' /\ ProducersApart'
  BY <1>1, <1>2, <1>3 DEF IInv, Consuming, ProducersApart, Q!Cell
<1> QED BY <1>4, <1>5, <1>6, <1>7 DEF IInv

\* Copying the payload out.
LEMMA ReadStep ==
    ASSUME Setting, IInv, PopRead
    PROVE  IInv'
<1> USE DEF Writing
<1>1. /\ pc[Consumer] = "read" /\ pc' = [pc EXCEPT ![Consumer] = "release"]
      /\ val' = [val EXCEPT ![Consumer] = data[Q!Cell(pos[Consumer])]]
      /\ UNCHANGED <<seq, data, head, tail, pos>>
      /\ Q!Cell(pos[Consumer]) \in Index
  BY CellIndex, Facts DEF PopRead, Q!Goto
<1>2. /\ First' = First /\ pc'[Consumer] = "release"
      /\ \A p \in Producer : pc'[p] = pc[p] /\ val'[p] = val[p]
  BY <1>1, Facts DEF First
<1>3. TypeOK'
  BY <1>1, Facts DEF IInv, TypeOK, Thread
<1>4. Bounds' /\ CellInv'
  BY <1>1, <1>2 DEF IInv, Bounds, CellInv, Q!Cell
<1>5. ASSUME NEW p \in Producer PROVE Producing(p)'
  BY <1>1, <1>2 DEF IInv, Producing, Q!Cell
<1>6. Consuming' /\ ProducersApart'
  BY <1>1, <1>2 DEF IInv, Consuming, ProducersApart, Q!Cell
<1> QED BY <1>3, <1>4, <1>5, <1>6 DEF IInv

\* Freeing the cell for the next lap: First moves on before tail_ does.
LEMMA ReleaseStep ==
    ASSUME Setting, IInv, PopRelease
    PROVE  IInv'
<1> USE DEF Writing
<1>1. /\ pc[Consumer] = "release" /\ pos[Consumer] = tail /\ tail < head
      /\ seq[Q!Cell(tail)] = tail + 1
      /\ seq' = [seq EXCEPT ![Q!Cell(tail)] = tail + SIZE]
      /\ pc' = [pc EXCEPT ![Consumer] = "advance"]
      /\ UNCHANGED <<data, head, tail, pos, val>>
  BY DEF PopRelease, Q!Goto, IInv, Consuming
<1>2. /\ First = tail /\ First' = tail + 1 /\ pc'[Consumer] = "advance"
      /\ \A p \in Producer : pc'[p] = pc[p]
  BY <1>1, Facts DEF First
<1>3. PICK m \in Nat, k \in Nat : m = tail /\ k = tail + SIZE
  BY Facts
<1>4. /\ seq' \in [Index -> Nat]
      /\ seq'[Q!Cell(m)] = k
      /\ \A n \in Nat : n # m /\ n < m + SIZE /\ m < n + SIZE
                           => seq'[Q!Cell(n)] = seq[Q!Cell(n)]
  <2>1. seq' = [seq EXCEPT ![Q!Cell(m)] = k]
    BY <1>1, <1>3
  <2> QED BY <2>1, OtherCells
<1>5. Q!Cell(k) = Q!Cell(m)
  BY <1>3, CellLap
<1>6. TypeOK' /\ Bounds'
  BY <1>1, <1>2, <1>4, Facts DEF IInv, TypeOK, Bounds, Thread, Index
<1>7. ASSUME NEW p \in Producer PROVE Producing(p)'
  <2>0. Producing(p) /\ pos[p] \in Nat
    BY Facts DEF IInv
  <2>1. Writing(p) => pos[p] # m /\ seq'[Q!Cell(pos[p])] = pos[p]
    <3> SUFFICES ASSUME Writing(p) PROVE pos[p] # m /\ seq'[Q!Cell(pos[p])] = pos[p]
      OBVIOUS
    <3>1. m <= pos[p] /\ pos[p] < head /\ seq[Q!Cell(pos[p])] = pos[p]
      BY <1>2, <1>3, <2>0 DEF Producing
    <3>2. pos[p] # m
      BY <1>1, <1>3, <3>1
    <3>3. pos[p] < m + SIZE /\ m < pos[p] + SIZE
      BY <1>2, <1>3, <2>0, <3>1, <3>2, Facts
    <3> QED BY <1>4, <2>0, <3>1, <3>2, <3>3
  <2>2. pc[p] = "cas" /\ pos[p] = head => seq'[Q!Cell(head)] = head
    <3>1. CASE head = k
      BY <1>4, <1>5, <3>1
    <3>2. CASE head # k
      <4>1. head \in Nat /\ head # m /\ head < m + SIZE /\ m < head + SIZE
        BY <1>1, <1>2, <1>3, <3>2, Facts
      <4> QED BY <1>4, <2>0, <4>1 DEF Producing
    <3> QED BY <3>1, <3>2
  <2> QED BY <1>1, <1>2, <1>3, <2>0, <2>1, <2>2, Facts DEF Producing, Q!Cell
<1>8. Consuming' /\ ProducersApart'
  BY <1>1, <1>2 DEF IInv, Consuming, ProducersApart
<1>9. CellInv'
  <2> SUFFICES ASSUME NEW n \in (m + 1)..(m + SIZE)
               PROVE  /\ n < head => seq'[Q!Cell(n)] \in {n, n + 1}
                      /\ n >= head => seq'[Q!Cell(n)] = n
    BY <1>1, <1>2, <1>3, Facts DEF CellInv, Q!Cell
  <2>1. CASE n = k
    BY <1>2, <1>3, <1>4, <1>5, <2>1, Facts
  <2>2. CASE n # k
    <3>1. n \in First..(First + SIZE - 1) /\ n \in Nat /\ n # m /\ n < m + SIZE /\ m < n + SIZE
      BY <1>2, <1>3, <2>2, Facts
    <3> QED BY <1>4, <3>1 DEF IInv, CellInv
  <2> QED BY <2>1, <2>2
<1> QED BY <1>6, <1>7, <1>8, <1>9 DEF IInv

\* tail_ catches up with First.
LEMMA AdvanceStep ==
    ASSUME Setting, IInv, PopAdvance
    PROVE  IInv'
<1> USE DEF Writing
<1>1. /\ pc[Consumer] = "advance" /\ tail' = tail + 1
      /\ pc' = [pc EXCEPT ![Consumer] = "idle"]
      /\ UNCHANGED <<seq, data, head, pos, val>>
  BY DEF PopAdvance, Q!Goto, IInv, Consuming
<1>2. /\ First' = First /\ pc'[Consumer] = "idle"
      /\ \A p \in Producer : pc'[p] = pc[p]
  BY <1>1, Facts DEF First
<1>3. TypeOK'
  BY <1>1, Facts DEF IInv, TypeOK, Thread
<1>4. Bounds' /\ CellInv'
  BY <1>1, <1>2 DEF IInv, Bounds, CellInv, Q!Cell
<1>5. ASSUME NEW p \in Producer PROVE Producing(p)'
  BY <1>1, <1>2 DEF IInv, Producing, Q!Cell
<1>6. Consuming' /\ ProducersApart'
  BY <1>1, <1>2 DEF IInv, Consuming, ProducersApart
<1> QED BY <1>3, <1>4, <1>5, <1>6 DEF IInv

\* The cells of two claimed positions, and the cell being read, differ.
LEMMA CellsApart ==
    ASSUME Setting, IInv
    PROVE  /\ \A p, q \in Producer : p # q /\ Writing(p) /\ Writing(q)
                                        => Q!Cell(pos[p]) # Q!Cell(pos[q])
           /\ \A p \in Producer : Writing(p) /\ pc[Consumer] = "read"
                                     => Q!Cell(pos[p]) # Q!Cell(pos[Consumer])
<1>1. ASSUME NEW p \in Producer, Writing(p)
      PROVE  pos[p] \in Nat /\ First <= pos[p] /\ pos[p] < head
  BY <1>1, Facts DEF IInv, Producing
<1>2. ASSUME NEW m \in Nat, NEW n \in Nat, First <= m, m < head, First <= n, n < head, m # n
      PROVE  Q!Cell(m) # Q!Cell(n)
  <2>1. (m < n /\ n < m + SIZE) \/ (n < m /\ m < n + SIZE)
    BY <1>2, Facts
  <2> QED BY <2>1, CellDistinct
<1>3. ASSUME NEW p \in Producer, NEW q \in Producer, p # q, Writing(p), Writing(q)
      PROVE  Q!Cell(pos[p]) # Q!Cell(pos[q])
  BY <1>1, <1>2, <1>3 DEF IInv, ProducersApart
<1>4. ASSUME NEW p \in Producer, Writing(p), pc[Consumer] = "read"
      PROVE  Q!Cell(pos[p]) # Q!Cell(pos[Consumer])
  <2>1. pos[Consumer] = tail /\ tail < head /\ First = tail /\ seq[Q!Cell(tail)] = tail + 1
    BY <1>4 DEF IInv, Consuming, First
  <2>2. seq[Q!Cell(pos[p])] = pos[p]
    BY <1>4 DEF IInv, Producing
  <2> QED BY <1>1, <1>2, <1>4, <2>1, <2>2, Facts
<1> QED BY <1>3, <1>4

\* Writing a cell's payload.
LEMMA WriteStep ==
    ASSUME Setting, IInv, NEW p \in Producer, Q!PushWrite(p)
    PROVE  IInv'
<1> USE DEF Writing
<1>1. /\ pc[p] = "write" /\ pc' = [pc EXCEPT ![p] = "publish"]
      /\ data' = [data EXCEPT ![Q!Cell(pos[p])] = val[p]]
      /\ UNCHANGED <<seq, head, tail, pos, val>>
      /\ Q!Cell(pos[p]) \in Index
  BY CellIndex, Facts DEF Q!PushWrite, Q!Goto
<1>2. /\ First' = First /\ pc'[Consumer] = pc[Consumer] /\ pc'[p] = "publish"
      /\ \A q \in Producer : q # p => pc'[q] = pc[q]
  BY <1>1, Facts DEF First
<1>3. TypeOK'
  BY <1>1, Facts DEF IInv, TypeOK, Thread, Index
<1>4. Bounds' /\ CellInv' /\ Consuming'
  BY <1>1, <1>2 DEF IInv, Bounds, CellInv, Consuming, Q!Cell
<1>5. ASSUME NEW q \in Producer PROVE Producing(q)'
  <2>1. CASE q = p
    BY <1>1, <1>2, <2>1, Facts DEF IInv, Producing, Q!Cell
  <2>2. CASE q # p
    <3>1. pc[q] = "publish" => data'[Q!Cell(pos[q])] = data[Q!Cell(pos[q])]
      BY <1>1, <2>2, CellsApart, CellIndex, Facts
    <3> QED BY <1>1, <1>2, <2>2, <3>1 DEF IInv, Producing, Q!Cell
  <2> QED BY <2>1, <2>2
<1>6. ProducersApart'
  BY <1>1, <1>2 DEF IInv, ProducersApart
<1> QED BY <1>3, <1>4, <1>5, <1>6 DEF IInv

\* The other steps of a producer change only its locals.
LEMMA PushCases ==
    ASSUME Setting, IInv, NEW p \in Producer, Push(p)
    PROVE  LocalChange(p) \/ Q!PushClaim(p) \/ Q!PushWrite(p) \/ Q!PushPublish(p)
<1>0. /\ pos[p] \in Nat /\ pos[p] <= head /\ val[p] \in Value \cup {NoValue}
      /\ pc[p] # "idle" => val[p] \in Value
      /\ p \in Thread
  BY Facts DEF IInv, Producing
<1> USE DEF Q!Goto, Writing, LocalChange
<1>1. ASSUME NEW v \in Value, Q!PushBegin(p, v) PROVE LocalChange(p)
  BY <1>0, <1>1, Facts DEF Q!PushBegin
<1>2. CASE Q!PushFree(p)
  BY <1>0, <1>2, Facts DEF Q!PushFree
<1>3. CASE Q!PushFull(p)
  BY <1>0, <1>3, Facts DEF Q!PushFull
<1>4. CASE Q!PushReload(p)
  BY <1>0, <1>4, Facts DEF Q!PushReload
<1>5. CASE Q!PushRetry(p)
  BY <1>0, <1>5, Facts DEF Q!PushRetry
<1> QED BY <1>1, <1>2, <1>3, <1>4, <1>5 DEF Push, Q!Push

LEMMA StepIInv ==
    ASSUME Setting
    PROVE  IInv /\ [Next]_vars => IInv'
<1> SUFFICES ASSUME IInv, [Next]_vars PROVE IInv'
  OBVIOUS
<1>1. ASSUME NEW p \in Producer, Push(p) PROVE IInv'
  BY <1>1, PushCases, LocalStep, ClaimStep, WriteStep, PublishStep
<1>2. CASE UNCHANGED vars
  BY <1>2 DEF vars, IInv, TypeOK, Bounds, First, Producing, Consuming, ProducersApart,
              CellInv, Writing, Q!Cell
<1>3. CASE Pop
  BY <1>2, <1>3, ReadyStep, ReadStep, ReleaseStep, AdvanceStep DEF Pop, PopEmpty
<1> QED BY <1>1, <1>2, <1>3 DEF Next

THEOREM Invariance == ASSUME Setting PROVE Spec => []IInv
  BY InitIInv, StepIInv, PTL DEF Spec

\* Every step of the waitable queue is a step of the queue or leaves it alone.
LEMMA WaitSteps ==
    WNext => \/ \E p \in Producer : PushStep(p)
             \/ PopStep
             \/ UNCHANGED vars
  BY DEF WNext, Notifier, CheckWaiter, PushLock, Notify, PopWait, WaitLock, SetWaiter, TestReady,
         TestEmpty, Sleep, TestTimeout, Relock, ClearWaiter, WaitUnlock, Drain, Spurious, Timeout

THEOREM WaitKeepsQueue == WSpec => Spec
<1>1. WInit => Init
  BY DEF WInit
<1>2. [WNext]_<<vars, wvars>> => [Next]_vars
  BY WaitSteps DEF PushStep, PopStep, Next
<1> QED BY <1>1, <1>2, PTL DEF WSpec, Spec

\* Cells, counters and locals keep their types, whoever waits.
THEOREM TypeCorrect == ASSUME Setting PROVE WSpec => []TypeOK
<1>1. IInv => TypeOK
  BY DEF IInv
<1> QED BY <1>1, Invariance, WaitKeepsQueue, PTL

\* The payload of a cell is accessed by one thread at a time.
THEOREM CellRaceFree == ASSUME Setting PROVE WSpec => []NoCellRace
<1>1. ASSUME IInv PROVE NoCellRace
  <2> SUFFICES ASSUME NEW t \in Thread, NEW u \in Thread, t # u,
                      pc[t] \in {"write", "read"}, pc[u] \in {"write", "read"}
               PROVE  Q!Cell(pos[t]) # Q!Cell(pos[u])
    BY DEF NoCellRace, Q!NoCellRace, Q!Thread, Thread
  <2>1. \A v \in {t, u} : \/ v \in Producer /\ Writing(v)
                          \/ v = Consumer /\ pc[v] = "read"
    BY <1>1 DEF IInv, Producing, Consuming, Writing, Thread
  <2> QED BY <1>1, <2>1, CellsApart
<1> QED BY <1>1, Invariance, WaitKeepsQueue, PTL

------------------------------------------------------------------------------
(***************************************************************************)
(* The refinement.                                                         *)
(***************************************************************************)
Any == Value \cup {NoValue}

\* The item at a position is its producer's until it is published.
Items ==
    /\ Taken \in Nat /\ First <= Taken /\ Taken <= head /\ head - Taken \in Nat
    /\ \A n \in Nat : Q!ItemAt(n) \in Any
    /\ \A n \in Nat : \A p \in Producer : Q!Claims(p, n) => Q!ItemAt(n) = val[p]
    /\ \A n \in Nat : (\A p \in Producer : ~Q!Claims(p, n)) => Q!ItemAt(n) = data[Q!Cell(n)]
    /\ Contents \in [1..(head - Taken) -> Any]
    /\ \A a \in Nat : a = Taken =>
            \A i \in 1..(head - Taken) : Contents[i] = Q!ItemAt(a + i - 1)

LEMMA ItemsOK == ASSUME Setting PROVE IInv => Items
<1> SUFFICES ASSUME IInv PROVE Items
  OBVIOUS
<1>1. Taken \in Nat /\ First <= Taken /\ Taken <= head /\ head - Taken \in Nat
  BY Facts DEF IInv, Consuming, Taken, First
<1>2. ASSUME NEW n \in Nat PROVE Q!ItemAt(n) \in Any
  <2>1. ASSUME NEW p \in Producer, Q!Claims(p, n)
        PROVE  (CHOOSE q \in Producer : Q!Claims(q, n)) \in Thread
    BY <2>1 DEF Thread
  <2> QED BY <2>1, CellIndex, Facts DEF Q!ItemAt, Any
<1>3. ASSUME NEW n \in Nat, NEW p \in Producer, Q!Claims(p, n) PROVE Q!ItemAt(n) = val[p]
  <2> DEFINE q == CHOOSE q \in Producer : Q!Claims(q, n)
  <2>1. q \in Producer /\ Q!Claims(q, n)
    BY <1>3
  <2>2. q = p
    BY <1>3, <2>1 DEF IInv, ProducersApart, Writing, Q!Claims
  <2> QED BY <1>3, <2>2 DEF Q!ItemAt
<1>4. ASSUME NEW n \in Nat, \A p \in Producer : ~Q!Claims(p, n)
      PROVE  Q!ItemAt(n) = data[Q!Cell(n)]
  BY <1>4 DEF Q!ItemAt
<1>5. \A i \in 1..(head - Taken) : Taken + i - 1 \in Nat
  BY <1>1
<1>6. Contents \in [1..(head - Taken) -> Any]
  BY <1>2, <1>5 DEF Contents
<1> QED BY <1>1, <1>2, <1>3, <1>4, <1>6 DEF Items, Contents

LEMMA ItemsOKNext == ASSUME Setting PROVE IInv' => Items'
  BY ItemsOK, PTL

\* If the claims and their items stay, and the payload of an unclaimed
\* position stays, the position keeps its item.
LEMMA ItemKept ==
    ASSUME Setting, IInv, IInv', NEW n \in Nat,
           \A p \in Producer : Q!Claims(p, n)' <=> Q!Claims(p, n),
           \A p \in Producer : Q!Claims(p, n) => val'[p] = val[p],
           (\A p \in Producer : ~Q!Claims(p, n)) => data'[Q!Cell(n)] = data[Q!Cell(n)]
    PROVE  Q!ItemAt(n)' = Q!ItemAt(n)
<1>1. Items /\ Items'
  BY ItemsOK, ItemsOKNext
<1>2. CASE \E p \in Producer : Q!Claims(p, n)
  <2>1. PICK p \in Producer : Q!Claims(p, n)
    BY <1>2
  <2>2. Q!ItemAt(n) = val[p] /\ Q!ItemAt(n)' = val'[p]
    BY <1>1, <2>1 DEF Items
  <2> QED BY <2>1, <2>2
<1>3. CASE \A p \in Producer : ~Q!Claims(p, n)
  BY <1>1, <1>3 DEF Items
<1> QED BY <1>2, <1>3

\* A step that keeps both ends, every item between them and the consumer's
\* item is invisible.
LEMMA Invisible ==
    ASSUME Setting, IInv, IInv', head' = head, Taken' = Taken,
           val'[Consumer] = val[Consumer],
           \A n \in Nat : Taken <= n /\ n < head => Q!ItemAt(n)' = Q!ItemAt(n)
    PROVE  UNCHANGED FIFO!vars
<1>1. PICK a \in Nat, k \in Nat : a = Taken /\ k = head - Taken /\ a + k = head
  BY ItemsOK, Facts DEF Items
<1>2. Contents = [i \in 1..k |-> Q!ItemAt(a + i - 1)]
  BY <1>1 DEF Contents
<1>3. Contents' = [i \in 1..k |-> Q!ItemAt(a + i - 1)']
  BY <1>1 DEF Contents
<1>4. ASSUME NEW i \in 1..k PROVE Q!ItemAt(a + i - 1)' = Q!ItemAt(a + i - 1)
  <2> DEFINE n == a + i - 1
  <2>1. n \in Nat /\ Taken <= n /\ n < head
    BY <1>1
  <2> QED BY <2>1
<1> QED BY <1>2, <1>3, <1>4 DEF FIFO!vars

LEMMA InitFIFO == ASSUME Setting, Init PROVE FIFO!Init
  BY DEF Init, Q!Init, Q!Thread, FIFO!Init, Contents, Taken

\* A producer's steps outside its claim are invisible.
LEMMA LocalFIFO ==
    ASSUME Setting, IInv, IInv', NEW p \in Producer, LocalChange(p)
    PROVE  UNCHANGED FIFO!vars
<1>1. /\ Taken' = Taken /\ val'[Consumer] = val[Consumer]
      /\ \A q \in Producer \ {p} : pc'[q] = pc[q] /\ pos'[q] = pos[q] /\ val'[q] = val[q]
  BY Facts DEF LocalChange, Taken
<1>2. ASSUME NEW n \in Nat, NEW q \in Producer
      PROVE  /\ Q!Claims(q, n)' <=> Q!Claims(q, n)
             /\ Q!Claims(q, n) => val'[q] = val[q]
  BY <1>1 DEF LocalChange, Q!Claims, Writing
<1>3. \A n \in Nat : Q!ItemAt(n)' = Q!ItemAt(n)
  BY <1>2, ItemKept DEF LocalChange
<1> QED BY <1>1, <1>3, Invisible DEF LocalChange

\* The claim of a position enqueues its item.
LEMMA ClaimFIFO ==
    ASSUME Setting, IInv, IInv', NEW p \in Producer, Q!PushClaim(p)
    PROVE  FIFO!Enqueue(val[p]) /\ val[p] \in Value
<1>0. Items /\ Items'
  BY ItemsOK, ItemsOKNext
<1>1. /\ pc[p] = "cas" /\ pos[p] = head /\ head' = head + 1
      /\ pc' = [pc EXCEPT ![p] = "write"]
      /\ UNCHANGED <<seq, data, tail, pos, val>>
      /\ val[p] \in Value /\ val[p] \in Any /\ p \in Thread
  BY Facts DEF Q!PushClaim, Q!Goto, IInv, Producing, Any
<1>2. /\ Taken' = Taken /\ pc'[p] = "write"
      /\ \A q \in Producer \ {p} : pc'[q] = pc[q]
  BY <1>1, Facts DEF Taken
<1>3. PICK h \in Nat, b \in Nat, k \in Nat : h = head /\ b = Taken /\ k = h - b
  BY <1>0, Facts DEF Items
<1>4. k < SIZE /\ head - Taken = k /\ head' - Taken' = k + 1 /\ b + k = h
  <2>1. head < First + SIZE
    BY ClaimStep
  <2>2. First <= Taken /\ First \in Nat /\ head \in Nat /\ SIZE \in Nat /\ Taken \in Nat
    BY ONLY <1>0, Setting, IInv, Facts DEF Items
  <2>3. h = head /\ b = Taken /\ k = h - b /\ head' = head + 1 /\ Taken' = Taken
    BY ONLY <1>1, <1>2, <1>3
  <2> QED BY ONLY <2>1, <2>2, <2>3
<1>5. ASSUME NEW n \in Nat, n < h PROVE Q!ItemAt(n)' = Q!ItemAt(n)
  <2>1. \A q \in Producer : Q!Claims(q, n)' <=> Q!Claims(q, n)
    BY <1>1, <1>2, <1>3, <1>5 DEF Q!Claims
  <2> QED BY <1>1, <2>1, ItemKept
<1>6. Q!ItemAt(h)' = val[p]
  <2>1. Q!Claims(p, h)'
    BY <1>1, <1>2, <1>3 DEF Q!Claims
  <2> QED BY <1>0, <1>1, <2>1 DEF Items
<1>7. /\ Contents \in [1..k -> Any]
      /\ \A i \in 1..k : Contents[i] = Q!ItemAt(b + i - 1)
  BY <1>0, <1>3, <1>4 DEF Items
<1>8. /\ Contents' \in [1..(k + 1) -> Any]
      /\ \A i \in 1..(k + 1) : Contents'[i] = Q!ItemAt(b + i - 1)'
  <2>1. /\ Contents' \in [1..(head' - Taken') -> Any]
        /\ \A i \in 1..(head' - Taken') : Contents'[i] = Q!ItemAt(b + i - 1)'
    BY <1>0, <1>2, <1>3 DEF Items, Any
  <2> QED BY <1>4, <2>1
<1>9. /\ Contents'[k + 1] = val[p]
      /\ \A i \in 1..k : Contents'[i] = Contents[i]
  <2>1. b + (k + 1) - 1 = h /\ k + 1 \in 1..(k + 1)
    BY <1>4
  <2>2. Contents'[k + 1] = val[p]
    BY <1>6, <1>8, <2>1
  <2>3. ASSUME NEW i \in 1..k PROVE Contents'[i] = Contents[i]
    <3>1. b + i - 1 \in Nat /\ b + i - 1 < h /\ i \in 1..(k + 1)
      BY <1>4
    <3> QED BY <3>1, <1>5, <1>7, <1>8
  <2> QED BY <2>2, <2>3
<1>10. Len(Contents) = k /\ Contents' = Append(Contents, val[p])
  BY <1>1, <1>7, <1>8, <1>9, WindowAppend
<1> QED BY <1>1, <1>4, <1>10 DEF FIFO!Enqueue

\* Copying the item out dequeues it.
LEMMA ReadFIFO ==
    ASSUME Setting, IInv, IInv', PopRead
    PROVE  FIFO!Dequeue(Consumer)
<1>0. Items /\ Items'
  BY ItemsOK, ItemsOKNext
<1>1. /\ pc[Consumer] = "read" /\ pc' = [pc EXCEPT ![Consumer] = "release"]
      /\ pos[Consumer] = tail /\ tail < head
      /\ val' = [val EXCEPT ![Consumer] = data[Q!Cell(tail)]]
      /\ UNCHANGED <<seq, data, head, tail, pos>>
  BY DEF PopRead, Q!Goto, IInv, Consuming
<1>2. /\ Taken = tail /\ Taken' = tail + 1 /\ val'[Consumer] = data[Q!Cell(tail)]
      /\ \A q \in Producer : pc'[q] = pc[q] /\ val'[q] = val[q]
  BY <1>1, Facts DEF Taken
<1>3. PICK h \in Nat, b \in Nat, k \in Nat \ {0} : h = head /\ b = tail /\ k = h - b
  BY <1>1, Facts
<1>4. head - Taken = k /\ head' - Taken' = k - 1
  BY <1>1, <1>2, <1>3
<1>5. ASSUME NEW n \in Nat PROVE Q!ItemAt(n)' = Q!ItemAt(n)
  <2>1. \A q \in Producer : Q!Claims(q, n)' <=> Q!Claims(q, n)
    BY <1>1, <1>2 DEF Q!Claims
  <2> QED BY <1>1, <1>2, <2>1, ItemKept
<1>6. Q!ItemAt(b) = data[Q!Cell(b)]
  <2>1. \A p \in Producer : ~Q!Claims(p, b)
    <3>1. seq[Q!Cell(tail)] = tail + 1 /\ tail \in Nat
      BY <1>1, Facts DEF IInv, Consuming
    <3>2. \A p \in Producer : Writing(p) => seq[Q!Cell(pos[p])] = pos[p]
      BY DEF IInv, Producing
    <3> QED BY <1>3, <3>1, <3>2 DEF Q!Claims, Writing
  <2> QED BY <1>0, <2>1 DEF Items
<1>7. /\ Contents \in [1..k -> Any]
      /\ \A i \in 1..k : Contents[i] = Q!ItemAt(b + i - 1)
  BY <1>0, <1>2, <1>3, <1>4 DEF Items
<1>8. /\ Contents' \in [1..(k - 1) -> Any]
      /\ \A i \in 1..(k - 1) : Contents'[i] = Q!ItemAt((b + 1) + i - 1)'
  <2>1. PICK a \in Nat : a = Taken' /\ a = b + 1
    BY <1>2, <1>3
  <2>2. /\ Contents' \in [1..(head' - Taken') -> Any]
        /\ \A i \in 1..(head' - Taken') : Contents'[i] = Q!ItemAt(a + i - 1)'
    BY <1>0, <2>1 DEF Items, Any
  <2> QED BY <1>4, <2>1, <2>2
<1>9. ASSUME NEW i \in 1..(k - 1) PROVE Contents'[i] = Contents[i + 1]
  <2>1. /\ (b + 1) + i - 1 = b + (i + 1) - 1
        /\ b + (i + 1) - 1 \in Nat /\ i + 1 \in 1..k
    BY <1>3
  <2> QED BY <2>1, <1>5, <1>7, <1>8
<1>10. Contents[1] = data[Q!Cell(b)]
  <2>1. b + 1 - 1 = b /\ 1 \in 1..k
    OBVIOUS
  <2> QED BY <1>6, <1>7, <2>1
<1>11. /\ Contents # <<>>
       /\ Head(Contents) = Contents[1]
       /\ Contents' = Tail(Contents)
  BY <1>7, <1>8, <1>9, WindowTail
<1> QED BY <1>2, <1>3, <1>10, <1>11 DEF FIFO!Dequeue

\* Writing the payload of a claimed cell disturbs no other item.
LEMMA WriteFIFO ==
    ASSUME Setting, IInv, IInv', NEW p \in Producer, Q!PushWrite(p)
    PROVE  UNCHANGED FIFO!vars
<1>1. /\ pc[p] = "write" /\ pc' = [pc EXCEPT ![p] = "publish"]
      /\ data' = [data EXCEPT ![Q!Cell(pos[p])] = val[p]]
      /\ UNCHANGED <<seq, head, tail, pos, val>>
      /\ pos[p] \in Nat /\ First <= pos[p] /\ pos[p] < head
  BY Facts DEF Q!PushWrite, Q!Goto, IInv, Producing, Writing
<1>2. /\ Taken' = Taken /\ pc'[p] = "publish"
      /\ \A q \in Producer \ {p} : pc'[q] = pc[q]
  BY <1>1, Facts DEF Taken
<1>3. ASSUME NEW n \in Nat, Taken <= n, n < head PROVE Q!ItemAt(n)' = Q!ItemAt(n)
  <2>1. \A q \in Producer : Q!Claims(q, n)' <=> Q!Claims(q, n)
    BY <1>1, <1>2 DEF Q!Claims
  <2>2. ASSUME \A q \in Producer : ~Q!Claims(q, n)
        PROVE  data'[Q!Cell(n)] = data[Q!Cell(n)]
    <3>1. n # pos[p]
      BY <1>1, <2>2 DEF Q!Claims
    <3>2. (n < pos[p] /\ pos[p] < n + SIZE) \/ (pos[p] < n /\ n < pos[p] + SIZE)
      BY <1>1, <1>3, <3>1, ItemsOK, Facts DEF Items
    <3>3. Q!Cell(n) # Q!Cell(pos[p])
      BY <1>1, <3>2, CellDistinct
    <3> QED BY <1>1, <3>3, CellIndex, Facts
  <2> QED BY <1>1, <2>1, <2>2, ItemKept
<1> QED BY <1>1, <1>2, <1>3, Invisible

\* Publishing hands the item over from the producer to its cell.
LEMMA PublishFIFO ==
    ASSUME Setting, IInv, IInv', NEW p \in Producer, Q!PushPublish(p)
    PROVE  UNCHANGED FIFO!vars
<1>0. Items /\ Items'
  BY ItemsOK, ItemsOKNext
<1>1. /\ pc[p] = "publish" /\ pc' = [pc EXCEPT ![p] = "idle"]
      /\ UNCHANGED <<data, head, tail, pos, val>>
      /\ data[Q!Cell(pos[p])] = val[p]
      /\ \A q \in Producer : q # p /\ Writing(q) => pos[q] # pos[p]
  BY DEF Q!PushPublish, Q!Goto, IInv, Producing, ProducersApart, Writing
<1>2. /\ Taken' = Taken /\ pc'[p] = "idle"
      /\ \A q \in Producer \ {p} : pc'[q] = pc[q]
  BY <1>1, Facts DEF Taken
<1>3. PICK m \in Nat : m = pos[p]
  BY Facts
<1>4. Q!ItemAt(m)' = Q!ItemAt(m)
  <2>1. Q!Claims(p, m) /\ \A q \in Producer : ~Q!Claims(q, m)'
    BY <1>1, <1>2, <1>3 DEF Q!Claims, Writing
  <2>2. Q!ItemAt(m) = val[p] /\ Q!ItemAt(m)' = data'[Q!Cell(m)]
    BY <1>0, <2>1 DEF Items, Q!Cell
  <2> QED BY <1>1, <1>3, <2>2
<1>5. ASSUME NEW n \in Nat, n # m PROVE Q!ItemAt(n)' = Q!ItemAt(n)
  <2>1. \A q \in Producer : Q!Claims(q, n)' <=> Q!Claims(q, n)
    BY <1>1, <1>2, <1>3, <1>5 DEF Q!Claims
  <2> QED BY <1>1, <2>1, ItemKept
<1> QED BY <1>1, <1>2, <1>4, <1>5, Invisible

\* Finding a cell published, freeing it and advancing tail_ are invisible.
LEMMA PopFIFO ==
    ASSUME Setting, IInv, IInv', PopReady \/ PopRelease \/ PopAdvance
    PROVE  UNCHANGED FIFO!vars
<1>1. /\ UNCHANGED <<data, head, val>>
      /\ \A q \in Producer : pc'[q] = pc[q] /\ pos'[q] = pos[q]
  BY Facts DEF PopReady, PopRelease, PopAdvance, Q!Goto
<1>2. Taken' = Taken
  BY Facts DEF PopReady, PopRelease, PopAdvance, Q!Goto, Taken, IInv, Consuming
<1>3. ASSUME NEW n \in Nat PROVE Q!ItemAt(n)' = Q!ItemAt(n)
  <2>1. \A q \in Producer : Q!Claims(q, n)' <=> Q!Claims(q, n)
    BY <1>1 DEF Q!Claims
  <2> QED BY <1>1, <2>1, ItemKept
<1> QED BY <1>1, <1>2, <1>3, Invisible

LEMMA StepFIFO ==
    ASSUME Setting, IInv, IInv', [Next]_vars
    PROVE  [FIFO!Next]_FIFO!vars
<1>1. ASSUME NEW p \in Producer, Push(p) PROVE [FIFO!Next]_FIFO!vars
  <2>1. CASE Q!PushClaim(p)
    BY <2>1, ClaimFIFO DEF FIFO!Next
  <2> QED BY <1>1, <2>1, PushCases, LocalFIFO, WriteFIFO, PublishFIFO
<1>2. CASE UNCHANGED vars
  BY <1>2 DEF vars, FIFO!vars, Contents, Taken, Q!ItemAt, Q!Claims, Q!Cell
<1>3. CASE Pop
  <2>1. CASE PopRead
    BY <2>1, ReadFIFO DEF FIFO!Next
  <2> QED BY <1>2, <1>3, <2>1, PopFIFO DEF Pop, PopEmpty
<1> QED BY <1>1, <1>2, <1>3 DEF Next

\* The queue, waited on or not, implements a FIFO of capacity() items for any
\* number of producers: the cell that is free before tail_ has moved is not
\* counted twice.
THEOREM QueueRefinement == ASSUME Setting PROVE WSpec => ImplementsFIFO
<1>1. Spec => []IInv
  BY Invariance
<1>2. IInv /\ IInv' /\ [Next]_vars => [FIFO!Next]_FIFO!vars
  BY StepFIFO
<1>3. Init => FIFO!Init
  BY InitFIFO
<1> QED BY <1>1, <1>2, <1>3, WaitKeepsQueue, PTL DEF Spec, ImplementsFIFO, FIFO!Spec

------------------------------------------------------------------------------
(***************************************************************************)
(* The wait.                                                               *)
(***************************************************************************)
LEMMA InitWInv == ASSUME Setting, WInit PROVE WInv
<1>1. IInv
  BY InitIInv DEF WInit
<1>2. WaitType /\ Locked /\ Visible /\ Roused
  BY DEF Setting, WInit, Init, Q!Init, WaitType, Locked, Visible, Roused, WokenPopSucceeds,
         Thread, Q!Thread
<1> QED BY <1>1, <1>2 DEF WInv

\* A step of push: only the publish changes what the consumer can see, and
\* it is followed by a look at has_waiter_.
LEMMA PushStepWInv ==
    ASSUME Setting, WInv, NEW p \in Producer, PushStep(p)
    PROVE  WInv'
<1> USE DEF WInv
<1>1. /\ wpc[p] = "queue" /\ Push(p)
      /\ wpc' = IF pc[p] = "publish" THEN [wpc EXCEPT ![p] = "check"] ELSE wpc
      /\ UNCHANGED <<machine, flag, buffered, mtx, woke>>
  BY DEF PushStep, WGoto
<1>2. IInv'
  BY <1>1, PushCases, LocalStep, ClaimStep, WriteStep, PublishStep
<1>3. /\ wpc'[Consumer] = wpc[Consumer] /\ pc'[Consumer] = pc[Consumer] /\ tail' = tail
      /\ \A q \in Producer \ {p} : wpc'[q] = wpc[q]
      /\ wpc'[p] \in {"queue", "check"}
      /\ pc[p] = "publish" => wpc'[p] = "check"
  BY <1>1, PushCases, Facts DEF LocalChange, Q!PushClaim, Q!PushWrite, Q!PushPublish, Q!Goto, WaitType
<1>4. /\ pc[p] # "publish" => (Empty' <=> Empty)
      /\ pc[Consumer] = "idle" /\ ~Empty => ~Empty'
  <2>1. CASE Q!PushPublish(p)
    BY <2>1, PublishStep DEF Q!PushPublish
  <2>2. CASE ~Q!PushPublish(p)
    BY <1>1, <2>2, PushCases DEF LocalChange, Q!PushClaim, Q!PushWrite, Empty, Published, Q!Cell
  <2> QED BY <2>1, <2>2
<1>5. WaitType'
  BY <1>1, <1>3 DEF WaitType, Thread
<1>6. Locked' /\ Visible'
  BY <1>1, <1>3 DEF Locked, Visible
<1>7. Roused'
  <2>1. \A q \in Producer : wpc[q] # "queue" => wpc'[q] # "queue"
    BY <1>1, <1>3
  <2>2. wpc[Consumer] \in {"sleep", "asleep", "clear", "unlock"} => pc[Consumer] = "idle"
    BY DEF WaitType
  <2> QED BY <1>1, <1>3, <1>4, <2>1, <2>2 DEF Roused, WokenPopSucceeds
<1> QED BY <1>2, <1>5, <1>6, <1>7

\* A step of pop, on the fast path or after a wake-up.
LEMMA PopStepWInv ==
    ASSUME Setting, WInv, PopStep
    PROVE  WInv'
<1> USE DEF WInv
<1>1. /\ wpc[Consumer] \in {"queue", "final"} /\ Pop
      /\ UNCHANGED <<machine, flag, buffered, mtx, woke>>
      /\ wpc' = [wpc EXCEPT ![Consumer] = wpc'[Consumer]]
      /\ wpc'[Consumer] \in {"queue", "lock", "final"}
      /\ wpc'[Consumer] = "lock" => pc[Consumer] = "idle" /\ Empty
      /\ wpc'[Consumer] = "final" => /\ wpc[Consumer] = "final" /\ pc[Consumer] # "advance"
                                      /\ ~(pc[Consumer] = "idle" /\ Empty)
  BY Facts DEF PopStep, WGoto, WaitType
<1>2. IInv'
  BY <1>1, StepIInv DEF Next
<1>3. wpc'[Consumer] = "lock" => pc'[Consumer] = "idle"
  BY <1>1 DEF Pop, PopEmpty, PopReady, PopRead, PopRelease, PopAdvance, vars
<1>4. wpc'[Consumer] = "final" => pc'[Consumer] # "idle"
  BY <1>1, Facts DEF Pop, PopEmpty, PopReady, PopRead, PopRelease, PopAdvance, Q!Goto
<1>5. \A q \in Producer : wpc'[q] = wpc[q]
  BY <1>1, Facts DEF WaitType
<1>6. WaitType'
  BY <1>1, <1>3, <1>5 DEF WaitType, Thread
<1>7. Locked' /\ Visible' /\ Roused'
  BY <1>1, <1>4, <1>5 DEF Locked, Visible, Roused, WokenPopSucceeds
<1> QED BY <1>2, <1>6, <1>7

\* The other steps leave the queue alone.
LEMMA Aside ==
    ASSUME Setting, WInv, UNCHANGED vars
    PROVE  IInv' /\ (Empty' <=> Empty) /\ pc' = pc
<1>1. IInv'
  BY StepIInv DEF WInv
<1> QED BY <1>1 DEF vars, Empty, Published, Q!Cell

\* The producer's way to the notify.  While the consumer is between its look
\* at the queue and its sleep it holds the mutex, so the notify comes after.
LEMMA NotifierWInv ==
    ASSUME Setting, WInv, NEW p \in Producer, Notifier(p)
    PROVE  WInv'
<1> USE DEF WInv
<1>0. wpc \in [Thread -> {"queue", "check", "lock", "notify", "set", "test", "sleep", "asleep",
                           "wake", "late", "lasttest", "clear", "unlock", "final"}]
      /\ p \in Thread /\ Consumer \in Thread /\ p # Consumer /\ Producer \subseteq Thread
      /\ Consumer \notin Producer
  BY Facts DEF WaitType
<1>1. UNCHANGED vars /\ UNCHANGED <<machine, flag, buffered, woke>>
  BY DEF Notifier, CheckWaiter, PushLock, Notify
<1>2. IInv' /\ (Empty' <=> Empty) /\ pc' = pc
  BY <1>1, Aside
<1>3. CASE CheckWaiter(p)
  <2>1. /\ wpc[p] = "check" /\ mtx' = mtx
        /\ wpc'[p] = IF flag THEN "lock" ELSE "queue"
        /\ wpc' \in [Thread -> {"queue", "check", "lock", "notify", "set", "test", "sleep", "asleep",
                                  "wake", "late", "lasttest", "clear", "unlock", "final"}]
        /\ \A t \in Thread \ {p} : wpc'[t] = wpc[t]
    BY <1>0, <1>3 DEF CheckWaiter, WGoto
  <2>2. WaitType' /\ Locked' /\ Visible'
    BY <1>0, <1>1, <1>2, <2>1 DEF WaitType, Locked, Visible
  <2>3. Roused'
    BY <1>0, <1>1, <1>2, <2>1 DEF Roused, WokenPopSucceeds, Visible
  <2> QED BY <1>2, <2>2, <2>3
<1>4. CASE PushLock(p)
  <2>1. /\ wpc[p] = "lock" /\ mtx = "free" /\ mtx' = p /\ wpc'[p] = "notify"
        /\ wpc' \in [Thread -> {"queue", "check", "lock", "notify", "set", "test", "sleep", "asleep",
                                  "wake", "late", "lasttest", "clear", "unlock", "final"}]
        /\ \A t \in Thread \ {p} : wpc'[t] = wpc[t]
    BY <1>0, <1>4 DEF PushLock, WGoto
  <2>2. WaitType' /\ Visible'
    BY <1>0, <1>1, <1>2, <2>1 DEF WaitType, Visible
  <2>3. Locked'
    BY <1>0, <2>1 DEF Locked, Setting
  <2>4. Roused'
    BY <1>0, <1>1, <1>2, <2>1 DEF Roused, WokenPopSucceeds
  <2> QED BY <1>2, <2>2, <2>3, <2>4
<1>5. CASE Notify(p)
  <2>1. /\ wpc[p] = "notify" /\ mtx = p /\ mtx' = "free" /\ wpc'[p] = "queue"
        /\ wpc'[Consumer] = IF wpc[Consumer] = "asleep" THEN "wake" ELSE wpc[Consumer]
        /\ wpc' \in [Thread -> {"queue", "check", "lock", "notify", "set", "test", "sleep", "asleep",
                                  "wake", "late", "lasttest", "clear", "unlock", "final"}]
        /\ \A t \in Thread \ {p, Consumer} : wpc'[t] = wpc[t]
    BY <1>0, <1>5 DEF Notify, Locked
  <2>2. wpc[Consumer] \notin {"set", "test", "sleep", "lasttest", "clear", "unlock"}
    BY <1>0, <2>1 DEF Locked
  <2>3. WaitType'
    BY <1>0, <1>1, <1>2, <2>1 DEF WaitType
  <2>4. Locked' /\ Visible'
    BY <1>0, <1>1, <2>1, <2>2 DEF Locked, Visible
  <2>5. Roused'
    BY <1>0, <1>1, <1>2, <2>1, <2>2 DEF Roused, WokenPopSucceeds
  <2> QED BY <1>2, <2>3, <2>4, <2>5
<1> QED BY <1>3, <1>4, <1>5 DEF Notifier

\* The consumer's steps around the queue.
Waits == \/ WaitLock \/ SetWaiter \/ TestReady \/ TestEmpty \/ Sleep \/ TestTimeout
         \/ Relock \/ ClearWaiter \/ WaitUnlock \/ Drain \/ Spurious \/ Timeout

LEMMA WaitsWInv ==
    ASSUME Setting, WInv, Waits
    PROVE  WInv'
<1> USE DEF WInv
<1>0. /\ wpc \in [Thread -> {"queue", "check", "lock", "notify", "set", "test", "sleep", "asleep",
                             "wake", "late", "lasttest", "clear", "unlock", "final"}]
      /\ Consumer \in Thread /\ Producer \subseteq Thread /\ Consumer \notin Producer
  BY Facts DEF WaitType
<1>1. UNCHANGED vars /\ machine' = machine
  BY DEF Waits, WaitLock, SetWaiter, TestReady, TestEmpty, Sleep, TestTimeout, Relock,
         ClearWaiter, WaitUnlock, Drain, Spurious, Timeout
<1>2. IInv' /\ (Empty' <=> Empty) /\ pc' = pc
  BY <1>1, Aside
<1>3. /\ \A p \in Producer : wpc'[p] = wpc[p]
      /\ wpc' \in [Thread -> {"queue", "check", "lock", "notify", "set", "test", "sleep", "asleep",
                              "wake", "late", "lasttest", "clear", "unlock", "final"}]
      /\ wpc'[Consumer] \notin {"check", "notify"}
      /\ wpc'[Consumer] \in {"queue", "final"} => wpc[Consumer] \in {"queue", "final", "unlock"}
  BY <1>0 DEF Waits, WaitLock, SetWaiter, TestReady, TestEmpty, Sleep, TestTimeout, Relock,
         ClearWaiter, WaitUnlock, Drain, Spurious, Timeout, WGoto, WaitType
<1>4. pc[Consumer] = "idle" \/ wpc'[Consumer] = wpc[Consumer]
  BY <1>0 DEF Waits, WaitLock, SetWaiter, TestReady, TestEmpty, Sleep, TestTimeout, Relock,
         ClearWaiter, WaitUnlock, Drain, Spurious, Timeout, WGoto, WaitType
<1>5. WaitType'
  BY <1>0, <1>1, <1>2, <1>3, <1>4 DEF WaitType
<1>6. Locked'
  <2>1. CASE WaitLock \/ Relock
    BY <1>0, <1>3, <2>1 DEF WaitLock, Relock, WGoto, Locked, Setting
  <2>2. CASE Sleep \/ WaitUnlock
    BY <1>0, <1>3, <2>2 DEF Sleep, WaitUnlock, WGoto, Locked
  <2>3. CASE SetWaiter \/ TestReady \/ TestEmpty \/ TestTimeout \/ ClearWaiter \/ Drain
             \/ Spurious \/ Timeout
    BY <1>0, <1>3, <2>3 DEF SetWaiter, TestReady, TestEmpty, TestTimeout, ClearWaiter, Drain,
         Spurious, Timeout, WGoto, Locked
  <2> QED BY <2>1, <2>2, <2>3 DEF Waits
<1>7. Visible'
  BY <1>0, <1>1 DEF Waits, WaitLock, SetWaiter, TestReady, TestEmpty, Sleep, TestTimeout, Relock,
         ClearWaiter, WaitUnlock, Drain, Spurious, Timeout, WGoto, Visible, WaitType
<1>8. Roused'
  <2>1. /\ wpc'[Consumer] = "sleep" => Empty \/ wpc[Consumer] = "sleep"
        /\ wpc'[Consumer] = "asleep" => wpc[Consumer] \in {"sleep", "asleep"}
    BY ONLY <1>0, Waits DEF Waits, WaitLock, SetWaiter, TestReady, TestEmpty, Sleep, TestTimeout,
         Relock, ClearWaiter, WaitUnlock, Drain, Spurious, Timeout, WGoto
  <2>2. /\ wpc'[Consumer] = "clear" /\ woke' => ~Empty \/ (wpc[Consumer] = "clear" /\ woke)
        /\ wpc'[Consumer] = "unlock" /\ woke' => wpc[Consumer] \in {"clear", "unlock"} /\ woke
        /\ wpc'[Consumer] = "final" => \/ wpc[Consumer] = "final"
                                       \/ wpc[Consumer] = "unlock" /\ woke
    <3>1. CASE WaitLock \/ SetWaiter \/ TestEmpty \/ Sleep \/ Relock \/ Spurious \/ Timeout
      BY ONLY <1>0, <3>1 DEF WaitLock, SetWaiter, TestEmpty, Sleep, Relock, Spurious, Timeout, WGoto
    <3>2. CASE TestReady \/ TestTimeout
      <4>1. wpc'[Consumer] = "clear"
        BY ONLY <1>0, <3>2 DEF TestReady, TestTimeout, WGoto
      <4>2. ~Empty \/ ~woke'
        BY ONLY <3>2 DEF TestReady, TestTimeout
      <4> QED BY ONLY <4>1, <4>2
    <3>3. CASE ClearWaiter
      <4>1. wpc[Consumer] = "clear" /\ wpc'[Consumer] = "unlock"
        BY ONLY <1>0, <3>3 DEF ClearWaiter, WGoto
      <4>2. woke' = woke
        BY ONLY <3>3 DEF ClearWaiter
      <4> QED BY ONLY <4>1, <4>2
    <3>4. CASE WaitUnlock
      <4>1. wpc[Consumer] = "unlock" /\ wpc'[Consumer] \in {"final", "queue"}
        BY ONLY <1>0, <3>4 DEF WaitUnlock, WGoto
      <4>2. wpc'[Consumer] = "final" => woke
        BY ONLY <1>0, <3>4 DEF WaitUnlock, WGoto
      <4> QED BY ONLY <4>1, <4>2
    <3>5. CASE Drain
      <4>1. wpc'[Consumer] = wpc[Consumer] /\ (woke' <=> woke)
        BY ONLY <3>5 DEF Drain
      <4> QED BY ONLY <4>1
    <3> QED BY <3>1, <3>2, <3>3, <3>4, <3>5 DEF Waits
  <2>3. Roused
    OBVIOUS
  <2> QED BY ONLY <1>1, <1>2, <1>3, <2>1, <2>2, <2>3 DEF Roused, WokenPopSucceeds
<1> QED BY <1>2, <1>5, <1>6, <1>7, <1>8

LEMMA StepWInv ==
    ASSUME Setting
    PROVE  WInv /\ [WNext]_<<vars, wvars>> => WInv'
<1> SUFFICES ASSUME WInv, [WNext]_<<vars, wvars>> PROVE WInv'
  OBVIOUS
<1>1. CASE UNCHANGED <<vars, wvars>>
  BY <1>1, Aside DEF wvars, WInv, WaitType, Locked, Visible, Roused, WokenPopSucceeds
<1> QED BY <1>1, PushStepWInv, NotifierWInv, PopStepWInv, WaitsWInv DEF WNext, PopWait, Waits

THEOREM WaitInvariance == ASSUME Setting PROVE WSpec => []WInv
  BY InitWInv, StepWInv, PTL DEF WSpec

\* With accesses in order no wake-up is lost, for any number of producers:
\* the consumer never sleeps over an item that nobody will tell it about.
THEOREM WakeupsKept == ASSUME Setting PROVE WSpec => []NoLostWakeupInOrder
<1>1. WInv => NoLostWakeupInOrder
  BY DEF WInv, Roused, NoLostWakeupInOrder, NoLostWakeup
<1> QED BY <1>1, WaitInvariance, PTL

\* A wait that reports a wake-up leads to an item, on either machine.
THEOREM WokenPops == ASSUME Setting PROVE WSpec => []WokenPopSucceeds
<1>1. WInv => WokenPopSucceeds
  BY DEF WInv, Roused
<1> QED BY <1>1, WaitInvariance, PTL

\* Waiting on the queue is safe for any number of producers: with accesses in
\* order no wake-up is lost, a reported wake-up leads to an item, and push and
\* pop never meet in a cell.
THEOREM WaitingIsSafe == ASSUME Setting PROVE WSpec => []WaitingSafe
<1>1. NoLostWakeupInOrder /\ WokenPopSucceeds /\ NoCellRace => WaitingSafe
  BY DEF WaitingSafe
<1> QED BY <1>1, WakeupsKept, WokenPops, CellRaceFree, PTL
==============================================================================
