--------------------------- MODULE MPMCQueueProofs ---------------------------
(***************************************************************************)
(* MPMCQueue for every SIZE of at least two cells and for any numbers of   *)
(* producers and consumers: type correctness, the capacity, the absence of *)
(* data races on the cells, and that the queue implements a FIFO.  With a  *)
(* single cell "published" and "free in the next lap" are the same         *)
(* sequence number, and none of it holds.                                  *)
(***************************************************************************)
EXTENDS MPMCQueue, Lemmas

\* The cell of a position.
LEMMA CellIndex == \A n \in Nat : Cell(n) \in Index
  BY SizeAssumption, ModRange DEF Cell, Index

LEMMA CellLap == \A n \in Nat : Cell(n + SIZE) = Cell(n)
  BY SizeAssumption, ModLap DEF Cell

LEMMA CellDistinct ==
    \A m, n \in Nat : m < n /\ n < m + SIZE => Cell(m) # Cell(n)
  BY SizeAssumption, ModDistinct DEF Cell

------------------------------------------------------------------------------
(***************************************************************************)
(* The inductive invariant.  The positions of one lap, from tail on, cover *)
(* every cell once; the sequence number of a cell tells whether its        *)
(* position is claimed (n < head) and, if it is not, whether the consumer  *)
(* of the previous lap has released it.  A thread that owns a cell keeps   *)
(* its sequence number, and a thread about to CAS holds an observation     *)
(* that is still true whenever its CAS can succeed.                        *)
(***************************************************************************)
Writing(p) == pc[p] \in {"write", "publish"}
Reading(c) == pc[c] \in {"read", "release"}

Bounds == tail <= head /\ head <= tail + SIZE

ProducerInv ==
    \A p \in Producer :
        /\ pc[p] \in {"idle", "seq", "cas", "write", "publish"}
        /\ pos[p] <= head
        /\ pc[p] # "idle" => val[p] \in Value
        /\ pc[p] = "cas" /\ pos[p] = head => seq[Cell(head)] = head
        /\ Writing(p) => /\ tail <= pos[p]
                         /\ pos[p] < head
                         /\ seq[Cell(pos[p])] = pos[p]
        /\ pc[p] = "publish" => data[Cell(pos[p])] = val[p]

ConsumerInv ==
    \A c \in Consumer :
        /\ pc[c] \in {"idle", "seq", "cas", "read", "release"}
        /\ pos[c] <= tail
        /\ pc[c] = "cas" /\ pos[c] = tail => seq[Cell(tail)] = tail + 1
        /\ Reading(c) => /\ pos[c] < tail
                         /\ head <= pos[c] + SIZE
                         /\ seq[Cell(pos[c])] = pos[c] + 1

ProducersApart == \A p, q \in Producer : p # q /\ Writing(p) /\ Writing(q) => pos[p] # pos[q]
ConsumersApart == \A c, d \in Consumer : c # d /\ Reading(c) /\ Reading(d) => pos[c] # pos[d]

CellInv ==
    \A n \in tail..(tail + SIZE - 1) :
        /\ n < head => seq[Cell(n)] \in {n, n + 1}
        /\ n >= head => seq[Cell(n)] \in {n, n - SIZE + 1}

IInv == /\ TypeOK
        /\ Bounds
        /\ ProducerInv
        /\ ConsumerInv
        /\ ProducersApart
        /\ ConsumersApart
        /\ CellInv

LEMMA InitIInv == Init => IInv
<1> SUFFICES ASSUME Init PROVE IInv
  OBVIOUS
<1>1. \A n \in 0..(SIZE - 1) : Cell(n) = n
  BY SizeAssumption, ModOnce DEF Cell
<1>2. TypeOK /\ Bounds
  BY SizeAssumption DEF Init, TypeOK, Bounds, Index
<1>3. CellInv
  BY <1>1, SizeAssumption DEF Init, CellInv, Index
<1>4. ProducerInv /\ ConsumerInv /\ ProducersApart /\ ConsumersApart
  BY DEF Init, ProducerInv, ConsumerInv, ProducersApart, ConsumersApart,
         Writing, Reading, Thread
<1> QED BY <1>2, <1>3, <1>4 DEF IInv

\* A step of thread t that only moves t's locals, outside its claim.
LocalChange(t) ==
    /\ UNCHANGED <<seq, data, head, tail>>
    /\ ~Writing(t) /\ ~Reading(t)
    /\ pc' = [pc EXCEPT ![t] = pc'[t]]
    /\ pos' = [pos EXCEPT ![t] = pos'[t]]
    /\ val' = [val EXCEPT ![t] = val'[t]]
    /\ pc'[t] \in {"idle", "seq", "cas"}
    /\ pos'[t] \in Nat
    /\ val'[t] \in Value \cup {NoValue}
    /\ t \in Producer => /\ pos'[t] <= head
                         /\ pc'[t] # "idle" => val'[t] \in Value
                         /\ pc'[t] = "cas" /\ pos'[t] = head => seq[Cell(head)] = head
    /\ t \in Consumer => /\ pos'[t] <= tail
                         /\ val'[t] = val[t]
                         /\ pc'[t] = "cas" /\ pos'[t] = tail => seq[Cell(tail)] = tail + 1

LEMMA LocalStep ==
    ASSUME IInv, NEW t \in Thread, LocalChange(t)
    PROVE  IInv'
<1> USE DEF Thread, Writing, Reading, LocalChange
<1>1. TypeOK'
  BY DEF IInv, TypeOK
<1>2. Bounds' /\ CellInv'
  BY DEF IInv, Bounds, CellInv, Cell
<1>3. ProducerInv'
  BY ThreadAssumption DEF IInv, TypeOK, ProducerInv, Cell
<1>4. ConsumerInv'
  BY ThreadAssumption DEF IInv, TypeOK, ConsumerInv, Cell
<1>5. ProducersApart' /\ ConsumersApart'
  BY DEF IInv, TypeOK, ProducersApart, ConsumersApart
<1> QED BY <1>1, <1>2, <1>3, <1>4, <1>5 DEF IInv

\* The CAS of a push claims a position less than a lap ahead of tail, and no
\* consumer still owns its cell.
LEMMA ClaimStep ==
    ASSUME SIZE >= 2, IInv, NEW p \in Producer, PushClaim(p)
    PROVE  /\ IInv'
           /\ head < tail + SIZE
<1> USE DEF Thread, Writing, Reading
<1>1. /\ pc[p] = "cas" /\ pos[p] = head /\ head' = head + 1
      /\ pc' = [pc EXCEPT ![p] = "write"]
      /\ UNCHANGED <<seq, data, tail, pos, val>>
      /\ seq[Cell(head)] = head
      /\ head \in Nat /\ tail \in Nat /\ SIZE \in Nat
  BY SizeAssumption DEF PushClaim, Goto, IInv, TypeOK, ProducerInv
<1>2. head # tail + SIZE
  <2> SUFFICES ASSUME head = tail + SIZE PROVE FALSE
    OBVIOUS
  <2>1. seq[Cell(tail)] \in {tail, tail + 1}
    BY <1>1 DEF IInv, CellInv
  <2>2. Cell(head) = Cell(tail)
    BY <1>1, CellLap
  <2> QED BY <1>1, <2>1, <2>2
<1>3. ASSUME NEW c \in Consumer, Reading(c) PROVE head # pos[c] + SIZE
  <2> SUFFICES ASSUME head = pos[c] + SIZE PROVE FALSE
    OBVIOUS
  <2>1. seq[Cell(pos[c])] = pos[c] + 1 /\ pos[c] \in Nat
    BY <1>3 DEF IInv, ConsumerInv, TypeOK
  <2>2. Cell(head) = Cell(pos[c])
    BY <2>1, CellLap
  <2> QED BY <1>1, <2>1, <2>2
<1>4. TypeOK'
  BY <1>1 DEF IInv, TypeOK
<1>5. Bounds'
  BY <1>1, <1>2 DEF IInv, Bounds
<1>6. ProducerInv'
  BY <1>1 DEF IInv, Bounds, TypeOK, ProducerInv, Cell
<1>7. ConsumerInv'
  <2> SUFFICES ASSUME NEW c \in Consumer
               PROVE  /\ pc'[c] \in {"idle", "seq", "cas", "read", "release"}
                      /\ pos'[c] <= tail'
                      /\ pc'[c] = "cas" /\ pos'[c] = tail' => seq'[Cell(tail')] = tail' + 1
                      /\ Reading(c)' => /\ pos'[c] < tail'
                                        /\ head' <= pos'[c] + SIZE
                                        /\ seq'[Cell(pos'[c])] = pos'[c] + 1
    BY DEF ConsumerInv, Cell
  <2>1. pc'[c] = pc[c] /\ pos'[c] = pos[c] /\ pos[c] \in Nat
    BY <1>1, ThreadAssumption DEF IInv, TypeOK
  <2> QED BY <1>1, <1>3, <2>1 DEF IInv, ConsumerInv, TypeOK
<1>8. ProducersApart'
  BY <1>1 DEF IInv, TypeOK, ProducersApart, ProducerInv
<1>9. ConsumersApart'
  BY <1>1, ThreadAssumption DEF IInv, TypeOK, ConsumersApart
<1>10. CellInv'
  <2> SUFFICES ASSUME NEW n \in tail..(tail + SIZE - 1)
               PROVE  /\ n < head + 1 => seq[Cell(n)] \in {n, n + 1}
                      /\ n >= head + 1 => seq[Cell(n)] \in {n, n - SIZE + 1}
    BY <1>1 DEF CellInv
  <2>1. CASE n = head
    BY <1>1, <2>1
  <2>2. CASE n # head
    BY <1>1, <2>2 DEF IInv, CellInv
  <2> QED BY <2>1, <2>2
<1> QED BY <1>1, <1>2, <1>4, <1>5, <1>6, <1>7, <1>8, <1>9, <1>10 DEF IInv, Bounds

\* The CAS of a pop claims a published position.
LEMMA TakeStep ==
    ASSUME SIZE >= 2, IInv, NEW c \in Consumer, PopClaim(c)
    PROVE  /\ IInv'
           /\ tail < head
           /\ \A p \in Producer : Writing(p) => pos[p] # tail
<1> USE DEF Thread, Writing, Reading
<1>1. /\ pc[c] = "cas" /\ pos[c] = tail /\ tail' = tail + 1
      /\ pc' = [pc EXCEPT ![c] = "read"]
      /\ UNCHANGED <<seq, data, head, pos, val>>
      /\ seq[Cell(tail)] = tail + 1
      /\ head \in Nat /\ tail \in Nat /\ SIZE \in Nat
  BY SizeAssumption DEF PopClaim, Goto, IInv, TypeOK, ConsumerInv
<1>2. tail < head
  <2>1. tail >= head => seq[Cell(tail)] \in {tail, tail - SIZE + 1}
    BY <1>1 DEF IInv, CellInv
  <2> QED BY <1>1, <2>1
<1>3. ASSUME NEW p \in Producer, Writing(p) PROVE pos[p] # tail
  BY <1>1, <1>3 DEF IInv, ProducerInv
<1>4. TypeOK'
  BY <1>1 DEF IInv, TypeOK
<1>5. Bounds'
  BY <1>1, <1>2 DEF IInv, Bounds
<1>6. ProducerInv'
  <2> SUFFICES ASSUME NEW p \in Producer
               PROVE  /\ pc'[p] \in {"idle", "seq", "cas", "write", "publish"}
                      /\ pos'[p] <= head'
                      /\ pc'[p] # "idle" => val'[p] \in Value
                      /\ pc'[p] = "cas" /\ pos'[p] = head' => seq'[Cell(head')] = head'
                      /\ Writing(p)' => /\ tail' <= pos'[p]
                                        /\ pos'[p] < head'
                                        /\ seq'[Cell(pos'[p])] = pos'[p]
                      /\ pc'[p] = "publish" => data'[Cell(pos'[p])] = val'[p]
    BY DEF ProducerInv, Cell
  <2>1. pc'[p] = pc[p] /\ pos'[p] = pos[p] /\ val'[p] = val[p] /\ pos[p] \in Nat
    BY <1>1, ThreadAssumption DEF IInv, TypeOK
  <2> QED BY <1>1, <1>3, <2>1 DEF IInv, ProducerInv, TypeOK
<1>7. ConsumerInv'
  BY <1>1 DEF IInv, Bounds, TypeOK, ConsumerInv, Cell
<1>8. ProducersApart'
  BY <1>1, ThreadAssumption DEF IInv, TypeOK, ProducersApart
<1>9. ConsumersApart'
  BY <1>1 DEF IInv, TypeOK, ConsumersApart, ConsumerInv
<1>10. CellInv'
  <2> SUFFICES ASSUME NEW n \in (tail + 1)..(tail + SIZE)
               PROVE  /\ n < head => seq[Cell(n)] \in {n, n + 1}
                      /\ n >= head => seq[Cell(n)] \in {n, n - SIZE + 1}
    BY <1>1 DEF CellInv
  <2>1. CASE n = tail + SIZE
    <3>1. Cell(n) = Cell(tail)
      BY <1>1, <2>1, CellLap
    <3>2. n >= head
      BY <1>1, <2>1 DEF IInv, Bounds
    <3> QED BY <1>1, <2>1, <3>1, <3>2
  <2>2. CASE n # tail + SIZE
    <3>1. n \in tail..(tail + SIZE - 1)
      BY <1>1, <2>2
    <3> QED BY <1>1, <3>1 DEF IInv, CellInv
  <2> QED BY <2>1, <2>2
<1> QED BY <1>2, <1>3, <1>4, <1>5, <1>6, <1>7, <1>8, <1>9, <1>10 DEF IInv

\* Storing a cell's sequence number disturbs no other position of the lap.
LEMMA OtherCells ==
    ASSUME IInv, NEW m \in Nat, NEW k \in Nat,
           seq' = [seq EXCEPT ![Cell(m)] = k]
    PROVE  /\ seq' \in [Index -> Nat]
           /\ seq'[Cell(m)] = k
           /\ \A n \in Nat : n # m /\ n < m + SIZE /\ m < n + SIZE => seq'[Cell(n)] = seq[Cell(n)]
<1>1. SIZE \in Nat /\ seq \in [Index -> Nat] /\ Cell(m) \in Index
  BY SizeAssumption, CellIndex DEF IInv, TypeOK
<1>2. ASSUME NEW n \in Nat, n # m, n < m + SIZE, m < n + SIZE
      PROVE  seq'[Cell(n)] = seq[Cell(n)]
  <2>1. Cell(n) # Cell(m)
    BY <1>1, <1>2, CellDistinct
  <2> QED BY <1>1, <2>1, CellIndex
<1> QED BY <1>1, <1>2

\* Publishing an item.
LEMMA PublishStep ==
    ASSUME SIZE >= 2, IInv, NEW p \in Producer, PushPublish(p)
    PROVE  IInv'
<1> USE DEF Thread, Writing, Reading
<1> DEFINE m == pos[p]
<1>1. /\ pc[p] = "publish"
      /\ seq' = [seq EXCEPT ![Cell(m)] = m + 1]
      /\ pc' = [pc EXCEPT ![p] = "idle"]
      /\ UNCHANGED <<data, head, tail, pos, val>>
      /\ m \in Nat /\ tail <= m /\ m < head /\ seq[Cell(m)] = m
      /\ head \in Nat /\ tail \in Nat /\ SIZE \in Nat
      /\ tail <= head /\ head <= tail + SIZE
  BY SizeAssumption DEF PushPublish, Goto, IInv, TypeOK, ProducerInv, Bounds
<1> HIDE DEF m
<1>2. /\ seq' \in [Index -> Nat]
      /\ seq'[Cell(m)] = m + 1
      /\ \A n \in Nat : n # m /\ n < m + SIZE /\ m < n + SIZE => seq'[Cell(n)] = seq[Cell(n)]
  <2>1. m + 1 \in Nat
    BY <1>1
  <2> QED BY <1>1, <2>1, OtherCells
<1>3. TypeOK' /\ Bounds'
  BY <1>1, <1>2 DEF IInv, TypeOK, Bounds
<1>4. ProducerInv'
  <2> SUFFICES ASSUME NEW q \in Producer
               PROVE  /\ pc'[q] \in {"idle", "seq", "cas", "write", "publish"}
                      /\ pos'[q] <= head'
                      /\ pc'[q] # "idle" => val'[q] \in Value
                      /\ pc'[q] = "cas" /\ pos'[q] = head' => seq'[Cell(head')] = head'
                      /\ Writing(q)' => /\ tail' <= pos'[q]
                                        /\ pos'[q] < head'
                                        /\ seq'[Cell(pos'[q])] = pos'[q]
                      /\ pc'[q] = "publish" => data'[Cell(pos'[q])] = val'[q]
    BY DEF ProducerInv, Cell
  <2>0. /\ pc[q] \in {"idle", "seq", "cas", "write", "publish"}
        /\ pos[q] <= head
        /\ pc[q] # "idle" => val[q] \in Value
        /\ pc[q] = "cas" /\ pos[q] = head => seq[Cell(head)] = head
        /\ Writing(q) => /\ tail <= pos[q]
                         /\ pos[q] < head
                         /\ seq[Cell(pos[q])] = pos[q]
        /\ pc[q] = "publish" => data[Cell(pos[q])] = val[q]
        /\ pos[q] \in Nat
    BY DEF IInv, ProducerInv, TypeOK
  <2>1. CASE q = p
    BY <1>1, <2>0, <2>1 DEF IInv, TypeOK
  <2>2. CASE q # p
    <3>1. pc'[q] = pc[q] /\ pos'[q] = pos[q] /\ val'[q] = val[q]
      BY <1>1, <2>2 DEF IInv, TypeOK
    <3>2. Writing(q) => seq'[Cell(pos[q])] = pos[q]
      <4>1. Writing(q) => pos[q] # m
        BY <1>1, <2>2 DEF IInv, ProducersApart, m
      <4> QED BY <1>1, <1>2, <2>0, <4>1
    <3>3. pc[q] = "cas" /\ pos[q] = head => seq'[Cell(head)] = head
      <4> SUFFICES ASSUME pc[q] = "cas", pos[q] = head PROVE seq'[Cell(head)] = head
        OBVIOUS
      <4>1. head # m + SIZE
        BY <1>1, <2>0, CellLap
      <4> QED BY <1>1, <1>2, <2>0, <4>1
    <3> QED BY <1>1, <2>0, <3>1, <3>2, <3>3
  <2> QED BY <2>1, <2>2
<1>5. ConsumerInv'
  <2> SUFFICES ASSUME NEW c \in Consumer
               PROVE  /\ pc'[c] \in {"idle", "seq", "cas", "read", "release"}
                      /\ pos'[c] <= tail'
                      /\ pc'[c] = "cas" /\ pos'[c] = tail' => seq'[Cell(tail')] = tail' + 1
                      /\ Reading(c)' => /\ pos'[c] < tail'
                                        /\ head' <= pos'[c] + SIZE
                                        /\ seq'[Cell(pos'[c])] = pos'[c] + 1
    BY DEF ConsumerInv, Cell
  <2>0. /\ pc[c] \in {"idle", "seq", "cas", "read", "release"}
        /\ pos[c] <= tail
        /\ pc[c] = "cas" /\ pos[c] = tail => seq[Cell(tail)] = tail + 1
        /\ Reading(c) => /\ pos[c] < tail
                         /\ head <= pos[c] + SIZE
                         /\ seq[Cell(pos[c])] = pos[c] + 1
        /\ pos[c] \in Nat
    BY DEF IInv, ConsumerInv, TypeOK
  <2>1. pc'[c] = pc[c] /\ pos'[c] = pos[c]
    BY <1>1, ThreadAssumption DEF IInv, TypeOK
  <2>2. pc[c] = "cas" /\ pos[c] = tail => seq'[Cell(tail)] = tail + 1
    BY <1>1, <1>2, <2>0
  <2>3. Reading(c) => seq'[Cell(pos[c])] = pos[c] + 1
    BY <1>1, <1>2, <2>0
  <2> QED BY <1>1, <2>0, <2>1, <2>2, <2>3
<1>6. ProducersApart' /\ ConsumersApart'
  BY <1>1 DEF IInv, TypeOK, ProducersApart, ConsumersApart
<1>7. CellInv'
  <2> SUFFICES ASSUME NEW n \in tail..(tail + SIZE - 1)
               PROVE  /\ n < head => seq'[Cell(n)] \in {n, n + 1}
                      /\ n >= head => seq'[Cell(n)] \in {n, n - SIZE + 1}
    BY <1>1 DEF CellInv
  <2>1. CASE n = m
    BY <1>1, <1>2, <2>1
  <2>2. CASE n # m
    <3>1. seq'[Cell(n)] = seq[Cell(n)]
      BY <1>1, <1>2, <2>2
    <3> QED BY <3>1 DEF IInv, CellInv
  <2> QED BY <2>1, <2>2
<1> QED BY <1>3, <1>4, <1>5, <1>6, <1>7 DEF IInv

\* Releasing a cell to the next lap.
LEMMA ReleaseStep ==
    ASSUME SIZE >= 2, IInv, NEW c \in Consumer, PopRelease(c)
    PROVE  IInv'
<1> USE DEF Thread, Writing, Reading
<1> DEFINE m == pos[c]
           k == pos[c] + SIZE
<1>1. /\ pc[c] = "release"
      /\ seq' = [seq EXCEPT ![Cell(m)] = k]
      /\ pc' = [pc EXCEPT ![c] = "idle"]
      /\ UNCHANGED <<data, head, tail, pos, val>>
      /\ m \in Nat /\ m < tail /\ head <= m + SIZE /\ seq[Cell(m)] = m + 1
      /\ head \in Nat /\ tail \in Nat /\ SIZE \in Nat
      /\ tail <= head /\ head <= tail + SIZE
      /\ k \in Nat /\ k = m + SIZE
  BY SizeAssumption DEF PopRelease, Goto, IInv, TypeOK, ConsumerInv, Bounds
<1> HIDE DEF m, k
<1>2. /\ seq' \in [Index -> Nat]
      /\ seq'[Cell(m)] = k
      /\ \A n \in Nat : n # m /\ n < m + SIZE /\ m < n + SIZE => seq'[Cell(n)] = seq[Cell(n)]
  BY <1>1, OtherCells
<1>3. /\ Cell(k) = Cell(m)
      /\ \A n \in Nat : n # k /\ n < k + SIZE /\ k < n + SIZE => seq'[Cell(n)] = seq[Cell(n)]
  <2>1. Cell(k) = Cell(m)
    BY <1>1, CellLap
  <2>2. seq' = [seq EXCEPT ![Cell(k)] = k]
    BY <1>1, <2>1
  <2> QED BY <1>1, <2>1, <2>2, OtherCells
<1>4. TypeOK' /\ Bounds'
  BY <1>1, <1>2 DEF IInv, TypeOK, Bounds
<1>5. ProducerInv'
  <2> SUFFICES ASSUME NEW q \in Producer
               PROVE  /\ pc'[q] \in {"idle", "seq", "cas", "write", "publish"}
                      /\ pos'[q] <= head'
                      /\ pc'[q] # "idle" => val'[q] \in Value
                      /\ pc'[q] = "cas" /\ pos'[q] = head' => seq'[Cell(head')] = head'
                      /\ Writing(q)' => /\ tail' <= pos'[q]
                                        /\ pos'[q] < head'
                                        /\ seq'[Cell(pos'[q])] = pos'[q]
                      /\ pc'[q] = "publish" => data'[Cell(pos'[q])] = val'[q]
    BY DEF ProducerInv, Cell
  <2>0. /\ pc[q] \in {"idle", "seq", "cas", "write", "publish"}
        /\ pos[q] <= head
        /\ pc[q] # "idle" => val[q] \in Value
        /\ pc[q] = "cas" /\ pos[q] = head => seq[Cell(head)] = head
        /\ Writing(q) => /\ tail <= pos[q]
                         /\ pos[q] < head
                         /\ seq[Cell(pos[q])] = pos[q]
        /\ pc[q] = "publish" => data[Cell(pos[q])] = val[q]
        /\ pos[q] \in Nat
    BY DEF IInv, ProducerInv, TypeOK
  <2>1. pc'[q] = pc[q] /\ pos'[q] = pos[q] /\ val'[q] = val[q]
    BY <1>1, ThreadAssumption DEF IInv, TypeOK
  <2>2. Writing(q) => seq'[Cell(pos[q])] = pos[q]
    BY <1>1, <1>2, <2>0
  <2>3. pc[q] = "cas" /\ pos[q] = head => seq'[Cell(head)] = head
    <3>1. CASE head = k
      BY <1>1, <1>2, <1>3, <3>1
    <3>2. CASE head # k
      BY <1>1, <1>2, <2>0, <3>2
    <3> QED BY <3>1, <3>2
  <2> QED BY <1>1, <2>0, <2>1, <2>2, <2>3
<1>6. ConsumerInv'
  <2> SUFFICES ASSUME NEW d \in Consumer
               PROVE  /\ pc'[d] \in {"idle", "seq", "cas", "read", "release"}
                      /\ pos'[d] <= tail'
                      /\ pc'[d] = "cas" /\ pos'[d] = tail' => seq'[Cell(tail')] = tail' + 1
                      /\ Reading(d)' => /\ pos'[d] < tail'
                                        /\ head' <= pos'[d] + SIZE
                                        /\ seq'[Cell(pos'[d])] = pos'[d] + 1
    BY DEF ConsumerInv, Cell
  <2>0. /\ pc[d] \in {"idle", "seq", "cas", "read", "release"}
        /\ pos[d] <= tail
        /\ pc[d] = "cas" /\ pos[d] = tail => seq[Cell(tail)] = tail + 1
        /\ Reading(d) => /\ pos[d] < tail
                         /\ head <= pos[d] + SIZE
                         /\ seq[Cell(pos[d])] = pos[d] + 1
        /\ pos[d] \in Nat
    BY DEF IInv, ConsumerInv, TypeOK
  <2>1. CASE d = c
    BY <1>1, <2>0, <2>1 DEF IInv, TypeOK
  <2>2. CASE d # c
    <3>1. pc'[d] = pc[d] /\ pos'[d] = pos[d]
      BY <1>1, <2>2 DEF IInv, TypeOK
    <3>2. pc[d] = "cas" /\ pos[d] = tail => seq'[Cell(tail)] = tail + 1
      <4> SUFFICES ASSUME pc[d] = "cas", pos[d] = tail PROVE seq'[Cell(tail)] = tail + 1
        OBVIOUS
      <4>1. tail # k
        BY <1>1, <1>3, <2>0
      <4> QED BY <1>1, <1>2, <2>0, <4>1
    <3>3. Reading(d) => seq'[Cell(pos[d])] = pos[d] + 1
      <4>1. Reading(d) => pos[d] # m
        BY <1>1, <2>2 DEF IInv, ConsumersApart, m
      <4> QED BY <1>1, <1>2, <2>0, <4>1
    <3> QED BY <1>1, <2>0, <3>1, <3>2, <3>3
  <2> QED BY <2>1, <2>2
<1>7. ProducersApart' /\ ConsumersApart'
  BY <1>1 DEF IInv, TypeOK, ProducersApart, ConsumersApart
<1>8. CellInv'
  <2> SUFFICES ASSUME NEW n \in tail..(tail + SIZE - 1)
               PROVE  /\ n < head => seq'[Cell(n)] \in {n, n + 1}
                      /\ n >= head => seq'[Cell(n)] \in {n, n - SIZE + 1}
    BY <1>1 DEF CellInv
  <2>1. CASE n = k
    BY <1>1, <1>2, <1>3, <2>1
  <2>2. CASE n # k
    <3>1. seq'[Cell(n)] = seq[Cell(n)]
      BY <1>1, <1>3, <2>2
    <3> QED BY <3>1 DEF IInv, CellInv
  <2> QED BY <2>1, <2>2
<1> QED BY <1>4, <1>5, <1>6, <1>7, <1>8 DEF IInv

\* Threads that own a cell own different cells.
Owner(t) == \/ t \in Producer /\ Writing(t)
            \/ t \in Consumer /\ Reading(t)

LEMMA OwnersApart ==
    ASSUME IInv
    PROVE  \A t, u \in Thread : t # u /\ Owner(t) /\ Owner(u) => Cell(pos[t]) # Cell(pos[u])
<1> SUFFICES ASSUME NEW t \in Thread, NEW u \in Thread, t # u, Owner(t), Owner(u)
             PROVE  Cell(pos[t]) # Cell(pos[u])
  OBVIOUS
<1>1. /\ head \in Nat /\ tail \in Nat /\ SIZE \in Nat
      /\ pos[t] \in Nat /\ pos[u] \in Nat
      /\ tail <= head /\ head <= tail + SIZE
  BY SizeAssumption DEF IInv, TypeOK, Bounds
<1>2. /\ pos[t] < head /\ head <= pos[t] + SIZE
      /\ pos[u] < head /\ head <= pos[u] + SIZE
  BY <1>1 DEF IInv, ProducerInv, ConsumerInv, Owner
<1>3. pos[t] # pos[u]
  BY <1>1 DEF IInv, ProducerInv, ConsumerInv, ProducersApart, ConsumersApart, Owner
<1>4. CASE pos[t] < pos[u]
  BY <1>1, <1>2, <1>4, CellDistinct
<1>5. CASE pos[u] < pos[t]
  BY <1>1, <1>2, <1>5, CellDistinct
<1> QED BY <1>1, <1>3, <1>4, <1>5

\* Writing a cell's payload.
LEMMA WriteStep ==
    ASSUME IInv, NEW p \in Producer, PushWrite(p)
    PROVE  IInv'
<1> USE DEF Thread, Writing, Reading
<1>1. /\ pc[p] = "write" /\ pos[p] \in Nat /\ Cell(pos[p]) \in Index
      /\ data' = [data EXCEPT ![Cell(pos[p])] = val[p]]
      /\ pc' = [pc EXCEPT ![p] = "publish"]
      /\ UNCHANGED <<seq, head, tail, pos, val>>
  BY CellIndex DEF PushWrite, Goto, IInv, TypeOK
<1>2. TypeOK' /\ Bounds'
  BY <1>1 DEF IInv, TypeOK, Bounds
<1>3. ASSUME NEW q \in Producer, pc'[q] = "publish"
      PROVE  data'[Cell(pos'[q])] = val'[q]
  <2>1. CASE q = p
    BY <1>1, <2>1 DEF IInv, TypeOK
  <2>2. CASE q # p
    <3>1. pc[q] = "publish" /\ pos[q] \in Nat
      BY <1>1, <1>3, <2>2 DEF IInv, TypeOK
    <3>2. p \in Thread /\ q \in Thread /\ Owner(p) /\ Owner(q)
      BY <1>1, <3>1 DEF Owner
    <3>3. Cell(pos[q]) # Cell(pos[p])
      BY <2>2, <3>2, OwnersApart
    <3> QED BY <1>1, <3>1, <3>3, CellIndex DEF IInv, TypeOK, ProducerInv
  <2> QED BY <2>1, <2>2
<1>4. ProducerInv'
  BY <1>1, <1>3 DEF IInv, TypeOK, ProducerInv, Cell
<1>5. ConsumerInv'
  BY <1>1, ThreadAssumption DEF IInv, TypeOK, ConsumerInv, Cell
<1>6. ProducersApart' /\ ConsumersApart' /\ CellInv'
  BY <1>1, ThreadAssumption DEF IInv, TypeOK, ProducersApart, ConsumersApart, CellInv, Cell
<1> QED BY <1>2, <1>4, <1>5, <1>6 DEF IInv

\* Reading a cell's payload.
LEMMA ReadStep ==
    ASSUME IInv, NEW c \in Consumer, PopRead(c)
    PROVE  IInv'
<1> USE DEF Thread, Writing, Reading
<1>1. /\ pc[c] = "read" /\ pos[c] \in Nat /\ Cell(pos[c]) \in Index
      /\ val' = [val EXCEPT ![c] = data[Cell(pos[c])]]
      /\ pc' = [pc EXCEPT ![c] = "release"]
      /\ UNCHANGED <<seq, data, head, tail, pos>>
  BY CellIndex DEF PopRead, Goto, IInv, TypeOK
<1>2. TypeOK' /\ Bounds'
  BY <1>1 DEF IInv, TypeOK, Bounds
<1>3. ProducerInv'
  BY <1>1, ThreadAssumption DEF IInv, TypeOK, ProducerInv, Cell
<1>4. ConsumerInv'
  BY <1>1 DEF IInv, TypeOK, ConsumerInv, Cell
<1>5. ProducersApart' /\ ConsumersApart' /\ CellInv'
  BY <1>1, ThreadAssumption DEF IInv, TypeOK, ProducersApart, ConsumersApart, CellInv, Cell
<1> QED BY <1>2, <1>3, <1>4, <1>5 DEF IInv

\* A step of a producer that is not a CAS that succeeds, a payload write or a
\* publish changes only that producer's locals.
LEMMA PushCases ==
    ASSUME IInv, NEW p \in Producer, Push(p)
    PROVE  LocalChange(p) \/ PushClaim(p) \/ PushWrite(p) \/ PushPublish(p)
<1>0. /\ pc \in [Thread -> {"idle", "seq", "cas", "write", "publish", "read", "release"}]
      /\ pos \in [Thread -> Nat]
      /\ val \in [Thread -> Value \cup {NoValue}]
      /\ head \in Nat /\ tail \in Nat
      /\ p \in Thread /\ p \notin Consumer /\ pos[p] \in Nat /\ pos[p] <= head
      /\ val[p] \in Value \cup {NoValue} /\ (pc[p] # "idle" => val[p] \in Value)
  BY ThreadAssumption DEF IInv, TypeOK, ProducerInv, Thread
<1> USE DEF Goto, Writing, Reading
<1>1. ASSUME NEW v \in Value, PushBegin(p, v) PROVE LocalChange(p)
  BY <1>0, <1>1 DEF PushBegin, LocalChange
<1>2. CASE PushFree(p)
  BY <1>0, <1>2 DEF PushFree, LocalChange
<1>3. CASE PushFull(p)
  BY <1>0, <1>3 DEF PushFull, LocalChange
<1>4. CASE PushReload(p)
  BY <1>0, <1>4 DEF PushReload, LocalChange
<1>5. CASE PushRetry(p)
  BY <1>0, <1>5 DEF PushRetry, LocalChange
<1> QED BY <1>1, <1>2, <1>3, <1>4, <1>5 DEF Push

LEMMA PopCases ==
    ASSUME IInv, NEW c \in Consumer, Pop(c)
    PROVE  LocalChange(c) \/ PopClaim(c) \/ PopRead(c) \/ PopRelease(c)
<1>0. /\ pc \in [Thread -> {"idle", "seq", "cas", "write", "publish", "read", "release"}]
      /\ pos \in [Thread -> Nat]
      /\ val \in [Thread -> Value \cup {NoValue}]
      /\ head \in Nat /\ tail \in Nat
      /\ c \in Thread /\ c \notin Producer /\ pos[c] \in Nat /\ pos[c] <= tail
      /\ val[c] \in Value \cup {NoValue}
  BY ThreadAssumption DEF IInv, TypeOK, ConsumerInv, Thread
<1> USE DEF Goto, Writing, Reading
<1>1. CASE PopBegin(c)
  BY <1>0, <1>1 DEF PopBegin, LocalChange
<1>2. CASE PopReady(c)
  BY <1>0, <1>2 DEF PopReady, LocalChange
<1>3. CASE PopEmpty(c)
  BY <1>0, <1>3 DEF PopEmpty, LocalChange
<1>4. CASE PopReload(c)
  BY <1>0, <1>4 DEF PopReload, LocalChange
<1>5. CASE PopRetry(c)
  BY <1>0, <1>5 DEF PopRetry, LocalChange
<1> QED BY <1>1, <1>2, <1>3, <1>4, <1>5 DEF Pop

LEMMA StepIInv ==
    ASSUME SIZE >= 2
    PROVE  IInv /\ [Next]_vars => IInv'
<1> SUFFICES ASSUME IInv, [Next]_vars PROVE IInv'
  OBVIOUS
<1>1. ASSUME NEW p \in Producer, Push(p) PROVE IInv'
  <2>1. p \in Thread
    BY DEF Thread
  <2> QED BY <1>1, <2>1, PushCases, LocalStep, ClaimStep, WriteStep, PublishStep
<1>2. ASSUME NEW c \in Consumer, Pop(c) PROVE IInv'
  <2>1. c \in Thread
    BY DEF Thread
  <2> QED BY <1>2, <2>1, PopCases, LocalStep, TakeStep, ReadStep, ReleaseStep
<1>3. CASE UNCHANGED vars
  BY <1>3 DEF vars, IInv, TypeOK, Bounds, ProducerInv, ConsumerInv, ProducersApart,
              ConsumersApart, CellInv, Writing, Reading, Cell
<1> QED BY <1>1, <1>2, <1>3 DEF Next

THEOREM Invariance == ASSUME SIZE >= 2 PROVE Spec => []IInv
  BY InitIInv, StepIInv, PTL DEF Spec

\* Cells, counters and locals keep their types.
THEOREM TypeCorrect == ASSUME SIZE >= 2 PROVE Spec => []TypeOK
<1>1. IInv => TypeOK
  BY DEF IInv
<1> QED BY <1>1, Invariance, PTL

\* At most SIZE items are in the queue: a producer never claims a cell whose
\* item is still to be popped.
THEOREM CapacityHolds == ASSUME SIZE >= 2 PROVE Spec => []WithinCapacity
<1>1. IInv => WithinCapacity
  BY SizeAssumption DEF IInv, Bounds, TypeOK, WithinCapacity
<1> QED BY <1>1, Invariance, PTL

\* The payload of a cell is accessed by one thread at a time.
THEOREM CellRaceFree == ASSUME SIZE >= 2 PROVE Spec => []NoCellRace
<1>1. IInv => NoCellRace
  <2> SUFFICES ASSUME IInv, NEW t \in Thread, NEW u \in Thread, t # u,
                      pc[t] \in {"write", "read"}, pc[u] \in {"write", "read"}
               PROVE  Cell(pos[t]) # Cell(pos[u])
    BY DEF NoCellRace
  <2>1. Owner(t) /\ Owner(u)
    BY DEF IInv, ProducerInv, ConsumerInv, Owner, Writing, Reading, Thread
  <2> QED BY <2>1, OwnersApart
<1> QED BY <1>1, Invariance, PTL

------------------------------------------------------------------------------
(***************************************************************************)
(* The refinement.                                                         *)
(***************************************************************************)
Any == Value \cup {NoValue}

\* The item at a position is its producer's until it is published.
Items ==
    /\ head - tail \in 0..SIZE
    /\ \A n \in Nat : ItemAt(n) \in Any
    /\ \A n \in Nat : \A p \in Producer : Claims(p, n) => ItemAt(n) = val[p]
    /\ \A n \in Nat : (\A p \in Producer : ~Claims(p, n)) => ItemAt(n) = data[Cell(n)]
    /\ Contents = [i \in 1..(head - tail) |-> ItemAt(tail + i - 1)]
    /\ Contents \in [1..(head - tail) -> Any]
    /\ \A a \in Nat : a = tail =>
            \A i \in 1..(head - tail) : Contents[i] = ItemAt(a + i - 1)

LEMMA ItemsOK == IInv => Items
<1> SUFFICES ASSUME IInv PROVE Items
  OBVIOUS
<1>1. /\ head \in Nat /\ tail \in Nat /\ SIZE \in Nat
      /\ val \in [Thread -> Any] /\ data \in [Index -> Any]
      /\ tail <= head /\ head <= tail + SIZE
  BY SizeAssumption DEF IInv, TypeOK, Bounds, Any
<1>2. ASSUME NEW n \in Nat PROVE ItemAt(n) \in Any
  <2>1. Cell(n) \in Index
    BY CellIndex
  <2>2. ASSUME NEW p \in Producer, Claims(p, n)
        PROVE  (CHOOSE q \in Producer : Claims(q, n)) \in Thread
    BY <2>2 DEF Thread
  <2> QED BY <1>1, <2>1, <2>2 DEF ItemAt
<1>3. ASSUME NEW n \in Nat, NEW p \in Producer, Claims(p, n) PROVE ItemAt(n) = val[p]
  <2> DEFINE q == CHOOSE q \in Producer : Claims(q, n)
  <2>1. q \in Producer /\ Claims(q, n)
    BY <1>3
  <2>2. q = p
    BY <1>3, <2>1 DEF IInv, ProducersApart, Writing, Claims
  <2> QED BY <1>3, <2>2 DEF ItemAt
<1>4. ASSUME NEW n \in Nat, \A p \in Producer : ~Claims(p, n)
      PROVE  ItemAt(n) = data[Cell(n)]
  BY <1>4 DEF ItemAt
<1>5. Contents = [i \in 1..(head - tail) |-> ItemAt(tail + i - 1)]
  BY DEF Contents
<1>6. \A i \in 1..(head - tail) : tail + i - 1 \in Nat
  BY <1>1
<1>7. Contents \in [1..(head - tail) -> Any]
  BY <1>2, <1>5, <1>6
<1> QED BY <1>1, <1>2, <1>3, <1>4, <1>5, <1>7 DEF Items

LEMMA ItemsOKNext == IInv' => Items'
  BY ItemsOK, PTL

\* If the claims and their items stay, and the payload of an unclaimed
\* position stays, the position keeps its item.
LEMMA ItemKept ==
    ASSUME IInv, IInv', NEW n \in Nat,
           \A p \in Producer : Claims(p, n)' <=> Claims(p, n),
           \A p \in Producer : Claims(p, n) => val'[p] = val[p],
           (\A p \in Producer : ~Claims(p, n)) => data'[Cell(n)] = data[Cell(n)]
    PROVE  ItemAt(n)' = ItemAt(n)
<1>1. Items /\ Items'
  BY ItemsOK, ItemsOKNext
<1>2. CASE \E p \in Producer : Claims(p, n)
  <2>1. PICK p \in Producer : Claims(p, n)
    BY <1>2
  <2>2. ItemAt(n) = val[p] /\ ItemAt(n)' = val'[p]
    BY <1>1, <2>1 DEF Items
  <2> QED BY <2>1, <2>2
<1>3. CASE \A p \in Producer : ~Claims(p, n)
  BY <1>1, <1>3 DEF Items
<1> QED BY <1>2, <1>3

\* A step that keeps both ends and every item between them keeps the queue.
LEMMA ContentsKept ==
    ASSUME IInv, IInv', head' = head, tail' = tail,
           \A n \in Nat : tail <= n /\ n < head => ItemAt(n)' = ItemAt(n)
    PROVE  Contents' = Contents
<1>1. /\ Contents = [i \in 1..(head - tail) |-> ItemAt(tail + i - 1)]
      /\ head \in Nat /\ tail \in Nat
  BY DEF IInv, TypeOK, Contents
<1>2. Contents' = [i \in 1..(head - tail) |-> ItemAt(tail + i - 1)']
  BY DEF Contents
<1>3. ASSUME NEW i \in 1..(head - tail) PROVE ItemAt(tail + i - 1)' = ItemAt(tail + i - 1)
  <2> DEFINE n == tail + i - 1
  <2>1. n \in Nat /\ tail <= n /\ n < head
    BY <1>1
  <2>2. ItemAt(tail + i - 1)' = ItemAt(n)'
    BY DEF ItemAt, Claims
  <2> QED BY <2>1, <2>2
<1> QED BY <1>1, <1>2, <1>3

LEMMA InitFIFO == Init => FIFO!Init
  BY DEF Init, FIFO!Init, Contents, Received, Thread

\* Steps that neither claim a position nor write a payload stutter.
LEMMA LocalFIFO ==
    ASSUME IInv, IInv', NEW t \in Thread, LocalChange(t)
    PROVE  UNCHANGED FIFO!vars
<1>1. /\ pc \in [Thread -> {"idle", "seq", "cas", "write", "publish", "read", "release"}]
      /\ pos \in [Thread -> Nat]
      /\ val \in [Thread -> Value \cup {NoValue}]
  BY DEF IInv, TypeOK
<1>2. ASSUME NEW n \in Nat, NEW p \in Producer
      PROVE  /\ Claims(p, n)' <=> Claims(p, n)
             /\ Claims(p, n) => val'[p] = val[p]
  BY <1>1 DEF LocalChange, Claims, Writing, Thread
<1>3. \A n \in Nat : ItemAt(n)' = ItemAt(n)
  BY <1>2, ItemKept DEF LocalChange
<1>4. Contents' = Contents
  BY <1>3, ContentsKept DEF LocalChange
<1>5. Received' = Received
  <2>1. ASSUME NEW c \in Consumer
        PROVE  (IF pc'[c] = "read" THEN data'[Cell(pos'[c])] ELSE val'[c])
                 = IF pc[c] = "read" THEN data[Cell(pos[c])] ELSE val[c]
    BY <1>1 DEF LocalChange, Reading, Thread
  <2> QED BY <2>1 DEF Received, Cell
<1> QED BY <1>4, <1>5 DEF FIFO!vars

\* The claim of a position enqueues its item.
LEMMA ClaimFIFO ==
    ASSUME SIZE >= 2, IInv, IInv', NEW p \in Producer, PushClaim(p)
    PROVE  FIFO!Enqueue(val[p]) /\ val[p] \in Value
<1>0. Items /\ Items'
  BY ItemsOK, ItemsOKNext
<1>1. /\ pc[p] = "cas" /\ pos[p] = head /\ head' = head + 1
      /\ pc' = [pc EXCEPT ![p] = "write"]
      /\ UNCHANGED <<seq, data, tail, pos, val>>
      /\ head \in Nat /\ tail \in Nat /\ SIZE \in Nat /\ tail <= head
      /\ val[p] \in Value /\ val[p] \in Any
      /\ pc \in [Thread -> {"idle", "seq", "cas", "write", "publish", "read", "release"}]
      /\ p \in Thread /\ p \notin Consumer
  BY ThreadAssumption, SizeAssumption
     DEF PushClaim, Goto, IInv, TypeOK, Bounds, ProducerInv, Any, Thread
<1>2. head < tail + SIZE
  BY ClaimStep
<1>3. PICK h \in Nat, b \in Nat : h = head /\ b = tail
  BY <1>1
<1> DEFINE k == h - b
<1>4. k \in Nat /\ k < SIZE /\ head - tail = k /\ head' - tail' = k + 1
  BY <1>1, <1>2, <1>3
<1>5. ASSUME NEW n \in Nat, n < h PROVE ItemAt(n)' = ItemAt(n)
  <2>1. \A q \in Producer : Claims(q, n)' <=> Claims(q, n)
    BY <1>1, <1>3, <1>5 DEF Claims, Thread
  <2> QED BY <1>1, <2>1, ItemKept
<1>6. ItemAt(h)' = val[p]
  <2>1. Claims(p, h)'
    BY <1>1, <1>3 DEF Claims
  <2> QED BY <1>0, <1>1, <2>1 DEF Items
<1>7. /\ Contents \in [1..k -> Any]
      /\ \A i \in 1..k : Contents[i] = ItemAt(b + i - 1)
  BY <1>0, <1>3, <1>4 DEF Items
<1>8. /\ Contents' \in [1..(k + 1) -> Any]
      /\ \A i \in 1..(k + 1) : Contents'[i] = ItemAt(b + i - 1)'
  <2>1. /\ Contents' \in [1..(head' - tail') -> Any]
        /\ \A i \in 1..(head' - tail') : Contents'[i] = ItemAt(b + i - 1)'
    BY <1>0, <1>1, <1>3 DEF Items, Any
  <2> QED BY <1>4, <2>1
<1>9. /\ Contents'[k + 1] = val[p]
      /\ \A i \in 1..k : Contents'[i] = Contents[i]
  <2>1. b + (k + 1) - 1 = h /\ k + 1 \in 1..(k + 1)
    BY <1>3, <1>4
  <2>2. Contents'[k + 1] = val[p]
    BY <1>6, <1>8, <2>1
  <2>3. ASSUME NEW i \in 1..k PROVE Contents'[i] = Contents[i]
    <3>1. b + i - 1 \in Nat /\ b + i - 1 < h /\ i \in 1..(k + 1)
      BY <1>3, <1>4
    <3> QED BY <3>1, <1>5, <1>7, <1>8
  <2> QED BY <2>2, <2>3
<1>10. Received' = Received
  BY <1>1 DEF Received, Cell, Thread
<1> HIDE DEF k
<1>11. Len(Contents) = k /\ Contents' = Append(Contents, val[p])
  BY <1>1, <1>4, <1>7, <1>8, <1>9, WindowAppend
<1> QED BY <1>1, <1>4, <1>10, <1>11 DEF FIFO!Enqueue

\* The claim of the oldest position dequeues its item.
LEMMA TakeFIFO ==
    ASSUME SIZE >= 2, IInv, IInv', NEW c \in Consumer, PopClaim(c)
    PROVE  FIFO!Dequeue(c)
<1>0. Items /\ Items'
  BY ItemsOK, ItemsOKNext
<1>1. /\ pc[c] = "cas" /\ pos[c] = tail /\ tail' = tail + 1
      /\ pc' = [pc EXCEPT ![c] = "read"]
      /\ UNCHANGED <<seq, data, head, pos, val>>
      /\ head \in Nat /\ tail \in Nat
      /\ pc \in [Thread -> {"idle", "seq", "cas", "write", "publish", "read", "release"}]
      /\ c \in Thread /\ c \notin Producer
  BY ThreadAssumption DEF PopClaim, Goto, IInv, TypeOK, Thread
<1>2. tail < head /\ \A p \in Producer : Writing(p) => pos[p] # tail
  BY TakeStep
<1>3. PICK h \in Nat, b \in Nat : h = head /\ b = tail
  BY <1>1
<1> DEFINE k == h - b
<1>4. k \in Nat \ {0} /\ head - tail = k /\ head' - tail' = k - 1
  BY <1>1, <1>2, <1>3
<1>5. ASSUME NEW n \in Nat PROVE ItemAt(n)' = ItemAt(n)
  <2>1. \A q \in Producer : Claims(q, n)' <=> Claims(q, n)
    BY <1>1 DEF Claims, Thread
  <2> QED BY <1>1, <2>1, ItemKept
<1>6. ItemAt(b) = data[Cell(b)]
  <2>1. \A p \in Producer : ~Claims(p, b)
    BY <1>2, <1>3 DEF Claims, Writing
  <2> QED BY <1>0, <2>1 DEF Items
<1>7. /\ Contents \in [1..k -> Any]
      /\ \A i \in 1..k : Contents[i] = ItemAt(b + i - 1)
  BY <1>0, <1>3, <1>4 DEF Items
<1>8. /\ Contents' \in [1..(k - 1) -> Any]
      /\ \A i \in 1..(k - 1) : Contents'[i] = ItemAt((b + 1) + i - 1)'
  <2>1. PICK a \in Nat : a = tail' /\ a = b + 1
    BY <1>1, <1>3
  <2>2. /\ Contents' \in [1..(head' - tail') -> Any]
        /\ \A i \in 1..(head' - tail') : Contents'[i] = ItemAt(a + i - 1)'
    BY <1>0, <2>1 DEF Items, Any
  <2> QED BY <1>4, <2>1, <2>2
<1>9. \A i \in 1..(k - 1) : Contents'[i] = Contents[i + 1]
  <2>1. ASSUME NEW i \in 1..(k - 1) PROVE Contents'[i] = Contents[i + 1]
    <3>1. /\ (b + 1) + i - 1 = b + (i + 1) - 1
          /\ b + (i + 1) - 1 \in Nat /\ i + 1 \in 1..k
      BY <1>3, <1>4
    <3> QED BY <3>1, <1>5, <1>7, <1>8
  <2> QED BY <2>1
<1>10. Contents[1] = data[Cell(b)]
  <2>1. b + 1 - 1 = b /\ 1 \in 1..k
    BY <1>4
  <2> QED BY <1>6, <1>7, <2>1
<1> HIDE DEF k
<1>11. /\ Contents # <<>>
       /\ Head(Contents) = Contents[1]
       /\ Contents' = Tail(Contents)
  BY <1>4, <1>7, <1>8, <1>9, WindowTail
<1>12. Received' = [Received EXCEPT ![c] = data[Cell(b)]]
  BY <1>1, <1>3 DEF Received, Cell, Thread
<1> QED BY <1>10, <1>11, <1>12 DEF FIFO!Dequeue

\* Writing the payload of a claimed cell disturbs no other item.
LEMMA WriteFIFO ==
    ASSUME IInv, IInv', NEW p \in Producer, PushWrite(p)
    PROVE  UNCHANGED FIFO!vars
<1>1. /\ pc[p] = "write" /\ pos[p] \in Nat /\ Cell(pos[p]) \in Index
      /\ data' = [data EXCEPT ![Cell(pos[p])] = val[p]]
      /\ pc' = [pc EXCEPT ![p] = "publish"]
      /\ UNCHANGED <<seq, head, tail, pos, val>>
      /\ data \in [Index -> Value \cup {NoValue}]
      /\ pc \in [Thread -> {"idle", "seq", "cas", "write", "publish", "read", "release"}]
      /\ pos \in [Thread -> Nat]
      /\ p \in Thread /\ p \notin Consumer
      /\ tail <= pos[p] /\ pos[p] < head
      /\ tail \in Nat /\ head \in Nat /\ SIZE \in Nat /\ head <= tail + SIZE
  BY CellIndex, ThreadAssumption, SizeAssumption
     DEF PushWrite, Goto, IInv, TypeOK, Bounds, ProducerInv, Writing, Thread
<1>2. ASSUME NEW n \in Nat, tail <= n, n < head PROVE ItemAt(n)' = ItemAt(n)
  <2>1. \A q \in Producer : Claims(q, n)' <=> Claims(q, n)
    BY <1>1 DEF Claims, Thread
  <2>2. (\A q \in Producer : ~Claims(q, n)) => data'[Cell(n)] = data[Cell(n)]
    <3> SUFFICES ASSUME \A q \in Producer : ~Claims(q, n)
                 PROVE  data'[Cell(n)] = data[Cell(n)]
      OBVIOUS
    <3>1. n # pos[p]
      BY <1>1 DEF Claims
    <3>2. Cell(n) # Cell(pos[p])
      BY <1>1, <1>2, <3>1, CellDistinct
    <3> QED BY <1>1, <3>2, CellIndex
  <2> QED BY <1>1, <2>1, <2>2, ItemKept
<1>3. Contents' = Contents
  BY <1>1, <1>2, ContentsKept
<1>4. ASSUME NEW c \in Consumer, pc[c] = "read"
      PROVE  data'[Cell(pos[c])] = data[Cell(pos[c])]
  <2>1. Owner(c) /\ Owner(p) /\ c # p /\ c \in Thread
    BY <1>1, <1>4 DEF Owner, Writing, Reading, Thread
  <2>2. Cell(pos[c]) # Cell(pos[p])
    BY <1>1, <2>1, OwnersApart
  <2>3. Cell(pos[c]) \in Index
    BY <1>1, <2>1, CellIndex
  <2> QED BY <1>1, <2>2, <2>3
<1>5. Received' = Received
  BY <1>1, <1>4 DEF Received, Cell, Thread
<1> QED BY <1>3, <1>5 DEF FIFO!vars

\* Publishing hands the item over from the producer to its cell.
LEMMA PublishFIFO ==
    ASSUME IInv, IInv', NEW p \in Producer, PushPublish(p)
    PROVE  UNCHANGED FIFO!vars
<1>0. Items /\ Items'
  BY ItemsOK, ItemsOKNext
<1>1. /\ pc[p] = "publish" /\ pos[p] \in Nat
      /\ pc' = [pc EXCEPT ![p] = "idle"]
      /\ UNCHANGED <<data, head, tail, pos, val>>
      /\ pc \in [Thread -> {"idle", "seq", "cas", "write", "publish", "read", "release"}]
      /\ p \in Thread /\ p \notin Consumer
      /\ data[Cell(pos[p])] = val[p]
      /\ \A q \in Producer : q # p /\ Writing(q) => pos[q] # pos[p]
  BY ThreadAssumption
     DEF PushPublish, Goto, IInv, TypeOK, ProducerInv, ProducersApart, Writing, Thread
<1>2. PICK m \in Nat : m = pos[p]
  BY <1>1
<1>3. ItemAt(m)' = ItemAt(m)
  <2>1. Claims(p, m) /\ \A q \in Producer : ~Claims(q, m)'
    BY <1>1, <1>2 DEF Claims, Writing, Thread
  <2>2. ItemAt(m) = val[p] /\ ItemAt(m)' = data'[Cell(m)]
    BY <1>0, <2>1 DEF Items, Cell
  <2> QED BY <1>1, <1>2, <2>2
<1>4. ASSUME NEW n \in Nat, n # m PROVE ItemAt(n)' = ItemAt(n)
  <2>1. \A q \in Producer : Claims(q, n)' <=> Claims(q, n)
    BY <1>1, <1>2, <1>4 DEF Claims, Thread
  <2> QED BY <1>1, <2>1, ItemKept
<1>5. Contents' = Contents
  BY <1>1, <1>3, <1>4, ContentsKept
<1>6. Received' = Received
  BY <1>1 DEF Received, Cell, Thread
<1> QED BY <1>5, <1>6 DEF FIFO!vars

\* Copying the payload out and freeing the cell are invisible.
LEMMA ReadFIFO ==
    ASSUME IInv, IInv', NEW c \in Consumer, PopRead(c) \/ PopRelease(c)
    PROVE  UNCHANGED FIFO!vars
<1>1. /\ UNCHANGED <<data, head, tail, pos>>
      /\ \A t \in Thread : t # c => pc'[t] = pc[t] /\ val'[t] = val[t]
      /\ \/ pc[c] = "read" /\ pc'[c] = "release" /\ val'[c] = data[Cell(pos[c])]
         \/ pc[c] = "release" /\ pc'[c] = "idle" /\ val'[c] = val[c]
      /\ c \notin Producer
  BY ThreadAssumption DEF PopRead, PopRelease, Goto, IInv, TypeOK, Thread
<1>2. ASSUME NEW n \in Nat PROVE ItemAt(n)' = ItemAt(n)
  <2>1. \A q \in Producer : Claims(q, n)' <=> Claims(q, n)
    BY <1>1 DEF Claims, Thread
  <2>2. \A q \in Producer : val'[q] = val[q]
    BY <1>1 DEF Thread
  <2> QED BY <1>1, <2>1, <2>2, ItemKept
<1>3. Contents' = Contents
  BY <1>1, <1>2, ContentsKept
<1>4. Received' = Received
  <2>1. ASSUME NEW d \in Consumer
        PROVE  (IF pc'[d] = "read" THEN data'[Cell(pos'[d])] ELSE val'[d])
                 = IF pc[d] = "read" THEN data[Cell(pos[d])] ELSE val[d]
    BY <1>1 DEF Thread
  <2> QED BY <2>1 DEF Received, Cell
<1> QED BY <1>3, <1>4 DEF FIFO!vars

LEMMA StepFIFO ==
    ASSUME SIZE >= 2, IInv, IInv', [Next]_vars
    PROVE  [FIFO!Next]_FIFO!vars
<1>1. ASSUME NEW p \in Producer, Push(p) PROVE [FIFO!Next]_FIFO!vars
  <2>1. p \in Thread
    BY DEF Thread
  <2>2. CASE PushClaim(p)
    BY <2>2, ClaimFIFO DEF FIFO!Next
  <2> QED BY <1>1, <2>1, <2>2, PushCases, LocalFIFO, WriteFIFO, PublishFIFO
<1>2. ASSUME NEW c \in Consumer, Pop(c) PROVE [FIFO!Next]_FIFO!vars
  <2>1. c \in Thread
    BY DEF Thread
  <2>2. CASE PopClaim(c)
    BY <2>2, TakeFIFO DEF FIFO!Next
  <2> QED BY <1>2, <2>1, <2>2, PopCases, LocalFIFO, ReadFIFO
<1>3. CASE UNCHANGED vars
  BY <1>3 DEF vars, FIFO!vars, Contents, Received, ItemAt, Claims, Cell
<1> QED BY <1>1, <1>2, <1>3 DEF Next

\* The queue implements a FIFO of capacity() items for every number of
\* producers and consumers and every SIZE of at least 2.
THEOREM QueueRefinement == ASSUME SIZE >= 2 PROVE Spec => ImplementsFIFO
<1>1. Spec => []IInv
  BY Invariance
<1>2. IInv /\ IInv' /\ [Next]_vars => [FIFO!Next]_FIFO!vars
  BY StepFIFO
<1> QED BY <1>1, <1>2, InitFIFO, PTL DEF Spec, ImplementsFIFO, FIFO!Spec
==============================================================================
