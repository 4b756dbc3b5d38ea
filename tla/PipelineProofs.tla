---------------------------- MODULE PipelineProofs ----------------------------
(***************************************************************************)
(* SPSCQueue for every SIZE and every set of items: type correctness, the  *)
(* absence of data races on the slots, and that the ring implements a FIFO *)
(* of SIZE - 1 items.                                                      *)
(*                                                                         *)
(* run_pipeline_threaded for every ring size and every number of messages: *)
(* the two threads use the ring as SPSCQueue says it may be used, and the  *)
(* parser sees every message once, in order, before it leaves its loop.    *)
(***************************************************************************)
EXTENDS ThreadedPipeline, Lemmas

\* The ring arithmetic of one masked increment, of one masked difference and
\* of one masked offset.
LEMMA SuccDef ==
    ASSUME NEW k \in Index
    PROVE  /\ Succ(k) \in Index
           /\ Succ(k) = IF k = SIZE - 1 THEN 0 ELSE k + 1
<1> DEFINE a == k + 1
<1>1. a \in 0..(2 * SIZE - 1) /\ a = k + 1 /\ k \in 0..(SIZE - 1)
  BY SizeAssumption DEF Index
<1> HIDE DEF a
<1>2. a % SIZE = IF a < SIZE THEN a ELSE a - SIZE
  BY <1>1, SizeAssumption, ModOnce
<1>3. Succ(k) = a % SIZE
  BY <1>1 DEF Succ
<1> QED BY <1>1, <1>2, <1>3, SizeAssumption DEF Index

LEMMA UsedDef ==
    ASSUME NEW h \in Index, NEW t \in Index
    PROVE  /\ Used(h, t) \in Index
           /\ Used(h, t) = IF h >= t THEN h - t ELSE h - t + SIZE
<1> DEFINE a == h + SIZE - t
<1>1. /\ a \in 0..(2 * SIZE - 1) /\ a = h + SIZE - t
      /\ h \in 0..(SIZE - 1) /\ t \in 0..(SIZE - 1)
  BY SizeAssumption DEF Index
<1> HIDE DEF a
<1>2. a % SIZE = IF a < SIZE THEN a ELSE a - SIZE
  BY <1>1, SizeAssumption, ModOnce
<1>3. Used(h, t) = a % SIZE
  BY <1>1 DEF Used
<1> QED BY <1>1, <1>2, <1>3, SizeAssumption DEF Index

LEMMA SlotDef ==
    ASSUME NEW f \in Index, NEW k \in 1..SIZE
    PROVE  /\ (f + k - 1) % SIZE \in Index
           /\ (f + k - 1) % SIZE = IF f + k - 1 < SIZE THEN f + k - 1 ELSE f + k - 1 - SIZE
<1> DEFINE a == f + k - 1
<1>1. a \in 0..(2 * SIZE - 1) /\ a = f + k - 1 /\ f \in 0..(SIZE - 1)
  BY SizeAssumption DEF Index
<1> HIDE DEF a
<1>2. a % SIZE = IF a < SIZE THEN a ELSE a - SIZE
  BY <1>1, SizeAssumption, ModOnce
<1> QED BY <1>1, <1>2, SizeAssumption DEF Index

------------------------------------------------------------------------------
(***************************************************************************)
(* The inductive invariant.  A check of the other side's counter stays     *)
(* valid until it is acted upon, because that counter only moves away: the *)
(* producer's free slot stays free and the consumer's published slot stays *)
(* published.  Between its write and its publication the slot holds item.  *)
(***************************************************************************)
IInv == /\ TypeOK
        /\ ppc # "idle" => ~Full /\ item \in Value
        /\ ppc = "publish" => buffer[head] = item
        /\ cpc # "idle" => ~Empty

LEMMA InitIInv == Init => IInv
  BY SizeAssumption DEF Init, IInv, TypeOK, Index

LEMMA StepIInv == IInv /\ [Next]_vars => IInv'
<1> SUFFICES ASSUME IInv, [Next]_vars PROVE IInv'
  OBVIOUS
<1> USE DEF IInv, TypeOK, Full, Empty
<1>0. /\ Succ(head) \in Index
      /\ Succ(tail) \in Index
      /\ Succ(head) = IF head = SIZE - 1 THEN 0 ELSE head + 1
      /\ Succ(tail) = IF tail = SIZE - 1 THEN 0 ELSE tail + 1
      /\ Succ(Succ(head)) \in Index
  BY SuccDef
<1>1. ASSUME NEW v \in Value, PushFull(v) PROVE IInv'
  BY <1>1 DEF PushFull
<1>2. ASSUME NEW v \in Value, PushLoad(v) PROVE IInv'
  BY <1>2 DEF PushLoad
<1>3. CASE PushWrite
  BY <1>3 DEF PushWrite
<1>4. CASE PushPublish
  BY <1>4, <1>0 DEF PushPublish, Index
<1>5. CASE PopEmpty
  BY <1>5 DEF PopEmpty, vars
<1>6. CASE PopLoad
  BY <1>6 DEF PopLoad
<1>7. CASE PopRead
  BY <1>7 DEF PopRead
<1>8. CASE PopRelease
  BY <1>8, <1>0 DEF PopRelease, Index
<1>9. CASE UNCHANGED vars
  BY <1>9 DEF vars
<1> QED BY <1>1, <1>2, <1>3, <1>4, <1>5, <1>6, <1>7, <1>8, <1>9
        DEF Next, Producer, Consumer

THEOREM Invariance == Spec => []IInv
  BY InitIInv, StepIInv, PTL DEF Spec

\* push() and pop() keep every counter a slot number and every slot typed.
THEOREM TypeCorrect == Spec => []TypeOK
<1>1. IInv => TypeOK
  BY DEF IInv
<1> QED BY <1>1, Invariance, PTL

\* The plain write of push() and the plain read of pop() never meet in a slot.
THEOREM SlotRaceFree == Spec => []NoSlotRace
<1>1. IInv => NoSlotRace
  BY DEF IInv, NoSlotRace, Empty
<1> QED BY <1>1, Invariance, PTL

------------------------------------------------------------------------------
(***************************************************************************)
(* The refinement.                                                         *)
(***************************************************************************)
Slot(f, k) == (f + k - 1) % SIZE
Any == Value \cup {NoValue}

\* The window of live slots, and the slots it covers.
Window ==
    /\ First \in Index
    /\ Used(head, First) \in 0..(SIZE - 1)
    /\ \A k \in 1..Used(head, First) : Slot(First, k) \in Index /\ Slot(First, k) # head
    /\ Contents = [k \in 1..Used(head, First) |-> buffer[Slot(First, k)]]
    /\ Contents \in [1..Used(head, First) -> Any]

LEMMA WindowOK == IInv => Window
<1> SUFFICES ASSUME IInv PROVE Window
  OBVIOUS
<1>1. head \in Index /\ tail \in Index /\ buffer \in [Index -> Any]
  BY DEF IInv, TypeOK, Any
<1>2. First \in Index
  BY <1>1, SuccDef DEF First
<1>3. /\ Used(head, First) \in Index
      /\ Used(head, First) = IF head >= First THEN head - First ELSE head - First + SIZE
  BY <1>1, <1>2, UsedDef
<1>4. ASSUME NEW k \in 1..Used(head, First)
      PROVE  Slot(First, k) \in Index /\ Slot(First, k) # head
  <2>1. k \in 1..SIZE
    BY <1>3, SizeAssumption DEF Index
  <2>2. /\ Slot(First, k) \in Index
        /\ Slot(First, k) = IF First + k - 1 < SIZE THEN First + k - 1 ELSE First + k - 1 - SIZE
    BY <2>1, <1>2, SlotDef DEF Slot
  <2> QED BY <2>1, <2>2, <1>1, <1>2, <1>3, SizeAssumption DEF Index
<1>5. Contents = [k \in 1..Used(head, First) |-> buffer[Slot(First, k)]]
  BY DEF Contents, Slot
<1>6. Contents \in [1..Used(head, First) -> Any]
  BY <1>1, <1>4, <1>5
<1> QED BY <1>2, <1>3, <1>4, <1>5, <1>6 DEF Index, Window

LEMMA WindowOKNext == IInv' => Window'
  BY WindowOK, PTL

\* A step that keeps the window's ends and writes no slot inside it keeps it.
LEMMA WindowSame ==
    ASSUME IInv, First' = First, head' = head,
           \A j \in Index : j # head => buffer'[j] = buffer[j]
    PROVE  Contents' = Contents
<1>1. /\ Contents = [k \in 1..Used(head, First) |-> buffer[Slot(First, k)]]
      /\ \A k \in 1..Used(head, First) : Slot(First, k) \in Index /\ Slot(First, k) # head
  BY WindowOK DEF Window
<1>2. Used(head, First)' = Used(head, First)
  BY DEF Used
<1>3. \A k \in 1..Used(head, First) : Slot(First, k)' = Slot(First, k)
  BY DEF Slot
<1>4. Contents' = [k \in 1..Used(head, First)' |-> buffer'[Slot(First, k)']]
  BY DEF Contents, Slot
<1> QED BY <1>1, <1>2, <1>3, <1>4

LEMMA InitFIFO == Init => FIFO!Init
<1> SUFFICES ASSUME Init PROVE FIFO!Init
  OBVIOUS
<1>1. Used(head, First) = 0
  BY SizeAssumption, UsedDef DEF Init, First, Index
<1>2. Contents = <<>>
  BY <1>1 DEF Contents
<1> QED BY <1>2 DEF FIFO!Init, Init

\* A publication appends the item to the window.
LEMMA PublishAppends ==
    ASSUME IInv, IInv', PushPublish
    PROVE  /\ Len(Contents) < SIZE - 1
           /\ Contents' = Append(Contents, item)
<1> DEFINE n == Used(head, First)
<1>1. /\ First \in Index
      /\ n \in 0..(SIZE - 1)
      /\ \A k \in 1..n : Slot(First, k) \in Index
      /\ Contents = [k \in 1..n |-> buffer[Slot(First, k)]]
      /\ Contents \in [1..n -> Any]
  BY WindowOK DEF Window
<1>2. /\ Contents' = [k \in 1..Used(head, First)' |-> buffer'[Slot(First, k)']]
      /\ Contents' \in [1..Used(head, First)' -> Any]
  BY WindowOKNext DEF Window, Any
<1>3. /\ head \in Index /\ tail \in Index /\ ppc = "publish"
      /\ head' = Succ(head) /\ buffer' = buffer /\ tail' = tail /\ cpc' = cpc
      /\ Succ(head) # tail /\ buffer[head] = item /\ item \in Any
      /\ (cpc # "idle" => tail # head)
  BY DEF PushPublish, IInv, TypeOK, Full, Empty, Any
<1>4. First' = First
  BY <1>3 DEF First, Succ
<1>5. /\ n = IF head >= First THEN head - First ELSE head - First + SIZE
      /\ Succ(head) \in Index
      /\ Succ(head) = IF head = SIZE - 1 THEN 0 ELSE head + 1
      /\ Succ(tail) \in Index
      /\ Succ(tail) = IF tail = SIZE - 1 THEN 0 ELSE tail + 1
      /\ Used(Succ(head), First)
            = IF Succ(head) >= First THEN Succ(head) - First ELSE Succ(head) - First + SIZE
  BY <1>1, <1>3, UsedDef, SuccDef
<1>6. Succ(head) # First
  BY <1>3, <1>5, SizeAssumption DEF First, Index
<1>7. Used(Succ(head), First) = n + 1 /\ n < SIZE - 1
  <2>1. head \in Int /\ First \in Int /\ SIZE \in Int /\ 0 <= head /\ head <= SIZE - 1
        /\ 0 <= First /\ First <= SIZE - 1
    BY <1>1, <1>3, SizeAssumption DEF Index
  <2> HIDE DEF n
  <2> QED BY ONLY <1>5, <1>6, <2>1
<1>8. Used(head, First)' = n + 1
  BY <1>3, <1>4, <1>7 DEF Used
<1>9. Slot(First, n + 1) = head
  <2>1. n + 1 \in 1..SIZE
    BY <1>1, <1>7, SizeAssumption
  <2>2. Slot(First, n + 1)
          = IF First + (n + 1) - 1 < SIZE THEN First + (n + 1) - 1 ELSE First + (n + 1) - 1 - SIZE
    BY <2>1, <1>1, SlotDef DEF Slot
  <2> QED BY <2>2, <1>1, <1>3, <1>5, SizeAssumption DEF Index
<1>10. \A k \in 1..(n + 1) : Contents'[k] = buffer[Slot(First, k)]
  BY <1>2, <1>3, <1>4, <1>8 DEF Slot
<1> HIDE DEF n
<1>11. /\ Contents' \in [1..(n + 1) -> Any]
       /\ Contents'[n + 1] = item
       /\ \A k \in 1..n : Contents'[k] = Contents[k]
  BY <1>1, <1>2, <1>3, <1>8, <1>9, <1>10
<1>12. n \in Nat
  BY <1>1
<1> QED BY <1>1, <1>3, <1>7, <1>11, <1>12, WindowAppend

\* A pop's read takes the first value of the window.
LEMMA ReadTakesHead ==
    ASSUME IInv, IInv', PopRead
    PROVE  /\ Contents # <<>>
           /\ out' = Head(Contents)
           /\ Contents' = Tail(Contents)
<1> DEFINE n == Used(head, tail)
<1>1. /\ head \in Index /\ tail \in Index /\ cpc = "read" /\ cpc' = "release"
      /\ head' = head /\ tail' = tail /\ buffer' = buffer /\ tail # head
      /\ out' = buffer[tail]
  BY DEF PopRead, IInv, TypeOK, Empty
<1>2. First = tail /\ First' = Succ(tail)
  BY <1>1 DEF First, Succ
<1>3. /\ n \in 0..(SIZE - 1)
      /\ Contents = [k \in 1..n |-> buffer[Slot(tail, k)]]
      /\ Contents \in [1..n -> Any]
  BY <1>2, WindowOK DEF Window
<1>4. /\ Contents' = [k \in 1..Used(head, First)' |-> buffer'[Slot(First, k)']]
      /\ Contents' \in [1..Used(head, First)' -> Any]
  BY WindowOKNext DEF Window, Any
<1>5. /\ n = IF head >= tail THEN head - tail ELSE head - tail + SIZE
      /\ Succ(tail) \in Index
      /\ Succ(tail) = IF tail = SIZE - 1 THEN 0 ELSE tail + 1
      /\ Used(head, Succ(tail))
            = IF head >= Succ(tail) THEN head - Succ(tail) ELSE head - Succ(tail) + SIZE
  BY <1>1, UsedDef, SuccDef
<1>6. n \in Nat \ {0} /\ Used(head, Succ(tail)) = n - 1
  BY <1>1, <1>3, <1>5, SizeAssumption DEF Index
<1>7. Used(head, First)' = n - 1
  BY <1>1, <1>2, <1>6 DEF Used
<1>8. Slot(tail, 1) = tail
  BY <1>1, SlotDef, SizeAssumption DEF Slot, Index
<1>9. ASSUME NEW k \in 1..(n - 1) PROVE Slot(Succ(tail), k) = Slot(tail, k + 1)
  <2>1. k \in 1..SIZE /\ k + 1 \in 1..SIZE
    BY <1>3, <1>6, SizeAssumption
  <2>2. Slot(Succ(tail), k) = IF Succ(tail) + k - 1 < SIZE THEN Succ(tail) + k - 1
                                                         ELSE Succ(tail) + k - 1 - SIZE
    BY <2>1, <1>5, SlotDef DEF Slot
  <2>3. Slot(tail, k + 1) = IF tail + (k + 1) - 1 < SIZE THEN tail + (k + 1) - 1
                                                       ELSE tail + (k + 1) - 1 - SIZE
    BY <2>1, <1>1, SlotDef DEF Slot
  <2> QED BY <2>1, <2>2, <2>3, <1>1, <1>3, <1>5, SizeAssumption DEF Index
<1>10. \A k \in 1..(n - 1) : Contents'[k] = buffer[Slot(Succ(tail), k)]
  BY <1>1, <1>2, <1>4, <1>7 DEF Slot
<1> HIDE DEF n
<1>11. /\ Contents' \in [1..(n - 1) -> Any]
       /\ \A k \in 1..(n - 1) : Contents'[k] = Contents[k + 1]
       /\ Contents[1] = buffer[tail]
  <2>1. \A k \in 1..(n - 1) : k + 1 \in 1..n
    BY <1>6
  <2>2. \A k \in 1..(n - 1) : Contents[k + 1] = buffer[Slot(tail, k + 1)]
    BY <1>3, <2>1
  <2>3. Contents[1] = buffer[tail]
    BY <1>3, <1>6, <1>8
  <2>4. \A k \in 1..(n - 1) : Contents'[k] = Contents[k + 1]
    BY <2>2, <1>9, <1>10
  <2> QED BY <2>3, <2>4, <1>4, <1>7
<1> QED BY <1>1, <1>3, <1>6, <1>11, WindowTail

LEMMA StepFIFO == IInv /\ IInv' /\ [Next]_vars => [FIFO!Next]_(FIFO!vars)
<1> SUFFICES ASSUME IInv, IInv', [Next]_vars PROVE [FIFO!Next]_(FIFO!vars)
  OBVIOUS
<1>0. ASSUME Contents' = Contents, out' = out PROVE UNCHANGED FIFO!vars
  BY <1>0 DEF FIFO!vars
<1> USE DEF IInv, TypeOK
<1>1. ASSUME NEW v \in Value, PushFull(v) \/ PushLoad(v) PROVE UNCHANGED FIFO!vars
  BY <1>0, <1>1, WindowSame DEF PushFull, PushLoad, First, Succ
<1>2. CASE PushWrite
  BY <1>0, <1>2, WindowSame DEF PushWrite, First, Succ
<1>3. CASE PushPublish
  <2>1. FIFO!Enqueue(item) /\ item \in Value
    BY <1>3, PublishAppends DEF FIFO!Enqueue, PushPublish
  <2> QED BY <2>1 DEF FIFO!Next
<1>4. CASE PopEmpty \/ UNCHANGED vars
  BY <1>0, <1>4, WindowSame DEF PopEmpty, vars, First, Succ
<1>5. CASE PopLoad
  BY <1>0, <1>5, WindowSame DEF PopLoad, First, Succ
<1>6. CASE PopRead
  <2>1. FIFO!Dequeue("consumer")
    BY <1>6, ReadTakesHead DEF FIFO!Dequeue
  <2> QED BY <2>1 DEF FIFO!Next
<1>7. CASE PopRelease
  BY <1>0, <1>7, WindowSame DEF PopRelease, First, Succ
<1> QED BY <1>1, <1>2, <1>3, <1>4, <1>5, <1>6, <1>7 DEF Next, Producer, Consumer

\* The ring implements a FIFO of SIZE - 1 items: every item pushed is popped
\* once, in order, and push() refuses only when SIZE - 1 slots are taken.
THEOREM QueueRefinement == Spec => ImplementsFIFO
<1>1. Spec => []IInv
  BY Invariance
<1> QED BY <1>1, InitFIFO, StepFIFO, PTL DEF Spec, ImplementsFIFO, FIFO!Spec
------------------------------------------------------------------------------
\* The n messages that follow message q.
Run(q, n) == [k \in 1..n |-> q + k]

LEMMA RunType ==
    ASSUME NEW q \in Nat, NEW n \in Nat
    PROVE  Run(q, n) \in [1..n -> Nat] /\ Run(q, n) \in Seq(Nat) /\ Len(Run(q, n)) = n
<1>1. Run(q, n) \in [1..n -> Nat]
  BY DEF Run
<1> QED BY <1>1

LEMMA RunAppend ==
    ASSUME NEW q \in Nat, NEW n \in Nat
    PROVE  Append(Run(q, n), q + n + 1) = Run(q, n + 1)
<1> DEFINE s == Run(q, n)
           t == Run(q, n + 1)
           e == q + n + 1
<1>1. /\ s \in [1..n -> Nat] /\ t \in [1..(n + 1) -> Nat] /\ e \in Nat
      /\ t[n + 1] = e /\ \A k \in 1..n : t[k] = s[k]
  BY DEF Run
<1> HIDE DEF s, t, e
<1>2. t = Append(s, e)
  BY <1>1, WindowAppend
<1> QED BY <1>2 DEF s, t, e

LEMMA RunTail ==
    ASSUME NEW q \in Nat, NEW n \in Nat \ {0}
    PROVE  Head(Run(q, n)) = q + 1 /\ Tail(Run(q, n)) = Run(q + 1, n - 1)
<1> DEFINE s == Run(q, n)
           t == Run(q + 1, n - 1)
<1>1. /\ s \in [1..n -> Nat] /\ t \in [1..(n - 1) -> Nat]
      /\ \A k \in 1..(n - 1) : t[k] = s[k + 1]
      /\ s[1] = q + 1
  BY DEF Run
<1> HIDE DEF s, t
<1>2. Head(s) = s[1] /\ t = Tail(s)
  BY <1>1, WindowTail
<1> QED BY <1>1, <1>2 DEF s, t

------------------------------------------------------------------------------
(***************************************************************************)
(* The inductive invariant: the messages parsed, the one the parser holds  *)
(* and those in the ring are the messages 1 to i, in order.  The flag is   *)
(* set after the last push, so a parser that saw it set and then found the *)
(* ring empty has parsed them all.                                         *)
(***************************************************************************)
Taken == IF cpc = "release" THEN Len(parsed) + 1 ELSE Len(parsed)

PInv == /\ IInv
        /\ i \in 0..NumMessages
        /\ parsed \in Seq(Nat) /\ parsed = Run(0, Len(parsed))
        /\ Taken <= i /\ Contents = Run(Taken, i - Taken)
        /\ cpc = "release" => out = Taken
        /\ ppc # "idle" => i < NumMessages /\ item = i + 1
        /\ done => i = NumMessages
        /\ loop # "pop" => cpc = "idle"
        /\ loop = "testEmpty" => done
        /\ loop = "exit" => Len(parsed) = NumMessages

LEMMA PInitInv == PInit => PInv
<1> SUFFICES ASSUME PInit PROVE PInv
  OBVIOUS
<1>1. IInv
  BY InitIInv DEF PInit
<1>2. Contents = <<>>
  BY InitFIFO DEF PInit, FIFO!Init
<1>3. Run(0, 0) = <<>>
  BY DEF Run
<1>4. /\ i = 0 /\ done = FALSE /\ loop = "test" /\ parsed = <<>> /\ cpc = "idle" /\ ppc = "idle"
      /\ Len(parsed) = 0 /\ parsed \in Seq(Nat)
  BY DEF PInit, Init
<1>5. Taken = 0
  BY <1>4 DEF Taken
<1> QED BY <1>1, <1>2, <1>3, <1>4, <1>5, MessageAssumption DEF PInv

\* A step of the two threads is a step of the queue's users, or none.
LEMMA StepOfQueue == PInv /\ [PNext]_<<vars, pipeline>> => [Next]_vars
<1> SUFFICES ASSUME PInv, [PNext]_<<vars, pipeline>> PROVE [Next]_vars
  OBVIOUS
<1>1. CASE Generate
  <2>1. i + 1 \in Value
    BY <1>1, MessageAssumption DEF Generate, PInv
  <2> QED BY <1>1, <2>1 DEF Generate, Next, Producer
<1>2. CASE Finish \/ TestDone \/ TestEmpty \/ Joined
  BY <1>2 DEF Finish, TestDone, TestEmpty, Joined
<1>3. CASE ParseNothing \/ Parse
  BY <1>3 DEF ParseNothing, Parse, Next, Consumer
<1> QED BY <1>1, <1>2, <1>3 DEF PNext

\* Steps that leave the ring's contents, and what the parser took, alone.
LEMMA GenerateStep == ASSUME PInv, IInv', Generate PROVE PInv'
<1>1. /\ i \in 0..NumMessages /\ i < NumMessages /\ NumMessages \in Nat
      /\ Len(parsed) \in Nat /\ Taken \in Nat /\ Taken <= i
      /\ Contents = Run(Taken, i - Taken)
  BY MessageAssumption DEF PInv, Generate, Taken
<1>2. /\ UNCHANGED <<done, loop, parsed, cpc, out>> /\ Taken' = Taken
      /\ i' = IF ppc = "publish" THEN i + 1 ELSE i
  BY DEF Generate, PushFull, PushLoad, PushWrite, PushPublish, Taken
<1>3. CASE PushFull(i + 1) \/ PushLoad(i + 1) \/ PushWrite
  <2>1. i' = i /\ (ppc' # "idle" => item' = i + 1)
    BY <1>2, <1>3 DEF PushFull, PushLoad, PushWrite, PInv
  <2>2. Contents' = Contents
    <3>1. /\ First' = First /\ head' = head
          /\ \A j \in Index : j # head => buffer'[j] = buffer[j]
      BY <1>3 DEF PushFull, PushLoad, PushWrite, First, Succ, PInv, IInv, TypeOK
    <3> QED BY <3>1, WindowSame DEF PInv
  <2> QED BY <1>1, <1>2, <2>1, <2>2 DEF PInv
<1>4. CASE PushPublish
  <2>1. i' = i + 1 /\ ppc' = "idle" /\ item = i + 1
    BY <1>2, <1>4 DEF PushPublish, PInv
  <2>2. Contents' = Append(Contents, item)
    BY <1>4, PublishAppends DEF PInv
  <2>3. Append(Run(Taken, i - Taken), i + 1) = Run(Taken, i' - Taken)
    <3> DEFINE n == i - Taken
    <3>1. n \in Nat /\ Taken + n + 1 = i + 1 /\ n + 1 = i' - Taken
      BY <1>1, <2>1
    <3> HIDE DEF n
    <3>2. Append(Run(Taken, n), Taken + n + 1) = Run(Taken, n + 1)
      BY <1>1, <3>1, RunAppend
    <3> QED BY <3>1, <3>2 DEF n
  <2>4. Contents' = Run(Taken', i' - Taken')
    BY <1>1, <1>2, <2>1, <2>2, <2>3
  <2> QED BY <1>1, <1>2, <2>1, <2>4 DEF PInv
<1> QED BY <1>3, <1>4 DEF Generate

\* Between the flag and the ring: an empty ring behind a set flag is the end.
LEMMA EmptyIsEnd ==
    ASSUME PInv, loop = "testEmpty", Empty
    PROVE  Len(parsed) = NumMessages
<1>1. /\ cpc = "idle" /\ done /\ i = NumMessages /\ head \in Index /\ tail = head
      /\ Taken = Len(parsed) /\ Len(parsed) \in Nat /\ Taken <= i /\ i \in Nat
      /\ Contents = Run(Taken, i - Taken)
  BY MessageAssumption DEF PInv, Taken, Empty, IInv, TypeOK
<1>2. Used(head, First) = 0
  BY <1>1, UsedDef DEF First, Index
<1>3. Contents = <<>>
  BY <1>2 DEF Contents
<1>4. Len(Run(Taken, i - Taken)) = i - Taken
  <2>1. Taken \in Nat /\ i - Taken \in Nat
    BY <1>1
  <2> QED BY <2>1, RunType
<1> QED BY <1>1, <1>3, <1>4

LEMMA LoopStep ==
    ASSUME PInv, IInv', Finish \/ TestDone \/ TestEmpty \/ ParseNothing \/ Joined
                        \/ UNCHANGED <<vars, pipeline>>
    PROVE  PInv'
<1>1. UNCHANGED <<vars, i, parsed>>
  BY DEF Finish, TestDone, TestEmpty, ParseNothing, Joined, PopEmpty, pipeline
<1>2. Contents' = Contents /\ Taken' = Taken
  BY <1>1 DEF Contents, Taken, First, Used, Succ, vars
<1>3. /\ done' => i = NumMessages
      /\ loop' = "testEmpty" => done'
      /\ loop' # "pop" => cpc = "idle"
      /\ loop' = "exit" => Len(parsed) = NumMessages
  BY EmptyIsEnd DEF PInv, Finish, TestDone, TestEmpty, ParseNothing, Joined, PopEmpty, pipeline
<1> QED BY <1>1, <1>2, <1>3 DEF PInv, vars

LEMMA ParseStep == ASSUME PInv, IInv', Parse PROVE PInv'
<1>1. /\ i \in 0..NumMessages /\ NumMessages \in Nat
      /\ Len(parsed) \in Nat /\ Taken \in Nat /\ Taken <= i
      /\ Contents = Run(Taken, i - Taken)
  BY MessageAssumption DEF PInv, Taken
<1>2. UNCHANGED <<i, done, ppc, item>> /\ loop = "pop"
  BY DEF Parse, PopLoad, PopRead, PopRelease
<1>3. CASE PopLoad /\ UNCHANGED <<loop, parsed>>
  <2>1. Contents' = Contents
    <3>1. First' = First /\ head' = head /\ buffer' = buffer
      BY <1>3 DEF PopLoad, First, Succ
    <3> QED BY <3>1, WindowSame DEF PInv
  <2>2. Taken' = Taken /\ cpc' = "read"
    BY <1>3 DEF PopLoad, Taken
  <2> QED BY <1>1, <1>2, <1>3, <2>1, <2>2 DEF PInv
<1>4. CASE PopRead /\ UNCHANGED <<loop, parsed>>
  <2>1. Contents # <<>> /\ out' = Head(Contents) /\ Contents' = Tail(Contents)
    BY <1>4, ReadTakesHead DEF PInv
  <2>2. Taken' = Taken + 1
    BY <1>1, <1>4 DEF PopRead, Taken
  <2> DEFINE n == i - Taken
  <2>3. n \in Nat /\ Contents = Run(Taken, n) /\ Taken + n = i
    BY <1>1
  <2> HIDE DEF n
  <2>4. n # 0
    <3>1. ASSUME n = 0 PROVE Contents = <<>>
      BY <2>3, <3>1 DEF Run
    <3> QED BY <2>1, <3>1
  <2>5. out' = Taken + 1 /\ Contents' = Run(Taken + 1, n - 1)
    <3>1. Taken \in Nat /\ n \in Nat \ {0}
      BY <1>1, <2>3, <2>4
    <3>2. Head(Run(Taken, n)) = Taken + 1 /\ Tail(Run(Taken, n)) = Run(Taken + 1, n - 1)
      BY ONLY <3>1, RunTail
    <3> QED BY <2>1, <2>3, <3>2
  <2>6. /\ Taken' <= i' /\ n - 1 = i' - Taken'
        /\ Contents' = Run(Taken', i' - Taken') /\ out' = Taken'
    BY <1>1, <1>2, <2>2, <2>3, <2>4, <2>5
  <2> QED BY <1>1, <1>2, <1>4, <2>6 DEF PInv
<1>5. CASE PopRelease /\ parsed' = Append(parsed, out) /\ loop' = "test"
  <2>1. /\ cpc = "release" /\ cpc' = "idle" /\ Taken = Len(parsed) + 1 /\ out = Len(parsed) + 1
        /\ parsed \in Seq(Nat) /\ parsed = Run(0, Len(parsed))
    BY <1>5 DEF PopRelease, PInv, Taken
  <2>2. /\ parsed' \in Seq(Nat) /\ Len(parsed') = Len(parsed) + 1
    BY <1>1, <1>5, <2>1
  <2>3. parsed' = Run(0, Len(parsed'))
    <3>1. Append(Run(0, Len(parsed)), 0 + Len(parsed) + 1) = Run(0, Len(parsed) + 1)
      BY <1>1, RunAppend
    <3>2. 0 + Len(parsed) + 1 = out
      BY <1>1, <2>1
    <3> QED BY <1>5, <2>1, <2>2, <3>1, <3>2
  <2>4. Taken' = Taken
    BY <2>1, <2>2 DEF Taken
  <2>5. Contents' = Contents
    <3>1. First' = First /\ head' = head /\ buffer' = buffer
      BY <1>5 DEF PopRelease, First, Succ
    <3> QED BY <3>1, WindowSame DEF PInv
  <2> QED BY <1>1, <1>2, <1>5, <2>1, <2>2, <2>3, <2>4, <2>5 DEF PInv
<1> QED BY <1>3, <1>4, <1>5 DEF Parse

\* The two threads keep the invariant.
THEOREM PipelineInvariance == PSpec => []PInv
<1>1. PInv /\ [PNext]_<<vars, pipeline>> => PInv'
  <2> SUFFICES ASSUME PInv, [PNext]_<<vars, pipeline>> PROVE PInv'
    OBVIOUS
  <2>1. IInv'
    BY StepOfQueue, StepIInv DEF PInv
  <2> QED BY <2>1, GenerateStep, LoopStep, ParseStep DEF PNext
<1> QED BY <1>1, PInitInv, PTL DEF PSpec

(***************************************************************************)
(* The parser thread sees the generator's messages in order, each once,    *)
(* and leaves its loop only after the last, for every ring size and every  *)
(* number of messages.                                                     *)
(***************************************************************************)
THEOREM MessagesArrive == PSpec => []EveryMessageOnce
<1>1. PInv => EveryMessageOnce
  <2>1. ASSUME PInv PROVE parsed = [k \in 1..Len(parsed) |-> k]
    BY <2>1 DEF PInv, Run
  <2> QED BY <2>1 DEF PInv, EveryMessageOnce
<1> QED BY <1>1, PipelineInvariance, PTL

(***************************************************************************)
(* The threads of the pipeline use the ring as one producer and one        *)
(* consumer, so what is proved of SPSCQueue holds in the pipeline.         *)
(***************************************************************************)
THEOREM PipelineUsesQueue == PSpec => Spec
<1>1. PInit => Init
  BY DEF PInit
<1> QED BY <1>1, PipelineInvariance, StepOfQueue, PTL DEF PSpec, Spec

\* Between the two threads of run_pipeline_threaded the ring is a bounded queue,
\* and no slot is written while it is read.
THEOREM PipelineImplementsFIFO == PSpec => ImplementsFIFO /\ []NoSlotRace
BY PipelineUsesQueue, QueueRefinement, SlotRaceFree, PTL
==============================================================================
