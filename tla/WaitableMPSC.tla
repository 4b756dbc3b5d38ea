---------------------------- MODULE WaitableMPSC -----------------------------
(***************************************************************************)
(* lockfree/mpsc_queue.hpp: many producers, one consumer.  push() is, line *)
(* for line, the push() of mpmc_queue.hpp, so its steps are those of       *)
(* MPMCQueue.  pop() needs no CAS: the only consumer owns tail_.  It frees *)
(* the cell before it advances tail_.                                      *)
(***************************************************************************)
EXTENDS Integers, Sequences

CONSTANTS SIZE, Producer, Value, NoValue,
          MaxHead,    \* bound: no push begins once this many were claimed
          Consumer    \* the one consumer thread, no producer

VARIABLES seq, data, head, tail, pc, pos, val

vars == <<seq, data, head, tail, pc, pos, val>>

Q == INSTANCE MPMCQueue WITH Consumer <- {Consumer}

Init == Q!Init

Push(p) == Q!Push(p)

------------------------------------------------------------------------------
\* Mutant of Published: a claimed position counts as published.
Claimed(n) == n < head

\* diff == 0: the cell of position n holds a published item.
Published(n) == seq[Q!Cell(n)] = n + 1

\* empty()
Empty == ~Published(tail)

\* diff != 0: pop returns false.
PopEmpty == /\ pc[Consumer] = "idle"
            /\ Empty
            /\ UNCHANGED vars

\* pos = tail_, and the cell's sequence number says "published".
PopReady == /\ pc[Consumer] = "idle"
            /\ ~Empty
            /\ pos' = [pos EXCEPT ![Consumer] = tail]
            /\ Q!Goto(Consumer, "read")
            /\ UNCHANGED <<seq, data, head, tail, val>>

\* out = c.data
PopRead == /\ pc[Consumer] = "read"
           /\ val' = [val EXCEPT ![Consumer] = data[Q!Cell(pos[Consumer])]]
           /\ Q!Goto(Consumer, "release")
           /\ UNCHANGED <<seq, data, head, tail, pos>>

\* c.seq.store(pos + SIZE, release): producers may claim the cell again.
PopRelease == /\ pc[Consumer] = "release"
              /\ seq' = [seq EXCEPT ![Q!Cell(pos[Consumer])] = pos[Consumer] + SIZE]
              /\ Q!Goto(Consumer, "advance")
              /\ UNCHANGED <<data, head, tail, pos, val>>

\* tail_.store(pos + 1, relaxed)
PopAdvance == /\ pc[Consumer] = "advance"
              /\ tail' = pos[Consumer] + 1
              /\ Q!Goto(Consumer, "idle")
              /\ UNCHANGED <<seq, data, head, pos, val>>

Pop == PopEmpty \/ PopReady \/ PopRead \/ PopRelease \/ PopAdvance

Next == (\E p \in Producer : Push(p)) \/ Pop

Spec == Init /\ [][Next]_vars

------------------------------------------------------------------------------
TypeOK == /\ seq \in [0..(SIZE - 1) -> Nat]
          /\ data \in [0..(SIZE - 1) -> Value \cup {NoValue}]
          /\ head \in Nat
          /\ tail \in Nat
          /\ pc \in [Producer \cup {Consumer} ->
                       {"idle", "seq", "cas", "write", "publish", "read", "release", "advance"}]
          /\ pos \in [Producer \cup {Consumer} -> Nat]
          /\ val \in [Producer \cup {Consumer} -> Value \cup {NoValue}]

(***************************************************************************)
(* Freedom from data races: while the consumer copies a cell's payload no  *)
(* producer is about to write it, and no two producers write one cell.     *)
(***************************************************************************)
NoCellRace == Q!NoCellRace

(***************************************************************************)
(* The queue implements a FIFO of capacity() = SIZE items.  An item is     *)
(* enqueued by the CAS that claims its position and dequeued when the      *)
(* consumer copies it: from then on it is not counted, although tail_      *)
(* still names its cell and the cell may already hold the next lap's item. *)
(***************************************************************************)
Taken == IF pc[Consumer] \in {"release", "advance"} THEN tail + 1 ELSE tail
Contents == [i \in 1..(head - Taken) |-> Q!ItemAt(Taken + i - 1)]
FIFO == INSTANCE BoundedFIFO
          WITH Consumer <- {Consumer}, Cap <- SIZE,
               queue <- Contents, out <- [c \in {Consumer} |-> val[c]]
ImplementsFIFO == FIFO!Spec

------------------------------------------------------------------------------
(***************************************************************************)
(* lockfree/waitable_mpsc.hpp: an MPSCQueue whose consumer may sleep.  A   *)
(* producer that has pushed looks at has_waiter_ and notifies the          *)
(* condition variable when it is set; the consumer sets has_waiter_, looks *)
(* at the queue once more and sleeps.                                      *)
(*                                                                         *)
(* The store of has_waiter_ and the load of the cell that follows it are   *)
(* not ordered by release/acquire: on a machine with a store buffer the    *)
(* store stays invisible to the producers until, at the latest, the mutex  *)
(* is released.  This is what x86 hardware does; other reorderings the C++ *)
(* model allows have the same effect.                                      *)
(***************************************************************************)
VARIABLES machine,    \* whether a store may be delayed past a later load
          flag,       \* has_waiter_ as the producers see it
          buffered,   \* the store of true is still in the consumer's buffer
          mtx,        \* the holder of mtx_, or "free"
          wpc,        \* where each thread is in push() / pop_wait()
          woke        \* woke

wvars == <<machine, flag, buffered, mtx, wpc, woke>>

WInit == /\ Init
         /\ machine \in {"buffered", "strict"}
         /\ flag = FALSE
         /\ buffered = FALSE
         /\ mtx = "free"
         /\ wpc = [t \in Producer \cup {Consumer} |-> "queue"]
         /\ woke = FALSE

WGoto(t, l) == wpc' = [wpc EXCEPT ![t] = l]

------------------------------------------------------------------------------
(***************************************************************************)
(* push                                                                    *)
(***************************************************************************)
\* A step of q_.push; the one that publishes is followed by the check.
PushStep(p) == /\ wpc[p] = "queue"
               /\ Push(p)
               /\ IF pc[p] = "publish" THEN WGoto(p, "check") ELSE UNCHANGED wpc
               /\ UNCHANGED <<machine, flag, buffered, mtx, woke>>

\* has_waiter_.load(acquire)
CheckWaiter(p) == /\ wpc[p] = "check"
                  /\ WGoto(p, IF flag THEN "lock" ELSE "queue")
                  /\ UNCHANGED <<vars, machine, flag, buffered, mtx, woke>>

\* lock_guard lk(mtx_)
PushLock(p) == /\ wpc[p] = "lock"
               /\ mtx = "free"
               /\ mtx' = p
               /\ WGoto(p, "notify")
               /\ UNCHANGED <<vars, machine, flag, buffered, woke>>

\* cv_.notify_one() and the release of the mutex
Notify(p) == /\ wpc[p] = "notify"
             /\ mtx' = "free"
             /\ wpc' = [wpc EXCEPT ![p] = "queue",
                                   ![Consumer] = IF @ = "asleep" THEN "wake" ELSE @]
             /\ UNCHANGED <<vars, machine, flag, buffered, woke>>

(***************************************************************************)
(* pop_wait                                                                *)
(***************************************************************************)
\* A step of q_.pop, the fast path or the pop after waking.  When it finds
\* nothing the fast path goes on to wait; the last pop returns false.
PopStep == /\ wpc[Consumer] \in {"queue", "final"}
           /\ Pop
           /\ IF pc[Consumer] = "idle" /\ Empty
              THEN WGoto(Consumer, IF wpc[Consumer] = "queue" THEN "lock" ELSE "queue")
              ELSE IF pc[Consumer] = "advance" THEN WGoto(Consumer, "queue")
                                               ELSE UNCHANGED wpc
           /\ UNCHANGED <<machine, flag, buffered, mtx, woke>>

\* unique_lock lk(mtx_)
WaitLock == /\ wpc[Consumer] = "lock"
            /\ mtx = "free"
            /\ mtx' = Consumer
            /\ WGoto(Consumer, "set")
            /\ UNCHANGED <<vars, machine, flag, buffered, woke>>

\* Mutant of SetWaiter: has_waiter_ is not set.
SetNothing == /\ wpc[Consumer] = "set"
              /\ WGoto(Consumer, "test")
              /\ UNCHANGED <<vars, machine, flag, buffered, mtx, woke>>

\* has_waiter_.store(true, release)
SetWaiter == /\ wpc[Consumer] = "set"
             /\ flag' = (machine = "strict")
             /\ buffered' = (machine = "buffered")
             /\ WGoto(Consumer, "test")
             /\ UNCHANGED <<vars, machine, mtx, woke>>

\* The buffered store becomes visible.
Drain == /\ buffered
         /\ flag' = TRUE
         /\ buffered' = FALSE
         /\ UNCHANGED <<vars, machine, mtx, wpc, woke>>

\* The predicate holds: wait_for returns true.
TestReady == /\ wpc[Consumer] \in {"test", "lasttest"}
             /\ ~Empty
             /\ woke' = TRUE
             /\ WGoto(Consumer, "clear")
             /\ UNCHANGED <<vars, machine, flag, buffered, mtx>>

\* It does not hold: the consumer is going to sleep.
TestEmpty == /\ wpc[Consumer] = "test"
             /\ Empty
             /\ WGoto(Consumer, "sleep")
             /\ UNCHANGED <<vars, machine, flag, buffered, mtx, woke>>

\* The wait releases the mutex and blocks, in one step for the notifiers.
Sleep == /\ wpc[Consumer] = "sleep"
         /\ mtx' = "free"
         /\ flag' = (flag \/ buffered)
         /\ buffered' = FALSE
         /\ WGoto(Consumer, "asleep")
         /\ UNCHANGED <<vars, machine, woke>>

\* It does not and the time is over: wait_for returns false.
TestTimeout == /\ wpc[Consumer] = "lasttest"
               /\ Empty
               /\ woke' = FALSE
               /\ WGoto(Consumer, "clear")
               /\ UNCHANGED <<vars, machine, flag, buffered, mtx>>

\* A spurious wake-up.
Spurious == /\ wpc[Consumer] = "asleep"
            /\ WGoto(Consumer, "wake")
            /\ UNCHANGED <<vars, machine, flag, buffered, mtx, woke>>

\* Mutant of Timeout: wait() instead of wait_for().
NoTimeout == FALSE /\ UNCHANGED <<vars, wvars>>

\* The timeout passes.
Timeout == /\ wpc[Consumer] = "asleep"
           /\ WGoto(Consumer, "late")
           /\ UNCHANGED <<vars, machine, flag, buffered, mtx, woke>>

\* The wait reacquires the mutex before it tests the predicate.
Relock == /\ wpc[Consumer] \in {"wake", "late"}
          /\ mtx = "free"
          /\ mtx' = Consumer
          /\ WGoto(Consumer, IF wpc[Consumer] = "wake" THEN "test" ELSE "lasttest")
          /\ UNCHANGED <<vars, machine, flag, buffered, woke>>

\* has_waiter_.store(false, release)
ClearWaiter == /\ wpc[Consumer] = "clear"
               /\ flag' = FALSE
               /\ buffered' = FALSE
               /\ WGoto(Consumer, "unlock")
               /\ UNCHANGED <<vars, machine, mtx, woke>>

\* lk.unlock(); woke && q_.pop(out)
WaitUnlock == /\ wpc[Consumer] = "unlock"
              /\ mtx' = "free"
              /\ WGoto(Consumer, IF woke THEN "final" ELSE "queue")
              /\ UNCHANGED <<vars, machine, flag, buffered, woke>>

Notifier(p) == CheckWaiter(p) \/ PushLock(p) \/ Notify(p)

PopWait == \/ PopStep \/ WaitLock \/ SetWaiter \/ TestReady \/ TestEmpty \/ Sleep
           \/ TestTimeout \/ Relock \/ ClearWaiter \/ WaitUnlock

WNext == \/ \E p \in Producer : PushStep(p) \/ Notifier(p)
         \/ PopWait \/ Drain \/ Spurious \/ Timeout

WSpec == WInit /\ [][WNext]_<<vars, wvars>>

(***************************************************************************)
(* Fairness: a producer that has claimed a position finishes its push (the *)
(* code has no blocking step there), threads are scheduled, the mutex is   *)
(* handed on, timeouts pass.  Nothing obliges anybody to push.             *)
(***************************************************************************)
Claimant(p) == PushStep(p) /\ pc[p] \in {"write", "publish"}

FairSpec == /\ WSpec
            /\ \A p \in Producer : /\ WF_<<vars, wvars>>(Claimant(p))
                                   /\ SF_<<vars, wvars>>(Notifier(p))
            /\ SF_<<vars, wvars>>(PopWait)
            /\ WF_<<vars, wvars>>(Timeout)

------------------------------------------------------------------------------
(***************************************************************************)
(* A wait that reports a wake-up leads to an item: between the predicate   *)
(* and the pop the mutex is released and the producers run on, but only    *)
(* the consumer takes items away.                                          *)
(***************************************************************************)
WokenPopSucceeds == wpc[Consumer] = "final" /\ pc[Consumer] = "idle" => ~Empty

(***************************************************************************)
(* No lost wake-up: while the consumer sleeps over an item that it could   *)
(* pop, some producer is on its way to notify it ("wakes in microseconds   *)
(* when an event arrives", waitable_mpsc.hpp lines 13-14).                 *)
(***************************************************************************)
NoLostWakeup ==
    wpc[Consumer] = "asleep" /\ ~Empty => \E p \in Producer : wpc[p] # "queue"

\* It holds where the consumer's store is visible before its next load.
NoLostWakeupInOrder == machine = "strict" => NoLostWakeup

(***************************************************************************)
(* What waiting on the queue promises.  With stores that are visible at    *)
(* once, a consumer asleep over an item has a producer on its way to       *)
(* notify it; on either machine a wait that reports a wake-up leads to an  *)
(* item, and no cell is touched by two threads at once (push, pop_wait).   *)
(***************************************************************************)
WaitingSafe == NoLostWakeupInOrder /\ WokenPopSucceeds /\ NoCellRace

(***************************************************************************)
(* Whatever wake-up gets lost, a claimed position is popped in the end: a  *)
(* consumer that keeps calling pop_wait drains the queue.                  *)
(***************************************************************************)
Drained == (tail < head) ~> (tail = head)
==============================================================================
