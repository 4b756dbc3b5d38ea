--------------------------- MODULE ThreadedPipeline ---------------------------
(***************************************************************************)
(* run_pipeline_threaded of simulator/market_sim.hpp: a generator thread   *)
(* hands NumMessages messages to a parser thread through an SPSCQueue, and *)
(* ends by setting producer_done; the parser runs while                    *)
(* !producer_done || !queue->empty().  The two loads of that condition are *)
(* steps of their own.  Message i is the number i.                         *)
(***************************************************************************)
EXTENDS SPSCQueue

CONSTANT NumMessages

ASSUME MessageAssumption == NumMessages \in Nat /\ 1..NumMessages \subseteq Value

VARIABLES i,          \* the generator's loop variable: messages pushed
          done,       \* producer_done
          loop,       \* where the parser is in its loop
          parsed      \* messages_parsed

pipeline == <<i, done, loop, parsed>>

PInit == /\ Init
         /\ i = 0
         /\ done = FALSE
         /\ loop = "test"
         /\ parsed = <<>>

------------------------------------------------------------------------------
\* while (!queue->push(msg)): a failed push is repeated with the same message.
Generate == /\ i < NumMessages
            /\ \/ PushFull(i + 1) \/ PushLoad(i + 1) \/ PushWrite
               \/ PushPublish
            /\ i' = IF ppc = "publish" THEN i + 1 ELSE i
            /\ UNCHANGED <<done, loop, parsed>>

\* Mutant of Finish: the generator returns without setting the flag.
FinishUnset == /\ i = NumMessages
               /\ ~done
               /\ UNCHANGED <<vars, pipeline>>

\* producer_done.store(true, release)
Finish == /\ i = NumMessages
          /\ ~done
          /\ done' = TRUE
          /\ UNCHANGED <<vars, i, loop, parsed>>

\* Mutant of TestDone: the queue is not looked at once the flag is set.
TestDoneOnly == /\ loop = "test"
                /\ loop' = IF done THEN "exit" ELSE "pop"
                /\ UNCHANGED <<vars, i, done, parsed>>

\* !producer_done.load(acquire)
TestDone == /\ loop = "test"
            /\ loop' = IF done THEN "testEmpty" ELSE "pop"
            /\ UNCHANGED <<vars, i, done, parsed>>

\* !queue->empty()
TestEmpty == /\ loop = "testEmpty"
             /\ loop' = IF Empty THEN "exit" ELSE "pop"
             /\ UNCHANGED <<vars, i, done, parsed>>

\* pop() returns false: back to the condition.
ParseNothing == /\ loop = "pop"
                /\ PopEmpty
                /\ loop' = "test"
                /\ UNCHANGED <<i, done, parsed>>

\* The steps of a pop() that returns true; its last one parses the message.
Parse == /\ loop = "pop"
         /\ \/ (PopLoad \/ PopRead) /\ UNCHANGED <<loop, parsed>>
            \/ /\ PopRelease
               /\ parsed' = Append(parsed, out)
               /\ loop' = "test"
         /\ UNCHANGED <<i, done>>

\* Both threads have returned: join.
Joined == /\ done
          /\ loop = "exit"
          /\ UNCHANGED <<vars, pipeline>>

PNext == \/ Generate \/ Finish
         \/ TestDone \/ TestEmpty \/ ParseNothing \/ Parse
         \/ Joined

\* Both threads spin, never block: each keeps taking steps.
PSpec == /\ PInit
         /\ [][PNext]_<<vars, pipeline>>
         /\ WF_<<vars, pipeline>>(Generate \/ Finish)
         /\ WF_<<vars, pipeline>>(TestDone \/ TestEmpty \/ ParseNothing \/ Parse)

------------------------------------------------------------------------------
(***************************************************************************)
(* The parser sees the generator's messages in order, each once, and does  *)
(* not leave its loop before it has seen the last one: the flag is tested  *)
(* before the queue, and the queue is filled before the flag.              *)
(***************************************************************************)
EveryMessageOnce ==
    /\ parsed = [k \in 1..Len(parsed) |-> k]
    /\ loop = "exit" => Len(parsed) = NumMessages

(***************************************************************************)
(* run_pipeline_threaded returns: neither thread spins for ever on a queue *)
(* that is full or empty.                                                  *)
(***************************************************************************)
Terminates == <>(done /\ loop = "exit")
==============================================================================
