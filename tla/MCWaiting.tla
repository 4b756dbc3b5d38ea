------------------------------ MODULE MCWaiting ------------------------------
(***************************************************************************)
(* Threads that wait for each other: three consumers of a two-slot         *)
(* sequencer, or two producers and the sleeping consumer of a two-cell     *)
(* WaitableMPSCQueue.  A behaviour is one of the two.                      *)
(***************************************************************************)
EXTENDS Sequencer, WaitableMPSC

VARIABLE part

sequencer == seqVars
waitable == <<vars, wvars>>

MCInit == part \in {"sequencer", "waitable"} /\ SeqInit /\ WInit /\ (part = "sequencer" => machine = "strict")

Sequencing(A) == part = "sequencer" /\ A /\ UNCHANGED <<part, waitable>>
Waiting(A) == part = "waitable" /\ A /\ UNCHANGED <<part, sequencer>>

\* A producer pushes its own name.
OwnNames == \A p \in Producer : val[p] \in {p, NoValue}
MCNext == Sequencing(SeqNext) \/ (Waiting(WNext) /\ OwnNames')

\* The fairness of Sequencer and of WaitableMPSC
MCSpec ==
    /\ MCInit /\ [][MCNext]_<<part, sequencer, waitable>>
    /\ WF_sequencer(Sequencing(Claim \/ Write \/ Publish))
    /\ \A c \in Reader : /\ WF_sequencer(Sequencing(Available(c)))
                         /\ WF_sequencer(Sequencing(Read(c)))
                         /\ WF_sequencer(Sequencing(Sample(c)))
                         /\ WF_sequencer(Sequencing(MarkConsumed(c)))
    /\ \A p \in Producer : /\ WF_waitable(Waiting(Claimant(p)))
                           /\ SF_waitable(Waiting(Notifier(p)))
    /\ SF_waitable(Waiting(PopWait))
    /\ WF_waitable(Waiting(Timeout))

------------------------------------------------------------------------------
(***************************************************************************)
(* Nobody waits for ever: every consumer of the sequencer reads every      *)
(* item, and a consumer that keeps calling pop_wait drains the queue       *)
(* whatever wake-up gets lost.                                             *)
(***************************************************************************)
EverythingIsRead == (part = "sequencer" => EveryoneReadsEverything) /\ Drained
==============================================================================
