------------------------------ MODULE MCThreads ------------------------------
(***************************************************************************)
(* The threads that meet at a ring, and the small books and statistics, on *)
(* one small instance.  A behaviour is one part; the others stay at their  *)
(* initial states.  The constants of the pipeline and of the loggers are   *)
(* given in the configuration, those of the other parts where they are     *)
(* instantiated.                                                           *)
(***************************************************************************)
EXTENDS ThreadedPipeline, Loggers

CONSTANT Garbled

VARIABLES part,
          packets, nicHead, nicTail, clock, nic, nicSent, seen, poll, got, latencies,
          flat, map, calls,
          books, symbols, activeCount, moves, saved, loaded,
          trades, tape, polls, meters, drained

Nic == INSTANCE KernelBypass WITH
    RingSize <- 2, NumPackets <- 4, MaxClock <- 3, head <- nicHead, tail <- nicTail, i <- nicSent

\* n1x is cut to the eight characters of n1
Small == INSTANCE SmallBooks WITH
    LevelCount <- 4, WordBits <- 2, Ids <- {"i1", "i2"}, Quantities <- {0, 1, 2}, MaxCalls <- 3,
    Slots <- 2, Names <- {"n1", "n1x", "n2", "n3"},
    Packed <- [n \in {"n1", "n1x", "n2", "n3"} |-> IF n = "n1x" THEN "n1" ELSE n],
    Ticks <- {1, 2, 3}, Sizes <- {1, 2}, MaxMoves <- 3

Tops == {[bid |-> 2, ask |-> 3, bidQty |-> 1, askQty |-> 2], [bid |-> 2, ask |-> 3, bidQty |-> 2, askQty |-> 1],
         [bid |-> 1, ask |-> 3, bidQty |-> 1, askQty |-> 4], [bid |-> 2, ask |-> 9, bidQty |-> 3, askQty |-> 0],
         [bid |-> -1, ask |-> 3, bidQty |-> 0, askQty |-> 2]}
Stats == INSTANCE BookStats WITH
    TapeCap <- 2, TapePrice <- {1, 2, 3}, TakerFee <- 3, MakerFee <- 2, LarbWindow <- 1,
    RingCap <- 2, SpreadBins <- 2, NoBidTick <- -1, NoAskTick <- 9, Tight <- 1, Wide <- 3, BandTicks <- 1,
    Burst <- 1, StatPrice <- {1, 3}, StatQty <- {100, 101}, StatMid <- {0, 2}, Gaps <- {0, 2},
    MaxTrades <- 3, MaxPolls <- 3, Ids <- {{}, {1}, {1, 2}}

pipe == <<buffer, head, tail, ppc, item, cpc, out, i, done, loop, parsed>>
audit == logVars
lockfree == lfVars
mapped == mmapVars
bypass == <<packets, nicHead, nicTail, clock, nic, nicSent, seen, poll, got, latencies>>
levels == <<flat, map, calls>>
cluster == <<books, symbols, activeCount, moves, saved, loaded>>
stats == <<trades, tape, polls, meters, drained>>
logs == <<audit, lockfree, mapped>>
smallBooks == <<levels, cluster, stats>>
mcVars == <<part, pipe, logs, bypass, smallBooks>>

Parts == {"pipeline", "audit", "lockfree", "mmap", "bypass", "levels", "cluster", "stats"}

MCInit ==
    /\ part \in Parts
    /\ PInit /\ LogInit /\ LfInit /\ MmapInit /\ Nic!BypassInit
    /\ (part # "audit" => ringMode)
    /\ Small!LevelInit /\ Small!ClusterInit /\ Stats!StatInit

Pipeline == part = "pipeline" /\ PNext /\ UNCHANGED <<part, logs, bypass, smallBooks>>
Audit ==
    part = "audit" /\ LogNext /\ UNCHANGED <<part, pipe, lockfree, mapped, bypass, smallBooks>>
Lockfree ==
    part = "lockfree" /\ LfNext /\ UNCHANGED <<part, pipe, audit, mapped, bypass, smallBooks>>
Mapped ==
    part = "mmap" /\ MmapNext /\ UNCHANGED <<part, pipe, audit, lockfree, bypass, smallBooks>>
Bypass == part = "bypass" /\ Nic!BypassNext /\ UNCHANGED <<part, pipe, logs, smallBooks>>
Levelled ==
    /\ part = "levels" /\ Small!LevelNext
    /\ UNCHANGED <<part, pipe, logs, bypass, cluster, stats>>
Clustered ==
    /\ part = "cluster" /\ Small!ClusterNext
    /\ UNCHANGED <<part, pipe, logs, bypass, levels, stats>>
Counted ==
    /\ part = "stats" /\ Stats!StatNext
    /\ UNCHANGED <<part, pipe, logs, bypass, levels, cluster>>

\* Callers of the passive parts may stop; the two pairs of spinning threads may not.
CallersStop == part \notin {"pipeline", "bypass"} /\ UNCHANGED mcVars

MCNext == Pipeline \/ Audit \/ Lockfree \/ Mapped \/ Bypass \/ Levelled \/ Clustered \/ Counted \/ CallersStop

\* Threads that spin or wait with a timeout keep taking steps: as in the specifications of the parts
MCSpec ==
    /\ MCInit /\ [][MCNext]_mcVars
    /\ WF_mcVars(part = "pipeline" /\ (Generate \/ Finish) /\ UNCHANGED <<part, logs, bypass, smallBooks>>)
    /\ WF_mcVars(part = "pipeline" /\ (TestDone \/ TestEmpty \/ ParseNothing \/ Parse)
                 /\ UNCHANGED <<part, logs, bypass, smallBooks>>)
    /\ WF_mcVars(part = "bypass" /\ Nic!Producer /\ UNCHANGED <<part, pipe, logs, smallBooks>>)
    /\ WF_mcVars(part = "bypass" /\ Nic!Poller /\ UNCHANGED <<part, pipe, logs, smallBooks>>)
    /\ WF_mcVars(part = "audit" /\ (Flusher \/ Join)
                 /\ UNCHANGED <<part, pipe, lockfree, mapped, bypass, smallBooks>>)

------------------------------------------------------------------------------
(***************************************************************************)
(* What readers see.  The poller gets every packet once (PacketRing); the  *)
(* reports of the loggers tell what was logged; the flat book and the map  *)
(* book agree call by call; a cluster of books loads back the snapshot it  *)
(* wrote and its totals are those of its books; the statistics             *)
(* FullOrderBook keeps as it goes are what its history of trades and polls *)
(* amounts to.                                                             *)
(***************************************************************************)
ReadersSee ==
    /\ part = "bypass" => Nic!PacketsOnce
    /\ part = "audit" => AuditReads
    /\ part = "lockfree" => LfCountersTell
    /\ part = "levels" => Small!FlatIsMap
    /\ part = "cluster" => Small!ClusterSound
    /\ part = "stats" => Stats!TapeTells /\ Stats!SamplerTells

(***************************************************************************)
(* Nobody waits for ever: run_pipeline_threaded and the benchmark return   *)
(* although each of their threads spins on the other, and so does          *)
(* stop_async_flush, whatever the flush thread had to drain.               *)
(***************************************************************************)
EveryoneReturns ==
    /\ part = "pipeline" => Terminates
    /\ part = "bypass" => Nic!BenchmarkReturns
    /\ StopReturns
==============================================================================
