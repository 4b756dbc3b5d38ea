------------------------------- MODULE MCQueues -------------------------------
(***************************************************************************)
(* MPMCQueue<T, 2> with two producers and two consumers; or the smallest   *)
(* VarlenRingBuffer, with frames that straddle the end of the buffer and   *)
(* two that would fill it to the last byte; or a router of three venues.   *)
(***************************************************************************)
EXTENDS MPMCQueue, TLC

CONSTANT NoMsg

VARIABLES part,
          bytes, wrote, read, wpc, msg, rpc, frame, writes,
          router, inFlight, now, past

Ring == INSTANCE VarlenRing WITH
    SIZE <- 64, MaxLen <- {32, 64}, MaxWrites <- 6,
    Msg <- {[id |-> "a", len |-> 27], [id |-> "b", len |-> 29],
            [id |-> "a", len |-> 59], [id |-> "a", len |-> 60]},
    buffer <- bytes, head <- wrote, tail <- read, out <- frame

\* name, mean latency, p99 (0: not set), fee; bid, ask, bid size, ask size
Catalogue == {<<"V1", 2, 0, 0>>, <<"V2", 1, 4, 1>>, <<"V3", 3, 0, -1>>}
Quotes == {<<2, 3, 1, 2>>, <<3, 4, 2, 1>>, <<0, 0, 0, 0>>}
Router == INSTANCE SmartRouter WITH
    Opening <- <<2, 3, 1, 2>>, Fees <- {1}, MaxQty <- 2, Threshold <- 2, MaxFailures <- 2, MaxCalls <- 5

queue == <<seq, data, head, tail, pc, pos, val>>
ring == <<bytes, wrote, read, wpc, msg, rpc, frame, writes>>
routing == <<router, inFlight, now, past>>
mcVars == <<part, queue, ring, routing>>

Threads == Permutations(Producer) \cup Permutations(Consumer)

MCInit ==
    /\ part \in {"queue", "ring", "router"}
    /\ Init /\ Ring!Init /\ Router!RouterInit
    /\ part # "router" => router = Router!Bare

MCNext ==
    \/ part = "queue" /\ Next /\ UNCHANGED <<part, ring, routing>>
    \/ part = "ring" /\ Ring!Next /\ UNCHANGED <<part, queue, routing>>
    \/ part = "router" /\ Router!RouterNext /\ UNCHANGED <<part, queue, ring>>
    \/ part = "router" /\ UNCHANGED mcVars       \* the router's caller may stop

MCSpec == MCInit /\ [][MCNext]_mcVars

------------------------------------------------------------------------------
\* Frames of different lengths come out of VarlenRingBuffer whole and in order.
FramesInOrder == Ring!ImplementsFIFO

\* route_order picks the venue nobody beats, over quotes that change under it.
RoutesBest == part = "router" => Router!RoutesBest

(***************************************************************************)
(* The counters account for every share asked for and every fee paid, the  *)
(* breaker takes a venue out exactly when its failures say so, and the     *)
(* views of the market (NBBO, sweeps, liquidity) agree with each other.    *)
(***************************************************************************)
RoutingSound == part = "router" => Router!RoutesAccounted /\ Router!BreakerExact /\ Router!ViewsAgree
==============================================================================
