-------------------------------- MODULE MCFeed --------------------------------
(***************************************************************************)
(* The market-data side on a small instance.  A behaviour is one of: a     *)
(* session with its losses and recoveries (FeedHandler), a log that the    *)
(* meters read (FeedHandler), a book rebuilt from messages (ITCHFeed), the *)
(* simulated exchange and its datagrams (MarketFeed).                      *)
(***************************************************************************)
EXTENDS FeedHandler, ITCHFeed

VARIABLES part, table, orderRef, activeCount, published, packed, link, tracker, handed, first, faults

Market == INSTANCE MarketFeed WITH
    TableSize <- 2, ShareSizes <- {1, 2, 3}, ExecSizes <- {1, 2}, EndOfSession <- 9, MaxSent <- 5,
    MaxBatch <- 2, MaxFaults <- 2, MaxMessages <- 4, net <- link

market == <<table, orderRef, activeCount, published>>
mold == <<packed, link, tracker, handed, first, faults>>
mcVars == <<part, feedVars, logVars, itchVars, market, mold>>

Init == /\ part \in {"session", "log", "book", "market", "mold"}
        /\ FeedInit /\ LogInit /\ ITCHInit /\ Market!MarketInit /\ Market!MoldInit

Session == part = "session" /\ FeedNext /\ UNCHANGED <<part, logVars, itchVars, market, mold>>
Logging == part = "log" /\ Log /\ UNCHANGED <<part, feedVars, itchVars, market, mold>>
Rebuilding == part = "book" /\ ITCHNext /\ UNCHANGED <<part, feedVars, logVars, market, mold>>
Generating == part = "market" /\ Market!MarketNext /\ UNCHANGED <<part, feedVars, logVars, itchVars, mold>>
Framing == part = "mold" /\ Market!MoldNext /\ UNCHANGED <<part, feedVars, logVars, itchVars, market>>
Next == Session \/ Logging \/ Rebuilding \/ Generating \/ Framing

Spec == Init /\ [][Next]_mcVars /\ FeedFairness

------------------------------------------------------------------------------
(***************************************************************************)
(* Every number of a session is known to have arrived or to be missing:    *)
(* the trackers of gap_recovery agree about the holes, what is passed on   *)
(* is in order and once, and the tracker under the datagrams has each      *)
(* number it passed either received or lost (SequenceTracker, DedupWindow, *)
(* ReorderBuffer, mold_parse_packet).                                      *)
(***************************************************************************)
SequenceKept == HolesKnown /\ InOrderOnce /\ Market!TrackerAccounts

\* The meters say of the log what their names promise, also after lost, repeated and
\* late packets and a clock that steps back; snapshot requests and tokens are paced.
MetersTell == MetersExact /\ PacingHeld

(***************************************************************************)
(* The book rebuilt from ITCH messages is the exchange's: levels, tape and *)
(* the depth walked over it; and the messages the simulator makes can be   *)
(* replayed into one (itch_parser, market_sim).                            *)
(***************************************************************************)
BookFollows == BookMirrors /\ TapeExact /\ DepthAgrees /\ Market!FeedReplays
==============================================================================
