----------------------------- MODULE MCOrderBook -----------------------------
(***************************************************************************)
(* Scenarios for OrderBook: the features in use, and how many calls with   *)
(* which clients, prices and quantities.  Clients 1 and 2 are of one firm. *)
(***************************************************************************)
EXTENDS BookSession

Firms == (0 :> 0) @@ (1 :> 1) @@ (2 :> 1) @@ (3 :> 0)

Case(on, max, clients, prices, qty) ==
    [on |-> {"submit"} \cup on, max |-> max, clients |-> clients, prices |-> prices, qty |-> qty]

Cases ==
    {Case({"cancel", "modify"}, 4, {0}, 1..2, {1, 2}),
     Case({"IOC", "FOK", "POST_ONLY"}, 3, {0}, 1..2, {1, 2}),
     Case({"ICEBERG", "min"}, 3, {0}, 1..2, {1, 3}),
     Case({"ICEBERG", "modify"}, 3, {0}, 1..2, {1, 3}),
     Case({"newest", "FOK"}, 3, {1}, 1..2, {1, 2}),
     Case({"oldest"}, 3, {2, 3}, 1..2, {1, 2}),
     Case({"both"}, 3, {1, 2}, 1..2, {1}),
     Case({"stop", "check"}, 4, {0}, 1..2, {1}),
     Case({"trail", "check", "mid"}, 4, {0}, 1..3, {1}),
     Case({"stop", "restart", "check"}, 4, {0}, 1..2, {1}),
     Case({"bracket", "check", "cancel"}, 3, {0}, 1..2, {1}),
     Case({"bracket", "modify"}, 3, {0}, 1..2, {1, 2}),
     Case({"oco", "cancel", "expire", "GTD"}, 4, {0}, 1..2, {1}),
     Case({"oco", "modify", "mass"}, 4, {0}, 1..2, {1}),
     Case({"mmp", "throttle"}, 4, {1, 2}, {1}, {1}),
     Case({"peg", "cancel"}, 4, {0}, 1..2, {1}),
     Case({"HIDDEN", "halt", "restart"}, 3, {0}, 1..2, {1}),
     Case({"cancel"}, 4, {1, 3}, 1..2, {1}),
     Case({"luld", "halt"}, 3, {0}, 1..3, {1}),
     Case({"luld", "pause", "ICEBERG"}, 4, {0}, 1..3, {2}),
     Case({"short", "reduce"}, 4, {1, 3}, 1..2, {1}),
     Case({"quote"}, 3, {1}, 1..2, {1}),
     Case({"cross", "GTX"}, 5, {0}, 1..2, {1}),
     Case({"cross", "oco"}, 5, {0}, 1..2, {1}),
     Case({"cross", "bracket"}, 3, {0}, 1..2, {1}),
     Case({"try", "pause"}, 4, {0}, 1..2, {1, 2}),
     Case({"close", "cancel"}, 3, {0}, 1..2, {1}),
     Case({"close", "cancel"}, 4, {0}, {2}, {1})}
Opening == {Case({"cross"}, 5, {0}, 1..2, {1, 2})}

------------------------------------------------------------------------------
(***************************************************************************)
(* A resting order has left what was asked for less what was executed,     *)
(* with brackets to match, and an accepted FOK or minimum-quantity order   *)
(* is filled as far as fok_fillable and walk_the_book promised (submit,    *)
(* match_against, modify_order).                                           *)
(***************************************************************************)
OrdersTold == LeavesAsked /\ PromiseKept

(***************************************************************************)
(* What is read of the book is in the book: the cached best prices, the    *)
(* accounts of clients and firms kept by increments, and the views that    *)
(* walk levels and orders.                                                 *)
(***************************************************************************)
BookTells == TopOfBook /\ AccountsAgree /\ BookViewsAgree

(***************************************************************************)
(* Continuous trades are made in price-time priority; a cross takes the    *)
(* most that could trade at one price, gives nobody a price beyond the     *)
(* limit and leaves no two displayed orders that could have traded.        *)
(***************************************************************************)
FairTrades == PriceTime /\ CrossClears
==============================================================================
