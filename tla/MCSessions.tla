------------------------------ MODULE MCSessions ------------------------------
(* An OUCH client and exchange, or a FIX client and exchange: two machines, one run. *)
EXTENDS OUCHLink

CONSTANTS Parts, Scenarios, OrderIds, Plans, HeartBt, PollEvery, MaxDelay, MaxTime
VARIABLES part, scenario, sess, staged, wire, due, saved, linked, desk, exch, hist, budget, clock

FIX == INSTANCE FIXLink
fix == <<scenario, sess, staged, wire, due, saved, linked, desk, exch, hist, budget, clock>>

MCTokens == <<"T1", "T2">>
MCEntries == {<<"B", 2, 3>>, <<"S", 2, 4>>}
MCOrderIds == <<"o1", "o2">>
MCPlans == {<<2, 1, 1, 1>>, <<2, 2, 0, 1>>, <<1, 1, 0, 2>>}

Init == part \in Parts /\ OUCHInit /\ FIX!FIXInit /\ (part = "ouch" => scenario = "kinds" /\ budget.qty = 2)
Next == \/ part = "ouch" /\ OUCHNext /\ UNCHANGED <<part, fix>>
        \/ part = "fix" /\ FIX!FIXNext /\ UNCHANGED <<part, ouchVars>>
Spec == Init /\ [][Next]_<<part, ouchVars, fix>> /\ OUCHFairness

------------------------------------------------------------------------------



\* However many execution reports were lost, an order whose newest report was read is
\* held as the exchange has it.
ReportsHeal == part = "fix" => FIX!ReportsHeal
==============================================================================
