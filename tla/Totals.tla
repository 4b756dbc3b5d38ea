-------------------------------- MODULE Totals --------------------------------
(***************************************************************************)
(* The sum of a table of integers, the reference against which running     *)
(* totals (pending quantities, exposures) are compared.                    *)
(***************************************************************************)
EXTENDS Integers

\* t[1] + ... + t[n]
Total(t, n) ==
    LET firstOnes[k \in 0..n] == IF k > 0 THEN t[k] + firstOnes[k - 1] ELSE 0
    IN  firstOnes[n]
==============================================================================
