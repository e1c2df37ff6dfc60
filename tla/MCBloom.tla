------------------------------ MODULE MCBloom ------------------------------
(* Six block numbers on three times three counters of three values: counters *)
(* fill up, refuse, and reach zero while members are left.                    *)
EXTENDS MixBloom

MCKeys == 0 .. 5

\* Keys 0 to 3 share counter 0 of function 0; h1 + i * h2 wraps for some.
MCH1 == [k \in Keys |-> IF k < 4 THEN 3 * k ELSE k]

MCH2 == [k \in Keys |-> k + 1]
=============================================================================
