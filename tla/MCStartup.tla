----------------------------- MODULE MCStartup -----------------------------
(* Two workers with two blocks each; a crash at any step, then a second start. *)
EXTENDS MixStartup

\* Keys 0, 2 belong to segment 0 and 1, 3 to segment 1.
MCKeys == 0 .. 3

MCHashOf == [k \in Keys |-> (k \div 2) % HashSize]
===========================================================================
