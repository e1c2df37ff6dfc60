------------------------------ MODULE MCStore ------------------------------
(* Two segments of one block: every second write to a segment migrates it. *)
EXTENDS MixStore, TLC

\* Block numbers 0 and 2 belong to segment 0, 1 and 3 to segment 1.
MCKeys == 0 .. 3

MCHashOf == [k \in Keys |-> (k \div 2) % HashSize]

ClientSymmetry == Permutations(Clients)
===========================================================================
