------------------------------- MODULE MCHash -------------------------------
(* A segment of three blocks, three buckets swept by two threads. *)
EXTENDS MixHash

\* Keys 0 and 3 share a bucket, and so do 1 and 4.
MCKeys == 0 .. 4

MCHashOf == [k \in Keys |-> k % HashSize]
===========================================================================
