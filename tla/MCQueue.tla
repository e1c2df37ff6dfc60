------------------------------ MODULE MCQueue ------------------------------
(* Two clients and queues of two slots whose counters wrap after two laps. *)
EXTENDS MixQueue
===========================================================================
