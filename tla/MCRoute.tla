------------------------------ MODULE MCRoute ------------------------------
(* Requests below, at, across and above a threshold of 3, two clients. *)
EXTENDS MixRoute

Req(op, offset_, len) == [op |-> op, offset |-> offset_, len |-> len]

\* Block 2 lies before the threshold: every request with it goes to the SSD.
MCRequests ==
  {Req("write", 1, 1), Req("write", 0, 2), Req("read", 0, 2),
   Req("write", 2, 1), Req("write", 1, 3),
   Req("write", 3, 1), Req("write", 3, 3), Req("read", 4, 2)}

\* One flag up, and all of them.
MCHeap == {[q \in Queues |-> q = 0], [q \in Queues |-> TRUE]}
===========================================================================
