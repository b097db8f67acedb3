------------------------ MODULE MCSchedulerControl ------------------------
(* SchedulerControl for TLC: two concurrent requests, a few starts.        *)
EXTENDS SchedulerControl

CONSTANTS c1, c2

TwoClients == {c1, c2}
StartAndStop == {"start", "stop"}
=============================================================================
