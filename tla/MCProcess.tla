----------------------------- MODULE MCProcess -----------------------------
(* Process for TLC: two concurrent requests, or none.                      *)
EXTENDS Process

CONSTANTS c1, c2

TwoClients == {c1, c2}
StartAndStop == {"start", "stop"}
NoCalls == {}
=============================================================================
