------------------------------ MODULE MCSystem ------------------------------
(* System for TLC: two instances and one row.                              *)
EXTENDS System

CONSTANTS i1, i2

Two == {i1, i2}
Row == {1}
None == {}
AllCalls == {"Acquire", "Release", "Extend"}
=============================================================================
