--------------------------- MODULE MCSentMessages ---------------------------
(* SentMessages for TLC: two workers, two rows, one clearing.              *)
EXTENDS SentMessages, TLC

CONSTANTS w1, w2

TwoWorkers == {w1, w2}
Rows2 == 1..2
WorkerSymmetry == Permutations(TwoWorkers)
None == {}
=============================================================================
