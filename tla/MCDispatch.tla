----------------------------- MODULE MCDispatch -----------------------------
(* Dispatch for TLC: two workers, three or four rows.                      *)
EXTENDS Dispatch, TLC

CONSTANTS w1, w2

TwoWorkers == {w1, w2}
Rows3 == 1..3
Rows4 == 1..4
WorkerSymmetry == Permutations(TwoWorkers)
None == {}
First == {1}
Second == {2}

----------------------------------------------------------------------------
(* Which rows Malformed stands for, at the boundaries of every length.     *)

Limits == INSTANCE Validation

Lengths == {0, 1, 5, 9, 10, 20, 21, 160, 161}
Texts == {t \in [bytes: Lengths, chars: Lengths]:
             t.chars <= t.bytes /\ t.bytes <= 4 * t.chars}
Boundaries == [phone: Texts, content: Texts]
Created == {m \in Boundaries: Limits!CreateAccepts(m) /\ Limits!Storable(m)}

ASSUME MalformedRowsArise == \E m \in Created: ~Limits!Selected(m)
ASSUME MalformedRowsAreShort ==
    \A m \in Created: Limits!Selected(m) <=> m.phone.chars >= 10
ASSUME ValidRowsAreSelected ==
    \A m \in Boundaries: Limits!IsValid(m) /\ Limits!Ascii(m.phone) => Limits!Selected(m)
=============================================================================
