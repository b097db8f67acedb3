----------------------------- MODULE BatchMutex -----------------------------
(***************************************************************************)
(* What the distributed lock promises to the dispatcher (README.md:158):   *)
(* "Only one instance processes messages at any given time."  An instance  *)
(* enters when nobody is active, and leaves, by finishing or by dying.     *)
(***************************************************************************)
CONSTANT Instances

VARIABLE active      \* the instances inside ProcessMessages

Init == active = {}

Enter(i) == /\ active = {}
            /\ active' = {i}

Leave(i) == /\ i \in active
            /\ active' = active \ {i}

Next == \E i \in Instances: Enter(i) \/ Leave(i)

Spec == Init /\ [][Next]_active
=============================================================================
