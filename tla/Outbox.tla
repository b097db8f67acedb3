------------------------------- MODULE Outbox -------------------------------
(***************************************************************************)
(* What dispatching promises about each message, whatever fails: it is     *)
(* queued once; the provider may accept it any number of times; it is      *)
(* confirmed at most once and only for a delivery that was accepted; and   *)
(* the note kept about it, while there is one, names that very delivery.   *)
(* The deliveries of a message are numbered from 1; 0 means none.          *)
(***************************************************************************)
EXTENDS Naturals

CONSTANT Messages

VARIABLES queued,     \* the messages submitted so far
          accepted,   \* accepted[m]: how many deliveries were accepted
          confirmed,  \* confirmed[m]: the delivery it was confirmed for
          note        \* note[m]: the delivery the note names

outboxVars == <<queued, accepted, confirmed, note>>

Init == /\ queued = {}
        /\ accepted = [m \in Messages |-> 0]
        /\ confirmed = [m \in Messages |-> 0]
        /\ note = [m \in Messages |-> 0]

Submit(m) == /\ m \notin queued
             /\ queued' = queued \cup {m}
             /\ UNCHANGED <<accepted, confirmed, note>>

Deliver(m) == /\ m \in queued
              /\ accepted' = [accepted EXCEPT ![m] = @ + 1]
              /\ UNCHANGED <<queued, confirmed, note>>

Confirm(m) == /\ confirmed[m] = 0
              /\ \E d \in 1..accepted[m]: confirmed' = [confirmed EXCEPT ![m] = d]
              /\ UNCHANGED <<queued, accepted, note>>

Note(m) == /\ confirmed[m] # 0
           /\ note' = [note EXCEPT ![m] = confirmed[m]]
           /\ UNCHANGED <<queued, accepted, confirmed>>

Forget(m) == /\ note' = [note EXCEPT ![m] = 0]
             /\ UNCHANGED <<queued, accepted, confirmed>>

Next == \E m \in Messages:
            Submit(m) \/ Deliver(m) \/ Confirm(m) \/ Note(m) \/ Forget(m)

Spec == Init /\ [][Next]_outboxVars
=============================================================================
