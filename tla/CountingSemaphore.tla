------------------------- MODULE CountingSemaphore -------------------------
(* What semaphore_P and semaphore_V promise: a counter of free units that    *)
(* never goes below zero and a first-come first-served queue of the threads  *)
(* that wait for one.  A unit handed back while threads wait goes to the     *)
(* first of them, so nobody overtakes a waiter.                              *)
EXTENDS Naturals, Sequences

CONSTANTS Sems, Threads, InitValue

VARIABLES units, waiting

Init == units = InitValue /\ waiting = [s \in Sems |-> <<>>]

Take(s) ==
    /\ units[s] > 0
    /\ units' = [units EXCEPT ![s] = @ - 1]
    /\ UNCHANGED waiting

Wait(s, t) ==
    /\ units[s] = 0
    /\ waiting' = [waiting EXCEPT ![s] = Append(@, t)]
    /\ UNCHANGED units

Give(s) ==
    /\ waiting[s] = <<>>
    /\ units' = [units EXCEPT ![s] = @ + 1]
    /\ UNCHANGED waiting

HandOver(s) ==
    /\ waiting[s] # <<>>
    /\ waiting' = [waiting EXCEPT ![s] = Tail(@)]
    /\ UNCHANGED units

Next == \E s \in Sems : Take(s) \/ Give(s) \/ HandOver(s) \/ \E t \in Threads : Wait(s, t)

Spec == Init /\ [][Next]_<<units, waiting>>
=============================================================================
