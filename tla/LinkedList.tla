----------------------------- MODULE LinkedList -----------------------------
(* Singly linked lists threaded through a field of a table, as the ready     *)
(* list and the sleep queue chains are through thread_table[].next.          *)
EXTENDS Integers

Nil == -1                           \* "negative": end of list, no thread

(* A set that holds the first node and, with every node, the next one. *)
HoldsList(S, first, nx) ==
    /\ first # Nil => first \in S
    /\ \A t \in S : nx[t] # Nil => nx[t] \in S

(* L is exactly what is linked from first: nothing outside L is linked, no   *)
(* node is linked twice, and every node is reached, because no smaller set   *)
(* holds the list.                                                           *)
IsList(L, first, nx) ==
    /\ first # Nil => first \in L
    /\ \A t \in L : nx[t] # Nil => nx[t] \in L /\ nx[t] # first
    /\ \A t, u \in L : nx[t] = nx[u] /\ nx[t] # Nil => t = u
    /\ \A S \in SUBSET L : HoldsList(S, first, nx) => S = L

(* A list whose last node is known, so that it can be appended to at once. *)
IsQueue(L, first, last, nx) ==
    /\ IsList(L, first, nx)
    /\ first = Nil <=> last = Nil
    /\ last # Nil => last \in L
    /\ \A t \in L : nx[t] = Nil <=> t = last

(* The nodes of a list from t on: in every set that holds t and, with every   *)
(* node, the next one.                                                        *)
ListFrom(L, t, nx) == {u \in L : \A S \in SUBSET L : HoldsList(S, t, nx) => u \in S}
=============================================================================
