------------------------------- MODULE SemTable -------------------------------
(***************************************************************************)
(* The search of semaphore_create (kernel/semaphore.c) for a free entry of  *)
(* semaphore_table.  The table is given by the creator of each entry; the   *)
(* search begins where the last one ended.                                  *)
(***************************************************************************)
EXTENDS Integers, FiniteSets, FiniteSetsExt

CONSTANTS
    MaxSemaphores,  \* CONFIG_MAX_SEMAPHORES
    Nobody          \* -1 as a creator, NULL as a thread

ASSUME MaxSemaphoresAssumption == MaxSemaphores \in Nat \ {0}

SemIds == 0 .. (MaxSemaphores - 1)
NoSem  == -1

(* The entry that is looked at after i others when the search begins at n. *)
Probed(n, i) == (n + i) % MaxSemaphores

(* How many entries are passed over before each free one. *)
FreeAfter(creator, n) == {i \in SemIds : creator[Probed(n, i)] = Nobody}

(* As if the first entry looked at were taken, in use or not. *)
ReservedSem_next(creator, n) == Probed(n, 0)

(* The entry that is reserved, or none. *)
ReservedSem(creator, n) ==
    LET free == FreeAfter(creator, n) IN IF free = {} THEN NoSem ELSE Probed(n, Min(free))

(* Where the next search begins. *)
NextSem(creator, n) ==
    LET free == FreeAfter(creator, n) IN IF free = {} THEN n ELSE Probed(n, Min(free) + 1)
=============================================================================
