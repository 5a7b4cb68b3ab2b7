------------------------------- MODULE MCVfs -------------------------------
(* Instances of Vfs for TLC.  Threads, drivers and names are interchangeable. *)
EXTENDS Vfs, TLC

Symmetry == Permutations(Threads) \union Permutations(Filesystems) \union Permutations(Names)
=============================================================================
