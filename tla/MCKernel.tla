------------------------------ MODULE MCKernel ------------------------------
(* Instances of Kernel for TLC: one bucket, so that all resources collide in *)
(* the hash table of the sleep queue.                                        *)
EXTENDS Kernel, TLC

CONSTANTS s1, b1

OneBucket == [r \in Resources |-> b1]
Empty     == [s \in Sems |-> 0]
CpuSymmetry == Permutations(Cpus)
=============================================================================
