-------------------------------- MODULE MCDisk --------------------------------
(* An instance of Disk for TLC: one client writes 0, one writes 1, the third *)
(* reads.                                                                    *)
EXTENDS Disk

CONSTANTS t1, t2, t3

OneWritten == [t \in Clients |-> IF t = t1 THEN {0} ELSE IF t = t2 THEN {1} ELSE {}]
=============================================================================
