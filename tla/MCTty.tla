-------------------------------- MODULE MCTty --------------------------------
(* Instances of Tty for TLC: two writers, two readers with someone typing,   *)
(* and a writer with someone typing.                                         *)
EXTENDS Tty

CONSTANTS w1, w2, r1, r2

SomeUsers == {{w1, w2}, {r1, r2, Typist}, {w1, Typist}}
=============================================================================
