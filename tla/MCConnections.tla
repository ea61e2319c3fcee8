---------------------------- MODULE MCConnections ----------------------------
(* Instances of Connections for TLC: the connections, the listening socket *)
(* and the numbers that are not taken by the process itself.               *)
EXTENDS Connections, TLC

Numbers3     == 3 .. 5
Numbers4     == 3 .. 6
ConnSymmetry == Permutations(Conns)
=============================================================================
