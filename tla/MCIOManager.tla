---------------------------- MODULE MCIOManager -----------------------------
(***************************************************************************)
(* Instances of IOManager for TLC.  Coroutines are pairs of descriptor and *)
(* direction, given by the set Coros.                                      *)
(***************************************************************************)
EXTENDS IOManager

FdOfPair    == [c \in Coros |-> c[1]]
EventOfPair == [c \in Coros |-> c[2]]
BothOf3     == {<<3, "READ">>, <<3, "WRITE">>}
OneEach     == {<<3, "READ">>, <<4, "WRITE">>}
ReadOf3     == {<<3, "READ">>}
=============================================================================
