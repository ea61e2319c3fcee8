------------------------------ MODULE MCKVStore ------------------------------
(* Instances of KVStore for TLC.                                           *)
EXTENDS KVStore, TLC

AddrSymmetry == Permutations(Addrs)
=============================================================================
