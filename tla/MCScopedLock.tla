---------------------------- MODULE MCScopedLock ----------------------------
(* Instances of ScopedLock for TLC; the threads are interchangeable.       *)
EXTENDS ScopedLock, TLC

Symmetry == Permutations(Threads)
=============================================================================
