----------------------------- MODULE ScopedLock -----------------------------
(***************************************************************************)
(* The scoped guards of src/lock/lock.h over one lock: ScopedLockImpl over *)
(* a Mutex or Spinlock ("plain"), ReadScopedLockImpl and                   *)
(* WriteScopedLockImpl over an RWMutex ("read", "write").                  *)
(*                                                                         *)
(* A guard decides by its own flag m_locked whether lock() and unlock()    *)
(* reach the lock.  The read and write guards initialise the flag; the     *)
(* plain guard does not, so its constructor starts from whatever its stack *)
(* slot holds.                                                             *)
(***************************************************************************)
EXTENDS Integers, FiniteSets

CONSTANTS
  Threads,   \* threads that use the lock, one guard each at a time
  Guards,    \* kinds of guard of this lock
  Garbage    \* values an uninitialised m_locked may have

ASSUME ThreadsAssumption == IsFiniteSet(Threads)
ASSUME GuardsAssumption  == Guards = {"plain"} \/ Guards = {"read", "write"}
ASSUME GarbageAssumption == Garbage \subseteq BOOLEAN /\ Garbage # {}

VARIABLES
  writer,    \* the lock is held exclusively (a locked mutex or spinlock too)
  readers,   \* how often the lock is held for reading
  mlocked,   \* m_locked of each thread's guard
  guard,     \* the kind of each thread's guard, "none" when it has no guard
  pc         \* "out": no guard; "lock": in lock(); "in": after lock()

vars == <<writer, readers, mlocked, guard, pc>>

Init ==
  /\ writer = FALSE /\ readers = 0
  /\ mlocked = [t \in Threads |-> FALSE]
  /\ guard = [t \in Threads |-> "none"]
  /\ pc = [t \in Threads |-> "out"]

-----------------------------------------------------------------------------
(* The locks: pthread_mutex, pthread_spin and pthread_rwlock.  Unlocking   *)
(* does not look at who holds the lock.                                    *)
Free(g) == ~writer /\ (g # "read" => readers = 0)

(* Defective variant of Take, for mutation checks only: lock() of the      *)
(* write guard takes the lock for reading.                                 *)
TakeShared(g) == readers' = readers + 1 /\ writer' = writer

Take(g) ==
  IF g = "read" THEN readers' = readers + 1 /\ writer' = writer
                ELSE writer' = TRUE /\ readers' = readers

Release(g) ==
  IF g = "read" THEN readers' = readers - 1 /\ writer' = writer
                ELSE writer' = FALSE /\ readers' = readers

-----------------------------------------------------------------------------
(* Defective variants, for mutation checks only.                           *)

(* unlock() forgets to clear m_locked                                      *)
UnlockKeepFlag(t) ==
  /\ pc[t] = "in"
  /\ mlocked[t]
  /\ Release(guard[t])
  /\ UNCHANGED <<mlocked, guard, pc>>

(* the destructor leaves m_locked set                                      *)
DestroyKeepFlag(t) ==
  /\ pc[t] = "in"
  /\ IF mlocked[t] THEN Release(guard[t]) ELSE UNCHANGED <<writer, readers>>
  /\ guard' = [guard EXCEPT ![t] = "none"]
  /\ pc' = [pc EXCEPT ![t] = "out"]
  /\ UNCHANGED mlocked

(* lock() forgets to set m_locked                                          *)
AcquireNoFlag(t) ==
  /\ pc[t] = "lock"
  /\ ~mlocked[t] /\ Free(guard[t])
  /\ Take(guard[t])
  /\ pc' = [pc EXCEPT ![t] = "in"]
  /\ UNCHANGED <<mlocked, guard>>

-----------------------------------------------------------------------------
(* The constructor stores the reference to the lock and calls lock().      *)
Construct(t, g) ==
  /\ pc[t] = "out"
  /\ guard' = [guard EXCEPT ![t] = g]
  /\ \E b \in IF g = "plain" THEN Garbage ELSE {FALSE} :
       mlocked' = [mlocked EXCEPT ![t] = b]
  /\ pc' = [pc EXCEPT ![t] = "lock"]
  /\ UNCHANGED <<writer, readers>>

(* lock() on a guard that is already there.                                *)
Relock(t) ==
  /\ pc[t] = "in"
  /\ pc' = [pc EXCEPT ![t] = "lock"]
  /\ UNCHANGED <<writer, readers, mlocked, guard>>

(* lock(): with m_locked set it does nothing, otherwise it blocks until    *)
(* the lock is free and sets m_locked.                                     *)
Skip(t) ==
  /\ pc[t] = "lock"
  /\ mlocked[t]
  /\ pc' = [pc EXCEPT ![t] = "in"]
  /\ UNCHANGED <<writer, readers, mlocked, guard>>

Acquire(t) ==
  /\ pc[t] = "lock"
  /\ ~mlocked[t] /\ Free(guard[t])
  /\ Take(guard[t])
  /\ mlocked' = [mlocked EXCEPT ![t] = TRUE]
  /\ pc' = [pc EXCEPT ![t] = "in"]
  /\ UNCHANGED guard

(* unlock() before the end of the scope, as addEvent does.                 *)
Unlock(t) ==
  /\ pc[t] = "in"
  /\ mlocked[t]
  /\ Release(guard[t])
  /\ mlocked' = [mlocked EXCEPT ![t] = FALSE]
  /\ UNCHANGED <<guard, pc>>

(* The destructor calls unlock(), which does nothing without m_locked.     *)
Destroy(t) ==
  /\ pc[t] = "in"
  /\ IF mlocked[t] THEN Release(guard[t]) ELSE UNCHANGED <<writer, readers>>
  /\ mlocked' = [mlocked EXCEPT ![t] = FALSE]
  /\ guard' = [guard EXCEPT ![t] = "none"]
  /\ pc' = [pc EXCEPT ![t] = "out"]

Next == \E t \in Threads :
          \/ \E g \in Guards : Construct(t, g)
          \/ Relock(t) \/ Skip(t) \/ Acquire(t) \/ Unlock(t) \/ Destroy(t)

Spec == Init /\ [][Next]_vars

-----------------------------------------------------------------------------
(* A thread relies on its guard between the lock() and the unlock() of it. *)
Relies(t, kinds) == pc[t] \in {"in", "lock"} /\ mlocked[t] /\ guard[t] \in kinds
Relying(kinds)   == {t \in Threads : Relies(t, kinds)}

TypeOK ==
  /\ writer \in BOOLEAN /\ readers \in Int
  /\ mlocked \in [Threads -> BOOLEAN]
  /\ guard \in [Threads -> Guards \cup {"none"}]
  /\ pc \in [Threads -> {"out", "lock", "in"}]
  /\ \A t \in Threads : IF pc[t] = "out" THEN guard[t] = "none" /\ ~mlocked[t]
                                          ELSE guard[t] \in Guards

(* Two threads that rely on guards of the same lock at the same time both  *)
(* rely on read guards, whatever order they lock, unlock early, lock again *)
(* and leave their scopes in.                                              *)
Exclusion ==
  \A t, u \in Threads :
    t # u /\ Relies(t, Guards) /\ Relies(u, Guards) =>
      guard[t] = "read" /\ guard[u] = "read"

(* What the guards believe is what the lock is: a reader is counted for    *)
(* each relying read guard and no other, and the lock is held exclusively  *)
(* exactly while a thread relies on that.  No unlock() releases the lock   *)
(* of another thread.                                                      *)
FlagExact ==
  /\ readers = Cardinality(Relying({"read"}))
  /\ writer <=> Relying({"write", "plain"}) # {}
=============================================================================
