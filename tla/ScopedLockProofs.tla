-------------------------- MODULE ScopedLockProofs --------------------------
(***************************************************************************)
(* Proofs about ScopedLock for any number of threads.  Types hold for all  *)
(* guards; exclusion for every guard whose m_locked is initialised: the    *)
(* read and write guards of an RWMutex as they are, the plain guard if its *)
(* flag starts FALSE.                                                      *)
(***************************************************************************)
EXTENDS ScopedLock, TLAPS, FiniteSetTheorems

Initialised == "plain" \notin Guards \/ Garbage = {FALSE}

R == Relying({"read"})
W == Relying({"write", "plain"})

(* The lock and the relying threads agree, and writers are alone.          *)
Agree ==
  /\ readers = Cardinality(R) /\ (writer <=> W # {})
  /\ W # {} => R = {}
  /\ \A t, u \in W : t = u
IInv == TypeOK /\ Agree

(* The invariant is what the properties say, seen from the lock.           *)
LEMMA AgreeEnough == IInv => Exclusion /\ FlagExact
<1> SUFFICES ASSUME IInv PROVE Exclusion /\ FlagExact
  OBVIOUS
<1>1. FlagExact
  BY DEF IInv, Agree, R, W, FlagExact
<1>2. ASSUME NEW t \in Threads, NEW u \in Threads, t # u,
             Relies(t, Guards), Relies(u, Guards)
      PROVE  guard[t] = "read" /\ guard[u] = "read"
  <2>1. /\ t \in R \/ t \in W
        /\ u \in R \/ u \in W
    BY <1>2, GuardsAssumption DEF R, W, Relying, Relies
  <2>2. t \notin W /\ u \notin W
    BY <1>2, <2>1 DEF IInv, Agree
  <2> QED BY <2>1, <2>2 DEF R, Relying, Relies
<1> QED BY <1>1, <1>2 DEF Exclusion

LEMMA TypeStart == Init => TypeOK
<1> SUFFICES ASSUME Init PROVE TypeOK
  OBVIOUS
<1>1. writer \in BOOLEAN
  BY DEF Init
<1>2. readers \in Int
  BY DEF Init
<1>3. mlocked \in [Threads -> BOOLEAN]
  BY DEF Init
<1>4. /\ guard \in [Threads -> Guards \cup {"none"}]
      /\ pc \in [Threads -> {"out", "lock", "in"}]
      /\ \A t \in Threads : IF pc[t] = "out" THEN guard[t] = "none" /\ ~mlocked[t]
                                              ELSE guard[t] \in Guards
  BY DEF Init
<1> QED BY <1>1, <1>2, <1>3, <1>4 DEF TypeOK

(* Types, whatever an uninitialised m_locked holds.                        *)
LEMMA TypeStep == TypeOK /\ [Next]_vars => TypeOK'
<1> SUFFICES ASSUME TypeOK, [Next]_vars PROVE TypeOK'
  OBVIOUS
<1> USE DEF TypeOK
<1>1. ASSUME NEW t \in Threads, NEW g \in Guards, Construct(t, g) PROVE TypeOK'
  <2>1. PICK b \in BOOLEAN : mlocked' = [mlocked EXCEPT ![t] = b]
    BY <1>1, GarbageAssumption DEF Construct
  <2>2. mlocked' \in [Threads -> BOOLEAN]
    BY <2>1
  <2>3. /\ guard' \in [Threads -> Guards \cup {"none"}]
        /\ pc' \in [Threads -> {"out", "lock", "in"}]
        /\ \A u \in Threads : IF pc'[u] = "out" THEN guard'[u] = "none" /\ ~mlocked'[u]
                                                 ELSE guard'[u] \in Guards
    BY <1>1, <2>1 DEF Construct
  <2>4. writer' \in BOOLEAN /\ readers' \in Int
    BY <1>1 DEF Construct
  <2> QED BY <2>2, <2>3, <2>4
<1>2. ASSUME NEW t \in Threads, Relock(t) \/ Skip(t) PROVE TypeOK'
  BY <1>2 DEF Relock, Skip
<1>3. ASSUME NEW t \in Threads, Acquire(t) \/ Unlock(t) \/ Destroy(t) PROVE TypeOK'
  <2>1. writer' \in BOOLEAN
    BY <1>3, Zenon DEF Acquire, Unlock, Destroy, Take, Release
  <2>2. readers' \in Int
    BY <1>3 DEF Acquire, Unlock, Destroy, Take, Release
  <2>3. mlocked' \in [Threads -> BOOLEAN]
    BY <1>3 DEF Acquire, Unlock, Destroy
  <2>4. /\ guard' \in [Threads -> Guards \cup {"none"}]
        /\ pc' \in [Threads -> {"out", "lock", "in"}]
        /\ \A u \in Threads : IF pc'[u] = "out" THEN guard'[u] = "none" /\ ~mlocked'[u]
                                                 ELSE guard'[u] \in Guards
    BY <1>3 DEF Acquire, Unlock, Destroy
  <2> QED BY <2>1, <2>2, <2>3, <2>4
<1>4. CASE UNCHANGED vars
  BY <1>4 DEF vars
<1> QED BY <1>1, <1>2, <1>3, <1>4 DEF Next

LEMMA Start == Init => IInv
<1> SUFFICES ASSUME Init PROVE IInv
  OBVIOUS
<1>1. R = {} /\ W = {}
  BY DEF Init, R, W, Relying, Relies
<1> QED BY <1>1, TypeStart, FS_EmptySet DEF IInv, Agree, Init

LEMMA Keep == ASSUME Initialised PROVE IInv /\ [Next]_vars => IInv'
<1> SUFFICES ASSUME IInv, [Next]_vars PROVE IInv'
  OBVIOUS
<1> USE DEF IInv
<1>0. IsFiniteSet(R) /\ Cardinality(R) \in Nat /\ readers \in Int
  BY ThreadsAssumption, FS_Subset, FS_CardinalityType DEF R, Relying, TypeOK
<1>9. TypeOK'
  BY TypeStep
<1>1. ASSUME UNCHANGED <<writer, readers>>, R' = R, W' = W PROVE Agree'
  BY <1>1 DEF Agree
<1>2. ASSUME NEW t \in R, R' = R \ {t}, W' = W, Release("read") PROVE Agree'
  BY <1>0, <1>2, FS_RemoveElement DEF Agree, Release
<1>3. ASSUME NEW t \in W, W' = W \ {t}, R' = R, NEW g, g # "read", Release(g) PROVE Agree'
  <2>1. W' = {} /\ writer' = FALSE /\ readers' = readers
    BY <1>3 DEF Agree, Release
  <2> QED BY <1>3, <2>1 DEF Agree
<1> USE DEF TypeOK
<1>4. ASSUME NEW t \in Threads, NEW g \in Guards, Construct(t, g) PROVE IInv'
  <2>1. mlocked' = [mlocked EXCEPT ![t] = FALSE]
    BY <1>4 DEF Construct, Initialised
  <2>2. R' = R /\ W' = W
    BY <1>4, <2>1 DEF Construct, R, W, Relying, Relies
  <2> QED BY <1>9, <1>1, <1>4, <2>2 DEF Construct
<1>5. ASSUME NEW t \in Threads, Relock(t) \/ Skip(t) PROVE IInv'
  <2>1. R' = R /\ W' = W
    BY <1>5 DEF Relock, Skip, R, W, Relying, Relies
  <2> QED BY <1>9, <1>1, <1>5, <2>1 DEF Relock, Skip
<1>6. ASSUME NEW t \in Threads, Acquire(t) PROVE IInv'
  <2>1. t \notin R /\ t \notin W /\ W = {} /\ guard[t] \in Guards
    BY <1>6 DEF Acquire, Free, Agree, R, W, Relying, Relies
  <2>2. CASE guard[t] = "read"
    <3>1. R' = R \cup {t} /\ W' = W
      BY <1>6, <2>2 DEF Acquire, R, W, Relying, Relies
    <3>2. readers' = readers + 1 /\ writer' = writer
      BY <1>6, <2>2 DEF Acquire, Take
    <3> QED BY <1>0, <1>9, <2>1, <3>1, <3>2, FS_AddElement DEF Agree
  <2>3. CASE guard[t] # "read"
    <3>1. guard[t] \in {"write", "plain"}
      BY <2>1, <2>3, GuardsAssumption
    <3>2. W' = W \cup {t} /\ R' = R
      BY <1>6, <2>3, <3>1 DEF Acquire, R, W, Relying, Relies
    <3>3. readers = 0 /\ readers' = readers /\ writer' = TRUE
      BY <1>6, <2>3 DEF Acquire, Take, Free
    <3>4. R = {}
      BY <1>0, <3>3, FS_EmptySet DEF Agree
    <3> QED BY <1>9, <2>1, <3>2, <3>3, <3>4 DEF Agree
  <2> QED BY <2>2, <2>3
<1>7. ASSUME NEW t \in Threads, Unlock(t) \/ Destroy(t) PROVE IInv'
  <2>1. CASE ~mlocked[t]
    <3>1. R' = R /\ W' = W /\ UNCHANGED <<writer, readers>>
      BY <1>7, <2>1 DEF Unlock, Destroy, R, W, Relying, Relies
    <3> QED BY <1>9, <1>1, <3>1
  <2>2. CASE mlocked[t] /\ guard[t] = "read"
    <3>1. t \in R /\ R' = R \ {t} /\ W' = W
      BY <1>7, <2>2 DEF Unlock, Destroy, R, W, Relying, Relies
    <3> QED BY <1>2, <1>7, <1>9, <2>2, <3>1 DEF Unlock, Destroy
  <2>3. CASE mlocked[t] /\ guard[t] # "read"
    <3>1. guard[t] \in {"write", "plain"} /\ pc[t] = "in"
      BY <1>7, <2>3, GuardsAssumption DEF Unlock, Destroy
    <3>2. t \in W /\ W' = W \ {t} /\ R' = R
      BY <1>7, <2>3, <3>1 DEF Unlock, Destroy, R, W, Relying, Relies
    <3>3. Release(guard[t])
      BY <1>7, <2>3 DEF Unlock, Destroy
    <3> QED BY <1>3, <1>9, <2>3, <3>2, <3>3
  <2> QED BY <2>1, <2>2, <2>3
<1>8. CASE UNCHANGED vars
  <2>1. R' = R /\ W' = W
    BY <1>8 DEF vars, R, W, Relying, Relies
  <2> QED BY <1>9, <1>1, <1>8, <2>1 DEF vars
<1> QED BY <1>4, <1>5, <1>6, <1>7, <1>8 DEF Next

(* Every guard keeps the types, also one whose m_locked starts from what   *)
(* its stack slot holds: a thread without a guard has no flag set.         *)
THEOREM TypeCorrect == Spec => []TypeOK
BY TypeStart, TypeStep, PTL DEF Spec

(* Guards that initialise m_locked exclude each other as a reader-writer    *)
(* lock promises, for any number of threads.                                *)
THEOREM ExclusionCorrect == Initialised => (Spec => []Exclusion)
<1> SUFFICES ASSUME Initialised PROVE Spec => []Exclusion
  OBVIOUS
<1> QED BY Start, Keep, AgreeEnough, PTL DEF Spec

(* They never release a lock that another thread holds.                     *)
THEOREM FlagExactCorrect == Initialised => (Spec => []FlagExact)
<1> SUFFICES ASSUME Initialised PROVE Spec => []FlagExact
  OBVIOUS
<1> QED BY Start, Keep, AgreeEnough, PTL DEF Spec
=============================================================================
