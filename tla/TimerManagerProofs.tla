------------------------- MODULE TimerManagerProofs -------------------------
(***************************************************************************)
(* Theorems about TimerManager.  The invariant says that a timer is in one *)
(* place, the set or the hands of one thread, and that a timer whose life  *)
(* is over has no callback and no place.                                   *)
(***************************************************************************)
EXTENDS TimerManager, TLAPS

LEMMA TypeInit == Init => TypeOK
BY DEF Init, TypeOK

LEMMA TypeStep == TypeOK /\ [Next]_vars => TypeOK'
<1> SUFFICES ASSUME TypeOK, [Next]_vars PROVE TypeOK'
  OBVIOUS
<1> USE NoThreadAssumption DEF TypeOK, At, Goto, timerVars, threadVars, historyVars
<1>1. ASSUME NEW p \in Threads, Wait(p) PROVE TypeOK'
  BY <1>1 DEF Wait
<1>2. ASSUME NEW p \in Threads, ReadClock(p) PROVE TypeOK'
  BY <1>2 DEF ReadClock
<1>3. ASSUME NEW p \in Threads, CollectNone(p) PROVE TypeOK'
  BY <1>3 DEF CollectNone
<1>4. ASSUME NEW p \in Threads, Collect(p) PROVE TypeOK'
  BY <1>4 DEF Collect, Expired, Access
<1>5. ASSUME NEW p \in Threads, NEW t \in Timers, Handle(p, t) PROVE TypeOK'
  <2>1. t \in created /\ batch' \in [Threads -> SUBSET created]
    BY <1>5 DEF Handle
  <2>2. copies' \in [Timers -> Nat]
    BY <1>5 DEF Handle
  <2>9. hascb' \in [Timers -> BOOLEAN]
    <3>1. hascb' = hascb \/ hascb' = [hascb EXCEPT ![t] = FALSE]
      BY <1>5 DEF Handle
    <3> QED  BY <3>1
  <2>3. next' \in [Timers -> Int]
    BY <1>5 DEF Handle
  <2>4. timers' \subseteq created /\ collected' \subseteq created
    BY <1>5, <2>1 DEF Handle
  <2>5. \A q \in Threads : batch'[q] # {} <=> pc'[q] \in {"insert", "loop"}
    BY <1>5 DEF Handle
  <2>6. owner' \in Threads \cup {NoThread} /\ (owner' # NoThread => pc'[owner'] = "loop")
    BY <1>5 DEF Handle
  <2>7. pc' \in [Threads -> {"idle", "insert", "wait", "list", "loop"}]
    BY <1>5 DEF Handle
  <2>8. fate' \in {"running", "corrupt"} /\ UNCHANGED <<now, created, ms, stamp, erased>>
    BY <1>5 DEF Handle, Access
  <2> QED  BY <2>1, <2>2, <2>3, <2>4, <2>5, <2>6, <2>7, <2>8, <2>9
<1>6. ASSUME NEW p \in Threads, Insert(p) PROVE TypeOK'
  BY <1>6 DEF Insert, Access
<1>7. ASSUME NEW p \in Threads, NEW t \in Timers, Cancel(p, t) PROVE TypeOK'
  BY <1>7 DEF Cancel, Access
<1>8. ASSUME NEW p \in Threads, NEW t \in Timers, Refresh(p, t) PROVE TypeOK'
  BY <1>8 DEF Refresh, Access
<1>9. ASSUME NEW p \in Threads, NEW t \in Timers, NEW d \in Delays, Construct(p, t, d)
      PROVE  TypeOK'
  BY <1>9, DelaysAssumption DEF Construct
<1>10. ASSUME NEW p \in Threads, NEW t \in Timers, NEW d \in Delays, NEW f \in BOOLEAN,
              Reset(p, t, d, f)
       PROVE  TypeOK'
  BY <1>10, DelaysAssumption DEF Reset, Access
<1>11. ASSUME NEW p \in Threads, NEW t \in Timers, Call(p, t) PROVE TypeOK'
  BY <1>11 DEF Call
<1>12. CASE Tick
  BY <1>12 DEF Tick
<1>13. CASE UNCHANGED vars
  BY <1>13 DEF vars
<1> QED
  BY <1>1, <1>2, <1>3, <1>4, <1>5, <1>6, <1>7, <1>8, <1>9, <1>10, <1>11, <1>12, <1>13
  DEF Next, Poll, Operate

(* Every variable keeps its type; a thread has timers in its hands only    *)
(* inside addTimer or the loop, and holds the lock across steps only there.*)
THEOREM TypeCorrect == Spec => []TypeOK
BY TypeInit, TypeStep, PTL DEF Spec

-----------------------------------------------------------------------------
Apart ==
  \A p \in Threads :
    /\ batch[p] \cap timers = {}
    /\ \A q \in Threads \ {p} : batch[p] \cap batch[q] = {}

(* A timer that is cancelled or has been called for the only time.         *)
Over(t)   == ~hascb[t] /\ t \notin timers /\ ~InHands(t)
OverInv   == \A t \in erased \cup (collected \ Recurring) : Over(t)
PlacesInv == TypeOK /\ Apart /\ OverInv /\ Kept

LEMMA PlacesInit == Init => PlacesInv
BY TypeInit DEF Init, PlacesInv, Apart, OverInv, Over, Kept, InHands

LEMMA PlacesStep == PlacesInv /\ [Next]_vars => PlacesInv'
<1> SUFFICES ASSUME PlacesInv, [Next]_vars PROVE PlacesInv'
  OBVIOUS
<1>0. TypeOK /\ TypeOK'
  BY TypeStep DEF PlacesInv
<1> DEFINE Goal == (Apart /\ OverInv /\ Kept)'
<1>a. ASSUME UNCHANGED <<timers, created, hascb, batch, erased, collected>> PROVE Goal
  BY <1>a DEF PlacesInv, Apart, OverInv, Over, Kept, InHands
<1>4. ASSUME NEW p \in Threads, Collect(p) PROVE Goal
  <2> DEFINE E == Expired(stamp[p])
  <2>1. /\ E \subseteq timers /\ timers' = timers \ E
        /\ batch'[p] = E /\ batch[p] = {}
        /\ \A q \in Threads \ {p} : batch'[q] = batch[q]
        /\ UNCHANGED <<created, hascb, erased, collected>>
    BY <1>0, <1>4 DEF Collect, Expired, TypeOK, At, timerVars, historyVars
  <2> HIDE DEF E
  <2>2. Apart'
    BY <2>1 DEF PlacesInv, Apart
  <2>3. OverInv'
    BY <2>1 DEF PlacesInv, OverInv, Over, InHands
  <2>4. Kept'
    BY <2>1 DEF PlacesInv, Kept, InHands
  <2> QED  BY <2>2, <2>3, <2>4
<1>5. ASSUME NEW p \in Threads, NEW t \in Timers, Handle(p, t) PROVE Goal
  <2>1. /\ t \in batch[p] /\ batch'[p] = batch[p] \ {t}
        /\ \A q \in Threads \ {p} : batch'[q] = batch[q]
        /\ collected' \subseteq collected \cup {t}
        /\ UNCHANGED <<created, erased>>
    BY <1>0, <1>5 DEF Handle, TypeOK
  <2>2. t \notin timers /\ t \notin erased /\ t \notin collected \ Recurring
        /\ \A q \in Threads \ {p} : t \notin batch[q]
    BY <2>1 DEF PlacesInv, Apart, OverInv, Over, InHands
  <2>3. CASE t \in Recurring
    <3>1. timers' = timers \cup {t} /\ hascb' = hascb
      BY <1>5, <2>3 DEF Handle
    <3>2. Apart'
      BY <2>1, <2>2, <3>1 DEF PlacesInv, Apart
    <3>3. OverInv'
      BY <2>1, <2>2, <2>3, <3>1 DEF PlacesInv, OverInv, Over, InHands
    <3>4. Kept'
      BY <2>1, <3>1 DEF PlacesInv, Kept, InHands
    <3> QED  BY <3>2, <3>3, <3>4
  <2>4. CASE t \notin Recurring
    <3>1. /\ timers' = timers /\ ~hascb'[t]
          /\ \A u \in Timers \ {t} : hascb'[u] = hascb[u]
      BY <1>0, <1>5, <2>4 DEF Handle, TypeOK
    <3>2. Apart'
      BY <2>1, <3>1 DEF PlacesInv, Apart
    <3>3. Over(t)'
      BY <2>1, <2>2, <3>1 DEF Over, InHands
    <3>4. ASSUME NEW u \in erased \cup (collected \ Recurring), u # t PROVE Over(u)'
      <4>1. u \in Timers /\ Over(u)
        BY <1>0 DEF PlacesInv, OverInv, TypeOK
      <4> QED  BY <2>1, <3>1, <3>4, <4>1 DEF Over, InHands
    <3>5. OverInv'
      BY <2>1, <3>3, <3>4 DEF OverInv
    <3>6. Kept'
      <4> SUFFICES ASSUME NEW u \in created, hascb'[u] PROVE (u \in timers \/ InHands(u))'
        BY <2>1 DEF Kept
      <4>1. u \in Timers /\ u # t /\ hascb[u]
        BY <1>0, <3>1 DEF TypeOK
      <4>2. u \in timers \/ \E q \in Threads : u \in batch[q]
        BY <4>1 DEF PlacesInv, Kept, InHands
      <4> QED  BY <2>1, <3>1, <4>1, <4>2 DEF InHands
    <3> QED  BY <3>2, <3>5, <3>6
  <2> QED  BY <2>3, <2>4
<1>6. ASSUME NEW p \in Threads, Insert(p) PROVE Goal
  <2>1. /\ timers' = timers \cup batch[p] /\ batch'[p] = {}
        /\ \A q \in Threads \ {p} : batch'[q] = batch[q]
        /\ UNCHANGED <<created, hascb, erased, collected>>
    BY <1>0, <1>6 DEF Insert, TypeOK, timerVars, historyVars
  <2>2. Apart'
    BY <2>1 DEF PlacesInv, Apart
  <2>3. OverInv'
    BY <2>1 DEF PlacesInv, OverInv, Over, InHands
  <2>4. Kept'
    BY <2>1 DEF PlacesInv, Kept, InHands
  <2> QED  BY <2>2, <2>3, <2>4
<1>7. ASSUME NEW p \in Threads, NEW t \in Timers, Cancel(p, t) PROVE Goal
  <2>1. /\ timers' = timers \ {t} /\ ~hascb'[t] /\ erased' = erased \cup (timers \cap {t})
        /\ \A u \in Timers \ {t} : hascb'[u] = hascb[u]
        /\ UNCHANGED <<created, batch, collected>>
    BY <1>0, <1>7 DEF Cancel, TypeOK, threadVars
  <2>2. Apart'
    BY <2>1 DEF PlacesInv, Apart
  <2>3. t \in timers => Over(t)'
    BY <2>1 DEF PlacesInv, Apart, Over, InHands
  <2>4. ASSUME NEW u \in erased \cup (collected \ Recurring) PROVE Over(u)'
    <3>1. u \in Timers /\ Over(u)
      BY <1>0 DEF PlacesInv, OverInv, TypeOK
    <3> QED  BY <2>1, <3>1 DEF Over, InHands
  <2>5. OverInv'
    BY <2>1, <2>3, <2>4 DEF OverInv
  <2>6. Kept'
    BY <1>0, <2>1 DEF PlacesInv, Kept, InHands, TypeOK
  <2> QED  BY <2>2, <2>5, <2>6
<1>9. ASSUME NEW p \in Threads, NEW t \in Timers, NEW d \in Delays, Construct(p, t, d)
      PROVE  Goal
  <2>1. /\ t \notin created /\ created' = created \cup {t}
        /\ batch[p] = {} /\ batch'[p] = {t}
        /\ \A q \in Threads \ {p} : batch'[q] = batch[q]
        /\ \A u \in Timers \ {t} : hascb'[u] = hascb[u]
        /\ UNCHANGED <<timers, erased, collected>>
    BY <1>0, <1>9 DEF Construct, At, TypeOK, historyVars
  <2>2. Apart'
    BY <1>0, <2>1 DEF PlacesInv, Apart, TypeOK
  <2>3. OverInv'
    BY <1>0, <2>1 DEF PlacesInv, OverInv, Over, InHands, TypeOK
  <2>4. Kept'
    BY <1>0, <2>1 DEF PlacesInv, Kept, InHands, TypeOK
  <2> QED  BY <2>2, <2>3, <2>4
<1> HIDE DEF Goal
<1>20. ASSUME NEW p \in Threads, Poll(p) \/ Insert(p) PROVE Goal
  <2>1. CASE Wait(p) \/ ReadClock(p) \/ CollectNone(p)
    BY <1>a, <2>1 DEF Wait, ReadClock, CollectNone, timerVars, historyVars
  <2> QED  BY <1>20, <1>4, <1>5, <1>6, <2>1 DEF Poll
<1>21. ASSUME NEW p \in Threads, NEW t \in Timers, Operate(p, t) PROVE Goal
  <2>1. ASSUME NEW d \in Delays, NEW f \in BOOLEAN, Reset(p, t, d, f) PROVE Goal
    BY <1>a, <2>1 DEF Reset, threadVars, historyVars
  <2>2. CASE Refresh(p, t)
    BY <1>a, <2>2 DEF Refresh, threadVars, historyVars
  <2> QED  BY <1>21, <1>7, <1>9, <2>1, <2>2 DEF Operate
<1>22. ASSUME NEW p \in Threads, NEW t \in Timers, Call(p, t) PROVE Goal
  BY <1>22, <1>a DEF Call, timerVars, threadVars
<1>23. ASSUME Tick \/ UNCHANGED vars PROVE Goal
  BY <1>23, <1>a DEF Tick, vars, timerVars, threadVars, historyVars
<1>24. Goal
  BY <1>20, <1>21, <1>22, <1>23 DEF Next
<1> QED  BY <1>0, <1>24 DEF Goal, PlacesInv

(* No timer is lost: while it has its callback it is in the set or in the  *)
(* hands of a thread, for any number of threads and timers.                *)
THEOREM KeptCorrect == Spec => []Kept
<1>1. PlacesInv => Kept
  BY DEF PlacesInv
<1> QED  BY PlacesInit, PlacesStep, <1>1, PTL DEF Spec

(* A timer that is not recurring is called at most once.                   *)
THEOREM OneShotOnceCorrect == Spec => []OneShotOnce
<1>1. PlacesInv => OneShotOnce
  BY DEF PlacesInv, OverInv, Over, OneShotOnce
<1> QED  BY PlacesInit, PlacesStep, <1>1, PTL DEF Spec

(* A timer that cancel() has erased never returns and is not queued again. *)
THEOREM CancelIsFinalCorrect == Spec => CancelIsFinal
<1> DEFINE Step == \A t \in erased : t \notin timers' /\ copies'[t] <= copies[t]
<1>1. PlacesInv /\ PlacesInv' /\ [Next]_vars => [Step]_vars
  <2> SUFFICES ASSUME PlacesInv, PlacesInv', [Next]_vars, NEW t \in erased
               PROVE  t \notin timers' /\ copies'[t] <= copies[t]
    OBVIOUS
  <2>0. TypeOK /\ TypeOK' /\ t \in Timers
    BY DEF PlacesInv, TypeOK
  <2>1. copies[t] \in Nat /\ copies'[t] \in Nat
    BY <2>0 DEF TypeOK
  <2>2. Over(t)
    BY DEF PlacesInv, OverInv
  <2>3. ASSUME NEW p \in Threads, NEW u \in Timers, Handle(p, u) PROVE copies'[t] = copies[t]
    <3>1. u # t
      BY <2>2, <2>3 DEF Handle, Over, InHands
    <3> QED  BY <2>0, <2>3, <3>1 DEF Handle, TypeOK
  <2>4. ASSUME NEW p \in Threads, NEW u \in Timers, Call(p, u) PROVE copies'[t] <= copies[t]
    BY <2>0, <2>1, <2>4 DEF Call, TypeOK
  <2>5. t \in erased'
    BY DEF Next, Poll, Operate, Wait, ReadClock, CollectNone, Collect, Handle, Insert, Cancel,
           Refresh, Construct, Reset, Call, Tick, vars, historyVars
  <2>6. t \notin timers'
    BY <2>5 DEF PlacesInv, OverInv, Over
  <2>7. copies'[t] <= copies[t]
    BY <2>1, <2>3, <2>4 DEF Next, Poll, Operate, Wait, ReadClock, CollectNone, Collect, Insert,
       Cancel, Refresh, Construct, Reset, Tick, vars, historyVars
  <2> QED  BY <2>6, <2>7
<1> QED  BY PlacesInit, PlacesStep, <1>1, PTL DEF Spec, CancelIsFinal

-----------------------------------------------------------------------------
OneThread == \A p, q \in Threads : p = q

(* On one thread nothing overlaps the loop, so a cancelled timer is not in *)
(* the set, and nothing keeps idle() from ending once all are cancelled.   *)
CancelledLeaves == fate = "running" /\ \A t \in timers : hascb[t]

CallbackInv ==
  /\ TypeOK /\ fate = "running"
  /\ \A t \in timers : hascb[t]
  /\ \A p \in Threads : \A t \in batch[p] : hascb[t]

LEMMA CallbackStep == OneThread /\ PlacesInv /\ CallbackInv /\ [Next]_vars => CallbackInv'
<1> SUFFICES ASSUME OneThread, PlacesInv, CallbackInv, [Next]_vars PROVE CallbackInv'
  OBVIOUS
<1>0. TypeOK /\ TypeOK'
  BY TypeStep DEF CallbackInv
<1>1. fate' = "running"
  <2>1. \A p \in Threads, t \in Timers : ~Races(p, t)
    BY DEF OneThread, Races
  <2>2. ASSUME NEW p \in Threads, NEW t \in Timers, Access(p, t) PROVE fate' = "running"
    BY <2>1, <2>2 DEF Access
  <2>3. \A p \in Threads : batch[p] \subseteq Timers /\ Expired(stamp[p]) \subseteq Timers
    BY <1>0 DEF TypeOK, Expired
  <2> QED
    BY <2>2, <2>3 DEF CallbackInv, Next, Poll, Operate, Wait, ReadClock, CollectNone, Collect,
       Handle, Insert, Cancel, Refresh, Construct, Reset, Call, Tick, vars
<1> DEFINE Goal == (\A t \in timers : hascb[t])' /\ (\A p \in Threads : \A t \in batch[p] : hascb[t])'
<1>a. ASSUME UNCHANGED <<timers, hascb, batch>> PROVE Goal
  BY <1>a DEF CallbackInv
<1>4. ASSUME NEW p \in Threads, Collect(p) PROVE Goal
  BY <1>0, <1>4 DEF Collect, Expired, CallbackInv, TypeOK, timerVars
<1>5. ASSUME NEW p \in Threads, NEW t \in Timers, Handle(p, t) PROVE Goal
  <2>1. t \in batch[p] /\ batch' = [batch EXCEPT ![p] = @ \ {t}] /\ t \notin timers
    BY <1>5 DEF Handle, PlacesInv, Apart
  <2>2. \/ timers' = timers \cup {t} /\ hascb' = hascb
        \/ timers' = timers /\ hascb' = [hascb EXCEPT ![t] = FALSE]
    BY <1>5 DEF Handle
  <2>3. \A u \in timers' : hascb'[u]
    BY <1>0, <2>1, <2>2 DEF CallbackInv, TypeOK
  <2>4. \A q \in Threads : t \notin batch'[q]
    BY <1>0, <2>1 DEF OneThread, TypeOK
  <2>5. \A q \in Threads : \A u \in batch'[q] : hascb'[u]
    BY <1>0, <2>1, <2>2, <2>4 DEF CallbackInv, TypeOK
  <2> QED  BY <2>3, <2>5
<1>6. ASSUME NEW p \in Threads, Insert(p) PROVE Goal
  BY <1>0, <1>6 DEF Insert, CallbackInv, TypeOK, timerVars
<1>7. ASSUME NEW p \in Threads, NEW t \in Timers, Cancel(p, t) PROVE Goal
  <2>1. pc[p] = "idle" /\ timers' = timers \ {t} /\ batch' = batch
        /\ hascb' = [hascb EXCEPT ![t] = FALSE]
    BY <1>7 DEF Cancel, At, threadVars
  <2>2. \A q \in Threads : batch[q] = {}
    BY <1>0, <2>1 DEF OneThread, TypeOK
  <2> QED  BY <1>0, <2>1, <2>2 DEF CallbackInv, TypeOK
<1>9. ASSUME NEW p \in Threads, NEW t \in Timers, NEW d \in Delays, Construct(p, t, d)
      PROVE  Goal
  BY <1>0, <1>9 DEF Construct, CallbackInv, TypeOK
<1> HIDE DEF Goal
<1>20. ASSUME NEW p \in Threads, Poll(p) \/ Insert(p) PROVE Goal
  <2>1. CASE Wait(p) \/ ReadClock(p) \/ CollectNone(p)
    BY <1>a, <2>1 DEF Wait, ReadClock, CollectNone, timerVars
  <2> QED  BY <1>20, <1>4, <1>5, <1>6, <2>1 DEF Poll
<1>21. ASSUME NEW p \in Threads, NEW t \in Timers, Operate(p, t) PROVE Goal
  <2>1. ASSUME NEW d \in Delays, NEW f \in BOOLEAN, Reset(p, t, d, f) PROVE Goal
    BY <1>a, <2>1 DEF Reset, threadVars
  <2>2. CASE Refresh(p, t)
    BY <1>a, <2>2 DEF Refresh, threadVars
  <2> QED  BY <1>21, <1>7, <1>9, <2>1, <2>2 DEF Operate
<1>22. ASSUME NEW p \in Threads, NEW t \in Timers, Call(p, t) PROVE Goal
  BY <1>22, <1>a DEF Call, timerVars, threadVars
<1>23. ASSUME Tick \/ UNCHANGED vars PROVE Goal
  BY <1>23, <1>a DEF Tick, vars, timerVars, threadVars
<1>24. Goal
  BY <1>20, <1>21, <1>22, <1>23 DEF Next
<1> QED  BY <1>0, <1>1, <1>24 DEF Goal, CallbackInv

(* With a single thread no access overlaps the loop that runs without the  *)
(* lock, and no timer stays in the set without its callback.               *)
THEOREM OneThreadCancels == OneThread /\ Spec => []CancelledLeaves
<1>1. Init => CallbackInv
  BY TypeInit DEF Init, CallbackInv
<1>2. CallbackInv => CancelledLeaves
  BY DEF CallbackInv, CancelledLeaves
<1> SUFFICES ASSUME OneThread PROVE Spec => []CancelledLeaves
  OBVIOUS
<1> QED  BY PlacesInit, PlacesStep, <1>1, <1>2, CallbackStep, PTL DEF Spec
-----------------------------------------------------------------------------
OneRecurring == \A t, u \in Recurring : t = u

(* No cancelled timer is in the set.                                       *)
NoneLeft == \A t \in timers : hascb[t]

(* Whether a thread is in the part of its loop that has lost the lock      *)
Unlocked(p) == pc[p] = "loop" /\ owner # p

(* A thread loses the lock when it puts its recurring timer back, so it    *)
(* has no other one in its hands that could be cancelled meanwhile.        *)
LoopInv ==
  /\ TypeOK
  /\ \A t \in timers : hascb[t]
  /\ \A p \in Threads : Unlocked(p) => batch[p] \cap Recurring = {}
  /\ \A p \in Threads : ~Unlocked(p) => \A t \in batch[p] : hascb[t]

LEMMA LoopStep == OneRecurring /\ PlacesInv /\ LoopInv /\ [Next]_vars => LoopInv'
<1> SUFFICES ASSUME OneRecurring, PlacesInv, LoopInv, [Next]_vars PROVE LoopInv'
  OBVIOUS
<1>0. TypeOK /\ TypeOK'
  BY TypeStep DEF LoopInv
<1> DEFINE Set   == (\A t \in timers : hascb[t])'
           Free  == \A q \in Threads : Unlocked(q)' => batch'[q] \cap Recurring = {}
           Held  == \A q \in Threads : ~Unlocked(q)' => \A t \in batch'[q] : hascb'[t]
           Goal  == Set /\ Free /\ Held
<1>a. ASSUME UNCHANGED <<timers, hascb, batch, owner>>,
             \A q \in Threads : pc'[q] = "loop" <=> pc[q] = "loop"
      PROVE  Goal
  BY <1>a DEF LoopInv, Unlocked
<1>4. ASSUME NEW p \in Threads, Collect(p) PROVE Goal
  <2>1. /\ owner = NoThread /\ owner' = p /\ UNCHANGED hascb
        /\ pc' = [pc EXCEPT ![p] = "loop"]
        /\ batch' = [batch EXCEPT ![p] = Expired(stamp[p])]
        /\ timers' \subseteq timers /\ Expired(stamp[p]) \subseteq timers
    BY <1>4 DEF Collect, Expired, Goto, timerVars
  <2>2. ~Unlocked(p)' /\ \A q \in Threads \ {p} : Unlocked(q)' <=> Unlocked(q)
    BY <1>0, <2>1, NoThreadAssumption DEF TypeOK, Unlocked
  <2> QED  BY <1>0, <2>1, <2>2 DEF LoopInv, TypeOK
<1>5. ASSUME NEW p \in Threads, NEW t \in Timers, Handle(p, t) PROVE Goal
  <2>1. /\ pc[p] = "loop" /\ t \in batch[p] /\ t \notin timers
        /\ batch' = [batch EXCEPT ![p] = @ \ {t}]
        /\ \A q \in Threads \ {p} : t \notin batch[q]
    BY <1>0, <1>5 DEF Handle, At, PlacesInv, Apart, TypeOK
  <2>2. \A q \in Threads : t \notin batch'[q] /\ batch'[q] \subseteq batch[q]
    BY <1>0, <2>1 DEF TypeOK
  <2>3. \A q \in Threads \ {p} : Unlocked(q)' <=> Unlocked(q)
    <3>1. \A q \in Threads \ {p} : pc'[q] = pc[q] /\ (owner' = q <=> owner = q)
      BY <1>0, <1>5, NoThreadAssumption DEF Handle, TypeOK
    <3> QED  BY <3>1 DEF Unlocked
  <2>4. \/ t \in Recurring /\ timers' = timers \cup {t} /\ hascb' = hascb
        \/ t \notin Recurring /\ timers' = timers /\ hascb' = [hascb EXCEPT ![t] = FALSE]
    BY <1>5 DEF Handle
  <2>5. t \in Recurring => ~Unlocked(p) /\ hascb[t]
    BY <2>1 DEF LoopInv
  <2>6. Set
    BY <1>0, <2>1, <2>4, <2>5 DEF LoopInv, TypeOK
  <2>7. ~Unlocked(p)' => ~Unlocked(p) \/ batch'[p] = {}
    <3>1. CASE batch[p] = {t}
      BY <1>0, <2>1, <3>1 DEF TypeOK
    <3>2. CASE batch[p] # {t} /\ Unlocked(p)
      BY <1>0, <1>5, <3>2 DEF Handle, TypeOK, Unlocked
    <3> QED  BY <3>1, <3>2
  <2>8. Unlocked(p)' => Unlocked(p) \/ t \in Recurring
    BY <1>0, <1>5, <2>1, NoThreadAssumption DEF Handle, TypeOK, Unlocked
  <2>9. Free
    BY <2>2, <2>3, <2>8 DEF LoopInv, OneRecurring
  <2>10. Held
    <3>1. \A q \in Threads : \A u \in batch'[q] : u \in Timers /\ (hascb'[u] <=> hascb[u])
      BY <1>0, <2>2, <2>4 DEF TypeOK
    <3> QED  BY <2>2, <2>3, <2>7, <3>1 DEF LoopInv
  <2> QED  BY <2>6, <2>9, <2>10
<1>6. ASSUME NEW p \in Threads, Insert(p) PROVE Goal
  <2>1. /\ pc[p] = "insert" /\ timers' = timers \cup batch[p] /\ UNCHANGED <<hascb, owner>>
        /\ batch' = [batch EXCEPT ![p] = {}] /\ pc' = [pc EXCEPT ![p] = "idle"]
    BY <1>6 DEF Insert, At, Goto, timerVars
  <2>2. \A q \in Threads \ {p} : Unlocked(q)' <=> Unlocked(q)
    BY <1>0, <2>1 DEF TypeOK, Unlocked
  <2>3. ~Unlocked(p)
    BY <2>1 DEF Unlocked
  <2> QED  BY <1>0, <2>1, <2>2, <2>3 DEF LoopInv, TypeOK
<1>7. ASSUME NEW p \in Threads, NEW t \in Timers, Cancel(p, t) PROVE Goal
  <2>1. /\ owner = NoThread /\ timers' = timers \ {t} /\ UNCHANGED <<batch, pc, owner>>
        /\ hascb' = [hascb EXCEPT ![t] = FALSE] /\ Known(t)
    BY <1>7 DEF Cancel, threadVars
  <2>2. \A q \in Threads : t \in batch[q] => Unlocked(q)
    BY <1>0, <2>1, NoThreadAssumption DEF Known, TypeOK, Unlocked
  <2>3. \A q \in Threads : Unlocked(q)' <=> Unlocked(q)
    BY <2>1 DEF Unlocked
  <2> QED  BY <1>0, <2>1, <2>2, <2>3 DEF LoopInv, TypeOK
<1>9. ASSUME NEW p \in Threads, NEW t \in Timers, NEW d \in Delays, Construct(p, t, d)
      PROVE  Goal
  <2>1. /\ pc[p] = "idle" /\ t \notin created /\ UNCHANGED <<timers, owner>>
        /\ hascb' = [hascb EXCEPT ![t] = TRUE] /\ batch' = [batch EXCEPT ![p] = {t}]
        /\ pc' = [pc EXCEPT ![p] = "insert"]
    BY <1>9 DEF Construct, At, Goto
  <2>2. ~Unlocked(p)' /\ \A q \in Threads \ {p} : Unlocked(q)' <=> Unlocked(q)
    BY <1>0, <2>1 DEF TypeOK, Unlocked
  <2> QED  BY <1>0, <2>1, <2>2 DEF LoopInv, TypeOK
<1> HIDE DEF Goal
<1>20. ASSUME NEW p \in Threads, Poll(p) \/ Insert(p) PROVE Goal
  <2>1. CASE Wait(p) \/ ReadClock(p) \/ CollectNone(p)
    BY <1>0, <1>a, <2>1 DEF Wait, ReadClock, CollectNone, At, Goto, timerVars, TypeOK
  <2> QED  BY <1>20, <1>4, <1>5, <1>6, <2>1 DEF Poll
<1>21. ASSUME NEW p \in Threads, NEW t \in Timers, Operate(p, t) PROVE Goal
  <2>1. ASSUME NEW d \in Delays, NEW f \in BOOLEAN, Reset(p, t, d, f) PROVE Goal
    BY <1>a, <2>1 DEF Reset, threadVars
  <2>2. CASE Refresh(p, t)
    BY <1>a, <2>2 DEF Refresh, threadVars
  <2> QED  BY <1>21, <1>7, <1>9, <2>1, <2>2 DEF Operate
<1>22. ASSUME NEW p \in Threads, NEW t \in Timers, Call(p, t) PROVE Goal
  BY <1>22, <1>a DEF Call, timerVars, threadVars
<1>23. ASSUME Tick \/ UNCHANGED vars PROVE Goal
  BY <1>23, <1>a DEF Tick, vars, timerVars, threadVars
<1>24. Goal
  BY <1>20, <1>21, <1>22, <1>23 DEF Next
<1> QED  BY <1>0, <1>24 DEF Goal, LoopInv

(* With a single recurring timer no cancelled timer stays in the set,      *)
(* whatever any number of threads do while a worker's loop has no lock:    *)
(* it takes two recurring timers, and two threads, to leave one there.     *)
THEOREM OneRecurringCancels == OneRecurring /\ Spec => []NoneLeft
<1>1. Init => LoopInv
  BY TypeInit DEF Init, LoopInv
<1>2. LoopInv => NoneLeft
  BY DEF LoopInv, NoneLeft
<1> SUFFICES ASSUME OneRecurring PROVE Spec => []NoneLeft
  OBVIOUS
<1> QED  BY PlacesInit, PlacesStep, <1>1, <1>2, LoopStep, PTL DEF Spec
=============================================================================
