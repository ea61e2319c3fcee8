--------------------------- MODULE SchedulerProofs ---------------------------
(***************************************************************************)
(* Proofs about Scheduler for any number of workers and jobs.              *)
(***************************************************************************)
EXTENDS Scheduler, TLAPS, FiniteSetTheorems, SequenceTheorems

(* Removing one element of a sequence shortens it and shifts what follows. *)
LEMMA RemoveAtFacts ==
  ASSUME NEW S, NEW s \in Seq(S), NEW i \in 1 .. Len(s)
  PROVE  /\ RemoveAt(s, i) \in Seq(S)
         /\ Len(RemoveAt(s, i)) = Len(s) - 1
         /\ \A k \in 1 .. Len(s) - 1 :
              RemoveAt(s, i)[k] = IF k < i THEN s[k] ELSE s[k + 1]
<1>0. i \in Nat /\ Len(s) \in Nat /\ 1 <= i /\ i <= Len(s)
      /\ \A k \in 1 .. Len(s) : s[k] \in S
  BY LenProperties, ElementOfSeq
<1> DEFINE a == SubSeq(s, 1, i - 1)
           b == SubSeq(s, i + 1, Len(s))
<1>1. /\ a \in Seq(S) /\ Len(a) = i - 1
      /\ \A k \in 1 .. i - 1 : a[k] = s[k]
  <2>1. \A k \in 1 .. i - 1 : s[k] \in S
    BY <1>0
  <2>2. /\ a \in Seq(S)
        /\ Len(a) = IF 1 <= i - 1 THEN (i - 1) - 1 + 1 ELSE 0
        /\ \A k \in 1 .. (i - 1) - 1 + 1 : a[k] = s[1 + k - 1]
    BY <1>0, <2>1, SubSeqProperties
  <2>3. \A k \in 1 .. i - 1 : k \in 1 .. (i - 1) - 1 + 1 /\ 1 + k - 1 = k
    BY <1>0
  <2> HIDE DEF a
  <2> QED BY <1>0, <2>2, <2>3
<1>2. /\ b \in Seq(S) /\ Len(b) = Len(s) - i
      /\ \A k \in 1 .. Len(s) - i : b[k] = s[k + i]
  <2>1. \A k \in i + 1 .. Len(s) : s[k] \in S
    BY <1>0
  <2>2. /\ b \in Seq(S)
        /\ Len(b) = IF i + 1 <= Len(s) THEN Len(s) - (i + 1) + 1 ELSE 0
        /\ \A k \in 1 .. Len(s) - (i + 1) + 1 : b[k] = s[(i + 1) + k - 1]
    BY <1>0, <2>1, SubSeqProperties
  <2>3. \A k \in 1 .. Len(s) - i :
          k \in 1 .. Len(s) - (i + 1) + 1 /\ (i + 1) + k - 1 = k + i
    BY <1>0
  <2> HIDE DEF b
  <2> QED BY <1>0, <2>2, <2>3
<1>3. RemoveAt(s, i) = a \o b
  BY DEF RemoveAt
<1> HIDE DEF a, b
<1>4. /\ a \o b \in Seq(S) /\ Len(a \o b) = Len(s) - 1
      /\ \A k \in 1 .. Len(s) - 1 :
           (a \o b)[k] = IF k <= i - 1 THEN a[k] ELSE b[k - (i - 1)]
  <2>1. /\ a \o b \in Seq(S)
        /\ Len(a \o b) = Len(a) + Len(b)
        /\ \A k \in 1 .. Len(a) + Len(b) :
             (a \o b)[k] = IF k <= Len(a) THEN a[k] ELSE b[k - Len(a)]
    BY <1>1, <1>2, ConcatProperties
  <2>2. Len(a) = i - 1 /\ Len(a) + Len(b) = Len(s) - 1
    BY <1>0, <1>1, <1>2
  <2> QED BY <2>1, <2>2
<1>5. ASSUME NEW k \in 1 .. Len(s) - 1
      PROVE  (a \o b)[k] = IF k < i THEN s[k] ELSE s[k + 1]
  <2>1. CASE k < i
    BY <1>0, <1>1, <1>4, <2>1
  <2>2. CASE ~(k < i)
    <3>1. k - (i - 1) \in 1 .. Len(s) - i /\ (k - (i - 1)) + i = k + 1 /\ ~(k <= i - 1)
      BY <1>0, <2>2
    <3>2. b[k - (i - 1)] = s[k + 1]
      BY <1>2, <3>1
    <3> QED BY <1>4, <2>2, <3>1, <3>2
  <2> QED BY <2>1, <2>2
<1> QED BY <1>3, <1>4, <1>5

-----------------------------------------------------------------------------
USE WorkersAssumption, CoJobsAssumption, NoJobAssumption, AnyThreadAssumption,
    MaxWaitsAssumption, NullLinkAssumption

(* Type correctness, which includes that a worker holds a task exactly     *)
(* inside a slice.                                                         *)
LEMMA NoTaskFact == NoTask \notin Task
BY NoJobAssumption DEF NoTask, Task

LEMMA InitType == Init => TypeOK
<1> SUFFICES ASSUME Init PROVE TypeOK
  OBVIOUS
<1>1. tasks \in Seq(Task)
  BY EmptySeq DEF Init
<1>2. /\ pc \in [Workers -> Labels] /\ cur \in [Workers -> Task \cup {NoTask}]
      /\ idleco \in [Workers -> {"loop", "end"}]
  BY DEF Init, Labels
<1>3. state \in [Jobs -> States] /\ ctx \in [Jobs -> {"saved", "live", "end"}]
  BY DEF Init, States
<1>4. waits \in [Jobs -> 0 .. MaxWaits]
  BY MaxWaitsAssumption DEF Init
<1>5. autostop \in BOOLEAN /\ stopping \in BOOLEAN
  BY DEF Init
<1>6. /\ submitted \subseteq Jobs /\ done \subseteq Jobs /\ armed \subseteq Jobs
      /\ mainpc \in {"run", "stop", "join", "done"}
      /\ fate \in {"running", "exited", "corrupt"}
  BY DEF Init
<1>7. active \in Int /\ idle \in Int /\ pending \in Int
  BY DEF Init
<1>8. \A w \in Workers : cur[w] \in Task <=> pc[w] \in Slice \cup {"settle"}
  BY NoTaskFact DEF Init, Slice
<1> QED BY <1>1, <1>2, <1>3, <1>4, <1>5, <1>6, <1>7, <1>8, Zenon DEF TypeOK

LEMMA NextType == TypeOK /\ [Next]_vars => TypeOK'
<1> SUFFICES ASSUME TypeOK, [Next]_vars PROVE TypeOK'
  OBVIOUS
<1> USE DEF TypeOK, At, Goto, Job, SetState, AddTask,
            Slice, Idling, Labels, States, Threads, Kinds,
            queueVars, countVars, stopVars, coVars
<1>1. ASSUME NEW w \in Workers, Fetch(w) PROVE TypeOK'
  <2>1. PICK i \in DOMAIN tasks : /\ cur' = [cur EXCEPT ![w] = tasks[i]]
                                  /\ tasks' = RemoveAt(tasks, i)
    BY <1>1 DEF Fetch
  <2>2. tasks[i] \in Task /\ tasks' \in Seq(Task)
    BY <2>1, RemoveAtFacts
  <2> QED BY <1>1, <2>1, <2>2 DEF Fetch
<1>2. ASSUME NEW w \in Workers, FetchNothing(w) PROVE TypeOK'
  BY <1>2 DEF FetchNothing
<1>3. ASSUME NEW w \in Workers, Resume(w) PROVE TypeOK'
  BY <1>3 DEF Resume
<1>4. ASSUME NEW w \in Workers, NEW j \in Jobs, Spawn(w, j) PROVE TypeOK'
  BY <1>4 DEF Spawn, Task
<1>5. ASSUME NEW w \in Workers, Arm(w) PROVE TypeOK'
  BY <1>5 DEF Arm, Task
<1>6. ASSUME NEW w \in Workers, Finish(w) PROVE TypeOK'
  BY <1>6 DEF Finish, Task
<1>7. ASSUME NEW w \in Workers, Hold(w) PROVE TypeOK'
  BY <1>7 DEF Hold
<1>8. ASSUME NEW w \in Workers, SwitchOut(w) PROVE TypeOK'
  BY <1>8 DEF SwitchOut
<1>9. ASSUME NEW w \in Workers, AfterResume(w) PROVE TypeOK'
  BY <1>9 DEF AfterResume
<1>10. ASSUME NEW w \in Workers, Settle(w) PROVE TypeOK'
  BY <1>10, NoTaskFact DEF Settle
<1>11. ASSUME NEW w \in Workers, IdleEnter(w) PROVE TypeOK'
  BY <1>11 DEF IdleEnter
<1>12. ASSUME NEW w \in Workers, LeaveRun(w) PROVE TypeOK'
  BY <1>12 DEF LeaveRun
<1>13. ASSUME NEW w \in Workers, CheckQueue(w) PROVE TypeOK'
  BY <1>13 DEF CheckQueue
<1>14. ASSUME NEW w \in Workers, CheckPending(w) PROVE TypeOK'
  <2>1. /\ pc' \in [Workers -> Labels] /\ idleco' \in [Workers -> {"loop", "end"}]
        /\ UNCHANGED <<queueVars, countVars, stopVars, coVars, cur, fate>>
    BY <1>14 DEF CheckPending
  <2>2. \A v \in Workers : cur'[v] \in Task <=> pc'[v] \in Slice \cup {"settle"}
    BY <1>14, <2>1 DEF CheckPending
  <2> HIDE DEF At, Goto, Slice, Idling, Labels, States, Threads, Kinds
  <2> QED BY <2>1, <2>2
<1>15. ASSUME NEW w \in Workers, NEW j \in Jobs, Trigger(w, j) PROVE TypeOK'
  BY <1>15 DEF Trigger, Task
<1>16. ASSUME NEW w \in Workers, Uncount(w) PROVE TypeOK'
  BY <1>16 DEF Uncount
<1>17. ASSUME NEW w \in Workers, PollDone(w) PROVE TypeOK'
  BY <1>17 DEF PollDone
<1>18. ASSUME NEW w \in Workers, IdleLeave(w) PROVE TypeOK'
  BY <1>18 DEF IdleLeave
<1>19. ASSUME NEW j \in Jobs, NEW t \in Threads, Submit(j, t) PROVE TypeOK'
  BY <1>19 DEF Submit, Main, Task
<1>20. CASE StopBegin
  BY <1>20 DEF StopBegin, Main
<1>21. CASE StopFlag
  BY <1>21 DEF StopFlag, Main
<1>22. CASE Join
  BY <1>22 DEF Join, Main
<1>23. CASE UNCHANGED vars
  BY <1>23 DEF vars
<1> QED
  BY <1>1, <1>2, <1>3, <1>4, <1>5, <1>6, <1>7, <1>8, <1>9, <1>10, <1>11, <1>12,
     <1>13, <1>14, <1>15, <1>16, <1>17, <1>18, <1>19, <1>20, <1>21, <1>22, <1>23
     DEF Next, Worker, Scheduling, Body, Switch, Idle, Owner

(* Every variable keeps its type, whatever the workers and jobs are.       *)
THEOREM TypeCorrect == Spec => []TypeOK
BY InitType, NextType, PTL DEF Spec

-----------------------------------------------------------------------------
(* How the number of workers at some labels changes when one of them moves. *)
CountAt(f, L) == Cardinality({w \in Workers : f[w] \in L})

LEMMA MoveCount ==
  ASSUME NEW L, NEW w \in Workers, \A v \in Workers \ {w} : pc'[v] = pc[v]
  PROVE  /\ CountAt(pc, L) \in Nat
         /\ (pc[w] \in L <=> pc'[w] \in L) => CountAt(pc', L) = CountAt(pc, L)
         /\ (pc[w] \notin L /\ pc'[w] \in L) => CountAt(pc', L) = CountAt(pc, L) + 1
         /\ (pc[w] \in L /\ pc'[w] \notin L) => CountAt(pc', L) = CountAt(pc, L) - 1
<1> DEFINE A == {v \in Workers : pc[v] \in L}
           B == {v \in Workers : pc'[v] \in L}
<1>1. IsFiniteSet(A) /\ IsFiniteSet(B)
  BY WorkersAssumption, FS_Subset
<1>2. CountAt(pc, L) = Cardinality(A) /\ CountAt(pc', L) = Cardinality(B)
  BY DEF CountAt
<1>3. Cardinality(A) \in Nat /\ Cardinality(B) \in Nat
  BY <1>1, FS_CardinalityType
<1>4. (pc[w] \in L <=> pc'[w] \in L) => A = B
  OBVIOUS
<1>5. (pc[w] \notin L /\ pc'[w] \in L) => B = A \cup {w} /\ w \notin A
  OBVIOUS
<1>6. (pc[w] \in L /\ pc'[w] \notin L) => B = A \ {w} /\ w \in A
  OBVIOUS
<1> HIDE DEF A, B
<1>7. (pc[w] \notin L /\ pc'[w] \in L) => Cardinality(B) = Cardinality(A) + 1
  BY <1>1, <1>5, FS_AddElement
<1>8. (pc[w] \in L /\ pc'[w] \notin L) => Cardinality(B) = Cardinality(A) - 1
  BY <1>1, <1>6, FS_RemoveElement
<1> QED BY <1>2, <1>3, <1>4, <1>7, <1>8

(* The activity counter.  Only Fetch and AfterResume move a worker into or  *)
(* out of the slice, and they change the counter with it.                   *)
LEMMA InitActive == Init => ActiveCount
<1> SUFFICES ASSUME Init PROVE ActiveCount
  OBVIOUS
<1>1. {w \in Workers : pc[w] \in Slice} = {}
  BY DEF Init, Slice
<1> QED BY <1>1, FS_EmptySet DEF Init, ActiveCount

LEMMA NextActive == TypeOK /\ ActiveCount /\ [Next]_vars => ActiveCount'
<1> SUFFICES ASSUME TypeOK, ActiveCount, [Next]_vars PROVE ActiveCount'
  OBVIOUS
<1>0. /\ pc \in [Workers -> Labels] /\ active \in Int
      /\ active = CountAt(pc, Slice)
  BY DEF TypeOK, ActiveCount, CountAt
<1>1. SUFFICES active' = CountAt(pc', Slice)
  BY DEF ActiveCount, CountAt
<1>2. ASSUME NEW w \in Workers, NEW l \in Labels, pc' = [pc EXCEPT ![w] = l],
             \/ active' = active /\ (pc[w] \in Slice <=> l \in Slice)
             \/ active' = active + 1 /\ pc[w] \notin Slice /\ l \in Slice
             \/ active' = active - 1 /\ pc[w] \in Slice /\ l \notin Slice
      PROVE  active' = CountAt(pc', Slice)
  <2>1. /\ pc'[w] = l
        /\ \A v \in Workers \ {w} : pc'[v] = pc[v]
    BY <1>0, <1>2
  <2>2. /\ CountAt(pc, Slice) \in Nat
        /\ (pc[w] \in Slice <=> pc'[w] \in Slice) => CountAt(pc', Slice) = CountAt(pc, Slice)
        /\ (pc[w] \notin Slice /\ pc'[w] \in Slice) => CountAt(pc', Slice) = CountAt(pc, Slice) + 1
        /\ (pc[w] \in Slice /\ pc'[w] \notin Slice) => CountAt(pc', Slice) = CountAt(pc, Slice) - 1
    BY <2>1, MoveCount
  <2> QED BY <1>0, <1>2, <2>1, <2>2
<1> USE DEF At, Goto, Slice, Labels, Idling
<1>3. ASSUME NEW w \in Workers, Scheduling(w) PROVE active' = CountAt(pc', Slice)
  <2>1. CASE Fetch(w)
    BY <1>2, <2>1 DEF Fetch
  <2>2. CASE FetchNothing(w)
    BY <1>2, <2>2 DEF FetchNothing, countVars
  <2>3. CASE Resume(w)
    BY <1>2, <2>3 DEF Resume, countVars
  <2>4. CASE AfterResume(w)
    BY <1>2, <2>4 DEF AfterResume
  <2>5. CASE Settle(w)
    BY <1>2, <2>5 DEF Settle, countVars
  <2> QED BY <1>3, <2>1, <2>2, <2>3, <2>4, <2>5 DEF Scheduling
<1>4. ASSUME NEW w \in Workers, Body(w) PROVE active' = CountAt(pc', Slice)
  <2>1. ASSUME NEW j \in Jobs, Spawn(w, j) PROVE active' = CountAt(pc', Slice)
    BY <1>0, <2>1 DEF Spawn, countVars
  <2>2. CASE Arm(w)
    BY <1>2, <2>2 DEF Arm
  <2>3. CASE Finish(w)
    BY <1>2, <2>3 DEF Finish, countVars
  <2> QED BY <1>4, <2>1, <2>2, <2>3 DEF Body
<1>5. ASSUME NEW w \in Workers, Switch(w) PROVE active' = CountAt(pc', Slice)
  <2>1. CASE Hold(w)
    BY <1>2, <2>1 DEF Hold, countVars
  <2>2. CASE SwitchOut(w)
    BY <1>2, <2>2 DEF SwitchOut, countVars
  <2> QED BY <1>5, <2>1, <2>2 DEF Switch
<1>6. ASSUME NEW w \in Workers, Idle(w) PROVE active' = CountAt(pc', Slice)
  <2>1. CASE IdleEnter(w)
    BY <1>2, <2>1 DEF IdleEnter
  <2>2. CASE LeaveRun(w)
    BY <1>2, <2>2 DEF LeaveRun
  <2>3. CASE CheckQueue(w)
    BY <1>2, <2>3 DEF CheckQueue, countVars
  <2>4. CASE CheckPending(w)
    BY <1>2, <2>4 DEF CheckPending, countVars
  <2>5. ASSUME NEW j \in Jobs, Trigger(w, j) PROVE active' = CountAt(pc', Slice)
    BY <1>2, <2>5 DEF Trigger, countVars
  <2>6. CASE Uncount(w)
    BY <1>2, <2>6 DEF Uncount
  <2>7. CASE PollDone(w)
    BY <1>2, <2>7 DEF PollDone, countVars
  <2>8. CASE IdleLeave(w)
    BY <1>2, <2>8 DEF IdleLeave
  <2> QED BY <1>6, <2>1, <2>2, <2>3, <2>4, <2>5, <2>6, <2>7, <2>8 DEF Idle
<1>7. CASE Owner
  BY <1>0, <1>7 DEF Owner, Submit, StopBegin, StopFlag, Join, countVars
<1>8. CASE UNCHANGED vars
  BY <1>0, <1>8 DEF vars, countVars
<1> QED BY <1>3, <1>4, <1>5, <1>6, <1>7, <1>8 DEF Next, Worker

(* The counter stopping() reads is the number of workers inside a slice.    *)
THEOREM ActiveCountCorrect == Spec => []ActiveCount
BY InitType, NextType, InitActive, NextActive, PTL DEF Spec

-----------------------------------------------------------------------------
(* Where the jobs are.  Three lemmas say how a step changes the queue, three *)
(* how it changes the set of jobs held by workers.                           *)
LEMMA QueueAppend ==
  ASSUME TypeOK, QueuedOnce, NEW t \in Task, t.job \notin Queued,
         tasks' = Append(tasks, t)
  PROVE  QueuedOnce' /\ Queued' = Queued \cup {t.job}
<1>1. /\ tasks \in Seq(Task) /\ Len(tasks) \in Nat
      /\ DOMAIN tasks = 1 .. Len(tasks)
      /\ DOMAIN tasks' = 1 .. Len(tasks) + 1
      /\ \A k \in 1 .. Len(tasks) : tasks'[k] = tasks[k]
      /\ tasks'[Len(tasks) + 1] = t
  BY DEF TypeOK
<1>2. QueuedOnce'
  BY <1>1 DEF QueuedOnce, Queued
<1>3. Queued' = Queued \cup {t.job}
  BY <1>1 DEF Queued
<1> QED BY <1>2, <1>3

LEMMA QueueRemove ==
  ASSUME TypeOK, QueuedOnce, NEW i \in DOMAIN tasks, tasks' = RemoveAt(tasks, i)
  PROVE  QueuedOnce' /\ Queued' = Queued \ {tasks[i].job} /\ tasks[i].job \in Queued
<1>1. /\ tasks \in Seq(Task) /\ Len(tasks) \in Nat
      /\ DOMAIN tasks = 1 .. Len(tasks) /\ i \in 1 .. Len(tasks)
  BY DEF TypeOK
<1>2. /\ DOMAIN tasks' = 1 .. Len(tasks) - 1
      /\ \A k \in 1 .. Len(tasks) - 1 :
           tasks'[k] = IF k < i THEN tasks[k] ELSE tasks[k + 1]
  <2>1. /\ tasks' \in Seq(Task) /\ Len(tasks') = Len(tasks) - 1
        /\ \A k \in 1 .. Len(tasks) - 1 :
             tasks'[k] = IF k < i THEN tasks[k] ELSE tasks[k + 1]
    <3> DEFINE s == tasks
               r == RemoveAt(s, i)
    <3>1. s \in Seq(Task) /\ i \in 1 .. Len(s)
      BY <1>1
    <3> HIDE DEF s, r
    <3>2. /\ RemoveAt(s, i) \in Seq(Task) /\ Len(RemoveAt(s, i)) = Len(s) - 1
          /\ \A k \in 1 .. Len(s) - 1 :
               RemoveAt(s, i)[k] = IF k < i THEN s[k] ELSE s[k + 1]
      BY <3>1, RemoveAtFacts
    <3> QED BY <3>2 DEF s
  <2> QED BY <1>1, <2>1
<1>3. QueuedOnce'
  BY <1>1, <1>2 DEF QueuedOnce
<1>4. ASSUME NEW j \in Queued', j \notin Queued \ {tasks[i].job} PROVE FALSE
  BY <1>1, <1>2, <1>4 DEF Queued, QueuedOnce
<1>5. ASSUME NEW j \in Queued \ {tasks[i].job} PROVE j \in Queued'
  <2>1. PICK k \in 1 .. Len(tasks) : tasks[k].job = j /\ k # i
    BY <1>1, <1>5 DEF Queued
  <2>2. CASE k < i
    <3>1. k \in 1 .. Len(tasks) - 1 /\ tasks'[k] = tasks[k]
      BY <1>1, <1>2, <2>1, <2>2
    <3> QED BY <1>2, <2>1, <3>1 DEF Queued
  <2>3. CASE k > i
    <3>1. k - 1 \in 1 .. Len(tasks) - 1 /\ tasks'[k - 1] = tasks[k]
      BY <1>1, <1>2, <2>1, <2>3
    <3> QED BY <1>2, <2>1, <3>1 DEF Queued
  <2> QED BY <1>1, <2>1, <2>2, <2>3
<1>6. tasks[i].job \in Queued
  BY DEF Queued
<1> QED BY <1>3, <1>4, <1>5, <1>6

HoldsAt == {"resume", "body"}

LEMMA HeldSame ==
  ASSUME HeldOnce,
         \A w \in Workers : /\ pc'[w] \in HoldsAt <=> pc[w] \in HoldsAt
                            /\ pc[w] \in HoldsAt => cur'[w] = cur[w]
  PROVE  HeldOnce' /\ Held' = Held
BY DEF HeldOnce, Held, Holds, Job, HoldsAt

LEMMA HeldEnter ==
  ASSUME HeldOnce, NEW w \in Workers, NEW j \in Jobs \ Held,
         pc[w] \notin HoldsAt, pc'[w] \in HoldsAt, cur'[w].job = j,
         \A v \in Workers \ {w} : pc'[v] = pc[v] /\ cur'[v] = cur[v]
  PROVE  HeldOnce' /\ Held' = Held \cup {j}
BY DEF HeldOnce, Held, Holds, Job, HoldsAt

LEMMA HeldLeave ==
  ASSUME HeldOnce, NEW w \in Workers, Job(w) \in Jobs,
         pc[w] \in HoldsAt, pc'[w] \notin HoldsAt,
         \A v \in Workers \ {w} : pc'[v] = pc[v] /\ cur'[v] = cur[v]
  PROVE  HeldOnce' /\ Held' = Held \ {Job(w)} /\ Job(w) \in Held
BY DEF HeldOnce, Held, Holds, Job, HoldsAt

LEMMA InitPlace == Init => OnePlace
<1> SUFFICES ASSUME Init PROVE OnePlace
  OBVIOUS
<1>1. Queued = {} /\ QueuedOnce
  BY DEF Init, Queued, QueuedOnce
<1>2. Held = {} /\ HeldOnce
  BY DEF Init, Held, HeldOnce, Holds
<1> QED BY <1>1, <1>2 DEF Init, OnePlace

(* What a step does to the places, as a change of one job at most.          *)
Step ==
  /\ QueuedOnce' /\ HeldOnce'
  /\ \/ UNCHANGED <<submitted, Queued, armed, Held, done>>
     \/ \E j \in Jobs \ submitted :
          /\ submitted' = submitted \cup {j} /\ Queued' = Queued \cup {j}
          /\ UNCHANGED <<armed, Held, done>>
     \/ \E j \in Queued :
          /\ Queued' = Queued \ {j} /\ Held' = Held \cup {j}
          /\ UNCHANGED <<submitted, armed, done>>
     \/ \E j \in Held :
          /\ Held' = Held \ {j} /\ armed' = armed \cup {j}
          /\ UNCHANGED <<submitted, Queued, done>>
     \/ \E j \in armed :
          /\ armed' = armed \ {j} /\ Queued' = Queued \cup {j}
          /\ UNCHANGED <<submitted, Held, done>>
     \/ \E j \in Held :
          /\ Held' = Held \ {j} /\ done' = done \cup {j}
          /\ UNCHANGED <<submitted, Queued, armed>>

LEMMA StepPlaces == TypeOK /\ OnePlace /\ [Next]_vars => Step
<1> SUFFICES ASSUME TypeOK, OnePlace, [Next]_vars PROVE Step
  OBVIOUS
<1>0. /\ pc \in [Workers -> Labels] /\ cur \in [Workers -> Task \cup {NoTask}]
      /\ \A w \in Workers : pc[w] \in Slice => Job(w) \in Jobs
      /\ QueuedOnce /\ HeldOnce
  BY DEF TypeOK, OnePlace, Task, Job
<1>1. ASSUME UNCHANGED <<queueVars, armed, done>>,
             \A w \in Workers : /\ pc'[w] \in HoldsAt <=> pc[w] \in HoldsAt
                                /\ pc[w] \in HoldsAt => cur'[w] = cur[w]
      PROVE  Step
  <2>1. HeldOnce' /\ Held' = Held
    BY <1>0, <1>1, HeldSame
  <2>2. QueuedOnce' /\ Queued' = Queued
    BY <1>0, <1>1 DEF QueuedOnce, Queued, queueVars
  <2> QED BY <1>1, <2>1, <2>2 DEF Step, queueVars
<1>2. ASSUME NEW j \in Jobs \ submitted, NEW t \in Threads, NEW k \in Kinds,
             submitted' = submitted \cup {j}, AddTask(j, t, k),
             UNCHANGED <<pc, cur, armed, done>>
      PROVE  Step
  <2>1. j \notin Queued /\ j \notin Held /\ j \notin armed /\ j \notin done
    BY DEF OnePlace
  <2>2. QueuedOnce' /\ Queued' = Queued \cup {j}
    BY <1>0, <1>2, <2>1, QueueAppend DEF AddTask, Task
  <2>3. HeldOnce' /\ Held' = Held
    BY <1>0, <1>2, HeldSame
  <2> QED BY <1>2, <2>2, <2>3 DEF Step
<1> USE DEF At, Goto
<1>3. ASSUME NEW w \in Workers, Scheduling(w) PROVE Step
  <2>1. CASE Fetch(w)
    <3>1. PICK i \in DOMAIN tasks : /\ cur' = [cur EXCEPT ![w] = tasks[i]]
                                    /\ tasks' = RemoveAt(tasks, i)
      BY <2>1 DEF Fetch
    <3> DEFINE j == tasks[i].job
    <3>2. QueuedOnce' /\ Queued' = Queued \ {j} /\ j \in Queued
      BY <1>0, <3>1, QueueRemove
    <3>3. j \in Jobs /\ j \notin Held
      <4>1. tasks[i] \in Task
        BY DEF TypeOK
      <4> QED BY <3>2, <4>1 DEF OnePlace, Task
    <3>4. /\ pc[w] \notin HoldsAt /\ pc'[w] \in HoldsAt /\ cur'[w].job = j
          /\ \A v \in Workers \ {w} : pc'[v] = pc[v] /\ cur'[v] = cur[v]
      BY <1>0, <2>1, <3>1 DEF Fetch, HoldsAt
    <3>5. HeldOnce' /\ Held' = Held \cup {j}
      BY <1>0, <3>3, <3>4, HeldEnter
    <3>6. UNCHANGED <<submitted, armed, done>>
      BY <2>1 DEF Fetch, coVars
    <3> HIDE DEF j
    <3> QED BY <3>2, <3>5, <3>6 DEF Step
  <2>2. CASE FetchNothing(w)
    BY <1>0, <1>1, <2>2 DEF FetchNothing, HoldsAt, coVars
  <2>3. CASE Resume(w)
    BY <1>0, <1>1, <2>3 DEF Resume, HoldsAt
  <2>4. CASE AfterResume(w)
    BY <1>0, <1>1, <2>4 DEF AfterResume, HoldsAt, coVars
  <2>5. CASE Settle(w)
    BY <1>0, <1>1, <2>5 DEF Settle, HoldsAt
  <2> QED BY <1>3, <2>1, <2>2, <2>3, <2>4, <2>5 DEF Scheduling
<1>4. ASSUME NEW w \in Workers, Body(w) PROVE Step
  <2> DEFINE j == Job(w)
  <2>1. ASSUME NEW k \in Jobs, Spawn(w, k) PROVE Step
    BY <1>2, <2>1 DEF Spawn, coVars, Threads, Kinds
  <2>2. ASSUME pc[w] = "body", pc'[w] = "yield", UNCHANGED <<queueVars, cur>>,
               \A v \in Workers \ {w} : pc'[v] = pc[v],
               \/ armed' = armed \cup {j} /\ done' = done
               \/ done' = done \cup {j} /\ armed' = armed
        PROVE  Step
    <3>1. Job(w) \in Jobs
      BY <1>0, <2>2 DEF Slice
    <3>2. HeldOnce' /\ Held' = Held \ {j} /\ j \in Held
      BY <1>0, <2>2, <3>1, HeldLeave DEF HoldsAt
    <3>3. QueuedOnce' /\ Queued' = Queued
      BY <1>0, <2>2 DEF QueuedOnce, Queued, queueVars
    <3> HIDE DEF j
    <3> QED BY <2>2, <3>2, <3>3 DEF Step, queueVars
  <2>3. CASE Arm(w)
    BY <1>0, <2>2, <2>3 DEF Arm
  <2>4. CASE Finish(w)
    BY <1>0, <2>2, <2>4 DEF Finish
  <2> QED BY <1>4, <2>1, <2>3, <2>4 DEF Body
<1>5. ASSUME NEW w \in Workers, Switch(w) PROVE Step
  BY <1>0, <1>1, <1>5 DEF Switch, Hold, SwitchOut, HoldsAt
<1>6. ASSUME NEW w \in Workers, Idle(w) PROVE Step
  <2>1. ASSUME NEW j \in Jobs, Trigger(w, j) PROVE Step
    <3>1. j \in armed /\ j \notin Queued /\ j \notin Held /\ j \notin done
      BY <2>1 DEF Trigger, OnePlace
    <3>2. QueuedOnce' /\ Queued' = Queued \cup {j}
      BY <1>0, <2>1, <3>1, QueueAppend DEF Trigger, AddTask, Task, Threads, Kinds
    <3>3. HeldOnce' /\ Held' = Held
      BY <1>0, <2>1, HeldSame DEF Trigger, HoldsAt
    <3> QED BY <2>1, <3>1, <3>2, <3>3 DEF Step, Trigger
  <2>2. CASE IdleEnter(w) \/ LeaveRun(w) \/ CheckQueue(w) \/ CheckPending(w)
    BY <1>0, <1>1, <2>2 DEF IdleEnter, LeaveRun, CheckQueue, CheckPending, HoldsAt, coVars
  <2>3. CASE Uncount(w) \/ PollDone(w) \/ IdleLeave(w)
    BY <1>0, <1>1, <2>3 DEF Uncount, PollDone, IdleLeave, HoldsAt, coVars
  <2> QED BY <1>6, <2>1, <2>2, <2>3 DEF Idle
<1>7. CASE Owner
  <2>1. ASSUME NEW j \in Jobs, NEW t \in Threads, Submit(j, t) PROVE Step
    BY <1>2, <2>1 DEF Submit, coVars, Kinds
  <2>2. CASE StopBegin \/ StopFlag \/ Join
    BY <1>1, <2>2 DEF StopBegin, StopFlag, Join, coVars
  <2> QED BY <1>7, <2>1, <2>2 DEF Owner
<1>8. CASE UNCHANGED vars
  BY <1>1, <1>8 DEF vars, coVars
<1> QED BY <1>3, <1>4, <1>5, <1>6, <1>7, <1>8 DEF Next, Worker

LEMMA NextPlace == TypeOK /\ OnePlace /\ [Next]_vars => OnePlace'
<1> SUFFICES ASSUME OnePlace, Step PROVE OnePlace'
  BY StepPlaces
<1>1. Queued \subseteq submitted /\ armed \subseteq submitted
      /\ Held \subseteq submitted /\ done \subseteq submitted
  BY DEF OnePlace
<1> QED BY <1>1 DEF Step, OnePlace

(* No coroutine is lost or scheduled twice, however the steps of workers,   *)
(* jobs and the owner interleave.                                           *)
THEOREM OnePlaceCorrect == Spec => []OnePlace
BY InitType, NextType, InitPlace, NextPlace, PTL DEF Spec

-----------------------------------------------------------------------------
(* The refinement of CoroutinePool.                                         *)
LEMMA InitRefines == Init => Pool!Init
<1> SUFFICES ASSUME Init PROVE Place = [j \in Jobs |-> "new"]
  BY DEF Pool!Init
<1>1. Queued = {} /\ Held = {} /\ armed = {} /\ done = {}
  BY DEF Init, Queued, Held
<1> QED BY <1>1 DEF Place

LEMMA NextRefines == TypeOK /\ OnePlace /\ [Next]_vars => [Pool!Next]_Place
<1> SUFFICES ASSUME TypeOK, OnePlace, Step PROVE Pool!Next \/ Place' = Place
  BY StepPlaces
<1>1. /\ submitted = Queued \cup armed \cup Held \cup done /\ submitted \subseteq Jobs
      /\ Queued \cap armed = {} /\ Queued \cap Held = {} /\ Queued \cap done = {}
      /\ armed \cap Held = {} /\ armed \cap done = {} /\ Held \cap done = {}
  BY DEF OnePlace, TypeOK
<1>2. CASE UNCHANGED <<submitted, Queued, armed, Held, done>>
  BY <1>2 DEF Place
<1>3. ASSUME NEW j \in Jobs \ submitted, submitted' = submitted \cup {j},
             Queued' = Queued \cup {j}, UNCHANGED <<armed, Held, done>>
      PROVE  Pool!Submit(j)
  BY <1>1, <1>3 DEF Place, Pool!Submit, Pool!Move
<1>4. ASSUME NEW j \in Queued, Queued' = Queued \ {j}, Held' = Held \cup {j},
             UNCHANGED <<submitted, armed, done>>
      PROVE  Pool!Start(j)
  BY <1>1, <1>4 DEF Place, Pool!Start, Pool!Move
<1>5. ASSUME NEW j \in Held, Held' = Held \ {j}, armed' = armed \cup {j},
             UNCHANGED <<submitted, Queued, done>>
      PROVE  Pool!Wait(j)
  BY <1>1, <1>5 DEF Place, Pool!Wait, Pool!Move
<1>6. ASSUME NEW j \in armed, armed' = armed \ {j}, Queued' = Queued \cup {j},
             UNCHANGED <<submitted, Held, done>>
      PROVE  Pool!Wake(j)
  BY <1>1, <1>6 DEF Place, Pool!Wake, Pool!Move
<1>7. ASSUME NEW j \in Held, Held' = Held \ {j}, done' = done \cup {j},
             UNCHANGED <<submitted, Queued, armed>>
      PROVE  Pool!Finish(j)
  BY <1>1, <1>7 DEF Place, Pool!Finish, Pool!Move
<1> QED BY <1>1, <1>2, <1>3, <1>4, <1>5, <1>6, <1>7 DEF Step, Pool!Next

(* The scheduler implements CoroutinePool for any workers and jobs.         *)
THEOREM Refinement == Spec => PoolSpec
<1>1. Spec => [](TypeOK /\ OnePlace)
  BY InitType, NextType, InitPlace, NextPlace, PTL DEF Spec
<1> QED BY <1>1, InitRefines, NextRefines, PTL DEF Spec, PoolSpec, Pool!Spec
=============================================================================
