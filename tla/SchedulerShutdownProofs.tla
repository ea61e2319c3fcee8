----------------------- MODULE SchedulerShutdownProofs -----------------------
(***************************************************************************)
(* Proofs about the shutdown of Scheduler: what the decision of the last   *)
(* worker to leave its idle loop guarantees, and that a scheduler with one *)
(* worker never resumes a context that is not saved.                       *)
(***************************************************************************)
EXTENDS SchedulerProofs

(* The registered events and the triggers that are not counted down yet    *)
(* add up to m_pendingEventCount.                                          *)
PendingInv == IsFiniteSet(armed) /\ PendingCount

LEMMA InitPending == Init => PendingInv
<1> SUFFICES ASSUME Init PROVE PendingInv
  OBVIOUS
<1>1. Ran("count") = {}
  BY DEF Init, Ran
<1>2. armed = {} /\ pending = 0
  BY DEF Init
<1>3. Cardinality({}) = 0 /\ IsFiniteSet({})
  BY FS_EmptySet
<1> QED BY <1>1, <1>2, <1>3 DEF PendingInv, PendingCount

LEMMA NextPending == TypeOK /\ OnePlace /\ PendingInv /\ [Next]_vars => PendingInv'
<1> SUFFICES ASSUME TypeOK, OnePlace, PendingInv, [Next]_vars PROVE PendingInv'
  OBVIOUS
<1> DEFINE C == {"count"}
<1>0. /\ pc \in [Workers -> Labels] /\ pending \in Int
      /\ IsFiniteSet(armed) /\ Cardinality(armed) \in Nat
      /\ pending = Cardinality(armed) + CountAt(pc, C)
      /\ CountAt(pc, C) \in Int
  <2>1. Ran("count") = {w \in Workers : pc[w] \in C}
    BY DEF Ran
  <2>2. IsFiniteSet({w \in Workers : pc[w] \in C})
    BY WorkersAssumption, FS_Subset
  <2>3. CountAt(pc, C) \in Nat /\ Cardinality(armed) \in Nat
    BY <2>2, FS_CardinalityType DEF CountAt, PendingInv
  <2>4. pending = Cardinality(armed) + CountAt(pc, C)
    BY <2>1 DEF PendingInv, PendingCount, CountAt
  <2> QED BY <2>3, <2>4 DEF TypeOK, PendingInv
<1>1. SUFFICES IsFiniteSet(armed') /\ pending' = Cardinality(armed') + CountAt(pc', C)
  <2>1. Ran("count")' = {w \in Workers : pc'[w] \in C}
    BY DEF Ran
  <2> QED BY <2>1 DEF PendingInv, PendingCount, CountAt
<1> HIDE DEF C
<1>2. ASSUME NEW w \in Workers, NEW l, Goto(w, l)
      PROVE  /\ ~(pc[w] = "count" \/ l = "count") => CountAt(pc', C) = CountAt(pc, C)
             /\ pc[w] # "count" /\ l = "count" => CountAt(pc', C) = CountAt(pc, C) + 1
             /\ pc[w] = "count" /\ l # "count" => CountAt(pc', C) = CountAt(pc, C) - 1
  <2>1. pc'[w] = l /\ \A v \in Workers \ {w} : pc'[v] = pc[v]
    BY <1>0, <1>2 DEF Goto
  <2>2. /\ (pc[w] \in C <=> pc'[w] \in C) => CountAt(pc', C) = CountAt(pc, C)
        /\ (pc[w] \notin C /\ pc'[w] \in C) => CountAt(pc', C) = CountAt(pc, C) + 1
        /\ (pc[w] \in C /\ pc'[w] \notin C) => CountAt(pc', C) = CountAt(pc, C) - 1
    BY <2>1, MoveCount, SMTT(20)
  <2> QED BY <2>1, <2>2 DEF C
<1>3. ASSUME NEW w \in Workers, NEW l, Goto(w, l),
             pc[w] # "count", l # "count", UNCHANGED <<pending, armed>>
      PROVE  IsFiniteSet(armed') /\ pending' = Cardinality(armed') + CountAt(pc', C)
  BY <1>0, <1>2, <1>3
<1>4. ASSUME UNCHANGED <<pc, pending, armed>>
      PROVE  IsFiniteSet(armed') /\ pending' = Cardinality(armed') + CountAt(pc', C)
  BY <1>0, <1>4
<1> DEFINE Goal == IsFiniteSet(armed') /\ pending' = Cardinality(armed') + CountAt(pc', C)
<1> USE DEF At
<1>5. ASSUME NEW w \in Workers, Scheduling(w) PROVE Goal
  BY <1>3, <1>5 DEF Scheduling, Fetch, FetchNothing, Resume, AfterResume, Settle,
                    countVars, coVars
<1>6. ASSUME NEW w \in Workers, Body(w) PROVE Goal
  <2>1. ASSUME NEW j \in Jobs, Spawn(w, j) PROVE Goal
    BY <1>4, <2>1 DEF Spawn, countVars, coVars
  <2>2. CASE Arm(w)
    <3>1. Job(w) \notin armed
      <4>1. Job(w) \in Held
        BY <2>2 DEF Arm, Held
      <4> QED BY <4>1 DEF OnePlace
    <3>2. IsFiniteSet(armed') /\ Cardinality(armed') = Cardinality(armed) + 1
      BY <1>0, <2>2, <3>1, FS_AddElement DEF Arm
    <3>3. CountAt(pc', C) = CountAt(pc, C)
      BY <1>2, <2>2 DEF Arm
    <3> QED BY <1>0, <2>2, <3>2, <3>3 DEF Arm
  <2>3. CASE Finish(w)
    BY <1>3, <2>3 DEF Finish, countVars
  <2> QED BY <1>6, <2>1, <2>2, <2>3 DEF Body
<1>7. ASSUME NEW w \in Workers, Switch(w) PROVE Goal
  BY <1>3, <1>7 DEF Switch, Hold, SwitchOut, countVars
<1>8. ASSUME NEW w \in Workers, Idle(w) PROVE Goal
  <2>1. CASE IdleEnter(w) \/ LeaveRun(w) \/ CheckPending(w) \/ PollDone(w) \/ IdleLeave(w)
    BY <1>3, <2>1 DEF IdleEnter, LeaveRun, CheckPending, PollDone, IdleLeave,
                      countVars, coVars
  <2>2. CASE CheckQueue(w)
    <3>1. PICK l \in {"check2", "poll"} : Goto(w, l)
      BY <2>2 DEF CheckQueue
    <3> QED BY <1>3, <2>2, <3>1 DEF CheckQueue, countVars, coVars
  <2>3. ASSUME NEW j \in Jobs, Trigger(w, j) PROVE Goal
    <3>1. IsFiniteSet(armed') /\ Cardinality(armed') = Cardinality(armed) - 1
      BY <1>0, <2>3, FS_RemoveElement DEF Trigger
    <3>2. CountAt(pc', C) = CountAt(pc, C) + 1
      BY <1>2, <2>3 DEF Trigger
    <3>3. pending' = pending
      BY <2>3 DEF Trigger, countVars
    <3> QED BY <1>0, <3>1, <3>2, <3>3
  <2>4. CASE Uncount(w)
    <3>1. CountAt(pc', C) = CountAt(pc, C) - 1
      BY <1>2, <2>4 DEF Uncount
    <3>2. pending' = pending - 1 /\ armed' = armed
      BY <2>4 DEF Uncount, coVars
    <3> QED BY <1>0, <3>1, <3>2
  <2> QED BY <1>8, <2>1, <2>2, <2>3, <2>4 DEF Idle
<1>9. CASE Owner
  BY <1>4, <1>9 DEF Owner, Submit, StopBegin, StopFlag, Join, countVars, coVars
<1>10. CASE UNCHANGED vars
  BY <1>4, <1>10 DEF vars, countVars, coVars
<1> QED BY <1>5, <1>6, <1>7, <1>8, <1>9, <1>10 DEF Next, Worker

(* A zero read from m_pendingEventCount means that no coroutine waits for   *)
(* an event, at any moment of any execution.                                *)
THEOREM PendingCountCorrect == Spec => []PendingCount
<1>1. Spec => []PendingInv
  BY InitType, NextType, InitPlace, NextPlace, InitPending, NextPending, PTL DEF Spec
<1> QED BY <1>1, PTL DEF PendingInv

-----------------------------------------------------------------------------
(* The shutdown.  A worker that has seen the queue empty with no active     *)
(* worker, during stop(), is Leaving.  Once all of them are, nobody is left *)
(* who could queue a job, so the observation of the last one stays true.    *)
Leaving(w) == idleco[w] = "end" \/ pc[w] = "check2"
OrderInv ==
  /\ stopping => mainpc \in {"join", "done"}
  /\ \A w \in Workers : Leaving(w) => stopping
  /\ \A w \in Workers :
       idleco[w] = "end" => pc[w] \notin {"check", "check2", "poll", "count"}
  /\ \A w \in Workers : pc[w] = "gone" => idleco[w] = "end"
  /\ mainpc = "done" => \A w \in Workers : pc[w] = "gone"
AllLeaving == Workers # {} /\ \A w \in Workers : Leaving(w)
AllEnd     == Workers # {} /\ \A w \in Workers : idleco[w] = "end"
ShutdownInv ==
  /\ AllLeaving => tasks = <<>> /\ active = 0
  /\ AllEnd => pending = 0

LEMMA InitShutdown == Init => OrderInv /\ ShutdownInv
BY DEF Init, OrderInv, ShutdownInv, Leaving, AllLeaving, AllEnd

LEMMA NextOrder == TypeOK /\ OrderInv /\ [Next]_vars => OrderInv'
<1> SUFFICES ASSUME TypeOK, OrderInv, [Next]_vars PROVE OrderInv'
  OBVIOUS
<1>0. /\ pc \in [Workers -> Labels] /\ idleco \in [Workers -> {"loop", "end"}]
      /\ stopping \in BOOLEAN
  BY DEF TypeOK
<1> USE DEF At, Goto, OrderInv, Leaving, stopVars
<1>1. ASSUME NEW w \in Workers, Scheduling(w) PROVE OrderInv'
  BY <1>0, <1>1 DEF Scheduling, Fetch, FetchNothing, Resume, AfterResume, Settle
<1>2. ASSUME NEW w \in Workers, Body(w) PROVE OrderInv'
  BY <1>0, <1>2 DEF Body, Spawn, Arm, Finish
<1>3. ASSUME NEW w \in Workers, Switch(w) PROVE OrderInv'
  BY <1>0, <1>3 DEF Switch, Hold, SwitchOut
<1>4. ASSUME NEW w \in Workers, Idle(w) PROVE OrderInv'
  <2>1. CASE IdleEnter(w)
    BY <1>0, <2>1 DEF IdleEnter
  <2>2. CASE LeaveRun(w)
    BY <1>0, <2>2 DEF LeaveRun
  <2>3. CASE CheckQueue(w)
    BY <1>0, <2>3 DEF CheckQueue
  <2>4. CASE CheckPending(w)
    BY <1>0, <2>4 DEF CheckPending
  <2>5. ASSUME NEW j \in Jobs, Trigger(w, j) PROVE OrderInv'
    BY <1>0, <2>5 DEF Trigger
  <2>6. CASE Uncount(w) \/ PollDone(w) \/ IdleLeave(w)
    BY <1>0, <2>6 DEF Uncount, PollDone, IdleLeave
  <2> QED BY <1>4, <2>1, <2>2, <2>3, <2>4, <2>5, <2>6 DEF Idle
<1>5. CASE Owner
  <2>1. ASSUME NEW j \in Jobs, NEW t \in Threads, Submit(j, t) PROVE OrderInv'
    BY <2>1 DEF Submit, Main
  <2>2. CASE StopBegin \/ StopFlag \/ Join
    BY <2>2 DEF StopBegin, StopFlag, Join, Main
  <2> QED BY <1>5, <2>1, <2>2 DEF Owner
<1>6. CASE UNCHANGED vars
  BY <1>6 DEF vars
<1> QED BY <1>1, <1>2, <1>3, <1>4, <1>5, <1>6 DEF Next, Worker

(* No worker is inside a slice when m_activethreadcount is zero.            *)
LEMMA NoSlice == TypeOK /\ ActiveCount /\ active = 0 => \A w \in Workers : pc[w] \notin Slice
<1> SUFFICES ASSUME ActiveCount, active = 0, NEW w \in Workers, pc[w] \in Slice PROVE FALSE
  OBVIOUS
<1> DEFINE B == {v \in Workers : pc[v] \in Slice}
<1>1. IsFiniteSet(B) /\ w \in B
  BY WorkersAssumption, FS_Subset
<1>2. Cardinality(B) = 0
  BY DEF ActiveCount
<1> HIDE DEF B
<1> QED BY <1>1, <1>2, FS_EmptySet

LEMMA NextShutdown ==
  TypeOK /\ ActiveCount /\ OrderInv /\ ShutdownInv /\ [Next]_vars => ShutdownInv'
<1> SUFFICES ASSUME TypeOK, ActiveCount, OrderInv, ShutdownInv, [Next]_vars
             PROVE  ShutdownInv'
  OBVIOUS
<1>0. /\ pc \in [Workers -> Labels] /\ idleco \in [Workers -> {"loop", "end"}]
      /\ tasks \in Seq(Task)
  BY DEF TypeOK
<1>1. AllLeaving => /\ tasks = <<>> /\ active = 0 /\ Main("run") = FALSE
                    /\ \A w \in Workers : pc[w] \notin Slice
                    /\ \A w \in Workers : pc[w] \notin {"check", "poll", "count"}
  <2> SUFFICES ASSUME AllLeaving
               PROVE  /\ tasks = <<>> /\ active = 0 /\ Main("run") = FALSE
                      /\ \A w \in Workers : pc[w] \notin Slice
                      /\ \A w \in Workers : pc[w] \notin {"check", "poll", "count"}
    OBVIOUS
  <2>1. tasks = <<>> /\ active = 0
    BY DEF ShutdownInv
  <2>2. Main("run") = FALSE
    BY DEF OrderInv, AllLeaving, Main
  <2>3. \A w \in Workers : pc[w] \notin {"check", "poll", "count"}
    BY DEF OrderInv, AllLeaving, Leaving
  <2> QED BY <2>1, <2>2, <2>3, NoSlice
<1>2. AllEnd' => AllLeaving'
  BY DEF AllEnd, AllLeaving, Leaving
<1> USE DEF At, Goto, stopVars, countVars, queueVars
<1>3. CASE AllLeaving
  <2>1. ASSUME UNCHANGED <<tasks, active, pending, idleco>> PROVE ShutdownInv'
    BY <1>1, <1>3, <2>1 DEF ShutdownInv, AllEnd
  <2>2. ASSUME NEW w \in Workers, Scheduling(w) PROVE ShutdownInv'
    <3>1. ~Fetch(w)
      BY <1>1, <1>3 DEF Fetch
    <3>2. ~Resume(w) /\ ~AfterResume(w)
      BY <1>1, <1>3 DEF Resume, AfterResume, Slice
    <3> QED BY <2>1, <2>2, <3>1, <3>2 DEF Scheduling, FetchNothing, Settle
  <2>3. ASSUME NEW w \in Workers PROVE ~Body(w) /\ ~Switch(w)
    BY <1>1, <1>3 DEF Body, Switch, Spawn, Arm, Finish, Hold, SwitchOut, Slice
  <2>4. ASSUME NEW w \in Workers, Idle(w) PROVE ShutdownInv'
    <3>1. ~CheckQueue(w) /\ ~Uncount(w) /\ ~PollDone(w) /\ \A j \in Jobs : ~Trigger(w, j)
      BY <1>1, <1>3 DEF CheckQueue, Uncount, PollDone, Trigger
    <3>2. CASE CheckPending(w)
      BY <1>1, <1>3, <3>2 DEF CheckPending, ShutdownInv, AllEnd
    <3>3. CASE IdleEnter(w) \/ LeaveRun(w) \/ IdleLeave(w)
      BY <2>1, <3>3 DEF IdleEnter, LeaveRun, IdleLeave
    <3> QED BY <2>4, <3>1, <3>2, <3>3 DEF Idle
  <2>5. CASE Owner
    BY <1>1, <1>3, <2>1, <2>5 DEF Owner, Submit, StopBegin, StopFlag, Join
  <2>6. CASE UNCHANGED vars
    BY <2>1, <2>6 DEF vars
  <2> QED BY <2>2, <2>3, <2>4, <2>5, <2>6 DEF Next, Worker
<1>4. CASE ~AllLeaving
  <2>1. ASSUME \A w \in Workers : Leaving(w)' => Leaving(w) PROVE ShutdownInv'
    <3>1. ~AllLeaving'
      BY <1>4, <2>1 DEF AllLeaving
    <3> QED BY <1>2, <3>1 DEF ShutdownInv
  <2> USE DEF Leaving
  <2>2. ASSUME NEW w \in Workers, Scheduling(w) PROVE ShutdownInv'
    BY <1>0, <2>1, <2>2 DEF Scheduling, Fetch, FetchNothing, Resume, AfterResume, Settle
  <2>3. ASSUME NEW w \in Workers, Body(w) PROVE ShutdownInv'
    BY <1>0, <2>1, <2>3 DEF Body, Spawn, Arm, Finish
  <2>4. ASSUME NEW w \in Workers, Switch(w) PROVE ShutdownInv'
    BY <1>0, <2>1, <2>4 DEF Switch, Hold, SwitchOut
  <2>5. ASSUME NEW w \in Workers, Idle(w) PROVE ShutdownInv'
    <3>1. CASE CheckQueue(w)
      <4>1. idleco'[w] # "end"
        BY <3>1 DEF CheckQueue, OrderInv
      <4>2. ~AllEnd'
        BY <4>1 DEF AllEnd
      <4>3. CASE autostop /\ stopping /\ tasks = <<>> /\ active = 0
        BY <3>1, <4>2, <4>3 DEF CheckQueue, ShutdownInv
      <4>4. CASE ~(autostop /\ stopping /\ tasks = <<>> /\ active = 0)
        <5>1. pc' = [pc EXCEPT ![w] = "poll"] /\ idleco' = idleco
          BY <3>1, <4>4 DEF CheckQueue
        <5> QED BY <1>0, <2>1, <5>1
      <4> QED BY <4>3, <4>4
    <3>2. CASE CheckPending(w)
      BY <1>0, <2>1, <3>2 DEF CheckPending
    <3>3. CASE IdleEnter(w) \/ LeaveRun(w) \/ Uncount(w) \/ PollDone(w) \/ IdleLeave(w)
      BY <1>0, <2>1, <3>3 DEF IdleEnter, LeaveRun, Uncount, PollDone, IdleLeave
    <3>4. ASSUME NEW j \in Jobs, Trigger(w, j) PROVE ShutdownInv'
      BY <1>0, <2>1, <3>4 DEF Trigger
    <3> QED BY <2>5, <3>1, <3>2, <3>3, <3>4 DEF Idle
  <2>6. CASE Owner
    BY <2>1, <2>6 DEF Owner, Submit, StopBegin, StopFlag, Join
  <2>7. CASE UNCHANGED vars
    BY <2>1, <2>7 DEF vars
  <2> QED BY <2>2, <2>3, <2>4, <2>5, <2>6, <2>7 DEF Next, Worker
<1> QED BY <1>3, <1>4

AllInv == TypeOK /\ ActiveCount /\ OnePlace /\ PendingInv /\ OrderInv /\ ShutdownInv

LEMMA InvCorrect == Spec => []AllInv
<1>1. Init => AllInv
  BY InitType, InitActive, InitPlace, InitPending, InitShutdown DEF AllInv
<1>2. AllInv /\ [Next]_vars => AllInv'
  BY NextType, NextActive, NextPlace, NextPending, NextOrder, NextShutdown DEF AllInv
<1> QED BY <1>1, <1>2, PTL DEF Spec

LEMMA EmptyArmed == PendingInv /\ pending = 0 => armed = {}
<1> SUFFICES ASSUME PendingInv, pending = 0 PROVE armed = {}
  OBVIOUS
<1>1. IsFiniteSet(Ran("count"))
  BY WorkersAssumption, FS_Subset DEF Ran
<1>2. Cardinality(armed) \in Nat /\ Cardinality(Ran("count")) \in Nat
  BY <1>1, FS_CardinalityType DEF PendingInv
<1>3. Cardinality(armed) = 0
  BY <1>2 DEF PendingInv, PendingCount
<1> QED BY <1>3, FS_EmptySet DEF PendingInv

(* When every worker has left its idle loop, no task, no active worker and  *)
(* no registered event is left, for any number of workers: reading the      *)
(* queue and the event counter at two moments loses nothing then.           *)
THEOREM LastWorkerLeavesQuietCorrect == Spec => []LastWorkerLeavesQuiet
<1>1. AllInv => LastWorkerLeavesQuiet
  <2> SUFFICES ASSUME AllInv, Workers # {}, \A w \in Workers : idleco[w] = "end"
               PROVE  Quiet
    BY DEF LastWorkerLeavesQuiet
  <2>1. AllEnd /\ AllLeaving
    BY DEF AllEnd, AllLeaving, Leaving
  <2> QED BY <2>1, EmptyArmed DEF AllInv, ShutdownInv, Quiet
<1> QED BY <1>1, InvCorrect, PTL

(* stop() with at least one worker returns only when every submitted job    *)
(* has finished.                                                            *)
THEOREM DrainedAtDoneCorrect == Workers # {} => (Spec => []DrainedAtDone)
<1> SUFFICES ASSUME Workers # {} PROVE Spec => []DrainedAtDone
  OBVIOUS
<1>1. AllInv => DrainedAtDone
  <2> SUFFICES ASSUME AllInv, mainpc = "done" PROVE submitted = done
    BY DEF DrainedAtDone
  <2>1. AllEnd /\ AllLeaving
    BY DEF AllInv, OrderInv, AllEnd, AllLeaving, Leaving
  <2>2. tasks = <<>> /\ armed = {} /\ \A w \in Workers : pc[w] \notin Slice
    BY <2>1, EmptyArmed, NoSlice DEF AllInv, ShutdownInv
  <2>3. Queued = {} /\ Held = {}
    BY <2>2 DEF Queued, Held, Slice
  <2> QED BY <2>2, <2>3 DEF AllInv, OnePlace
<1> QED BY <1>1, InvCorrect, PTL

-----------------------------------------------------------------------------
(* One worker.  A context that is not saved belongs to the slice the worker *)
(* is executing or to a finished job, and TERM is visible only between the  *)
(* store in MainFunc and the store of HOLD in yield.                        *)
OneWorker == \A v, w \in Workers : v = w
SavedInv ==
  /\ fate # "corrupt"
  /\ \A j \in Jobs : ctx[j] = "live" =>
       \E w \in Workers : pc[w] \in {"body", "yield", "switch"} /\ Job(w) = j
  /\ \A j \in Jobs : ctx[j] = "end" => j \in done
  /\ \A j \in Jobs : state[j] = "TERM" => \E w \in Workers : pc[w] = "yield" /\ Job(w) = j

LEMMA NextSaved ==
  ASSUME OneWorker
  PROVE  TypeOK /\ OnePlace /\ SavedInv /\ [Next]_vars => SavedInv'
<1> SUFFICES ASSUME TypeOK, OnePlace, SavedInv, [Next]_vars PROVE SavedInv'
  OBVIOUS
<1>0. /\ pc \in [Workers -> Labels] /\ cur \in [Workers -> Task \cup {NoTask}]
      /\ state \in [Jobs -> States] /\ ctx \in [Jobs -> {"saved", "live", "end"}]
      /\ \A w \in Workers : pc[w] \in Slice \cup {"settle"} => Job(w) \in Jobs
  BY DEF TypeOK, Task, Job
<1> USE DEF OneWorker, At, Goto, SetState, Job, coVars, Slice
<1>1. ASSUME UNCHANGED <<state, ctx, done, fate>>, NEW w \in Workers,
             pc[w] \notin {"body", "yield", "switch"}
      PROVE  SavedInv'
  BY <1>0, <1>1 DEF SavedInv
<1>2. ASSUME UNCHANGED <<state, ctx, done, fate, pc, cur>> PROVE SavedInv'
  BY <1>2 DEF SavedInv
<1>3. ASSUME NEW w \in Workers, Scheduling(w) PROVE SavedInv'
  <2>1. CASE Fetch(w) \/ FetchNothing(w) \/ AfterResume(w)
    BY <1>1, <2>1 DEF Fetch, FetchNothing, AfterResume
  <2>2. CASE Resume(w)
    <3>1. Job(w) \in Held /\ Job(w) \notin done
      BY <2>2 DEF Resume, OnePlace, Held
    <3>2. ctx[Job(w)] = "saved"
      BY <1>0, <2>2, <3>1 DEF Resume, SavedInv
    <3>3. fate' = "running" /\ done' = done
      BY <2>2, <3>2 DEF Resume
    <3>4. state' = [state EXCEPT ![Job(w)] = "EXEC"] /\ cur' = cur
      BY <2>2 DEF Resume
    <3>5. pc'[w] = "body" /\ ctx' = [ctx EXCEPT ![Job(w)] = "live"] /\ pc[w] = "resume"
      BY <1>0, <2>2 DEF Resume
    <3> QED BY <1>0, <3>3, <3>4, <3>5 DEF SavedInv
  <2>3. CASE Settle(w)
    <3>1. state[Job(w)] # "TERM"
      BY <1>0, <2>3 DEF Settle, SavedInv
    <3>2. /\ state' = [state EXCEPT ![Job(w)] = "HOLD"]
          /\ fate' = fate /\ ctx' = ctx /\ done' = done /\ pc[w] = "settle"
      BY <2>3, <3>1 DEF Settle
    <3> QED BY <1>0, <3>2 DEF SavedInv
  <2> QED BY <1>3, <2>1, <2>2, <2>3 DEF Scheduling
<1>4. ASSUME NEW w \in Workers, Body(w) PROVE SavedInv'
  <2>1. ASSUME NEW j \in Jobs, Spawn(w, j) PROVE SavedInv'
    BY <1>2, <2>1 DEF Spawn
  <2>2. CASE Arm(w)
    BY <1>0, <2>2 DEF Arm, SavedInv
  <2>3. CASE Finish(w)
    BY <1>0, <2>3 DEF Finish, SavedInv
  <2> QED BY <1>4, <2>1, <2>2, <2>3 DEF Body
<1>5. ASSUME NEW w \in Workers, Switch(w) PROVE SavedInv'
  <2>1. CASE Hold(w)
    BY <1>0, <2>1 DEF Hold, SavedInv
  <2>2. CASE SwitchOut(w)
    BY <1>0, <2>2 DEF SwitchOut, SavedInv
  <2> QED BY <1>5, <2>1, <2>2 DEF Switch
<1>6. ASSUME NEW w \in Workers, Idle(w) PROVE SavedInv'
  <2>1. CASE LeaveRun(w)
    BY <1>0, <2>1 DEF LeaveRun, SavedInv
  <2>2. CASE IdleEnter(w) \/ CheckQueue(w) \/ CheckPending(w)
    BY <1>1, <2>2 DEF IdleEnter, CheckQueue, CheckPending
  <2>3. CASE Uncount(w) \/ PollDone(w) \/ IdleLeave(w)
    BY <1>1, <2>3 DEF Uncount, PollDone, IdleLeave
  <2>4. ASSUME NEW j \in Jobs, Trigger(w, j) PROVE SavedInv'
    BY <1>1, <2>4 DEF Trigger
  <2> QED BY <1>6, <2>1, <2>2, <2>3, <2>4 DEF Idle
<1>7. CASE Owner
  BY <1>2, <1>7 DEF Owner, Submit, StopBegin, StopFlag, Join
<1>8. CASE UNCHANGED vars
  BY <1>2, <1>8 DEF vars
<1> QED BY <1>3, <1>4, <1>5, <1>6, <1>7, <1>8 DEF Next, Worker

(* A scheduler with one worker never resumes a coroutine whose context is   *)
(* in use or finished: the order of yield's two steps needs a second worker *)
(* to do harm.                                                              *)
THEOREM OneWorkerNoStaleResume == OneWorker => (Spec => []NoStaleResume)
<1> SUFFICES ASSUME OneWorker PROVE Spec => []NoStaleResume
  OBVIOUS
<1>1. Init => SavedInv
  BY DEF Init, SavedInv
<1>2. AllInv /\ SavedInv /\ [Next]_vars => SavedInv'
  BY NextSaved DEF AllInv
<1>3. SavedInv => NoStaleResume
  BY DEF SavedInv, NoStaleResume
<1> QED BY <1>1, <1>2, <1>3, InvCorrect, PTL DEF Spec

(* With one worker the process does not end while a submitted job is        *)
(* unfinished.                                                              *)
THEOREM OneWorkerExitQuiet == OneWorker => (Spec => []ExitQuiet)
<1> DEFINE LeftInv == fate = "exited" =>
             Workers # {} /\ \A w \in Workers : idleco[w] = "end" /\ pc[w] = "gone"
<1> SUFFICES ASSUME OneWorker PROVE Spec => []ExitQuiet
  OBVIOUS
<1>1. Init => LeftInv
  BY DEF Init
<1>2. AllInv /\ LeftInv /\ [Next]_vars => LeftInv'
  <2> SUFFICES ASSUME AllInv, LeftInv, [Next]_vars, fate' = "exited"
               PROVE  LeftInv'
    OBVIOUS
  <2>0. pc \in [Workers -> Labels] /\ idleco \in [Workers -> {"loop", "end"}]
    BY DEF AllInv, TypeOK
  <2>1. CASE UNCHANGED vars
    BY <2>1 DEF vars
  <2>2. CASE fate = "exited"
    BY <2>1, <2>2 DEF Next, Worker, Scheduling, Body, Switch, Idle, Owner, At, Main,
       Fetch, FetchNothing, Resume, AfterResume, Settle, Spawn, Arm, Finish, Hold, SwitchOut,
       IdleEnter, LeaveRun, CheckQueue, CheckPending, Trigger, Uncount, PollDone, IdleLeave,
       Submit, StopBegin, StopFlag, Join
  <2>3. CASE Next /\ fate # "exited"
    <3>1. PICK w \in Workers : LeaveRun(w)
      BY <2>3 DEF Next, Worker, Scheduling, Body, Switch, Idle, Owner, At, Main,
         Fetch, FetchNothing, Resume, AfterResume, Settle, Spawn, Arm, Finish, Hold,
         SwitchOut, IdleEnter, CheckQueue, CheckPending, Trigger, Uncount, PollDone,
         IdleLeave, Submit, StopBegin, StopFlag, Join
    <3> QED BY <2>0, <3>1 DEF LeaveRun, At, Goto, OneWorker
  <2> QED BY <2>1, <2>2, <2>3
<1>3. AllInv /\ LeftInv => ExitQuiet
  <2> SUFFICES ASSUME AllInv, LeftInv, fate = "exited" PROVE submitted = done
    BY DEF ExitQuiet
  <2>1. AllEnd /\ AllLeaving
    BY DEF AllEnd, AllLeaving, Leaving
  <2>2. tasks = <<>> /\ armed = {} /\ \A w \in Workers : pc[w] \notin Slice
    BY <2>1, EmptyArmed, NoSlice DEF AllInv, ShutdownInv
  <2>3. Queued = {} /\ Held = {}
    BY <2>2 DEF Queued, Held, Slice
  <2> QED BY <2>2, <2>3 DEF AllInv, OnePlace
<1> QED BY <1>1, <1>2, <1>3, InvCorrect, PTL DEF Spec
=============================================================================
