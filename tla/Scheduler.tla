------------------------------ MODULE Scheduler ------------------------------
(***************************************************************************)
(* The coroutine scheduler of coKV: the task list and worker loop of       *)
(* server::Scheduler (src/scheduler), the coroutine switch of              *)
(* server::Selfco (src/selfco), the worker threads of server::Thread       *)
(* (src/thread) and the part of server::IOManager (src/iomananger) that    *)
(* decides when a worker idles, wakes a waiting coroutine and shuts down.  *)
(*                                                                         *)
(* A job is one coroutine: the function given to addTask together with the *)
(* Selfco that runs it.  Between two resumptions a job waits for a         *)
(* registered event; which event it is (file descriptor, direction) is the *)
(* subject of another module and is abstracted here to "armed".            *)
(*                                                                         *)
(* One action is what a thread does between two points where it can be     *)
(* interrupted with an effect on another thread: a critical section of     *)
(* m_mutex, an atomic counter update, a store to the shared m_state field, *)
(* or the context switch itself.                                           *)
(*                                                                         *)
(* tickle() only shortens a sleep of epoll_wait.  It changes no variable   *)
(* of this module and no step here waits for it, so it does not appear.    *)
(***************************************************************************)
EXTENDS Integers, FiniteSets, SequencesExt

CONSTANTS
  Workers,      \* threads of m_threadpoll that execute Scheduler::run; with
                \* use_caller one less than the thread count asked for
  Jobs,         \* coroutines that may be submitted
  CoJobs,       \* jobs submitted as a ready-made Selfco::ptr, not as a function
  NoJob,        \* the job of a task record that is reset
  AnyThread,    \* the default thread_num of a task, -1 in the code
  MaxWaits,     \* bound: how often one job waits for an event
  NullLink      \* what returning from a context with uc_link = nullptr ends

ASSUME WorkersAssumption   == IsFiniteSet(Workers)
ASSUME CoJobsAssumption    == CoJobs \subseteq Jobs
ASSUME NoJobAssumption     == NoJob \notin Jobs
ASSUME AnyThreadAssumption == AnyThread \notin Workers
ASSUME MaxWaitsAssumption  == MaxWaits \in Nat
ASSUME NullLinkAssumption  == NullLink \in {"process", "thread"}

VARIABLES
  tasks,       \* Scheduler::m_tasks
  active,      \* Scheduler::m_activethreadcount
  idle,        \* Scheduler::m_idlethreadcount
  pending,     \* IOManager::m_pendingEventCount
  autostop,    \* Scheduler::m_autostop
  stopping,    \* Scheduler::m_stopping, FALSE once start() has run
  pc,          \* where each worker is
  cur,         \* the task each worker has popped, NoTask after reset()
  idleco,      \* each worker's idle coroutine: in its loop or past its end
  state,       \* Selfco::m_state of each job
  ctx,         \* the saved machine context of each job
  done,        \* jobs whose function has returned
  waits,       \* how often each job has waited (bounded by MaxWaits)
  armed,       \* jobs that wait for a registered event
  submitted,   \* jobs handed to addTask so far
  mainpc,      \* where the thread that owns the scheduler is
  fate         \* whether the process runs, has exited or is corrupt

queueVars == <<tasks, submitted>>
countVars == <<active, idle, pending>>
stopVars  == <<autostop, stopping, mainpc>>
coVars    == <<state, ctx, done, waits, armed>>
vars == <<queueVars, countVars, stopVars, coVars, pc, cur, idleco, fate>>

-----------------------------------------------------------------------------
Threads == Workers \cup {AnyThread}
Kinds   == {"cb", "co"}
States  == {"INIT", "EXEC", "HOLD", "TERM"}

Task == [job : Jobs, thr : Threads, kind : Kinds]
NoTask == [job |-> NoJob, thr |-> AnyThread, kind |-> "cb"]

(* The worker loop, in order.  "resume" .. "after" is the part that counts *)
(* in m_activethreadcount; "idle" .. "unidle" runs the idle coroutine.     *)
Slice   == {"resume", "body", "yield", "switch", "after"}
Idling  == {"check", "check2", "poll", "count", "unidle"}
Labels  == Slice \cup Idling \cup {"fetch", "settle", "idle", "gone"}

At(w, label)       == fate = "running" /\ pc[w] = label
Goto(w, label)     == pc' = [pc EXCEPT ![w] = label]
Job(w)             == cur[w].job
SetState(j, s)     == state' = [state EXCEPT ![j] = s]
AddTask(j, t, k)   == tasks' = Append(tasks, [job |-> j, thr |-> t, kind |-> k])

Init ==
  /\ tasks = <<>> /\ submitted = {}
  /\ active = 0 /\ idle = 0 /\ pending = 0
  /\ autostop = FALSE /\ stopping = FALSE /\ mainpc = "run"
  /\ state = [j \in Jobs |-> "INIT"]
  /\ ctx = [j \in Jobs |-> "saved"]
  /\ waits = [j \in Jobs |-> 0]
  /\ done = {} /\ armed = {}
  /\ pc = [w \in Workers |-> "fetch"]
  /\ cur = [w \in Workers |-> NoTask]
  /\ idleco = [w \in Workers |-> "loop"]
  /\ fate = "running"

-----------------------------------------------------------------------------
(* Defective variants of definitions below, for mutation checks only.      *)

(* the scan takes pinned tasks only                                        *)
EligiblePinned(w, t) == t.thr = w /\ (t.kind = "co" => state[t.job] # "EXEC")

(* the activity counter is not decremented after a slice                   *)
AfterResumeKeep(w) ==
  /\ At(w, "after")
  /\ Goto(w, "settle")
  /\ UNCHANGED <<queueVars, countVars, stopVars, coVars, cur, idleco, fate>>

(* the task of the last slice is not reset                                 *)
SettleNoReset(w) ==
  /\ At(w, "settle")
  /\ SetState(Job(w), "HOLD")
  /\ Goto(w, "fetch")
  /\ UNCHANGED <<queueVars, countVars, stopVars, ctx, done, waits, armed, cur, idleco, fate>>

(* a worker may leave while another one executes a task                    *)
CheckQueueOnly(w) ==
  /\ At(w, "check")
  /\ Goto(w, IF autostop /\ stopping /\ tasks = <<>> THEN "check2" ELSE "poll")
  /\ UNCHANGED <<queueVars, countVars, stopVars, coVars, cur, idleco, fate>>

(* a worker may leave while coroutines wait for events                     *)
CheckPendingNever(w) ==
  /\ At(w, "check2")
  /\ Goto(w, "unidle")
  /\ idleco' = [idleco EXCEPT ![w] = "end"]
  /\ UNCHANGED <<queueVars, countVars, stopVars, coVars, cur, fate>>

(* the event stays registered after it was reported                        *)
TriggerAgain(w, j) ==
  /\ At(w, "poll")
  /\ j \in armed
  /\ AddTask(j, AnyThread, "co")
  /\ Goto(w, "count")
  /\ UNCHANGED <<submitted, countVars, stopVars, coVars, cur, idleco, fate>>

(* the event is consumed but its coroutine is not queued                   *)
TriggerLost(w, j) ==
  /\ At(w, "poll")
  /\ j \in armed
  /\ armed' = armed \ {j}
  /\ Goto(w, "count")
  /\ UNCHANGED <<queueVars, countVars, stopVars, state, ctx, done, waits, cur, idleco, fate>>

(* the event counter is not decremented for a reported event               *)
UncountKeep(w) ==
  /\ At(w, "count")
  /\ Goto(w, "poll")
  /\ UNCHANGED <<queueVars, countVars, stopVars, coVars, cur, idleco, fate>>

-----------------------------------------------------------------------------
(* The scan of m_tasks under m_mutex: a worker takes the first task that   *)
(* is not pinned to another thread and whose coroutine is not executing.   *)
Eligible(w, t) ==
  /\ t.thr \in {AnyThread, w}
  /\ t.kind = "co" => state[t.job] # "EXEC"

Fetch(w) ==
  /\ At(w, "fetch")
  /\ \E i \in DOMAIN tasks :
       /\ Eligible(w, tasks[i])
       /\ \A k \in 1 .. i - 1 : ~Eligible(w, tasks[k])
       /\ cur' = [cur EXCEPT ![w] = tasks[i]]
       /\ tasks' = RemoveAt(tasks, i)
  /\ active' = active + 1
  /\ Goto(w, "resume")
  /\ UNCHANGED <<submitted, idle, pending, stopVars, coVars, idleco, fate>>

FetchNothing(w) ==
  /\ At(w, "fetch")
  /\ \A i \in DOMAIN tasks : ~Eligible(w, tasks[i])
  /\ Goto(w, "idle")
  /\ UNCHANGED <<queueVars, countVars, stopVars, coVars, cur, idleco, fate>>

(* Selfco::resuem stores EXEC and loads the saved context.  A context that *)
(* is live on another thread, or whose function has returned, has nothing  *)
(* valid to load: from there on the process is corrupt.  A finished job is *)
(* never seen as TERM here because yield stores HOLD last, so the TERM     *)
(* branches of run() are not steps of the program.                         *)
Resume(w) ==
  /\ At(w, "resume")
  /\ SetState(Job(w), "EXEC")
  /\ ctx' = [ctx EXCEPT ![Job(w)] = "live"]
  /\ fate' = IF ctx[Job(w)] = "saved" THEN "running" ELSE "corrupt"
  /\ Goto(w, "body")
  /\ UNCHANGED <<queueVars, countVars, stopVars, done, waits, armed, cur, idleco>>

-----------------------------------------------------------------------------
(* What the function of a job may do while it runs: submit another job,    *)
(* register an event and yield, or return.                                 *)
Spawn(w, j) ==
  /\ At(w, "body")
  /\ j \in Jobs \ submitted
  /\ submitted' = submitted \cup {j}
  /\ AddTask(j, AnyThread, IF j \in CoJobs THEN "co" ELSE "cb")
  /\ UNCHANGED <<countVars, stopVars, coVars, pc, cur, idleco, fate>>

(* IOManager::addEvent, as the hooked system calls use it: the context     *)
(* mutex is held until m_pendingEventCount is incremented.                 *)
Arm(w) ==
  /\ At(w, "body")
  /\ waits[Job(w)] < MaxWaits
  /\ waits' = [waits EXCEPT ![Job(w)] = @ + 1]
  /\ armed' = armed \cup {Job(w)}
  /\ pending' = pending + 1
  /\ Goto(w, "yield")
  /\ UNCHANGED <<queueVars, active, idle, stopVars, state, ctx, done, cur, idleco, fate>>

Finish(w) ==
  /\ At(w, "body")
  /\ done' = done \cup {Job(w)}
  /\ SetState(Job(w), "TERM")
  /\ Goto(w, "yield")
  /\ UNCHANGED <<queueVars, countVars, stopVars, ctx, waits, armed, cur, idleco, fate>>

(* Selfco::yield stores HOLD first and saves the context afterwards.       *)
Hold(w) ==
  /\ At(w, "yield")
  /\ SetState(Job(w), "HOLD")
  /\ Goto(w, "switch")
  /\ UNCHANGED <<queueVars, countVars, stopVars, ctx, done, waits, armed, cur, idleco, fate>>

SwitchOut(w) ==
  /\ At(w, "switch")
  /\ ctx' = [ctx EXCEPT ![Job(w)] = IF Job(w) \in done THEN "end" ELSE "saved"]
  /\ Goto(w, "after")
  /\ UNCHANGED <<queueVars, countVars, stopVars, state, done, waits, armed, cur, idleco, fate>>

AfterResume(w) ==
  /\ At(w, "after")
  /\ active' = active - 1
  /\ Goto(w, "settle")
  /\ UNCHANGED <<queueVars, idle, pending, stopVars, coVars, cur, idleco, fate>>

(* Back in run(): the state is forced to HOLD unless it reads TERM.  In    *)
(* the branch for functions TERM makes run() reset the coroutine, and that *)
(* rewrites a context which, if TERM is visible, another thread is using.  *)
Settle(w) ==
  /\ At(w, "settle")
  /\ IF state[Job(w)] = "TERM"
       THEN state' = state /\ fate' = IF cur[w].kind = "cb" THEN "corrupt" ELSE fate
       ELSE SetState(Job(w), "HOLD") /\ fate' = fate
  /\ cur' = [cur EXCEPT ![w] = NoTask]
  /\ Goto(w, "fetch")
  /\ UNCHANGED <<queueVars, countVars, stopVars, ctx, done, waits, armed, idleco>>

-----------------------------------------------------------------------------
(* The idle coroutine, IOManager::idle.                                    *)
IdleEnter(w) ==
  /\ At(w, "idle")
  /\ idleco[w] = "loop"
  /\ idle' = idle + 1
  /\ Goto(w, "check")
  /\ UNCHANGED <<queueVars, active, pending, stopVars, coVars, cur, idleco, fate>>

(* After its loop the idle coroutine finished and was put to HOLD, so      *)
(* run() resumes it once more: MainFunc returns with uc_link = nullptr.    *)
LeaveRun(w) ==
  /\ At(w, "idle")
  /\ idleco[w] = "end"
  /\ idle' = idle + 1
  /\ Goto(w, "gone")
  /\ fate' = IF NullLink = "process" THEN "exited" ELSE "running"
  /\ UNCHANGED <<queueVars, active, pending, stopVars, coVars, cur, idleco>>

(* IOManager::stopping: Scheduler::stopping() under m_mutex, then a read   *)
(* of m_pendingEventCount outside it.                                      *)
CheckQueue(w) ==
  /\ At(w, "check")
  /\ Goto(w, IF autostop /\ stopping /\ tasks = <<>> /\ active = 0
             THEN "check2" ELSE "poll")
  /\ UNCHANGED <<queueVars, countVars, stopVars, coVars, cur, idleco, fate>>

CheckPending(w) ==
  /\ At(w, "check2")
  /\ IF pending = 0
       THEN Goto(w, "unidle") /\ idleco' = [idleco EXCEPT ![w] = "end"]
       ELSE Goto(w, "poll") /\ UNCHANGED idleco
  /\ UNCHANGED <<queueVars, countVars, stopVars, coVars, cur, fate>>

(* epoll reports the event of j: trigerEvent queues the coroutine under    *)
(* the context mutex, and only then is m_pendingEventCount decremented.    *)
Trigger(w, j) ==
  /\ At(w, "poll")
  /\ j \in armed
  /\ armed' = armed \ {j}
  /\ AddTask(j, AnyThread, "co")
  /\ Goto(w, "count")
  /\ UNCHANGED <<submitted, countVars, stopVars, state, ctx, done, waits, cur, idleco, fate>>

Uncount(w) ==
  /\ At(w, "count")
  /\ pending' = pending - 1
  /\ Goto(w, "poll")
  /\ UNCHANGED <<queueVars, active, idle, stopVars, coVars, cur, idleco, fate>>

PollDone(w) ==
  /\ At(w, "poll")
  /\ Goto(w, "unidle")
  /\ UNCHANGED <<queueVars, countVars, stopVars, coVars, cur, idleco, fate>>

IdleLeave(w) ==
  /\ At(w, "unidle")
  /\ idle' = idle - 1
  /\ Goto(w, "fetch")
  /\ UNCHANGED <<queueVars, active, pending, stopVars, coVars, cur, idleco, fate>>

-----------------------------------------------------------------------------
(* The owner: submits jobs, then calls stop() once.                        *)
Main(label) == fate = "running" /\ mainpc = label

Submit(j, t) ==
  /\ Main("run")
  /\ j \in Jobs \ submitted
  /\ submitted' = submitted \cup {j}
  /\ AddTask(j, t, IF j \in CoJobs THEN "co" ELSE "cb")
  /\ UNCHANGED <<countVars, stopVars, coVars, pc, cur, idleco, fate>>

StopBegin ==
  /\ Main("run")
  /\ autostop' = TRUE
  /\ mainpc' = "stop"
  /\ UNCHANGED <<queueVars, countVars, stopping, coVars, pc, cur, idleco, fate>>

(* With use_caller, stop() also resumes m_schedulerco.  That swaps the     *)
(* context of the scheduler coroutine with itself, which returns at once,  *)
(* so the owner never runs the worker loop.  The early return of stop() is *)
(* not taken by the first call: m_stopping is FALSE until the next line.   *)
StopFlag ==
  /\ Main("stop")
  /\ stopping' = TRUE
  /\ mainpc' = "join"
  /\ UNCHANGED <<queueVars, countVars, autostop, coVars, pc, cur, idleco, fate>>

Join ==
  /\ Main("join")
  /\ \A w \in Workers : pc[w] = "gone"
  /\ mainpc' = "done"
  /\ UNCHANGED <<queueVars, countVars, autostop, stopping, coVars, pc, cur, idleco, fate>>

-----------------------------------------------------------------------------
Scheduling(w) == Fetch(w) \/ FetchNothing(w) \/ Resume(w) \/ AfterResume(w) \/ Settle(w)
Body(w)       == (\E j \in Jobs : Spawn(w, j)) \/ Arm(w) \/ Finish(w)
Switch(w)     == Hold(w) \/ SwitchOut(w)
Idle(w)       == \/ IdleEnter(w) \/ LeaveRun(w) \/ CheckQueue(w) \/ CheckPending(w)
                 \/ (\E j \in Jobs : Trigger(w, j))
                 \/ Uncount(w) \/ PollDone(w) \/ IdleLeave(w)
Worker(w)     == Scheduling(w) \/ Body(w) \/ Switch(w) \/ Idle(w)
Owner         == \/ \E j \in Jobs, t \in Threads : Submit(j, t)
                 \/ StopBegin \/ StopFlag \/ Join

Next == (\E w \in Workers : Worker(w)) \/ Owner

Spec == Init /\ [][Next]_vars

(* Threads are scheduled by the kernel: each of them, and the owner, keeps *)
(* making steps.  An event that a job waits for does occur: epoll keeps    *)
(* reporting it until some worker that polls has taken it.                 *)
FairSpec ==
  /\ Spec
  /\ \A w \in Workers : WF_vars(Worker(w))
  /\ WF_vars(Owner)
  /\ \A j \in Jobs : SF_vars(\E w \in Workers : Trigger(w, j))

-----------------------------------------------------------------------------
(* Safety                                                                  *)

Ran(label)  == {w \in Workers : pc[w] = label}
Queued      == {tasks[i].job : i \in DOMAIN tasks}
Holds(w, j) == pc[w] \in {"resume", "body"} /\ Job(w) = j

TypeOK ==
  /\ tasks \in Seq(Task)
  /\ submitted \subseteq Jobs /\ done \subseteq Jobs /\ armed \subseteq Jobs
  /\ active \in Int /\ idle \in Int /\ pending \in Int
  /\ autostop \in BOOLEAN /\ stopping \in BOOLEAN
  /\ mainpc \in {"run", "stop", "join", "done"}
  /\ pc \in [Workers -> Labels]
  /\ cur \in [Workers -> Task \cup {NoTask}]
  /\ idleco \in [Workers -> {"loop", "end"}]
  /\ state \in [Jobs -> States]
  /\ ctx \in [Jobs -> {"saved", "live", "end"}]
  /\ waits \in [Jobs -> 0 .. MaxWaits]
  /\ fate \in {"running", "exited", "corrupt"}
  /\ \A w \in Workers : cur[w] \in Task <=> pc[w] \in Slice \cup {"settle"}

(* m_activethreadcount is exactly the number of workers between popping a  *)
(* task under m_mutex and the decrement after its slice, whatever path     *)
(* each of them takes; stopping() relies on it.                            *)
ActiveCount == active = Cardinality({w \in Workers : pc[w] \in Slice})

(* m_pendingEventCount is never below the number of registered events: the *)
(* difference is the triggers that have queued their job and not yet       *)
(* decremented.  Hence a zero means that nothing is waiting.               *)
PendingCount == pending = Cardinality(armed) + Cardinality(Ran("count"))

(* A coroutine is never lost and never scheduled twice: every submitted    *)
(* job is queued, registered for an event, running, or finished, and it is *)
(* in one of these places only, once.                                      *)
QueuedOnce == \A i, k \in DOMAIN tasks : tasks[i].job = tasks[k].job => i = k
HeldOnce   == \A v, w \in Workers, j \in Jobs : Holds(v, j) /\ Holds(w, j) => v = w
Held       == {Job(w) : w \in {v \in Workers : pc[v] \in {"resume", "body"}}}
OnePlace ==
  /\ QueuedOnce /\ HeldOnce
  /\ submitted = Queued \cup armed \cup Held \cup done
  /\ Queued \cap armed = {} /\ Queued \cap Held = {} /\ Queued \cap done = {}
  /\ armed \cap Held = {} /\ armed \cap done = {} /\ Held \cap done = {}

(* The check of EXEC in the scan of m_tasks keeps a worker from resuming a *)
(* coroutine that another thread is still executing.                       *)
NoStaleResume == fate # "corrupt"

(* When the last worker leaves its idle loop for good, nothing remains to  *)
(* be done, although stopping() reads the queue and the event counter at   *)
(* two different moments.                                                  *)
Quiet == tasks = <<>> /\ active = 0 /\ pending = 0 /\ armed = {}
LastWorkerLeavesQuiet ==
  (Workers # {} /\ \A w \in Workers : idleco[w] = "end") => Quiet

(* The process goes on as long as there is work: it is not ended while a   *)
(* submitted job is unfinished.                                            *)
ExitQuiet == fate = "exited" => submitted = done

(* stop() returns only when every submitted job has finished.              *)
DrainedAtDone == mainpc = "done" => submitted = done

-----------------------------------------------------------------------------
(* Every behaviour of the scheduler is one of CoroutinePool: seen job by    *)
(* job, a step of a worker or of the owner moves one job as promised there, *)
(* or none.                                                                 *)
Place == [j \in Jobs |->
            CASE j \in done   -> "done"
              [] j \in armed  -> "waiting"
              [] j \in Queued -> "queued"
              [] j \in Held   -> "running"
              [] OTHER        -> "new"]
Pool == INSTANCE CoroutinePool WITH place <- Place
PoolSpec == Pool!Spec

-----------------------------------------------------------------------------
(* Liveness                                                                *)

(* Every queued job is eventually taken by a worker, pinned or not, unless *)
(* the process ends first.                                                 *)
Served == \A j \in Jobs : j \in Queued ~> (j \notin Queued \/ fate # "running")

(* A job whose event occurs is resumed and finishes; with it, every        *)
(* submitted job does.                                                     *)
Finishes == \A j \in Jobs : j \in submitted ~> (j \in done \/ fate # "running")

(* Once stop() waits for the workers, it returns or the process ends: no   *)
(* worker stays in its idle loop for ever.                                 *)
ShutsDown == mainpc = "join" ~> (mainpc = "done" \/ fate # "running")
=============================================================================
