---------------------------- MODULE TimerManager ----------------------------
(***************************************************************************)
(* The timers of src/time: a set ordered by expiry time, in which threads  *)
(* insert, cancel, refresh and reset timers while the workers of the       *)
(* IOManager collect the expired ones.                                     *)
(*                                                                         *)
(* Every operation holds m_mutex, but listExpiredCb hands its lock to      *)
(* addTimer when it puts the first recurring timer back; addTimer unlocks, *)
(* and the rest of the loop runs without the lock.  An operation of        *)
(* another thread may then overlap an access to the set or to a timer: a   *)
(* data race, after which nothing is known (fate is "corrupt").            *)
(***************************************************************************)
EXTENDS Integers

CONSTANTS
  Threads,    \* threads that use the manager
  Pollers,    \* those of them that run IOManager::idle
  Timers,
  Recurring,  \* the timers created with recurring = true
  Delays,     \* periods in milliseconds
  MaxTime,    \* bound on the clock, for TLC
  NoThread

ASSUME PollersAssumption   == Pollers \subseteq Threads
ASSUME RecurringAssumption == Recurring \subseteq Timers
ASSUME DelaysAssumption    == Delays \subseteq Nat
ASSUME NoThreadAssumption  == NoThread \notin Threads

VARIABLES
  now,       \* GetCurrentMS()
  owner,     \* the thread that holds m_mutex across steps, or NoThread
  timers,    \* m_timers
  created,   \* the timers that have been constructed
  next,      \* m_next of each timer
  ms,        \* m_ms of each timer
  hascb,     \* whether m_cb of each timer is set
  pc,        \* "idle", "insert" (addTimer), "wait", "list", "loop" (polling)
  stamp,     \* now_ms of listExpiredCb
  batch,     \* the timers a thread has in its hands: val, or expired
  copies,    \* how many copies of each callback wait in cbs or as a task
  erased,    \* the timers a cancel() has found and erased
  collected, \* the timers whose callback was copied at least once
  fate       \* "running" or "corrupt"

timerVars   == <<created, next, ms, hascb>>
threadVars  == <<pc, stamp, batch>>
historyVars == <<copies, erased, collected>>
vars == <<now, owner, timers, timerVars, threadVars, historyVars, fate>>

Init ==
  /\ now = 0 /\ owner = NoThread
  /\ timers = {} /\ created = {}
  /\ next = [t \in Timers |-> 0] /\ ms = [t \in Timers |-> 0]
  /\ hascb = [t \in Timers |-> FALSE]
  /\ pc = [p \in Threads |-> "idle"]
  /\ stamp = [p \in Threads |-> 0]
  /\ batch = [p \in Threads |-> {}]
  /\ copies = [t \in Timers |-> 0] /\ erased = {} /\ collected = {}
  /\ fate = "running"

At(p, label)   == fate = "running" /\ pc[p] = label
Goto(p, label) == pc' = [pc EXCEPT ![p] = label]

(* A timer is known to others once addTimer has inserted it.               *)
InHands(t) == \E p \in Threads : t \in batch[p]
Known(t)   == t \in created /\ \A p \in Threads : pc[p] = "insert" => t \notin batch[p]

(* Whether an access of p to the set and to timer t may overlap one that   *)
(* another thread makes in the part of its loop that has no lock.          *)
Races(p, t) ==
  \E q \in Threads \ {p} :
    /\ pc[q] = "loop" /\ owner # q
    /\ t \in batch[q] \/ batch[q] \cap Recurring # {}

Access(p, t) == fate' \in {"running"} \cup IF Races(p, t) THEN {"corrupt"} ELSE {}

-----------------------------------------------------------------------------
(* Defective variants of definitions below, for mutation checks only.      *)

(* cancel() drops the callback and leaves the timer in the set             *)
CancelKeep(p, t) ==
  /\ At(p, "idle") /\ owner = NoThread /\ Known(t)
  /\ hascb[t]
  /\ hascb' = [hascb EXCEPT ![t] = FALSE]
  /\ timers' = timers
  /\ erased' = erased \cup (timers \cap {t})
  /\ Access(p, t)
  /\ UNCHANGED <<now, owner, created, next, ms, threadVars, copies, collected>>

(* refresh() does not look whether the timer is still in the set           *)
RefreshUnchecked(p, t) ==
  /\ At(p, "idle") /\ owner = NoThread /\ Known(t)
  /\ hascb[t]
  /\ next' = [next EXCEPT ![t] = now + ms[t]]
  /\ timers' = timers \cup {t}
  /\ Access(p, t)
  /\ UNCHANGED <<now, owner, created, ms, hascb, threadVars, historyVars>>

(* reset() erases the timer and forgets to insert it again                 *)
ResetNoInsert(p, t, d, fromNow) ==
  /\ At(p, "idle") /\ owner = NoThread /\ Known(t)
  /\ d # ms[t] \/ fromNow
  /\ hascb[t] /\ t \in timers
  /\ ms' = [ms EXCEPT ![t] = d]
  /\ next' = [next EXCEPT ![t] = (IF fromNow THEN now ELSE @ - ms[t]) + d]
  /\ timers' = timers \ {t}
  /\ Access(p, t)
  /\ UNCHANGED <<now, owner, created, hascb, threadVars, historyVars>>

(* a timer that expires in this very millisecond is left in the set        *)
ExpiredStrict(time) == {t \in timers : next[t] < time}

(* returning without an expired timer keeps the lock                       *)
CollectKeepLock(p) ==
  /\ At(p, "list") /\ owner = NoThread
  /\ \A t \in timers : next[t] > stamp[p]
  /\ owner' = p
  /\ Goto(p, "idle")
  /\ UNCHANGED <<now, timers, timerVars, stamp, batch, historyVars, fate>>

-----------------------------------------------------------------------------
(* TimerManager::addTimer(ms, cb, recurring): the constructor reads the    *)
(* clock before the lock is taken; then the timer is inserted.             *)
Construct(p, t, d) ==
  /\ At(p, "idle") /\ t \notin created
  /\ created' = created \cup {t}
  /\ next' = [next EXCEPT ![t] = now + d]
  /\ ms' = [ms EXCEPT ![t] = d]
  /\ hascb' = [hascb EXCEPT ![t] = TRUE]
  /\ batch' = [batch EXCEPT ![p] = {t}]
  /\ Goto(p, "insert")
  /\ UNCHANGED <<now, owner, timers, stamp, historyVars, fate>>

Insert(p) ==
  /\ At(p, "insert") /\ owner = NoThread
  /\ timers' = timers \cup batch[p]
  /\ batch' = [batch EXCEPT ![p] = {}]
  /\ Goto(p, "idle")
  /\ \E t \in batch[p] : Access(p, t)
  /\ UNCHANGED <<now, owner, timerVars, stamp, historyVars>>

(* Timer::cancel.  Without a callback nothing happens, except that the     *)
(* function ends without a return statement; no caller uses the result.    *)
Cancel(p, t) ==
  /\ At(p, "idle") /\ owner = NoThread /\ Known(t)
  /\ hascb[t]
  /\ hascb' = [hascb EXCEPT ![t] = FALSE]
  /\ timers' = timers \ {t}
  /\ erased' = erased \cup (timers \cap {t})
  /\ Access(p, t)
  /\ UNCHANGED <<now, owner, created, next, ms, threadVars, copies, collected>>

(* Timer::refresh                                                          *)
Refresh(p, t) ==
  /\ At(p, "idle") /\ owner = NoThread /\ Known(t)
  /\ hascb[t] /\ t \in timers
  /\ next' = [next EXCEPT ![t] = now + ms[t]]
  /\ Access(p, t)
  /\ UNCHANGED <<now, owner, timers, created, ms, hascb, threadVars, historyVars>>

(* Timer::reset                                                            *)
Reset(p, t, d, fromNow) ==
  /\ At(p, "idle") /\ owner = NoThread /\ Known(t)
  /\ d # ms[t] \/ fromNow
  /\ hascb[t] /\ t \in timers
  /\ ms' = [ms EXCEPT ![t] = d]
  /\ next' = [next EXCEPT ![t] = (IF fromNow THEN now ELSE @ - ms[t]) + d]
  /\ Access(p, t)
  /\ UNCHANGED <<now, owner, timers, created, hascb, threadVars, historyVars>>

-----------------------------------------------------------------------------
(* A worker polls only when it has found no task: Scheduler::run, idle().  *)
Wait(p) ==
  /\ p \in Pollers /\ At(p, "idle")
  /\ \A t \in Timers : copies[t] = 0
  /\ Goto(p, "wait")
  /\ UNCHANGED <<now, owner, timers, timerVars, stamp, batch, historyVars, fate>>

(* TimerManager::listExpiredCb reads the clock before it takes the lock.   *)
ReadClock(p) ==
  /\ At(p, "wait")
  /\ stamp' = [stamp EXCEPT ![p] = now]
  /\ Goto(p, "list")
  /\ UNCHANGED <<now, owner, timers, timerVars, batch, historyVars, fate>>

(* lower_bound, moved on over equal times                                  *)
Expired(time) == {t \in timers : next[t] <= time}

(* Nothing has expired: the function returns and unlocks.                  *)
CollectNone(p) ==
  /\ At(p, "list") /\ owner = NoThread
  /\ Expired(stamp[p]) = {}
  /\ Goto(p, "idle")
  /\ UNCHANGED <<now, owner, timers, timerVars, stamp, batch, historyVars, fate>>

(* The expired timers leave the set; the lock is kept for the loop.        *)
Collect(p) ==
  /\ At(p, "list") /\ owner = NoThread
  /\ Expired(stamp[p]) # {}
  /\ batch' = [batch EXCEPT ![p] = Expired(stamp[p])]
  /\ timers' = timers \ Expired(stamp[p])
  /\ owner' = p
  /\ Goto(p, "loop")
  /\ \E t \in Expired(stamp[p]) : Access(p, t)
  /\ UNCHANGED <<now, timerVars, stamp, historyVars>>

(* One turn of the loop, in the order of the set: the callback is copied   *)
(* (addTask drops an empty one); a recurring timer is put back, which      *)
(* unlocks; any other one loses its callback.  At the end the lock is      *)
(* released if it is still held, and idle() queues the copies.             *)
Handle(p, t) ==
  /\ At(p, "loop") /\ t \in batch[p]
  /\ \A u \in batch[p] : next[t] <= next[u]
  /\ copies' = IF hascb[t] THEN [copies EXCEPT ![t] = @ + 1] ELSE copies
  /\ collected' = IF hascb[t] THEN collected \cup {t} ELSE collected
  /\ IF t \in Recurring
       THEN /\ next' = [next EXCEPT ![t] = stamp[p] + ms[t]]
            /\ timers' = timers \cup {t}
            /\ hascb' = hascb
       ELSE /\ hascb' = [hascb EXCEPT ![t] = FALSE]
            /\ UNCHANGED <<next, timers>>
  /\ batch' = [batch EXCEPT ![p] = @ \ {t}]
  /\ pc' = [pc EXCEPT ![p] = IF batch[p] = {t} THEN "idle" ELSE "loop"]
  /\ owner' = IF owner = p /\ (t \in Recurring \/ batch[p] = {t}) THEN NoThread ELSE owner
  /\ Access(p, t)
  /\ UNCHANGED <<now, created, ms, stamp, erased>>

(* A worker runs a callback that was queued (or is about to be: cbs of     *)
(* another worker counts as queued).                                       *)
Call(p, t) ==
  /\ p \in Pollers /\ At(p, "idle") /\ copies[t] > 0
  /\ copies' = [copies EXCEPT ![t] = @ - 1]
  /\ UNCHANGED <<now, owner, timers, timerVars, threadVars, erased, collected, fate>>

(* Time passes, up to the bound.                                           *)
Tick ==
  /\ fate = "running" /\ now < MaxTime
  /\ now' = now + 1
  /\ UNCHANGED <<owner, timers, timerVars, threadVars, historyVars, fate>>

Poll(p) == Wait(p) \/ ReadClock(p) \/ CollectNone(p) \/ Collect(p) \/ \E t \in Timers : Handle(p, t)

Operate(p, t) ==
  \/ Cancel(p, t) \/ Refresh(p, t)
  \/ \E d \in Delays : Construct(p, t, d) \/ \E fromNow \in BOOLEAN : Reset(p, t, d, fromNow)

Next ==
  \/ \E p \in Threads : Poll(p) \/ Insert(p)
  \/ \E p \in Threads, t \in Timers : Operate(p, t) \/ Call(p, t)
  \/ Tick

Spec == Init /\ [][Next]_vars

(* A worker runs the tasks it finds and otherwise polls, and epoll_wait    *)
(* does not sleep for ever; a thread inside an operation goes on.          *)
FairSpec ==
  Spec /\ \A p \in Threads :
            WF_vars(Poll(p)) /\ WF_vars(Insert(p)) /\ WF_vars(\E t \in Timers : Call(p, t))

-----------------------------------------------------------------------------
TypeOK ==
  /\ now \in Nat /\ owner \in Threads \cup {NoThread}
  /\ timers \subseteq created /\ created \subseteq Timers
  /\ next \in [Timers -> Int] /\ ms \in [Timers -> Nat] /\ hascb \in [Timers -> BOOLEAN]
  /\ pc \in [Threads -> {"idle", "insert", "wait", "list", "loop"}]
  /\ stamp \in [Threads -> Nat]
  /\ batch \in [Threads -> SUBSET created]
  /\ copies \in [Timers -> Nat]
  /\ erased \subseteq created /\ collected \subseteq created
  /\ fate \in {"running", "corrupt"}
  /\ \A p \in Threads : batch[p] # {} <=> pc[p] \in {"insert", "loop"}
  /\ owner # NoThread => pc[owner] = "loop"

(* Once cancel() has found a timer and erased it, the timer never returns  *)
(* to the set and its callback is not queued again, although workers that  *)
(* collect expired timers put recurring ones back without the lock.        *)
CancelIsFinal == [][\A t \in erased : t \notin timers' /\ copies'[t] <= copies[t]]_vars

(* A timer that is not recurring is called at most once: after its         *)
(* callback was copied, no refresh, reset or worker brings it back.        *)
OneShotOnce == \A t \in collected \ Recurring : t \notin timers /\ ~InHands(t)

(* No timer is lost: as long as it has its callback it is in the set, or a *)
(* thread has it in its hands and will put it there or call it.            *)
Kept == \A t \in created : hascb[t] => t \in timers \/ InHands(t)

(* A timer whose time has come leaves the set, unless it is put off.       *)
Expires ==
  \A t \in Timers :
    t \in timers /\ next[t] <= now ~> t \notin timers \/ next[t] > now \/ fate = "corrupt"
=============================================================================
