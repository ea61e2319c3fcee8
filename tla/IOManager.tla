------------------------------ MODULE IOManager ------------------------------
(***************************************************************************)
(* The event registry of server::IOManager (src/iomananger) and the        *)
(* coroutines that use it through the hooked system calls (io_func in      *)
(* src/hook).  For every descriptor the code keeps the same information    *)
(* three times: FdContext::events, the waiting coroutine of each direction *)
(* in FdContext::read and ::write, and the interest list of epoll.  The    *)
(* operations keep them consistent under the mutex of the context, but     *)
(* epoll_wait reports events outside it: a report may be old when idle()   *)
(* gets to it.                                                             *)
(*                                                                         *)
(* Each operation is one critical section of FdContext::mutex.  Before it  *)
(* the context is looked up in m_fdContexts, which is resized when it is   *)
(* too small.  The size is read under the read lock and acted on under the *)
(* write lock: when another thread has grown the table further meanwhile,  *)
(* contextResize shrinks it.  The contexts it cuts off are not freed:      *)
(* epoll still points to them, and a later growth makes new ones.          *)
(***************************************************************************)
EXTENDS Integers, FiniteSets

CONSTANTS
  Fds,         \* socket descriptors; 0, 1 and 2 are the standard streams
  InitialSize, \* of m_fdContexts
  MaxContexts, \* bound: how many contexts of one descriptor are made
  Coros,       \* coroutines that read or write one descriptor each
  FdOf,        \* the descriptor of each coroutine
  EventOf,     \* its direction, READ or WRITE
  Workers,     \* threads that run IOManager::idle
  Nobody,      \* a null scheduler and coroutine in an EventContext
  MaxArrivals, \* bound: how often a descriptor becomes ready
  MaxCalls,    \* bound: how often del, cancel and cancelAll are called
  Fragile,     \* the descriptors whose peer may reset the connection
  Cancels      \* the <<descriptor, direction>> pairs cancelEvent is called for

Events == {"READ", "WRITE"}

Contexts == Fds \X (0 .. MaxContexts)   \* a descriptor and which of its contexts

ASSUME TableAssumption == Fds \subseteq Nat \ 0 .. 2 /\ InitialSize \in Nat /\ MaxContexts \in Nat
ASSUME CorosAssumption == /\ FdOf \in [Coros -> Fds] /\ EventOf \in [Coros -> Events]
                          /\ \A c, d \in Coros :
                               FdOf[c] = FdOf[d] /\ EventOf[c] = EventOf[d] => c = d
ASSUME NobodyAssumption == Nobody \notin Coros
ASSUME BoundAssumption  == MaxArrivals \in Nat /\ MaxCalls \in Nat
ASSUME CallsAssumption  == Fragile \subseteq Fds /\ Cancels \subseteq Fds \X Events
ASSUME FiniteAssumption == IsFiniteSet(Fds) /\ IsFiniteSet(Coros)

VARIABLES
  size,      \* m_fdContexts.size()
  latest,    \* which context of each descriptor was made last
  events,    \* FdContext::events
  waiter,    \* FdContext::read.co and ::write.co (with their scheduler)
  pending,   \* m_pendingEventCount
  interest,  \* epoll: the events asked for, whether edge triggered, data.ptr
  listed,    \* epoll: the descriptor is on its ready list
  ready,     \* the directions a system call would not wait for
  broken,    \* the descriptors whose connection is reset
  reports,   \* what each worker's last epoll_wait returned and is not served
  cpc,       \* where each coroutine is in io_func
  target,    \* the context addEvent has looked up for it
  woken,     \* how many tasks of each coroutine are queued in the scheduler
  arrivals,  \* how often each descriptor became ready (bounded)
  calls,     \* calls of del, cancel and cancelAll (bounded)
  fate       \* "ok", or "crash" once a null scheduler was dereferenced

sizeVars   == <<size, latest>>
tableVars  == <<events, waiter, pending>>
epollVars  == <<interest, listed>>
kernelVars == <<ready, broken, arrivals>>
coroVars   == <<cpc, target, woken>>
vars == <<sizeVars, tableVars, epollVars, kernelVars, coroVars, reports, calls, fate>>

-----------------------------------------------------------------------------
Absent(f) == [mask |-> {}, et |-> TRUE, ptr |-> <<f, 0>>]
Report    == [ctx : Contexts, mask : SUBSET Events, err : BOOLEAN]

Init ==
  /\ size = InitialSize /\ latest = [f \in Fds |-> 0]
  /\ events = [x \in Contexts |-> {}]
  /\ waiter = [x \in Contexts |-> [e \in Events |-> Nobody]]
  /\ pending = 0
  /\ interest = [f \in Fds |-> Absent(f)]
  /\ listed = [f \in Fds |-> FALSE]
  /\ ready = [f \in Fds |-> {}] /\ broken = {}
  /\ reports = [w \in Workers |-> {}]
  /\ cpc = [c \in Coros |-> "try"]
  /\ target = [c \in Coros |-> <<FdOf[c], 0>>]
  /\ woken = [c \in Coros |-> 0]
  /\ arrivals = [f \in Fds |-> 0]
  /\ calls = 0
  /\ fate = "ok"

(* epoll_ctl.  ADD needs an absent descriptor, MOD and DEL a present one;  *)
(* each puts a descriptor that is ready in a requested direction on the    *)
(* ready list.  DEL has an empty mask here.                                *)
CanCtl(f, op) == (op = "ADD") <=> (interest[f].mask = {})

Ctl(x, op, mask, et) ==
  LET f == x[1]
      m == IF op = "DEL" THEN {} ELSE mask
  IN  IF CanCtl(f, op)
        THEN /\ interest' = [interest EXCEPT ![f] =
                              IF m = {} THEN Absent(f) ELSE [mask |-> m, et |-> et, ptr |-> x]]
             /\ listed' = [listed EXCEPT ![f] = ready[f] \cap m # {}]
        ELSE UNCHANGED epollVars

(* m_fdContexts.  contextResize fills empty places with new contexts, of   *)
(* which the model has MaxContexts for each descriptor (a bound).          *)
InTable(f)   == f < size
ContextOf(f) == <<f, latest[f]>>
Resize(n) ==
  /\ size' = n
  /\ latest' = [f \in Fds |-> IF size <= f /\ f < n THEN latest[f] + 1 ELSE latest[f]]
  /\ \A f \in Fds : latest'[f] <= MaxContexts

(* Every event in evs has a coroutine; elsewhere the scheduler pointer     *)
(* that trigerEvent follows is null.                                       *)
Registered(x, evs) == \A e \in evs : waiter[x][e] # Nobody

(* The events a report stands for.  EPOLLERR or EPOLLHUP adds READ if it   *)
(* is registered; the code says EPOLLHUP where EPOLLOUT would add WRITE.   *)
RealEvents(r) == r.mask \cup (IF r.err THEN events[r.ctx] \cap {"READ"} ELSE {})

-----------------------------------------------------------------------------
(* Defective variants of definitions below, for mutation checks only.      *)

(* the event is taken out of the table, its coroutine is not               *)
TriggerKeepWaiter(x, evs) ==
  /\ events' = [events EXCEPT ![x] = @ \ evs]
  /\ woken' = [c \in Coros |->
                 IF \E e \in evs : waiter[x][e] = c THEN woken[c] + 1 ELSE woken[c]]
  /\ pending' = pending - Cardinality(evs)
  /\ UNCHANGED <<waiter, fate>>

(* the event counter is decremented once for both directions               *)
TriggerCountOnce(x, evs) ==
  /\ events' = [events EXCEPT ![x] = @ \ evs]
  /\ waiter' = [waiter EXCEPT ![x] = [e \in Events |-> IF e \in evs THEN Nobody ELSE @[e]]]
  /\ woken' = [c \in Coros |->
                 IF \E e \in evs : waiter[x][e] = c THEN woken[c] + 1 ELSE woken[c]]
  /\ pending' = pending - 1
  /\ fate' = IF Registered(x, evs) THEN fate ELSE "crash"

(* a descriptor with a remaining event is deleted from epoll               *)
AlwaysDel(mask) == "DEL"

-----------------------------------------------------------------------------
ModOrDel(mask) == IF mask # {} THEN "MOD" ELSE "DEL"

(* FdContext::trigerEvent for the events in evs: each of them leaves the   *)
(* table, its coroutine is queued, and m_pendingEventCount is decremented. *)
TriggerAll(x, evs) ==
  /\ events' = [events EXCEPT ![x] = @ \ evs]
  /\ waiter' = [waiter EXCEPT ![x] = [e \in Events |-> IF e \in evs THEN Nobody ELSE @[e]]]
  /\ woken' = [c \in Coros |->
                 IF \E e \in evs : waiter[x][e] = c THEN woken[c] + 1 ELSE woken[c]]
  /\ pending' = pending - Cardinality(evs)
  /\ fate' = IF Registered(x, evs) THEN fate ELSE "crash"

-----------------------------------------------------------------------------
(* Defective variants of definitions below, for mutation checks only.      *)

(* cancelEvent without its early return                                    *)
CancelUnchecked(f, e) ==
  LET x == ContextOf(f)
  IN  /\ fate = "ok" /\ calls < MaxCalls /\ calls' = calls + 1
      /\ <<f, e>> \in Cancels /\ InTable(f)
      /\ Ctl(x, ModOrDel(events[x] \ {e}), events[x], FALSE)
      /\ TriggerAll(x, {e})
      /\ UNCHANGED <<sizeVars, kernelVars, cpc, target, reports>>

(* cancelEvent takes the event out of the table and resumes nobody         *)
CancelSilent(f, e) ==
  LET x == ContextOf(f)
  IN  /\ fate = "ok" /\ calls < MaxCalls /\ calls' = calls + 1
      /\ <<f, e>> \in Cancels /\ InTable(f) /\ e \in events[x]
      /\ Ctl(x, ModOrDel(events[x] \ {e}), events[x], FALSE)
      /\ events' = [events EXCEPT ![x] = @ \ {e}]
      /\ waiter' = [waiter EXCEPT ![x][e] = Nobody]
      /\ pending' = pending - 1
      /\ UNCHANGED <<sizeVars, kernelVars, coroVars, reports, fate>>

(* idle() asks epoll again for the events it has just triggered            *)
ServeOldMask(w, r) ==
  LET x == r.ctx
  IN  /\ fate = "ok"
      /\ r \in reports[w]
      /\ reports' = [reports EXCEPT ![w] = @ \ {r}]
      /\ IF events[x] \cap RealEvents(r) = {}
           THEN UNCHANGED <<tableVars, epollVars, woken, fate>>
           ELSE /\ Ctl(x, ModOrDel(events[x] \ RealEvents(r)), events[x], TRUE)
                /\ TriggerAll(x, RealEvents(r))
      /\ UNCHANGED <<sizeVars, kernelVars, cpc, target, calls>>

(* a report is served without comparing it with the registered events      *)
ServeUnchecked(w, r) ==
  LET left == events[r.ctx] \ RealEvents(r)
  IN  /\ fate = "ok"
      /\ r \in reports[w]
      /\ reports' = [reports EXCEPT ![w] = @ \ {r}]
      /\ Ctl(r.ctx, ModOrDel(left), left, TRUE)
      /\ TriggerAll(r.ctx, RealEvents(r))
      /\ UNCHANGED <<sizeVars, kernelVars, cpc, target, calls>>

-----------------------------------------------------------------------------
(* A coroutine in io_func.  Only its own coroutine uses a direction of a   *)
(* descriptor, so what it finds ready it takes, and the next call waits    *)
(* again.  On a reset connection the call fails, and its caller gives up.  *)
TryOk(c) ==
  LET f == FdOf[c]
  IN  /\ fate = "ok" /\ cpc[c] = "try"
      /\ EventOf[c] \in ready[f]
      /\ ready' = IF f \in broken THEN ready ELSE [ready EXCEPT ![f] = @ \ {EventOf[c]}]
      /\ cpc' = [cpc EXCEPT ![c] = IF f \in broken THEN "failed" ELSE "try"]
      /\ UNCHANGED <<sizeVars, tableVars, epollVars, broken, arrivals, target, woken, reports, calls, fate>>

(* EAGAIN; addEvent reads the table under the read lock.                   *)
TryAgain(c) ==
  LET f == FdOf[c]
  IN  /\ fate = "ok" /\ cpc[c] = "try"
      /\ EventOf[c] \notin ready[f]
      /\ cpc' = [cpc EXCEPT ![c] = IF InTable(f) THEN "add" ELSE "grow"]
      /\ target' = [target EXCEPT ![c] = IF InTable(f) THEN ContextOf(f) ELSE @]
      /\ UNCHANGED <<sizeVars, tableVars, epollVars, kernelVars, woken, reports, calls, fate>>

(* contextResize(fd * 1.5) under the write lock, whatever the size is now. *)
Grow(c) ==
  LET f == FdOf[c]
  IN  /\ fate = "ok" /\ cpc[c] = "grow"
      /\ Resize((3 * f) \div 2)
      /\ target' = [target EXCEPT ![c] = <<f, latest'[f]>>]
      /\ cpc' = [cpc EXCEPT ![c] = "add"]
      /\ UNCHANGED <<tableVars, epollVars, kernelVars, woken, reports, calls, fate>>

(* The rest of addEvent.  The context is written before epoll_ctl and      *)
(* stays written when that fails; io_func then returns the error.          *)
AddEvent(c) ==
  LET x   == target[c]
      e   == EventOf[c]
      new == events[x] \cup {e}
      op  == IF events[x] # {} THEN "MOD" ELSE "ADD"
  IN  /\ fate = "ok" /\ cpc[c] = "add"
      /\ events' = [events EXCEPT ![x] = new]
      /\ waiter' = [waiter EXCEPT ![x][e] = c]
      /\ Ctl(x, op, new, TRUE)
      /\ pending' = IF CanCtl(x[1], op) THEN pending + 1 ELSE pending
      /\ cpc' = [cpc EXCEPT ![c] = IF CanCtl(x[1], op) THEN "wait" ELSE "failed"]
      /\ UNCHANGED <<sizeVars, kernelVars, target, woken, reports, calls, fate>>

(* The scheduler runs the task that a trigger queued: goto Retry.          *)
Resume(c) ==
  /\ fate = "ok" /\ cpc[c] = "wait"
  /\ woken[c] > 0
  /\ woken' = [woken EXCEPT ![c] = @ - 1]
  /\ cpc' = [cpc EXCEPT ![c] = "try"]
  /\ UNCHANGED <<sizeVars, tableVars, epollVars, kernelVars, target, reports, calls, fate>>

-----------------------------------------------------------------------------
(* The calls other coroutines and timers make, counted in calls.           *)
Call == fate = "ok" /\ calls < MaxCalls /\ calls' = calls + 1

(* On a descriptor beyond the table a call enlarges it and finds nothing.  *)
CallBeyond(f) ==
  /\ Call /\ ~InTable(f)
  /\ Resize((3 * f) \div 2)
  /\ UNCHANGED <<tableVars, epollVars, kernelVars, coroVars, reports, fate>>

(* delEvent: the waiting coroutine is dropped, not resumed.                *)
DelEvent(f, e) ==
  LET x   == ContextOf(f)
      new == events[x] \ {e}
  IN  /\ Call /\ InTable(f)
      /\ e \in events[x]
      /\ events' = [events EXCEPT ![x] = new]
      /\ waiter' = [waiter EXCEPT ![x][e] = Nobody]
      /\ Ctl(x, ModOrDel(new), new, FALSE)
      /\ pending' = pending - 1
      /\ cpc' = [cpc EXCEPT ![waiter[x][e]] = "dropped"]
      /\ UNCHANGED <<sizeVars, kernelVars, target, woken, reports, fate>>

(* cancelEvent.  Its guard reads !ctx->events & ev: it returns early only  *)
(* when no event at all is registered and ev is READ (1 & 1; for WRITE it  *)
(* is 1 & 4).  MOD repeats the old mask, without EPOLLET.  The timer of    *)
(* io_func that calls it may be late: the event may have fired.            *)
CancelEvent(f, e) ==
  LET x == ContextOf(f)
  IN  /\ Call /\ InTable(f)
      /\ <<f, e>> \in Cancels
      /\ ~(events[x] = {} /\ e = "READ")
      /\ Ctl(x, ModOrDel(events[x] \ {e}), events[x], FALSE)
      /\ TriggerAll(x, {e})
      /\ UNCHANGED <<sizeVars, kernelVars, cpc, target, reports>>

CancelAll(f) ==
  LET x == ContextOf(f)
  IN  /\ Call /\ InTable(f)
      /\ events[x] # {}
      /\ Ctl(x, "DEL", {}, TRUE)
      /\ TriggerAll(x, events[x])
      /\ UNCHANGED <<sizeVars, kernelVars, cpc, target, reports>>

-----------------------------------------------------------------------------
(* The kernel: a descriptor becomes ready in a direction.                  *)
Arrive(f, e) ==
  /\ fate = "ok"
  /\ arrivals[f] < MaxArrivals /\ e \notin ready[f]
  /\ arrivals' = [arrivals EXCEPT ![f] = @ + 1]
  /\ ready' = [ready EXCEPT ![f] = @ \cup {e}]
  /\ listed' = [listed EXCEPT ![f] = @ \/ e \in interest[f].mask]
  /\ UNCHANGED <<sizeVars, tableVars, interest, broken, coroVars, reports, calls, fate>>

(* The peer resets the connection: both directions return at once, and     *)
(* epoll reports them with EPOLLERR and EPOLLHUP.                          *)
Break(f) ==
  /\ fate = "ok" /\ f \in Fragile \ broken
  /\ broken' = broken \cup {f}
  /\ ready' = [ready EXCEPT ![f] = Events]
  /\ listed' = [listed EXCEPT ![f] = interest[f].mask # {}]
  /\ UNCHANGED <<sizeVars, tableVars, interest, arrivals, coroVars, reports, calls, fate>>

(* epoll_wait returns the listed descriptors with what is ready of the     *)
(* events asked for; an edge triggered descriptor leaves the list.         *)
EpollWait(w) ==
  LET hits == {f \in Fds : listed[f] /\ ready[f] \cap interest[f].mask # {}}
  IN  /\ fate = "ok" /\ reports[w] = {}
      /\ hits # {}
      /\ reports' = [reports EXCEPT ![w] =
                       {[ctx |-> interest[f].ptr, mask |-> ready[f] \cap interest[f].mask,
                         err |-> f \in broken] : f \in hits}]
      /\ listed' = [f \in Fds |-> listed[f] /\ (f \in hits => ~interest[f].et)]
      /\ UNCHANGED <<sizeVars, tableVars, interest, kernelVars, coroVars, calls, fate>>

(* idle() serves one report.  The code compares it with ctx->events as a   *)
(* whole and then triggers every reported direction.                       *)
Serve(w, r) ==
  LET left == events[r.ctx] \ RealEvents(r)
  IN  /\ fate = "ok"
      /\ r \in reports[w]
      /\ reports' = [reports EXCEPT ![w] = @ \ {r}]
      /\ IF events[r.ctx] \cap RealEvents(r) = {}
           THEN UNCHANGED <<tableVars, epollVars, woken, fate>>
           ELSE /\ Ctl(r.ctx, ModOrDel(left), left, TRUE)
                /\ TriggerAll(r.ctx, RealEvents(r))
      /\ UNCHANGED <<sizeVars, kernelVars, cpc, target, calls>>

-----------------------------------------------------------------------------
Coroutine(c) == TryOk(c) \/ TryAgain(c) \/ Grow(c) \/ AddEvent(c) \/ Resume(c)
Idle(w)      == EpollWait(w) \/ \E r \in Report : Serve(w, r)
Caller       == \E f \in Fds :
                  CallBeyond(f) \/ CancelAll(f) \/ \E e \in Events : DelEvent(f, e) \/ CancelEvent(f, e)
Kernel       == \E f \in Fds : Break(f) \/ \E e \in Events : Arrive(f, e)

Next == (\E c \in Coros : Coroutine(c)) \/ (\E w \in Workers : Idle(w)) \/ Caller \/ Kernel

Spec == Init /\ [][Next]_vars

(* Workers poll and serve for ever and the scheduler runs queued tasks;    *)
(* nothing obliges a peer to send or a caller to cancel.                   *)
FairSpec ==
  /\ Spec
  /\ \A c \in Coros : WF_vars(Coroutine(c))
  /\ \A w \in Workers : WF_vars(Idle(w))

-----------------------------------------------------------------------------
TypeOK ==
  /\ size \in Nat /\ latest \in [Fds -> 0 .. MaxContexts]
  /\ events \in [Contexts -> SUBSET Events]
  /\ waiter \in [Contexts -> [Events -> Coros \cup {Nobody}]]
  /\ pending \in 0 .. Cardinality(Coros)
  /\ interest \in [Fds -> [mask : SUBSET Events, et : BOOLEAN, ptr : Contexts]]
  /\ listed \in [Fds -> BOOLEAN]
  /\ ready \in [Fds -> SUBSET Events] /\ broken \subseteq Fragile
  /\ reports \in [Workers -> SUBSET Report]
  /\ cpc \in [Coros -> {"try", "grow", "add", "wait", "failed", "dropped"}]
  /\ target \in [Coros -> Contexts]
  /\ woken \in [Coros -> 0 .. 1]
  /\ arrivals \in [Fds -> 0 .. MaxArrivals] /\ calls \in 0 .. MaxCalls
  /\ fate \in {"ok", "crash"}

(* No step dereferences the null scheduler of an event that is not         *)
(* registered, however old the report is that it acts on.                  *)
NoCrash == fate = "ok"

(* A coroutine inside yieldtohold has exactly one thing that will resume   *)
(* it, its registration or its queued task, and no other coroutine has     *)
(* either: it is neither stranded nor resumed twice, even when its context *)
(* is cut off the table.                                                   *)
OneWakeSource ==
  \A c \in Coros :
    LET registrations == {x \in Contexts : waiter[x][EventOf[c]] = c}
    IN  Cardinality(registrations) + woken[c] = IF cpc[c] = "wait" THEN 1 ELSE 0

(* The three copies agree: an event is set exactly when its coroutine is   *)
(* recorded, epoll is asked for exactly the events that are set, and it    *)
(* points to the context that has them.                                    *)
CopiesAgree ==
  /\ \A x \in Contexts :
       /\ events[x] = {e \in Events : waiter[x][e] # Nobody}
       /\ events[x] # {} => interest[x[1]].ptr = x
  /\ \A f \in Fds : interest[f].mask = events[interest[f].ptr]

(* m_pendingEventCount counts the registered events: shutdown waits for    *)
(* exactly the coroutines that will still be resumed.                      *)
PendingExact == pending = Cardinality({y \in Contexts \X Events : y[2] \in events[y[1]]})

(* No wake-up is lost: when a direction is ready, the coroutine that waits *)
(* for it is eventually resumed, although the edge may come before,        *)
(* between or after the registrations of both directions.                  *)
WakesUp ==
  \A c \in Coros :
    (cpc[c] = "wait" /\ EventOf[c] \in ready[FdOf[c]]) ~> (cpc[c] # "wait" \/ fate # "ok")
=============================================================================
