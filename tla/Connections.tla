----------------------------- MODULE Connections -----------------------------
(***************************************************************************)
(* The life of descriptors: the acceptor of TcpServer, the handlers of its *)
(* connections, the hooked accept, recv, send and close, FdManager, the    *)
(* registry of IOManager and the descriptor table of the kernel, which     *)
(* gives the lowest free number to the next connection.                    *)
(*                                                                         *)
(* Listener is the listening socket and the coroutine of handleAccept; a   *)
(* connection is a socket and the coroutine of its handleClient, which     *)
(* answers what it receives; what the answer is does not matter here       *)
(* (KVServer).  Reports of epoll_wait are served at once here and become   *)
(* old in IOManager.                                                       *)
(***************************************************************************)
EXTENDS Integers, FiniteSets

CONSTANTS
  Conns,     \* connections that clients make
  Listener,
  Descs,     \* the descriptor numbers the process may use
  Workers,   \* number of worker threads
  Senders,   \* connections whose clients send
  MaxSends,  \* bound: how often clients send
  Nobody     \* a free descriptor, no coroutine

Sockets == Conns \cup {Listener}
Events  == {"READ", "WRITE"}

ASSUME NamesAssumption   == Listener \notin Conns /\ Nobody \notin Sockets /\ Senders \subseteq Conns
ASSUME FiniteAssumption  == IsFiniteSet(Conns) /\ IsFiniteSet(Descs)
ASSUME DescsAssumption   == Descs \subseteq Nat /\ Descs # {}
ASSUME WorkersAssumption == Workers \in Nat /\ MaxSends \in Nat

VARIABLES
  \* the kernel
  table,     \* the socket behind each descriptor
  nonblock,  \* the sockets with O_NONBLOCK
  interest,  \* the events epoll has been asked for
  made,      \* connections that were ever made
  backlog,   \* connections that wait to be accepted
  unread,    \* connections with data to read
  ended,     \* connections whose client has ended its side; it reads on
  full,      \* connections whose client has to read before more can be sent
  sends,     \* how often clients have sent (bounded)
  \* the process
  fdctx,     \* FdManager::m_datas: no FdCtx, that of a socket, or of none
  waiter,    \* FdContext::read and ::write of each descriptor
  pending,   \* m_pendingEventCount
  stopped,   \* TcpServer::mIsStop
  \* its coroutines
  pc,
  fd,        \* Socket::m_sockfd
  op,        \* the event the call in io_func may wait for
  seen,      \* the FdCtx that io_func has got
  closes,    \* how many calls of close() are left
  client,    \* the connection the acceptor has just accepted
  fate       \* "ok"; "abort": an assert failed; "corrupt": see Wake

clientVars == <<made, backlog, unread, ended, full, sends>>
fileVars   == <<table, nonblock>>
registry   == <<interest, waiter, pending>>
taskVars   == <<fd, op, seen, closes, client>>
vars == <<clientVars, fileVars, registry, fdctx, stopped, pc, taskVars, fate>>

Waiting == {"new", "queued", "wait", "woken", "done"}  \* not on a thread
Serving == {"loop", "call", "try", "add", "lookup", "create", "spawn"}
Closing == {"close", "cancel", "del", "closefd"}

First == CHOOSE d \in Descs : \A e \in Descs : d <= e

(* TcpServer::bind and start have run: the listening socket is registered  *)
(* with FdManager by the hooked socket(), and handleAccept is queued.      *)
Init ==
  /\ table = [d \in Descs |-> IF d = First THEN Listener ELSE Nobody]
  /\ nonblock = {Listener} /\ interest = [d \in Descs |-> {}]
  /\ made = {} /\ backlog = {} /\ unread = {} /\ ended = {} /\ full = {} /\ sends = 0
  /\ fdctx = [d \in Descs |-> IF d = First THEN "socket" ELSE "none"]
  /\ waiter = [d \in Descs |-> [e \in Events |-> Nobody]] /\ pending = 0
  /\ stopped = FALSE
  /\ pc = [k \in Sockets |-> IF k = Listener THEN "queued" ELSE "new"]
  /\ fd = [k \in Sockets |-> First] /\ op = [k \in Sockets |-> "READ"]
  /\ seen = [k \in Sockets |-> "none"]
  /\ closes = [k \in Sockets |-> 0]
  /\ client = Nobody /\ fate = "ok"

Running     == {k \in Sockets : pc[k] \notin Waiting}
FreeWorker  == Cardinality(Running) < Workers
At(k, l)    == fate = "ok" /\ pc[k] = l
Goto(k, l)  == pc' = [pc EXCEPT ![k] = l]
Target(k)   == table[fd[k]]
Free        == {d \in Descs : table[d] = Nobody}
Lowest(S)   == CHOOSE d \in S : \A e \in S : d <= e

(* A call for e on the socket s would not block.                           *)
Ready(s, e) ==
  IF e = "WRITE" THEN s \notin full
  ELSE IF s = Listener THEN backlog # {} ELSE s \in unread \cup ended

Registered(d) == {e \in Events : waiter[d][e] # Nobody}

(* trigerEvent for the events in evs of a descriptor.  A coroutine that is *)
(* not in yieldtohold would be queued a second time, or after its end.     *)
Trigger(d, evs) ==
  /\ waiter' = [waiter EXCEPT ![d] = [e \in Events |-> IF e \in evs THEN Nobody ELSE @[e]]]
  /\ pending' = pending - Cardinality(evs)
  /\ fate' = IF \A e \in evs : waiter[d][e] # Nobody /\ pc[waiter[d][e]] = "wait"
               THEN fate ELSE "corrupt"
Woken(d, evs) ==
  [k \in Sockets |-> IF pc[k] = "wait" /\ \E e \in evs : waiter[d][e] = k THEN "woken" ELSE pc[k]]

(* Where a call that returns -1 leads: handleAccept tries again,           *)
(* handleClient closes the socket or does not look at the result of send.  *)
Fail(k) ==
  LET ends == k # Listener /\ op[k] = "READ"
  IN  /\ Goto(k, IF k = Listener THEN "loop" ELSE IF ends THEN "close" ELSE "call")
      /\ closes' = [closes EXCEPT ![k] = IF ends THEN 1 ELSE @]
      /\ op' = [op EXCEPT ![k] = "READ"]

-----------------------------------------------------------------------------
(* Defective variants of definitions below, for mutation checks only.      *)

(* cancelAll does not ask whether an event is registered                   *)
CancelAllUnchecked(k) ==
  /\ At(k, "cancel")
  /\ Goto(k, "del")
  /\ pending' = pending - 1
  /\ UNCHANGED <<clientVars, fileVars, interest, waiter, fdctx, stopped, taskVars, fate>>

(* the hooked close() leaves the FdCtx in FdManager                        *)
DelForgotten(k) ==
  /\ At(k, "del")
  /\ Goto(k, "closefd")
  /\ UNCHANGED <<clientVars, fileVars, registry, fdctx, stopped, taskVars, fate>>

(* a triggered event is not counted off                                    *)
PollKeepCount(d) ==
  LET real == {e \in interest[d] : Ready(table[d], e)}
  IN  /\ fate = "ok" /\ FreeWorker
      /\ real \cap Registered(d) # {}
      /\ interest' = [interest EXCEPT ![d] = Registered(d) \ real]
      /\ waiter' = [waiter EXCEPT ![d] = [e \in Events |-> IF e \in real THEN Nobody ELSE @[e]]]
      /\ pc' = Woken(d, real)
      /\ UNCHANGED <<clientVars, fileVars, pending, fdctx, stopped, taskVars, fate>>

(* a call that would block is reported as an error                         *)
AgainFails(k) ==
  /\ At(k, "try") /\ Target(k) # Nobody
  /\ ~Ready(Target(k), op[k]) /\ Target(k) \in nonblock
  /\ Fail(k)
  /\ UNCHANGED <<clientVars, fileVars, registry, fdctx, stopped, fd, seen, client, fate>>

(* accept() takes a connection only when a second one waits                *)
AcceptLate ==
  /\ At(Listener, "try") /\ Cardinality(backlog) > 1 /\ Free # {}
  /\ \E c \in backlog :
       /\ backlog' = backlog \ {c}
       /\ table' = [table EXCEPT ![Lowest(Free)] = c]
       /\ fd' = [fd EXCEPT ![c] = Lowest(Free)]
       /\ client' = c
  /\ Goto(Listener, "lookup")
  /\ UNCHANGED <<made, unread, ended, full, sends, nonblock, registry, fdctx, stopped, op, seen, closes, fate>>

(* a handler whose client has ended returns and leaves its socket open     *)
RecvEndLeak(k) ==
  /\ k \in Conns /\ At(k, "try")
  /\ Target(k) \in ended \ unread
  /\ Goto(k, "done")
  /\ UNCHANGED <<clientVars, fileVars, registry, fdctx, stopped, taskVars, fate>>

-----------------------------------------------------------------------------
(* A worker that is free takes a task.                                     *)
Run(k) ==
  /\ fate = "ok" /\ FreeWorker
  /\ \/ pc[k] = "queued" /\ Goto(k, IF k = Listener THEN "loop" ELSE "call")
     \/ pc[k] = "woken" /\ Goto(k, "try")
  /\ UNCHANGED <<clientVars, fileVars, registry, fdctx, stopped, taskVars, fate>>

(* TcpServer::handleAccept: while(!mIsStop)                                *)
Loop ==
  /\ At(Listener, "loop")
  /\ Goto(Listener, IF stopped THEN "close" ELSE "call")
  /\ closes' = [closes EXCEPT ![Listener] = IF stopped THEN 1 ELSE 0]
  /\ UNCHANGED <<clientVars, fileVars, registry, fdctx, stopped, fd, op, seen, client, fate>>

(* io_func gets the FdCtx of its descriptor, before the first attempt only.*)
Get(k) ==
  /\ At(k, "call")
  /\ seen' = [seen EXCEPT ![k] = fdctx[fd[k]]]
  /\ Goto(k, "try")
  /\ UNCHANGED <<clientVars, fileVars, registry, fdctx, stopped, fd, op, closes, client, fate>>

(* accept_f succeeds.                                                      *)
Accept ==
  /\ At(Listener, "try") /\ backlog # {} /\ Free # {}
  /\ \E c \in backlog :
       /\ backlog' = backlog \ {c}
       /\ table' = [table EXCEPT ![Lowest(Free)] = c]
       /\ fd' = [fd EXCEPT ![c] = Lowest(Free)]
       /\ client' = c
  /\ Goto(Listener, "lookup")
  /\ UNCHANGED <<made, unread, ended, full, sends, nonblock, registry, fdctx, stopped, op, seen, closes, fate>>

(* recv_f returns data, which the handler answers with send.               *)
RecvData(k) ==
  /\ k \in Conns /\ At(k, "try") /\ op[k] = "READ"
  /\ Target(k) \in unread
  /\ unread' = unread \ {Target(k)}
  /\ op' = [op EXCEPT ![k] = "WRITE"]
  /\ Goto(k, "call")
  /\ UNCHANGED <<made, backlog, ended, full, sends, fileVars, registry, fdctx, stopped, fd, seen, closes, client, fate>>

(* recv_f returns 0: handleClient calls close() twice.                     *)
RecvEnd(k) ==
  /\ k \in Conns /\ At(k, "try") /\ op[k] = "READ"
  /\ Target(k) \in ended \ unread
  /\ closes' = [closes EXCEPT ![k] = 2]
  /\ Goto(k, "close")
  /\ UNCHANGED <<clientVars, fileVars, registry, fdctx, stopped, fd, op, seen, client, fate>>

(* send_f succeeds.  The answer may be the one that fills the buffers.     *)
Sent(k) ==
  /\ k \in Conns /\ At(k, "try") /\ op[k] = "WRITE"
  /\ Target(k) # Nobody /\ Target(k) \notin full
  /\ \E b \in SUBSET {Target(k)} : full' = full \cup b
  /\ op' = [op EXCEPT ![k] = "READ"]
  /\ Goto(k, "call")
  /\ UNCHANGED <<made, backlog, unread, ended, sends, fileVars, registry, fdctx, stopped, fd, seen, closes, client, fate>>

(* The system call fails: the descriptor is not open, or (EMFILE, which    *)
(* accept finds before it looks for a connection) none is free.            *)
Error(k) ==
  /\ At(k, "try")
  /\ Target(k) = Nobody \/ (k = Listener /\ Free = {})
  /\ Fail(k)
  /\ UNCHANGED <<clientVars, fileVars, registry, fdctx, stopped, fd, seen, client, fate>>

(* EAGAIN.  Without the FdCtx of a socket io_func returns it.  (On a       *)
(* socket without O_NONBLOCK there is no EAGAIN: the thread blocks.)       *)
Again(k) ==
  /\ At(k, "try") /\ Target(k) # Nobody
  /\ ~Ready(Target(k), op[k]) /\ Target(k) \in nonblock
  /\ k = Listener => Free # {}
  /\ IF seen[k] = "socket" THEN Goto(k, "add") /\ UNCHANGED <<closes, op>> ELSE Fail(k)
  /\ UNCHANGED <<clientVars, fileVars, registry, fdctx, stopped, fd, seen, client, fate>>

(* addEvent and, when it succeeds, yieldtohold.  The context is written    *)
(* before epoll_ctl, and stays written when that fails.                    *)
AddEvent(k) ==
  /\ At(k, "add")
  /\ LET d       == fd[k]
         old     == Registered(d)
         asserts == op[k] \in old                  \* assert(!(ctx->events & ev))
         added   == ~asserts /\ table[d] # Nobody /\ (old = {} <=> interest[d] = {})
     IN  /\ fate' = IF asserts THEN "abort" ELSE fate
         /\ waiter' = IF asserts THEN waiter ELSE [waiter EXCEPT ![d][op[k]] = k]
         /\ interest' = IF added THEN [interest EXCEPT ![d] = old \cup {op[k]}] ELSE interest
         /\ pending' = IF added THEN pending + 1 ELSE pending
         /\ IF added THEN Goto(k, "wait") /\ UNCHANGED <<closes, op>> ELSE Fail(k)
  /\ UNCHANGED <<clientVars, fileVars, fdctx, stopped, fd, seen, client>>

(* The hooked accept registers the connection: FdManager::get(fd, true)    *)
(* returns an FdCtx it finds; otherwise it creates one after the read lock *)
(* is given up.  Only the acceptor creates any.                            *)
Lookup ==
  /\ At(Listener, "lookup")
  /\ Goto(Listener, IF fdctx[fd[client]] = "none" THEN "create" ELSE "spawn")
  /\ UNCHANGED <<clientVars, fileVars, registry, fdctx, stopped, taskVars, fate>>

(* FdCtx::init asks fstat what the descriptor is and sets O_NONBLOCK.      *)
Create ==
  /\ At(Listener, "create")
  /\ LET d == fd[client]
     IN  /\ fdctx' = [fdctx EXCEPT ![d] = IF table[d] = Nobody THEN "other" ELSE "socket"]
         /\ nonblock' = nonblock \cup ({table[d]} \ {Nobody})
  /\ Goto(Listener, "spawn")
  /\ UNCHANGED <<clientVars, table, registry, stopped, taskVars, fate>>

(* mWorker->addTask(handleClient)                                          *)
Spawn ==
  /\ At(Listener, "spawn")
  /\ pc' = [pc EXCEPT ![Listener] = "loop", ![client] = "queued"]
  /\ client' = Nobody
  /\ UNCHANGED <<clientVars, fileVars, registry, fdctx, stopped, fd, op, seen, closes, fate>>

-----------------------------------------------------------------------------
(* The hooked close().  Without an FdCtx it only closes.                   *)
Close(k) ==
  /\ At(k, "close")
  /\ Goto(k, IF fdctx[fd[k]] = "none" THEN "closefd" ELSE "cancel")
  /\ UNCHANGED <<clientVars, fileVars, registry, fdctx, stopped, taskVars, fate>>

(* IOManager::cancelAll                                                    *)
CancelAll(k) ==
  /\ At(k, "cancel")
  /\ LET d == fd[k]
     IN  IF Registered(d) = {}
           THEN Goto(k, "del") /\ UNCHANGED <<registry, fate>>
           ELSE /\ interest' = [interest EXCEPT ![d] = {}]
                /\ Trigger(d, Registered(d))
                /\ pc' = [Woken(d, Registered(d)) EXCEPT ![k] = "del"]
  /\ UNCHANGED <<clientVars, fileVars, fdctx, stopped, taskVars>>

(* FdManager::del                                                          *)
Del(k) ==
  /\ At(k, "del")
  /\ fdctx' = [fdctx EXCEPT ![fd[k]] = "none"]
  /\ Goto(k, "closefd")
  /\ UNCHANGED <<clientVars, fileVars, registry, stopped, taskVars, fate>>

(* close_f: the number is free, whoever had it; epoll forgets the socket;  *)
(* a closed listening socket refuses the connections that wait.            *)
CloseFd(k) ==
  /\ At(k, "closefd")
  /\ table' = [table EXCEPT ![fd[k]] = Nobody]
  /\ interest' = [interest EXCEPT ![fd[k]] = {}]
  /\ backlog' = IF Target(k) = Listener THEN {} ELSE backlog
  /\ closes' = [closes EXCEPT ![k] = @ - 1]
  /\ Goto(k, IF closes[k] = 1 THEN "done" ELSE "close")
  /\ UNCHANGED <<made, unread, ended, full, sends, nonblock, waiter, pending, fdctx, stopped, fd, op, seen, client, fate>>

-----------------------------------------------------------------------------
(* A free worker polls: the events that are ready are triggered, epoll is  *)
(* asked again for those that are left.                                    *)
Poll(d) ==
  LET real == {e \in interest[d] : Ready(table[d], e)}
  IN  /\ fate = "ok" /\ FreeWorker
      /\ real \cap Registered(d) # {}
      /\ interest' = [interest EXCEPT ![d] = Registered(d) \ real]
      /\ Trigger(d, real)
      /\ pc' = Woken(d, real)
      /\ UNCHANGED <<clientVars, fileVars, fdctx, stopped, taskVars>>

Open(c)   == \E d \in Descs : table[d] = c
Reach(c)  == c \in backlog \/ Open(c)

(* Clients connect, send (a bounded number of times), read and end.        *)
Connect(c) ==
  /\ fate = "ok" /\ c \notin made /\ Open(Listener)
  /\ made' = made \cup {c} /\ backlog' = backlog \cup {c}
  /\ UNCHANGED <<unread, ended, full, sends, fileVars, registry, fdctx, stopped, pc, taskVars, fate>>

Data(c) ==
  /\ fate = "ok" /\ c \in Senders /\ Reach(c) /\ c \notin ended \cup unread /\ sends < MaxSends
  /\ unread' = unread \cup {c} /\ sends' = sends + 1
  /\ UNCHANGED <<made, backlog, ended, full, fileVars, registry, fdctx, stopped, pc, taskVars, fate>>

End(c) ==
  /\ fate = "ok" /\ Reach(c) /\ c \notin ended
  /\ ended' = ended \cup {c}
  /\ UNCHANGED <<made, backlog, unread, full, sends, fileVars, registry, fdctx, stopped, pc, taskVars, fate>>

Drain(c) ==
  /\ fate = "ok" /\ c \in full
  /\ full' = full \ {c}
  /\ UNCHANGED <<made, backlog, unread, ended, sends, fileVars, registry, fdctx, stopped, pc, taskVars, fate>>

(* TcpServer::stop.  It does not wake the acceptor.                        *)
Stop ==
  /\ fate = "ok" /\ ~stopped
  /\ stopped' = TRUE
  /\ UNCHANGED <<clientVars, fileVars, registry, fdctx, pc, taskVars, fate>>

Acceptor   == Loop \/ Accept \/ Lookup \/ Create \/ Spawn
Handler(k) == RecvData(k) \/ RecvEnd(k) \/ Sent(k)
Hooked(k)  == Get(k) \/ Error(k) \/ Again(k) \/ AddEvent(k) \/ Close(k) \/ CancelAll(k) \/ Del(k) \/ CloseFd(k)
Step(k)    == Hooked(k) \/ Handler(k) \/ (k = Listener /\ Acceptor)

Next ==
  \/ \E k \in Sockets : Run(k) \/ Step(k)
  \/ \E d \in Descs : Poll(d)
  \/ \E c \in Conns : Connect(c) \/ Data(c) \/ Drain(c) \/ End(c)
  \/ Stop

Spec == Init /\ [][Next]_vars

(* A thread goes on with its coroutine; run() takes tasks in their order;  *)
(* a worker that polls again and again sees every event that stays; a      *)
(* client reads what it is sent.                                           *)
FairSpec ==
  /\ Spec
  /\ \A k \in Sockets : WF_vars(Step(k)) /\ SF_vars(Run(k))
  /\ \A d \in Descs : SF_vars(Poll(d))
  /\ \A c \in Conns : WF_vars(Drain(c))

-----------------------------------------------------------------------------
TypeOK ==
  /\ table \in [Descs -> Sockets \cup {Nobody}]
  /\ nonblock \subseteq Sockets /\ interest \in [Descs -> SUBSET Events]
  /\ made \subseteq Conns /\ backlog \subseteq made /\ unread \subseteq made /\ ended \subseteq made
  /\ full \subseteq made
  /\ sends \in 0 .. MaxSends
  /\ fdctx \in [Descs -> {"none", "socket", "other"}]
  /\ waiter \in [Descs -> [Events -> Sockets \cup {Nobody}]]
  /\ pending \in 0 .. Cardinality(Descs)
  /\ stopped \in BOOLEAN
  /\ pc \in [Sockets -> Waiting \cup Serving \cup Closing]
  /\ fd \in [Sockets -> Descs] /\ op \in [Sockets -> Events]
  /\ seen \in [Sockets -> {"none", "socket", "other"}]
  /\ closes \in [Sockets -> 0 .. 2]
  /\ client \in Conns \cup {Nobody}
  /\ fate \in {"ok", "abort", "corrupt"}

(* From the moment a handler is queued until it closes, its descriptor is  *)
(* its own socket, known to FdManager and non-blocking, although numbers   *)
(* are reused and every orderly end closes its number twice.  So no assert *)
(* fails and no coroutine is queued that does not wait.                    *)
OwnDescriptor ==
  /\ fate = "ok"
  /\ \A k \in Sockets :
       pc[k] \in (Serving \cup Waiting) \ {"new", "done"} =>
         Target(k) = k /\ fdctx[fd[k]] = "socket" /\ k \in nonblock

(* assert(!(ctx->events & ev)) in addEvent: nobody registers an event that *)
(* an earlier user of the number has left behind.                          *)
AssertHolds == fate # "abort"

(* m_pendingEventCount is the number of waiting coroutines: the server can *)
(* shut down when they are gone.                                           *)
PendingExact == pending = Cardinality({k \in Sockets : pc[k] = "wait"})

(* The server keeps the promises of TcpService: a connection is closed     *)
(* only after its client has ended it, and is never closed by another.     *)
StateOf == [c \in Conns |->
              CASE c \notin made   -> "new"
                [] c \in backlog  -> "waiting"
                [] Open(c)        -> "open"
                [] OTHER -> "closed"]
Service == INSTANCE TcpService WITH state <- StateOf
ServiceSpec == Service!Spec

(* The numbers run out for good: accept fails without waiting, handleAccept*)
(* tries again at once, and a single worker serves nobody else any more.   *)
Exhausted == <>[](Free = {})

(* A connection that waits is accepted, or refused when the server has     *)
(* stopped, however the numbers are given back in between; unless they run *)
(* out for good.                                                           *)
Accepted == Exhausted \/ []<>(backlog = {})

(* The descriptor of a connection whose client has ended is given back,    *)
(* unless the numbers run out for good.                                    *)
Released == Exhausted \/ []<>(\A c \in ended : ~Open(c))
=============================================================================
