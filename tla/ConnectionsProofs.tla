--------------------------- MODULE ConnectionsProofs ---------------------------
(***************************************************************************)
(* Proofs about Connections for any number of connections and descriptors  *)
(* and one worker thread.  (With two, a number is taken over between       *)
(* close_f and the lookup of its next user: run ConnTwo.)                  *)
(***************************************************************************)
EXTENDS Connections, TLAPS, FiniteSetTheorems

(* The coroutine of k is queued, runs, or waits, and has not yet begun to  *)
(* close.                                                                  *)
Handled(k) == pc[k] \in (Serving \cup Waiting) \ {"new", "done"}

(* The acceptor works on a connection that no coroutine serves yet, which  *)
(* at first has no FdCtx.                                                  *)
Accepting == pc[Listener] \in {"lookup", "create", "spawn"}
Fresh(k)  == k = client /\ pc[Listener] \in {"lookup", "create"}

(* The descriptor fd[k] belongs to k: until the first close_f.             *)
Holds(k) ==
  Handled(k) \/ k = client \/ (pc[k] \in Closing /\ (k = Listener \/ closes[k] = 2))

-----------------------------------------------------------------------------
(* The inductive invariant.                                                *)

OneRuns == \A j, k \in Sockets : pc[j] \notin Waiting /\ pc[k] \notin Waiting => j = k

(* A number that is in use belongs to exactly one coroutine.               *)
TableInv ==
  /\ \A k \in Sockets : Holds(k) => table[fd[k]] = k
  /\ \A d \in Descs : table[d] # Nobody => Holds(table[d]) /\ fd[table[d]] = d

(* FdManager knows the descriptors in use, but for the moments before      *)
(* FdCtx::init and after FdManager::del, and no others.                    *)
CtxInv ==
  /\ \A d \in Descs : table[d] = Nobody => fdctx[d] = "none"
  /\ \A k \in Sockets : Holds(k) =>
       /\ fdctx[fd[k]] = IF pc[k] = "closefd" \/ Fresh(k) THEN "none" ELSE "socket"
       /\ Fresh(k) \/ k \in nonblock
  /\ \A k \in Sockets : pc[k] \in {"try", "add", "wait", "woken"} => seen[k] = "socket"

(* The second close of a connection finds its number still free: nobody    *)
(* else has run since the first.                                           *)
CloseInv ==
  \A k \in Sockets : pc[k] \in Closing =>
    IF k = Listener
      THEN closes[k] = 1
      ELSE /\ k \in ended
           /\ \/ closes[k] = 2
              \/ closes[k] = 1 /\ pc[k] \in {"close", "closefd"} /\ table[fd[k]] = Nobody

(* What the acceptor does and a handler does not.                          *)
RoleInv ==
  /\ client # Nobody <=> Accepting
  /\ client # Nobody => client \in made \ backlog /\ pc[client] = "new"
  /\ pc[Listener] # "new" /\ op[Listener] = "READ"
  /\ \A c \in Conns : /\ pc[c] \notin {"loop", "lookup", "create", "spawn"}
                      /\ c \notin made \/ c \in backlog => pc[c] = "new"

(* The registry holds the coroutines that wait, and epoll is asked for     *)
(* what they wait for.                                                     *)
WaitInv ==
  /\ \A d \in Descs, e \in Events : waiter[d][e] # Nobody =>
       pc[waiter[d][e]] = "wait" /\ fd[waiter[d][e]] = d /\ op[waiter[d][e]] = e
  /\ \A k \in Sockets : pc[k] = "wait" => waiter[fd[k]][op[k]] = k
  /\ \A d \in Descs : interest[d] = Registered(d)

Core == OneRuns /\ TableInv /\ CtxInv /\ CloseInv /\ RoleInv
Inv  == TypeOK /\ fate = "ok" /\ Core /\ WaitInv /\ PendingExact

-----------------------------------------------------------------------------
(* Facts about the names and the numbers.                                  *)

LEMMA Names ==
  Listener \notin Conns /\ Listener \in Sockets /\ Conns \subseteq Sockets /\ Nobody \notin Sockets
BY NamesAssumption DEF Sockets

LEMMA FiniteSockets == IsFiniteSet(Sockets)
BY FiniteAssumption, FS_AddElement DEF Sockets

(* A set of descriptor numbers has a least one.                            *)
LEMMA LeastExists ==
  ASSUME NEW S \in SUBSET Nat, S # {}
  PROVE  \E d \in S : \A e \in S : d <= e
<1> DEFINE R == {p \in Nat \X Nat : p[1] < p[2]}
<1>1. IsWellFoundedOn(R, Nat)
  BY NatLessThanWellFounded DEF OpToRel
<1>2. \A x, y \in Nat : x < y => <<x, y>> \in R
  OBVIOUS
<1> HIDE DEF R
<1>3. \E x \in S : \A y \in S : ~ (<<y, x>> \in R)
  BY <1>1, WFMin
<1>4. \A x, y \in Nat : ~ (y < x) => x <= y
  OBVIOUS
<1> QED  BY <1>2, <1>3, <1>4

(* The kernel hands out a number that is free.                             *)
LEMMA LowestIsFree == Free # {} => Lowest(Free) \in Free
<1>1. Free \in SUBSET Nat
  BY DescsAssumption DEF Free
<1> QED  BY <1>1, LeastExists DEF Lowest

LEMMA FirstIsDesc == First \in Descs
BY DescsAssumption, LeastExists DEF First

(* With one worker no coroutine is on a thread when it polls or fetches.   *)
LEMMA NobodyRuns ==
  ASSUME Workers = 1, FreeWorker
  PROVE  \A k \in Sockets : pc[k] \in Waiting
<1>1. IsFiniteSet(Running)
  BY FiniteSockets, FS_Subset DEF Running
<1>2. Cardinality(Running) = 0
  BY <1>1, FS_CardinalityType DEF FreeWorker
<1> QED  BY <1>1, <1>2, FS_EmptySet DEF Running

USE DEF Waiting, Serving, Closing, Events, At, Goto, Target,
        clientVars, fileVars, registry, taskVars

(* Nobody waits on the number of a coroutine that runs.                    *)
LEMMA NotWaitedFor ==
  ASSUME Inv, NEW k \in Sockets, pc[k] \notin Waiting, table[fd[k]] \in {k, Nobody}
  PROVE  Registered(fd[k]) = {} /\ \A e \in Events : waiter[fd[k]][e] = Nobody
<1>1. ASSUME NEW e \in Events, waiter[fd[k]][e] # Nobody PROVE FALSE
  <2> DEFINE j == waiter[fd[k]][e]
  <2>1. j \in Sockets /\ fd[k] \in Descs
    BY <1>1 DEF Inv, TypeOK
  <2> HIDE DEF j
  <2>2. pc[j] = "wait" /\ fd[j] = fd[k]
    BY <1>1, <2>1 DEF Inv, WaitInv, j
  <2>3. table[fd[k]] = j
    BY <2>1, <2>2 DEF Inv, Core, TableInv, Holds, Handled
  <2> QED  BY <2>1, <2>2, <2>3, Names
<1> QED  BY <1>1 DEF Registered

-----------------------------------------------------------------------------
(* What the actions with several outcomes do when the invariant holds.     *)

(* The acceptor alone meets an error, when the numbers run out.            *)
LEMMA ErrorEffect ==
  ASSUME Inv, NEW k \in Sockets, Error(k)
  PROVE  /\ k = Listener /\ pc[k] = "try"
         /\ pc' = [pc EXCEPT ![k] = "loop"] /\ closes' = closes /\ op' = op
<1>1. k = Listener /\ pc[k] = "try"
  BY Names DEF Error, Inv, Core, TableInv, Holds, Handled
<1>2. closes' = [closes EXCEPT ![k] = @] /\ op' = [op EXCEPT ![k] = "READ"]
  BY <1>1 DEF Error, Fail
<1> QED  BY <1>1, <1>2, Names DEF Error, Fail, Inv, Core, RoleInv, TypeOK

(* A call that would block leads to addEvent, never to an error.           *)
LEMMA AgainEffect ==
  ASSUME Inv, NEW k \in Sockets, Again(k)
  PROVE  /\ pc[k] = "try" /\ pc' = [pc EXCEPT ![k] = "add"]
         /\ closes' = closes /\ op' = op
BY DEF Again, Inv, Core, CtxInv

(* addEvent finds the event free, and epoll_ctl succeeds.                  *)
LEMMA AddEventEffect ==
  ASSUME Inv, NEW k \in Sockets, AddEvent(k)
  PROVE  /\ pc[k] = "add" /\ pc' = [pc EXCEPT ![k] = "wait"]
         /\ \A e \in Events : waiter[fd[k]][e] = Nobody
         /\ waiter' = [waiter EXCEPT ![fd[k]][op[k]] = k]
         /\ interest' = [interest EXCEPT ![fd[k]] = {op[k]}]
         /\ pending' = pending + 1 /\ fate' = "ok" /\ closes' = closes /\ op' = op
<1>1. pc[k] = "add" /\ table[fd[k]] = k /\ k # Nobody
  BY Names DEF AddEvent, Inv, Core, TableInv, Holds, Handled
<1>2. /\ Registered(fd[k]) = {} /\ interest[fd[k]] = {}
      /\ \A e \in Events : waiter[fd[k]][e] = Nobody
  BY <1>1, NotWaitedFor DEF Inv, WaitInv, TypeOK
<1> QED  BY <1>1, <1>2 DEF AddEvent, Inv

(* cancelAll finds nothing to cancel.                                      *)
LEMMA CancelAllEffect ==
  ASSUME Inv, NEW k \in Sockets, CancelAll(k)
  PROVE  pc[k] = "cancel" /\ pc' = [pc EXCEPT ![k] = "del"] /\ UNCHANGED <<registry, fate>>
<1>1. pc[k] = "cancel" /\ table[fd[k]] = k
  BY DEF CancelAll, Inv, Core, TableInv, CloseInv, Holds
<1>2. Registered(fd[k]) = {}
  BY <1>1, NotWaitedFor
<1> QED  BY <1>1, <1>2 DEF CancelAll

(* A poll wakes the one coroutine that waits on the descriptor.            *)
LEMMA PollEffect ==
  ASSUME Inv, NEW d \in Descs, Poll(d)
  PROVE  \E k \in Sockets :
           /\ pc[k] = "wait" /\ fd[k] = d /\ pc' = [pc EXCEPT ![k] = "woken"]
           /\ waiter' = [waiter EXCEPT ![d] = [e \in Events |-> Nobody]]
           /\ interest' = [interest EXCEPT ![d] = {}]
           /\ pending' = pending - 1 /\ fate' = "ok"
<1> DEFINE real == {e \in interest[d] : Ready(table[d], e)}
<1>1. /\ real \cap Registered(d) # {}
      /\ interest' = [interest EXCEPT ![d] = Registered(d) \ real]
      /\ Trigger(d, real) /\ pc' = Woken(d, real)
  BY DEF Poll
<1> HIDE DEF real
<1>2. PICK e \in Events : e \in real /\ waiter[d][e] # Nobody
  BY <1>1 DEF Registered
<1> DEFINE k == waiter[d][e]
<1>3. k \in Sockets /\ pc[k] = "wait" /\ fd[k] = d /\ op[k] = e
  BY <1>2 DEF Inv, TypeOK, WaitInv
<1>4. \A x \in Events : x # e => waiter[d][x] = Nobody
  <2>1. table[d] = k
    BY <1>3 DEF Inv, Core, TableInv, Holds, Handled
  <2>2. ASSUME NEW x \in Events, waiter[d][x] # Nobody PROVE x = e
    <3>1. waiter[d][x] \in Sockets /\ pc[waiter[d][x]] = "wait" /\ fd[waiter[d][x]] = d
          /\ op[waiter[d][x]] = x
      BY <2>2 DEF Inv, TypeOK, WaitInv
    <3>2. table[d] = waiter[d][x]
      BY <3>1 DEF Inv, Core, TableInv, Holds, Handled
    <3> QED  BY <1>3, <2>1, <3>1, <3>2
  <2> QED  BY <2>2
<1>5. Registered(d) = {e} /\ real = {e}
  <2>1. Registered(d) = {e}
    BY <1>2, <1>4 DEF Registered
  <2>2. interest[d] = {e}
    BY <2>1 DEF Inv, WaitInv
  <2> QED  BY <1>2, <2>1, <2>2 DEF real
<1> HIDE DEF k
<1>6. pc' = [pc EXCEPT ![k] = "woken"]
  <2>1. pc' = [j \in Sockets |-> IF pc[j] = "wait" /\ waiter[d][e] = j THEN "woken" ELSE pc[j]]
    BY <1>1, <1>5 DEF Woken
  <2>2. pc \in [Sockets -> Waiting \cup Serving \cup Closing]
    BY DEF Inv, TypeOK
  <2> QED  BY <1>3, <2>1, <2>2 DEF k
<1>7. waiter' = [waiter EXCEPT ![d] = [x \in Events |-> Nobody]]
  <2>1. waiter' = [waiter EXCEPT ![d] = [x \in Events |-> IF x \in {e} THEN Nobody ELSE @[x]]]
    BY <1>1, <1>5 DEF Trigger
  <2>2. waiter \in [Descs -> [Events -> Sockets \cup {Nobody}]]
    BY DEF Inv, TypeOK
  <2>3. \A x \in Events : (IF x \in {e} THEN Nobody ELSE waiter[d][x]) = Nobody
    BY <1>4
  <2> QED  BY <2>1, <2>2, <2>3
<1>8. pending' = pending - 1 /\ fate' = "ok"
  <2>1. Cardinality(real) = 1
    BY <1>5, FS_Singleton
  <2>2. pending' = pending - Cardinality(real)
    BY <1>1 DEF Trigger
  <2>3. \A x \in real : waiter[d][x] # Nobody /\ pc[waiter[d][x]] = "wait"
    BY <1>2, <1>3, <1>5 DEF k
  <2>4. fate' = fate
    BY <1>1, <2>3 DEF Trigger
  <2> QED  BY <2>1, <2>2, <2>4 DEF Inv
<1>9. interest' = [interest EXCEPT ![d] = {}]
  BY <1>1, <1>5
<1> QED  BY <1>3, <1>6, <1>7, <1>8, <1>9

-----------------------------------------------------------------------------
(* Sockets that hold a descriptor have different ones.                     *)
LEMMA HoldersBounded ==
  ASSUME TypeOK, TableInv, NEW S \in SUBSET Sockets, \A k \in S : Holds(k)
  PROVE  IsFiniteSet(S) /\ Cardinality(S) <= Cardinality(Descs)
<1> DEFINE f == [k \in S |-> fd[k]]
<1>1. f \in [S -> Descs]
  BY DEF TypeOK
<1>2. \A j, k \in S : f[j] = f[k] => j = k
  BY DEF TableInv
<1> HIDE DEF f
<1>3. f \in Injection(S, Descs)
  BY <1>1, <1>2 DEF Injection, IsInjective
<1> QED  BY <1>3, FiniteAssumption, FS_Injection

(* What a worker that is free starts.                                      *)
LEMMA RunEffect ==
  ASSUME Workers = 1, Inv, NEW k \in Sockets, Run(k)
  PROVE  /\ \A j \in Sockets : pc[j] \in Waiting
         /\ \/ pc[k] = "queued" /\ pc' = [pc EXCEPT ![k] = IF k = Listener THEN "loop" ELSE "call"]
            \/ pc[k] = "woken" /\ pc' = [pc EXCEPT ![k] = "try"]
BY NobodyRuns DEF Run

(* Type correctness.                                                       *)
LEMMA TypeStep == Workers = 1 /\ Inv /\ [Next]_vars => TypeOK'
<1> SUFFICES ASSUME Workers = 1, Inv, [Next]_vars PROVE TypeOK'
  OBVIOUS
<1>1. ASSUME NEW k \in Sockets, Run(k) PROVE TypeOK'
  <2>1. \E l \in Serving : pc' = [pc EXCEPT ![k] = l]
    BY <1>1, RunEffect
  <2> QED  BY <1>1, <2>1 DEF Run, Inv, TypeOK
<1>2. ASSUME Loop PROVE TypeOK'
  BY <1>2, Names DEF Loop, Inv, TypeOK
<1>3. ASSUME NEW k \in Sockets, Get(k) PROVE TypeOK'
  BY <1>3, Names DEF Get, Inv, TypeOK
<1>4. ASSUME Accept PROVE TypeOK'
  <2>1. Lowest(Free) \in Descs
    BY <1>4, LowestIsFree DEF Accept, Free
  <2> QED  BY <1>4, <2>1, Names DEF Accept, Inv, TypeOK
<1>5. ASSUME NEW k \in Sockets, RecvData(k) PROVE TypeOK'
  BY <1>5, Names DEF RecvData, Inv, TypeOK
<1>6. ASSUME NEW k \in Sockets, RecvEnd(k) PROVE TypeOK'
  BY <1>6, Names DEF RecvEnd, Inv, TypeOK
<1>7. ASSUME NEW k \in Sockets, Sent(k) PROVE TypeOK'
  BY <1>7, Names DEF Sent, Core, TableInv, RoleInv, Holds, Handled, Inv, TypeOK
<1>8. ASSUME NEW k \in Sockets, Error(k) PROVE TypeOK'
  BY <1>8, ErrorEffect DEF Error, Inv, TypeOK
<1>9. ASSUME NEW k \in Sockets, Again(k) PROVE TypeOK'
  BY <1>9, AgainEffect DEF Again, Inv, TypeOK
<1>10. ASSUME NEW k \in Sockets, AddEvent(k) PROVE TypeOK'
  <2> DEFINE W == {j \in Sockets : pc[j] = "wait"}
  <2>1. pc[k] = "add" /\ IsFiniteSet(W) /\ IsFiniteSet(W \cup {k})
        /\ Cardinality(W \cup {k}) <= Cardinality(Descs)
    BY <1>10, AddEventEffect, FiniteSockets, FS_Subset, HoldersBounded DEF Inv, Core, Holds, Handled
  <2>2. pending + 1 = Cardinality(W \cup {k})
    BY <2>1, FS_AddElement DEF Inv, PendingExact
  <2>3. pending + 1 \in 0 .. Cardinality(Descs)
    BY <2>1, <2>2, FiniteAssumption, FS_CardinalityType DEF Inv, TypeOK
  <2> HIDE DEF W
  <2>4. UNCHANGED <<clientVars, fileVars, fdctx, stopped, fd, seen, client>>
    BY <1>10 DEF AddEvent
  <2>5. /\ pc' = [pc EXCEPT ![k] = "wait"] /\ waiter' = [waiter EXCEPT ![fd[k]][op[k]] = k]
        /\ interest' = [interest EXCEPT ![fd[k]] = {op[k]}]
        /\ pending' = pending + 1 /\ fate' = "ok" /\ closes' = closes /\ op' = op
    BY <1>10, AddEventEffect
  <2> QED  BY <2>3, <2>4, <2>5 DEF Inv, TypeOK
<1>11. ASSUME Lookup PROVE TypeOK'
  BY <1>11, Names DEF Lookup, Inv, TypeOK
<1>12. ASSUME Create PROVE TypeOK'
  BY <1>12, Names DEF Create, Core, RoleInv, Accepting, Inv, TypeOK
<1>13. ASSUME Spawn PROVE TypeOK'
  BY <1>13, Names DEF Spawn, Core, RoleInv, Inv, TypeOK
<1>14. ASSUME NEW k \in Sockets, Close(k) PROVE TypeOK'
  BY <1>14, Names DEF Close, Inv, TypeOK
<1>15. ASSUME NEW k \in Sockets, CancelAll(k) PROVE TypeOK'
  BY <1>15, CancelAllEffect DEF CancelAll, Inv, TypeOK
<1>16. ASSUME NEW k \in Sockets, Del(k) PROVE TypeOK'
  BY <1>16, Names DEF Del, Inv, TypeOK
<1>17. ASSUME NEW k \in Sockets, CloseFd(k) PROVE TypeOK'
  BY <1>17, Names DEF CloseFd, Core, CloseInv, Inv, TypeOK
<1>18. ASSUME NEW d \in Descs, Poll(d) PROVE TypeOK'
  <2>1. PICK k \in Sockets :
          /\ pc[k] = "wait" /\ pc' = [pc EXCEPT ![k] = "woken"]
          /\ waiter' = [waiter EXCEPT ![d] = [e \in Events |-> Nobody]]
          /\ interest' = [interest EXCEPT ![d] = {}]
          /\ pending' = pending - 1 /\ fate' = "ok"
    BY <1>18, PollEffect
  <2>2. pending # 0
    BY <2>1, FiniteSockets, FS_Subset, FS_EmptySet DEF Inv, PendingExact
  <2>3. pending - 1 \in 0 .. Cardinality(Descs)
    BY <2>2, FiniteAssumption, FS_CardinalityType DEF Inv, TypeOK
  <2> QED  BY <1>18, <2>1, <2>3 DEF Poll, Inv, TypeOK
<1>19. ASSUME NEW c \in Conns, Connect(c) PROVE TypeOK'
  BY <1>19, Names DEF Connect, Inv, TypeOK
<1>20. ASSUME NEW c \in Conns, Data(c) PROVE TypeOK'
  BY <1>20, Names, WorkersAssumption
     DEF Data, Reach, Open, Core, TableInv, RoleInv, Holds, Handled, Inv, TypeOK
<1>21. ASSUME NEW c \in Conns, End(c) PROVE TypeOK'
  BY <1>21, Names DEF End, Reach, Open, Core, TableInv, RoleInv, Holds, Handled, Inv, TypeOK
<1>22. ASSUME NEW c \in Conns, Drain(c) PROVE TypeOK'
  BY <1>22, Names DEF Drain, Inv, TypeOK
<1>23. ASSUME Stop PROVE TypeOK'
  BY <1>23, Names DEF Stop, Inv, TypeOK
<1>24. ASSUME UNCHANGED vars PROVE TypeOK'
  BY <1>24 DEF vars, Inv, TypeOK
<1> QED
  BY <1>1, <1>2, <1>3, <1>4, <1>5, <1>6, <1>7, <1>8, <1>9, <1>10, <1>11, <1>12,
     <1>13, <1>14, <1>15, <1>16, <1>17, <1>18, <1>19, <1>20, <1>21, <1>22, <1>23, <1>24
     DEF Next, Step, Hooked, Handler, Acceptor

(* A handler that goes from one label of its work to another, while no     *)
(* descriptor changes hands.                                               *)
LEMMA MoveKeepsCore ==
  ASSUME Inv, NEW k \in Sockets,
         NEW l \in (Serving \cup Waiting) \ {"new", "done", "lookup", "create", "spawn"},
         Handled(k), k = Listener => ~Accepting, pc' = [pc EXCEPT ![k] = l],
         UNCHANGED <<fileVars, made, backlog, ended, fdctx, fd, seen, closes, client>>,
         op'[Listener] = op[Listener],
         l = "loop" => k = Listener,
         l \in {"try", "add", "wait", "woken"} => seen[k] = "socket",
         l \notin Waiting => \A j \in Sockets : j # k => pc[j] \in Waiting
  PROVE  Core'
<1> USE DEF Inv, TypeOK, Core, Handled, Holds, Fresh, Accepting
<1>1. OneRuns'
  BY DEF OneRuns
<1>2. \A j \in Sockets : /\ Holds(j)' <=> Holds(j)
                         /\ Fresh(j)' <=> Fresh(j)
                         /\ pc'[j] = "closefd" <=> pc[j] = "closefd"
  BY Names DEF RoleInv
<1>3. TableInv'
  BY <1>2, Names DEF TableInv
<1>4. CtxInv'
  BY <1>2 DEF CtxInv
<1>5. CloseInv'
  BY DEF CloseInv
<1>6. RoleInv'
  BY Names DEF RoleInv
<1> QED  BY <1>1, <1>3, <1>4, <1>5, <1>6

(* Threads, descriptors and what FdManager knows of them.                  *)
LEMMA CoreStep == Workers = 1 /\ Inv /\ [Next]_vars => Core'
<1> SUFFICES ASSUME Workers = 1, Inv, [Next]_vars PROVE Core'
  OBVIOUS
<1>1. ASSUME NEW k \in Sockets, Run(k) PROVE Core'
  <2>1. PICK l \in {"loop", "call", "try"} :
          /\ pc' = [pc EXCEPT ![k] = l] /\ (l = "loop" => k = Listener)
          /\ pc[k] \in {"queued", "woken"} /\ (l = "try" => pc[k] = "woken")
    BY <1>1, RunEffect
  <2> QED  BY <1>1, <2>1, RunEffect, MoveKeepsCore DEF Run, Inv, Core, CtxInv, Accepting, Handled
<1>2. ASSUME Accept PROVE Core'
  <2>1. Lowest(Free) \in Descs /\ table[Lowest(Free)] = Nobody
    BY <1>2, LowestIsFree DEF Accept, Free
  <2> DEFINE n == Lowest(Free)
  <2> HIDE DEF n
  <2> USE DEF Inv, TypeOK, Core
  <2>2. PICK c \in backlog : /\ backlog' = backlog \ {c} /\ client' = c
                             /\ table' = [table EXCEPT ![n] = c] /\ fd' = [fd EXCEPT ![c] = n]
    BY <1>2 DEF Accept, n
  <2>3. /\ pc[Listener] = "try" /\ pc' = [pc EXCEPT ![Listener] = "lookup"]
        /\ UNCHANGED <<made, ended, nonblock, fdctx, op, seen, closes>>
    BY <1>2 DEF Accept
  <2>4. c \in Conns /\ pc[c] = "new" /\ client = Nobody /\ n \in Descs /\ table[n] = Nobody
    BY <2>1, <2>3 DEF RoleInv, Accepting, n
  <2>5. OneRuns'
    BY <2>3, Names DEF OneRuns
  <2>6. ASSUME NEW k \in Sockets PROVE Holds(k)' <=> Holds(k) \/ k = c
    BY <2>2, <2>3, <2>4, Names DEF Holds, Handled
  <2>7. ~ Holds(c) /\ fd'[c] = n /\ \A k \in Sockets : k # c => fd'[k] = fd[k]
    BY <2>2, <2>4, Names DEF Holds, Handled
  <2>8. \A k \in Sockets : Holds(k) => fd[k] # n
    BY <2>4, Names DEF TableInv
  <2>9. TableInv'
    <3>1. \A k \in Sockets : Holds(k)' => table'[fd'[k]] = k
      BY <2>2, <2>4, <2>6, <2>7, <2>8, Names DEF TableInv
    <3>2. \A d \in Descs : table'[d] # Nobody => Holds(table[d])' \/ d = n
      BY <2>2, <2>4, <2>6, Names DEF TableInv
    <3> QED  BY <2>2, <2>4, <2>6, <2>7, <3>1, Names DEF TableInv
  <2>10. CtxInv'
    BY <2>2, <2>3, <2>4, <2>6, <2>7, <2>8, Names DEF CtxInv, Fresh, Accepting
  <2>11. CloseInv'
    <3>1. \A k \in Sockets : k # Listener => pc[k] \in Waiting
      BY <2>3, Names DEF OneRuns
    <3>2. ASSUME NEW k \in Sockets PROVE pc'[k] \notin Closing
      <4>1. CASE k = Listener
        BY <2>3, <4>1
      <4>2. CASE k # Listener
        BY <2>3, <3>1, <4>2
      <4> QED  BY <4>1, <4>2
    <3> QED  BY <3>2 DEF CloseInv
  <2>12. RoleInv'
    BY <2>2, <2>3, <2>4, Names DEF RoleInv, Accepting
  <2> QED  BY <2>5, <2>9, <2>10, <2>11, <2>12
<1>3. ASSUME NEW k \in Sockets, RecvData(k) PROVE Core'
  <2>1. /\ k \in Conns /\ pc[k] = "try" /\ pc' = [pc EXCEPT ![k] = "call"]
        /\ op' = [op EXCEPT ![k] = "WRITE"]
        /\ UNCHANGED <<fileVars, made, backlog, ended, fdctx, fd, seen, closes, client>>
    BY <1>3 DEF RecvData
  <2>2. op'[Listener] = op[Listener] /\ k # Listener
    BY <2>1, Names DEF Inv, TypeOK
  <2>3. \A j \in Sockets : j # k => pc[j] \in Waiting
    BY <2>1 DEF Inv, Core, OneRuns
  <2> QED  BY <2>1, <2>2, <2>3, MoveKeepsCore DEF Handled
<1>4. ASSUME NEW k \in Sockets, Sent(k) PROVE Core'
  <2>1. /\ k \in Conns /\ pc[k] = "try" /\ pc' = [pc EXCEPT ![k] = "call"]
        /\ op' = [op EXCEPT ![k] = "READ"]
        /\ UNCHANGED <<fileVars, made, backlog, ended, fdctx, fd, seen, closes, client>>
    BY <1>4 DEF Sent
  <2>2. op'[Listener] = op[Listener] /\ k # Listener
    BY <2>1, Names DEF Inv, TypeOK
  <2>3. \A j \in Sockets : j # k => pc[j] \in Waiting
    BY <2>1 DEF Inv, Core, OneRuns
  <2> QED  BY <2>1, <2>2, <2>3, MoveKeepsCore DEF Handled
<1>5. ASSUME NEW k \in Sockets, Error(k) PROVE Core'
  BY <1>5, ErrorEffect, MoveKeepsCore DEF Error, Inv, Core, OneRuns, Accepting, Handled
<1>6. ASSUME NEW k \in Sockets, Again(k) PROVE Core'
  BY <1>6, AgainEffect, MoveKeepsCore DEF Again, Inv, Core, OneRuns, CtxInv, Accepting, Handled
<1>7. ASSUME NEW k \in Sockets, AddEvent(k) PROVE Core'
  <2>1. pc[k] = "add" /\ pc' = [pc EXCEPT ![k] = "wait"] /\ closes' = closes /\ op' = op
    BY <1>7, AddEventEffect
  <2>2. UNCHANGED <<clientVars, fileVars, fdctx, stopped, fd, seen, client>>
    BY <1>7 DEF AddEvent
  <2> QED  BY <2>1, <2>2, MoveKeepsCore DEF Inv, Core, CtxInv, Accepting, Handled
<1>8. ASSUME Spawn PROVE Core'
  <2> USE DEF Inv, TypeOK, Core
  <2>1. /\ client \in Conns /\ pc[Listener] = "spawn" /\ pc[client] = "new"
        /\ pc' = [pc EXCEPT ![Listener] = "loop", ![client] = "queued"] /\ client' = Nobody
    BY <1>8, Names DEF Spawn, RoleInv, Accepting
  <2>2. UNCHANGED <<clientVars, fileVars, fdctx, fd, op, seen, closes>>
    BY <1>8 DEF Spawn
  <2>3. OneRuns'
    BY <2>1, Names DEF OneRuns
  <2>4. TableInv'
    BY <2>1, <2>2, Names DEF TableInv, Holds, Handled
  <2>5. CtxInv'
    BY <2>1, <2>2, Names DEF CtxInv, Holds, Handled, Fresh
  <2>6. CloseInv'
    BY <2>1, <2>2, Names DEF CloseInv
  <2>7. RoleInv'
    BY <2>1, <2>2, Names DEF RoleInv, Accepting
  <2> QED  BY <2>3, <2>4, <2>5, <2>6, <2>7
<1>9. ASSUME NEW d \in Descs, Poll(d) PROVE Core'
  <2>1. PICK k \in Sockets : pc[k] = "wait" /\ pc' = [pc EXCEPT ![k] = "woken"]
    BY <1>9, PollEffect
  <2>2. UNCHANGED <<clientVars, fileVars, fdctx, taskVars>>
    BY <1>9 DEF Poll
  <2> QED  BY <2>1, <2>2, MoveKeepsCore DEF Inv, Core, CtxInv, Accepting, Handled
<1>10. ASSUME UNCHANGED <<fileVars, fdctx, pc, taskVars, made, backlog, ended>> PROVE Core'
  BY <1>10 DEF Inv, Core, OneRuns, TableInv, CtxInv, CloseInv, RoleInv,
               Holds, Handled, Accepting, Fresh
<1>11. ASSUME NEW c \in Conns, Data(c) \/ Drain(c) PROVE Core'
  BY <1>10, <1>11 DEF Data, Drain
<1>12. ASSUME Stop \/ UNCHANGED vars PROVE Core'
  BY <1>10, <1>12 DEF Stop, vars
<1> USE DEF Inv, TypeOK, Core, OneRuns, TableInv, CtxInv, CloseInv, RoleInv,
            Holds, Handled, Accepting, Fresh
<1>13. ASSUME Loop PROVE Core'
  BY <1>13, Names DEF Loop
<1>14. ASSUME NEW k \in Sockets, Get(k) PROVE Core'
  BY <1>14, Names DEF Get
<1>15. ASSUME NEW k \in Sockets, RecvEnd(k) PROVE Core'
  BY <1>15, Names DEF RecvEnd
<1>16. ASSUME Lookup PROVE Core'
  BY <1>16, Names DEF Lookup
<1>17. ASSUME Create PROVE Core'
  BY <1>17, Names DEF Create
<1>18. ASSUME NEW k \in Sockets, Close(k) PROVE Core'
  BY <1>18, Names DEF Close
<1>19. ASSUME NEW k \in Sockets, CancelAll(k) PROVE Core'
  <2>1. pc[k] = "cancel" /\ pc' = [pc EXCEPT ![k] = "del"]
    BY <1>19, CancelAllEffect
  <2>2. UNCHANGED <<clientVars, fileVars, fdctx, taskVars>>
    BY <1>19 DEF CancelAll
  <2> QED  BY <2>1, <2>2, Names
<1>20. ASSUME NEW k \in Sockets, Del(k) PROVE Core'
  BY <1>20, Names DEF Del
<1>21. ASSUME NEW k \in Sockets, CloseFd(k) PROVE Core'
  BY <1>21, Names DEF CloseFd
<1>22. ASSUME NEW c \in Conns, Connect(c) PROVE Core'
  BY <1>22, Names DEF Connect
<1>23. ASSUME NEW c \in Conns, End(c) PROVE Core'
  BY <1>23, Names DEF End
<1> HIDE DEF Inv, TypeOK, Core, OneRuns, TableInv, CtxInv, CloseInv, RoleInv,
             Holds, Handled, Accepting, Fresh
<1> QED
  BY <1>1, <1>2, <1>3, <1>4, <1>5, <1>6, <1>7, <1>8, <1>9, <1>11, <1>12,
     <1>13, <1>14, <1>15, <1>16, <1>17, <1>18, <1>19, <1>20, <1>21, <1>22, <1>23
     DEF Next, Step, Hooked, Handler, Acceptor

(* The registry.                                                           *)
LEMMA WaitStep == Workers = 1 /\ Inv /\ [Next]_vars => WaitInv'
<1> SUFFICES ASSUME Workers = 1, Inv, [Next]_vars PROVE WaitInv'
  OBVIOUS
<1>1. ASSUME NEW k \in Sockets, Run(k) PROVE WaitInv'
  BY <1>1, RunEffect DEF Run, Inv, TypeOK, WaitInv, Registered
<1>2. ASSUME Loop PROVE WaitInv'
  BY <1>2, Names DEF Loop, Inv, TypeOK, WaitInv, Registered
<1>3. ASSUME NEW k \in Sockets, Get(k) PROVE WaitInv'
  BY <1>3, Names DEF Get, Inv, TypeOK, WaitInv, Registered
<1>4. ASSUME Accept PROVE WaitInv'
  <2>1. PICK c \in backlog : fd' = [fd EXCEPT ![c] = Lowest(Free)]
    BY <1>4 DEF Accept
  <2>2. c \in Conns /\ pc[c] = "new"
    BY DEF Core, RoleInv, Inv, TypeOK
  <2>3. /\ pc[Listener] = "try" /\ pc' = [pc EXCEPT ![Listener] = "lookup"]
        /\ UNCHANGED <<registry, op>>
    BY <1>4 DEF Accept
  <2> QED  BY <2>1, <2>2, <2>3, Names DEF Inv, TypeOK, WaitInv, Registered
<1>5. ASSUME NEW k \in Sockets, RecvData(k) PROVE WaitInv'
  BY <1>5, Names DEF RecvData, Inv, TypeOK, WaitInv, Registered
<1>6. ASSUME NEW k \in Sockets, RecvEnd(k) PROVE WaitInv'
  BY <1>6, Names DEF RecvEnd, Inv, TypeOK, WaitInv, Registered
<1>7. ASSUME NEW k \in Sockets, Sent(k) PROVE WaitInv'
  BY <1>7, Names DEF Sent, Inv, TypeOK, WaitInv, Registered
<1>8. ASSUME NEW k \in Sockets, Error(k) PROVE WaitInv'
  BY <1>8, ErrorEffect DEF Error, Inv, TypeOK, WaitInv, Registered
<1>9. ASSUME NEW k \in Sockets, Again(k) PROVE WaitInv'
  BY <1>9, AgainEffect DEF Again, Inv, TypeOK, WaitInv, Registered
<1>10. ASSUME NEW k \in Sockets, AddEvent(k) PROVE WaitInv'
  <2>1. /\ pc[k] = "add" /\ pc' = [pc EXCEPT ![k] = "wait"]
        /\ \A e \in Events : waiter[fd[k]][e] = Nobody
        /\ waiter' = [waiter EXCEPT ![fd[k]][op[k]] = k]
        /\ interest' = [interest EXCEPT ![fd[k]] = {op[k]}] /\ op' = op /\ fd' = fd
    BY <1>10, AddEventEffect DEF AddEvent
  <2> QED  BY <2>1, Names DEF Inv, TypeOK, WaitInv, Registered
<1>11. ASSUME Lookup PROVE WaitInv'
  BY <1>11, Names DEF Lookup, Inv, TypeOK, WaitInv, Registered
<1>12. ASSUME Create PROVE WaitInv'
  BY <1>12, Names DEF Create, Inv, TypeOK, WaitInv, Registered
<1>13. ASSUME Spawn PROVE WaitInv'
  BY <1>13, Names DEF Spawn, Core, RoleInv, Inv, TypeOK, WaitInv, Registered
<1>14. ASSUME NEW k \in Sockets, Close(k) PROVE WaitInv'
  BY <1>14, Names DEF Close, Inv, TypeOK, WaitInv, Registered
<1>15. ASSUME NEW k \in Sockets, CancelAll(k) PROVE WaitInv'
  <2>1. /\ pc[k] = "cancel" /\ pc' = [pc EXCEPT ![k] = "del"] /\ UNCHANGED <<registry, fate>>
        /\ UNCHANGED taskVars
    BY <1>15, CancelAllEffect DEF CancelAll
  <2> QED  BY <2>1 DEF Inv, TypeOK, WaitInv, Registered
<1>16. ASSUME NEW k \in Sockets, Del(k) PROVE WaitInv'
  BY <1>16, Names DEF Del, Inv, TypeOK, WaitInv, Registered
<1>17. ASSUME NEW k \in Sockets, CloseFd(k) PROVE WaitInv'
  <2>1. pc[k] = "closefd" /\ table[fd[k]] \in {k, Nobody}
    BY <1>17, Names DEF CloseFd, Core, TableInv, CloseInv, Holds, Inv, TypeOK, WaitInv, Registered
  <2>2. pc[k] \notin Waiting /\ fd[k] \in Descs
    BY <2>1 DEF Inv, TypeOK
  <2>3. Registered(fd[k]) = {}
    BY <2>1, <2>2, NotWaitedFor
  <2>4. interest[fd[k]] = {}
    BY <2>2, <2>3 DEF Inv, WaitInv
  <2>5. interest' = interest /\ UNCHANGED <<waiter, fd, op>>
    BY <1>17, <2>4 DEF CloseFd, Inv, TypeOK, WaitInv, Registered
  <2>6. \A j \in Sockets : pc'[j] = "wait" <=> pc[j] = "wait"
    BY <1>17, <2>1 DEF CloseFd, Inv, TypeOK, WaitInv, Registered
  <2> QED  BY <2>5, <2>6, Names DEF Inv, TypeOK, WaitInv, Registered
<1>18. ASSUME NEW d \in Descs, Poll(d) PROVE WaitInv'
  <2>1. PICK k \in Sockets :
          /\ pc[k] = "wait" /\ fd[k] = d /\ pc' = [pc EXCEPT ![k] = "woken"]
          /\ waiter' = [waiter EXCEPT ![d] = [e \in Events |-> Nobody]]
          /\ interest' = [interest EXCEPT ![d] = {}]
    BY <1>18, PollEffect
  <2>2. UNCHANGED <<fd, op>>
    BY <1>18 DEF Poll
  <2>3. \A j \in Sockets : pc[j] = "wait" /\ fd[j] = d => j = k
    BY <2>1 DEF Inv, Core, TableInv, Holds, Handled
  <2> QED  BY <2>1, <2>2, <2>3, Names DEF Inv, TypeOK, WaitInv, Registered
<1>19. ASSUME NEW c \in Conns, Connect(c) PROVE WaitInv'
  BY <1>19, Names DEF Connect, Inv, TypeOK, WaitInv, Registered
<1>20. ASSUME NEW c \in Conns, Data(c) PROVE WaitInv'
  BY <1>20, Names DEF Data, Inv, TypeOK, WaitInv, Registered
<1>21. ASSUME NEW c \in Conns, End(c) PROVE WaitInv'
  BY <1>21, Names DEF End, Inv, TypeOK, WaitInv, Registered
<1>22. ASSUME NEW c \in Conns, Drain(c) PROVE WaitInv'
  BY <1>22, Names DEF Drain, Inv, TypeOK, WaitInv, Registered
<1>23. ASSUME Stop PROVE WaitInv'
  BY <1>23, Names DEF Stop, Inv, TypeOK, WaitInv, Registered
<1>24. ASSUME UNCHANGED vars PROVE WaitInv'
  BY <1>24 DEF vars, Inv, TypeOK, WaitInv, Registered
<1> QED
  BY <1>1, <1>2, <1>3, <1>4, <1>5, <1>6, <1>7, <1>8, <1>9, <1>10, <1>11, <1>12,
     <1>13, <1>14, <1>15, <1>16, <1>17, <1>18, <1>19, <1>20, <1>21, <1>22, <1>23, <1>24
     DEF Next, Step, Hooked, Handler, Acceptor

(* An unchanged set of waiting coroutines.                                 *)
LEMMA PendingSame ==
  ASSUME PendingExact, pending' = pending,
         \A k \in Sockets : pc'[k] = "wait" <=> pc[k] = "wait"
  PROVE  PendingExact'
<1>1. {k \in Sockets : pc'[k] = "wait"} = {k \in Sockets : pc[k] = "wait"}
  OBVIOUS
<1> QED  BY <1>1 DEF PendingExact

(* The count of pending events.                                            *)
LEMMA PendingStep == Workers = 1 /\ Inv /\ [Next]_vars => PendingExact'
<1> SUFFICES ASSUME Workers = 1, Inv, [Next]_vars PROVE PendingExact'
  OBVIOUS
<1> DEFINE W == {k \in Sockets : pc[k] = "wait"}
<1>0. IsFiniteSet(W) /\ pending = Cardinality(W) /\ PendingExact
  BY FiniteSockets, FS_Subset DEF Inv, PendingExact
<1>1. ASSUME NEW k \in Sockets, AddEvent(k) PROVE PendingExact'
  <2>1. pc[k] = "add" /\ pc' = [pc EXCEPT ![k] = "wait"] /\ pending' = pending + 1
    BY <1>1, AddEventEffect
  <2>2. {j \in Sockets : pc'[j] = "wait"} = W \cup {k} /\ k \notin W
    BY <2>1 DEF Inv, TypeOK
  <2> QED  BY <1>0, <2>1, <2>2, FS_AddElement DEF PendingExact
<1>2. ASSUME NEW d \in Descs, Poll(d) PROVE PendingExact'
  <2>1. PICK k \in Sockets : /\ pc[k] = "wait" /\ pc' = [pc EXCEPT ![k] = "woken"]
                             /\ pending' = pending - 1
    BY <1>2, PollEffect
  <2>2. {j \in Sockets : pc'[j] = "wait"} = W \ {k} /\ k \in W
    BY <2>1 DEF Inv, TypeOK
  <2> QED  BY <1>0, <2>1, <2>2, FS_RemoveElement DEF PendingExact
<1> HIDE DEF W
<1>3. ASSUME UNCHANGED <<pc, pending>> PROVE PendingExact'
  BY <1>3, <1>0, PendingSame
<1>4. ASSUME NEW k \in Sockets, NEW l \in (Serving \cup Closing \cup Waiting) \ {"wait"},
             pc[k] # "wait", pc' = [pc EXCEPT ![k] = l], pending' = pending
      PROVE  PendingExact'
  BY <1>4, <1>0, PendingSame DEF Inv, TypeOK
<1>5. ASSUME NEW k \in Sockets, Run(k) PROVE PendingExact'
  BY <1>5, <1>4, RunEffect DEF Run
<1>6. ASSUME NEW k \in Sockets, Get(k) \/ Close(k) \/ Del(k) \/ CloseFd(k)
                                  \/ RecvData(k) \/ RecvEnd(k) \/ Sent(k)
      PROVE  PendingExact'
  BY <1>6, <1>4 DEF Get, RecvData, RecvEnd, Sent, Close, Del, CloseFd
<1>7. ASSUME NEW k \in Sockets, Error(k) \/ Again(k) \/ CancelAll(k) PROVE PendingExact'
  BY <1>7, <1>4, ErrorEffect, AgainEffect, CancelAllEffect DEF Error, Again
<1>8. ASSUME Loop \/ Accept \/ Lookup \/ Create PROVE PendingExact'
  BY <1>8, <1>4, Names DEF Loop, Accept, Lookup, Create
<1>9. ASSUME Spawn PROVE PendingExact'
  BY <1>9, <1>0, PendingSame, Names DEF Spawn, Inv, Core, RoleInv, TypeOK
<1>10. ASSUME NEW c \in Conns, Connect(c) \/ Data(c) \/ End(c) \/ Drain(c) PROVE PendingExact'
  BY <1>10, <1>3 DEF Connect, Data, End, Drain
<1>11. ASSUME Stop \/ UNCHANGED vars PROVE PendingExact'
  BY <1>11, <1>3 DEF Stop, vars
<1> QED
  BY <1>1, <1>2, <1>5, <1>6, <1>7, <1>8, <1>9, <1>10, <1>11
     DEF Next, Step, Hooked, Handler, Acceptor

(* Nothing goes wrong: no assert fails, no coroutine is queued twice.      *)
LEMMA FateStep == Workers = 1 /\ Inv /\ [Next]_vars => fate' = "ok"
<1> SUFFICES ASSUME Workers = 1, Inv, [Next]_vars PROVE fate' = "ok"
  OBVIOUS
<1>0. fate = "ok"
  BY DEF Inv
<1>1. ASSUME NEW k \in Sockets, Run(k) \/ Step(k) PROVE fate' = "ok"
  <2>1. CASE AddEvent(k) \/ CancelAll(k)
    BY <1>0, <2>1, AddEventEffect, CancelAllEffect
  <2>2. CASE Run(k) \/ Get(k) \/ Error(k) \/ Again(k) \/ Close(k) \/ Del(k) \/ CloseFd(k)
    BY <1>0, <2>2 DEF Run, Get, Error, Again, Close, Del, CloseFd
  <2>3. CASE RecvData(k) \/ RecvEnd(k) \/ Sent(k)
    BY <1>0, <2>3 DEF RecvData, RecvEnd, Sent
  <2>4. CASE Acceptor
    BY <1>0, <2>4 DEF Acceptor, Loop, Accept, Lookup, Create, Spawn
  <2> QED  BY <1>1, <2>1, <2>2, <2>3, <2>4 DEF Step, Hooked, Handler
<1>2. ASSUME NEW d \in Descs, Poll(d) PROVE fate' = "ok"
  BY <1>2, PollEffect
<1>3. ASSUME NEW c \in Conns, Connect(c) \/ Data(c) \/ End(c) \/ Drain(c) PROVE fate' = "ok"
  BY <1>0, <1>3 DEF Connect, Data, End, Drain
<1>4. ASSUME Stop \/ UNCHANGED vars PROVE fate' = "ok"
  BY <1>0, <1>4 DEF Stop, vars
<1> QED  BY <1>1, <1>2, <1>3, <1>4 DEF Next

-----------------------------------------------------------------------------
(* Theorems.                                                               *)

LEMMA InvInit == Init => Inv
<1> SUFFICES ASSUME Init PROVE Inv
  OBVIOUS
<1>1. First \in Descs /\ Listener \in Sockets /\ Listener # Nobody
  BY FirstIsDesc, Names
<1>2. /\ pc = [k \in Sockets |-> IF k = Listener THEN "queued" ELSE "new"]
      /\ table = [d \in Descs |-> IF d = First THEN Listener ELSE Nobody]
      /\ fd = [k \in Sockets |-> First] /\ client = Nobody
  BY DEF Init
<1>3. TypeOK
  <2>1. 0 \in 0 .. Cardinality(Descs)
    BY FiniteAssumption, FS_CardinalityType
  <2>2. sends \in 0 .. MaxSends
    BY WorkersAssumption DEF Init
  <2>3. /\ table \in [Descs -> Sockets \cup {Nobody}] /\ nonblock \subseteq Sockets
        /\ interest \in [Descs -> SUBSET Events] /\ fdctx \in [Descs -> {"none", "socket", "other"}]
        /\ waiter \in [Descs -> [Events -> Sockets \cup {Nobody}]]
    BY <1>1 DEF Init
  <2>4. /\ pc \in [Sockets -> Waiting \cup Serving \cup Closing]
        /\ fd \in [Sockets -> Descs] /\ op \in [Sockets -> Events]
        /\ seen \in [Sockets -> {"none", "socket", "other"}] /\ closes \in [Sockets -> 0 .. 2]
    BY <1>1 DEF Init
  <2> QED  BY <2>1, <2>2, <2>3, <2>4 DEF Init, TypeOK
<1>4. OneRuns
  BY <1>2 DEF OneRuns
<1>5. TableInv
  BY <1>1, <1>2, Names DEF TableInv, Holds, Handled
<1>6. CtxInv
  BY <1>1, <1>2, Names DEF Init, CtxInv, Holds, Handled, Fresh
<1>7. CloseInv
  BY <1>2 DEF CloseInv
<1>8. RoleInv
  BY <1>1, <1>2, Names DEF Init, RoleInv, Accepting
<1>9. WaitInv
  BY <1>1, <1>2 DEF Init, WaitInv, Registered
<1>10. PendingExact
  <2>1. {k \in Sockets : pc[k] = "wait"} = {}
    BY <1>2
  <2> QED  BY <2>1, FS_EmptySet DEF Init, PendingExact
<1>11. fate = "ok"
  BY DEF Init
<1> QED  BY <1>3, <1>4, <1>5, <1>6, <1>7, <1>8, <1>9, <1>10, <1>11 DEF Inv, Core

LEMMA InvStep == Workers = 1 /\ Inv /\ [Next]_vars => Inv'
BY TypeStep, CoreStep, WaitStep, PendingStep, FateStep DEF Inv

(* The invariant holds in every state of the server with one worker.       *)
LEMMA Invariance == Workers = 1 /\ Spec => []Inv
<1> SUFFICES ASSUME Workers = 1 PROVE Spec => []Inv
  OBVIOUS
<1>1. Inv /\ [Next]_vars => Inv'
  BY InvStep
<1> QED  BY InvInit, <1>1, PTL DEF Spec

(* Every variable of the server with one worker keeps its type; the count  *)
(* of pending events never exceeds the number of descriptors.              *)
THEOREM TypeCorrect == Workers = 1 /\ Spec => []TypeOK
<1>1. Inv => TypeOK
  BY DEF Inv
<1> QED  BY Invariance, <1>1, PTL

(* With one worker thread a handler, from the moment it is queued until it *)
(* closes, has its own socket behind its descriptor, although numbers are  *)
(* handed out again and every orderly end closes its number twice; no      *)
(* assert fails and no coroutine is queued twice.                          *)
THEOREM DescriptorsAreOwned == Workers = 1 /\ Spec => []OwnDescriptor
<1>1. Inv => OwnDescriptor
  BY Names DEF Inv, Core, OwnDescriptor, TableInv, CtxInv, RoleInv, Holds, Handled, Fresh
<1> QED  BY Invariance, <1>1, PTL

(* With one worker thread m_pendingEventCount is the number of coroutines  *)
(* that wait for a descriptor.                                             *)
THEOREM PendingIsExact == Workers = 1 /\ Spec => []PendingExact
<1>1. Inv => PendingExact
  BY DEF Inv
<1> QED  BY Invariance, <1>1, PTL

-----------------------------------------------------------------------------
(* The refinement of TcpService.                                           *)

(* The state of a connection, arm by arm; the arms exclude each other.     *)
StateInv ==
  \A c \in Conns :
    /\ c \notin made => StateOf[c] = "new"
    /\ c \in backlog => StateOf[c] = "waiting" /\ c \in made
    /\ Open(c) => StateOf[c] = "open" /\ c \in made \ backlog
    /\ c \in made \ backlog /\ ~ Open(c) => StateOf[c] = "closed"

LEMMA StateFacts == Inv => StateInv
<1> SUFFICES ASSUME Inv, NEW c \in Conns
             PROVE  /\ c \notin made => StateOf[c] = "new"
                    /\ c \in backlog => StateOf[c] = "waiting" /\ c \in made
                    /\ Open(c) => StateOf[c] = "open" /\ c \in made \ backlog
                    /\ c \in made \ backlog /\ ~ Open(c) => StateOf[c] = "closed"
  BY DEF StateInv
<1>1. Open(c) => Holds(c)
  BY Names DEF Inv, Core, TableInv, Open
<1>2. Open(c) => c \in made \ backlog
  BY <1>1, Names DEF Inv, Core, RoleInv, Holds, Handled, Accepting
<1>3. c \in backlog => c \in made
  BY DEF Inv, TypeOK
<1> QED  BY <1>2, <1>3 DEF StateOf

(* Every step of the server is a step of the service or leaves it alone.   *)
LEMMA ServiceStep ==
  Workers = 1 /\ Inv /\ Inv' /\ [Next]_vars => [Service!Next]_<<StateOf, ended>>
<1> SUFFICES ASSUME Workers = 1, Inv, Inv', [Next]_vars
             PROVE  [Service!Next]_<<StateOf, ended>>
  OBVIOUS
<1> DEFINE Goal == [Service!Next]_<<StateOf, ended>>
<1>1. /\ \A c \in Conns : Open(c) <=> Holds(c)
      /\ StateInv /\ StateInv'
  <2>1. \A c \in Conns : Open(c) <=> Holds(c)
    BY Names DEF Open, Inv, TypeOK, Core, TableInv
  <2>2. StateInv'
    BY StateFacts, PTL
  <2> QED  BY <2>1, <2>2, StateFacts
<1>2. ASSUME UNCHANGED <<made, backlog, table, ended>> PROVE Goal
  BY <1>2 DEF StateOf, Open
<1>3. ASSUME NEW c \in Conns, c \in made' <=> c \in made, c \in backlog' <=> c \in backlog,
             Open(c)' <=> Open(c)
      PROVE  StateOf'[c] = StateOf[c]
  BY <1>1, <1>3 DEF StateInv
<1>4. ASSUME NEW c \in Conns, NEW to, StateOf'[c] = to, ended' = ended,
             \A x \in Conns : x # c => StateOf'[x] = StateOf[x]
      PROVE  /\ StateOf[c] = "new" /\ to = "waiting" => Goal
             /\ StateOf[c] = "waiting" /\ to = "open" => Goal
             /\ StateOf[c] = "open" /\ to = "closed" /\ c \in ended => Goal
  <2>1. /\ StateOf = [x \in Conns |-> StateOf[x]]
        /\ StateOf' = [x \in Conns |-> StateOf'[x]]
    BY DEF StateOf
  <2>2. StateOf' = [StateOf EXCEPT ![c] = to]
    BY <1>4, <2>1
  <2> QED
    BY <1>4, <2>2 DEF Service!Next, Service!Connect, Service!Accept, Service!Close, Service!Move
<1>5. ASSUME NEW c \in Conns, Connect(c) PROVE Goal
  <2>1. /\ c \notin made /\ made' = made \cup {c} /\ backlog' = backlog \cup {c}
        /\ UNCHANGED <<table, ended>>
    BY <1>5 DEF Connect
  <2>2. StateOf[c] = "new" /\ StateOf'[c] = "waiting"
    BY <1>1, <2>1 DEF StateInv
  <2>3. \A x \in Conns : x # c => StateOf'[x] = StateOf[x]
    BY <1>3, <2>1 DEF Open
  <2> QED  BY <1>4, <2>1, <2>2, <2>3
<1>6. ASSUME Accept PROVE Goal
  <2>1. PICK c \in backlog : /\ backlog' = backlog \ {c}
                             /\ table' = [table EXCEPT ![Lowest(Free)] = c]
    BY <1>6 DEF Accept
  <2>2. Lowest(Free) \in Descs /\ table[Lowest(Free)] = Nobody /\ UNCHANGED <<made, ended>>
    BY <1>6, LowestIsFree DEF Accept, Free
  <2>3. c \in Conns /\ StateOf[c] = "waiting" /\ c \in made
    BY <1>1 DEF StateInv, Inv, TypeOK
  <2>4. Open(c)'
    BY <2>1, <2>2 DEF Open, Inv, TypeOK
  <2>5. StateOf'[c] = "open"
    BY <1>1, <2>3, <2>4 DEF StateInv
  <2>6. ASSUME NEW x \in Conns, x # c PROVE StateOf'[x] = StateOf[x]
    <3>1. Open(x)' <=> Open(x)
      BY <2>1, <2>2, <2>6, Names DEF Open, Inv, TypeOK
    <3> QED  BY <1>3, <2>1, <2>2, <2>6, <3>1
  <2> QED  BY <1>4, <2>2, <2>3, <2>5, <2>6
<1>7. ASSUME NEW k \in Sockets, CloseFd(k) PROVE Goal
  <2>1. /\ pc[k] = "closefd" /\ table' = [table EXCEPT ![fd[k]] = Nobody]
        /\ backlog' = IF table[fd[k]] = Listener THEN {} ELSE backlog
        /\ UNCHANGED <<made, ended>>
    BY <1>7 DEF CloseFd
  <2>2. fd[k] \in Descs
    BY DEF Inv, TypeOK
  <2>3. CASE k = Listener
    <3>1. table[fd[k]] = Listener /\ backlog' = {}
      BY <2>1, <2>3 DEF Inv, Core, TableInv, Holds
    <3>2. \A c \in Conns : Open(c)' <=> Open(c)
      BY <2>1, <2>2, <3>1, Names DEF Open, Inv, TypeOK
    <3>3. ASSUME NEW c \in Conns
          PROVE  StateOf'[c] = IF StateOf[c] = "waiting" THEN "closed" ELSE StateOf[c]
      <4>1. CASE c \in backlog
        BY <1>1, <2>1, <3>1, <3>2, <4>1 DEF StateInv
      <4>2. CASE c \notin backlog
        BY <1>1, <2>1, <3>1, <3>2, <4>2 DEF StateInv
      <4> QED  BY <4>1, <4>2
    <3>4. StateOf' = [c \in Conns |-> IF StateOf[c] = "waiting" THEN "closed" ELSE StateOf[c]]
      BY <3>3 DEF StateOf
    <3> QED  BY <2>1, <3>4 DEF Service!Next, Service!Refuse
  <2>4. CASE k # Listener /\ closes[k] = 2
    <3>1. k \in Conns /\ k \in ended /\ table[fd[k]] = k /\ backlog' = backlog
      BY <2>1, <2>4, Names DEF Inv, Core, TableInv, CloseInv, Holds, Sockets
    <3>2. \A d \in Descs : table[d] = k => d = fd[k]
      BY <3>1, Names DEF Inv, Core, TableInv
    <3>3. Open(k) /\ ~ Open(k)'
      BY <2>1, <2>2, <3>1, <3>2, Names DEF Open, Inv, TypeOK
    <3>4. StateOf[k] = "open" /\ StateOf'[k] = "closed"
      BY <1>1, <2>1, <3>1, <3>3 DEF StateInv
    <3>5. ASSUME NEW x \in Conns, x # k PROVE StateOf'[x] = StateOf[x]
      <4>1. Open(x)' <=> Open(x)
        BY <2>1, <2>2, <3>1, <3>5, Names DEF Open, Inv, TypeOK
      <4> QED  BY <1>3, <2>1, <3>1, <3>5, <4>1
    <3> QED  BY <1>4, <2>1, <3>1, <3>4, <3>5
  <2>5. CASE k # Listener /\ closes[k] # 2
    <3>1. table[fd[k]] = Nobody
      BY <2>1, <2>5 DEF Inv, Core, CloseInv
    <3>2. UNCHANGED <<made, backlog, table, ended>>
      BY <2>1, <2>2, <3>1, Names DEF Inv, TypeOK
    <3> QED  BY <1>2, <3>2
  <2> QED  BY <2>3, <2>4, <2>5
<1>8. ASSUME NEW c \in Conns, End(c) PROVE Goal
  <2>1. /\ Reach(c) /\ ended' = ended \cup {c} /\ UNCHANGED <<made, backlog, table>>
    BY <1>8 DEF End
  <2>2. StateOf' = StateOf
    BY <2>1 DEF StateOf, Open
  <2>3. StateOf[c] # "new"
    BY <1>1, <2>1 DEF Reach, StateInv
  <2> QED  BY <2>1, <2>2, <2>3 DEF Service!Next, Service!End
<1> HIDE DEF Goal
<1>9. ASSUME NEW k \in Sockets, Run(k) \/ Step(k) PROVE Goal
  <2>1. CASE Run(k) \/ Get(k) \/ Error(k) \/ Again(k) \/ Close(k) \/ Del(k)
    BY <1>2, <2>1 DEF Run, Get, Error, Again, Close, Del
  <2>2. CASE AddEvent(k) \/ CancelAll(k)
    BY <1>2, <2>2 DEF AddEvent, CancelAll
  <2>3. CASE RecvData(k) \/ RecvEnd(k) \/ Sent(k)
    BY <1>2, <2>3 DEF RecvData, RecvEnd, Sent
  <2>4. CASE Loop \/ Lookup \/ Create \/ Spawn
    BY <1>2, <2>4 DEF Loop, Lookup, Create, Spawn
  <2> QED  BY <1>6, <1>7, <1>9, <2>1, <2>2, <2>3, <2>4 DEF Step, Hooked, Handler, Acceptor
<1>10. ASSUME NEW c \in Conns, Data(c) \/ Drain(c) PROVE Goal
  BY <1>2, <1>10 DEF Data, Drain
<1>11. ASSUME NEW d \in Descs, Poll(d) PROVE Goal
  BY <1>2, <1>11 DEF Poll
<1>12. ASSUME Stop \/ UNCHANGED vars PROVE Goal
  BY <1>2, <1>12 DEF Stop, vars
<1>13. Goal
  BY <1>5, <1>8, <1>9, <1>10, <1>11, <1>12 DEF Next
<1> QED  BY <1>13 DEF Goal

(* With one worker thread the server keeps the promises of TcpService.     *)
THEOREM ServiceKept == Workers = 1 /\ Spec => ServiceSpec
<1> SUFFICES ASSUME Workers = 1 PROVE Spec => ServiceSpec
  OBVIOUS
<1>1. Init => Service!Init
  <2> SUFFICES ASSUME Init PROVE Service!Init
    OBVIOUS
  <2>1. Inv /\ made = {} /\ ended = {}
    BY InvInit DEF Init
  <2>2. \A c \in Conns : StateOf[c] = "new"
    BY <2>1, StateFacts DEF StateInv
  <2> QED  BY <2>1, <2>2 DEF Service!Init, StateOf
<1>2. Inv /\ Inv' /\ [Next]_vars => [Service!Next]_<<StateOf, ended>>
  BY ServiceStep
<1>3. Spec => []Inv
  BY Invariance
<1> QED  BY <1>1, <1>2, <1>3, PTL DEF Spec, ServiceSpec, Service!Spec
=============================================================================
