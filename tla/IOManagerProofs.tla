--------------------------- MODULE IOManagerProofs ---------------------------
(***************************************************************************)
(* Proofs about IOManager for any number of descriptors, coroutines and    *)
(* arrivals, in the two settings the code can be used in.                  *)
(*                                                                         *)
(* Separate: each descriptor is used in one direction and cancelEvent is   *)
(* called for READ only; any number of threads poll, and del, cancel and   *)
(* cancelAll are called at any time, also after the event has fired.       *)
(*                                                                         *)
(* Single: both directions of a descriptor may wait; one thread polls, the *)
(* table of contexts is large enough, and nobody else takes events away.   *)
(***************************************************************************)
EXTENDS IOManager, TLAPS, FiniteSetTheorems

Separate ==
  /\ \A c, d \in Coros : FdOf[c] = FdOf[d] => c = d
  /\ \A y \in Cancels : y[2] = "READ" /\ \A c \in Coros : FdOf[c] = y[1] => EventOf[c] = "READ"

Single ==
  /\ \A v, w \in Workers : v = w
  /\ MaxCalls = 0
  /\ \A f \in Fds : f < InitialSize

-----------------------------------------------------------------------------
(* The inductive invariant.                                                *)

(* The registrations: a coroutine that waits is in one place of the        *)
(* registry or in the scheduler's queue, and nobody else is in either.     *)
WaitInv ==
  /\ \A x \in Contexts, e \in Events : waiter[x][e] # Nobody =>
       /\ FdOf[waiter[x][e]] = x[1] /\ EventOf[waiter[x][e]] = e
       /\ cpc[waiter[x][e]] = "wait" /\ woken[waiter[x][e]] = 0
  /\ \A c \in Coros : cpc[c] = "wait" /\ woken[c] = 0 =>
       \E x \in Contexts : waiter[x][EventOf[c]] = c
  /\ \A c \in Coros : cpc[c] # "wait" => woken[c] = 0

(* The contexts that epoll and the coroutines point to are those of their  *)
(* descriptors.                                                            *)
PointInv ==
  /\ \A f \in Fds : interest[f].ptr[1] = f
  /\ \A c \in Coros : target[c][1] = FdOf[c]

(* When each descriptor has one direction, a report is of that direction.  *)
SeparateInv ==
  \A w \in Workers : \A r \in reports[w] : \A e \in r.mask :
    \E c \in Coros : FdOf[c] = r.ctx[1] /\ EventOf[c] = e

(* A single worker finds every direction registered that it has a report   *)
(* of, in the only context of the descriptor.                              *)
SingleInv ==
  /\ size = InitialSize /\ latest = [f \in Fds |-> 0]
  /\ \A c \in Coros : cpc[c] # "grow"
  /\ \A f \in Fds : interest[f].ptr = <<f, 0>>
  /\ \A c \in Coros : target[c] = <<FdOf[c], 0>>
  /\ \A w \in Workers : \A r \in reports[w] :
       r.mask \subseteq events[r.ctx] /\ \A s \in reports[w] : r.ctx = s.ctx => r = s

SettingInv == (Separate /\ SeparateInv) \/ (Single /\ SingleInv)

(* Types, but for the bound of the counter, which the count gives.         *)
Types ==
  /\ size \in Nat /\ latest \in [Fds -> 0 .. MaxContexts]
  /\ events \in [Contexts -> SUBSET Events]
  /\ waiter \in [Contexts -> [Events -> Coros \cup {Nobody}]]
  /\ pending \in Int
  /\ interest \in [Fds -> [mask : SUBSET Events, et : BOOLEAN, ptr : Contexts]]
  /\ listed \in [Fds -> BOOLEAN]
  /\ ready \in [Fds -> SUBSET Events] /\ broken \subseteq Fragile
  /\ reports \in [Workers -> SUBSET Report]
  /\ cpc \in [Coros -> {"try", "grow", "add", "wait", "failed", "dropped"}]
  /\ target \in [Coros -> Contexts]
  /\ woken \in [Coros -> 0 .. 1]
  /\ arrivals \in [Fds -> 0 .. MaxArrivals] /\ calls \in 0 .. MaxCalls

Core == fate = "ok" /\ Types /\ WaitInv /\ PointInv /\ CopiesAgree /\ PendingExact
Inv  == Core /\ SettingInv

-----------------------------------------------------------------------------
(* Facts about contexts and registrations.                                 *)

LEMMA ContextFacts ==
  /\ \A x \in Contexts : x[1] \in Fds /\ x = <<x[1], x[2]>>
  /\ \A f \in Fds : <<f, 0>> \in Contexts
BY TableAssumption DEF Contexts

(* The registered events, as pairs of a context and a direction.           *)
Registrations == {y \in Contexts \X Events : y[2] \in events[y[1]]}

LEMMA FiniteRegistrations == IsFiniteSet(Contexts \X Events) /\ IsFiniteSet(Registrations)
<1>1. IsFiniteSet(0 .. MaxContexts)
  BY TableAssumption, FS_Interval
<1>2. IsFiniteSet(Contexts)
  BY <1>1, FiniteAssumption, FS_Product DEF Contexts
<1>3. IsFiniteSet(Events)
  <2>1. Events = {"READ"} \cup {"WRITE"}
    BY DEF Events
  <2> QED  BY <2>1, FS_Singleton, FS_AddElement
<1>4. IsFiniteSet(Contexts \X Events)
  BY <1>2, <1>3, FS_Product
<1> QED  BY <1>4, FS_Subset DEF Registrations

(* A descriptor has registered events in one of its contexts at most.      *)
LEMMA OneContext ==
  ASSUME Core, NEW x \in Contexts, NEW y \in Contexts, x[1] = y[1],
         events[x] # {}, events[y] # {}
  PROVE  x = y
BY DEF Core, CopiesAgree

(* Who is registered for an event.                                         *)
LEMMA WaiterFacts ==
  ASSUME Core, NEW x \in Contexts, NEW e \in events[x]
  PROVE  /\ e \in Events /\ waiter[x][e] \in Coros /\ waiter[x][e] # Nobody
         /\ FdOf[waiter[x][e]] = x[1] /\ EventOf[waiter[x][e]] = e
         /\ cpc[waiter[x][e]] = "wait" /\ woken[waiter[x][e]] = 0
<1>1. e \in Events /\ waiter[x][e] # Nobody
  BY DEF Core, Types, CopiesAgree
<1> QED  BY <1>1 DEF Core, Types, WaitInv

(* Distinct registrations belong to distinct coroutines, so the counter    *)
(* never exceeds their number.                                             *)
LEMMA CountBounded == Core => TypeOK
<1> SUFFICES ASSUME Core PROVE TypeOK
  OBVIOUS
<1> DEFINE g == [y \in Registrations |-> waiter[y[1]][y[2]]]
<1>1. \A y \in Registrations :
        /\ y[1] \in Contexts /\ y[2] \in events[y[1]] /\ y = <<y[1], y[2]>>
        /\ g[y] \in Coros /\ FdOf[g[y]] = y[1][1] /\ EventOf[g[y]] = y[2]
  BY WaiterFacts DEF Registrations
<1> HIDE DEF g
<1>2. ASSUME NEW y \in Registrations, NEW z \in Registrations, g[y] = g[z] PROVE y = z
  <2>1. y[1] = z[1]
    BY <1>1, <1>2, OneContext
  <2> QED  BY <1>1, <1>2, <2>1
<1>3. g \in [Registrations -> Coros]
  BY <1>1 DEF g
<1>4. g \in Injection(Registrations, Coros)
  BY <1>2, <1>3 DEF Injection, IsInjective
<1>5. Cardinality(Registrations) <= Cardinality(Coros)
  BY <1>4, FiniteAssumption, FS_Injection
<1>6. pending = Cardinality(Registrations)
  BY DEF Core, PendingExact, Registrations
<1>7. pending \in 0 .. Cardinality(Coros)
  BY <1>5, <1>6, FiniteRegistrations, FiniteAssumption, FS_CardinalityType
<1> QED  BY <1>7 DEF Core, Types, TypeOK

-----------------------------------------------------------------------------
(* What the operations on the registry do when the invariant holds.        *)

USE DEF sizeVars, tableVars, epollVars, kernelVars, coroVars

(* The events evs of the context x are taken out, of the table and of      *)
(* epoll.                                                                  *)
Removal(x, evs) ==
  /\ evs \subseteq events[x] /\ evs # {}
  /\ events' = [events EXCEPT ![x] = @ \ evs]
  /\ waiter' = [waiter EXCEPT ![x] = [e \in Events |-> IF e \in evs THEN Nobody ELSE @[e]]]
  /\ pending' = pending - Cardinality(evs)
  /\ interest'[x[1]].mask = events[x] \ evs
  /\ interest'[x[1]].ptr = IF events[x] \ evs = {} THEN <<x[1], 0>> ELSE x
  /\ \A f \in Fds : f # x[1] => interest'[f] = interest[f]
  /\ interest' \in [Fds -> [mask : SUBSET Events, et : BOOLEAN, ptr : Contexts]]
  /\ listed' \in [Fds -> BOOLEAN]
  /\ fate' = "ok"

(* Their coroutines are queued, once each.                                 *)
Wakes(x, evs) ==
  /\ woken' = [c \in Coros |->
                 IF \E e \in evs : waiter[x][e] = c THEN woken[c] + 1 ELSE woken[c]]
  /\ cpc' = cpc

(* epoll_ctl with MOD or DEL succeeds on a context with events.            *)
LEMMA CtlEffect ==
  ASSUME Core, NEW x \in Contexts, NEW left, left \subseteq events[x], events[x] # {},
         NEW et \in BOOLEAN, NEW mask, left # {} => mask = left,
         Ctl(x, ModOrDel(left), mask, et)
  PROVE  /\ interest'[x[1]].mask = left
         /\ interest'[x[1]].ptr = IF left = {} THEN <<x[1], 0>> ELSE x
         /\ \A f \in Fds : f # x[1] => interest'[f] = interest[f]
         /\ interest' \in [Fds -> [mask : SUBSET Events, et : BOOLEAN, ptr : Contexts]]
         /\ listed' \in [Fds -> BOOLEAN]
<1>1. x[1] \in Fds /\ <<x[1], 0>> \in Contexts
  BY ContextFacts
<1>2. interest[x[1]].mask = events[x] /\ left \in SUBSET Events
  BY <1>1 DEF Core, CopiesAgree, Types
<1>3. /\ interest' = [interest EXCEPT ![x[1]] =
                        IF left = {} THEN Absent(x[1]) ELSE [mask |-> left, et |-> et, ptr |-> x]]
      /\ \E b \in BOOLEAN : listed' = [listed EXCEPT ![x[1]] = b]
  BY <1>2 DEF Ctl, CanCtl, ModOrDel
<1>4. interest \in [Fds -> [mask : SUBSET Events, et : BOOLEAN, ptr : Contexts]]
      /\ listed \in [Fds -> BOOLEAN]
  BY DEF Core, Types
<1>5. /\ Absent(x[1]) \in [mask : SUBSET Events, et : BOOLEAN, ptr : Contexts]
      /\ [mask |-> left, et |-> et, ptr |-> x] \in [mask : SUBSET Events, et : BOOLEAN, ptr : Contexts]
      /\ Absent(x[1]).mask = {} /\ Absent(x[1]).ptr = <<x[1], 0>>
  BY <1>1, <1>2 DEF Absent
<1> QED  BY <1>1, <1>3, <1>4, <1>5

(* A trigger of registered events.                                         *)
LEMMA TriggerEffect ==
  ASSUME Core, NEW x \in Contexts, NEW evs, evs \subseteq events[x], evs # {}, TriggerAll(x, evs),
         NEW et \in BOOLEAN, NEW mask, (events[x] \ evs) # {} => mask = events[x] \ evs,
         Ctl(x, ModOrDel(events[x] \ evs), mask, et)
  PROVE  /\ Removal(x, evs)
         /\ woken' = [c \in Coros |->
                        IF \E e \in evs : waiter[x][e] = c THEN woken[c] + 1 ELSE woken[c]]
<1>1. Registered(x, evs)
  BY WaiterFacts DEF Registered
<1>2. events[x] \ evs \subseteq events[x] /\ events[x] # {}
  OBVIOUS
<1>3. fate' = "ok"
  BY <1>1 DEF TriggerAll, Core
<1> DEFINE left == events[x] \ evs
<1>4. left \subseteq events[x] /\ Ctl(x, ModOrDel(left), mask, et) /\ (left # {} => mask = left)
  OBVIOUS
<1> HIDE DEF left
<1>5. /\ interest'[x[1]].mask = left
      /\ interest'[x[1]].ptr = IF left = {} THEN <<x[1], 0>> ELSE x
      /\ \A f \in Fds : f # x[1] => interest'[f] = interest[f]
      /\ interest' \in [Fds -> [mask : SUBSET Events, et : BOOLEAN, ptr : Contexts]]
      /\ listed' \in [Fds -> BOOLEAN]
  BY <1>2, <1>4, CtlEffect
<1>6. /\ events' = [events EXCEPT ![x] = @ \ evs]
      /\ waiter' = [waiter EXCEPT ![x] = [e \in Events |-> IF e \in evs THEN Nobody ELSE @[e]]]
      /\ pending' = pending - Cardinality(evs)
      /\ woken' = [c \in Coros |->
                     IF \E e \in evs : waiter[x][e] = c THEN woken[c] + 1 ELSE woken[c]]
  BY DEF TriggerAll
<1> QED  BY <1>3, <1>5, <1>6 DEF Removal, left

(* idle() finds all the directions of a report registered, or none.        *)
LEMMA AllOrNone ==
  ASSUME Inv, NEW w \in Workers, NEW r \in reports[w]
  PROVE  /\ r \in Report
         /\ events[r.ctx] \cap RealEvents(r) # {} => RealEvents(r) \subseteq events[r.ctx]
<1>1. r \in Report /\ r.ctx \in Contexts /\ Core
  BY DEF Inv, Core, Types, Report
<1>2. CASE Single /\ SingleInv
  BY <1>1, <1>2 DEF SingleInv, RealEvents
<1>3. CASE Separate /\ SeparateInv
  <2>1. ASSUME NEW e \in events[r.ctx], NEW m \in r.mask PROVE m = e
    <3>1. PICK d \in Coros : FdOf[d] = r.ctx[1] /\ EventOf[d] = m
      BY <1>3 DEF SeparateInv
    <3> QED  BY <1>1, <1>3, <3>1, WaiterFacts DEF Separate
  <2> QED  BY <1>1, <2>1 DEF RealEvents
<1> QED  BY <1>1, <1>2, <1>3 DEF Inv, SettingInv

LEMMA ServeEffect ==
  ASSUME Inv, NEW w \in Workers, NEW r \in reports[w], Serve(w, r)
  PROVE  \/ UNCHANGED <<tableVars, epollVars, woken, fate>>
         \/ Removal(r.ctx, RealEvents(r)) /\ Wakes(r.ctx, RealEvents(r))
<1>1. r.ctx \in Contexts /\ Core
  BY AllOrNone DEF Inv, Report
<1>2. CASE events[r.ctx] \cap RealEvents(r) # {}
  <2>1. RealEvents(r) \subseteq events[r.ctx] /\ RealEvents(r) # {}
    BY <1>2, AllOrNone
  <2>2. /\ TriggerAll(r.ctx, RealEvents(r)) /\ cpc' = cpc
        /\ Ctl(r.ctx, ModOrDel(events[r.ctx] \ RealEvents(r)), events[r.ctx] \ RealEvents(r), TRUE)
    BY <1>2 DEF Serve
  <2> DEFINE x == r.ctx
             evs == RealEvents(r)
             left == events[x] \ evs
  <2> HIDE DEF x, evs
  <2>3. /\ Removal(x, evs)
        /\ woken' = [c \in Coros |->
                       IF \E e \in evs : waiter[x][e] = c THEN woken[c] + 1 ELSE woken[c]]
    <3>1. x \in Contexts /\ evs \subseteq events[x] /\ evs # {} /\ TriggerAll(x, evs)
          /\ Ctl(x, ModOrDel(events[x] \ evs), left, TRUE) /\ (events[x] \ evs # {} => left = events[x] \ evs)
      BY <1>1, <2>1, <2>2 DEF x, evs
    <3> HIDE DEF left
    <3> QED  BY <1>1, <3>1, TriggerEffect
  <2> QED  BY <2>2, <2>3 DEF Wakes, x, evs
<1> QED  BY <1>2 DEF Serve

LEMMA CancelAllEffect ==
  ASSUME Inv, NEW f \in Fds, CancelAll(f)
  PROVE  /\ Removal(ContextOf(f), events[ContextOf(f)]) /\ Wakes(ContextOf(f), events[ContextOf(f)])
         /\ ContextOf(f) \in Contexts
<1> DEFINE x == ContextOf(f)
<1>1. x \in Contexts /\ Core
  BY DEF ContextOf, Contexts, Inv, Core, Types
<1>2. events[x] # {} /\ TriggerAll(x, events[x]) /\ Ctl(x, "DEL", {}, TRUE) /\ cpc' = cpc
  BY DEF CancelAll
<1> HIDE DEF x
<1>3. ModOrDel(events[x] \ events[x]) = "DEL"
  BY DEF ModOrDel
<1> DEFINE evs == events[x]
           mask == {}
<1>4. Removal(x, evs) /\ woken' = [c \in Coros |->
         IF \E e \in evs : waiter[x][e] = c THEN woken[c] + 1 ELSE woken[c]]
  <2>1. evs \subseteq events[x] /\ evs # {} /\ TriggerAll(x, evs)
        /\ Ctl(x, ModOrDel(events[x] \ evs), mask, TRUE) /\ (events[x] \ evs # {} => mask = events[x] \ evs)
    BY <1>2, <1>3
  <2> HIDE DEF evs, mask
  <2> QED  BY <1>1, <2>1, TriggerEffect
<1> QED  BY <1>1, <1>2, <1>4 DEF Wakes, x

(* Nobody calls anything in the setting Single.                            *)
LEMMA CallersSeparate == Inv /\ Call => Separate /\ SeparateInv /\ Core
BY BoundAssumption DEF Inv, SettingInv, Single, Core, Types, Call

LEMMA CancelEventEffect ==
  ASSUME Inv, NEW f \in Fds, NEW e \in Events, CancelEvent(f, e)
  PROVE  ContextOf(f) \in Contexts /\ Removal(ContextOf(f), {e}) /\ Wakes(ContextOf(f), {e})
<1> DEFINE x == ContextOf(f)
<1>1. x \in Contexts /\ x[1] = f /\ Core /\ Separate
  BY CallersSeparate DEF CancelEvent, ContextOf, Contexts, Core, Types
<1>2. /\ TriggerAll(x, {e}) /\ Ctl(x, ModOrDel(events[x] \ {e}), events[x], FALSE) /\ cpc' = cpc
      /\ <<f, e>> \in Cancels /\ ~ (events[x] = {} /\ e = "READ")
  BY DEF CancelEvent
<1> HIDE DEF x
<1>3. e = "READ" /\ \A c \in Coros : FdOf[c] = f => EventOf[c] = "READ"
  BY <1>1, <1>2 DEF Separate
<1>4. events[x] = {e}
  <2>1. \A m \in events[x] : m = "READ"
    BY <1>1, <1>3, WaiterFacts
  <2> QED  BY <1>2, <1>3, <2>1
<1> DEFINE evs == {e}
           mask == events[x]
<1>5. Removal(x, evs) /\ woken' = [c \in Coros |->
         IF \E m \in evs : waiter[x][m] = c THEN woken[c] + 1 ELSE woken[c]]
  <2>1. evs \subseteq events[x] /\ evs # {} /\ TriggerAll(x, evs)
        /\ Ctl(x, ModOrDel(events[x] \ evs), mask, FALSE) /\ (events[x] \ evs # {} => mask = events[x] \ evs)
    BY <1>2, <1>4
  <2> HIDE DEF evs, mask
  <2> QED  BY <1>1, <2>1, TriggerEffect
<1> QED  BY <1>1, <1>2, <1>5 DEF Wakes, x

(* delEvent takes one event out and drops its coroutine.                   *)
LEMMA DelEventEffect ==
  ASSUME Inv, NEW f \in Fds, NEW e \in Events, DelEvent(f, e)
  PROVE  /\ ContextOf(f) \in Contexts /\ Removal(ContextOf(f), {e})
         /\ woken' = woken /\ cpc' = [cpc EXCEPT ![waiter[ContextOf(f)][e]] = "dropped"]
<1> DEFINE x == ContextOf(f)
<1>1. x \in Contexts /\ Core
  BY DEF ContextOf, Contexts, Inv, Core, Types
<1>2. /\ e \in events[x] /\ Ctl(x, ModOrDel(events[x] \ {e}), events[x] \ {e}, FALSE)
      /\ events' = [events EXCEPT ![x] = @ \ {e}] /\ waiter' = [waiter EXCEPT ![x][e] = Nobody]
      /\ pending' = pending - 1 /\ cpc' = [cpc EXCEPT ![waiter[x][e]] = "dropped"]
      /\ woken' = woken /\ fate' = fate
  BY DEF DelEvent
<1> HIDE DEF x
<1>3. waiter' = [waiter EXCEPT ![x] = [m \in Events |-> IF m \in {e} THEN Nobody ELSE @[m]]]
  BY <1>1, <1>2 DEF Core, Types
<1>4. Cardinality({e}) = 1
  BY FS_Singleton
<1>5. /\ interest'[x[1]].mask = events[x] \ {e}
      /\ interest'[x[1]].ptr = IF events[x] \ {e} = {} THEN <<x[1], 0>> ELSE x
      /\ \A g \in Fds : g # x[1] => interest'[g] = interest[g]
      /\ interest' \in [Fds -> [mask : SUBSET Events, et : BOOLEAN, ptr : Contexts]]
      /\ listed' \in [Fds -> BOOLEAN]
  BY <1>1, <1>2, CtlEffect
<1>6. fate' = "ok"
  BY <1>1, <1>2 DEF Core
<1>7. Removal(x, {e})
  BY <1>2, <1>3, <1>4, <1>5, <1>6 DEF Removal
<1> QED  BY <1>1, <1>2, <1>7 DEF x

(* addEvent: the event is free, and the descriptor has no registration in  *)
(* another context, so epoll_ctl succeeds.                                 *)
LEMMA AddEventEffect ==
  ASSUME Inv, NEW c \in Coros, AddEvent(c)
  PROVE  LET x == target[c]
             e == EventOf[c]
         IN  /\ x \in Contexts /\ x[1] = FdOf[c] /\ e \in Events /\ e \notin events[x]
             /\ \A y \in Contexts : y[1] = x[1] /\ events[y] # {} => y = x
             /\ cpc[c] = "add" /\ woken[c] = 0
             /\ events' = [events EXCEPT ![x] = @ \cup {e}]
             /\ waiter' = [waiter EXCEPT ![x][e] = c]
             /\ interest' = [interest EXCEPT ![x[1]] =
                               [mask |-> events[x] \cup {e}, et |-> TRUE, ptr |-> x]]
             /\ listed' \in [Fds -> BOOLEAN]
             /\ pending' = pending + 1
             /\ cpc' = [cpc EXCEPT ![c] = "wait"] /\ fate' = "ok"
<1> DEFINE x == target[c]
           e == EventOf[c]
<1>1. x \in Contexts /\ x[1] = FdOf[c] /\ e \in Events /\ Core /\ cpc[c] = "add" /\ woken[c] = 0
  BY CorosAssumption DEF Inv, Core, Types, PointInv, WaitInv, AddEvent
<1>2. /\ events' = [events EXCEPT ![x] = events[x] \cup {e}] /\ waiter' = [waiter EXCEPT ![x][e] = c]
      /\ Ctl(x, IF events[x] # {} THEN "MOD" ELSE "ADD", events[x] \cup {e}, TRUE)
      /\ pending' = IF CanCtl(x[1], IF events[x] # {} THEN "MOD" ELSE "ADD") THEN pending + 1 ELSE pending
      /\ cpc' = [cpc EXCEPT ![c] = IF CanCtl(x[1], IF events[x] # {} THEN "MOD" ELSE "ADD")
                                     THEN "wait" ELSE "failed"]
      /\ fate' = fate
  BY DEF AddEvent
<1>3. \A y \in Contexts : y[1] = x[1] /\ events[y] # {} => y = x
  <2>1. CASE Separate
    <3>1. ASSUME NEW y \in Contexts, y[1] = x[1], NEW m \in events[y] PROVE FALSE
      BY <1>1, <2>1, <3>1, WaiterFacts DEF Separate
    <3> QED  BY <3>1 DEF Inv, Core, Types
  <2>2. CASE SingleInv
    <3>1. x = <<x[1], 0>>
      BY <1>1, <2>2 DEF SingleInv
    <3>2. \A y \in Contexts : events[y] # {} => y = <<y[1], 0>>
      BY <1>1, <2>2, ContextFacts DEF SingleInv, Core, CopiesAgree
    <3> QED  BY <3>1, <3>2
  <2> QED  BY <2>1, <2>2 DEF Inv, SettingInv
<1>4. e \notin events[x]
  BY <1>1, WaiterFacts, CorosAssumption
<1> HIDE DEF x, e
<1>5. x[1] \in Fds /\ (interest[x[1]].mask = {} <=> events[x] = {})
  <2>1. x[1] \in Fds /\ interest[x[1]].ptr \in Contexts /\ interest[x[1]].ptr[1] = x[1]
    BY <1>1, ContextFacts DEF Core, Types, PointInv
  <2> QED  BY <1>1, <1>3, <2>1 DEF Core, CopiesAgree
<1>6. CanCtl(x[1], IF events[x] # {} THEN "MOD" ELSE "ADD")
  BY <1>5 DEF CanCtl
<1>7. /\ interest' = [interest EXCEPT ![x[1]] = [mask |-> events[x] \cup {e}, et |-> TRUE, ptr |-> x]]
      /\ listed' \in [Fds -> BOOLEAN]
  BY <1>1, <1>2, <1>6 DEF Ctl, Core, Types
<1>8. pending' = pending + 1 /\ cpc' = [cpc EXCEPT ![c] = "wait"] /\ fate' = "ok"
  BY <1>1, <1>2, <1>6 DEF Core
<1> QED  BY <1>1, <1>2, <1>3, <1>4, <1>7, <1>8 DEF x, e

-----------------------------------------------------------------------------
(* A removal keeps the copies and the counter.                             *)

LEMMA RemovalCopies ==
  ASSUME Core, NEW x \in Contexts, NEW evs, Removal(x, evs)
  PROVE  CopiesAgree'
<1>1. /\ events' = [events EXCEPT ![x] = @ \ evs] /\ evs \subseteq events[x] /\ evs # {}
      /\ waiter' = [waiter EXCEPT ![x] = [e \in Events |-> IF e \in evs THEN Nobody ELSE @[e]]]
      /\ events \in [Contexts -> SUBSET Events] /\ waiter \in [Contexts -> [Events -> Coros \cup {Nobody}]]
  BY DEF Removal, Core, Types
<1>2. /\ interest'[x[1]].mask = events[x] \ evs
      /\ interest'[x[1]].ptr = IF events[x] \ evs = {} THEN <<x[1], 0>> ELSE x
      /\ \A f \in Fds : f # x[1] => interest'[f] = interest[f]
  BY DEF Removal
<1>3. ASSUME NEW y \in Contexts, y # x, y[1] = x[1] PROVE events'[y] = {}
  BY <1>1, <1>3, OneContext
<1>4. ASSUME NEW y \in Contexts PROVE events'[y] = {e \in Events : waiter'[y][e] # Nobody}
  BY <1>1 DEF Core, CopiesAgree
<1>5. ASSUME NEW y \in Contexts, events'[y] # {} PROVE interest'[y[1]].ptr = y
  <2>1. CASE y = x
    BY <1>1, <1>2, <1>5, <2>1
  <2>2. CASE y # x
    <3>1. y[1] # x[1] /\ events[y] # {} /\ y[1] \in Fds
      BY <1>1, <1>3, <1>5, <2>2, ContextFacts
    <3> QED  BY <1>2, <3>1 DEF Core, CopiesAgree
  <2> QED  BY <2>1, <2>2
<1>6. ASSUME NEW f \in Fds PROVE interest'[f].mask = events'[interest'[f].ptr]
  <2>1. CASE f = x[1]
    <3>1. <<f, 0>> \in Contexts
      BY ContextFacts
    <3>2. CASE events[x] \ evs = {}
      BY <1>1, <1>2, <1>3, <2>1, <3>1, <3>2
    <3>3. CASE events[x] \ evs # {}
      BY <1>1, <1>2, <2>1, <3>3
    <3> QED  BY <3>2, <3>3
  <2>2. CASE f # x[1]
    BY <1>1, <1>2, <2>2 DEF Core, CopiesAgree, PointInv, Types
  <2> QED  BY <2>1, <2>2
<1> QED  BY <1>4, <1>5, <1>6 DEF CopiesAgree

LEMMA RemovalPending ==
  ASSUME Core, NEW x \in Contexts, NEW evs, Removal(x, evs)
  PROVE  PendingExact'
<1> DEFINE gone == {x} \X evs
<1>1. /\ events' = [events EXCEPT ![x] = @ \ evs] /\ evs \subseteq events[x]
      /\ pending' = pending - Cardinality(evs) /\ events \in [Contexts -> SUBSET Events]
  BY DEF Removal, Core, Types
<1>2. Registrations' = Registrations \ gone
  BY <1>1 DEF Registrations
<1>3. gone \subseteq Registrations
  BY <1>1 DEF Registrations
<1>4. IsFiniteSet(evs)
  <2>1. {"READ"} \cup {"WRITE"} = Events
    BY DEF Events
  <2>2. IsFiniteSet(Events)
    BY <2>1, FS_Singleton, FS_AddElement
  <2> QED  BY <1>1, <2>2, FS_Subset
<1>5. Cardinality(gone) = Cardinality(evs) /\ Cardinality(evs) \in Nat
  <2>1. Cardinality(gone) = Cardinality({x}) * Cardinality(evs)
    BY <1>4, FS_Singleton, FS_Product
  <2>2. Cardinality({x}) = 1 /\ Cardinality(evs) \in Nat
    BY <1>4, FS_Singleton, FS_CardinalityType
  <2> QED  BY <2>1, <2>2
<1>6. Registrations \cap gone = gone
  BY <1>3
<1>7. Cardinality(Registrations') = Cardinality(Registrations) - Cardinality(gone)
  <2> HIDE DEF gone
  <2>1. Cardinality(Registrations \ gone) = Cardinality(Registrations) - Cardinality(Registrations \cap gone)
    BY FiniteRegistrations, FS_Difference
  <2> QED  BY <1>2, <1>6, <2>1
<1>8. pending = Cardinality(Registrations)
  BY DEF Core, PendingExact, Registrations
<1>9. pending' = Cardinality(Registrations')
  BY <1>1, <1>5, <1>7, <1>8
<1> QED  BY <1>9 DEF PendingExact, Registrations

(* The registrations that are left are the same, and belong to others than *)
(* those whose events are removed.                                         *)
LEMMA RemovalLeaves ==
  ASSUME Core, NEW x \in Contexts, NEW evs, Removal(x, evs)
  PROVE  /\ \A y \in Contexts, e \in Events : waiter'[y][e] # Nobody =>
              /\ waiter'[y][e] = waiter[y][e]
              /\ \A m \in evs : waiter[x][m] # waiter[y][e]
         /\ \A y \in Contexts, e \in Events :
              waiter[y][e] # Nobody /\ waiter'[y][e] = Nobody => y = x /\ e \in evs
<1>1. /\ waiter' = [waiter EXCEPT ![x] = [e \in Events |-> IF e \in evs THEN Nobody ELSE @[e]]]
      /\ waiter \in [Contexts -> [Events -> Coros \cup {Nobody}]] /\ evs \subseteq events[x]
  BY DEF Removal, Core, Types
<1>2. ASSUME NEW y \in Contexts, NEW e \in Events, waiter'[y][e] # Nobody,
             NEW m \in evs, waiter[x][m] = waiter[y][e]
      PROVE  FALSE
  <2>1. waiter'[y][e] = waiter[y][e] /\ e \in events[y] /\ ~ (y = x /\ e \in evs)
    BY <1>1, <1>2 DEF Core, CopiesAgree
  <2>2. x[1] = y[1] /\ m = e /\ m \in events[x]
    BY <1>1, <1>2, <2>1, WaiterFacts
  <2>3. x = y
    BY <2>1, <2>2, OneContext
  <2> QED  BY <1>2, <2>1, <2>2, <2>3
<1>3. ASSUME NEW y \in Contexts, NEW e \in Events
      PROVE  waiter'[y][e] = IF y = x /\ e \in evs THEN Nobody ELSE waiter[y][e]
  BY <1>1
<1> QED  BY <1>2, <1>3

LEMMA RemovalWakes ==
  ASSUME Core, NEW x \in Contexts, NEW evs, Removal(x, evs), Wakes(x, evs)
  PROVE  WaitInv' /\ woken' \in [Coros -> 0 .. 1]
<1>1. /\ cpc' = cpc /\ evs \subseteq events[x] /\ woken \in [Coros -> 0 .. 1]
      /\ woken' = [c \in Coros |->
                     IF \E e \in evs : waiter[x][e] = c THEN woken[c] + 1 ELSE woken[c]]
  BY DEF Wakes, Removal, Core, Types
<1>2. \A m \in evs : /\ m \in Events /\ waiter[x][m] \in Coros /\ woken[waiter[x][m]] = 0
                     /\ cpc[waiter[x][m]] = "wait" /\ EventOf[waiter[x][m]] = m
  BY <1>1, WaiterFacts
<1>3. ASSUME NEW y \in Contexts, NEW e \in Events, waiter'[y][e] # Nobody
      PROVE  /\ FdOf[waiter'[y][e]] = y[1] /\ EventOf[waiter'[y][e]] = e
             /\ cpc'[waiter'[y][e]] = "wait" /\ woken'[waiter'[y][e]] = 0
  <2>1. waiter'[y][e] = waiter[y][e] /\ \A m \in evs : waiter[x][m] # waiter[y][e]
    BY <1>3, RemovalLeaves
  <2>2. /\ waiter[y][e] \in Coros /\ FdOf[waiter[y][e]] = y[1] /\ EventOf[waiter[y][e]] = e
        /\ cpc[waiter[y][e]] = "wait" /\ woken[waiter[y][e]] = 0
    BY <1>3, <2>1 DEF Core, Types, WaitInv
  <2> QED  BY <1>1, <2>1, <2>2
<1>4. ASSUME NEW c \in Coros, cpc'[c] = "wait", woken'[c] = 0
      PROVE  \E y \in Contexts : waiter'[y][EventOf[c]] = c
  <2>1. woken[c] = 0 /\ ~ \E e \in evs : waiter[x][e] = c
    BY <1>1, <1>4
  <2>2. PICK y \in Contexts : waiter[y][EventOf[c]] = c
    BY <1>1, <1>4, <2>1 DEF Core, WaitInv
  <2>3. EventOf[c] \in Events /\ c # Nobody
    BY CorosAssumption, NobodyAssumption
  <2>4. waiter'[y][EventOf[c]] # Nobody
    BY <2>1, <2>2, <2>3, RemovalLeaves
  <2> QED  BY <2>2, <2>3, <2>4, RemovalLeaves
<1>5. ASSUME NEW c \in Coros, cpc'[c] # "wait" PROVE woken'[c] = 0
  BY <1>1, <1>2, <1>5 DEF Core, WaitInv
<1>6. woken' \in [Coros -> 0 .. 1]
  BY <1>1, <1>2
<1> QED  BY <1>3, <1>4, <1>5, <1>6 DEF WaitInv

(* The same for delEvent, which leaves the coroutine to itself.            *)
LEMMA RemovalDrops ==
  ASSUME Core, NEW x \in Contexts, NEW e \in Events, Removal(x, {e}),
         woken' = woken, cpc' = [cpc EXCEPT ![waiter[x][e]] = "dropped"]
  PROVE  WaitInv'
<1> DEFINE d == waiter[x][e]
<1>1. d \in Coros /\ cpc[d] = "wait" /\ woken[d] = 0 /\ EventOf[d] = e
  BY WaiterFacts DEF Removal
<1>2. \A c \in Coros : cpc'[c] = IF c = d THEN "dropped" ELSE cpc[c]
  BY DEF Core, Types
<1>3. /\ \A y \in Contexts, m \in Events : waiter'[y][m] # Nobody =>
           waiter'[y][m] = waiter[y][m] /\ waiter[y][m] # d
      /\ \A y \in Contexts, m \in Events :
           waiter[y][m] # Nobody /\ waiter'[y][m] = Nobody => waiter[y][m] = d
  <2>1. e \in {e}
    OBVIOUS
  <2> QED  BY <2>1, RemovalLeaves
<1> HIDE DEF d
<1>4. ASSUME NEW y \in Contexts, NEW m \in Events, waiter'[y][m] # Nobody
      PROVE  /\ FdOf[waiter'[y][m]] = y[1] /\ EventOf[waiter'[y][m]] = m
             /\ cpc'[waiter'[y][m]] = "wait" /\ woken'[waiter'[y][m]] = 0
  <2>1. waiter'[y][m] = waiter[y][m] /\ waiter[y][m] # d
    BY <1>3, <1>4
  <2>2. /\ waiter[y][m] \in Coros /\ FdOf[waiter[y][m]] = y[1] /\ EventOf[waiter[y][m]] = m
        /\ cpc[waiter[y][m]] = "wait" /\ woken[waiter[y][m]] = 0
    BY <1>4, <2>1 DEF Core, Types, WaitInv
  <2> QED  BY <1>2, <2>1, <2>2
<1>5. ASSUME NEW c \in Coros, cpc'[c] = "wait", woken'[c] = 0
      PROVE  \E y \in Contexts : waiter'[y][EventOf[c]] = c
  <2>1. c # d /\ cpc[c] = "wait" /\ woken[c] = 0
    BY <1>2, <1>5
  <2>2. PICK y \in Contexts : waiter[y][EventOf[c]] = c
    BY <2>1 DEF Core, WaitInv
  <2>3. EventOf[c] \in Events /\ c # Nobody
    BY CorosAssumption, NobodyAssumption
  <2> QED  BY <1>3, <2>1, <2>2, <2>3
<1>6. ASSUME NEW c \in Coros, cpc'[c] # "wait" PROVE woken'[c] = 0
  BY <1>1, <1>2, <1>6 DEF Core, WaitInv
<1> QED  BY <1>4, <1>5, <1>6 DEF WaitInv

-----------------------------------------------------------------------------
(* A registration by addEvent keeps them too.                              *)

LEMMA AddKeepsCopies ==
  ASSUME Inv, NEW c \in Coros, AddEvent(c)
  PROVE  CopiesAgree'
<1> DEFINE x == target[c]
           e == EventOf[c]
<1>1. /\ x \in Contexts /\ x[1] \in Fds /\ e \in Events /\ e \notin events[x]
      /\ \A y \in Contexts : y[1] = x[1] /\ events[y] # {} => y = x
      /\ events' = [events EXCEPT ![x] = @ \cup {e}] /\ waiter' = [waiter EXCEPT ![x][e] = c]
      /\ interest' = [interest EXCEPT ![x[1]] =
                        [mask |-> events[x] \cup {e}, et |-> TRUE, ptr |-> x]]
  BY AddEventEffect, ContextFacts
<1>2. /\ events \in [Contexts -> SUBSET Events] /\ waiter \in [Contexts -> [Events -> Coros \cup {Nobody}]]
      /\ interest \in [Fds -> [mask : SUBSET Events, et : BOOLEAN, ptr : Contexts]]
      /\ CopiesAgree /\ PointInv /\ c # Nobody
  BY NobodyAssumption DEF Inv, Core, Types
<1> HIDE DEF x, e
<1>3. ASSUME NEW y \in Contexts PROVE events'[y] = {m \in Events : waiter'[y][m] # Nobody}
  BY <1>1, <1>2 DEF CopiesAgree
<1>4. ASSUME NEW y \in Contexts, events'[y] # {} PROVE interest'[y[1]].ptr = y
  <2>1. CASE y = x
    BY <1>1, <1>2, <2>1
  <2>2. CASE y # x
    <3>1. events[y] # {} /\ y[1] # x[1] /\ y[1] \in Fds
      BY <1>1, <1>2, <1>4, <2>2, ContextFacts
    <3> QED  BY <1>1, <1>2, <3>1 DEF CopiesAgree
  <2> QED  BY <2>1, <2>2
<1>5. ASSUME NEW f \in Fds PROVE interest'[f].mask = events'[interest'[f].ptr]
  <2>1. CASE f = x[1]
    BY <1>1, <1>2, <2>1
  <2>2. CASE f # x[1]
    <3>1. interest'[f] = interest[f] /\ interest[f].ptr \in Contexts /\ interest[f].ptr # x
      BY <1>1, <1>2, <2>2 DEF PointInv
    <3> QED  BY <1>1, <1>2, <3>1 DEF CopiesAgree
  <2> QED  BY <2>1, <2>2
<1> QED  BY <1>3, <1>4, <1>5 DEF CopiesAgree

LEMMA AddKeepsPending ==
  ASSUME Inv, NEW c \in Coros, AddEvent(c)
  PROVE  PendingExact'
<1> DEFINE x == target[c]
           e == EventOf[c]
<1>1. /\ x \in Contexts /\ e \in Events /\ e \notin events[x] /\ pending' = pending + 1
      /\ events' = [events EXCEPT ![x] = @ \cup {e}] /\ events \in [Contexts -> SUBSET Events]
  BY AddEventEffect DEF Inv, Core, Types
<1> HIDE DEF x, e
<1>2. Registrations' = Registrations \cup {<<x, e>>}
  BY <1>1 DEF Registrations
<1>3. <<x, e>> \notin Registrations
  BY <1>1 DEF Registrations
<1>4. Cardinality(Registrations \cup {<<x, e>>}) = Cardinality(Registrations) + 1
  BY <1>3, FiniteRegistrations, FS_AddElement
<1>5. pending = Cardinality(Registrations)
  BY DEF Inv, Core, PendingExact, Registrations
<1>6. pending' = Cardinality(Registrations')
  BY <1>1, <1>2, <1>4, <1>5
<1> QED  BY <1>6 DEF PendingExact, Registrations

LEMMA AddKeepsWaits ==
  ASSUME Inv, NEW c \in Coros, AddEvent(c)
  PROVE  WaitInv'
<1> DEFINE x == target[c]
           e == EventOf[c]
<1>1. /\ x \in Contexts /\ x[1] = FdOf[c] /\ e \in Events /\ e \notin events[x]
      /\ waiter' = [waiter EXCEPT ![x][e] = c] /\ cpc' = [cpc EXCEPT ![c] = "wait"]
      /\ woken' = woken /\ cpc[c] = "add" /\ woken[c] = 0
  BY AddEventEffect DEF AddEvent
<1>2. /\ WaitInv /\ CopiesAgree /\ waiter \in [Contexts -> [Events -> Coros \cup {Nobody}]]
      /\ cpc \in [Coros -> {"try", "grow", "add", "wait", "failed", "dropped"}]
  BY DEF Inv, Core, Types
<1>3. e = EventOf[c]
  OBVIOUS
<1> HIDE DEF x, e
<1>4. waiter[x][e] = Nobody
  BY <1>1, <1>2 DEF CopiesAgree
<1>5. \A y \in Contexts, m \in Events : waiter'[y][m] = IF y = x /\ m = e THEN c ELSE waiter[y][m]
  BY <1>1, <1>2
<1>6. ASSUME NEW y \in Contexts, NEW m \in Events, waiter'[y][m] # Nobody
      PROVE  /\ FdOf[waiter'[y][m]] = y[1] /\ EventOf[waiter'[y][m]] = m
             /\ cpc'[waiter'[y][m]] = "wait" /\ woken'[waiter'[y][m]] = 0
  <2>1. CASE y = x /\ m = e
    BY <1>1, <1>2, <1>3, <1>5, <2>1
  <2>2. CASE ~ (y = x /\ m = e)
    <3>1. waiter'[y][m] = waiter[y][m] /\ waiter[y][m] # Nobody
      BY <1>5, <1>6, <2>2
    <3>2. /\ waiter[y][m] \in Coros /\ FdOf[waiter[y][m]] = y[1] /\ EventOf[waiter[y][m]] = m
          /\ cpc[waiter[y][m]] = "wait" /\ woken[waiter[y][m]] = 0
      BY <1>2, <3>1 DEF WaitInv
    <3> QED  BY <1>1, <1>2, <3>1, <3>2
  <2> QED  BY <2>1, <2>2
<1>7. ASSUME NEW d \in Coros, cpc'[d] = "wait", woken'[d] = 0
      PROVE  \E y \in Contexts : waiter'[y][EventOf[d]] = d
  <2>1. CASE d = c
    BY <1>1, <1>3, <1>5, <2>1
  <2>2. CASE d # c
    <3>1. PICK y \in Contexts : waiter[y][EventOf[d]] = d
      BY <1>1, <1>2, <1>7, <2>2 DEF WaitInv
    <3> QED  BY <1>4, <1>5, <3>1, CorosAssumption, NobodyAssumption
  <2> QED  BY <2>1, <2>2
<1>8. ASSUME NEW d \in Coros, cpc'[d] # "wait" PROVE woken'[d] = 0
  BY <1>1, <1>2, <1>8 DEF WaitInv
<1> QED  BY <1>6, <1>7, <1>8 DEF WaitInv

-----------------------------------------------------------------------------
(* Steps that leave the registry alone.                                    *)

LEMMA QuietTable ==
  ASSUME Core, UNCHANGED <<tableVars, interest>>
  PROVE  CopiesAgree' /\ PendingExact'
<1>1. CopiesAgree'
  BY DEF Core, CopiesAgree
<1>2. PendingExact'
  BY DEF Core, PendingExact
<1> QED  BY <1>1, <1>2

(* A coroutine that does not wait moves on and does not wait.              *)
LEMMA QuietWaits ==
  ASSUME Core, NEW c \in Coros, cpc[c] # "wait", NEW v, v # "wait",
         cpc' = [cpc EXCEPT ![c] = v], UNCHANGED <<waiter, woken>>
  PROVE  WaitInv'
<1>1. \A d \in Coros : cpc'[d] = IF d = c THEN v ELSE cpc[d]
  BY DEF Core, Types
<1>2. ASSUME NEW y \in Contexts, NEW m \in Events, waiter[y][m] # Nobody
      PROVE  waiter[y][m] \in Coros /\ cpc'[waiter[y][m]] = "wait"
  BY <1>1, <1>2 DEF Core, Types, WaitInv
<1> QED  BY <1>1, <1>2 DEF Core, WaitInv

(* Reports that are only taken away, with the contexts and directions of   *)
(* the registry and the coroutines as they were.                           *)
LEMMA QuietSetting ==
  ASSUME Inv, UNCHANGED <<size, latest, events, target>>,
         \A f \in Fds : interest'[f].ptr = interest[f].ptr,
         \A c \in Coros : cpc'[c] = "grow" => cpc[c] = "grow",
         \A w \in Workers : reports'[w] \subseteq reports[w]
  PROVE  SettingInv'
<1>1. CASE Separate /\ SeparateInv
  BY <1>1 DEF SettingInv, Separate, SeparateInv
<1>2. CASE Single /\ SingleInv
  BY <1>2 DEF SettingInv, Single, SingleInv
<1> QED  BY <1>1, <1>2 DEF Inv, SettingInv

-----------------------------------------------------------------------------
(* Each action keeps the invariant: the coroutines in io_func.             *)

LEMMA TryOkStep ==
  ASSUME Inv, NEW c \in Coros, TryOk(c)
  PROVE  Inv'
<1>1. cpc[c] = "try" /\ \E v \in {"failed", "try"} : cpc' = [cpc EXCEPT ![c] = v]
  BY DEF TryOk
<1>2. Types' /\ fate' = "ok"
  BY <1>1 DEF Inv, Core, Types, TryOk
<1>3. WaitInv'
  BY <1>1, QuietWaits DEF Inv, TryOk
<1>4. PointInv'
  BY DEF Inv, Core, PointInv, TryOk
<1>5. CopiesAgree' /\ PendingExact'
  BY QuietTable DEF Inv, TryOk
<1>6. SettingInv'
  <2>1. \A d \in Coros : cpc'[d] = "grow" => cpc[d] = "grow"
    BY <1>1 DEF Inv, Core, Types
  <2> QED  BY <2>1, QuietSetting DEF TryOk
<1> QED  BY <1>2, <1>3, <1>4, <1>5, <1>6 DEF Inv, Core

LEMMA TryAgainStep ==
  ASSUME Inv, NEW c \in Coros, TryAgain(c)
  PROVE  Inv'
<1> DEFINE f == FdOf[c]
<1>1. /\ cpc[c] = "try" /\ f \in Fds
      /\ cpc' = [cpc EXCEPT ![c] = IF InTable(f) THEN "add" ELSE "grow"]
      /\ target' = [target EXCEPT ![c] = IF InTable(f) THEN ContextOf(f) ELSE @]
  BY CorosAssumption DEF TryAgain
<1>2. ContextOf(f) \in Contexts /\ ContextOf(f)[1] = f
  BY <1>1 DEF ContextOf, Contexts, Inv, Core, Types
<1>3. Types' /\ fate' = "ok"
  BY <1>1, <1>2 DEF Inv, Core, Types, TryAgain
<1>4. WaitInv'
  <2>1. \E v \in {"add", "grow"} : cpc' = [cpc EXCEPT ![c] = v]
    BY <1>1
  <2> QED  BY <1>1, <2>1, QuietWaits DEF Inv, TryAgain
<1>5. PointInv'
  BY <1>1, <1>2 DEF Inv, Core, PointInv, Types, TryAgain
<1>6. CopiesAgree' /\ PendingExact'
  BY QuietTable DEF Inv, TryAgain
<1>7. SettingInv'
  <2>1. CASE Separate /\ SeparateInv
    BY <2>1 DEF SettingInv, Separate, SeparateInv, TryAgain
  <2>2. CASE Single /\ SingleInv
    <3>1. InTable(f) /\ ContextOf(f) = <<f, 0>>
      BY <1>1, <2>2 DEF Single, SingleInv, InTable, ContextOf
    <3>2. \A d \in Coros : cpc'[d] # "grow" /\ target'[d] = <<FdOf[d], 0>>
      BY <1>1, <2>2, <3>1 DEF SingleInv, Inv, Core, Types
    <3> QED  BY <2>2, <3>2 DEF SettingInv, Single, SingleInv, TryAgain
  <2> QED  BY <2>1, <2>2 DEF Inv, SettingInv
<1> QED  BY <1>3, <1>4, <1>5, <1>6, <1>7 DEF Inv, Core

(* contextResize, in the bound.                                            *)
LEMMA ResizeEffect ==
  ASSUME Core, NEW f \in Fds, Resize((3 * f) \div 2)
  PROVE  size' \in Nat /\ latest' \in [Fds -> 0 .. MaxContexts]
<1>1. (3 * f) \div 2 \in Nat
  BY TableAssumption
<1>2. \A g \in Fds : latest'[g] \in Nat
  BY DEF Core, Types, Resize
<1>3. latest' = [g \in Fds |-> latest'[g]]
  BY DEF Resize
<1>4. \A g \in Fds : latest'[g] \in 0 .. MaxContexts
  BY <1>2, TableAssumption DEF Resize
<1> QED  BY <1>1, <1>3, <1>4 DEF Resize

LEMMA GrowStep ==
  ASSUME Inv, NEW c \in Coros, Grow(c)
  PROVE  Inv'
<1> DEFINE f == FdOf[c]
<1>1. /\ cpc[c] = "grow" /\ f \in Fds /\ Resize((3 * f) \div 2) /\ cpc' = [cpc EXCEPT ![c] = "add"]
      /\ target' = [target EXCEPT ![c] = <<f, latest'[f]>>]
  BY CorosAssumption DEF Grow
<1>2. size' \in Nat /\ latest' \in [Fds -> 0 .. MaxContexts] /\ <<f, latest'[f]>> \in Contexts
  BY <1>1, ResizeEffect DEF Inv, Contexts
<1>3. Types' /\ fate' = "ok"
  BY <1>1, <1>2 DEF Inv, Core, Types, Grow
<1>4. WaitInv'
  BY <1>1, QuietWaits DEF Inv, Grow
<1>5. PointInv'
  BY <1>1 DEF Inv, Core, PointInv, Types, Grow
<1>6. CopiesAgree' /\ PendingExact'
  BY QuietTable DEF Inv, Grow
<1>7. SettingInv'
  BY <1>1 DEF Inv, SettingInv, Separate, SeparateInv, SingleInv, Grow
<1> QED  BY <1>3, <1>4, <1>5, <1>6, <1>7 DEF Inv, Core

LEMMA AddEventStep ==
  ASSUME Inv, NEW c \in Coros, AddEvent(c)
  PROVE  Inv'
<1> DEFINE x == target[c]
           e == EventOf[c]
<1>1. /\ x \in Contexts /\ x[1] = FdOf[c] /\ x[1] \in Fds /\ e \in Events
      /\ cpc[c] = "add"
      /\ events' = [events EXCEPT ![x] = @ \cup {e}]
      /\ waiter' = [waiter EXCEPT ![x][e] = c]
      /\ interest' = [interest EXCEPT ![x[1]] =
                        [mask |-> events[x] \cup {e}, et |-> TRUE, ptr |-> x]]
      /\ listed' \in [Fds -> BOOLEAN]
      /\ pending' = pending + 1
      /\ cpc' = [cpc EXCEPT ![c] = "wait"] /\ fate' = "ok"
  BY AddEventEffect, ContextFacts
<1>2. UNCHANGED <<sizeVars, kernelVars, target, woken, reports, calls>>
  BY DEF AddEvent
<1>3. Types /\ PointInv
  BY DEF Inv, Core
<1> HIDE DEF x, e
<1>4. Types'
  <2>1. events' \in [Contexts -> SUBSET Events]
    BY <1>1, <1>3 DEF Types
  <2>2. waiter' \in [Contexts -> [Events -> Coros \cup {Nobody}]]
    BY <1>1, <1>3 DEF Types
  <2>3. interest' \in [Fds -> [mask : SUBSET Events, et : BOOLEAN, ptr : Contexts]]
    BY <1>1, <1>3 DEF Types
  <2> QED  BY <1>1, <1>2, <1>3, <2>1, <2>2, <2>3 DEF Types
<1>5. PointInv'
  BY <1>1, <1>2, <1>3 DEF PointInv, Types
<1>6. SettingInv'
  <2>1. CASE Separate /\ SeparateInv
    BY <1>2, <2>1 DEF SettingInv, Separate, SeparateInv
  <2>2. CASE Single /\ SingleInv
    <3>1. x = <<x[1], 0>>
      BY <1>1, <2>2 DEF SingleInv, x
    <3>2. \A f \in Fds : interest'[f].ptr = <<f, 0>>
      BY <1>1, <1>3, <2>2, <3>1 DEF SingleInv, Types
    <3>3. \A w \in Workers : \A r \in reports[w] : r.ctx \in Contexts /\ events[r.ctx] \subseteq events'[r.ctx]
      BY <1>1, <1>3 DEF Types, Report
    <3>4. \A d \in Coros : cpc'[d] # "grow"
      BY <1>1, <1>3, <2>2 DEF SingleInv, Types
    <3> QED  BY <1>2, <2>2, <3>2, <3>3, <3>4 DEF SettingInv, Single, SingleInv
  <2> QED  BY <2>1, <2>2 DEF Inv, SettingInv
<1> QED  BY <1>1, <1>4, <1>5, <1>6, AddKeepsCopies, AddKeepsPending, AddKeepsWaits DEF Inv, Core

LEMMA ResumeStep ==
  ASSUME Inv, NEW c \in Coros, Resume(c)
  PROVE  Inv'
<1>1. /\ cpc[c] = "wait" /\ woken[c] = 1 /\ cpc' = [cpc EXCEPT ![c] = "try"]
      /\ woken' = [woken EXCEPT ![c] = 0]
  <2>1. cpc[c] = "wait" /\ woken[c] > 0 /\ woken[c] \in 0 .. 1
        /\ woken' = [woken EXCEPT ![c] = woken[c] - 1] /\ cpc' = [cpc EXCEPT ![c] = "try"]
    BY DEF Resume, Inv, Core, Types
  <2>2. woken[c] = 1 /\ woken[c] - 1 = 0
    BY <2>1
  <2> QED  BY <2>1, <2>2
<1>2. /\ \A d \in Coros : cpc'[d] = IF d = c THEN "try" ELSE cpc[d]
      /\ \A d \in Coros : woken'[d] = IF d = c THEN 0 ELSE woken[d]
  BY <1>1 DEF Inv, Core, Types
<1>3. Types' /\ fate' = "ok"
  BY <1>1 DEF Inv, Core, Types, Resume
<1>4. WaitInv'
  <2>1. waiter' = waiter
    BY DEF Resume
  <2>2. ASSUME NEW y \in Contexts, NEW m \in Events, waiter[y][m] # Nobody
        PROVE  waiter[y][m] \in Coros /\ waiter[y][m] # c
    BY <1>1, <2>2 DEF Inv, Core, Types, WaitInv
  <2> QED  BY <1>2, <2>1, <2>2 DEF Inv, Core, WaitInv
<1>5. PointInv'
  BY DEF Inv, Core, PointInv, Resume
<1>6. CopiesAgree' /\ PendingExact'
  BY QuietTable DEF Inv, Resume
<1>7. SettingInv'
  <2>1. \A d \in Coros : cpc'[d] = "grow" => cpc[d] = "grow"
    BY <1>2
  <2> QED  BY <2>1, QuietSetting DEF Resume
<1> QED  BY <1>3, <1>4, <1>5, <1>6, <1>7 DEF Inv, Core

-----------------------------------------------------------------------------
(* The calls that take events away.                                        *)

LEMMA CallBeyondStep ==
  ASSUME Inv, NEW f \in Fds, CallBeyond(f)
  PROVE  Inv'
<1>1. Separate /\ SeparateInv /\ Core /\ calls' \in 0 .. MaxCalls
  BY CallersSeparate, BoundAssumption DEF CallBeyond, Call, Core, Types
<1>2. size' \in Nat /\ latest' \in [Fds -> 0 .. MaxContexts]
  BY <1>1, ResizeEffect DEF CallBeyond
<1>3. UNCHANGED <<tableVars, epollVars, kernelVars, coroVars, reports, fate>>
  BY DEF CallBeyond
<1>4. Types' /\ fate' = "ok"
  BY <1>1, <1>2, <1>3 DEF Core, Types
<1>5. WaitInv' /\ PointInv'
  BY <1>1, <1>3 DEF Core, WaitInv, PointInv
<1>6. CopiesAgree' /\ PendingExact'
  BY <1>1, <1>3, QuietTable
<1>7. SettingInv'
  BY <1>1, <1>3 DEF SettingInv, Separate, SeparateInv
<1> QED  BY <1>4, <1>5, <1>6, <1>7 DEF Inv, Core

(* A removal and the types of the registry.                                *)
LEMMA RemovalTypes ==
  ASSUME Core, NEW x \in Contexts, NEW evs, Removal(x, evs)
  PROVE  /\ events' \in [Contexts -> SUBSET Events]
         /\ waiter' \in [Contexts -> [Events -> Coros \cup {Nobody}]]
         /\ pending' \in Int
         /\ \A f \in Fds : interest'[f].ptr[1] = f
<1>1. /\ events' = [events EXCEPT ![x] = @ \ evs] /\ evs \subseteq events[x]
      /\ waiter' = [waiter EXCEPT ![x] = [e \in Events |-> IF e \in evs THEN Nobody ELSE @[e]]]
      /\ events \in [Contexts -> SUBSET Events] /\ waiter \in [Contexts -> [Events -> Coros \cup {Nobody}]]
  BY DEF Removal, Core, Types
<1>2. events' \in [Contexts -> SUBSET Events] /\ waiter' \in [Contexts -> [Events -> Coros \cup {Nobody}]]
  BY <1>1
<1>3. pending' \in Int
  <2>1. PendingExact'
    BY RemovalPending
  <2>2. IsFiniteSet(Registrations')
    BY FiniteRegistrations, FS_Subset DEF Registrations
  <2> QED  BY <2>1, <2>2, FS_CardinalityType DEF PendingExact, Registrations
<1>4. \A f \in Fds : interest'[f].ptr[1] = f
  BY DEF Removal, Core, PointInv
<1> QED  BY <1>2, <1>3, <1>4

LEMMA DelEventStep ==
  ASSUME Inv, NEW f \in Fds, NEW e \in Events, DelEvent(f, e)
  PROVE  Inv'
<1> DEFINE x == ContextOf(f)
<1>1. /\ x \in Contexts /\ Removal(x, {e}) /\ woken' = woken
      /\ cpc' = [cpc EXCEPT ![waiter[x][e]] = "dropped"]
  BY DelEventEffect
<1>2. Separate /\ SeparateInv /\ Core /\ calls' \in 0 .. MaxCalls
  BY CallersSeparate, BoundAssumption DEF DelEvent, Call, Core, Types
<1>3. UNCHANGED <<sizeVars, kernelVars, target, reports>>
  BY DEF DelEvent
<1> HIDE DEF x
<1>4. CopiesAgree' /\ PendingExact' /\ WaitInv'
  BY <1>1, <1>2, RemovalCopies, RemovalPending, RemovalDrops
<1>5. /\ events' \in [Contexts -> SUBSET Events]
      /\ waiter' \in [Contexts -> [Events -> Coros \cup {Nobody}]]
      /\ pending' \in Int
      /\ \A g \in Fds : interest'[g].ptr[1] = g
  BY <1>1, <1>2, RemovalTypes
<1>6. Types' /\ fate' = "ok"
  BY <1>1, <1>2, <1>3, <1>5 DEF Core, Types, Removal
<1>7. PointInv'
  BY <1>2, <1>3, <1>5 DEF Core, PointInv
<1>8. SettingInv'
  BY <1>2, <1>3 DEF SettingInv, Separate, SeparateInv
<1> QED  BY <1>4, <1>6, <1>7, <1>8 DEF Inv, Core

(* A removal that wakes its coroutines keeps the core of the invariant.    *)
LEMMA WakingStep ==
  ASSUME Core, NEW x \in Contexts, NEW evs, Removal(x, evs), Wakes(x, evs),
         UNCHANGED <<sizeVars, kernelVars, target>>,
         reports' \in [Workers -> SUBSET Report], calls' \in 0 .. MaxCalls
  PROVE  Core'
<1>1. CopiesAgree' /\ PendingExact' /\ WaitInv' /\ woken' \in [Coros -> 0 .. 1]
  BY RemovalCopies, RemovalPending, RemovalWakes
<1>2. /\ events' \in [Contexts -> SUBSET Events]
      /\ waiter' \in [Contexts -> [Events -> Coros \cup {Nobody}]]
      /\ pending' \in Int
      /\ \A g \in Fds : interest'[g].ptr[1] = g
  BY RemovalTypes
<1>3. Types' /\ fate' = "ok"
  BY <1>1, <1>2 DEF Core, Types, Removal, Wakes
<1>4. PointInv'
  BY <1>2 DEF Core, PointInv
<1> QED  BY <1>1, <1>3, <1>4 DEF Core

LEMMA CancelEventStep ==
  ASSUME Inv, NEW f \in Fds, NEW e \in Events, CancelEvent(f, e)
  PROVE  Inv'
<1>1. Separate /\ SeparateInv /\ Core /\ calls' \in 0 .. MaxCalls
  BY CallersSeparate, BoundAssumption DEF CancelEvent, Call, Core, Types
<1>2. UNCHANGED <<sizeVars, kernelVars, cpc, target, reports>>
  BY DEF CancelEvent
<1>3. Core'
  <2> DEFINE x == ContextOf(f)
             evs == {e}
  <2>1. x \in Contexts /\ Removal(x, evs) /\ Wakes(x, evs)
    BY CancelEventEffect
  <2>2. reports' \in [Workers -> SUBSET Report]
    BY <1>1, <1>2 DEF Core, Types
  <2> HIDE DEF x, evs
  <2> QED  BY <1>1, <1>2, <2>1, <2>2, WakingStep
<1>4. SettingInv'
  BY <1>1, <1>2 DEF SettingInv, Separate, SeparateInv
<1> QED  BY <1>3, <1>4 DEF Inv

LEMMA CancelAllStep ==
  ASSUME Inv, NEW f \in Fds, CancelAll(f)
  PROVE  Inv'
<1>1. Separate /\ SeparateInv /\ Core /\ calls' \in 0 .. MaxCalls
  BY CallersSeparate, BoundAssumption DEF CancelAll, Call, Core, Types
<1>2. UNCHANGED <<sizeVars, kernelVars, cpc, target, reports>>
  BY DEF CancelAll
<1>3. Core'
  <2> DEFINE x == ContextOf(f)
             evs == events[x]
  <2>1. x \in Contexts /\ Removal(x, evs) /\ Wakes(x, evs)
    BY CancelAllEffect
  <2>2. reports' \in [Workers -> SUBSET Report]
    BY <1>1, <1>2 DEF Core, Types
  <2> HIDE DEF x, evs
  <2> QED  BY <1>1, <1>2, <2>1, <2>2, WakingStep
<1>4. SettingInv'
  BY <1>1, <1>2 DEF SettingInv, Separate, SeparateInv
<1> QED  BY <1>3, <1>4 DEF Inv

-----------------------------------------------------------------------------
(* The kernel and idle().                                                  *)

LEMMA KernelStep ==
  ASSUME Inv, NEW f \in Fds, Break(f) \/ \E e \in Events : Arrive(f, e)
  PROVE  Inv'
<1>1. UNCHANGED <<sizeVars, tableVars, interest, coroVars, reports, calls, fate>>
  BY DEF Break, Arrive
<1>2. /\ ready' \in [Fds -> SUBSET Events] /\ broken' \subseteq Fragile
      /\ listed' \in [Fds -> BOOLEAN] /\ arrivals' \in [Fds -> 0 .. MaxArrivals]
  <2>1. /\ ready \in [Fds -> SUBSET Events] /\ broken \subseteq Fragile /\ listed \in [Fds -> BOOLEAN]
        /\ arrivals \in [Fds -> 0 .. MaxArrivals]
    BY DEF Inv, Core, Types
  <2>2. CASE Break(f)
    BY <2>1, <2>2 DEF Break
  <2>3. ASSUME NEW e \in Events, Arrive(f, e)
        PROVE  /\ ready' \in [Fds -> SUBSET Events] /\ broken' = broken
               /\ listed' \in [Fds -> BOOLEAN] /\ arrivals' \in [Fds -> 0 .. MaxArrivals]
    <3>1. arrivals[f] + 1 \in 0 .. MaxArrivals
      BY <2>1, <2>3, BoundAssumption DEF Arrive
    <3> QED  BY <2>1, <2>3, <3>1 DEF Arrive
  <2> QED  BY <2>1, <2>2, <2>3
<1>3. Types' /\ fate' = "ok"
  BY <1>1, <1>2 DEF Inv, Core, Types
<1>4. WaitInv' /\ PointInv'
  BY <1>1 DEF Inv, Core, WaitInv, PointInv
<1>5. CopiesAgree' /\ PendingExact'
  BY <1>1, QuietTable DEF Inv
<1>6. SettingInv'
  BY <1>1, QuietSetting
<1> QED  BY <1>3, <1>4, <1>5, <1>6 DEF Inv, Core

(* What epoll_wait reports is registered at that moment.                   *)
LEMMA EpollWaitEffect ==
  ASSUME Core, NEW w \in Workers, EpollWait(w)
  PROVE  /\ reports' \in [Workers -> SUBSET Report]
         /\ \A v \in Workers : v # w => reports'[v] = reports[v]
         /\ \A r \in reports'[w] : r.mask \subseteq events[r.ctx]
         /\ \A r, s \in reports'[w] : r.ctx = s.ctx => r = s
<1> DEFINE hits == {f \in Fds : listed[f] /\ ready[f] \cap interest[f].mask # {}}
           report(f) == [ctx |-> interest[f].ptr, mask |-> ready[f] \cap interest[f].mask,
                         err |-> f \in broken]
<1>1. reports' = [reports EXCEPT ![w] = {report(f) : f \in hits}]
  BY DEF EpollWait
<1>2. \A f \in hits : /\ f \in Fds /\ report(f) \in Report /\ report(f).ctx = interest[f].ptr
                      /\ report(f).mask \subseteq interest[f].mask
  BY DEF Core, Types, Report
<1> HIDE DEF hits, report
<1>3. /\ reports'[w] = {report(f) : f \in hits} /\ \A v \in Workers : v # w => reports'[v] = reports[v]
      /\ reports' \in [Workers -> SUBSET Report]
  BY <1>1, <1>2 DEF Core, Types
<1>4. ASSUME NEW r \in reports'[w] PROVE r.mask \subseteq events[r.ctx]
  BY <1>2, <1>3 DEF Core, CopiesAgree
<1>5. ASSUME NEW r \in reports'[w], NEW s \in reports'[w], r.ctx = s.ctx PROVE r = s
  BY <1>2, <1>3, <1>5 DEF Core, PointInv
<1> QED  BY <1>3, <1>4, <1>5

LEMMA EpollWaitStep ==
  ASSUME Inv, NEW w \in Workers, EpollWait(w)
  PROVE  Inv'
<1>1. /\ UNCHANGED <<sizeVars, tableVars, interest, kernelVars, coroVars, calls, fate>>
      /\ listed' \in [Fds -> BOOLEAN]
  BY DEF EpollWait
<1>2. /\ reports' \in [Workers -> SUBSET Report]
      /\ \A v \in Workers : v # w => reports'[v] = reports[v]
      /\ \A r \in reports'[w] : r.mask \subseteq events[r.ctx]
      /\ \A r, s \in reports'[w] : r.ctx = s.ctx => r = s
  BY EpollWaitEffect DEF Inv
<1>3. Types' /\ fate' = "ok"
  BY <1>1, <1>2 DEF Inv, Core, Types
<1>4. WaitInv' /\ PointInv'
  BY <1>1 DEF Inv, Core, WaitInv, PointInv
<1>5. CopiesAgree' /\ PendingExact'
  BY <1>1, QuietTable DEF Inv
<1>6. SettingInv'
  <2>1. CASE Separate /\ SeparateInv
    <3>1. ASSUME NEW r \in reports'[w], NEW e \in r.mask
          PROVE  \E c \in Coros : FdOf[c] = r.ctx[1] /\ EventOf[c] = e
      <4>1. r.ctx \in Contexts /\ e \in events[r.ctx]
        BY <1>2, <3>1 DEF Report
      <4> QED  BY <4>1, WaiterFacts DEF Inv
    <3> QED  BY <1>2, <2>1, <3>1 DEF SettingInv, Separate, SeparateInv
  <2>2. CASE Single /\ SingleInv
    BY <1>1, <1>2, <2>2 DEF SettingInv, Single, SingleInv
  <2> QED  BY <2>1, <2>2 DEF Inv, SettingInv
<1> QED  BY <1>3, <1>4, <1>5, <1>6 DEF Inv, Core

LEMMA ServeStep ==
  ASSUME Inv, NEW w \in Workers, NEW r \in Report, Serve(w, r)
  PROVE  Inv'
<1>1. /\ r \in reports[w] /\ reports' = [reports EXCEPT ![w] = @ \ {r}]
      /\ UNCHANGED <<sizeVars, kernelVars, cpc, target, calls>>
  BY DEF Serve
<1>2. Core /\ reports \in [Workers -> SUBSET Report] /\ calls \in 0 .. MaxCalls /\ r.ctx \in Contexts
  BY DEF Inv, Core, Types, Report
<1>3. reports' \in [Workers -> SUBSET Report] /\ \A v \in Workers : reports'[v] \subseteq reports[v]
  BY <1>1, <1>2
<1>4. CASE UNCHANGED <<tableVars, epollVars, woken, fate>>
  <2>1. Types' /\ fate' = "ok"
    BY <1>1, <1>2, <1>3, <1>4 DEF Core, Types
  <2>2. WaitInv' /\ PointInv'
    BY <1>1, <1>2, <1>4 DEF Core, WaitInv, PointInv
  <2>3. CopiesAgree' /\ PendingExact'
    BY <1>2, <1>4, QuietTable
  <2>4. SettingInv'
    BY <1>1, <1>3, <1>4, QuietSetting
  <2> QED  BY <2>1, <2>2, <2>3, <2>4 DEF Inv, Core
<1>5. CASE Removal(r.ctx, RealEvents(r)) /\ Wakes(r.ctx, RealEvents(r))
  <2>1. Core'
    <3> DEFINE x == r.ctx
               evs == RealEvents(r)
    <3>1. x \in Contexts /\ Removal(x, evs) /\ Wakes(x, evs) /\ calls' \in 0 .. MaxCalls
      BY <1>1, <1>2, <1>5
    <3> HIDE DEF x, evs
    <3> QED  BY <1>1, <1>2, <1>3, <3>1, WakingStep
  <2>2. SettingInv'
    <3>1. CASE Separate /\ SeparateInv
      BY <1>3, <3>1 DEF SettingInv, Separate, SeparateInv
    <3>2. CASE Single /\ SingleInv
      <4>1. \A y \in Contexts : y # r.ctx => events'[y] = events[y]
        BY <1>2, <1>5 DEF Removal, Core, Types
      <4>2. ASSUME NEW v \in Workers, NEW s \in reports'[v]
            PROVE  s.mask \subseteq events'[s.ctx]
        <5>1. v = w /\ s \in reports[w] /\ s # r
          BY <1>1, <1>2, <1>3, <3>2, <4>2 DEF Single
        <5>2. s.ctx \in Contexts /\ s.ctx # r.ctx
          BY <1>1, <1>2, <3>2, <5>1 DEF SingleInv, Report
        <5> QED  BY <3>2, <4>1, <5>1, <5>2 DEF SingleInv
      <4>3. \A f \in Fds : interest'[f].ptr = <<f, 0>>
        <5>1. r.ctx = <<r.ctx[1], 0>> /\ r.ctx[1] \in Fds
          <6>1. events[r.ctx] # {}
            BY <1>5 DEF Removal
          <6> QED  BY <1>2, <3>2, <6>1, ContextFacts DEF Core, CopiesAgree, SingleInv
        <5> QED  BY <1>5, <3>2, <5>1 DEF Removal, SingleInv
      <4> QED  BY <1>1, <1>3, <3>2, <4>2, <4>3 DEF SettingInv, Single, SingleInv
    <3> QED  BY <3>1, <3>2 DEF Inv, SettingInv
  <2> QED  BY <2>1, <2>2 DEF Inv
<1> QED  BY <1>1, <1>4, <1>5, ServeEffect

-----------------------------------------------------------------------------
LEMMA InvInit == (Separate \/ Single) /\ Init => Inv
<1> SUFFICES ASSUME Separate \/ Single, Init PROVE Inv
  OBVIOUS
<1>1. fate = "ok" /\ Types
  BY ContextFacts, TableAssumption, CorosAssumption, BoundAssumption DEF Init, Types, Absent
<1>2. WaitInv
  BY ContextFacts, CorosAssumption DEF Init, WaitInv
<1>3. PointInv
  BY DEF Init, PointInv, Absent
<1>4. CopiesAgree
  BY ContextFacts DEF Init, CopiesAgree, Absent
<1>5. PendingExact
  <2>1. Registrations = {} /\ pending = 0
    BY DEF Init, Registrations
  <2> QED  BY <2>1, FS_EmptySet DEF PendingExact, Registrations
<1>6. SettingInv
  BY DEF Init, SettingInv, SeparateInv, SingleInv, Absent
<1> QED  BY <1>1, <1>2, <1>3, <1>4, <1>5, <1>6 DEF Inv, Core

LEMMA InvStep == Inv /\ [Next]_vars => Inv'
<1> SUFFICES ASSUME Inv, [Next]_vars PROVE Inv'
  OBVIOUS
<1>1. ASSUME NEW c \in Coros, Coroutine(c) PROVE Inv'
  BY <1>1, TryOkStep, TryAgainStep, GrowStep, AddEventStep, ResumeStep DEF Coroutine
<1>2. ASSUME NEW w \in Workers, Idle(w) PROVE Inv'
  BY <1>2, EpollWaitStep, ServeStep DEF Idle
<1>3. CASE Caller
  BY <1>3, CallBeyondStep, CancelAllStep, DelEventStep, CancelEventStep DEF Caller
<1>4. CASE Kernel
  BY <1>4, KernelStep DEF Kernel
<1>5. CASE UNCHANGED vars
  BY <1>5 DEF vars, Inv, SettingInv, Core, Types, WaitInv, PointInv, CopiesAgree, PendingExact,
              Separate, SeparateInv, Single, SingleInv
<1> QED  BY <1>1, <1>2, <1>3, <1>4, <1>5 DEF Next

LEMMA Invariance == (Separate \/ Single) /\ Spec => []Inv
<1>1. (Separate \/ Single) /\ Init => Inv
  BY InvInit
<1>2. Inv /\ [Next]_vars => Inv'
  BY InvStep
<1> QED  BY <1>1, <1>2, PTL DEF Spec

-----------------------------------------------------------------------------
(* The variables keep their types.  In particular m_pendingEventCount      *)
(* never exceeds the number of coroutines, and none is queued twice.       *)
THEOREM TypeCorrect == (Separate \/ Single) /\ Spec => []TypeOK
<1>1. Inv => TypeOK
  BY CountBounded DEF Inv
<1> QED  BY <1>1, Invariance, PTL

(* trigerEvent never follows the null scheduler of an unregistered event,  *)
(* however late a report is served or cancelEvent is called.               *)
THEOREM NoNullScheduler == (Separate \/ Single) /\ Spec => []NoCrash
<1>1. Inv => NoCrash
  BY DEF Inv, Core, NoCrash
<1> QED  BY <1>1, Invariance, PTL

(* The three records of who waits for what, in FdContext::events, in its   *)
(* EventContexts and in epoll, agree between any two critical sections,    *)
(* although contextResize replaces contexts that are in use.               *)
THEOREM CopiesStayEqual == (Separate \/ Single) /\ Spec => []CopiesAgree
<1>1. Inv => CopiesAgree
  BY DEF Inv, Core
<1> QED  BY <1>1, Invariance, PTL

(* m_pendingEventCount, which stop() reads, is the number of registered    *)
(* events.                                                                 *)
THEOREM PendingIsExact == (Separate \/ Single) /\ Spec => []PendingExact
<1>1. Inv => PendingExact
  BY DEF Inv, Core
<1> QED  BY <1>1, Invariance, PTL

(* A coroutine inside yieldtohold has exactly one thing that resumes it,   *)
(* and one that is not inside has none.                                    *)
THEOREM OneWakeSourceCorrect == (Separate \/ Single) /\ Spec => []OneWakeSource
<1>1. Inv => OneWakeSource
  <2> SUFFICES ASSUME Inv, NEW c \in Coros
               PROVE  Cardinality({x \in Contexts : waiter[x][EventOf[c]] = c}) + woken[c]
                        = IF cpc[c] = "wait" THEN 1 ELSE 0
    BY DEF OneWakeSource
  <2> DEFINE places == {x \in Contexts : waiter[x][EventOf[c]] = c}
  <2>1. \A x \in places : x \in Contexts /\ EventOf[c] \in events[x] /\ waiter[x][EventOf[c]] = c
    BY CorosAssumption, NobodyAssumption DEF Inv, Core, CopiesAgree
  <2>2. \A x \in places : cpc[c] = "wait" /\ woken[c] = 0 /\ x[1] = FdOf[c]
    BY <2>1, WaiterFacts DEF Inv
  <2>3. \A x, y \in places : x = y
    BY <2>1, <2>2, OneContext DEF Inv
  <2>4. woken[c] \in 0 .. 1 /\ (cpc[c] # "wait" => woken[c] = 0)
    BY DEF Inv, Core, Types, WaitInv
  <2>5. cpc[c] = "wait" /\ woken[c] = 0 => places # {}
    BY DEF Inv, Core, WaitInv
  <2> HIDE DEF places
  <2>6. CASE places = {}
    <3>1. Cardinality(places) = 0
      BY <2>6, FS_EmptySet
    <3>2. woken[c] = IF cpc[c] = "wait" THEN 1 ELSE 0
      BY <2>4, <2>5, <2>6
    <3> QED  BY <3>1, <3>2, <2>4 DEF places
  <2>7. CASE places # {}
    <3>1. PICK x : places = {x}
      BY <2>3, <2>7
    <3>2. Cardinality(places) = 1
      BY <3>1, FS_Singleton
    <3>3. cpc[c] = "wait" /\ woken[c] = 0
      BY <2>2, <2>7
    <3> QED  BY <3>2, <3>3 DEF places
  <2> QED  BY <2>6, <2>7
<1> QED  BY <1>1, Invariance, PTL
=============================================================================
