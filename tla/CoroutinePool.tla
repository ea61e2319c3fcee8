---------------------------- MODULE CoroutinePool ----------------------------
(***************************************************************************)
(* What the scheduler promises about coroutines, without workers, queues   *)
(* or counters: a job is submitted once, started only from the queue,      *)
(* waits only while it runs, is queued again once for each wait, and is    *)
(* finished once.  One job changes its place at a time.                    *)
(***************************************************************************)
CONSTANT Jobs

VARIABLE place    \* where each job is

Places == {"new", "queued", "running", "waiting", "done"}

TypeOK == place \in [Jobs -> Places]

Move(j, from, to) == place[j] = from /\ place' = [place EXCEPT ![j] = to]

Submit(j) == Move(j, "new", "queued")
Start(j)  == Move(j, "queued", "running")
Wait(j)   == Move(j, "running", "waiting")
Wake(j)   == Move(j, "waiting", "queued")
Finish(j) == Move(j, "running", "done")

Init == place = [j \in Jobs |-> "new"]
Next == \E j \in Jobs : Submit(j) \/ Start(j) \/ Wait(j) \/ Wake(j) \/ Finish(j)

Spec == Init /\ [][Next]_place
=============================================================================
