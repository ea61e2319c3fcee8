----------------------------- MODULE TcpService -----------------------------
(***************************************************************************)
(* What a TCP server promises its clients, without descriptors, threads or *)
(* an event loop: a connection is accepted at most once, it stays open     *)
(* until its client has ended it, and it is closed once.  A server that    *)
(* stops listening refuses whoever still waits.                            *)
(***************************************************************************)
CONSTANT Conns

VARIABLES
  state,   \* where each connection is
  ended    \* the connections whose clients have ended them

States == {"new", "waiting", "open", "closed"}

TypeOK == state \in [Conns -> States] /\ ended \subseteq Conns

Move(c, from, to) == state[c] = from /\ state' = [state EXCEPT ![c] = to] /\ ended' = ended

Connect(c) == Move(c, "new", "waiting")
Accept(c)  == Move(c, "waiting", "open")
Close(c)   == c \in ended /\ Move(c, "open", "closed")
End(c)     == state[c] # "new" /\ ended' = ended \cup {c} /\ state' = state
Refuse     == /\ state' = [c \in Conns |-> IF state[c] = "waiting" THEN "closed" ELSE state[c]]
              /\ ended' = ended

Init == state = [c \in Conns |-> "new"] /\ ended = {}
Next == Refuse \/ \E c \in Conns : Connect(c) \/ Accept(c) \/ Close(c) \/ End(c)

Spec == Init /\ [][Next]_<<state, ended>>
=============================================================================
