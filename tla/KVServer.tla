------------------------------ MODULE KVServer ------------------------------
(***************************************************************************)
(* KVS::handleClient (src/KVserver): each connection has its own coroutine,*)
(* buffers and skip list; recv, split the request into tokens, execute it, *)
(* send the reply.  The splitting uses strtok, whose position is one       *)
(* static variable of the process.  A coroutine gives up its thread only   *)
(* in recv and send, so connections on one thread split one after the      *)
(* other; connections on different threads do not.                         *)
(*                                                                         *)
(* What a command does to the skip list of its connection is KVStore.      *)
(***************************************************************************)
EXTENDS Integers, Sequences

CONSTANTS
  Threads,   \* workers of the IOManager the server was created on
  Conns,     \* connections
  Words,     \* what a token can be, the two below among them
  Requests,  \* what clients send: sequences of words
  Bare,      \* the requests that are sent without a terminating zero byte
  KvSize,    \* the pointers kvlist has room for, 1024 / sizeof(char*)
  Null

ASSUME NullAssumption     == Null \notin Conns /\ Null \notin Conns \X Nat
ASSUME WordsAssumption    == {"glued", "garbage"} \subseteq Words
ASSUME RequestsAssumption == Requests \subseteq Seq(Words) /\ Bare \subseteq Requests
ASSUME SizeAssumption     == KvSize \in Nat /\ \A r \in Requests : Len(r) <= KvSize

VARIABLES
  on,        \* the connection each thread runs, or Null
  pc,        \* where each connection is in handleClient
  rbuf,      \* Socket::rbuf: the words of the request it holds
  kvlist,    \* Socket::kvlist: pointers to words, a pair of owner and place
  saved,     \* the static position of strtok, such a pair, or Null
  position,  \* the position a call of strtok works with
  request,   \* the request each client has sent last
  executed   \* what kvstore_parser_protocol last executed for it

vars == <<on, pc, rbuf, kvlist, saved, position, request, executed>>

Pointers == Conns \X Nat
Running  == {"first", "next", "scan", "parse", "send"}

Init ==
  /\ on = [t \in Threads |-> Null]
  /\ pc = [c \in Conns |-> "recv"]
  /\ rbuf = [c \in Conns |-> <<>>]
  /\ kvlist = [c \in Conns |-> <<>>]
  /\ saved = Null
  /\ position = [c \in Conns |-> Null]
  /\ request = [c \in Conns |-> <<>>]
  /\ executed = [c \in Conns |-> <<>>]

Goto(c, label) == pc' = [pc EXCEPT ![c] = label]

(* The word a pointer leads to, in the buffer as it is now.                *)
Points(p) == p # Null /\ p[2] \in DOMAIN rbuf[p[1]]
Word(p)   == IF Points(p) THEN rbuf[p[1]][p[2]] ELSE "garbage"
After(p)  == <<p[1], p[2] + 1>>

(* What the buffer holds after recv.  Only its first byte was cleared, and *)
(* strtok has put zeros between the words of the last request: the last    *)
(* word of a bare request may run on into what is left of an older one.    *)
Glued(r)    == IF r = <<>> THEN <<"glued">> ELSE [r EXCEPT ![Len(r)] = "glued"]
Received(r) == {r} \cup IF r \in Bare THEN {Glued(r)} ELSE {}

-----------------------------------------------------------------------------
(* Defective variants of definitions below, for mutation checks only.      *)

(* the first call of strtok goes on where the last one ended               *)
FirstContinued(t, c) ==
  /\ on[t] = c /\ pc[c] = "first"
  /\ kvlist' = [kvlist EXCEPT ![c] = <<>>]
  /\ Goto(c, "next")
  /\ UNCHANGED <<on, rbuf, saved, position, request, executed>>

(* kvstore_skiplist_token does not begin with idx = 0                      *)
FirstKeepIndex(t, c) ==
  /\ on[t] = c /\ pc[c] = "first"
  /\ kvlist' = [kvlist EXCEPT ![c] = Append(@, <<c, 1>>)]
  /\ saved' = <<c, 2>>
  /\ Goto(c, "next")
  /\ UNCHANGED <<on, rbuf, position, request, executed>>

(* the loop over the tokens does not stop at the last one                  *)
ScanNoEnd(t, c) ==
  /\ on[t] = c /\ pc[c] = "scan"
  /\ Goto(c, "next")
  /\ IF Points(position[c])
       THEN /\ kvlist' = [kvlist EXCEPT ![c] = Append(@, position[c])]
            /\ saved' = After(position[c])
       ELSE kvlist' = kvlist /\ saved' = position[c]
  /\ UNCHANGED <<on, rbuf, position, request, executed>>

(* the coroutine keeps its thread while it waits for the next request      *)
SendHoldThread(t, c) ==
  /\ on[t] = c /\ pc[c] = "send"
  /\ Goto(c, "recv")
  /\ UNCHANGED <<on, rbuf, kvlist, saved, position, request, executed>>

-----------------------------------------------------------------------------
(* A request arrives; a free thread resumes the coroutine, whose recv      *)
(* returns it.                                                             *)
Recv(t, c) ==
  /\ pc[c] = "recv" /\ on[t] = Null
  /\ \E r \in Requests :
       /\ \E b \in Received(r) : rbuf' = [rbuf EXCEPT ![c] = b]
       /\ request' = [request EXCEPT ![c] = r]
  /\ on' = [on EXCEPT ![t] = c]
  /\ Goto(c, "first")
  /\ UNCHANGED <<kvlist, saved, position, executed>>

(* kvstore_skiplist_token: strtok(buf) returns the first word and stores   *)
(* the position after it.  Without a word the loop is not entered.         *)
First(t, c) ==
  LET found == rbuf[c] # <<>>
  IN  /\ on[t] = c /\ pc[c] = "first"
      /\ kvlist' = [kvlist EXCEPT ![c] = IF found THEN <<<<c, 1>>>> ELSE <<>>]
      /\ saved' = IF found THEN <<c, 2>> ELSE <<c, 1>>
      /\ Goto(c, IF found THEN "next" ELSE "parse")
      /\ UNCHANGED <<on, rbuf, position, request, executed>>

(* strtok(NULL) begins by loading the stored position.                     *)
NextToken(t, c) ==
  /\ on[t] = c /\ pc[c] = "next"
  /\ position' = [position EXCEPT ![c] = saved]
  /\ Goto(c, "scan")
  /\ UNCHANGED <<on, rbuf, kvlist, saved, request, executed>>

(* It ends by storing the new position; the loop ends without a word.      *)
Scan(t, c) ==
  /\ on[t] = c /\ pc[c] = "scan"
  /\ IF Points(position[c])
       THEN /\ kvlist' = [kvlist EXCEPT ![c] = Append(@, position[c])]
            /\ saved' = After(position[c])
            /\ Goto(c, "next")
       ELSE /\ kvlist' = kvlist /\ saved' = position[c]
            /\ Goto(c, "parse")
  /\ UNCHANGED <<on, rbuf, position, request, executed>>

(* kvstore_parser_protocol reads the words through kvlist.  With count ==  *)
(* 0 it returns at once: nothing is executed, and what wbuf still holds,   *)
(* an earlier reply or nothing written, is sent.                           *)
Parse(t, c) ==
  /\ on[t] = c /\ pc[c] = "parse"
  /\ executed' = [executed EXCEPT ![c] = [i \in DOMAIN kvlist[c] |-> Word(kvlist[c][i])]]
  /\ Goto(c, "send")
  /\ UNCHANGED <<on, rbuf, kvlist, saved, position, request>>

(* send returns.  Its result is not looked at; then recv waits again.      *)
Send(t, c) ==
  /\ on[t] = c /\ pc[c] = "send"
  /\ on' = [on EXCEPT ![t] = Null]
  /\ Goto(c, "recv")
  /\ UNCHANGED <<rbuf, kvlist, saved, position, request, executed>>

(* The client does not read: send gives the thread up, and is tried again  *)
(* when a thread resumes the coroutine.                                    *)
SendAgain(t, c) ==
  /\ on[t] = c /\ pc[c] = "send"
  /\ on' = [on EXCEPT ![t] = Null]
  /\ Goto(c, "full")
  /\ UNCHANGED <<rbuf, kvlist, saved, position, request, executed>>

Resume(t, c) ==
  /\ on[t] = Null /\ pc[c] = "full"
  /\ on' = [on EXCEPT ![t] = c]
  /\ Goto(c, "send")
  /\ UNCHANGED <<rbuf, kvlist, saved, position, request, executed>>

(* recv returns 0 or an error: the socket is closed, the buffers are freed.*)
Close(c) ==
  /\ pc[c] = "recv"
  /\ rbuf' = [rbuf EXCEPT ![c] = <<>>]
  /\ kvlist' = [kvlist EXCEPT ![c] = <<>>]
  /\ Goto(c, "closed")
  /\ UNCHANGED <<on, saved, position, request, executed>>

Handle(t, c) ==
  First(t, c) \/ NextToken(t, c) \/ Scan(t, c) \/ Parse(t, c) \/ Send(t, c) \/ SendAgain(t, c)

Next ==
  \/ \E t \in Threads, c \in Conns : Recv(t, c) \/ Handle(t, c) \/ Resume(t, c)
  \/ \E c \in Conns : Close(c)

Spec == Init /\ [][Next]_vars

(* A thread that runs a coroutine keeps running it; clients may be silent. *)
FairSpec == Spec /\ \A c \in Conns : WF_vars(\E t \in Threads : Handle(t, c))

-----------------------------------------------------------------------------
TypeOK ==
  /\ on \in [Threads -> Conns \cup {Null}]
  /\ pc \in [Conns -> Running \cup {"recv", "full", "closed"}]
  /\ rbuf \in [Conns -> Seq(Words)]
  /\ kvlist \in [Conns -> Seq(Pointers)]
  /\ saved \in Pointers \cup {Null}
  /\ position \in [Conns -> Pointers \cup {Null}]
  /\ request \in [Conns -> Requests \cup {<<>>}]
  /\ executed \in [Conns -> Seq(Words)]
  /\ \A c \in Conns : pc[c] \in Running <=> \E t \in Threads : on[t] = c

(* Each connection's own buffers keep it apart from the others: what is    *)
(* executed on its skip list is the request its client has sent, although  *)
(* the coroutines of other connections run in between.                     *)
OwnRequest == \A c \in Conns : pc[c] = "send" => executed[c] = request[c]

(* A request that kvlist has room for does not write past its end: the     *)
(* words that are put there are those of this request, from the first      *)
(* entry on, although strtok goes on from a position all connections share.*)
KvlistFits == \A c \in Conns : Len(kvlist[c]) <= KvSize

(* Every request that is received is executed and answered, or its answer  *)
(* waits for the client to read: the loop over the tokens ends.            *)
Answered == \A c \in Conns : pc[c] = "first" ~> pc[c] \in {"recv", "full"}
=============================================================================
