--------------------------- MODULE KVServerProofs ---------------------------
(***************************************************************************)
(* Theorems about KVServer.  On one thread at most one connection is       *)
(* between its recv and its send, so the position of strtok is always that *)
(* of its own request: the invariant says how far it has come.             *)
(***************************************************************************)
EXTENDS KVServer, TLAPS

(* A thread runs one connection, and a connection runs on one thread.      *)
OnInjective == \A t, u \in Threads : on[t] = on[u] /\ on[t] # Null => t = u
TypeInv     == TypeOK /\ OnInjective

LEMMA ReceivedType ==
  ASSUME NEW r \in Requests, NEW b \in Received(r)
  PROVE  b \in Seq(Words) /\ r \in Seq(Words)
<1>1. r \in Seq(Words)
  BY RequestsAssumption
<1>2. r \in [1 .. Len(r) -> Words] /\ Len(r) \in Nat
  BY <1>1
<1> DEFINE n == Len(r)
<1>3. [r EXCEPT ![n] = "glued"] \in [1 .. n -> Words]
  <2>1. r \in [1 .. n -> Words] /\ "glued" \in Words
    BY <1>2, WordsAssumption
  <2> HIDE DEF n
  <2> QED  BY <2>1
<1>4. [r EXCEPT ![Len(r)] = "glued"] \in Seq(Words)
  BY <1>2, <1>3
<1>5. <<"glued">> \in Seq(Words)
  BY WordsAssumption
<1> QED  BY <1>1, <1>4, <1>5 DEF Received, Glued

LEMMA TypeInit == Init => TypeInv
BY NullAssumption DEF Init, TypeInv, TypeOK, OnInjective, Running

LEMMA TypeStep == TypeInv /\ [Next]_vars => TypeInv'
<1> SUFFICES ASSUME TypeInv, [Next]_vars PROVE TypeInv'
  OBVIOUS
<1> USE NullAssumption DEF TypeInv, TypeOK, OnInjective, Running
<1>1. ASSUME NEW t \in Threads, NEW c \in Conns, Recv(t, c) PROVE TypeInv'
  <2>1. PICK r \in Requests :
          /\ \E b \in Received(r) : rbuf' = [rbuf EXCEPT ![c] = b]
          /\ request' = [request EXCEPT ![c] = r]
    BY <1>1 DEF Recv
  <2>2. PICK b \in Received(r) : rbuf' = [rbuf EXCEPT ![c] = b]
    BY <2>1
  <2>3. b \in Seq(Words)
    BY ReceivedType
  <2>4. on' = [on EXCEPT ![t] = c] /\ pc' = [pc EXCEPT ![c] = "first"] /\ on[t] = Null
    BY <1>1 DEF Recv, Goto
  <2>5. \A u \in Threads : on[u] # c
    BY <1>1 DEF Recv
  <2>6. \A d \in Conns : pc'[d] \in Running <=> \E u \in Threads : on'[u] = d
    BY <2>4, <2>5
  <2>7. OnInjective'
    BY <2>4, <2>5
  <2> QED  BY <1>1, <2>1, <2>2, <2>3, <2>4, <2>6, <2>7 DEF Recv
<1>2. ASSUME NEW t \in Threads, NEW c \in Conns, First(t, c) PROVE TypeInv'
  <2>1. <<c, 1>> \in Pointers /\ <<c, 2>> \in Pointers
    BY DEF Pointers
  <2>2. <<<<c, 1>>>> \in Seq(Pointers) /\ <<>> \in Seq(Pointers)
    BY <2>1
  <2>3. PICK list \in Seq(Pointers), pos \in Pointers, label \in {"next", "parse"} :
          /\ kvlist' = [kvlist EXCEPT ![c] = list] /\ saved' = pos
          /\ pc' = [pc EXCEPT ![c] = label] /\ pc[c] = "first"
          /\ UNCHANGED <<on, rbuf, position, request, executed>>
    <3> HIDE DEF Pointers
    <3>1. CASE rbuf[c] = <<>>
      BY <1>2, <2>1, <2>2, <3>1 DEF First, Goto
    <3>2. CASE rbuf[c] # <<>>
      BY <1>2, <2>1, <2>2, <3>2 DEF First, Goto
    <3> QED  BY <3>1, <3>2
  <2>4. \A d \in Conns : pc'[d] \in Running <=> \E u \in Threads : on'[u] = d
    BY <2>3
  <2> HIDE DEF Pointers
  <2> QED  BY <2>3, <2>4
<1>3. ASSUME NEW t \in Threads, NEW c \in Conns, NextToken(t, c) PROVE TypeInv'
  BY <1>3 DEF NextToken, Goto
<1>4. ASSUME NEW t \in Threads, NEW c \in Conns, Scan(t, c) PROVE TypeInv'
  <2>1. CASE Points(position[c])
    <3>1. position[c] \in Pointers /\ After(position[c]) \in Pointers
      BY <2>1 DEF Points, After, Pointers
    <3>2. Append(kvlist[c], position[c]) \in Seq(Pointers)
      BY <3>1
    <3>3. /\ kvlist' = [kvlist EXCEPT ![c] = Append(kvlist[c], position[c])]
          /\ saved' = After(position[c]) /\ pc' = [pc EXCEPT ![c] = "next"]
          /\ UNCHANGED <<on, rbuf, position, request, executed>>
      BY <1>4, <2>1 DEF Scan, Goto
    <3>4. \A d \in Conns : pc'[d] \in Running <=> \E u \in Threads : on'[u] = d
      BY <1>4, <3>3 DEF Scan
    <3> HIDE DEF Pointers
    <3> QED  BY <3>1, <3>2, <3>3, <3>4
  <2>2. CASE ~Points(position[c])
    <3>1. /\ saved' = position[c] /\ pc' = [pc EXCEPT ![c] = "parse"]
          /\ UNCHANGED <<on, rbuf, kvlist, position, request, executed>>
      BY <1>4, <2>2 DEF Scan, Goto
    <3>2. \A d \in Conns : pc'[d] \in Running <=> \E u \in Threads : on'[u] = d
      BY <1>4, <3>1 DEF Scan
    <3> HIDE DEF Pointers
    <3> QED  BY <3>1, <3>2
  <2> QED  BY <2>1, <2>2
<1>5. ASSUME NEW t \in Threads, NEW c \in Conns, Parse(t, c) PROVE TypeInv'
  <2> DEFINE words == [i \in DOMAIN kvlist[c] |-> Word(kvlist[c][i])]
  <2>1. ASSUME NEW i \in DOMAIN kvlist[c] PROVE Word(kvlist[c][i]) \in Words
    <3>1. PICK d \in Conns, n \in Nat : kvlist[c][i] = <<d, n>>
      <4>1. kvlist[c] \in Seq(Pointers)
        OBVIOUS
      <4>2. kvlist[c][i] \in Pointers
        BY <2>1, <4>1
      <4> QED  BY <4>2 DEF Pointers
    <3>2. rbuf[d] \in Seq(Words) /\ (n \in DOMAIN rbuf[d] => rbuf[d][n] \in Words)
      OBVIOUS
    <3>3. "garbage" \in Words
      BY WordsAssumption
    <3> QED  BY <3>1, <3>2, <3>3 DEF Word, Points
  <2>2. words \in Seq(Words)
    <3>1. Len(kvlist[c]) \in Nat /\ DOMAIN kvlist[c] = 1 .. Len(kvlist[c])
      OBVIOUS
    <3>2. words \in [1 .. Len(kvlist[c]) -> Words]
      BY <2>1, <3>1
    <3> QED  BY <3>1, <3>2
  <2>3. /\ executed' = [executed EXCEPT ![c] = words] /\ pc' = [pc EXCEPT ![c] = "send"]
        /\ UNCHANGED <<on, rbuf, kvlist, saved, position, request>>
    BY <1>5 DEF Parse, Goto
  <2> HIDE DEF words
  <2>4. \A d \in Conns : pc'[d] \in Running <=> \E u \in Threads : on'[u] = d
    BY <1>5, <2>3 DEF Parse
  <2> QED  BY <2>2, <2>3, <2>4
<1>6. ASSUME NEW t \in Threads, NEW c \in Conns, Send(t, c) PROVE TypeInv'
  BY <1>6 DEF Send, Goto
<1>7. ASSUME NEW c \in Conns, Close(c) PROVE TypeInv'
  BY <1>7 DEF Close, Goto
<1>8. CASE UNCHANGED vars
  BY <1>8 DEF vars
<1>9. ASSUME NEW t \in Threads, NEW c \in Conns, SendAgain(t, c) PROVE TypeInv'
  BY <1>9 DEF SendAgain, Goto
<1>10. ASSUME NEW t \in Threads, NEW c \in Conns, Resume(t, c) PROVE TypeInv'
  <2>1. /\ on' = [on EXCEPT ![t] = c] /\ pc' = [pc EXCEPT ![c] = "send"] /\ on[t] = Null
        /\ UNCHANGED <<rbuf, kvlist, saved, position, request, executed>>
    BY <1>10 DEF Resume, Goto
  <2>2. \A u \in Threads : on[u] # c
    BY <1>10 DEF Resume
  <2>3. OnInjective'
    BY <2>1, <2>2
  <2>4. \A d \in Conns : pc'[d] \in Running <=> \E u \in Threads : on'[u] = d
    BY <2>1, <2>2
  <2> QED  BY <2>1, <2>3, <2>4
<1> QED
  BY <1>1, <1>2, <1>3, <1>4, <1>5, <1>6, <1>7, <1>8, <1>9, <1>10 DEF Next, Handle

(* Every variable keeps its type; a connection is between its recv and its *)
(* send, and not waiting in them, exactly when a thread runs it.           *)
THEOREM TypeCorrect == Spec => []TypeOK
<1>1. Init => TypeInv
  BY TypeInit
<1>2. TypeInv /\ [Next]_vars => TypeInv'
  BY TypeStep
<1>3. TypeInv => TypeOK
  BY DEF TypeInv
<1> QED  BY <1>1, <1>2, <1>3, PTL DEF Spec

-----------------------------------------------------------------------------
OneThread == \A t, u \in Threads : t = u

(* The first n words of the buffer of c, as kvlist points to them.         *)
Prefix(c, n) == [i \in 1 .. n |-> <<c, i>>]

(* How far the splitting of the request of c has come.                     *)
Unsplit(c)  == rbuf[c] = request[c] /\ request[c] \in Requests
Split(c, n) == Unsplit(c) /\ n \in 0 .. Len(request[c]) /\ kvlist[c] = Prefix(c, n)

Progress(c) ==
  /\ pc[c] = "first" => Unsplit(c)
  /\ pc[c] = "next"  => \E n \in Nat : Split(c, n) /\ saved = <<c, n + 1>>
  /\ pc[c] = "scan"  => \E n \in Nat : Split(c, n) /\ position[c] = <<c, n + 1>>
  /\ pc[c] = "parse" => Split(c, Len(request[c]))
  /\ pc[c] \in {"send", "full"} => executed[c] = request[c]

OwnInv == TypeInv /\ (\A c \in Conns : Progress(c)) /\ KvlistFits

LEMMA OwnInit == Init => OwnInv
BY TypeInit, SizeAssumption DEF Init, OwnInv, Progress, KvlistFits

LEMMA OwnStep == OneThread /\ Bare = {} /\ OwnInv /\ [Next]_vars => OwnInv'
<1> SUFFICES ASSUME OneThread, Bare = {}, OwnInv, [Next]_vars PROVE OwnInv'
  OBVIOUS
<1>0. TypeInv /\ TypeInv'
  BY TypeStep DEF OwnInv
<1>a. TypeOK /\ TypeOK'
  BY <1>0 DEF TypeInv
<1>b. ASSUME NEW t \in Threads, NEW c \in Conns, Recv(t, c) \/ Handle(t, c) \/ Resume(t, c),
             NEW d \in Conns, d # c
      PROVE  pc'[d] = pc[d] /\ executed'[d] = executed[d] /\ request'[d] = request[d]
  <2>1. CASE Recv(t, c) \/ Resume(t, c)
    BY <1>a, <1>b, <2>1 DEF Recv, Resume, Goto, TypeOK
  <2>2. CASE First(t, c) \/ NextToken(t, c) \/ Scan(t, c)
    BY <1>a, <1>b, <2>2 DEF First, NextToken, Scan, Goto, TypeOK
  <2>3. CASE Parse(t, c) \/ Send(t, c) \/ SendAgain(t, c)
    BY <1>a, <1>b, <2>3 DEF Parse, Send, SendAgain, Goto, TypeOK
  <2> QED  BY <1>b, <2>1, <2>2, <2>3 DEF Handle
<1>c. ASSUME NEW t \in Threads, NEW c \in Conns, Recv(t, c) \/ Handle(t, c) \/ Resume(t, c),
             on'[t] \in {c, Null}, Progress(c)'
      PROVE  \A d \in Conns : Progress(d)'
  <2> SUFFICES ASSUME NEW d \in Conns, d # c PROVE Progress(d)'
    BY <1>c
  <2>1. pc'[d] \notin Running
    BY <1>a, <1>c, NullAssumption DEF OneThread, TypeOK
  <2>2. pc'[d] = pc[d] /\ executed'[d] = executed[d] /\ request'[d] = request[d]
    BY <1>b, <1>c
  <2>3. pc[d] \in {"send", "full"} => executed[d] = request[d]
    BY DEF OwnInv, Progress
  <2> QED  BY <2>1, <2>2, <2>3 DEF Progress, Running
<1>1. ASSUME NEW t \in Threads, NEW c \in Conns, Recv(t, c) PROVE \A d \in Conns : Progress(d)'
  <2>1. PICK r \in Requests :
          /\ \E b \in Received(r) : rbuf' = [rbuf EXCEPT ![c] = b]
          /\ request' = [request EXCEPT ![c] = r]
    BY <1>1 DEF Recv
  <2>2. Received(r) = {r}
    BY DEF Received
  <2>3. Unsplit(c)' /\ pc'[c] = "first" /\ on'[t] = c
    BY <1>a, <1>1, <2>1, <2>2 DEF Recv, Goto, Unsplit, TypeOK
  <2>4. Progress(c)'
    BY <2>3 DEF Progress
  <2> QED  BY <1>1, <1>c, <2>3, <2>4
<1>2. ASSUME NEW t \in Threads, NEW c \in Conns, First(t, c) PROVE \A d \in Conns : Progress(d)'
  <2>1. Unsplit(c) /\ Unsplit(c)' /\ on'[t] = c
    BY <1>a, <1>2 DEF OwnInv, Progress, First, Unsplit, TypeOK
  <2>2. request'[c] \in Seq(Words) /\ rbuf[c] = request'[c]
    BY <1>2, <2>1, RequestsAssumption DEF Unsplit, First
  <2>3. CASE rbuf[c] = <<>>
    <3>1. kvlist'[c] = <<>> /\ pc'[c] = "parse"
      BY <1>a, <1>2, <2>3 DEF First, Goto, TypeOK
    <3>2. <<>> = Prefix(c, 0)
      BY DEF Prefix
    <3>3. Len(request'[c]) = 0
      BY <2>2, <2>3
    <3>4. Split(c, Len(request[c]))'
      BY <2>1, <3>1, <3>2, <3>3 DEF Split, Prefix
    <3>5. Progress(c)'
      BY <3>1, <3>4 DEF Progress
    <3> QED  BY <1>2, <1>c, <2>1, <3>5 DEF Handle
  <2>4. CASE rbuf[c] # <<>>
    <3>1. kvlist'[c] = <<<<c, 1>>>> /\ saved' = <<c, 1 + 1>> /\ pc'[c] = "next"
      BY <1>a, <1>2, <2>4 DEF First, Goto, TypeOK
    <3>2. <<<<c, 1>>>> = Prefix(c, 1)
      BY DEF Prefix
    <3>3. 1 \in 0 .. Len(request'[c])
      BY <2>2, <2>4
    <3>4. Split(c, 1)' /\ saved' = <<c, 1 + 1>>
      BY <2>1, <3>1, <3>2, <3>3 DEF Split, Prefix
    <3>5. Progress(c)'
      BY <3>1, <3>4 DEF Progress
    <3> QED  BY <1>2, <1>c, <2>1, <3>5 DEF Handle
  <2> QED  BY <2>3, <2>4
<1>3. ASSUME NEW t \in Threads, NEW c \in Conns, NextToken(t, c)
      PROVE  \A d \in Conns : Progress(d)'
  <2>1. PICK n \in Nat : Split(c, n) /\ saved = <<c, n + 1>>
    BY <1>3 DEF OwnInv, Progress, NextToken
  <2>2. Split(c, n)' /\ position'[c] = <<c, n + 1>> /\ pc'[c] = "scan" /\ on'[t] = c
    BY <1>a, <1>3, <2>1 DEF NextToken, Goto, Split, Unsplit, Prefix, TypeOK
  <2>3. Progress(c)'
    BY <2>2 DEF Progress
  <2> QED  BY <1>3, <1>c, <2>2, <2>3 DEF Handle
<1>4. ASSUME NEW t \in Threads, NEW c \in Conns, Scan(t, c) PROVE \A d \in Conns : Progress(d)'
  <2>1. PICK n \in Nat : Split(c, n) /\ position[c] = <<c, n + 1>>
    BY <1>4 DEF OwnInv, Progress, Scan
  <2>2. Unsplit(c)' /\ on'[t] = c
    BY <1>4, <2>1 DEF Scan, Split, Unsplit
  <2>3. request[c] \in Seq(Words) /\ Len(request[c]) \in Nat
        /\ DOMAIN request[c] = 1 .. Len(request[c]) /\ request'[c] = request[c]
    BY <1>4, <2>1, RequestsAssumption DEF Split, Unsplit, Scan
  <2>4. Points(position[c]) <=> n + 1 <= Len(request[c])
    <3>1. <<c, n + 1>> # Null
      BY <2>1, NullAssumption
    <3> QED  BY <2>1, <2>3, <3>1 DEF Points, Split, Unsplit
  <2>5. CASE Points(position[c])
    <3>1. kvlist'[c] = Append(Prefix(c, n), <<c, n + 1>>)
      BY <1>a, <1>4, <2>1, <2>5 DEF Scan, Split, TypeOK
    <3>2. Append(Prefix(c, n), <<c, n + 1>>) = Prefix(c, n + 1)
      BY DEF Prefix
    <3>3. Split(c, n + 1)'
      BY <2>2, <2>3, <2>4, <2>5, <3>1, <3>2 DEF Split, Prefix
    <3>4. saved' = <<c, (n + 1) + 1>> /\ pc'[c] = "next"
      BY <1>a, <1>4, <2>1, <2>5 DEF Scan, Goto, After, TypeOK
    <3>5. Progress(c)'
      BY <3>3, <3>4 DEF Progress
    <3> QED  BY <1>4, <1>c, <2>2, <3>5 DEF Handle
  <2>6. CASE ~Points(position[c])
    <3>1. n = Len(request[c])
      BY <2>1, <2>3, <2>4, <2>6 DEF Split
    <3>2. kvlist'[c] = Prefix(c, n) /\ pc'[c] = "parse"
      BY <1>a, <1>4, <2>1, <2>6 DEF Scan, Goto, Split, TypeOK
    <3>3. Split(c, Len(request[c]))'
      BY <2>1, <2>2, <2>3, <3>1, <3>2 DEF Split, Prefix
    <3>4. Progress(c)'
      BY <3>2, <3>3 DEF Progress
    <3> QED  BY <1>4, <1>c, <2>2, <3>4 DEF Handle
  <2> QED  BY <2>5, <2>6
<1>5. ASSUME NEW t \in Threads, NEW c \in Conns, Parse(t, c) PROVE \A d \in Conns : Progress(d)'
  <2>1. Split(c, Len(request[c]))
    BY <1>5 DEF OwnInv, Progress, Parse
  <2>2. request[c] \in Seq(Words) /\ Len(request[c]) \in Nat
        /\ DOMAIN request[c] = 1 .. Len(request[c])
    BY <2>1, RequestsAssumption DEF Split, Unsplit
  <2>3. DOMAIN kvlist[c] = DOMAIN request[c]
    BY <2>1, <2>2 DEF Split, Prefix
  <2>4. ASSUME NEW i \in DOMAIN request[c] PROVE Word(kvlist[c][i]) = request[c][i]
    <3>1. kvlist[c][i] = <<c, i>>
      BY <2>1, <2>2 DEF Split, Prefix
    <3>2. <<c, i>> # Null
      BY <2>2, NullAssumption
    <3> QED  BY <2>1, <2>2, <3>1, <3>2 DEF Word, Points, Split, Unsplit
  <2>5. [i \in DOMAIN kvlist[c] |-> Word(kvlist[c][i])] = [i \in DOMAIN request[c] |-> request[c][i]]
    BY <2>3, <2>4
  <2>6. [i \in DOMAIN request[c] |-> request[c][i]] = request[c]
    BY <2>2
  <2>7. executed'[c] = request'[c] /\ pc'[c] = "send" /\ on'[t] = c
    BY <1>a, <1>5, <2>5, <2>6 DEF Parse, Goto, TypeOK
  <2>8. Progress(c)'
    BY <2>7 DEF Progress
  <2> QED  BY <1>5, <1>c, <2>7, <2>8 DEF Handle
<1>6. ASSUME NEW t \in Threads, NEW c \in Conns, Send(t, c) \/ SendAgain(t, c) \/ Resume(t, c)
      PROVE  \A d \in Conns : Progress(d)'
  <2>1. /\ pc[c] \in {"send", "full"} /\ pc'[c] \in {"recv", "full", "send"}
        /\ on'[t] \in {c, Null} /\ UNCHANGED <<executed, request>>
    BY <1>a, <1>6 DEF Send, SendAgain, Resume, Goto, TypeOK
  <2>2. executed[c] = request[c]
    BY <2>1 DEF OwnInv, Progress
  <2>3. Progress(c)'
    BY <2>1, <2>2 DEF Progress
  <2> QED  BY <1>6, <1>c, <2>1, <2>3 DEF Handle
<1>7. ASSUME NEW c \in Conns, Close(c) PROVE \A d \in Conns : Progress(d)'
  <2> SUFFICES ASSUME NEW d \in Conns PROVE Progress(d)'
    OBVIOUS
  <2>1. CASE d = c
    BY <1>a, <1>7, <2>1 DEF Close, Goto, Progress, TypeOK
  <2>2. CASE d # c
    <3>1. Progress(d)
      BY DEF OwnInv
    <3>2. /\ pc'[d] = pc[d] /\ rbuf'[d] = rbuf[d] /\ kvlist'[d] = kvlist[d]
          /\ UNCHANGED <<saved, position, request, executed>>
      BY <1>a, <1>7, <2>2 DEF Close, Goto, TypeOK
    <3> QED  BY <3>1, <3>2 DEF Progress, Split, Unsplit, Prefix
  <2> QED  BY <2>1, <2>2
<1>8. CASE UNCHANGED vars
  <2>1. \A d \in Conns : Progress(d)
    BY DEF OwnInv
  <2> QED
    BY <1>0, <1>8, <2>1 DEF vars, OwnInv, Progress, Split, Unsplit, Prefix, KvlistFits
<1>9. ASSUME Next PROVE KvlistFits'
  <2>1. KvlistFits
    BY DEF OwnInv
  <2>2. CASE UNCHANGED kvlist
    BY <2>1, <2>2 DEF KvlistFits
  <2>3. ASSUME NEW c \in Conns, NEW list, kvlist' = [kvlist EXCEPT ![c] = list], Len(list) <= KvSize
        PROVE  KvlistFits'
    BY <1>a, <2>1, <2>3 DEF KvlistFits, TypeOK
  <2>4. ASSUME NEW t \in Threads, NEW c \in Conns, First(t, c) PROVE KvlistFits'
    <3>1. rbuf[c] \in Seq(Words) /\ Len(rbuf[c]) <= KvSize
      BY <2>4, RequestsAssumption, SizeAssumption DEF OwnInv, Progress, First, Unsplit
    <3>2. (rbuf[c] # <<>> => 1 <= KvSize) /\ 0 <= KvSize
      BY <3>1, SizeAssumption
    <3>3. PICK list \in {<<>>, <<<<c, 1>>>>} :
            kvlist' = [kvlist EXCEPT ![c] = list] /\ (list # <<>> => rbuf[c] # <<>>)
      BY <2>4 DEF First
    <3>4. Len(list) <= KvSize
      BY <3>2, <3>3
    <3> QED  BY <2>3, <3>3, <3>4
  <2>5. ASSUME NEW t \in Threads, NEW c \in Conns, Scan(t, c), Points(position[c])
        PROVE  KvlistFits'
    <3>1. pc'[c] = "next" /\ kvlist' = [kvlist EXCEPT ![c] = Append(@, position[c])]
      BY <1>a, <2>5 DEF Scan, Goto, TypeOK
    <3>2. Progress(c)'
      BY <1>4, <2>5
    <3>3. PICK n \in Nat : Split(c, n)'
      BY <3>1, <3>2 DEF Progress
    <3>4. n <= Len(request'[c]) /\ Len(request'[c]) <= KvSize /\ Len(request'[c]) \in Nat
      BY <3>3, RequestsAssumption, SizeAssumption DEF Split, Unsplit
    <3>5. Len(kvlist'[c]) = n
      BY <3>3 DEF Split, Prefix
    <3>6. Len(kvlist'[c]) <= KvSize
      BY <3>4, <3>5, SizeAssumption
    <3>7. kvlist'[c] = Append(kvlist[c], position[c])
      BY <1>a, <3>1 DEF TypeOK
    <3> QED  BY <2>3, <3>1, <3>6, <3>7
  <2>6. ASSUME NEW c \in Conns, Close(c) PROVE KvlistFits'
    <3>1. kvlist' = [kvlist EXCEPT ![c] = <<>>]
      BY <2>6 DEF Close
    <3>2. Len(<<>>) <= KvSize
      BY SizeAssumption
    <3> QED  BY <2>3, <3>1, <3>2
  <2>7. ASSUME NEW t \in Threads, NEW c \in Conns,
               Recv(t, c) \/ NextToken(t, c) \/ Parse(t, c) \/ Send(t, c) \/ SendAgain(t, c)
                 \/ Resume(t, c) \/ (Scan(t, c) /\ ~Points(position[c]))
        PROVE  UNCHANGED kvlist
    BY <2>7 DEF Recv, NextToken, Parse, Send, SendAgain, Resume, Scan
  <2> QED  BY <1>9, <2>2, <2>4, <2>5, <2>6, <2>7 DEF Next, Handle
<1>10. CASE Next
  <2>1. \A d \in Conns : Progress(d)'
    BY <1>10, <1>1, <1>2, <1>3, <1>4, <1>5, <1>6, <1>7 DEF Next, Handle
  <2>2. KvlistFits'
    BY <1>9, <1>10
  <2> QED  BY <1>0, <2>1, <2>2 DEF OwnInv
<1> QED  BY <1>8, <1>10

(* On a server of one thread whose clients end each request with a zero    *)
(* byte, what is executed for a client is the request it has sent.         *)
THEOREM OwnRequestCorrect == OneThread /\ Bare = {} /\ Spec => []OwnRequest
<1>1. OwnInv => OwnRequest
  BY DEF OwnInv, OwnRequest, Progress
<1> SUFFICES ASSUME OneThread, Bare = {} PROVE Spec => []OwnRequest
  OBVIOUS
<1> QED  BY OwnInit, OwnStep, <1>1, PTL DEF Spec

(* On such a server no request that kvlist has room for writes past it.    *)
THEOREM KvlistFitsCorrect == OneThread /\ Bare = {} /\ Spec => []KvlistFits
<1>1. OwnInv => KvlistFits
  BY DEF OwnInv
<1> SUFFICES ASSUME OneThread, Bare = {} PROVE Spec => []KvlistFits
  OBVIOUS
<1> QED  BY OwnInit, OwnStep, <1>1, PTL DEF Spec
=============================================================================
