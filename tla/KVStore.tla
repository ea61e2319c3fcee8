------------------------------- MODULE KVStore -------------------------------
(***************************************************************************)
(* KVS::kvstore_parser_protocol (src/KVserver): one connection's commands  *)
(* on the skip list it owns.  Every command searches first and then calls  *)
(* the list again; the connection is the only user of its list, so nothing *)
(* comes between the two.  wbuf is the reply that is sent.                 *)
(***************************************************************************)
EXTENDS SkipList

VARIABLES
  list,    \* Socket::skipptr
  kvlist,  \* Socket::kvlist, the tokens of the request
  wbuf     \* Socket::wbuf, as the client reads it

vars == <<list, kvlist, wbuf>>

Map == INSTANCE KVMap WITH map <- Contents(list), request <- kvlist, reply <- wbuf

Tokens(cmd, k, v) == kvlist' = Map!Ask(cmd, k, v)
Answer(t)         == wbuf' = Map!Says(t)
Insert(L, k, v)   == \E n \in Addrs \ Live(L), lv \in RandomLevels :
                       list' = InsertElement(L, k, v, n, lv)

Init == list = NewList /\ kvlist = Map!Ask("none", 0, NoValue) /\ wbuf = Map!Says("")

-----------------------------------------------------------------------------
(* Defective variant of Modify, for mutation checks only: the old element  *)
(* stays, and insert_element refuses its key.                              *)
ModifyKeep(k, v) ==
  /\ Tokens("SKMOD", k, v)
  /\ IF Found(list, k)
       THEN list' = InsertElement(list, k, v, Header, 1) /\ Answer("")
       ELSE list' = list /\ Answer("Not Found")

-----------------------------------------------------------------------------
Set(k, v) ==
  /\ Tokens("SKSET", k, v)
  /\ IF Found(list, k)
       THEN list' = list /\ Answer("EXIST")
       ELSE Insert(list, k, v) /\ Answer("SUCCESS")

Get(k) ==
  /\ Tokens("SKGET", k, NoValue)
  /\ list' = list
  /\ IF Found(list, k) THEN wbuf' = Map!Gives(Element(list, k)) ELSE Answer("Not Found")

Delete(k) ==
  /\ Tokens("SKDEL", k, NoValue)
  /\ IF Found(list, k)
       THEN list' = DeleteElement(list, k) /\ Answer("")
       ELSE list' = list /\ Answer("Not Found")

(* SKMOD deletes the element and inserts it again: the new node has a new  *)
(* level and may get the freed address.                                    *)
Modify(k, v) ==
  /\ Tokens("SKMOD", k, v)
  /\ IF Found(list, k)
       THEN Insert(DeleteElement(list, k), k, v) /\ Answer("")
       ELSE list' = list /\ Answer("Not Found")

Count ==
  /\ Tokens("SKCOUNT", 0, NoValue)
  /\ list' = list /\ wbuf' = Map!Tells(list.count)

Unknown ==
  /\ Tokens("other", 0, NoValue)
  /\ list' = list /\ Answer("Wrong Operation")

Next == \/ \E k \in Keys, v \in Values : Set(k, v) \/ Modify(k, v)
        \/ \E k \in Keys : Get(k) \/ Delete(k)
        \/ Count \/ Unknown

Spec == Init /\ [][Next]_vars

-----------------------------------------------------------------------------
TypeOK == list \in SkipLists

(* Whatever levels are drawn, every level is the ordered chain of the      *)
(* nodes that reach it: a descent that starts high misses no key, and no   *)
(* pointer is left to a node that delete_element has freed.                *)
ListLinked == Linked(list)

(* skip_list_level is the highest level in use after every insertion and   *)
(* deletion: a higher one costs empty descents, a lower one hides nodes.   *)
ListTrimmed == Trimmed(list)

(* The skip list cannot be told from a dictionary: each command changes it *)
(* and answers as KVMap says.                                              *)
MapSpec == Map!Spec
=============================================================================
