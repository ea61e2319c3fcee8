------------------------------ MODULE SkipList ------------------------------
(***************************************************************************)
(* The skip list of src/skiplist/skiplist.h, as operators on a record.     *)
(* Nodes are addresses that are allocated and freed; Header is the node    *)
(* the constructor makes.  A list L has                                    *)
(*   L.level   skip_list_level                                             *)
(*   L.count   element_count                                               *)
(*   L.key, L.value, L.top   the key, value and node_level of each node,   *)
(*             NoKey for an address that is not allocated                  *)
(*   L.next    the forward pointers of each node, Null beyond its level    *)
(* insert_element and delete_element hold the mutex of the list from start *)
(* to end, so each is one operator.                                        *)
(***************************************************************************)
EXTENDS Integers, FiniteSets

CONSTANTS
  Keys,      \* ordered as std::string is: any set of positive integers
  Values,
  Addrs,     \* addresses of nodes
  Header,    \* the address of the header
  Null,
  NoValue,   \* the value of an address that is not allocated
  MaxLevel   \* the argument of the constructor

ASSUME KeysAssumption  == Keys \subseteq Nat \ {0}
ASSUME LevelAssumption == MaxLevel \in Nat \ {0}
ASSUME AddrAssumption  == Header \notin Addrs /\ Null \notin Addrs \cup {Header}
ASSUME ValueAssumption == NoValue \notin Values

NoKey  == 0
Nodes  == Addrs \cup {Header}
Levels == 0 .. MaxLevel

SkipLists ==
  [level : Levels, count : Int,
   key : [Addrs -> Keys \cup {NoKey}], value : [Addrs -> Values \cup {NoValue}],
   top : [Addrs -> Levels], next : [Nodes -> [Levels -> Addrs \cup {Null}]]]

NewList ==
  [level |-> 0, count |-> 0,
   key |-> [a \in Addrs |-> NoKey], value |-> [a \in Addrs |-> NoValue],
   top |-> [a \in Addrs |-> 0], next |-> [a \in Nodes |-> [i \in Levels |-> Null]]]

Live(L) == {a \in Addrs : L.key[a] # NoKey}

-----------------------------------------------------------------------------
(* The descent all operations begin with: on each level, from the top one  *)
(* down, go forward while the next key is smaller than k.  update[i] is    *)
(* where level i was left.                                                 *)
Walk(L, k, i, from) ==
  LET last[a \in Nodes] ==
        LET b == L.next[a][i]
        IN  IF b # Null /\ L.key[b] < k THEN last[b] ELSE a
  IN  last[from]

Update(L, k) ==
  LET update[i \in 0 .. L.level] ==
        Walk(L, k, i, IF i = L.level THEN Header ELSE update[i + 1])
  IN  update

Candidate(L, k) == L.next[Update(L, k)[0]][0]

(* search_element and get_element                                          *)
Found(L, k)   == Candidate(L, k) # Null /\ L.key[Candidate(L, k)] = k
Element(L, k) == L.value[Candidate(L, k)]

-----------------------------------------------------------------------------
(* Defective variants of definitions below, for mutation checks only.      *)

(* get_random_level does not stop at max_level                             *)
RandomLevelsUncapped == 1 .. MaxLevel + 1

(* the node is not linked on its highest level                             *)
LinkBelow(L, k, n, lv) ==
  LET Pred(i) == IF i <= L.level THEN Update(L, k)[i] ELSE Header
  IN  [a \in Nodes |-> [i \in Levels |->
         IF i >= lv THEN L.next[a][i]
         ELSE IF a = n THEN L.next[Pred(i)][i]
         ELSE IF a = Pred(i) THEN n ELSE L.next[a][i]]]

(* the node is unlinked from the lowest level only                         *)
UnlinkLowest(L, n, update) ==
  [L.next EXCEPT ![update[0]][0] = L.next[n][0], ![n] = [i \in Levels |-> Null]]

(* the list level is not lowered                                           *)
KeepLevel(L, next) == L.level

-----------------------------------------------------------------------------
(* insert_element(k, v) with the new node n and lv from get_random_level.  *)
(* The header precedes it on the levels the list did not have.             *)
RandomLevels == 1 .. MaxLevel

Link(L, k, n, lv) ==
  LET Pred(i) == IF i <= L.level THEN Update(L, k)[i] ELSE Header
  IN  [a \in Nodes |-> [i \in Levels |->
         IF i > lv THEN L.next[a][i]
         ELSE IF a = n THEN L.next[Pred(i)][i]
         ELSE IF a = Pred(i) THEN n ELSE L.next[a][i]]]

InsertElement(L, k, v, n, lv) ==
  IF Found(L, k) THEN L ELSE
  [level |-> IF lv > L.level THEN lv ELSE L.level, count |-> L.count + 1,
   key |-> [L.key EXCEPT ![n] = k], value |-> [L.value EXCEPT ![n] = v],
   top |-> [L.top EXCEPT ![n] = lv], next |-> Link(L, k, n, lv)]

(* delete_element: the node is unlinked level by level until one is not    *)
(* its; then the empty levels at the top go.                               *)
Unlink(L, n, update) ==
  LET linked(i) == \A h \in 0 .. i : L.next[update[h]][h] = n
  IN  [a \in Nodes |-> [i \in Levels |->
         IF a = n THEN Null
         ELSE IF i <= L.level /\ a = update[i] /\ linked(i) THEN L.next[n][i]
         ELSE L.next[a][i]]]

Lowered(L, next) ==
  CHOOSE j \in 0 .. L.level :
    /\ j = 0 \/ next[Header][j] # Null
    /\ \A i \in j + 1 .. L.level : next[Header][i] = Null

DeleteElement(L, k) ==
  IF ~Found(L, k) THEN L ELSE
  LET n    == Candidate(L, k)
      next == Unlink(L, n, Update(L, k))
  IN  [level |-> Lowered(L, next), count |-> L.count - 1,
       key |-> [L.key EXCEPT ![n] = NoKey], value |-> [L.value EXCEPT ![n] = NoValue],
       top |-> [L.top EXCEPT ![n] = 0], next |-> next]

-----------------------------------------------------------------------------
(* What the structure promises.  Linked: on every level each node points   *)
(* to the next larger key of that level, so level i holds exactly the      *)
(* nodes as high as i, in order, and no pointer leads to freed memory.     *)
OnLevel(L, i)    == {a \in Live(L) : L.top[a] >= i}
KeyOf(L, a)      == IF a = Header THEN NoKey ELSE L.key[a]
IsNext(L, a, i, b) ==
  LET later == {c \in OnLevel(L, i) : L.key[c] > KeyOf(L, a)}
  IN  IF later = {} THEN b = Null
      ELSE b \in later /\ \A c \in later \ {b} : L.key[b] < L.key[c]

Linked(L)  == \A i \in Levels : \A a \in OnLevel(L, i) \cup {Header} :
                IsNext(L, a, i, L.next[a][i])
Trimmed(L) == /\ \A i \in Levels : i > L.level => OnLevel(L, i) = {}
              /\ L.level > 0 => OnLevel(L, L.level) # {}
Counted(L) == L.count = Cardinality(Live(L))

(* The dictionary a list stands for.                                       *)
Contents(L) ==
  [k \in Keys |-> IF \E a \in Live(L) : L.key[a] = k
                    THEN L.value[CHOOSE a \in Live(L) : L.key[a] = k] ELSE NoValue]
=============================================================================
