---------------------------- MODULE KVStoreProofs ----------------------------
(***************************************************************************)
(* Proofs about SkipList and KVStore for any keys, values, addresses and   *)
(* number of levels: the list keeps its structure, and KVStore implements  *)
(* the dictionary KVMap.                                                   *)
(*                                                                         *)
(* The descents Walk and Update are recursive functions.  What they        *)
(* compute is described without recursion by IsLast: the last node of a    *)
(* level before a key.  The proof that they compute it looks at the        *)
(* largest key, or highest level, at which they would not.                 *)
(***************************************************************************)
EXTENDS KVStore, TLAPS, FiniteSetTheorems

-----------------------------------------------------------------------------
(* The structure every operation finds and leaves.                         *)

(* the nodes of a level, with the header                                   *)
Chain(L, i) == OnLevel(L, i) \cup {Header}

KeysDiffer(L) == \A a, b \in Live(L) : L.key[a] = L.key[b] => a = b
HasValues(L)  == \A a \in Live(L) : L.value[a] \in Values

(* a node that is not on a level, or not allocated, has no pointer there   *)
Cleared(L) == \A i \in Levels : \A a \in Addrs \ OnLevel(L, i) : L.next[a][i] = Null

WellFormed(L) ==
  /\ L \in SkipLists /\ KeysDiffer(L) /\ HasValues(L) /\ Cleared(L)
  /\ Linked(L) /\ Trimmed(L)
  /\ IsFiniteSet(Live(L)) /\ Counted(L)

(* p is the last node of level i before the key k.                         *)
IsLast(L, k, i, p) ==
  /\ p \in Chain(L, i) /\ KeyOf(L, p) < k
  /\ \A c \in OnLevel(L, i) : L.key[c] < k => L.key[c] <= KeyOf(L, p)

-----------------------------------------------------------------------------
(* A non-empty set of naturals has a least member.                         *)
LEMMA LeastExists ==
  ASSUME NEW S \in SUBSET Nat, S # {}
  PROVE  \E d \in S : \A e \in S : d <= e
<1> DEFINE R == {p \in Nat \X Nat : p[1] < p[2]}
<1>1. IsWellFoundedOn(R, Nat)
  BY NatLessThanWellFounded DEF OpToRel
<1>2. \A x, y \in Nat : x < y => <<x, y>> \in R
  OBVIOUS
<1> HIDE DEF R
<1>3. \E x \in S : \A y \in S : ~ (<<y, x>> \in R)
  BY <1>1, WFMin
<1>4. \A x, y \in Nat : ~ (y < x) => x <= y
  OBVIOUS
<1> QED  BY <1>2, <1>3, <1>4

(* One that is bounded has a greatest.                                     *)
LEMMA GreatestExists ==
  ASSUME NEW S \in SUBSET Nat, S # {}, NEW k \in Nat, \A s \in S : s <= k
  PROVE  \E m \in S : \A s \in S : s <= m
<1> DEFINE T == {k - s : s \in S}
<1>1. T \in SUBSET Nat /\ T # {}
  <2>1. \A s \in S : k - s \in Nat
    OBVIOUS
  <2> QED  BY <2>1
<1>2. PICK d \in T : \A e \in T : d <= e
  <2> HIDE DEF T
  <2> QED  BY <1>1, LeastExists
<1>3. PICK m \in S : d = k - m
  OBVIOUS
<1>4. ASSUME NEW s \in S PROVE s <= m
  <2>1. k - m <= k - s
    BY <1>2, <1>3
  <2> QED  BY <2>1
<1> QED  BY <1>4

-----------------------------------------------------------------------------
(* The types of a list and its nodes.                                      *)

LEMMA ListTypes ==
  ASSUME NEW L, WellFormed(L)
  PROVE  /\ MaxLevel \in Nat /\ L.level \in Levels /\ L.count \in Int
         /\ L.key \in [Addrs -> Keys \cup {NoKey}] /\ L.value \in [Addrs -> Values \cup {NoValue}]
         /\ L.top \in [Addrs -> Levels] /\ L.next \in [Nodes -> [Levels -> Addrs \cup {Null}]]
         /\ \A a \in Addrs : L.key[a] \in Nat /\ L.top[a] \in Nat
<1>1. MaxLevel \in Nat /\ Levels \subseteq Nat /\ Keys \cup {NoKey} \subseteq Nat
  BY KeysAssumption, LevelAssumption DEF Levels, NoKey
<1>2. /\ L.level \in Levels /\ L.count \in Int
      /\ L.key \in [Addrs -> Keys \cup {NoKey}] /\ L.value \in [Addrs -> Values \cup {NoValue}]
      /\ L.top \in [Addrs -> Levels] /\ L.next \in [Nodes -> [Levels -> Addrs \cup {Null}]]
  BY DEF WellFormed, SkipLists
<1> QED  BY <1>1, <1>2

LEMMA NodeFacts ==
  ASSUME NEW L, WellFormed(L), NEW i \in Levels
  PROVE  /\ \A a \in Chain(L, i) : a \in Nodes /\ a # Null /\ KeyOf(L, a) \in Nat
         /\ \A c \in OnLevel(L, i) :
              /\ c \in Addrs /\ c \in Live(L) /\ c \in Chain(L, i) /\ c # Header /\ c # Null
              /\ KeyOf(L, c) = L.key[c] /\ L.key[c] \in Keys /\ L.key[c] \in Nat \ {0}
         /\ Header \in Chain(L, i) /\ KeyOf(L, Header) = 0
         /\ \A a, b \in Chain(L, i) : KeyOf(L, a) = KeyOf(L, b) => a = b
<1>1. \A c \in OnLevel(L, i) :
        /\ c \in Addrs /\ c \in Live(L) /\ c \in Chain(L, i) /\ c # Header /\ c # Null
        /\ KeyOf(L, c) = L.key[c] /\ L.key[c] \in Keys /\ L.key[c] \in Nat \ {0}
  BY ListTypes, KeysAssumption, AddrAssumption DEF OnLevel, Live, Chain, KeyOf, NoKey
<1>2. Header \in Chain(L, i) /\ KeyOf(L, Header) = 0 /\ Header # Null /\ Header \in Nodes
  BY AddrAssumption DEF Chain, KeyOf, NoKey, Nodes
<1>3. \A a, b \in OnLevel(L, i) : L.key[a] = L.key[b] => a = b
  BY <1>1 DEF WellFormed, KeysDiffer
<1> QED  BY <1>1, <1>2, <1>3 DEF Chain, Nodes

(* The next node of a level.                                               *)
LEMMA NextFacts ==
  ASSUME NEW L, WellFormed(L), NEW i \in Levels, NEW a \in Chain(L, i)
  PROVE  LET b == L.next[a][i]
         IN  /\ b # Null => b \in OnLevel(L, i) /\ L.key[b] > KeyOf(L, a)
             /\ \A c \in OnLevel(L, i) : L.key[c] > KeyOf(L, a) =>
                  b # Null /\ L.key[b] <= L.key[c] /\ (c = b \/ L.key[b] < L.key[c])
<1> DEFINE b == L.next[a][i]
           later == {c \in OnLevel(L, i) : L.key[c] > KeyOf(L, a)}
<1>1. IF later = {} THEN b = Null
      ELSE b \in later /\ \A c \in later \ {b} : L.key[b] < L.key[c]
  BY DEF WellFormed, Linked, IsNext, Chain
<1>2. \A c \in later : L.key[c] \in Nat /\ c # Null
  BY NodeFacts
<1> HIDE DEF b
<1>3. ASSUME NEW c \in later
      PROVE  b # Null /\ L.key[b] <= L.key[c] /\ (c = b \/ L.key[b] < L.key[c])
  BY <1>1, <1>2
<1>4. b # Null => b \in later
  BY <1>1
<1> QED  BY <1>3, <1>4 DEF b

LEMMA NextIntro ==
  ASSUME NEW L, NEW i, NEW a, NEW b,
         b # Null => b \in OnLevel(L, i) /\ L.key[b] > KeyOf(L, a),
         \A c \in OnLevel(L, i) :
           L.key[c] > KeyOf(L, a) => b # Null /\ (c = b \/ L.key[b] < L.key[c])
  PROVE  IsNext(L, a, i, b)
BY DEF IsNext

-----------------------------------------------------------------------------
(* The descent.                                                            *)

LEMMA LastExists ==
  ASSUME NEW L, WellFormed(L), NEW k \in Keys, NEW i \in Levels
  PROVE  \E p : IsLast(L, k, i, p)
<1> DEFINE before == {a \in Chain(L, i) : KeyOf(L, a) < k}
           S == {KeyOf(L, a) : a \in before}
<1>1. k \in Nat /\ k > 0
  BY KeysAssumption
<1>2. S \in SUBSET Nat /\ S # {} /\ \A s \in S : s <= k
  BY <1>1, NodeFacts
<1>3. PICK m \in S : \A s \in S : s <= m
  <2> HIDE DEF S
  <2> QED  BY <1>1, <1>2, GreatestExists
<1>4. PICK p \in before : m = KeyOf(L, p)
  OBVIOUS
<1>5. ASSUME NEW c \in OnLevel(L, i), L.key[c] < k PROVE L.key[c] <= KeyOf(L, p)
  BY <1>3, <1>4, <1>5, NodeFacts
<1> QED  BY <1>4, <1>5 DEF IsLast

LEMMA LastUnique ==
  ASSUME NEW L, WellFormed(L), NEW k \in Keys, NEW i \in Levels,
         NEW p, IsLast(L, k, i, p), NEW q, IsLast(L, k, i, q)
  PROVE  p = q
<1>1. k \in Nat /\ p \in Chain(L, i) /\ q \in Chain(L, i) /\ KeyOf(L, p) < k /\ KeyOf(L, q) < k
  BY KeysAssumption DEF IsLast
<1>2. KeyOf(L, p) \in Nat /\ KeyOf(L, q) \in Nat
  BY <1>1, NodeFacts
<1>3. KeyOf(L, p) <= KeyOf(L, q)
  BY <1>1, <1>2, NodeFacts DEF IsLast, Chain
<1>4. KeyOf(L, q) <= KeyOf(L, p)
  BY <1>1, <1>2, NodeFacts DEF IsLast, Chain
<1>5. KeyOf(L, p) = KeyOf(L, q)
  BY <1>2, <1>3, <1>4
<1> QED  BY <1>1, <1>5, NodeFacts

(* One step forward from a node before k.                                  *)
LEMMA Forward ==
  ASSUME NEW L, WellFormed(L), NEW k \in Keys, NEW i \in Levels,
         NEW a \in Chain(L, i), KeyOf(L, a) < k
  PROVE  LET b == L.next[a][i]
         IN  IF b # Null /\ L.key[b] < k
               THEN b \in Chain(L, i) /\ KeyOf(L, b) = L.key[b] /\ KeyOf(L, a) < KeyOf(L, b)
               ELSE IsLast(L, k, i, a)
<1> DEFINE b == L.next[a][i]
<1>1. k \in Nat /\ KeyOf(L, a) \in Nat
  BY KeysAssumption, NodeFacts
<1>2. b # Null => b \in OnLevel(L, i) /\ L.key[b] > KeyOf(L, a)
  BY NextFacts
<1>3. \A c \in OnLevel(L, i) : L.key[c] > KeyOf(L, a) => b # Null /\ L.key[b] <= L.key[c]
  BY NextFacts
<1> HIDE DEF b
<1>4. CASE b # Null /\ L.key[b] < k
  BY <1>1, <1>2, <1>4, NodeFacts DEF b
<1>5. CASE ~ (b # Null /\ L.key[b] < k)
  <2>1. ASSUME NEW c \in OnLevel(L, i), L.key[c] < k PROVE L.key[c] <= KeyOf(L, a)
    <3>1. L.key[c] \in Nat
      BY NodeFacts
    <3>2. CASE L.key[c] > KeyOf(L, a)
      <4>1. b # Null /\ L.key[b] <= L.key[c]
        BY <1>3, <3>2
      <4>2. L.key[b] \in Nat
        BY <1>2, <4>1, NodeFacts
      <4> QED  BY <1>1, <1>5, <2>1, <3>1, <4>1, <4>2
    <3> QED  BY <1>1, <3>1, <3>2
  <2> QED  BY <1>5, <2>1 DEF IsLast, b
<1> QED  BY <1>4, <1>5 DEF b

(* Walk ends at the last node before the key, wherever before it starts.   *)
LEMMA WalkFindsLast ==
  ASSUME NEW L, WellFormed(L), NEW k \in Keys, NEW i \in Levels,
         NEW from \in Chain(L, i), KeyOf(L, from) < k
  PROVE  IsLast(L, k, i, Walk(L, k, i, from))
<1>1. PICK p : IsLast(L, k, i, p)
  BY LastExists
<1> DEFINE after(a) == L.next[a][i] # Null /\ L.key[L.next[a][i]] < k
           g == [a \in Nodes |-> IF a \in Chain(L, i) /\ KeyOf(L, a) < k THEN p ELSE a]
<1>2. g = [a \in Nodes |-> IF after(a) THEN g[L.next[a][i]] ELSE a]
  <2> SUFFICES ASSUME NEW a \in Nodes
               PROVE  g[a] = IF after(a) THEN g[L.next[a][i]] ELSE a
    OBVIOUS
  <2>1. CASE a \in Chain(L, i) /\ KeyOf(L, a) < k
    <3>1. g[a] = p
      BY <2>1
    <3>2. CASE after(a)
      <4>1. L.next[a][i] \in Chain(L, i) /\ KeyOf(L, L.next[a][i]) < k
        BY <2>1, <3>2, Forward
      <4>2. L.next[a][i] \in Nodes
        BY <4>1, NodeFacts
      <4> QED  BY <3>1, <3>2, <4>1, <4>2
    <3>3. CASE ~ after(a)
      <4>1. IsLast(L, k, i, a)
        BY <2>1, <3>3, Forward
      <4>2. a = p
        BY <1>1, <4>1, LastUnique
      <4> QED  BY <3>1, <3>3, <4>2
    <3> QED  BY <3>2, <3>3
  <2>2. CASE a \in Chain(L, i) /\ ~ (KeyOf(L, a) < k)
    <3>1. ~ after(a)
      <4>1. KeyOf(L, a) \in Nat /\ k \in Nat
        BY <2>2, NodeFacts, KeysAssumption
      <4>2. L.next[a][i] # Null => /\ L.next[a][i] \in OnLevel(L, i)
                                   /\ L.key[L.next[a][i]] > KeyOf(L, a)
        BY <2>2, NextFacts
      <4>3. L.next[a][i] # Null => L.key[L.next[a][i]] \in Nat
        BY <4>2, NodeFacts
      <4> QED  BY <2>2, <4>1, <4>2, <4>3
    <3> QED  BY <2>2, <3>1
  <2>3. CASE a \notin Chain(L, i)
    <3>1. L.next[a][i] = Null
      BY <2>3 DEF Chain, Nodes, WellFormed, Cleared
    <3> QED  BY <2>3, <3>1
  <2> QED  BY <2>1, <2>2, <2>3
<1>3. \E f : f = [a \in Nodes |-> IF after(a) THEN f[L.next[a][i]] ELSE a]
  <2> HIDE DEF g
  <2> QED  BY <1>2
<1>4. PICK last : /\ last = [a \in Nodes |-> IF after(a) THEN last[L.next[a][i]] ELSE a]
                  /\ Walk(L, k, i, from) = last[from]
  <2> DEFINE last == CHOOSE f : f = [a \in Nodes |-> IF after(a) THEN f[L.next[a][i]] ELSE a]
  <2>1. Walk(L, k, i, from) = last[from]
    BY DEF Walk
  <2>2. last = [a \in Nodes |-> IF after(a) THEN last[L.next[a][i]] ELSE a]
    BY <1>3
  <2> HIDE DEF last
  <2> QED  BY <2>1, <2>2
<1>5. \A a \in Nodes : last[a] = IF after(a) THEN last[L.next[a][i]] ELSE a
  BY <1>4
<1> DEFINE bad == {a \in Chain(L, i) : KeyOf(L, a) < k /\ last[a] # p}
           S == {KeyOf(L, a) : a \in bad}
<1>6. ASSUME bad # {} PROVE FALSE
  <2>1. k \in Nat /\ S \in SUBSET Nat /\ S # {} /\ \A s \in S : s <= k
    BY <1>6, NodeFacts, KeysAssumption
  <2>2. PICK m \in S : \A s \in S : s <= m
    <3> HIDE DEF S
    <3> QED  BY <2>1, GreatestExists
  <2>3. PICK a \in bad : m = KeyOf(L, a)
    OBVIOUS
  <2>4. a \in Chain(L, i) /\ KeyOf(L, a) < k /\ last[a] # p /\ a \in Nodes /\ KeyOf(L, a) \in Nat
    BY <2>3, NodeFacts
  <2>5. CASE after(a)
    <3> DEFINE b == L.next[a][i]
    <3>1. b \in Chain(L, i) /\ KeyOf(L, b) < k /\ KeyOf(L, a) < KeyOf(L, b)
      BY <2>4, <2>5, Forward
    <3>2. KeyOf(L, b) \in Nat /\ last[b] = last[a]
      BY <1>5, <2>4, <2>5, <3>1, NodeFacts
    <3> HIDE DEF b
    <3>3. b \in bad
      BY <2>4, <3>1, <3>2
    <3>4. KeyOf(L, b) <= KeyOf(L, a)
      BY <2>2, <2>3, <3>3
    <3> QED  BY <2>4, <3>1, <3>2, <3>4
  <2>6. CASE ~ after(a)
    <3>1. IsLast(L, k, i, a)
      BY <2>4, <2>6, Forward
    <3>2. a = p
      BY <1>1, <3>1, LastUnique
    <3> QED  BY <1>5, <2>4, <2>6, <3>2
  <2> QED  BY <2>5, <2>6
<1>7. last[from] = p
  BY <1>6
<1> QED  BY <1>1, <1>4, <1>7

(* Update finds the last node before the key on every level.               *)
LEMMA UpdateFindsLast ==
  ASSUME NEW L, WellFormed(L), NEW k \in Keys
  PROVE  \A i \in 0 .. L.level : IsLast(L, k, i, Update(L, k)[i])
<1> DEFINE I == 0 .. L.level
           start(u, i) == IF i = L.level THEN Header ELSE u[i + 1]
           g == [i \in I |-> CHOOSE p : IsLast(L, k, i, p)]
<1>1. L.level \in Nat /\ I \subseteq Levels /\ I \subseteq Nat /\ L.level \in I
  BY ListTypes DEF Levels
<1>2. \A i \in I : IsLast(L, k, i, g[i])
  BY <1>1, LastExists
<1> HIDE DEF g
(* the walk on a level begins before the key                               *)
<1>3. ASSUME NEW i \in I, NEW u, i # L.level => IsLast(L, k, i + 1, u[i + 1])
      PROVE  IsLast(L, k, i, Walk(L, k, i, start(u, i)))
  <2>1. i \in Levels /\ i \in Nat /\ k \in Nat \ {0}
    BY <1>1, KeysAssumption
  <2>2. start(u, i) \in Chain(L, i) /\ KeyOf(L, start(u, i)) < k
    <3>1. CASE i = L.level
      BY <2>1, <3>1, NodeFacts
    <3>2. CASE i # L.level
      <4>1. u[i + 1] \in Chain(L, i + 1) /\ KeyOf(L, u[i + 1]) < k
        BY <1>3, <3>2 DEF IsLast
      <4>2. OnLevel(L, i + 1) \subseteq OnLevel(L, i)
        BY <2>1, ListTypes DEF OnLevel, Live
      <4> QED  BY <3>2, <4>1, <4>2 DEF Chain
    <3> QED  BY <3>1, <3>2
  <2> HIDE DEF start
  <2> QED  BY <2>1, <2>2, WalkFindsLast
<1>4. g = [i \in I |-> Walk(L, k, i, start(g, i))]
  <2>1. ASSUME NEW i \in I PROVE g[i] = Walk(L, k, i, start(g, i))
    <3>1. i # L.level => i + 1 \in I
      BY <1>1
    <3>2. IsLast(L, k, i, Walk(L, k, i, start(g, i)))
      BY <1>2, <1>3, <3>1
    <3> HIDE DEF start
    <3> QED  BY <1>1, <1>2, <3>2, LastUnique
  <2>2. g = [i \in I |-> g[i]]
    BY DEF g
  <2> QED  BY <2>1, <2>2
<1>5. PICK update : /\ update = [i \in I |-> Walk(L, k, i, start(update, i))]
                    /\ Update(L, k) = update
  <2> DEFINE update == CHOOSE u : u = [i \in I |-> Walk(L, k, i, start(u, i))]
  <2>1. Update(L, k) = update
    BY DEF Update
  <2>2. update = [i \in I |-> Walk(L, k, i, start(update, i))]
    BY <1>4
  <2> HIDE DEF update
  <2> QED  BY <2>1, <2>2
<1>6. \A i \in I : update[i] = Walk(L, k, i, start(update, i))
  BY <1>5
<1> DEFINE bad == {i \in I : ~ IsLast(L, k, i, update[i])}
<1>7. ASSUME bad # {} PROVE FALSE
  <2>1. bad \in SUBSET Nat /\ \A i \in bad : i <= L.level
    BY <1>1
  <2>2. PICK i \in bad : \A j \in bad : j <= i
    <3> HIDE DEF bad
    <3> QED  BY <1>1, <1>7, <2>1, GreatestExists
  <2>3. i # L.level => IsLast(L, k, i + 1, update[i + 1])
    <3>1. i # L.level => i + 1 \in I /\ ~ (i + 1 <= i)
      BY <1>1
    <3> QED  BY <2>2, <3>1
  <2>4. IsLast(L, k, i, update[i])
    BY <1>3, <1>6, <2>3
  <2> QED  BY <2>4
<1> QED  BY <1>5, <1>7

(* The predecessor of the key on any level; a level that the list does not *)
(* have is empty.                                                          *)
PredOf(L, k, i) == IF i <= L.level THEN Update(L, k)[i] ELSE Header

LEMMA PredIsLast ==
  ASSUME NEW L, WellFormed(L), NEW k \in Keys, NEW i \in Levels
  PROVE  IsLast(L, k, i, PredOf(L, k, i))
<1>1. L.level \in Nat /\ i \in Nat
  BY ListTypes DEF Levels
<1>2. CASE i <= L.level
  BY <1>1, <1>2, UpdateFindsLast DEF PredOf
<1>3. CASE ~ (i <= L.level)
  <2>1. OnLevel(L, i) = {}
    BY <1>1, <1>3 DEF WellFormed, Trimmed
  <2>2. k > 0 /\ Header \in Chain(L, i) /\ KeyOf(L, Header) = 0
    BY NodeFacts, KeysAssumption
  <2> QED  BY <1>3, <2>1, <2>2 DEF PredOf, IsLast
<1> QED  BY <1>2, <1>3

(* search_element finds a key exactly when a node has it.                  *)
LEMMA FoundFacts ==
  ASSUME NEW L, WellFormed(L), NEW k \in Keys
  PROVE  /\ Found(L, k) <=> \E a \in Live(L) : L.key[a] = k
         /\ Found(L, k) => Candidate(L, k) \in Live(L) /\ L.key[Candidate(L, k)] = k
<1> DEFINE p == Update(L, k)[0]
           b == L.next[p][0]
<1>1. 0 \in Levels /\ 0 \in 0 .. L.level /\ k \in Nat
  BY ListTypes, LevelAssumption, KeysAssumption DEF Levels
<1>2. IsLast(L, k, 0, p)
  BY <1>1, UpdateFindsLast
<1>3. OnLevel(L, 0) = Live(L)
  BY ListTypes DEF OnLevel, Live
<1> HIDE DEF p
<1>4. p \in Chain(L, 0) /\ KeyOf(L, p) < k /\ KeyOf(L, p) \in Nat
  BY <1>1, <1>2, NodeFacts DEF IsLast
<1>5. b # Null => b \in Live(L) /\ L.key[b] > KeyOf(L, p)
  BY <1>1, <1>3, <1>4, NextFacts
<1>6. \A c \in Live(L) : L.key[c] > KeyOf(L, p) => b # Null /\ L.key[b] <= L.key[c]
  BY <1>1, <1>3, <1>4, NextFacts
<1>7. Found(L, k) <=> b # Null /\ L.key[b] = k
  BY DEF Found, Candidate, p
<1>8. Candidate(L, k) = b
  BY DEF Candidate, p
<1> HIDE DEF b
<1>9. ASSUME NEW a \in Live(L), L.key[a] = k PROVE b # Null /\ L.key[b] = k
  <2>1. b # Null /\ L.key[b] <= k
    BY <1>4, <1>6, <1>9
  <2>2. b \in OnLevel(L, 0) /\ L.key[b] \in Nat /\ L.key[b] > KeyOf(L, p)
    BY <1>1, <1>3, <1>5, <2>1, NodeFacts
  <2>3. ~ (L.key[b] < k)
    BY <1>2, <1>4, <2>2 DEF IsLast
  <2> QED  BY <1>1, <2>1, <2>2, <2>3
<1> QED  BY <1>5, <1>7, <1>8, <1>9

-----------------------------------------------------------------------------
(* insert_element                                                          *)

(* M is what it makes of L for a key that L does not have.                 *)
Inserted(L, k, v, n, lv, M) ==
  /\ WellFormed(L) /\ k \in Keys /\ v \in Values /\ ~ Found(L, k)
  /\ n \in Addrs \ Live(L) /\ lv \in RandomLevels
  /\ M = InsertElement(L, k, v, n, lv)

InsertEffect(L, k, v, n, lv, M) ==
  /\ M.level = IF lv > L.level THEN lv ELSE L.level
  /\ M.count = L.count + 1
  /\ M.key = [L.key EXCEPT ![n] = k] /\ M.value = [L.value EXCEPT ![n] = v]
  /\ \A a \in Nodes, i \in Levels : M.next[a][i] =
       IF i > lv THEN L.next[a][i]
       ELSE IF a = n THEN L.next[PredOf(L, k, i)][i]
       ELSE IF a = PredOf(L, k, i) THEN n ELSE L.next[a][i]
  /\ M \in SkipLists
  /\ Live(M) = Live(L) \cup {n}
  /\ \A i \in Levels : OnLevel(M, i) = IF i <= lv THEN OnLevel(L, i) \cup {n} ELSE OnLevel(L, i)
  /\ \A a \in Nodes \ {n} : KeyOf(M, a) = KeyOf(L, a)
  /\ KeyOf(M, n) = k /\ M.key[n] = k
  /\ lv \in Levels \ {0} /\ n # Header /\ n # Null

LEMMA InsertFields ==
  ASSUME NEW L, NEW k, NEW v, NEW n, NEW lv, NEW M, Inserted(L, k, v, n, lv, M)
  PROVE  InsertEffect(L, k, v, n, lv, M)
<1> USE DEF Inserted
<1>1. M = [level |-> IF lv > L.level THEN lv ELSE L.level, count |-> L.count + 1,
           key |-> [L.key EXCEPT ![n] = k], value |-> [L.value EXCEPT ![n] = v],
           top |-> [L.top EXCEPT ![n] = lv], next |-> Link(L, k, n, lv)]
  BY DEF InsertElement
<1>2. /\ M.level = IF lv > L.level THEN lv ELSE L.level
      /\ M.count = L.count + 1
      /\ M.key = [L.key EXCEPT ![n] = k] /\ M.value = [L.value EXCEPT ![n] = v]
      /\ M.top = [L.top EXCEPT ![n] = lv] /\ M.next = Link(L, k, n, lv)
  BY <1>1
<1>3. /\ lv \in Levels \ {0} /\ lv \in Nat /\ Levels \subseteq Nat /\ n # Header /\ n # Null
      /\ L.top \in [Addrs -> Levels] /\ L.key \in [Addrs -> Keys \cup {NoKey}]
      /\ L.value \in [Addrs -> Values \cup {NoValue}] /\ L.count \in Int /\ L.level \in Levels
      /\ L.next \in [Nodes -> [Levels -> Addrs \cup {Null}]] /\ k # NoKey
  BY ListTypes, LevelAssumption, AddrAssumption, KeysAssumption DEF RandomLevels, Levels, NoKey
<1>4. M.next = [a \in Nodes |-> [i \in Levels |->
         IF i > lv THEN L.next[a][i]
         ELSE IF a = n THEN L.next[PredOf(L, k, i)][i]
         ELSE IF a = PredOf(L, k, i) THEN n ELSE L.next[a][i]]]
  BY <1>2 DEF Link, PredOf
<1>5. \A i \in Levels : PredOf(L, k, i) \in Nodes
  BY PredIsLast, NodeFacts DEF IsLast
<1>6. M.next \in [Nodes -> [Levels -> Addrs \cup {Null}]]
  <2>1. ASSUME NEW a \in Nodes, NEW i \in Levels
        PROVE  (IF i > lv THEN L.next[a][i]
                ELSE IF a = n THEN L.next[PredOf(L, k, i)][i]
                ELSE IF a = PredOf(L, k, i) THEN n ELSE L.next[a][i]) \in Addrs \cup {Null}
    BY <1>3, <1>5
  <2> QED  BY <1>4, <2>1
<1>7. M \in SkipLists
  <2>1. /\ M.level \in Levels /\ M.count \in Int /\ M.key \in [Addrs -> Keys \cup {NoKey}]
        /\ M.value \in [Addrs -> Values \cup {NoValue}] /\ M.top \in [Addrs -> Levels]
    BY <1>2, <1>3
  <2> QED  BY <1>1, <1>2, <1>6, <2>1 DEF SkipLists
<1>8. Live(M) = Live(L) \cup {n}
  BY <1>2, <1>3 DEF Live
<1>9. \A i \in Levels : OnLevel(M, i) = IF i <= lv THEN OnLevel(L, i) \cup {n} ELSE OnLevel(L, i)
  <2>1. \A a \in Addrs : M.top[a] = IF a = n THEN lv ELSE L.top[a]
    BY <1>2, <1>3
  <2>2. ASSUME NEW i \in Levels, NEW a \in Addrs
        PROVE  a \in OnLevel(M, i) <=> a \in OnLevel(L, i) \/ (a = n /\ i <= lv)
    BY <1>3, <1>8, <2>1 DEF OnLevel, Live
  <2>3. \A i \in Levels : OnLevel(M, i) \subseteq Addrs /\ OnLevel(L, i) \subseteq Addrs
    BY DEF OnLevel, Live
  <2> QED  BY <2>2, <2>3
<1>10. (\A a \in Nodes \ {n} : KeyOf(M, a) = KeyOf(L, a)) /\ KeyOf(M, n) = k /\ M.key[n] = k
  BY <1>2, <1>3 DEF KeyOf, Nodes
<1> QED  BY <1>2, <1>3, <1>4, <1>6, <1>7, <1>8, <1>9, <1>10 DEF InsertEffect

LEMMA InsertLinks ==
  ASSUME NEW L, NEW k, NEW v, NEW n, NEW lv, NEW M, Inserted(L, k, v, n, lv, M)
  PROVE  Linked(M)
<1>0. WellFormed(L) /\ k \in Keys /\ ~ Found(L, k) /\ n \in Addrs \ Live(L) /\ lv \in RandomLevels
  BY DEF Inserted
<1>1. /\ M.key = [L.key EXCEPT ![n] = k]
      /\ \A a \in Nodes, i \in Levels : M.next[a][i] =
           IF i > lv THEN L.next[a][i]
           ELSE IF a = n THEN L.next[PredOf(L, k, i)][i]
           ELSE IF a = PredOf(L, k, i) THEN n ELSE L.next[a][i]
      /\ \A i \in Levels : OnLevel(M, i) = IF i <= lv THEN OnLevel(L, i) \cup {n} ELSE OnLevel(L, i)
      /\ \A a \in Nodes \ {n} : KeyOf(M, a) = KeyOf(L, a)
      /\ KeyOf(M, n) = k /\ M.key[n] = k
      /\ lv \in Levels \ {0} /\ n # Header /\ n # Null
  <2>1. InsertEffect(L, k, v, n, lv, M)
    BY InsertFields
  <2> QED  BY <2>1 DEF InsertEffect
<1>2. k \in Nat /\ lv \in Nat /\ Levels \subseteq Nat /\ L.key \in [Addrs -> Keys \cup {NoKey}]
  BY <1>0, <1>1, ListTypes, KeysAssumption DEF Levels
<1>3. \A c \in Addrs \ {n} : M.key[c] = L.key[c]
  BY <1>1, <1>2
<1> SUFFICES ASSUME NEW i \in Levels, NEW a \in OnLevel(M, i) \cup {Header}
             PROVE  IsNext(M, a, i, M.next[a][i])
  BY DEF Linked
<1> DEFINE p == PredOf(L, k, i)
           b == M.next[a][i]
<1>4. IsLast(L, k, i, p) /\ p \in Chain(L, i) /\ KeyOf(L, p) \in Nat /\ KeyOf(L, p) < k /\ p # n
      /\ p \in Nodes
  <2>1. IsLast(L, k, i, p) /\ p \in Chain(L, i) /\ KeyOf(L, p) \in Nat /\ KeyOf(L, p) < k /\ p \in Nodes
    BY <1>0, PredIsLast, NodeFacts DEF IsLast
  <2>2. n \notin Chain(L, i)
    BY <1>0, <1>1, NodeFacts DEF Chain
  <2> QED  BY <2>1, <2>2
<1>5. \A c \in OnLevel(L, i) : /\ c \in Addrs /\ c # n /\ L.key[c] \in Nat /\ L.key[c] # k
                               /\ M.key[c] = L.key[c] /\ KeyOf(L, c) = L.key[c]
                               /\ (L.key[c] > KeyOf(L, p) => L.key[c] > k)
  <2>1. \A c \in OnLevel(L, i) : c \in Live(L) /\ c \in Addrs /\ L.key[c] \in Nat /\ KeyOf(L, c) = L.key[c]
    BY <1>0, NodeFacts
  <2>2. \A c \in OnLevel(L, i) : L.key[c] # k
    BY <1>0, <2>1, FoundFacts
  <2>3. ASSUME NEW c \in OnLevel(L, i), L.key[c] > KeyOf(L, p) PROVE L.key[c] > k
    <3>1. ~ (L.key[c] < k)
      BY <1>4, <2>1, <2>3 DEF IsLast
    <3> QED  BY <1>2, <2>1, <2>2, <3>1
  <2>4. n \notin OnLevel(L, i)
    BY <1>0, <2>1
  <2> QED  BY <1>3, <2>1, <2>2, <2>3, <2>4
<1>6. a # n => a \in Chain(L, i) /\ a \in Nodes /\ KeyOf(L, a) \in Nat /\ KeyOf(M, a) = KeyOf(L, a)
  <2>1. a # n => a \in Chain(L, i)
    BY <1>1 DEF Chain
  <2> QED  BY <1>0, <1>1, <2>1, NodeFacts
<1>7. a \in Nodes /\ M.next[a][i] =
           IF i > lv THEN L.next[a][i]
           ELSE IF a = n THEN L.next[p][i]
           ELSE IF a = p THEN n ELSE L.next[a][i]
  BY <1>0, <1>1, <1>6 DEF Nodes
<1> HIDE DEF p
<1>8. CASE a = n
  <2>1. i <= lv
    BY <1>1, <1>2, <1>5, <1>8
  <2>2. b = L.next[p][i]
    BY <1>2, <1>7, <1>8, <2>1
  <2> HIDE DEF b
  <2>3. b # Null => b \in OnLevel(L, i) /\ L.key[b] > KeyOf(L, p)
    BY <1>0, <1>4, <2>2, NextFacts
  <2>4. \A c \in OnLevel(L, i) : L.key[c] > KeyOf(L, p) => b # Null /\ (c = b \/ L.key[b] < L.key[c])
    BY <1>0, <1>4, <2>2, NextFacts
  <2>5. b # Null => b \in OnLevel(M, i) /\ M.key[b] > KeyOf(M, a)
    BY <1>1, <1>5, <1>8, <2>1, <2>3
  <2>6. ASSUME NEW c \in OnLevel(M, i), M.key[c] > KeyOf(M, a)
        PROVE  b # Null /\ (c = b \/ M.key[b] < M.key[c])
    <3>1. c # n
      BY <1>1, <1>2, <1>8, <2>6
    <3>2. c \in OnLevel(L, i) /\ L.key[c] > KeyOf(L, p)
      BY <1>1, <1>2, <1>4, <1>5, <1>8, <2>6, <3>1
    <3> QED  BY <1>5, <2>3, <2>4, <3>2
  <2> QED  BY <2>5, <2>6, NextIntro DEF b
<1>9. CASE a = p /\ i <= lv
  <2>1. b = n
    BY <1>2, <1>4, <1>7, <1>9
  <2> HIDE DEF b
  <2>2. b \in OnLevel(M, i) /\ M.key[b] > KeyOf(M, a)
    BY <1>1, <1>2, <1>4, <1>6, <1>9, <2>1
  <2>3. ASSUME NEW c \in OnLevel(M, i), M.key[c] > KeyOf(M, a)
        PROVE  c = b \/ M.key[b] < M.key[c]
    BY <1>1, <1>2, <1>4, <1>5, <1>6, <1>9, <2>1, <2>3
  <2> QED  BY <1>1, <2>1, <2>2, <2>3, NextIntro DEF b
<1>10. CASE a # n /\ ~ (a = p /\ i <= lv)
  <2>1. b = L.next[a][i]
    BY <1>2, <1>7, <1>10
  <2> HIDE DEF b
  <2>2. b # Null => b \in OnLevel(L, i) /\ L.key[b] > KeyOf(L, a)
    BY <1>0, <1>6, <1>10, <2>1, NextFacts
  <2>3. \A c \in OnLevel(L, i) : L.key[c] > KeyOf(L, a) =>
          b # Null /\ L.key[b] <= L.key[c] /\ (c = b \/ L.key[b] < L.key[c])
    BY <1>0, <1>6, <1>10, <2>1, NextFacts
  <2>4. b # Null => b \in OnLevel(M, i) /\ M.key[b] > KeyOf(M, a)
    BY <1>1, <1>5, <1>6, <1>10, <2>2
  <2>5. ASSUME NEW c \in OnLevel(M, i), M.key[c] > KeyOf(M, a)
        PROVE  b # Null /\ (c = b \/ M.key[b] < M.key[c])
    <3>1. CASE c # n
      <4>1. c \in OnLevel(L, i) /\ L.key[c] > KeyOf(L, a)
        BY <1>1, <1>5, <1>6, <1>10, <2>5, <3>1
      <4> QED  BY <1>5, <2>2, <2>3, <4>1
    <3>2. CASE c = n
      <4>1. i <= lv /\ a # p /\ k > KeyOf(L, a)
        BY <1>1, <1>2, <1>5, <1>6, <1>10, <2>5, <3>2
      <4>2. KeyOf(L, a) < KeyOf(L, p)
        <5>1. KeyOf(L, a) <= KeyOf(L, p)
          BY <1>0, <1>4, <1>5, <1>6, <1>10, <4>1, NodeFacts DEF IsLast, Chain
        <5>2. KeyOf(L, a) # KeyOf(L, p)
          BY <1>0, <1>4, <1>6, <1>10, <4>1, NodeFacts
        <5> QED  BY <1>4, <1>6, <1>10, <5>1, <5>2
      <4>3. p \in OnLevel(L, i) /\ L.key[p] = KeyOf(L, p)
        <5>1. p # Header
          BY <1>0, <1>4, <1>6, <1>10, <4>2, NodeFacts
        <5> QED  BY <1>4, <1>5, <5>1 DEF Chain
      <4>4. b # Null /\ L.key[b] <= L.key[p]
        BY <2>3, <4>2, <4>3
      <4>5. M.key[b] < k
        BY <1>2, <1>4, <1>5, <2>2, <4>3, <4>4
      <4> QED  BY <1>1, <3>2, <4>4, <4>5
    <3> QED  BY <3>1, <3>2
  <2> QED  BY <2>4, <2>5, NextIntro DEF b
<1> QED  BY <1>8, <1>9, <1>10

(* insert_element keeps the structure, whatever level is drawn.            *)
LEMMA InsertKeeps ==
  ASSUME NEW L, WellFormed(L), NEW k \in Keys, NEW v \in Values, ~ Found(L, k),
         NEW n \in Addrs \ Live(L), NEW lv \in RandomLevels
  PROVE  WellFormed(InsertElement(L, k, v, n, lv))
<1> DEFINE M == InsertElement(L, k, v, n, lv)
<1> HIDE DEF M
<1>1. /\ M.level = IF lv > L.level THEN lv ELSE L.level
      /\ M.count = L.count + 1
      /\ M.key = [L.key EXCEPT ![n] = k] /\ M.value = [L.value EXCEPT ![n] = v]
      /\ \A a \in Nodes, i \in Levels : M.next[a][i] =
           IF i > lv THEN L.next[a][i]
           ELSE IF a = n THEN L.next[PredOf(L, k, i)][i]
           ELSE IF a = PredOf(L, k, i) THEN n ELSE L.next[a][i]
      /\ M \in SkipLists
      /\ Live(M) = Live(L) \cup {n}
      /\ \A i \in Levels : OnLevel(M, i) = IF i <= lv THEN OnLevel(L, i) \cup {n} ELSE OnLevel(L, i)
      /\ M.key[n] = k
      /\ lv \in Levels \ {0} /\ n # Header /\ n # Null
  <2>1. Inserted(L, k, v, n, lv, M)
    BY DEF M, Inserted
  <2>2. InsertEffect(L, k, v, n, lv, M)
    BY <2>1, InsertFields
  <2> QED  BY <2>2 DEF InsertEffect
<1>2. /\ L.key \in [Addrs -> Keys \cup {NoKey}] /\ L.value \in [Addrs -> Values \cup {NoValue}]
      /\ Levels \subseteq Nat /\ L.level \in Levels /\ L.level \in Nat /\ lv \in Nat
  BY <1>1, ListTypes DEF Levels
<1>3. KeysDiffer(M)
  <2>1. \A a \in Live(L) : a \in Addrs \ {n} /\ M.key[a] = L.key[a] /\ L.key[a] # k
    BY <1>1, <1>2, FoundFacts DEF Live
  <2> QED  BY <1>1, <2>1 DEF KeysDiffer, WellFormed
<1>4. HasValues(M)
  <2>1. \A a \in Live(L) : a \in Addrs \ {n} /\ L.value[a] \in Values
    BY DEF Live, WellFormed, HasValues
  <2> QED  BY <1>1, <1>2, <2>1 DEF HasValues
<1>5. Cleared(M)
  <2> SUFFICES ASSUME NEW i \in Levels, NEW a \in Addrs \ OnLevel(M, i)
               PROVE  M.next[a][i] = Null
    BY DEF Cleared
  <2>1. a \notin OnLevel(L, i) /\ a \in Nodes
    BY <1>1 DEF Nodes
  <2>2. L.next[a][i] = Null
    BY <2>1 DEF WellFormed, Cleared
  <2>3. a # PredOf(L, k, i)
    BY <2>1, PredIsLast, AddrAssumption DEF IsLast, Chain
  <2>4. i <= lv => a # n
    BY <1>1
  <2> QED  BY <1>1, <1>2, <2>1, <2>2, <2>3, <2>4
<1>6. Linked(M)
  <2>1. Inserted(L, k, v, n, lv, M)
    BY DEF M, Inserted
  <2> QED  BY <2>1, InsertLinks
<1>7. Trimmed(M)
  <2>1. ASSUME NEW i \in Levels, i > M.level PROVE OnLevel(M, i) = {}
    <3>1. i > lv /\ i > L.level
      BY <1>1, <1>2, <2>1
    <3> QED  BY <1>1, <1>2, <3>1 DEF WellFormed, Trimmed
  <2>2. OnLevel(M, M.level) # {}
    <3>1. CASE lv > L.level
      BY <1>1, <1>2, <3>1
    <3>2. CASE ~ (lv > L.level)
      <4>1. M.level = L.level /\ L.level > 0 /\ L.level \in Levels
        BY <1>1, <1>2, <3>2
      <4>2. OnLevel(L, L.level) # {}
        BY <4>1 DEF WellFormed, Trimmed
      <4> QED  BY <1>1, <4>1, <4>2
    <3> QED  BY <3>1, <3>2
  <2> QED  BY <2>1, <2>2 DEF Trimmed
<1>8. IsFiniteSet(Live(M)) /\ Counted(M)
  <2>1. IsFiniteSet(Live(L)) /\ L.count = Cardinality(Live(L)) /\ n \notin Live(L)
    BY DEF WellFormed, Counted
  <2>2. IsFiniteSet(Live(L) \cup {n}) /\ Cardinality(Live(L) \cup {n}) = Cardinality(Live(L)) + 1
    BY <2>1, FS_AddElement
  <2> QED  BY <1>1, <2>1, <2>2 DEF Counted
<1>9. WellFormed(M)
  BY <1>1, <1>3, <1>4, <1>5, <1>6, <1>7, <1>8 DEF WellFormed
<1> QED  BY <1>9 DEF M

-----------------------------------------------------------------------------
(* delete_element                                                          *)

(* The node before a node's key points to it on the levels it is on.       *)
LEMMA BeforeNode ==
  ASSUME NEW L, WellFormed(L), NEW n \in Live(L), NEW i \in Levels,
         NEW p, IsLast(L, L.key[n], i, p)
  PROVE  L.next[p][i] = n <=> n \in OnLevel(L, i)
<1> DEFINE b == L.next[p][i]
           k == L.key[n]
<1>1. p \in Chain(L, i) /\ KeyOf(L, p) < k /\ KeyOf(L, p) \in Nat /\ k \in Nat /\ n # Null
  BY ListTypes, NodeFacts, AddrAssumption DEF IsLast, Live
<1>2. b # Null => b \in OnLevel(L, i) /\ L.key[b] > KeyOf(L, p)
  BY <1>1, NextFacts
<1>3. \A c \in OnLevel(L, i) : L.key[c] > KeyOf(L, p) => b # Null /\ (c = b \/ L.key[b] < L.key[c])
  BY <1>1, NextFacts
<1>4. \A c \in OnLevel(L, i) : L.key[c] \in Nat /\ (L.key[c] < k => L.key[c] <= KeyOf(L, p))
  BY NodeFacts DEF IsLast
<1> HIDE DEF b
<1>5. ASSUME n \in OnLevel(L, i) PROVE b = n
  <2>1. b # Null /\ (n = b \/ L.key[b] < k)
    BY <1>1, <1>3, <1>5
  <2> QED  BY <1>1, <1>2, <1>4, <2>1
<1>6. ASSUME b = n PROVE n \in OnLevel(L, i)
  BY <1>1, <1>2, <1>6
<1> QED  BY <1>5, <1>6 DEF b

(* M is what delete_element makes of L, with the node n for the key k.     *)
Deleted(L, k, n, M) ==
  WellFormed(L) /\ k \in Keys /\ Found(L, k) /\ n = Candidate(L, k) /\ M = DeleteElement(L, k)

DeleteEffect(L, k, n, M) ==
  /\ n \in Live(L) /\ L.key[n] = k
  /\ M.level = Lowered(L, M.next)
  /\ M.count = L.count - 1
  /\ M.key = [L.key EXCEPT ![n] = NoKey] /\ M.value = [L.value EXCEPT ![n] = NoValue]
  /\ \A a \in Nodes, i \in Levels : M.next[a][i] =
       IF a = n THEN Null
       ELSE IF n \in OnLevel(L, i) /\ a = PredOf(L, k, i) THEN L.next[n][i]
       ELSE L.next[a][i]
  /\ M.next \in [Nodes -> [Levels -> Addrs \cup {Null}]]
  /\ M.top = [L.top EXCEPT ![n] = 0]
  /\ M = [level |-> M.level, count |-> M.count, key |-> M.key, value |-> M.value,
          top |-> M.top, next |-> M.next]
  /\ Live(M) = Live(L) \ {n}
  /\ \A i \in Levels : OnLevel(M, i) = OnLevel(L, i) \ {n}
  /\ \A a \in Nodes \ {n} : KeyOf(M, a) = KeyOf(L, a)

LEMMA DeleteFields ==
  ASSUME NEW L, NEW k, NEW n, NEW M, Deleted(L, k, n, M)
  PROVE  DeleteEffect(L, k, n, M)
<1>0. WellFormed(L) /\ k \in Keys /\ Found(L, k)
  BY DEF Deleted
<1>1. n \in Live(L) /\ n \in Addrs /\ L.key[n] = k /\ n # Header
  BY <1>0, FoundFacts, AddrAssumption DEF Deleted, Live
<1> DEFINE next == Unlink(L, n, Update(L, k))
<1>2. M = [level |-> Lowered(L, next), count |-> L.count - 1,
           key |-> [L.key EXCEPT ![n] = NoKey], value |-> [L.value EXCEPT ![n] = NoValue],
           top |-> [L.top EXCEPT ![n] = 0], next |-> next]
  BY <1>0 DEF Deleted, DeleteElement
<1> HIDE DEF next
<1>3. /\ M.level = Lowered(L, M.next) /\ M.count = L.count - 1
      /\ M.key = [L.key EXCEPT ![n] = NoKey] /\ M.value = [L.value EXCEPT ![n] = NoValue]
      /\ M.top = [L.top EXCEPT ![n] = 0] /\ M.next = next
      /\ M = [level |-> M.level, count |-> M.count, key |-> M.key, value |-> M.value,
              top |-> M.top, next |-> M.next]
  BY <1>2
<1>4. /\ L.level \in Levels /\ Levels \subseteq Nat /\ L.top \in [Addrs -> Levels]
      /\ L.key \in [Addrs -> Keys \cup {NoKey}] /\ \A a \in Addrs : L.top[a] \in Nat
      /\ L.next \in [Nodes -> [Levels -> Addrs \cup {Null}]] /\ Levels = 0 .. MaxLevel /\ MaxLevel \in Nat
  BY <1>0, ListTypes DEF Levels
(* the loop of delete_element ends at the height of the node               *)
<1> DEFINE linked(i) == \A h \in 0 .. i : L.next[Update(L, k)[h]][h] = n
<1>5. \A h \in 0 .. L.level : L.next[Update(L, k)[h]][h] = n <=> L.top[n] >= h
  <2> SUFFICES ASSUME NEW h \in 0 .. L.level
               PROVE  L.next[Update(L, k)[h]][h] = n <=> L.top[n] >= h
    OBVIOUS
  <2>1. h \in Levels /\ IsLast(L, L.key[n], h, Update(L, k)[h])
    BY <1>0, <1>1, <1>4, UpdateFindsLast
  <2>2. L.next[Update(L, k)[h]][h] = n <=> n \in OnLevel(L, h)
    BY <1>0, <1>1, <2>1, BeforeNode
  <2> QED  BY <1>1, <2>2 DEF OnLevel
<1>6. ASSUME NEW i \in Levels
      PROVE  i <= L.level /\ linked(i) <=> n \in OnLevel(L, i)
  <2>1. i \in Nat /\ (n \in OnLevel(L, i) <=> L.top[n] >= i)
    BY <1>1, <1>4 DEF OnLevel
  <2>2. n \in OnLevel(L, i) => i <= L.level
    BY <1>0, <1>4, <2>1 DEF WellFormed, Trimmed
  <2>3. i <= L.level => (linked(i) <=> \A h \in 0 .. i : L.top[n] >= h)
    BY <1>4, <1>5, <2>1
  <2>4. (\A h \in 0 .. i : L.top[n] >= h) <=> L.top[n] >= i
    BY <1>1, <1>4, <2>1
  <2> QED  BY <2>1, <2>2, <2>3, <2>4
<1>7. M.next = [a \in Nodes |-> [i \in Levels |->
         IF a = n THEN Null
         ELSE IF i <= L.level /\ a = Update(L, k)[i] /\ linked(i) THEN L.next[n][i]
         ELSE L.next[a][i]]]
  BY <1>3 DEF Unlink, next
<1> HIDE DEF linked
<1>8. \A a \in Nodes, i \in Levels : M.next[a][i] =
        IF a = n THEN Null
        ELSE IF n \in OnLevel(L, i) /\ a = PredOf(L, k, i) THEN L.next[n][i]
        ELSE L.next[a][i]
  <2> SUFFICES ASSUME NEW a \in Nodes, NEW i \in Levels
               PROVE  M.next[a][i] =
                        IF a = n THEN Null
                        ELSE IF n \in OnLevel(L, i) /\ a = PredOf(L, k, i) THEN L.next[n][i]
                        ELSE L.next[a][i]
    OBVIOUS
  <2>1. M.next[a][i] =
         IF a = n THEN Null
         ELSE IF i <= L.level /\ a = Update(L, k)[i] /\ linked(i) THEN L.next[n][i]
         ELSE L.next[a][i]
    BY <1>7
  <2>2. i <= L.level /\ a = Update(L, k)[i] /\ linked(i)
          <=> n \in OnLevel(L, i) /\ a = PredOf(L, k, i)
    BY <1>6 DEF PredOf
  <2> QED  BY <2>1, <2>2
<1>9. M.next \in [Nodes -> [Levels -> Addrs \cup {Null}]]
  <2>1. n \in Nodes
    BY <1>1 DEF Nodes
  <2> QED  BY <1>4, <1>7, <2>1
<1>10. Live(M) = Live(L) \ {n}
  BY <1>1, <1>3, <1>4 DEF Live
<1>11. \A i \in Levels : OnLevel(M, i) = OnLevel(L, i) \ {n}
  <2>1. \A a \in Addrs \ {n} : M.top[a] = L.top[a]
    BY <1>3, <1>4
  <2>2. ASSUME NEW i \in Levels, NEW a \in Addrs
        PROVE  a \in OnLevel(M, i) <=> a \in OnLevel(L, i) /\ a # n
    BY <1>10, <2>1 DEF OnLevel
  <2>3. \A i \in Levels : OnLevel(M, i) \subseteq Addrs /\ OnLevel(L, i) \subseteq Addrs
    BY DEF OnLevel, Live
  <2> QED  BY <2>2, <2>3
<1>12. \A a \in Nodes \ {n} : KeyOf(M, a) = KeyOf(L, a)
  BY <1>3, <1>4 DEF KeyOf, Nodes
<1> QED  BY <1>1, <1>3, <1>8, <1>9, <1>10, <1>11, <1>12 DEF DeleteEffect

LEMMA DeleteLinks ==
  ASSUME NEW L, NEW k, NEW n, NEW M, Deleted(L, k, n, M)
  PROVE  Linked(M)
<1>0. WellFormed(L) /\ k \in Keys
  BY DEF Deleted
<1>1. /\ n \in Live(L) /\ n \in Addrs /\ L.key[n] = k
      /\ M.key = [L.key EXCEPT ![n] = NoKey]
      /\ \A a \in Nodes, i \in Levels : M.next[a][i] =
           IF a = n THEN Null
           ELSE IF n \in OnLevel(L, i) /\ a = PredOf(L, k, i) THEN L.next[n][i]
           ELSE L.next[a][i]
      /\ \A i \in Levels : OnLevel(M, i) = OnLevel(L, i) \ {n}
      /\ \A a \in Nodes \ {n} : KeyOf(M, a) = KeyOf(L, a)
  <2>1. DeleteEffect(L, k, n, M)
    BY DeleteFields
  <2> QED  BY <2>1 DEF DeleteEffect, Live
<1>2. k \in Nat /\ L.key \in [Addrs -> Keys \cup {NoKey}] /\ n # Header /\ n # Null
  BY <1>0, <1>1, ListTypes, KeysAssumption, AddrAssumption
<1> SUFFICES ASSUME NEW i \in Levels, NEW a \in OnLevel(M, i) \cup {Header}
             PROVE  IsNext(M, a, i, M.next[a][i])
  BY DEF Linked
<1> DEFINE p == PredOf(L, k, i)
           b == M.next[a][i]
<1>3. IsLast(L, k, i, p) /\ p \in Chain(L, i) /\ KeyOf(L, p) \in Nat /\ KeyOf(L, p) < k
  BY <1>0, PredIsLast, NodeFacts DEF IsLast
<1>4. /\ a # n /\ a \in Chain(L, i) /\ a \in Nodes /\ KeyOf(L, a) \in Nat /\ KeyOf(M, a) = KeyOf(L, a)
  <2>1. a # n /\ a \in Chain(L, i)
    BY <1>1, <1>2 DEF Chain
  <2> QED  BY <1>0, <1>1, <2>1, NodeFacts
<1>5. \A c \in OnLevel(L, i) : /\ c \in Live(L) /\ c \in Addrs /\ L.key[c] \in Nat /\ KeyOf(L, c) = L.key[c]
                               /\ (c # n => L.key[c] # k /\ M.key[c] = L.key[c])
  <2>1. \A c \in OnLevel(L, i) : c \in Live(L) /\ c \in Addrs /\ L.key[c] \in Nat /\ KeyOf(L, c) = L.key[c]
    BY <1>0, NodeFacts
  <2>2. \A c \in Live(L) : c # n => L.key[c] # k
    BY <1>0, <1>1 DEF WellFormed, KeysDiffer
  <2> QED  BY <1>1, <1>2, <2>1, <2>2
<1>6. b = IF n \in OnLevel(L, i) /\ a = p THEN L.next[n][i] ELSE L.next[a][i]
  BY <1>1, <1>4
<1> HIDE DEF p, b
<1>7. CASE n \in OnLevel(L, i) /\ a = p
  <2>1. b = L.next[n][i] /\ n \in Chain(L, i) /\ KeyOf(L, n) = k
    BY <1>1, <1>5, <1>6, <1>7 DEF Chain
  <2>2. b # Null => b \in OnLevel(L, i) /\ L.key[b] > k
    BY <1>0, <2>1, NextFacts
  <2>3. \A c \in OnLevel(L, i) : L.key[c] > k => b # Null /\ (c = b \/ L.key[b] < L.key[c])
    BY <1>0, <2>1, NextFacts
  <2>4. b # Null => b # n
    BY <1>1, <1>2, <2>2
  <2>5. b # Null => b \in OnLevel(M, i) /\ M.key[b] > KeyOf(M, a)
    BY <1>1, <1>2, <1>3, <1>4, <1>5, <1>7, <2>2, <2>4
  <2>6. ASSUME NEW c \in OnLevel(M, i), M.key[c] > KeyOf(M, a)
        PROVE  b # Null /\ (c = b \/ M.key[b] < M.key[c])
    <3>1. c \in OnLevel(L, i) /\ c # n /\ L.key[c] > KeyOf(L, p) /\ L.key[c] \in Nat
      BY <1>1, <1>4, <1>5, <1>7, <2>6
    <3>2. ~ (L.key[c] < k)
      BY <1>3, <3>1 DEF IsLast
    <3>3. L.key[c] > k
      BY <1>2, <1>5, <3>1, <3>2
    <3>4. b # Null /\ (c = b \/ L.key[b] < L.key[c])
      BY <2>3, <3>1, <3>3
    <3> QED  BY <1>5, <2>2, <2>4, <3>1, <3>4
  <2> QED  BY <2>5, <2>6, NextIntro DEF b
<1>8. CASE ~ (n \in OnLevel(L, i) /\ a = p)
  <2>1. b = L.next[a][i]
    BY <1>6, <1>8
  <2>2. b # Null => b \in OnLevel(L, i) /\ L.key[b] > KeyOf(L, a)
    BY <1>0, <1>4, <2>1, NextFacts
  <2>3. \A c \in OnLevel(L, i) : L.key[c] > KeyOf(L, a) =>
          b # Null /\ L.key[b] <= L.key[c] /\ (c = b \/ L.key[b] < L.key[c])
    BY <1>0, <1>4, <2>1, NextFacts
  <2>4. ASSUME b = n PROVE FALSE
    <3>1. n \in OnLevel(L, i) /\ a # p /\ k > KeyOf(L, a)
      BY <1>1, <1>2, <1>8, <2>2, <2>4
    <3>2. KeyOf(L, a) <= KeyOf(L, p)
      BY <1>0, <1>3, <1>4, <1>5, <3>1, NodeFacts DEF IsLast, Chain
    <3>3. KeyOf(L, a) # KeyOf(L, p)
      BY <1>0, <1>3, <1>4, <3>1, NodeFacts
    <3>4. p \in OnLevel(L, i) /\ L.key[p] = KeyOf(L, p) /\ L.key[p] > KeyOf(L, a)
      <4>1. p # Header
        BY <1>0, <1>3, <1>4, <3>2, <3>3, NodeFacts
      <4> QED  BY <1>3, <1>4, <1>5, <3>2, <3>3, <4>1 DEF Chain
    <3> QED  BY <1>1, <1>2, <1>3, <2>3, <2>4, <3>4
  <2>5. b # Null => b \in OnLevel(M, i) /\ M.key[b] > KeyOf(M, a)
    BY <1>1, <1>4, <1>5, <2>2, <2>4
  <2>6. ASSUME NEW c \in OnLevel(M, i), M.key[c] > KeyOf(M, a)
        PROVE  b # Null /\ (c = b \/ M.key[b] < M.key[c])
    <3>1. c \in OnLevel(L, i) /\ c # n /\ L.key[c] > KeyOf(L, a)
      BY <1>1, <1>4, <1>5, <2>6
    <3> QED  BY <1>5, <2>2, <2>3, <2>4, <3>1
  <2> QED  BY <2>5, <2>6, NextIntro DEF b
<1> QED  BY <1>7, <1>8

(* The loop that lowers the level stops at the highest level in use.       *)
LEMMA LoweredLevel ==
  ASSUME NEW L, WellFormed(L), NEW next
  PROVE  LET j == Lowered(L, next)
         IN  /\ j \in 0 .. L.level
             /\ j = 0 \/ next[Header][j] # Null
             /\ \A i \in j + 1 .. L.level : next[Header][i] = Null
<1> DEFINE used == {j \in 0 .. L.level : j = 0 \/ next[Header][j] # Null}
<1>1. L.level \in Nat
  BY ListTypes DEF Levels
<1>2. used \in SUBSET Nat /\ used # {} /\ \A s \in used : s <= L.level
  BY <1>1
<1>3. PICK m \in used : \A s \in used : s <= m
  <2> HIDE DEF used
  <2> QED  BY <1>1, <1>2, GreatestExists
<1>4. ASSUME NEW i \in m + 1 .. L.level PROVE next[Header][i] = Null
  <2>1. i \in 0 .. L.level /\ ~ (i <= m)
    BY <1>1, <1>3
  <2> QED  BY <1>3, <2>1
<1>5. \E j \in 0 .. L.level : /\ j = 0 \/ next[Header][j] # Null
                              /\ \A i \in j + 1 .. L.level : next[Header][i] = Null
  BY <1>3, <1>4
<1> QED  BY <1>5 DEF Lowered

LEMMA DeleteKeeps ==
  ASSUME NEW L, WellFormed(L), NEW k \in Keys, Found(L, k)
  PROVE  WellFormed(DeleteElement(L, k))
<1> DEFINE M == DeleteElement(L, k)
           n == Candidate(L, k)
<1>0. Deleted(L, k, n, M)
  BY DEF Deleted
<1> HIDE DEF M, n
<1>1. /\ n \in Live(L) /\ n \in Addrs /\ L.key[n] = k
      /\ M.level = Lowered(L, M.next) /\ M.count = L.count - 1
      /\ M.key = [L.key EXCEPT ![n] = NoKey] /\ M.value = [L.value EXCEPT ![n] = NoValue]
      /\ \A a \in Nodes, i \in Levels : M.next[a][i] =
           IF a = n THEN Null
           ELSE IF n \in OnLevel(L, i) /\ a = PredOf(L, k, i) THEN L.next[n][i]
           ELSE L.next[a][i]
      /\ M.next \in [Nodes -> [Levels -> Addrs \cup {Null}]]
      /\ M.top = [L.top EXCEPT ![n] = 0]
      /\ M = [level |-> M.level, count |-> M.count, key |-> M.key, value |-> M.value,
              top |-> M.top, next |-> M.next]
      /\ Live(M) = Live(L) \ {n}
      /\ \A i \in Levels : OnLevel(M, i) = OnLevel(L, i) \ {n}
  <2>1. DeleteEffect(L, k, n, M)
    BY <1>0, DeleteFields
  <2> QED  BY <2>1 DEF DeleteEffect, Live
<1>2. /\ L.key \in [Addrs -> Keys \cup {NoKey}] /\ L.value \in [Addrs -> Values \cup {NoValue}]
      /\ L.top \in [Addrs -> Levels] /\ L.count \in Int
      /\ MaxLevel \in Nat /\ Levels = 0 .. MaxLevel /\ L.level \in Levels
  BY ListTypes DEF Levels
<1>3. /\ M.level \in 0 .. L.level /\ (M.level = 0 \/ M.next[Header][M.level] # Null)
      /\ \A i \in M.level + 1 .. L.level : M.next[Header][i] = Null
  BY <1>1, LoweredLevel
<1>4. M \in SkipLists
  <2>1. /\ M.level \in Levels /\ M.count \in Int /\ M.key \in [Addrs -> Keys \cup {NoKey}]
        /\ M.value \in [Addrs -> Values \cup {NoValue}] /\ M.top \in [Addrs -> Levels]
    BY <1>1, <1>2, <1>3
  <2> QED  BY <1>1, <2>1 DEF SkipLists
<1>5. KeysDiffer(M)
  BY <1>1, <1>2 DEF KeysDiffer, WellFormed, Live
<1>6. HasValues(M)
  BY <1>1, <1>2 DEF HasValues, WellFormed, Live
<1>7. Cleared(M)
  <2> SUFFICES ASSUME NEW i \in Levels, NEW a \in Addrs \ OnLevel(M, i), a # n
               PROVE  M.next[a][i] = Null
    BY <1>1 DEF Cleared, Nodes
  <2>1. a \notin OnLevel(L, i) /\ a \in Nodes
    BY <1>1 DEF Nodes
  <2>2. L.next[a][i] = Null
    BY <2>1 DEF WellFormed, Cleared
  <2>3. a # PredOf(L, k, i)
    BY <2>1, PredIsLast, AddrAssumption DEF IsLast, Chain
  <2> QED  BY <1>1, <2>1, <2>2, <2>3
<1>8. Linked(M)
  BY <1>0, DeleteLinks
<1>9. ASSUME NEW i \in Levels PROVE M.next[Header][i] = Null <=> OnLevel(M, i) = {}
  <2>1. \A c \in OnLevel(M, i) : c \in Addrs /\ c # Null /\ M.key[c] > 0
    <3>1. \A c \in OnLevel(L, i) : c \in Addrs /\ c # Null /\ L.key[c] > 0
      BY NodeFacts
    <3> QED  BY <1>1, <1>2, <3>1
  <2>2. IsNext(M, Header, i, M.next[Header][i]) /\ KeyOf(M, Header) = 0
    BY <1>8 DEF Linked, KeyOf, NoKey
  <2>3. OnLevel(M, i) = {c \in OnLevel(M, i) : M.key[c] > KeyOf(M, Header)}
    BY <2>1, <2>2
  <2> QED  BY <2>1, <2>2, <2>3 DEF IsNext
<1>10. Trimmed(M)
  <2>1. ASSUME NEW i \in Levels, i > M.level PROVE OnLevel(M, i) = {}
    <3>1. CASE i <= L.level
      <4>1. i \in M.level + 1 .. L.level
        BY <1>2, <1>3, <2>1, <3>1
      <4> QED  BY <1>3, <1>9, <4>1
    <3>2. CASE ~ (i <= L.level)
      <4>1. OnLevel(L, i) = {}
        BY <1>2, <3>2 DEF WellFormed, Trimmed
      <4> QED  BY <1>1, <4>1
    <3> QED  BY <3>1, <3>2
  <2>2. M.level \in Levels
    BY <1>2, <1>3
  <2>3. M.level > 0 => OnLevel(M, M.level) # {}
    BY <1>3, <1>9, <2>2
  <2> QED  BY <2>1, <2>3 DEF Trimmed
<1>11. IsFiniteSet(Live(M)) /\ Counted(M)
  <2>1. IsFiniteSet(Live(L)) /\ L.count = Cardinality(Live(L))
    BY DEF WellFormed, Counted
  <2>2. IsFiniteSet(Live(L) \ {n}) /\ Cardinality(Live(L) \ {n}) = Cardinality(Live(L)) - 1
    BY <1>1, <2>1, FS_RemoveElement
  <2> QED  BY <1>1, <2>1, <2>2 DEF Counted
<1>12. WellFormed(M)
  BY <1>4, <1>5, <1>6, <1>7, <1>8, <1>10, <1>11 DEF WellFormed
<1> QED  BY <1>12 DEF M

-----------------------------------------------------------------------------
(* The dictionary of a list.                                               *)

LEMMA ContentsFacts ==
  ASSUME NEW L, WellFormed(L)
  PROVE  /\ \A a \in Live(L) : L.key[a] \in Keys /\ Contents(L)[L.key[a]] = L.value[a]
                               /\ L.value[a] # NoValue
         /\ \A k \in Keys : (\A a \in Live(L) : L.key[a] # k) => Contents(L)[k] = NoValue
         /\ \A k \in Keys : Found(L, k) <=> Contents(L)[k] # NoValue
         /\ Contents(L) = [k \in Keys |-> Contents(L)[k]]
<1>1. ASSUME NEW a \in Live(L)
      PROVE  L.key[a] \in Keys /\ Contents(L)[L.key[a]] = L.value[a] /\ L.value[a] # NoValue
  <2>1. L.key[a] \in Keys
    BY ListTypes DEF Live
  <2>2. (CHOOSE b \in Live(L) : L.key[b] = L.key[a]) = a
    BY DEF WellFormed, KeysDiffer
  <2>3. Contents(L)[L.key[a]] = L.value[a]
    BY <2>1, <2>2 DEF Contents
  <2> QED  BY <2>1, <2>3, ValueAssumption DEF WellFormed, HasValues
<1>2. \A k \in Keys : (\A a \in Live(L) : L.key[a] # k) => Contents(L)[k] = NoValue
  BY DEF Contents
<1>3. \A k \in Keys : Found(L, k) <=> Contents(L)[k] # NoValue
  BY <1>1, <1>2, FoundFacts
<1>4. Contents(L) = [k \in Keys |-> Contents(L)[k]]
  BY DEF Contents
<1> QED  BY <1>1, <1>2, <1>3, <1>4

(* Insertion and deletion change the dictionary at their key only.         *)
LEMMA InsertContents ==
  ASSUME NEW L, WellFormed(L), NEW k \in Keys, NEW v \in Values, ~ Found(L, k),
         NEW n \in Addrs \ Live(L), NEW lv \in RandomLevels
  PROVE  Contents(InsertElement(L, k, v, n, lv)) = [Contents(L) EXCEPT ![k] = v]
<1> DEFINE M == InsertElement(L, k, v, n, lv)
<1>1. Inserted(L, k, v, n, lv, M) /\ WellFormed(M)
  BY InsertKeeps DEF Inserted
<1> HIDE DEF M
<1>2. /\ M.key = [L.key EXCEPT ![n] = k] /\ M.value = [L.value EXCEPT ![n] = v]
      /\ Live(M) = Live(L) \cup {n}
  <2>1. InsertEffect(L, k, v, n, lv, M)
    BY <1>1, InsertFields
  <2> QED  BY <2>1 DEF InsertEffect
<1>3. L.key \in [Addrs -> Keys \cup {NoKey}] /\ L.value \in [Addrs -> Values \cup {NoValue}]
  BY ListTypes
<1>4. \A a \in Live(L) : a # n /\ M.key[a] = L.key[a] /\ M.value[a] = L.value[a] /\ L.key[a] # k
  BY <1>2, <1>3, FoundFacts DEF Live
<1>5. M.key[n] = k /\ M.value[n] = v
  BY <1>2, <1>3
<1>6. Contents(M)[k] = v
  <2>1. n \in Live(M)
    BY <1>2
  <2>2. Contents(M)[M.key[n]] = M.value[n]
    BY <1>1, <2>1, ContentsFacts
  <2> QED  BY <1>5, <2>2
<1>7. ASSUME NEW j \in Keys, j # k PROVE Contents(M)[j] = Contents(L)[j]
  <2>1. CASE \E a \in Live(L) : L.key[a] = j
    <3>1. PICK a \in Live(L) : L.key[a] = j
      BY <2>1
    <3>2. a \in Live(M) /\ M.key[a] = j /\ M.value[a] = L.value[a]
      BY <1>2, <1>4, <3>1
    <3>3. Contents(M)[j] = M.value[a]
      BY <1>1, <3>2, ContentsFacts
    <3>4. Contents(L)[j] = L.value[a]
      BY <3>1, ContentsFacts
    <3> QED  BY <3>2, <3>3, <3>4
  <2>2. CASE \A a \in Live(L) : L.key[a] # j
    <3>1. \A a \in Live(M) : M.key[a] # j
      BY <1>2, <1>4, <1>5, <1>7, <2>2
    <3>2. Contents(M)[j] = NoValue /\ Contents(L)[j] = NoValue
      BY <1>1, <2>2, <3>1, ContentsFacts
    <3> QED  BY <3>2
  <2> QED  BY <2>1, <2>2
<1>8. Contents(M) = [Contents(L) EXCEPT ![k] = v]
  <2>1. /\ Contents(M) = [j \in Keys |-> Contents(M)[j]]
        /\ Contents(L) = [j \in Keys |-> Contents(L)[j]]
    BY DEF Contents
  <2> QED  BY <1>6, <1>7, <2>1
<1> QED  BY <1>8 DEF M

LEMMA DeleteContents ==
  ASSUME NEW L, WellFormed(L), NEW k \in Keys, Found(L, k)
  PROVE  Contents(DeleteElement(L, k)) = [Contents(L) EXCEPT ![k] = NoValue]
<1> DEFINE M == DeleteElement(L, k)
           n == Candidate(L, k)
<1>1. Deleted(L, k, n, M) /\ WellFormed(M)
  BY DeleteKeeps DEF Deleted
<1> HIDE DEF M, n
<1>2. /\ M.key = [L.key EXCEPT ![n] = NoKey] /\ M.value = [L.value EXCEPT ![n] = NoValue]
      /\ Live(M) = Live(L) \ {n} /\ n \in Live(L) /\ L.key[n] = k
  <2>1. DeleteEffect(L, k, n, M)
    BY <1>1, DeleteFields
  <2> QED  BY <2>1 DEF DeleteEffect
<1>3. L.key \in [Addrs -> Keys \cup {NoKey}] /\ L.value \in [Addrs -> Values \cup {NoValue}]
  BY ListTypes
<1>4. \A a \in Live(M) : M.key[a] = L.key[a] /\ M.value[a] = L.value[a] /\ L.key[a] # k /\ a \in Live(L)
  BY <1>2, <1>3 DEF Live, WellFormed, KeysDiffer
<1>5. Contents(M)[k] = NoValue
  BY <1>1, <1>4, ContentsFacts
<1>6. ASSUME NEW j \in Keys, j # k PROVE Contents(M)[j] = Contents(L)[j]
  <2>1. CASE \E a \in Live(M) : M.key[a] = j
    <3>1. PICK a \in Live(M) : M.key[a] = j
      BY <2>1
    <3>2. a \in Live(L) /\ L.key[a] = j /\ M.value[a] = L.value[a]
      BY <1>4, <3>1
    <3>3. Contents(M)[j] = M.value[a]
      BY <1>1, <3>1, ContentsFacts
    <3>4. Contents(L)[j] = L.value[a]
      BY <3>2, ContentsFacts
    <3> QED  BY <3>2, <3>3, <3>4
  <2>2. CASE \A a \in Live(M) : M.key[a] # j
    <3>1. \A a \in Live(L) : L.key[a] # j
      BY <1>2, <1>4, <1>6, <2>2
    <3>2. Contents(M)[j] = NoValue /\ Contents(L)[j] = NoValue
      BY <1>1, <2>2, <3>1, ContentsFacts
    <3> QED  BY <3>2
  <2> QED  BY <2>1, <2>2
<1>7. Contents(M) = [Contents(L) EXCEPT ![k] = NoValue]
  <2>1. /\ Contents(M) = [j \in Keys |-> Contents(M)[j]]
        /\ Contents(L) = [j \in Keys |-> Contents(L)[j]]
    BY DEF Contents
  <2> QED  BY <1>5, <1>6, <2>1
<1> QED  BY <1>7 DEF M

(* element_count is the number of keys of the dictionary.                  *)
LEMMA CountsKeys ==
  ASSUME NEW L, WellFormed(L)
  PROVE  L.count = Cardinality({k \in Keys : Contents(L)[k] # NoValue})
<1> DEFINE T == {k \in Keys : Contents(L)[k] # NoValue}
           g == [a \in Live(L) |-> L.key[a]]
<1>1. \A a \in Live(L) : L.key[a] \in T
  BY ContentsFacts
<1>2. \A k \in T : \E a \in Live(L) : L.key[a] = k
  BY ContentsFacts, FoundFacts
<1> HIDE DEF T
<1>3. g \in [Live(L) -> T] /\ \A a, b \in Live(L) : g[a] = g[b] => a = b
  BY <1>1 DEF WellFormed, KeysDiffer
<1>4. \A k \in T : \E a \in Live(L) : g[a] = k
  BY <1>2
<1> HIDE DEF g
<1>5. g \in Bijection(Live(L), T)
  BY <1>3, <1>4 DEF Bijection, Injection, Surjection, IsInjective
<1>6. ExistsBijection(Live(L), T)
  BY <1>5 DEF ExistsBijection
<1>7. Cardinality(T) = Cardinality(Live(L))
  BY <1>6, FS_Bijection DEF WellFormed
<1> QED  BY <1>7 DEF WellFormed, Counted, T

LEMMA NewListFacts == WellFormed(NewList) /\ Contents(NewList) = [k \in Keys |-> NoValue]
<1> DEFINE L == NewList
<1>1. /\ L.level = 0 /\ L.count = 0
      /\ L.key = [a \in Addrs |-> NoKey] /\ L.value = [a \in Addrs |-> NoValue]
      /\ L.top = [a \in Addrs |-> 0] /\ L.next = [a \in Nodes |-> [i \in Levels |-> Null]]
  BY DEF NewList
<1>2. L \in SkipLists
  <2>1. 0 \in Levels
    BY LevelAssumption DEF Levels
  <2> QED  BY <2>1 DEF NewList, SkipLists
<1> HIDE DEF L
<1>3. Live(L) = {} /\ \A i : OnLevel(L, i) = {}
  BY <1>1 DEF Live, OnLevel
<1>4. KeysDiffer(L) /\ HasValues(L) /\ Cleared(L)
  BY <1>1, <1>3 DEF KeysDiffer, HasValues, Cleared, Nodes
<1>5. Linked(L)
  <2>1. \A i \in Levels : L.next[Header][i] = Null
    BY <1>1 DEF Nodes
  <2> QED  BY <1>3, <2>1 DEF Linked, IsNext
<1>6. Trimmed(L)
  BY <1>1, <1>3 DEF Trimmed
<1>7. IsFiniteSet(Live(L)) /\ Counted(L)
  BY <1>1, <1>3, FS_EmptySet DEF Counted
<1>8. WellFormed(L)
  BY <1>2, <1>4, <1>5, <1>6, <1>7 DEF WellFormed
<1>9. Contents(L) = [k \in Keys |-> NoValue]
  BY <1>3 DEF Contents
<1> QED  BY <1>8, <1>9 DEF L

-----------------------------------------------------------------------------
(* The commands.                                                           *)

Inv == WellFormed(list)

(* What insertion of a missing key does to the list of the connection.     *)
LEMMA InsertEffectOnMap ==
  ASSUME NEW L, WellFormed(L), NEW k \in Keys, NEW v \in Values, ~ Found(L, k), Insert(L, k, v)
  PROVE  Inv' /\ Contents(list)' = [Contents(L) EXCEPT ![k] = v]
<1>1. PICK n \in Addrs \ Live(L), lv \in RandomLevels : list' = InsertElement(L, k, v, n, lv)
  BY DEF Insert
<1>2. WellFormed(list')
  BY <1>1, InsertKeeps
<1>3. Contents(list') = [Contents(L) EXCEPT ![k] = v]
  BY <1>1, InsertContents
<1> QED  BY <1>2, <1>3 DEF Inv

LEMMA SetStep ==
  ASSUME Inv, NEW k \in Keys, NEW v \in Values, Set(k, v)
  PROVE  Inv' /\ Map!Set(k, v)
<1>1. kvlist' = Map!Ask("SKSET", k, v) /\ (Found(list, k) <=> Contents(list)[k] # NoValue)
  BY ContentsFacts DEF Set, Tokens, Inv
<1>2. CASE Found(list, k)
  <2>1. list' = list /\ wbuf' = Map!Says("EXIST")
    BY <1>2 DEF Set, Answer
  <2> QED  BY <1>1, <1>2, <2>1 DEF Inv, Map!Set, Map!Has, Map!Refuse
<1>3. CASE ~ Found(list, k)
  <2>1. Insert(list, k, v) /\ wbuf' = Map!Says("SUCCESS")
    BY <1>3 DEF Set, Answer
  <2>2. Inv' /\ Contents(list)' = [Contents(list) EXCEPT ![k] = v]
    BY <1>3, <2>1, InsertEffectOnMap DEF Inv
  <2> QED  BY <1>1, <1>3, <2>1, <2>2 DEF Map!Set, Map!Has, Map!Put
<1> QED  BY <1>2, <1>3

LEMMA GetStep ==
  ASSUME Inv, NEW k \in Keys, Get(k)
  PROVE  Inv' /\ Map!Get(k)
<1>1. /\ kvlist' = Map!Ask("SKGET", k, NoValue) /\ (Found(list, k) <=> Contents(list)[k] # NoValue)
      /\ list' = list
  BY ContentsFacts DEF Get, Tokens, Inv
<1>2. CASE Found(list, k)
  <2>1. wbuf' = Map!Gives(Element(list, k))
    BY <1>2 DEF Get
  <2>2. Element(list, k) = Contents(list)[k]
    BY <1>2, FoundFacts, ContentsFacts DEF Inv, Element
  <2> QED  BY <1>1, <1>2, <2>1, <2>2 DEF Inv, Map!Get, Map!Has
<1>3. CASE ~ Found(list, k)
  <2>1. wbuf' = Map!Says("Not Found")
    BY <1>3 DEF Get, Answer
  <2> QED  BY <1>1, <1>3, <2>1 DEF Inv, Map!Get, Map!Has, Map!Refuse
<1> QED  BY <1>2, <1>3

LEMMA DeleteStep ==
  ASSUME Inv, NEW k \in Keys, Delete(k)
  PROVE  Inv' /\ Map!Delete(k)
<1>1. kvlist' = Map!Ask("SKDEL", k, NoValue) /\ (Found(list, k) <=> Contents(list)[k] # NoValue)
  BY ContentsFacts DEF Delete, Tokens, Inv
<1>2. CASE Found(list, k)
  <2>1. list' = DeleteElement(list, k) /\ wbuf' = Map!Says("")
    BY <1>2 DEF Delete, Answer
  <2>2. WellFormed(list') /\ Contents(list') = [Contents(list) EXCEPT ![k] = NoValue]
    BY <1>2, <2>1, DeleteKeeps, DeleteContents DEF Inv
  <2> QED  BY <1>1, <1>2, <2>1, <2>2 DEF Inv, Map!Delete, Map!Has, Map!Put
<1>3. CASE ~ Found(list, k)
  <2>1. list' = list /\ wbuf' = Map!Says("Not Found")
    BY <1>3 DEF Delete, Answer
  <2> QED  BY <1>1, <1>3, <2>1 DEF Inv, Map!Delete, Map!Has, Map!Refuse
<1> QED  BY <1>2, <1>3

LEMMA ModifyStep ==
  ASSUME Inv, NEW k \in Keys, NEW v \in Values, Modify(k, v)
  PROVE  Inv' /\ Map!Modify(k, v)
<1>1. kvlist' = Map!Ask("SKMOD", k, v) /\ (Found(list, k) <=> Contents(list)[k] # NoValue)
  BY ContentsFacts DEF Modify, Tokens, Inv
<1>2. CASE Found(list, k)
  <2> DEFINE L == DeleteElement(list, k)
  <2>1. Insert(L, k, v) /\ wbuf' = Map!Says("")
    BY <1>2 DEF Modify, Answer
  <2>2. WellFormed(L) /\ Contents(L) = [Contents(list) EXCEPT ![k] = NoValue]
    BY <1>2, DeleteKeeps, DeleteContents DEF Inv
  <2> HIDE DEF L
  <2>3. DOMAIN Contents(list) = Keys
    BY DEF Contents
  <2>4. Contents(L)[k] = NoValue
    BY <2>2, <2>3
  <2>5. ~ Found(L, k)
    BY <2>2, <2>4, ContentsFacts
  <2>6. Inv' /\ Contents(list)' = [Contents(L) EXCEPT ![k] = v]
    BY <2>1, <2>2, <2>5, InsertEffectOnMap
  <2>7. [Contents(L) EXCEPT ![k] = v] = [Contents(list) EXCEPT ![k] = v]
    BY <2>2, <2>3
  <2> QED  BY <1>1, <1>2, <2>1, <2>6, <2>7 DEF Map!Modify, Map!Has, Map!Put
<1>3. CASE ~ Found(list, k)
  <2>1. list' = list /\ wbuf' = Map!Says("Not Found")
    BY <1>3 DEF Modify, Answer
  <2> QED  BY <1>1, <1>3, <2>1 DEF Inv, Map!Modify, Map!Has, Map!Refuse
<1> QED  BY <1>2, <1>3

LEMMA CountStep == Inv /\ Count => Inv' /\ Map!Count
<1> SUFFICES ASSUME Inv, Count PROVE Inv' /\ Map!Count
  OBVIOUS
<1>1. list.count = Cardinality({k \in Keys : Contents(list)[k] # NoValue})
  BY CountsKeys DEF Inv
<1>2. list.count = Map!Size
  <2>1. Map!Size = Cardinality({k \in Keys : Map!Has(k)})
    BY DEF Map!Size, Map!Cardinality, Cardinality
  <2>2. {k \in Keys : Map!Has(k)} = {k \in Keys : Contents(list)[k] # NoValue}
    BY DEF Map!Has
  <2> QED  BY <1>1, <2>1, <2>2
<1>3. list' = list /\ kvlist' = Map!Ask("SKCOUNT", 0, NoValue) /\ wbuf' = Map!Tells(list.count)
  BY DEF Count, Tokens
<1>4. Contents(list)' = Contents(list) /\ Inv'
  BY <1>3 DEF Inv
<1> QED  BY <1>2, <1>3, <1>4 DEF Map!Count

LEMMA UnknownStep == Inv /\ Unknown => Inv' /\ Map!Unknown
BY DEF Inv, Unknown, Tokens, Answer, Map!Unknown, Map!Refuse

LEMMA Start == Init => Inv /\ Map!Init
BY NewListFacts DEF Init, Inv, Map!Init

LEMMA Keep == Inv /\ [Next]_vars => Inv' /\ [Map!Next]_Map!vars
<1> SUFFICES ASSUME Inv, [Next]_vars PROVE Inv' /\ [Map!Next]_Map!vars
  OBVIOUS
<1>1. ASSUME NEW k \in Keys, NEW v \in Values, Set(k, v) \/ Modify(k, v)
      PROVE  Inv' /\ (Map!Set(k, v) \/ Map!Modify(k, v))
  BY <1>1, SetStep, ModifyStep
<1>2. ASSUME NEW k \in Keys, Get(k) \/ Delete(k)
      PROVE  Inv' /\ (Map!Get(k) \/ Map!Delete(k))
  BY <1>2, GetStep, DeleteStep
<1>3. CASE Count \/ Unknown
  BY <1>3, CountStep, UnknownStep DEF Map!Next
<1>4. CASE UNCHANGED vars
  BY <1>4 DEF vars, Inv, Map!vars
<1>5. CASE \E k \in Keys, v \in Values : Set(k, v) \/ Modify(k, v)
  BY <1>1, <1>5 DEF Map!Next
<1>6. CASE \E k \in Keys : Get(k) \/ Delete(k)
  BY <1>2, <1>6 DEF Map!Next
<1> QED  BY <1>3, <1>4, <1>5, <1>6 DEF Next

LEMMA Invariance == Spec => []Inv
BY Start, Keep, PTL DEF Spec

-----------------------------------------------------------------------------
(* The list of a connection is a skip list: an allocated node has a key, a *)
(* value and a level, and every pointer leads to a node or is null.        *)
THEOREM TypeCorrect == Spec => []TypeOK
<1>1. Inv => TypeOK
  BY DEF Inv, WellFormed, TypeOK
<1> QED  BY <1>1, Invariance, PTL

(* On every level insert_element and delete_element leave the ordered      *)
(* chain of the nodes that reach it, whatever levels are drawn: no key is  *)
(* out of order or missed, no pointer leads to a node that is freed.       *)
THEOREM ListLinkedCorrect == Spec => []ListLinked
<1>1. Inv => ListLinked
  BY DEF Inv, WellFormed, ListLinked
<1> QED  BY <1>1, Invariance, PTL

(* skip_list_level is the highest level in use.                            *)
THEOREM ListTrimmedCorrect == Spec => []ListTrimmed
<1>1. Inv => ListTrimmed
  BY DEF Inv, WellFormed, ListTrimmed
<1> QED  BY <1>1, Invariance, PTL

(* search_element finds a key exactly when the list holds it: the descent  *)
(* through the levels misses none.                                         *)
THEOREM SearchFindsKeys ==
  Spec => [](\A k \in Keys : Found(list, k) <=> \E a \in Live(list) : list.key[a] = k)
<1>1. Inv => \A k \in Keys : Found(list, k) <=> \E a \in Live(list) : list.key[a] = k
  BY FoundFacts DEF Inv
<1> QED  BY <1>1, Invariance, PTL

(* The five commands on the skip list change it and answer like KVMap, for *)
(* any keys, values, addresses and levels.                                 *)
THEOREM Refinement == Spec => MapSpec
<1>1. Init => Map!Init
  BY Start
<1>2. Inv /\ [Next]_vars => [Map!Next]_Map!vars
  BY Keep
<1> QED  BY <1>1, <1>2, Invariance, PTL DEF Spec, MapSpec, Map!Spec
=============================================================================
