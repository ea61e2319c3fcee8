-------------------------------- MODULE KVMap --------------------------------
(***************************************************************************)
(* What one connection of the key-value server promises: a dictionary that *)
(* the five commands read and change, and the reply to each of them.  A    *)
(* command that needs an existing key, or a new one, leaves the dictionary *)
(* alone otherwise.  A successful SKDEL or SKMOD answers with nothing.     *)
(***************************************************************************)
EXTENDS Integers, FiniteSets

CONSTANTS Keys, Values, NoValue

VARIABLES map, request, reply
vars == <<map, request, reply>>

(* Requests and replies: a reply is a text, a value or a number.           *)
Ask(cmd, k, v) == [cmd |-> cmd, key |-> k, value |-> v]
Says(t)  == [text |-> t, value |-> NoValue, number |-> -1]
Gives(v) == [text |-> "", value |-> v, number |-> -1]
Tells(n) == [text |-> "", value |-> NoValue, number |-> n]

Has(k) == map[k] # NoValue
Size   == Cardinality({k \in Keys : Has(k)})

Init ==
  /\ map = [k \in Keys |-> NoValue]
  /\ request = Ask("none", 0, NoValue) /\ reply = Says("")

Put(k, v, text) == map' = [map EXCEPT ![k] = v] /\ reply' = Says(text)
Refuse(text)    == map' = map /\ reply' = Says(text)

Set(k, v) ==
  /\ request' = Ask("SKSET", k, v)
  /\ IF Has(k) THEN Refuse("EXIST") ELSE Put(k, v, "SUCCESS")

Get(k) ==
  /\ request' = Ask("SKGET", k, NoValue)
  /\ IF Has(k) THEN map' = map /\ reply' = Gives(map[k]) ELSE Refuse("Not Found")

Delete(k) ==
  /\ request' = Ask("SKDEL", k, NoValue)
  /\ IF Has(k) THEN Put(k, NoValue, "") ELSE Refuse("Not Found")

Modify(k, v) ==
  /\ request' = Ask("SKMOD", k, v)
  /\ IF Has(k) THEN Put(k, v, "") ELSE Refuse("Not Found")

Count   == request' = Ask("SKCOUNT", 0, NoValue) /\ map' = map /\ reply' = Tells(Size)
Unknown == request' = Ask("other", 0, NoValue) /\ Refuse("Wrong Operation")

Next == \/ \E k \in Keys, v \in Values : Set(k, v) \/ Modify(k, v)
        \/ \E k \in Keys : Get(k) \/ Delete(k)
        \/ Count \/ Unknown

Spec == Init /\ [][Next]_vars
=============================================================================
