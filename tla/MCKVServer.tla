----------------------------- MODULE MCKVServer -----------------------------
(* Instances of KVServer for TLC.                                          *)
EXTENDS KVServer, TLC

AllWords == {"SKCOUNT", "SKGET", "SKSET", "k", "v", "q", "w", "glued", "garbage"}

(* A request of each length the commands have, and one without a word.     *)
ZeroToThree == {<<>>, <<"SKCOUNT">>, <<"SKGET", "k">>, <<"SKSET", "k", "v">>}
SetAndGet   == {<<"SKGET", "k">>, <<"SKSET", "q", "w">>}
=============================================================================
