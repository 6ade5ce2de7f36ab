------------------------------ MODULE KeyValue ------------------------------
(***************************************************************************)
(* What a Map of the scripting language promises (the class comments in    *)
(* vm/core.c): every key has at most one value, the one stored last, until *)
(* the key is removed or the map cleared.                                  *)
(***************************************************************************)
CONSTANTS Key, Value, UNDEFINED

VARIABLE map  \* the value of each key, UNDEFINED where there is none

Init == map = [k \in Key |-> UNDEFINED]

Put(k, v) == map' = [map EXCEPT ![k] = v]
Delete(k) == map' = [map EXCEPT ![k] = UNDEFINED]
DeleteAll == map' = [k \in Key |-> UNDEFINED]

Next ==
  \/ \E k \in Key : Delete(k) \/ \E v \in Value : Put(k, v)
  \/ DeleteAll

Spec == Init /\ [][Next]_map
=============================================================================
