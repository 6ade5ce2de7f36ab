------------------------- MODULE CapturedVariables -------------------------
(***************************************************************************)
(* What closures promise: a variable is one cell.  The function that       *)
(* declares it and every closure that captures it read and write the same  *)
(* cell, which lasts as long as one of them can reach it.                  *)
(***************************************************************************)
CONSTANTS Var, Value

VARIABLE value   \* the variables there are -> the value of each

Init == value = [x \in {} |-> x]

Live == DOMAIN value

\* A variable is declared with a value.
Declare(x, v) ==
  /\ x \notin Live
  /\ value' = [y \in Live \union {x} |-> IF y = x THEN v ELSE value[y]]

\* It is assigned, by its name or through a closure.
Assign(x, v) == x \in Live /\ value' = [value EXCEPT ![x] = v]

\* Variables that nothing refers to any more are given up; another may follow at once.
Forget(xs) == xs \subseteq Live /\ value' = [y \in Live \ xs |-> value[y]]

\* A function returns: its variables that nothing captured go, the result is a new one.
Replace(xs, x, v) ==
  /\ xs \subseteq Live /\ x \notin Live \ xs
  /\ value' = [y \in (Live \ xs) \union {x} |-> IF y = x THEN v ELSE value[y]]

Next ==
  \/ \E x \in Var, v \in Value : Declare(x, v) \/ Assign(x, v)
  \/ \E xs \in SUBSET Live : Forget(xs) \/ \E x \in Var, v \in Value : Replace(xs, x, v)

Spec == Init /\ [][Next]_value
=============================================================================
