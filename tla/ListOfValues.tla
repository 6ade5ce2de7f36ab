---------------------------- MODULE ListOfValues ----------------------------
(***************************************************************************)
(* What a List of the scripting language promises: a sequence of values    *)
(* that can be appended to, inserted into, overwritten, shortened, cut and *)
(* reversed by a range, and cleared.  Positions count from 1 here.         *)
(***************************************************************************)
EXTENDS Integers, Sequences

CONSTANT Value

VARIABLE list

Init == list = <<>>

Add(v) == list' = [i \in 1..Len(list) + 1 |-> IF i <= Len(list) THEN list[i] ELSE v]

Insert(p, v) ==
  /\ p \in 1..Len(list) + 1
  /\ list' = [i \in 1..Len(list) + 1 |->
                IF i < p THEN list[i] ELSE IF i = p THEN v ELSE list[i - 1]]

Overwrite(p, v) == p \in 1..Len(list) /\ list' = [list EXCEPT ![p] = v]

RemoveAt(p) ==
  /\ p \in 1..Len(list)
  /\ list' = [i \in 1..Len(list) - 1 |-> IF i < p THEN list[i] ELSE list[i + 1]]

\* From position p to position q, backwards if q is not behind p.
Cut(p, q) ==
  /\ p \in 1..Len(list) /\ q \in 1..Len(list)
  /\ list' = IF p < q THEN [i \in 1..q - p + 1 |-> list[p + i - 1]]
                      ELSE [i \in 1..p - q + 1 |-> list[p - i + 1]]

RemoveAll == list' = <<>>

Next ==
  \/ \E v \in Value : Add(v) \/ \E p \in 1..Len(list) + 1 : Insert(p, v) \/ Overwrite(p, v)
  \/ \E p, q \in 1..Len(list) : RemoveAt(p) \/ Cut(p, q)
  \/ RemoveAll

Spec == Init /\ [][Next]_list
=============================================================================
