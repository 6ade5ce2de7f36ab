-------------------------------- MODULE MCGc --------------------------------
(* Instances of Gc for TLC. *)
EXTENDS Gc, FiniteSets, TLC

CONSTANT MaxRefs   \* bound: how many objects one object refers to at the same time

\* Objects of one kind that play no fixed role are interchangeable.
Symmetry == Permutations(Plain \ {Modules}) \union Permutations(Upvalue)

SmallObjects == \A o \in Obj : Cardinality(fields[o]) <= MaxRefs
=============================================================================
