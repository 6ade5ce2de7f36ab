----------------------------- MODULE MCCodegen -----------------------------
(* Instances of Codegen for TLC: names of variables are interchangeable. *)
EXTENDS Codegen

Symmetry == Permutations(Name)
=============================================================================
