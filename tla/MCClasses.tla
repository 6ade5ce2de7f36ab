----------------------------- MODULE MCClasses -----------------------------
(* Three classes; a method of their own and one that object has as a primitive. *)
EXTENDS Classes

MCSign == {"m", "toString"}
MCPrimitive == {"toString"}
MCNew == "new()"
=============================================================================
