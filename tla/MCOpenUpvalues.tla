--------------------------- MODULE MCOpenUpvalues ---------------------------
(* Two threads in three regions of memory; functions that need two slots. *)
EXTENDS OpenUpvalues, TLC

CONSTANTS t1, t2, no, yes

MCThread == {t1, t2}
MCNeeds == {2}
MCValue == {no, yes}
Symmetric == Permutations(MCThread) \union Permutations(MCValue)
=============================================================================
