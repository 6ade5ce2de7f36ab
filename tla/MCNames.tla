------------------------------ MODULE MCNames ------------------------------
(* Two names, one of them in small letters and one that may be a class; units nested four deep. *)
EXTENDS Names

MCName == {"x", "Y"}
MCLowerCase == {"x"}
MCClass == {"Y"}
=============================================================================
