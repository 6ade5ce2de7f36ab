------------------------------ MODULE Frontend ------------------------------
(***************************************************************************)
(* From the characters of a file to its instructions: the scanner, the     *)
(* compiler of expressions, and, if the file consists of a string, a loop  *)
(* over the characters of that string.                                     *)
(***************************************************************************)
EXTENDS Lexer, Expressions, Strings

VARIABLES
  code,   \* the instructions of the file, once it is compiled
  result  \* "none", "compiled", "running", or "failed" after an error of the compiler

frontVars == <<lexVars, stringVars, code, result>>

FrontInit(source) == LexInit(source) /\ StringInit /\ code = <<>> /\ result = "none"

\* compileModule().  The compiler asks for one token after the other; the scanner does not
\* depend on it, so that the whole file can be scanned before.
CompileFile ==
  /\ mode = "eof" /\ result = "none"
  /\ LET unit == Program(Unit(tokens))
     IN  IF unit.failed THEN code' = <<>> /\ result' = "failed"
                        ELSE code' = unit.code /\ result' = "compiled"
  /\ UNCHANGED <<lexVars, stringVars>>

RunLoop ==
  /\ result = "compiled" /\ tokens[1].type = "STRING" /\ tokens[2].type = "EOF"
  /\ StartLoop(tokens[1].value)
  /\ result' = "running"
  /\ UNCHANGED <<lexVars, code>>

FrontNext ==
  \/ GetNextToken /\ UNCHANGED <<stringVars, code, result>>
  \/ CompileFile
  \/ RunLoop
  \/ Iterate /\ UNCHANGED <<lexVars, code, result>>
  \/ EndLoop /\ UNCHANGED <<lexVars, code, result>>
=============================================================================
