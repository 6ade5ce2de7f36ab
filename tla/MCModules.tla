----------------------------- MODULE MCModules -----------------------------
(* Two files and a prompt; sources of up to two statements about a variable. *)
EXTENDS Modules

MCFile == {"a", "b"}
MCCli == "cli"
MCVar == {"x"}

Statement ==
  {<<[op |-> "var", var |-> x, value |-> v]>> : x \in MCVar, v \in {"null", "number", "object"}}
  \cup {<<[op |-> "use", var |-> x]>> : x \in MCVar}
  \cup {<<[op |-> "import", from |-> m]>> : m \in MCFile}
  \cup {<<[op |-> "import", from |-> m], [op |-> "get", from |-> m, var |-> x]>> : m \in MCFile, x \in MCVar}

MCText == {<<>>} \cup Statement \cup {s \o t : s \in Statement, t \in Statement}
=============================================================================
