------------------------------ MODULE Modules ------------------------------
(***************************************************************************)
(* Modules and their variables: import (vm/core.c, loadModule(),           *)
(* importModule(), getModuleVariable() and their primitives) together with *)
(* the variables a source defines and uses (compiler/compiler.c,           *)
(* defineModuleVar(), compileImport(), the end of compileModule()).        *)
(*                                                                         *)
(* A module's code is compiled when it is imported, and then run by a      *)
(* thread of its own, which the importing thread waits for.  The source of *)
(* a file is not known before it is read: any element of Text.  The prompt *)
(* compiles line after line into the module Cli.  "import m for x" is two  *)
(* instructions, "import" and "get".                                       *)
(***************************************************************************)
EXTENDS Integers, Sequences, FiniteSets, SequencesExt

CONSTANTS
  File,      \* files that can be imported
  Cli,       \* the module of the prompt
  Var,       \* names of module variables
  Text,      \* sources: sequences of instructions
  MaxLines   \* bound: lines typed at the prompt

ASSUME ModulesAssumption == Cli \notin File /\ MaxLines \in Nat

Module == File \cup {Cli}

\* What a variable holds: "line" is the number of the line that uses it before its
\* definition, "name" the string that is its own name.
Values == {"null", "line", "number", "object", "name"}
VALUE_IS_NUM(value) == value \in {"line", "number"}

Instr == [op : {"var"}, var : Var, value : {"null", "number", "object"}]
         \cup [op : {"use"}, var : Var] \cup [op : {"import"}, from : File]
         \cup [op : {"get"}, from : File, var : Var]

\* compileImport() compiles the import of a module before the imports of its variables.
ASSUME TextAssumption ==
  /\ Text \subseteq Seq(Instr)
  /\ \A text \in Text : \A i \in 1..Len(text) :
       text[i].op = "get" => \E j \in 1..(i - 1) : text[j].op = "import" /\ text[j].from = text[i].from

VARIABLES
  allModules,  \* the variables of each module that is loaded
  running,     \* the threads that wait for an import, and the running one: module, code, pc,
               \* errorObj (is it set?) and the slots left on the stack by mistake
  lines,       \* lines typed so far
  status,      \* "idle", "running" or "error"
  runs,        \* how often the code of a module has been started
  finished,    \* the modules whose code has run to its end
  failed,      \* what has gone wrong so far: imports of "missing" variables and of "null"
  last         \* what the last instruction read: a use of a variable or an import of one

log == <<runs, finished, failed>>
vars == <<allModules, running, lines, status, log, last>>

NothingRead == [op |-> "nothing", from |-> Cli, value |-> "null", got |-> "null"]

Init ==
  /\ allModules = [m \in {} |-> {}]
  /\ running = <<>>
  /\ lines = 0
  /\ status = "idle"
  /\ runs = [m \in Module |-> 0] /\ finished = {} /\ failed = {}
  /\ last = NothingRead

-----------------------------------------------------------------------------
(* Compiling a source *)

Defines(instr) == instr.op \in {"var", "get"}
Uses(instr) == instr.op = "use"

\* A variable that holds a number passes for one that has only been used.
Redefined(table, x) == x \in DOMAIN table /\ ~VALUE_IS_NUM(table[x])

\* A table with one entry added or replaced.
Put(table, x, value) == [y \in DOMAIN table \cup {x} |-> IF y = x THEN value ELSE table[y]]

\* defineModuleVar() for a definition, declareModuleVar() for a use.
Declared(table, instr) ==
  CASE Defines(instr) /\ ~Redefined(table, instr.var) -> Put(table, instr.var, "null")
    [] Uses(instr) /\ instr.var \notin DOMAIN table -> Put(table, instr.var, "line")
    [] OTHER -> table

\* The table of module variables after the first i instructions of a source.
Known(table, text) ==
  LET known[i \in 0..Len(text)] == IF i = 0 THEN table ELSE Declared(known[i - 1], text[i]) IN known

\* Fault: nothing is checked at the end.
NothingUndefined(before, after) == TRUE

\* The end of compileModule(): of the variables that are new, none holds a line number.
AllDefined(before, after) == \A x \in DOMAIN after \ DOMAIN before : ~VALUE_IS_NUM(after[x])

Compiles(table, text) ==
  LET known == Known(table, text)
  IN  /\ \A i \in DOMAIN text : Defines(text[i]) => ~Redefined(known[i - 1], text[i].var)
      /\ AllDefined(table, known[Len(text)])

TableOf(m) == IF m \in DOMAIN allModules THEN allModules[m] ELSE [x \in {} |-> "null"]

\* loadModule(): the module is there before its code has run.
Loaded(m, text) == Put(allModules, m, Known(TableOf(m), text)[Len(text)])

ThreadOf(m, text) == [module |-> m, code |-> text, pc |-> 1, error |-> FALSE, stray |-> 0]

-----------------------------------------------------------------------------
(* Running *)

Keep == UNCHANGED <<lines, status>>
cur == Last(running)
instr == cur.code[cur.pc]
At(op) == status = "running" /\ cur.pc <= Len(cur.code) /\ instr.op = op
Replaced(thread) == Append(Front(running), thread)
Advanced(thread) == [thread EXCEPT !.pc = @ + 1]
Assigned(x, value) == [allModules EXCEPT ![cur.module][x] = value]

\* The host executes a line: executeModule() on the module of the prompt.
Execute(text) ==
  /\ status = "idle" /\ lines < MaxLines
  /\ lines' = lines + 1
  /\ Compiles(TableOf(Cli), text)
  /\ allModules' = Loaded(Cli, text)
  /\ running' = <<ThreadOf(Cli, text)>>
  /\ status' = "running"
  /\ runs' = [runs EXCEPT ![Cli] = @ + 1]
  /\ last' = NothingRead
  /\ UNCHANGED <<finished, failed>>

\* A source that does not compile ends the process.
ExecuteFails(text) ==
  /\ status = "idle" /\ lines < MaxLines /\ ~Compiles(TableOf(Cli), text)
  /\ status' = "error"
  /\ UNCHANGED <<allModules, running, lines, log, last>>

Define ==
  /\ At("var")
  /\ allModules' = Assigned(instr.var, instr.value)
  /\ running' = Replaced(Advanced(cur))
  /\ last' = NothingRead
  /\ Keep /\ UNCHANGED log

Use ==
  /\ At("use")
  /\ running' = Replaced(Advanced(cur))
  /\ last' = [NothingRead EXCEPT !.op = "use", !.value = allModules[cur.module][instr.var]]
  /\ Keep /\ UNCHANGED <<allModules, log>>

\* Fault: a module is known only when its code has run.
KnownWhenFinished(m) == m \in finished

IsLoaded(m) == m \in DOMAIN allModules

\* Fault: an import of a module that is there is tried again.
RetryImport ==
  /\ At("import") /\ IsLoaded(instr.from)
  /\ last' = NothingRead
  /\ Keep /\ UNCHANGED <<allModules, running, log>>

\* importModule() of a module that is there: null, and no change of threads.
ImportAgain ==
  /\ At("import") /\ IsLoaded(instr.from)
  /\ running' = Replaced(Advanced(cur))
  /\ last' = NothingRead
  /\ Keep /\ UNCHANGED <<allModules, log>>

\* Fault: only the thread of the host may switch to that of a module.
BlockedInModules(thread) == thread.error \/ Len(running) > 1

\* primSystemImportModule() takes an error of an earlier instruction for one of the compiler.
Blocked(thread) == thread.error

\* Fault: the importing thread is not made the caller of the new one.
ImportWithoutCaller(text) ==
  LET m == instr.from
  IN  /\ At("import") /\ ~IsLoaded(m) /\ ~Blocked(cur)
      /\ Compiles(TableOf(m), text)
      /\ allModules' = Loaded(m, text)
      /\ running' = <<ThreadOf(m, text)>>
      /\ runs' = [runs EXCEPT ![m] = @ + 1]
      /\ last' = NothingRead
      /\ Keep /\ UNCHANGED <<finished, failed>>

\* The module is read and compiled, and its thread is switched to.
Import(text) ==
  LET m == instr.from
  IN  /\ At("import") /\ ~IsLoaded(m) /\ ~Blocked(cur)
      /\ Compiles(TableOf(m), text)
      /\ allModules' = Loaded(m, text)
      /\ running' = Append(Replaced(Advanced(cur)), ThreadOf(m, text))
      /\ runs' = [runs EXCEPT ![m] = @ + 1]
      /\ last' = NothingRead
      /\ Keep /\ UNCHANGED <<finished, failed>>

\* It is compiled, but the primitive returns false before the switch: one of its two
\* arguments stays on the stack.
ImportBlocked(text) ==
  LET m == instr.from
  IN  /\ At("import") /\ ~IsLoaded(m) /\ Blocked(cur)
      /\ Compiles(TableOf(m), text)
      /\ allModules' = Loaded(m, text)
      /\ running' = Replaced([Advanced(cur) EXCEPT !.stray = @ + 1])
      /\ last' = NothingRead
      /\ Keep /\ UNCHANGED log

ImportFails(text) ==
  /\ At("import") /\ ~IsLoaded(instr.from) /\ ~Compiles(TableOf(instr.from), text)
  /\ status' = "error"
  /\ UNCHANGED <<allModules, running, lines, log, last>>

ReadValue(value, got) == [op |-> "get", from |-> instr.from, value |-> value, got |-> got]

IsNull(value) == value = "null"

\* getModuleVariable() of a variable that holds something: the value is copied.
Get ==
  LET table == allModules[instr.from]
  IN  /\ At("get") /\ instr.var \in DOMAIN table /\ ~IsNull(table[instr.var])
      /\ allModules' = Assigned(instr.var, table[instr.var])
      /\ running' = Replaced(Advanced(cur))
      /\ last' = ReadValue(table[instr.var], table[instr.var])
      /\ Keep /\ UNCHANGED log

\* A variable that is null: the primitive returns false, its three arguments stay, and the
\* last of them, the name, is taken for the result; after an error null is put in its place.
GetNull ==
  LET table == allModules[instr.from]
      got == IF cur.error THEN "null" ELSE "name"
  IN  /\ At("get") /\ instr.var \in DOMAIN table /\ IsNull(table[instr.var])
      /\ allModules' = Assigned(instr.var, got)
      /\ running' = Replaced([Advanced(cur) EXCEPT !.stray = @ + 2])
      /\ last' = ReadValue(table[instr.var], got)
      /\ failed' = IF table[instr.var] = "null" THEN failed \cup {"null"} ELSE failed
      /\ Keep /\ UNCHANGED <<runs, finished>>

\* A variable that does not exist: the error is recorded, and the code goes on with null.
GetMissing ==
  /\ At("get") /\ instr.var \notin DOMAIN allModules[instr.from]
  /\ allModules' = Assigned(instr.var, "null")
  /\ running' = Replaced([Advanced(cur) EXCEPT !.stray = @ + 2, !.error = TRUE])
  /\ last' = NothingRead
  /\ failed' = failed \cup {"missing"}
  /\ Keep /\ UNCHANGED <<runs, finished>>

\* Fault: the loop ends when any thread does.
ReturnToHost ==
  /\ status = "running" /\ cur.pc > Len(cur.code)
  /\ running' = Front(running)
  /\ finished' = finished \cup {cur.module}
  /\ status' = "idle"
  /\ last' = NothingRead
  /\ UNCHANGED <<allModules, lines, runs, failed>>

\* The end of a module: the thread that imported it goes on, or the host.
Return ==
  /\ status = "running" /\ cur.pc > Len(cur.code)
  /\ running' = Front(running)
  /\ finished' = finished \cup {cur.module}
  /\ status' = IF Len(running) = 1 THEN "idle" ELSE status
  /\ last' = NothingRead
  /\ UNCHANGED <<allModules, lines, runs, failed>>

Host == \E text \in Text : Execute(text) \/ ExecuteFails(text)

Loop ==
  \/ Define \/ Use \/ ImportAgain \/ Get \/ GetNull \/ GetMissing \/ Return
  \/ \E text \in Text : Import(text) \/ ImportBlocked(text) \/ ImportFails(text)

Next == Host \/ Loop

Spec == Init /\ [][Next]_vars

\* The loop always goes on to the next instruction.
FairSpec == Spec /\ WF_vars(Loop)

-----------------------------------------------------------------------------
(* Properties *)

\* The types of the variables; a variable never holds a line number when code runs.
TypeOK ==
  /\ DOMAIN allModules \subseteq Module
  /\ \A m \in DOMAIN allModules : DOMAIN allModules[m] \subseteq Var /\ Range(allModules[m]) \subseteq Values
  /\ \A i \in DOMAIN running :
       /\ running[i].module \in Module /\ Range(running[i].code) \subseteq Instr
       /\ running[i].pc \in 1..Len(running[i].code) + 1
       /\ running[i].error \in BOOLEAN /\ running[i].stray \in Nat
  /\ lines \in 0..MaxLines
  /\ status \in {"idle", "running", "error"}
  /\ status = "running" <=> running # <<>> /\ status # "error"
  /\ runs \in [Module -> Nat] /\ finished \subseteq Module /\ failed \subseteq {"missing", "null"}

\* However modules import each other, the code of a file is started at most once, and it is
\* started when the file is loaded unless an error had been recorded.
FilesRunOnce ==
  \A m \in File : runs[m] <= 1 /\ (m \in DOMAIN allModules /\ "missing" \notin failed => runs[m] = 1)

\* No module waits for itself: cyclic imports do not make a cycle of threads.
NoModuleAwaitsItself ==
  \A i, j \in DOMAIN running : i # j => running[i].module # running[j].module

\* A variable is imported from a module that has run to its end, or that is itself waiting
\* for this one (unless an error had been recorded).
ImportsFromFinished ==
  last.op = "get" /\ "missing" \notin failed => last.from \in finished \cup {running[i].module : i \in DOMAIN running}

\* No code reads, in a module or through an import, the line number that stands for a
\* variable used before its definition.
LinesNeverRead == last.value # "line" /\ (last.op = "get" => last.got # "line")

\* The threads form a chain that begins at the prompt's: each of them has executed, as its
\* last instruction, the import of the module that the next one runs.
WaitingChain ==
  /\ running # <<>> => running[1].module = Cli
  /\ \A i \in 1..Len(running) - 1 :
       LET t == running[i]
       IN  t.pc > 1 /\ t.code[t.pc - 1].op = "import" /\ t.code[t.pc - 1].from = running[i + 1].module

\* The instructions of a kind that a thread has behind it.
Executed(t, op) == {j \in 1..t.pc - 1 : t.code[j].op = op}

\* An error or a slot that is left comes from the thread's own imports of variables, after
\* one that was null or missing: two slots at most for each, and one for each module whose
\* code was not run because of the error.
LeftoversExplained ==
  \A i \in DOMAIN running :
    LET t == running[i]
    IN  /\ t.error \/ t.stray > 0 => failed # {} /\ Executed(t, "get") # {}
        /\ t.stray <= 2 * Cardinality(Executed(t, "get")) + Cardinality(Executed(t, "import"))

\* Each file is run once, and by one thread, whatever the cycles of imports are.
EachFileOnce == FilesRunOnce /\ NoModuleAwaitsItself

\* What is imported or read has been computed.
ImportsAreComputed == ImportsFromFinished /\ LinesNeverRead

\* The threads of imports in progress wait for each other in a chain, each as its import
\* left it, and none has the error or the leftover slots of another.
ThreadsOK == TypeOK /\ WaitingChain /\ LeftoversExplained

\* Control comes back to the host, however files import each other.
HostRegainsControl == status = "running" ~> status # "running"

\* An import of a variable gives the value it has (not so for null).
ImportGivesTheValue == last.op = "get" => last.got = last.value
=============================================================================
