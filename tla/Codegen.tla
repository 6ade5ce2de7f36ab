------------------------------ MODULE Codegen ------------------------------
(***************************************************************************)
(* The statements of one function or module: how compiler/compiler.c       *)
(* compiles them, in one pass and with the help of placeholders, and how   *)
(* executeInstruction() (vm/vm.c) runs the code.                           *)
(*                                                                         *)
(* First a program is written statement by statement, and each statement   *)
(* is compiled as it is read; then the code is run, with any outcome of    *)
(* every test.  The body of if, else, while and for is a block.            *)
(***************************************************************************)
EXTENDS CompileUnit, FiniteSets

CONSTANTS
  Name,           \* names of variables
  Units,          \* which units are compiled: set of BOOLEAN, TRUE is a module
  ModuleLocals,   \* do blocks and loops of a module have variables?
  MaxStatements,  \* bound: the statements of a program
  MaxPlain        \* bound: those without variables, loops or blocks come among the first

ASSUME CodegenAssumption ==
  /\ NoName \notin Name
  /\ Units \subseteq BOOLEAN /\ ModuleLocals \in BOOLEAN
  /\ MaxStatements \in Nat /\ MaxPlain \in Nat

VARIABLES
  cu,     \* the compile unit, the only one: those of inner functions come and go
  todo,   \* the blocks being read, the innermost last: the kind of statement they belong to, an
          \* address the compiler remembers for it, and the number of scopes around it
  size,   \* the number of statements read
  scopes, \* what the program says: the variables of each block, in order
  marks,  \* what the program says: address of a statement -> number of variables in scope
  jumps,  \* what the program says: address of a break -> the loop it leaves
  ends,   \* what the program says: loop -> address behind it
  phase,  \* "compile", "run", "over", or "aborted" by an ASSERT() of a build with DEBUG
  ip,     \* address of the next instruction
  depth,  \* curThread->esp - stackStart
  open    \* the slots of this frame that have an open upvalue

source == <<todo, size, scopes, marks, jumps, ends>>
machine == <<phase, ip, depth, open>>
vars == <<cu, source, machine>>

seqName == "seq "
iterName == "iter "

Init ==
  /\ \E isModule \in Units : cu = InitCompileUnit(isModule)
  /\ todo = <<>> /\ size = 0 /\ jumps = <<>> /\ ends = <<>> /\ marks = <<>>
  /\ scopes = IF cu.isModule THEN <<>> ELSE <<<<NoName>>>>
  /\ phase = "compile" /\ ip = 0 /\ depth = 0 /\ open = {}

-----------------------------------------------------------------------------
(* Reading and compiling *)

InScope == FlattenSeq(scopes)

\* f is extended by one value, unless it has one there.
Noted(f, a, x) == [b \in DOMAIN f \union {a} |-> IF b \in DOMAIN f THEN f[b] ELSE x]

Mark == Noted(marks, Count(cu), Len(InScope))

\* One more statement begins at the end of the code.
Begin ==
  /\ phase = "compile" /\ size < MaxStatements
  /\ size' = size + 1 /\ marks' = Mark
  /\ UNCHANGED machine

\* A statement without a body has been compiled.
Simple(code) == Begin /\ cu' = code /\ UNCHANGED <<todo, scopes, ends>>

Plain(code) == size < MaxPlain /\ Simple(code)

MayDeclare == cu.isModule => ModuleLocals

\* An expression: the value of some variable is pushed.
Expression(unit) == WriteShort(unit, LOAD_MODULE_VAR, 0)

\* compileVarDefinition() in a block or function: var n = expression
VarDefinition(n) ==
  /\ Begin /\ cu.scopeDepth > -1 /\ MayDeclare
  /\ ~Redefined(cu, n)
  /\ cu' = AddLocalVar(Expression(cu), n)
  /\ scopes' = Front(scopes) \o <<Append(Last(scopes), n)>>
  /\ UNCHANGED <<todo, jumps, ends>>

\* compileVarDefinition() on the top level of a module; the name is a new one.
ModuleVarDefinition ==
  /\ cu.scopeDepth = -1
  /\ Plain(WriteOpCode(WriteShort(Expression(cu), STORE_MODULE_VAR, 0), POP))
  /\ UNCHANGED jumps

\* A call with a block argument whose body uses the variables ns of this unit:
\* findUpvalue(), endCompileUnit() and emitGetterMethodCall().
CallWithBlock(ns) ==
  LET slots == {FindLocal(cu, n) : n \in ns}
      captured == [cu EXCEPT !.localVars = [i \in DOMAIN @ |->
                     IF i - 1 \in slots THEN [@[i] EXCEPT !.isUpvalue = TRUE] ELSE @[i]],
                   !.upvalueNums = Append(@, Cardinality(slots))]
      pairs == [i \in 1..2 * Cardinality(slots) |-> IF i % 2 = 1 THEN 1 ELSE SetToSeq(slots)[i \div 2]]
      closure == WriteShort(Expression(captured), CREATE_CLOSURE, Len(cu.upvalueNums))
  IN  /\ -1 \notin slots /\ (ns = {} => size < MaxPlain)
      /\ Simple(WriteOpCode(WriteShort(WriteBytes(closure, pairs), CALL1, 0), POP))
      /\ UNCHANGED jumps

\* logicOr(), logicAnd(): the right operand is jumped over.
Logic(op) ==
  LET left == EmitInstrWithPlaceholder(Expression(cu), op)
      right == PatchPlaceholder(Expression(left), Placeholder(left))
  IN  Plain(WriteOpCode(right, POP)) /\ UNCHANGED jumps

\* condition(): a ? b : c
Condition ==
  LET test == EmitInstrWithPlaceholder(Expression(cu), JUMP_IF_FALSE)
      yes == EmitInstrWithPlaceholder(Expression(test), JUMP)
      no == Expression(PatchPlaceholder(yes, Placeholder(test)))
  IN  Plain(WriteOpCode(PatchPlaceholder(no, Placeholder(yes)), POP)) /\ UNCHANGED jumps

\* compileReturn(), without a value
Return == Plain(WriteOpCode(WriteOpCode(cu, PUSH_NULL), RETURN)) /\ UNCHANGED jumps

\* The loop around the statement being read, as an index of todo.
AroundLoop == SelectLastInSeq(todo, LAMBDA b : b.kind \in {"while", "for"})

\* Fault: the variables of the loop's body are left on the stack.
BreakWithLocals ==
  /\ cu.loops # <<>>
  /\ Simple(EmitInstrWithPlaceholder(cu, END))
  /\ jumps' = Noted(jumps, Count(cu), todo[AroundLoop].at)

\* compileBreak(): END stands for a jump whose target is not known yet.
Break ==
  /\ cu.loops # <<>>
  /\ LET left == DiscardLocalVar(cu, Last(cu.loops).scopeDepth + 1)
     IN  /\ Simple(EmitInstrWithPlaceholder(left, END))
         /\ jumps' = Noted(jumps, Count(left), todo[AroundLoop].at)

\* Fault: the variables are taken out of the table as well.
ContinueForgetting ==
  /\ cu.loops # <<>>
  /\ LET d == Last(cu.loops).scopeDepth + 1
     IN  Simple([JumpBack(DiscardLocalVar(cu, d)) EXCEPT
                   !.localVars = SubSeq(@, 1, Len(@) - Len(Inner(cu, d)))])
  /\ UNCHANGED jumps

\* compileContinue()
Continue ==
  /\ cu.loops # <<>>
  /\ Simple(JumpBack(DiscardLocalVar(cu, Last(cu.loops).scopeDepth + 1)))
  /\ UNCHANGED jumps

\* A statement begins whose body is the block that is read next.
Enter(code, kind, at, locals) ==
  /\ Begin /\ cu' = EnterScope(code)
  /\ todo' = Append(todo, [kind |-> kind, at |-> at, outer |-> Len(scopes)])
  /\ scopes' = scopes \o locals \o <<<<>>>>
  /\ UNCHANGED <<jumps, ends>>

Block == Enter(cu, "block", 0, <<>>)

\* compileIfStatment() up to the block of the true branch
If ==
  LET test == EmitInstrWithPlaceholder(Expression(cu), JUMP_IF_FALSE)
  IN  Enter(test, "then", Placeholder(test), <<>>)

\* compileWhileStatment() up to the body
While ==
  LET test == EmitInstrWithPlaceholder(Expression(EnterLoop(cu)), JUMP_IF_FALSE)
  IN  Enter(BeginBody(MarkExit(test)), "while", Count(cu), <<>>)

\* compileForStatment() up to the body.
For(n) ==
  LET seq == AddLocalVar(Expression(EnterScope(cu)), seqName)
      iter == AddLocalVar(WriteOpCode(seq, PUSH_NULL), iterName)
      Slot(v) == FindLocal(iter, v)
      Load(unit, v) == WriteBytes(WriteOpCode(unit, LOAD_LOCAL_VAR), <<Slot(v)>>)
      Call(unit) == WriteShort(Load(Load(unit, seqName), iterName), CALL1, 0)
      next == WriteBytes(WriteOpCode(Call(EnterLoop(iter)), STORE_LOCAL_VAR), <<Slot(iterName)>>)
      test == MarkExit(EmitInstrWithPlaceholder(next, JUMP_IF_FALSE))
      value == AddLocalVar(EnterScope(Call(test)), n)
  IN  /\ MayDeclare
      /\ Enter(BeginBody(value), "for", Count(iter), <<<<seqName, iterName>>, <<n>>>>)

\* A block ends: '}' has been read, and the statement it belongs to goes on.
Leave(kind, code) ==
  /\ phase = "compile" /\ todo # <<>> /\ Last(todo).kind = kind
  /\ cu' = code /\ todo' = Front(todo)
  /\ scopes' = SubSeq(scopes, 1, Last(todo).outer)
  /\ UNCHANGED <<size, marks, jumps, machine>>

EndBlock == Leave("block", LeaveScope(cu)) /\ UNCHANGED ends

EndIf == Leave("then", PatchPlaceholder(LeaveScope(cu), Last(todo).at)) /\ UNCHANGED ends

\* compileIfStatment() from the end of the true branch to the block of the other one
Else ==
  /\ phase = "compile" /\ todo # <<>> /\ Last(todo).kind = "then"
  /\ size < MaxStatements /\ size' = size + 1
  /\ LET skip == EmitInstrWithPlaceholder(LeaveScope(cu), JUMP)
     IN  /\ cu' = EnterScope(PatchPlaceholder(skip, Last(todo).at))
         /\ todo' = Append(Front(todo), [Last(todo) EXCEPT !.kind = "else", !.at = Placeholder(skip)])
  /\ scopes' = Append(Front(scopes), <<>>)
  /\ UNCHANGED <<marks, jumps, ends, machine>>

EndElse == Leave("else", PatchPlaceholder(LeaveScope(cu), Last(todo).at)) /\ UNCHANGED ends

EndWhile ==
  LET left == LeaveLoopPatch(LeaveScope(cu))
  IN  Leave("while", left) /\ ends' = Noted(ends, Last(todo).at, Count(left))

\* The block, the scope of the loop variable, the loop, the scope of "seq " and "iter ".
EndFor ==
  LET left == LeaveLoopPatch(LeaveScope(LeaveScope(cu)))
  IN  Leave("for", LeaveScope(left)) /\ ends' = Noted(ends, Last(todo).at, Count(left))

\* The end of the function or module: compileBody() or compileModule(), endCompileUnit().
EndUnit ==
  /\ phase = "compile" /\ todo = <<>>
  /\ cu' = WriteOpCode(WriteOpCode(WriteOpCode(cu, PUSH_NULL), RETURN), END)
  /\ marks' = Mark
  /\ phase' = "run" /\ depth' = IF cu.isModule THEN 0 ELSE 1
  /\ UNCHANGED <<todo, size, scopes, jumps, ends, ip, open>>

Compile ==
  \/ \E n \in Name : VarDefinition(n) \/ For(n)
  \/ \E ns \in SUBSET Name : CallWithBlock(ns)
  \/ \E op \in {AND, OR} : Logic(op)
  \/ ModuleVarDefinition \/ Condition \/ Return \/ Break \/ Continue
  \/ Block \/ If \/ While
  \/ EndBlock \/ EndIf \/ Else \/ EndElse \/ EndWhile \/ EndFor \/ EndUnit

-----------------------------------------------------------------------------
(* Running *)

Fetch(op) == phase = "run" /\ ByteAt(cu, ip) = op

\* The instruction takes the given number of bytes, jumps ahead, and the stack grows.
Step(bytes, jump, slots) ==
  /\ ip' = ip + bytes + jump /\ depth' = depth + slots
  /\ UNCHANGED <<cu, source, phase>>

Operand == ShortAt(cu, ip + 1)

\* READ_SHORT() assigned to an int16_t: from half of the range on the offset is negative.
Half == (BYTE * BYTE) \div 2
AsSigned(n) == IF n < Half THEN n ELSE n - BYTE * BYTE
Offset == AsSigned(Operand)

PushNull == Fetch(PUSH_NULL) /\ Step(1, 0, 1) /\ UNCHANGED open
LoadLocalVar == Fetch(LOAD_LOCAL_VAR) /\ Step(2, 0, 1) /\ UNCHANGED open
LoadModuleVar == Fetch(LOAD_MODULE_VAR) /\ Step(3, 0, 1) /\ UNCHANGED open
StoreLocalVar == Fetch(STORE_LOCAL_VAR) /\ Step(2, 0, 0) /\ UNCHANGED open
StoreModuleVar == Fetch(STORE_MODULE_VAR) /\ Step(3, 0, 0) /\ UNCHANGED open
Pop == Fetch(POP) /\ Step(1, 0, -1) /\ UNCHANGED open
\* The callee returns in the end: its value takes the place of receiver and argument.
Call1 == Fetch(CALL1) /\ Step(3, 0, -1) /\ UNCHANGED open
Jump == Fetch(JUMP) /\ Step(3, Offset, 0) /\ UNCHANGED open
Loop == Fetch(LOOP) /\ Step(3, -Offset, 0) /\ UNCHANGED open
JumpIfFalse == Fetch(JUMP_IF_FALSE) /\ UNCHANGED open
               /\ \E jump \in {0, Offset} : Step(3, jump, -1)
\* && and ||: the left operand decides and stays, or it is dropped.
AndOr == (Fetch(AND) \/ Fetch(OR)) /\ UNCHANGED open
         /\ (Step(3, Offset, 0) \/ Step(3, 0, -1))

\* ASSERT(offset > 0, ...): in a build with DEBUG the program ends here, in others it goes on.
AssertionFails ==
  /\ \E op \in {JUMP, LOOP, JUMP_IF_FALSE, AND, OR} : Fetch(op)
  /\ Offset <= 0
  /\ phase' = "aborted" /\ UNCHANGED <<cu, source, ip, depth, open>>

\* One open upvalue per slot: createOpenUpvalue() finds the one there is.
CreateClosure ==
  LET n == cu.upvalueNums[Operand + 1]
  IN  /\ Fetch(CREATE_CLOSURE)
      /\ open' = open \union {ByteAt(cu, ip + 2 + 2 * i) : i \in 1..n}
      /\ Step(3 + 2 * n, 0, 1)

\* closeUpvalue() for the slot on the top and those above
CloseUpvalue ==
  /\ Fetch(CLOSE_UPVALUE)
  /\ open' = {s \in open : s < depth - 1}
  /\ Step(1, 0, -1)

ReturnFrom ==
  /\ Fetch(RETURN)
  /\ phase' = "over" /\ open' = {} /\ depth' = 1
  /\ UNCHANGED <<cu, source, ip>>

Over == phase \in {"over", "aborted"} /\ UNCHANGED vars

Run ==
  \/ PushNull \/ LoadLocalVar \/ LoadModuleVar \/ StoreLocalVar \/ StoreModuleVar \/ Pop
  \/ Call1 \/ Jump \/ Loop \/ JumpIfFalse \/ AndOr \/ CreateClosure \/ CloseUpvalue
  \/ AssertionFails \/ ReturnFrom \/ Over

Next == Compile \/ Run

Spec == Init /\ [][Next]_vars

-----------------------------------------------------------------------------
(* Properties *)

\* The stream holds bytes, and the variables have the expected types.
TypeOK ==
  /\ cu.code \in Seq(0..BYTE - 1)
  /\ cu.scopeDepth >= -1 /\ cu.stackSlotNum \in 0..cu.maxSlots
  /\ \A i \in DOMAIN cu.localVars : cu.localVars[i].scopeDepth <= cu.scopeDepth
  /\ phase \in {"compile", "run", "over", "aborted"} /\ ip \in 0..Count(cu) /\ depth \in Nat

\* The names the compiler finds are those in scope, in the order of their declarations:
\* blocks, break and continue leave the right ones in the table (leaveScope(),
\* discardLocalVar(), findLocal()).
LocalsAreLexical == [i \in DOMAIN cu.localVars |-> cu.localVars[i].name] = InScope

\* On whatever way a statement is reached, the stack holds the variables in scope there
\* and nothing else: a variable's slot is where the compiler takes it to be.
StackMatchesScopes == phase = "run" /\ ip \in DOMAIN marks => depth = marks[ip]

\* A slot that a closure still refers to is never given up, however the block of its
\* variable is left: the upvalue is closed first.
NoOpenUpvalueLost == \A s \in open : s < depth

\* The stack of a frame never grows beyond what its function says it needs
\* (maxStackSlotUsedNum, for which createFrame() makes room).
StackWithinMax == phase = "run" => depth <= cu.maxSlots

\* Each break has become a jump behind the loop it stands in (leaveLoopPatch()).
BreaksLeaveTheirLoop ==
  \A a \in DOMAIN jumps : jumps[a] \in DOMAIN ends =>
    /\ ByteAt(cu, a) = JUMP
    /\ a + 3 + AsSigned(ShortAt(cu, a + 1)) = ends[jumps[a]]

\* The instruction pointer stays on the instructions that getBytesOfOperands() tells
\* apart, and never reaches OPCODE_END.
DecodesInstructions ==
  phase = "run" => ip \in Addresses(cu, 0) /\ ByteAt(cu, ip) # END

\* What the stack holds is what the compiler counted, by variables and as a whole.
StackOK == StackMatchesScopes /\ StackWithinMax

\* Where the ASSERT() on an offset stops the program there is nothing to jump over: the body
\* is empty, the jump of the other builds goes to the next instruction, and no jump is ever
\* taken for one in the opposite direction.
AbortsAtEmptyBodies == phase = "aborted" => Operand = 0

\* What those assertions say of the compiler.  It is not so: "if (x) {}" has offsets of 0.
OffsetsArePositive == phase # "aborted"

\* The code is one of whole instructions, and control stays on them, whichever build runs it.
CodeOK == TypeOK /\ BreaksLeaveTheirLoop /\ DecodesInstructions /\ AbortsAtEmptyBodies
=============================================================================
