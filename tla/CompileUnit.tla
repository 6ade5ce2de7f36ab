---------------------------- MODULE CompileUnit ----------------------------
(***************************************************************************)
(* The compile unit of one function or of one module (compiler/compiler.c, *)
(* struct compileUnit) and the functions that write its instruction stream *)
(* and keep its table of local variables.  Each operator has the unit      *)
(* before as its first argument and returns the unit after.                *)
(*                                                                         *)
(* Addresses count from 0, as in the instruction stream.  The opcodes are  *)
(* those that the statements of module Codegen are compiled to.            *)
(***************************************************************************)
EXTENDS Integers, Sequences, SequencesExt

CONSTANT BYTE   \* the number of values of a byte, 256 in the program

\* In the order of vm/opcode.inc, where 0 is OPCODE_LOAD_CONSTANT.
PUSH_NULL       == 1
LOAD_LOCAL_VAR  == 2
STORE_LOCAL_VAR == 3
LOAD_MODULE_VAR == 4
STORE_MODULE_VAR== 5
POP             == 6
CALL1           == 7
JUMP            == 8
LOOP            == 9
JUMP_IF_FALSE   == 10
AND             == 11
OR              == 12
CLOSE_UPVALUE   == 13
RETURN          == 14
CREATE_CLOSURE  == 15
END             == 16

\* No opcode is the placeholder byte.
ASSUME CompileUnitAssumption == BYTE \in Nat /\ BYTE > END + 1

\* opCodeSlotsUsed: by how many slots the stack is taken to grow.
SlotsUsed(op) ==
  CASE op \in {PUSH_NULL, LOAD_LOCAL_VAR, LOAD_MODULE_VAR, CREATE_CLOSURE} -> 1
    [] op \in {POP, CALL1, JUMP_IF_FALSE, AND, OR, CLOSE_UPVALUE} -> -1
    [] OTHER -> 0

-----------------------------------------------------------------------------
(* The instruction stream *)

Count(cu) == Len(cu.code)
ByteAt(cu, a) == cu.code[a + 1]
ShortAt(cu, a) == ByteAt(cu, a) * BYTE + ByteAt(cu, a + 1)

WriteBytes(cu, bytes) == [cu EXCEPT !.code = @ \o bytes]

\* Fault: the slots are compared before those of the instruction are added.
WriteOpCodeLate(cu, op) ==
  [WriteBytes(cu, <<op>>) EXCEPT !.stackSlotNum = @ + SlotsUsed(op),
     !.maxSlots = IF cu.stackSlotNum > @ THEN cu.stackSlotNum ELSE @]

\* writeOpCode()
WriteOpCode(cu, op) ==
  LET n == cu.stackSlotNum + SlotsUsed(op)
  IN  [WriteBytes(cu, <<op>>) EXCEPT !.stackSlotNum = n, !.maxSlots = IF n > @ THEN n ELSE @]

High(n) == (n \div BYTE) % BYTE
Low(n) == n % BYTE

WriteShort(cu, op, n) == WriteBytes(WriteOpCode(cu, op), <<High(n), Low(n)>>)

EmitInstrWithPlaceholder(cu, op) == WriteBytes(WriteOpCode(cu, op), <<BYTE - 1, BYTE - 1>>)

\* The address of the placeholder that has just been written.
Placeholder(cu) == Count(cu) - 2

\* Fault: the low byte alone is patched.
PatchLowByte(cu, a) ==
  [cu EXCEPT !.code[a + 1] = 0, !.code[a + 2] = Low(Count(cu) - a - 2)]

\* patchPlaceholder(): the operand at address a becomes the distance from behind it to the end of the code.
PatchPlaceholder(cu, a) ==
  LET offset == Count(cu) - a - 2
  IN  [cu EXCEPT !.code[a + 1] = High(offset), !.code[a + 2] = Low(offset)]

-----------------------------------------------------------------------------
(* Scopes and local variables *)

Local(name, depth) == [name |-> name, scopeDepth |-> depth, isUpvalue |-> FALSE]

CONSTANT NoName   \* localVars[0].name of a function: the closure's own slot

\* initCompileUnit(): a module has no enclosing unit, and its scope depth is -1.
InitCompileUnit(isModule) ==
  LET locals == IF isModule THEN <<>> ELSE <<Local(NoName, -1)>>
  IN  [isModule |-> isModule, scopeDepth |-> IF isModule THEN -1 ELSE 0,
       localVars |-> locals, stackSlotNum |-> Len(locals), maxSlots |-> Len(locals),
       code |-> <<>>, upvalueNums |-> <<>>, loops |-> <<>>]

AddLocalVar(cu, name) ==
  [cu EXCEPT !.localVars = Append(@, Local(name, cu.scopeDepth))]

\* declareLocalVar() finds the name among the variables of the innermost scope.
Redefined(cu, name) ==
  \E i \in DOMAIN cu.localVars :
    /\ cu.localVars[i].name = name
    /\ \A j \in i..Len(cu.localVars) : cu.localVars[j].scopeDepth >= cu.scopeDepth

\* Fault: the outermost declaration is found first.
FindOutermost(cu, name) ==
  LET found == {i \in DOMAIN cu.localVars : cu.localVars[i].name = name}
  IN  IF found = {} THEN -1 ELSE Min(found) - 1

\* findLocal(): the slot of the innermost variable of that name, or -1.
FindLocal(cu, name) ==
  LET found == {i \in DOMAIN cu.localVars : cu.localVars[i].name = name}
  IN  IF found = {} THEN -1 ELSE Max(found) - 1

\* The variables declared at a scope depth of at least depth, the last one first.
Inner(cu, depth) ==
  LET kept == {i \in DOMAIN cu.localVars : cu.localVars[i].scopeDepth < depth}
  IN  Reverse(SubSeq(cu.localVars, Max(kept \union {0}) + 1, Len(cu.localVars)))

\* Fault: captured variables are popped like the others.
PopLocalVars(cu, depth) == WriteBytes(cu, [i \in DOMAIN Inner(cu, depth) |-> POP])

\* discardLocalVar(): the instructions only, the table of variables stays.
DiscardLocalVar(cu, depth) ==
  WriteBytes(cu, [i \in DOMAIN Inner(cu, depth) |->
                    IF Inner(cu, depth)[i].isUpvalue THEN CLOSE_UPVALUE ELSE POP])

EnterScope(cu) == [cu EXCEPT !.scopeDepth = @ + 1]

\* Fault: the slots are given back twice, as if discardLocalVar() used writeOpCode().
LeaveScopeTwice(cu) ==
  LET n == Len(Inner(cu, cu.scopeDepth))
  IN  [(IF cu.isModule THEN cu ELSE DiscardLocalVar(cu, cu.scopeDepth)) EXCEPT
         !.localVars = IF cu.isModule THEN @ ELSE SubSeq(@, 1, Len(@) - n),
         !.stackSlotNum = @ - 2 * n, !.scopeDepth = @ - 1]

\* leaveScope(): in a module the variables stay in the table and on the stack.
LeaveScope(cu) ==
  LET n == Len(Inner(cu, cu.scopeDepth))
      left == IF cu.isModule THEN cu
              ELSE [DiscardLocalVar(cu, cu.scopeDepth) EXCEPT
                      !.localVars = SubSeq(@, 1, Len(@) - n), !.stackSlotNum = @ - n]
  IN  [left EXCEPT !.scopeDepth = @ - 1]

-----------------------------------------------------------------------------
(* Loops *)

\* Fault: the pairs of bytes behind OPCODE_CREATE_CLOSURE are not counted.
BytesOfOpcodeOnly(cu, a) ==
  CASE ByteAt(cu, a) \in {RETURN, END, CLOSE_UPVALUE, PUSH_NULL, POP} -> 0
    [] ByteAt(cu, a) \in {LOAD_LOCAL_VAR, STORE_LOCAL_VAR} -> 1
    [] OTHER -> 2

\* getBytesOfOperands() of the instruction at address a.
BytesOfOperands(cu, a) ==
  CASE ByteAt(cu, a) \in {RETURN, END, CLOSE_UPVALUE, PUSH_NULL, POP} -> 0
    [] ByteAt(cu, a) \in {LOAD_LOCAL_VAR, STORE_LOCAL_VAR} -> 1
    [] ByteAt(cu, a) = CREATE_CLOSURE -> 2 + 2 * cu.upvalueNums[ShortAt(cu, a + 1) + 1]
    [] OTHER -> 2

\* enterLoopSetting(): the loop becomes the innermost one.
EnterLoop(cu) ==
  [cu EXCEPT !.loops = Append(@, [condStartIndex |-> Count(cu) - 1, bodyStartIndex |-> 0,
                                  scopeDepth |-> cu.scopeDepth, exitIndex |-> 0])]

\* The exit has just been written and the body begins (compileLoopBody()).
BeginBody(cu) == [cu EXCEPT !.loops[Len(cu.loops)].bodyStartIndex = Count(cu)]
MarkExit(cu) == [cu EXCEPT !.loops[Len(cu.loops)].exitIndex = Placeholder(cu)]

\* The jump back to the condition that ends the body, and that of continue.
JumpBack(cu) == WriteShort(cu, LOOP, Count(cu) - Last(cu.loops).condStartIndex + 2)

\* How far leaveLoopPatch() goes on: OPCODE_END has room for the operand of a jump.
Width(cu, a) == IF ByteAt(cu, a) = END THEN 3 ELSE 1 + BytesOfOperands(cu, a)

\* The values of idx in leaveLoopPatch(), from address a to the end of the code.
Addresses(cu, a) ==
  LET from[idx \in 0..Count(cu) - 1] ==
        LET next == idx + Width(cu, idx)
        IN  {idx} \union (IF next \in idx + 1..Count(cu) - 1 THEN from[next] ELSE {})
  IN  IF a < Count(cu) THEN from[a] ELSE {}

\* The instructions from address a on that are OPCODE_END, the placeholder of break.
BreaksFrom(cu, a) == {idx \in Addresses(cu, a) : ByteAt(cu, idx) = END}

\* Each of them becomes a jump to the end of the code.
PatchBreaks(cu, breaks) ==
  [cu EXCEPT !.code = [i \in DOMAIN @ |->
     CASE i - 1 \in breaks -> JUMP
       [] i - 2 \in breaks -> High(Count(cu) - i - 1)
       [] i - 3 \in breaks -> Low(Count(cu) - i)
       [] OTHER -> @[i]]]

\* leaveLoopPatch()
LeaveLoopPatch(cu) ==
  LET exited == PatchPlaceholder(JumpBack(cu), Last(cu.loops).exitIndex)
      broken == PatchBreaks(exited, BreaksFrom(exited, Last(cu.loops).bodyStartIndex))
  IN  [broken EXCEPT !.loops = Front(@)]
=============================================================================
