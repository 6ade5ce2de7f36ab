------------------------------ MODULE Classes ------------------------------
(***************************************************************************)
(* Classes: what the compiler writes for them (compiler/compiler.c,        *)
(* compileClassDefinition() and what it calls) and what the instructions   *)
(* of the module make of it (vm/vm.c, object/class.c, vm/core.c).          *)
(*                                                                         *)
(* The definitions of a file are compiled one after the other, member by   *)
(* member; then the code of the module runs.  Inheritance is by copying:   *)
(* a class gets the methods its base class has when it is created.  Fields *)
(* are numbered from 0 in each class; the operands are corrected by the    *)
(* number of inherited fields when a method is bound.  The base class of   *)
(* a super call is filled in at the same time.                             *)
(*                                                                         *)
(* Class c of the program is classes[c]; classes[0] is object.  The code   *)
(* of the module has one element for each straight piece of instructions.  *)
(***************************************************************************)
EXTENDS Integers, Sequences, SequencesExt, FiniteSets, FiniteSetsExt, Functions

CONSTANTS
  Sign,           \* signatures of methods
  Primitive,      \* those object has as primitives
  New,            \* the signature of constructors
  MAX_FIELD_NUM,  \* most fields of a class with those it inherits
  BYTE,           \* values of a byte
  BlockFields,    \* may a block argument use the fields of its method's class?
  ManyFields,     \* may a class have more fields than a byte counts?
  EarlyStatics,   \* may another class follow a class with static fields?
  InitStatics,    \* may a static field that is initialized be followed by another?
  MaxClasses,     \* bound: classes
  MaxMembers      \* bound: members, those of all classes taken together

ASSUME ClassesAssumption ==
  /\ IsFiniteSet(Primitive) /\ Primitive \subseteq Sign /\ New \notin Sign
  /\ MAX_FIELD_NUM \in Nat /\ BYTE \in Nat /\ MAX_FIELD_NUM < BYTE
  /\ BlockFields \in BOOLEAN /\ ManyFields \in BOOLEAN /\ EarlyStatics \in BOOLEAN /\ InitStatics \in BOOLEAN
  /\ MaxClasses \in Nat /\ MaxMembers \in Nat

VARIABLES
  allMethodNames,  \* the signatures seen so far: the index of one is its place, from 0
  book,            \* enclosingClassBK and the place of CREATE_CLASS in the code
  code,            \* the code of the module
  members,         \* how many members have been read
  said,            \* what the program says: the members of each class
  phase,           \* "module", "class", "running", "done", "error" or "crashed"
  pc,              \* the next element of the code
  stack,           \* the stack of the module's thread
  moduleVars,      \* the module variables of the classes; 0 is that of object
  classes          \* the classes that exist

compiled == <<allMethodNames, book, code, members, said>>
run == <<pc, stack, moduleVars, classes>>
vars == <<compiled, phase, run>>

Class(c) == <<"class", c>>
ClassName(c) == <<"name", c>>
Null == <<"null">>
Initial(i) == <<"initial", i>>
IsClass(value) == value[1] = "class"

NoBook == [class |-> 0, fields |-> 0, instantMethods |-> {}, staticMethods |-> {},
           statics |-> <<>>, createClass |-> 0]

\* A function: its class and the field its source refers to, and the one
\* instruction that is of interest here, with its operands as they are written.
classOfClass == -1
NoBase == -2
NoFn == [class |-> 0, op |-> "PUSH_NULL", operand |-> 0, base |-> NoBase, inBlock |-> FALSE, field |-> 0]
MT_NONE == [type |-> "none", fn |-> NoFn]
MT_PRIMITIVE == [type |-> "primitive", fn |-> NoFn]
Script(fn) == [type |-> "script", fn |-> fn]

IndexOf(names, sign) == CHOOSE i \in 0..Len(names) - 1 : names[i + 1] = sign
EnsureSymbolExist(names, sign) == IF sign \in Range(names) THEN names ELSE Append(names, sign)

PrimitiveTable == [i \in 1..Cardinality(Primitive) |-> MT_PRIMITIVE]
Object == [superClass |-> 0, fieldNum |-> 0, methods |-> PrimitiveTable, meta |-> PrimitiveTable]

Init ==
  /\ allMethodNames = SetToSeq(Primitive)
  /\ book = NoBook /\ code = <<>> /\ members = 0 /\ said = <<>>
  /\ phase = "module" /\ pc = 1
  /\ stack = <<>>
  /\ moduleVars = [c \in 0..MaxClasses |-> IF c = 0 THEN Class(0) ELSE Null]
  /\ classes = [c \in {0} |-> Object]

-----------------------------------------------------------------------------
(* Compiling *)

SaidStatics(c) == said[c].statics
HasStatics(c) == SaidStatics(c) # <<>>

\* Fault: a static field does not count as a local variable of the unit.
SameLocal == 0

localVarNum == Cardinality({i \in DOMAIN code : code[i].op = "STATIC_FIELD"})
Writable == phase = "class" /\ members < MaxMembers

\* compileClassDefinition() up to the body: the number of fields is not known yet.
OpenClass(super) ==
  LET c == Len(said) + 1
      create == [op |-> "CREATE_CLASS", class |-> c, superClass |-> super, operand |-> BYTE - 1]
  IN  /\ phase = "module" /\ c <= MaxClasses /\ super \in 0..c
      /\ EarlyStatics \/ \A d \in DOMAIN said : ~HasStatics(d)
      /\ phase' = "class"
      /\ code' = Append(code, create)
      /\ book' = [NoBook EXCEPT !.class = c, !.createClass = Len(code) + 1]
      /\ said' = Append(said, [superClass |-> super, fields |-> 0, defined |-> {}, static |-> {}, statics |-> <<>>])
      /\ UNCHANGED <<allMethodNames, members, run>>

\* The end of a class: its fields are counted, and the number is filled in.
CloseClass ==
  /\ phase = "class"
  /\ code' = [code EXCEPT ![book.createClass].operand = book.fields % BYTE]
  /\ book' = NoBook
  /\ phase' = "module"
  /\ UNCHANGED <<allMethodNames, members, said, run>>

\* "var f": a new entry of the symbol table of the class.  That there are too many is only
\* noticed in the branch for fields that exist already.
Field ==
  /\ Writable
  /\ ManyFields \/ book.fields < BYTE - 1
  /\ book' = [book EXCEPT !.fields = @ + 1]
  /\ said' = [said EXCEPT ![book.class].fields = @ + 1]
  /\ members' = members + 1
  /\ UNCHANGED <<allMethodNames, code, phase, run>>

\* "static var s": a local variable of the unit of the module, perhaps with a value.
StaticField(initialized) ==
  LET index == localVarNum
  IN  /\ Writable
      /\ InitStatics \/ \A s \in Range(SaidStatics(book.class)) : s = Null
      /\ code' = Append(code, [op |-> "STATIC_FIELD", index |-> index, initialized |-> initialized])
      /\ said' = [said EXCEPT ![book.class].statics = Append(@, IF initialized THEN Initial(index) ELSE Null)]
      /\ members' = members + 1
      /\ UNCHANGED <<allMethodNames, book, phase, run>>

\* What a body may do: nothing, use a field declared before it, or call the method of the
\* base class of the same signature; in a method on instances also from a block argument,
\* whose unit finds the class among those that enclose it.
Plain == [NoFn EXCEPT !.class = book.class]
UseOfField(i, inBlock) ==
  [Plain EXCEPT !.op = "LOAD_THIS_FIELD", !.field = i, !.operand = i % BYTE, !.inBlock = inBlock]
SuperCall(index, inBlock) == [Plain EXCEPT !.op = "SUPER", !.operand = index, !.inBlock = inBlock]
Places(blocks) == {FALSE, blocks}
Bodies(index, isStatic) ==
  {Plain} \cup {SuperCall(index, b) : b \in Places(~isStatic)}
    \cup IF isStatic THEN {} ELSE {UseOfField(i, b) : i \in 0..book.fields - 1, b \in Places(BlockFields)}

Bind(isStatic, index, fn) == [op |-> "METHOD", isStatic |-> isStatic, class |-> book.class, index |-> index, fn |-> fn]

\* Fault: a method is looked up among those of the other kind.
RepeatedElsewhere(sign, isStatic) == sign \in IF isStatic THEN book.instantMethods ELSE book.staticMethods

\* declareMethod(): is the method there already?
Repeated(sign, isStatic) == sign \in IF isStatic THEN book.staticMethods ELSE book.instantMethods

\* compileMethod() for a method that is not a constructor.
Method(sign, isStatic) ==
  LET names == EnsureSymbolExist(allMethodNames, sign)
      index == IndexOf(names, sign)
  IN  /\ Writable
      /\ ~Repeated(sign, isStatic)
      /\ allMethodNames' = names
      /\ book' = IF isStatic THEN [book EXCEPT !.staticMethods = @ \cup {sign}]
                 ELSE [book EXCEPT !.instantMethods = @ \cup {sign}]
      /\ \E body \in Bodies(index, isStatic) : code' = Append(code, Bind(isStatic, index, body))
      /\ said' = IF isStatic THEN [said EXCEPT ![book.class].static = @ \cup {sign}]
                 ELSE [said EXCEPT ![book.class].defined = @ \cup {sign}]
      /\ members' = members + 1
      /\ UNCHANGED <<phase, run>>

\* compileMethod() for a constructor: a method that is called on the new instance, and a
\* static method of the same signature that creates it (emitCreateInstance()).
Constructor ==
  LET names == EnsureSymbolExist(allMethodNames, New)
      index == IndexOf(names, New)
      creator == [NoFn EXCEPT !.class = book.class, !.op = "CONSTRUCT", !.operand = index]
  IN  /\ Writable
      /\ ~Repeated(New, FALSE)
      /\ allMethodNames' = names
      /\ book' = [book EXCEPT !.instantMethods = @ \cup {New}]
      /\ \E body \in Bodies(index, FALSE) :
           code' = code \o <<Bind(FALSE, index, body), Bind(TRUE, index, creator)>>
      /\ said' = [said EXCEPT ![book.class].defined = @ \cup {New}]
      /\ members' = members + 1
      /\ UNCHANGED <<phase, run>>

\* A method that is there already, or a static constructor: the error ends the process.
Refused(sign, isStatic) ==
  /\ Writable
  /\ Repeated(sign, isStatic) \/ (isStatic /\ sign = New)
  /\ phase' = "error"
  /\ UNCHANGED <<compiled, run>>

EndModule ==
  /\ phase = "module" /\ said # <<>>
  /\ phase' = "running"
  /\ UNCHANGED <<compiled, run>>

-----------------------------------------------------------------------------
(* Running the code of the module *)

instr == code[pc]
Running(op) == phase = "running" /\ pc <= Len(code) /\ instr.op = op
Stop(how) == phase' = how /\ UNCHANGED <<compiled, run>>

\* Fault: the method lies behind the end of a table that is too short.
BoundAtEnd(table, index, method) ==
  IF index < Len(table) THEN [table EXCEPT ![index + 1] = method] ELSE Append(table, method)

\* bindMethod(): a short table is filled up.
Bound(table, index, method) ==
  LET pad == [i \in 1..index + 1 - Len(table) |-> MT_NONE]
  IN  [table \o pad EXCEPT ![index + 1] = method]

\* Fault: a metaclass inherits from the metaclass of the base class.
NewClassOfMeta(super, fieldNum) ==
  [superClass |-> super, fieldNum |-> fieldNum + classes[super].fieldNum,
   methods |-> classes[super].methods, meta |-> classes[super].meta]

\* newClass() and bindSuperClass(): the metaclass inherits from classOfClass, whatever the base class.
NewClass(super, fieldNum) ==
  [superClass |-> super, fieldNum |-> fieldNum + classes[super].fieldNum,
   methods |-> classes[super].methods, meta |-> PrimitiveTable]

\* Fault: only the class's own fields are counted.
ValidOwnFields(value, fieldNum) == IsClass(value) /\ fieldNum <= MAX_FIELD_NUM

\* validateSuperClass()
ValidSuperClass(value, fieldNum) ==
  IsClass(value) /\ classes[value[2]].fieldNum + fieldNum <= MAX_FIELD_NUM

\* Fault: the base class stays on the stack.
PlacedBelow(slots, c) == Append([slots EXCEPT ![1] = Class(c)], Class(0))

\* The class is put in the first slot of the frame, which is the top of the stack only if
\* there is nothing else on it.
Placed(slots, c) == [slots EXCEPT ![1] = Class(c)]

\* The classes, and the one newClass() has made.
WithClass(c, class) == [d \in DOMAIN classes \cup {c} |-> IF d = c THEN class ELSE classes[d]]

\* LOAD_CONSTANT name; LOAD_MODULE_VAR super; CREATE_CLASS n; STORE_MODULE_VAR; POP
CreateClass ==
  LET super == moduleVars[instr.superClass]
      created == Placed(Append(stack, ClassName(instr.class)), instr.class)
  IN  /\ Running("CREATE_CLASS")
      /\ ValidSuperClass(super, instr.operand)
      /\ classes' = WithClass(instr.class, NewClass(super[2], instr.operand))
      /\ moduleVars' = [moduleVars EXCEPT ![instr.class] = Last(created)]
      /\ stack' = Front(created)
      /\ pc' = pc + 1
      /\ UNCHANGED <<compiled, phase>>

CreateClassFails ==
  /\ Running("CREATE_CLASS")
  /\ ~ValidSuperClass(moduleVars[instr.superClass], instr.operand)
  /\ Stop("error")

\* PUSH_NULL; value; STORE_LOCAL_VAR index: the value stays on the stack.
DefineStatic ==
  LET defined == Append(stack, Null)
      value == Initial(instr.index)
  IN  /\ Running("STATIC_FIELD")
      /\ stack' = IF instr.initialized THEN [Append(defined, value) EXCEPT ![instr.index + 1] = value] ELSE defined
      /\ pc' = pc + 1
      /\ UNCHANGED <<compiled, phase, moduleVars, classes>>

\* Fault: a block argument is not corrected.
PatchedOutside(fn, super, inherited) ==
  IF fn.inBlock THEN fn
  ELSE CASE fn.op = "LOAD_THIS_FIELD" -> [fn EXCEPT !.operand = (@ + inherited) % BYTE]
         [] fn.op = "SUPER" -> [fn EXCEPT !.base = super]
         [] OTHER -> fn

\* Fault: fields are not corrected.
PatchedSuper(fn, super, inherited) == IF fn.op = "SUPER" THEN [fn EXCEPT !.base = super] ELSE fn

\* patchOperand(), which enters the functions that the instructions create closures of.
Patched(fn, super, inherited) ==
  CASE fn.op = "LOAD_THIS_FIELD" -> [fn EXCEPT !.operand = (@ + inherited) % BYTE]
    [] fn.op = "SUPER" -> [fn EXCEPT !.base = super]
    [] OTHER -> fn

\* CREATE_CLOSURE; LOAD_MODULE_VAR; INSTANCE_METHOD or STATIC_METHOD index.
\* VALUE_TO_CLASS() takes whatever the variable holds for a class.
BindMethod ==
  LET value == moduleVars[instr.class]
      c == value[2]
      super == classes[c].superClass
      bound == IF instr.isStatic
               THEN [classes EXCEPT ![c].meta = Bound(@, instr.index, Script(Patched(instr.fn, classOfClass, 0)))]
               ELSE [classes EXCEPT ![c].methods =
                       Bound(@, instr.index, Script(Patched(instr.fn, super, classes[super].fieldNum)))]
  IN  /\ Running("METHOD")
      /\ classes' = IF IsClass(value) THEN bound ELSE classes
      /\ phase' = IF IsClass(value) THEN phase ELSE "crashed"
      /\ pc' = pc + 1
      /\ UNCHANGED <<compiled, stack, moduleVars>>

Return == phase = "running" /\ pc > Len(code) /\ Stop("done")

Compile ==
  \/ \E super \in 0..MaxClasses : OpenClass(super)
  \/ CloseClass
  \/ Field
  \/ \E initialized \in BOOLEAN : StaticField(initialized)
  \/ \E sign \in Sign, isStatic \in BOOLEAN : Method(sign, isStatic)
  \/ Constructor
  \/ \E sign \in Sign \cup {New}, isStatic \in BOOLEAN : Refused(sign, isStatic)
  \/ EndModule

Run == CreateClass \/ CreateClassFails \/ DefineStatic \/ BindMethod \/ Return

Next == Compile \/ Run

Spec == Init /\ [][Next]_vars

-----------------------------------------------------------------------------
(* Properties *)

\* All of class c has been executed.
Complete(c) ==
  /\ c \in DOMAIN classes
  /\ \A i \in pc..Len(code) : code[i].op = "METHOD" => code[i].class # c

\* What the program says: class c and its base classes but object, and the fields before its own.
Ancestors(c) == LET anc[d \in 0..c] == IF d = 0 THEN {} ELSE {d} \cup anc[said[d].superClass] IN anc[c]
Offset(c) == LET off[d \in 0..c] == IF d = 0 \/ said[d].superClass = 0 THEN 0
                                    ELSE off[said[d].superClass] + said[said[d].superClass].fields
             IN  off[c]

\* What an instruction CALLx finds in a table.  The test lets the index behind the end pass:
\* what lies there was never written.
Unwritten == [type |-> "unwritten", fn |-> NoFn]
Lookup(table, index) ==
  CASE index > Len(table) -> MT_NONE
    [] index = Len(table) -> Unwritten
    [] OTHER -> table[index + 1]

Methods(c) == {m \in Range(classes[c].methods) : m.type = "script"}
StaticMethods(c) == {m \in Range(classes[c].meta) : m.type = "script"}

\* The types of the variables; operands of one byte are bytes, and a class has at most as
\* many fields as validateSuperClass() allows.
TypeOK ==
  /\ allMethodNames \in Seq(Sign \cup {New}) /\ members \in 0..MaxMembers
  /\ phase \in {"module", "class", "running", "done", "error", "crashed"}
  /\ pc \in 1..Len(code) + 1
  /\ \A i \in DOMAIN code : code[i].op = "CREATE_CLASS" => code[i].operand \in 0..BYTE - 1
  /\ DOMAIN moduleVars = 0..MaxClasses
  /\ \A c \in DOMAIN classes :
       /\ c <= Len(said) /\ classes[c].fieldNum \in 0..MAX_FIELD_NUM
       /\ \A m \in Methods(c) \cup StaticMethods(c) : m.fn.operand \in 0..BYTE + Len(allMethodNames)

\* A method that is called on an instance is the one its nearest class defines, a primitive of
\* object, or refused, although classes only have copies of the tables of their base classes
\* (unless what is read was never written).
DispatchFollowsHierarchy ==
  \A c \in DOMAIN classes, sign \in Range(allMethodNames) :
    LET found == Lookup(classes[c].methods, IndexOf(allMethodNames, sign))
        definers == {d \in Ancestors(c) : sign \in said[d].defined}
    IN  Complete(c) /\ found # Unwritten =>
          IF definers # {} THEN found.type = "script" /\ found.fn.class = Max(definers)
          ELSE found = IF sign \in Primitive THEN MT_PRIMITIVE ELSE MT_NONE

\* Static methods are not inherited.  The one that creates instances calls the constructor of
\* its own class on them, and is there exactly if the class has one.
CreatorsCallTheirConstructor ==
  \A c \in DOMAIN classes \ {0} : Complete(c) =>
    /\ \A m \in StaticMethods(c) : m.fn.class = c
    /\ \A m \in StaticMethods(c) : m.fn.op = "CONSTRUCT" =>
         LET constructor == Lookup(classes[c].methods, m.fn.operand)
         IN  constructor.type = "script" /\ constructor.fn.class = c /\ constructor.fn.op # "CONSTRUCT"
    /\ (\E m \in StaticMethods(c) : m.fn.op = "CONSTRUCT") <=> New \in said[c].defined

\* A super call reaches the base class of the class it is written in, whatever instance it is
\* made on and however deep in block arguments.
SuperReachesBase ==
  \A c \in DOMAIN classes :
    /\ \A m \in Methods(c) : m.fn.op = "SUPER" => m.fn.base = said[m.fn.class].superClass
    /\ \A m \in StaticMethods(c) : m.fn.op = "SUPER" => m.fn.base = classOfClass

\* A method uses the field its class means on every instance that inherits it: the fields of
\* all classes of the instance have places of their own in it, and the receiver is the instance.
FieldsAreOwn ==
  \A c \in DOMAIN classes : \A m \in Methods(c) : m.fn.op = "LOAD_THIS_FIELD" =>
    /\ m.fn.operand = Offset(m.fn.class) + m.fn.field
    /\ m.fn.operand < classes[c].fieldNum
    /\ ~m.fn.inBlock

\* A class binds each of its methods once.
BoundOnce ==
  \A i, j \in DOMAIN code :
    i < j /\ code[i].op = "METHOD" /\ code[j].op = "METHOD" /\ code[i].class = code[j].class =>
      code[i].isStatic # code[j].isStatic \/ code[i].index # code[j].index

\* When a class has been created it is the value of its variable, to which its methods are bound.
DefinitionNamesTheClass == \A c \in DOMAIN classes : moduleVars[c] = Class(c)

\* The slot of a static field holds null or its initial value once the definition has been executed.
StaticsKeepTheirSlot ==
  \A i \in 1..pc - 1 : code[i].op = "STATIC_FIELD" =>
    stack[code[i].index + 1] = IF code[i].initialized THEN Initial(code[i].index) ELSE Null

\* Calls of methods, of constructors and of the base class go where the hierarchy says.
CallsFollowHierarchy == DispatchFollowsHierarchy /\ CreatorsCallTheirConstructor /\ SuperReachesBase

\* The tables, the variables of the module and its frame are those of the definitions.
DefinitionsTakeEffect == TypeOK /\ BoundOnce /\ DefinitionNamesTheClass /\ StaticsKeepTheirSlot
=============================================================================
