------------------------------- MODULE Names -------------------------------
(***************************************************************************)
(* What a name means: how the compiler finds it in the tables of nested    *)
(* compile units, in the class being compiled, and among the variables of  *)
(* the module (compiler/compiler.c, id() and what it calls).               *)
(*                                                                         *)
(* A module is read declaration by declaration and reference by reference. *)
(* The unit of the module is units[1]; a method or function of it comes    *)
(* next, and block arguments inside it follow, each in a unit of its own.  *)
(* A name is a sequence, <<n>> in the program and with a prefix in the     *)
(* tables: "Cls" and the class for a static field, "Fn" for a function.    *)
(***************************************************************************)
EXTENDS Integers, Sequences, SequencesExt, FiniteSets

CONSTANTS
  Name,           \* identifiers of the program
  LowerCase,      \* those that begin with a small letter
  Class,          \* names of classes
  SpaceFollows,   \* may a space follow in the source? findUpvalue() looks at all of it
  ModuleLocals,   \* do blocks of the module itself have variables?
  MaxUnits,       \* bound: nested units
  MaxDepth,       \* bound: nested blocks in a unit
  MaxIds          \* bound: variables declared, those of all units taken together

ASSUME NamesAssumption ==
  /\ LowerCase \subseteq Name /\ {"", "this"} \intersect Name = {} /\ "" \notin Class
  /\ SpaceFollows \subseteq BOOLEAN /\ ModuleLocals \in BOOLEAN
  /\ MaxUnits \in Nat /\ MaxDepth \in Nat /\ MaxIds \in Nat

this == <<"this">>
Fn(n) == <<"Fn", n>>
Cls(c, n) == <<"Cls", c, n>>
NoClass == ""

VARIABLES
  units,       \* the chain of compile units, the module's first
  class,       \* enclosingClassBK of the module's unit: name, fields, inStatic
  moduleVars,  \* moduleVarName: name -> "defined", or "line" when it was only referred to
  status,      \* "compiling", "error", "undefined" (the error at the end) or "compiled"
  env,         \* what the program says: the declarations in sight, innermost last
  ids,         \* what the program says: how many variables have been declared
  caught,      \* what the program says: the variables that inner units refer to
  wanted,      \* what the program says: the module variables referred to
  declared,    \* what the program says: those it declares, functions with their prefix
  found,       \* what a reference was compiled to in the last step
  meant        \* what the program says about it

said == <<env, ids, caught, wanted, declared>>
vars == <<units, class, moduleVars, status, said, found, meant>>

Nothing == <<"nothing">>

Unit(kind, locals) == [kind |-> kind, scopeDepth |-> IF kind = "module" THEN -1 ELSE 0,
                       localVars |-> locals, upvalues |-> <<>>]
Local(name, depth, id) == [name |-> name, scopeDepth |-> depth, isUpvalue |-> FALSE, id |-> id]

Init ==
  /\ units = <<Unit("module", <<>>)>>
  /\ class = [name |-> NoClass, fields |-> {}, inStatic |-> FALSE]
  /\ moduleVars = [n \in {} |-> ""]
  /\ status = "compiling"
  /\ env = <<>> /\ ids = 0 /\ caught = {} /\ wanted = {} /\ declared = {}
  /\ found = Nothing /\ meant = Nothing

NoReference == found' = Nothing /\ meant' = Nothing

Depth == Len(units)
cu == Last(units)
InClass == class.name # NoClass
Fail == status' = "error" /\ UNCHANGED <<units, class, moduleVars, said>> /\ NoReference

-----------------------------------------------------------------------------
(* Looking a name up *)

\* Fault: the outermost variable of that name is found.
FindOutermost(unit, name) ==
  LET same == {i \in DOMAIN unit.localVars : unit.localVars[i].name = name}
  IN  IF same = {} THEN -1 ELSE Min(same) - 1

\* findLocal()
FindLocal(unit, name) ==
  LET same == {i \in DOMAIN unit.localVars : unit.localVars[i].name = name}
  IN  IF same = {} THEN -1 ELSE Max(same) - 1

\* Fault: an upvalue is added for every reference.
NeverSame(u, isEnclosingLocalVar, index) == FALSE

SameUpvalue(u, isEnclosingLocalVar, index) ==
  u.index = index /\ u.isEnclosingLocalVar = isEnclosingLocalVar

\* addUpvalue() to the unit at depth d: the units afterwards, and the index.
AddUpvalue(us, d, isEnclosingLocalVar, index) ==
  LET there == {i \in DOMAIN us[d].upvalues : SameUpvalue(us[d].upvalues[i], isEnclosingLocalVar, index)}
      new == [isEnclosingLocalVar |-> isEnclosingLocalVar, index |-> index]
  IN  IF there # {} THEN [units |-> us, index |-> Min(there) - 1]
      ELSE [units |-> [us EXCEPT ![d].upvalues = Append(@, new)], index |-> Len(us[d].upvalues)]

\* Fault: that the variable is captured is not remembered.
MarkNothing(us, d, index) == us

MarkCaptured(us, d, index) == [us EXCEPT ![d].localVars[index + 1].isUpvalue = TRUE]

\* findUpvalue() for the unit at depth d.  A method's variables end the search for names
\* without a space; the test looks at the whole rest of the source, unless the name is one
\* the compiler has made up.
FindUpvalue(name, spaceFollows) ==
  LET find[d \in 1..Depth] ==
        LET index == FindLocal(units[d - 1], name)
            outer == find[d - 1]
            nowhere == [units |-> units, index |-> -1]
        IN  IF d = 1 THEN nowhere
            ELSE IF d = 2 /\ InClass /\ Len(name) = 1 /\ ~spaceFollows THEN nowhere
            ELSE IF index # -1 THEN AddUpvalue(MarkCaptured(units, d - 1, index), d, TRUE, index)
            ELSE IF outer.index # -1 THEN AddUpvalue(outer.units, d, FALSE, outer.index)
            ELSE nowhere
  IN  find[Depth]

\* getVarFromLocalOrUpvalue(): the units afterwards, and where the variable was found.
VarFromLocalOrUpvalue(name, spaceFollows) ==
  LET index == FindLocal(cu, name)
      up == FindUpvalue(name, spaceFollows)
  IN  IF index # -1 THEN [units |-> units, var |-> <<"local", index>>]
      ELSE IF up.index # -1 THEN [units |-> up.units, var |-> <<"upvalue", up.index>>]
      ELSE [units |-> units, var |-> Nothing]

\* The variable a closure gets for upvalue index of the unit at depth d, by the pairs
\* of bytes endCompileUnit() writes behind OPCODE_CREATE_CLOSURE.
Denotes(us, d, index) ==
  LET at[e \in 0..Len(us)] ==
        IF e = 0 THEN <<>>
        ELSE [i \in DOMAIN us[e].upvalues |->
                LET u == us[e].upvalues[i]
                IN  IF u.isEnclosingLocalVar THEN us[e - 1].localVars[u.index + 1].id
                    ELSE at[e - 1][u.index + 1]]
  IN  at[d][index + 1]

IdOf(us, var) ==
  IF var[1] = "local" THEN us[Len(us)].localVars[var[2] + 1].id ELSE Denotes(us, Len(us), var[2])

-----------------------------------------------------------------------------
(* What the program says *)

Mark(kind) == [name |-> <<"", kind>>, id |-> 0]

\* The declarations a name may refer to: those inside the innermost method.
Boundary == Max({0} \union {i \in DOMAIN env : env[i] = Mark("method")})
InSight(name) == {i \in DOMAIN env : env[i].name = name /\ i > Boundary}
Innermost(name) == env[Max(InSight(name))].id

\* The static fields of the class around it: methods see them, too.
Statics(name) == {i \in DOMAIN env : env[i].name = name}

Meaning(n) ==
  IF InSight(<<n>>) # {} THEN <<"var", Innermost(<<n>>)>>
  ELSE IF InClass /\ n \in class.fields THEN IF class.inStatic THEN Nothing ELSE <<"field", n>>
  ELSE IF InClass /\ Statics(Cls(class.name, n)) # {}
       THEN <<"var", env[Max(Statics(Cls(class.name, n)))].id>>
  ELSE IF InClass /\ n \in LowerCase THEN <<"method", n>>
  ELSE <<"module", n>>

-----------------------------------------------------------------------------
(* Declarations *)

Compiling == status = "compiling"

\* declareLocalVar() and the redefinition it refuses
AddLocal(name) ==
  LET last == {i \in DOMAIN cu.localVars : \A j \in i..Len(cu.localVars) :
                 cu.localVars[j].scopeDepth >= cu.scopeDepth}
  IN  IF \E i \in last : cu.localVars[i].name = name THEN Fail
      ELSE /\ ids < MaxIds /\ ids' = ids + 1
           /\ units' = [units EXCEPT ![Depth].localVars = Append(@, Local(name, cu.scopeDepth, ids + 1))]
           /\ env' = Append(env, [name |-> name, id |-> ids + 1])
           /\ UNCHANGED <<class, moduleVars, status, caught, wanted, declared>> /\ NoReference

\* The table with a value for name, whether the name is new (declareModuleVar()) or not.
WithValue(name, value) == [n \in DOMAIN moduleVars \union {name} |-> IF n = name THEN value ELSE moduleVars[n]]

\* Fault: the line number stays.
DefineKeepsLine(name) ==
  IF name \in DOMAIN moduleVars /\ moduleVars[name] = "defined"
  THEN status' = "error" /\ UNCHANGED <<moduleVars, declared>>
  ELSE /\ moduleVars' = IF name \in DOMAIN moduleVars THEN moduleVars ELSE WithValue(name, "defined")
       /\ declared' = declared \union {name} /\ UNCHANGED status

\* defineModuleVar(): a name that is new, or that was only referred to; else it is an error.
DefineModuleVar(name) ==
  IF name \in DOMAIN moduleVars /\ moduleVars[name] = "defined"
  THEN status' = "error" /\ UNCHANGED <<moduleVars, declared>>
  ELSE /\ moduleVars' = WithValue(name, "defined")
       /\ declared' = declared \union {name} /\ UNCHANGED status

\* "var n" in a method, a function or a block: declareVariable() at a scope depth of 0 or more
DeclareLocal(n) ==
  /\ Compiling /\ cu.scopeDepth >= 0 /\ ~(Depth = 1 /\ InClass)
  /\ Depth = 1 => ModuleLocals
  /\ AddLocal(<<n>>)

\* "var n" or an imported name at the top level; fun declares Fn(n)
DeclareModuleVar(name) ==
  /\ Compiling /\ cu.scopeDepth = -1
  /\ DefineModuleVar(name)
  /\ UNCHANGED <<units, class, env, ids, caught, wanted>> /\ NoReference

\* "static var n" in a class body: a variable of the module's unit
DeclareStatic(n) ==
  /\ Compiling /\ Depth = 1 /\ InClass
  /\ AddLocal(Cls(class.name, n))

\* "var n" in a class body
DeclareField(n) ==
  /\ Compiling /\ Depth = 1 /\ InClass
  /\ IF n \in class.fields THEN Fail
     ELSE /\ class' = [class EXCEPT !.fields = @ \union {n}]
          /\ UNCHANGED <<units, moduleVars, status, said>> /\ NoReference

-----------------------------------------------------------------------------
(* Scopes and units *)

EnterScope ==
  /\ Compiling /\ cu.scopeDepth < MaxDepth /\ ~(Depth = 1 /\ InClass)
  /\ Depth = 1 => ModuleLocals
  /\ units' = [units EXCEPT ![Depth].scopeDepth = @ + 1]
  /\ env' = Append(env, Mark("scope"))
  /\ UNCHANGED <<class, moduleVars, status, ids, caught, wanted, declared>> /\ NoReference

\* Without the declarations from the last mark of that kind on.
Outside(kind) == SubSeq(env, 1, Max({i \in DOMAIN env : env[i] = Mark(kind)}) - 1)

\* Fault: the variables stay in the table of every unit.
LeftAll(unit, isModule) == [unit EXCEPT !.scopeDepth = @ - 1]

\* The variables that are left when discardLocalVar() has gone down from the last one.
Remaining(unit) == Max({0} \union {i \in DOMAIN unit.localVars : unit.localVars[i].scopeDepth < unit.scopeDepth})

\* leaveScope(): in the module's unit the variables stay in the table.
Left(unit, isModule) ==
  [unit EXCEPT !.scopeDepth = @ - 1,
     !.localVars = IF isModule THEN @ ELSE SubSeq(@, 1, Remaining(unit))]

LeaveScope ==
  /\ Compiling /\ cu.scopeDepth > (IF Depth = 1 THEN -1 ELSE 0) /\ ~(Depth = 1 /\ InClass)
  /\ units' = [units EXCEPT ![Depth] = Left(@, Depth = 1)]
  /\ env' = Outside("scope")
  /\ UNCHANGED <<class, moduleVars, status, ids, caught, wanted, declared>> /\ NoReference

\* compileClassDefinition() up to the body; only at the top level
OpenClass(c) ==
  /\ Compiling /\ Depth = 1 /\ ~InClass /\ cu.scopeDepth = -1
  /\ class' = [name |-> c, fields |-> {}, inStatic |-> FALSE]
  /\ DefineModuleVar(<<c>>)
  /\ units' = [units EXCEPT ![1].scopeDepth = @ + 1]
  /\ env' = Append(env, Mark("class"))
  /\ UNCHANGED <<ids, caught, wanted>> /\ NoReference

CloseClass ==
  /\ Compiling /\ Depth = 1 /\ InClass
  /\ class' = [class EXCEPT !.name = NoClass, !.fields = {}]
  /\ units' = [units EXCEPT ![1] = Left(@, TRUE)]
  /\ env' = Outside("class")
  /\ UNCHANGED <<moduleVars, status, ids, caught, wanted, declared>> /\ NoReference

\* initCompileUnit(): slot 0 is the receiver, "this" in a method.
OpenUnit(kind) ==
  LET own == IF kind = "method" THEN this ELSE <<"">>
  IN  /\ Compiling /\ Depth < MaxUnits /\ ids < MaxIds
      /\ units' = Append(units, Unit(kind, <<Local(own, -1, ids + 1)>>))
      /\ env' = env \o <<Mark(kind), [name |-> own, id |-> ids + 1]>>
      /\ ids' = ids + 1
      /\ UNCHANGED <<moduleVars, caught, wanted, declared>> /\ NoReference

OpenMethod(isStatic) ==
  Depth = 1 /\ InClass /\ OpenUnit("method") /\ class' = [class EXCEPT !.inStatic = isStatic]
  /\ UNCHANGED status

\* fun n: only in the module's unit
OpenFunction(n) ==
  /\ Depth = 1 /\ ~InClass /\ cu.scopeDepth = -1
  /\ Fn(n) \notin DOMAIN moduleVars
  /\ units' = Append(units, Unit("fn", <<Local(<<"">>, -1, ids + 1)>>))
  /\ Compiling /\ Depth < MaxUnits /\ ids < MaxIds
  /\ env' = env \o <<Mark("fn"), [name |-> <<"">>, id |-> ids + 1]>>
  /\ ids' = ids + 1
  /\ DefineModuleVar(Fn(n))
  /\ UNCHANGED <<class, caught, wanted>> /\ NoReference

\* A block argument, in a unit whose enclosing unit is the one around it.
OpenBlock == ~(Depth = 1 /\ InClass) /\ OpenUnit("block") /\ UNCHANGED <<class, status>>

CloseUnit ==
  /\ Compiling /\ Depth > 1 /\ cu.scopeDepth = 0
  /\ units' = Front(units)
  /\ env' = Outside(cu.kind)
  /\ UNCHANGED <<class, moduleVars, status, ids, caught, wanted, declared>> /\ NoReference

\* The module ends: a name that was only referred to is an error (compileModule()).
EndModule ==
  /\ Compiling /\ Depth = 1 /\ ~InClass /\ cu.scopeDepth = -1
  /\ status' = IF \E n \in DOMAIN moduleVars : moduleVars[n] = "line" THEN "undefined" ELSE "compiled"
  /\ UNCHANGED <<units, class, moduleVars, said>> /\ NoReference

-----------------------------------------------------------------------------
(* References: id() *)

Caught(id) == IF \E i \in DOMAIN cu.localVars : cu.localVars[i].id = id THEN caught ELSE caught \union {id}

\* A variable has been found, as a local or as an upvalue.
ReferToVar(r, n) ==
  /\ r.var # Nothing
  /\ units' = r.units
  /\ found' = <<"var", IdOf(r.units, r.var)>> /\ meant' = Meaning(n)
  /\ caught' = IF meant'[1] = "var" THEN Caught(meant'[2]) ELSE caught
  /\ UNCHANGED <<class, moduleVars, status, env, ids, wanted, declared>>

Refer(n, what) ==
  /\ found' = what /\ meant' = Meaning(n)
  /\ UNCHANGED <<units, class, status, env, ids, declared>>

MayRefer == Compiling /\ ~(Depth = 1 /\ InClass)

ReferToVariable(n) == \E space \in SpaceFollows :
  MayRefer /\ ReferToVar(VarFromLocalOrUpvalue(<<n>>, space), n)

NoVariable(n, space) == VarFromLocalOrUpvalue(<<n>>, space).var = Nothing

ReferToField(n) == \E space \in SpaceFollows :
  /\ MayRefer /\ NoVariable(n, space) /\ InClass /\ n \in class.fields
  /\ IF class.inStatic THEN Fail
     ELSE Refer(n, <<"field", n>>) /\ UNCHANGED <<moduleVars, caught, wanted>>

ReferToStatic(n) == \E space \in SpaceFollows :
  /\ MayRefer /\ NoVariable(n, space) /\ InClass /\ n \notin class.fields
  /\ ReferToVar(VarFromLocalOrUpvalue(Cls(class.name, n), FALSE), n)

Elsewhere(n) == \E space \in SpaceFollows :
  /\ MayRefer /\ NoVariable(n, space)
  /\ InClass => n \notin class.fields /\ VarFromLocalOrUpvalue(Cls(class.name, n), FALSE).var = Nothing

\* A method of the same class, of which the compiler need not have heard yet; this is loaded.
ReferToMethod(n) ==
  LET receiver == VarFromLocalOrUpvalue(this, FALSE)
  IN  /\ Elsewhere(n) /\ InClass /\ n \in LowerCase
      /\ receiver.var # Nothing
      /\ units' = receiver.units
      /\ found' = <<"method", n, IdOf(receiver.units, receiver.var)>>
      /\ meant' = Append(Meaning(n), Innermost(this))
      /\ caught' = Caught(Innermost(this))
      /\ UNCHANGED <<class, moduleVars, status, env, ids, wanted, declared>>

\* A module variable: defined, a function, or to be defined later; then it gets the line
\* number as its value, by which the end of the module knows it.
ReferToModuleVar(n) ==
  /\ Elsewhere(n) /\ ~(InClass /\ n \in LowerCase)
  /\ Refer(n, <<"module", n>>)
  /\ moduleVars' = IF <<n>> \in DOMAIN moduleVars \/ Fn(n) \in DOMAIN moduleVars THEN moduleVars
                   ELSE WithValue(<<n>>, "line")
  /\ wanted' = wanted \union {n}
  /\ UNCHANGED caught

\* n(...) at the top level is a call of a function, which must have been defined before.
CallFunction(n) ==
  /\ Compiling /\ Depth = 1 /\ ~InClass
  /\ Fn(n) \notin DOMAIN moduleVars
  /\ Fail

Declare ==
  \/ \E n \in Name : DeclareLocal(n) \/ DeclareModuleVar(<<n>>) \/ DeclareStatic(n) \/ DeclareField(n)
                     \/ OpenFunction(n)
  \/ \E c \in Class : OpenClass(c)
  \/ \E isStatic \in BOOLEAN : OpenMethod(isStatic)
  \/ EnterScope \/ LeaveScope \/ CloseClass \/ OpenBlock \/ CloseUnit \/ EndModule

Reference == \E n \in Name :
  \/ ReferToVariable(n) \/ ReferToField(n) \/ ReferToStatic(n) \/ ReferToMethod(n)
  \/ ReferToModuleVar(n) \/ CallFunction(n)

Next == Declare \/ Reference

Spec == Init /\ [][Next]_vars

-----------------------------------------------------------------------------
(* Properties *)

\* The variables have the expected types, and the tables of an open unit the expected shape.
TypeOK ==
  /\ units # <<>> /\ status \in {"compiling", "error", "undefined", "compiled"}
  /\ \A d \in DOMAIN units :
       /\ (units[d].kind = "module") = (d = 1)
       /\ \A i \in DOMAIN units[d].localVars :
            /\ units[d].localVars[i].id \in 1..ids
            /\ d > 1 => units[d].localVars[i].scopeDepth <= units[d].scopeDepth
       /\ \A i \in DOMAIN units[d].upvalues : LET u == units[d].upvalues[i] IN
            u.index < Len(IF u.isEnclosingLocalVar THEN units[d - 1].localVars ELSE units[d - 1].upvalues)
  /\ \A n \in DOMAIN moduleVars : moduleVars[n] \in {"line", "defined"}

\* A name means what the program says: the innermost variable around it up to the method,
\* a field, a static field, a method or a module variable, in this order.
NamesAreLexical == found = meant

\* Two upvalues of a unit never stand for the same variable: a closure has one copy of the
\* way to it, whatever the references were and in whatever order units were closed.
UpvaluesAreDistinct ==
  \A d \in 2..Depth : \A i, j \in DOMAIN units[d].upvalues :
    i # j => Denotes(units, d, i - 1) # Denotes(units, d, j - 1)

\* A variable that an inner unit refers to is marked in its own unit as long as it is
\* there, so that the end of its block closes the upvalue.
CapturedAreMarked ==
  \A d \in DOMAIN units : \A i \in DOMAIN units[d].localVars :
    units[d].localVars[i].isUpvalue <=> units[d].localVars[i].id \in caught

\* If the module compiles, each module variable it uses is declared in it, before the use or
\* after it; if it is refused at its end, one is not.
ForwardReferencesAreDefined ==
  /\ status = "compiled" => \A n \in wanted : {<<n>>, Fn(n)} \intersect declared # {}
  /\ status = "undefined" => \E n \in wanted : <<n>> \notin declared

\* The tables of upvalues and the marks of captured variables are those of the source.
UpvalueTablesOK == TypeOK /\ UpvaluesAreDistinct /\ CapturedAreMarked
=============================================================================
