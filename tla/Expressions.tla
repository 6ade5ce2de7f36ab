---------------------------- MODULE Expressions ----------------------------
(***************************************************************************)
(* The compiler of expressions (compiler/compiler.c): expression(), the    *)
(* table Rules with its nud and led functions, and the calls they emit, in *)
(* the unit of a module outside of classes.                                *)
(*                                                                         *)
(* The state of the compiler is a record: the tokens, the place of         *)
(* curToken in them, the instructions emitted so far, and whether an error *)
(* has ended the process.  Offsets count instructions.  Block arguments of *)
(* calls are left to CompileUnit and Names.                                *)
(***************************************************************************)
EXTENDS Integers, SequencesExt, TLC

CONSTANTS
  FunctionNames,   \* the names of the functions the module has defined
  MAX_ARG_NUM

ASSUME ExpressionsAssumption == MAX_ARG_NUM \in Nat

\* BindPower
BP == [NONE |-> 0, LOWEST |-> 1, ASSIGN |-> 2, CONDITION |-> 3, LOGIC_OR |-> 4, LOGIC_AND |-> 5,
       EQUAL |-> 6, IS |-> 7, CMP |-> 8, BIT_OR |-> 9, BIT_AND |-> 10, BIT_SHIFT |-> 11,
       RANGE |-> 12, TERM |-> 13, FACTOR |-> 14, UNARY |-> 15, CALL |-> 16]

\* The operators of Rules with infixOperator() as their led function.
Infix ==
  ("IS" :> BP.IS) @@ ("DOT_DOT" :> BP.RANGE) @@ ("ADD" :> BP.TERM) @@ ("SUB" :> BP.TERM)
    @@ ("MUL" :> BP.FACTOR) @@ ("DIV" :> BP.FACTOR) @@ ("MOD" :> BP.FACTOR)
    @@ ("BIT_AND" :> BP.BIT_AND) @@ ("BIT_OR" :> BP.BIT_OR)
    @@ ("BIT_SHIFT_RIGHT" :> BP.BIT_SHIFT) @@ ("BIT_SHIFT_LEFT" :> BP.BIT_SHIFT)
    @@ ("EQUAL" :> BP.EQUAL) @@ ("NOT_EQUAL" :> BP.EQUAL) @@ ("GREATE" :> BP.CMP)
    @@ ("GREATE_EQUAL" :> BP.CMP) @@ ("LESS" :> BP.CMP) @@ ("LESS_EQUAL" :> BP.CMP)

\* Rules[type].lbp of every token that has a led function.
Lbp ==
  Infix @@ ("LEFT_BRACKET" :> BP.CALL) @@ ("DOT" :> BP.CALL) @@ ("LOGIC_AND" :> BP.LOGIC_AND)
    @@ ("LOGIC_OR" :> BP.LOGIC_OR) @@ ("QUESTION" :> BP.ASSIGN)

UnaryOperators == {"SUB", "BIT_NOT", "LOGIC_NOT"}

\* The tokens that have a nud function.
Prefix ==
  UnaryOperators \cup {"NUM", "STRING", "ID", "INTERPOLATION", "TRUE", "FALSE", "NULL",
                       "LEFT_PAREN", "LEFT_BRACKET", "LEFT_BRACE"}

-----------------------------------------------------------------------------
(* The state of the compiler *)

Unit(tokens) == [tokens |-> tokens, at |-> 1, code |-> <<>>, failed |-> FALSE]

Cur(p) == p.tokens[p.at].type
Pre(p) == p.tokens[p.at - 1]

Advance(p) == [p EXCEPT !.at = @ + 1]
Fail(p) == [p EXCEPT !.failed = TRUE]

\* consumeCurToken()
Consume(p, type) == IF Cur(p) = type THEN Advance(p) ELSE Fail(p)

Emit(p, op, name, n) == [p EXCEPT !.code = Append(@, [op |-> op, name |-> name, n |-> n])]

\* A call of a method with the given kind of signature and n arguments.
Call(p, kind, name, n) == Emit(p, "CALL", <<kind>> \o name, n)

\* patchPlaceholder(): instruction i jumps to the end of what has been emitted.
Patch(p, i) == [p EXCEPT !.code[i].n = Len(p.code) - i]

RECURSIVE Expression(_, _), Leds(_, _), ArgList(_, _), ListElements(_), MapEntries(_), Parts(_)

-----------------------------------------------------------------------------
(* Calls *)

\* processArgList(): the state behind the arguments and their number.
ArgList(p, n) ==
  IF n = MAX_ARG_NUM THEN [unit |-> Fail(p), n |-> n]
  ELSE LET q == Expression(p, BP.LOWEST)
       IN  IF Cur(q) = "COMMA" THEN ArgList(Advance(q), n + 1) ELSE [unit |-> q, n |-> n + 1]

\* What follows an opening parenthesis: arguments, if any, and the call.
CallWithArgs(p, name) ==
  IF Cur(p) = "RIGHT_PAREN" THEN Call(Advance(p), "method", name, 0)
  ELSE LET args == ArgList(p, 0)
       IN  Call(Consume(args.unit, "RIGHT_PAREN"), "method", name, args.n)

\* emitGetterMethodCall()
GetterMethodCall(p, name) ==
  IF Cur(p) = "LEFT_PAREN" THEN CallWithArgs(Advance(p), name) ELSE Call(p, "getter", name, 0)

\* emitMethodCall(): the sign of an assignment is read also where none is possible.
MethodCall(p, name, canAssign) ==
  IF Cur(p) = "ASSIGN" /\ canAssign
  THEN Call(Expression(Advance(p), BP.LOWEST), "setter", name, 1)
  ELSE GetterMethodCall(IF Cur(p) = "ASSIGN" THEN Advance(p) ELSE p, name)

\* callEntry()
CallEntry(p, canAssign) ==
  LET q == Consume(p, "ID") IN IF q.failed THEN q ELSE MethodCall(q, Pre(q).value, canAssign)

Subscript(p, canAssign) ==
  IF Cur(p) = "RIGHT_BRACKET" THEN Fail(p)
  ELSE LET args == ArgList(p, 0)
           q    == Consume(args.unit, "RIGHT_BRACKET")
       IN  CASE ~canAssign \/ Cur(q) # "ASSIGN" -> Call(q, "subscript", <<>>, args.n)
             [] canAssign /\ Cur(q) = "ASSIGN" /\ args.n = MAX_ARG_NUM -> Fail(q)
             [] canAssign /\ Cur(q) = "ASSIGN" /\ args.n < MAX_ARG_NUM ->
                  Call(Expression(Advance(q), BP.LOWEST), "subscript setter", <<>>, args.n + 1)

-----------------------------------------------------------------------------
(* nud functions *)

\* The module variable of a name: the one of a function if there is one.
Variable(name) == IF name \in FunctionNames THEN <<"Fn">> \o name ELSE name

\* id()
Id(p, canAssign) ==
  LET name == Pre(p).value
  IN  CASE Cur(p) = "LEFT_PAREN" /\ name \notin FunctionNames -> Fail(p)
        [] Cur(p) = "LEFT_PAREN" /\ name \in FunctionNames ->
             CallWithArgs(Emit(Advance(p), "LOAD_MODULE_VAR", Variable(name), 0), <<"call">>)
        [] Cur(p) = "ASSIGN" /\ canAssign ->
             Emit(Expression(Advance(p), BP.LOWEST), "STORE_MODULE_VAR", Variable(name), 0)
        [] Cur(p) # "LEFT_PAREN" /\ ~(Cur(p) = "ASSIGN" /\ canAssign) ->
             Emit(p, "LOAD_MODULE_VAR", Variable(name), 0)

Literal(p) == Emit(p, "LOAD_CONSTANT", Pre(p).value, 0)

Parentheses(p) == Consume(Expression(p, BP.LOWEST), "RIGHT_PAREN")

NewObject(p, class) == Call(Emit(p, "LOAD_MODULE_VAR", <<class>>, 0), "method", <<"new">>, 0)

AddCore(p, n) == Call(p, "method", <<"addCore_">>, n)

ListElements(p) ==
  IF Cur(p) = "RIGHT_BRACKET" \/ p.failed THEN p
  ELSE LET q == AddCore(Expression(p, BP.LOWEST), 1)
       IN  IF Cur(q) = "COMMA" THEN ListElements(Advance(q)) ELSE q

ListLiteral(p) == Consume(ListElements(NewObject(p, "List")), "RIGHT_BRACKET")

MapEntries(p) ==
  IF Cur(p) = "RIGHT_BRACE" \/ p.failed THEN p
  ELSE LET key == Consume(Expression(p, BP.UNARY), "COLON")
           q   == AddCore(Expression(key, BP.LOWEST), 2)
       IN  IF Cur(q) = "COMMA" THEN MapEntries(Advance(q)) ELSE q

MapLiteral(p) == Consume(MapEntries(NewObject(p, "Map")), "RIGHT_BRACE")

\* A part of a string and the expression behind it, up to the last part.
Parts(p) ==
  LET q == AddCore(Expression(AddCore(Literal(p), 1), BP.LOWEST), 1)
  IN  IF Cur(q) = "INTERPOLATION" THEN Parts(Advance(q)) ELSE Consume(q, "STRING")

StringInterpolation(p) ==
  Call(AddCore(Literal(Parts(NewObject(p, "List"))), 1), "method", <<"join">>, 0)

UnaryOperator(p) == Call(Expression(p, BP.UNARY), "operator", <<Pre(p).type>>, 0)

Nud(p, canAssign) ==
  LET type == Pre(p).type
  IN  CASE type \in {"NUM", "STRING"} -> Literal(p)
        [] type \in {"TRUE", "FALSE", "NULL"} -> Emit(p, "PUSH", <<type>>, 0)
        [] type \in UnaryOperators -> UnaryOperator(p)
        [] type = "ID" -> Id(p, canAssign)
        [] type = "INTERPOLATION" -> StringInterpolation(p)
        [] type = "LEFT_PAREN" -> Parentheses(p)
        [] type = "LEFT_BRACKET" -> ListLiteral(p)
        [] type = "LEFT_BRACE" -> MapLiteral(p)

-----------------------------------------------------------------------------
(* led functions *)

\* Fault: operators of the same level group to the right.
InfixOperatorRight(p) ==
  Call(Expression(p, Infix[Pre(p).type] - 1), "operator", <<Pre(p).type>>, 1)

InfixOperator(p) ==
  Call(Expression(p, Infix[Pre(p).type]), "operator", <<Pre(p).type>>, 1)

\* logicAnd() and logicOr()
Logic(p, op, rbp) ==
  LET q == Emit(p, op, <<>>, 0) IN Patch(Expression(q, rbp), Len(q.code))

Condition(p) ==
  LET if   == Emit(p, "JUMP_IF_FALSE", <<>>, 0)
      then == Emit(Consume(Expression(if, BP.LOWEST), "COLON"), "JUMP", <<>>, 0)
  IN  Patch(Expression(Patch(then, Len(if.code)), BP.LOWEST), Len(then.code))

Led(p, canAssign) ==
  LET type == Pre(p).type
  IN  CASE type \in DOMAIN Infix -> InfixOperator(p)
        [] type = "LOGIC_OR" -> Logic(p, "OR", BP.LOGIC_OR)
        [] type = "LOGIC_AND" -> Logic(p, "AND", BP.LOGIC_AND)
        [] type = "QUESTION" -> Condition(p)
        [] type = "LEFT_BRACKET" -> Subscript(p, canAssign)
        [] type = "DOT" -> CallEntry(p, canAssign)

-----------------------------------------------------------------------------
(* expression() *)

BindsTighter(p, rbp) == Cur(p) \in DOMAIN Lbp /\ rbp < Lbp[Cur(p)]

Leds(p, rbp) ==
  IF ~p.failed /\ BindsTighter(p, rbp) THEN Leds(Led(Advance(p), rbp < BP.ASSIGN), rbp) ELSE p

\* A token without a nud function ends the process.
Expression(p, rbp) ==
  IF p.failed \/ Cur(p) \notin Prefix THEN Fail(p)
  ELSE Leds(Nud(Advance(p), rbp < BP.ASSIGN), rbp)

RECURSIVE Program(_)

\* compileStatment() for statements that are expressions, up to the end of the file.
Program(p) ==
  IF p.failed \/ Cur(p) = "EOF" THEN p ELSE Program(Emit(Expression(p, BP.LOWEST), "POP", <<>>, 0))
=============================================================================
