----------------------------- MODULE MCFrontend -----------------------------
(***************************************************************************)
(* The front end on source texts with a known meaning.  A tree is written  *)
(* as characters, with as few parentheses as the levels of the operators   *)
(* in the comments of BindPower allow and with a gap between the words; it *)
(* is also translated directly, by recursion on the tree, into the tokens  *)
(* and the instructions it stands for.                                     *)
(***************************************************************************)
EXTENDS Frontend

CONSTANT Depth  \* bound: constructs around one another

VARIABLES
  tree,  \* what the source means
  gap    \* what is written between its words

mcVars == <<frontVars, tree, gap>>

-----------------------------------------------------------------------------
(* Trees *)

Node(k, x, es) == [k |-> k, x |-> x, es |-> es]

Name(c) == Node("var", <<c>>, <<>>)

\* A text in a string: its characters in the source and its bytes.
Written(chars, bytes) == [chars |-> chars, bytes |-> bytes]

Raw(bytes) == Written([i \in DOMAIN bytes |-> ToString(bytes[i])], bytes)

\* Both sides of each boundary of UTF-8, written as escapes or as they are.
Pieces == {
  Written(<<"s">>, <<115>>), Written(<<"a">>, <<97>>), Written(<<")">>, <<41>>),
  Written(<<"\\", "\"">>, <<34>>), Written(<<"\\", "n">>, <<10>>),
  Written(<<"\\", "u", "0", "0", "7", "f">>, <<127>>),
  Written(<<"\\", "u", "0", "0", "8", "0">>, <<194, 128>>),
  Written(<<"\\", "u", "0", "8", "0", "0">>, <<224, 160, 128>>),
  Written(<<"\\", "u", "f", "f", "f", "f">>, <<239, 191, 191>>),
  Raw(<<223, 191>>), Raw(<<240, 144, 128, 128>>), Raw(<<244, 143, 191, 191>>)}

Joined(ps) ==
  Written(FlattenSeq([i \in DOMAIN ps |-> ps[i].chars]), FlattenSeq([i \in DOMAIN ps |-> ps[i].bytes]))

Short(S, n) == UNION {[1..i -> S] : i \in 0..n}

Texts ==
  {Joined(ps) : ps \in Short(Pieces, 2)}
    \cup {Joined(ps) : ps \in Short({Written(<<"s">>, <<115>>), Written(<<"a">>, <<97>>)}, 6)}
    \cup {Joined(ps) : ps \in [1..3 -> {Written(<<"s">>, <<115>>), Raw(<<195, 169>>), Raw(<<195, 170>>)}]}

Literals == {Node("str", t, <<>>) : t \in Texts}

S == Written(<<"s">>, <<115>>)
Leaves == {Name("a"), Node("str", S, <<>>), Node("num", <<"1", "0", ".", "5">>, <<>>),
           Node("num", <<"0", "x", "1", "f">>, <<>>), Node("num", <<"0", "1", "7">>, <<>>),
           Node("word", <<"t", "r", "u", "e">>, <<>>)}

\* The ways to put e into a larger expression.
Around(e) ==
  LET b == Name("b") c == Name("c") m == <<"m">> f == <<"f">>
  IN  {Node("unary", "SUB", <<e>>), Node("unary", "LOGIC_NOT", <<e>>),
       Node("binary", "SUB", <<e, b>>), Node("binary", "SUB", <<b, e>>),
       Node("binary", "MUL", <<b, e>>), Node("binary", "LOGIC_OR", <<e, b>>),
       Node("binary", "LOGIC_AND", <<b, e>>), Node("cond", "", <<e, b, c>>),
       Node("cond", "", <<b, e, c>>), Node("cond", "", <<b, c, e>>), Node("getter", m, <<e>>),
       Node("method", m, <<e>>), Node("method", m, <<b, e, c>>), Node("fn", f, <<e>>),
       Node("index", "", <<e, b>>), Node("index", "", <<b, e, c>>), Node("assign", <<"c">>, <<e>>),
       Node("setter", m, <<e, b>>), Node("setter", m, <<b, e>>), Node("store", "", <<e, b, c>>),
       Node("store", "", <<b, c, e>>), Node("list", "", <<e, b>>), Node("map", "", <<e, b>>),
       Node("map", "", <<b, e>>), Node("interp", <<S, Joined(<<>>)>>, <<e>>),
       Node("interp", <<S, S, S>>, <<b, e>>)}

RECURSIVE Deep(_, _)
Deep(leaves, n) == IF n = 0 THEN leaves ELSE UNION {Around(e) : e \in Deep(leaves, n - 1)}

Operators == DOMAIN Infix \cup {"LOGIC_AND", "LOGIC_OR"}

\* Every pair of operators, grouped to the left and to the right.
Chains ==
  UNION {{Node("binary", op, <<Node("binary", oq, <<Name("a"), Name("b")>>), Name("c")>>),
          Node("binary", op, <<Name("a"), Node("binary", oq, <<Name("b"), Name("c")>>)>>)} :
         op, oq \in Operators}

\* Sources the scanner or the compiler refuses.
Unscannable ==
  {Node("bad", x, <<>>) : x \in {<<"#">>, <<"/", "*", "a">>, <<"/", "*", "*", "a", "*", "/">>, <<"\"", "a">>,
     <<"\"", "%", "a", "\"">>, <<"\"", "\\", "c", "\"">>, <<"\"", "\\", "u", "0", "0", "\"">>, <<"\"", "\\">>,
     <<"\"", "%", "(", "a", "\"">>}}

Uncompilable ==
  {Node("odd", x, <<>>) : x \in {<<"a", "-">>, <<"(", "a">>, <<"a", "[", "]">>, <<"a", ".", "1">>, <<"g", "(", "a", ")">>,
     <<"\"", "%", "(", "a">>, <<"\"", "%", "(", ")", "\"">>, <<"a", "?", "b">>, <<"[", "a", ")">>, <<"{", "a", ":", "b", "]">>,
     <<"=", "a">>, <<"a", "-", "b", "=", "c">>, <<"f", "(", "a", ",", "b", ",", "c", ",", "a", ")">>}}

-----------------------------------------------------------------------------
(* Their source text *)

\* The comments of BindPower, from the loosest to the tightest.
Levels == <<{"LOGIC_OR"}, {"LOGIC_AND"}, {"EQUAL", "NOT_EQUAL"}, {"IS"},
            {"LESS", "GREATE", "LESS_EQUAL", "GREATE_EQUAL"}, {"BIT_OR"}, {"BIT_AND"},
            {"BIT_SHIFT_LEFT", "BIT_SHIFT_RIGHT"}, {"DOT_DOT"}, {"ADD", "SUB"}, {"MUL", "DIV", "MOD"}>>
Loose == 0     \* assignments and conditions
Unary == 12
Calls == 13

Level(t) ==
  CASE t.k = "binary" -> CHOOSE i \in DOMAIN Levels : t.x \in Levels[i]
    [] t.k = "unary" -> Unary
    [] t.k \in {"cond", "assign", "setter", "store"} -> Loose
    [] OTHER -> Calls

Word(chars, type, value) == [chars |-> chars, type |-> type, value |-> value]

Sym(type) == Word(CHOOSE s \in DOMAIN SymbolType : SymbolType[s] = type, type, <<>>)

Quote == <<"\"">>

RECURSIVE Words(_), Listed(_)

\* The words of an operand, in parentheses if its level is too low.
Operand(t, level) ==
  IF Level(t) >= level THEN Words(t) ELSE <<Sym("LEFT_PAREN")>> \o Words(t) \o <<Sym("RIGHT_PAREN")>>

Listed(es) ==
  IF Len(es) <= 1 THEN FlattenSeq([i \in DOMAIN es |-> Words(es[i])])
  ELSE Words(es[1]) \o <<Sym("COMMA")>> \o Listed(Tail(es))

\* The pieces of a string with interpolated expressions.
Piece(t, i) ==
  LET chars == t.x[i].chars
  IN  Word((IF i = 1 THEN Quote ELSE <<")">>) \o chars \o IF i = Len(t.x) THEN Quote ELSE <<"%", "(">>,
           IF i = Len(t.x) THEN "STRING" ELSE "INTERPOLATION", t.x[i].bytes)

Identifier(x) == Word(x, "ID", x)

Words(t) ==
  LET e == t.es
  IN  CASE t.k = "var" -> <<Identifier(t.x)>>
        [] t.k = "num" -> <<Word(t.x, "NUM", t.x)>>
        [] t.k = "word" -> <<Word(t.x, Keyword[t.x], <<>>)>>
        [] t.k = "str" -> <<Word(Quote \o t.x.chars \o Quote, "STRING", t.x.bytes)>>
        [] t.k = "unary" -> <<Sym(t.x)>> \o Operand(e[1], Unary)
        [] t.k = "binary" ->
             Operand(e[1], Level(t))
               \o <<IF t.x = "IS" THEN Word(<<" ", "i", "s", " ">>, "IS", <<>>) ELSE Sym(t.x)>>
               \o Operand(e[2], Level(t) + 1)
        [] t.k = "cond" ->
             Operand(e[1], Loose + 1) \o <<Sym("QUESTION")>> \o Words(e[2]) \o <<Sym("COLON")>> \o Words(e[3])
        [] t.k = "getter" -> Operand(e[1], Calls) \o <<Sym("DOT"), Identifier(t.x)>>
        [] t.k = "method" ->
             Operand(e[1], Calls) \o <<Sym("DOT"), Identifier(t.x), Sym("LEFT_PAREN")>>
               \o Listed(Tail(e)) \o <<Sym("RIGHT_PAREN")>>
        [] t.k = "fn" -> <<Identifier(t.x), Sym("LEFT_PAREN")>> \o Listed(e) \o <<Sym("RIGHT_PAREN")>>
        [] t.k = "index" ->
             Operand(e[1], Calls) \o <<Sym("LEFT_BRACKET")>> \o Listed(Tail(e)) \o <<Sym("RIGHT_BRACKET")>>
        [] t.k = "assign" -> <<Identifier(t.x), Sym("ASSIGN")>> \o Words(e[1])
        [] t.k = "setter" ->
             Operand(e[1], Calls) \o <<Sym("DOT"), Identifier(t.x), Sym("ASSIGN")>> \o Words(e[2])
        [] t.k = "store" ->
             Operand(e[1], Calls) \o <<Sym("LEFT_BRACKET")>> \o Words(e[2])
               \o <<Sym("RIGHT_BRACKET"), Sym("ASSIGN")>> \o Words(e[3])
        [] t.k = "list" -> <<Sym("LEFT_BRACKET")>> \o Listed(e) \o <<Sym("RIGHT_BRACKET")>>
        [] t.k = "map" ->
             <<Sym("LEFT_BRACE")>> \o Operand(e[1], Unary) \o <<Sym("COLON")>> \o Words(e[2])
               \o <<Sym("RIGHT_BRACE")>>
        [] t.k = "interp" ->
             FlattenSeq([i \in DOMAIN e |-> <<Piece(t, i)>> \o Words(e[i])]) \o <<Piece(t, Len(t.x))>>

IsMeant(t) == t.k \notin {"bad", "odd"}

Source(t, g) ==
  IF IsMeant(t) THEN FlattenSeq([i \in DOMAIN Words(t) |-> g \o Words(t)[i].chars]) ELSE t.x

Gaps == {<<>>, <<" ">>, <<NewLine>>, <<" ", "/", "/", ")", "\"", NewLine>>,
         <<" ", "/", "*", NewLine, "(", "\"", "*", "/">>, <<NewLine, "#", "!", "a", NewLine>>}

-----------------------------------------------------------------------------
(* Their meaning *)

I(op, name, n) == <<[op |-> op, name |-> name, n |-> n]>>

New(class) == I("LOAD_MODULE_VAR", <<class>>, 0) \o I("CALL", <<"method", "new">>, 0)
Add(n) == I("CALL", <<"method", "addCore_">>, n)

RECURSIVE Meaning(_)

All(es) == FlattenSeq([i \in DOMAIN es |-> Meaning(es[i])])

Meaning(t) ==
  LET e == t.es
      M(i) == Meaning(e[i])
  IN  CASE t.k = "var" -> I("LOAD_MODULE_VAR", t.x, 0)
        [] t.k = "num" -> I("LOAD_CONSTANT", t.x, 0)
        [] t.k = "word" -> I("PUSH", <<Keyword[t.x]>>, 0)
        [] t.k = "str" -> I("LOAD_CONSTANT", t.x.bytes, 0)
        [] t.k = "unary" -> M(1) \o I("CALL", <<"operator", t.x>>, 0)
        [] t.k = "binary" /\ t.x \in DOMAIN Infix -> M(1) \o M(2) \o I("CALL", <<"operator", t.x>>, 1)
        [] t.k = "binary" /\ t.x = "LOGIC_OR" -> M(1) \o I("OR", <<>>, Len(M(2))) \o M(2)
        [] t.k = "binary" /\ t.x = "LOGIC_AND" -> M(1) \o I("AND", <<>>, Len(M(2))) \o M(2)
        [] t.k = "cond" ->
             M(1) \o I("JUMP_IF_FALSE", <<>>, Len(M(2)) + 1) \o M(2) \o I("JUMP", <<>>, Len(M(3))) \o M(3)
        [] t.k = "getter" -> M(1) \o I("CALL", <<"getter">> \o t.x, 0)
        [] t.k = "method" -> All(e) \o I("CALL", <<"method">> \o t.x, Len(e) - 1)
        [] t.k = "fn" -> I("LOAD_MODULE_VAR", <<"Fn">> \o t.x, 0) \o All(e) \o I("CALL", <<"method", "call">>, Len(e))
        [] t.k = "index" -> All(e) \o I("CALL", <<"subscript">>, Len(e) - 1)
        [] t.k = "assign" -> M(1) \o I("STORE_MODULE_VAR", t.x, 0)
        [] t.k = "setter" -> All(e) \o I("CALL", <<"setter">> \o t.x, 1)
        [] t.k = "store" -> All(e) \o I("CALL", <<"subscript setter">>, 2)
        [] t.k = "list" -> New("List") \o FlattenSeq([i \in DOMAIN e |-> M(i) \o Add(1)])
        [] t.k = "map" -> New("Map") \o All(e) \o Add(2)
        [] t.k = "interp" ->
             New("List")
               \o FlattenSeq([i \in DOMAIN e |-> I("LOAD_CONSTANT", t.x[i].bytes, 0) \o Add(1) \o M(i) \o Add(1)])
               \o I("LOAD_CONSTANT", t.x[Len(t.x)].bytes, 0) \o Add(1) \o I("CALL", <<"method", "join">>, 0)

\* Does a string with an interpolated expression lie in an interpolated expression?
RECURSIVE HasInterpolation(_), Nested(_)
HasInterpolation(t) == t.k = "interp" \/ \E i \in DOMAIN t.es : HasInterpolation(t.es[i])
Nested(t) ==
  \/ t.k = "interp" /\ \E i \in DOMAIN t.es : HasInterpolation(t.es[i])
  \/ \E i \in DOMAIN t.es : Nested(t.es[i])

-----------------------------------------------------------------------------
(* The instance *)

Meant ==
  [tree : UNION {Deep(Leaves, n) : n \in 0..Depth} \cup Deep({Name("a")}, Depth + 1) \cup Chains \cup Literals, gap : {<<>>}]
    \cup [tree : UNION {Deep(Leaves, n) : n \in 0..1}, gap : Gaps]

\* A statement that begins with a brace would be a block.
Cases ==
  {c \in Meant : Words(c.tree)[1].type # "LEFT_BRACE"} \cup [tree : Unscannable \cup Uncompilable, gap : {<<>>}]

MCFunctionNames == {<<"f">>}

MCInit == \E c \in Cases : tree = c.tree /\ gap = c.gap /\ FrontInit(Source(c.tree, c.gap))

MCSpec == MCInit /\ [][FrontNext /\ UNCHANGED <<tree, gap>>]_mcVars

-----------------------------------------------------------------------------
(* Properties *)

TypeOK ==
  /\ mode \in {"token", "string", "eof", "error"} /\ result \in {"none", "compiled", "failed", "running"}
  /\ interpolationExpectRightParenNum \in 0..Len(tokens) /\ lineNo \in 1..Len(Source(tree, gap)) + 1
  /\ str \in Seq(TextByte) /\ text \in Seq(TextByte)

\* The scanner gives back the words a source was written from, whatever blanks and comments
\* are between them: an interpolated expression ends at its own parenthesis and nowhere else,
\* be there calls, groups, strings or comments with parentheses in it, and the strings have
\* the bytes that were meant.  Only an interpolation within another is refused.
TokensReadBack ==
  /\ mode = "eof" /\ IsMeant(tree) =>
       /\ Len(tokens) = Len(Words(tree)) + 1 /\ ~Nested(tree)
       /\ \A i \in DOMAIN Words(tree) :
            tokens[i].type = Words(tree)[i].type /\ tokens[i].value = Words(tree)[i].value
  /\ mode = "error" => tree.k = "bad" \/ (IsMeant(tree) /\ Nested(tree))

\* A token knows its line, whatever comments come before it.
LinesCounted ==
  mode = "eof" /\ IsMeant(tree) =>
    \A i \in DOMAIN Words(tree) : tokens[i].line = 1 + i * Lines(gap)

\* The compiler gives back the tree: operators bind as the comments of BindPower say and
\* group to the left, assignments and conditions reach as far as they can, and the jumps of
\* &&, || and ?: go where the operand they skip ends.
CodeReadsBack ==
  /\ result = "compiled" => IsMeant(tree) /\ code = Meaning(tree) \o I("POP", <<>>, 0)
  /\ result = "failed" => tree.k = "odd"

=============================================================================
