------------------------------- MODULE Lexer -------------------------------
(***************************************************************************)
(* The scanner (parser/parser.c): getNextToken(), the comments, the        *)
(* numbers, and the strings with the expressions interpolated in them.     *)
(*                                                                         *)
(* A character of ASCII is a string of one character, any other byte of    *)
(* the source is a string with its number.  rest begins with curChar.      *)
(* One step is one turn of the loop in getNextToken() or parseString().    *)
(***************************************************************************)
EXTENDS Utf8, TLC

VARIABLES
  rest,       \* the characters not read yet
  mode,       \* "token" and "string": the function that reads; "eof" and "error": the end
  str,        \* the bytes of the string that is being read
  interpolationExpectRightParenNum,
  lineNo,     \* curToken.lineNo
  tokens      \* the tokens given to the compiler

lexVars == <<rest, mode, str, interpolationExpectRightParenNum, lineNo, tokens>>

NewLine == "\n"
Blank == {" ", NewLine}
Digit == {"0", "1", "2", "3", "4", "5", "6", "7", "8", "9"}
IdStart == {"a", "b", "c", "d", "e", "f", "g", "h", "i", "l", "m", "n", "p", "r", "s", "t", "u", "x", "_"}

HexDigit ==
  [c \in Digit \cup {"a", "b", "c", "d", "e", "f"} |->
     CHOOSE n \in 0..15 : c = <<"0", "1", "2", "3", "4", "5", "6", "7", "8", "9",
                                "a", "b", "c", "d", "e", "f">>[n + 1]]

\* The characters 32 to 126 of ASCII; a string of TLA+ cannot hold the grave accent.
Printable ==
  <<" ", "!", "\"", "#", "$", "%", "&", "'", "(", ")", "*", "+", ",", "-", ".", "/", "0", "1", "2",
    "3", "4", "5", "6", "7", "8", "9", ":", ";", "<", "=", ">", "?", "@", "A", "B", "C", "D", "E",
    "F", "G", "H", "I", "J", "K", "L", "M", "N", "O", "P", "Q", "R", "S", "T", "U", "V", "W", "X",
    "Y", "Z", "[", "\\", "]", "^", "_", "grave", "a", "b", "c", "d", "e", "f", "g", "h", "i", "j", "k",
    "l", "m", "n", "o", "p", "q", "r", "s", "t", "u", "v", "w", "x", "y", "z", "{", "|", "}", "~">>

\* The byte of each character.
ByteOf ==
  [c \in {ToString(n) : n \in 128..255} |-> CHOOSE n \in 128..255 : c = ToString(n)]
    @@ [c \in Range(Printable) |-> 31 + CHOOSE n \in DOMAIN Printable : Printable[n] = c]
    @@ (NewLine :> 10)

\* The characters that may follow a backslash, and the byte they stand for.
Escape ==
  ("0" :> 0) @@ ("a" :> 7) @@ ("b" :> 8) @@ ("f" :> 12) @@ ("n" :> 10) @@ ("r" :> 13)
    @@ ("t" :> 9) @@ ("\"" :> 34) @@ ("\\" :> 92)

Keyword ==
  (<<"i", "s">> :> "IS") @@ (<<"t", "r", "u", "e">> :> "TRUE")
    @@ (<<"f", "a", "l", "s", "e">> :> "FALSE") @@ (<<"n", "u", "l", "l">> :> "NULL")

\* The switch of getNextToken(); of a slash only what is no comment.
SymbolType ==
  (<<",">> :> "COMMA") @@ (<<":">> :> "COLON") @@ (<<"(">> :> "LEFT_PAREN")
    @@ (<<")">> :> "RIGHT_PAREN") @@ (<<"[">> :> "LEFT_BRACKET") @@ (<<"]">> :> "RIGHT_BRACKET")
    @@ (<<"{">> :> "LEFT_BRACE") @@ (<<"}">> :> "RIGHT_BRACE") @@ (<<".">> :> "DOT")
    @@ (<<".", ".">> :> "DOT_DOT") @@ (<<"=">> :> "ASSIGN") @@ (<<"=", "=">> :> "EQUAL")
    @@ (<<"+">> :> "ADD") @@ (<<"-">> :> "SUB") @@ (<<"*">> :> "MUL") @@ (<<"/">> :> "DIV")
    @@ (<<"%">> :> "MOD") @@ (<<"&">> :> "BIT_AND") @@ (<<"&", "&">> :> "LOGIC_AND")
    @@ (<<"|">> :> "BIT_OR") @@ (<<"|", "|">> :> "LOGIC_OR") @@ (<<"~">> :> "BIT_NOT")
    @@ (<<"?">> :> "QUESTION") @@ (<<">">> :> "GREATE") @@ (<<">", "=">> :> "GREATE_EQUAL")
    @@ (<<">", ">">> :> "BIT_SHIFT_RIGHT") @@ (<<"<">> :> "LESS") @@ (<<"<", "=">> :> "LESS_EQUAL")
    @@ (<<"<", "<">> :> "BIT_SHIFT_LEFT") @@ (<<"!">> :> "LOGIC_NOT") @@ (<<"!", "=">> :> "NOT_EQUAL")

Token(type, value) == [type |-> type, value |-> value, line |-> lineNo]

\* initParser()
LexInit(source) ==
  /\ rest = source /\ mode = "token" /\ str = <<>>
  /\ interpolationExpectRightParenNum = 0 /\ lineNo = 1 /\ tokens = <<>>

-----------------------------------------------------------------------------
(* Helpers *)

Drop(s, n) == SubSeq(s, n + 1, Len(s))

\* The first place in s behind place i at which Test holds; Len(s) + 1 if there is none.
Place(s, i, Test(_)) ==
  LET n == SelectInSeq(Drop(s, i), Test) IN IF n = 0 THEN Len(s) + 1 ELSE i + n

\* The number of characters from the given set with which s begins.
Run(s, chars) == Place(s, 0, LAMBDA c : c \notin chars) - 1

Lines(s) == Len(SelectSeq(s, LAMBDA c : c = NewLine))

Stop(result) == mode' = result /\ UNCHANGED <<rest, str, interpolationExpectRightParenNum, lineNo, tokens>>

-----------------------------------------------------------------------------
(* getNextToken() *)

IsLineComment == IsPrefix(<<"/", "/">>, rest) \/ IsPrefix(<<"#", "!">>, rest)
IsBlockComment == IsPrefix(<<"/", "*">>, rest)

\* skipBlanks()
SkipBlank ==
  /\ mode = "token" /\ rest # <<>> /\ rest[1] \in Blank
  /\ lineNo' = lineNo + Lines(<<rest[1]>>)
  /\ rest' = Tail(rest)
  /\ UNCHANGED <<mode, str, interpolationExpectRightParenNum, tokens>>

\* skipAline(): to the end of the line or of the source.
SkipLine ==
  /\ mode = "token" /\ IsLineComment
  /\ LET end == Place(rest, 0, LAMBDA c : c = NewLine)
     IN  /\ rest' = Drop(rest, end)
         /\ lineNo' = lineNo + IF end <= Len(rest) THEN 1 ELSE 0
  /\ UNCHANGED <<mode, str, interpolationExpectRightParenNum, tokens>>

\* Fault: the lines of a block comment are not counted.
BlockUncounted(s) == 0

BlockLines(s) == Lines(s)

\* The asterisk at which skipComment() looks for the end of a block comment: the first one.
BlockEnd == Place(rest, 2, LAMBDA c : c = "*")

\* skipComment(): the first asterisk in a block comment has to be followed by a slash.
SkipBlock ==
  /\ mode = "token" /\ IsBlockComment
  /\ IsPrefix(<<"*", "/">>, Drop(rest, BlockEnd - 1))
  /\ rest' = Drop(rest, BlockEnd + 1)
  /\ lineNo' = lineNo + BlockLines(SubSeq(rest, 1, BlockEnd))
  /\ UNCHANGED <<mode, str, interpolationExpectRightParenNum, tokens>>

SkipBlockFails ==
  /\ mode = "token" /\ IsBlockComment
  /\ ~IsPrefix(<<"*", "/">>, Drop(rest, BlockEnd - 1))
  /\ Stop("error")

\* The longest operator or delimiter with which the source goes on.
Symbol ==
  IF Len(rest) >= 2 /\ SubSeq(rest, 1, 2) \in DOMAIN SymbolType THEN SubSeq(rest, 1, 2) ELSE SubSeq(rest, 1, 1)

IsSymbol ==
  mode = "token" /\ rest # <<>> /\ ~IsLineComment /\ ~IsBlockComment /\ Symbol \in DOMAIN SymbolType


Nesting(type) == CASE type = "LEFT_PAREN" -> 1 [] type = "RIGHT_PAREN" -> -1 [] OTHER -> 0

\* Does the parenthesis end the interpolated expression?
ResumesString == interpolationExpectRightParenNum = 1 /\ Nesting(SymbolType[Symbol]) = -1

GetSymbol ==
  /\ IsSymbol /\ ~ResumesString
  /\ interpolationExpectRightParenNum' =
       interpolationExpectRightParenNum
         + IF interpolationExpectRightParenNum > 0 THEN Nesting(SymbolType[Symbol]) ELSE 0
  /\ tokens' = Append(tokens, Token(SymbolType[Symbol], <<>>))
  /\ rest' = Drop(rest, Len(Symbol))
  /\ UNCHANGED <<mode, str, lineNo>>

ResumeString ==
  /\ IsSymbol /\ ResumesString
  /\ interpolationExpectRightParenNum' = 0
  /\ mode' = "string" /\ str' = <<>> /\ rest' = Tail(rest)
  /\ UNCHANGED <<lineNo, tokens>>

OpenString ==
  /\ mode = "token" /\ IsPrefix(<<"\"">>, rest)
  /\ mode' = "string" /\ str' = <<>> /\ rest' = Tail(rest)
  /\ UNCHANGED <<interpolationExpectRightParenNum, lineNo, tokens>>

\* parseId() and idOrkeyword()
ParseId ==
  /\ mode = "token" /\ rest # <<>> /\ rest[1] \in IdStart
  /\ LET id == SubSeq(rest, 1, Run(rest, IdStart \cup Digit))
     IN  /\ tokens' = Append(tokens, IF id \in DOMAIN Keyword THEN Token(Keyword[id], <<>>)
                                     ELSE Token("ID", id))
         /\ rest' = Drop(rest, Len(id))
  /\ UNCHANGED <<mode, str, interpolationExpectRightParenNum, lineNo>>

\* The number of characters of a number: hexadecimal, octal or decimal with a fraction.  A dot
\* without a digit behind it does not belong to it.
NumLength ==
  LET whole == Run(rest, Digit)
  IN  CASE IsPrefix(<<"0", "x">>, rest) -> 2 + Run(Drop(rest, 2), DOMAIN HexDigit)
        [] rest[1] = "0" /\ whole > 1 -> Run(rest, Digit \ {"8", "9"})
        [] ~IsPrefix(<<"0", "x">>, rest) /\ (rest[1] # "0" \/ whole = 1) ->
             LET fraction == Run(Drop(rest, whole + 1), Digit)
             IN  IF IsPrefix(<<".">>, Drop(rest, whole)) /\ fraction > 0
                 THEN whole + 1 + fraction ELSE whole

\* parseNum()
ParseNum ==
  /\ mode = "token" /\ rest # <<>> /\ rest[1] \in Digit
  /\ tokens' = Append(tokens, Token("NUM", SubSeq(rest, 1, NumLength)))
  /\ rest' = Drop(rest, NumLength)
  /\ UNCHANGED <<mode, str, interpolationExpectRightParenNum, lineNo>>

Unsupported ==
  /\ mode = "token" /\ rest # <<>>
  /\ rest[1] \notin Blank \cup Digit \cup IdStart \cup {"\""}
  /\ ~IsLineComment /\ <<rest[1]>> \notin DOMAIN SymbolType
  /\ Stop("error")

EndOfFile ==
  /\ mode = "token" /\ rest = <<>>
  /\ mode' = "eof"
  /\ tokens' = Append(tokens, Token("EOF", <<>>))
  /\ UNCHANGED <<rest, str, interpolationExpectRightParenNum, lineNo>>

-----------------------------------------------------------------------------
(* parseString() *)

StringToken(type, length) ==
  /\ mode' = "token" /\ rest' = Drop(rest, length)
  /\ tokens' = Append(tokens, Token(type, str))
  /\ UNCHANGED <<str, lineNo>>

CloseString ==
  /\ mode = "string" /\ IsPrefix(<<"\"">>, rest)
  /\ StringToken("STRING", 1)
  /\ UNCHANGED interpolationExpectRightParenNum

Interpolate ==
  /\ mode = "string" /\ IsPrefix(<<"%", "(">>, rest) /\ interpolationExpectRightParenNum = 0
  /\ StringToken("INTERPOLATION", 2)
  /\ interpolationExpectRightParenNum' = 1

\* A percent sign alone, or an interpolation within an interpolated expression.
InterpolateFails ==
  /\ mode = "string" /\ IsPrefix(<<"%">>, rest)
  /\ ~IsPrefix(<<"%", "(">>, rest) \/ interpolationExpectRightParenNum > 0
  /\ Stop("error")

Put(bytes, length) ==
  /\ str' = str \o bytes /\ rest' = Drop(rest, length)
  /\ UNCHANGED <<mode, interpolationExpectRightParenNum, lineNo, tokens>>

PutChar ==
  /\ mode = "string" /\ rest # <<>> /\ rest[1] \notin {"\"", "%", "\\"}
  /\ Put(<<ByteOf[rest[1]]>>, 1)

PutEscape ==
  /\ mode = "string" /\ Len(rest) >= 2 /\ rest[1] = "\\" /\ rest[2] \in DOMAIN Escape
  /\ Put(<<Escape[rest[2]]>>, 2)

\* parseUnicodeCodePoint() has four digits to read.
HasFourDigits == Run(Drop(rest, 2), DOMAIN HexDigit) >= 4

ParseUnicodeCodePoint ==
  /\ mode = "string" /\ IsPrefix(<<"\\", "u">>, rest) /\ HasFourDigits
  /\ Put(EncodeUtf8(FoldLeft(LAMBDA value, c : (value * 16) + HexDigit[c], 0, SubSeq(rest, 3, 6))), 6)

\* The source ends, an unknown character is escaped, or digits are missing.
ParseStringFails ==
  /\ mode = "string"
  /\ \/ rest = <<>>
     \/ rest = <<"\\">>
     \/ Len(rest) >= 2 /\ rest[1] = "\\" /\ rest[2] \notin DOMAIN Escape \cup {"u"}
     \/ IsPrefix(<<"\\", "u">>, rest) /\ ~HasFourDigits
  /\ Stop("error")

GetNextToken ==
  \/ SkipBlank \/ SkipLine \/ SkipBlock \/ SkipBlockFails
  \/ GetSymbol \/ ResumeString \/ OpenString \/ ParseId \/ ParseNum \/ Unsupported \/ EndOfFile
  \/ CloseString \/ Interpolate \/ InterpolateFails
  \/ PutChar \/ PutEscape \/ ParseUnicodeCodePoint \/ ParseStringFails
=============================================================================
