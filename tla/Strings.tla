------------------------------ MODULE Strings ------------------------------
(***************************************************************************)
(* Strings as sequences of bytes (vm/core.c): concatenation, subscripts,   *)
(* searching, and the for loop over the characters of a string.            *)
(*                                                                         *)
(* Indices count bytes from 0, as in the code; text[i + 1] is byte i.      *)
(***************************************************************************)
EXTENDS Utf8, FiniteSets

\* A byte 255 never occurs in UTF-8; the table of findString() has no entry for it.
TextByte == 0..254

NotFound == -1

\* memcmp() of part with the bytes of text from an index.
Matches(text, index, part) == SubSeq(text, index + 1, index + Len(part)) = part

StartsWith(text, part) == Len(part) <= Len(text) /\ Matches(text, 0, part)

EndsWith(text, part) == Len(part) <= Len(text) /\ Matches(text, Len(text) - Len(part), part)

\* Fault: the first place of a byte counts and not the last one.
ShiftToFirst(needle) ==
  [byte \in TextByte |->
     LET places == {i \in 1..Len(needle) - 1 : needle[i] = byte}
     IN  IF places = {} THEN Len(needle)
         ELSE Len(needle) - CHOOSE i \in places : \A j \in places : j >= i]

\* How far the window may be moved when its last byte is the given one.
Shift(needle) ==
  [byte \in TextByte |->
     LET places == {i \in 1..Len(needle) - 1 : needle[i] = byte}
     IN  IF places = {} THEN Len(needle)
         ELSE Len(needle) - CHOOSE i \in places : \A j \in places : j <= i]

\* The search of Boyer, Moore and Horspool: the index of needle in text, or NotFound.
FindString(text, needle) ==
  LET shift == Shift(needle)
      range == Len(text) - Len(needle)
      window[i \in 0..Len(text)] ==
        CASE i > range -> NotFound
          [] i <= range /\ Matches(text, i, needle) -> i
          [] i <= range /\ ~Matches(text, i, needle) -> window[i + shift[text[i + Len(needle)]]]
  IN  CASE needle = <<>> -> 0
        [] needle # <<>> /\ Len(needle) > Len(text) -> NotFound
        [] needle # <<>> /\ Len(needle) <= Len(text) -> window[0]

\* The string given for an index: the character there, or the bare byte if none begins there.
StringCodePointAt(text, index) ==
  LET codePoint == DecodeUtf8(SubSeq(text, index + 1, Len(text)))
  IN  IF codePoint = Invalid THEN <<text[index + 1]>> ELSE EncodeUtf8(codePoint)

\* The bytes visited by a range of indices.
Visited(start, count, direction) == [k \in 1..count |-> start + ((k - 1) * direction)]

\* newObjStringFromSub(): what is written, for the indices at which a character begins.
NewObjStringFromSub(text, start, count, direction) ==
  FlattenSeq([k \in 1..count |->
    LET codePoint == DecodeUtf8(SubSeq(text, Visited(start, count, direction)[k] + 1, Len(text)))
    IN  IF codePoint = Invalid THEN <<>> ELSE EncodeUtf8(codePoint)])

\* Fault: a byte inside a character is counted.
SubLengthOfBytes(text, start, count, direction) == count

\* ... and the number of bytes allocated for it beforehand.
SubLength(text, start, count, direction) ==
  FoldLeft(LAMBDA n, i : n + GetByteNumOfDecodeUtf8(text[i + 1]), 0, Visited(start, count, direction))

Direction(from, to) == IF from < to THEN 1 ELSE -1

Count(from, to) == 1 + IF from < to THEN to - from ELSE from - to

-----------------------------------------------------------------------------
(* for c (text) *)

VARIABLES
  text,     \* the bytes of the string
  iterator, \* the index given last, NoIterator before the first, Over at the end
  given     \* the strings given to the body of the loop

stringVars == <<text, iterator, given>>

NoIterator == -1
Over == -2

StringInit == text = <<>> /\ iterator = Over /\ given = <<>>

StartLoop(bytes) == text' = bytes /\ iterator' = NoIterator /\ given' = <<>>

\* Fault: every byte is taken for a character.
ByteStarts == {i \in 0..Len(text) - 1 : i > iterator}

\* The indices at which iterate() may stop.  The first byte is not looked at.
CharacterStarts ==
  {i \in 0..Len(text) - 1 :
     i > iterator /\ (iterator = NoIterator \/ ~IsContinuation(text[i + 1]))}

Iterate ==
  /\ iterator # Over /\ CharacterStarts # {}
  /\ \E i \in CharacterStarts :
       /\ \A j \in CharacterStarts : i <= j
       /\ iterator' = i
       /\ given' = Append(given, StringCodePointAt(text, i))
  /\ UNCHANGED text

EndLoop ==
  /\ iterator # Over /\ CharacterStarts = {}
  /\ iterator' = Over
  /\ UNCHANGED <<text, given>>

-----------------------------------------------------------------------------
(* Properties *)

\* A loop over a string gives the characters the text consists of: put together in the order
\* they are given they are the text, and each of them is one character.
LoopGivesTheText ==
  iterator = Over =>
    /\ FlattenSeq(given) = text
    /\ \A k \in DOMAIN given : Len(given[k]) = GetByteNumOfDecodeUtf8(given[k][1])

\* findString() finds what it is asked for, and at the first place, whatever the bytes of the
\* pattern are: the window is never moved too far.  It agrees with startsWith() and endsWith().
SearchFindsTheFirst ==
  \A i \in 0..Len(text), n \in 0..3 :
    i + n <= Len(text) =>
      LET needle == SubSeq(text, i + 1, i + n)
          found == FindString(text, needle)
      IN  /\ found \in 0..i /\ Matches(text, found, needle)
          /\ \A j \in 0..found - 1 : ~Matches(text, j, needle)
          /\ StartsWith(text, needle) <=> found = 0
          /\ i + n = Len(text) => EndsWith(text, needle)

\* A subscript by any range of bytes fills the string allocated for it to its last byte, also
\* when the range begins or ends inside a character.
SubscriptFillsItsString ==
  \A from, to \in 0..Len(text) - 1 :
    Len(NewObjStringFromSub(text, from, Count(from, to), Direction(from, to)))
      = SubLength(text, from, Count(from, to), Direction(from, to))

\* Searches and subscripts are right for every part of the text.
PartsOfTheText == SearchFindsTheFirst /\ SubscriptFillsItsString
=============================================================================
