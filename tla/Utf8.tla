-------------------------------- MODULE Utf8 --------------------------------
(***************************************************************************)
(* The UTF-8 encoder and decoder (include/unicodeUtf8.c).  The masks and   *)
(* shifts of the code are written as quotients and remainders.             *)
(***************************************************************************)
EXTENDS Integers, SequencesExt

\* 10xxxxxx
IsContinuation(byte) == byte \div 64 = 2

\* Fault: the bits are shifted and not masked.
ContinuationUnmasked(value, weight) == 128 + (value \div weight)

Continuation(value, weight) == 128 + ((value \div weight) % 64)

GetByteNumOfEncodeUtf8(value) ==
  CASE value <= 127             -> 1
    [] value \in 128..2047      -> 2
    [] value \in 2048..65535    -> 3
    [] value \in 65536..1114111 -> 4
    [] OTHER                    -> 0

EncodeUtf8(value) ==
  CASE GetByteNumOfEncodeUtf8(value) = 1 -> <<value>>
    [] GetByteNumOfEncodeUtf8(value) = 2 ->
         <<192 + (value \div 64), Continuation(value, 1)>>
    [] GetByteNumOfEncodeUtf8(value) = 3 ->
         <<224 + (value \div 4096), Continuation(value, 64), Continuation(value, 1)>>
    [] GetByteNumOfEncodeUtf8(value) = 4 ->
         <<240 + (value \div 262144), Continuation(value, 4096),
           Continuation(value, 64), Continuation(value, 1)>>

\* 0 for a byte that does not begin a character.
GetByteNumOfDecodeUtf8(byte) ==
  CASE IsContinuation(byte) -> 0
    [] byte \div 8 = 30     -> 4
    [] byte \div 16 = 14    -> 3
    [] byte \div 32 = 6     -> 2
    [] OTHER                -> 1

Invalid == -1

\* The code point at the beginning of a sequence of bytes that is not empty, or Invalid: the
\* first byte begins no character, the sequence is cut off, or a byte is no continuation.
DecodeUtf8(bytes) ==
  LET first == bytes[1]
      size  == GetByteNumOfDecodeUtf8(first)
      bits  == CASE size = 2 -> first % 32 [] size = 3 -> first % 16 [] OTHER -> first % 8
  IN  CASE first <= 127 -> first
        [] first > 127 /\ (size \in 0..1 \/ size > Len(bytes)) -> Invalid
        [] first > 127 /\ size \in 2..4 /\ size <= Len(bytes) ->
             IF \E i \in 2..size : ~IsContinuation(bytes[i]) THEN Invalid
             ELSE FoldLeft(LAMBDA value, byte : (value * 64) + (byte % 64), bits, SubSeq(bytes, 2, size))
=============================================================================
