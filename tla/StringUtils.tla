---------------------------- MODULE StringUtils ----------------------------
(***************************************************************************)
(* The conversions of src/string_utils.cpp and include/string_utils.h that *)
(* are not hashes, as operators on texts.  A text is a sequence of bytes,  *)
(* and a byte a number, so that signs and widths are what they are in the  *)
(* code.                                                                   *)
(***************************************************************************)
EXTENDS Naturals, Sequences, SequencesExt

SpaceByte == 32
PercentByte == 37
PlusByte == 43
MinusByte == 45
DigitBytes == 48 .. 57

(* isspace and isalnum in the "C" locale.                                  *)
SpaceBytes == {SpaceByte} \cup 9 .. 13
AlnumBytes == DigitBytes \cup 65 .. 90 \cup 97 .. 122

Largest(a, b) == IF a > b THEN a ELSE b

From(s, i) == SubSeq(s, i, Len(s))

-----------------------------------------------------------------------------
(* Mutation: the salt is written once the data has ended.                  *)
interleaveNotBeyond(data, salt) ==
  LET At(s, i) == IF i <= Len(s) THEN <<s[i]>> ELSE <<>> IN
  FlattenSeq([i \in 1 .. Len(salt) |-> At(data, i) \o At(salt, i)])

(* Characters of the data and of the salt take turns; the longer of the    *)
(* two goes on alone.                                                      *)
interleaveSaltWithData(data, salt) ==
  LET At(s, i) == IF i <= Len(s) THEN <<s[i]>> ELSE <<>> IN
  FlattenSeq([i \in 1 .. Largest(Len(data), Len(salt)) |-> At(data, i) \o At(salt, i)])

-----------------------------------------------------------------------------
Unreserved(c) == c \in AlnumBytes \cup {MinusByte, 46, 95, 126}

UpperHexDigit(d) == IF d < 10 THEN 48 + d ELSE 55 + d

EncodedByte(c) ==
  IF Unreserved(c) THEN <<c>>
  ELSE <<PercentByte, UpperHexDigit(c \div 16), UpperHexDigit(c % 16)>>

urlEncode(value) == FlattenSeq([i \in DOMAIN value |-> EncodedByte(value[i])])

HexDigits == DigitBytes \cup 65 .. 70 \cup 97 .. 102

DigitValue(c) ==
  CASE c \in DigitBytes -> c - 48
    [] c \in 65 .. 70 -> c - 55
    [] c \in 97 .. 102 -> c - 87

(* strtol of two characters in base 16, cut to a byte: it reads as far as  *)
(* it can, takes a sign or a space in front, and makes 0 of anything else. *)
HexByte(c, d) ==
  IF c \in HexDigits
  THEN IF d \in HexDigits THEN 16 * DigitValue(c) + DigitValue(d) ELSE DigitValue(c)
  ELSE IF c \in SpaceBytes \cup {PlusByte} /\ d \in HexDigits THEN DigitValue(d)
  ELSE IF c = MinusByte /\ d \in HexDigits THEN (256 - DigitValue(d)) % 256
  ELSE 0

(* Mutation: the two characters must not be the last ones of the text.     *)
EscapeInside(value) == value[1] = PercentByte /\ Len(value) > 3

(* A percent sign with two characters behind it, whatever they are.        *)
Escape(value) == value[1] = PercentByte /\ Len(value) > 2

urlDecode[value \in Seq(Nat)] ==
  IF value = <<>> THEN <<>>
  ELSE IF Escape(value)
  THEN <<HexByte(value[2], value[3])>> \o urlDecode[From(value, 4)]
  ELSE <<IF value[1] = PlusByte THEN SpaceByte ELSE value[1]>> \o urlDecode[From(value, 2)]

-----------------------------------------------------------------------------
(* Mutation: the exception of the converter ends the loop.                 *)
SplitOffUncaught(token, rest, converter) ==
  IF token \in DOMAIN converter THEN <<converter[token]>> \o rest ELSE <<>>

(* A token the loop of getline meets.  The converter is a function on the  *)
(* texts it returns for; its exception is caught, the token is dropped and *)
(* the loop goes on.                                                       *)
SplitOff(token, rest, converter) ==
  IF token \in DOMAIN converter THEN <<converter[token]>> \o rest ELSE rest

(* std::getline on the text: it reads up to a delimiter or to the end.     *)
Line(str, delimiter) ==
  LET ends == {i \in DOMAIN str : str[i] = delimiter}
  IN IF ends = {} THEN Len(str) ELSE (CHOOSE i \in ends : \A j \in ends : i <= j) - 1

(* The end of the text ends the last token, and there is none behind a     *)
(* final delimiter.                                                        *)
splitStringToVector(text, delimiter, converter) ==
  LET split[str \in Seq(Nat)] ==
        IF str = <<>> THEN <<>>
        ELSE SplitOff(SubSeq(str, 1, Line(str, delimiter)),
                      split[From(str, Line(str, delimiter) + 2)],
                      converter)
  IN split[text]

=============================================================================
