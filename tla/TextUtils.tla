----------------------------- MODULE TextUtils -----------------------------
(***************************************************************************)
(* What the text utilities promise of one text.  The text is the template  *)
(* of a call of replace, so that the properties are invariants of runs.    *)
(***************************************************************************)
EXTENDS MacroVariableUtil, CommandText, MurmurHash3

CONSTANTS
  Endings,                   \* texts behind an encoded value
  Salts,                     \* salts of GlobalHttpHandler
  SecondTexts,               \* arguments behind another one
  Fillers,                   \* texts to put in the place of macros
  HashedTexts,               \* the templates that are hashed
  OtherBytes,                \* bytes to put in the place of one of them
  VALID_ACTIONTYPE_VALUES, UNKNOWN_ACTION

ASSUME TextUtilsAssumption ==
  /\ Endings \in SUBSET Seq(Byte)
  /\ Salts \in SUBSET Seq(Byte)
  /\ SecondTexts \in SUBSET Seq(Byte)
  /\ Fillers \in SUBSET Seq(Byte)
  /\ OtherBytes \in SUBSET Byte
  /\ VALID_ACTIONTYPE_VALUES \in SUBSET (-IntMax - 1 .. IntMax)

CommaByte == 44

(* A value that was encoded comes back, whatever text it is followed by in *)
(* a url: an escape sequence at the end, a lone percent sign, a plus.      *)
EncodedDecodes ==
  \A t \in Endings :
    urlDecode[urlEncode(template) \o t] = template \o urlDecode[t]

(* The login string can be read back from what is hashed with the salt, so *)
(* two logins differ before they are hashed, whichever of the string and   *)
(* the salt is longer.                                                     *)
DataOf(mixed, n, m) ==
  [i \in 1 .. n |-> mixed[IF i <= m THEN 2 * i - 1 ELSE m + i]]

InterleavingSeparates ==
  \A salt \in Salts :
    LET mixed == interleaveSaltWithData(template, salt) IN
    /\ Len(mixed) = Len(template) + Len(salt)
    /\ DataOf(mixed, Len(template), Len(salt)) = template

(* A list is rebuilt from its tokens: as texts, split loses nothing but    *)
(* the last delimiter, and keeps empty tokens; and as numbers it loses     *)
(* exactly the tokens that are none, wherever they stand.                  *)
Joined(tokens) == FlattenSeq([i \in DOMAIN tokens |-> tokens[i] \o <<CommaByte>>])

Converted(tokens, converter) ==
  FlattenSeq([i \in DOMAIN tokens |->
    IF tokens[i] \in DOMAIN converter THEN <<converter[tokens[i]]>> ELSE <<>>])

SplitRejoins ==
  LET tokens == splitStringToVector(template, CommaByte, string2string_converter) IN
  /\ Joined(tokens) \in {template, template \o <<CommaByte>>}
  /\ splitStringToVector(template, CommaByte, string2ints_converter)
       = Converted(tokens, string2ints_converter)

(* Two texts put between quotes, with a backslash in front of the bytes    *)
(* that mean something there, come out of a command line as they were:     *)
(* nothing in them ends the quotes or the argument.  (An empty text comes  *)
(* out unless it is the last.)                                             *)
Protected(c) == IF c \in {QuoteByte, BackslashByte} THEN <<BackslashByte, c>> ELSE <<c>>
Quoted(t) ==
  <<QuoteByte>> \o FlattenSeq([i \in DOMAIN t |-> Protected(t[i])]) \o <<QuoteByte>>

QuotedArgumentsSurvive ==
  \A t \in SecondTexts :
    LET line == Quoted(template) \o <<SpaceByte>> \o Quoted(t) IN
    /\ ParsesText(line)
    /\ ArgumentsOf(line) = <<template>> \o (IF t = <<>> THEN <<>> ELSE <<t>>)

(* A text of digits is an action if and only if it is the number of one:   *)
(* no number too large for an int wraps round to an action.                *)
OnlyDigits == template # <<>> /\ ToSet(template) \subseteq DigitBytes

NumbersAreExact ==
  OnlyDigits =>
    StringToEnum(template, UNKNOWN_ACTION, VALID_ACTIONTYPE_VALUES) =
      IF ValueOf[template] \in VALID_ACTIONTYPE_VALUES THEN ValueOf[template]
      ELSE UNKNOWN_ACTION

(* What a reader of replaceMacroVariable expects: the text in the place of *)
(* every macro, taken from left to right.                                  *)
HasMacro(s) == \E i, j \in Occurrences(Marks, s) : i + Len(Marks) <= j

Opening(s) == First(Occurrences(Marks, s))
Closing(s) == First({j \in Occurrences(Marks, s) : j >= Opening(s) + Len(Marks)})
AfterMacro(s) == From(s, Closing(s) + Len(Marks))

FilledIn(link, str) ==
  LET filled[s \in Seq(Nat)] ==
        IF HasMacro(s) THEN SubSeq(s, 1, Opening(s) - 1) \o str \o filled[AfterMacro(s)]
        ELSE s
  IN filled[link]

(* The text is no shorter than from any mark to the end of the next.       *)
Covers(str, s) ==
  \A i, j \in Occurrences(Marks, s) :
    /\ i + Len(Marks) <= j
    /\ \A k \in Occurrences(Marks, s) : k < i + Len(Marks) \/ j <= k
    => j + Len(Marks) - i <= Len(str)

(* replaceMacroVariable does that with a text that has no underscore, if   *)
(* it is no shorter than the macros, and for the only macro in any case.   *)
(* ("Replace the macros that are left by nothing" of                       *)
(* macro_variable_util.hpp:39 is more: of two macros close to each other,  *)
(* the second stays.)                                                      *)
MacrosFilled ==
  \A str \in Fillers :
    /\ ToSet(str) \cap ToSet(Marks) = {}
    /\ Covers(str, template) \/ (HasMacro(template) /\ ~HasMacro(AfterMacro(template)))
    => replaceMacroVariable(template, str) = FilledIn(template, str)

(* A text and the same text with one byte changed, at whatever distance    *)
(* from the end of a block, have one hash exactly if they agree up to a    *)
(* NUL byte: no byte of a request is left out of its id.  (Texts whose     *)
(* first NUL bytes are at different places may have one hash.)             *)
EveryByteCounts ==
  template \in HashedTexts =>
    \A i \in DOMAIN template, c \in OtherBytes :
      LET other == [template EXCEPT ![i] = c] IN
      Len(CString(other)) = Len(CString(template))
        => (hash(other) = hash(template) <=> CString(other) = CString(template))

=============================================================================
