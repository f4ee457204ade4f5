---------------------------- MODULE MCTextUtils ----------------------------
(***************************************************************************)
(* The text utilities on small texts.  replace runs on every call below;   *)
(* its templates are the texts the other utilities are checked on.         *)
(***************************************************************************)
EXTENDS TextUtils

(* Pieces of templates: the macros of "a" and "b", a mark, letters.        *)
Pieces == {Macro(<<97>>), Macro(<<98>>), <<95>>, <<97>>, <<120>>}
Templates == {FlattenSeq(s) : s \in BoundedSeq(Pieces, 3)}

(* Values: empty, neutral, half a mark, the name of a macro with and       *)
(* without half of its marks.                                              *)
Values == {<<>>, <<120>>, <<95>>, <<98>>, <<95, 97, 95>>}
Maps == UNION {[S -> Values] : S \in SUBSET {<<97>>, <<98>>}}

(* Bytes that matter to urls: "%", "+", "-", "4", "f", space, and one      *)
(* above 127.                                                              *)
UrlTexts == BoundedSeq({37, 43, 45, 52, 102, 32, 228}, 4)

(* Bytes that matter to numbers and lists: "1", "0", "9", "-", ",", space  *)
(* and a letter.                                                           *)
NumberTexts == BoundedSeq({49, 48, 57, 45, 44, 32, 97}, 4)

(* Bytes that matter to command lines: the quote, the backslash, space and *)
(* a letter.                                                               *)
QuotedTexts == BoundedSeq({34, 92, 32, 97}, 4)

(* Texts to hash, below, at and beyond one and two blocks of 16 bytes; one *)
(* with a NUL byte in it.                                                  *)
Letters(n) == [i \in 1 .. n |-> 97 + (i % 7)]
MCHashedTexts ==
  {Letters(n) : n \in {1, 4, 7, 12, 15, 16, 17, 29, 31, 32, 33}}
    \cup {[Letters(20) EXCEPT ![18] = 0]}

MCCalls ==
  [template : Templates, values : Maps]
    \cup [template : UrlTexts \cup NumberTexts \cup QuotedTexts \cup MCHashedTexts,
          values : {[n \in {} |-> <<>>]}]

MCEndings == {<<>>, <<37>>, <<37, 52>>, <<43>>, <<37, 45, 102>>, <<52, 49>>}
MCSalts == {<<>>, <<97>>, <<97, 45, 49>>}
MCSecondTexts == {<<>>, <<97>>, <<BackslashByte>>, <<SpaceByte, QuoteByte>>}

(* Texts to put in the place of macros; no macro is longer than six bytes. *)
MCFillers == {<<>>, <<120>>, [i \in 1 .. 6 |-> 120], [i \in 1 .. 9 |-> 97]}

-----------------------------------------------------------------------------
(* "EXPECT_EQ(StringToEnum(randomString(5), UNKNOWN_ACTION, ...),          *)
(* UNKNOWN_ACTION)" (test/enum_util_test.cpp:18): a text with a letter is  *)
(* no action.  It is, if it begins with the number of one.                 *)
LettersAreUnknown ==
  ToSet(template) \subseteq AlnumBytes /\ 97 \in ToSet(template)
    => StringToEnum(template, UNKNOWN_ACTION, VALID_ACTIONTYPE_VALUES) = UNKNOWN_ACTION

=============================================================================
