------------------------- MODULE MacroVariableUtil -------------------------
(***************************************************************************)
(* MacroVariableUtil::replace (include/macro_variable_util.hpp), which     *)
(* puts the parameters of a request into the link template of the          *)
(* advertiser.  The loop takes the variables in the order of the map and   *)
(* replaces the first occurrence of a macro until there is none: what a    *)
(* value contains may be replaced again, or together with its surroundings *)
(* become a macro.  One substitution is one step.                          *)
(***************************************************************************)
EXTENDS Naturals, Sequences, SequencesExt

CONSTANTS
  Calls,       \* templates and maps of variables replace is called with
  NoName       \* the loop is between two variables

VARIABLES
  template, values,   \* the arguments
  todo,        \* variables the outer loop has still to take
  name,        \* the variable the inner loop replaces
  text         \* result

Byte == 0 .. 255

ASSUME CallsAssumption ==
  \A c \in Calls :
    /\ c.template \in Seq(Byte)
    /\ \A n \in DOMAIN c.values : n \in Seq(Byte) /\ c.values[n] \in Seq(Byte)
    /\ NoName \notin DOMAIN c.values

vars == <<template, values, todo, name, text>>

Marks == <<95, 95>>

Macro(n) == Marks \o n \o Marks

(* Positions at which `part' begins in s.                                  *)
Occurrences(part, s) ==
  {i \in 1 .. Len(s) + 1 - Len(part) : SubSeq(s, i, i + Len(part) - 1) = part}

First(S) == CHOOSE i \in S : \A j \in S : i <= j

isMacroVariable(value) == Occurrences(Marks, value) # {}

isRealVariable(value) == value # <<>> /\ ~isMacroVariable(value)

Init ==
  \E c \in Calls :
    /\ template = c.template /\ text = c.template
    /\ values = c.values /\ todo = DOMAIN c.values
    /\ name = NoName

Take(n) ==
  /\ name = NoName
  /\ n \in todo
  /\ name' = n
  /\ todo' = todo \ {n}
  /\ UNCHANGED <<template, values, text>>

(* Mutation: the length of the macro is short by one.                      *)
SubstituteShort ==
  /\ name # NoName
  /\ Occurrences(Macro(name), text) # {}
  /\ text' = ReplaceSubSeqAt(First(Occurrences(Macro(name), text)), values[name],
                             Front(Macro(name)), text)
  /\ UNCHANGED <<template, values, todo, name>>

Substitute ==
  /\ name # NoName
  /\ Occurrences(Macro(name), text) # {}
  /\ text' = ReplaceSubSeqAt(First(Occurrences(Macro(name), text)), values[name],
                             Macro(name), text)
  /\ UNCHANGED <<template, values, todo, name>>

(* Mutation: the loop stays with the variable.                             *)
LeaveLoopNever ==
  /\ name # NoName
  /\ Occurrences(Macro(name), text) = {}
  /\ name' = NoName
  /\ todo' = todo \cup {name}
  /\ UNCHANGED <<template, values, text>>

LeaveLoop ==
  /\ name # NoName
  /\ Occurrences(Macro(name), text) = {}
  /\ name' = NoName
  /\ UNCHANGED <<template, values, todo, text>>

Returned == name = NoName /\ todo = {}

Next == (\E n \in todo : Take(n)) \/ Substitute \/ LeaveLoop

Spec == Init /\ [][Next]_vars

(* The loop runs on in the thread of its handler.                          *)
FairSpec == Spec /\ WF_vars(Next)

-----------------------------------------------------------------------------
(* Mutation: the closing mark is left where it is.                         *)
WithoutOpening(s, start, end, str) ==
  SubSeq(s, 1, start - 1) \o str \o SubSeq(s, end, Len(s))

WithoutMacro(s, start, end, str) ==
  SubSeq(s, 1, start - 1) \o str \o SubSeq(s, end + Len(Marks), Len(s))

(* The search goes on where the macro ended before it was replaced: behind *)
(* a shorter text, the characters that moved forward are passed over.      *)
LoopResult(variables, replaceStr) ==
  LET loop[v \in [result : Seq(Nat), start_pos : Nat]] ==
        LET marks == {i \in Occurrences(Marks, v.result) : i >= v.start_pos}
            start == First(marks)
            ends == {i \in marks : i >= start + Len(Marks)}
        IN IF marks = {} \/ ends = {} THEN v.result
           ELSE loop[[result |-> WithoutMacro(v.result, start, First(ends), replaceStr),
                      start_pos |-> First(ends) + Len(Marks)]]
  IN loop[variables]

replaceMacroVariable(str, replaceStr) ==
  LoopResult([result |-> str, start_pos |-> 1], replaceStr)

-----------------------------------------------------------------------------
(* What a reader of a template expects: every macro of a variable is       *)
(* replaced by its value, once, from left to right.                        *)
Rendered(map, link) ==
  LET rendered[s \in Seq(Nat)] ==
        LET here == {n \in DOMAIN map : 1 \in Occurrences(Macro(n), s)}
            n == CHOOSE m \in here : TRUE
        IN IF s = <<>> THEN <<>>
           ELSE IF here = {} THEN <<Head(s)>> \o rendered[Tail(s)]
           ELSE map[n] \o rendered[SubSeq(s, Len(Macro(n)) + 1, Len(s))]
  IN rendered[link]

(* No two macros of a text share a character.                              *)
Separate(names, s) ==
  \A m, n \in names :
    \A i \in Occurrences(Macro(m), s), j \in Occurrences(Macro(n), s) :
      \/ m = n /\ i = j
      \/ i + Len(Macro(m)) <= j
      \/ j + Len(Macro(n)) <= i

(* No character of the value can be part of a macro.                       *)
Inert(names, value) ==
  value # <<>> /\ \A n \in names : ToSet(value) \cap ToSet(Macro(n)) = {}

(* Where macros share nothing and values are no part of a macro, replace   *)
(* renders the template, in whatever order the map has the variables.      *)
(* (With other values the order of the map shows in the result.)           *)
Renderable ==
  /\ Separate(DOMAIN values, template)
  /\ \A n \in DOMAIN values : Inert(DOMAIN values, values[n])

RendersTemplate == Returned /\ Renderable => text = Rendered(values, template)

(* replace returns if its values are real variables or empty, though each  *)
(* substitution may make a new macro with what is around it.               *)
RealVariablesEnd ==
  (\A n \in DOMAIN values : values[n] = <<>> \/ isRealVariable(values[n])) ~> Returned

=============================================================================
