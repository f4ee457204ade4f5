---------------------------- MODULE CommandLine ----------------------------
(***************************************************************************)
(* cmdline::parser (include/cmdline.h) as http_server uses it: options are *)
(* added, parse_check adds "help", reads the command line argument by      *)
(* argument, and lets the process go on or ends it.                        *)
(*                                                                         *)
(* An argument is what the parser tells apart: "--name", "--name=text", a  *)
(* dash with letters, or a word.  Whatever it is, it may also be the text  *)
(* of the option in front of it.                                           *)
(***************************************************************************)
EXTENDS Naturals, Sequences

CONSTANTS
  Parsers,       \* options a program may have added
  CommandLines,  \* argv, with the name of the program in front
  Help,          \* the name "help"
  HelpLetter,    \* the letter "?"
  NoLetter,      \* the option has no short name
  NoText,        \* the value of an option that takes none
  Reads(_, _)    \* the reader of an option accepts a text

ASSUME CommandLineAssumption ==
  \A line \in CommandLines :
    /\ line \in Seq({line[k] : k \in DOMAIN line})
    /\ \A k \in 1 .. Len(line) : line[k].form = "dash" => Len(line[k].letters) \in Nat

Long(name) == [form |-> "long", name |-> name]
Assign(name, text) == [form |-> "assign", name |-> name, text |-> text]
Dash(letters) == [form |-> "dash", letters |-> letters]
Word(text) == [form |-> "word", text |-> text]

(* option_without_value and option_with_value.                             *)
Flag(short) == [short |-> short, value |-> FALSE, need |-> FALSE, def |-> NoText]
Valued(short, need, def) == [short |-> short, value |-> TRUE, need |-> need, def |-> def]

WithHelp(p) ==
  [n \in DOMAIN p \cup {Help} |-> IF n \in DOMAIN p THEN p[n] ELSE Flag(HelpLetter)]

VARIABLES
  options,      \* the map of options
  argv,
  next,         \* the argument to look at
  letter,       \* the letter of it to look at, if it is a dash with letters
  has, actual,  \* options that were set, and their values
  others,       \* arguments that are no options
  failed,       \* errors is not empty
  stage         \* "parse", "check", or how parse_check ended

setting == <<has, actual, failed>>
vars == <<options, argv, next, letter, setting, others, stage>>

Outcomes == {"return", "exit(0)", "exit(1)"}

Known(name) == name \in DOMAIN options

(* The letters of lookup, and the names behind them.  (An entry that is    *)
(* empty never outlives the construction of lookup.)                       *)
HasLetter(l) == \E n \in DOMAIN options : options[n].short = l
NameOf(l) == CHOOSE n \in DOMAIN options : options[n].short = l

Ambiguous ==
  \E m, n \in DOMAIN options :
    m # n /\ options[m].short = options[n].short /\ options[m].short # NoLetter

Init ==
  /\ \E p \in Parsers : options = WithHelp(p)
  /\ argv \in CommandLines
  /\ next = 2
  /\ letter = 1
  /\ has = [n \in DOMAIN options |-> FALSE]
  /\ actual = [n \in DOMAIN options |-> options[n].def]
  /\ others = <<>>
  /\ failed = (argv = <<>> \/ Ambiguous)
  /\ stage = IF failed THEN "check" ELSE "parse"

-----------------------------------------------------------------------------
(* Mutation: the first value stays.                                        *)
SetValueOnce(name, text) ==
  \/ /\ Known(name) /\ options[name].value /\ Reads(name, text)
     /\ has' = [has EXCEPT ![name] = TRUE]
     /\ actual' = [actual EXCEPT ![name] = IF has[name] THEN @ ELSE text]
     /\ UNCHANGED failed
  \/ /\ ~(Known(name) /\ options[name].value /\ Reads(name, text))
     /\ failed' = TRUE
     /\ UNCHANGED <<has, actual>>

(* set_option with a text: an error if the option is not known, takes no   *)
(* text, or its reader throws; the value stays as it was then.             *)
SetValue(name, text) ==
  \/ /\ Known(name) /\ options[name].value /\ Reads(name, text)
     /\ has' = [has EXCEPT ![name] = TRUE]
     /\ actual' = [actual EXCEPT ![name] = text]
     /\ UNCHANGED failed
  \/ /\ ~(Known(name) /\ options[name].value /\ Reads(name, text))
     /\ failed' = TRUE
     /\ UNCHANGED <<has, actual>>

(* Mutation: an option that takes a value is content without one.          *)
SetFlagAny(name) ==
  \/ /\ Known(name)
     /\ has' = [has EXCEPT ![name] = TRUE]
     /\ UNCHANGED <<actual, failed>>
  \/ /\ ~Known(name)
     /\ failed' = TRUE
     /\ UNCHANGED <<has, actual>>

(* set_option without a text.                                              *)
SetFlag(name) ==
  \/ /\ Known(name) /\ ~options[name].value
     /\ has' = [has EXCEPT ![name] = TRUE]
     /\ UNCHANGED <<actual, failed>>
  \/ /\ ~(Known(name) /\ ~options[name].value)
     /\ failed' = TRUE
     /\ UNCHANGED <<has, actual>>

UnknownLetter ==
  /\ failed' = TRUE
  /\ UNCHANGED <<has, actual>>

-----------------------------------------------------------------------------
At(form) == stage = "parse" /\ next <= Len(argv) /\ argv[next].form = form

(* i is advanced by so many arguments.                                     *)
Advance(n) ==
  /\ next' = next + n
  /\ letter' = 1
  /\ UNCHANGED <<options, argv, stage>>

(* An option that takes a value takes the argument behind it, whatever     *)
(* that looks like.                                                        *)
Takes(name) == Known(name) /\ options[name].value /\ next < Len(argv)

Option(name) ==
  \/ /\ Takes(name)
     /\ SetValue(name, argv[next + 1])
     /\ Advance(2)
  \/ /\ ~Takes(name)
     /\ SetFlag(name)
     /\ Advance(1)

LongOption == At("long") /\ Option(argv[next].name) /\ UNCHANGED others

(* Mutation: the argument behind is passed over as well.                   *)
AssignmentTakesNext ==
  At("assign") /\ SetValue(argv[next].name, argv[next].text) /\ Advance(2)
    /\ UNCHANGED others

Assignment ==
  At("assign") /\ SetValue(argv[next].name, argv[next].text) /\ Advance(1)
    /\ UNCHANGED others

(* A dash by itself is passed over.                                        *)
LoneDash ==
  At("dash") /\ argv[next].letters = <<>> /\ Advance(1) /\ UNCHANGED <<setting, others>>

(* All letters but the last are flags.                                     *)
InnerLetter ==
  /\ At("dash") /\ letter < Len(argv[next].letters)
  /\ LET l == argv[next].letters[letter] IN
     IF HasLetter(l) THEN SetFlag(NameOf(l)) ELSE UnknownLetter
  /\ letter' = letter + 1
  /\ UNCHANGED <<options, argv, next, others, stage>>

LastLetter ==
  /\ At("dash") /\ letter = Len(argv[next].letters)
  /\ LET l == argv[next].letters[letter] IN
     IF HasLetter(l) THEN Option(NameOf(l)) ELSE UnknownLetter /\ Advance(1)
  /\ UNCHANGED others

Other ==
  /\ At("word")
  /\ others' = Append(others, argv[next])
  /\ Advance(1)
  /\ UNCHANGED setting

(* Mutation: the options that are needed are not looked for.               *)
EndArgumentsUnchecked ==
  /\ stage = "parse" /\ next > Len(argv)
  /\ stage' = "check"
  /\ UNCHANGED <<options, argv, next, letter, setting, others>>

EndArguments ==
  /\ stage = "parse" /\ next > Len(argv)
  /\ failed' = (failed \/ \E n \in DOMAIN options : options[n].need /\ ~has[n])
  /\ stage' = "check"
  /\ UNCHANGED <<options, argv, next, letter, has, actual, others>>

ShowsUsage == (Len(argv) = 1 /\ failed) \/ has[Help]

(* check: usage and exit(0), the first error and exit(1), or the program.  *)
Check ==
  /\ stage = "check"
  /\ \/ ShowsUsage /\ stage' = "exit(0)"
     \/ ~ShowsUsage /\ failed /\ stage' = "exit(1)"
     \/ ~ShowsUsage /\ ~failed /\ stage' = "return"
  /\ UNCHANGED <<options, argv, next, letter, setting, others>>

Next ==
  \/ LongOption
  \/ Assignment
  \/ LoneDash
  \/ InnerLetter
  \/ LastLetter
  \/ Other
  \/ EndArguments
  \/ Check

Spec == Init /\ [][Next]_vars

-----------------------------------------------------------------------------
(***************************************************************************)
(* What a command line means, read as a whole.                             *)
(***************************************************************************)

(* The argument names the option, by its last letter if it is a dash.      *)
Names(a, n) ==
  \/ a.form = "long" /\ a.name = n
  \/ /\ a.form = "dash" /\ a.letters # <<>>
     /\ LET l == a.letters[Len(a.letters)] IN HasLetter(l) /\ NameOf(l) = n

WantsText(a) == \E n \in DOMAIN options : Names(a, n) /\ options[n].value

(* An argument is read for itself, unless the one in front is and wants a  *)
(* text.                                                                   *)
Positions ==
  CHOOSE P \in SUBSET (2 .. Len(argv)) :
    \A k \in 2 .. Len(argv) : k \in P <=> ~(k - 1 \in P /\ WantsText(argv[k - 1]))

(* Position k gives option n, which takes a text, the text TextAt(k).      *)
GivesText(k, n) ==
  /\ Known(n) /\ options[n].value
  /\ \/ argv[k].form = "assign" /\ argv[k].name = n
     \/ Names(argv[k], n) /\ k < Len(argv)

TextAt(k) == IF argv[k].form = "assign" THEN argv[k].text ELSE argv[k + 1]

IsFlag(n) == Known(n) /\ ~options[n].value

(* What the argument at k sets, and what letter i of it sets in front of   *)
(* its last one.                                                           *)
ItselfSets(k, n) ==
  \/ IsFlag(n) /\ Names(argv[k], n)
  \/ GivesText(k, n) /\ Reads(n, TextAt(k))

InnerLetters(k) == IF argv[k].form = "dash" THEN 1 .. Len(argv[k].letters) - 1 ELSE {}

LetterSets(k, i, n) ==
  IsFlag(n) /\ HasLetter(argv[k].letters[i]) /\ NameOf(argv[k].letters[i]) = n

Sets(k, n) == ItselfSets(k, n) \/ \E i \in InnerLetters(k) : LetterSets(k, i, n)

(* An option, or a letter in front of the last one, that sets nothing is   *)
(* wrong.                                                                  *)
IsOption(a) == a.form \in {"long", "assign"} \/ (a.form = "dash" /\ a.letters # <<>>)

ItselfWrong(k) == IsOption(argv[k]) /\ \A n \in DOMAIN options : ~ItselfSets(k, n)

LetterWrong(k, i) == \A n \in DOMAIN options : ~LetterSets(k, i, n)

Wrong(k) == ItselfWrong(k) \/ \E i \in InnerLetters(k) : LetterWrong(k, i)

IsSet(n) == \E k \in Positions : Sets(k, n)

Correct ==
  /\ argv # <<>> /\ ~Ambiguous
  /\ \A k \in Positions : ~Wrong(k)
  /\ \A n \in DOMAIN options : options[n].need => IsSet(n)

AsksForHelp == argv # <<>> /\ ~Ambiguous /\ IsSet(Help)

Given(n) == {k \in Positions : GivesText(k, n)}

(***************************************************************************)
(* Properties.                                                             *)
(***************************************************************************)

(* Every variable has its type; the loop never looks behind the last       *)
(* argument, nor behind the last letter of one.                            *)
TypeOK ==
  /\ options \in {WithHelp(p) : p \in Parsers}
  /\ next \in Nat \ {0, 1} /\ letter \in Nat \ {0}
  /\ stage = "parse" => next <= Len(argv) + 1
  /\ stage = "parse" /\ letter > 1 => At("dash") /\ letter <= Len(argv[next].letters)
  /\ has \in [DOMAIN options -> BOOLEAN]
  /\ DOMAIN actual = DOMAIN options
  /\ failed \in BOOLEAN
  /\ stage \in {"parse", "check"} \cup Outcomes

(* The process goes on exactly with a command line that is correct and     *)
(* does not ask for help, and reports success without running only for one *)
(* that asks for help, or is empty but for the name of the program; no     *)
(* error is lost in the arguments that follow it.                          *)
OutcomeFits ==
  stage \in Outcomes =>
    stage = IF AsksForHelp \/ (Len(argv) = 1 /\ ~Correct) THEN "exit(0)"
            ELSE IF ~Correct THEN "exit(1)" ELSE "return"

(* Of several values of an option the last one counts.                     *)
LastValueCounts ==
  stage = "return" =>
    \A n \in DOMAIN options : \A k \in Given(n) :
      (\A j \in Given(n) : j <= k) => actual[n] = TextAt(k)

(* A program that goes on has every option it needs, and each value is     *)
(* the default or a text its reader accepts (http_port is in its range).   *)
RunsConfigured ==
  stage = "return" =>
    \A n \in DOMAIN options :
      /\ options[n].need => has[n]
      /\ options[n].value /\ has[n] => Reads(n, actual[n])
      /\ ~has[n] => actual[n] = options[n].def

=============================================================================
