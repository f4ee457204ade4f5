------------------------- MODULE CommandLineProofs -------------------------
(***************************************************************************)
(* Proofs about CommandLine, for every set of options and every command    *)
(* line.  The loop is compared with the command line read as a whole: what *)
(* is set and what is wrong so far is what the positions in front of the   *)
(* next argument, and the letters in front of the next one of it, set and  *)
(* have wrong.                                                             *)
(***************************************************************************)
EXTENDS CommandLine, SequenceTheorems, WellFoundedInduction, TLAPS

(* The command line is one of those the program may get, which the loop    *)
(* needs to know that lengths are numbers.                                 *)
Typed == TypeOK /\ argv \in CommandLines

(* What an option holds fits what is known of it.                          *)
Fits(n) ==
  /\ options[n].value /\ has[n] => Reads(n, actual[n])
  /\ ~has[n] => actual[n] = options[n].def

(* Past the loop nothing is missing unless an error is on record, and the  *)
(* process goes on without one.                                            *)
Complete ==
  /\ \A n \in DOMAIN options : Fits(n)
  /\ stage = "check" /\ ~failed => \A n \in DOMAIN options : options[n].need => has[n]
  /\ stage = "return" => \A n \in DOMAIN options : options[n].need => has[n]

-----------------------------------------------------------------------------
(* What set_option does to the options keeps their types.                  *)
LEMMA SettingTyped ==
  ASSUME TypeOK, UNCHANGED options, NEW name,
         (\E text : SetValue(name, text)) \/ SetFlag(name) \/ UnknownLetter \/ UNCHANGED setting
  PROVE  /\ has' \in [DOMAIN options' -> BOOLEAN]
         /\ DOMAIN actual' = DOMAIN options'
         /\ failed' \in BOOLEAN
  BY DEF TypeOK, SetValue, SetFlag, UnknownLetter, Known, setting

(* What set_option does to the options keeps them fitting.                 *)
LEMMA SettingFits ==
  ASSUME TypeOK, UNCHANGED options, NEW name, \A n \in DOMAIN options : Fits(n),
         (\E text : SetValue(name, text)) \/ SetFlag(name) \/ UnknownLetter \/ UNCHANGED setting
  PROVE  (\A n \in DOMAIN options : Fits(n))'
  BY DEF TypeOK, Fits, SetValue, SetFlag, UnknownLetter, Known, setting

(* One argument or one letter at a time: the steps of the loop.            *)
Loop == LongOption \/ Assignment \/ LoneDash \/ InnerLetter \/ LastLetter \/ Other

(* Every step of the loop sets at most one option.                         *)
LEMMA LoopSets ==
  ASSUME Loop
  PROVE  /\ UNCHANGED <<options, argv, stage>>
         /\ stage = "parse"
         /\ \E name : \/ \E text : SetValue(name, text)
                      \/ SetFlag(name)
                      \/ UnknownLetter
                      \/ UNCHANGED setting
<1>1. CASE LongOption
  BY <1>1 DEF LongOption, Option, At, Advance
<1>2. CASE Assignment
  BY <1>2 DEF Assignment, At, Advance
<1>3. CASE LoneDash
  BY <1>3 DEF LoneDash, At, Advance
<1>4. CASE InnerLetter
  BY <1>4 DEF InnerLetter, At
<1>5. CASE LastLetter
  BY <1>5 DEF LastLetter, Option, At, Advance
<1>6. CASE Other
  BY <1>6 DEF Other, At, Advance
<1> QED BY <1>1, <1>2, <1>3, <1>4, <1>5, <1>6 DEF Loop

(* The loop stays within the command line and within an argument.          *)
LEMMA LoopStays ==
  ASSUME Typed, Loop
  PROVE  /\ next' \in Nat \ {0, 1} /\ letter' \in Nat \ {0}
         /\ next' <= Len(argv) + 1
         /\ letter' > 1 => At("dash")' /\ letter' <= Len(argv[next].letters)'
<1>1. Len(argv) \in Nat /\ next \in Nat \ {0, 1} /\ letter \in Nat \ {0}
  BY CommandLineAssumption DEF Typed, TypeOK
<1>2. ASSUME NEW name, Option(name), next <= Len(argv)
      PROVE  next' \in Nat \ {0, 1} /\ letter' = 1 /\ next' <= Len(argv) + 1
  BY <1>1, <1>2 DEF Option, Takes, Advance
<1>3. ASSUME Advance(1), next <= Len(argv)
      PROVE  next' \in Nat \ {0, 1} /\ letter' = 1 /\ next' <= Len(argv) + 1
  BY <1>1, <1>3 DEF Advance
<1>4. CASE InnerLetter
  <2>1. next \in 1 .. Len(argv) /\ argv[next].form = "dash"
    BY <1>1, <1>4 DEF InnerLetter, At
  <2>2. Len(argv[next].letters) \in Nat
    BY <2>1, CommandLineAssumption DEF Typed
  <2> QED BY <1>1, <1>4, <2>1, <2>2 DEF InnerLetter, At
<1>5. CASE LongOption
  BY <1>1, <1>2, <1>5 DEF LongOption, At
<1>6. CASE LastLetter
  BY <1>1, <1>2, <1>3, <1>6 DEF LastLetter, At
<1>7. CASE Assignment \/ LoneDash \/ Other
  BY <1>1, <1>3, <1>7 DEF Assignment, LoneDash, Other, At
<1> QED BY <1>4, <1>5, <1>6, <1>7 DEF Loop

-----------------------------------------------------------------------------
(* Initially the variables have their types and nothing is set.            *)
LEMMA InitTyped == Init => Typed /\ Complete
<1> SUFFICES ASSUME Init PROVE Typed /\ Complete
  OBVIOUS
<1>1. Len(argv) \in Nat
  BY CommandLineAssumption DEF Init
<1>2. failed \in BOOLEAN /\ stage \in {"parse", "check"}
  BY DEF Init
<1>3. stage = "parse" => next <= Len(argv) + 1
  <2>1. argv = <<>> => stage = "check"
    BY DEF Init
  <2>2. argv \in Seq({argv[k] : k \in DOMAIN argv})
    BY CommandLineAssumption DEF Init
  <2>3. argv # <<>> => Len(argv) # 0
    BY <2>2, EmptySeq
  <2> QED BY <1>1, <2>1, <2>3 DEF Init
<1> QED BY <1>1, <1>2, <1>3 DEF Init, Typed, TypeOK, Complete, Fits

(* The options keep their names and what they need.                        *)
LEMMA StepTyped == Typed /\ Complete /\ [Next]_vars => (Typed /\ Complete)'
<1> SUFFICES ASSUME Typed, Complete, [Next]_vars
             PROVE  (Typed /\ Complete)'
  OBVIOUS
<1> USE DEF Outcomes
<1>1. CASE Loop
  <2>1. UNCHANGED <<options, argv, stage>> /\ stage = "parse"
    BY <1>1, LoopSets
  <2>2. PICK name : \/ \E text : SetValue(name, text)
                    \/ SetFlag(name)
                    \/ UnknownLetter
                    \/ UNCHANGED setting
    BY <1>1, LoopSets
  <2>3. Typed'
    <3>1. /\ has' \in [DOMAIN options' -> BOOLEAN]
          /\ DOMAIN actual' = DOMAIN options'
          /\ failed' \in BOOLEAN
      BY <2>1, <2>2, SettingTyped DEF Typed
    <3>2. /\ next' \in Nat \ {0, 1} /\ letter' \in Nat \ {0}
          /\ next' <= Len(argv) + 1
          /\ letter' > 1 => At("dash")' /\ letter' <= Len(argv[next].letters)'
      BY <1>1, LoopStays
    <3> QED BY <2>1, <3>1, <3>2 DEF Typed, TypeOK
  <2>4. (\A n \in DOMAIN options : Fits(n))'
    BY <2>1, <2>2, SettingFits DEF Typed, Complete
  <2> QED BY <2>1, <2>3, <2>4 DEF Complete
<1>2. CASE EndArguments
  <2>1. Typed'
    BY <1>2 DEF EndArguments, setting, Typed, TypeOK
  <2>2. (\A n \in DOMAIN options : Fits(n))'
    BY <1>2 DEF EndArguments, Complete, Fits
  <2> QED BY <1>2, <2>1, <2>2 DEF EndArguments, Complete
<1>3. CASE Check
  <2>1. stage' \in Outcomes
    BY <1>3 DEF Check
  <2>2. Typed'
    BY <1>3, <2>1 DEF Check, setting, Typed, TypeOK
  <2>3. (\A n \in DOMAIN options : Fits(n))'
    BY <1>3 DEF Check, setting, Complete, Fits
  <2>4. stage' = "return" => \A n \in DOMAIN options : options[n].need => has[n]
    <3>1. stage' = "return" => stage = "check" /\ ~failed
      BY <1>3 DEF Check, Typed, TypeOK
    <3> QED BY <3>1 DEF Complete
  <2> QED BY <1>3, <2>1, <2>2, <2>3, <2>4 DEF Check, setting, Complete
<1>4. CASE UNCHANGED vars
  <2>1. Typed'
    BY <1>4 DEF vars, setting, Typed, TypeOK, At
  <2>2. (\A n \in DOMAIN options : Fits(n))'
    BY <1>4 DEF vars, setting, Complete, Fits
  <2> QED BY <1>4, <2>1, <2>2 DEF vars, setting, Complete
<1> QED BY <1>1, <1>2, <1>3, <1>4 DEF Next, Loop

LEMMA AlwaysTyped == Spec => [](Typed /\ Complete)
BY InitTyped, StepTyped, PTL DEF Spec

(* Every variable keeps its type, and the loop stays within the command    *)
(* line, whatever the options and the arguments are.                       *)
THEOREM TypeCorrect == Spec => []TypeOK
<1>1. Typed /\ Complete => TypeOK
  BY DEF Typed
<1> QED BY <1>1, AlwaysTyped, PTL

(* No program goes on without an option it needs or with a text that the   *)
(* reader of an option refuses, whatever the order of the arguments.       *)
THEOREM Configured == Spec => []RunsConfigured
<1>1. Typed /\ Complete => RunsConfigured
  BY DEF Complete, Fits, RunsConfigured
<1> QED BY <1>1, AlwaysTyped, PTL

-----------------------------------------------------------------------------
(* A position in front of the next argument, letters in front of the next  *)
(* letter of it.                                                           *)
Before == {k \in Positions : k < next}

(* In the loop the options set, the errors and the values are those of     *)
(* what was read.                                                          *)
ReadSoFar ==
  /\ argv # <<>> /\ ~Ambiguous
  /\ next \in Positions \cup {Len(argv) + 1}
  /\ \A n \in DOMAIN options :
       has[n] <=> \/ \E k \in Before : Sets(k, n)
                  \/ \E i \in 1 .. letter - 1 : LetterSets(next, i, n)
  /\ failed <=> \/ \E k \in Before : Wrong(k)
                \/ \E i \in 1 .. letter - 1 : LetterWrong(next, i)
  /\ ~failed => \A n \in DOMAIN options : \A k \in Before :
       GivesText(k, n) /\ (\A j \in Before : GivesText(j, n) => j <= k)
         => actual[n] = TextAt(k)

(* Past the loop they are those of the command line as a whole.            *)
ReadAll ==
  /\ has[Help] <=> AsksForHelp
  /\ failed <=> ~Correct
  /\ ~failed => \A n \in DOMAIN options : \A k \in Given(n) :
       (\A j \in Given(n) : j <= k) => actual[n] = TextAt(k)

Meaning ==
  /\ stage = "parse" => ReadSoFar
  /\ stage # "parse" => ReadAll
  /\ OutcomeFits

(* A set of natural numbers that is not empty has a least element.         *)
LEMMA LeastOf ==
  ASSUME NEW S \in SUBSET Nat, S # {}
  PROVE  \E n \in S : \A m \in S : n <= m
<1>1. \E n \in S : \A m \in S : ~ (<<m, n>> \in OpToRel(<, Nat))
  BY WFMin, NatLessThanWellFounded
<1>2. PICK n \in S : \A m \in S : ~ (<<m, n>> \in OpToRel(<, Nat))
  BY <1>1
<1>3. \A m \in S : ~ (m < n)
  BY <1>2 DEF OpToRel
<1> QED
  BY <1>3

(* Every command line splits into arguments that are read for themselves   *)
(* and texts, in one way that goes from left to right.                     *)
LEMMA PositionsSplit ==
  ASSUME Len(argv) \in Nat
  PROVE  /\ Positions \in SUBSET (2 .. Len(argv))
         /\ \A k \in 2 .. Len(argv) :
              k \in Positions <=> ~(k - 1 \in Positions /\ WantsText(argv[k - 1]))
<1> DEFINE Splits(P, m) ==
             \A k \in 2 .. m : k \in P <=> ~(k - 1 \in P /\ WantsText(argv[k - 1]))
           bad == {m \in Nat : ~ \E P \in SUBSET (2 .. m) : Splits(P, m)}
<1>1. bad = {}
  <2> SUFFICES ASSUME bad # {} PROVE FALSE
    OBVIOUS
  <2>1. PICK m \in bad : \A l \in bad : m <= l
    <3>1. bad \in SUBSET Nat
      OBVIOUS
    <3> HIDE DEF bad
    <3> QED BY <3>1, LeastOf
  <2>2. m \in Nat /\ m # 0
    <3>1. {} \in SUBSET (2 .. 0) /\ Splits({}, 0)
      OBVIOUS
    <3> QED BY <3>1
  <2>3. PICK Q \in SUBSET (2 .. m - 1) : Splits(Q, m - 1)
    <3>1. m - 1 \in Nat /\ m \in Nat
      BY <2>2
    <3>2. m - 1 \notin bad
      <4> HIDE DEF bad
      <4> QED BY <2>1, <3>1
    <3> QED BY <3>1, <3>2
  <2> DEFINE P == Q \cup {k \in {m} : m >= 2 /\ ~(m - 1 \in Q /\ WantsText(argv[m - 1]))}
  <2>4. P \in SUBSET (2 .. m)
    <3>1. 2 .. m - 1 \in SUBSET (2 .. m)
      BY <2>2
    <3>2. m >= 2 => m \in 2 .. m
      BY <2>2
    <3> QED BY <3>1, <3>2
  <2>5. \A k \in 2 .. m : (k \in P <=> (k \in Q \/ (k = m /\ ~(m - 1 \in Q /\ WantsText(argv[m - 1])))))
                          /\ (k - 1 \in P <=> k - 1 \in Q)
    BY <2>2
  <2>6. Splits(P, m)
    <3> SUFFICES ASSUME NEW k \in 2 .. m
                 PROVE  k \in P <=> ~(k - 1 \in P /\ WantsText(argv[k - 1]))
      OBVIOUS
    <3>1. CASE k = m
      <4>1. m \notin Q
        BY <2>2
      <4> QED BY <2>5, <3>1, <4>1
    <3>2. CASE k # m
      <4>1. k \in 2 .. m - 1
        BY <2>2, <3>2
      <4> HIDE DEF P
      <4> QED BY <2>3, <2>5, <3>2, <4>1
    <3> QED BY <3>1, <3>2
  <2> QED BY <2>1, <2>4, <2>6
<1>2. \E P \in SUBSET (2 .. Len(argv)) : Splits(P, Len(argv))
  BY <1>1
<1> QED BY <1>2 DEF Positions

(* The meaning of the command line changes with nothing but itself.        *)
LEMMA MeaningKept ==
  ASSUME UNCHANGED <<options, argv>>
  PROVE  /\ Positions' = Positions
         /\ \A k, n : (GivesText(k, n)' <=> GivesText(k, n)) /\ TextAt(k)' = TextAt(k)
         /\ \A k, n : ItselfSets(k, n)' <=> ItselfSets(k, n)
         /\ \A k : InnerLetters(k)' = InnerLetters(k)
         /\ \A k, i, n : LetterSets(k, i, n)' <=> LetterSets(k, i, n)
<1>1. Positions' = Positions
  BY DEF Positions, WantsText, Names, HasLetter, NameOf
<1>2. \A k, n : (GivesText(k, n)' <=> GivesText(k, n)) /\ TextAt(k)' = TextAt(k)
  BY DEF GivesText, TextAt, Known, Names, HasLetter, NameOf
<1>3. \A k, n : ItselfSets(k, n)' <=> ItselfSets(k, n)
  BY <1>2 DEF ItselfSets, IsFlag, Known, Names, HasLetter, NameOf
<1>4. \A k : InnerLetters(k)' = InnerLetters(k)
  BY DEF InnerLetters
<1>5. \A k, i, n : LetterSets(k, i, n)' <=> LetterSets(k, i, n)
  BY DEF LetterSets, IsFlag, Known, HasLetter, NameOf
<1> QED BY <1>1, <1>2, <1>3, <1>4, <1>5

LEMMA WholeKept ==
  ASSUME UNCHANGED <<options, argv>>
  PROVE  /\ \A k, n : Sets(k, n)' <=> Sets(k, n)
         /\ \A k : Wrong(k)' <=> Wrong(k)
         /\ \A k, i : LetterWrong(k, i)' <=> LetterWrong(k, i)
         /\ Correct' <=> Correct
         /\ AsksForHelp' <=> AsksForHelp
         /\ \A n : Given(n)' = Given(n)
<1>1. \A k, n : Sets(k, n)' <=> Sets(k, n)
  BY MeaningKept DEF Sets
<1>2. \A k, i : LetterWrong(k, i)' <=> LetterWrong(k, i)
  BY MeaningKept DEF LetterWrong
<1>3. \A k : Wrong(k)' <=> Wrong(k)
  BY <1>2, MeaningKept DEF Wrong, ItselfWrong, IsOption
<1>4. \A n : IsSet(n)' <=> IsSet(n)
  BY <1>1, MeaningKept DEF IsSet
<1>5. Correct' <=> Correct
  BY <1>3, <1>4, MeaningKept DEF Correct, Ambiguous
<1>6. AsksForHelp' <=> AsksForHelp
  BY <1>4 DEF AsksForHelp, Ambiguous
<1>7. \A n : Given(n)' = Given(n)
  BY MeaningKept DEF Given
<1> QED BY <1>1, <1>2, <1>3, <1>5, <1>6, <1>7

(* set_option, with a text and without one.                                *)
LEMMA ValueSet ==
  ASSUME TypeOK, NEW name, NEW text, SetValue(name, text)
  PROVE  /\ \A n \in DOMAIN options :
              has'[n] <=> has[n] \/ (n = name /\ options[n].value /\ Reads(n, text))
         /\ failed' <=> failed \/ ~(Known(name) /\ options[name].value /\ Reads(name, text))
         /\ ~failed' => \A n \in DOMAIN options :
              actual'[n] = IF n = name THEN text ELSE actual[n]
<1>1. CASE Known(name) /\ options[name].value /\ Reads(name, text)
  BY <1>1 DEF TypeOK, SetValue, Known
<1>2. CASE ~(Known(name) /\ options[name].value /\ Reads(name, text))
  BY <1>2 DEF TypeOK, SetValue, Known
<1> QED BY <1>1, <1>2

LEMMA FlagSet ==
  ASSUME TypeOK, NEW name, SetFlag(name)
  PROVE  /\ \A n \in DOMAIN options : has'[n] <=> has[n] \/ (n = name /\ IsFlag(n))
         /\ failed' <=> failed \/ ~IsFlag(name)
         /\ actual' = actual
<1>1. CASE IsFlag(name)
  BY <1>1 DEF TypeOK, SetFlag, IsFlag, Known
<1>2. CASE ~IsFlag(name)
  BY <1>2 DEF TypeOK, SetFlag, IsFlag, Known
<1> QED BY <1>1, <1>2

(* What is read of an argument by itself, whichever step reads it.         *)
ReadItself ==
  /\ \A n \in DOMAIN options : has'[n] <=> has[n] \/ ItselfSets(next, n)
  /\ failed' <=> failed \/ ItselfWrong(next)
  /\ ~failed' => \A n \in DOMAIN options :
       actual'[n] = IF GivesText(next, n) THEN TextAt(next) ELSE actual[n]
  /\ next' = IF WantsText(argv[next]) /\ next < Len(argv) THEN next + 2 ELSE next + 1
  /\ letter' = 1

LEMMA OptionRead ==
  ASSUME TypeOK, next \in 2 .. Len(argv), NEW name, Option(name),
         IsOption(argv[next]), argv[next].form # "assign",
         \A n : Names(argv[next], n) <=> n = name
  PROVE  ReadItself
<1>1. CASE Takes(name)
  <2>1. SetValue(name, argv[next + 1]) /\ next' = next + 2 /\ letter' = 1
    BY <1>1 DEF Option, Advance
  <2>2. Known(name) /\ options[name].value /\ next < Len(argv) /\ WantsText(argv[next])
    BY <1>1 DEF Takes, WantsText, Known
  <2>3. \A n : GivesText(next, n) <=> n = name
    BY <2>2 DEF GivesText
  <2>4. TextAt(next) = argv[next + 1]
    BY DEF TextAt
  <2>5. \A n : ItselfSets(next, n) <=> n = name /\ Reads(n, argv[next + 1])
    BY <2>2, <2>3, <2>4 DEF ItselfSets, IsFlag
  <2>6. ItselfWrong(next) <=> ~Reads(name, argv[next + 1])
    BY <2>2, <2>5 DEF ItselfWrong, Known
  <2> QED BY <2>1, <2>2, <2>3, <2>4, <2>5, <2>6, ValueSet DEF ReadItself
<1>2. CASE ~Takes(name)
  <2>1. SetFlag(name) /\ next' = next + 1 /\ letter' = 1
    BY <1>2 DEF Option, Advance
  <2>2. ~(WantsText(argv[next]) /\ next < Len(argv))
    BY <1>2 DEF Takes, WantsText, Known
  <2>3. \A n : ~GivesText(next, n)
    BY <1>2 DEF GivesText, Takes
  <2>4. \A n : ItselfSets(next, n) <=> n = name /\ IsFlag(n)
    BY <2>3 DEF ItselfSets
  <2>5. ItselfWrong(next) <=> ~IsFlag(name)
    BY <2>4 DEF ItselfWrong, IsFlag, Known
  <2> QED BY <2>1, <2>2, <2>3, <2>4, <2>5, FlagSet DEF ReadItself
<1> QED BY <1>1, <1>2

Reading == LongOption \/ Assignment \/ LoneDash \/ LastLetter \/ Other

LEMMA ItselfRead ==
  ASSUME Typed, Reading
  PROVE  /\ next \in 2 .. Len(argv)
         /\ InnerLetters(next) = 1 .. letter - 1
         /\ ReadItself
<1>1. Len(argv) \in Nat /\ next \in Nat \ {0, 1} /\ letter \in Nat \ {0}
  BY CommandLineAssumption DEF Typed, TypeOK
<1>2. stage = "parse" /\ next \in 2 .. Len(argv)
  BY <1>1 DEF Reading, LongOption, Assignment, LoneDash, LastLetter, Other, At
<1>3. letter > 1 => argv[next].form = "dash" /\ letter <= Len(argv[next].letters)
  BY <1>2 DEF Typed, TypeOK, At
<1>4. CASE LongOption
  <2>1. argv[next].form = "long" /\ Option(argv[next].name)
    BY <1>4 DEF LongOption, At
  <2>2. \A n : Names(argv[next], n) <=> n = argv[next].name
    BY <2>1 DEF Names
  <2>3. ReadItself
    BY <1>2, <2>1, <2>2, OptionRead DEF IsOption, Typed
  <2>4. InnerLetters(next) = 1 .. letter - 1
    BY <1>1, <1>3, <2>1 DEF InnerLetters
  <2> QED BY <1>2, <2>3, <2>4
<1>5. CASE Assignment
  <2> DEFINE a == argv[next]
  <2>1. a.form = "assign" /\ SetValue(a.name, a.text) /\ next' = next + 1 /\ letter' = 1
    BY <1>5 DEF Assignment, At, Advance
  <2>2. ~WantsText(a) /\ \A n : ~Names(a, n)
    BY <2>1 DEF WantsText, Names
  <2>3. \A n : GivesText(next, n) <=> n = a.name /\ Known(n) /\ options[n].value
    BY <2>1, <2>2 DEF GivesText
  <2>4. TextAt(next) = a.text
    BY <2>1 DEF TextAt
  <2>5. \A n : ItselfSets(next, n) <=>
                 n = a.name /\ Known(n) /\ options[n].value /\ Reads(n, a.text)
    BY <2>2, <2>3, <2>4 DEF ItselfSets
  <2>6. ItselfWrong(next) <=>
          ~(Known(a.name) /\ options[a.name].value /\ Reads(a.name, a.text))
    BY <2>1, <2>5 DEF ItselfWrong, IsOption, Known
  <2>7. /\ \A n \in DOMAIN options :
             has'[n] <=> has[n] \/ (n = a.name /\ options[n].value /\ Reads(n, a.text))
        /\ failed' <=> failed \/ ~(Known(a.name) /\ options[a.name].value /\ Reads(a.name, a.text))
        /\ ~failed' => \A n \in DOMAIN options :
             actual'[n] = IF n = a.name THEN a.text ELSE actual[n]
    BY <2>1, ValueSet DEF Typed
  <2>8. ~failed' => Known(a.name) /\ options[a.name].value
    BY <2>7
  <2>9. ReadItself
    BY <2>1, <2>2, <2>3, <2>4, <2>5, <2>6, <2>7, <2>8 DEF ReadItself, Known
  <2>10. InnerLetters(next) = 1 .. letter - 1
    BY <1>1, <1>3, <2>1 DEF InnerLetters
  <2> QED BY <1>2, <2>9, <2>10
<1>6. CASE LoneDash \/ Other
  <2> DEFINE a == argv[next]
  <2>1. /\ UNCHANGED <<has, actual, failed>> /\ next' = next + 1 /\ letter' = 1
        /\ a.form = "word" \/ (a.form = "dash" /\ a.letters = <<>>)
    BY <1>6 DEF LoneDash, Other, At, Advance, setting
  <2>2. \A n : ~Names(a, n)
    BY <2>1 DEF Names
  <2>3. ~WantsText(a) /\ \A n : ~GivesText(next, n)
    BY <2>1, <2>2 DEF WantsText, GivesText
  <2>4. ~ItselfWrong(next) /\ \A n : ~ItselfSets(next, n)
    BY <2>1, <2>2, <2>3 DEF ItselfSets, ItselfWrong, IsOption
  <2>5. InnerLetters(next) = 1 .. letter - 1
    <3>1. CASE a.form = "word"
      BY <1>1, <1>3, <3>1 DEF InnerLetters
    <3>2. CASE a.form = "dash" /\ a.letters = <<>>
      BY <1>1, <1>3, <3>2 DEF InnerLetters
    <3> QED BY <2>1, <3>1, <3>2
  <2> QED BY <1>2, <2>1, <2>3, <2>4, <2>5 DEF ReadItself
<1>7. CASE LastLetter
  <2> DEFINE a == argv[next]
             l == a.letters[letter]
  <2>1. a.form = "dash" /\ letter = Len(a.letters)
    BY <1>7 DEF LastLetter, At
  <2>2. a.letters # <<>> /\ IsOption(a)
    <3>1. a.letters # <<>>
      BY <1>1, <2>1
    <3> QED BY <2>1, <3>1 DEF IsOption
  <2>3. InnerLetters(next) = 1 .. letter - 1
    BY <2>1 DEF InnerLetters
  <2>4. \A n : Names(a, n) <=> HasLetter(l) /\ n = NameOf(l)
    BY <2>1, <2>2 DEF Names
  <2>5. CASE HasLetter(l)
    <3>1. Option(NameOf(l))
      BY <1>7, <2>5 DEF LastLetter
    <3>2. ReadItself
      BY <1>2, <2>1, <2>2, <2>4, <2>5, <3>1, OptionRead DEF Typed
    <3> QED BY <1>2, <2>3, <3>2
  <2>6. CASE ~HasLetter(l)
    <3>1. failed' = TRUE /\ UNCHANGED <<has, actual>> /\ next' = next + 1 /\ letter' = 1
      BY <1>7, <2>6 DEF LastLetter, UnknownLetter, Advance
    <3>2. ~WantsText(a) /\ \A n : ~GivesText(next, n)
      BY <2>1, <2>4, <2>6 DEF WantsText, GivesText
    <3>3. ItselfWrong(next) /\ \A n : ~ItselfSets(next, n)
      BY <2>2, <2>4, <2>6, <3>2 DEF ItselfSets, ItselfWrong
    <3> QED BY <1>2, <2>3, <3>1, <3>2, <3>3 DEF ReadItself
  <2> QED BY <2>5, <2>6
<1> QED BY <1>4, <1>5, <1>6, <1>7 DEF Reading

(* The next argument is read for itself, and is the only one between where *)
(* the loop was and where it is then.                                      *)
LEMMA NextPosition ==
  ASSUME Typed, Reading, UNCHANGED <<options, argv>>, next \in Positions \cup {Len(argv) + 1}
  PROVE  /\ next' \in Positions \cup {Len(argv) + 1}
         /\ Before' = Before \cup {next}
         /\ \A k \in Before : k < next
<1>1. Len(argv) \in Nat
  BY CommandLineAssumption DEF Typed
<1>2. /\ Positions \in SUBSET (2 .. Len(argv))
      /\ \A k \in 2 .. Len(argv) :
           k \in Positions <=> ~(k - 1 \in Positions /\ WantsText(argv[k - 1]))
  BY <1>1, PositionsSplit
<1>3. /\ next \in 2 .. Len(argv)
      /\ next' = IF WantsText(argv[next]) /\ next < Len(argv) THEN next + 2 ELSE next + 1
  BY ItselfRead DEF ReadItself
<1>4. next \in Positions
  BY <1>1, <1>3
<1>5. Before' = {k \in Positions : k < next'}
  BY MeaningKept DEF Before
<1>6. CASE WantsText(argv[next]) /\ next < Len(argv)
  <2>1. next + 1 \in 2 .. Len(argv) /\ next + 1 - 1 = next /\ next' = next + 2
    BY <1>1, <1>3, <1>6
  <2>2. next + 1 \notin Positions
    BY <1>2, <1>4, <1>6, <2>1
  <2>3. next + 2 \in Positions \cup {Len(argv) + 1}
    <3>1. CASE next + 2 <= Len(argv)
      <4>1. next + 2 \in 2 .. Len(argv) /\ next + 2 - 1 = next + 1
        BY <1>1, <1>3, <3>1
      <4> QED BY <1>2, <2>2, <4>1
    <3> QED BY <1>1, <1>3, <2>1, <3>1
  <2>4. \A k \in Positions : k < next + 2 <=> k < next \/ k = next
    BY <1>1, <1>2, <1>3, <2>2
  <2> QED BY <1>4, <1>5, <2>1, <2>3, <2>4 DEF Before
<1>7. CASE ~(WantsText(argv[next]) /\ next < Len(argv))
  <2>1. next' = next + 1
    BY <1>3, <1>7
  <2>2. next + 1 \in Positions \cup {Len(argv) + 1}
    <3>1. CASE next < Len(argv)
      <4>1. next + 1 \in 2 .. Len(argv) /\ next + 1 - 1 = next
        BY <1>1, <1>3, <3>1
      <4> QED BY <1>2, <1>7, <3>1, <4>1
    <3> QED BY <1>1, <1>3, <3>1
  <2>3. \A k \in Positions : k < next + 1 <=> k < next \/ k = next
    BY <1>1, <1>2, <1>3
  <2> QED BY <1>4, <1>5, <2>1, <2>2, <2>3 DEF Before
<1> QED BY <1>6, <1>7 DEF Before

(* An argument that is read to its end.                                    *)
LEMMA ArgumentRead ==
  ASSUME Typed, ReadSoFar, Reading, UNCHANGED <<options, argv>>
  PROVE  ReadSoFar'
<1>1. /\ next \in 2 .. Len(argv)
      /\ InnerLetters(next) = 1 .. letter - 1
      /\ ReadItself
  BY ItselfRead
<1>2. /\ next' \in Positions \cup {Len(argv) + 1}
      /\ Before' = Before \cup {next}
      /\ \A k \in Before : k < next
  BY NextPosition DEF ReadSoFar
<1>3. 1 .. letter' - 1 = {}
  BY <1>1 DEF ReadItself
<1>4. \A k, n : Sets(k, n)' <=> Sets(k, n)
  BY WholeKept
<1>5. \A k : Wrong(k)' <=> Wrong(k)
  BY WholeKept
<1>6. argv' # <<>> /\ ~Ambiguous'
  BY DEF ReadSoFar, Ambiguous
<1>7. next' \in Positions' \cup {Len(argv') + 1}
  BY <1>2, MeaningKept
<1>8. ASSUME NEW n \in DOMAIN options
      PROVE  has'[n] <=> \E k \in Before' : Sets(k, n)
  <2>1. Sets(next, n) <=> ItselfSets(next, n) \/ \E i \in 1 .. letter - 1 : LetterSets(next, i, n)
    BY <1>1 DEF Sets
  <2>2. has'[n] <=> has[n] \/ ItselfSets(next, n)
    BY <1>1 DEF ReadItself
  <2>3. has[n] <=> \/ \E k \in Before : Sets(k, n)
                   \/ \E i \in 1 .. letter - 1 : LetterSets(next, i, n)
    BY DEF ReadSoFar
  <2> QED BY <1>2, <2>1, <2>2, <2>3
<1>9. failed' <=> \E k \in Before' : Wrong(k)
  <2>1. Wrong(next) <=> ItselfWrong(next) \/ \E i \in 1 .. letter - 1 : LetterWrong(next, i)
    BY <1>1 DEF Wrong
  <2>2. failed' <=> failed \/ ItselfWrong(next)
    BY <1>1 DEF ReadItself
  <2>3. failed <=> \/ \E k \in Before : Wrong(k)
                   \/ \E i \in 1 .. letter - 1 : LetterWrong(next, i)
    BY DEF ReadSoFar
  <2> QED BY <1>2, <2>1, <2>2, <2>3
<1>10. ASSUME ~failed', NEW n \in DOMAIN options, NEW k \in Before', GivesText(k, n),
              \A j \in Before' : GivesText(j, n) => j <= k
       PROVE  actual'[n] = TextAt(k)
  <2>1. actual'[n] = IF GivesText(next, n) THEN TextAt(next) ELSE actual[n]
    BY <1>1, <1>10 DEF ReadItself
  <2>2. CASE k = next
    BY <1>10, <2>1, <2>2
  <2>3. CASE k # next
    <3>1. k \in Before /\ k < next /\ k \in 2 .. Len(argv)
      <4>1. Positions \in SUBSET (2 .. Len(argv))
        BY CommandLineAssumption, PositionsSplit DEF Typed
      <4> QED BY <1>2, <2>3, <4>1 DEF Before
    <3>2. ~GivesText(next, n)
      BY <1>1, <1>2, <1>10, <3>1
    <3>3. ~failed
      BY <1>1, <1>10 DEF ReadItself
    <3>4. actual[n] = TextAt(k)
      BY <1>2, <1>10, <3>1, <3>3 DEF ReadSoFar
    <3> QED BY <2>1, <3>2, <3>4
  <2> QED BY <2>2, <2>3
<1>11. ~failed' => \A n \in DOMAIN options' : \A k \in Before' :
         GivesText(k, n)' /\ (\A j \in Before' : GivesText(j, n)' => j <= k)
           => actual'[n] = TextAt(k)'
  BY <1>10, MeaningKept
<1> QED BY <1>3, <1>4, <1>5, <1>6, <1>7, <1>8, <1>9, <1>11 DEF ReadSoFar

(* A letter in front of the last one.                                      *)
LEMMA LetterRead ==
  ASSUME Typed, ReadSoFar, InnerLetter
  PROVE  ReadSoFar'
<1> DEFINE l == argv[next].letters[letter]
<1>1. letter \in Nat \ {0} /\ UNCHANGED <<options, argv, next>> /\ letter' = letter + 1
  BY DEF InnerLetter, Typed, TypeOK
<1>2. 1 .. letter' - 1 = (1 .. letter - 1) \cup {letter}
  BY <1>1
<1>3. /\ \A n \in DOMAIN options : has'[n] <=> has[n] \/ LetterSets(next, letter, n)
      /\ failed' <=> failed \/ LetterWrong(next, letter)
      /\ actual' = actual
  <2>1. CASE HasLetter(l)
    <3>1. SetFlag(NameOf(l))
      BY <2>1 DEF InnerLetter
    <3>2. \A n : LetterSets(next, letter, n) <=> n = NameOf(l) /\ IsFlag(n)
      BY <2>1 DEF LetterSets
    <3>3. LetterWrong(next, letter) <=> ~IsFlag(NameOf(l))
      BY <3>2 DEF LetterWrong, IsFlag, Known
    <3> QED BY <3>1, <3>2, <3>3, FlagSet DEF Typed
  <2>2. CASE ~HasLetter(l)
    BY <2>2 DEF InnerLetter, UnknownLetter, LetterSets, LetterWrong
  <2> QED BY <2>1, <2>2
<1>4. Before' = Before
  BY <1>1, MeaningKept DEF Before
<1>5. \A k, n : Sets(k, n)' <=> Sets(k, n)
  BY <1>1, WholeKept
<1>6. \A k : Wrong(k)' <=> Wrong(k)
  BY <1>1, WholeKept
<1>7. \A k, i : LetterWrong(k, i)' <=> LetterWrong(k, i)
  BY <1>1, WholeKept
<1>8. argv' # <<>> /\ ~Ambiguous' /\ next' \in Positions' \cup {Len(argv') + 1}
  BY <1>1, MeaningKept DEF ReadSoFar, Ambiguous
<1>9. \A n \in DOMAIN options' :
        has'[n] <=> \/ \E k \in Before' : Sets(k, n)'
                    \/ \E i \in 1 .. letter' - 1 : LetterSets(next, i, n)'
  BY <1>1, <1>2, <1>3, <1>4, <1>5, MeaningKept DEF ReadSoFar
<1>10. failed' <=> \/ \E k \in Before' : Wrong(k)'
                   \/ \E i \in 1 .. letter' - 1 : LetterWrong(next, i)'
  BY <1>1, <1>2, <1>3, <1>4, <1>6, <1>7 DEF ReadSoFar
<1>11. ~failed' => \A n \in DOMAIN options' : \A k \in Before' :
         GivesText(k, n)' /\ (\A j \in Before' : GivesText(j, n)' => j <= k)
           => actual'[n] = TextAt(k)'
  BY <1>1, <1>3, <1>4, MeaningKept DEF ReadSoFar
<1> QED BY <1>8, <1>9, <1>10, <1>11 DEF ReadSoFar

(* Nothing is read yet, or nothing at all will be.                         *)
LEMMA InitMeans == Init => Meaning
<1> SUFFICES ASSUME Init PROVE Meaning
  OBVIOUS
<1>1. Len(argv) \in Nat /\ argv \in Seq({argv[k] : k \in DOMAIN argv})
  BY CommandLineAssumption DEF Init
<1>2. /\ Positions \in SUBSET (2 .. Len(argv))
      /\ \A k \in 2 .. Len(argv) :
           k \in Positions <=> ~(k - 1 \in Positions /\ WantsText(argv[k - 1]))
  BY <1>1, PositionsSplit
<1>3. Help \in DOMAIN options /\ \A n \in DOMAIN options : ~has[n]
  BY DEF Init, WithHelp
<1>4. CASE argv = <<>> \/ Ambiguous
  <2>1. failed /\ stage = "check"
    BY <1>4 DEF Init
  <2>2. ~Correct /\ ~AsksForHelp
    BY <1>4 DEF Correct, AsksForHelp
  <2> QED BY <1>3, <2>1, <2>2 DEF Meaning, ReadAll, OutcomeFits, Outcomes
<1>5. CASE ~(argv = <<>> \/ Ambiguous)
  <2>1. ~failed /\ stage = "parse" /\ next = 2 /\ letter = 1
    BY <1>5 DEF Init
  <2>2. Len(argv) # 0
    BY <1>1, <1>5, EmptySeq
  <2>3. 2 \in Positions \cup {Len(argv) + 1}
    <3>1. CASE Len(argv) = 1
      BY <3>1
    <3>2. CASE Len(argv) # 1
      <4>1. 2 \in 2 .. Len(argv) /\ 2 - 1 \notin 2 .. Len(argv)
        BY <1>1, <2>2, <3>2
      <4> QED BY <1>2, <4>1
    <3> QED BY <3>1, <3>2
  <2>4. Before = {} /\ 1 .. letter - 1 = {}
    <3>1. \A k \in 2 .. Len(argv) : ~(k < next)
      BY <1>1, <2>1
    <3>2. Before = {}
      BY <1>2, <3>1 DEF Before
    <3> QED BY <2>1, <3>2
  <2>5. ReadSoFar
    BY <1>3, <1>5, <2>1, <2>3, <2>4 DEF ReadSoFar
  <2> QED BY <2>1, <2>5 DEF Meaning, OutcomeFits, Outcomes
<1> QED BY <1>4, <1>5

(* Behind the last argument all positions are read; only the options that  *)
(* are needed are still to be looked for.                                  *)
LEMMA EndMeans ==
  ASSUME Typed, ReadSoFar, EndArguments
  PROVE  ReadAll'
<1>1. /\ Len(argv) \in Nat /\ next \in Nat \ {0, 1} /\ letter \in Nat \ {0}
      /\ Help \in DOMAIN options
  <2>1. PICK p \in Parsers : options = WithHelp(p)
    BY DEF Typed, TypeOK
  <2>2. Help \in DOMAIN options
    BY <2>1 DEF WithHelp
  <2> QED BY <2>2, CommandLineAssumption DEF Typed, TypeOK
<1>2. /\ UNCHANGED <<options, argv, has, actual>>
      /\ failed' <=> failed \/ \E n \in DOMAIN options : options[n].need /\ ~has[n]
  <2> DEFINE missing == \E n \in DOMAIN options : options[n].need /\ ~has[n]
  <2>1. failed' = (failed \/ missing) /\ UNCHANGED <<options, argv, has, actual>>
    BY DEF EndArguments
  <2>2. CASE failed \/ missing
    BY <2>1, <2>2
  <2>3. CASE ~(failed \/ missing)
    BY <2>1, <2>3
  <2> QED BY <2>1, <2>2, <2>3
<1>3. next = Len(argv) + 1 /\ letter = 1
  BY <1>1 DEF EndArguments, Typed, TypeOK, At
<1>4. Before = Positions
  <2>1. Positions \in SUBSET (2 .. Len(argv))
    BY <1>1, PositionsSplit
  <2>2. \A k \in 2 .. Len(argv) : k < next
    BY <1>1, <1>3
  <2> QED BY <2>1, <2>2 DEF Before
<1>5. 1 .. letter - 1 = {}
  BY <1>3
<1>6. \A n \in DOMAIN options : has[n] <=> IsSet(n)
  BY <1>4, <1>5 DEF ReadSoFar, IsSet
<1>7. failed <=> \E k \in Positions : Wrong(k)
  BY <1>4, <1>5 DEF ReadSoFar
<1>8. failed' <=> ~Correct
  BY <1>2, <1>6, <1>7 DEF Correct, ReadSoFar
<1>9. has[Help] <=> AsksForHelp
  BY <1>1, <1>6 DEF AsksForHelp, ReadSoFar
<1>10. ~failed => \A n \in DOMAIN options : \A k \in Given(n) :
         (\A j \in Given(n) : j <= k) => actual[n] = TextAt(k)
  BY <1>4 DEF ReadSoFar, Given
<1>11. /\ Correct' <=> Correct
       /\ AsksForHelp' <=> AsksForHelp
       /\ \A n : Given(n)' = Given(n)
  BY <1>2, WholeKept
<1> QED BY <1>2, <1>8, <1>9, <1>10, <1>11, MeaningKept DEF ReadAll

LEMMA StepMeans == Typed /\ Meaning /\ [Next]_vars => Meaning'
<1> SUFFICES ASSUME Typed, Meaning, [Next]_vars
             PROVE  Meaning'
  OBVIOUS
<1> USE DEF Outcomes
<1>1. CASE Loop
  <2>1. UNCHANGED <<options, argv, stage>> /\ stage = "parse"
    BY <1>1, LoopSets
  <2>2. ReadSoFar
    BY <2>1 DEF Meaning
  <2>3. CASE InnerLetter
    BY <2>1, <2>2, <2>3, LetterRead DEF Meaning, OutcomeFits
  <2>4. CASE Reading
    BY <2>1, <2>2, <2>4, ArgumentRead DEF Meaning, OutcomeFits
  <2> QED BY <1>1, <2>3, <2>4 DEF Loop, Reading
<1>2. CASE EndArguments
  <2>1. stage = "parse" /\ stage' = "check"
    BY <1>2 DEF EndArguments
  <2>2. ReadAll'
    BY <1>2, <2>1, EndMeans DEF Meaning
  <2> QED BY <2>1, <2>2 DEF Meaning, OutcomeFits
<1>3. CASE Check
  <2>1. ReadAll /\ stage = "check" /\ UNCHANGED <<options, argv, has, actual, failed>>
    BY <1>3 DEF Check, Meaning, setting
  <2>2. ReadAll'
    BY <2>1, WholeKept, MeaningKept DEF ReadAll
  <2>3. ShowsUsage <=> AsksForHelp \/ (Len(argv) = 1 /\ ~Correct)
    BY <2>1 DEF ShowsUsage, ReadAll
  <2>4. stage' = IF AsksForHelp \/ (Len(argv) = 1 /\ ~Correct) THEN "exit(0)"
                 ELSE IF ~Correct THEN "exit(1)" ELSE "return"
    BY <1>3, <2>1, <2>3 DEF Check, ReadAll
  <2>5. OutcomeFits'
    BY <2>1, <2>4, WholeKept DEF OutcomeFits
  <2>6. stage' # "parse"
    BY <2>4
  <2> QED BY <2>2, <2>5, <2>6 DEF Meaning
<1>4. CASE UNCHANGED vars
  <2>1. UNCHANGED <<options, argv, next, letter, has, actual, failed, stage>>
    BY <1>4 DEF vars, setting
  <2>2. stage' = "parse" => ReadSoFar'
    BY <2>1, WholeKept, MeaningKept DEF Meaning, ReadSoFar, Before, Ambiguous
  <2>3. stage' # "parse" => ReadAll'
    BY <2>1, WholeKept, MeaningKept DEF Meaning, ReadAll
  <2>4. OutcomeFits'
    BY <2>1, WholeKept DEF Meaning, OutcomeFits
  <2> QED BY <2>2, <2>3, <2>4 DEF Meaning
<1> QED BY <1>1, <1>2, <1>3, <1>4 DEF Next, Loop

LEMMA AlwaysMeans == Spec => []Meaning
<1>1. Typed /\ Complete => Typed
  OBVIOUS
<1> QED BY <1>1, AlwaysTyped, InitMeans, StepMeans, PTL DEF Spec

(* For every set of options and every command line, the program runs       *)
(* exactly if the command line is correct and does not ask for help.       *)
THEOREM EndsAsMeant == Spec => []OutcomeFits
<1>1. Meaning => OutcomeFits
  BY DEF Meaning
<1> QED BY <1>1, AlwaysMeans, PTL

(* For every set of options and every command line, the last text of an    *)
(* option is its value.                                                    *)
THEOREM LastCounts == Spec => []LastValueCounts
<1>1. Typed /\ Meaning => LastValueCounts
  <2> SUFFICES ASSUME Meaning, stage = "return" PROVE LastValueCounts
    BY DEF LastValueCounts
  <2>1. ReadAll /\ Correct
    BY DEF Meaning, OutcomeFits, Outcomes
  <2> QED BY <2>1 DEF ReadAll, LastValueCounts
<1>2. Typed /\ Complete => Typed
  OBVIOUS
<1> QED BY <1>1, <1>2, AlwaysTyped, AlwaysMeans, PTL

=============================================================================
