------------------------------ MODULE EnumUtil ------------------------------
(***************************************************************************)
(* EnumUtil::StringToEnum (include/enum_util.hpp) on texts of bytes, with  *)
(* what std::stoi does: it passes over spaces, takes a sign, reads digits  *)
(* as far as there are any, and throws if there is none or if the number   *)
(* is no int.  TracerService takes its result as given.                    *)
(***************************************************************************)
EXTENDS Integers, StringUtils

CONSTANT IntMax   \* the largest int

ASSUME IntAssumption == IntMax \in Nat

(* Length of the longest prefix of s with bytes of S only.                 *)
Run(s, S) ==
  CHOOSE n \in 0 .. Len(s) :
    /\ \A i \in 1 .. n : s[i] \in S
    /\ n < Len(s) => s[n + 1] \notin S

SignBytes == {PlusByte, MinusByte}

(* The digits stoi reads, and their sign.                                  *)
Unspaced(s) == From(s, Run(s, SpaceBytes) + 1)

Unsigned(s) == IF s # <<>> /\ s[1] \in SignBytes THEN Tail(s) ELSE s

DigitsOf(s) ==
  LET digits == Unsigned(Unspaced(s)) IN SubSeq(digits, 1, Run(digits, DigitBytes))

SignOf(s) == IF Unspaced(s) # <<>> /\ Unspaced(s)[1] = MinusByte THEN -1 ELSE 1

ValueOf[digits \in Seq(DigitBytes)] ==
  IF digits = <<>> THEN 0 ELSE 10 * ValueOf[Front(digits)] + DigitValue(Last(digits))

(* Mutation: the number is cut to the width of an int.                     *)
StoiAnyWidth(s) == DigitsOf(s) # <<>>

(* stoi returns: there is a number, and it is an int.                      *)
StoiReturns(s) ==
  /\ DigitsOf(s) # <<>>
  /\ SignOf(s) * ValueOf[DigitsOf(s)] \in -IntMax - 1 .. IntMax

(* The value an int of that width takes.                                   *)
Stoi(s) ==
  LET width == 2 * IntMax + 2 IN
  ((SignOf(s) * ValueOf[DigitsOf(s)] + IntMax + 1) % width) - IntMax - 1

(* The converters for splitStringToVector (include/main_http_server.hpp).  *)
string2ints_converter == [s \in {t \in Seq(Nat) : StoiReturns(t)} |-> Stoi(s)]
string2string_converter == [s \in Seq(Nat) |-> s]

StringToEnum(strValue, defaultValue, validValues) ==
  IF StoiReturns(strValue) /\ Stoi(strValue) \in validValues
  THEN Stoi(strValue) ELSE defaultValue

=============================================================================
