---------------------------- MODULE RecentReads ----------------------------
(***************************************************************************)
(* What a cache promises to those who ask it, whatever it stores, for how  *)
(* long, and whoever fills it: bounded staleness.                          *)
(*                                                                         *)
(*   - an answer is a value that the source gave for the key asked;        *)
(*   - it was read less than Bound ticks before the answer;                *)
(*   - a question stays without an answer only if the source may fail for  *)
(*     its key.                                                            *)
(***************************************************************************)
EXTENDS Naturals

CONSTANTS
  Threads, Keys, Values,
  Throws,              \* keys the source may fail for
  Bound,
  NoKey, NoValue

VARIABLES
  readings,            \* what was read from the source and is not forgotten
  asked,               \* the key each thread asks for
  answer               \* what it got when it last asked

reads == <<readings, asked, answer>>

ReadsInit ==
  /\ readings = {}
  /\ asked = [t \in Threads |-> NoKey]
  /\ answer = [t \in Threads |-> NoValue]

Ask(t) ==
  \E k \in Keys :
    /\ asked[t] = NoKey
    /\ asked' = [asked EXCEPT ![t] = k]
    /\ answer' = [answer EXCEPT ![t] = NoValue]
    /\ UNCHANGED readings

Read ==
  \E k \in Keys, v \in Values :
    /\ readings' = readings \cup {[key |-> k, value |-> v, age |-> 0]}
    /\ UNCHANGED <<asked, answer>>

(* A reading may be forgotten when a question is answered from it, too.    *)
Answer(t) ==
  \E r \in readings :
    /\ asked[t] = r.key
    /\ r.age < Bound
    /\ asked' = [asked EXCEPT ![t] = NoKey]
    /\ answer' = [answer EXCEPT ![t] = r.value]
    /\ readings' \subseteq readings

Fail(t) ==
  /\ asked[t] \in Throws
  /\ asked' = [asked EXCEPT ![t] = NoKey]
  /\ answer' = [answer EXCEPT ![t] = NoValue]
  /\ UNCHANGED readings

Forget ==
  /\ readings' \subseteq readings
  /\ UNCHANGED <<asked, answer>>

(* What is too old to be an answer may be forgotten at any time.           *)
Older(r) == [r EXCEPT !.age = @ + 1]

Age ==
  /\ readings' \subseteq {Older(r) : r \in readings}
  /\ UNCHANGED <<asked, answer>>

ReadsNext ==
  \/ \E t \in Threads : Ask(t) \/ Answer(t) \/ Fail(t)
  \/ Read
  \/ Forget
  \/ Age

ReadsSpec == ReadsInit /\ [][ReadsNext]_reads

=============================================================================
