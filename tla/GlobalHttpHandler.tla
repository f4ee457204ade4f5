------------------------- MODULE GlobalHttpHandler -------------------------
(***************************************************************************)
(* GlobalHttpHandler (include/global_http_handler.hpp): the login tokens   *)
(* and the middleware Authorization that checks them.  main does not       *)
(* install it (router.Use is commented out) and calls no genAuthKey; both  *)
(* are modelled as the threads of a server that installs them use them.    *)
(*                                                                         *)
(* The map of tokens has no lock.  Authorization finds the token and reads *)
(* the clock, reads the time under the token, overwrites it if it is       *)
(* recent enough, and answers; another thread may run after each of these. *)
(* A search that meets an insertion is a data race: its outcomes are taken *)
(* to be the two orders and the end of the process.  A time is one machine *)
(* word, and is read and written whole.                                    *)
(***************************************************************************)
EXTENDS Integers

CONSTANTS
  Threads,
  Tokens,      \* what genAuthKey computes: one token for each login string
  Unknown,     \* a token nobody was given
  NoToken,     \* a request without the header, or with an empty one
  Absent,      \* the time of a token that is not in the map
  MinuteLen,   \* ticks of the clock in a minute
  MaxNow,      \* bound on the clock
  HTTP_HANDLER_AUTH_EXPIRED_TIME   \* in minutes

ASSUME AuthAssumption ==
  /\ {NoToken, Unknown} \cap Tokens = {} /\ Unknown # NoToken
  /\ Absent \notin Int
  /\ MinuteLen \in Nat \ {0}
  /\ MaxNow \in Nat
  /\ HTTP_HANDLER_AUTH_EXPIRED_TIME \in Nat

VARIABLES
  hashTimestamps,  \* the time of each token in the map
  now,             \* the system clock
  pc,              \* where each thread is in Authorization
  token,           \* the token a thread checks
  reading,         \* the clock as that thread read it
  last,            \* last_access_time, as that thread read it
  answer,          \* how the last request was answered
  (* History, since the process started.                                   *)
  lastUse,         \* the latest time each token was first made or accepted
  lastLogin,       \* the latest time each token was made
  alone,           \* no other thread was checking the token at the search
  expired          \* tokens refused as expired by such a check

job == <<pc, token, reading, last, alone>>
history == <<lastUse, lastLogin, expired>>
vars == <<hashTimestamps, now, job, answer, history>>

Answers == {"none", "next", "unauthorized", "invalid", "expired"}

Init ==
  /\ hashTimestamps = [k \in Tokens |-> Absent]
  /\ now = 0
  /\ pc = [t \in Threads |-> "idle"]
  /\ token = [t \in Threads |-> NoToken]
  /\ reading = [t \in Threads |-> 0]
  /\ last = [t \in Threads |-> 0]
  /\ alone = [t \in Threads |-> FALSE]
  /\ answer = "none"
  /\ lastUse = hashTimestamps
  /\ lastLogin = hashTimestamps
  /\ expired = {}

Stored(k) == hashTimestamps[k] # Absent

(* Mutation: the time of a token is overwritten.                           *)
genAuthKeyOverwrites(k) ==
  /\ hashTimestamps' = [hashTimestamps EXCEPT ![k] = now]
  /\ lastUse' = [lastUse EXCEPT ![k] = now]
  /\ lastLogin' = [lastLogin EXCEPT ![k] = now]
  /\ UNCHANGED <<now, job, answer, expired>>

(* The token is a function of the login string, and map::insert leaves a   *)
(* token that is already there as it is.                                   *)
genAuthKey(k) ==
  /\ IF Stored(k)
     THEN UNCHANGED <<hashTimestamps, lastUse>>
     ELSE /\ hashTimestamps' = [hashTimestamps EXCEPT ![k] = now]
          /\ lastUse' = [lastUse EXCEPT ![k] = now]
  /\ lastLogin' = [lastLogin EXCEPT ![k] = now]
  /\ UNCHANGED <<now, job, answer, expired>>

(* Requests that are answered without looking at a time: the url needs no  *)
(* login, the header is missing, or the token is not in the map.           *)
Answer(protected, k) ==
  CASE ~protected -> "next"
    [] protected /\ k = NoToken -> "unauthorized"
    [] OTHER -> "invalid"

AnswerAtOnce(t) ==
  \E protected \in BOOLEAN, k \in Tokens \cup {Unknown, NoToken} :
    /\ pc[t] = "idle"
    /\ ~(protected /\ k \in Tokens /\ Stored(k))
    /\ answer' = Answer(protected, k)
    /\ UNCHANGED <<hashTimestamps, now, job, history>>

Checking(k) == {t \in Threads : pc[t] # "idle" /\ token[t] = k}

(* Mutation: the iterator is not compared with end().                      *)
FindUnchecked(t, k) ==
  /\ pc[t] = "idle"
  /\ pc' = [pc EXCEPT ![t] = "found"]
  /\ token' = [token EXCEPT ![t] = k]
  /\ reading' = [reading EXCEPT ![t] = now]
  /\ alone' = [alone EXCEPT ![t] = Checking(k) = {}]
  /\ UNCHANGED <<hashTimestamps, now, last, answer, history>>

(* A protected url with a token of the map; the clock is read after it.    *)
Find(t, k) ==
  /\ pc[t] = "idle"
  /\ Stored(k)
  /\ pc' = [pc EXCEPT ![t] = "found"]
  /\ token' = [token EXCEPT ![t] = k]
  /\ reading' = [reading EXCEPT ![t] = now]
  /\ alone' = [alone EXCEPT ![t] = Checking(k) = {}]
  /\ UNCHANGED <<hashTimestamps, now, last, answer, history>>

(* last_access_time = it->second.                                          *)
ReadTime(t) ==
  /\ pc[t] = "found"
  /\ pc' = [pc EXCEPT ![t] = "read"]
  /\ last' = [last EXCEPT ![t] = hashTimestamps[token[t]]]
  /\ UNCHANGED <<hashTimestamps, now, token, reading, alone, answer, history>>

(* duration_cast rounds towards zero.                                      *)
Minutes(ticks) ==
  IF ticks >= 0 THEN ticks \div MinuteLen ELSE -((-ticks) \div MinuteLen)

(* Mutation: the difference is taken the wrong way round.                  *)
NotExpiredSwapped(t) ==
  Minutes(last[t] - reading[t]) <= HTTP_HANDLER_AUTH_EXPIRED_TIME

NotExpired(t) ==
  Minutes(reading[t] - last[t]) <= HTTP_HANDLER_AUTH_EXPIRED_TIME

Later(a, b) == IF a > b THEN a ELSE b

(* it->second = now.                                                       *)
WriteTime(t) ==
  /\ pc[t] = "read"
  /\ NotExpired(t)
  /\ pc' = [pc EXCEPT ![t] = "written"]
  /\ hashTimestamps' = [hashTimestamps EXCEPT ![token[t]] = reading[t]]
  /\ lastUse' = [lastUse EXCEPT ![token[t]] = Later(@, reading[t])]
  /\ UNCHANGED <<now, token, reading, last, alone, answer, lastLogin, expired>>

Return(t, from) ==
  /\ pc[t] = from
  /\ pc' = [pc EXCEPT ![t] = "idle"]
  /\ token' = [token EXCEPT ![t] = NoToken]
  /\ reading' = [reading EXCEPT ![t] = 0]
  /\ last' = [last EXCEPT ![t] = 0]
  /\ alone' = [alone EXCEPT ![t] = FALSE]

Accept(t) ==
  /\ Return(t, "written")
  /\ answer' = "next"
  /\ UNCHANGED <<hashTimestamps, now, history>>

(* An expired token stays in the map.                                      *)
Refuse(t) ==
  /\ Return(t, "read")
  /\ ~NotExpired(t)
  /\ answer' = "expired"
  /\ expired' = IF alone[t] THEN expired \cup {token[t]} ELSE expired
  /\ UNCHANGED <<hashTimestamps, now, lastUse, lastLogin>>

Tick ==
  /\ now < MaxNow
  /\ now' = now + 1
  /\ UNCHANGED <<hashTimestamps, job, answer, history>>

(* The map is in memory only.                                              *)
Restart ==
  /\ hashTimestamps' = [k \in Tokens |-> Absent]
  /\ pc' = [t \in Threads |-> "idle"]
  /\ token' = [t \in Threads |-> NoToken]
  /\ reading' = [t \in Threads |-> 0]
  /\ last' = [t \in Threads |-> 0]
  /\ alone' = [t \in Threads |-> FALSE]
  /\ answer' = "none"
  /\ lastUse' = hashTimestamps'
  /\ lastLogin' = hashTimestamps'
  /\ expired' = {}
  /\ UNCHANGED now

Next ==
  \/ \E k \in Tokens : genAuthKey(k)
  \/ \E t \in Threads :
       \/ AnswerAtOnce(t)
       \/ \E k \in Tokens : Find(t, k)
       \/ ReadTime(t)
       \/ WriteTime(t)
       \/ Accept(t)
       \/ Refuse(t)
  \/ Tick
  \/ Restart

Spec == Init /\ [][Next]_vars

-----------------------------------------------------------------------------
(***************************************************************************)
(* Properties.                                                             *)
(***************************************************************************)
Times == 0 .. MaxNow

(* Every variable has its type, and a thread past find holds an iterator   *)
(* to a token of the map: nothing erases one.                              *)
TypeOK ==
  /\ hashTimestamps \in [Tokens -> Times \cup {Absent}]
  /\ now \in Times
  /\ pc \in [Threads -> {"idle", "found", "read", "written"}]
  /\ token \in [Threads -> Tokens \cup {NoToken}]
  /\ reading \in [Threads -> Times]
  /\ last \in [Threads -> Times]
  /\ alone \in [Threads -> BOOLEAN]
  /\ answer \in Answers
  /\ lastUse \in [Tokens -> Times \cup {Absent}]
  /\ lastLogin \in [Tokens -> Times \cup {Absent}]
  /\ expired \subseteq Tokens
  /\ \A t \in Threads : pc[t] # "idle" => token[t] \in Tokens /\ Stored(token[t])

(* The time in the map never runs ahead of the last use, nor does what a   *)
(* thread read there: a thread that read the clock early may set the time  *)
(* back, which only shortens the window.                                   *)
TimesLag ==
  /\ \A k \in Tokens : Stored(k) => lastUse[k] # Absent /\ hashTimestamps[k] <= lastUse[k]
  /\ \A t \in Threads : pc[t] = "read" => last[t] <= lastUse[token[t]]

(* A token is accepted only for a request that came less than one minute   *)
(* past the window after it was last made or accepted, in whatever order   *)
(* threads read the clock, read the time, compare and write.               *)
AcceptedIsFresh ==
  [][\A t \in Threads :
       pc[t] = "read" /\ pc'[t] = "written"
         => reading[t] - lastUse[token[t]]
              < (HTTP_HANDLER_AUTH_EXPIRED_TIME + 1) * MinuteLen]_vars

(* An expired token stays expired: once it was refused by a check that     *)
(* began while no other thread was checking it, no order of requests and   *)
(* logins has it accepted again.  (Of two checks that overlap one may      *)
(* refuse it and the other accept it later.)                               *)
ExpiredForGood ==
  [][\A t \in Threads :
       token[t] \in expired /\ pc[t] # "idle" /\ pc'[t] = "idle"
         => answer' # "next"]_vars

(* "The token is refused, a new login is needed", and the login inserts    *)
(* the time it was made (include/global_http_handler.hpp:118 and 73): a    *)
(* token made in the window is not refused as expired.                     *)
LoginRevives ==
  [][\A t \in Threads :
       pc[t] = "read" /\ pc'[t] = "idle" /\ answer' = "expired"
         => reading[t] - lastLogin[token[t]]
              > HTTP_HANDLER_AUTH_EXPIRED_TIME * MinuteLen]_vars

(***************************************************************************)
(* Why an expired token stays expired.                                     *)
(***************************************************************************)
Window == (HTTP_HANDLER_AUTH_EXPIRED_TIME + 1) * MinuteLen

(* No thread but t (if it is one) is about to set the time of k, or has.   *)
Quiet(k, t) ==
  \A u \in Checking(k) \ {t} :
    pc[u] # "written" /\ (pc[u] = "read" => last[u] = hashTimestamps[k])

(* Seen from time r on, the time of k is past the window.                  *)
Dead(k, r) ==
  /\ r <= now
  /\ Stored(k)
  /\ r - hashTimestamps[k] >= Window
  /\ \A u \in Checking(k) :
       /\ pc[u] # "written"
       /\ pc[u] = "read" => last[u] = hashTimestamps[k]
       /\ reading[u] >= r

(* A check that began alone: the others read the clock later; and either   *)
(* one of them has set the time since, or what this check finds is what    *)
(* all of them find.                                                       *)
AloneInv(t) ==
  LET k == token[t] IN
  /\ \A u \in Checking(k) : reading[u] >= reading[t]
  /\ pc[t] = "found" => hashTimestamps[k] >= reading[t] \/ Quiet(k, t)
  /\ pc[t] = "read" /\ reading[t] - last[t] >= Window
       => last[t] = hashTimestamps[k] /\ Quiet(k, t)

Past ==
  /\ \A t \in Threads : reading[t] <= now
  /\ \A t \in Threads : pc[t] # "idle" /\ alone[t] => AloneInv(t)
  /\ \A k \in expired : \E r \in Times : Dead(k, r)

(* The type invariant, and what the properties follow from.                *)
IInv == TypeOK /\ TimesLag /\ Past

=============================================================================
