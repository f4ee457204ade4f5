---------------------- MODULE GlobalHttpHandlerProofs ----------------------
(***************************************************************************)
(* Proofs about GlobalHttpHandler, for any number of threads and tokens,   *)
(* any window and any resolution of the clock.                             *)
(***************************************************************************)
EXTENDS GlobalHttpHandler, TLAPS

USE AuthAssumption

(***************************************************************************)
(* Whole minutes.                                                          *)
(***************************************************************************)
LEMMA DivisionBound ==
  ASSUME NEW d \in Nat, NEW w \in Nat, NEW m \in Nat \ {0}, d \div m <= w
  PROVE  d < (w + 1) * m
<1>1. d \div m \in Nat /\ d < (d \div m + 1) * m
  BY Z3
<1>2. (d \div m + 1) * m <= (w + 1) * m
  BY <1>1, Z3
<1> QED
  BY <1>1, <1>2, Z3

LEMMA WindowBound ==
  ASSUME NEW d \in Int, Minutes(d) <= HTTP_HANDLER_AUTH_EXPIRED_TIME
  PROVE  d < (HTTP_HANDLER_AUTH_EXPIRED_TIME + 1) * MinuteLen
<1>1. CASE d >= 0
  BY <1>1, DivisionBound DEF Minutes
<1>2. CASE d < 0
  <2>1. (HTTP_HANDLER_AUTH_EXPIRED_TIME + 1) * MinuteLen \in Nat
    OBVIOUS
  <2> QED
    BY <1>2, <2>1
<1> QED
  BY <1>1, <1>2

(***************************************************************************)
(* Past the window.                                                        *)
(***************************************************************************)
LEMMA WindowNat == Window \in Nat /\ Window > 0
<1>1. \A m \in Nat \ {0}, w \in Nat : (w + 1) * m \in Nat /\ (w + 1) * m > 0
  BY Z3
<1> QED
  BY <1>1 DEF Window

LEMMA MultipleBelow ==
  ASSUME NEW d \in Nat, NEW w \in Nat, NEW m \in Nat \ {0}, ~(d \div m <= w)
  PROVE  d >= (w + 1) * m
<1>1. d \div m \in Nat /\ (d \div m) * m <= d
  BY Z3
<1>2. (w + 1) * m <= (d \div m) * m
  BY <1>1, Z3
<1> QED
  BY <1>1, <1>2, Z3

LEMMA ExpiredIsPast ==
  ASSUME NEW d \in Int, ~(Minutes(d) <= HTTP_HANDLER_AUTH_EXPIRED_TIME)
  PROVE  d >= Window
<1>1. CASE d >= 0
  BY <1>1, MultipleBelow DEF Minutes, Window
<1>2. CASE d < 0
  <2>1. (-d) \div MinuteLen \in Nat
    BY <1>2
  <2> QED
    BY <1>2, <2>1 DEF Minutes
<1> QED
  BY <1>1, <1>2

(***************************************************************************)
(* Type correctness.                                                       *)
(***************************************************************************)
LEMMA InitInv == Init => IInv
<1> SUFFICES ASSUME Init PROVE IInv
  OBVIOUS
<1>1. TypeOK
  BY DEF Init, TypeOK, Times, Answers
<1>2. TimesLag
  BY DEF Init, TimesLag, Stored
<1>3. Past
  BY DEF Init, Past
<1> QED
  BY <1>1, <1>2, <1>3 DEF IInv

LEMMA LaterTime ==
  ASSUME NEW a \in Times, NEW b \in Times
  PROVE  Later(a, b) \in Times /\ a <= Later(a, b) /\ b <= Later(a, b)
BY DEF Later, Times

(* The types of the variables, without what they say together.             *)
Typed ==
  /\ hashTimestamps \in [Tokens -> Times \cup {Absent}]
  /\ now \in Times /\ Times \subseteq Int
  /\ pc \in [Threads -> {"idle", "found", "read", "written"}]
  /\ token \in [Threads -> Tokens \cup {NoToken}]
  /\ reading \in [Threads -> Times]
  /\ last \in [Threads -> Times]
  /\ alone \in [Threads -> BOOLEAN]
  /\ lastUse \in [Tokens -> Times \cup {Absent}]
  /\ lastLogin \in [Tokens -> Times \cup {Absent}]
  /\ expired \subseteq Tokens
  /\ \A k \in Tokens : Stored(k) => hashTimestamps[k] \in Times
  /\ \A k \in Tokens : Stored(k) /\ TimesLag => lastUse[k] \in Times
  /\ \A t \in Threads : pc[t] # "idle" => token[t] \in Tokens /\ Stored(token[t])

LEMMA Types == TypeOK => Typed
BY DEF TypeOK, Typed, Times, Stored, TimesLag

LEMMA IntTypes ==
  ASSUME TypeOK
  PROVE  /\ now \in Int /\ Window \in Int
         /\ \A t \in Threads : reading[t] \in Int /\ last[t] \in Int
         /\ \A k \in Tokens : Stored(k) => hashTimestamps[k] \in Int
BY WindowNat DEF TypeOK, Times, Stored

(* A step that leaves the map, the clock and the threads alone.            *)
Idle == UNCHANGED <<hashTimestamps, now, job, lastUse, expired>>

LEMMA IdleStep ==
  ASSUME IInv, Idle, answer' \in Answers, lastLogin' \in [Tokens -> Times \cup {Absent}]
  PROVE  IInv'
<1>0. UNCHANGED <<hashTimestamps, now, pc, token, reading, last, alone, lastUse, expired>>
  BY DEF Idle, job
<1>1. TypeOK'
  BY <1>0 DEF IInv, TypeOK, Stored
<1>2. TimesLag'
  BY <1>0 DEF IInv, TimesLag, Stored
<1>3. Past'
  BY <1>0 DEF IInv, Past, AloneInv, Dead, Quiet, Checking, Stored
<1> QED
  BY <1>1, <1>2, <1>3 DEF IInv

(***************************************************************************)
(* What the steps do to the checks that go on.                             *)
(***************************************************************************)
LEMMA CheckingTokens ==
  ASSUME TypeOK, NEW k, NEW u \in Checking(k)
  PROVE  u \in Threads /\ pc[u] # "idle" /\ token[u] = k /\ k \in Tokens /\ Stored(k)
BY DEF TypeOK, Checking

(* A token is made.                                                        *)
LEMMA LoginStep ==
  ASSUME IInv, NEW k \in Tokens, genAuthKey(k)
  PROVE  IInv'
<1>t. Typed
  BY Types DEF IInv
<1>1. CASE Stored(k)
  <2>1. answer' \in Answers
    BY <1>1 DEF genAuthKey, IInv, TypeOK
  <2>2. lastLogin' \in [Tokens -> Times \cup {Absent}]
    BY <1>1, <1>t DEF genAuthKey, Typed
  <2>3. Idle
    BY <1>1 DEF genAuthKey, Idle
  <2> QED
    BY <2>1, <2>2, <2>3, IdleStep
<1>2. CASE ~Stored(k)
  <2>1. /\ UNCHANGED <<now, pc, token, reading, last, alone, answer, expired>>
        /\ hashTimestamps' = [hashTimestamps EXCEPT ![k] = now]
        /\ lastUse' = [lastUse EXCEPT ![k] = now]
        /\ lastLogin' = [lastLogin EXCEPT ![k] = now]
    BY <1>2 DEF genAuthKey, job
  <2>2. \A j \in Tokens : Stored(j) =>
          Stored(j)' /\ hashTimestamps'[j] = hashTimestamps[j] /\ lastUse'[j] = lastUse[j]
    BY <1>2, <1>t, <2>1 DEF Typed, Stored
  <2>3. \A j \in Tokens : Stored(j)' => Stored(j) \/ j = k
    BY <1>t, <2>1 DEF Typed, Stored
  <2>4. TypeOK'
    <3>1. /\ hashTimestamps' \in [Tokens -> Times \cup {Absent}]
          /\ lastUse' \in [Tokens -> Times \cup {Absent}]
          /\ lastLogin' \in [Tokens -> Times \cup {Absent}]
      BY <1>t, <2>1 DEF Typed
    <3>2. \A t \in Threads : pc'[t] # "idle" => token'[t] \in Tokens /\ Stored(token[t])'
      BY <1>t, <2>1, <2>2 DEF Typed
    <3>3. \A t \in Threads : pc'[t] # "idle" => token'[t] \in Tokens /\ hashTimestamps'[token'[t]] # Absent
      BY <2>1, <3>2 DEF Stored
    <3> QED
      BY <2>1, <3>1, <3>3 DEF IInv, TypeOK, Stored
  <2>5. TimesLag'
    <3>1. hashTimestamps'[k] = now /\ lastUse'[k] = now /\ now # Absent /\ now <= now
      BY <1>t, <2>1 DEF Typed
    <3>2. ASSUME NEW j \in Tokens, Stored(j)'
          PROVE  lastUse'[j] # Absent /\ hashTimestamps'[j] <= lastUse'[j]
      BY <2>2, <2>3, <3>1, <3>2 DEF IInv, TimesLag
    <3>3. ASSUME NEW t \in Threads, pc'[t] = "read"
          PROVE  last'[t] <= lastUse'[token'[t]]
      <4>1. pc[t] = "read" /\ token[t] \in Tokens /\ Stored(token[t])
        BY <1>t, <2>1, <3>3 DEF Typed
      <4> QED
        BY <2>1, <2>2, <4>1 DEF IInv, TimesLag
    <3> QED
      BY <3>2, <3>3 DEF TimesLag
  <2>6. ASSUME NEW j, Stored(j), j \in Tokens
        PROVE  /\ Checking(j)' = Checking(j)
               /\ \A t : Quiet(j, t) => Quiet(j, t)'
               /\ \A r : Dead(j, r) => Dead(j, r)'
    <3>1. Checking(j)' = Checking(j)
      BY <2>1 DEF Checking
    <3>2. hashTimestamps'[j] = hashTimestamps[j] /\ Stored(j)'
      BY <2>2, <2>6
    <3> QED
      BY <2>1, <3>1, <3>2 DEF Quiet, Dead
  <2>7. Past'
    <3>1. ASSUME NEW t \in Threads, pc'[t] # "idle", alone'[t]
          PROVE  AloneInv(t)'
      <4> DEFINE j == token[t]
      <4>1. j \in Tokens /\ Stored(j) /\ AloneInv(t)
        BY <1>t, <2>1, <3>1 DEF Typed, IInv, Past
      <4>2. hashTimestamps'[j] = hashTimestamps[j]
        BY <2>2, <4>1
      <4> QED
        BY <2>1, <2>6, <4>1, <4>2 DEF AloneInv
    <3>2. ASSUME NEW j \in expired' PROVE \E r \in Times : Dead(j, r)'
      <4>1. PICK r \in Times : Dead(j, r)
        BY <2>1 DEF IInv, Past
      <4>2. j \in Tokens /\ Stored(j)
        BY <1>t, <2>1, <4>1 DEF Typed, Dead
      <4> QED
        BY <2>6, <4>1, <4>2
    <3> QED
      BY <2>1, <3>1, <3>2 DEF IInv, Past
  <2> QED
    BY <2>4, <2>5, <2>7 DEF IInv
<1> QED
  BY <1>1, <1>2

(* A check begins: the clock has gone on since every other check of the    *)
(* token read it.                                                          *)
LEMMA FindStep ==
  ASSUME IInv, NEW t \in Threads, NEW k \in Tokens, Find(t, k)
  PROVE  IInv'
<1>t. Typed
  BY Types DEF IInv
<1>1. /\ UNCHANGED <<hashTimestamps, now, last, answer, lastUse, lastLogin, expired>>
      /\ pc[t] = "idle" /\ pc' = [pc EXCEPT ![t] = "found"]
      /\ token' = [token EXCEPT ![t] = k]
      /\ reading' = [reading EXCEPT ![t] = now]
      /\ alone' = [alone EXCEPT ![t] = Checking(k) = {}]
      /\ Stored(k)
  BY DEF Find, history
<1>2. /\ pc'[t] = "found" /\ token'[t] = k /\ reading'[t] = now
      /\ alone'[t] = (Checking(k) = {})
      /\ \A u \in Threads \ {t} :
           /\ pc'[u] = pc[u] /\ token'[u] = token[u] /\ reading'[u] = reading[u]
           /\ alone'[u] = alone[u]
  BY <1>1, <1>t DEF Typed
<1>3. TypeOK'
  <2>1. /\ pc' \in [Threads -> {"idle", "found", "read", "written"}]
        /\ token' \in [Threads -> Tokens \cup {NoToken}]
        /\ reading' \in [Threads -> Times]
        /\ alone' \in [Threads -> BOOLEAN]
    BY <1>1, <1>t DEF Typed
  <2>2. \A u \in Threads : pc'[u] # "idle" => token'[u] \in Tokens /\ Stored(token'[u])
    BY <1>1, <1>2, <1>t DEF Typed
  <2> QED
    BY <1>1, <2>1, <2>2 DEF IInv, TypeOK, Stored
<1>4. TimesLag'
  BY <1>1, <1>2 DEF IInv, TimesLag, Stored
<1>5. /\ \A j : Checking(j)' \subseteq Checking(j) \cup {t}
      /\ \A j : Checking(j) \subseteq Checking(j)'
      /\ \A j : t \in Checking(j)' => j = k
      /\ Checking(k)' = Checking(k) \cup {t}
  BY <1>1, <1>2 DEF Checking
<1>6. \A j, u : Quiet(j, u) => Quiet(j, u)'
  BY <1>1, <1>2, <1>5 DEF Quiet, Checking
<1>7. ASSUME NEW u \in Threads, pc'[u] # "idle", alone'[u]
      PROVE  AloneInv(u)'
  <2>1. CASE u = t
    <3>1. Checking(k)' = {t}
      BY <1>2, <1>5, <1>7, <2>1
    <3> QED
      BY <1>1, <1>2, <1>t, <2>1, <3>1 DEF AloneInv, Quiet, Typed
  <2>2. CASE u # t
    <3>0. PICK j : j = token[u]
      OBVIOUS
    <3>1. AloneInv(u) /\ token'[u] = j /\ pc'[u] = pc[u] /\ reading'[u] = reading[u]
      BY <1>2, <1>7, <2>2, <3>0 DEF IInv, Past
    <3>2. reading[u] <= now
      BY DEF IInv, Past
    <3>3. \A v \in Checking(j)' : reading'[v] >= reading[u]
      <4> SUFFICES ASSUME NEW v \in Checking(j)' PROVE reading'[v] >= reading[u]
        OBVIOUS
      <4>1. CASE v = t
        BY <1>2, <1>t, <3>2, <4>1 DEF Typed
      <4>2. CASE v # t
        <5>1. v \in Checking(j) /\ v \in Threads /\ reading'[v] = reading[v]
          BY <1>2, <1>5, <4>2 DEF Checking
        <5> QED
          BY <3>0, <3>1, <5>1 DEF AloneInv
      <4> QED
        BY <4>1, <4>2
    <3> QED
      BY <1>1, <1>6, <3>0, <3>1, <3>3 DEF AloneInv
  <2> QED
    BY <2>1, <2>2
<1>8. ASSUME NEW j, NEW r \in Times, Dead(j, r) PROVE Dead(j, r)'
  <2>1. \A u \in Checking(j)' : u = t \/ (u \in Checking(j) /\ u \in Threads \ {t})
    BY <1>5 DEF Checking
  <2> QED
    BY <1>1, <1>2, <1>8, <1>t, <2>1 DEF Dead, Stored, Typed
<1>9. Past'
  <2>1. \A u \in Threads : reading'[u] <= now'
    BY <1>1, <1>2, <1>t DEF Typed, IInv, Past
  <2>2. \A j \in expired' : \E r \in Times : Dead(j, r)'
    BY <1>1, <1>8 DEF IInv, Past
  <2> QED
    BY <1>7, <2>1, <2>2 DEF Past
<1> QED
  BY <1>3, <1>4, <1>9 DEF IInv

(* A check reads the time of its token.                                    *)
LEMMA ReadStep ==
  ASSUME IInv, NEW t \in Threads, ReadTime(t)
  PROVE  IInv'
<1> DEFINE k == token[t]
           h == hashTimestamps[k]
<1>t. Typed
  BY Types DEF IInv
<1>1. /\ UNCHANGED <<hashTimestamps, now, token, reading, alone, answer,
                     lastUse, lastLogin, expired>>
      /\ pc[t] = "found" /\ pc' = [pc EXCEPT ![t] = "read"]
      /\ last' = [last EXCEPT ![t] = h]
  BY DEF ReadTime, history
<1>2. /\ k \in Tokens /\ Stored(k) /\ h \in Times
      /\ pc'[t] = "read" /\ last'[t] = h
      /\ \A u \in Threads \ {t} : pc'[u] = pc[u] /\ last'[u] = last[u]
  BY <1>1, <1>t DEF Typed
<1>3. TypeOK'
  <2>1. /\ pc' \in [Threads -> {"idle", "found", "read", "written"}]
        /\ last' \in [Threads -> Times]
    BY <1>1, <1>2, <1>t DEF Typed
  <2>2. \A u \in Threads : pc'[u] # "idle" => pc[u] # "idle"
    BY <1>1, <1>2
  <2> QED
    BY <1>1, <2>1, <2>2 DEF IInv, TypeOK, Stored
<1>4. TimesLag'
  BY <1>1, <1>2 DEF IInv, TimesLag, Stored
<1>5. \A j : Checking(j)' = Checking(j)
  BY <1>1, <1>2 DEF Checking
<1>6. \A j, u : Quiet(j, u) => Quiet(j, u)'
  <2> SUFFICES ASSUME NEW j, NEW u, Quiet(j, u), NEW v \in Checking(j) \ {u}
               PROVE  pc'[v] # "written" /\ (pc'[v] = "read" => last'[v] = hashTimestamps[j])
    BY <1>1, <1>5 DEF Quiet
  <2>1. CASE v = t
    BY <1>2, <2>1 DEF Checking
  <2>2. CASE v # t
    BY <1>2, <2>2 DEF Quiet, Checking
  <2> QED
    BY <2>1, <2>2
<1>7. ASSUME NEW u \in Threads, pc'[u] # "idle", alone'[u]
      PROVE  AloneInv(u)'
  <2>1. AloneInv(u)
    BY <1>1, <1>2, <1>7 DEF IInv, Past
  <2>2. CASE u = t
    <3>1. h >= reading[t] \/ Quiet(k, t)
      BY <1>1, <2>1, <2>2 DEF AloneInv
    <3>2. reading[t] - h >= Window => ~(h >= reading[t])
      <4>1. reading[t] \in Int /\ h \in Int
        BY <1>2, IntTypes DEF IInv
      <4> QED
        BY <4>1, WindowNat
    <3> QED
      BY <1>1, <1>2, <1>5, <1>6, <2>1, <2>2, <3>1, <3>2 DEF AloneInv
  <2>3. CASE u # t
    BY <1>1, <1>2, <1>5, <1>6, <2>1, <2>3 DEF AloneInv
  <2> QED
    BY <2>2, <2>3
<1>8. ASSUME NEW j, NEW r, Dead(j, r) PROVE Dead(j, r)'
  <2>1. ASSUME NEW u \in Checking(j)
        PROVE  pc'[u] # "written" /\ (pc'[u] = "read" => last'[u] = hashTimestamps[j])
    <3>1. CASE u = t
      BY <1>2, <3>1 DEF Checking
    <3>2. CASE u # t
      BY <1>2, <1>8, <3>2 DEF Dead, Checking
    <3> QED
      BY <3>1, <3>2
  <2> QED
    BY <1>1, <1>5, <1>8, <2>1 DEF Dead, Stored
<1>9. Past'
  <2>1. \A j \in expired' : \E r \in Times : Dead(j, r)'
    BY <1>1, <1>8 DEF IInv, Past
  <2> QED
    BY <1>1, <1>7, <2>1 DEF IInv, Past
<1> QED
  BY <1>3, <1>4, <1>9 DEF IInv

(* Who writes has read a time inside the window; so its token is not dead, *)
(* and every check that began alone and goes on has a smaller reading.     *)
LEMMA WriteAlive ==
  ASSUME IInv, NEW t \in Threads, pc[t] = "read", NotExpired(t)
  PROVE  /\ reading[t] - last[t] < Window
         /\ \A r \in Times : ~Dead(token[t], r)
<1>t. Typed
  BY Types DEF IInv
<1>1. reading[t] \in Int /\ last[t] \in Int /\ Window \in Int
  BY IntTypes DEF IInv
<1>2. reading[t] - last[t] < Window
  BY <1>1, WindowBound DEF NotExpired, Window
<1>3. ASSUME NEW r \in Times, Dead(token[t], r) PROVE FALSE
  <2>1. t \in Checking(token[t])
    BY DEF Checking
  <2>2. /\ r - hashTimestamps[token[t]] >= Window
        /\ last[t] = hashTimestamps[token[t]]
        /\ reading[t] >= r
    BY <1>3, <2>1 DEF Dead
  <2>3. r \in Int /\ reading[t] \in Int /\ last[t] \in Int
    BY <1>1, <1>t DEF Typed
  <2> QED
    BY <1>1, <1>2, <2>2, <2>3
<1> QED
  BY <1>2, <1>3

LEMMA WriteStep ==
  ASSUME IInv, NEW t \in Threads, WriteTime(t)
  PROVE  IInv'
<1> DEFINE k == token[t]
           now_t == reading[t]
           use == Later(lastUse[k], now_t)
<1>t. Typed
  BY Types DEF IInv
<1>1. /\ UNCHANGED <<now, token, reading, last, alone, answer, lastLogin, expired>>
      /\ pc[t] = "read" /\ pc' = [pc EXCEPT ![t] = "written"]
      /\ hashTimestamps' = [hashTimestamps EXCEPT ![k] = now_t]
      /\ lastUse' = [lastUse EXCEPT ![k] = use]
  BY DEF WriteTime
<1>2. /\ now_t - last[t] < Window
      /\ \A r \in Times : ~Dead(k, r)
  BY <1>1, WriteAlive DEF WriteTime
<1>3. /\ k \in Tokens /\ Stored(k) /\ now_t \in Times /\ lastUse[k] \in Times
      /\ last[t] \in Times
  BY <1>1, <1>t DEF Typed, IInv
<1>4. use \in Times /\ now_t <= use /\ lastUse[k] <= use
  BY <1>3, LaterTime
<1> HIDE DEF k, now_t, use
<1>5. /\ hashTimestamps'[k] = now_t /\ lastUse'[k] = use
      /\ \A j \in Tokens \ {k} :
           hashTimestamps'[j] = hashTimestamps[j] /\ lastUse'[j] = lastUse[j]
      /\ \A j \in Tokens : Stored(j)' <=> Stored(j)
  BY <1>1, <1>3, <1>t DEF Typed, Stored
<1>6. /\ pc'[t] = "written"
      /\ \A u \in Threads \ {t} : pc'[u] = pc[u]
  BY <1>1, <1>t DEF Typed
<1>7. TypeOK'
  <2>1. /\ pc' \in [Threads -> {"idle", "found", "read", "written"}]
        /\ hashTimestamps' \in [Tokens -> Times \cup {Absent}]
        /\ lastUse' \in [Tokens -> Times \cup {Absent}]
    BY <1>1, <1>3, <1>4, <1>t DEF Typed
  <2>2. ASSUME NEW u \in Threads, pc'[u] # "idle"
        PROVE  token'[u] \in Tokens /\ hashTimestamps'[token'[u]] # Absent
    <3>1. pc[u] # "idle" /\ token'[u] = token[u]
      BY <1>1, <1>6, <2>2
    <3>2. token[u] \in Tokens /\ Stored(token[u])
      BY <1>t, <3>1 DEF Typed
    <3> QED
      BY <1>5, <3>1, <3>2 DEF Stored
  <2> QED
    BY <1>1, <2>1, <2>2 DEF IInv, TypeOK, Stored
<1>8. TimesLag'
  <2>1. ASSUME NEW j \in Tokens, Stored(j)'
        PROVE  lastUse'[j] # Absent /\ hashTimestamps'[j] <= lastUse'[j]
    <3>1. CASE j = k
      BY <1>4, <1>5, <1>t, <3>1 DEF Typed
    <3>2. CASE j # k
      BY <1>5, <2>1, <3>2 DEF IInv, TimesLag
    <3> QED
      BY <3>1, <3>2
  <2>2. ASSUME NEW u \in Threads, pc'[u] = "read"
        PROVE  last'[u] <= lastUse'[token'[u]]
    <3>1. u # t /\ pc[u] = "read" /\ token[u] \in Tokens /\ last[u] <= lastUse[token[u]]
      BY <1>6, <1>t, <2>2 DEF Typed, IInv, TimesLag
    <3>2. CASE token[u] = k
      <4>1. last[u] \in Int /\ lastUse[k] \in Int /\ use \in Int
        BY <1>3, <1>4, <1>t DEF Typed
      <4> QED
        BY <1>1, <1>4, <1>5, <3>1, <3>2, <4>1
    <3>3. CASE token[u] # k
      BY <1>1, <1>5, <3>1, <3>3
    <3> QED
      BY <3>2, <3>3
  <2> QED
    BY <2>1, <2>2 DEF TimesLag
<1>9. \A j : Checking(j)' = Checking(j)
  BY <1>1, <1>6 DEF Checking
<1>10. ASSUME NEW j \in Tokens \ {k}
       PROVE  /\ \A u : Quiet(j, u) => Quiet(j, u)'
              /\ \A r : Dead(j, r) => Dead(j, r)'
  <2>1. \A u \in Checking(j) : u \in Threads \ {t}
    BY DEF Checking, k
  <2>2. hashTimestamps'[j] = hashTimestamps[j] /\ (Stored(j)' <=> Stored(j))
    BY <1>5
  <2>3. \A u \in Checking(j) : pc'[u] = pc[u]
    BY <1>6, <2>1
  <2>4. ASSUME NEW u, Quiet(j, u) PROVE Quiet(j, u)'
    BY <1>1, <1>9, <2>2, <2>3, <2>4 DEF Quiet
  <2>5. ASSUME NEW r, Dead(j, r) PROVE Dead(j, r)'
    BY <1>1, <1>9, <2>2, <2>3, <2>5 DEF Dead
  <2> QED
    BY <2>4, <2>5
<1>11. ASSUME NEW u \in Threads, pc'[u] # "idle", alone'[u]
       PROVE  AloneInv(u)'
  <2>1. AloneInv(u) /\ pc[u] # "idle" /\ token[u] \in Tokens
    BY <1>1, <1>6, <1>t, <1>11 DEF IInv, Past, Typed
  <2>2. CASE u = t
    BY <1>1, <1>6, <1>9, <2>1, <2>2 DEF AloneInv
  <2>3. CASE u # t /\ token[u] # k
    BY <1>1, <1>5, <1>6, <1>9, <1>10, <2>1, <2>3 DEF AloneInv
  <2>4. CASE u # t /\ token[u] = k
    <3>1. t \in Checking(k) /\ now_t >= reading[u]
      BY <1>1, <2>1, <2>4 DEF Checking, AloneInv, k, now_t
    <3>2. CASE pc[u] = "read"
      <4>1. ~(reading[u] - last[u] >= Window)
        <5> SUFFICES ASSUME reading[u] - last[u] >= Window PROVE FALSE
          OBVIOUS
        <5>1. last[u] = hashTimestamps[k] /\ Quiet(k, u)
          BY <2>1, <2>4, <3>2 DEF AloneInv
        <5>2. last[t] = last[u]
          BY <1>1, <2>4, <3>1, <5>1 DEF Quiet
        <5>3. /\ reading[u] \in Int /\ last[u] \in Int /\ now_t \in Int
              /\ Window \in Int
          BY IntTypes DEF IInv, now_t
        <5> QED
          BY <1>2, <3>1, <5>2, <5>3
      <4> QED
        BY <1>1, <1>6, <1>9, <2>1, <2>4, <3>2, <4>1 DEF AloneInv
    <3>3. CASE pc[u] # "read"
      BY <1>1, <1>5, <1>6, <1>9, <2>1, <2>4, <3>1, <3>3 DEF AloneInv
    <3> QED
      BY <3>2, <3>3
  <2> QED
    BY <2>2, <2>3, <2>4
<1>12. Past'
  <2>1. ASSUME NEW j \in expired' PROVE \E r \in Times : Dead(j, r)'
    <3>1. PICK r \in Times : Dead(j, r)
      BY <1>1 DEF IInv, Past
    <3>2. j \in Tokens \ {k}
      BY <1>1, <1>2, <1>t, <3>1 DEF Typed
    <3> QED
      BY <1>10, <3>1, <3>2
  <2> QED
    BY <1>1, <1>11, <2>1 DEF IInv, Past
<1> QED
  BY <1>7, <1>8, <1>12 DEF IInv

(* A check returns; if it refused its token, and had begun alone, what it  *)
(* found is what every other check finds.                                  *)
LEMMA ReturnStep ==
  ASSUME IInv, NEW t \in Threads, Accept(t) \/ Refuse(t)
  PROVE  IInv'
<1>0. PICK k, r : k = token[t] /\ r = reading[t]
  OBVIOUS
<1>t. Typed
  BY Types DEF IInv
<1>1. /\ UNCHANGED <<hashTimestamps, now, lastUse, lastLogin>>
      /\ answer' \in Answers
      /\ pc[t] # "idle" /\ pc' = [pc EXCEPT ![t] = "idle"]
      /\ token' = [token EXCEPT ![t] = NoToken]
      /\ reading' = [reading EXCEPT ![t] = 0]
      /\ last' = [last EXCEPT ![t] = 0]
      /\ alone' = [alone EXCEPT ![t] = FALSE]
  BY DEF Accept, Refuse, Return, history, Answers
<1>2. expired' \subseteq expired \cup {k}
  BY <1>0 DEF Accept, Refuse, history
<1>3. k \in expired' \ expired =>
        pc[t] = "read" /\ alone[t] /\ ~NotExpired(t)
  BY <1>0 DEF Accept, Refuse, Return, history
<1>4. /\ k \in Tokens /\ Stored(k) /\ r \in Times /\ last[t] \in Times
      /\ 0 \in Times /\ r <= now
  <2>1. 0 \in Times
    BY AuthAssumption DEF Times
  <2> QED
    BY <1>0, <1>1, <1>t, <2>1 DEF Typed, IInv, Past
<1>5. /\ pc'[t] = "idle" /\ reading'[t] = 0
      /\ \A u \in Threads \ {t} :
           /\ pc'[u] = pc[u] /\ token'[u] = token[u] /\ reading'[u] = reading[u]
           /\ last'[u] = last[u] /\ alone'[u] = alone[u]
  BY <1>1, <1>t DEF Typed
<1>6. TypeOK'
  <2>1. /\ pc' \in [Threads -> {"idle", "found", "read", "written"}]
        /\ token' \in [Threads -> Tokens \cup {NoToken}]
        /\ reading' \in [Threads -> Times] /\ last' \in [Threads -> Times]
        /\ alone' \in [Threads -> BOOLEAN]
    BY <1>1, <1>4, <1>t DEF Typed
  <2>2. expired' \subseteq Tokens
    BY <1>2, <1>4, <1>t DEF Typed
  <2>3. \A u \in Threads : pc'[u] # "idle" => u # t /\ pc[u] # "idle" /\ token'[u] = token[u]
    BY <1>5
  <2> QED
    BY <1>1, <2>1, <2>2, <2>3 DEF IInv, TypeOK, Stored
<1>7. TimesLag'
  <2>1. \A u \in Threads : pc'[u] = "read" =>
          pc[u] = "read" /\ token'[u] = token[u] /\ last'[u] = last[u]
    BY <1>5
  <2> QED
    BY <1>1, <2>1 DEF IInv, TimesLag, Stored
<1>8. \A j : Checking(j)' = Checking(j) \ {t}
  BY <1>5 DEF Checking
<1>9. \A j : \A u \in Checking(j)' :
        /\ u \in Checking(j) \ {t} /\ pc'[u] = pc[u] /\ last'[u] = last[u]
        /\ reading'[u] = reading[u]
  BY <1>5, <1>8 DEF Checking
<1>10. \A j, u : Quiet(j, u) => Quiet(j, u)'
  BY <1>1, <1>9 DEF Quiet
<1>11. \A j, q : Dead(j, q) => Dead(j, q)'
  BY <1>1, <1>9 DEF Dead, Stored
<1>12. ASSUME NEW u \in Threads, pc'[u] # "idle", alone'[u]
       PROVE  AloneInv(u)'
  <2>1. u # t /\ AloneInv(u)
    BY <1>5, <1>12 DEF IInv, Past
  <2> QED
    BY <1>1, <1>5, <1>9, <1>10, <2>1 DEF AloneInv
<1>13. ASSUME k \in expired' \ expired PROVE Dead(k, r)'
  <2>1. AloneInv(t) /\ pc[t] = "read"
    BY <1>1, <1>3, <1>13 DEF IInv, Past
  <2>2. r - last[t] >= Window
    <3>1. ~(Minutes(r - last[t]) <= HTTP_HANDLER_AUTH_EXPIRED_TIME)
      BY <1>0, <1>3, <1>13 DEF NotExpired
    <3>2. r - last[t] \in Int
      BY <1>0, IntTypes DEF IInv
    <3> QED
      BY <3>1, <3>2, ExpiredIsPast
  <2>3. last[t] = hashTimestamps[k] /\ Quiet(k, t)
    BY <1>0, <2>1, <2>2 DEF AloneInv
  <2>4. \A u \in Checking(k) : reading[u] >= r
    BY <1>0, <2>1 DEF AloneInv
  <2> QED
    BY <1>1, <1>4, <1>9, <2>2, <2>3, <2>4 DEF Dead, Quiet, Stored
<1>14. Past'
  <2>1. ASSUME NEW j \in expired' PROVE \E q \in Times : Dead(j, q)'
    <3>1. CASE j \in expired
      BY <1>11, <3>1 DEF IInv, Past
    <3>2. CASE j \notin expired
      BY <1>2, <1>4, <1>13, <2>1, <3>2
    <3> QED
      BY <3>1, <3>2
  <2>2. \A u \in Threads : reading'[u] <= now'
    <3>1. 0 <= now
      BY <1>t DEF Typed, IInv, TypeOK, Times
    <3> QED
      BY <1>1, <1>5, <3>1 DEF IInv, Past
  <2> QED
    BY <1>12, <2>1, <2>2 DEF Past
<1> QED
  BY <1>6, <1>7, <1>14 DEF IInv

LEMMA TickStep ==
  ASSUME IInv, Tick
  PROVE  IInv'
<1>t. Typed
  BY Types DEF IInv
<1>1. /\ UNCHANGED <<hashTimestamps, pc, token, reading, last, alone, answer,
                     lastUse, lastLogin, expired>>
      /\ now' = now + 1 /\ now' \in Times
  BY DEF Tick, job, history, IInv, TypeOK, Times
<1>2. TypeOK'
  BY <1>1 DEF IInv, TypeOK, Stored
<1>3. TimesLag'
  BY <1>1 DEF IInv, TimesLag, Stored
<1>4. /\ \A j : Checking(j)' = Checking(j)
      /\ \A j, u : Quiet(j, u) => Quiet(j, u)'
  BY <1>1 DEF Checking, Quiet
<1>5. \A j : \A r \in Times : Dead(j, r) => Dead(j, r)'
  <2>1. \A r \in Times : r <= now => r <= now'
    BY <1>1, <1>t DEF Typed
  <2> QED
    BY <1>1, <1>4, <2>1 DEF Dead, Stored
<1>6. Past'
  <2>1. \A u \in Threads : reading'[u] <= now'
    BY <1>1, IntTypes DEF IInv, Past
  <2>2. \A u \in Threads : AloneInv(u) => AloneInv(u)'
    BY <1>1, <1>4 DEF AloneInv
  <2>3. \A j \in expired' : \E r \in Times : Dead(j, r)'
    BY <1>1, <1>5 DEF IInv, Past
  <2> QED
    BY <1>1, <2>1, <2>2, <2>3 DEF IInv, Past
<1> QED
  BY <1>2, <1>3, <1>6 DEF IInv

LEMMA RestartStep ==
  ASSUME IInv, Restart
  PROVE  IInv'
<1>t. now \in Times /\ 0 \in Times /\ 0 <= now
  BY AuthAssumption DEF IInv, TypeOK, Times
<1>1. TypeOK'
  BY <1>t DEF Restart, TypeOK, Answers
<1>2. TimesLag'
  BY DEF Restart, TimesLag, Stored
<1>3. Past'
  BY <1>t DEF Restart, Past
<1> QED
  BY <1>1, <1>2, <1>3 DEF IInv

LEMMA StepInv == IInv /\ [Next]_vars => IInv'
<1> SUFFICES ASSUME IInv, [Next]_vars PROVE IInv'
  OBVIOUS
<1>1. ASSUME NEW t \in Threads, AnswerAtOnce(t) PROVE IInv'
  <2>1. answer' \in Answers
    BY <1>1 DEF AnswerAtOnce, Answer, Answers
  <2>2. Idle /\ lastLogin' = lastLogin
    BY <1>1 DEF AnswerAtOnce, Idle, history
  <2> QED
    BY <2>1, <2>2, IdleStep DEF IInv, TypeOK
<1>2. CASE UNCHANGED vars
  <2>1. Idle /\ answer' = answer /\ lastLogin' = lastLogin
    BY <1>2 DEF vars, Idle, history
  <2> QED
    BY <2>1, IdleStep DEF IInv, TypeOK
<1> QED
  BY <1>1, <1>2, LoginStep, FindStep, ReadStep, WriteStep, ReturnStep, TickStep,
     RestartStep
  DEF Next

(* The invariant holds in every behaviour.                                 *)
THEOREM Invariance == Spec => []IInv
BY InitInv, StepInv, PTL DEF Spec

(***************************************************************************)
(* Acceptance and expiry.                                                  *)
(***************************************************************************)
LEMMA OnlyWriteWrites ==
  ASSUME IInv, [Next]_vars, NEW t \in Threads, pc[t] = "read", pc'[t] = "written"
  PROVE  NotExpired(t)
<1>t. pc \in [Threads -> {"idle", "found", "read", "written"}]
  BY DEF IInv, TypeOK
<1>1. ASSUME NEW u \in Threads, WriteTime(u) PROVE NotExpired(t)
  BY <1>1, <1>t DEF WriteTime
<1>2. ASSUME NEW u \in Threads, ReadTime(u) PROVE FALSE
  BY <1>2, <1>t DEF ReadTime
<1>3. ASSUME NEW u \in Threads, Accept(u) \/ Refuse(u) PROVE FALSE
  BY <1>3, <1>t DEF Accept, Refuse, Return
<1>4. ASSUME NEW u \in Threads, NEW k \in Tokens, Find(u, k) PROVE FALSE
  BY <1>4, <1>t DEF Find
<1>5. ASSUME \/ \E k \in Tokens : genAuthKey(k)
             \/ \E u \in Threads : AnswerAtOnce(u)
             \/ Tick \/ UNCHANGED vars
      PROVE  FALSE
  BY <1>5 DEF genAuthKey, AnswerAtOnce, Tick, vars, job
<1>6. CASE Restart
  BY <1>6 DEF Restart
<1> QED
  BY <1>1, <1>2, <1>3, <1>4, <1>5, <1>6 DEF Next

(* However threads interleave, a token is accepted only within one minute  *)
(* past the window after its last use.                                     *)
THEOREM FreshAcceptance == Spec => AcceptedIsFresh
<1>1. ASSUME IInv, [Next]_vars, NEW t \in Threads, pc[t] = "read", pc'[t] = "written"
      PROVE  reading[t] - lastUse[token[t]] < Window
  <2>1. Typed
    BY <1>1, Types DEF IInv
  <2>2. reading[t] - last[t] < Window
    BY <1>1, OnlyWriteWrites, WriteAlive
  <2>3. last[t] <= lastUse[token[t]] /\ lastUse[token[t]] \in Times
    BY <1>1, <2>1 DEF IInv, TimesLag, Typed
  <2>4. reading[t] \in Int /\ last[t] \in Int /\ lastUse[token[t]] \in Int
    BY <2>1, <2>3 DEF Typed
  <2> QED
    BY <2>2, <2>3, <2>4, WindowNat
<1>2. IInv /\ [Next]_vars =>
        [\A t \in Threads :
           pc[t] = "read" /\ pc'[t] = "written"
             => reading[t] - lastUse[token[t]]
                  < (HTTP_HANDLER_AUTH_EXPIRED_TIME + 1) * MinuteLen]_vars
  BY <1>1 DEF Window
<1> QED
  BY <1>2, Invariance, PTL DEF Spec, AcceptedIsFresh

LEMMA OnlyAcceptAnswers ==
  ASSUME IInv, [Next]_vars, NEW t \in Threads,
         pc[t] # "idle", pc'[t] = "idle", answer' = "next"
  PROVE  pc[t] = "written"
<1>t. pc \in [Threads -> {"idle", "found", "read", "written"}]
  BY DEF IInv, TypeOK
<1>1. ASSUME NEW u \in Threads, Accept(u) PROVE pc[t] = "written"
  BY <1>1, <1>t DEF Accept, Return
<1>2. ASSUME NEW u \in Threads, Refuse(u) PROVE FALSE
  BY <1>2 DEF Refuse
<1>3. ASSUME NEW u \in Threads, ReadTime(u) \/ WriteTime(u) PROVE FALSE
  BY <1>3, <1>t DEF ReadTime, WriteTime
<1>4. ASSUME NEW u \in Threads, NEW k \in Tokens, Find(u, k) PROVE FALSE
  BY <1>4, <1>t DEF Find
<1>5. ASSUME \/ \E k \in Tokens : genAuthKey(k)
             \/ \E u \in Threads : AnswerAtOnce(u)
             \/ Tick \/ UNCHANGED vars
      PROVE  FALSE
  BY <1>5 DEF genAuthKey, AnswerAtOnce, Tick, vars, job
<1>6. CASE Restart
  BY <1>6 DEF Restart
<1> QED
  BY <1>1, <1>2, <1>3, <1>4, <1>5, <1>6 DEF Next

(* Whatever threads and logins do, a token refused as expired by a check   *)
(* that began alone is accepted no more until the process restarts.        *)
THEOREM ExpiryIsFinal == Spec => ExpiredForGood
<1>1. ASSUME IInv, [Next]_vars, NEW t \in Threads, token[t] \in expired,
             pc[t] # "idle", pc'[t] = "idle"
      PROVE  answer' # "next"
  <2> SUFFICES ASSUME answer' = "next" PROVE FALSE
    OBVIOUS
  <2>1. t \in Checking(token[t]) /\ pc[t] = "written"
    BY <1>1, OnlyAcceptAnswers DEF Checking
  <2>2. PICK r \in Times : Dead(token[t], r)
    BY <1>1 DEF IInv, Past
  <2> QED
    BY <2>1, <2>2 DEF Dead
<1>2. IInv /\ [Next]_vars =>
        [\A t \in Threads :
           token[t] \in expired /\ pc[t] # "idle" /\ pc'[t] = "idle"
             => answer' # "next"]_vars
  BY <1>1
<1> QED
  BY <1>2, Invariance, PTL DEF Spec, ExpiredForGood

=============================================================================
