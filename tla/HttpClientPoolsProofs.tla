----------------------- MODULE HttpClientPoolsProofs -----------------------
(***************************************************************************)
(* Proofs about HttpClientPools, for any finite number of callers and      *)
(* request objects.                                                        *)
(***************************************************************************)
EXTENDS HttpClientPools, FiniteSetTheorems, TLAPS

(***************************************************************************)
(* The queue.                                                              *)
(***************************************************************************)
Elements(s) == {s[i] : i \in DOMAIN s}
Distinct(s) == \A i, j \in DOMAIN s : s[i] = s[j] => i = j

LEMMA HeadTail ==
  ASSUME NEW S, NEW s \in Seq(S), s # <<>>, Distinct(s)
  PROVE  /\ Head(s) \in S /\ Head(s) \in Elements(s)
         /\ Tail(s) \in Seq(S) /\ Len(Tail(s)) = Len(s) - 1
         /\ Elements(Tail(s)) = Elements(s) \ {Head(s)}
         /\ Distinct(Tail(s))
<1>1. /\ Len(s) \in Nat /\ Len(s) > 0 /\ DOMAIN s = 1 .. Len(s)
      /\ Head(s) = s[1] /\ Head(s) \in S /\ Tail(s) \in Seq(S)
      /\ Len(Tail(s)) = Len(s) - 1 /\ DOMAIN Tail(s) = 1 .. (Len(s) - 1)
      /\ \A i \in 1 .. (Len(s) - 1) : Tail(s)[i] = s[i + 1]
  OBVIOUS
<1>2. Distinct(Tail(s))
  BY <1>1 DEF Distinct
<1>3. Elements(Tail(s)) \subseteq Elements(s) \ {Head(s)}
  BY <1>1 DEF Elements, Distinct
<1>4. ASSUME NEW i \in DOMAIN s, s[i] # Head(s) PROVE s[i] \in Elements(Tail(s))
  <2>1. i - 1 \in DOMAIN Tail(s) /\ Tail(s)[i - 1] = s[i]
    BY <1>1, <1>4
  <2> QED
    BY <2>1 DEF Elements
<1> QED
  BY <1>1, <1>2, <1>3, <1>4 DEF Elements

LEMMA AppendAt ==
  ASSUME NEW S, NEW s \in Seq(S), NEW c \in S
  PROVE  /\ Append(s, c) \in Seq(S) /\ Len(Append(s, c)) = Len(s) + 1
         /\ Elements(Append(s, c)) = Elements(s) \cup {c}
         /\ Distinct(s) /\ c \notin Elements(s) => Distinct(Append(s, c))
<1>1. /\ Len(s) \in Nat /\ DOMAIN s = 1 .. Len(s)
      /\ Append(s, c) \in Seq(S) /\ Len(Append(s, c)) = Len(s) + 1
      /\ DOMAIN Append(s, c) = 1 .. (Len(s) + 1)
      /\ \A i \in 1 .. Len(s) : Append(s, c)[i] = s[i]
      /\ Append(s, c)[Len(s) + 1] = c
  OBVIOUS
<1>2. Elements(Append(s, c)) \subseteq Elements(s) \cup {c}
  BY <1>1 DEF Elements
<1>3. Elements(s) \cup {c} \subseteq Elements(Append(s, c))
  BY <1>1 DEF Elements
<1>4. Distinct(s) /\ c \notin Elements(s) => Distinct(Append(s, c))
  BY <1>1 DEF Distinct, Elements
<1> QED
  BY <1>1, <1>2, <1>3, <1>4

(***************************************************************************)
(* Conservation of the request objects.                                    *)
(***************************************************************************)
Conserved == TypeOK /\ NoClientLostOrShared

LEMMA NewPoolIsFull ==
  ASSUME NEW s \in NewPools
  PROVE  /\ s \in Seq(Clients)
         /\ \A i, j \in DOMAIN s : s[i] = s[j] => i = j
         /\ {s[i] : i \in DOMAIN s} = Clients
<1>1. Cardinality(Clients) \in Nat
  BY PoolAssumption, FS_CardinalityType
<1> QED
  BY <1>1 DEF NewPools

LEMMA NewRequestType == NewRequest \in Requests
BY DEF NewRequest, Requests, Methods, Given

LEMMA ConservedInit == Init => Conserved
<1> SUFFICES ASSUME Init PROVE Conserved
  OBVIOUS
<1>1. /\ pool \in Seq(Clients)
      /\ \A i, j \in DOMAIN pool : pool[i] = pool[j] => i = j
      /\ Free = Clients
  BY NewPoolIsFull DEF Init, Free
<1>5. TypeOK
  BY <1>1, NewRequestType DEF Init, TypeOK, Stages, HasClient, Given
<1> QED
  BY <1>1, <1>5, PoolAssumption DEF Init, Conserved, NoClientLostOrShared

(* The process that starts after a null body has a full pool.              *)
LEMMA PostNothingKeeps ==
  ASSUME NEW t \in Threads, PostNothing(t)
  PROVE  Conserved' /\ Free' = Clients
<1>1. /\ pool' \in Seq(Clients)
      /\ \A i, j \in DOMAIN pool' : pool'[i] = pool'[j] => i = j
      /\ Free' = Clients
  BY NewPoolIsFull DEF PostNothing, Free
<1>2. TypeOK'
  BY <1>1, NewRequestType DEF PostNothing, TypeOK, Stages, HasClient, Given
<1> QED
  BY <1>1, <1>2, PoolAssumption DEF PostNothing, Conserved, NoClientLostOrShared

LEMMA GetKeeps ==
  ASSUME Conserved, NEW t \in Threads, Get(t)
  PROVE  /\ Conserved'
         /\ client[t] = NoClient /\ Head(pool) \in Free
         /\ Free' = Free \ {Head(pool)} /\ Len(pool') = Len(pool) - 1
<1> DEFINE c == Head(pool)
<1>1. /\ c \in Clients /\ c \in Free
      /\ pool' \in Seq(Clients) /\ Len(pool') = Len(pool) - 1
      /\ Free' = Free \ {c} /\ Distinct(pool')
  <2>1. pool \in Seq(Clients) /\ pool # <<>> /\ Distinct(pool) /\ pool' = Tail(pool)
    BY DEF Conserved, TypeOK, NoClientLostOrShared, Get, Distinct
  <2>2. Free = Elements(pool) /\ Free' = Elements(pool')
    BY DEF Free, Elements
  <2> HIDE DEF c
  <2>3. /\ Head(pool) \in Clients /\ Head(pool) \in Elements(pool)
        /\ Tail(pool) \in Seq(Clients) /\ Len(Tail(pool)) = Len(pool) - 1
        /\ Elements(Tail(pool)) = Elements(pool) \ {Head(pool)}
        /\ Distinct(Tail(pool))
    BY <2>1, HeadTail
  <2> QED
    BY <2>1, <2>2, <2>3 DEF c
<1>2. /\ client' = [client EXCEPT ![t] = c] /\ pc' = [pc EXCEPT ![t] = "fill"]
      /\ pc[t] = "get" /\ client[t] = NoClient
  BY DEF Get, Goto, Conserved, TypeOK, HasClient
<1> HIDE DEF c
<1>3. TypeOK'
  BY <1>1, <1>2, PoolAssumption DEF Get, Conserved, TypeOK, Stages, HasClient
<1>4. NoClientLostOrShared'
  <2>1. \A u \in Threads \ {t} : client'[u] = client[u] /\ client[u] # c
    BY <1>1, <1>2 DEF Conserved, NoClientLostOrShared, TypeOK
  <2>2. client'[t] = c
    BY <1>2 DEF Conserved, TypeOK
  <2>3. \A u \in Threads : client'[u] \notin Free'
    BY <1>1, <2>1, <2>2 DEF Conserved, NoClientLostOrShared
  <2>4. \A d \in Clients : d \in Free' \/ \E u \in Threads : client'[u] = d
    <3> SUFFICES ASSUME NEW d \in Clients PROVE d \in Free' \/ \E u \in Threads : client'[u] = d
      OBVIOUS
    <3>1. CASE d = c
      BY <2>2, <3>1
    <3>2. CASE d # c /\ d \in Free
      BY <1>1, <3>2
    <3>3. CASE d # c /\ d \notin Free
      <4>1. PICK u \in Threads : client[u] = d
        BY <3>3 DEF Conserved, NoClientLostOrShared
      <4>2. u # t
        BY <1>2, <4>1, PoolAssumption
      <4> QED
        BY <2>1, <4>1, <4>2
    <3> QED
      BY <3>1, <3>2, <3>3
  <2>5. \A u, v \in Threads : u # v /\ client'[u] = client'[v] => client'[u] = NoClient
    BY <2>1, <2>2 DEF Conserved, NoClientLostOrShared
  <2> QED
    BY <1>1, <2>3, <2>4, <2>5 DEF NoClientLostOrShared, Distinct
<1> QED
  BY <1>1, <1>2, <1>3, <1>4 DEF Conserved, c

LEMMA PutKeeps ==
  ASSUME Conserved, NEW t \in Threads, Put(t)
  PROVE  /\ Conserved'
         /\ client[t] # NoClient
         /\ Free' = Free \cup {client[t]} /\ Len(pool') = Len(pool) + 1
<1> DEFINE c == client[t]
<1>1. c \in Clients /\ c # NoClient /\ c \notin Free
  BY PoolAssumption DEF Put, Goto, Conserved, TypeOK, NoClientLostOrShared, HasClient
<1>2. /\ pool' \in Seq(Clients) /\ Len(pool') = Len(pool) + 1
      /\ Free' = Free \cup {c} /\ Distinct(pool')
  <2>1. /\ pool \in Seq(Clients) /\ Distinct(pool) /\ c \notin Elements(pool)
        /\ pool' = Append(pool, c)
    BY <1>1 DEF Put, Conserved, TypeOK, NoClientLostOrShared, Free, Elements, Distinct
  <2>2. Free = Elements(pool) /\ Free' = Elements(pool')
    BY DEF Free, Elements
  <2> HIDE DEF c
  <2> QED
    BY <1>1, <2>1, <2>2, AppendAt
<1>3. /\ client' = [client EXCEPT ![t] = NoClient] /\ pc' = [pc EXCEPT ![t] = "notify"]
      /\ UNCHANGED <<call, request>> /\ pc[t] = "put"
      /\ left' = [left EXCEPT ![c] = request[c].body]
  BY DEF Put, Goto
<1>4. TypeOK'
  <2>1. left' \in [Clients -> Given]
    BY <1>1, <1>3 DEF Conserved, TypeOK, Requests
  <2> QED
    BY <1>2, <1>3, <2>1 DEF Conserved, TypeOK, Stages, HasClient
<1>5. NoClientLostOrShared'
  <2>1. \A u \in Threads \ {t} : client[u] # c
    BY <1>1 DEF Conserved, NoClientLostOrShared
  <2>2. NoClient \notin Free
    BY PoolAssumption DEF Conserved, TypeOK, Free
  <2> QED
    BY <1>1, <1>2, <1>3, <2>1, <2>2, PoolAssumption
    DEF Conserved, TypeOK, NoClientLostOrShared, Distinct
<1> QED
  BY <1>1, <1>2, <1>4, <1>5 DEF Conserved

LEMMA ConservedFrame ==
  ASSUME Conserved, UNCHANGED <<pool, client>>, TypeOK'
  PROVE  Conserved'
BY DEF Conserved, NoClientLostOrShared, Free

LEMMA OtherTypes ==
  ASSUME TypeOK, NEW t \in Threads,
         Call(t) \/ Wait(t) \/ SpuriousWakeup(t) \/ Fill(t) \/ Send(t) \/ NotifyOne(t)
  PROVE  TypeOK'
<1>1. CASE Call(t)
  BY <1>1, PoolAssumption DEF TypeOK, Call, Goto, Stages, HasClient
<1>2. CASE Fill(t)
  <2>1. client[t] \in Clients
    BY <1>2 DEF Fill, Goto, TypeOK, HasClient
  <2>2. call[t] \in Signatures
    BY <1>2, PoolAssumption DEF Fill, Goto, TypeOK
  <2>3. /\ call[t].method \in Methods /\ call[t].url \in Urls \cup {NoUrl}
        /\ call[t].body \in Given
    BY <2>2 DEF Signatures, Methods, Given
  <2>4. Filled(request[client[t]], call[t]) \in Requests
    BY <2>1, <2>3 DEF TypeOK, Filled, Requests
  <2> QED
    BY <1>2, <2>1, <2>4 DEF Fill, Goto, TypeOK, Stages, HasClient
<1>3. CASE NotifyOne(t)
  BY <1>3 DEF NotifyOne, Waiting, TypeOK, Stages, HasClient
<1>4. CASE Wait(t) \/ SpuriousWakeup(t) \/ Send(t)
  BY <1>4 DEF Wait, SpuriousWakeup, Send, Goto, TypeOK, Stages, HasClient
<1> QED
  BY <1>1, <1>2, <1>3, <1>4

LEMMA ConservedStep == Conserved /\ [Next]_vars => Conserved'
<1> SUFFICES ASSUME Conserved, [Next]_vars PROVE Conserved'
  OBVIOUS
<1>1. ASSUME NEW t \in Threads,
             Call(t) \/ Wait(t) \/ SpuriousWakeup(t) \/ Fill(t) \/ Send(t) \/ NotifyOne(t)
      PROVE  Conserved'
  BY <1>1, OtherTypes, ConservedFrame
  DEF Conserved, Call, Wait, SpuriousWakeup, Fill, Send, NotifyOne
<1>2. CASE UNCHANGED vars
  <2>1. TypeOK'
    BY <1>2 DEF vars, Conserved, TypeOK
  <2> QED
    BY <1>2, <2>1, ConservedFrame DEF vars
<1> QED
  BY <1>1, <1>2, GetKeeps, PutKeeps, PostNothingKeeps DEF Next, Step

THEOREM Conservation == Spec => []Conserved
BY ConservedInit, ConservedStep, PTL DEF Spec

(* Threads and request objects stay well formed.                           *)
THEOREM TypeCorrect == Spec => []TypeOK
BY Conservation, PTL DEF Conserved

(* No request object is ever lost or with two callers.                     *)
THEOREM NothingLostOrShared == Spec => []NoClientLostOrShared
BY Conservation, PTL DEF Conserved

(***************************************************************************)
(* No lost wakeup.                                                         *)
(***************************************************************************)
LEMMA AtFinite ==
  \A stage : /\ IsFiniteSet(At(stage)) /\ Cardinality(At(stage)) \in Nat
             /\ IsFiniteSet(At(stage)') /\ Cardinality(At(stage)') \in Nat
BY PoolAssumption, FS_Subset, FS_CardinalityType DEF At

LEMMA AtPool == TypeOK => Len(pool) \in Nat
BY DEF TypeOK

(* The threads at a stage when one thread moves.                           *)
LEMMA AtMove ==
  ASSUME TypeOK, NEW t \in Threads, NEW from, NEW to, Goto(t, from, to), from # to
  PROVE  /\ Cardinality(At(to)') = Cardinality(At(to)) + 1
         /\ Cardinality(At(from)') = Cardinality(At(from)) - 1
         /\ \A stage : stage \notin {from, to} => At(stage)' = At(stage)
<1>1. At(to)' = At(to) \cup {t} /\ t \notin At(to)
  BY DEF At, Goto, TypeOK
<1>2. At(from)' = At(from) \ {t} /\ t \in At(from)
  BY DEF At, Goto, TypeOK
<1>3. \A stage : stage \notin {from, to} => At(stage)' = At(stage)
  BY DEF At, Goto, TypeOK
<1>4. Cardinality(At(to) \cup {t}) = Cardinality(At(to)) + 1
  BY <1>1, AtFinite, FS_AddElement
<1>5. Cardinality(At(from) \ {t}) = Cardinality(At(from)) - 1
  BY <1>2, AtFinite, FS_RemoveElement
<1> QED
  BY <1>1, <1>2, <1>3, <1>4, <1>5

LEMMA WakeupInit == Init => NoLostWakeup
BY DEF Init, NoLostWakeup, Waiting

LEMMA WakeupStep ==
  ASSUME Conserved, NoLostWakeup, [Next]_vars
  PROVE  NoLostWakeup'
<1> DEFINE G == Cardinality(At("get"))
           N == Cardinality(At("notify"))
<1>t. TypeOK
  BY DEF Conserved
<1>n. Len(pool) \in Nat /\ G \in Nat /\ N \in Nat
  BY <1>t, AtFinite, AtPool
<1>w. Waiting = At("wait") /\ Waiting' = At("wait")'
  BY DEF Waiting, At
<1>1. ASSUME NEW t \in Threads, Call(t) PROVE NoLostWakeup'
  <2>1. G' = G + 1 /\ N' = N /\ Waiting' = Waiting /\ pool' = pool
    BY <1>1, <1>t, <1>w, AtMove DEF Call
  <2> QED
    BY <2>1, <1>n DEF NoLostWakeup
<1>2. ASSUME NEW t \in Threads, Get(t) PROVE NoLostWakeup'
  <2>1. G' = G - 1 /\ N' = N /\ Waiting' = Waiting
    BY <1>2, <1>t, <1>w, AtMove DEF Get
  <2>2. Len(pool') = Len(pool) - 1
    BY <1>2, GetKeeps
  <2> QED
    BY <2>1, <2>2, <1>n DEF NoLostWakeup
<1>3. ASSUME NEW t \in Threads, Wait(t) PROVE NoLostWakeup'
  <2>1. Len(pool') = 0
    BY <1>3 DEF Wait
  <2>2. G' \in Nat /\ N' \in Nat
    BY AtFinite
  <2> QED
    BY <2>1, <2>2 DEF NoLostWakeup
<1>4. ASSUME NEW t \in Threads, SpuriousWakeup(t) PROVE NoLostWakeup'
  <2>1. G' = G + 1 /\ N' = N
    BY <1>4, <1>t, AtMove DEF SpuriousWakeup
  <2>2. t \in Waiting /\ pool' = pool
    BY <1>4 DEF SpuriousWakeup, Goto, Waiting
  <2> QED
    BY <2>1, <2>2, <1>n DEF NoLostWakeup
<1>5. ASSUME NEW t \in Threads, Fill(t) \/ Send(t) PROVE NoLostWakeup'
  <2>1. At("get")' = At("get") /\ At("notify")' = At("notify")
    BY <1>5, <1>t, AtMove DEF Fill, Send
  <2>2. Waiting' = Waiting /\ pool' = pool
    BY <1>5, <1>t, <1>w, AtMove DEF Fill, Send
  <2> QED
    BY <2>1, <2>2 DEF NoLostWakeup
<1>6. ASSUME NEW t \in Threads, Put(t) PROVE NoLostWakeup'
  <2>1. G' = G /\ N' = N + 1 /\ Waiting' = Waiting
    BY <1>6, <1>t, <1>w, AtMove DEF Put
  <2>2. Len(pool') = Len(pool) + 1
    BY <1>6, PutKeeps
  <2> QED
    BY <2>1, <2>2, <1>n DEF NoLostWakeup
<1>7. ASSUME NEW t \in Threads, NotifyOne(t) PROVE NoLostWakeup'
  <2>1. CASE Waiting = {}
    <3>1. Waiting' = {}
      BY <1>7, <2>1, <1>t DEF NotifyOne, Waiting, TypeOK
    <3> QED
      BY <3>1 DEF NoLostWakeup
  <2>2. ASSUME NEW u \in Waiting, pc' = [pc EXCEPT ![t] = "idle", ![u] = "get"]
        PROVE  NoLostWakeup'
    <3>1. At("get")' = At("get") \cup {u} /\ u \notin At("get")
      BY <1>7, <2>2, <1>t DEF NotifyOne, At, Waiting, TypeOK
    <3>2. At("notify")' = At("notify") \ {t} /\ t \in At("notify")
      BY <1>7, <2>2, <1>t DEF NotifyOne, At, Waiting, TypeOK
    <3>3. G' = G + 1 /\ N' = N - 1
      BY <3>1, <3>2, AtFinite, FS_AddElement, FS_RemoveElement
    <3> QED
      BY <1>7, <2>2, <3>3, <1>n DEF NotifyOne, NoLostWakeup
  <2> QED
    BY <1>7, <2>1, <2>2 DEF NotifyOne
<1>8. CASE UNCHANGED vars
  BY <1>8 DEF vars, NoLostWakeup, Waiting, At
<1>9. ASSUME NEW t \in Threads, PostNothing(t) PROVE NoLostWakeup'
  BY <1>9 DEF PostNothing, NoLostWakeup, Waiting
<1> QED
  BY <1>1, <1>2, <1>3, <1>4, <1>5, <1>6, <1>7, <1>8, <1>9 DEF Next, Step

(* While a thread waits, each free request object has a thread that is     *)
(* about to take it or to notify.                                          *)
THEOREM WakeupsAreNotLost == Spec => []NoLostWakeup
<1>1. Conserved /\ NoLostWakeup /\ [Next]_vars => NoLostWakeup'
  BY WakeupStep
<1> QED
  BY <1>1, WakeupInit, Conservation, PTL DEF Spec

(***************************************************************************)
(* Isolation of the callers.                                               *)
(***************************************************************************)
Own == OwnRequest /\ LeftAlone

LEMMA OwnStep ==
  ASSUME Conserved, Own, [Next]_vars
  PROVE  Own'
<1>t. /\ pc \in [Threads -> Stages]
      /\ client \in [Threads -> Clients \cup {NoClient}]
      /\ \A t \in Threads : client[t] # NoClient <=> pc[t] \in HasClient
      /\ request \in [Clients -> Requests]
      /\ left \in [Clients -> Given]
  BY DEF Conserved, TypeOK
<1>o. /\ \A t, u \in Threads : t # u /\ client[t] = client[u] => client[t] = NoClient
      /\ OwnRequest /\ LeftAlone
  BY DEF Conserved, NoClientLostOrShared, Own
<1>1. ASSUME NEW t \in Threads, Fill(t) PROVE Own'
  <2> DEFINE c == client[t]
             new == Filled(request[c], call[t])
  <2>1. /\ c \in Clients /\ pc[t] = "fill" /\ pc'[t] = "send"
        /\ UNCHANGED <<client, call, left>>
        /\ \A u \in Threads \ {t} : pc'[u] = pc[u]
    BY <1>1, <1>t DEF Fill, Goto, HasClient
  <2>2. request' = [request EXCEPT ![c] = new]
    BY <1>1 DEF Fill
  <2>3. request[c].body = left[c]
    <3>1. \A u \in Threads : client[u] = c => u = t
      BY <1>o, <2>1, PoolAssumption
    <3> QED
      BY <1>o, <2>1, <3>1 DEF LeftAlone
  <2>4. new = [method |-> call[t].method, url |-> call[t].url,
               body |-> IF GivesBody(call[t]) THEN call[t].body ELSE left[c]]
    BY <2>3 DEF Filled
  <2> HIDE DEF c, new
  <2>5. ASSUME NEW u \in Threads \ {t}, pc'[u] = "send"
        PROVE  pc[u] = "send" /\ request'[client[u]] = request[client[u]]
    <3>1. pc[u] = "send" /\ client[u] \in Clients
      BY <1>t, <2>1, <2>5 DEF HasClient
    <3>2. client[u] # c
      BY <1>o, <2>1, PoolAssumption DEF c
    <3> QED
      BY <1>t, <2>2, <3>1, <3>2
  <2>6. request'[c] = new
    BY <1>t, <2>1, <2>2
  <2>7. OwnRequest'
    BY <1>o, <2>1, <2>4, <2>5, <2>6 DEF OwnRequest, c
  <2>8. LeftAlone'
    <3> SUFFICES ASSUME NEW d \in Clients
                 PROVE  \/ request'[d].body = left'[d]
                        \/ \E u \in Threads :
                             client'[u] = d /\ pc'[u] \in {"send", "put"}
      BY DEF LeftAlone
    <3>1. CASE d = c
      BY <2>1, <3>1 DEF c
    <3>2. CASE d # c
      <4>1. request'[d] = request[d]
        BY <1>t, <2>2, <3>2
      <4> QED
        BY <1>o, <2>1, <4>1 DEF LeftAlone
    <3> QED
      BY <3>1, <3>2
  <2> QED
    BY <2>7, <2>8 DEF Own
<1>2. ASSUME NEW t \in Threads, Put(t) PROVE Own'
  <2> DEFINE c == client[t]
  <2>1. /\ c \in Clients /\ pc[t] = "put" /\ pc'[t] = "notify"
        /\ \A u \in Threads \ {t} : pc'[u] = pc[u] /\ client'[u] = client[u]
        /\ UNCHANGED <<call, request>>
        /\ left' = [left EXCEPT ![c] = request[c].body]
    BY <1>2, <1>t DEF Put, Goto, HasClient
  <2>2. \A u \in Threads \ {t} : client[u] # c
    BY <1>o, <2>1, PoolAssumption
  <2> HIDE DEF c
  <2>3. OwnRequest'
    <3>1. ASSUME NEW u \in Threads, pc'[u] = "send"
          PROVE  /\ pc[u] = "send" /\ client'[u] = client[u]
                 /\ left'[client[u]] = left[client[u]]
      <4>1. u # t /\ pc[u] = "send"
        BY <2>1, <3>1
      <4>2. client[u] \in Clients /\ client[u] # c
        BY <1>t, <2>2, <4>1 DEF HasClient
      <4> QED
        BY <1>t, <2>1, <4>1, <4>2
    <3> QED
      BY <1>o, <2>1, <3>1 DEF OwnRequest
  <2>4. LeftAlone'
    <3> SUFFICES ASSUME NEW d \in Clients
                 PROVE  \/ request'[d].body = left'[d]
                        \/ \E u \in Threads :
                             client'[u] = d /\ pc'[u] \in {"send", "put"}
      BY DEF LeftAlone
    <3>1. CASE d = c
      BY <1>t, <2>1, <3>1
    <3>2. CASE d # c
      <4>1. left'[d] = left[d]
        BY <1>t, <2>1, <3>2
      <4>2. ASSUME NEW u \in Threads, client[u] = d, pc[u] \in {"send", "put"}
            PROVE  client'[u] = d /\ pc'[u] \in {"send", "put"}
        BY <2>1, <3>2, <4>2 DEF c
      <4> QED
        BY <1>o, <2>1, <4>1, <4>2 DEF LeftAlone
    <3> QED
      BY <3>1, <3>2
  <2> QED
    BY <2>3, <2>4 DEF Own
<1>3. ASSUME NEW t \in Threads, Get(t) \/ Call(t) PROVE Own'
  <2>1. /\ UNCHANGED <<request, left>>
        /\ pc[t] \notin {"send", "put"} /\ pc'[t] \notin {"send", "put"}
        /\ \A u \in Threads \ {t} :
             pc'[u] = pc[u] /\ client'[u] = client[u] /\ call'[u] = call[u]
    <3>1. CASE Get(t)
      BY <1>t, <3>1 DEF Get, Goto
    <3>2. CASE Call(t)
      <4>1. PICK c \in Calls :
              /\ Goto(t, "idle", "get")
              /\ call' = [call EXCEPT ![t] = c]
              /\ UNCHANGED <<pool, client, request, left>>
        BY <3>2 DEF Call
      <4> QED
        BY <1>t, <4>1 DEF Goto
    <3> QED
      BY <1>3, <3>1, <3>2
  <2>2. OwnRequest'
    BY <1>o, <2>1 DEF OwnRequest
  <2>3. LeftAlone'
    BY <1>o, <2>1 DEF LeftAlone
  <2> QED
    BY <2>2, <2>3 DEF Own
<1>4. ASSUME NEW t \in Threads,
             Wait(t) \/ SpuriousWakeup(t) \/ Send(t) \/ NotifyOne(t)
      PROVE  Own'
  <2>1. /\ UNCHANGED <<request, left, client>>
        /\ \A u \in Threads : pc'[u] = "send" => pc[u] = "send" /\ call'[u] = call[u]
        /\ \A u \in Threads : pc[u] \in {"send", "put"} => pc'[u] \in {"send", "put"}
    <3>1. CASE Wait(t) \/ SpuriousWakeup(t) \/ Send(t)
      BY <1>t, <3>1 DEF Wait, SpuriousWakeup, Send, Goto
    <3>2. CASE NotifyOne(t)
      <4>1. /\ UNCHANGED <<request, left, client>>
            /\ \A u \in Threads \ {t} : call'[u] = call[u]
        BY <3>2 DEF NotifyOne
      <4>2. /\ pc[t] = "notify" /\ pc'[t] = "idle"
            /\ \A u \in Threads \ {t} :
                 pc'[u] = pc[u] \/ (pc[u] = "wait" /\ pc'[u] = "get")
        BY <1>t, <3>2 DEF NotifyOne, Waiting
      <4> QED
        BY <4>1, <4>2
    <3> QED
      BY <1>4, <3>1, <3>2
  <2>2. OwnRequest'
    BY <1>o, <2>1 DEF OwnRequest
  <2>3. LeftAlone'
    BY <1>o, <2>1 DEF LeftAlone
  <2> QED
    BY <2>2, <2>3 DEF Own
<1>5. ASSUME NEW t \in Threads, PostNothing(t) PROVE Own'
  BY <1>5 DEF PostNothing, Own, OwnRequest, LeftAlone, NewRequest
<1>6. CASE UNCHANGED vars
  BY <1>o, <1>6 DEF vars, Own, OwnRequest, LeftAlone
<1> QED
  BY <1>1, <1>2, <1>3, <1>4, <1>5, <1>6 DEF Next, Step

(* Each thread sends the method and url it was called with, and its body   *)
(* or, if it gave none, the one the last call left in the object.          *)
THEOREM CallersAreIsolated == Spec => []OwnRequest
<1>1. Init => Own
  BY DEF Init, Own, OwnRequest, LeftAlone, NewRequest
<1>2. Conserved /\ Own /\ [Next]_vars => Own'
  BY OwnStep
<1>3. Own => OwnRequest
  BY DEF Own
<1> QED
  BY <1>1, <1>2, <1>3, Conservation, PTL DEF Spec

(***************************************************************************)
(* The queue implements the pool.                                          *)
(***************************************************************************)
LEMMA PoolStep ==
  ASSUME Conserved, [Next]_vars
  PROVE  [ResourcePool!PoolNext]_<<Free, client>>
<1>1. ASSUME NEW t \in Threads, Get(t) PROVE ResourcePool!Take(t)
  BY <1>1, GetKeeps DEF Get, ResourcePool!Take
<1>2. ASSUME NEW t \in Threads, Put(t) PROVE ResourcePool!Give(t)
  BY <1>2, PutKeeps DEF Put, ResourcePool!Give
<1>3. ASSUME NEW t \in Threads, PostNothing(t) PROVE ResourcePool!Renew
  BY <1>3, PostNothingKeeps DEF PostNothing, ResourcePool!Renew
<1>4. ASSUME NEW t \in Threads,
             Call(t) \/ Wait(t) \/ SpuriousWakeup(t) \/ Fill(t) \/ Send(t) \/ NotifyOne(t)
      PROVE  UNCHANGED <<Free, client>>
  BY <1>4 DEF Call, Wait, SpuriousWakeup, Fill, Send, NotifyOne, Free
<1>5. UNCHANGED vars => UNCHANGED <<Free, client>>
  BY DEF vars, Free
<1> QED
  BY <1>1, <1>2, <1>3, <1>4, <1>5 DEF Next, Step, ResourcePool!PoolNext

(* get and put are the Take and Give of a pool, a process that dies makes  *)
(* way for one with a new pool, and nothing else changes it.               *)
THEOREM Refinement == Spec => ImplementsPool
<1>1. Init => ResourcePool!PoolInit
  BY NewPoolIsFull DEF Init, ResourcePool!PoolInit, Free
<1>2. Conserved /\ [Next]_vars => [ResourcePool!PoolNext]_<<Free, client>>
  BY PoolStep
<1> QED
  BY <1>1, <1>2, Conservation, PTL DEF Spec, ImplementsPool, ResourcePool!PoolSpec

=============================================================================
