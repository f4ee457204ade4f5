------------------------- MODULE CacheManagerProofs -------------------------
(***************************************************************************)
(* Proofs about CacheManager, for any number of callers, keys and ticks.   *)
(***************************************************************************)
EXTENDS CacheManager, FiniteSetTheorems, TLAPS

(* An entry that is alive has been in the map for as long as its lifetime  *)
(* has shrunk, and was no older than Longest when it was stored.           *)
AgesBounded ==
  \A k \in Keys : Live(k) => age[k] + cache[k].left <= Bound

(* The ticks RefreshCache may still keep the mutex.                        *)
Remaining ==
  MaxLoad * Cardinality(todo) + (IF Refreshing THEN MaxLoad - calling ELSE 0)

(* A caller waits for the mutex during one RefreshCache at most: between   *)
(* two of them the background thread sleeps, and no tick passes while a    *)
(* caller could go on.  `Rested' says that the next one is a tick away.    *)
Rested == refresher = "gone" \/ nap > 0

WaitBounded ==
  \A t \in Threads :
    /\ pc[t] = "return" => loadedAge[t] <= MaxLoad
    /\ pc[t] = "update" => IF locked THEN loadedAge[t] + Remaining <= Longest
                                     ELSE loadedAge[t] <= MaxLoad \/ Rested

Inv == TypeOK /\ AgesBounded /\ WaitBounded

-----------------------------------------------------------------------------
(***************************************************************************)
(* Arithmetic of the time the mutex is kept.                               *)
(***************************************************************************)
LEMMA Products ==
  ASSUME NEW n \in Nat
  PROVE  /\ MaxLoad * n \in Nat
         /\ MaxLoad * (n + 1) = MaxLoad * n + MaxLoad
         /\ n >= 1 => MaxLoad * (n - 1) = MaxLoad * n - MaxLoad
BY CacheAssumption

LEMMA ProductGrows ==
  ASSUME NEW n \in Nat, NEW m \in Nat, m <= n
  PROVE  MaxLoad * m <= MaxLoad * n
<1>1. n - m \in Nat /\ n = m + (n - m)
  OBVIOUS
<1>2. MaxLoad * n = MaxLoad * m + MaxLoad * (n - m)
  BY <1>1, CacheAssumption
<1> QED
  BY <1>1, <1>2, Products

LEMMA LongestBounds ==
  /\ Longest \in Nat
  /\ Longest = MaxLoad * Cardinality(Keys) + MaxLoad
  /\ MaxLoad <= Longest
  /\ Bound \in Nat /\ Longest < Bound
<1>1. Cardinality(Keys) \in Nat
  BY CacheAssumption, FS_CardinalityType
<1>2. 1 + Cardinality(Keys) = Cardinality(Keys) + 1
  BY <1>1
<1> QED
  BY <1>1, <1>2, Products, CacheAssumption DEF Longest, Bound

(* The keys left are some of the keys, and one less than before a visit.   *)
LEMMA TodoCost ==
  ASSUME NEW S, S \subseteq Keys
  PROVE  /\ MaxLoad * Cardinality(S) \in Nat
         /\ MaxLoad + MaxLoad * Cardinality(S) <= Longest
         /\ \A k \in Keys \ S :
              MaxLoad + MaxLoad + MaxLoad * Cardinality(S) <= Longest
         /\ \A k \in S :
              MaxLoad * Cardinality(S) = MaxLoad * Cardinality(S \ {k}) + MaxLoad
<1>1. /\ IsFiniteSet(S) /\ Cardinality(S) \in Nat
      /\ Cardinality(Keys) \in Nat /\ Cardinality(S) <= Cardinality(Keys)
  BY CacheAssumption, FS_Subset, FS_CardinalityType
<1>2. /\ MaxLoad * Cardinality(S) \in Nat
      /\ MaxLoad * Cardinality(S) <= MaxLoad * Cardinality(Keys)
      /\ MaxLoad * Cardinality(Keys) \in Nat
  BY <1>1, Products, ProductGrows
<1>3. ASSUME NEW k \in Keys \ S
      PROVE  MaxLoad + MaxLoad + MaxLoad * Cardinality(S) <= Longest
  <2>1. /\ S \cup {k} \subseteq Keys /\ Cardinality(S \cup {k}) = Cardinality(S) + 1
    BY <1>1, <1>3, FS_AddElement
  <2>2. Cardinality(S) + 1 \in Nat /\ Cardinality(S) + 1 <= Cardinality(Keys)
    BY <2>1, <1>1, CacheAssumption, FS_Subset
  <2>3. MaxLoad * (Cardinality(S) + 1) <= MaxLoad * Cardinality(Keys)
    BY <2>2, <1>1, ProductGrows
  <2>4. MaxLoad * (Cardinality(S) + 1) = MaxLoad * Cardinality(S) + MaxLoad
    BY <1>1, Products
  <2> DEFINE a == MaxLoad * Cardinality(S)
             b == MaxLoad * Cardinality(Keys)
  <2>5. a \in Nat /\ b \in Nat /\ a + MaxLoad <= b /\ Longest = b + MaxLoad
    BY <2>3, <2>4, <1>2, LongestBounds
  <2> HIDE DEF a, b
  <2>6. MaxLoad + MaxLoad + a <= Longest
    BY <2>5, CacheAssumption
  <2> QED
    BY <2>6 DEF a
<1>4. ASSUME NEW k \in S
      PROVE  MaxLoad * Cardinality(S) = MaxLoad * Cardinality(S \ {k}) + MaxLoad
  <2>1. Cardinality(S \ {k}) = Cardinality(S) - 1 /\ Cardinality(S \ {k}) \in Nat
    BY <1>1, <1>4, FS_RemoveElement, FS_CardinalityType
  <2>2. Cardinality(S) = Cardinality(S \ {k}) + 1
    BY <2>1, <1>1
  <2> QED
    BY <2>1, <2>2, Products
<1>5. MaxLoad + MaxLoad * Cardinality(S) <= Longest
  <2> DEFINE a == MaxLoad * Cardinality(S)
             b == MaxLoad * Cardinality(Keys)
  <2>1. a \in Nat /\ b \in Nat /\ a <= b /\ Longest = b + MaxLoad
    BY <1>2, LongestBounds
  <2> HIDE DEF a, b
  <2>2. MaxLoad + a <= Longest
    BY <2>1, CacheAssumption
  <2> QED
    BY <2>2 DEF a
<1> QED
  BY <1>2, <1>3, <1>4, <1>5

-----------------------------------------------------------------------------
(* The initial state is well formed.                                       *)
LEMMA InitInv == Init => Inv
<1> SUFFICES ASSUME Init PROVE Inv
  OBVIOUS
<1>1. Stored = {}
  BY DEF Init, Stored
<1>2. AgesBounded
  BY <1>1 DEF AgesBounded, Live
<1>3. locked \in BOOLEAN /\ (locked <=> refresher \in {"visit", "load", "store"})
  BY DEF Init
<1>4. age \in [Keys -> 0 .. Bound] /\ loadedAge \in [Threads -> 0 .. Longest]
  BY LongestBounds DEF Init
<1>5. nap \in 0 .. Interval /\ calling \in 0 .. MaxLoad /\ reloadedAge \in 0 .. calling
  BY CacheAssumption DEF Init
<1>6. WaitBounded
  BY DEF Init, WaitBounded
<1> QED
  BY <1>1, <1>2, <1>3, <1>4, <1>5, <1>6, CacheAssumption
  DEF Init, Inv, TypeOK, Refreshing, Loaded

(* An entry is made of a value and the ticks it has left.                  *)
LEMMA EntryFields ==
  ASSUME TypeOK, NEW k \in Stored
  PROVE  /\ k \in Keys
         /\ cache[k] \in Entries
         /\ cache[k].value \in Values
         /\ cache[k].left \in 0 .. Interval
BY DEF TypeOK, Stored, Entries

(* A value written to the map gets a whole interval, and is of age n.      *)
LEMMA WriteInv ==
  ASSUME Inv, NEW k \in Keys, NEW v \in Values, NEW n \in 0 .. Longest,
         cache' = [cache EXCEPT ![k] = [value |-> v, left |-> Interval]],
         age' = [age EXCEPT ![k] = n]
  PROVE  /\ cache' \in [Keys -> Entries \cup {NoEntry}]
         /\ age' \in [Keys -> 0 .. Bound]
         /\ Stored \subseteq Stored'
         /\ AgesBounded'
<1> DEFINE e == [value |-> v, left |-> Interval]
<1>1. e \in Entries /\ e # NoEntry /\ e.left = Interval
  BY CacheAssumption DEF Entries
<1>2. n \in 0 .. Bound /\ n + Interval <= Bound
  BY LongestBounds, CacheAssumption DEF Bound
<1>3. cache' = [cache EXCEPT ![k] = e]
  OBVIOUS
<1> HIDE DEF e
<1>4. cache' \in [Keys -> Entries \cup {NoEntry}] /\ age' \in [Keys -> 0 .. Bound]
  BY <1>1, <1>2, <1>3 DEF Inv, TypeOK
<1>5. Stored \subseteq Stored'
  BY <1>1, <1>3 DEF Inv, TypeOK, Stored
<1>6. ASSUME NEW l \in Keys, Live(l)' PROVE age'[l] + cache'[l].left <= Bound
  <2>1. CASE l = k
    BY <2>1, <1>1, <1>2, <1>3, CacheAssumption DEF Inv, TypeOK
  <2>2. CASE l # k
    BY <2>2, <1>3, <1>6 DEF Inv, TypeOK, AgesBounded, Live, Stored
  <2> QED
    BY <2>1, <2>2
<1> QED
  BY <1>4, <1>5, <1>6 DEF AgesBounded

-----------------------------------------------------------------------------
(* Steps that leave the map alone keep its part of the invariant.          *)
LEMMA MapAlone ==
  ASSUME Inv, UNCHANGED <<cache, age>>
  PROVE  /\ cache' \in [Keys -> Entries \cup {NoEntry}]
         /\ age' \in [Keys -> 0 .. Bound]
         /\ Stored' = Stored
         /\ AgesBounded'
BY DEF Inv, TypeOK, AgesBounded, Live, Stored

(* A step of one caller keeps the bound on the others' waits, as long as   *)
(* the background thread stands still.                                     *)
LEMMA OthersWait ==
  ASSUME Inv, NEW t \in Threads, UNCHANGED <<locked, thread>>,
         \A u \in Threads \ {t} : pc'[u] = pc[u] /\ loadedAge'[u] = loadedAge[u],
         pc'[t] \notin {"return", "update"}
  PROVE  WaitBounded'
<1>1. Remaining' = Remaining /\ Rested' = Rested
  BY DEF thread, Remaining, Rested, Refreshing
<1> QED
  BY <1>1, Zenon DEF Inv, WaitBounded

(* A call of Get.                                                          *)
LEMMA GetInv ==
  ASSUME Inv, NEW t \in Threads, Call(t) \/ Get(t)
  PROVE  Inv'
<1> USE CacheAssumption DEF Loaded, Refreshing
<1>1. CASE Call(t)
  <2>1. WaitBounded'
    BY <1>1, OthersWait DEF Call, Goto, Inv, TypeOK
  <2> QED
    BY <1>1, <2>1, MapAlone DEF Call, Goto, thread, Inv, TypeOK
<1>2. CASE Hit(t)
  <2>1. cache[key[t]].value \in Values
    BY <1>2, EntryFields DEF Hit, Live, Inv
  <2>2. WaitBounded'
    BY <1>2, OthersWait DEF Hit, Returns, Goto, Inv, TypeOK
  <2>3. loadedAge' \in [Threads -> 0 .. Longest]
    BY <1>2, LongestBounds DEF Hit, Returns, Inv, TypeOK
  <2> QED
    BY <1>2, <2>1, <2>2, <2>3, MapAlone DEF Hit, Returns, Goto, thread, Inv, TypeOK
<1>3. CASE Miss(t)
  <2>1. WaitBounded'
    BY <1>3, OthersWait DEF Miss, Goto, Inv, TypeOK
  <2> QED
    BY <1>3, <2>1, MapAlone DEF Miss, Goto, thread, Inv, TypeOK
<1>4. CASE Load(t)
  <2>1. /\ pc' = [pc EXCEPT ![t] = "return"]
        /\ loadedAge' = [loadedAge EXCEPT ![t] = 0]
        /\ UNCHANGED <<locked, thread>>
    BY <1>4 DEF Load, Goto
  <2>2. WaitBounded'
    <3>1. Remaining' = Remaining /\ Rested' = Rested
      BY <2>1 DEF thread, Remaining, Rested
    <3>2. /\ pc'[t] = "return" /\ loadedAge'[t] = 0
          /\ \A u \in Threads \ {t} : pc'[u] = pc[u] /\ loadedAge'[u] = loadedAge[u]
      BY <2>1 DEF Inv, TypeOK
    <3>3. 0 <= MaxLoad
      OBVIOUS
    <3> QED
      BY <2>1, <3>1, <3>2, <3>3, Zenon DEF Inv, WaitBounded
  <2>3. loadedAge' \in [Threads -> 0 .. Longest]
    BY <2>1, LongestBounds DEF Inv, TypeOK
  <2> QED
    BY <1>4, <2>2, <2>3, MapAlone DEF Load, Goto, thread, Inv, TypeOK
<1>5. CASE LoadReturns(t)
  <2>1. /\ pc[t] = "return" /\ pc' = [pc EXCEPT ![t] = "update"]
        /\ UNCHANGED <<loadedAge, locked, thread>>
    BY <1>5 DEF LoadReturns, Goto
  <2>2. loadedAge[t] <= MaxLoad /\ loadedAge[t] \in Nat
    BY <2>1, LongestBounds DEF Inv, TypeOK, WaitBounded
  <2>3. locked => loadedAge[t] + Remaining <= Longest
    <3> SUFFICES ASSUME locked PROVE loadedAge[t] + Remaining <= Longest
      OBVIOUS
    <3>1. todo \subseteq Keys
      BY DEF Inv, TypeOK, Stored
    <3> DEFINE a == MaxLoad * Cardinality(todo)
    <3>2. a \in Nat /\ MaxLoad + a <= Longest
      BY <3>1, TodoCost
    <3>3. Refreshing => MaxLoad + MaxLoad + a <= Longest
      BY <3>1, TodoCost DEF Inv, TypeOK
    <3>4. Remaining = a + (IF Refreshing THEN MaxLoad - calling ELSE 0)
      BY DEF Remaining
    <3>5. calling \in 0 .. MaxLoad
      BY DEF Inv, TypeOK
    <3> HIDE DEF a
    <3> QED
      BY <2>2, <3>2, <3>3, <3>4, <3>5, LongestBounds
  <2>4. WaitBounded'
    <3>1. Remaining' = Remaining /\ Rested' = Rested
      BY <2>1 DEF thread, Remaining, Rested
    <3>2. /\ pc'[t] = "update" /\ loadedAge'[t] = loadedAge[t]
          /\ \A u \in Threads \ {t} : pc'[u] = pc[u] /\ loadedAge'[u] = loadedAge[u]
      BY <2>1 DEF Inv, TypeOK
    <3> QED
      BY <2>1, <2>2, <2>3, <3>1, <3>2, Zenon DEF Inv, WaitBounded
  <2> QED
    BY <1>5, <2>4, MapAlone DEF LoadReturns, Goto, thread, Inv, TypeOK
<1>6. CASE LoadThrows(t)
  <2>1. WaitBounded'
    BY <1>6, OthersWait DEF LoadThrows, Returns, Goto, Inv, TypeOK
  <2>2. loadedAge' \in [Threads -> 0 .. Longest]
    BY <1>6, LongestBounds DEF LoadThrows, Returns, Inv, TypeOK
  <2> QED
    BY <1>6, <2>1, <2>2, MapAlone DEF LoadThrows, Returns, Goto, thread, Inv, TypeOK
<1>7. CASE UpdateCache(t)
  <2>1. /\ key[t] \in Keys /\ loaded[t] \in Values /\ loadedAge[t] \in 0 .. Longest
        /\ UNCHANGED <<locked, running, thread, object>>
        /\ ~locked /\ Returns(t, "update", loaded[t])
        /\ cache' = [cache EXCEPT ![key[t]] = [value |-> loaded[t], left |-> Interval]]
        /\ age' = [age EXCEPT ![key[t]] = loadedAge[t]]
    BY <1>7 DEF UpdateCache, Returns, Goto, Inv, TypeOK
  <2>2. /\ cache' \in [Keys -> Entries \cup {NoEntry}]
        /\ age' \in [Keys -> 0 .. Bound]
        /\ Stored \subseteq Stored'
        /\ AgesBounded'
    BY <2>1, WriteInv
  <2>3. WaitBounded'
    BY <2>1, OthersWait DEF Returns, Goto, Inv, TypeOK
  <2>4. loadedAge' \in [Threads -> 0 .. Longest]
    BY <2>1, LongestBounds DEF Returns, Inv, TypeOK
  <2> QED
    BY <2>1, <2>2, <2>3, <2>4 DEF Returns, Goto, thread, Inv, TypeOK
<1> QED
  BY <1>1, <1>2, <1>3, <1>4, <1>5, <1>6, <1>7 DEF Get

(* A step of the background thread keeps the bound on the waits if it only *)
(* shortens the time it may keep the mutex, or gives it back and rests.    *)
LEMMA WaitsShortened ==
  ASSUME Inv, UNCHANGED callers,
         \/ locked /\ locked' /\ Remaining' <= Remaining
                   /\ Remaining \in Int /\ Remaining' \in Int
         \/ ~locked' /\ Rested'
  PROVE  WaitBounded'
<1> SUFFICES ASSUME NEW t \in Threads
             PROVE  /\ pc[t] = "return" => loadedAge[t] <= MaxLoad
                    /\ pc[t] = "update" => IF locked' THEN loadedAge[t] + Remaining' <= Longest
                                           ELSE loadedAge[t] <= MaxLoad \/ Rested'
  <2>1. pc' = pc /\ loadedAge' = loadedAge
    BY DEF callers
  <2> QED
    BY <2>1 DEF WaitBounded
<1>1. loadedAge[t] \in Nat /\ Longest \in Nat
  BY LongestBounds DEF Inv, TypeOK
<1>2. /\ pc[t] = "return" => loadedAge[t] <= MaxLoad
      /\ pc[t] = "update" => IF locked THEN loadedAge[t] + Remaining <= Longest
                                       ELSE loadedAge[t] <= MaxLoad \/ Rested
  BY DEF Inv, WaitBounded
<1>3. CASE locked /\ locked' /\ Remaining' <= Remaining
           /\ Remaining \in Int /\ Remaining' \in Int
  BY <1>1, <1>2, <1>3
<1>4. CASE ~locked' /\ Rested'
  BY <1>2, <1>4
<1> QED
  BY <1>3, <1>4

(* A step of the background thread.                                        *)
LEMMA RefreshInv ==
  ASSUME Inv, Refresh
  PROVE  Inv'
<1> USE CacheAssumption DEF Loaded, Refreshing
<1>a. todo \subseteq Keys /\ calling \in 0 .. MaxLoad
  BY DEF Inv, TypeOK, Stored
<1>1. CASE BeginRefresh
  <2>1. Stored \subseteq Keys
    BY DEF Stored
  <2>2. WaitBounded'
    <3> DEFINE a == MaxLoad * Cardinality(Stored)
    <3>1. a \in Nat /\ MaxLoad + a <= Longest
      BY <2>1, TodoCost
    <3>2. Remaining' = a
      <4>1. todo' = Stored /\ refresher' = "visit"
        BY <1>1 DEF BeginRefresh
      <4>2. Remaining' = a + 0
        BY <4>1 DEF Remaining
      <4> HIDE DEF a
      <4> QED
        BY <4>2, <3>1
    <3> HIDE DEF a
    <3>3. pc' = pc /\ loadedAge' = loadedAge /\ ~locked /\ ~Rested /\ locked'
      BY <1>1 DEF BeginRefresh, callers, Rested, Inv, TypeOK
    <3>4. ASSUME NEW t \in Threads, pc[t] = "update" PROVE loadedAge[t] + a <= Longest
      <4>1. loadedAge[t] \in Nat /\ loadedAge[t] <= MaxLoad
        BY <3>3, <3>4, LongestBounds DEF Inv, TypeOK, WaitBounded
      <4> QED
        BY <4>1, <3>1, LongestBounds
    <3>5. \A t \in Threads : pc[t] = "return" => loadedAge[t] <= MaxLoad
      BY DEF Inv, WaitBounded
    <3> QED
      BY <3>2, <3>3, <3>4, <3>5, Zenon DEF WaitBounded
  <2>3. visiting = NoKey
    BY <1>1 DEF BeginRefresh, Inv, TypeOK
  <2> QED
    BY <1>1, <2>1, <2>2, <2>3, MapAlone DEF BeginRefresh, callers, Inv, TypeOK
<1>2. ASSUME NEW k \in Keys, Visit(k) PROVE Inv'
  <2>1. /\ locked /\ locked' /\ UNCHANGED callers
        /\ k \in todo /\ todo' = todo \ {k} /\ refresher = "visit" /\ UNCHANGED calling
        /\ refresher' \in {"visit", "load"}
    BY <1>2 DEF Visit, Inv, TypeOK
  <2>2. calling' = calling /\ (refresher' = "load" => calling' \in Nat)
    BY <2>1, <1>a
  <2>3. Remaining' <= Remaining /\ Remaining \in Int /\ Remaining' \in Int
    <3> DEFINE a == MaxLoad * Cardinality(todo)
               b == MaxLoad * Cardinality(todo \ {k})
    <3>1. a \in Nat /\ b \in Nat /\ a = b + MaxLoad
      BY <2>1, <1>a, TodoCost
    <3>2. Remaining = a + 0
      BY <2>1 DEF Remaining
    <3>3. Remaining' = b + (IF refresher' = "load" THEN MaxLoad - calling ELSE 0)
      BY <2>1 DEF Remaining
    <3> HIDE DEF a, b
    <3> QED
      BY <3>1, <3>2, <3>3, <1>a
  <2>4. WaitBounded'
    BY <2>1, <2>3, WaitsShortened
  <2> QED
    BY <1>2, <2>4, MapAlone DEF Visit, callers, Inv, TypeOK
<1>3. CASE Reload
  <2>1. /\ locked /\ locked' /\ UNCHANGED callers
        /\ refresher = "load" /\ refresher' = "store" /\ UNCHANGED <<todo, calling>>
    BY <1>3 DEF Reload, Inv, TypeOK
  <2>2. Remaining' = Remaining /\ Remaining \in Int
    <3> DEFINE a == MaxLoad * Cardinality(todo)
    <3>1. a \in Nat
      BY <1>a, TodoCost
    <3>2. Remaining = a + (MaxLoad - calling) /\ Remaining' = a + (MaxLoad - calling)
      BY <2>1 DEF Remaining
    <3> HIDE DEF a
    <3> QED
      BY <3>1, <3>2, <1>a
  <2>3. WaitBounded'
    BY <2>1, <2>2, WaitsShortened
  <2> QED
    BY <1>3, <1>a, <2>3, MapAlone DEF Reload, callers, Inv, TypeOK
<1>4. CASE Store
  <2>1. /\ visiting \in Keys /\ reloaded \in Values /\ reloadedAge \in 0 .. MaxLoad
        /\ UNCHANGED <<locked, running, callers, nap, todo, object>>
        /\ refresher = "store" /\ refresher' = "visit" /\ locked
        /\ visiting' = NoKey /\ reloaded' = NoValue /\ reloadedAge' = 0 /\ calling' = 0
        /\ cache' = [cache EXCEPT ![visiting] = [value |-> reloaded, left |-> Interval]]
        /\ age' = [age EXCEPT ![visiting] = reloadedAge]
    BY <1>4 DEF Store, Inv, TypeOK
  <2>2. /\ cache' \in [Keys -> Entries \cup {NoEntry}]
        /\ age' \in [Keys -> 0 .. Bound]
        /\ Stored \subseteq Stored'
        /\ AgesBounded'
    <3>1. reloadedAge \in 0 .. Longest
      BY <2>1, LongestBounds
    <3> QED
      BY <2>1, <3>1, WriteInv
  <2>3. Remaining' <= Remaining /\ Remaining \in Int /\ Remaining' \in Int
    <3> DEFINE a == MaxLoad * Cardinality(todo)
    <3>1. a \in Nat
      BY <1>a, TodoCost
    <3>2. Remaining = a + (MaxLoad - calling)
      BY <2>1 DEF Remaining
    <3>3. Remaining' = a + 0
      BY <2>1 DEF Remaining
    <3> HIDE DEF a
    <3> QED
      BY <3>1, <3>2, <3>3, <1>a
  <2>4. WaitBounded'
    BY <2>1, <2>3, WaitsShortened
  <2>5. todo' \subseteq Stored' /\ locked' = locked
    BY <2>1, <2>2 DEF Inv, TypeOK
  <2>6. /\ todo' = todo /\ visiting' \notin todo'
        /\ reloadedAge' \in 0 .. calling' /\ calling' \in 0 .. MaxLoad
    BY <2>1, <1>a DEF Inv, TypeOK
  <2> QED
    BY <2>1, <2>2, <2>4, <2>5, <2>6 DEF callers, Inv, TypeOK
<1>5. CASE EndRefresh
  <2>1. refresher' \in {"sleep", "gone"} /\ locked' = FALSE
    BY <1>5 DEF EndRefresh
  <2>2. locked' \in BOOLEAN /\ (locked' <=> refresher' \in {"visit", "load", "store"})
    BY <2>1
  <2>3. nap' \in 0 .. Interval
    BY <1>5 DEF EndRefresh, Inv, TypeOK
  <2>4. todo' = {} /\ visiting' = NoKey /\ reloaded' = NoValue
    BY <1>5 DEF EndRefresh, Inv, TypeOK
  <2>5. Rested'
    BY <1>5 DEF EndRefresh, Rested
  <2>6. WaitBounded'
    BY <1>5, <2>1, <2>5, WaitsShortened DEF EndRefresh
  <2> QED
    BY <1>5, <2>1, <2>2, <2>3, <2>4, <2>6, MapAlone DEF EndRefresh, callers, Inv, TypeOK
<1>6. CASE ReloadThrows
  <2>1. refresher' = "gone" /\ locked' = FALSE
    BY <1>6 DEF ReloadThrows
  <2>2. locked' \in BOOLEAN /\ (locked' <=> refresher' \in {"visit", "load", "store"})
    BY <2>1
  <2>3. nap' \in 0 .. Interval
    BY <1>6 DEF ReloadThrows, Inv, TypeOK
  <2>4. todo' = {} /\ visiting' = NoKey /\ reloaded' = NoValue
    BY <1>6 DEF ReloadThrows, Inv, TypeOK
  <2>5. WaitBounded'
    BY <1>6, <2>1, WaitsShortened DEF ReloadThrows, Rested
  <2>6. calling' = 0 /\ reloadedAge' \in 0 .. calling'
    <3>1. reloadedAge \in 0 .. calling /\ reloadedAge' = reloadedAge /\ calling' = 0
      BY <1>6 DEF ReloadThrows, Inv, TypeOK
    <3>2. reloadedAge = 0
      BY <1>6 DEF ReloadThrows, Inv, TypeOK
    <3> QED
      BY <3>1, <3>2
  <2> QED
    BY <1>6, <2>1, <2>2, <2>3, <2>4, <2>5, <2>6, MapAlone DEF ReloadThrows, callers, Inv, TypeOK
<1> QED
  BY <1>1, <1>2, <1>3, <1>4, <1>5, <1>6 DEF Refresh

(* The passing of a tick shortens every life by what it adds to every age. *)
LEMMA TickMap ==
  ASSUME Inv, Tick
  PROVE  /\ cache' \in [Keys -> Entries \cup {NoEntry}]
         /\ age' \in [Keys -> 0 .. Bound]
         /\ Stored' = Stored
         /\ \A k \in Stored : /\ cache'[k].value = cache[k].value
                              /\ cache'[k].left <= cache[k].left
         /\ AgesBounded'
<1> USE CacheAssumption
<1>1. ASSUME NEW k \in Stored
      PROVE  /\ cache'[k] \in Entries
             /\ cache'[k] # NoEntry
             /\ cache'[k].value = cache[k].value
             /\ cache'[k].left = Less(cache[k].left)
  <2>1. k \in Keys /\ cache[k] \in Entries /\ cache[k].left \in 0 .. Interval
    BY EntryFields DEF Inv
  <2>2. cache'[k] = [cache[k] EXCEPT !.left = Less(cache[k].left)]
    BY <2>1 DEF Tick
  <2>3. Less(cache[k].left) \in 0 .. Interval
    BY <2>1 DEF Less
  <2>4. cache'[k] \in Entries
    BY <2>1, <2>2, <2>3 DEF Entries
  <2> QED
    BY <2>1, <2>2, <2>4 DEF Entries
<1>2. ASSUME NEW k \in Keys \ Stored PROVE cache'[k] = NoEntry
  BY <1>2 DEF Tick
<1>3. cache' \in [Keys -> Entries \cup {NoEntry}]
  <2>1. cache' = [k \in Keys |-> cache'[k]]
    BY DEF Tick
  <2>2. \A k \in Keys : cache'[k] \in Entries \cup {NoEntry}
    BY <1>1, <1>2
  <2> QED
    BY <2>1, <2>2
<1>4. Stored' = Stored
  BY <1>1, <1>2 DEF Stored
<1>5. ASSUME NEW k \in Keys, Live(k)'
      PROVE  /\ age'[k] \in 0 .. Bound
             /\ age'[k] + cache'[k].left <= Bound
  <2>1. k \in Stored
    BY <1>4, <1>5 DEF Live
  <2>2. cache[k].left \in 0 .. Interval /\ cache'[k].left = Less(cache[k].left)
    BY <2>1, <1>1, EntryFields DEF Inv
  <2>3. cache'[k].left > 0
    BY <1>5 DEF Live
  <2>4. cache[k].left > 0 /\ cache'[k].left = cache[k].left - 1
    BY <2>2, <2>3 DEF Less
  <2>5. age[k] + cache[k].left <= Bound
    BY <2>1, <2>4 DEF Inv, AgesBounded, Live
  <2>6. age'[k] = age[k] + 1
    BY <1>5 DEF Tick
  <2>7. age[k] \in Nat /\ Bound \in Nat
    BY LongestBounds DEF Inv, TypeOK
  <2> QED
    BY <2>2, <2>4, <2>5, <2>6, <2>7
<1>6. age' \in [Keys -> 0 .. Bound]
  <2>1. \A k \in Keys : ~Live(k)' => age'[k] = 0
    BY DEF Tick
  <2>2. age' = [k \in Keys |-> age'[k]]
    BY DEF Tick
  <2>3. \A k \in Keys : age'[k] \in 0 .. Bound
    BY <1>5, <2>1, LongestBounds
  <2> QED
    BY <2>2, <2>3
<1>7. AgesBounded'
  BY <1>5 DEF AgesBounded
<1>8. \A k \in Stored : cache'[k].value = cache[k].value /\ cache'[k].left <= cache[k].left
  <2> SUFFICES ASSUME NEW k \in Stored
               PROVE  cache'[k].value = cache[k].value /\ cache'[k].left <= cache[k].left
    OBVIOUS
  <2>1. cache[k].left \in 0 .. Interval
    BY EntryFields DEF Inv
  <2> QED
    BY <2>1, <1>1 DEF Less
<1> QED
  BY <1>3, <1>4, <1>6, <1>7, <1>8

(* The passing of a tick.                                                  *)
LEMMA TickInv ==
  ASSUME Inv, Tick
  PROVE  Inv'
<1> USE CacheAssumption DEF Loaded, Refreshing
<1>1. ASSUME NEW t \in Threads
      PROVE  /\ loadedAge'[t] \in 0 .. Longest
             /\ pc[t] = "return" => loadedAge'[t] <= MaxLoad
             /\ pc[t] = "update" => locked /\ loadedAge'[t] + Remaining' <= Longest
  <2>1. loadedAge[t] \in 0 .. Longest /\ Longest \in Nat /\ MaxLoad <= Longest
    BY LongestBounds DEF Inv, TypeOK
  <2>2. loadedAge'[t] = IF Loaded(t) THEN loadedAge[t] + 1 ELSE 0
    BY DEF Tick
  <2>3. CASE pc[t] = "return"
    BY <2>1, <2>2, <2>3 DEF Tick, Punctual
  <2>4. CASE pc[t] = "update"
    <3>1. locked /\ refresher \in {"load", "store"} /\ calling < MaxLoad
      BY <2>4 DEF Tick, Punctual, Inv, TypeOK
    <3>2. loadedAge[t] + Remaining <= Longest
      BY <2>4, <3>1 DEF Inv, WaitBounded
    <3> DEFINE a == MaxLoad * Cardinality(todo)
    <3>3. a \in Nat
      BY TodoCost DEF Inv, TypeOK, Stored
    <3>4. /\ refresher' = refresher /\ todo' = todo /\ calling' = calling + 1
          /\ calling \in 0 .. MaxLoad
      BY <3>1 DEF Tick, Inv, TypeOK
    <3>5. Remaining = a + (MaxLoad - calling) /\ Remaining' = a + (MaxLoad - (calling + 1))
      BY <3>1, <3>4 DEF Remaining
    <3>6. loadedAge'[t] = loadedAge[t] + 1
      BY <2>2, <2>4
    <3> HIDE DEF a
    <3> QED
      BY <2>1, <2>4, <3>1, <3>2, <3>3, <3>4, <3>5, <3>6
  <2>5. CASE ~Loaded(t)
    BY <2>1, <2>2, <2>5
  <2> QED
    BY <2>3, <2>4, <2>5
<1>2. loadedAge' \in [Threads -> 0 .. Longest]
  <2>1. loadedAge' = [t \in Threads |-> loadedAge'[t]]
    BY DEF Tick
  <2> QED
    BY <1>1, <2>1
<1>3. nap' \in 0 .. Interval
  BY DEF Tick, Less, Inv, TypeOK
<1>4. calling' \in 0 .. MaxLoad /\ reloadedAge' \in 0 .. calling'
  BY DEF Tick, Punctual, Inv, TypeOK
<1>5. WaitBounded'
  <2>1. pc' = pc /\ locked' = locked
    BY DEF Tick
  <2> QED
    BY <1>1, <2>1, Zenon DEF WaitBounded
<1> QED
  BY <1>2, <1>3, <1>4, <1>5, TickMap DEF Tick, Inv, TypeOK

(* Every step keeps the invariant.                                         *)
LEMMA StepInv == Inv /\ [Next]_vars => Inv'
<1> SUFFICES ASSUME Inv, [Next]_vars PROVE Inv'
  OBVIOUS
<1>1. ASSUME UNCHANGED <<cache, age, locked, callers, thread>>,
             running' \in BOOLEAN, object' \in {"alive", "waiting", "destroyed"}
      PROVE  Inv'
  <2>1. WaitBounded'
    <3>1. Remaining' = Remaining /\ Rested' = Rested /\ pc' = pc /\ loadedAge' = loadedAge
      BY <1>1 DEF callers, thread, Remaining, Rested, Refreshing
    <3> QED
      BY <1>1, <3>1, Zenon DEF Inv, WaitBounded
  <2> QED
    BY <1>1, <2>1, MapAlone DEF callers, thread, Loaded, Refreshing, Inv, TypeOK
<1>2. CASE Destroy
  BY <1>1, <1>2 DEF Destroy
<1>3. CASE Destroyed
  BY <1>1, <1>3 DEF Destroyed, Inv, TypeOK
<1>4. CASE UNCHANGED vars
  BY <1>1, <1>4 DEF vars, Inv, TypeOK
<1> QED
  BY <1>2, <1>3, <1>4, GetInv, RefreshInv, TickInv DEF Next

(* The invariant holds in every state.                                     *)
LEMMA Invariance == Spec => []Inv
BY InitInv, StepInv, PTL DEF Spec

(* The map, the callers and the background thread stay well formed, and    *)
(* the mutex is held exactly while RefreshCache runs.                      *)
THEOREM TypeCorrect == Spec => []TypeOK
BY Invariance, PTL DEF Inv

-----------------------------------------------------------------------------
(* Nothing disturbs the iteration: UpdateCache waits for the mutex, Store  *)
(* writes to the entry it visits, and a tick prolongs no life.             *)
LEMMA StepUndisturbed ==
  Inv /\ [Next]_vars =>
    [locked => \A k \in Keys \ {visiting} :
                 /\ k \in Stored <=> k \in Stored'
                 /\ k \in Stored => /\ cache'[k].value = cache[k].value
                                    /\ cache'[k].left <= cache[k].left]_vars
<1> SUFFICES ASSUME Inv, [Next]_vars, locked, NEW k \in Keys \ {visiting}
             PROVE  /\ k \in Stored <=> k \in Stored'
                    /\ k \in Stored => /\ cache'[k].value = cache[k].value
                                       /\ cache'[k].left <= cache[k].left
  OBVIOUS
<1>l. k \in Stored => cache[k].left \in Nat
  BY EntryFields, CacheAssumption DEF Inv
<1>1. CASE cache' = cache
  BY <1>1, <1>l DEF Stored
<1>2. CASE Tick
  BY <1>2, TickMap
<1>3. CASE Store
  BY <1>3, <1>l DEF Store, Stored, Inv, TypeOK
<1>4. ASSUME NEW t \in Threads, Call(t) \/ Get(t) PROVE cache' = cache
  BY <1>4 DEF Call, Get, Hit, Miss, Load, LoadReturns, LoadThrows, UpdateCache
<1>5. Refresh => cache' = cache \/ Store
  BY DEF Refresh, BeginRefresh, Visit, Reload, EndRefresh, ReloadThrows
<1>6. Destroy \/ Destroyed \/ UNCHANGED vars => cache' = cache
  BY DEF Destroy, Destroyed, vars
<1> QED
  BY <1>1, <1>2, <1>3, <1>4, <1>5, <1>6 DEF Next

(* The iteration of RefreshCache is undisturbed.                           *)
THEOREM IterationSafe == Spec => IterationUndisturbed
<1>1. Inv /\ [Next]_vars =>
        [locked => \A k \in Keys \ {visiting} :
                     /\ k \in Stored <=> k \in Stored'
                     /\ k \in Stored => /\ cache'[k].value = cache[k].value
                                        /\ cache'[k].left <= cache[k].left]_vars
  BY StepUndisturbed
<1> QED
  BY <1>1, Invariance, PTL DEF Spec, IterationUndisturbed

(***************************************************************************)
(* The refinement: each step is a step of RecentReads, or a stutter.       *)
(***************************************************************************)
(* A live entry has ticks left, and its age and those are Bound at most.   *)
LEMMA LiveIsRecent ==
  ASSUME Inv, NEW k \in Keys, Live(k)
  PROVE  k \in Stored /\ age[k] < Bound
<1>1. k \in Stored /\ cache[k].left > 0
  BY DEF Live
<1>2. /\ cache[k].left \in Nat
      /\ age[k] \in Nat
      /\ age[k] + cache[k].left <= Bound
  BY <1>1, EntryFields, LongestBounds DEF Inv, TypeOK, AgesBounded
<1> QED
  BY <1>1, <1>2, LongestBounds

(* What is on its way to the map changes only with the threads that carry  *)
(* it.                                                                     *)
LEMMA LoadedKept ==
  ASSUME \A u \in Threads : Loaded(u)' <=> Loaded(u),
         \A u \in Threads : Loaded(u) =>
           /\ key'[u] = key[u]
           /\ loaded'[u] = loaded[u]
           /\ loadedAge'[u] = loadedAge[u]
  PROVE  LoadedReadings' = LoadedReadings
BY DEF LoadedReadings, Reading

LEMMA ThreadKept ==
  ASSUME UNCHANGED <<refresher, visiting, reloaded, reloadedAge>>
  PROVE  ReloadedReadings' = ReloadedReadings
BY DEF ReloadedReadings

LEMMA CallersKept ==
  ASSUME UNCHANGED callers
  PROVE  LoadedReadings' = LoadedReadings /\ UNCHANGED <<key, answer>>
BY DEF LoadedReadings, Loaded, callers

LEMMA MapKept ==
  ASSUME UNCHANGED <<cache, age>>
  PROVE  StoredReadings' = StoredReadings
BY DEF StoredReadings, Live, Stored

(* A value written to the map was a reading already, and replaces another. *)
LEMMA WriteReadings ==
  ASSUME Inv, NEW k \in Keys, NEW v \in Values, NEW n,
         cache' = [cache EXCEPT ![k] = [value |-> v, left |-> Interval]],
         age' = [age EXCEPT ![k] = n]
  PROVE  StoredReadings' \subseteq StoredReadings \cup {Reading(k, v, n)}
<1> SUFFICES ASSUME NEW l \in Keys, Live(l)'
             PROVE  Reading(l, cache[l].value, age[l])' \in StoredReadings \cup {Reading(k, v, n)}
  BY DEF StoredReadings
<1>1. CASE l = k
  BY <1>1 DEF Inv, TypeOK
<1>2. CASE l # k
  <2>1. cache'[l] = cache[l] /\ age'[l] = age[l]
    BY <1>2 DEF Inv, TypeOK
  <2>2. Live(l)
    BY <2>1 DEF Live, Stored
  <2> QED
    BY <2>1, <2>2 DEF StoredReadings, Reading
<1> QED
  BY <1>1, <1>2

-----------------------------------------------------------------------------
(* At first nothing was read and nobody asked.                             *)
LEMMA ReadsInitially == Init => Recent!ReadsInit
<1> SUFFICES ASSUME Init PROVE Recent!ReadsInit
  OBVIOUS
<1>1. StoredReadings = {}
  BY DEF Init, StoredReadings, Live, Stored
<1>2. LoadedReadings = {} /\ ReloadedReadings = {}
  BY DEF Init, LoadedReadings, Loaded, ReloadedReadings
<1> QED
  BY <1>1, <1>2 DEF Init, Recent!ReadsInit

(* A call asks, a hit and a written load answer, a loader that throws      *)
(* fails; a miss shows nothing of itself.                                  *)
LEMMA GetReads ==
  ASSUME Inv, NEW t \in Threads, Call(t) \/ Get(t)
  PROVE  Recent!ReadsNext \/ UNCHANGED Recent!reads
<1>1. CASE Call(t)
  <2>1. LoadedReadings' = LoadedReadings
    BY <1>1, LoadedKept DEF Call, Goto, Loaded, Inv, TypeOK
  <2>2. StoredReadings' = StoredReadings /\ ReloadedReadings' = ReloadedReadings
    BY <1>1, MapKept, ThreadKept DEF Call, thread
  <2>3. key[t] = NoKey
    BY <1>1 DEF Call, Goto, Inv, TypeOK
  <2>4. Recent!Ask(t)
    BY <1>1, <2>1, <2>2, <2>3 DEF Call, Recent!Ask
  <2> QED
    BY <2>4 DEF Recent!ReadsNext
<1>2. CASE Hit(t)
  <2>1. LoadedReadings' = LoadedReadings
    BY <1>2, LoadedKept DEF Hit, Returns, Goto, Loaded, Inv, TypeOK
  <2>2. StoredReadings' = StoredReadings /\ ReloadedReadings' = ReloadedReadings
    BY <1>2, MapKept, ThreadKept DEF Hit, thread
  <2> DEFINE r == Reading(key[t], cache[key[t]].value, age[key[t]])
  <2>3. key[t] \in Stored /\ age[key[t]] < Bound
    BY <1>2, LiveIsRecent DEF Hit, Live, Stored
  <2>4. r \in StoredReadings
    BY <1>2, <2>3 DEF Hit, Live, Stored, StoredReadings
  <2>5. r.key = key[t] /\ r.value = cache[key[t]].value /\ r.age = age[key[t]]
    BY DEF Reading
  <2> HIDE DEF r
  <2>6. Recent!Answer(t)
    BY <1>2, <2>1, <2>2, <2>3, <2>4, <2>5 DEF Hit, Returns, Recent!Answer
  <2> QED
    BY <2>6 DEF Recent!ReadsNext
<1>3. CASE Miss(t)
  <2>1. LoadedReadings' = LoadedReadings
    BY <1>3, LoadedKept DEF Miss, Goto, Loaded, Inv, TypeOK
  <2>2. StoredReadings' = StoredReadings /\ ReloadedReadings' = ReloadedReadings
    BY <1>3, MapKept, ThreadKept DEF Miss, thread
  <2> QED
    BY <1>3, <2>1, <2>2 DEF Miss, Recent!reads
<1>4. CASE Load(t)
  <2>1. PICK v \in Values : loaded' = [loaded EXCEPT ![t] = v]
    BY <1>4 DEF Load
  <2>2. key[t] \in Keys
    BY <1>4 DEF Load, Goto, Inv, TypeOK
  <2>3. /\ pc'[t] = "return" /\ pc[t] = "load"
        /\ key'[t] = key[t] /\ loaded'[t] = v /\ loadedAge'[t] = 0
    BY <1>4, <2>1 DEF Load, Goto, Inv, TypeOK
  <2>4. \A u \in Threads \ {t} : /\ pc'[u] = pc[u]
                                 /\ key'[u] = key[u]
                                 /\ loaded'[u] = loaded[u]
                                 /\ loadedAge'[u] = loadedAge[u]
    BY <1>4, <2>1 DEF Load, Goto, Inv, TypeOK
  <2>5. LoadedReadings' = LoadedReadings \cup {Reading(key[t], v, 0)}
    <3>1. LoadedReadings' \subseteq LoadedReadings \cup {Reading(key[t], v, 0)}
      BY <2>3, <2>4 DEF LoadedReadings, Loaded, Reading
    <3>2. Reading(key[t], v, 0) \in LoadedReadings'
      BY <2>3 DEF LoadedReadings, Loaded, Reading
    <3>3. LoadedReadings \subseteq LoadedReadings'
      BY <2>3, <2>4 DEF LoadedReadings, Loaded, Reading
    <3> QED
      BY <3>1, <3>2, <3>3
  <2>6. StoredReadings' = StoredReadings /\ ReloadedReadings' = ReloadedReadings
    BY <1>4, MapKept, ThreadKept DEF Load, thread
  <2>7. Recent!Read
    BY <1>4, <2>2, <2>5, <2>6 DEF Load, Reading, Recent!Read
  <2> QED
    BY <2>7 DEF Recent!ReadsNext
<1>5. CASE LoadThrows(t)
  <2>1. LoadedReadings' = LoadedReadings
    BY <1>5, LoadedKept DEF LoadThrows, Returns, Goto, Loaded, Inv, TypeOK
  <2>2. StoredReadings' = StoredReadings /\ ReloadedReadings' = ReloadedReadings
    BY <1>5, MapKept, ThreadKept DEF LoadThrows, thread
  <2>3. Recent!Fail(t)
    BY <1>5, <2>1, <2>2 DEF LoadThrows, Returns, Recent!Fail
  <2> QED
    BY <2>3 DEF Recent!ReadsNext
<1>6. CASE LoadReturns(t)
  <2>1. LoadedReadings' = LoadedReadings
    BY <1>6, LoadedKept DEF LoadReturns, Goto, Loaded, Inv, TypeOK
  <2>2. StoredReadings' = StoredReadings /\ ReloadedReadings' = ReloadedReadings
    BY <1>6, MapKept, ThreadKept DEF LoadReturns, thread
  <2> QED
    BY <1>6, <2>1, <2>2 DEF LoadReturns, Recent!reads
<1>7. CASE UpdateCache(t)
  <2> DEFINE r == Reading(key[t], loaded[t], loadedAge[t])
  <2>1. /\ key[t] \in Keys /\ loaded[t] \in Values /\ loadedAge[t] \in 0 .. Longest
        /\ pc[t] = "update"
    BY <1>7 DEF UpdateCache, Returns, Goto, Loaded, Inv, TypeOK
  <2>2. StoredReadings' \subseteq StoredReadings \cup {r}
    BY <1>7, <2>1, WriteReadings DEF UpdateCache
  <2>3. r \in LoadedReadings
    BY <2>1 DEF LoadedReadings, Loaded
  <2>4. /\ pc'[t] = "idle"
        /\ \A u \in Threads \ {t} : /\ pc'[u] = pc[u]
                                    /\ key'[u] = key[u]
                                    /\ loaded'[u] = loaded[u]
                                    /\ loadedAge'[u] = loadedAge[u]
    BY <1>7 DEF UpdateCache, Returns, Goto, Inv, TypeOK
  <2>5. LoadedReadings' \subseteq LoadedReadings
    BY <2>4 DEF LoadedReadings, Loaded, Reading
  <2>6. ReloadedReadings' = ReloadedReadings
    BY <1>7, ThreadKept DEF UpdateCache, thread
  <2>7. r.key = key[t] /\ r.value = loaded[t] /\ r.age = loadedAge[t]
    BY DEF Reading
  <2>8. loadedAge[t] < Bound
    BY <2>1, LongestBounds
  <2> HIDE DEF r
  <2>9. Recent!Answer(t)
    BY <1>7, <2>2, <2>3, <2>5, <2>6, <2>7, <2>8 DEF UpdateCache, Returns, Recent!Answer
  <2> QED
    BY <2>9 DEF Recent!ReadsNext
<1> QED
  BY <1>1, <1>2, <1>3, <1>4, <1>5, <1>6, <1>7 DEF Get

(* The background thread reads, and its writes forget what they replace.   *)
LEMMA RefreshReads ==
  ASSUME Inv, Refresh
  PROVE  Recent!ReadsNext \/ UNCHANGED Recent!reads
<1>0. Refresh => UNCHANGED callers
  BY DEF Refresh, BeginRefresh, Visit, Reload, Store, EndRefresh, ReloadThrows
<1>c. LoadedReadings' = LoadedReadings /\ UNCHANGED <<key, answer>>
  BY <1>0, CallersKept
<1>1. CASE Reload
  <2>1. StoredReadings' = StoredReadings
    BY <1>1, MapKept DEF Reload
  <2>2. visiting \in Keys /\ reloaded' \in Values
    BY <1>1 DEF Reload, Refreshing, Inv, TypeOK
  <2>3. ReloadedReadings = {} /\ ReloadedReadings' = {Reading(visiting, reloaded', 0)}
    BY <1>1 DEF Reload, ReloadedReadings, Reading
  <2>4. Recent!Read
    BY <1>c, <2>1, <2>2, <2>3 DEF Reading, Recent!Read
  <2> QED
    BY <2>4 DEF Recent!ReadsNext
<1>2. CASE Store
  <2>1. visiting \in Keys /\ reloaded \in Values /\ refresher = "store" /\ refresher' = "visit"
    BY <1>2 DEF Store, Refreshing, Inv, TypeOK
  <2>2. StoredReadings' \subseteq StoredReadings \cup {Reading(visiting, reloaded, reloadedAge)}
    BY <1>2, <2>1, WriteReadings DEF Store
  <2>3. /\ ReloadedReadings = {Reading(visiting, reloaded, reloadedAge)}
        /\ ReloadedReadings' = {}
    BY <2>1 DEF ReloadedReadings
  <2>4. Recent!Forget
    BY <1>c, <2>2, <2>3 DEF Recent!Forget
  <2> QED
    BY <2>4 DEF Recent!ReadsNext
<1>3. ASSUME BeginRefresh \/ (\E k \in Keys : Visit(k)) \/ EndRefresh \/ ReloadThrows
      PROVE  UNCHANGED Recent!reads
  <2>1. StoredReadings' = StoredReadings
    BY <1>3, MapKept DEF BeginRefresh, Visit, EndRefresh, ReloadThrows
  <2>2. refresher # "store" /\ refresher' # "store"
    BY <1>3 DEF BeginRefresh, Visit, EndRefresh, ReloadThrows
  <2>3. ReloadedReadings' = ReloadedReadings
    BY <2>2 DEF ReloadedReadings
  <2> QED
    BY <1>c, <2>1, <2>3 DEF Recent!reads
<1> QED
  BY <1>1, <1>2, <1>3 DEF Refresh

(* A tick makes every reading one tick older, wherever it is.              *)
LEMMA TickReads ==
  ASSUME Inv, Tick
  PROVE  Recent!ReadsNext
<1>1. ASSUME NEW k, NEW v, NEW n
      PROVE  Recent!Older(Reading(k, v, n)) = Reading(k, v, n + 1)
  BY DEF Recent!Older, Reading
<1>2. StoredReadings' \subseteq {Recent!Older(r) : r \in StoredReadings}
  <2> SUFFICES ASSUME NEW k \in Keys, Live(k)'
               PROVE  Reading(k, cache'[k].value, age'[k])
                        \in {Recent!Older(r) : r \in StoredReadings}
    BY DEF StoredReadings
  <2>1. k \in Stored /\ cache'[k].value = cache[k].value /\ age'[k] = age[k] + 1
    BY TickMap DEF Tick, Live
  <2>2. Live(k)
    <3>1. cache'[k].left > 0 /\ cache'[k].left = Less(cache[k].left)
      <4>1. cache[k] \in Entries /\ cache'[k] = [cache[k] EXCEPT !.left = Less(cache[k].left)]
        BY <2>1, EntryFields DEF Tick, Inv
      <4> QED
        BY <4>1 DEF Live, Entries
    <3>2. cache[k].left \in 0 .. Interval
      BY <2>1, EntryFields DEF Inv
    <3> QED
      BY <2>1, <3>1, <3>2, CacheAssumption DEF Less, Live
  <2>3. Reading(k, cache'[k].value, age'[k]) = Recent!Older(Reading(k, cache[k].value, age[k]))
    BY <1>1, <2>1
  <2>4. Reading(k, cache[k].value, age[k]) \in StoredReadings
    BY <2>2 DEF StoredReadings
  <2> HIDE DEF Recent!Older
  <2> QED
    BY <2>3, <2>4
<1>3. LoadedReadings' = {Recent!Older(r) : r \in LoadedReadings}
  <2> DEFINE W == {u \in Threads : Loaded(u)}
  <2>1. \A u \in W : key'[u] = key[u] /\ loaded'[u] = loaded[u] /\ loadedAge'[u] = loadedAge[u] + 1
    BY DEF Tick
  <2>2. \A u \in W : Reading(key'[u], loaded'[u], loadedAge'[u])
                       = Recent!Older(Reading(key[u], loaded[u], loadedAge[u]))
    BY <1>1, <2>1
  <2>3. LoadedReadings' = {Reading(key'[u], loaded'[u], loadedAge'[u]) : u \in W}
    BY DEF LoadedReadings, Loaded, Tick
  <2>4. LoadedReadings = {Reading(key[u], loaded[u], loadedAge[u]) : u \in W}
    BY DEF LoadedReadings
  <2> HIDE DEF W
  <2> QED
    BY <2>2, <2>3, <2>4
<1>4. ReloadedReadings' = {Recent!Older(r) : r \in ReloadedReadings}
  <2>1. CASE refresher = "store"
    <3>2. reloadedAge' = reloadedAge + 1
      BY <2>1 DEF Tick
    <3>3. ReloadedReadings' = {Recent!Older(Reading(visiting, reloaded, reloadedAge))}
      BY <1>1, <2>1, <3>2 DEF Tick, ReloadedReadings
    <3> QED
      BY <2>1, <3>3 DEF ReloadedReadings
  <2>2. CASE refresher # "store"
    BY <2>2 DEF Tick, ReloadedReadings
  <2> QED
    BY <2>1, <2>2
<1>5. Recent!Age
  BY <1>2, <1>3, <1>4 DEF Tick, Recent!Age
<1> QED
  BY <1>5 DEF Recent!ReadsNext

(* CacheManager implements the abstract cache: every answer is a reading   *)
(* of the key asked that is younger than an interval, one load and the     *)
(* loads of a whole refresh, for any number of callers, keys, values and   *)
(* ticks.                                                                  *)
THEOREM Refinement == Spec => ImplementsRecentReads
<1>1. Inv /\ [Next]_vars => [Recent!ReadsNext]_(Recent!reads)
  <2> SUFFICES ASSUME Inv, [Next]_vars
               PROVE  Recent!ReadsNext \/ UNCHANGED Recent!reads
    OBVIOUS
  <2>1. CASE Destroy \/ Destroyed \/ UNCHANGED vars
    <3>1. UNCHANGED <<cache, age, callers, refresher, visiting, reloaded, reloadedAge>>
      BY <2>1 DEF Destroy, Destroyed, vars, thread
    <3> QED
      BY <3>1, MapKept, CallersKept, ThreadKept DEF Recent!reads
  <2> QED
    BY <2>1, GetReads, RefreshReads, TickReads DEF Next
<1> QED
  BY <1>1, ReadsInitially, Invariance, PTL DEF Spec, ImplementsRecentReads, Recent!ReadsSpec

=============================================================================
