---------------------------- MODULE CacheManager ----------------------------
(***************************************************************************)
(* CacheManager (include/cache_manager.hpp): a map of values that expire,  *)
(* filled by the callers of Get and refreshed by a background thread, under*)
(* a shared_mutex.                                                         *)
(*                                                                         *)
(* The lookup of Get and the body of UpdateCache wait for nothing once     *)
(* they have the mutex, so each is one step; RefreshCache keeps the mutex  *)
(* while it calls the loader, so `locked' says when it has it.  A loader   *)
(* is called at one moment, reads its source at a later one and returns at *)
(* a third, and what it returned may then have to wait for the mutex.      *)
(* Nothing in src/ calls the class yet; the callers are any threads.       *)
(*                                                                         *)
(* Time is relative: an entry keeps the ticks it still has to live.        *)
(***************************************************************************)
EXTENDS Naturals, FiniteSets

CONSTANTS
  Threads,     \* callers of Get
  Keys,
  Values,
  Throws,      \* keys the loader may fail for
  Interval,    \* refresh_interval_, in ticks
  MaxLoad,     \* ticks a call of the loader takes at most
  NoEntry, NoKey, NoValue

ASSUME CacheAssumption ==
  /\ IsFiniteSet(Keys)
  /\ Throws \subseteq Keys
  /\ Interval \in Nat \ {0}
  /\ MaxLoad \in Nat
  /\ NoKey \notin Keys /\ NoValue \notin Values
  /\ NoEntry \notin [value : Values, left : 0 .. Interval]

VARIABLES
  cache,       \* cache_: for each key a value and the ticks until it expires
  locked,      \* RefreshCache has the mutex
  running,     \* running_
  pc, key, loaded,         \* each caller, its key, and what its loader returned
  refresher, nap,          \* the background thread, and the ticks it sleeps on
  todo, visiting, reloaded,  \* keys its loop has still to visit, and its reload
  calling,     \* ticks its call of the loader has taken
  object,      \* the cache is alive, in its destructor, or destroyed
  (* History: ticks since the source was read, for each value that may     *)
  (* still be an answer, and what each caller got from its last call.      *)
  age, loadedAge, reloadedAge, answer

callers == <<pc, key, loaded, loadedAge, answer>>
thread == <<refresher, nap, todo, visiting, reloaded, reloadedAge, calling>>
vars == <<cache, age, locked, running, callers, thread, object>>

Entries == [value : Values, left : 0 .. Interval]
Stored == {k \in Keys : cache[k] # NoEntry}
Live(k) == k \in Stored /\ cache[k].left > 0

(* The constructor starts the thread, which goes to sleep first.           *)
Init ==
  /\ cache = [k \in Keys |-> NoEntry]
  /\ age = [k \in Keys |-> 0]
  /\ locked = FALSE
  /\ running = TRUE
  /\ pc = [t \in Threads |-> "idle"]
  /\ key = [t \in Threads |-> NoKey]
  /\ loaded = [t \in Threads |-> NoValue]
  /\ loadedAge = [t \in Threads |-> 0]
  /\ answer = [t \in Threads |-> NoValue]
  /\ refresher = "sleep" /\ nap = Interval
  /\ todo = {} /\ visiting = NoKey /\ reloaded = NoValue
  /\ reloadedAge = 0 /\ calling = 0
  /\ object = "alive"

-----------------------------------------------------------------------------
(***************************************************************************)
(* Get.                                                                    *)
(***************************************************************************)
Goto(t, from, to) ==
  /\ pc[t] = from
  /\ pc' = [pc EXCEPT ![t] = to]

Call(t) ==
  \E k \in Keys :
    /\ object = "alive"
    /\ Goto(t, "idle", "find")
    /\ key' = [key EXCEPT ![t] = k]
    /\ answer' = [answer EXCEPT ![t] = NoValue]
    /\ UNCHANGED <<cache, age, locked, running, loaded, loadedAge, thread,
                   object>>

Returns(t, from, v) ==
  /\ Goto(t, from, "idle")
  /\ answer' = [answer EXCEPT ![t] = v]
  /\ key' = [key EXCEPT ![t] = NoKey]
  /\ loaded' = [loaded EXCEPT ![t] = NoValue]
  /\ loadedAge' = [loadedAge EXCEPT ![t] = 0]

(* Mutation: an entry is returned whatever its age.                        *)
HitAny(t) ==
  /\ ~locked
  /\ key[t] \in Stored
  /\ Returns(t, "find", cache[key[t]].value)
  /\ UNCHANGED <<cache, age, locked, running, thread, object>>

Hit(t) ==
  /\ ~locked
  /\ Live(key[t])
  /\ Returns(t, "find", cache[key[t]].value)
  /\ UNCHANGED <<cache, age, locked, running, thread, object>>

(* The shared lock is given back before the loader is called.              *)
Miss(t) ==
  /\ ~locked
  /\ ~Live(key[t])
  /\ Goto(t, "find", "load")
  /\ UNCHANGED <<cache, age, locked, running, key, loaded, loadedAge, answer,
                 thread, object>>

(* The loader reads the source.                                            *)
Load(t) ==
  /\ Goto(t, "load", "return")
  /\ \E v \in Values : loaded' = [loaded EXCEPT ![t] = v]
  /\ loadedAge' = [loadedAge EXCEPT ![t] = 0]
  /\ UNCHANGED <<cache, age, locked, running, key, answer, thread, object>>

(* It returns, and UpdateCache asks for the mutex.                         *)
LoadReturns(t) ==
  /\ Goto(t, "return", "update")
  /\ UNCHANGED <<cache, age, locked, running, key, loaded, loadedAge, answer,
                 thread, object>>

(* The exception of the loader reaches the caller of Get.                  *)
LoadThrows(t) ==
  /\ key[t] \in Throws
  /\ Returns(t, "load", NoValue)
  /\ UNCHANGED <<cache, age, locked, running, thread, object>>

(* Mutation: the map is written without the mutex.                         *)
UpdateUnlocked(t) ==
  /\ Returns(t, "update", loaded[t])
  /\ cache' = [cache EXCEPT ![key[t]] = [value |-> loaded[t], left |-> Interval]]
  /\ age' = [age EXCEPT ![key[t]] = loadedAge[t]]
  /\ UNCHANGED <<locked, running, thread, object>>

(* Whatever was stored meanwhile is overwritten.                           *)
UpdateCache(t) ==
  /\ ~locked
  /\ Returns(t, "update", loaded[t])
  /\ cache' = [cache EXCEPT ![key[t]] = [value |-> loaded[t], left |-> Interval]]
  /\ age' = [age EXCEPT ![key[t]] = loadedAge[t]]
  /\ UNCHANGED <<locked, running, thread, object>>

-----------------------------------------------------------------------------
(***************************************************************************)
(* The background thread.                                                  *)
(***************************************************************************)
(* sleep_for is over, and RefreshCache takes the mutex.                    *)
BeginRefresh ==
  /\ refresher = "sleep" /\ nap = 0
  /\ refresher' = "visit"
  /\ locked' = TRUE
  /\ todo' = Stored
  /\ UNCHANGED <<cache, age, running, callers, nap, visiting, reloaded,
                 reloadedAge, calling, object>>

(* The loop meets the keys in any order, and passes over live entries.     *)
Visit(k) ==
  /\ refresher = "visit"
  /\ k \in todo
  /\ todo' = todo \ {k}
  /\ \/ /\ Live(k)
        /\ UNCHANGED <<refresher, visiting>>
     \/ /\ ~Live(k)
        /\ refresher' = "load"
        /\ visiting' = k
  /\ UNCHANGED <<cache, age, locked, running, callers, nap, reloaded,
                 reloadedAge, calling, object>>

Reload ==
  /\ refresher = "load"
  /\ refresher' = "store"
  /\ reloaded' \in Values /\ reloadedAge' = 0
  /\ UNCHANGED <<cache, age, locked, running, callers, nap, todo, visiting,
                 calling, object>>

(* Mutation: the expiry time is left alone.                                *)
StoreValueOnly ==
  /\ refresher = "store"
  /\ refresher' = "visit"
  /\ cache' = [cache EXCEPT ![visiting].value = reloaded]
  /\ age' = [age EXCEPT ![visiting] = reloadedAge]
  /\ visiting' = NoKey /\ reloaded' = NoValue /\ reloadedAge' = 0 /\ calling' = 0
  /\ UNCHANGED <<locked, running, callers, nap, todo, object>>

Store ==
  /\ refresher = "store"
  /\ refresher' = "visit"
  /\ cache' = [cache EXCEPT ![visiting] = [value |-> reloaded, left |-> Interval]]
  /\ age' = [age EXCEPT ![visiting] = reloadedAge]
  /\ visiting' = NoKey /\ reloaded' = NoValue /\ reloadedAge' = 0 /\ calling' = 0
  /\ UNCHANGED <<locked, running, callers, nap, todo, object>>

(* Mutation: the loop starts over with keys left.                          *)
EndRefreshEarly ==
  /\ refresher = "visit"
  /\ locked' = FALSE
  /\ IF running THEN refresher' = "sleep" /\ nap' = Interval
                ELSE refresher' = "gone" /\ UNCHANGED nap
  /\ UNCHANGED <<cache, age, running, callers, todo, visiting, reloaded,
                 reloadedAge, calling, object>>

(* RefreshCache gives the mutex back, and RefreshLoop tests running_.      *)
EndRefresh ==
  /\ refresher = "visit" /\ todo = {}
  /\ locked' = FALSE
  /\ IF running THEN refresher' = "sleep" /\ nap' = Interval
                ELSE refresher' = "gone" /\ UNCHANGED nap
  /\ UNCHANGED <<cache, age, running, callers, todo, visiting, reloaded,
                 reloadedAge, calling, object>>

(* Mutation: the mutex is not given back.                                  *)
ReloadThrowsLocked ==
  /\ refresher = "load"
  /\ visiting \in Throws
  /\ refresher' = "gone"
  /\ todo' = {} /\ visiting' = NoKey /\ calling' = 0
  /\ UNCHANGED <<cache, age, locked, running, callers, nap, reloaded,
                 reloadedAge, object>>

(* The exception of the loader leaves RefreshCache, which gives the mutex  *)
(* back, and ends in the future: the thread is gone.                       *)
ReloadThrows ==
  /\ refresher = "load"
  /\ visiting \in Throws
  /\ refresher' = "gone"
  /\ locked' = FALSE
  /\ todo' = {} /\ visiting' = NoKey /\ calling' = 0
  /\ UNCHANGED <<cache, age, running, callers, nap, reloaded, reloadedAge,
                 object>>

-----------------------------------------------------------------------------
(***************************************************************************)
(* The destructor.  It may only run when no caller uses the cache.         *)
(***************************************************************************)
(* Mutation: the thread is not told.                                       *)
DestroyUntold ==
  /\ object = "alive"
  /\ \A t \in Threads : pc[t] = "idle"
  /\ object' = "waiting"
  /\ UNCHANGED <<cache, age, locked, running, callers, thread>>

Destroy ==
  /\ object = "alive"
  /\ \A t \in Threads : pc[t] = "idle"
  /\ object' = "waiting"
  /\ running' = FALSE
  /\ UNCHANGED <<cache, age, locked, callers, thread>>

(* refresh_thread_.wait() returns however the thread ended.                *)
Destroyed ==
  /\ object = "waiting"
  /\ refresher = "gone"
  /\ object' = "destroyed"
  /\ UNCHANGED <<cache, age, locked, running, callers, thread>>

-----------------------------------------------------------------------------
(***************************************************************************)
(* Time.                                                                   *)
(***************************************************************************)
Less(ticks) == IF ticks > 0 THEN ticks - 1 ELSE 0

(* What a caller loaded is MaxLoad old at most when UpdateCache asks for   *)
(* the mutex, and RefreshCache may then keep the mutex over a call of the  *)
(* loader for every key.                                                   *)
Longest == MaxLoad * (1 + Cardinality(Keys))

(* So no answer is as old as this.                                         *)
Bound == Interval + Longest

Refreshing == refresher \in {"load", "store"}

(* What is assumed of the environment: a call of the loader takes MaxLoad  *)
(* ticks at most, and a thread that waits for nothing takes its next step  *)
(* within a tick.  How long a caller waits for the mutex is not assumed.   *)
Punctual ==
  /\ \A t \in Threads : pc[t] = "return" => loadedAge[t] < MaxLoad
  /\ \A t \in Threads : pc[t] = "update" => locked
  /\ refresher # "visit"
  /\ Refreshing => calling < MaxLoad

Loaded(t) == pc[t] \in {"return", "update"}

Tick ==
  /\ Punctual
  /\ cache' = [k \in Keys |-> IF k \in Stored
                              THEN [cache[k] EXCEPT !.left = Less(@)] ELSE NoEntry]
  /\ age' = [k \in Keys |-> IF Live(k)' THEN age[k] + 1 ELSE 0]
  /\ loadedAge' = [t \in Threads |-> IF Loaded(t) THEN loadedAge[t] + 1 ELSE 0]
  /\ reloadedAge' = IF refresher = "store" THEN reloadedAge + 1 ELSE 0
  /\ calling' = IF Refreshing THEN calling + 1 ELSE 0
  /\ nap' = Less(nap)
  /\ UNCHANGED <<locked, running, pc, key, loaded, answer, refresher, todo,
                 visiting, reloaded, object>>

-----------------------------------------------------------------------------
Get(t) ==
  \/ Hit(t)
  \/ Miss(t)
  \/ Load(t)
  \/ LoadReturns(t)
  \/ LoadThrows(t)
  \/ UpdateCache(t)

Refresh ==
  \/ BeginRefresh
  \/ \E k \in Keys : Visit(k)
  \/ Reload
  \/ Store
  \/ EndRefresh
  \/ ReloadThrows

Next ==
  \/ \E t \in Threads : Call(t) \/ Get(t)
  \/ Refresh
  \/ Destroy
  \/ Destroyed
  \/ Tick

Spec == Init /\ [][Next]_vars

(* Time goes on whatever the threads do, threads are scheduled and loaders *)
(* return or throw.  A caller that waits for the mutex gets it, because    *)
(* the background thread sleeps for a whole interval between two uses.     *)
FairSpec ==
  /\ Spec
  /\ SF_vars(Tick)
  /\ WF_vars(Refresh)
  /\ WF_vars(Destroyed)
  /\ \A t \in Threads : SF_vars(Get(t))

-----------------------------------------------------------------------------
(***************************************************************************)
(* Properties.                                                             *)
(***************************************************************************)
(* Every variable has its type; the background thread holds the mutex      *)
(* exactly while it is in RefreshCache, and leaves no key unvisited.       *)
TypeOK ==
  /\ cache \in [Keys -> Entries \cup {NoEntry}]
  /\ age \in [Keys -> 0 .. Bound]
  /\ running \in BOOLEAN
  /\ pc \in [Threads -> {"idle", "find", "load", "return", "update"}]
  /\ key \in [Threads -> Keys \cup {NoKey}]
  /\ loaded \in [Threads -> Values \cup {NoValue}]
  /\ loadedAge \in [Threads -> 0 .. Longest]
  /\ answer \in [Threads -> Values \cup {NoValue}]
  /\ \A t \in Threads : /\ pc[t] # "idle" <=> key[t] # NoKey
                        /\ Loaded(t) <=> loaded[t] # NoValue
  /\ refresher \in {"sleep", "visit", "load", "store", "gone"}
  /\ locked \in BOOLEAN
  /\ locked <=> refresher \in {"visit", "load", "store"}
  /\ nap \in 0 .. Interval
  /\ todo \subseteq Stored
  /\ ~locked => todo = {}
  /\ visiting \in Keys \cup {NoKey}
  /\ visiting \notin todo
  /\ Refreshing <=> visiting # NoKey
  /\ refresher = "store" <=> reloaded # NoValue
  /\ reloaded \in Values \cup {NoValue}
  /\ calling \in 0 .. MaxLoad
  /\ reloadedAge \in 0 .. calling
  /\ refresher # "store" => reloadedAge = 0
  /\ object \in {"alive", "waiting", "destroyed"}

(* While RefreshCache iterates over the map, no other thread adds a key to *)
(* it, gives an entry a value or prolongs its life: an insertion would     *)
(* invalidate the iterator (UpdateCache and RefreshCache take the mutex).  *)
IterationUndisturbed ==
  [][locked => \A k \in Keys \ {visiting} :
                 /\ k \in Stored <=> k \in Stored'
                 /\ k \in Stored => /\ cache'[k].value = cache[k].value
                                    /\ cache'[k].left <= cache[k].left]_vars

(* The readings about: those stored that have not expired, and those on    *)
(* their way to the map.                                                   *)
Reading(k, v, ticks) == [key |-> k, value |-> v, age |-> ticks]

StoredReadings == {Reading(k, cache[k].value, age[k]) : k \in {l \in Keys : Live(l)}}

LoadedReadings ==
  {Reading(key[t], loaded[t], loadedAge[t]) : t \in {u \in Threads : Loaded(u)}}

ReloadedReadings ==
  IF refresher = "store" THEN {Reading(visiting, reloaded, reloadedAge)} ELSE {}

(* What the callers rely on, stated without map, mutex or expiry times.    *)
Recent == INSTANCE RecentReads WITH
            readings <- StoredReadings \cup LoadedReadings \cup ReloadedReadings,
            asked <- key

(* An answer is a value the source gave for the key asked less than an     *)
(* interval and one load for each key and one more ago, whichever thread   *)
(* loaded it, in whatever order two loads of one key are written back, and *)
(* however long UpdateCache waits for the mutex; and Get throws only for a *)
(* key whose loader does.                                                  *)
ImplementsRecentReads == Recent!ReadsSpec

(* Get returns, though the background thread holds the mutex while it      *)
(* loads, and even if it dies from an exception.                           *)
GetReturns == \A t \in Threads : pc[t] # "idle" ~> pc[t] = "idle"

(* An entry that has expired is loaded again without any call of Get, for  *)
(* as long as the background thread lives.                                 *)
ExpiredIsReloaded ==
  \A k \in Keys : k \in Stored /\ ~Live(k) ~> Live(k) \/ refresher = "gone"

(* The destructor returns, also when the thread is asleep or has died.     *)
DestructorReturns == object = "waiting" ~> object = "destroyed"

=============================================================================
