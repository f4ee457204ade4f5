------------------------ MODULE TracerServiceProofs ------------------------
(***************************************************************************)
(* Proofs about TracerService, for any number of threads, requests and     *)
(* days and any hash.                                                      *)
(***************************************************************************)
EXTENDS TracerService, TLAPS

USE DEF process, leveldb, redis, jobs, history, vars

LEMMA HashType == \A p \in Payloads : Hash(p) \in Ids
BY DEF Ids

(* Every value a query yields is a request of the protocol.                *)
LEMMA ExtractType ==
  ASSUME NEW q \in Queries, Extracts(q)
  PROVE  extract2TracerReqProto(q) \in Payloads
<1>1. q \in Query
  BY ServiceAssumption
<1>2. ActionOf(q) \in VALID_ACTIONTYPE_VALUES
  BY DEF Extracts, ActionOf, StringToEnum
<1>3. q.action_id \in ActionIds
  BY <1>1 DEF Extracts, Query
<1> QED
  BY <1>2, <1>3 DEF extract2TracerReqProto, Payloads

THEOREM InitInv == Init => IInv
<1> SUFFICES ASSUME Init PROVE IInv
  OBVIOUS
<1>1. db = [k \in Ids |-> NoValue] /\ versions = {db}
  BY DEF Init, LevelDB!OpenEmpty
<1>2. entries = [k \in Ids |-> NoEntry] /\ day = 0
  BY DEF Init, Redis!ServerEmpty
<1>3. TypeOK
  <2>1. LevelDB!StoreTypeOK
    BY <1>1 DEF LevelDB!StoreTypeOK, LevelDB!Contents
  <2>2. Redis!RedisTypeOK
    BY <1>2, ServiceAssumption DEF Init, Redis!RedisTypeOK, Redis!Contexts
  <2>3. \A w \in Workers : pc[w] = "idle"
    BY DEF Init
  <2>4. JobsOK
    BY <2>3 DEF Init, JobsOK, Stages, TracerStages, StoredStages, CallbackStages,
       Optional
  <2>5. HistoryOK
    <3>1. forwarded = {} /\ owed = {} /\ durable = {} /\ accepted = {}
      BY DEF Init
    <3>2. powerLost \in BOOLEAN
      BY DEF Init
    <3> QED
      BY <3>1, <3>2 DEF HistoryOK
  <2> QED
    BY <2>1, <2>2, <2>4, <2>5 DEF Init, TypeOK
<1>4. Addressed /\ StageStored
  BY <1>1 DEF Init, Addressed, StageStored, StoredStages
<1> QED
  BY <1>2, <1>3, <1>4
  DEF Init, IInv, AckedIsStored, SyncedAckIsStored, ForwardedIsStored,
      CachedIsStored, Redis!Cached

(***************************************************************************)
(* What the steps do to the parts of the state.                            *)
(***************************************************************************)
LEMMA PutType ==
  ASSUME LevelDB!StoreTypeOK, NEW p \in Payloads, LevelDB!Put(Hash(p), p)
  PROVE  LevelDB!StoreTypeOK'
BY HashType DEF LevelDB!StoreTypeOK, LevelDB!Contents, LevelDB!Put, LevelDB!Commit

LEMMA EntryType ==
  ASSUME Redis!RedisTypeOK, NEW p \in Payloads
  PROVE  Redis!EntryFor(CString(p), 3 * Redis!ONE_DAY) \in Redis!Entries
BY ServiceAssumption
DEF Redis!RedisTypeOK, Redis!EntryFor, Redis!ONE_DAY, Redis!Never, Redis!Entries

LEMMA SetType ==
  ASSUME Redis!RedisTypeOK, UNCHANGED day, NEW p \in Payloads,
         Redis!Set(Hash(p), CString(p), 3 * Redis!ONE_DAY)
  PROVE  Redis!RedisTypeOK'
BY HashType, EntryType DEF Redis!RedisTypeOK, Redis!Set, Redis!Contexts

LEMMA TickType ==
  ASSUME Redis!RedisTypeOK, UNCHANGED context, Redis!Tick
  PROVE  Redis!RedisTypeOK'
BY ServiceAssumption DEF Redis!RedisTypeOK, Redis!Tick

(* A step of one worker that moves it to a stage it has the request for.   *)
LEMMA ContinueJobs ==
  ASSUME JobsOK, UNCHANGED up, NEW w \in Workers, NEW from, NEW to \in Stages,
         Continue(w, from, to), from # "idle",
         to \in TracerStages => from \in TracerStages,
         to \in CallbackStages => from \in CallbackStages
  PROVE  JobsOK'
BY DEF JobsOK, Continue, Goto

LEMMA FinishJobs ==
  ASSUME JobsOK, UNCHANGED up, NEW w \in Workers, NEW from, Finish(w, from)
  PROVE  JobsOK'
<1>1. pc' \in [Workers -> Stages]
  BY DEF JobsOK, Finish, Goto, Stages
<1>2. /\ payload' \in [Workers -> Optional(Payloads, NoPayload)]
      /\ id' \in [Workers -> Optional(Ids \cup {ConfigKey}, NoId)]
  BY DEF JobsOK, Finish, Optional
<1>3. "idle" \notin TracerStages /\ "idle" \notin CallbackStages
  BY DEF TracerStages, StoredStages, CallbackStages
<1> QED
  BY <1>1, <1>2, <1>3 DEF JobsOK, Finish, Goto

LEMMA StopJobs ==
  ASSUME StopProcess
  PROVE  JobsOK'
<1>1. /\ pc' \in [Workers -> Stages]
      /\ payload' \in [Workers -> Optional(Payloads, NoPayload)]
      /\ id' \in [Workers -> Optional(Ids \cup {ConfigKey}, NoId)]
  BY DEF StopProcess, Stages, Optional
<1>2. "idle" \notin TracerStages /\ "idle" \notin CallbackStages
  BY DEF TracerStages, StoredStages, CallbackStages
<1> QED
  BY <1>1, <1>2 DEF JobsOK, StopProcess

(***************************************************************************)
(* Type correctness.                                                       *)
(***************************************************************************)
LEMMA HandlerType ==
  ASSUME TypeOK, NEW w \in Workers, ReceiveTracer(w) \/ ReceiveCallback(w) \/ Step(w)
  PROVE  TypeOK'
<1> USE DEF TypeOK
<1>s. /\ {"put", "cache", "config", "forward", "reply", "lookup", "found", "thrown"}
           \subseteq Stages
      /\ {"put", "cache", "config", "forward", "reply"} \subseteq TracerStages
      /\ {"lookup", "found"} \subseteq CallbackStages
      /\ {"lookup", "found", "thrown", "idle"} \cap TracerStages = {}
      /\ {"put", "cache", "config", "forward", "reply", "thrown", "idle"}
           \cap CallbackStages = {}
  BY DEF Stages, TracerStages, StoredStages, CallbackStages
<1>p. pc[w] \in TracerStages => payload[w] \in Payloads
  BY DEF JobsOK, Optional
<1>k. pc[w] \in CallbackStages => id[w] \in Ids \cup {ConfigKey}
  BY DEF JobsOK, Optional
<1>0. UNCHANGED redis /\ UNCHANGED day => UNCHANGED <<context, entries, day>>
  BY DEF redis
<1>1. CASE ReceiveTracer(w)
  <2>1. PICK q \in Queries :
          /\ up
          /\ \/ /\ Extracts(q)
                /\ Goto(w, "idle", "put")
                /\ payload' = [payload EXCEPT ![w] = extract2TracerReqProto(q)]
             \/ /\ ~Extracts(q)
                /\ Goto(w, "idle", "thrown")
                /\ UNCHANGED payload
          /\ UNCHANGED <<process, leveldb, redis, day, id, history>>
    BY <1>1 DEF ReceiveTracer
  <2>2. JobsOK'
    <3>1. CASE Extracts(q)
      <4>1. extract2TracerReqProto(q) \in Payloads
        BY <3>1, ExtractType
      <4> QED
        BY <2>1, <3>1, <4>1, <1>s, ServiceAssumption DEF JobsOK, Goto, Optional
    <3>2. CASE ~Extracts(q)
      BY <2>1, <3>2, <1>s DEF JobsOK, Goto
    <3> QED
      BY <3>1, <3>2
  <2> QED
    BY <2>1, <2>2 DEF LevelDB!StoreTypeOK, Redis!RedisTypeOK, HistoryOK
<1>2. CASE ReceiveCallback(w)
  <2>1. PICK c \in Callbacks :
          /\ up
          /\ \/ /\ ExtractsCallback(c)
                /\ Goto(w, "idle", "lookup")
                /\ id' = [id EXCEPT ![w] = c.id]
             \/ /\ ~ExtractsCallback(c)
                /\ Goto(w, "idle", "thrown")
                /\ UNCHANGED id
          /\ UNCHANGED <<process, leveldb, redis, day, payload, history>>
    BY <1>2 DEF ReceiveCallback
  <2>2. JobsOK'
    <3>1. CASE ExtractsCallback(c)
      <4>1. c.id \in Ids \cup {ConfigKey}
        BY <3>1, ServiceAssumption DEF ExtractsCallback, Callback
      <4> QED
        BY <2>1, <3>1, <4>1, <1>s, ServiceAssumption DEF JobsOK, Goto, Optional
    <3>2. CASE ~ExtractsCallback(c)
      BY <2>1, <3>2, <1>s DEF JobsOK, Goto
    <3> QED
      BY <3>1, <3>2
  <2> QED
    BY <2>1, <2>2 DEF LevelDB!StoreTypeOK, Redis!RedisTypeOK, HistoryOK
<1>3. CASE PutRequest(w)
  <2>1. payload[w] \in Payloads
    BY <1>3, <1>p, <1>s DEF PutRequest, Continue, Goto
  <2>2. LevelDB!StoreTypeOK'
    BY <1>3, <2>1, PutType DEF PutRequest
  <2>3. JobsOK'
    BY <1>3, <1>s, ContinueJobs DEF PutRequest
  <2> QED
    BY <1>3, <2>2, <2>3 DEF PutRequest, history, Redis!RedisTypeOK, HistoryOK
<1>4. CASE CacheRequest(w)
  <2>1. payload[w] \in Payloads
    BY <1>4, <1>p, <1>s DEF CacheRequest, Continue, Goto
  <2>2. Redis!RedisTypeOK'
    BY <1>4, <2>1, SetType DEF CacheRequest
  <2>3. JobsOK'
    BY <1>4, <1>s, ContinueJobs DEF CacheRequest
  <2> QED
    BY <1>4, <2>2, <2>3 DEF CacheRequest, LevelDB!StoreTypeOK, HistoryOK
<1>5. ASSUME NEW v \in Workers, CacheRace(w, v) PROVE TypeOK'
  <2>1. payload[w] \in Payloads /\ payload[v] \in Payloads
    BY <1>5, <1>s DEF CacheRace, JobsOK, Optional
  <2>2. Redis!RedisTypeOK'
    <3>1. PICK p, q \in {payload[w], payload[v]} :
            entries' = [entries EXCEPT
                          ![Hash(p)] = Redis!EntryFor(CString(q), 3 * Redis!ONE_DAY)]
      BY <1>5 DEF CacheRace
    <3>2. Redis!EntryFor(CString(q), 3 * Redis!ONE_DAY) \in Redis!Entries
      BY <2>1, EntryType
    <3> QED
      BY <1>5, <3>1, <3>2, HashType, <2>1 DEF CacheRace, Redis!RedisTypeOK, Redis!Contexts
  <2>3. JobsOK'
    BY <1>5, <1>s DEF CacheRace, JobsOK
  <2> QED
    BY <1>5, <2>2, <2>3 DEF CacheRace, LevelDB!StoreTypeOK, HistoryOK
<1>6. CASE Forward(w)
  <2>1. payload[w] \in Payloads
    BY <1>6, <1>p, <1>s DEF Forward, Continue, Goto
  <2>2. JobsOK'
    BY <1>6, <1>s, ContinueJobs DEF Forward
  <2> QED
    BY <1>6, <2>1, <2>2
    DEF Forward, LevelDB!StoreTypeOK, Redis!RedisTypeOK, HistoryOK
<1>7. CASE Reply(w)
  <2>1. payload[w] \in Payloads
    BY <1>7, <1>p, <1>s DEF Reply, Finish, Goto
  <2>2. JobsOK'
    BY <1>7, FinishJobs DEF Reply
  <2> QED
    BY <1>7, <2>1, <2>2 DEF Reply, LevelDB!StoreTypeOK, Redis!RedisTypeOK, HistoryOK
<1>8. CASE ReplyCallback(w)
  <2>1. id[w] \in Ids \cup {ConfigKey}
    BY <1>8, <1>k, <1>s DEF ReplyCallback, Finish, Goto
  <2>2. JobsOK'
    BY <1>8, FinishJobs DEF ReplyCallback
  <2> QED
    BY <1>8, <2>1, <2>2
    DEF ReplyCallback, LevelDB!StoreTypeOK, Redis!RedisTypeOK, HistoryOK
<1>9. CASE PutFails(w) \/ ReadConfig(w) \/ Lookup(w) \/ LookupThrows(w) \/ Unwind(w)
  <2>1. JobsOK'
    BY <1>9, <1>s, ContinueJobs, FinishJobs
    DEF PutFails, ReadConfig, Lookup, LookupThrows, Unwind
  <2> QED
    BY <1>9, <2>1
    DEF PutFails, ReadConfig, Lookup, LookupThrows, Unwind, LevelDB!StoreTypeOK,
        Redis!RedisTypeOK, HistoryOK
<1> QED
  BY <1>1, <1>2, <1>3, <1>4, <1>5, <1>6, <1>7, <1>8, <1>9 DEF Step

LEMMA EnvironmentType ==
  ASSUME TypeOK, Environment
  PROVE  TypeOK'
<1> USE DEF TypeOK
<1>1. CASE Start
  BY <1>1
  DEF Start, Redis!Connect, Redis!ContextAfter, Redis!Contexts, Redis!RedisTypeOK,
      LevelDB!StoreTypeOK, JobsOK, HistoryOK
<1>2. CASE Provision
  BY <1>2 DEF Provision, Redis!RedisTypeOK, LevelDB!StoreTypeOK, JobsOK, HistoryOK
<1>3. CASE Crash
  <2>1. JobsOK'
    BY <1>3, StopJobs DEF Crash
  <2> QED
    BY <1>3, <2>1
    DEF Crash, StopProcess, Redis!RedisTypeOK, Redis!Contexts, LevelDB!StoreTypeOK,
        HistoryOK
<1>4. CASE PowerLoss
  <2>1. JobsOK'
    BY <1>4, StopJobs DEF PowerLoss
  <2>2. LevelDB!StoreTypeOK'
    BY <1>4 DEF PowerLoss, LevelDB!PowerLoss, LevelDB!StoreTypeOK
  <2>3. HistoryOK'
    BY <1>4 DEF PowerLoss, HistoryOK
  <2> QED
    BY <1>4, <2>1, <2>2, <2>3
    DEF PowerLoss, StopProcess, Redis!RedisTypeOK, Redis!Contexts
<1>5. CASE SyncLog
  BY <1>5
  DEF SyncLog, LevelDB!Sync, LevelDB!StoreTypeOK, Redis!RedisTypeOK, JobsOK, HistoryOK
<1>6. CASE Tick
  <2>1. Redis!RedisTypeOK'
    BY <1>6, TickType DEF Tick
  <2> QED
    BY <1>6, <2>1 DEF Tick, LevelDB!StoreTypeOK, JobsOK, HistoryOK
<1> QED
  BY <1>1, <1>2, <1>3, <1>4, <1>5, <1>6 DEF Environment

LEMMA StutterType ==
  ASSUME TypeOK, UNCHANGED vars
  PROVE  TypeOK'
<1>1. LevelDB!StoreTypeOK' /\ Redis!RedisTypeOK'
  BY DEF TypeOK, LevelDB!StoreTypeOK, Redis!RedisTypeOK
<1>2. JobsOK' /\ HistoryOK'
  BY DEF TypeOK, JobsOK, HistoryOK
<1> QED
  BY <1>1, <1>2 DEF TypeOK

(* Threads, stores and history stay well formed in every behaviour.        *)
THEOREM TypeCorrect == Spec => []TypeOK
<1>1. Init => TypeOK
  BY InitInv DEF IInv
<1>2. TypeOK /\ [Next]_vars => TypeOK'
  BY HandlerType, EnvironmentType, StutterType DEF Next
<1> QED
  BY <1>1, <1>2, PTL DEF Spec

(***************************************************************************)
(* The safety invariants.  `OnRecord' collects the parts of IInv that      *)
(* speak of the stores and of history, StageStored those about threads.    *)
(***************************************************************************)
OnRecord ==
  Addressed /\ AckedIsStored /\ SyncedAckIsStored /\ ForwardedIsStored /\ CachedIsStored

LEMMA RecordHolds ==
  ASSUME TypeOK, Addressed, NEW p \in Payloads, db[Hash(p)] # NoValue
  PROVE  Holds(db, p)
BY HashType DEF TypeOK, LevelDB!StoreTypeOK, Addressed, Holds

(* Steps that touch neither store nor history.                             *)
LEMMA OnRecordFrame ==
  ASSUME OnRecord, UNCHANGED leveldb, UNCHANGED entries,
         UNCHANGED <<forwarded, owed, durable, powerLost>>
  PROVE  OnRecord'
BY DEF OnRecord, Addressed, AckedIsStored, SyncedAckIsStored, ForwardedIsStored,
   CachedIsStored, Redis!Cached, Holds, LevelDB!Found

(* A thread advances, to a stage past Put only from such a stage and to    *)
(* "found" only with a key on record.                                      *)
LEMMA StageFrame ==
  ASSUME TypeOK, StageStored, UNCHANGED leveldb, UNCHANGED config,
         UNCHANGED <<payload, id>>,
         NEW w \in Workers, NEW from, NEW to, Goto(w, from, to),
         to \in StoredStages => from \in StoredStages,
         to = "found" /\ id[w] \in Ids => db[id[w]] # NoValue,
         to = "found" /\ id[w] = ConfigKey => config # "absent"
  PROVE  StageStored'
BY DEF StageStored, Goto, TypeOK, JobsOK

LEMMA FinishFrame ==
  ASSUME TypeOK, StageStored, UNCHANGED leveldb, UNCHANGED config,
         NEW w \in Workers, NEW from, Finish(w, from)
  PROVE  StageStored'
BY DEF StageStored, Finish, Goto, TypeOK, JobsOK, StoredStages

LEMMA StopFrame ==
  ASSUME StopProcess
  PROVE  StageStored'
BY DEF StageStored, StopProcess, StoredStages

(* Storing a request keeps every record on record, and every id it had.    *)
LEMMA PutKeeps ==
  ASSUME TypeOK, Addressed, NEW p \in Payloads, LevelDB!Put(Hash(p), p)
  PROVE  /\ \A k \in Ids : db[k] # NoValue => db'[k] # NoValue
         /\ db'[Hash(p)] # NoValue
         /\ Addressed'
         /\ \A q \in Payloads : Holds(db, q) => Holds(db', q)
         /\ versions' = versions \cup {db'}
<1>1. db \in [Ids -> Payloads \cup {NoValue}] /\ p # NoValue /\ Hash(p) \in Ids
  BY HashType, ServiceAssumption DEF TypeOK, LevelDB!StoreTypeOK, LevelDB!Contents
<1>2. db' = [db EXCEPT ![Hash(p)] = p] /\ versions' = versions \cup {db'}
  BY DEF LevelDB!Put, LevelDB!Commit
<1>3. \A k \in Ids : db[k] # NoValue => db'[k] # NoValue
  BY <1>1, <1>2
<1>4. db \in versions
  BY DEF TypeOK, LevelDB!StoreTypeOK
<1>5. Addressed'
  BY <1>1, <1>2, <1>3, <1>4 DEF Addressed
<1>6. \A q \in Payloads : Holds(db, q) => Holds(db', q)
  BY <1>1, <1>2, HashType DEF Holds
<1> QED
  BY <1>1, <1>2, <1>3, <1>5, <1>6

LEMMA SetKeeps ==
  ASSUME TypeOK, CachedIsStored, NEW p \in Payloads, db[Hash(p)] # NoValue, NEW e,
         entries' = [entries EXCEPT ![Hash(p)] = e] \/ UNCHANGED entries,
         UNCHANGED leveldb, UNCHANGED powerLost
  PROVE  CachedIsStored'
BY HashType DEF TypeOK, Redis!RedisTypeOK, CachedIsStored, Redis!Cached, LevelDB!Found

LEMMA HandlerInv ==
  ASSUME IInv, NEW w \in Workers, ReceiveTracer(w) \/ ReceiveCallback(w) \/ Step(w)
  PROVE  OnRecord' /\ StageStored'
<1>t. TypeOK /\ OnRecord /\ StageStored
  BY DEF IInv, OnRecord
<1>j. /\ pc \in [Workers -> Stages]
      /\ payload \in [Workers -> Optional(Payloads, NoPayload)]
      /\ id \in [Workers -> Optional(Ids \cup {ConfigKey}, NoId)]
  BY <1>t DEF TypeOK, JobsOK
<1>p. pc[w] \in TracerStages => payload[w] \in Payloads
  BY <1>t DEF TypeOK, JobsOK, Optional
<1>1. CASE ReceiveTracer(w) \/ ReceiveCallback(w)
  <2>1. OnRecord'
    BY <1>1, <1>t, OnRecordFrame DEF ReceiveTracer, ReceiveCallback
  <2>2. /\ pc'[w] \notin StoredStages /\ pc'[w] # "found"
        /\ \A v \in Workers \ {w} :
             pc'[v] = pc[v] /\ payload'[v] = payload[v] /\ id'[v] = id[v]
    BY <1>1, <1>j DEF ReceiveTracer, ReceiveCallback, Goto, StoredStages
  <2>3. UNCHANGED db /\ UNCHANGED config
    BY <1>1 DEF ReceiveTracer, ReceiveCallback
  <2> QED
    BY <2>1, <2>2, <2>3, <1>t DEF StageStored
<1>2. CASE PutRequest(w)
  <2> DEFINE p == payload[w]
  <2>1. p \in Payloads
    BY <1>2, <1>p DEF PutRequest, Continue, Goto, TracerStages
  <2>2. LevelDB!Put(Hash(p), p)
    BY <1>2 DEF PutRequest
  <2> HIDE DEF p
  <2>3. /\ \A k \in Ids : db[k] # NoValue => db'[k] # NoValue
        /\ db'[Hash(p)] # NoValue
        /\ Addressed'
        /\ \A q \in Payloads : Holds(db, q) => Holds(db', q)
        /\ versions' = versions \cup {db'}
    BY <2>1, <2>2, <1>t, PutKeeps DEF OnRecord
  <2>4. StageStored'
    <3>1. /\ \A v \in Workers \ {w} : pc'[v] = pc[v]
          /\ payload' = payload /\ id' = id /\ pc'[w] = "cache"
          /\ config' = config
      BY <1>2, <1>j DEF PutRequest, Continue, Goto
    <3>2. \A v \in Workers : pc[v] \in StoredStages => payload[v] \in Payloads
      BY <1>t DEF TypeOK, JobsOK, Optional, TracerStages
    <3> QED
      BY <1>t, <2>3, <3>1, <3>2, HashType DEF StageStored, p
  <2>5. AckedIsStored' /\ ForwardedIsStored'
    BY <1>2, <1>t, <2>3
    DEF PutRequest, OnRecord, AckedIsStored, ForwardedIsStored, TypeOK, HistoryOK
  <2>6. SyncedAckIsStored'
    BY <1>2, <1>t, <2>3, <2>5
    DEF PutRequest, OnRecord, AckedIsStored, SyncedAckIsStored, TypeOK, HistoryOK
  <2>7. CachedIsStored'
    BY <1>2, <1>t, <2>3
    DEF PutRequest, OnRecord, CachedIsStored, Redis!Cached, LevelDB!Found
  <2> QED
    BY <2>3, <2>4, <2>5, <2>6, <2>7 DEF OnRecord
<1>3. CASE CacheRequest(w)
  <2>1. payload[w] \in Payloads /\ db[Hash(payload[w])] # NoValue
    BY <1>3, <1>p, <1>t
    DEF CacheRequest, Continue, Goto, TracerStages, StoredStages, StageStored
  <2>2. CachedIsStored'
    <3>1. \/ entries' = [entries EXCEPT ![Hash(payload[w])] =
                           Redis!EntryFor(CString(payload[w]), 3 * Redis!ONE_DAY)]
          \/ UNCHANGED entries
      BY <1>3 DEF CacheRequest, Redis!Set
    <3> QED
      BY <1>3, <1>t, <2>1, <3>1, SetKeeps DEF CacheRequest, OnRecord
  <2>3. StageStored'
    BY <1>3, <1>t, StageFrame DEF CacheRequest, Continue, StoredStages
  <2> QED
    BY <1>3, <1>t, <2>2, <2>3
    DEF CacheRequest, OnRecord, Addressed, AckedIsStored, SyncedAckIsStored,
        ForwardedIsStored, Holds
<1>4. ASSUME NEW v \in Workers, CacheRace(w, v) PROVE OnRecord' /\ StageStored'
  <2>1. PICK p, q \in {payload[w], payload[v]} :
          entries' = [entries EXCEPT
                        ![Hash(p)] = Redis!EntryFor(CString(q), 3 * Redis!ONE_DAY)]
    BY <1>4 DEF CacheRace
  <2>2. p \in Payloads /\ db[Hash(p)] # NoValue
    BY <1>4, <1>t
    DEF CacheRace, TypeOK, JobsOK, Optional, TracerStages, StoredStages, StageStored
  <2>3. CachedIsStored'
    BY <1>4, <1>t, <2>1, <2>2, SetKeeps DEF CacheRace, OnRecord
  <2>4. StageStored'
    BY <1>4, <1>t, <1>j DEF CacheRace, StageStored, StoredStages
  <2> QED
    BY <1>4, <1>t, <2>3, <2>4
    DEF CacheRace, OnRecord, Addressed, AckedIsStored, SyncedAckIsStored,
        ForwardedIsStored, Holds
<1>5. CASE Forward(w)
  <2>1. payload[w] \in Payloads /\ Holds(db, payload[w])
    BY <1>5, <1>p, <1>t, RecordHolds
    DEF Forward, Continue, Goto, TracerStages, StoredStages, StageStored, OnRecord
  <2>2. ForwardedIsStored'
    BY <1>5, <1>t, <2>1 DEF Forward, OnRecord, ForwardedIsStored, Holds
  <2>3. StageStored'
    BY <1>5, <1>t, StageFrame DEF Forward, Continue, StoredStages
  <2> QED
    BY <1>5, <1>t, <2>2, <2>3
    DEF Forward, OnRecord, Addressed, AckedIsStored, SyncedAckIsStored,
        CachedIsStored, Redis!Cached, LevelDB!Found, Holds
<1>6. CASE Reply(w)
  <2>1. payload[w] \in Payloads /\ Holds(db, payload[w])
    BY <1>6, <1>p, <1>t, RecordHolds
    DEF Reply, Finish, Goto, TracerStages, StoredStages, StageStored, OnRecord
  <2>2. AckedIsStored'
    BY <1>6, <1>t, <2>1 DEF Reply, OnRecord, AckedIsStored, Holds
  <2>3. StageStored'
    BY <1>6, <1>t, FinishFrame DEF Reply
  <2> QED
    BY <1>6, <1>t, <2>2, <2>3
    DEF Reply, OnRecord, Addressed, ForwardedIsStored, SyncedAckIsStored,
        CachedIsStored, Redis!Cached, LevelDB!Found, Holds
<1>7. CASE ReplyCallback(w) \/ Unwind(w)
  BY <1>7, <1>t, FinishFrame, OnRecordFrame DEF ReplyCallback, Unwind
<1>8. CASE PutFails(w) \/ ReadConfig(w) \/ LookupThrows(w)
  <2>1. StageStored'
    BY <1>8, <1>t, StageFrame
    DEF PutFails, ReadConfig, LookupThrows, Continue, StoredStages
  <2> QED
    BY <1>8, <1>t, <2>1, OnRecordFrame DEF PutFails, ReadConfig, LookupThrows
<1>9. CASE Lookup(w)
  <2>1. /\ id[w] \in Ids => db[id[w]] # NoValue
        /\ id[w] = ConfigKey => config # "absent"
    BY <1>9, ServiceAssumption DEF Lookup, Resolves, LevelDB!Found
  <2>2. StageStored'
    BY <1>9, <1>t, <2>1, StageFrame DEF Lookup, Continue, StoredStages
  <2> QED
    BY <1>9, <1>t, <2>2, OnRecordFrame DEF Lookup
<1> QED
  BY <1>1, <1>2, <1>3, <1>4, <1>5, <1>6, <1>7, <1>8, <1>9 DEF Step

LEMMA EnvironmentInv ==
  ASSUME IInv, Environment
  PROVE  OnRecord' /\ StageStored'
<1>t. TypeOK /\ OnRecord /\ StageStored
  BY DEF IInv, OnRecord
<1>1. CASE Start \/ Provision
  <2>1. StageStored'
    <3>1. \A w \in Workers : pc[w] = "idle"
      BY <1>1, <1>t DEF Start, Provision, TypeOK, JobsOK
    <3> QED
      BY <1>1, <3>1 DEF Start, Provision, StageStored, StoredStages
  <2> QED
    BY <1>1, <1>t, <2>1, OnRecordFrame DEF Start, Provision
<1>2. CASE Crash
  BY <1>2, <1>t, StopFrame, OnRecordFrame DEF Crash
<1>3. CASE PowerLoss
  <2>1. PICK contents \in versions : db' = contents /\ versions' = {contents}
    BY <1>3 DEF PowerLoss, LevelDB!PowerLoss
  <2>2. Addressed'
    BY <1>t, <2>1 DEF OnRecord, Addressed
  <2>3. AckedIsStored' /\ SyncedAckIsStored'
    BY <1>3, <1>t, <2>1 DEF PowerLoss, OnRecord, AckedIsStored, SyncedAckIsStored, Holds
  <2>4. ForwardedIsStored' /\ CachedIsStored'
    BY <1>3 DEF PowerLoss, ForwardedIsStored, CachedIsStored
  <2>5. StageStored'
    BY <1>3, StopFrame DEF PowerLoss
  <2> QED
    BY <2>2, <2>3, <2>4, <2>5 DEF OnRecord
<1>4. CASE SyncLog
  <2>1. db' = db /\ versions' = {db} /\ db \in versions
    BY <1>4, <1>t DEF SyncLog, LevelDB!Sync, TypeOK, LevelDB!StoreTypeOK
  <2>2. Addressed'
    BY <1>t, <2>1 DEF OnRecord, Addressed
  <2>3. AckedIsStored' /\ SyncedAckIsStored'
    BY <1>4, <1>t, <2>1 DEF SyncLog, OnRecord, AckedIsStored, SyncedAckIsStored, Holds
  <2>4. ForwardedIsStored' /\ CachedIsStored'
    BY <1>4, <1>t, <2>1
    DEF SyncLog, OnRecord, ForwardedIsStored, CachedIsStored, Redis!Cached,
        LevelDB!Found, Holds
  <2>5. StageStored'
    BY <1>4, <1>t, <2>1 DEF SyncLog, StageStored
  <2> QED
    BY <2>2, <2>3, <2>4, <2>5 DEF OnRecord
<1>5. CASE Tick
  <2>1. \A k \in Ids : Redis!Cached(k)' => Redis!Cached(k)
    BY <1>5, <1>t DEF Tick, Redis!Tick, Redis!Cached, TypeOK, Redis!RedisTypeOK
  <2>2. CachedIsStored'
    BY <1>5, <1>t, <2>1 DEF Tick, OnRecord, CachedIsStored, LevelDB!Found
  <2>3. StageStored'
    BY <1>5, <1>t DEF Tick, StageStored
  <2> QED
    BY <1>5, <1>t, <2>2, <2>3
    DEF Tick, OnRecord, Addressed, AckedIsStored, SyncedAckIsStored,
        ForwardedIsStored, Holds
<1> QED
  BY <1>1, <1>2, <1>3, <1>4, <1>5 DEF Environment

LEMMA StutterInv ==
  ASSUME IInv, UNCHANGED vars
  PROVE  IInv'
<1>1. OnRecord'
  BY OnRecordFrame DEF IInv, OnRecord
<1>2. StageStored'
  BY DEF IInv, StageStored
<1> QED
  BY <1>1, <1>2, StutterType DEF IInv, OnRecord

(* IInv is inductive and holds in every behaviour.                         *)
THEOREM Invariance == Spec => []IInv
<1>1. IInv /\ [Next]_vars => IInv'
  BY HandlerType, EnvironmentType, HandlerInv, EnvironmentInv, StutterInv
  DEF Next, IInv, OnRecord
<1> QED
  BY <1>1, InitInv, PTL DEF Spec

(* Every request answered 200 is on record until power is lost.            *)
THEOREM AckedSafe == Spec => []AckedIsStored
BY Invariance, PTL DEF IInv

(* Every request answered before the last write to disk survives any       *)
(* number of losses of power.                                              *)
THEOREM SyncedAckSafe == Spec => []SyncedAckIsStored
BY Invariance, PTL DEF IInv

(* The advertiser hears only of requests on record.                        *)
THEOREM ForwardedSafe == Spec => []ForwardedIsStored
BY Invariance, PTL DEF IInv

(* Redis knows no id that LevelDB does not.                                *)
THEOREM CachedSafe == Spec => []CachedIsStored
BY Invariance, PTL DEF IInv

(* No cache entry outlives the three days the tracer gives it.             *)
THEOREM CacheExpires == Spec => []CacheBounded
<1>1. Init => CacheBounded
  BY DEF Init, Redis!ServerEmpty, CacheBounded, Redis!Cached
<1>2. ASSUME TypeOK, CacheBounded, Next PROVE CacheBounded'
  <2>t. day \in Nat /\ entries \in [Ids -> Redis!Entries \cup {NoEntry}]
    BY <1>2, ServiceAssumption DEF TypeOK, Redis!RedisTypeOK
  <2>e. \A p : Redis!EntryFor(CString(p), 3 * Redis!ONE_DAY).expires - day = 3
    BY <2>t DEF Redis!EntryFor, Redis!ONE_DAY
  <2>1. ASSUME NEW k, NEW p, UNCHANGED day,
               entries' = [entries EXCEPT ![k] =
                             Redis!EntryFor(CString(p), 3 * Redis!ONE_DAY)]
        PROVE  CacheBounded'
    BY <1>2, <2>t, <2>e, <2>1 DEF CacheBounded, Redis!Cached
  <2>2. ASSUME UNCHANGED <<entries, day>> PROVE CacheBounded'
    BY <1>2, <2>2 DEF CacheBounded, Redis!Cached
  <2>3. ASSUME NEW w \in Workers, CacheRequest(w) PROVE CacheBounded'
    BY <2>1, <2>2, <2>3 DEF CacheRequest, Redis!Set
  <2>4. ASSUME NEW w \in Workers, NEW v \in Workers, CacheRace(w, v)
        PROVE  CacheBounded'
    BY <2>1, <2>4 DEF CacheRace
  <2>5. CASE Tick
    BY <1>2, <2>t, <2>5
    DEF Tick, Redis!Tick, CacheBounded, Redis!Cached, Redis!Entries, Redis!Never
  <2>6. ASSUME NEW w \in Workers, ReceiveTracer(w) \/ ReceiveCallback(w)
        PROVE  CacheBounded'
    BY <2>2, <2>6 DEF ReceiveTracer, ReceiveCallback
  <2>7. ASSUME NEW w \in Workers,
               \/ PutRequest(w) \/ PutFails(w) \/ ReadConfig(w) \/ Forward(w)
               \/ Reply(w) \/ Lookup(w) \/ LookupThrows(w) \/ ReplyCallback(w)
               \/ Unwind(w)
        PROVE  CacheBounded'
    BY <2>2, <2>7
    DEF PutRequest, PutFails, ReadConfig, Forward, Reply, Lookup, LookupThrows,
        ReplyCallback, Unwind
  <2>8. CASE Start \/ Provision \/ Crash \/ PowerLoss \/ SyncLog
    BY <2>2, <2>8 DEF Start, Provision, Crash, PowerLoss, SyncLog
  <2> QED
    BY <1>2, <2>3, <2>4, <2>5, <2>6, <2>7, <2>8 DEF Next, Step, Environment
<1>3. CacheBounded /\ UNCHANGED vars => CacheBounded'
  BY DEF CacheBounded, Redis!Cached
<1> QED
  BY <1>1, <1>2, <1>3, TypeCorrect, PTL DEF Spec

(***************************************************************************)
(* The service implements the ledger.                                      *)
(***************************************************************************)
Recorded == {k \in Ids : LevelDB!Found(k)} \cup Provisioned
Stable == {k \in Ids : \A v \in versions : v[k] # NoValue} \cup Provisioned
Acknowledged == {Hash(p) : p \in owed}

LEMMA LedgerInitially == Init => Ledger!LedgerInit
<1> SUFFICES ASSUME Init PROVE Ledger!LedgerInit
  OBVIOUS
<1>1. db = [k \in Ids |-> NoValue] /\ versions = {db}
  BY DEF Init, LevelDB!OpenEmpty
<1> QED
  BY <1>1 DEF Init, Ledger!LedgerInit, LevelDB!Found, Provisioned

LEMMA LedgerStutter ==
  ASSUME UNCHANGED leveldb, UNCHANGED config, UNCHANGED owed, UNCHANGED accepted
  PROVE  UNCHANGED Ledger!ledger
BY DEF Ledger!ledger, LevelDB!Found, Provisioned

LEMMA LedgerHandler ==
  ASSUME IInv, IInv', NEW w \in Workers,
         ReceiveTracer(w) \/ ReceiveCallback(w) \/ Step(w)
  PROVE  Ledger!LedgerNext \/ UNCHANGED Ledger!ledger
<1>t. TypeOK /\ OnRecord /\ StageStored
  BY DEF IInv, OnRecord
<1>p. pc[w] \in TracerStages => payload[w] \in Payloads
  BY <1>t DEF TypeOK, JobsOK, Optional
<1>1. CASE PutRequest(w)
  <2> DEFINE p == payload[w]
  <2>1. p \in Payloads /\ Hash(p) \in Ids
    BY <1>1, <1>p, HashType DEF PutRequest, Continue, Goto, TracerStages
  <2>2. /\ LevelDB!Put(Hash(p), p)
        /\ UNCHANGED <<owed, accepted>>
        /\ Provisioned' = Provisioned
    BY <1>1 DEF PutRequest, Provisioned
  <2> HIDE DEF p
  <2>3. /\ db' = [db EXCEPT ![Hash(p)] = p]
        /\ versions' = versions \cup {db'}
        /\ db \in [Ids -> Payloads \cup {NoValue}]
        /\ db \in versions
        /\ p # NoValue
    BY <2>1, <2>2, <1>t, ServiceAssumption
    DEF LevelDB!Put, LevelDB!Commit, TypeOK, LevelDB!StoreTypeOK, LevelDB!Contents
  <2>4. Recorded' = Recorded \cup {Hash(p)}
    BY <2>1, <2>2, <2>3 DEF Recorded, LevelDB!Found
  <2>5. Stable' = Stable
    BY <2>1, <2>2, <2>3 DEF Stable
  <2>6. Ledger!Record(Hash(p))
    BY <2>2, <2>4, <2>5 DEF Ledger!Record, Recorded, Stable
  <2> QED
    BY <2>1, <2>6 DEF Ledger!LedgerNext
<1>2. CASE Reply(w)
  <2> DEFINE p == payload[w]
  <2>1. p \in Payloads /\ Hash(p) \in Ids /\ db[Hash(p)] # NoValue
    BY <1>2, <1>p, <1>t, HashType
    DEF Reply, Finish, Goto, TracerStages, StoredStages, StageStored
  <2>2. /\ owed' = owed \cup {p}
        /\ UNCHANGED <<db, versions, accepted>>
        /\ Provisioned' = Provisioned
    BY <1>2 DEF Reply, Provisioned
  <2> HIDE DEF p
  <2>3. Ledger!Acknowledge(Hash(p))
    BY <2>1, <2>2 DEF Ledger!Acknowledge, LevelDB!Found
  <2> QED
    BY <2>1, <2>3 DEF Ledger!LedgerNext
<1>3. CASE ReplyCallback(w)
  <2>1. /\ accepted' = accepted \cup {id[w]}
        /\ UNCHANGED <<db, versions, owed>>
        /\ Provisioned' = Provisioned
    BY <1>3 DEF ReplyCallback, Provisioned
  <2>2. id[w] \in Ids \cup {ConfigKey}
    BY <1>3, <1>t
    DEF ReplyCallback, Finish, Goto, TypeOK, JobsOK, Optional, CallbackStages
  <2>3. \/ id[w] \in Ids /\ db[id[w]] # NoValue
        \/ id[w] \in Provisioned
    BY <1>3, <1>t, <2>2 DEF ReplyCallback, Finish, Goto, StageStored, Provisioned
  <2>4. Ledger!Accept(id[w])
    BY <2>1, <2>3 DEF Ledger!Accept, LevelDB!Found
  <2> QED
    BY <2>2, <2>4 DEF Ledger!LedgerNext
<1>4. CASE \/ ReceiveTracer(w) \/ ReceiveCallback(w) \/ PutFails(w)
          \/ CacheRequest(w) \/ ReadConfig(w) \/ Forward(w)
          \/ Lookup(w) \/ LookupThrows(w) \/ Unwind(w)
  BY <1>4, LedgerStutter
  DEF ReceiveTracer, ReceiveCallback, PutFails, CacheRequest, ReadConfig, Forward,
      Lookup, LookupThrows, Unwind
<1>5. ASSUME NEW v \in Workers, CacheRace(w, v) PROVE UNCHANGED Ledger!ledger
  BY <1>5, LedgerStutter DEF CacheRace
<1> QED
  BY <1>1, <1>2, <1>3, <1>4, <1>5 DEF Step

LEMMA LedgerEnvironment ==
  ASSUME IInv, IInv', Environment
  PROVE  Ledger!LedgerNext \/ UNCHANGED Ledger!ledger
<1>1. CASE PowerLoss
  <2>1. PICK contents \in versions : db' = contents /\ versions' = {contents}
    BY <1>1 DEF PowerLoss, LevelDB!PowerLoss
  <2>2. /\ Stable \subseteq Recorded'
        /\ Recorded' \subseteq Recorded
        /\ Stable' = Recorded'
    BY <1>1, <2>1
    DEF PowerLoss, IInv, Addressed, Recorded, Stable, LevelDB!Found, Provisioned
  <2>3. owed' \subseteq owed /\ owed' \subseteq Payloads /\ UNCHANGED accepted
    BY <1>1 DEF PowerLoss, IInv, TypeOK, HistoryOK
  <2>4. Acknowledged' \subseteq Acknowledged \cap Recorded'
    BY <2>3, HashType DEF IInv, AckedIsStored, Holds, Acknowledged, Recorded, LevelDB!Found
  <2>5. Ledger!LosePower
    BY <2>2, <2>3, <2>4 DEF Ledger!LosePower, Recorded, Stable, Acknowledged
  <2> QED
    BY <2>5 DEF Ledger!LedgerNext
<1>2. CASE SyncLog
  <2>1. /\ db' = db /\ versions' = {db}
        /\ UNCHANGED <<owed, accepted>>
        /\ Provisioned' = Provisioned
    BY <1>2 DEF SyncLog, LevelDB!Sync, Provisioned
  <2>2. Ledger!Persist
    BY <2>1 DEF Ledger!Persist, LevelDB!Found
  <2> QED
    BY <2>2 DEF Ledger!LedgerNext
<1>3. CASE Provision
  <2>1. /\ UNCHANGED <<db, versions, owed, accepted>>
        /\ Provisioned \subseteq {ConfigKey} /\ Provisioned' = {ConfigKey}
    BY <1>3 DEF Provision, Provisioned
  <2>2. Ledger!Install(ConfigKey)
    BY <2>1 DEF Ledger!Install, LevelDB!Found
  <2> QED
    BY <2>2 DEF Ledger!LedgerNext
<1>4. CASE Start \/ Crash \/ Tick
  BY <1>4, LedgerStutter DEF Start, Crash, Tick
<1> QED
  BY <1>1, <1>2, <1>3, <1>4 DEF Environment

(* Whatever its threads, Redis and crashes do, the service is a ledger.    *)
THEOREM Refinement == Spec => ImplementsLedger
<1>1. IInv /\ IInv' /\ [Next]_vars => [Ledger!LedgerNext]_(Ledger!ledger)
  <2> SUFFICES ASSUME IInv, IInv', [Next]_vars
               PROVE  Ledger!LedgerNext \/ UNCHANGED Ledger!ledger
    OBVIOUS
  <2>1. CASE UNCHANGED vars
    BY <2>1, LedgerStutter
  <2> QED
    BY <2>1, LedgerHandler, LedgerEnvironment DEF Next
<1> QED
  BY <1>1, LedgerInitially, Invariance, PTL DEF Spec, ImplementsLedger, Ledger!LedgerSpec

=============================================================================
