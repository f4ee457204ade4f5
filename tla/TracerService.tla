---------------------------- MODULE TracerService ----------------------------
(***************************************************************************)
(* The server of src/tracer_http_handler.cpp: worker threads run the       *)
(* /tracer and /callback handlers over one LevelDB database and one Redis  *)
(* connection, in a process that may die and be started again.             *)
(*                                                                         *)
(* A handler is split where it touches state that outlives it: the write   *)
(* to LevelDB, the write to Redis, the read of the configuration, the      *)
(* request it sends to the advertiser, and its answer.  Parsing a request  *)
(* touches nothing shared and belongs to the step that receives it.        *)
(***************************************************************************)
EXTENDS Naturals

CONSTANTS
  Workers,       \* threads libhv runs the handlers on
  Queries,       \* query strings clients send to /tracer
  Callbacks,     \* query strings advertisers send to /callback
  ActionIds,     \* non-empty values of the parameter action_id
  Empty,         \* an absent or empty parameter
  NotANumber,    \* a parameter std::stoi rejects
  CString(_),    \* the bytes of a serialized request before its first NUL
  Murmur(_),     \* MurmurHash3_x86_128 and its hexadecimal form
  Parses(_),     \* ParseFromString accepts the serialized request
  Renders(_),    \* replacing the macros of the template comes to an end
  ConfigKey,     \* the key "config"
  NoValue, NoEntry, NoPayload, NoId,
  MaxDay         \* bound on the clock

(***************************************************************************)
(* Requests and their ids.                                                 *)
(***************************************************************************)
UNKNOWN_ACTION == 0
CLICK_ACTION == 1
EXPOSURE_ACTION == 2
CALLBACK_ACTION == 3
VALID_ACTIONTYPE_VALUES == {CLICK_ACTION, EXPOSURE_ACTION, CALLBACK_ACTION}

BIZTYPE_UNKNOWN == 0
VALID_BIZTYPE_VALUES == {1, 2, 3}

(* A textual enumeration, given by what std::stoi makes of it.             *)
Texts == Nat \cup {NotANumber}

StringToEnum(text, default, valid) == IF text \in valid THEN text ELSE default

(* The parameters whose absence or form decides what a handler does.       *)
Query ==
  [cqid : BOOLEAN, action : Texts, action_id : ActionIds \cup {Empty},
   mts : {"absent", "number", "malformed"}]

(* A TracerReq.  Its other fields are copied from the query as they are,   *)
(* and only make requests differ: action_id stands for all of them.        *)
Payloads == [action : VALID_ACTIONTYPE_VALUES, action_id : ActionIds]

ActionOf(q) == StringToEnum(q.action, UNKNOWN_ACTION, VALID_ACTIONTYPE_VALUES)

(* The conditions extract2TracerReqProto checks; std::stoull throws on a   *)
(* malformed mts.                                                          *)
Extracts(q) ==
  /\ q.cqid
  /\ ActionOf(q) # UNKNOWN_ACTION
  /\ q.action_id # Empty
  /\ q.mts # "malformed"

extract2TracerReqProto(q) == [action |-> ActionOf(q), action_id |-> q.action_id]

(* string_utils::hash: strlen stops at the first NUL, and so does the hash.*)
Hash(p) == Murmur(CString(p))

Ids == {Hash(p) : p \in Payloads}

(* The parameters of /callback: all are required, biz_type is an           *)
(* enumeration, `complete' stands for the other four.                      *)
Callback == [id : Ids \cup {ConfigKey, Empty}, biz_type : Texts, complete : BOOLEAN]

ExtractsCallback(c) ==
  /\ c.id # Empty
  /\ StringToEnum(c.biz_type, BIZTYPE_UNKNOWN, VALID_BIZTYPE_VALUES) # BIZTYPE_UNKNOWN
  /\ c.complete

ASSUME ServiceAssumption ==
  /\ Queries \subseteq Query
  /\ Callbacks \subseteq Callback
  /\ Empty \notin ActionIds
  /\ ConfigKey \notin Ids /\ Empty \notin Ids /\ Empty # ConfigKey
  /\ NoId \notin Ids \cup {ConfigKey}
  /\ NoValue \notin Payloads
  /\ NoPayload \notin Payloads
  /\ MaxDay \in Nat
  /\ NoEntry \notin [value : {CString(p) : p \in Payloads}, expires : Nat]

-----------------------------------------------------------------------------
VARIABLES
  up,            \* the process is running
  config,        \* what LevelDB holds under the key "config"
  db, versions,  \* the rest of LevelDB, see LevelDBStore
  context, entries, day,   \* Redis, see RedisClient
  pc,            \* where each worker is
  payload,       \* the request a worker traces
  id,            \* the id a worker looks up
  (* History of what the outside has seen.                                 *)
  forwarded,     \* requests the advertiser got since power was last lost
  owed,          \* requests answered 200 that must still be on record
  durable,       \* those of them answered before the last write to disk
  accepted,      \* ids of the callbacks answered 200
  powerLost      \* the machine lost power at least once

process == <<up, config>>
leveldb == <<db, versions>>
redis == <<context, entries>>
jobs == <<pc, payload, id>>
history == <<forwarded, owed, durable, accepted, powerLost>>
vars == <<process, leveldb, redis, day, jobs, history>>

LevelDB == INSTANCE LevelDBStore WITH Keys <- Ids, Values <- Payloads

Redis == INSTANCE RedisClient WITH
           Keys <- Ids, Values <- {CString(p) : p \in Payloads}

CallbackStages == {"lookup", "found"}
StoredStages == {"cache", "config", "forward", "reply"}
TracerStages == {"put"} \cup StoredStages
Stages == {"idle", "thrown"} \cup TracerStages \cup CallbackStages

Init ==
  /\ up = FALSE
  /\ config \in {"absent", "corrupt", "valid"}
  /\ LevelDB!OpenEmpty
  /\ context = "null"
  /\ Redis!ServerEmpty
  /\ pc = [w \in Workers |-> "idle"]
  /\ payload = [w \in Workers |-> NoPayload]
  /\ id = [w \in Workers |-> NoId]
  /\ forwarded = {}
  /\ owed = {}
  /\ durable = {}
  /\ accepted = {}
  /\ powerLost = FALSE

(***************************************************************************)
(* Helpers of the steps.                                                   *)
(***************************************************************************)
Goto(w, from, to) ==
  /\ pc[w] = from
  /\ pc' = [pc EXCEPT ![w] = to]

(* A step of a handler that keeps the request it works on.                 *)
Continue(w, from, to) ==
  /\ Goto(w, from, to)
  /\ UNCHANGED <<payload, id>>

(* The handler is done with its request, by an answer or by an exception.  *)
Finish(w, from) ==
  /\ Goto(w, from, "idle")
  /\ payload' = [payload EXCEPT ![w] = NoPayload]
  /\ id' = [id EXCEPT ![w] = NoId]

(* The process is gone, and with it whatever its handlers were doing.      *)
StopProcess ==
  /\ up' = FALSE
  /\ context' = "null"
  /\ pc' = [w \in Workers |-> "idle"]
  /\ payload' = [w \in Workers |-> NoPayload]
  /\ id' = [w \in Workers |-> NoId]

(***************************************************************************)
(* GET /tracer.                                                            *)
(***************************************************************************)
ReceiveTracer(w) ==
  \E q \in Queries :
    /\ up
    /\ \/ /\ Extracts(q)
          /\ Goto(w, "idle", "put")
          /\ payload' = [payload EXCEPT ![w] = extract2TracerReqProto(q)]
       \/ /\ ~Extracts(q)
          /\ Goto(w, "idle", "thrown")
          /\ UNCHANGED payload
    /\ UNCHANGED <<process, leveldb, redis, day, id, history>>

PutRequest(w) ==
  /\ Continue(w, "put", "cache")
  /\ LevelDB!Put(Hash(payload[w]), payload[w])
  /\ UNCHANGED <<process, redis, day, history>>

(* Mutation: the status of the write is ignored.                           *)
PutFailsUnnoticed(w) ==
  /\ Continue(w, "put", "cache")
  /\ UNCHANGED <<process, leveldb, redis, day, history>>

(* Put throws when LevelDB reports an error, and nothing was written.      *)
PutFails(w) ==
  /\ Continue(w, "put", "thrown")
  /\ UNCHANGED <<process, leveldb, redis, day, history>>

(* Mutation: the set without a time to live is called.                     *)
CacheRequestForever(w) ==
  /\ Continue(w, "cache", "config")
  /\ Redis!Set(Hash(payload[w]), CString(payload[w]), 0)
  /\ UNCHANGED <<process, leveldb, day, history>>

(* The result of set is not looked at.                                     *)
CacheRequest(w) ==
  /\ Continue(w, "cache", "config")
  /\ Redis!Set(Hash(payload[w]), CString(payload[w]), 3 * Redis!ONE_DAY)
  /\ UNCHANGED <<process, leveldb, day, history>>

(* Two threads in set write to one unprotected connection: besides the two *)
(* orders, the commands may reach the server mangled, a key of one with a  *)
(* value of the other, and the connection may be unusable afterwards.  The *)
(* process may also die, as at any other moment.                           *)
CacheRace(w, v) ==
  /\ w # v
  /\ pc[w] = "cache" /\ pc[v] = "cache"
  /\ pc' = [pc EXCEPT ![w] = "config", ![v] = "config"]
  /\ context = "ok"
  /\ context' \in {"ok", "err"}
  /\ \E p, q \in {payload[w], payload[v]} :
       entries' = [entries EXCEPT
                     ![Hash(p)] = Redis!EntryFor(CString(q), 3 * Redis!ONE_DAY)]
  /\ UNCHANGED <<process, leveldb, day, payload, id, history>>

(* Mutation: a request that finds no configuration waits for one.          *)
ReadConfigWaits(w) ==
  /\ Continue(w, "config", "forward")
  /\ config = "valid"
  /\ UNCHANGED <<process, leveldb, redis, day, history>>

(* ProtoBufGet<AdLinkConfig>("config") throws unless a configuration is    *)
(* stored and parses, and whenever LevelDB fails to read it; only clicks   *)
(* and exposures are sent on.                                              *)
ReadConfig(w) ==
  /\ \/ /\ Continue(w, "config", "forward")
        /\ config = "valid"
        /\ payload[w].action \in {CLICK_ACTION, EXPOSURE_ACTION}
     \/ /\ Continue(w, "config", "reply")
        /\ config = "valid"
        /\ payload[w].action \notin {CLICK_ACTION, EXPOSURE_ACTION}
     \/ Continue(w, "config", "thrown")
  /\ UNCHANGED <<process, leveldb, redis, day, history>>

(* requests::request: whether the advertiser got the request is not looked *)
(* at.  The shared_ptr built from the framework's own pointer deletes the  *)
(* request it still uses: the handler goes on, or the process dies.        *)
Forward(w) ==
  /\ Continue(w, "forward", "reply")
  /\ Renders(payload[w])
  /\ forwarded' \in {forwarded, forwarded \cup {payload[w]}}
  /\ UNCHANGED <<process, leveldb, redis, day, owed, durable, accepted,
                 powerLost>>

Reply(w) ==
  /\ Finish(w, "reply")
  /\ owed' = owed \cup {payload[w]}
  /\ UNCHANGED <<process, leveldb, redis, day, forwarded, durable, accepted,
                 powerLost>>

(***************************************************************************)
(* GET /callback.                                                          *)
(***************************************************************************)
ReceiveCallback(w) ==
  \E c \in Callbacks :
    /\ up
    /\ \/ /\ ExtractsCallback(c)
          /\ Goto(w, "idle", "lookup")
          /\ id' = [id EXCEPT ![w] = c.id]
       \/ /\ ~ExtractsCallback(c)
          /\ Goto(w, "idle", "thrown")
          /\ UNCHANGED id
    /\ UNCHANGED <<process, leveldb, redis, day, payload, history>>

(* Mutation: the status of the read is ignored, and an empty message       *)
(* parses.                                                                 *)
ResolvesAnything(k) == k # NoId

(* ProtoBufGet<TracerReq>(id) returns.  A configuration may happen to      *)
(* parse as a request.                                                     *)
Resolves(k) ==
  \/ /\ k \in Ids
     /\ LevelDB!Found(k)
     /\ Parses(db[k])
  \/ /\ k = ConfigKey
     /\ config # "absent"

Lookup(w) ==
  /\ Continue(w, "lookup", "found")
  /\ Resolves(id[w])
  /\ UNCHANGED <<process, leveldb, redis, day, history>>

(* ProtoBufGet throws: nothing is stored under the id, what is stored does *)
(* not parse, or LevelDB fails to read it.                                 *)
LookupThrows(w) ==
  /\ Continue(w, "lookup", "thrown")
  /\ UNCHANGED <<process, leveldb, redis, day, history>>

ReplyCallback(w) ==
  /\ Finish(w, "found")
  /\ accepted' = accepted \cup {id[w]}
  /\ UNCHANGED <<process, leveldb, redis, day, forwarded, owed, durable,
                 powerLost>>

(* No handler catches an exception: the framework drops the request.  (If  *)
(* it does not, the process terminates, which is Crash.)                   *)
Unwind(w) ==
  /\ Finish(w, "thrown")
  /\ UNCHANGED <<process, leveldb, redis, day, history>>

-----------------------------------------------------------------------------
(***************************************************************************)
(* The process and its environment.                                        *)
(***************************************************************************)
Start ==
  /\ ~up
  /\ up' = TRUE
  /\ Redis!Connect
  /\ UNCHANGED <<config, leveldb, entries, day, jobs, history>>

(* Nothing under src/ writes the configuration, and LevelDB lets one       *)
(* process open a database: it is provisioned while the server is down.    *)
Provision ==
  /\ ~up
  /\ config' \in {"corrupt", "valid"}
  /\ UNCHANGED <<up, leveldb, redis, day, jobs, history>>

Crash ==
  /\ up
  /\ StopProcess
  /\ UNCHANGED <<config, leveldb, entries, day, history>>

PowerLoss ==
  /\ StopProcess
  /\ LevelDB!PowerLoss
  /\ forwarded' = {}
  /\ owed' = durable
  /\ powerLost' = TRUE
  /\ UNCHANGED <<config, entries, day, durable, accepted>>

SyncLog ==
  /\ LevelDB!Sync
  /\ durable' = owed
  /\ UNCHANGED <<process, redis, day, jobs, forwarded, owed, accepted,
                 powerLost>>

Tick ==
  /\ Redis!Tick
  /\ UNCHANGED <<process, leveldb, context, jobs, history>>

Step(w) ==
  \/ PutRequest(w)
  \/ PutFails(w)
  \/ CacheRequest(w)
  \/ \E v \in Workers : CacheRace(w, v)
  \/ ReadConfig(w)
  \/ Forward(w)
  \/ Reply(w)
  \/ Lookup(w)
  \/ LookupThrows(w)
  \/ ReplyCallback(w)
  \/ Unwind(w)

Environment ==
  \/ Start
  \/ Provision
  \/ Crash
  \/ PowerLoss
  \/ SyncLog
  \/ Tick

Next ==
  \/ \E w \in Workers : ReceiveTracer(w) \/ ReceiveCallback(w) \/ Step(w)
  \/ Environment

Spec == Init /\ [][Next]_vars

(* A thread that runs a handler keeps being scheduled, and LevelDB, Redis  *)
(* and the advertiser answer or break the connection.                      *)
Fairness == \A w \in Workers : WF_vars(Step(w))

FairSpec == Spec /\ Fairness

-----------------------------------------------------------------------------
(***************************************************************************)
(* Properties.                                                             *)
(***************************************************************************)
Optional(S, none) == S \cup {none}

(* A worker holds a request exactly while a handler needs it, and none     *)
(* while the process is down (the parameters of tracer and callback).      *)
JobsOK ==
  /\ pc \in [Workers -> Stages]
  /\ payload \in [Workers -> Optional(Payloads, NoPayload)]
  /\ id \in [Workers -> Optional(Ids \cup {ConfigKey}, NoId)]
  /\ \A w \in Workers :
       /\ ~up => pc[w] = "idle"
       /\ pc[w] \in TracerStages => payload[w] # NoPayload
       /\ pc[w] \in CallbackStages => id[w] # NoId

HistoryOK ==
  /\ forwarded \subseteq Payloads
  /\ owed \subseteq Payloads
  /\ durable \subseteq owed
  /\ accepted \subseteq Ids \cup {ConfigKey}
  /\ powerLost \in BOOLEAN

(* The type invariant: threads, stores and history are well formed.        *)
TypeOK ==
  /\ up \in BOOLEAN
  /\ config \in {"absent", "corrupt", "valid"}
  /\ LevelDB!StoreTypeOK
  /\ Redis!RedisTypeOK
  /\ JobsOK
  /\ HistoryOK

(* `contents' has a record under the id of p, and one that has that id.    *)
Holds(contents, p) ==
  /\ contents[Hash(p)] # NoValue
  /\ Hash(contents[Hash(p)]) = Hash(p)

(* A request that was answered 200 is stored under its id, however often   *)
(* the process dies, until power is lost: tracer answers after Put and Put *)
(* fails loudly.                                                           *)
AckedIsStored == \A p \in owed : Holds(db, p)

(* Losing power loses no request that was answered before the log last     *)
(* reached the disk, neither now nor when power is lost again.             *)
SyncedAckIsStored ==
  \A p \in durable : \A contents \in versions : Holds(contents, p)

(* The advertiser never sees a request that has no record, so that its     *)
(* callback can be matched: tracer stores before it forwards.              *)
ForwardedIsStored == \A p \in forwarded : Holds(db, p)

(* Redis holds an entry only for an id that LevelDB holds as well, also    *)
(* when two threads fill it at once.                                       *)
CachedIsStored ==
  ~powerLost => \A k \in Ids : Redis!Cached(k) => LevelDB!Found(k)

(* Redis gives up what was not converted in three days: no entry has more  *)
(* than three days to live, and none outlives them.                        *)
CacheBounded ==
  \A k \in Ids : Redis!Cached(k) => entries[k].expires - day \in 1 .. 3

(***************************************************************************)
(* Why they hold.  A handler past Put works for a request on record, every *)
(* record sits under its own id, and since nothing is ever deleted no      *)
(* contents that may come back holds an id that db does not.               *)
(***************************************************************************)
Addressed ==
  \A contents \in versions, k \in Ids :
    contents[k] # NoValue => Hash(contents[k]) = k /\ db[k] # NoValue

StageStored ==
  \A w \in Workers :
    /\ pc[w] \in StoredStages => db[Hash(payload[w])] # NoValue
    /\ pc[w] = "found" /\ id[w] \in Ids => db[id[w]] # NoValue
    /\ pc[w] = "found" /\ id[w] = ConfigKey => config # "absent"

IInv ==
  /\ TypeOK
  /\ Addressed
  /\ StageStored
  /\ AckedIsStored
  /\ SyncedAckIsStored
  /\ ForwardedIsStored
  /\ CachedIsStored

(* What the callers rely on, stated without threads, Redis or stages.  The *)
(* configuration is a record like any other: callback does not tell its    *)
(* key from the id of a request.                                           *)
Provisioned == IF config = "absent" THEN {} ELSE {ConfigKey}

Ledger == INSTANCE TracerLedger WITH
            Reserved <- {ConfigKey},
            recorded <- {k \in Ids : LevelDB!Found(k)} \cup Provisioned,
            stable <- {k \in Ids : \A v \in versions : v[k] # NoValue} \cup Provisioned,
            acknowledged <- {Hash(p) : p \in owed},
            accepted <- accepted

(* The service implements the ledger: it acknowledges only requests on     *)
(* record, answers a callback 200 only for a key on record, a request's or *)
(* the configuration's, and loses a record only with the power and before  *)
(* it was on disk.                                                         *)
ImplementsLedger == Ledger!LedgerSpec

(* A handler whose template can be rendered ends, whatever the stores, the *)
(* configuration and the advertiser answer: no error leaves it waiting.    *)
Busy(w) == pc[w] # "idle" /\ (payload[w] # NoPayload => Renders(payload[w]))

RequestsFinish == \A w \in Workers : Busy(w) ~> pc[w] = "idle"

=============================================================================
