# Verification of xuan-ocpx

xuan-ocpx is an HTTP server for oCPX advertising. `GET /tracer` reports a click
or an exposure: the server stores the request under a hash of its contents,
caches it in Redis and forwards it to the advertiser. `GET /callback` reports a
conversion and refers to a stored request by that hash. This directory holds
TLA+ models of the server, the TLC configurations that check them on small
instances, and TLAPS proofs that hold for every value of the constants.

## 1. The system

| component | source | state | operations |
|---|---|---|---|
| tracer handler | `src/tracer_http_handler.cpp`, `include/tracer_http_handler.h` | references to the two stores | `tracer`, `callback` |
| LevelDB wrapper | `include/leveldb_wrapper.hpp` | one open database | `Put`, `Get`, `ProtoBufGet`, `Delete`, `WriteBatch` |
| Redis client | `include/redis_client.hpp` | one connection | constructor, `set`, `get` |
| HTTP client pool | `include/http_client_pools.h` | queue of request objects, mutex, condition variable | `get`, `post`, `send` |
| login tokens | `include/global_http_handler.hpp` | map of tokens and times | `genAuthKey`, `Authorization` |
| cache manager | `include/cache_manager.hpp` | map of expiring values, `shared_mutex`, refresh thread | `Get`, `UpdateCache`, `RefreshLoop`, destructor |
| server main | `include/main_http_server.hpp`, `src/main.cpp` | `g_terminate`, the objects of `http_server` | start, serve, stop |
| enumerations, checks | `include/enum_util.hpp`, `include/common_utils.hpp` | none | `StringToEnum`, `checkCondition` |
| macro variables | `include/macro_variable_util.hpp` | none | `replace`, `replaceMacroVariable` |
| text utilities | `src/string_utils.cpp`, `include/string_utils.h` | none | url encoding, salting, splitting, truncation, hash |
| command line | `include/cmdline.h` (vendored) | options, their values, errors | `parse_check`, `parse` |
| hash | `src/MurmurHash3.cpp` (vendored) | none | `MurmurHash3_x86_128` |

**How they interact.** `http_server` hands the command line to
`cmdline::parser`, which returns or ends the process. It then builds the LevelDB
wrapper, the Redis client, the handler that refers to both, and the libhv
server, in that order, and waits for a signal. libhv runs the handlers on
threads of its own choosing. A handler calls `checkCondition` and `StringToEnum`
on the parameters, `hash` on the serialized request, the two stores,
`MacroVariableUtil::replace` on the template of the advertiser, and
`requests::request`. The pool, the middleware `Authorization` and the cache
manager are finished components that nothing installs yet; they are modelled
with the callers they are written for.

**What is hard.** Threads share the Redis connection, the token map, the pool
and the cache. The two stores, the configuration and the advertiser fail
independently, between any two steps of a handler. The process dies, the machine
loses power, and LevelDB acknowledges writes before they are on disk. Loops over
text may not end. The refresh thread holds the mutex while it calls foreign
code. On shutdown, threads still use what `main` is about to destroy.
`PROJECT.json` lists each hazard at its line.

**What makes each part correct.** Handler: nothing is answered, cached or
forwarded that is not on record. LevelDB: reads follow writes, and a loss of
power keeps a prefix of whole calls. Pool: no object lost or shared, no waiter
forgotten, no request but the caller's own. Tokens: accepted only within the
window, and not after a refusal. Cache: the iteration is undisturbed, answers
are recent, and nobody waits for ever. Main: no handler outlives the stores, a
signal stops the process. Text: each conversion agrees with an independent
definition, and `replace` returns. Command line: the process goes on exactly
with a line that is correct as a whole. Hash: no byte of a request, up to the
first NUL, is left out of its id.

## 2. The modules

    TracerService ── INSTANCE ── LevelDBStore ── EXTENDED by ── LevelDBSession
        │        └── INSTANCE ── RedisClient
        └── implements ── TracerLedger
    HttpClientPools ── implements ── ResourcePool
    CacheManager ── implements ── RecentReads
    GlobalHttpHandler      MainHttpServer      CommandLine
    TextUtils ── EXTENDS ── MacroVariableUtil
        ├────── EXTENDS ── MurmurHash3
        └────── EXTENDS ── CommandText ── EXTENDS ── EnumUtil ── EXTENDS ── StringUtils

`MC*.tla` instantiate them for TLC; `*Proofs.tla` hold the theorems. Definitions
headed *Mutation* are slips a programmer could make in the definition below
them. They occur in no specification; each is there to show that a property
notices.

**TracerService.** A worker's `pc` is the point of the handler it has reached; a
handler is split at each access to something that outlives it.

| code | action |
|---|---|
| `tracer` 9–17, `extract2TracerReqProto` | `ReceiveTracer` |
| `Put` (19) | `PutRequest`, `PutFails` |
| `set` (21) | `CacheRequest`; two threads at once `CacheRace` |
| `ProtoBufGet("config")` (23) | `ReadConfig` |
| `replace` and `request` (26–44) | `Forward` |
| `return 200` | `Reply`, `ReplyCallback` |
| `callback` 50–58 | `ReceiveCallback`, `Lookup`, `LookupThrows` |
| an exception leaves the handler | `Unwind` |
| environment | `Start`, `Provision`, `Crash`, `PowerLoss`, `SyncLog`, `Tick` |

- Requests: the fields that decide what a handler does are kept; `action_id`
  stands for all those that are only copied. `Hash` is the hash of the bytes up
  to the first NUL, because `strlen` stops there; Murmur is a parameter here
  (MurmurHash3 has what it computes).
- LevelDB: `versions` holds the contents a loss of power may leave; the wrapper
  never sets `sync`. A `Put` that fails is taken to leave no record.
- Redis: `main` builds the client with an empty host, so the connection is
  usually null; both outcomes are in the model. The client never reconnects, and
  does not look at the reply to SELECT beyond its being there. Two threads in
  `set` race on hiredis: the connection may be broken, and the commands mixed,
  with the key of one and the value of the other. That nothing else reaches
  Redis then is an assumption of `CacheRace`. The process may die, as always.
- `Get` throws when LevelDB cannot be read, whether the record exists or not
  (`ReadConfig`, `LookupThrows`).
- Requests with one `Hash` share a record. That is how the program works, and
  the properties hold in spite of it: no id gets a record of another id.
- The `shared_ptr` that `tracer` makes of the framework's own request pointer
  frees it under the framework: the handler answers, or the process dies
  (`Forward`, `Crash`).
- The branch `tracerReq == nullptr` of `callback` is dead: `ProtoBufGet` throws.

**TracerLedger** is what the service promises: records, acknowledgements and
accepted callbacks, without threads, Redis or stages. `ImplementsLedger` is the
refinement. The key of the configuration is in the ledger like any id: `callback`
does not tell them apart, parses the record of the configuration as a request
and may answer 200. So the promise is about keys on record, which are the ids of
requests and those the operator writes (`Reserved`).

**LevelDBSession** drives every operation of the wrapper and keeps a history of
the calls, against which the contents and every possible loss are compared.
`Outcome` says what calls made in some order yield, key by key, without
replaying them: the last call that touches a key leaves its last update of it
there.

**HttpClientPools.** Every critical section is one step (`Get`, `Wait`, `Put`):
none waits for anything but the condition variable. The notification after the
unlock is another (`NotifyOne`), and wakeups may be spurious. An object keeps
the body of an earlier call when it is reused for a request without one, and
that body is sent: `get` and `send` clear nothing. `OwnRequest` says so. A call
that gives a body sends that body, and one that gives none sends exactly the
body the last call left in the object (`left`), an earlier caller's or none.
`post` of a null pointer is undefined behaviour, and ends the process
(`PostNothing`).

**GlobalHttpHandler.** There is no lock, and a check is split where another
thread may come in between:

| code of `Authorization` | action |
|---|---|
| no login needed, no header, a token that is not in the map (80–102) | `AnswerAtOnce` |
| `find`, and the clock (89–104) | `Find` |
| `last_access_time = it->second` (105) | `ReadTime` |
| `it->second = now` (110) | `WriteTime` |
| the two answers | `Accept`, `Refuse` |

Besides these orders a race may end the process (`Restart`). A time is taken to
be read and written whole: it is one machine word. The clock does not go back,
though a `system_clock` may be set back.

**CacheManager.** `locked` is the exclusive lock of `RefreshCache`, which is
held across the loader; lookups and `UpdateCache` are single steps that wait for
it. A call of the loader begins (`Miss`, `Visit`), reads the source (`Load`,
`Reload`) and returns (`LoadReturns`, `Store`). Time is relative: an entry keeps
the ticks it has left. `age` is history: ticks since the value was read from its
source; `answer` is what a caller got from its last call. **RecentReads** is a
cache without map, mutex or expiry times: readings of the source that grow
older, and answers taken from those that are recent. The readings of the model
are the live entries of the map and the values that a caller or the refresh
thread has loaded but not written yet.

How long a caller waits for the mutex is no assumption but a result. Assumed
(`Punctual`, a guard of `Tick`) are only that one call of the loader takes
`MaxLoad` ticks at most and that a thread that waits for nothing takes its next
step within a tick. A value that was loaded may then wait while `RefreshCache`
calls the loader for every key, so an answer is younger than `Bound`: an
interval, a load, and a load for each key. The bound is tight: with one tick
less TLC refutes `ImplementsRecentReads`.

**MainHttpServer.** The stages of `http_server` for several processes, each with
the port and the database directory of its command line (`options`). A port is
given to one process (`Bind`), LevelDB locks a directory (`OpenDatabase`), and a
process that ends leaves both (`Freed`). `HttpServer::stop` stops accepting and
joins its threads (`StopServer`, `JoinServer`), as libhv does.

**CommandLine** is `cmdline::parser::parse_check`. An argument is what the loop
tells apart (`Long`, `Assign`, `Dash`, `Word`), but may also be the text of the
option in front of it. One round of the loop, or one letter of it, is a step:

| code | action |
|---|---|
| `add("help")`, lookup of the letters, 430–450 | `Init` |
| `--name`, `--name=text` (453–480) | `LongOption`, `Assignment` |
| `-abc` (481–513) | `LoneDash`, `InnerLetter`, `LastLetter` |
| anything else | `Other` |
| options that are needed (519–524) | `EndArguments` |
| `check`, `exit(0)`, `exit(1)` | `Check` |

`set_option` is `SetValue` and `SetFlag`. Error texts are left out: `failed`
says that there is one. A second reading takes the command line as a whole:
`Positions` is where arguments are read for themselves and not as the text of
another, `Sets` and `Wrong` what stands at one of them means, `Correct` and
`AsksForHelp` what all of it does. `OutcomeFits` compares the loop with that.
Only an entry of `lookup` that is ambiguous is empty, and then `parse` has
returned, so the two branches for it (490, 501) are dead. **CommandText** has
what depends on characters: the reader of an int in a range, and the splitting
of one text into arguments.

**MurmurHash3** is the 32-bit variant of 128 bits that `string_utils::hash`
calls, on words of four bytes with their carries, because TLC's integers are
narrower than `uint32_t`. A tail is filled with zeros, which changes no lane.
`hash` reads the serialized request up to its first NUL (`CString`), so that is
what `EveryByteCounts` is about: texts with the first NUL at different places
have two lengths, and may have one hash.

**MacroVariableUtil** runs `replace` one substitution a step, over the variables
in any order, and has `replaceMacroVariable` as an operator. `Rendered` is what
a reader of a template expects, one reading from left to right; `Renderable`
says when the order of the substitutions cannot show: macros share no character
(`Separate`), and values have no character of a macro (`Inert`). With other
values the result does depend on the order of the map. **StringUtils** and
**EnumUtil** are operators on texts of bytes (`strtol` on two characters,
`std::stoi` with spaces, signs, trailing text and overflow). The converter of
`splitStringToVector` is a function on the texts it returns for: a token outside
its domain makes it throw, and `SplitOff` drops that token and goes on, as the
`catch` does. `SplitRejoins` states it for both converters of
`main_http_server.hpp`: as texts the tokens make the list again, up to a comma
at its end, and as numbers the list is that of the tokens that are numbers, in
their order. **TextUtils**
states what they promise of the texts `replace` is called with. Recursion is
written with recursive functions, so that theorems reach it.

## 3. The runs

| run | instance | shows |
|---|---|---|
| `tracer_threads` | 2 workers, 2 requests with one id, callbacks for that id and for the key of the configuration, crashes, power losses | `IInv`, the inductive invariant, and `ImplementsLedger` |
| `tracer_days` | 1 worker, 4 days, 2 ids, one of them with a record that does not parse and a template that cannot be rendered | `AckedIsStored`, `SyncedAckIsStored`, `ForwardedIsStored`, `CacheBounded`, `RequestsFinish` |
| `leveldb_prefix` | 2 keys, 3 calls, batches of 2 | `ReadsFollowWrites`, `LossIsAPrefix` |
| `pool_threads` | 3 callers, 2 objects, 2 urls, 2 bodies, calls with a body and without | `NoClientLostOrShared`, `NoLostWakeup`, `OwnRequest`, `ImplementsPool`, `CallsReturn` |
| `auth_threads` | 2 threads, window of 1 minute of 2 ticks, 8 ticks | `IInv`, the inductive invariant, `AcceptedIsFresh` and `ExpiredForGood` |
| `cache_threads` | 2 callers, 2 keys, a loader that may take a tick, and may throw | `IterationUndisturbed`, `ImplementsRecentReads`, `GetReturns`, `ExpiredIsReloaded`, `DestructorReturns` |
| `server_processes` | 2 processes, 2 handlers each, with the same port, the same database or neither | `HandlersHaveStores`, `SignalsStop` |
| `command_line` | every line of up to 4 of 16 arguments, 2 sets of options | `OutcomeFits`, `LastValueCounts`, `RunsConfigured` |
| `text_utils` | about 11 000 short texts and calls, texts of up to 33 bytes to hash | `RendersTemplate`, `RealVariablesEnd`, `MacrosFilled`, `EncodedDecodes`, `InterleavingSeparates`, `SplitRejoins`, `NumbersAreExact`, `QuotedArgumentsSurvive`, `EveryByteCounts` |

The type invariants of the pool, the cache and the command line are checked
beside these, those of the tracer and the tokens as part of `IInv`. That Redis
names no id LevelDB does not hold (`CachedIsStored`) is a part of the `IInv` of
the tracer too, so that it is checked where two threads fill the cache. The
largest runs are `tracer_threads` (1.4 million states), `pool_threads` and
`tracer_days` (0.6 million each). Three runs show where the code disagrees with
its comments or tests:

| run | violated | disagreement |
|---|---|---|
| `auth_relogin` | `LoginRevives` | an expired token is made again by a new login, but `map::insert` keeps the old time: the user is locked out until a restart |
| `server_port` | `StartedIsListening` | the result of `server.start()` is ignored; the log says "start success" though the port is taken |
| `text_letters` | `LettersAreUnknown` | `std::stoi` takes `1a` for 1; `test/enum_util_test.cpp:18` expects UNKNOWN of a random string |

Other disagreements met while modelling, stated here without a run: whole
minutes are compared, so a token lives for just under 31 minutes and not 30
(`global_http_handler.hpp:103,107`); an exception of a loader ends the refresh
thread while `running_` stays true (`cache_manager.hpp:75`); callbacks are
matched in LevelDB, which forgets nothing, although a comment and the README
speak of Redis and three days (`tracer_http_handler.cpp:20`);
`replaceMacroVariable`, which nothing calls, is to blank the macros that are
left (`macro_variable_util.hpp:39`), but passes over a macro close behind one
that it blanked (`:47`): `MacrosFilled` says where it does replace all, and is proved.

### Bounds, and why they are enough

- Workers 2: the races are between two threads (`CacheRace`, a record rewritten
  while it is looked up). Ids 2: one may be lost while the other stays. The
  theorems remove both bounds.
- `MaxDay` 3 is the day on which Redis gives up the entries of the first. It
  bounds `day` in the guard of `Tick`.
- `MaxCalls` 3 and `MaxBatch` 2: a batch with the same key twice, and a loss in
  front of, between and behind calls. They are guards of `LevelDBSession`.
- Pool: 3 callers and 2 objects give a waiter, a caller that overtakes it and a
  caller that notifies. One call of each kind (`MCCalls`), with two urls and two
  bodies, tells an object's own call from an earlier one. The safety theorems
  hold for any calls and any number of callers.
- `MaxNow` 8 is two windows of `AcceptedIsFresh`, so a token can be used,
  expire and be tried again, and two checks can overlap in every way.
- `Interval` 2 and `MaxLoad` 1: an entry is alive, in its last tick, and
  expired; a load may outlast a tick, and with 2 keys a caller waits through the
  loads of a whole refresh. One value is enough: properties compare
  keys, ages and lives, and `ImplementsRecentReads` is proved for any number.
- Command lines: four arguments are an option that takes another as its text,
  the same option again, and a mistake in front of or behind them. Ports have
  two digits here, 10 to 35 for 1000 to 35565.
- Hashes: lengths below, at and beyond one and two blocks of 16 bytes; each byte
  is changed to three others, NUL among them.
- Texts: up to three pieces of template (macros of two variables, a mark, a
  letter that names a variable and one that does not), each with every map over
  five values; texts of up to four of the bytes the conversions tell apart.
  `IntMax` 99 makes four digits overflow.

- Processes: two, with two ports and two directories, so that they compete for
  one, for the other, for both, or for nothing. The theorems remove the bounds.

Symmetry is used only in runs without liveness properties.

### Fairness

- Each handler step is weakly fair (`TracerService`): the operating system
  schedules threads, and LevelDB, Redis and the advertiser answer or break the
  connection. The client sets no timeout on Redis commands, so a server that
  accepts and never answers is outside the model. Requests, crashes and days
  are not fair. `RequestsFinish` excludes templates that cannot be rendered.
- Pool: each thread's own steps are weakly fair, arrivals are not. A single call
  may starve, overtaken by newcomers for ever; so `CallsReturn` is about all
  of them together. It implies that each call returns once there are no more.
- Cache: the refresh thread and the destructor are weakly fair. Callers are
  strongly fair, because the mutex is free for a whole interval between two
  refreshes. Time is strongly fair: the clock does not stop, but a tick of the
  model has to wait until the threads that can run have run (`Punctual`). That a
  loader does not call the cache it fills is assumed; it would wait for its own
  thread.
- Main: the main thread and handlers that are not stuck are weakly fair.
- `replace`: its thread runs on.

## 4. The proofs

All proofs are about any number of threads, keys, ids, ticks and processes,
under the named assumptions of the modules (distinct special values, natural
bounds, finite sets of callers and objects for the pool). No leaf is left open.

- **TracerServiceProofs.** `AckedIsStored` is not inductive: `Reply` needs to
  know that the request of its handler is on record, and `PowerLoss` that
  contents that come back hold no id that `db` lacks. `IInv` adds both:
  `StageStored` (a handler past `Put` works for a request on record) and
  `Addressed` (in every version a record sits under its own id, and `db` has
  every id a version has, since nothing is deleted). `Invariance` proves `IInv`
  action by action; `AckedSafe`, `SyncedAckSafe`, `ForwardedSafe` and
  `TypeCorrect` follow. `CacheExpires` has an invariant of its own, with the
  clock. `Refinement` maps each step to a step of the ledger or a stutter.
- **HttpClientPoolsProofs.** `NothingLostOrShared` by cases on who holds what;
  `WakeupsAreNotLost` counts the threads that are about to take or notify;
  `CallersAreIsolated` rests on no object being shared: hence nobody but the
  last caller changed the body an object was put back with (`LeftAlone`).
  `Refinement` to the resource pool.
- **GlobalHttpHandlerProofs.** `TimesLag`: neither the time in the map nor what
  a thread read there runs ahead of the last use, since a thread that read the
  clock early only sets it back. With the rounding lemma for minutes this gives
  `FreshAcceptance`. `Past`: when a check that began alone refuses a token, the
  time in the map is beyond the window for whoever finds it again, and whoever
  found it meanwhile reads that time; so no thread writes one, nor is about to
  accept. That gives `ExpiryIsFinal`. It is about checks that began alone: of
  two that overlap, one may refuse and the other accept later.
- **CacheManagerProofs.** `AgesBounded`: the age of an entry and what it has left
  add up to `Bound` at most; a tick moves one to the other. It rests on
  `WaitBounded`: the age of what a caller holds while it waits for the mutex and
  the ticks the refresh may still keep it (`Remaining`) add up to one load and
  one for each key at most, and a caller that waited through one refresh does
  not wait through the next (`Rested`: that one is a tick away). `Refinement`
  needs time for hits and for loads that are written: both are answers from a recent reading. A load is a
  new reading; what a load or the refresh thread overwrites is forgotten; a tick
  makes every reading older, and every other step is a question, a failure or a
  stutter. `IterationSafe` follows from the mutex.
- **MainHttpServerProofs.** `HandlersSafe` from the stage of the main thread and
  the lock: the type invariant says that a directory is locked by just the
  process that is in the stages with a database and was given that directory.
- **CommandLineProofs.** `Complete` adds to the type invariant that the value of
  each option fits what is known of it, and that a needed option is there past
  the loop unless an error is on record. Every step of the loop sets at most one
  option (`LoopSets`), so what `set_option` keeps is shown once. `Configured`
  follows, and `TypeCorrect`: the loop never reads behind the last argument.
  `Meaning` relates the loop to the line read as a whole. While it runs
  (`ReadSoFar`), an option is set exactly if a position in front of the next
  one, or a letter in front of the next letter, sets it; there is an error
  exactly if one of these is wrong; and a value is the text that the last of the
  positions that give one gives. Behind the loop (`ReadAll`) that is all of the
  line. `EndsAsMeant` and `LastCounts` are the two properties.
- **LevelDBSessionProofs.** The two properties and the type invariant are
  inductive together. A call that is committed is one call more behind every
  prefix (`OneMore`), and a prefix of the longer log is the prefix it was, so
  `CommitInv` serves `Put`, `Delete` and batches alike. It gives
  `ReadsAreOrdered` and `LossesArePrefixes`.
- **TextUtilsProofs.** What the text utilities compute, for texts of any length
  and any int. The induction theorems of the library cannot be used here, since
  they take an operator as a parameter. Instead, the sizes at which a statement
  fails are a set, and a set of numbers that is not empty has a least element
  (`LeastOf`). `Recursion` says, for a set, a size and the parts of a recursive
  function, that there is a function that its definition describes. With it
  `urlDecode`, the reader of numbers, the splitter and `Rendered` become
  equations (`UrlDecodeUnfolds`, `SplitUnfolds`, `RenderedUnfolds`), and the
  folds of the community modules are unfolded the same way (`FlattenStep`,
  `ReadStep`, `ConvertedStep`). The theorems are `Decodes`,
  `Separates`, `Exact`, `Rejoins`, `Survive`, `Renders` and `Fills`.
- `Renders` needs an invariant of the loop, `RendersSoFar`: the text that
  `replace` has so far is rendered to what the template is rendered to, its
  macros still share nothing, and a variable the loop has left is nowhere in it.
  A substitution makes no macro and moves those behind it (`OccurrencesMove`),
  hence keeps macros apart (`FilledStaysTidy`). It keeps what the text is
  rendered to (`FilledRendersAlike`): from the place of the substitution on, and
  then from every place in front of it, backwards. TLC checked `RendersSoFar` on
  the instance of `text_utils` first. The attempt to prove it showed that
  `Separate` has to exclude different macros at the same place: of the names `a`
  and `a__a`, the macro of one begins that of the other, which the run, with `a`
  and `b`, could not tell.
- `Fills` first has to show that the function `LoopResult` has the value its
  definition says. Where the text put in has marks of its own, the code may not
  return, and the function has no value; with a text without underscores, every
  round leaves fewer underscores that the search has not passed
  (`FewerUnderscores`), since it passes those of the macro and adds none. Then
  the text is cut where the search stands (`Passed`): every mark it can still
  find is in the second part. A round fills the first macro of that part
  (`LoopFillsOne`), and the search is again in front of the rest exactly if the
  text is no shorter than the macro, which is what `Covers` asks of every macro
  and what the rest of the text inherits (`CoversRest`). For the only macro of a
  text it does not matter (`LoopFillsOnly`).

- `BytesCount` is about the hash of texts of any length. Each operation on words
  is one-to-one in the operand that carries the difference: `ExclusiveOr` bit by
  bit, that with a shift to the right from the highest byte down (`Differ` of
  two bytes gives the one back from the other), rotations byte by byte, sums
  because carries can be undone from the least byte, and products because the
  factors are odd, so a word times one can be divided by it from the least byte
  on. Hence a block that differs in one byte leaves lanes that differ (`Absorb`,
  `Stir`), lanes that differ still do behind equal blocks and an equal tail, and
  `Summed` and `fmix32` keep them apart. Where the tail differs, the lanes in
  front of it are equal. The converse, that texts equal up to a NUL have one
  hash, is what `CString` says. Bytes are added and multiplied behind an
  operator, `Octet`, since the provers would otherwise enumerate them, and
  `Differ` is written out, since exclusive or is `RECURSIVE` in the community
  modules.

**Only model-checked:** the liveness properties `RequestsFinish`,
`CallsReturn`, `GetReturns`, `ExpiredIsReloaded`, `DestructorReturns`,
`SignalsStop` and `RealVariablesEnd`, which need fairness. Every invariant and
every action property of a passing run, and all three refinements, are proved.
The three runs that expect a violation are evidence of TLC alone.

**What no property covers.** `PROJECT.json` has a note at each such hazard.
Values that contain their own macro keep `replace` in its loop for ever, since
the handler does not call `isRealVariable`; `RequestsFinish` and `SignalsStop`
promise nothing for such a handler. Values that contain or complete other macros
give a text that depends on the order of the map. A filler shorter than the
macros leaves some of them. An escape of two characters that are no digits is
read as `strtol` reads them; a port with spaces, letters or too many digits is
read as `CastsToInt` says, and the properties of the loop do not depend on it;
nothing states what these should mean. Nothing refuses a conversion after three
days. Checks of a token that overlap may disagree.

## 5. Not modelled

- MD5, `randomString`, protobuf serialization, and the variants of MurmurHash3
  that nothing calls: arithmetic of libraries or generated code without state;
  parameters stand for what the handlers depend on.
- `truncate_string`: one condition, for the log.
- Of `cmdline.h`: the texts of errors and of the usage, and `oneof`, which
  nothing uses. `MainHttpServer` leaves it open whether the arguments parse, and
  takes what they give from `Options`; `CommandLine` says when and which.
- `RedisClient::get`, which nothing calls.
- Logging, the interface `track_event.h`, tests and build files.
- `response_status` and `errorHandler` keep no state. With the default argument
  `NULL` for a `std::string` they throw; nothing installs a caller of that kind.
- A system clock that is set back, LevelDB files that are damaged (other than
  reads that fail), and libhv itself beyond what is said above.

## 6. Plan

Order: the tracer and its stores first, then the components with threads, then
the lifecycle, then pure algorithms. Done: every module of section 2, with the
runs of section 3 and the theorems of section 4.

What would come next, when the code grows that way:

1. `RedisClient::get`, once a handler reads the cache (reads after writes over a
   connection that breaks).
2. `MainHttpServer` composed with `TracerService`, so that a shutdown happens in
   the middle of requests.
3. A session store that the token map implements, once it has a lock.
