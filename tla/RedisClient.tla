----------------------------- MODULE RedisClient -----------------------------
(***************************************************************************)
(* RedisClient (include/redis_client.hpp): one hiredis connection, opened  *)
(* by the constructor, and the SET and GET commands sent over it, together *)
(* with the entries of the Redis server on the other side.                 *)
(*                                                                         *)
(* The client never reconnects: a connection that could not be opened is a *)
(* null context for the life of the object, and a context that hit an I/O  *)
(* error answers every later command with no reply.                        *)
(***************************************************************************)
EXTENDS Naturals

CONSTANTS
  Keys,       \* keys of the cache
  Values,     \* the byte strings stored under them
  NoEntry,    \* what the server holds for an absent or expired key
  MaxDay      \* bound on the clock

VARIABLES
  context,    \* state of the redisContext
  entries,    \* what the server holds
  day         \* the clock, in days

(* The retention times, in the unit of the clock (redis_client.hpp:15-18). *)
ONE_DAY == 1

(* An entry set without a time to live never expires.                      *)
Never == MaxDay + 3 * ONE_DAY + 1

Contexts == {"null", "ok", "err"}
Entries == [value : Values, expires : 1 .. Never]
Replies == {"OK", "error", "none"}

RedisTypeOK ==
  /\ context \in Contexts
  /\ entries \in [Keys -> Entries \cup {NoEntry}]
  /\ day \in 0 .. MaxDay

ServerEmpty ==
  /\ entries = [k \in Keys |-> NoEntry]
  /\ day = 0

Cached(k) == entries[k] # NoEntry

(* What _connect leaves behind, given what the server answers.  A SELECT   *)
(* that is refused is not told from one that succeeds: only a missing      *)
(* reply is tested.                                                        *)
ContextAfter(connected, password, auth, select) ==
  IF connected /\ (password => auth = "OK") /\ select # "none"
  THEN "ok" ELSE "null"

(* The constructor, with the default non-empty password.                   *)
Connect ==
  \E connected \in BOOLEAN, auth, select \in Replies :
    context' = ContextAfter(connected, TRUE, auth, select)

EntryFor(v, ttl) ==
  [value |-> v, expires |-> IF ttl > 0 THEN day + ttl ELSE Never]

(* set(key, value, ttl): nothing is sent without a usable context.  When   *)
(* the connection breaks the server may or may not have executed the       *)
(* command.  The result, TRUE only for the reply "OK", is `reply = OK'.    *)
Set(k, v, ttl) ==
  \/ /\ context # "ok"
     /\ UNCHANGED <<context, entries>>
  \/ /\ context = "ok"
     /\ \E reply \in Replies, executed \in BOOLEAN :
          /\ reply = "OK" => executed
          /\ reply = "error" => ~executed
          /\ context' = IF reply = "none" THEN "err" ELSE "ok"
          /\ entries' = IF executed
                        THEN [entries EXCEPT ![k] = EntryFor(v, ttl)]
                        ELSE entries

(* A day passes and the server drops what has expired.                     *)
Tick ==
  /\ day < MaxDay
  /\ day' = day + 1
  /\ entries' = [k \in Keys |->
                   IF entries[k] # NoEntry /\ entries[k].expires > day'
                   THEN entries[k] ELSE NoEntry]

=============================================================================
