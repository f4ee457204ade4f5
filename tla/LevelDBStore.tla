---------------------------- MODULE LevelDBStore ----------------------------
(***************************************************************************)
(* LevelDBWrapper (include/leveldb_wrapper.hpp): the embedded key-value    *)
(* store that keeps the traced requests.                                   *)
(*                                                                         *)
(* Every write of the wrapper uses the default WriteOptions, so it is      *)
(* acknowledged once the operating system has it and reaches the disk some *)
(* time later.  A process that dies loses nothing; a machine that loses    *)
(* power comes back with a prefix of the write log.  `versions' holds the  *)
(* contents after each write since the last one known to be on disk: those *)
(* are the contents such a prefix can yield.                               *)
(***************************************************************************)
EXTENDS Naturals, Sequences

CONSTANTS
  Keys,      \* the keys of the store
  Values,    \* the byte strings stored under them
  NoValue    \* what a key without a record holds

ASSUME NoValueIsNoRecord == NoValue \notin Values

VARIABLES
  db,        \* contents as Get sees them
  versions   \* contents a power loss may leave behind

Contents == [Keys -> Values \cup {NoValue}]

StoreTypeOK ==
  /\ db \in Contents
  /\ versions \in SUBSET Contents
  /\ db \in versions

(* DB::Open with create_if_missing: a new database is empty.               *)
OpenEmpty ==
  /\ db = [k \in Keys |-> NoValue]
  /\ versions = {db}

(* Get succeeds exactly on the keys that are stored and throws otherwise.  *)
Found(k) == db[k] # NoValue

(* One record of the write log.                                            *)
Commit(contents) ==
  /\ db' = contents
  /\ versions' = versions \cup {contents}

Put(k, v) == Commit([db EXCEPT ![k] = v])

Delete(k) == Commit([db EXCEPT ![k] = NoValue])

(* Mutation: the earliest update of a key counts.                          *)
BatchedEarliest(updates) ==
  [k \in Keys |->
     LET hits == {i \in DOMAIN updates : updates[i].key = k}
     IN  IF hits = {} THEN db[k]
         ELSE updates[CHOOSE i \in hits : \A j \in hits : i <= j].value]

(* A batch is one log record; a later update of a key overrides an earlier *)
(* one of the same batch.                                                  *)
Batched(updates) ==
  [k \in Keys |->
     LET hits == {i \in DOMAIN updates : updates[i].key = k}
     IN  IF hits = {} THEN db[k]
         ELSE updates[CHOOSE i \in hits : \A j \in hits : j <= i].value]

(* Mutation: each update is a record of its own.                           *)
WriteOneByOne(updates) ==
  /\ db' = Batched(updates)
  /\ versions' = versions \cup {Batched(SubSeq(updates, 1, i)) : i \in DOMAIN updates}

WriteBatch(updates) == Commit(Batched(updates))

(* The log reaches the disk.                                               *)
Sync ==
  /\ versions' = {db}
  /\ UNCHANGED db

(* The machine fails and restarts: the log is replayed up to its last      *)
(* complete record on disk.                                                *)
PowerLoss ==
  \E contents \in versions :
    /\ db' = contents
    /\ versions' = {contents}

=============================================================================
