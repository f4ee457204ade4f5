--------------------------- MODULE LevelDBSession ---------------------------
(***************************************************************************)
(* A program that uses LevelDBWrapper (include/leveldb_wrapper.hpp) alone: *)
(* every operation of the wrapper, on a machine that may lose power.       *)
(*                                                                         *)
(* The history keeps what was asked for, so that what the store holds can  *)
(* be compared with it: `log' has one entry for each call, the sequence of *)
(* its updates.                                                            *)
(***************************************************************************)
EXTENDS LevelDBStore

CONSTANTS
  MaxCalls,    \* bound on the calls
  MaxBatch     \* bound on the updates of a batch

ASSUME SessionAssumption == MaxCalls \in Nat /\ MaxBatch \in Nat

VARIABLES
  log,         \* the calls whose effect is in db, oldest first
  onDisk       \* how many of them reached the disk

vars == <<db, versions, log, onDisk>>

Updates == [key : Keys, value : Values]
Batches == UNION {[1 .. n -> Updates] : n \in 0 .. MaxBatch}

Init ==
  /\ OpenEmpty
  /\ log = <<>>
  /\ onDisk = 0

Logged(updates) ==
  /\ Len(log) < MaxCalls
  /\ log' = Append(log, updates)
  /\ UNCHANGED onDisk

CallPut(k, v) == Put(k, v) /\ Logged(<<[key |-> k, value |-> v]>>)

CallDelete(k) == Delete(k) /\ Logged(<<[key |-> k, value |-> NoValue]>>)

CallWriteBatch(updates) == WriteBatch(updates) /\ Logged(updates)

SyncLog ==
  /\ Sync
  /\ onDisk' = Len(log)
  /\ UNCHANGED log

-----------------------------------------------------------------------------
(* What a call leaves under a key: the value of its last update of it.     *)
Touches(call, k) == \E j \in DOMAIN call : call[j].key = k

Leaves(call, k, v) ==
  \E j \in DOMAIN call :
    /\ call[j].key = k /\ call[j].value = v
    /\ \A m \in DOMAIN call : call[m].key = k => m <= j

(* The contents that calls made in this order yield: each key has what the *)
(* last call that touches it leaves there, and no record if none does.     *)
Outcome(calls, contents) ==
  \A k \in Keys :
    \/ /\ contents[k] = NoValue
       /\ \A i \in DOMAIN calls : ~Touches(calls[i], k)
    \/ \E i \in DOMAIN calls :
         /\ Leaves(calls[i], k, contents[k])
         /\ \A n \in DOMAIN calls : Touches(calls[n], k) => n <= i

(* The calls that a loss of power leaves standing: the contents tell how   *)
(* many, and the disk held at least onDisk of them.                        *)
LosePower ==
  /\ PowerLoss
  /\ \E n \in onDisk .. Len(log) :
       /\ Outcome(SubSeq(log, 1, n), db')
       /\ log' = SubSeq(log, 1, n)
       /\ onDisk' = n

Next ==
  \/ \E k \in Keys, v \in Values : CallPut(k, v)
  \/ \E k \in Keys : CallDelete(k)
  \/ \E updates \in Batches : CallWriteBatch(updates)
  \/ SyncLog
  \/ LosePower

Spec == Init /\ [][Next]_vars

-----------------------------------------------------------------------------
(***************************************************************************)
(* Properties.                                                             *)
(***************************************************************************)
(* Every variable has its type, and no more calls are on disk than made.   *)
TypeOK ==
  /\ StoreTypeOK
  /\ log \in Seq(Seq([key : Keys, value : Values \cup {NoValue}]))
  /\ onDisk \in 0 .. Len(log)

(* Get sees the calls in the order they were made, a batch as its updates  *)
(* in their order (Put, Delete and WriteBatch of LevelDBWrapper).          *)
ReadsFollowWrites == Outcome(log, db)

(* Whatever a loss of power leaves behind, it is the outcome of a whole    *)
(* number of calls, among them all that had reached the disk: a batch is   *)
(* kept or lost as a whole, and never one call without an earlier one.     *)
LossIsAPrefix ==
  \A contents \in versions :
    \E n \in onDisk .. Len(log) : Outcome(SubSeq(log, 1, n), contents)

=============================================================================
