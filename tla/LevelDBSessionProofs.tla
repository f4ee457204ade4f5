------------------------ MODULE LevelDBSessionProofs ------------------------
(***************************************************************************)
(* Proofs about LevelDBSession, for every set of keys and values and any   *)
(* number of calls and updates.  Both properties are inductive with the    *)
(* type invariant: a call adds itself behind the calls that were made, and *)
(* what earlier prefixes of the calls yield stays what it was.             *)
(***************************************************************************)
EXTENDS LevelDBSession, SequenceTheorems, WellFoundedInduction, TLAPS

Update == [key : Keys, value : Values \cup {NoValue}]

Inv == TypeOK /\ ReadsFollowWrites /\ LossIsAPrefix

-----------------------------------------------------------------------------
(* A set of natural numbers that is not empty has a least element.         *)
LEMMA LeastOf ==
  ASSUME NEW S \in SUBSET Nat, S # {}
  PROVE  \E n \in S : \A m \in S : n <= m
<1>1. \E n \in S : \A m \in S : ~ (<<m, n>> \in OpToRel(<, Nat))
  BY WFMin, NatLessThanWellFounded
<1>2. PICK n \in S : \A m \in S : ~ (<<m, n>> \in OpToRel(<, Nat))
  BY <1>1
<1>3. \A m \in S : ~ (m < n)
  BY <1>2 DEF OpToRel
<1> QED
  BY <1>3

(* Of the updates of a batch that touch a key there is a last one.         *)
LEMMA LastOf ==
  ASSUME NEW u \in Seq(Update), NEW S \in SUBSET (DOMAIN u), S # {}
  PROVE  \E i \in S : \A j \in S : j <= i
<1> DEFINE T == {Len(u) - i : i \in S}
<1>1. DOMAIN u = 1 .. Len(u) /\ Len(u) \in Nat
  OBVIOUS
<1>2. T \in SUBSET Nat /\ T # {}
  BY <1>1
<1> HIDE DEF T
<1>3. PICK n \in T : \A m \in T : n <= m
  BY <1>2, LeastOf
<1>4. PICK i \in S : n = Len(u) - i
  BY <1>3 DEF T
<1>5. ASSUME NEW j \in S PROVE j <= i
  <2>1. Len(u) - j \in T
    BY DEF T
  <2> QED
    BY <1>1, <1>3, <1>4, <2>1
<1> QED
  BY <1>5

LEMMA LastTyped ==
  ASSUME TypeOK, NEW u \in Seq(Update)
  PROVE  Batched(u) \in Contents
<1> SUFFICES ASSUME NEW x \in Keys PROVE Batched(u)[x] \in Values \cup {NoValue}
  BY DEF Batched, Contents
<1> DEFINE hits == {i \in DOMAIN u : u[i].key = x}
           last == CHOOSE i \in hits : \A j \in hits : j <= i
<1>1. Batched(u)[x] = IF hits = {} THEN db[x] ELSE u[last].value
  BY DEF Batched
<1>2. CASE hits # {}
  <2>1. last \in hits
    BY <1>2, LastOf
  <2> HIDE DEF last
  <2>2. u[last] \in Update
    BY <2>1
  <2> QED
    BY <1>1, <1>2, <2>2 DEF Update
<1>3. CASE hits = {}
  BY <1>1, <1>3 DEF TypeOK, StoreTypeOK, Contents
<1> QED
  BY <1>2, <1>3

(* A batch leaves what it leaves by itself, and other keys as they were.   *)
LEMMA BatchedIs ==
  ASSUME TypeOK, NEW u \in Seq(Update), NEW k \in Keys
  PROVE  /\ ~Touches(u, k) => Batched(u)[k] = db[k]
         /\ Touches(u, k) => Leaves(u, k, Batched(u)[k])
<1> DEFINE hits == {i \in DOMAIN u : u[i].key = k}
           last == CHOOSE i \in hits : \A j \in hits : j <= i
<1>1. Batched(u)[k] = IF hits = {} THEN db[k] ELSE u[last].value
  BY DEF Batched
<1>2. CASE hits # {}
  <2>1. last \in hits /\ \A j \in hits : j <= last
    BY <1>2, LastOf
  <2> HIDE DEF last
  <2> QED
    BY <1>1, <1>2, <2>1 DEF Touches, Leaves
<1>3. CASE hits = {}
  BY <1>1, <1>3 DEF Touches
<1> QED
  BY <1>2, <1>3

(***************************************************************************)
(* One call more: each key holds what the call leaves there, if it touches *)
(* it, and what it held before, if not.                                    *)
(***************************************************************************)
LEMMA OneMore ==
  ASSUME NEW calls \in Seq(Seq(Update)), NEW call \in Seq(Update),
         NEW before \in Contents, NEW after \in Contents, Outcome(calls, before),
         \A k \in Keys : /\ ~Touches(call, k) => after[k] = before[k]
                         /\ Touches(call, k) => Leaves(call, k, after[k])
  PROVE  Outcome(Append(calls, call), after)
<1> DEFINE more == Append(calls, call)
<1>1. /\ DOMAIN calls = 1 .. Len(calls) /\ DOMAIN more = 1 .. Len(calls) + 1
      /\ Len(calls) \in Nat
      /\ \A i \in DOMAIN calls : more[i] = calls[i]
      /\ more[Len(calls) + 1] = call
  OBVIOUS
<1> HIDE DEF more
<1> SUFFICES ASSUME NEW k \in Keys
             PROVE  \/ /\ after[k] = NoValue
                       /\ \A i \in DOMAIN more : ~Touches(more[i], k)
                    \/ \E i \in DOMAIN more :
                         /\ Leaves(more[i], k, after[k])
                         /\ \A n \in DOMAIN more : Touches(more[n], k) => n <= i
  BY DEF Outcome, more
<1>2. CASE Touches(call, k)
  BY <1>1, <1>2
<1>3. CASE ~Touches(call, k)
  <2>1. after[k] = before[k]
    BY <1>3
  <2>2. CASE before[k] = NoValue /\ \A i \in DOMAIN calls : ~Touches(calls[i], k)
    BY <1>1, <1>3, <2>1, <2>2
  <2>3. CASE \E i \in DOMAIN calls :
               /\ Leaves(calls[i], k, before[k])
               /\ \A n \in DOMAIN calls : Touches(calls[n], k) => n <= i
    <3>1. PICK i \in DOMAIN calls :
            /\ Leaves(calls[i], k, before[k])
            /\ \A n \in DOMAIN calls : Touches(calls[n], k) => n <= i
      BY <2>3
    <3>2. i \in DOMAIN more /\ Leaves(more[i], k, after[k])
      BY <1>1, <2>1, <3>1
    <3>3. \A n \in DOMAIN more : Touches(more[n], k) => n <= i
      BY <1>1, <1>3, <3>1
    <3> QED
      BY <3>2, <3>3
  <2> QED
    BY <2>2, <2>3 DEF Outcome
<1> QED
  BY <1>2, <1>3

(* A call is committed: everything there was stays a prefix.               *)
LEMMA CommitInv ==
  ASSUME Inv, NEW call \in Seq(Update), NEW contents \in Contents,
         Commit(contents), Logged(call),
         \A k \in Keys : /\ ~Touches(call, k) => contents[k] = db[k]
                         /\ Touches(call, k) => Leaves(call, k, contents[k])
  PROVE  Inv'
<1>1. /\ log \in Seq(Seq(Update)) /\ db \in Contents /\ versions \subseteq Contents
      /\ Len(log) \in Nat /\ onDisk \in 0 .. Len(log)
  BY DEF Inv, TypeOK, StoreTypeOK, Update
<1>2. /\ log' = Append(log, call) /\ db' = contents /\ onDisk' = onDisk
      /\ versions' = versions \cup {contents}
  BY DEF Logged, Commit
<1>3. log' \in Seq(Seq(Update)) /\ Len(log') = Len(log) + 1
  BY <1>1, <1>2
<1>4. TypeOK'
  BY <1>1, <1>2, <1>3 DEF TypeOK, StoreTypeOK, Contents, Update
<1>5. ReadsFollowWrites'
  BY <1>1, <1>2, OneMore DEF Inv, ReadsFollowWrites
<1>6. \A n \in onDisk .. Len(log) : SubSeq(log', 1, n) = SubSeq(log, 1, n)
  BY <1>1, <1>2
<1>7. SubSeq(log', 1, Len(log')) = log'
  BY <1>3, SubSeqFull
<1>8. LossIsAPrefix'
  <2> SUFFICES ASSUME NEW c \in versions'
               PROVE  \E n \in onDisk' .. Len(log') : Outcome(SubSeq(log', 1, n), c)
    BY DEF LossIsAPrefix, Outcome
  <2>1. CASE c \in versions
    <3>1. PICK n \in onDisk .. Len(log) : Outcome(SubSeq(log, 1, n), c)
      BY <2>1 DEF Inv, LossIsAPrefix
    <3>2. n \in onDisk' .. Len(log')
      BY <1>1, <1>2, <1>3
    <3>3. SubSeq(log', 1, n) = SubSeq(log, 1, n)
      BY <1>6
    <3> QED
      BY <3>1, <3>2, <3>3, Zenon
  <2>2. CASE c = contents
    <3>1. Len(log') \in onDisk' .. Len(log')
      BY <1>1, <1>2, <1>3
    <3>2. Outcome(log', c)
      BY <1>2, <1>5, <2>2 DEF ReadsFollowWrites
    <3> QED
      BY <1>7, <3>1, <3>2, Zenon
  <2> QED
    BY <1>2, <2>1, <2>2
<1> QED
  BY <1>4, <1>5, <1>8 DEF Inv

LEMMA InitInv == Init => Inv
<1> SUFFICES ASSUME Init PROVE Inv
  OBVIOUS
<1>1. log = <<>> /\ onDisk = 0 /\ versions = {db} /\ db = [k \in Keys |-> NoValue]
  BY DEF Init, OpenEmpty
<1>2. TypeOK
  BY <1>1 DEF TypeOK, StoreTypeOK, Contents
<1>3. Outcome(log, db)
  <2>1. DOMAIN log = {} /\ \A k \in Keys : db[k] = NoValue
    BY <1>1
  <2> QED
    BY <2>1 DEF Outcome
<1>4. SubSeq(log, 1, 0) = log
  BY <1>1
<1>5. 0 \in onDisk .. Len(log)
  BY <1>1
<1>6. LossIsAPrefix
  BY <1>1, <1>3, <1>4, <1>5, Zenon DEF LossIsAPrefix
<1> QED
  BY <1>2, <1>3, <1>6 DEF Inv, ReadsFollowWrites

LEMMA StepInv == Inv /\ [Next]_vars => Inv'
<1> SUFFICES ASSUME Inv, [Next]_vars PROVE Inv'
  OBVIOUS
<1>t. /\ log \in Seq(Seq(Update)) /\ db \in Contents /\ versions \subseteq Contents
      /\ Len(log) \in Nat /\ onDisk \in 0 .. Len(log)
  BY DEF Inv, TypeOK, StoreTypeOK, Update
<1>1. ASSUME NEW k \in Keys, NEW v \in Values \cup {NoValue},
             Commit([db EXCEPT ![k] = v]), Logged(<<[key |-> k, value |-> v]>>)
      PROVE  Inv'
  <2> DEFINE call == <<[key |-> k, value |-> v]>>
  <2>1. call \in Seq(Update)
    BY DEF Update
  <2>2. [db EXCEPT ![k] = v] \in Contents
    BY <1>t DEF Contents
  <2>3. ASSUME NEW x \in Keys
        PROVE  /\ ~Touches(call, x) => [db EXCEPT ![k] = v][x] = db[x]
               /\ Touches(call, x) => Leaves(call, x, [db EXCEPT ![k] = v][x])
    BY <1>t DEF Touches, Leaves, Contents
  <2> QED
    BY <1>1, <2>1, <2>2, <2>3, CommitInv
<1>2. ASSUME NEW k \in Keys, NEW v \in Values, CallPut(k, v) PROVE Inv'
  BY <1>1, <1>2 DEF CallPut, Put
<1>3. ASSUME NEW k \in Keys, CallDelete(k) PROVE Inv'
  BY <1>1, <1>3 DEF CallDelete, Delete
<1>4. ASSUME NEW u \in Batches, CallWriteBatch(u) PROVE Inv'
  <2>1. u \in Seq(Update)
    <3>1. PICK n \in 0 .. MaxBatch : u \in [1 .. n -> Updates]
      BY DEF Batches
    <3>2. n \in Nat /\ u \in [1 .. n -> Update]
      BY <3>1, SessionAssumption DEF Updates, Update
    <3> QED
      BY <3>2
  <2>2. Batched(u) \in Contents
    BY <2>1, LastTyped DEF Inv
  <2>3. Commit(Batched(u)) /\ Logged(u)
    BY <1>4 DEF CallWriteBatch, WriteBatch
  <2>4. \A k \in Keys : /\ ~Touches(u, k) => Batched(u)[k] = db[k]
                        /\ Touches(u, k) => Leaves(u, k, Batched(u)[k])
    BY <2>1, BatchedIs DEF Inv
  <2> QED
    BY <2>1, <2>2, <2>3, <2>4, CommitInv
<1>5. CASE SyncLog
  <2>1. /\ log' = log /\ db' = db /\ onDisk' = Len(log) /\ versions' = {db}
    BY <1>5 DEF SyncLog, Sync
  <2>2. SubSeq(log', 1, Len(log)) = log'
    BY <1>t, <2>1, SubSeqFull
  <2>3. Len(log) \in onDisk' .. Len(log')
    BY <1>t, <2>1
  <2>4. TypeOK'
    BY <1>t, <2>1 DEF Inv, TypeOK, StoreTypeOK
  <2>5. ReadsFollowWrites'
    BY <2>1 DEF Inv, ReadsFollowWrites
  <2>6. LossIsAPrefix'
    BY <2>1, <2>2, <2>3, <2>5, Zenon DEF LossIsAPrefix, ReadsFollowWrites
  <2> QED
    BY <2>4, <2>5, <2>6 DEF Inv
<1>6. CASE LosePower
  <2>1. db' \in versions /\ versions' = {db'}
    BY <1>6 DEF LosePower, PowerLoss
  <2>2. PICK n \in onDisk .. Len(log) :
          Outcome(SubSeq(log, 1, n), db') /\ log' = SubSeq(log, 1, n) /\ onDisk' = n
    BY <1>6 DEF LosePower
  <2>3. log' \in Seq(Seq(Update)) /\ Len(log') = n
    BY <1>t, <2>2
  <2>4. SubSeq(log', 1, n) = log'
    BY <2>3, SubSeqFull
  <2>5. TypeOK'
    BY <1>t, <2>1, <2>2, <2>3 DEF TypeOK, StoreTypeOK, Update
  <2>6. ReadsFollowWrites'
    BY <2>2 DEF ReadsFollowWrites
  <2>7. LossIsAPrefix'
    <3>1. n \in onDisk' .. Len(log')
      BY <1>t, <2>2, <2>3
    <3> QED
      BY <2>1, <2>4, <2>6, <3>1, Zenon DEF LossIsAPrefix, ReadsFollowWrites
  <2> QED
    BY <2>5, <2>6, <2>7 DEF Inv
<1>7. CASE UNCHANGED vars
  BY <1>7 DEF vars, Inv, TypeOK, StoreTypeOK, ReadsFollowWrites, LossIsAPrefix, Outcome
<1> QED
  BY <1>2, <1>3, <1>4, <1>5, <1>6, <1>7 DEF Next

THEOREM Invariance == Spec => []Inv
BY InitInv, StepInv, PTL DEF Spec

(* The contents, the log and the count of what is on disk stay well formed.*)
THEOREM TypeCorrect == Spec => []TypeOK
BY Invariance, PTL DEF Inv

(* Get returns what the last call that touched the key left there.         *)
THEOREM ReadsAreOrdered == Spec => []ReadsFollowWrites
BY Invariance, PTL DEF Inv

(* A loss of power leaves a prefix of whole calls, and none that was on    *)
(* disk is missing.                                                        *)
THEOREM LossesArePrefixes == Spec => []LossIsAPrefix
BY Invariance, PTL DEF Inv

=============================================================================
