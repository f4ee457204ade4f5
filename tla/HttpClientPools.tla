-------------------------- MODULE HttpClientPools --------------------------
(***************************************************************************)
(* HttpClientPools (include/http_client_pools.h): threads share a queue of *)
(* request objects guarded by a mutex and a condition variable.            *)
(*                                                                         *)
(* Every access to the queue is made with the mutex held and no critical   *)
(* section waits for anything but the condition variable, which gives the  *)
(* mutex back; so a critical section is one step.  What is not atomic is   *)
(* the rest: a waiter that was notified has still to get the mutex, and    *)
(* put notifies after it has released the mutex.                           *)
(***************************************************************************)
EXTENDS Naturals, Sequences, FiniteSets

CONSTANTS
  Threads,     \* callers
  Clients,     \* the HttpRequest objects made by the constructor
  Urls,        \* valid urls
  Bodies,      \* bodies
  Calls,       \* the calls that are made
  NoUrl,       \* a null or empty url
  NoBody,      \* no body is given, or none was ever set
  NoCall,      \* a thread that is in no call
  NoClient     \* a thread that has no request object

Methods == {"GET", "POST", "PUT"}

Given == Bodies \cup {NoBody}

(* get(url), post(url, body) and send(url, body, method); a null body is   *)
(* NoBody.                                                                 *)
Signatures ==
  LET Call(ops, methods, bodies) ==
        [op : ops, method : methods, url : Urls \cup {NoUrl}, body : bodies]
  IN Call({"get"}, {"GET"}, {NoBody})
       \cup Call({"post"}, {"POST"}, Given)
       \cup Call({"send"}, Methods, Given)

(* The fields of an HttpRequest, and those of one nobody has used.         *)
Requests == [method : Methods, url : Urls \cup {NoUrl}, body : Given]

NewRequest == [method |-> "GET", url |-> NoUrl, body |-> NoBody]

ASSUME PoolAssumption ==
  /\ IsFiniteSet(Threads)
  /\ IsFiniteSet(Clients) /\ Clients # {}
  /\ Calls \subseteq Signatures
  /\ NoCall \notin Signatures
  /\ NoClient \notin Clients
  /\ NoUrl \notin Urls
  /\ NoBody \notin Bodies

VARIABLES
  pool,        \* the queue of free request objects
  pc,          \* where each thread is
  client,      \* the request object it has
  call,        \* what it was called with
  request,     \* the fields of each request object
  left         \* history: the body each object had when it was last put back

vars == <<pool, pc, client, call, request, left>>

(* The threads blocked in cv.wait.                                         *)
Waiting == {t \in Threads : pc[t] = "wait"}

At(stage) == {t \in Threads : pc[t] = stage}

(* What the constructor fills the queue with.                              *)
NewPools ==
  {s \in [1 .. Cardinality(Clients) -> Clients] :
     /\ \A i, j \in DOMAIN s : s[i] = s[j] => i = j
     /\ Clients = {s[i] : i \in DOMAIN s}}

Init ==
  /\ pool \in NewPools
  /\ pc = [t \in Threads |-> "idle"]
  /\ client = [t \in Threads |-> NoClient]
  /\ call = [t \in Threads |-> NoCall]
  /\ request = [c \in Clients |-> NewRequest]
  /\ left = [c \in Clients |-> NoBody]

Goto(t, from, to) ==
  /\ pc[t] = from
  /\ pc' = [pc EXCEPT ![t] = to]

isValidUrl(url) == url # NoUrl

(* A call with an invalid url returns at once.                             *)
Call(t) ==
  \E c \in Calls :
    /\ isValidUrl(c.url)
    /\ Goto(t, "idle", "get")
    /\ call' = [call EXCEPT ![t] = c]
    /\ UNCHANGED <<pool, client, request, left>>

(* Mutation: the front is taken and not popped.                            *)
GetKeepsFront(t) ==
  /\ pool # <<>>
  /\ Goto(t, "get", "fill")
  /\ client' = [client EXCEPT ![t] = Head(pool)]
  /\ UNCHANGED <<pool, call, request, left>>

(* get() with an object in the queue...                                    *)
Get(t) ==
  /\ pool # <<>>
  /\ Goto(t, "get", "fill")
  /\ client' = [client EXCEPT ![t] = Head(pool)]
  /\ pool' = Tail(pool)
  /\ UNCHANGED <<call, request, left>>

(* ... and with none: the thread waits.                                    *)
Wait(t) ==
  /\ pool = <<>>
  /\ Goto(t, "get", "wait")
  /\ UNCHANGED <<pool, client, call, request, left>>

(* Mutation: the queue is tested once, with `if'.                         *)
WakeupTakes(t) ==
  /\ Goto(t, "wait", "fill")
  /\ client' = [client EXCEPT ![t] = IF pool = <<>> THEN NoClient ELSE Head(pool)]
  /\ pool' = IF pool = <<>> THEN pool ELSE Tail(pool)
  /\ UNCHANGED <<call, request, left>>

(* cv.wait may return without a notification; the loop tests again.        *)
SpuriousWakeup(t) ==
  /\ Goto(t, "wait", "get")
  /\ UNCHANGED <<pool, client, call, request, left>>

(* post and send read a body they were given; get has none, and send looks *)
(* at its own only if the method is POST.                                  *)
GivesBody(c) == c.method = "POST" /\ c.body # NoBody

(* post copies its body without a look: a null one is undefined behaviour. *)
IsUndefined(c) == c.op = "post" /\ c.body = NoBody

(* The fields are overwritten, the body only by a call that gives one: the *)
(* object keeps the body of an earlier call.                               *)
Filled(r, c) ==
  [method |-> c.method, url |-> c.url,
   body |-> IF GivesBody(c) THEN c.body ELSE r.body]

Fill(t) ==
  /\ Goto(t, "fill", "send")
  /\ ~IsUndefined(call[t])
  /\ request' = [request EXCEPT ![client[t]] = Filled(@, call[t])]
  /\ UNCHANGED <<pool, client, call, left>>

(* std::string measures the null pointer with strlen and the process dies; *)
(* what follows is another process.                                        *)
PostNothing(t) ==
  /\ pc[t] = "fill"
  /\ IsUndefined(call[t])
  /\ pool' \in NewPools
  /\ pc' = [u \in Threads |-> "idle"]
  /\ client' = [u \in Threads |-> NoClient]
  /\ call' = [u \in Threads |-> NoCall]
  /\ request' = [c \in Clients |-> NewRequest]
  /\ left' = [c \in Clients |-> NoBody]

(* requests::request returns, with or without a response.                  *)
Send(t) ==
  /\ Goto(t, "send", "put")
  /\ UNCHANGED <<pool, client, call, request, left>>

(* Mutation: nobody is notified.                                           *)
PutQuietly(t) ==
  /\ Goto(t, "put", "idle")
  /\ pool' = Append(pool, client[t])
  /\ client' = [client EXCEPT ![t] = NoClient]
  /\ left' = [left EXCEPT ![client[t]] = request[client[t]].body]
  /\ call' = [call EXCEPT ![t] = NoCall]
  /\ UNCHANGED request

(* put(): the push, under the mutex...                                     *)
Put(t) ==
  /\ Goto(t, "put", "notify")
  /\ pool' = Append(pool, client[t])
  /\ client' = [client EXCEPT ![t] = NoClient]
  /\ left' = [left EXCEPT ![client[t]] = request[client[t]].body]
  /\ UNCHANGED <<call, request>>

(* ... and notify_one after it, which wakes a waiter if there is one; the  *)
(* call returns.                                                           *)
NotifyOne(t) ==
  /\ pc[t] = "notify"
  /\ \/ \E u \in Waiting : pc' = [pc EXCEPT ![t] = "idle", ![u] = "get"]
     \/ Waiting = {} /\ pc' = [pc EXCEPT ![t] = "idle"]
  /\ call' = [call EXCEPT ![t] = NoCall]
  /\ UNCHANGED <<pool, client, request, left>>

(* The steps a thread takes by itself.                                     *)
Step(t) ==
  \/ Get(t) \/ Wait(t)
  \/ Fill(t) \/ PostNothing(t) \/ Send(t)
  \/ Put(t) \/ NotifyOne(t)

Next == \E t \in Threads : Call(t) \/ SpuriousWakeup(t) \/ Step(t)

Spec == Init /\ [][Next]_vars

(* Threads are scheduled, the mutex is granted, and every request is       *)
(* answered or fails.                                                      *)
FairSpec == Spec /\ \A t \in Threads : WF_vars(Step(t))

-----------------------------------------------------------------------------
(***************************************************************************)
(* Properties.                                                             *)
(***************************************************************************)
HasClient == {"fill", "send", "put"}
Stages == {"idle", "get", "wait", "notify"} \cup HasClient

(* Every variable has its type, and a thread has a request object exactly  *)
(* between get() and put().                                                *)
TypeOK ==
  /\ pool \in Seq(Clients)
  /\ pc \in [Threads -> Stages]
  /\ client \in [Threads -> Clients \cup {NoClient}]
  /\ \A t \in Threads : client[t] # NoClient <=> pc[t] \in HasClient
  /\ call \in [Threads -> Calls \cup {NoCall}]
  /\ \A t \in Threads : call[t] # NoCall <=> pc[t] # "idle"
  /\ request \in [Clients -> Requests]
  /\ left \in [Clients -> Given]

Free == {pool[i] : i \in DOMAIN pool}

(* A request object is in the queue once, or with one thread: get and put  *)
(* neither lose one nor give it to two callers.                            *)
NoClientLostOrShared ==
  /\ \A i, j \in DOMAIN pool : pool[i] = pool[j] => i = j
  /\ \A t, u \in Threads : t # u /\ client[t] = client[u] => client[t] = NoClient
  /\ \A t \in Threads : client[t] \notin Free
  /\ \A c \in Clients : c \in Free \/ \E t \in Threads : client[t] = c

(* While a thread waits, every free request object has a thread that is    *)
(* about to take it or to notify: notify_one after the unlock, spurious    *)
(* wakeups and callers that overtake a waiter lose no wakeup.              *)
NoLostWakeup ==
  Waiting # {} => Len(pool) <= Cardinality(At("get")) + Cardinality(At("notify"))

(* What is sent is what the caller asked for, whatever other threads do    *)
(* with the objects of the pool: its method and url, and its body.  With   *)
(* no body of its own a call sends the one the last call left in the       *)
(* object, for get and send clear nothing.                                 *)
OwnRequest ==
  \A t \in Threads :
    pc[t] = "send" =>
      LET c == call[t] IN
      request[client[t]] =
        [method |-> c.method, url |-> c.url,
         body |-> IF GivesBody(c) THEN c.body ELSE left[client[t]]]

(* Why the body is the last call's: nobody else writes an object.          *)
LeftAlone ==
  \A c \in Clients :
    \/ request[c].body = left[c]
    \/ \E t \in Threads : client[t] = c /\ pc[t] \in {"send", "put"}

ResourcePool == INSTANCE ResourcePool WITH
                  Users <- Threads, Resources <- Clients, Nothing <- NoClient,
                  free <- Free, holding <- client

(* The queue, the mutex and the condition variable implement a pool.       *)
ImplementsPool == ResourcePool!PoolSpec

(* Calls keep returning for as long as there are any: the pool never       *)
(* blocks for good, and once no more calls are made each of them returns.  *)
(* (A single call may starve, overtaken for ever.)                         *)
AllReturned == \A t \in Threads : pc[t] = "idle"

CallsReturn == []<>AllReturned \/ []<><<\E t \in Threads : NotifyOne(t)>>_vars

=============================================================================
