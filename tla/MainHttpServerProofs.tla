------------------------ MODULE MainHttpServerProofs ------------------------
(***************************************************************************)
(* Proofs about MainHttpServer, for every set of processes, of handler     *)
(* threads, of ports and of directories.  HandlersHaveStores is inductive  *)
(* with the type invariant, which says who has a directory locked.         *)
(***************************************************************************)
EXTENDS MainHttpServer, TLAPS

Inv == TypeOK /\ HandlersHaveStores

(* One process at a time: what the invariant says of it.                    *)
LockFits(p) ==
  \A d \in Directories :
    lock[d] = p <=> pc[p] \in HasDatabase /\ options[p].db_path = d

Safe(p) ==
  /\ (\E n \in Ports : listening[n] = p) => Owns(p) /\ pc[p] \in {"loop", "stop"}
  /\ ~Quiet(p) => Owns(p) /\ pc[p] \in {"loop", "stop", "join"}

LEMMA InitInv == Init => Inv
BY LifecycleAssumption
   DEF Init, Inv, TypeOK, HandlersHaveStores, Quiet, Idle, Stages, HasDatabase, Configured

LEMMA OptionsFit ==
  ASSUME Inv, NEW p \in Processes, pc[p] \in Configured
  PROVE  options[p].http_port \in Ports /\ options[p].db_path \in Directories
BY LifecycleAssumption DEF Inv, TypeOK

(* A process that goes away takes with it all it had.                      *)
LEMMA GoneInv ==
  ASSUME Inv, NEW p \in Processes, Gone(p)
  PROVE  Inv'
<1>1. /\ lock' \in [Directories -> Processes \cup {Nobody}]
      /\ \A d \in Directories : lock'[d] # p
      /\ \A d \in Directories, q \in Processes \ {p} : lock'[d] = q <=> lock[d] = q
  BY LifecycleAssumption DEF Gone, Freed, Inv, TypeOK
<1>2. /\ listening' \in [Ports -> Processes \cup {Nobody}]
      /\ \A n \in Ports : listening'[n] # p
      /\ \A n \in Ports, q \in Processes \ {p} : listening'[n] = q <=> listening[n] = q
  BY LifecycleAssumption DEF Gone, Freed, Inv, TypeOK
<1>3. /\ pc' \in [Processes -> Stages]
      /\ catches' \in [Processes -> BOOLEAN]
      /\ g_terminate' \in [Processes -> BOOLEAN]
      /\ options' \in [Processes -> Options \cup {NoOptions}]
      /\ handlers' \in [Processes -> [Workers -> {"idle", "busy", "stuck"}]]
  BY DEF Gone, Inv, TypeOK, Idle, Stages
<1>4. pc'[p] = "down" /\ handlers'[p] = Idle
  BY DEF Gone, Inv, TypeOK
<1>5. \A q \in Processes \ {p} :
        pc'[q] = pc[q] /\ options'[q] = options[q] /\ handlers'[q] = handlers[q]
  BY DEF Gone, Inv, TypeOK
<1>6. TypeOK'
  <2>1. \A q \in Processes : pc'[q] \in Configured => options'[q] \in Options
    BY <1>4, <1>5 DEF Inv, TypeOK, Configured, HasDatabase
  <2>2. \A q \in Processes : LockFits(q)'
    BY <1>1, <1>4, <1>5 DEF LockFits, Inv, TypeOK, HasDatabase
  <2> QED
    BY <1>1, <1>2, <1>3, <2>1, <2>2 DEF TypeOK, LockFits
<1>7. HandlersHaveStores'
  <2>1. Safe(p)'
    BY <1>2, <1>4 DEF Safe, Quiet, Idle
  <2>2. ASSUME NEW q \in Processes \ {p} PROVE Safe(q)'
    <3>1. Owns(q)' <=> Owns(q)
      BY <1>1, <1>5, OptionsFit DEF Owns, HasDatabase, Configured
    <3> QED
      BY <1>2, <1>5, <3>1 DEF Safe, Quiet, Idle, Inv, HandlersHaveStores
  <2> QED
    BY <2>1, <2>2 DEF HandlersHaveStores, Safe
<1> QED
  BY <1>6, <1>7 DEF Inv

(* A step of the main thread that leaves options, locks and ports alone.   *)
LEMMA GotoInv ==
  ASSUME Inv, NEW p \in Processes, UNCHANGED <<options, shared, handlers>>,
         catches' \in [Processes -> BOOLEAN], UNCHANGED g_terminate,
         \/ Goto(p, "down", "start") \/ Goto(p, "start", "parse")
         \/ Goto(p, "loop", "stop") \/ (Goto(p, "join", "close") /\ Quiet(p))
  PROVE  Inv'
<1>1. TypeOK'
  BY DEF Goto, shared, Inv, TypeOK, Stages, HasDatabase, Configured
<1>2. \A q \in Processes : Owns(q)' <=> Owns(q)
  BY DEF Goto, shared, Inv, TypeOK, Owns, HasDatabase
<1>3. HandlersHaveStores'
  BY <1>2 DEF Goto, shared, Inv, TypeOK, HandlersHaveStores, Quiet, Idle
<1> QED
  BY <1>1, <1>3 DEF Inv

(* A step of the main thread, an exit or a crash apart.                    *)
LEMMA MainInv ==
  ASSUME Inv, NEW p \in Processes,
         \/ Launch(p) \/ InstallSignals(p) \/ StartServer(p) \/ LeaveLoop(p)
         \/ StopServer(p) \/ JoinServer(p) \/ CloseDatabase(p)
  PROVE  Inv'
<1>1. CASE Launch(p) \/ InstallSignals(p) \/ LeaveLoop(p) \/ JoinServer(p)
  <2>1. catches' \in [Processes -> BOOLEAN]
    BY <1>1 DEF Launch, InstallSignals, LeaveLoop, JoinServer, Inv, TypeOK
  <2> QED
    BY <1>1, <2>1, GotoInv DEF Launch, InstallSignals, LeaveLoop, JoinServer
<1>2. CASE StartServer(p)
  <2>1. pc[p] = "serve" /\ pc' = [pc EXCEPT ![p] = "loop"]
    BY <1>2 DEF StartServer, Goto
  <2>2. /\ options[p].http_port \in Ports
        /\ lock[options[p].db_path] = p
    BY <2>1, OptionsFit DEF Configured, HasDatabase, Inv, TypeOK
  <2>3. /\ listening' \in [Ports -> Processes \cup {Nobody}]
        /\ \A n \in Ports, q \in Processes \ {p} : listening'[n] = q => listening[n] = q
    BY <1>2, <2>2, LifecycleAssumption DEF StartServer, Bind, Inv, TypeOK
  <2>4. UNCHANGED <<catches, g_terminate, options, lock, handlers>>
    BY <1>2 DEF StartServer
  <2>5. TypeOK'
    BY <2>1, <2>3, <2>4 DEF Inv, TypeOK, Stages, HasDatabase, Configured
  <2>6. Owns(p)' /\ pc'[p] = "loop"
    BY <2>1, <2>2, <2>4 DEF Owns, HasDatabase, Inv, TypeOK
  <2>7. \A q \in Processes \ {p} : (Owns(q)' <=> Owns(q)) /\ pc'[q] = pc[q]
    BY <2>1, <2>4 DEF Owns, Inv, TypeOK
  <2>8. \A q \in Processes : Safe(q)'
    BY <2>3, <2>4, <2>6, <2>7 DEF Safe, Quiet, Idle, Inv, HandlersHaveStores
  <2> QED
    BY <2>5, <2>8 DEF Inv, HandlersHaveStores, Safe
<1>3. CASE StopServer(p)
  <2>1. pc[p] = "stop" /\ pc' = [pc EXCEPT ![p] = "join"]
    BY <1>3 DEF StopServer, Goto
  <2>2. UNCHANGED <<catches, g_terminate, options, lock, handlers>>
    BY <1>3 DEF StopServer
  <2>3. /\ listening' \in [Ports -> Processes \cup {Nobody}]
        /\ \A n \in Ports : listening'[n] # p
        /\ \A n \in Ports, q \in Processes \ {p} : listening'[n] = q <=> listening[n] = q
    BY <1>3, LifecycleAssumption DEF StopServer, Freed, Inv, TypeOK
  <2>4. TypeOK'
    BY <2>1, <2>2, <2>3 DEF Inv, TypeOK, Stages, HasDatabase, Configured
  <2>5. \A q \in Processes : Owns(q)' <=> Owns(q)
    BY <2>1, <2>2 DEF Owns, HasDatabase, Inv, TypeOK
  <2>6. \A q \in Processes : Safe(q)'
    BY <2>1, <2>2, <2>3, <2>5 DEF Safe, Quiet, Idle, Inv, TypeOK, HandlersHaveStores
  <2> QED
    BY <2>4, <2>6 DEF Inv, HandlersHaveStores, Safe
<1>4. CASE CloseDatabase(p)
  <2>1. pc[p] = "close" /\ pc' = [pc EXCEPT ![p] = "exit"]
    BY <1>4 DEF CloseDatabase, Goto
  <2>2. UNCHANGED <<catches, g_terminate, options, listening, handlers>>
    BY <1>4 DEF CloseDatabase
  <2>3. /\ lock' \in [Directories -> Processes \cup {Nobody}]
        /\ \A d \in Directories : lock'[d] # p
        /\ \A d \in Directories, q \in Processes \ {p} : lock'[d] = q <=> lock[d] = q
    BY <1>4, LifecycleAssumption DEF CloseDatabase, Freed, Inv, TypeOK
  <2>4. pc'[p] = "exit" /\ \A q \in Processes \ {p} : pc'[q] = pc[q]
    BY <2>1 DEF Inv, TypeOK
  <2>5. TypeOK'
    <3>1. \A q \in Processes : LockFits(q)'
      BY <2>2, <2>3, <2>4 DEF LockFits, Inv, TypeOK, HasDatabase
    <3>2. \A q \in Processes : pc'[q] \in Configured => options'[q] \in Options
      BY <2>1, <2>2, <2>4 DEF Inv, TypeOK, Configured, HasDatabase
    <3>3. pc' \in [Processes -> Stages]
      BY <2>1 DEF Inv, TypeOK, Stages
    <3> QED
      BY <2>2, <2>3, <3>1, <3>2, <3>3 DEF Inv, TypeOK, LockFits
  <2>6. ASSUME NEW q \in Processes \ {p} PROVE Safe(q)'
    <3>1. Owns(q)' <=> Owns(q)
      BY <2>2, <2>3, <2>4, OptionsFit DEF Owns, HasDatabase, Configured
    <3> QED
      BY <2>2, <2>4, <3>1 DEF Safe, Quiet, Idle, Inv, HandlersHaveStores
  <2>7. Safe(p)'
    BY <2>1, <2>2 DEF Safe, Quiet, Idle, Inv, HandlersHaveStores
  <2> QED
    BY <2>5, <2>6, <2>7 DEF Inv, HandlersHaveStores, Safe
<1> QED
  BY <1>1, <1>2, <1>3, <1>4

(* A handler begins only where requests are accepted.                      *)
LEMMA HandlerInv ==
  ASSUME Inv, NEW p \in Processes, NEW w \in Workers,
         BeginHandler(p, w) \/ EndHandler(p, w)
  PROVE  Inv'
<1>1. handlers' \in [Processes -> [Workers -> {"idle", "busy", "stuck"}]]
  <2> DEFINE States == {"idle", "busy", "stuck"}
  <2>1. PICK s \in States : handlers' = [handlers EXCEPT ![p][w] = s]
    BY DEF BeginHandler, EndHandler
  <2>2. [handlers[p] EXCEPT ![w] = s] \in [Workers -> States]
    BY DEF Inv, TypeOK
  <2>3. handlers' = [handlers EXCEPT ![p] = [handlers[p] EXCEPT ![w] = s]]
    BY <2>1
  <2> HIDE DEF States
  <2>4. handlers \in [Processes -> [Workers -> States]]
    BY DEF Inv, TypeOK, States
  <2>5. handlers' \in [Processes -> [Workers -> States]]
    BY <2>2, <2>3, <2>4
  <2> QED
    BY <2>5 DEF States
<1>2. UNCHANGED <<pc, catches, g_terminate, options, lock, listening>>
  BY DEF BeginHandler, EndHandler, shared
<1>3. TypeOK'
  BY <1>1, <1>2 DEF Inv, TypeOK
<1>4. Owns(p) /\ pc[p] \in {"loop", "stop", "join"}
  <2>1. CASE BeginHandler(p, w)
    BY <2>1 DEF BeginHandler, Inv, HandlersHaveStores
  <2>2. CASE EndHandler(p, w)
    <3>1. handlers[p][w] # Idle[w]
      BY <2>2 DEF EndHandler, Idle
    <3>2. ~Quiet(p)
      BY <3>1 DEF Quiet
    <3> QED
      BY <3>2 DEF Inv, HandlersHaveStores
  <2> QED
    BY <2>1, <2>2
<1>5. \A q \in Processes \ {p} : handlers'[q] = handlers[q]
  BY DEF BeginHandler, EndHandler, Inv, TypeOK
<1>6. \A q \in Processes : Owns(q)' <=> Owns(q)
  BY <1>2 DEF Owns
<1>7. \A q \in Processes : Safe(q)'
  BY <1>2, <1>4, <1>5, <1>6 DEF Safe, Quiet, Idle, Inv, HandlersHaveStores
<1> QED
  BY <1>3, <1>7 DEF Inv, HandlersHaveStores, Safe

(* A process takes its options, and its database.                          *)
LEMMA ParseInv ==
  ASSUME Inv, NEW p \in Processes, ParseCheck(p) PROVE Inv'
<1>1. CASE Gone(p)
  BY <1>1, GoneInv
<1>2. CASE ~Gone(p)
  <2>1. pc[p] = "parse" /\ pc' = [pc EXCEPT ![p] = "open"]
    BY <1>2 DEF ParseCheck, Goto
  <2>2. PICK o \in Options : options' = [options EXCEPT ![p] = o]
    BY <1>2 DEF ParseCheck
  <2>3. UNCHANGED <<catches, g_terminate, lock, listening, handlers>>
    BY <1>2 DEF ParseCheck, shared
  <2>4. \A q \in Processes \ {p} : pc'[q] = pc[q] /\ options'[q] = options[q]
    BY <2>1, <2>2 DEF Inv, TypeOK
  <2>5. TypeOK'
    BY <2>1, <2>2, <2>3, <2>4 DEF Inv, TypeOK, Stages, HasDatabase, Configured
  <2>6. \A q \in Processes : Safe(q)'
    BY <2>1, <2>3, <2>4 DEF Safe, Owns, Quiet, Idle, HasDatabase, Inv, HandlersHaveStores
  <2> QED
    BY <2>5, <2>6 DEF Inv, HandlersHaveStores, Safe
<1> QED
  BY <1>1, <1>2

LEMMA OpenInv ==
  ASSUME Inv, NEW p \in Processes, OpenDatabase(p) PROVE Inv'
<1>1. CASE Gone(p)
  BY <1>1, GoneInv
<1>2. CASE ~Gone(p)
  <2> DEFINE mine == options[p].db_path
  <2>1. pc[p] = "open" /\ pc' = [pc EXCEPT ![p] = "serve"]
    BY <1>2 DEF OpenDatabase, Goto
  <2>2. lock[mine] = Nobody /\ lock' = [lock EXCEPT ![mine] = p] /\ mine \in Directories
    BY <1>2, <2>1, OptionsFit DEF OpenDatabase, Configured
  <2>3. UNCHANGED <<catches, g_terminate, options, listening, handlers>>
    BY <1>2 DEF OpenDatabase
  <2>4. pc'[p] = "serve" /\ \A q \in Processes \ {p} : pc'[q] = pc[q]
    BY <2>1 DEF Inv, TypeOK
  <2>5. \A d \in Directories : lock[d] # p
    BY <2>1 DEF Inv, TypeOK, HasDatabase
  <2>6. \A q \in Processes \ {p}, d \in Directories : lock'[d] = q <=> lock[d] = q
    BY <2>2, LifecycleAssumption DEF Inv, TypeOK
  <2>7. \A d \in Directories : lock'[d] = p <=> d = mine
    BY <2>2, <2>5 DEF Inv, TypeOK
  <2>8. TypeOK'
    <3>1. \A q \in Processes : LockFits(q)'
      BY <2>3, <2>4, <2>6, <2>7 DEF LockFits, Inv, TypeOK, HasDatabase
    <3>2. \A q \in Processes : pc'[q] \in Configured => options'[q] \in Options
      BY <2>1, <2>3, <2>4 DEF Inv, TypeOK, Configured, HasDatabase
    <3>3. pc' \in [Processes -> Stages]
      BY <2>1 DEF Inv, TypeOK, Stages, HasDatabase
    <3>4. lock' \in [Directories -> Processes \cup {Nobody}]
      BY <2>2 DEF Inv, TypeOK
    <3> QED
      BY <2>3, <3>1, <3>2, <3>3, <3>4 DEF Inv, TypeOK, LockFits
  <2>9. ASSUME NEW q \in Processes PROVE Safe(q)'
    <3>1. CASE q = p
      BY <2>1, <2>3, <3>1 DEF Safe, Quiet, Idle, Inv, HandlersHaveStores
    <3>2. CASE q # p
      <4>1. Owns(q)' <=> Owns(q)
        BY <2>3, <2>4, <2>6, <3>2, OptionsFit DEF Owns, HasDatabase, Configured
      <4> QED
        BY <2>3, <2>4, <3>2, <4>1 DEF Safe, Quiet, Idle, Inv, HandlersHaveStores
    <3> QED
      BY <3>1, <3>2
  <2> QED
    BY <2>8, <2>9 DEF Inv, HandlersHaveStores, Safe
<1> QED
  BY <1>1, <1>2

LEMMA StepInv == Inv /\ [Next]_vars => Inv'
<1> SUFFICES ASSUME Inv, [Next]_vars PROVE Inv'
  OBVIOUS
<1>1. ASSUME NEW p \in Processes, Launch(p) PROVE Inv'
  BY <1>1, MainInv
<1>2. ASSUME NEW p \in Processes, MainThread(p) PROVE Inv'
  <2>1. CASE ParseCheck(p)
    BY <2>1, ParseInv
  <2>2. CASE OpenDatabase(p)
    BY <2>2, OpenInv
  <2>3. CASE Exit(p)
    BY <2>3, GoneInv DEF Exit
  <2> QED
    BY <1>2, <2>1, <2>2, <2>3, MainInv DEF MainThread
<1>3. ASSUME NEW p \in Processes, NEW w \in Workers,
             BeginHandler(p, w) \/ EndHandler(p, w)
      PROVE  Inv'
  BY <1>3, HandlerInv
<1>4. ASSUME NEW p \in Processes, Signal(p) PROVE Inv'
  <2>1. CASE Gone(p)
    BY <2>1, GoneInv
  <2>2. CASE ~Gone(p)
    <3>1. /\ g_terminate' = [g_terminate EXCEPT ![p] = TRUE]
          /\ UNCHANGED <<pc, catches, options, lock, listening, handlers>>
      BY <1>4, <2>2 DEF Signal, shared
    <3>2. TypeOK'
      BY <3>1 DEF Inv, TypeOK
    <3>3. HandlersHaveStores'
      BY <3>1 DEF Inv, HandlersHaveStores, Owns, Quiet, Idle
    <3> QED
      BY <3>2, <3>3 DEF Inv
  <2> QED
    BY <2>1, <2>2
<1>5. ASSUME NEW p \in Processes, Crash(p) PROVE Inv'
  BY <1>5, GoneInv DEF Crash
<1>6. CASE UNCHANGED vars
  BY <1>6 DEF vars, shared, Inv, TypeOK, HandlersHaveStores, Owns, Quiet, Idle
<1> QED
  BY <1>1, <1>2, <1>3, <1>4, <1>5, <1>6 DEF Next

LEMMA Invariance == Spec => []Inv
BY InitInv, StepInv, PTL DEF Spec

(* The stages, the lock of the database and the threads stay well formed.  *)
THEOREM TypeCorrect == Spec => []TypeOK
BY Invariance, PTL DEF Inv

(* No handler outlives the objects it refers to, in any process.           *)
THEOREM HandlersSafe == Spec => []HandlersHaveStores
BY Invariance, PTL DEF Inv

=============================================================================
