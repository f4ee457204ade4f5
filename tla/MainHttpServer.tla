--------------------------- MODULE MainHttpServer ---------------------------
(***************************************************************************)
(* http_server (include/main_http_server.hpp) and main (src/main.cpp): how *)
(* a process comes up, serves, and goes down on a signal.  The components  *)
(* are automatic variables of http_server, so their order of declaration   *)
(* is the order they start in, and they are destroyed in the reverse one.  *)
(*                                                                         *)
(* More than one process may be started on the same machine, each with the *)
(* port and the database directory of its command line; the system gives a *)
(* port to one process, and LevelDB locks a directory.  A process is       *)
(* started again by whoever runs it.                                       *)
(***************************************************************************)
EXTENDS Naturals

CONSTANTS
  Processes,
  Workers,     \* threads of the HTTP server of a process
  Directories, \* values of db_path
  Ports,       \* values of http_port
  Options,     \* what command lines that are accepted say (CommandLine)
  NoOptions,   \* nothing was read yet
  Nobody,      \* nobody has the port, or the lock of the database
  MayHang      \* a handler may fail to return (MacroVariableUtil::replace)

ASSUME LifecycleAssumption ==
  /\ Nobody \notin Processes
  /\ MayHang \in BOOLEAN
  /\ Options \subseteq [http_port : Ports, db_path : Directories]

VARIABLES
  pc,            \* where the main thread of each process is
  catches,       \* signal_handler is installed
  g_terminate,
  options,       \* the options of each process
  lock,          \* the process that has each database open
  listening,     \* the process that accepts requests on each port
  handlers       \* what the threads of each process do

shared == <<lock, listening>>
vars == <<pc, catches, g_terminate, options, shared, handlers>>

Idle == [w \in Workers |-> "idle"]
Quiet(p) == handlers[p] = Idle

Init ==
  /\ pc = [p \in Processes |-> "down"]
  /\ catches = [p \in Processes |-> FALSE]
  /\ g_terminate = [p \in Processes |-> FALSE]
  /\ options = [p \in Processes |-> NoOptions]
  /\ lock = [d \in Directories |-> Nobody]
  /\ listening = [n \in Ports |-> Nobody]
  /\ handlers = [p \in Processes |-> Idle]

Goto(p, from, to) ==
  /\ pc[p] = from
  /\ pc' = [pc EXCEPT ![p] = to]

Launch(p) ==
  /\ Goto(p, "down", "start")
  /\ UNCHANGED <<catches, g_terminate, options, shared, handlers>>

InstallSignals(p) ==
  /\ Goto(p, "start", "parse")
  /\ catches' = [catches EXCEPT ![p] = TRUE]
  /\ UNCHANGED <<g_terminate, options, shared, handlers>>

(* What p had is nobody's.                                                 *)
Freed(owner, p) == [x \in DOMAIN owner |-> IF owner[x] = p THEN Nobody ELSE owner[x]]

(* The process is gone: the system closes its files and its sockets.       *)
Gone(p) ==
  /\ pc' = [pc EXCEPT ![p] = "down"]
  /\ catches' = [catches EXCEPT ![p] = FALSE]
  /\ g_terminate' = [g_terminate EXCEPT ![p] = FALSE]
  /\ options' = [options EXCEPT ![p] = NoOptions]
  /\ lock' = Freed(lock, p)
  /\ listening' = Freed(listening, p)
  /\ handlers' = [handlers EXCEPT ![p] = Idle]

(* parse_check leaves the process when an argument is wrong or missing, or *)
(* help is asked for.                                                      *)
ParseCheck(p) ==
  \/ /\ Goto(p, "parse", "open")
     /\ \E o \in Options : options' = [options EXCEPT ![p] = o]
     /\ UNCHANGED <<catches, g_terminate, shared, handlers>>
  \/ pc[p] = "parse" /\ Gone(p)

(* The constructor of LevelDBWrapper throws when the database is locked,   *)
(* or cannot be opened; nothing catches the exception.                     *)
OpenDatabase(p) ==
  \/ /\ Goto(p, "open", "serve")
     /\ lock[options[p].db_path] = Nobody
     /\ lock' = [lock EXCEPT ![options[p].db_path] = p]
     /\ UNCHANGED <<catches, g_terminate, options, listening, handlers>>
  \/ pc[p] = "open" /\ Gone(p)

(* The port, if nobody has it and the system gives it; or no port.         *)
Bind(p) ==
  \/ /\ listening[options[p].http_port] = Nobody
     /\ listening' = [listening EXCEPT ![options[p].http_port] = p]
  \/ UNCHANGED listening

(* Mutation: the flag is cleared where the loop begins.                    *)
StartServerAnew(p) ==
  /\ Goto(p, "serve", "loop")
  /\ g_terminate' = [g_terminate EXCEPT ![p] = FALSE]
  /\ Bind(p)
  /\ UNCHANGED <<catches, options, lock, handlers>>

(* RedisClient connects or does not; server.start() binds the port or      *)
(* fails, and its result is not looked at.                                 *)
StartServer(p) ==
  /\ Goto(p, "serve", "loop")
  /\ Bind(p)
  /\ UNCHANGED <<catches, g_terminate, options, lock, handlers>>

(* The loop is left once it sees g_terminate.                              *)
LeaveLoop(p) ==
  /\ Goto(p, "loop", "stop")
  /\ g_terminate[p]
  /\ UNCHANGED <<catches, g_terminate, options, shared, handlers>>

(* ~HttpServer stops the loops, so that no more requests are taken...      *)
StopServer(p) ==
  /\ Goto(p, "stop", "join")
  /\ listening' = Freed(listening, p)
  /\ UNCHANGED <<catches, g_terminate, options, lock, handlers>>

(* Mutation: the threads of the server are not waited for.                 *)
JoinNobody(p) ==
  /\ Goto(p, "join", "close")
  /\ UNCHANGED <<catches, g_terminate, options, shared, handlers>>

(* ... and joins their threads.                                            *)
JoinServer(p) ==
  /\ Goto(p, "join", "close")
  /\ Quiet(p)
  /\ UNCHANGED <<catches, g_terminate, options, shared, handlers>>

(* ~TracerHttpHandler, ~RedisClient, ~LevelDBWrapper.                      *)
CloseDatabase(p) ==
  /\ Goto(p, "close", "exit")
  /\ lock' = Freed(lock, p)
  /\ UNCHANGED <<catches, g_terminate, options, listening, handlers>>

Exit(p) == pc[p] = "exit" /\ Gone(p)

-----------------------------------------------------------------------------
(* The threads of the server, which the main thread does not see.          *)
BeginHandler(p, w) ==
  /\ \E n \in Ports : listening[n] = p
  /\ handlers[p][w] = "idle"
  /\ \/ handlers' = [handlers EXCEPT ![p][w] = "busy"]
     \/ MayHang /\ handlers' = [handlers EXCEPT ![p][w] = "stuck"]
  /\ UNCHANGED <<pc, catches, g_terminate, options, shared>>

EndHandler(p, w) ==
  /\ handlers[p][w] = "busy"
  /\ handlers' = [handlers EXCEPT ![p][w] = "idle"]
  /\ UNCHANGED <<pc, catches, g_terminate, options, shared>>

(* SIGINT or SIGTERM, at any moment; before the handler is installed it    *)
(* ends the process.                                                       *)
Signal(p) ==
  /\ pc[p] # "down"
  /\ IF catches[p]
     THEN /\ g_terminate' = [g_terminate EXCEPT ![p] = TRUE]
          /\ UNCHANGED <<pc, catches, options, shared, handlers>>
     ELSE Gone(p)

Crash(p) == pc[p] # "down" /\ Gone(p)

MainThread(p) ==
  \/ InstallSignals(p)
  \/ ParseCheck(p)
  \/ OpenDatabase(p)
  \/ StartServer(p)
  \/ LeaveLoop(p)
  \/ StopServer(p)
  \/ JoinServer(p)
  \/ CloseDatabase(p)
  \/ Exit(p)

Next ==
  \E p \in Processes :
    \/ Launch(p)
    \/ MainThread(p)
    \/ \E w \in Workers : BeginHandler(p, w) \/ EndHandler(p, w)
    \/ Signal(p)
    \/ Crash(p)

Spec == Init /\ [][Next]_vars

(* The main thread is scheduled, and a handler that is not stuck returns.  *)
FairSpec ==
  /\ Spec
  /\ \A p \in Processes :
       /\ WF_vars(MainThread(p))
       /\ \A w \in Workers : WF_vars(EndHandler(p, w))

-----------------------------------------------------------------------------
(***************************************************************************)
(* Properties.                                                             *)
(***************************************************************************)
HasDatabase == {"serve", "loop", "stop", "join", "close"}
Stages == {"down", "start", "parse", "open", "exit"} \cup HasDatabase

Configured == {"open", "exit"} \cup HasDatabase

(* Every variable has its type, and the lock of a directory is with the    *)
(* process that has that database open.                                    *)
TypeOK ==
  /\ pc \in [Processes -> Stages]
  /\ catches \in [Processes -> BOOLEAN]
  /\ g_terminate \in [Processes -> BOOLEAN]
  /\ options \in [Processes -> Options \cup {NoOptions}]
  /\ \A p \in Processes : pc[p] \in Configured => options[p] \in Options
  /\ lock \in [Directories -> Processes \cup {Nobody}]
  /\ \A p \in Processes, d \in Directories :
       lock[d] = p <=> pc[p] \in HasDatabase /\ options[p].db_path = d
  /\ listening \in [Ports -> Processes \cup {Nobody}]
  /\ handlers \in [Processes -> [Workers -> {"idle", "busy", "stuck"}]]

Owns(p) == pc[p] \in HasDatabase /\ lock[options[p].db_path] = p

(* No handler runs once the objects it refers to are being destroyed, nor  *)
(* before they exist: the server is declared last, so it is stopped first  *)
(* (TracerHttpHandler keeps references to the database and to Redis); and  *)
(* no two processes answer requests from one database, whichever ports     *)
(* they were given.                                                        *)
HandlersHaveStores ==
  \A p \in Processes :
    /\ (\E n \in Ports : listening[n] = p) => Owns(p) /\ pc[p] \in {"loop", "stop"}
    /\ ~Quiet(p) => Owns(p) /\ pc[p] \in {"loop", "stop", "join"}

(* A signal ends the process whenever it comes after the handler was       *)
(* installed, unless a handler of a request never returns.                 *)
SignalsStop ==
  \A p \in Processes :
    g_terminate[p] ~>
      pc[p] = "down" \/ \E w \in Workers : handlers[p][w] = "stuck"

(* "http is start success..." (include/main_http_server.hpp:125): the      *)
(* server that reports it accepts requests.  The result of start() is not  *)
(* looked at, and the process goes on without a server.                    *)
StartedIsListening ==
  \A p \in Processes : pc[p] = "loop" => listening[options[p].http_port] = p

=============================================================================
