---------------------------- MODULE ServerGroup ----------------------------
(***************************************************************************)
(* A server group of rasmgr (rasmgr_x/src/servergroupimpl.cc) with the     *)
(* life cycle of its servers (rasmgr_x/src/serverrasnet.cc).               *)
(*                                                                         *)
(* Every public operation of the group holds groupMutex.  An operation     *)
(* that cannot be interrupted in an interesting way is one action; the     *)
(* evaluation of the group is a sequence of actions, one per server it     *)
(* visits, because processes die, timers expire and clients are attached   *)
(* to servers (which needs no group mutex) while it runs; for the same     *)
(* reason the check of a server that is to be restarted and its end are    *)
(* two actions.  phase is "unlocked" exactly when nobody holds groupMutex. *)
(*                                                                         *)
(* The lists runningServers and restartingServers are sets here: every     *)
(* loop over them visits the servers in some order.                        *)
(***************************************************************************)
EXTENDS Integers, FiniteSets

CONSTANTS
  Server,         \* ServerRasNet objects; one is reused once it is destroyed
  NoServer,       \* no server: an empty shared pointer
  Port,           \* port numbers
  InitialConfig,  \* the configuration the group is created with
  Changes,        \* the changes an administrator may ask for
  MaxClients,     \* RasMgrConfig::maximumNumberOfClientsPerServer
  Modulus,        \* 2^w for the code's unsigned w-bit counters
  MaxSessionNo,   \* bound: sessionNo is only counted up to this value
  MaxCrashes,     \* bound: how often a process may end or hang by itself
  ForkMayFail     \* whether fork() may return -1

VARIABLES
  stopped,         \* ServerGroupImpl::stopped
  config,          \* ServerGroupImpl::config
  availablePorts,  \* ServerGroupImpl::availablePorts
  list,            \* which of the group's three lists holds the server
  port,            \* ServerRasNet::port
  started,         \* ServerRasNet::started
  allocated,       \* ServerRasNet::allocatedClientsNo
  sessionNo,       \* ServerRasNet::sessionNo
  expired,         \* has the Timer of a starting server expired?
  process,         \* the operating system process of the server
  phase,           \* what the holder of groupMutex is doing
  todo,            \* the servers the current loop has not yet visited
  availableServerNo, idleServerNo, \* the two counters of evaluateGroup
  quota,           \* servers still to be started or stopped by a loop
  victim,          \* the restarting server found free and about to be killed
  stopLevel,       \* the KillLevel of the stop() in force (history)
  handed,          \* the server handed to a client, not yet allocated to it
  stage,           \* how far the allocation of that server has got
  crashes          \* number of crashes so far (bound only)

groupVars == <<stopped, config, availablePorts, stopLevel>>
loopVars == <<phase, todo, availableServerNo, idleServerNo, quota>>
clientVars == <<handed, stage>>
serverVars == <<list, port, started, allocated, sessionNo, expired, process>>
vars == <<groupVars, loopVars, clientVars, serverVars, victim, crashes>>

-----------------------------------------------------------------------------
(* Constants and types.                                                    *)

Unset == -1

KillLevel == {"NONE", "FORCE", "KILL"}
Lists == {"none", "starting", "running", "restarting"}

\* "none" stands for a processId of -1; a process that hangs is alive and
\* answers no call.
ProcessStates == {"none", "up", "hung", "dead"}

\* "startAlive" is the loop of start(), the others are those of evaluateGroup.
Phases == {"unlocked", "startAlive", "removeDead", "restart", "count", "start",
           "stopIdle"}

Config == [ports : SUBSET Port, min_alive_server_no : Nat,
           min_available_server_no : Nat, max_idle_server_no : Nat,
           countdown : Nat]

Change == [ports : SUBSET Port, min_alive_server_no : Nat \cup {Unset},
           min_available_server_no : Nat \cup {Unset},
           max_idle_server_no : Nat \cup {Unset},
           countdown : Nat \cup {Unset},
           db_host : BOOLEAN]  \* does the change name another database host?

\* validateAndInitConfig, after the defaults have been filled in.
validateAndInitConfig(c) ==
  /\ c.ports # {}
  /\ c.min_available_server_no <= c.min_alive_server_no
  /\ Cardinality(c.ports) >= c.min_alive_server_no

ASSUME ConstantsAssumption ==
  /\ NoServer \notin Server
  /\ IsFiniteSet(Server)
  /\ Port \subseteq Nat
  /\ IsFiniteSet(Port)
  /\ InitialConfig \in Config
  /\ validateAndInitConfig(InitialConfig)
  /\ Changes \subseteq Change
  /\ MaxClients \in Nat \ {0}
  /\ Modulus \in Nat
  /\ Modulus > MaxClients
  /\ MaxSessionNo \in Nat
  /\ MaxCrashes \in Nat
  /\ ForkMayFail \in BOOLEAN

-----------------------------------------------------------------------------
(* The group's lists and the observers of a server.                        *)

starting == {s \in Server : list[s] = "starting"}
running == {s \in Server : list[s] = "running"}
restarting == {s \in Server : list[s] = "restarting"}

Alive(s) == process[s] \in {"up", "hung"}

\* Mutant: a server counts as alive once its process has been started.
isAlive_unchecked(s) == started[s]

\* ServerRasNet::isAlive.  The status call fails for a process that hangs.
isAlive(s) == started[s] /\ process[s] = "up"

\* getClientQueueSize asks the server process, which drops clients that
\* stay silent on its own and so may report fewer than rasmgr counts.
QueueSizes == 0 .. MaxClients

\* isFree and isAvailable: throw, or give an answer and leave the counter
\* of allocated clients at a value n.  A server that is in runningServers
\* or restartingServers has registered.
isFreeThrows(s) == ~started[s] \/ (allocated[s] # 0 /\ process[s] # "up")
isFreeCounts(s) ==
  IF ~started[s] THEN {}
  ELSE IF allocated[s] = 0 THEN {0}
  ELSE IF process[s] = "up" THEN QueueSizes ELSE {}

isAvailableThrows(s) ==
  ~started[s] \/ (allocated[s] >= MaxClients /\ process[s] # "up")
isAvailableCounts(s) ==
  IF ~started[s] THEN {}
  ELSE IF allocated[s] < MaxClients THEN {allocated[s]}
  ELSE IF process[s] = "up" THEN QueueSizes ELSE {}

\* Mutant: SIGTERM is sent, SIGKILL never is.
Killed_politely(K) == process

\* The processes after ServerRasNet::stop(KILL) on every server of K.  The
\* signal for a processId of -1 goes to every process rasmgr may signal.
Killed(K) ==
  [s \in Server |->
     IF process[s] = "none" THEN "none"
     ELSE IF s \in K \/ \E k \in K : process[k] = "none" THEN "dead"
     ELSE process[s]]

\* stop(KILL), the port goes back to the pool, the list entry is erased and
\* with it the object (a client that still holds it finds it not started).
Release(K) ==
  /\ process' = Killed(K)
  /\ availablePorts' = availablePorts \cup {port[s] : s \in K}
  /\ list' = [s \in Server |-> IF s \in K THEN "none" ELSE list[s]]
  /\ sessionNo' = [s \in Server |-> IF s \in K THEN 0 ELSE sessionNo[s]]
  /\ expired' = [s \in Server |-> expired[s] /\ s \notin K]

\* An exception leaves the operation; the mutex is released.
Unlock ==
  /\ phase' = "unlocked"
  /\ todo' = {}
  /\ availableServerNo' = 0
  /\ idleServerNo' = 0
  /\ quota' = 0

-----------------------------------------------------------------------------
Init ==
  /\ stopped = TRUE
  /\ config = InitialConfig
  /\ availablePorts = InitialConfig.ports
  /\ list = [s \in Server |-> "none"]
  /\ port = [s \in Server |-> CHOOSE p \in Port : TRUE]
  /\ started = [s \in Server |-> FALSE]
  /\ allocated = [s \in Server |-> 0]
  /\ sessionNo = [s \in Server |-> 0]
  /\ expired = [s \in Server |-> FALSE]
  /\ process = [s \in Server |-> "dead"]
  /\ phase = "unlocked"
  /\ todo = {}
  /\ availableServerNo = 0
  /\ idleServerNo = 0
  /\ quota = 0
  /\ victim = NoServer
  /\ stopLevel = "NONE"
  /\ handed = NoServer
  /\ stage = "idle"
  /\ crashes = 0

-----------------------------------------------------------------------------
(* Operations of the administrator and of registering servers.             *)

start ==
  /\ phase = "unlocked"
  /\ stopped
  /\ stopped' = FALSE
  /\ phase' = "startAlive"
  /\ quota' = config.min_alive_server_no
  /\ stopLevel' = "NONE"
  /\ UNCHANGED <<config, availablePorts, todo, availableServerNo,
                 idleServerNo, clientVars, serverVars, victim, crashes>>

\* Mutant: only the running servers are stopped.
stop_runningOnly(level) ==
  /\ phase = "unlocked"
  /\ ~stopped
  /\ stopped' = TRUE
  /\ stopLevel' = level
  /\ LET killed == IF level = "KILL" THEN running ELSE {}
     IN /\ Release(killed)
        /\ started' = [s \in Server |-> started[s] /\ s \notin running]
        /\ allocated' = [s \in Server |-> IF s \in killed THEN 0 ELSE allocated[s]]
        /\ todo' = running \ killed
  /\ phase' = "removeDead"
  /\ UNCHANGED <<config, availableServerNo, idleServerNo, quota, clientVars,
                 port, victim, crashes>>

\* stopActiveServers followed by evaluateGroup, under one lock.  Servers
\* that are restarting are in neither of the two lists it goes through.
stop(level) ==
  /\ phase = "unlocked"
  /\ ~stopped
  /\ stopped' = TRUE
  /\ stopLevel' = level
  /\ LET killed == starting \cup (IF level = "KILL" THEN running ELSE {})
     IN /\ Release(killed)
        /\ started' = [s \in Server |-> started[s] /\ s \notin running \cup starting]
        /\ allocated' = [s \in Server |-> IF s \in killed THEN 0 ELSE allocated[s]]
        /\ todo' = running \ killed
  /\ phase' = "removeDead"
  /\ UNCHANGED <<config, availableServerNo, idleServerNo, quota, clientVars,
                 port, victim, crashes>>

\* Only a starting server of a group that is not stopped can register; in
\* any other case the call changes nothing.
tryRegisterServer(s) ==
  /\ phase = "unlocked"
  /\ ~stopped
  /\ list[s] = "starting"
  /\ process[s] = "up"
  /\ started[s]
  /\ list' = [list EXCEPT ![s] = "running"]
  /\ UNCHANGED <<groupVars, loopVars, clientVars, port, started, allocated,
                 sessionNo, expired, process, victim, crashes>>

Given(new, old) == IF new = Unset THEN old ELSE new

Updated(c) ==
  [ports |-> IF c.ports = {} THEN config.ports ELSE c.ports,
   min_alive_server_no |-> Given(c.min_alive_server_no, config.min_alive_server_no),
   min_available_server_no |-> Given(c.min_available_server_no, config.min_available_server_no),
   max_idle_server_no |-> Given(c.max_idle_server_no, config.max_idle_server_no),
   countdown |-> Given(c.countdown, config.countdown)]

\* The configuration is overwritten before it is validated, and stays so
\* when the validation throws, or when the new database host does not exist
\* (or the old one is gone): then the pool of ports is not refreshed.
changeGroupConfig(c) ==
  /\ phase = "unlocked"
  /\ stopped
  /\ config' = Updated(c)
  /\ \/ /\ c.ports # {}
        /\ validateAndInitConfig(Updated(c))
        /\ availablePorts' = c.ports
     \/ /\ c.ports = {} \/ ~validateAndInitConfig(Updated(c)) \/ c.db_host
        /\ UNCHANGED availablePorts
  /\ UNCHANGED <<stopped, stopLevel, loopVars, clientVars, serverVars, victim, crashes>>

-----------------------------------------------------------------------------
(* startServer, the body of the loops of start() and of evaluateGroup().   *)

\* The constructor of ServerRasNet.
newServer(s) ==
  /\ allocated' = [allocated EXCEPT ![s] = 0]
  /\ sessionNo' = [sessionNo EXCEPT ![s] = 0]

\* fork() fails and leaves a processId of -1, or the server is started.
startProcess(s) ==
  \E forked \in {TRUE} \cup (IF ForkMayFail THEN {FALSE} ELSE {}) :
    /\ started' = [started EXCEPT ![s] = forked]
    /\ process' = [process EXCEPT ![s] = IF forked THEN "up" ELSE "none"]

\* Mutant: the port is used but stays in the pool.
startServer_keepsPort(s) ==
  /\ phase \in {"startAlive", "start"}
  /\ quota > 0
  /\ list[s] = "none"
  /\ s # handed
  /\ \E p \in availablePorts :
       /\ \A q \in availablePorts : p <= q
       /\ availablePorts' = availablePorts
       /\ port' = [port EXCEPT ![s] = p]
  /\ newServer(s)
  /\ startProcess(s)
  /\ list' = [list EXCEPT ![s] = "starting"]
  /\ expired' = [expired EXCEPT ![s] = FALSE]
  /\ quota' = quota - 1
  /\ UNCHANGED <<stopped, config, stopLevel, phase, todo, availableServerNo,
                 idleServerNo, clientVars, victim, crashes>>

startServer(s) ==
  /\ phase \in {"startAlive", "start"}
  /\ quota > 0
  /\ list[s] = "none"
  /\ s # handed
  /\ \E p \in availablePorts :
       /\ \A q \in availablePorts : p <= q
       /\ availablePorts' = availablePorts \ {p}
       /\ port' = [port EXCEPT ![s] = p]
  /\ newServer(s)
  /\ startProcess(s)
  /\ list' = [list EXCEPT ![s] = "starting"]
  /\ expired' = [expired EXCEPT ![s] = FALSE]
  /\ quota' = quota - 1
  /\ UNCHANGED <<stopped, config, stopLevel, phase, todo, availableServerNo,
                 idleServerNo, clientVars, victim, crashes>>

\* The pool of ports is empty, startServer throws; or the loop is done.
finishStarting ==
  /\ phase \in {"startAlive", "start"}
  /\ quota = 0 \/ availablePorts = {}
  /\ Unlock
  /\ UNCHANGED <<groupVars, clientVars, serverVars, victim, crashes>>

-----------------------------------------------------------------------------
(* evaluateGroup                                                           *)

\* The cleanup thread of the server manager calls this every few seconds.
evaluateServerGroup ==
  /\ phase = "unlocked"
  /\ phase' = "removeDead"
  /\ todo' = running \cup starting
  /\ UNCHANGED <<groupVars, availableServerNo, idleServerNo, quota,
                 clientVars, serverVars, victim, crashes>>

\* Mutant: the timer of a starting server is never looked at.
removeDeadServers_runningOnly(s) ==
  /\ phase = "removeDead"
  /\ s \in todo
  /\ todo' = todo \ {s}
  /\ IF list[s] = "running" /\ ~isAlive(s)
       THEN /\ Release({s})
            /\ started' = [started EXCEPT ![s] = FALSE]
            /\ allocated' = [allocated EXCEPT ![s] = 0]
       ELSE UNCHANGED <<availablePorts, serverVars>>
  /\ UNCHANGED <<stopped, config, stopLevel, phase, availableServerNo, idleServerNo,
                 quota, clientVars, port, victim, crashes>>

removeDeadServers(s) ==
  /\ phase = "removeDead"
  /\ s \in todo
  /\ todo' = todo \ {s}
  /\ IF (list[s] = "running" /\ ~isAlive(s)) \/ (list[s] = "starting" /\ expired[s])
       THEN /\ Release({s})
            /\ started' = [started EXCEPT ![s] = FALSE]
            /\ allocated' = [allocated EXCEPT ![s] = 0]
       ELSE UNCHANGED <<availablePorts, serverVars>>
  /\ UNCHANGED <<stopped, config, stopLevel, phase, availableServerNo, idleServerNo,
                 quota, clientVars, port, victim, crashes>>

\* The first loop of evaluateRestartingServers.
MustRestart(s) ==
  /\ config.countdown > 0
  /\ list[s] = "running"
  /\ sessionNo[s] >= config.countdown

selectRestartingServers ==
  /\ phase = "removeDead"
  /\ todo = {}
  /\ phase' = "restart"
  /\ list' = [s \in Server |-> IF MustRestart(s) THEN "restarting" ELSE list[s]]
  /\ todo' = IF config.countdown > 0
               THEN restarting \cup {s \in Server : MustRestart(s)} ELSE {}
  /\ UNCHANGED <<groupVars, availableServerNo, idleServerNo, quota, clientVars,
                 port, started, allocated, sessionNo, expired, process, victim,
                 crashes>>

\* Its second loop: isFree.  A busy server stays in the list.
evaluateRestartingServers(s) ==
  /\ phase = "restart"
  /\ victim = NoServer
  /\ s \in todo
  /\ \E n \in isFreeCounts(s) :
       /\ allocated' = [allocated EXCEPT ![s] = n]
       /\ victim' = IF n = 0 THEN s ELSE NoServer
  /\ todo' = todo \ {s}
  /\ UNCHANGED <<groupVars, phase, availableServerNo, idleServerNo, quota, clientVars,
                 list, port, started, sessionNo, expired, process, crashes>>

\* stop(KILL) of a server that was free when it was asked.  A client that
\* holds the server may have been counted on it since.
killRestartingServer(s) ==
  /\ s = victim
  /\ Release({s})
  /\ started' = [started EXCEPT ![s] = FALSE]
  /\ allocated' = [allocated EXCEPT ![s] = 0]
  /\ victim' = NoServer
  /\ UNCHANGED <<stopped, config, stopLevel, loopVars, clientVars, port, crashes>>

beginCounting ==
  /\ phase = "restart"
  /\ todo = {}
  /\ victim = NoServer
  /\ IF stopped
       THEN Unlock
       ELSE /\ phase' = "count"
            /\ todo' = running
            /\ UNCHANGED <<availableServerNo, idleServerNo, quota>>
  /\ UNCHANGED <<groupVars, clientVars, serverVars, victim, crashes>>

\* isFree, and if that says no, isAvailable.
countServer(s) ==
  /\ phase = "count"
  /\ s \in todo
  /\ \E n \in isFreeCounts(s) :
       \/ /\ n = 0
          /\ allocated' = [allocated EXCEPT ![s] = 0]
          /\ idleServerNo' = idleServerNo + 1
          /\ availableServerNo' = availableServerNo + 1
       \/ /\ n # 0
          /\ \E m \in IF n < MaxClients THEN {n} ELSE QueueSizes :
               /\ allocated' = [allocated EXCEPT ![s] = m]
               /\ availableServerNo' = availableServerNo + (IF m < MaxClients THEN 1 ELSE 0)
          /\ UNCHANGED idleServerNo
  /\ todo' = todo \ {s}
  /\ UNCHANGED <<groupVars, phase, quota, clientVars, list, port, started,
                 sessionNo, expired, process, victim, crashes>>

MinOf(a, b) == IF a <= b THEN a ELSE b

\* Mutant: servers that are still starting are not counted.
notStartedServerNo_noStarting ==
  (Cardinality(config.ports) - Cardinality(running \cup restarting)) % Modulus

\* ports_size() - (starting + running + restarting), in unsigned arithmetic.
notStartedServerNo ==
  (Cardinality(config.ports) - Cardinality(starting \cup running \cup restarting)) % Modulus

\* Mutant: off by one.
TooFew_offByOne == availableServerNo + 1 < config.min_available_server_no

TooFew == availableServerNo < config.min_available_server_no
TooMany ==
  /\ availableServerNo > config.min_available_server_no
  /\ idleServerNo > config.max_idle_server_no

adjust ==
  /\ phase = "count"
  /\ todo = {}
  /\ \/ /\ TooFew
        /\ phase' = "start"
        /\ quota' = MinOf(config.min_available_server_no - availableServerNo,
                          notStartedServerNo)
        /\ UNCHANGED <<todo, availableServerNo, idleServerNo>>
     \/ /\ TooMany
        /\ phase' = "stopIdle"
        /\ quota' = MinOf(availableServerNo - config.min_available_server_no,
                          idleServerNo - config.max_idle_server_no)
        /\ todo' = running
        /\ UNCHANGED <<availableServerNo, idleServerNo>>
     \/ /\ ~TooFew
        /\ ~TooMany
        /\ Unlock
  /\ UNCHANGED <<groupVars, clientVars, serverVars, victim, crashes>>

\* stop(NONE) of a free server: it stays in runningServers, not started.
stopIdleServer(s) ==
  /\ phase = "stopIdle"
  /\ s \in todo
  /\ quota > 0
  /\ \E n \in isFreeCounts(s) :
       /\ allocated' = [allocated EXCEPT ![s] = n]
       /\ started' = [started EXCEPT ![s] = (n # 0)]
       /\ quota' = IF n = 0 THEN quota - 1 ELSE quota
  /\ todo' = todo \ {s}
  /\ UNCHANGED <<groupVars, phase, availableServerNo, idleServerNo, clientVars,
                 list, port, sessionNo, expired, process, victim, crashes>>

finishStopping ==
  /\ phase = "stopIdle"
  /\ todo = {} \/ quota = 0
  /\ Unlock
  /\ UNCHANGED <<groupVars, clientVars, serverVars, victim, crashes>>

\* isFree of the visited server throws and ends the whole evaluation.
evaluationThrows(s) ==
  /\ phase \in {"restart", "count", "stopIdle"}
  /\ victim = NoServer
  /\ s \in todo
  /\ phase = "stopIdle" => quota > 0
  /\ isFreeThrows(s)
  /\ Unlock
  /\ UNCHANGED <<groupVars, clientVars, serverVars, victim, crashes>>

evaluationStep ==
  \/ \E s \in Server :
       \/ removeDeadServers(s) \/ evaluateRestartingServers(s)
       \/ killRestartingServer(s) \/ countServer(s)
       \/ stopIdleServer(s) \/ startServer(s) \/ evaluationThrows(s)
  \/ selectRestartingServers \/ beginCounting \/ adjust
  \/ finishStarting \/ finishStopping

-----------------------------------------------------------------------------
(* Clients: tryGetAvailableServer under the group mutex, then              *)
(* allocateClientSession without it.  ClientManager::serverManagerMutex    *)
(* lets one client at a time go through both.                              *)

\* The servers of skip come first in the list and turn out to be full.
Skipped(skip) ==
  \A s \in skip : allocated[s] >= MaxClients /\ MaxClients \in isAvailableCounts(s)

tryGetAvailableServer(s) ==
  /\ phase = "unlocked"
  /\ stage = "idle"
  /\ s \in running
  /\ \E skip \in SUBSET (running \ {s}), n \in isAvailableCounts(s) :
       /\ Skipped(skip)
       /\ n < MaxClients
       /\ allocated' = [t \in Server |->
            IF t = s THEN n ELSE IF t \in skip THEN MaxClients ELSE allocated[t]]
  /\ handed' = s
  /\ stage' = "picked"
  /\ UNCHANGED <<groupVars, loopVars, list, port, started, sessionNo, expired,
                 process, victim, crashes>>

\* isAvailable throws on a server that comes before any available one.
tryGetAvailableServerThrows(s) ==
  /\ phase = "unlocked"
  /\ stage = "idle"
  /\ s \in running
  /\ isAvailableThrows(s)
  /\ \E skip \in SUBSET (running \ {s}) :
       /\ Skipped(skip)
       /\ allocated' = [t \in Server |-> IF t \in skip THEN MaxClients ELSE allocated[t]]
  /\ stage' = "thrown"
  /\ UNCHANGED <<groupVars, loopVars, handed, list, port, started, sessionNo,
                 expired, process, victim, crashes>>

\* allocateClientSession up to and including the AllocateClient call.
allocateClient ==
  /\ stage = "picked"
  /\ process[handed] = "up"
  /\ \E n \in isAvailableCounts(handed) :
       /\ allocated' = [allocated EXCEPT ![handed] = n]
       /\ n < MaxClients
  /\ stage' = "placed"
  /\ UNCHANGED <<groupVars, loopVars, handed, list, port, started, sessionNo,
                 expired, process, victim, crashes>>

\* The database host has recorded the session; count it (on an object that
\* has left the lists this is forgotten with the object).
countClientSession ==
  /\ stage = "placed"
  /\ IF list[handed] = "none"
       THEN UNCHANGED <<allocated, sessionNo>>
       ELSE /\ allocated' = [allocated EXCEPT ![handed] = (@ + 1) % Modulus]
            /\ sessionNo' = [sessionNo EXCEPT ![handed] = MinOf(@ + 1, MaxSessionNo)]
  /\ handed' = NoServer
  /\ stage' = "idle"
  /\ UNCHANGED <<groupVars, loopVars, list, port, started, expired, process,
                 victim, crashes>>

\* isAvailable says no: another client was quicker, or the queue is full.
allocationRefused ==
  /\ stage = "picked"
  /\ MaxClients \in isAvailableCounts(handed)
  /\ allocated' = [allocated EXCEPT ![handed] = MaxClients]
  /\ handed' = NoServer
  /\ stage' = "idle"
  /\ UNCHANGED <<groupVars, loopVars, list, port, started, sessionNo, expired,
                 process, victim, crashes>>

\* A check or a call of allocateClientSession throws, or the exception of
\* tryGetAvailableServer reaches the client.
allocationFails ==
  /\ stage \in {"picked", "placed", "thrown"}
  /\ handed' = NoServer
  /\ stage' = "idle"
  /\ UNCHANGED <<groupVars, loopVars, serverVars, victim, crashes>>

\* Mutant: a signed counter.
deallocateClientSession_signed(s) ==
  /\ list[s] # "none"
  /\ sessionNo[s] > 0
  /\ allocated' = [allocated EXCEPT ![s] = @ - 1]
  /\ UNCHANGED <<groupVars, loopVars, clientVars, list, port, started, sessionNo,
                 expired, process, victim, crashes>>

\* The counter goes down without a check.
deallocateClientSession(s) ==
  /\ list[s] # "none"
  /\ sessionNo[s] > 0
  /\ allocated' = [allocated EXCEPT ![s] = (@ - 1) % Modulus]
  /\ UNCHANGED <<groupVars, loopVars, clientVars, list, port, started, sessionNo,
                 expired, process, victim, crashes>>

-----------------------------------------------------------------------------
(* The environment.                                                        *)

timerExpires(s) ==
  /\ list[s] = "starting"
  /\ ~expired[s]
  /\ expired' = [expired EXCEPT ![s] = TRUE]
  /\ UNCHANGED <<groupVars, loopVars, clientVars, list, port, started, allocated,
                 sessionNo, process, victim, crashes>>

processFails(s) ==
  /\ crashes < MaxCrashes
  /\ Alive(s)
  /\ \E f \in {"hung", "dead"} :
       /\ f # process[s]
       /\ process' = [process EXCEPT ![s] = f]
  /\ crashes' = crashes + 1
  /\ UNCHANGED <<groupVars, loopVars, clientVars, list, port, started, allocated,
                 sessionNo, expired, victim>>

\* A process that was merely slow answers again.
processRecovers(s) ==
  /\ process[s] = "hung"
  /\ process' = [process EXCEPT ![s] = "up"]
  /\ UNCHANGED <<groupVars, loopVars, clientVars, list, port, started, allocated,
                 sessionNo, expired, victim, crashes>>

\* The SIGTERM of a stop(NONE) or stop(FORCE) takes effect.
processTerminates(s) ==
  /\ list[s] = "running"
  /\ ~started[s]
  /\ Alive(s)
  /\ process' = [process EXCEPT ![s] = "dead"]
  /\ UNCHANGED <<groupVars, loopVars, clientVars, list, port, started, allocated,
                 sessionNo, expired, victim, crashes>>

client ==
  \/ \E s \in Server : \/ tryGetAvailableServer(s) \/ tryGetAvailableServerThrows(s)
                       \/ deallocateClientSession(s)
  \/ allocateClient \/ allocationRefused \/ countClientSession \/ allocationFails

Next ==
  \/ start
  \/ \E level \in KillLevel : stop(level)
  \/ \E s \in Server : tryRegisterServer(s)
  \/ \E c \in Changes : changeGroupConfig(c)
  \/ evaluateServerGroup
  \/ evaluationStep
  \/ client
  \/ \E s \in Server : \/ timerExpires(s) \/ processFails(s)
                       \/ processRecovers(s) \/ processTerminates(s)

Spec == Init /\ [][Next]_vars

(***************************************************************************)
(* The cleanup thread keeps running, whoever holds the mutex goes on, the  *)
(* lock is granted to a waiting registration again and again, and time     *)
(* passes.  Administrators, clients and crashes are under no obligation.   *)
(***************************************************************************)
Fairness ==
  /\ SF_vars(evaluateServerGroup)
  /\ WF_vars(evaluationStep)
  /\ WF_vars(allocationFails)
  /\ \A s \in Server : SF_vars(tryRegisterServer(s)) /\ WF_vars(timerExpires(s))

FairSpec == Spec /\ Fairness

-----------------------------------------------------------------------------
(* Properties.                                                             *)

TypeOK ==
  /\ stopped \in BOOLEAN
  /\ config \in Config
  /\ availablePorts \in SUBSET Port
  /\ list \in [Server -> Lists]
  /\ port \in [Server -> Port]
  /\ started \in [Server -> BOOLEAN]
  /\ allocated \in [Server -> 0 .. Modulus - 1]
  /\ sessionNo \in [Server -> 0 .. MaxSessionNo]
  /\ expired \in [Server -> BOOLEAN]
  /\ process \in [Server -> ProcessStates]
  /\ phase \in Phases
  /\ todo \in SUBSET Server
  /\ availableServerNo \in Nat
  /\ idleServerNo \in Nat
  /\ quota \in Nat
  /\ victim \in Server \cup {NoServer}
  /\ stopLevel \in KillLevel
  /\ handed \in Server \cup {NoServer}
  /\ stage \in {"idle", "picked", "placed", "thrown"}
  /\ stage \in {"picked", "placed"} <=> handed \in Server
  /\ crashes \in 0 .. MaxCrashes

\* The pool of availablePorts and the lists never lead to two server
\* processes that live at the same time on one port, nor to a port that is
\* offered to a new server while the process of an old one still holds it.
PortOwnership ==
  \A s \in Server : Alive(s) =>
    /\ port[s] \notin availablePorts
    /\ \A t \in Server \ {s} : Alive(t) => port[t] # port[s]

\* Port bookkeeping of the lists, which makes PortOwnership inductive: a
\* live process belongs to a listed server, a listed server's port is not
\* in the pool, and two listed servers have different ports.
LiveServersAreListed == \A s \in Server : Alive(s) => list[s] # "none"

ListedPortsAreTaken ==
  \A s \in Server : list[s] # "none" =>
    /\ port[s] \notin availablePorts
    /\ \A t \in Server \ {s} : list[t] # "none" => port[t] # port[s]

\* The second loop of evaluateRestartingServers visits restarting servers.
RestartLoopVisitsRestarting ==
  /\ phase = "restart" => \A s \in todo : list[s] = "restarting"
  /\ victim # NoServer =>
       phase = "restart" /\ list[victim] = "restarting" /\ victim \notin todo

\* A stopped group has only restarting servers, but for those that the
\* evaluation inside stop() is about to remove.
StoppedGroupDrains ==
  /\ phase \in {"startAlive", "start", "count", "stopIdle"} => ~stopped
  /\ stopped => \A s \in Server :
       \/ list[s] \in {"none", "restarting"}
       \/ list[s] = "running" /\ ~started[s] /\ phase = "removeDead" /\ s \in todo

NothingRestarts ==
  /\ config.countdown = 0
  /\ \A s \in Server : list[s] # "restarting"

\* The two cases in which the ports are safe: the administrator never
\* changes the ports, or no server is ever restarted after a number of
\* sessions (which leaves nothing behind when the group is stopped).
FixedPorts == \A c \in Changes : c.ports = {}
NoRestarts ==
  /\ InitialConfig.countdown = 0
  /\ \A c \in Changes : c.countdown \in {Unset, 0}

PortInvariant ==
  /\ TypeOK
  /\ LiveServersAreListed
  /\ ListedPortsAreTaken
  /\ RestartLoopVisitsRestarting
  /\ StoppedGroupDrains
  /\ NoRestarts => NothingRestarts

\* The lists, the pool and the processes behave like an abstract pool of
\* ports: whatever is stopped, killed, restarted or lost, a port is given to
\* one server at a time and comes back with the end of its process.
Pool == INSTANCE PortPool
          WITH NoPort <- Unset,
               free <- availablePorts,
               owner <- [s \in Server |-> IF list[s] = "none" THEN Unset ELSE port[s]],
               live <- {s \in Server : Alive(s)}
RefinesPortPool == Pool!Spec

\* Every configured port is in the pool or with a server.  Not so after a
\* change of the ports that was rejected, or whose database host is missing.
listed == {s \in Server : list[s] # "none"}
PoolIsComplete == config.ports \subseteq availablePorts \cup {port[s] : s \in listed}

\* startServer is only called while the pool holds a port: the case its
\* comment calls "This should never happen" does not happen in evaluateGroup,
\* whatever is restarting, dying or starting, and in start() only when a
\* server that the last stop() left behind is still restarting.  The
\* configuration has to be a valid one whose ports have reached the pool.
NeverOutOfPorts ==
  validateAndInitConfig(config) /\ PoolIsComplete /\ quota > 0 =>
    /\ phase = "start" => availablePorts # {}
    /\ phase = "startAlive" /\ restarting = {} => availablePorts # {}

\* Once stop() has returned, and until the next start(), every server process
\* that is left belongs to a server that waits for its last clients in order
\* to be restarted.
StopSparesOnlyRestarting ==
  stopped /\ phase = "unlocked" => \A s \in Server : Alive(s) => list[s] = "restarting"

Available(s) == list[s] = "running" /\ isAlive(s) /\ allocated[s] < MaxClients

\* A running server whose process has ended leaves the list of running
\* servers.
DeadServersRemoved ==
  \A s \in Server :
    (list[s] = "running" /\ process[s] = "dead") ~> list[s] # "running"

\* A starting server registers or is given up: none stays in
\* startingServers for ever.
StartingServersResolved ==
  \A s \in Server : list[s] = "starting" ~> list[s] # "starting"

\* evaluateServerGroup keeps the minimum number of available servers: again
\* and again the group has that many, unless it is stopped or has no port
\* left for another server.
MinAvailableKept ==
  []<>( \/ stopped
        \/ availablePorts = {}
        \/ Cardinality({s \in Server : Available(s)}) >= config.min_available_server_no )
=============================================================================
