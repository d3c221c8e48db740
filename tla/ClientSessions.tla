--------------------------- MODULE ClientSessions ---------------------------
(***************************************************************************)
(* Clients of rasmgr and their database sessions: ClientManager and Client *)
(* (rasmgr_x/src/clientmanager.cc, client.cc), the session part of         *)
(* ServerRasNet (serverrasnet.cc), and the client list that the rasserver  *)
(* process keeps on its own (rasserver_x/src/clientmanager.cc).            *)
(*                                                                         *)
(* Calls of clients are handled by threads of the gRPC server; one worker  *)
(* thread removes clients that went silent.  A thread's pc says which      *)
(* locks of the code it holds: clientsMutex (shared or upgradable; it is   *)
(* held exclusively only within one step), serverManagerMutex, and the     *)
(* assignedServersMutex of the client it works for.                        *)
(***************************************************************************)
EXTENDS Integers, FiniteSets

CONSTANTS
  Client,      \* client UUIDs
  Server,      \* ServerRasNet objects
  Handler,     \* threads that handle calls of clients
  Worker,      \* the thread of evaluateClientsStatus
  None,
  SessionNo,   \* numbers of the sessions of one client
  MaxClients,  \* RasMgrConfig::maximumNumberOfClientsPerServer
  Modulus,     \* 2^w for the unsigned counter allocatedClientsNo
  Sequential,  \* whether a client waits for one call before the next
  Faults       \* what may go wrong, a subset of AllFaults

VARIABLES
  clients,      \* ClientManager::clients
  expired,      \* has the Timer of the client expired?
  assigned,     \* Client::assignedServers: the server of a session, or None
  allocated,    \* ServerRasNet::allocatedClientsNo
  sessionList,  \* ServerRasNet::sessionList, also recorded by the DatabaseHost
  clientList,   \* rasserver ClientManager::clientList
  state,        \* of a server: its process is "up" or "dead", or it is "gone"
  thread        \* what each thread is doing

clientVars == <<clients, expired, assigned>>
serverVars == <<allocated, sessionList, clientList, state>>
vars == <<clientVars, serverVars, thread>>

-----------------------------------------------------------------------------
(* Constants, threads and locks.                                           *)

AllFaults == {"call",    \* a call to a server fails, or its reply is lost
              "silent",  \* a client's timer runs out
              "forget",  \* a server drops a client it has not heard of
              "crash",   \* a server process ends
              "db"}      \* the database is removed while a session is opened

Session == Client \X SessionNo

ASSUME ConstantsAssumption ==
  /\ Worker \notin Handler
  /\ None \notin Client \cup Session \cup Server
  /\ MaxClients \in Nat \ {0}
  /\ Modulus \in Nat
  /\ Modulus > MaxClients
  /\ Sequential \in BOOLEAN
  /\ Faults \subseteq AllFaults

Thread == Handler \cup {Worker}

\* What a thread may be doing while it holds ...
Opening == {"find", "add", "allocate", "record"}
Closing == {"close", "closeCall"}
Evicting == {"evict", "remove", "removeCall", "erase"}
PCs == {"idle"} \cup Opening \cup Closing \cup Evicting

\* ... clientsMutex in shared mode, or as the one upgradable owner,
Shared_forEvicting == Opening \cup Closing \cup Evicting  \* mutant: a shared lock to evict
Shared == Opening \cup Closing
Upgradable == Evicting
\* ... serverManagerMutex, and the assignedServersMutex of its client.
HoldsServerManager_tryGetOnly == {"add"}       \* mutant: released before the session is added
HoldsAssigned_notOpening == {"closeCall", "remove", "removeCall"} \* mutant: opening takes no lock
HoldsServerManager == {"add", "allocate", "record"}
HoldsAssigned == {"allocate", "record", "closeCall", "remove", "removeCall"}

Idle == [pc |-> "idle", client |-> None, session |-> None, server |-> None,
         todo |-> {}]

NobodyShares == \A t \in Thread : thread[t].pc \notin Shared
CanUpgrade == \A t \in Thread : thread[t].pc \notin Upgradable
ServerManagerFree == \A t \in Thread : thread[t].pc \notin HoldsServerManager
AssignedFree(c) ==
  \A t \in Thread : thread[t].pc \in HoldsAssigned => thread[t].client # c

Begin(t, c, pc) == thread' = [thread EXCEPT ![t] = [Idle EXCEPT !.pc = pc, !.client = c]]
Goto(t, pc) == thread' = [thread EXCEPT ![t].pc = pc]
Finish(t) == thread' = [thread EXCEPT ![t] = Idle]

\* The call of a client arrives at an idle handler.
Accepts(t, c) ==
  /\ thread[t].pc = "idle"
  /\ c \in clients
  /\ Sequential => \A h \in Handler : thread[h].client # c

SessionsOf(c) == {i \in Session : i[1] = c /\ assigned[i] # None}

Holds(t, s) == thread[t].server = s

\* The ways a call to server s can end.
CallSucceeds(s) == state[s] = "up"
CallFails(s) == state[s] # "up" \/ "call" \in Faults
ReplyLost(s) == state[s] = "up" /\ "call" \in Faults

\* The reply to GetServerStatus, in an unsigned field as wide as the counter.
getClientQueueSize(s) == Cardinality(clientList[s]) % Modulus

\* isAvailable of a registered server: the value its counter is left at.
\* A server that looks full is asked how many clients it has ...
isAvailableCounts(s) ==
  IF allocated[s] < MaxClients THEN {allocated[s]}
  ELSE IF CallSucceeds(s) THEN {getClientQueueSize(s)} ELSE {}

\* ... and if it does not answer, isAvailable throws.
NoAnswer(s) == allocated[s] >= MaxClients /\ CallFails(s)

FreeCounts(s) == {n \in isAvailableCounts(s) : n < MaxClients}
FullCounts(s) == isAvailableCounts(s) \ FreeCounts(s)

-----------------------------------------------------------------------------
Init ==
  /\ clients = {}
  /\ expired = [c \in Client |-> FALSE]
  /\ assigned = [i \in Session |-> None]
  /\ allocated = [s \in Server |-> 0]
  /\ sessionList = [s \in Server |-> {}]
  /\ clientList = [s \in Server |-> {}]
  /\ state = [s \in Server |-> "up"]
  /\ thread = [t \in Thread |-> Idle]

\* A generated UUID is new: nothing mentions it.
FreshClient(c) ==
  /\ c \notin clients
  /\ \A t \in Thread : thread[t].client # c
  /\ \A s \in Server : c \notin clientList[s] /\ \A i \in sessionList[s] : i[1] # c

FreshSession(i) ==
  /\ assigned[i] = None
  /\ \A t \in Thread : thread[t].session # i
  /\ \A s \in Server : i \notin sessionList[s]

connectClient(c) ==
  /\ NobodyShares
  /\ CanUpgrade
  /\ FreshClient(c)
  /\ clients' = clients \cup {c}
  /\ expired' = [expired EXCEPT ![c] = FALSE]
  /\ UNCHANGED <<assigned, serverVars, thread>>

keepClientAlive(c) ==
  /\ c \in clients
  /\ expired' = [expired EXCEPT ![c] = FALSE]
  /\ UNCHANGED <<clients, assigned, serverVars, thread>>

-----------------------------------------------------------------------------
(* openClientDbSession                                                     *)

\* A bound: there is a session number left for every open call of client c.
SessionLeft(c) ==
  Cardinality({i \in Session : i[1] = c /\ FreshSession(i)})
    > Cardinality({t \in Handler : thread[t].client = c /\ thread[t].pc \in {"find", "add"}})

openClientDbSession(t, c) ==
  /\ Accepts(t, c)
  /\ SessionLeft(c)
  /\ Begin(t, c, "find")
  /\ UNCHANGED <<clientVars, serverVars>>

\* ServerManager::tryGetFreeServer finds a server.
tryGetFreeLocalServer(t, s) ==
  /\ thread[t].pc = "find"
  /\ ServerManagerFree
  /\ state[s] # "gone"
  /\ \E n \in FreeCounts(s) : allocated' = [allocated EXCEPT ![s] = n]
  /\ thread' = [thread EXCEPT ![t].pc = "add", ![t].server = s]
  /\ UNCHANGED <<clientVars, sessionList, clientList, state>>

\* The last attempt finds no server, or the look-up throws when a full
\* server does not answer.  What it asked of other servers before that, and
\* the earlier attempts, only refresh counters, as isFree below may anyway.
noServerAvailable(t) ==
  /\ thread[t].pc = "find"
  /\ ServerManagerFree
  /\ \/ /\ \A s \in Server : state[s] # "gone" => FullCounts(s) # {}
        /\ allocated' \in [Server -> 0 .. Modulus - 1]
        /\ \A s \in Server : IF state[s] = "gone" THEN allocated'[s] = allocated[s]
                                                ELSE allocated'[s] \in FullCounts(s)
     \/ /\ \E s \in Server : state[s] # "gone" /\ NoAnswer(s)
        /\ UNCHANGED allocated
  /\ Finish(t)
  /\ UNCHANGED <<clientVars, sessionList, clientList, state>>

\* The session is entered for the client before the server accepts it.
addDbSession(t, i) ==
  /\ thread[t].pc = "add"
  /\ i[1] = thread[t].client
  /\ AssignedFree(i[1])
  /\ FreshSession(i)
  /\ assigned' = [assigned EXCEPT ![i] = thread[t].server]
  /\ thread' = [thread EXCEPT ![t].pc = "allocate", ![t].session = i]
  /\ UNCHANGED <<clients, expired, serverVars>>

\* The user may not access the database.
addDbSessionDenied(t) ==
  /\ thread[t].pc = "add"
  /\ AssignedFree(thread[t].client)
  /\ Finish(t)
  /\ UNCHANGED <<clientVars, serverVars>>

\* allocateClientSession up to the AllocateClient call.
allocateClient(t) ==
  LET s == thread[t].server
      c == thread[t].client
  IN /\ thread[t].pc = "allocate"
     /\ \/ /\ \E n \in FreeCounts(s) : allocated' = [allocated EXCEPT ![s] = n]
           /\ \/ /\ CallSucceeds(s)
                 /\ clientList' = [clientList EXCEPT ![s] = @ \cup {c}]
                 /\ Goto(t, "record") \/ (ReplyLost(s) /\ Finish(t))
              \/ /\ CallFails(s)
                 /\ Finish(t)
                 /\ UNCHANGED clientList
        \/ /\ \E n \in FullCounts(s) : allocated' = [allocated EXCEPT ![s] = n]
           /\ Finish(t)
           /\ UNCHANGED clientList
        \/ /\ NoAnswer(s)
           /\ Finish(t)
           /\ UNCHANGED <<allocated, clientList>>
     /\ UNCHANGED <<clientVars, sessionList, state>>

\* The rest of allocateClientSession: the database host records the
\* session, the server object counts it.
recordSession(t) ==
  LET s == thread[t].server
  IN /\ thread[t].pc = "record"
     /\ \/ /\ sessionList' = [sessionList EXCEPT ![s] = @ \cup {thread[t].session}]
           /\ allocated' = [allocated EXCEPT ![s] = (@ + 1) % Modulus]
        \/ /\ "db" \in Faults
           /\ UNCHANGED <<sessionList, allocated>>
     /\ Finish(t)
     /\ UNCHANGED <<clientVars, clientList, state>>

-----------------------------------------------------------------------------
(* closeClientDbSession                                                    *)

\* The first half of deallocateClientSession, before the call.
Uncount_signed(s, i) ==                  \* mutant: a signed counter
  /\ sessionList' = [sessionList EXCEPT ![s] = @ \ {i}]
  /\ allocated' = [allocated EXCEPT ![s] = @ - 1]

Uncount(s, i) ==
  /\ sessionList' = [sessionList EXCEPT ![s] = @ \ {i}]
  /\ allocated' = [allocated EXCEPT ![s] = (@ - 1) % Modulus]

closeClientDbSession(t, i) ==
  /\ Accepts(t, i[1])
  /\ assigned[i] # None
  /\ thread' = [thread EXCEPT ![t] =
                  [Idle EXCEPT !.pc = "close", !.client = i[1], !.session = i]]
  /\ UNCHANGED <<clientVars, serverVars>>

\* removeDbSession: the weak pointer is locked and the session uncounted;
\* a session whose server object is gone is simply erased.
removeDbSession(t) ==
  LET i == thread[t].session
      s == assigned[i]
  IN /\ thread[t].pc = "close"
     /\ AssignedFree(thread[t].client)
     /\ IF s # None /\ state[s] # "gone"
          THEN /\ Uncount(s, i)
               /\ thread' = [thread EXCEPT ![t].pc = "closeCall", ![t].server = s]
               /\ UNCHANGED assigned
          ELSE /\ assigned' = [assigned EXCEPT ![i] = None]
               /\ Finish(t)
               /\ UNCHANGED <<sessionList, allocated>>
     /\ UNCHANGED <<clients, expired, clientList, state>>

\* Mutant: the server is not told.
removeDbSessionCall_notSent(t) ==
  /\ thread[t].pc = "closeCall"
  /\ assigned' = [assigned EXCEPT ![thread[t].session] = None]
  /\ Finish(t)
  /\ UNCHANGED <<clients, expired, allocated, sessionList, clientList, state>>

\* The DeallocateClient call; if it throws, the session stays assigned.
removeDbSessionCall(t) ==
  LET s == thread[t].server
      i == thread[t].session
  IN /\ thread[t].pc = "closeCall"
     /\ \/ /\ CallSucceeds(s)
           /\ clientList' = [clientList EXCEPT ![s] = @ \ {i[1]}]
           /\ assigned' = [assigned EXCEPT ![i] = None]
        \/ /\ CallFails(s)
           /\ UNCHANGED <<clientList, assigned>>
        \/ /\ ReplyLost(s)
           /\ clientList' = [clientList EXCEPT ![s] = @ \ {i[1]}]
           /\ UNCHANGED assigned
     /\ Finish(t)
     /\ UNCHANGED <<clients, expired, allocated, sessionList, state>>

-----------------------------------------------------------------------------
(* Removing a client: disconnectClient, and the worker thread.             *)

disconnectClient(t, c) ==
  /\ Accepts(t, c)
  /\ CanUpgrade
  /\ Begin(t, c, "evict")
  /\ UNCHANGED <<clientVars, serverVars>>

\* Client::isClientAliveOnServers, for a client whose timer has expired.  A
\* server that has a client but has not heard of it for too long denies it.
aliveOnServer(c) ==
  {b \in BOOLEAN :
     IF \E i \in SessionsOf(c) : CallSucceeds(assigned[i]) /\ c \in clientList[assigned[i]]
       THEN b \/ Faults \cap {"call", "forget"} # {}
       ELSE ~b}

\* Client::removeDeadServers
withoutGoneServers(c) ==
  [i \in Session |-> IF i \in SessionsOf(c) /\ state[assigned[i]] = "gone"
                       THEN None ELSE assigned[i]]

\* Mutant: a client that still has sessions is not evicted.
evaluateClientsStatus_sessionless(c) ==
  /\ thread[Worker].pc = "idle"
  /\ CanUpgrade
  /\ c \in clients
  /\ expired[c]
  /\ AssignedFree(c)
  /\ \/ /\ TRUE \in aliveOnServer(c)
        /\ expired' = [expired EXCEPT ![c] = FALSE]
        /\ UNCHANGED thread
     \/ /\ SessionsOf(c) = {}
        /\ Begin(Worker, c, "evict")
        /\ UNCHANGED expired
  /\ assigned' = withoutGoneServers(c)
  /\ UNCHANGED <<clients, serverVars>>

evaluateClientsStatus(c) ==
  /\ thread[Worker].pc = "idle"
  /\ CanUpgrade
  /\ c \in clients
  /\ expired[c]
  /\ AssignedFree(c)
  /\ \/ /\ TRUE \in aliveOnServer(c)
        /\ expired' = [expired EXCEPT ![c] = FALSE]
        /\ UNCHANGED thread
     \/ /\ FALSE \in aliveOnServer(c)
        /\ Begin(Worker, c, "evict")
        /\ UNCHANGED expired
  /\ assigned' = withoutGoneServers(c)
  /\ UNCHANGED <<clients, serverVars>>

\* removeClientFromServers goes through the sessions under its lock ...
removeClientFromServers_none(t) ==       \* mutant: the servers are not told
  /\ thread[t].pc = "evict"
  /\ AssignedFree(thread[t].client)
  /\ thread' = [thread EXCEPT ![t].pc = "remove"]
  /\ UNCHANGED <<clientVars, serverVars>>

removeClientFromServers(t) ==
  /\ thread[t].pc = "evict"
  /\ AssignedFree(thread[t].client)
  /\ thread' = [thread EXCEPT ![t].pc = "remove", ![t].todo = SessionsOf(thread[t].client)]
  /\ UNCHANGED <<clientVars, serverVars>>

removeFromServer(t, i) ==
  LET s == assigned[i]
  IN /\ thread[t].pc = "remove"
     /\ i \in thread[t].todo
     /\ IF state[s] # "gone"
          THEN /\ Uncount(s, i)
               /\ thread' = [thread EXCEPT ![t].pc = "removeCall", ![t].session = i,
                                           ![t].server = s]
          ELSE /\ thread' = [thread EXCEPT ![t].todo = @ \ {i}]
               /\ UNCHANGED <<sessionList, allocated>>
     /\ UNCHANGED <<clientVars, clientList, state>>

\* ... an exception of the call ends it and leaves the client as it is.
removeFromServerCall(t) ==
  LET s == thread[t].server
      i == thread[t].session
  IN /\ thread[t].pc = "removeCall"
     /\ \/ /\ CallSucceeds(s)
           /\ clientList' = [clientList EXCEPT ![s] = @ \ {i[1]}]
           /\ thread' = [thread EXCEPT ![t].pc = "remove", ![t].server = None,
                                       ![t].session = None, ![t].todo = @ \ {i}]
        \/ /\ CallFails(s)
           /\ Finish(t)
           /\ UNCHANGED clientList
        \/ /\ ReplyLost(s)
           /\ clientList' = [clientList EXCEPT ![s] = @ \ {i[1]}]
           /\ Finish(t)
     /\ UNCHANGED <<clientVars, allocated, sessionList, state>>

\* ... and at the end forgets all of them.
clearAssignedServers(t) ==
  LET c == thread[t].client
  IN /\ thread[t].pc = "remove"
     /\ thread[t].todo = {}
     /\ assigned' = [i \in Session |-> IF i[1] = c THEN None ELSE assigned[i]]
     /\ Goto(t, "erase")
     /\ UNCHANGED <<clients, expired, serverVars>>

\* The upgradable lock becomes exclusive once nobody shares clientsMutex.
\* The client object goes, with the sessions entered in the meantime.
eraseClient(t) ==
  LET c == thread[t].client
  IN /\ thread[t].pc = "erase"
     /\ NobodyShares
     /\ clients' = clients \ {c}
     /\ assigned' = [i \in Session |-> IF i[1] = c THEN None ELSE assigned[i]]
     /\ expired' = [expired EXCEPT ![c] = FALSE]
     /\ Finish(t)
     /\ UNCHANGED serverVars

-----------------------------------------------------------------------------
(* The environment: time, servers and the group's view of a server.        *)

timerExpires(c) ==
  /\ "silent" \in Faults
  /\ c \in clients
  /\ ~expired[c]
  /\ expired' = [expired EXCEPT ![c] = TRUE]
  /\ UNCHANGED <<clients, assigned, serverVars, thread>>

\* rasserver: ClientManager::evaluateClientStatus drops a silent client.
evaluateClientStatus(s, c) ==
  /\ "forget" \in Faults
  /\ c \in clientList[s]
  /\ clientList' = [clientList EXCEPT ![s] = @ \ {c}]
  /\ UNCHANGED <<clientVars, allocated, sessionList, state, thread>>

serverCrashes(s) ==
  /\ "crash" \in Faults
  /\ state[s] = "up"
  /\ state' = [state EXCEPT ![s] = "dead"]
  /\ clientList' = [clientList EXCEPT ![s] = {}]
  /\ UNCHANGED <<clientVars, allocated, sessionList, thread>>

\* The group has dropped the server and no thread holds it: ~ServerRasNet.
serverDestroyed(s) ==
  /\ state[s] = "dead"
  /\ \A t \in Thread : ~Holds(t, s)
  /\ state' = [state EXCEPT ![s] = "gone"]
  /\ sessionList' = [sessionList EXCEPT ![s] = {}]
  /\ allocated' = [allocated EXCEPT ![s] = 0]
  /\ UNCHANGED <<clientVars, clientList, thread>>

\* isFree, called by the evaluation of the group, corrects the counter.
isFree(s) ==
  /\ state[s] = "up"
  /\ allocated[s] # 0
  /\ allocated' = [allocated EXCEPT ![s] = getClientQueueSize(s)]
  /\ UNCHANGED <<clientVars, sessionList, clientList, state, thread>>

-----------------------------------------------------------------------------
threadStep(t) ==
  \/ \E s \in Server : tryGetFreeLocalServer(t, s)
  \/ noServerAvailable(t) \/ addDbSessionDenied(t)
  \/ \E i \in Session : addDbSession(t, i) \/ removeFromServer(t, i)
  \/ allocateClient(t) \/ recordSession(t)
  \/ removeDbSession(t) \/ removeDbSessionCall(t)
  \/ removeClientFromServers(t) \/ removeFromServerCall(t)
  \/ clearAssignedServers(t) \/ eraseClient(t)

clientCall ==
  \/ \E c \in Client : connectClient(c) \/ keepClientAlive(c)
  \/ \E t \in Handler :
       \/ \E c \in Client : openClientDbSession(t, c) \/ disconnectClient(t, c)
       \/ \E i \in Session : closeClientDbSession(t, i)

environment ==
  \/ \E c \in Client : timerExpires(c) \/ evaluateClientsStatus(c)
  \/ \E s \in Server :
       \/ \E c \in Client : evaluateClientStatus(s, c)
       \/ serverCrashes(s) \/ serverDestroyed(s) \/ isFree(s)

Next == clientCall \/ environment \/ \E t \in Thread : threadStep(t)

Spec == Init /\ [][Next]_vars

\* A thread that waits for a lock gets it, the worker wakes up every few
\* seconds, and the group evaluation drops dead servers.  The upgrade of
\* clientsMutex does not keep new readers out, and a thread that works for
\* a session keeps its server object alive: calls of clients that always
\* overlap would starve both, so the load is assumed to leave gaps.
Fairness ==
  /\ []<>NobodyShares
  /\ \A s \in Server : []<>(\A t \in Thread : ~Holds(t, s))
  /\ \A t \in Thread : SF_vars(threadStep(t))
  /\ \A c \in Client : SF_vars(evaluateClientsStatus(c))
  /\ \A s \in Server : SF_vars(serverDestroyed(s))

LiveSpec == Spec /\ Fairness

-----------------------------------------------------------------------------
(* Properties.                                                             *)

TypeOK ==
  /\ clients \in SUBSET Client
  /\ expired \in [Client -> BOOLEAN]
  /\ assigned \in [Session -> Server \cup {None}]
  /\ allocated \in [Server -> 0 .. Modulus - 1]
  /\ sessionList \in [Server -> SUBSET Session]
  /\ clientList \in [Server -> SUBSET Client]
  /\ state \in [Server -> {"up", "dead", "gone"}]
  /\ thread \in [Thread -> [pc : PCs, client : Client \cup {None},
                            session : Session \cup {None},
                            server : Server \cup {None}, todo : SUBSET Session]]

\* A server never has more sessions than maximumNumberOfClientsPerServer,
\* as rasmgr counts them: serverManagerMutex keeps a free server from being
\* given to two clients.
SessionsWithinCapacity ==
  \A s \in Server : Cardinality(sessionList[s]) <= MaxClients

\* The same as the rasserver process sees it.  A server is uncounted before
\* it is told, so that for the time of that call it may have one client too
\* many; but the clients it is to keep never exceed its capacity.
Leaving(s) ==
  {thread[t].client : t \in {t \in Thread : Holds(t, s) /\ thread[t].pc \in {"closeCall", "removeCall"}}}
ClientsWithinCapacity ==
  \A s \in Server : Cardinality(clientList[s] \ Leaving(s)) <= MaxClients

\* A client that has been removed has left the servers: no server and no
\* database host counts a session of it any more.
CleanExit ==
  \A s \in Server : \A i \in sessionList[s] : i[1] \in clients

\* A session that a server object counts for a known client can still be
\* released: the client has it in assignedServers, for this server, until
\* deallocateClientSession has uncounted it.
RecordedSessionsAreAssigned ==
  \A s \in Server : \A i \in sessionList[s] : i[1] \in clients => assigned[i] = s

\* A client that has gone silent is heard of again or removed, whatever
\* happened to its servers in the meantime.
SilentClientsLeave ==
  \A c \in Client :
    (c \in clients /\ expired[c]) ~> (c \notin clients \/ ~expired[c])

\* Clients, sessions and servers behave like an abstract table of sessions,
\* however the steps of opening, closing and leaving take turns.
Table == INSTANCE SessionTable
           WITH Capacity <- MaxClients, present <- clients, held <- sessionList
RefinesSessionTable == Table!Spec

\* Thread t waits for a lock that thread u holds: serverManagerMutex, the
\* assignedServersMutex of the client, or clientsMutex.
WaitsFor(t, u) ==
  \/ thread[t].pc = "find" /\ thread[u].pc \in HoldsServerManager
  \/ /\ thread[t].pc \in {"add", "close", "evict"}
     /\ thread[u].pc \in HoldsAssigned
     /\ thread[u].client = thread[t].client
  \/ thread[t].pc = "erase" /\ thread[u].pc \in Shared

\* No threads wait for each other, or for themselves: the locks of handlers
\* and of the worker are taken in an order that excludes a deadlock.
NoLockCycle ==
  \A C \in SUBSET Thread :
    C # {} => \E t \in C : \A u \in C : ~WaitsFor(t, u)
=============================================================================
