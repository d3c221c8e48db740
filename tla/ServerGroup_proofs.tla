------------------------ MODULE ServerGroup_proofs -------------------------
(***************************************************************************)
(* Proofs about ServerGroup, for any number of servers and ports, any      *)
(* configuration and any set of changes to it.                             *)
(***************************************************************************)
EXTENDS ServerGroup, FiniteSetTheorems, TLAPS

-----------------------------------------------------------------------------
(* Facts about the operators of the model.                                 *)

\* Unsigned arithmetic stays within the width of the counter.
LEMMA ModulusRange ==
  ASSUME NEW a \in Int
  PROVE  a % Modulus \in 0 .. Modulus - 1
  BY ConstantsAssumption

\* notStartedServerNo is a value of the unsigned counter.
LEMMA NotStartedType ==
  ASSUME config \in Config
  PROVE  notStartedServerNo \in Nat
<1>1. IsFiniteSet(config.ports)
  BY ConstantsAssumption, FS_Subset DEF Config
<1>2. IsFiniteSet(starting \cup running \cup restarting)
  BY ConstantsAssumption, FS_Subset DEF starting, running, restarting
<1>3. Cardinality(config.ports) \in Nat
  BY <1>1, FS_CardinalityType
<1>4. Cardinality(starting \cup running \cup restarting) \in Nat
  BY <1>2, FS_CardinalityType
<1> QED
  BY <1>3, <1>4, ModulusRange DEF notStartedServerNo

\* A change of the configuration gives a configuration of the same type.
LEMMA UpdatedType ==
  ASSUME config \in Config, NEW c \in Changes
  PROVE  Updated(c) \in Config
<1>1. c \in Change
  BY ConstantsAssumption
<1> QED
  BY <1>1 DEF Updated, Given, Config, Change, Unset

\* What erasing the servers of K does to the types.
LEMMA ReleaseType ==
  ASSUME TypeOK, NEW K \in SUBSET Server, Release(K)
  PROVE  /\ process' \in [Server -> ProcessStates]
         /\ availablePorts' \in SUBSET Port
         /\ list' \in [Server -> Lists]
         /\ sessionNo' \in [Server -> 0 .. MaxSessionNo]
         /\ expired' \in [Server -> BOOLEAN]
<1>1. process' \in [Server -> ProcessStates]
  BY DEF TypeOK, Release, Killed, ProcessStates
<1>2. availablePorts' \in SUBSET Port
  BY DEF TypeOK, Release
<1>3. list' \in [Server -> Lists]
  BY DEF TypeOK, Release, Lists
<1>4. sessionNo' \in [Server -> 0 .. MaxSessionNo]
  BY ConstantsAssumption DEF TypeOK, Release
<1>5. expired' \in [Server -> BOOLEAN]
  BY Zenon DEF TypeOK, Release
<1> QED
  BY <1>1, <1>2, <1>3, <1>4, <1>5

-----------------------------------------------------------------------------
(* Type correctness.                                                       *)

\* The initial state is well typed.
LEMMA TypeInit == Init => TypeOK
<1> SUFFICES ASSUME Init PROVE TypeOK
  OBVIOUS
<1>1. InitialConfig.ports \in SUBSET Port /\ InitialConfig.ports # {}
  BY ConstantsAssumption DEF Config, validateAndInitConfig
<1>2. (CHOOSE p \in Port : TRUE) \in Port
  BY <1>1
<1>3. 0 \in 0 .. Modulus - 1 /\ 0 \in 0 .. MaxSessionNo /\ 0 \in 0 .. MaxCrashes
  BY ConstantsAssumption
<1> QED
  BY <1>1, <1>2, <1>3, ConstantsAssumption
     DEF Init, TypeOK, Lists, ProcessStates, Phases, KillLevel

\* Every step preserves the types.
LEMMA TypeStep == TypeOK /\ [Next]_vars => TypeOK'
<1> USE DEF groupVars, loopVars, clientVars, serverVars
<1> SUFFICES ASSUME TypeOK, [Next]_vars PROVE TypeOK'
  OBVIOUS
<1>1. CASE start
  BY <1>1 DEF start, TypeOK, Config, Phases, KillLevel
<1>2. ASSUME NEW level \in KillLevel, stop(level) PROVE TypeOK'
  <2> DEFINE killed == starting \cup (IF level = "KILL" THEN running ELSE {})
  <2>1. killed \in SUBSET Server /\ Release(killed)
    BY <1>2 DEF stop, starting, running
  <2>2. started' \in [Server -> BOOLEAN]
    BY <1>2, Zenon DEF stop, TypeOK
  <2>3. todo' \in SUBSET Server
    BY <1>2 DEF stop, running, starting
  <2>4. allocated' \in [Server -> 0 .. Modulus - 1]
    BY <1>2, ConstantsAssumption DEF stop, TypeOK
  <2> HIDE DEF killed
  <2> QED
    BY <1>2, <2>1, <2>2, <2>3, <2>4, ReleaseType DEF stop, TypeOK, Phases
<1>3. ASSUME NEW s \in Server, tryRegisterServer(s) PROVE TypeOK'
  BY <1>3 DEF tryRegisterServer, TypeOK, Lists
<1>4. ASSUME NEW c \in Changes, changeGroupConfig(c) PROVE TypeOK'
  <2>1. config' \in Config
    BY <1>4, UpdatedType DEF changeGroupConfig, TypeOK
  <2>2. availablePorts' \in SUBSET Port
    <3>1. c \in Change
      BY ConstantsAssumption
    <3> QED
      BY <1>4, <3>1 DEF changeGroupConfig, TypeOK, Change
  <2> QED
    BY <1>4, <2>1, <2>2 DEF changeGroupConfig, TypeOK
<1>5. CASE evaluateServerGroup
  BY <1>5 DEF evaluateServerGroup, TypeOK, Phases, running, starting
<1>6. CASE evaluationStep
  <2>1. ASSUME NEW s \in Server, removeDeadServers(s) PROVE TypeOK'
    <3>1. {s} \in SUBSET Server /\ 0 \in 0 .. Modulus - 1
      BY ConstantsAssumption
    <3>2. CASE /\ Release({s})
               /\ started' = [started EXCEPT ![s] = FALSE]
               /\ allocated' = [allocated EXCEPT ![s] = 0]
      BY <2>1, <3>1, <3>2, ReleaseType DEF removeDeadServers, TypeOK
    <3>3. CASE UNCHANGED <<availablePorts, serverVars>>
      BY <2>1, <3>3 DEF removeDeadServers, TypeOK
    <3> QED
      BY <2>1, <3>2, <3>3 DEF removeDeadServers
  <2>2. ASSUME NEW s \in Server, evaluateRestartingServers(s) PROVE TypeOK'
    <3>1. allocated' \in [Server -> 0 .. Modulus - 1]
      BY <2>2, ConstantsAssumption
         DEF evaluateRestartingServers, isFreeCounts, QueueSizes, TypeOK
    <3>2. victim' \in Server \cup {NoServer}
      BY <2>2 DEF evaluateRestartingServers
    <3> QED
      BY <2>2, <3>1, <3>2 DEF evaluateRestartingServers, TypeOK
  <2>12. ASSUME NEW s \in Server, killRestartingServer(s) PROVE TypeOK'
    <3>1. {s} \in SUBSET Server /\ 0 \in 0 .. Modulus - 1
      BY ConstantsAssumption
    <3> QED
      BY <2>12, <3>1, ReleaseType DEF killRestartingServer, TypeOK
  <2>3. ASSUME NEW s \in Server, countServer(s) PROVE TypeOK'
    <3>1. /\ allocated' \in [Server -> 0 .. Modulus - 1]
          /\ idleServerNo' \in Nat
          /\ availableServerNo' \in Nat
      BY <2>3, ConstantsAssumption DEF countServer, isFreeCounts, QueueSizes, TypeOK
    <3> QED
      BY <2>3, <3>1 DEF countServer, TypeOK
  <2>4. ASSUME NEW s \in Server, stopIdleServer(s) PROVE TypeOK'
    <3>1. /\ allocated' \in [Server -> 0 .. Modulus - 1]
          /\ quota' \in Nat
      BY <2>4, ConstantsAssumption DEF stopIdleServer, isFreeCounts, QueueSizes, TypeOK
    <3>2. started' \in [Server -> BOOLEAN]
      BY <2>4 DEF stopIdleServer, TypeOK
    <3> QED
      BY <2>4, <3>1, <3>2 DEF stopIdleServer, TypeOK
  <2>5. ASSUME NEW s \in Server, startServer(s) PROVE TypeOK'
    <3>1. 0 \in 0 .. Modulus - 1 /\ 0 \in 0 .. MaxSessionNo
      BY ConstantsAssumption
    <3>2. started' \in [Server -> BOOLEAN]
      BY <2>5 DEF startServer, startProcess, newServer, TypeOK
    <3>3. process' \in [Server -> ProcessStates]
      BY <2>5 DEF startServer, startProcess, newServer, TypeOK, ProcessStates
    <3> QED
      BY <2>5, <3>1, <3>2, <3>3 DEF startServer, startProcess, newServer, TypeOK, Lists
  <2>6. ASSUME NEW s \in Server, evaluationThrows(s) PROVE TypeOK'
    BY <2>6 DEF evaluationThrows, Unlock, TypeOK, Phases
  <2>7. CASE selectRestartingServers
    <3>1. list' \in [Server -> Lists]
      BY <2>7 DEF selectRestartingServers, TypeOK, Lists
    <3> QED
      BY <2>7, <3>1 DEF selectRestartingServers, TypeOK, Phases, restarting
  <2>8. CASE beginCounting
    BY <2>8 DEF beginCounting, Unlock, TypeOK, Phases, running
  <2>9. CASE adjust
    <3>1. quota' \in Nat
      <4>1. CASE TooFew /\ quota' = MinOf(config.min_available_server_no - availableServerNo,
                                          notStartedServerNo)
        BY <4>1, NotStartedType DEF TooFew, MinOf, TypeOK, Config
      <4>2. CASE TooMany /\ quota' = MinOf(availableServerNo - config.min_available_server_no,
                                           idleServerNo - config.max_idle_server_no)
        BY <4>2 DEF TooMany, MinOf, TypeOK, Config
      <4>3. CASE Unlock
        BY <4>3 DEF Unlock
      <4> QED
        BY <2>9, <4>1, <4>2, <4>3 DEF adjust
    <3> QED
      BY <2>9, <3>1 DEF adjust, Unlock, TypeOK, Phases, running
  <2>10. CASE finishStarting
    BY <2>10 DEF finishStarting, Unlock, TypeOK, Phases
  <2>11. CASE finishStopping
    BY <2>11 DEF finishStopping, Unlock, TypeOK, Phases
  <2> QED
    BY <1>6, <2>1, <2>2, <2>3, <2>4, <2>5, <2>6, <2>7, <2>8, <2>9, <2>10, <2>11,
       <2>12 DEF evaluationStep
<1>7. CASE client
  <2>1. ASSUME NEW s \in Server, tryGetAvailableServer(s) PROVE TypeOK'
    <3>1. allocated' \in [Server -> 0 .. Modulus - 1]
      BY <2>1, ConstantsAssumption
         DEF tryGetAvailableServer, isAvailableCounts, QueueSizes, TypeOK
    <3> QED
      BY <2>1, <3>1 DEF tryGetAvailableServer, TypeOK
  <2>2. ASSUME NEW s \in Server, tryGetAvailableServerThrows(s) PROVE TypeOK'
    <3>1. allocated' \in [Server -> 0 .. Modulus - 1]
      BY <2>2, ConstantsAssumption DEF tryGetAvailableServerThrows, TypeOK
    <3> QED
      BY <2>2, <3>1 DEF tryGetAvailableServerThrows, TypeOK
  <2>3. ASSUME NEW s \in Server, deallocateClientSession(s) PROVE TypeOK'
    <3>1. (allocated[s] - 1) % Modulus \in 0 .. Modulus - 1
      BY ModulusRange DEF TypeOK
    <3> QED
      BY <2>3, <3>1 DEF deallocateClientSession, TypeOK
  <2>4. CASE allocateClient
    <3>1. allocated' \in [Server -> 0 .. Modulus - 1]
      BY <2>4, ConstantsAssumption
         DEF allocateClient, isAvailableCounts, QueueSizes, TypeOK
    <3> QED
      BY <2>4, <3>1 DEF allocateClient, TypeOK
  <2>5. CASE allocationRefused
    <3>1. allocated' \in [Server -> 0 .. Modulus - 1]
      BY <2>5, ConstantsAssumption DEF allocationRefused, TypeOK
    <3> QED
      BY <2>5, <3>1, ConstantsAssumption DEF allocationRefused, TypeOK
  <2>6. CASE countClientSession
    <3>1. handed \in Server
      BY <2>6 DEF countClientSession, TypeOK
    <3>2. (allocated[handed] + 1) % Modulus \in 0 .. Modulus - 1
      BY <3>1, ModulusRange DEF TypeOK
    <3>3. MinOf(sessionNo[handed] + 1, MaxSessionNo) \in 0 .. MaxSessionNo
      BY <3>1, ConstantsAssumption DEF TypeOK, MinOf
    <3>4. /\ allocated' \in [Server -> 0 .. Modulus - 1]
          /\ sessionNo' \in [Server -> 0 .. MaxSessionNo]
      BY <2>6, <3>2, <3>3 DEF countClientSession, TypeOK
    <3> QED
      BY <2>6, <3>4, ConstantsAssumption DEF countClientSession, TypeOK
  <2>7. CASE allocationFails
    BY <2>7, ConstantsAssumption DEF allocationFails, TypeOK
  <2> QED
    BY <1>7, <2>1, <2>2, <2>3, <2>4, <2>5, <2>6, <2>7 DEF client
<1>8. ASSUME NEW s \in Server, timerExpires(s) PROVE TypeOK'
  BY <1>8 DEF timerExpires, TypeOK
<1>9. ASSUME NEW s \in Server, processFails(s) PROVE TypeOK'
  BY <1>9, ConstantsAssumption DEF processFails, TypeOK, ProcessStates
<1>10. ASSUME NEW s \in Server, processRecovers(s) PROVE TypeOK'
  BY <1>10 DEF processRecovers, TypeOK, ProcessStates
<1>11. ASSUME NEW s \in Server, processTerminates(s) PROVE TypeOK'
  BY <1>11 DEF processTerminates, TypeOK, ProcessStates
<1>12. CASE UNCHANGED vars
  BY <1>12 DEF vars, TypeOK
<1> QED
  BY <1>1, <1>2, <1>3, <1>4, <1>5, <1>6, <1>7, <1>8, <1>9, <1>10, <1>11, <1>12 DEF Next

\* Every state of the group is well typed, whatever the administrator, the
\* clients, the servers and the cleanup thread do.
THEOREM TypeCorrect == Spec => []TypeOK
  BY TypeInit, TypeStep, PTL DEF Spec

-----------------------------------------------------------------------------
(* Ports.                                                                  *)

\* Killing listed servers and returning their ports keeps the bookkeeping.
LEMMA ReleasePorts ==
  ASSUME TypeOK, LiveServersAreListed, ListedPortsAreTaken,
         NEW K \in SUBSET Server, \A s \in K : list[s] # "none",
         Release(K), port' = port
  PROVE  LiveServersAreListed' /\ ListedPortsAreTaken'
<1>1. \A s \in Server : list'[s] # "none" => s \notin K /\ list[s] # "none"
  BY DEF Release
<1>2. \A s \in Server : Alive(s)' => Alive(s) /\ s \notin K
  BY DEF Release, Killed, Alive
<1>3. LiveServersAreListed'
  <2> SUFFICES ASSUME NEW s \in Server, Alive(s)' PROVE list'[s] # "none"
    BY DEF LiveServersAreListed
  <2>1. list[s] # "none" /\ s \notin K
    BY <1>2 DEF LiveServersAreListed
  <2> QED
    BY <2>1 DEF Release
<1>4. ListedPortsAreTaken'
  <2> SUFFICES ASSUME NEW s \in Server, list'[s] # "none"
               PROVE  /\ port[s] \notin availablePorts'
                      /\ \A t \in Server \ {s} : list'[t] # "none" => port[t] # port[s]
    BY DEF ListedPortsAreTaken
  <2>1. \A k \in K : port[k] # port[s]
    BY <1>1 DEF ListedPortsAreTaken
  <2> QED
    BY <1>1, <2>1 DEF ListedPortsAreTaken, Release
<1> QED
  BY <1>3, <1>4

\* A step that moves servers between lists, or in which processes end,
\* keeps the bookkeeping.
LEMMA PortsKept ==
  ASSUME LiveServersAreListed, ListedPortsAreTaken,
         port' = port, availablePorts' = availablePorts,
         \A s \in Server : list'[s] = "none" <=> list[s] = "none",
         \A s \in Server : Alive(s)' => Alive(s)
  PROVE  LiveServersAreListed' /\ ListedPortsAreTaken'
<1>1. LiveServersAreListed'
  BY DEF LiveServersAreListed
<1>2. ListedPortsAreTaken'
  BY DEF ListedPortsAreTaken
<1> QED
  BY <1>1, <1>2

\* The restart loop only visits servers of the list of restarting servers.
LEMMA RestartLoopStep ==
  ASSUME TypeOK, RestartLoopVisitsRestarting, [Next]_vars
  PROVE  RestartLoopVisitsRestarting'
<1> USE DEF groupVars, loopVars, clientVars, serverVars, RestartLoopVisitsRestarting
<1>1. CASE start
  BY <1>1 DEF start
<1>2. ASSUME NEW level \in KillLevel, stop(level) PROVE RestartLoopVisitsRestarting'
  BY <1>2 DEF stop
<1>3. ASSUME NEW s \in Server, tryRegisterServer(s) PROVE RestartLoopVisitsRestarting'
  BY <1>3 DEF tryRegisterServer
<1>4. ASSUME NEW c \in Changes, changeGroupConfig(c) PROVE RestartLoopVisitsRestarting'
  BY <1>4 DEF changeGroupConfig
<1>5. CASE evaluateServerGroup
  BY <1>5 DEF evaluateServerGroup
<1>6. CASE evaluationStep
  <2>1. ASSUME NEW s \in Server, removeDeadServers(s) PROVE RestartLoopVisitsRestarting'
    BY <2>1 DEF removeDeadServers
  <2>2. ASSUME NEW s \in Server, evaluateRestartingServers(s)
        PROVE  RestartLoopVisitsRestarting'
    BY <2>2 DEF evaluateRestartingServers
  <2>12. ASSUME NEW s \in Server, killRestartingServer(s)
         PROVE  RestartLoopVisitsRestarting'
    <3>1. s \in Server /\ s = victim /\ victim' = NoServer /\ phase = "restart"
          /\ s \notin todo /\ UNCHANGED <<phase, todo>>
      BY <2>12, ConstantsAssumption DEF killRestartingServer
    <3>2. \A t \in todo : list'[t] = list[t]
      BY <2>12, <3>1 DEF killRestartingServer, Release, TypeOK
    <3> QED
      BY <3>1, <3>2
  <2>3. ASSUME NEW s \in Server, countServer(s) PROVE RestartLoopVisitsRestarting'
    BY <2>3 DEF countServer
  <2>4. ASSUME NEW s \in Server, stopIdleServer(s) PROVE RestartLoopVisitsRestarting'
    BY <2>4 DEF stopIdleServer
  <2>5. ASSUME NEW s \in Server, startServer(s) PROVE RestartLoopVisitsRestarting'
    BY <2>5 DEF startServer, startProcess, newServer
  <2>6. ASSUME NEW s \in Server, evaluationThrows(s) PROVE RestartLoopVisitsRestarting'
    BY <2>6 DEF evaluationThrows, Unlock
  <2>7. CASE selectRestartingServers
    <3>1. \A t \in todo' : t \in Server /\ list'[t] = "restarting"
      BY <2>7 DEF selectRestartingServers, restarting, TypeOK
    <3>2. victim' = victim /\ victim = NoServer
      BY <2>7 DEF selectRestartingServers
    <3> QED
      BY <3>1, <3>2
  <2>8. CASE beginCounting
    BY <2>8 DEF beginCounting, Unlock
  <2>9. CASE adjust
    BY <2>9 DEF adjust, Unlock
  <2>10. CASE finishStarting
    BY <2>10 DEF finishStarting, Unlock
  <2>11. CASE finishStopping
    BY <2>11 DEF finishStopping, Unlock
  <2> QED
    BY <1>6, <2>1, <2>2, <2>3, <2>4, <2>5, <2>6, <2>7, <2>8, <2>9, <2>10, <2>11,
       <2>12 DEF evaluationStep
<1>7. CASE client
  BY <1>7 DEF client, tryGetAvailableServer, tryGetAvailableServerThrows,
              deallocateClientSession, allocateClient, allocationRefused,
              countClientSession, allocationFails
<1>8. ASSUME NEW s \in Server,
             timerExpires(s) \/ processFails(s) \/ processRecovers(s) \/ processTerminates(s)
      PROVE  RestartLoopVisitsRestarting'
  BY <1>8 DEF timerExpires, processFails, processRecovers, processTerminates
<1>9. CASE UNCHANGED vars
  BY <1>9 DEF vars
<1> QED
  BY <1>1, <1>2, <1>3, <1>4, <1>5, <1>6, <1>7, <1>8, <1>9 DEF Next

\* stop() leaves only restarting servers behind.
LEMMA DrainStep ==
  ASSUME TypeOK, RestartLoopVisitsRestarting, StoppedGroupDrains, [Next]_vars
  PROVE  StoppedGroupDrains'
<1> USE DEF groupVars, loopVars, clientVars, serverVars, StoppedGroupDrains
<1>1. CASE start
  BY <1>1 DEF start
<1>2. ASSUME NEW level \in KillLevel, stop(level) PROVE StoppedGroupDrains'
  <2>1. ASSUME NEW s \in Server, list'[s] \notin {"none", "restarting"}
        PROVE  list'[s] = "running" /\ ~started'[s] /\ s \in todo'
    <3>1. list[s] \in {"running", "starting"}
      BY <1>2, <2>1 DEF stop, Release, TypeOK, Lists
    <3>2. list'[s] = "running" /\ s \in todo'
      BY <1>2, <2>1, <3>1 DEF stop, Release, running, starting
    <3>3. ~started'[s]
      BY <1>2, <3>1 DEF stop, running, starting
    <3> QED
      BY <3>2, <3>3
  <2> QED
    BY <1>2, <2>1 DEF stop
<1>3. ASSUME NEW s \in Server, tryRegisterServer(s) PROVE StoppedGroupDrains'
  BY <1>3 DEF tryRegisterServer, TypeOK
<1>4. ASSUME NEW c \in Changes, changeGroupConfig(c) PROVE StoppedGroupDrains'
  BY <1>4 DEF changeGroupConfig
<1>5. CASE evaluateServerGroup
  BY <1>5 DEF evaluateServerGroup
<1>6. CASE evaluationStep
  <2>1. ASSUME NEW s \in Server, removeDeadServers(s) PROVE StoppedGroupDrains'
    <3>1. \A t \in Server \ {s} :
            list'[t] = list[t] /\ started'[t] = started[t] /\ (t \in todo => t \in todo')
      BY <2>1 DEF removeDeadServers, Release, TypeOK
    <3>2. stopped => list'[s] \in {"none", "restarting"}
      BY <2>1 DEF removeDeadServers, Release, TypeOK, isAlive
    <3> QED
      BY <2>1, <3>1, <3>2 DEF removeDeadServers
  <2>2. ASSUME NEW s \in Server, evaluateRestartingServers(s) PROVE StoppedGroupDrains'
    BY <2>2 DEF evaluateRestartingServers
  <2>3. ASSUME NEW s \in Server, killRestartingServer(s) PROVE StoppedGroupDrains'
    <3>1. phase = "restart"
      BY <2>3, ConstantsAssumption DEF killRestartingServer, RestartLoopVisitsRestarting
    <3>2. \A t \in Server : list'[t] \in {list[t], "none"}
      BY <2>3 DEF killRestartingServer, Release, TypeOK
    <3> QED
      BY <2>3, <3>1, <3>2 DEF killRestartingServer
  <2>4. ASSUME NEW s \in Server, countServer(s) \/ stopIdleServer(s) \/ evaluationThrows(s)
        PROVE  StoppedGroupDrains'
    BY <2>4 DEF countServer, stopIdleServer, evaluationThrows, Unlock
  <2>5. ASSUME NEW s \in Server, startServer(s) PROVE StoppedGroupDrains'
    BY <2>5 DEF startServer, startProcess, newServer, TypeOK
  <2>6. CASE selectRestartingServers
    <3>1. \A t \in Server : stopped => list'[t] \in {"none", "restarting"}
      BY <2>6 DEF selectRestartingServers, MustRestart, TypeOK
    <3> QED
      BY <2>6, <3>1 DEF selectRestartingServers
  <2>7. CASE beginCounting
    BY <2>7 DEF beginCounting, Unlock
  <2>8. CASE adjust
    BY <2>8 DEF adjust, Unlock
  <2>9. CASE finishStarting \/ finishStopping
    BY <2>9 DEF finishStarting, finishStopping, Unlock
  <2> QED
    BY <1>6, <2>1, <2>2, <2>3, <2>4, <2>5, <2>6, <2>7, <2>8, <2>9 DEF evaluationStep
<1>7. CASE client
  BY <1>7 DEF client, tryGetAvailableServer, tryGetAvailableServerThrows,
              deallocateClientSession, allocateClient, allocationRefused,
              countClientSession, allocationFails
<1>8. ASSUME NEW s \in Server,
             timerExpires(s) \/ processFails(s) \/ processRecovers(s) \/ processTerminates(s)
      PROVE  StoppedGroupDrains'
  BY <1>8 DEF timerExpires, processFails, processRecovers, processTerminates
<1>9. CASE UNCHANGED vars
  BY <1>9 DEF vars
<1> QED
  BY <1>1, <1>2, <1>3, <1>4, <1>5, <1>6, <1>7, <1>8, <1>9 DEF Next

\* With a countdown of 0 throughout no server is ever restarting.
LEMMA NothingRestartsStep ==
  ASSUME TypeOK, NoRestarts, NothingRestarts, [Next]_vars
  PROVE  NothingRestarts'
<1> USE DEF groupVars, loopVars, clientVars, serverVars, NothingRestarts
<1>1. ASSUME NEW c \in Changes, changeGroupConfig(c) PROVE NothingRestarts'
  <2>1. config'.countdown = 0
    BY <1>1 DEF changeGroupConfig, Updated, Given, NoRestarts
  <2> QED
    BY <1>1, <2>1 DEF changeGroupConfig
<1>2. ASSUME NEW level \in KillLevel, stop(level) PROVE NothingRestarts'
  BY <1>2 DEF stop, Release
<1>3. CASE evaluationStep
  <2>1. ASSUME NEW s \in Server, removeDeadServers(s) PROVE NothingRestarts'
    BY <2>1 DEF removeDeadServers, Release
  <2>2. ASSUME NEW s \in Server, killRestartingServer(s) PROVE NothingRestarts'
    BY <2>2 DEF killRestartingServer, Release
  <2>3. ASSUME NEW s \in Server, startServer(s) PROVE NothingRestarts'
    BY <2>3 DEF startServer, TypeOK
  <2>4. CASE selectRestartingServers
    BY <2>4 DEF selectRestartingServers, MustRestart
  <2>5. ASSUME \/ \E s \in Server : \/ evaluateRestartingServers(s) \/ countServer(s)
                                    \/ stopIdleServer(s) \/ evaluationThrows(s)
               \/ beginCounting \/ adjust \/ finishStarting \/ finishStopping
        PROVE  NothingRestarts'
    <3>1. UNCHANGED <<config, list>>
      BY <2>5 DEF evaluateRestartingServers, countServer, stopIdleServer, evaluationThrows,
                  beginCounting, adjust, finishStarting, finishStopping
    <3> QED
      BY <3>1
  <2> QED
    BY <1>3, <2>1, <2>2, <2>3, <2>4, <2>5 DEF evaluationStep
<1>4. CASE client
  BY <1>4 DEF client, tryGetAvailableServer, tryGetAvailableServerThrows,
              deallocateClientSession, allocateClient, allocationRefused,
              countClientSession, allocationFails
<1>5. ASSUME NEW s \in Server, tryRegisterServer(s) PROVE NothingRestarts'
  BY <1>5 DEF tryRegisterServer, TypeOK
<1>6. ASSUME NEW s \in Server,
             timerExpires(s) \/ processFails(s) \/ processRecovers(s) \/ processTerminates(s)
      PROVE  NothingRestarts'
  BY <1>6 DEF timerExpires, processFails, processRecovers, processTerminates
<1>7. CASE start \/ evaluateServerGroup \/ UNCHANGED vars
  BY <1>7 DEF start, evaluateServerGroup, vars
<1> QED
  BY <1>1, <1>2, <1>3, <1>4, <1>5, <1>6, <1>7 DEF Next

\* The server that is about to be killed is one of the restarting servers.
LEMMA VictimIsListed ==
  ASSUME PortInvariant, NEW s \in Server, killRestartingServer(s)
  PROVE  list[s] # "none"
  BY ConstantsAssumption DEF PortInvariant, killRestartingServer, RestartLoopVisitsRestarting

\* Without restarts a stopped group that nobody works on is empty.
LEMMA EmptyWhenStopped ==
  ASSUME NoRestarts, PortInvariant, stopped, phase = "unlocked"
  PROVE  \A s \in Server : list[s] = "none"
  BY DEF PortInvariant, StoppedGroupDrains, NothingRestarts

\* Every step keeps the port bookkeeping, in both cases of the theorem.
LEMMA PortStep ==
  ASSUME FixedPorts \/ NoRestarts, PortInvariant, [Next]_vars
  PROVE  LiveServersAreListed' /\ ListedPortsAreTaken'
<1> DEFINE Goal == LiveServersAreListed' /\ ListedPortsAreTaken'
<1> USE DEF groupVars, loopVars, clientVars, serverVars
<1>0. TypeOK /\ LiveServersAreListed /\ ListedPortsAreTaken
  BY DEF PortInvariant
<1>1. CASE start
  BY <1>0, <1>1, PortsKept DEF start, Alive
<1>2. ASSUME NEW level \in KillLevel, stop(level) PROVE Goal
  <2> DEFINE killed == starting \cup (IF level = "KILL" THEN running ELSE {})
  <2>1. killed \in SUBSET Server /\ Release(killed) /\ port' = port
    BY <1>2 DEF stop, starting, running
  <2>2. \A s \in killed : list[s] # "none"
    BY DEF starting, running
  <2> HIDE DEF killed
  <2> QED
    BY <1>0, <2>1, <2>2, ReleasePorts
<1>3. ASSUME NEW s \in Server, tryRegisterServer(s) PROVE Goal
  <2>1. \A t \in Server : list'[t] = "none" <=> list[t] = "none"
    BY <1>0, <1>3 DEF tryRegisterServer, TypeOK
  <2> QED
    BY <1>0, <1>3, <2>1, PortsKept DEF tryRegisterServer, Alive
<1>4. ASSUME NEW c \in Changes, changeGroupConfig(c) PROVE Goal
  <2>1. CASE FixedPorts
    <3>1. availablePorts' = availablePorts
      BY <1>4, <2>1 DEF changeGroupConfig, FixedPorts
    <3> QED
      BY <1>0, <1>4, <3>1, PortsKept DEF changeGroupConfig, Alive
  <2>2. CASE NoRestarts
    <3>1. \A s \in Server : list'[s] = "none" /\ ~Alive(s)'
      <4>1. \A s \in Server : list[s] = "none"
        BY <1>4, <2>2, EmptyWhenStopped DEF changeGroupConfig
      <4> QED
        BY <1>0, <1>4, <4>1 DEF LiveServersAreListed, Alive, changeGroupConfig
    <3> QED
      BY <3>1 DEF LiveServersAreListed, ListedPortsAreTaken
  <2> QED
    BY <2>1, <2>2
<1>5. CASE evaluateServerGroup
  BY <1>0, <1>5, PortsKept DEF evaluateServerGroup, Alive
<1>6. CASE evaluationStep
  <2>1. ASSUME NEW s \in Server, removeDeadServers(s) PROVE Goal
    <3>1. CASE list[s] # "none" /\ Release({s}) /\ port' = port
      BY <1>0, <3>1, ReleasePorts
    <3>2. CASE UNCHANGED <<availablePorts, serverVars>>
      BY <1>0, <3>2, PortsKept DEF Alive
    <3> QED
      BY <2>1, <3>1, <3>2 DEF removeDeadServers
  <2>2. ASSUME NEW s \in Server, evaluateRestartingServers(s) PROVE Goal
    BY <1>0, <2>2, PortsKept DEF evaluateRestartingServers, Alive
  <2>12. ASSUME NEW s \in Server, killRestartingServer(s) PROVE Goal
    <3>1. list[s] # "none"
      BY <2>12, VictimIsListed
    <3> QED
      BY <1>0, <2>12, <3>1, ReleasePorts DEF killRestartingServer
  <2>3. ASSUME NEW s \in Server, countServer(s) PROVE Goal
    BY <1>0, <2>3, PortsKept DEF countServer, Alive
  <2>4. ASSUME NEW s \in Server, stopIdleServer(s) PROVE Goal
    BY <1>0, <2>4, PortsKept DEF stopIdleServer, Alive
  <2>5. ASSUME NEW s \in Server, startServer(s) PROVE Goal
    <3>1. PICK p \in availablePorts :
            /\ availablePorts' = availablePorts \ {p}
            /\ port' = [port EXCEPT ![s] = p]
      BY <2>5 DEF startServer, startProcess, newServer
    <3>2. port'[s] = p /\ \A t \in Server \ {s} : port'[t] = port[t]
      BY <1>0, <3>1 DEF TypeOK
    <3>3. /\ list'[s] = "starting"
          /\ \A t \in Server \ {s} : list'[t] = list[t] /\ process'[t] = process[t]
      BY <1>0, <2>5 DEF startServer, startProcess, newServer, TypeOK
    <3>4. LiveServersAreListed'
      BY <1>0, <3>3 DEF LiveServersAreListed, Alive
    <3>5. ListedPortsAreTaken'
      BY <1>0, <2>5, <3>1, <3>2, <3>3 DEF ListedPortsAreTaken, startServer, startProcess, newServer
    <3> QED
      BY <3>4, <3>5
  <2>6. ASSUME NEW s \in Server, evaluationThrows(s) PROVE Goal
    BY <1>0, <2>6, PortsKept DEF evaluationThrows, Alive
  <2>7. CASE selectRestartingServers
    <3>1. \A t \in Server : list'[t] = "none" <=> list[t] = "none"
      BY <1>0, <2>7 DEF selectRestartingServers, MustRestart, TypeOK
    <3> QED
      BY <1>0, <2>7, <3>1, PortsKept DEF selectRestartingServers, Alive
  <2>8. CASE beginCounting
    BY <1>0, <2>8, PortsKept DEF beginCounting, Alive
  <2>9. CASE adjust
    BY <1>0, <2>9, PortsKept DEF adjust, Alive
  <2>10. CASE finishStarting
    BY <1>0, <2>10, PortsKept DEF finishStarting, Alive
  <2>11. CASE finishStopping
    BY <1>0, <2>11, PortsKept DEF finishStopping, Alive
  <2> QED
    BY <1>6, <2>1, <2>2, <2>3, <2>4, <2>5, <2>6, <2>7, <2>8, <2>9, <2>10, <2>11,
       <2>12 DEF evaluationStep
<1>7. CASE client
  <2>1. UNCHANGED <<port, availablePorts, list, process>>
    BY <1>7 DEF client, tryGetAvailableServer, tryGetAvailableServerThrows,
                deallocateClientSession, allocateClient, allocationRefused,
                countClientSession, allocationFails
  <2> QED
    BY <1>0, <2>1, PortsKept DEF Alive
<1>8. ASSUME NEW s \in Server, timerExpires(s) PROVE Goal
  BY <1>0, <1>8, PortsKept DEF timerExpires, Alive
<1>9. ASSUME NEW s \in Server, processFails(s) \/ processRecovers(s) \/ processTerminates(s)
      PROVE  Goal
  <2>1. \A t \in Server : Alive(t)' => Alive(t)
    BY <1>0, <1>9 DEF processFails, processRecovers, processTerminates, Alive, TypeOK
  <2> QED
    BY <1>0, <1>9, <2>1, PortsKept DEF processFails, processRecovers, processTerminates
<1>10. CASE UNCHANGED vars
  BY <1>0, <1>10, PortsKept DEF vars, Alive
<1> QED
  BY <1>1, <1>2, <1>3, <1>4, <1>5, <1>6, <1>7, <1>8, <1>9, <1>10 DEF Next

\* The initial state satisfies the inductive invariant.
LEMMA PortInit == Init => PortInvariant
<1> SUFFICES ASSUME Init PROVE PortInvariant
  OBVIOUS
<1>1. TypeOK
  BY TypeInit
<1>2. LiveServersAreListed /\ ListedPortsAreTaken /\ RestartLoopVisitsRestarting
  BY DEF Init, LiveServersAreListed, ListedPortsAreTaken, Alive,
         RestartLoopVisitsRestarting
<1>3. StoppedGroupDrains /\ (NoRestarts => NothingRestarts)
  BY DEF Init, NoRestarts, StoppedGroupDrains, NothingRestarts
<1> QED
  BY <1>1, <1>2, <1>3 DEF PortInvariant

\* Every step preserves the inductive invariant.
LEMMA PortInvariantStep ==
  ASSUME FixedPorts \/ NoRestarts
  PROVE  PortInvariant /\ [Next]_vars => PortInvariant'
<1> SUFFICES ASSUME PortInvariant, [Next]_vars PROVE PortInvariant'
  OBVIOUS
<1>1. TypeOK'
  BY TypeStep DEF PortInvariant
<1>2. LiveServersAreListed' /\ ListedPortsAreTaken'
  BY PortStep
<1>3. RestartLoopVisitsRestarting'
  BY RestartLoopStep DEF PortInvariant
<1>4. StoppedGroupDrains' /\ (NoRestarts => NothingRestarts')
  BY DrainStep, NothingRestartsStep DEF PortInvariant
<1> QED
  BY <1>1, <1>2, <1>3, <1>4 DEF PortInvariant, NoRestarts

\* If the administrator never changes the ports of a group, or if no server
\* is ever restarted because of its countdown, no two live server processes
\* of the group share a port and no port in use is offered again.
THEOREM PortSafety ==
  ASSUME FixedPorts \/ NoRestarts
  PROVE  Spec => []PortOwnership
<1>1. PortInvariant => PortOwnership
  BY DEF PortInvariant, PortOwnership, LiveServersAreListed, ListedPortsAreTaken
<1> QED
  BY PortInit, PortInvariantStep, <1>1, PTL DEF Spec

\* A live process belongs to a listed server, whatever the ports.
LEMMA LiveStep ==
  ASSUME TypeOK, LiveServersAreListed, [Next]_vars
  PROVE  LiveServersAreListed'
<1> USE DEF groupVars, loopVars, clientVars, serverVars, LiveServersAreListed, Alive
<1>1. ASSUME NEW K \in SUBSET Server, Release(K) PROVE LiveServersAreListed'
  BY <1>1 DEF Release, Killed
<1>2. ASSUME NEW level \in KillLevel, stop(level) PROVE LiveServersAreListed'
  <2> DEFINE killed == starting \cup (IF level = "KILL" THEN running ELSE {})
  <2>1. killed \in SUBSET Server /\ Release(killed)
    BY <1>2 DEF stop, starting, running
  <2> HIDE DEF killed
  <2> QED
    BY <1>1, <2>1
<1>3. CASE evaluationStep
  <2>1. ASSUME NEW s \in Server, removeDeadServers(s) PROVE LiveServersAreListed'
    BY <1>1, <2>1 DEF removeDeadServers
  <2>2. ASSUME NEW s \in Server, killRestartingServer(s) PROVE LiveServersAreListed'
    BY <1>1, <2>2 DEF killRestartingServer
  <2>3. ASSUME NEW s \in Server, startServer(s) PROVE LiveServersAreListed'
    BY <2>3 DEF startServer, startProcess, TypeOK
  <2>4. CASE selectRestartingServers
    BY <2>4 DEF selectRestartingServers, MustRestart
  <2>5. ASSUME \/ \E s \in Server : \/ evaluateRestartingServers(s) \/ countServer(s)
                                    \/ stopIdleServer(s) \/ evaluationThrows(s)
               \/ beginCounting \/ adjust \/ finishStarting \/ finishStopping
        PROVE  LiveServersAreListed'
    <3>1. UNCHANGED <<list, process>>
      BY <2>5 DEF evaluateRestartingServers, countServer, stopIdleServer, evaluationThrows,
                  beginCounting, adjust, finishStarting, finishStopping
    <3> QED
      BY <3>1
  <2> QED
    BY <1>3, <2>1, <2>2, <2>3, <2>4, <2>5 DEF evaluationStep
<1>4. CASE client
  BY <1>4 DEF client, tryGetAvailableServer, tryGetAvailableServerThrows,
              deallocateClientSession, allocateClient, allocationRefused,
              countClientSession, allocationFails
<1>5. ASSUME NEW s \in Server, tryRegisterServer(s) \/ timerExpires(s)
      PROVE  LiveServersAreListed'
  BY <1>5 DEF tryRegisterServer, timerExpires, TypeOK
<1>6. ASSUME NEW s \in Server, processFails(s) \/ processRecovers(s) \/ processTerminates(s)
      PROVE  LiveServersAreListed'
  BY <1>6 DEF processFails, processRecovers, processTerminates, TypeOK
<1>7. CASE start \/ evaluateServerGroup \/ (\E c \in Changes : changeGroupConfig(c))
           \/ UNCHANGED vars
  BY <1>7 DEF start, evaluateServerGroup, changeGroupConfig, vars
<1> QED
  BY <1>2, <1>3, <1>4, <1>5, <1>6, <1>7 DEF Next

\* Whatever the configuration and its changes, once stop() has returned only
\* servers that wait to be restarted are left with a process.
THEOREM StopKillsTheRest == Spec => []StopSparesOnlyRestarting
<1> DEFINE P == TypeOK /\ RestartLoopVisitsRestarting /\ StoppedGroupDrains /\ LiveServersAreListed
<1>1. Init => P
  BY PortInit DEF PortInvariant
<1>2. P /\ [Next]_vars => P'
  BY TypeStep, RestartLoopStep, DrainStep, LiveStep
<1>3. P => StopSparesOnlyRestarting
  BY DEF StopSparesOnlyRestarting, StoppedGroupDrains, LiveServersAreListed
<1> QED
  BY <1>1, <1>2, <1>3, PTL DEF Spec

-----------------------------------------------------------------------------
(* The pool of ports never runs dry.                                       *)

\* The ports of the servers and those of the pool are configured ones.
taken == {port[s] : s \in listed}
PortsAreConfigured == availablePorts \cup taken \subseteq config.ports

\* The lists never outgrow a valid configuration, and the loops that start
\* servers leave room for what they still have to start.
ListsFit == Cardinality(listed) <= Cardinality(config.ports)
RoomLeft ==
  validateAndInitConfig(config) =>
    /\ ListsFit
    /\ phase = "start" => Cardinality(listed) + quota <= Cardinality(config.ports)
    /\ phase = "startAlive" /\ restarting = {} =>
         Cardinality(listed) + quota <= Cardinality(config.ports)

PoolInvariant ==
  /\ PortInvariant
  /\ FixedPorts => PortsAreConfigured
  /\ RoomLeft

LEMMA PoolFinite ==
  ASSUME TypeOK
  PROVE  /\ IsFiniteSet(availablePorts) /\ Cardinality(availablePorts) \in Nat
         /\ IsFiniteSet(config.ports) /\ Cardinality(config.ports) \in Nat
         /\ IsFiniteSet(listed) /\ Cardinality(listed) \in Nat
<1>1. IsFiniteSet(availablePorts) /\ IsFiniteSet(config.ports)
  BY ConstantsAssumption, FS_Subset DEF TypeOK, Config
<1>2. IsFiniteSet(listed)
  BY ConstantsAssumption, FS_Subset DEF listed
<1> QED
  BY <1>1, <1>2, FS_CardinalityType

\* The listed servers have as many ports as there are servers.
LEMMA TakenPorts ==
  ASSUME PortInvariant
  PROVE  IsFiniteSet(taken) /\ Cardinality(taken) = Cardinality(listed)
<1> DEFINE f == [s \in listed |-> port[s]]
<1>0. TypeOK /\ ListedPortsAreTaken
  BY DEF PortInvariant
<1>1. \A s, t \in listed : port[s] = port[t] => s = t
  BY <1>0 DEF ListedPortsAreTaken, listed
<1>2. f \in Bijection(listed, taken)
  BY <1>1 DEF Bijection, Injection, Surjection, IsInjective, taken
<1>3. ExistsBijection(listed, taken)
  BY <1>2 DEF ExistsBijection
<1> QED
  BY <1>0, <1>3, PoolFinite, FS_Bijection

\* With fixed ports there cannot be more servers than ports.
LEMMA ListedFit == PortInvariant /\ PortsAreConfigured => ListsFit
<1> SUFFICES ASSUME PortInvariant, PortsAreConfigured PROVE ListsFit
  OBVIOUS
<1>1. taken \subseteq config.ports /\ IsFiniteSet(config.ports)
  BY PoolFinite DEF PortsAreConfigured, PortInvariant
<1>2. Cardinality(taken) <= Cardinality(config.ports)
  BY <1>1, FS_Subset
<1> QED
  BY <1>2, TakenPorts DEF ListsFit

\* A pool that is complete has as many ports as the lists leave room for.
LEMMA PortsLeft ==
  ASSUME PortInvariant, PoolIsComplete
  PROVE  Cardinality(config.ports) <= Cardinality(availablePorts) + Cardinality(listed)
<1>0. TypeOK
  BY DEF PortInvariant
<1>1. IsFiniteSet(taken) /\ Cardinality(taken) = Cardinality(listed)
  BY TakenPorts
<1>2. /\ IsFiniteSet(availablePorts \cup taken)
      /\ Cardinality(availablePorts \cup taken)
           = Cardinality(availablePorts) + Cardinality(taken)
               - Cardinality(availablePorts \cap taken)
  BY <1>0, <1>1, PoolFinite, FS_Union
<1>3. Cardinality(availablePorts \cap taken) \in Nat
  BY <1>0, PoolFinite, FS_Intersection, FS_CardinalityType
<1>4. Cardinality(config.ports) <= Cardinality(availablePorts \cup taken)
  BY <1>2, FS_Subset DEF PoolIsComplete, taken
<1>5. Cardinality(availablePorts) \in Nat /\ Cardinality(listed) \in Nat
      /\ Cardinality(config.ports) \in Nat
  BY <1>0, PoolFinite
<1> QED
  BY <1>1, <1>2, <1>3, <1>4, <1>5

\* The unsigned difference that evaluateGroup computes does not wrap.
LEMMA NotStartedFits ==
  ASSUME TypeOK, Cardinality(listed) <= Cardinality(config.ports),
         Cardinality(Port) < Modulus
  PROVE  notStartedServerNo = Cardinality(config.ports) - Cardinality(listed)
<1> DEFINE d == Cardinality(config.ports) - Cardinality(listed)
<1>1. starting \cup running \cup restarting = listed
  BY DEF starting, running, restarting, listed, TypeOK, Lists
<1>2. Cardinality(config.ports) <= Cardinality(Port) /\ Cardinality(Port) \in Nat
  BY ConstantsAssumption, FS_Subset, FS_CardinalityType DEF TypeOK, Config
<1>3. d \in 0 .. Modulus - 1 /\ Modulus \in Nat
  BY <1>2, PoolFinite, ConstantsAssumption
<1>4. d % Modulus = d
  <2> HIDE DEF d
  <2> QED
    BY <1>3
<1> QED
  BY <1>1, <1>4 DEF notStartedServerNo

\* Servers that leave the lists give back their ports.
LEMMA ReleaseConfigured ==
  ASSUME TypeOK, PortsAreConfigured, NEW K \in SUBSET Server, \A s \in K : list[s] # "none",
         Release(K), port' = port, config' = config
  PROVE  PortsAreConfigured'
  BY DEF Release, listed, taken, PortsAreConfigured

LEMMA ConfiguredKept ==
  ASSUME PortsAreConfigured, UNCHANGED <<availablePorts, port>>, config'.ports = config.ports,
         \A s \in Server : list'[s] = "none" <=> list[s] = "none"
  PROVE  PortsAreConfigured'
  BY DEF listed, taken, PortsAreConfigured

LEMMA ConfiguredStep ==
  ASSUME FixedPorts, PortInvariant, PortsAreConfigured, [Next]_vars
  PROVE  PortsAreConfigured'
<1> USE DEF groupVars, loopVars, clientVars, serverVars
<1>0. TypeOK
  BY DEF PortInvariant
<1>1. CASE start \/ evaluateServerGroup
  BY <1>1, ConfiguredKept DEF start, evaluateServerGroup
<1>2. ASSUME NEW level \in KillLevel, stop(level) PROVE PortsAreConfigured'
  <2> DEFINE killed == starting \cup (IF level = "KILL" THEN running ELSE {})
  <2>1. killed \in SUBSET Server /\ Release(killed) /\ port' = port /\ config' = config
    BY <1>2 DEF stop, starting, running
  <2>2. \A s \in killed : list[s] # "none"
    BY DEF starting, running
  <2> HIDE DEF killed
  <2> QED
    BY <1>0, <2>1, <2>2, ReleaseConfigured
<1>3. ASSUME NEW s \in Server, tryRegisterServer(s) PROVE PortsAreConfigured'
  <2>1. \A t \in Server : list'[t] = "none" <=> list[t] = "none"
    BY <1>0, <1>3 DEF tryRegisterServer, TypeOK
  <2> QED
    BY <1>3, <2>1, ConfiguredKept DEF tryRegisterServer
<1>4. ASSUME NEW c \in Changes, changeGroupConfig(c) PROVE PortsAreConfigured'
  <2>1. c.ports = {}
    BY DEF FixedPorts
  <2>2. config'.ports = config.ports /\ availablePorts' = availablePorts
    BY <1>4, <2>1 DEF changeGroupConfig, Updated
  <2> QED
    BY <1>4, <2>2, ConfiguredKept DEF changeGroupConfig
<1>5. CASE evaluationStep
  <2>1. ASSUME NEW s \in Server, removeDeadServers(s) PROVE PortsAreConfigured'
    <3>1. CASE list[s] # "none" /\ Release({s}) /\ port' = port
      BY <1>0, <2>1, <3>1, ReleaseConfigured DEF removeDeadServers
    <3>2. CASE UNCHANGED <<availablePorts, serverVars>>
      BY <2>1, <3>2, ConfiguredKept DEF removeDeadServers
    <3> QED
      BY <2>1, <3>1, <3>2 DEF removeDeadServers
  <2>2. ASSUME NEW s \in Server, killRestartingServer(s) PROVE PortsAreConfigured'
    <3>1. list[s] # "none"
      BY <2>2, VictimIsListed
    <3> QED
      BY <1>0, <2>2, <3>1, ReleaseConfigured DEF killRestartingServer
  <2>3. ASSUME NEW s \in Server, startServer(s) PROVE PortsAreConfigured'
    <3>1. PICK p \in availablePorts :
            /\ availablePorts' = availablePorts \ {p}
            /\ port' = [port EXCEPT ![s] = p]
      BY <2>3 DEF startServer
    <3>2. listed' = listed \cup {s} /\ s \notin listed /\ config' = config
      BY <1>0, <2>3 DEF startServer, listed, TypeOK
    <3>3. port'[s] = p /\ \A t \in Server \ {s} : port'[t] = port[t]
      BY <1>0, <3>1 DEF TypeOK
    <3>4. taken' = taken \cup {p}
      BY <3>2, <3>3 DEF listed, taken
    <3> QED
      BY <3>1, <3>2, <3>4 DEF PortsAreConfigured
  <2>4. CASE selectRestartingServers
    <3>1. \A t \in Server : list'[t] = "none" <=> list[t] = "none"
      BY <1>0, <2>4 DEF selectRestartingServers, MustRestart, TypeOK
    <3> QED
      BY <2>4, <3>1, ConfiguredKept DEF selectRestartingServers
  <2>5. ASSUME \/ \E s \in Server : \/ evaluateRestartingServers(s) \/ countServer(s)
                                    \/ stopIdleServer(s) \/ evaluationThrows(s)
               \/ beginCounting \/ adjust \/ finishStarting \/ finishStopping
        PROVE  PortsAreConfigured'
    <3>1. UNCHANGED <<availablePorts, port, config, list>>
      BY <2>5 DEF evaluateRestartingServers, countServer, stopIdleServer, evaluationThrows,
                  beginCounting, adjust, finishStarting, finishStopping
    <3> QED
      BY <3>1, ConfiguredKept
  <2> QED
    BY <1>5, <2>1, <2>2, <2>3, <2>4, <2>5 DEF evaluationStep
<1>6. CASE client
  <2>1. UNCHANGED <<availablePorts, port, config, list>>
    BY <1>6 DEF client, tryGetAvailableServer, tryGetAvailableServerThrows,
                deallocateClientSession, allocateClient, allocationRefused,
                countClientSession, allocationFails
  <2> QED
    BY <2>1, ConfiguredKept
<1>7. ASSUME NEW s \in Server,
             timerExpires(s) \/ processFails(s) \/ processRecovers(s) \/ processTerminates(s)
      PROVE  PortsAreConfigured'
  BY <1>7, ConfiguredKept DEF timerExpires, processFails, processRecovers, processTerminates
<1>8. CASE UNCHANGED vars
  BY <1>8, ConfiguredKept DEF vars
<1> QED
  BY <1>1, <1>2, <1>3, <1>4, <1>5, <1>6, <1>7, <1>8 DEF Next

\* A step outside of the loops that start servers, after which no such loop
\* runs and the lists are no longer than before.
LEMMA RoomKept ==
  ASSUME TypeOK, RoomLeft, config' = config, listed' \subseteq listed,
         phase' \notin {"startAlive", "start"}
  PROVE  RoomLeft'
<1>1. IsFiniteSet(listed)
  BY PoolFinite
<1>2. IsFiniteSet(listed') /\ Cardinality(listed') <= Cardinality(listed)
  BY <1>1, FS_Subset
<1>3. Cardinality(listed') \in Nat /\ Cardinality(listed) \in Nat
      /\ Cardinality(config.ports) \in Nat
  BY <1>2, PoolFinite, FS_CardinalityType
<1> QED
  BY <1>2, <1>3 DEF ListsFit, RoomLeft, validateAndInitConfig

\* A step that touches neither the lists nor the loop.
LEMMA RoomSame ==
  ASSUME RoomLeft, UNCHANGED <<config, phase, quota>>, listed' = listed,
         restarting' = restarting
  PROVE  RoomLeft'
  BY DEF ListsFit, RoomLeft, validateAndInitConfig

LEMMA ReleaseShrinks ==
  ASSUME NEW K \in SUBSET Server, Release(K)
  PROVE  listed' \subseteq listed
  BY DEF Release, listed

LEMMA RoomStep ==
  ASSUME FixedPorts \/ NoRestarts, Cardinality(Port) < Modulus, PoolInvariant, [Next]_vars
  PROVE  RoomLeft'
<1> USE DEF groupVars, loopVars, clientVars, serverVars
<1>0. /\ TypeOK /\ PortInvariant /\ RoomLeft
      /\ Cardinality(listed) \in Nat /\ Cardinality(config.ports) \in Nat
  BY PoolFinite DEF PoolInvariant, PortInvariant
<1>a. /\ TypeOK' /\ PortInvariant'
      /\ Cardinality(listed') \in Nat /\ Cardinality(config'.ports) \in Nat
  <2>1. PortInvariant' /\ TypeOK'
    BY <1>0, PortInvariantStep DEF PortInvariant
  <2>2. IsFiniteSet(listed') /\ IsFiniteSet(config'.ports)
    BY <2>1, ConstantsAssumption, FS_Subset DEF listed, TypeOK, Config
  <2> QED
    BY <2>1, <2>2, FS_CardinalityType
<1>b. FixedPorts => PortsAreConfigured'
  BY ConfiguredStep DEF PoolInvariant
<1>c. FixedPorts => ListsFit'
  <2>1. (PortInvariant /\ PortsAreConfigured => ListsFit)'
    BY ListedFit, PTL
  <2> QED
    BY <1>a, <1>b, <2>1
<1>1. CASE start
  <2>1. restarting = {} => listed = {}
    BY <1>0, <1>1 DEF PortInvariant, StoppedGroupDrains, start, restarting, listed
  <2>2. Cardinality({}) = 0
    BY FS_EmptySet
  <2>3. /\ UNCHANGED <<config, listed, restarting>>
        /\ phase' = "startAlive" /\ quota' = config.min_alive_server_no
    BY <1>1 DEF start, listed, restarting
  <2>4. config.min_alive_server_no \in Nat
    BY <1>0 DEF TypeOK, Config
  <2> QED
    BY <1>0, <2>1, <2>2, <2>3, <2>4 DEF ListsFit, RoomLeft, validateAndInitConfig
<1>2. ASSUME NEW level \in KillLevel, stop(level) PROVE RoomLeft'
  <2> DEFINE killed == starting \cup (IF level = "KILL" THEN running ELSE {})
  <2>1. killed \in SUBSET Server /\ Release(killed)
    BY <1>2 DEF stop, starting, running
  <2> HIDE DEF killed
  <2> QED
    BY <1>0, <1>a, <1>2, <2>1, ReleaseShrinks, RoomKept DEF stop
<1>3. ASSUME NEW s \in Server, tryRegisterServer(s) PROVE RoomLeft'
  <2>1. listed' = listed
    BY <1>0, <1>3 DEF tryRegisterServer, TypeOK, listed
  <2> QED
    BY <1>0, <1>a, <1>3, <2>1, RoomKept DEF tryRegisterServer
<1>4. ASSUME NEW c \in Changes, changeGroupConfig(c) PROVE RoomLeft'
  <2>1. phase' = "unlocked"
    BY <1>4 DEF changeGroupConfig
  <2>2. CASE FixedPorts
    BY <1>c, <2>1, <2>2 DEF ListsFit, RoomLeft
  <2>3. CASE NoRestarts
    <3>1. listed' = {}
      BY <1>0, <1>4, <2>3, EmptyWhenStopped DEF changeGroupConfig, listed
    <3>2. Cardinality(listed') = 0
      BY <3>1, FS_EmptySet
    <3> QED
      BY <1>a, <2>1, <3>2 DEF ListsFit, RoomLeft
  <2> QED
    BY <2>2, <2>3
<1>5. CASE evaluateServerGroup
  <2>1. listed' = listed
    BY <1>5 DEF evaluateServerGroup, listed
  <2> QED
    BY <1>0, <1>a, <1>5, <2>1, RoomKept DEF evaluateServerGroup
<1>6. CASE evaluationStep
  <2>1. ASSUME NEW s \in Server, removeDeadServers(s) PROVE RoomLeft'
    <3>1. listed' \subseteq listed
      BY <2>1, ReleaseShrinks DEF removeDeadServers, listed
    <3> QED
      BY <1>0, <1>a, <2>1, <3>1, RoomKept DEF removeDeadServers
  <2>2. ASSUME NEW s \in Server, killRestartingServer(s) PROVE RoomLeft'
    <3>1. listed' \subseteq listed
      BY <2>2, ReleaseShrinks DEF killRestartingServer
    <3>2. phase' = "restart"
      BY <1>0, <2>2, ConstantsAssumption
         DEF killRestartingServer, PortInvariant, RestartLoopVisitsRestarting
    <3> QED
      BY <1>0, <1>a, <2>2, <3>1, <3>2, RoomKept DEF killRestartingServer
  <2>3. ASSUME NEW s \in Server, startServer(s) PROVE RoomLeft'
    <3>1. listed' = listed \cup {s} /\ s \notin listed /\ restarting' = restarting
      BY <1>0, <2>3 DEF startServer, listed, restarting, TypeOK
    <3>2. Cardinality(listed') = Cardinality(listed) + 1
      BY <1>0, <3>1, PoolFinite, FS_AddElement
    <3>3. /\ quota' = quota - 1 /\ quota \in Nat /\ quota > 0 /\ phase' = phase
          /\ phase \in {"startAlive", "start"} /\ config' = config
      BY <1>0, <2>3 DEF startServer, TypeOK
    <3>4. CASE phase = "start" \/ restarting = {}
      BY <1>0, <3>1, <3>2, <3>3, <3>4 DEF ListsFit, RoomLeft, validateAndInitConfig
    <3>5. CASE phase = "startAlive" /\ restarting # {}
      <4>1. ~NoRestarts
        BY <1>0, <3>5 DEF PortInvariant, NothingRestarts, restarting
      <4> QED
        BY <1>c, <3>1, <3>3, <3>5, <4>1 DEF ListsFit, RoomLeft
    <3> QED
      BY <3>3, <3>4, <3>5
  <2>4. CASE selectRestartingServers
    <3>1. listed' = listed
      BY <1>0, <2>4 DEF selectRestartingServers, MustRestart, TypeOK, listed
    <3> QED
      BY <1>0, <1>a, <2>4, <3>1, RoomKept DEF selectRestartingServers
  <2>5. CASE adjust
    <3>1. config' = config /\ listed' = listed
      BY <2>5 DEF adjust, listed
    <3>2. CASE TooFew /\ phase' = "start"
               /\ quota' = MinOf(config.min_available_server_no - availableServerNo,
                                 notStartedServerNo)
      <4>1. config.min_available_server_no - availableServerNo \in Int
        BY <1>0 DEF TypeOK, Config
      <4>2. ASSUME validateAndInitConfig(config)
            PROVE  quota' <= Cardinality(config.ports) - Cardinality(listed)
        <5>1. Cardinality(listed) <= Cardinality(config.ports)
          BY <1>0, <4>2 DEF ListsFit, RoomLeft
        <5>2. notStartedServerNo = Cardinality(config.ports) - Cardinality(listed)
          BY <1>0, <5>1, NotStartedFits
        <5> QED
          BY <1>0, <3>2, <4>1, <5>2 DEF MinOf
      <4>3. quota' \in Nat
        BY <1>a DEF TypeOK
      <4> QED
        BY <1>0, <3>1, <3>2, <4>2, <4>3 DEF ListsFit, RoomLeft, validateAndInitConfig
    <3>3. CASE phase' \notin {"startAlive", "start"}
      BY <1>0, <1>a, <3>1, <3>3, RoomKept
    <3> QED
      BY <2>5, <3>2, <3>3 DEF adjust, Unlock
  <2>6. ASSUME \/ \E s \in Server : \/ evaluateRestartingServers(s) \/ countServer(s)
                                    \/ stopIdleServer(s) \/ evaluationThrows(s)
               \/ beginCounting \/ finishStarting \/ finishStopping
        PROVE  RoomLeft'
    <3>1. UNCHANGED <<config, list>> /\ phase' \notin {"startAlive", "start"}
      BY <2>6 DEF evaluateRestartingServers, countServer, stopIdleServer, evaluationThrows,
                  beginCounting, finishStarting, finishStopping, Unlock
    <3>2. listed' = listed
      BY <3>1 DEF listed
    <3> QED
      BY <1>0, <1>a, <3>1, <3>2, RoomKept
  <2> QED
    BY <1>6, <2>1, <2>2, <2>3, <2>4, <2>5, <2>6 DEF evaluationStep
<1>7. CASE client
  <2>1. UNCHANGED <<config, phase, quota, list>>
    BY <1>7 DEF client, tryGetAvailableServer, tryGetAvailableServerThrows,
                deallocateClientSession, allocateClient, allocationRefused,
                countClientSession, allocationFails
  <2> QED
    BY <1>0, <2>1, RoomSame DEF listed, restarting
<1>8. ASSUME NEW s \in Server,
             timerExpires(s) \/ processFails(s) \/ processRecovers(s) \/ processTerminates(s)
      PROVE  RoomLeft'
  <2>1. UNCHANGED <<config, phase, quota, list>>
    BY <1>8 DEF timerExpires, processFails, processRecovers, processTerminates
  <2> QED
    BY <1>0, <2>1, RoomSame DEF listed, restarting
<1>9. CASE UNCHANGED vars
  BY <1>0, <1>9, RoomSame DEF vars, listed, restarting
<1> QED
  BY <1>1, <1>2, <1>3, <1>4, <1>5, <1>6, <1>7, <1>8, <1>9 DEF Next

\* If the ports are never changed or servers are never restarted, startServer
\* finds a port in evaluateGroup, and in start() unless a server is still
\* restarting, whenever the configuration is valid and its ports have reached
\* the pool: the unsigned difference that evaluateGroup computes neither wraps
\* nor exceeds the ports in the pool.
THEOREM PortsSuffice ==
  ASSUME FixedPorts \/ NoRestarts, Cardinality(Port) < Modulus
  PROVE  Spec => []NeverOutOfPorts
<1>1. Init => PoolInvariant
  <2> SUFFICES ASSUME Init PROVE PoolInvariant
    OBVIOUS
  <2>1. listed = {} /\ availablePorts = config.ports /\ phase = "unlocked"
    BY DEF Init, listed
  <2>2. PortInvariant /\ Cardinality(listed) = 0 /\ Cardinality(config.ports) \in Nat
    BY <2>1, PortInit, PoolFinite, FS_EmptySet DEF PortInvariant
  <2>3. PortsAreConfigured
    BY <2>1 DEF PortsAreConfigured, taken
  <2> QED
    BY <2>1, <2>2, <2>3 DEF PoolInvariant, ListsFit, RoomLeft
<1>2. PoolInvariant /\ [Next]_vars => PoolInvariant'
  <2> SUFFICES ASSUME PoolInvariant, [Next]_vars PROVE PoolInvariant'
    OBVIOUS
  <2>1. PortInvariant'
    BY PortInvariantStep DEF PoolInvariant
  <2>2. FixedPorts => PortsAreConfigured'
    BY ConfiguredStep DEF PoolInvariant
  <2>3. RoomLeft'
    BY RoomStep
  <2> QED
    BY <2>1, <2>2, <2>3 DEF PoolInvariant, FixedPorts
<1>3. PoolInvariant => NeverOutOfPorts
  <2> SUFFICES ASSUME PoolInvariant, validateAndInitConfig(config), PoolIsComplete, quota > 0,
                      phase = "start" \/ (phase = "startAlive" /\ restarting = {}),
                      availablePorts = {}
               PROVE  FALSE
    BY DEF NeverOutOfPorts
  <2>1. Cardinality(listed) + quota <= Cardinality(config.ports)
    BY DEF PoolInvariant, ListsFit, RoomLeft
  <2>2. Cardinality(config.ports) <= Cardinality(availablePorts) + Cardinality(listed)
    BY PortsLeft DEF PoolInvariant
  <2>3. Cardinality(availablePorts) = 0
    BY FS_EmptySet
  <2>4. quota \in Nat /\ Cardinality(listed) \in Nat /\ Cardinality(config.ports) \in Nat
    BY PoolFinite DEF PoolInvariant, PortInvariant, TypeOK
  <2> QED
    BY <2>1, <2>2, <2>3, <2>4
<1> QED
  BY <1>1, <1>2, <1>3, PTL DEF Spec

-----------------------------------------------------------------------------
(* The pool of ports implements PortPool.                                  *)

\* The mapped variables owner and live.
PortOf == [s \in Server |-> IF list[s] = "none" THEN Unset ELSE port[s]]
LiveServers == {s \in Server : Alive(s)}

\* A step that moves no server in or out of the lists: at most, processes end.
LEMMA PoolKept ==
  ASSUME availablePorts' = availablePorts, port' = port,
         \A t \in Server : list'[t] = "none" <=> list[t] = "none",
         \A t \in Server : Alive(t)' => Alive(t)
  PROVE  Pool!Die
<1>1. PortOf' = PortOf
  BY DEF PortOf
<1>2. LiveServers' \subseteq LiveServers
  BY DEF LiveServers
<1> QED
  BY <1>1, <1>2 DEF Pool!Die, PortOf, LiveServers

\* Servers leave the lists: their processes are dead before the ports return.
LEMMA PoolGive ==
  ASSUME TypeOK, NEW K \in SUBSET Server, Release(K), port' = port,
         \A s \in K : list[s] # "none"
  PROVE  Pool!Give(K)
<1>1. \A s \in K : PortOf[s] # Unset
  BY ConstantsAssumption DEF PortOf, Unset, TypeOK
<1>2. PortOf' = [s \in Server |-> IF s \in K THEN Unset ELSE PortOf[s]]
  BY DEF PortOf, Release
<1>3. availablePorts' = availablePorts \cup {PortOf[s] : s \in K}
  BY DEF PortOf, Release
<1>4. LiveServers' \subseteq LiveServers \ K
  BY DEF LiveServers, Alive, Release, Killed
<1> QED
  BY <1>1, <1>2, <1>3, <1>4 DEF Pool!Give, PortOf, LiveServers

\* A server is started on a port of the pool.
LEMMA PoolTake ==
  ASSUME TypeOK, LiveServersAreListed, NEW s \in Server, startServer(s)
  PROVE  Pool!Take(s)
<1>1. PICK p \in availablePorts :
        availablePorts' = availablePorts \ {p} /\ port' = [port EXCEPT ![s] = p]
  BY DEF startServer
<1>2. list[s] = "none" /\ list' = [list EXCEPT ![s] = "starting"]
  BY DEF startServer
<1>3. PortOf[s] = Unset
  BY <1>2 DEF PortOf
<1>4. PortOf' = [PortOf EXCEPT ![s] = p]
  <2>1. ASSUME NEW t \in Server
        PROVE  PortOf'[t] = IF t = s THEN p ELSE PortOf[t]
    BY <1>1, <1>2 DEF PortOf, TypeOK
  <2>2. PortOf' = [t \in Server |-> PortOf'[t]]
    BY DEF PortOf
  <2>3. PortOf = [t \in Server |-> PortOf[t]]
    BY DEF PortOf
  <2> QED
    BY <2>1, <2>2, <2>3
<1>5. LiveServers' \in {LiveServers, LiveServers \cup {s}}
  <2>1. \A t \in Server \ {s} : process'[t] = process[t]
    BY DEF startServer, startProcess, TypeOK
  <2>2. s \notin LiveServers
    BY <1>2 DEF LiveServersAreListed, LiveServers
  <2> QED
    BY <2>1, <2>2 DEF LiveServers, Alive
<1> QED
  BY <1>1, <1>3, <1>4, <1>5 DEF Pool!Take, PortOf, LiveServers

\* The ports are exchanged: in an empty group.
LEMMA PoolExchange ==
  ASSUME FixedPorts \/ NoRestarts, PortInvariant, NEW c \in Changes, changeGroupConfig(c)
  PROVE  Pool!Next
<1> USE DEF serverVars
<1>1. CASE availablePorts' = availablePorts
  <2>1. Pool!Die
    BY <1>1, PoolKept DEF changeGroupConfig, Alive
  <2> QED
    BY <2>1 DEF Pool!Next
<1>2. CASE availablePorts' # availablePorts
  <2>1. availablePorts' = c.ports /\ c.ports # {}
    BY <1>2 DEF changeGroupConfig
  <2>2. NoRestarts
    BY <2>1 DEF FixedPorts
  <2>3. \A s \in Server : list[s] = "none"
    BY <2>2, EmptyWhenStopped DEF changeGroupConfig
  <2>4. \A s \in Server : PortOf[s] = Unset
    BY <2>3 DEF PortOf
  <2>5. PortOf' = PortOf /\ LiveServers' = LiveServers
    BY DEF PortOf, LiveServers, Alive, changeGroupConfig
  <2>6. PICK ports \in SUBSET Port : ports = c.ports
    BY ConstantsAssumption DEF Change
  <2>7. Pool!Exchange(ports)
    BY <2>1, <2>4, <2>5, <2>6 DEF Pool!Exchange, PortOf, LiveServers
  <2> QED
    BY <2>7 DEF Pool!Next
<1> QED
  BY <1>1, <1>2

LEMMA PoolStep ==
  ASSUME FixedPorts \/ NoRestarts, PortInvariant, [Next]_vars
  PROVE  Pool!Next
<1> USE DEF groupVars, loopVars, clientVars, serverVars
<1>0. TypeOK /\ LiveServersAreListed
  BY DEF PortInvariant
<1>a. Pool!Die => Pool!Next
  BY DEF Pool!Next
<1>b. \A K \in SUBSET Server : Pool!Give(K) => Pool!Next
  BY DEF Pool!Next
<1>c. ASSUME UNCHANGED <<availablePorts, port, list, process>> PROVE Pool!Next
  BY <1>a, <1>c, PoolKept DEF Alive
<1>1. CASE start \/ evaluateServerGroup \/ UNCHANGED vars
  BY <1>1, <1>c DEF start, evaluateServerGroup, vars
<1>2. ASSUME NEW level \in KillLevel, stop(level) PROVE Pool!Next
  <2> DEFINE killed == starting \cup (IF level = "KILL" THEN running ELSE {})
  <2>1. killed \in SUBSET Server /\ Release(killed) /\ port' = port
    BY <1>2 DEF stop, starting, running
  <2>2. \A s \in killed : list[s] # "none"
    BY DEF starting, running
  <2> HIDE DEF killed
  <2> QED
    BY <1>0, <1>b, <2>1, <2>2, PoolGive
<1>3. ASSUME NEW s \in Server, tryRegisterServer(s) PROVE Pool!Next
  <2>1. \A t \in Server : list'[t] = "none" <=> list[t] = "none"
    BY <1>0, <1>3 DEF tryRegisterServer, TypeOK
  <2> QED
    BY <1>a, <1>3, <2>1, PoolKept DEF tryRegisterServer, Alive
<1>4. CASE evaluationStep
  <2>1. ASSUME NEW s \in Server, removeDeadServers(s) PROVE Pool!Next
    <3>1. CASE list[s] # "none" /\ Release({s}) /\ port' = port
      BY <1>0, <1>b, <3>1, PoolGive
    <3>2. CASE UNCHANGED <<availablePorts, serverVars>>
      BY <1>c, <3>2
    <3> QED
      BY <2>1, <3>1, <3>2 DEF removeDeadServers
  <2>2. ASSUME NEW s \in Server, killRestartingServer(s) PROVE Pool!Next
    <3>1. list[s] # "none"
      BY <2>2, VictimIsListed
    <3> QED
      BY <1>0, <1>b, <2>2, <3>1, PoolGive DEF killRestartingServer
  <2>3. ASSUME NEW s \in Server,
               \/ evaluateRestartingServers(s) \/ countServer(s) \/ stopIdleServer(s)
               \/ evaluationThrows(s)
        PROVE  Pool!Next
    BY <1>c, <2>3 DEF evaluateRestartingServers, countServer, stopIdleServer, evaluationThrows
  <2>4. ASSUME NEW s \in Server, startServer(s) PROVE Pool!Next
    <3>1. Pool!Take(s)
      BY <1>0, <2>4, PoolTake
    <3> QED
      BY <3>1 DEF Pool!Next
  <2>5. CASE selectRestartingServers
    <3>1. \A t \in Server : list'[t] = "none" <=> list[t] = "none"
      BY <1>0, <2>5 DEF selectRestartingServers, MustRestart, TypeOK
    <3> QED
      BY <1>a, <2>5, <3>1, PoolKept DEF selectRestartingServers, Alive
  <2>6. CASE beginCounting \/ adjust \/ finishStarting \/ finishStopping
    BY <1>c, <2>6 DEF beginCounting, adjust, finishStarting, finishStopping
  <2> QED
    BY <1>4, <2>1, <2>2, <2>3, <2>4, <2>5, <2>6 DEF evaluationStep
<1>5. CASE client
  BY <1>c, <1>5 DEF client, tryGetAvailableServer, tryGetAvailableServerThrows,
                    deallocateClientSession, allocateClient, allocationRefused,
                    countClientSession, allocationFails
<1>6. ASSUME NEW s \in Server, timerExpires(s) PROVE Pool!Next
  BY <1>c, <1>6 DEF timerExpires
<1>7. ASSUME NEW s \in Server, processFails(s) \/ processRecovers(s) \/ processTerminates(s)
      PROVE  Pool!Next
  <2>1. \A t \in Server : Alive(t)' => Alive(t)
    BY <1>0, <1>7 DEF processFails, processRecovers, processTerminates, Alive, TypeOK
  <2> QED
    BY <1>a, <1>7, <2>1, PoolKept DEF processFails, processRecovers, processTerminates
<1> QED
  BY <1>1, <1>2, <1>3, <1>4, <1>5, <1>6, <1>7, PoolExchange DEF Next

\* If the ports are never changed or servers are never restarted, the group
\* implements PortPool: whatever is started, stopped, killed or lost, a port
\* is given to one server at a time and returns when the process on it is dead.
THEOREM PoolRefinement ==
  ASSUME FixedPorts \/ NoRestarts
  PROVE  Spec => RefinesPortPool
<1>1. Init => Pool!Init
  <2> SUFFICES ASSUME Init PROVE Pool!Init
    OBVIOUS
  <2>1. availablePorts \in SUBSET Port
    BY ConstantsAssumption DEF Init, Config
  <2> QED
    BY <2>1 DEF Init, Pool!Init, Alive
<1>2. PortInvariant /\ [Next]_vars => [Pool!Next]_(Pool!pool)
  BY PoolStep
<1> QED
  BY <1>1, <1>2, PortInit, PortInvariantStep, PTL DEF Spec, RefinesPortPool, Pool!Spec
=============================================================================
