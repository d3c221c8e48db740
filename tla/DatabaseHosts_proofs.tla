------------------------ MODULE DatabaseHosts_proofs ------------------------
(***************************************************************************)
(* Proofs about DatabaseHosts, for any number of hosts, databases, groups  *)
(* and sessions.                                                           *)
(***************************************************************************)
EXTENDS DatabaseHosts, FiniteSetTheorems, TLAPS

-----------------------------------------------------------------------------
(* Types.                                                                  *)

\* The initial state is well typed.
LEMMA TypeInit == Init => TypeOK
  BY DEF Init, TypeOK, NoOperation, NoChange

\* Operations on hosts keep the types.
LEMMA TypeHosts == ASSUME TypeOK, hosts PROVE TypeOK'
<1> USE DEF TypeOK, dbVars, groupVars, sessionVars
<1>1. ASSUME NEW h \in Host, NEW n \in HostName, defineDatabaseHost(h, n) PROVE TypeOK'
  BY <1>1 DEF defineDatabaseHost
<1>2. ASSUME NEW h \in Host, NEW n \in HostName, changeDatabaseHost(h, n) PROVE TypeOK'
  BY <1>2 DEF changeDatabaseHost
<1>3. ASSUME NEW h \in Host, removeDatabaseHost(h) PROVE TypeOK'
  BY <1>3 DEF removeDatabaseHost
<1> QED
  BY <1>1, <1>2, <1>3 DEF hosts

\* Operations on databases keep the types.
LEMMA TypeDbs == ASSUME TypeOK, dbs PROVE TypeOK'
<1> USE DEF TypeOK, hostVars, groupVars, sessionVars, NoOperation
<1>1. ASSUME NEW h \in Host, NEW n \in DbName, NEW r \in BOOLEAN,
             getAndLockDatabaseHost(h, n, r)
      PROVE  TypeOK'
  BY <1>1 DEF getAndLockDatabaseHost, increaseServerCount
<1>2. CASE releaseDatabaseHost
  BY <1>2 DEF releaseDatabaseHost, decreaseServerCount
<1>3. CASE dbOperationFails
  BY <1>3 DEF dbOperationFails
<1>4. ASSUME NEW d \in Db, defineDatabase(d) PROVE TypeOK'
  BY <1>4 DEF defineDatabase
<1>5. ASSUME NEW d \in Db, NEW e \in Db, removeDatabase(d, e) PROVE TypeOK'
  BY <1>5 DEF removeDatabase
<1>6. ASSUME NEW d \in Db, NEW n \in NewDbNames, changeDatabase(d, n) PROVE TypeOK'
  BY <1>6, ConstantsAssumption DEF changeDatabase
<1> QED
  BY <1>1, <1>2, <1>3, <1>4, <1>5, <1>6 DEF dbs

\* Operations on server groups keep the types.
LEMMA TypeGroups == ASSUME TypeOK, groups PROVE TypeOK'
<1> USE DEF TypeOK, hostVars, dbVars, sessionVars, NoChange
<1>1. ASSUME NEW g \in Group, NEW h \in Host, defineServerGroup(g, h) PROVE TypeOK'
  BY <1>1 DEF defineServerGroup, increaseServerCount
<1>2. ASSUME NEW g \in Group, startServerGroup(g) \/ stopServerGroup(g) PROVE TypeOK'
  BY <1>2 DEF startServerGroup, stopServerGroup
<1>3. ASSUME NEW g \in Group, removeServerGroup(g) PROVE TypeOK'
  BY <1>3 DEF removeServerGroup, decreaseServerCount
<1>4. ASSUME NEW g \in Group, NEW n \in NewHosts, changeServerGroup(g, n) PROVE TypeOK'
  BY <1>4, ConstantsAssumption DEF changeServerGroup, decreaseServerCount
<1>5. ASSUME NEW h \in Host, lockNewHost(h) PROVE TypeOK'
  BY <1>5 DEF lockNewHost, increaseServerCount
<1>6. CASE newHostIsMissing
  BY <1>6 DEF newHostIsMissing
<1> QED
  BY <1>1, <1>2, <1>3, <1>4, <1>5, <1>6 DEF groups

-----------------------------------------------------------------------------
(* Sessions.                                                               *)

\* The databases of a host in which session i is recorded.
RecordedOn(i, h) == {d \in databaseList[h] : i \in sessionList[d]}

\* An open session is recorded in exactly one database of its host, so
\* removing it takes exactly one session off the count.
LEMMA RecordedOnce ==
  ASSUME SessionInvariant, NEW i \in Session, opened[i] # None
  PROVE  /\ Cardinality(RecordedOn(i, opened[i])) = 1
         /\ \A d \in Db : i \in sessionList[d] => d \in RecordedOn(i, opened[i])
<1>1. opened[i] \in Host
  BY DEF SessionInvariant, TypeOK
<1>2. PICK d \in databaseList[opened[i]] : i \in sessionList[d]
  BY DEF SessionInvariant, OpenSessionsHaveDatabase
<1>3. databaseList[opened[i]] \subseteq Db
  BY <1>1 DEF SessionInvariant, TypeOK
<1>4. \A e \in Db : i \in sessionList[e] => e = d
  BY <1>2, <1>3 DEF SessionInvariant, SessionsInOneDatabase
<1>5. RecordedOn(i, opened[i]) = {d}
  BY <1>2, <1>3, <1>4 DEF RecordedOn
<1>6. Cardinality({d}) = 1
  BY FS_Singleton
<1> QED
  BY <1>4, <1>5, <1>6

\* Operations of clients keep the types.
LEMMA TypeSessions == ASSUME SessionInvariant, sessions PROVE TypeOK'
<1> USE DEF TypeOK, SessionInvariant, hostVars, dbVars, groupVars
<1>1. ASSUME NEW i \in Session, NEW g \in Group, NEW n \in DbName,
             tryGetAvailableServer(i, g, n)
      PROVE  TypeOK'
  BY <1>1 DEF tryGetAvailableServer
<1>2. ASSUME NEW i \in Session, NEW d \in Db, addClientSessionOnDB(i, d) PROVE TypeOK'
  BY <1>2 DEF addClientSessionOnDB
<1>3. ASSUME NEW i \in Session, allocationFails(i) PROVE TypeOK'
  BY <1>3 DEF allocationFails
<1>4. ASSUME NEW i \in Session, removeClientSessionFromDB(i) PROVE TypeOK'
  <2>1. Cardinality(RecordedOn(i, opened[i])) = 1
    BY <1>4, RecordedOnce DEF removeClientSessionFromDB
  <2>2. sessionCount' = [sessionCount EXCEPT ![opened[i]] = @ - 1]
    BY <1>4, <2>1 DEF removeClientSessionFromDB, RecordedOn
  <2> QED
    BY <1>4, <2>2 DEF removeClientSessionFromDB
<1> QED
  BY <1>1, <1>2, <1>3, <1>4 DEF sessions

\* A step that leaves the sessions and the databases they are in alone.
Kept ==
  /\ UNCHANGED <<opened, picked, sessionList>>
  /\ \A i \in Session, d \in Db :
       opened[i] # None /\ d \in databaseList[opened[i]] /\ i \in sessionList[d]
         => d \in databaseList'[opened[i]]

\* No operation of an administrator takes a database away from a session.
LEMMA AdminKeepsSessions ==
  ASSUME SessionInvariant, hosts \/ dbs \/ groups
  PROVE  SessionInvariant'
<1> USE DEF hostVars, dbVars, groupVars, sessionVars
<1>0. TypeOK
  BY DEF SessionInvariant
<1>1. ASSUME hosts PROVE Kept
  <2>1. ASSUME NEW h \in Host, NEW n \in HostName, defineDatabaseHost(h, n) PROVE Kept
    BY <1>0, <2>1 DEF Kept, defineDatabaseHost, FreshHost, TypeOK
  <2>2. ASSUME NEW h \in Host, NEW n \in HostName, changeDatabaseHost(h, n) PROVE Kept
    BY <2>2 DEF Kept, changeDatabaseHost
  <2>3. ASSUME NEW h \in Host, removeDatabaseHost(h) PROVE Kept
    BY <2>3 DEF Kept, removeDatabaseHost
  <2> QED
    BY <1>1, <2>1, <2>2, <2>3 DEF hosts
<1>2. ASSUME dbs PROVE Kept
  <2>1. ASSUME NEW h \in Host, NEW n \in DbName, NEW r \in BOOLEAN,
               getAndLockDatabaseHost(h, n, r)
        PROVE  Kept
    BY <2>1 DEF Kept, getAndLockDatabaseHost
  <2>2. ASSUME releaseDatabaseHost \/ dbOperationFails PROVE Kept
    BY <2>2 DEF Kept, releaseDatabaseHost, dbOperationFails
  <2>3. ASSUME NEW d \in Db, defineDatabase(d) PROVE Kept
    BY <1>0, <2>3 DEF Kept, defineDatabase, TypeOK
  <2>4. ASSUME NEW d \in Db, NEW e \in Db, removeDatabase(d, e) PROVE Kept
    BY <1>0, <2>4 DEF Kept, removeDatabase, DbIsBusy, TypeOK
  <2>5. ASSUME NEW d \in Db, NEW n \in NewDbNames, changeDatabase(d, n) PROVE Kept
    BY <2>5 DEF Kept, changeDatabase
  <2> QED
    BY <1>2, <2>1, <2>2, <2>3, <2>4, <2>5 DEF dbs
<1>3. ASSUME groups PROVE Kept
  BY <1>3 DEF groups, Kept, defineServerGroup, startServerGroup, stopServerGroup,
              removeServerGroup, changeServerGroup, lockNewHost, newHostIsMissing
<1>4. Kept
  BY <1>1, <1>2, <1>3
<1>5. TypeOK'
  BY <1>0, TypeHosts, TypeDbs, TypeGroups
<1>6. OpenSessionsHaveDatabase'
  <2>1. ASSUME NEW i \in Session, opened[i] # None
        PROVE  \E d \in databaseList'[opened[i]] : i \in sessionList[d]
    <3>1. PICK d \in databaseList[opened[i]] : i \in sessionList[d]
      BY <2>1 DEF SessionInvariant, OpenSessionsHaveDatabase
    <3>2. d \in Db
      BY <1>0, <2>1, <3>1 DEF TypeOK
    <3> QED
      BY <1>4, <2>1, <3>1, <3>2 DEF Kept
  <2> QED
    BY <1>4, <2>1 DEF Kept, OpenSessionsHaveDatabase
<1>7. SessionsInOneDatabase'
  BY <1>4 DEF Kept, SessionInvariant, SessionsInOneDatabase
<1> QED
  BY <1>4, <1>5, <1>6, <1>7 DEF Kept, SessionInvariant

\* Opening and closing sessions keeps every open session in one database.
LEMMA ClientsKeepSessions ==
  ASSUME SessionInvariant, sessions
  PROVE  SessionInvariant'
<1> USE DEF hostVars, dbVars, groupVars
<1>0. TypeOK /\ TypeOK'
  BY TypeSessions DEF SessionInvariant
<1>1. ASSUME NEW i \in Session, NEW g \in Group, NEW n \in DbName,
             tryGetAvailableServer(i, g, n)
      PROVE  SessionInvariant'
  BY <1>0, <1>1 DEF tryGetAvailableServer, SessionInvariant, TypeOK,
                    OpenSessionsHaveDatabase, SessionsInOneDatabase
<1>2. ASSUME NEW i \in Session, NEW d \in Db, addClientSessionOnDB(i, d)
      PROVE  SessionInvariant'
  <2>1. picked[i] \in Host /\ opened[i] = None /\ d \in databaseList[picked[i]]
    BY <1>0, <1>2 DEF addClientSessionOnDB, SessionInvariant, TypeOK, DatabasesOn
  <2>2. \A e \in Db : i \notin sessionList[e]
    BY <2>1 DEF SessionInvariant, SessionsInOneDatabase
  <2>3. \A j \in Session : j # i => opened'[j] = opened[j] /\ picked'[j] = picked[j]
    BY <1>0, <1>2 DEF addClientSessionOnDB, TypeOK
  <2>4. opened'[i] = picked[i] /\ picked'[i] = None
    BY <1>0, <1>2 DEF addClientSessionOnDB, TypeOK
  <2>5. \A e \in Db : sessionList'[e] = IF e = d THEN sessionList[d] \cup {i} ELSE sessionList[e]
    BY <1>0, <1>2 DEF addClientSessionOnDB, TypeOK
  <2>6. databaseList' = databaseList
    BY <1>2 DEF addClientSessionOnDB
  <2>7. OpenSessionsHaveDatabase'
    <3>1. ASSUME NEW j \in Session, opened'[j] # None
          PROVE  \E e \in databaseList[opened'[j]] : j \in sessionList'[e]
      <4>1. CASE j = i
        BY <2>1, <2>4, <2>5, <4>1
      <4>2. CASE j # i
        <5>1. PICK e \in databaseList[opened[j]] : j \in sessionList[e]
          BY <2>3, <3>1, <4>2 DEF SessionInvariant, OpenSessionsHaveDatabase
        <5>2. e \in Db /\ opened'[j] = opened[j]
          BY <1>0, <2>3, <3>1, <4>2, <5>1 DEF TypeOK
        <5> QED
          BY <2>5, <5>1, <5>2
      <4> QED
        BY <4>1, <4>2
    <3> QED
      BY <2>6, <3>1 DEF OpenSessionsHaveDatabase
  <2>8. SessionsInOneDatabase'
    <3>1. ASSUME NEW e \in Db, NEW j \in sessionList'[e]
          PROVE  opened'[j] # None /\ \A f \in Db : j \in sessionList'[f] => f = e
      <4>0. j \in Session
        BY <1>0 DEF TypeOK
      <4>1. CASE j = i
        BY <2>1, <2>2, <2>4, <2>5, <4>1, ConstantsAssumption
      <4>2. CASE j # i
        <5>1. \A f \in Db : j \in sessionList'[f] <=> j \in sessionList[f]
          BY <2>5, <4>2
        <5>2. opened[j] # None /\ \A f \in Db : j \in sessionList[f] => f = e
          BY <3>1, <5>1 DEF SessionInvariant, SessionsInOneDatabase
        <5> QED
          BY <2>3, <4>0, <4>2, <5>1, <5>2
      <4> QED
        BY <4>1, <4>2
    <3> QED
      BY <3>1 DEF SessionsInOneDatabase
  <2> QED
    BY <1>0, <2>3, <2>4, <2>7, <2>8 DEF SessionInvariant
<1>3. ASSUME NEW i \in Session, allocationFails(i) PROVE SessionInvariant'
  BY <1>0, <1>3 DEF allocationFails, SessionInvariant, TypeOK,
                    OpenSessionsHaveDatabase, SessionsInOneDatabase
<1>4. ASSUME NEW i \in Session, removeClientSessionFromDB(i) PROVE SessionInvariant'
  <2>1. \A e \in Db : sessionList'[e] = sessionList[e] \ {i}
    <3>1. \A e \in Db : i \in sessionList[e] => e \in RecordedOn(i, opened[i])
      BY <1>4, RecordedOnce DEF removeClientSessionFromDB
    <3> QED
      BY <1>0, <1>4, <3>1 DEF removeClientSessionFromDB, RecordedOn, TypeOK
  <2>2. opened'[i] = None /\ \A j \in Session : j # i => opened'[j] = opened[j]
    BY <1>0, <1>4 DEF removeClientSessionFromDB, TypeOK
  <2>3. databaseList' = databaseList /\ picked' = picked
    BY <1>4 DEF removeClientSessionFromDB
  <2>4. OpenSessionsHaveDatabase'
    <3>1. ASSUME NEW j \in Session, opened'[j] # None
          PROVE  \E e \in databaseList[opened'[j]] : j \in sessionList'[e]
      <4>1. j # i /\ opened'[j] = opened[j]
        BY <2>2, <3>1
      <4>2. PICK e \in databaseList[opened[j]] : j \in sessionList[e]
        BY <3>1, <4>1 DEF SessionInvariant, OpenSessionsHaveDatabase
      <4>3. e \in Db
        BY <1>0, <3>1, <4>1, <4>2 DEF TypeOK
      <4> QED
        BY <2>1, <4>1, <4>2, <4>3
    <3> QED
      BY <2>3, <3>1 DEF OpenSessionsHaveDatabase
  <2>5. SessionsInOneDatabase'
    <3>1. ASSUME NEW e \in Db, NEW j \in sessionList'[e]
          PROVE  opened'[j] # None /\ \A f \in Db : j \in sessionList'[f] => f = e
      <4>1. j # i /\ j \in sessionList[e] /\ j \in Session
        BY <1>0, <2>1, <3>1 DEF TypeOK
      <4>2. opened[j] # None /\ \A f \in Db : j \in sessionList[f] => f = e
        BY <4>1 DEF SessionInvariant, SessionsInOneDatabase
      <4> QED
        BY <2>1, <2>2, <4>1, <4>2
    <3> QED
      BY <3>1 DEF SessionsInOneDatabase
  <2> QED
    BY <1>0, <2>2, <2>3, <2>4, <2>5 DEF SessionInvariant
<1> QED
  BY <1>1, <1>2, <1>3, <1>4 DEF sessions

\* SessionInvariant is inductive.
LEMMA SessionInvariantInductive ==
  /\ Init => SessionInvariant
  /\ SessionInvariant /\ [Next]_vars => SessionInvariant'
<1>1. Init => SessionInvariant
  BY TypeInit DEF Init, SessionInvariant, OpenSessionsHaveDatabase, SessionsInOneDatabase
<1>2. ASSUME SessionInvariant, Next PROVE SessionInvariant'
  BY <1>2, AdminKeepsSessions, ClientsKeepSessions DEF Next
<1>3. ASSUME SessionInvariant, UNCHANGED vars PROVE SessionInvariant'
  BY <1>3 DEF vars, hostVars, dbVars, groupVars, sessionVars, SessionInvariant, TypeOK,
              OpenSessionsHaveDatabase, SessionsInOneDatabase
<1> QED
  BY <1>1, <1>2, <1>3

\* Every state is well typed; in particular serverCount never goes below 0.
THEOREM TypeCorrect == Spec => []TypeOK
<1>1. SessionInvariant => TypeOK
  BY DEF SessionInvariant
<1> QED
  BY <1>1, SessionInvariantInductive, PTL DEF Spec

\* removeDatabase and changeDatabase never take the database away from an
\* open session: it is found, on the host that counts the session, when the
\* session is closed.
THEOREM SessionSafety == Spec => []OpenSessionsHaveDatabase
<1>1. SessionInvariant => OpenSessionsHaveDatabase
  BY DEF SessionInvariant
<1> QED
  BY <1>1, SessionInvariantInductive, PTL DEF Spec

-----------------------------------------------------------------------------
(* The session counter of a host.                                          *)

OpenOn(h) == {i \in Session : opened[i] = h}

\* Every step keeps sessionCount equal to the number of open sessions.
LEMMA CountStep ==
  ASSUME SessionInvariant, SessionsCounted, [Next]_vars
  PROVE  SessionsCounted'
<1> USE DEF hostVars, dbVars, groupVars, sessionVars
<1>0. TypeOK
  BY DEF SessionInvariant
<1>1. \A h \in Host : IsFiniteSet(OpenOn(h)) /\ sessionCount[h] = Cardinality(OpenOn(h))
  BY ConstantsAssumption, FS_Subset DEF OpenOn, SessionsCounted
<1>2. ASSUME \A h \in Host : sessionCount'[h] = Cardinality(OpenOn(h)')
      PROVE  SessionsCounted'
  BY <1>2 DEF OpenOn, SessionsCounted
<1>3. ASSUME UNCHANGED <<opened, sessionCount>> PROVE SessionsCounted'
  BY <1>3 DEF SessionsCounted
<1>4. ASSUME hosts PROVE SessionsCounted'
  <2>1. ASSUME NEW h \in Host, NEW n \in HostName, defineDatabaseHost(h, n)
        PROVE  SessionsCounted'
    <3>1. \A k \in Host : OpenOn(k)' = OpenOn(k)
      BY <2>1 DEF defineDatabaseHost, OpenOn
    <3>2. Cardinality(OpenOn(h)) = 0
      <4>1. OpenOn(h) = {}
        BY <2>1 DEF defineDatabaseHost, FreshHost, OpenOn
      <4> QED
        BY <4>1, FS_EmptySet
    <3>3. \A k \in Host : sessionCount'[k] = Cardinality(OpenOn(k)')
      BY <1>0, <1>1, <2>1, <3>1, <3>2 DEF defineDatabaseHost, TypeOK
    <3> QED
      BY <1>2, <3>3
  <2> QED
    BY <1>3, <1>4, <2>1 DEF hosts, changeDatabaseHost, removeDatabaseHost
<1>5. ASSUME dbs \/ groups PROVE SessionsCounted'
  BY <1>3, <1>5 DEF dbs, getAndLockDatabaseHost, releaseDatabaseHost, dbOperationFails,
       defineDatabase, removeDatabase, changeDatabase, groups, defineServerGroup,
       startServerGroup, stopServerGroup, removeServerGroup, changeServerGroup,
       lockNewHost, newHostIsMissing
<1>6. ASSUME sessions PROVE SessionsCounted'
  <2>1. ASSUME NEW i \in Session, NEW d \in Db, addClientSessionOnDB(i, d)
        PROVE  SessionsCounted'
    <3>1. PICK h \in Host : h = picked[i] /\ opened[i] = None
      BY <1>0, <2>1 DEF addClientSessionOnDB, SessionInvariant, TypeOK
    <3>2. i \notin OpenOn(h) /\ OpenOn(h)' = OpenOn(h) \cup {i}
      BY <1>0, <2>1, <3>1, ConstantsAssumption DEF addClientSessionOnDB, OpenOn, TypeOK
    <3>3. \A k \in Host : k # h => OpenOn(k)' = OpenOn(k)
      BY <1>0, <2>1, <3>1, ConstantsAssumption DEF addClientSessionOnDB, OpenOn, TypeOK
    <3>4. Cardinality(OpenOn(h)') = Cardinality(OpenOn(h)) + 1
      BY <1>1, <3>1, <3>2, FS_AddElement
    <3>5. \A k \in Host : sessionCount'[k] = IF k = h THEN sessionCount[k] + 1 ELSE sessionCount[k]
      BY <1>0, <2>1, <3>1 DEF addClientSessionOnDB, TypeOK
    <3>6. \A k \in Host : sessionCount'[k] = Cardinality(OpenOn(k)')
      BY <1>1, <3>1, <3>3, <3>4, <3>5
    <3> QED
      BY <1>2, <3>6
  <2>2. ASSUME NEW i \in Session, removeClientSessionFromDB(i) PROVE SessionsCounted'
    <3>1. PICK h \in Host : h = opened[i] /\ i \in OpenOn(h)
      BY <1>0, <2>2 DEF removeClientSessionFromDB, OpenOn, TypeOK
    <3>2. OpenOn(h)' = OpenOn(h) \ {i}
      BY <1>0, <2>2, <3>1, ConstantsAssumption DEF removeClientSessionFromDB, OpenOn, TypeOK
    <3>3. \A k \in Host : k # h => OpenOn(k)' = OpenOn(k)
      BY <1>0, <2>2, <3>1, ConstantsAssumption DEF removeClientSessionFromDB, OpenOn, TypeOK
    <3>4. Cardinality(OpenOn(h)') = Cardinality(OpenOn(h)) - 1
      BY <1>1, <3>1, <3>2, FS_RemoveElement
    <3>5. Cardinality(RecordedOn(i, h)) = 1
      BY <2>2, <3>1, RecordedOnce DEF removeClientSessionFromDB
    <3>6. \A k \in Host : sessionCount'[k] = IF k = h THEN sessionCount[k] - 1 ELSE sessionCount[k]
      BY <1>0, <2>2, <3>1, <3>5 DEF removeClientSessionFromDB, RecordedOn, TypeOK
    <3>7. \A k \in Host : sessionCount'[k] = Cardinality(OpenOn(k)')
      BY <1>1, <3>1, <3>3, <3>4, <3>6
    <3> QED
      BY <1>2, <3>7
  <2> QED
    BY <1>3, <1>6, <2>1, <2>2 DEF sessions, tryGetAvailableServer, allocationFails
<1>7. CASE UNCHANGED vars
  BY <1>3, <1>7 DEF vars
<1> QED
  BY <1>4, <1>5, <1>6, <1>7 DEF Next

\* sessionCount never drifts: whatever administrators and clients do, it is
\* the number of sessions that are open on the host.
THEOREM SessionCountSafety == Spec => []SessionsCounted
<1>1. Init => SessionsCounted
  <2>1. ASSUME Init, NEW h \in Host PROVE OpenOn(h) = {}
    BY <2>1, ConstantsAssumption DEF Init, OpenOn
  <2>2. ASSUME Init, NEW h \in Host PROVE sessionCount[h] = Cardinality(OpenOn(h))
    BY <2>1, <2>2, FS_EmptySet DEF Init
  <2> QED
    BY <2>2 DEF SessionsCounted, OpenOn
<1>2. SessionInvariant /\ SessionsCounted /\ [Next]_vars => SessionsCounted'
  BY CountStep
<1> QED
  BY <1>1, <1>2, SessionInvariantInductive, PTL DEF Spec

-----------------------------------------------------------------------------
(* The server counter of a host, when no group is moved to another host.   *)

\* The users of a host are finitely many; a host with a user is busy.
LEMMA UsersCounted ==
  ASSUME TypeOK, ServerCountExact, NEW h \in Host
  PROVE  /\ IsFiniteSet(Users(h))
         /\ serverCount[h] = Cardinality(Users(h))
         /\ Users(h) # {} => serverCount[h] > 0
<1>1. IsFiniteSet({g \in Group : groupHost[g] = h})
  BY ConstantsAssumption, FS_Subset
<1>2. IsFiniteSet(IF dbOperation.step = "locked" /\ dbOperation.host = h THEN {None} ELSE {})
  BY FS_EmptySet, FS_Singleton
<1>3. IsFiniteSet(Users(h))
  BY <1>1, <1>2, FS_Union DEF Users
<1>4. serverCount[h] = Cardinality(Users(h))
  BY DEF ServerCountExact
<1>5. Users(h) # {} => Cardinality(Users(h)) > 0
  BY <1>3, FS_EmptySet, FS_CardinalityType
<1> QED
  BY <1>3, <1>4, <1>5

\* A step that changes neither the users nor the counts.
LEMMA SameUsers ==
  ASSUME GroupInvariant, serverCount' = serverCount,
         \A h \in Host : Users(h)' = Users(h)
  PROVE  ServerCountExact'
  BY DEF GroupInvariant, ServerCountExact, Users

\* The user u starts to use host h.
LEMMA OneUserMore ==
  ASSUME TypeOK, GroupInvariant, NEW h \in Host, NEW u, u \notin Users(h),
         increaseServerCount(h), Users(h)' = Users(h) \cup {u},
         \A k \in Host : k # h => Users(k)' = Users(k)
  PROVE  ServerCountExact'
<1>1. ServerCountExact
  BY DEF GroupInvariant
<1>2. Cardinality(Users(h)') = serverCount[h] + 1
  BY <1>1, UsersCounted, FS_AddElement
<1>3. \A k \in Host : serverCount'[k] = IF k = h THEN serverCount[k] + 1 ELSE serverCount[k]
  BY DEF increaseServerCount, TypeOK
<1>4. \A k \in Host : serverCount'[k] = Cardinality(Users(k)')
  BY <1>1, <1>2, <1>3 DEF ServerCountExact
<1> QED
  BY <1>4 DEF ServerCountExact, Users

\* The user u stops using host h; the count is not 0 then.
LEMMA OneUserLess ==
  ASSUME TypeOK, GroupInvariant, NEW h \in Host, NEW u \in Users(h),
         decreaseServerCount(h), Users(h)' = Users(h) \ {u},
         \A k \in Host : k # h => Users(k)' = Users(k)
  PROVE  ServerCountExact'
<1>1. ServerCountExact
  BY DEF GroupInvariant
<1>2. serverCount[h] > 0 /\ IsFiniteSet(Users(h)) /\ serverCount[h] = Cardinality(Users(h))
  BY <1>1, UsersCounted
<1>3. Cardinality(Users(h)') = serverCount[h] - 1
  BY <1>2, FS_RemoveElement
<1>4. \A k \in Host : serverCount'[k] = IF k = h THEN serverCount[k] - 1 ELSE serverCount[k]
  BY <1>2 DEF decreaseServerCount, TypeOK
<1>5. \A k \in Host : serverCount'[k] = Cardinality(Users(k)')
  BY <1>1, <1>3, <1>4 DEF ServerCountExact
<1> QED
  BY <1>5 DEF ServerCountExact, Users

\* Without moves every step keeps the server counts exact and the hosts of
\* the groups in the list.
LEMMA GroupStep ==
  ASSUME NoMoves, TypeOK, GroupInvariant, [Next]_vars
  PROVE  GroupInvariant'
<1> USE DEF hostVars, dbVars, groupVars, sessionVars
<1>0. /\ hostChange = NoChange
      /\ \A g \in Group : groupHost[g] # None => groupHost[g] \in hostList
  BY ConstantsAssumption DEF GroupInvariant, GroupHostsAreKept, NoChange
<1>1. ASSUME ServerCountExact', hostChange' = NoChange,
             \A g \in Group : groupHost'[g] # None => groupHost'[g] \in hostList'
      PROVE  GroupInvariant'
  BY <1>1 DEF GroupInvariant, GroupHostsAreKept, NoChange
<1>2. ASSUME UNCHANGED <<hostList, serverCount, groupHost, hostChange>>,
             \A h \in Host : Users(h)' = Users(h)
      PROVE  GroupInvariant'
  BY <1>0, <1>1, <1>2, SameUsers
<1>3. ASSUME hosts PROVE GroupInvariant'
  <2>1. ASSUME NEW h \in Host, NEW n \in HostName, defineDatabaseHost(h, n)
        PROVE  GroupInvariant'
    <3>1. Users(h) = {} /\ \A k \in Host : Users(k)' = Users(k)
      BY <2>1 DEF defineDatabaseHost, FreshHost, Users
    <3>2. serverCount[h] = 0
      <4>1. serverCount[h] = Cardinality(Users(h))
        BY DEF GroupInvariant, ServerCountExact
      <4> QED
        BY <3>1, <4>1, FS_EmptySet
    <3>3. serverCount' = serverCount
      BY <2>1, <3>2 DEF defineDatabaseHost, TypeOK
    <3>4. ServerCountExact'
      BY <3>1, <3>3, SameUsers
    <3> QED
      BY <1>0, <1>1, <2>1, <3>4 DEF defineDatabaseHost
  <2>2. ASSUME NEW h \in Host, NEW n \in HostName, changeDatabaseHost(h, n)
        PROVE  GroupInvariant'
    BY <1>2, <2>2 DEF changeDatabaseHost, Users
  <2>3. ASSUME NEW h \in Host, removeDatabaseHost(h) PROVE GroupInvariant'
    <3>1. \A k \in Host : Users(k)' = Users(k)
      BY <2>3 DEF removeDatabaseHost, Users
    <3>2. ServerCountExact'
      BY <2>3, <3>1, SameUsers DEF removeDatabaseHost
    <3>3. Users(h) = {}
      BY <2>3, UsersCounted DEF removeDatabaseHost, DbHostIsBusy, GroupInvariant
    <3>4. \A g \in Group : groupHost[g] # h
      BY <3>3 DEF Users
    <3> QED
      BY <1>0, <1>1, <2>3, <3>2, <3>4 DEF removeDatabaseHost
  <2> QED
    BY <1>3, <2>1, <2>2, <2>3 DEF hosts
<1>4. ASSUME dbs PROVE GroupInvariant'
  <2>1. ASSUME NEW h \in Host, NEW n \in DbName, NEW r \in BOOLEAN,
               getAndLockDatabaseHost(h, n, r)
        PROVE  GroupInvariant'
    <3>1. None \notin Users(h) /\ Users(h)' = Users(h) \cup {None}
      BY <2>1, ConstantsAssumption DEF getAndLockDatabaseHost, Users, NoOperation
    <3>2. \A k \in Host : k # h => Users(k)' = Users(k)
      BY <2>1 DEF getAndLockDatabaseHost, Users, NoOperation
    <3>3. ServerCountExact'
      BY <2>1, <3>1, <3>2, OneUserMore DEF getAndLockDatabaseHost
    <3> QED
      BY <1>0, <1>1, <2>1, <3>3 DEF getAndLockDatabaseHost
  <2>2. ASSUME releaseDatabaseHost PROVE GroupInvariant'
    <3>1. PICK h \in Host : h = dbOperation.host
      BY <2>2 DEF releaseDatabaseHost, TypeOK
    <3>2. /\ dbOperation.step = "locked" /\ dbOperation'.step = "released"
          /\ groupHost' = groupHost
      BY <2>2 DEF releaseDatabaseHost, TypeOK
    <3>3. None \in Users(h) /\ Users(h)' = Users(h) \ {None}
      BY <3>1, <3>2, ConstantsAssumption DEF Users
    <3>4. \A k \in Host : k # h => Users(k)' = Users(k)
      BY <3>1, <3>2 DEF Users
    <3>5. ServerCountExact'
      BY <2>2, <3>1, <3>3, <3>4, OneUserLess DEF releaseDatabaseHost
    <3> QED
      BY <1>0, <1>1, <2>2, <3>5 DEF releaseDatabaseHost
  <2>3. ASSUME dbOperation.step # "locked", dbOperation'.step # "locked", groupHost' = groupHost
        PROVE  \A h \in Host : Users(h)' = Users(h)
    BY <2>3 DEF Users
  <2>4. CASE dbOperationFails
    BY <1>2, <2>3, <2>4 DEF dbOperationFails, NoOperation
  <2>5. ASSUME NEW d \in Db, defineDatabase(d) PROVE GroupInvariant'
    BY <1>2, <2>3, <2>5 DEF defineDatabase, NoOperation
  <2>6. ASSUME NEW d \in Db, NEW e \in Db, removeDatabase(d, e) PROVE GroupInvariant'
    BY <1>2, <2>3, <2>6 DEF removeDatabase, NoOperation
  <2>7. ASSUME NEW d \in Db, NEW n \in NewDbNames, changeDatabase(d, n) PROVE GroupInvariant'
    BY <1>2, <2>3, <2>7 DEF changeDatabase, NoOperation
  <2> QED
    BY <1>4, <2>1, <2>2, <2>4, <2>5, <2>6, <2>7 DEF dbs
<1>5. ASSUME groups PROVE GroupInvariant'
  <2>1. ASSUME NEW g \in Group, NEW h \in Host, defineServerGroup(g, h) PROVE GroupInvariant'
    <3>1. g \notin Users(h) /\ Users(h)' = Users(h) \cup {g}
      BY <2>1, ConstantsAssumption DEF defineServerGroup, Users, TypeOK
    <3>2. \A k \in Host : k # h => Users(k)' = Users(k)
      BY <2>1, ConstantsAssumption DEF defineServerGroup, Users, TypeOK
    <3>3. ServerCountExact'
      BY <2>1, <3>1, <3>2, OneUserMore DEF defineServerGroup
    <3> QED
      BY <1>0, <1>1, <2>1, <3>3 DEF defineServerGroup, TypeOK
  <2>2. ASSUME NEW g \in Group, startServerGroup(g) \/ stopServerGroup(g)
        PROVE  GroupInvariant'
    BY <1>2, <2>2 DEF startServerGroup, stopServerGroup, Users
  <2>3. ASSUME NEW g \in Group, removeServerGroup(g) PROVE GroupInvariant'
    <3>1. PICK h \in Host : h = groupHost[g]
      BY <2>3 DEF removeServerGroup, TypeOK
    <3>2. g \in Users(h) /\ Users(h)' = Users(h) \ {g}
      BY <2>3, <3>1, ConstantsAssumption DEF removeServerGroup, Users, TypeOK
    <3>3. \A k \in Host : k # h => Users(k)' = Users(k)
      BY <2>3, <3>1, ConstantsAssumption DEF removeServerGroup, Users, TypeOK
    <3>4. ServerCountExact'
      BY <2>3, <3>1, <3>2, <3>3, OneUserLess DEF removeServerGroup
    <3> QED
      BY <1>0, <1>1, <2>3, <3>4 DEF removeServerGroup, TypeOK
  <2> QED
    BY <1>0, <1>5, <2>1, <2>2, <2>3 DEF groups, NoMoves, lockNewHost, newHostIsMissing
<1>6. ASSUME sessions PROVE GroupInvariant'
  BY <1>2, <1>6 DEF sessions, tryGetAvailableServer, addClientSessionOnDB,
                    allocationFails, removeClientSessionFromDB, Users
<1>7. CASE UNCHANGED vars
  BY <1>2, <1>7 DEF vars, Users
<1> QED
  BY <1>3, <1>4, <1>5, <1>6, <1>7 DEF Next

\* As long as no group is moved to another host, the host of a group cannot
\* be removed: the lock of getAndLockDatabaseHost holds.
THEOREM GroupHostSafety ==
  ASSUME NoMoves
  PROVE  Spec => []GroupHostsAreKept
<1>1. Init => GroupInvariant
  <2>1. ASSUME Init, NEW h \in Host PROVE Users(h) = {}
    BY <2>1, ConstantsAssumption DEF Init, Users, NoOperation
  <2>2. ASSUME Init, NEW h \in Host PROVE serverCount[h] = Cardinality(Users(h))
    BY <2>1, <2>2, FS_EmptySet DEF Init
  <2> QED
    BY <2>2 DEF Init, GroupInvariant, ServerCountExact, GroupHostsAreKept
<1>2. TypeOK /\ GroupInvariant /\ [Next]_vars => GroupInvariant'
  BY GroupStep
<1>3. GroupInvariant => GroupHostsAreKept
  BY DEF GroupInvariant
<1> QED
  BY <1>1, <1>2, <1>3, TypeCorrect, PTL DEF Spec
=============================================================================
