--------------------------- MODULE DatabaseHosts ---------------------------
(***************************************************************************)
(* Database hosts, databases and who uses them: DatabaseHostManager,       *)
(* DatabaseHost, DatabaseManager and Database (rasmgr_x/src/database*.cc), *)
(* the part of ServerManager and ServerGroupImpl that attaches a group to  *)
(* a host, and the sessions that servers record on a host.                 *)
(*                                                                         *)
(* Each manager and each host has a mutex of its own.  What one of them    *)
(* protects is one action; an operation that goes through several of them  *)
(* is a sequence of actions: dbOperation is the operation that holds       *)
(* DatabaseManager::mut, hostChange the changeServerGroup that holds       *)
(* serverGroupMutex.  The lists are sets: of several entries with the name *)
(* that is looked for, any may come first.                                 *)
(***************************************************************************)
EXTENDS Integers, FiniteSets

CONSTANTS
  Host, HostName,   \* DatabaseHost objects and their names
  Db, DbName,       \* Database objects and their names
  Group,            \* server groups, by name
  Session,          \* <clientId, sessionId> pairs
  None,
  NewHosts,         \* the hosts an administrator may move a group to
  NewDbNames        \* the names an administrator may give a database

ASSUME ConstantsAssumption ==
  /\ None \notin Host \cup Group
  /\ NewHosts \subseteq HostName
  /\ NewDbNames \subseteq DbName
  /\ IsFiniteSet(Group)
  /\ IsFiniteSet(Session)

VARIABLES
  hostList,      \* DatabaseHostManager::hostList
  hostName, serverCount, sessionCount, databaseList, \* of a DatabaseHost
  databases,     \* DatabaseManager::databases
  dbName, sessionList, \* of a Database
  groupHost,     \* ServerGroupImpl::databaseHost, None for an undefined group
  stopped,       \* ServerGroupImpl::stopped
  dbOperation,   \* the defineDatabase or removeDatabase under way
  hostChange,    \* the changeServerGroup under way
  picked,        \* the host of the server a session is about to be opened on
  wanted,        \* the database it asks for
  opened         \* the host the session has been recorded on

hostVars == <<hostList, hostName, serverCount, sessionCount, databaseList>>
dbVars == <<databases, dbName, sessionList, dbOperation>>
groupVars == <<groupHost, stopped, hostChange>>
sessionVars == <<picked, wanted, opened>>
vars == <<hostVars, dbVars, groupVars, sessionVars>>

NoOperation == [step |-> "none", remove |-> FALSE, host |-> None, db |-> None]
NoChange == [group |-> None, host |-> None]

-----------------------------------------------------------------------------
Named(n) == {h \in hostList : hostName[h] = n}
DatabasesOn(h, n) == {d \in databaseList[h] : dbName[d] = n}

DbHostIsBusy_sessionsOnly(h) == sessionCount[h] > 0  \* mutant: groups are not counted
DbHostIsBusy(h) == sessionCount[h] > 0 \/ serverCount[h] > 0
DbIsBusy(d) == sessionList[d] # {}

\* Objects that nothing refers to (any more).
FreshHost(h) ==
  /\ h \notin hostList
  /\ \A g \in Group : groupHost[g] # h
  /\ dbOperation.host # h
  /\ \A i \in Session : picked[i] # h /\ opened[i] # h
FreshDb(d) == d \notin databases /\ \A h \in Host : d \notin databaseList[h]

Init ==
  /\ hostList = {}
  /\ hostName \in [Host -> HostName]
  /\ serverCount = [h \in Host |-> 0]
  /\ sessionCount = [h \in Host |-> 0]
  /\ databaseList = [h \in Host |-> {}]
  /\ databases = {}
  /\ dbName \in [Db -> DbName]
  /\ sessionList = [d \in Db |-> {}]
  /\ dbOperation = NoOperation
  /\ groupHost = [g \in Group |-> None]
  /\ stopped = [g \in Group |-> TRUE]
  /\ hostChange = NoChange
  /\ picked = [i \in Session |-> None]
  /\ wanted = [i \in Session |-> None]
  /\ opened = [i \in Session |-> None]

-----------------------------------------------------------------------------
(* DatabaseHostManager                                                     *)

defineDatabaseHost(h, n) ==
  /\ Named(n) = {}
  /\ FreshHost(h)
  /\ hostList' = hostList \cup {h}
  /\ hostName' = [hostName EXCEPT ![h] = n]
  /\ serverCount' = [serverCount EXCEPT ![h] = 0]
  /\ sessionCount' = [sessionCount EXCEPT ![h] = 0]
  /\ databaseList' = [databaseList EXCEPT ![h] = {}]
  /\ UNCHANGED <<dbVars, groupVars, sessionVars>>

\* The new name is not compared with those of the other hosts.
changeDatabaseHost(h, n) ==
  /\ h \in hostList
  /\ ~DbHostIsBusy(h)
  /\ hostName' = [hostName EXCEPT ![h] = n]
  /\ UNCHANGED <<hostList, serverCount, sessionCount, databaseList, dbVars,
                 groupVars, sessionVars>>

removeDatabaseHost(h) ==
  /\ h \in hostList
  /\ ~DbHostIsBusy(h)
  /\ hostList' = hostList \ {h}
  /\ UNCHANGED <<hostName, serverCount, sessionCount, databaseList, dbVars,
                 groupVars, sessionVars>>

increaseServerCount(h) == serverCount' = [serverCount EXCEPT ![h] = @ + 1]

\* Mutant: the count is not compared with 0.
decreaseServerCount_unchecked(h) == serverCount' = [serverCount EXCEPT ![h] = @ - 1]

\* Throws, and changes nothing, if the count is 0.
decreaseServerCount(h) ==
  serverCount' = [serverCount EXCEPT ![h] = IF @ = 0 THEN 0 ELSE @ - 1]

-----------------------------------------------------------------------------
(* DatabaseManager                                                         *)

getAndLockDatabaseHost(h, n, remove) ==
  /\ dbOperation = NoOperation
  /\ h \in hostList
  /\ increaseServerCount(h)
  /\ dbOperation' = [step |-> "locked", remove |-> remove, host |-> h, db |-> n]
  /\ UNCHANGED <<hostList, hostName, sessionCount, databaseList, databases,
                 dbName, sessionList, groupVars, sessionVars>>

\* "We do not care if the database host is removed in between."
releaseDatabaseHost ==
  /\ dbOperation.step = "locked"
  /\ decreaseServerCount(dbOperation.host)
  /\ dbOperation' = [dbOperation EXCEPT !.step = "released"]
  /\ UNCHANGED <<hostList, hostName, sessionCount, databaseList, databases,
                 dbName, sessionList, groupVars, sessionVars>>

\* The Database object of that name if there is one, else a new one.
DatabaseFor(d, n) ==
  \/ d \in databases /\ dbName[d] = n
  \/ FreshDb(d) /\ \A e \in databases : dbName[e] # n

defineDatabase(d) ==
  LET h == dbOperation.host
      n == dbOperation.db
  IN /\ dbOperation.step = "released"
     /\ ~dbOperation.remove
     /\ DatabasesOn(h, n) = {}
     /\ DatabaseFor(d, n)
     /\ dbName' = [dbName EXCEPT ![d] = n]
     /\ databaseList' = [databaseList EXCEPT ![h] = @ \cup {d}]
     /\ databases' = databases \cup {d}
     /\ dbOperation' = NoOperation
     /\ UNCHANGED <<hostList, hostName, serverCount, sessionCount, sessionList,
                    groupVars, sessionVars>>

\* Mutant: the sessions of the database are not looked at.
removeDatabase_busyToo(d, e) ==
  LET h == dbOperation.host
      n == dbOperation.db
  IN /\ dbOperation.step = "released"
     /\ dbOperation.remove
     /\ d \in DatabasesOn(h, n)
     /\ databaseList' = [databaseList EXCEPT ![h] = @ \ {d}]
     /\ databases' = IF e \in databases /\ dbName[e] = n THEN databases \ {e} ELSE databases
     /\ (\A f \in databases : dbName[f] # n) \/ databases' # databases
     /\ dbOperation' = NoOperation
     /\ UNCHANGED <<hostList, hostName, serverCount, sessionCount, dbName,
                    sessionList, groupVars, sessionVars>>

\* removeDbFromHost, then the first database of that name leaves the list
\* of the manager: it may still be on another host, or be another one.
removeDatabase(d, e) ==
  LET h == dbOperation.host
      n == dbOperation.db
  IN /\ dbOperation.step = "released"
     /\ dbOperation.remove
     /\ d \in DatabasesOn(h, n)
     /\ ~DbIsBusy(d)
     /\ databaseList' = [databaseList EXCEPT ![h] = @ \ {d}]
     /\ databases' = IF e \in databases /\ dbName[e] = n THEN databases \ {e} ELSE databases
     /\ (\A f \in databases : dbName[f] # n) \/ databases' # databases
     /\ dbOperation' = NoOperation
     /\ UNCHANGED <<hostList, hostName, serverCount, sessionCount, dbName,
                    sessionList, groupVars, sessionVars>>

\* The database is already there, not there, or busy: an exception.
dbOperationFails ==
  LET found == DatabasesOn(dbOperation.host, dbOperation.db)
  IN /\ dbOperation.step = "released"
     /\ IF dbOperation.remove
          THEN found = {} \/ \E d \in found : DbIsBusy(d)
          ELSE found # {}
     /\ dbOperation' = NoOperation
     /\ UNCHANGED <<hostVars, databases, dbName, sessionList, groupVars, sessionVars>>

\* The new name is not compared with those of the other databases.
changeDatabase(d, n) ==
  /\ dbOperation = NoOperation
  /\ d \in databases
  /\ ~DbIsBusy(d)
  /\ dbName' = [dbName EXCEPT ![d] = n]
  /\ UNCHANGED <<hostVars, databases, sessionList, dbOperation, groupVars, sessionVars>>

-----------------------------------------------------------------------------
(* Server groups: ServerManager, with serverGroupMutex held.               *)

defineServerGroup(g, h) ==
  /\ hostChange = NoChange
  /\ groupHost[g] = None
  /\ h \in hostList
  /\ increaseServerCount(h)
  /\ groupHost' = [groupHost EXCEPT ![g] = h]
  /\ stopped' = [stopped EXCEPT ![g] = TRUE]
  /\ UNCHANGED <<hostList, hostName, sessionCount, databaseList, dbVars,
                 hostChange, sessionVars>>

startServerGroup(g) ==
  /\ hostChange = NoChange
  /\ groupHost[g] # None
  /\ stopped' = [stopped EXCEPT ![g] = FALSE]
  /\ UNCHANGED <<hostVars, dbVars, groupHost, hostChange, sessionVars>>

stopServerGroup(g) ==
  /\ hostChange = NoChange
  /\ groupHost[g] # None
  /\ ~stopped[g]
  /\ stopped' = [stopped EXCEPT ![g] = TRUE]
  /\ UNCHANGED <<hostVars, dbVars, groupHost, hostChange, sessionVars>>

\* changeGroupConfig gives the old host back first ...
changeServerGroup(g, n) ==
  /\ hostChange = NoChange
  /\ groupHost[g] # None
  /\ stopped[g]
  /\ serverCount[groupHost[g]] > 0
  /\ decreaseServerCount(groupHost[g])
  /\ hostChange' = [group |-> g, host |-> n]
  /\ UNCHANGED <<hostList, hostName, sessionCount, databaseList, dbVars,
                 groupHost, stopped, sessionVars>>

\* ... then looks for the new one ...
lockNewHost(h) ==
  /\ hostChange # NoChange
  /\ h \in Named(hostChange.host)
  /\ increaseServerCount(h)
  /\ groupHost' = [groupHost EXCEPT ![hostChange.group] = h]
  /\ hostChange' = NoChange
  /\ UNCHANGED <<hostList, hostName, sessionCount, databaseList, dbVars,
                 stopped, sessionVars>>

\* ... and if there is none, keeps a reference to the old one.
newHostIsMissing ==
  /\ hostChange # NoChange
  /\ Named(hostChange.host) = {}
  /\ hostChange' = NoChange
  /\ UNCHANGED <<hostVars, dbVars, groupHost, stopped, sessionVars>>

\* ~ServerGroupImpl
removeServerGroup(g) ==
  /\ hostChange = NoChange
  /\ groupHost[g] # None
  /\ stopped[g]
  /\ decreaseServerCount(groupHost[g])
  /\ groupHost' = [groupHost EXCEPT ![g] = None]
  /\ UNCHANGED <<hostList, hostName, sessionCount, databaseList, dbVars,
                 stopped, hostChange, sessionVars>>

-----------------------------------------------------------------------------
(* Sessions.  A server is created with the host of its group.              *)

\* tryGetAvailableServer of a group with running servers.
tryGetAvailableServer(i, g, n) ==
  /\ picked[i] = None
  /\ opened[i] = None
  /\ groupHost[g] # None
  /\ ~stopped[g]
  /\ DatabasesOn(groupHost[g], n) # {}
  /\ picked' = [picked EXCEPT ![i] = groupHost[g]]
  /\ wanted' = [wanted EXCEPT ![i] = n]
  /\ UNCHANGED <<hostVars, dbVars, groupVars, opened>>

\* Mutant: a database that was there when the server was picked is not
\* looked for again.
addClientSessionOnDB_trusting(i, d) ==
  LET h == picked[i]
  IN /\ h # None
     /\ sessionList' = IF d \in DatabasesOn(h, wanted[i])
                         THEN [sessionList EXCEPT ![d] = @ \cup {i}] ELSE sessionList
     /\ sessionCount' = [sessionCount EXCEPT ![h] = @ + 1]
     /\ opened' = [opened EXCEPT ![i] = h]
     /\ picked' = [picked EXCEPT ![i] = None]
     /\ wanted' = [wanted EXCEPT ![i] = None]
     /\ UNCHANGED <<hostList, hostName, serverCount, databaseList, databases, dbName,
                    dbOperation, groupVars>>

addClientSessionOnDB(i, d) ==
  LET h == picked[i]
  IN /\ h # None
     /\ d \in DatabasesOn(h, wanted[i])
     /\ sessionList' = [sessionList EXCEPT ![d] = @ \cup {i}]
     /\ sessionCount' = [sessionCount EXCEPT ![h] = @ + 1]
     /\ opened' = [opened EXCEPT ![i] = h]
     /\ picked' = [picked EXCEPT ![i] = None]
     /\ wanted' = [wanted EXCEPT ![i] = None]
     /\ UNCHANGED <<hostList, hostName, serverCount, databaseList, databases, dbName,
                    dbOperation, groupVars>>

\* The database has been removed in the meantime, or the server refused.
allocationFails(i) ==
  /\ picked[i] # None
  /\ picked' = [picked EXCEPT ![i] = None]
  /\ wanted' = [wanted EXCEPT ![i] = None]
  /\ UNCHANGED <<hostVars, dbVars, groupVars, opened>>

\* The session is closed, or its server is destroyed.
removeClientSessionFromDB(i) ==
  LET h == opened[i]
      on == {d \in databaseList[h] : i \in sessionList[d]}
  IN /\ h # None
     /\ sessionList' = [d \in Db |-> IF d \in on THEN sessionList[d] \ {i} ELSE sessionList[d]]
     /\ sessionCount' = [sessionCount EXCEPT ![h] = @ - Cardinality(on)]
     /\ opened' = [opened EXCEPT ![i] = None]
     /\ UNCHANGED <<hostList, hostName, serverCount, databaseList, databases, dbName,
                    dbOperation, groupVars, picked, wanted>>

-----------------------------------------------------------------------------
hosts ==
  \E h \in Host :
    \/ \E n \in HostName : defineDatabaseHost(h, n) \/ changeDatabaseHost(h, n)
    \/ removeDatabaseHost(h)

dbs ==
  \/ \E h \in Host, n \in DbName, r \in BOOLEAN : getAndLockDatabaseHost(h, n, r)
  \/ releaseDatabaseHost
  \/ dbOperationFails
  \/ \E d \in Db : \/ defineDatabase(d)
                   \/ \E e \in Db : removeDatabase(d, e)
                   \/ \E n \in NewDbNames : changeDatabase(d, n)

groups ==
  \/ \E g \in Group :
       \/ \E h \in Host : defineServerGroup(g, h)
       \/ startServerGroup(g) \/ stopServerGroup(g) \/ removeServerGroup(g)
       \/ \E n \in NewHosts : changeServerGroup(g, n)
  \/ \E h \in Host : lockNewHost(h)
  \/ newHostIsMissing

sessions ==
  \E i \in Session :
    \/ \E g \in Group, n \in DbName : tryGetAvailableServer(i, g, n)
    \/ \E d \in Db : addClientSessionOnDB(i, d)
    \/ allocationFails(i)
    \/ removeClientSessionFromDB(i)

Next == hosts \/ dbs \/ groups \/ sessions

Spec == Init /\ [][Next]_vars

-----------------------------------------------------------------------------
(* Properties.                                                             *)

TypeOK ==
  /\ hostList \in SUBSET Host
  /\ hostName \in [Host -> HostName]
  /\ serverCount \in [Host -> Nat]
  /\ sessionCount \in [Host -> Int]
  /\ databaseList \in [Host -> SUBSET Db]
  /\ databases \in SUBSET Db
  /\ dbName \in [Db -> DbName]
  /\ sessionList \in [Db -> SUBSET Session]
  /\ dbOperation \in [step : {"none", "locked", "released"}, remove : BOOLEAN,
                      host : Host \cup {None}, db : DbName \cup {None}]
  /\ dbOperation.step # "none" => dbOperation.host \in Host /\ dbOperation.db \in DbName
  /\ groupHost \in [Group -> Host \cup {None}]
  /\ stopped \in [Group -> BOOLEAN]
  /\ hostChange \in [group : Group \cup {None}, host : HostName \cup {None}]
  /\ hostChange # NoChange => hostChange.group \in Group
  /\ picked \in [Session -> Host \cup {None}]
  /\ wanted \in [Session -> DbName \cup {None}]
  /\ opened \in [Session -> Host \cup {None}]

\* sessionCount is exactly the number of sessions recorded on the host, so
\* that isBusy() protects a host from being removed or renamed as long as,
\* and no longer than, a session is open on it.
SessionsCounted ==
  \A h \in Host : sessionCount[h] = Cardinality({i \in Session : opened[i] = h})

\* The database of an open session stays on the host of the session, also
\* when it was removed from the manager's list, renamed, or is on several
\* hosts: the session can be taken off it again.
OpenSessionsHaveDatabase ==
  \A i \in Session : opened[i] # None =>
    \E d \in databaseList[opened[i]] : i \in sessionList[d]

\* A session is recorded in one database, and only while it is open.
SessionsInOneDatabase ==
  \A d \in Db : \A i \in sessionList[d] :
    opened[i] # None /\ \A e \in Db : i \in sessionList[e] => e = d

\* The strengthening that makes OpenSessionsHaveDatabase inductive.
SessionInvariant ==
  /\ TypeOK
  /\ OpenSessionsHaveDatabase
  /\ SessionsInOneDatabase
  /\ \A i \in Session : picked[i] # None => opened[i] = None

\* getAndLockDatabaseHost makes certain that a host is not removed while a
\* server group refers to it (unless the group is just leaving it).
GroupHostsAreKept ==
  \A g \in Group :
    groupHost[g] # None /\ hostChange.group # g => groupHost[g] \in hostList

\* serverCount counts the server groups on the host, and the operation of
\* the database manager that has locked it.
Users(h) ==
  {g \in Group : groupHost[g] = h}
    \cup (IF dbOperation.step = "locked" /\ dbOperation.host = h THEN {None} ELSE {})
ServerCountExact == \A h \in Host : serverCount[h] = Cardinality(Users(h))

\* No group is ever moved to another host.
NoMoves == NewHosts = {}

\* The strengthening that makes GroupHostsAreKept inductive without moves.
GroupInvariant ==
  /\ hostChange = NoChange
  /\ ServerCountExact
  /\ GroupHostsAreKept
=============================================================================
