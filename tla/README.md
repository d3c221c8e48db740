# A TLA+ model of the concurrent parts of rasdaman

rasdaman is an array database. Queries run in `rasserver` processes; a manager
process, `rasmgr` (`src/rasmgr_x`), starts and stops those processes, hands them
to clients, and keeps the registry of database hosts and databases. The servers
lock the tiles they work on in a table that they share (`src/lockmgr`), and a
toolkit for web pages (`src/applications/raswct`) connects widgets to queries.
These are the places where the system is concurrent: threads of a gRPC server
handle calls of clients, servers and administrators; two worker threads clean
up; server processes crash, hang, register late and forget clients on their own;
database transactions of many servers interleave; callbacks of a browser arrive
in any order. This project models these parts, checks them with TLC and proves
their main invariants with TLAPS.

## Inventory

| Component (source) | State | Operations | What makes it correct |
|---|---|---|---|
| Server group (`servergroupimpl.cc`) | lists of starting, running and restarting servers, pool of ports, configuration, `stopped` | start, stop, registration, change of configuration, evaluation by the cleanup thread, hand-out of a server | a port belongs to one process and is there when one is needed; of a stopped group only restarting servers are left; dead and stuck servers are replaced; the minimum of available servers is kept |
| Server (`serverrasnet.cc`) | process, `started`, `allocatedClientsNo`, `sessionNo`, `sessionList` | start, stop, status calls, allocate and deallocate a client session | the counters agree with the sessions; capacity is respected |
| Client manager and client (`clientmanager.cc`, `client.cc`) | clients, their timers, the server of each session | connect, open, close, keep-alive, disconnect, eviction of silent clients | no server above its capacity; a removed client leaves nothing behind; no deadlock between four mutexes; silent clients go |
| rasserver client list (`rasserver_x/src/clientmanager.cc`) | clients of one server process | allocate, deallocate, time-out, queue size | rasmgr's idea of the queue follows it |
| Database hosts (`databasehostmanager.cc`, `databasehost.cc`) | hosts, counts of their users and sessions, their databases | define, change, remove, lock, release | a host in use is neither removed nor renamed |
| Databases (`databasemanager.cc`, `database.cc`) | databases, the sessions in each | define, change, remove, add and remove a session | an open session has its database; counts are exact |
| Server manager (`servermanager.cc`) | the groups | define, change, start, stop, remove groups; registration; hand-out; evaluation of all groups | groups keep their hosts; a call never stands on an erased group; a stop takes effect; a search overlooks no free server; one group does not disturb another |
| Peers (`peermanager.cc`, `outpeer.cc`, `inpeer.cc`) | remote rasmgr instances and sessions there | remote server requests | a remote session is released once |
| Users, rights, configuration (`usermanager.cc`, `configurationmanager.cc`, `rasmanager.cc`) | users; files | define, change, save, load | what is saved is what is loaded |
| Tile locks (`src/lockmgr`) | a table of locks shared by servers, one database transaction per server | lock and unlock intervals of tiles | a tile has one writer; a call locks its tiles or reports an error; nobody waits for ever |
| Queries of web pages (`applications/raswct/src/query`, `util`, `widget`) | variables, running evaluations, cache, listeners, time of the last request | binding, change of an input, evaluation, answers, errors, cache | the display follows the inputs; the cache holds the right answers; requests keep their distance |
| Query engine, storage, conversion, client libraries, other applications | arrays and metadata | - | not part of this development |

How they interact. A client connects (client manager), opens a session (the
server manager picks a server of a group, the client object enters the session,
the server object calls the process and records the session on the database
host), talks to the server process directly, and closes. The cleanup thread of
the server manager evaluates each group; the worker thread of the client manager
evicts silent clients. An administrator defines hosts, databases and groups at
any time. The pieces share objects by pointer, and each object has a mutex of
its own; nothing covers an operation as a whole. A server that executes a query
locks the tiles of the objects it opens (`qtmddaccess.cc`) through a connection
of its own and releases them when its transaction ends (`servercomm2.cc`). Web
pages reach the servers through the WCPS service, which is an environment here.

What is hard is listed, with line numbers, under `hazards` in `PROJECT.json`.

## Modules

| Module | Models | Extended by |
|---|---|---|
| `ServerGroup` | one group and the life cycle of its servers | `MCServerGroup` (instances for TLC), `ServerGroup_proofs` |
| `PortPool` | abstract specification: what a group promises about its ports | instantiated by `ServerGroup` |
| `ClientSessions` | clients, sessions, the threads that serve them, the client lists of the server processes | `MCClientSessions`, `ClientSessions_proofs` |
| `SessionTable` | abstract specification: what rasmgr promises about sessions while nothing fails | instantiated by `ClientSessions` |
| `ServerManager` | the list of groups and the calls that go through it | `MCServerManager`, `ServerManager_proofs` |
| `DatabaseHosts` | hosts, databases, the groups that use them and the sessions recorded on them | `MCDatabaseHosts`, `DatabaseHosts_proofs` |
| `TileLocks` | the lock table, the statements of `lockTiles`, the transactions of the servers | `MCTileLocks`, `TileLocks_proofs` |
| `TileLockTable` | abstract specification: what the lock table promises to writers | instantiated by `TileLocks` |
| `TileIntervals` | the loop of `lockTilesInternal`, index by index | `MCTileLocks` |
| `WidgetQueries` | a query of a web page, its inputs, outputs, cache and requests | `MCWidgetQueries`, `WidgetQueries_proofs` |

The four modules about rasmgr look at the same servers from four sides. `ServerGroup` keeps
the life of a server object in detail and clients as far as they change its
counters. `ClientSessions` keeps clients, sessions and locks in detail, and the
life of a server as three states (process up, process dead, object gone).
`ServerManager`
composes several groups: a visit of a group is one step, with the effect that
`ServerGroup` shows of the whole operation. `DatabaseHosts` keeps who refers to
which host. An action that is detailed in
one module appears in the others as the step its effect there requires (for
example `allocateClientSession`: `allocateClient` and `countClientSession` in
`ServerGroup`, `allocateClient` and `recordSession` in `ClientSessions`,
`addClientSessionOnDB` in `DatabaseHosts`).

Definitions are named after the functions they model; the `map` of
`PROJECT.json` gives the lines. A definition with a suffix and the comment
"mutant" is a wrong version of the definition that follows it; the runs must
reject it.

### ServerGroup

Every operation of a group holds `groupMutex`. `phase` says what its holder is
doing. Short operations are one action. The evaluation is one action per server
visited, because time, crashes, and clients that already hold a server object
go on meanwhile: `removeDeadServers`, `selectRestartingServers`,
`evaluateRestartingServers`, `killRestartingServer`, `beginCounting`, `countServer`,
`adjust`, then `startServer` or `stopIdleServer`. An exception in the middle (`evaluationThrows`,
`finishStarting` with no port left) ends it where the code ends it. `handed` and
`stage` are the one client that may be between `tryGetAvailableServer` and the
end of `allocateClientSession` (`serverManagerMutex` admits one). Unsigned
counters are taken modulo `Modulus`.

Abstractions: the lists are sets, visited in any order (registration order is
not part of any promise). A server object is reused once it has left the lists
and no client holds it. `getClientQueueSize` answers any number up to the
capacity, because the process drops clients on its own. Between `isFree` and
`stop(KILL)` of a server that is to be restarted (`victim`) a client may be counted
on it, so these are two steps. In the other loops the check and the act are one
step: `isAlive` of `removeDeadServers` does not look at clients, and a server whose
`stop(NONE)` follows its check (`stopIdleServer`) is only marked, so that a client
who is counted in between might as well have been counted after. `changeGroupConfig`
stores a change, validates it and then looks for the new database host; it may fail
at both points and leave the pool of ports as it was (`db_host`).
Options, host names and life times are left out. `stopLevel` is a history
variable, `crashes` and `MaxSessionNo` are bounds.

`PortPool` states the promise about ports without lists, phases and loops: a
server takes a port from the pool, its process may die, and a port returns when
the process is gone; the pool is exchanged only while no server has a port. The
mapping gives a listed server its port, an unlisted one none, and counts a process
that runs or hangs as alive.

### ClientSessions

`thread[t].pc` says how far a call has come and, through the sets `Shared`,
`Upgradable`, `HoldsServerManager` and `HoldsAssigned`, which locks it holds; a
step that needs a lock is guarded by the corresponding condition. A remote call
succeeds, fails, or succeeds with a lost reply. `Faults` chooses what may go
wrong in a run; `Sequential` whether a client waits for its previous call.
The rasserver keys its list by client only, as the code does.

Abstractions: users and rights are a choice between granted and denied; the
attempts of `tryGetFreeLocalServer` are collapsed into the last one; remote
servers are not found (peers are planned); the time-out of a rasserver client
may strike at any time. `SessionNo` bounds the open sessions of a client.

`SessionTable` states the promise about sessions with the list of clients and the
`sessionList`s of the servers as its only variables, and one action each for a client that
joins or leaves and a session that is opened or closed. The threads need up to
four steps for what is one step there; the step that shows is `recordSession` for
opening, the uncounting half of `deallocateClientSession` for closing, and
`eraseClient` for leaving. `WaitsFor` is the wait-for relation of the locks, which
`NoLockCycle` says has no cycle.

### DatabaseHosts

Each mutex-protected block is one action. `defineDatabase` and `removeDatabase`
take the host's lock, give it back at once and go on (`getAndLockDatabaseHost`,
`releaseDatabaseHost`, then the work): `dbOperation` is the one in progress.
`changeServerGroup`, `lockNewHost` and `newHostIsMissing` are the three steps of
a move. Objects that were removed from a list but are still referred to live on,
as they do behind a `shared_ptr`.

### ServerManager

A call holds `serverGroupMutex` shared while it walks through the list, so calls
run side by side: `call[c].rest` is the part of the list that the iterator has
still to visit. `isStopped` and `start`/`stop` of a group are separate steps,
because the group's mutex is released in between; a group that is named is not
asked first. `defineServerGroup` and `removeServerGroup` need every other call to
have ended (`Alone`). A registration visits groups until one has the server; a
stopped group throws and the process then ends itself (`registrationFails`). The
cleanup thread catches the exception of a group and goes on.

`stop` of a group kills its starting and running servers and evaluates the group,
which kills the restarting ones it finds free and may throw; the others stay.
`removeServerGroup` destroys the group. The destructor of a restarting server waits
for the end of its process, with `serverGroupMutex` held: `awaited` is the set of
processes that have to end before any other call begins (`awaitedEnds`).

Abstractions: `state` says whether a server has room, is full, or does not answer.
Sessions are not counted: in a group with a countdown (`Restarts`) any running server
may be due for a restart when the group is evaluated, and whether a restarting server
that does not answer has a client, which decides whether `isFree` throws, is
open. The minima
`min_alive_server_no` and `min_available_server_no` are one number; stops of idle
servers and changes of a group are left to `ServerGroup` and `DatabaseHosts`.
`witness` and `quiet` are history variables for two properties.

### TileLocks, TileIntervals and TileLockTable

`rows` are the committed rows of `RAS_LOCKEDTILES`, `pending[s]` those of the open
transaction of a server, `txn` the state of its connection. `lockTiles` begins a
transaction, each row of each statement is a step (`insertRow`), and
`endTransaction` commits. Under READ COMMITTED a statement sees `rows` and its own
`pending`; the constraint `UNIQUE(TileID, ExclusiveLock)` makes an exclusive insert
wait (`waitForRow`), then fail or go on. Nobody looks at `SQLCODE`: what happens
after a failure follows from the checks that the code does make, which differ
between single tiles (`lockTileInternal`) and intervals of 11 tiles and more
(`lockInterval`). A transaction ends with `commitTA` or `abortTA`, which call
`unlockAllTiles` (`endTA`), or with `closeDB` or the loss of its client
(`deleteClientTblEntry`), which do not (`closeDB`): rows and an open database
transaction then pass to the next client of the server. A server that dies is gone
(`ta` is "dead"); rasmgr gives each process a new identifier, so that another member
of `Server` takes its place and its rows stay. The behaviour of PostgreSQL is modelled from its use here and
marked external. The abstract table has one variable, the tiles that each server
holds exclusively, and two actions; the refinement mapping takes them from the
committed rows.

`TileLocks` describes the statements by intervals without holes; `TileIntervals`
is the loop as it is written, and the assumption `LoopLocksIntervals` of
`MCTileLocks` compares the two for every set of up to six tiles.

### WidgetQueries

Scripts run to completion, so a step is one callback of the browser. `evals` is
the sequence of evaluations with the stage of each: waiting for `exists` or `get`
of the storage, delayed by `requestDelayer`, sent, or ended. Time is counted in
ticks relative to `RjRequestTime` (`age`, negative when that lies ahead) and to the
last request (`lastSend`); a timer fires up to `Lateness` ticks late. The text of a
query stands for its answer. Its hash code is a constant function of the text
(`stringToHashCode`), so that two queries may share an entry of the cache. What `JSON.stringify` makes of an
empty text and of binary data is modelled, and so is that all binders share one
listener name. The cache's storage (Lawnchair) and the service are external.

## Runs

All passing runs exhaust their state space; deadlock is checked in each.

| Run | Instance | Shows |
|---|---|---|
| `group_ports` | 3 servers, 2 ports, port and limit changes, one with a database host that may be missing, one crash or hang, `fork` may fail, no restart countdown | `TypeOK`, `PortOwnership`, `NeverOutOfPorts`, `StopSparesOnlyRestarting`, `RefinesPortPool` |
| `group_restart` | 3 servers, 2 ports, a restart after each session, changes of numbers, some rejected, one crash or hang | `PortOwnership`, `NeverOutOfPorts`, `StopSparesOnlyRestarting`, `RefinesPortPool` |
| `group_live` | 2 servers, 2 ports, fairness | `DeadServersRemoved`, `StartingServersResolved`, `MinAvailableKept` |
| `sessions_calm` | 3 clients, 2 servers, 3 handlers, nothing fails | `SessionsWithinCapacity`, `ClientsWithinCapacity`, `CleanExit`, `RefinesSessionTable` |
| `sessions_faults` | 2 clients, 1 server, overlapping calls, every fault | `TypeOK`, `NoLockCycle`, `RecordedSessionsAreAssigned` |
| `sessions_live` | 2 clients, 1 server that crashes or forgets, fairness | `SilentClientsLeave` |
| `hosts_sessions` | 2 hosts, 2 databases, 2 groups that move, 2 sessions | `TypeOK`, `SessionsCounted` |
| `hosts_groups` | the same with renames and without moves | `GroupHostsAreKept`, `OpenSessionsHaveDatabase` |
| `manager` | 2 groups of 1 server, one that restarts its servers, both on one host, 2 administrators (start all, stop by host; stop by name), definitions and removals, a client, the cleanup thread, one fault, fairness | `TypeOK`, `CallsVisitListedGroups`, `StopTakesEffect`, `NoFreeServerMissed`, `RemovalSparesServers`, `GroupsServe` |
| `manager_v_register` | the same | `RegistrationAccepted` fails |
| `tiles` | 2 servers, one of which also reads and one of which may die, 3 tiles, 4 sets of tiles, transactions that end with or without `unlockAllTiles`, bulk locking from 3 tiles on, fairness | `TypeOK`, `DeadlockNeedsError`, `RefinesLockTable`, `LockedOrError`, `WaitsEnd` |
| `widgets` | 1 input with 3 values, one with an empty answer and the other two with the same hash code, 1 output, 3 evaluations, `requestDelay` of 2 ticks, timers up to 1 tick late, fairness | `TypeOK`, `CacheHoldsOwnAnswers`, `DisplayFollowsInputs`, `RequestsSpaced`, `EvaluationsEnd` |

Why the bounds are enough. Two ports with a third server object reach a full
group, an empty pool, a server that a client still holds after it left the
lists, and a port passed on. The capacity is one client per server, the value
that `rasmgrconfig.cc` hard-codes. `Modulus` 3 or 4 leaves room for the capacity,
one more, and the wrap-around below zero; `sessions_calm` uses 8, so that the
number of clients that a process reports (`getClientQueueSize`, an unsigned field
of the reply) does not wrap to zero, as it cannot in 32 bits. One crash at a time suffices for the
faults of interest (it may hit at any step and the process may hang, recover or
die). Two overlapping calls of one client, next to the worker thread and another
client, occupy every pair of locks in both orders. Two hosts, two databases and
two groups reach shared databases, equal names and a second user of a host that
the first gives back twice. Two groups in the list and five kinds of callers
reach every pair of loops at different positions, a stop that another stop
overtakes between `isStopped` and `stop`, and a removal and new definition while
calls come and go; one group with restarting servers reaches a stop that leaves one
behind, a start that finds no port, an evaluation that throws each time, and a
removal that waits. Three tiles with the sets {3}, {1, 3}, {2, 3}, {1, 2, 3} overlap,
hold an interval that is locked in bulk (the bound 10 of the code is lowered to 2),
one that is not, and one with a hole, whose last tile is not visited;
`LoopLocksIntervals` compares all sets of up to six tiles. Three values, two of one
hash code, reach an answer from the cache that belongs to another query. Three evaluations
allow an answer to overtake another one, two delayed requests in a row, and a
third that finds in the cache what the first two have left.

### What the violation shows

`manager_v_register`. `registerServer` asks the groups in turn and expects TRUE or
FALSE. `tryRegisterServer` of a stopped group throws instead, whether or not the
server is one of its own; the loop ends, the call fails and the new process ends
itself. As long as a stopped group comes earlier in the list, no server of a later
group gets to run: the cleanup thread starts one after the other in vain. This is
why `GroupsServe` is stated for groups with no stopped one before them.

### Known disagreements

Between the code and its comments or tests, as the models show them. Those of the
first list break a property that is checked under weaker assumptions; a reader
can reproduce them by changing the named constants of the run.

* A stop that is not forced (`servergroup.hh:63`, "without waiting for running
  transactions to finish" only if forced; `servermanager.hh:101-104`, "running
  servers will be removed once they finish already running transactions") marks every running server as not
  started and then evaluates the group; `removeDeadServers` takes a server that is
  not started for dead and kills it with SIGKILL, with its clients.
* A server that has used up its sessions moves to `restartingServers`. If it dies
  with a client, `isFree` throws in every evaluation, nobody removes it, and the
  group never starts a server again (`servergroup.hh:79`, "Keep the configured
  minimum number of available servers"): `MinAvailableKept` of `group_live` fails
  with a countdown of 1.
* `disconnectClient` first removes the client from its servers ("This ensures a
  clean exit", `clientmanager.cc:145`) and then waits for exclusive access to the
  list of clients; a session opened in between is forgotten with the client and
  stays counted. `CleanExit` of `sessions_calm` fails with `Sequential = FALSE`.
* A group that is to move to a host that does not exist has given back its own
  host, keeps using it, and gives it back again later: the host can be removed
  under this or another group ("make certain that it will not be removed",
  `databasehostmanager.hh:73`). `GroupHostsAreKept` of `hosts_groups` fails when
  `NewHosts` is not empty.

rasmgr. `stop()` leaves restarting servers running, and when the group is started
again while they hold their ports, `start()` runs out of ports in `startServer`
("This should never happen", `servergroupimpl.cc:584`), which is why
`NeverOutOfPorts` excuses `start()` while a server restarts; any start may, too, after
a change of ports that was stored and then rejected, or whose database host is
missing. A client that is counted on a server between `isFree` and `stop(KILL)` of
its restart loses the server. The removal of a group with restarting servers waits
in `waitpid` for processes that nobody has asked to end, and every call of the
server manager with it;
`min_alive_server_no` is never restored; a full server that does not answer makes
`tryGetAvailableServer` throw although another is free; the stop of all groups
ends at the first group that throws; a failed `fork` leads to `kill(-1, ...)`; for
the duration of the `DeallocateClient` call a server may have one client too many;
a client the rasserver has forgotten keeps a session that no longer counts; a
keep-alive that arrives during an eviction is accepted and lost; `changeDatabase`
and `changeDatabaseHost` accept a name that is taken; `hasRunningServers` is asked
before rasmgr stops, and a group may be started in between (`rascontrol.cc:1095`).

Tile locks. The last tile of a list is never locked when the one before it is not
its neighbour, although the comment above `lockTilesInternal` speaks of "all
possible intervals" (`Visited`; `lockmanager.cc:461` compares with an `endIndex`
that the hole has already moved). Intervals are locked in bulk without a look at
the result, so that a failure is not reported, and an interval of which one tile
is locked already is not locked at all. A shared and an exclusive insert of two
open transactions do not see each other, so that both locks are granted. After a
failed statement the rows of earlier calls of the transaction stay until the
server ends another one. `closeDB` and the loss of a client end the transaction
without `unlockAllTiles`: its locks stay until a later client of the server ends a
transaction, and after an error also its uncommitted rows, for which others wait
(`Abandoned`; a circle of waits is then possible for clients that met no error
of their own). The rows of a server that has died stay for good, since no new one
gets its identifier.
`commitTA` unlocks before it commits. "At least 10 elements" in a comment are 11.
`isTileLocked` returns true whatever it finds; nobody calls it.

Web pages. An answer that arrives late overwrites the answer to a newer value.
A text request that fails is handled as an empty answer and cached; each later
evaluation of that text ends silently. Binary answers are cached as `{}`. The
second output bound to a query replaces the first, although "All objects that
registered for this event will be notified". An image bound before the variables of its query have values
is not bound at all. Keys of the cache are hashes of 32 bits: queries whose hashes
are equal get each other's answers.

### Fairness

`ServerGroup!Fairness`: the cleanup thread calls `evaluateServerGroup` every few
seconds (strong fairness, because it competes for the mutex), the holder of the
mutex goes on, a registration that waits for the mutex gets it, timers expire,
and a client that waits for a failing call returns. Nothing is assumed of
administrators, of successful client calls, or of crashes.

`ClientSessions!Fairness`: threads that wait for a lock get it, the worker comes
round to each client, and the evaluation of the group drops dead servers. The
upgrade of `clientsMutex` does not keep new readers out, and a thread that works
on a session keeps its server object alive: a load that never pauses could starve
both. So `[]<>` of an instant without readers, and without users of a given
server, are assumed.

`ServerManager!Fairness`: the cleanup thread goes on and comes round again, a
process that has started sends its registration and the handler goes through the
groups, and timers expire. Nothing is assumed of administrators and clients, nor of
the process that the removal of its group waits for.

`TileLocks!FairSpec`: a server executes its calls although its statements may have
to wait again and again (strong fairness), the database detects deadlocks, and a
transaction is ended by its client or, when that has gone, by the server, with or
without `unlockAllTiles` (strong fairness of `endTA \/ closeDB`, so that nothing is
assumed about which of the two it is).

`WidgetQueries!FairSpec`: the script that builds the page ends, callbacks of
storage and timers are called, requests end in one way or another, and time passes. Nothing is assumed of users.

## Proofs

Liveness under fairness (`MinAvailableKept`, `SilentClientsLeave`, `GroupsServe`,
`WaitsEnd`, `EvaluationsEnd` and the like) and the recursive function of `TileIntervals` stay with TLC. The theorems hold for any
number of servers, ports, clients, hosts, databases, groups, sessions,
administrators, tiles, widgets and evaluations; the assumptions on constants (the named
assumptions of each module) are evaluated by every run.

* `ServerGroup_proofs!TypeCorrect`: `TypeOK`, which is inductive. The lemmas
  about `%` and about the cardinality of the lists keep the unsigned counters in
  range.
* `ServerGroup_proofs!PortSafety`: `PortOwnership` if the administrator never
  changes the ports (`FixedPorts`) or no server is restarted (`NoRestarts`).
  `PortOwnership` speaks of processes; the code keeps lists. `PortInvariant`
  adds that a live process belongs to a listed server and that listed servers
  have different ports outside the pool. A change of ports replaces the pool, so
  it needs an empty group: `StoppedGroupDrains` (a stopped group holds only restarting
  servers and those that the evaluation inside `stop` is about to remove) is the
  conjunct for that, and it empties the group only without restarting servers. Hence the two
  hypotheses; with both features, a restarting server keeps a port that the new
  pool offers again.
* `ServerGroup_proofs!PoolRefinement`: `RefinesPortPool` under the same hypotheses
  and from the same invariant. Starting a server is a `Take`; each place of the code
  that removes servers from a list is a `Give` of the servers it removes, and
  `PoolGive` shows that the code has killed their processes by then; only
  `changeGroupConfig` is an `Exchange`, which is where `PortInvariant` has to
  provide a group without servers.
* `ServerGroup_proofs!StopKillsTheRest`: `StopSparesOnlyRestarting` for every
  configuration, countdowns and changes of ports included. It needs the parts of
  `PortInvariant` that hold without hypotheses: `StoppedGroupDrains` and that a live
  process belongs to a listed server.
* `ServerGroup_proofs!PortsSuffice`: `NeverOutOfPorts` if the ports are never
  changed or servers are never restarted, and there are fewer ports than the
  counters can count (16 bits against 32). How many servers to start is
  an unsigned difference between configured ports and listed servers. `RoomLeft`
  says that under a valid configuration the lists never outgrow the ports, so that
  the difference does not wrap, and that the loops leave room for what they have
  still to start; listed servers have different ports outside the pool
  (`PortInvariant`), so a configured port remains, and it is in the pool when the
  pool is complete. `PoolIsComplete` is part of the property because a change that
  fails after validation leaves a pool that is not.
* `ClientSessions_proofs!TypeCorrect` and `RecordedSafety`: `TypeOK` and
  `RecordedSessionsAreAssigned`, with every fault and with overlapping calls of
  one client, for any clients, sessions, servers and handlers. `IInv` adds what a
  thread relies on at each point of its call (`WorkOK`: its client is known, the
  server it holds has not been destroyed, the session it opens is assigned to that
  server, the session it releases is counted nowhere, an eviction has every counted
  session of its client before it), and what the locks achieve: `AssignedMutex`
  (one thread at a time changes the sessions of a client) and `OneEvictor`.
  `StepKeeps` reduces a step of one thread to what it does to the sessions that
  the others rely on.
* `ClientSessions_proofs!ExitSafety`: `CleanExit` for clients that wait for one
  call before the next and none of which falls silent (`Patient`); servers, calls
  and the database may fail. `EInv` adds that a client has one call at a time and
  that the servers count no session of a client about to be erased. Without
  `Sequential` a session that is being opened while its client is evicted stays
  behind, as listed above.
* `ClientSessions_proofs!SessionCapacity` and `ClientCapacity`:
  `SessionsWithinCapacity` and `ClientsWithinCapacity` when nothing fails, calls of
  a client do not overlap, the capacity is one, and the counter is wide enough for
  one client per handler thread and one more (`Calm`). The counter of a server is
  no count of its sessions: `isFree` and `isAvailable` overwrite it with what the
  process reports, at any time. `CInv` says what remains true: a server with
  counter zero has no session; its process knows the clients of its sessions, and
  beside them only clients that come or go, one thread at a time comes
  (`OneServerSearch`), and as many go as there are threads, so that the report of a
  server with a session is never zero. The capacity is a hypothesis because the
  statement is wrong for two: the process keeps a client once however many sessions
  it has, reports it once, and rasmgr hands out the place again. `rasmgrconfig.cc`
  sets one.
* `ClientSessions_proofs!LockOrder`: `NoLockCycle` for any number of threads. It
  needs no invariant: the set of locks that belongs to each point of a call decides.
  A thread that holds the `assignedServersMutex` of a client waits for nobody; those
  that want it wait only for such threads; a search for a server waits only for
  threads beyond it; an eviction that upgrades `clientsMutex` waits for opening and
  closing threads, never for another eviction (`WaitsForLater`).
* `ClientSessions_proofs!SessionRefinement`: `RefinesSessionTable` under `Calm`, from
  `IInv`, `EInv` and `CInv` together. `recordSession` has to find room and a client
  that is still present, several steps after the server was chosen: `CInv` keeps
  the counter of the chosen server at zero, a counter of zero means no session, and
  `WorkOK` keeps the client and the assignment that shows the session to be counted
  nowhere else. `EInv` lets an erased client leave without sessions.
* `DatabaseHosts_proofs!TypeCorrect` and `SessionSafety`: `TypeOK` and
  `OpenSessionsHaveDatabase`, from `SessionInvariant`, which adds that a session
  is recorded in one database and that one being opened is not open.
* `DatabaseHosts_proofs!SessionCountSafety`: `SessionsCounted`; adding or removing
  a session changes the set it counts by one element, and `RecordedOnce` shows
  that the loop over the databases of a host finds exactly one.
* `DatabaseHosts_proofs!GroupHostSafety`: `GroupHostsAreKept` if groups are never
  moved (`NoMoves`). `GroupInvariant` adds that `serverCount` is exactly the
  number of users of a host, which a failed move destroys.

* `ServerManager_proofs`: one inductive invariant, `IInv`, for five theorems.
  `IteratorSafety` (`CallsVisitListedGroups`) follows from the exclusive lock alone.
  `RemovalSafety` (the action property `RemovalSparesServers`) needs that a stopped
  group has no starting or running server (`StoppedGroupsAreIdle`). `StopSafety` (`StopTakesEffect`)
  speaks of ended calls; `StopsInProgress` says what is true on the way: a group
  that the call means is stopped or still before it, unless a group was started
  meanwhile. `SearchSafety` (`NoFreeServerMissed`) needs in the same way that the
  groups of the servers that have been free all along are still to be visited
  (`SearchInProgress`). `TypeCorrect` includes that a call in progress has a group
  to visit.
* `TileLocks_proofs!Refinement`: every step of `TileLocks` is a step of
  `TileLockTable` or leaves its variable alone. The mapping shows committed rows,
  so the commit has to be a `Grant`: `OneWriter` says that no two servers have an
  exclusive row for one tile, committed or not, which the unique constraint
  preserves at each insert. `LockedOrErrorHolds` needs `LockedSoFar` (the tiles a
  call has passed have visible rows) and `DeadlockNeedsErrorHolds` needs
  `LockedInOrder`: without an error, the uncommitted rows of a server are for
  tiles below those it has still to lock. `erred` stays true beyond `closeDB`, which
  leaves the rows where they are, until they are committed, deleted or lost. In a circle of waiting servers, the one
  whose next tile is the largest would then hold a larger one still; the proof
  takes the maximum over a finite set of tiles.
* `WidgetQueries_proofs!CacheCorrect` and `Spaced`: `CacheHoldsOwnAnswers`, for any
  function from texts to keys, and `RequestsSpaced`. The second needs `Timers`: the timers that run are at least
  `Delay` apart from each other and, but for its lateness, from the last request,
  none is set for a time after `RjRequestTime`, and that lies at most `Lateness`
  before the last request.
* `WidgetQueries_proofs!DisplayCorrect`: `DisplayFollowsInputs`. `DisplayInvariant`
  adds that nothing ends while the page is loaded, that the variables of the query
  follow the inputs it listens to, that the last evaluation asks for the values the
  inputs have (`LastAsksForValues`), and that, as long as no answer was lost,
  garbled, overtaken or mistaken for that of a query with the same hash code, the
  listener shows the latest answer there is (`ListenerShowsLatest`).

Every invariant, action property and refinement that a passing run checks is proved. Each strengthening was model-checked as an invariant on the
constants of the runs before it was proved.

## Not modelled

Peers, users and rights, the saved configuration, the command grammar, the gRPC
services (they convert messages and exceptions), the rasserver's streamed
results, and everything below the session: query language, storage, conversion,
client libraries, other applications, and the older manager in `src/rasmgr`.
Of the lock manager, `lockTile`, `unlockTile` and `isTileLocked` (no caller) and
`clearLockTable` (a maintenance command); of the web toolkit, drawing, charts,
maps, the binder that replaces the text of a query, and rasql queries, whose class
fires events without the trait that provides them. The libraries that
`applications/raswct` ships are not part of this program. `PROJECT.json` lists each
component with the reason.

## Plan

1. `Peers`: remote sessions between two instances of rasmgr, lost replies.
2. The rasserver's own client manager with streamed results.
3. Users, rights and the configuration: what is saved is what is loaded.
4. Theorems about 1 to 3.
