--------------------------- MODULE ServerManager ---------------------------
(***************************************************************************)
(* The server manager of rasmgr (rasmgr_x/src/servermanager.cc): the list  *)
(* of server groups and the calls that go through it, one group after the  *)
(* other.  A call holds serverGroupMutex shared for its whole length, so   *)
(* that several run side by side, each locking a group only while it       *)
(* visits it; defineServerGroup and removeServerGroup hold the mutex       *)
(* alone.  Callers are administrators, rasserver processes that register   *)
(* themselves, a client in search of a server (ClientManager lets one at a *)
(* time search) and the cleanup thread.                                    *)
(*                                                                         *)
(* A visit of a group is one step, reduced to what module ServerGroup      *)
(* shows of the operation: groupMutex is held throughout.  The sessions a  *)
(* server has had are not counted: in a group with a countdown any running *)
(* server may be due for a restart when the group is evaluated.            *)
(***************************************************************************)
EXTENDS Integers, Sequences, FiniteSets

CONSTANTS
  Group,         \* server groups, known by their names
  Server,        \* servers of the groups; one is reused once it is gone
  Owner,         \* the group each server belongs to
  Hosts,         \* for each host the set of groups that are on it
  Owning,        \* groups whose host has the database the client asks for
  Restarts,      \* groups whose servers are restarted: countdown > 0
  MinServers,    \* min_alive_server_no = min_available_server_no
  Admin,         \* administrators that issue commands concurrently
  Commands,      \* the commands each administrator may issue
  Client,        \* the client that searches for a server
  Worker,        \* the cleanup thread
  MaxFaults      \* bound: crashes and slow starts

VARIABLES
  serverGroupList, \* ServerManager::serverGroupList
  stopped,         \* ServerGroupImpl::stopped
  list,            \* the list of its group that holds the server
  state,           \* what the process of the server answers to isAvailable
  expired,         \* has the timer of a starting server expired?
  asked,           \* has the process sent its RegisterServer call?
  call,            \* the call each caller is in
  awaited,         \* servers whose end the removal of their group waits for
  faults,          \* number of faults so far (bound only)
  witness,         \* history: servers free ever since the search began
  quiet            \* history: no group started since the stop call began

serverVars == <<list, state, expired, asked>>
history == <<witness, quiet>>
vars == <<serverGroupList, stopped, serverVars, call, awaited, faults, history>>

-----------------------------------------------------------------------------
Caller == Admin \cup Server \cup {Client, Worker}

ASSUME ConstantsAssumption ==
  /\ IsFiniteSet(Server)
  /\ Owner \in [Server -> Group]
  /\ Hosts \subseteq SUBSET Group
  /\ Owning \subseteq Group
  /\ Restarts \subseteq Group
  /\ MinServers \in Nat
  /\ MaxFaults \in Nat
  /\ Client # Worker
  /\ {Client, Worker} \cap (Admin \cup Server) = {}
  /\ Admin \cap Server = {}

\* StartServerGroup and StopServerGroup name a group, a host or all groups.
Command ==
  [op : {"start", "stop"}, kind : {"name"}, groups : {{g} : g \in Group}]
    \cup [op : {"start", "stop"}, kind : {"host"}, groups : Hosts]
    \cup [op : {"start", "stop"}, kind : {"all"}, groups : {Group}]

ASSUME CommandsAssumption == Commands \in [Admin -> SUBSET Command]

Call == [op : {"none", "start", "stop", "register", "getFree", "evaluate"},
         kind : {"name", "host", "all"}, groups : SUBSET Group,
         rest : Seq(Group), checked : BOOLEAN,
         outcome : {"none", "stopped", "notFound"}]

\* What is left of a call that has ended.
Ended(groups, outcome) ==
  [op |-> "none", kind |-> "all", groups |-> groups, rest |-> <<>>,
   checked |-> FALSE, outcome |-> outcome]

NoCall == Ended({}, "none")

Elements(seq) == {seq[i] : i \in 1 .. Len(seq)}
Listed == Elements(serverGroupList)
Owned(g) == {s \in Server : Owner[s] = g}
MinOf(a, b) == IF a <= b THEN a ELSE b

Init ==
  /\ serverGroupList = <<>>
  /\ stopped = [g \in Group |-> TRUE]
  /\ list = [s \in Server |-> "none"]
  /\ state = [s \in Server |-> "silent"]
  /\ expired = [s \in Server |-> FALSE]
  /\ asked = [s \in Server |-> TRUE]
  /\ call = [c \in Caller |-> NoCall]
  /\ awaited = {}
  /\ faults = 0
  /\ witness = {}
  /\ quiet = [a \in Admin |-> FALSE]

-----------------------------------------------------------------------------
(* The shared lock of serverGroupMutex, which is not granted while a       *)
(* removal is under way, and the loop over the list.  A call that finds    *)
(* the list empty does nothing.                                            *)

\* Mutant: the loop is entered although the list is empty.
Begin_emptyList(c, op, kind, groups) ==
  /\ call[c].op = "none"
  /\ awaited = {}
  /\ call' = [call EXCEPT ![c] =
       [op |-> op, kind |-> kind, groups |-> groups, rest |-> serverGroupList,
        checked |-> FALSE, outcome |-> "none"]]

Begin(c, op, kind, groups) ==
  /\ call[c].op = "none"
  /\ awaited = {}
  /\ serverGroupList # <<>>
  /\ call' = [call EXCEPT ![c] =
       [op |-> op, kind |-> kind, groups |-> groups, rest |-> serverGroupList,
        checked |-> FALSE, outcome |-> "none"]]

Visits(c, op, g) == call[c].op = op /\ Head(call[c].rest) = g
Last(c) == Len(call[c].rest) = 1

\* The call ends, normally or with an exception.  Only the two answers that
\* the properties speak of are remembered.
Return(c, outcome) ==
  call' = [call EXCEPT ![c] =
    Ended(IF outcome = "stopped" THEN call[c].groups ELSE {}, outcome)]

\* On to the next group; after the last one the call ends.
Advance(c, outcome) ==
  IF Last(c) THEN Return(c, outcome)
  ELSE call' = [call EXCEPT ![c].rest = Tail(@), ![c].checked = FALSE]

RunningIn(g) == {s \in Owned(g) : list[s] = "running"}
RestartingIn(g) == {s \in Owned(g) : list[s] = "restarting"}
UnlistedIn(g) == {s \in Owned(g) : list[s] = "none"}

\* Servers of gone are killed and leave the lists, those of due wait to be
\* restarted, then n servers of the group are started.  A server object is
\* new: no call of an old process.
Replace(g, gone, due, n) ==
  \E new \in SUBSET (UnlistedIn(g) \cup gone) :
    /\ Cardinality(new) = n
    /\ \A s \in new : call[s].op = "none"
    /\ list' = [s \in Server |-> IF s \in new THEN "starting"
                                 ELSE IF s \in gone THEN "none"
                                 ELSE IF s \in due THEN "restarting" ELSE list[s]]
    /\ state' = [s \in Server |-> IF s \in new THEN "free"
                                  ELSE IF s \in gone THEN "silent" ELSE state[s]]
    /\ expired' = [s \in Server |-> expired[s] /\ s \notin new \cup gone]
    /\ asked' = [s \in Server |-> (asked[s] \/ s \in gone) /\ s \notin new]

\* The loop over the restarting servers: the servers of killed are found
\* free.  A server that does not answer is free when rasmgr counts no client
\* on it; else isFree throws and ends the evaluation of the group.
evaluateRestartingServers(waiting, killed, throws) ==
  /\ \A s \in killed : state[s] # "full"
  /\ throws <=> \E s \in waiting \ killed : state[s] = "silent"

FreeServers ==
  {s \in Server : list[s] = "running" /\ state[s] = "free"
                    /\ Owner[s] \in Owning \cap Listed}

Begins(c) == call[c].op = "none" /\ call'[c].op # "none"

\* The two history variables; part of every step.
Track ==
  /\ witness' = IF Begins(Client) THEN FreeServers'
                 ELSE IF call'[Client] = NoCall THEN {}
                 ELSE witness \cap FreeServers'
  /\ quiet' = [a \in Admin |->
       /\ call'[a].op = "stop" \/ call'[a].outcome = "stopped"
       /\ Begins(a) \/ (quiet[a] /\ \A g \in Group : stopped[g] => stopped'[g])]

-----------------------------------------------------------------------------
(* Calls of administrators.                                                *)

startServerGroup(a) ==
  /\ \E m \in Commands[a] : m.op = "start" /\ Begin(a, "start", m.kind, m.groups)
  /\ UNCHANGED <<serverGroupList, stopped, serverVars, awaited, faults>>
  /\ Track

stopServerGroup(a) ==
  /\ \E m \in Commands[a] : m.op = "stop" /\ Begin(a, "stop", m.kind, m.groups)
  /\ UNCHANGED <<serverGroupList, stopped, serverVars, awaited, faults>>
  /\ Track

\* A stop by name or host that met no group throws.
Outcome(a) ==
  IF call[a].op = "stop" /\ (call[a].kind = "all" \/ call[a].groups \cap Listed # {})
    THEN "stopped" ELSE "none"

\* A group the call does not mean, or one whose isStopped gives no reason to
\* act.  A group that is named is not asked.
passGroup(a, g) ==
  /\ \/ Visits(a, "start", g) /\ (g \notin call[a].groups
                                    \/ (call[a].kind # "name" /\ ~stopped[g]))
     \/ Visits(a, "stop", g) /\ (g \notin call[a].groups
                                   \/ (call[a].kind # "name" /\ stopped[g]))
  /\ ~call[a].checked
  /\ Advance(a, Outcome(a))
  /\ UNCHANGED <<serverGroupList, stopped, serverVars, awaited, faults>>
  /\ Track

\* isStopped says that there is something to do; the group's mutex is
\* released before start or stop takes it again.
isStopped(a, g) ==
  /\ \/ Visits(a, "start", g) /\ stopped[g]
     \/ Visits(a, "stop", g) /\ ~stopped[g]
  /\ g \in call[a].groups
  /\ call[a].kind # "name"
  /\ ~call[a].checked
  /\ call' = [call EXCEPT ![a].checked = TRUE]
  /\ UNCHANGED <<serverGroupList, stopped, serverVars, awaited, faults>>
  /\ Track

MayAct(a, g) == g \in call[a].groups /\ (call[a].checked \/ call[a].kind = "name")

\* ServerGroup::start is idempotent; a name ends the loop.  It throws when
\* restarting servers hold the ports it needs.
start(a, g) ==
  /\ Visits(a, "start", g)
  /\ MayAct(a, g)
  /\ IF stopped[g]
       THEN /\ stopped' = [stopped EXCEPT ![g] = FALSE]
            /\ Replace(g, {}, {}, MinOf(MinServers, Cardinality(UnlistedIn(g))))
       ELSE UNCHANGED <<stopped, serverVars>>
  /\ IF call[a].kind = "name" \/ (stopped[g] /\ Cardinality(UnlistedIn(g)) < MinServers)
       THEN Return(a, "none") ELSE Advance(a, "none")
  /\ UNCHANGED <<serverGroupList, awaited, faults>>
  /\ Track

\* The starting and the running servers of a group.
Active(g) == {s \in Owned(g) : list[s] \in {"starting", "running"}}

\* Mutant: the break after the first group that was stopped, which the
\* search for a name has, is in the other loops too.
stop_first(a, g) ==
  /\ Visits(a, "stop", g)
  /\ MayAct(a, g)
  /\ \/ /\ stopped[g]
        /\ Return(a, "none")
        /\ UNCHANGED <<stopped, serverVars>>
     \/ /\ ~stopped[g]
        /\ stopped' = [stopped EXCEPT ![g] = TRUE]
        /\ \E killed \in SUBSET RestartingIn(g), throws \in BOOLEAN :
             /\ evaluateRestartingServers(RestartingIn(g), killed, throws)
             /\ Replace(g, Active(g) \cup killed, {}, 0)
             /\ Return(a, IF throws THEN "none" ELSE "stopped")
  /\ UNCHANGED <<serverGroupList, awaited, faults>>
  /\ Track

\* ServerGroup::stop throws when another caller was quicker, and when the
\* evaluation at its end throws (the group is stopped all the same).  Of the
\* restarting servers only those found free by that evaluation are killed.
stop(a, g) ==
  /\ Visits(a, "stop", g)
  /\ MayAct(a, g)
  /\ \/ /\ stopped[g]
        /\ Return(a, "none")
        /\ UNCHANGED <<stopped, serverVars>>
     \/ /\ ~stopped[g]
        /\ stopped' = [stopped EXCEPT ![g] = TRUE]
        /\ \E killed \in SUBSET RestartingIn(g), throws \in BOOLEAN :
             /\ evaluateRestartingServers(RestartingIn(g), killed, throws)
             /\ Replace(g, Active(g) \cup killed, {}, 0)
             /\ IF throws THEN Return(a, "none")
                ELSE IF call[a].kind = "name" THEN Return(a, "stopped")
                ELSE Advance(a, "stopped")
  /\ UNCHANGED <<serverGroupList, awaited, faults>>
  /\ Track

\* The exclusive lock is granted when nobody holds the shared one.
Alone == awaited = {} /\ \A c \in Caller : call[c].op = "none"

defineServerGroup(g) ==
  /\ Alone
  /\ g \notin Listed
  /\ serverGroupList' = Append(serverGroupList, g)
  /\ stopped' = [stopped EXCEPT ![g] = TRUE]
  /\ UNCHANGED <<serverVars, call, awaited, faults>>
  /\ Track

\* The sequence without its i-th element, and the entries of a group.
Erase(seq, i) == [j \in 1 .. Len(seq) - 1 |-> IF j < i THEN seq[j] ELSE seq[j + 1]]
Positions(g) == {i \in 1 .. Len(serverGroupList) : serverGroupList[i] = g}

\* The destructor of the group kills the active servers.  The objects of the
\* restarting ones are destroyed too, and each waits for the end of its
\* process (waitpid), which nobody asks for, with serverGroupMutex held.
Destroy(g) ==
  /\ list' = [s \in Server |-> IF Owner[s] = g THEN "none" ELSE list[s]]
  /\ state' = [s \in Server |-> IF Owner[s] = g THEN "silent" ELSE state[s]]
  /\ expired' = [s \in Server |-> expired[s] /\ Owner[s] # g]
  /\ asked' = [s \in Server |-> asked[s] \/ Owner[s] = g]
  /\ awaited' = RestartingIn(g)

\* Mutant: the list is changed under the shared lock.
removeServerGroup_shared(g) ==
  /\ awaited = {}
  /\ \E i \in Positions(g) : serverGroupList' = Erase(serverGroupList, i)
  /\ stopped[g]
  /\ Destroy(g)
  /\ UNCHANGED <<stopped, call, faults>>
  /\ Track

\* Mutant: isStopped is not asked.
removeServerGroup_running(g) ==
  /\ Alone
  /\ \E i \in Positions(g) : serverGroupList' = Erase(serverGroupList, i)
  /\ Destroy(g)
  /\ UNCHANGED <<stopped, call, faults>>
  /\ Track

removeServerGroup(g) ==
  /\ Alone
  /\ \E i \in Positions(g) : serverGroupList' = Erase(serverGroupList, i)
  /\ stopped[g]
  /\ Destroy(g)
  /\ UNCHANGED <<stopped, call, faults>>
  /\ Track

administrator(a) ==
  \/ startServerGroup(a) \/ stopServerGroup(a)
  \/ \E g \in Group : passGroup(a, g) \/ isStopped(a, g) \/ start(a, g) \/ stop(a, g)

-----------------------------------------------------------------------------
(* RegisterServer, which a rasserver process calls once.  The process ends *)
(* when the call fails.                                                    *)

registerServer(s) ==
  /\ list[s] = "starting"
  /\ state[s] # "silent"
  /\ ~asked[s]
  /\ Begin(s, "register", "all", Group)
  /\ asked' = [asked EXCEPT ![s] = TRUE]
  /\ UNCHANGED <<serverGroupList, stopped, list, state, expired, awaited, faults>>
  /\ Track

\* A group that is not stopped either has the server or does not.
tryRegisterServer(s, g) ==
  /\ Visits(s, "register", g)
  /\ ~stopped[g]
  /\ \/ /\ Owner[s] = g /\ list[s] = "starting"
        /\ list' = [list EXCEPT ![s] = "running"]
        /\ Return(s, "none")
     \/ /\ ~(Owner[s] = g /\ list[s] = "starting")
        /\ ~Last(s)
        /\ Advance(s, "none")
        /\ UNCHANGED list
  /\ UNCHANGED <<serverGroupList, stopped, state, expired, asked, awaited, faults>>
  /\ Track

\* A stopped group throws, whether or not the server is one of its own; or
\* the last group does not know the server either.
registrationFails(s, g) ==
  /\ Visits(s, "register", g)
  /\ \/ stopped[g]
     \/ Last(s) /\ ~(Owner[s] = g /\ list[s] = "starting")
  /\ Return(s, "none")
  /\ state' = [state EXCEPT ![s] = "silent"]
  /\ UNCHANGED <<serverGroupList, stopped, list, expired, asked, awaited, faults>>
  /\ Track

registration(s) ==
  \/ registerServer(s)
  \/ \E g \in Group : tryRegisterServer(s, g) \/ registrationFails(s, g)

-----------------------------------------------------------------------------
(* tryGetFreeServer.                                                       *)

tryGetFreeServer ==
  /\ Begin(Client, "getFree", "all", Group)
  /\ UNCHANGED <<serverGroupList, stopped, serverVars, awaited, faults>>
  /\ Track

\* Mutant: the answer of the first group is the answer.
tryGetAvailableServer_first(g) ==
  /\ Visits(Client, "getFree", g)
  /\ \/ /\ g \in Owning
        /\ \E s \in RunningIn(g) : state[s] # "full"
        /\ Return(Client, "none")
     \/ /\ g \in Owning => \A s \in RunningIn(g) : state[s] = "full"
        /\ Return(Client, "notFound")
  /\ UNCHANGED <<serverGroupList, stopped, serverVars, awaited, faults>>
  /\ Track

\* isAvailable of a server that does not answer throws, unless rasmgr knows
\* without asking that it has room for a client.
tryGetAvailableServer(g) ==
  /\ Visits(Client, "getFree", g)
  /\ \/ /\ g \in Owning
        /\ \E s \in RunningIn(g) : state[s] # "full"
        /\ Return(Client, "none")
     \/ /\ g \in Owning
        /\ \E s \in RunningIn(g) : state[s] = "silent"
        /\ Return(Client, "none")
     \/ /\ g \in Owning => \A s \in RunningIn(g) : state[s] = "full"
        /\ Advance(Client, "notFound")
  /\ UNCHANGED <<serverGroupList, stopped, serverVars, awaited, faults>>
  /\ Track

search == tryGetFreeServer \/ \E g \in Group : tryGetAvailableServer(g)

-----------------------------------------------------------------------------
(* The cleanup thread.                                                     *)

workerCleanupRunner ==
  /\ Begin(Worker, "evaluate", "all", Group)
  /\ UNCHANGED <<serverGroupList, stopped, serverVars, awaited, faults>>
  /\ Track

Dead(g) ==
  {s \in Owned(g) : \/ list[s] = "running" /\ state[s] = "silent"
                    \/ list[s] = "starting" /\ expired[s]}

\* Running servers that may have used up their sessions.
MustRestart(g) ==
  {s \in RunningIn(g) : g \in Restarts /\ state[s] # "silent"}

\* evaluateGroup starts servers until enough are available or none is left.
Missing(g, gone, due) ==
  LET available == {s \in RunningIn(g) \ due : state[s] = "free"}
  IN IF Cardinality(available) >= MinServers THEN 0
     ELSE MinOf(MinServers - Cardinality(available),
                Cardinality(UnlistedIn(g) \cup gone))

\* removeDeadServers, evaluateRestartingServers and, unless the group is
\* stopped or isFree threw, the start of missing servers.
evaluateGroup(g, due, killed, throws) ==
  LET gone == Dead(g) \cup killed
  IN /\ evaluateRestartingServers(RestartingIn(g) \cup due, killed, throws)
     /\ Replace(g, gone, due, IF stopped[g] \/ throws THEN 0 ELSE Missing(g, gone, due))

\* Mutant: the exception ends the loop over the groups.
evaluateServerGroups_uncaught(g) ==
  /\ Visits(Worker, "evaluate", g)
  /\ \E due \in SUBSET MustRestart(g), throws \in BOOLEAN :
       \E killed \in SUBSET (RestartingIn(g) \cup due) :
         /\ evaluateGroup(g, due, killed, throws)
         /\ IF throws THEN Return(Worker, "none") ELSE Advance(Worker, "none")
  /\ UNCHANGED <<serverGroupList, stopped, awaited, faults>>
  /\ Track

\* An exception is caught: the next group is evaluated.
evaluateServerGroups(g) ==
  /\ Visits(Worker, "evaluate", g)
  /\ \E due \in SUBSET MustRestart(g), throws \in BOOLEAN :
       \E killed \in SUBSET (RestartingIn(g) \cup due) :
         evaluateGroup(g, due, killed, throws)
  /\ Advance(Worker, "none")
  /\ UNCHANGED <<serverGroupList, stopped, awaited, faults>>
  /\ Track

cleanup == workerCleanupRunner \/ \E g \in Group : evaluateServerGroups(g)

-----------------------------------------------------------------------------
(* The environment.                                                        *)

\* Clients come to a server and leave it.
loadChanges(s) ==
  /\ list[s] \in {"running", "restarting"}
  /\ state[s] # "silent"
  /\ state' = [state EXCEPT ![s] = IF @ = "free" THEN "full" ELSE "free"]
  /\ UNCHANGED <<serverGroupList, stopped, list, expired, asked, call, awaited, faults>>
  /\ Track

processFails(s) ==
  /\ faults < MaxFaults
  /\ list[s] # "none"
  /\ state[s] # "silent"
  /\ state' = [state EXCEPT ![s] = "silent"]
  /\ faults' = faults + 1
  /\ UNCHANGED <<serverGroupList, stopped, list, expired, asked, call, awaited>>
  /\ Track

\* The timer of a dead server, or of one that is slow to register.
timerExpires(s) ==
  /\ list[s] = "starting"
  /\ ~expired[s]
  /\ expired' = [expired EXCEPT ![s] = TRUE]
  /\ \/ state[s] = "silent" /\ UNCHANGED faults
     \/ state[s] # "silent" /\ faults < MaxFaults /\ faults' = faults + 1
  /\ UNCHANGED <<serverGroupList, stopped, list, state, asked, call, awaited>>
  /\ Track

\* The process of a server whose group was removed ends.
awaitedEnds(s) ==
  /\ s \in awaited
  /\ awaited' = awaited \ {s}
  /\ UNCHANGED <<serverGroupList, stopped, serverVars, call, faults>>
  /\ Track

environment(s) ==
  loadChanges(s) \/ processFails(s) \/ timerExpires(s) \/ awaitedEnds(s)

Next ==
  \/ \E a \in Admin : administrator(a)
  \/ \E g \in Group : defineServerGroup(g) \/ removeServerGroup(g)
  \/ \E s \in Server : registration(s) \/ environment(s)
  \/ search
  \/ cleanup

Spec == Init /\ [][Next]_vars

(***************************************************************************)
(* The cleanup thread and the threads of registering servers keep running  *)
(* and timers expire.  Administrators and clients owe nothing, and neither *)
(* does the process of a server whose group was removed.                   *)
(***************************************************************************)
Fairness ==
  /\ WF_vars(cleanup)
  /\ \A s \in Server : /\ WF_vars(registration(s))
                       /\ WF_vars(timerExpires(s))

FairSpec == Spec /\ Fairness

-----------------------------------------------------------------------------
(* Properties.                                                             *)

TypeOK ==
  /\ serverGroupList \in Seq(Group)
  /\ stopped \in [Group -> BOOLEAN]
  /\ list \in [Server -> {"none", "starting", "running", "restarting"}]
  /\ state \in [Server -> {"free", "full", "silent"}]
  /\ expired \in [Server -> BOOLEAN]
  /\ asked \in [Server -> BOOLEAN]
  /\ call \in [Caller -> Call]
  /\ awaited \in SUBSET Server
  /\ faults \in 0 .. MaxFaults
  /\ witness \in SUBSET Server
  /\ quiet \in [Admin -> BOOLEAN]
  /\ \A c \in Caller :
       /\ call[c].op = "none" <=> call[c].rest = <<>>
       /\ call[c].checked => call[c].op \in {"start", "stop"}
       /\ call[c].op # "none" => call[c].outcome = "none"

\* No call stands on an entry of serverGroupList that was erased: the
\* groups a call has still to visit are in the list.
CallsVisitListedGroups ==
  \A c \in Caller : Elements(call[c].rest) \subseteq Listed

\* After a stopServerGroup that returned without an exception, and until a
\* group is started again, every group it meant is stopped and has no
\* starting or running server, whatever registrations, other administrators
\* and the cleanup thread did meanwhile.  (Servers that wait for their last
\* clients to be restarted stay.)
StopTakesEffect ==
  \A a \in Admin :
    (call[a].op = "none" /\ call[a].outcome = "stopped" /\ quiet[a]) =>
      \A g \in call[a].groups \cap Listed :
        stopped[g] /\ \A s \in Owned(g) : list[s] \in {"none", "restarting"}

\* The removal of a group takes no server down that is starting or running:
\* when the group goes, it has none.
RemovalSparesServers ==
  [][\A g \in Listed \ Listed' : \A s \in Owned(g) : list[s] \in {"none", "restarting"}]_vars

\* The parts that make these inductive: a stopped group has only restarting
\* servers, a group that is not in the list is stopped, and a stop call has
\* only groups it has yet to visit left that are not stopped.
StoppedGroupsAreIdle ==
  \A s \in Server : stopped[Owner[s]] => list[s] \in {"none", "restarting"}

UnlistedGroupsAreStopped == \A g \in Group \ Listed : stopped[g]

NamesOneGroup ==
  \A a \in Admin : call[a].kind = "name" => \E g \in Group : call[a].groups = {g}

StopsInProgress ==
  \A a \in Admin :
    ((call[a].op = "stop" \/ call[a].outcome = "stopped") /\ quiet[a]) =>
      \A g \in call[a].groups \cap Listed :
        stopped[g] \/ g \in Elements(call[a].rest)

\* When tryGetFreeServer finds nothing, no server was free during the whole
\* search, although groups were stopped, started and evaluated beside it.
NoFreeServerMissed == call[Client].outcome = "notFound" => witness = {}

\* The part that makes it inductive: the groups of the servers that have
\* been free all along are still to be visited.
SearchInProgress ==
  /\ witness \subseteq FreeServers
  /\ call[Client].op = "getFree" =>
       \A s \in witness : Owner[s] \in Elements(call[Client].rest)

IInv ==
  /\ TypeOK
  /\ CallsVisitListedGroups
  /\ StoppedGroupsAreIdle
  /\ UnlistedGroupsAreStopped
  /\ NamesOneGroup
  /\ StopsInProgress
  /\ SearchInProgress
  /\ NoFreeServerMissed

StoppedBefore(g) ==
  \E i, j \in 1 .. Len(serverGroupList) :
    i < j /\ serverGroupList[j] = g /\ stopped[serverGroupList[i]]

\* Every group that is not stopped has a running server again and again,
\* even when the evaluation of another group throws each time, as long as
\* none that comes before it in the list is stopped, none of its own servers
\* waits to be restarted and no removal waits for the end of a process.
GroupsServe ==
  \A g \in Group :
    []<>( \/ g \notin Listed \/ stopped[g] \/ StoppedBefore(g)
          \/ RestartingIn(g) # {} \/ awaited # {}
          \/ RunningIn(g) # {} )

\* The registration of a starting server of a group that is not stopped is
\* not answered with an error.
RegistrationAccepted ==
  [][\A s \in Server :
       ( /\ call[s].op = "register"
         /\ call'[s].op = "none"
         /\ list[s] = "starting"
         /\ ~stopped[Owner[s]] )
       => list'[s] = "running"]_vars
=============================================================================
