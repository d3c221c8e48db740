------------------------ MODULE ServerManager_proofs ------------------------
(***************************************************************************)
(* Proofs about ServerManager, for any groups, servers, administrators and *)
(* commands.  The inductive invariant IInv is in ServerManager.  A step    *)
(* does two things that are treated apart: a caller begins, goes on with   *)
(* or ends its call, and a group or its servers change.                    *)
(***************************************************************************)
EXTENDS ServerManager, FiniteSetTheorems, SequenceTheorems, TLAPS

-----------------------------------------------------------------------------
(* Sequences.                                                              *)

LEMMA TailElements ==
  ASSUME NEW seq \in Seq(Group), seq # <<>>
  PROVE /\ Tail(seq) \in Seq(Group)
        /\ Head(seq) \in Elements(seq)
        /\ Elements(Tail(seq)) \subseteq Elements(seq)
        /\ \A g \in Elements(seq) : g = Head(seq) \/ g \in Elements(Tail(seq))
        /\ Len(seq) = 1 => Tail(seq) = <<>>
        /\ Len(seq) # 1 => Tail(seq) # <<>>
<1>1. /\ Len(seq) \in Nat /\ Len(seq) >= 1
      /\ Tail(seq) \in Seq(Group)
      /\ Head(seq) = seq[1]
      /\ Len(Tail(seq)) = Len(seq) - 1
      /\ \A i \in 1 .. Len(seq) - 1 : Tail(seq)[i] = seq[i + 1]
  OBVIOUS
<1>2. \A g \in Elements(Tail(seq)) : g \in Elements(seq)
  BY <1>1 DEF Elements
<1>3. \A g \in Elements(seq) : g = Head(seq) \/ g \in Elements(Tail(seq))
  <2> SUFFICES ASSUME NEW g \in Elements(seq), g # Head(seq)
               PROVE g \in Elements(Tail(seq))
    OBVIOUS
  <2>1. PICK i \in 1 .. Len(seq) : g = seq[i]
    BY DEF Elements
  <2>2. i - 1 \in 1 .. Len(Tail(seq)) /\ Tail(seq)[i - 1] = g
    BY <1>1, <2>1
  <2> QED
    BY <2>2 DEF Elements
<1>4. Head(seq) \in Elements(seq)
  BY <1>1 DEF Elements
<1>5. Len(seq) = 1 => Tail(seq) = <<>>
  <2>1. \A t \in Seq(Group) : t # <<>> => Len(t) \in Nat \ {0}
    BY EmptySeq
  <2>2. Tail(seq) # <<>> => Len(Tail(seq)) \in Nat \ {0}
    BY <1>1, <2>1, Zenon
  <2> QED
    BY <1>1, <2>2
<1>6. Len(seq) # 1 => Tail(seq) # <<>>
  BY <1>1
<1> QED
  BY <1>1, <1>2, <1>3, <1>4, <1>5, <1>6

LEMMA NoElements == Elements(<<>>) = {}
  BY DEF Elements

LEMMA AppendElements ==
  ASSUME NEW seq \in Seq(Group), NEW g \in Group
  PROVE /\ Append(seq, g) \in Seq(Group)
        /\ Elements(Append(seq, g)) = Elements(seq) \cup {g}
  BY DEF Elements

LEMMA EraseElements ==
  ASSUME NEW seq \in Seq(Group), NEW i \in 1 .. Len(seq)
  PROVE /\ Erase(seq, i) \in Seq(Group)
        /\ Elements(Erase(seq, i)) \subseteq Elements(seq)
        /\ \A h \in Elements(seq) : h = seq[i] \/ h \in Elements(Erase(seq, i))
<1> DEFINE new == Erase(seq, i)
<1>1. Len(seq) \in Nat /\ Len(seq) >= 1 /\ \A j \in 1 .. Len(seq) : seq[j] \in Group
  OBVIOUS
<1>2. new \in [1 .. Len(seq) - 1 -> Group]
  BY <1>1 DEF Erase
<1>3. new \in Seq(Group) /\ Len(new) = Len(seq) - 1
  <2>1. Len(seq) - 1 \in Nat
    BY <1>1
  <2> HIDE DEF new
  <2> QED
    BY <1>2, <2>1
<1>4. \A j \in 1 .. Len(seq) - 1 : new[j] = IF j < i THEN seq[j] ELSE seq[j + 1]
  BY DEF Erase
<1> HIDE DEF new
<1>5. Elements(new) \subseteq Elements(seq)
  BY <1>1, <1>3, <1>4 DEF Elements
<1>6. \A h \in Elements(seq) : h = seq[i] \/ h \in Elements(new)
  <2> SUFFICES ASSUME NEW j \in 1 .. Len(seq), seq[j] # seq[i]
               PROVE seq[j] \in Elements(new)
    BY DEF Elements
  <2>1. CASE j < i
    <3>1. j \in 1 .. Len(new) /\ new[j] = seq[j]
      BY <1>1, <1>3, <1>4, <2>1
    <3> QED
      BY <3>1 DEF Elements
  <2>2. CASE j > i
    <3>1. j - 1 \in 1 .. Len(new) /\ new[j - 1] = seq[j]
      BY <1>1, <1>3, <1>4, <2>2
    <3> QED
      BY <3>1 DEF Elements
  <2> QED
    BY <1>1, <2>1, <2>2
<1> QED
  BY <1>3, <1>5, <1>6 DEF new

-----------------------------------------------------------------------------
(* The calls.                                                              *)

Outcomes == {"none", "stopped", "notFound"}

\* The parts of the invariant that only speak of calls and of the list.
CallsOK ==
  /\ call \in [Caller -> Call]
  /\ \A c \in Caller :
       /\ call[c].op = "none" <=> call[c].rest = <<>>
       /\ call[c].checked => call[c].op \in {"start", "stop"}
       /\ call[c].op # "none" => call[c].outcome = "none"
  /\ CallsVisitListedGroups
  /\ NamesOneGroup

LEMMA InvCalls == IInv => CallsOK /\ serverGroupList \in Seq(Group)
  BY DEF IInv, TypeOK, CallsOK

LEMMA BeginKeeps ==
  ASSUME IInv, NEW c \in Caller, NEW op \in {"start", "stop", "register", "getFree", "evaluate"},
         NEW kind \in {"name", "host", "all"}, NEW groups \in SUBSET Group,
         kind = "name" => \E g \in Group : groups = {g},
         Begin(c, op, kind, groups), UNCHANGED serverGroupList
  PROVE /\ CallsOK'
        /\ call[c].op = "none" /\ call'[c].op = op /\ call'[c].groups = groups
        /\ call'[c].rest = serverGroupList /\ call'[c].outcome = "none"
        /\ \A d \in Caller : d # c => call'[d] = call[d]
<1> DEFINE new == [op |-> op, kind |-> kind, groups |-> groups, rest |-> serverGroupList,
                   checked |-> FALSE, outcome |-> "none"]
<1>1. new \in Call
  BY InvCalls DEF Call
<1>2. call' = [call EXCEPT ![c] = new] /\ serverGroupList # <<>> /\ call[c].op = "none"
  BY DEF Begin
<1>3. call'[c] = new /\ \A d \in Caller : d # c => call'[d] = call[d]
  BY <1>2, InvCalls DEF CallsOK
<1>4. call' \in [Caller -> Call]
  BY <1>1, <1>2, InvCalls DEF CallsOK
<1>5. CallsVisitListedGroups'
  BY <1>3, InvCalls DEF CallsOK, CallsVisitListedGroups, Listed
<1>6. NamesOneGroup'
  BY <1>3, InvCalls DEF CallsOK, NamesOneGroup, Caller
<1> QED
  BY <1>2, <1>3, <1>4, <1>5, <1>6, InvCalls DEF CallsOK

LEMMA ReturnKeeps ==
  ASSUME IInv, NEW c \in Caller, NEW outcome \in Outcomes, Return(c, outcome),
         UNCHANGED serverGroupList
  PROVE /\ CallsOK'
        /\ call'[c].op = "none" /\ call'[c].rest = <<>> /\ call'[c].outcome = outcome
        /\ outcome = "stopped" => call'[c].groups = call[c].groups
        /\ outcome = "none" => call'[c] = NoCall
        /\ \A d \in Caller : d # c => call'[d] = call[d]
<1> DEFINE kept == IF outcome = "stopped" THEN call[c].groups ELSE {}
<1> DEFINE new == Ended(kept, outcome)
<1>1. kept \in SUBSET Group
  BY InvCalls DEF CallsOK, Call
<1> HIDE DEF kept
<1>3. new \in Call
  BY <1>1 DEF Call, Outcomes, Ended
<1>2. /\ new.op = "none" /\ new.kind = "all" /\ new.groups = kept
      /\ new.rest = <<>> /\ new.checked = FALSE /\ new.outcome = outcome
  BY DEF Ended
<1>10. outcome = "none" => kept = {}
  BY DEF kept
<1>4. call' = [call EXCEPT ![c] = new]
  BY DEF Return, kept
<1>9. outcome = "none" => new = NoCall
  BY <1>10 DEF NoCall
<1> HIDE DEF new
<1>5. call'[c] = new /\ \A d \in Caller : d # c => call'[d] = call[d]
  BY <1>4, InvCalls DEF CallsOK
<1>6. call' \in [Caller -> Call]
  BY <1>3, <1>4, InvCalls DEF CallsOK
<1>7. CallsVisitListedGroups'
  BY <1>2, <1>5, InvCalls, NoElements DEF CallsOK, CallsVisitListedGroups, Listed
<1>8. NamesOneGroup'
  BY <1>2, <1>5, InvCalls DEF CallsOK, NamesOneGroup, Caller
<1> QED
  <2>1. /\ call'[c].op = "none" /\ call'[c].rest = <<>> /\ ~call'[c].checked
        /\ call'[c].outcome = outcome /\ call'[c].groups = kept
    BY <1>2, <1>5
  <2>2. CallsOK'
    BY <2>1, <1>5, <1>6, <1>7, <1>8, InvCalls DEF CallsOK
  <2> QED
    BY <2>1, <2>2, <1>5, <1>9 DEF kept

LEMMA AdvanceKeeps ==
  ASSUME IInv, NEW c \in Caller, NEW outcome \in Outcomes, Advance(c, outcome),
         call[c].op # "none", UNCHANGED serverGroupList
  PROVE /\ CallsOK'
        /\ call'[c].rest = Tail(call[c].rest)
        /\ \/ Return(c, outcome)
           \/ /\ call'[c].op = call[c].op /\ call'[c].groups = call[c].groups
              /\ call'[c].outcome = call[c].outcome
        /\ \A d \in Caller : d # c => call'[d] = call[d]
<1>1. call[c].rest \in Seq(Group) /\ call[c].rest # <<>>
  BY InvCalls DEF CallsOK, Call
<1>2. CASE Last(c)
  <2>1. Return(c, outcome)
    BY <1>2 DEF Advance
  <2>2. Tail(call[c].rest) = <<>>
    BY <1>1, <1>2, TailElements DEF Last
  <2> QED
    BY <2>1, <2>2, ReturnKeeps
<1>3. CASE ~Last(c)
  <2> DEFINE new == [call[c] EXCEPT !.rest = Tail(call[c].rest), !.checked = FALSE]
  <2>1. call' = [call EXCEPT ![c] = new]
    BY <1>3 DEF Advance
  <2>2. /\ Tail(call[c].rest) \in Seq(Group) /\ Tail(call[c].rest) # <<>>
        /\ Elements(Tail(call[c].rest)) \subseteq Elements(call[c].rest)
    BY <1>1, <1>3, TailElements DEF Last
  <2>3. /\ new \in Call /\ new.rest = Tail(call[c].rest) /\ new.checked = FALSE
        /\ new.op = call[c].op /\ new.groups = call[c].groups
        /\ new.outcome = call[c].outcome /\ new.kind = call[c].kind
    BY <2>2, InvCalls DEF CallsOK, Call
  <2> HIDE DEF new
  <2>4. call'[c] = new /\ \A d \in Caller : d # c => call'[d] = call[d]
    BY <2>1, InvCalls DEF CallsOK
  <2>5. call' \in [Caller -> Call]
    BY <2>1, <2>3, InvCalls DEF CallsOK
  <2>6. CallsVisitListedGroups'
    BY <2>2, <2>3, <2>4, InvCalls DEF CallsOK, CallsVisitListedGroups, Listed
  <2>7. NamesOneGroup'
    BY <2>3, <2>4, InvCalls DEF CallsOK, NamesOneGroup, Caller
  <2> QED
    BY <2>2, <2>3, <2>4, <2>5, <2>6, <2>7, InvCalls DEF CallsOK
<1> QED
  BY <1>2, <1>3

-----------------------------------------------------------------------------
(* The groups, their servers and the history variables.                    *)

ListKind == {"none", "starting", "running", "restarting"}

\* The parts of the invariant that speak of the other variables.
GroupsOK ==
  /\ serverGroupList \in Seq(Group)
  /\ stopped \in [Group -> BOOLEAN]
  /\ list \in [Server -> ListKind]
  /\ state \in [Server -> {"free", "full", "silent"}]
  /\ expired \in [Server -> BOOLEAN]
  /\ asked \in [Server -> BOOLEAN]
  /\ awaited \in SUBSET Server
  /\ faults \in 0 .. MaxFaults
  /\ StoppedGroupsAreIdle
  /\ UnlistedGroupsAreStopped

HistoryOK ==
  /\ witness \in SUBSET Server
  /\ quiet \in [Admin -> BOOLEAN]

SearchOK == SearchInProgress /\ NoFreeServerMissed

LEMMA InvParts ==
  IInv <=> CallsOK /\ GroupsOK /\ HistoryOK /\ StopsInProgress /\ SearchOK
  BY DEF IInv, TypeOK, CallsOK, GroupsOK, ListKind, HistoryOK, SearchOK

LEMMA InvNext ==
  (CallsOK /\ GroupsOK /\ HistoryOK /\ StopsInProgress /\ SearchOK)' => IInv'
  BY DEF IInv, TypeOK, CallsOK, GroupsOK, ListKind, HistoryOK, SearchOK

LEMMA TrackTypes == Track => HistoryOK'
  BY DEF Track, HistoryOK, FreeServers

LEMMA OwnerType == \A s \in Server : Owner[s] \in Group
  BY ConstantsAssumption

LEMMA Callers ==
  /\ \A a \in Admin : a \in Caller /\ a # Client /\ a # Worker
  /\ \A s \in Server : s \in Caller /\ s \notin Admin /\ s # Client
  /\ Client \in Caller /\ Client \notin Admin
  /\ Worker \in Caller /\ Worker \notin Admin /\ Worker # Client
  BY ConstantsAssumption DEF Caller

\* Steps that leave the client's call alone.
LEMMA SearchUntouched ==
  ASSUME IInv, Track, call'[Client] = call[Client]
  PROVE SearchOK'
<1>1. ~Begins(Client)
  BY DEF Begins
<1>2. witness' \subseteq witness /\ witness' \subseteq FreeServers'
  BY <1>1 DEF Track
<1>3. NoFreeServerMissed'
  BY <1>2 DEF IInv, NoFreeServerMissed
<1>4. SearchInProgress'
  BY <1>2 DEF IInv, SearchInProgress
<1> QED
  BY <1>3, <1>4 DEF SearchOK

\* Steps in which at most one administrator's call changes.
LEMMA StopsKept ==
  ASSUME IInv, Track, \A g \in Listed' \ Listed : stopped'[g],
         NEW a,
         \A d \in Admin : d # a => call'[d] = call[d],
         a \in Admin =>
           (((call'[a].op = "stop" \/ call'[a].outcome = "stopped") /\ quiet'[a]) =>
              \A g \in call'[a].groups \cap Listed' :
                stopped'[g] \/ g \in Elements(call'[a].rest))
  PROVE StopsInProgress'
<1> SUFFICES ASSUME NEW d \in Admin, d # a,
                    call'[d].op = "stop" \/ call'[d].outcome = "stopped", quiet'[d],
                    NEW g \in call'[d].groups \cap Listed'
             PROVE stopped'[g] \/ g \in Elements(call'[d].rest)
  BY DEF StopsInProgress
<1>1. call'[d] = call[d] /\ ~Begins(d)
  BY DEF Begins
<1>2. quiet[d] /\ \A h \in Group : stopped[h] => stopped'[h]
  BY <1>1 DEF Track
<1>3. CASE g \in Listed
  <2>1. stopped[g] \/ g \in Elements(call[d].rest)
    BY <1>1, <1>2, <1>3 DEF IInv, StopsInProgress
  <2>2. g \in Group
    BY <1>1, Callers, InvCalls DEF CallsOK, Call
  <2> QED
    BY <1>1, <1>2, <2>1, <2>2
<1>4. CASE g \notin Listed
  BY <1>4
<1> QED
  BY <1>3, <1>4

\* What starting and killing servers of a group does to its lists.
LEMMA ReplaceKeeps ==
  ASSUME IInv, NEW g \in Group, NEW gone, NEW due,
         gone \subseteq Owned(g), NEW n \in Nat, Replace(g, gone, due, n)
  PROVE /\ list' \in [Server -> ListKind]
        /\ state' \in [Server -> {"free", "full", "silent"}]
        /\ expired' \in [Server -> BOOLEAN]
        /\ asked' \in [Server -> BOOLEAN]
        /\ \A s \in Server : \/ list'[s] = list[s]
                             \/ list'[s] \in {"none", "restarting"}
                             \/ Owner[s] = g /\ n # 0
        /\ n = 0 => \A s \in gone : list'[s] = "none"
<1>1. PICK new \in SUBSET (UnlistedIn(g) \cup gone) :
        /\ Cardinality(new) = n
        /\ list' = [s \in Server |-> IF s \in new THEN "starting"
                                 ELSE IF s \in gone THEN "none"
                                 ELSE IF s \in due THEN "restarting" ELSE list[s]]
        /\ state' = [s \in Server |-> IF s \in new THEN "free"
                                  ELSE IF s \in gone THEN "silent" ELSE state[s]]
        /\ expired' = [s \in Server |-> expired[s] /\ s \notin new \cup gone]
        /\ asked' = [s \in Server |-> (asked[s] \/ s \in gone) /\ s \notin new]
  BY DEF Replace
<1>2. new \subseteq Owned(g) /\ Owned(g) \subseteq Server
  BY <1>1 DEF Owned, UnlistedIn
<1>3. n = 0 => new = {}
  <2>1. IsFiniteSet(new)
    BY <1>2, ConstantsAssumption, FS_Subset
  <2> QED
    BY <1>1, <2>1, FS_EmptySet
<1>4. GroupsOK
  BY InvParts
<1>5. expired' \in [Server -> BOOLEAN] /\ asked' \in [Server -> BOOLEAN]
  BY <1>1
<1>6. /\ list' \in [Server -> ListKind]
      /\ state' \in [Server -> {"free", "full", "silent"}]
  BY <1>1, <1>4 DEF GroupsOK, ListKind
<1>7. \A s \in Server : \/ list'[s] = list[s]
                        \/ list'[s] \in {"none", "restarting"}
                        \/ Owner[s] = g /\ n # 0
  BY <1>1, <1>2, <1>3 DEF Owned
<1>8. n = 0 => \A s \in gone : list'[s] = "none"
  BY <1>1, <1>2, <1>3
<1> QED
  BY <1>5, <1>6, <1>7, <1>8

-----------------------------------------------------------------------------
(* Every action keeps the invariant.                                       *)

LEMMA InvInit == Init => IInv
<1> SUFFICES ASSUME Init PROVE IInv
  OBVIOUS
<1>1. /\ NoCall \in Call /\ NoCall.op = "none" /\ NoCall.rest = <<>>
      /\ NoCall.kind = "all" /\ NoCall.checked = FALSE /\ NoCall.outcome = "none"
      /\ NoCall.groups = {}
  BY DEF NoCall, Ended, Call
<1>2. \A c \in Caller : call[c] = NoCall
  BY DEF Init
<1>3. CallsOK
  <2>1. call \in [Caller -> Call]
    BY <1>1 DEF Init
  <2>2. CallsVisitListedGroups
    BY <1>1, <1>2, NoElements DEF CallsVisitListedGroups
  <2>3. NamesOneGroup
    BY <1>1, <1>2, Callers DEF NamesOneGroup
  <2> QED
    BY <1>1, <1>2, <2>1, <2>2, <2>3 DEF CallsOK
<1>4. GroupsOK
  BY ConstantsAssumption DEF Init, GroupsOK, ListKind, StoppedGroupsAreIdle, UnlistedGroupsAreStopped
<1>5. HistoryOK
  BY DEF Init, HistoryOK
<1>6. StopsInProgress
  BY DEF Init, StopsInProgress
<1>7. SearchOK
  BY DEF Init, SearchOK, SearchInProgress, NoFreeServerMissed
<1> QED
  BY <1>3, <1>4, <1>5, <1>6, <1>7, InvParts

\* Steps that change no group and no server.
LEMMA GroupsUntouched ==
  ASSUME IInv, UNCHANGED <<serverGroupList, stopped, serverVars, awaited, faults>>
  PROVE GroupsOK' /\ Listed' = Listed /\ FreeServers' = FreeServers
<1>1. GroupsOK
  BY InvParts
<1> QED
  BY <1>1 DEF serverVars, GroupsOK, StoppedGroupsAreIdle,
              UnlistedGroupsAreStopped, Listed, FreeServers

LEMMA CommandParts ==
  ASSUME NEW a \in Admin, NEW m \in Commands[a]
  PROVE /\ m.kind \in {"name", "host", "all"} /\ m.groups \in SUBSET Group
        /\ m.kind = "name" => \E g \in Group : m.groups = {g}
<1>1. m \in Command
  BY CommandsAssumption
<1> QED
  BY <1>1, ConstantsAssumption DEF Command

LEMMA InvBeginCommand ==
  ASSUME IInv, NEW a \in Admin, startServerGroup(a) \/ stopServerGroup(a)
  PROVE IInv'
<1>1. PICK m \in Commands[a], op \in {"start", "stop"} : Begin(a, op, m.kind, m.groups)
  BY DEF startServerGroup, stopServerGroup
<1>2. UNCHANGED <<serverGroupList, stopped, serverVars, awaited, faults>> /\ Track
  BY DEF startServerGroup, stopServerGroup
<1>3. /\ CallsOK' /\ call'[a].rest = serverGroupList
      /\ \A d \in Caller : d # a => call'[d] = call[d]
  BY <1>1, <1>2, CommandParts, BeginKeeps, Callers
<1>4. GroupsOK' /\ Listed' = Listed
  BY <1>2, GroupsUntouched
<1>5. StopsInProgress'
  <2>1. \A g \in Listed : g \in Elements(call'[a].rest)
    BY <1>3 DEF Listed
  <2> QED
    BY <1>2, <1>3, <1>4, <2>1, StopsKept, Callers
<1>6. SearchOK'
  BY <1>2, <1>3, SearchUntouched, Callers
<1> QED
  BY <1>2, <1>3, <1>4, <1>5, <1>6, TrackTypes, InvNext

\* The call of an administrator that goes on or ends after visiting a group:
\* what it has left to stop.
LEMMA StopsAdvance ==
  ASSUME IInv, Track, NEW a \in Admin, NEW g \in Group, Visits(a, "stop", g),
         UNCHANGED serverGroupList, g \notin call[a].groups \/ stopped'[g],
         CallsOK', call'[a].groups = call[a].groups,
         call'[a].rest = Tail(call[a].rest),
         \A d \in Caller : d # a => call'[d] = call[d]
  PROVE StopsInProgress'
<1>1. call[a].rest \in Seq(Group) /\ call[a].rest # <<>> /\ Head(call[a].rest) = g
  BY InvCalls, Callers DEF Visits, CallsOK, Call
<1>2. ~Begins(a)
  BY DEF Begins, Visits
<1>3. ASSUME quiet'[a], NEW h \in call'[a].groups \cap Listed'
      PROVE stopped'[h] \/ h \in Elements(call'[a].rest)
  <2>1. quiet[a] /\ \A k \in Group : stopped[k] => stopped'[k]
    BY <1>2, <1>3 DEF Track
  <2>2. h \in call[a].groups \cap Listed /\ h \in Group
    BY <1>3, InvCalls, Callers DEF Listed, CallsOK, Call
  <2>3. stopped[h] \/ h \in Elements(call[a].rest)
    BY <2>1, <2>2 DEF IInv, StopsInProgress, Visits
  <2>4. h \in Elements(call[a].rest) => h = g \/ h \in Elements(call'[a].rest)
    BY <1>1, TailElements
  <2> QED
    BY <2>1, <2>2, <2>3, <2>4
<1>4. Listed' = Listed
  BY DEF Listed
<1> QED
  BY <1>3, <1>4, StopsKept, Callers

\* A call that has ended without the answer "stopped", or goes on starting.
LEMMA StopsOther ==
  ASSUME IInv, Track, NEW a \in Admin, UNCHANGED serverGroupList,
         call'[a].op # "stop", call'[a].outcome # "stopped",
         \A d \in Caller : d # a => call'[d] = call[d]
  PROVE StopsInProgress'
<1>1. Listed' = Listed
  BY DEF Listed
<1> QED
  BY <1>1, StopsKept, Callers

LEMMA InvPassGroup ==
  ASSUME IInv, NEW a \in Admin, NEW g \in Group, passGroup(a, g)
  PROVE IInv'
<1>1. /\ UNCHANGED <<serverGroupList, stopped, serverVars, awaited, faults>> /\ Track
      /\ Advance(a, Outcome(a))
      /\ call[a].op \in {"start", "stop"}
      /\ Visits(a, call[a].op, g)
      /\ call[a].op = "stop" => g \notin call[a].groups \/ stopped[g]
  BY DEF passGroup, Visits
<1>2. Outcome(a) \in Outcomes /\ (call[a].op = "start" => Outcome(a) = "none")
  BY DEF Outcome, Outcomes
<1>3. /\ CallsOK' /\ call'[a].rest = Tail(call[a].rest)
      /\ \/ Return(a, Outcome(a))
         \/ /\ call'[a].op = call[a].op /\ call'[a].groups = call[a].groups
            /\ call'[a].outcome = call[a].outcome
      /\ \A d \in Caller : d # a => call'[d] = call[d]
  BY <1>1, <1>2, AdvanceKeeps, Callers
<1>4. GroupsOK'
  BY <1>1, GroupsUntouched
<1>5. stopped' = stopped
  BY <1>1
<1>6. call[a].outcome = "none"
  BY <1>1, InvCalls, Callers DEF CallsOK
<1>7. StopsInProgress'
  <2>1. CASE Return(a, Outcome(a)) /\ Outcome(a) # "stopped"
    <3>1. call'[a].op = "none" /\ call'[a].outcome # "stopped"
      BY <2>1, <1>1, <1>2, ReturnKeeps, Callers
    <3> QED
      BY <3>1, <1>1, <1>3, StopsOther
  <2>2. CASE Return(a, Outcome(a)) /\ Outcome(a) = "stopped"
    <3>1. call'[a].groups = call[a].groups /\ call[a].op = "stop"
      BY <2>2, <1>1, <1>2, ReturnKeeps, Callers
    <3> QED
      BY <3>1, <1>1, <1>3, <1>5, StopsAdvance
  <2>3. CASE /\ call'[a].op = call[a].op /\ call'[a].groups = call[a].groups
             /\ call'[a].outcome = call[a].outcome
    <3>1. CASE call[a].op = "stop"
      BY <2>3, <3>1, <1>1, <1>3, <1>5, StopsAdvance
    <3>2. CASE call[a].op = "start"
      BY <2>3, <3>2, <1>1, <1>3, <1>6, StopsOther
    <3> QED
      BY <3>1, <3>2, <1>1
  <2> QED
    BY <1>3, <2>1, <2>2, <2>3
<1>8. SearchOK'
  BY <1>1, <1>3, SearchUntouched, Callers
<1> QED
  BY <1>1, <1>3, <1>4, <1>7, <1>8, TrackTypes, InvNext

LEMMA InvIsStopped ==
  ASSUME IInv, NEW a \in Admin, NEW g \in Group, isStopped(a, g)
  PROVE IInv'
<1>1. /\ UNCHANGED <<serverGroupList, stopped, serverVars, awaited, faults>> /\ Track
      /\ call[a].op \in {"start", "stop"}
      /\ call' = [call EXCEPT ![a].checked = TRUE]
  BY DEF isStopped, Visits
<1> DEFINE new == [call[a] EXCEPT !.checked = TRUE]
<1>2. call \in [Caller -> Call] /\ a \in Caller /\ call[a] \in Call
  BY InvCalls, Callers DEF CallsOK
<1>3. /\ new \in Call /\ new.op = call[a].op /\ new.kind = call[a].kind
      /\ new.groups = call[a].groups /\ new.rest = call[a].rest
      /\ new.outcome = call[a].outcome
  BY <1>2 DEF Call
<1>4. call' = [call EXCEPT ![a] = new]
  BY <1>1
<1> HIDE DEF new
<1>5. /\ call' \in [Caller -> Call] /\ call'[a] = new
      /\ \A d \in Caller : d # a => call'[d] = call[d]
  BY <1>2, <1>3, <1>4
<1>6. GroupsOK' /\ Listed' = Listed
  BY <1>1, GroupsUntouched
<1>7. CallsOK'
  <2>1. CallsVisitListedGroups'
    BY <1>3, <1>5, <1>6, InvCalls DEF CallsOK, CallsVisitListedGroups
  <2>2. NamesOneGroup'
    BY <1>3, <1>5, InvCalls, Callers DEF CallsOK, NamesOneGroup
  <2> QED
    BY <1>1, <1>3, <1>5, <2>1, <2>2, InvCalls DEF CallsOK
<1>8. StopsInProgress'
  <2>1. ~Begins(a) /\ stopped' = stopped
    BY <1>1 DEF Begins
  <2>2. quiet'[a] => quiet[a]
    BY <1>1, <2>1 DEF Track
  <2>3. StopsInProgress
    BY DEF IInv
  <2>4. ((call'[a].op = "stop" \/ call'[a].outcome = "stopped") /\ quiet'[a]) =>
          \A h \in call'[a].groups \cap Listed' :
            stopped'[h] \/ h \in Elements(call'[a].rest)
    BY <1>3, <1>5, <1>6, <2>1, <2>2, <2>3 DEF StopsInProgress
  <2> QED
    BY <1>1, <1>5, <1>6, <2>4, StopsKept, Callers
<1>9. SearchOK'
  BY <1>1, <1>5, SearchUntouched, Callers
<1> QED
  BY <1>1, <1>6, <1>7, <1>8, <1>9, TrackTypes, InvNext

LEMMA VisitedIsListed ==
  ASSUME IInv, NEW c \in Caller, NEW op, op # "none", NEW g \in Group, Visits(c, op, g)
  PROVE g \in Listed
<1>1. call[c].rest \in Seq(Group) /\ call[c].rest # <<>> /\ Head(call[c].rest) = g
  BY InvCalls DEF Visits, CallsOK, Call
<1> QED
  BY <1>1, TailElements, InvCalls DEF CallsOK, CallsVisitListedGroups

LEMMA OwnedIsFinite ==
  ASSUME NEW T, T \subseteq Server
  PROVE IsFiniteSet(T) /\ Cardinality(T) \in Nat
  BY ConstantsAssumption, FS_Subset, FS_CardinalityType

LEMMA InvStart ==
  ASSUME IInv, NEW a \in Admin, NEW g \in Group, start(a, g)
  PROVE IInv'
<1>1. /\ UNCHANGED <<serverGroupList, awaited, faults>> /\ Track
      /\ call[a].op = "start" /\ Visits(a, "start", g)
      /\ Return(a, "none") \/ Advance(a, "none")
  BY DEF start, Visits
<1>2. /\ CallsOK' /\ call'[a].op # "stop" /\ call'[a].outcome # "stopped"
      /\ \A d \in Caller : d # a => call'[d] = call[d]
  <2>1. CASE Return(a, "none")
    BY <1>1, <2>1, ReturnKeeps, Callers DEF Outcomes
  <2>2. CASE Advance(a, "none")
    <3>1. /\ CallsOK'
          /\ \/ Return(a, "none")
             \/ /\ call'[a].op = call[a].op /\ call'[a].groups = call[a].groups
                /\ call'[a].outcome = call[a].outcome
          /\ \A d \in Caller : d # a => call'[d] = call[d]
      BY <1>1, <2>2, AdvanceKeeps, Callers DEF Outcomes
    <3>2. call[a].outcome = "none"
      BY <1>1, InvCalls, Callers DEF CallsOK
    <3> QED
      BY <1>1, <2>1, <3>1, <3>2
  <2> QED
    BY <1>1, <2>1, <2>2
<1>3. GroupsOK'
  <2>0. GroupsOK
    BY InvParts
  <2>1. CASE ~stopped[g]
    BY <2>0, <2>1, <1>1 DEF start, GroupsOK, StoppedGroupsAreIdle,
                            UnlistedGroupsAreStopped, serverVars, Listed
  <2>2. CASE stopped[g]
    <3> DEFINE idle == UnlistedIn(g)
    <3> DEFINE n == MinOf(MinServers, Cardinality(idle))
    <3>1. idle \subseteq Server
      BY DEF Owned, UnlistedIn
    <3>2. n \in Nat
      BY <3>1, OwnedIsFinite, ConstantsAssumption DEF MinOf
    <3>3. stopped' = [stopped EXCEPT ![g] = FALSE] /\ Replace(g, {}, {}, n)
      BY <2>2 DEF start
    <3>4. /\ list' \in [Server -> ListKind]
          /\ state' \in [Server -> {"free", "full", "silent"}]
          /\ expired' \in [Server -> BOOLEAN]
          /\ asked' \in [Server -> BOOLEAN]
          /\ \A s \in Server : list'[s] = list[s] \/ list'[s] \in {"none", "restarting"}
                               \/ Owner[s] = g
      BY <3>2, <3>3, ReplaceKeeps
    <3>5. g \in Listed /\ Listed' = Listed
      BY <1>1, VisitedIsListed, Callers DEF Listed
    <3>6. StoppedGroupsAreIdle'
      BY <3>3, <3>4, <2>0, OwnerType DEF GroupsOK, StoppedGroupsAreIdle
    <3>7. UnlistedGroupsAreStopped'
      BY <3>3, <3>5, <2>0 DEF GroupsOK, UnlistedGroupsAreStopped
    <3>8. stopped' \in [Group -> BOOLEAN]
      BY <3>3, <2>0 DEF GroupsOK
    <3> QED
      BY <1>1, <2>0, <3>4, <3>6, <3>7, <3>8 DEF GroupsOK
  <2> QED
    BY <2>1, <2>2
<1>4. StopsInProgress'
  BY <1>1, <1>2, StopsOther
<1>5. SearchOK'
  BY <1>1, <1>2, SearchUntouched, Callers
<1> QED
  BY <1>1, <1>2, <1>3, <1>4, <1>5, TrackTypes, InvNext

LEMMA InvStop ==
  ASSUME IInv, NEW a \in Admin, NEW g \in Group, stop(a, g)
  PROVE IInv'
<1>1. /\ UNCHANGED <<serverGroupList, awaited, faults>> /\ Track
      /\ call[a].op = "stop" /\ Visits(a, "stop", g) /\ g \in call[a].groups
      /\ \/ Return(a, "none")
         \/ Return(a, "stopped") /\ call[a].kind = "name"
         \/ Advance(a, "stopped")
  BY DEF stop, Visits, MayAct
<1>2. GroupsOK' /\ stopped'[g]
  <2>0. GroupsOK
    BY InvParts
  <2>1. CASE stopped[g]
    BY <2>0, <2>1, <1>1 DEF stop, GroupsOK, StoppedGroupsAreIdle,
                            UnlistedGroupsAreStopped, serverVars, Listed
  <2>2. CASE ~stopped[g]
    <3>3. PICK killed \in SUBSET RestartingIn(g) :
            /\ stopped' = [stopped EXCEPT ![g] = TRUE]
            /\ Replace(g, Active(g) \cup killed, {}, 0)
      BY <2>2 DEF stop
    <3>5. Active(g) \cup killed \subseteq Owned(g)
      BY DEF Active, RestartingIn
    <3>4. /\ list' \in [Server -> ListKind]
          /\ state' \in [Server -> {"free", "full", "silent"}]
          /\ expired' \in [Server -> BOOLEAN]
          /\ asked' \in [Server -> BOOLEAN]
          /\ \A s \in Server : list'[s] = list[s] \/ list'[s] \in {"none", "restarting"}
          /\ \A s \in Active(g) : list'[s] = "none"
      <4> DEFINE gone == Active(g) \cup killed
      <4>1. gone \subseteq Owned(g) /\ Replace(g, gone, {}, 0) /\ Active(g) \subseteq gone
        BY <3>3, <3>5
      <4> HIDE DEF gone
      <4> QED
        BY <4>1, ReplaceKeeps
    <3>6. StoppedGroupsAreIdle'
      BY <3>3, <3>4, <2>0, OwnerType
         DEF GroupsOK, ListKind, StoppedGroupsAreIdle, Active, Owned
    <3>7. UnlistedGroupsAreStopped'
      BY <1>1, <3>3, <2>0 DEF GroupsOK, UnlistedGroupsAreStopped, Listed
    <3>8. stopped' \in [Group -> BOOLEAN] /\ stopped'[g]
      BY <3>3, <2>0 DEF GroupsOK
    <3> QED
      BY <1>1, <2>0, <3>4, <3>6, <3>7, <3>8 DEF GroupsOK
  <2> QED
    BY <2>1, <2>2
<1>3. /\ CallsOK' /\ StopsInProgress'
      /\ \A d \in Caller : d # a => call'[d] = call[d]
  <2>1. CASE Return(a, "none")
    <3>1. /\ CallsOK' /\ call'[a].op = "none" /\ call'[a].outcome = "none"
          /\ \A d \in Caller : d # a => call'[d] = call[d]
      BY <1>1, <2>1, ReturnKeeps, Callers DEF Outcomes
    <3> QED
      BY <1>1, <3>1, StopsOther
  <2>2. CASE Return(a, "stopped") /\ call[a].kind = "name"
    <3>1. /\ CallsOK' /\ call'[a].groups = call[a].groups
          /\ \A d \in Caller : d # a => call'[d] = call[d]
      BY <1>1, <2>2, ReturnKeeps, Callers DEF Outcomes
    <3>2. call[a].groups = {g}
      BY <1>1, <2>2 DEF IInv, NamesOneGroup
    <3>3. Listed' = Listed
      BY <1>1 DEF Listed
    <3>4. \A h \in call'[a].groups \cap Listed' : stopped'[h]
      BY <3>1, <3>2, <1>2
    <3> QED
      BY <1>1, <3>1, <3>3, <3>4, StopsKept, Callers
  <2>3. CASE Advance(a, "stopped")
    <3>1. /\ CallsOK' /\ call'[a].rest = Tail(call[a].rest)
          /\ \/ Return(a, "stopped")
             \/ /\ call'[a].op = call[a].op /\ call'[a].groups = call[a].groups
                /\ call'[a].outcome = call[a].outcome
          /\ \A d \in Caller : d # a => call'[d] = call[d]
      BY <1>1, <2>3, AdvanceKeeps, Callers DEF Outcomes
    <3>2. call'[a].groups = call[a].groups
      BY <1>1, <3>1, ReturnKeeps, Callers DEF Outcomes
    <3> QED
      BY <1>1, <1>2, <3>1, <3>2, StopsAdvance
  <2> QED
    BY <1>1, <2>1, <2>2, <2>3
<1>4. SearchOK'
  BY <1>1, <1>3, SearchUntouched, Callers
<1> QED
  BY <1>1, <1>2, <1>3, <1>4, TrackTypes, InvNext

\* Steps of callers that are no administrators.
LEMMA StopsUntouched ==
  ASSUME IInv, Track, \A d \in Admin : call'[d] = call[d],
         \A g \in Listed' \ Listed : stopped'[g]
  PROVE StopsInProgress'
<1>1. Client \notin Admin
  BY Callers
<1> QED
  BY <1>1, StopsKept

LEMMA InvDefine ==
  ASSUME IInv, NEW g \in Group, defineServerGroup(g)
  PROVE IInv'
<1> USE DEF defineServerGroup
<1>0. GroupsOK /\ CallsOK
  BY InvParts
<1>1. serverGroupList' \in Seq(Group) /\ Listed' = Listed \cup {g}
  BY <1>0, AppendElements DEF GroupsOK, Listed
<1>2. stopped' \in [Group -> BOOLEAN] /\ stopped'[g]
  BY <1>0 DEF GroupsOK
<1>3. stopped[g]
  BY <1>0 DEF GroupsOK, UnlistedGroupsAreStopped
<1>4. StoppedGroupsAreIdle' /\ UnlistedGroupsAreStopped'
  BY <1>0, <1>1, <1>3, OwnerType
     DEF GroupsOK, StoppedGroupsAreIdle, UnlistedGroupsAreStopped, serverVars
<1>5. GroupsOK'
  BY <1>0, <1>1, <1>2, <1>4 DEF GroupsOK, serverVars
<1>6. CallsOK'
  BY <1>0, <1>1 DEF CallsOK, CallsVisitListedGroups, NamesOneGroup
<1>7. StopsInProgress'
  BY <1>1, <1>2, StopsUntouched
<1>8. SearchOK'
  BY SearchUntouched
<1> QED
  BY <1>5, <1>6, <1>7, <1>8, TrackTypes, InvNext

LEMMA InvRemove ==
  ASSUME IInv, NEW g \in Group, removeServerGroup(g)
  PROVE IInv'
<1> USE DEF removeServerGroup
<1>0. GroupsOK /\ CallsOK
  BY InvParts
<1>1. PICK i \in Positions(g) : serverGroupList' = Erase(serverGroupList, i)
  OBVIOUS
<1>2. /\ serverGroupList' \in Seq(Group) /\ Listed' \subseteq Listed
      /\ \A h \in Listed : h = g \/ h \in Listed'
  BY <1>0, <1>1, EraseElements DEF GroupsOK, Listed, Positions
<1>3. StoppedGroupsAreIdle' /\ UnlistedGroupsAreStopped'
  BY <1>0, <1>2 DEF GroupsOK, StoppedGroupsAreIdle, UnlistedGroupsAreStopped, Destroy
<1>4. GroupsOK'
  <2>1. /\ list' \in [Server -> ListKind]
        /\ state' \in [Server -> {"free", "full", "silent"}]
    BY <1>0 DEF GroupsOK, Destroy, ListKind
  <2>2. expired' \in [Server -> BOOLEAN] /\ asked' \in [Server -> BOOLEAN]
    BY DEF Destroy
  <2>3. awaited' \in SUBSET Server
    BY DEF Destroy, RestartingIn, Owned
  <2> QED
    BY <1>0, <1>2, <1>3, <2>1, <2>2, <2>3 DEF GroupsOK
<1>5. CallsOK'
  <2>1. \A c \in Caller : call[c].rest = <<>>
    BY <1>0 DEF Alone, CallsOK
  <2> QED
    BY <1>0, <2>1, NoElements DEF CallsOK, CallsVisitListedGroups, NamesOneGroup
<1>6. StopsInProgress'
  BY <1>2, StopsUntouched
<1>7. SearchOK'
  BY SearchUntouched
<1> QED
  BY <1>4, <1>5, <1>6, <1>7, TrackTypes, InvNext

\* Steps in which the call of c, who is no administrator and not the
\* client, changes, and the list of groups does not.
LEMMA OthersUntouched ==
  ASSUME IInv, Track, UNCHANGED serverGroupList, NEW c, c \notin Admin, c # Client,
         \A d \in Caller : d # c => call'[d] = call[d]
  PROVE StopsInProgress' /\ SearchOK' /\ HistoryOK'
<1>1. Listed' = Listed
  BY DEF Listed
<1> QED
  BY <1>1, StopsUntouched, SearchUntouched, TrackTypes, Callers

LEMMA InvRegister ==
  ASSUME IInv, NEW s \in Server, registration(s)
  PROVE IInv'
<1>0. GroupsOK /\ s \in Caller /\ s \notin Admin /\ s # Client
  BY InvParts, Callers
<1>1. CASE registerServer(s)
  <2>1. /\ Begin(s, "register", "all", Group) /\ Track
        /\ UNCHANGED <<serverGroupList, stopped, list, state, expired, awaited, faults>>
        /\ asked' = [asked EXCEPT ![s] = TRUE]
    BY <1>1 DEF registerServer
  <2>2. CallsOK' /\ \A d \in Caller : d # s => call'[d] = call[d]
    BY <1>0, <2>1, BeginKeeps
  <2>3. GroupsOK'
    BY <1>0, <2>1 DEF GroupsOK, StoppedGroupsAreIdle, UnlistedGroupsAreStopped,
                      Listed
  <2> QED
    BY <1>0, <2>1, <2>2, <2>3, OthersUntouched, InvNext
<1>2. ASSUME NEW g \in Group, tryRegisterServer(s, g) PROVE IInv'
  <2>1. /\ UNCHANGED <<serverGroupList, stopped, state, expired, asked, awaited, faults>> /\ Track
        /\ call[s].op # "none"
        /\ Return(s, "none") \/ Advance(s, "none")
        /\ \/ Owner[s] = g /\ ~stopped[g] /\ list' = [list EXCEPT ![s] = "running"]
           \/ UNCHANGED list
    BY <1>2 DEF tryRegisterServer, Visits
  <2>2. CallsOK' /\ \A d \in Caller : d # s => call'[d] = call[d]
    BY <1>0, <2>1, ReturnKeeps, AdvanceKeeps DEF Outcomes
  <2>3. list' \in [Server -> ListKind]
    BY <1>0, <2>1 DEF GroupsOK, ListKind
  <2>4. StoppedGroupsAreIdle'
    BY <1>0, <2>1 DEF GroupsOK, StoppedGroupsAreIdle
  <2>5. UnlistedGroupsAreStopped'
    BY <1>0, <2>1 DEF GroupsOK, UnlistedGroupsAreStopped, Listed
  <2>6. GroupsOK'
    BY <1>0, <2>1, <2>3, <2>4, <2>5 DEF GroupsOK
  <2> QED
    BY <1>0, <2>1, <2>2, <2>6, OthersUntouched, InvNext
<1>3. ASSUME NEW g \in Group, registrationFails(s, g) PROVE IInv'
  <2>1. /\ UNCHANGED <<serverGroupList, stopped, list, expired, asked, awaited, faults>> /\ Track
        /\ Return(s, "none")
        /\ state' = [state EXCEPT ![s] = "silent"]
    BY <1>3 DEF registrationFails
  <2>2. CallsOK' /\ \A d \in Caller : d # s => call'[d] = call[d]
    BY <1>0, <2>1, ReturnKeeps DEF Outcomes
  <2>3. GroupsOK'
    BY <1>0, <2>1 DEF GroupsOK, StoppedGroupsAreIdle, UnlistedGroupsAreStopped,
                      Listed
  <2> QED
    BY <1>0, <2>1, <2>2, <2>3, OthersUntouched, InvNext
<1> QED
  BY <1>1, <1>2, <1>3 DEF registration

LEMMA InvCleanup ==
  ASSUME IInv, cleanup
  PROVE IInv'
<1>0. GroupsOK /\ Worker \in Caller /\ Worker \notin Admin /\ Worker # Client
  BY InvParts, Callers
<1>1. CASE workerCleanupRunner
  <2>1. /\ Begin(Worker, "evaluate", "all", Group) /\ Track
        /\ UNCHANGED <<serverGroupList, stopped, serverVars, awaited, faults>>
    BY <1>1 DEF workerCleanupRunner
  <2>2. CallsOK' /\ \A d \in Caller : d # Worker => call'[d] = call[d]
    BY <1>0, <2>1, BeginKeeps
  <2>3. GroupsOK'
    BY <2>1, GroupsUntouched
  <2> QED
    BY <1>0, <2>1, <2>2, <2>3, OthersUntouched, InvNext
<1>2. ASSUME NEW g \in Group, evaluateServerGroups(g) PROVE IInv'
  <2>1. PICK due \in SUBSET MustRestart(g), throws \in BOOLEAN :
          \E killed \in SUBSET (RestartingIn(g) \cup due) : evaluateGroup(g, due, killed, throws)
    BY <1>2 DEF evaluateServerGroups
  <2>2. PICK killed \in SUBSET (RestartingIn(g) \cup due) :
          evaluateGroup(g, due, killed, throws)
    BY <2>1
  <2> DEFINE gone == Dead(g) \cup killed
  <2> DEFINE n == IF stopped[g] \/ throws THEN 0 ELSE Missing(g, gone, due)
  <2>10. /\ UNCHANGED <<serverGroupList, stopped, awaited, faults>> /\ Track
         /\ call[Worker].op # "none" /\ Advance(Worker, "none")
         /\ Replace(g, gone, due, n)
    BY <1>2, <2>2 DEF evaluateServerGroups, evaluateGroup, Visits
  <2>11. CallsOK' /\ \A d \in Caller : d # Worker => call'[d] = call[d]
    BY <1>0, <2>10, AdvanceKeeps DEF Outcomes
  <2>3. gone \subseteq Owned(g) /\ Owned(g) \subseteq Server
    BY DEF Dead, Owned, MustRestart, RunningIn, RestartingIn
  <2> HIDE DEF gone
  <2>4. n \in Nat
    <3> DEFINE available == {s \in RunningIn(g) \ due : state[s] = "free"}
    <3> DEFINE unlisted == UnlistedIn(g) \cup gone
    <3>1. available \subseteq Server /\ unlisted \subseteq Server
      BY <2>3 DEF RunningIn, UnlistedIn, Owned
    <3>2. Cardinality(available) \in Nat /\ Cardinality(unlisted) \in Nat
      BY <3>1, OwnedIsFinite
    <3>3. Missing(g, gone, due) =
            IF Cardinality(available) >= MinServers THEN 0
            ELSE MinOf(MinServers - Cardinality(available), Cardinality(unlisted))
      BY DEF Missing
    <3> HIDE DEF available, unlisted
    <3>4. Missing(g, gone, due) \in Nat
      BY <3>2, <3>3, ConstantsAssumption DEF MinOf
    <3> QED
      BY <3>4
  <2>5. stopped[g] => n = 0
    OBVIOUS
  <2> HIDE DEF n
  <2>6. /\ list' \in [Server -> ListKind]
        /\ state' \in [Server -> {"free", "full", "silent"}]
        /\ expired' \in [Server -> BOOLEAN]
        /\ asked' \in [Server -> BOOLEAN]
        /\ \A s \in Server : \/ list'[s] = list[s]
                             \/ list'[s] \in {"none", "restarting"}
                             \/ Owner[s] = g /\ n # 0
    <3>1. Replace(g, gone, due, n) /\ gone \subseteq Owned(g) /\ n \in Nat
      BY <2>10, <2>3, <2>4
    <3> QED
      BY <3>1, ReplaceKeeps
  <2>7. StoppedGroupsAreIdle'
    BY <1>0, <2>10, <2>5, <2>6 DEF GroupsOK, StoppedGroupsAreIdle
  <2>8. UnlistedGroupsAreStopped'
    BY <1>0, <2>10 DEF GroupsOK, UnlistedGroupsAreStopped, Listed
  <2>9. GroupsOK'
    BY <1>0, <2>10, <2>6, <2>7, <2>8 DEF GroupsOK
  <2> QED
    BY <1>0, <2>10, <2>11, <2>9, OthersUntouched, InvNext
<1> QED
  BY <1>1, <1>2 DEF cleanup

LEMMA InvSearch ==
  ASSUME IInv, search
  PROVE IInv'
<1>0. Client \in Caller /\ Client \notin Admin /\ GroupsOK
  BY Callers, InvParts
<1>1. UNCHANGED <<serverGroupList, stopped, serverVars, awaited, faults>> /\ Track
  BY DEF search, tryGetFreeServer, tryGetAvailableServer
<1>2. GroupsOK' /\ Listed' = Listed /\ FreeServers' = FreeServers
  BY <1>1, GroupsUntouched
<1>3. CASE tryGetFreeServer
  <2>1. /\ CallsOK' /\ call[Client].op = "none" /\ call'[Client].op = "getFree"
        /\ call'[Client].rest = serverGroupList /\ call'[Client].outcome = "none"
        /\ \A d \in Caller : d # Client => call'[d] = call[d]
    BY <1>0, <1>1, <1>3, BeginKeeps DEF tryGetFreeServer
  <2>2. witness' = FreeServers
    BY <1>1, <1>2, <2>1 DEF Track, Begins
  <2>3. SearchOK'
    BY <1>2, <2>1, <2>2 DEF SearchOK, SearchInProgress, NoFreeServerMissed,
                            FreeServers, Listed
  <2>4. StopsInProgress'
    BY <1>0, <1>1, <1>2, <2>1, StopsUntouched, Callers
  <2> QED
    BY <1>1, <1>2, <2>1, <2>3, <2>4, TrackTypes, InvNext
<1>4. ASSUME NEW g \in Group, tryGetAvailableServer(g) PROVE IInv'
  <2>1. call[Client].op = "getFree" /\ Head(call[Client].rest) = g
    BY <1>4 DEF tryGetAvailableServer, Visits
  <2>2. witness' \subseteq witness /\ witness' \subseteq FreeServers'
    BY <1>1, <1>2, <2>1 DEF Track, Begins
  <2>3. CASE Return(Client, "none")
    <3>1. /\ CallsOK' /\ call'[Client].op = "none" /\ call'[Client].outcome = "none"
          /\ \A d \in Caller : d # Client => call'[d] = call[d]
      BY <1>0, <1>1, <2>3, ReturnKeeps DEF Outcomes
    <3>2. SearchOK'
      BY <2>2, <3>1 DEF SearchOK, SearchInProgress, NoFreeServerMissed
    <3>3. StopsInProgress'
      BY <1>0, <1>1, <1>2, <3>1, StopsUntouched, Callers
    <3> QED
      BY <1>1, <1>2, <3>1, <3>2, <3>3, TrackTypes, InvNext
  <2>4. CASE /\ g \in Owning => \A s \in RunningIn(g) : state[s] = "full"
             /\ Advance(Client, "notFound")
    <3>1. /\ CallsOK' /\ call'[Client].rest = Tail(call[Client].rest)
          /\ \/ Return(Client, "notFound")
             \/ /\ call'[Client].op = call[Client].op
                /\ call'[Client].groups = call[Client].groups
                /\ call'[Client].outcome = call[Client].outcome
          /\ \A d \in Caller : d # Client => call'[d] = call[d]
      BY <1>0, <1>1, <2>1, <2>4, AdvanceKeeps DEF Outcomes
    <3>2. \A s \in witness : s \in Server /\ Owner[s] # g
      BY <2>4 DEF IInv, SearchInProgress, FreeServers, RunningIn, Owned
    <3>3. call[Client].rest \in Seq(Group) /\ call[Client].rest # <<>>
      BY <1>0, <2>1, InvCalls DEF CallsOK, Call
    <3>4. \A s \in witness : Owner[s] \in Elements(call'[Client].rest)
      <4>1. \A h \in Elements(call[Client].rest) :
              h = g \/ h \in Elements(Tail(call[Client].rest))
        BY <2>1, <3>3, TailElements
      <4> QED
        BY <2>1, <3>1, <3>2, <4>1 DEF IInv, SearchInProgress
    <3>5. SearchOK'
      <4>1. CASE Return(Client, "notFound")
        <5>1. call'[Client].rest = <<>> /\ call'[Client].op = "none"
          BY <1>0, <1>1, <4>1, ReturnKeeps DEF Outcomes
        <5>2. witness = {}
          BY <3>4, <5>1, NoElements
        <5> QED
          BY <2>2, <5>1, <5>2 DEF SearchOK, SearchInProgress, NoFreeServerMissed
      <4>2. CASE /\ call'[Client].op = call[Client].op
                 /\ call'[Client].outcome = call[Client].outcome
        <5>1. call[Client].outcome = "none"
          BY <1>0, <2>1, InvCalls DEF CallsOK
        <5> QED
          BY <2>2, <3>4, <4>2, <5>1 DEF SearchOK, SearchInProgress, NoFreeServerMissed
      <4> QED
        BY <3>1, <4>1, <4>2
    <3>6. StopsInProgress'
      BY <1>0, <1>1, <1>2, <3>1, StopsUntouched, Callers
    <3> QED
      BY <1>1, <1>2, <3>1, <3>5, <3>6, TrackTypes, InvNext
  <2> QED
    BY <1>4, <2>3, <2>4 DEF tryGetAvailableServer
<1> QED
  BY <1>3, <1>4 DEF search

\* Steps that change neither a call nor the list, stopped or list.
LEMMA EnvironmentKeeps ==
  ASSUME IInv, Track, UNCHANGED <<serverGroupList, stopped, list, asked, call>>,
         awaited' \in SUBSET Server, state' \in [Server -> {"free", "full", "silent"}],
         expired' \in [Server -> BOOLEAN], faults' \in 0 .. MaxFaults
  PROVE IInv'
<1>0. GroupsOK /\ CallsOK
  BY InvParts
<1>1. GroupsOK'
  BY <1>0 DEF GroupsOK, StoppedGroupsAreIdle, UnlistedGroupsAreStopped, Listed
<1>2. CallsOK'
  BY <1>0 DEF CallsOK, CallsVisitListedGroups, NamesOneGroup, Listed
<1>3. StopsInProgress'
  BY StopsUntouched DEF Listed
<1>4. SearchOK'
  BY SearchUntouched
<1> QED
  BY <1>1, <1>2, <1>3, <1>4, TrackTypes, InvNext

LEMMA InvEnvironment ==
  ASSUME IInv, NEW t \in Server, environment(t)
  PROVE IInv'
<1>0. GroupsOK /\ MaxFaults \in Nat
  BY InvParts, ConstantsAssumption
<1>1. ASSUME NEW s \in Server, loadChanges(s) PROVE IInv'
  <2>1. state' \in [Server -> {"free", "full", "silent"}]
    BY <1>0, <1>1 DEF loadChanges, GroupsOK
  <2> QED
    BY <1>0, <1>1, <2>1, EnvironmentKeeps DEF loadChanges, GroupsOK
<1>2. ASSUME NEW s \in Server, processFails(s) PROVE IInv'
  <2>1. state' \in [Server -> {"free", "full", "silent"}] /\ faults' \in 0 .. MaxFaults
    BY <1>0, <1>2 DEF processFails, GroupsOK
  <2> QED
    BY <1>0, <1>2, <2>1, EnvironmentKeeps DEF processFails, GroupsOK
<1>3. ASSUME NEW s \in Server, timerExpires(s) PROVE IInv'
  <2>1. expired' \in [Server -> BOOLEAN] /\ faults' \in 0 .. MaxFaults
    BY <1>0, <1>3 DEF timerExpires, GroupsOK
  <2> QED
    BY <1>0, <1>3, <2>1, EnvironmentKeeps DEF timerExpires, GroupsOK
<1>4. ASSUME NEW s \in Server, awaitedEnds(s) PROVE IInv'
  <2>1. awaited' \in SUBSET Server
    BY <1>0, <1>4 DEF awaitedEnds, GroupsOK
  <2> QED
    BY <1>0, <1>4, <2>1, EnvironmentKeeps DEF awaitedEnds, GroupsOK, serverVars
<1> QED
  BY <1>1, <1>2, <1>3, <1>4 DEF environment

LEMMA InvStutter == IInv /\ UNCHANGED vars => IInv'
<1> SUFFICES ASSUME IInv, UNCHANGED vars PROVE IInv'
  OBVIOUS
<1> QED
  BY DEF vars, serverVars, history, IInv, TypeOK, CallsVisitListedGroups,
         StoppedGroupsAreIdle, UnlistedGroupsAreStopped, NamesOneGroup,
         StopsInProgress, SearchInProgress, NoFreeServerMissed, FreeServers, Listed

LEMMA InvStep == IInv /\ [Next]_vars => IInv'
<1> SUFFICES ASSUME IInv, [Next]_vars PROVE IInv'
  OBVIOUS
<1>1. CASE \E a \in Admin : administrator(a)
  BY <1>1, InvBeginCommand, InvPassGroup, InvIsStopped, InvStart, InvStop
     DEF administrator
<1>2. CASE \E g \in Group : defineServerGroup(g) \/ removeServerGroup(g)
  BY <1>2, InvDefine, InvRemove
<1>3. CASE \E s \in Server : registration(s)
  BY <1>3, InvRegister
<1>4. CASE search
  BY <1>4, InvSearch
<1>5. CASE cleanup
  BY <1>5, InvCleanup
<1>6. CASE \E s \in Server : environment(s)
  BY <1>6, InvEnvironment
<1>7. CASE UNCHANGED vars
  BY <1>7, InvStutter
<1> QED
  BY <1>1, <1>2, <1>3, <1>4, <1>5, <1>6, <1>7 DEF Next

-----------------------------------------------------------------------------
(* The theorems.                                                           *)

LEMMA Invariance == Spec => []IInv
<1>1. Init => IInv
  BY InvInit
<1>2. IInv /\ [Next]_vars => IInv'
  BY InvStep
<1> QED
  BY <1>1, <1>2, PTL DEF Spec

\* Every variable of the server manager keeps its type, and a call is in
\* progress exactly while it has groups left to visit.
THEOREM TypeCorrect == Spec => []TypeOK
<1>1. IInv => TypeOK
  BY DEF IInv
<1> QED
  BY <1>1, Invariance, PTL

\* No call of the server manager stands on an erased entry of the list of
\* groups, however many calls overlap with definitions and removals.
THEOREM IteratorSafety == Spec => []CallsVisitListedGroups
<1>1. IInv => CallsVisitListedGroups
  BY DEF IInv
<1> QED
  BY <1>1, Invariance, PTL

\* removeServerGroup never takes a group away that has a starting or a
\* running server.
THEOREM RemovalSafety == Spec => RemovalSparesServers
<1>1. IInv /\ [Next]_vars =>
        [\A g \in Listed \ Listed' : \A s \in Owned(g) : list[s] \in {"none", "restarting"}]_vars
  <2> SUFFICES ASSUME IInv, Next, NEW g \in Listed \ Listed', NEW s \in Owned(g)
               PROVE list[s] \in {"none", "restarting"}
    OBVIOUS
  <2>0. GroupsOK
    BY InvParts
  <2>1. PICK h \in Group : removeServerGroup(h)
    <3>1. serverGroupList' # serverGroupList
      BY DEF Listed
    <3>2. ASSUME NEW h \in Group, defineServerGroup(h) PROVE Listed \subseteq Listed'
      BY <3>2, <2>0, AppendElements DEF defineServerGroup, GroupsOK, Listed
    <3> QED
      BY <3>1, <3>2
         DEF Next, administrator, startServerGroup, stopServerGroup, passGroup, isStopped,
             start, stop, registration, registerServer, tryRegisterServer,
             registrationFails, environment, loadChanges, processFails, timerExpires,
             awaitedEnds, search, tryGetFreeServer, tryGetAvailableServer, cleanup,
             workerCleanupRunner, evaluateServerGroups
  <2>2. PICK i \in Positions(h) : serverGroupList' = Erase(serverGroupList, i)
    BY <2>1 DEF removeServerGroup
  <2>3. g = h
    BY <2>0, <2>2, EraseElements DEF GroupsOK, Listed, Positions
  <2> QED
    BY <2>0, <2>1, <2>3 DEF removeServerGroup, GroupsOK, StoppedGroupsAreIdle, Owned
<1> QED
  BY <1>1, Invariance, PTL DEF Spec, RemovalSparesServers

\* A stopServerGroup that returns without an exception has stopped every
\* group it meant and left it no starting or running server, whatever the
\* other callers did.
THEOREM StopSafety == Spec => []StopTakesEffect
<1>1. IInv => StopTakesEffect
  <2> SUFFICES ASSUME IInv, NEW a \in Admin, call[a].op = "none",
                      call[a].outcome = "stopped", quiet[a],
                      NEW g \in call[a].groups \cap Listed
               PROVE stopped[g] /\ \A s \in Owned(g) : list[s] \in {"none", "restarting"}
    BY DEF StopTakesEffect
  <2>1. call[a].rest = <<>>
    BY InvCalls, Callers DEF CallsOK
  <2>2. stopped[g]
    BY <2>1, NoElements DEF IInv, StopsInProgress
  <2> QED
    BY <2>2 DEF IInv, StoppedGroupsAreIdle, Owned
<1> QED
  BY <1>1, Invariance, PTL

\* A search that finds no server has not missed one that was free all the
\* time, for any number of groups.
THEOREM SearchSafety == Spec => []NoFreeServerMissed
<1>1. IInv => NoFreeServerMissed
  BY DEF IInv
<1> QED
  BY <1>1, Invariance, PTL
=============================================================================
