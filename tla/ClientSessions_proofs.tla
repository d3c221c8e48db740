----------------------- MODULE ClientSessions_proofs -----------------------
(***************************************************************************)
(* Proofs about ClientSessions, for any clients, servers, handler threads  *)
(* and session numbers: first with every fault and with overlapping calls  *)
(* (IInv), then for clients that wait for one call before the next (EInv), *)
(* then for servers of capacity one when nothing fails (CInv).             *)
(***************************************************************************)
EXTENDS ClientSessions, FiniteSetTheorems, TLAPS

Job == [pc : PCs, client : Client \cup {None}, session : Session \cup {None},
        server : Server \cup {None}, todo : SUBSET Session]

\* No server object counts session i.
Uncounted(i) == \A s \in Server : i \notin sessionList[s]

\* What a thread relies on at each point w of its call.
WorkOK(w) ==
  /\ w.pc # "idle" => w.client \in clients
  /\ w.pc \in HoldsServerManager => w.server \in Server /\ state[w.server] # "gone"
  /\ w.pc \in {"allocate", "record", "close", "closeCall", "removeCall"} =>
       w.session \in Session /\ w.session[1] = w.client
  /\ w.pc \in {"allocate", "record"} => assigned[w.session] = w.server
  /\ w.pc \in {"closeCall", "removeCall"} => Uncounted(w.session)
  /\ w.pc \in {"remove", "removeCall"} =>
       /\ \A i \in w.todo : i[1] = w.client
       /\ \A s \in Server : \A i \in sessionList[s] : i[1] = w.client => i \in w.todo

\* The locks: one thread changes the sessions of a client, one evicts.
AssignedMutex ==
  \A t, u \in Thread :
    t # u /\ thread[t].pc \in HoldsAssigned /\ thread[u].pc \in HoldsAssigned
      => thread[t].client # thread[u].client

OneEvictor ==
  \A t, u \in Thread :
    thread[t].pc \in Evicting /\ thread[u].pc \in Evicting => t = u

\* The inductive invariant under all faults.
IInv ==
  /\ TypeOK
  /\ \A s \in Server : IsFiniteSet(clientList[s])
  /\ \A s \in Server : state[s] = "gone" => sessionList[s] = {}
  /\ \A t \in Thread : WorkOK(thread[t])
  /\ AssignedMutex
  /\ OneEvictor
  /\ RecordedSessionsAreAssigned

-----------------------------------------------------------------------------
(* Types.                                                                  *)

LEMMA JobType == TypeOK => thread \in [Thread -> Job]
  BY DEF TypeOK, Job

LEMMA IdleType == Idle \in Job /\ Idle.pc = "idle"
  BY DEF Idle, Job, PCs

LEMMA Wraps ==
  ASSUME NEW n \in Int
  PROVE n % Modulus \in 0 .. Modulus - 1
<1>1. Modulus \in Nat /\ Modulus > 0
  BY ConstantsAssumption
<1> QED
  BY <1>1

LEMMA CountsType ==
  ASSUME IInv, NEW s \in Server
  PROVE /\ getClientQueueSize(s) \in 0 .. Modulus - 1
        /\ isAvailableCounts(s) \subseteq 0 .. Modulus - 1
<1>1. Cardinality(clientList[s]) \in Nat
  BY FS_CardinalityType DEF IInv
<1>2. getClientQueueSize(s) \in 0 .. Modulus - 1
  BY <1>1, Wraps DEF getClientQueueSize
<1> QED
  BY <1>2 DEF isAvailableCounts, IInv, TypeOK

LEMMA ThreadUpdate ==
  ASSUME TypeOK, NEW t \in Thread, NEW w \in Job, thread' = [thread EXCEPT ![t] = w]
  PROVE /\ thread' \in [Thread -> Job]
        /\ thread'[t] = w
        /\ \A u \in Thread : u # t => thread'[u] = thread[u]
  BY JobType

\* Of a step of thread t: what it leaves of the sessions, and the locks it
\* takes, decide for all other threads.
LEMMA StepKeeps ==
  ASSUME IInv, NEW t \in Thread,
         TypeOK', (\A s \in Server : IsFiniteSet(clientList[s]))',
         \A u \in Thread : u # t => thread'[u] = thread[u],
         state' = state,
         WorkOK(thread[t])',
         \/ thread'[t].pc \notin HoldsAssigned
         \/ thread[t].pc \in HoldsAssigned /\ thread'[t].client = thread[t].client
         \/ AssignedFree(thread'[t].client),
         thread'[t].pc \in Evicting => thread[t].pc \in Evicting \/ CanUpgrade,
         \A u \in Thread : u # t /\ thread[u].pc # "idle" => thread[u].client \in clients',
         \A u \in Thread : u # t /\ thread[u].pc \in {"allocate", "record"} =>
           assigned'[thread[u].session] = assigned[thread[u].session],
         \A s \in Server : \A i \in sessionList'[s] :
           \/ /\ i \in sessionList[s]
              /\ i[1] \in clients' => i[1] \in clients /\ assigned'[i] = assigned[i]
           \/ /\ assigned'[i] = s /\ state[s] # "gone"
              /\ thread[t].pc \in HoldsAssigned /\ i[1] = thread[t].client
  PROVE IInv'
<1>1. ASSUME NEW u \in Thread, u # t
      PROVE WorkOK(thread[u])'
  <2>1. WorkOK(thread[u])
    BY DEF IInv
  <2>2. \A s \in Server : \A i \in sessionList'[s] :
          i \in sessionList[s] \/ (thread[t].pc \in HoldsAssigned /\ i[1] = thread[t].client)
    OBVIOUS
  <2>3. thread[u].pc \in HoldsAssigned /\ thread[t].pc \in HoldsAssigned =>
          thread[u].client # thread[t].client
    BY <1>1 DEF IInv, AssignedMutex
  <2>4. thread[u].pc \in {"closeCall", "removeCall"} => Uncounted(thread[u].session)'
    BY <1>1, <2>1, <2>2, <2>3 DEF WorkOK, Uncounted, HoldsAssigned
  <2>5. thread[u].pc \in {"remove", "removeCall"} =>
          \A s \in Server : \A i \in sessionList'[s] :
            i[1] = thread[u].client => i \in thread[u].todo
    BY <1>1, <2>1, <2>2, <2>3 DEF WorkOK, HoldsAssigned
  <2>6. thread'[u] = thread[u]
    BY <1>1
  <2> QED
    BY <1>1, <2>1, <2>4, <2>5, <2>6 DEF WorkOK, Uncounted
<1>2. AssignedMutex'
  BY DEF IInv, AssignedMutex, AssignedFree
<1>3. OneEvictor'
  BY DEF IInv, OneEvictor, CanUpgrade, Upgradable
<1>4. RecordedSessionsAreAssigned'
  BY DEF IInv, RecordedSessionsAreAssigned
<1>5. \A s \in Server : state'[s] = "gone" => sessionList'[s] = {}
  BY DEF IInv
<1> QED
  BY <1>1, <1>2, <1>3, <1>4, <1>5 DEF IInv

\* The same for a step that leaves the sessions as they are.
LEMMA QuietStep ==
  ASSUME IInv, NEW t \in Thread, NEW w \in Job, thread' = [thread EXCEPT ![t] = w],
         UNCHANGED <<clientVars, sessionList, state>>,
         allocated' \in [Server -> 0 .. Modulus - 1],
         clientList' \in [Server -> SUBSET Client],
         \A s \in Server : IsFiniteSet(clientList'[s]),
         WorkOK(w),
         \/ w.pc \notin HoldsAssigned
         \/ thread[t].pc \in HoldsAssigned /\ w.client = thread[t].client
         \/ AssignedFree(w.client),
         w.pc \in Evicting => thread[t].pc \in Evicting \/ CanUpgrade
  PROVE IInv'
<1>1. /\ thread' \in [Thread -> Job]
      /\ thread'[t] = w
      /\ \A u \in Thread : u # t => thread'[u] = thread[u]
  BY ThreadUpdate DEF IInv
<1>2. TypeOK'
  BY <1>1 DEF IInv, TypeOK, Job, clientVars
<1>3. WorkOK(thread[t])'
  BY <1>1 DEF WorkOK, Uncounted, clientVars
<1>4. \A u \in Thread : thread[u].pc # "idle" => thread[u].client \in clients'
  BY DEF IInv, WorkOK, clientVars
<1> QED
  BY <1>1, <1>2, <1>3, <1>4, StepKeeps DEF clientVars

\* A call ends.
LEMMA FinishStep ==
  ASSUME IInv, NEW t \in Thread, Finish(t),
         UNCHANGED <<clientVars, sessionList, state>>,
         allocated' \in [Server -> 0 .. Modulus - 1],
         clientList' \in [Server -> SUBSET Client],
         \A s \in Server : IsFiniteSet(clientList'[s])
  PROVE IInv'
<1>1. WorkOK(Idle) /\ Idle.pc \notin HoldsAssigned /\ Idle.pc \notin Evicting
  BY IdleType DEF WorkOK, HoldsServerManager, HoldsAssigned, Evicting
<1> QED
  BY <1>1, IdleType, QuietStep DEF Finish

LEMMA ListsFinite ==
  ASSUME IInv, NEW s, NEW c \in Client
  PROVE /\ \A r \in Server : IsFiniteSet([clientList EXCEPT ![s] = @ \cup {c}][r])
        /\ \A r \in Server : IsFiniteSet([clientList EXCEPT ![s] = @ \ {c}][r])
        /\ [clientList EXCEPT ![s] = @ \cup {c}] \in [Server -> SUBSET Client]
        /\ [clientList EXCEPT ![s] = @ \ {c}] \in [Server -> SUBSET Client]
<1>1. clientList \in [Server -> SUBSET Client] /\ \A r \in Server : IsFiniteSet(clientList[r])
  BY DEF IInv, TypeOK
<1>2. \A r \in Server : IsFiniteSet(clientList[r] \cup {c})
  BY <1>1, FS_AddElement
<1>3. \A r \in Server : IsFiniteSet(clientList[r] \ {c})
  BY <1>1, FS_RemoveElement
<1> QED
  BY <1>1, <1>2, <1>3

-----------------------------------------------------------------------------
(* One lemma per action: calls of clients.                                 *)

LEMMA CallStep ==
  ASSUME IInv, NEW t \in Thread, NEW w \in Job, thread' = [thread EXCEPT ![t] = w],
         UNCHANGED <<clientVars, serverVars>>,
         WorkOK(w),
         \/ w.pc \notin HoldsAssigned
         \/ thread[t].pc \in HoldsAssigned /\ w.client = thread[t].client
         \/ AssignedFree(w.client),
         w.pc \in Evicting => thread[t].pc \in Evicting \/ CanUpgrade
  PROVE IInv'
<1>1. /\ allocated' \in [Server -> 0 .. Modulus - 1]
      /\ clientList' \in [Server -> SUBSET Client]
      /\ \A s \in Server : IsFiniteSet(clientList'[s])
  BY DEF IInv, TypeOK, serverVars
<1> QED
  BY <1>1, QuietStep DEF serverVars

LEMMA OpenInv ==
  ASSUME IInv, NEW t \in Handler, NEW c \in Client,
         openClientDbSession(t, c) \/ disconnectClient(t, c)
  PROVE IInv'
<1> t \in Thread
  BY DEF Thread
<1>1. PICK pc \in {"find", "evict"} :
        /\ Accepts(t, c)
        /\ pc = "evict" => CanUpgrade
        /\ Begin(t, c, pc)
        /\ UNCHANGED <<clientVars, serverVars>>
  BY DEF openClientDbSession, disconnectClient
<1> DEFINE w == [Idle EXCEPT !.pc = pc, !.client = c]
<1>2. /\ w \in Job /\ w.pc = pc /\ w.client = c
      /\ thread' = [thread EXCEPT ![t] = w]
  BY <1>1 DEF Begin, Idle, Job, PCs, Opening, Evicting
<1> HIDE DEF w
<1>3. WorkOK(w) /\ w.pc \notin HoldsAssigned
  BY <1>1, <1>2 DEF WorkOK, Accepts, HoldsServerManager, HoldsAssigned
<1>4. w.pc \in Evicting => CanUpgrade
  BY <1>1, <1>2 DEF Evicting
<1> QED
  BY <1>1, <1>2, <1>3, <1>4, CallStep

LEMMA CloseInv ==
  ASSUME IInv, NEW t \in Handler, NEW i \in Session, closeClientDbSession(t, i)
  PROVE IInv'
<1> t \in Thread
  BY DEF Thread
<1> DEFINE w == [Idle EXCEPT !.pc = "close", !.client = i[1], !.session = i]
<1>1. i[1] \in Client
  BY DEF Session
<1>2. /\ w \in Job /\ w.pc = "close" /\ w.client = i[1] /\ w.session = i
      /\ thread' = [thread EXCEPT ![t] = w]
  BY <1>1 DEF closeClientDbSession, Idle, Job, PCs, Closing
<1> HIDE DEF w
<1>3. WorkOK(w) /\ w.pc \notin HoldsAssigned /\ w.pc \notin Evicting
  BY <1>1, <1>2 DEF WorkOK, closeClientDbSession, Accepts, HoldsServerManager, HoldsAssigned,
                    Evicting
<1> QED
  BY <1>2, <1>3, CallStep DEF closeClientDbSession

\* Steps that concern no thread.
LEMMA NoThreadStep ==
  ASSUME IInv, UNCHANGED <<thread, assigned>>,
         clients \subseteq clients',
         TypeOK', (\A s \in Server : IsFiniteSet(clientList[s]))',
         \A s \in Server : sessionList'[s] \subseteq sessionList[s],
         \A s \in Server : \A i \in sessionList'[s] : i[1] \in clients' => i[1] \in clients,
         \A s \in Server : state'[s] = "gone" => sessionList'[s] = {},
         \A s \in Server : state'[s] = "gone" =>
           state[s] = "gone" \/ \A t \in Thread : ~Holds(t, s)
  PROVE IInv'
<1>1. ASSUME NEW t \in Thread
      PROVE WorkOK(thread[t])'
  <2>1. WorkOK(thread[t])
    BY DEF IInv
  <2>2. thread'[t] = thread[t]
    OBVIOUS
  <2> QED
    BY <2>1, <2>2 DEF WorkOK, Uncounted, Holds
<1>2. AssignedMutex' /\ OneEvictor' /\ RecordedSessionsAreAssigned'
  BY DEF IInv, AssignedMutex, OneEvictor, RecordedSessionsAreAssigned
<1> QED
  BY <1>1, <1>2 DEF IInv

LEMMA ConnectInv ==
  ASSUME IInv, NEW c \in Client, connectClient(c) \/ keepClientAlive(c) \/ timerExpires(c)
  PROVE IInv'
<1>1. TypeOK'
  <2>1. expired' \in [Client -> BOOLEAN]
    BY DEF IInv, TypeOK, connectClient, keepClientAlive, timerExpires
  <2> QED
    BY <2>1 DEF IInv, TypeOK, connectClient, keepClientAlive, timerExpires, serverVars
<1> QED
  BY <1>1, NoThreadStep DEF IInv, connectClient, keepClientAlive, timerExpires, FreshClient,
                            serverVars

LEMMA EnvironmentInv ==
  ASSUME IInv, NEW s \in Server,
         \/ \E c \in Client : evaluateClientStatus(s, c)
         \/ serverCrashes(s) \/ serverDestroyed(s) \/ isFree(s)
  PROVE IInv'
<1>1. ASSUME NEW c \in Client, evaluateClientStatus(s, c)
      PROVE IInv'
  <2>1. TypeOK' /\ (\A r \in Server : IsFiniteSet(clientList[r]))'
    BY <1>1, ListsFinite DEF IInv, TypeOK, evaluateClientStatus, clientVars
  <2> QED
    BY <1>1, <2>1, NoThreadStep DEF IInv, evaluateClientStatus, clientVars
<1>2. CASE serverCrashes(s)
  <2>1. TypeOK' /\ (\A r \in Server : IsFiniteSet(clientList[r]))'
    BY <1>2, FS_EmptySet DEF IInv, TypeOK, serverCrashes, clientVars
  <2>2. \A r \in Server : state'[r] = "gone" => state[r] = "gone"
    BY <1>2 DEF IInv, TypeOK, serverCrashes
  <2> QED
    BY <1>2, <2>1, <2>2, NoThreadStep DEF IInv, serverCrashes, clientVars
<1>3. CASE serverDestroyed(s)
  <2>1. TypeOK' /\ (\A r \in Server : IsFiniteSet(clientList[r]))'
    BY <1>3, ConstantsAssumption DEF IInv, TypeOK, serverDestroyed, clientVars
  <2>2. \A r \in Server : r # s => state'[r] = state[r] /\ sessionList'[r] = sessionList[r]
    BY <1>3 DEF IInv, TypeOK, serverDestroyed
  <2>3. sessionList'[s] = {}
    BY <1>3 DEF IInv, TypeOK, serverDestroyed
  <2> QED
    BY <1>3, <2>1, <2>2, <2>3, NoThreadStep DEF IInv, serverDestroyed, clientVars
<1>4. CASE isFree(s)
  <2>1. TypeOK' /\ (\A r \in Server : IsFiniteSet(clientList[r]))'
    BY <1>4, CountsType DEF IInv, TypeOK, isFree, clientVars
  <2> QED
    BY <1>4, <2>1, NoThreadStep DEF IInv, isFree, clientVars
<1> QED
  BY <1>1, <1>2, <1>3, <1>4

-----------------------------------------------------------------------------
(* One lemma per action: the steps of a call, and the worker.              *)

LEMMA FindInv ==
  ASSUME IInv, NEW t \in Thread,
         (\E s \in Server : tryGetFreeLocalServer(t, s)) \/ noServerAvailable(t)
  PROVE IInv'
<1>0. clientList' \in [Server -> SUBSET Client] /\ \A s \in Server : IsFiniteSet(clientList'[s])
  BY DEF IInv, TypeOK, tryGetFreeLocalServer, noServerAvailable
<1>1. ASSUME NEW s \in Server, tryGetFreeLocalServer(t, s)
      PROVE IInv'
  <2>1. allocated' \in [Server -> 0 .. Modulus - 1]
    BY <1>1, CountsType DEF tryGetFreeLocalServer, FreeCounts, IInv, TypeOK
  <2> DEFINE w == [thread[t] EXCEPT !.pc = "add", !.server = s]
  <2>2. /\ thread' = [thread EXCEPT ![t] = w]
        /\ w \in Job /\ w.pc = "add" /\ w.server = s /\ w.client = thread[t].client
    BY <1>1, JobType DEF tryGetFreeLocalServer, IInv, Job, PCs, Opening
  <2> HIDE DEF w
  <2>3. WorkOK(w) /\ w.pc \notin HoldsAssigned /\ w.pc \notin Evicting
    BY <1>1, <2>2 DEF tryGetFreeLocalServer, IInv, WorkOK, HoldsAssigned, Evicting
  <2> QED
    BY <1>0, <1>1, <2>1, <2>2, <2>3, QuietStep DEF tryGetFreeLocalServer
<1>2. CASE noServerAvailable(t)
  <2>1. allocated' \in [Server -> 0 .. Modulus - 1]
    BY <1>2 DEF noServerAvailable, IInv, TypeOK
  <2> QED
    BY <1>0, <1>2, <2>1, FinishStep DEF noServerAvailable
<1> QED
  BY <1>1, <1>2

LEMMA AddInv ==
  ASSUME IInv, NEW t \in Thread, NEW i \in Session, addDbSession(t, i)
  PROVE IInv'
<1> DEFINE w == [thread[t] EXCEPT !.pc = "allocate", !.session = i]
<1>1. /\ thread' = [thread EXCEPT ![t] = w]
      /\ w \in Job /\ w.pc = "allocate" /\ w.session = i
      /\ w.server = thread[t].server /\ w.client = thread[t].client
  BY JobType DEF addDbSession, IInv, Job, PCs, Opening
<1> HIDE DEF w
<1>2. /\ thread' \in [Thread -> Job]
      /\ thread'[t] = w
      /\ \A u \in Thread : u # t => thread'[u] = thread[u]
  BY <1>1, ThreadUpdate DEF IInv
<1>3. thread[t].pc = "add" /\ WorkOK(thread[t])
  BY DEF addDbSession, IInv
<1>4. /\ assigned' \in [Session -> Server \cup {None}]
      /\ assigned'[i] = thread[t].server
      /\ \A j \in Session : j # i => assigned'[j] = assigned[j]
  BY <1>3 DEF addDbSession, IInv, TypeOK, WorkOK, HoldsServerManager
<1>5. TypeOK' /\ (\A s \in Server : IsFiniteSet(clientList[s]))'
  BY <1>2, <1>4 DEF addDbSession, IInv, TypeOK, Job, serverVars
<1>6. WorkOK(thread[t])'
  BY <1>1, <1>2, <1>3, <1>4 DEF addDbSession, WorkOK, HoldsServerManager, serverVars
<1>7. \A u \in Thread : u # t /\ thread[u].pc \in {"allocate", "record"} =>
        assigned'[thread[u].session] = assigned[thread[u].session]
  BY <1>4 DEF addDbSession, FreshSession, IInv, WorkOK
<1>8. \A s \in Server : \A j \in sessionList'[s] :
        j \in sessionList[s] /\ assigned'[j] = assigned[j]
  BY <1>4 DEF addDbSession, FreshSession, IInv, TypeOK, serverVars
<1>9. /\ AssignedFree(thread'[t].client)
      /\ thread'[t].pc \notin Evicting
      /\ state' = state /\ clients' = clients
      /\ \A u \in Thread : thread[u].pc # "idle" => thread[u].client \in clients'
  BY <1>1, <1>2 DEF addDbSession, Evicting, serverVars, IInv, WorkOK
<1> QED
  BY <1>2, <1>5, <1>6, <1>7, <1>8, <1>9, StepKeeps

LEMMA AllocateInv ==
  ASSUME IInv, NEW t \in Thread, allocateClient(t)
  PROVE IInv'
<1> DEFINE s == thread[t].server
           c == thread[t].client
           w == [thread[t] EXCEPT !.pc = "record"]
<1>1. thread[t].pc = "allocate" /\ WorkOK(thread[t]) /\ s \in Server /\ c \in Client
  BY DEF allocateClient, IInv, TypeOK, WorkOK, HoldsServerManager
<1>2. allocated' \in [Server -> 0 .. Modulus - 1]
  <2>1. \A n \in FreeCounts(s) \cup FullCounts(s) : n \in 0 .. Modulus - 1
    BY <1>1, CountsType DEF FreeCounts, FullCounts
  <2> QED
    BY <2>1, <1>1 DEF allocateClient, IInv, TypeOK
<1>3. /\ clientList' \in [Server -> SUBSET Client]
      /\ \A r \in Server : IsFiniteSet(clientList'[r])
  <2>1. clientList' = clientList \/ clientList' = [clientList EXCEPT ![s] = @ \cup {c}]
    BY DEF allocateClient
  <2>2. CASE clientList' = clientList
    BY <2>2 DEF IInv, TypeOK
  <2>3. CASE clientList' = [clientList EXCEPT ![s] = @ \cup {c}]
    BY <1>1, <2>3, ListsFinite
  <2> QED
    BY <2>1, <2>2, <2>3
<1>4. CASE Finish(t)
  BY <1>2, <1>3, <1>4, FinishStep DEF allocateClient
<1>5. CASE Goto(t, "record")
  <2>1. /\ thread' = [thread EXCEPT ![t] = w]
        /\ w \in Job /\ w.pc = "record" /\ w.session = thread[t].session
        /\ w.server = s /\ w.client = c
    BY <1>5, JobType DEF Goto, IInv, Job, PCs, Opening
  <2> HIDE DEF w
  <2>2. WorkOK(w) /\ w.pc \notin Evicting
    BY <1>1, <2>1 DEF WorkOK, HoldsServerManager, Evicting
  <2>3. thread[t].pc \in HoldsAssigned
    BY <1>1 DEF HoldsAssigned
  <2> QED
    BY <1>2, <1>3, <2>1, <2>2, <2>3, QuietStep DEF allocateClient
<1> QED
  BY <1>4, <1>5 DEF allocateClient

LEMMA DeniedInv ==
  ASSUME IInv, NEW t \in Thread, addDbSessionDenied(t)
  PROVE IInv'
<1>1. /\ allocated' \in [Server -> 0 .. Modulus - 1]
      /\ clientList' \in [Server -> SUBSET Client]
      /\ \A s \in Server : IsFiniteSet(clientList'[s])
  BY DEF addDbSessionDenied, IInv, TypeOK, serverVars
<1> QED
  BY <1>1, FinishStep DEF addDbSessionDenied, serverVars

LEMMA RecordInv ==
  ASSUME IInv, NEW t \in Thread, recordSession(t)
  PROVE IInv'
<1> DEFINE s == thread[t].server
           i == thread[t].session
<1>1. /\ thread[t].pc = "record" /\ WorkOK(thread[t])
      /\ s \in Server /\ i \in Session /\ i[1] = thread[t].client
      /\ assigned[i] = s /\ state[s] # "gone"
  BY DEF recordSession, IInv, WorkOK, HoldsServerManager
<1>2. /\ clientList' \in [Server -> SUBSET Client]
      /\ \A r \in Server : IsFiniteSet(clientList'[r])
  BY DEF recordSession, IInv, TypeOK
<1>3. CASE UNCHANGED <<sessionList, allocated>>
  <2>1. allocated' \in [Server -> 0 .. Modulus - 1]
    BY <1>3 DEF IInv, TypeOK
  <2> QED
    BY <1>2, <1>3, <2>1, FinishStep DEF recordSession
<1>4. CASE /\ sessionList' = [sessionList EXCEPT ![s] = @ \cup {i}]
           /\ allocated' = [allocated EXCEPT ![s] = (@ + 1) % Modulus]
  <2>1. /\ thread' \in [Thread -> Job]
        /\ thread'[t] = Idle
        /\ \A u \in Thread : u # t => thread'[u] = thread[u]
    BY IdleType, ThreadUpdate DEF recordSession, Finish, IInv
  <2>2. (allocated[s] + 1) % Modulus \in 0 .. Modulus - 1
    BY <1>1, Wraps DEF IInv, TypeOK
  <2>3. allocated' \in [Server -> 0 .. Modulus - 1]
    BY <1>4, <2>2 DEF IInv, TypeOK
  <2>4. /\ sessionList' \in [Server -> SUBSET Session]
        /\ \A r \in Server : \A j \in sessionList'[r] :
             j \in sessionList[r] \/ (r = s /\ j = i)
    BY <1>1, <1>4 DEF IInv, TypeOK
  <2>5. TypeOK'
    BY <2>1, <2>3, <2>4 DEF recordSession, IInv, TypeOK, Job, clientVars
  <2>6. WorkOK(thread[t])' /\ thread'[t].pc \notin HoldsAssigned /\ thread'[t].pc \notin Evicting
    BY <2>1, IdleType DEF WorkOK, HoldsServerManager, HoldsAssigned, Evicting
  <2>7. /\ state' = state /\ assigned' = assigned /\ clients' = clients
        /\ \A u \in Thread : thread[u].pc # "idle" => thread[u].client \in clients'
    BY DEF recordSession, clientVars, IInv, WorkOK
  <2>8. thread[t].pc \in HoldsAssigned
    BY <1>1 DEF HoldsAssigned
  <2> QED
    BY <1>1, <1>2, <2>1, <2>4, <2>5, <2>6, <2>7, <2>8, StepKeeps
<1> QED
  BY <1>3, <1>4 DEF recordSession

LEMMA UncountType ==
  ASSUME IInv, NEW s, NEW i, Uncount(s, i)
  PROVE /\ allocated' \in [Server -> 0 .. Modulus - 1]
        /\ sessionList' \in [Server -> SUBSET Session]
        /\ \A r \in Server : sessionList'[r] \subseteq sessionList[r]
        /\ s \in Server => i \notin sessionList'[s]
<1>1. \A r \in Server : (allocated[r] - 1) % Modulus \in 0 .. Modulus - 1
  BY Wraps DEF IInv, TypeOK
<1> QED
  BY <1>1 DEF Uncount, IInv, TypeOK

LEMMA RemoveSessionInv ==
  ASSUME IInv, NEW t \in Thread, removeDbSession(t)
  PROVE IInv'
<1> DEFINE i == thread[t].session
           s == assigned[i]
           w == [thread[t] EXCEPT !.pc = "closeCall", !.server = s]
<1>1. /\ thread[t].pc = "close" /\ WorkOK(thread[t])
      /\ i \in Session /\ i[1] = thread[t].client /\ thread[t].client \in clients
      /\ s \in Server \cup {None}
      /\ AssignedFree(thread[t].client)
  BY DEF removeDbSession, IInv, TypeOK, WorkOK
<1>2. /\ state' = state /\ clients' = clients /\ expired' = expired /\ clientList' = clientList
      /\ \A u \in Thread : thread[u].pc # "idle" => thread[u].client \in clients'
  BY DEF removeDbSession, IInv, WorkOK
<1>3. \A r \in Server : i \in sessionList[r] => r = s
  BY <1>1 DEF IInv, RecordedSessionsAreAssigned
<1>4. CASE s # None /\ state[s] # "gone"
  <2>1. /\ Uncount(s, i) /\ assigned' = assigned /\ s \in Server
        /\ thread' = [thread EXCEPT ![t] = w]
    BY <1>1, <1>4 DEF removeDbSession
  <2>2. /\ w \in Job /\ w.pc = "closeCall" /\ w.session = i /\ w.client = thread[t].client
        /\ w.server = s
    BY <1>1, JobType DEF IInv, Job, PCs, Closing
  <2> HIDE DEF w
  <2>3. /\ thread' \in [Thread -> Job]
        /\ thread'[t] = w
        /\ \A u \in Thread : u # t => thread'[u] = thread[u]
    BY <2>1, <2>2, ThreadUpdate DEF IInv
  <2>4. TypeOK' /\ (\A r \in Server : IsFiniteSet(clientList[r]))'
    BY <1>2, <2>1, <2>3, UncountType DEF IInv, TypeOK, Job
  <2>5. \A r \in Server : i \notin sessionList'[r]
    BY <1>3, <2>1, UncountType
  <2>6. WorkOK(thread[t])'
    BY <1>1, <1>2, <2>2, <2>3, <2>5 DEF WorkOK, Uncounted, HoldsServerManager
  <2>7. AssignedFree(thread'[t].client) /\ thread'[t].pc \notin Evicting
    BY <1>1, <2>2, <2>3 DEF Evicting
  <2>8. \A r \in Server : sessionList'[r] \subseteq sessionList[r]
    BY <2>1, UncountType
  <2> QED
    BY <1>2, <2>1, <2>3, <2>4, <2>6, <2>7, <2>8, StepKeeps
<1>5. CASE ~(s # None /\ state[s] # "gone")
  <2>1. /\ Finish(t) /\ sessionList' = sessionList /\ allocated' = allocated
        /\ assigned' = [assigned EXCEPT ![i] = None]
    BY <1>5 DEF removeDbSession
  <2>2. /\ assigned' \in [Session -> Server \cup {None}]
        /\ \A j \in Session : j # i => assigned'[j] = assigned[j]
    BY <1>1, <2>1 DEF IInv, TypeOK
  <2>3. /\ thread' \in [Thread -> Job]
        /\ thread'[t] = Idle
        /\ \A u \in Thread : u # t => thread'[u] = thread[u]
    BY <2>1, IdleType, ThreadUpdate DEF Finish, IInv
  <2>4. TypeOK' /\ (\A r \in Server : IsFiniteSet(clientList[r]))'
    BY <1>2, <2>1, <2>2, <2>3 DEF IInv, TypeOK, Job
  <2>5. WorkOK(thread[t])' /\ thread'[t].pc \notin HoldsAssigned /\ thread'[t].pc \notin Evicting
    BY <2>3, IdleType DEF WorkOK, HoldsServerManager, HoldsAssigned, Evicting
  <2>6. \A r \in Server : i \notin sessionList[r]
    BY <1>1, <1>3, <1>5, ConstantsAssumption DEF IInv
  <2>7. \A r \in Server : \A j \in sessionList'[r] :
          j \in sessionList[r] /\ assigned'[j] = assigned[j]
    BY <2>1, <2>2, <2>6 DEF IInv, TypeOK
  <2>8. \A u \in Thread : u # t /\ thread[u].pc \in {"allocate", "record"} =>
          assigned'[thread[u].session] = assigned[thread[u].session]
    BY <1>1, <2>2 DEF IInv, WorkOK, AssignedFree, HoldsAssigned
  <2> QED
    BY <1>2, <2>3, <2>4, <2>5, <2>7, <2>8, StepKeeps
<1> QED
  BY <1>4, <1>5

LEMMA RemoveSessionCallInv ==
  ASSUME IInv, NEW t \in Thread, removeDbSessionCall(t)
  PROVE IInv'
<1> DEFINE i == thread[t].session
           s == thread[t].server
<1>1. /\ thread[t].pc = "closeCall" /\ Uncounted(i)
      /\ i \in Session /\ i[1] = thread[t].client /\ i[1] \in Client
  BY DEF removeDbSessionCall, IInv, WorkOK, Session
<1>2. /\ thread' \in [Thread -> Job]
      /\ thread'[t] = Idle
      /\ \A u \in Thread : u # t => thread'[u] = thread[u]
  BY IdleType, ThreadUpdate DEF removeDbSessionCall, Finish, IInv
<1>3. /\ clientList' \in [Server -> SUBSET Client]
      /\ \A r \in Server : IsFiniteSet(clientList'[r])
  <2>1. clientList' = clientList \/ clientList' = [clientList EXCEPT ![s] = @ \ {i[1]}]
    BY DEF removeDbSessionCall
  <2>2. CASE clientList' = clientList
    BY <2>2 DEF IInv, TypeOK
  <2>3. CASE clientList' = [clientList EXCEPT ![s] = @ \ {i[1]}]
    BY <1>1, <2>3, ListsFinite
  <2> QED
    BY <2>1, <2>2, <2>3
<1>4. /\ assigned' \in [Session -> Server \cup {None}]
      /\ \A j \in Session : j # i => assigned'[j] = assigned[j]
  BY <1>1 DEF removeDbSessionCall, IInv, TypeOK
<1>5. TypeOK'
  BY <1>2, <1>3, <1>4 DEF removeDbSessionCall, IInv, TypeOK, Job
<1>6. WorkOK(thread[t])' /\ thread'[t].pc \notin HoldsAssigned /\ thread'[t].pc \notin Evicting
  BY <1>2, IdleType DEF WorkOK, HoldsServerManager, HoldsAssigned, Evicting
<1>7. /\ state' = state /\ clients' = clients
      /\ \A u \in Thread : thread[u].pc # "idle" => thread[u].client \in clients'
  BY DEF removeDbSessionCall, IInv, WorkOK
<1>8. \A u \in Thread : u # t /\ thread[u].pc \in {"allocate", "record"} =>
        assigned'[thread[u].session] = assigned[thread[u].session]
  BY <1>1, <1>4 DEF IInv, WorkOK, AssignedMutex, HoldsAssigned
<1>9. \A r \in Server : \A j \in sessionList'[r] :
        j \in sessionList[r] /\ assigned'[j] = assigned[j]
  BY <1>1, <1>4 DEF removeDbSessionCall, Uncounted, IInv, TypeOK
<1> QED
  BY <1>2, <1>3, <1>5, <1>6, <1>7, <1>8, <1>9, StepKeeps

LEMMA RemoveClientInv ==
  ASSUME IInv, NEW t \in Thread, removeClientFromServers(t)
  PROVE IInv'
<1> DEFINE c == thread[t].client
           w == [thread[t] EXCEPT !.pc = "remove", !.todo = SessionsOf(c)]
<1>1. thread[t].pc = "evict" /\ AssignedFree(c) /\ c \in clients
  BY DEF removeClientFromServers, IInv, WorkOK
<1>2. SessionsOf(c) \subseteq Session
  BY DEF SessionsOf
<1>3. /\ thread' = [thread EXCEPT ![t] = w]
      /\ w \in Job /\ w.pc = "remove" /\ w.client = c /\ w.todo = SessionsOf(c)
  BY <1>2, JobType DEF removeClientFromServers, IInv, Job, PCs, Evicting
<1> HIDE DEF w
<1>4. /\ \A i \in SessionsOf(c) : i[1] = c
      /\ \A s \in Server : \A i \in sessionList[s] : i[1] = c => i \in SessionsOf(c)
  BY <1>1, ConstantsAssumption DEF IInv, TypeOK, RecordedSessionsAreAssigned, SessionsOf
<1>5. WorkOK(w)
  BY <1>1, <1>3, <1>4 DEF WorkOK, HoldsServerManager
<1>6. thread[t].pc \in Evicting
  BY <1>1 DEF Evicting
<1> QED
  BY <1>1, <1>3, <1>5, <1>6, CallStep DEF removeClientFromServers

LEMMA RemoveFromServerInv ==
  ASSUME IInv, NEW t \in Thread, NEW i \in Session, removeFromServer(t, i)
  PROVE IInv'
<1> DEFINE c == thread[t].client
           s == assigned[i]
<1>1. /\ thread[t].pc = "remove" /\ i \in thread[t].todo /\ c \in clients
      /\ \A j \in thread[t].todo : j[1] = c
      /\ \A r \in Server : \A j \in sessionList[r] : j[1] = c => j \in thread[t].todo
  BY DEF removeFromServer, IInv, WorkOK
<1>2. /\ state' = state /\ clients' = clients /\ assigned' = assigned
      /\ expired' = expired /\ clientList' = clientList
      /\ \A u \in Thread : thread[u].pc # "idle" => thread[u].client \in clients'
  BY DEF removeFromServer, clientVars, IInv, WorkOK
<1>3. thread[t].pc \in HoldsAssigned /\ thread[t].pc \in Evicting
  BY <1>1 DEF HoldsAssigned, Evicting
<1>4. CASE state[s] # "gone"
  <2> DEFINE w == [thread[t] EXCEPT !.pc = "removeCall", !.session = i, !.server = s]
  <2>1. /\ Uncount(s, i) /\ s \in Server \cup {None}
        /\ thread' = [thread EXCEPT ![t] = w]
    BY <1>4 DEF removeFromServer, IInv, TypeOK
  <2>2. /\ w \in Job /\ w.pc = "removeCall" /\ w.session = i /\ w.client = c
        /\ w.todo = thread[t].todo
    BY <2>1, JobType DEF IInv, Job, PCs, Evicting
  <2> HIDE DEF w
  <2>3. /\ thread' \in [Thread -> Job]
        /\ thread'[t] = w
        /\ \A u \in Thread : u # t => thread'[u] = thread[u]
    BY <2>1, <2>2, ThreadUpdate DEF IInv
  <2>4. TypeOK' /\ (\A r \in Server : IsFiniteSet(clientList[r]))'
    BY <1>2, <2>1, <2>3, UncountType DEF IInv, TypeOK, Job
  <2>5. i[1] = c
    BY <1>1
  <2>6. \A r \in Server : i \notin sessionList'[r]
    BY <1>1, <2>1, <2>5, UncountType DEF IInv, RecordedSessionsAreAssigned
  <2>7. WorkOK(thread[t])'
    BY <1>1, <1>2, <2>1, <2>2, <2>3, <2>5, <2>6, UncountType
    DEF WorkOK, Uncounted, HoldsServerManager
  <2>8. \A r \in Server : sessionList'[r] \subseteq sessionList[r]
    BY <2>1, UncountType
  <2> QED
    BY <1>2, <1>3, <2>2, <2>3, <2>4, <2>7, <2>8, StepKeeps
<1>5. CASE state[s] = "gone"
  <2> DEFINE w == [thread[t] EXCEPT !.todo = @ \ {i}]
  <2>1. /\ UNCHANGED <<clientVars, serverVars>>
        /\ thread' = [thread EXCEPT ![t] = w]
    BY <1>5 DEF removeFromServer, serverVars
  <2>2. w \in Job /\ w.pc = "remove" /\ w.client = c /\ w.todo = thread[t].todo \ {i}
    BY <1>1, JobType DEF IInv, Job
  <2> HIDE DEF w
  <2>3. \A r \in Server : i \notin sessionList[r]
    BY <1>1, <1>5 DEF IInv, RecordedSessionsAreAssigned
  <2>4. WorkOK(w)
    BY <1>1, <2>2, <2>3 DEF WorkOK, HoldsServerManager
  <2> QED
    BY <1>3, <2>1, <2>2, <2>4, CallStep
<1> QED
  BY <1>4, <1>5

LEMMA RemoveFromServerCallInv ==
  ASSUME IInv, NEW t \in Thread, removeFromServerCall(t)
  PROVE IInv'
<1> DEFINE i == thread[t].session
           s == thread[t].server
           w == [thread[t] EXCEPT !.pc = "remove", !.server = None,
                                  !.session = None, !.todo = @ \ {i}]
<1>1. /\ thread[t].pc = "removeCall" /\ Uncounted(i) /\ WorkOK(thread[t])
      /\ i \in Session /\ i[1] = thread[t].client /\ i[1] \in Client
  BY DEF removeFromServerCall, IInv, WorkOK, Session
<1>2. /\ clientList' \in [Server -> SUBSET Client]
      /\ \A r \in Server : IsFiniteSet(clientList'[r])
  <2>1. clientList' = clientList \/ clientList' = [clientList EXCEPT ![s] = @ \ {i[1]}]
    BY DEF removeFromServerCall
  <2>2. CASE clientList' = clientList
    BY <2>2 DEF IInv, TypeOK
  <2>3. CASE clientList' = [clientList EXCEPT ![s] = @ \ {i[1]}]
    BY <1>1, <2>3, ListsFinite
  <2> QED
    BY <2>1, <2>2, <2>3
<1>3. allocated' \in [Server -> 0 .. Modulus - 1]
  BY DEF removeFromServerCall, IInv, TypeOK
<1>4. CASE Finish(t)
  BY <1>2, <1>3, <1>4, FinishStep DEF removeFromServerCall
<1>5. CASE thread' = [thread EXCEPT ![t] = w]
  <2>1. w \in Job /\ w.pc = "remove" /\ w.client = thread[t].client /\ w.todo = thread[t].todo \ {i}
    BY JobType DEF IInv, Job, PCs, Evicting
  <2> HIDE DEF w
  <2>2. WorkOK(w)
    BY <1>1, <2>1 DEF WorkOK, HoldsServerManager, Uncounted
  <2>3. thread[t].pc \in HoldsAssigned /\ thread[t].pc \in Evicting
    BY <1>1 DEF HoldsAssigned, Evicting
  <2> QED
    BY <1>2, <1>3, <1>5, <2>1, <2>2, <2>3, QuietStep DEF removeFromServerCall
<1> QED
  BY <1>4, <1>5 DEF removeFromServerCall

LEMMA ClearInv ==
  ASSUME IInv, NEW t \in Thread, clearAssignedServers(t)
  PROVE IInv'
<1> DEFINE c == thread[t].client
           w == [thread[t] EXCEPT !.pc = "erase"]
<1>1. /\ thread[t].pc = "remove" /\ c \in clients
      /\ \A s \in Server : \A i \in sessionList[s] : i[1] # c
  BY DEF clearAssignedServers, IInv, WorkOK
<1>2. /\ thread' = [thread EXCEPT ![t] = w]
      /\ w \in Job /\ w.pc = "erase" /\ w.client = c
  BY JobType DEF clearAssignedServers, Goto, IInv, Job, PCs, Evicting
<1> HIDE DEF w
<1>3. /\ thread' \in [Thread -> Job]
      /\ thread'[t] = w
      /\ \A u \in Thread : u # t => thread'[u] = thread[u]
  BY <1>2, ThreadUpdate DEF IInv
<1>4. /\ assigned' \in [Session -> Server \cup {None}]
      /\ \A i \in Session : i[1] # c => assigned'[i] = assigned[i]
  BY DEF clearAssignedServers, IInv, TypeOK
<1>5. TypeOK' /\ (\A r \in Server : IsFiniteSet(clientList[r]))'
  BY <1>3, <1>4 DEF clearAssignedServers, IInv, TypeOK, Job, serverVars
<1>6. /\ state' = state /\ clients' = clients /\ sessionList' = sessionList
      /\ \A u \in Thread : thread[u].pc # "idle" => thread[u].client \in clients'
  BY DEF clearAssignedServers, IInv, WorkOK, serverVars
<1>7. WorkOK(thread[t])' /\ thread'[t].pc \notin HoldsAssigned
  BY <1>1, <1>2, <1>3, <1>6 DEF WorkOK, HoldsServerManager, HoldsAssigned
<1>8. thread[t].pc \in Evicting
  BY <1>1 DEF Evicting
<1>9. \A u \in Thread : u # t /\ thread[u].pc \in {"allocate", "record"} =>
        assigned'[thread[u].session] = assigned[thread[u].session]
  BY <1>1, <1>4 DEF IInv, WorkOK, AssignedMutex, HoldsAssigned
<1>10. \A s \in Server : \A i \in sessionList'[s] :
         i \in sessionList[s] /\ assigned'[i] = assigned[i]
  BY <1>1, <1>4, <1>6 DEF IInv, TypeOK
<1> QED
  BY <1>3, <1>5, <1>6, <1>7, <1>8, <1>9, <1>10, StepKeeps

LEMMA EraseInv ==
  ASSUME IInv, NEW t \in Thread, eraseClient(t)
  PROVE IInv'
<1> DEFINE c == thread[t].client
<1>1. thread[t].pc = "erase" /\ NobodyShares /\ c \in Client
  BY DEF eraseClient, IInv, WorkOK, TypeOK
<1>2. \A u \in Thread : u # t => thread[u].pc = "idle"
  <2>1. \A u \in Thread : u # t => thread[u].pc \notin Evicting
    BY <1>1 DEF IInv, OneEvictor, Evicting
  <2> QED
    BY <1>1, <2>1, JobType DEF IInv, Job, NobodyShares, Shared, PCs
<1>3. /\ thread' \in [Thread -> Job]
      /\ thread'[t] = Idle
      /\ \A u \in Thread : u # t => thread'[u] = thread[u]
  BY IdleType, ThreadUpdate DEF eraseClient, Finish, IInv
<1>4. /\ assigned' \in [Session -> Server \cup {None}]
      /\ \A i \in Session : i[1] # c => assigned'[i] = assigned[i]
  BY DEF eraseClient, IInv, TypeOK
<1>5. expired' \in [Client -> BOOLEAN]
  BY <1>1 DEF eraseClient, IInv, TypeOK
<1>6. TypeOK' /\ (\A r \in Server : IsFiniteSet(clientList[r]))'
  BY <1>3, <1>4, <1>5 DEF eraseClient, IInv, TypeOK, Job, serverVars
<1>7. WorkOK(thread[t])' /\ thread'[t].pc \notin HoldsAssigned /\ thread'[t].pc \notin Evicting
  BY <1>3, IdleType DEF WorkOK, HoldsServerManager, HoldsAssigned, Evicting
<1>8. state' = state /\ clients' = clients \ {c} /\ sessionList' = sessionList
  BY DEF eraseClient, serverVars
<1>9. \A s \in Server : \A i \in sessionList'[s] :
         /\ i \in sessionList[s]
         /\ i[1] \in clients' => i[1] \in clients /\ assigned'[i] = assigned[i]
  BY <1>4, <1>8 DEF IInv, TypeOK
<1> QED
  BY <1>2, <1>3, <1>6, <1>7, <1>8, <1>9, StepKeeps

LEMMA EvaluateInv ==
  ASSUME IInv, NEW c \in Client, evaluateClientsStatus(c)
  PROVE IInv'
<1> Worker \in Thread
  BY DEF Thread
<1> DEFINE w == [Idle EXCEPT !.pc = "evict", !.client = c]
<1>1. thread[Worker].pc = "idle" /\ CanUpgrade /\ c \in clients /\ AssignedFree(c)
  BY DEF evaluateClientsStatus
<1>2. /\ assigned' \in [Session -> Server \cup {None}]
      /\ \A i \in Session : \/ assigned'[i] = assigned[i]
                            \/ i[1] = c /\ assigned[i] # None /\ state[assigned[i]] = "gone"
  BY DEF evaluateClientsStatus, withoutGoneServers, SessionsOf, IInv, TypeOK
<1>3. w \in Job /\ w.pc = "evict" /\ w.client = c
  BY DEF Idle, Job, PCs, Evicting
<1>4. /\ thread' \in [Thread -> Job]
      /\ \A u \in Thread : u # Worker => thread'[u] = thread[u]
      /\ thread'[Worker] = thread[Worker] \/ thread'[Worker] = w
  <2>1. thread' = thread \/ thread' = [thread EXCEPT ![Worker] = w]
    BY DEF evaluateClientsStatus, Begin
  <2> HIDE DEF w
  <2> QED
    BY <1>3, <2>1, ThreadUpdate, JobType DEF IInv
<1> HIDE DEF w
<1>5. expired' \in [Client -> BOOLEAN]
  BY DEF evaluateClientsStatus, IInv, TypeOK
<1>6. TypeOK' /\ (\A r \in Server : IsFiniteSet(clientList[r]))'
  BY <1>2, <1>4, <1>5 DEF evaluateClientsStatus, IInv, TypeOK, Job, serverVars
<1>7. /\ state' = state /\ clients' = clients /\ sessionList' = sessionList
      /\ \A u \in Thread : thread[u].pc # "idle" => thread[u].client \in clients'
  BY DEF evaluateClientsStatus, serverVars, IInv, WorkOK
<1>8. WorkOK(thread[Worker])' /\ thread'[Worker].pc \notin HoldsAssigned
  BY <1>1, <1>3, <1>4, <1>7 DEF WorkOK, HoldsServerManager, HoldsAssigned
<1>9. \A u \in Thread : u # Worker /\ thread[u].pc \in {"allocate", "record"} =>
        assigned'[thread[u].session] = assigned[thread[u].session]
  BY <1>1, <1>2 DEF IInv, WorkOK, AssignedFree, HoldsAssigned
<1>10. \A s \in Server : \A i \in sessionList'[s] :
         i \in sessionList[s] /\ (i[1] \in clients' => assigned'[i] = assigned[i])
  BY <1>2, <1>7 DEF IInv, TypeOK, RecordedSessionsAreAssigned
<1> QED
  BY <1>1, <1>4, <1>6, <1>7, <1>8, <1>9, <1>10, StepKeeps

-----------------------------------------------------------------------------
LEMMA InitInv == Init => IInv
<1> SUFFICES ASSUME Init
             PROVE IInv
  OBVIOUS
<1>1. thread \in [Thread -> Job] /\ \A t \in Thread : thread[t] = Idle
  BY IdleType DEF Init
<1>2. expired \in [Client -> BOOLEAN]
  BY DEF Init
<1>3. TypeOK
  BY <1>1, <1>2, ConstantsAssumption DEF Init, TypeOK, Job
<1>4. \A s \in Server : IsFiniteSet(clientList[s])
  BY FS_EmptySet DEF Init
<1>5. \A t \in Thread : WorkOK(thread[t])
  BY <1>1, IdleType DEF WorkOK, HoldsServerManager
<1>6. AssignedMutex /\ OneEvictor
  BY <1>1, IdleType DEF AssignedMutex, OneEvictor, HoldsAssigned, Evicting
<1> QED
  BY <1>3, <1>4, <1>5, <1>6 DEF IInv, Init, RecordedSessionsAreAssigned

LEMMA NextInv == IInv /\ [Next]_vars => IInv'
<1> SUFFICES ASSUME IInv, [Next]_vars
             PROVE IInv'
  OBVIOUS
<1>1. CASE clientCall
  BY <1>1, OpenInv, CloseInv, ConnectInv DEF clientCall
<1>2. CASE environment
  BY <1>2, ConnectInv, EvaluateInv, EnvironmentInv DEF environment
<1>3. ASSUME NEW t \in Thread, threadStep(t)
      PROVE IInv'
  BY <1>3, FindInv, AddInv, DeniedInv, AllocateInv, RecordInv, RemoveSessionInv,
     RemoveSessionCallInv, RemoveClientInv, RemoveFromServerInv, RemoveFromServerCallInv,
     ClearInv, EraseInv
  DEF threadStep
<1>4. CASE UNCHANGED vars
  <2>1. UNCHANGED <<clients, expired, assigned, allocated, sessionList, clientList, state, thread>>
    BY <1>4 DEF vars, clientVars, serverVars
  <2> QED
    BY <2>1 DEF IInv, TypeOK, WorkOK, Uncounted, AssignedMutex, OneEvictor,
                RecordedSessionsAreAssigned
<1> QED
  BY <1>1, <1>2, <1>3, <1>4 DEF Next

\* What every thread relies on, and the mutual exclusion that the locks
\* provide, under all faults: the invariant the other theorems rest on.
THEOREM Invariance == Spec => []IInv
<1> QED
  BY InitInv, NextInv, PTL DEF Spec

\* Type correctness: whatever fails and however calls overlap, the counters
\* of the servers stay within their unsigned width.
THEOREM TypeCorrect == Spec => []TypeOK
<1>1. IInv => TypeOK
  BY DEF IInv
<1> QED
  BY <1>1, Invariance, PTL

\* A session that a server object counts for a known client stays assigned
\* to it, so that closeClientDbSession, disconnectClient or the eviction can
\* release it: with every fault and with overlapping calls of one client.
THEOREM RecordedSafety == Spec => []RecordedSessionsAreAssigned
<1>1. IInv => RecordedSessionsAreAssigned
  BY DEF IInv
<1> QED
  BY <1>1, Invariance, PTL

-----------------------------------------------------------------------------
(* Clients that wait for each call and keep sending signs of life: the     *)
(* worker has nothing to do, and a client that leaves has left the servers.*)

Patient == Sequential /\ "silent" \notin Faults

OneCallEach ==
  /\ thread[Worker].pc = "idle"
  /\ \A c \in Client : ~expired[c]
  /\ \A t, u \in Thread :
       t # u /\ thread[t].pc # "idle" /\ thread[u].pc # "idle"
         => thread[t].client # thread[u].client

EInv ==
  /\ OneCallEach
  /\ \A t \in Thread : thread[t].pc = "erase" =>
       \A s \in Server : \A i \in sessionList[s] : i[1] # thread[t].client
  /\ CleanExit

\* What a step of a call can change for other threads and clients.
LEMMA StepEffect ==
  ASSUME IInv, NEW t \in Thread, threadStep(t)
  PROVE /\ thread[t].pc # "idle"
        /\ \A u \in Thread : u # t => thread'[u] = thread[u]
        /\ thread'[t].pc = "idle" \/ thread'[t].client = thread[t].client
        /\ \A c \in Client : ~expired[c] => ~expired'[c]
        /\ \/ clients' = clients
           \/ thread[t].pc = "erase" /\ clients' = clients \ {thread[t].client}
        /\ \A s \in Server : \A i \in sessionList'[s] :
             i \in sessionList[s] \/ (thread[t].pc = "record" /\ i = thread[t].session)
        /\ thread'[t].pc = "erase" =>
             thread[t].pc = "remove" /\ thread[t].todo = {} /\ sessionList' = sessionList
<1> USE JobType, IdleType DEF IInv, Job
<1>1. ASSUME NEW s \in Server, tryGetFreeLocalServer(t, s)
      PROVE /\ thread[t].pc = "find" /\ UNCHANGED <<clientVars, sessionList>>
            /\ \A u \in Thread : u # t => thread'[u] = thread[u]
            /\ thread'[t].pc = "add" /\ thread'[t].client = thread[t].client
  BY <1>1 DEF tryGetFreeLocalServer
<1>2. ASSUME noServerAvailable(t) \/ addDbSessionDenied(t)
      PROVE /\ thread[t].pc # "idle" /\ UNCHANGED <<clientVars, sessionList>>
            /\ \A u \in Thread : u # t => thread'[u] = thread[u]
            /\ thread'[t].pc = "idle"
  BY <1>2 DEF noServerAvailable, addDbSessionDenied, Finish, serverVars
<1>3. ASSUME NEW i \in Session, addDbSession(t, i)
      PROVE /\ thread[t].pc = "add" /\ UNCHANGED <<clients, expired, sessionList>>
            /\ \A u \in Thread : u # t => thread'[u] = thread[u]
            /\ thread'[t].pc = "allocate" /\ thread'[t].client = thread[t].client
  BY <1>3 DEF addDbSession, serverVars
<1>4. ASSUME NEW i \in Session, removeFromServer(t, i)
      PROVE /\ thread[t].pc = "remove" /\ UNCHANGED clientVars
            /\ \A s \in Server : sessionList'[s] \subseteq sessionList[s]
            /\ \A u \in Thread : u # t => thread'[u] = thread[u]
            /\ thread'[t].pc \in {"remove", "removeCall"} /\ thread'[t].client = thread[t].client
  <2>1. \A s \in Server : sessionList'[s] \subseteq sessionList[s]
    BY <1>4, UncountType DEF removeFromServer
  <2> QED
    BY <1>4, <2>1 DEF removeFromServer
<1>5. ASSUME allocateClient(t)
      PROVE /\ thread[t].pc = "allocate" /\ UNCHANGED <<clientVars, sessionList>>
            /\ \A u \in Thread : u # t => thread'[u] = thread[u]
            /\ \/ thread'[t].pc = "idle"
               \/ thread'[t].pc = "record" /\ thread'[t].client = thread[t].client
  <2>1. Goto(t, "record") \/ Finish(t)
    BY <1>5 DEF allocateClient
  <2>2. thread[t].pc = "allocate" /\ UNCHANGED <<clientVars, sessionList>>
    BY <1>5 DEF allocateClient
  <2> QED
    BY <2>1, <2>2 DEF Goto, Finish
<1>6. ASSUME recordSession(t)
      PROVE /\ thread[t].pc = "record" /\ UNCHANGED clientVars
            /\ \A s \in Server : \A i \in sessionList'[s] :
                 i \in sessionList[s] \/ i = thread[t].session
            /\ \A u \in Thread : u # t => thread'[u] = thread[u]
            /\ thread'[t].pc = "idle"
  BY <1>6 DEF recordSession, Finish, TypeOK
<1>7. ASSUME removeDbSession(t)
      PROVE /\ thread[t].pc = "close" /\ UNCHANGED <<clients, expired>>
            /\ \A s \in Server : sessionList'[s] \subseteq sessionList[s]
            /\ \A u \in Thread : u # t => thread'[u] = thread[u]
            /\ \/ thread'[t].pc = "idle"
               \/ thread'[t].pc = "closeCall" /\ thread'[t].client = thread[t].client
  <2>1. \A s \in Server : sessionList'[s] \subseteq sessionList[s]
    BY <1>7, UncountType DEF removeDbSession
  <2>2. \/ Finish(t)
        \/ thread' = [thread EXCEPT ![t].pc = "closeCall",
                                    ![t].server = assigned[thread[t].session]]
    BY <1>7 DEF removeDbSession
  <2>3. thread[t].pc = "close" /\ UNCHANGED <<clients, expired>>
    BY <1>7 DEF removeDbSession
  <2> QED
    BY <2>1, <2>2, <2>3 DEF Finish
<1>8. ASSUME removeDbSessionCall(t)
      PROVE /\ thread[t].pc = "closeCall" /\ UNCHANGED <<clients, expired, sessionList>>
            /\ \A u \in Thread : u # t => thread'[u] = thread[u]
            /\ thread'[t].pc = "idle"
  BY <1>8 DEF removeDbSessionCall, Finish
<1>9. ASSUME removeClientFromServers(t)
      PROVE /\ thread[t].pc = "evict" /\ UNCHANGED <<clientVars, sessionList>>
            /\ \A u \in Thread : u # t => thread'[u] = thread[u]
            /\ thread'[t].pc = "remove" /\ thread'[t].client = thread[t].client
  BY <1>9 DEF removeClientFromServers, serverVars
<1>10. ASSUME removeFromServerCall(t)
       PROVE /\ thread[t].pc = "removeCall" /\ UNCHANGED <<clientVars, sessionList>>
             /\ \A u \in Thread : u # t => thread'[u] = thread[u]
             /\ \/ thread'[t].pc = "idle"
                \/ thread'[t].pc = "remove" /\ thread'[t].client = thread[t].client
  <2>1. \/ Finish(t)
        \/ thread' = [thread EXCEPT ![t].pc = "remove", ![t].server = None, ![t].session = None,
                                    ![t].todo = @ \ {thread[t].session}]
    BY <1>10 DEF removeFromServerCall
  <2>2. thread[t].pc = "removeCall" /\ UNCHANGED <<clientVars, sessionList>>
    BY <1>10 DEF removeFromServerCall
  <2> QED
    BY <2>1, <2>2 DEF Finish
<1>11. ASSUME clearAssignedServers(t)
       PROVE /\ thread[t].pc = "remove" /\ thread[t].todo = {}
             /\ UNCHANGED <<clients, expired, sessionList>>
             /\ \A u \in Thread : u # t => thread'[u] = thread[u]
             /\ thread'[t].pc = "erase" /\ thread'[t].client = thread[t].client
  BY <1>11 DEF clearAssignedServers, Goto, serverVars
<1>12. ASSUME eraseClient(t)
       PROVE /\ thread[t].pc = "erase" /\ clients' = clients \ {thread[t].client}
             /\ sessionList' = sessionList
             /\ \A c \in Client : ~expired[c] => ~expired'[c]
             /\ \A u \in Thread : u # t => thread'[u] = thread[u]
             /\ thread'[t].pc = "idle"
  <2>1. /\ thread[t].pc = "erase" /\ clients' = clients \ {thread[t].client}
        /\ sessionList' = sessionList
        /\ \A u \in Thread : u # t => thread'[u] = thread[u]
        /\ thread'[t].pc = "idle"
    BY <1>12 DEF eraseClient, Finish, serverVars
  <2>2. \A c \in Client : ~expired[c] => ~expired'[c]
    BY <1>12, Zenon DEF eraseClient, TypeOK
  <2> QED
    BY <2>1, <2>2
<1> QED
  BY <1>1, <1>2, <1>3, <1>4, <1>5, <1>6, <1>7, <1>8, <1>9, <1>10, <1>11, <1>12
  DEF threadStep, clientVars

LEMMA ExitInit == Init => EInv
  BY IdleType DEF Init, EInv, OneCallEach, CleanExit, Thread

LEMMA ExitThreadStep ==
  ASSUME IInv, EInv, NEW t \in Thread, threadStep(t)
  PROVE EInv'
<1>1. /\ thread[t].pc # "idle" /\ thread[t].client \in clients
      /\ t # Worker
  BY StepEffect DEF IInv, WorkOK, EInv, OneCallEach
<1>2. thread'[Worker].pc = "idle"
  BY <1>1, StepEffect DEF EInv, OneCallEach, Thread
<1>3. \A c \in Client : ~expired'[c]
  BY StepEffect DEF EInv, OneCallEach
<1>4. ASSUME NEW u \in Thread, NEW v \in Thread, u # v,
             thread'[u].pc # "idle", thread'[v].pc # "idle"
      PROVE thread'[u].client # thread'[v].client
  <2>1. \A x \in {u, v} : thread[x].pc # "idle" /\ thread'[x].client = thread[x].client
    BY <1>4, StepEffect
  <2> QED
    BY <1>4, <2>1 DEF EInv, OneCallEach
<1>5. thread[t].pc = "record" => thread[t].session[1] = thread[t].client
  BY DEF IInv, WorkOK
<1>6. ASSUME NEW u \in Thread, thread'[u].pc = "erase",
             NEW s \in Server, NEW i \in sessionList'[s], i[1] = thread'[u].client
      PROVE FALSE
  <2>1. CASE u = t
    <3>1. /\ thread[t].pc = "remove" /\ thread[t].todo = {} /\ i \in sessionList[s]
          /\ i[1] = thread[t].client
      BY <1>6, <2>1, StepEffect
    <3> QED
      BY <3>1 DEF IInv, WorkOK
  <2>2. CASE u # t
    <3>1. thread[u].pc = "erase" /\ i[1] = thread[u].client
      BY <1>6, <2>2, StepEffect
    <3>2. thread[t].client # thread[u].client
      BY <1>1, <2>2, <3>1 DEF EInv, OneCallEach
    <3>3. i \in sessionList[s]
      BY <1>5, <1>6, <3>1, <3>2, StepEffect
    <3> QED
      BY <3>1, <3>3 DEF EInv
  <2> QED
    BY <2>1, <2>2
<1>7. ASSUME NEW s \in Server, NEW i \in sessionList'[s]
      PROVE i[1] \in clients'
  <2>1. i[1] \in clients
    BY <1>1, <1>5, <1>7, StepEffect DEF EInv, CleanExit
  <2>2. CASE clients' = clients
    BY <2>1, <2>2
  <2>3. CASE thread[t].pc = "erase" /\ clients' = clients \ {thread[t].client}
    <3>1. i \in sessionList[s]
      BY <1>7, <2>3, StepEffect
    <3>2. i[1] # thread[t].client
      BY <2>3, <3>1 DEF EInv
    <3> QED
      BY <2>1, <2>3, <3>2
  <2> QED
    BY <2>2, <2>3, StepEffect
<1> QED
  BY <1>2, <1>3, <1>4, <1>6, <1>7 DEF EInv, OneCallEach, CleanExit

\* A call begins at a handler for a client that has no other call.
LEMMA ExitCall ==
  ASSUME Patient, IInv, EInv, NEW t \in Handler, NEW c \in Client, NEW w \in Job,
         Accepts(t, c), thread' = [thread EXCEPT ![t] = w],
         w.client = c, w.pc # "erase", UNCHANGED <<clientVars, sessionList>>
  PROVE EInv'
<1>1. t \in Thread /\ t # Worker
  BY ConstantsAssumption DEF Thread
<1>2. /\ thread'[t] = w
      /\ \A u \in Thread : u # t => thread'[u] = thread[u]
  BY <1>1, ThreadUpdate DEF IInv
<1>3. \A u \in Thread : u # t /\ thread[u].pc # "idle" => thread[u].client # c
  BY DEF Accepts, Patient, EInv, OneCallEach, Thread
<1>4. OneCallEach'
  <2>1. thread'[Worker].pc = "idle"
    BY <1>1, <1>2 DEF EInv, OneCallEach, Thread
  <2>2. \A d \in Client : ~expired'[d]
    BY DEF EInv, OneCallEach, clientVars
  <2>3. \A u, v \in Thread :
          u # v /\ thread'[u].pc # "idle" /\ thread'[v].pc # "idle"
            => thread'[u].client # thread'[v].client
    BY <1>1, <1>2, <1>3 DEF EInv, OneCallEach
  <2> QED
    BY <2>1, <2>2, <2>3 DEF OneCallEach
<1> QED
  BY <1>2, <1>4 DEF EInv, CleanExit, clientVars

LEMMA ExitClientCall ==
  ASSUME Patient, IInv, EInv, clientCall
  PROVE EInv'
<1>1. ASSUME NEW c \in Client, connectClient(c) \/ keepClientAlive(c)
      PROVE EInv'
  <2>1. \A d \in Client : ~expired'[d]
    BY <1>1, Zenon DEF connectClient, keepClientAlive, EInv, OneCallEach, IInv, TypeOK
  <2> QED
    BY <1>1, <2>1
    DEF connectClient, keepClientAlive, serverVars, EInv, OneCallEach, CleanExit
<1>2. ASSUME NEW t \in Handler, NEW c \in Client,
             openClientDbSession(t, c) \/ disconnectClient(t, c)
      PROVE EInv'
  <2>1. PICK pc \in {"find", "evict"} :
          Accepts(t, c) /\ Begin(t, c, pc) /\ UNCHANGED <<clientVars, serverVars>>
    BY <1>2 DEF openClientDbSession, disconnectClient
  <2> DEFINE w == [Idle EXCEPT !.pc = pc, !.client = c]
  <2>2. /\ w \in Job /\ w.pc = pc /\ w.client = c
        /\ thread' = [thread EXCEPT ![t] = w]
    BY <2>1 DEF Begin, Idle, Job, PCs, Opening, Evicting
  <2> HIDE DEF w
  <2> QED
    BY <2>1, <2>2, ExitCall DEF serverVars
<1>3. ASSUME NEW t \in Handler, NEW i \in Session, closeClientDbSession(t, i)
      PROVE EInv'
  <2> DEFINE w == [Idle EXCEPT !.pc = "close", !.client = i[1], !.session = i]
  <2>1. i[1] \in Client
    BY DEF Session
  <2>2. /\ w \in Job /\ w.pc = "close" /\ w.client = i[1]
        /\ thread' = [thread EXCEPT ![t] = w]
    BY <1>3, <2>1 DEF closeClientDbSession, Idle, Job, PCs, Closing
  <2> HIDE DEF w
  <2> QED
    BY <1>3, <2>1, <2>2, ExitCall DEF closeClientDbSession, serverVars
<1> QED
  BY <1>1, <1>2, <1>3 DEF clientCall

LEMMA ExitEnvironment ==
  ASSUME Patient, IInv, EInv, environment
  PROVE EInv'
<1>1. ASSUME NEW c \in Client, timerExpires(c) \/ evaluateClientsStatus(c)
      PROVE FALSE
  BY <1>1 DEF timerExpires, evaluateClientsStatus, Patient, EInv, OneCallEach
<1>2. ASSUME NEW s \in Server,
             \/ \E c \in Client : evaluateClientStatus(s, c)
             \/ serverCrashes(s) \/ serverDestroyed(s) \/ isFree(s)
      PROVE EInv'
  <2>1. UNCHANGED <<thread, clients, expired>>
    BY <1>2 DEF evaluateClientStatus, serverCrashes, serverDestroyed, isFree, clientVars
  <2>2. \A r \in Server : sessionList'[r] \subseteq sessionList[r]
    BY <1>2 DEF evaluateClientStatus, serverCrashes, serverDestroyed, isFree, IInv, TypeOK
  <2> QED
    BY <2>1, <2>2 DEF EInv, OneCallEach, CleanExit
<1> QED
  BY <1>1, <1>2 DEF environment

\* No server object counts a session of a client that rasmgr no longer knows,
\* whatever happens to servers, calls and databases, if clients wait for
\* their calls and none falls silent.
THEOREM ExitSafety == ASSUME Patient PROVE Spec => []CleanExit
<1>1. IInv /\ EInv /\ [Next]_vars => EInv'
  <2> SUFFICES ASSUME IInv, EInv, [Next]_vars
               PROVE EInv'
    OBVIOUS
  <2>1. CASE UNCHANGED vars
    BY <2>1 DEF vars, clientVars, serverVars, EInv, OneCallEach, CleanExit
  <2> QED
    BY <2>1, ExitThreadStep, ExitClientCall, ExitEnvironment DEF Next
<1>2. EInv => CleanExit
  BY DEF EInv
<1> QED
  BY <1>1, <1>2, ExitInit, Invariance, PTL DEF Spec

-----------------------------------------------------------------------------
(* Capacity.  Nothing fails, a server takes one client as RasMgrConfig     *)
(* says, and there are fewer handler threads than the counter can count.   *)

Calm ==
  /\ Sequential
  /\ Faults = {}
  /\ MaxClients = 1
  /\ IsFiniteSet(Handler)
  /\ Cardinality(Handler) + 1 < Modulus

Counted(i) == \E s \in Server : i \in sessionList[s]

\* Session i is being opened or released, or its client removed.
InTransit(i) ==
  \E t \in Thread :
    \/ thread[t].pc \in {"allocate", "record", "closeCall"} /\ thread[t].session = i
    \/ thread[t].pc \in {"remove", "removeCall"} /\ thread[t].client = i[1]

Recording(c, s) ==
  \E t \in Thread : thread[t].pc = "record" /\ Holds(t, s) /\ thread[t].client = c

OneServerSearch ==
  \A t, u \in Thread :
    thread[t].pc \in HoldsServerManager /\ thread[u].pc \in HoldsServerManager => t = u

\* A server that looks free has no session, it has at most one, and its
\* process knows the clients of its sessions and those that come or go.
ServerCalm(s) ==
  /\ state[s] = "up"
  /\ allocated[s] = 0 => sessionList[s] = {}
  /\ \A i, j \in sessionList[s] : i = j
  /\ \A i \in sessionList[s] : i[1] \in clientList[s]
  /\ \A c \in clientList[s] :
       \/ c \in Leaving(s)
       \/ \E i \in sessionList[s] : i[1] = c
       \/ Recording(c, s)

\* At each point w of a call: the server that was found stays free, and what
\* is to be released is counted until it is released.
WorkCalm(w) ==
  /\ w.pc \in HoldsServerManager => allocated[w.server] = 0
  /\ w.pc = "record" => w.client \in clientList[w.server]
  /\ w.pc = "close" => Counted(w.session)
  /\ w.pc \in {"closeCall", "removeCall"} =>
       w.server \in Server /\ \A i \in sessionList[w.server] : i[1] # w.client
  /\ w.pc = "remove" => \A i \in w.todo : Counted(i)
  /\ w.pc = "removeCall" => \A i \in w.todo : i = w.session \/ Counted(i)

CInv ==
  /\ \A s \in Server : ServerCalm(s)
  /\ \A t \in Thread : WorkCalm(thread[t])
  /\ OneServerSearch
  /\ \A i \in Session : assigned[i] = None \/ Counted(i) \/ InTransit(i)

LEMMA CalmIsPatient == Calm => Patient
  BY DEF Calm, Patient

LEMMA CalmInit == Init => CInv
  BY IdleType DEF Init, CInv, ServerCalm, WorkCalm, OneServerSearch, HoldsServerManager

LEMMA AtMostOne ==
  ASSUME NEW S, \A x, y \in S : x = y
  PROVE IsFiniteSet(S) /\ Cardinality(S) \in Nat /\ Cardinality(S) <= 1
<1>1. CASE S = {}
  BY <1>1, FS_EmptySet
<1>2. CASE S # {}
  <2>1. PICK x : x \in S
    BY <1>2
  <2>2. S = {x}
    BY <2>1
  <2> QED
    BY <2>2, FS_Singleton
<1> QED
  BY <1>1, <1>2

\* A server that reports no clients has none: its clients are those of a
\* thread or of its one session, too few for the count to wrap around.
LEMMA NoClientsReported ==
  ASSUME Calm, IInv, EInv, CInv, NEW s \in Server, getClientQueueSize(s) = 0
  PROVE clientList[s] = {}
<1> DEFINE f == [h \in Handler |-> thread[h].client]
           R == {thread[h].client : h \in Handler}
           O == {i[1] : i \in sessionList[s]}
<1>1. IsFiniteSet(R) /\ Cardinality(R) \in Nat /\ Cardinality(R) <= Cardinality(Handler)
  <2>1. f \in Surjection(Handler, R)
    BY DEF Surjection
  <2>2. IsFiniteSet(Handler)
    BY DEF Calm
  <2> HIDE DEF f, R
  <2> QED
    BY <2>1, <2>2, FS_Surjection, FS_CardinalityType
<1>2. IsFiniteSet(O) /\ Cardinality(O) \in Nat /\ Cardinality(O) <= 1
  <2>1. \A x, y \in O : x = y
    BY DEF CInv, ServerCalm
  <2> HIDE DEF O
  <2> QED
    BY <2>1, AtMostOne
<1>3. clientList[s] \subseteq R \cup O
  <2> SUFFICES ASSUME NEW c \in clientList[s], c \notin O
               PROVE c \in R
    OBVIOUS
  <2>1. c \in Leaving(s) \/ Recording(c, s)
    BY DEF CInv, ServerCalm
  <2>2. PICK t \in Thread : thread[t].client = c /\ thread[t].pc # "idle"
    BY <2>1 DEF Leaving, Recording
  <2>3. t \in Handler
    BY <2>2 DEF EInv, OneCallEach, Thread
  <2> QED
    BY <2>2, <2>3
<1> HIDE DEF R, O
<1>4. /\ IsFiniteSet(R \cup O)
      /\ Cardinality(R \cup O) = Cardinality(R) + Cardinality(O) - Cardinality(R \cap O)
  BY <1>1, <1>2, FS_Union
<1>5. Cardinality(R \cap O) \in Nat
  BY <1>1, FS_Intersection, FS_CardinalityType
<1>6. /\ Cardinality(clientList[s]) \in Nat
      /\ Cardinality(clientList[s]) <= Cardinality(R \cup O)
  BY <1>3, <1>4, FS_Subset, FS_CardinalityType
<1>7. Cardinality(Handler) \in Nat /\ Cardinality(Handler) + 1 < Modulus /\ Modulus \in Nat
  BY FS_CardinalityType, ConstantsAssumption DEF Calm
<1>8. Cardinality(clientList[s]) < Modulus
  BY <1>1, <1>2, <1>4, <1>5, <1>6, <1>7
<1>9. Cardinality(clientList[s]) = 0
  BY <1>6, <1>7, <1>8 DEF getClientQueueSize
<1> QED
  BY <1>9, FS_EmptySet DEF IInv

\* The count that isAvailable leaves: zero only for a server without session.
LEMMA FreeMeansEmpty ==
  ASSUME Calm, IInv, EInv, CInv, NEW s \in Server, NEW n \in isAvailableCounts(s), n < MaxClients
  PROVE n = 0 /\ sessionList[s] = {}
<1>1. n \in 0 .. Modulus - 1 /\ Modulus \in Nat
  BY CountsType, ConstantsAssumption
<1>2. n = 0
  BY <1>1 DEF Calm
<1>3. allocated[s] \in Nat
  BY DEF IInv, TypeOK
<1>4. CASE allocated[s] < MaxClients
  BY <1>2, <1>3, <1>4 DEF isAvailableCounts, CInv, ServerCalm
<1>5. CASE ~(allocated[s] < MaxClients)
  <2>1. getClientQueueSize(s) = 0
    BY <1>2, <1>5 DEF isAvailableCounts
  <2>2. clientList[s] = {}
    BY <2>1, NoClientsReported
  <2> QED
    BY <1>2, <2>2 DEF CInv, ServerCalm
<1> QED
  BY <1>4, <1>5

\* A step of thread t for client c: the other threads work for other
\* clients, so only what concerns c needs to be shown.
LEMMA CalmStep ==
  ASSUME IInv, CInv, NEW t \in Thread, NEW c \in Client, TypeOK',
         \A u \in Thread : u # t => thread'[u] = thread[u],
         \A u \in Thread : u # t /\ thread[u].pc # "idle" => thread[u].client # c,
         thread[t].pc = "idle" \/ thread[t].client = c,
         state' = state,
         \A i \in Session : i[1] # c => assigned'[i] = assigned[i],
         \A s \in Server : \A i \in Session :
           i[1] # c => (i \in sessionList'[s] <=> i \in sessionList[s]),
         \A s \in Server : \A d \in Client :
           d # c => (d \in clientList'[s] <=> d \in clientList[s]),
         \A s \in Server : allocated'[s] = 0 => sessionList'[s] = {},
         \A s \in Server : \A i, j \in sessionList'[s] : i = j,
         \A s \in Server : \A i \in sessionList'[s] : i[1] = c => c \in clientList'[s],
         \A s \in Server : c \in clientList'[s] =>
           c \in Leaving(s)' \/ (\E i \in sessionList'[s] : i[1] = c) \/ Recording(c, s)',
         \A u \in Thread : u # t /\ thread[u].pc \in HoldsServerManager =>
           allocated'[thread[u].server] = 0,
         thread'[t].pc \in HoldsServerManager =>
           thread[t].pc \in HoldsServerManager \/ ServerManagerFree,
         WorkCalm(thread[t])',
         \A i \in Session : i[1] = c => assigned'[i] = None \/ Counted(i)' \/ InTransit(i)'
  PROVE CInv'
<1>0. \A s \in Server : sessionList[s] \subseteq Session /\ sessionList'[s] \subseteq Session
                        /\ clientList[s] \subseteq Client /\ clientList'[s] \subseteq Client
  BY DEF IInv, TypeOK
<1>1. \A s \in Server : ServerCalm(s)'
  <2> SUFFICES ASSUME NEW s \in Server
               PROVE ServerCalm(s)'
    OBVIOUS
  <2>1. ServerCalm(s)
    BY DEF CInv
  <2>2. \A i \in sessionList'[s] : i[1] \in clientList'[s]
    <3> SUFFICES ASSUME NEW i \in sessionList'[s], i[1] # c
                 PROVE i[1] \in clientList'[s]
      OBVIOUS
    <3>1. i \in sessionList[s]
      BY <1>0
    <3> QED
      BY <1>0, <2>1, <3>1 DEF ServerCalm
  <2>3. ASSUME NEW d \in clientList'[s], d # c
        PROVE d \in Leaving(s)' \/ (\E i \in sessionList'[s] : i[1] = d) \/ Recording(d, s)'
    <3>1. d \in clientList[s]
      BY <1>0, <2>3
    <3>2. CASE d \in Leaving(s)
      <4>1. PICK u \in Thread : /\ Holds(u, s) /\ thread[u].pc \in {"closeCall", "removeCall"}
                                /\ thread[u].client = d
        BY <3>2 DEF Leaving
      <4>2. thread'[u] = thread[u]
        BY <2>3, <4>1
      <4> QED
        BY <4>1, <4>2 DEF Leaving, Holds
    <3>3. CASE \E i \in sessionList[s] : i[1] = d
      BY <1>0, <2>3, <3>3
    <3>4. CASE Recording(d, s)
      <4>1. PICK u \in Thread : thread[u].pc = "record" /\ Holds(u, s) /\ thread[u].client = d
        BY <3>4 DEF Recording
      <4>2. thread'[u] = thread[u]
        BY <2>3, <4>1
      <4> QED
        BY <4>1, <4>2 DEF Recording, Holds
    <3> QED
      BY <2>1, <3>1, <3>2, <3>3, <3>4 DEF ServerCalm
  <2> QED
    BY <2>1, <2>2, <2>3 DEF ServerCalm
<1>2. \A i \in Session : i[1] # c /\ Counted(i) => Counted(i)'
  BY DEF Counted
<1>3. \A u \in Thread : WorkCalm(thread[u])'
  <2> SUFFICES ASSUME NEW u \in Thread, u # t
               PROVE WorkCalm(thread[u])'
    OBVIOUS
  <2>1. WorkCalm(thread[u]) /\ WorkOK(thread[u]) /\ thread'[u] = thread[u]
    BY DEF CInv, IInv
  <2>2. CASE thread[u].pc = "idle"
    BY <2>1, <2>2 DEF WorkCalm, HoldsServerManager
  <2>3. CASE thread[u].pc # "idle"
    <3>1. thread[u].client # c /\ thread[u].client \in Client
      BY <2>1, <2>3 DEF WorkOK, IInv, TypeOK
    <3>2. thread[u].todo \subseteq Session /\ thread[u].pc \in PCs
      BY JobType DEF IInv, Job
    <3>3. thread[u].pc \in {"closeCall", "removeCall"} =>
            \A i \in sessionList'[thread[u].server] : i[1] # thread[u].client
      BY <1>0, <2>1, <3>1 DEF WorkCalm
    <3>4. thread[u].pc = "close" => \E s \in Server : thread[u].session \in sessionList'[s]
      BY <2>1, <3>1 DEF WorkCalm, WorkOK, Counted
    <3>5. thread[u].pc = "remove" =>
            \A i \in thread[u].todo : \E s \in Server : i \in sessionList'[s]
      BY <2>1, <3>1, <3>2 DEF WorkCalm, WorkOK, Counted
    <3>6. thread[u].pc = "removeCall" =>
            \A i \in thread[u].todo :
              i = thread[u].session \/ \E s \in Server : i \in sessionList'[s]
      BY <2>1, <3>1, <3>2 DEF WorkCalm, WorkOK, Counted
    <3>7. thread[u].pc = "record" => thread[u].client \in clientList'[thread[u].server]
      BY <2>1, <3>1 DEF WorkCalm, WorkOK, HoldsServerManager
    <3> QED
      BY <2>1, <3>3, <3>4, <3>5, <3>6, <3>7 DEF WorkCalm, Counted
  <2> QED
    BY <2>2, <2>3
<1>4. OneServerSearch'
  BY DEF CInv, OneServerSearch, ServerManagerFree
<1>5. ASSUME NEW i \in Session, i[1] # c
      PROVE assigned'[i] = None \/ Counted(i)' \/ InTransit(i)'
  <2>1. CASE assigned[i] = None \/ Counted(i)
    BY <1>2, <1>5, <2>1
  <2>2. CASE InTransit(i)
    <3>1. PICK u \in Thread :
            \/ thread[u].pc \in {"allocate", "record", "closeCall"} /\ thread[u].session = i
            \/ thread[u].pc \in {"remove", "removeCall"} /\ thread[u].client = i[1]
      BY <2>2 DEF InTransit
    <3>2. thread[u].client = i[1]
      BY <3>1 DEF IInv, WorkOK
    <3>3. thread'[u] = thread[u]
      BY <1>5, <3>1, <3>2
    <3> QED
      BY <3>1, <3>3 DEF InTransit
  <2> QED
    BY <1>5, <2>1, <2>2 DEF CInv
<1> QED
  BY <1>1, <1>3, <1>4, <1>5 DEF CInv

\* What CInv says of client c when only thread t works for it.
LEMMA OwnCalm ==
  ASSUME IInv, CInv, NEW t \in Thread, NEW c \in Client,
         \A u \in Thread : u # t /\ thread[u].pc # "idle" => thread[u].client # c
  PROVE /\ \A s \in Server : c \in clientList[s] =>
             \/ thread[t].pc \in {"closeCall", "removeCall", "record"} /\ thread[t].server = s
             \/ \E i \in sessionList[s] : i[1] = c
        /\ \A i \in Session : i[1] = c =>
             \/ assigned[i] = None \/ Counted(i)
             \/ thread[t].pc \in {"allocate", "record", "closeCall"} /\ thread[t].session = i
             \/ thread[t].pc \in {"remove", "removeCall"}
<1>1. ASSUME NEW s \in Server, c \in clientList[s]
      PROVE \/ thread[t].pc \in {"closeCall", "removeCall", "record"} /\ thread[t].server = s
            \/ \E i \in sessionList[s] : i[1] = c
  BY <1>1 DEF CInv, ServerCalm, Leaving, Recording, Holds
<1>2. ASSUME NEW i \in Session, i[1] = c, InTransit(i)
      PROVE \/ thread[t].pc \in {"allocate", "record", "closeCall"} /\ thread[t].session = i
            \/ thread[t].pc \in {"remove", "removeCall"}
  <2>1. PICK u \in Thread :
          \/ thread[u].pc \in {"allocate", "record", "closeCall"} /\ thread[u].session = i
          \/ thread[u].pc \in {"remove", "removeCall"} /\ thread[u].client = i[1]
    BY <1>2 DEF InTransit
  <2>2. thread[u].client = c
    BY <1>2, <2>1 DEF IInv, WorkOK
  <2> QED
    BY <2>1, <2>2
<1> QED
  BY <1>1, <1>2 DEF CInv

\* A step that leaves sessions and lists alone, at a point where the client
\* has no session in transit.
LEMMA CalmQuiet ==
  ASSUME IInv, CInv, TypeOK', NEW t \in Thread, NEW c \in Client,
         \A u \in Thread : u # t => thread'[u] = thread[u],
         \A u \in Thread : u # t /\ thread[u].pc # "idle" => thread[u].client # c,
         thread[t].pc = "idle" \/ thread[t].client = c,
         thread[t].pc \notin HoldsAssigned,
         UNCHANGED <<assigned, sessionList, clientList, state>>,
         \A s \in Server : allocated'[s] = 0 => sessionList[s] = {},
         \A u \in Thread : u # t /\ thread[u].pc \in HoldsServerManager =>
           allocated'[thread[u].server] = 0,
         thread'[t].pc \in HoldsServerManager =>
           thread[t].pc \in HoldsServerManager \/ ServerManagerFree,
         WorkCalm(thread[t])'
  PROVE CInv'
<1>1. /\ \A s \in Server : c \in clientList[s] => \E i \in sessionList[s] : i[1] = c
      /\ \A i \in Session : i[1] = c => assigned[i] = None \/ Counted(i)
  BY OwnCalm DEF HoldsAssigned
<1>2. \A i \in Session : i[1] = c => assigned'[i] = None \/ Counted(i)'
  BY <1>1 DEF Counted
<1>3. \A s \in Server : /\ \A i, j \in sessionList'[s] : i = j
                        /\ \A i \in sessionList'[s] : i[1] = c => c \in clientList'[s]
                        /\ c \in clientList'[s] => \E i \in sessionList'[s] : i[1] = c
  BY <1>1 DEF CInv, ServerCalm
<1> QED
  BY <1>2, <1>3, CalmStep

LEMMA OnlyThread ==
  ASSUME IInv, EInv, NEW t \in Thread, thread[t].pc # "idle"
  PROVE /\ thread[t].client \in Client
        /\ \A u \in Thread : u # t /\ thread[u].pc # "idle" =>
             thread[u].client # thread[t].client
  BY DEF IInv, WorkOK, TypeOK, EInv, OneCallEach

LEMMA CalmFind ==
  ASSUME Calm, IInv, EInv, CInv, TypeOK', NEW t \in Thread,
         \/ \E s \in Server : tryGetFreeLocalServer(t, s)
         \/ noServerAvailable(t) \/ addDbSessionDenied(t)
  PROVE CInv'
<1> DEFINE c == thread[t].client
<1> USE JobType DEF IInv, Job
<1>1. /\ thread[t].pc \in {"find", "add"} /\ thread[t].pc \notin HoldsAssigned
      /\ UNCHANGED <<assigned, sessionList, clientList, state>>
      /\ \A u \in Thread : u # t => thread'[u] = thread[u]
  BY DEF tryGetFreeLocalServer, noServerAvailable, addDbSessionDenied, Finish, clientVars,
         serverVars, HoldsAssigned
<1>2. /\ c \in Client
      /\ \A u \in Thread : u # t /\ thread[u].pc # "idle" => thread[u].client # c
  BY <1>1, OnlyThread
<1>3. ASSUME NEW s \in Server, tryGetFreeLocalServer(t, s)
      PROVE CInv'
  <2>1. PICK n \in isAvailableCounts(s) : n < MaxClients /\ allocated' = [allocated EXCEPT ![s] = n]
    BY <1>3 DEF tryGetFreeLocalServer, FreeCounts
  <2>2. n = 0 /\ sessionList[s] = {}
    BY <2>1, FreeMeansEmpty
  <2>3. /\ allocated'[s] = 0
        /\ \A r \in Server : r # s => allocated'[r] = allocated[r]
    BY <2>1, <2>2 DEF TypeOK
  <2>4. thread'[t].pc = "add" /\ thread'[t].server = s /\ ServerManagerFree
    BY <1>3 DEF tryGetFreeLocalServer
  <2>5. WorkCalm(thread[t])'
    BY <2>3, <2>4 DEF WorkCalm
  <2>6. \A r \in Server : allocated'[r] = 0 => sessionList[r] = {}
    BY <2>2, <2>3 DEF CInv, ServerCalm
  <2>7. \A u \in Thread : thread[u].pc \notin HoldsServerManager
    BY <2>4 DEF ServerManagerFree
  <2> QED
    BY <1>1, <1>2, <2>4, <2>5, <2>6, <2>7, CalmQuiet
<1>4. CASE noServerAvailable(t)
  <2>1. thread'[t].pc = "idle" /\ ServerManagerFree
    BY <1>4, IdleType DEF noServerAvailable, Finish
  <2>2. ASSUME NEW r \in Server, allocated'[r] = 0
        PROVE sessionList[r] = {}
    <3>1. CASE UNCHANGED allocated
      BY <2>2, <3>1 DEF CInv, ServerCalm
    <3>2. CASE ~UNCHANGED allocated
      <4>1. allocated'[r] \in FullCounts(r)
        BY <1>4, <3>2 DEF noServerAvailable, CInv, ServerCalm
      <4>2. ~(allocated'[r] < MaxClients)
        BY <4>1 DEF FullCounts, FreeCounts
      <4> QED
        BY <2>2, <4>2 DEF Calm
    <3> QED
      BY <3>1, <3>2
  <2>3. WorkCalm(thread[t])' /\ thread'[t].pc \notin HoldsServerManager
    BY <2>1 DEF WorkCalm, HoldsServerManager
  <2>4. \A u \in Thread : thread[u].pc \notin HoldsServerManager
    BY <2>1 DEF ServerManagerFree
  <2> QED
    BY <1>1, <1>2, <2>2, <2>3, <2>4, CalmQuiet
<1>5. CASE addDbSessionDenied(t)
  <2>1. thread'[t].pc = "idle" /\ allocated' = allocated
    BY <1>5, IdleType DEF addDbSessionDenied, Finish, serverVars
  <2>2. WorkCalm(thread[t])' /\ thread'[t].pc \notin HoldsServerManager
    BY <2>1 DEF WorkCalm, HoldsServerManager
  <2>3. \A r \in Server : allocated'[r] = 0 => sessionList[r] = {}
    BY <2>1 DEF CInv, ServerCalm
  <2>4. \A u \in Thread : thread[u].pc \in HoldsServerManager => allocated'[thread[u].server] = 0
    BY <2>1 DEF CInv, WorkCalm
  <2> QED
    BY <1>1, <1>2, <2>2, <2>3, <2>4, CalmQuiet
<1> QED
  BY <1>3, <1>4, <1>5

LEMMA CalmAdd ==
  ASSUME Calm, IInv, EInv, CInv, TypeOK', NEW t \in Thread, NEW i \in Session, addDbSession(t, i)
  PROVE CInv'
<1> DEFINE c == thread[t].client
<1> USE JobType DEF IInv, Job
<1>1. /\ thread[t].pc = "add" /\ i[1] = c
      /\ UNCHANGED <<allocated, sessionList, clientList, state>>
      /\ \A u \in Thread : u # t => thread'[u] = thread[u]
      /\ thread'[t].pc = "allocate" /\ thread'[t].session = i
      /\ thread'[t].client = c /\ thread'[t].server = thread[t].server
  BY DEF addDbSession, serverVars
<1>2. /\ c \in Client
      /\ \A u \in Thread : u # t /\ thread[u].pc # "idle" => thread[u].client # c
  BY <1>1, OnlyThread
<1>3. \A j \in Session : j # i => assigned'[j] = assigned[j]
  BY DEF addDbSession, TypeOK
<1>4. WorkCalm(thread[t])' /\ thread[t].pc \in HoldsServerManager
  BY <1>1 DEF WorkCalm, CInv, HoldsServerManager
<1>5. \A j \in Session : j[1] = c => assigned'[j] = None \/ Counted(j)' \/ InTransit(j)'
  <2> SUFFICES ASSUME NEW j \in Session, j[1] = c
               PROVE assigned'[j] = None \/ Counted(j)' \/ InTransit(j)'
    OBVIOUS
  <2>1. CASE j = i
    BY <1>1, <2>1 DEF InTransit
  <2>2. CASE j # i
    BY <1>1, <1>2, <1>3, <2>2, OwnCalm DEF Counted
  <2> QED
    BY <2>1, <2>2
<1>6. \A s \in Server : /\ allocated'[s] = 0 => sessionList'[s] = {}
                        /\ \A j, k \in sessionList'[s] : j = k
                        /\ \A j \in sessionList'[s] : j[1] = c => c \in clientList'[s]
                        /\ c \in clientList'[s] => \E j \in sessionList'[s] : j[1] = c
  BY <1>1, <1>2, OwnCalm DEF CInv, ServerCalm
<1>7. \A u \in Thread : thread[u].pc \in HoldsServerManager => allocated'[thread[u].server] = 0
  BY <1>1 DEF CInv, WorkCalm
<1> QED
  BY <1>1, <1>2, <1>3, <1>4, <1>5, <1>6, <1>7, CalmStep

LEMMA CalmAllocate ==
  ASSUME Calm, IInv, EInv, CInv, TypeOK', NEW t \in Thread, allocateClient(t)
  PROVE CInv'
<1> DEFINE s == thread[t].server
           c == thread[t].client
<1> USE JobType DEF IInv, Job
<1>1. /\ thread[t].pc = "allocate" /\ thread[t].pc \in HoldsServerManager
      /\ s \in Server /\ allocated[s] = 0 /\ state[s] = "up"
      /\ UNCHANGED <<assigned, sessionList, state>>
  BY DEF allocateClient, clientVars, WorkOK, CInv, WorkCalm, ServerCalm, HoldsServerManager
<1>2. /\ c \in Client
      /\ \A u \in Thread : u # t /\ thread[u].pc # "idle" => thread[u].client # c
  BY <1>1, OnlyThread
<1>3. /\ FreeCounts(s) = {0} /\ FullCounts(s) = {}
      /\ ~CallFails(s) /\ ~ReplyLost(s) /\ ~NoAnswer(s)
  BY <1>1 DEF Calm, isAvailableCounts, FreeCounts, FullCounts, CallFails, ReplyLost, NoAnswer
<1>4. /\ allocated' = [allocated EXCEPT ![s] = 0]
      /\ clientList' = [clientList EXCEPT ![s] = @ \cup {c}]
      /\ Goto(t, "record")
  BY <1>3 DEF allocateClient
<1>5. allocated' = allocated
  BY <1>1, <1>4 DEF TypeOK
<1>6. /\ \A u \in Thread : u # t => thread'[u] = thread[u]
      /\ thread'[t].pc = "record" /\ thread'[t].session = thread[t].session
      /\ thread'[t].client = c /\ thread'[t].server = s
  BY <1>4 DEF Goto
<1>7. /\ clientList'[s] = clientList[s] \cup {c}
      /\ \A r \in Server : r # s => clientList'[r] = clientList[r]
  BY <1>1, <1>4 DEF TypeOK
<1>8. WorkCalm(thread[t])'
  BY <1>1, <1>5, <1>6, <1>7 DEF WorkCalm
<1>9. \A j \in Session : j[1] = c => assigned'[j] = None \/ Counted(j)' \/ InTransit(j)'
  <2> SUFFICES ASSUME NEW j \in Session, j[1] = c
               PROVE assigned'[j] = None \/ Counted(j)' \/ InTransit(j)'
    OBVIOUS
  <2>1. CASE thread[t].session = j
    BY <1>6, <2>1 DEF InTransit
  <2>2. CASE thread[t].session # j
    <3>1. assigned[j] = None \/ Counted(j)
      BY <1>1, <1>2, <2>2, OwnCalm
    <3> QED
      BY <1>1, <3>1 DEF Counted
  <2> QED
    BY <2>1, <2>2
<1>10. \A r \in Server : c \in clientList'[r] =>
         (\E j \in sessionList'[r] : j[1] = c) \/ Recording(c, r)'
  <2> SUFFICES ASSUME NEW r \in Server, c \in clientList'[r]
               PROVE (\E j \in sessionList'[r] : j[1] = c) \/ Recording(c, r)'
    OBVIOUS
  <2>1. CASE r = s
    BY <1>6, <2>1 DEF Recording, Holds
  <2>2. CASE r # s
    BY <1>1, <1>2, <1>7, <2>2, OwnCalm
  <2> QED
    BY <2>1, <2>2
<1>11. \A r \in Server : /\ allocated'[r] = 0 => sessionList'[r] = {}
                         /\ \A j, k \in sessionList'[r] : j = k
                         /\ \A j \in sessionList'[r] : j[1] = c => c \in clientList'[r]
  BY <1>1, <1>5, <1>7 DEF CInv, ServerCalm
<1>12. \A u \in Thread : thread[u].pc \in HoldsServerManager => allocated'[thread[u].server] = 0
  BY <1>5 DEF CInv, WorkCalm
<1>13. \A r \in Server : \A d \in Client : d # c => (d \in clientList'[r] <=> d \in clientList[r])
  BY <1>7
<1> QED
  BY <1>1, <1>2, <1>6, <1>8, <1>9, <1>10, <1>11, <1>12, <1>13, CalmStep

LEMMA CalmRecord ==
  ASSUME Calm, IInv, EInv, CInv, TypeOK', NEW t \in Thread, recordSession(t)
  PROVE CInv'
<1> DEFINE s == thread[t].server
           c == thread[t].client
           i == thread[t].session
<1> USE JobType DEF IInv, Job
<1>1. /\ thread[t].pc = "record" /\ thread[t].pc \in HoldsServerManager
      /\ s \in Server /\ allocated[s] = 0 /\ sessionList[s] = {}
      /\ i \in Session /\ i[1] = c /\ c \in clientList[s]
      /\ UNCHANGED <<assigned, clientList, state>>
  BY DEF recordSession, clientVars, WorkOK, CInv, WorkCalm, ServerCalm, HoldsServerManager
<1>2. /\ c \in Client
      /\ \A u \in Thread : u # t /\ thread[u].pc # "idle" => thread[u].client # c
  BY <1>1, OnlyThread
<1>3. /\ sessionList' = [sessionList EXCEPT ![s] = @ \cup {i}]
      /\ allocated' = [allocated EXCEPT ![s] = (@ + 1) % Modulus]
  BY DEF recordSession, Calm
<1>4. /\ sessionList'[s] = {i}
      /\ \A r \in Server : r # s => sessionList'[r] = sessionList[r]
  BY <1>1, <1>3 DEF TypeOK
<1>5. /\ allocated'[s] # 0
      /\ \A r \in Server : r # s => allocated'[r] = allocated[r]
  <2>1. (0 + 1) % Modulus = 1
    BY ConstantsAssumption
  <2> QED
    BY <1>1, <1>3, <2>1 DEF TypeOK
<1>6. /\ \A u \in Thread : u # t => thread'[u] = thread[u]
      /\ thread'[t].pc = "idle"
  BY IdleType DEF recordSession, Finish
<1>7. WorkCalm(thread[t])' /\ thread'[t].pc \notin HoldsServerManager
  BY <1>6 DEF WorkCalm, HoldsServerManager
<1>8. \A j \in Session : j[1] = c => assigned'[j] = None \/ Counted(j)'
  <2> SUFFICES ASSUME NEW j \in Session, j[1] = c
               PROVE assigned'[j] = None \/ Counted(j)'
    OBVIOUS
  <2>1. CASE i = j
    BY <1>1, <1>4, <2>1 DEF Counted
  <2>2. CASE i # j
    <3>1. assigned[j] = None \/ Counted(j)
      BY <1>1, <1>2, <2>2, OwnCalm
    <3> QED
      BY <1>1, <1>4, <3>1 DEF Counted
  <2> QED
    BY <2>1, <2>2
<1>9. \A r \in Server : c \in clientList'[r] => \E j \in sessionList'[r] : j[1] = c
  BY <1>1, <1>2, <1>4, OwnCalm
<1>10. \A r \in Server : /\ allocated'[r] = 0 => sessionList'[r] = {}
                         /\ \A j, k \in sessionList'[r] : j = k
                         /\ \A j \in sessionList'[r] : j[1] = c => c \in clientList'[r]
  BY <1>1, <1>4, <1>5 DEF CInv, ServerCalm
<1>11. \A u \in Thread : u # t => thread[u].pc \notin HoldsServerManager
  BY <1>1 DEF CInv, OneServerSearch
<1>12. \A r \in Server : \A j \in Session :
         j[1] # c => (j \in sessionList'[r] <=> j \in sessionList[r])
  BY <1>1, <1>4
<1> QED
  BY <1>1, <1>2, <1>6, <1>7, <1>8, <1>9, <1>10, <1>11, <1>12, CalmStep

\* The first half of releasing session i of thread t's client.
LEMMA CalmUncount ==
  ASSUME IInv, EInv, CInv, TypeOK', NEW t \in Thread, NEW i \in Session,
         thread[t].pc \in {"close", "remove"}, i[1] = thread[t].client, Counted(i),
         Uncount(assigned[i], i), UNCHANGED <<assigned, clientList, state>>,
         \A u \in Thread : u # t => thread'[u] = thread[u],
         thread'[t].client = thread[t].client, thread'[t].server = assigned[i],
         thread'[t].session = i, thread'[t].todo = thread[t].todo,
         \/ thread[t].pc = "close" /\ thread'[t].pc = "closeCall"
         \/ thread[t].pc = "remove" /\ thread'[t].pc = "removeCall"
  PROVE CInv'
<1> DEFINE c == thread[t].client
           s == assigned[i]
<1>1. /\ c \in Client
      /\ \A u \in Thread : u # t /\ thread[u].pc # "idle" => thread[u].client # c
  BY OnlyThread
<1>2. s \in Server /\ i \in sessionList[s] /\ \A r \in Server : i \in sessionList[r] => r = s
  BY DEF IInv, RecordedSessionsAreAssigned, WorkOK, Counted
<1>3. sessionList[s] = {i}
  BY <1>2 DEF CInv, ServerCalm
<1>4. /\ sessionList'[s] = {}
      /\ \A r \in Server : r # s => sessionList'[r] = sessionList[r]
      /\ \A r \in Server : r # s => allocated'[r] = allocated[r]
  BY <1>2, <1>3 DEF Uncount, IInv, TypeOK
<1>5. \A j \in Session : j # i /\ Counted(j) => \E r \in Server : j \in sessionList'[r]
  BY <1>3, <1>4 DEF Counted
<1>6. \A j \in thread[t].todo : thread[t].pc = "remove" => j \in Session /\ Counted(j)
  BY JobType DEF CInv, WorkCalm, IInv, Job
<1>7. WorkCalm(thread[t])' /\ thread'[t].pc \notin HoldsServerManager
  BY <1>2, <1>4, <1>5, <1>6 DEF WorkCalm, HoldsServerManager, Counted
<1>8. \A j \in Session : j[1] = c => assigned'[j] = None \/ Counted(j)' \/ InTransit(j)'
  <2> SUFFICES ASSUME NEW j \in Session, j[1] = c
               PROVE assigned'[j] = None \/ Counted(j)' \/ InTransit(j)'
    OBVIOUS
  <2>1. CASE j = i \/ thread[t].pc = "remove"
    BY <2>1 DEF InTransit
  <2>2. CASE j # i /\ thread[t].pc = "close"
    <3>1. assigned[j] = None \/ Counted(j)
      BY <1>1, <2>2, OwnCalm
    <3> QED
      BY <1>5, <2>2, <3>1 DEF Counted
  <2> QED
    BY <2>1, <2>2
<1>9. \A r \in Server : c \in clientList'[r] =>
        c \in Leaving(r)' \/ \E j \in sessionList'[r] : j[1] = c
  <2> SUFFICES ASSUME NEW r \in Server, c \in clientList'[r]
               PROVE c \in Leaving(r)' \/ \E j \in sessionList'[r] : j[1] = c
    OBVIOUS
  <2>1. CASE r = s
    BY <2>1 DEF Leaving, Holds
  <2>2. CASE r # s
    BY <1>1, <1>4, <2>2, OwnCalm
  <2> QED
    BY <2>1, <2>2
<1>10. \A r \in Server : /\ allocated'[r] = 0 => sessionList'[r] = {}
                         /\ \A j, k \in sessionList'[r] : j = k
                         /\ \A j \in sessionList'[r] : j[1] = c => c \in clientList'[r]
  BY <1>4 DEF CInv, ServerCalm
<1>11. \A u \in Thread : u # t /\ thread[u].pc \in HoldsServerManager =>
         allocated'[thread[u].server] = 0
  BY <1>3, <1>4 DEF CInv, WorkCalm, ServerCalm, IInv, WorkOK
<1>12. \A r \in Server : \A j \in Session :
         j[1] # c => (j \in sessionList'[r] <=> j \in sessionList[r])
  BY <1>3, <1>4
<1> QED
  BY <1>1, <1>7, <1>8, <1>9, <1>10, <1>11, <1>12, CalmStep

LEMMA CalmRelease ==
  ASSUME Calm, IInv, EInv, CInv, TypeOK', NEW t \in Thread,
         removeDbSession(t) \/ \E i \in Session : removeFromServer(t, i)
  PROVE CInv'
<1> USE JobType DEF IInv, Job
<1>1. CASE removeDbSession(t)
  <2> DEFINE i == thread[t].session
  <2>1. /\ thread[t].pc = "close" /\ i \in Session /\ i[1] = thread[t].client /\ Counted(i)
    BY <1>1 DEF removeDbSession, WorkOK, CInv, WorkCalm
  <2>2. assigned[i] \in Server /\ assigned[i] # None /\ state[assigned[i]] # "gone"
    BY <2>1, ConstantsAssumption
    DEF RecordedSessionsAreAssigned, WorkOK, Counted, CInv, ServerCalm
  <2>3. /\ Uncount(assigned[i], i) /\ UNCHANGED <<assigned, clientList, state>>
        /\ thread' = [thread EXCEPT ![t].pc = "closeCall", ![t].server = assigned[i]]
    BY <1>1, <2>2 DEF removeDbSession
  <2>4. /\ \A u \in Thread : u # t => thread'[u] = thread[u]
        /\ thread'[t].client = thread[t].client /\ thread'[t].server = assigned[i]
        /\ thread'[t].session = i /\ thread'[t].todo = thread[t].todo
        /\ thread'[t].pc = "closeCall"
    BY <2>3
  <2> QED
    BY <2>1, <2>3, <2>4, CalmUncount
<1>2. ASSUME NEW i \in Session, removeFromServer(t, i)
      PROVE CInv'
  <2>1. /\ thread[t].pc = "remove" /\ i[1] = thread[t].client /\ Counted(i)
    BY <1>2 DEF removeFromServer, WorkOK, CInv, WorkCalm
  <2>2. assigned[i] \in Server /\ state[assigned[i]] # "gone"
    BY <2>1 DEF RecordedSessionsAreAssigned, WorkOK, Counted, CInv, ServerCalm
  <2>3. /\ Uncount(assigned[i], i) /\ UNCHANGED <<assigned, clientList, state>>
        /\ thread' = [thread EXCEPT ![t].pc = "removeCall", ![t].session = i,
                                    ![t].server = assigned[i]]
    BY <1>2, <2>2 DEF removeFromServer, clientVars
  <2>4. /\ \A u \in Thread : u # t => thread'[u] = thread[u]
        /\ thread'[t].client = thread[t].client /\ thread'[t].server = assigned[i]
        /\ thread'[t].session = i /\ thread'[t].todo = thread[t].todo
        /\ thread'[t].pc = "removeCall"
    BY <2>3
  <2> QED
    BY <2>1, <2>3, <2>4, CalmUncount
<1> QED
  BY <1>1, <1>2

LEMMA CalmCall ==
  ASSUME Calm, IInv, EInv, CInv, TypeOK', NEW t \in Thread,
         removeDbSessionCall(t) \/ removeFromServerCall(t)
  PROVE CInv'
<1> DEFINE s == thread[t].server
           c == thread[t].client
           i == thread[t].session
<1> USE JobType DEF IInv, Job
<1>1. /\ thread[t].pc \in {"closeCall", "removeCall"}
      /\ s \in Server /\ i \in Session /\ i[1] = c
      /\ \A j \in sessionList[s] : j[1] # c
      /\ UNCHANGED <<allocated, sessionList, state>>
  BY DEF removeDbSessionCall, removeFromServerCall, WorkOK, CInv, WorkCalm
<1>2. /\ c \in Client
      /\ \A u \in Thread : u # t /\ thread[u].pc # "idle" => thread[u].client # c
  BY <1>1, OnlyThread
<1>3. ~CallFails(s) /\ ~ReplyLost(s)
  BY <1>1 DEF Calm, CallFails, ReplyLost, CInv, ServerCalm
<1>4. clientList' = [clientList EXCEPT ![s] = @ \ {c}]
  BY <1>1, <1>3 DEF removeDbSessionCall, removeFromServerCall
<1>5. /\ clientList'[s] = clientList[s] \ {c}
      /\ \A r \in Server : r # s => clientList'[r] = clientList[r]
  BY <1>1, <1>4 DEF TypeOK
<1>6. \/ /\ thread[t].pc = "closeCall" /\ thread'[t].pc = "idle"
         /\ assigned' = [assigned EXCEPT ![i] = None]
      \/ /\ thread[t].pc = "removeCall" /\ thread'[t].pc = "remove"
         /\ thread'[t].client = c /\ thread'[t].todo = thread[t].todo \ {i}
         /\ assigned' = assigned
  BY <1>3, IdleType DEF removeDbSessionCall, removeFromServerCall, Finish, clientVars
<1>7. \A u \in Thread : u # t => thread'[u] = thread[u]
  BY DEF removeDbSessionCall, removeFromServerCall, Finish
<1>8. \A j \in Session : j # i => assigned'[j] = assigned[j]
  BY <1>6 DEF TypeOK
<1>9. WorkCalm(thread[t])' /\ thread'[t].pc \notin HoldsServerManager
  BY <1>1, <1>6 DEF CInv, WorkCalm, HoldsServerManager, Counted
<1>10. \A j \in Session : j[1] = c => assigned'[j] = None \/ Counted(j)' \/ InTransit(j)'
  <2> SUFFICES ASSUME NEW j \in Session, j[1] = c
               PROVE assigned'[j] = None \/ Counted(j)' \/ InTransit(j)'
    OBVIOUS
  <2>1. CASE thread[t].pc = "removeCall"
    BY <1>6, <2>1 DEF InTransit
  <2>2. CASE thread[t].pc = "closeCall" /\ j = i
    BY <1>6, <2>2 DEF TypeOK
  <2>3. CASE thread[t].pc = "closeCall" /\ j # i
    <3>1. assigned[j] = None \/ Counted(j)
      BY <1>2, <2>3, OwnCalm
    <3> QED
      BY <1>1, <1>8, <2>3, <3>1 DEF Counted
  <2> QED
    BY <1>1, <2>1, <2>2, <2>3
<1>11. \A r \in Server : c \in clientList'[r] => \E j \in sessionList'[r] : j[1] = c
  BY <1>1, <1>2, <1>5, OwnCalm
<1>12. \A r \in Server : /\ allocated'[r] = 0 => sessionList'[r] = {}
                         /\ \A j, k \in sessionList'[r] : j = k
                         /\ \A j \in sessionList'[r] : j[1] = c => c \in clientList'[r]
  BY <1>1, <1>5 DEF CInv, ServerCalm
<1>13. \A u \in Thread : thread[u].pc \in HoldsServerManager => allocated'[thread[u].server] = 0
  BY <1>1 DEF CInv, WorkCalm
<1>14. \A r \in Server : \A d \in Client : d # c => (d \in clientList'[r] <=> d \in clientList[r])
  BY <1>5
<1> QED
  BY <1>1, <1>2, <1>7, <1>8, <1>9, <1>10, <1>11, <1>12, <1>13, <1>14, CalmStep

LEMMA CalmRemoveClient ==
  ASSUME Calm, IInv, EInv, CInv, TypeOK', NEW t \in Thread, removeClientFromServers(t)
  PROVE CInv'
<1> DEFINE c == thread[t].client
<1> USE JobType DEF IInv, Job
<1>1. /\ thread[t].pc = "evict" /\ thread[t].pc \notin HoldsAssigned
      /\ UNCHANGED <<assigned, allocated, sessionList, clientList, state>>
      /\ \A u \in Thread : u # t => thread'[u] = thread[u]
      /\ thread'[t].pc = "remove" /\ thread'[t].todo = SessionsOf(c)
  BY DEF removeClientFromServers, clientVars, serverVars, HoldsAssigned
<1>2. /\ c \in Client
      /\ \A u \in Thread : u # t /\ thread[u].pc # "idle" => thread[u].client # c
  BY <1>1, OnlyThread
<1>3. \A i \in SessionsOf(c) : Counted(i)
  BY <1>1, <1>2, OwnCalm DEF SessionsOf
<1>4. WorkCalm(thread[t])' /\ thread'[t].pc \notin HoldsServerManager
  BY <1>1, <1>3 DEF WorkCalm, Counted, HoldsServerManager
<1>5. /\ \A s \in Server : allocated'[s] = 0 => sessionList[s] = {}
      /\ \A u \in Thread : thread[u].pc \in HoldsServerManager => allocated'[thread[u].server] = 0
  BY <1>1 DEF CInv, ServerCalm, WorkCalm
<1> QED
  BY <1>1, <1>2, <1>4, <1>5, CalmQuiet

LEMMA CalmForget ==
  ASSUME Calm, IInv, EInv, CInv, TypeOK', NEW t \in Thread,
         clearAssignedServers(t) \/ eraseClient(t)
  PROVE CInv'
<1> DEFINE c == thread[t].client
<1> USE JobType DEF IInv, Job
<1>1. /\ thread[t].pc \in {"remove", "erase"}
      /\ UNCHANGED <<allocated, sessionList, clientList, state>>
      /\ \A u \in Thread : u # t => thread'[u] = thread[u]
      /\ thread'[t].pc \in {"erase", "idle"}
      /\ assigned' = [i \in Session |-> IF i[1] = c THEN None ELSE assigned[i]]
  BY IdleType DEF clearAssignedServers, eraseClient, serverVars, Goto, Finish
<1>2. /\ c \in Client
      /\ \A u \in Thread : u # t /\ thread[u].pc # "idle" => thread[u].client # c
  BY <1>1, OnlyThread
<1>3. WorkCalm(thread[t])' /\ thread'[t].pc \notin HoldsServerManager
  BY <1>1 DEF WorkCalm, HoldsServerManager
<1>4. \A s \in Server : /\ allocated'[s] = 0 => sessionList'[s] = {}
                        /\ \A j, k \in sessionList'[s] : j = k
                        /\ \A j \in sessionList'[s] : j[1] = c => c \in clientList'[s]
                        /\ c \in clientList'[s] => \E j \in sessionList'[s] : j[1] = c
  BY <1>1, <1>2, OwnCalm DEF CInv, ServerCalm
<1>5. \A u \in Thread : thread[u].pc \in HoldsServerManager => allocated'[thread[u].server] = 0
  BY <1>1 DEF CInv, WorkCalm
<1>6. /\ \A j \in Session : j[1] = c => assigned'[j] = None
      /\ \A j \in Session : j[1] # c => assigned'[j] = assigned[j]
  BY <1>1
<1> QED
  BY <1>1, <1>2, <1>3, <1>4, <1>5, <1>6, CalmStep

LEMMA CalmClientCall ==
  ASSUME Calm, IInv, EInv, CInv, TypeOK', clientCall
  PROVE CInv'
<1> USE JobType DEF IInv, Job
<1>1. ASSUME NEW c \in Client, connectClient(c) \/ keepClientAlive(c)
      PROVE CInv'
  <2>1. UNCHANGED <<assigned, allocated, sessionList, clientList, state, thread>>
    BY <1>1 DEF connectClient, keepClientAlive, serverVars
  <2> QED
    BY <2>1 DEF CInv, ServerCalm, WorkCalm, OneServerSearch, Counted, InTransit, Recording,
                Leaving, Holds
<1>2. ASSUME NEW t \in Handler, NEW c \in Client, NEW w, Accepts(t, c),
             thread' = [thread EXCEPT ![t] = w],
             w.pc \in {"find", "evict", "close"},
             w.pc = "close" => /\ w.session \in Session /\ w.session[1] = c
                               /\ assigned[w.session] # None,
             UNCHANGED <<clientVars, serverVars>>
      PROVE CInv'
  <2>1. /\ t \in Thread
        /\ thread[t].pc = "idle" /\ thread[t].pc \notin HoldsAssigned
        /\ UNCHANGED <<assigned, allocated, sessionList, clientList, state>>
        /\ \A u \in Thread : u # t => thread'[u] = thread[u]
        /\ thread'[t] = w
    BY <1>2 DEF Accepts, Thread, clientVars, serverVars, HoldsAssigned
  <2>2. \A u \in Thread : u # t /\ thread[u].pc # "idle" => thread[u].client # c
    BY <1>2 DEF Accepts, Calm, EInv, OneCallEach, Thread
  <2>3. w.pc = "close" => Counted(w.session)
    BY <1>2, <2>1, <2>2, OwnCalm
  <2>4. WorkCalm(thread[t])' /\ thread'[t].pc \notin HoldsServerManager
    BY <1>2, <2>1, <2>3 DEF WorkCalm, Counted, HoldsServerManager
  <2>5. /\ \A s \in Server : allocated'[s] = 0 => sessionList[s] = {}
        /\ \A u \in Thread : thread[u].pc \in HoldsServerManager => allocated'[thread[u].server] = 0
    BY <2>1 DEF CInv, ServerCalm, WorkCalm
  <2> QED
    BY <2>1, <2>2, <2>4, <2>5, CalmQuiet
<1>3. ASSUME NEW t \in Handler, NEW c \in Client,
             openClientDbSession(t, c) \/ disconnectClient(t, c)
      PROVE CInv'
  <2>1. PICK pc \in {"find", "evict"} :
          Accepts(t, c) /\ Begin(t, c, pc) /\ UNCHANGED <<clientVars, serverVars>>
    BY <1>3 DEF openClientDbSession, disconnectClient
  <2> DEFINE w == [Idle EXCEPT !.pc = pc, !.client = c]
  <2>2. w.pc = pc /\ thread' = [thread EXCEPT ![t] = w]
    BY <2>1 DEF Begin, Idle
  <2> HIDE DEF w
  <2> QED
    BY <1>2, <2>1, <2>2
<1>4. ASSUME NEW t \in Handler, NEW i \in Session, closeClientDbSession(t, i)
      PROVE CInv'
  <2> DEFINE w == [Idle EXCEPT !.pc = "close", !.client = i[1], !.session = i]
  <2>1. /\ i[1] \in Client /\ w.pc = "close" /\ w.session = i
        /\ thread' = [thread EXCEPT ![t] = w]
    BY <1>4 DEF closeClientDbSession, Idle, Session
  <2> HIDE DEF w
  <2> QED
    BY <1>2, <1>4, <2>1 DEF closeClientDbSession
<1> QED
  BY <1>1, <1>3, <1>4 DEF clientCall

LEMMA CalmEnvironment ==
  ASSUME Calm, IInv, EInv, CInv, environment
  PROVE CInv'
<1>1. PICK s \in Server : isFree(s)
  BY DEF environment, timerExpires, evaluateClientsStatus, evaluateClientStatus, serverCrashes,
         serverDestroyed, Calm, EInv, OneCallEach, CInv, ServerCalm
<1>2. UNCHANGED <<assigned, sessionList, clientList, state, thread>>
  BY <1>1 DEF isFree, clientVars
<1>3. /\ allocated[s] # 0 /\ allocated'[s] = getClientQueueSize(s)
      /\ \A r \in Server : r # s => allocated'[r] = allocated[r]
  BY <1>1 DEF isFree, IInv, TypeOK
<1>4. allocated'[s] = 0 => sessionList[s] = {}
  BY <1>3, NoClientsReported DEF CInv, ServerCalm
<1>5. \A r \in Server : ServerCalm(r)'
  BY <1>2, <1>3, <1>4 DEF CInv, ServerCalm, Leaving, Recording, Holds
<1>6. \A t \in Thread : thread[t].pc \in HoldsServerManager => allocated'[thread[t].server] = 0
  BY <1>3 DEF CInv, WorkCalm, IInv, WorkOK
<1>7. \A t \in Thread : WorkCalm(thread[t])'
  BY <1>2, <1>6 DEF CInv, WorkCalm, Counted
<1> QED
  BY <1>2, <1>5, <1>7 DEF CInv, OneServerSearch, Counted, InTransit

LEMMA CalmNext == ASSUME Calm PROVE IInv /\ EInv /\ CInv /\ [Next]_vars => EInv' /\ CInv'
<1> SUFFICES ASSUME IInv, EInv, CInv, [Next]_vars
             PROVE EInv' /\ CInv'
  OBVIOUS
<1>1. TypeOK'
  BY NextInv DEF IInv
<1>2. CASE clientCall
  BY <1>1, <1>2, CalmIsPatient, ExitClientCall, CalmClientCall
<1>3. CASE environment
  BY <1>3, CalmIsPatient, ExitEnvironment, CalmEnvironment
<1>4. ASSUME NEW t \in Thread, threadStep(t)
      PROVE EInv' /\ CInv'
  <2>1. EInv'
    BY <1>4, ExitThreadStep
  <2>2. CInv'
    BY <1>1, <1>4, CalmFind, CalmAdd, CalmAllocate, CalmRecord, CalmRelease, CalmCall,
       CalmRemoveClient, CalmForget
    DEF threadStep
  <2> QED
    BY <2>1, <2>2
<1>5. CASE UNCHANGED vars
  <2>1. UNCHANGED <<clients, expired, assigned, allocated, sessionList, clientList, state, thread>>
    BY <1>5 DEF vars, clientVars, serverVars
  <2>2. EInv'
    BY <2>1 DEF EInv, OneCallEach, CleanExit
  <2>3. CInv'
    BY <2>1 DEF CInv, ServerCalm, WorkCalm, OneServerSearch, Counted, InTransit, Recording,
                Leaving, Holds
  <2> QED
    BY <2>2, <2>3
<1> QED
  BY <1>2, <1>3, <1>4, <1>5 DEF Next

\* tryGetFreeServer and allocateClientSession never give a server more
\* sessions than its capacity, although the counter they look at is corrected
\* by what the server process reports at any time in between.
THEOREM SessionCapacity == ASSUME Calm PROVE Spec => []SessionsWithinCapacity
<1>1. CInv => SessionsWithinCapacity
  <2> SUFFICES ASSUME CInv, NEW s \in Server
               PROVE Cardinality(sessionList[s]) <= MaxClients
    BY DEF SessionsWithinCapacity
  <2>1. \A i, j \in sessionList[s] : i = j
    BY DEF CInv, ServerCalm
  <2> QED
    BY <2>1, AtMostOne DEF Calm
<1> QED
  BY <1>1, ExitInit, CalmInit, CalmNext, Invariance, PTL DEF Spec

\* The server process itself never has more clients to keep than its
\* capacity: one that is too many is about to be told to go.
THEOREM ClientCapacity == ASSUME Calm PROVE Spec => []ClientsWithinCapacity
<1>1. IInv /\ CInv => ClientsWithinCapacity
  <2> SUFFICES ASSUME IInv, CInv, NEW s \in Server
               PROVE Cardinality(clientList[s] \ Leaving(s)) <= MaxClients
    BY DEF ClientsWithinCapacity
  <2>1. \A c \in clientList[s] \ Leaving(s) :
          (\E i \in sessionList[s] : i[1] = c) \/ Recording(c, s)
    BY DEF CInv, ServerCalm
  <2>2. \A c, d \in Client : Recording(c, s) /\ Recording(d, s) => c = d
    BY DEF Recording, CInv, OneServerSearch, HoldsServerManager
  <2>3. \A c \in Client : Recording(c, s) => sessionList[s] = {}
    BY DEF Recording, Holds, CInv, WorkCalm, ServerCalm, HoldsServerManager
  <2>4. clientList[s] \subseteq Client /\ \A i, j \in sessionList[s] : i = j
    BY DEF IInv, TypeOK, CInv, ServerCalm
  <2>5. \A c, d \in clientList[s] \ Leaving(s) : c = d
    BY <2>1, <2>2, <2>3, <2>4
  <2> QED
    BY <2>5, AtMostOne DEF Calm
<1> QED
  BY <1>1, ExitInit, CalmInit, CalmNext, Invariance, PTL DEF Spec

-----------------------------------------------------------------------------
(* The order of the locks: serverManagerMutex before the                   *)
(* assignedServersMutex of a client, and clientsMutex, shared, before both.*)

\* A thread waits only for threads further on in the order.
LEMMA WaitsForLater ==
  ASSUME NEW t, NEW u, WaitsFor(t, u)
  PROVE \/ /\ thread[t].pc = "erase"
           /\ thread[u].pc # "erase"
        \/ /\ thread[t].pc = "find"
           /\ thread[u].pc \notin {"erase", "find"}
        \/ /\ thread[t].pc \in {"add", "close", "evict"}
           /\ thread[u].pc \in HoldsAssigned
  BY DEF WaitsFor, HoldsServerManager, Shared, Opening, Closing

LEMMA HoldersGoOn ==
  ASSUME NEW t, thread[t].pc \in HoldsAssigned, NEW u
  PROVE ~WaitsFor(t, u)
  BY WaitsForLater DEF HoldsAssigned

\* No set of threads waits for each other, whichever sessions they open,
\* close or evict: the locks that ClientManager, ServerManager and Client
\* take one inside the other are always taken in the same order.
THEOREM LockOrder == Spec => []NoLockCycle
<1>1. NoLockCycle
  <2> SUFFICES ASSUME NEW C \in SUBSET Thread, C # {},
                      \A t \in C : \E u \in C : WaitsFor(t, u)
               PROVE FALSE
    BY DEF NoLockCycle
  <2>1. \A t \in C : thread[t].pc \notin HoldsAssigned
    BY HoldersGoOn
  <2>2. \A t \in C : thread[t].pc \notin {"add", "close", "evict"}
    BY <2>1, WaitsForLater
  <2>3. \A t \in C : thread[t].pc # "find"
    BY <2>2, WaitsForLater
  <2>4. \A t \in C : thread[t].pc # "erase"
    BY <2>2, <2>3, WaitsForLater
  <2>5. PICK t \in C : TRUE
    OBVIOUS
  <2> QED
    BY <2>2, <2>3, <2>4, <2>5, WaitsForLater
<1> QED
  BY <1>1, PTL

-----------------------------------------------------------------------------
(* The sessions implement SessionTable.                                    *)

LEMMA TableOpen ==
  ASSUME Calm, IInv, EInv, CInv, NEW t \in Thread, recordSession(t)
  PROVE Table!Next
<1> DEFINE s == thread[t].server
           i == thread[t].session
<1>1. /\ thread[t].pc = "record" /\ thread[t].pc \in HoldsServerManager
      /\ thread[t] \in Job /\ WorkOK(thread[t]) /\ WorkCalm(thread[t])
  BY JobType DEF recordSession, HoldsServerManager, IInv, CInv
<1>2. /\ s \in Server /\ i \in Session
      /\ i[1] \in clients /\ assigned[i] = s /\ allocated[s] = 0
  BY <1>1 DEF WorkOK, WorkCalm
<1>3. sessionList[s] = {}
  BY <1>2 DEF CInv, ServerCalm
<1>4. \A r \in Server : i \notin sessionList[r]
  BY <1>2, <1>3 DEF IInv, RecordedSessionsAreAssigned
<1>5. Cardinality(sessionList[s]) < MaxClients
  BY <1>3, FS_EmptySet, ConstantsAssumption
<1>6. sessionList' = [sessionList EXCEPT ![s] = @ \cup {i}] /\ clients' = clients
  BY DEF recordSession, clientVars, Calm
<1>7. Table!Cardinality(sessionList[s]) = Cardinality(sessionList[s])
  BY DEF Table!Cardinality, Cardinality
<1>8. Table!Open(s, i)
  BY <1>2, <1>4, <1>5, <1>6, <1>7 DEF Table!Open
<1> QED
  BY <1>2, <1>8 DEF Table!Next

LEMMA TableClose ==
  ASSUME IInv, NEW s \in Server, NEW i \in Session, Uncount(s, i), clients' = clients
  PROVE Table!Next
<1>1. Table!Close(s, i)
  BY DEF Uncount, Table!Close
<1> QED
  BY <1>1 DEF Table!Next

LEMMA TableThreadStep ==
  ASSUME Calm, IInv, EInv, CInv, NEW t \in Thread, threadStep(t)
  PROVE [Table!Next]_(Table!table)
<1> DEFINE Same == UNCHANGED <<clients, sessionList>>
<1>0. Same => [Table!Next]_(Table!table)
  BY DEF Table!table
<1>1. CASE recordSession(t)
  BY <1>1, TableOpen
<1>2. CASE removeDbSession(t)
  <2>1. thread[t].pc = "close" /\ thread[t] \in Job /\ WorkOK(thread[t])
    BY <1>2, JobType DEF removeDbSession, IInv
  <2>2. thread[t].session \in Session
    BY <2>1 DEF WorkOK
  <2>3. assigned[thread[t].session] \in Server \cup {None}
    BY <2>2 DEF IInv, TypeOK
  <2> QED
    BY <1>0, <1>2, <2>2, <2>3, TableClose DEF removeDbSession
<1>3. ASSUME NEW i \in Session, removeFromServer(t, i)
      PROVE [Table!Next]_(Table!table)
  <2>1. WorkCalm(thread[t]) /\ WorkOK(thread[t])
    BY DEF IInv, CInv
  <2>2. Counted(i) /\ i[1] \in clients
    BY <1>3, <2>1 DEF removeFromServer, WorkCalm, WorkOK
  <2>3. assigned[i] \in Server
    BY <2>2 DEF Counted, IInv, RecordedSessionsAreAssigned
  <2> QED
    BY <1>0, <1>3, <2>3, TableClose DEF removeFromServer, clientVars
<1>4. CASE eraseClient(t)
  <2> DEFINE c == thread[t].client
  <2>1. thread[t].pc = "erase" /\ thread[t] \in Job /\ WorkOK(thread[t])
    BY <1>4, JobType DEF eraseClient, IInv
  <2>2. c \in Client
    BY <2>1 DEF WorkOK, IInv, TypeOK
  <2>3. \A s \in Server : \A i \in sessionList[s] : i[1] # c
    BY <2>1 DEF EInv
  <2>4. Table!Leave(c)
    BY <1>4, <2>3 DEF eraseClient, serverVars, Table!Leave
  <2> QED
    BY <2>2, <2>4 DEF Table!Next
<1>5. CASE \/ \E s \in Server : tryGetFreeLocalServer(t, s)
           \/ noServerAvailable(t) \/ addDbSessionDenied(t)
           \/ \E i \in Session : addDbSession(t, i)
           \/ allocateClient(t) \/ removeDbSessionCall(t)
           \/ removeClientFromServers(t) \/ removeFromServerCall(t)
           \/ clearAssignedServers(t)
  <2>1. Same
    BY <1>5 DEF tryGetFreeLocalServer, noServerAvailable, addDbSessionDenied, addDbSession,
                allocateClient, removeDbSessionCall, removeClientFromServers,
                removeFromServerCall, clearAssignedServers, clientVars, serverVars
  <2> QED
    BY <1>0, <2>1
<1> QED
  BY <1>1, <1>2, <1>3, <1>4, <1>5 DEF threadStep

LEMMA TableStep ==
  ASSUME Calm, IInv, EInv, CInv, [Next]_vars
  PROVE [Table!Next]_(Table!table)
<1> DEFINE Same == UNCHANGED <<clients, sessionList>>
<1>0. Same => [Table!Next]_(Table!table)
  BY DEF Table!table
<1>1. ASSUME NEW c \in Client, connectClient(c)
      PROVE [Table!Next]_(Table!table)
  <2>1. Table!Join(c)
    BY <1>1 DEF connectClient, FreshClient, serverVars, Table!Join
  <2> QED
    BY <2>1 DEF Table!Next
<1>2. CASE clientCall
  <2>1. CASE \E c \in Client : connectClient(c)
    BY <1>1, <2>1
  <2>2. CASE ~ \E c \in Client : connectClient(c)
    <3>1. Same
      BY <1>2, <2>2 DEF clientCall, keepClientAlive, openClientDbSession, disconnectClient,
                        closeClientDbSession, clientVars, serverVars
    <3> QED
      BY <1>0, <3>1
  <2> QED
    BY <2>1, <2>2
<1>3. CASE environment
  <2>1. Same
    BY <1>3 DEF environment, timerExpires, evaluateClientsStatus, evaluateClientStatus,
                serverCrashes, serverDestroyed, isFree, clientVars, serverVars, CInv, ServerCalm
  <2> QED
    BY <1>0, <2>1
<1>4. CASE UNCHANGED vars
  BY <1>0, <1>4 DEF vars, clientVars, serverVars
<1> QED
  BY <1>2, <1>3, <1>4, TableThreadStep DEF Next

\* While nothing fails, opening, closing and leaving have the effect they
\* would have in one step each: a session is counted once, for a client that
\* is present, on a server with room for it, and nobody leaves who has one.
THEOREM SessionRefinement == ASSUME Calm PROVE Spec => RefinesSessionTable
<1>1. Init => Table!Init
  BY DEF Init, Table!Init
<1>2. IInv /\ EInv /\ CInv /\ [Next]_vars => [Table!Next]_(Table!table)
  BY TableStep
<1> QED
  BY <1>1, <1>2, ExitInit, CalmInit, CalmNext, Invariance, PTL
  DEF Spec, RefinesSessionTable, Table!Spec
=============================================================================
