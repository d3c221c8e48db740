------------------------------ MODULE PortPool ------------------------------
(***************************************************************************)
(* What a server group promises about its ports: a port is free or belongs *)
(* to one server, a process lives only on the port of its server, a port   *)
(* becomes free again together with the end of that process, and the set   *)
(* of ports is exchanged only while no server has one.                     *)
(***************************************************************************)
CONSTANTS Server, Port, NoPort

VARIABLES
  free,    \* the ports that a new server may get
  owner,   \* the port of each server
  live     \* the servers whose process lives

pool == <<free, owner, live>>

Init ==
  /\ free \in SUBSET Port
  /\ owner = [s \in Server |-> NoPort]
  /\ live = {}

\* A server gets a port; its process may fail to start.
Take(s) ==
  /\ owner[s] = NoPort
  /\ \E p \in free :
       /\ owner' = [owner EXCEPT ![s] = p]
       /\ free' = free \ {p}
  /\ live' \in {live, live \cup {s}}

\* Processes end, their servers keep the ports.
Die ==
  /\ live' \subseteq live
  /\ UNCHANGED <<free, owner>>

\* The processes of the servers of K are dead and their ports free.
Give(K) ==
  /\ \A s \in K : owner[s] # NoPort
  /\ owner' = [s \in Server |-> IF s \in K THEN NoPort ELSE owner[s]]
  /\ free' = free \cup {owner[s] : s \in K}
  /\ live' \subseteq live \ K

Exchange(ports) ==
  /\ \A s \in Server : owner[s] = NoPort
  /\ free' = ports
  /\ UNCHANGED <<owner, live>>

Next ==
  \/ \E s \in Server : Take(s)
  \/ Die
  \/ \E K \in SUBSET Server : Give(K)
  \/ \E ports \in SUBSET Port : Exchange(ports)

Spec == Init /\ [][Next]_pool
=============================================================================
