---------------------------- MODULE SessionTable ----------------------------
(***************************************************************************)
(* What rasmgr promises about sessions while nothing fails: a session      *)
(* belongs to a client that is present and to one server, no server has    *)
(* more sessions than its capacity, and a client that leaves has none.     *)
(***************************************************************************)
EXTENDS Integers, FiniteSets

CONSTANTS Client, Session, Server, Capacity

VARIABLES
  present,   \* the clients that are connected
  held       \* the sessions each server holds; the first part is the client

table == <<present, held>>

Init ==
  /\ present = {}
  /\ held = [s \in Server |-> {}]

Join(c) ==
  /\ c \notin present
  /\ present' = present \cup {c}
  /\ UNCHANGED held

Open(s, i) ==
  /\ i[1] \in present
  /\ \A r \in Server : i \notin held[r]
  /\ Cardinality(held[s]) < Capacity
  /\ held' = [held EXCEPT ![s] = @ \cup {i}]
  /\ UNCHANGED present

Close(s, i) ==
  /\ held' = [held EXCEPT ![s] = @ \ {i}]
  /\ UNCHANGED present

Leave(c) ==
  /\ \A s \in Server : \A i \in held[s] : i[1] # c
  /\ present' = present \ {c}
  /\ UNCHANGED held

Next ==
  \/ \E c \in Client : Join(c) \/ Leave(c)
  \/ \E s \in Server, i \in Session : Open(s, i) \/ Close(s, i)

Spec == Init /\ [][Next]_table
=============================================================================
