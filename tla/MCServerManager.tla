------------------------- MODULE MCServerManager -------------------------
(* Small instances of ServerManager for TLC. *)
EXTENDS ServerManager, TLC

CONSTANTS g1, g2, s1, s2, a1, a2

OneServerEach == s1 :> g1 @@ s2 :> g2
OneHost == {{g1, g2}}

All(op) == [op |-> op, kind |-> "all", groups |-> Group]
Named(op, g) == [op |-> op, kind |-> "name", groups |-> {g}]
OnHost(op) == [op |-> op, kind |-> "host", groups |-> {g1, g2}]

\* One administrator starts all groups and stops those of a host, which has
\* both; the other one stops the group whose servers are restarted by its
\* name while the first is at it.
TwoAdministrators ==
  a1 :> {All("start"), OnHost("stop")} @@ a2 :> {Named("stop", g1)}
============================================================================
