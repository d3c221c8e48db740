-------------------------- MODULE MCDatabaseHosts --------------------------
(***************************************************************************)
(* Two hosts, two databases, two groups and two sessions for TLC.          *)
(***************************************************************************)
EXTENDS DatabaseHosts, TLC

Symmetry ==
  Permutations(Host) \cup Permutations(Db) \cup Permutations(Group) \cup Permutations(Session)
=============================================================================
