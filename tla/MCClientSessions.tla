-------------------------- MODULE MCClientSessions --------------------------
(***************************************************************************)
(* A few clients, one or two servers and two handler threads for TLC.      *)
(***************************************************************************)
EXTENDS ClientSessions, TLC

Symmetry == Permutations(Client) \cup Permutations(Server) \cup Permutations(Handler)
=============================================================================
