--------------------------- MODULE TileLockTable ---------------------------
(***************************************************************************)
(* What the lock manager promises to writers: every tile has at most one   *)
(* writer, the locks of a transaction appear together, and they go         *)
(* together.                                                               *)
(***************************************************************************)
CONSTANTS Server, Tile

VARIABLE holds   \* the tiles each server has locked exclusively

Init == holds = [s \in Server |-> {}]

Grant(s, tiles) ==
  /\ \A r \in Server \ {s} : holds[r] \cap tiles = {}
  /\ holds' = [holds EXCEPT ![s] = @ \cup tiles]

Release(s) == holds' = [holds EXCEPT ![s] = {}]

Next ==
  \E s \in Server :
    \/ \E tiles \in SUBSET Tile : Grant(s, tiles)
    \/ Release(s)

Spec == Init /\ [][Next]_holds
=============================================================================
