---------------------------- MODULE MCTileLocks ----------------------------
(* Two servers and three tiles; one of the objects, {1, 3}, has a hole.    *)
EXTENDS TileLocks, TileIntervals

\* The statements for the tiles T in terms of intervals without holes.
Statements(T) ==
  {IF Bulk(T, t) THEN Statement(Min(Interval(T, t)), Max(Interval(T, t)))
                 ELSE Statement(t, t) : t \in Visited(T)}

\* The loop of lockTilesInternal locks the intervals in ascending order.
ASSUME LoopLocksIntervals ==
  \A T \in SUBSET (1 .. 6) \ {{}} :
    LET done == lockTilesInternal(T, BulkMin)
    IN /\ Range(done) = Statements(T)
       /\ \A i \in 1 .. Len(done) - 1 : done[i].last < done[i + 1].first
=============================================================================
