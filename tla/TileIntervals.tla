--------------------------- MODULE TileIntervals ---------------------------
(***************************************************************************)
(* The loop of LockManager::lockTilesInternal, index by index: the         *)
(* statements it executes for an array of tile identifiers.  TileLocks     *)
(* describes them by the intervals without holes; the two descriptions are *)
(* compared in MCTileLocks.                                                *)
(***************************************************************************)
EXTENDS Integers, Sequences, SequencesExt

Statement(first, last) == [first |-> first, last |-> last]

\* From bulkMin on one statement for the interval, before that one per tile.
lockRange(ids, beginIndex, endIndex, bulkMin) ==
  IF endIndex - beginIndex >= bulkMin
    THEN <<Statement(ids[beginIndex], ids[endIndex])>>
    ELSE [j \in 1 .. endIndex - beginIndex + 1 |->
            Statement(ids[beginIndex + j - 1], ids[beginIndex + j - 1])]

\* After the first i rounds: the indices and the statements executed so far.
Rounds(ids, bulkMin) ==
  LET round[i \in 0 .. Len(ids) - 1] ==
        IF i = 0
          THEN [beginIndex |-> 1, endIndex |-> 1, done |-> <<>>]
          ELSE LET before == round[i - 1]
               IN IF ids[i + 1] - ids[i] > 1
                    THEN [beginIndex |-> i + 1, endIndex |-> i + 1,
                          done |-> before.done \o lockRange(ids, before.beginIndex, i, bulkMin)]
                    ELSE before
  IN round

\* The identifiers are sorted; what is left after the last hole is locked
\* when endIndex has not reached the last index.
lockTilesInternal(T, bulkMin) ==
  LET ids == SetToSortSeq(T, <)
      dim == Len(ids)
      last == Rounds(ids, bulkMin)[dim - 1]
  IN IF dim > 1 /\ last.endIndex < dim
       THEN last.done \o lockRange(ids, last.beginIndex, dim, bulkMin)
       ELSE IF dim = 1 THEN <<Statement(ids[1], ids[1])>> ELSE last.done
=============================================================================
