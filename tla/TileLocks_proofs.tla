-------------------------- MODULE TileLocks_proofs --------------------------
(***************************************************************************)
(* Proofs about TileLocks, for any number of servers and tiles and for     *)
(* every set of requests.                                                  *)
(***************************************************************************)
EXTENDS TileLocks, WellFoundedInduction, TLAPS

-----------------------------------------------------------------------------
(* The inductive invariant.                                                *)

\* A call is executed within a transaction of the rasserver and of the
\* database, and its statements are for tiles that the loop visits.
CallsInTransactions ==
  \A s \in Server :
    /\ call[s].todo \subseteq Visited(call[s].tiles)
    /\ call[s] # NoCall => ta[s] \in Mode /\ txn[s] # "idle"

\* A tile has one writer, the uncommitted rows included.
OneWriter ==
  /\ \A s \in Server : \A row \in pending[s] : row[1] = s
  /\ \A s, r \in Server : \A t \in Tile :
       /\ <<s, t, "exclusive">> \in Visible(s)
       /\ <<r, t, "exclusive">> \in Visible(r)
       => s = r

\* The statements executed by a call without intervals have all succeeded.
LockedSoFar ==
  \A s \in Server :
    BulkTiles(call[s].tiles) = {} =>
      \A t \in Visited(call[s].tiles) \ call[s].todo : <<s, t, ta[s]>> \in Visible(s)

\* A server whose locks follow no error has no uncommitted row between two calls,
\* and none for a tile that comes after the next one of its call.
LockedInOrder ==
  \A s \in Server : ~erred[s] =>
    /\ call[s] = NoCall => pending[s] = {}
    /\ \A row \in pending[s] : \A t \in call[s].todo : row[2] < t

IInv == TypeOK /\ CallsInTransactions /\ OneWriter /\ LockedSoFar /\ LockedInOrder

-----------------------------------------------------------------------------
(* Every action keeps the invariant.                                       *)

\* The tiles that a call visits are some of its tiles.
LEMMA VisitedTiles == \A T : Visited(T) \subseteq T
  BY DEF Visited

\* An idle server has nothing to lock.
LEMMA NothingToDo ==
  /\ NoCall.todo = {} /\ NoCall.tiles = {}
  /\ Visited(NoCall.tiles) = {}
  /\ NoCall \in [tiles : SUBSET Tile, todo : SUBSET Tile]
  BY DEF NoCall, Visited

LEMMA InvInit == Init => IInv
<1> SUFFICES ASSUME Init PROVE IInv
  OBVIOUS
<1> USE NothingToDo DEF Init
<1>1. TypeOK
  BY DEF TypeOK
<1>2. CallsInTransactions
  BY DEF CallsInTransactions
<1>3. OneWriter
  BY DEF OneWriter, Visible
<1>4. LockedSoFar
  BY DEF LockedSoFar
<1>5. LockedInOrder
  BY DEF LockedInOrder
<1> QED
  BY <1>1, <1>2, <1>3, <1>4, <1>5 DEF IInv

LEMMA InvBegin ==
  ASSUME IInv, NEW s \in Server, NEW m \in Mode, beginTA(s, m) PROVE IInv'
<1> USE DEF IInv, beginTA
<1>1. TypeOK'
  BY DEF TypeOK
<1>2. CallsInTransactions'
  BY DEF CallsInTransactions, TypeOK, Mode
<1>3. OneWriter'
  BY DEF OneWriter, Visible
<1>4. LockedSoFar'
  <2>1. call[s] = NoCall
    BY DEF CallsInTransactions, Mode
  <2>2. \A r \in Server : ta'[r] # ta[r] => r = s
    BY DEF TypeOK
  <2>3. \A r \in Server : Visible(r)' = Visible(r)
    BY DEF Visible
  <2> QED
    BY <2>1, <2>2, <2>3, NothingToDo DEF LockedSoFar
<1>5. LockedInOrder'
  BY DEF LockedInOrder
<1> QED
  BY <1>1, <1>2, <1>3, <1>4, <1>5

LEMMA InvLockTiles ==
  ASSUME IInv, NEW s \in Server, NEW T \in Requests, lockTiles(s, T) PROVE IInv'
<1> USE DEF IInv, lockTiles
<1>0. T \in SUBSET Tile /\ Visited(T) \in SUBSET Tile
  BY TileLocksAssumption, VisitedTiles
<1>1. TypeOK'
  BY <1>0 DEF TypeOK
<1>2. CallsInTransactions'
  BY <1>0 DEF CallsInTransactions, TypeOK
<1>3. OneWriter'
  BY DEF OneWriter, Visible
<1>4. LockedSoFar'
  BY DEF LockedSoFar, Visible, TypeOK
<1>5. LockedInOrder'
  BY DEF LockedInOrder, TypeOK, NoCall
<1> QED
  BY <1>1, <1>2, <1>3, <1>4, <1>5

LEMMA InvInsert ==
  ASSUME IInv, NEW s \in Server, NEW t \in Tile, insertRow(s, t) PROVE IInv'
<1> USE DEF IInv, insertRow, Proceed
<1>0. /\ t \in call[s].todo
      /\ \A u \in call[s].todo : t <= u
      /\ ta[s] \in Mode
      /\ txn[s] = "open"
  <2>1. t \in call[s].todo /\ (\A u \in call[s].todo : t <= u) /\ txn[s] = "open"
    BY DEF Inserting, First
  <2>2. call[s] # NoCall
    BY <2>1, NothingToDo
  <2> QED
    BY <2>1, <2>2 DEF CallsInTransactions, TypeOK
<1>1. TypeOK'
  BY <1>0 DEF TypeOK, Row
<1>2. CallsInTransactions'
  <2>1. call'[s].tiles = call[s].tiles /\ call'[s].todo = call[s].todo \ {t}
    BY DEF TypeOK
  <2>2. call[s] # NoCall
    BY <1>0, NothingToDo
  <2> QED
    BY <2>1, <2>2 DEF CallsInTransactions, TypeOK
<1>3. OneWriter'
  <2>1. \A r \in Server : pending'[r] = IF r = s THEN pending[r] \cup {<<s, t, ta[s]>>} ELSE pending[r]
    BY DEF TypeOK
  <2>2. ASSUME NEW r \in Server, r # s, ta[s] = "exclusive"
        PROVE  <<r, t, "exclusive">> \notin Visible(r)
    BY <2>2 DEF Visible, BlockedBy, Duplicate
  <2> QED
    BY <2>1, <2>2 DEF OneWriter, Visible
<1>4. LockedSoFar'
  <2>1. call'[s].tiles = call[s].tiles /\ call'[s].todo = call[s].todo \ {t}
    BY DEF TypeOK
  <2>2. \A r \in Server \ {s} : call'[r] = call[r]
    BY DEF TypeOK
  <2>3. \A r \in Server : Visible(r) \subseteq Visible(r)'
    BY DEF Visible, TypeOK
  <2>4. <<s, t, ta[s]>> \in Visible(s)'
    BY DEF Visible, TypeOK
  <2> QED
    BY <2>1, <2>2, <2>3, <2>4 DEF LockedSoFar
<1>5. LockedInOrder'
  <2>1. /\ call'[s].todo = call[s].todo \ {t}
        /\ pending'[s] = pending[s] \cup {<<s, t, ta[s]>>}
        /\ call'[s] # NoCall
    <3>1. call'[s].tiles = call[s].tiles /\ call'[s].todo = call[s].todo \ {t}
      BY DEF TypeOK
    <3>2. t \in call[s].tiles
      BY <1>0, VisitedTiles DEF CallsInTransactions
    <3> QED
      BY <3>1, <3>2, NothingToDo DEF TypeOK
  <2>2. \A r \in Server \ {s} : call'[r] = call[r] /\ pending'[r] = pending[r]
    BY DEF TypeOK
  <2>3. \A u \in call'[s].todo : t < u
    <3> SUFFICES ASSUME NEW u \in call'[s].todo PROVE t < u
      OBVIOUS
    <3>1. u \in call[s].todo /\ u # t
      BY <2>1
    <3>2. u \in Tile /\ t <= u
      BY <1>0, <3>1 DEF TypeOK
    <3> QED
      BY <3>1, <3>2, TileLocksAssumption DEF Tile
  <2> QED
    BY <2>1, <2>2, <2>3 DEF LockedInOrder
<1> QED
  BY <1>1, <1>2, <1>3, <1>4, <1>5

LEMMA InvWait ==
  ASSUME IInv, NEW s \in Server, NEW t \in Tile, waitForRow(s, t) PROVE IInv'
<1> USE DEF IInv, waitForRow
<1>1. TypeOK'
  BY DEF TypeOK
<1>2. CallsInTransactions' /\ OneWriter' /\ LockedSoFar' /\ LockedInOrder'
  BY DEF CallsInTransactions, OneWriter, LockedSoFar, LockedInOrder, Visible
<1> QED
  BY <1>1, <1>2

\* A call whose next tile belongs to an interval that is locked at once.
LEMMA BulkCall ==
  ASSUME IInv, NEW s \in Server, NEW t \in call[s].todo, Bulk(call[s].tiles, t)
  PROVE  BulkTiles(call[s].tiles) # {}
  BY VisitedTiles DEF IInv, CallsInTransactions, BulkTiles

\* The statements of an interval are skipped, or have failed.
LEMMA InvProceed ==
  ASSUME IInv, NEW s \in Server, NEW t \in call[s].todo, Bulk(call[s].tiles, t),
         NEW T, Proceed(s, T),
         rows' = rows, ta' = ta, erred' = erred,
         \A r \in Server : pending'[r] \subseteq pending[r],
         \A r \in Server \ {s} : pending'[r] = pending[r] /\ txn'[r] = txn[r],
         txn'[s] # "idle",
         TypeOK'
  PROVE  IInv'
<1> USE DEF IInv, Proceed
<1>0. /\ call'[s].tiles = call[s].tiles
      /\ call'[s].todo = call[s].todo \ T
      /\ \A r \in Server \ {s} : call'[r] = call[r]
  BY DEF TypeOK
<1>a. call[s] # NoCall /\ call'[s] # NoCall
  <2>1. t \in call[s].tiles
    BY VisitedTiles DEF CallsInTransactions
  <2> QED
    BY <1>0, <2>1, NothingToDo
<1>2. CallsInTransactions'
  BY <1>0, <1>a DEF CallsInTransactions
<1>3. OneWriter'
  BY DEF OneWriter, Visible
<1>4. LockedSoFar'
  <2>1. BulkTiles(call'[s].tiles) # {}
    BY <1>0, BulkCall
  <2>2. \A r \in Server \ {s} : Visible(r)' = Visible(r)
    BY DEF Visible
  <2> QED
    BY <1>0, <2>1, <2>2 DEF LockedSoFar
<1>5. LockedInOrder'
  BY <1>0, <1>a DEF LockedInOrder
<1> QED
  BY <1>2, <1>3, <1>4, <1>5

\* A statement has failed and an error is thrown.
LEMMA InvThrow ==
  ASSUME IInv, NEW s \in Server, throwError(s),
         rows' = rows, ta' = ta,
         \A r \in Server : pending'[r] \subseteq pending[r],
         \A r \in Server \ {s} : pending'[r] = pending[r] /\ txn'[r] = txn[r],
         TypeOK'
  PROVE  IInv'
<1> USE DEF IInv, throwError
<1>0. /\ call'[s] = NoCall /\ erred'[s] = TRUE
      /\ \A r \in Server \ {s} : call'[r] = call[r] /\ erred'[r] = erred[r]
  BY DEF TypeOK
<1>2. CallsInTransactions'
  BY <1>0, NothingToDo DEF CallsInTransactions
<1>3. OneWriter'
  BY DEF OneWriter, Visible
<1>4. LockedSoFar'
  <2>1. \A r \in Server \ {s} : Visible(r)' = Visible(r)
    BY DEF Visible
  <2> QED
    BY <1>0, <2>1, NothingToDo DEF LockedSoFar
<1>5. LockedInOrder'
  BY <1>0 DEF LockedInOrder
<1> QED
  BY <1>2, <1>3, <1>4, <1>5

LEMMA InvFail ==
  ASSUME IInv, NEW s \in Server, NEW t \in Tile, First(s, t), failStatement(s, t)
  PROVE  IInv'
<1>1. /\ rows' = rows /\ ta' = ta
      /\ \A r \in Server : pending'[r] \subseteq pending[r]
      /\ \A r \in Server \ {s} : pending'[r] = pending[r] /\ txn'[r] = txn[r]
      /\ txn'[s] = "failed"
  BY DEF failStatement, IInv, TypeOK
<1>2. CASE Bulk(call[s].tiles, t)
  <2>1. Proceed(s, Interval(call[s].tiles, t)) /\ erred' = erred
    BY <1>2 DEF failStatement
  <2>2. TypeOK'
    BY <2>1 DEF failStatement, Proceed, TypeOK, IInv
  <2> QED
    BY <1>1, <1>2, <2>1, <2>2, InvProceed DEF First
<1>3. CASE ~Bulk(call[s].tiles, t)
  <2>1. throwError(s)
    BY <1>3 DEF failStatement
  <2>2. TypeOK'
    BY <2>1, NothingToDo DEF failStatement, throwError, TypeOK, IInv
  <2> QED
    BY <1>1, <2>1, <2>2, InvThrow
<1> QED
  BY <1>2, <1>3

LEMMA InvLockTile ==
  ASSUME IInv, NEW s \in Server, NEW t \in Tile, lockTileInternal(s, t) PROVE IInv'
<1>1. CASE ~IsTileLocked(s, t)
  <2>1. throwError(s)
    BY <1>1 DEF lockTileInternal
  <2>2. TypeOK'
    BY <2>1, NothingToDo DEF lockTileInternal, throwError, TypeOK, IInv
  <2> QED
    BY <2>1, <2>2, InvThrow DEF lockTileInternal
<1>2. CASE IsTileLocked(s, t)
  <2> USE DEF IInv
  <2>0. /\ UNCHANGED <<rows, pending, txn, ta, waiting, erred>>
        /\ Proceed(s, {t})
        /\ t \in call[s].todo
        /\ <<s, t, ta[s]>> \in Visible(s)
    BY <1>2 DEF lockTileInternal, First, IsTileLocked
  <2>1. /\ call'[s].tiles = call[s].tiles
        /\ call'[s].todo = call[s].todo \ {t}
        /\ \A r \in Server \ {s} : call'[r] = call[r]
    BY <2>0 DEF TypeOK, Proceed
  <2>2. t \in call[s].tiles
    BY <2>0, VisitedTiles DEF CallsInTransactions
  <2>3. call[s] # NoCall /\ call'[s] # NoCall
    BY <2>1, <2>2, NothingToDo
  <2>4. TypeOK'
    BY <2>0 DEF TypeOK, Proceed
  <2>5. CallsInTransactions'
    BY <2>0, <2>1, <2>3 DEF CallsInTransactions
  <2>6. OneWriter'
    BY <2>0 DEF OneWriter, Visible
  <2>7. LockedSoFar'
    <3>1. \A r \in Server : Visible(r)' = Visible(r)
      BY <2>0 DEF Visible
    <3> QED
      BY <2>0, <2>1, <3>1 DEF LockedSoFar
  <2>8. LockedInOrder'
    BY <2>0, <2>1, <2>3 DEF LockedInOrder
  <2> QED
    BY <2>4, <2>5, <2>6, <2>7, <2>8
<1> QED
  BY <1>1, <1>2

LEMMA InvInterval ==
  ASSUME IInv, NEW s \in Server, NEW t \in Tile, lockInterval(s, t) PROVE IInv'
<1>1. /\ UNCHANGED <<rows, pending, txn, ta, waiting, erred>>
      /\ Proceed(s, Interval(call[s].tiles, t))
      /\ t \in call[s].todo
      /\ Bulk(call[s].tiles, t)
  BY DEF lockInterval, First
<1>2. TypeOK'
  BY <1>1 DEF TypeOK, Proceed, IInv
<1>3. txn'[s] # "idle"
  BY <1>1, NothingToDo DEF IInv, CallsInTransactions
<1> QED
  BY <1>1, <1>2, <1>3, InvProceed

LEMMA InvEndTransaction ==
  ASSUME IInv, NEW s \in Server, endTransaction(s) PROVE IInv'
<1> USE DEF IInv, endTransaction
<1>0. /\ call'[s] = NoCall /\ pending'[s] = {}
      /\ \A r \in Server \ {s} : call'[r] = call[r] /\ pending'[r] = pending[r] /\ txn'[r] = txn[r]
  BY DEF TypeOK
<1>1. TypeOK'
  BY NothingToDo DEF TypeOK
<1>2. CallsInTransactions'
  BY <1>0, NothingToDo DEF CallsInTransactions
<1>3. OneWriter'
  <2>1. ASSUME NEW r \in Server, NEW t \in Tile, <<r, t, "exclusive">> \in Visible(r)'
        PROVE  <<r, t, "exclusive">> \in Visible(r)
    BY <1>0, <2>1 DEF Visible, OneWriter
  <2>2. \A r \in Server : \A row \in pending'[r] : row[1] = r
    BY <1>0 DEF OneWriter
  <2> QED
    BY <2>1, <2>2 DEF OneWriter
<1>4. LockedSoFar'
  <2>1. \A r \in Server : Visible(r) \subseteq Visible(r)'
    BY <1>0 DEF Visible
  <2> QED
    BY <1>0, <2>1, NothingToDo DEF LockedSoFar
<1>5. LockedInOrder'
  BY <1>0, NothingToDo DEF LockedInOrder, TypeOK
<1> QED
  BY <1>1, <1>2, <1>3, <1>4, <1>5

\* The transaction of a rasserver ends and its uncommitted rows go.
LEMMA InvLeave ==
  ASSUME IInv, TypeOK', NEW s \in Server,
         call'[s] = NoCall, pending'[s] = {},
         rows' \subseteq rows, \A row \in rows \ rows' : row[1] = s,
         \A r \in Server \ {s} :
           /\ pending'[r] = pending[r] /\ txn'[r] = txn[r] /\ ta'[r] = ta[r]
           /\ call'[r] = call[r] /\ erred'[r] = erred[r]
  PROVE  IInv'
<1> USE DEF IInv
<1>2. CallsInTransactions'
  BY NothingToDo DEF CallsInTransactions
<1>3. OneWriter'
  BY DEF OneWriter, Visible
<1>4. LockedSoFar'
  <2>1. ASSUME NEW r \in Server \ {s}, NEW t \in Tile, <<r, t, ta[r]>> \in Visible(r)
        PROVE  <<r, t, ta[r]>> \in Visible(r)'
    BY <2>1 DEF Visible
  <2>2. \A r \in Server : Visited(call[r].tiles) \subseteq Tile
    BY VisitedTiles DEF TypeOK
  <2> QED
    BY <2>1, <2>2, NothingToDo DEF LockedSoFar
<1>5. LockedInOrder'
  BY NothingToDo DEF LockedInOrder
<1> QED
  BY <1>2, <1>3, <1>4, <1>5

LEMMA InvEndTA ==
  ASSUME IInv, NEW s \in Server, endTA(s) PROVE IInv'
<1>1. TypeOK'
  BY DEF IInv, TypeOK, endTA, unlockAllTiles
<1>2. rows' \subseteq rows /\ \A row \in rows \ rows' : row[1] = s
  BY DEF endTA, unlockAllTiles
<1>3. /\ call'[s] = NoCall /\ pending'[s] = {}
      /\ \A r \in Server \ {s} :
           /\ pending'[r] = pending[r] /\ txn'[r] = txn[r] /\ ta'[r] = ta[r]
           /\ call'[r] = call[r] /\ erred'[r] = erred[r]
  BY DEF IInv, TypeOK, endTA, unlockAllTiles
<1> QED
  BY <1>1, <1>2, <1>3, InvLeave

LEMMA InvCloseDB ==
  ASSUME IInv, NEW s \in Server, closeDB(s) PROVE IInv'
<1> USE DEF IInv, closeDB
<1>1. TypeOK'
  BY DEF TypeOK
<1>2. CallsInTransactions' /\ OneWriter' /\ LockedInOrder'
  BY NothingToDo DEF CallsInTransactions, OneWriter, LockedInOrder, Visible, TypeOK
<1>3. LockedSoFar'
  <2>1. \A r \in Server \ {s} : ta'[r] = ta[r]
    BY DEF TypeOK
  <2>2. \A r \in Server : Visible(r)' = Visible(r)
    BY DEF Visible
  <2> QED
    BY <2>1, <2>2, NothingToDo DEF LockedSoFar
<1> QED
  BY <1>1, <1>2, <1>3

LEMMA InvCrash ==
  ASSUME IInv, NEW s \in Server, crash(s) PROVE IInv'
<1>1. TypeOK'
  BY NothingToDo DEF IInv, TypeOK, crash
<1>2. /\ call'[s] = NoCall /\ pending'[s] = {}
      /\ \A r \in Server \ {s} :
           /\ pending'[r] = pending[r] /\ txn'[r] = txn[r] /\ ta'[r] = ta[r]
           /\ call'[r] = call[r] /\ erred'[r] = erred[r]
  BY DEF IInv, TypeOK, crash
<1>3. rows' = rows
  BY DEF crash
<1> QED
  BY <1>1, <1>2, <1>3, InvLeave

\* IInv is inductive.
LEMMA InvStep == ASSUME IInv, [Next]_vars PROVE IInv'
<1>1. CASE UNCHANGED vars
  BY <1>1 DEF vars, IInv, TypeOK, CallsInTransactions, OneWriter, LockedSoFar,
              LockedInOrder, Visible
<1>2. CASE Next
  <2> PICK s \in Server :
        \/ beginTA(s, "exclusive")
        \/ s \in Reading /\ beginTA(s, "shared")
        \/ \E T \in Requests : lockTiles(s, T)
        \/ callStep(s)
        \/ databaseStep(s)
        \/ endTA(s)
        \/ closeDB(s)
        \/ s \in Crashing /\ crash(s)
    BY <1>2 DEF Next
  <2>1. CASE callStep(s)
    BY <2>1, InvInsert, InvWait, InvFail, InvLockTile, InvInterval, InvEndTransaction
    DEF callStep, uniqueViolation, Inserting
  <2>2. CASE databaseStep(s)
    BY <2>2, InvFail DEF databaseStep, deadlockDetected
  <2> QED
    BY <2>1, <2>2, InvBegin, InvLockTiles, InvEndTA, InvCloseDB, InvCrash DEF Mode
<1> QED
  BY <1>1, <1>2

\* Invariance of IInv.
LEMMA Invariance == Spec => []IInv
  BY InvInit, InvStep, PTL DEF Spec

-----------------------------------------------------------------------------
(* The theorems.                                                           *)

\* The types of the lock table and of the state of its users.
THEOREM TypeCorrect == Spec => []TypeOK
  BY Invariance, PTL DEF IInv

\* A call that locks its tiles one by one returns only after all of them have
\* been locked for everyone to see.
THEOREM LockedOrErrorHolds == Spec => LockedOrError
<1>1. ASSUME IInv, [Next]_vars, NEW s \in Server,
             call[s] # NoCall, BulkTiles(call[s].tiles) = {},
             ta'[s] \in Mode, txn'[s] = "idle",
             NEW t \in Visited(call[s].tiles),
             vars' # vars
      PROVE  <<s, t, ta[s]>> \in rows'
  <2>0. txn[s] # "idle" /\ ta[s] \in Mode
    BY <1>1 DEF IInv, CallsInTransactions
  <2>1. endTransaction(s)
    <3> PICK r \in Server :
          \/ beginTA(r, "exclusive")
          \/ r \in Reading /\ beginTA(r, "shared")
          \/ \E T \in Requests : lockTiles(r, T)
          \/ callStep(r)
          \/ databaseStep(r)
          \/ endTA(r)
          \/ closeDB(r)
          \/ r \in Crashing /\ crash(r)
      BY <1>1 DEF Next, vars
    <3> USE <1>1, <2>0 DEF IInv, TypeOK
    <3>1. ASSUME NEW m, beginTA(r, m) PROVE FALSE
      BY <3>1 DEF beginTA
    <3>2. ASSUME NEW T \in Requests, lockTiles(r, T) PROVE FALSE
      BY <3>2 DEF lockTiles
    <3>3. ASSUME NEW u \in Tile, failStatement(r, u) PROVE FALSE
      BY <3>3 DEF failStatement
    <3>4. ASSUME NEW u \in Tile,
                 insertRow(r, u) \/ waitForRow(r, u) \/ lockTileInternal(r, u) \/ lockInterval(r, u)
          PROVE  FALSE
      BY <3>4 DEF insertRow, waitForRow, lockTileInternal, lockInterval
    <3>5. CASE endTransaction(r)
      BY <3>5 DEF endTransaction
    <3>6. CASE endTA(r)
      BY <3>6 DEF endTA, unlockAllTiles
    <3>7. CASE crash(r)
      BY <3>7 DEF crash, Mode
    <3>8. CASE closeDB(r)
      BY <3>8 DEF closeDB
    <3> QED
      BY <3>1, <3>2, <3>3, <3>4, <3>5, <3>6, <3>7, <3>8
      DEF callStep, databaseStep, uniqueViolation, deadlockDetected
  <2> QED
    BY <1>1, <2>1 DEF endTransaction, IInv, LockedSoFar, Visible
<1>2. ASSUME IInv, [Next]_vars
      PROVE  [\A s \in Server :
                /\ call[s] # NoCall /\ BulkTiles(call[s].tiles) = {}
                /\ ta'[s] \in Mode /\ txn'[s] = "idle"
                => \A t \in Visited(call[s].tiles) : <<s, t, ta[s]>> \in rows']_vars
  <2> SUFFICES ASSUME vars' # vars, NEW s \in Server,
                      call[s] # NoCall, BulkTiles(call[s].tiles) = {},
                      ta'[s] \in Mode, txn'[s] = "idle",
                      NEW t \in Visited(call[s].tiles)
               PROVE  <<s, t, ta[s]>> \in rows'
    OBVIOUS
  <2> QED
    BY <1>1, <1>2
<1> QED
  BY <1>2, Invariance, PTL DEF Spec, LockedOrError

\* A set of tiles has a largest one.
LEMMA LargestTile ==
  ASSUME NEW W \in SUBSET Tile, W # {}
  PROVE  \E w \in W : \A u \in W : u <= w
<1> DEFINE D == {MaxTile - w : w \in W}
<1>1. D \subseteq Nat /\ D # {}
  <2>1. \A w \in W : MaxTile - w \in Nat
    BY TileLocksAssumption DEF Tile
  <2> QED
    BY <2>1
<1>2. PICK d \in D : \A e \in D : ~(<<e, d>> \in OpToRel(<, Nat))
  BY <1>1, NatLessThanWellFounded, WFMin
<1>3. ASSUME NEW e \in D PROVE d <= e
  <2>1. d \in Nat /\ e \in Nat
    BY <1>1
  <2>2. ~(e < d)
    BY <1>2, <2>1 DEF OpToRel
  <2> QED
    BY <2>1, <2>2
<1>4. PICK w \in W : d = MaxTile - w
  OBVIOUS
<1>5. ASSUME NEW u \in W PROVE u <= w
  BY <1>3, <1>4, TileLocksAssumption DEF Tile
<1> QED
  BY <1>5

\* Servers never wait for each other in a circle unless one of them still
\* has the uncommitted locks of a failed query, of this client or of an
\* earlier one: else each would wait for a tile after the one that the other
\* waits for.
THEOREM DeadlockNeedsErrorHolds == Spec => []DeadlockNeedsError
<1>1. ASSUME IInv PROVE DeadlockNeedsError
  <2> SUFFICES ASSUME NEW C \in SUBSET Server, Deadlock(C), \A s \in C : ~erred[s]
               PROVE  FALSE
    BY DEF DeadlockNeedsError
  <2> DEFINE W == {t \in Tile : \E s \in C : First(s, t)}
  <2>1. ASSUME NEW t \in W PROVE \E u \in W : t < u
    <3>1. PICK s \in C : First(s, t)
      OBVIOUS
    <3>2. PICK r \in C : WaitsFor(s, r)
      BY DEF Deadlock
    <3>3. PICK v \in Tile : First(s, v) /\ r \in BlockedBy(s, v)
      BY <3>2 DEF WaitsFor
    <3>4. v = t
      BY <3>1, <3>3, TileLocksAssumption DEF First, Tile
    <3>5. <<r, t, "exclusive">> \in pending[r]
      BY <3>3, <3>4 DEF BlockedBy
    <3>6. PICK u \in Tile : First(r, u)
      BY DEF Deadlock, WaitsFor
    <3>7. t < u
      BY <1>1, <3>5, <3>6 DEF IInv, LockedInOrder, First
    <3> QED
      BY <3>6, <3>7
  <2>2. W # {}
    BY DEF Deadlock, WaitsFor
  <2>3. PICK w \in W : \A u \in W : u <= w
    BY <2>2, LargestTile
  <2> QED
    BY <2>1, <2>3, TileLocksAssumption DEF Tile
<1> QED
  BY <1>1, Invariance, PTL

\* The exclusive rows of the lock table behave like the abstract lock table:
\* each step of a server grants its uncommitted rows, releases all its rows or
\* changes nothing that the table shows.
THEOREM Refinement == Spec => RefinesLockTable
<1> DEFINE holds == [s \in Server |-> {t \in Tile : <<s, t, "exclusive">> \in rows}]
<1>1. Init => Table!Init
  BY DEF Init, Table!Init
<1>2. ASSUME IInv, [Next]_vars PROVE [Table!Next]_holds
  <2>1. CASE rows' = rows
    BY <2>1
  <2>2. ASSUME NEW s \in Server, endTransaction(s) PROVE Table!Next
    <3> PICK tiles \in SUBSET Tile : tiles = {t \in Tile : <<s, t, "exclusive">> \in pending[s]}
      OBVIOUS
    <3>1. \A r \in Server \ {s} : holds[r] \cap tiles = {}
      BY <1>2 DEF IInv, OneWriter, Visible
    <3>2. holds' = [holds EXCEPT ![s] = @ \cup tiles]
      <4>1. rows' = rows \cup pending[s] /\ \A row \in pending[s] : row[1] = s
        BY <1>2, <2>2 DEF endTransaction, IInv, OneWriter
      <4>2. ASSUME NEW r \in Server
            PROVE  holds'[r] = IF r = s THEN holds[r] \cup tiles ELSE holds[r]
        BY <4>1
      <4> QED
        BY <4>2
    <3>3. Table!Grant(s, tiles)
      BY <3>1, <3>2 DEF Table!Grant
    <3> QED
      BY <3>3 DEF Table!Next
  <2>3. ASSUME NEW s \in Server, endTA(s), rows' # rows PROVE Table!Next
    <3>1. rows' = {row \in rows : row[1] # s}
      BY <2>3 DEF endTA, unlockAllTiles
    <3>2. ASSUME NEW r \in Server
          PROVE  holds'[r] = IF r = s THEN {} ELSE holds[r]
      BY <3>1
    <3>3. holds' = [holds EXCEPT ![s] = {}]
      BY <3>2
    <3> QED
      BY <3>3 DEF Table!Next, Table!Release
  <2>4. rows' = rows \/ \E s \in Server : endTransaction(s) \/ endTA(s)
    BY <1>2 DEF Next, vars, beginTA, lockTiles, callStep, databaseStep, closeDB, crash, insertRow,
       waitForRow, uniqueViolation, deadlockDetected, failStatement, lockTileInternal, lockInterval
  <2> QED
    BY <2>1, <2>2, <2>3, <2>4
<1> QED
  BY <1>1, <1>2, Invariance, PTL DEF Spec, RefinesLockTable, Table!Spec
=============================================================================
