----------------------------- MODULE TileLocks -----------------------------
(***************************************************************************)
(* The tile lock manager (lockmgr/lockmanager.cc) with the statements it   *)
(* executes (lockmgr/ecpg_lockmanager.pgc) and the transactions of the     *)
(* rasservers that use it (servercomm/servercomm2.cc).                     *)
(*                                                                         *)
(* The locks of all rasservers are rows of the table RAS_LOCKEDTILES.      *)
(* Each rasserver reaches it through a database connection of its own: a   *)
(* lockTiles call is a database transaction of several statements, and     *)
(* the statements of different servers interleave.  A statement sees the   *)
(* committed rows and those of its own transaction (READ COMMITTED); an    *)
(* insert that meets the exclusive row of an open transaction waits for    *)
(* its end (UNIQUE(TileID, ExclusiveLock); a shared row has no             *)
(* ExclusiveLock and never conflicts).  Rows are a set: they are only      *)
(* counted to see whether there is one.                                    *)
(***************************************************************************)
EXTENDS Integers, FiniteSets

CONSTANTS
  Server,    \* rasservers, by the identifier generateServerId makes; rasmgr
             \* gives every process it starts a new name, so a rasserver that
             \* has died is followed by another member of the set
  MaxTile,   \* the largest tile identifier
  Requests,  \* the sets of tiles of the objects that queries access
  Reading,   \* the rasservers whose clients also begin read-only transactions
  Crashing,  \* the rasservers that may die
  BulkMin    \* 10: from this distance on an interval is locked by one statement

Tile == 1 .. MaxTile

ASSUME TileLocksAssumption ==
  /\ MaxTile \in Nat
  /\ BulkMin \in Nat
  /\ Requests \subseteq SUBSET Tile
  /\ Reading \subseteq Server
  /\ Crashing \subseteq Server

VARIABLES
  rows,      \* the committed rows <<server, tile, mode>> of RAS_LOCKEDTILES
  pending,   \* the rows that the open transaction of a server has inserted
  txn,       \* the transaction of its connection: "idle", "open", "failed"
  ta,        \* its rasdaman transaction: "none", the mode it locks in, or
             \* "dead" when the process is gone
  call,      \* the lockTiles call it executes
  waiting,   \* its insert waits for the end of another transaction
  erred      \* history: a query failed with TileCannotBeLocked since the
             \* locks of the server were last committed or given up

vars == <<rows, pending, txn, ta, call, waiting, erred>>

Mode == {"shared", "exclusive"}
Row == Server \X Tile \X Mode
NoCall == [tiles |-> {}, todo |-> {}]
Visible(s) == rows \cup pending[s]

Init ==
  /\ rows = {}
  /\ pending = [s \in Server |-> {}]
  /\ txn = [s \in Server |-> "idle"]
  /\ ta = [s \in Server |-> "none"]
  /\ call = [s \in Server |-> NoCall]
  /\ waiting = [s \in Server |-> FALSE]
  /\ erred = [s \in Server |-> FALSE]

-----------------------------------------------------------------------------
(* The intervals of lockTilesInternal, which sorts the identifiers.        *)

\* The interval without holes that t belongs to.
Interval(T, t) == {u \in T : (t .. u) \cup (u .. t) \subseteq T}

\* The loop ends without the last interval when that is a single tile: the
\* hole before it has set endIndex to its index already.
Visited(T) == {t \in T : T = {t} \/ Interval(T, t) # {t} \/ \E u \in T : u > t}

Bulk(T, t) == Cardinality(Interval(T, t)) > BulkMin
BulkTiles(T) == {t \in T : Bulk(T, t)}

\* Mutant: the identifiers are not sorted.
First_unsorted(s, t) == t \in call[s].todo

\* The next tile of the call is the smallest one.
First(s, t) == t \in call[s].todo /\ \A u \in call[s].todo : t <= u

-----------------------------------------------------------------------------
(* The statements.                                                         *)

\* WHERE NOT EXISTS of insert_shared and insert_exclusive.
NotExists(s, t) ==
  \A row \in Visible(s) :
    row[2] = t => ta[s] = "shared" /\ row[3] = "shared"

\* isTileLockedShared, isTileLockedExclusive: of this server.
IsTileLocked(s, t) == txn[s] = "open" /\ <<s, t, ta[s]>> \in Visible(s)

\* areTilesLockedShared, areTilesLockedExclusive: of this server.
AreTilesLocked(s, T) == \E t \in T : IsTileLocked(s, t)

\* Mutant: the table has no unique constraint.
BlockedBy_nobody(s, t) == {}

\* UNIQUE(TileID, ExclusiveLock): whose row an insert has to wait for ...
BlockedBy(s, t) ==
  {r \in Server \ {s} : ta[s] = "exclusive" /\ <<r, t, "exclusive">> \in pending[r]}

\* ... and whether it fails.
Duplicate(s, t) ==
  ta[s] = "exclusive" /\ \E r \in Server \ {s} : <<r, t, "exclusive">> \in rows

\* The insert for tile t, the next one of the call, is or will be executed.
Inserting(s, t) ==
  LET T == call[s].tiles
  IN /\ First(s, t)
     /\ txn[s] = "open"
     /\ \/ waiting[s]
        \/ IF Bulk(T, t)
             THEN t - 1 \in T \/ ~AreTilesLocked(s, Interval(T, t))
             ELSE NotExists(s, t)

Proceed(s, tiles) == call' = [call EXCEPT ![s].todo = @ \ tiles]

\* r_Error::r_Error_TileCannotBeLocked leaves lockTiles: the transaction of
\* the connection is not ended.
throwError(s) ==
  /\ call' = [call EXCEPT ![s] = NoCall]
  /\ erred' = [erred EXCEPT ![s] = TRUE]

-----------------------------------------------------------------------------
(* lockTiles                                                               *)

\* beginTransaction: in an open transaction BEGIN changes nothing, in a
\* failed one it is ignored like every other statement.
lockTiles(s, T) ==
  /\ ta[s] \in Mode
  /\ call[s] = NoCall
  /\ T # {}
  /\ call' = [call EXCEPT ![s] = [tiles |-> T, todo |-> Visited(T)]]
  /\ txn' = [txn EXCEPT ![s] = IF @ = "idle" THEN "open" ELSE @]
  /\ UNCHANGED <<rows, pending, ta, waiting, erred>>

\* The row is inserted.
insertRow(s, t) ==
  /\ Inserting(s, t)
  /\ BlockedBy(s, t) = {}
  /\ ~Duplicate(s, t)
  /\ pending' = [pending EXCEPT ![s] = @ \cup {<<s, t, ta[s]>>}]
  /\ waiting' = [waiting EXCEPT ![s] = FALSE]
  /\ Proceed(s, {t})
  /\ UNCHANGED <<rows, txn, ta, erred>>

waitForRow(s, t) ==
  /\ Inserting(s, t)
  /\ BlockedBy(s, t) # {}
  /\ ~waiting[s]
  /\ waiting' = [waiting EXCEPT ![s] = TRUE]
  /\ UNCHANGED <<rows, pending, txn, ta, call, erred>>

\* Mutant: the rows of the failed transaction survive.
failStatement_keepRows(s, t) ==
  LET T == call[s].tiles
  IN /\ txn' = [txn EXCEPT ![s] = "failed"]
     /\ waiting' = [waiting EXCEPT ![s] = FALSE]
     /\ IF Bulk(T, t)
          THEN Proceed(s, Interval(T, t)) /\ UNCHANGED erred
          ELSE throwError(s)
     /\ UNCHANGED <<rows, pending, ta>>

\* The database aborts the transaction.  Nobody looks at SQLCODE: after the
\* insert of one tile isTileLocked finds no row and an error is thrown, after
\* the insert of an interval lockTilesInternal goes on.
failStatement(s, t) ==
  LET T == call[s].tiles
  IN /\ pending' = [pending EXCEPT ![s] = {}]
     /\ txn' = [txn EXCEPT ![s] = "failed"]
     /\ waiting' = [waiting EXCEPT ![s] = FALSE]
     /\ IF Bulk(T, t)
          THEN Proceed(s, Interval(T, t)) /\ UNCHANGED erred
          ELSE throwError(s)
     /\ UNCHANGED <<rows, ta>>

uniqueViolation(s, t) ==
  /\ Inserting(s, t)
  /\ BlockedBy(s, t) = {}
  /\ Duplicate(s, t)
  /\ failStatement(s, t)

\* Which waiting insert waits for whom, and the servers that wait for each
\* other in a circle.
WaitsFor(s, r) == waiting[s] /\ \E t \in Tile : First(s, t) /\ r \in BlockedBy(s, t)
Deadlock(C) == C # {} /\ \A s \in C : \E r \in C : WaitsFor(s, r)

\* The database ends a deadlock by aborting one of the transactions.
deadlockDetected(s, t) ==
  /\ First(s, t)
  /\ \E C \in SUBSET Server : Deadlock(C) /\ s \in C
  /\ failStatement(s, t)

\* Mutant: the result of isTileLocked is not looked at.
lockTileInternal_unchecked(s, t) ==
  /\ First(s, t)
  /\ ~Bulk(call[s].tiles, t)
  /\ ~Inserting(s, t)
  /\ Proceed(s, {t}) /\ UNCHANGED erred
  /\ UNCHANGED <<rows, pending, txn, ta, waiting>>

\* Nothing was inserted: the tile is locked already, by this server or by
\* another one, or the transaction had failed before.
lockTileInternal(s, t) ==
  /\ First(s, t)
  /\ ~Bulk(call[s].tiles, t)
  /\ ~Inserting(s, t)
  /\ IF IsTileLocked(s, t)
       THEN Proceed(s, {t}) /\ UNCHANGED erred
       ELSE throwError(s)
  /\ UNCHANGED <<rows, pending, txn, ta, waiting>>

\* One tile of the interval is enough for lockTilesShared and
\* lockTilesExclusive to take the interval for locked.
lockInterval(s, t) ==
  LET T == call[s].tiles
  IN /\ First(s, t)
     /\ Bulk(T, t)
     /\ ~Inserting(s, t)
     /\ Proceed(s, Interval(T, t))
     /\ UNCHANGED <<rows, pending, txn, ta, waiting, erred>>

\* The end of lockTiles.  COMMIT of a failed transaction rolls it back.
endTransaction(s) ==
  /\ call[s] # NoCall
  /\ call[s].todo = {}
  /\ rows' = rows \cup pending[s]
  /\ pending' = [pending EXCEPT ![s] = {}]
  /\ txn' = [txn EXCEPT ![s] = "idle"]
  /\ call' = [call EXCEPT ![s] = NoCall]
  /\ erred' = [erred EXCEPT ![s] = FALSE]
  /\ UNCHANGED <<ta, waiting>>

-----------------------------------------------------------------------------
(* The transactions of a rasserver.                                        *)

beginTA(s, mode) ==
  /\ ta[s] = "none"
  /\ ta' = [ta EXCEPT ![s] = mode]
  /\ UNCHANGED <<rows, pending, txn, call, waiting, erred>>

\* Mutant: an open transaction of the connection is not ended.
unlockAllTiles_noCommit(s) ==
  /\ rows' = IF txn[s] # "idle" THEN rows ELSE {row \in rows : row[1] # s}
  /\ UNCHANGED <<pending, txn>>

\* BEGIN, DELETE and COMMIT; they take effect together.  In a failed
\* transaction the DELETE is ignored and COMMIT rolls back.
unlockAllTiles(s) ==
  /\ rows' = IF txn[s] = "failed" THEN rows ELSE {row \in rows : row[1] # s}
  /\ pending' = [pending EXCEPT ![s] = {}]
  /\ txn' = [txn EXCEPT ![s] = "idle"]

\* commitTA or abortTA, for a client that may have met an error.
endTA(s) ==
  /\ ta[s] \in Mode
  /\ call[s] = NoCall
  /\ unlockAllTiles(s)
  /\ ta' = [ta EXCEPT ![s] = "none"]
  /\ erred' = [erred EXCEPT ![s] = FALSE]
  /\ UNCHANGED <<call, waiting>>

\* closeDB with a transaction open, and deleteClientTblEntry when its client
\* disconnects or is not heard of any more: the transaction is aborted, but
\* nobody calls unlockAllTiles.  The connection of the lock manager is not
\* touched.
closeDB(s) ==
  /\ ta[s] \in Mode
  /\ call[s] = NoCall
  /\ ta' = [ta EXCEPT ![s] = "none"]
  /\ UNCHANGED <<rows, pending, txn, call, waiting, erred>>

\* The rasserver dies: its connection is closed, its committed rows stay.
crash(s) ==
  /\ ta[s] # "dead"
  /\ pending' = [pending EXCEPT ![s] = {}]
  /\ txn' = [txn EXCEPT ![s] = "idle"]
  /\ ta' = [ta EXCEPT ![s] = "dead"]
  /\ call' = [call EXCEPT ![s] = NoCall]
  /\ waiting' = [waiting EXCEPT ![s] = FALSE]
  /\ erred' = [erred EXCEPT ![s] = FALSE]
  /\ UNCHANGED rows

-----------------------------------------------------------------------------
\* The steps of a lockTiles call that does not wait.
callStep(s) ==
  \/ \E t \in Tile :
       \/ insertRow(s, t) \/ waitForRow(s, t) \/ uniqueViolation(s, t)
       \/ lockTileInternal(s, t) \/ lockInterval(s, t)
  \/ endTransaction(s)

databaseStep(s) == \E t \in Tile : deadlockDetected(s, t)

Next ==
  \E s \in Server :
    \/ beginTA(s, "exclusive")
    \/ s \in Reading /\ beginTA(s, "shared")
    \/ \E T \in Requests : lockTiles(s, T)
    \/ callStep(s)
    \/ databaseStep(s)
    \/ endTA(s)
    \/ closeDB(s)
    \/ s \in Crashing /\ crash(s)

Spec == Init /\ [][Next]_vars

\* A rasserver executes its calls, the database looks for deadlocks after
\* deadlock_timeout, and a transaction is ended by its client or, when that
\* has gone, by the rasserver, with or without unlockAllTiles.
FairSpec ==
  /\ Spec
  /\ \A s \in Server : /\ SF_vars(callStep(s))
                       /\ WF_vars(databaseStep(s))
                       /\ SF_vars(endTA(s) \/ closeDB(s))

-----------------------------------------------------------------------------
(* Properties.                                                             *)

TypeOK ==
  /\ rows \in SUBSET Row
  /\ pending \in [Server -> SUBSET Row]
  /\ txn \in [Server -> {"idle", "open", "failed"}]
  /\ ta \in [Server -> Mode \cup {"none", "dead"}]
  /\ call \in [Server -> [tiles : SUBSET Tile, todo : SUBSET Tile]]
  /\ waiting \in [Server -> BOOLEAN]
  /\ erred \in [Server -> BOOLEAN]
  /\ \A s \in Server : pending[s] # {} => txn[s] = "open"

\* A lockTiles call whose intervals are all locked tile by tile either throws
\* an error or leaves a committed row for every tile it has visited, whatever
\* the other servers do between its statements.
LockedOrError ==
  [][\A s \in Server :
       /\ call[s] # NoCall /\ BulkTiles(call[s].tiles) = {}
       /\ ta'[s] \in Mode /\ txn'[s] = "idle"
       => \A t \in Visited(call[s].tiles) : <<s, t, ta[s]>> \in rows']_vars

\* Because the identifiers are sorted and each call is a transaction of its
\* own, servers only wait for each other in a circle when one of them goes
\* on after a failed query, perhaps of an earlier client whose transaction
\* ended without unlockAllTiles: its earlier locks are still uncommitted.
DeadlockNeedsError ==
  \A C \in SUBSET Server : Deadlock(C) => \E s \in C : erred[s]

\* The exclusive locks are those of an abstract lock table.
Table == INSTANCE TileLockTable
           WITH holds <- [s \in Server |-> {t \in Tile : <<s, t, "exclusive">> \in rows}]
RefinesLockTable == Table!Spec

\* The transaction of a client ended without unlockAllTiles after a failed
\* query: its uncommitted rows are there, and nobody is going to end them.
Abandoned(s) == ta[s] = "none" /\ erred[s] /\ pending[s] # {}

\* A server that waits for another one's lock gets on, unless some client
\* has left uncommitted rows behind after a failed query.
WaitsEnd ==
  \A s \in Server :
    waiting[s] ~> (~waiting[s] \/ \E r \in Server : Abandoned(r))
=============================================================================
