----------------------------- MODULE EventStores -----------------------------
(***************************************************************************)
(* The SQLite store of the indexer (indexer/src/db.ts): its migrations,    *)
(* its event rows and the queries over them, read page by page, and the    *)
(* dashboard's cache.  Rows are written by the poller and read through     *)
(* another connection, so that writes fall between two pages.              *)
(*                                                                         *)
(* A row is its id and its ledger: rows[i] is the ledger of row i, 0 when  *)
(* it is purged.  The filters of the queries only choose the rows one sees *)
(* and are left out.                                                       *)
(***************************************************************************)
EXTENDS Naturals, Sequences, FiniteSets, SequencesExt

CONSTANTS
    MigrationFiles,     \* versions of the files in the migrations directory
    MaxRows, MaxRowLedger, pageLimit

ASSUME EventStoreAssumption ==
    /\ MigrationFiles \subseteq Nat
    /\ pageLimit \in Nat \ {0} /\ {MaxRows, MaxRowLedger} \subseteq Nat

VARIABLES
    applied,        \* schema_migrations
    outcome,        \* what runMigrations last came to: applied, rolledBack, pending
    eventRows,      \* the events table
    purged,         \* a rollback of ledgers happened while a reader was paging
    reader,         \* a reader that pages through a query: its order, offset, what it
                    \* read, and the rows that were there when it began
    cached          \* dashboard_cache: the value of one key, 0 when there is none

storeVars == <<applied, outcome, eventRows, purged, reader, cached>>

NoReader == [query |-> "none", offset |-> 0, read |-> {}, present |-> {}]
NoOutcome == [applied |-> {}, rolledBack |-> {}, pending |-> {}]

EventStoreInit ==
    /\ applied = {} /\ outcome = NoOutcome
    /\ eventRows = <<>> /\ purged = FALSE /\ reader = NoReader /\ cached = 0

-----------------------------------------------------------------------------
(* runMigrations *)

Lowest(n, S) == {v \in S : Cardinality({w \in S : w < v}) < n}
Highest(n, S) == {v \in S : Cardinality({w \in S : w > v}) < n}

\* The pending files in the order of their versions, a transaction each; it may
\* fail, or the process die, after any of them.
Migrate ==
    LET pending == MigrationFiles \ applied
    IN  \E dryRun \in BOOLEAN, done \in 0..Cardinality(pending) :
          LET now == IF dryRun THEN {} ELSE Lowest(done, pending)
          IN  /\ applied' = applied \cup now
              /\ outcome' = [applied |-> now, rolledBack |-> {}, pending |-> pending]
    /\ UNCHANGED <<eventRows, purged, reader, cached>>

\* The last ones applied, from the highest down; a version whose file is gone
\* stops it.
RollBack ==
    \E rollback \in 1..Cardinality(MigrationFiles), done \in 0..Cardinality(applied) :
        LET back == Highest(IF done < rollback THEN done ELSE rollback, applied)
        IN  /\ applied' = applied \ back
            /\ outcome' = [applied |-> {}, rolledBack |-> back, pending |-> {}]
            /\ UNCHANGED <<eventRows, purged, reader, cached>>

-----------------------------------------------------------------------------
(* Events *)

\* insertEventsBatch: one transaction, ids ascending.
InsertEventsBatch ==
    /\ \E n \in 1..2 : \E ledgers \in [1..n -> 1..MaxRowLedger] :
         /\ Len(eventRows) + n <= MaxRows
         /\ eventRows' = eventRows \o ledgers
    /\ UNCHANGED <<applied, outcome, purged, reader, cached>>

\* deleteEventsFromLedger: the poller rolls a fork back.
DeleteEventsFromLedger ==
    /\ \E from \in 1..MaxRowLedger :
         /\ \E i \in DOMAIN eventRows : eventRows[i] >= from
         /\ eventRows' = [i \in DOMAIN eventRows |->
                             IF eventRows[i] >= from THEN 0 ELSE eventRows[i]]
    /\ purged' = (purged \/ reader.query # "none")
    /\ UNCHANGED <<applied, outcome, reader, cached>>

Kept == {i \in DOMAIN eventRows : eventRows[i] # 0}

\* ORDER BY ledger, ascending or descending; SQLite walks the index on ledger,
\* in which rows of one ledger are in the order of their ids.
Before(i, j) == eventRows[i] < eventRows[j] \/ (eventRows[i] = eventRows[j] /\ i < j)
Ahead(query, i) ==
    {j \in Kept : IF query = "ascending" THEN Before(j, i) ELSE Before(i, j)}

\* LIMIT and OFFSET: the rows whose place in the order lies in the page.
Place(query, i) == Cardinality(Ahead(query, i))
Page(query, offset) == {i \in Kept : Place(query, i) \in offset..(offset + pageLimit - 1)}

\* getEvents, getByProvider, getByClient, getByEventType and getByContract are
\* descending; getByJobId and getByDateRange ascending.
BeginReading ==
    /\ reader.query = "none"
    /\ \E query \in {"ascending", "descending"} :
         reader' = [query |-> query, offset |-> 0, read |-> {}, present |-> Kept]
    /\ purged' = FALSE
    /\ UNCHANGED <<applied, outcome, eventRows, cached>>

\* The next page, until one is empty.
ReadPage ==
    /\ reader.query \in {"ascending", "descending"}
    /\ LET page == Page(reader.query, reader.offset)
       IN  reader' = IF page = {} THEN [reader EXCEPT !.query = "finished"]
                     ELSE [reader EXCEPT !.offset = @ + pageLimit, !.read = @ \cup page]
    /\ UNCHANGED <<applied, outcome, eventRows, purged, cached>>

FinishReading ==
    /\ reader.query = "finished" /\ reader' = NoReader
    /\ UNCHANGED <<applied, outcome, eventRows, purged, cached>>

\* setCache, deleteCache
WriteCache ==
    /\ cached' \in {0, 1, 2}
    /\ UNCHANGED <<applied, outcome, eventRows, purged, reader>>

\* The two have no state in common.
MigrationsNext == Migrate \/ RollBack \/ WriteCache
RowsNext ==
    \/ InsertEventsBatch \/ DeleteEventsFromLedger
    \/ BeginReading \/ ReadPage \/ FinishReading

EventStoreTypeOK ==
    /\ applied \subseteq MigrationFiles
    /\ outcome \in [applied : SUBSET MigrationFiles, rolledBack : SUBSET MigrationFiles,
                    pending : SUBSET MigrationFiles]
    /\ Len(eventRows) <= MaxRows /\ ToSet(eventRows) \subseteq 0..MaxRowLedger
    /\ purged \in BOOLEAN /\ cached \in 0..2
    /\ reader.query \in {"none", "ascending", "descending", "finished"}
    /\ reader.read \cup reader.present \subseteq DOMAIN eventRows

-----------------------------------------------------------------------------
\* A reader that pages to the end has seen every row that was there when it
\* began, whatever was inserted between its pages, into whatever ledger: a row
\* may come twice and is never skipped.  Only a rollback of ledgers, which moves
\* rows up, can hide one.
PagesMissNothing ==
    reader.query = "finished" /\ ~purged => reader.present \subseteq reader.read

-----------------------------------------------------------------------------
(***************************************************************************)
(* PostgresAdapter (indexer/src/db-postgres.ts): the event store for       *)
(* Postgres.  Several processes may use one database, and several calls    *)
(* one adapter.  Postgres itself is external: it serializes on the unique  *)
(* index over (transaction_hash, log_index), makes an insert of a key that *)
(* an open transaction has inserted wait for it, and ends a deadlock by    *)
(* aborting one of the transactions.                                       *)
(*                                                                         *)
(* An event is its key; a chunk of an insertMany is one event.             *)
(***************************************************************************)
CONSTANTS
    Adapters,       \* PostgresAdapters on the database
    PgCalls,        \* calls of them
    PgEvents,       \* keys of events
    poolMax         \* max: connections of an adapter

ASSUME PostgresAssumption ==
    /\ poolMax \in Nat \ {0}
    /\ IsFiniteSet(PgCalls) /\ IsFiniteSet(PgEvents)

VARIABLES
    tables,         \* whether the migrations are committed
    migrator,       \* the adapter that holds the advisory lock, or NoAdapter
    initOf,         \* adapter -> "none", "connecting", "locking" or "initialized"
    pg,             \* the calls
    pgRows          \* what is committed

pgVars == <<tables, migrator, initOf, pg, pgRows>>

NoAdapter == "none"
Uncalled == [at |-> "idle", on |-> NoAdapter, left |-> <<>>, mine |-> {}, counted |-> 0]

PostgresInit ==
    /\ tables = FALSE /\ migrator = NoAdapter /\ pgRows = {}
    /\ initOf = [a \in Adapters |-> "none"]
    /\ pg = [c \in PgCalls |-> Uncalled]

Moves(c, at) == pg' = [pg EXCEPT ![c].at = at]
OpenOn(a) == {c \in PgCalls : pg[c].on = a /\ pg[c].at = "inserting"}
Connections(a) == Cardinality(OpenOn(a)) + IF initOf[a] = "locking" THEN 1 ELSE 0
\* Keys inserted by transactions that are open, c's excepted.
HeldByOthers(c) == UNION {pg[o].mine : o \in {o \in PgCalls \ {c} : pg[o].at = "inserting"}}

-----------------------------------------------------------------------------
(* init and migrate *)

\* A call: insertEvent, insertMany or getEvents, which first awaits init.  The first
\* one starts the migrations, the others of the adapter share its promise.
CallPostgres(c, a) ==
    /\ pg[c].at = "idle"
    /\ \E events \in UNION {SetToSeqs(S) : S \in SUBSET PgEvents}, at \in {"many", "one", "get"} :
         /\ at = "one" => Len(events) = 1
         /\ IF at = "many" /\ events = <<>>     \* nothing to insert, nothing to wait for
            THEN Moves(c, "returned") /\ UNCHANGED initOf
            ELSE /\ pg' = [pg EXCEPT ![c] = [Uncalled EXCEPT !.at = at, !.on = a, !.left = events]]
                 /\ initOf' = [initOf EXCEPT ![a] = IF @ = "none" THEN "connecting" ELSE @]
    /\ UNCHANGED <<tables, migrator, pgRows>>

MigrateConnects(a) ==
    /\ initOf[a] = "connecting" /\ Connections(a) < poolMax
    /\ initOf' = [initOf EXCEPT ![a] = "locking"]
    /\ UNCHANGED <<tables, migrator, pg, pgRows>>

MigrateLocks(a) ==
    /\ initOf[a] = "locking" /\ migrator = NoAdapter /\ migrator' = a
    /\ UNCHANGED <<tables, initOf, pg, pgRows>>

\* COMMIT: every statement says IF NOT EXISTS.
MigrateCommits(a) ==
    /\ migrator = a /\ migrator' = NoAdapter /\ tables' = TRUE
    /\ initOf' = [initOf EXCEPT ![a] = "initialized"]
    /\ UNCHANGED <<pg, pgRows>>

\* No connection, or a statement fails: ROLLBACK, every call that waits throws, and
\* the next one tries again.  It may be the answer of the COMMIT that is lost.
MigrateFails(a) ==
    /\ initOf[a] \in {"connecting", "locking"}
    /\ migrator' = IF migrator = a THEN NoAdapter ELSE migrator
    /\ tables' \in {tables, tables \/ migrator = a}
    /\ initOf' = [initOf EXCEPT ![a] = "none"]
    /\ pg' = [c \in PgCalls |-> IF pg[c].on = a /\ pg[c].at \in {"many", "one", "get"}
                                THEN [pg[c] EXCEPT !.at = "threw"] ELSE pg[c]]
    /\ UNCHANGED pgRows

-----------------------------------------------------------------------------
(* insertEvent, insertMany, getEvents *)

Ready(c) == initOf[pg[c].on] = "initialized"

\* What is committed may be answered or not: a call whose answer is lost throws too,
\* and its rows stay.
Answers == {"returned", "lost"}

\* One statement of its own; on a conflict the row that is there is returned.
InsertEvent(c) ==
    /\ pg[c].at = "one" /\ Ready(c) /\ Connections(pg[c].on) < poolMax
    /\ ~(Head(pg[c].left) \in HeldByOthers(c))
    /\ pgRows' = pgRows \cup {Head(pg[c].left)}
    /\ \E answer \in Answers :
         pg' = [pg EXCEPT ![c].at = answer,
                          ![c].counted = IF Head(pg[c].left) \in pgRows THEN 0 ELSE 1]
    /\ UNCHANGED <<tables, migrator, initOf>>

BeginMany(c) ==
    /\ pg[c].at = "many" /\ Ready(c) /\ Connections(pg[c].on) < poolMax
    /\ Moves(c, "inserting")
    /\ UNCHANGED <<tables, migrator, initOf, pgRows>>

\* Mutant: Every row of a chunk is counted, the conflicts too.
InsertChunkCountsAll(c) ==
    /\ pg[c].at = "inserting" /\ pg[c].left # <<>>
    /\ Head(pg[c].left) \notin HeldByOthers(c)
    /\ pg' = [pg EXCEPT ![c].left = Tail(@), ![c].mine = @ \cup {Head(pg[c].left)},
                        ![c].counted = @ + 1]
    /\ UNCHANGED <<tables, migrator, initOf, pgRows>>

\* INSERT ... ON CONFLICT DO NOTHING of the next chunk; rowCount counts the new rows.
InsertChunk(c) ==
    /\ pg[c].at = "inserting" /\ pg[c].left # <<>>
    /\ LET key == Head(pg[c].left)
           new == key \notin pgRows
       IN  /\ key \notin HeldByOthers(c)
           /\ pg' = [pg EXCEPT ![c].left = Tail(@),
                               ![c].mine = IF new THEN @ \cup {key} ELSE @,
                               ![c].counted = IF new THEN @ + 1 ELSE @]
    /\ UNCHANGED <<tables, migrator, initOf, pgRows>>

CommitMany(c) ==
    /\ pg[c].at = "inserting" /\ pg[c].left = <<>>
    /\ pgRows' = pgRows \cup pg[c].mine /\ \E answer \in Answers : Moves(c, answer)
    /\ UNCHANGED <<tables, migrator, initOf>>

\* A statement fails, the connection is lost before the COMMIT arrives, or Postgres aborts
\* the transaction to end a deadlock: batches that overlap in different orders wait for
\* each other.
RollbackMany(c) ==
    /\ pg[c].at = "inserting"
    /\ pg' = [pg EXCEPT ![c] = [Uncalled EXCEPT !.at = "threw"]]
    /\ UNCHANGED <<tables, migrator, initOf, pgRows>>

\* getEvents and the others: rows, or an error (no connection within the timeout).
GetPgEvents(c) ==
    /\ pg[c].at = "get" /\ Ready(c) /\ Connections(pg[c].on) < poolMax /\ Moves(c, "returned")
    /\ UNCHANGED <<tables, migrator, initOf, pgRows>>
QueryThrows(c) ==
    /\ pg[c].at \in {"one", "many", "get"} /\ Ready(c) /\ Moves(c, "threw")
    /\ UNCHANGED <<tables, migrator, initOf, pgRows>>

PostgresNext ==
    \/ \E c \in PgCalls : \/ \E a \in Adapters : CallPostgres(c, a)
                          \/ InsertEvent(c) \/ BeginMany(c) \/ InsertChunk(c) \/ CommitMany(c)
                          \/ RollbackMany(c) \/ GetPgEvents(c) \/ QueryThrows(c)
    \/ \E a \in Adapters : MigrateConnects(a) \/ MigrateLocks(a) \/ MigrateCommits(a)
                           \/ MigrateFails(a)

PostgresTypeOK ==
    /\ tables \in BOOLEAN /\ migrator \in Adapters \cup {NoAdapter} /\ pgRows \subseteq PgEvents
    /\ \A a \in Adapters : /\ initOf[a] \in {"none", "connecting", "locking", "initialized"}
                           /\ Connections(a) <= poolMax
    /\ \A c \in PgCalls : pg[c].mine \subseteq PgEvents /\ pg[c].counted <= Cardinality(PgEvents)

-----------------------------------------------------------------------------
\* Nothing is written before the tables are there, whoever migrates first and however
\* often it fails, and each row is counted by one call: the numbers the calls returned,
\* with those that were lost on the way to a call that threw although it had committed,
\* add up to the rows, although batches overlap, wait for each other and roll back.  A
\* call that threw and was rolled back counts for nothing.
CountedOnce ==
    LET counted == [c \in PgCalls |-> IF pg[c].at \in Answers THEN pg[c].counted ELSE 0]
    IN  /\ pgRows # {} => tables
        /\ SumFunctionOnSet(counted, PgCalls) = Cardinality(pgRows)
=============================================================================
