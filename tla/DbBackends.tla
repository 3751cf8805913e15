----------------------------- MODULE DbBackends -----------------------------
(***************************************************************************)
(* The SQL and Redis backends of internal/state (sql.go, redis.go): how a  *)
(* collection is loaded when a process opens its store and how it is       *)
(* replaced by a save, by processes that share the database.               *)
(*                                                                         *)
(* A collection of the file backend is one document; here it is a table    *)
(* that a transaction empties and fills row by row, or one Redis key.  The *)
(* eight Save functions of sql.go have the same steps and differ in their  *)
(* columns.  A document is a function from its keys to values.             *)
(***************************************************************************)
EXTENDS Naturals

CONSTANTS
    DbProcs,       \* processes; the store's mutex lets each save one at a time
    DbKeys,        \* primary keys: names and ids
    DbValues,      \* the rest of a row
    Kinds,       \* databases used, of "sqlite", "mysql", "redis"
    MaxErrors,   \* bound: statements and connections that fail
    MaxDeaths    \* bound: processes that die

ASSUME DbAssumption ==
    /\ Kinds \subseteq {"sqlite", "mysql", "redis"}
    /\ {MaxErrors, MaxDeaths} \subseteq Nat

VARIABLES
    kind,      \* the database
    table,     \* the rows that are committed
    locked,    \* the processes whose transaction has changed the table
    db,        \* what each process is doing
    errors, deaths

dbVars == <<kind, table, locked, db, errors, deaths>>

-----------------------------------------------------------------------------
Docs == UNION {[S -> DbValues] : S \in SUBSET DbKeys}

NoDoc == [k \in {} |-> 0]

DbProc == [pc   : {"closed", "ping", "load", "idle", "delete", "insert", "commit", "rollback",
                   "set", "stuck"},
           doc  : Docs,                   \* what is saved; what was loaded
           rows : Docs,                   \* the rows of the transaction
           res  : {"none", "ok", "error"}]

DbTypeOK ==
    /\ kind \in Kinds
    /\ table \in Docs
    /\ locked \subseteq DbProcs
    /\ db \in [DbProcs -> DbProc]
    /\ errors \in 0..MaxErrors
    /\ deaths \in 0..MaxDeaths

Closed == [pc |-> "closed", doc |-> NoDoc, rows |-> NoDoc, res |-> "none"]

DbInit ==
    /\ kind \in Kinds
    /\ table = NoDoc
    /\ locked = {}
    /\ db = [p \in DbProcs |-> Closed]
    /\ errors = 0
    /\ deaths = 0

-----------------------------------------------------------------------------
Goto(p, label) == db' = [db EXCEPT ![p].pc = label]

Error == errors < MaxErrors /\ errors' = errors + 1

Returned(p, r) == [db[p] EXCEPT !.pc = "idle", !.rows = NoDoc, !.res = r]

(* OpenConfig asks newBackend for a backend. *)
OpenDb(p) ==
    /\ db[p].pc = "closed"
    /\ Goto(p, "ping")
    /\ UNCHANGED <<kind, table, locked, errors, deaths>>

(* newSQLBackend (ping, CREATE TABLE IF NOT EXISTS) and newRedisBackend (ping);
   a failure closes the backend. *)
Connect(p) ==
    /\ db[p].pc = "ping"
    /\ \/ Goto(p, "load") /\ UNCHANGED errors
       \/ Goto(p, "closed") /\ Error
    /\ UNCHANGED <<kind, table, locked, deaths>>

(* A collection is read, or OpenConfig fails and closes the backend. *)
Loaded(p, d) ==
    /\ db[p].pc = "load"
    /\ \/ /\ db' = [db EXCEPT ![p].pc = "idle", ![p].doc = d]
          /\ UNCHANGED errors
       \/ Goto(p, "closed") /\ Error
    /\ UNCHANGED <<kind, table, locked, deaths>>

(* loadSQL and the other Load functions of sql.go: SELECT answers with the rows that
   are committed, whatever transactions are under way. *)
LoadSQL(p) == kind # "redis" /\ Loaded(p, table)

(* redisBackend.load: a key that is not there is an empty collection, every other
   error is one. *)
LoadRedis(p) == kind = "redis" /\ Loaded(p, table)

(* A Save function is called: Begin, or the SET of Redis. *)
Begin(p, d) ==
    /\ db[p].pc = "idle"
    /\ db' = [db EXCEPT ![p] = [@ EXCEPT !.pc = IF kind = "redis" THEN "set" ELSE "delete",
                                         !.doc = d, !.rows = NoDoc, !.res = "none"]]
    /\ UNCHANGED <<kind, table, locked, errors, deaths>>

(* Mutant: DELETE is not part of the transaction. *)
DeleteRowsAtOnce(p) ==
    /\ db[p].pc = "delete"
    /\ locked = {}
    /\ locked' = {p}
    /\ table' = NoDoc
    /\ Goto(p, "insert")
    /\ UNCHANGED <<kind, errors, deaths>>

(* DELETE FROM takes the table: another transaction that has changed it makes
   SQLite answer that it is busy, and MySQL wait, up to a time limit. *)
DeleteRows(p) ==
    /\ db[p].pc = "delete"
    /\ \/ locked = {} /\ locked' = {p} /\ Goto(p, "insert") /\ UNCHANGED errors
       \/ locked # {} /\ Goto(p, "rollback") /\ UNCHANGED <<locked, errors>>
       \/ Goto(p, "rollback") /\ Error /\ UNCHANGED locked
    /\ UNCHANGED <<kind, table, deaths>>

(* INSERT of one item after the other, in the order of the map. *)
InsertRow(p) ==
    LET todo == DOMAIN db[p].doc \ DOMAIN db[p].rows
        insert(k) == [j \in DOMAIN db[p].rows \cup {k} |-> db[p].doc[j]]
    IN  /\ db[p].pc = "insert"
        /\ \/ \E k \in todo : db' = [db EXCEPT ![p].rows = insert(k)] /\ UNCHANGED errors
           \/ todo = {} /\ Goto(p, "commit") /\ UNCHANGED errors
           \/ todo # {} /\ Goto(p, "rollback") /\ Error
        /\ UNCHANGED <<kind, table, locked, deaths>>

(* Commit; when its answer is lost, nobody knows whether it was done. *)
Commit(p) ==
    /\ db[p].pc = "commit"
    /\ locked' = locked \ {p}
    /\ \/ /\ table' = db[p].rows
          /\ db' = [db EXCEPT ![p] = Returned(p, "ok")]
          /\ UNCHANGED errors
       \/ /\ Error
          /\ table' \in {table, db[p].rows}
          /\ db' = [db EXCEPT ![p] = Returned(p, "error")]
    /\ UNCHANGED <<kind, deaths>>

(* SQLite refuses a COMMIT as busy while another process reads.  The sql.Tx is over, so
   that the deferred Rollback does nothing, and the only connection of the process
   keeps the transaction: every later Begin of it fails, which changes nothing. *)
CommitBusy(p) ==
    /\ kind = "sqlite" /\ db[p].pc = "commit"
    /\ Error
    /\ db' = [db EXCEPT ![p] = [Returned(p, "error") EXCEPT !.pc = "stuck"]]
    /\ UNCHANGED <<kind, table, locked, deaths>>

(* The deferred tx.Rollback of a save that returns an error. *)
Rollback(p) ==
    /\ db[p].pc = "rollback"
    /\ locked' = locked \ {p}
    /\ db' = [db EXCEPT ![p] = Returned(p, "error")]
    /\ UNCHANGED <<kind, table, errors, deaths>>

(* redisBackend.save: one SET, whose answer may be lost, too. *)
Set(p) ==
    /\ db[p].pc = "set"
    /\ \/ /\ table' = db[p].doc
          /\ db' = [db EXCEPT ![p] = Returned(p, "ok")]
          /\ UNCHANGED errors
       \/ /\ Error
          /\ table' \in {table, db[p].doc}
          /\ db' = [db EXCEPT ![p] = Returned(p, "error")]
    /\ UNCHANGED <<kind, locked, deaths>>

(* The process dies, and the database takes its transaction back. *)
Die(p) ==
    /\ db[p].pc # "closed"
    /\ deaths < MaxDeaths
    /\ deaths' = deaths + 1
    /\ locked' = locked \ {p}
    /\ db' = [db EXCEPT ![p] = Closed]
    /\ UNCHANGED <<kind, table, errors>>

DbNext ==
    \E p \in DbProcs :
        \/ OpenDb(p) \/ Connect(p) \/ LoadSQL(p) \/ LoadRedis(p)
        \/ \E d \in Docs : Begin(p, d)
        \/ DeleteRows(p) \/ InsertRow(p) \/ Commit(p) \/ CommitBusy(p) \/ Rollback(p)
        \/ Set(p)
        \/ Die(p)

DbSpec == DbInit /\ [][DbNext]_dbVars

-----------------------------------------------------------------------------
(* Correctness *)

(* "saveSQL replaces all rows of a table in a single transaction": whatever
   processes save at the same time, fail or die, the committed rows are those of
   one save, all of them and no others: each change of the table is a whole
   document that some process is saving. *)
SaveIsWhole ==
    table' # table => \E p \in DbProcs : db[p].pc \in {"commit", "set"} /\ table' = db[p].doc

(* When a save returns nil, its document is what is committed. *)
ReturnIsStored ==
    \A p \in DbProcs : (db[p].pc # "idle" /\ db'[p].pc = "idle" /\ db'[p].res = "ok") =>
        table' = db[p].doc

(* Only a save that is under way keeps the table from the others: one that failed
   or whose process died does not, unless SQLite refused its COMMIT as busy. *)
TableIsFree ==
    \A p \in locked :
        \/ db[p].pc \in {"insert", "commit", "rollback"}
        \/ kind = "sqlite" /\ db[p].pc = "stuck"

(* A save of saveSQL or of redisBackend.save replaces the collection as a whole,
   with any number of processes; when it returns nil its document is committed,
   and when it ends the table is left to the next save, unless SQLite refused its
   COMMIT as busy. *)
SavesAreWhole == [][SaveIsWhole /\ ReturnIsStored /\ TableIsFree]_dbVars
=============================================================================
