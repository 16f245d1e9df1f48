---------------------------- MODULE Migrations ----------------------------
(***************************************************************************)
(* The migrations of the SQL storages (storage/sql/migrate.go): every      *)
(* process runs them when it opens the storage, one transaction per        *)
(* migration, until the table migrations says that there are none left.    *)
(* Processes that start together migrate the same database.                *)
(*                                                                         *)
(* A transaction is serializable: the flavor of Postgres asks for it, and  *)
(* sqlite3 locks the file.  Of two transactions that read the same number  *)
(* and both insert the next one, the second to commit fails.               *)
(***************************************************************************)
EXTENDS ServerProcess

CONSTANT migrations   \* the number of migrations

ASSUME MigrationsAssumption == migrations \in Nat

VARIABLES table,     \* the table migrations exists
          num,       \* max(num) in that table, 0 without rows
          schema,    \* the statements of migrations that took effect, in order
          tx         \* what the open transaction of a process read, or NoTx

migrationVars == <<table, num, schema, tx>>

NoTx == -1

MigrationsInit ==
    /\ table = FALSE
    /\ num = 0
    /\ schema = <<>>
    /\ tx = [s \in Servers |-> NoTx]

MigrationsTypeOK ==
    /\ table \in BOOLEAN
    /\ num \in Nat
    /\ schema \in Seq(Nat)
    /\ tx \in [Servers -> Nat \cup {NoTx}]

\* create table if not exists.
CreateMigrationTable(s) ==
    /\ backend = "sql" /\ stage[s] = "opening"
    /\ ~table
    /\ table' = TRUE
    /\ UNCHANGED <<processVars, num, schema, tx>>

\* Begin a transaction and read the number of the last migration.
SelectMax(s) ==
    /\ backend = "sql" /\ stage[s] = "opening"
    /\ table /\ tx[s] = NoTx
    /\ tx' = [tx EXCEPT ![s] = num]
    /\ UNCHANGED <<processVars, table, num, schema>>

\* Mutant: the last migration is taken for done.
DoneEarly(s) ==
    /\ tx[s] # NoTx /\ tx[s] >= migrations - 1
    /\ tx' = [tx EXCEPT ![s] = NoTx]
    /\ To(s, "opened")
    /\ UNCHANGED <<backend, config, stops, table, num, schema>>

\* All migrations are applied: the loop ends and the storage is open.
Done(s) ==
    /\ tx[s] # NoTx /\ tx[s] >= migrations
    /\ tx' = [tx EXCEPT ![s] = NoTx]
    /\ To(s, "opened")
    /\ UNCHANGED <<backend, config, stops, table, num, schema>>

\* Mutant: the transaction is not serializable.
MigrateUnserialized(s) ==
    /\ tx[s] # NoTx /\ tx[s] < migrations
    /\ schema' = Append(schema, tx[s] + 1)
    /\ num' = tx[s] + 1
    /\ tx' = [tx EXCEPT ![s] = NoTx]
    /\ UNCHANGED <<processVars, table>>

\* The statement of the next migration and the row that records it commit
\* together.
Migrate(s) ==
    /\ tx[s] # NoTx /\ tx[s] < migrations
    /\ tx[s] = num
    /\ schema' = Append(schema, tx[s] + 1)
    /\ num' = tx[s] + 1
    /\ tx' = [tx EXCEPT ![s] = NoTx]
    /\ UNCHANGED <<processVars, table>>

\* Another process committed the same migration first: migrate returns the
\* error, the storage is not opened and serve returns.
MigrateConflict(s) ==
    /\ tx[s] # NoTx /\ tx[s] < migrations
    /\ tx[s] # num
    /\ tx' = [tx EXCEPT ![s] = NoTx]
    /\ To(s, "failed")
    /\ UNCHANGED <<backend, config, stops, table, num, schema>>

migrate(s) ==
    \/ CreateMigrationTable(s)
    \/ SelectMax(s)
    \/ Done(s)
    \/ Migrate(s)
    \/ MigrateConflict(s)
=============================================================================
