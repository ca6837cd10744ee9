---------------- MODULE SchemaUpgrade ----------------
(***************************************************************************)
(* Installing, upgrading and rolling back the database: the migrations in  *)
(* the order patch-typeorm-migration-order.ts gives them, the migrate.js   *)
(* one-off (possibly started twice, crashing, retried), the operator's     *)
(* migration:revert of docs/runbooks/db-rollback.md, and the gate an       *)
(* application container passes before it serves.                         *)
(***************************************************************************)
EXTENDS SchemaHistory, FiniteSets

CONSTANTS Migrators,      \* the migrate.js processes
          MigrateRetries, \* MIGRATE_RETRIES
          UpgradePlots    \* what may happen: [migrators, installed, starts, faults, reverts, floor]

ASSUME UpgradeAssumption ==
  /\ MigrateRetries \in Nat \ {0}
  /\ UpgradePlots \subseteq [migrators : SUBSET Migrators, installed : Nat, starts : Nat, faults : Nat, reverts : Nat,
                      floor : Nat]
  /\ \A plot \in UpgradePlots : plot.faults < MigrateRetries \* fewer faults than attempts

VARIABLES tables,     \* the tables and columns of the database
          executed,   \* the rows of the migrations table, as positions in Ordered
          migrator,   \* what each migrate.js process is doing
          app,        \* the application container
          upgrade     \* what is left of the plot; whether a rollback is under way

upgradeVars == <<tables, executed, migrator, app, upgrade>>

\* The migrations TypeORM finds without a row, in their order.
PendingOf(rows) ==
  SelectSeq([n \in 1..Len(Ordered) |-> n], LAMBDA n : \A k \in DOMAIN rows : rows[k] # n)

NoPending == {executed[k] : k \in DOMAIN executed} = 1..Len(Ordered)

IdleMigrator == [at |-> "idle", attempt |-> 0, pending |-> <<>>]
MigratorActive(p) == migrator[p].at \in {"reading", "running"}

\* An earlier release, of "installed" migrations, runs on the database.
UpgradeInit ==
  /\ migrator = [p \in Migrators |-> IdleMigrator]
  /\ app = "waiting"
  /\ \E plot \in UpgradePlots :
       /\ tables = FreshSchema(plot.installed)
       /\ executed = [n \in 1..plot.installed |-> n]
       /\ upgrade = [migrators |-> plot.migrators, starts |-> plot.starts, faults |-> plot.faults,
                     reverts |-> plot.reverts, floor |-> plot.floor, rollback |-> "none"]

MigratorGoes(p, at, attempt, pending) ==
  migrator' = [migrator EXCEPT ![p] = [at |-> at, attempt |-> attempt, pending |-> pending]]

\* migrate.js is started, on a deploy or by hand.
StartMigrator(p) ==
  /\ p \in upgrade.migrators
  /\ ~MigratorActive(p)
  /\ MigratorGoes(p, "reading", 1, <<>>)
  /\ upgrade.starts > 0
  /\ upgrade' = [upgrade EXCEPT !.starts = @ - 1, !.rollback = IF @ = "none" THEN "none" ELSE "over"]
  /\ UNCHANGED <<tables, executed, app>>

\* An attempt loads the executed migrations once and works on that list.
ReadPending(p) ==
  /\ migrator[p].at = "reading"
  /\ MigratorGoes(p, "running", migrator[p].attempt, PendingOf(executed))
  /\ UNCHANGED <<tables, executed, app, upgrade>>

\* A failed attempt is tried again from the start, MIGRATE_RETRIES times in all.
AttemptFails(p) ==
  IF migrator[p].attempt = MigrateRetries
    THEN MigratorGoes(p, "failed", 0, <<>>)
    ELSE MigratorGoes(p, "reading", migrator[p].attempt + 1, <<>>)

\* The next migration of the list and its row, in one transaction.
RunMigration(p) ==
  LET m == Head(migrator[p].pending)
      result == Outcome(tables, Ordered[m].up)
  IN
  /\ migrator[p].at = "running"
  /\ migrator[p].pending # <<>>
  /\ \/ /\ result.ok
        /\ tables' = result.schema
        /\ executed' = Append(executed, m)
        /\ MigratorGoes(p, "running", migrator[p].attempt, Tail(migrator[p].pending))
     \/ /\ ~result.ok
        /\ AttemptFails(p)
        /\ UNCHANGED <<tables, executed>>
  /\ UNCHANGED <<app, upgrade>>

\* The rows of the database, a lock or the connection make the migration fail.
RefuseMigration(p) ==
  /\ migrator[p].at = "running"
  /\ migrator[p].pending # <<>>
  /\ upgrade.faults > 0
  /\ upgrade' = [upgrade EXCEPT !.faults = @ - 1]
  /\ AttemptFails(p)
  /\ UNCHANGED <<tables, executed, app>>

\* After the last migration of the list: assertRuntimeSchemaCompatibility.
FinishMigrator(p) ==
  /\ migrator[p].at = "running"
  /\ migrator[p].pending = <<>>
  /\ IF MissingFrom(tables) = {} THEN MigratorGoes(p, "done", 0, <<>>) ELSE AttemptFails(p)
  /\ UNCHANGED <<tables, executed, app, upgrade>>

\* The process dies; the transaction it was in is rolled back.
CrashMigrator(p) ==
  /\ MigratorActive(p)
  /\ upgrade.faults > 0
  /\ upgrade' = [upgrade EXCEPT !.faults = @ - 1]
  /\ MigratorGoes(p, "idle", 0, <<>>)
  /\ UNCHANGED <<tables, executed, app>>

(* migration:revert takes back the migration of the last row, and every    *)
(* row of its name, in one transaction; the runbook stops the application  *)
(* first. One rollback, of one or more reverts, is bounded by the plot; it *)
(* stops at the plot's floor.                                              *)
RevertLast ==
  LET m == executed[Len(executed)]
      result == Outcome(tables, Ordered[m].down)
  IN
  /\ executed # <<>>
  /\ \A p \in Migrators : ~MigratorActive(p)
  /\ upgrade.rollback # "over"
  /\ upgrade.reverts > 0
  /\ m > upgrade.floor
  /\ upgrade' = [upgrade EXCEPT !.reverts = @ - 1, !.rollback = "under way"]
  /\ result.ok
  /\ tables' = result.schema
  /\ executed' = SelectSeq(executed, LAMBDA n : n # m)
  /\ app' = "waiting"
  /\ UNCHANGED migrator

\* A plausible slip: the gate only sees that the database was migrated once.
OnceMigrated == executed # <<>>

\* What wait-for-migrations.js waits for: showMigrations finds none.
NothingToWaitFor == NoPending

PassGate ==
  /\ app = "waiting"
  /\ NothingToWaitFor
  /\ app' = "booting"
  /\ UNCHANGED <<tables, executed, migrator, upgrade>>

(* main.ts looks for pending migrations and checks the schema once more,   *)
(* then listens; its refusal (strict validation, as in production)         *)
(* restarts the container.                                                 *)
Boot ==
  /\ app = "booting"
  /\ app' = IF NoPending /\ MissingFrom(tables) = {} THEN "serving" ELSE "waiting"
  /\ UNCHANGED <<tables, executed, migrator, upgrade>>

UpgradeNext ==
  \/ \E p \in Migrators :
       \/ StartMigrator(p)
       \/ ReadPending(p)
       \/ RunMigration(p)
       \/ RefuseMigration(p)
       \/ FinishMigrator(p)
       \/ CrashMigrator(p)
  \/ RevertLast
  \/ PassGate
  \/ Boot

(* The tables is always a finite map of tables, and a row of the           *)
(* migrations table or a pending migration is one of the files.            *)
UpgradeTypeOK ==
  /\ \A t \in DOMAIN tables : IsFiniteSet(tables[t])
  /\ executed \in Seq(1..Len(Ordered))
  /\ \A p \in Migrators :
       /\ migrator[p].at \in {"idle", "reading", "running", "done", "failed"}
       /\ migrator[p].attempt \in 0..MigrateRetries
       /\ migrator[p].pending \in Seq(1..Len(Ordered))
  /\ app \in {"waiting", "booting", "serving"}
  /\ upgrade.rollback \in {"none", "under way", "over"}

(* A single migrate.js that meets fewer faults than it has attempts never  *)
(* gives up: every migration finds the tables and columns it needs where   *)
(* the order (and the three overrides) put it, on a fresh database, after  *)
(* a crash, and after a rollback.                                          *)
LoneMigratorSucceeds ==
  Cardinality(upgrade.migrators) = 1 => \A p \in Migrators : migrator[p].at # "failed"

(* Whatever crashed, was run twice by a stale migrator or rolled back and  *)
(* migrated again: once no migration is pending the database has the       *)
(* tables and columns of a fresh install.                                  *)
UpgradeConverges == NoPending => tables = FreshSchema(Len(Ordered))

(* The gate waits for pending migrations only, and the entities are the    *)
(* newest: an application that got through, and whose database nobody has  *)
(* rolled back since, has every column its entities name - also while a    *)
(* late migrate.js repeats a migration below it.                           *)
ServedSchemaIsCompatible == app # "waiting" => MissingFrom(tables) = {}

============================================================
