---------------- MODULE SchemaHistory ----------------
(***************************************************************************)
(* The migrations in the order patch-typeorm-migration-order.ts gives      *)
(* them, the schema a database has after the first n of them, and what the *)
(* check of the runtime schema misses in one.                              *)
(***************************************************************************)
EXTENDS MigrationsFirst, MigrationsSecond, MigrationsThird, EntitySchema, TLC

(* The order of execution. A version is split at its sixth digit from the  *)
(* right, <<version \div 10^6, version % 10^6>>: TLC's integers are small. *)
Files == MigrationsFirstFiles \o MigrationsSecondFiles \o MigrationsThirdFiles

migrationTimestampOverrides ==
  [AddBookingStatusConstraints1738108524000 |-> <<1768000, 100>>,
   AddPhone2ToClients1744243201000          |-> <<1767272, 597300>>,
   RenameAccessTokenToHash1736469350000     |-> <<1767272, 597301>>]

EffectiveTimestamp(m) ==
  IF m.name \in DOMAIN migrationTimestampOverrides THEN migrationTimestampOverrides[m.name] ELSE m.version

Earlier(a, b) ==
  LET x == EffectiveTimestamp(a)
      y == EffectiveTimestamp(b)
  IN x[1] < y[1] \/ (x[1] = y[1] /\ x[2] < y[2])

Ordered == SortSeq(Files, Earlier)

\* The schema a fresh install has after the first n migrations.
FreshInstall ==
  LET fresh[n \in 0..Len(Ordered)] ==
        IF n = 0
          THEN [ok |-> TRUE, schema |-> EmptySchema]
          ELSE LET before == fresh[n - 1]
               IN IF before.ok THEN Outcome(before.schema, Ordered[n].up) ELSE before
  IN fresh

FreshSchema(n) == FreshInstall[n].schema

(* The columns assertRuntimeSchemaCompatibility misses, for the tables it  *)
(* does not leave out.                                                     *)
SCHEMA_VALIDATION_EXCLUDED_TABLES == {"subscriptions"}

MissingFrom(s) ==
  {e \in ALL_ENTITIES : e.table \notin SCHEMA_VALIDATION_EXCLUDED_TABLES /\ ~HasColumns(s, e.table, e.columns)}

============================================================
