---------------- MODULE SchemaOps ----------------
(***************************************************************************)
(* What a migration does to the tables and columns of the database. A      *)
(* schema is a function from the tables that exist to the columns of each; *)
(* a migration is two sequences of statements, its up and its down, run by *)
(* PostgreSQL in one transaction: the first statement that fails takes the *)
(* whole migration back.                                                   *)
(***************************************************************************)
EXTENDS Naturals, Sequences

EmptySchema == [t \in {} |-> {}]

(* The statements of the migrations. "given" holds the <<table, columns>>  *)
(* pairs the code looks up with hasTable and hasColumn before it issues    *)
(* the statement, or that the statement itself makes a condition of.       *)
Statement(kind, table, columns) ==
  [kind |-> kind, table |-> table, columns |-> columns, to |-> "", given |-> {}]

Create(t, cols)         == Statement("create", t, cols)
CreateIfAbsent(t, cols) == Statement("createIfAbsent", t, cols)
Uses(t, cols)           == Statement("uses", t, cols)
Add(t, cols)            == Statement("add", t, cols)
AddIfAbsent(t, cols)    == Statement("addIfAbsent", t, cols)
Drop(t, cols)           == Statement("drop", t, cols)
DropIfPresent(t, cols)  == Statement("dropIfPresent", t, cols)
DropTable(t)            == Statement("dropTable", t, {})
DropTableIfPresent(t)   == Statement("dropTableIfPresent", t, {})
Rename(t, from, to)     == [Statement("rename", t, {from}) EXCEPT !.to = to]
RenameTable(t, to)      == [Statement("renameTable", t, {}) EXCEPT !.to = to]

IfColumns(t, cols, stmt) == [stmt EXCEPT !.given = @ \cup {<<t, cols>>}]
IfTable(t, stmt)         == IfColumns(t, {}, stmt)

\* A migration class: its name, the number the name ends in, up and down.
Migration(name, version, up, down) ==
  [name |-> name, version |-> version, up |-> up, down |-> down]

HasColumns(schema, t, cols) == t \in DOMAIN schema /\ cols \subseteq schema[t]

Applies(schema, stmt) == \A g \in stmt.given : HasColumns(schema, g[1], g[2])

(* What PostgreSQL asks of a statement before it runs it.                  *)
Succeeds(schema, stmt) ==
  LET t == stmt.table IN
  CASE stmt.kind = "create" -> t \notin DOMAIN schema
    [] stmt.kind \in {"createIfAbsent", "dropTableIfPresent"} -> TRUE
    [] stmt.kind = "add" -> HasColumns(schema, t, {}) /\ schema[t] \cap stmt.columns = {}
    [] stmt.kind \in {"uses", "drop"} -> HasColumns(schema, t, stmt.columns)
    [] stmt.kind = "rename" -> HasColumns(schema, t, stmt.columns) /\ stmt.to \notin schema[t]
    [] stmt.kind = "renameTable" -> HasColumns(schema, t, {}) /\ stmt.to \notin DOMAIN schema
    [] OTHER -> HasColumns(schema, t, {})

WithTable(schema, t, cols) == [x \in DOMAIN schema \cup {t} |-> IF x = t THEN cols ELSE schema[x]]
Without(schema, t)         == [x \in DOMAIN schema \ {t} |-> schema[x]]

\* The schema after a statement that succeeded.
SchemaAfter(schema, stmt) ==
  LET t == stmt.table
      cols == stmt.columns
  IN
  CASE stmt.kind = "create" -> WithTable(schema, t, cols)
    [] stmt.kind = "createIfAbsent" -> IF t \in DOMAIN schema THEN schema ELSE WithTable(schema, t, cols)
    [] stmt.kind \in {"add", "addIfAbsent"} -> [schema EXCEPT ![t] = @ \cup cols]
    [] stmt.kind \in {"drop", "dropIfPresent"} -> [schema EXCEPT ![t] = @ \ cols]
    [] stmt.kind \in {"dropTable", "dropTableIfPresent"} -> Without(schema, t)
    [] stmt.kind = "rename" -> [schema EXCEPT ![t] = (@ \ cols) \cup {stmt.to}]
    [] stmt.kind = "renameTable" -> WithTable(Without(schema, t), stmt.to, schema[t])
    [] OTHER -> schema

(* The outcome of a migration's statements, run one after the other from a *)
(* schema: whether all of them succeeded, and the schema they leave.       *)
RunStatement(at, stmt) ==
  IF at.ok /\ Applies(at.schema, stmt)
    THEN IF Succeeds(at.schema, stmt)
           THEN [ok |-> TRUE, schema |-> SchemaAfter(at.schema, stmt)]
           ELSE [ok |-> FALSE, schema |-> at.schema]
    ELSE at

Outcome(schema, stmts) ==
  LET after[i \in 0..Len(stmts)] ==
        IF i = 0 THEN [ok |-> TRUE, schema |-> schema] ELSE RunStatement(after[i - 1], stmts[i])
  IN after[Len(stmts)]

============================================================
