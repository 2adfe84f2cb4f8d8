--------------------------- MODULE MigrationFiles ---------------------------
(***************************************************************************)
(* packages/data/migrate: the statements generated from two snapshots, the  *)
(* files of a migrations directory, and the commands of the CLI over them   *)
(* and over the runner of PostgreSQL.                                       *)
(*                                                                          *)
(* A migration's id is [digits, slug], digits the sequence of its leading   *)
(* digits.  A directory maps ids to [sql, snapshot]: sql a sequence of       *)
(* statements, snapshot NoSnapshot where the second file is not there.       *)
(* A history maps ids to checksums, [kind, sql].                            *)
(***************************************************************************)
EXTENDS SchemaSnapshots

EmptySnapshot(version) == [version |-> version, dialect |-> Unset, tables |-> <<>>]

-----------------------------------------------------------------------------
(* postgres/ddl.ts and sqlite/ddl.ts.  A column is [name, type, nullable,   *)
(* default, references]; what is rendered of it is all but its references.  *)
(* Of a table only columns and primary key are rendered.                    *)
SqliteColumnType(type) ==
  CASE type \in {"integer", "boolean", "serial"} -> "INTEGER"
    [] type \in {"numeric", "real"}              -> "REAL"
    [] type = "bytea"                            -> "BLOB"
    [] OTHER                                     -> "TEXT"
PostgresColumnType(type) ==
  CASE type = "timestamp" -> "timestamptz" [] type = "decimal" -> "numeric" [] OTHER -> type

RenderDefault(dialect, value) ==
  CASE value = "true"  /\ dialect = "sqlite" -> "1"
    [] value = "false" /\ dialect = "sqlite" -> "0"
    [] OTHER -> value

ColumnDefinition(dialect, c) ==
  [name |-> c.name, notNull |-> c.nullable = FALSE, default |-> RenderDefault(dialect, c.default),
   type |-> IF dialect = "sqlite" THEN SqliteColumnType(c.type) ELSE PostgresColumnType(c.type)]

QualifiedName(dialect, table) ==
  IF dialect = "sqlite" THEN <<"", table.name>> ELSE TableSnapshotKey(table)
CreateTable(dialect, table) ==
  [kind |-> "create table", table |-> QualifiedName(dialect, table),
   columns |-> [i \in DOMAIN table.columns |-> ColumnDefinition(dialect, table.columns[i])],
   primaryKey |-> table.primaryKey]
AddColumn(dialect, table, c) ==
  [kind |-> "add column", table |-> QualifiedName(dialect, table),
   columns |-> <<ColumnDefinition(dialect, c)>>, primaryKey |-> NoColumns]

(* planSchemaChanges; the order is that of the diff, left out here.         *)
Change(kind, table, column) ==
  [kind |-> kind, table |-> TableSnapshotKey(table), column |-> column,
   destructive |-> kind \in {"drop_table", "drop_column", "alter_column"}]

ChangesOf(diff) ==
  {Change("create_table", t, Unset) : t \in diff.addedTables}
  \cup {Change("drop_table", t, Unset) : t \in diff.removedTables}
  \cup UNION {{Change("add_column", t.to, c.name) : c \in t.columns.added}
              \cup {Change("alter_column", t.to, c.to.name) : c \in t.columns.changed}
              \cup {Change("drop_column", t.to, c.name) : c \in t.columns.removed} :
                t \in diff.changedTables}
PlanSchemaChanges(from, to) == ChangesOf(DiffSchemaSnapshots(from, to))

(* generatePostgresUpStatements, generateSqliteUpStatements: tables are made *)
(* before columns are added; what else is different is withheld.            *)
Mut_ForgetsAddedColumns(dialect, diff) ==
  {CreateTable(dialect, t) : t \in diff.addedTables}

Statements(dialect, diff) ==
  {CreateTable(dialect, t) : t \in diff.addedTables}
  \cup UNION {{AddColumn(dialect, t.to, c) : c \in t.columns.added} : t \in diff.changedTables}

UpStatements(dialect, to, from) ==
  [statements  |-> Statements(dialect, DiffSchemaSnapshots(from, to)),
   destructive |-> {c \in PlanSchemaChanges(from, to) : c.destructive}]

-----------------------------------------------------------------------------
(* formatMigrationFilename pads to four digits; slugifyMigrationName is not  *)
(* looked into.  parseMigrationSequence reads the digits back.              *)
RECURSIVE Digits(_)
Digits(n) == IF n < 10 THEN <<n>> ELSE Append(Digits(n \div 10), n % 10)
PadStart(digits) == [i \in 1 .. Max({0, 4 - Len(digits)}) |-> 0] \o digits
FormatMigrationFilename(sequence, slug) ==
  [digits |-> PadStart(Digits(Max({0, sequence}))), slug |-> slug]
ParseMigrationSequence(id) == FoldLeft(LAMBDA n, d : 10 * n + d, 0, id.digits)

(* localeCompare of ids, in sortMigrations and as the second key of          *)
(* readMigrationsDir; "_" comes before the digits.                          *)
IdBefore(a, b) ==
  \/ IsStrictPrefix(a.digits, b.digits)
  \/ \E i \in DOMAIN a.digits \cap DOMAIN b.digits :
       SubSeq(a.digits, 1, i - 1) = SubSeq(b.digits, 1, i - 1) /\ a.digits[i] < b.digits[i]
  \/ a.digits = b.digits /\ Before(<<a.slug>>, <<b.slug>>)
SequenceBefore(a, b) ==
  \/ ParseMigrationSequence(a) < ParseMigrationSequence(b)
  \/ ParseMigrationSequence(a) = ParseMigrationSequence(b) /\ IdBefore(a, b)

InOrder(ids, LessThan(_, _)) ==
  FoldSet(LAMBDA id, s :
            InsertAt(s, Cardinality({i \in DOMAIN s : LessThan(s[i], id)}) + 1, id), <<>>, ids)

(* readMigrationsDir, latestSnapshot and nextMigrationSequence.             *)
ReadMigrationsDir(dir) == InOrder(DOMAIN dir, SequenceBefore)
LatestSnapshot(dir) ==
  LET ids == ReadMigrationsDir(dir)
      having == {i \in DOMAIN ids : dir[ids[i]].snapshot # NoSnapshot}
  IN  IF having = {} THEN NoSnapshot ELSE dir[ids[Max(having)]].snapshot
NextMigrationSequence(dir) == Max({0} \cup {ParseMigrationSequence(id) : id \in DOMAIN dir}) + 1

(* buildMigrationFile and writeMigrationFile: first the .sql file, then the *)
(* .snapshot.json; written says how many of the two there is time for.      *)
BuildMigrationFile(statements, snapshot) ==
  [sql |-> statements, snapshot |-> NormalizeSchemaSnapshot(snapshot)]
WriteMigrationFile(dir, id, file, written) ==
  IF written = 0 THEN dir
  ELSE [i \in DOMAIN dir \cup {id} |->
          IF i # id THEN dir[i]
          ELSE IF written = 1 THEN [file EXCEPT !.snapshot = NoSnapshot] ELSE file]

-----------------------------------------------------------------------------
(* checkDrift *)
CheckDrift(current, latest, pending, missing) ==
  {k \in {"schema_changed"} : current # NoSnapshot
     /\ (latest = NoSnapshot \/ ~EqualSchemaSnapshots(current, latest))}
  \cup {k \in {"pending_migrations"} : pending # {}}
  \cup {k \in {"missing_snapshot"} : missing # {}}

(* runGenerate, with assertPostgres.  A table in a snapshot of sqlite is    *)
(* refused before anything is read.                                         *)
Latest(dir, version) ==
  IF LatestSnapshot(dir) = NoSnapshot THEN EmptySnapshot(version) ELSE LatestSnapshot(dir)
Generate(dir, config, id, up, written) ==
  LET unchanged(outcome) == [dir |-> dir, outcome |-> outcome, withheld |-> up.destructive] IN
    IF config.dialect \notin {Unset, "postgres"} THEN unchanged("MIGRATION_INVALID")
    ELSE IF up.statements = {} THEN unchanged("No changes")
    ELSE [outcome |-> "Generated", withheld |-> up.destructive,
          dir |-> WriteMigrationFile(dir, id,
                    BuildMigrationFile(up.statements, config.snapshot), written)]
RunGenerate(dir, config, name, written) ==
  IF config.snapshot = NoSnapshot
  THEN [dir |-> dir, outcome |-> "MIGRATION_INVALID", withheld |-> {}]
  ELSE Generate(dir, config, FormatMigrationFilename(NextMigrationSequence(dir), name),
                UpStatements("postgres", config.snapshot, Latest(dir, config.snapshot.version)),
                written)

(* runCheck; without a runner nothing counts as applied.                    *)
PendingOf(dir, applied) == DOMAIN dir \ applied
RunCheck(dir, config, applied) ==
  CheckDrift(config.snapshot, LatestSnapshot(dir), PendingOf(dir, applied),
             {id \in DOMAIN dir : dir[id].snapshot = NoSnapshot})

(* createPostgresMigrateRunner: apply hands the pending migrations to the    *)
(* migrator, which sorts them by id and records each; baseline and repair    *)
(* record what defineSqlMigration makes of the file.  repair stops after     *)
(* some of its steps where the process does: two for each migration.        *)
Apply(dir, history) ==
  LET pending == PendingOf(dir, DOMAIN history) IN
    [order |-> InOrder(pending, IdBefore),
     history |-> [id \in DOMAIN history \cup pending |->
       IF id \in pending THEN [kind |-> "programmatic", sql |-> dir[id].sql] ELSE history[id]]]
Marked(dir, id) == [kind |-> "sql", sql |-> dir[id].sql]
Baseline(dir, history) ==
  [id \in DOMAIN history \cup DOMAIN dir |->
     IF id \in DOMAIN history THEN history[id] ELSE Marked(dir, id)]
Repair(dir, history, steps) ==
  LET ids == SelectSeq(ReadMigrationsDir(dir), LAMBDA id : id \in DOMAIN history)
      done == {ids[i] : i \in {i \in DOMAIN ids : 2 * i <= steps}}
      lost == {ids[i] : i \in {i \in DOMAIN ids : 2 * i = steps + 1}}
  IN  [id \in DOMAIN history \ lost |-> IF id \in done THEN Marked(dir, id) ELSE history[id]]

-----------------------------------------------------------------------------
(* What the statements make of the tables a database has.                   *)
ColumnsOf(dialect, table) ==
  {ColumnDefinition(dialect, table.columns[i]) : i \in DOMAIN table.columns}
Database(dialect, snapshot) ==
  {[table |-> QualifiedName(dialect, snapshot.tables[i]),
    columns |-> ColumnsOf(dialect, snapshot.tables[i])] : i \in DOMAIN snapshot.tables}
Executed(database, statements) ==
  {[t EXCEPT !.columns = @ \cup UNION {ToSet(s.columns) : s \in
      {s \in statements : s.kind = "add column" /\ s.table = t.table}}] :
     t \in database \cup {[table |-> s.table, columns |-> ToSet(s.columns)] :
                            s \in {s \in statements : s.kind = "create table"}}}

(* The generated statements bring a database with the tables of the one      *)
(* snapshot to those of the other, but for the changes that were withheld:   *)
(* with none, exactly; otherwise every column and table that is new or       *)
(* the same is there.                                                       *)
StatementsLeadThere(dialect, from, to) ==
  {ValidateSchemaSnapshot(from), ValidateSchemaSnapshot(to)} = {{}} =>
    \A up \in {UpStatements(dialect, to, from)} :
    \A after \in {Executed(Database(dialect, from), up.statements)} :
      /\ up.destructive = {} => after = Database(dialect, to)
      /\ \A i \in DOMAIN to.tables : LET t == to.tables[i] IN
           \E d \in after :
             /\ d.table = QualifiedName(dialect, t)
             /\ \A c \in ToSet(t.columns) :
                  Change("alter_column", t, c.name) \notin up.destructive =>
                    ColumnDefinition(dialect, c) \in d.columns

(* A generated migration comes last in the directory and holds the newest   *)
(* snapshot, so the next generate finds nothing to do and check no change;  *)
(* one of which only the .sql file was written is reported by check.  Once  *)
(* all is applied check is clean, and baseline and repair leave no          *)
(* migration pending that was not.                                          *)
GeneratedComesLast(dir, config, name, history) ==
  \A made \in {RunGenerate(dir, config, name, 2)}, torn \in {RunGenerate(dir, config, name, 1)} :
  \A all \in {Apply(made.dir, history).history} :
    LET new == DOMAIN made.dir \ DOMAIN dir IN
      made.outcome = "Generated" =>
        /\ Cardinality(new) = 1 /\ {Last(ReadMigrationsDir(made.dir))} = new
        /\ RunGenerate(made.dir, config, name, 2).outcome = "No changes"
        /\ "schema_changed" \notin RunCheck(made.dir, config, DOMAIN history)
        /\ "missing_snapshot" \in RunCheck(torn.dir, config, DOMAIN history)
        /\ (\A id \in DOMAIN dir : dir[id].snapshot # NoSnapshot) =>
             RunCheck(made.dir, config, DOMAIN all) = {}
        /\ PendingOf(made.dir, DOMAIN Baseline(made.dir, history)) = {}
        /\ DOMAIN Repair(made.dir, all, 2 * Cardinality(DOMAIN all)) = DOMAIN all

(* Migrations are applied in the order they are listed in, if their numbers *)
(* are all of one length.                                                   *)
ListedOrderIsApplied(dir, history) ==
  (\A a, b \in DOMAIN dir : Len(a.digits) = Len(b.digits)) =>
    Apply(dir, history).order =
      SelectSeq(ReadMigrationsDir(dir), LAMBDA id : id \notin DOMAIN history)
=============================================================================
