------------------------------ MODULE DataCases ------------------------------
(* The inputs on which SchemaSnapshots, MigrationPlans, MigrationFiles and  *)
(* OrmQueries are checked.                                                  *)
EXTENDS Integers, SequencesExt

SS == INSTANCE SchemaSnapshots
MP == INSTANCE MigrationPlans
MF == INSTANCE MigrationFiles
OQ == INSTANCE OrmQueries

DataTopics == {"snapshot", "plan", "edit", "statements", "directory", "condition", "insert"}

-----------------------------------------------------------------------------
Column(name, type) == [name |-> name, type |-> type, nullable |-> TRUE, references |-> SS!NoReference]
Pointing(name, table, to) ==
  [Column(name, "t") EXCEPT !.references = [table |-> <<"", table>>, column |-> to]]
ColumnLists ==
  {<<Column("a", "int")>>, <<Column("b", "int"), Column("a", "int")>>,
   <<Column("a", "text"), Pointing("c", "a", "b")>>, <<Column("a", ""), Column("a", "x")>>}
Index(name, columns) == [name |-> name, columns |-> columns]
IndexLists ==
  {<<>>, <<Index(SS!Unset, <<"a">>), Index("b", <<"a">>)>>,
   <<Index(SS!Unset, <<"b", "a">>), Index(SS!Unset, <<"b">>)>>}
ForeignKey ==
  [name |-> SS!Unset, columns |-> <<"a">>,
   references |-> [table |-> <<"", "a">>, columns |-> <<"a", "b">>]]
Check(expression) == [name |-> SS!Unset, columns |-> <<>>, expression |-> expression]
Tables ==
  [name: {"a", "b"}, schema: {SS!Unset}, columns: ColumnLists, primaryKey: {SS!NoColumns, <<"b">>},
   indexes: IndexLists, uniqueConstraints: {<<>>}, foreignKeys: {<<>>, <<ForeignKey>>},
   checks: {<<>>, <<Check("x"), Check("y")>>}]
PlainTables ==
  {t \in Tables : t.indexes = <<>> /\ t.primaryKey = SS!NoColumns /\ t.checks = <<>>}
Snapshot(tables) == [version |-> 1, dialect |-> SS!Unset, tables |-> tables]
Snapshots == {Snapshot(<<t>>) : t \in Tables} \cup {Snapshot(<<t, u>>) : t \in Tables, u \in PlainTables}

Smaller(s) ==
  Snapshot(<<[s.tables[1] EXCEPT !.columns = <<Column("b", "int")>>, !.indexes = <<>>,
                                 !.foreignKeys = <<>>]>>)

-----------------------------------------------------------------------------
Line(text, tail) == [text |-> text, tail |-> tail]
Migration(id, down) ==
  [id |-> id, kind |-> "sql", up |-> <<Line("a", FALSE)>>, down |-> down, checksum |-> <<MP!Unset>>]
Id(name, padded) == [name |-> name, padded |-> padded]
Downs == {MP!NoStep, <<Line("a", FALSE)>>}
Migrations ==
  {Migration(Id(n, FALSE), d) : n \in {"001", "002", "003"}, d \in Downs}
  \cup {Migration(Id("001", TRUE), MP!NoStep)}
MigrationLists == UNION {[1..n -> Migrations] : n \in 0..3}
Steps == {<<Line("a", FALSE)>>, <<Line("a", TRUE), Line("", FALSE)>>,
          <<Line("a", FALSE), Line("b", FALSE)>>, <<Line("b", FALSE)>>, <<Line("", TRUE)>>}
Edited == {[Migration(Id("001", FALSE), d) EXCEPT !.up = up, !.checksum = sum] :
             d \in Downs, up \in Steps, sum \in {<<MP!Unset>>, <<"">>, <<"x">>}}

-----------------------------------------------------------------------------
Typed(name, type, default) ==
  [name |-> name, type |-> type, nullable |-> name = "a", default |-> default,
   references |-> MF!NoReference]
TypedColumns ==
  {<<>>, <<Typed("a", "boolean", "true")>>, <<Typed("a", "timestamp", MF!Unset)>>,
   <<Typed("a", "boolean", "true"), Typed("b", "bytea", MF!Unset)>>,
   <<Typed("b", "bytea", MF!Unset), Typed("c", "text", "true")>>}
TypedTable(name, columns, indexes) ==
  [name |-> name, schema |-> MF!Unset, columns |-> columns, primaryKey |-> MF!NoColumns,
   indexes |-> indexes, uniqueConstraints |-> <<>>, foreignKeys |-> <<>>, checks |-> <<>>]
TypedSnapshots ==
  {Snapshot(<<>>)} \cup {Snapshot(<<TypedTable(n, c, <<>>)>>) : n \in {"a", "b"}, c \in TypedColumns}
  \cup {Snapshot(<<TypedTable("a", c, <<Index("d", <<"a">>)>>), TypedTable("b", d, <<>>)>>) :
          c \in TypedColumns, d \in TypedColumns}

FileIds == {[digits |-> d, slug |-> s] : d \in {<<0, 0, 0, 1>>, <<9, 9, 9, 9>>, <<1, 0>>}, s \in {"", "a"}}
FileSnapshots ==
  {MF!NoSnapshot, Snapshot(<<>>), Snapshot(<<TypedTable("a", <<Typed("a", "text", MF!Unset)>>, <<>>)>>)}
SomeFiles == {ids \in SUBSET FileIds : Cardinality(ids) <= 2}
Directories == UNION {[ids -> [sql: {<<"x">>}, snapshot: FileSnapshots]] : ids \in SomeFiles}
Goals == {Snapshot(<<>>), MF!NoSnapshot,
          Snapshot(<<TypedTable("a", <<Typed("a", "text", MF!Unset)>>, <<>>)>>),
          Snapshot(<<TypedTable("a", <<Typed("a", "text", MF!Unset), Typed("b", "text", MF!Unset)>>, <<>>)>>)}
Histories(dir) == {[id \in s |-> [kind |-> "sql", sql |-> dir[id].sql]] : s \in SUBSET DOMAIN dir}

-----------------------------------------------------------------------------
Built(property, builder) == [property |-> property, builder |-> builder]
Plain == OQ!CreateColumnBuilder("text")
Builders ==
  {Plain, OQ!PrimaryKey(Plain), OQ!Unique(OQ!Default(Plain, "thunk")),
   OQ!References(OQ!Nullable(Plain), "u", "a"), OQ!Named_(Plain, "c"), OQ!Named_(Plain, "a b"),
   OQ!Optional(Plain)}
OrmTables == {OQ!DefineTable("t", s, <<Built("a", b), Built("b", c)>>) :
                s \in {OQ!Unset, "app"}, b \in Builders, c \in Builders}
OrmTable == OQ!DefineTable("t", OQ!Unset, <<Built("a", Plain), Built("b", Plain)>>)
A == <<"t", "a">>
B == <<"t", "b">>
Rows == [{A, B} -> {"1", "2", OQ!Null}]
Condition(op, column, with, values) ==
  [op |-> op, column |-> column, with |-> with, values |-> values, of |-> <<>>]
Bound(v) == [value |-> v]
Leaves ==
  {Condition("=", A, Bound("1"), <<>>), Condition("<>", B, [sql |-> OQ!Identifier(A)], <<>>),
   Condition("in", A, Bound("1"), <<"2", "1">>), Condition("not in", B, Bound("1"), <<"2">>),
   Condition("in", A, Bound("1"), <<>>), Condition("is null", B, Bound("1"), <<>>),
   Condition("=", B, Bound(OQ!Undefined), <<>>)}
Combined(op, of) == [Condition(op, A, Bound("1"), <<>>) EXCEPT !.of = of]
Pairs == {Combined(op, <<l, m>>) : op \in {"and", "or"}, l \in Leaves, m \in Leaves}
Trees ==
  Leaves \cup Pairs \cup {Combined("not", t) : t \in Leaves \cup Pairs}
  \cup {Combined(op, <<p, Condition("=", A, Bound("1"), <<>>)>>) : op \in {"and", "or"}, p \in Pairs}
  \cup {Combined(op, <<l>>) : op \in {"and", "or"}, l \in Leaves}
Inserts == [{"a", "b"} -> {"1", OQ!Undefined}] \cup [{"a"} -> {"2", OQ!Null}] \cup [{"z"} -> {"1"}]

DataInputsOf(topic) ==
  CASE topic = "snapshot" -> Snapshots
    [] topic = "plan" -> MigrationLists
    [] topic = "edit" -> Edited
    [] topic = "statements" -> TypedSnapshots
    [] topic = "directory" -> Directories
    [] topic = "condition" -> Trees
    [] topic = "insert" -> OrmTables

-----------------------------------------------------------------------------
(* Snapshots, plans, generated files and queries lead to the tables, the    *)
(* migrations and the rows that they are meant for.                         *)
DataLosesNothing(topic, input) ==
  CASE topic = "snapshot" ->
         /\ SS!SnapshotsAreCanonical(input) /\ SS!ValidSnapshotsHangTogether(input)
         /\ \A other \in {Snapshot(<<input.tables[1]>>), Snapshot(Reverse(input.tables)), Smaller(input)} :
              SS!DiffLeadsThere(input, other) /\ SS!DiffLeadsThere(other, input)
    [] topic = "plan" ->
         \A n \in 0..Len(input), steps \in {-1, 0, 1, 2, 4},
            to \in {MP!NoId, Id("001", FALSE), Id("002", TRUE)} :
           MP!PlansFollowHistory(input, n, steps, to)
    [] topic = "edit" -> \A up \in Steps : MP!EditsAreNoticed(input, up)
    [] topic = "statements" -> \A to \in TypedSnapshots, dialect \in {"postgres", "sqlite"} :
                                 MF!StatementsLeadThere(dialect, input, to)
    [] topic = "directory" -> \A history \in Histories(input) :
         /\ MF!ListedOrderIsApplied(input, history)
         /\ \A goal \in Goals :
              MF!GeneratedComesLast(input, [snapshot |-> goal, dialect |-> MF!Unset], "a", history)
    [] topic = "condition" -> \A dialect \in {"postgres", "sqlite"}, row \in Rows :
         OQ!ConditionsMeanWhatTheySay(OrmTable, input, [a |-> "1", b |-> OQ!Null], dialect, row)
    [] topic = "insert" ->
         /\ OQ!SnapshotSaysTheSame(input)
         /\ \A r, s \in Inserts, dialect \in {"postgres", "sqlite"} :
              OQ!InsertedArrives(input, <<r>>, dialect) /\ OQ!InsertedArrives(input, <<r, s>>, dialect)
=============================================================================
