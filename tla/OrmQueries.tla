----------------------------- MODULE OrmQueries -----------------------------
(***************************************************************************)
(* packages/data/orm/core/mod.ts: table definitions and the snapshot made   *)
(* of them, conditions, the four query builders, and the rendering of SQL.  *)
(*                                                                          *)
(* A piece of SQL is a sequence of tokens: [raw], [id] with the parts of an *)
(* identifier, or [param]; a piece inside another is flattened, as          *)
(* renderSqlInto does.  A column is referred to as <<table, name>>.         *)
(* Refused is an error thrown where SQL was asked for.                      *)
(***************************************************************************)
EXTENDS SchemaSnapshots

Undefined == "undefined"
Null == "null"
Raw(text) == <<[raw |-> text]>>
SerializeSqlValue(value) == IF value = Undefined THEN Null ELSE value
Param(value) == <<[param |-> SerializeSqlValue(value)]>>
Refused == Raw("OrmError")

(* validateIdentifierPath: the names that are not identifiers are "" and    *)
(* those in Invalid.                                                        *)
Invalid == {"", "a b"}
Identifier(path) == IF ToSet(path) \cap Invalid = {} THEN <<[id |-> path]>> ELSE Refused
JoinSql(items, separator) ==
  FoldLeft(LAMBDA s, i : s \o (IF i = 1 THEN <<>> ELSE separator) \o items[i],
           <<>>, [i \in DOMAIN items |-> i])

(* sql`...`: a value is a parameter unless it is SQL itself.                *)
IsSql(value) == "sql" \in DOMAIN value
Interpolate(value) == IF IsSql(value) THEN value.sql ELSE Param(value.value)

-----------------------------------------------------------------------------
(* Column builders, defineTable and createSchemaSnapshot.                   *)
CreateColumnBuilder(type) ==
  [name |-> Unset, type |-> type, nullable |-> FALSE, hasDefault |-> FALSE, default |-> Unset,
   primaryKey |-> FALSE, unique |-> FALSE, references |-> NoReference, optionalInsert |-> FALSE]
Named_(b, name)  == [b EXCEPT !.name = name]
Nullable(b)      == [b EXCEPT !.nullable = TRUE]
Optional(b)      == [b EXCEPT !.optionalInsert = TRUE]
Default(b, v)    == [b EXCEPT !.hasDefault = TRUE, !.default = v]
PrimaryKey(b)    == [b EXCEPT !.primaryKey = TRUE]
Unique(b)        == [b EXCEPT !.unique = TRUE]
References(b, table, column) == [b EXCEPT !.references = [table |-> <<"", table>>, column |-> column]]

NoTable == [name |-> "", schema |-> Unset, columns |-> <<>>]
DefineTable(name, schema, builders) ==
  LET column(property, b) == [b EXCEPT !.name = Or(@, property)] @@ [property |-> property]
      columns == [i \in DOMAIN builders |-> column(builders[i].property, builders[i].builder)]
  IN  IF ({name, schema} \cup {columns[i].name : i \in DOMAIN columns}) \cap Invalid # {} THEN NoTable
      ELSE [name |-> name, schema |-> schema, columns |-> columns]

(* tableToSnapshot; of a default only literals are kept, "thunk" is none.   *)
TableToSnapshot(t) ==
  LET of(Test(_)) == SelectSeq(t.columns, Test)
      names(s) == [i \in DOMAIN s |-> s[i].name]
      keys == names(of(LAMBDA c : c.primaryKey))
      unique == of(LAMBDA c : c.unique)
      foreign == of(LAMBDA c : c.references # NoReference)
  IN  [name |-> t.name, schema |-> t.schema,
       columns |-> [i \in DOMAIN t.columns |-> LET c == t.columns[i] IN
         [name |-> c.name, type |-> c.type, nullable |-> c.nullable, references |-> c.references,
          default |-> IF c.default = "thunk" THEN Unset ELSE c.default]],
       primaryKey |-> IF keys = <<>> THEN NoColumns ELSE keys,
       uniqueConstraints |-> [i \in DOMAIN unique |-> [name |-> Unset, columns |-> <<unique[i].name>>]],
       foreignKeys |-> [i \in DOMAIN foreign |-> LET r == foreign[i].references IN
         [name |-> Unset, columns |-> <<foreign[i].name>>,
          references |-> [table |-> r.table, columns |-> <<r.column>>]]],
       indexes |-> <<>>, checks |-> <<>>]

CreateSchemaSnapshot(tables, dialect) ==
  DefineSchemaSnapshot([version |-> 1, dialect |-> dialect,
                        tables |-> [i \in DOMAIN tables |-> TableToSnapshot(tables[i])]])

-----------------------------------------------------------------------------
(* The conditions.  A column compared with another is left as it is.        *)
BinaryCondition(column, operator, value) ==
  Identifier(column) \o Raw(operator) \o Interpolate(value)
InArrayCondition(column, values, negated) ==
  IF values = <<>> THEN Raw(IF negated THEN "1 = 1" ELSE "1 = 0")
  ELSE Identifier(column) \o Raw(IF negated THEN "not in" ELSE "in") \o Raw("(")
         \o JoinSql([i \in DOMAIN values |-> Param(values[i])], Raw(",")) \o Raw(")")
IsNull(column)    == Identifier(column) \o Raw("is null")
IsNotNull(column) == Identifier(column) \o Raw("is not null")
Not(condition)    == Raw("not") \o Raw("(") \o condition \o Raw(")")

CombineConditions(operator, conditions) ==
  IF conditions = <<>> THEN Refused
  ELSE IF Len(conditions) = 1 THEN conditions[1]
  ELSE JoinSql([i \in DOMAIN conditions |-> Raw("(") \o conditions[i] \o Raw(")")], Raw(operator))

-----------------------------------------------------------------------------
(* The builders' toSql.  A state is what their calls leave: condition <<>>  *)
(* where there is none; limit and offset in halves, None undefined.         *)
None == -1
Clause(word, sql) == IF sql = <<>> THEN <<>> ELSE Raw(word) \o sql
ProjectionSql(projection) ==
  IF projection = <<>> THEN Refused
  ELSE JoinSql([i \in DOMAIN projection |-> Identifier(projection[i].column) \o Raw("as")
                  \o Identifier(<<projection[i].alias>>)], Raw(","))
NoReturning == <<>>
AllColumns == <<[alias |-> "*", column |-> <<>>]>>
ReturningSql(returning) ==
  CASE returning = NoReturning -> <<>>
    [] returning = AllColumns  -> Raw("returning *")
    [] OTHER                   -> Raw("returning") \o ProjectionSql(returning)
IsRefused(sql) == \E i \in DOMAIN sql : sql[i] = Refused[1]

(* Select: a limit is above zero and an offset is not below it; both are    *)
(* floored afterwards.                                                      *)
SelectSql(s) ==
  LET count(halves) == IF halves = None THEN <<>> ELSE <<[param |-> [count |-> halves \div 2]]>>
      join(j) == Raw(j.kind) \o Identifier(<<j.table>>) \o Raw("on") \o j.on
      sql == Raw("select") \o (IF s.projection = <<>> THEN Raw("*") ELSE ProjectionSql(s.projection))
        \o Raw("from") \o Identifier(<<s.table>>)
        \o JoinSql([i \in DOMAIN s.joins |-> join(s.joins[i])], <<>>)
        \o Clause("where", s.condition)
        \o (IF s.order = <<>> THEN <<>> ELSE Raw("order by") \o Identifier(s.order))
        \o Clause("limit", count(s.limit)) \o Clause("offset", count(s.offset))
  IN  IF s.limit = 0 \/ IsRefused(sql) THEN Refused ELSE sql

(* getInsertColumnNames, getDefinedEntries and assertTableColumn: the keys  *)
(* of the rows, which are names of properties, are the names of the columns *)
(* in the SQL.                                                              *)
Defined(row) == {k \in DOMAIN row : row[k] # Undefined}
Known(table, keys) == keys \subseteq {table.columns[i].property : i \in DOMAIN table.columns}
Listed(table, keys) ==
  LET of == SelectSeq(table.columns, LAMBDA c : c.property \in keys) IN
    [i \in DOMAIN of |-> of[i].property]

InsertColumnNames(table, rows) == Listed(table, UNION {Defined(rows[i]) : i \in DOMAIN rows})
InsertSql(table, rows, returning) ==
  LET keys == UNION {Defined(rows[i]) : i \in DOMAIN rows}
      names == InsertColumnNames(table, rows)
      cell(row, k) == Param(IF k \in DOMAIN row THEN row[k] ELSE Undefined)
      tuple(row) == Raw("(") \o JoinSql([i \in DOMAIN names |-> cell(row, names[i])], Raw(",")) \o Raw(")")
  IN  IF keys = {} \/ ~Known(table, keys) THEN Refused
      ELSE Raw("insert into") \o Identifier(<<table.name>>) \o Raw("(")
             \o JoinSql([i \in DOMAIN names |-> Identifier(<<names[i]>>)], Raw(","))
             \o Raw(") values")
             \o JoinSql([i \in DOMAIN rows |-> tuple(rows[i])], Raw(",")) \o ReturningSql(returning)

(* assertUnsafeAllRowsAllowed *)
MayTouchAll(condition, allowAllRows) == condition # <<>> \/ allowAllRows
UpdateSql(table, values, condition, allowAllRows, returning) ==
  LET names == Listed(table, Defined(values)) IN
    IF Defined(values) = {} \/ ~Known(table, Defined(values)) \/ ~MayTouchAll(condition, allowAllRows)
    THEN Refused
    ELSE Raw("update") \o Identifier(<<table.name>>) \o Raw("set")
           \o JoinSql([i \in DOMAIN names |-> Identifier(<<names[i]>>) \o Raw("=")
                         \o Param(values[names[i]])], Raw(","))
           \o Clause("where", condition) \o ReturningSql(returning)
DeleteSql(table, condition, allowAllRows, returning) ==
  IF ~MayTouchAll(condition, allowAllRows) THEN Refused
  ELSE Raw("delete from") \o Identifier(<<table.name>>) \o Clause("where", condition)
         \o ReturningSql(returning)

-----------------------------------------------------------------------------
(* renderSql: PostgreSQL's placeholders have numbers, the others' are "?".  *)
IsParam(token) == "param" \in DOMAIN token
RenderSql(sql, dialect) ==
  LET number(i) == Cardinality({j \in 1 .. i : IsParam(sql[j])}) IN
    [text |-> [i \in DOMAIN sql |->
       IF ~IsParam(sql[i]) THEN sql[i]
       ELSE [placeholder |-> IF dialect = "postgres" THEN number(i) ELSE 0]],
     params |-> LET ps == SelectSeq(sql, IsParam) IN [i \in DOMAIN ps |-> ps[i].param]]

(* normalizeSqlInput: only a text comes with parameters of its own.         *)
NormalizeSqlInput(kind, sql, params, dialect) ==
  IF kind # "text" /\ params # <<>> THEN [text |-> Refused, params |-> <<>>]
  ELSE IF kind = "sql" THEN RenderSql(sql, dialect) ELSE [text |-> sql, params |-> params]

-----------------------------------------------------------------------------
(* A database reads text and parameters: the n-th parameter for a number,   *)
(* the next one for a "?"; NOT binds closer than AND, and AND than OR; and  *)
(* what is compared with NULL is unknown.                                   *)
Bound(rendered) ==
  [i \in DOMAIN rendered.text |->
     LET t == rendered.text[i]
         place(j) == "placeholder" \in DOMAIN rendered.text[j]
     IN  IF ~place(i) THEN t
         ELSE [param |-> rendered.params[
                 IF t.placeholder # 0 THEN t.placeholder ELSE Cardinality({j \in 1 .. i : place(j)})]]]

Truth(test) == IF test THEN "true" ELSE "false"
AndOf(p, q) == IF "false" \in {p, q} THEN "false" ELSE IF "unknown" \in {p, q} THEN "unknown" ELSE "true"
OrOf(p, q)  == IF "true" \in {p, q} THEN "true" ELSE IF "unknown" \in {p, q} THEN "unknown" ELSE "false"
NotOf(p)    == CASE p = "true" -> "false" [] p = "false" -> "true" [] OTHER -> p
Equal(a, b) == IF Null \in {a, b} THEN "unknown" ELSE Truth(a = b)
OneOf(a, values) == FoldLeft(LAMBDA p, v : OrOf(p, Equal(a, v)), "false", values)

RECURSIVE Meaning(_, _)
Meaning(text, row) ==
  LET word(i) == IF "raw" \in DOMAIN text[i] THEN text[i].raw ELSE "operand"
      n == Len(text)
      count(w, i) == Cardinality({j \in 1 .. i : word(j) = w})
      depth(i) == count("(", i) - count(")", i)
      at(w) == {i \in 1 .. n : word(i) = w /\ depth(i) = 0}
      part(i, j) == Meaning(SubSeq(text, i, j), row)
      operands == SelectSeq(SubSeq(text, 3, n), IsParam)
      list == [i \in DOMAIN operands |-> operands[i].param]
      side(i) == IF "id" \in DOMAIN text[i] THEN row[text[i].id] ELSE text[i].param
  IN  CASE at("or") # {}  -> OrOf(part(1, Max(at("or")) - 1), part(Max(at("or")) + 1, n))
        [] at("or") = {} /\ at("and") # {} ->
             AndOf(part(1, Max(at("and")) - 1), part(Max(at("and")) + 1, n))
        [] word(1) = "not" /\ at("or") \cup at("and") = {} -> NotOf(part(2, n))
        [] word(1) = "("   /\ at("or") \cup at("and") = {} -> part(2, n - 1)
        [] word(1) \in {"1 = 1", "1 = 0"} /\ n = 1 -> Truth(word(1) = "1 = 1")
        [] n > 1 /\ word(1) = "operand" /\ word(2) = "="  /\ n = 3 -> Equal(side(1), side(3))
        [] n > 1 /\ word(1) = "operand" /\ word(2) = "<>" /\ n = 3 -> NotOf(Equal(side(1), side(3)))
        [] n > 1 /\ word(1) = "operand" /\ word(2) = "is null"     -> Truth(side(1) = Null)
        [] n > 1 /\ word(1) = "operand" /\ word(2) = "is not null" -> Truth(side(1) # Null)
        [] n > 3 /\ word(2) = "in"     /\ at("or") \cup at("and") = {} -> OneOf(side(1), list)
        [] n > 3 /\ word(2) = "not in" /\ at("or") \cup at("and") = {} -> NotOf(OneOf(side(1), list))

(* A tree of conditions, the calls that build it, and what is meant by it.  *)
RECURSIVE Build(_)
Build(tree) ==
  CASE tree.op \in {"=", "<>"}     -> BinaryCondition(tree.column, tree.op, tree.with)
    [] tree.op \in {"in", "not in"} -> InArrayCondition(tree.column, tree.values, tree.op = "not in")
    [] tree.op = "is null"         -> IsNull(tree.column)
    [] tree.op = "is not null"     -> IsNotNull(tree.column)
    [] tree.op = "not"             -> Not(Build(tree.of))
    [] tree.op \in {"and", "or"}   ->
         CombineConditions(tree.op, [i \in DOMAIN tree.of |-> Build(tree.of[i])])

RECURSIVE Meant(_, _)
Meant(tree, row) ==
  LET with == IF IsSql(tree.with) THEN row[tree.with.sql[1].id] ELSE SerializeSqlValue(tree.with.value)
      each == [i \in DOMAIN tree.of |-> Meant(tree.of[i], row)]
  IN  CASE tree.op = "="           -> Equal(row[tree.column], with)
        [] tree.op = "<>"          -> NotOf(Equal(row[tree.column], with))
        [] tree.op = "in"          -> OneOf(row[tree.column], tree.values)
        [] tree.op = "not in"      -> NotOf(OneOf(row[tree.column], tree.values))
        [] tree.op = "is null"     -> Truth(row[tree.column] = Null)
        [] tree.op = "is not null" -> Truth(row[tree.column] # Null)
        [] tree.op = "not"         -> NotOf(Meant(tree.of, row))
        [] tree.op = "and"         -> FoldLeft(AndOf, "true", each)
        [] tree.op = "or"          -> FoldLeft(OrOf, "false", each)

(* Whatever dialect it is rendered for and whatever stands around it, a     *)
(* condition selects the rows it says: every value arrives as the parameter *)
(* of its own placeholder, and the parentheses are where they must be.      *)
ConditionsMeanWhatTheySay(table, tree, values, dialect, row) ==
  \A condition \in {Build(tree)} :
  LET where(sql) == LET bound == Bound(NormalizeSqlInput("sql", sql, <<>>, dialect))
                        from == SelectInSeq(bound, LAMBDA t : t = Raw("where")[1])
                        to == SelectInSeq(bound, LAMBDA t : t = Raw("limit")[1])
                    IN  SubSeq(bound, from + 1, IF to = 0 THEN Len(bound) ELSE to - 1)
      select == SelectSql([table |-> table.name, projection |-> <<>>, condition |-> condition,
        joins |-> <<[kind |-> "left join", table |-> table.name, on |-> condition]>>,
        order |-> <<>>, limit |-> 2, offset |-> 2])
      update == UpdateSql(table, values, condition, FALSE, NoReturning)
  IN  ~IsRefused(condition) =>
        /\ Meaning(where(select), row) = Meant(tree, row)
        /\ Defined(values) # {} => Meaning(where(update), row) = Meant(tree, row)
        /\ Meaning(where(DeleteSql(table, condition, FALSE, NoReturning)), row) = Meant(tree, row)

(* No update or delete without a condition touches all rows unasked, and    *)
(* what is inserted arrives under the names the snapshot has for its        *)
(* columns, as long as none was named: the cells of a row are its values,   *)
(* NULL where another row has a value and it has none, and a column no row  *)
(* has is left to the database.                                             *)
InsertedArrives(table, rows, dialect) ==
  \A bound \in {Bound(RenderSql(InsertSql(table, rows, AllColumns), dialect))},
     names \in {InsertColumnNames(table, rows)},
     snapshot \in {CreateSchemaSnapshot(<<table>>, Unset)} :
  LET operands == SelectSeq(bound, IsParam)
      cell(r, i) == operands[(r - 1) * Len(names) + i].param
  IN  /\ \A r \in DOMAIN rows : UpdateSql(table, rows[r], <<>>, FALSE, AllColumns) = Refused
      /\ DeleteSql(table, <<>>, FALSE, NoReturning) = Refused
      /\ table # NoTable /\ snapshot # NoSnapshot /\ ~IsRefused(bound)
         /\ (\A i \in DOMAIN table.columns : table.columns[i].name = table.columns[i].property) =>
           /\ ToSet(names) \subseteq ColumnNames(snapshot.tables[1])
           /\ ToSet(names) = UNION {Defined(rows[r]) : r \in DOMAIN rows}
           /\ \A r \in DOMAIN rows, i \in DOMAIN names :
                cell(r, i) = IF names[i] \in Defined(rows[r]) THEN rows[r][names[i]] ELSE Null

(* A table that is accepted has a snapshot that says the same of each       *)
(* column, the keys and the references included.                            *)
SnapshotSaysTheSame(table) ==
  \A snapshot \in {CreateSchemaSnapshot(<<table>>, "postgres")} :
  LET t == snapshot.tables[1]
  IN  table # NoTable /\ snapshot # NoSnapshot =>
        /\ TableSnapshotKey(t) = <<Or(table.schema, ""), table.name>>
        /\ \A i \in DOMAIN table.columns : LET c == table.columns[i] IN
             /\ t.columns[i].name = c.name /\ t.columns[i].nullable = c.nullable
             /\ c.primaryKey <=> t.primaryKey # NoColumns /\ c.name \in ToSet(t.primaryKey)
             /\ c.unique <=> \E u \in ToSet(t.uniqueConstraints) : u.columns = <<c.name>>
             /\ c.references # NoReference <=> \E f \in ToSet(t.foreignKeys) : f.columns = <<c.name>>
=============================================================================
