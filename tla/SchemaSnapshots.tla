--------------------------- MODULE SchemaSnapshots ---------------------------
(***************************************************************************)
(* packages/data/schema/mod.ts: the validation, the canonical form and the *)
(* difference of schema snapshots.  An optional field that is not there is  *)
(* Unset, a list that is not there is empty; metadata is left out.          *)
(***************************************************************************)
EXTENDS Integers, SequencesExt, FiniteSetsExt

Unset == "unset"
NoColumns == <<Unset>>    \* a list of columns that is not there
NoReference == [table |-> Unset]
NoSnapshot == [version |-> 0]

(* localeCompare, on the names there are. *)
Alphabet == <<"", "a", "b", "c", "d", "e">>
Rank(name) == SelectInSeq(Alphabet, LAMBDA n : n = name)
Before(k, l) ==
  \/ \E i \in DOMAIN k \cap DOMAIN l :
       SubSeq(k, 1, i - 1) = SubSeq(l, 1, i - 1) /\ Rank(k[i]) < Rank(l[i])
  \/ IsStrictPrefix(k, l)

(* Array.prototype.sort is stable. *)
StableSort(s, Key(_)) ==
  FoldLeft(LAMBDA sorted, x :
             LET n == Len(SelectSeq(sorted, LAMBDA y : ~Before(Key(x), Key(y)))) IN
               InsertAt(sorted, n + 1, x),
           <<>>, s)

-----------------------------------------------------------------------------
(* compareNamed: by name, or by the columns where there is no name; a check *)
(* constraint has no columns.                                               *)
Or(value, default) == IF value = Unset THEN default ELSE value
NamedKey(c) == IF c.name # Unset THEN <<c.name>> ELSE c.columns

(* normalizeTableSnapshot and its parts: constraints in order, columns left *)
(* in theirs.                                                               *)
NormalizeTableSnapshot(table) ==
  [table EXCEPT !.indexes = StableSort(@, NamedKey),
                !.uniqueConstraints = StableSort(@, NamedKey),
                !.foreignKeys = StableSort(@, NamedKey),
                !.checks = StableSort(@, NamedKey)]

TableSnapshotKey(table) == <<Or(table.schema, ""), table.name>>

NormalizeSchemaSnapshot(snapshot) ==
  [snapshot EXCEPT !.tables =
     StableSort([i \in DOMAIN @ |-> NormalizeTableSnapshot(@[i])], TableSnapshotKey)]

(* JSON keeps all that is left, in order. *)
SerializeSchemaSnapshot(snapshot) == NormalizeSchemaSnapshot(snapshot)
EqualSchemaSnapshots(a, b) == SerializeSchemaSnapshot(a) = SerializeSchemaSnapshot(b)

-----------------------------------------------------------------------------
(* validateColumnList: the issues of the columns a constraint names.        *)
ValidateColumnList(names, columns) ==
  CASE names = NoColumns -> {}
    [] names = <<>> -> {"SCHEMA_INVALID_CONSTRAINT"}
    [] OTHER -> IF ToSet(names) \subseteq columns THEN {} ELSE {"SCHEMA_UNKNOWN_COLUMN"}

Repeated(s, Key(_)) == \E i, j \in DOMAIN s : i # j /\ Key(s[i]) = Key(s[j])
Named(s) == SelectSeq(s, LAMBDA x : x.name # "")

(* validateTable *)
ValidateTable(table) ==
  LET named == Named(table.columns)
      name(c) == c.name
      columns == {named[i].name : i \in DOMAIN named}
      lists == table.indexes \o table.uniqueConstraints \o table.foreignKeys
  IN  (IF named = table.columns /\ \A i \in DOMAIN named : named[i].type # ""
       THEN {} ELSE {"SCHEMA_INVALID_COLUMN"})
      \cup (IF Repeated(named, name) THEN {"SCHEMA_DUPLICATE_COLUMN"} ELSE {})
      \cup ValidateColumnList(table.primaryKey, columns)
      \cup UNION {ValidateColumnList(lists[i].columns, columns) : i \in DOMAIN lists}

(* validateForeignKeyTargets: a table that is not in the snapshot is left   *)
(* to the database.                                                         *)
ColumnNames(table) == {table.columns[i].name : i \in DOMAIN table.columns}
Targets(table) ==
  {[table |-> c.references.table, columns |-> <<c.references.column>>] :
     c \in {c \in ToSet(table.columns) : c.references # NoReference}}
  \cup {[table |-> f.references.table, columns |-> f.references.columns] :
          f \in ToSet(table.foreignKeys)}

ValidateForeignKeyTargets(table, tables) ==
  IF \A t \in Targets(table) : \A target \in tables :
       TableSnapshotKey(target) = t.table => ToSet(t.columns) \subseteq ColumnNames(target)
  THEN {} ELSE {"SCHEMA_UNKNOWN_TARGET"}

(* validateSchemaSnapshot; of two tables with one key the last is a target.  *)
LastOfKeys(tables) ==
  {tables[i] : i \in {i \in DOMAIN tables :
     \A j \in i + 1 .. Len(tables) : TableSnapshotKey(tables[j]) # TableSnapshotKey(tables[i])}}

ValidateSchemaSnapshot(snapshot) ==
  LET named == Named(snapshot.tables) IN
    (IF snapshot.version = 1 THEN {} ELSE {"SCHEMA_INVALID_VERSION"})
    \cup (IF snapshot.dialect \in {Unset, "generic", "postgres", "sqlite", "mysql"}
          THEN {} ELSE {"SCHEMA_INVALID_DIALECT"})
    \cup (IF named = snapshot.tables THEN {} ELSE {"SCHEMA_INVALID_TABLE"})
    \cup (IF Repeated(named, TableSnapshotKey) THEN {"SCHEMA_DUPLICATE_TABLE"} ELSE {})
    \cup (UNION {ValidateTable(named[i]) : i \in DOMAIN named})
    \cup (UNION {ValidateForeignKeyTargets(snapshot.tables[i], LastOfKeys(named)) :
                   i \in DOMAIN snapshot.tables})

(* assertValidSchemaSnapshot throws where this gives NoSnapshot.            *)
DefineSchemaSnapshot(snapshot) ==
  IF ValidateSchemaSnapshot(NormalizeSchemaSnapshot(snapshot)) = {}
  THEN NormalizeSchemaSnapshot(snapshot) ELSE NoSnapshot
DeserializeSchemaSnapshot(json) == DefineSchemaSnapshot(json)

-----------------------------------------------------------------------------
(* diffColumns and diffSchemaSnapshots.                                     *)
NotIn(s, t, Key(_)) == SelectSeq(s, LAMBDA x : \A i \in DOMAIN t : Key(t[i]) # Key(x))
Changes(s, t, Key(_)) ==
  {[from |-> c[1], to |-> c[2]] : c \in
     {p \in ToSet(s) \X ToSet(t) : Key(p[1]) = Key(p[2]) /\ p[1] # p[2]}}

DiffColumns(from, to) ==
  LET name(c) == c.name IN
    [added |-> ToSet(NotIn(to, from, name)), removed |-> ToSet(NotIn(from, to, name)),
     changed |-> Changes(from, to, name)]

DiffTables(old, new) ==
  [addedTables   |-> ToSet(NotIn(new, old, TableSnapshotKey)),
   removedTables |-> ToSet(NotIn(old, new, TableSnapshotKey)),
   changedTables |-> {[from |-> c.from, to |-> c.to,
                       columns |-> DiffColumns(c.from.columns, c.to.columns)] :
                        c \in Changes(old, new, TableSnapshotKey)}]
DiffSchemaSnapshots(from, to) ==
  DiffTables(NormalizeSchemaSnapshot(from).tables, NormalizeSchemaSnapshot(to).tables)

IsEmptySchemaSnapshotDiff(diff) ==
  UNION {diff.addedTables, diff.removedTables, diff.changedTables} = {}

-----------------------------------------------------------------------------
(* A valid snapshot comes back from its JSON, and one that has the same     *)
(* tables and constraints in another order has the same JSON, as long as no *)
(* two constraints of a table share name and columns.                       *)
Reversed(snapshot) ==
  [snapshot EXCEPT !.tables = Reverse(
     [i \in DOMAIN @ |-> [@[i] EXCEPT !.indexes = Reverse(@),
                                      !.uniqueConstraints = Reverse(@),
                                      !.foreignKeys = Reverse(@), !.checks = Reverse(@)]])]

SnapshotsAreCanonical(snapshot) ==
  LET json == SerializeSchemaSnapshot(snapshot) IN
    ValidateSchemaSnapshot(snapshot) = {} =>
      /\ DeserializeSchemaSnapshot(json) = json
      /\ EqualSchemaSnapshots(json, snapshot)
      /\ (\A i \in DOMAIN snapshot.tables : LET t == snapshot.tables[i] IN
            ~Repeated(t.indexes, NamedKey) /\ ~Repeated(t.uniqueConstraints, NamedKey)
            /\ ~Repeated(t.foreignKeys, NamedKey) /\ ~Repeated(t.checks, NamedKey))
           => EqualSchemaSnapshots(Reversed(snapshot), snapshot)

(* In a valid snapshot every name means one thing that is there.            *)
ValidSnapshotsHangTogether(snapshot) ==
  ValidateSchemaSnapshot(snapshot) = {} =>
    \A i, j \in DOMAIN snapshot.tables :
      LET t == snapshot.tables[i]
          u == snapshot.tables[j]
      IN  /\ TableSnapshotKey(t) = TableSnapshotKey(u) => i = j
          /\ \A k \in DOMAIN t.indexes : ToSet(t.indexes[k].columns) \subseteq ColumnNames(t)
          /\ \A f \in ToSet(t.foreignKeys) : f.references.table = TableSnapshotKey(u) =>
               ToSet(f.references.columns) \subseteq ColumnNames(u)

(* The difference of two valid snapshots leads from one to the other, and   *)
(* is empty exactly when they are equal.                                    *)
Without(tables, changes) == tables \ {c.from : c \in changes}
DiffLeadsThere(from, to) ==
  LET set(s) == ToSet(NormalizeSchemaSnapshot(s).tables) IN
    {ValidateSchemaSnapshot(from), ValidateSchemaSnapshot(to)} = {{}} =>
      \A diff \in {DiffSchemaSnapshots(from, to)} :
        /\ set(to) = (Without(set(from), diff.changedTables) \ diff.removedTables)
             \cup diff.addedTables \cup {c.to : c \in diff.changedTables}
        /\ \A c \in diff.changedTables :
             ToSet(c.to.columns) =
               (Without(ToSet(c.from.columns), c.columns.changed) \ c.columns.removed)
                 \cup c.columns.added \cup {d.to : d \in c.columns.changed}
        /\ from.dialect = to.dialect /\ from.version = to.version =>
             (IsEmptySchemaSnapshotDiff(diff) <=> EqualSchemaSnapshots(from, to))
=============================================================================
