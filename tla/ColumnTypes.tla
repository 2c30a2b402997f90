----------------------------- MODULE ColumnTypes -----------------------------
(***************************************************************************)
(* What type a column gets, from the SQL type, the overrides and the        *)
(* nullability overrides of the options, and what becomes of that type when *)
(* a result is given the class of a table (overrides.go, nullability.go,    *)
(* makePythonType and buildQueries of builders.go, importer.go).            *)
(*                                                                         *)
(* The table t of the default schema has the column a.  One query reads one *)
(* column of interest: t.a, perhaps under another name, or something else.  *)
(* All other columns of the result match the table.                         *)
(*                                                                         *)
(* A pattern is the set of names it matches.                                *)
(***************************************************************************)
EXTENDS Naturals, Sequences, SequencesExt

CONSTANTS
  OverrideSpecs,     \* the overrides an option list is made of
  NullabilitySpecs,  \* the same for nullability overrides
  MaxSpecs           \* bound on the length of each list

VARIABLES
  driver,
  overrides, nullabilities,  \* the lists, in the order of the options
  tableNotNull,              \* NOT NULL of t.a
  column,                    \* the column of the query
  field,                     \* the type of t.a in the model, when built
  ret,                       \* the type of the column in the query
  reuses,                    \* the result is the model itself
  binds,                     \* the module that ret's type name is imported from
  status

vars == <<driver, overrides, nullabilities, tableNotNull, column, field, ret, reuses, binds, status>>
input == <<driver, overrides, nullabilities, tableNotNull, column>>

Default == "public"

\* A part of a name, of a column or of an override, that is not there.
Absent == ""

Table(schema, name) == [catalog |-> Absent, schema |-> schema, name |-> name]
NoTable == Table(Absent, Absent)

Column(name, original, table, dbType, notNull) ==
  [name |-> name, original |-> original, table |-> table, dbType |-> dbType, notNull |-> notNull]

\* t.a in the catalog; in a query it may come without its schema or under an
\* alias, and be nullable by an outer join.
TableColumn == Column("a", Absent, Table(Default, "t"), "jsonb", tableNotNull)

QueryColumns ==
  {Column(n, "a", Table(s, "t"), "jsonb", nn) : n \in {"a", "b"}, s \in {Absent, Default}, nn \in BOOLEAN}
  \cup {Column("a", o, tb, d, FALSE) :
          o \in {Absent, "b"}, tb \in {NoTable, Table(Absent, "t"), Table("other", "t"), Table(Absent, "u")}, d \in {"jsonb", "text"}}

None == [type |-> Absent, nullable |-> FALSE, override |-> 0]

Lists(S) == UNION {[1..n -> S] : n \in 0..MaxSpecs}

Init ==
  /\ driver \in {"sqlite3", "aiosqlite", "asyncpg", "sqlalchemy"}
  /\ overrides \in Lists(OverrideSpecs) /\ nullabilities \in Lists(NullabilitySpecs)
  /\ tableNotNull \in BOOLEAN
  /\ column \in {c \in QueryColumns : c.notNull => tableNotNull}
  /\ field = None /\ ret = None /\ reuses = FALSE /\ binds = Absent
  /\ status = "options"

-----------------------------------------------------------------------------
(* ParseConfig and ValidateConf. *)

\* Override.parse: [catalog.][schema.]table.column, or a database type.
OverrideAccepted(o) ==
  /\ (o.column = <<>>) # (o.dbType = Absent)
  /\ o.column # <<>> => Len(o.column) \in 2..4

\* NullabilityOverride.parse: [schema.][table.]column.
NullabilityAccepted(n) == Len(n.column) \in 1..3

\* validateValidateKnob.
KnobAccepted(os) ==
  \A i, j \in 1..Len(os) :
    os[i].validate =>
      /\ driver = "sqlalchemy"
      /\ os[j].validate /\ os[i].type = os[j].type => os[i].module = os[j].module

OptionsAccepted ==
  /\ \A i \in 1..Len(overrides) : OverrideAccepted(overrides[i])
  /\ \A i \in 1..Len(nullabilities) : NullabilityAccepted(nullabilities[i])
  /\ \A i, j \in 1..Len(nullabilities) :
       nullabilities[i].column = nullabilities[j].column => i = j
  /\ KnobAccepted(overrides)

Configure ==
  /\ status = "options"
  /\ status' = IF OptionsAccepted THEN "ready" ELSE "refused"
  /\ UNCHANGED <<input, field, ret, reuses, binds>>

-----------------------------------------------------------------------------
(* makePythonType. *)

Schema(tb) == IF tb.schema = Absent THEN Default ELSE tb.schema

\* The pattern of the part that is k before the last; a missing schema is the
\* default one.
Part(parts, k) == parts[Len(parts) - k]

\* A bug it could have: a table without a schema matched as it is.
OverrideMatchesRaw(o, tb) ==
  /\ tb # NoTable
  /\ tb.name \in Part(o.column, 1)
  /\ tb.schema \in IF Len(o.column) >= 3 THEN Part(o.column, 2) ELSE {Default}
  /\ Len(o.column) = 4 => tb.catalog \in Part(o.column, 3)

\* Override.Matches.
OverrideMatches(o, tb) ==
  /\ tb # NoTable
  /\ tb.name \in Part(o.column, 1)
  /\ Schema(tb) \in IF Len(o.column) >= 3 THEN Part(o.column, 2) ELSE {Default}
  /\ Len(o.column) = 4 => tb.catalog \in Part(o.column, 3)

\* An override goes by the name of the source.
SourceName(c) == IF c.original # Absent THEN c.original ELSE c.name

Applies(o, c) ==
  /\ o.type # Absent
  /\ \/ o.column # <<>> /\ SourceName(c) \in Last(o.column) /\ OverrideMatches(o, c.table)
     \/ o.dbType # Absent /\ o.dbType = c.dbType

\* A bug it could have: going by the name of the source here, too.
NullabilityMatchesSource(n, c) ==
  /\ SourceName(c) \in Last(n.column)
  /\ Len(n.column) >= 2 => c.table # NoTable /\ c.table.name \in Part(n.column, 1)
  /\ Len(n.column) = 3 => Schema(c.table) \in Part(n.column, 2)

\* NullabilityOverride.Matches goes by the name the caller sees.
NullabilityMatches(n, c) ==
  /\ c.name \in Last(n.column)
  /\ Len(n.column) >= 2 => c.table # NoTable /\ c.table.name \in Part(n.column, 1)
  /\ Len(n.column) = 3 => Schema(c.table) \in Part(n.column, 2)

\* makePythonTypeRaw, then applyNullabilityOverride: the first override that
\* applies, and the first nullability override that matches, decide.
PythonType(c) ==
  LET o == SelectInSeq(overrides, LAMBDA x : Applies(x, c))
      n == SelectInSeq(nullabilities, LAMBDA x : NullabilityMatches(x, c))
  IN [type     |-> IF o = 0 THEN c.dbType ELSE overrides[o].type,
      nullable |-> IF n = 0 THEN ~c.notNull ELSE nullabilities[n].nullable,
      override |-> o]

\* buildTable.
BuildTable ==
  /\ status = "ready"
  /\ field' = PythonType(TableColumn)
  /\ status' = "table"
  /\ UNCHANGED <<input, ret, reuses, binds>>

\* buildQueries: the class of a table is taken for a result whose columns have its
\* names, its types and its table.
BuildQuery ==
  /\ status = "table"
  /\ ret' = PythonType(column)
  /\ reuses' = /\ column.name = TableColumn.name
               /\ ret'.type = field.type
               /\ column.table.name = "t" /\ Schema(column.table) = Default
  /\ status' = "query"
  /\ UNCHANGED <<input, field, binds>>

\* queryImportSpecs: the overrides go into a map by the name of their type.
LastNamed(S) ==
  LET named == {i \in 1..Len(overrides) : overrides[i].type = ret.type /\ overrides[i] \in S}
  IN IF named = {} THEN Absent ELSE overrides[CHOOSE i \in named : \A j \in named : j <= i].module

\* A bug it could have: the override of the adapter not written again.
ModuleOnce == LastNamed(OverrideSpecs)

\* queryImports writes those of the validated types again.
Module ==
  IF ret.override # 0 /\ overrides[ret.override].validate
  THEN LastNamed({o \in OverrideSpecs : o.validate})
  ELSE LastNamed(OverrideSpecs)

ImportType ==
  /\ status = "query"
  /\ binds' = Module
  /\ status' = "imported"
  /\ UNCHANGED <<input, field, ret, reuses>>

Next == Configure \/ BuildTable \/ BuildQuery \/ ImportType

Spec == Init /\ [][Next]_vars

-----------------------------------------------------------------------------
(* Properties *)

\* The type invariant.
TypeOK ==
  /\ status \in {"options", "refused", "ready", "table", "query", "imported"}
  /\ field.override \in 0..Len(overrides) /\ ret.override \in 0..Len(overrides)
  /\ ret.override # 0 => field # None
  /\ binds # Absent => status = "imported"

\* A column keeps the type of its source: t.a has in every query, under any
\* alias and with or without its schema, the type and the override it has in
\* the model (builders.go:86-92), so a plain result can be the model.
TypeFollowsSource ==
  status \in {"query", "imported"} /\ column.original = "a" =>
    /\ ret.type = field.type /\ ret.override = field.override
    /\ column.name = "a" => reuses

\* The model that a result is given says of NULL what the query says, whatever is
\* forced by name or by table (nullability.go:86-93). A column that is nullable in
\* the query only, by an outer join, is left out: the comparison does not look
\* at it (builders.go:346-355).
ReuseKeepsNullability ==
  reuses /\ column.notNull = tableNotNull => ret.nullable = field.nullable

\* README.md:341: the adapter of a validated column validates against the type of
\* its own override, whatever other overrides use the name of that type.
ValidatedTypeBound ==
  status = "imported" /\ ret.override # 0 =>
    LET o == overrides[ret.override] IN o.validate => binds = o.module
=============================================================================
