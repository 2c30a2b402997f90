----------------------------- MODULE RowDecoding -----------------------------
(***************************************************************************)
(* How a row of the database becomes the value a query function returns.    *)
(* Generation writes one expression per field, walking the columns of the    *)
(* result with a running row index; at run time each expression reads its    *)
(* position of a row and may convert it (the `:one' and `:many' branches of  *)
(* drivers/*.go, sqlalchemyRowKwargs and its helpers).                       *)
(*                                                                         *)
(* A result column is a column of its own or an embedded model (sqlc.embed)  *)
(* that stands for one position of the row per field of the model.           *)
(*                                                                         *)
(* External: the row that the database returns, with one value per position. *)
(***************************************************************************)
EXTENDS Naturals, Sequences, SequencesExt

CONSTANTS
  MaxColumns,    \* bound on the columns of one result
  MaxEmbedded    \* bound on the fields of an embedded model

VARIABLES
  driver,   \* the configured driver
  shape,    \* "struct", or for one column that is not embedded "scalar" or "array"
  columns,  \* the result: for each column the types of its fields
  next,     \* the column the writer is at
  rowIdx,   \* the running row index
  reads,    \* the expressions written, in order
  adapters, \* the types whose validating adapter the module declares
  row,      \* a row of the database: "NULL" or "value" at each position
  fields,   \* what the fields of the returned object hold
  status

vars == <<driver, shape, columns, next, rowIdx, reads, adapters, row, fields, status>>
input == <<driver, shape, columns>>

-----------------------------------------------------------------------------
(* The result of a query. *)

\* What PyType says of a field: an override, perhaps with validate: true, and
\* whether asyncpg's own table converts the SQL type (bytes, addresses).
FieldType == [override : {"none", "type", "validated"}, byTable : BOOLEAN, nullable : BOOLEAN]

\* validate: true is refused for the other drivers (config.go); only asyncpg reads
\* with its table.
Possible(d, t) ==
  /\ t.override = "validated" => d = "sqlalchemy"
  /\ t.byTable => d = "asyncpg"

Column == [embed : BOOLEAN, types : UNION {[1..n -> FieldType] : n \in 1..MaxEmbedded}]
Plain(c) == ~c.embed
Positions == FlattenSeq([i \in 1..Len(columns) |-> columns[i].types])

Columns(d) == {c \in Column : /\ Plain(c) => Len(c.types) = 1
                              /\ \A i \in 1..Len(c.types) : Possible(d, c.types[i])}

\* An array is told apart where the code does: in the result type of a scalar, which
\* only sqlalchemy names something after.
Shapes(d, cs) ==
  IF Len(cs) # 1 \/ cs[1].embed THEN {"struct"}
  ELSE IF d = "sqlalchemy" THEN {"struct", "scalar", "array"} ELSE {"struct", "scalar"}

Init ==
  /\ driver \in {"sqlite3", "aiosqlite", "asyncpg", "sqlalchemy"}
  /\ columns \in UNION {[1..n -> Columns(driver)] : n \in 1..MaxColumns}
  /\ shape \in Shapes(driver, columns)
  /\ next = 1 /\ rowIdx = 0
  /\ reads = <<>> /\ adapters = {} /\ row = <<>> /\ fields = <<>>
  /\ status = "writing"

-----------------------------------------------------------------------------
(* One field: its expression.  `guard' is `if row[n] is not None else None'.   *)
(* A validating read names an adapter, `_<type>_adapter'; `wrapped' says that   *)
(* the type it is named after is `list[T]' or a Sequence, not T.              *)

Reads(t, n, converts, guarded) ==
  [index   |-> n,
   call    |-> IF ~converts THEN "none" ELSE IF t.override = "validated" THEN "validate" ELSE "type",
   guard   |-> converts /\ t.nullable /\ guarded,
   wrapped |-> shape = "array"]

\* A bug it could have: converting what the column may be NULL for.
FieldReadUnguarded(t, n) == Reads(t, n, t.override # "none" \/ t.byTable, FALSE)

\* sqlalchemyColKwarg; the struct branches of asyncpg.go and of the sqlite drivers.
FieldRead(t, n) ==
  Reads(t, n, t.override # "none" \/ t.byTable, driver \in {"asyncpg", "sqlalchemy"})

\* A single column.  The type buildPyQueriesFile hands to asyncpg has the SQL type
\* and no override, so only the table converts; sqlite asks the column itself;
\* sqlalchemy returns an override as it is and validates with the guard, by the
\* adapter of the result type, which has the list wrapper of an array.
ScalarRead(t) ==
  Reads(t, 0,
        CASE driver = "sqlalchemy" -> t.override = "validated"
          [] driver = "asyncpg"    -> t.byTable
          [] OTHER                 -> t.override = "type",
        driver = "sqlalchemy")

\* A bug it could have: the row index of a column is its loop position.
WriteColumnAtItsPosition ==
  /\ status = "writing" /\ shape = "struct" /\ next <= Len(columns)
  /\ LET c == columns[next] IN
       /\ reads' = reads \o [k \in 1..Len(c.types) |-> FieldRead(c.types[k], next + k - 2)]
       /\ rowIdx' = rowIdx + Len(c.types)
  /\ next' = next + 1
  /\ UNCHANGED <<input, adapters, row, fields, status>>

\* One column of a struct: an embedded one writes all its fields.
WriteColumn ==
  /\ status = "writing" /\ shape = "struct" /\ next <= Len(columns)
  /\ LET c == columns[next] IN
       /\ reads' = reads \o [k \in 1..Len(c.types) |-> FieldRead(c.types[k], rowIdx + k - 1)]
       /\ rowIdx' = rowIdx + Len(c.types)
  /\ next' = next + 1
  /\ UNCHANGED <<input, adapters, row, fields, status>>

WriteScalar ==
  /\ status = "writing" /\ shape # "struct" /\ next = 1
  /\ reads' = <<ScalarRead(columns[1].types[1])>>
  /\ rowIdx' = 1 /\ next' = 2
  /\ UNCHANGED <<input, adapters, row, fields, status>>

\* A bug it could have: looking at the columns and not into the embedded ones.
OwnValidatedTypes ==
  {p \in 1..Len(Positions) :
     /\ Positions[p].override = "validated"
     /\ \E i \in 1..Len(columns) :
          Plain(columns[i]) /\ p = 1 + Len(FlattenSeq([k \in 1..(i - 1) |-> columns[k].types]))}

\* ValidatedResultTypes descends into embedded models, and gives the types without
\* any wrapper.  The type of each position is taken to be its own.
ValidatedResultTypes == {p \in 1..Len(Positions) : Positions[p].override = "validated"}

DeclareAdapters ==
  /\ status = "writing" /\ next > Len(columns)
  /\ adapters' = IF driver = "sqlalchemy" THEN ValidatedResultTypes ELSE {}
  /\ status' = "written"
  /\ UNCHANGED <<input, next, rowIdx, reads, row, fields>>

\* Each adapter that is named is one that the module declares.
AdapterDeclared(e) == ~e.wrapped /\ e.index + 1 \in adapters

\* `_list[T]_adapter' is no name: Python does not load a module that has it.
Loads == \A k \in 1..Len(reads) : reads[k].call = "validate" => ~reads[k].wrapped

-----------------------------------------------------------------------------
(* A row is read.  Validation may refuse a value, which raises; so does a call  *)
(* with None.                                                                *)

Decode(e, r) ==
  LET v == r[e.index + 1]
  IN IF e.call = "none" THEN {<<v, e.index>>}
     ELSE CASE v = "NULL" /\ e.guard  -> {<<"NULL", e.index>>}
            [] v = "NULL" /\ ~e.guard -> {<<"CalledWithNone", e.index>>}
            [] v # "NULL" /\ e.call = "type" -> {<<"converted", e.index>>}
            [] v # "NULL" /\ e.call = "validate" ->
                 IF AdapterDeclared(e) THEN {<<"validated", e.index>>, <<"refused", e.index>>}
                 ELSE {<<"NameError", e.index>>}

ReadRow ==
  /\ status = "written" /\ Loads
  /\ row' \in {r \in [1..Len(Positions) -> {"NULL", "value"}] :
                 \A p \in 1..Len(Positions) : r[p] = "NULL" => Positions[p].nullable}
  /\ fields' \in {f \in [1..Len(reads) -> UNION {Decode(reads[k], row') : k \in 1..Len(reads)}] :
                    \A k \in 1..Len(reads) : f[k] \in Decode(reads[k], row')}
  /\ status' = "read"
  /\ UNCHANGED <<input, next, rowIdx, reads, adapters>>

\* `:one' without a row: `if row is None: return None'.
NoRow ==
  /\ status = "written" /\ Loads
  /\ status' = "no row"
  /\ UNCHANGED <<input, next, rowIdx, reads, adapters, row, fields>>

Next == WriteColumn \/ WriteScalar \/ DeclareAdapters \/ ReadRow \/ NoRow

Spec == Init /\ [][Next]_vars

-----------------------------------------------------------------------------
(* Properties *)

\* The type invariant: the writer has given each position before rowIdx one
\* expression.
TypeOK ==
  /\ shape # "struct" => Len(columns) = 1
  /\ next \in 1..(Len(columns) + 1)
  /\ rowIdx = Len(reads) /\ rowIdx <= Len(Positions)
  /\ adapters \subseteq 1..Len(Positions)
  /\ status \in {"writing", "written", "read", "no row"}

\* Every field holds the value of its own position, whatever mix of plain and
\* embedded columns came before it (README.md:74, "A `sqlc.embed` row is
\* constructed with a correct running row index").
FieldsAligned ==
  status = "read" =>
    /\ Len(fields) = Len(Positions)
    /\ \A k \in 1..Len(fields) : fields[k][2] = k - 1

\* A NULL in a nullable column is None in the struct and never a call with None:
\* asyncpg and sqlalchemy. The sqlite drivers and the scalars of asyncpg have no
\* guard, see the hazards.
NullsGuarded ==
  status = "read" /\ (driver = "sqlalchemy" \/ (driver = "asyncpg" /\ shape = "struct")) =>
    \A k \in 1..Len(fields) : row[k] = "NULL" => fields[k][1] = "NULL"

\* validate: true: every value that is read and is not NULL was validated or refused,
\* on every path and inside embedded models (README.md:328), with an adapter that
\* the module declares (models.go:54-57, "so the declaration and the reference
\* always agree").  The code breaks that for one column of a validated array type:
\* its read is named after the wrapped type (sqlalchemy.go:335 with
\* queries.go:66-73), and the module does not load.  Every other module does.
ValidatedOrRefused ==
  /\ status = "written" /\ ~Loads =>
       shape = "array" /\ Positions[1].override = "validated"
  /\ status = "read" =>
       \A k \in 1..Len(fields) :
         Positions[k].override = "validated" /\ row[k] = "value" =>
           fields[k][1] \in {"validated", "refused"}
=============================================================================
