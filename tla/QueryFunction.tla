---------------------------- MODULE QueryFunction ----------------------------
(***************************************************************************)
(* One query function from the options to the rows its caller gets:         *)
(*                                                                         *)
(*   ColumnTypes    the type of a result column, and its import             *)
(*   ParamBinding   the arguments, the written call and what it binds       *)
(*   ManyStatement  how sqlalchemy writes a :one or a :many                 *)
(*   Docstrings     the header of the function and its docstring            *)
(*   RowDecoding    the expressions that read a row, and a row read         *)
(*                                                                         *)
(* The parts share the driver, the command and the parameters; the options   *)
(* decide the type that is decoded; the form of the function decides the     *)
(* return annotation and when the statement runs.  The steps come in the     *)
(* order of Run (gen.go), then of the caller.                               *)
(*                                                                         *)
(* A query varies in one respect: its arguments, its statement, its rows,    *)
(* the type of a column, or its docstring.                                  *)
(***************************************************************************)
EXTENDS Naturals, Sequences

CONSTANTS
  MaxParams, MaxLimit, MaxRecords,             \* of ParamBinding
  CommentWords, MaxCtes,                       \* of ManyStatement
  MaxColumns, MaxEmbedded,                     \* of RowDecoding
  OverrideSpecs, NullabilitySpecs, MaxSpecs    \* of ColumnTypes

ASSUME Bounds == {MaxParams, MaxLimit, MaxRecords, MaxCtes, MaxColumns, MaxEmbedded, MaxSpecs} \subseteq Nat

\* validate and nullable are bool in the options.
ASSUME SpecTypes ==
  /\ \A o \in OverrideSpecs : o.validate \in BOOLEAN
  /\ \A n \in NullabilitySpecs : n.nullable \in BOOLEAN

\* A word is no white space, and does not end the comment it is in.
ASSUME CommentsEnd == CommentWords \cap {"lf", "gap", "*/"} = {}

VARIABLES
  driver, cmd, params,
  overrides, nullabilities, tableNotNull, column, field, ret, reuses, binds, types,
  number, limit, args, call, passed, bound, function,
  statement, marker, writes, runs,
  convention, echo, classes, header, docstring,
  shape, columns, next, rowIdx, reads, adapters, row, fields, decoding

query == <<driver, cmd, params>>
typeVars == <<overrides, nullabilities, tableNotNull, column, field, ret, reuses, binds, types>>
paramVars == <<number, limit, args, call, passed, bound, function>>
manyVars == <<statement, marker, writes, runs>>
docVars == <<convention, echo, classes, header, docstring>>
rowVars == <<shape, columns, next, rowIdx, reads, adapters, row, fields, decoding>>
vars == <<query, typeVars, paramVars, manyVars, docVars, rowVars>>

Types == INSTANCE ColumnTypes WITH status <- types
Params == INSTANCE ParamBinding WITH status <- function
Many == INSTANCE ManyStatement WITH call <- runs
Docs == INSTANCE Docstrings WITH awaits <- writes = "awaited"
Rows == INSTANCE RowDecoding WITH status <- decoding

-----------------------------------------------------------------------------
(* The smallest input of each part. *)

NoOptions ==
  /\ overrides = <<>> /\ nullabilities = <<>> /\ tableNotNull = TRUE
  /\ column = Types!TableColumn
  /\ field = Types!None /\ ret = Types!None /\ reuses = FALSE /\ binds = Types!Absent /\ types = "options"

NoArguments ==
  /\ params = <<>> /\ number = <<>> /\ limit = 0
  /\ args = "none" /\ call = <<>> /\ passed = <<>> /\ bound = <<>> /\ function = "query"

PlainSelect == [lead |-> <<>>, ctes |-> <<>>, body |-> [verb |-> "select", lock |-> <<>>]]
PlainStatement == statement = PlainSelect /\ marker = "none" /\ writes = "nothing" /\ runs = "none"

NoDocstrings ==
  /\ convention = "none" /\ echo = TRUE /\ classes = FALSE
  /\ header = Docs!NoHeader /\ docstring = Docs!NoDocstring

ReturnsRows == cmd \in {"one", "many"}

\* One field, or no columns when the verb returns no rows.
ResultOf(type) ==
  /\ columns = IF ReturnsRows THEN <<[embed |-> FALSE, types |-> <<type>>]>> ELSE <<>>
  /\ shape = "struct" /\ next = 1 /\ rowIdx = 0
  /\ reads = <<>> /\ adapters = {} /\ row = <<>> /\ fields = <<>> /\ decoding = "writing"

PlainResult == ResultOf([override |-> "none", byTable |-> FALSE, nullable |-> FALSE])

\* The field that the type of the column gives.
TypedResult ==
  IF Types!OptionsAccepted
  THEN LET t == Types!PythonType(column)
       IN  ResultOf([override |-> IF t.override = 0 THEN "none"
                                  ELSE IF overrides[t.override].validate THEN "validated" ELSE "type",
                     byTable |-> FALSE, nullable |-> t.nullable])
  ELSE PlainResult

ArgumentsVary ==
  /\ Params!Init
  /\ NoOptions /\ PlainStatement /\ NoDocstrings /\ PlainResult

\* A comment at the start comes with one WITH query at most.
StatementVaries ==
  /\ driver = "sqlalchemy" /\ Many!Init
  /\ statement.lead # <<>> => Len(statement.ctes) <= 1
  /\ NoOptions /\ NoArguments /\ NoDocstrings /\ PlainResult

\* A row is read alike by both verbs.
RowsVary ==
  /\ Rows!Init /\ cmd \in IF Len(columns) = 1 THEN {"one", "many"} ELSE {"one"}
  /\ NoOptions /\ NoArguments /\ PlainStatement /\ NoDocstrings

\* The driver matters to the overrides only.
TypesVary ==
  /\ Types!Init /\ cmd = "one"
  /\ driver = "sqlalchemy" \/ (driver = "asyncpg" /\ nullabilities = <<>>)
  /\ NoArguments /\ PlainStatement /\ NoDocstrings /\ TypedResult

DocstringsVary ==
  /\ Docs!Init
  /\ driver \in Params!Drivers /\ cmd \in Params!Commands
  /\ params \in UNION {[1..n -> {[override |-> FALSE, nullable |-> FALSE]}] : n \in 0..MaxParams}
  /\ number = [i \in DOMAIN params |-> i] /\ limit \in 0..MaxLimit
  /\ args = "none" /\ call = <<>> /\ passed = <<>> /\ bound = <<>> /\ function = "query"
  /\ statement \in {PlainSelect, [PlainSelect EXCEPT !.body.verb = "insert"]}
  /\ marker = "none" /\ writes = "nothing" /\ runs = "none"
  /\ NoOptions /\ PlainResult

Init == ArgumentsVary \/ StatementVaries \/ RowsVary \/ TypesVary \/ DocstringsVary

-----------------------------------------------------------------------------
(* Generation. *)

OnlyTypes == UNCHANGED <<cmd, params, paramVars, manyVars, docVars, rowVars>>

Configure == Types!Configure /\ OnlyTypes
BuildTable == Types!BuildTable /\ OnlyTypes

BuildArgs == types = "table" /\ Params!BuildArgs /\ UNCHANGED <<typeVars, manyVars, docVars, rowVars>>

BuildQuery == function = "args" /\ Types!BuildQuery /\ OnlyTypes

WriteFunction == types = "query" /\ Params!WriteFunction /\ UNCHANGED <<typeVars, manyVars, docVars, rowVars>>

\* SQLAlchemyBuildPyQueryFunc decides the form of these.
Shaped == driver = "sqlalchemy" /\ ReturnsRows
Written == function = "written" /\ (Shaped => writes \notin {"nothing", "refused"})

WriteMany ==
  /\ function = "written" /\ Shaped
  /\ Many!Write /\ UNCHANGED <<driver, params, typeVars, paramVars, docVars, rowVars>>

OnlyDocs == UNCHANGED <<typeVars, number, limit, call, passed, bound, function, manyVars, rowVars>>

WriteHeader == Written /\ header = Docs!NoHeader /\ OnlyDocs /\ Docs!WriteHeader
WriteDocstring == Written /\ docstring = Docs!NoDocstring /\ OnlyDocs /\ Docs!WriteDocstring

Documented == header # Docs!NoHeader /\ (convention = "none" \/ docstring # Docs!NoDocstring)
OnlyRows == UNCHANGED <<cmd, params, typeVars, paramVars, manyVars, docVars>>

WriteColumn == Documented /\ Rows!WriteColumn /\ OnlyRows
WriteScalar == Documented /\ Rows!WriteScalar /\ OnlyRows
DeclareAdapters == Documented /\ Rows!DeclareAdapters /\ OnlyRows

\* The imports of a file are written after its functions are made.
ImportType == decoding = "written" /\ Types!ImportType /\ OnlyTypes

-----------------------------------------------------------------------------
(* The caller.  A row is read once the statement has run. *)

Call ==
  /\ types = "imported" /\ Rows!Loads
  /\ Params!Call
  /\ IF Shaped THEN Many!Call ELSE UNCHANGED manyVars
  /\ UNCHANGED <<typeVars, docVars, rowVars>>

Iterate == Many!Iterate /\ UNCHANGED <<driver, params, typeVars, paramVars, docVars, rowVars>>

Ran == function = "called" /\ ReturnsRows /\ (Shaped => runs = "ran")

ReadRow == Ran /\ Rows!ReadRow /\ OnlyRows
NoRow == Ran /\ Rows!NoRow /\ OnlyRows

Next ==
  \/ Configure \/ BuildTable \/ BuildArgs \/ BuildQuery
  \/ WriteFunction \/ WriteMany \/ WriteHeader \/ WriteDocstring
  \/ WriteColumn \/ WriteScalar \/ DeclareAdapters \/ ImportType
  \/ Call \/ Iterate \/ ReadRow \/ NoRow

Spec == Init /\ [][Next]_vars

-----------------------------------------------------------------------------
(* The properties of the parts, here of a whole function. *)

\* Each part keeps its state well typed, and nothing is decoded that was not
\* written, imported and called for.
TypeOK ==
  /\ Types!TypeOK /\ Params!TypeOK /\ Rows!TypeOK
  /\ ReturnsRows => Many!TypeOK
  /\ decoding \in {"read", "no row"} => function = "called" /\ types = "imported"

\* See ColumnTypes.
TypeFollowsSource == Types!TypeFollowsSource
\* See ColumnTypes.
ReuseKeepsNullability == Types!ReuseKeepsNullability
\* See ColumnTypes.
ValidatedTypeBound == Types!ValidatedTypeBound
\* See ParamBinding.
ArgumentsBound == Params!ArgumentsBound
\* See ManyStatement.
WritesRun == Many!WritesRun
\* See ManyStatement.
ReadsStayIterators == Many!ReadsStayIterators
\* See Docstrings.
DocumentsSignature == Docs!DocumentsSignature
\* See RowDecoding.
FieldsAligned == Rows!FieldsAligned
\* See RowDecoding.
NullsGuarded == Rows!NullsGuarded
\* See RowDecoding.
ValidatedOrRefused == Rows!ValidatedOrRefused
=============================================================================
