# Verification of sqlc-gen-python-arche

`sqlc-gen-python-arche` is a sqlc plugin (a Go program compiled to WASM) that
reads a catalog and a set of queries and writes a Python package: `models.py`,
one module of query functions per SQL file, and `__init__.py`. Two programs
matter for its correctness, and both are modelled here:

- the **generator**, a sequence of passes over its input that may refuse it; and
- the **generated code**, whose `QueryResults` classes keep state across calls
  of tasks, transactions and loops, and whose functions pass arguments to a
  database driver and decode its rows.

The paths below are relative to `src/`, and `internal/` is left out of them where
no confusion is possible.

## 1. Inventory

### Components

| component | source | state | operations | correct when |
|---|---|---|---|---|
| plugin entry, log | `plugin/main.go`, `internal/log/` | a log buffer | `main`, `Logger.Log`, `Print` | (pure I/O) |
| pipeline | `internal/gen.go` | config, the lists of enums, tables and queries, the map of output files | `NewPythonGenerator`, `Run`, `validate`, `filterUnusedStructs` | every query is written once; what a file refers to is defined; collisions are reported; no files come with an error |
| builders | `internal/builders.go` | none but local lists | `buildEnums`, `buildTables`, `buildQueries`, `columnsToStruct`, `checkIncompatibleFieldTypes`, `makePythonType` | one field per column, distinct names, consistent types |
| disambiguator | `core/utils.go` (`NameDisambiguator`) | `seen` per base name, `suffixes` per id | `Next` | two uses of one base get two names; two uses of one placeholder get one |
| options | `core/config.go`, `core/enums.go` | `Config` | `ParseConfig`, `ValidateConf` | no illegal combination goes on |
| text encoding | `core/utils.go` (`PyTripleQuotedText`), `codegen/queries.go` | loop index and quote run | encode a text for a `"""` string | Python reads back the text that was encoded |
| SQL rewrite | `codegen/drivers/sqlalchemy.go` | none | colons, placeholders, header verb | SQLAlchemy sends the SQL of the query, with one parameter per placeholder |
| statement kind | `core/utils.go` (`SQLRootIsDML`), `sqlalchemy.go` | none | choose awaited, buffered or streamed `:many` | a write runs when the function is called; a read is an iterator |
| `QueryResults` of asyncpg | `codegen/drivers/asyncpg.go`, `codegen/builders/query_results.go` | `_cursor`, `_iterator` | `__aiter__`, `__anext__`, `__await__` | each row once and in order, then the stop, then a fresh start |
| `QueryResults` of aiosqlite | `drivers/aiosqlite.go`, `query_results.go` | the same | the same | the same, with several tasks |
| `QueryResults` of sqlite3 | `drivers/sqlite3.go`, `query_results.go` | the same | `__iter__`, `__next__`, `__call__` | the same, with nested and broken-off loops |
| argument passing | the four files of `codegen/drivers/`, `builders.go` | none | shape the arguments, write the call | each placeholder receives the value of its parameter |
| row decoding | the four drivers, `core/models.go` | the running row index | write one expression per field | each field reads its own position, converted or validated as declared, NULL kept |
| importer | `core/importer.go` | import sets per file | `Imports`, `splitTypeChecking`, folding for pydantic | every name a module evaluates at run time is imported at run time |
| nullability, overrides | `core/nullability.go`, `core/overrides.go` | lists of rules | match a column | the rule that the docs say wins, wins |
| types | `internal/types/`, `internal/typeConversion/` | tables | look up a SQL type | (tables) |
| sqlite adapters | `drivers/sqlite3.go`, `aiosqlite.go` | which types occur; at run time, one table for the process | write the registrations of a file header | every type that needs a converter has one |
| names | `inflection/singular.go`, `core/keywords.go`, `core/reserved.go` | word lists | `Singular`, `EscapeFieldName`, ... | (pure functions on strings) |
| docstrings, string builder | `codegen/builders/docstrings.go`, `string.go` | an indented buffer; the convention, set once for the package | write text | a docstring says what the header says; the echo of the SQL is the SQL |

### How they interact

`Generate` parses the options, then `Run` calls the builders, `validate`, the
filter of unused models, and the code generation driver. `columnsToStruct` and
the flat-argument loop each own a disambiguator. The driver asks the importer for
the imports of each file and the SQL driver for the classes and functions, which
it gets as text. Nothing is shared between runs and nothing is persisted: a run
is a function of its request, except that maps are iterated in any order.

In the generated code the caller calls a query function with arguments, which
calls the database library. The `:many` functions of asyncpg, aiosqlite and
sqlite3 return a `QueryResults` object that the caller may hand to several tasks
or loops. Its state is two attributes. Its calls into the library are the
points at which another task runs, a cancellation arrives, or an error comes back.

### What is hard

- **Check, await, assign.** aiosqlite's `__anext__` looks at `_cursor`, awaits
  `execute`, and assigns it afterwards. asyncpg assigns without an await, but its
  cursor depends on a transaction that may end in between.
- **Errors that are not the stop.** Only `StopIteration` or `StopAsyncIteration`
  resets the object. A cancelled fetch, a database error and an exception of the
  decode hook leave the attributes as they are.
- **Order of passes.** Collisions must be looked for before the filter drops one
  side; the filter decides from the queries what models are used; the error of a
  late pass must discard the files of earlier ones.
- **Two computations of one thing.** The suffix of a field comes from one name and
  the field from another; what a file refers to is decided in one place and what is
  defined in another; the adapters a module declares are collected by one walk and
  used by another; which import a module gets is decided apart from which
  annotations are evaluated.
- **Text that other parsers read.** Python reads the string literal, SQLAlchemy the
  value, and a scan for words decides whether a statement writes.

`PROJECT.json` lists each of these hazards at its line, with the property that
would catch it going wrong, or with the reason why no property covers it.

## 2. Modules

| module | models | abstract specification, or what composes it |
|---|---|---|
| `StructBuilder` | the naming loop of `columnsToStruct` and of the flat arguments | `MCStructBuilder` gives the names; `StructBuilderProofs` the theorems |
| `Generator` | one run of the plugin, a pass an action | `MCGenerator` gives the requests; `GeneratorProofs` the theorems |
| `RowIteration` | what iterating a `QueryResults` promises | implemented by the next three |
| `AioQueryResults` | the aiosqlite class under several tasks | `Iteration == INSTANCE RowIteration`; `AioQueryResultsProofs` the theorems |
| `PgQueryResults` | the asyncpg class across tasks and transactions | `Iteration == INSTANCE RowIteration`; `PgQueryResultsProofs` the theorems |
| `SyncQueryResults` | the sqlite3 class under several loops | `Iteration == INSTANCE RowIteration`; `GeneratedFileProofs` the theorems |
| `ColumnTypes` | from the options to the type of a column, and its import | composed by `QueryFunction` |
| `ParamBinding` | from the parameters of a query to what the database is given | composed by `QueryFunction` |
| `ManyStatement` | which form a SQLAlchemy `:many` takes, and what its caller gets | composed by `QueryFunction` |
| `Docstrings` | the header of a function and its docstring | composed by `QueryFunction` |
| `RowDecoding` | from the row of the database to the object returned | composed by `QueryFunction` |
| `QueryFunction` | one query function from the options to a row | `MCQueryFunction` gives the overrides; `QueryFunctionProofs` the theorems |
| `QueryText` | from SQL text through Python to SQLAlchemy | `QueryTextProofs` the theorems |
| `Importer` | the imports of each file, against what Python evaluates on loading and calling | `MCImporter` gives the options and packages; `GeneratedFileProofs` the theorems |
| `SequenceLemmas` | (no code) | the facts about concatenation, flattening, recursive functions and finite sets that the proofs share |

### StructBuilder

One `AddColumn` is one turn of the loop: `NextSuffix` is
`NameDisambiguator.Next` (an id with a recorded suffix keeps it; otherwise a base
name seen `v > 0` times gives the suffix `v + 1`, unless the parameters are
named), `Base` is the name the suffix is computed from, `FieldStem` the name it is
appended to. `Finish` is `checkIncompatibleFieldTypes`, which the flat arguments
do not pass through. A Python name is a stem with a sequence of suffixes, so a
literal `status_2` of the schema and a `status` with suffix 2 are the same
name. `SnakeToCamel`, `Singular` and the escaping of keywords are constant
functions. `ValidInput` says which inputs sqlc passes.

### Generator

The stages are the passes in the order of `Run`: `Configure` (`ParseConfig`,
`ValidateConf`, the engine and driver checks), `Build`, `Validate`, `Filter`,
`EmitModels`, `CheckCommands`, `EmitQueries` (one source file a step, any that is
left: Go map order), `Finish`. Each may end the run with an error. The text of a
file is abstracted to the classes and functions it defines, the queries it
writes and the models it refers to. A class name is a sequence of words, so that
`models.` is its first word when a type is qualified and `GetItemRow` is the same
name however it came about.

### RowIteration and the three QueryResults

`RowIteration` is the promise: an execution is opened, its rows are delivered once
each and in order, the stop comes when no row is left and closes it; full fetches
leave it where it is. A call that waits for the database may fail, and may take rows
with it (`Lose`): the caller is told by the exception, and those rows never come. Only
counts are kept: `Deliver` hands out row number `taken + 1`, so a repeated row, one
skipped without an exception, or a stop with rows left that nobody was told of is a step
that the abstract specification does not have.

The classes keep `_cursor` and `_iterator` as the number of the execution they
belong to. In `AioQueryResults` a call is cut at its awaits: `BeginExecute`, then
`ExecuteReturns`, then `FetchReturns` (or `ContinueAtOnce` when the generator of
aiosqlite answers without waiting). The generator's own states (it holds rows, it
is running and refuses a second caller, it has ended) are external and modelled
from how aiosqlite's `Cursor.__aiter__` behaves. In `PgQueryResults` the first
part of `__anext__` is one step; transactions begin and end between calls, and an
asyncpg cursor needs its transaction for each fetch but not for the rows it has
buffered. A fetch fails in one of three ways: the server refuses or interrupts it, which
aborts the transaction (`Refused`); it fails before it is sent, which may leave the
cursor with the name of a portal that the server never heard of (`NotSent`); or the
server ran it and the answer was cancelled, timed out or cannot be decoded, which leaves
the transaction alive and the portal moved, so the next call goes on after the rows that
are gone (`AnswerLost`). That asyncpg closes an exhausted portal is taken as one step with
the fetch that found its end. In `SyncQueryResults` the actors are the `for` loops of one
thread over one object: they may be nested, broken off, and repeated. A database error
out of `next(self._iterator)` passes the `except StopIteration` (`TakeFails`): both
attributes stay, and as a rule the cursor behind them has ended, so the next loop stops
over the rows that were left.

`ImplementsIteration` is the full specification `Iteration!Spec` for asyncpg and
for sqlite3. For aiosqlite one kind of step is left out, in the formula: a task comes
back from a first call that was overtaken by the first call of another task (`Stale`),
because then the statement really is executed twice. What the docstrings say of the stop,
that it is raised "when no more records are available", is more than `RowIteration`
promises, which allows the stop after rows were lost with an exception. `RowsRunOut` says
it as it stands for aiosqlite, and the run `aio_stop` shows how the code breaks it: after a
failed fetch, and, with no task `Interruptible`, after two overlapping first calls.

### The parts of a query function

`ColumnTypes` accepts the options (`Override.parse`, `NullabilityOverride.parse`,
`validateValidateKnob`), resolves the type of a table's column and of a query's
column by the first match of each list, decides whether the query can reuse the
class of the table, and which module the name of the type is imported from. A
pattern is the set of names it matches. `ParamBinding` goes `BuildArgs` (bundle or
not), `WriteFunction` (what each driver writes for each verb), `Call` (what Python
evaluates and the database gets). `ManyStatement` builds a statement from its
grammar, flattens it to the words `SQLRootIsDML` scans, and compares what the scan
says with what the grammar says, through to what happens at the caller. Two words are one
space apart, and a `Gap` is any other white space between them, as `isLockingUpdate` tells
them apart in `FOR NO KEY`.
`Docstrings` keeps of the header the parameters and the return annotation, and of
the docstring its sections; `WriteQueryFunctionDocstring` has a branch for each
command and convention, of which the conventions differ in layout. `RowDecoding`
walks the result columns as the writers do, then reads a row. A single column may be of an
array type (shape `array`, with sqlalchemy): its validating read is named after the type
with the wrapper of the array, and the adapters after the types without it
(`AdapterDeclared`). A module with such a read does not load (`Loads`), so no row is read.

`QueryFunction` composes the five by `INSTANCE`, with one `driver`, `cmd` and
`params` for all. Its actions are those of the parts in the order of `Run`
(options, table, arguments, result, function text, form of a `:one` or `:many`,
header and docstring, row expressions, imports) and then of a caller (call,
iteration, row). The parts meet in more than their order: the decoded field is
what `PythonType` gave the column, the return annotation is that of the form
`ManyStatement` wrote, a bundle changes the header, and a row is read only when the
statement has run. A query varies in one respect at a time (`ArgumentsVary`,
`StatementVaries`, `RowsVary`, `TypesVary`, `DocstringsVary`): each part is explored
over its whole space, and the others take their smallest input.

### QueryText

`QueryText` encodes character by character (`PyTripleQuotedText`), lets Python
read the literal character by character, and then lets `sqlalchemy.text()` read
the value. Its characters are classes: backslash, quote, CR, NUL, LF, colon, word
character, space, placeholder. The sites are a comment, the header and query of
each driver kind, and the echo of the SQL in a docstring, which is split into lines
first and encoded line by line. `Scanned` is the `bufio.Scanner` of `SplitLines`: it takes
lines of at most `MaxLine` characters (65535 bytes in the code), and ends without a word
at a longer one (`tooLong`), so the echo then shows only the lines before it. `LinesFit`
says that a text has no such line.

### Importer

A package is what sqlc and the passes before hand over: the queries, each in a file, the
tables of `models.py`, and whether there are enums. `Packages` is any operator that gives
packages for options; `PackagesPossible` says what they consist of: a value (a result or
an argument) is a scalar, a class that the query file emits, perhaps with embedded models,
or a model; a class has any list of columns; the arguments are flat or one bundle; only
a verb that reads has a result. `MCImporter` gives the ones that TLC explores, and the
theorems are about all.

`Generate` computes the imports as `queryImportSpecs` and `modelImportSpecs` do, from
the queries of all files at once, with the fold that pydantic needs. An import is the
name it binds and has a place, at run time or under `typing.TYPE_CHECKING`.
`TableUses` looks at the first column of a name only (`FirstUse`). `LoadModels` and
`LoadQueries` then load the files in any order (a query file may import models),
`CallQuery` calls a query of a loaded file. What each step evaluates is taken from the
writers (base classes, registrations, annotations under pydantic, constructors, hooks,
conversions), not from the importer: the two are separate in the code, and that is the
hazard. The converters of sqlite are one table for the process, which each file adds to.

The importer misses some names that the writers use. Each is a named exception with
the code's reason (`ImportsNothing`, `EagerSignatures`, `RegistrationsUnbound`,
`KnownMissing`, the embedded fields in `ReadsAsDeclared`); the properties hold for
everything else. Section 5 lists them.

## 3. Runs

Every property has a mutant in `PROJECT.json`: a plausible bug of the code, defined
next to the correct definition, under which the run finds the property violated.

| run | what it shows |
|---|---|
| `struct_all` | suffixes of one base are distinct (`Decollided`); inputs with clean names give distinct fields and are never refused |
| `struct_readme` (violation) | README.md:72 does not hold without the condition on names: `item` and `items`, or `status`, `status`, `status_2` |
| `generator_runs` | collisions are reported before the filter, references resolve, definitions of a module are distinct, each query is written once, whatever the order of files |
| `query_function` | of a whole query function: a column has in a query the type of its source and the class it reuses says of NULL what the query says; a validated adapter is that of its own override; flat and named arguments reach their own placeholder; a `:many` that writes runs when it is called, one that reads and locks stays an iterator, if its `FOR NO KEY` is written with single spaces; the docstring lists the parameters and the result of the header; each field reads its own position, guarded reads survive NULL, validated reads find a declared adapter, but for a single array, whose module does not load |
| `params_bundle` (violation) | the bundled object itself is passed as the only argument by sqlite3, aiosqlite and asyncpg; builders.go:264-266 says the body reads its fields |
| `text_all` | Python reads back every text, the echo included when its lines fit the scanner; SQLAlchemy sends the SQL with its parameters |
| `importer_load` | every file loads and every call finds its names, a type checker finds the names of all annotations, no import is dead or doubled, sqlite values come converted whatever was loaded before |
| `importer_registers` (violation) | a file that registers adapters for `bool` or `blob` columns, or for a single imported type, has its driver under `TYPE_CHECKING` only and does not load (importer.go:343-346) |
| `sync_loops` | sqlite3 implements `RowIteration`, through database errors in the middle of a result; a loop with a fresh object for itself sees a whole result; a lone loop ends |
| `aio_tasks` | aiosqlite implements `RowIteration` but for the return of a first call that was overtaken; every call returns |
| `aio_stop` (violation) | the docstring of `__anext__` (docstrings.go:114) says that the stop comes "When no more records are available.": the call after a failed or cancelled fetch raises it with rows left |
| `pg_tasks` | asyncpg implements `RowIteration`; whatever fails, no cursor that has rows left to give is replaced by another one |

### Bounds, and why they are enough

- `StructBuilder`: three columns. A collision is between two columns; the third is
  what makes a suffix of 3 and a mix of bases possible (`status`, `status`,
  `status_2`). The theorems remove the bound.
- `Generator`: three queries out of fourteen that use each kind of type in each place
  a query can, six tables and two enums of which any subset may be present, every
  legal option combination that the passes look at and each illegal option alone.
  A reference, a collision or a hidden function involves two queries or relations.
- `QueryResults`: two tasks (three loops for sqlite3). Three rows with chunks of
  two, so a fetch returns a full chunk, a partial chunk or nothing, and a position
  in the middle of a chunk exists. Three executions for aiosqlite, two for asyncpg:
  one to be abandoned, one to abandon it, one that follows. Two transactions, so a
  cursor outlives its own and meets another. `t1` alone is `Interruptible`: a
  cancellation of either task is the same case with the names exchanged. The theorems
  remove these bounds too, but for the liveness properties.
- `QueryFunction`, arguments: three parameters with limits 0 to 2: none, below, at
  and above the limit; any permutation of the placeholder numbers where the driver
  allows it.
- `QueryFunction`, statements: two CTEs, a comment before the statement (with one CTE
  at most) and in each CTE, whose words include `update` and `for`, and four forms of
  locking with one gap at most.
- `QueryFunction`, rows: two columns with up to two fields each: an embed before,
  after and around a plain column. A `:many` reads a row as a `:one` does, so two
  columns come with `:one`.
- `QueryFunction`, types: lists of up to two overrides of eight (each length of the
  path, each kind of match, one without a type, one refused, two names of one type
  from two modules) and two nullability overrides of four, so that one can precede
  another. The driver matters to `validate` only: sqlalchemy with both lists, asyncpg
  for the refusal.
- `QueryText`: all texts of up to four characters over the nine classes. The
  encoder looks at most at a run of three quotes and the end, SQLAlchemy at two
  characters after a colon and one before. `MaxLine` is 2, so that a text of four has lines
that fit, a longest one, and one that is too long. The theorems remove both bounds.
- `Importer` (`MCImporter`): two query files. A query of each command that differs with
  a type of each kind in each place (scalar, field, embedded field, model, argument), and
  pairs of columns whose types have one name or other uses; alone, beside a companion in
  the same file, and with one in another file. The companions import nothing, much, or
  models; a lone query also comes with a table that it does not use. An import is
  decided by one value or by the existence of another query, so two are enough: 1.28
  million states. An option that no file of its driver depends on has one value.
  `importer_registers` has the sqlite drivers only. The theorems remove these bounds.

`CHECK_DEADLOCK FALSE` is set for the modules that end: a generator run, one query
function, one text, a package that is generated and loaded. The `QueryResults` runs check deadlock: an object can
always be called again (a full fetch needs no bound).

### Fairness

- `AioQueryResults`: weak fairness, for each task, of the return of the await it
  is in. The sqlite thread of the connection answers every request in its queue
  and the event loop resumes the task. No fairness of starting a call, of
  cancellation or of failure.
- `SyncQueryResults`: weak fairness of the steps of `__next__` (one thread, ordinary
  calls) and of a loop asking for its next row, that is, the loop body returns. A
  loop that breaks off is not forced to.
- `PgQueryResults` and the others state safety only and have no fairness.

## 4. Proofs

Six modules hold the theorems about a component, each beside the module it is about;
`GeneratedFileProofs` holds those of two, the importer and the sqlite3 class;
`SequenceLemmas` holds what they share. The theorems hold for every set of names,
columns, tasks, loops, requests, packages or texts and for every bound of the modules; the
constants of the modules and their named assumptions are all they rest on. Every
safety property that a passing run checks has its theorem; those of the violation runs
do not hold.

| module | theorem | says |
|---|---|---|
| `StructBuilderProofs` | `TypeCorrect` | `Spec => []TypeOK` |
| | `SuffixesRecorded` | `Spec => []Decollided` |
| | `FieldsDistinct` | `Spec => []CleanFieldsDistinct` |
| | `NeverFails` | `Spec => []CleanNeverFails` |
| `PgQueryResultsProofs` | `TypeCorrect` | `Spec => []TypeOK` |
| | `RowsNotAbandoned` | `Spec => []NoAbandonedRows` |
| | `Implements` | `Spec => ImplementsIteration` |
| `AioQueryResultsProofs` | `TypeCorrect` | `Spec => []TypeOK` |
| | `Implements` | `Spec => ImplementsIteration` |
| `GeneratorProofs` | `PassesInOrder` | `Spec => []TypeOK` |
| | `CollisionsStop` | `Spec => []CollisionsReported` |
| | `AllQueriesWritten` | `Spec => []EveryQueryWritten` |
| | `ModelsAreDefined` | `Spec => []ReferencesResolve` |
| | `NothingIsHidden` | `Spec => []DefinitionsDistinct` |
| `QueryFunctionProofs` | `FunctionIsTyped` | `Spec => []TypeOK` |
| | `TypesFollow` | `Spec => []TypeFollowsSource` |
| | `ReuseIsNullable` | `Spec => []ReuseKeepsNullability` |
| | `AdaptersAreBound` | `Spec => []ValidatedTypeBound` |
| | `ArgumentsAreBound` | `Spec => []ArgumentsBound` |
| | `WritesAreRun` | `Spec => []WritesRun` |
| | `ReadsAreIterators` | `Spec => []ReadsStayIterators` |
| | `SignatureIsDocumented` | `Spec => []DocumentsSignature` |
| | `FieldsAreAligned` | `Spec => []FieldsAligned` |
| | `NullsAreGuarded` | `Spec => []NullsGuarded` |
| | `ValuesAreValidated` | `Spec => []ValidatedOrRefused` |
| `QueryTextProofs` | `TextReachesPython` | `Spec => []ReachesPython` |
| | `SqlIsDelivered` | `Spec => []SqlDelivered` |
| `GeneratedFileProofs` | `FilesLoad` | `ImpSpec => []ModuleLoads` |
| (importer) | `CallsFindNames` | `ImpSpec => []CallsResolve` |
| | `CheckerFindsNames` | `ImpSpec => []CheckerResolves` |
| | `ImportsAreUsed` | `ImpSpec => []ImportsUsed` |
| | `ReadsConverted` | `ImpSpec => []ReadsAsDeclared` |
| (sqlite3 class) | `TypeCorrect` | `Spec => []TypeOK` |
| | `WholeResult` | `Spec => LoneLoopComplete` |
| | `Implements` | `Spec => ImplementsIteration` |

### StructBuilder

Assumptions: `SuffixableNames` (names are stems with numeric suffixes),
`ColumnType`, `NameFunctions` (the three string functions map names to names; no
more is assumed about them).

The argument. Distinctness of the fields is not inductive: that the next suffix is
new depends on what `seen` and `suffixes` hold. `Decollided` says it: an emitted
name is its stem with the suffix recorded for its id; a recorded suffix is never
1 and at most the number of uses of its base; two ids of one base have different
suffixes. `Inv` is `TypeOK` and `Decollided`. A new suffix is 0 for the first use
of a base, and otherwise one more than the number of uses, which is above every
suffix recorded for it (`FreshSuffix`). Then, over clean inputs
(`DistinctWhenClean`), two equal emitted names have equal stems and suffixes
(`SuffixedInjective`: appending is injective; a name that is another one with a
suffix is excluded by `CleanInput`), hence one base, hence one id. `NeverFails`
follows, because two columns of one id are one column and have one type.

### The QueryResults classes

Assumptions: `Parameters` (`RowBound` for sqlite3): the bounds are natural numbers
and a fetch asks for at least one row. `Task` and `Loop` are any sets.

The safety properties are not inductive: that the reset after a stop abandons
nothing depends on what a fetch that comes back may find. What is added says it.

- asyncpg: `Solo` (the connection serves one call at a time), `Waiting` (a fetch is
  for an iterator that holds nothing and has not seen the end) and `Counts` (the
  rows handed out, lost and held are within the result, and are all of it once
  the end was seen). A fetch that brings nothing, or less than it asked for, is
  then the end of the result, so only a finished iteration is reset.
- aiosqlite: `Asked`, `Waiting` and `Counts` in the same roles, and
  `OneFetchPerGenerator` in place of `Solo`, which is what the generator of aiosqlite
  sees to by refusing a second caller. In `Counts` rows are lost only with the end of the
  generator, which leaves none.
- sqlite3: `Asked`, `AtStart` (no cursor is left once every loop has run to its
  stop) and `Alone` (a loop that has the object for itself was given as many rows as
  were taken, and none was lost: a database error leaves the loop, and the next one does
  not have a fresh object).

`Implements` maps the initial state and each action to `RowIteration`: a lemma
for each of its actions (`IsDeliver`, `IsStop`, `IsAsk`, ...) says when a step of the
class is that action, and a lemma for each action of the class shows that `Inv` is
kept and that the step maps. A failed fetch maps to `Lose`, which needs that its task
waits (`Asked`). For aiosqlite the step relation under the box is that of
`ImplementsIteration`: a step of a task that is `Stale` is one of its cases.

### Generator

Assumptions: `CatalogsSent` and `QueriesSent` (what sqlc sends: finitely many tables,
enums and queries, a table known by its schema and name, a query by its name; columns in
lists), `ClassNamesSpelled` and `QueryNamesSpelled` (names are lists of words; two queries
have two method names, which are the query names). Nothing else is assumed of `Camel`,
`FuncName` or the options: any two relations may get one class name, and any two queries
one function name.

What the files contain depends on what several passes did before, so none of the
properties but `TypeOK` is inductive. `GenInv` says what each pass hands on:
`Requested` and `Staged` (the stages and what is written by then), `Defining` (the queries,
and the definitions before and after the filter, each as a function of the request; they
collided nowhere before the filter took some away) and `Filing` (the files written so far
write no query twice, and nothing is left unwritten when the run answers with files).

- `CollisionsReported` follows because a run with files passed `Validate` with the
  definitions before the filter, and those are what `Defining` keeps in view.
- `EveryQueryWritten`: a step of `EmitQueries` takes a source that is left and writes all
  its queries; two files have two sources, and a query has one.
- `ReferencesResolve`: what the file of a source refers to comes from the columns of its
  queries. A class that `BuildQuery` found in the tables of the request is in `models.py`
  as the filter keeps what a query uses; the exception of the property is the enums that the
  filter drops (section 5).
- `DefinitionsDistinct` needs one more fact that is inductive over `GenInv`: a query file
  that was written passed the comparison of its row constructors with its functions
  (`UnhiddenInv`). Then no constructor is a function (`FileFunctionsDistinct`), two
  constructors differ as their functions do, and the classes of a file are told apart by
  their last word and the method name before it (`LastApart`, `FlattenNoRepeats`). The
  property says so of the functions of sources whose function names differ
  (`FunctionsApart`); of the classes it holds without that.

### QueryFunction

Assumptions: `Bounds` (the limits are natural numbers), `SpecTypes` (`validate` and
`nullable` are Boolean), `CommentsEnd` (a word of a comment does not end it).

The parts share the query and meet in few places, so each has an inductive
invariant of its own, and `PartSteps` says that a step of the function is a step of a part
or leaves its variables alone.

- Types, `TypesInv`: the options were accepted, and `field`, `ret`, `reuses` and `binds` are
  functions of the options and the column. An override of the source of a column applies
  to the column too (`SourceApplies`), and so for nullability. The first match of a list is
  found by the smallest number that matches.
- Arguments, `ParamInv`: the placeholder numbers are injective and, but for sqlalchemy, in
  order; the call is what the writers give for the parameters.
- Docstrings, `DocInv`: header and docstring were both written from the arguments, and
  those are never built again.
- Rows, `RowsInv`: the running index is the number of positions before the column, and
  the expression of each position so far is the one its type asks for. A row is read only
  from a module that loads, so no read that validates is named after an array, and its
  adapter is that of its position, which `ValidatedResultTypes` has. The positions of the
  first `k` columns are a function of `k` (`Concatenates`, `ConcatenationExists`).
- The form of a `:many`, `FormInv`: the form follows from what `SQLRootIsDML` says of the
  words of the statement. Most of the proof is about the words: comments are skipped one
  after the other (`CommentsAreSkipped`); a modification that the grammar has is seen
  wherever it stands unless `HiddenUpdate` says it is not (`ModificationSeen`); a statement
  that only reads, and locks without a gap, has no verb but those that isLockingUpdate
  passes over (`ReadSeen`). It
  covers statements with any number of WITH queries and any words in the comments.
- `ManyInv` and `CallerInv`, the order of generating, calling and reading, for `TypeOK`.

### QueryText

Assumption: `TextBounds` (the alphabet is of the nine classes, the bounds are natural
numbers).

While a text is encoded, `ReachesPython` says nothing, so the work is in what is added.
The source is a list of tokens, one for each character: the character itself, or a
backslash with what follows it (`Tokens`). `TextInv` holds `Encoding` (what is written is the
tokens of the characters done so far, no three tokens in a row are a bare quote, and
`quotes` is the number of bare quotes at the end) and then `Reading` (Python stands
between two tokens, and its value is the characters of those before). Python does not
find the end early, as three quotes in a row would be three bare tokens, and finds it
where it was put, as the last token is not a bare quote. For the echo, the value is then
the lines of `Scanned` one after the other; that they show the text if `LinesFit` is an
induction over the scan.

`SqlDelivered` starts from the value, by `TextReachesPython`. What is left is to show that
`sqlalchemy.text()` takes the rewritten SQL back to the SQL meant. The rewrite works on
characters, `text()` on characters with their neighbours; the two are compared part by
part: each character of the query is rewritten to a part of one or two characters, and what
`text()` makes of the characters of that part is what was meant by the one
(`RewriteIs`, `CharDelivered`, `ColonDelivered`, `BindDelivered`). The neighbours are what
`Unbindable` is about, which is why `SqlInv` adds that a text being encoded is not such a
one. `Regrouped` of `SequenceLemmas` adds the parts up.

### Importer

Assumptions: `OptionsPossible` (the options are such as `ValidateConf` lets pass),
`PackagesPossible` (above), `FilesNamed` (no source is called `models.sql`, which would
get the file of the models; section 5). The files, queries, models and columns may be any,
also infinitely many.

A package does not change after the start, so the imports are those it determines
(`HasImports`), and so is the end of each file (`Outcome`): the lemmas `ImportsStay` and
`LoadingStays` say that a later step leaves both. What the order of loading and calling can
disturb is in `ImpInv`:

- `Handed`: the options, queries and models are such as the assumptions say.
- `Generating`: without imports, nothing was loaded, registered or called; and imports
  are computed once.
- `Loading`: a file ended as its `Outcome` says, or with the failure of the models that it
  imports. `ModuleLoads` is not inductive without it.
- `Registering`: a file that was loaded has its types in the table of sqlite3; and a type
  in the table was put there by a file whose registrations found their names. The first half
  gives `ReadsAsDeclared`. The second is what `CallsResolve` needs: a call may meet the
  converter of a type that only another file registered, and its body needs the module
  of that type, which the importer gave to all files because it looks at all queries.

The rest is about the imports as a function of the package, for each driver and option.
`StdHas` and `StdOnly` say what the standard imports hold: a use of a type by a value puts its
name in a block, at run time if the use says so; each name comes from a use.
`DriverImportsAre`, `QueryImportsHave` and `QueryImportsOnly` follow it through the driver,
the fold of pydantic and the hooks. Against that, one lemma for each thing the
writers make Python evaluate: headers (`SignatureFound`), classes (`ClassNamesFound`),
registrations (`RegistrationsBound`), the whole file (`QueriesLoad`, `ModelsLoad`),
constructors and conversions (`DecodeFound`), the hook and the class of a `:many`
(`WrapperFound`). `ImportsUsed` goes the other way, from each name in a block back to what
needs it (`NothingDead`). The count of modules that decides where the driver goes is at
most that of a finite set of names (`StdNames`), also when the package is not finite.

### Induction over numbers and sequences

The library's induction theorems take an operator as a parameter and cannot be used here.
`SequenceLemmas` states induction for a set of numbers instead (`NatSetInduction`, from the
well-foundedness of `<` on `Nat`): to prove a statement for every number, its numbers are
put in a set. What goes through a sequence step by step is a recursive function over
0 up to its length (`RecursionExists`; `FlattenConcatenates` for the `FlattenSeq` of the
community modules), and what it computes is then proved in this way. That is how the theorems about texts, statements and columns of
any length are reached.

### What is only model-checked

- The liveness properties `CallsReturn` and `LoneLoopEnds`, which rest on fairness and
  `ENABLED` and are out of the prover's reach.
- The properties of the four runs that expect a violation, which do not hold.
- That the assumptions about packages are those of the passes before is read off the code
  (`buildQueries`), not proved from `Generator` and `QueryFunction`, which keep other data.

## 5. Divergences noticed

Four have a run (`findings` of `PROJECT.json`). The others were met while
modelling and are kept here, with what the models do about them.

- **Empty plugin options.** `ParseConfig` returns an empty `Config` without
  defaults (config.go:64-66), and `ValidateConf` then reads through a nil pointer
  (config.go:167). `Configure` ends with the response `panic`.
- **The limit.** README.md:367 says parameters bundle "at or above" the limit; the
  code bundles above it. The comment at builders.go:264 says "default 1", the
  default is 4 (config.go:121).
- **A comment can hide an UPDATE.** utils.go:255-261 says that the exclusion of
  `FOR UPDATE` "never hides genuine data modification". A line comment that ends in
  `for` right before the `UPDATE` of a CTE does. `HiddenUpdate` of `ManyStatement`.
- **Overlapping first calls of aiosqlite.** Both execute the query, and the rows of the one
  whose cursor is replaced are dropped (aiosqlite.go:149-150). `Stale` and `RowsRunOut` of
  `AioQueryResults`.
- **An early stop of sqlite3.** As with aiosqlite (`aio_stop`), the call after a database
  error in the middle of a result finds a cursor that has ended and raises
  `StopIteration` although rows are left (`TakeFails` of `SyncQueryResults`).
- **A gap of asyncpg.** After a fetch whose answer was lost, the next `__anext__` goes on
  behind the rows of that fetch (`AnswerLost` of `PgQueryResults`).
- **A validated array in a struct** is read with the adapter of its element type
  (sqlalchemy.go:264-277 and `ValidatedResultTypes` take the type without the wrapper), so
  the list is refused as a value of that type. `RowDecoding` lets every validation refuse.
- **A single column of a validated array type** is read with an adapter that is named after
  the type with the wrapper of the array (sqlalchemy.go:335, queries.go:66-73), while the
  declaration has the bare type (queries.go:180-182, models.go:72-75). The file reads
  `_list[T]_adapter`, which is not Python, and does not load; models.go:56-57 says that "the
  declaration and the reference always agree". `ValidatedOrRefused` has the exception.
- **`FOR NO KEY UPDATE` in other white space.** isLockingUpdate compares the text before
  `UPDATE` with `FOR NO KEY` letter by letter (utils.go:264), so with a line break or two
  spaces between `NO` and `KEY` a WITH query that only reads is awaited, which
  utils.go:257-258 excludes. `ReadsStayIterators` has the exception (`SpacedLock`).
- **Enums that a file refers to are dropped.** With `omit_unused_models`, an enum used only
  by a scalar result, a flat argument or a Params class is not in `models.py`: the filter
  compares the type with its `models.` prefix, and does not look into a Params class
  (gen.go:146-165). `ReferencesResolve` has the exception.
- **`:copyfrom` columns** are written with the names of the fields (asyncpg.go:96-104), which
  `columnsToStruct` made singular (builders.go:423-427) though config.go:21 speaks of result
  columns: a copy into `tags` names a column `tag`. `ParamBinding` gives a parameter and its
  field one name, and says nothing of the column list.
- **None and overrides.** An override argument is wrapped in its default type even
  for None (asyncpg.go:240-242, sqlite3.go:323-325), and sqlite and aiosqlite read
  an override without a NULL guard. `ArgumentsBound` and `NullsGuarded` name the
  exception. The sqlite drivers do not convert the arguments of `:many` at all.
- **`:execresult`** is listed for all drivers (README.md:45); sqlalchemy refuses it.
- **Queries that differ in case** (`GetItem` and `getItem`) get one function name
  (`UpperSnakeCase`, then lower case), and nothing in `validate` compares functions.
  `DefinitionsDistinct` has the exception (`FunctionsApart`), and `MCGenerator` such a pair.
- **Two enums of one class name** from different schemas are not compared by
  `validate` (gen.go:123-128).
- **A `$1` inside a string literal** is rewritten to a bind (the error text of
  sqlalchemy.go asks users to avoid it). `QueryText` has no literals.
- **Scalar overrides on asyncpg** are not applied: the type that queries.go:204-207
  hands to the writer has no override, so `SELECT` of one overridden column
  returns the driver's value. `ScalarRead` of `RowDecoding`.
- **A model for an outer join.** A query whose columns have the names, types and
  table of a model is given its class although a column is nullable in the query
  only (builders.go:353-360 compares no nullability). `ReuseKeepsNullability` leaves
  these columns out.
- **Overlapping nullability overrides.** nullability.go:25-27 says that duplicates
  are rejected "so the order-dependence cannot silently flip a field's nullability";
  two specs that differ but match one column still depend on their order.
- **Two overrides of one type name** from different modules are refused for
  `validate: true` only; for others the last one of the options is imported for
  every column. `ValidatedTypeBound` is about the validated ones.
- **An override to a builtin** has no module, and `import ` without a name is written
  for it (`ImportsNothing`): the file does not parse.
- **pydantic with asyncpg or sqlite.** Signatures and `QueryResults` are evaluated when
  they are defined, but their names stay under `TYPE_CHECKING` (`EagerSignatures`;
  importer.go:143-148 calls it an isolation case).
- **speedups** move `datetime` under `TYPE_CHECKING`, while `register_adapter` names its
  class at run time (`RegistrationsUnbound`).
- **Names a call misses** (`KnownMissing`): the type of an override inside a model that
  a query builds, `operator` for a scalar that sqlite converts, `collections.abc` for
  `QueryResults[...]` of lists, and the module of the type an overridden argument is
  wrapped in.
- **Embedded fields** are in no file's registrations (sqlite3.go:20-43 looks at the
  columns of a value, not into embeds), so their values depend on which other files
  were loaded.
- **SQLAlchemy `:many` docstrings** name `QueryResults`, a class that driver does not
  write (docstrings.go:714-765). `DocumentsSignature` leaves the case out.
- **Long lines in the echo**: `SplitLines` scans with a 64 KiB buffer, stops at a longer
  line and does not ask for the error (utils.go:136-143), so the docstring shows the SQL
  up to that line only. `ReachesPython` is about texts that fit (`LinesFit`).
- **A source called `models.sql`** gets the file `models.py` too (queries.go:113), besides
  that of the models. `TypeOK` says that the first file is the models, not that no other
  has its name.

## 6. Not modelled

The tables of SQL type names and the word lists are data; one type of each kind that
the writers tell apart stands for the tables, and the string functions on names are
parameters. Of the docstrings, those of classes, models and modules are fixed text;
`SetDocstringConfig` is called once in a run, so that its variables are package-level
has no effect here. The indented buffer is layout. The log, the plugin entry and the
build scripts are I/O. Classes of models (dataclass, attrs, msgspec, pydantic) differ
in text, not in behaviour, except for imports, where `conf.eager` is pydantic. An
`@stream` iterator that its caller drops has no handler in the generated code. An
embed of a table without columns would be read as one plain column
(builders.go:234); sqlc refuses such an embed before the plugin is called. In
`Importer` the list arrays are of `int` only, and `macaddr`, `inet` and the other
types that Python has no module for are those without an import.

## 7. Plan

Done: all modules of section 2, with a theorem for every safety property of a passing
run.

What could follow:

1. `Importer`: several overrides in one package, each with a module of its own, instead of
   one (what two overrides of one type name do is in `ColumnTypes`).
2. The abandoned `@stream` iterator and the cursor it leaves open, once the generated code
   handles it.
3. `Generator`: a comparison of enums with enums and of functions with functions in
   `validate`, when the code has them.
