------------------------------ MODULE Generator ------------------------------
(***************************************************************************)
(* One run of the plugin: from the request sqlc sends (options, catalog,    *)
(* queries) to the response it gets back (a list of Python files) or the    *)
(* error that stops generation (Generate, NewPythonGenerator and Run of     *)
(* internal/gen.go, with the passes they call).                             *)
(*                                                                         *)
(* Each pass is an action.  A pass may refuse the request; nothing is       *)
(* returned then.  The query files are written in the order of a Go map,    *)
(* so any source may be next.                                               *)
(*                                                                         *)
(* A Python name is a sequence of words: the class of the table             *)
(* get_item_rows and the row class of the query GetItem are both            *)
(* <<"Get", "Item", "Row">>.  What SnakeToCamel, Singular and UpperSnakeCase *)
(* do to the names of an instance is given by its MC module.  The text of   *)
(* a file is abstracted to what it defines and what it refers to.           *)
(*                                                                         *)
(* That the columns of a struct may be refused is in StructBuilder, that a  *)
(* query text may be refused in QueryText: here each is a flag of a query.  *)
(***************************************************************************)
EXTENDS Integers, Sequences, FiniteSets, SequencesExt

CONSTANTS
  Options,        \* the plugin options of an instance, legal and illegal ones
  Catalogs,       \* the catalogs: [tables, enums]
  QuerySets,      \* the sets of queries sqlc passes
  DefaultSchema,  \* req.Catalog.DefaultSchema
  NoTable,        \* a column of no table, a column that is not an embed
  Camel,          \* core.SnakeToCamel after Singular, on table and enum names
  FuncName,       \* lower(UpperSnakeCase(query name))
  MethodName      \* the query name, as the words of a class name

\* What sqlc sends: finite sets of tables, enums and queries, the columns of each in
\* a list, where a table is known by its schema and name and a query by its name.
Identifier == [schema : STRING, name : STRING]
Column == [name : STRING, type : STRING, table : Identifier \cup {NoTable}, embed : Identifier \cup {NoTable}]

ASSUME CatalogsSent ==
  \A c \in Catalogs :
    /\ IsFiniteSet(c.tables) /\ IsFiniteSet(c.enums)
    /\ \A t, u \in c.tables : t.rel = u.rel => t = u
    /\ \A t \in c.tables : t.columns \in Seq(Column)

ASSUME QueriesSent ==
  \A qs \in QuerySets :
    /\ IsFiniteSet(qs)
    /\ \A q, r \in qs : q.name = r.name => q = r
    /\ \A q \in qs : q.columns \in Seq(Column) /\ q.params \in Seq(Column)

VARIABLES
  request,  \* [options, catalog, queries]: what sqlc sends
  stage,    \* the pass that runs next
  enums,    \* enums, tables, queries of Run
  tables,
  queries,
  files,    \* outputFiles
  response  \* "none", "files", "error", or "panic"

vars == <<request, stage, enums, tables, queries, files, response>>

options == request.options

-----------------------------------------------------------------------------
(* NewPythonGenerator: ParseConfig, ValidateConf, the engine, NewDriver. *)

EngineOf ==
  [d \in {"sqlite3", "aiosqlite", "asyncpg", "sqlalchemy"} |->
     IF d \in {"sqlite3", "aiosqlite"} THEN "sqlite" ELSE "postgresql"]

\* No option at all gives a Config whose pointers are nil.
Unset(o) == o.empty

\* `known' stands for every check of one option's own text: unknown keys, the
\* overrides, the model type, the docstring convention.
ValidOptions(o) ==
  /\ o.known
  /\ o.driver \in DOMAIN EngineOf
  /\ o.qpl >= 0
  /\ o.initFile \in {"yes", "no"}              \* not left out
  /\ o.package
  /\ EngineOf[o.driver] = o.engine
  /\ o.validate => o.driver = "sqlalchemy"     \* validateValidateKnob

Configure ==
  /\ stage = "configure"
  /\ CASE Unset(options)        -> response' = "panic" /\ stage' = "end"
       [] ~Unset(options) /\ ~ValidOptions(options)
                                -> response' = "error" /\ stage' = "end"
       [] ~Unset(options) /\ ValidOptions(options)
                                -> response' = "none"  /\ stage' = "build"
  /\ UNCHANGED <<request, enums, tables, queries, files>>

-----------------------------------------------------------------------------
(* buildEnums, buildTables, buildQueries. *)

System(r) == r.schema \in {"pg_catalog", "information_schema"}

\* The name a relation or an enum is known by: prefixed with its schema unless
\* that is the default one.
Qualified(r) ==
  IF r.schema = DefaultSchema THEN <<r.name>> ELSE <<r.schema, r.name>>

ClassOf(r) == Camel[Qualified(r)]

\* A class name is a list of words.
ASSUME ClassNamesSpelled ==
  \A c \in Catalogs : \A d \in c.tables \cup c.enums : ClassOf(d.rel) \in Seq(STRING)

\* The names that a query gives are lists of words too, and two queries give two
\* method names.
ASSUME QueryNamesSpelled ==
  \A qs \in QuerySets : \A q, r \in {p \in qs : p.name # ""} :
    /\ FuncName[q.name] \in Seq(STRING) /\ MethodName[q.name] \in Seq(STRING)
    /\ MethodName[q.name] = MethodName[r.name] => q.name = r.name

UserTables == {t \in request.catalog.tables : ~System(t.rel)}
UserEnums == {e \in request.catalog.enums : ~System(e.rel)}

\* makePythonType: an enum is a class of models.py, found by its name in the
\* first schema that has one (one fixed choice for a catalog).
PyType(c) ==
  IF \E e \in UserEnums : e.rel.name = c.type
    THEN <<"models">> \o ClassOf((CHOOSE e \in UserEnums : e.rel.name = c.type).rel)
    ELSE <<c.type>>

InModels(type) == Len(type) > 1 /\ Head(type) = "models"
Stripped(type) == IF InModels(type) THEN Tail(type) ELSE type

Typed(cs) == [i \in 1..Len(cs) |-> [name |-> cs[i].name, type |-> PyType(cs[i])]]

BuildEnums == {[rel |-> e.rel, name |-> ClassOf(e.rel), members |-> e.members] : e \in UserEnums}
BuildTables == {[rel |-> t.rel, name |-> ClassOf(t.rel), columns |-> Typed(t.columns)] : t \in UserTables}

PutsOutColumns(q) == q.cmd \in {"one", "many", "batchone", "batchmany"}
Bundles(q) ==
  q.cmd = "copyfrom" \/ (options.qpl > 0 /\ Len(q.params) > options.qpl)

\* The model a query returns whole: the same columns, all of that table.
Returns(q, t) ==
  /\ Len(t.columns) = Len(q.columns)
  /\ \A i \in 1..Len(q.columns) :
       /\ t.columns[i].name = q.columns[i].name
       /\ t.columns[i].type = PyType(q.columns[i])
       /\ q.columns[i].table = t.rel

\* A field of a <Method>Row: its type, and the types of an embedded model.
RowField(c, ts) ==
  LET embedded == {t \in ts : t.rel = c.embed}
  IN  IF embedded = {}
        THEN [type |-> PyType(c), embeds |-> {}]
        ELSE LET t == CHOOSE t \in embedded : TRUE
             IN  [type |-> <<"models">> \o t.name, embeds |-> {t.columns[i].type : i \in 1..Len(t.columns)}]

RetOf(q, ts) ==
  CASE ~PutsOutColumns(q) -> [kind |-> "none"]
    [] PutsOutColumns(q) /\ Len(q.columns) = 1 /\ q.columns[1].embed = NoTable ->
         [kind |-> "scalar", type |-> PyType(q.columns[1])]
    [] PutsOutColumns(q) /\ ~(Len(q.columns) = 1 /\ q.columns[1].embed = NoTable) ->
         LET whole == {t \in ts : Returns(q, t)}
         IN  IF whole # {}
               THEN LET t == CHOOSE t \in whole : TRUE
                    IN  [kind |-> "model", type |-> t.name,
                         fields |-> {[type |-> t.columns[i].type, embeds |-> {}] : i \in 1..Len(t.columns)}]
               ELSE [kind |-> "row", type |-> MethodName[q.name] \o <<"Row">>,
                     fields |-> {RowField(q.columns[i], ts) : i \in 1..Len(q.columns)}]

ArgsOf(q) ==
  LET types == {PyType(q.params[i]) : i \in 1..Len(q.params)}
  IN  IF Bundles(q) THEN [bundled |-> TRUE,  type |-> MethodName[q.name] \o <<"Params">>, types |-> types]
                    ELSE [bundled |-> FALSE, type |-> <<>>, types |-> types]

BuildQuery(q, ts) ==
  [name |-> q.name, cmd |-> q.cmd, source |-> q.source, writable |-> q.writable,
   args |-> ArgsOf(q), ret |-> RetOf(q, ts)]

Named == {q \in request.queries : q.name # "" /\ q.cmd # ""}

\* columnsToStruct refuses a struct with two fields of one name but two types.
StructRefused(q, ts) ==
  q.clash /\ (Bundles(q) \/ RetOf(q, ts).kind = "row")

Build ==
  /\ stage = "build"
  /\ enums' = BuildEnums
  /\ tables' = BuildTables
  /\ IF \E q \in Named : StructRefused(q, BuildTables)
       THEN response' = "error" /\ stage' = "end" /\ UNCHANGED queries
       ELSE /\ queries' = {BuildQuery(q, BuildTables) : q \in Named}
            /\ stage' = "validate"
            /\ UNCHANGED response
  /\ UNCHANGED <<request, files>>

-----------------------------------------------------------------------------
(* validate and filterUnusedStructs. *)

EnumNames(es) == {e.name : e \in es} \cup {<<"Null">> \o e.name : e \in es}

Collide(es, ts) ==
  \/ \E t \in ts : t.name \in EnumNames(es)
  \/ \E t, u \in ts : t.rel # u.rel /\ t.name = u.name

\* A bug it could have: only what a query returns counts as used.
KeepTypesOfRets(qs) ==
  {q.ret.type : q \in {r \in qs : r.ret.kind # "none"}}

KeepTypes(qs) ==
  LET args == {q \in qs : q.args.bundled}
      rets == {q \in qs : q.ret.kind # "none"}
      structs == {q \in rets : q.ret.kind # "scalar"}
      fields == UNION {q.ret.fields : q \in structs}
  IN  {q.args.type : q \in args}
        \cup (UNION {q.args.types : q \in qs \ args})
        \cup {q.ret.type : q \in rets}
        \cup {Stripped(f.type) : f \in fields}
        \cup (UNION {{Stripped(x) : x \in f.embeds} : f \in fields})

KeptEnums(es, qs) ==
  {e \in es : e.name \in KeepTypes(qs) \/ (<<"Null">> \o e.name) \in KeepTypes(qs)}
KeptTables(ts, qs) == {t \in ts : t.name \in KeepTypes(qs)}

\* A bug it could have: collisions looked for in what is left after the filter.
ValidateFiltered ==
  /\ stage = "validate"
  /\ IF \/ options.omit /\ Collide(KeptEnums(enums, queries), KeptTables(tables, queries))
        \/ ~options.omit /\ Collide(enums, tables)
       THEN response' = "error" /\ stage' = "end"
       ELSE stage' = "filter" /\ UNCHANGED response
  /\ UNCHANGED <<request, enums, tables, queries, files>>

Validate ==
  /\ stage = "validate"
  /\ IF Collide(enums, tables)
       THEN response' = "error" /\ stage' = "end"
       ELSE stage' = "filter" /\ UNCHANGED response
  /\ UNCHANGED <<request, enums, tables, queries, files>>

Filter ==
  /\ stage = "filter"
  /\ IF options.omit
       THEN enums' = KeptEnums(enums, queries) /\ tables' = KeptTables(tables, queries)
       ELSE UNCHANGED <<enums, tables>>
  /\ stage' = "models"
  /\ UNCHANGED <<request, queries, files, response>>

-----------------------------------------------------------------------------
(* BuildPyTablesFile. *)

\* buildPyEnum: two values of an enum that give one member.
LossyEnum(e) == \E i, j \in 1..Len(e.members) : i # j /\ e.members[i] = e.members[j]

ModelsFile ==
  [name |-> "models",
   classes |-> SetToSeq({[rel |-> e.rel, name |-> e.name] : e \in enums})
                 \o SetToSeq({[rel |-> t.rel, name |-> t.name] : t \in tables}),
   functions |-> <<>>, writes |-> <<>>,
   refs |-> {Stripped(x) : x \in {y \in UNION {{t.columns[i].type : i \in 1..Len(t.columns)} : t \in tables} : InModels(y)}}]

\* A bug it could have: the error of buildPyEnum is kept, but the run goes on.
EmitModelsGoesOn ==
  /\ stage = "models"
  /\ files' = Append(files, ModelsFile)
  /\ stage' = "commands"
  /\ response' = IF \E e \in enums : LossyEnum(e) THEN "error" ELSE response
  /\ UNCHANGED <<request, enums, tables, queries>>

EmitModels ==
  /\ stage = "models"
  /\ IF \E e \in enums : LossyEnum(e)
       THEN response' = "error" /\ stage' = "end" /\ UNCHANGED files
       ELSE files' = Append(files, ModelsFile) /\ stage' = "commands" /\ UNCHANGED response
  /\ UNCHANGED <<request, enums, tables, queries>>

-----------------------------------------------------------------------------
(* BuildPyQueriesFiles. *)

Accepted ==
  CASE options.driver = "asyncpg" -> {"exec", "execresult", "execrows", "one", "many", "copyfrom"}
    [] options.driver = "sqlalchemy" -> {"exec", "execrows", "one", "many"}
    [] options.driver \in {"sqlite3", "aiosqlite"} ->
         {"exec", "execresult", "execlastid", "execrows", "one", "many"}

CheckCommands ==
  /\ stage = "commands"
  /\ IF \E q \in queries : q.cmd \notin Accepted
       THEN response' = "error" /\ stage' = "end"
       ELSE stage' = "queries" /\ UNCHANGED response
  /\ UNCHANGED <<request, enums, tables, queries, files>>

Written == UNION {ToSet(files[i].writes) : i \in 1..Len(files)}
Of(source) == {q \in queries : q.source = source}
Unwritten == {q.source : q \in {q \in queries : q.name \notin Written}}

\* SQLAlchemyHasRowConstructor, SQLAlchemyRowConstructorName.
HasRowConstructor(q) == options.driver = "sqlalchemy" /\ q.cmd \in {"one", "many"}
RowConstructor(q) == FuncName[q.name] \o <<"row">>

\* A bug it could have: the check compares a query with its own constructor.
ConstructorHidesItself(qs) ==
  /\ ~options.classes
  /\ \E q \in qs : HasRowConstructor(q) /\ RowConstructor(q) = FuncName[q.name]

\* SQLAlchemyCheckRowConstructorNames, for the queries of one source.
ConstructorHidesQuery(qs) ==
  /\ ~options.classes
  /\ \E q, r \in qs : HasRowConstructor(q) /\ RowConstructor(q) = FuncName[r.name]

\* A bug it could have: the inline classes of a query left out when the query
\* returns a model.
InlineClassesOfRow(q) ==
  IF q.ret.kind = "row"
    THEN (IF q.args.bundled THEN <<q.args.type>> ELSE <<>>) \o <<q.ret.type>>
    ELSE <<>>

\* prepareFunctionHeader: the classes a query defines next to its function.
InlineClasses(q) ==
  (IF q.args.bundled THEN <<q.args.type>> ELSE <<>>)
    \o (IF q.ret.kind = "row" THEN <<q.ret.type>> ELSE <<>>)

QueryRefs(q) ==
  LET types == q.args.types
                 \cup (IF q.ret.kind = "scalar" THEN {q.ret.type} ELSE {})
                 \cup (IF q.ret.kind = "row" THEN {f.type : f \in q.ret.fields} ELSE {})
  IN  {Stripped(x) : x \in {y \in types : InModels(y)}}
        \cup (IF q.ret.kind = "model" THEN {q.ret.type} ELSE {})

QueryFile(source) ==
  LET qs == SetToSeq(Of(source))
  IN  [name |-> source,
       classes |-> FlattenSeq([i \in 1..Len(qs) |-> InlineClasses(qs[i])]),
       functions |-> (IF options.classes THEN <<>> ELSE [i \in 1..Len(qs) |-> FuncName[qs[i].name]])
                       \o LET rs == SetToSeq({q \in Of(source) : HasRowConstructor(q)})
                          IN  [i \in 1..Len(rs) |-> RowConstructor(rs[i])],
       writes |-> [i \in 1..Len(qs) |-> qs[i].name],
       refs |-> UNION {QueryRefs(qs[i]) : i \in 1..Len(qs)}]

EmitQueries ==
  /\ stage = "queries"
  /\ \E source \in Unwritten :
       IF (options.driver = "sqlalchemy" /\ ConstructorHidesQuery(Of(source)))
            \/ \E q \in Of(source) : ~q.writable
         THEN response' = "error" /\ stage' = "end" /\ UNCHANGED files
         ELSE files' = Append(files, QueryFile(source)) /\ UNCHANGED <<stage, response>>
  /\ UNCHANGED <<request, enums, tables, queries>>

\* The __init__.py, the debug log, and the response.
InitFile == [name |-> "__init__", classes |-> <<>>, functions |-> <<>>, writes |-> <<>>, refs |-> {}]

Finish ==
  /\ stage = "queries" /\ Unwritten = {}
  /\ files' = IF options.initFile = "yes" THEN Append(files, InitFile) ELSE files
  /\ response' = "files"
  /\ stage' = "end"
  /\ UNCHANGED <<request, enums, tables, queries>>

-----------------------------------------------------------------------------
Init ==
  /\ request \in [options : Options, catalog : Catalogs, queries : QuerySets]
  \* sqlc compiles a query against the catalog it sends
  /\ \A q \in request.queries : \A i \in 1..Len(q.columns) :
       \A rel \in {q.columns[i].table, q.columns[i].embed} \ {NoTable} :
         rel \in {t.rel : t \in request.catalog.tables}
  /\ stage = "configure"
  /\ enums = {} /\ tables = {} /\ queries = {}
  /\ files = <<>>
  /\ response = "none"

Next ==
  \/ Configure \/ Build \/ Validate \/ Filter
  \/ EmitModels \/ CheckCommands \/ EmitQueries \/ Finish

Spec == Init /\ [][Next]_vars

-----------------------------------------------------------------------------
(* Properties. *)

\* The state of a run, and what each pass leaves behind: there are no files
\* before the models are written, and an answer exactly at the end.
TypeOK ==
  /\ stage \in {"configure", "build", "validate", "filter", "models", "commands", "queries", "end"}
  /\ response \in {"none", "files", "error", "panic"}
  /\ response = "none" <=> stage # "end"
  /\ stage \in {"configure", "build", "validate", "filter", "models"} => files = <<>>
  /\ files # <<>> => files[1].name = "models"

\* A collision of the catalog is always reported (gen.go:75-77), also when
\* omit_unused_models would drop one side of it: two tables never share a
\* class, and a table never has the class of an enum, in a run that answers
\* with files.
CollisionsReported ==
  response = "files" =>
    \A t \in UserTables :
      /\ \A u \in UserTables : ClassOf(t.rel) = ClassOf(u.rel) => t = u
      /\ \A e \in UserEnums : ClassOf(t.rel) # ClassOf(e.rel)

Defined == {files[1].classes[i].name : i \in 1..Len(files[1].classes)}
ClassNames(rels) == {ClassOf(r) : r \in rels}

\* Every model a generated file refers to is defined in models.py, whatever
\* the filter dropped; every enum too, unless omit_unused_models is on: the filter
\* compares `models.X' of a scalar result or a flat argument with the bare name of
\* the enum (gen.go:152-161), and does not look into a Params class.
ReferencesResolve ==
  response = "files" =>
    \A i \in 1..Len(files) : \A ref \in files[i].refs :
      (~options.omit \/ ref \in ClassNames({t.rel : t \in UserTables})) => ref \in Defined

DistinctElements(s) == Cardinality(ToSet(s)) = Len(s)

\* UpperSnakeCase gives GetItem and getItem one function name.
FunctionsApart(qs) == \A q, r \in qs : FuncName[q.name] = FuncName[r.name] => q = r

\* The module-level definitions of a query file have distinct names: one
\* function per query, one constructor per query that returns rows, one class
\* per inline struct (queries.go:195-200).  sqlc keeps query names distinct.
DefinitionsDistinct ==
  response = "files" =>
    \A i \in 2..Len(files) :
      /\ FunctionsApart(Of(files[i].name)) => DistinctElements(files[i].functions)
      /\ DistinctElements(files[i].classes)

\* A run that answers with files wrote every query sqlc passed once, in the
\* file of its source, whatever the order of the map, and the classes its
\* signature names are defined in that file.
EveryQueryWritten ==
  response = "files" =>
    /\ \A q \in Named : \E i \in 2..Len(files) :
         /\ files[i].name = q.source
         /\ Cardinality({k \in 1..Len(files[i].writes) : files[i].writes[k] = q.name}) = 1
         /\ \A j \in 2..Len(files) : q.name \in ToSet(files[j].writes) => j = i
    /\ \A q \in queries :
         q.args.bundled => \E i \in 2..Len(files) : /\ files[i].name = q.source
                                                    /\ q.args.type \in ToSet(files[i].classes)

=============================================================================
