------------------------------ MODULE Importer -------------------------------
(***************************************************************************)
(* Which imports the generated files get and where (importer.go), against   *)
(* what Python evaluates when it loads a file and when a query is called    *)
(* (the writers: queries.go, tables.go, drivers/*.go).                      *)
(*                                                                         *)
(* A package has models.py and its query files.  An import is the name it   *)
(* binds: "collections" for collections.abc, "T" for the type of the        *)
(* override, "base" for the module of the model classes, "" for the         *)
(* statement `import ' that names nothing.  Names that only exist under     *)
(* typing.TYPE_CHECKING are "checking".                                     *)
(*                                                                         *)
(* Types stand for the kinds that differ here; "ints" is a list of int, and *)
(* "T" a column of SQL type conf.base with the override.                    *)
(*                                                                         *)
(* External: the Python importer, and the converters of the sqlite3 module, *)
(* which are one table for the process.                                     *)
(***************************************************************************)
EXTENDS Naturals, Sequences, FiniteSets

CONSTANTS
  Options,      \* the options of an instance
  Packages(_),  \* the packages that sqlc and the passes before hand over, for options
  Files         \* the query files

Sqlite == {"sqlite3", "aiosqlite"}
Reading == {"one", "many", "returning"}
Many == {"many", "returning"}   \* "returning": :many over INSERT ... RETURNING

SqlTypes(driver) ==
  IF driver \in Sqlite THEN {"int", "text", "bool", "blob", "date", "decimal", "any"}
  ELSE {"int", "text", "blob", "date", "decimal", "uuid", "enum", "any", "ints"}

AllOptions ==
  {c \in [driver : Sqlite \cup {"asyncpg", "sqlalchemy"}, eager : BOOLEAN, speedups : BOOLEAN,
          builtinLists : BOOLEAN, omitBlock : BOOLEAN,
          override : {"none", "typed", "validated", "builtin"}, base : SqlTypes("sqlite3") \cup SqlTypes("asyncpg")] :
     /\ c.base \in SqlTypes(c.driver) \ {"ints"}
     /\ c.override = "validated" => c.driver = "sqlalchemy"}

Types(c) == SqlTypes(c.driver) \cup (IF c.override = "none" THEN {} ELSE {"T"})

\* The columns of a class, and whether the name of one is a keyword.
Class(cols, esc) == [cols |-> cols, escaped |-> esc]
Classes(c) == [cols : Seq(Types(c)), escaped : BOOLEAN]

\* A QueryValue: a scalar, a class emitted in the query file, perhaps with
\* embedded models, or a model.
Value(k, cols, esc, embeds) == [kind |-> k, cols |-> cols, escaped |-> esc, embeds |-> embeds]
Nothing == Value("none", <<>>, FALSE, {})
Scalar(t) == Value("scalar", <<t>>, FALSE, {})
Model(m) == Value("model", m.cols, m.escaped, {})

Emits(v) == v.kind = "row"
IsStruct(v) == v.kind \in {"row", "model"}

Scalars(c) == {Scalar(t) : t \in Types(c)}
Rows(c, models) == [kind : {"row"}, cols : Seq(Types(c)), escaped : BOOLEAN, embeds : SUBSET models]

\* A query: only a verb that reads has a result, and arguments are flat or one bundle.
Queries(c, models) ==
  {q \in [file : Files, cmd : Reading \cup {"exec", "copyfrom"},
          ret : {Nothing} \cup Scalars(c) \cup Rows(c, models) \cup {Model(m) : m \in models},
          args : SUBSET (Scalars(c) \cup Rows(c, {}))] :
     /\ q.cmd \in Reading <=> q.ret # Nothing
     /\ \A a \in q.args : Emits(a) => q.args = {a}
     /\ q.cmd = "copyfrom" => c.driver = "asyncpg" /\ \E a \in q.args : Emits(a)}

\* A source models.sql would get the file of the models.
ASSUME FilesNamed == "models" \notin Files

ASSUME OptionsPossible == Options \subseteq AllOptions

ASSUME PackagesPossible ==
  \A c \in Options : \A p \in Packages(c) :
    /\ p.models \subseteq Classes(c)
    /\ p.enums \in BOOLEAN /\ (p.enums => "enum" \in Types(c))
    /\ p.queries \subseteq Queries(c, p.models)

VARIABLES
  conf,        \* the options the importer and the writers look at
  queries,     \* the queries of the package, each in a file
  models,      \* the tables that models.py has
  enums,       \* whether models.py has an enum
  imports,     \* of each kind of file: [runtime, checking], sets of names
  loaded,      \* for each file "new", "loaded", "NameError" or "SyntaxError"
  converters,  \* the types with a converter and an adapter in sqlite3's tables
  last         \* the last call: its query, the names it missed, the types it read raw

input == <<conf, queries, models, enums>>
impVars == <<input, imports, loaded, converters, last>>

ImpInit ==
  /\ conf \in Options
  /\ \E p \in Packages(conf) : queries = p.queries /\ models = p.models /\ enums = p.enums
  /\ imports = [f \in {"models", "query"} |-> [runtime |-> {}, checking |-> {}]]
  /\ loaded = [f \in {"models"} \cup Files |-> "new"]
  /\ converters = {}
  /\ last = <<>>

Of(f) == {q \in queries : q.file = f}
ValuesOf(qs) == {q.ret : q \in qs} \cup UNION {q.args : q \in qs}
AnyMany(qs) == \E q \in qs : q.cmd \in Many

-----------------------------------------------------------------------------
(* Types. *)

OnSqlite == conf.driver \in Sqlite
Override == conf.override # "none"
SqlType(t) == IF t = "T" THEN conf.base ELSE t

\* SqliteDoTypeConversion, AsyncpgDoTypeConversion.
ByTable(t) ==
  \/ OnSqlite /\ SqlType(t) \in {"bool", "blob", "date", "decimal"}
  \/ conf.driver = "asyncpg" /\ SqlType(t) = "blob"

\* PyType.DoConversion.
Converts(t) == t = "T" \/ ByTable(t)

\* PyType.Type as the importer compares it; the override `int' has no module.
PyName(t) ==
  CASE t = "ints" -> "int"
    [] t = "T" /\ conf.override = "builtin" -> "int"
    [] OTHER -> t

\* The names that the text of a type needs.
Names(t) ==
  CASE t = "date" -> {"datetime"}
    [] t \in {"decimal", "uuid"} -> {t}
    [] t = "enum" -> {"models"}
    [] t = "any" -> {"typing"}
    [] t = "ints" /\ ~conf.builtinLists -> {"collections"}
    [] t = "T" /\ conf.override # "builtin" -> {"T"}
    [] OTHER -> {}

\* The types of a class or a value, and those that a read of it meets.
TypesIn(x) == {x.cols[i] : i \in DOMAIN x.cols}
TypesEmbedded(v) == UNION {TypesIn(m) : m \in v.embeds}
TypesRead(v) == TypesIn(v) \cup TypesEmbedded(v)
NamesIn(x) == UNION {Names(t) : t \in TypesIn(x)}

-----------------------------------------------------------------------------
(* importer.go: the imports of the query files, from all queries. *)

\* TableUses: the first column that has the name.
FirstUse(n, x) == {i \in DOMAIN x.cols : PyName(x.cols[i]) = n /\ \A j \in 1..(i - 1) : PyName(x.cols[j]) # n}

\* queryValueUses: nothing, or whether the checker is enough.
ValueUses(n, v) ==
  IF v.kind = "model" THEN {FALSE : i \in {j \in FirstUse(n, v) : OnSqlite /\ Converts(v.cols[j])}}
  ELSE {conf.driver # "sqlalchemy" /\ ~Converts(v.cols[i]) : i \in FirstUse(n, v)}

\* With speedups ciso8601 converts the dates.
BySpeedup(n, v) == OnSqlite /\ conf.speedups /\ n = "date" /\ FALSE \in ValueUses(n, v)

\* queryUses: a :many needs the type of its rows at run time.
QueryUses(n) ==
  {FALSE : q \in {p \in queries : p.cmd \in Many /\ ValueUses(n, p.ret) # {}}}
  \cup UNION {IF BySpeedup(n, v) THEN {TRUE} ELSE ValueUses(n, v) : v \in ValuesOf(queries)}

\* stdImports and the loop over the overrides; the keys and what they bind.
Imported == {"decimal", "date", "uuid"} \cup (IF Override THEN {PyName("T")} ELSE {})
Binds(n) == CASE n = "date" -> "datetime" [] n = "int" -> "" [] OTHER -> n

Std ==
  [runtime  |-> {"typing"} \cup {Binds(n) : n \in {k \in Imported : FALSE \in QueryUses(k)}},
   checking |-> {"collections"} \cup {Binds(n) : n \in {k \in Imported : QueryUses(k) = {TRUE}}}]

Add(i, runtime, checking) == [runtime |-> i.runtime \cup runtime, checking |-> i.checking \cup checking]

SimpleReturn == \E q \in queries : ~IsStruct(q.ret) /\ \A t \in TypesIn(q.ret) : ~ByTable(t)

\* `len(std) > 2' decides where the driver goes.
DriverImports ==
  LET ifMany(s) == IF AnyMany(queries) THEN s ELSE {}
      operator == ifMany(IF SimpleReturn THEN {"operator"} ELSE {})
      needed == Cardinality(Std.runtime) > 2
      self == {conf.driver}
  IN CASE conf.driver = "sqlalchemy" -> Add(Std, {"sqlalchemy"}, {})
       [] conf.driver = "asyncpg" -> Add(Std, operator, self \cup ifMany({"asyncpg.cursor"}))
       [] OTHER ->
            Add(Std,
                operator \cup (IF needed THEN self ELSE {})
                  \cup (IF \E v \in ValuesOf(queries) : BySpeedup("date", v) THEN {"ciso8601"} ELSE {}),
                (IF needed THEN {} ELSE self) \cup (IF conf.driver = "aiosqlite" THEN ifMany({"sqlite3"}) ELSE {}))

Base == IF conf.eager THEN "pydantic" ELSE "base"

\* A bug it could have: the Params classes forgotten.
ModelBaseForRets == {Base : q \in {p \in queries : Emits(p.ret)}}

ModelBase == {Base : q \in {p \in queries : (\E v \in ValuesOf({p}) : Emits(v)) \/ p.cmd = "copyfrom"}}

\* A bug it could have: not looking at embedded models.
ReferencesModelsItself ==
  \E v \in ValuesOf(queries) : v.kind = "model" \/ "enum" \in TypesIn(v)

\* Another one: the import written whatever the file refers to.
ReferencesModelsAlways == TRUE

\* queriesReferenceModels.
ReferencesModels ==
  \E v \in ValuesOf(queries) :
    \/ v.kind = "model"
    \/ v.kind \in {"row", "scalar"} /\ ("enum" \in TypesIn(v) \/ v.embeds # {})

\* collectAnnotationModules.
FieldModules(x) ==
  (NamesIn(x) \ {"models"}) \cup (IF x.escaped THEN {"typing"} ELSE {})

\* A bug it could have: the iterator of a :many forgotten.
QueryFieldModulesOfValues ==
  {"typing"} \cup UNION {FieldModules(v) : v \in {u \in ValuesOf(queries) : Emits(u)}}

\* queryFieldTypeModules.
QueryFieldModules ==
  {"typing"}
  \cup {"collections" : q \in {p \in queries : p.cmd \in {"many", "copyfrom"}}}
  \cup UNION {IF Emits(v) THEN FieldModules(v)
              ELSE IF v.kind = "scalar" /\ "ints" \in TypesIn(v) THEN Names("ints") ELSE {} :
              v \in ValuesOf(queries)}

\* foldPydanticRuntimeImports, for the model types that need it.
Fold(i, fields) ==
  IF ~conf.eager THEN i
  ELSE [runtime  |-> (i.runtime \ ({"typing"} \ fields)) \cup (i.checking \cap fields),
        checking |-> (i.checking \ fields) \ {"collections"}]

Validated(v) ==
  conf.override = "validated" /\ "T" \in TypesRead(v)

\* queryImportSpecs, queryImports, and the hook of asyncpg.
QueryImports ==
  LET specs == Fold(Add(DriverImports, ModelBase, {}), QueryFieldModules)
      validated == IF \E q \in queries : Validated(q.ret) THEN {"pydantic", "T"} ELSE {}
  IN [runtime  |-> specs.runtime \cup validated \cup (IF ReferencesModels THEN {"models"} ELSE {}),
      checking |-> (specs.checking \ (validated \ {"pydantic"}))
        \cup (IF AnyMany(queries) /\ conf.driver # "sqlalchemy" THEN {"QueryResultsArgsType"} ELSE {})
        \cup (IF conf.driver = "asyncpg" THEN {"ConnectionLike"} ELSE {})]

-----------------------------------------------------------------------------
(* The models file: tables and enums. *)

\* modelImportSpecs: every use is the checker's, until the fold.
ModelImports ==
  LET used == {n \in Imported : \E m \in models : FirstUse(n, m) # {}}
      std == [runtime  |-> {"typing", Base} \cup (IF enums THEN {"enum"} ELSE {}),
              checking |-> {"collections"} \cup {Binds(n) : n \in used}]
  IN Fold(std, UNION {FieldModules(m) : m \in models})

Generate ==
  /\ imports["query"].runtime = {}
  /\ imports' = [models |-> ModelImports, query |-> QueryImports]
  /\ UNCHANGED <<input, loaded, converters, last>>

-----------------------------------------------------------------------------
(* What the files say.  First the annotations. *)

ConnNames ==
  CASE conf.driver = "asyncpg" -> {"ConnectionLike"}
    [] conf.driver = "sqlalchemy" -> {"sqlalchemy"}
    [] OTHER -> {conf.driver}

\* retType of prepareFunctionHeader; "list" and "QueryResults" need no import.
ResultNames(q) ==
  (CASE q.ret.kind = "model" -> {"models"} [] q.ret.kind = "scalar" -> NamesIn(q.ret) [] OTHER -> {})
  \cup (IF q.cmd = "many" /\ conf.driver = "sqlalchemy" THEN {"collections"} ELSE {})

ArgNames(q) ==
  (UNION {NamesIn(a) : a \in {b \in q.args : b.kind = "scalar"}})
  \cup (IF q.cmd = "copyfrom" THEN {"collections"} ELSE {})

\* The fields of a class (pyFieldType, buildPydanticTable).
ClassNames(x) == NamesIn(x) \cup (IF x.escaped /\ conf.eager THEN {"typing"} ELSE {})

\* Those of a class that the query file emits.
FieldNames(v) ==
  IF ~Emits(v) THEN {} ELSE ClassNames(v) \cup (IF v.embeds # {} THEN {"models"} ELSE {})

\* The class QueryResults, and the row type of the decode hooks.
QueryResultsNames(qs) ==
  IF ~AnyMany(qs) \/ conf.driver = "sqlalchemy" THEN {}
  ELSE {"collections", "QueryResultsArgsType"}
         \cup (CASE conf.driver = "asyncpg" -> {"asyncpg", "asyncpg.cursor"}
                 [] conf.driver = "aiosqlite" -> {"sqlite3", "aiosqlite"}
                 [] OTHER -> {"sqlite3"})

\* A bug it could have: the models left out, as the importer does for asyncpg.
ToConvertEmitted(f) ==
  IF ~OnSqlite THEN {}
  ELSE {t \in UNION {TypesIn(v) : v \in {u \in ValuesOf(Of(f)) : u.kind # "model"}} : t # "T" /\ ByTable(t)}

\* BuildTypeConvFunc: the types of the file's own queries; embedded models are
\* not looked at.
ToConvert(f) ==
  IF ~OnSqlite THEN {}
  ELSE {t \in UNION {TypesIn(v) : v \in ValuesOf(Of(f))} : t # "T" /\ ByTable(t)}

\* `__all__' has a builtin for an annotation where it would be evaluated.
DunderAll == IF conf.eager THEN {} ELSE {"collections"}

QueryAnnotations(f) ==
  LET qs == Of(f) IN
    DunderAll \cup {"typing"} \cup QueryResultsNames(qs)
      \cup (UNION {Names(t) : t \in ToConvert(f)})
      \cup (UNION {ConnNames \cup ResultNames(q) \cup ArgNames(q) : q \in qs})
      \cup UNION {FieldNames(v) : v \in ValuesOf(qs)}

ModelAnnotations == DunderAll \cup ((UNION {ClassNames(m) : m \in models}) \ {"models"})

\* The aliases under `if typing.TYPE_CHECKING:': ConnectionLike, and the types of
\* QueryResultsArgsType, which are there if imported.
AliasNames == IF conf.driver = "asyncpg" THEN {"asyncpg", "typing"} ELSE {}

Annotations(f) == IF f = "models" THEN ModelAnnotations ELSE QueryAnnotations(f)

-----------------------------------------------------------------------------
(* Loading a file. *)

ImportsOf(f) == imports[IF f = "models" THEN "models" ELSE "query"]

\* OmitTypecheckingBlock writes the checker's imports of models.py as they are.
Bound(f) ==
  ImportsOf(f).runtime \cup (IF f = "models" /\ conf.omitBlock THEN ImportsOf(f).checking ELSE {})

\* `if typing.TYPE_CHECKING:'
BlockNames(f) ==
  IF ImportsOf(f).checking = {} \/ (f = "models" /\ conf.omitBlock) THEN {} ELSE {"typing"}

\* The calls of register_adapter.
RegistrationNames(f) ==
  IF f = "models" \/ ToConvert(f) = {} THEN {}
  ELSE {conf.driver} \cup UNION {Names(t) : t \in ToConvert(f)}

\* Bases and decorators, the type variable of QueryResults, the adapters of
\* validated types, and the annotations where Python evaluates them.
BodyNames(f) ==
  (IF f = "models"
   THEN (IF models = {} THEN {} ELSE {Base}) \cup (IF enums THEN {"enum"} ELSE {})
   ELSE (IF \E v \in ValuesOf(Of(f)) : Emits(v) THEN {Base} ELSE {})
        \cup (IF AnyMany(Of(f)) THEN {"typing"} ELSE {})
        \cup (IF \E q \in Of(f) : Validated(q.ret) THEN {"pydantic", "T"} ELSE {}))
  \cup (IF conf.eager THEN Annotations(f) ELSE {})

\* Python reads all of a file before it runs any of it.
Outcome(f) ==
  CASE "" \in ImportsOf(f).runtime \cup ImportsOf(f).checking -> "SyntaxError"
    [] ~(BlockNames(f) \cup RegistrationNames(f) \cup BodyNames(f) \subseteq Bound(f)) -> "NameError"
    [] OTHER -> "loaded"

LoadModels ==
  /\ imports["query"].runtime # {} /\ loaded["models"] = "new"
  /\ loaded' = [loaded EXCEPT !["models"] = Outcome("models")]
  /\ UNCHANGED <<input, imports, converters, last>>

\* A query file that imports models loads it first, and fails with it.
LoadQueries(f) ==
  LET parses == Outcome(f) # "SyntaxError"
      ofModels == IF parses /\ "models" \in Bound(f) /\ loaded["models"] = "new"
                  THEN Outcome("models") ELSE loaded["models"]
      ready == "models" \in Bound(f) => ofModels = "loaded"
  IN
  /\ imports["query"].runtime # {} /\ Of(f) # {} /\ loaded[f] = "new"
  /\ loaded' = [loaded EXCEPT !["models"] = ofModels,
                              ![f] = IF parses /\ ~ready THEN ofModels ELSE Outcome(f)]
  /\ converters' = converters \cup (IF ready /\ parses /\ RegistrationNames(f) \subseteq Bound(f)
                                    THEN ToConvert(f) ELSE {})
  /\ UNCHANGED <<input, imports, last>>

-----------------------------------------------------------------------------
(* Calling a query, from a loaded file. *)

\* The constructors and conversions of the result.
DecodeNames(q) ==
  LET v == q.ret
      converted == IF conf.driver = "sqlalchemy" /\ Validated(v) THEN {} ELSE TypesRead(v) \cap {"T"}
  IN CASE v.kind = "none" -> {}
       [] v.kind = "scalar" /\ conf.driver = "sqlalchemy" -> {}
       [] v.kind = "scalar" /\ conf.driver = "asyncpg" -> UNION {Names(t) : t \in {u \in TypesIn(v) : ByTable(u)}}
       [] v.kind = "scalar" /\ OnSqlite -> UNION {Names(t) : t \in TypesIn(v) \cap {"T"}}
       [] OTHER -> (UNION {Names(t) : t \in converted})
                     \cup (IF v.kind = "model" \/ v.embeds # {} THEN {"models"} ELSE {})

\* `QueryResults[T](conn, SQL, hook)' of a :many; the hook of a scalar that is
\* not converted is operator.itemgetter.
WrapperNames(q) ==
  LET plain == q.ret.kind = "scalar" /\ \A t \in TypesIn(q.ret) : IF OnSqlite THEN t # "T" ELSE ~ByTable(t)
  IN IF q.cmd \notin Many \/ conf.driver = "sqlalchemy" THEN {}
     ELSE ResultNames(q) \cup (IF plain THEN {"operator"} ELSE {})

\* An argument with an override is wrapped in the type the column would have.
ParamNames(q) ==
  IF Scalar("T") \in q.args /\ conf.driver # "sqlalchemy" /\ ~(OnSqlite /\ q.cmd \in Many)
  THEN Names(conf.base) ELSE {}

\* The converters of the columns' types, where there is one.
ConverterNames(v) ==
  IF ~OnSqlite THEN {}
  ELSE UNION {IF t = "date" /\ conf.speedups THEN {"ciso8601"} ELSE Names(t) :
              t \in {SqlType(u) : u \in TypesRead(v)} \cap converters}

CallNames(q) ==
  DecodeNames(q) \cup WrapperNames(q) \cup ParamNames(q) \cup ConverterNames(q.ret)
    \cup (IF conf.driver = "sqlalchemy" THEN {"sqlalchemy"} ELSE {})

\* The values of a sqlite column come converted when its type is in the table.
CallQuery(q) ==
  /\ loaded[q.file] = "loaded"
  /\ last' = <<[query |-> q,
                missing |-> CallNames(q) \ Bound(q.file),
                raw |-> {t \in UNION {TypesRead(v) : v \in ValuesOf({q})} : OnSqlite /\ t # "T" /\ ByTable(t)} \ converters]>>
  /\ UNCHANGED <<input, imports, loaded, converters>>

ImpNext ==
  \/ Generate
  \/ LoadModels
  \/ \E f \in Files : LoadQueries(f)
  \/ \E q \in queries : CallQuery(q)

ImpSpec == ImpInit /\ [][ImpNext]_impVars

-----------------------------------------------------------------------------
(* What the code is known not to do, as exceptions of the properties.        *)

\* An override to a builtin has no import, and `import ' is written for it.
ImportsNothing ==
  conf.override = "builtin" /\ \E x \in ValuesOf(queries) \cup models : "int" \in {PyName(t) : t \in TypesIn(x)}

\* With pydantic the signatures and QueryResults are evaluated when they are
\* defined, and only the SQLAlchemy driver has their names then.
EagerSignatures == conf.eager /\ conf.driver # "sqlalchemy"

\* `len(std) > 2' counts modules; bool and blob have none, and one is not enough.
\* ciso8601 converts dates, but they are still registered by their class.
RegistrationsUnbound(f) ==
  ToConvert(f) # {} /\ (Cardinality(Std.runtime) <= 2 \/ (conf.speedups /\ "date" \in ToConvert(f)))

\* The type of an override is imported for the values of a query, not for the
\* fields of a model it builds; operator not for results that sqlite converts;
\* collections.abc not for the list of QueryResults[...]; and not the module of
\* the type that an overridden argument is wrapped in.
KnownMissing(q) ==
  (IF (q.ret.kind = "model" /\ ~OnSqlite) \/ "T" \in TypesEmbedded(q.ret) THEN {"T"} ELSE {})
  \cup (IF OnSqlite /\ q.ret.kind = "scalar" /\ (\E t \in TypesIn(q.ret) : ByTable(t)) THEN {"operator"} ELSE {})
  \cup (IF q.cmd \in Many /\ q.ret = Scalar("ints") THEN {"collections"} ELSE {})
  \cup (IF Scalar("T") \in q.args THEN Names(conf.base) ELSE {})

-----------------------------------------------------------------------------
(* Properties *)

\* importer.go:116-126, 404-410: Python finds every name it evaluates when a file
\* is loaded, in any order of loading, whatever other files make the importer
\* add: bases, adapters of validated types, registrations, and with pydantic the
\* annotations. The exceptions are above.
ModuleLoads ==
  ~ImportsNothing =>
    \A f \in DOMAIN loaded :
      f = "models" \/ ~(EagerSignatures \/ RegistrationsUnbound(f)) => loaded[f] \in {"new", "loaded"}

\* A call of a query in a loaded file finds every name that it needs, up to the
\* exceptions above: constructors, overrides, hooks, conversions.
CallsResolve == last # <<>> => last[1].missing \subseteq KnownMissing(last[1].query)

\* A type checker, which reads both blocks, finds every name of every annotation
\* (importer.go:151-156, "breaking pyright").
CheckerResolves ==
  imports["query"].runtime # {} /\ ~EagerSignatures =>
    \A f \in {"models"} \cup {q.file : q \in queries} :
      Annotations(f) \cup (IF f = "models" THEN {} ELSE AliasNames) \subseteq ImportsOf(f).runtime \cup ImportsOf(f).checking

\* No import is written twice, and none is dead (importer.go:421-427, "ruff F401")
\* in a package of one query file: what the importer adds is needed by an
\* annotation, by loading or by a call. operator is left out, it is imported for
\* the result of any query.
Needed(f) ==
  BlockNames(f) \cup RegistrationNames(f) \cup BodyNames(f) \cup Annotations(f) \cup AliasNames
    \cup (IF "date" \in ToConvert(f) /\ conf.speedups THEN {"ciso8601"} ELSE {})
    \cup UNION {CallNames(q) : q \in Of(f)}

ImportsUsed ==
  /\ \A k \in DOMAIN imports : imports[k].runtime \cap imports[k].checking = {}
  /\ \A f \in {q.file : q \in queries} : Of(f) = queries =>
       (imports["query"].runtime \cup imports["query"].checking) \ {"operator", ""} \subseteq Needed(f)

\* sqlite: the columns and arguments of a query come and go converted, whichever
\* files were loaded before. The fields of an embedded model are left out: no
\* file registers for them, so they depend on what else was loaded.
ReadsAsDeclared ==
  last # <<>> =>
    LET q == last[1].query
    IN last[1].raw \subseteq TypesEmbedded(q.ret) \ UNION {TypesIn(v) : v \in ValuesOf({q})}

\* importer.go:343-345: "if they are more than 2, we need to add type conversion
\* and for that we need the aiosqlite in the normal import block".
RegistrationsImported ==
  imports["query"].runtime # {} =>
    \A f \in Files : RegistrationNames(f) \subseteq Bound(f)
=============================================================================
