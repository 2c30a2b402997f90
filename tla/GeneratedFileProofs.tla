------------------------- MODULE GeneratedFileProofs -------------------------
(***************************************************************************)
(* Generated files in use.  First the importer: for every package and every *)
(* option set, whatever files are loaded and queries called in whatever     *)
(* order, each name is found that Python or a type checker looks for, up to *)
(* the exceptions of Importer, none is imported in vain, and sqlite values  *)
(* come converted.                                                          *)
(*                                                                         *)
(* The package does not change, so the imports are those that it determines *)
(* and each file ends as they say (Outcome).  What a step can disturb is    *)
(* little: that a loaded file has registered its types, and that a type in  *)
(* the table of sqlite3 was registered by a file of the package.  The long  *)
(* part is what the imports hold: each use of a type by a value gives its   *)
(* name to one of the blocks, and each name in a block is of a use.         *)
(*                                                                         *)
(* Then the QueryResults class of sqlite3: however the loops over one       *)
(* object are nested, broken off and repeated, it behaves as RowIteration   *)
(* says, and a loop that has it for itself sees every row.                  *)
(***************************************************************************)
EXTENDS Importer, SyncQueryResults, SequenceLemmas

-----------------------------------------------------------------------------
(* The inductive invariant of the importer.                                 *)

\* sqlc and the passes before hand over a package that can be.
Handed ==
  /\ conf \in Options
  /\ models \subseteq Classes(conf)
  /\ queries \subseteq Queries(conf, models)

NotImported == imports = [f \in {"models", "query"} |-> [runtime |-> {}, checking |-> {}]]
HasImports == imports = [models |-> ModelImports, query |-> QueryImports]

\* Nothing is loaded, registered or called before there are files.
Generating ==
  \/ HasImports
  \/ /\ NotImported
     /\ loaded = [f \in {"models"} \cup Files |-> "new"]
     /\ converters = {} /\ last = <<>>

\* A file ends as it must, or with the models it imports.
Loading ==
  /\ loaded \in [{"models"} \cup Files -> {"new", "loaded", "NameError", "SyntaxError"}]
  /\ loaded["models"] \in {"new", Outcome("models")}
  /\ \A f \in Files :
       \/ loaded[f] \in {"new", Outcome(f)}
       \/ loaded[f] = Outcome("models") /\ loaded[f] # "loaded"

\* A loaded file has registered its types, and a type that is registered was by a
\* file whose imports are enough for that.
Registering ==
  /\ \A f \in Files : loaded[f] = "loaded" => Outcome(f) = "loaded" /\ ToConvert(f) \subseteq converters
  /\ \A t \in converters : \E f \in Files : t \in ToConvert(f) /\ RegistrationNames(f) \subseteq Bound(f)

ImpInv == Handed /\ Generating /\ Loading /\ Registering /\ CallsResolve /\ ReadsAsDeclared

-----------------------------------------------------------------------------
(* What a step that leaves the package leaves with it. *)

\* The standard imports are a function of the package.
LEMMA StdStays ==
  ASSUME UNCHANGED input
  PROVE  Std' = Std
<1>1. conf' = conf /\ queries' = queries
  BY DEF input
<1> QED BY <1>1 DEF Std, QueryUses, Imported, Binds, BySpeedup, ValueUses, ValuesOf, FirstUse,
                    PyName, OnSqlite, Override, SqlType, ByTable, Converts

\* So are the names and conversions of types, and what a class or a header names.
LEMMA TypesStay ==
  ASSUME UNCHANGED input
  PROVE  \A t, v, qs :
           /\ Names(t)' = Names(t) /\ ByTable(t)' = ByTable(t) /\ Converts(t)' = Converts(t)
           /\ NamesIn(v)' = NamesIn(v) /\ FieldModules(v)' = FieldModules(v)
           /\ ClassNames(v)' = ClassNames(v) /\ FieldNames(v)' = FieldNames(v)
           /\ Validated(v)' = Validated(v) /\ ResultNames(v)' = ResultNames(v)
           /\ ArgNames(v)' = ArgNames(v)
           /\ QueryResultsNames(qs)' = QueryResultsNames(qs)
<1>1. conf' = conf
  BY DEF input
<1> TAKE t, v, qs
<1>2. Names(t)' = Names(t) /\ ByTable(t)' = ByTable(t) /\ Converts(t)' = Converts(t)
  BY <1>1 DEF Names, ByTable, Converts, OnSqlite, SqlType
<1>3. NamesIn(v)' = NamesIn(v)
  BY <1>1 DEF NamesIn, Names, TypesIn
<1>4. FieldModules(v)' = FieldModules(v)
  BY <1>3 DEF FieldModules
<1>5. ClassNames(v)' = ClassNames(v) /\ FieldNames(v)' = FieldNames(v)
  BY <1>1, <1>3 DEF ClassNames, FieldNames
<1>6. Validated(v)' = Validated(v)
  BY <1>1 DEF Validated
<1>7. ResultNames(v)' = ResultNames(v)
  BY <1>1 DEF ResultNames, NamesIn, Names, TypesIn
<1>8. ArgNames(v)' = ArgNames(v)
  BY <1>1 DEF ArgNames, NamesIn, Names, TypesIn
<1>9. QueryResultsNames(qs)' = QueryResultsNames(qs)
  BY <1>1 DEF QueryResultsNames, AnyMany
<1> QED BY <1>2, <1>3, <1>4, <1>5, <1>6, <1>7, <1>8, <1>9

\* So are the imports of both kinds of file.
LEMMA ImportsStay ==
  ASSUME UNCHANGED input
  PROVE  QueryImports' = QueryImports /\ ModelImports' = ModelImports
<1>1. conf' = conf /\ queries' = queries /\ models' = models /\ enums' = enums
  BY DEF input
<1>2. Std' = Std
  BY StdStays
<1>3. SimpleReturn' = SimpleReturn
  BY <1>1 DEF SimpleReturn, ByTable, OnSqlite, SqlType
<1>4. \A v : BySpeedup("date", v)' = BySpeedup("date", v)
  BY <1>1 DEF BySpeedup, ValueUses, FirstUse, PyName, OnSqlite, SqlType, ByTable, Converts
<1>5. DriverImports' = DriverImports
  BY <1>1, <1>2, <1>3, <1>4 DEF DriverImports, AnyMany, ValuesOf, Add
<1>6. ModelBase' = ModelBase /\ ReferencesModels' = ReferencesModels /\ Base' = Base
  BY <1>1 DEF ModelBase, Base, ReferencesModels, ValuesOf
<1>7. QueryFieldModules' = QueryFieldModules
  BY <1>1, TypesStay DEF QueryFieldModules, ValuesOf
<1>8. QueryImports' = QueryImports
  BY <1>1, <1>5, <1>6, <1>7 DEF QueryImports, Fold, Add, Validated, AnyMany
<1>9. ModelImports' = ModelImports
  <2> DEFINE used == {n \in Imported : \E m \in models : FirstUse(n, m) # {}}
  <2>1. used' = used
    BY <1>1 DEF Imported, Override, FirstUse, PyName
  <2>2. {Binds(n) : n \in used}' = {Binds(n) : n \in used}
    BY <2>1 DEF Binds
  <2>3. UNION {FieldModules(m) : m \in models}' = UNION {FieldModules(m) : m \in models}
    BY <1>1, TypesStay
  <2> QED BY <1>1, <1>6, <2>2, <2>3 DEF ModelImports, Fold
<1> QED BY <1>8, <1>9

\* What a file evaluates, and how it ends, depends on the package and the imports only.
LEMMA LoadingStays ==
  ASSUME UNCHANGED <<input, imports>>
  PROVE  \A f : /\ Outcome(f)' = Outcome(f) /\ ToConvert(f)' = ToConvert(f)
                /\ RegistrationNames(f)' = RegistrationNames(f) /\ Bound(f)' = Bound(f)
                /\ Of(f)' = Of(f)
<1>1. conf' = conf /\ queries' = queries /\ models' = models /\ enums' = enums /\ imports' = imports
  BY DEF input
<1> TAKE f
<1>2. Of(f)' = Of(f) /\ ImportsOf(f)' = ImportsOf(f) /\ Bound(f)' = Bound(f) /\ BlockNames(f)' = BlockNames(f)
  BY <1>1 DEF Of, ImportsOf, Bound, BlockNames
<1>3. ToConvert(f)' = ToConvert(f)
  BY <1>1, <1>2 DEF ToConvert, OnSqlite, ByTable, SqlType, ValuesOf
<1>4. RegistrationNames(f)' = RegistrationNames(f)
  BY <1>1, <1>3 DEF RegistrationNames, Names
<1>5. ModelAnnotations' = ModelAnnotations
  BY <1>1, TypesStay DEF ModelAnnotations, DunderAll
<1>6. QueryAnnotations(f)' = QueryAnnotations(f)
  <2>1. UNION {Names(t) : t \in ToConvert(f)}' = UNION {Names(t) : t \in ToConvert(f)}
    BY <1>3, TypesStay
  <2>2. ConnNames' = ConnNames /\ DunderAll' = DunderAll
    BY <1>1 DEF ConnNames, DunderAll
  <2>3. UNION {ConnNames \cup ResultNames(q) \cup ArgNames(q) : q \in Of(f)}'
          = UNION {ConnNames \cup ResultNames(q) \cup ArgNames(q) : q \in Of(f)}
    BY <1>2, <2>2, TypesStay
  <2>4. ValuesOf(Of(f))' = ValuesOf(Of(f)) /\ QueryResultsNames(Of(f))' = QueryResultsNames(Of(f))
    <3> DEFINE qs == Of(f)
    <3>1. QueryResultsNames(qs)' = QueryResultsNames(qs)
      BY <1>1, <1>2 DEF QueryResultsNames, AnyMany
    <3> QED BY <1>2, <3>1 DEF ValuesOf
  <2>5. UNION {FieldNames(v) : v \in ValuesOf(Of(f))}' = UNION {FieldNames(v) : v \in ValuesOf(Of(f))}
    BY <2>4, TypesStay
  <2> QED BY <2>1, <2>2, <2>3, <2>4, <2>5 DEF QueryAnnotations
<1>7. BodyNames(f)' = BodyNames(f)
  BY <1>1, <1>2, <1>5, <1>6, TypesStay DEF BodyNames, Annotations, ValuesOf, AnyMany, Base
<1>8. Outcome(f)' = Outcome(f)
  BY <1>2, <1>4, <1>7 DEF Outcome
<1> QED BY <1>2, <1>3, <1>4, <1>8

\* The exceptions of a query depend on the options only.
LEMMA ExceptionsStay ==
  ASSUME UNCHANGED input
  PROVE  \A q : KnownMissing(q)' = KnownMissing(q)
<1>1. conf' = conf
  BY DEF input
<1> QED BY <1>1, TypesStay DEF KnownMissing, TypesIn, TypesEmbedded, OnSqlite

-----------------------------------------------------------------------------
(* Packages. *)

\* The options of a package that can be.
LEMMA OptionFacts ==
  ASSUME Handed
  PROVE  /\ conf.driver \in {"sqlite3", "aiosqlite", "asyncpg", "sqlalchemy"}
         /\ conf.override \in {"none", "typed", "validated", "builtin"}
         /\ conf.eager \in BOOLEAN /\ conf.speedups \in BOOLEAN /\ conf.omitBlock \in BOOLEAN
         /\ conf.base \in {"int", "text", "bool", "blob", "date", "decimal", "any", "uuid", "enum"}
         /\ conf.override = "validated" => conf.driver = "sqlalchemy"
         /\ Types(conf) \subseteq {"int", "text", "bool", "blob", "date", "decimal", "any", "uuid",
                                   "enum", "ints", "T"}
         /\ "T" \in Types(conf) => Override
<1>1. conf \in AllOptions
  BY OptionsPossible DEF Handed
<1> QED BY <1>1 DEF AllOptions, Types, SqlTypes, Sqlite, Override

\* A query of such a package: its file, its verb, and the form of its result and arguments.
LEMMA QueryFacts ==
  ASSUME Handed, NEW q \in queries
  PROVE  /\ q.file \in Files
         /\ q.cmd \in {"one", "many", "returning", "exec", "copyfrom"}
         /\ q.ret \in ValuesOf(queries) /\ q.args \subseteq ValuesOf(queries)
         /\ q.ret.kind \in {"none", "scalar", "row", "model"}
         /\ q.ret.kind # "row" => q.ret.embeds = {}
         /\ q.ret.kind = "none" => q.ret.cols = <<>>
         /\ q.ret.kind = "scalar" => \E t \in Types(conf) : q.ret = Scalar(t)
         /\ q.ret.cols \in Seq(Types(conf)) /\ q.ret.embeds \subseteq models
         /\ \A a \in q.args : /\ a.kind \in {"scalar", "row"} /\ a.embeds = {} /\ a.cols \in Seq(Types(conf))
                              /\ a.kind = "scalar" => \E t \in Types(conf) : a = Scalar(t)
         /\ q.cmd = "copyfrom" => conf.driver = "asyncpg" /\ \E a \in q.args : Emits(a)
<1>1. q \in Queries(conf, models)
  BY DEF Handed
<1>2. q.ret \in ValuesOf(queries) /\ q.args \subseteq ValuesOf(queries)
  BY DEF ValuesOf
<1>3. \A t \in Types(conf) : /\ Scalar(t).kind = "scalar" /\ Scalar(t).embeds = {}
                             /\ Scalar(t).cols \in Seq(Types(conf))
  BY DEF Scalar, Value
<1>4. \A m \in models : Model(m).kind = "model" /\ Model(m).embeds = {} /\ Model(m).cols \in Seq(Types(conf))
  BY DEF Model, Value, Handed, Classes
<1>5. /\ Nothing.kind = "none" /\ Nothing.embeds = {} /\ Nothing.cols = <<>>
      /\ <<>> \in Seq(Types(conf))
  BY DEF Nothing, Value
<1>6. \A r \in Rows(conf, models) : r.kind = "row" /\ r.cols \in Seq(Types(conf)) /\ r.embeds \subseteq models
  BY DEF Rows
<1>7. \A r \in Rows(conf, {}) : r.kind = "row" /\ r.cols \in Seq(Types(conf)) /\ r.embeds = {}
  BY DEF Rows
<1>8. /\ q.file \in Files /\ q.cmd \in {"one", "many", "returning", "exec", "copyfrom"}
      /\ q.ret \in {Nothing} \cup Scalars(conf) \cup Rows(conf, models) \cup {Model(m) : m \in models}
      /\ q.args \subseteq Scalars(conf) \cup Rows(conf, {})
      /\ q.cmd = "copyfrom" => conf.driver = "asyncpg" /\ \E a \in q.args : Emits(a)
  BY <1>1 DEF Queries, Reading
<1>9. \A r \in Scalars(conf) : \E t \in Types(conf) : r = Scalar(t)
  BY DEF Scalars
<1>10. /\ q.ret.kind \in {"none", "scalar", "row", "model"}
       /\ q.ret.kind # "row" => q.ret.embeds = {}
       /\ q.ret.kind = "none" => q.ret.cols = <<>>
       /\ q.ret.kind = "scalar" => \E t \in Types(conf) : q.ret = Scalar(t)
       /\ q.ret.cols \in Seq(Types(conf)) /\ q.ret.embeds \subseteq models
  <2>1. CASE q.ret = Nothing
    <3>1. q.ret.kind = "none" /\ q.ret.embeds = {} /\ q.ret.cols = <<>>
      BY <1>5, <2>1
    <3> QED BY <1>5, <3>1
  <2>2. CASE q.ret \in Scalars(conf)
    BY <1>3, <1>9, <2>2
  <2>3. CASE q.ret \in Rows(conf, models)
    BY <1>6, <2>3
  <2>4. CASE q.ret \in {Model(m) : m \in models}
    BY <1>4, <2>4
  <2> QED BY <1>8, <2>1, <2>2, <2>3, <2>4
<1>11. ASSUME NEW a \in q.args
       PROVE  /\ a.kind \in {"scalar", "row"} /\ a.embeds = {} /\ a.cols \in Seq(Types(conf))
              /\ a.kind = "scalar" => \E t \in Types(conf) : a = Scalar(t)
  <2>1. CASE a \in Scalars(conf)
    BY <1>3, <1>9, <2>1
  <2>2. CASE a \in Rows(conf, {})
    BY <1>7, <2>2
  <2> QED BY <1>8, <2>1, <2>2
<1> QED BY <1>2, <1>8, <1>10, <1>11

\* A value of a query is its result or an argument.
LEMMA ValueFacts ==
  ASSUME Handed, NEW v \in ValuesOf(queries)
  PROVE  /\ v.kind \in {"none", "scalar", "row", "model"}
         /\ v.kind = "none" => v.cols = <<>>
         /\ v.kind = "scalar" => \E t \in Types(conf) : v = Scalar(t)
         /\ v.cols \in Seq(Types(conf)) /\ v.embeds \subseteq models
         /\ v.kind # "row" => v.embeds = {}
         /\ \E q \in queries : v = q.ret \/ (v \in q.args /\ v.kind # "model")
<1>1. PICK q \in queries : v = q.ret \/ v \in q.args
  BY DEF ValuesOf
<1>2. CASE v = q.ret
  BY <1>1, <1>2, QueryFacts
<1>3. CASE v \in q.args
  BY <1>1, <1>3, QueryFacts
<1> QED BY <1>1, <1>2, <1>3

\* The types of a class, a scalar and nothing.
LEMMA TypeFacts ==
  ASSUME NEW x
  PROVE  /\ \A S : x.cols \in Seq(S) => TypesIn(x) \subseteq S
         /\ \A t : x = Scalar(t) => TypesIn(x) = {t}
         /\ x.cols = <<>> => TypesIn(x) = {}
         /\ \A t \in TypesIn(x) : \E i \in DOMAIN x.cols : x.cols[i] = t
<1>1. \A S : x.cols \in Seq(S) => TypesIn(x) \subseteq S
  BY DEF TypesIn
<1>2. ASSUME NEW t, x = Scalar(t) PROVE TypesIn(x) = {t}
  <2>1. x.cols = <<t>>
    BY <1>2 DEF Scalar, Value
  <2> QED BY <2>1 DEF TypesIn
<1>3. x.cols = <<>> => TypesIn(x) = {}
  BY DEF TypesIn
<1>4. \A t \in TypesIn(x) : \E i \in DOMAIN x.cols : x.cols[i] = t
  BY DEF TypesIn
<1> QED BY <1>1, <1>2, <1>3, <1>4

-----------------------------------------------------------------------------
(* Uses of a type, and the imports they give. *)

\* A type with a module of its own.
Modular(t) == t \in {"date", "decimal", "uuid"} \/ (t = "T" /\ conf.override \in {"typed", "validated"})

\* Only such a type has its name.
LEMMA PyNameFacts ==
  ASSUME NEW t, Modular(t)
  PROVE  /\ PyName(t) = t /\ t \in Imported /\ t # "int"
         /\ \A u : PyName(u) = t => u = t
         /\ Binds(t) = IF t = "date" THEN "datetime" ELSE t
         /\ Names(t) = {Binds(t)}
<1>1. PyName(t) = t /\ t # "int"
  BY DEF Modular, PyName
<1>2. t \in Imported
  BY <1>1 DEF Modular, Imported, Override
<1>3. \A u : PyName(u) = t => u = t
  BY DEF Modular, PyName
<1>4. Binds(t) = IF t = "date" THEN "datetime" ELSE t
  BY <1>1 DEF Binds
<1>5. Names(t) = {Binds(t)}
  BY <1>4 DEF Names, Modular
<1> QED BY <1>1, <1>2, <1>3, <1>4, <1>5

\* What the importer looks for has a module, but for an override to a builtin.
LEMMA ImportedIs ==
  ASSUME Handed, NEW n \in Imported
  PROVE  Modular(n) \/ (n = "int" /\ conf.override = "builtin")
<1>1. conf.override \in {"none", "typed", "validated", "builtin"}
  BY OptionFacts
<1>2. Override => PyName("T") = (IF conf.override = "builtin" THEN "int" ELSE "T")
  BY DEF PyName
<1> QED BY <1>1, <1>2 DEF Imported, Modular, Override

\* The first column with a name is one that the search finds.
LEMMA FirstUseExists ==
  ASSUME NEW S, NEW x, x.cols \in Seq(S), NEW t \in TypesIn(x)
  PROVE  FirstUse(PyName(t), x) # {}
<1> DEFINE n == PyName(t)
<1> DEFINE U == {i \in DOMAIN x.cols : PyName(x.cols[i]) = n}
<1>1. U # {} /\ U \subseteq Nat
  BY DEF TypesIn
<1>2. PICK i \in U : \A j \in U : i <= j
  BY <1>1, SmallestOf
<1>3. i \in FirstUse(n, x)
  <2>1. ASSUME NEW j \in 1..(i - 1) PROVE PyName(x.cols[j]) # n
    BY <1>2, <2>1, SMT
  <2> QED BY <2>1, <1>2 DEF FirstUse
<1> QED BY <1>3

\* A use is for the checker or not.
LEMMA UsesAreBoolean == \A n, v : ValueUses(n, v) \subseteq BOOLEAN
BY DEF ValueUses

\* The uses of a type that a value has.
LEMMA UsesOf ==
  ASSUME Handed, NEW v \in ValuesOf(queries), NEW t \in TypesIn(v), Modular(t)
  PROVE  /\ v.kind # "model" => ValueUses(t, v) = {conf.driver # "sqlalchemy" /\ ~Converts(t)}
         /\ v.kind = "model" /\ OnSqlite /\ Converts(t) => ValueUses(t, v) = {FALSE}
<1>1. v.cols \in Seq(Types(conf))
  BY ValueFacts
<1>2. FirstUse(t, v) # {}
  BY <1>1, FirstUseExists, PyNameFacts
<1>3. \A i \in FirstUse(t, v) : v.cols[i] = t
  BY PyNameFacts DEF FirstUse
<1>4. ASSUME v.kind # "model" PROVE ValueUses(t, v) = {conf.driver # "sqlalchemy" /\ ~Converts(t)}
  <2>1. ValueUses(t, v) = {conf.driver # "sqlalchemy" /\ ~Converts(v.cols[i]) : i \in FirstUse(t, v)}
    BY <1>4 DEF ValueUses
  <2>2. \A i \in FirstUse(t, v) :
          (conf.driver # "sqlalchemy" /\ ~Converts(v.cols[i])) = (conf.driver # "sqlalchemy" /\ ~Converts(t))
    BY <1>3
  <2> QED BY <2>1, <2>2, <1>2
<1>5. ASSUME v.kind = "model", OnSqlite, Converts(t) PROVE ValueUses(t, v) = {FALSE}
  BY <1>2, <1>3, <1>5 DEF ValueUses
<1> QED BY <1>4, <1>5

\* A use is of a type that the value has.
LEMMA UsesOnlyOf ==
  ASSUME Handed, NEW v \in ValuesOf(queries), NEW n \in Imported, ValueUses(n, v) # {}
  PROVE  /\ \E t \in TypesIn(v) : PyName(t) = n
         /\ Modular(n) => n \in TypesIn(v) /\ (v.kind = "model" => OnSqlite /\ Converts(n))
         /\ n = "int" \/ Modular(n)
<1>1. PICK i \in FirstUse(n, v) : v.kind = "model" => OnSqlite /\ Converts(v.cols[i])
  BY DEF ValueUses
<1>2. v.cols[i] \in TypesIn(v) /\ PyName(v.cols[i]) = n
  BY DEF FirstUse, TypesIn
<1>3. Modular(n) => v.cols[i] = n
  BY <1>2, PyNameFacts
<1> QED BY <1>1, <1>2, <1>3, ImportedIs

\* Each use of an imported type puts what it binds in a block, at run time if it must.
LEMMA StdHas ==
  ASSUME NEW n \in Imported
  PROVE  /\ \A v \in ValuesOf(queries) :
              /\ ValueUses(n, v) # {} => Binds(n) \in Std.runtime \cup Std.checking
              /\ FALSE \in ValueUses(n, v) /\ ~BySpeedup(n, v) => Binds(n) \in Std.runtime
         /\ \A q \in queries : q.cmd \in Many /\ ValueUses(n, q.ret) # {} => Binds(n) \in Std.runtime
<1>1. QueryUses(n) \subseteq BOOLEAN
  <2>1. \A v : (IF BySpeedup(n, v) THEN {TRUE} ELSE ValueUses(n, v)) \subseteq BOOLEAN
    BY UsesAreBoolean
  <2>2. UNION {IF BySpeedup(n, v) THEN {TRUE} ELSE ValueUses(n, v) : v \in ValuesOf(queries)} \subseteq BOOLEAN
    BY <2>1
  <2> QED BY <2>2 DEF QueryUses
<1>2. FALSE \in QueryUses(n) => Binds(n) \in Std.runtime
  BY DEF Std
<1>3. QueryUses(n) = {TRUE} => Binds(n) \in Std.checking
  BY DEF Std
<1>4. QueryUses(n) # {} => Binds(n) \in Std.runtime \cup Std.checking
  BY <1>1, <1>2, <1>3
<1>5. ASSUME NEW v \in ValuesOf(queries), ValueUses(n, v) # {} PROVE QueryUses(n) # {}
  BY <1>5 DEF QueryUses
<1>6. ASSUME NEW v \in ValuesOf(queries), FALSE \in ValueUses(n, v), ~BySpeedup(n, v)
      PROVE  FALSE \in QueryUses(n)
  BY <1>6 DEF QueryUses
<1>7. ASSUME NEW q \in queries, q.cmd \in Many, ValueUses(n, q.ret) # {} PROVE FALSE \in QueryUses(n)
  BY <1>7 DEF QueryUses
<1> QED BY <1>2, <1>4, <1>5, <1>6, <1>7

\* The standard imports hold nothing else but typing and collections.abc.
LEMMA StdOnly ==
  /\ \A x \in Std.runtime \cup Std.checking :
       \/ x \in {"typing", "collections"}
       \/ \E n \in Imported, v \in ValuesOf(queries) : x = Binds(n) /\ ValueUses(n, v) # {}
  /\ "typing" \in Std.runtime /\ "collections" \in Std.checking
<1>1. ASSUME NEW n, QueryUses(n) # {} PROVE \E v \in ValuesOf(queries) : ValueUses(n, v) # {}
  <2>1. CASE \E q \in queries : ValueUses(n, q.ret) # {}
    BY <2>1 DEF ValuesOf
  <2>2. CASE \E v \in ValuesOf(queries) : (IF BySpeedup(n, v) THEN {TRUE} ELSE ValueUses(n, v)) # {}
    BY <2>2 DEF BySpeedup
  <2> QED BY <1>1, <2>1, <2>2 DEF QueryUses
<1>2. \A x \in Std.runtime : x = "typing" \/ \E n \in Imported : x = Binds(n) /\ QueryUses(n) # {}
  BY DEF Std
<1>3. \A x \in Std.checking : x = "collections" \/ \E n \in Imported : x = Binds(n) /\ QueryUses(n) # {}
  BY DEF Std
<1>4. "typing" \in Std.runtime /\ "collections" \in Std.checking
  BY DEF Std
<1> QED BY <1>1, <1>2, <1>3, <1>4

\* Each key binds another name.
LEMMA StdApart ==
  ASSUME Handed
  PROVE  Std.runtime \cap Std.checking = {}
<1>1. ASSUME NEW n \in Imported
      PROVE  /\ Binds(n) \in {"datetime", "decimal", "uuid", "T", ""}
             /\ \A m \in Imported : Binds(m) = Binds(n) => m = n
  <2>1. \A m \in Imported : m \in {"date", "decimal", "uuid", "T", "int"}
    BY ImportedIs DEF Modular
  <2> QED BY <2>1 DEF Binds
<1>2. \A n : ~(FALSE \in QueryUses(n) /\ QueryUses(n) = {TRUE})
  OBVIOUS
<1> DEFINE running == {n \in Imported : FALSE \in QueryUses(n)}
<1> DEFINE checking == {n \in Imported : QueryUses(n) = {TRUE}}
<1>3. {Binds(n) : n \in running} \cap {Binds(n) : n \in checking} = {}
  BY <1>1, <1>2
<1>4. {Binds(n) : n \in running} \cup {Binds(n) : n \in checking}
        \subseteq {"datetime", "decimal", "uuid", "T", ""}
  BY <1>1
<1>5. /\ Std.runtime = {"typing"} \cup {Binds(n) : n \in running}
      /\ Std.checking = {"collections"} \cup {Binds(n) : n \in checking}
  BY DEF Std
<1> QED BY <1>3, <1>4, <1>5

-----------------------------------------------------------------------------
(* The imports of the query files. *)

\* The names that the standard imports can bind.
LEMMA StdNames ==
  ASSUME Handed
  PROVE  Std.runtime \cup Std.checking \subseteq {"typing", "collections", "datetime", "decimal", "uuid", "T", ""}
<1>1. \A n \in Imported : Binds(n) \in {"datetime", "decimal", "uuid", "T", ""}
  BY ImportedIs DEF Modular, Binds
<1> QED BY <1>1, StdOnly

\* They are finitely many, so Cardinality counts them.
LEMMA StdNamesFinite == IsFiniteSet({"typing", "collections", "datetime", "decimal", "uuid", "T", ""})
<1>1. \A x : IsFiniteSet({x})
  BY FS_Singleton
<1>2. \A S, T : IsFiniteSet(S) /\ IsFiniteSet(T) => IsFiniteSet(S \cup T)
  BY FS_Union
<1>3. /\ IsFiniteSet({"typing"} \cup {"collections"}) /\ IsFiniteSet({"datetime"} \cup {"decimal"})
      /\ IsFiniteSet({"uuid"} \cup {"T"}) /\ IsFiniteSet({""})
  BY <1>1, <1>2, Zenon
<1>4. /\ IsFiniteSet(({"typing"} \cup {"collections"}) \cup ({"datetime"} \cup {"decimal"}))
      /\ IsFiniteSet(({"uuid"} \cup {"T"}) \cup {""})
  BY <1>2, <1>3, Zenon
<1>5. IsFiniteSet((({"typing"} \cup {"collections"}) \cup ({"datetime"} \cup {"decimal"}))
                    \cup (({"uuid"} \cup {"T"}) \cup {""}))
  BY <1>2, <1>4, Zenon
<1>6. {"typing", "collections", "datetime", "decimal", "uuid", "T", ""}
        = (({"typing"} \cup {"collections"}) \cup ({"datetime"} \cup {"decimal"}))
             \cup (({"uuid"} \cup {"T"}) \cup {""})
  OBVIOUS
<1> QED BY <1>5, <1>6

\* The two blocks of the driver's imports, name by name.
LEMMA DriverImportsAre ==
  ASSUME Handed
  PROVE  /\ DriverImports.runtime =
              Std.runtime
              \cup (IF conf.driver = "sqlalchemy" THEN {"sqlalchemy"} ELSE {})
              \cup (IF conf.driver # "sqlalchemy" /\ AnyMany(queries) /\ SimpleReturn THEN {"operator"} ELSE {})
              \cup (IF OnSqlite /\ Cardinality(Std.runtime) > 2 THEN {conf.driver} ELSE {})
              \cup (IF OnSqlite /\ (\E v \in ValuesOf(queries) : BySpeedup("date", v)) THEN {"ciso8601"} ELSE {})
         /\ DriverImports.checking =
              Std.checking
              \cup (IF conf.driver = "asyncpg" THEN {"asyncpg"} ELSE {})
              \cup (IF conf.driver = "asyncpg" /\ AnyMany(queries) THEN {"asyncpg.cursor"} ELSE {})
              \cup (IF OnSqlite /\ ~(Cardinality(Std.runtime) > 2) THEN {conf.driver} ELSE {})
              \cup (IF conf.driver = "aiosqlite" /\ AnyMany(queries) THEN {"sqlite3"} ELSE {})
<1>1. OnSqlite <=> conf.driver \in {"sqlite3", "aiosqlite"}
  BY DEF OnSqlite, Sqlite
<1>2. CASE conf.driver = "sqlalchemy"
  BY <1>1, <1>2 DEF DriverImports, Add
<1>3. CASE conf.driver = "asyncpg"
  BY <1>1, <1>3 DEF DriverImports, Add
<1>4. CASE OnSqlite
  <2> DEFINE needed == Cardinality(Std.runtime) > 2
  <2> DEFINE ciso == \E v \in ValuesOf(queries) : BySpeedup("date", v)
  <2>1. DriverImports = 
          Add(Std, (IF AnyMany(queries) THEN IF SimpleReturn THEN {"operator"} ELSE {} ELSE {})
                     \cup (IF needed THEN {conf.driver} ELSE {}) \cup (IF ciso THEN {"ciso8601"} ELSE {}),
                   (IF needed THEN {} ELSE {conf.driver})
                     \cup (IF conf.driver = "aiosqlite" THEN IF AnyMany(queries) THEN {"sqlite3"} ELSE {} ELSE {}))
    BY <1>1, <1>4 DEF DriverImports
  <2> HIDE DEF needed, ciso
  <2>2. DriverImports.runtime =
          Std.runtime \cup (IF AnyMany(queries) THEN IF SimpleReturn THEN {"operator"} ELSE {} ELSE {})
            \cup (IF needed THEN {conf.driver} ELSE {}) \cup (IF ciso THEN {"ciso8601"} ELSE {})
    BY <2>1 DEF Add
  <2>3. DriverImports.checking =
          Std.checking \cup (IF needed THEN {} ELSE {conf.driver})
            \cup (IF conf.driver = "aiosqlite" THEN IF AnyMany(queries) THEN {"sqlite3"} ELSE {} ELSE {})
    BY <2>1 DEF Add
  <2> QED BY <2>2, <2>3, <1>1, <1>4 DEF needed, ciso
<1> QED BY <1>1, <1>2, <1>3, <1>4, OptionFacts

\* Before and after the fold of pydantic.
LEMMA QueryImportsAre ==
  LET runtime == DriverImports.runtime \cup ModelBase
      checking == DriverImports.checking
      fields == QueryFieldModules
      validated == IF \E q \in queries : Validated(q.ret) THEN {"pydantic", "T"} ELSE {}
  IN /\ QueryImports.runtime =
          (IF conf.eager THEN (runtime \ ({"typing"} \ fields)) \cup (checking \cap fields) ELSE runtime)
          \cup validated \cup (IF ReferencesModels THEN {"models"} ELSE {})
     /\ QueryImports.checking =
          ((IF conf.eager THEN (checking \ fields) \ {"collections"} ELSE checking) \ (validated \ {"pydantic"}))
          \cup (IF AnyMany(queries) /\ conf.driver # "sqlalchemy" THEN {"QueryResultsArgsType"} ELSE {})
          \cup (IF conf.driver = "asyncpg" THEN {"ConnectionLike"} ELSE {})
     /\ "typing" \in QueryFieldModules
<1>1. "typing" \in QueryFieldModules
  BY DEF QueryFieldModules
<1> QED BY <1>1 DEF QueryImports, Fold, Add

\* What the fold and the hooks keep of them in a query file.
LEMMA QueryImportsHave ==
  ASSUME Handed
  PROVE  /\ DriverImports.runtime \cup ModelBase \subseteq QueryImports.runtime
         /\ DriverImports.checking \ {"collections"} \subseteq QueryImports.runtime \cup QueryImports.checking
         /\ ~conf.eager => "collections" \in QueryImports.checking
         /\ conf.eager /\ "collections" \in QueryFieldModules => "collections" \in QueryImports.runtime
         /\ ReferencesModels => "models" \in QueryImports.runtime
         /\ (\E q \in queries : Validated(q.ret)) => {"pydantic", "T"} \subseteq QueryImports.runtime
         /\ AnyMany(queries) /\ conf.driver # "sqlalchemy" => "QueryResultsArgsType" \in QueryImports.checking
         /\ conf.driver = "asyncpg" => "ConnectionLike" \in QueryImports.checking
         /\ "typing" \in QueryImports.runtime
<1>1. "collections" \in DriverImports.checking /\ "typing" \in DriverImports.runtime
  BY DriverImportsAre, StdOnly
<1>2. conf.eager \in BOOLEAN
  BY OptionFacts
<1> QED BY <1>1, <1>2, QueryImportsAre

\* Each name in a block of a query file has one of these reasons.
LEMMA QueryImportsOnly ==
  ASSUME Handed, NEW x \in QueryImports.runtime \cup QueryImports.checking
  PROVE  \/ x \in {"operator", "typing"}
         \/ x = "collections" /\ (conf.eager => x \in QueryFieldModules)
         \/ \E n \in Imported, v \in ValuesOf(queries) : x = Binds(n) /\ ValueUses(n, v) # {}
         \/ x = conf.driver
         \/ x = "asyncpg.cursor" /\ conf.driver = "asyncpg" /\ AnyMany(queries)
         \/ x = "sqlite3" /\ conf.driver = "aiosqlite" /\ AnyMany(queries)
         \/ x = "ciso8601" /\ \E v \in ValuesOf(queries) : BySpeedup("date", v)
         \/ x \in ModelBase
         \/ x = "models" /\ ReferencesModels
         \/ x \in {"pydantic", "T"} /\ \E q \in queries : Validated(q.ret)
         \/ x = "QueryResultsArgsType" /\ AnyMany(queries) /\ conf.driver # "sqlalchemy"
         \/ x = "ConnectionLike" /\ conf.driver = "asyncpg"
<1>1. x \in Std.runtime =>
        \/ x = "typing"
        \/ \E n \in Imported, v \in ValuesOf(queries) : x = Binds(n) /\ ValueUses(n, v) # {}
        \/ x = "collections" /\ x \in Std.checking
  BY StdOnly
<1>2. ~(x = "collections" /\ x \in Std.runtime)
  BY StdApart, StdOnly
<1>3. x \in Std.checking \ {"collections"} =>
        \/ x = "typing"
        \/ \E n \in Imported, v \in ValuesOf(queries) : x = Binds(n) /\ ValueUses(n, v) # {}
  BY StdOnly
<1>4. ASSUME x = "collections" PROVE conf.eager => x \in QueryFieldModules
  <2>1. x \notin DriverImports.runtime
    BY <1>2, <1>4, DriverImportsAre, OptionFacts
  <2>2. x \notin ModelBase
    BY <1>4 DEF ModelBase, Base
  <2>3. x \notin {"pydantic", "T", "models", "QueryResultsArgsType", "ConnectionLike"}
    BY <1>4
  <2> QED BY <2>1, <2>2, <2>3, <1>4, QueryImportsAre
<1>5. \/ x \in DriverImports.runtime \cup DriverImports.checking \cup ModelBase
      \/ x = "models" /\ ReferencesModels
      \/ x \in {"pydantic", "T"} /\ \E q \in queries : Validated(q.ret)
      \/ x = "QueryResultsArgsType" /\ AnyMany(queries) /\ conf.driver # "sqlalchemy"
      \/ x = "ConnectionLike" /\ conf.driver = "asyncpg"
  BY QueryImportsAre
<1>6. x \in DriverImports.runtime \cup DriverImports.checking =>
        \/ x \in Std.runtime \cup Std.checking
        \/ x = "operator" \/ x = conf.driver
        \/ x = "asyncpg.cursor" /\ conf.driver = "asyncpg" /\ AnyMany(queries)
        \/ x = "sqlite3" /\ conf.driver = "aiosqlite" /\ AnyMany(queries)
        \/ x = "ciso8601" /\ \E v \in ValuesOf(queries) : BySpeedup("date", v)
  BY DriverImportsAre
<1> QED BY <1>1, <1>3, <1>4, <1>5, <1>6

\* No name is in both blocks of a query file.
LEMMA QueryBlocksApart ==
  ASSUME Handed
  PROVE  QueryImports.runtime \cap QueryImports.checking = {}
<1> DEFINE std == {"typing", "collections", "datetime", "decimal", "uuid", "T", ""}
<1>1. OnSqlite <=> conf.driver \in {"sqlite3", "aiosqlite"}
  BY DEF OnSqlite, Sqlite
<1>2. DriverImports.runtime \subseteq std \cup {"sqlalchemy", "operator", "sqlite3", "aiosqlite", "ciso8601"}
  BY <1>1, StdNames, DriverImportsAre
<1>3. DriverImports.checking \subseteq std \cup {"asyncpg", "asyncpg.cursor", "sqlite3", "aiosqlite"}
  BY <1>1, StdNames, DriverImportsAre
<1>4. DriverImports.runtime \cap DriverImports.checking = {}
  <2> DEFINE many == Cardinality(Std.runtime) > 2
  <2>1. Std.runtime \cap Std.checking = {}
    BY StdApart
  <2>2. Std.runtime \cup Std.checking \subseteq std
    BY StdNames
  <2> HIDE DEF many
  <2>3. CASE OnSqlite
    <3>1. conf.driver \notin std \cup {"operator", "ciso8601"}
      BY <1>1, <2>3
    <3>2. /\ DriverImports.runtime \subseteq Std.runtime \cup {"operator", "ciso8601"} \cup (IF many THEN {conf.driver} ELSE {})
          /\ DriverImports.checking \subseteq Std.checking \cup (IF many THEN {} ELSE {conf.driver})
                                         \cup (IF conf.driver = "aiosqlite" THEN {"sqlite3"} ELSE {})
      BY <1>1, <2>3, DriverImportsAre DEF many
    <3>3. conf.driver = "aiosqlite" => conf.driver # "sqlite3"
      OBVIOUS
    <3> QED BY <2>1, <2>2, <3>1, <3>2, <3>3
  <2>4. CASE ~OnSqlite
    BY <1>1, <2>1, <2>2, <2>4, DriverImportsAre
  <2> QED BY <2>3, <2>4
<1>5. ModelBase \subseteq {"pydantic", "base"}
  BY DEF ModelBase, Base
<1> HIDE DEF std
<1>6. /\ ModelBase \cap DriverImports.checking = {}
      /\ {"pydantic", "models", "QueryResultsArgsType", "ConnectionLike"} \cap DriverImports.checking = {}
      /\ {"QueryResultsArgsType", "ConnectionLike"} \cap (DriverImports.runtime \cup ModelBase) = {}
  BY <1>2, <1>3, <1>5 DEF std
<1> QED BY <1>4, <1>6, QueryImportsAre

-----------------------------------------------------------------------------
(* The names that the values of the queries need. *)

QueryBlocks == QueryImports.runtime \cup QueryImports.checking

\* The cases of the driver exclude one another.
LEMMA DriverCases ==
  ASSUME Handed
  PROVE  /\ OnSqlite <=> conf.driver \in {"sqlite3", "aiosqlite"}
         /\ OnSqlite \/ conf.driver = "asyncpg" \/ conf.driver = "sqlalchemy"
         /\ conf.driver \in {"asyncpg", "sqlalchemy"} => ~OnSqlite
BY OptionFacts DEF OnSqlite, Sqlite

\* A type that has names and no module of its own.
LEMMA OtherNames ==
  ASSUME Handed, NEW t \in Types(conf), ~Modular(t)
  PROVE  /\ t \notin {"enum", "any", "ints"} => Names(t) = {}
         /\ t = "enum" => Names(t) = {"models"}
         /\ t = "any" => Names(t) = {"typing"}
         /\ t = "ints" => Names(t) \subseteq {"collections"}
<1>1. t = "T" => conf.override = "builtin"
  BY OptionFacts DEF Modular, Override
<1> QED BY <1>1, OptionFacts DEF Names, Modular

\* A type with a module is named by what its import binds.
LEMMA ModularBinds ==
  ASSUME NEW t, Modular(t), Binds(t) \in Std.runtime \cup Std.checking, Handed
  PROVE  /\ Names(t) \subseteq QueryBlocks
         /\ Binds(t) \in Std.runtime => Names(t) \subseteq QueryImports.runtime
<1>1. Names(t) = {Binds(t)} /\ Binds(t) # "collections"
  BY PyNameFacts DEF Modular
<1>2. Std.runtime \subseteq DriverImports.runtime /\ Std.checking \subseteq DriverImports.checking
  BY DriverImportsAre
<1> QED BY <1>1, <1>2, QueryImportsHave DEF QueryBlocks

\* A type checker finds the type of a scalar and of a field.
LEMMA AnnotatedBound ==
  ASSUME Handed, NEW v \in ValuesOf(queries), v.kind # "model", NEW t \in TypesIn(v)
  PROVE  Names(t) \subseteq QueryBlocks
<1>1. v.kind \in {"scalar", "row"} /\ t \in Types(conf)
  BY ValueFacts, TypeFacts
<1>2. CASE Modular(t)
  <2>1. ValueUses(t, v) # {} /\ t \in Imported
    BY <1>2, UsesOf, PyNameFacts
  <2> QED BY <1>2, <2>1, StdHas, ModularBinds
<1>3. CASE ~Modular(t) /\ t = "enum"
  <2>1. ReferencesModels
    BY <1>1, <1>3 DEF ReferencesModels
  <2> QED BY <1>1, <1>3, <2>1, OtherNames, QueryImportsHave DEF QueryBlocks
<1>4. CASE ~Modular(t) /\ t = "any"
  BY <1>1, <1>4, OtherNames, QueryImportsHave DEF QueryBlocks
<1>5. CASE ~Modular(t) /\ t = "ints"
  <2>1. CASE ~conf.eager
    BY <1>1, <1>5, <2>1, OtherNames, QueryImportsHave DEF QueryBlocks
  <2>2. CASE conf.eager
    <3>1. Names(t) \subseteq {"collections"}
      BY <1>1, <1>5, OtherNames
    <3>2. Emits(v) => Names(t) \subseteq FieldModules(v)
      BY <1>5, <3>1 DEF FieldModules, NamesIn
    <3>3. Names(t) \subseteq QueryFieldModules
      BY <1>1, <1>5, <3>2 DEF QueryFieldModules, Emits
    <3> QED BY <3>1, <3>3, <2>2, QueryImportsHave DEF QueryBlocks
  <2> QED BY <2>1, <2>2
<1>6. CASE ~Modular(t) /\ t \notin {"enum", "any", "ints"}
  BY <1>1, <1>6, OtherNames
<1> QED BY <1>2, <1>3, <1>4, <1>5, <1>6

\* Python finds the type that it converts with, unless it is a date and ciso8601
\* is there for it.
LEMMA ConvertedBound ==
  ASSUME Handed, NEW v \in ValuesOf(queries), NEW t \in TypesIn(v), Modular(t),
         \/ OnSqlite /\ Converts(t)
         \/ v.kind # "model" /\ (Converts(t) \/ conf.driver = "sqlalchemy")
  PROVE  /\ Names(t) \subseteq QueryBlocks
         /\ ~(OnSqlite /\ conf.speedups /\ t = "date") => Names(t) \subseteq QueryImports.runtime
         /\ OnSqlite /\ conf.speedups /\ t = "date" => BySpeedup("date", v)
<1>1. ValueUses(t, v) = {FALSE} /\ t \in Imported
  BY UsesOf, PyNameFacts
<1>2. FALSE \in ValueUses(t, v)
  BY <1>1
<1>3. OnSqlite /\ conf.speedups /\ t = "date" <=> BySpeedup(t, v)
  BY <1>2 DEF BySpeedup
<1>4. Binds(t) \in Std.runtime \cup Std.checking
  BY <1>1, StdHas
<1>5. ~BySpeedup(t, v) => Binds(t) \in Std.runtime
  BY <1>1, <1>2, StdHas
<1> QED BY <1>3, <1>4, <1>5, ModularBinds

\* What a file of queries registers is of its own values.
LEMMA ToConvertIs ==
  ASSUME Handed, NEW f, NEW t \in ToConvert(f)
  PROVE  /\ OnSqlite /\ t # "T" /\ ByTable(t) /\ Converts(t)
         /\ t \in {"bool", "blob", "date", "decimal"}
         /\ Modular(t) <=> t \in {"date", "decimal"}
         /\ t \notin {"date", "decimal"} => Names(t) = {}
         /\ \E v \in ValuesOf(queries) : t \in TypesIn(v)
<1>1. OnSqlite /\ t # "T" /\ ByTable(t) /\ \E v \in ValuesOf(Of(f)) : t \in TypesIn(v)
  BY DEF ToConvert
<1>2. conf.driver # "asyncpg"
  BY <1>1, DriverCases
<1>3. t \in {"bool", "blob", "date", "decimal"}
  BY <1>1, <1>2 DEF ByTable, SqlType
<1>4. ValuesOf(Of(f)) \subseteq ValuesOf(queries)
  BY DEF ValuesOf, Of
<1>5. (Modular(t) <=> t \in {"date", "decimal"}) /\ (t \notin {"date", "decimal"} => Names(t) = {})
  BY <1>3 DEF Modular, Names
<1> QED BY <1>1, <1>3, <1>4, <1>5 DEF Converts

\* A type that a file registers is imported, at run time unless ciso8601 converts it.
LEMMA RegisteredBound ==
  ASSUME Handed, NEW f, NEW t \in ToConvert(f)
  PROVE  /\ Names(t) \subseteq QueryBlocks
         /\ ~(conf.speedups /\ t = "date") => Names(t) \subseteq QueryImports.runtime
         /\ conf.speedups /\ t = "date" => \E v \in ValuesOf(queries) : BySpeedup("date", v)
<1>1. PICK v \in ValuesOf(queries) : t \in TypesIn(v)
  BY ToConvertIs
<1>2. CASE t \in {"date", "decimal"}
  BY <1>1, <1>2, ToConvertIs, ConvertedBound
<1>3. CASE t \notin {"date", "decimal"}
  BY <1>3, ToConvertIs
<1> QED BY <1>2, <1>3

\* The rows of a :many have their type at run time.
LEMMA ManyBound ==
  ASSUME Handed, NEW q \in queries, q.cmd \in Many, NEW t, q.ret = Scalar(t), t \in Types(conf)
  PROVE  Names(t) \subseteq QueryImports.runtime \cup (IF t = "ints" THEN {"collections"} ELSE {})
<1>1. q.ret \in ValuesOf(queries) /\ q.ret.kind = "scalar" /\ t \in TypesIn(q.ret)
  BY TypeFacts, QueryFacts DEF Scalar, Value
<1>2. CASE Modular(t)
  <2>1. ValueUses(t, q.ret) # {} /\ t \in Imported
    BY <1>1, <1>2, UsesOf, PyNameFacts
  <2>2. Binds(t) \in Std.runtime
    BY <2>1, StdHas
  <2> QED BY <1>2, <2>2, ModularBinds
<1>3. CASE ~Modular(t)
  <2>1. t = "enum" => ReferencesModels
    BY <1>1 DEF ReferencesModels
  <2> QED BY <1>3, <2>1, OtherNames, QueryImportsHave
<1> QED BY <1>2, <1>3

-----------------------------------------------------------------------------
(* What a type checker finds in the query files. *)

\* The queries of a file are among all.
LEMMA OfIs ==
  ASSUME NEW f
  PROVE  /\ Of(f) \subseteq queries /\ ValuesOf(Of(f)) \subseteq ValuesOf(queries)
         /\ AnyMany(Of(f)) => AnyMany(queries)
BY DEF Of, ValuesOf, AnyMany

\* The driver has its name in a block, and at run time when it must.
LEMMA DriverFound ==
  ASSUME Handed
  PROVE  /\ conf.driver \in QueryBlocks
         /\ conf.driver = "sqlalchemy" => conf.driver \in QueryImports.runtime
         /\ OnSqlite /\ Cardinality(Std.runtime) > 2 => conf.driver \in QueryImports.runtime
         /\ conf.driver = "asyncpg" /\ AnyMany(queries) => "asyncpg.cursor" \in QueryBlocks
         /\ conf.driver = "aiosqlite" /\ AnyMany(queries) => "sqlite3" \in QueryBlocks
<1> DEFINE both == DriverImports.runtime \cup DriverImports.checking
<1>1. /\ conf.driver \in both
      /\ conf.driver = "sqlalchemy" => conf.driver \in DriverImports.runtime
      /\ OnSqlite /\ Cardinality(Std.runtime) > 2 => conf.driver \in DriverImports.runtime
      /\ conf.driver = "asyncpg" /\ AnyMany(queries) => "asyncpg.cursor" \in both
      /\ conf.driver = "aiosqlite" /\ AnyMany(queries) => "sqlite3" \in both
  BY DriverImportsAre, DriverCases
<1>2. both \ {"collections"} \subseteq QueryBlocks
  BY QueryImportsHave DEF QueryBlocks
<1>3. conf.driver # "collections"
  BY OptionFacts
<1> QED BY <1>1, <1>2, <1>3, QueryImportsHave DEF QueryBlocks

\* The names of a value's class and fields are in a block.
LEMMA ClassNamesFound ==
  ASSUME Handed, NEW v \in ValuesOf(queries)
  PROVE  /\ v.kind # "model" => NamesIn(v) \subseteq QueryBlocks
         /\ FieldNames(v) \subseteq QueryBlocks
         /\ v.embeds # {} => ReferencesModels
<1>1. v.kind # "model" => NamesIn(v) \subseteq QueryBlocks
  BY AnnotatedBound DEF NamesIn
<1>2. v.embeds # {} => ReferencesModels
  BY ValueFacts DEF ReferencesModels
<1>3. FieldNames(v) \subseteq QueryBlocks
  <2>1. CASE ~Emits(v)
    BY <2>1 DEF FieldNames
  <2>2. CASE Emits(v)
    <3>1. NamesIn(v) \subseteq QueryBlocks
      BY <1>1, <2>2 DEF Emits
    <3>2. "typing" \in QueryBlocks /\ (v.embeds # {} => "models" \in QueryBlocks)
      BY <1>2, QueryImportsHave DEF QueryBlocks
    <3> QED BY <3>1, <3>2 DEF FieldNames, ClassNames
  <2> QED BY <2>1, <2>2
<1> QED BY <1>1, <1>2, <1>3

\* The names of a header are in a block.
LEMMA SignatureFound ==
  ASSUME Handed, ~EagerSignatures, NEW q \in queries
  PROVE  ConnNames \cup ResultNames(q) \cup ArgNames(q) \subseteq QueryBlocks
<1>1. ConnNames \subseteq QueryBlocks
  <2>1. conf.driver = "asyncpg" => "ConnectionLike" \in QueryBlocks
    BY QueryImportsHave DEF QueryBlocks
  <2>2. conf.driver \in QueryBlocks
    BY DriverFound
  <2> QED BY <2>1, <2>2 DEF ConnNames
<1>2. ResultNames(q) \subseteq QueryBlocks
  <2>1. q.ret \in ValuesOf(queries)
    BY QueryFacts
  <2>2. q.ret.kind = "model" => "models" \in QueryBlocks
    <3>1. q.ret.kind = "model" => ReferencesModels
      BY <2>1 DEF ReferencesModels
    <3> QED BY <3>1, QueryImportsHave DEF QueryBlocks
  <2>3. q.ret.kind = "scalar" => NamesIn(q.ret) \subseteq QueryBlocks
    BY <2>1, ClassNamesFound
  <2>4. q.cmd = "many" => "collections" \in QueryBlocks
    <3>1. q.cmd = "many" => "collections" \in QueryFieldModules
      BY DEF QueryFieldModules
    <3> QED BY <3>1, OptionFacts, QueryImportsHave DEF QueryBlocks
  <2> QED BY <2>2, <2>3, <2>4 DEF ResultNames
<1>3. ArgNames(q) \subseteq QueryBlocks
  <2>1. ASSUME NEW a \in q.args, a.kind = "scalar" PROVE NamesIn(a) \subseteq QueryBlocks
    BY <2>1, QueryFacts, ClassNamesFound
  <2>2. q.cmd = "copyfrom" => "collections" \in QueryBlocks
    BY QueryFacts, OptionFacts, QueryImportsHave DEF QueryBlocks, EagerSignatures
  <2>3. UNION {NamesIn(a) : a \in {b \in q.args : b.kind = "scalar"}} \subseteq QueryBlocks
    BY <2>1
  <2> QED BY <2>2, <2>3 DEF ArgNames
<1> QED BY <1>1, <1>2, <1>3

\* All names that a query file annotates with are in a block.
LEMMA QueryAnnotationsFound ==
  ASSUME Handed, ~EagerSignatures, NEW f
  PROVE  QueryAnnotations(f) \cup AliasNames \subseteq QueryBlocks
<1>1. /\ "typing" \in QueryBlocks
      /\ ~conf.eager => "collections" \in QueryBlocks
      /\ conf.driver = "asyncpg" => "ConnectionLike" \in QueryBlocks
      /\ AnyMany(queries) /\ conf.driver # "sqlalchemy" => "QueryResultsArgsType" \in QueryBlocks
  BY QueryImportsHave DEF QueryBlocks
<1>2. conf.eager => conf.driver = "sqlalchemy"
  BY DEF EagerSignatures
<1>3. QueryResultsNames(Of(f)) \subseteq QueryBlocks
  <2>1. CASE ~AnyMany(Of(f)) \/ conf.driver = "sqlalchemy"
    BY <2>1 DEF QueryResultsNames
  <2>2. CASE AnyMany(queries) /\ conf.driver # "sqlalchemy"
    <3>1. {"collections", "QueryResultsArgsType"} \subseteq QueryBlocks
      BY <1>1, <1>2, <2>2, OptionFacts
    <3>2. CASE conf.driver = "asyncpg"
      BY <3>1, <3>2, <2>2, DriverFound DEF QueryResultsNames
    <3>3. CASE conf.driver = "aiosqlite"
      BY <3>1, <3>3, <2>2, DriverFound DEF QueryResultsNames
    <3>4. CASE conf.driver = "sqlite3"
      BY <3>1, <3>4, <2>2, DriverFound DEF QueryResultsNames
    <3> QED BY <2>2, <3>2, <3>3, <3>4, OptionFacts
  <2> QED BY <2>1, <2>2, OfIs
<1>4. UNION {Names(t) : t \in ToConvert(f)} \subseteq QueryBlocks
  BY RegisteredBound
<1>5. UNION {ConnNames \cup ResultNames(q) \cup ArgNames(q) : q \in Of(f)} \subseteq QueryBlocks
  BY SignatureFound, OfIs
<1>6. UNION {FieldNames(v) : v \in ValuesOf(Of(f))} \subseteq QueryBlocks
  BY ClassNamesFound, OfIs
<1>7. AliasNames \subseteq QueryBlocks
  BY <1>1, DriverFound DEF AliasNames
<1>8. DunderAll \cup {"typing"} \subseteq QueryBlocks
  BY <1>1, OptionFacts DEF DunderAll
<1>9. QueryAnnotations(f) =
        DunderAll \cup {"typing"} \cup QueryResultsNames(Of(f))
          \cup (UNION {Names(t) : t \in ToConvert(f)})
          \cup (UNION {ConnNames \cup ResultNames(q) \cup ArgNames(q) : q \in Of(f)})
          \cup (UNION {FieldNames(v) : v \in ValuesOf(Of(f))})
  BY Zenon DEF QueryAnnotations
<1> DEFINE r == UNION {Names(t) : t \in ToConvert(f)}
<1> DEFINE s == UNION {ConnNames \cup ResultNames(q) \cup ArgNames(q) : q \in Of(f)}
<1> DEFINE fs == UNION {FieldNames(v) : v \in ValuesOf(Of(f))}
<1> HIDE DEF r, s, fs
<1>10. QueryAnnotations(f) = DunderAll \cup {"typing"} \cup QueryResultsNames(Of(f)) \cup r \cup s \cup fs
  BY <1>9 DEF r, s, fs
<1>11. r \subseteq QueryBlocks /\ s \subseteq QueryBlocks /\ fs \subseteq QueryBlocks
  BY <1>4, <1>5, <1>6 DEF r, s, fs
<1> QED BY <1>3, <1>7, <1>8, <1>10, <1>11

-----------------------------------------------------------------------------
(* The models file. *)

ModelBlocks == ModelImports.runtime \cup ModelImports.checking
ModelFields == UNION {FieldModules(m) : m \in models}
ModelUses == {n \in Imported : \E m \in models : FirstUse(n, m) # {}}

\* The two blocks of models.py before and after the fold.
LEMMA ModelImportsAre ==
  ASSUME Handed
  PROVE  LET runtime == {"typing", Base} \cup (IF enums THEN {"enum"} ELSE {})
             checking == {"collections"} \cup {Binds(n) : n \in ModelUses}
         IN /\ ModelImports.runtime = IF conf.eager THEN (runtime \ ({"typing"} \ ModelFields))
                                                         \cup (checking \cap ModelFields)
                                      ELSE runtime
            /\ ModelImports.checking = IF conf.eager THEN (checking \ ModelFields) \ {"collections"} ELSE checking
            /\ Base \in {"pydantic", "base"}
BY DEF ModelImports, Fold, ModelFields, ModelUses, Base

\* The types that models.py imports are those of its columns.
LEMMA ModelUsesAre ==
  ASSUME Handed
  PROVE  /\ \A n \in ModelUses : \E m \in models : \E t \in TypesIn(m) : PyName(t) = n
         /\ \A m \in models : \A t \in TypesIn(m) : Modular(t) => t \in ModelUses
         /\ \A m \in models : m.cols \in Seq(Types(conf)) /\ TypesIn(m) \subseteq Types(conf)
<1>1. \A m \in models : m.cols \in Seq(Types(conf))
  BY DEF Handed, Classes
<1>2. \A m \in models : TypesIn(m) \subseteq Types(conf)
  BY <1>1, TypeFacts
<1>3. \A n \in ModelUses : \E m \in models : \E t \in TypesIn(m) : PyName(t) = n
  BY DEF ModelUses, FirstUse, TypesIn
<1>4. ASSUME NEW m \in models, NEW t \in TypesIn(m), Modular(t) PROVE t \in ModelUses
  <2>1. FirstUse(t, m) # {}
    BY <1>1, <1>4, FirstUseExists, PyNameFacts
  <2> QED BY <2>1, <1>4, PyNameFacts DEF ModelUses
<1> QED BY <1>1, <1>2, <1>3, <1>4

\* The fields of the models have the modules of their types.
LEMMA ModelFieldsHave ==
  ASSUME NEW m \in models, NEW t \in TypesIn(m)
  PROVE  Names(t) \ {"models"} \subseteq ModelFields
<1>1. Names(t) \ {"models"} \subseteq FieldModules(m)
  BY DEF FieldModules, NamesIn
<1> QED BY <1>1 DEF ModelFields

\* All names that models.py annotates with are in a block.
LEMMA ModelAnnotationsFound ==
  ASSUME Handed
  PROVE  ModelAnnotations \subseteq ModelBlocks
<1> DEFINE runtime == {"typing", Base} \cup (IF enums THEN {"enum"} ELSE {})
<1> DEFINE checking == {"collections"} \cup {Binds(n) : n \in ModelUses}
<1>1. ASSUME NEW x \in runtime \cup checking,
             x \in {"typing", "collections"} => ~conf.eager \/ x \in ModelFields
      PROVE  x \in ModelBlocks
  BY <1>1, ModelImportsAre, OptionFacts DEF ModelBlocks
<1>2. ASSUME NEW m \in models, NEW t \in TypesIn(m), NEW x \in Names(t), x # "models"
      PROVE  x \in ModelBlocks
  <2>1. x \in ModelFields
    BY <1>2, ModelFieldsHave
  <2>2. x \in runtime \cup checking
    <3>1. CASE Modular(t)
      BY <3>1, PyNameFacts, ModelUsesAre
    <3>2. CASE ~Modular(t)
      BY <1>2, <3>2, OtherNames, ModelUsesAre
    <3> QED BY <3>1, <3>2
  <2> QED BY <1>1, <2>1, <2>2
<1>3. DunderAll \subseteq ModelBlocks
  BY <1>1 DEF DunderAll
<1>4. ASSUME NEW m \in models PROVE ClassNames(m) \ {"models"} \subseteq ModelBlocks
  <2>1. m.escaped => "typing" \in ModelFields
    BY DEF ModelFields, FieldModules
  <2>2. m.escaped => "typing" \in ModelBlocks
    BY <1>1, <2>1
  <2>3. NamesIn(m) \ {"models"} \subseteq ModelBlocks
    BY <1>2 DEF NamesIn
  <2> QED BY <2>2, <2>3 DEF ClassNames
<1> QED BY <1>3, <1>4 DEF ModelAnnotations

-----------------------------------------------------------------------------
(* Loading. *)

\* Without an override to a builtin there is no import that names nothing.
LEMMA NoEmptyImport ==
  ASSUME Handed, ~ImportsNothing
  PROVE  "" \notin QueryBlocks \cup ModelBlocks
<1>1. ASSUME NEW x \in ValuesOf(queries) \cup models, NEW t \in TypesIn(x), NEW n \in Imported,
             PyName(t) = n, Binds(n) = ""
      PROVE  FALSE
  <2>1. n = "int" /\ conf.override = "builtin"
    BY <1>1, ImportedIs, PyNameFacts DEF Modular
  <2> QED BY <1>1, <2>1 DEF ImportsNothing
<1>2. "" \notin QueryBlocks
  <2>1. SUFFICES ASSUME "" \in QueryBlocks PROVE FALSE
    OBVIOUS
  <2>2. "" \notin ModelBase /\ conf.driver # ""
    BY OptionFacts DEF ModelBase, Base
  <2>3. PICK n \in Imported, v \in ValuesOf(queries) : "" = Binds(n) /\ ValueUses(n, v) # {}
    BY <2>1, <2>2, QueryImportsOnly DEF QueryBlocks
  <2> QED BY <2>3, <1>1, UsesOnlyOf
<1>3. "" \notin ModelBlocks
  <2>1. SUFFICES ASSUME "" \in ModelBlocks PROVE FALSE
    OBVIOUS
  <2>2. PICK n \in ModelUses : Binds(n) = ""
    <3>1. "" \in {"typing", Base} \cup {"enum"} \cup {"collections"} \cup {Binds(n) : n \in ModelUses}
      BY <2>1, ModelImportsAre DEF ModelBlocks
    <3>2. "" \in {Binds(n) : n \in ModelUses}
      BY <3>1, ModelImportsAre
    <3> QED BY <3>2
  <2>3. n \in Imported
    BY DEF ModelUses
  <2> QED BY <2>2, <2>3, <1>1, ModelUsesAre
<1> QED BY <1>2, <1>3

\* With pydantic nothing is left to the checker, where the signatures are evaluated
\* as well.
LEMMA ModelsEager ==
  ASSUME Handed, conf.eager, ~ImportsNothing
  PROVE  ModelImports.checking = {}
<1>1. ASSUME NEW n \in ModelUses PROVE Binds(n) \in ModelFields
  <2>1. PICK m \in models : \E t \in TypesIn(m) : PyName(t) = n
    BY ModelUsesAre
  <2> PICK t \in TypesIn(m) : PyName(t) = n
    BY <2>1
  <2>2. Modular(n)
    <3>1. n \in Imported
      BY DEF ModelUses
    <3> QED BY <3>1, ImportedIs DEF ImportsNothing
  <2>3. t = n /\ Names(t) = {Binds(n)} /\ Binds(n) # "models"
    BY <2>2, PyNameFacts DEF Modular
  <2> QED BY <2>3, ModelFieldsHave
<1> QED BY <1>1, ModelImportsAre

\* With pydantic and SQLAlchemy nothing is left to the checker.
LEMMA QueriesEager ==
  ASSUME Handed, conf.eager, conf.driver = "sqlalchemy"
  PROVE  QueryImports.checking = {}
<1>1. ~OnSqlite
  BY DriverCases
<1>2. ASSUME NEW n, NEW v PROVE ~BySpeedup(n, v) /\ TRUE \notin ValueUses(n, v)
  BY <1>1 DEF BySpeedup, ValueUses
<1>3. \A n : TRUE \notin QueryUses(n)
  BY <1>2 DEF QueryUses
<1>4. Std.checking = {"collections"}
  BY <1>3 DEF Std
<1>5. DriverImports.checking = {"collections"}
  BY <1>1, <1>4, DriverImportsAre
<1> QED BY <1>5, QueryImportsAre

\* models.py loads.
LEMMA ModelsLoad ==
  ASSUME Handed, HasImports, ~ImportsNothing
  PROVE  Outcome("models") = "loaded"
<1>1. ImportsOf("models") = ModelImports
  BY DEF ImportsOf, HasImports
<1>2. "" \notin ImportsOf("models").runtime \cup ImportsOf("models").checking
  BY <1>1, NoEmptyImport DEF ModelBlocks
<1>3. ModelImports.runtime \subseteq Bound("models")
  BY <1>1 DEF Bound
<1>4. BlockNames("models") \subseteq Bound("models")
  <2>1. CASE conf.eager
    BY <2>1, <1>1, ModelsEager DEF BlockNames
  <2>2. CASE ~conf.eager
    <3>1. "typing" \in ModelImports.runtime
      BY <2>2, ModelImportsAre
    <3> QED BY <3>1, <1>3 DEF BlockNames
  <2> QED BY <2>1, <2>2
<1>5. RegistrationNames("models") = {}
  BY DEF RegistrationNames
<1>6. {Base} \cup (IF enums THEN {"enum"} ELSE {}) \subseteq ModelImports.runtime
  BY ModelImportsAre
<1>7. conf.eager => Annotations("models") \subseteq ModelImports.runtime
  BY ModelsEager, ModelAnnotationsFound DEF Annotations, ModelBlocks
<1>8. BodyNames("models") \subseteq Bound("models")
  BY <1>3, <1>6, <1>7 DEF BodyNames
<1> QED BY <1>2, <1>4, <1>5, <1>8 DEF Outcome

\* The imports of a query file, once generated.
LEMMA QueriesImport ==
  ASSUME HasImports, NEW f \in Files
  PROVE  f # "models" /\ ImportsOf(f) = QueryImports /\ Bound(f) = QueryImports.runtime
BY FilesNamed DEF HasImports, ImportsOf, Bound

\* The registrations of a file find their names, but for the exceptions.
LEMMA RegistrationsBound ==
  ASSUME Handed, HasImports, NEW f \in Files, ~RegistrationsUnbound(f)
  PROVE  RegistrationNames(f) \subseteq Bound(f)
<1>1. Bound(f) = QueryImports.runtime
  BY QueriesImport
<1>2. CASE ToConvert(f) = {}
  BY <1>2 DEF RegistrationNames
<1>3. CASE ToConvert(f) # {}
  <2> DEFINE n == Cardinality(Std.runtime)
  <2>1. ~(n <= 2) /\ ~(conf.speedups /\ "date" \in ToConvert(f))
    BY <1>3 DEF RegistrationsUnbound
  <2>2. n > 2
    <3>1. IsFiniteSet(Std.runtime)
      <4>1. Std.runtime \subseteq {"typing", "collections", "datetime", "decimal", "uuid", "T", ""}
        BY StdNames
      <4> QED BY <4>1, StdNamesFinite, FS_Subset
    <3>2. n \in Nat
      BY <3>1, FS_CardinalityType
    <3> HIDE DEF n
    <3> QED BY <2>1, <3>2
  <2>3. OnSqlite
    BY <1>3, ToConvertIs
  <2>4. conf.driver \in QueryImports.runtime
    BY <2>2, <2>3, DriverFound
  <2>5. UNION {Names(t) : t \in ToConvert(f)} \subseteq QueryImports.runtime
    BY <2>1, RegisteredBound
  <2> QED BY <1>1, <2>4, <2>5 DEF RegistrationNames
<1> QED BY <1>2, <1>3

\* A query file loads, but for the exceptions.
LEMMA QueriesLoad ==
  ASSUME Handed, HasImports, NEW f \in Files,
         ~ImportsNothing, ~EagerSignatures, ~RegistrationsUnbound(f)
  PROVE  Outcome(f) = "loaded"
<1>1. f # "models" /\ ImportsOf(f) = QueryImports /\ Bound(f) = QueryImports.runtime
  BY QueriesImport
<1>2. "" \notin ImportsOf(f).runtime \cup ImportsOf(f).checking
  BY <1>1, NoEmptyImport DEF QueryBlocks
<1>3. BlockNames(f) \subseteq Bound(f)
  BY <1>1, QueryImportsHave DEF BlockNames
<1>4. RegistrationNames(f) \subseteq Bound(f)
  BY RegistrationsBound
<1>5. BodyNames(f) \subseteq Bound(f)
  <2>1. (\E v \in ValuesOf(Of(f)) : Emits(v)) => Base \in QueryImports.runtime
    <3>1. ASSUME NEW v \in ValuesOf(Of(f)), Emits(v) PROVE Base \in ModelBase
      <4>1. PICK q \in Of(f) : v \in ValuesOf({q})
        BY DEF ValuesOf
      <4> QED BY <3>1, <4>1, OfIs DEF ModelBase
    <3> QED BY <3>1, QueryImportsHave
  <2>2. "typing" \in QueryImports.runtime
    BY QueryImportsHave
  <2>3. (\E q \in Of(f) : Validated(q.ret)) => {"pydantic", "T"} \subseteq QueryImports.runtime
    BY OfIs, QueryImportsHave
  <2>4. conf.eager => Annotations(f) \subseteq QueryImports.runtime
    <3>1. ASSUME conf.eager PROVE QueryImports.checking = {}
      BY <3>1, QueriesEager DEF EagerSignatures
    <3>2. QueryAnnotations(f) \subseteq QueryBlocks
      BY QueryAnnotationsFound
    <3> QED BY <1>1, <3>1, <3>2 DEF Annotations, QueryBlocks
  <2> QED BY <1>1, <2>1, <2>2, <2>3, <2>4 DEF BodyNames
<1> QED BY <1>2, <1>3, <1>4, <1>5 DEF Outcome

-----------------------------------------------------------------------------
(* No import of a lone query file is dead. *)

\* What the annotations of a query file consist of.
LEMMA QueryAnnotationsHave ==
  ASSUME NEW f
  PROVE  /\ DunderAll \cup {"typing"} \cup QueryResultsNames(Of(f)) \subseteq QueryAnnotations(f)
         /\ \A t \in ToConvert(f) : Names(t) \subseteq QueryAnnotations(f)
         /\ \A q \in Of(f) : ConnNames \cup ResultNames(q) \cup ArgNames(q) \subseteq QueryAnnotations(f)
         /\ \A v \in ValuesOf(Of(f)) : FieldNames(v) \subseteq QueryAnnotations(f)
<1> DEFINE r == UNION {Names(t) : t \in ToConvert(f)}
<1> DEFINE s == UNION {ConnNames \cup ResultNames(q) \cup ArgNames(q) : q \in Of(f)}
<1> DEFINE fs == UNION {FieldNames(v) : v \in ValuesOf(Of(f))}
<1>1. /\ \A t \in ToConvert(f) : Names(t) \subseteq r
      /\ \A q \in Of(f) : ConnNames \cup ResultNames(q) \cup ArgNames(q) \subseteq s
      /\ \A v \in ValuesOf(Of(f)) : FieldNames(v) \subseteq fs
  OBVIOUS
<1>2. QueryAnnotations(f) = DunderAll \cup {"typing"} \cup QueryResultsNames(Of(f)) \cup r \cup s \cup fs
  BY Zenon DEF QueryAnnotations
<1> HIDE DEF r, s, fs
<1> QED BY <1>1, <1>2

\* What counts as needed by a query file.
LEMMA NeededHas ==
  ASSUME NEW f \in Files
  PROVE  /\ BodyNames(f) \cup QueryAnnotations(f) \cup AliasNames \subseteq Needed(f)
         /\ "date" \in ToConvert(f) /\ conf.speedups => "ciso8601" \in Needed(f)
         /\ \A q \in Of(f) : CallNames(q) \subseteq Needed(f)
<1> DEFINE calls == UNION {CallNames(q) : q \in Of(f)}
<1>1. \A q \in Of(f) : CallNames(q) \subseteq calls
  OBVIOUS
<1>2. Annotations(f) = QueryAnnotations(f)
  BY FilesNamed DEF Annotations
<1>3. Needed(f) = BlockNames(f) \cup RegistrationNames(f) \cup BodyNames(f) \cup QueryAnnotations(f) \cup AliasNames
                    \cup (IF "date" \in ToConvert(f) /\ conf.speedups THEN {"ciso8601"} ELSE {}) \cup calls
  BY <1>2 DEF Needed
<1> HIDE DEF calls
<1> QED BY <1>1, <1>3

\* In the only query file, the type of a scalar or of a field is in an annotation.
LEMMA ValueNamed ==
  ASSUME Handed, NEW f, Of(f) = queries,
         NEW v \in ValuesOf(queries), v.kind # "model", NEW t \in TypesIn(v)
  PROVE  Names(t) \subseteq QueryAnnotations(f)
<1>1. v.kind \in {"scalar", "row"}
  BY ValueFacts, TypeFacts
<1>2. Names(t) \subseteq NamesIn(v)
  BY DEF NamesIn
<1>3. CASE v.kind = "row"
  <2>1. NamesIn(v) \subseteq FieldNames(v)
    BY <1>3 DEF FieldNames, ClassNames, Emits
  <2> QED BY <1>2, <2>1, QueryAnnotationsHave
<1>4. CASE v.kind = "scalar"
  <2>1. PICK q \in queries : v = q.ret \/ v \in q.args
    BY ValueFacts
  <2>2. CASE v = q.ret
    <3>1. NamesIn(v) \subseteq ResultNames(q)
      BY <1>4, <2>2 DEF ResultNames
    <3> QED BY <1>2, <3>1, QueryAnnotationsHave
  <2>3. CASE v \in q.args
    <3>1. NamesIn(v) \subseteq UNION {NamesIn(a) : a \in {b \in q.args : b.kind = "scalar"}}
      BY <1>4, <2>3
    <3>2. NamesIn(v) \subseteq ArgNames(q)
      BY <3>1 DEF ArgNames
    <3> QED BY <1>2, <3>2, QueryAnnotationsHave
  <2> QED BY <2>1, <2>2, <2>3
<1> QED BY <1>1, <1>3, <1>4

\* The types that an import is for are registered, converted or annotated.
LEMMA UseNeeded ==
  ASSUME Handed, NEW f \in Files, Of(f) = queries,
         NEW n \in Imported, NEW v \in ValuesOf(queries), ValueUses(n, v) # {}, Binds(n) # ""
  PROVE  Binds(n) \in Needed(f)
<1>1. Modular(n) /\ n \in TypesIn(v) /\ (v.kind = "model" => OnSqlite /\ Converts(n))
  BY UsesOnlyOf DEF Binds
<1>2. Names(n) = {Binds(n)}
  BY <1>1, PyNameFacts
<1>3. CASE v.kind # "model"
  BY <1>1, <1>2, <1>3, ValueNamed, NeededHas
<1>4. CASE v.kind = "model" /\ n # "T"
  <2>1. ByTable(n)
    BY <1>1, <1>4 DEF Converts
  <2>2. n \in ToConvert(f)
    BY <1>1, <1>4, <2>1 DEF ToConvert
  <2> QED BY <1>2, <2>2, QueryAnnotationsHave, NeededHas
<1>5. CASE v.kind = "model" /\ n = "T"
  <2>1. PICK q \in queries : v = q.ret
    BY <1>5, ValueFacts
  <2>2. conf.driver \notin {"sqlalchemy", "asyncpg"}
    BY <1>1, <1>5, DriverCases
  <2>3. "T" \in TypesRead(v) \cap {"T"}
    BY <1>1, <1>5 DEF TypesRead
  <2>4. Names("T") \subseteq UNION {Names(t) : t \in TypesRead(v) \cap {"T"}}
    BY <2>3
  <2>5. DecodeNames(q) = (UNION {Names(t) : t \in TypesRead(v) \cap {"T"}})
                           \cup (IF v.kind = "model" \/ v.embeds # {} THEN {"models"} ELSE {})
    BY <1>5, <2>1, <2>2 DEF DecodeNames
  <2>6. Names("T") \subseteq CallNames(q)
    BY <2>4, <2>5 DEF CallNames
  <2> QED BY <1>2, <1>5, <2>6, NeededHas
<1> QED BY <1>3, <1>4, <1>5

\* In the only query file, each import is needed.
LEMMA NothingDead ==
  ASSUME Handed, NEW f \in {q.file : q \in queries}, Of(f) = queries
  PROVE  QueryBlocks \ {"operator", ""} \subseteq Needed(f)
<1>1. f \in Files /\ queries # {}
  BY QueryFacts
<1>2. PICK q \in queries : TRUE
  BY <1>1
<1>3. QueryAnnotations(f) \cup BodyNames(f) \cup AliasNames \subseteq Needed(f)
  BY <1>1, NeededHas
<1>4. ConnNames \cup ResultNames(q) \cup ArgNames(q) \subseteq QueryAnnotations(f)
  BY QueryAnnotationsHave
<1> SUFFICES ASSUME NEW x \in QueryBlocks, x \notin {"operator", ""} PROVE x \in Needed(f)
  OBVIOUS
<1>5. CASE x = "typing"
  BY <1>3, <1>5, QueryAnnotationsHave
<1>6. CASE x = "collections" /\ (conf.eager => x \in QueryFieldModules)
  <2>1. CASE ~conf.eager
    <3>1. x \in DunderAll
      BY <1>6, <2>1 DEF DunderAll
    <3> QED BY <1>3, <3>1, QueryAnnotationsHave
  <2>2. CASE \E p \in queries : p.cmd = "many"
    <3>1. PICK p \in queries : p.cmd = "many"
      BY <2>2
    <3>2. AnyMany(Of(f))
      BY <3>1 DEF AnyMany, Many
    <3>3. x \in ResultNames(p) \cup QueryResultsNames(Of(f))
      BY <1>6, <3>1, <3>2 DEF ResultNames, QueryResultsNames
    <3> QED BY <1>3, <3>3, QueryAnnotationsHave
  <2>3. CASE \E p \in queries : p.cmd = "copyfrom"
    <3>1. PICK p \in queries : p.cmd = "copyfrom"
      BY <2>3
    <3>2. x \in ArgNames(p)
      BY <1>6, <3>1 DEF ArgNames
    <3> QED BY <1>3, <3>2, QueryAnnotationsHave
  <2>4. CASE \E v \in ValuesOf(queries) : Emits(v) /\ x \in FieldModules(v)
    <3>1. PICK v \in ValuesOf(queries) : Emits(v) /\ x \in FieldModules(v)
      BY <2>4
    <3>2. x \in FieldNames(v)
      BY <1>6, <3>1 DEF FieldModules, FieldNames, ClassNames
    <3> QED BY <1>3, <3>2, QueryAnnotationsHave
  <2>5. CASE \E v \in ValuesOf(queries) : v.kind = "scalar" /\ "ints" \in TypesIn(v) /\ x \in Names("ints")
    <3>1. PICK v \in ValuesOf(queries) : v.kind = "scalar" /\ "ints" \in TypesIn(v) /\ x \in Names("ints")
      BY <2>5
    <3> QED BY <1>3, <3>1, ValueNamed
  <2>6. x \in QueryFieldModules =>
          \/ \E p \in queries : p.cmd \in {"many", "copyfrom"}
          \/ \E v \in ValuesOf(queries) :
               x \in (IF Emits(v) THEN FieldModules(v)
                      ELSE IF v.kind = "scalar" /\ "ints" \in TypesIn(v) THEN Names("ints") ELSE {})
    BY <1>6 DEF QueryFieldModules
  <2> QED BY <1>6, <2>1, <2>2, <2>3, <2>4, <2>5, <2>6
<1>7. CASE \E n \in Imported, v \in ValuesOf(queries) : x = Binds(n) /\ ValueUses(n, v) # {}
  BY <1>1, <1>7, UseNeeded
<1>8. CASE x = conf.driver
  <2>1. x \in ConnNames \cup AliasNames
    BY <1>8 DEF ConnNames, AliasNames
  <2> QED BY <1>3, <1>4, <2>1
<1>9. CASE \/ x = "asyncpg.cursor" /\ conf.driver = "asyncpg" /\ AnyMany(queries)
           \/ x = "sqlite3" /\ conf.driver = "aiosqlite" /\ AnyMany(queries)
           \/ x = "QueryResultsArgsType" /\ AnyMany(queries) /\ conf.driver # "sqlalchemy"
  <2>1. x \in QueryResultsNames(Of(f))
    BY <1>9 DEF QueryResultsNames
  <2> QED BY <1>3, <2>1, QueryAnnotationsHave
<1>10. CASE x = "ciso8601" /\ \E v \in ValuesOf(queries) : BySpeedup("date", v)
  <2>1. PICK v \in ValuesOf(queries) : OnSqlite /\ conf.speedups /\ ValueUses("date", v) # {}
    BY <1>10 DEF BySpeedup
  <2>2. Modular("date") /\ "date" \in Imported
    BY DEF Modular, Imported
  <2>3. "date" \in TypesIn(v)
    BY <2>1, <2>2, UsesOnlyOf
  <2>4. ByTable("date")
    BY <2>1 DEF ByTable, SqlType
  <2>5. "date" \in ToConvert(f)
    BY <2>1, <2>3, <2>4 DEF ToConvert
  <2> QED BY <1>1, <1>10, <2>1, <2>5, NeededHas
<1>11. CASE x \in ModelBase
  <2>1. x = Base /\ \E p \in queries : (\E v \in ValuesOf({p}) : Emits(v)) \/ p.cmd = "copyfrom"
    BY <1>11 DEF ModelBase
  <2>2. \A p \in queries : ValuesOf({p}) \subseteq ValuesOf(queries)
    BY DEF ValuesOf
  <2>3. \E v \in ValuesOf(queries) : Emits(v)
    BY <2>1, <2>2, QueryFacts
  <2>4. x \in BodyNames(f)
    BY <1>1, <2>1, <2>3, FilesNamed DEF BodyNames
  <2> QED BY <1>3, <2>4
<1>12. CASE x = "models" /\ ReferencesModels
  <2>1. PICK v \in ValuesOf(queries) :
          \/ v.kind = "model"
          \/ v.kind \in {"row", "scalar"} /\ ("enum" \in TypesIn(v) \/ v.embeds # {})
    BY <1>12 DEF ReferencesModels
  <2>2. CASE v.kind = "model"
    <3>1. PICK p \in queries : v = p.ret
      BY <2>2, ValueFacts
    <3>2. x \in ResultNames(p)
      BY <1>12, <2>2, <3>1 DEF ResultNames
    <3> QED BY <1>3, <3>2, QueryAnnotationsHave
  <2>3. CASE v.kind # "model" /\ "enum" \in TypesIn(v)
    <3>1. Names("enum") = {"models"}
      BY DEF Names
    <3> QED BY <1>3, <1>12, <2>3, <3>1, ValueNamed
  <2>4. CASE v.kind # "model" /\ v.embeds # {}
    <3>1. Emits(v)
      BY <2>4, ValueFacts DEF Emits
    <3>2. x \in FieldNames(v)
      BY <1>12, <2>4, <3>1 DEF FieldNames
    <3> QED BY <1>3, <3>2, QueryAnnotationsHave
  <2> QED BY <2>1, <2>2, <2>3, <2>4
<1>13. CASE x \in {"pydantic", "T"} /\ \E p \in queries : Validated(p.ret)
  <2>1. x \in BodyNames(f)
    BY <1>1, <1>13, FilesNamed DEF BodyNames
  <2> QED BY <1>3, <2>1
<1>14. CASE x = "ConnectionLike" /\ conf.driver = "asyncpg"
  <2>1. x \in ConnNames
    BY <1>14 DEF ConnNames
  <2> QED BY <1>3, <1>4, <2>1
<1> QED BY <1>5, <1>6, <1>7, <1>8, <1>9, <1>10, <1>11, <1>12, <1>13, <1>14, QueryImportsOnly DEF QueryBlocks

-----------------------------------------------------------------------------
(* Calls. *)

\* The conversion of an override, where the importer looks for it.
LEMMA OverrideBound ==
  ASSUME Handed, NEW v \in ValuesOf(queries), "T" \in TypesIn(v), v.kind # "model" \/ OnSqlite
  PROVE  Names("T") \subseteq QueryImports.runtime
<1>1. CASE Modular("T")
  <2>1. Converts("T")
    BY DEF Converts
  <2> QED BY <1>1, <2>1, ConvertedBound
<1>2. CASE ~Modular("T")
  <2>1. "T" \in Types(conf)
    BY ValueFacts, TypeFacts
  <2> QED BY <1>2, <2>1, OtherNames
<1> QED BY <1>1, <1>2

\* An override needs no other name than its own.
LEMMA OverrideNames == Names("T") \subseteq {"T"}
BY DEF Names

\* A query that builds a model has the module of the models.
LEMMA ReferencesBound ==
  ASSUME Handed, NEW q \in queries, q.ret.kind = "model" \/ q.ret.embeds # {}
  PROVE  "models" \in QueryImports.runtime
<1>1. q.ret \in ValuesOf(queries)
  BY QueryFacts
<1>2. ReferencesModels
  BY <1>1, ClassNamesFound DEF ReferencesModels
<1> QED BY <1>2, QueryImportsHave

\* Building a result finds its names.
LEMMA DecodeFound ==
  ASSUME Handed, NEW q \in queries
  PROVE  DecodeNames(q) \subseteq QueryImports.runtime \cup KnownMissing(q)
<1> DEFINE v == q.ret
<1>1. v \in ValuesOf(queries) /\ v.kind \in {"none", "scalar", "row", "model"}
  BY QueryFacts
<1>2. CASE v.kind = "none" \/ (v.kind = "scalar" /\ conf.driver = "sqlalchemy")
  <2>1. DecodeNames(q) = {}
    BY <1>2, DriverCases DEF DecodeNames
  <2> QED BY <2>1
<1>3. CASE v.kind = "scalar" /\ conf.driver = "asyncpg"
  <2>1. DecodeNames(q) = UNION {Names(t) : t \in {u \in TypesIn(v) : ByTable(u)}}
    BY <1>3, DriverCases DEF DecodeNames
  <2>2. ASSUME NEW t \in TypesIn(v), ByTable(t) PROVE Names(t) \subseteq QueryImports.runtime
    <3>1. CASE Modular(t)
      <4>1. Converts(t) /\ ~OnSqlite
        BY <1>3, <2>2, DriverCases DEF Converts
      <4> QED BY <1>1, <1>3, <3>1, <4>1, ConvertedBound
    <3>2. CASE ~Modular(t)
      <4>1. t \in {"blob", "T"}
        BY <1>3, <2>2, DriverCases DEF ByTable, SqlType
      <4>2. t \in Types(conf)
        BY <1>1, ValueFacts, TypeFacts
      <4> QED BY <3>2, <4>1, <4>2, OtherNames
    <3> QED BY <3>1, <3>2
  <2> QED BY <2>1, <2>2
<1>4. CASE v.kind = "scalar" /\ OnSqlite
  <2>1. DecodeNames(q) = UNION {Names(t) : t \in TypesIn(v) \cap {"T"}}
    BY <1>4, DriverCases DEF DecodeNames
  <2>2. "T" \in TypesIn(v) => Names("T") \subseteq QueryImports.runtime
    BY <1>1, <1>4, OverrideBound
  <2> QED BY <2>1, <2>2
<1>5. CASE v.kind \in {"row", "model"}
  <2> DEFINE converted == IF conf.driver = "sqlalchemy" /\ Validated(v) THEN {} ELSE TypesRead(v) \cap {"T"}
  <2>1. DecodeNames(q) = (UNION {Names(t) : t \in converted})
                           \cup (IF v.kind = "model" \/ v.embeds # {} THEN {"models"} ELSE {})
    BY <1>5, Zenon DEF DecodeNames
  <2>2. (IF v.kind = "model" \/ v.embeds # {} THEN {"models"} ELSE {}) \subseteq QueryImports.runtime
    BY ReferencesBound
  <2>3. ASSUME "T" \in TypesRead(v) PROVE Names("T") \subseteq QueryImports.runtime \cup KnownMissing(q)
    <3>1. CASE "T" \in TypesEmbedded(v) \/ (v.kind = "model" /\ ~OnSqlite)
      <4>1. "T" \in KnownMissing(q)
        BY <3>1 DEF KnownMissing
      <4> QED BY <4>1, OverrideNames
    <3>2. CASE "T" \in TypesIn(v) /\ (v.kind # "model" \/ OnSqlite)
      BY <1>1, <3>2, OverrideBound
    <3> QED BY <2>3, <3>1, <3>2 DEF TypesRead
  <2>4. UNION {Names(t) : t \in converted} \subseteq QueryImports.runtime \cup KnownMissing(q)
    BY <2>3
  <2> QED BY <2>1, <2>2, <2>4
<1> QED BY <1>1, <1>2, <1>3, <1>4, <1>5, DriverCases

\* Handing a :many to QueryResults finds its names.
LEMMA WrapperFound ==
  ASSUME Handed, NEW q \in queries
  PROVE  WrapperNames(q) \subseteq QueryImports.runtime \cup KnownMissing(q)
<1>1. CASE q.cmd \notin Many \/ conf.driver = "sqlalchemy"
  BY <1>1 DEF WrapperNames
<1>2. CASE q.cmd \in Many /\ conf.driver # "sqlalchemy"
  <2>1. ResultNames(q) \subseteq QueryImports.runtime \cup KnownMissing(q)
    <3>1. q.ret.kind = "model" => "models" \in QueryImports.runtime
      BY ReferencesBound
    <3>2. ASSUME q.ret.kind = "scalar" PROVE NamesIn(q.ret) \subseteq QueryImports.runtime \cup KnownMissing(q)
      <4>1. PICK t \in Types(conf) : q.ret = Scalar(t)
        BY <3>2, QueryFacts
      <4>2. NamesIn(q.ret) = Names(t)
        BY <4>1, TypeFacts DEF NamesIn
      <4>3. t = "ints" => "collections" \in KnownMissing(q)
        BY <1>2, <4>1 DEF KnownMissing
      <4> QED BY <1>2, <4>1, <4>2, <4>3, ManyBound
    <3> QED BY <1>2, <3>1, <3>2 DEF ResultNames
  <2>2. ASSUME q.ret.kind = "scalar",
               \A t \in TypesIn(q.ret) : IF OnSqlite THEN t # "T" ELSE ~ByTable(t)
        PROVE  "operator" \in QueryImports.runtime \cup KnownMissing(q)
    <3>1. CASE \E t \in TypesIn(q.ret) : ByTable(t)
      <4>1. OnSqlite
        BY <2>2, <3>1
      <4> QED BY <2>2, <3>1, <4>1 DEF KnownMissing
    <3>2. CASE \A t \in TypesIn(q.ret) : ~ByTable(t)
      <4>1. SimpleReturn
        BY <2>2, <3>2 DEF SimpleReturn, IsStruct
      <4>2. AnyMany(queries)
        BY <1>2 DEF AnyMany
      <4>3. "operator" \in DriverImports.runtime
        BY <1>2, <4>1, <4>2, DriverImportsAre
      <4> QED BY <4>3, QueryImportsHave
    <3> QED BY <3>1, <3>2
  <2> DEFINE plain == q.ret.kind = "scalar" /\ \A t \in TypesIn(q.ret) : IF OnSqlite THEN t # "T" ELSE ~ByTable(t)
  <2>3. WrapperNames(q) = ResultNames(q) \cup (IF plain THEN {"operator"} ELSE {})
    BY <1>2 DEF WrapperNames
  <2>4. plain => "operator" \in QueryImports.runtime \cup KnownMissing(q)
    BY <2>2
  <2> HIDE DEF plain
  <2> QED BY <2>1, <2>3, <2>4
<1> QED BY <1>1, <1>2

\* A converter was registered by a file with the same imports.
LEMMA ConverterFound ==
  ASSUME Handed, HasImports, Registering, NEW v
  PROVE  ConverterNames(v) \subseteq QueryImports.runtime
<1>1. ASSUME OnSqlite, NEW t \in converters
      PROVE  (IF t = "date" /\ conf.speedups THEN {"ciso8601"} ELSE Names(t)) \subseteq QueryImports.runtime
  <2>1. PICK f \in Files : t \in ToConvert(f) /\ RegistrationNames(f) \subseteq Bound(f)
    BY <1>1 DEF Registering
  <2>2. CASE t = "date" /\ conf.speedups
    <3>1. \E u \in ValuesOf(queries) : BySpeedup("date", u)
      BY <2>1, <2>2, RegisteredBound
    <3>2. "ciso8601" \in DriverImports.runtime
      BY <1>1, <3>1, DriverImportsAre
    <3> QED BY <2>2, <3>2, QueryImportsHave
  <2>3. CASE ~(t = "date" /\ conf.speedups)
    <3>1. Names(t) \subseteq UNION {Names(u) : u \in ToConvert(f)}
      BY <2>1
    <3>2. Names(t) \subseteq RegistrationNames(f)
      BY <2>1, <3>1, QueriesImport DEF RegistrationNames
    <3> QED BY <2>1, <2>3, <3>2, QueriesImport
  <2> QED BY <2>2, <2>3
<1> QED BY <1>1 DEF ConverterNames

\* A call of a loaded query finds all its names.
LEMMA CallFound ==
  ASSUME Handed, HasImports, Registering, NEW q \in queries
  PROVE  CallNames(q) \ Bound(q.file) \subseteq KnownMissing(q)
<1>1. Bound(q.file) = QueryImports.runtime
  BY QueryFacts, QueriesImport
<1>2. ParamNames(q) \subseteq KnownMissing(q)
  BY DEF ParamNames, KnownMissing
<1>3. conf.driver = "sqlalchemy" => "sqlalchemy" \in QueryImports.runtime
  BY DriverFound
<1> QED BY <1>1, <1>2, <1>3, DecodeFound, WrapperFound, ConverterFound DEF CallNames

\* What a loaded file registered is all that its own values need.
LEMMA CallConverted ==
  ASSUME Handed, NEW q \in queries, ToConvert(q.file) \subseteq converters
  PROVE  {t \in UNION {TypesRead(v) : v \in ValuesOf({q})} : OnSqlite /\ t # "T" /\ ByTable(t)} \ converters
           \subseteq TypesEmbedded(q.ret) \ UNION {TypesIn(v) : v \in ValuesOf({q})}
<1> SUFFICES ASSUME NEW v \in ValuesOf({q}), NEW t \in TypesRead(v),
                    OnSqlite, t # "T", ByTable(t), t \notin converters
             PROVE  /\ t \in TypesEmbedded(q.ret)
                    /\ \A w \in ValuesOf({q}) : t \notin TypesIn(w)
  OBVIOUS
<1>1. q \in Of(q.file)
  BY DEF Of
<1>2. ValuesOf({q}) \subseteq ValuesOf(Of(q.file))
  BY <1>1 DEF ValuesOf
<1>3. \A w \in ValuesOf({q}) : t \notin TypesIn(w)
  BY <1>2 DEF ToConvert
<1>4. t \in TypesEmbedded(v)
  BY <1>3 DEF TypesRead
<1>5. v \in q.args => v.embeds = {}
  BY QueryFacts
<1>6. v = q.ret \/ v \in q.args
  BY DEF ValuesOf
<1>7. v \notin q.args
  BY <1>4, <1>5 DEF TypesEmbedded
<1> QED BY <1>3, <1>4, <1>6, <1>7

-----------------------------------------------------------------------------
(* The actions. *)

\* A step leaves a package that can be.
LEMMA HandedStays ==
  ASSUME Handed, UNCHANGED input
  PROVE  Handed'
BY DEF Handed, input

\* The properties of the last call, of a step without one.
LEMMA CalledStays ==
  ASSUME CallsResolve, ReadsAsDeclared, UNCHANGED <<input, last>>
  PROVE  CallsResolve' /\ ReadsAsDeclared'
<1>1. last' = last
  OBVIOUS
<1>2. CallsResolve'
  BY <1>1, ExceptionsStay DEF CallsResolve
<1>3. ReadsAsDeclared'
  BY <1>1 DEF ReadsAsDeclared, TypesEmbedded, TypesIn, ValuesOf
<1> QED BY <1>2, <1>3

\* A file that is there has its imports: before, no name is imported.
LEMMA ImportsThere ==
  ASSUME Handed, Generating
  PROVE  imports["query"].runtime # {} <=> HasImports
<1>1. HasImports => imports["query"].runtime # {}
  BY QueryImportsHave DEF HasImports
<1>2. NotImported => imports["query"].runtime = {}
  BY DEF NotImported
<1> QED BY <1>1, <1>2 DEF Generating

\* The invariant holds before anything is generated.
LEMMA StartInv == ImpInit => ImpInv
<1> SUFFICES ASSUME ImpInit PROVE ImpInv
  OBVIOUS
<1>1. Handed
  <2>1. PICK p \in Packages(conf) : queries = p.queries /\ models = p.models
    BY DEF ImpInit
  <2> QED BY <2>1, PackagesPossible DEF ImpInit, Handed
<1>2. loaded = [f \in {"models"} \cup Files |-> "new"]
  BY DEF ImpInit
<1>3. Generating
  BY DEF ImpInit, Generating, NotImported
<1>4. Loading
  BY <1>2 DEF Loading
<1>5. Registering
  BY <1>2 DEF Registering, ImpInit
<1>6. CallsResolve /\ ReadsAsDeclared
  BY DEF CallsResolve, ReadsAsDeclared, ImpInit
<1> QED BY <1>1, <1>3, <1>4, <1>5, <1>6 DEF ImpInv

\* Generating keeps it: nothing was loaded before.
LEMMA GenerateStep ==
  ASSUME ImpInv, Generate
  PROVE  ImpInv'
<1>1. Handed' /\ UNCHANGED input
  BY HandedStays DEF ImpInv, Generate
<1>2. NotImported /\ loaded = [f \in {"models"} \cup Files |-> "new"] /\ converters = {} /\ last = <<>>
  BY ImportsThere DEF ImpInv, Generate, Generating
<1>3. HasImports'
  BY <1>1, ImportsStay DEF HasImports, Generate
<1>4. loaded' = [f \in {"models"} \cup Files |-> "new"] /\ converters' = {} /\ last' = <<>>
  BY <1>2 DEF Generate
<1>5. Loading'
  BY <1>4 DEF Loading
<1>6. Registering'
  BY <1>4 DEF Registering
<1>7. CallsResolve' /\ ReadsAsDeclared'
  BY <1>4 DEF CallsResolve, ReadsAsDeclared
<1> QED BY <1>1, <1>3, <1>5, <1>6, <1>7 DEF ImpInv, Generating

\* How a file can end.
LEMMA OutcomeIs == \A f : Outcome(f) \in {"loaded", "NameError", "SyntaxError"}
BY DEF Outcome

\* Loading models.py keeps it.
LEMMA LoadModelsStep ==
  ASSUME ImpInv, LoadModels
  PROVE  ImpInv'
<1>1. Handed' /\ UNCHANGED input /\ UNCHANGED <<input, imports>> /\ UNCHANGED <<input, last>> /\ converters' = converters
  BY HandedStays DEF ImpInv, LoadModels
<1>2. HasImports'
  <2>1. HasImports
    BY ImportsThere DEF ImpInv, LoadModels
  <2> QED BY <1>1, <2>1, ImportsStay DEF HasImports
<1>3. CallsResolve' /\ ReadsAsDeclared'
  BY <1>1, CalledStays DEF ImpInv
<1>4. \A f : /\ Outcome(f)' = Outcome(f) /\ ToConvert(f)' = ToConvert(f)
             /\ RegistrationNames(f)' = RegistrationNames(f) /\ Bound(f)' = Bound(f)
  BY <1>1, LoadingStays
<1>5. /\ loaded' \in [{"models"} \cup Files -> {"new", "loaded", "NameError", "SyntaxError"}]
      /\ loaded'["models"] = Outcome("models")
      /\ \A f \in Files : loaded'[f] = loaded[f]
  BY OutcomeIs, FilesNamed DEF LoadModels, ImpInv, Loading
<1>6. Loading'
  BY <1>4, <1>5 DEF ImpInv, Loading
<1>7. Registering'
  BY <1>1, <1>4, <1>5 DEF ImpInv, Registering
<1> QED BY <1>1, <1>2, <1>3, <1>6, <1>7 DEF ImpInv, Generating

\* Loading a query file keeps it: a file that ends well has registered its types.
LEMMA LoadQueriesStep ==
  ASSUME ImpInv, NEW f \in Files, LoadQueries(f)
  PROVE  ImpInv'
<1>1. Handed' /\ UNCHANGED input /\ UNCHANGED <<input, imports>> /\ UNCHANGED <<input, last>>
  BY HandedStays DEF ImpInv, LoadQueries
<1>2. HasImports'
  <2>1. HasImports
    BY ImportsThere DEF ImpInv, LoadQueries
  <2> QED BY <1>1, <2>1, ImportsStay DEF HasImports
<1>3. CallsResolve' /\ ReadsAsDeclared'
  BY <1>1, CalledStays DEF ImpInv
<1>4. \A g : /\ Outcome(g)' = Outcome(g) /\ ToConvert(g)' = ToConvert(g)
             /\ RegistrationNames(g)' = RegistrationNames(g) /\ Bound(g)' = Bound(g)
  BY <1>1, LoadingStays
<1> DEFINE parses == Outcome(f) # "SyntaxError"
<1> DEFINE ofModels == IF parses /\ "models" \in Bound(f) /\ loaded["models"] = "new"
                       THEN Outcome("models") ELSE loaded["models"]
<1> DEFINE ready == "models" \in Bound(f) => ofModels = "loaded"
<1> DEFINE ends == IF parses /\ ~ready THEN ofModels ELSE Outcome(f)
<1> DEFINE registered == IF ready /\ parses /\ RegistrationNames(f) \subseteq Bound(f) THEN ToConvert(f) ELSE {}
<1>5. /\ loaded' = [loaded EXCEPT !["models"] = ofModels, ![f] = ends]
      /\ converters' = converters \cup registered
  BY DEF LoadQueries
<1>6. ofModels \in {"new", Outcome("models")}
  BY DEF ImpInv, Loading
<1>7. \/ ends = Outcome(f)
      \/ ends = Outcome("models") /\ ends # "loaded"
  <2>1. CASE parses /\ ~ready
    <3>1. "models" \in Bound(f) /\ ofModels # "loaded"
      BY <2>1
    <3>2. ofModels # "new"
      BY <2>1, <3>1, OutcomeIs
    <3> QED BY <2>1, <3>1, <3>2, <1>6
  <2>2. CASE ~(parses /\ ~ready)
    BY <2>2
  <2> QED BY <2>1, <2>2
<1>8. ends = "loaded" => Outcome(f) = "loaded" /\ registered = ToConvert(f)
  <2> SUFFICES ASSUME ends = "loaded" PROVE Outcome(f) = "loaded" /\ registered = ToConvert(f)
    OBVIOUS
  <2>1. ~(parses /\ ~ready) /\ Outcome(f) = "loaded"
    BY <1>7
  <2>2. RegistrationNames(f) \subseteq Bound(f)
    BY <2>1 DEF Outcome
  <2> QED BY <2>1, <2>2
<1>9. registered \subseteq ToConvert(f) /\ (registered # {} => RegistrationNames(f) \subseteq Bound(f))
  OBVIOUS
<1> HIDE DEF ofModels, ends, registered
<1>10. /\ loaded' \in [{"models"} \cup Files -> {"new", "loaded", "NameError", "SyntaxError"}]
       /\ loaded'["models"] = ofModels /\ loaded'[f] = ends
       /\ \A g \in Files : g # f => loaded'[g] = loaded[g]
  <2>1. f # "models"
    BY FilesNamed
  <2>2. loaded \in [{"models"} \cup Files -> {"new", "loaded", "NameError", "SyntaxError"}]
    BY DEF ImpInv, Loading
  <2>3. ofModels \in {"new", "loaded", "NameError", "SyntaxError"}
          /\ ends \in {"new", "loaded", "NameError", "SyntaxError"}
    BY <1>6, <1>7, OutcomeIs
  <2>4. \A g \in Files : g # "models"
    BY FilesNamed
  <2> QED BY <1>5, <2>1, <2>2, <2>3, <2>4
<1>11. Loading'
  <2>1. loaded'["models"] \in {"new", Outcome("models")'}
    BY <1>4, <1>6, <1>10
  <2>2. ASSUME NEW g \in Files
        PROVE  \/ loaded'[g] \in {"new", Outcome(g)'}
               \/ loaded'[g] = Outcome("models")' /\ loaded'[g] # "loaded"
    <3>1. CASE g = f
      BY <3>1, <1>4, <1>7, <1>10
    <3>2. CASE g # f
      <4>1. \/ loaded[g] \in {"new", Outcome(g)}
            \/ loaded[g] = Outcome("models") /\ loaded[g] # "loaded"
        BY DEF ImpInv, Loading
      <4> QED BY <3>2, <4>1, <1>4, <1>10
    <3> QED BY <3>1, <3>2
  <2> QED BY <1>10, <2>1, <2>2 DEF Loading
<1>12. Registering'
  <2>1. ASSUME NEW g \in Files, loaded'[g] = "loaded"
        PROVE  Outcome(g)' = "loaded" /\ ToConvert(g)' \subseteq converters'
    <3>1. CASE g = f
      BY <3>1, <2>1, <1>4, <1>5, <1>8, <1>10
    <3>2. CASE g # f
      <4>1. Outcome(g) = "loaded" /\ ToConvert(g) \subseteq converters
        BY <3>2, <2>1, <1>10 DEF ImpInv, Registering
      <4> QED BY <4>1, <1>4, <1>5
    <3> QED BY <3>1, <3>2
  <2>2. ASSUME NEW t \in converters'
        PROVE  \E g \in Files : t \in ToConvert(g)' /\ RegistrationNames(g)' \subseteq Bound(g)'
    <3>1. CASE t \in converters
      BY <3>1, <1>4 DEF ImpInv, Registering
    <3>2. CASE t \in registered
      BY <3>2, <1>4, <1>9
    <3> QED BY <3>1, <3>2, <1>5
  <2> QED BY <2>1, <2>2 DEF Registering
<1> QED BY <1>1, <1>2, <1>3, <1>11, <1>12 DEF ImpInv, Generating

\* A call keeps it: it finds its names, and reads what its file has registered.
LEMMA CallQueryStep ==
  ASSUME ImpInv, NEW q \in queries, CallQuery(q)
  PROVE  ImpInv'
<1>1. /\ Handed' /\ UNCHANGED input /\ UNCHANGED <<input, imports>>
      /\ loaded' = loaded /\ converters' = converters /\ loaded[q.file] = "loaded"
  BY HandedStays DEF ImpInv, CallQuery
<1>2. q.file \in Files
  BY QueryFacts DEF ImpInv
<1>3. HasImports
  BY <1>1, <1>2 DEF ImpInv, Generating
<1>4. HasImports'
  BY <1>1, <1>3, ImportsStay DEF HasImports
<1>5. \A f : /\ Outcome(f)' = Outcome(f) /\ ToConvert(f)' = ToConvert(f)
             /\ RegistrationNames(f)' = RegistrationNames(f) /\ Bound(f)' = Bound(f)
  BY <1>1, LoadingStays
<1>6. Loading'
  BY <1>1, <1>5 DEF ImpInv, Loading
<1>7. Registering'
  BY <1>1, <1>5 DEF ImpInv, Registering
<1> DEFINE raw == {t \in UNION {TypesRead(v) : v \in ValuesOf({q})} : OnSqlite /\ t # "T" /\ ByTable(t)} \ converters
<1>8. last' = <<[query |-> q, missing |-> CallNames(q) \ Bound(q.file), raw |-> raw]>>
  BY DEF CallQuery
<1>9. raw \subseteq TypesEmbedded(q.ret) \ UNION {TypesIn(v) : v \in ValuesOf({q})}
  <2>1. ToConvert(q.file) \subseteq converters
    BY <1>1, <1>2 DEF ImpInv, Registering
  <2> QED BY <2>1, CallConverted DEF ImpInv
<1> HIDE DEF raw
<1>10. /\ last'[1].query = q /\ last'[1].raw = raw
       /\ last'[1].missing = CallNames(q) \ Bound(q.file)
  BY <1>8
<1>11. CallsResolve'
  <2>1. CallNames(q) \ Bound(q.file) \subseteq KnownMissing(q)
    BY <1>3, CallFound DEF ImpInv
  <2>2. last'[1].missing \subseteq KnownMissing(q)'
    BY <1>1, <1>10, <2>1, ExceptionsStay
  <2>3. last'[1].missing \subseteq KnownMissing(last[1].query)'
    BY <1>10, <2>2
  <2> QED BY <2>3 DEF CallsResolve
<1>12. ReadsAsDeclared'
  BY <1>9, <1>10 DEF ReadsAsDeclared, TypesEmbedded, TypesIn, ValuesOf
<1> QED BY <1>1, <1>4, <1>6, <1>7, <1>11, <1>12 DEF ImpInv, Generating

\* A stuttering step keeps it.
LEMMA StillInv == ImpInv /\ UNCHANGED impVars => ImpInv'
<1> SUFFICES ASSUME ImpInv, UNCHANGED impVars PROVE ImpInv'
  OBVIOUS
<1>1. /\ UNCHANGED input /\ UNCHANGED <<input, imports>> /\ UNCHANGED <<input, last>>
      /\ imports' = imports /\ loaded' = loaded /\ converters' = converters /\ last' = last
  BY DEF impVars
<1>2. Handed' /\ CallsResolve' /\ ReadsAsDeclared'
  BY <1>1, HandedStays, CalledStays DEF ImpInv
<1>3. \A f : /\ Outcome(f)' = Outcome(f) /\ ToConvert(f)' = ToConvert(f)
             /\ RegistrationNames(f)' = RegistrationNames(f) /\ Bound(f)' = Bound(f)
  BY <1>1, LoadingStays
<1>4. Generating'
  BY <1>1, ImportsStay DEF ImpInv, Generating, HasImports, NotImported
<1>5. Loading'
  BY <1>1, <1>3 DEF ImpInv, Loading
<1>6. Registering'
  BY <1>1, <1>3 DEF ImpInv, Registering
<1> QED BY <1>2, <1>4, <1>5, <1>6 DEF ImpInv

\* The invariant holds always.
LEMMA InvHolds == ImpSpec => []ImpInv
<1>1. ASSUME ImpInv, [ImpNext]_impVars PROVE ImpInv'
  <2>1. CASE Generate
    BY <1>1, <2>1, GenerateStep
  <2>2. CASE LoadModels
    BY <1>1, <2>2, LoadModelsStep
  <2>3. CASE \E f \in Files : LoadQueries(f)
    BY <1>1, <2>3, LoadQueriesStep
  <2>4. CASE \E q \in queries : CallQuery(q)
    BY <1>1, <2>4, CallQueryStep
  <2>5. CASE UNCHANGED impVars
    BY <1>1, <2>5, StillInv
  <2> QED BY <1>1, <2>1, <2>2, <2>3, <2>4, <2>5 DEF ImpNext
<1> QED BY <1>1, StartInv, PTL DEF ImpSpec

-----------------------------------------------------------------------------
(* The theorems about the importer. *)

\* For every package, in any order of loading: Python finds each name that it
\* evaluates, but for the exceptions of the module.
THEOREM FilesLoad == ImpSpec => []ModuleLoads
<1>1. ASSUME ImpInv PROVE ModuleLoads
  <2> SUFFICES ASSUME ~ImportsNothing, NEW f \in DOMAIN loaded,
                      f = "models" \/ ~(EagerSignatures \/ RegistrationsUnbound(f))
               PROVE  loaded[f] \in {"new", "loaded"}
    BY DEF ModuleLoads
  <2>1. Handed /\ Loading /\ Generating /\ f \in {"models"} \cup Files
    BY <1>1 DEF ImpInv, Loading
  <2>2. CASE ~HasImports
    BY <2>1, <2>2 DEF Generating
  <2>3. CASE HasImports
    <3>1. Outcome("models") = "loaded"
      BY <2>1, <2>3, ModelsLoad
    <3>2. f # "models" => Outcome(f) = "loaded"
      BY <2>1, <2>3, QueriesLoad
    <3> QED BY <2>1, <3>1, <3>2 DEF Loading
  <2> QED BY <2>2, <2>3
<1> QED BY <1>1, InvHolds, PTL

\* For every package: a call of a query in a loaded file finds its names.
THEOREM CallsFindNames == ImpSpec => []CallsResolve
<1>1. ImpInv => CallsResolve
  BY DEF ImpInv
<1> QED BY <1>1, InvHolds, PTL

\* For every package: sqlite values come converted, whatever was loaded before.
THEOREM ReadsConverted == ImpSpec => []ReadsAsDeclared
<1>1. ImpInv => ReadsAsDeclared
  BY DEF ImpInv
<1> QED BY <1>1, InvHolds, PTL

\* For every package: a type checker finds each name of an annotation.
THEOREM CheckerFindsNames == ImpSpec => []CheckerResolves
<1>1. ASSUME ImpInv PROVE CheckerResolves
  <2> SUFFICES ASSUME imports["query"].runtime # {}, ~EagerSignatures,
                      NEW f \in {"models"} \cup {q.file : q \in queries}
               PROVE  Annotations(f) \cup (IF f = "models" THEN {} ELSE AliasNames)
                        \subseteq ImportsOf(f).runtime \cup ImportsOf(f).checking
    BY DEF CheckerResolves
  <2>1. Handed /\ HasImports
    BY <1>1, ImportsThere DEF ImpInv
  <2>2. CASE f = "models"
    BY <2>1, <2>2, ModelAnnotationsFound DEF Annotations, ImportsOf, HasImports, ModelBlocks
  <2>3. CASE f # "models"
    BY <2>1, <2>3, QueryAnnotationsFound DEF Annotations, ImportsOf, HasImports, QueryBlocks
  <2> QED BY <2>2, <2>3
<1> QED BY <1>1, InvHolds, PTL

\* No name is in both blocks of models.py.
LEMMA ModelBlocksApart ==
  ASSUME Handed
  PROVE  ModelImports.runtime \cap ModelImports.checking = {}
<1>1. \A n \in ModelUses : Binds(n) \in {"datetime", "decimal", "uuid", "T", ""}
  BY ImportedIs DEF Modular, Binds, ModelUses
<1> QED BY <1>1, ModelImportsAre

\* For every package: no name is imported twice, and in a lone query file each is
\* needed.
THEOREM ImportsAreUsed == ImpSpec => []ImportsUsed
<1>1. ASSUME ImpInv PROVE ImportsUsed
  <2>1. Handed /\ Generating
    BY <1>1 DEF ImpInv
  <2>2. CASE HasImports
    <3>1. \A k \in DOMAIN imports : imports[k].runtime \cap imports[k].checking = {}
      BY <2>1, <2>2, ModelBlocksApart, QueryBlocksApart DEF HasImports
    <3>2. imports["query"] = QueryImports
      BY <2>2 DEF HasImports
    <3> QED BY <2>1, <3>1, <3>2, NothingDead DEF ImportsUsed, QueryBlocks
  <2>3. CASE NotImported
    <3>1. \A k \in DOMAIN imports : imports[k].runtime = {} /\ imports[k].checking = {}
      BY <2>3 DEF NotImported
    <3>2. imports["query"].runtime = {} /\ imports["query"].checking = {}
      BY <2>3 DEF NotImported
    <3> QED BY <3>1, <3>2 DEF ImportsUsed
  <2> QED BY <2>1, <2>2, <2>3 DEF Generating
<1> QED BY <1>1, InvHolds, PTL

-----------------------------------------------------------------------------
(* sqlite3's QueryResults: the inductive invariant.                         *)

\* Inside __next__ the caller has no answer yet.
Asked == caller # NoLoop => answer = "pending"

\* Without a cursor the position is zero, and the stop leaves none behind.
AtStart ==
  /\ cursor = "None" => size = 0
  /\ answer = "stop" => cursor = "None"
  /\ in = {} /\ ~leftover => cursor = "None"

\* A loop that has the object for itself is alone, and the rows it was given are
\* those that were taken; none was lost.
Alone == \A l \in whole : l \in in => in = {l} /\ got[l] = taken /\ lost = 0

Inv == TypeOK /\ Asked /\ AtStart /\ Alone

-----------------------------------------------------------------------------
(* Its actions.  Complete is what LoneLoopComplete says of one step. *)

Complete ==
  \A l \in whole : l \in in /\ l \notin in' /\ answer' = "stop" => got[l] = size

Maps == Iteration!Next \/ UNCHANGED Iteration!vars

\* A call that answers, or asks, without touching the position.
LEMMA IsAskOrFetch ==
  ASSUME NEW what \in {"pending", "list", "error"}, answer' = what,
         UNCHANGED <<cursor, size, taken, lost>>
  PROVE  Iteration!Next
<1>1. Iteration!Ask("thread") \/ Iteration!Fetch("thread")
  BY DEF Iteration!Ask, Iteration!Fetch, Iteration!Answers
<1> QED BY <1>1 DEF Iteration!Next

\* The invariant of the class holds at the start, which is a start of RowIteration.
LEMMA InitInv == Init => Inv /\ Iteration!Init
<1> SUFFICES ASSUME Init PROVE Inv /\ Iteration!Init
  OBVIOUS
<1>1. TypeOK
  <2>1. 0 \in 0..MaxRows /\ 0 \in 0..0 /\ 0 \in 0..(0 - 0) /\ 0 \in 0..(MaxRows + 1)
    BY RowBound
  <2>2. size \in 0..MaxRows /\ taken \in 0..size /\ lost \in 0..(size - taken)
    BY <2>1 DEF Init
  <2>3. got \in [Loop -> 0..(MaxRows + 1)]
    BY <2>1 DEF Init
  <2> QED BY <2>2, <2>3 DEF Init, TypeOK
<1>2. Asked /\ AtStart /\ Alone
  BY DEF Init, Asked, AtStart, Alone
<1>3. Iteration!Init
  BY DEF Init, Iteration!Init
<1> QED BY <1>1, <1>2, <1>3 DEF Inv

\* A loop that begins.
LEMMA EnterStep ==
  ASSUME Inv, NEW l \in Loop, EnterLoop(l)
  PROVE  Inv' /\ Complete /\ Maps
<1>1. TypeOK'
  BY RowBound DEF EnterLoop, position, Inv, TypeOK
<1>2. Asked' /\ AtStart'
  BY DEF EnterLoop, position, Inv, Asked, AtStart
<1>3. Alone'
  <2>1. CASE in = {} /\ ~leftover
    <3>1. whole' = {l} /\ in' = {l} /\ got'[l] = 0
      BY <2>1 DEF EnterLoop, Inv, TypeOK
    <3>2. taken' = 0 /\ lost' = 0
      BY <2>1, RowBound DEF EnterLoop, position, Inv, TypeOK, AtStart
    <3> QED BY <3>1, <3>2 DEF Alone
  <2>2. CASE ~(in = {} /\ ~leftover)
    BY <2>2 DEF EnterLoop, Alone
  <2> QED BY <2>1, <2>2
<1>4. Complete
  BY DEF EnterLoop, Complete
<1>5. UNCHANGED Iteration!vars
  BY DEF EnterLoop, position, Iteration!vars
<1> QED BY <1>1, <1>2, <1>3, <1>4, <1>5 DEF Inv, Maps

\* A loop that is broken off.
LEMMA BreakStep ==
  ASSUME Inv, NEW l \in Loop, BreakLoop(l)
  PROVE  Inv' /\ Complete /\ Maps
<1>1. TypeOK'
  BY DEF BreakLoop, position, Inv, TypeOK
<1>2. Asked' /\ AtStart'
  BY DEF BreakLoop, position, Inv, Asked, AtStart
<1>3. Alone'
  BY DEF BreakLoop, position, Inv, Alone
<1>4. Complete
  <2> SUFFICES ASSUME NEW k \in whole, k \in in, answer' = "stop" PROVE got[k] = size
    BY DEF Complete
  <2>1. size = 0 /\ taken = 0
    BY RowBound DEF BreakLoop, position, Inv, AtStart, TypeOK
  <2> QED BY <2>1 DEF Inv, Alone
<1>5. UNCHANGED Iteration!vars
  BY DEF BreakLoop, position, Iteration!vars
<1> QED BY <1>1, <1>2, <1>3, <1>4, <1>5 DEF Inv, Maps

\* A loop that asks for a row.
LEMMA CallNextStep ==
  ASSUME Inv, NEW l \in Loop, CallNext(l)
  PROVE  Inv' /\ Complete /\ Maps
<1>1. /\ UNCHANGED <<cursor, iterator, size, taken, lost, in, got, whole, leftover>>
      /\ answer' = "pending" /\ caller' = l /\ l \in in
  BY DEF CallNext, position, loops
<1>2. TypeOK'
  BY <1>1 DEF Inv, TypeOK
<1>3. Asked' /\ AtStart' /\ Alone'
  BY <1>1 DEF Inv, Asked, AtStart, Alone
<1>4. Complete
  BY <1>1 DEF Complete
<1>5. Iteration!Next
  BY <1>1, IsAskOrFetch
<1> QED BY <1>2, <1>3, <1>4, <1>5 DEF Inv, Maps

\* The first row of an object executes, which opens the iteration.
LEMMA ExecuteStep ==
  ASSUME Inv, Execute
  PROVE  Inv' /\ Complete /\ Maps
<1>1. /\ cursor = "None" /\ caller # NoLoop /\ size' \in 0..MaxRows /\ taken' = 0
      /\ lost' = 0 /\ cursor' = "rows" /\ iterator' = "rows" /\ answer = "pending"
      /\ UNCHANGED <<caller, answer, in, got, whole, leftover>>
  BY DEF Execute, NotStarted, loops, Inv, TypeOK, Asked
<1>2. taken = 0 /\ lost = 0 /\ caller \in in
  BY <1>1, RowBound DEF Inv, TypeOK, AtStart
<1>3. TypeOK'
  <2>1. \A n \in 0..MaxRows : 0 \in 0..n /\ 0 \in 0..(n - 0)
    BY RowBound
  <2>2. size' \in 0..MaxRows /\ taken' \in 0..size' /\ lost' \in 0..(size' - taken')
    BY <1>1, <2>1
  <2> QED BY <1>1, <2>2 DEF Inv, TypeOK
<1>4. Asked' /\ AtStart' /\ Alone'
  BY <1>1, <1>2 DEF Inv, Asked, AtStart, Alone
<1>5. Complete
  BY <1>1 DEF Complete
<1>6. Iteration!Start("thread")
  BY <1>1 DEF Iteration!Start, Iteration!Answers
<1> QED BY <1>3, <1>4, <1>5, <1>6 DEF Inv, Maps, Iteration!Next

\* An execution that fails opens nothing.
LEMMA ExecuteFailsStep ==
  ASSUME Inv, ExecuteFails
  PROVE  Inv' /\ Complete /\ Maps
<1>1. /\ cursor = "None" /\ caller' = NoLoop /\ answer' = "error" /\ in' = in \ {caller}
      /\ UNCHANGED <<cursor, iterator, size, taken, lost, got, whole, leftover>>
  BY DEF ExecuteFails, position, NotStarted, Inv, TypeOK
<1>2. TypeOK'
  BY <1>1 DEF Inv, TypeOK
<1>3. Asked' /\ AtStart' /\ Alone'
  BY <1>1 DEF Inv, Asked, AtStart, Alone
<1>4. Complete
  BY <1>1 DEF Complete
<1>5. Iteration!Next
  BY <1>1, IsAskOrFetch
<1> QED BY <1>2, <1>3, <1>4, <1>5 DEF Inv, Maps

\* A row is handed out, which is a delivery.
LEMMA TakeStep ==
  ASSUME Inv, Take
  PROVE  Inv' /\ Complete /\ Maps
<1>1. /\ cursor = "rows" /\ taken + lost < size /\ taken' = taken + 1 /\ caller # NoLoop
      /\ caller \in in /\ caller' = NoLoop
      /\ UNCHANGED <<cursor, iterator, size, lost, whole>>
  BY DEF Take, NotStarted, Inv, TypeOK
<1>2. /\ size \in 0..MaxRows /\ taken \in 0..size /\ taken' \in 0..size
      /\ lost \in 0..(size - taken) /\ lost' \in 0..(size - taken')
      /\ taken' + lost' = (taken + lost) + 1
      /\ got \in [Loop -> 0..(MaxRows + 1)] /\ in \subseteq Loop
  BY <1>1, RowBound DEF Inv, TypeOK
<1>3. CASE /\ answer' = "row"
           /\ got' = [got EXCEPT ![caller] = IF @ > MaxRows THEN @ ELSE @ + 1]
           /\ UNCHANGED <<in, leftover>>
  <2>1. got' \in [Loop -> 0..(MaxRows + 1)]
    <3>1. caller \in Loop /\ got[caller] \in 0..(MaxRows + 1)
      BY <1>1, <1>2
    <3>2. (IF got[caller] > MaxRows THEN got[caller] ELSE got[caller] + 1) \in 0..(MaxRows + 1)
      BY <3>1, RowBound
    <3> QED BY <1>2, <1>3, <3>1, <3>2
  <2>2. TypeOK'
    BY <1>1, <1>2, <1>3, <2>1 DEF Inv, TypeOK
  <2>3. Asked' /\ AtStart'
    BY <1>1, <1>3 DEF Inv, Asked, AtStart
  <2>4. Alone'
    <3> SUFFICES ASSUME NEW l \in whole, l \in in PROVE in = {l} /\ got'[l] = taken + 1 /\ lost = 0
      BY <1>1, <1>3 DEF Alone
    <3>1. in = {l} /\ got[l] = taken /\ lost = 0 /\ caller = l /\ l \in Loop
      BY <1>1, <1>2 DEF Inv, Alone
    <3>2. got'[l] = IF got[l] > MaxRows THEN got[l] ELSE got[l] + 1
      BY <1>2, <1>3, <3>1
    <3> QED BY <1>1, <1>2, <3>1, <3>2, RowBound
  <2>5. Complete
    BY <1>3 DEF Complete
  <2>6. Iteration!Deliver("thread")
    BY <1>1, <1>2, <1>3 DEF Iteration!Deliver, Iteration!Answers
  <2> QED BY <2>2, <2>3, <2>4, <2>5, <2>6 DEF Inv, Maps, Iteration!Next
<1>4. CASE answer' = "error" /\ in' = in \ {caller} /\ leftover' = TRUE /\ UNCHANGED got
  <2>1. TypeOK'
    BY <1>1, <1>2, <1>4 DEF Inv, TypeOK
  <2>2. Asked' /\ AtStart'
    BY <1>1, <1>4 DEF Inv, Asked, AtStart
  <2>3. Alone'
    BY <1>1, <1>4 DEF Inv, Alone
  <2>4. Complete
    BY <1>4 DEF Complete
  <2>5. Iteration!Deliver("thread")
    BY <1>1, <1>2, <1>4 DEF Iteration!Deliver, Iteration!Answers
  <2> QED BY <2>1, <2>2, <2>3, <2>4, <2>5 DEF Inv, Maps, Iteration!Next
<1> QED BY <1>3, <1>4 DEF Take

\* A database error leaves the loop, and what went with it is lost.
LEMMA TakeFailsStep ==
  ASSUME Inv, TakeFails
  PROVE  Inv' /\ Complete /\ Maps
<1>1. /\ cursor = "rows" /\ caller # NoLoop /\ caller \in in /\ caller' = NoLoop
      /\ answer = "pending" /\ answer' = "error"
      /\ in' = in \ {caller} /\ leftover' = TRUE /\ lost' \in {lost, size - taken}
      /\ UNCHANGED <<cursor, iterator, size, taken, got, whole>>
  BY DEF TakeFails, NotStarted, Inv, TypeOK, Asked
<1>2. /\ size \in 0..MaxRows /\ taken \in 0..size
      /\ lost \in 0..(size - taken) /\ lost' \in 0..(size - taken)
      /\ taken + lost' \in (taken + lost)..size
  <2>1. size \in 0..MaxRows /\ taken \in 0..size /\ lost \in 0..(size - taken)
    BY DEF Inv, TypeOK
  <2>2. size \in Nat /\ taken \in Nat /\ lost \in Nat /\ size - taken \in Nat /\ taken + lost <= size
    BY <2>1, RowBound
  <2>3. lost' = lost \/ lost' = size - taken
    BY <1>1
  <2> QED BY <2>1, <2>2, <2>3
<1>3. TypeOK'
  BY <1>1, <1>2 DEF Inv, TypeOK
<1>4. Asked' /\ AtStart'
  BY <1>1 DEF Inv, Asked, AtStart
<1>5. Alone'
  BY <1>1 DEF Inv, Alone
<1>6. Complete
  BY <1>1 DEF Complete
<1>7. Iteration!Lose("thread")
  BY <1>1, <1>2 DEF Iteration!Lose, Iteration!Answers
<1> QED BY <1>3, <1>4, <1>5, <1>6, <1>7 DEF Inv, Maps, Iteration!Next

\* The stop comes when no row is left.
LEMMA StopStep ==
  ASSUME Inv, Stop
  PROVE  Inv' /\ Complete /\ Maps
<1>1. /\ cursor = "rows" /\ taken + lost = size /\ caller # NoLoop /\ caller \in in
      /\ cursor' = "None" /\ iterator' = "None" /\ size' = 0 /\ taken' = 0 /\ lost' = 0
      /\ caller' = NoLoop /\ answer' = "stop" /\ in' = in \ {caller} /\ leftover' = FALSE
      /\ UNCHANGED <<got, whole>>
  BY DEF Stop, Reset, NotStarted, Inv, TypeOK
<1>2. TypeOK'
  <2>1. 0 \in 0..MaxRows /\ 0 \in 0..0 /\ 0 \in 0..(0 - 0)
    BY RowBound
  <2>2. size' \in 0..MaxRows /\ taken' \in 0..size' /\ lost' \in 0..(size' - taken')
    BY <1>1, <2>1
  <2>3. caller' \in in' \union {NoLoop} /\ in' \subseteq Loop
    BY <1>1 DEF Inv, TypeOK
  <2> QED BY <1>1, <2>2, <2>3 DEF Inv, TypeOK
<1>3. Asked' /\ AtStart'
  BY <1>1 DEF Asked, AtStart
<1>4. Alone'
  BY <1>1 DEF Inv, Alone
<1>5. Complete
  <2>1. lost = 0 => taken = size
    BY <1>1 DEF Inv, TypeOK
  <2> QED BY <1>1, <2>1 DEF Inv, Alone, Complete
<1>6. Iteration!Stop("thread")
  BY <1>1 DEF Iteration!Stop, Iteration!Answers
<1> QED BY <1>2, <1>3, <1>4, <1>5, <1>6 DEF Inv, Maps, Iteration!Next

\* A full fetch leaves the iteration alone.
LEMMA CallStep ==
  ASSUME Inv, Call
  PROVE  Inv' /\ Complete /\ Maps
<1>1. /\ caller = NoLoop /\ answer' \in {"list", "error"}
      /\ UNCHANGED <<cursor, iterator, size, taken, lost, caller, in, got, whole, leftover>>
  BY DEF Call, position, loops
<1>2. TypeOK'
  BY <1>1 DEF Inv, TypeOK
<1>3. Asked' /\ AtStart' /\ Alone'
  BY <1>1 DEF Inv, Asked, AtStart, Alone
<1>4. Complete
  BY <1>1 DEF Complete
<1>5. Iteration!Next
  BY <1>1, IsAskOrFetch
<1> QED BY <1>2, <1>3, <1>4, <1>5 DEF Inv, Maps

-----------------------------------------------------------------------------
(* The theorems. *)

\* Every step keeps the invariant, completes what a loop was promised, and maps.
LEMMA StepInv ==
  Inv /\ [Next]_vars => Inv' /\ [Complete]_vars /\ [Iteration!Next]_(Iteration!vars)
<1> SUFFICES ASSUME Inv, [Next]_vars
             PROVE  Inv' /\ (Complete \/ UNCHANGED vars) /\ Maps
  BY DEF Maps
<1>1. ASSUME NEW l \in Loop, EnterLoop(l) PROVE Inv' /\ Complete /\ Maps
  BY <1>1, EnterStep
<1>2. ASSUME NEW l \in Loop, BreakLoop(l) PROVE Inv' /\ Complete /\ Maps
  BY <1>2, BreakStep
<1>3. ASSUME NEW l \in Loop, CallNext(l) PROVE Inv' /\ Complete /\ Maps
  BY <1>3, CallNextStep
<1>4. CASE UNCHANGED vars
  <2>1. UNCHANGED <<cursor, iterator, size, taken, lost, caller, in, got, whole, leftover,
                    answer>>
    BY <1>4 DEF vars
  <2>2. TypeOK'
    BY <2>1 DEF Inv, TypeOK
  <2>3. Asked' /\ AtStart' /\ Alone'
    BY <2>1 DEF Inv, Asked, AtStart, Alone
  <2>4. UNCHANGED Iteration!vars
    BY <2>1 DEF Iteration!vars
  <2> QED BY <1>4, <2>2, <2>3, <2>4 DEF Inv, Maps
<1> QED BY <1>1, <1>2, <1>3, <1>4, ExecuteStep, ExecuteFailsStep, TakeStep, TakeFailsStep,
       StopStep, CallStep
        DEF Next

\* The attributes are set and cleared together, whatever the loops
\* (sqlite3.go:150-157).
THEOREM TypeCorrect == Spec => []TypeOK
<1>1. Inv => TypeOK
  BY DEF Inv
<1> QED BY InitInv, StepInv, <1>1, PTL DEF Spec

\* A loop that has the object for itself is given every row of its execution
\* (the reset of sqlite3.go:155-157 makes the object iterable again).
THEOREM WholeResult == Spec => LoneLoopComplete
<1>1. LoneLoopComplete <=> [][Complete]_vars
  BY DEF LoneLoopComplete, Complete
<1> QED BY InitInv, StepInv, <1>1, PTL DEF Spec

\* The object implements the iteration that its docstrings promise, where rows are
\* lost only by a call of __next__ that raises.
THEOREM Implements == Spec => ImplementsIteration
BY InitInv, StepInv, PTL DEF Spec, ImplementsIteration, Iteration!Spec

=============================================================================
