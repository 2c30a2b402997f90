--------------------------- MODULE GeneratorProofs ---------------------------
(***************************************************************************)
(* For every catalog, every set of queries and every spelling of the class  *)
(* names: what a run that answers with files leaves behind.                 *)
(*                                                                         *)
(* The inductive invariant says what each pass hands to the next: the       *)
(* definitions are those of the request, they collided nowhere before the   *)
(* filter took some away, and each file written so far is the one its       *)
(* source determines, no query in two of them.                             *)
(***************************************************************************)
EXTENDS Generator, SequenceLemmas

AllFiles == {ModelsFile, InitFile} \cup {QueryFile(s) : s \in {q.source : q \in queries}}

AfterBuild == stage \in {"validate", "filter", "models", "commands", "queries"} \/ response = "files"
AfterValidate == stage \in {"filter", "models", "commands", "queries"} \/ response = "files"
AfterFilter == stage \in {"models", "commands", "queries"} \/ response = "files"
AfterModels == stage \in {"commands", "queries"} \/ response = "files"

Requested == request \in [options : Options, catalog : Catalogs, queries : QuerySets]

Staged ==
  /\ stage \in {"configure", "build", "validate", "filter", "models", "commands", "queries", "end"}
  /\ response \in {"none", "files", "error", "panic"}
  /\ response = "none" <=> stage # "end"
  /\ stage \in {"configure", "build", "validate", "filter", "models"} => files = <<>>

\* The definitions of each pass.
Defining ==
  /\ AfterBuild => queries = {BuildQuery(q, BuildTables) : q \in Named}
  /\ stage \in {"validate", "filter"} => enums = BuildEnums /\ tables = BuildTables
  /\ AfterValidate => ~Collide(BuildEnums, BuildTables)
  /\ AfterFilter => enums = IF options.omit THEN KeptEnums(BuildEnums, queries) ELSE BuildEnums
  /\ AfterFilter => tables = IF options.omit THEN KeptTables(BuildTables, queries) ELSE BuildTables

\* The files written so far.
Filing ==
  /\ files \in Seq(AllFiles)
  /\ files # <<>> => files[1] = ModelsFile
  /\ AfterModels => files # <<>>
  /\ \A i, j \in 1..Len(files) : ToSet(files[i].writes) \cap ToSet(files[j].writes) # {} => i = j
  /\ response = "files" => Unwritten = {}

GenInv == Requested /\ Staged /\ Defining /\ Filing

-----------------------------------------------------------------------------
(* What sqlc sends. *)

LEMMA RequestFacts ==
  ASSUME Requested
  PROVE  /\ IsFiniteSet(request.catalog.tables) /\ IsFiniteSet(request.catalog.enums)
         /\ \A t, u \in request.catalog.tables : t.rel = u.rel => t = u
         /\ \A t \in request.catalog.tables : t.columns \in Seq(Column)
         /\ IsFiniteSet(request.queries)
         /\ \A q, r \in request.queries : q.name = r.name => q = r
         /\ \A q \in request.queries : q.columns \in Seq(Column) /\ q.params \in Seq(Column)
         /\ \A d \in request.catalog.tables \cup request.catalog.enums : ClassOf(d.rel) \in Seq(STRING)
<1>1. request.catalog \in Catalogs /\ request.queries \in QuerySets
  BY DEF Requested
<1> QED BY <1>1, CatalogsSent, QueriesSent, ClassNamesSpelled

LEMMA NamedQueries == Named \subseteq request.queries
BY Zenon DEF Named

\* The definitions and the queries of a run are finitely many.
LEMMA BuiltFinite ==
  ASSUME Requested
  PROVE  /\ IsFiniteSet(UserTables) /\ IsFiniteSet(UserEnums) /\ IsFiniteSet(Named)
         /\ IsFiniteSet(BuildTables) /\ IsFiniteSet(BuildEnums)
         /\ IsFiniteSet({BuildQuery(q, BuildTables) : q \in Named})
<1>1. /\ UserTables \subseteq request.catalog.tables /\ UserEnums \subseteq request.catalog.enums
      /\ Named \subseteq request.queries
  BY NamedQueries DEF UserTables, UserEnums
<1>2. IsFiniteSet(UserTables) /\ IsFiniteSet(UserEnums) /\ IsFiniteSet(Named)
  BY <1>1, RequestFacts, FS_Subset
<1>3. IsFiniteSet(BuildTables)
  <2> DEFINE f == [t \in UserTables |-> [rel |-> t.rel, name |-> ClassOf(t.rel), columns |-> Typed(t.columns)]]
  <2>1. DOMAIN f = UserTables
    OBVIOUS
  <2>2. \A y \in BuildTables : \E x \in UserTables : y = f[x]
    BY DEF BuildTables
  <2> HIDE DEF f
  <2> QED BY <1>2, <2>1, <2>2, FiniteImage
<1>4. IsFiniteSet(BuildEnums)
  <2> DEFINE f == [e \in UserEnums |-> [rel |-> e.rel, name |-> ClassOf(e.rel), members |-> e.members]]
  <2>1. DOMAIN f = UserEnums
    OBVIOUS
  <2>2. \A y \in BuildEnums : \E x \in UserEnums : y = f[x]
    BY DEF BuildEnums
  <2> HIDE DEF f
  <2> QED BY <1>2, <2>1, <2>2, FiniteImage
<1>5. IsFiniteSet({BuildQuery(q, BuildTables) : q \in Named})
  <2> DEFINE f == [q \in Named |-> BuildQuery(q, BuildTables)]
             S == {BuildQuery(q, BuildTables) : q \in Named}
  <2>1. DOMAIN f = Named
    OBVIOUS
  <2>2. \A y \in S : \E x \in Named : y = f[x]
    OBVIOUS
  <2> HIDE DEF f, S
  <2>3. IsFiniteSet(S)
    BY <1>2, <2>1, <2>2, FiniteImage
  <2> QED BY <2>3 DEF S
<1> QED BY <1>2, <1>3, <1>4, <1>5

\* A query keeps its name and its source, and two built queries of one name are one.
LEMMA BuiltQueries ==
  ASSUME Requested
  PROVE  \A q \in {BuildQuery(r, BuildTables) : r \in Named} :
           /\ \E r \in Named : q = BuildQuery(r, BuildTables) /\ q.name = r.name /\ q.source = r.source
           /\ \A p \in {BuildQuery(r, BuildTables) : r \in Named} : p.name = q.name => p = q
<1>1. \A r \in Named : BuildQuery(r, BuildTables).name = r.name /\ BuildQuery(r, BuildTables).source = r.source
  BY DEF BuildQuery
<1>2. \A q, r \in Named : q.name = r.name => q = r
  BY NamedQueries, RequestFacts
<1> QED BY <1>1, <1>2

-----------------------------------------------------------------------------
(* The file of a source. *)

LEMMA FileOfSource ==
  ASSUME NEW s, IsFiniteSet(queries)
  PROVE  /\ QueryFile(s).name = s
         /\ ToSet(QueryFile(s).writes) = {q.name : q \in Of(s)}
         /\ \A i, j \in DOMAIN QueryFile(s).writes :
              QueryFile(s).writes[i] = QueryFile(s).writes[j]
                => \E q, r \in Of(s) : q.name = r.name /\ (q = r => i = j)
         /\ DOMAIN QueryFile(s).writes = 1..Len(SetToSeq(Of(s)))
         /\ Len(QueryFile(s).writes) = Len(SetToSeq(Of(s)))
<1> DEFINE qs == SetToSeq(Of(s))
           w == [i \in 1..Len(qs) |-> qs[i].name]
<1>1. QueryFile(s).name = s /\ QueryFile(s).writes = w
  BY DEF QueryFile
<1>2. IsFiniteSet(Of(s))
  BY FS_Subset DEF Of
<1>3. /\ qs \in Seq(Of(s))
      /\ \A x \in Of(s) : \E i \in 1..Len(qs) : qs[i] = x
      /\ \A i, j \in 1..Len(qs) : qs[i] = qs[j] => i = j
  BY <1>2, SetToSeqIs
<1> HIDE DEF qs
<1>4. Len(qs) \in Nat /\ \A i \in 1..Len(qs) : qs[i] \in Of(s)
  BY <1>3
<1>5. DOMAIN w = 1..Len(qs) /\ Len(w) = Len(qs) /\ \A i \in 1..Len(qs) : w[i] = qs[i].name
  BY <1>4
<1> HIDE DEF w
<1>6. ToSet(w) = {q.name : q \in Of(s)}
  BY <1>3, <1>4, <1>5 DEF ToSet
<1>7. \A i, j \in 1..Len(qs) : w[i] = w[j]
         => \E q, r \in Of(s) : q.name = r.name /\ (q = r => i = j)
  BY <1>3, <1>4, <1>5
<1> QED BY <1>1, <1>5, <1>6, <1>7 DEF qs

\* A file that writes a query is that of the query's source.
LEMMA WriterOf ==
  ASSUME Requested, Defining, AfterBuild, NEW f \in AllFiles, NEW q \in queries, q.name \in ToSet(f.writes)
  PROVE  f = QueryFile(q.source) /\ ToSet(f.writes) = {r.name : r \in Of(q.source)}
<1>1. queries = {BuildQuery(r, BuildTables) : r \in Named}
  BY DEF Defining
<1>2. IsFiniteSet(queries) /\ \A r \in queries : r.name = q.name => r = q
  BY <1>1, BuiltFinite, BuiltQueries
<1>3. ToSet(ModelsFile.writes) = {} /\ ToSet(InitFile.writes) = {}
  BY DEF ModelsFile, InitFile, ToSet
<1>4. PICK s \in {r.source : r \in queries} : f = QueryFile(s)
  BY <1>3, Zenon DEF AllFiles
<1>5. ToSet(f.writes) = {r.name : r \in Of(s)}
  BY <1>2, <1>4, FileOfSource
<1>6. PICK r \in Of(s) : r.name = q.name
  BY <1>5
<1>7. q.source = s
  BY <1>2, <1>6 DEF Of
<1> QED BY <1>4, <1>5, <1>7

-----------------------------------------------------------------------------
(* The passes. *)

LEMMA InitInv == Init => GenInv
<1> SUFFICES ASSUME Init PROVE GenInv
  OBVIOUS
<1>1. Requested
  BY DEF Init, Requested
<1>2. stage = "configure" /\ response = "none" /\ files = <<>>
  BY DEF Init
<1>3. Staged
  BY <1>2 DEF Staged
<1>4. ~AfterBuild /\ ~AfterValidate /\ ~AfterFilter /\ ~AfterModels
  BY <1>2 DEF AfterBuild, AfterValidate, AfterFilter, AfterModels
<1>5. Defining
  BY <1>2, <1>4 DEF Defining
<1>6. Filing
  BY <1>2, <1>4 DEF Filing
<1> QED BY <1>1, <1>3, <1>5, <1>6 DEF GenInv

\* What the definitions and the files are made of.
LEMMA SameRequest ==
  ASSUME request' = request
  PROVE  /\ BuildTables' = BuildTables /\ BuildEnums' = BuildEnums /\ Named' = Named
         /\ options' = options
         /\ {BuildQuery(q, BuildTables) : q \in Named}' = {BuildQuery(q, BuildTables) : q \in Named}
<1>1. UserTables' = UserTables /\ UserEnums' = UserEnums
  BY DEF UserTables, UserEnums
<1>2. BuildTables' = BuildTables
  BY <1>1, Zenon DEF BuildTables, Typed, PyType
<1>3. BuildEnums' = BuildEnums
  BY <1>1 DEF BuildEnums
<1>4. Named' = Named
  BY Zenon DEF Named
<1>5. options' = options
  BY DEF options
<1>6. ASSUME NEW q PROVE BuildQuery(q, BuildTables)' = BuildQuery(q, BuildTables)
  BY <1>1, <1>2, <1>5, SMTT(60) DEF BuildQuery, ArgsOf, Bundles, RetOf, Returns, RowField, PyType
<1>7. {BuildQuery(q, BuildTables) : q \in Named}' = {BuildQuery(q, BuildTables) : q \in Named}
  BY <1>4, <1>6, Zenon
<1> QED BY <1>2, <1>3, <1>4, <1>5, <1>7

LEMMA SameFiles ==
  ASSUME request' = request, enums' = enums, tables' = tables, queries' = queries
  PROVE  ModelsFile' = ModelsFile /\ AllFiles' = AllFiles
<1>1. ModelsFile' = ModelsFile
  BY Zenon DEF ModelsFile
<1>2. ASSUME NEW s PROVE QueryFile(s)' = QueryFile(s)
  BY DEF QueryFile, Of, options, HasRowConstructor
<1>3. AllFiles' = AllFiles
  BY <1>1, <1>2, Zenon DEF AllFiles, InitFile
<1> QED BY <1>1, <1>3

\* A pass that writes nothing keeps what is written.
LEMMA FilesStay ==
  ASSUME Filing, request' = request, enums' = enums, tables' = tables, queries' = queries, files' = files,
         AfterModels' => AfterModels, response' # "files"
  PROVE  Filing'
<1>1. ModelsFile' = ModelsFile /\ AllFiles' = AllFiles
  BY SameFiles
<1> QED BY <1>1 DEF Filing

LEMMA NoFiles ==
  ASSUME files' = <<>>, ~AfterModels', response' # "files"
  PROVE  Filing'
BY DEF Filing

LEMMA ConfigureInv == GenInv /\ Configure => GenInv'
<1> SUFFICES ASSUME GenInv, Configure PROVE GenInv'
  OBVIOUS
<1>1. /\ stage = "configure" /\ request' = request /\ files' = files /\ files = <<>>
      /\ \/ stage' = "end" /\ response' \in {"panic", "error"}
         \/ stage' = "build" /\ response' = "none"
  BY DEF Configure, GenInv, Staged
<1>2. Requested'
  BY <1>1 DEF GenInv, Requested
<1>3. Staged'
  BY <1>1 DEF Staged
<1>4. ~AfterBuild' /\ ~AfterValidate' /\ ~AfterFilter' /\ ~AfterModels' /\ response' # "files"
  BY <1>1 DEF AfterBuild, AfterValidate, AfterFilter, AfterModels
<1>5. Defining'
  BY <1>1, <1>4 DEF Defining
<1>6. Filing'
  BY <1>1, <1>4, NoFiles
<1> QED BY <1>2, <1>3, <1>5, <1>6 DEF GenInv

LEMMA BuildInv == GenInv /\ Build => GenInv'
<1> SUFFICES ASSUME GenInv, Build PROVE GenInv'
  OBVIOUS
<1>1. /\ stage = "build" /\ request' = request /\ files' = files /\ files = <<>> /\ response = "none"
      /\ enums' = BuildEnums /\ tables' = BuildTables
      /\ \/ stage' = "end" /\ response' = "error"
         \/ /\ stage' = "validate" /\ response' = response
            /\ queries' = {BuildQuery(q, BuildTables) : q \in Named}
  BY DEF Build, GenInv, Staged
<1>2. Requested'
  BY <1>1 DEF GenInv, Requested
<1>3. Staged'
  BY <1>1 DEF Staged
<1>4. /\ ~AfterValidate' /\ ~AfterFilter' /\ ~AfterModels' /\ response' # "files"
      /\ AfterBuild' => queries' = {BuildQuery(q, BuildTables) : q \in Named}
  BY <1>1 DEF AfterBuild, AfterValidate, AfterFilter, AfterModels
<1>5. Defining'
  BY <1>1, <1>4, SameRequest, Zenon DEF Defining
<1>6. Filing'
  BY <1>1, <1>4, NoFiles
<1> QED BY <1>2, <1>3, <1>5, <1>6 DEF GenInv

LEMMA ValidateInv == GenInv /\ Validate => GenInv'
<1> SUFFICES ASSUME GenInv, Validate PROVE GenInv'
  OBVIOUS
<1>1. /\ stage = "validate" /\ request' = request /\ files' = files /\ files = <<>> /\ response = "none"
      /\ enums' = enums /\ tables' = tables /\ queries' = queries
      /\ \/ stage' = "end" /\ response' = "error"
         \/ stage' = "filter" /\ response' = response /\ ~Collide(enums, tables)
  BY DEF Validate, GenInv, Staged
<1>2. Requested'
  BY <1>1 DEF GenInv, Requested
<1>3. Staged'
  BY <1>1 DEF Staged
<1>4. /\ ~AfterFilter' /\ ~AfterModels' /\ response' # "files" /\ AfterBuild
      /\ AfterValidate' => ~Collide(enums, tables)
      /\ enums = BuildEnums /\ tables = BuildTables
      /\ queries = {BuildQuery(q, BuildTables) : q \in Named}
  BY <1>1 DEF AfterBuild, AfterValidate, AfterFilter, AfterModels, GenInv, Defining
<1>5. Defining'
  BY <1>1, <1>4, SameRequest, Zenon DEF Defining
<1>6. Filing'
  BY <1>1, <1>4, NoFiles
<1> QED BY <1>2, <1>3, <1>5, <1>6 DEF GenInv

LEMMA FilterInv == GenInv /\ Filter => GenInv'
<1> SUFFICES ASSUME GenInv, Filter PROVE GenInv'
  OBVIOUS
<1>1. /\ stage = "filter" /\ request' = request /\ files' = files /\ files = <<>> /\ response = "none"
      /\ queries' = queries /\ stage' = "models" /\ response' = response
      /\ enums = BuildEnums /\ tables = BuildTables
  BY DEF Filter, GenInv, Staged, Defining
<1>2. Requested'
  BY <1>1 DEF GenInv, Requested
<1>3. Staged'
  BY <1>1 DEF Staged
<1>4. /\ ~AfterModels' /\ response' # "files"
      /\ stage' \notin {"validate", "filter"}
      /\ ~Collide(BuildEnums, BuildTables)
      /\ queries = {BuildQuery(q, BuildTables) : q \in Named}
  BY <1>1 DEF AfterBuild, AfterValidate, AfterModels, GenInv, Defining
<1>5. enums' = IF options.omit THEN KeptEnums(BuildEnums, queries) ELSE BuildEnums
  BY <1>1 DEF Filter
<1>6. tables' = IF options.omit THEN KeptTables(BuildTables, queries) ELSE BuildTables
  BY <1>1 DEF Filter
<1>7. Defining'
  BY <1>1, <1>4, <1>5, <1>6, SameRequest, Zenon DEF Defining
<1>8. Filing'
  BY <1>1, <1>4, NoFiles
<1> QED BY <1>2, <1>3, <1>7, <1>8 DEF GenInv

\* A pass after the filter leaves the definitions alone.
LEMMA DefinitionsStay ==
  ASSUME Defining, request' = request, enums' = enums, tables' = tables, queries' = queries, AfterFilter,
         stage' \notin {"validate", "filter"}
  PROVE  Defining'
<1>1. AfterValidate /\ AfterBuild
  BY DEF AfterFilter, AfterValidate, AfterBuild
<1>2. /\ queries = {BuildQuery(q, BuildTables) : q \in Named}
      /\ ~Collide(BuildEnums, BuildTables)
      /\ enums = IF options.omit THEN KeptEnums(BuildEnums, queries) ELSE BuildEnums
      /\ tables = IF options.omit THEN KeptTables(BuildTables, queries) ELSE BuildTables
  BY <1>1, Zenon DEF Defining
<1> QED BY <1>2, SameRequest, Zenon DEF Defining

LEMMA EmitModelsInv == GenInv /\ EmitModels => GenInv'
<1> SUFFICES ASSUME GenInv, EmitModels PROVE GenInv'
  OBVIOUS
<1>1. /\ stage = "models" /\ request' = request /\ files = <<>> /\ response = "none"
      /\ enums' = enums /\ tables' = tables /\ queries' = queries
      /\ \/ stage' = "end" /\ response' = "error" /\ files' = files
         \/ stage' = "commands" /\ response' = response /\ files' = Append(files, ModelsFile)
  BY DEF EmitModels, GenInv, Staged
<1>2. Requested'
  BY <1>1 DEF GenInv, Requested
<1>3. Staged'
  BY <1>1 DEF Staged
<1>4. Defining'
  BY <1>1, DefinitionsStay DEF GenInv, AfterFilter
<1>5. Filing'
  <2>1. ModelsFile' = ModelsFile /\ AllFiles' = AllFiles /\ ModelsFile \in AllFiles
    BY <1>1, SameFiles DEF AllFiles
  <2>2. CASE files' = files
    BY <1>1, <2>2, NoFiles DEF AfterModels
  <2>3. CASE files' = Append(files, ModelsFile)
    <3>1. files' = <<ModelsFile>>
      BY <1>1, <2>3
    <3>2. response' # "files"
      BY <1>1
    <3>3. Len(files') = 1 /\ files'[1] = ModelsFile' /\ files' \in Seq(AllFiles)' /\ files' # <<>>
      BY <2>1, <3>1
    <3> QED BY <3>2, <3>3 DEF Filing
  <2> QED BY <1>1, <2>2, <2>3
<1> QED BY <1>2, <1>3, <1>4, <1>5 DEF GenInv

LEMMA CheckCommandsInv == GenInv /\ CheckCommands => GenInv'
<1> SUFFICES ASSUME GenInv, CheckCommands PROVE GenInv'
  OBVIOUS
<1>1. /\ stage = "commands" /\ request' = request /\ files' = files /\ response = "none"
      /\ enums' = enums /\ tables' = tables /\ queries' = queries
      /\ \/ stage' = "end" /\ response' = "error"
         \/ stage' = "queries" /\ response' = response
  BY DEF CheckCommands, GenInv, Staged
<1>2. Requested'
  BY <1>1 DEF GenInv, Requested
<1>3. Staged'
  BY <1>1 DEF Staged
<1>4. Defining'
  BY <1>1, DefinitionsStay DEF GenInv, AfterFilter
<1>5. Filing'
  BY <1>1, FilesStay DEF GenInv, AfterModels
<1> QED BY <1>2, <1>3, <1>4, <1>5 DEF GenInv

\* A query of this source is in no file yet, so none of its source is: the new
\* file shares no query with another.
LEMMA NewFile ==
  ASSUME GenInv, stage = "queries", NEW s \in Unwritten
  PROVE  /\ QueryFile(s) \in AllFiles
         /\ \A i \in 1..Len(files) : ToSet(files[i].writes) \cap ToSet(QueryFile(s).writes) = {}
<1>1. Requested /\ Defining /\ AfterBuild /\ files \in Seq(AllFiles)
  BY DEF GenInv, Filing, AfterBuild
<1>2. PICK q \in queries : q.source = s /\ q.name \notin Written
  BY DEF Unwritten
<1>3. IsFiniteSet(queries)
  BY <1>1, BuiltFinite, Zenon DEF Defining
<1>4. QueryFile(s) \in AllFiles
  BY <1>2, Zenon DEF AllFiles
<1>5. ToSet(QueryFile(s).writes) = {r.name : r \in Of(s)}
  BY <1>3, FileOfSource
<1>6. ASSUME NEW i \in 1..Len(files), NEW n \in ToSet(files[i].writes), n \in ToSet(QueryFile(s).writes)
      PROVE  FALSE
  <2>1. PICK r \in Of(s) : n = r.name
    BY <1>5, <1>6
  <2>2. r \in queries /\ r.source = s /\ q \in Of(s)
    BY <1>2, <2>1 DEF Of
  <2>3. files[i] \in AllFiles
    BY <1>1
  <2>4. ToSet(files[i].writes) = {p.name : p \in Of(s)}
    BY <1>1, <2>1, <2>2, <2>3, <1>6, WriterOf, Zenon
  <2>5. q.name \in ToSet(files[i].writes)
    BY <2>2, <2>4
  <2> QED BY <1>2, <2>5 DEF Written
<1> QED BY <1>4, <1>6

LEMMA EmitQueriesInv == GenInv /\ EmitQueries => GenInv'
<1> SUFFICES ASSUME GenInv, EmitQueries PROVE GenInv'
  OBVIOUS
<1>1. /\ stage = "queries" /\ request' = request /\ response = "none"
      /\ enums' = enums /\ tables' = tables /\ queries' = queries
  BY DEF EmitQueries, GenInv, Staged
<1>2. PICK s \in Unwritten :
        \/ stage' = "end" /\ response' = "error" /\ files' = files
        \/ stage' = stage /\ response' = response /\ files' = Append(files, QueryFile(s))
  BY Zenon DEF EmitQueries
<1>3. Requested'
  BY <1>1 DEF GenInv, Requested
<1>4. Staged'
  BY <1>1, <1>2 DEF Staged
<1>5. Defining'
  BY <1>1, <1>2, DefinitionsStay DEF GenInv, AfterFilter
<1>6. response' # "files" /\ AfterModels
  BY <1>1, <1>2 DEF AfterModels
<1>7. CASE files' = files
  <2>1. Filing'
    BY <1>1, <1>6, <1>7, FilesStay DEF GenInv
  <2> QED BY <1>3, <1>4, <1>5, <2>1 DEF GenInv
<1>8. CASE files' = Append(files, QueryFile(s))
  <2> DEFINE f == QueryFile(s)
             n == Len(files)
  <2>1. /\ f \in AllFiles
        /\ \A i \in 1..n : ToSet(files[i].writes) \cap ToSet(f.writes) = {}
    BY <1>1, NewFile
  <2>2. /\ files \in Seq(AllFiles) /\ files # <<>> /\ files[1] = ModelsFile
        /\ \A i, j \in 1..n : ToSet(files[i].writes) \cap ToSet(files[j].writes) # {} => i = j
    BY <1>6 DEF GenInv, Filing
  <2> HIDE DEF f
  <2>3. /\ files' \in Seq(AllFiles) /\ Len(files') = n + 1 /\ n \in Nat \ {0}
        /\ files'[n + 1] = f /\ \A i \in 1..n : files'[i] = files[i]
    BY <1>8, <2>1, <2>2 DEF f
  <2>4. files'[1] = ModelsFile /\ files' # <<>>
    BY <2>2, <2>3
  <2>5. ASSUME NEW i \in 1..(n + 1), NEW j \in 1..(n + 1),
               ToSet(files'[i].writes) \cap ToSet(files'[j].writes) # {}
        PROVE  i = j
    <3>1. CASE i \in 1..n /\ j \in 1..n
      BY <2>2, <2>3, <2>5, <3>1
    <3>2. CASE i = n + 1 /\ j \in 1..n
      BY <2>1, <2>3, <2>5, <3>2
    <3>3. CASE i \in 1..n /\ j = n + 1
      BY <2>1, <2>3, <2>5, <3>3
    <3> QED BY <2>3, <3>1, <3>2, <3>3
  <2>6. ModelsFile' = ModelsFile /\ AllFiles' = AllFiles
    BY <1>1, SameFiles
  <2>7. Filing'
    BY <1>6, <2>3, <2>4, <2>5, <2>6 DEF Filing
  <2> QED BY <1>3, <1>4, <1>5, <2>7 DEF GenInv
<1> QED BY <1>2, <1>7, <1>8

LEMMA FinishInv == GenInv /\ Finish => GenInv'
<1> SUFFICES ASSUME GenInv, Finish PROVE GenInv'
  OBVIOUS
<1>1. /\ stage = "queries" /\ request' = request /\ Unwritten = {}
      /\ enums' = enums /\ tables' = tables /\ queries' = queries
      /\ stage' = "end" /\ response' = "files"
      /\ files' = files \/ files' = Append(files, InitFile)
  BY DEF Finish
<1>2. Requested'
  BY <1>1 DEF GenInv, Requested
<1>3. Staged'
  BY <1>1 DEF Staged
<1>4. Defining'
  BY <1>1, DefinitionsStay DEF GenInv, AfterFilter
<1>5. AfterModels
  BY <1>1 DEF AfterModels
<1>6. ModelsFile' = ModelsFile /\ AllFiles' = AllFiles /\ InitFile \in AllFiles
  BY <1>1, SameFiles DEF AllFiles
<1> DEFINE n == Len(files)
<1>7. /\ files \in Seq(AllFiles) /\ files # <<>> /\ files[1] = ModelsFile
      /\ \A i, j \in 1..n : ToSet(files[i].writes) \cap ToSet(files[j].writes) # {} => i = j
  BY <1>5 DEF GenInv, Filing
<1>8. \A q \in queries : q.name \in Written
  BY <1>1 DEF Unwritten
<1>9. CASE files' = files
  <2>1. Unwritten' = {}
    BY <1>1, <1>9 DEF Unwritten, Written
  <2>2. Filing'
    BY <1>6, <1>7, <1>9, <2>1 DEF Filing
  <2> QED BY <1>2, <1>3, <1>4, <2>2 DEF GenInv
<1>10. CASE files' = Append(files, InitFile)
  <2> DEFINE f == InitFile
  <2>1. ToSet(f.writes) = {}
    BY DEF InitFile, ToSet
  <2> HIDE DEF f
  <2>2. /\ files' \in Seq(AllFiles) /\ Len(files') = n + 1 /\ n \in Nat \ {0}
        /\ files'[n + 1] = f /\ \A i \in 1..n : files'[i] = files[i]
    BY <1>6, <1>7, <1>10 DEF f
  <2>3. files'[1] = ModelsFile /\ files' # <<>>
    BY <1>7, <2>2
  <2>4. ASSUME NEW i \in 1..(n + 1), NEW j \in 1..(n + 1),
               ToSet(files'[i].writes) \cap ToSet(files'[j].writes) # {}
        PROVE  i = j
    <3>1. i # n + 1 /\ j # n + 1
      BY <2>1, <2>2, <2>4
    <3>2. i \in 1..n /\ j \in 1..n
      BY <2>2, <3>1
    <3> QED BY <1>7, <2>2, <2>4, <3>2
  <2>5. Written \subseteq Written'
    <3>1. ASSUME NEW x \in Written PROVE x \in Written'
      <4>1. PICK i \in 1..n : x \in ToSet(files[i].writes)
        BY DEF Written
      <4>2. i \in 1..Len(files') /\ x \in ToSet(files'[i].writes)
        BY <2>2, <4>1
      <4> QED BY <4>2 DEF Written
    <3> QED BY <3>1
  <2>6. Unwritten' = {}
    BY <1>1, <1>8, <2>5 DEF Unwritten
  <2>7. Filing'
    BY <1>6, <2>2, <2>3, <2>4, <2>6 DEF Filing
  <2> QED BY <1>2, <1>3, <1>4, <2>7 DEF GenInv
<1> QED BY <1>1, <1>9, <1>10

LEMMA StutterInv == GenInv /\ UNCHANGED vars => GenInv'
<1> SUFFICES ASSUME GenInv, UNCHANGED vars PROVE GenInv'
  OBVIOUS
<1>1. /\ request' = request /\ stage' = stage /\ enums' = enums /\ tables' = tables
      /\ queries' = queries /\ files' = files /\ response' = response
  BY DEF vars
<1>2. Requested' /\ Staged'
  BY <1>1 DEF GenInv, Requested, Staged
<1>3. Defining'
  BY <1>1, SameRequest, Zenon
     DEF GenInv, Defining, AfterBuild, AfterValidate, AfterFilter
<1>4. ModelsFile' = ModelsFile /\ AllFiles' = AllFiles
  BY <1>1, SameFiles
<1>5. Unwritten' = Unwritten
  BY <1>1 DEF Unwritten, Written
<1>6. Filing'
  BY <1>1, <1>4, <1>5 DEF GenInv, Filing, AfterModels
<1> QED BY <1>2, <1>3, <1>6 DEF GenInv

LEMMA Invariance == Spec => []GenInv
<1>1. GenInv /\ [Next]_vars => GenInv'
  BY ConfigureInv, BuildInv, ValidateInv, FilterInv, EmitModelsInv, CheckCommandsInv,
     EmitQueriesInv, FinishInv, StutterInv DEF Next
<1> QED BY InitInv, <1>1, PTL DEF Spec

-----------------------------------------------------------------------------
(* The properties. *)

\* Each pass leaves the state the next one expects: nothing is written before
\* the models, which are the first file of every run (Generate and Run,
\* gen.go:22-110).
THEOREM PassesInOrder == Spec => []TypeOK
<1>1. ASSUME GenInv PROVE TypeOK
  <2>1. files # <<>> => files[1].name = "models"
    BY <1>1 DEF GenInv, Filing, ModelsFile
  <2> QED BY <1>1, <2>1 DEF GenInv, Staged, TypeOK
<1> QED BY Invariance, <1>1, PTL

\* Two tables of one class, or a table and an enum of one class, never get
\* past Run, whatever the filter would have dropped (gen.go:75-77).
THEOREM CollisionsStop == Spec => []CollisionsReported
<1>1. ASSUME GenInv PROVE CollisionsReported
  <2> SUFFICES ASSUME response = "files", NEW t \in UserTables
               PROVE  /\ \A u \in UserTables : ClassOf(t.rel) = ClassOf(u.rel) => t = u
                      /\ \A e \in UserEnums : ClassOf(t.rel) # ClassOf(e.rel)
    BY DEF CollisionsReported
  <2>1. Requested /\ ~Collide(BuildEnums, BuildTables)
    BY <1>1 DEF GenInv, Defining, AfterValidate
  <2> DEFINE BT(x) == [rel |-> x.rel, name |-> ClassOf(x.rel), columns |-> Typed(x.columns)]
             BE(x) == [rel |-> x.rel, name |-> ClassOf(x.rel), members |-> x.members]
  <2>2. \A x \in UserTables : BT(x) \in BuildTables
    BY DEF BuildTables
  <2>3. \A x \in UserEnums : BE(x) \in BuildEnums
    BY DEF BuildEnums
  <2>4. ASSUME NEW u \in UserTables, ClassOf(t.rel) = ClassOf(u.rel) PROVE t = u
    <3>1. BT(t).name = BT(u).name
      BY <2>4
    <3>2. t.rel = u.rel
      BY <2>1, <2>2, <3>1 DEF Collide
    <3>3. t \in request.catalog.tables /\ u \in request.catalog.tables
      BY DEF UserTables
    <3> QED BY <2>1, <3>2, <3>3, RequestFacts
  <2>5. ASSUME NEW e \in UserEnums, ClassOf(t.rel) = ClassOf(e.rel) PROVE FALSE
    <3>1. BT(t).name = BE(e).name
      BY <2>5
    <3>2. BT(t).name \in EnumNames(BuildEnums)
      BY <2>3, <3>1 DEF EnumNames
    <3> QED BY <2>1, <2>2, <3>2 DEF Collide
  <2> QED BY <2>4, <2>5
<1> QED BY Invariance, <1>1, PTL

-----------------------------------------------------------------------------
(* Every query is written. *)

\* A list that has every name of a set, each at one place.
LEMMA OnePlace ==
  ASSUME NEW w, NEW n, NEW k \in DOMAIN w, w[k] = n, DOMAIN w = 1..Len(w),
         \A i, j \in DOMAIN w : w[i] = n /\ w[j] = n => i = j
  PROVE  Cardinality({i \in 1..Len(w) : w[i] = n}) = 1
<1>1. {i \in 1..Len(w) : w[i] = n} = {k}
  OBVIOUS
<1> QED BY <1>1, FS_Singleton

\* The classes of a query are among those of its file.
LEMMA ClassesOfFile ==
  ASSUME IsFiniteSet(queries), NEW q \in queries, q.args.bundled
  PROVE  q.args.type \in ToSet(QueryFile(q.source).classes)
<1> DEFINE s == q.source
           T == {p.args.type : p \in queries} \cup {p.ret.type : p \in queries}
           L == Seq(T)
           qs == SetToSeq(Of(s))
           c == [i \in 1..Len(qs) |-> InlineClasses(qs[i])]
<1>1. QueryFile(s).classes = FlattenSeq(c)
  BY DEF QueryFile
<1>2. IsFiniteSet(Of(s)) /\ Of(s) \subseteq queries /\ q \in Of(s)
  BY FS_Subset DEF Of
<1>3. qs \in Seq(Of(s)) /\ \E i \in 1..Len(qs) : qs[i] = q
  BY <1>2, SetToSeqIs
<1> HIDE DEF qs
<1>4. Len(qs) \in Nat /\ \A i \in 1..Len(qs) : qs[i] \in queries
  BY <1>2, <1>3
<1>5. ASSUME NEW p \in queries PROVE InlineClasses(p) \in L
  <2> DEFINE a == IF p.args.bundled THEN <<p.args.type>> ELSE <<>>
             b == IF p.ret.kind = "row" THEN <<p.ret.type>> ELSE <<>>
  <2>1. p.args.type \in T /\ p.ret.type \in T
    OBVIOUS
  <2> HIDE DEF T
  <2>2. a \in Seq(T) /\ b \in Seq(T)
    BY <2>1
  <2>3. InlineClasses(p) = a \o b
    BY DEF InlineClasses
  <2> HIDE DEF a, b
  <2>4. a \o b \in Seq(T)
    BY <2>2, ConcatProperties
  <2> QED BY <2>3, <2>4
<1>6. q.args.type \in ToSet(InlineClasses(q))
  <2> DEFINE b == IF q.ret.kind = "row" THEN <<q.ret.type>> ELSE <<>>
             a == <<q.args.type>>
  <2>1. InlineClasses(q) = a \o b
    BY DEF InlineClasses
  <2>2. q.args.type \in T /\ q.ret.type \in T
    OBVIOUS
  <2> HIDE DEF T
  <2>3. a \in Seq(T) /\ b \in Seq(T) /\ Len(a) = 1 /\ a[1] = q.args.type
    BY <2>2
  <2> HIDE DEF a, b
  <2>4. 1 \in 1..Len(a \o b) /\ (a \o b)[1] = a[1] /\ a \o b \in Seq(T)
    BY <2>3, ConcatElements
  <2>5. DOMAIN (a \o b) = 1..Len(a \o b)
    BY <2>4
  <2>6. (a \o b)[1] \in ToSet(a \o b)
    BY <2>4, <2>5, Zenon DEF ToSet
  <2> QED BY <2>1, <2>3, <2>4, <2>6
<1> HIDE DEF T, L
<1>7. c \in Seq(L) /\ Len(c) = Len(qs) /\ \A i \in 1..Len(qs) : c[i] = InlineClasses(qs[i])
  BY <1>4, <1>5
<1>8. PICK i \in 1..Len(c) : c[i] = InlineClasses(q)
  BY <1>3, <1>7
<1> HIDE DEF c
<1>9. q.args.type \in ToSet(FlattenSeq(c))
  BY <1>6, <1>7, <1>8, FlattenElements DEF L
<1> QED BY <1>1, <1>9 DEF c

\* The loop over the sources leaves no query out and writes none twice, and a
\* Params class lies next to its function (BuildPyQueriesFiles, queries.go).
THEOREM AllQueriesWritten == Spec => []EveryQueryWritten
<1>1. ASSUME GenInv PROVE EveryQueryWritten
  <2> SUFFICES ASSUME response = "files"
               PROVE  /\ \A q \in Named : \E i \in 2..Len(files) :
                           /\ files[i].name = q.source
                           /\ Cardinality({k \in 1..Len(files[i].writes) : files[i].writes[k] = q.name}) = 1
                           /\ \A j \in 2..Len(files) : q.name \in ToSet(files[j].writes) => j = i
                      /\ \A q \in queries :
                           q.args.bundled => \E i \in 2..Len(files) : /\ files[i].name = q.source
                                                                      /\ q.args.type \in ToSet(files[i].classes)
    BY Zenon DEF EveryQueryWritten
  <2>1. /\ Requested /\ Defining /\ AfterBuild /\ files # <<>> /\ files \in Seq(AllFiles)
        /\ files[1] = ModelsFile /\ Unwritten = {}
        /\ \A i, j \in 1..Len(files) : ToSet(files[i].writes) \cap ToSet(files[j].writes) # {} => i = j
    BY <1>1, Zenon DEF GenInv, Filing, AfterBuild, AfterModels
  <2>2. queries = {BuildQuery(q, BuildTables) : q \in Named}
    BY <2>1 DEF Defining
  <2>3. IsFiniteSet(queries) /\ \A q, r \in queries : q.name = r.name => q = r
    BY <2>1, <2>2, BuiltFinite, BuiltQueries
  <2>4. \A q \in queries : q.name \in Written
    BY <2>1 DEF Unwritten
  <2>5. ASSUME NEW q \in queries
        PROVE  \E i \in 2..Len(files) : files[i] = QueryFile(q.source) /\ q.name \in ToSet(files[i].writes)
    <3>1. PICK i \in 1..Len(files) : q.name \in ToSet(files[i].writes)
      BY <2>4 DEF Written
    <3>2. files[i] \in AllFiles
      BY <2>1
    <3>3. files[i] = QueryFile(q.source)
      BY <2>1, <3>1, <3>2, WriterOf
    <3>4. ToSet(ModelsFile.writes) = {}
      BY DEF ModelsFile, ToSet
    <3>5. i # 1
      BY <2>1, <3>1, <3>4
    <3>6. i \in 2..Len(files)
      BY <2>1, <3>5
    <3> QED BY <3>1, <3>3, <3>6
  <2>6. ASSUME NEW r \in Named
        PROVE  \E i \in 2..Len(files) :
                 /\ files[i].name = r.source
                 /\ Cardinality({k \in 1..Len(files[i].writes) : files[i].writes[k] = r.name}) = 1
                 /\ \A j \in 2..Len(files) : r.name \in ToSet(files[j].writes) => j = i
    <3> DEFINE q == BuildQuery(r, BuildTables)
    <3>1. q \in queries /\ q.name = r.name /\ q.source = r.source
      BY <2>2 DEF BuildQuery
    <3> HIDE DEF q
    <3>2. PICK i \in 2..Len(files) : files[i] = QueryFile(q.source) /\ q.name \in ToSet(files[i].writes)
      BY <2>5, <3>1
    <3> DEFINE w == QueryFile(q.source).writes
    <3>3. /\ QueryFile(q.source).name = q.source
          /\ \A j, k \in DOMAIN w : w[j] = w[k] => \E a, b \in Of(q.source) : a.name = b.name /\ (a = b => j = k)
          /\ DOMAIN w = 1..Len(w)
      BY <2>3, FileOfSource
    <3> HIDE DEF w
    <3>4. PICK k \in DOMAIN w : w[k] = q.name
      BY <3>2 DEF w, ToSet
    <3>5. \A j, m \in DOMAIN w : w[j] = q.name /\ w[m] = q.name => j = m
      BY <2>3, <3>3 DEF Of
    <3>6. Cardinality({j \in 1..Len(w) : w[j] = q.name}) = 1
      <4>1. DOMAIN w = 1..Len(w) /\ \A j, m \in DOMAIN w : w[j] = q.name /\ w[m] = q.name => j = m
        BY <3>3, <3>5
      <4> QED BY <3>4, <4>1, OnePlace, ZenonT(60)
    <3>7. \A j \in 2..Len(files) : q.name \in ToSet(files[j].writes) => j = i
      <4>1. Len(files) \in Nat
        BY <2>1
      <4> SUFFICES ASSUME NEW j \in 2..Len(files), q.name \in ToSet(files[j].writes) PROVE j = i
        OBVIOUS
      <4>2. i \in 1..Len(files) /\ j \in 1..Len(files)
        BY <4>1
      <4> QED BY <2>1, <3>2, <4>2
    <3>8. files[i].name = r.source /\ files[i].writes = w
      BY <3>1, <3>2, <3>3 DEF w
    <3>9. Cardinality({j \in 1..Len(files[i].writes) : files[i].writes[j] = r.name}) = 1
      BY <3>1, <3>6, <3>8, Zenon
    <3>10. \A j \in 2..Len(files) : r.name \in ToSet(files[j].writes) => j = i
      BY <3>1, <3>7
    <3> QED BY <3>8, <3>9, <3>10, Zenon
  <2>7. ASSUME NEW q \in queries, q.args.bundled
        PROVE  \E i \in 2..Len(files) : files[i].name = q.source /\ q.args.type \in ToSet(files[i].classes)
    <3>1. PICK i \in 2..Len(files) : files[i] = QueryFile(q.source)
      BY <2>5
    <3>2. q.args.type \in ToSet(QueryFile(q.source).classes)
      BY <2>3, <2>7, ClassesOfFile
    <3>3. QueryFile(q.source).name = q.source
      BY <2>3, FileOfSource
    <3> QED BY <3>1, <3>2, <3>3
  <2> QED BY <2>6, <2>7
<1> QED BY Invariance, <1>1, PTL

-----------------------------------------------------------------------------
(* The definitions of a query file. *)

\* The words of names.  The provers do not know that a string is in STRING.
Word == STRING \cup {"Params", "Row", "row"}

LEMMA Words == /\ {"Params", "Row", "row"} \subseteq Word /\ "Params" # "Row"
               /\ \A n \in Seq(STRING) : n \in Seq(Word)
<1> DEFINE A == STRING
<1>1. A \subseteq Word /\ {"Params", "Row", "row"} \subseteq Word
  BY DEF Word
<1>2. \A n \in Seq(A) : n \in Seq(Word)
  <2> HIDE DEF A
  <2> QED BY <1>1
<1>3. "Params" # "Row"
  OBVIOUS
<1> QED BY <1>1, <1>2, <1>3

\* The queries of a run come from named ones, and their names give lists of words.
LEMMA NamesOfQueries ==
  ASSUME Requested, queries = {BuildQuery(r, BuildTables) : r \in Named}
  PROVE  /\ \A q, r \in queries : q.name = r.name => q = r
         /\ \A q \in queries : FuncName[q.name] \in Seq(Word) /\ MethodName[q.name] \in Seq(Word)
         /\ \A q, r \in queries : MethodName[q.name] = MethodName[r.name] => q = r
         /\ \A q \in queries : q.args.bundled => q.args.type = MethodName[q.name] \o <<"Params">>
         /\ \A q \in queries : q.ret.kind = "row" => q.ret.type = MethodName[q.name] \o <<"Row">>
<1>1. \A q \in queries : \E r \in Named : q = BuildQuery(r, BuildTables) /\ q.name = r.name
  BY BuiltQueries
<1>2. \A q, r \in queries : q.name = r.name => q = r
  BY BuiltQueries
<1>3. \A r \in Named : r \in {p \in request.queries : p.name # ""}
  BY Zenon DEF Named
<1>4. request.queries \in QuerySets
  BY DEF Requested
<1>5. \A q, r \in Named :
        /\ FuncName[q.name] \in Seq(STRING) /\ MethodName[q.name] \in Seq(STRING)
        /\ MethodName[q.name] = MethodName[r.name] => q.name = r.name
  BY <1>3, <1>4, QueryNamesSpelled, Zenon
<1>6. \A q \in queries : FuncName[q.name] \in Seq(Word) /\ MethodName[q.name] \in Seq(Word)
  BY <1>1, <1>5, Words, Zenon
<1>7. ASSUME NEW q \in queries, NEW r \in queries, MethodName[q.name] = MethodName[r.name] PROVE q = r
  <2>1. PICK a \in Named : q.name = a.name
    BY <1>1
  <2>2. PICK b \in Named : r.name = b.name
    BY <1>1
  <2>3. q.name = r.name
    BY <1>5, <1>7, <2>1, <2>2, Zenon
  <2> QED BY <1>2, <2>3, Zenon
<1>8. \A r \in Named : ArgsOf(r).bundled => ArgsOf(r).type = MethodName[r.name] \o <<"Params">>
  BY DEF ArgsOf
<1>9. \A r \in Named : RetOf(r, BuildTables).kind = "row" => RetOf(r, BuildTables).type = MethodName[r.name] \o <<"Row">>
  BY DEF RetOf
<1>10. \A r \in Named : /\ BuildQuery(r, BuildTables).args = ArgsOf(r)
                        /\ BuildQuery(r, BuildTables).ret = RetOf(r, BuildTables)
                        /\ BuildQuery(r, BuildTables).name = r.name
  BY DEF BuildQuery
<1>11. ASSUME NEW q \in queries
       PROVE  /\ q.args.bundled => q.args.type = MethodName[q.name] \o <<"Params">>
              /\ q.ret.kind = "row" => q.ret.type = MethodName[q.name] \o <<"Row">>
  <2>1. PICK r \in Named : q = BuildQuery(r, BuildTables) /\ q.name = r.name
    BY <1>1
  <2>2. q.args = ArgsOf(r) /\ q.ret = RetOf(r, BuildTables)
    BY <1>10, <2>1, Zenon
  <2>3. q.args.bundled => q.args.type = MethodName[q.name] \o <<"Params">>
    BY <1>8, <2>1, <2>2, Zenon
  <2>4. q.ret.kind = "row" => q.ret.type = MethodName[q.name] \o <<"Row">>
    BY <1>9, <2>1, <2>2, Zenon
  <2> QED BY <2>3, <2>4
<1> QED BY <1>2, <1>6, <1>7, <1>11

\* The classes of one query, and that two queries share none.
LEMMA ClassesApart ==
  ASSUME Requested, queries = {BuildQuery(r, BuildTables) : r \in Named}
  PROVE  /\ \A q \in queries : InlineClasses(q) \in Seq(Seq(Word)) /\ NoRepeats(InlineClasses(q))
         /\ \A q, r \in queries :
              \A i \in 1..Len(InlineClasses(q)), j \in 1..Len(InlineClasses(r)) :
                InlineClasses(q)[i] = InlineClasses(r)[j] => q = r
<1> DEFINE L == Seq(Word)
           P(q) == MethodName[q.name] \o <<"Params">>
           R(q) == MethodName[q.name] \o <<"Row">>
           a(q) == IF q.args.bundled THEN <<P(q)>> ELSE <<>>
           b(q) == IF q.ret.kind = "row" THEN <<R(q)>> ELSE <<>>
<1>1. ASSUME NEW q \in queries PROVE P(q) \in L /\ R(q) \in L
  <2>1. MethodName[q.name] \in L
    BY NamesOfQueries, Zenon
  <2>2. <<"Params">> \in L /\ <<"Row">> \in L
    BY Words
  <2> QED BY <2>1, <2>2, ConcatProperties
<1>2. ASSUME NEW q \in queries, NEW r \in queries
      PROVE  P(q) # R(r) /\ (P(q) = P(r) => q = r) /\ (R(q) = R(r) => q = r)
  <2>1. MethodName[q.name] \in Seq(Word) /\ MethodName[r.name] \in Seq(Word)
    BY NamesOfQueries, Zenon
  <2> DEFINE m == MethodName[q.name]
             n == MethodName[r.name]
             S == Word
             v == "Params"
             w == "Row"
  <2>4. m \in Seq(S) /\ n \in Seq(S) /\ v \in S /\ w \in S /\ v # w
    BY <2>1, Words
  <2> HIDE DEF m, n, S, v, w
  <2>5. m \o <<v>> # n \o <<w>>
    BY <2>4, LastApart
  <2>2. P(q) # R(r)
    BY <2>5 DEF m, n, v, w
  <2>6. (m \o <<v>> = n \o <<v>> \/ m \o <<w>> = n \o <<w>>) => m = n
    BY <2>4, LastApart
  <2>3. (P(q) = P(r) \/ R(q) = R(r)) => MethodName[q.name] = MethodName[r.name]
    BY <2>6 DEF m, n, v, w
  <2> QED BY <2>2, <2>3, NamesOfQueries, Zenon
<1>3. ASSUME NEW q \in queries PROVE InlineClasses(q) = a(q) \o b(q)
  BY NamesOfQueries DEF InlineClasses
<1> HIDE DEF P, R
<1>4. ASSUME NEW q \in queries
      PROVE  /\ InlineClasses(q) \in Seq(L) /\ NoRepeats(InlineClasses(q))
             /\ \A i \in 1..Len(InlineClasses(q)) : InlineClasses(q)[i] \in {P(q), R(q)}
  <2> DEFINE x == a(q)
             y == b(q)
             S == {P(q), R(q)}
  <2>1. /\ x \in Seq(S) /\ y \in Seq(S) /\ NoRepeats(x) /\ NoRepeats(y)
        /\ \A i \in 1..Len(x), j \in 1..Len(y) : x[i] # y[j]
    <3> DEFINE p == P(q)
               r == R(q)
    <3>1. p # r
      BY <1>2
    <3> HIDE DEF p, r
    <3>2. x = <<>> \/ (x = <<p>> /\ Len(x) = 1 /\ x[1] = p)
      BY DEF p
    <3>3. y = <<>> \/ (y = <<r>> /\ Len(y) = 1 /\ y[1] = r)
      BY DEF r
    <3> HIDE DEF x, y
    <3>7. p \in S /\ r \in S
      BY DEF p, r
    <3> HIDE DEF S
    <3>4. x \in Seq(S) /\ y \in Seq(S)
      <4>1. <<>> \in Seq(S) /\ <<p>> \in Seq(S) /\ <<r>> \in Seq(S)
        BY <3>7
      <4> QED BY <3>2, <3>3, <4>1, Zenon
    <3>5. NoRepeats(x) /\ NoRepeats(y)
      BY <3>2, <3>3 DEF NoRepeats
    <3>6. \A i \in 1..Len(x), j \in 1..Len(y) : x[i] # y[j]
      BY <3>1, <3>2, <3>3
    <3> QED BY <3>4, <3>5, <3>6
  <2> HIDE DEF x, y
  <2>2. x \o y \in Seq(S) /\ NoRepeats(x \o y)
    BY <2>1, NoRepeatsConcat, ConcatProperties
  <2>3. S \subseteq L
    BY <1>1
  <2> HIDE DEF S, L
  <2>4. x \o y \in Seq(L) /\ \A i \in 1..Len(x \o y) : (x \o y)[i] \in S
    BY <2>2, <2>3
  <2> QED BY <1>3, <2>2, <2>4 DEF x, y, S
<1>5. ASSUME NEW q \in queries, NEW r \in queries,
             NEW i \in 1..Len(InlineClasses(q)), NEW j \in 1..Len(InlineClasses(r)),
             InlineClasses(q)[i] = InlineClasses(r)[j]
      PROVE  q = r
  <2>1. InlineClasses(q)[i] \in {P(q), R(q)} /\ InlineClasses(r)[j] \in {P(r), R(r)}
    BY <1>4
  <2> QED BY <1>2, <1>5, <2>1
<1> QED BY <1>4, <1>5

LEMMA FileClassesDistinct ==
  ASSUME Requested, queries = {BuildQuery(r, BuildTables) : r \in Named}, NEW s
  PROVE  DistinctElements(QueryFile(s).classes)
<1> DEFINE L == Seq(Word)
           qs == SetToSeq(Of(s))
           c == [i \in 1..Len(qs) |-> InlineClasses(qs[i])]
<1>1. QueryFile(s).classes = FlattenSeq(c)
  BY DEF QueryFile
<1>2. IsFiniteSet(Of(s)) /\ Of(s) \subseteq queries
  <2>1. IsFiniteSet(queries)
    BY BuiltFinite
  <2> QED BY <2>1, FS_Subset DEF Of
<1>3. qs \in Seq(Of(s)) /\ \A i, j \in 1..Len(qs) : qs[i] = qs[j] => i = j
  BY <1>2, SetToSeqIs
<1> HIDE DEF qs, L
<1>4. Len(qs) \in Nat /\ \A i \in 1..Len(qs) : qs[i] \in queries
  BY <1>2, <1>3
<1>5. c \in Seq(Seq(L)) /\ Len(c) = Len(qs) /\ \A i \in 1..Len(qs) : c[i] = InlineClasses(qs[i])
  BY <1>4, ClassesApart DEF L
<1> HIDE DEF c
<1>6. \A i \in 1..Len(c) : NoRepeats(c[i])
  BY <1>4, <1>5, ClassesApart
<1>7. ASSUME NEW i \in 1..Len(c), NEW j \in 1..Len(c), NEW p \in 1..Len(c[i]), NEW q \in 1..Len(c[j]), c[i][p] = c[j][q]
      PROVE  i = j
  <2>1. qs[i] \in queries /\ qs[j] \in queries /\ c[i] = InlineClasses(qs[i]) /\ c[j] = InlineClasses(qs[j])
    BY <1>4, <1>5
  <2>2. qs[i] = qs[j]
    BY <1>7, <2>1, ClassesApart
  <2> QED BY <1>3, <1>5, <2>2
<1>8. NoRepeats(FlattenSeq(c)) /\ FlattenSeq(c) \in Seq(L)
  BY <1>5, <1>6, <1>7, FlattenNoRepeats
<1>9. Cardinality(ToSet(FlattenSeq(c))) = Len(FlattenSeq(c))
  BY <1>8, NoRepeatsCounted
<1> QED BY <1>1, <1>9 DEF DistinctElements, c

LEMMA FileFunctionsDistinct ==
  ASSUME Requested, queries = {BuildQuery(r, BuildTables) : r \in Named}, NEW s, FunctionsApart(Of(s)),
         options.driver = "sqlalchemy" => ~ConstructorHidesQuery(Of(s))
  PROVE  DistinctElements(QueryFile(s).functions)
<1> DEFINE L == Seq(Word)
           H == {q \in Of(s) : HasRowConstructor(q)}
           qs == SetToSeq(Of(s))
           rs == SetToSeq(H)
           a == IF options.classes THEN <<>> ELSE [i \in 1..Len(qs) |-> FuncName[qs[i].name]]
           b == [i \in 1..Len(rs) |-> RowConstructor(rs[i])]
<1>1. QueryFile(s).functions = a \o b
  BY DEF QueryFile
<1>2. IsFiniteSet(Of(s)) /\ Of(s) \subseteq queries /\ IsFiniteSet(H) /\ H \subseteq Of(s)
  <2>1. IsFiniteSet(queries)
    BY BuiltFinite
  <2>2. IsFiniteSet(Of(s)) /\ Of(s) \subseteq queries
    BY <2>1, FS_Subset DEF Of
  <2> QED BY <2>2, FS_Subset
<1>3. /\ qs \in Seq(Of(s)) /\ \A i, j \in 1..Len(qs) : qs[i] = qs[j] => i = j
      /\ rs \in Seq(H) /\ \A i, j \in 1..Len(rs) : rs[i] = rs[j] => i = j
  <2> HIDE DEF H
  <2> QED BY <1>2, SetToSeqIs
<1>4. \A q \in Of(s) : FuncName[q.name] \in L
  BY <1>2, NamesOfQueries, Zenon
<1>5. \A q, r \in Of(s) : FuncName[q.name] = FuncName[r.name] => q = r
  BY Zenon DEF FunctionsApart
<1>6. \A q \in Of(s) : RowConstructor(q) \in L
  <2> TAKE q \in Of(s)
  <2>1. <<"row">> \in L
    BY Words
  <2> QED BY <1>4, <2>1, ConcatProperties DEF RowConstructor
<1>7. \A q, r \in Of(s) : RowConstructor(q) = RowConstructor(r) => q = r
  <2> SUFFICES ASSUME NEW q \in Of(s), NEW r \in Of(s), RowConstructor(q) = RowConstructor(r) PROVE q = r
    OBVIOUS
  <2>1. FuncName[q.name] \o <<"row">> = FuncName[r.name] \o <<"row">>
    BY DEF RowConstructor
  <2> DEFINE m == FuncName[q.name]
             n == FuncName[r.name]
             S == Word
             w == "row"
  <2>2. m \in Seq(S) /\ n \in Seq(S) /\ w \in S /\ m \o <<w>> = n \o <<w>>
    BY <1>4, <2>1, Words
  <2> HIDE DEF m, n, S, w
  <2>3. m = n
    BY <2>2, LastApart
  <2> QED BY <1>5, <2>3 DEF m, n
<1>8. ~options.classes => \A q \in Of(s), r \in H : FuncName[q.name] # RowConstructor(r)
  <2> SUFFICES ASSUME ~options.classes, NEW q \in Of(s), NEW r \in H, FuncName[q.name] = RowConstructor(r) PROVE FALSE
    OBVIOUS
  <2>1. options.driver = "sqlalchemy" /\ HasRowConstructor(r) /\ r \in Of(s)
    BY DEF HasRowConstructor
  <2>2. ConstructorHidesQuery(Of(s))
    BY <2>1, Zenon DEF ConstructorHidesQuery
  <2> QED BY <2>1, <2>2
<1> HIDE DEF qs, rs, L
<1>9. /\ Len(qs) \in Nat /\ \A i \in 1..Len(qs) : qs[i] \in Of(s)
      /\ Len(rs) \in Nat /\ \A i \in 1..Len(rs) : rs[i] \in H
  BY <1>3
<1>10. a \in Seq(L) /\ NoRepeats(a)
       /\ \A i \in 1..Len(a) : ~options.classes /\ \E q \in Of(s) : a[i] = FuncName[q.name]
  <2>1. CASE options.classes
    BY <2>1 DEF NoRepeats
  <2>2. CASE ~options.classes
    <3>1. Len(a) = Len(qs) /\ \A i \in 1..Len(qs) : a[i] = FuncName[qs[i].name]
      BY <1>9, <2>2
    <3>2. a \in Seq(L)
      BY <1>4, <1>9, <2>2
    <3> HIDE DEF a
    <3>3. NoRepeats(a)
      BY <1>3, <1>5, <1>9, <3>1 DEF NoRepeats
    <3> QED BY <1>9, <2>2, <3>1, <3>2, <3>3
  <2> QED BY <2>1, <2>2
<1>11. b \in Seq(L) /\ NoRepeats(b) /\ \A i \in 1..Len(b) : \E r \in H : b[i] = RowConstructor(r)
  <2>1. Len(b) = Len(rs) /\ \A i \in 1..Len(rs) : b[i] = RowConstructor(rs[i])
    BY <1>9
  <2>2. b \in Seq(L)
    BY <1>2, <1>6, <1>9
  <2> HIDE DEF b
  <2>3. NoRepeats(b)
    BY <1>2, <1>3, <1>7, <1>9, <2>1 DEF NoRepeats
  <2> QED BY <1>9, <2>1, <2>2, <2>3
<1> HIDE DEF a, b
<1>12. \A i \in 1..Len(a), j \in 1..Len(b) : a[i] # b[j]
  BY <1>8, <1>10, <1>11
<1>13. a \o b \in Seq(L) /\ NoRepeats(a \o b)
  BY <1>10, <1>11, <1>12, NoRepeatsConcat, ConcatProperties
<1>14. Cardinality(ToSet(a \o b)) = Len(a \o b)
  BY <1>13, NoRepeatsCounted
<1> QED BY <1>1, <1>14 DEF DistinctElements

\* The files after the first are those of a source whose constructors hide nothing,
\* or the one that is empty.
Sources == {q.source : q \in queries}

Unhidden(i) ==
  \/ files[i] = InitFile
  \/ \E s \in Sources : /\ files[i] = QueryFile(s)
                        /\ options.driver = "sqlalchemy" => ~ConstructorHidesQuery(Of(s))

UnhiddenInv == \A i \in 2..Len(files) : Unhidden(i)

\* Once there is a file, the queries it was written from stay.
LEMMA QueriesStay ==
  ASSUME GenInv, [Next]_vars, files # <<>>
  PROVE  request' = request /\ queries' = queries
<1>1. stage \notin {"configure", "build", "validate", "filter", "models"}
  BY DEF GenInv, Staged
<1>2. request' = request /\ queries' = queries
  BY <1>1 DEF Next, vars, Configure, Build, Validate, Filter, EmitModels, CheckCommands, EmitQueries, Finish
<1> QED BY <1>2

LEMMA NextFile ==
  ASSUME GenInv, [Next]_vars
  PROVE  \/ files' = files
         \/ files = <<>> /\ files' = Append(files, ModelsFile)
         \/ files' = Append(files, InitFile)
         \/ \E s \in Unwritten : /\ files' = Append(files, QueryFile(s))
                                 /\ options.driver = "sqlalchemy" => ~ConstructorHidesQuery(Of(s))
<1>1. CASE EmitModels
  BY <1>1 DEF EmitModels, GenInv, Staged
<1>2. CASE EmitQueries
  BY <1>2, Zenon DEF EmitQueries
<1>3. CASE Finish
  BY <1>3 DEF Finish
<1>4. CASE Configure \/ Build \/ Validate \/ Filter \/ CheckCommands \/ UNCHANGED vars
  BY <1>4 DEF Configure, Build, Validate, Filter, CheckCommands, vars
<1> QED BY <1>1, <1>2, <1>3, <1>4 DEF Next

LEMMA UnhiddenStep == GenInv /\ UnhiddenInv /\ [Next]_vars => UnhiddenInv'
<1> SUFFICES ASSUME GenInv, UnhiddenInv, [Next]_vars PROVE UnhiddenInv'
  OBVIOUS
<1> DEFINE n == Len(files)
<1>1. files \in Seq(AllFiles) /\ n \in Nat
  BY DEF GenInv, Filing
<1>2. CASE files = <<>>
  <2>1. files' = <<>> \/ \E f : files' = Append(<<>>, f)
    BY <1>2, NextFile
  <2>2. Len(files') = 0 \/ Len(files') = 1
    BY <2>1
  <2>3. ASSUME NEW i \in 2..Len(files') PROVE FALSE
    BY <2>2
  <2> QED BY <2>3, Zenon DEF UnhiddenInv
<1>3. CASE files # <<>>
  <2>1. /\ request' = request /\ queries' = queries
        /\ options' = options /\ Sources' = Sources
    BY <1>3, QueriesStay DEF options, Sources
  <2>2. ASSUME NEW s
        PROVE  /\ Of(s)' = Of(s) /\ QueryFile(s)' = QueryFile(s)
               /\ ConstructorHidesQuery(Of(s))' = ConstructorHidesQuery(Of(s))
    BY <2>1 DEF Of, QueryFile, options, HasRowConstructor, ConstructorHidesQuery
  <2>3. ASSUME NEW i \in 2..n, files'[i] = files[i] PROVE Unhidden(i)'
    <3>1. Unhidden(i)
      BY DEF UnhiddenInv
    <3> QED BY <2>1, <2>2, <2>3, <3>1, Zenon DEF Unhidden, InitFile
  <2>4. CASE files' = files
    BY <2>3, <2>4 DEF UnhiddenInv
  <2>5. ASSUME NEW f, files' = Append(files, f),
               \/ f = InitFile
               \/ \E s \in Sources : /\ f = QueryFile(s)
                                     /\ options.driver = "sqlalchemy" => ~ConstructorHidesQuery(Of(s))
        PROVE  UnhiddenInv'
    <3>1. Len(files') = n + 1 /\ files'[n + 1] = f /\ \A i \in 1..n : files'[i] = files[i]
      BY <1>1, <2>5, AppendProperties
    <3>2. ASSUME NEW i, files'[i] = f PROVE Unhidden(i)'
      BY <2>1, <2>2, <2>5, <3>2, Zenon DEF Unhidden, InitFile
    <3>3. ASSUME NEW i \in 2..Len(files') PROVE Unhidden(i)'
      <4>1. i = n + 1 \/ i \in 2..n
        BY <1>1, <3>1
      <4>2. CASE i = n + 1
        BY <3>1, <3>2, <4>2
      <4>3. CASE i \in 2..n
        <5>1. files'[i] = files[i]
          BY <3>1, <4>3
        <5> QED BY <2>3, <4>3, <5>1
      <4> QED BY <4>1, <4>2, <4>3
    <3> QED BY <3>3, Zenon DEF UnhiddenInv
  <2>6. Unwritten \subseteq Sources
    BY DEF Unwritten, Sources
  <2> QED BY <1>3, <2>4, <2>5, <2>6, NextFile
<1> QED BY <1>2, <1>3

\* In a query file no definition hides another one: the row constructors are
\* compared with the functions (SQLAlchemyCheckRowConstructorNames), and the classes
\* have the names of their queries.
THEOREM NothingIsHidden == Spec => []DefinitionsDistinct
<1>1. Init => UnhiddenInv
  BY DEF Init, UnhiddenInv
<1>2. ASSUME GenInv, UnhiddenInv PROVE DefinitionsDistinct
  <2> SUFFICES ASSUME response = "files", NEW i \in 2..Len(files)
               PROVE  /\ FunctionsApart(Of(files[i].name)) => DistinctElements(files[i].functions)
                      /\ DistinctElements(files[i].classes)
    BY Zenon DEF DefinitionsDistinct
  <2>1. Requested /\ queries = {BuildQuery(r, BuildTables) : r \in Named}
    BY <1>2 DEF GenInv, Defining, AfterBuild
  <2>2. CASE files[i] = InitFile
    <3>1. DistinctElements(<<>>)
      <4>1. ToSet(<<>>) = {}
        BY DEF ToSet
      <4> QED BY <4>1, FS_EmptySet DEF DistinctElements
    <3> QED BY <2>2, <3>1 DEF InitFile
  <2>3. CASE files[i] # InitFile
    <3>1. PICK s \in Sources : /\ files[i] = QueryFile(s)
                               /\ options.driver = "sqlalchemy" => ~ConstructorHidesQuery(Of(s))
      BY <1>2, <2>3, Zenon DEF UnhiddenInv, Unhidden
    <3>2. QueryFile(s).name = s
      BY DEF QueryFile
    <3>3. FunctionsApart(Of(s)) => DistinctElements(QueryFile(s).functions)
      BY <2>1, <3>1, FileFunctionsDistinct, Zenon
    <3>4. DistinctElements(QueryFile(s).classes)
      BY <2>1, FileClassesDistinct, Zenon
    <3> QED BY <3>1, <3>2, <3>3, <3>4, Zenon
  <2> QED BY <2>2, <2>3
<1> QED BY Invariance, UnhiddenStep, <1>1, <1>2, PTL DEF Spec

-----------------------------------------------------------------------------
(* What the files refer to. *)

\* The prefix of models.py is one word, and not in front of a built-in type.
LEMMA StrippedModel ==
  ASSUME NEW n \in Seq(STRING)
  PROVE  InModels(<<"models">> \o n) => Stripped(<<"models">> \o n) = n
<1> DEFINE m == <<"models">>
           S == STRING \cup {"models"}
<1>1. m \in Seq(S) /\ Len(m) = 1 /\ n \in Seq(S)
  <2>1. "models" \in S
    OBVIOUS
  <2> DEFINE A == STRING
  <2>2. A \subseteq S /\ n \in Seq(A)
    OBVIOUS
  <2> HIDE DEF S, A
  <2>3. m \in Seq(S) /\ Len(m) = 1
    BY <2>1
  <2>4. n \in Seq(S)
    BY <2>2
  <2> QED BY <2>3, <2>4
<1> HIDE DEF m, S
<1>2. SubSeq(m \o n, 2, Len(m \o n)) = n /\ m \o n \in Seq(S)
  <2>1. SubSeq(m \o n, Len(m) + 1, Len(m \o n)) = n
    BY <1>1, DropFirst
  <2>2. m \o n \in Seq(S)
    BY <1>1, ConcatProperties
  <2> QED BY <1>1, <2>1, <2>2
<1>3. ASSUME Len(m \o n) > 1 PROVE Tail(m \o n) = n
  <2> DEFINE u == m \o n
  <2>1. u \in Seq(S) /\ Len(u) > 1 /\ SubSeq(u, 2, Len(u)) = n
    BY <1>2, <1>3
  <2> HIDE DEF u
  <2>2. Tail(u) = SubSeq(u, 2, Len(u))
    BY <2>1
  <2> QED BY <2>1, <2>2 DEF u
<1> QED BY <1>3 DEF m, InModels, Stripped

LEMMA EnumType ==
  ASSUME Requested, NEW c, InModels(PyType(c))
  PROVE  \E e \in UserEnums : Stripped(PyType(c)) = ClassOf(e.rel)
<1>1. PyType(c) # <<c.type>>
  <2> SUFFICES ASSUME PyType(c) = <<c.type>> PROVE FALSE
    OBVIOUS
  <2>1. ~(Len(<<c.type>>) > 1)
    OBVIOUS
  <2> QED BY <2>1 DEF InModels
<1>2. PICK e \in UserEnums : PyType(c) = <<"models">> \o ClassOf(e.rel)
  BY <1>1, Zenon DEF PyType
<1>3. ClassOf(e.rel) \in Seq(STRING)
  BY RequestFacts DEF UserEnums
<1>4. Stripped(PyType(c)) = ClassOf(e.rel)
  BY <1>2, <1>3, StrippedModel
<1> QED BY <1>4

LEMMA TableType ==
  ASSUME Requested, NEW t \in BuildTables, InModels(<<"models">> \o t.name)
  PROVE  Stripped(<<"models">> \o t.name) = t.name
<1>1. t.name \in Seq(STRING)
  BY RequestFacts DEF BuildTables, UserTables
<1> QED BY <1>1, StrippedModel

\* The types a query returns: those of its columns, or models.
LEMMA RetTypes ==
  ASSUME NEW q, NEW ts
  PROVE  /\ RetOf(q, ts).kind = "scalar" => RetOf(q, ts).type = PyType(q.columns[1])
         /\ RetOf(q, ts).kind = "model" => \E t \in ts : RetOf(q, ts).type = t.name
         /\ RetOf(q, ts).kind = "row" =>
              \A f \in RetOf(q, ts).fields :
                \/ \E c : f.type = PyType(c)
                \/ \E t \in ts : f.type = <<"models">> \o t.name
<1> DEFINE r == RetOf(q, ts)
           one == Len(q.columns) = 1 /\ q.columns[1].embed = NoTable
           whole == {t \in ts : Returns(q, t)}
           model(t) == [kind |-> "model", type |-> t.name,
                        fields |-> {[type |-> t.columns[i].type, embeds |-> {}] : i \in 1..Len(t.columns)}]
<1>1. CASE ~PutsOutColumns(q)
  <2>1. r = [kind |-> "none"]
    BY <1>1 DEF RetOf
  <2> QED BY <2>1
<1>2. CASE PutsOutColumns(q) /\ one
  <2>1. r = [kind |-> "scalar", type |-> PyType(q.columns[1])]
    BY <1>2 DEF RetOf
  <2> QED BY <2>1
<1>3. CASE PutsOutColumns(q) /\ ~one /\ whole # {}
  <2>1. r = model(CHOOSE t \in whole : TRUE)
    BY <1>3 DEF RetOf
  <2>2. PICK t \in whole : r = model(t)
    BY <1>3, <2>1
  <2>3. t \in ts /\ r.kind = "model" /\ r.type = t.name
    BY <2>2
  <2> QED BY <2>3
<1>4. CASE PutsOutColumns(q) /\ ~one /\ whole = {}
  <2>1. r = [kind |-> "row", type |-> MethodName[q.name] \o <<"Row">>,
             fields |-> {RowField(q.columns[i], ts) : i \in 1..Len(q.columns)}]
    BY <1>4 DEF RetOf
  <2>2. r.kind = "row" /\ r.fields = {RowField(q.columns[i], ts) : i \in 1..Len(q.columns)}
    BY <2>1
  <2>3. ASSUME NEW f \in r.fields
        PROVE  (\E c : f.type = PyType(c)) \/ (\E t \in ts : f.type = <<"models">> \o t.name)
    <3>1. PICK i \in 1..Len(q.columns) : f = RowField(q.columns[i], ts)
      BY <2>2
    <3> DEFINE c == q.columns[i]
               embedded == {t \in ts : t.rel = c.embed}
    <3>2. CASE embedded = {}
      <4>1. f = [type |-> PyType(c), embeds |-> {}]
        BY <3>1, <3>2 DEF RowField
      <4>2. f.type = PyType(c)
        BY <4>1
      <4> QED BY <4>2
    <3>3. CASE embedded # {}
      <4> DEFINE u == CHOOSE t \in embedded : TRUE
      <4>1. u \in embedded
        BY <3>3
      <4>2. f = [type |-> <<"models">> \o u.name, embeds |-> {u.columns[j].type : j \in 1..Len(u.columns)}]
        BY <3>1, <3>3, Zenon DEF RowField
      <4> HIDE DEF u
      <4>3. f.type = <<"models">> \o u.name /\ u \in ts
        BY <4>1, <4>2
      <4> QED BY <4>3
    <3> QED BY <3>2, <3>3
  <2>4. r.kind # "scalar" /\ r.kind # "model"
    BY <2>2
  <2> QED BY <2>3, <2>4, Zenon
<1> HIDE DEF one, whole
<1>5. \/ ~PutsOutColumns(q)
      \/ PutsOutColumns(q) /\ one
      \/ PutsOutColumns(q) /\ ~one /\ whole # {}
      \/ PutsOutColumns(q) /\ ~one /\ whole = {}
  BY Zenon
<1> QED BY <1>1, <1>2, <1>3, <1>4, <1>5, Zenon

\* What a query returns, and the fields of it, are kept.
LEMMA KeptTypes ==
  ASSUME NEW qs, NEW q \in qs
  PROVE  /\ q.ret.kind = "model" => q.ret.type \in KeepTypes(qs)
         /\ q.ret.kind = "row" => \A f \in q.ret.fields : Stripped(f.type) \in KeepTypes(qs)
<1> DEFINE args == {p \in qs : p.args.bundled}
           rets == {p \in qs : p.ret.kind # "none"}
           structs == {p \in rets : p.ret.kind # "scalar"}
           fields == UNION {p.ret.fields : p \in structs}
           K == {p.args.type : p \in args}
                  \cup (UNION {p.args.types : p \in qs \ args})
                  \cup {p.ret.type : p \in rets}
                  \cup {Stripped(f.type) : f \in fields}
                  \cup (UNION {{Stripped(x) : x \in f.embeds} : f \in fields})
<1>1. KeepTypes(qs) = K
  BY Zenon DEF KeepTypes
<1>2. "model" # "none" /\ "row" # "none" /\ "row" # "scalar"
  OBVIOUS
<1>3. q.ret.kind = "model" => q.ret.type \in {p.ret.type : p \in rets}
  BY <1>2
<1>4. q.ret.kind = "row" => q.ret.fields \subseteq fields
  <2>1. q.ret.kind = "row" => q \in structs
    BY <1>2
  <2> HIDE DEF structs
  <2> QED BY <2>1
<1> HIDE DEF args, rets, structs, fields
<1>5. q.ret.kind = "row" => \A f \in q.ret.fields : Stripped(f.type) \in {Stripped(g.type) : g \in fields}
  BY <1>4
<1> QED BY <1>1, <1>3, <1>5, Zenon

\* A query file refers to enums, and to models that the filter keeps.
LEMMA RefsOfQuery ==
  ASSUME Requested, queries = {BuildQuery(r, BuildTables) : r \in Named},
         NEW q \in queries, NEW x \in QueryRefs(q)
  PROVE  \/ \E e \in UserEnums : x = ClassOf(e.rel)
         \/ \E t \in BuildTables : x = t.name /\ x \in KeepTypes(queries)
<1>1. PICK r \in Named : q = BuildQuery(r, BuildTables)
  OBVIOUS
<1>2. q.args = ArgsOf(r) /\ q.ret = RetOf(r, BuildTables)
  BY <1>1 DEF BuildQuery
<1>3. q.args.types = {PyType(r.params[i]) : i \in 1..Len(r.params)}
  BY <1>2 DEF ArgsOf
<1>4. /\ q.ret.kind = "scalar" => q.ret.type = PyType(r.columns[1])
      /\ q.ret.kind = "model" => \E t \in BuildTables : q.ret.type = t.name
      /\ q.ret.kind = "row" =>
           \A f \in q.ret.fields :
             \/ \E c : f.type = PyType(c)
             \/ \E t \in BuildTables : f.type = <<"models">> \o t.name
  BY <1>2, RetTypes
<1>5. \/ \E y \in q.args.types : InModels(y) /\ x = Stripped(y)
      \/ q.ret.kind = "scalar" /\ InModels(q.ret.type) /\ x = Stripped(q.ret.type)
      \/ q.ret.kind = "row" /\ \E f \in q.ret.fields : InModels(f.type) /\ x = Stripped(f.type)
      \/ q.ret.kind = "model" /\ x = q.ret.type
  BY DEF QueryRefs
<1>6. CASE \E y \in q.args.types : InModels(y) /\ x = Stripped(y)
  BY <1>3, <1>6, EnumType
<1>7. CASE q.ret.kind = "scalar" /\ InModels(q.ret.type) /\ x = Stripped(q.ret.type)
  BY <1>4, <1>7, EnumType
<1>8. CASE q.ret.kind = "row" /\ \E f \in q.ret.fields : InModels(f.type) /\ x = Stripped(f.type)
  <2>1. PICK f \in q.ret.fields : InModels(f.type) /\ x = Stripped(f.type)
    BY <1>8
  <2>2. CASE \E c : f.type = PyType(c)
    BY <2>1, <2>2, EnumType
  <2>3. CASE \E t \in BuildTables : f.type = <<"models">> \o t.name
    <3>1. PICK t \in BuildTables : f.type = <<"models">> \o t.name
      BY <2>3
    <3>2. x = t.name
      BY <2>1, <3>1, TableType
    <3>3. x \in KeepTypes(queries)
      BY <1>8, <2>1, KeptTypes, Zenon
    <3> QED BY <3>2, <3>3
  <2> QED BY <1>4, <1>8, <2>1, <2>2, <2>3
<1>9. CASE q.ret.kind = "model" /\ x = q.ret.type
  <2>1. x \in KeepTypes(queries)
    BY <1>9, KeptTypes, Zenon
  <2> QED BY <1>4, <1>9, <2>1
<1> QED BY <1>5, <1>6, <1>7, <1>8, <1>9

\* models.py refers to enums only.
LEMMA RefsOfModels ==
  ASSUME Requested, tables \subseteq BuildTables, NEW x \in ModelsFile.refs
  PROVE  \E e \in UserEnums : x = ClassOf(e.rel)
<1>a. PICK t \in tables : \E i \in 1..Len(t.columns) :
        InModels(t.columns[i].type) /\ x = Stripped(t.columns[i].type)
  BY DEF ModelsFile
<1>1. PICK i \in 1..Len(t.columns) :
        InModels(t.columns[i].type) /\ x = Stripped(t.columns[i].type)
  BY <1>a
<1>2. PICK u \in UserTables : t.columns = Typed(u.columns)
  BY DEF BuildTables
<1> DEFINE cs == u.columns
<1>3. cs \in Seq(Column)
  BY RequestFacts DEF UserTables
<1> HIDE DEF cs
<1>4. Len(Typed(cs)) = Len(cs) /\ \A j \in 1..Len(cs) : Typed(cs)[j].type = PyType(cs[j])
  BY <1>3 DEF Typed
<1>5. t.columns[i].type = PyType(cs[i])
  BY <1>1, <1>2, <1>4 DEF cs
<1> QED BY <1>1, <1>5, EnumType

\* models.py defines every enum and every table that is left.
LEMMA DefinedInModels ==
  ASSUME IsFiniteSet(enums), IsFiniteSet(tables), files[1] = ModelsFile
  PROVE  (\A e \in enums : e.name \in Defined) /\ (\A t \in tables : t.name \in Defined)
<1> DEFINE E == {[rel |-> e.rel, name |-> e.name] : e \in enums}
           T == {[rel |-> t.rel, name |-> t.name] : t \in tables}
           S == E \cup T
           a == SetToSeq(E)
           b == SetToSeq(T)
<1>1. IsFiniteSet(E)
  <2> DEFINE f == [e \in enums |-> [rel |-> e.rel, name |-> e.name]]
  <2>1. DOMAIN f = enums /\ \A y \in E : \E x \in enums : y = f[x]
    OBVIOUS
  <2> HIDE DEF f, E
  <2> QED BY <2>1, FiniteImage
<1>2. IsFiniteSet(T)
  <2> DEFINE f == [t \in tables |-> [rel |-> t.rel, name |-> t.name]]
  <2>1. DOMAIN f = tables /\ \A y \in T : \E x \in tables : y = f[x]
    OBVIOUS
  <2> HIDE DEF f, T
  <2> QED BY <2>1, FiniteImage
<1>3. files[1].classes = a \o b
  <2>1. ModelsFile.classes = a \o b
    BY DEF ModelsFile
  <2> QED BY <2>1
<1>4. \A e \in enums : \E y \in E : y.name = e.name
  <2> TAKE e \in enums
  <2> WITNESS [rel |-> e.rel, name |-> e.name] \in E
  <2> QED OBVIOUS
<1>5. \A t \in tables : \E y \in T : y.name = t.name
  <2> TAKE t \in tables
  <2> WITNESS [rel |-> t.rel, name |-> t.name] \in T
  <2> QED OBVIOUS
<1> HIDE DEF E, T
<1>6. a \in Seq(E) /\ b \in Seq(T) /\ (\A y \in E : \E i \in 1..Len(a) : a[i] = y)
      /\ (\A y \in T : \E i \in 1..Len(b) : b[i] = y)
  BY <1>1, <1>2, SetToSeqIs
<1> HIDE DEF a, b
<1>7. a \in Seq(S) /\ b \in Seq(S)
  BY <1>6
<1> HIDE DEF S
<1>8. /\ Len(a) \in Nat /\ Len(b) \in Nat
      /\ \A p \in 1..Len(a) : p \in 1..Len(a \o b) /\ (a \o b)[p] = a[p]
      /\ \A k \in 1..Len(b) : Len(a) + k \in 1..Len(a \o b) /\ (a \o b)[Len(a) + k] = b[k]
  BY <1>7, ConcatElements
<1>9. \A y \in E \cup T : \E i \in 1..Len(a \o b) : (a \o b)[i] = y
  BY <1>6, <1>8
<1>10. \A y \in E \cup T : y.name \in Defined
  BY <1>3, <1>9, Zenon DEF Defined
<1> QED BY <1>4, <1>5, <1>10

\* A name a generated file takes from models.py is there: the filter keeps what
\* the queries mention, and what it drops no file mentions (filterUnusedStructs,
\* gen.go; BuildPyTablesFile).
THEOREM ModelsAreDefined == Spec => []ReferencesResolve
<1>1. ASSUME GenInv PROVE ReferencesResolve
  <2> SUFFICES ASSUME response = "files", NEW i \in 1..Len(files), NEW x \in files[i].refs,
                      ~options.omit \/ x \in ClassNames({t.rel : t \in UserTables})
               PROVE  x \in Defined
    BY Zenon DEF ReferencesResolve
  <2>1. /\ Requested /\ Defining /\ AfterFilter /\ files # <<>> /\ files \in Seq(AllFiles)
        /\ files[1] = ModelsFile
    BY <1>1, Zenon DEF GenInv, Filing, AfterFilter, AfterModels
  <2>2. /\ queries = {BuildQuery(r, BuildTables) : r \in Named}
        /\ ~Collide(BuildEnums, BuildTables)
        /\ enums = IF options.omit THEN KeptEnums(BuildEnums, queries) ELSE BuildEnums
        /\ tables = IF options.omit THEN KeptTables(BuildTables, queries) ELSE BuildTables
    BY <2>1, Zenon DEF Defining, AfterBuild, AfterValidate
  <2>3. enums \subseteq BuildEnums /\ tables \subseteq BuildTables
    BY <2>2 DEF KeptEnums, KeptTables
  <2>4. IsFiniteSet(enums) /\ IsFiniteSet(tables) /\ IsFiniteSet(queries)
    BY <2>1, <2>2, <2>3, BuiltFinite, FS_Subset
  <2>5. (\A e \in enums : e.name \in Defined) /\ (\A t \in tables : t.name \in Defined)
    BY <2>1, <2>4, DefinedInModels
  <2>6. \/ \E e \in UserEnums : x = ClassOf(e.rel)
        \/ \E t \in BuildTables : x = t.name /\ x \in KeepTypes(queries)
    <3>1. files[i] \in AllFiles
      BY <2>1
    <3>2. CASE files[i] = ModelsFile
      BY <2>1, <2>3, <3>2, RefsOfModels
    <3>3. CASE files[i] = InitFile
      BY <3>3 DEF InitFile
    <3>4. ASSUME NEW s, files[i] = QueryFile(s)
          PROVE  \E q \in queries : x \in QueryRefs(q)
      <4> DEFINE qs == SetToSeq(Of(s))
      <4>1. x \in UNION {QueryRefs(qs[k]) : k \in 1..Len(qs)}
        BY <3>4 DEF QueryFile
      <4>2. IsFiniteSet(Of(s)) /\ Of(s) \subseteq queries
        BY <2>4, FS_Subset DEF Of
      <4>3. qs \in Seq(Of(s))
        BY <4>2, SetToSeqIs
      <4> HIDE DEF qs
      <4>4. PICK k \in 1..Len(qs) : x \in QueryRefs(qs[k])
        BY <4>1
      <4>5. qs[k] \in queries
        BY <4>2, <4>3
      <4> QED BY <4>4, <4>5
    <3>5. CASE \E s : files[i] = QueryFile(s)
      BY <2>1, <2>2, <3>4, <3>5, RefsOfQuery
    <3>6. files[i] = ModelsFile \/ files[i] = InitFile \/ \E s : files[i] = QueryFile(s)
      BY <3>1, Zenon DEF AllFiles
    <3> QED BY <3>2, <3>3, <3>5, <3>6
  <2>7. CASE \E t \in BuildTables : x = t.name /\ x \in KeepTypes(queries)
    <3>1. PICK t \in BuildTables : x = t.name /\ x \in KeepTypes(queries)
      BY <2>7
    <3>2. t \in tables
      BY <2>2, <3>1 DEF KeptTables
    <3> QED BY <2>5, <3>1, <3>2
  <2>8. CASE \E e \in UserEnums : x = ClassOf(e.rel)
    <3>1. PICK e \in UserEnums : x = ClassOf(e.rel)
      BY <2>8
    <3>2. PICK b \in BuildEnums : b.name = x
      <4> DEFINE y == [rel |-> e.rel, name |-> ClassOf(e.rel), members |-> e.members]
      <4>1. y \in BuildEnums
        BY DEF BuildEnums
      <4>2. y.name = x
        BY <3>1
      <4> HIDE DEF y
      <4> QED BY <4>1, <4>2
    <3>3. x \notin ClassNames({t.rel : t \in UserTables})
      <4> SUFFICES ASSUME NEW t \in UserTables, x = ClassOf(t.rel) PROVE FALSE
        BY DEF ClassNames
      <4>1. \E u \in BuildTables : u.name = x
        <5> DEFINE y == [rel |-> t.rel, name |-> ClassOf(t.rel), columns |-> Typed(t.columns)]
        <5>1. y \in BuildTables
          BY DEF BuildTables
        <5>2. y.name = x
          OBVIOUS
        <5> HIDE DEF y
        <5> QED BY <5>1, <5>2
      <4>2. x \in EnumNames(BuildEnums)
        BY <3>2 DEF EnumNames
      <4> QED BY <2>2, <4>1, <4>2 DEF Collide
    <3>4. b \in enums
      BY <2>2, <3>2, <3>3
    <3> QED BY <2>5, <3>2, <3>4
  <2> QED BY <2>6, <2>7, <2>8
<1> QED BY Invariance, <1>1, PTL

=============================================================================
