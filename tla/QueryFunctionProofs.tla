------------------------- MODULE QueryFunctionProofs -------------------------
(***************************************************************************)
(* For every number of parameters and columns and every list of overrides:  *)
(* what a query function binds, documents, types and reads.                 *)
(*                                                                         *)
(* Each part has an inductive invariant of its own.  A step of the function *)
(* is a step of the part or leaves its variables alone (PartSteps), so the   *)
(* invariant is preserved by the steps of the part.                         *)
(***************************************************************************)
EXTENDS QueryFunction, SequenceLemmas

TypesStep == Types!Configure \/ Types!BuildTable \/ Types!BuildQuery \/ Types!ImportType
ParamsStep == Params!BuildArgs \/ Params!WriteFunction \/ (types = "imported" /\ Params!Call)
ManyStep == Many!Write \/ Many!Call \/ Many!Iterate
DocsStep == function = "written" /\ (Docs!WriteHeader \/ Docs!WriteDocstring)
RowsStep ==
  \/ Rows!WriteColumn \/ Rows!WriteScalar \/ Rows!DeclareAdapters
  \/ function = "called" /\ (Rows!ReadRow \/ Rows!NoRow)

\* A step of the function is for each part a step of that part, or leaves it alone.
LEMMA PartSteps ==
  ASSUME [Next]_vars
  PROVE  /\ UNCHANGED query
         /\ TypesStep \/ UNCHANGED typeVars
         /\ ParamsStep \/ UNCHANGED paramVars
         /\ ManyStep \/ UNCHANGED manyVars
         /\ DocsStep \/ UNCHANGED docVars
         /\ RowsStep \/ UNCHANGED rowVars
<1> USE DEF query, typeVars, paramVars, manyVars, docVars, rowVars, OnlyTypes, OnlyDocs, OnlyRows,
            TypesStep, ParamsStep, ManyStep, DocsStep, RowsStep,
            Types!input, Params!query, Docs!given, Docs!options, Rows!input
<1>1. CASE Configure BY <1>1 DEF Configure, Types!Configure
<1>2. CASE BuildTable BY <1>2 DEF BuildTable, Types!BuildTable
<1>3. CASE BuildArgs BY <1>3 DEF BuildArgs, Params!BuildArgs
<1>4. CASE BuildQuery BY <1>4 DEF BuildQuery, Types!BuildQuery
<1>5. CASE WriteFunction BY <1>5 DEF WriteFunction, Params!WriteFunction
<1>6. CASE WriteMany BY <1>6 DEF WriteMany, Many!Write
<1>7. CASE WriteHeader BY <1>7 DEF WriteHeader, Written, Docs!WriteHeader
<1>8. CASE WriteDocstring BY <1>8 DEF WriteDocstring, Written, Docs!WriteDocstring
<1>9. CASE WriteColumn BY <1>9 DEF WriteColumn, Rows!WriteColumn
<1>10. CASE WriteScalar BY <1>10 DEF WriteScalar, Rows!WriteScalar
<1>11. CASE DeclareAdapters BY <1>11 DEF DeclareAdapters, Rows!DeclareAdapters
<1>12. CASE ImportType BY <1>12 DEF ImportType, Types!ImportType
<1>13. CASE Call BY <1>13 DEF Call, Params!Call
<1>14. CASE Iterate BY <1>14 DEF Iterate, Many!Iterate
<1>15. CASE ReadRow BY <1>15 DEF ReadRow, Ran, Rows!ReadRow
<1>16. CASE NoRow BY <1>16 DEF NoRow, Ran, Rows!NoRow
<1>17. CASE UNCHANGED vars BY <1>17 DEF vars
<1> QED BY <1>1, <1>2, <1>3, <1>4, <1>5, <1>6, <1>7, <1>8, <1>9, <1>10, <1>11, <1>12,
           <1>13, <1>14, <1>15, <1>16, <1>17 DEF Next

-----------------------------------------------------------------------------
(* The arguments. *)

\* The numbers tell the parameters apart, the call is the one the writers give,
\* and the database gets the call evaluated for each record.
ParamInv ==
  /\ driver \in Params!Drivers /\ cmd \in Params!Commands
  /\ params \in Seq(Params!Param) /\ limit \in 0..MaxLimit
  /\ DOMAIN number = Params!Indices
  /\ \A i, j \in Params!Indices : number[i] = number[j] => i = j
  /\ driver # "sqlalchemy" => \A i \in Params!Indices : number[i] = i
  /\ function \in {"query", "args", "written", "unsupported", "called"}
  /\ args = IF function = "query" THEN "none"
            ELSE IF Params!Bundle THEN "struct" ELSE IF Len(params) >= 1 THEN "flat" ELSE "none"
  /\ function \in {"written", "called"} =>
       cmd \in Params!AcceptedCMDs[driver] /\ call = Params!Written
  /\ function = "called" =>
       /\ passed \in Seq(Params!Record)
       /\ cmd # "copyfrom" => Len(passed) = 1
       /\ bound = [k \in 1..Len(passed) |-> [n \in DOMAIN call |-> Params!Evaluate(call[n], passed[k])]]

LEMMA ParamInit == Init => ParamInv
<1> SUFFICES ASSUME Init PROVE ParamInv
  OBVIOUS
<1> USE DEF ParamInv, Params!Indices
<1>1. MaxParams \in Nat /\ MaxLimit \in Nat
  BY Bounds
<1>2. ASSUME NEW S, NEW n \in Nat, NEW s \in [1..n -> S] PROVE s \in Seq(S)
  BY SeqDef
<1>3. CASE ArgumentsVary
  <2> USE <1>3 DEF ArgumentsVary, Params!Init
  <2>1. params \in Seq(Params!Param)
    BY <1>1, <1>2
  <2>2. /\ DOMAIN number = Params!Indices
        /\ \A i, j \in Params!Indices : number[i] = number[j] => i = j
        /\ driver # "sqlalchemy" => \A i \in Params!Indices : number[i] = i
    BY DEF Params!Permutations
  <2> QED BY <2>1, <2>2
<1>4. ASSUME NoArguments, driver \in Params!Drivers, cmd \in Params!Commands PROVE ParamInv
  BY <1>1, <1>4 DEF NoArguments
<1>5. CASE StatementVaries
  BY <1>4, <1>5 DEF StatementVaries, Many!Init, Params!Drivers, Params!Commands
<1>6. CASE RowsVary
  BY <1>4, <1>6 DEF RowsVary, Rows!Init, Params!Drivers, Params!Commands
<1>7. CASE TypesVary
  BY <1>4, <1>7 DEF TypesVary, Params!Drivers, Params!Commands
<1>8. CASE DocstringsVary
  <2> USE <1>8 DEF DocstringsVary
  <2>1. PICK n \in 0..MaxParams :
          params \in [1..n -> {[override |-> FALSE, nullable |-> FALSE]}]
    OBVIOUS
  <2>2. n \in Nat /\ params \in [1..n -> Params!Param]
    <3>1. [override |-> FALSE, nullable |-> FALSE] \in Params!Param
      BY DEF Params!Param
    <3>2. \A i \in 1..n : params[i] = [override |-> FALSE, nullable |-> FALSE]
      BY <2>1
    <3>3. \A i \in 1..n : params[i] \in Params!Param
      BY <3>1, <3>2
    <3> QED BY <1>1, <2>1, <3>3
  <2>3. params \in Seq(Params!Param) /\ Len(params) = n
    BY <1>2, <2>2
  <2> QED BY <1>1, <2>2, <2>3
<1> QED BY <1>3, <1>5, <1>6, <1>7, <1>8 DEF Init

\* The placeholder numbers, the call and the records stay as they are once written.
LEMMA ParamStep == ParamInv /\ [Next]_vars => ParamInv'
<1> SUFFICES ASSUME ParamInv, [Next]_vars PROVE ParamInv'
  OBVIOUS
<1>1. /\ UNCHANGED <<driver, cmd, params>>
      /\ ParamsStep \/ UNCHANGED paramVars
  BY PartSteps DEF query
<1> USE DEF Params!Indices
<1>2. CASE UNCHANGED paramVars
  <2>1. UNCHANGED <<number, limit, args, call, passed, bound, function>>
    BY <1>2 DEF paramVars
  <2>2. Params!Written' = Params!Written /\ Params!Bundle' = Params!Bundle /\ Params!Record' = Params!Record
    BY <1>1, <2>1 DEF Params!Written, Params!NamedBinds, Params!Positional, Params!Bundle, Params!Record
  <2> QED BY <1>1, <2>1, <2>2 DEF ParamInv
<1>3. CASE Params!BuildArgs
  <2>1. UNCHANGED <<number, limit, call, passed, bound>> /\ function = "query" /\ function' = "args"
        /\ args' = IF Params!Bundle THEN "struct" ELSE IF Len(params) >= 1 THEN "flat" ELSE "none"
    BY <1>3 DEF Params!BuildArgs, Params!query
  <2> QED BY <1>1, <2>1 DEF ParamInv, Params!Bundle
<1>4. CASE Params!WriteFunction
  <2>1. UNCHANGED <<number, limit, args, passed, bound>> /\ function = "args"
    BY <1>4 DEF Params!WriteFunction, Params!query
  <2>2. \/ function' = "written" /\ cmd \in Params!AcceptedCMDs[driver] /\ call' = Params!Written
        \/ function' = "unsupported"
    BY <1>4 DEF Params!WriteFunction
  <2>3. Params!Written' = Params!Written
    BY <1>1, <2>1 DEF Params!Written, Params!NamedBinds, Params!Positional
  <2>4. Params!Bundle' = Params!Bundle
    BY <1>1, <2>1 DEF Params!Bundle
  <2> QED BY <1>1, <2>1, <2>2, <2>3, <2>4 DEF ParamInv
<1>5. CASE Params!Call
  <2>1. UNCHANGED <<number, limit, args, call>> /\ function = "written" /\ function' = "called"
    BY <1>5 DEF Params!Call, Params!query
  <2>2. PICK n \in IF cmd = "copyfrom" THEN 0..MaxRecords ELSE {1} :
          /\ passed' \in [1..n -> Params!Record]
          /\ bound' = [k \in DOMAIN passed' |-> [m \in DOMAIN call |-> Params!Evaluate(call[m], passed'[k])]]
    BY <1>5 DEF Params!Call
  <2>3. n \in Nat /\ passed' \in Seq(Params!Record) /\ Len(passed') = n /\ DOMAIN passed' = 1..n
    <3>1. n \in Nat
      BY Bounds
    <3> QED BY <2>2, <3>1, SeqDef
  <2>4. Params!Written' = Params!Written /\ Params!Bundle' = Params!Bundle /\ Params!Record' = Params!Record
    BY <1>1, <2>1 DEF Params!Written, Params!NamedBinds, Params!Positional, Params!Bundle, Params!Record
  <2>5. cmd # "copyfrom" => Len(passed') = 1
    BY <2>2, <2>3
  <2>6. bound' = [k \in 1..Len(passed') |-> [m \in DOMAIN call' |-> Params!Evaluate(call'[m], passed'[k])]]
    BY <2>1, <2>2, <2>3
  <2> QED BY <1>1, <2>1, <2>3, <2>4, <2>5, <2>6 DEF ParamInv
<1> QED BY <1>1, <1>2, <1>3, <1>4, <1>5 DEF ParamsStep

\* What evaluating an argument or a field gives.
LEMMA Evaluated ==
  ASSUME ParamInv, NEW r \in Params!Record, NEW i \in Params!Indices, NEW cast \in BOOLEAN,
         NEW e \in {Params!Arg(i, cast), Params!Field(i)}
  PROVE  \/ Params!Evaluate(e, r) = Params!Expected(i, r)
         \/ e = Params!Arg(i, TRUE) /\ r[i] = "None" /\ Params!Evaluate(e, r) = <<"cast None", i>>
<1>1. e.of # "struct" /\ e.index = i /\ (e.cast => e = Params!Arg(i, TRUE))
  <2>1. CASE e = Params!Field(i)
    BY <2>1 DEF Params!Field
  <2>2. CASE e = Params!Arg(i, cast)
    BY <2>2 DEF Params!Arg
  <2> QED BY <2>1, <2>2
<1>2. CASE r[i] = "value"
  BY <1>1, <1>2 DEF Params!Evaluate, Params!Expected
<1>3. CASE r[i] = "None"
  BY <1>1, <1>3 DEF Params!Evaluate, Params!Expected
<1> QED BY <1>2, <1>3 DEF Params!Record

\* Separate arguments reach their placeholder, and all of them with sqlalchemy.
LEMMA ParamInvBinds == ParamInv => ArgumentsBound
<1> SUFFICES ASSUME ParamInv, function = "called", cmd # "copyfrom",
                    args = "flat" \/ driver = "sqlalchemy",
                    NEW i \in Params!Indices
             PROVE  \/ bound[1][number[i]] = Params!Expected(i, passed[1])
                    \/ /\ driver # "sqlalchemy" /\ bound[1][number[i]] = <<"cast None", i>>
                       /\ passed[1][i] = "None"
  BY Zenon DEF ArgumentsBound, Params!ArgumentsBound
<1>1. passed[1] \in Params!Record /\ Len(passed) = 1
  <2>1. passed \in Seq(Params!Record) /\ Len(passed) = 1
    BY DEF ParamInv
  <2> QED BY <2>1, ElementOfSeq
<1>2. ASSUME number[i] \in DOMAIN call
      PROVE  bound[1][number[i]] = Params!Evaluate(call[number[i]], passed[1])
  BY <1>1, <1>2 DEF ParamInv
<1>3. CASE driver = "sqlalchemy"
  <2>1. call = Params!NamedBinds
    BY <1>3 DEF ParamInv, Params!Written
  <2>2. number[i] \in {number[j] : j \in Params!Indices}
    OBVIOUS
  <2>3. i = CHOOSE j \in Params!Indices : number[j] = number[i]
    BY DEF ParamInv
  <2>4. number[i] \in DOMAIN call
    BY <2>1, <2>2 DEF Params!NamedBinds
  <2>5. call[number[i]] = IF args = "struct" THEN Params!Field(i) ELSE Params!Arg(i, FALSE)
    <3> DEFINE written(n) == LET j == CHOOSE j \in Params!Indices : number[j] = n
                             IN IF args = "struct" THEN Params!Field(j) ELSE Params!Arg(j, FALSE)
    <3>1. call = [n \in {number[j] : j \in Params!Indices} |-> written(n)]
      BY <2>1 DEF Params!NamedBinds
    <3>2. call[number[i]] = written(number[i])
      BY <2>2, <3>1
    <3> QED BY <2>3, <3>2
  <2>6. Params!Arg(i, FALSE) # Params!Arg(i, TRUE) /\ Params!Field(i) # Params!Arg(i, TRUE)
    BY DEF Params!Arg, Params!Field
  <2> QED BY <1>1, <1>2, <2>4, <2>5, <2>6, Evaluated
<1>4. CASE driver # "sqlalchemy"
  <2>1. args = "flat" /\ number[i] = i
    BY <1>4 DEF ParamInv
  <2>2. \E cast \in BOOLEAN : call = Params!Positional(cast)
    BY <1>4 DEF ParamInv, Params!Written
  <2>3. PICK cast \in BOOLEAN : call = [j \in Params!Indices |-> Params!Arg(j, cast /\ params[j].override)]
    BY <2>1, <2>2 DEF Params!Positional
  <2>4. params[i].override \in BOOLEAN
    <3>1. params \in Seq(Params!Param) /\ i \in 1..Len(params)
      BY DEF ParamInv, Params!Indices
    <3>2. params[i] \in Params!Param
      BY <3>1, ElementOfSeq
    <3> QED BY <3>2 DEF Params!Param
  <2>5. number[i] \in DOMAIN call /\ call[number[i]] = Params!Arg(i, cast /\ params[i].override)
    BY <2>1, <2>3
  <2>6. (cast /\ params[i].override) \in BOOLEAN
    BY <2>4
  <2> DEFINE c == cast /\ params[i].override
             e == Params!Arg(i, c)
             v == passed[1]
  <2>7. c \in BOOLEAN /\ call[number[i]] = e /\ e \in {Params!Arg(i, c), Params!Field(i)}
    BY <2>5, <2>6
  <2>8. v \in Params!Record
    BY <1>1
  <2>9. bound[1][number[i]] = Params!Evaluate(e, v)
    BY <1>2, <2>5, <2>7
  <2> HIDE DEF c, e
  <2>10. \/ Params!Evaluate(e, v) = Params!Expected(i, v)
         \/ v[i] = "None" /\ Params!Evaluate(e, v) = <<"cast None", i>>
    BY <2>7, <2>8, Evaluated
  <2> HIDE DEF v
  <2>11. \/ bound[1][number[i]] = Params!Expected(i, v)
         \/ v[i] = "None" /\ bound[1][number[i]] = <<"cast None", i>>
    BY <2>9, <2>10
  <2> QED BY <1>4, <2>1, <2>11 DEF v
<1> QED BY <1>3, <1>4

\* A value passed as a separate argument, and with sqlalchemy also a bundled one,
\* reaches the placeholder of its parameter, for any number of parameters in any
\* order (sqlite3WriteParams, asyncpgWriteParams, sqlalchemyWriteParams).
THEOREM ArgumentsAreBound == Spec => []ArgumentsBound
<1> QED BY ParamInit, ParamStep, ParamInvBinds, PTL DEF Spec

-----------------------------------------------------------------------------
(* The docstring. *)

\* The annotation that a docstring can follow: all but the one of a :many of sqlalchemy.
Documentable == ~(cmd = "many" /\ driver = "sqlalchemy")

\* Both are written from the same arguments, which are never built again.
DocInv ==
  /\ classes \in BOOLEAN
  /\ header # Docs!NoHeader =>
       /\ function \in {"written", "called"}
       /\ header.params = <<IF classes THEN Docs!Self ELSE Docs!Connection>> \o Docs!Arguments
       /\ Documentable => header.returns = Docs!Returns
  /\ docstring # Docs!NoDocstring =>
       /\ header # Docs!NoHeader
       /\ docstring.params = Docs!Parameters
       /\ Documentable => docstring.returns = Docs!Returns

LEMMA DocInit == Init => DocInv
BY DEF Init, ArgumentsVary, StatementVaries, RowsVary, TypesVary, DocstringsVary,
       NoDocstrings, Docs!Init, DocInv

\* What the branches of the docstring say of the result.
LEMMA DocumentedResult ==
  ASSUME cmd \in Params!Commands, driver \in Params!Drivers, Docs!WriteDocstring
  PROVE  /\ docstring'.params = Docs!Parameters
         /\ Documentable => docstring'.returns = Docs!Returns
<1> USE DEF Docs!WriteDocstring, Docs!Executed, Docs!Affected, Docs!Fetched, Docs!Sections,
            Docs!Returns, Documentable
<1>1. CASE cmd = "exec"
  BY <1>1
<1>2. CASE cmd = "one"
  BY <1>2
<1>3. CASE cmd = "many"
  BY <1>3
<1>4. CASE cmd = "execresult"
  BY <1>4
<1>5. CASE cmd = "execlastid"
  BY <1>5
<1>6. CASE cmd \in {"execrows", "copyfrom"}
  BY <1>6
<1> QED BY <1>1, <1>2, <1>3, <1>4, <1>5, <1>6 DEF Params!Commands

LEMMA DocStep == ParamInv /\ DocInv /\ [Next]_vars => DocInv'
<1> SUFFICES ASSUME ParamInv, DocInv, [Next]_vars PROVE DocInv'
  OBVIOUS
<1>1. /\ UNCHANGED <<driver, cmd, params>>
      /\ ParamsStep \/ UNCHANGED paramVars
      /\ DocsStep \/ UNCHANGED docVars
  BY PartSteps DEF query
<1>2. function \in {"written", "called"} => UNCHANGED args /\ function' \in {"written", "called"}
  BY <1>1 DEF ParamsStep, paramVars, Params!BuildArgs, Params!WriteFunction, Params!Call
<1>3. UNCHANGED args => UNCHANGED <<Docs!Arguments, Documentable>>
  BY <1>1 DEF Docs!Arguments, Documentable
<1>4. UNCHANGED <<args, classes>> => UNCHANGED Docs!Parameters
  BY <1>1, <1>3 DEF Docs!Parameters
<1>5. Documentable => UNCHANGED Docs!Returns
  BY <1>1 DEF Docs!Returns, Documentable
<1>6. Documentable' = Documentable
  BY <1>1 DEF Documentable
<1>7. CASE UNCHANGED docVars
  BY <1>2, <1>3, <1>4, <1>5, <1>6, <1>7 DEF DocInv, docVars
<1>8. CASE function = "written" /\ Docs!WriteHeader
  <2>1. /\ UNCHANGED <<args, classes, docstring>> /\ docstring = Docs!NoDocstring
        /\ header' = [params |-> <<IF classes THEN Docs!Self ELSE Docs!Connection>> \o Docs!Arguments,
                      returns |-> Docs!Returns]
    BY <1>8 DEF Docs!WriteHeader, Docs!given, Docs!options, DocInv
  <2> QED BY <1>2, <1>3, <1>5, <1>6, <1>8, <2>1 DEF DocInv
<1>9. CASE function = "written" /\ Docs!WriteDocstring
  <2>1. UNCHANGED <<args, classes, header>> /\ header # Docs!NoHeader
    BY <1>9 DEF Docs!WriteDocstring, Docs!given, Docs!options
  <2>2. /\ docstring'.params = Docs!Parameters
        /\ Documentable => docstring'.returns = Docs!Returns
    BY <1>9, DocumentedResult DEF ParamInv
  <2> QED BY <1>2, <1>3, <1>4, <1>5, <1>6, <1>9, <2>1, <2>2 DEF DocInv
<1> QED BY <1>1, <1>7, <1>8, <1>9 DEF DocsStep

LEMMA DocInvDocuments == ParamInv /\ DocInv => DocumentsSignature
<1> SUFFICES ASSUME ParamInv, DocInv, docstring # Docs!NoDocstring
             PROVE  /\ docstring.params = IF Head(header.params) = Docs!Self THEN Tail(header.params) ELSE header.params
                    /\ docstring.returns = header.returns \/ (cmd = "many" /\ driver = "sqlalchemy")
  BY DEF DocumentsSignature, Docs!DocumentsSignature
<1> DEFINE A == Docs!Arguments
           P == {"self", "conn", "argument", "record", "records"} \X Nat
<1>1. args \in {"none", "flat", "struct"}
  BY DEF ParamInv
<1>2. A \in Seq(P)
  <2>1. CASE args = "none"
    BY <2>1 DEF Docs!Arguments
  <2>2. CASE args = "flat"
    <3>1. A = [i \in 1..Len(params) |-> <<"argument", i>>]
      BY <2>2 DEF Docs!Arguments
    <3>2. Len(params) \in Nat
      BY DEF ParamInv
    <3> QED BY <3>1, <3>2, IsASeq
  <2>3. CASE args = "struct"
    BY <2>3 DEF Docs!Arguments
  <2> QED BY <1>1, <2>1, <2>2, <2>3
<1> HIDE DEF A
<1>3. ASSUME NEW x \in P
      PROVE  <<x>> \o A \in Seq(P) /\ Head(<<x>> \o A) = x /\ Tail(<<x>> \o A) = A
  BY <1>2
<1>4. A = <<>> => \A x \in P : <<x>> \o A = <<x>>
  OBVIOUS
<1>5. Docs!Self \in P /\ Docs!Connection \in P /\ Docs!Self # Docs!Connection
  BY DEF Docs!Self, Docs!Connection
<1>6. header.params = <<IF classes THEN Docs!Self ELSE Docs!Connection>> \o A
  BY DEF DocInv, A
<1>7. docstring.params = IF A = <<>> /\ classes THEN <<>>
                         ELSE (IF classes THEN <<>> ELSE <<Docs!Connection>>) \o A
  BY DEF DocInv, Docs!Parameters, A
<1>8. <<>> \o A = A
  BY <1>2, ConcatEmptySeq
<1>9. docstring.params = IF Head(header.params) = Docs!Self THEN Tail(header.params) ELSE header.params
  <2>1. CASE classes
    BY <1>3, <1>5, <1>6, <1>7, <1>8, <2>1
  <2>2. CASE ~classes
    BY <1>3, <1>5, <1>6, <1>7, <1>8, <2>2
  <2> QED BY <2>1, <2>2
<1> QED BY <1>9 DEF DocInv, Documentable

\* A docstring lists the parameters of the header it follows, and its result
\* (the WriteQueryFunctionDocstring of docstrings.go and the writers' headers).
THEOREM SignatureIsDocumented == Spec => []DocumentsSignature
<1> QED BY ParamInit, ParamStep, DocInit, DocStep, DocInvDocuments, PTL DEF Spec

-----------------------------------------------------------------------------
(* The types. *)

\* The number of the first override that applies to a column, and of the first
\* nullability override that matches it.
FirstOf(I) == IF I # {} THEN CHOOSE x \in I : \A y \in I : x =< y ELSE 0

FirstOverride(c) == FirstOf({i \in 1..Len(overrides) : Types!Applies(overrides[i], c)})

FirstNullability(c) ==
  FirstOf({i \in 1..Len(nullabilities) : Types!NullabilityMatches(nullabilities[i], c)})

LEMMA PythonTypeIs ==
  ASSUME NEW c
  PROVE  Types!PythonType(c) =
           [type     |-> IF FirstOverride(c) = 0 THEN c.dbType ELSE overrides[FirstOverride(c)].type,
            nullable |-> IF FirstNullability(c) = 0 THEN ~c.notNull
                         ELSE nullabilities[FirstNullability(c)].nullable,
            override |-> FirstOverride(c)]
BY DEF Types!PythonType, Types!SelectInSeq, Types!Min, FirstOverride, FirstNullability, FirstOf

LEMMA FirstOfRange ==
  ASSUME NEW n \in Nat, NEW I, I \subseteq 1..n
  PROVE  FirstOf(I) \in 0..n
<1>1. CASE I = {}
  BY <1>1 DEF FirstOf
<1>2. CASE I # {}
  <2>1. \E x \in I : \A y \in I : x =< y
    BY <1>2, SmallestOf, I \subseteq Nat
  <2>2. FirstOf(I) = CHOOSE x \in I : \A y \in I : x =< y
    BY <1>2 DEF FirstOf
  <2>3. FirstOf(I) \in I
    BY <2>1, <2>2, Zenon
  <2>4. FirstOf(I) \in 1..n
    BY <2>3, Zenon
  <2> QED BY <2>4
<1> QED BY <1>1, <1>2

LEMMA FirstOverrideRange ==
  ASSUME NEW c, overrides \in Seq(OverrideSpecs)
  PROVE  FirstOverride(c) \in 0..Len(overrides)
BY FirstOfRange, Len(overrides) \in Nat DEF FirstOverride

LEMMA FirstNullabilityRange ==
  ASSUME NEW c, nullabilities \in Seq(NullabilitySpecs)
  PROVE  FirstNullability(c) \in 0..Len(nullabilities)
BY FirstOfRange, Len(nullabilities) \in Nat DEF FirstNullability

\* The empty string is none of the names the proofs look at.  They leave it
\* unexpanded: the provers do not take it as a constant.
LEMMA AbsentNames == Types!Absent \notin {"a", "b", "t", "public", "jsonb"}
BY Zenon DEF Types!Absent

\* The lists are accepted before a type is made; the types are the ones that
\* makePythonType gives, and the import is the one that is written last.
TypesInv ==
  /\ overrides \in Seq(OverrideSpecs) /\ nullabilities \in Seq(NullabilitySpecs)
  /\ column.table.catalog = Types!Absent
  /\ column.original = "a" =>
       column.dbType = "jsonb" /\ column.table.name = "t" /\ Types!Schema(column.table) = Types!Default
  /\ types \in {"options", "refused", "ready", "table", "query", "imported"}
  /\ types \notin {"options", "refused"} => Types!OptionsAccepted
  /\ field = IF types \in {"table", "query", "imported"} THEN Types!PythonType(Types!TableColumn) ELSE Types!None
  /\ ret = IF types \in {"query", "imported"} THEN Types!PythonType(column) ELSE Types!None
  /\ reuses <=> /\ types \in {"query", "imported"}
                 /\ column.name = "a" /\ ret.type = field.type
                 /\ column.table.name = "t" /\ Types!Schema(column.table) = Types!Default
  /\ binds = IF types = "imported" THEN Types!Module ELSE Types!Absent

LEMMA TypesInit == Init => TypesInv
<1> SUFFICES ASSUME Init PROVE TypesInv
  OBVIOUS
<1> USE DEF TypesInv, Types!Column, Types!Table, Types!Default
<1>1. CASE NoOptions
  <2> USE <1>1 DEF NoOptions, Types!TableColumn
  <2>1. /\ types = "options" /\ reuses = FALSE /\ binds = Types!Absent
        /\ overrides = <<>> /\ nullabilities = <<>>
        /\ field = Types!None /\ ret = Types!None
    BY DEF NoOptions
  <2>2. column.table.catalog = Types!Absent /\ column.original # "a"
    BY AbsentNames
  <2> QED BY <2>1, <2>2
<1>2. CASE TypesVary
  <2> USE <1>2 DEF TypesVary, Types!Init
  <2>1. overrides \in Seq(OverrideSpecs) /\ nullabilities \in Seq(NullabilitySpecs)
    <3>1. MaxSpecs \in Nat
      BY Bounds
    <3> QED BY <3>1, SeqDef DEF Types!Lists
  <2>2. column \in Types!QueryColumns
    OBVIOUS
  <2>3. /\ column.table.catalog = Types!Absent
        /\ column.original = "a" => /\ column.dbType = "jsonb" /\ column.table.name = "t"
                                    /\ Types!Schema(column.table) = "public"
    <3>1. CASE column \in {Types!Column(n, "a", Types!Table(s, "t"), "jsonb", nn) :
                              n \in {"a", "b"}, s \in {Types!Absent, "public"}, nn \in BOOLEAN}
      <4>1. PICK n \in {"a", "b"}, s \in {Types!Absent, "public"}, nn \in BOOLEAN :
              column = Types!Column(n, "a", Types!Table(s, "t"), "jsonb", nn)
        BY <3>1
      <4>2. column.table = Types!Table(s, "t") /\ column.dbType = "jsonb"
        BY <4>1
      <4> QED BY <4>2 DEF Types!Schema
    <3>2. CASE column \in {Types!Column("a", o, tb, d, FALSE) :
                              o \in {Types!Absent, "b"},
                              tb \in {Types!NoTable, Types!Table(Types!Absent, "t"), Types!Table("other", "t"), Types!Table(Types!Absent, "u")},
                              d \in {"jsonb", "text"}}
      BY <3>2, AbsentNames DEF Types!NoTable
    <3> QED BY <2>2, <3>1, <3>2 DEF Types!QueryColumns
  <2> QED BY <2>1, <2>3
<1> QED BY <1>1, <1>2 DEF Init, ArgumentsVary, StatementVaries, RowsVary, DocstringsVary

LEMMA TypesStepInv == TypesInv /\ [Next]_vars => TypesInv'
<1> SUFFICES ASSUME TypesInv, [Next]_vars PROVE TypesInv'
  OBVIOUS
<1>1. /\ UNCHANGED driver
      /\ TypesStep \/ UNCHANGED typeVars
  BY PartSteps DEF query
<1>2. UNCHANGED <<overrides, nullabilities, tableNotNull, column>>
  BY <1>1 DEF TypesStep, typeVars, Types!input, Types!Configure, Types!BuildTable, Types!BuildQuery, Types!ImportType
<1>a. UNCHANGED Types!OptionsAccepted
  BY <1>1, <1>2 DEF Types!OptionsAccepted, Types!KnobAccepted, Types!OverrideAccepted, Types!NullabilityAccepted
<1>b. ASSUME NEW c PROVE UNCHANGED <<FirstOverride(c), FirstNullability(c)>>
  BY <1>2 DEF FirstOverride, FirstNullability
<1>c. UNCHANGED <<Types!PythonType(column), Types!PythonType(Types!TableColumn)>>
  BY <1>2, <1>b DEF Types!PythonType, Types!SelectInSeq, Types!Min, Types!TableColumn
<1>d. UNCHANGED ret => UNCHANGED Types!Module
  BY <1>2 DEF Types!Module, Types!LastNamed
<1>3. /\ UNCHANGED <<Types!OptionsAccepted, Types!PythonType(column), Types!PythonType(Types!TableColumn)>>
      /\ UNCHANGED ret => UNCHANGED Types!Module
  BY <1>a, <1>c, <1>d
<1>4. CASE UNCHANGED typeVars
  BY <1>2, <1>3, <1>4 DEF TypesInv, typeVars
<1>5. CASE Types!Configure
  BY <1>2, <1>3, <1>5 DEF TypesInv, Types!Configure
<1>6. CASE Types!BuildTable
  BY <1>2, <1>3, <1>6 DEF TypesInv, Types!BuildTable
<1>7. CASE Types!BuildQuery
  BY <1>2, <1>3, <1>7 DEF TypesInv, Types!BuildQuery, Types!TableColumn, Types!Column
<1>8. CASE Types!ImportType
  BY <1>2, <1>3, <1>8 DEF TypesInv, Types!ImportType
<1> QED BY <1>1, <1>4, <1>5, <1>6, <1>7, <1>8 DEF TypesStep

\* An override applies to a column of the source as it applies to the source.
LEMMA SourceApplies ==
  ASSUME TypesInv, column.original = "a", NEW o
  PROVE  Types!Applies(o, column) <=> Types!Applies(o, Types!TableColumn)
<1>1. Types!SourceName(column) = "a" /\ Types!SourceName(Types!TableColumn) = "a"
  BY AbsentNames DEF Types!SourceName, Types!TableColumn, Types!Column
<1>2. /\ column.table # Types!NoTable /\ column.table.catalog = Types!Absent /\ column.table.name = "t"
      /\ Types!Schema(column.table) = "public"
  BY AbsentNames DEF TypesInv, Types!NoTable, Types!Table, Types!Default
<1>3. /\ Types!TableColumn.table # Types!NoTable /\ Types!TableColumn.table.catalog = Types!Absent
      /\ Types!TableColumn.table.name = "t" /\ Types!Schema(Types!TableColumn.table) = "public"
      /\ Types!TableColumn.dbType = "jsonb"
  BY AbsentNames DEF Types!TableColumn, Types!Column, Types!Table, Types!NoTable, Types!Schema, Types!Default
<1>4. Types!OverrideMatches(o, column.table) <=> Types!OverrideMatches(o, Types!TableColumn.table)
  BY <1>2, <1>3 DEF Types!OverrideMatches
<1> QED BY <1>1, <1>3, <1>4 DEF Types!Applies, TypesInv

LEMMA TypesInvFollow == TypesInv => TypeFollowsSource
<1> SUFFICES ASSUME TypesInv, types \in {"query", "imported"}, column.original = "a"
             PROVE  /\ ret.type = field.type /\ ret.override = field.override
                    /\ column.name = "a" => reuses
  BY DEF TypeFollowsSource, Types!TypeFollowsSource
<1>1. FirstOverride(column) = FirstOverride(Types!TableColumn)
  <2>1. {i \in 1..Len(overrides) : Types!Applies(overrides[i], column)}
          = {i \in 1..Len(overrides) : Types!Applies(overrides[i], Types!TableColumn)}
    BY SourceApplies, Zenon
  <2> QED BY <2>1, Zenon DEF FirstOverride
<1>2. column.dbType = Types!TableColumn.dbType
  BY DEF TypesInv, Types!TableColumn, Types!Column
<1>3. ret.type = field.type /\ ret.override = field.override
  BY <1>1, <1>2, PythonTypeIs DEF TypesInv
<1> QED BY <1>3 DEF TypesInv

\* A nullability override of a column that keeps its name and table is the one of
\* the source.
LEMMA SourceNullability ==
  ASSUME TypesInv, reuses
  PROVE  FirstNullability(column) = FirstNullability(Types!TableColumn)
<1>1. /\ column.name = "a" /\ column.table.name = "t" /\ column.table # Types!NoTable
      /\ Types!Schema(column.table) = "public"
  BY AbsentNames DEF TypesInv, Types!NoTable, Types!Table, Types!Default
<1>2. /\ Types!TableColumn.name = "a" /\ Types!TableColumn.table.name = "t"
      /\ Types!TableColumn.table # Types!NoTable /\ Types!Schema(Types!TableColumn.table) = "public"
  BY AbsentNames DEF Types!TableColumn, Types!Column, Types!Table, Types!NoTable, Types!Schema, Types!Default
<1>3. ASSUME NEW n
      PROVE  Types!NullabilityMatches(n, column) <=> Types!NullabilityMatches(n, Types!TableColumn)
  BY <1>1, <1>2 DEF Types!NullabilityMatches
<1>4. {i \in 1..Len(nullabilities) : Types!NullabilityMatches(nullabilities[i], column)}
        = {i \in 1..Len(nullabilities) : Types!NullabilityMatches(nullabilities[i], Types!TableColumn)}
  BY <1>3, Zenon
<1> QED BY <1>4, Zenon DEF FirstNullability

LEMMA TypesInvReuse == TypesInv => ReuseKeepsNullability
<1> SUFFICES ASSUME TypesInv, reuses, column.notNull = tableNotNull
             PROVE  ret.nullable = field.nullable
  BY DEF ReuseKeepsNullability, Types!ReuseKeepsNullability
<1>1. types \in {"query", "imported"}
  BY DEF TypesInv
<1>2. Types!TableColumn.notNull = tableNotNull
  BY DEF Types!TableColumn, Types!Column
<1> QED BY <1>1, <1>2, SourceNullability, PythonTypeIs DEF TypesInv

\* The last override of those that have the name of the type.
LEMMA LastNamedIs ==
  ASSUME TypesInv, NEW S, NEW k \in 1..Len(overrides), overrides[k].type = ret.type, overrides[k] \in S
  PROVE  \E i \in 1..Len(overrides) :
           overrides[i].type = ret.type /\ overrides[i] \in S /\ Types!LastNamed(S) = overrides[i].module
<1> DEFINE named == {i \in 1..Len(overrides) : overrides[i].type = ret.type /\ overrides[i] \in S}
<1>1. Len(overrides) \in Nat
  BY DEF TypesInv
<1>2. k \in named /\ named \subseteq 0..Len(overrides)
  BY <1>1
<1>3. \E i \in named : \A j \in named : j <= i
  BY <1>1, <1>2, LargestOf
<1>4. Types!LastNamed(S) = overrides[CHOOSE i \in named : \A j \in named : j <= i].module
  BY <1>2 DEF Types!LastNamed
<1>5. (CHOOSE i \in named : \A j \in named : j <= i) \in named
  BY <1>3, Zenon
<1> QED BY <1>4, <1>5

LEMMA TypesInvValidated == TypesInv => ValidatedTypeBound
<1> SUFFICES ASSUME TypesInv, types = "imported", ret.override # 0, overrides[ret.override].validate
             PROVE  binds = overrides[ret.override].module
  BY DEF ValidatedTypeBound, Types!ValidatedTypeBound
<1> DEFINE k == ret.override
           S == {o \in OverrideSpecs : o.validate}
<1>1. k \in 1..Len(overrides) /\ overrides[k].type = ret.type
  <2>1. ret = Types!PythonType(column) /\ overrides \in Seq(OverrideSpecs)
    BY DEF TypesInv
  <2>2. k = FirstOverride(column)
    BY <2>1, PythonTypeIs
  <2>3. ret.type = IF FirstOverride(column) = 0 THEN column.dbType ELSE overrides[FirstOverride(column)].type
    BY <2>1, PythonTypeIs
  <2>4. FirstOverride(column) \in 0..Len(overrides)
    BY <2>1, FirstOverrideRange
  <2> QED BY <2>1, <2>2, <2>3, <2>4
<1>2. overrides[k] \in S
  BY <1>1 DEF TypesInv
<1>3. binds = Types!LastNamed(S)
  BY DEF TypesInv, Types!Module
<1> HIDE DEF S
<1>4. PICK i \in 1..Len(overrides) :
        overrides[i].type = ret.type /\ overrides[i] \in S /\ Types!LastNamed(S) = overrides[i].module
  BY <1>1, <1>2, LastNamedIs
<1>5. Types!KnobAccepted(overrides)
  BY DEF TypesInv, Types!OptionsAccepted
<1> QED BY <1>1, <1>3, <1>4, <1>5 DEF Types!KnobAccepted, S

\* A column keeps the type and the override of its source, so that a plain result
\* is the model, for every list of overrides (makePythonType, buildQueries).
THEOREM TypesFollow == Spec => []TypeFollowsSource
<1> QED BY TypesInit, TypesStepInv, TypesInvFollow, PTL DEF Spec

\* A model that is given to a result says of NULL what the query says, for every
\* list of nullability overrides (applyNullabilityOverride, buildQueries).
THEOREM ReuseIsNullable == Spec => []ReuseKeepsNullability
<1> QED BY TypesInit, TypesStepInv, TypesInvReuse, PTL DEF Spec

\* The adapter of a validated column is bound to the module of its own override
\* (validateValidateKnob, queryImports).
THEOREM AdaptersAreBound == Spec => []ValidatedTypeBound
<1> QED BY TypesInit, TypesStepInv, TypesInvValidated, PTL DEF Spec

-----------------------------------------------------------------------------
(* The rows. *)

\* What a field can be with the driver, and the types of each column.
Fields == {t \in Rows!FieldType : Rows!Possible(driver, t)}
Results == [embed : BOOLEAN, types : Seq(Fields)]
RowTypes == [i \in 1..Len(columns) |-> columns[i].types]

\* The positions of the first columns of the result, by their number.
PositionsUpto == CHOOSE f : Concatenates(f, RowTypes, Fields)

\* What a query returns.
ResultInv ==
  /\ columns \in Seq(Results)
  /\ shape \in {"struct", "scalar", "array"}
  /\ shape # "struct" => Len(columns) = 1 /\ Len(columns[1].types) = 1

\* The expressions of the columns before next.
StructReads == [p \in 1..rowIdx |-> Rows!FieldRead(PositionsUpto[next - 1][p], p - 1)]
ScalarReads == IF next = 1 THEN <<>> ELSE <<Rows!ScalarRead(columns[1].types[1])>>

\* Each field holds what its expression gives for the row.
Decoded ==
  /\ Len(fields) = Len(reads)
  /\ \A k \in 1..Len(reads) : fields[k] \in Rows!Decode(reads[k], row)

\* The writer has given each position of the columns before next its expression;
\* once all are written the module has the adapters of the validated ones, and what
\* a field holds is what its expression gives for the row.
RowsInv ==
  /\ ResultInv
  /\ next \in 1..(Len(columns) + 1)
  /\ shape = "struct" =>
       /\ rowIdx = Len(PositionsUpto[next - 1])
       /\ reads = StructReads
  /\ shape # "struct" =>
       /\ rowIdx = next - 1
       /\ reads = ScalarReads
  /\ decoding \in {"writing", "written", "read", "no row"}
  /\ decoding = "writing" => adapters = {}
  /\ decoding # "writing" =>
       /\ next = Len(columns) + 1
       /\ adapters = IF driver = "sqlalchemy" THEN Rows!ValidatedResultTypes ELSE {}
  /\ decoding \in {"read", "no row"} => Rows!Loads
  /\ decoding = "read" =>
       /\ row \in [1..Len(Rows!Positions) -> {"NULL", "value"}]
       /\ \A p \in 1..Len(Rows!Positions) : row[p] = "NULL" => Rows!Positions[p].nullable
       /\ Decoded

LEMMA PositionsAre ==
  ASSUME ResultInv
  PROVE  /\ RowTypes \in Seq(Seq(Fields)) /\ Len(RowTypes) = Len(columns) /\ Len(columns) \in Nat
         /\ Concatenates(PositionsUpto, RowTypes, Fields)
         /\ Rows!Positions = PositionsUpto[Len(columns)]
<1>1. Len(columns) \in Nat /\ \A i \in 1..Len(columns) : columns[i].types \in Seq(Fields)
  <2>1. columns \in Seq(Results)
    BY DEF ResultInv
  <2>2. \A i \in 1..Len(columns) : columns[i] \in Results
    BY <2>1, ElementOfSeq
  <2> QED BY <2>1, <2>2, LenProperties DEF Results
<1>2. RowTypes \in Seq(Seq(Fields)) /\ Len(RowTypes) = Len(columns)
  <2> DEFINE S == Seq(Fields)
  <2>1. RowTypes \in [1..Len(columns) -> S]
    BY <1>1 DEF RowTypes
  <2> HIDE DEF S
  <2>2. RowTypes \in Seq(S) /\ Len(RowTypes) = Len(columns)
    BY <1>1, <2>1, SeqDef
  <2> QED BY <2>2 DEF S
<1>3. Concatenates(PositionsUpto, RowTypes, Fields)
  BY <1>2, ConcatenationExists, Zenon DEF PositionsUpto
<1>4. Rows!Positions = FlattenSeq(RowTypes)
  BY Zenon DEF Rows!Positions, Rows!FlattenSeq, FlattenSeq, RowTypes
<1> QED BY <1>1, <1>2, <1>3, <1>4, FlattenConcatenates

LEMMA PositionsTyped ==
  ASSUME ResultInv, NEW i \in 0..Len(columns)
  PROVE  /\ PositionsUpto[i] \in Seq(Fields) /\ Len(PositionsUpto[i]) \in Nat
         /\ Len(PositionsUpto[i]) <= Len(Rows!Positions)
         /\ i # 0 => PositionsUpto[i] = PositionsUpto[i - 1] \o columns[i].types
<1>1. /\ Len(RowTypes) = Len(columns) /\ Len(columns) \in Nat /\ RowTypes \in Seq(Seq(Fields))
      /\ Concatenates(PositionsUpto, RowTypes, Fields)
      /\ Rows!Positions = PositionsUpto[Len(columns)]
  BY PositionsAre
<1>2. PositionsUpto[i] \in Seq(Fields)
  BY <1>1 DEF Concatenates
<1>3. Len(PositionsUpto[i]) <= Len(PositionsUpto[Len(columns)])
  <2>1. i \in 0..Len(RowTypes) /\ Len(columns) \in i..Len(RowTypes)
    BY <1>1
  <2> QED BY <1>1, <2>1, ConcatenationGrows
<1>4. ASSUME i # 0 PROVE PositionsUpto[i] = PositionsUpto[i - 1] \o columns[i].types
  <2>1. i \in 1..Len(RowTypes) /\ RowTypes[i] = columns[i].types
    BY <1>1, <1>4 DEF RowTypes
  <2> QED BY <1>1, <2>1 DEF Concatenates
<1> QED BY <1>1, <1>2, <1>3, <1>4, LenProperties

\* Before any column is written.
LEMMA NoPositions == ResultInv => PositionsUpto[0] = <<>>
BY PositionsAre DEF Concatenates

-----------------------------------------------------------------------------

LEMMA ResultOfOne ==
  ASSUME NEW t \in Fields, ResultOf(t)
  PROVE  ResultInv
<1>1. CASE ReturnsRows
  <2>1. <<t>> \in Seq(Fields) /\ Len(<<t>>) = 1
    OBVIOUS
  <2>2. [embed |-> FALSE, types |-> <<t>>] \in Results
    BY <2>1 DEF Results
  <2> HIDE DEF Fields
  <2>3. columns \in Seq(Results)
    BY <1>1, <2>2 DEF ResultOf
  <2> QED BY <2>3 DEF ResultInv, ResultOf
<1>2. CASE ~ReturnsRows
  BY <1>2 DEF ResultInv, ResultOf
<1> QED BY <1>1, <1>2

LEMMA RowsInit ==
  Init => RowsInv
<1> SUFFICES ASSUME Init PROVE RowsInv
  OBVIOUS
<1>1. ASSUME ResultInv, next = 1, rowIdx = 0, reads = <<>>,
             adapters = {}, decoding = "writing"
      PROVE  RowsInv
  <2>1. PositionsUpto[next - 1] = <<>>
    BY <1>1, NoPositions
  <2>2. Len(columns) \in Nat
    BY <1>1, PositionsAre
  <2>3. reads = ScalarReads /\ (rowIdx = Len(PositionsUpto[next - 1]) /\ reads = StructReads)
    BY <1>1, <2>1 DEF ScalarReads, StructReads
  <2> QED BY <1>1, <2>1, <2>2, <2>3 DEF RowsInv
<1>2. ASSUME NEW t \in Fields, ResultOf(t) PROVE RowsInv
  BY <1>1, <1>2, ResultOfOne DEF ResultOf
<1>3. ASSUME PlainResult PROVE RowsInv
  <2>1. [override |-> "none", byTable |-> FALSE, nullable |-> FALSE] \in Fields
    BY DEF Fields, Rows!FieldType, Rows!Possible
  <2> QED BY <1>2, <1>3, <2>1 DEF PlainResult
<1>4. CASE RowsVary
  <2> USE <1>4 DEF RowsVary, Rows!Init
  <2>1. PICK n \in 1..MaxColumns : columns \in [1..n -> Rows!Columns(driver)]
    OBVIOUS
  <2>2. MaxColumns \in Nat /\ MaxEmbedded \in Nat
    BY Bounds
  <2>3. ASSUME NEW c \in Rows!Columns(driver)
        PROVE  c \in Results /\ (~c.embed => Len(c.types) = 1)
    <3>1. PICK m \in 1..MaxEmbedded : c.types \in [1..m -> Rows!FieldType]
      BY DEF Rows!Columns, Rows!Column
    <3>2. m \in Nat /\ c.types \in Seq(Rows!FieldType) /\ Len(c.types) = m
      BY <2>2, <3>1, SeqDef
    <3>3. \A i \in 1..m : c.types[i] \in Fields
      BY <3>1, <3>2 DEF Rows!Columns, Fields
    <3>4. c.types \in [1..m -> Fields]
      BY <3>1, <3>3
    <3>5. c.types \in Seq(Fields)
      BY <3>2, <3>4, SeqDef
    <3>6. c \in [embed : BOOLEAN, types : UNION {[1..k -> Rows!FieldType] : k \in 1..MaxEmbedded}]
      BY DEF Rows!Columns, Rows!Column
    <3> QED BY <3>5, <3>6 DEF Rows!Columns, Rows!Plain, Results
  <2>4. n \in Nat /\ columns \in [1..n -> Results]
    BY <2>1, <2>2, <2>3
  <2>5. columns \in Seq(Results) /\ Len(columns) = n
    BY <2>4, SeqDef
  <2>6. /\ shape \in {"struct", "scalar", "array"}
        /\ shape # "struct" => Len(columns) = 1 /\ ~columns[1].embed
    <3>1. shape \in Rows!Shapes(driver, columns)
      OBVIOUS
    <3> QED BY <3>1 DEF Rows!Shapes
  <2>7. shape # "struct" => Len(columns[1].types) = 1
    BY <2>1, <2>3, <2>5, <2>6
  <2>8. ResultInv
    BY <2>5, <2>6, <2>7 DEF ResultInv
  <2> QED BY <1>1, <2>8
<1>5. CASE TypesVary
  <2>1. CASE ~Types!OptionsAccepted
    BY <1>3, <1>5, <2>1 DEF TypesVary, TypedResult
  <2>2. CASE Types!OptionsAccepted
    <3> DEFINE t == Types!PythonType(column)
               f == [override |-> IF t.override = 0 THEN "none"
                                  ELSE IF overrides[t.override].validate THEN "validated" ELSE "type",
                     byTable |-> FALSE, nullable |-> t.nullable]
    <3>1. ResultOf(f)
      BY <1>5, <2>2 DEF TypesVary, TypedResult
    <3>2. TypesInv
      BY TypesInit
    <3>3. overrides \in Seq(OverrideSpecs) /\ nullabilities \in Seq(NullabilitySpecs)
      BY <3>2 DEF TypesInv
    <3>4. t.override = FirstOverride(column) /\ FirstOverride(column) \in 0..Len(overrides)
      BY <3>3, PythonTypeIs, FirstOverrideRange
    <3>5. t.nullable \in BOOLEAN
      <4>1. t.nullable = IF FirstNullability(column) = 0 THEN ~column.notNull
                         ELSE nullabilities[FirstNullability(column)].nullable
        BY PythonTypeIs
      <4>2. FirstNullability(column) \in 0..Len(nullabilities)
        BY <3>3, FirstNullabilityRange
      <4>3. CASE FirstNullability(column) = 0
        BY <4>1, <4>3, Zenon
      <4>4. CASE FirstNullability(column) # 0
        <5>1. nullabilities[FirstNullability(column)] \in NullabilitySpecs
          BY <3>3, <4>2, <4>4
        <5> QED BY <4>1, <4>4, <5>1, SpecTypes
      <4> QED BY <4>3, <4>4
    <3> HIDE DEF t
    <3>6. ASSUME f.override = "validated" PROVE driver = "sqlalchemy"
      <4>1. t.override \in 1..Len(overrides) /\ overrides[t.override].validate
        BY <3>3, <3>4, <3>6
      <4> QED BY <2>2, <4>1 DEF Types!OptionsAccepted, Types!KnobAccepted
    <3>7. f \in Rows!FieldType
      BY <3>5 DEF Rows!FieldType
    <3> HIDE DEF f
    <3>8. f.byTable = FALSE
      BY DEF f
    <3>9. f \in Fields
      BY <3>6, <3>7, <3>8 DEF Fields, Rows!Possible
    <3> QED BY <1>2, <3>1, <3>9 DEF f
  <2> QED BY <2>1, <2>2
<1>6. CASE ArgumentsVary \/ StatementVaries \/ DocstringsVary
  BY <1>3, <1>6 DEF ArgumentsVary, StatementVaries, DocstringsVary
<1> QED BY <1>4, <1>5, <1>6 DEF Init

\* Once all columns are written there is one expression for each position.
LEMMA WrittenReads ==
  ASSUME RowsInv, next = Len(columns) + 1
  PROVE  /\ Rows!Positions \in Seq(Fields) /\ Len(Rows!Positions) \in Nat
         /\ Len(reads) = Len(Rows!Positions)
         /\ \A k \in 1..Len(reads) :
              reads[k] = IF shape = "struct" THEN Rows!FieldRead(Rows!Positions[k], k - 1)
                         ELSE Rows!ScalarRead(Rows!Positions[k])
         /\ shape # "struct" => Len(reads) = 1
<1>1. ResultInv
  BY DEF RowsInv
<1>2. Len(columns) \in Nat /\ Rows!Positions = PositionsUpto[Len(columns)]
  BY <1>1, PositionsAre
<1>3. Rows!Positions \in Seq(Fields) /\ Len(Rows!Positions) \in Nat
  <2>1. Len(columns) \in 0..Len(columns)
    BY <1>2
  <2> QED BY <1>1, <1>2, <2>1, PositionsTyped
<1>4. CASE shape = "struct"
  <2>1. next - 1 = Len(columns)
    BY <1>2
  <2>2. rowIdx = Len(Rows!Positions) /\ reads = StructReads
    BY <1>2, <1>4, <2>1 DEF RowsInv
  <2>3. reads = [p \in 1..Len(Rows!Positions) |-> Rows!FieldRead(Rows!Positions[p], p - 1)]
    BY <1>2, <2>1, <2>2 DEF StructReads
  <2>4. Len(reads) = Len(Rows!Positions)
    BY <1>3, <2>3
  <2> QED BY <1>3, <1>4, <2>3, <2>4
<1>5. CASE shape # "struct"
  <2>1. Len(columns) = 1 /\ Len(columns[1].types) = 1
    BY <1>1, <1>5 DEF ResultInv
  <2>2. reads = <<Rows!ScalarRead(columns[1].types[1])>>
    <3>1. reads = ScalarReads
      BY <1>5 DEF RowsInv
    <3>2. next # 1
      BY <2>1
    <3> QED BY <3>1, <3>2 DEF ScalarReads
  <2>3. PositionsUpto[1] = <<>> \o columns[1].types
    <3>1. 1 \in 0..Len(columns) /\ 1 # 0 /\ 1 - 1 = 0
      BY <2>1
    <3>2. PositionsUpto[1] = PositionsUpto[0] \o columns[1].types
      BY <1>1, <3>1, PositionsTyped
    <3> QED BY <1>1, <3>2, NoPositions
  <2>4. columns[1].types \in Seq(Fields)
    <3>1. columns \in Seq(Results) /\ 1 \in 1..Len(columns)
      BY <1>1, <2>1 DEF ResultInv
    <3>2. columns[1] \in Results
      BY <3>1, ElementOfSeq
    <3> QED BY <3>2 DEF Results
  <2>5. Rows!Positions = columns[1].types
    BY <1>2, <2>1, <2>3, <2>4, ConcatEmptySeq
  <2> QED BY <1>3, <1>5, <2>1, <2>2, <2>5
<1> QED BY <1>1, <1>4, <1>5 DEF ResultInv

LEMMA RowsStepInv == RowsInv /\ [Next]_vars => RowsInv'
<1> SUFFICES ASSUME RowsInv, [Next]_vars PROVE RowsInv'
  OBVIOUS
<1>1. driver' = driver /\ (RowsStep \/ UNCHANGED rowVars)
  BY PartSteps DEF query
<1>2. UNCHANGED <<shape, columns>>
  BY <1>1 DEF rowVars, RowsStep, Rows!WriteColumn, Rows!WriteScalar, Rows!DeclareAdapters,
              Rows!ReadRow, Rows!NoRow, Rows!input
<1>3. /\ UNCHANGED <<Fields, Results, RowTypes, PositionsUpto, Rows!Positions>>
      /\ UNCHANGED Rows!ValidatedResultTypes
  BY <1>1, <1>2 DEF Fields, Results, RowTypes, PositionsUpto, Rows!Positions, Rows!ValidatedResultTypes
<1>4. ResultInv'
  BY <1>2, <1>3 DEF ResultInv, RowsInv
<1>5. UNCHANGED <<next, rowIdx>> => UNCHANGED <<StructReads, ScalarReads>>
  BY <1>1, <1>2, <1>3 DEF StructReads, ScalarReads, Rows!FieldRead, Rows!ScalarRead, Rows!Reads
<1>6. /\ UNCHANGED <<reads, adapters, row, fields>> => UNCHANGED Decoded
      /\ UNCHANGED reads => UNCHANGED Rows!Loads
  BY DEF Decoded, Rows!Decode, Rows!AdapterDeclared, Rows!Loads
<1>7. CASE UNCHANGED rowVars
  <2>1. UNCHANGED <<shape, columns, next, rowIdx, reads, adapters, row, fields, decoding>>
    BY <1>7 DEF rowVars
  <2>2. /\ UNCHANGED <<StructReads, ScalarReads, Decoded, Rows!Loads, Rows!Positions>>
        /\ UNCHANGED <<Rows!ValidatedResultTypes, PositionsUpto>>
    BY <1>3, <1>5, <1>6, <2>1
  <2> QED BY <1>1, <1>4, <2>1, <2>2 DEF RowsInv
<1>8. CASE Rows!WriteColumn
  <2> DEFINE upto == PositionsUpto[next - 1]
             own == columns[next].types
  <2>1. /\ shape = "struct" /\ decoding = "writing" /\ next \in 1..Len(columns)
        /\ reads' = reads \o [k \in 1..Len(own) |-> Rows!FieldRead(own[k], rowIdx + k - 1)]
        /\ rowIdx' = rowIdx + Len(own)
        /\ next' = next + 1 /\ UNCHANGED <<adapters, row, fields, decoding>>
    BY <1>8, PositionsAre DEF Rows!WriteColumn, RowsInv
  <2>2. /\ PositionsUpto[next] = upto \o own
        /\ upto \in Seq(Fields) /\ own \in Seq(Fields)
    <3>1. next \in 0..Len(columns) /\ next - 1 \in 0..Len(columns) /\ next # 0
      BY <2>1
    <3>2. columns[next] \in Results
      <4>1. columns \in Seq(Results) /\ next \in 1..Len(columns)
        BY <2>1 DEF RowsInv, ResultInv
      <4> QED BY <4>1, ElementOfSeq
    <3> QED BY <3>1, <3>2, PositionsTyped DEF RowsInv, Results
  <2>3. rowIdx = Len(upto) /\ reads = [p \in 1..Len(upto) |-> Rows!FieldRead(upto[p], p - 1)]
    <3>1. rowIdx = Len(upto) /\ reads = StructReads
      BY <2>1 DEF RowsInv
    <3> QED BY <3>1 DEF StructReads
  <2> HIDE DEF upto, own
  <2>4. /\ Len(upto) \in Nat /\ Len(own) \in Nat /\ Len(upto \o own) = Len(upto) + Len(own)
        /\ \A p \in 1..Len(upto) : (upto \o own)[p] = upto[p]
        /\ \A k \in 1..Len(own) : (upto \o own)[Len(upto) + k] = own[k]
    <3>1. Len(upto) \in Nat /\ Len(own) \in Nat
      BY <2>2, LenProperties
    <3>2. /\ Len(upto \o own) = Len(upto) + Len(own)
          /\ \A p \in 1..(Len(upto) + Len(own)) :
               (upto \o own)[p] = IF p <= Len(upto) THEN upto[p] ELSE own[p - Len(upto)]
      BY <2>2, ConcatProperties
    <3>3. ASSUME NEW k \in 1..Len(own) PROVE (upto \o own)[Len(upto) + k] = own[k]
      <4>1. /\ Len(upto) + k \in 1..(Len(upto) + Len(own)) /\ ~(Len(upto) + k <= Len(upto))
            /\ (Len(upto) + k) - Len(upto) = k
        BY <3>1
      <4> QED BY <3>2, <4>1
    <3> QED BY <3>1, <3>2, <3>3
  <2>5. reads' = [p \in 1..rowIdx' |-> Rows!FieldRead((upto \o own)[p], p - 1)]
    <3> DEFINE b == [k \in 1..Len(own) |-> Rows!FieldRead(own[k], rowIdx + k - 1)]
               c == [p \in 1..rowIdx' |-> Rows!FieldRead((upto \o own)[p], p - 1)]
               S == {c[p] : p \in DOMAIN c}
    <3>1. rowIdx' = Len(upto) + Len(own)
      BY <2>1, <2>3
    <3>2. \A p \in 1..Len(upto) : p \in 1..rowIdx' /\ c[p] = reads[p]
      BY <2>3, <2>4, <3>1
    <3>3. \A k \in 1..Len(own) : Len(upto) + k \in 1..rowIdx' /\ c[Len(upto) + k] = b[k]
      <4> SUFFICES ASSUME NEW k \in 1..Len(own)
                   PROVE  Len(upto) + k \in 1..rowIdx' /\ c[Len(upto) + k] = b[k]
        OBVIOUS
      <4>1. Len(upto) + k \in 1..rowIdx'
        BY <2>4, <3>1
      <4>2. c[Len(upto) + k] = Rows!FieldRead((upto \o own)[Len(upto) + k], (Len(upto) + k) - 1)
        BY <4>1
      <4>3. (upto \o own)[Len(upto) + k] = own[k] /\ rowIdx + k - 1 = (Len(upto) + k) - 1
        BY <2>3, <2>4
      <4> QED BY <4>1, <4>2, <4>3
    <3>4. DOMAIN c = 1..rowIdx' /\ c = [p \in 1..rowIdx' |-> c[p]]
      OBVIOUS
    <3>5. reads = [p \in 1..Len(upto) |-> reads[p]] /\ b = [k \in 1..Len(own) |-> b[k]]
      BY <2>3
    <3>6. reads' = reads \o b
      BY <2>1
    <3> HIDE DEF b, c
    <3>7. reads \in [1..Len(upto) -> S] /\ b \in [1..Len(own) -> S]
      BY <3>2, <3>3, <3>4, <3>5
    <3> HIDE DEF S
    <3>8. reads \in Seq(S) /\ Len(reads) = Len(upto) /\ b \in Seq(S) /\ Len(b) = Len(own)
      <4>1. \A n \in Nat : \A s \in [1..n -> S] : s \in Seq(S) /\ Len(s) = n
        OBVIOUS
      <4> QED BY <2>4, <3>7, <4>1
    <3>9. reads \o b = c
      <4>1. c \in [1..rowIdx' -> S] /\ rowIdx' \in Nat
        BY <2>4, <3>1, <3>4 DEF S
      <4>2. c \in Seq(S) /\ Len(c) = rowIdx'
        BY <4>1
      <4>3. Len(c) = Len(reads) + Len(b)
        BY <3>1, <3>8, <4>2
      <4>4. /\ \A p \in 1..Len(reads) : c[p] = reads[p]
            /\ \A k \in 1..Len(b) : c[Len(reads) + k] = b[k]
        BY <3>2, <3>3, <3>8
      <4> QED BY <3>8, <4>2, <4>3, <4>4, ConcatIs
    <3> QED BY <3>6, <3>9 DEF c
  <2>6. Len(columns) \in Nat
    BY PositionsAre DEF RowsInv
  <2>7. /\ next' \in 1..(Len(columns) + 1) /\ next' - 1 = next
        /\ PositionsUpto'[next' - 1] = upto \o own
    BY <1>3, <2>1, <2>2, <2>6
  <2>8. rowIdx' = Len(upto \o own)
    BY <2>1, <2>3, <2>4
  <2>9. reads' = StructReads'
    BY <1>1, <1>2, <2>5, <2>7 DEF StructReads, Rows!FieldRead, Rows!Reads
  <2> QED BY <1>1, <1>2, <1>3, <1>4, <2>1, <2>7, <2>8, <2>9 DEF RowsInv
<1>9. CASE Rows!WriteScalar
  <2>1. /\ shape # "struct" /\ decoding = "writing" /\ next = 1 /\ Len(columns) = 1
        /\ reads' = <<Rows!ScalarRead(columns[1].types[1])>>
        /\ rowIdx' = 1 /\ next' = 2 /\ UNCHANGED <<adapters, row, fields, decoding>>
    BY <1>9 DEF Rows!WriteScalar, RowsInv, ResultInv
  <2>2. reads' = ScalarReads'
    BY <1>1, <1>2, <2>1 DEF ScalarReads, Rows!ScalarRead, Rows!Reads
  <2> QED BY <1>1, <1>2, <1>3, <1>4, <2>1, <2>2 DEF RowsInv
<1>10. CASE Rows!DeclareAdapters
  <2>1. /\ decoding = "writing" /\ next > Len(columns) /\ decoding' = "written"
        /\ adapters' = IF driver = "sqlalchemy" THEN Rows!ValidatedResultTypes ELSE {}
        /\ UNCHANGED <<next, rowIdx, reads, row, fields>>
    BY <1>10 DEF Rows!DeclareAdapters
  <2>2. next = Len(columns) + 1
    BY <2>1, PositionsAre DEF RowsInv
  <2> QED BY <1>1, <1>2, <1>3, <1>4, <1>5, <2>1, <2>2 DEF RowsInv
<1>11. CASE Rows!ReadRow
  <2>1. /\ decoding = "written" /\ decoding' = "read" /\ Rows!Loads
        /\ row' \in [1..Len(Rows!Positions) -> {"NULL", "value"}]
        /\ \A p \in 1..Len(Rows!Positions) : row'[p] = "NULL" => Rows!Positions[p].nullable
        /\ fields' \in [1..Len(reads) -> UNION {Rows!Decode(reads[k], row') : k \in 1..Len(reads)}]
        /\ \A k \in 1..Len(reads) : fields'[k] \in Rows!Decode(reads[k], row')
        /\ UNCHANGED <<next, rowIdx, reads, adapters>>
    BY <1>11 DEF Rows!ReadRow
  <2>2. Len(reads) \in Nat
    <3>1. next = Len(columns) + 1
      BY <2>1 DEF RowsInv
    <3> QED BY <3>1, WrittenReads
  <2>3. Len(fields') = Len(reads)
    <3> DEFINE S == UNION {Rows!Decode(reads[k], row') : k \in 1..Len(reads)}
    <3>1. fields' \in [1..Len(reads) -> S]
      BY <2>1
    <3> HIDE DEF S
    <3> QED BY <2>2, <3>1
  <2>4. Decoded'
    BY <2>1, <2>3 DEF Decoded, Rows!Decode, Rows!AdapterDeclared
  <2> QED BY <1>1, <1>2, <1>3, <1>4, <1>5, <1>6, <2>1, <2>3, <2>4 DEF RowsInv
<1>12. CASE Rows!NoRow
  <2>1. /\ decoding = "written" /\ decoding' = "no row" /\ Rows!Loads
        /\ UNCHANGED <<next, rowIdx, reads, adapters, row, fields>>
    BY <1>12 DEF Rows!NoRow
  <2> QED BY <1>1, <1>2, <1>3, <1>4, <1>5, <1>6, <2>1 DEF RowsInv
<1> QED BY <1>1, <1>7, <1>8, <1>9, <1>10, <1>11, <1>12 DEF RowsStep

\* An expression: it reads its position, and where the writer asks for the guard a
\* nullable type has it.
LEMMA ExpressionIs ==
  ASSUME NEW t \in Fields, NEW n, NEW converts \in BOOLEAN, NEW guarded \in BOOLEAN
  PROVE  /\ Rows!Reads(t, n, converts, guarded).index = n
         /\ Rows!Reads(t, n, converts, guarded).call \in {"none", "type", "validate"}
         /\ Rows!Reads(t, n, converts, guarded).guard \in BOOLEAN
         /\ Rows!Reads(t, n, converts, guarded).call # "none" /\ guarded /\ t.nullable =>
              Rows!Reads(t, n, converts, guarded).guard
         /\ converts /\ t.override = "validated" => Rows!Reads(t, n, converts, guarded).call = "validate"
BY DEF Rows!Reads, Fields, Rows!FieldType

LEMMA FieldReadIs ==
  ASSUME NEW t \in Fields, NEW n
  PROVE  \E converts, guarded \in BOOLEAN :
           /\ Rows!FieldRead(t, n) = Rows!Reads(t, n, converts, guarded)
           /\ driver \in {"asyncpg", "sqlalchemy"} => guarded
           /\ t.override = "validated" => converts
<1> DEFINE converts == t.override # "none" \/ t.byTable
           guarded == driver \in {"asyncpg", "sqlalchemy"}
<1>1. converts \in BOOLEAN /\ guarded \in BOOLEAN
  OBVIOUS
<1>2. Rows!FieldRead(t, n) = Rows!Reads(t, n, converts, guarded)
  BY DEF Rows!FieldRead
<1> QED BY <1>1, <1>2

LEMMA ScalarReadIs ==
  ASSUME NEW t \in Fields
  PROVE  \E converts, guarded \in BOOLEAN :
           /\ Rows!ScalarRead(t) = Rows!Reads(t, 0, converts, guarded)
           /\ driver = "sqlalchemy" => guarded
           /\ t.override = "validated" => converts
<1> DEFINE converts == CASE driver = "sqlalchemy" -> t.override = "validated"
                         [] driver = "asyncpg"    -> t.byTable
                         [] OTHER                 -> t.override = "type"
           guarded == driver = "sqlalchemy"
<1>1. Rows!ScalarRead(t) = Rows!Reads(t, 0, converts, guarded)
  BY DEF Rows!ScalarRead
<1>2. converts \in BOOLEAN
  BY DEF Fields, Rows!FieldType
<1>3. t.override = "validated" => driver = "sqlalchemy"
  BY DEF Fields, Rows!Possible
<1>4. t.override = "validated" => converts
  BY <1>3
<1> HIDE DEF converts
<1> QED BY <1>1, <1>2, <1>4

\* What a field of a row that was read holds.
LEMMA FieldDecoded ==
  ASSUME RowsInv, decoding = "read", NEW k \in 1..Len(fields)
  PROVE  /\ Len(fields) = Len(Rows!Positions)
         /\ Rows!Positions[k] \in Fields
         /\ \E converts, guarded \in BOOLEAN :
              /\ reads[k] = Rows!Reads(Rows!Positions[k], k - 1, converts, guarded)
              /\ driver = "sqlalchemy" \/ (driver = "asyncpg" /\ shape = "struct") => guarded
              /\ Rows!Positions[k].override = "validated" => converts
         /\ row[k] \in {"NULL", "value"} /\ (row[k] = "NULL" => Rows!Positions[k].nullable)
         /\ fields[k] \in Rows!Decode(reads[k], row)
         /\ reads[k].call = "validate" => ~reads[k].wrapped
<1>1. next = Len(columns) + 1
  BY DEF RowsInv
<1>2. /\ Rows!Positions \in Seq(Fields) /\ Len(Rows!Positions) \in Nat
      /\ Len(reads) = Len(Rows!Positions)
      /\ \A i \in 1..Len(reads) :
           reads[i] = IF shape = "struct" THEN Rows!FieldRead(Rows!Positions[i], i - 1)
                      ELSE Rows!ScalarRead(Rows!Positions[i])
      /\ shape # "struct" => Len(reads) = 1
  BY <1>1, WrittenReads
<1>3. Len(fields) = Len(reads) /\ k \in 1..Len(reads) /\ fields[k] \in Rows!Decode(reads[k], row)
  BY DEF RowsInv, Decoded
<1>4. Rows!Positions[k] \in Fields
  BY <1>2, <1>3, ElementOfSeq
<1>5. row[k] \in {"NULL", "value"} /\ (row[k] = "NULL" => Rows!Positions[k].nullable)
  BY <1>2, <1>3 DEF RowsInv
<1>a. reads[k].call = "validate" => ~reads[k].wrapped
  BY <1>3 DEF RowsInv, Rows!Loads
<1>6. CASE shape = "struct"
  <2>1. reads[k] = Rows!FieldRead(Rows!Positions[k], k - 1)
    BY <1>2, <1>3, <1>6
  <2> QED BY <1>2, <1>3, <1>4, <1>5, <1>a, <2>1, FieldReadIs
<1>7. CASE shape # "struct"
  <2>1. k = 1 /\ reads[k] = Rows!ScalarRead(Rows!Positions[k])
    BY <1>2, <1>3, <1>7
  <2> QED BY <1>2, <1>3, <1>4, <1>5, <1>7, <1>a, <2>1, ScalarReadIs
<1> QED BY <1>6, <1>7 DEF RowsInv, ResultInv

\* The same of the value that was decoded.
LEMMA ValueDecoded ==
  ASSUME RowsInv, decoding = "read", NEW k \in 1..Len(fields)
  PROVE  /\ fields[k][2] = k - 1
         /\ row[k] = "NULL" /\ (driver = "sqlalchemy" \/ (driver = "asyncpg" /\ shape = "struct")) =>
              fields[k][1] = "NULL"
         /\ row[k] = "value" /\ Rows!Positions[k].override = "validated" /\ k \in adapters =>
              fields[k][1] \in {"validated", "refused"}
<1> DEFINE e == reads[k]
           t == Rows!Positions[k]
           guards == driver = "sqlalchemy" \/ (driver = "asyncpg" /\ shape = "struct")
<1>1. PICK converts \in BOOLEAN, guarded \in BOOLEAN :
        /\ e = Rows!Reads(t, k - 1, converts, guarded)
        /\ guards => guarded
        /\ t.override = "validated" => converts
  BY FieldDecoded
<1>2. /\ t \in Fields /\ row[k] \in {"NULL", "value"} /\ (row[k] = "NULL" => t.nullable)
      /\ fields[k] \in Rows!Decode(e, row)
      /\ e.call = "validate" => ~e.wrapped
  BY FieldDecoded
<1> HIDE DEF e, t, guards
<1>3. /\ e.index = k - 1 /\ e.call \in {"none", "type", "validate"} /\ e.guard \in BOOLEAN
      /\ e.call # "none" /\ guards /\ t.nullable => e.guard
      /\ t.override = "validated" => e.call = "validate"
  BY <1>1, <1>2, ExpressionIs
<1>4. e.index + 1 = k
  <2>1. k \in Nat
    OBVIOUS
  <2> QED BY <1>3, <2>1
<1>5. CASE e.call = "none"
  <2>1. fields[k] = <<row[k], e.index>>
    BY <1>2, <1>4, <1>5 DEF Rows!Decode
  <2> QED BY <1>3, <1>5, <2>1 DEF t
<1>6. CASE e.call # "none" /\ row[k] = "NULL"
  <2>1. fields[k] = IF e.guard THEN <<"NULL", e.index>> ELSE <<"CalledWithNone", e.index>>
    BY <1>2, <1>3, <1>4, <1>6 DEF Rows!Decode
  <2> QED BY <1>2, <1>3, <1>6, <2>1 DEF guards
<1>7. CASE e.call = "type" /\ row[k] = "value"
  <2>1. fields[k] = <<"converted", e.index>>
    BY <1>2, <1>4, <1>7 DEF Rows!Decode
  <2> QED BY <1>3, <1>7, <2>1 DEF t
<1>8. CASE e.call = "validate" /\ row[k] = "value"
  <2>1. fields[k] \in IF k \in adapters THEN {<<"validated", e.index>>, <<"refused", e.index>>}
                      ELSE {<<"NameError", e.index>>}
    BY <1>2, <1>4, <1>8 DEF Rows!Decode, Rows!AdapterDeclared
  <2> QED BY <1>3, <1>8, <2>1
<1>9. \/ e.call = "none"
      \/ e.call # "none" /\ row[k] = "NULL"
      \/ e.call = "type" /\ row[k] = "value"
      \/ e.call = "validate" /\ row[k] = "value"
  BY <1>2, <1>3
<1> QED BY <1>5, <1>6, <1>7, <1>8, <1>9, Zenon

LEMMA RowsInvAligned == RowsInv => FieldsAligned
<1> SUFFICES ASSUME RowsInv, decoding = "read" PROVE Len(fields) = Len(Rows!Positions)
  BY ValueDecoded DEF FieldsAligned, Rows!FieldsAligned
<1>1. next = Len(columns) + 1 /\ Len(fields) = Len(reads)
  BY DEF RowsInv, Decoded
<1> QED BY <1>1, WrittenReads

LEMMA RowsInvGuarded == RowsInv => NullsGuarded
BY ValueDecoded DEF NullsGuarded, Rows!NullsGuarded

\* Only the read of a single array is named after a wrapped type.
LEMMA UnloadedIsArray ==
  ASSUME RowsInv, decoding = "written", ~Rows!Loads
  PROVE  shape = "array" /\ Rows!Positions[1].override = "validated"
<1>1. PICK k \in 1..Len(reads) : reads[k].call = "validate" /\ reads[k].wrapped
  BY DEF Rows!Loads
<1>2. /\ Len(reads) \in Nat
      /\ reads[k] = IF shape = "struct" THEN Rows!FieldRead(Rows!Positions[k], k - 1)
                    ELSE Rows!ScalarRead(Rows!Positions[k])
      /\ shape # "struct" => Len(reads) = 1
  <2>1. next = Len(columns) + 1
    BY DEF RowsInv
  <2> QED BY <1>1, <2>1, WrittenReads
<1>3. shape = "array"
  <2> DEFINE t == Rows!Positions[k]
  <2>1. CASE shape = "struct"
    <3>1. reads[k].wrapped = Rows!FieldRead(t, k - 1).wrapped
      BY <1>2, <2>1
    <3>2. Rows!FieldRead(t, k - 1).wrapped = (shape = "array")
      BY DEF Rows!FieldRead, Rows!Reads
    <3> QED BY <1>1, <3>1, <3>2
  <2>2. CASE shape # "struct"
    <3>1. reads[k].wrapped = Rows!ScalarRead(t).wrapped
      BY <1>2, <2>2
    <3>2. Rows!ScalarRead(t).wrapped = (shape = "array")
      BY DEF Rows!ScalarRead, Rows!Reads
    <3> QED BY <1>1, <3>1, <3>2
  <2> QED BY <2>1, <2>2
<1>4. k = 1
  <2>1. Len(reads) = 1
    BY <1>2, <1>3
  <2>2. k \in 1..1
    BY <1>1, <2>1
  <2> QED BY <2>2
<1>5. Rows!Positions[1].override = "validated"
  BY <1>1, <1>2, <1>3, <1>4 DEF Rows!ScalarRead, Rows!Reads
<1> QED BY <1>3, <1>5

LEMMA RowsInvValidated == RowsInv => ValidatedOrRefused
<1>1. ASSUME RowsInv, decoding = "read", NEW k \in 1..Len(fields),
             Rows!Positions[k].override = "validated", row[k] = "value"
      PROVE  fields[k][1] \in {"validated", "refused"}
  <2>1. Rows!Positions[k] \in Fields /\ Len(fields) = Len(Rows!Positions)
    BY <1>1, FieldDecoded
  <2>2. adapters = Rows!ValidatedResultTypes
    BY <1>1, <2>1 DEF RowsInv, Fields, Rows!Possible
  <2>3. k \in adapters
    BY <1>1, <2>1, <2>2 DEF Rows!ValidatedResultTypes
  <2> QED BY <1>1, <2>3, ValueDecoded
<1> QED BY <1>1, UnloadedIsArray DEF ValidatedOrRefused, Rows!ValidatedOrRefused

\* Every field of a returned object holds the value of its own position of the
\* row, after any mix of plain and embedded columns (sqlalchemyRowKwargs, the
\* struct branches of the other drivers).
THEOREM FieldsAreAligned == Spec => []FieldsAligned
<1> QED BY RowsInit, RowsStepInv, RowsInvAligned, PTL DEF Spec

\* A NULL becomes None and is never passed to a conversion, with sqlalchemy and in
\* the structs of asyncpg (the `if row[n] is not None else None' that they write).
THEOREM NullsAreGuarded == Spec => []NullsGuarded
<1> QED BY RowsInit, RowsStepInv, RowsInvGuarded, PTL DEF Spec

\* A value of a type with validate: true is validated or refused on every path, by
\* an adapter that the module declares (ValidatedResultTypes).  The one module that
\* does not load is that of a single column of a validated array type.
THEOREM ValuesAreValidated == Spec => []ValidatedOrRefused
<1> QED BY RowsInit, RowsStepInv, RowsInvValidated, PTL DEF Spec

-----------------------------------------------------------------------------
(* The form of a :many, from the words of its statement to its call. *)

\* The words of a statement: those of the grammar, the marks, and those of comments.
Keywords == {"select", "insert", "update", "delete", "for", "no", "key", "with", "as", "x"}
Marks == {Many!LineStart, Many!LineEnd, Many!BlockStart, Many!BlockEnd,
          Many!Gap, Many!Opened, Many!Closed}
White == {Many!LineEnd, Many!Gap}
Words == Keywords \cup Marks \cup CommentWords

LEMMA MarksDiffer ==
  /\ Keywords \cap Marks = {}
  /\ Many!LineStart # Many!BlockStart
  /\ White \cap {Many!LineStart, Many!BlockStart, Many!BlockEnd, Many!Opened, Many!Closed} = {}
  /\ Many!LineEnd # Many!Gap
  /\ Many!BlockEnd \notin {Many!LineStart, Many!BlockStart}
<1> USE DEF Many!LineStart, Many!LineEnd, Many!BlockStart, Many!BlockEnd,
            Many!Gap, Many!Opened, Many!Closed
<1>1. Keywords \cap Marks = {}
  <2> SUFFICES ASSUME NEW w \in Keywords, w \in Marks PROVE FALSE
    OBVIOUS
  <2>1. /\ w # "--" /\ w # "lf" /\ w # "/*" /\ w # "*/" /\ w # "gap" /\ w # "(" /\ w # ")"
    BY Zenon DEF Keywords
  <2> QED BY <2>1, Zenon DEF Marks
<1>2. Many!LineStart # Many!BlockStart
  BY Zenon
<1>3. White \cap {Many!LineStart, Many!BlockStart, Many!BlockEnd, Many!Opened, Many!Closed} = {}
  <2>1. \A w \in White : w # "--" /\ w # "/*" /\ w # "*/" /\ w # "(" /\ w # ")"
    BY Zenon DEF White
  <2> QED BY <2>1, Zenon
<1>4. Many!LineEnd # Many!Gap
  BY Zenon
<1>5. Many!BlockEnd \notin {Many!LineStart, Many!BlockStart}
  BY Zenon
<1> QED BY <1>1, <1>2, <1>3, <1>4, <1>5, Zenon

LEMMA CommentsEndThere ==
  ASSUME NEW c \in Many!Comment
  PROVE  /\ c.word \in Words /\ c.word \notin {Many!LineEnd, Many!Gap, Many!BlockEnd}
         /\ Many!CommentTokens(c) \in Seq(Words) /\ Len(Many!CommentTokens(c)) = 3
         /\ Many!CommentTokens(c)[1] = IF c.kind = "line" THEN Many!LineStart ELSE Many!BlockStart
         /\ Many!CommentTokens(c)[2] = c.word
         /\ Many!CommentTokens(c)[3] = IF c.kind = "line" THEN Many!LineEnd ELSE Many!BlockEnd
<1>1. c.word \in CommentWords /\ c.kind \in {"line", "block"}
  BY DEF Many!Comment
<1>2. c.word \notin {Many!LineEnd, Many!Gap, Many!BlockEnd}
  <2>1. c.word # "lf" /\ c.word # "gap" /\ c.word # "*/"
    BY <1>1, CommentsEnd, Zenon
  <2> QED BY <2>1, Zenon DEF Many!LineEnd, Many!Gap, Many!BlockEnd
<1>3. {Many!LineStart, Many!LineEnd, Many!BlockStart, Many!BlockEnd, c.word} \subseteq Words
  BY <1>1 DEF Words, Marks
<1> QED BY <1>1, <1>2, <1>3 DEF Many!CommentTokens

-----------------------------------------------------------------------------
(* What SQLRootIsDML skips. *)

\* A comment ends where or after it starts.
LEMMA AfterCommentGoesOn ==
  ASSUME NEW ts \in Seq(Words), NEW i \in 1..(Len(ts) + 1)
  PROVE  Many!AfterComment(ts, i) \in i..(Len(ts) + 1)
<1> DEFINE ends == {j \in i..Len(ts) : ts[j] = Many!ClosedBy(ts[i])}
           m == CHOOSE j \in ends : \A k \in ends : j <= k
<1>1. Len(ts) \in Nat /\ i \in Nat
  BY LenProperties
<1>2. CASE i > Len(ts) \/ ts[i] \notin {Many!LineStart, Many!BlockStart}
  BY <1>1, <1>2 DEF Many!AfterComment
<1>3. CASE ~(i > Len(ts) \/ ts[i] \notin {Many!LineStart, Many!BlockStart}) /\ ends = {}
  <2>1. Many!AfterComment(ts, i) = Len(ts) + 1
    BY <1>3 DEF Many!AfterComment
  <2> QED BY <1>1, <2>1
<1>4. CASE ~(i > Len(ts) \/ ts[i] \notin {Many!LineStart, Many!BlockStart}) /\ ends # {}
  <2>1. Many!AfterComment(ts, i) = m + 1
    BY <1>4, Zenon DEF Many!AfterComment
  <2>2. ends \subseteq Nat /\ ends \subseteq i..Len(ts)
    BY <1>1
  <2> HIDE DEF ends
  <2>3. \E j \in ends : \A k \in ends : j <= k
    BY <1>4, <2>2, SmallestOf
  <2>4. m \in ends
    BY <2>3
  <2> HIDE DEF m
  <2> QED BY <1>1, <2>1, <2>2, <2>4
<1> QED BY <1>2, <1>3, <1>4

\* The scan skips comment after comment.
LEMMA CommentsAreSkipped ==
  ASSUME NEW ts \in Seq(Words)
  PROVE  \E skip :
           /\ \A i \in 1..(Len(ts) + 1) :
                skip[i] = IF Many!AfterComment(ts, i) = i THEN i ELSE skip[Many!AfterComment(ts, i)]
           /\ Many!AfterComments(ts) = SubSeq(ts, skip[1], Len(ts))
<1> DEFINE n == Len(ts) + 1
           next_ == [i \in 1..n |-> Many!AfterComment(ts, i)]
           Follows(g) == g = [i \in 1..n |-> IF Many!AfterComment(ts, i) = i THEN i ELSE g[Many!AfterComment(ts, i)]]
           skip == CHOOSE g : Follows(g)
<1>1. Len(ts) \in Nat /\ n \in Nat
  BY LenProperties
<1>2. \A i \in 1..n : Many!AfterComment(ts, i) \in i..n
  BY AfterCommentGoesOn
<1>3. next_ \in [1..n -> 1..n] /\ \A i \in 1..n : i <= next_[i]
  BY <1>1, <1>2
<1>4. \A i \in 1..n : next_[i] = Many!AfterComment(ts, i)
  OBVIOUS
<1>8. Many!AfterComments(ts) = SubSeq(ts, skip[1], Len(ts))
  BY Zenon DEF Many!AfterComments
<1> HIDE DEF next_, n, skip
<1>5. PICK g : g = [i \in 1..n |-> IF next_[i] = i THEN i ELSE g[next_[i]]]
  BY <1>1, <1>3, FollowExists
<1>6. Follows(g)
  <2>1. \A i \in 1..n : (IF next_[i] = i THEN i ELSE g[next_[i]])
                         = (IF Many!AfterComment(ts, i) = i THEN i ELSE g[Many!AfterComment(ts, i)])
    BY <1>4
  <2> QED BY <1>5, <2>1
<1>7. Follows(skip)
  BY <1>6, Zenon DEF skip
<1>9. \A i \in 1..n : skip[i] = IF Many!AfterComment(ts, i) = i THEN i ELSE skip[Many!AfterComment(ts, i)]
  BY <1>7, Zenon
<1> QED BY <1>8, <1>9, Zenon DEF n

\* A statement that starts with a word is read from there.
LEMMA NothingSkipped ==
  ASSUME NEW R \in Seq(Words), Len(R) >= 1, R[1] \notin {Many!LineStart, Many!BlockStart}
  PROVE  Many!AfterComments(R) = R
<1>1. Len(R) \in Nat /\ 1 \in 1..(Len(R) + 1)
  BY LenProperties
<1>2. Many!AfterComment(R, 1) = 1
  BY DEF Many!AfterComment
<1>3. Many!AfterComments(R) = SubSeq(R, 1, Len(R))
  BY <1>1, <1>2, CommentsAreSkipped
<1> QED BY <1>3, SubSeqFull

\* The start of a sequence after three others.
LEMMA AfterThree ==
  ASSUME NEW S, NEW C \in Seq(S), NEW R \in Seq(S)
  PROVE  Len(C) = 3 /\ Len(R) >= 1 =>
         /\ C \o R \in Seq(S) /\ Len(C \o R) = 3 + Len(R) /\ Len(R) \in Nat
         /\ (C \o R)[1] = C[1] /\ (C \o R)[2] = C[2] /\ (C \o R)[3] = C[3] /\ (C \o R)[4] = R[1]
<1>1. /\ C \o R \in Seq(S) /\ Len(C \o R) = Len(C) + Len(R) /\ Len(R) \in Nat
      /\ \A p \in 1..Len(C) : p \in 1..Len(C \o R) /\ (C \o R)[p] = C[p]
      /\ \A k \in 1..Len(R) : Len(C) + k \in 1..Len(C \o R) /\ (C \o R)[Len(C) + k] = R[k]
  BY ConcatElements
<1> DEFINE ts == C \o R
<1> HIDE DEF ts
<1> SUFFICES ASSUME Len(C) = 3, Len(R) >= 1
             PROVE  /\ ts \in Seq(S) /\ Len(ts) = 3 + Len(R) /\ Len(R) \in Nat
                    /\ ts[1] = C[1] /\ ts[2] = C[2] /\ ts[3] = C[3] /\ ts[4] = R[1]
  BY DEF ts
<1>2. 1 \in 1..Len(R) /\ 1 \in 1..3 /\ 2 \in 1..3 /\ 3 \in 1..3 /\ Len(C) + 1 = 4
  BY <1>1
<1>3. ts[Len(C) + 1] = R[1]
  BY <1>1, <1>2 DEF ts
<1> QED BY <1>1, <1>2, <1>3 DEF ts

\* And one that starts with a comment from the word after it.
LEMMA LeadSkipped ==
  ASSUME NEW c \in Many!Comment,
         NEW R \in Seq(Words), Len(R) >= 1, R[1] \notin {Many!LineStart, Many!BlockStart}
  PROVE  Many!AfterComments(Many!CommentTokens(c) \o R) = R
<1> DEFINE C == Many!CommentTokens(c)
           ts == C \o R
           n == Len(ts) + 1
           ends == {j \in 1..Len(ts) : ts[j] = Many!ClosedBy(ts[1])}
           m == CHOOSE j \in ends : \A k \in ends : j <= k
<1>1. /\ C \in Seq(Words) /\ Len(C) = 3
      /\ C[1] = IF c.kind = "line" THEN Many!LineStart ELSE Many!BlockStart
      /\ C[2] \notin {Many!LineEnd, Many!BlockEnd}
      /\ C[3] = IF c.kind = "line" THEN Many!LineEnd ELSE Many!BlockEnd
  BY CommentsEndThere
<1> HIDE DEF C
<1>2. /\ ts \in Seq(Words) /\ Len(ts) = 3 + Len(R) /\ Len(R) \in Nat
      /\ ts[1] = C[1] /\ ts[2] = C[2] /\ ts[3] = C[3] /\ ts[4] = R[1]
  BY <1>1, AfterThree
<1> DEFINE D == SubSeq(ts, 4, Len(ts))
<1>3. D = R
  <2>1. Len(C) + 1 = 4
    BY <1>1
  <2>2. SubSeq(C \o R, Len(C) + 1, Len(C \o R)) = R
    BY <1>1, DropFirst
  <2> QED BY <2>1, <2>2
<1> HIDE DEF ts, D
<1>4. ts[1] \in {Many!LineStart, Many!BlockStart} /\ Many!ClosedBy(ts[1]) = ts[3]
  BY <1>1, <1>2, MarksDiffer DEF Many!ClosedBy
<1>5. ts[1] # ts[3] /\ ts[2] # ts[3]
  BY <1>1, <1>2, MarksDiffer DEF White
<1>6. 3 \in ends /\ \A k \in ends : 3 <= k
  BY <1>2, <1>4, <1>5
<1>7. ends # {} /\ m = 3
  <2>1. \A j \in ends : (\A k \in ends : j <= k) => j = 3
    <3>1. ends \subseteq Nat
      BY <1>2
    <3> HIDE DEF ends
    <3> QED BY <1>6, <3>1
  <2>2. m \in ends /\ \A k \in ends : m <= k
    BY <1>6
  <2> HIDE DEF m
  <2> QED BY <1>6, <2>1, <2>2
<1>8. Many!AfterComment(ts, 1) = 4
  <2>1. ~(1 > Len(ts) \/ ts[1] \notin {Many!LineStart, Many!BlockStart})
    BY <1>2, <1>4
  <2>2. Many!AfterComment(ts, 1) = m + 1
    BY <1>7, <2>1, Zenon DEF Many!AfterComment
  <2> HIDE DEF m
  <2> QED BY <1>7, <2>2
<1>9. Many!AfterComment(ts, 4) = 4
  BY <1>2 DEF Many!AfterComment
<1>10. PICK skip :
           /\ \A i \in 1..(Len(ts) + 1) :
                skip[i] = IF Many!AfterComment(ts, i) = i THEN i ELSE skip[Many!AfterComment(ts, i)]
           /\ Many!AfterComments(ts) = SubSeq(ts, skip[1], Len(ts))
  BY <1>2, CommentsAreSkipped
<1>11. 1 \in 1..(Len(ts) + 1) /\ 4 \in 1..(Len(ts) + 1)
  BY <1>2
<1>12. skip[1] = skip[4] /\ skip[4] = 4
  BY <1>8, <1>9, <1>10, <1>11
<1> QED BY <1>3, <1>10, <1>12 DEF D, ts, C

-----------------------------------------------------------------------------
(* The words of the parts of a statement. *)

Notes(n) == FlattenSeq([i \in 1..Len(n) |-> Many!CommentTokens(n[i])])
CteWords(s) == FlattenSeq([i \in 1..Len(s.ctes) |-> Many!CteTokens(s.ctes[i])])
With(s) == IF s.ctes = <<>> THEN <<>> ELSE <<"with">>
Rest(s) == (With(s) \o CteWords(s)) \o Many!BodyTokens(s.body)

LEMMA SameFlattening == \A t : Many!FlattenSeq(t) = FlattenSeq(t)
BY Zenon DEF Many!FlattenSeq, FlattenSeq

LEMMA NotesAre ==
  ASSUME NEW n \in Many!OptionalComment
  PROVE  Notes(n) = <<>> \/ \E c \in Many!Comment : n = <<c>> /\ Notes(n) = Many!CommentTokens(c)
<1>1. CASE n = <<>>
  <2>1. [i \in 1..Len(n) |-> Many!CommentTokens(n[i])] = <<>>
    BY <1>1
  <2> QED BY <2>1, FlattenNone DEF Notes
<1>2. CASE n # <<>>
  <2>1. PICK c \in Many!Comment : n = <<c>>
    BY <1>2 DEF Many!OptionalComment
  <2> DEFINE x == Many!CommentTokens(c)
  <2>2. [i \in 1..Len(n) |-> Many!CommentTokens(n[i])] = <<x>>
    BY <2>1
  <2>3. x \in Seq(Words)
    BY CommentsEndThere
  <2> HIDE DEF x
  <2>4. FlattenSeq(<<x>>) = x
    BY <2>3, FlattenOne
  <2> QED BY <2>1, <2>2, <2>4 DEF Notes, x
<1> QED BY <1>1, <1>2

LEMMA BodyWords ==
  ASSUME NEW b \in Many!Body
  PROVE  /\ Many!BodyTokens(b) \in Seq(Words) /\ Len(Many!BodyTokens(b)) >= 2
         /\ Many!BodyTokens(b)[1] = b.verb /\ b.verb \in Keywords
         /\ b.verb \in {"select"} \cup Many!Dml
         /\ b.lock \in Many!Lock /\ (b.verb # "select" => b.lock = <<>>)
<1>1. /\ b.verb \in {"select"} \cup Many!Dml /\ b.lock \in Many!Lock
      /\ b.verb # "select" => b.lock = <<>>
  BY DEF Many!Body, Many!Lock, Many!Dml
<1>2. b.verb \in Keywords
  BY <1>1 DEF Many!Dml, Keywords
<1>3. <<b.verb, "x">> \in Seq(Words) /\ Len(<<b.verb, "x">>) = 2 /\ <<b.verb, "x">>[1] = b.verb
  BY <1>2 DEF Words, Keywords
<1>4. b.lock \in Seq(Words)
  <2>1. {"for", "update", "no", "key", Many!Gap} \subseteq Words
    BY DEF Words, Keywords, Marks
  <2>2. /\ <<"for", "update">> \in Seq(Words) /\ <<"for", "no", "key", "update">> \in Seq(Words)
        /\ <<"for", "no", Many!Gap, "key", "update">> \in Seq(Words)
    BY <2>1
  <2>3. b.lock \in {<<>>, <<"for", "update">>, <<"for", "no", "key", "update">>,
                    <<"for", "no", Many!Gap, "key", "update">>}
    BY <1>1, Zenon DEF Many!Lock
  <2> QED BY <2>2, <2>3, EmptySeq
<1> DEFINE v == <<b.verb, "x">>
           l == b.lock
<1>5. v \in Seq(Words) /\ l \in Seq(Words) /\ Len(v) = 2 /\ v[1] = b.verb /\ Many!BodyTokens(b) = v \o l
  BY <1>3, <1>4 DEF Many!BodyTokens
<1> HIDE DEF v, l
<1>6. /\ v \o l \in Seq(Words) /\ Len(v \o l) = Len(v) + Len(l) /\ Len(l) \in Nat
      /\ \A p \in 1..Len(v) : (v \o l)[p] = v[p]
  <2>1. v \in Seq(Words) /\ l \in Seq(Words)
    BY <1>5
  <2> QED BY <2>1, ConcatElements
<1>7. Len(v \o l) >= 2 /\ 1 \in 1..Len(v)
  BY <1>5, <1>6
<1> QED BY <1>1, <1>2, <1>5, <1>6, <1>7

LEMMA NotesWords ==
  ASSUME NEW n \in Many!OptionalComment
  PROVE  Notes(n) \in Seq(Words)
<1>1. CASE Notes(n) = <<>>
  BY <1>1, EmptySeq
<1>2. CASE \E c \in Many!Comment : n = <<c>> /\ Notes(n) = Many!CommentTokens(c)
  BY <1>2, CommentsEndThere
<1> QED BY <1>1, <1>2, NotesAre

LEMMA CteIs ==
  ASSUME NEW c \in Many!Cte
  PROVE  /\ c.note \in Many!OptionalComment /\ c.body \in Many!Body
         /\ <<"x", "as", Many!Opened>> \in Seq(Words) /\ <<Many!Closed>> \in Seq(Words)
         /\ Notes(c.note) \in Seq(Words) /\ Many!BodyTokens(c.body) \in Seq(Words)
         /\ Many!CteTokens(c) = (<<"x", "as", Many!Opened>> \o Notes(c.note) \o Many!BodyTokens(c.body)) \o <<Many!Closed>>
         /\ Many!CteTokens(c) \in Seq(Words)
<1>1. c.note \in Many!OptionalComment /\ c.body \in Many!Body
  BY DEF Many!Cte
<1>2. {"x", "as", Many!Opened, Many!Closed} \subseteq Words
  BY DEF Words, Keywords, Marks
<1>3. <<"x", "as", Many!Opened>> \in Seq(Words) /\ <<Many!Closed>> \in Seq(Words)
  BY <1>2
<1>4. Notes(c.note) \in Seq(Words) /\ Many!BodyTokens(c.body) \in Seq(Words)
  BY <1>1, NotesWords, BodyWords
<1>5. Many!CteTokens(c) = (<<"x", "as", Many!Opened>> \o Notes(c.note) \o Many!BodyTokens(c.body)) \o <<Many!Closed>>
  BY SameFlattening, Zenon DEF Many!CteTokens, Notes
<1>6. (<<"x", "as", Many!Opened>> \o Notes(c.note) \o Many!BodyTokens(c.body)) \o <<Many!Closed>> \in Seq(Words)
  <2>1. <<"x", "as", Many!Opened>> \o Notes(c.note) \in Seq(Words)
    BY <1>3, <1>4, ConcatProperties
  <2>2. <<"x", "as", Many!Opened>> \o Notes(c.note) \o Many!BodyTokens(c.body) \in Seq(Words)
    BY <2>1, <1>4, ConcatProperties
  <2> QED BY <2>2, <1>3, ConcatProperties
<1> QED BY <1>1, <1>3, <1>4, <1>5, <1>6

LEMMA StatementIs ==
  ASSUME NEW s \in Many!Statement
  PROVE  /\ s.lead \in Many!OptionalComment /\ s.ctes \in Seq(Many!Cte) /\ s.body \in Many!Body
         /\ [i \in 1..Len(s.ctes) |-> Many!CteTokens(s.ctes[i])] \in Seq(Seq(Words))
         /\ CteWords(s) \in Seq(Words) /\ With(s) \in Seq(Words) /\ Many!BodyTokens(s.body) \in Seq(Words)
         /\ With(s) \o CteWords(s) \in Seq(Words)
         /\ s.ctes = <<>> => With(s) \o CteWords(s) = <<>> /\ Rest(s) = Many!BodyTokens(s.body)
         /\ Rest(s) \in Seq(Words) /\ Len(Rest(s)) >= 1
         /\ Rest(s)[1] = IF s.ctes = <<>> THEN s.body.verb ELSE "with"
         /\ Many!Tokens(s) = Notes(s.lead) \o Rest(s)
<1>1. /\ s.lead \in Many!OptionalComment /\ s.body \in Many!Body
      /\ \E n \in 0..MaxCtes : s.ctes \in [1..n -> Many!Cte]
  BY DEF Many!Statement
<1>2. s.ctes \in Seq(Many!Cte)
  <2>1. MaxCtes \in Nat
    BY Bounds
  <2>2. \A n \in 0..MaxCtes : n \in Nat
    BY <2>1
  <2> QED BY <1>1, <2>2, SeqDef
<1> DEFINE t == [i \in 1..Len(s.ctes) |-> Many!CteTokens(s.ctes[i])]
           b == Many!BodyTokens(s.body)
           F == CteWords(s)
           w == With(s)
<1>3. t \in Seq(Seq(Words)) /\ F = FlattenSeq(t)
  <2>1. \A i \in 1..Len(s.ctes) : s.ctes[i] \in Many!Cte
    BY <1>2, ElementOfSeq
  <2>2. \A i \in 1..Len(s.ctes) : Many!CteTokens(s.ctes[i]) \in Seq(Words)
    BY <2>1, CteIs
  <2>3. Len(s.ctes) \in Nat
    BY <1>2, LenProperties
  <2>4. t \in [1..Len(s.ctes) -> Seq(Words)]
    BY <2>2
  <2> QED BY <2>3, <2>4, SeqDef DEF CteWords
<1>4. F \in Seq(Words)
  <2> HIDE DEF t
  <2>1. PICK f : Concatenates(f, t, Words)
    BY <1>3, ConcatenationExists
  <2>2. F = f[Len(t)]
    BY <1>3, <2>1, FlattenConcatenates
  <2>3. Len(t) \in 0..Len(t)
    BY <1>3, LenProperties
  <2> QED BY <2>1, <2>2, <2>3 DEF Concatenates
<1>5. /\ w \in Seq(Words) /\ (s.ctes = <<>> => w = <<>>)
      /\ s.ctes # <<>> => Len(w) = 1 /\ w[1] = "with"
  <2>1. "with" \in Words
    BY DEF Words, Keywords
  <2> QED BY <2>1 DEF With
<1>6. b \in Seq(Words) /\ Len(b) >= 2 /\ b[1] = s.body.verb
  BY <1>1, BodyWords
<1>7. s.ctes = <<>> => F = <<>>
  <2>1. s.ctes = <<>> => t = <<>>
    OBVIOUS
  <2> QED BY <2>1, <1>3, FlattenNone
<1>8. Rest(s) = (w \o F) \o b
  BY DEF Rest
<1> DEFINE N == Notes(s.lead)
<1>9. Many!Tokens(s) = ((N \o w) \o F) \o b /\ N \in Seq(Words)
  <2>1. N \in Seq(Words)
    BY <1>1, NotesWords
  <2>2. Many!Tokens(s) = ((N \o w) \o F) \o b
    BY SameFlattening, Zenon DEF Many!Tokens, Notes, CteWords, With
  <2> QED BY <2>1, <2>2
<1> HIDE DEF b, F, w, t, N
<1>10. w \o F \in Seq(Words) /\ (w \o F) \o b \in Seq(Words)
  BY <1>4, <1>5, <1>6, ConcatProperties
<1>11. Many!Tokens(s) = N \o ((w \o F) \o b)
  <2>1. (N \o w) \o F = N \o (w \o F)
    BY <1>4, <1>5, <1>9, ConcatAssociative, SMTT(30)
  <2>2. (N \o (w \o F)) \o b = N \o ((w \o F) \o b)
    <3> DEFINE h == w \o F
    <3>1. h \in Seq(Words) /\ b \in Seq(Words) /\ N \in Seq(Words)
      BY <1>6, <1>9, <1>10
    <3> HIDE DEF h
    <3>2. (N \o h) \o b = N \o (h \o b)
      BY <3>1, ConcatAssociative
    <3> QED BY <3>2 DEF h
  <2> QED BY <1>9, <2>1, <2>2
<1>12. ASSUME s.ctes = <<>>
       PROVE  /\ With(s) \o CteWords(s) = <<>> /\ Rest(s) = Many!BodyTokens(s.body)
              /\ Len(Rest(s)) >= 1 /\ Rest(s)[1] = s.body.verb
  <2>1. w \o F = <<>>
    BY <1>5, <1>7, <1>12, ConcatEmptySeq, EmptySeq
  <2>2. (w \o F) \o b = b
    BY <1>6, <2>1, ConcatEmptySeq
  <2>3. Rest(s) = b /\ b[1] = s.body.verb /\ Len(b) >= 1
    BY <1>6, <1>8, <2>2
  <2> QED BY <1>12, <2>1, <2>3 DEF b, F, w
<1>13. ASSUME s.ctes # <<>>
       PROVE  Len(Rest(s)) >= 1 /\ Rest(s)[1] = "with"
  <2>1. /\ Len(w \o F) = Len(w) + Len(F) /\ Len(F) \in Nat
        /\ \A p \in 1..Len(w) : p \in 1..Len(w \o F) /\ (w \o F)[p] = w[p]
    BY <1>4, <1>5, ConcatElements
  <2>2. 1 \in 1..Len(w)
    BY <1>5, <1>13
  <2>3. 1 \in 1..Len(w \o F) /\ (w \o F)[1] = "with"
    BY <1>5, <1>13, <2>1, <2>2
  <2> DEFINE h == w \o F
  <2>4. h \in Seq(Words) /\ 1 \in 1..Len(h) /\ h[1] = "with"
    BY <1>10, <2>3
  <2> HIDE DEF h
  <2>5. /\ Len(h \o b) = Len(h) + Len(b) /\ Len(h) \in Nat /\ Len(b) \in Nat
        /\ \A p \in 1..Len(h) : p \in 1..Len(h \o b) /\ (h \o b)[p] = h[p]
    BY <1>6, <2>4, ConcatElements
  <2>6. (h \o b)[1] = "with" /\ Len(h \o b) >= 1
    BY <1>6, <2>4, <2>5
  <2> QED BY <1>8, <2>6 DEF h
<1>14. t \in Seq(Seq(Words)) /\ F \in Seq(Words) /\ w \in Seq(Words) /\ b \in Seq(Words)
       /\ w \o F \in Seq(Words) /\ Rest(s) \in Seq(Words) /\ Many!Tokens(s) = N \o Rest(s)
  BY <1>3, <1>4, <1>5, <1>6, <1>8, <1>10, <1>11
<1> QED BY <1>1, <1>2, <1>12, <1>13, <1>14 DEF b, F, w, N, t

\* What SQLRootIsDML sees of a statement.
LEMMA RootIs ==
  ASSUME NEW s \in Many!Statement
  PROVE  Many!SQLRootIsDML(Many!Tokens(s))
           <=> IF s.ctes = <<>> THEN s.body.verb \in Many!Dml ELSE Many!ContainsDMLKeyword(Rest(s))
<1>1. /\ s.lead \in Many!OptionalComment /\ s.body \in Many!Body
      /\ Rest(s) \in Seq(Words) /\ Len(Rest(s)) >= 1
      /\ Rest(s)[1] = IF s.ctes = <<>> THEN s.body.verb ELSE "with"
      /\ Many!Tokens(s) = Notes(s.lead) \o Rest(s)
  BY StatementIs
<1>2. s.body.verb \in Keywords /\ s.body.verb \in {"select"} \cup Many!Dml /\ "with" \in Keywords
  BY <1>1, BodyWords DEF Keywords
<1>3. Rest(s)[1] \notin {Many!LineStart, Many!BlockStart}
  BY <1>1, <1>2, MarksDiffer DEF Marks
<1> DEFINE R == Rest(s)
           b == s.body.verb
<1>a. R \in Seq(Words) /\ Len(R) >= 1 /\ R[1] \notin {Many!LineStart, Many!BlockStart}
  BY <1>1, <1>3
<1>4. Many!AfterComments(Many!Tokens(s)) = R
  <2>1. Many!Tokens(s) = Notes(s.lead) \o R
    BY <1>1
  <2> HIDE DEF R
  <2>2. CASE Notes(s.lead) = <<>>
    <3>1. Many!Tokens(s) = R
      BY <1>a, <2>1, <2>2, ConcatEmptySeq
    <3> QED BY <1>a, <3>1, NothingSkipped
  <2>3. CASE Notes(s.lead) # <<>>
    <3>1. PICK c \in Many!Comment : Notes(s.lead) = Many!CommentTokens(c)
      BY <1>1, <2>3, NotesAre
    <3> QED BY <1>a, <2>1, <3>1, LeadSkipped
  <2> QED BY <2>2, <2>3
<1>5. R # <<>> /\ Head(R) = IF s.ctes = <<>> THEN b ELSE "with"
  BY <1>1
<1>6. "with" \notin {"select"} \cup Many!Dml
  BY DEF Many!Dml
<1> HIDE DEF R
<1>7. Many!SQLRootIsDML(Many!Tokens(s))
        <=> Head(R) \in Many!Dml \/ (Head(R) = "with" /\ Many!ContainsDMLKeyword(R))
  BY <1>4, <1>5 DEF Many!SQLRootIsDML
<1> QED BY <1>2, <1>5, <1>6, <1>7 DEF R

-----------------------------------------------------------------------------
(* A modification is found behind every comment, except the one of HiddenUpdate. *)

\* The word before i, over white space, is neither `for' nor the end of `no key'.
Unlocked(t, i) ==
  \E j \in 1..(i - 1) :
    /\ t[j] \notin White \cup {"for"}
    /\ \A k \in (j + 1)..(i - 1) : t[k] \in White
    /\ t[j] = "key" => j > 1 /\ t[j - 1] # "no"

Modifying ==
  {t \in Seq(Words) :
     \E i \in 1..Len(t) : t[i] \in Many!Dml /\ (t[i] = "update" => Unlocked(t, i))}

LEMMA WordBeforeIs ==
  ASSUME NEW t, NEW i \in Nat, NEW j \in 1..(i - 1), t[j] \notin White,
         \A k \in (j + 1)..(i - 1) : t[k] \in White
  PROVE  Many!WordBefore(t, i) = j
<1> DEFINE before == {k \in 1..(i - 1) : t[k] \notin White}
           m == CHOOSE k \in before : \A l \in before : l <= k
<1>1. j \in before /\ \A k \in before : k <= j
  BY SMT
<1>2. before # {}
  BY <1>1
<1>3. Many!WordBefore(t, i) = m
  BY <1>2, Zenon DEF Many!WordBefore, White
<1>4. before \subseteq Nat
  BY SMT
<1>5. \A k \in before : (\A l \in before : l <= k) => k = j
  BY <1>1, <1>4
<1>6. m \in before /\ \A l \in before : l <= m
  BY <1>1
<1> HIDE DEF m, before
<1> QED BY <1>3, <1>5, <1>6

LEMMA ModifyingFound ==
  ASSUME NEW t \in Modifying
  PROVE  Many!ContainsDMLKeyword(t)
<1>1. PICK i \in 1..Len(t) : t[i] \in Many!Dml /\ (t[i] = "update" => Unlocked(t, i))
  BY DEF Modifying
<1>a. i \in Nat
  BY <1>1
<1>2. ASSUME t[i] = "update" PROVE ~Many!LockingUpdate(t, i)
  <2>1. PICK j \in 1..(i - 1) :
          /\ t[j] \notin White \cup {"for"}
          /\ \A k \in (j + 1)..(i - 1) : t[k] \in White
          /\ t[j] = "key" => j > 1 /\ t[j - 1] # "no"
    BY <1>1, <1>2 DEF Unlocked
  <2>2. Many!WordBefore(t, i) = j
    BY <1>a, <2>1, WordBeforeIs
  <2> QED BY <2>1, <2>2, Zenon DEF Many!LockingUpdate
<1> QED BY <1>1, <1>2 DEF Many!ContainsDMLKeyword

LEMMA ModifyingBefore ==
  ASSUME NEW a \in Modifying, NEW b \in Seq(Words)
  PROVE  a \o b \in Modifying
<1>1. PICK i \in 1..Len(a) : a[i] \in Many!Dml /\ (a[i] = "update" => Unlocked(a, i))
  BY DEF Modifying
<1>2. a \in Seq(Words)
  BY DEF Modifying
<1>3. /\ a \o b \in Seq(Words) /\ Len(a) \in Nat
      /\ \A p \in 1..Len(a) : p \in 1..Len(a \o b) /\ (a \o b)[p] = a[p]
  BY <1>2, ConcatElements
<1> DEFINE c == a \o b
<1> HIDE DEF c
<1>4. i \in 1..Len(c) /\ c[i] = a[i] /\ \A p \in 1..i : c[p] = a[p]
  BY <1>3 DEF c
<1>5. ASSUME Unlocked(a, i) PROVE Unlocked(c, i)
  <2>1. PICK j \in 1..(i - 1) :
          /\ a[j] \notin White \cup {"for"}
          /\ \A k \in (j + 1)..(i - 1) : a[k] \in White
          /\ a[j] = "key" => j > 1 /\ a[j - 1] # "no"
    BY <1>5 DEF Unlocked
  <2>2. c[j] = a[j] /\ (j > 1 => c[j - 1] = a[j - 1]) /\ \A k \in (j + 1)..(i - 1) : c[k] = a[k]
    BY <1>4
  <2> QED BY <2>1, <2>2 DEF Unlocked
<1>6. c \in Modifying
  BY <1>1, <1>3, <1>4, <1>5 DEF Modifying, c
<1> QED BY <1>6 DEF c

LEMMA ModifyingAfter ==
  ASSUME NEW a \in Seq(Words), NEW b \in Modifying
  PROVE  a \o b \in Modifying
<1>1. PICK i \in 1..Len(b) : b[i] \in Many!Dml /\ (b[i] = "update" => Unlocked(b, i))
  BY DEF Modifying
<1>2. b \in Seq(Words)
  BY DEF Modifying
<1>3. /\ a \o b \in Seq(Words) /\ Len(a) \in Nat /\ Len(b) \in Nat
      /\ \A k \in 1..Len(b) : Len(a) + k \in 1..Len(a \o b) /\ (a \o b)[Len(a) + k] = b[k]
  BY <1>2, ConcatElements
<1> DEFINE c == a \o b
           n == Len(a)
<1> HIDE DEF c, n
<1>4. /\ n \in Nat /\ n + i \in 1..Len(c) /\ c[n + i] = b[i]
      /\ \A p \in 1..i : c[n + p] = b[p]
  BY <1>3 DEF c, n
<1>5. ASSUME Unlocked(b, i) PROVE Unlocked(c, n + i)
  <2>1. PICK j \in 1..(i - 1) :
          /\ b[j] \notin White \cup {"for"}
          /\ \A k \in (j + 1)..(i - 1) : b[k] \in White
          /\ b[j] = "key" => j > 1 /\ b[j - 1] # "no"
    BY <1>5 DEF Unlocked
  <2> DEFINE m == n + j
  <2>2. m \in 1..((n + i) - 1) /\ c[m] = b[j]
    BY <1>4, <2>1
  <2>3. ASSUME j > 1 PROVE m > 1 /\ c[m - 1] = b[j - 1]
    <3>1. j - 1 \in 1..i /\ n + (j - 1) = m - 1
      BY <1>4, <2>3
    <3>2. c[n + (j - 1)] = b[j - 1]
      BY <1>4, <3>1
    <3> QED BY <1>4, <2>3, <3>1, <3>2
  <2>4. ASSUME NEW k \in (m + 1)..((n + i) - 1) PROVE c[k] \in White
    <3>1. k - n \in (j + 1)..(i - 1) /\ k - n \in 1..i /\ n + (k - n) = k
      BY <1>4
    <3>2. c[n + (k - n)] = b[k - n]
      BY <1>4, <3>1
    <3> QED BY <2>1, <3>1, <3>2
  <2> HIDE DEF m
  <2> QED BY <2>1, <2>2, <2>3, <2>4 DEF Unlocked
<1>6. c \in Modifying
  BY <1>1, <1>3, <1>4, <1>5 DEF Modifying, c
<1> QED BY <1>6 DEF c

\* A verb right after a word that is no lock, or after a line comment that does not
\* end in one.
LEMMA VerbModifies ==
  ASSUME NEW b \in Many!Body, b.verb \in Many!Dml, NEW a \in Seq(Words),
         NEW j \in 1..Len(a),
         b.verb = "update" => a[j] \notin White \cup {"for"},
         \A k \in (j + 1)..Len(a) : a[k] \in White,
         a[j] = "key" => j > 1 /\ a[j - 1] # "no"
  PROVE  a \o Many!BodyTokens(b) \in Modifying
<1> DEFINE v == Many!BodyTokens(b)
           c == a \o v
           i == Len(a) + 1
<1>1. v \in Seq(Words) /\ Len(v) >= 2 /\ v[1] = b.verb
  BY BodyWords
<1> HIDE DEF v
<1>2. /\ a \o v \in Seq(Words) /\ Len(a) \in Nat
      /\ \A p \in 1..Len(a) : p \in 1..Len(a \o v) /\ (a \o v)[p] = a[p]
      /\ \A k \in 1..Len(v) : Len(a) + k \in 1..Len(a \o v) /\ (a \o v)[Len(a) + k] = v[k]
  <2>1. v \in Seq(Words)
    BY <1>1
  <2> QED BY <2>1, ConcatElements
<1> HIDE DEF c
<1>3. 1 \in 1..Len(v)
  <2>1. Len(v) \in Nat
    BY <1>1, LenProperties
  <2> QED BY <1>1, <2>1
<1>4. i \in 1..Len(c) /\ c[i] = b.verb /\ i - 1 = Len(a)
  BY <1>1, <1>2, <1>3 DEF c
<1>5. \A p \in 1..Len(a) : c[p] = a[p]
  BY <1>2 DEF c
<1> HIDE DEF i
<1>6. ASSUME b.verb = "update" PROVE Unlocked(c, i)
  <2>1. /\ j \in 1..(i - 1) /\ c[j] \notin White \cup {"for"}
        /\ \A k \in (j + 1)..(i - 1) : c[k] \in White
    BY <1>2, <1>4, <1>5, <1>6
  <2>2. ASSUME c[j] = "key" PROVE j > 1 /\ c[j - 1] # "no"
    <3>1. a[j] = "key"
      BY <1>5, <2>2
    <3>2. j > 1 /\ a[j - 1] # "no"
      BY <3>1
    <3>3. j - 1 \in 1..Len(a)
      BY <1>2, <3>2
    <3> QED BY <1>5, <3>2, <3>3
  <2> QED BY <2>1, <2>2 DEF Unlocked
<1>7. c \in Modifying
  BY <1>2, <1>4, <1>6 DEF Modifying, c
<1> QED BY <1>7 DEF c, v

LEMMA CteModifies ==
  ASSUME NEW c \in Many!Cte, c.body.verb \in Many!Dml,
         c.body.verb = "update" =>
           \A k \in 1..Len(c.note) : ~(c.note[k].kind = "line" /\ c.note[k].word = "for")
  PROVE  Many!CteTokens(c) \in Modifying
<1> DEFINE o == <<"x", "as", Many!Opened>>
           n == Notes(c.note)
           b == Many!BodyTokens(c.body)
           a == o \o n
<1>1. /\ c.note \in Many!OptionalComment /\ c.body \in Many!Body
      /\ o \in Seq(Words) /\ <<Many!Closed>> \in Seq(Words) /\ n \in Seq(Words) /\ b \in Seq(Words)
      /\ Many!CteTokens(c) = (a \o b) \o <<Many!Closed>>
  BY CteIs
<1>2. Len(o) = 3 /\ o[3] = Many!Opened
  OBVIOUS
<1>3. Many!Opened \notin White \cup {"for", "key"}
  BY MarksDiffer DEF Keywords, Marks
<1>4. a \o b \in Modifying
  <2>1. CASE n = <<>>
    <3>1. a = o
      BY <1>1, <2>1, ConcatEmptySeq
    <3> HIDE DEF a, o
    <3>2. a \in Seq(Words) /\ 3 \in 1..Len(a) /\ a[3] = Many!Opened /\ Len(a) = 3
      <4>1. o \in Seq(Words) /\ 3 \in 1..Len(o)
        BY <1>1, <1>2
      <4> QED BY <1>2, <3>1, <4>1, Zenon
    <3>3. \A k \in (3 + 1)..Len(a) : a[k] \in White
      BY <3>2
    <3> QED BY <1>1, <1>3, <3>2, <3>3, VerbModifies
  <2>2. CASE n # <<>>
    <3>1. PICK d \in Many!Comment : c.note = <<d>> /\ n = Many!CommentTokens(d)
      BY <1>1, <2>2, NotesAre
    <3>2. /\ d.word \notin {Many!LineEnd, Many!Gap, Many!BlockEnd} /\ d.kind \in {"line", "block"}
          /\ Len(n) = 3
          /\ n[1] = IF d.kind = "line" THEN Many!LineStart ELSE Many!BlockStart
          /\ n[2] = d.word
          /\ n[3] = IF d.kind = "line" THEN Many!LineEnd ELSE Many!BlockEnd
      BY <3>1, CommentsEndThere DEF Many!Comment
    <3> HIDE DEF o, n, b
    <3>3. /\ o \o n \in Seq(Words) /\ Len(o) \in Nat /\ Len(o \o n) = Len(o) + Len(n)
          /\ \A k \in 1..Len(n) : (o \o n)[Len(o) + k] = n[k]
      <4>1. o \in Seq(Words) /\ n \in Seq(Words)
        BY <1>1
      <4> QED BY <4>1, ConcatElements
    <3> HIDE DEF a
    <3>4. /\ a \in Seq(Words) /\ Len(a) = 6
          /\ a[4] = n[1] /\ a[5] = n[2] /\ a[6] = n[3]
      <4>1. 3 + 1 = 4 /\ 3 + 2 = 5 /\ 3 + 3 = 6 /\ 1 \in 1..3 /\ 2 \in 1..3 /\ 3 \in 1..3
        OBVIOUS
      <4> QED BY <1>2, <3>2, <3>3, <4>1 DEF a
    <3>5. CASE d.kind = "line"
      <4>1. c.body.verb = "update" => a[5] \notin White \cup {"for"}
        <5>1. 1 \in 1..Len(c.note) /\ c.note[1] = d
          BY <3>1
        <5> QED BY <3>2, <3>4, <3>5, <5>1 DEF White
      <4>2. 5 \in 1..Len(a) /\ \A k \in (5 + 1)..Len(a) : a[k] \in White
        BY <3>2, <3>4, <3>5 DEF White
      <4>3. 5 > 1 /\ a[5 - 1] # "no"
        <5>1. 5 - 1 = 4 /\ a[4] = Many!LineStart
          BY <3>2, <3>4, <3>5
        <5>2. Many!LineStart # "no"
          BY MarksDiffer DEF Keywords, Marks
        <5> QED BY <5>1, <5>2
      <4> QED BY <1>1, <3>4, <4>1, <4>2, <4>3, VerbModifies DEF b
    <3>6. CASE d.kind = "block"
      <4>1. a[6] = Many!BlockEnd /\ Many!BlockEnd \notin White \cup {"for", "key"}
        BY <3>2, <3>4, <3>6, MarksDiffer DEF Keywords, Marks
      <4>2. 6 \in 1..Len(a) /\ \A k \in (6 + 1)..Len(a) : a[k] \in White
        BY <3>4
      <4> QED BY <1>1, <3>4, <4>1, <4>2, VerbModifies DEF b
    <3> QED BY <3>2, <3>5, <3>6
  <2> QED BY <2>1, <2>2
<1> HIDE DEF a, b
<1> QED BY <1>1, <1>4, ModifyingBefore

\* The last word of the WITH queries closes one.
LEMMA CtesClose ==
  ASSUME NEW s \in Many!Statement, s.ctes # <<>>
  PROVE  LET w == With(s) \o CteWords(s) IN Len(w) >= 1 /\ w[Len(w)] = Many!Closed
<1> DEFINE t == [i \in 1..Len(s.ctes) |-> Many!CteTokens(s.ctes[i])]
           n == Len(s.ctes)
           F == CteWords(s)
           w == With(s)
<1>1. /\ s.ctes \in Seq(Many!Cte) /\ t \in Seq(Seq(Words)) /\ Len(t) = n /\ n \in Nat /\ n >= 1
      /\ F \in Seq(Words) /\ w \in Seq(Words) /\ F = FlattenSeq(t)
  <2>1. /\ s.ctes \in Seq(Many!Cte) /\ t \in Seq(Seq(Words)) /\ F \in Seq(Words) /\ w \in Seq(Words)
    BY StatementIs
  <2>2. n \in Nat /\ n # 0
    BY <2>1
  <2>3. Len(t) = n
    BY <2>2
  <2> HIDE DEF n
  <2>4. n >= 1
    BY <2>2
  <2> QED BY <2>1, <2>2, <2>3, <2>4 DEF CteWords
<1>2. PICK f : Concatenates(f, t, Words)
  BY <1>1, ConcatenationExists
<1>3. F = f[n]
  <2> HIDE DEF t, F, n
  <2> QED BY <1>1, <1>2, FlattenConcatenates
<1>4. n \in 1..n /\ n - 1 \in 0..n /\ s.ctes[n] \in Many!Cte
  BY <1>1, ElementOfSeq
<1> DEFINE x == Many!CteTokens(s.ctes[n])
           y == f[n - 1]
<1>5. F = y \o x /\ y \in Seq(Words)
  <2>1. f[n] = f[n - 1] \o t[n] /\ f[n - 1] \in Seq(Words)
    BY <1>1, <1>2, <1>4 DEF Concatenates
  <2>2. t[n] = x
    BY <1>4
  <2> QED BY <1>3, <2>1, <2>2
<1>6. PICK z \in Seq(Words) : x = z \o <<Many!Closed>> /\ x \in Seq(Words)
  <2> DEFINE c == s.ctes[n]
             z == <<"x", "as", Many!Opened>> \o Notes(c.note) \o Many!BodyTokens(c.body)
  <2>1. /\ <<"x", "as", Many!Opened>> \in Seq(Words) /\ Notes(c.note) \in Seq(Words)
        /\ Many!BodyTokens(c.body) \in Seq(Words)
        /\ x = z \o <<Many!Closed>> /\ x \in Seq(Words)
    BY <1>4, CteIs
  <2>2. <<"x", "as", Many!Opened>> \o Notes(c.note) \in Seq(Words)
    BY <2>1, ConcatProperties
  <2>3. z \in Seq(Words)
    BY <2>1, <2>2, ConcatProperties
  <2> QED BY <2>1, <2>3
<1> DEFINE e == <<Many!Closed>>
<1>7. e \in Seq(Words) /\ Len(e) = 1 /\ e[1] = Many!Closed
  BY DEF Words, Marks
<1> HIDE DEF t, n, F, w, x, y, e
<1> DEFINE u == w \o (y \o z)
<1>8. u \in Seq(Words) /\ w \o F = u \o e
  <2>1. y \o (z \o e) = (y \o z) \o e
    <3>1. y \in Seq(Words) /\ z \in Seq(Words) /\ e \in Seq(Words)
      BY <1>5, <1>6, <1>7
    <3> QED BY <3>1, ConcatAssociative, SMTT(30)
  <2>2. y \o z \in Seq(Words)
    BY <1>5, <1>6, ConcatProperties
  <2> DEFINE v == y \o z
  <2>3. F = v \o e /\ v \in Seq(Words)
    BY <1>5, <1>6, <2>1, <2>2 DEF e
  <2> HIDE DEF v
  <2>4. w \o (v \o e) = (w \o v) \o e /\ w \o v \in Seq(Words)
    <3>1. w \in Seq(Words) /\ v \in Seq(Words) /\ e \in Seq(Words)
      BY <1>1, <1>7, <2>3
    <3>2. w \o (v \o e) = (w \o v) \o e
      BY <3>1, ConcatAssociative, SMTT(30)
    <3>3. w \o v \in Seq(Words)
      BY <3>1, ConcatProperties
    <3> QED BY <3>2, <3>3
  <2> QED BY <2>3, <2>4 DEF v
<1> HIDE DEF u
<1>9. /\ Len(u \o e) = Len(u) + Len(e) /\ Len(u) \in Nat
      /\ \A k \in 1..Len(e) : (u \o e)[Len(u) + k] = e[k]
  <2>1. u \in Seq(Words) /\ e \in Seq(Words)
    BY <1>7, <1>8
  <2> QED BY <2>1, ConcatElements
<1>10. Len(u \o e) >= 1 /\ (u \o e)[Len(u \o e)] = Many!Closed
  BY <1>7, <1>9
<1> QED BY <1>8, <1>10 DEF w, F

\* The words of a statement that modifies data are seen to, unless a comment hides it.
LEMMA ModificationSeen ==
  ASSUME NEW s \in Many!Statement, Many!ModifiesData(s), ~Many!HiddenUpdate(s)
  PROVE  Many!SQLRootIsDML(Many!Tokens(s))
<1>1. CASE s.ctes = <<>>
  <2>1. s.body.verb \in Many!Dml
    BY <1>1 DEF Many!ModifiesData
  <2> QED BY <1>1, <2>1, RootIs
<1>2. CASE s.ctes # <<>>
  <2> DEFINE w == With(s) \o CteWords(s)
  <2>1. /\ w \in Seq(Words) /\ Many!BodyTokens(s.body) \in Seq(Words) /\ s.body \in Many!Body
        /\ s.ctes \in Seq(Many!Cte) /\ With(s) \in Seq(Words)
        /\ [i \in 1..Len(s.ctes) |-> Many!CteTokens(s.ctes[i])] \in Seq(Seq(Words))
    BY StatementIs
  <2>2. CASE \E i \in 1..Len(s.ctes) : s.ctes[i].body.verb \in Many!Dml
    <3>1. PICK i \in 1..Len(s.ctes) : s.ctes[i].body.verb \in Many!Dml
      BY <2>2
    <3>2. s.ctes[i] \in Many!Cte
      BY <2>1, ElementOfSeq
    <3>3. s.ctes[i].body.verb = "update" =>
             \A k \in 1..Len(s.ctes[i].note) :
               ~(s.ctes[i].note[k].kind = "line" /\ s.ctes[i].note[k].word = "for")
      BY DEF Many!HiddenUpdate
    <3>4. Many!CteTokens(s.ctes[i]) \in Modifying
      BY <3>1, <3>2, <3>3, CteModifies
    <3> DEFINE t == [k \in 1..Len(s.ctes) |-> Many!CteTokens(s.ctes[k])]
    <3>5. t \in Seq(Seq(Words)) /\ i \in 1..Len(t) /\ t[i] \in Modifying /\ CteWords(s) = FlattenSeq(t)
      BY <2>1, <3>4 DEF CteWords
    <3> HIDE DEF t
    <3>6. PICK f : Concatenates(f, t, Words)
      BY <3>5, ConcatenationExists
    <3>7. CteWords(s) = f[Len(t)]
      BY <3>5, <3>6, FlattenConcatenates
    <3>8. i \in 0..Len(t) /\ i - 1 \in 0..Len(t)
      BY <3>5
    <3>9. f[i] = f[i - 1] \o t[i] /\ f[i - 1] \in Seq(Words)
      BY <3>5, <3>6, <3>8 DEF Concatenates
    <3>10. f[i] \in Modifying
      BY <3>5, <3>9, ModifyingAfter
    <3>11. \A a \in Modifying \cap Seq(Words), b \in Seq(Words) : a \o b \in Modifying
      BY ModifyingBefore
    <3>12. CteWords(s) \in Modifying
      BY <3>5, <3>6, <3>7, <3>8, <3>10, <3>11, ConcatenationKeeps
    <3>13. w \in Modifying
      BY <2>1, <3>12, ModifyingAfter
    <3> HIDE DEF w
    <3>14. w \o Many!BodyTokens(s.body) \in Modifying
      BY <2>1, <3>13, ModifyingBefore
    <3> QED BY <1>2, <3>14, ModifyingFound, RootIs DEF w, Rest
  <2>3. CASE s.body.verb \in Many!Dml
    <3>1. Len(w) >= 1 /\ w[Len(w)] = Many!Closed
      BY <1>2, CtesClose
    <3> HIDE DEF w
    <3>2. Many!Closed \notin White \cup {"for", "key"}
      BY MarksDiffer DEF Keywords, Marks
    <3> DEFINE j == Len(w)
    <3>3. j \in 1..Len(w) /\ (\A k \in (j + 1)..Len(w) : w[k] \in White) /\ w[j] = Many!Closed
      <4>1. Len(w) \in Nat
        BY <2>1, LenProperties
      <4> QED BY <3>1, <4>1
    <3> HIDE DEF j
    <3>4. w \o Many!BodyTokens(s.body) \in Modifying
      BY <2>1, <2>3, <3>2, <3>3, VerbModifies
    <3> QED BY <1>2, <3>4, ModifyingFound, RootIs DEF w, Rest
  <2> QED BY <2>2, <2>3 DEF Many!ModifiesData
<1> QED BY <1>1, <1>2

-----------------------------------------------------------------------------
(* A statement that only reads is taken for one: its FOR UPDATE is a lock. *)

Locking ==
  {t \in Seq(Words) :
     \A p \in 1..Len(t) : t[p] \in Many!Dml =>
       /\ t[p] = "update" /\ p > 1
       /\ \/ t[p - 1] = "for"
          \/ t[p - 1] = "key" /\ p > 3 /\ t[p - 2] = "no" /\ t[p - 3] = "for"}

LEMMA LockingReads ==
  ASSUME NEW t \in Locking
  PROVE  ~Many!ContainsDMLKeyword(t)
<1> SUFFICES ASSUME NEW p \in 1..Len(t), t[p] \in Many!Dml
             PROVE  t[p] = "update" /\ Many!LockingUpdate(t, p)
  BY DEF Many!ContainsDMLKeyword
<1>1. /\ t[p] = "update" /\ p > 1
      /\ \/ t[p - 1] = "for"
         \/ t[p - 1] = "key" /\ p > 3 /\ t[p - 2] = "no" /\ t[p - 3] = "for"
  BY DEF Locking
<1>2. t[p - 1] \notin White
  BY <1>1, MarksDiffer DEF Keywords, Marks, White
<1> DEFINE j == p - 1
<1>3. p \in Nat /\ j \in 1..(p - 1) /\ j - 1 = p - 2 /\ j - 2 = p - 3 /\ (p > 3 => j > 2)
  BY <1>1
<1>4. \A k \in (j + 1)..(p - 1) : t[k] \in White
  BY <1>3
<1> HIDE DEF j
<1>5. t[j] \notin White
  BY <1>2 DEF j
<1>6. Many!WordBefore(t, p) = j
  BY <1>3, <1>4, <1>5, WordBeforeIs
<1>7. t[j] = "for" \/ (t[j] = "key" /\ j > 2 /\ t[j - 1] = "no" /\ t[j - 2] = "for")
  BY <1>1, <1>3 DEF j
<1>8. j > 0
  BY <1>3
<1> QED BY <1>1, <1>6, <1>7, <1>8, Zenon DEF Many!LockingUpdate

LEMMA LockingConcat ==
  ASSUME NEW a \in Locking, NEW b \in Locking
  PROVE  a \o b \in Locking
<1>1. a \in Seq(Words) /\ b \in Seq(Words)
  BY DEF Locking
<1>2. /\ a \o b \in Seq(Words) /\ Len(a \o b) = Len(a) + Len(b) /\ Len(a) \in Nat /\ Len(b) \in Nat
      /\ \A p \in 1..Len(a) : p \in 1..Len(a \o b) /\ (a \o b)[p] = a[p]
      /\ \A k \in 1..Len(b) : Len(a) + k \in 1..Len(a \o b) /\ (a \o b)[Len(a) + k] = b[k]
  BY <1>1, ConcatElements
<1> DEFINE c == a \o b
           n == Len(a)
<1> HIDE DEF c, n
<1>3. /\ c \in Seq(Words) /\ Len(c) = n + Len(b) /\ n \in Nat /\ Len(b) \in Nat /\ n = Len(a)
      /\ \A p \in 1..n : c[p] = a[p]
      /\ \A k \in 1..Len(b) : c[n + k] = b[k]
  BY <1>2 DEF c, n
<1>4. ASSUME NEW p \in 1..Len(c), c[p] \in Many!Dml
      PROVE  /\ c[p] = "update" /\ p > 1
             /\ \/ c[p - 1] = "for"
                \/ c[p - 1] = "key" /\ p > 3 /\ c[p - 2] = "no" /\ c[p - 3] = "for"
  <2>1. CASE p \in 1..n
    <3>1. /\ a[p] = "update" /\ p > 1
          /\ \/ a[p - 1] = "for"
             \/ a[p - 1] = "key" /\ p > 3 /\ a[p - 2] = "no" /\ a[p - 3] = "for"
      BY <1>3, <1>4, <2>1 DEF Locking
    <3>2. p - 1 \in 1..n /\ (p > 3 => p - 2 \in 1..n /\ p - 3 \in 1..n)
      BY <1>3, <2>1, <3>1
    <3> QED BY <1>3, <2>1, <3>1, <3>2
  <2>2. CASE p \notin 1..n
    <3> DEFINE q == p - n
    <3>1. q \in 1..Len(b) /\ n + q = p
      BY <1>3, <2>2
    <3> HIDE DEF q
    <3>2. /\ b[q] = "update" /\ q > 1 /\ c[p] = b[q]
          /\ \/ b[q - 1] = "for"
             \/ b[q - 1] = "key" /\ q > 3 /\ b[q - 2] = "no" /\ b[q - 3] = "for"
      BY <1>3, <1>4, <3>1 DEF Locking
    <3>3. /\ q - 1 \in 1..Len(b) /\ n + (q - 1) = p - 1 /\ p > 1
          /\ q > 3 => /\ q - 2 \in 1..Len(b) /\ n + (q - 2) = p - 2
                      /\ q - 3 \in 1..Len(b) /\ n + (q - 3) = p - 3 /\ p > 3
      BY <1>3, <3>1, <3>2
    <3>4. c[p - 1] = b[q - 1] /\ (q > 3 => c[p - 2] = b[q - 2] /\ c[p - 3] = b[q - 3])
      BY <1>3, <3>3
    <3> QED BY <3>2, <3>3, <3>4
  <2> QED BY <2>1, <2>2
<1>5. c \in Locking
  BY <1>3, <1>4 DEF Locking
<1> QED BY <1>5 DEF c

LEMMA LockingWords ==
  ASSUME NEW t \in Seq(Words), \A p \in 1..Len(t) : t[p] \notin Many!Dml
  PROVE  t \in Locking
BY DEF Locking

LEMMA SelectLocks ==
  ASSUME NEW b \in Many!Body, b.verb = "select",
         \A k \in 1..Len(b.lock) : b.lock[k] # Many!Gap
  PROVE  Many!BodyTokens(b) \in Locking
<1> DEFINE v == <<"select", "x">>
           l == b.lock
<1>0. {"for", "no", "key", "update", "select", "x"} \subseteq Words
  BY DEF Words, Keywords
<1>1. v \in Locking
  <2>1. v \in Seq(Words) /\ \A p \in 1..Len(v) : v[p] \in {"select", "x"}
    BY <1>0
  <2>2. {"select", "x"} \cap Many!Dml = {}
    BY DEF Many!Dml
  <2> HIDE DEF v
  <2> QED BY <2>1, <2>2, LockingWords
<1>2. b.lock = <<>> \/ b.lock = <<"for", "update">> \/ b.lock = <<"for", "no", "key", "update">>
  <2>1. \/ b.lock = <<>> \/ b.lock = <<"for", "update">> \/ b.lock = <<"for", "no", "key", "update">>
        \/ b.lock = <<"for", "no", Many!Gap, "key", "update">>
    BY BodyWords, Zenon DEF Many!Lock
  <2>2. b.lock # <<"for", "no", Many!Gap, "key", "update">>
    <3> SUFFICES ASSUME b.lock = <<"for", "no", Many!Gap, "key", "update">> PROVE FALSE
      OBVIOUS
    <3>1. 3 \in 1..Len(b.lock) /\ b.lock[3] = Many!Gap
      OBVIOUS
    <3> QED BY <3>1
  <2> QED BY <2>1, <2>2
<1>3. "for" \notin Many!Dml /\ "no" \notin Many!Dml /\ "key" \notin Many!Dml
  BY DEF Many!Dml
<1>4. <<>> \in Locking
  BY EmptySeq DEF Locking
<1>5. <<"for", "update">> \in Locking
  <2> DEFINE u == <<"for", "update">>
  <2>1. u \in Seq(Words) /\ Len(u) = 2 /\ u[1] = "for" /\ u[2] = "update"
    BY <1>0
  <2> HIDE DEF u
  <2>2. ASSUME NEW p \in 1..Len(u), u[p] \in Many!Dml
        PROVE  u[p] = "update" /\ p > 1 /\ u[p - 1] = "for"
    <3>1. p = 2 /\ p - 1 = 1
      BY <1>3, <2>1, <2>2
    <3> QED BY <2>1, <3>1
  <2>3. u \in Locking
    BY <2>1, <2>2 DEF Locking
  <2> QED BY <2>3 DEF u
<1>6. <<"for", "no", "key", "update">> \in Locking
  <2> DEFINE u == <<"for", "no", "key", "update">>
  <2>1. /\ u \in Seq(Words) /\ Len(u) = 4 /\ u[1] = "for" /\ u[2] = "no"
        /\ u[3] = "key" /\ u[4] = "update"
    BY <1>0
  <2> HIDE DEF u
  <2>2. ASSUME NEW p \in 1..Len(u), u[p] \in Many!Dml
        PROVE  /\ u[p] = "update" /\ p > 1
               /\ u[p - 1] = "key" /\ p > 3 /\ u[p - 2] = "no" /\ u[p - 3] = "for"
    <3>1. p = 4 /\ p - 1 = 3 /\ p - 2 = 2 /\ p - 3 = 1
      BY <1>3, <2>1, <2>2
    <3> QED BY <2>1, <3>1
  <2>3. u \in Locking
    BY <2>1, <2>2 DEF Locking
  <2> QED BY <2>3 DEF u
<1>7. Many!BodyTokens(b) = v \o l /\ l \in Locking
  BY <1>2, <1>4, <1>5, <1>6 DEF Many!BodyTokens
<1> HIDE DEF v, l
<1> QED BY <1>1, <1>7, LockingConcat

LEMMA CteLocks ==
  ASSUME NEW c \in Many!Cte, c.body.verb = "select",
         \A k \in 1..Len(c.body.lock) : c.body.lock[k] # Many!Gap,
         \A k \in 1..Len(c.note) : c.note[k].word \notin Many!Dml
  PROVE  Many!CteTokens(c) \in Locking
<1> DEFINE o == <<"x", "as", Many!Opened>>
           n == Notes(c.note)
           b == Many!BodyTokens(c.body)
           e == <<Many!Closed>>
<1>1. /\ c.note \in Many!OptionalComment /\ c.body \in Many!Body
      /\ o \in Seq(Words) /\ e \in Seq(Words) /\ n \in Seq(Words) /\ b \in Seq(Words)
      /\ Many!CteTokens(c) = ((o \o n) \o b) \o e
  BY CteIs
<1>0. Marks \cap Many!Dml = {} /\ "x" \notin Many!Dml /\ "as" \notin Many!Dml
  BY MarksDiffer DEF Keywords, Many!Dml
<1>2. o \in Locking
  <2>1. \A p \in 1..Len(o) : o[p] \in {"x", "as", Many!Opened}
    OBVIOUS
  <2> HIDE DEF o
  <2> QED BY <1>0, <1>1, <2>1, LockingWords DEF Marks
<1>3. e \in Locking
  <2>1. \A p \in 1..Len(e) : e[p] = Many!Closed
    OBVIOUS
  <2> HIDE DEF e
  <2> QED BY <1>0, <1>1, <2>1, LockingWords DEF Marks
<1>4. n \in Locking
  <2>1. CASE n = <<>>
    <3>1. \A p \in 1..Len(n) : n[p] \notin Many!Dml
      BY <2>1
    <3> QED BY <1>1, <3>1, LockingWords
  <2>2. CASE n # <<>>
    <3>1. PICK d \in Many!Comment : c.note = <<d>> /\ n = Many!CommentTokens(d)
      BY <1>1, <2>2, NotesAre
    <3>2. 1 \in 1..Len(c.note) /\ c.note[1] = d
      BY <3>1
    <3>3. d.word \notin Many!Dml
      BY <3>2
    <3>4. Len(n) = 3 /\ n[1] \in Marks /\ n[2] = d.word /\ n[3] \in Marks
      BY <3>1, CommentsEndThere DEF Marks
    <3> HIDE DEF n
    <3>5. \A p \in 1..Len(n) : n[p] \notin Many!Dml
      BY <1>0, <3>3, <3>4
    <3> QED BY <1>1, <3>5, LockingWords
  <2> QED BY <2>1, <2>2
<1>5. b \in Locking
  BY <1>1, SelectLocks
<1> HIDE DEF o, n, b, e
<1>6. o \o n \in Locking
  BY <1>2, <1>4, LockingConcat
<1>7. (o \o n) \o b \in Locking
  BY <1>5, <1>6, LockingConcat
<1> QED BY <1>1, <1>3, <1>7, LockingConcat

LEMMA ReadSeen ==
  ASSUME NEW s \in Many!Statement, Many!ReadsOnly(s), ~Many!SpacedLock(s)
  PROVE  ~Many!SQLRootIsDML(Many!Tokens(s))
<1>1. s.body.verb \notin Many!Dml /\ \A i \in 1..Len(s.ctes) : s.ctes[i].body.verb \notin Many!Dml
  BY DEF Many!ReadsOnly, Many!ModifiesData
<1>2. CASE s.ctes = <<>>
  BY <1>1, <1>2, RootIs
<1>3. CASE s.ctes # <<>>
  <2> DEFINE t == [i \in 1..Len(s.ctes) |-> Many!CteTokens(s.ctes[i])]
             b == Many!BodyTokens(s.body)
  <2>1. /\ s.ctes \in Seq(Many!Cte) /\ s.body \in Many!Body /\ t \in Seq(Seq(Words))
        /\ CteWords(s) = FlattenSeq(t)
    BY StatementIs DEF CteWords
  <2>2. ASSUME NEW i \in 1..Len(s.ctes) PROVE Many!CteTokens(s.ctes[i]) \in Locking
    <3>1. s.ctes[i] \in Many!Cte
      BY <2>1, ElementOfSeq
    <3>2. s.ctes[i].body.verb \notin Many!Dml
      BY <1>1
    <3>3. s.ctes[i].body.verb = "select"
      BY <3>1, <3>2, CteIs, BodyWords
    <3>4. \A k \in 1..Len(s.ctes[i].note) : s.ctes[i].note[k].word \notin Many!Dml
      BY DEF Many!ReadsOnly
    <3>5. \A k \in 1..Len(s.ctes[i].body.lock) : s.ctes[i].body.lock[k] # Many!Gap
      BY <1>3 DEF Many!SpacedLock
    <3> QED BY <3>1, <3>3, <3>4, <3>5, CteLocks
  <2>3. \A i \in 1..Len(t) : t[i] \in Locking
    BY <2>2
  <2>4. b \in Locking
    <3>1. \A k \in 1..Len(s.body.lock) : s.body.lock[k] # Many!Gap
      BY <1>3 DEF Many!SpacedLock
    <3> QED BY <1>1, <2>1, <3>1, BodyWords, SelectLocks
  <2> HIDE DEF t, b
  <2>5. <<>> \in Locking
    BY EmptySeq DEF Locking
  <2>6. \A x, y \in Locking \cap Seq(Words) : x \o y \in Locking
    BY LockingConcat
  <2>7. CteWords(s) \in Locking
    BY <2>1, <2>3, <2>5, <2>6, FlattenIn
  <2>8. With(s) \in Locking
    <3> DEFINE w == <<"with">>
    <3>1. With(s) = w
      BY <1>3 DEF With
    <3>2. w \in Seq(Words) /\ \A p \in 1..Len(w) : w[p] = "with"
      BY DEF Words, Keywords
    <3>3. "with" \notin Many!Dml
      BY DEF Many!Dml
    <3> HIDE DEF w
    <3> QED BY <3>1, <3>2, <3>3, LockingWords
  <2>9. With(s) \o CteWords(s) \in Locking
    BY <2>7, <2>8, LockingConcat
  <2>10. (With(s) \o CteWords(s)) \o b \in Locking
    BY <2>4, <2>9, LockingConcat
  <2> QED BY <1>3, <2>10, LockingReads, RootIs DEF Rest, b
<1> QED BY <1>2, <1>3

-----------------------------------------------------------------------------
\* What the words of the statement decided: the form of the function, and through it
\* when its statement runs.
FormInv ==
  /\ statement \in Many!Statement
  /\ writes \in {"nothing", "refused", "awaited", "buffered", "stream"}
  /\ writes \in {"buffered", "stream"} => ~Many!SQLRootIsDML(Many!Tokens(statement))
  /\ writes = "awaited" /\ cmd = "many" => Many!SQLRootIsDML(Many!Tokens(statement))
  /\ runs \in {"iterator", "cursor refused"} => writes \in {"buffered", "stream"}

\* A WITH query that does not exist needs no bound.
LEMMA PlainStatements ==
  ASSUME NEW b \in Many!Body
  PROVE  [lead |-> <<>>, ctes |-> <<>>, body |-> b] \in Many!Statement
<1>1. <<>> \in Many!OptionalComment
  BY DEF Many!OptionalComment
<1>2. <<>> \in UNION {[1..n -> Many!Cte] : n \in 0..MaxCtes}
  <2>1. 0 \in 0..MaxCtes
    BY Bounds
  <2>2. <<>> \in [1..0 -> Many!Cte]
    OBVIOUS
  <2> QED BY <2>1, <2>2
<1> QED BY <1>1, <1>2 DEF Many!Statement

LEMMA FormInit == Init => FormInv
<1> SUFFICES ASSUME Init PROVE FormInv
  OBVIOUS
<1>1. PlainSelect \in Many!Statement /\ [PlainSelect EXCEPT !.body.verb = "insert"] \in Many!Statement
  <2> DEFINE select == [verb |-> "select", lock |-> <<>>]
             insert == [verb |-> "insert", lock |-> <<>>]
  <2>1. select \in Many!Body /\ insert \in Many!Body
    BY DEF Many!Body, Many!Lock, Many!Dml
  <2>2. PlainSelect = [lead |-> <<>>, ctes |-> <<>>, body |-> select]
    BY DEF PlainSelect
  <2>3. [PlainSelect EXCEPT !.body.verb = "insert"] = [lead |-> <<>>, ctes |-> <<>>, body |-> insert]
    BY DEF PlainSelect
  <2> HIDE DEF select, insert
  <2> QED BY <2>1, <2>2, <2>3, PlainStatements
<1> USE DEF FormInv
<1>2. CASE PlainStatement
  BY <1>1, <1>2 DEF PlainStatement
<1>3. CASE StatementVaries
  BY <1>3 DEF StatementVaries, Many!Init
<1>4. CASE DocstringsVary
  BY <1>1, <1>4 DEF DocstringsVary
<1> QED BY <1>2, <1>3, <1>4 DEF Init, ArgumentsVary, RowsVary, TypesVary

LEMMA FormStep == FormInv /\ [Next]_vars => FormInv'
<1> SUFFICES ASSUME FormInv, [Next]_vars PROVE FormInv'
  OBVIOUS
<1>1. UNCHANGED cmd /\ (ManyStep \/ UNCHANGED manyVars)
  BY PartSteps DEF query
<1> USE DEF FormInv
<1>2. CASE UNCHANGED manyVars
  BY <1>1, <1>2 DEF manyVars
<1>3. CASE Many!Write
  <2> DEFINE root == Many!SQLRootIsDML(Many!Tokens(statement))
  <2>1. UNCHANGED <<statement, cmd, runs>> /\ writes = "nothing"
    BY <1>1, <1>3 DEF Many!Write
  <2>2. /\ writes' \in {"refused", "awaited", "buffered", "stream"}
        /\ writes' \in {"buffered", "stream"} => ~root
        /\ writes' = "awaited" /\ cmd = "many" => root
    BY <1>3 DEF Many!Write, Many!Awaited
  <2>3. root' <=> root
    BY <2>1
  <2> HIDE DEF root
  <2>4. writes' \in {"buffered", "stream"} => ~root'
    BY <2>2, <2>3
  <2>5. writes' = "awaited" /\ cmd' = "many" => root'
    BY <2>1, <2>2, <2>3
  <2>6. runs' \notin {"iterator", "cursor refused"} /\ statement' \in Many!Statement
    BY <2>1
  <2> QED BY <2>2, <2>4, <2>5, <2>6 DEF root
<1>4. CASE Many!Call
  BY <1>1, <1>4 DEF Many!Call
<1>5. CASE Many!Iterate
  BY <1>1, <1>5 DEF Many!Iterate
<1> QED BY <1>1, <1>2, <1>3, <1>4, <1>5 DEF ManyStep

LEMMA FormInvRuns == FormInv => WritesRun
BY ModificationSeen DEF FormInv, WritesRun, Many!WritesRun

LEMMA FormInvReads == FormInv => ReadsStayIterators
BY ReadSeen DEF FormInv, ReadsStayIterators, Many!ReadsStayIterators

\* A :many that modifies data runs when it is called and never over a cursor,
\* whatever comments and WITH queries its text has (SQLRootIsDML), except for the
\* UPDATE that a line comment ending in `for' hides.
THEOREM WritesAreRun == Spec => []WritesRun
<1> QED BY FormInit, FormStep, FormInvRuns, PTL DEF Spec

\* A :many that only reads stays an iterator: its FOR UPDATE, its FOR NO KEY UPDATE
\* with one space between the words, and the words of its comments are not taken for
\* a modification (isLockingUpdate).
THEOREM ReadsAreIterators == Spec => []ReadsStayIterators
<1> QED BY FormInit, FormStep, FormInvReads, PTL DEF Spec

-----------------------------------------------------------------------------
(* The type invariant. *)

\* A :many or a :one is called in the form it was written.
ManyInv ==
  ReturnsRows =>
    /\ writes \in {"nothing", "refused", "awaited", "buffered", "stream"}
    /\ runs \in {"none", "ran", "iterator", "cursor refused"}
    /\ runs # "none" => writes \in {"awaited", "buffered", "stream"}
    /\ cmd = "one" => writes \notin {"buffered", "stream"}

\* Nothing is called before its imports are written, or read before it is called.
CallerInv ==
  /\ function = "called" => types = "imported"
  /\ decoding \in {"read", "no row"} => function = "called"

LEMMA ManyInit == Init => ManyInv
BY DEF Init, ArgumentsVary, StatementVaries, RowsVary, TypesVary, DocstringsVary, PlainStatement,
       Many!Init, ManyInv

LEMMA ManyStepInv == ManyInv /\ [Next]_vars => ManyInv'
<1> SUFFICES ASSUME ManyInv, [Next]_vars, ReturnsRows PROVE ManyInv'
  BY PartSteps DEF ManyInv, ReturnsRows, query
<1>1. UNCHANGED cmd /\ (ManyStep \/ UNCHANGED manyVars)
  BY PartSteps DEF query
<1> USE DEF ManyInv, ReturnsRows
<1>2. CASE UNCHANGED manyVars
  BY <1>1, <1>2 DEF manyVars
<1>3. CASE Many!Write
  BY <1>1, <1>3 DEF Many!Write, Many!Awaited
<1>4. CASE Many!Call
  BY <1>1, <1>4 DEF Many!Call
<1>5. CASE Many!Iterate
  BY <1>1, <1>5 DEF Many!Iterate
<1> QED BY <1>1, <1>2, <1>3, <1>4, <1>5 DEF ManyStep

LEMMA CallerInit == Init => CallerInv
BY DEF Init, ArgumentsVary, StatementVaries, RowsVary, TypesVary, DocstringsVary, CallerInv,
       Params!Init, Rows!Init, NoArguments, PlainResult, TypedResult, ResultOf

LEMMA CallerStep == CallerInv /\ [Next]_vars => CallerInv'
<1> SUFFICES ASSUME CallerInv, [Next]_vars PROVE CallerInv'
  OBVIOUS
<1>1. /\ TypesStep \/ UNCHANGED typeVars
      /\ ParamsStep \/ UNCHANGED paramVars
      /\ RowsStep \/ UNCHANGED rowVars
  BY PartSteps
<1>2. types = "imported" => types' = "imported"
  BY <1>1 DEF TypesStep, typeVars, Types!Configure, Types!BuildTable, Types!BuildQuery, Types!ImportType
<1>3. function' = "called" => function = "called" \/ types = "imported"
  BY <1>1 DEF ParamsStep, paramVars, Params!BuildArgs, Params!WriteFunction, Params!Call
<1>4. function = "called" => function' = "called"
  BY <1>1 DEF ParamsStep, paramVars, Params!BuildArgs, Params!WriteFunction, Params!Call
<1>5. decoding' \in {"read", "no row"} => decoding \in {"read", "no row"} \/ function = "called"
  BY <1>1 DEF RowsStep, rowVars, Rows!WriteColumn, Rows!WriteScalar, Rows!DeclareAdapters,
              Rows!ReadRow, Rows!NoRow
<1> QED BY <1>2, <1>3, <1>4, <1>5 DEF CallerInv

LEMMA TypesInvTyped == TypesInv => Types!TypeOK
<1> SUFFICES ASSUME TypesInv PROVE Types!TypeOK
  OBVIOUS
<1>1. FirstOverride(column) \in 0..Len(overrides) /\ FirstOverride(Types!TableColumn) \in 0..Len(overrides)
  BY FirstOverrideRange DEF TypesInv
<1>2. Types!None.override = 0 /\ Len(overrides) \in Nat
  BY DEF Types!None, TypesInv
<1>3. field.override \in 0..Len(overrides) /\ ret.override \in 0..Len(overrides)
  BY <1>1, <1>2, PythonTypeIs DEF TypesInv
<1>4. ASSUME ret.override # 0 PROVE field # Types!None
  <2>1. field = Types!PythonType(Types!TableColumn)
    BY <1>2, <1>4 DEF TypesInv
  <2> DEFINE o == FirstOverride(Types!TableColumn)
  <2>2. CASE o = 0
    BY <2>1, <2>2, PythonTypeIs, AbsentNames DEF Types!None, Types!TableColumn, Types!Column
  <2>3. CASE o # 0
    BY <1>2, <2>1, <2>3, PythonTypeIs
  <2> QED BY <2>2, <2>3
<1> QED BY <1>3, <1>4 DEF Types!TypeOK, TypesInv

LEMMA ParamInvTyped == ParamInv => Params!TypeOK
BY DEF ParamInv, Params!TypeOK, Params!Bundle

LEMMA RowsInvTyped == RowsInv => Rows!TypeOK
<1> SUFFICES ASSUME RowsInv PROVE Rows!TypeOK
  OBVIOUS
<1>1. ResultInv
  BY DEF RowsInv
<1>a. Len(columns) \in Nat /\ next \in 1..(Len(columns) + 1)
  BY <1>1, PositionsAre DEF RowsInv
<1>2. next - 1 \in 0..Len(columns)
  BY <1>a
<1>3. rowIdx = Len(reads) /\ rowIdx <= Len(Rows!Positions)
  <2>1. CASE shape = "struct"
    <3>1. rowIdx = Len(PositionsUpto[next - 1]) /\ reads = StructReads
      BY <2>1 DEF RowsInv
    <3>2. Len(PositionsUpto[next - 1]) \in Nat /\ Len(PositionsUpto[next - 1]) <= Len(Rows!Positions)
      BY <1>1, <1>2, PositionsTyped
    <3> QED BY <3>1, <3>2 DEF StructReads
  <2>2. CASE shape # "struct"
    <3>1. rowIdx = next - 1 /\ reads = ScalarReads /\ Len(columns) = 1
      BY <1>1, <2>2 DEF RowsInv, ResultInv
    <3>2. CASE next = 1
      <4>1. rowIdx = 0 /\ Len(reads) = 0
        BY <3>1, <3>2 DEF ScalarReads
      <4>2. 0 \in 0..Len(columns)
        BY <1>a
      <4>3. Len(PositionsUpto[0]) <= Len(Rows!Positions) /\ PositionsUpto[0] = <<>>
        BY <1>1, <4>2, PositionsTyped, NoPositions
      <4> QED BY <4>1, <4>3
    <3>3. CASE next = 2
      <4>1. rowIdx = 1 /\ Len(reads) = 1
        BY <3>1, <3>3 DEF ScalarReads
      <4>2. Len(reads) = Len(Rows!Positions)
        BY <3>1, <3>3, WrittenReads
      <4> QED BY <4>1, <4>2
    <3> QED BY <1>a, <3>1, <3>2, <3>3
  <2> QED BY <1>1, <2>1, <2>2 DEF ResultInv
<1>4. adapters \subseteq 1..Len(Rows!Positions)
  BY DEF RowsInv, Rows!ValidatedResultTypes
<1> QED BY <1>1, <1>a, <1>3, <1>4 DEF Rows!TypeOK, RowsInv, ResultInv

LEMMA InvTyped == TypesInv /\ ParamInv /\ RowsInv /\ ManyInv /\ CallerInv => TypeOK
BY TypesInvTyped, ParamInvTyped, RowsInvTyped DEF TypeOK, ManyInv, Many!TypeOK, CallerInv

\* The state of a query function stays well typed: it is called once its imports
\* are written and its rows are read once it was called.
THEOREM FunctionIsTyped == Spec => []TypeOK
<1> QED BY TypesInit, TypesStepInv, ParamInit, ParamStep, RowsInit, RowsStepInv, ManyInit, ManyStepInv,
           CallerInit, CallerStep, InvTyped, PTL DEF Spec
=============================================================================
