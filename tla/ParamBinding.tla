---------------------------- MODULE ParamBinding -----------------------------
(***************************************************************************)
(* What a generated query function sends to the database for the values    *)
(* its caller passes: buildQueries shapes the arguments (builders.go:263),   *)
(* the driver writes the call (drivers/*.go), Python evaluates it.           *)
(*                                                                         *)
(* Parameter i is the i-th of query.Params.  Its argument or field is named  *)
(* after it and the names are distinct (StructBuilder is about that), so a   *)
(* name is the index here.  sqlc numbers the parameters of a statement with  *)
(* positional placeholders in their order; the named binds of sqlalchemy     *)
(* follow any numbering.                                                    *)
(*                                                                         *)
(* External: evaluating the call in Python, and the binding of its second    *)
(* argument by the database library.                                        *)
(***************************************************************************)
EXTENDS Naturals, Sequences, FiniteSets

CONSTANTS
  MaxParams,  \* bound on the parameters of one query
  MaxLimit,   \* bound on query_parameter_limit
  MaxRecords  \* bound on the records of one :copyfrom call

VARIABLES
  driver, cmd,  \* the configured driver and the command of the query
  params,       \* query.Params: what the writers look at of each column
  number,       \* the placeholder number of each parameter
  limit,        \* query_parameter_limit
  args,         \* gq.Args: "none", "flat" or "struct"
  call,         \* the written argument expressions, see Written
  passed,       \* the records the caller passes: one, except to :copyfrom
  bound,        \* what the database gets, see Call
  status

vars == <<driver, cmd, params, number, limit, args, call, passed, bound, status>>
query == <<driver, cmd, params, number, limit>>

-----------------------------------------------------------------------------
(* The commands each driver accepts (supportedCMD and the tables it reads).  *)

Drivers == {"sqlite3", "aiosqlite", "asyncpg", "sqlalchemy"}
Commands == {"exec", "execresult", "execlastid", "execrows", "one", "many", "copyfrom"}

AcceptedCMDs ==
  [sqlite3    |-> Commands \ {"copyfrom"},
   aiosqlite  |-> Commands \ {"copyfrom"},
   asyncpg    |-> Commands \ {"execlastid"},
   sqlalchemy |-> {"exec", "execrows", "one", "many"}]

Param == [override : BOOLEAN, nullable : BOOLEAN]
Indices == 1..Len(params)
Permutations(S) == {f \in [S -> S] : \A x, y \in S : f[x] = f[y] => x = y}

Init ==
  /\ driver \in Drivers /\ cmd \in Commands
  /\ params \in UNION {[1..n -> Param] : n \in 0..MaxParams}
  /\ number \in IF driver = "sqlalchemy" THEN Permutations(Indices)
                ELSE {[i \in Indices |-> i]}
  /\ limit \in 0..MaxLimit
  /\ args = "none" /\ call = <<>> /\ passed = <<>> /\ bound = <<>>
  /\ status = "query"

-----------------------------------------------------------------------------
(* buildQueries *)

\* A bug it could have: bundling by count only.
BundleByCount == limit > 0 /\ Len(params) > limit

Bundle == cmd = "copyfrom" \/ (limit > 0 /\ Len(params) > limit)

BuildArgs ==
  /\ status = "query"
  /\ args' = IF Bundle THEN "struct" ELSE IF Len(params) >= 1 THEN "flat" ELSE "none"
  /\ status' = "args"
  /\ UNCHANGED <<query, call, passed, bound>>

-----------------------------------------------------------------------------
(* The writers.  An expression is an argument, or a field of the struct       *)
(* argument, possibly inside a constructor call of its database type.         *)

Arg(i, cast) == [of |-> "arg", index |-> i, cast |-> cast]
Field(i) == [of |-> "field", index |-> i, cast |-> FALSE]
Struct == [of |-> "struct", index |-> 0, cast |-> FALSE]

\* sqlite3WriteParams and asyncpgWriteParams: a tuple, or positional arguments,
\* of all gq.Args.  A struct is one of them: nothing looks into its fields.
Positional(cast) ==
  IF args = "struct" THEN <<Struct>>
  ELSE [i \in Indices |-> Arg(i, cast /\ params[i].override)]

\* A bug it could have: numbering the binds by their position.
NamedBindsByPosition ==
  [n \in Indices |-> IF args = "struct" THEN Field(n) ELSE Arg(n, FALSE)]

\* sqlalchemyWriteParams: a dict keyed by the placeholder number.
NamedBinds ==
  [n \in {number[i] : i \in Indices} |->
     LET i == CHOOSE i \in Indices : number[i] = n
     IN IF args = "struct" THEN Field(i) ELSE Arg(i, FALSE)]

\* asyncpg converts the arguments of :many, the sqlite drivers do not.
Written ==
  IF cmd = "copyfrom" THEN [i \in Indices |-> Field(i)]
  ELSE CASE driver = "sqlalchemy" -> NamedBinds
         [] driver = "asyncpg"    -> Positional(TRUE)
         [] OTHER                 -> Positional(cmd # "many")

WriteFunction ==
  /\ status = "args"
  /\ IF cmd \in AcceptedCMDs[driver]
       THEN call' = Written /\ status' = "written"
       ELSE status' = "unsupported" /\ UNCHANGED call
  /\ UNCHANGED <<query, args, passed, bound>>

-----------------------------------------------------------------------------
(* A call.  The caller passes a value of its type for each parameter, or None  *)
(* where the annotation allows it.                                           *)

Record == {r \in [Indices -> {"value", "None"}] :
             \A i \in Indices : r[i] = "None" => params[i].nullable}

\* str(None) is a text and int(None) raises: neither is the caller's None.
Evaluate(e, r) ==
  CASE e.of = "struct"                               -> <<"struct", 0>>
    [] e.of # "struct" /\ r[e.index] = "value"       -> <<"value of", e.index>>
    [] e.of # "struct" /\ r[e.index] = "None"        ->
         <<IF e.cast THEN "cast None" ELSE "None", e.index>>

Call ==
  /\ status = "written"
  /\ \E rs \in UNION {[1..n -> Record] : n \in IF cmd = "copyfrom" THEN 0..MaxRecords ELSE {1}} :
       /\ passed' = rs
       /\ bound' = [k \in DOMAIN rs |-> [n \in DOMAIN call |-> Evaluate(call[n], rs[k])]]
  /\ status' = "called"
  /\ UNCHANGED <<query, args, call>>

Next == BuildArgs \/ WriteFunction \/ Call

Spec == Init /\ [][Next]_vars

-----------------------------------------------------------------------------
(* Properties *)

\* What the placeholder of parameter i must get for record r.
Expected(i, r) == <<IF r[i] = "None" THEN "None" ELSE "value of", i>>

\* The type invariant: a function is written for accepted commands only, and a
\* struct argument is there when the arguments are bundled.
TypeOK ==
  /\ driver \in Drivers /\ cmd \in Commands
  /\ params \in Seq(Param) /\ limit \in 0..MaxLimit
  /\ args \in {"none", "flat", "struct"}
  /\ status \in {"query", "args", "written", "unsupported", "called"}
  /\ status \in {"written", "called"} => cmd \in AcceptedCMDs[driver]
  /\ cmd = "copyfrom" /\ status # "query" => args = "struct"

\* Separate arguments reach the placeholder of their parameter, and with sqlalchemy
\* so do bundled ones, whatever the order of the numbers (builders.go:263,
\* sqlalchemy.go:360): no value goes to another placeholder and none is dropped.
\* A None of an overridden parameter is left out: but for sqlalchemy, the
\* conversion takes it (asyncpg.go:240, sqlite3.go:323), see the hazards.
ArgumentsBound ==
  status = "called" /\ cmd # "copyfrom" /\ (args = "flat" \/ driver = "sqlalchemy") =>
    \A i \in Indices :
      \/ bound[1][number[i]] = Expected(i, passed[1])
      \/ driver # "sqlalchemy" /\ bound[1][number[i]] = <<"cast None", i>> /\ passed[1][i] = "None"

\* builders.go:265: "the args bundle into a generated `<Method>Params` struct passed
\* positionally as `arg` (body reads arg.field)".
BundledArgsBound ==
  status = "called" /\ args = "struct" /\ cmd # "copyfrom" =>
    \A k \in DOMAIN passed : \A i \in Indices :
      number[i] \in DOMAIN bound[k] /\ bound[k][number[i]] = Expected(i, passed[k])
=============================================================================
