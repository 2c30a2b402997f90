------------------------------ MODULE Docstrings ------------------------------
(***************************************************************************)
(* The header of a query function and the docstring under it.  The header   *)
(* is written by the driver from what prepareFunctionHeader gives it; the     *)
(* docstring by WriteQueryFunctionDocstring, which has a branch of its own    *)
(* for each command and, in it, for each convention                         *)
(* (codegen/queries.go, drivers/*.go, builders/docstrings.go).               *)
(*                                                                         *)
(* The types of arguments are left out: header and docstring take them from  *)
(* one FunctionArg.  The conventions differ in their layout only.            *)
(***************************************************************************)
EXTENDS Naturals, Sequences

VARIABLES
  driver, cmd, params,  \* as in ParamBinding
  args,                 \* gq.Args: "none", "flat" or "struct"
  awaits,               \* a :many of sqlalchemy that runs when it is called
  convention,           \* docstrings
  echo,                 \* docstrings_emit_sql
  classes,              \* emit_classes
  header,               \* the written parameters and the return annotation
  docstring             \* the sections written: the SQL, the parameters, the result

options == <<convention, echo, classes>>
given == <<driver, cmd, params, args, awaits>>

NoHeader == [params |-> <<>>, returns |-> ""]
NoDocstring == [sql |-> FALSE, params |-> <<>>, returns |-> ""]

Init ==
  /\ convention \in {"none", "numpy", "google", "pep257"} /\ echo \in BOOLEAN /\ classes \in BOOLEAN
  /\ header = NoHeader /\ docstring = NoDocstring

-----------------------------------------------------------------------------
(* prepareFunctionHeader and the `def' line of each driver. *)

Arguments ==
  CASE args = "none"   -> <<>>
    [] args = "flat"   -> [i \in 1..Len(params) |-> <<"argument", i>>]
    [] args = "struct" -> <<<<IF cmd = "copyfrom" THEN "records" ELSE "record", 0>>>>

Self == <<"self", 0>>
Connection == <<"conn", 0>>

\* The annotation, but for the type of a row.
Returns ==
  CASE cmd = "exec"                     -> "None"
    [] cmd \in {"execrows", "copyfrom"} -> "int"
    [] cmd = "execlastid"               -> "int | None"
    [] cmd = "execresult"               -> IF driver = "asyncpg" THEN "str" ELSE "Cursor"
    [] cmd = "one"                      -> "row | None"
    [] cmd = "many" /\ driver # "sqlalchemy" -> "QueryResults[row]"
    [] cmd = "many" /\ driver = "sqlalchemy" -> IF awaits THEN "list[row]" ELSE "AsyncIterator[row]"

WriteHeader ==
  /\ header = NoHeader
  /\ header' = [params |-> <<IF classes THEN Self ELSE Connection>> \o Arguments, returns |-> Returns]
  /\ UNCHANGED <<given, options, docstring>>

-----------------------------------------------------------------------------
(* WriteQueryFunctionDocstring.  docstringConnType is empty for a method. *)

\* A bug it could have: either condition taken for no parameters.
ParametersOfFunction ==
  IF Arguments = <<>> \/ classes THEN <<>> ELSE <<Connection>> \o Arguments

Parameters ==
  IF Arguments = <<>> /\ classes THEN <<>> ELSE (IF classes THEN <<>> ELSE <<Connection>>) \o Arguments

Sections(sql, returns) == [sql |-> sql, params |-> Parameters, returns |-> returns]

\* `:exec' has no section on a result.
Executed == Sections(echo, "None")

\* The number of rows, the id, or the result of the driver; `:copyfrom' has no SQL.
Affected ==
  Sections(echo /\ cmd # "copyfrom",
           CASE cmd = "execresult" -> IF driver = "asyncpg" THEN "str" ELSE "Cursor"
             [] cmd = "execlastid" -> "int | None"
             [] OTHER              -> "int")

\* `Will be `None` if not found.'; a :many is a QueryResults for every driver.
Fetched == Sections(echo, IF cmd = "one" THEN "row | None" ELSE "QueryResults[row]")

WriteDocstring ==
  /\ header # NoHeader /\ docstring = NoDocstring /\ convention # "none"
  /\ docstring' = CASE cmd = "exec"            -> Executed
                    [] cmd \in {"one", "many"} -> Fetched
                    [] OTHER                   -> Affected
  /\ UNCHANGED <<given, options, header>>

-----------------------------------------------------------------------------
\* A docstring lists the parameters of its function in their order, but for self,
\* and names what the function returns (README.md:364), although two functions
\* with a branch for each command write them.  For a :many of sqlalchemy it names
\* QueryResults, which that driver does not have (docstrings.go:695).
DocumentsSignature ==
  docstring # NoDocstring =>
    /\ docstring.params = IF Head(header.params) = Self THEN Tail(header.params) ELSE header.params
    /\ docstring.returns = header.returns \/ (cmd = "many" /\ driver = "sqlalchemy")
=============================================================================
