---------------------------- MODULE RowIteration -----------------------------
(***************************************************************************)
(* What iterating a QueryResults object promises to the consumers that     *)
(* hold it (the class docstring and the __next__ / __anext__ docstrings    *)
(* written by internal/codegen/builders/docstrings.go): the statement is    *)
(* executed when the iteration starts, every row is handed out once and in  *)
(* order, the stop is raised when no row is left, and the object can then   *)
(* be iterated again.  Only counts are kept: a Deliver hands out the row    *)
(* number taken + 1, or raises what the decode hook raises for it.  A call   *)
(* that the database fails may take rows with it, and raises: no row goes    *)
(* missing without an error, and none is handed out again.                  *)
(***************************************************************************)
EXTENDS Naturals

CONSTANTS
  Consumer,  \* those who call the object
  MaxRows    \* bound on the rows of one execution

VARIABLES
  open,    \* an execution is being iterated
  size,    \* the rows it has
  taken,   \* the rows that are gone: handed out, or lost with an error
  answer   \* the last call of each: pending, or what it returned or raised

vars == <<open, size, taken, answer>>

Init == open = FALSE /\ size = 0 /\ taken = 0 /\ answer = [c \in Consumer |-> "none"]

Answers(c, what) == answer' = [answer EXCEPT ![c] = what]

\* A call that waits for the database.
Ask(c) == Answers(c, "pending") /\ UNCHANGED <<open, size, taken>>

\* The statement is executed, and its first row or its end is still to come.
Start(c) ==
  /\ ~open
  /\ open' = TRUE /\ taken' = 0
  /\ size' \in 0..MaxRows
  /\ \E what \in {"pending", "error"} : Answers(c, what)

Deliver(c) ==
  /\ open /\ taken < size
  /\ taken' = taken + 1
  /\ \E what \in {"row", "error"} : Answers(c, what)
  /\ UNCHANGED <<open, size>>

\* A call that waits for the database fails, and rows may be lost with it.
Lose(c) ==
  /\ open /\ answer[c] = "pending"
  /\ taken' \in taken..size
  /\ Answers(c, "error")
  /\ UNCHANGED <<open, size>>

Stop(c) ==
  /\ open /\ taken = size
  /\ open' = FALSE /\ size' = 0 /\ taken' = 0
  /\ Answers(c, "stop")

\* A full fetch (__call__, __await__) returns all rows of an execution of its
\* own and leaves the iteration where it is; so does a call that fails.
Fetch(c) ==
  /\ \E what \in {"list", "error"} : Answers(c, what)
  /\ UNCHANGED <<open, size, taken>>

Next ==
  \E c \in Consumer :
    Ask(c) \/ Start(c) \/ Deliver(c) \/ Lose(c) \/ Stop(c) \/ Fetch(c)

Spec == Init /\ [][Next]_vars
=============================================================================
