-------------------------- MODULE SyncQueryResults ---------------------------
(***************************************************************************)
(* One QueryResults object of the sqlite3 driver, iterated by the `for'     *)
(* loops of one thread (sqlite3.go:138-161, query_results.go:5-71).         *)
(*                                                                         *)
(* __iter__ returns the object itself, so all loops share one position:     *)
(* a loop may be left by a break or by an exception, another one may start   *)
(* inside it or after it.                                                   *)
(*                                                                         *)
(* External: next() of a sqlite3 cursor may raise a database error.  It has  *)
(* then ended the cursor, which has no more rows to give, unless it was a    *)
(* value that could not be converted: that row is tried again.              *)
(***************************************************************************)
EXTENDS Naturals

CONSTANTS
  Loop,     \* the loops over the object
  MaxRows   \* bound on the rows of one execution

ASSUME RowBound == MaxRows \in Nat

VARIABLES
  cursor,    \* self._cursor: "rows" of the running execution, or "None"
  iterator,  \* self._iterator, likewise
  size,      \* the rows of that execution
  taken,     \* the rows its iterator has handed out
  lost,      \* the rows that went with a database error
  caller,    \* the loop that is inside __next__, or NoLoop
  in,        \* the loops that were entered and not left
  got,       \* what each loop was given since it was entered, up to MaxRows + 1
  whole,     \* history: the loops that had the object for themselves, from a
             \* time when every earlier loop had run to its end
  leftover,  \* history: a loop was left before its end
  answer     \* what the last call gave

vars == <<cursor, iterator, size, taken, lost, caller, in, got, whole, leftover, answer>>
position == <<cursor, iterator, size, taken, lost>>
loops == <<in, got, whole, leftover>>

NoLoop == "no loop"

Init ==
  /\ cursor = "None" /\ iterator = "None"
  /\ size = 0 /\ taken = 0 /\ lost = 0
  /\ caller = NoLoop
  /\ in = {} /\ got = [l \in Loop |-> 0] /\ whole = {} /\ leftover = FALSE
  /\ answer = "none"

\* `for row in results': iter() returns self.
EnterLoop(l) ==
  /\ caller = NoLoop /\ l \notin in
  /\ in' = in \union {l}
  /\ got' = [got EXCEPT ![l] = 0]
  /\ whole' = IF in = {} /\ ~leftover THEN {l} ELSE {}
  /\ UNCHANGED <<position, caller, leftover, answer>>

BreakLoop(l) ==
  /\ caller = NoLoop /\ l \in in
  /\ in' = in \ {l}
  /\ leftover' = (leftover \/ cursor # "None")
  /\ UNCHANGED <<position, caller, got, whole, answer>>

CallNext(l) ==
  /\ caller = NoLoop /\ l \in in
  /\ caller' = l /\ answer' = "pending"
  /\ UNCHANGED <<position, loops>>

-----------------------------------------------------------------------------
(* __next__ *)

\* The check at the top of __next__.
NotStarted == cursor = "None" \/ iterator = "None"

Execute ==
  /\ caller # NoLoop /\ NotStarted
  /\ size' \in 0..MaxRows /\ taken' = 0 /\ lost' = 0
  /\ cursor' = "rows" /\ iterator' = "rows"
  /\ UNCHANGED <<caller, answer, loops>>

\* conn.execute raises: nothing was assigned, the loop is left.
ExecuteFails ==
  /\ caller # NoLoop /\ NotStarted
  /\ caller' = NoLoop /\ answer' = "error"
  /\ in' = in \ {caller}
  /\ UNCHANGED <<position, got, whole, leftover>>

\* The row goes through the decode hook; when that raises, the loop is left.
Take ==
  /\ caller # NoLoop /\ ~NotStarted /\ taken + lost < size
  /\ taken' = taken + 1
  /\ \/ /\ answer' = "row"
        /\ got' = [got EXCEPT ![caller] = IF @ > MaxRows THEN @ ELSE @ + 1]
        /\ UNCHANGED <<in, leftover>>
     \/ /\ answer' = "error"
        /\ in' = in \ {caller} /\ leftover' = TRUE
        /\ UNCHANGED got
  /\ caller' = NoLoop
  /\ UNCHANGED <<cursor, iterator, size, lost, whole>>

\* Two bugs the except clause could have: clearing one attribute, and none.
ResetIteratorOnly == iterator' = "None" /\ UNCHANGED <<cursor, size, taken, lost>>
ResetNothing == UNCHANGED position

\* `except StopIteration'
Reset == cursor' = "None" /\ iterator' = "None" /\ size' = 0 /\ taken' = 0 /\ lost' = 0

\* A bug it could have: an except clause that takes every exception.
TakeFailsReset ==
  /\ caller # NoLoop /\ ~NotStarted
  /\ Reset
  /\ caller' = NoLoop /\ answer' = "error"
  /\ in' = in \ {caller} /\ leftover' = TRUE
  /\ UNCHANGED <<got, whole>>

\* next() raises a database error, which is no StopIteration: the attributes stay
\* as they are and the loop is left.
TakeFails ==
  /\ caller # NoLoop /\ ~NotStarted
  /\ lost' \in {lost, size - taken}
  /\ caller' = NoLoop /\ answer' = "error"
  /\ in' = in \ {caller} /\ leftover' = TRUE
  /\ UNCHANGED <<cursor, iterator, size, taken, got, whole>>

\* A bug it could have: running the statement again instead of raising.
StopByRestart ==
  /\ caller # NoLoop /\ ~NotStarted /\ taken + lost = size
  /\ Reset
  /\ UNCHANGED <<caller, answer, loops>>

Stop ==
  /\ caller # NoLoop /\ ~NotStarted /\ taken + lost = size
  /\ Reset
  /\ caller' = NoLoop /\ answer' = "stop"
  /\ in' = in \ {caller} /\ leftover' = FALSE
  /\ UNCHANGED <<got, whole>>

\* __call__: an execution of its own.
Call ==
  /\ caller = NoLoop
  /\ answer' \in {"list", "error"}
  /\ UNCHANGED <<position, caller, loops>>

Next ==
  \/ \E l \in Loop : EnterLoop(l) \/ BreakLoop(l) \/ CallNext(l)
  \/ Execute \/ ExecuteFails \/ Take \/ TakeFails \/ Stop \/ Call

\* A loop body that returns asks for the next row, and __next__ comes back.
Fairness ==
  /\ \A l \in Loop : WF_vars(CallNext(l))
  /\ WF_vars(Execute \/ ExecuteFails \/ Take \/ TakeFails \/ Stop)

Spec == Init /\ [][Next]_vars /\ Fairness

-----------------------------------------------------------------------------
(* Properties *)

\* The attributes are set and cleared together (sqlite3.go:150-157).
TypeOK ==
  /\ cursor \in {"None", "rows"} /\ iterator = cursor
  /\ size \in 0..MaxRows /\ taken \in 0..size /\ lost \in 0..(size - taken)
  /\ caller \in in \union {NoLoop}
  /\ in \subseteq Loop /\ whole \subseteq Loop
  /\ got \in [Loop -> 0..(MaxRows + 1)]
  /\ leftover \in BOOLEAN
  /\ answer \in {"none", "pending", "row", "stop", "error", "list"}

\* A loop that has the object for itself, entered when every earlier loop had run
\* to its end, is given every row of one execution before it ends, however many
\* executions and full fetches came before (the reset at sqlite3.go:155-157 is
\* what makes the object iterable again).  After a loop that was broken off or
\* left by an error the next one only gets what is left.
LoneLoopComplete ==
  [][\A l \in whole :
       l \in in /\ l \notin in' /\ answer' = "stop" => got[l] = size]_vars

\* A loop that is the only one ends, or another one is entered in its body: no
\* execution is started again under it (sqlite3.go:155-158).  Nested loops over
\* one object need not end: the inner one resets the position of the outer one.
LoneLoopEnds == \A l \in Loop : in = {l} ~> in # {l}

\* Whatever the loops, the object behaves as RowIteration promises: no row twice,
\* none out of order, and none missing unless a call of __next__ raised
\* (sqlite3.go:153-157).
Iteration == INSTANCE RowIteration WITH
  Consumer <- {"thread"},
  open <- cursor # "None",
  taken <- taken + lost,
  answer <- [c \in {"thread"} |-> answer]

ImplementsIteration == Iteration!Spec
=============================================================================
