--------------------------- MODULE AioQueryResults ---------------------------
(***************************************************************************)
(* One QueryResults object of the aiosqlite driver, used by the tasks of    *)
(* one event loop (aiosqlite.go:137-160, query_results.go:34-84).           *)
(*                                                                         *)
(* A task runs without interruption between two awaits; __anext__ has two:  *)
(* self._conn.execute, after which _cursor and _iterator are assigned, and  *)
(* the __anext__ of the iterator.  So a check of the attributes and their   *)
(* assignment are in different steps, and so are the fetch of an iterator   *)
(* and the reset that follows its end.                                      *)
(*                                                                         *)
(* External: Cursor.__aiter__ of aiosqlite is an async generator that       *)
(* fetches Chunk rows at a time and yields from what it holds.  A generator *)
(* that is suspended in a fetch refuses a second __anext__, and one that    *)
(* ended, or was cancelled in a fetch, raises StopAsyncIteration for ever.  *)
(***************************************************************************)
EXTENDS Naturals, Sequences, FiniteSets

CONSTANTS
  Task,           \* the tasks that hold the object
  MaxRows,        \* bound on the rows of one execution
  MaxExecutions,  \* bound on the executions of one behaviour
  Chunk,          \* aiosqlite's iter_chunk_size
  Interruptible   \* the tasks whose fetches may be cancelled or fail

ASSUME Parameters ==
  /\ MaxRows \in Nat /\ MaxExecutions \in Nat /\ Chunk \in Nat \ {0}
  /\ Interruptible \subseteq Task

VARIABLES
  cursor,    \* self._cursor: the execution it belongs to, or None
  iterator,  \* self._iterator, likewise
  execs,     \* every execution: its rows and its generator
  pc,        \* where each task is
  serving,   \* the execution whose generator a fetching task waits for
  answer     \* what the last call of each task gave

vars == <<cursor, iterator, execs, pc, serving, answer>>

None == 0
Executing == {t \in Task : pc[t] = "executing"}
Fetching(e) == {t \in Task : pc[t] = "fetching" /\ serving[t] = e}

Execution ==
  [size : 0..MaxRows, taken : 0..MaxRows, held : 0..MaxRows, lost : 0..MaxRows, ended : BOOLEAN]
Fresh(n) == [size |-> n, taken |-> 0, held |-> 0, lost |-> 0, ended |-> FALSE]
Smaller(m, n) == IF m < n THEN m ELSE n

Init ==
  /\ cursor = None /\ iterator = None
  /\ execs = <<>>
  /\ pc = [t \in Task |-> "idle"]
  /\ serving = [t \in Task |-> None]
  /\ answer = [t \in Task |-> "none"]

-----------------------------------------------------------------------------
(* The generator of execution e, asked by task t.                           *)

Returns(t, what) == pc' = [pc EXCEPT ![t] = "idle"] /\ answer' = [answer EXCEPT ![t] = what]

\* A bug it could have: forgetting one attribute.
ResetIteratorOnly(t) ==
  /\ iterator' = None /\ UNCHANGED cursor
  /\ Returns(t, "stop")

\* `except StopAsyncIteration': both attributes are cleared, whoever set them.
ResetAndRaise(t) ==
  /\ cursor' = None /\ iterator' = None
  /\ Returns(t, "stop")

\* The row goes through the decode hook, which may raise for it.
Decoded(t) == \E what \in {"row", "error"} : Returns(t, what)

\* A bug it could have: an except clause that also takes the RuntimeError.
AskAtOnceBroadExcept(t, e) ==
  \/ /\ Fetching(e) # {} \/ execs[e].ended
     /\ ResetAndRaise(t)
     /\ UNCHANGED execs
  \/ /\ Fetching(e) = {} /\ ~execs[e].ended /\ execs[e].held > 0
     /\ execs' = [execs EXCEPT ![e].held = @ - 1, ![e].taken = @ + 1]
     /\ Decoded(t)
     /\ UNCHANGED <<cursor, iterator>>

\* The generator answers at once when it holds a row, has ended, or is busy.
AskAtOnce(t, e) ==
  \/ /\ Fetching(e) # {}                \* RuntimeError: already running
     /\ Returns(t, "busy")
     /\ UNCHANGED <<cursor, iterator, execs>>
  \/ /\ Fetching(e) = {} /\ execs[e].ended
     /\ ResetAndRaise(t)
     /\ UNCHANGED execs
  \/ /\ Fetching(e) = {} /\ ~execs[e].ended /\ execs[e].held > 0
     /\ execs' = [execs EXCEPT ![e].held = @ - 1, ![e].taken = @ + 1]
     /\ Decoded(t)
     /\ UNCHANGED <<cursor, iterator>>

NeedsFetch(e) == Fetching(e) = {} /\ ~execs[e].ended /\ execs[e].held = 0

-----------------------------------------------------------------------------
(* __anext__ *)

\* The check at the top of __anext__.
NotStarted == cursor = None \/ iterator = None

BeginExecute(t) ==
  /\ pc[t] = "idle" /\ NotStarted
  /\ Len(execs) + Cardinality(Executing) < MaxExecutions
  /\ pc' = [pc EXCEPT ![t] = "executing"]
  /\ answer' = [answer EXCEPT ![t] = "pending"]
  /\ UNCHANGED <<cursor, iterator, execs, serving>>

\* conn.execute returns: the attributes are assigned and the new generator is
\* asked for its first row, which it has to fetch.
ExecuteReturns(t) ==
  /\ pc[t] = "executing"
  /\ \E n \in 0..MaxRows : execs' = Append(execs, Fresh(n))
  /\ cursor' = Len(execs) + 1 /\ iterator' = Len(execs) + 1
  /\ pc' = [pc EXCEPT ![t] = "fetching"]
  /\ serving' = [serving EXCEPT ![t] = Len(execs) + 1]
  /\ UNCHANGED answer

ContinueAtOnce(t) ==
  /\ pc[t] = "idle" /\ ~NotStarted
  /\ AskAtOnce(t, iterator)
  /\ UNCHANGED serving

ContinueWithFetch(t) ==
  /\ pc[t] = "idle" /\ ~NotStarted
  /\ NeedsFetch(iterator)
  /\ pc' = [pc EXCEPT ![t] = "fetching"]
  /\ serving' = [serving EXCEPT ![t] = iterator]
  /\ answer' = [answer EXCEPT ![t] = "pending"]
  /\ UNCHANGED <<cursor, iterator, execs>>

\* fetchmany returns to the generator: it yields the first row of the chunk, or
\* ends when there is none.
FetchReturns(t) ==
  /\ pc[t] = "fetching"
  /\ LET e == serving[t]
         n == Smaller(Chunk, execs[e].size - execs[e].taken)
     IN \/ /\ n > 0
           /\ execs' = [execs EXCEPT ![e].held = n - 1, ![e].taken = @ + 1]
           /\ Decoded(t)
           /\ UNCHANGED <<cursor, iterator>>
        \/ /\ n = 0
           /\ execs' = [execs EXCEPT ![e].ended = TRUE]
           /\ ResetAndRaise(t)
  /\ UNCHANGED serving

\* A cancellation or a database error is no StopAsyncIteration: nothing is reset.
\* In conn.execute the cursor is lost before it was assigned; in a fetch the
\* generator ends, and the rows that it had not given will never come.
CallFails(t) ==
  /\ pc[t] \in {"executing", "awaiting"}
  /\ Returns(t, "error")
  /\ UNCHANGED <<cursor, iterator, execs, serving>>

FetchFails(t) ==
  /\ t \in Interruptible
  /\ pc[t] = "fetching"
  /\ LET e == serving[t] IN
     execs' = [execs EXCEPT ![e].ended = TRUE, ![e].lost = execs[e].size - execs[e].taken]
  /\ Returns(t, "error")
  /\ UNCHANGED <<cursor, iterator, serving>>

-----------------------------------------------------------------------------
(* __await__: an execution of its own, that touches no attribute. *)

BeginAwait(t) ==
  /\ pc[t] = "idle"
  /\ pc' = [pc EXCEPT ![t] = "awaiting"]
  /\ answer' = [answer EXCEPT ![t] = "pending"]
  /\ UNCHANGED <<cursor, iterator, execs, serving>>

\* A bug it could have: waiting for the iteration to be over.
AwaitReturnsAfterIteration(t) ==
  /\ pc[t] = "awaiting" /\ NotStarted
  /\ Returns(t, "list")
  /\ UNCHANGED <<cursor, iterator, execs, serving>>

AwaitReturns(t) ==
  /\ pc[t] = "awaiting"
  /\ Returns(t, "list")
  /\ UNCHANGED <<cursor, iterator, execs, serving>>

Step(t) ==
  \/ BeginExecute(t) \/ ExecuteReturns(t)
  \/ ContinueAtOnce(t) \/ ContinueWithFetch(t) \/ FetchReturns(t)
  \/ BeginAwait(t) \/ AwaitReturns(t)
  \/ CallFails(t) \/ FetchFails(t)

Next == \E t \in Task : Step(t)

\* The sqlite thread answers every request and the event loop resumes the task.
Fairness == \A t \in Task : WF_vars(ExecuteReturns(t) \/ FetchReturns(t) \/ AwaitReturns(t))

Spec == Init /\ [][Next]_vars /\ Fairness

-----------------------------------------------------------------------------
(* Properties *)

\* The attributes are set and cleared together, and a fetch is for an execution
\* that exists (__anext__ assigns both without an await between them).
TypeOK ==
  /\ cursor \in 0..Len(execs) /\ iterator = cursor
  /\ execs \in Seq(Execution)
  /\ pc \in [Task -> {"idle", "executing", "fetching", "awaiting"}]
  /\ serving \in [Task -> 0..Len(execs)]
  /\ answer \in [Task -> {"none", "pending", "row", "stop", "busy", "error", "list"}]

\* What the docstring of __anext__ says of the stop: it is raised when no more
\* records are available, so an execution that the object no longer holds, and
\* that no task waits for, was handed out to its last row.  The code breaks it
\* twice: the call that follows a failed or cancelled fetch stops over the rows
\* that were left (aiosqlite.go:154), and of two first calls that overlap the
\* later one drops the cursor of the other (aiosqlite.go:149-150).
RowsRunOut ==
  \A e \in 1..Len(execs) :
    cursor # e /\ Fetching(e) = {} => execs[e].taken = execs[e].size

\* Every call comes back: no task waits for another one's iteration
\* (aiosqlite.go:142-159 awaits only the database).
CallsReturn == \A t \in Task : pc[t] # "idle" ~> pc[t] = "idle"

Iteration == INSTANCE RowIteration WITH
  Consumer <- Task,
  open <- cursor # None,
  size <- IF cursor = None THEN 0 ELSE execs[cursor].size,
  taken <- IF cursor = None THEN 0 ELSE execs[cursor].taken + execs[cursor].lost,
  answer <- [t \in Task |-> IF answer[t] = "busy" THEN "error" ELSE answer[t]]

\* A task that waits for the database on behalf of another iteration than the one
\* the object is in: its first call overlapped with that of another task.
Stale(t) ==
  \/ pc[t] = "executing" /\ cursor # None
  \/ pc[t] = "fetching" /\ serving[t] # cursor

\* The tasks that share the object see what RowIteration promises: no row twice,
\* none out of order, none missing unless a call that waited for it raised, the
\* stop after the last one.  Left out are only the steps in which a task comes
\* back from a first call that was overtaken (aiosqlite.go:149-157).
ImplementsIteration ==
  /\ Iteration!Init
  /\ [][ \/ \E t \in Task : Stale(t) /\ pc'[t] # pc[t]
        \/ Iteration!Next
        \/ UNCHANGED Iteration!vars ]_vars
=============================================================================
