--------------------------- MODULE PgQueryResults ----------------------------
(***************************************************************************)
(* One QueryResults object of the asyncpg driver (asyncpg.go:25-48,         *)
(* query_results.go:34-84), its tasks and the transactions around them.     *)
(*                                                                         *)
(* conn.cursor() and __aiter__() are ordinary calls, so __anext__ checks and *)
(* assigns its attributes in one step; its only await is the __anext__ of    *)
(* the cursor.                                                             *)
(*                                                                         *)
(* External: an asyncpg cursor binds a portal on its first fetch, fetches    *)
(* Prefetch rows at a time, and refuses to fetch outside of a transaction.   *)
(* A portal dies with its transaction.  A connection does one operation at   *)
(* a time and refuses a second one at once.  A fetch that the server refuses *)
(* or interrupts aborts the transaction; one that the server ran, but whose  *)
(* answer was cancelled, timed out or cannot be decoded, has moved the       *)
(* portal all the same.                                                    *)
(***************************************************************************)
EXTENDS Naturals, Sequences, FiniteSets

CONSTANTS
  Task,             \* the tasks that hold the object
  MaxRows,          \* bound on the rows of one execution
  MaxExecutions,    \* bound on the executions of one behaviour
  MaxTransactions,  \* bound on the transactions of one behaviour
  Prefetch          \* asyncpg's prefetch

ASSUME Parameters ==
  /\ MaxRows \in Nat /\ MaxExecutions \in Nat /\ MaxTransactions \in Nat
  /\ Prefetch \in Nat \ {0}

VARIABLES
  cursor,    \* self._cursor: the execution it belongs to, or None
  iterator,  \* self._iterator, likewise
  execs,     \* every execution: its rows, the iterator's buffer and its portal
  pc,        \* where each task is
  serving,   \* the execution whose iterator a fetching task waits for
  answer,    \* what the last call of each task gave
  tx,        \* the open transaction, or None
  begun,     \* the transactions begun so far
  aborted    \* the open transaction has failed

vars == <<cursor, iterator, execs, pc, serving, answer, tx, begun, aborted>>

None == 0
NeverBound == MaxTransactions + 1  \* the portal of no transaction
Using == {t \in Task : pc[t] # "idle"}
Execution ==
  [size : 0..MaxRows, taken : 0..MaxRows, held : 0..MaxRows, lost : 0..MaxRows,
   exhausted : BOOLEAN, portal : 0..(MaxTransactions + 1)]
Fresh(n) ==
  [size |-> n, taken |-> 0, held |-> 0, lost |-> 0, exhausted |-> FALSE, portal |-> None]
Smaller(m, n) == IF m < n THEN m ELSE n

Init ==
  /\ cursor = None /\ iterator = None
  /\ execs = <<>>
  /\ pc = [t \in Task |-> "idle"]
  /\ serving = [t \in Task |-> None]
  /\ answer = [t \in Task |-> "none"]
  /\ tx = None /\ begun = 0 /\ aborted = FALSE

-----------------------------------------------------------------------------
(* The transactions of the caller. *)

BeginTransaction ==
  /\ tx = None /\ Using = {} /\ begun < MaxTransactions
  /\ begun' = begun + 1 /\ tx' = begun + 1
  /\ UNCHANGED <<cursor, iterator, execs, pc, serving, answer, aborted>>

EndTransaction ==
  /\ tx # None /\ Using = {}
  /\ tx' = None /\ aborted' = FALSE
  /\ UNCHANGED <<cursor, iterator, execs, pc, serving, answer, begun>>

-----------------------------------------------------------------------------
(* How a call ends. *)

Returns(t, what) == pc' = [pc EXCEPT ![t] = "idle"] /\ answer' = [answer EXCEPT ![t] = what]

\* The row goes through the decode hook, which may raise for it.
Decoded(t) == \E what \in {"row", "error"} : Returns(t, what)

\* A bug it could have: clearing only one attribute.
ResetIteratorOnly(t) ==
  /\ iterator' = None /\ UNCHANGED cursor
  /\ Returns(t, "stop")

\* `except StopAsyncIteration': both attributes are cleared.
ResetAndRaise(t) ==
  /\ cursor' = None /\ iterator' = None
  /\ Returns(t, "stop")

\* A bug it could have: a broader except clause.
ResetOnError(t) ==
  /\ cursor' = None /\ iterator' = None
  /\ Returns(t, "error")

\* Any other exception leaves the attributes as they are.
RaiseError(t) ==
  /\ UNCHANGED <<cursor, iterator>>
  /\ Returns(t, "error")

-----------------------------------------------------------------------------
(* __anext__ *)

\* The check at the top of __anext__.
NotStarted == cursor = None \/ iterator = None

Waits(t, e) ==
  /\ pc' = [pc EXCEPT ![t] = "fetching"]
  /\ serving' = [serving EXCEPT ![t] = e]
  /\ answer' = [answer EXCEPT ![t] = "pending"]

\* The first call: the cursor and the iterator are assigned, then the iterator
\* is asked, which needs the connection and a transaction.
FirstNext(t) ==
  /\ pc[t] = "idle" /\ NotStarted
  /\ Len(execs) < MaxExecutions
  /\ \E n \in 0..MaxRows : execs' = Append(execs, Fresh(n))
  /\ cursor' = Len(execs) + 1 /\ iterator' = Len(execs) + 1
  /\ \/ /\ tx = None \/ Using # {}
        /\ Returns(t, "error")
        /\ UNCHANGED serving
     \/ /\ tx # None /\ Using = {}
        /\ Waits(t, Len(execs) + 1)
  /\ UNCHANGED <<tx, begun, aborted>>

NeedsFetch(e) == execs[e].held = 0 /\ ~execs[e].exhausted

NextAtOnce(t) ==
  /\ pc[t] = "idle" /\ ~NotStarted
  /\ LET e == iterator IN
     \/ /\ execs[e].held > 0
        /\ execs' = [execs EXCEPT ![e].held = @ - 1, ![e].taken = @ + 1]
        /\ Decoded(t)
        /\ UNCHANGED <<cursor, iterator>>
     \/ /\ execs[e].held = 0 /\ execs[e].exhausted
        /\ ResetAndRaise(t)
        /\ UNCHANGED execs
     \/ /\ NeedsFetch(e)
        /\ tx = None \/ Using # {}
        /\ RaiseError(t)
        /\ UNCHANGED execs
  /\ UNCHANGED <<serving, tx, begun, aborted>>

NextWithFetch(t) ==
  /\ pc[t] = "idle" /\ ~NotStarted
  /\ NeedsFetch(iterator)
  /\ tx # None /\ Using = {}
  /\ Waits(t, iterator)
  /\ UNCHANGED <<cursor, iterator, execs, tx, begun, aborted>>

PortalUsable(e) == ~aborted /\ execs[e].portal \in {None, tx}

\* What the portal gives for one fetch: fewer rows than asked for at its end.
Chunk(e) == Smaller(Prefetch, execs[e].size - (execs[e].taken + execs[e].lost))

\* The rows of one fetch are held, and the first of them is handed out.
FetchReturns(t) ==
  /\ pc[t] = "fetching" /\ PortalUsable(serving[t])
  /\ LET e == serving[t]
         n == Chunk(e)
     IN \/ /\ n > 0
           /\ execs' = [execs EXCEPT ![e].held = n - 1, ![e].taken = @ + 1,
                                     ![e].exhausted = n < Prefetch, ![e].portal = tx]
           /\ Decoded(t)
           /\ UNCHANGED <<cursor, iterator>>
        \/ /\ n = 0
           /\ execs' = [execs EXCEPT ![e].exhausted = TRUE, ![e].portal = tx]
           /\ ResetAndRaise(t)
  /\ UNCHANGED <<serving, tx, begun, aborted>>

\* The server refuses or interrupts the fetch, before or after the portal was
\* bound.
Refused(e) ==
  /\ \E p \in {execs[e].portal, tx} :
       execs' = [execs EXCEPT ![e].portal = IF @ = None THEN p ELSE @]
  /\ aborted' = TRUE

\* The statement was not prepared, or its arguments could not be encoded: the
\* portal is unnamed still, or has a name that the server never heard of.
NotSent(e) ==
  /\ execs[e].portal = None
  /\ \E p \in {None, NeverBound} : execs' = [execs EXCEPT ![e].portal = p]
  /\ UNCHANGED aborted

\* The server ran the fetch, and its answer did not reach the iterator.
AnswerLost(e) ==
  /\ PortalUsable(e)
  /\ execs' = [execs EXCEPT ![e].lost = @ + Chunk(e), ![e].portal = tx]
  /\ UNCHANGED aborted

FetchFails(t) ==
  /\ pc[t] = "fetching"
  /\ Refused(serving[t]) \/ NotSent(serving[t]) \/ AnswerLost(serving[t])
  /\ RaiseError(t)
  /\ UNCHANGED <<serving, tx, begun>>

-----------------------------------------------------------------------------
(* __await__: conn.fetch, that touches no attribute. *)

BeginAwait(t) ==
  /\ pc[t] = "idle"
  /\ \/ /\ Using = {}
        /\ pc' = [pc EXCEPT ![t] = "awaiting"]
        /\ answer' = [answer EXCEPT ![t] = "pending"]
     \/ /\ Using # {}
        /\ Returns(t, "error")
  /\ UNCHANGED <<cursor, iterator, execs, serving, tx, begun, aborted>>

AwaitReturns(t) ==
  /\ pc[t] = "awaiting"
  /\ \/ /\ ~aborted /\ Returns(t, "list")
        /\ UNCHANGED aborted
     \/ /\ Returns(t, "error")
        /\ aborted' \in {aborted, tx # None}
  /\ UNCHANGED <<cursor, iterator, execs, serving, tx, begun>>

Next ==
  \/ BeginTransaction \/ EndTransaction
  \/ \E t \in Task :
       \/ FirstNext(t) \/ NextAtOnce(t) \/ NextWithFetch(t)
       \/ FetchReturns(t) \/ FetchFails(t)
       \/ BeginAwait(t) \/ AwaitReturns(t)

Spec == Init /\ [][Next]_vars

-----------------------------------------------------------------------------
(* Properties *)

\* The attributes are set and cleared together, and a fetch is for the execution
\* they belong to, whatever other tasks and transactions do meanwhile.
TypeOK ==
  /\ cursor \in 0..Len(execs) /\ iterator = cursor
  /\ execs \in Seq(Execution)
  /\ pc \in [Task -> {"idle", "fetching", "awaiting"}]
  /\ \A t \in Task : pc[t] = "fetching" => serving[t] = iterator /\ iterator # None
  /\ serving \in [Task -> 0..Len(execs)]
  /\ answer \in [Task -> {"none", "pending", "row", "stop", "error", "list"}]
  /\ tx \in 0..begun /\ begun \in 0..MaxTransactions /\ aborted \in BOOLEAN

\* Nothing is left of any execution but the one the object goes on with: no
\* failure, refused call or transaction end makes __anext__ start the statement
\* again over rows that can still be had (asyncpg.go:37 and the except clause at
\* asyncpg.go:42 that names only StopAsyncIteration).  The rows that were not
\* handed out are those of answers that were lost, in a call that raised.
NoAbandonedRows ==
  \A e \in 1..Len(execs) :
    cursor # e => execs[e].exhausted /\ execs[e].taken + execs[e].lost = execs[e].size

\* The tasks that share the object see what RowIteration promises, through
\* failures and transactions: no row twice, none out of order, none missing
\* unless a call that waited for it raised, the stop after the last one
\* (asyncpg.go:37-46).
Iteration == INSTANCE RowIteration WITH
  Consumer <- Task,
  open <- cursor # None,
  size <- IF cursor = None THEN 0 ELSE execs[cursor].size,
  taken <- IF cursor = None THEN 0 ELSE execs[cursor].taken + execs[cursor].lost

ImplementsIteration == Iteration!Spec
=============================================================================
