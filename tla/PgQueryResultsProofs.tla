------------------------ MODULE PgQueryResultsProofs ------------------------
(***************************************************************************)
(* For every set of tasks, every size of a result and every prefetch, and    *)
(* any number of executions and transactions: the asyncpg QueryResults       *)
(* object never abandons a cursor with rows left, and its tasks see the      *)
(* iteration that RowIteration specifies, in which rows are only lost by a   *)
(* call that raises.                                                       *)
(***************************************************************************)
EXTENDS PgQueryResults, SequenceTheorems, TLAPS

-----------------------------------------------------------------------------
(* The inductive invariant. *)

\* The connection serves one call at a time.
Solo ==
  \A t, u \in Task : pc[t] = "fetching" /\ u # t => pc[u] = "idle"

\* A fetch is for an iterator that holds nothing and has not seen the end.
Waiting ==
  \A t \in Task : pc[t] = "fetching" =>
    execs[serving[t]].held = 0 /\ ~execs[serving[t]].exhausted

\* A task that fetches has no answer yet.
Asked == \A t \in Task : pc[t] = "fetching" => answer[t] = "pending"

\* The rows that are gone and the rows held are rows of the execution, and all of
\* them once the iterator has seen the end.
Sound(x) ==
  /\ (x.taken + x.lost) + x.held <= x.size
  /\ x.exhausted => (x.taken + x.lost) + x.held = x.size

Counts == \A e \in 1..Len(execs) : Sound(execs[e])

Inv == TypeOK /\ NoAbandonedRows /\ Solo /\ Waiting /\ Asked /\ Counts

-----------------------------------------------------------------------------
(* Lemmas about the list of executions. *)

\* An execution is replaced: the others stay.
LEMMA Replaced ==
  ASSUME NEW s \in Seq(Execution), NEW e \in 1..Len(s), NEW x \in Execution,
         NEW r, r = [s EXCEPT ![e] = x]
  PROVE  /\ r \in Seq(Execution) /\ Len(r) = Len(s)
         /\ r[e] = x
         /\ \A i \in 1..Len(s) : i # e => r[i] = s[i]
  OBVIOUS

\* An execution is added: the others stay.
LEMMA Added ==
  ASSUME NEW s \in Seq(Execution), NEW x \in Execution, NEW r, r = Append(s, x)
  PROVE  /\ r \in Seq(Execution) /\ Len(r) = Len(s) + 1
         /\ r[Len(s) + 1] = x
         /\ \A i \in 1..Len(s) : r[i] = s[i]
  OBVIOUS

\* Handing out a held row keeps an execution sound and uses up the row.
LEMMA TakeHeld ==
  ASSUME NEW x \in Execution, Sound(x), x.held > 0, NEW y,
         y = [x EXCEPT !.held = @ - 1, !.taken = @ + 1]
  PROVE  /\ y \in Execution /\ Sound(y) /\ y.size = x.size
         /\ y.taken = x.taken + 1 /\ y.lost = x.lost /\ x.taken + x.lost < x.size
<1>1. /\ x.size \in 0..MaxRows /\ x.taken \in 0..MaxRows /\ x.held \in 0..MaxRows
      /\ x.lost \in 0..MaxRows /\ MaxRows \in Nat
      /\ (x.taken + x.lost) + x.held <= x.size
      /\ x.exhausted => (x.taken + x.lost) + x.held = x.size
  BY Parameters DEF Execution, Sound
<1>2. /\ y.size = x.size /\ y.taken = x.taken + 1 /\ y.held = x.held - 1
      /\ y.lost = x.lost /\ y.exhausted = x.exhausted
  BY DEF Execution
<1>3. /\ x.taken + 1 \in 0..MaxRows /\ x.held - 1 \in 0..MaxRows
      /\ x.taken + x.lost < x.size
  BY <1>1
<1>4. y \in Execution
  BY <1>3 DEF Execution
<1>5. Sound(y)
  BY <1>1, <1>2, <1>3 DEF Sound
<1> QED BY <1>2, <1>3, <1>4, <1>5

\* The rows of a fetch: the first one is handed out.
LEMMA TakeFetched ==
  ASSUME NEW x \in Execution, Sound(x), x.held = 0,
         NEW n, n = Smaller(Prefetch, x.size - (x.taken + x.lost)), n > 0
  PROVE  /\ n - 1 \in 0..MaxRows /\ x.taken + 1 \in 0..MaxRows
         /\ x.taken + x.lost < x.size
         /\ ((x.taken + 1) + x.lost) + (n - 1) <= x.size
         /\ n < Prefetch => ((x.taken + 1) + x.lost) + (n - 1) = x.size
<1>1. /\ x.size \in 0..MaxRows /\ x.taken \in 0..MaxRows /\ x.lost \in 0..MaxRows
      /\ x.taken + x.lost <= x.size /\ MaxRows \in Nat /\ Prefetch \in Nat \ {0}
  BY Parameters DEF Execution, Sound
<1>2. /\ n \in 1..(x.size - (x.taken + x.lost))
      /\ n < Prefetch => n = x.size - (x.taken + x.lost)
  BY <1>1 DEF Smaller
<1> QED BY <1>1, <1>2

\* A fetch that brings nothing: every row was handed out.
LEMMA FetchEnds ==
  ASSUME NEW x \in Execution, Sound(x), x.held = 0, NEW p \in 0..(MaxTransactions + 1),
         Smaller(Prefetch, x.size - (x.taken + x.lost)) = 0, NEW y,
         y = [x EXCEPT !.exhausted = TRUE, !.portal = p]
  PROVE  /\ y \in Execution /\ Sound(y) /\ y.exhausted
         /\ y.taken + y.lost = y.size /\ x.taken + x.lost = x.size
<1>1. /\ x.size \in 0..MaxRows /\ x.taken \in 0..MaxRows /\ x.lost \in 0..MaxRows
      /\ x.taken + x.lost <= x.size /\ MaxRows \in Nat /\ Prefetch \in Nat \ {0}
  BY Parameters DEF Execution, Sound
<1>2. x.size = x.taken + x.lost
  BY <1>1 DEF Smaller
<1>3. /\ y.size = x.size /\ y.taken = x.taken /\ y.lost = x.lost /\ y.held = x.held
      /\ y.exhausted
  BY DEF Execution
<1>4. y \in Execution
  BY DEF Execution
<1>5. Sound(y)
  BY <1>1, <1>2, <1>3 DEF Sound
<1> QED BY <1>2, <1>3, <1>4, <1>5

\* A fetch whose answer is lost: its rows are gone.
LEMMA FetchLoses ==
  ASSUME NEW x \in Execution, Sound(x), x.held = 0, ~x.exhausted,
         NEW p \in 0..(MaxTransactions + 1), NEW y,
         y = [x EXCEPT !.lost = @ + Smaller(Prefetch, x.size - (x.taken + x.lost)),
                       !.portal = p]
  PROVE  /\ y \in Execution /\ Sound(y) /\ y.size = x.size
         /\ y.taken + y.lost \in (x.taken + x.lost)..x.size
<1> DEFINE n == Smaller(Prefetch, x.size - (x.taken + x.lost))
<1>1. /\ x.size \in 0..MaxRows /\ x.taken \in 0..MaxRows /\ x.lost \in 0..MaxRows
      /\ x.taken + x.lost <= x.size /\ MaxRows \in Nat /\ Prefetch \in Nat \ {0}
  BY Parameters DEF Execution, Sound
<1>2. n \in 0..(x.size - (x.taken + x.lost))
  BY <1>1 DEF Smaller
<1>3. /\ y.size = x.size /\ y.taken = x.taken /\ y.lost = x.lost + n /\ y.held = 0
      /\ ~y.exhausted
  BY DEF Execution
<1>4. x.lost + n \in 0..MaxRows
  BY <1>1, <1>2
<1>5. y \in Execution
  BY <1>4 DEF Execution
<1>6. y.taken + y.lost = (x.taken + x.lost) + n
  BY <1>1, <1>2, <1>3
<1>7. y.taken + y.lost \in (x.taken + x.lost)..x.size
  BY <1>1, <1>2, <1>6
<1>8. Sound(y)
  BY <1>1, <1>3, <1>7 DEF Sound
<1> QED BY <1>3, <1>5, <1>7, <1>8

-----------------------------------------------------------------------------
(* How a call leaves the object. *)

\* Execution e is changed and stays sound, the others stay.
Changes(e) ==
  /\ execs' \in Seq(Execution) /\ Len(execs') = Len(execs)
  /\ \A i \in 1..Len(execs) : i # e => execs'[i] = execs[i]
  /\ Sound(execs'[e])

NobodyElseFetches(t) == \A u \in Task : u # t => pc[u] # "fetching"

\* What the invariant says of the execution the object goes on with.
LEMMA Current ==
  ASSUME Inv, cursor # None
  PROVE  /\ cursor \in 1..Len(execs) /\ iterator = cursor
         /\ execs \in Seq(Execution)
         /\ execs[cursor] \in Execution /\ Sound(execs[cursor])
<1>1. cursor \in 1..Len(execs) /\ iterator = cursor /\ execs \in Seq(Execution)
  BY DEF Inv, TypeOK, None
<1> QED BY <1>1 DEF Inv, Counts

LEMMA ChangesCurrent ==
  ASSUME Inv, cursor # None, NEW y \in Execution, Sound(y),
         execs' = [execs EXCEPT ![cursor] = y]
  PROVE  Changes(cursor) /\ execs'[cursor] = y
<1>1. cursor \in 1..Len(execs) /\ execs \in Seq(Execution)
  BY Current
<1>2. /\ execs' \in Seq(Execution) /\ Len(execs') = Len(execs)
      /\ execs'[cursor] = y
      /\ \A i \in 1..Len(execs) : i # cursor => execs'[i] = execs[i]
  BY <1>1, Replaced
<1> QED BY <1>2 DEF Changes

\* A fetching task is alone, and waits for that execution.
LEMMA Fetches ==
  ASSUME Inv, NEW t \in Task, pc[t] = "fetching"
  PROVE  /\ serving[t] = cursor /\ cursor # None
         /\ execs[cursor].held = 0 /\ ~execs[cursor].exhausted
         /\ answer[t] = "pending" /\ NobodyElseFetches(t)
<1>1. serving[t] = cursor /\ cursor # None
  BY DEF Inv, TypeOK
<1>2. NobodyElseFetches(t)
  BY DEF Inv, Solo, NobodyElseFetches
<1> QED BY <1>1, <1>2 DEF Inv, Waiting, Asked

\* Nobody fetches while the iterator holds a row or has seen the end.
LEMMA Quiet ==
  ASSUME Inv, execs[cursor].held > 0 \/ execs[cursor].exhausted, NEW t \in Task
  PROVE  pc[t] # "fetching"
<1> SUFFICES ASSUME pc[t] = "fetching" PROVE FALSE
  OBVIOUS
<1>1. execs[cursor].held = 0 /\ ~execs[cursor].exhausted
  BY Fetches
<1> QED BY <1>1

\* A call returned and no other task fetches: what remains to be shown.
LEMMA Returned ==
  ASSUME Inv, NEW t \in Task, NEW what \in {"row", "stop", "error", "list"},
         Returns(t, what), NobodyElseFetches(t)
  PROVE  /\ pc' \in [Task -> {"idle", "fetching", "awaiting"}]
         /\ answer' \in [Task -> {"none", "pending", "row", "stop", "error", "list"}]
         /\ \A u \in Task : pc'[u] # "fetching"
<1>1. /\ pc \in [Task -> {"idle", "fetching", "awaiting"}]
      /\ answer \in [Task -> {"none", "pending", "row", "stop", "error", "list"}]
  BY DEF Inv, TypeOK
<1> QED BY <1>1 DEF Returns, NobodyElseFetches

LEMMA AfterRow ==
  ASSUME Inv, NEW t \in Task, NobodyElseFetches(t), cursor # None,
         Changes(cursor), Decoded(t) \/ Returns(t, "error"),
         UNCHANGED <<cursor, iterator, serving, tx, begun>>, aborted' \in BOOLEAN
  PROVE  Inv'
<1>1. cursor \in 1..Len(execs) /\ iterator = cursor
  BY Current
<1>2. PICK what \in {"row", "error"} : Returns(t, what)
  BY DEF Decoded
<1>3. /\ pc' \in [Task -> {"idle", "fetching", "awaiting"}]
      /\ answer' \in [Task -> {"none", "pending", "row", "stop", "error", "list"}]
      /\ \A u \in Task : pc'[u] # "fetching"
  BY <1>2, Returned
<1>4. TypeOK'
  BY <1>1, <1>3 DEF Inv, TypeOK, Changes
<1>5. NoAbandonedRows'
  BY <1>1 DEF Inv, NoAbandonedRows, Changes
<1>6. Counts'
  BY <1>1 DEF Inv, Counts, Changes
<1>7. Solo' /\ Waiting' /\ Asked'
  BY <1>3 DEF Solo, Waiting, Asked
<1> QED BY <1>4, <1>5, <1>6, <1>7 DEF Inv

LEMMA AfterStop ==
  ASSUME Inv, NEW t \in Task, NobodyElseFetches(t), cursor # None,
         Changes(cursor), ResetAndRaise(t),
         execs'[cursor].exhausted,
         execs'[cursor].taken + execs'[cursor].lost = execs'[cursor].size,
         UNCHANGED <<serving, tx, begun, aborted>>
  PROVE  Inv'
<1>1. cursor \in 1..Len(execs) /\ iterator = cursor
  BY Current
<1>2. cursor' = None /\ iterator' = None /\ Returns(t, "stop")
  BY DEF ResetAndRaise
<1>3. /\ pc' \in [Task -> {"idle", "fetching", "awaiting"}]
      /\ answer' \in [Task -> {"none", "pending", "row", "stop", "error", "list"}]
      /\ \A u \in Task : pc'[u] # "fetching"
  BY <1>2, Returned
<1>4. TypeOK'
  BY <1>1, <1>2, <1>3 DEF Inv, TypeOK, Changes, None
<1>5. NoAbandonedRows'
  BY <1>1, <1>2 DEF Inv, NoAbandonedRows, Changes
<1>6. Counts'
  BY <1>1 DEF Inv, Counts, Changes
<1>7. Solo' /\ Waiting' /\ Asked'
  BY <1>3 DEF Solo, Waiting, Asked
<1> QED BY <1>4, <1>5, <1>6, <1>7 DEF Inv

\* A call is refused at once, and changes only its own answer.
LEMMA AfterRefusal ==
  ASSUME Inv, NEW t \in Task, pc[t] = "idle", Returns(t, "error"),
         UNCHANGED <<cursor, iterator, execs, serving, tx, begun, aborted>>
  PROVE  Inv'
<1>1. /\ pc \in [Task -> {"idle", "fetching", "awaiting"}]
      /\ answer \in [Task -> {"none", "pending", "row", "stop", "error", "list"}]
  BY DEF Inv, TypeOK
<1>2. /\ pc' = pc
      /\ answer' \in [Task -> {"none", "pending", "row", "stop", "error", "list"}]
  BY <1>1 DEF Returns
<1>3. TypeOK'
  BY <1>2 DEF Inv, TypeOK
<1>4. NoAbandonedRows' /\ Counts'
  BY DEF Inv, NoAbandonedRows, Counts
<1>5. Solo' /\ Waiting' /\ Asked'
  <2>1. \A u \in Task : pc[u] = "fetching" => answer'[u] = answer[u]
    BY DEF Returns
  <2> QED BY <1>2, <2>1 DEF Inv, Solo, Waiting, Asked
<1> QED BY <1>3, <1>4, <1>5 DEF Inv

-----------------------------------------------------------------------------
(* How a step looks to RowIteration. *)

LEMMA IsDeliver ==
  ASSUME NEW t \in Task, cursor # None, cursor' = cursor, Decoded(t),
         execs'[cursor].size = execs[cursor].size,
         execs'[cursor].taken + execs'[cursor].lost
           = (execs[cursor].taken + execs[cursor].lost) + 1,
         execs[cursor].taken + execs[cursor].lost < execs[cursor].size
  PROVE  Iteration!Next
<1>1. Iteration!Deliver(t)
  BY DEF Iteration!Deliver, Iteration!Answers, Decoded, Returns
<1> QED BY <1>1 DEF Iteration!Next

LEMMA IsStop ==
  ASSUME NEW t \in Task, cursor # None, ResetAndRaise(t),
         execs[cursor].taken + execs[cursor].lost = execs[cursor].size
  PROVE  Iteration!Next
<1>1. Iteration!Stop(t)
  BY DEF Iteration!Stop, Iteration!Answers, ResetAndRaise, Returns
<1> QED BY <1>1 DEF Iteration!Next

LEMMA IsFailure ==
  ASSUME NEW t \in Task, NEW what \in {"list", "error"}, Returns(t, what), cursor' = cursor,
         cursor # None => /\ execs'[cursor].size = execs[cursor].size
                          /\ execs'[cursor].taken = execs[cursor].taken
                          /\ execs'[cursor].lost = execs[cursor].lost
  PROVE  Iteration!Next
<1>1. Iteration!Fetch(t)
  BY DEF Iteration!Fetch, Iteration!Answers, Returns
<1> QED BY <1>1 DEF Iteration!Next

LEMMA IsLoss ==
  ASSUME NEW t \in Task, Returns(t, "error"), answer[t] = "pending",
         cursor # None, cursor' = cursor,
         execs'[cursor].size = execs[cursor].size,
         execs'[cursor].taken + execs'[cursor].lost
           \in (execs[cursor].taken + execs[cursor].lost)..execs[cursor].size
  PROVE  Iteration!Next
<1>1. Iteration!Lose(t)
  BY DEF Iteration!Lose, Iteration!Answers, Returns
<1> QED BY <1>1 DEF Iteration!Next

LEMMA IsAsk ==
  ASSUME NEW t \in Task, answer' = [answer EXCEPT ![t] = "pending"],
         UNCHANGED <<cursor, execs>>
  PROVE  Iteration!Next
<1>1. Iteration!Ask(t)
  BY DEF Iteration!Ask, Iteration!Answers
<1> QED BY <1>1 DEF Iteration!Next

LEMMA IsStart ==
  ASSUME NEW t \in Task, cursor = None, cursor' # None,
         execs'[cursor'].taken + execs'[cursor'].lost = 0,
         execs'[cursor'].size \in 0..MaxRows,
         NEW what \in {"pending", "error"}, answer' = [answer EXCEPT ![t] = what]
  PROVE  Iteration!Next
<1>1. Iteration!Start(t)
  BY DEF Iteration!Start, Iteration!Answers
<1> QED BY <1>1 DEF Iteration!Next

-----------------------------------------------------------------------------
(* The actions. *)

Maps == Iteration!Next \/ UNCHANGED Iteration!vars

LEMMA TransactionStep ==
  ASSUME Inv, BeginTransaction \/ EndTransaction
  PROVE  Inv' /\ Maps
<1>0. /\ tx \in 0..begun /\ begun \in 0..MaxTransactions /\ aborted \in BOOLEAN
      /\ MaxTransactions \in Nat
  BY Parameters DEF Inv, TypeOK
<1>1. /\ UNCHANGED <<cursor, iterator, execs, pc, serving, answer>>
      /\ tx' \in 0..begun' /\ begun' \in 0..MaxTransactions /\ aborted' \in BOOLEAN
  <2>1. CASE BeginTransaction
    <3>1. /\ UNCHANGED <<cursor, iterator, execs, pc, serving, answer, aborted>>
          /\ tx' = begun + 1 /\ begun' = begun + 1 /\ begun < MaxTransactions
      BY <2>1 DEF BeginTransaction
    <3>2. tx' \in 0..begun' /\ begun' \in 0..MaxTransactions
      BY <1>0, <3>1
    <3> QED BY <1>0, <3>1, <3>2
  <2>2. CASE EndTransaction
    <3>1. /\ UNCHANGED <<cursor, iterator, execs, pc, serving, answer, begun>>
          /\ tx' = 0 /\ aborted' = FALSE
      BY <2>2 DEF EndTransaction, None
    <3>2. tx' \in 0..begun' /\ begun' \in 0..MaxTransactions
      BY <1>0, <3>1
    <3> QED BY <3>1, <3>2
  <2> QED BY <2>1, <2>2
<1>2. TypeOK'
  BY <1>1 DEF Inv, TypeOK
<1>3. NoAbandonedRows' /\ Counts' /\ Solo' /\ Waiting' /\ Asked'
  BY <1>1 DEF Inv, NoAbandonedRows, Counts, Solo, Waiting, Asked
<1>4. UNCHANGED Iteration!vars
  BY <1>1 DEF Iteration!vars
<1> QED BY <1>2, <1>3, <1>4 DEF Inv, Maps

LEMMA FirstNextStep ==
  ASSUME Inv, NEW t \in Task, FirstNext(t)
  PROVE  Inv' /\ Maps
<1> DEFINE e == Len(execs) + 1
<1>1. PICK n \in 0..MaxRows : execs' = Append(execs, Fresh(n))
  BY DEF FirstNext
<1>2. /\ execs \in Seq(Execution) /\ Len(execs) \in Nat
      /\ cursor = None /\ iterator = None /\ pc[t] = "idle"
      /\ \A u \in Task : pc[u] # "fetching"
  BY DEF FirstNext, NotStarted, Inv, TypeOK
<1>3. /\ Fresh(n) \in Execution /\ Sound(Fresh(n)) /\ Fresh(n).held = 0
      /\ ~Fresh(n).exhausted /\ Fresh(n).taken + Fresh(n).lost = 0 /\ Fresh(n).size = n
  BY Parameters DEF Fresh, Execution, Sound, None
<1>4. /\ execs' \in Seq(Execution) /\ Len(execs') = e /\ execs'[e] = Fresh(n)
      /\ \A i \in 1..Len(execs) : execs'[i] = execs[i]
  BY <1>1, <1>2, <1>3, Added
<1>5. /\ cursor' = e /\ iterator' = e /\ e # None /\ e \in 1..Len(execs')
      /\ UNCHANGED <<tx, begun, aborted>>
  BY <1>2, <1>4 DEF FirstNext, None
<1>6. NoAbandonedRows' /\ Counts'
  <2>1. \A i \in 1..Len(execs') : i = e \/ i \in 1..Len(execs)
    BY <1>2, <1>4
  <2>2. \A i \in 1..Len(execs) : cursor # i
    BY <1>2 DEF None
  <2>3. NoAbandonedRows'
    BY <1>4, <1>5, <2>1, <2>2 DEF Inv, NoAbandonedRows
  <2>4. Counts'
    BY <1>3, <1>4, <2>1 DEF Inv, Counts
  <2> QED BY <2>3, <2>4
<1>7. serving \in [Task -> 0..Len(execs')]
  BY <1>2, <1>4 DEF Inv, TypeOK
<1>8. CASE Returns(t, "error") /\ UNCHANGED serving
  <2>1. /\ pc' \in [Task -> {"idle", "fetching", "awaiting"}]
        /\ answer' \in [Task -> {"none", "pending", "row", "stop", "error", "list"}]
        /\ \A u \in Task : pc'[u] # "fetching"
    BY <1>2, <1>8, Returned DEF NobodyElseFetches
  <2>2. TypeOK'
    BY <1>4, <1>5, <1>7, <1>8, <2>1 DEF Inv, TypeOK
  <2>3. Solo' /\ Waiting' /\ Asked'
    BY <2>1 DEF Solo, Waiting, Asked
  <2>4. Iteration!Next
    BY <1>2, <1>3, <1>4, <1>5, <1>8, IsStart DEF Returns
  <2> QED BY <1>6, <2>2, <2>3, <2>4 DEF Inv, Maps
<1>9. CASE Using = {} /\ Waits(t, e)
  <2>1. /\ pc \in [Task -> {"idle", "fetching", "awaiting"}]
        /\ answer \in [Task -> {"none", "pending", "row", "stop", "error", "list"}]
        /\ \A u \in Task : pc[u] = "idle"
    BY <1>9 DEF Inv, TypeOK, Using
  <2>2. /\ pc' \in [Task -> {"idle", "fetching", "awaiting"}]
        /\ answer' \in [Task -> {"none", "pending", "row", "stop", "error", "list"}]
        /\ serving' \in [Task -> 0..Len(execs')]
        /\ serving'[t] = e /\ answer'[t] = "pending"
        /\ \A u \in Task : u # t => pc'[u] = "idle"
    BY <1>5, <1>7, <1>9, <2>1 DEF Waits
  <2>3. TypeOK'
    <3>1. \A u \in Task : pc'[u] = "fetching" => serving'[u] = iterator' /\ iterator' # None
      BY <1>5, <2>2
    <3> QED BY <1>4, <1>5, <2>2, <3>1 DEF Inv, TypeOK
  <2>4. Solo'
    BY <2>2 DEF Solo
  <2>5. Waiting'
    BY <1>3, <1>4, <2>2 DEF Waiting
  <2>7. Asked'
    BY <2>2 DEF Asked
  <2>6. Iteration!Next
    BY <1>2, <1>3, <1>4, <1>5, <1>9, IsStart DEF Waits
  <2> QED BY <1>6, <2>3, <2>4, <2>5, <2>6, <2>7 DEF Inv, Maps
<1> QED BY <1>8, <1>9 DEF FirstNext

LEMMA NextAtOnceStep ==
  ASSUME Inv, NEW t \in Task, NextAtOnce(t)
  PROVE  Inv' /\ Maps
<1>1. /\ pc[t] = "idle" /\ cursor # None /\ iterator = cursor
      /\ UNCHANGED <<serving, tx, begun, aborted>>
  BY Current DEF NextAtOnce, NotStarted
<1>2. /\ cursor \in 1..Len(execs) /\ execs \in Seq(Execution)
      /\ execs[cursor] \in Execution /\ Sound(execs[cursor])
  BY <1>1, Current
<1>3. CASE /\ execs[cursor].held > 0
           /\ execs' = [execs EXCEPT ![cursor].held = @ - 1, ![cursor].taken = @ + 1]
           /\ Decoded(t)
           /\ UNCHANGED <<cursor, iterator>>
  <2> DEFINE y == [execs[cursor] EXCEPT !.held = @ - 1, !.taken = @ + 1]
  <2>1. execs' = [execs EXCEPT ![cursor] = y]
    BY <1>2, <1>3
  <2>2. /\ y \in Execution /\ Sound(y) /\ y.size = execs[cursor].size
        /\ y.taken + y.lost = (execs[cursor].taken + execs[cursor].lost) + 1
        /\ execs[cursor].taken + execs[cursor].lost < execs[cursor].size
    <3>1. /\ y \in Execution /\ Sound(y) /\ y.size = execs[cursor].size
          /\ y.taken = execs[cursor].taken + 1 /\ y.lost = execs[cursor].lost
          /\ execs[cursor].taken + execs[cursor].lost < execs[cursor].size
      BY <1>2, <1>3, TakeHeld
    <3>2. execs[cursor].taken \in Nat /\ execs[cursor].lost \in Nat
      BY <1>2, Parameters DEF Execution
    <3> HIDE DEF y
    <3> QED BY <3>1, <3>2
  <2>3. Changes(cursor) /\ execs'[cursor] = y
    <3> HIDE DEF y
    <3> QED BY <1>1, <2>1, <2>2, ChangesCurrent
  <2>4. NobodyElseFetches(t)
    BY <1>3, Quiet DEF NobodyElseFetches
  <2>5. aborted' \in BOOLEAN
    BY <1>1 DEF Inv, TypeOK
  <2>6. Inv'
    BY <1>1, <1>3, <2>3, <2>4, <2>5, AfterRow
  <2>7. Iteration!Next
    BY <1>1, <1>3, <2>2, <2>3, IsDeliver
  <2> QED BY <2>6, <2>7 DEF Maps
<1>4. CASE execs[cursor].held = 0 /\ execs[cursor].exhausted /\ ResetAndRaise(t) /\ UNCHANGED execs
  <2>1. execs[cursor].taken + execs[cursor].lost = execs[cursor].size
    <3>1. execs[cursor].taken \in 0..MaxRows /\ execs[cursor].lost \in 0..MaxRows
      BY <1>2 DEF Execution
    <3>2. (execs[cursor].taken + execs[cursor].lost) + 0 = execs[cursor].size
      BY <1>2, <1>4 DEF Sound
    <3> QED BY <3>1, <3>2, Parameters
  <2>2. Changes(cursor)
    BY <1>2, <1>4 DEF Changes
  <2>3. NobodyElseFetches(t)
    BY <1>4, Quiet DEF NobodyElseFetches
  <2>4. Inv'
    BY <1>1, <1>4, <2>1, <2>2, <2>3, AfterStop
  <2>5. Iteration!Next
    BY <1>1, <1>4, <2>1, IsStop
  <2> QED BY <2>4, <2>5 DEF Maps
<1>5. CASE RaiseError(t) /\ UNCHANGED execs
  <2>1. Returns(t, "error") /\ UNCHANGED <<cursor, iterator>>
    BY <1>5 DEF RaiseError
  <2>2. Inv'
    BY <1>1, <1>5, <2>1, AfterRefusal
  <2>3. Iteration!Next
    BY <1>5, <2>1, IsFailure
  <2> QED BY <2>2, <2>3 DEF Maps
<1> QED BY <1>1, <1>3, <1>4, <1>5 DEF NextAtOnce

LEMMA NextWithFetchStep ==
  ASSUME Inv, NEW t \in Task, NextWithFetch(t)
  PROVE  Inv' /\ Maps
<1>1. /\ cursor # None /\ iterator = cursor /\ cursor \in 1..Len(execs)
      /\ execs \in Seq(Execution) /\ execs[cursor] \in Execution
      /\ NeedsFetch(cursor) /\ Using = {} /\ Waits(t, cursor)
      /\ UNCHANGED <<cursor, iterator, execs, tx, begun, aborted>>
  BY Current DEF NextWithFetch, NotStarted
<1>2. /\ pc \in [Task -> {"idle", "fetching", "awaiting"}]
      /\ answer \in [Task -> {"none", "pending", "row", "stop", "error", "list"}]
      /\ serving \in [Task -> 0..Len(execs)]
      /\ \A u \in Task : pc[u] = "idle"
  BY <1>1 DEF Inv, TypeOK, Using
<1>3. /\ pc' \in [Task -> {"idle", "fetching", "awaiting"}]
      /\ answer' \in [Task -> {"none", "pending", "row", "stop", "error", "list"}]
      /\ serving' \in [Task -> 0..Len(execs)] /\ serving'[t] = cursor
      /\ answer'[t] = "pending"
      /\ \A u \in Task : u # t => pc'[u] = "idle"
  BY <1>1, <1>2 DEF Waits
<1>4. \A u \in Task : pc'[u] = "fetching" => serving'[u] = iterator' /\ iterator' # None
  BY <1>1, <1>3
<1>5. TypeOK'
  BY <1>1, <1>3, <1>4 DEF Inv, TypeOK
<1>6. NoAbandonedRows' /\ Counts'
  BY <1>1 DEF Inv, NoAbandonedRows, Counts
<1>7. Solo'
  BY <1>3 DEF Solo
<1>8. Waiting' /\ Asked'
  BY <1>1, <1>3 DEF Waiting, NeedsFetch, Asked
<1>9. Iteration!Next
  BY <1>1, IsAsk DEF Waits
<1> QED BY <1>5, <1>6, <1>7, <1>8, <1>9 DEF Inv, Maps

LEMMA FetchReturnsStep ==
  ASSUME Inv, NEW t \in Task, FetchReturns(t)
  PROVE  Inv' /\ Maps
<1> DEFINE n == Smaller(Prefetch, execs[cursor].size - (execs[cursor].taken + execs[cursor].lost))
<1>1. /\ serving[t] = cursor /\ cursor # None /\ execs[cursor].held = 0
      /\ NobodyElseFetches(t) /\ UNCHANGED <<serving, tx, begun, aborted>>
  BY Fetches DEF FetchReturns
<1>2. /\ cursor \in 1..Len(execs) /\ execs \in Seq(Execution)
      /\ execs[cursor] \in Execution /\ Sound(execs[cursor])
  BY <1>1, Current
<1>3. tx \in 0..(MaxTransactions + 1) /\ aborted' \in BOOLEAN
  BY <1>1, Parameters DEF Inv, TypeOK
<1>4. CASE /\ n > 0
           /\ execs' = [execs EXCEPT ![cursor].held = n - 1, ![cursor].taken = @ + 1,
                                     ![cursor].exhausted = n < Prefetch, ![cursor].portal = tx]
           /\ Decoded(t)
           /\ UNCHANGED <<cursor, iterator>>
  <2> DEFINE y == [execs[cursor] EXCEPT !.held = n - 1, !.taken = @ + 1,
                                        !.exhausted = n < Prefetch, !.portal = tx]
  <2>1. execs' = [execs EXCEPT ![cursor] = y]
    BY <1>2, <1>4
  <2>2. /\ y \in Execution /\ Sound(y) /\ y.size = execs[cursor].size
        /\ y.taken + y.lost = (execs[cursor].taken + execs[cursor].lost) + 1
        /\ execs[cursor].taken + execs[cursor].lost < execs[cursor].size
    <3>1. /\ n - 1 \in 0..MaxRows /\ execs[cursor].taken + 1 \in 0..MaxRows
          /\ execs[cursor].taken + execs[cursor].lost < execs[cursor].size
          /\ ((execs[cursor].taken + 1) + execs[cursor].lost) + (n - 1) <= execs[cursor].size
          /\ n < Prefetch =>
               ((execs[cursor].taken + 1) + execs[cursor].lost) + (n - 1) = execs[cursor].size
      BY <1>1, <1>2, <1>4, TakeFetched
    <3> HIDE DEF n
    <3>2. y \in Execution
      <4>1. (n < Prefetch) \in BOOLEAN
        OBVIOUS
      <4> QED BY <1>2, <1>3, <3>1, <4>1 DEF Execution
    <3>3. /\ y.size = execs[cursor].size /\ y.taken = execs[cursor].taken + 1
          /\ y.lost = execs[cursor].lost
          /\ y.held = n - 1 /\ y.exhausted = (n < Prefetch)
      BY <1>2 DEF Execution
    <3>5. execs[cursor].taken \in Nat /\ execs[cursor].lost \in Nat
      BY <1>2, Parameters DEF Execution
    <3>4. Sound(y)
      <4>1. y.exhausted => n < Prefetch
        BY <3>3
      <4> HIDE DEF y
      <4> QED BY <3>1, <3>3, <4>1 DEF Sound
    <3> HIDE DEF y
    <3> QED BY <3>1, <3>2, <3>3, <3>4, <3>5
  <2>3. Changes(cursor) /\ execs'[cursor] = y
    <3> HIDE DEF y
    <3> QED BY <1>1, <2>1, <2>2, ChangesCurrent
  <2>4. Inv'
    BY <1>1, <1>3, <1>4, <2>3, AfterRow
  <2>5. Iteration!Next
    BY <1>1, <1>4, <2>2, <2>3, IsDeliver
  <2> QED BY <2>4, <2>5 DEF Maps
<1>5. CASE /\ n = 0
           /\ execs' = [execs EXCEPT ![cursor].exhausted = TRUE, ![cursor].portal = tx]
           /\ ResetAndRaise(t)
  <2> DEFINE y == [execs[cursor] EXCEPT !.exhausted = TRUE, !.portal = tx]
  <2>1. execs' = [execs EXCEPT ![cursor] = y]
    BY <1>2, <1>5
  <2>2. /\ y \in Execution /\ Sound(y) /\ y.exhausted /\ y.taken + y.lost = y.size
        /\ execs[cursor].taken + execs[cursor].lost = execs[cursor].size
    BY <1>1, <1>2, <1>3, <1>5, FetchEnds
  <2>3. Changes(cursor) /\ execs'[cursor] = y
    <3> HIDE DEF y
    <3> QED BY <1>1, <2>1, <2>2, ChangesCurrent
  <2>4. Inv'
    BY <1>1, <1>5, <2>2, <2>3, AfterStop
  <2>5. Iteration!Next
    BY <1>1, <1>5, <2>2, IsStop
  <2> QED BY <2>4, <2>5 DEF Maps
<1> QED BY <1>1, <1>4, <1>5 DEF FetchReturns, Chunk

\* The two failures that cost no row: only the portal changes.
LEMMA PortalChanges ==
  ASSUME Inv, NEW t \in Task, pc[t] = "fetching", Returns(t, "error"),
         UNCHANGED <<cursor, iterator, serving, tx, begun>>, aborted' \in BOOLEAN,
         NEW p \in 0..(MaxTransactions + 1),
         execs' = [execs EXCEPT ![cursor].portal = p]
  PROVE  Inv' /\ Maps
<1> DEFINE y == [execs[cursor] EXCEPT !.portal = p]
<1>1. cursor # None /\ NobodyElseFetches(t)
  BY Fetches
<1>2. /\ cursor \in 1..Len(execs) /\ execs \in Seq(Execution)
      /\ execs[cursor] \in Execution /\ Sound(execs[cursor])
  BY <1>1, Current
<1>3. execs' = [execs EXCEPT ![cursor] = y]
  BY <1>2
<1>4. /\ y \in Execution /\ Sound(y) /\ y.size = execs[cursor].size
      /\ y.taken = execs[cursor].taken /\ y.lost = execs[cursor].lost
  BY <1>2 DEF Execution, Sound
<1>5. Changes(cursor) /\ execs'[cursor] = y
  <2> HIDE DEF y
  <2> QED BY <1>1, <1>3, <1>4, ChangesCurrent
<1>6. Inv'
  BY <1>1, <1>5, AfterRow
<1>7. Iteration!Next
  BY <1>1, <1>4, <1>5, IsFailure
<1> QED BY <1>6, <1>7 DEF Maps

LEMMA FetchFailsStep ==
  ASSUME Inv, NEW t \in Task, FetchFails(t)
  PROVE  Inv' /\ Maps
<1>1. /\ pc[t] = "fetching" /\ serving[t] = cursor /\ cursor # None
      /\ NobodyElseFetches(t) /\ answer[t] = "pending"
      /\ execs[cursor].held = 0 /\ ~execs[cursor].exhausted
      /\ UNCHANGED <<cursor, iterator, serving, tx, begun>> /\ Returns(t, "error")
  BY Fetches DEF FetchFails, RaiseError
<1>2. /\ cursor \in 1..Len(execs) /\ execs \in Seq(Execution)
      /\ execs[cursor] \in Execution /\ Sound(execs[cursor])
  BY <1>1, Current
<1>3. /\ tx \in 0..(MaxTransactions + 1) /\ aborted \in BOOLEAN
      /\ None \in 0..(MaxTransactions + 1) /\ NeverBound \in 0..(MaxTransactions + 1)
      /\ execs[cursor].portal \in 0..(MaxTransactions + 1)
  <2>1. tx \in 0..(MaxTransactions + 1) /\ aborted \in BOOLEAN
    BY Parameters DEF Inv, TypeOK
  <2>2. None \in 0..(MaxTransactions + 1) /\ NeverBound \in 0..(MaxTransactions + 1)
    BY Parameters DEF None, NeverBound
  <2>3. execs[cursor].portal \in 0..(MaxTransactions + 1)
    BY <1>2 DEF Execution
  <2> QED BY <2>1, <2>2, <2>3
<1>4. CASE Refused(cursor)
  <2>1. PICK p \in {execs[cursor].portal, tx} :
          execs' = [execs EXCEPT ![cursor].portal = IF @ = None THEN p ELSE @]
    BY <1>4 DEF Refused
  <2> DEFINE q == IF execs[cursor].portal = None THEN p ELSE execs[cursor].portal
  <2>2. execs' = [execs EXCEPT ![cursor].portal = q] /\ q \in 0..(MaxTransactions + 1)
    BY <1>2, <1>3, <2>1
  <2>3. aborted' \in BOOLEAN
    BY <1>4 DEF Refused
  <2> HIDE DEF q
  <2> QED BY <1>1, <2>2, <2>3, PortalChanges
<1>5. CASE NotSent(cursor)
  <2>1. PICK p \in {None, NeverBound} : execs' = [execs EXCEPT ![cursor].portal = p]
    BY <1>5 DEF NotSent
  <2>2. aborted' \in BOOLEAN /\ p \in 0..(MaxTransactions + 1)
    BY <1>3, <1>5 DEF NotSent
  <2> QED BY <1>1, <2>1, <2>2, PortalChanges
<1>6. CASE AnswerLost(cursor)
  <2> DEFINE y == [execs[cursor] EXCEPT !.lost = @ + Chunk(cursor), !.portal = tx]
  <2>1. execs' = [execs EXCEPT ![cursor] = y] /\ aborted' \in BOOLEAN
    BY <1>2, <1>3, <1>6 DEF AnswerLost
  <2>2. /\ y \in Execution /\ Sound(y) /\ y.size = execs[cursor].size
        /\ y.taken + y.lost
             \in (execs[cursor].taken + execs[cursor].lost)..execs[cursor].size
    BY <1>1, <1>2, <1>3, FetchLoses DEF Chunk
  <2>3. Changes(cursor) /\ execs'[cursor] = y
    <3> HIDE DEF y
    <3> QED BY <1>1, <2>1, <2>2, ChangesCurrent
  <2>4. Inv'
    BY <1>1, <2>1, <2>3, AfterRow
  <2>5. Iteration!Next
    BY <1>1, <2>2, <2>3, IsLoss
  <2> QED BY <2>4, <2>5 DEF Maps
<1> QED BY <1>1, <1>4, <1>5, <1>6 DEF FetchFails

LEMMA AwaitStep ==
  ASSUME Inv, NEW t \in Task, BeginAwait(t) \/ AwaitReturns(t)
  PROVE  Inv' /\ Maps
<1>1. UNCHANGED <<cursor, iterator, execs, serving, tx, begun>>
  BY DEF BeginAwait, AwaitReturns
<1>2. /\ pc \in [Task -> {"idle", "fetching", "awaiting"}]
      /\ answer \in [Task -> {"none", "pending", "row", "stop", "error", "list"}]
      /\ aborted' \in BOOLEAN
  BY DEF BeginAwait, AwaitReturns, Inv, TypeOK
<1>3. NoAbandonedRows' /\ Counts'
  BY <1>1 DEF Inv, NoAbandonedRows, Counts
<1>4. CASE Using = {} /\ BeginAwait(t) /\ pc' = [pc EXCEPT ![t] = "awaiting"]
           /\ answer' = [answer EXCEPT ![t] = "pending"]
  <2>1. /\ pc' \in [Task -> {"idle", "fetching", "awaiting"}]
        /\ answer' \in [Task -> {"none", "pending", "row", "stop", "error", "list"}]
        /\ \A u \in Task : pc'[u] # "fetching"
    BY <1>2, <1>4 DEF Using
  <2>2. TypeOK'
    BY <1>1, <1>2, <2>1 DEF Inv, TypeOK
  <2>3. Solo' /\ Waiting' /\ Asked'
    BY <2>1 DEF Solo, Waiting, Asked
  <2>4. Iteration!Next
    BY <1>1, <1>4, IsAsk
  <2> QED BY <1>3, <2>2, <2>3, <2>4 DEF Inv, Maps
<1>5. CASE pc[t] = "idle" /\ Returns(t, "error") /\ UNCHANGED aborted
  BY <1>1, <1>5, AfterRefusal, IsFailure DEF Maps
<1>6. CASE AwaitReturns(t)
  <2>1. PICK what \in {"list", "error"} : Returns(t, what)
    BY <1>6 DEF AwaitReturns
  <2>2. NobodyElseFetches(t)
    BY <1>6 DEF AwaitReturns, Inv, Solo, NobodyElseFetches
  <2>3. /\ pc' \in [Task -> {"idle", "fetching", "awaiting"}]
        /\ answer' \in [Task -> {"none", "pending", "row", "stop", "error", "list"}]
        /\ \A u \in Task : pc'[u] # "fetching"
    BY <2>1, <2>2, Returned
  <2>4. TypeOK'
    BY <1>1, <1>2, <2>3 DEF Inv, TypeOK
  <2>5. Solo' /\ Waiting' /\ Asked'
    BY <2>3 DEF Solo, Waiting, Asked
  <2>6. Iteration!Next
    BY <1>1, <2>1, IsFailure
  <2> QED BY <1>3, <2>4, <2>5, <2>6 DEF Inv, Maps
<1> QED BY <1>4, <1>5, <1>6 DEF BeginAwait

-----------------------------------------------------------------------------
(* The theorems. *)

LEMMA InitInv == Init => Inv /\ Iteration!Init
<1> SUFFICES ASSUME Init PROVE Inv /\ Iteration!Init
  OBVIOUS
<1>1. TypeOK
  <2>1. execs \in Seq(Execution) /\ Len(execs) = 0
    BY DEF Init
  <2>2. 0 \in 0..0 /\ 0 \in 0..MaxTransactions
    BY Parameters
  <2> QED BY <2>1, <2>2 DEF Init, TypeOK, None
<1>2. NoAbandonedRows /\ Counts
  BY DEF Init, NoAbandonedRows, Counts
<1>3. Solo /\ Waiting /\ Asked
  BY DEF Init, Solo, Waiting, Asked
<1>4. Iteration!Init
  BY DEF Init, Iteration!Init
<1> QED BY <1>1, <1>2, <1>3, <1>4 DEF Inv

LEMMA StepInv == Inv /\ [Next]_vars => Inv' /\ [Iteration!Next]_(Iteration!vars)
<1> SUFFICES ASSUME Inv, [Next]_vars PROVE Inv' /\ Maps
  BY DEF Maps
<1>1. CASE BeginTransaction \/ EndTransaction
  BY <1>1, TransactionStep
<1>2. ASSUME NEW t \in Task, FirstNext(t) PROVE Inv' /\ Maps
  BY <1>2, FirstNextStep
<1>3. ASSUME NEW t \in Task, NextAtOnce(t) PROVE Inv' /\ Maps
  BY <1>3, NextAtOnceStep
<1>4. ASSUME NEW t \in Task, NextWithFetch(t) PROVE Inv' /\ Maps
  BY <1>4, NextWithFetchStep
<1>5. ASSUME NEW t \in Task, FetchReturns(t) PROVE Inv' /\ Maps
  BY <1>5, FetchReturnsStep
<1>6. ASSUME NEW t \in Task, FetchFails(t) PROVE Inv' /\ Maps
  BY <1>6, FetchFailsStep
<1>7. ASSUME NEW t \in Task, BeginAwait(t) \/ AwaitReturns(t) PROVE Inv' /\ Maps
  BY <1>7, AwaitStep
<1>8. CASE UNCHANGED vars
  <2>1. UNCHANGED <<cursor, iterator, execs, pc, serving, answer, tx, begun, aborted>>
    BY <1>8 DEF vars
  <2>2. TypeOK'
    BY <2>1 DEF Inv, TypeOK
  <2>3. NoAbandonedRows' /\ Counts' /\ Solo' /\ Waiting' /\ Asked'
    BY <2>1 DEF Inv, NoAbandonedRows, Counts, Solo, Waiting, Asked
  <2>4. UNCHANGED Iteration!vars
    BY <2>1 DEF Iteration!vars
  <2> QED BY <2>2, <2>3, <2>4 DEF Inv, Maps
<1> QED BY <1>1, <1>2, <1>3, <1>4, <1>5, <1>6, <1>7, <1>8 DEF Next

\* The attributes are set and cleared together, in any number of tasks
\* (__anext__, asyncpg.go:34-46).
THEOREM TypeCorrect == Spec => []TypeOK
<1>1. Inv => TypeOK
  BY DEF Inv
<1> QED BY InitInv, StepInv, <1>1, PTL DEF Spec

\* No cursor with rows left is ever replaced by another one, whatever tasks,
\* transactions and failures do: the rows that were not handed out were lost in
\* calls that raised (asyncpg.go:37 and 42).
THEOREM RowsNotAbandoned == Spec => []NoAbandonedRows
<1>1. Inv => NoAbandonedRows
  BY DEF Inv
<1> QED BY InitInv, StepInv, <1>1, PTL DEF Spec

\* The object implements the iteration that its docstrings promise: no row twice
\* and none out of order, none missing but by a call that raised, the stop after
\* the last one, then a fresh start.
THEOREM Implements == Spec => ImplementsIteration
BY InitInv, StepInv, PTL DEF Spec, ImplementsIteration, Iteration!Spec

=============================================================================
