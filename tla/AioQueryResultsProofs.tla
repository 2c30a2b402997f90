----------------------- MODULE AioQueryResultsProofs ------------------------
(***************************************************************************)
(* For every set of tasks, every size of a result and every chunk, and any   *)
(* number of executions: the tasks of one aiosqlite QueryResults object      *)
(* share one iteration, but for the steps in which a task comes back from a  *)
(* first call that was overtaken.                                          *)
(***************************************************************************)
EXTENDS AioQueryResults, SequenceTheorems, TLAPS

-----------------------------------------------------------------------------
(* The inductive invariant. *)

Answer == {"none", "pending", "row", "stop", "busy", "error", "list"}
Place == {"idle", "executing", "fetching", "awaiting"}

\* A task inside a call has no answer yet.
Asked == \A t \in Task : pc[t] # "idle" => answer[t] = "pending"

\* A fetch is for a generator that holds nothing and has not ended.
Waiting ==
  \A t \in Task : pc[t] = "fetching" =>
    /\ serving[t] \in 1..Len(execs)
    /\ execs[serving[t]].held = 0 /\ ~execs[serving[t]].ended

\* No generator is in two fetches: aiosqlite's generator refuses the second one.
OneFetchPerGenerator ==
  \A t, u \in Task :
    pc[t] = "fetching" /\ pc[u] = "fetching" /\ t # u => serving[t] # serving[u]

\* The rows that are gone and the rows held are rows of the execution, and none is
\* left once the generator has ended; only its end loses any.
Sound(x) ==
  /\ (x.taken + x.lost) + x.held <= x.size
  /\ ~x.ended => x.lost = 0
  /\ x.ended => x.taken + x.lost = x.size

Counts == \A e \in 1..Len(execs) : Sound(execs[e])

Inv == TypeOK /\ OneFetchPerGenerator /\ Asked /\ Waiting /\ Counts

-----------------------------------------------------------------------------
(* Lemmas. *)

\* What the invariant says of the types.
LEMMA Types ==
  ASSUME Inv
  PROVE  /\ cursor \in 0..Len(execs) /\ iterator = cursor
         /\ execs \in Seq(Execution) /\ Len(execs) \in Nat
         /\ pc \in [Task -> Place] /\ answer \in [Task -> Answer]
         /\ serving \in [Task -> 0..Len(execs)]
BY DEF Inv, TypeOK, Place, Answer

LEMMA TypesSuffice ==
  ASSUME cursor' \in 0..Len(execs'), iterator' = cursor', execs' \in Seq(Execution),
         pc' \in [Task -> Place], answer' \in [Task -> Answer],
         serving' \in [Task -> 0..Len(execs')]
  PROVE  TypeOK'
BY DEF TypeOK, Place, Answer

\* Execution e becomes y, the others stay.
LEMMA Replaced ==
  ASSUME NEW s \in Seq(Execution), NEW e \in 1..Len(s), NEW y \in Execution,
         NEW r, r = [s EXCEPT ![e] = y]
  PROVE  /\ r \in Seq(Execution) /\ Len(r) = Len(s)
         /\ r[e] = y
         /\ \A i \in 1..Len(s) : i # e => r[i] = s[i]
  OBVIOUS

LEMMA Added ==
  ASSUME NEW s \in Seq(Execution), NEW y \in Execution, NEW r, r = Append(s, y)
  PROVE  /\ r \in Seq(Execution) /\ Len(r) = Len(s) + 1
         /\ r[Len(s) + 1] = y
         /\ \A i \in 1..Len(s) : r[i] = s[i]
  OBVIOUS

\* Handing out a held row uses it up.
LEMMA TakeHeld ==
  ASSUME NEW x \in Execution, Sound(x), x.held > 0, NEW y,
         y = [x EXCEPT !.held = @ - 1, !.taken = @ + 1]
  PROVE  /\ y \in Execution /\ Sound(y) /\ y.size = x.size
         /\ y.taken + y.lost = (x.taken + x.lost) + 1 /\ x.taken + x.lost < x.size
<1>1. /\ x.size \in 0..MaxRows /\ x.taken \in 0..MaxRows /\ x.held \in 0..MaxRows
      /\ x.lost \in 0..MaxRows /\ (x.taken + x.lost) + x.held <= x.size
      /\ MaxRows \in Nat /\ ~x.ended
  BY Parameters DEF Execution, Sound
<1>2. /\ y.size = x.size /\ y.taken = x.taken + 1 /\ y.held = x.held - 1
      /\ y.lost = x.lost /\ y.ended = x.ended
  BY DEF Execution
<1>3. /\ x.taken + 1 \in 0..MaxRows /\ x.held - 1 \in 0..MaxRows
      /\ x.taken + x.lost < x.size
  BY <1>1
<1>4. y \in Execution
  BY <1>3 DEF Execution
<1>5. Sound(y) /\ y.taken + y.lost = (x.taken + x.lost) + 1
  BY <1>1, <1>2, <1>3 DEF Sound
<1> QED BY <1>2, <1>3, <1>4, <1>5

\* The first row of a chunk is handed out, the others are held.
LEMMA TakeFetched ==
  ASSUME NEW x \in Execution, Sound(x), x.held = 0, ~x.ended,
         Smaller(Chunk, x.size - x.taken) > 0, NEW y,
         y = [x EXCEPT !.held = Smaller(Chunk, x.size - x.taken) - 1, !.taken = @ + 1]
  PROVE  /\ y \in Execution /\ Sound(y) /\ y.size = x.size
         /\ y.taken + y.lost = (x.taken + x.lost) + 1 /\ x.taken + x.lost < x.size
<1> DEFINE n == Smaller(Chunk, x.size - x.taken)
<1>1. /\ x.size \in 0..MaxRows /\ x.taken \in 0..MaxRows /\ x.taken <= x.size
      /\ x.lost = 0
      /\ MaxRows \in Nat /\ Chunk \in Nat \ {0}
  BY Parameters DEF Execution, Sound
<1>2. n \in 1..(x.size - x.taken)
  BY <1>1 DEF Smaller
<1>3. /\ y.size = x.size /\ y.taken = x.taken + 1 /\ y.held = n - 1 /\ y.lost = 0
      /\ ~y.ended
  BY DEF Execution, Sound
<1> HIDE DEF n
<1>4. /\ n - 1 \in 0..MaxRows /\ x.taken + 1 \in 0..MaxRows /\ x.taken < x.size
      /\ (x.taken + 1) + (n - 1) <= x.size
  BY <1>1, <1>2
<1>5. y \in Execution
  BY <1>4 DEF Execution, n
<1>6. Sound(y)
  BY <1>1, <1>3, <1>4 DEF Sound
<1> QED BY <1>1, <1>3, <1>4, <1>5, <1>6

\* A chunk without rows: every row was handed out.
LEMMA FetchEnds ==
  ASSUME NEW x \in Execution, Sound(x), x.held = 0, ~x.ended,
         Smaller(Chunk, x.size - x.taken) = 0, NEW y, y = [x EXCEPT !.ended = TRUE]
  PROVE  /\ y \in Execution /\ Sound(y) /\ x.taken + x.lost = x.size
<1>1. /\ x.size \in 0..MaxRows /\ x.taken \in 0..MaxRows /\ x.taken <= x.size
      /\ x.lost = 0
      /\ MaxRows \in Nat /\ Chunk \in Nat \ {0}
  BY Parameters DEF Execution, Sound
<1>2. x.taken = x.size
  BY <1>1 DEF Smaller
<1>3. /\ y \in Execution /\ y.size = x.size /\ y.taken = x.taken /\ y.lost = x.lost
      /\ y.held = x.held
  BY DEF Execution
<1>4. Sound(y)
  BY <1>1, <1>2, <1>3 DEF Sound
<1> QED BY <1>1, <1>2, <1>3, <1>4

\* A fetch that fails: the rows that were not handed out are gone.
LEMMA FetchLoses ==
  ASSUME NEW x \in Execution, Sound(x), x.held = 0, ~x.ended, NEW y,
         y = [x EXCEPT !.ended = TRUE, !.lost = x.size - x.taken]
  PROVE  /\ y \in Execution /\ Sound(y) /\ y.size = x.size
         /\ y.taken + y.lost \in (x.taken + x.lost)..x.size
<1>1. /\ x.size \in 0..MaxRows /\ x.taken \in 0..MaxRows /\ x.taken <= x.size
      /\ x.lost = 0
      /\ MaxRows \in Nat
  BY Parameters DEF Execution, Sound
<1>2. /\ y.size = x.size /\ y.taken = x.taken /\ y.lost = x.size - x.taken /\ y.held = 0
  BY DEF Execution
<1>3. x.size - x.taken \in 0..MaxRows
  BY <1>1
<1>4. y \in Execution
  BY <1>3 DEF Execution
<1>5. Sound(y) /\ y.taken + y.lost \in (x.taken + x.lost)..x.size
  BY <1>1, <1>2 DEF Sound
<1> QED BY <1>2, <1>4, <1>5

-----------------------------------------------------------------------------
(* How a call ends. *)

\* Execution e changes and no task goes on fetching from it.
Changes(e) ==
  /\ e \in 1..Len(execs)
  /\ execs' \in Seq(Execution) /\ Len(execs') = Len(execs)
  /\ \A i \in 1..Len(execs) : i # e => execs'[i] = execs[i]
  /\ Sound(execs'[e])
  /\ \A u \in Task : pc'[u] = "fetching" => serving[u] # e

LEMMA Returned ==
  ASSUME Inv, NEW t \in Task, NEW what \in Answer, Returns(t, what)
  PROVE  /\ pc' \in [Task -> Place] /\ answer' \in [Task -> Answer]
         /\ pc'[t] = "idle"
         /\ \A u \in Task : u # t => pc'[u] = pc[u] /\ answer'[u] = answer[u]
         /\ \A u \in Task : pc'[u] # "idle" => pc'[u] = pc[u] /\ answer'[u] = answer[u]
<1>1. pc \in [Task -> Place] /\ answer \in [Task -> Answer]
  BY Types
<1>2. "idle" \in Place
  BY DEF Place
<1> QED BY <1>1, <1>2 DEF Returns

\* A call that changes the execution of the generator it asked.
LEMMA AfterAnswer ==
  ASSUME Inv, NEW t \in Task, NEW what \in Answer, Returns(t, what),
         NEW e, Changes(e), UNCHANGED serving,
         iterator' = cursor', cursor' \in {cursor, None}
  PROVE  Inv'
<1>1. /\ pc' \in [Task -> Place] /\ answer' \in [Task -> Answer]
      /\ \A u \in Task : pc'[u] # "idle" => pc'[u] = pc[u] /\ answer'[u] = answer[u]
  BY Returned
<1>2. /\ cursor \in 0..Len(execs) /\ serving \in [Task -> 0..Len(execs)]
      /\ Len(execs) \in Nat
  BY Types
<1>3. TypeOK'
  <2>1. cursor' \in 0..Len(execs') /\ execs' \in Seq(Execution)
    BY <1>2 DEF Changes, None
  <2>2. serving' \in [Task -> 0..Len(execs')]
    BY <1>2 DEF Changes
  <2> QED BY <1>1, <2>1, <2>2, TypesSuffice
<1>5. OneFetchPerGenerator'
  BY <1>1 DEF Inv, OneFetchPerGenerator
<1>6. Asked'
  BY <1>1 DEF Inv, Asked
<1>7. Waiting'
  <2> SUFFICES ASSUME NEW u \in Task, pc'[u] = "fetching"
               PROVE  /\ serving[u] \in 1..Len(execs)
                      /\ execs'[serving[u]].held = 0 /\ ~execs'[serving[u]].ended
    BY DEF Waiting, Changes
  <2>1. pc[u] = "fetching" /\ serving[u] # e
    BY <1>1 DEF Changes
  <2>2. /\ serving[u] \in 1..Len(execs)
        /\ execs[serving[u]].held = 0 /\ ~execs[serving[u]].ended
    BY <2>1 DEF Inv, Waiting
  <2> QED BY <2>1, <2>2 DEF Changes
<1>8. Counts'
  BY DEF Inv, Counts, Changes
<1> QED BY <1>3, <1>5, <1>6, <1>7, <1>8 DEF Inv

\* A call that changes nothing but its own answer.
LEMMA AfterNothing ==
  ASSUME Inv, NEW t \in Task, NEW what \in Answer, Returns(t, what),
         UNCHANGED <<cursor, iterator, execs, serving>>
  PROVE  Inv'
<1>1. /\ pc' \in [Task -> Place] /\ answer' \in [Task -> Answer]
      /\ \A u \in Task : pc'[u] # "idle" => pc'[u] = pc[u] /\ answer'[u] = answer[u]
  BY Returned
<1>2. TypeOK'
  BY <1>1, Types, TypesSuffice
<1>3. Counts'
  BY DEF Inv, Counts
<1>4. OneFetchPerGenerator' /\ Waiting'
  BY <1>1 DEF Inv, OneFetchPerGenerator, Waiting
<1>5. Asked'
  BY <1>1 DEF Inv, Asked
<1> QED BY <1>2, <1>3, <1>4, <1>5 DEF Inv

\* The object is reset for a generator that had ended.
LEMMA AfterReset ==
  ASSUME Inv, NEW t \in Task, cursor # None, execs[cursor].ended,
         ResetAndRaise(t), UNCHANGED <<execs, serving>>
  PROVE  Inv'
<1>1. cursor \in 1..Len(execs) /\ execs \in Seq(Execution)
  BY Types DEF None
<1>2. cursor' = None /\ iterator' = None /\ Returns(t, "stop") /\ "stop" \in Answer
  BY DEF ResetAndRaise, Answer
<1>3. \A u \in Task : pc'[u] = "fetching" => pc[u] = "fetching"
  BY <1>2, Returned
<1>4. \A u \in Task : pc'[u] = "fetching" => serving[u] # cursor
  BY <1>3 DEF Inv, Waiting
<1>5. Changes(cursor)
  BY <1>1, <1>4 DEF Inv, Counts, Changes
<1> QED BY <1>2, <1>5, AfterAnswer

-----------------------------------------------------------------------------
(* How a step looks to RowIteration. *)

\* What ImplementsIteration says of one step.
Maps ==
  \/ \E t \in Task : Stale(t) /\ pc'[t] # pc[t]
  \/ Iteration!Next
  \/ UNCHANGED Iteration!vars

\* A task comes back from a call that was overtaken.
LEMMA IsStale ==
  ASSUME NEW t \in Task, Stale(t), pc'[t] # pc[t]
  PROVE  Maps
BY DEF Maps

LEMMA Answers ==
  ASSUME Inv, NEW t \in Task, NEW what \in Answer, answer' = [answer EXCEPT ![t] = what]
  PROVE  Iteration!Answers(t, IF what = "busy" THEN "error" ELSE what)
<1>1. answer \in [Task -> Answer]
  BY Types
<1> QED BY <1>1 DEF Iteration!Answers

LEMMA IsAsk ==
  ASSUME Inv, NEW t \in Task, answer' = [answer EXCEPT ![t] = "pending"],
         UNCHANGED <<cursor, execs>>
  PROVE  Maps
<1>1. Iteration!Answers(t, "pending")
  BY Answers DEF Answer
<1>2. Iteration!Ask(t)
  BY <1>1 DEF Iteration!Ask
<1> QED BY <1>2 DEF Maps, Iteration!Next

LEMMA IsFailure ==
  ASSUME Inv, NEW t \in Task, NEW what \in {"busy", "error", "list"}, Returns(t, what),
         cursor' = cursor,
         cursor # None => /\ execs'[cursor].size = execs[cursor].size
                          /\ execs'[cursor].taken = execs[cursor].taken
                          /\ execs'[cursor].lost = execs[cursor].lost
  PROVE  Maps
<1>1. what \in Answer /\ answer' = [answer EXCEPT ![t] = what]
  BY DEF Returns, Answer
<1>2. \E w \in {"list", "error"} : Iteration!Answers(t, w)
  BY <1>1, Answers
<1>3. Iteration!Fetch(t)
  BY <1>2 DEF Iteration!Fetch
<1> QED BY <1>3 DEF Maps, Iteration!Next

LEMMA IsDeliver ==
  ASSUME Inv, NEW t \in Task, cursor # None, cursor' = cursor, Decoded(t),
         execs'[cursor].size = execs[cursor].size,
         execs'[cursor].taken + execs'[cursor].lost
           = (execs[cursor].taken + execs[cursor].lost) + 1,
         execs[cursor].taken + execs[cursor].lost < execs[cursor].size
  PROVE  Maps
<1>1. PICK what \in {"row", "error"} : answer' = [answer EXCEPT ![t] = what]
  BY DEF Decoded, Returns
<1>2. \E w \in {"row", "error"} : Iteration!Answers(t, w)
  BY <1>1, Answers DEF Answer
<1>3. Iteration!Deliver(t)
  BY <1>2 DEF Iteration!Deliver
<1> QED BY <1>3 DEF Maps, Iteration!Next

LEMMA IsLoss ==
  ASSUME Inv, NEW t \in Task, Returns(t, "error"), answer[t] = "pending",
         cursor # None, cursor' = cursor,
         execs'[cursor].size = execs[cursor].size,
         execs'[cursor].taken + execs'[cursor].lost
           \in (execs[cursor].taken + execs[cursor].lost)..execs[cursor].size
  PROVE  Maps
<1>1. Iteration!Answers(t, "error")
  BY Answers DEF Answer, Returns
<1>2. Iteration!Lose(t)
  BY <1>1 DEF Iteration!Lose
<1> QED BY <1>2 DEF Maps, Iteration!Next

LEMMA IsStop ==
  ASSUME Inv, NEW t \in Task, cursor # None, ResetAndRaise(t),
         execs[cursor].taken + execs[cursor].lost = execs[cursor].size
  PROVE  Maps
<1>1. Iteration!Answers(t, "stop")
  BY Answers DEF Answer, ResetAndRaise, Returns
<1>2. Iteration!Stop(t)
  BY <1>1 DEF Iteration!Stop, ResetAndRaise
<1> QED BY <1>2 DEF Maps, Iteration!Next

-----------------------------------------------------------------------------
(* The actions. *)

LEMMA BeginExecuteStep ==
  ASSUME Inv, NEW t \in Task, BeginExecute(t)
  PROVE  Inv' /\ Maps
<1>1. /\ pc[t] = "idle" /\ pc' = [pc EXCEPT ![t] = "executing"]
      /\ answer' = [answer EXCEPT ![t] = "pending"]
      /\ NotStarted
      /\ UNCHANGED <<cursor, iterator, execs, serving>>
  BY DEF BeginExecute
<1>2. cursor = None
  BY <1>1, Types DEF NotStarted
<1>3. /\ pc' \in [Task -> Place] /\ answer' \in [Task -> Answer]
      /\ pc'[t] = "executing" /\ answer'[t] = "pending"
      /\ \A u \in Task : u # t => pc'[u] = pc[u] /\ answer'[u] = answer[u]
  BY <1>1, Types DEF Place, Answer
<1>5. TypeOK'
  BY <1>1, <1>3, Types, TypesSuffice
<1>6. Counts'
  BY <1>1 DEF Inv, Counts
<1>7. OneFetchPerGenerator' /\ Waiting'
  BY <1>1, <1>3 DEF Inv, OneFetchPerGenerator, Waiting
<1>8. Asked'
  BY <1>3 DEF Inv, Asked
<1> QED BY <1>1, <1>5, <1>6, <1>7, <1>8, IsAsk DEF Inv

LEMMA ExecuteReturnsStep ==
  ASSUME Inv, NEW t \in Task, ExecuteReturns(t)
  PROVE  Inv' /\ Maps
<1> DEFINE e == Len(execs) + 1
<1>1. PICK n \in 0..MaxRows : execs' = Append(execs, Fresh(n))
  BY DEF ExecuteReturns
<1> DEFINE x == Fresh(n)
<1>2. /\ pc[t] = "executing" /\ pc' = [pc EXCEPT ![t] = "fetching"]
      /\ cursor' = e /\ iterator' = e /\ serving' = [serving EXCEPT ![t] = e]
      /\ UNCHANGED answer
  BY DEF ExecuteReturns
<1>3. /\ x \in Execution /\ x.held = 0 /\ ~x.ended /\ x.taken = 0 /\ x.lost = 0
      /\ x.size = n /\ Sound(x)
  BY Parameters DEF Execution, Fresh, Sound
<1>4. /\ execs' \in Seq(Execution) /\ Len(execs') = e /\ execs'[e] = x
      /\ \A i \in 1..Len(execs) : execs'[i] = execs[i]
  <2> HIDE DEF x
  <2> QED BY <1>1, <1>3, Types, Added DEF x
<1>5. /\ e \in 1..Len(execs') /\ e # None /\ e \notin 1..Len(execs)
      /\ \A i \in 1..Len(execs') : i = e \/ i \in 1..Len(execs)
  BY <1>4, Types DEF None
<1>6. /\ pc' \in [Task -> Place] /\ pc'[t] = "fetching"
      /\ serving' \in [Task -> 0..Len(execs')] /\ serving'[t] = e
      /\ \A u \in Task : u # t => pc'[u] = pc[u] /\ serving'[u] = serving[u]
  BY <1>2, <1>4, <1>5, Types DEF Place
<1>7. TypeOK'
  <2>1. cursor' \in 0..Len(execs') /\ iterator' = cursor'
    BY <1>2, <1>5
  <2> QED BY <1>2, <1>4, <1>6, <2>1, Types, TypesSuffice
<1>10. Counts'
  <2> HIDE DEF x
  <2> QED BY <1>3, <1>4, <1>5 DEF Inv, Counts
<1>11. \A u \in Task : u # t /\ pc'[u] = "fetching" =>
         /\ pc[u] = "fetching" /\ serving'[u] = serving[u] /\ serving[u] \in 1..Len(execs)
  BY <1>6 DEF Inv, Waiting
<1>12. OneFetchPerGenerator'
  BY <1>5, <1>6, <1>11 DEF Inv, OneFetchPerGenerator
<1>13. Waiting'
  <2> SUFFICES ASSUME NEW u \in Task, pc'[u] = "fetching"
               PROVE  /\ serving'[u] \in 1..Len(execs')
                      /\ execs'[serving'[u]].held = 0 /\ ~execs'[serving'[u]].ended
    BY DEF Waiting
  <2>1. CASE u = t
    <3> HIDE DEF x
    <3> QED BY <1>3, <1>4, <1>5, <1>6, <2>1
  <2>2. CASE u # t
    <3>1. /\ serving'[u] = serving[u] /\ serving[u] \in 1..Len(execs)
          /\ execs[serving[u]].held = 0 /\ ~execs[serving[u]].ended
      BY <1>11, <2>2 DEF Inv, Waiting
    <3> QED BY <1>4, <3>1, Types
  <2> QED BY <2>1, <2>2
<1>14. Asked'
  BY <1>2, <1>6 DEF Inv, Asked
<1>15. CASE cursor # None
  <2>1. Stale(t) /\ pc'[t] # pc[t]
    BY <1>2, <1>6, <1>15 DEF Stale
  <2> QED BY <1>7, <1>10, <1>12, <1>13, <1>14, <2>1, IsStale DEF Inv
<1>16. CASE cursor = None
  <2>1. answer[t] = "pending" /\ answer \in [Task -> Answer]
    BY <1>2, Types DEF Inv, Asked
  <2>2. answer' = [answer EXCEPT ![t] = "pending"]
    BY <1>2, <2>1
  <2>3. Iteration!Answers(t, "pending")
    BY <2>2, Answers DEF Answer
  <2>4. execs'[cursor'].taken + execs'[cursor'].lost = 0 /\ execs'[cursor'].size \in 0..MaxRows
    BY <1>2, <1>3, <1>4
  <2>5. Iteration!Start(t)
    BY <1>2, <1>5, <1>16, <2>3, <2>4 DEF Iteration!Start
  <2> QED BY <1>7, <1>10, <1>12, <1>13, <1>14, <2>5 DEF Inv, Maps, Iteration!Next
<1> QED BY <1>15, <1>16

LEMMA ContinueAtOnceStep ==
  ASSUME Inv, NEW t \in Task, ContinueAtOnce(t)
  PROVE  Inv' /\ Maps
<1>1. /\ cursor # None /\ iterator = cursor /\ AskAtOnce(t, cursor)
      /\ UNCHANGED serving
  BY Types DEF ContinueAtOnce, NotStarted
<1>2. /\ cursor \in 1..Len(execs) /\ execs \in Seq(Execution)
      /\ execs[cursor] \in Execution /\ Sound(execs[cursor])
  BY <1>1, Types DEF None, Inv, Counts
<1>3. CASE Returns(t, "busy") /\ UNCHANGED <<cursor, iterator, execs>>
  BY <1>1, <1>3, AfterNothing, IsFailure DEF Answer
<1>4. CASE execs[cursor].ended /\ ResetAndRaise(t) /\ UNCHANGED execs
  <2>1. Inv'
    BY <1>1, <1>4, AfterReset
  <2>2. execs[cursor].taken + execs[cursor].lost = execs[cursor].size
    BY <1>2, <1>4 DEF Sound
  <2> QED BY <1>1, <1>4, <2>1, <2>2, IsStop
<1>5. CASE /\ Fetching(cursor) = {} /\ execs[cursor].held > 0
           /\ execs' = [execs EXCEPT ![cursor].held = @ - 1, ![cursor].taken = @ + 1]
           /\ Decoded(t)
           /\ UNCHANGED <<cursor, iterator>>
  <2> DEFINE y == [execs[cursor] EXCEPT !.held = @ - 1, !.taken = @ + 1]
  <2>1. execs' = [execs EXCEPT ![cursor] = y]
    BY <1>2, <1>5
  <2>2. /\ y \in Execution /\ Sound(y) /\ y.size = execs[cursor].size
        /\ y.taken + y.lost = (execs[cursor].taken + execs[cursor].lost) + 1
        /\ execs[cursor].taken + execs[cursor].lost < execs[cursor].size
    BY <1>2, <1>5, TakeHeld
  <2> HIDE DEF y
  <2>3. /\ execs' \in Seq(Execution) /\ Len(execs') = Len(execs) /\ execs'[cursor] = y
        /\ \A i \in 1..Len(execs) : i # cursor => execs'[i] = execs[i]
    BY <1>2, <2>1, <2>2, Replaced
  <2>4. PICK what \in {"row", "error"} : Returns(t, what)
    BY <1>5 DEF Decoded
  <2>5. \A u \in Task : pc'[u] = "fetching" => serving[u] # cursor
    BY <1>5, <2>4, Returned DEF Fetching, Answer
  <2>6. Changes(cursor)
    BY <1>2, <2>2, <2>3, <2>5 DEF Changes
  <2>7. Inv'
    BY <1>1, <1>5, <2>2, <2>3, <2>4, <2>6, AfterAnswer DEF Answer
  <2>8. Maps
    BY <1>1, <1>5, <2>2, <2>3, IsDeliver
  <2> QED BY <2>7, <2>8
<1> QED BY <1>1, <1>3, <1>4, <1>5 DEF AskAtOnce

LEMMA ContinueWithFetchStep ==
  ASSUME Inv, NEW t \in Task, ContinueWithFetch(t)
  PROVE  Inv' /\ Maps
<1>1. /\ pc[t] = "idle" /\ cursor # None /\ iterator = cursor /\ NeedsFetch(cursor)
      /\ pc' = [pc EXCEPT ![t] = "fetching"]
      /\ serving' = [serving EXCEPT ![t] = cursor]
      /\ answer' = [answer EXCEPT ![t] = "pending"]
      /\ UNCHANGED <<cursor, iterator, execs>>
  BY Types DEF ContinueWithFetch, NotStarted
<1>2. /\ cursor \in 1..Len(execs) /\ Fetching(cursor) = {}
      /\ ~execs[cursor].ended /\ execs[cursor].held = 0
  BY <1>1, Types DEF None, NeedsFetch
<1>3. /\ pc' \in [Task -> Place] /\ answer' \in [Task -> Answer]
      /\ serving' \in [Task -> 0..Len(execs)]
      /\ pc'[t] = "fetching" /\ serving'[t] = cursor /\ answer'[t] = "pending"
      /\ \A u \in Task : u # t => /\ pc'[u] = pc[u] /\ serving'[u] = serving[u]
                                  /\ answer'[u] = answer[u]
  BY <1>1, Types DEF Place, Answer
<1>4. TypeOK'
  BY <1>1, <1>3, Types, TypesSuffice
<1>5. Counts'
  BY <1>1 DEF Inv, Counts
<1>6. OneFetchPerGenerator'
  BY <1>2, <1>3 DEF Inv, OneFetchPerGenerator, Fetching
<1>7. Waiting'
  BY <1>1, <1>2, <1>3 DEF Inv, Waiting
<1>8. Asked'
  BY <1>1, <1>3 DEF Inv, Asked
<1>9. Maps
  BY <1>1, IsAsk
<1> QED BY <1>4, <1>5, <1>6, <1>7, <1>8, <1>9 DEF Inv

\* What the invariant says of a fetch that returns or fails.
LEMMA Fetch ==
  ASSUME Inv, NEW t \in Task, pc[t] = "fetching"
  PROVE  /\ serving[t] \in 1..Len(execs) /\ execs \in Seq(Execution)
         /\ execs[serving[t]] \in Execution
         /\ execs[serving[t]].held = 0 /\ ~execs[serving[t]].ended
         /\ Sound(execs[serving[t]]) /\ answer[t] = "pending"
         /\ \A u \in Task : pc[u] = "fetching" /\ u # t => serving[u] # serving[t]
<1>1. /\ serving[t] \in 1..Len(execs) /\ execs \in Seq(Execution)
      /\ execs[serving[t]].held = 0 /\ ~execs[serving[t]].ended
  BY Types DEF Inv, Waiting
<1>2. \A u \in Task : pc[u] = "fetching" /\ u # t => serving[u] # serving[t]
  BY DEF Inv, OneFetchPerGenerator
<1> QED BY <1>1, <1>2 DEF Inv, Counts, Asked

LEMMA FetchReturnsStep ==
  ASSUME Inv, NEW t \in Task, FetchReturns(t)
  PROVE  Inv' /\ Maps
<1> DEFINE e == serving[t]
           n == Smaller(Chunk, execs[e].size - execs[e].taken)
<1>1. pc[t] = "fetching" /\ UNCHANGED serving
  BY DEF FetchReturns
<1>2. /\ e \in 1..Len(execs) /\ execs \in Seq(Execution) /\ execs[e] \in Execution
      /\ execs[e].held = 0 /\ ~execs[e].ended /\ Sound(execs[e])
      /\ \A u \in Task : pc[u] = "fetching" /\ u # t => serving[u] # e
  BY <1>1, Fetch
<1>3. iterator = cursor /\ e # None
  BY <1>2, Types DEF None
<1>4. ASSUME e # cursor, pc'[t] # pc[t] PROVE Maps
  BY <1>1, <1>4, IsStale DEF Stale
<1>5. CASE /\ n > 0
           /\ execs' = [execs EXCEPT ![e].held = n - 1, ![e].taken = @ + 1]
           /\ Decoded(t)
           /\ UNCHANGED <<cursor, iterator>>
  <2> DEFINE y == [execs[e] EXCEPT !.held = n - 1, !.taken = @ + 1]
  <2>1. execs' = [execs EXCEPT ![e] = y]
    BY <1>2, <1>5
  <2>2. /\ y \in Execution /\ Sound(y) /\ y.size = execs[e].size
        /\ y.taken + y.lost = (execs[e].taken + execs[e].lost) + 1
        /\ execs[e].taken + execs[e].lost < execs[e].size
    BY <1>2, <1>5, TakeFetched
  <2> HIDE DEF y
  <2>3. /\ execs' \in Seq(Execution) /\ Len(execs') = Len(execs) /\ execs'[e] = y
        /\ \A i \in 1..Len(execs) : i # e => execs'[i] = execs[i]
    BY <1>2, <2>1, <2>2, Replaced
  <2>4. PICK what \in {"row", "error"} : Returns(t, what)
    BY <1>5 DEF Decoded
  <2>5. pc'[t] = "idle" /\ \A u \in Task : pc'[u] = "fetching" => serving[u] # e
    BY <1>2, <2>4, Returned DEF Answer
  <2>6. Changes(e)
    BY <1>2, <2>2, <2>3, <2>5 DEF Changes
  <2>7. Inv'
    BY <1>1, <1>3, <1>5, <2>4, <2>6, AfterAnswer DEF Answer
  <2>8. CASE e = cursor
    BY <1>3, <1>5, <2>2, <2>3, <2>7, <2>8, IsDeliver
  <2> QED BY <1>1, <1>4, <2>5, <2>7, <2>8
<1>6. CASE /\ n = 0
           /\ execs' = [execs EXCEPT ![e].ended = TRUE]
           /\ ResetAndRaise(t)
  <2> DEFINE y == [execs[e] EXCEPT !.ended = TRUE]
  <2>1. execs' = [execs EXCEPT ![e] = y]
    BY <1>2, <1>6
  <2>2. y \in Execution /\ Sound(y) /\ execs[e].taken + execs[e].lost = execs[e].size
    BY <1>2, <1>6, FetchEnds
  <2> HIDE DEF y
  <2>3. /\ execs' \in Seq(Execution) /\ Len(execs') = Len(execs) /\ execs'[e] = y
        /\ \A i \in 1..Len(execs) : i # e => execs'[i] = execs[i]
    BY <1>2, <2>1, <2>2, Replaced
  <2>4. Returns(t, "stop") /\ cursor' = None /\ iterator' = None
    BY <1>6 DEF ResetAndRaise
  <2>5. pc'[t] = "idle" /\ \A u \in Task : pc'[u] = "fetching" => serving[u] # e
    BY <1>2, <2>4, Returned DEF Answer
  <2>6. Changes(e)
    BY <1>2, <2>2, <2>3, <2>5 DEF Changes
  <2>7. Inv'
    BY <1>1, <2>4, <2>6, AfterAnswer DEF Answer
  <2>8. CASE e = cursor
    BY <1>3, <1>6, <2>2, <2>7, <2>8, IsStop
  <2> QED BY <1>1, <1>4, <2>5, <2>7, <2>8
<1> QED BY <1>5, <1>6 DEF FetchReturns

LEMMA FetchFailsStep ==
  ASSUME Inv, NEW t \in Task, FetchFails(t)
  PROVE  Inv' /\ Maps
<1> DEFINE e == serving[t]
           y == [execs[e] EXCEPT !.ended = TRUE, !.lost = execs[e].size - execs[e].taken]
<1>1. /\ pc[t] = "fetching" /\ Returns(t, "error")
      /\ execs' = [execs EXCEPT ![e].ended = TRUE, ![e].lost = execs[e].size - execs[e].taken]
      /\ UNCHANGED <<cursor, iterator, serving>>
  BY DEF FetchFails
<1>2. /\ e \in 1..Len(execs) /\ execs \in Seq(Execution) /\ execs[e] \in Execution
      /\ execs[e].held = 0 /\ ~execs[e].ended /\ Sound(execs[e]) /\ answer[t] = "pending"
      /\ \A u \in Task : pc[u] = "fetching" /\ u # t => serving[u] # e
  BY <1>1, Fetch
<1>3. execs' = [execs EXCEPT ![e] = y]
  BY <1>1, <1>2
<1>4. /\ y \in Execution /\ Sound(y) /\ y.size = execs[e].size
      /\ y.taken + y.lost \in (execs[e].taken + execs[e].lost)..execs[e].size
  BY <1>2, FetchLoses
<1> HIDE DEF y
<1>5. /\ execs' \in Seq(Execution) /\ Len(execs') = Len(execs) /\ execs'[e] = y
      /\ \A i \in 1..Len(execs) : i # e => execs'[i] = execs[i]
  BY <1>2, <1>3, <1>4, Replaced
<1>6. pc'[t] = "idle" /\ \A u \in Task : pc'[u] = "fetching" => serving[u] # e
  BY <1>1, <1>2, Returned DEF Answer
<1>7. Changes(e)
  BY <1>2, <1>4, <1>5, <1>6 DEF Changes
<1>8. Inv'
  BY <1>1, <1>7, Types, AfterAnswer DEF Answer
<1>9. CASE e = cursor
  <2>1. cursor # None
    BY <1>2, <1>9 DEF None
  <2> QED BY <1>1, <1>2, <1>4, <1>5, <1>8, <1>9, <2>1, IsLoss
<1>10. CASE e # cursor
  BY <1>1, <1>6, <1>8, <1>10, IsStale DEF Stale
<1> QED BY <1>9, <1>10

LEMMA CallFailsStep ==
  ASSUME Inv, NEW t \in Task, CallFails(t)
  PROVE  Inv' /\ Maps
<1>1. Returns(t, "error") /\ UNCHANGED <<cursor, iterator, execs, serving>>
  BY DEF CallFails
<1> QED BY <1>1, AfterNothing, IsFailure DEF Answer

LEMMA AwaitReturnsStep ==
  ASSUME Inv, NEW t \in Task, AwaitReturns(t)
  PROVE  Inv' /\ Maps
<1>1. Returns(t, "list") /\ UNCHANGED <<cursor, iterator, execs, serving>>
  BY DEF AwaitReturns
<1> QED BY <1>1, AfterNothing, IsFailure DEF Answer

LEMMA BeginAwaitStep ==
  ASSUME Inv, NEW t \in Task, BeginAwait(t)
  PROVE  Inv' /\ Maps
<1>1. /\ pc' = [pc EXCEPT ![t] = "awaiting"]
      /\ answer' = [answer EXCEPT ![t] = "pending"]
      /\ UNCHANGED <<cursor, iterator, execs, serving>>
  BY DEF BeginAwait
<1>2. /\ pc' \in [Task -> Place] /\ answer' \in [Task -> Answer]
      /\ pc'[t] = "awaiting" /\ answer'[t] = "pending"
      /\ \A u \in Task : u # t => pc'[u] = pc[u] /\ answer'[u] = answer[u]
  BY <1>1, Types DEF Place, Answer
<1>3. TypeOK'
  BY <1>1, <1>2, Types, TypesSuffice
<1>4. Counts'
  BY <1>1 DEF Inv, Counts
<1>5. OneFetchPerGenerator' /\ Waiting'
  BY <1>1, <1>2 DEF Inv, OneFetchPerGenerator, Waiting
<1>6. Asked'
  BY <1>1, <1>2 DEF Inv, Asked
<1> QED BY <1>1, <1>3, <1>4, <1>5, <1>6, IsAsk DEF Inv

-----------------------------------------------------------------------------
(* The theorems. *)

LEMMA InitInv == Init => Inv /\ Iteration!Init
<1> SUFFICES ASSUME Init PROVE Inv /\ Iteration!Init
  OBVIOUS
<1>1. TypeOK
  <2>1. execs \in Seq(Execution) /\ Len(execs) = 0 /\ 0 \in 0..0
    BY DEF Init
  <2> QED BY <2>1 DEF Init, TypeOK, None
<1>2. Counts
  BY DEF Init, Counts
<1>3. OneFetchPerGenerator /\ Waiting /\ Asked
  BY DEF Init, OneFetchPerGenerator, Waiting, Asked
<1>4. Iteration!Init
  BY DEF Init, Iteration!Init
<1> QED BY <1>1, <1>2, <1>3, <1>4 DEF Inv

LEMMA StepInv == Inv /\ [Next]_vars => Inv' /\ [Maps]_vars
<1> SUFFICES ASSUME Inv, [Next]_vars PROVE Inv' /\ (Maps \/ UNCHANGED vars)
  OBVIOUS
<1>1. ASSUME NEW t \in Task, Step(t) PROVE Inv' /\ Maps
  BY <1>1, BeginExecuteStep, ExecuteReturnsStep, ContinueAtOnceStep, ContinueWithFetchStep,
     FetchReturnsStep, BeginAwaitStep, AwaitReturnsStep, CallFailsStep, FetchFailsStep
     DEF Step
<1>2. CASE UNCHANGED vars
  <2>1. UNCHANGED <<cursor, iterator, execs, pc, serving, answer>>
    BY <1>2 DEF vars
  <2>2. TypeOK'
    BY <2>1 DEF Inv, TypeOK
  <2>3. OneFetchPerGenerator' /\ Asked' /\ Waiting' /\ Counts'
    BY <2>1 DEF Inv, OneFetchPerGenerator, Asked, Waiting, Counts
  <2> QED BY <1>2, <2>2, <2>3 DEF Inv
<1> QED BY <1>1, <1>2 DEF Next

\* The attributes are set and cleared together, in any number of tasks
\* (__anext__, aiosqlite.go:146-158).
THEOREM TypeCorrect == Spec => []TypeOK
<1>1. Inv => TypeOK
  BY DEF Inv
<1> QED BY InitInv, StepInv, <1>1, PTL DEF Spec

\* The tasks see the iteration that the docstrings promise, but for the steps in
\* which a task comes back from a first call that was overtaken: no row twice and
\* none out of order, none missing but by a call that raised.
THEOREM Implements == Spec => ImplementsIteration
BY InitInv, StepInv, PTL DEF Spec, ImplementsIteration, Maps

=============================================================================
