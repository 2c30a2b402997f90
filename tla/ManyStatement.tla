---------------------------- MODULE ManyStatement ----------------------------
(***************************************************************************)
(* How the SQLAlchemy driver writes a `:many' query, and what its caller    *)
(* then gets (SQLAlchemyBuildPyQueryFunc, SQLRootIsDML).                    *)
(*                                                                         *)
(*   "awaited"   a coroutine that runs the statement and returns the rows   *)
(*   "buffered"  an async generator that runs it when it is iterated        *)
(*   "stream"    the same over a server-side cursor (`-- @stream <reason>') *)
(*                                                                         *)
(* The choice is made from the words of the SQL text; whether the statement *)
(* modifies data is a matter of its grammar.  A statement is given by its   *)
(* structure, and flattened to the words the scan sees.                     *)
(*                                                                         *)
(* External: the caller, and PostgreSQL, which opens no cursor over a       *)
(* statement that modifies data.                                            *)
(***************************************************************************)
EXTENDS Naturals, Sequences, SequencesExt

CONSTANTS
  CommentWords,  \* the words a comment of the instance may hold
  MaxCtes        \* bound on the WITH queries of a statement

Dml == {"insert", "update", "delete"}

\* What starts and ends a comment or a WITH query.  Two words with nothing between
\* them are one space apart; a Gap is any other white space.
LineStart == "--"
LineEnd == "lf"
BlockStart == "/*"
BlockEnd == "*/"
Gap == "gap"
Opened == "("
Closed == ")"

Comment == [kind : {"line", "block"}, word : CommentWords]
OptionalComment == {<<>>} \cup {<<c>> : c \in Comment}
Lock ==
  {<<>>, <<"for", "update">>, <<"for", "no", "key", "update">>, <<"for", "no", Gap, "key", "update">>}

\* SELECT may lock its rows; a WITH query may have a comment before its verb.
Body == [verb : {"select"}, lock : Lock] \cup [verb : Dml, lock : {<<>>}]
Cte == [note : OptionalComment, body : Body]
Statement == [lead : OptionalComment, ctes : UNION {[1..n -> Cte] : n \in 0..MaxCtes}, body : Body]

VARIABLES
  statement, cmd,
  marker,    \* the comments sqlc passes: no @stream, @stream alone, or with a reason
  writes,    \* how the function is written, or "refused"
  call       \* "none", then how far the caller of the function is

vars == <<statement, cmd, marker, writes, call>>

-----------------------------------------------------------------------------
(* The words of a statement. *)

CommentTokens(c) == IF c.kind = "line" THEN <<LineStart, c.word, LineEnd>> ELSE <<BlockStart, c.word, BlockEnd>>
BodyTokens(b) == <<b.verb, "x">> \o b.lock
CteTokens(c) == <<"x", "as", Opened>> \o FlattenSeq([i \in 1..Len(c.note) |-> CommentTokens(c.note[i])])
                  \o BodyTokens(c.body) \o <<Closed>>

Tokens(s) ==
  FlattenSeq([i \in 1..Len(s.lead) |-> CommentTokens(s.lead[i])])
    \o (IF s.ctes = <<>> THEN <<>> ELSE <<"with">>)
    \o FlattenSeq([i \in 1..Len(s.ctes) |-> CteTokens(s.ctes[i])])
    \o BodyTokens(s.body)

ModifiesData(s) ==
  s.body.verb \in Dml \/ \E i \in 1..Len(s.ctes) : s.ctes[i].body.verb \in Dml

-----------------------------------------------------------------------------
(* SQLRootIsDML. *)

ClosedBy(t) == IF t = LineStart THEN LineEnd ELSE BlockEnd

\* Where the scan is after the comment that starts at i: past the end if it is not
\* closed.
AfterComment(ts, i) ==
  LET ends == {j \in i..Len(ts) : ts[j] = ClosedBy(ts[i])}
  IN  IF i > Len(ts) \/ ts[i] \notin {LineStart, BlockStart} THEN i
      ELSE IF ends = {} THEN Len(ts) + 1
      ELSE (CHOOSE j \in ends : \A k \in ends : j <= k) + 1

\* The words after the comments at the start; none if one is not closed.
AfterComments(ts) ==
  LET skip[i \in 1..Len(ts) + 1] ==
        IF AfterComment(ts, i) = i THEN i ELSE skip[AfterComment(ts, i)]
  IN  SubSeq(ts, skip[1], Len(ts))

\* The word before i, whatever white space is between.
WordBefore(ts, i) ==
  LET before == {j \in 1..i - 1 : ts[j] \notin {LineEnd, Gap}}
  IN  IF before = {} THEN 0 ELSE CHOOSE j \in before : \A k \in before : k <= j

\* isLockingUpdate: the text before ends in FOR, or in FOR NO KEY letter by letter,
\* one space between the words.
LockingUpdate(ts, i) ==
  LET j == WordBefore(ts, i)
  IN  \/ j > 0 /\ ts[j] = "for"
      \/ j > 2 /\ ts[j] = "key" /\ ts[j - 1] = "no" /\ ts[j - 2] = "for"

\* A bug it could have: every UPDATE taken for a modification.
ContainsUpdate(ts) == \E i \in 1..Len(ts) : ts[i] \in Dml

ContainsDMLKeyword(ts) ==
  \E i \in 1..Len(ts) : ts[i] \in Dml /\ ~(ts[i] = "update" /\ LockingUpdate(ts, i))

\* A bug it could have: only the first word read.
FirstWordIsDML(ts) == AfterComments(ts) # <<>> /\ Head(AfterComments(ts)) \in Dml

SQLRootIsDML(ts) ==
  LET s == AfterComments(ts)
  IN  s # <<>> /\ (Head(s) \in Dml \/ (Head(s) = "with" /\ ContainsDMLKeyword(s)))

-----------------------------------------------------------------------------
Init ==
  /\ statement \in Statement
  /\ cmd \in {"many", "one"}
  /\ marker \in {"none", "bare", "reason"}
  /\ writes = "nothing"
  /\ call = "none"

\* A :one always awaits its row.
Awaited(c, s) == c = "one" \/ SQLRootIsDML(Tokens(s))

\* sqlalchemyKeepsStream, and the refusal of a marker where it does not apply.
MarkerRefused ==
  \/ marker = "bare"
  \/ marker = "reason" /\ (cmd # "many" \/ SQLRootIsDML(Tokens(statement)))

Write ==
  /\ writes = "nothing"
  /\ writes' = CASE MarkerRefused -> "refused"
                 [] ~MarkerRefused /\ Awaited(cmd, statement) -> "awaited"
                 [] ~MarkerRefused /\ ~Awaited(cmd, statement) ->
                      IF marker = "reason" THEN "stream" ELSE "buffered"
  /\ UNCHANGED <<statement, cmd, marker, call>>

\* External: a call of a coroutine runs the statement, a call of a generator
\* only makes an iterator, which its caller may drop.
Call ==
  /\ writes \in {"awaited", "buffered", "stream"} /\ call = "none"
  /\ call' = IF writes = "awaited" THEN "ran" ELSE "iterator"
  /\ UNCHANGED <<statement, cmd, marker, writes>>

Iterate ==
  /\ call = "iterator"
  /\ call' = IF writes = "stream" /\ ModifiesData(statement) THEN "cursor refused" ELSE "ran"
  /\ UNCHANGED <<statement, cmd, marker, writes>>

Next == Write \/ Call \/ Iterate

Spec == Init /\ [][Next]_vars

-----------------------------------------------------------------------------
(* Properties. *)

TypeOK ==
  /\ writes \in {"nothing", "refused", "awaited", "buffered", "stream"}
  /\ call \in {"none", "ran", "iterator", "cursor refused"}
  /\ call # "none" => writes \in {"awaited", "buffered", "stream"}
  /\ cmd = "one" => writes \notin {"buffered", "stream"}

\* A line comment that ends in `for' makes the UPDATE after it look like a lock
\* (LockingUpdate, utils.go:263-268).
HiddenUpdate(s) ==
  \E i \in 1..Len(s.ctes) :
    /\ s.ctes[i].body.verb = "update"
    /\ \E k \in 1..Len(s.ctes[i].note) :
         s.ctes[i].note[k].kind = "line" /\ s.ctes[i].note[k].word = "for"

\* utils.go:192-197: a :many that modifies data runs when it is called, and
\* never over a cursor.  So no write waits for an iteration that the caller
\* may never start.  A comment may hide an UPDATE, see HiddenUpdate.
WritesRun ==
  ModifiesData(statement) /\ ~HiddenUpdate(statement) =>
    call \notin {"iterator", "cursor refused"}

ReadsOnly(s) ==
  /\ ~ModifiesData(s)
  /\ \A i \in 1..Len(s.ctes) : \A k \in 1..Len(s.ctes[i].note) : s.ctes[i].note[k].word \notin Dml

\* FOR NO KEY UPDATE after a WITH, written with other white space than one space
\* between its words (the suffix of utils.go:264).
SpacedLock(s) ==
  /\ s.ctes # <<>>
  /\ \E b \in {s.body} \cup {s.ctes[i].body : i \in 1..Len(s.ctes)} :
       \E k \in 1..Len(b.lock) : b.lock[k] = Gap

\* utils.go:257-258: "A standalone UPDATE that is the locking keyword must not flag a
\* read-only `:many` as DML": its return type stays an iterator.  The code breaks
\* that for a lock that is written with other white space, see SpacedLock.
ReadsStayIterators ==
  ReadsOnly(statement) /\ ~SpacedLock(statement) /\ cmd = "many" => writes # "awaited"
=============================================================================
