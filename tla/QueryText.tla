------------------------------ MODULE QueryText ------------------------------
(***************************************************************************)
(* The way of a text from SQL through the generated Python to its reader.   *)
(*                                                                         *)
(*   site = "comment"     an enum or table comment, written as a docstring  *)
(*   site = "query"       the constant of a query, for a driver that runs   *)
(*                        the SQL as it is                                  *)
(*   site = "sqlalchemy"  the same, rewritten for sqlalchemy.text()         *)
(*   site = "echo"        the SQL in the docstring of its function          *)
(*                                                                         *)
(* Generation: the placeholder check, the driver's rewrite of the header    *)
(* and of the SQL, and PyTripleQuotedText, which takes one character a      *)
(* step (drivers/sqlalchemy.go, codegen/queries.go, core/utils.go).         *)
(* External: how Python reads the string, also one character a step, and    *)
(* how sqlalchemy.text() reads what Python gives it.                        *)
(*                                                                         *)
(* A text is a sequence of character classes.  $N is one character here,    *)
(* "ph"; ":pN", which replaces it, is "colon" then "bind".                  *)
(***************************************************************************)
EXTENDS Naturals, Sequences, SequencesExt

CONSTANTS
  Alphabet,  \* the characters a text of the instance is made of
  Sites,     \* the sites it is written at
  MaxText,   \* bound on the length of the text
  MaxLine    \* the longest line bufio.Scanner takes: 65535 bytes in the code

Chars == {"bs", "quote", "cr", "nul", "lf", "colon", "word", "space", "ph"}

ASSUME TextBounds ==
  /\ Alphabet \subseteq Chars
  /\ Sites \subseteq {"comment", "query", "sqlalchemy", "echo"}
  /\ MaxText \in Nat
  /\ MaxLine \in Nat

VARIABLES
  site,
  text,     \* the comment, or the SQL
  pieces,   \* what is still to be encoded: one piece a call of PyTripleQuotedText
  at,       \* i of its loop, in the first piece
  quotes,   \* quotes of its loop
  source,   \* the Python source after the opening """
  readTo,   \* how far Python has read it
  value,    \* the value Python reads
  stage

vars == <<site, text, pieces, at, quotes, source, readTo, value, stage>>

-----------------------------------------------------------------------------
(* What SQL can be. *)

WordChar(c) == c \in {"word", "ph", "bind"}

\* A placeholder is a token of its own: it does not touch a word.  A text of
\* the sqlalchemy site is SQL, so it has no NUL; PostgreSQL refuses one.
Sql(s) ==
  /\ \A i \in 1..Len(s) : s[i] # "nul"
  /\ \A i \in 1..Len(s) - 1 : ~(WordChar(s[i]) /\ s[i + 1] = "ph") /\ ~(s[i] = "ph" /\ WordChar(s[i + 1]))

\* In a comment a placeholder has no meaning.
PossibleText(si, s) == IF si = "comment" THEN "ph" \notin ToSet(s) ELSE Sql(s)

\* `-- name: GetItem :one'
Header == <<"word", "colon", "space", "word", "space">>
Verb == <<"colon", "word">>

-----------------------------------------------------------------------------
(* The rewrite of SQLAlchemy. *)

\* sqlalchemyCheckPlaceholders.
Unbindable(s) ==
  \E i \in 2..Len(s) : s[i] = "ph" /\ s[i - 1] \in {"bs", "colon"}

EscapeColons(s) == FlattenSeq([i \in 1..Len(s) |-> IF s[i] = "colon" THEN <<"bs", "colon">> ELSE <<s[i]>>])

PlaceholdersToBinds(s) ==
  FlattenSeq([i \in 1..Len(s) |->
                IF s[i] = "ph" /\ (i > 1 => ~WordChar(s[i - 1])) THEN <<"colon", "bind">> ELSE <<s[i]>>])

\* A bug it could have: the two steps in the other order.
RewriteBindsFirst(s) == EscapeColons(PlaceholdersToBinds(s))

\* SQLAlchemyRewriteSQL.
RewriteSQL(s) == PlaceholdersToBinds(EscapeColons(s))

\* SQLAlchemyRewriteHeaderVerb.
RewriteVerb(s) == EscapeColons(s)

\* bufio.ScanLines: a line comes without its LF or its CR LF.
WithoutCr(line) == IF line # <<>> /\ Last(line) = "cr" THEN Front(line) ELSE line

\* One character more: a line ends, goes on, or has become too long, which ends
\* the scan without a word of it.
Scanned(r, c) ==
  IF r.tooLong THEN r
  ELSE IF c = "lf" THEN [lines |-> Append(r.lines, WithoutCr(r.line)), line |-> <<>>, tooLong |-> FALSE]
  ELSE IF Len(r.line) = MaxLine THEN [lines |-> r.lines, line |-> <<>>, tooLong |-> TRUE]
  ELSE [lines |-> r.lines, line |-> Append(r.line, c), tooLong |-> FALSE]

\* The scanner at the end of the text: the lines it gave, and the line it is in.
Scan(s) ==
  LET after[i \in 0..Len(s)] ==
        IF i = 0 THEN [lines |-> <<>>, line |-> <<>>, tooLong |-> FALSE]
        ELSE Scanned(after[i - 1], s[i])
  IN  after[Len(s)]

\* There is no line after the last LF.
SplitLines(s) ==
  IF Scan(s).line = <<>> THEN Scan(s).lines ELSE Append(Scan(s).lines, WithoutCr(Scan(s).line))

\* writeQueryFunctionSQL.
WithLf(lines) == [k \in 1..Len(lines) |-> lines[k] \o <<"lf">>]
EchoLines(s) == WithLf(SplitLines(s))

\* buildQueryHeader, buildPyEnum, buildPydanticTable: the pieces of a string.
PiecesOf(si, s) ==
  CASE si = "comment"    -> <<s>>
    [] si = "query"      -> <<Header \o Verb \o <<"lf">>, s \o <<"lf">>>>
    [] si = "sqlalchemy" -> <<Header \o RewriteVerb(Verb) \o <<"lf">>, RewriteSQL(s) \o <<"lf">>>>
    [] si = "echo"       -> EchoLines(s)

Init ==
  /\ site \in Sites
  /\ text \in {s \in UNION {[1..n -> Alphabet] : n \in 0..MaxText} : PossibleText(site, s)}
  /\ pieces = <<>> /\ at = 0 /\ quotes = 0
  /\ source = <<>> /\ readTo = 0 /\ value = <<>>
  /\ stage = "generate"

Generate ==
  /\ stage = "generate"
  /\ IF site = "sqlalchemy" /\ Unbindable(text)
       THEN stage' = "refused" /\ UNCHANGED <<pieces, at>>
       ELSE stage' = "encode" /\ pieces' = PiecesOf(site, text) /\ at' = 1
  /\ UNCHANGED <<site, text, quotes, source, readTo, value>>

-----------------------------------------------------------------------------
(* PyTripleQuotedText. *)

RunOf(c) == IF c = "quote" THEN quotes + 1 ELSE 0

\* A bug it could have: the quote at the end of a text left as it is.
EscapesQuoteInside(run, last) == run = 3
EscapesQuote(run, last) == run = 3 \/ last

\* The Python source of one character.
Encoded(c, run, last) ==
  CASE c = "bs"  -> <<"bs", "bs">>
    [] c = "cr"  -> <<"bs", "r">>
    [] c = "nul" -> <<"bs", "x00">>
    [] c = "quote" -> IF EscapesQuote(run, last) THEN <<"bs", "quote">> ELSE <<"quote">>
    [] OTHER     -> <<c>>

EncodeByte ==
  /\ stage = "encode" /\ pieces # <<>> /\ at <= Len(Head(pieces))
  /\ LET c == Head(pieces)[at]
         run == RunOf(c)
         last == at = Len(Head(pieces))
     IN  /\ source' = source \o Encoded(c, run, last)
         /\ quotes' = IF c = "quote" /\ EscapesQuote(run, last) THEN 0 ELSE run
  /\ at' = at + 1
  /\ UNCHANGED <<site, text, pieces, readTo, value, stage>>

EndPiece ==
  /\ stage = "encode" /\ pieces # <<>> /\ at > Len(Head(pieces))
  /\ pieces' = Tail(pieces) /\ at' = 1 /\ quotes' = 0
  /\ UNCHANGED <<site, text, source, readTo, value, stage>>

\* The closing """ is written after the last piece.
Close ==
  /\ stage = "encode" /\ pieces = <<>>
  /\ source' = source \o <<"quote", "quote", "quote">>
  /\ stage' = "read"
  /\ UNCHANGED <<site, text, pieces, at, quotes, readTo, value>>

-----------------------------------------------------------------------------
(* External: Python reads the source of a string. *)

Ahead(k) == SubSeq(source, readTo + 1, readTo + k)
Closing == Len(source) >= readTo + 3 /\ Ahead(3) = <<"quote", "quote", "quote">>

\* The value of an escape; an unknown one keeps its backslash.
Unescaped(c) ==
  CASE c = "bs" -> <<"bs">> [] c = "quote" -> <<"quote">>
    [] c = "r" -> <<"cr">>  [] c = "x00" -> <<"nul">>
    [] c = "lf" -> <<>>
    [] OTHER -> <<"bs", c>>

ReadEscape ==
  /\ stage = "read" /\ Len(source) >= readTo + 2 /\ Ahead(1) = <<"bs">>
  /\ value' = value \o Unescaped(source[readTo + 2])
  /\ readTo' = readTo + 2
  /\ UNCHANGED <<site, text, pieces, at, quotes, source, stage>>

\* A CR of the source is a line end to Python, and a NUL stops it.
ReadChar ==
  /\ stage = "read" /\ Len(source) > readTo /\ Ahead(1) # <<"bs">> /\ ~Closing
  /\ IF Ahead(1) = <<"nul">>
       THEN stage' = "broken" /\ UNCHANGED <<value, readTo>>
       ELSE /\ value' = value \o (IF Ahead(1) = <<"cr">> THEN <<"lf">> ELSE Ahead(1))
            /\ readTo' = readTo + 1
            /\ UNCHANGED stage
  /\ UNCHANGED <<site, text, pieces, at, quotes, source>>

ReadEnd ==
  /\ stage = "read"
  /\ \/ Closing /\ stage' = IF Len(source) = readTo + 3 THEN "done" ELSE "broken"
     \/ Len(source) = readTo /\ stage' = "broken"
  /\ UNCHANGED <<site, text, pieces, at, quotes, source, readTo, value>>

Next ==
  \/ Generate
  \/ EncodeByte \/ EndPiece \/ Close
  \/ ReadEscape \/ ReadChar \/ ReadEnd

Spec == Init /\ [][Next]_vars

-----------------------------------------------------------------------------
(* External: sqlalchemy.text() on the value Python read. *)

\* `:name' is a bind unless a word, a colon or a backslash is before it, or a
\* colon or a dollar after it.
NamesBind(s, i) ==
  /\ s[i] = "colon" /\ i < Len(s) /\ s[i + 1] \in {"word", "bind"}
  /\ i > 1 => s[i - 1] \notin {"word", "ph", "bind", "colon", "bs"}
  /\ i + 1 < Len(s) => s[i + 2] \notin {"colon", "ph"}

\* `\:' is a colon, unless another colon follows.
EscapesColon(s, i) ==
  /\ s[i] = "bs" /\ i < Len(s) /\ s[i + 1] = "colon"
  /\ i + 1 < Len(s) => s[i + 2] \notin {"colon", "ph"}

\* What the database receives for each character of the value.
Delivered(s) ==
  FlattenSeq([i \in 1..Len(s) |->
    CASE NamesBind(s, i)                                 -> <<>>
      [] i > 1 /\ NamesBind(s, i - 1)                    -> IF s[i] = "bind" THEN <<"parameter">> ELSE <<"unknown bind">>
      [] EscapesColon(s, i)                              -> <<>>
      [] OTHER                                           -> <<s[i]>>])

\* What it should receive: the SQL, with a parameter for each placeholder.
Meant(s) == [i \in 1..Len(s) |-> IF s[i] = "ph" THEN "parameter" ELSE s[i]]

-----------------------------------------------------------------------------
(* Properties. *)

\* A text without its line ends.
Shown(s) == FlattenSeq([i \in 1..Len(s) |-> IF s[i] \in {"cr", "lf"} THEN <<>> ELSE <<s[i]>>])

\* Among MaxLine + 1 characters in a row there is a line end.
LinesFit(s) == \A i \in 1..Len(s) - MaxLine : \E j \in i..i + MaxLine : s[j] = "lf"

\* README.md:80-85: text from SQL reaches Python as written, for every driver.
\* Python finds the end of the string where the generator put it, and the
\* value before it is the text that was encoded.  The docstring of a function
\* shows its SQL whole, but for the line ends, if no line of it is longer than
\* the scanner takes (docstrings.go:392).
ReachesPython ==
  /\ stage # "broken"
  /\ stage = "done" => value = FlattenSeq(PiecesOf(site, text))
  /\ stage = "done" /\ site = "echo" /\ LinesFit(text) => Shown(value) = Shown(text)

\* What sqlalchemy sends is the query itself: each placeholder is a parameter,
\* the verb of the header is not one, and every other character is kept.  A
\* text for which the rewrite cannot do it stops generation
\* (sqlalchemy.go:26-67).
SqlDelivered ==
  stage = "done" /\ site = "sqlalchemy" =>
    Delivered(value) = Meant(Header \o Verb \o <<"lf">> \o text \o <<"lf">>)

=============================================================================
