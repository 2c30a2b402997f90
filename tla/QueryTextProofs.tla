--------------------------- MODULE QueryTextProofs ---------------------------
(***************************************************************************)
(* For every text of every length over any of the characters: what Python   *)
(* reads from the source the generator wrote is the text that was encoded.  *)
(*                                                                         *)
(* The source is a list of tokens, one a character.  Python reads whole     *)
(* tokens, because a backslash begins one only where the generator wrote    *)
(* one, and finds no three quotes before the closing ones, because no three *)
(* tokens in a row are a bare quote and the last one is not.                *)
(*                                                                         *)
(* What sqlalchemy.text() makes of the SQL read is compared with the SQL    *)
(* meant part by part: a character of the query is rewritten to one or two  *)
(* characters, from which comes back what the one stood for.                *)
(***************************************************************************)
EXTENDS QueryText, SequenceLemmas

Text == Chars \cup {"bind"}             \* the characters of a piece
Source == Text \cup {"r", "x00"}        \* and of the source

Bare == <<"quote">>

\* The tokens a character can become.
Tokens(c) ==
  IF c = "bs" THEN {<<"bs", "bs">>}
  ELSE IF c = "cr" THEN {<<"bs", "r">>}
  ELSE IF c = "nul" THEN {<<"bs", "x00">>}
  ELSE IF c = "quote" THEN {Bare, <<"bs", "quote">>}
  ELSE {<<c>>}

Pieces == PiecesOf(site, text)
Whole == FlattenSeq(Pieces)

-----------------------------------------------------------------------------
(* The pieces. *)

LEMMA TextChars ==
  /\ {"bs", "quote", "cr", "nul", "lf", "colon", "word", "space", "ph", "bind"} \subseteq Text
  /\ Alphabet \subseteq Text /\ Text \subseteq Source
BY TextBounds DEF Text, Source, Chars

\* A list of lists given by an expression for each place.
LEMMA ListOfParts ==
  ASSUME NEW T, NEW n \in Nat, NEW g, DOMAIN g = 1..n, \A i \in 1..n : g[i] \in Seq(T),
         g = [i \in 1..n |-> g[i]]
  PROVE  g \in Seq(Seq(T)) /\ Len(g) = n
<1> DEFINE A == Seq(T)
<1>1. g \in [1..n -> A]
  OBVIOUS
<1> HIDE DEF A
<1>2. g \in Seq(A) /\ Len(g) = n
  BY <1>1
<1> QED BY <1>2 DEF A

\* The rewrites and Shown replace each character by a list.
LEMMA ReplaceEach ==
  ASSUME NEW T, NEW n \in Nat, NEW g, DOMAIN g = 1..n, \A i \in 1..n : g[i] \in Seq(T),
         g = [i \in 1..n |-> g[i]]
  PROVE  FlattenSeq(g) \in Seq(T)
<1>1. g \in Seq(Seq(T)) /\ Len(g) = n
  BY ListOfParts
<1>2. \A a, b \in Seq(T) \cap Seq(T) : a \o b \in Seq(T)
  BY ConcatProperties
<1>3. <<>> \in Seq(T)
  BY EmptySeq
<1> QED BY <1>1, <1>2, <1>3, FlattenIn

LEMMA EscapeColonsType ==
  ASSUME NEW s \in Seq(Text)
  PROVE  EscapeColons(s) \in Seq(Text)
<1> DEFINE g == [i \in 1..Len(s) |-> IF s[i] = "colon" THEN <<"bs", "colon">> ELSE <<s[i]>>]
<1>1. Len(s) \in Nat /\ \A i \in 1..Len(s) : s[i] \in Text
  OBVIOUS
<1>2. "bs" \in Text /\ "colon" \in Text
  BY TextChars
<1>3. \A i \in 1..Len(s) : g[i] \in Seq(Text)
  BY <1>1, <1>2
<1>4. DOMAIN g = 1..Len(s) /\ g = [i \in 1..Len(s) |-> g[i]]
  OBVIOUS
<1> HIDE DEF g
<1>5. FlattenSeq(g) \in Seq(Text)
  BY <1>1, <1>3, <1>4, ReplaceEach
<1> QED BY <1>5 DEF g, EscapeColons

LEMMA PlaceholdersToBindsType ==
  ASSUME NEW s \in Seq(Text)
  PROVE  PlaceholdersToBinds(s) \in Seq(Text)
<1> DEFINE g == [i \in 1..Len(s) |->
                   IF s[i] = "ph" /\ (i > 1 => ~WordChar(s[i - 1])) THEN <<"colon", "bind">> ELSE <<s[i]>>]
<1>1. Len(s) \in Nat /\ \A i \in 1..Len(s) : s[i] \in Text
  OBVIOUS
<1>2. "bind" \in Text /\ "colon" \in Text
  BY TextChars
<1>3. \A i \in 1..Len(s) : g[i] \in Seq(Text)
  BY <1>1, <1>2
<1>4. DOMAIN g = 1..Len(s) /\ g = [i \in 1..Len(s) |-> g[i]]
  OBVIOUS
<1> HIDE DEF g
<1>5. FlattenSeq(g) \in Seq(Text)
  BY <1>1, <1>3, <1>4, ReplaceEach
<1> QED BY <1>5 DEF g, PlaceholdersToBinds

\* A line without its CR is a line, and the rest of it is unchanged.
LEMMA WithoutCrType ==
  ASSUME NEW l \in Seq(Text)
  PROVE  WithoutCr(l) \in Seq(Text) /\ (WithoutCr(l) = l \/ l = Append(WithoutCr(l), "cr"))
<1>1. CASE l # <<>> /\ Last(l) = "cr"
  <2>1. WithoutCr(l) = SubSeq(l, 1, Len(l) - 1) /\ l[Len(l)] = "cr" /\ Len(l) \in Nat \ {0}
    BY <1>1 DEF WithoutCr, Front, Last
  <2>2. SubSeq(l, 1, Len(l) - 1) \in Seq(Text) /\ l = Append(SubSeq(l, 1, Len(l) - 1), l[Len(l)])
    BY <2>1
  <2> QED BY <2>1, <2>2
<1>2. CASE ~(l # <<>> /\ Last(l) = "cr")
  BY <1>2 DEF WithoutCr
<1> QED BY <1>1, <1>2

-----------------------------------------------------------------------------
(* What is shown of a text. *)

ShownChar(c) == IF c \in {"cr", "lf"} THEN <<>> ELSE <<c>>

LEMMA ShownParts ==
  ASSUME NEW s \in Seq(Text)
  PROVE  /\ [i \in 1..Len(s) |-> ShownChar(s[i])] \in Seq(Seq(Text))
         /\ Shown(s) = FlattenSeq([i \in 1..Len(s) |-> ShownChar(s[i])])
         /\ Shown(s) \in Seq(Text)
<1> DEFINE g == [i \in 1..Len(s) |-> ShownChar(s[i])]
<1>1. Shown(s) = FlattenSeq(g)
  BY DEF Shown, ShownChar
<1>2. Len(s) \in Nat /\ \A i \in 1..Len(s) : s[i] \in Text
  OBVIOUS
<1>3. \A i \in 1..Len(s) : g[i] \in Seq(Text)
  BY <1>2 DEF ShownChar
<1>4. DOMAIN g = 1..Len(s) /\ g = [i \in 1..Len(s) |-> g[i]]
  OBVIOUS
<1> HIDE DEF g
<1>5. FlattenSeq(g) \in Seq(Text) /\ g \in Seq(Seq(Text))
  BY <1>2, <1>3, <1>4, ReplaceEach, ListOfParts
<1> QED BY <1>1, <1>5 DEF g

LEMMA ShownConcat ==
  ASSUME NEW a \in Seq(Text), NEW b \in Seq(Text)
  PROVE  Shown(a \o b) = Shown(a) \o Shown(b)
<1> DEFINE G(s) == [i \in 1..Len(s) |-> ShownChar(s[i])]
           A == Seq(Text)
<1>0. a \o b \in Seq(Text)
  BY ConcatProperties
<1>1. /\ Shown(a) = FlattenSeq(G(a)) /\ Shown(b) = FlattenSeq(G(b)) /\ Shown(a \o b) = FlattenSeq(G(a \o b))
      /\ G(a) \in Seq(A) /\ G(b) \in Seq(A) /\ G(a \o b) \in Seq(A)
  BY <1>0, ShownParts
<1>2. /\ Len(a \o b) = Len(a) + Len(b) /\ Len(a) \in Nat /\ Len(b) \in Nat
      /\ \A p \in 1..Len(a) : p \in 1..Len(a \o b) /\ (a \o b)[p] = a[p]
      /\ \A k \in 1..Len(b) : Len(a) + k \in 1..Len(a \o b) /\ (a \o b)[Len(a) + k] = b[k]
  BY ConcatElements
<1>3. Len(G(a)) = Len(a) /\ Len(G(b)) = Len(b) /\ Len(G(a \o b)) = Len(a) + Len(b)
  BY <1>2
<1>4. \A p \in 1..Len(a) : G(a \o b)[p] = G(a)[p]
  BY <1>2
<1>5. \A k \in 1..Len(b) : G(a \o b)[Len(a) + k] = G(b)[k]
  BY <1>2
<1> DEFINE x == G(a)
           y == G(b)
           z == G(a \o b)
<1>6. /\ x \in Seq(A) /\ y \in Seq(A) /\ z \in Seq(A) /\ Len(z) = Len(x) + Len(y)
      /\ \A p \in 1..Len(x) : z[p] = x[p]
      /\ \A k \in 1..Len(y) : z[Len(x) + k] = y[k]
  BY <1>1, <1>3, <1>4, <1>5
<1> HIDE DEF x, y, z, A
<1>7. x \o y = z
  BY <1>6, ConcatIs
<1>8. FlattenSeq(x \o y) = FlattenSeq(x) \o FlattenSeq(y)
  BY <1>6, FlattenConcat DEF A
<1> QED BY <1>1, <1>7, <1>8 DEF x, y, z

LEMMA ShownNone == Shown(<<>>) = <<>>
<1>1. [i \in 1..Len(<<>>) |-> ShownChar(<<>>[i])] = <<>>
  OBVIOUS
<1>2. <<>> \in Seq(Text)
  BY EmptySeq
<1> QED BY <1>1, <1>2, ShownParts, FlattenNone

LEMMA ShownAppend ==
  ASSUME NEW s \in Seq(Text), NEW c \in Text
  PROVE  Shown(Append(s, c)) = Shown(s) \o ShownChar(c) /\ ShownChar(c) \in Seq(Text)
<1>1. <<c>> \in Seq(Text) /\ Append(s, c) = s \o <<c>>
  BY AppendIsConcat
<1>2. ShownChar(c) \in Seq(Text)
  BY DEF ShownChar
<1>3. Shown(<<c>>) = ShownChar(c)
  <2>1. [i \in 1..Len(<<c>>) |-> ShownChar(<<c>>[i])] = <<ShownChar(c)>>
    OBVIOUS
  <2>2. Shown(<<c>>) = FlattenSeq(<<ShownChar(c)>>)
    BY <1>1, <2>1, ShownParts
  <2> QED BY <1>2, <2>2, FlattenOne
<1>4. Shown(s \o <<c>>) = Shown(s) \o Shown(<<c>>)
  BY <1>1, ShownConcat
<1> QED BY <1>1, <1>2, <1>3, <1>4

-----------------------------------------------------------------------------
(* The scanner. *)

ScanState == [lines : Seq(Seq(Text)), line : Seq(Text), tooLong : BOOLEAN]

LEMMA ScannedType ==
  ASSUME NEW r \in ScanState, NEW c \in Text
  PROVE  Scanned(r, c) \in ScanState
<1> DEFINE A == Seq(Text)
<1>1. WithoutCr(r.line) \in A /\ Append(r.line, c) \in A /\ <<>> \in A /\ r.lines \in Seq(A)
  BY WithoutCrType DEF ScanState
<1> HIDE DEF A
<1>2. Append(r.lines, WithoutCr(r.line)) \in Seq(A)
  BY <1>1
<1> QED BY <1>1, <1>2 DEF A, Scanned, ScanState

Scans(g, n, s, none) ==
  g \in [0..n -> ScanState] /\ g[0] = none /\ \A i \in 1..n : g[i] = Scanned(g[i - 1], s[i])

LEMMA ScanSteps ==
  ASSUME NEW n \in Nat, NEW s, \A i \in 1..n : s[i] \in Text, NEW none \in ScanState
  PROVE  \E g : Scans(g, n, s, none)
<1> DEFINE step == [i \in 1..n |-> [r \in ScanState |-> Scanned(r, s[i])]]
<1>1. Steps(step, n, ScanState)
  BY ScannedType DEF Steps
<1>2. \A i \in 1..n : \A r \in ScanState : step[i][r] = Scanned(r, s[i])
  OBVIOUS
<1> HIDE DEF step
<1>a. PICK g : Iterates(g, ScanState, n, none, step)
  BY <1>1, RecursionExists
<1>3. g \in [0..n -> ScanState] /\ g[0] = none /\ \A i \in 1..n : g[i] = step[i][g[i - 1]]
  BY <1>a DEF Iterates
<1>4. \A i \in 1..n : g[i] = Scanned(g[i - 1], s[i])
  <2> TAKE i \in 1..n
  <2>1. g[i - 1] \in ScanState
    BY <1>3
  <2> QED BY <1>2, <1>3, <2>1
<1> QED BY <1>3, <1>4, Zenon DEF Scans

LEMMA ScanIs ==
  ASSUME NEW s \in Seq(Text)
  PROVE  \E a \in [0..Len(s) -> ScanState] :
           /\ Scan(s) = a[Len(s)] /\ a[0] = [lines |-> <<>>, line |-> <<>>, tooLong |-> FALSE]
           /\ \A i \in 1..Len(s) : a[i] = Scanned(a[i - 1], s[i])
<1> DEFINE n == Len(s)
           none == [lines |-> <<>>, line |-> <<>>, tooLong |-> FALSE]
           Is(f) == f = [i \in 0..n |-> IF i = 0 THEN [lines |-> <<>>, line |-> <<>>, tooLong |-> FALSE]
                                       ELSE Scanned(f[i - 1], s[i])]
           h == CHOOSE f : Is(f)
<1>1. n \in Nat /\ \A i \in 1..n : s[i] \in Text
  OBVIOUS
<1>2. Scan(s) = h[n]
  BY Zenon DEF Scan
<1>3. none \in ScanState
  <2> DEFINE A == Seq(Text)
  <2>1. <<>> \in A
    OBVIOUS
  <2> HIDE DEF A
  <2>2. <<>> \in Seq(A)
    OBVIOUS
  <2> QED BY <2>1, <2>2 DEF A, ScanState
<1> HIDE DEF n
<1>4. \E f : Is(f)
  <2> HIDE DEF none
  <2>1. PICK g : Scans(g, n, s, none)
    BY <1>1, <1>3, ScanSteps
  <2>2. g \in [0..n -> ScanState] /\ g[0] = none /\ \A i \in 1..n : g[i] = Scanned(g[i - 1], s[i])
    BY <2>1 DEF Scans
  <2>3. ASSUME NEW i \in 0..n
        PROVE  g[i] = IF i = 0 THEN [lines |-> <<>>, line |-> <<>>, tooLong |-> FALSE]
                      ELSE Scanned(g[i - 1], s[i])
    <3>1. CASE i = 0
      BY <2>2, <3>1 DEF none
    <3>2. CASE i # 0
      <4>1. i \in 1..n
        BY <1>1, <3>2
      <4> QED BY <2>2, <3>2, <4>1
    <3> QED BY <3>1, <3>2
  <2>4. g = [i \in 0..n |-> g[i]]
    BY <2>2
  <2>5. Is(g)
    BY <2>3, <2>4, Zenon
  <2> QED BY <2>5
<1>5. Is(h)
  BY <1>4, Zenon
<1> HIDE DEF h
<1>6. h[0] = none /\ \A i \in 1..n : h[i] = Scanned(h[i - 1], s[i])
  <2>1. \A i \in 0..n : h[i] = IF i = 0 THEN [lines |-> <<>>, line |-> <<>>, tooLong |-> FALSE]
                              ELSE Scanned(h[i - 1], s[i])
    BY <1>5, Zenon
  <2>2. 0 \in 0..n /\ \A i \in 1..n : i \in 0..n /\ i # 0
    BY <1>1
  <2>3. h[0] = none
    BY <2>1, <2>2
  <2>4. ASSUME NEW i \in 1..n PROVE h[i] = Scanned(h[i - 1], s[i])
    BY <2>1, <2>2, Zenon
  <2> QED BY <2>3, <2>4
<1>7. DOMAIN h = 0..n /\ h = [i \in 0..n |-> h[i]]
  BY <1>5
<1> HIDE DEF Is, none
<1> DEFINE S == {i \in Nat : i <= n => h[i] \in ScanState}
<1>8. 0 \in S
  BY <1>3, <1>6
<1>9. ASSUME NEW i \in Nat, i \in S PROVE i + 1 \in S
  <2> SUFFICES ASSUME i + 1 <= n PROVE h[i + 1] \in ScanState
    OBVIOUS
  <2>1. h[i] \in ScanState /\ i + 1 \in 1..n /\ (i + 1) - 1 = i
    BY <1>1, <1>9
  <2>2. s[i + 1] \in Text
    BY <1>1, <2>1
  <2>3. h[i + 1] = Scanned(h[i], s[i + 1])
    BY <1>6, <2>1
  <2> QED BY <2>1, <2>2, <2>3, ScannedType
<1> HIDE DEF S
<1>10. Nat \subseteq S
  BY <1>8, <1>9, NatSetInduction
<1>11. \A i \in 0..n : h[i] \in ScanState
  BY <1>1, <1>10 DEF S
<1>12. h \in [0..n -> ScanState]
  BY <1>7, <1>11
<1> QED BY <1>2, <1>6, <1>12 DEF n, none

-----------------------------------------------------------------------------
(* The lines of an echo. *)

LEMMA WithLfType ==
  ASSUME NEW X \in Seq(Seq(Text))
  PROVE  /\ WithLf(X) \in Seq(Seq(Text)) /\ Len(WithLf(X)) = Len(X)
         /\ FlattenSeq(WithLf(X)) \in Seq(Text)
<1> DEFINE g == [k \in 1..Len(X) |-> X[k] \o <<"lf">>]
<1>1. Len(X) \in Nat
  OBVIOUS
<1>2. ASSUME NEW k \in 1..Len(X) PROVE g[k] \in Seq(Text)
  <2>1. X[k] \in Seq(Text) /\ <<"lf">> \in Seq(Text)
    BY PartIn, TextChars
  <2>2. X[k] \o <<"lf">> \in Seq(Text)
    BY <2>1, ConcatProperties
  <2> QED BY <2>2
<1>3. DOMAIN g = 1..Len(X) /\ g = [k \in 1..Len(X) |-> g[k]]
  OBVIOUS
<1> HIDE DEF g
<1>4. g \in Seq(Seq(Text)) /\ Len(g) = Len(X) /\ FlattenSeq(g) \in Seq(Text)
  BY <1>1, <1>2, <1>3, ListOfParts, ReplaceEach
<1> QED BY <1>4 DEF g, WithLf

LEMMA WithLfAppend ==
  ASSUME NEW X \in Seq(Seq(Text)), NEW w \in Seq(Text)
  PROVE  /\ Append(X, w) \in Seq(Seq(Text)) /\ w \o <<"lf">> \in Seq(Text)
         /\ WithLf(Append(X, w)) = Append(WithLf(X), w \o <<"lf">>)
<1> DEFINE A == Seq(Text)
           e == w \o <<"lf">>
           Y == Append(X, w)
           a == WithLf(Y)
           b == Append(WithLf(X), e)
<1>1. e \in A
  <2>1. <<"lf">> \in Seq(Text)
    BY TextChars
  <2> QED BY <2>1, ConcatProperties
<1>2. X \in Seq(A) /\ w \in A /\ WithLf(X) \in Seq(A) /\ Len(WithLf(X)) = Len(X)
  BY WithLfType
<1> HIDE DEF A, e
<1>3. /\ Y \in Seq(A) /\ Len(Y) = Len(X) + 1 /\ Len(X) \in Nat /\ Y[Len(X) + 1] = w
      /\ \A k \in 1..Len(X) : Y[k] = X[k]
  BY <1>2
<1>4. /\ b \in Seq(A) /\ Len(b) = Len(X) + 1 /\ b[Len(X) + 1] = e
      /\ \A k \in 1..Len(X) : b[k] = WithLf(X)[k]
  BY <1>1, <1>2
<1> HIDE DEF Y, b
<1>5. a \in Seq(A) /\ Len(a) = Len(X) + 1
  BY <1>3, WithLfType DEF A
<1>6. ASSUME NEW k \in 1..Len(a) PROVE a[k] = b[k]
  <2>1. a[k] = Y[k] \o <<"lf">>
    BY <1>3, <1>5 DEF WithLf
  <2>2. CASE k = Len(X) + 1
    BY <1>3, <1>4, <2>1, <2>2 DEF e
  <2>3. CASE k # Len(X) + 1
    <3>1. k \in 1..Len(X)
      BY <1>3, <1>5, <2>3
    <3>2. WithLf(X)[k] = X[k] \o <<"lf">>
      BY <3>1 DEF WithLf
    <3> QED BY <1>3, <1>4, <2>1, <3>1, <3>2
  <2> QED BY <2>2, <2>3
<1> HIDE DEF a
<1>7. a = b
  BY <1>4, <1>5, <1>6, SeqEqual
<1> QED BY <1>1, <1>3, <1>7 DEF a, b, Y, A, e

\* A line that ends shows what was read of it.
LEMMA EndLine ==
  ASSUME NEW X \in Seq(Seq(Text)), NEW L \in Seq(Text)
  PROVE  /\ Append(X, WithoutCr(L)) \in Seq(Seq(Text))
         /\ Shown(FlattenSeq(WithLf(Append(X, WithoutCr(L))))) = Shown(FlattenSeq(WithLf(X))) \o Shown(L)
<1> DEFINE w == WithoutCr(L)
           F == FlattenSeq(WithLf(X))
           e == w \o <<"lf">>
<1>1. w \in Seq(Text) /\ (w = L \/ L = Append(w, "cr"))
  BY WithoutCrType
<1> HIDE DEF w
<1>2. F \in Seq(Text) /\ WithLf(X) \in Seq(Seq(Text))
  BY WithLfType
<1>3. /\ Append(X, w) \in Seq(Seq(Text)) /\ e \in Seq(Text)
      /\ WithLf(Append(X, w)) = Append(WithLf(X), e)
  BY <1>1, WithLfAppend
<1>4. FlattenSeq(WithLf(Append(X, w))) = F \o e
  BY <1>2, <1>3, FlattenAppend
<1>5. Shown(F \o e) = Shown(F) \o Shown(e)
  BY <1>2, <1>3, ShownConcat
<1>6. "lf" \in Text /\ "cr" \in Text /\ ShownChar("lf") = <<>> /\ ShownChar("cr") = <<>>
  BY TextChars DEF ShownChar
<1>7. Shown(w) \in Seq(Text)
  BY <1>1, ShownParts
<1>8. Shown(w) \o <<>> = Shown(w)
  BY <1>7, ConcatEmptySeq
<1>9. Shown(Append(w, "lf")) = Shown(w) /\ Shown(Append(w, "cr")) = Shown(w)
  <2>1. Shown(Append(w, "lf")) = Shown(w) \o ShownChar("lf")
    BY <1>1, <1>6, ShownAppend
  <2>2. Shown(Append(w, "cr")) = Shown(w) \o ShownChar("cr")
    BY <1>1, <1>6, ShownAppend
  <2> QED BY <1>6, <1>8, <2>1, <2>2
<1>10. Append(w, "lf") = e
  BY <1>1, <1>6, AppendIsConcat
<1>11. Shown(e) = Shown(L)
  BY <1>1, <1>9, <1>10
<1> QED BY <1>3, <1>4, <1>5, <1>11 DEF w

\* The docstring shows every character of the SQL but its line ends.
LEMMA EchoShows ==
  ASSUME NEW s \in Seq(Text)
  PROVE  /\ EchoLines(s) \in Seq(Seq(Text))
         /\ LinesFit(s) => Shown(FlattenSeq(EchoLines(s))) = Shown(s)
<1> DEFINE n == Len(s)
           So(r) == Shown(FlattenSeq(WithLf(r.lines))) \o Shown(r.line)
<1>0. n \in Nat /\ \A i \in 1..n : s[i] \in Text
  OBVIOUS
<1>1. PICK a \in [0..n -> ScanState] :
        /\ Scan(s) = a[n] /\ a[0] = [lines |-> <<>>, line |-> <<>>, tooLong |-> FALSE]
        /\ \A i \in 1..n : a[i] = Scanned(a[i - 1], s[i])
  BY ScanIs
<1>p. /\ SubSeq(s, 1, 0) = <<>> /\ SubSeq(s, 1, n) = s
      /\ \A i \in 0..n : SubSeq(s, 1, i) \in Seq(Text) /\ Len(SubSeq(s, 1, i)) = i
      /\ \A i \in 0..(n - 1) : SubSeq(s, 1, i + 1) = Append(SubSeq(s, 1, i), s[i + 1])
  BY PrefixFacts
<1>as. \A p, q, r \in Seq(Text) : p \o (q \o r) = (p \o q) \o r
  BY Associative, SMT
<1>ty. ASSUME NEW r \in ScanState
       PROVE  /\ r.lines \in Seq(Seq(Text)) /\ r.line \in Seq(Text)
              /\ Shown(FlattenSeq(WithLf(r.lines))) \in Seq(Text) /\ Shown(r.line) \in Seq(Text)
  <2>1. r.lines \in Seq(Seq(Text)) /\ r.line \in Seq(Text)
    BY DEF ScanState
  <2>2. FlattenSeq(WithLf(r.lines)) \in Seq(Text)
    BY <2>1, WithLfType
  <2> QED BY <2>1, <2>2, ShownParts
<1> HIDE DEF n
<1> DEFINE InLine(r, i) == /\ ~r.tooLong /\ Len(r.line) <= i
                           /\ \A j \in (i - Len(r.line) + 1)..i : s[j] # "lf"
           S == {i \in Nat : i <= n => InLine(a[i], i) /\ So(a[i]) = Shown(SubSeq(s, 1, i))}
<1>2. 0 \in S
  <2>1. WithLf(<<>>) = <<>>
    BY DEF WithLf
  <2>2. <<>> \o <<>> = <<>>
    BY EmptySeq, ConcatEmptySeq
  <2>3. So(a[0]) = <<>>
    BY <1>1, <2>1, <2>2, FlattenNone, ShownNone
  <2>4. InLine(a[0], 0)
    BY <1>1
  <2> HIDE DEF So, InLine
  <2> QED BY <1>p, <2>3, <2>4, ShownNone
<1>3. ASSUME LinesFit(s), NEW i \in Nat, i \in S PROVE i + 1 \in S
  <2> SUFFICES ASSUME i + 1 <= n
               PROVE  InLine(a[i + 1], i + 1) /\ So(a[i + 1]) = Shown(SubSeq(s, 1, i + 1))
    OBVIOUS
  <2> DEFINE c == s[i + 1]
             X == a[i].lines
             L == a[i].line
             F == Shown(FlattenSeq(WithLf(X)))
             P == SubSeq(s, 1, i)
  <2>1. i \in 0..n /\ i \in 0..(n - 1) /\ i + 1 \in 1..n /\ (i + 1) - 1 = i
    BY <1>0
  <2>2. So(a[i]) = Shown(P) /\ InLine(a[i], i)
    BY <1>3, <2>1
  <2>3. a[i] \in ScanState
    BY <1>0, <1>1, <2>1
  <2>4. X \in Seq(Seq(Text)) /\ L \in Seq(Text) /\ F \in Seq(Text) /\ Shown(L) \in Seq(Text)
    BY <1>ty, <2>3
  <2>5. c \in Text /\ P \in Seq(Text)
    BY <1>0, <1>p, <2>1
  <2>6. a[i + 1] = Scanned(a[i], c)
    BY <1>1, <2>1
  <2>7. Shown(SubSeq(s, 1, i + 1)) = Shown(P) \o ShownChar(c) /\ ShownChar(c) \in Seq(Text)
    <3>1. SubSeq(s, 1, i + 1) = Append(P, c)
      BY <1>p, <2>1
    <3> HIDE DEF c, P
    <3> QED BY <2>5, <3>1, ShownAppend
  <2>8. Shown(P) = F \o Shown(L)
    BY <2>2
  <2>9. F \o Shown(L) \in Seq(Text) /\ (F \o Shown(L)) \o <<>> = F \o Shown(L)
    <3>1. F \o Shown(L) \in Seq(Text)
      <4> HIDE DEF F, L
      <4> QED BY <2>4, ConcatProperties
    <3> QED BY <3>1, ConcatEmptySeq
  <2> HIDE DEF P
  <2>10. CASE c = "lf"
    <3>1. a[i + 1].lines = Append(X, WithoutCr(L)) /\ a[i + 1].line = <<>> /\ ~a[i + 1].tooLong
      BY <2>2, <2>6, <2>10 DEF Scanned
    <3>2. Shown(FlattenSeq(WithLf(Append(X, WithoutCr(L))))) = F \o Shown(L)
      BY <2>4, EndLine
    <3>3. So(a[i + 1]) = (F \o Shown(L)) \o <<>>
      BY <3>1, <3>2, ShownNone
    <3>4. ShownChar(c) = <<>>
      BY <2>10 DEF ShownChar
    <3>5. InLine(a[i + 1], i + 1)
      BY <3>1
    <3> HIDE DEF InLine, So
    <3> QED BY <2>7, <2>8, <3>3, <3>4, <3>5
  <2>11. CASE c # "lf"
    <3>1. Len(L) \in Nat /\ Len(L) <= i /\ ~a[i].tooLong /\ \A j \in (i - Len(L) + 1)..i : s[j] # "lf"
      BY <2>2, <2>4
    <3>2. Len(L) # MaxLine
      <4> SUFFICES ASSUME Len(L) = MaxLine PROVE FALSE
        OBVIOUS
      <4> DEFINE p == i - MaxLine + 1
      <4>1. MaxLine \in Nat /\ p \in 1..Len(s) - MaxLine /\ p + MaxLine = i + 1
        BY <1>0, <2>1, <3>1, TextBounds DEF n
      <4>2. PICK j \in p..p + MaxLine : s[j] = "lf"
        BY <1>3, <4>1 DEF LinesFit
      <4>3. j = i + 1 \/ j \in (i - Len(L) + 1)..i
        BY <3>1, <4>1
      <4> QED BY <2>11, <3>1, <4>2, <4>3
    <3>3. a[i + 1].lines = X /\ a[i + 1].line = Append(L, c) /\ ~a[i + 1].tooLong
      BY <2>6, <2>11, <3>1, <3>2 DEF Scanned
    <3>4. Shown(Append(L, c)) = Shown(L) \o ShownChar(c)
      BY <2>4, <2>5, ShownAppend
    <3>5. So(a[i + 1]) = F \o (Shown(L) \o ShownChar(c))
      BY <3>3, <3>4
    <3>6. F \o (Shown(L) \o ShownChar(c)) = (F \o Shown(L)) \o ShownChar(c)
      BY <1>as, <2>4, <2>7, Zenon
    <3>7. InLine(a[i + 1], i + 1)
      <4>1. Len(a[i + 1].line) = Len(L) + 1
        BY <2>4, <2>5, <3>3
      <4>2. \A j \in (i + 1 - (Len(L) + 1) + 1)..(i + 1) : j = i + 1 \/ j \in (i - Len(L) + 1)..i
        BY <3>1
      <4>3. \A j \in (i + 1 - (Len(L) + 1) + 1)..(i + 1) : s[j] # "lf"
        BY <2>11, <3>1, <4>2
      <4> QED BY <3>1, <3>3, <4>1, <4>3
    <3> HIDE DEF InLine, So
    <3> QED BY <2>7, <2>8, <3>5, <3>6, <3>7
  <2> QED BY <2>10, <2>11
<1> HIDE DEF S, InLine
<1>4. ASSUME LinesFit(s) PROVE n \in S
  BY <1>0, <1>2, <1>3, <1>4, NatSetInduction
<1>5. ASSUME LinesFit(s) PROVE So(Scan(s)) = Shown(s)
  <2>1. So(a[n]) = Shown(SubSeq(s, 1, n))
    BY <1>0, <1>4, <1>5 DEF S
  <2> HIDE DEF So
  <2> QED BY <1>1, <1>p, <2>1
<1>6. Scan(s) \in ScanState
  BY <1>0, <1>1
<1> DEFINE r == Scan(s)
           F == Shown(FlattenSeq(WithLf(r.lines)))
<1>7. r.lines \in Seq(Seq(Text)) /\ r.line \in Seq(Text) /\ F \in Seq(Text)
  BY <1>6, <1>ty
<1>8. SplitLines(s) = IF r.line = <<>> THEN r.lines ELSE Append(r.lines, WithoutCr(r.line))
  BY DEF SplitLines
<1>9. LinesFit(s) => F \o Shown(r.line) = Shown(s)
  BY <1>5
<1> HIDE DEF r
<1>10. CASE r.line = <<>>
  <2>1. F \o <<>> = F
    BY <1>7, ConcatEmptySeq
  <2>2. Shown(FlattenSeq(EchoLines(s))) = F
    BY <1>8, <1>10 DEF EchoLines
  <2>3. EchoLines(s) \in Seq(Seq(Text))
    BY <1>7, <1>8, <1>10, WithLfType DEF EchoLines
  <2> QED BY <1>9, <1>10, <2>1, <2>2, <2>3, ShownNone
<1>11. CASE r.line # <<>>
  <2>1. /\ Append(r.lines, WithoutCr(r.line)) \in Seq(Seq(Text))
        /\ Shown(FlattenSeq(WithLf(Append(r.lines, WithoutCr(r.line))))) = F \o Shown(r.line)
    BY <1>7, EndLine
  <2>2. SplitLines(s) = Append(r.lines, WithoutCr(r.line))
    BY <1>8, <1>11
  <2> HIDE DEF F
  <2> QED BY <1>9, <2>1, <2>2, WithLfType DEF EchoLines
<1> QED BY <1>10, <1>11

-----------------------------------------------------------------------------
(* What is encoded. *)

LEMMA PiecesType ==
  ASSUME NEW si \in {"comment", "query", "sqlalchemy", "echo"}, NEW s \in Seq(Text)
  PROVE  PiecesOf(si, s) \in Seq(Seq(Text)) /\ FlattenSeq(PiecesOf(si, s)) \in Seq(Text)
<1> DEFINE A == Seq(Text)
           P == PiecesOf(si, s)
<1>1. P \in Seq(Seq(Text))
  <2>1. \A c \in {"word", "colon", "space", "lf", "bs"} : c \in Text
    BY TextChars
  <2>2. Header \in A /\ Verb \in A /\ <<"lf">> \in A /\ RewriteVerb(Verb) \in A
    <3>1. Header \in A /\ Verb \in A /\ <<"lf">> \in A
      BY <2>1 DEF Header, Verb
    <3> QED BY <3>1, EscapeColonsType DEF RewriteVerb
  <2>3. RewriteSQL(s) \in A
    BY EscapeColonsType, PlaceholdersToBindsType DEF RewriteSQL
  <2>4. \A x, y \in A : x \o y \in A
    BY ConcatProperties
  <2>5. EchoLines(s) \in Seq(A)
    BY EchoShows
  <2>a. s \in A
    OBVIOUS
  <2> HIDE DEF A
  <2> DEFINE h == Header \o Verb \o <<"lf">>
             v == Header \o RewriteVerb(Verb) \o <<"lf">>
             b == s \o <<"lf">>
             r == RewriteSQL(s) \o <<"lf">>
  <2>6. h \in A /\ v \in A /\ b \in A /\ r \in A
    BY <2>2, <2>3, <2>4, <2>a, Zenon
  <2>7. P = CASE si = "comment" -> <<s>> [] si = "query" -> <<h, b>>
              [] si = "sqlalchemy" -> <<v, r>> [] si = "echo" -> EchoLines(s)
    BY DEF PiecesOf
  <2> HIDE DEF P, h, v, b, r
  <2>8. <<s>> \in Seq(A) /\ <<h, b>> \in Seq(A) /\ <<v, r>> \in Seq(A)
    BY <2>6, <2>a
  <2>9. CASE si = "comment"
    BY <2>7, <2>8, <2>9 DEF A
  <2>10. CASE si = "query"
    BY <2>7, <2>8, <2>10 DEF A
  <2>11. CASE si = "sqlalchemy"
    BY <2>7, <2>8, <2>11 DEF A
  <2>12. CASE si = "echo"
    BY <2>5, <2>7, <2>12 DEF A
  <2> QED BY <2>9, <2>10, <2>11, <2>12
<1>2. \A a, b \in Seq(Text) \cap Seq(Text) : a \o b \in Seq(Text)
  BY ConcatProperties
<1>3. <<>> \in Seq(Text)
  BY EmptySeq
<1> HIDE DEF P
<1>4. \A i \in 1..Len(P) : P[i] \in Seq(Text)
  BY <1>1, PartIn
<1>5. FlattenSeq(P) \in Seq(Text)
  BY <1>1, <1>2, <1>3, <1>4, FlattenIn
<1> QED BY <1>1, <1>5 DEF P

\* The first part of a list of lists, and the rest.
LEMMA FlattenHead ==
  ASSUME NEW T, NEW x \in Seq(Seq(T)), x # <<>>
  PROVE  /\ Head(x) \in Seq(T) /\ Tail(x) \in Seq(Seq(T))
         /\ FlattenSeq(Tail(x)) \in Seq(T)
         /\ FlattenSeq(x) = Head(x) \o FlattenSeq(Tail(x))
<1> DEFINE A == Seq(T)
           h == <<Head(x)>>
           t == Tail(x)
<1>1. x \in Seq(A)
  OBVIOUS
<1> HIDE DEF A
<1>2. Head(x) \in A /\ h \in Seq(A) /\ t \in Seq(A) /\ Len(h) = 1 /\ h[1] = x[1]
  BY <1>1
<1>3. h \o t = x
  <2>1. Len(x) = Len(h) + Len(t) /\ \A k \in 1..Len(t) : x[Len(h) + k] = t[k]
    BY <1>1, <1>2
  <2>2. \A p \in 1..Len(h) : x[p] = h[p]
    BY <1>2
  <2> HIDE DEF h, t
  <2> QED BY <1>1, <1>2, <2>1, <2>2, ConcatIs
<1> HIDE DEF t
<1>4. FlattenSeq(h \o t) = FlattenSeq(h) \o FlattenSeq(t)
  BY <1>2, FlattenConcat DEF A
<1>5. FlattenSeq(h) = Head(x)
  BY <1>2, FlattenOne DEF A
<1>6. FlattenSeq(t) \in Seq(T)
  <2>1. \A a, b \in Seq(T) \cap Seq(T) : a \o b \in Seq(T)
    BY ConcatProperties
  <2>2. <<>> \in Seq(T)
    BY EmptySeq
  <2>3. \A i \in 1..Len(t) : t[i] \in Seq(T)
    BY <1>2, PartIn DEF A
  <2>4. t \in Seq(Seq(T))
    BY <1>2 DEF A
  <2> QED BY <2>1, <2>2, <2>3, <2>4, FlattenIn
<1> QED BY <1>2, <1>3, <1>4, <1>5, <1>6 DEF A, t

-----------------------------------------------------------------------------
(* The encoder. *)

\* tok is the source of done, a token a character.
Tokenised(done, tok) ==
  /\ done \in Seq(Text) /\ tok \in Seq(Seq(Source)) /\ Len(done) = Len(tok)
  /\ \A i \in 1..Len(tok) : tok[i] \in Tokens(done[i])
  /\ \A i \in 1..(Len(tok) - 2) : ~(tok[i] = Bare /\ tok[i + 1] = Bare /\ tok[i + 2] = Bare)

\* At most q bare quotes end the tokens.
Trailing(tok, q) ==
  /\ q \in 0..2
  /\ q = 0 /\ Len(tok) > 0 => tok[Len(tok)] # Bare
  /\ q = 1 /\ Len(tok) > 1 => tok[Len(tok) - 1] # Bare

LEMMA EncodedToken ==
  ASSUME NEW c \in Text, NEW run, NEW last \in BOOLEAN
  PROVE  /\ Encoded(c, run, last) \in Tokens(c)
         /\ Encoded(c, run, last) \in Seq(Source)
         /\ Encoded(c, run, last) = Bare <=> c = "quote" /\ ~EscapesQuote(run, last)
<1>1. \A x \in Text \cup {"r", "x00"} : x \in Source
  BY DEF Source
<1>2. "bs" \in Text /\ "quote" \in Text /\ "r" \in Source /\ "x00" \in Source
  BY <1>1, TextChars
<1>3. CASE c = "quote"
  <2>1. Encoded(c, run, last) = IF EscapesQuote(run, last) THEN <<"bs", "quote">> ELSE <<"quote">>
    BY <1>3 DEF Encoded
  <2>2. <<"bs", "quote">> # Bare
    BY DEF Bare
  <2> QED BY <1>1, <1>2, <1>3, <2>1, <2>2 DEF Tokens, Bare
<1>4. CASE c # "quote"
  <2>1. Encoded(c, run, last) = IF c = "bs" THEN <<"bs", "bs">> ELSE IF c = "cr" THEN <<"bs", "r">>
                                ELSE IF c = "nul" THEN <<"bs", "x00">> ELSE <<c>>
    BY <1>4 DEF Encoded
  <2>2. Encoded(c, run, last) # Bare
    BY <1>4, <2>1 DEF Bare
  <2> QED BY <1>1, <1>2, <1>4, <2>1, <2>2 DEF Tokens
<1> QED BY <1>3, <1>4

LEMMA TokenAdded ==
  ASSUME NEW done, NEW tok, NEW q, Tokenised(done, tok), Trailing(tok, q),
         NEW c \in Text, NEW t \in Seq(Source), t \in Tokens(c), NEW q2,
         t = Bare => q < 2 /\ q2 = q + 1,
         t # Bare => q2 = 0
  PROVE  /\ Tokenised(Append(done, c), Append(tok, t)) /\ Trailing(Append(tok, t), q2)
         /\ FlattenSeq(Append(tok, t)) = FlattenSeq(tok) \o t
<1> DEFINE A == Seq(Source)
           d2 == Append(done, c)
           t2 == Append(tok, t)
           n == Len(tok)
<1>1. /\ done \in Seq(Text) /\ tok \in Seq(A) /\ Len(done) = n /\ t \in A
      /\ \A i \in 1..n : tok[i] \in Tokens(done[i])
      /\ \A i \in 1..(n - 2) : ~(tok[i] = Bare /\ tok[i + 1] = Bare /\ tok[i + 2] = Bare)
  BY DEF Tokenised
<1>2. FlattenSeq(t2) = FlattenSeq(tok) \o t
  BY <1>1, FlattenAppend
<1> HIDE DEF A
<1>3. /\ t2 \in Seq(A) /\ Len(t2) = n + 1 /\ n \in Nat /\ t2[n + 1] = t
      /\ \A i \in 1..n : t2[i] = tok[i]
  BY <1>1
<1>4. /\ d2 \in Seq(Text) /\ Len(d2) = n + 1 /\ d2[n + 1] = c
      /\ \A i \in 1..n : d2[i] = done[i]
  BY <1>1
<1>5. /\ q \in 0..2
      /\ q = 0 /\ n > 0 => tok[n] # Bare
      /\ q = 1 /\ n > 1 => tok[n - 1] # Bare
  BY DEF Trailing
<1> HIDE DEF n, t2, d2
<1>6. ASSUME NEW i \in 1..(n + 1) PROVE t2[i] \in Tokens(d2[i])
  <2>1. i = n + 1 \/ i \in 1..n
    BY <1>3
  <2> QED BY <1>1, <1>3, <1>4, <2>1
<1>7. ASSUME NEW i \in 1..(n - 1) PROVE ~(t2[i] = Bare /\ t2[i + 1] = Bare /\ t2[i + 2] = Bare)
  <2>1. CASE i \in 1..(n - 2)
    <3>1. i \in 1..n /\ i + 1 \in 1..n /\ i + 2 \in 1..n
      BY <1>3, <2>1
    <3> QED BY <1>1, <1>3, <2>1, <3>1
  <2>2. CASE i = n - 1
    <3>1. n > 1 /\ n - 1 \in 1..n /\ n \in 1..n /\ i + 1 = n /\ i + 2 = n + 1
      BY <1>3, <2>2
    <3>2. t2[i] = tok[n - 1] /\ t2[i + 1] = tok[n] /\ t2[i + 2] = t
      BY <1>3, <2>2, <3>1
    <3>3. t = Bare => q = 0 \/ q = 1
      BY <1>5
    <3> QED BY <1>5, <3>1, <3>2, <3>3
  <2>3. i \in 1..(n - 2) \/ i = n - 1
    BY <1>3
  <2> QED BY <2>1, <2>2, <2>3
<1>8. /\ q2 \in 0..2
      /\ q2 = 0 => t2[n + 1] # Bare
      /\ q2 = 1 /\ n + 1 > 1 => t2[n] # Bare
  <2>1. CASE t = Bare
    <3>1. q2 = q + 1 /\ q \in 0..1
      BY <1>5, <2>1
    <3>2. q2 = 1 /\ n + 1 > 1 => n \in 1..n /\ q = 0 /\ n > 0
      BY <1>3, <3>1
    <3> QED BY <1>3, <1>5, <3>1, <3>2
  <2>2. CASE t # Bare
    BY <1>3, <2>2
  <2> QED BY <2>1, <2>2
<1>9. Len(t2) - 2 = n - 1 /\ Len(t2) - 1 = n
  BY <1>3
<1>10. Tokenised(d2, t2)
  BY <1>3, <1>4, <1>6, <1>7, <1>9 DEF Tokenised, A
<1>11. Trailing(t2, q2)
  BY <1>3, <1>8, <1>9 DEF Trailing
<1> QED BY <1>2, <1>10, <1>11 DEF d2, t2

\* What is left of p from the a-th character of its first piece.
LeftOf(p, a) ==
  IF p = <<>> THEN <<>> ELSE SubSeq(Head(p), a, Len(Head(p))) \o FlattenSeq(Tail(p))

\* The encoder of w has written src; p is left, from a.
Encodes(w, p, a, q, src, done, tok) ==
  /\ Tokenised(done, tok) /\ Trailing(tok, q)
  /\ src = FlattenSeq(tok)
  /\ p \in Seq(Seq(Text)) /\ a \in Nat \ {0}
  /\ p # <<>> => a <= Len(Head(p)) + 1
  /\ (p = <<>> \/ a > Len(Head(p))) => q = 0
  /\ w = done \o LeftOf(p, a)

LEMMA EncodeStep ==
  ASSUME NEW w, NEW p, NEW a, NEW q, NEW src, NEW done, NEW tok, Encodes(w, p, a, q, src, done, tok),
         p # <<>>, a <= Len(Head(p)), NEW c, c = Head(p)[a], NEW last, last = (a = Len(Head(p))),
         NEW run, run = IF c = "quote" THEN q + 1 ELSE 0,
         NEW q2, q2 = IF c = "quote" /\ EscapesQuote(run, last) THEN 0 ELSE run
  PROVE  \E d2, t2 : Encodes(w, p, a + 1, q2, src \o Encoded(c, run, last), d2, t2)
<1> DEFINE h == Head(p)
           t == Encoded(c, run, last)
           rest == FlattenSeq(Tail(p))
<1>1. /\ Tokenised(done, tok) /\ Trailing(tok, q) /\ src = FlattenSeq(tok)
      /\ p \in Seq(Seq(Text)) /\ a \in Nat \ {0} /\ w = done \o (SubSeq(h, a, Len(h)) \o rest)
  BY DEF Encodes, LeftOf
<1>2. h \in Seq(Text) /\ rest \in Seq(Text) /\ Len(h) \in Nat
  BY <1>1, FlattenHead
<1> HIDE DEF h, rest
<1>3. a \in 1..Len(h) /\ c = h[a] /\ last = (a = Len(h))
  BY <1>1, <1>2 DEF h
<1>4. c \in Text /\ last \in BOOLEAN
  BY <1>2, <1>3
<1>5. t \in Tokens(c) /\ t \in Seq(Source) /\ (t = Bare <=> c = "quote" /\ ~EscapesQuote(run, last))
  BY <1>4, EncodedToken
<1>6. q \in 0..2
  BY <1>1 DEF Trailing
<1> HIDE DEF t
<1>7. t = Bare => q < 2 /\ q2 = q + 1
  <2> SUFFICES ASSUME t = Bare PROVE q < 2 /\ q2 = q + 1
    OBVIOUS
  <2>1. c = "quote" /\ ~EscapesQuote(run, last) /\ run = q + 1
    BY <1>5
  <2>2. run # 3
    BY <2>1 DEF EscapesQuote
  <2> QED BY <1>6, <2>1, <2>2
<1>8. t # Bare => q2 = 0
  BY <1>5
<1>9. last => q2 = 0
  BY DEF EscapesQuote
<1> DEFINE d2 == Append(done, c)
           t2 == Append(tok, t)
<1>10. Tokenised(d2, t2) /\ Trailing(t2, q2) /\ FlattenSeq(t2) = src \o t
  BY <1>1, <1>4, <1>5, <1>7, <1>8, TokenAdded
<1>11. w = d2 \o (SubSeq(h, a + 1, Len(h)) \o rest)
  <2> DEFINE s1 == SubSeq(h, a, Len(h))
             s2 == SubSeq(h, a + 1, Len(h))
  <2>1. s2 \in Seq(Text) /\ <<c>> \in Seq(Text) /\ done \in Seq(Text)
    BY <1>1, <1>2, <1>3, <1>4 DEF Tokenised
  <2>2. s1 = <<c>> \o s2
    <3>1. s1 \in Seq(Text) /\ Len(s1) = Len(h) - a + 1 /\ \A i \in 1..(Len(h) - a + 1) : s1[i] = h[a + i - 1]
      BY <1>2, <1>3
    <3>2. Len(s2) = Len(h) - a /\ \A i \in 1..(Len(h) - a) : s2[i] = h[a + 1 + i - 1]
      BY <1>2, <1>3
    <3>3. Len(<<c>>) = 1 /\ <<c>>[1] = c
      OBVIOUS
    <3> DEFINE x == <<c>>
    <3>x. x \in Seq(Text) /\ Len(x) = 1 /\ x[1] = c
      BY <2>1, <3>3
    <3> HIDE DEF s1, s2, x
    <3>4. Len(s1) = Len(x) + Len(s2)
      BY <1>2, <1>3, <3>1, <3>2, <3>x
    <3>5. \A i \in 1..Len(x) : s1[i] = x[i]
      <4>1. 1 \in 1..(Len(h) - a + 1) /\ a + 1 - 1 = a
        BY <1>2, <1>3
      <4>2. s1[1] = c
        BY <1>3, <3>1, <4>1
      <4> QED BY <3>x, <4>2
    <3>6. \A i \in 1..Len(s2) : s1[Len(x) + i] = s2[i]
      <4> TAKE i \in 1..Len(s2)
      <4>1. 1 + i \in 1..(Len(h) - a + 1) /\ a + (1 + i) - 1 = a + 1 + i - 1 /\ i \in 1..(Len(h) - a)
        BY <1>2, <1>3, <3>2
      <4> QED BY <3>1, <3>2, <3>x, <4>1
    <3>7. x \o s2 = s1
      BY <2>1, <3>1, <3>x, <3>4, <3>5, <3>6, ConcatIs
    <3> QED BY <3>7 DEF x
  <2>3. Append(done, c) = done \o <<c>>
    BY <1>4, <2>1, AppendIsConcat
  <2> HIDE DEF s1, s2
  <2>as. \A x, y, z \in Seq(Text) : x \o (y \o z) = (x \o y) \o z
    BY Associative, SMT
  <2>4. s2 \o rest \in Seq(Text)
    BY <1>2, <2>1, ConcatProperties
  <2>5. (<<c>> \o s2) \o rest = <<c>> \o (s2 \o rest)
    BY <1>2, <2>1, <2>as
  <2>6. done \o (<<c>> \o (s2 \o rest)) = (done \o <<c>>) \o (s2 \o rest)
    BY <2>1, <2>4, <2>as
  <2>7. w = done \o (s1 \o rest)
    BY <1>1 DEF s1
  <2>8. w = Append(done, c) \o (s2 \o rest)
    BY <2>2, <2>3, <2>5, <2>6, <2>7
  <2> QED BY <2>8 DEF s2
<1>12. a + 1 \in Nat \ {0} /\ a + 1 <= Len(h) + 1 /\ (a + 1 > Len(h) => last)
  <2>1. a \in 1..Len(h) /\ Len(h) \in Nat
    BY <1>2, <1>3
  <2>2. a + 1 > Len(h) => a = Len(h)
    BY <2>1
  <2>3. a + 1 \in Nat \ {0} /\ a + 1 <= Len(h) + 1
    BY <2>1
  <2>4. a = Len(h) => last
    BY <1>3, Zenon
  <2> QED BY <2>2, <2>3, <2>4, Zenon
<1>13. w = d2 \o LeftOf(p, a + 1)
  BY <1>11 DEF LeftOf, h, rest
<1>14. (p = <<>> \/ a + 1 > Len(Head(p))) => q2 = 0
  BY <1>9, <1>12 DEF h
<1> HIDE DEF d2, t2
<1>15. Encodes(w, p, a + 1, q2, src \o t, d2, t2)
  BY <1>1, <1>10, <1>12, <1>13, <1>14 DEF Encodes, h
<1> QED BY <1>15 DEF t

LEMMA PieceStep ==
  ASSUME NEW w, NEW p, NEW a, NEW q, NEW src, NEW done, NEW tok, Encodes(w, p, a, q, src, done, tok),
         p # <<>>, a > Len(Head(p))
  PROVE  Encodes(w, Tail(p), 1, 0, src, done, tok)
<1> DEFINE h == Head(p)
           r == Tail(p)
<1>1. /\ Tokenised(done, tok) /\ Trailing(tok, 0) /\ src = FlattenSeq(tok)
      /\ p \in Seq(Seq(Text)) /\ a \in Nat \ {0} /\ w = done \o (SubSeq(h, a, Len(h)) \o FlattenSeq(r))
  BY DEF Encodes, LeftOf
<1>2. h \in Seq(Text) /\ r \in Seq(Seq(Text)) /\ FlattenSeq(r) \in Seq(Text) /\ Len(h) \in Nat
  BY <1>1, FlattenHead
<1>3. SubSeq(h, a, Len(h)) = <<>>
  BY <1>1, <1>2
<1>4. <<>> \o FlattenSeq(r) = FlattenSeq(r)
  BY <1>2, ConcatEmptySeq
<1>5. w = done \o FlattenSeq(r)
  BY <1>1, <1>3, <1>4
<1> HIDE DEF r
<1>6. LeftOf(r, 1) = FlattenSeq(r)
  <2>1. CASE r = <<>>
    BY <2>1, FlattenNone DEF LeftOf
  <2>2. CASE r # <<>>
    <3>1. Head(r) \in Seq(Text) /\ FlattenSeq(r) = Head(r) \o FlattenSeq(Tail(r))
      BY <1>2, <2>2, FlattenHead
    <3>2. SubSeq(Head(r), 1, Len(Head(r))) = Head(r)
      BY <3>1
    <3> QED BY <2>2, <3>1, <3>2 DEF LeftOf
  <2> QED BY <2>1, <2>2
<1>7. r # <<>> => 1 <= Len(Head(r)) + 1
  <2>1. r # <<>> => Head(r) \in Seq(Text)
    BY <1>2, FlattenHead
  <2> QED BY <2>1
<1>8. Encodes(w, r, 1, 0, src, done, tok)
  <2>1. 1 \in Nat \ {0} /\ w = done \o LeftOf(r, 1)
    BY <1>5, <1>6
  <2> QED BY <1>1, <1>2, <1>7, <2>1, Zenon DEF Encodes
<1> QED BY <1>8 DEF r

LEMMA EncodeStarts ==
  ASSUME NEW p \in Seq(Seq(Text))
  PROVE  Encodes(FlattenSeq(p), p, 1, 0, <<>>, <<>>, <<>>)
<1>1. Tokenised(<<>>, <<>>) /\ Trailing(<<>>, 0)
  <2> DEFINE A == Seq(Source)
  <2>1. <<>> \in Seq(Text) /\ <<>> \in Seq(A) /\ Len(<<>>) = 0
    OBVIOUS
  <2> HIDE DEF A
  <2>2. <<>> \in Seq(Seq(Source))
    BY <2>1 DEF A
  <2> QED BY <2>1, <2>2 DEF Tokenised, Trailing
<1>2. FlattenSeq(p) = LeftOf(p, 1) /\ FlattenSeq(p) \in Seq(Text) /\ (p # <<>> => Head(p) \in Seq(Text))
  <2>1. CASE p = <<>>
    BY <2>1, FlattenNone, EmptySeq DEF LeftOf
  <2>2. CASE p # <<>>
    <3>1. Head(p) \in Seq(Text) /\ FlattenSeq(p) = Head(p) \o FlattenSeq(Tail(p)) /\ FlattenSeq(Tail(p)) \in Seq(Text)
      BY <2>2, FlattenHead
    <3>2. SubSeq(Head(p), 1, Len(Head(p))) = Head(p)
      BY <3>1
    <3>3. FlattenSeq(p) \in Seq(Text)
      BY <3>1, ConcatProperties
    <3> QED BY <2>2, <3>1, <3>2, <3>3 DEF LeftOf
  <2> QED BY <2>1, <2>2
<1>3. <<>> \o FlattenSeq(p) = FlattenSeq(p)
  BY <1>2, ConcatEmptySeq
<1>4. p # <<>> => 1 <= Len(Head(p)) + 1
  BY <1>2
<1> QED BY <1>1, <1>2, <1>3, <1>4, FlattenNone DEF Encodes

-----------------------------------------------------------------------------
(* The reader. *)

Three == <<"quote", "quote", "quote">>

\* src is the tokens of w and the closing quotes; f has where each token ends.
Closed(w, src, tok, f) ==
  /\ Tokenised(w, tok)
  /\ Len(tok) > 0 => tok[Len(tok)] # Bare
  /\ Concatenates(f, tok, Source)
  /\ src = f[Len(tok)] \o Three

LEMMA EncodeEnds ==
  ASSUME NEW w, NEW a, NEW q, NEW src, NEW done, NEW tok, Encodes(w, <<>>, a, q, src, done, tok)
  PROVE  \E f : Closed(w, src \o Three, tok, f)
<1>1. Tokenised(done, tok) /\ Trailing(tok, 0) /\ src = FlattenSeq(tok) /\ w = done \o <<>>
  BY DEF Encodes, LeftOf
<1>2. done \in Seq(Text) /\ tok \in Seq(Seq(Source))
  BY <1>1 DEF Tokenised
<1>3. w = done
  BY <1>1, <1>2, ConcatEmptySeq
<1>4. PICK f : Concatenates(f, tok, Source)
  BY <1>2, ConcatenationExists
<1>5. src = f[Len(tok)]
  BY <1>1, <1>2, <1>4, FlattenConcatenates
<1>6. Len(tok) > 0 => tok[Len(tok)] # Bare
  BY <1>1 DEF Trailing
<1>7. Closed(w, src \o Three, tok, f)
  BY <1>1, <1>3, <1>4, <1>5, <1>6 DEF Closed
<1> QED BY <1>7

\* t is in src, after position p and up to position e.
Stands(src, t, p, e) == e = p + Len(t) /\ \A j \in 1..Len(t) : src[p + j] = t[j]

\* What the source has after the first k tokens.
LEMMA After ==
  ASSUME NEW w, NEW src, NEW tok, NEW f, Closed(w, src, tok, f), NEW k \in 0..Len(tok)
  PROVE  /\ src \in Seq(Source) /\ Len(f[k]) \in Nat /\ Len(src) >= Len(f[k]) + 3
         /\ k = Len(tok) => Len(src) = Len(f[k]) + 3 /\ \A j \in 1..3 : src[Len(f[k]) + j] = "quote"
         /\ k < Len(tok) => Stands(src, tok[k + 1], Len(f[k]), Len(f[k + 1]))
<1> DEFINE n == Len(tok)
           g == f[n]
<1>0. tok \in Seq(Seq(Source)) /\ Concatenates(f, tok, Source) /\ n \in Nat
  BY DEF Closed, Tokenised
<1>1. f \in [0..n -> Seq(Source)] /\ \A i \in 1..n : f[i] = f[i - 1] \o tok[i]
  BY <1>0 DEF Concatenates
<1>2. g \in Seq(Source) /\ f[k] \in Seq(Source) /\ Len(f[k]) \in Nat
  <2>1. n \in 0..n /\ k \in 0..n
    BY <1>0
  <2>2. g \in Seq(Source) /\ f[k] \in Seq(Source)
    BY <1>1, <2>1, Zenon
  <2> QED BY <2>2, LenProperties
<1>3. Three \in Seq(Source) /\ Len(Three) = 3 /\ \A j \in 1..3 : Three[j] = "quote"
  BY TextChars DEF Three
<1>4. src = g \o Three
  BY DEF Closed
<1>5. Len(f[k]) <= Len(g)
  <2>1. k \in 0..n /\ n \in k..n
    BY <1>0
  <2> QED BY <1>0, <2>1, ConcatenationGrows
<1> HIDE DEF g
<1>6. /\ src \in Seq(Source) /\ Len(src) = Len(g) + 3 /\ Len(g) \in Nat
      /\ \A p \in 1..Len(g) : src[p] = g[p]
      /\ \A j \in 1..3 : src[Len(g) + j] = Three[j]
  <2>1. /\ g \o Three \in Seq(Source) /\ Len(g \o Three) = Len(g) + Len(Three) /\ Len(g) \in Nat
        /\ \A p \in 1..Len(g) : (g \o Three)[p] = g[p]
        /\ \A j \in 1..Len(Three) : (g \o Three)[Len(g) + j] = Three[j]
    <3>1. g \in Seq(Source) /\ Three \in Seq(Source)
      BY <1>2, <1>3
    <3> QED BY ONLY <3>1, ConcatElements
  <2> QED BY <1>3, <1>4, <2>1
<1>7. src \in Seq(Source) /\ Len(f[k]) \in Nat /\ Len(src) >= Len(f[k]) + 3
  BY <1>2, <1>5, <1>6
<1>8. ASSUME k = n PROVE Len(src) = Len(f[k]) + 3 /\ \A j \in 1..3 : src[Len(f[k]) + j] = "quote"
  <2>1. f[k] = g
    BY <1>8 DEF g
  <2> QED BY <1>3, <1>6, <2>1
<1>9. ASSUME k < n
      PROVE  Stands(src, tok[k + 1], Len(f[k]), Len(f[k + 1]))
  <2> DEFINE i == k + 1
  <2>1. i \in 1..n /\ i - 1 = k
    BY <1>0, <1>9
  <2> HIDE DEF i
  <2>2. tok[i] \in Seq(Source)
    BY <1>0, <2>1, PartIn
  <2>3. f[i] = f[k] \o tok[i]
    BY <1>1, <2>1
  <2>4. Len(f[i]) = Len(f[k]) + Len(tok[i])
    BY <1>2, <2>2, <2>3, ConcatElements
  <2>5. ASSUME NEW j \in 1..Len(tok[i]) PROVE src[Len(f[k]) + j] = tok[i][j]
    <3>1. Len(f[i - 1]) + j \in 1..Len(g) /\ g[Len(f[i - 1]) + j] = tok[i][j]
      BY <1>0, <2>1, PartAt DEF g
    <3> QED BY <1>6, <2>1, <3>1
  <2> QED BY <2>4, <2>5 DEF i, Stands
<1> QED BY <1>7, <1>8, <1>9

\* The reader is before a token: what it can read there.
LEMMA NextToken ==
  ASSUME NEW w, NEW src, NEW tok, NEW f, Closed(w, src, tok, f), NEW k \in 0..Len(tok), k < Len(tok)
  PROVE  /\ k + 1 \in 1..Len(tok) /\ w[k + 1] \in Text
         /\ src[Len(f[k]) + 1] = "bs" => /\ Unescaped(src[Len(f[k]) + 2]) = <<w[k + 1]>>
                                         /\ Len(f[k + 1]) = Len(f[k]) + 2
         /\ src[Len(f[k]) + 1] # "bs" => /\ src[Len(f[k]) + 1] = w[k + 1]
                                         /\ w[k + 1] \notin {"cr", "nul"}
                                         /\ Len(f[k + 1]) = Len(f[k]) + 1
         /\ src[Len(f[k]) + 1] = "quote" => tok[k + 1] = Bare
<1> DEFINE i == k + 1
           c == w[i]
           t == tok[i]
           p == Len(f[k])
<1>0. /\ w \in Seq(Text) /\ tok \in Seq(Seq(Source)) /\ Len(w) = Len(tok) /\ Len(tok) \in Nat
      /\ \A j \in 1..Len(tok) : tok[j] \in Tokens(w[j])
  BY DEF Closed, Tokenised
<1>1. i \in 1..Len(tok)
  BY <1>0
<1>2. c \in Text /\ t \in Tokens(c)
  BY <1>0, <1>1
<1>3. Len(f[i]) = p + Len(t) /\ \A j \in 1..Len(t) : src[p + j] = t[j]
  <2>1. Stands(src, tok[k + 1], Len(f[k]), Len(f[k + 1]))
    BY After
  <2> QED BY <2>1 DEF Stands
<1> SUFFICES /\ i \in 1..Len(tok) /\ c \in Text
             /\ src[p + 1] = "bs" => Unescaped(src[p + 2]) = <<c>> /\ Len(f[i]) = p + 2
             /\ src[p + 1] # "bs" => src[p + 1] = c /\ c \notin {"cr", "nul"} /\ Len(f[i]) = p + 1
             /\ src[p + 1] = "quote" => t = Bare
  OBVIOUS
<1> HIDE DEF i, c, t, p
<1>4. CASE c \in {"bs", "cr", "nul"} \/ (c = "quote" /\ t # Bare)
  <2> DEFINE e == t[2]
  <2>1. Len(t) = 2 /\ t[1] = "bs" /\ Unescaped(e) = <<c>>
    <3>1. CASE c = "bs"
      BY <1>2, <3>1 DEF Tokens, Unescaped
    <3>2. CASE c = "cr"
      BY <1>2, <3>2 DEF Tokens, Unescaped
    <3>3. CASE c = "nul"
      BY <1>2, <3>3 DEF Tokens, Unescaped
    <3>4. CASE c = "quote" /\ t # Bare
      BY <1>2, <3>4 DEF Tokens, Unescaped
    <3> QED BY <1>4, <3>1, <3>2, <3>3, <3>4
  <2> HIDE DEF e
  <2>2. src[p + 1] = "bs" /\ src[p + 2] = e
    BY <1>3, <2>1 DEF e
  <2>3. Unescaped(src[p + 2]) = <<c>> /\ Len(f[i]) = p + 2
    BY <1>3, <2>1, <2>2
  <2>4. src[p + 1] # "quote"
    BY <2>2
  <2> QED BY <1>1, <1>2, <2>2, <2>3, <2>4, Zenon
<1>5. CASE ~(c \in {"bs", "cr", "nul"} \/ (c = "quote" /\ t # Bare))
  <2>1. t = <<c>> /\ (c = "quote" => t = Bare)
    BY <1>2, <1>5 DEF Tokens, Bare
  <2>2. Len(t) = 1 /\ t[1] = c
    BY <2>1
  <2>3. src[p + 1] = c
    BY <1>3, <2>2
  <2>4. c \notin {"bs", "cr", "nul"}
    BY <1>5, Zenon
  <2>5. c # "bs" /\ c \notin {"cr", "nul"}
    BY <2>4
  <2>6. Len(f[i]) = p + 1
    BY <1>3, <2>2
  <2> QED BY <1>1, <1>2, <2>1, <2>3, <2>5, <2>6, Zenon
<1> QED BY <1>4, <1>5

\* There are no three quotes before the closing ones.
LEMMA NoEarlyEnd ==
  ASSUME NEW w, NEW src, NEW tok, NEW f, Closed(w, src, tok, f), NEW k \in 0..Len(tok), k < Len(tok),
         \A j \in 1..3 : src[Len(f[k]) + j] = "quote"
  PROVE  FALSE
<1> DEFINE n == Len(tok)
           p == Len(f[k])
<1>0. /\ n \in Nat /\ (n > 0 => tok[n] # Bare)
      /\ \A i \in 1..(n - 2) : ~(tok[i] = Bare /\ tok[i + 1] = Bare /\ tok[i + 2] = Bare)
      /\ p \in Nat
  <2>1. p \in Nat
    BY After, Zenon
  <2>2. tok \in Seq(Seq(Source)) /\ n \in Nat
    BY DEF Closed, Tokenised
  <2> QED BY <2>1, <2>2 DEF Closed, Tokenised
<1>1. src[p + 1] = "quote" /\ src[p + 2] = "quote" /\ src[p + 3] = "quote"
  OBVIOUS
<1>2. tok[k + 1] = Bare /\ Len(f[k + 1]) = p + 1 /\ k + 1 \in 1..n
  BY <1>1, NextToken
<1>3. k + 1 # n
  BY <1>0, <1>2
<1> DEFINE k2 == k + 1
<1>4. k2 \in 0..n /\ k2 < n /\ Len(f[k2]) = p + 1
  BY <1>0, <1>2, <1>3
<1>5. src[Len(f[k2]) + 1] = "quote"
  <2>1. (p + 1) + 1 = p + 2
    BY <1>0
  <2> QED BY <1>1, <1>4, <2>1
<1> HIDE DEF k2, p, n
<1>6. tok[k2 + 1] = Bare /\ Len(f[k2 + 1]) = Len(f[k2]) + 1 /\ k2 + 1 \in 1..n
  <2>1. "quote" # "bs"
    OBVIOUS
  <2> QED BY <1>4, <1>5, NextToken DEF n
<1>7. k2 + 1 # n
  BY <1>0, <1>6
<1> DEFINE k3 == k2 + 1
<1>8. k3 \in 0..n /\ k3 < n /\ Len(f[k3]) = p + 2
  BY <1>0, <1>4, <1>6, <1>7
<1>9. src[Len(f[k3]) + 1] = "quote"
  <2>1. (p + 2) + 1 = p + 3
    BY <1>0
  <2> QED BY <1>1, <1>8, <2>1
<1> HIDE DEF k3
<1>10. tok[k3 + 1] = Bare
  BY <1>8, <1>9, NextToken DEF n
<1>11. k + 1 \in 1..(n - 2) /\ k2 + 1 = (k + 1) + 1 /\ k3 + 1 = (k + 1) + 2
  BY <1>0, <1>2, <1>8 DEF k2, k3
<1> QED BY <1>0, <1>2, <1>6, <1>10, <1>11

\* Python reads src, has read rt of it and made val of it: k characters of w.
Reads(w, src, rt, val, tok, f, k) ==
  /\ Closed(w, src, tok, f)
  /\ k \in 0..Len(tok) /\ rt = Len(f[k]) /\ val = SubSeq(w, 1, k)

LEMMA ReadStarts ==
  ASSUME NEW w, NEW src, NEW tok, NEW f, Closed(w, src, tok, f)
  PROVE  Reads(w, src, 0, <<>>, tok, f, 0)
<1>1. tok \in Seq(Seq(Source)) /\ w \in Seq(Text) /\ Concatenates(f, tok, Source)
  BY DEF Closed, Tokenised
<1>2. f[0] = <<>> /\ SubSeq(w, 1, 0) = <<>>
  BY <1>1, PrefixFacts DEF Concatenates
<1>3. 0 \in 0..Len(tok)
  BY <1>1
<1> QED BY <1>2, <1>3 DEF Reads

\* A token read adds its character.
LEMMA ReadStep ==
  ASSUME NEW w, NEW src, NEW rt, NEW val, NEW tok, NEW f, NEW k, Reads(w, src, rt, val, tok, f, k),
         k < Len(tok)
  PROVE  Reads(w, src, Len(f[k + 1]), Append(val, w[k + 1]), tok, f, k + 1)
<1>1. /\ w \in Seq(Text) /\ tok \in Seq(Seq(Source)) /\ Len(w) = Len(tok) /\ Closed(w, src, tok, f)
      /\ k \in 0..Len(tok) /\ val = SubSeq(w, 1, k)
  BY DEF Reads, Closed, Tokenised
<1>2. k \in 0..(Len(w) - 1) /\ k + 1 \in 0..Len(tok)
  BY <1>1
<1>3. SubSeq(w, 1, k + 1) = Append(val, w[k + 1])
  BY <1>1, <1>2, PrefixFacts
<1> QED BY <1>1, <1>2, <1>3 DEF Reads

\* What Python finds next: the end when every character is read, and else a
\* token that is its character.
LEMMA ReadNext ==
  ASSUME NEW w, NEW src, NEW rt, NEW val, NEW tok, NEW f, NEW k, Reads(w, src, rt, val, tok, f, k)
  PROVE  /\ src \in Seq(Source) /\ rt \in Nat /\ Len(src) >= rt + 3
         /\ k = Len(tok) => /\ val = w /\ Len(src) = rt + 3
                            /\ \A j \in 1..3 : src[rt + j] = "quote"
         /\ k # Len(tok) => /\ k < Len(tok) /\ ~(\A j \in 1..3 : src[rt + j] = "quote")
<1>1. /\ w \in Seq(Text) /\ tok \in Seq(Seq(Source)) /\ Len(w) = Len(tok) /\ Closed(w, src, tok, f)
      /\ k \in 0..Len(tok) /\ val = SubSeq(w, 1, k) /\ rt = Len(f[k])
  BY DEF Reads, Closed, Tokenised
<1>2. /\ src \in Seq(Source) /\ Len(f[k]) \in Nat /\ Len(src) >= Len(f[k]) + 3
      /\ k = Len(tok) => Len(src) = Len(f[k]) + 3 /\ \A j \in 1..3 : src[Len(f[k]) + j] = "quote"
  BY <1>1, After
<1>3. k = Len(tok) => val = w
  BY <1>1, PrefixFacts
<1>4. k # Len(tok) => k < Len(tok)
  BY <1>1
<1>5. k # Len(tok) => ~(\A j \in 1..3 : src[rt + j] = "quote")
  BY <1>1, <1>4, NoEarlyEnd
<1> QED BY <1>1, <1>2, <1>3, <1>4, <1>5

-----------------------------------------------------------------------------
(* The invariant. *)

Encoding == \E done, tok : Encodes(Whole, pieces, at, quotes, source, done, tok)

Reading ==
  \E tok, f, k : Reads(Whole, source, readTo, value, tok, f, k) /\ (stage = "done" => k = Len(tok))

TextInv ==
  /\ site \in {"comment", "query", "sqlalchemy", "echo"} /\ text \in Seq(Text)
  /\ stage \in {"generate", "refused", "encode", "read", "done"}
  /\ stage \in {"generate", "encode"} => readTo = 0 /\ value = <<>>
  /\ stage = "generate" => quotes = 0 /\ source = <<>>
  /\ stage = "encode" => Encoding
  /\ stage \in {"read", "done"} => Reading

LEMMA TextInvInit == Init => TextInv
<1> SUFFICES ASSUME Init PROVE TextInv
  OBVIOUS
<1>1. text \in Seq(Text)
  <2>1. PICK n \in 0..MaxText : text \in [1..n -> Alphabet]
    BY DEF Init
  <2>2. Alphabet \subseteq Text /\ n \in Nat
    BY TextBounds, TextChars
  <2> QED BY <2>1, <2>2
<1>2. site \in {"comment", "query", "sqlalchemy", "echo"}
  BY TextBounds DEF Init
<1> QED BY <1>1, <1>2 DEF Init, TextInv

\* Generation starts the encoder before the first character.
LEMMA GenerateKeeps == TextInv /\ Generate => TextInv'
<1> SUFFICES ASSUME TextInv, Generate PROVE TextInv'
  OBVIOUS
<1>1. /\ site \in {"comment", "query", "sqlalchemy", "echo"} /\ text \in Seq(Text)
      /\ readTo = 0 /\ value = <<>> /\ quotes = 0 /\ source = <<>>
  BY DEF TextInv, Generate
<1>2. /\ site' = site /\ text' = text /\ quotes' = quotes /\ source' = source
      /\ readTo' = readTo /\ value' = value
  BY DEF Generate
<1>3. CASE stage' = "refused"
  BY <1>1, <1>2, <1>3 DEF TextInv
<1>4. CASE stage' # "refused"
  <2>1. stage' = "encode" /\ pieces' = Pieces /\ at' = 1
    BY <1>4 DEF Generate, Pieces
  <2>2. Pieces \in Seq(Seq(Text))
    BY <1>1, PiecesType DEF Pieces
  <2>3. Encodes(Whole, Pieces, 1, 0, <<>>, <<>>, <<>>)
    BY <2>2, EncodeStarts DEF Whole
  <2>4. Whole' = Whole
    BY <1>2 DEF Whole, Pieces
  <2>5. Encodes(Whole', pieces', at', quotes', source', <<>>, <<>>)
    BY <1>1, <1>2, <2>1, <2>3, <2>4
  <2>6. Encoding'
    BY <2>5 DEF Encoding
  <2> QED BY <1>1, <1>2, <2>1, <2>6 DEF TextInv
<1> QED BY <1>3, <1>4

\* Each character becomes a token.
LEMMA EncodeByteKeeps == TextInv /\ EncodeByte => TextInv'
<1> SUFFICES ASSUME TextInv, EncodeByte PROVE TextInv'
  OBVIOUS
<1>1. /\ site \in {"comment", "query", "sqlalchemy", "echo"} /\ text \in Seq(Text)
      /\ readTo = 0 /\ value = <<>> /\ stage = "encode" /\ Encoding
  BY DEF TextInv, EncodeByte
<1>2. /\ site' = site /\ text' = text /\ pieces' = pieces /\ stage' = stage
      /\ readTo' = readTo /\ value' = value /\ at' = at + 1
      /\ pieces # <<>> /\ at <= Len(Head(pieces))
  BY DEF EncodeByte
<1>3. PICK done, tok : Encodes(Whole, pieces, at, quotes, source, done, tok)
  BY <1>1 DEF Encoding
<1> DEFINE c == Head(pieces)[at]
           last == (at = Len(Head(pieces)))
           run == RunOf(c)
           q2 == IF c = "quote" /\ EscapesQuote(run, last) THEN 0 ELSE run
<1>4. source' = source \o Encoded(c, run, last) /\ quotes' = q2
  BY DEF EncodeByte
<1>5. run = IF c = "quote" THEN quotes + 1 ELSE 0
  BY DEF RunOf
<1>6. c = Head(pieces)[at] /\ last = (at = Len(Head(pieces)))
      /\ q2 = IF c = "quote" /\ EscapesQuote(run, last) THEN 0 ELSE run
  OBVIOUS
<1> HIDE DEF c, last, run, q2
<1>7. PICK d2, t2 : Encodes(Whole, pieces, at + 1, q2, source \o Encoded(c, run, last), d2, t2)
  BY <1>2, <1>3, <1>5, <1>6, EncodeStep
<1>8. Whole' = Whole
  BY <1>2 DEF Whole, Pieces
<1>9. Encodes(Whole', pieces', at', quotes', source', d2, t2)
  BY <1>2, <1>4, <1>7, <1>8
<1>10. Encoding'
  BY <1>9 DEF Encoding
<1> QED BY <1>1, <1>2, <1>10 DEF TextInv

\* No run of quotes is counted from one piece to the next.
LEMMA EndPieceKeeps == TextInv /\ EndPiece => TextInv'
<1> SUFFICES ASSUME TextInv, EndPiece PROVE TextInv'
  OBVIOUS
<1>1. /\ site \in {"comment", "query", "sqlalchemy", "echo"} /\ text \in Seq(Text)
      /\ readTo = 0 /\ value = <<>> /\ stage = "encode" /\ Encoding
  BY DEF TextInv, EndPiece
<1>2. /\ site' = site /\ text' = text /\ pieces' = Tail(pieces) /\ stage' = stage
      /\ readTo' = readTo /\ value' = value /\ at' = 1 /\ quotes' = 0 /\ source' = source
      /\ pieces # <<>> /\ at > Len(Head(pieces))
  BY DEF EndPiece
<1>3. PICK done, tok : Encodes(Whole, pieces, at, quotes, source, done, tok)
  BY <1>1 DEF Encoding
<1>4. Encodes(Whole, Tail(pieces), 1, 0, source, done, tok)
  BY <1>2, <1>3, PieceStep
<1>5. Whole' = Whole
  BY <1>2 DEF Whole, Pieces
<1>6. Encodes(Whole', pieces', at', quotes', source', done, tok)
  BY <1>2, <1>4, <1>5
<1>7. Encoding'
  BY <1>6 DEF Encoding
<1> QED BY <1>1, <1>2, <1>7 DEF TextInv

\* The closing quotes come when every character is encoded.
LEMMA CloseKeeps == TextInv /\ Close => TextInv'
<1> SUFFICES ASSUME TextInv, Close PROVE TextInv'
  OBVIOUS
<1>1. /\ site \in {"comment", "query", "sqlalchemy", "echo"} /\ text \in Seq(Text)
      /\ readTo = 0 /\ value = <<>> /\ stage = "encode" /\ Encoding
  BY DEF TextInv, Close
<1>2. /\ site' = site /\ text' = text /\ stage' = "read" /\ pieces = <<>>
      /\ readTo' = readTo /\ value' = value /\ source' = source \o Three
  BY DEF Close, Three
<1>3. PICK done, tok : Encodes(Whole, <<>>, at, quotes, source, done, tok)
  BY <1>1, <1>2 DEF Encoding
<1>4. PICK f : Closed(Whole, source \o Three, tok, f)
  BY <1>3, EncodeEnds
<1>5. Reads(Whole, source \o Three, 0, <<>>, tok, f, 0)
  BY <1>4, ReadStarts
<1>6. Whole' = Whole
  BY <1>2 DEF Whole, Pieces
<1>7. Reads(Whole', source', readTo', value', tok, f, 0)
  BY <1>1, <1>2, <1>5, <1>6
<1>8. Reading'
  BY <1>2, <1>7 DEF Reading
<1> QED BY <1>1, <1>2, <1>8 DEF TextInv

LEMMA Windows ==
  ASSUME NEW T, NEW s \in Seq(T), NEW r \in Nat, Len(s) >= r + 3
  PROVE  /\ SubSeq(s, r + 1, r + 1) = <<s[r + 1]>>
         /\ SubSeq(s, r + 1, r + 3) = <<s[r + 1], s[r + 2], s[r + 3]>>
<1> DEFINE a == SubSeq(s, r + 1, r + 1)
           b == SubSeq(s, r + 1, r + 3)
           a2 == <<s[r + 1]>>
           b2 == <<s[r + 1], s[r + 2], s[r + 3]>>
<1>0. /\ Len(s) \in Nat /\ r + 1 \in 1..Len(s) /\ r + 2 \in 1..Len(s) /\ r + 3 \in 1..Len(s)
      /\ s[r + 1] \in T /\ s[r + 2] \in T /\ s[r + 3] \in T
  OBVIOUS
<1>1. a \in Seq(T) /\ Len(a) = 1 /\ a[1] = s[r + 1]
  BY <1>0
<1>2. b \in Seq(T) /\ Len(b) = 3 /\ b[1] = s[r + 1] /\ b[2] = s[r + 2] /\ b[3] = s[r + 3]
  BY <1>0
<1>3. a2 \in Seq(T) /\ Len(a2) = 1 /\ a2[1] = s[r + 1]
  BY <1>0
<1>4. b2 \in Seq(T) /\ Len(b2) = 3 /\ b2[1] = s[r + 1] /\ b2[2] = s[r + 2] /\ b2[3] = s[r + 3]
  BY <1>0
<1> HIDE DEF a, b, a2, b2
<1>5. (\A i \in 1..Len(a) : a[i] = a2[i]) /\ (\A i \in 1..Len(b) : b[i] = b2[i])
  BY <1>1, <1>2, <1>3, <1>4
<1>6. a = a2
  BY <1>1, <1>3, <1>5, SeqEqual
<1>7. b = b2
  BY <1>2, <1>4, <1>5, SeqEqual
<1> QED BY <1>6, <1>7 DEF a, b, a2, b2

LEMMA AheadIs ==
  ASSUME source \in Seq(Source), readTo \in Nat, Len(source) >= readTo + 3
  PROVE  /\ Ahead(1) = <<source[readTo + 1]>>
         /\ Closing <=> \A j \in 1..3 : source[readTo + j] = "quote"
<1>1. Len(source) \in Nat
  OBVIOUS
<1>2. Ahead(1) = <<source[readTo + 1]>>
  BY Windows DEF Ahead
<1>3. Ahead(3) = <<source[readTo + 1], source[readTo + 2], source[readTo + 3]>>
  BY Windows DEF Ahead
<1>4. Closing <=> Ahead(3) = Three
  BY DEF Closing, Three
<1>5. Ahead(3) = Three <=> \A j \in 1..3 : source[readTo + j] = "quote"
  <2>1. Ahead(3) = Three <=> source[readTo + 1] = "quote" /\ source[readTo + 2] = "quote" /\ source[readTo + 3] = "quote"
    BY <1>3 DEF Three
  <2> QED BY <2>1
<1> QED BY <1>2, <1>4, <1>5

\* Before a token, what was read and the character it is.
LEMMA ValueGrows ==
  ASSUME NEW tok, NEW f, NEW k, Reads(Whole, source, readTo, value, tok, f, k), k < Len(tok)
  PROVE  /\ readTo = Len(f[k]) /\ k \in 0..Len(tok) /\ Closed(Whole, source, tok, f)
         /\ Append(value, Whole[k + 1]) = value \o <<Whole[k + 1]>>
         /\ k + 1 <= Len(tok)
<1>1. /\ readTo = Len(f[k]) /\ k \in 0..Len(tok) /\ Closed(Whole, source, tok, f)
      /\ value = SubSeq(Whole, 1, k)
  BY DEF Reads
<1>2. Whole \in Seq(Text) /\ Len(Whole) = Len(tok) /\ Len(tok) \in Nat
  <2>1. Whole \in Seq(Text) /\ Len(Whole) = Len(tok) /\ tok \in Seq(Seq(Source))
    BY <1>1 DEF Closed, Tokenised
  <2> QED BY <2>1
<1>3. value \in Seq(Text)
  BY <1>1, <1>2, PrefixFacts
<1>4. k + 1 \in 1..Len(Whole)
  BY <1>1, <1>2
<1>5. Whole[k + 1] \in Text
  BY <1>2, <1>4
<1>6. Append(value, Whole[k + 1]) = value \o <<Whole[k + 1]>>
  BY <1>3, <1>5, AppendIsConcat
<1> QED BY <1>1, <1>2, <1>4, <1>6

\* A backslash begins an escape the generator wrote.
LEMMA ReadEscapeKeeps == TextInv /\ ReadEscape => TextInv'
<1> SUFFICES ASSUME TextInv, ReadEscape PROVE TextInv'
  OBVIOUS
<1>1. /\ site \in {"comment", "query", "sqlalchemy", "echo"} /\ text \in Seq(Text)
      /\ stage = "read" /\ Reading
  BY DEF TextInv, ReadEscape
<1>2. /\ site' = site /\ text' = text /\ stage' = stage /\ source' = source
      /\ readTo' = readTo + 2 /\ value' = value \o Unescaped(source[readTo + 2])
      /\ Ahead(1) = <<"bs">>
  BY DEF ReadEscape
<1>3. PICK tok, f, k : Reads(Whole, source, readTo, value, tok, f, k)
  BY <1>1 DEF Reading
<1>4. /\ source \in Seq(Source) /\ readTo \in Nat /\ Len(source) >= readTo + 3
      /\ k = Len(tok) => \A j \in 1..3 : source[readTo + j] = "quote"
      /\ k # Len(tok) => k < Len(tok)
  BY <1>3, ReadNext
<1>5. source[readTo + 1] = "bs"
  <2>1. <<source[readTo + 1]>> = <<"bs">>
    BY <1>2, <1>4, AheadIs
  <2> QED BY <2>1
<1>6. k < Len(tok)
  <2>1. 1 \in 1..3 /\ "quote" # "bs"
    OBVIOUS
  <2> QED BY <1>4, <1>5, <2>1
<1>7. /\ readTo = Len(f[k]) /\ k \in 0..Len(tok) /\ Closed(Whole, source, tok, f)
      /\ Append(value, Whole[k + 1]) = value \o <<Whole[k + 1]>>
  BY <1>3, <1>6, ValueGrows
<1>8. Unescaped(source[readTo + 2]) = <<Whole[k + 1]>> /\ Len(f[k + 1]) = readTo + 2
  BY <1>5, <1>6, <1>7, NextToken
<1>9. Reads(Whole, source, Len(f[k + 1]), Append(value, Whole[k + 1]), tok, f, k + 1)
  BY <1>3, <1>6, ReadStep
<1>10. Whole' = Whole
  BY <1>2 DEF Whole, Pieces
<1>11. Reads(Whole', source', readTo', value', tok, f, k + 1)
  BY <1>2, <1>7, <1>8, <1>9, <1>10
<1>12. Reading'
  BY <1>1, <1>2, <1>11 DEF Reading
<1> QED BY <1>1, <1>2, <1>12 DEF TextInv

\* Any other character is its own value.
LEMMA ReadCharKeeps == TextInv /\ ReadChar => TextInv'
<1> SUFFICES ASSUME TextInv, ReadChar PROVE TextInv'
  OBVIOUS
<1>1. /\ site \in {"comment", "query", "sqlalchemy", "echo"} /\ text \in Seq(Text)
      /\ stage = "read" /\ Reading
  BY DEF TextInv, ReadChar
<1>2. /\ site' = site /\ text' = text /\ source' = source
      /\ Ahead(1) # <<"bs">> /\ ~Closing
  BY DEF ReadChar
<1>3. PICK tok, f, k : Reads(Whole, source, readTo, value, tok, f, k)
  BY <1>1 DEF Reading
<1>4. /\ source \in Seq(Source) /\ readTo \in Nat /\ Len(source) >= readTo + 3
      /\ k = Len(tok) => \A j \in 1..3 : source[readTo + j] = "quote"
      /\ k # Len(tok) => k < Len(tok)
  BY <1>3, ReadNext
<1>5. /\ Ahead(1) = <<source[readTo + 1]>>
      /\ Closing <=> \A j \in 1..3 : source[readTo + j] = "quote"
  BY <1>4, AheadIs
<1>6. source[readTo + 1] # "bs"
  BY <1>2, <1>5
<1>7. k < Len(tok)
  BY <1>2, <1>4, <1>5
<1>8. /\ readTo = Len(f[k]) /\ k \in 0..Len(tok) /\ Closed(Whole, source, tok, f)
      /\ Append(value, Whole[k + 1]) = value \o <<Whole[k + 1]>>
  BY <1>3, <1>7, ValueGrows
<1>9. /\ source[readTo + 1] = Whole[k + 1] /\ Whole[k + 1] \notin {"cr", "nul"}
      /\ Len(f[k + 1]) = readTo + 1
  BY <1>6, <1>7, <1>8, NextToken
<1>10. stage' = stage /\ value' = value \o <<Whole[k + 1]>> /\ readTo' = readTo + 1
  <2>1. Ahead(1) = <<Whole[k + 1]>>
    BY <1>5, <1>9
  <2>2. Ahead(1) # <<"nul">> /\ Ahead(1) # <<"cr">>
    BY <1>9, <2>1
  <2>3. stage' = stage /\ value' = value \o Ahead(1) /\ readTo' = readTo + 1
    BY <2>2, Zenon DEF ReadChar
  <2> QED BY <2>1, <2>3
<1>11. Reads(Whole, source, Len(f[k + 1]), Append(value, Whole[k + 1]), tok, f, k + 1)
  BY <1>3, <1>7, ReadStep
<1>12. Whole' = Whole
  BY <1>2 DEF Whole, Pieces
<1>13. Reads(Whole', source', readTo', value', tok, f, k + 1)
  BY <1>2, <1>8, <1>9, <1>10, <1>11, <1>12
<1>14. Reading'
  BY <1>1, <1>10, <1>13 DEF Reading
<1> QED BY <1>1, <1>2, <1>10, <1>14 DEF TextInv

\* Three quotes are the end, and nothing follows them.
LEMMA ReadEndKeeps == TextInv /\ ReadEnd => TextInv'
<1> SUFFICES ASSUME TextInv, ReadEnd PROVE TextInv'
  OBVIOUS
<1>1. /\ site \in {"comment", "query", "sqlalchemy", "echo"} /\ text \in Seq(Text)
      /\ stage = "read" /\ Reading
  BY DEF TextInv, ReadEnd
<1>2. /\ site' = site /\ text' = text /\ source' = source /\ readTo' = readTo /\ value' = value
      /\ \/ Closing /\ stage' = IF Len(source) = readTo + 3 THEN "done" ELSE "broken"
         \/ Len(source) = readTo /\ stage' = "broken"
  BY DEF ReadEnd
<1>3. PICK tok, f, k : Reads(Whole, source, readTo, value, tok, f, k)
  BY <1>1 DEF Reading
<1>4. /\ source \in Seq(Source) /\ readTo \in Nat /\ Len(source) >= readTo + 3
      /\ k = Len(tok) => Len(source) = readTo + 3
      /\ k # Len(tok) => ~(\A j \in 1..3 : source[readTo + j] = "quote")
  BY <1>3, ReadNext
<1>5. Closing <=> \A j \in 1..3 : source[readTo + j] = "quote"
  BY <1>4, AheadIs
<1>6. Len(source) # readTo
  BY <1>4
<1>7. k = Len(tok) /\ stage' = "done"
  BY <1>2, <1>4, <1>5, <1>6
<1>8. Whole' = Whole
  BY <1>2 DEF Whole, Pieces
<1>9. Reads(Whole', source', readTo', value', tok, f, k)
  BY <1>2, <1>3, <1>8
<1>10. Reading'
  BY <1>7, <1>9 DEF Reading
<1> QED BY <1>1, <1>2, <1>7, <1>10 DEF TextInv

LEMMA TextInvSteps == TextInv /\ [Next]_vars => TextInv'
<1>1. ASSUME TextInv, UNCHANGED vars PROVE TextInv'
  <2>1. /\ site' = site /\ text' = text /\ pieces' = pieces /\ at' = at /\ quotes' = quotes
        /\ source' = source /\ readTo' = readTo /\ value' = value /\ stage' = stage
    BY <1>1 DEF vars
  <2>2. Whole' = Whole
    BY <2>1 DEF Whole, Pieces
  <2>3. Encoding => Encoding'
    BY <2>1, <2>2, Zenon DEF Encoding
  <2>4. Reading => Reading'
    BY <2>1, <2>2, Zenon DEF Reading
  <2> QED BY <1>1, <2>1, <2>3, <2>4 DEF TextInv
<1> QED BY <1>1, GenerateKeeps, EncodeByteKeeps, EndPieceKeeps, CloseKeeps,
           ReadEscapeKeeps, ReadCharKeeps, ReadEndKeeps DEF Next

\* README.md:80-85 and docstrings.go:392, for every text of every length: Python
\* finds the end of a generated string where PyTripleQuotedText put it, reads
\* the text that was encoded, and the docstring of a function shows the whole
\* of an SQL whose lines fit the scanner.
THEOREM TextReachesPython == Spec => []ReachesPython
<1>1. TextInv => ReachesPython
  <2> SUFFICES ASSUME TextInv PROVE ReachesPython
    OBVIOUS
  <2>1. stage # "broken"
    BY DEF TextInv
  <2>2. ASSUME stage = "done" PROVE value = Whole
    <3>1. PICK tok, f, k : Reads(Whole, source, readTo, value, tok, f, k) /\ k = Len(tok)
      BY <2>2 DEF TextInv, Reading
    <3> QED BY <3>1, ReadNext
  <2>3. ASSUME stage = "done", site = "echo", LinesFit(text) PROVE Shown(value) = Shown(text)
    <3>1. text \in Seq(Text)
      BY DEF TextInv
    <3>2. value = FlattenSeq(EchoLines(text))
      BY <2>2, <2>3 DEF Whole, Pieces, PiecesOf
    <3> QED BY <2>3, <3>1, <3>2, EchoShows
  <2> QED BY <2>1, <2>2, <2>3 DEF ReachesPython, Whole, Pieces
<1> QED BY <1>1, TextInvInit, TextInvSteps, PTL DEF Spec

-----------------------------------------------------------------------------
(* What sqlalchemy.text() makes of the characters of a value. *)

Sent == Text \cup {"parameter", "unknown bind"}

\* What Delivered has for the character at i.
DeliveredAt(s, i) ==
  CASE NamesBind(s, i)                                 -> <<>>
    [] i > 1 /\ NamesBind(s, i - 1)                    -> IF s[i] = "bind" THEN <<"parameter">> ELSE <<"unknown bind">>
    [] EscapesColon(s, i)                              -> <<>>
    [] OTHER                                           -> <<s[i]>>

LEMMA DeliveredParts ==
  ASSUME NEW v \in Seq(Text)
  PROVE  /\ [i \in 1..Len(v) |-> DeliveredAt(v, i)] \in Seq(Seq(Sent))
         /\ Delivered(v) = FlattenSeq([i \in 1..Len(v) |-> DeliveredAt(v, i)])
<1> DEFINE g == [i \in 1..Len(v) |-> DeliveredAt(v, i)]
<1>1. Delivered(v) = FlattenSeq(g)
  BY Zenon DEF Delivered, DeliveredAt
<1>2. Len(v) \in Nat /\ \A i \in 1..Len(v) : v[i] \in Text
  OBVIOUS
<1>3. ASSUME NEW i \in 1..Len(v) PROVE DeliveredAt(v, i) \in Seq(Sent)
  <2>1. DeliveredAt(v, i) \in {<<>>, <<"parameter">>, <<"unknown bind">>, <<v[i]>>}
    <3> DEFINE a == NamesBind(v, i)
               b == i > 1 /\ NamesBind(v, i - 1)
               c == EscapesColon(v, i)
    <3> HIDE DEF a, b, c
    <3> QED BY DEF DeliveredAt, a, b, c
  <2>2. v[i] \in Sent /\ "parameter" \in Sent /\ "unknown bind" \in Sent
    BY <1>2 DEF Sent
  <2>3. \A c \in Sent : <<c>> \in Seq(Sent)
    OBVIOUS
  <2>4. <<>> \in Seq(Sent)
    OBVIOUS
  <2> QED BY <2>1, <2>2, <2>3, <2>4, Zenon
<1>4. DOMAIN g = 1..Len(v) /\ g = [i \in 1..Len(v) |-> g[i]]
  OBVIOUS
<1>5. \A i \in 1..Len(v) : g[i] \in Seq(Sent)
  BY <1>3
<1> HIDE DEF g
<1>6. g \in Seq(Seq(Sent))
  BY <1>2, <1>4, <1>5, ListOfParts
<1> QED BY <1>1, <1>6 DEF g

\* Neither part of a bind nor of an escaped colon.
LEMMA CharDelivered ==
  ASSUME NEW v \in Seq(Text), NEW p \in 1..Len(v),
         v[p] = "colon" => p < Len(v) /\ v[p + 1] = "space",
         p > 1 /\ v[p - 1] = "colon" => v[p] = "space" \/ (p > 2 /\ v[p - 2] = "bs"),
         v[p] = "bs" /\ p < Len(v) => v[p + 1] # "colon"
  PROVE  DeliveredAt(v, p) = <<v[p]>>
<1>1. ~NamesBind(v, p)
  BY DEF NamesBind
<1>2. p > 1 => ~NamesBind(v, p - 1)
  BY DEF NamesBind
<1>3. ~EscapesColon(v, p)
  BY DEF EscapesColon
<1> QED BY <1>1, <1>2, <1>3 DEF DeliveredAt

\* An escaped colon.
LEMMA ColonDelivered ==
  ASSUME NEW v \in Seq(Text), NEW p \in 1..Len(v), p < Len(v),
         v[p] = "bs", v[p + 1] = "colon",
         p + 1 < Len(v) => v[p + 2] \notin {"colon", "ph"}
  PROVE  DeliveredAt(v, p) = <<>> /\ DeliveredAt(v, p + 1) = <<"colon">>
<1>1. ~NamesBind(v, p) /\ ~NamesBind(v, p + 1)
  BY DEF NamesBind
<1>2. p > 1 => ~NamesBind(v, p - 1)
  BY DEF NamesBind
<1>3. EscapesColon(v, p) /\ ~EscapesColon(v, p + 1)
  BY DEF EscapesColon
<1>4. DeliveredAt(v, p) = <<>>
  BY <1>1, <1>2, <1>3 DEF DeliveredAt
<1>5. (p + 1) - 1 = p
  OBVIOUS
<1>6. DeliveredAt(v, p + 1) = <<v[p + 1]>>
  BY <1>1, <1>3, <1>5 DEF DeliveredAt
<1> QED BY <1>4, <1>6

\* The bind of a placeholder.
LEMMA BindDelivered ==
  ASSUME NEW v \in Seq(Text), NEW p \in 1..Len(v), p < Len(v),
         v[p] = "colon", v[p + 1] = "bind",
         p + 1 < Len(v) => v[p + 2] \notin {"colon", "ph"},
         p > 1 => v[p - 1] \notin {"word", "ph", "bind", "colon", "bs"}
  PROVE  DeliveredAt(v, p) = <<>> /\ DeliveredAt(v, p + 1) = <<"parameter">>
<1>1. NamesBind(v, p) /\ ~NamesBind(v, p + 1)
  BY DEF NamesBind
<1>2. p > 1 => ~NamesBind(v, p - 1)
  BY DEF NamesBind
<1>3. ~EscapesColon(v, p) /\ ~EscapesColon(v, p + 1)
  BY DEF EscapesColon
<1>4. DeliveredAt(v, p) = <<>>
  BY <1>1, <1>2, <1>3 DEF DeliveredAt
<1>5. (p + 1) - 1 = p /\ p + 1 > 1
  OBVIOUS
<1>6. DeliveredAt(v, p + 1) = IF v[p + 1] = "bind" THEN <<"parameter">> ELSE <<"unknown bind">>
  <2> DEFINE q == p + 1
  <2>1. ~NamesBind(v, q) /\ NamesBind(v, q - 1) /\ q > 1 /\ ~EscapesColon(v, q)
    BY <1>1, <1>3, <1>5
  <2> HIDE DEF q
  <2>2. DeliveredAt(v, q) = IF v[q] = "bind" THEN <<"parameter">> ELSE <<"unknown bind">>
    BY <2>1 DEF DeliveredAt
  <2> QED BY <2>2 DEF q
<1> QED BY <1>4, <1>6

-----------------------------------------------------------------------------
(* The rewrite. *)

\* What the rewrite makes of a character.
Rewritten(c) ==
  IF c = "colon" THEN <<"bs", "colon">>
  ELSE IF c = "ph" THEN <<"colon", "bind">>
  ELSE <<c>>

EscapedColon(c) == IF c = "colon" THEN <<"bs", "colon">> ELSE <<c>>

\* x is made of the rewrite of each character of s.
Rewrites(x, s) == Len(x) = Len(s) /\ \A i \in 1..Len(s) : x[i] = Rewritten(s[i])

RewrittenParts(s) == [i \in 1..Len(s) |-> Rewritten(s[i])]

LEMMA RewrittenPartsAre ==
  ASSUME NEW s \in Seq(Text)
  PROVE  RewrittenParts(s) \in Seq(Seq(Text)) /\ Rewrites(RewrittenParts(s), s)
<1> DEFINE g == [i \in 1..Len(s) |-> Rewritten(s[i])]
<1>1. Len(s) \in Nat /\ \A i \in 1..Len(s) : s[i] \in Text
  OBVIOUS
<1>2. "bs" \in Text /\ "colon" \in Text /\ "bind" \in Text
  BY TextChars
<1>3. \A i \in 1..Len(s) : g[i] \in Seq(Text)
  BY <1>1, <1>2 DEF Rewritten
<1>4. DOMAIN g = 1..Len(s) /\ g = [i \in 1..Len(s) |-> g[i]] /\ \A i \in 1..Len(s) : g[i] = Rewritten(s[i])
  OBVIOUS
<1> HIDE DEF g
<1>5. g \in Seq(Seq(Text)) /\ Len(g) = Len(s)
  BY <1>1, <1>3, <1>4, ListOfParts
<1>6. Rewrites(g, s)
  BY <1>4, <1>5 DEF Rewrites
<1> QED BY <1>5, <1>6 DEF g, RewrittenParts

LEMMA PairIs ==
  ASSUME NEW T, NEW p \in T, NEW q \in T
  PROVE  <<p>> \o <<q>> = <<p, q>> /\ <<>> \o <<q>> = <<q>>
<1>1. <<p>> \in Seq(T) /\ <<q>> \in Seq(T) /\ <<p, q>> = Append(<<p>>, q)
  OBVIOUS
<1>2. Append(<<p>>, q) = <<p>> \o <<q>>
  BY <1>1, AppendIsConcat
<1>3. <<>> \o <<q>> = <<q>>
  BY <1>1, ConcatEmptySeq
<1> QED BY <1>1, <1>2, <1>3

\* A placeholder touches no word, so that the second step of the rewrite finds
\* it, behind whatever the first step left.
LEMMA RewriteIs ==
  ASSUME NEW s \in Seq(Text), Sql(s)
  PROVE  RewriteSQL(s) = FlattenSeq(RewrittenParts(s))
<1> DEFINE e == EscapeColons(s)
           x == [i \in 1..Len(s) |-> EscapedColon(s[i])]
           y == [p \in 1..Len(e) |->
                   IF e[p] = "ph" /\ (p > 1 => ~WordChar(e[p - 1])) THEN <<"colon", "bind">> ELSE <<e[p]>>]
           z == RewrittenParts(s)
<1>1. RewriteSQL(s) = FlattenSeq(y)
  BY Zenon DEF RewriteSQL, PlaceholdersToBinds
<1>2. e = FlattenSeq(x)
  BY Zenon DEF EscapeColons, EscapedColon
<1>3. e \in Seq(Text)
  BY EscapeColonsType
<1>4. z \in Seq(Seq(Text)) /\ Rewrites(z, s)
  BY RewrittenPartsAre
<1>5. Len(s) \in Nat /\ (\A i \in 1..Len(s) : s[i] \in Text) /\ "bs" \in Text /\ "colon" \in Text /\ "bind" \in Text
  BY TextChars
<1>6. \A i \in 1..Len(s) : x[i] = EscapedColon(s[i])
  OBVIOUS
<1>7. x \in Seq(Seq(Text)) /\ Len(x) = Len(s)
  <2>1. \A i \in 1..Len(s) : x[i] \in Seq(Text)
    BY <1>5 DEF EscapedColon
  <2>2. DOMAIN x = 1..Len(s) /\ x = [i \in 1..Len(s) |-> x[i]]
    OBVIOUS
  <2> HIDE DEF x
  <2> QED BY <1>5, <2>1, <2>2, ListOfParts
<1> HIDE DEF e
<1>8. y \in Seq(Seq(Text)) /\ Len(y) = Len(e)
  <2>1. Len(e) \in Nat /\ \A p \in 1..Len(e) : e[p] \in Text
    BY <1>3
  <2>2. \A p \in 1..Len(e) : y[p] \in Seq(Text)
    BY <1>5, <2>1
  <2>3. DOMAIN y = 1..Len(e) /\ y = [p \in 1..Len(e) |-> y[p]]
    OBVIOUS
  <2> HIDE DEF y
  <2> QED BY <2>1, <2>2, <2>3, ListOfParts
<1>9. \A p \in 1..Len(e) :
        y[p] = IF e[p] = "ph" /\ (p > 1 => ~WordChar(e[p - 1])) THEN <<"colon", "bind">> ELSE <<e[p]>>
  OBVIOUS
<1> HIDE DEF x, y, z
<1>10. PICK f : Concatenates(f, x, Text)
  BY <1>7, ConcatenationExists
<1>11. e = f[Len(x)]
  BY <1>2, <1>7, <1>10, FlattenConcatenates
<1>12. \A k \in 1..Len(x) : Len(x[k]) >= 1
  <2> TAKE k \in 1..Len(x)
  <2>1. x[k] = EscapedColon(s[k])
    BY <1>6, <1>7
  <2> QED BY <2>1 DEF EscapedColon
<1>13. ASSUME NEW k \in 1..Len(x)
       PROVE  \/ Len(x[k]) = 1 /\ z[k] = y[Len(f[k - 1]) + 1]
              \/ Len(x[k]) = 2 /\ z[k] = y[Len(f[k - 1]) + 1] \o y[Len(f[k - 1]) + 2]
  <2> DEFINE a == Len(f[k - 1])
             c == s[k]
  <2>1. Borders(x, f, e, k)
    BY <1>7, <1>10, <1>11, <1>12, PartBorders
  <2>2. /\ x[k] = EscapedColon(c) /\ z[k] = Rewritten(c) /\ k \in 1..Len(s)
        /\ k > 1 => x[k - 1] = EscapedColon(s[k - 1])
    <3>1. k \in 1..Len(s) /\ (k > 1 => k - 1 \in 1..Len(s))
      BY <1>5, <1>7
    <3> QED BY <1>4, <1>6, <3>1 DEF Rewrites
  <2>3. /\ a \in Nat /\ a + Len(x[k]) <= Len(e) /\ Len(e) \in Nat
        /\ \A j \in 1..Len(x[k]) : e[a + j] = x[k][j]
        /\ k = 1 => a = 0
        /\ k > 1 => e[a] = x[k - 1][Len(x[k - 1])]
    <3>1. /\ a \in Nat /\ Len(f[k]) = a + Len(x[k]) /\ Len(f[k]) <= Len(e)
          /\ \A j \in 1..Len(x[k]) : e[a + j] = x[k][j]
          /\ k = 1 => a = 0
          /\ k > 1 => e[a] = x[k - 1][Len(x[k - 1])]
      BY <2>1, Zenon DEF Borders
    <3>2. Len(e) \in Nat
      BY <1>3
    <3> HIDE DEF a
    <3>3. a + Len(x[k]) <= Len(e)
      BY <3>1, <3>2
    <3> QED BY <3>1, <3>2, <3>3, Zenon
  <2> HIDE DEF a, c
  <2>4. CASE c = "colon"
    <3>1. x[k] = <<"bs", "colon">> /\ Len(x[k]) = 2 /\ z[k] = <<"bs", "colon">>
      BY <2>2, <2>4 DEF EscapedColon, Rewritten
    <3>2. /\ a + 1 \in 1..Len(e) /\ e[a + 1] = "bs" /\ a + 2 \in 1..Len(e) /\ e[a + 2] = "colon"
      BY <2>3, <3>1
    <3>3. y[a + 1] = <<"bs">> /\ y[a + 2] = <<"colon">>
      BY <1>9, <3>2
    <3>4. y[a + 1] \o y[a + 2] = <<"bs", "colon">>
      <4>1. <<"bs">> \o <<"colon">> = <<"bs", "colon">>
        BY <1>5, PairIs, Zenon
      <4> QED BY <3>3, <4>1
    <3> QED BY <3>1, <3>4 DEF a
  <2>5. CASE c = "ph"
    <3>1. x[k] = <<"ph">> /\ Len(x[k]) = 1 /\ z[k] = <<"colon", "bind">>
      BY <2>2, <2>5 DEF EscapedColon, Rewritten
    <3>2. a + 1 \in 1..Len(e) /\ e[a + 1] = "ph" /\ (a + 1) - 1 = a
      BY <2>3, <3>1
    <3>3. ASSUME a + 1 > 1 PROVE ~WordChar(e[a])
      <4>1. k > 1
        BY <2>2, <2>3, <3>3
      <4>2. ~WordChar(s[k - 1])
        <5>1. k - 1 \in 1..Len(s) - 1 /\ (k - 1) + 1 = k
          BY <1>5, <2>2, <4>1
        <5>2. ~(WordChar(s[k - 1]) /\ s[k] = "ph")
          BY <5>1 DEF Sql
        <5> QED BY <2>5, <5>2 DEF c
      <4>3. e[a] = x[k - 1][Len(x[k - 1])] /\ x[k - 1] = EscapedColon(s[k - 1])
        BY <2>2, <2>3, <4>1
      <4>4. e[a] = s[k - 1]
        BY <4>3 DEF EscapedColon
      <4> QED BY <4>2, <4>4
    <3>4. y[a + 1] = <<"colon", "bind">>
      BY <1>9, <3>2, <3>3
    <3> QED BY <3>1, <3>4 DEF a
  <2>6. CASE c \notin {"colon", "ph"}
    <3>1. x[k] = <<c>> /\ Len(x[k]) = 1 /\ z[k] = <<c>>
      BY <2>2, <2>6 DEF EscapedColon, Rewritten
    <3>2. a + 1 \in 1..Len(e) /\ e[a + 1] = c
      BY <2>3, <3>1
    <3>3. y[a + 1] = <<c>>
      BY <1>9, <2>6, <3>2
    <3> QED BY <3>1, <3>3 DEF a
  <2> QED BY <2>4, <2>5, <2>6
<1>14. Regroups(x, f, y, z)
  BY <1>13 DEF Regroups
<1>15. FlattenSeq(y) = FlattenSeq(z)
  BY <1>4, <1>7, <1>8, <1>10, <1>11, <1>14, Regrouped DEF Rewrites
<1> QED BY <1>1, <1>15 DEF z

\* What is written for the character at k of the query's string: the colon of
\* `-- name:' is at 2, and stays as it is.
WrittenAt(w, k) == IF k = 2 THEN <<"colon">> ELSE Rewritten(w[k])

\* x is made of what is written for each character of w, and v is all of it.
Writes(x, w, v) ==
  /\ x \in Seq(Seq(Text)) /\ w \in Seq(Text) /\ Len(x) = Len(w) /\ Len(w) >= 2
  /\ \A k \in 1..Len(w) : x[k] = WrittenAt(w, k)
  /\ v = FlattenSeq(x)

LEMMA WritesMore ==
  ASSUME NEW x, NEW w, NEW v, Writes(x, w, v),
         NEW y \in Seq(Seq(Text)), NEW u \in Seq(Text), Rewrites(y, u)
  PROVE  Writes(x \o y, w \o u, v \o FlattenSeq(y))
<1> DEFINE A == Seq(Text)
           xy == x \o y
           wu == w \o u
<1>1. /\ x \in Seq(A) /\ w \in A /\ Len(x) = Len(w) /\ Len(w) >= 2
      /\ \A k \in 1..Len(w) : x[k] = WrittenAt(w, k)
  BY Zenon DEF Writes
<1>2. FlattenSeq(x \o y) = v \o FlattenSeq(y)
  BY <1>1, FlattenConcat, Zenon DEF Writes
<1>3. /\ wu \in A /\ Len(wu) = Len(w) + Len(u) /\ Len(w) \in Nat /\ Len(u) \in Nat
      /\ \A p \in 1..Len(w) : wu[p] = w[p]
      /\ \A k \in 1..Len(u) : wu[Len(w) + k] = u[k]
  BY <1>1, ConcatElements
<1>4. y \in Seq(A) /\ Len(y) = Len(u) /\ \A k \in 1..Len(u) : y[k] = Rewritten(u[k])
  BY Zenon DEF Rewrites
<1> HIDE DEF A
<1>5. /\ xy \in Seq(A) /\ Len(xy) = Len(x) + Len(y)
      /\ \A p \in 1..Len(x) : xy[p] = x[p]
      /\ \A k \in 1..Len(y) : xy[Len(x) + k] = y[k]
  <2>1. x \in Seq(A) /\ y \in Seq(A)
    BY <1>1, <1>4
  <2> QED BY <2>1, ConcatElements, SMTT(30)
<1> HIDE DEF xy, wu
<1>6. ASSUME NEW k \in 1..Len(wu) PROVE xy[k] = WrittenAt(wu, k)
  <2>1. CASE k <= Len(w)
    <3>1. k \in 1..Len(w)
      BY <1>3, <2>1
    <3>2. xy[k] = WrittenAt(w, k) /\ wu[k] = w[k]
      BY <1>1, <1>3, <1>5, <3>1
    <3> QED BY <3>2 DEF WrittenAt
  <2>2. CASE k > Len(w)
    <3> DEFINE i == k - Len(w)
    <3>1. i \in 1..Len(u) /\ k = Len(w) + i /\ k # 2
      BY <1>1, <1>3, <2>2
    <3> HIDE DEF i
    <3>2. xy[k] = Rewritten(u[i]) /\ wu[k] = u[i]
      BY <1>1, <1>3, <1>4, <1>5, <3>1
    <3> QED BY <3>1, <3>2 DEF WrittenAt
  <2> QED BY <1>3, <2>1, <2>2
<1>7. xy \in Seq(A) /\ wu \in A /\ Len(xy) = Len(wu) /\ Len(wu) >= 2
  BY <1>1, <1>3, <1>4, <1>5
<1>8. Writes(xy, wu, v \o FlattenSeq(y))
  BY <1>2, <1>6, <1>7 DEF Writes, A, xy
<1> QED BY <1>8 DEF xy, wu

\* The first five characters of the header are written as they are.
LEMMA HeaderWritten ==
  Writes([k \in 1..Len(Header) |-> <<Header[k]>>], Header, Header)
<1> DEFINE x == [k \in 1..Len(Header) |-> <<Header[k]>>]
<1>1. Header \in Seq(Text) /\ Len(Header) = 5
  BY TextChars DEF Header
<1>2. x \in Seq(Seq(Text)) /\ FlattenSeq(x) = Header
  BY <1>1, FlattenSingles
<1>3. Len(x) = 5
  BY <1>1
<1>4. \A k \in 1..5 : x[k] = WrittenAt(Header, k)
  BY <1>1 DEF WrittenAt, Rewritten, Header
<1> HIDE DEF x
<1>5. Writes(x, Header, Header)
  BY <1>1, <1>2, <1>3, <1>4 DEF Writes
<1> QED BY <1>5 DEF x

Queried(s) == Header \o Verb \o <<"lf">> \o s \o <<"lf">>

\* What Python reads as the query of an SQL text.
LEMMA QueryWritten ==
  ASSUME NEW s \in Seq(Text), Sql(s)
  PROVE  \E x : Writes(x, Queried(s), FlattenSeq(PiecesOf("sqlalchemy", s)))
<1> DEFINE lf == <<"lf">>
           lfs == <<lf>>
           verb == [i \in 1..Len(Verb) |-> EscapedColon(Verb[i])]
           sql == RewrittenParts(s)
           head == [k \in 1..Len(Header) |-> <<Header[k]>>]
<1>1. lf \in Seq(Text) /\ lfs \in Seq(Seq(Text)) /\ Rewrites(lfs, lf) /\ FlattenSeq(lfs) = lf
  <2>1. lf \in Seq(Text)
    BY TextChars
  <2>2. lfs \in Seq(Seq(Text))
    <3> DEFINE A == Seq(Text)
    <3>1. lf \in A
      BY <2>1
    <3> HIDE DEF A, lf
    <3>2. <<lf>> \in Seq(A)
      BY <3>1
    <3> QED BY <3>2 DEF A
  <2>3. Rewrites(lfs, lf)
    BY DEF Rewrites, Rewritten
  <2>4. FlattenSeq(lfs) = lf
    BY <2>1, FlattenOne
  <2> QED BY <2>1, <2>2, <2>3, <2>4
<1>2. Verb \in Seq(Text) /\ verb \in Seq(Seq(Text)) /\ Rewrites(verb, Verb) /\ FlattenSeq(verb) = RewriteVerb(Verb)
  <2>1. Verb \in Seq(Text) /\ Len(Verb) = 2 /\ Verb[1] = "colon" /\ Verb[2] = "word"
    BY TextChars DEF Verb
  <2>2. \A i \in 1..2 : verb[i] = Rewritten(Verb[i]) /\ verb[i] \in Seq(Text)
    BY <2>1, TextChars DEF Rewritten, EscapedColon
  <2>3. DOMAIN verb = 1..2 /\ verb = [i \in 1..2 |-> verb[i]]
    BY <2>1
  <2>4. FlattenSeq(verb) = RewriteVerb(Verb)
    BY Zenon DEF RewriteVerb, EscapeColons, EscapedColon
  <2> HIDE DEF verb
  <2>5. verb \in Seq(Seq(Text)) /\ Len(verb) = 2
    BY <2>2, <2>3, ListOfParts
  <2>6. Rewrites(verb, Verb)
    BY <2>1, <2>2, <2>5 DEF Rewrites
  <2> QED BY <2>1, <2>4, <2>5, <2>6
<1>3. sql \in Seq(Seq(Text)) /\ Rewrites(sql, s) /\ FlattenSeq(sql) = RewriteSQL(s)
  BY RewrittenPartsAre, RewriteIs
<1>4. Writes(head, Header, Header) /\ Header \in Seq(Text)
  BY HeaderWritten, Zenon DEF Writes
<1> HIDE DEF lf, lfs, verb, sql, head
<1>5. Writes(head \o verb, Header \o Verb, Header \o RewriteVerb(Verb))
  <2>1. Writes(head \o verb, Header \o Verb, Header \o FlattenSeq(verb))
    BY <1>2, <1>4, WritesMore
  <2> QED BY <1>2, <2>1
<1> DEFINE x1 == head \o verb
           w1 == Header \o Verb
           v1 == Header \o RewriteVerb(Verb)
<1>6. Writes(x1, w1, v1)
  BY <1>5
<1> HIDE DEF x1, w1, v1
<1> DEFINE x2 == x1 \o lfs
           w2 == w1 \o lf
           v2 == v1 \o lf
<1>7. Writes(x2, w2, v2)
  <2>1. Writes(x2, w2, v1 \o FlattenSeq(lfs))
    BY <1>1, <1>6, WritesMore
  <2> QED BY <1>1, <2>1
<1> HIDE DEF x2, w2
<1> DEFINE x3 == x2 \o sql
           w3 == w2 \o s
           v3 == v2 \o RewriteSQL(s)
<1>8. Writes(x3, w3, v3)
  <2>1. Writes(x3, w3, v2 \o FlattenSeq(sql))
    BY <1>3, <1>7, WritesMore
  <2> QED BY <1>3, <2>1
<1> HIDE DEF x3, w3
<1> DEFINE x4 == x3 \o lfs
           w4 == w3 \o lf
           v4 == v3 \o lf
<1>9. Writes(x4, w4, v4)
  <2> HIDE DEF v3
  <2>1. Writes(x4, w4, v3 \o FlattenSeq(lfs))
    BY <1>1, <1>8, WritesMore
  <2> QED BY <1>1, <2>1
<1>10. w4 = Queried(s)
  BY DEF w3, w2, w1, lf, Queried
<1>11. v4 = FlattenSeq(PiecesOf("sqlalchemy", s))
  <2> DEFINE p1 == Header \o RewriteVerb(Verb) \o <<"lf">>
             p2 == RewriteSQL(s) \o <<"lf">>
  <2>1. PiecesOf("sqlalchemy", s) = <<p1, p2>>
    BY DEF PiecesOf
  <2>2. RewriteSQL(s) \in Seq(Text) /\ RewriteVerb(Verb) \in Seq(Text)
    BY <1>2, EscapeColonsType, PlaceholdersToBindsType DEF RewriteSQL, RewriteVerb
  <2>3. p1 \in Seq(Text) /\ p2 \in Seq(Text) /\ p1 = v2
    BY <1>1, <1>4, <2>2, ConcatProperties DEF lf, v2, v1
  <2>4. v4 = (p1 \o RewriteSQL(s)) \o <<"lf">>
    BY <2>3 DEF lf
  <2> HIDE DEF v4, p1
  <2>5. (p1 \o RewriteSQL(s)) \o <<"lf">> = p1 \o p2
    BY <1>1, <2>2, <2>3, ConcatAssociative DEF lf
  <2> HIDE DEF p2
  <2>6. FlattenSeq(<<p1, p2>>) = p1 \o p2
    <3>1. <<p1>> \in Seq(Seq(Text)) /\ <<p1, p2>> = Append(<<p1>>, p2)
      <4> DEFINE A == Seq(Text)
      <4>1. p1 \in A /\ p2 \in A
        BY <2>3
      <4> HIDE DEF A
      <4>2. <<p1>> \in Seq(A) /\ <<p1, p2>> = Append(<<p1>>, p2)
        BY <4>1
      <4> QED BY <4>2 DEF A
    <3>2. FlattenSeq(Append(<<p1>>, p2)) = FlattenSeq(<<p1>>) \o p2
      BY <2>3, <3>1, FlattenAppend
    <3>3. FlattenSeq(<<p1>>) = p1
      BY <2>3, FlattenOne
    <3> QED BY <3>1, <3>2, <3>3
  <2> QED BY <2>1, <2>4, <2>5, <2>6
<1> HIDE DEF v4, w4
<1> QED BY <1>9, <1>10, <1>11

\* The string of a query: its header begins it, and no placeholder touches a
\* word, a colon or a backslash before it.
QueryString(w) ==
  /\ Len(w) >= 3 /\ w[1] = "word" /\ w[2] = "colon" /\ w[3] = "space"
  /\ \A k \in 1..Len(w) : w[k] # "bind"
  /\ \A k \in 1..Len(w) : w[k] = "ph" => k > 3 /\ w[k - 1] \notin {"word", "ph", "bs", "colon"}

\* The elements of c are those of a, and then those of b.
Joins(c, a, b) ==
  /\ Len(c) = Len(a) + Len(b)
  /\ \A p \in 1..Len(a) : c[p] = a[p]
  /\ \A k \in 1..Len(b) : c[Len(a) + k] = b[k]

LEMMA JoinedBy ==
  ASSUME NEW T, NEW a \in Seq(T), NEW b \in Seq(T)
  PROVE  a \o b \in Seq(T) /\ Joins(a \o b, a, b)
BY ConcatElements DEF Joins

LEMMA QueriedString ==
  ASSUME NEW s \in Seq(Text), Sql(s), ~Unbindable(s), \A i \in 1..Len(s) : s[i] # "bind"
  PROVE  QueryString(Queried(s))
<1> DEFINE h == Header \o Verb \o <<"lf">>
           lf == <<"lf">>
           hs == h \o s
           w == hs \o lf
<1>1. /\ h \in Seq(Text) /\ Len(h) = 8
      /\ h[1] = "word" /\ h[2] = "colon" /\ h[3] = "space" /\ h[8] = "lf"
      /\ \A i \in 1..8 : h[i] \in {"word", "colon", "space", "lf"}
  <2>1. Header \in Seq(Text) /\ Verb \in Seq(Text) /\ lf \in Seq(Text)
    BY TextChars DEF Header, Verb
  <2>2. /\ Len(Header) = 5 /\ Len(Verb) = 2 /\ Len(lf) = 1 /\ lf[1] = "lf" /\ Verb[1] = "colon" /\ Verb[2] = "word"
        /\ Header[1] = "word" /\ Header[2] = "colon" /\ Header[3] = "space" /\ Header[4] = "word" /\ Header[5] = "space"
    BY DEF Header, Verb
  <2> DEFINE hv == Header \o Verb
  <2>3. hv \in Seq(Text) /\ Joins(hv, Header, Verb)
    BY <2>1, JoinedBy, Zenon
  <2> HIDE DEF hv, lf
  <2>4. /\ hv \in Seq(Text) /\ Len(hv) = 7
        /\ hv[1] = "word" /\ hv[2] = "colon" /\ hv[3] = "space" /\ hv[4] = "word" /\ hv[5] = "space"
        /\ hv[6] = "colon" /\ hv[7] = "word"
    BY <2>2, <2>3 DEF Joins
  <2> DEFINE hl == hv \o lf
  <2>5. hl \in Seq(Text) /\ Joins(hl, hv, lf)
    BY <2>1, <2>4, JoinedBy, Zenon
  <2> HIDE DEF hl
  <2>6. /\ hl \in Seq(Text) /\ Len(hl) = 8
        /\ hl[1] = "word" /\ hl[2] = "colon" /\ hl[3] = "space" /\ hl[4] = "word" /\ hl[5] = "space"
        /\ hl[6] = "colon" /\ hl[7] = "word" /\ hl[8] = "lf"
    BY <2>2, <2>4, <2>5 DEF Joins
  <2>7. \A i \in 1..8 : hl[i] \in {"word", "colon", "space", "lf"}
    <3> TAKE i \in 1..8
    <3>1. i \in {1, 2, 3, 4, 5, 6, 7, 8}
      OBVIOUS
    <3> QED BY <2>6, <3>1
  <2>8. h = hl
    BY DEF hl, hv, lf
  <2> HIDE DEF h
  <2> QED BY <2>6, <2>7, <2>8
<1>2. lf \in Seq(Text) /\ Len(lf) = 1 /\ lf[1] = "lf" /\ Len(s) \in Nat
  BY TextChars
<1> HIDE DEF h, lf
<1>3. /\ hs \in Seq(Text) /\ Len(hs) = 8 + Len(s)
      /\ \A p \in 1..8 : hs[p] = h[p]
      /\ \A k \in 1..Len(s) : hs[8 + k] = s[k]
  <2>1. hs \in Seq(Text) /\ Joins(hs, h, s)
    BY <1>1, JoinedBy, Zenon
  <2> HIDE DEF hs
  <2> QED BY <1>1, <2>1 DEF Joins
<1> HIDE DEF hs
<1>4. /\ Len(w) = 9 + Len(s)
      /\ \A p \in 1..(8 + Len(s)) : w[p] = hs[p]
      /\ w[9 + Len(s)] = "lf"
  <2>1. Joins(w, hs, lf)
    BY <1>2, <1>3, JoinedBy, Zenon
  <2> HIDE DEF w
  <2>2. 1 \in 1..Len(lf) /\ Len(hs) + 1 = 9 + Len(s)
    BY <1>2, <1>3
  <2>3. w[9 + Len(s)] = "lf"
    BY <1>2, <2>1, <2>2 DEF Joins
  <2> QED BY <1>2, <1>3, <2>1, <2>3 DEF Joins
<1>5. Queried(s) = w
  BY DEF Queried, w, hs, h, lf
<1> HIDE DEF w
<1>6. /\ \A p \in 1..8 : w[p] = h[p]
      /\ \A k \in 1..Len(s) : w[8 + k] = s[k]
  BY <1>2, <1>3, <1>4
<1>7. ASSUME NEW k \in 1..Len(w)
      PROVE  w[k] # "bind" /\ (w[k] = "ph" => k > 3 /\ w[k - 1] \notin {"word", "ph", "bs", "colon"})
  <2>1. CASE k <= 8
    <3>1. w[k] \in {"word", "colon", "space", "lf"}
      BY <1>1, <1>6, <2>1
    <3> QED BY <3>1
  <2>2. CASE k = 9 + Len(s)
    BY <1>4, <2>2
  <2>3. CASE k > 8 /\ k # 9 + Len(s)
    <3> DEFINE i == k - 8
    <3>1. i \in 1..Len(s) /\ k = 8 + i
      BY <1>2, <1>4, <2>3
    <3> HIDE DEF i
    <3>2. w[k] = s[i] /\ s[i] # "bind"
      BY <1>6, <3>1
    <3>3. ASSUME s[i] = "ph" PROVE w[k - 1] \notin {"word", "ph", "bs", "colon"}
      <4>1. CASE i = 1
        <5>1. k - 1 = 8 /\ 8 \in 1..8
          BY <3>1, <4>1
        <5>2. w[k - 1] = "lf"
          BY <1>1, <1>6, <5>1
        <5> QED BY <5>2
      <4>2. CASE i > 1
        <5>1. i - 1 \in 1..Len(s) - 1 /\ (i - 1) + 1 = i /\ i \in 2..Len(s) /\ k - 1 = 8 + (i - 1) /\ i - 1 \in 1..Len(s)
          BY <1>2, <3>1, <4>2
        <5>2. w[k - 1] = s[i - 1]
          BY <1>6, <5>1
        <5>3. ~WordChar(s[i - 1])
          <6>1. ~(WordChar(s[i - 1]) /\ s[(i - 1) + 1] = "ph")
            BY <5>1 DEF Sql
          <6> QED BY <3>3, <5>1, <6>1
        <5>4. s[i - 1] \notin {"bs", "colon"}
          BY <3>3, <5>1 DEF Unbindable
        <5> QED BY <5>2, <5>3, <5>4 DEF WordChar
      <4> QED BY <3>1, <4>1, <4>2
    <3> QED BY <2>3, <3>2, <3>3
  <2> QED BY <2>1, <2>2, <2>3
<1>8. Len(w) >= 3 /\ w[1] = "word" /\ w[2] = "colon" /\ w[3] = "space"
  BY <1>1, <1>2, <1>4, <1>6
<1>9. QueryString(w)
  BY <1>7, <1>8 DEF QueryString
<1> QED BY <1>5, <1>9

\* What is next to the part of a character, in the value Python reads.
LEMMA WrittenNext ==
  ASSUME NEW x, NEW w, NEW v, Writes(x, w, v), QueryString(w),
         NEW f, Concatenates(f, x, Text), NEW k \in 1..Len(w), Borders(x, f, v, k),
         k > 1 => Borders(x, f, v, k - 1)
  PROVE  /\ k > 1 /\ v[Len(f[k - 1])] = "colon" => w[k] = "space" \/ (Len(f[k - 1]) > 1 /\ v[Len(f[k - 1]) - 1] = "bs")
         /\ k > 1 /\ w[k] = "ph" => v[Len(f[k - 1])] \notin {"word", "ph", "bind", "colon", "bs"}
         /\ k < Len(w) /\ v[Len(f[k]) + 1] \in {"colon", "ph"} => k = 1 \/ w[k + 1] = "ph"
<1> DEFINE a == Len(f[k - 1])
           b == Len(f[k])
<1>1. /\ Len(x) = Len(w) /\ Len(w) \in Nat /\ (\A i \in 1..Len(w) : x[i] = WrittenAt(w, i))
      /\ w[1] = "word" /\ w[2] = "colon" /\ w[3] = "space" /\ (\A i \in 1..Len(w) : w[i] # "bind")
      /\ (\A i \in 1..Len(w) : w[i] = "ph" => i > 3 /\ w[i - 1] \notin {"word", "ph", "bs", "colon"})
  <2>1. w \in Seq(Text)
    BY Zenon DEF Writes
  <2>2. Len(w) \in Nat
    BY <2>1
  <2> QED BY <2>2, Zenon DEF Writes, QueryString
<1>2. /\ k > 1 => a >= 1 /\ v[a] = x[k - 1][Len(x[k - 1])]
      /\ k < Len(w) => v[b + 1] = x[k + 1][1]
  BY <1>1 DEF Borders
<1>3. ASSUME k > 1
      PROVE  /\ v[a] = "colon" => w[k] = "space" \/ (a > 1 /\ v[a - 1] = "bs")
             /\ w[k] = "ph" => v[a] \notin {"word", "ph", "bind", "colon", "bs"}
  <2> DEFINE i == k - 1
             c == w[i]
             e == Len(f[i - 1])
  <2>1. /\ i \in 1..Len(w) /\ i + 1 = k
        /\ x[i] = WrittenAt(w, i) /\ v[a] = x[i][Len(x[i])] /\ c # "bind"
        /\ w[k] = "ph" => k > 3 /\ c \notin {"word", "ph", "bs", "colon"}
    BY <1>1, <1>2, <1>3
  <2>2. e \in Nat /\ a = e + Len(x[i]) /\ \A j \in 1..Len(x[i]) : v[e + j] = x[i][j]
    BY <1>3 DEF Borders
  <2> HIDE DEF e, a
  <2>3. CASE i = 2
    <3>1. k = 3
      BY <2>1, <2>3
    <3> QED BY <1>1, <3>1
  <2>4. CASE i # 2 /\ c = "colon"
    <3>1. x[i] = <<"bs", "colon">> /\ Len(x[i]) = 2 /\ x[i][1] = "bs" /\ 1 \in 1..Len(x[i])
      BY <2>1, <2>4 DEF WrittenAt, Rewritten
    <3>2. v[e + 1] = "bs" /\ a = e + 2
      BY <2>2, <3>1
    <3>3. a > 1 /\ v[a - 1] = "bs"
      BY <2>2, <3>2
    <3> QED BY <2>1, <2>4, <3>3
  <2>5. CASE i # 2 /\ c = "ph"
    <3>1. x[i] = <<"colon", "bind">> /\ Len(x[i]) = 2 /\ x[i][2] = "bind"
      BY <2>1, <2>5 DEF WrittenAt, Rewritten
    <3>2. v[a] = "bind"
      BY <2>1, <3>1
    <3> QED BY <2>1, <2>5, <3>2
  <2>6. CASE i # 2 /\ c \notin {"colon", "ph"}
    <3>1. x[i] = <<c>> /\ Len(x[i]) = 1 /\ x[i][1] = c
      BY <2>1, <2>6 DEF WrittenAt, Rewritten
    <3>2. v[a] = c
      BY <2>1, <3>1
    <3> QED BY <2>1, <2>6, <3>2
  <2> QED BY <2>3, <2>4, <2>5, <2>6
<1>4. ASSUME k < Len(w), v[b + 1] \in {"colon", "ph"} PROVE k = 1 \/ w[k + 1] = "ph"
  <2> DEFINE i == k + 1
  <2>1. i \in 1..Len(w) /\ (i = 2 => k = 1)
    BY <1>1, <1>4
  <2>2. x[i] = WrittenAt(w, i) /\ v[b + 1] = x[i][1]
    BY <1>1, <1>2, <1>4, <2>1
  <2> HIDE DEF i, b
  <2>3. i = 2 \/ w[i] = "ph"
    BY <1>4, <2>2 DEF WrittenAt, Rewritten
  <2> QED BY <2>1, <2>3 DEF i
<1> QED BY <1>3, <1>4

\* What the database receives for the string of a query.
LEMMA StringDelivered ==
  ASSUME NEW x, NEW w, NEW v, Writes(x, w, v), QueryString(w)
  PROVE  Delivered(v) = Meant(w)
<1> DEFINE n == Len(w)
           y == [i \in 1..Len(v) |-> DeliveredAt(v, i)]
           m == Meant(w)
           z == [k \in 1..Len(m) |-> <<m[k]>>]
<1>1. /\ x \in Seq(Seq(Text)) /\ w \in Seq(Text) /\ Len(x) = n /\ v = FlattenSeq(x)
      /\ \A k \in 1..n : x[k] = WrittenAt(w, k)
  BY Zenon DEF Writes
<1>2. n \in Nat /\ \A k \in 1..n : w[k] \in Text
  BY <1>1
<1>3. PICK f : Concatenates(f, x, Text)
  BY <1>1, ConcatenationExists
<1>4. v = f[n]
  BY <1>1, <1>3, FlattenConcatenates
<1>5. v \in Seq(Text)
  <2>1. n \in 0..n
    BY <1>2
  <2>2. f \in [0..n -> Seq(Text)]
    BY <1>1, <1>3 DEF Concatenates
  <2> QED BY <1>4, <2>1, <2>2
<1>6. y \in Seq(Seq(Sent)) /\ Delivered(v) = FlattenSeq(y)
  BY <1>5, DeliveredParts
<1>7. /\ m \in Seq(Sent) /\ Len(m) = n
      /\ \A k \in 1..n : m[k] = IF w[k] = "ph" THEN "parameter" ELSE w[k]
  <2>1. m = [k \in 1..n |-> IF w[k] = "ph" THEN "parameter" ELSE w[k]]
    BY DEF Meant
  <2>2. \A k \in 1..n : (IF w[k] = "ph" THEN "parameter" ELSE w[k]) \in Sent
    BY <1>2 DEF Sent
  <2> HIDE DEF m, n
  <2> QED BY <1>2, <2>1, <2>2
<1>8. z \in Seq(Seq(Sent)) /\ FlattenSeq(z) = m
  <2> HIDE DEF m
  <2> QED BY <1>7, FlattenSingles
<1>9. Len(y) = Len(v) /\ \A i \in 1..Len(v) : y[i] = DeliveredAt(v, i)
  BY <1>5
<1>10. Len(z) = n /\ \A k \in 1..n : z[k] = <<m[k]>>
  <2> HIDE DEF m, n
  <2> QED BY <1>2, <1>7
<1> HIDE DEF y, m, z
<1>11. /\ w[1] = "word" /\ w[2] = "colon" /\ w[3] = "space" /\ n >= 3
       /\ \A k \in 1..n : w[k] = "ph" => k > 3 /\ w[k - 1] \notin {"word", "ph", "bs", "colon"}
  BY DEF QueryString
<1> HIDE DEF n
<1>12. \A k \in 1..Len(x) : Len(x[k]) >= 1
  <2> TAKE k \in 1..Len(x)
  <2>1. x[k] = WrittenAt(w, k)
    BY <1>1
  <2> QED BY <2>1 DEF WrittenAt, Rewritten
<1>13. ASSUME NEW k \in 1..n PROVE Borders(x, f, v, k)
  <2>1. k \in 1..Len(x)
    BY <1>1
  <2> QED BY <1>1, <1>3, <1>4, <1>12, <2>1, PartBorders
<1>14. ASSUME NEW k \in 1..n
       PROVE  \/ Len(x[k]) = 1 /\ z[k] = y[Len(f[k - 1]) + 1]
              \/ Len(x[k]) = 2 /\ z[k] = y[Len(f[k - 1]) + 1] \o y[Len(f[k - 1]) + 2]
  <2> DEFINE a == Len(f[k - 1])
             b == Len(f[k])
             c == w[k]
  <2>1. Borders(x, f, v, k) /\ (k > 1 => Borders(x, f, v, k - 1))
    <3>1. k > 1 => k - 1 \in 1..n
      BY <1>2
    <3> QED BY <1>13, <3>1
  <2>2. /\ k > 1 /\ v[a] = "colon" => c = "space" \/ (a > 1 /\ v[a - 1] = "bs")
        /\ k > 1 /\ c = "ph" => v[a] \notin {"word", "ph", "bind", "colon", "bs"}
        /\ k < n /\ v[b + 1] \in {"colon", "ph"} => k = 1 \/ w[k + 1] = "ph"
    BY <1>3, <2>1, WrittenNext DEF n
  <2>3. /\ a \in Nat /\ b = a + Len(x[k]) /\ b <= Len(v) /\ Len(v) \in Nat
        /\ \A j \in 1..Len(x[k]) : v[a + j] = x[k][j]
        /\ k = 1 => a = 0
        /\ k = n => b = Len(v)
        /\ k < n => v[b + 1] = x[k + 1][1]
    <3>1. Len(v) \in Nat
      BY <1>5
    <3> QED BY <1>1, <2>1, <3>1, Zenon DEF Borders
  <2>4. x[k] = WrittenAt(w, k) /\ z[k] = <<m[k]>> /\ m[k] = IF c = "ph" THEN "parameter" ELSE c
    BY <1>1, <1>7, <1>10
  <2>5. k < n /\ w[k + 1] = "ph" => c \notin {"word", "ph", "bs", "colon"}
    <3>1. k < n => k + 1 \in 1..n /\ (k + 1) - 1 = k
      BY <1>2
    <3> QED BY <1>11, <3>1
  <2>6. c \in Text /\ k \in Nat /\ k <= n /\ k >= 1
    BY <1>2
  <2>7. k = 2 => c = "colon" /\ v[b + 1] = "space"
    <3>1. ASSUME k = 2 PROVE v[b + 1] = "space"
      <4>1. k < n /\ 3 \in 1..n /\ k + 1 = 3
        BY <1>2, <1>11, <3>1
      <4>2. x[3] = <<"space">> /\ x[3][1] = "space"
        BY <1>1, <1>11, <4>1 DEF WrittenAt, Rewritten
      <4>3. v[b + 1] = x[k + 1][1]
        BY <2>3, <4>1, Zenon
      <4>4. x[k + 1] = x[3]
        BY <4>1
      <4> QED BY <4>2, <4>3, <4>4, Zenon
    <3> QED BY <1>11, <3>1
  <2>8. k = 1 => c = "word"
    BY <1>11
  <2> HIDE DEF a, b, c
  <2>9. CASE k = 2 \/ c \notin {"colon", "ph"}
    <3>1. x[k] = <<c>> /\ Len(x[k]) = 1 /\ x[k][1] = c /\ z[k] = <<c>>
      BY <2>4, <2>7, <2>9 DEF WrittenAt, Rewritten, c
    <3> DEFINE p == a + 1
    <3>2. p \in 1..Len(v) /\ v[p] = c /\ p = b /\ (k = n <=> ~(k < n)) /\ (k = 1 => p = 1) /\ p - 1 = a /\ p - 2 = a - 1
      BY <1>2, <2>3, <2>6, <3>1
    <3> HIDE DEF p
    <3>3. v[p] = "colon" => p < Len(v) /\ v[p + 1] = "space"
      <4> SUFFICES ASSUME v[p] = "colon" PROVE p < Len(v) /\ v[p + 1] = "space"
        OBVIOUS
      <4>1. k = 2
        BY <2>9, <3>2
      <4>2. v[p + 1] = "space"
        BY <2>7, <3>2, <4>1
      <4>3. p < Len(v)
        <5>1. 3 \in 1..n
          BY <1>2, <1>11
        <5>2. Borders(x, f, v, 3)
          BY <1>13, <5>1
        <5>3. Len(f[2]) \in Nat /\ Len(f[3]) = Len(f[2]) + Len(x[3]) /\ Len(f[3]) <= Len(v) /\ 3 - 1 = 2
          <6>1. Len(f[3 - 1]) \in Nat /\ Len(f[3]) = Len(f[3 - 1]) + Len(x[3]) /\ Len(f[3]) <= Len(v)
            BY <5>2, Zenon DEF Borders
          <6>2. 3 - 1 = 2
            OBVIOUS
          <6> QED BY <6>1, <6>2
        <5>4. x[3] = <<"space">> /\ Len(x[3]) = 1
          BY <1>1, <1>11, <5>1 DEF WrittenAt, Rewritten
        <5>5. p = Len(f[2])
          BY <3>2, <4>1 DEF b
        <5> QED BY <2>3, <5>3, <5>4, <5>5
      <4> QED BY <4>2, <4>3
    <3>4. p > 1 /\ v[p - 1] = "colon" => v[p] = "space" \/ (p > 2 /\ v[p - 2] = "bs")
      <4>1. p > 1 => k > 1
        BY <2>6, <3>2
      <4>2. a > 1 => p > 2
        BY <2>3, <3>2
      <4> QED BY <2>2, <3>2, <4>1, <4>2
    <3>5. v[p] = "bs" /\ p < Len(v) => v[p + 1] # "colon"
      <4> SUFFICES ASSUME v[p] = "bs", p < Len(v), v[p + 1] = "colon" PROVE FALSE
        OBVIOUS
      <4>1. c = "bs" /\ k < n
        BY <2>3, <3>2
      <4>2. k = 1 \/ w[k + 1] = "ph"
        BY <2>2, <3>2, <4>1
      <4> QED BY <2>5, <2>8, <4>1, <4>2
    <3>6. DeliveredAt(v, p) = <<v[p]>>
      BY <1>5, <3>2, <3>3, <3>4, <3>5, CharDelivered
    <3>7. z[k] = y[p]
      BY <1>9, <3>1, <3>2, <3>6
    <3> QED BY <3>1, <3>7 DEF p, a
  <2>10. CASE k # 2 /\ c = "colon"
    <3>1. x[k] = <<"bs", "colon">> /\ Len(x[k]) = 2 /\ x[k][1] = "bs" /\ x[k][2] = "colon" /\ z[k] = <<"colon">>
      BY <2>4, <2>10 DEF WrittenAt, Rewritten, c
    <3> DEFINE p == a + 1
    <3>2. /\ p \in 1..Len(v) /\ p < Len(v) /\ v[p] = "bs" /\ v[p + 1] = "colon" /\ p + 1 = b
          /\ p + 2 = b + 1 /\ p + 1 = a + 2 /\ p + 1 \in 1..Len(v)
      BY <2>3, <3>1
    <3> HIDE DEF p
    <3>3. p + 1 < Len(v) => v[p + 2] \notin {"colon", "ph"}
      <4> SUFFICES ASSUME p + 1 < Len(v), v[p + 2] \in {"colon", "ph"} PROVE FALSE
        OBVIOUS
      <4>1. k < n
        BY <1>2, <2>3, <2>6, <3>2
      <4>2. k = 1 \/ w[k + 1] = "ph"
        BY <2>2, <3>2, <4>1
      <4> QED BY <2>5, <2>8, <2>10, <4>1, <4>2
    <3>4. DeliveredAt(v, p) = <<>> /\ DeliveredAt(v, p + 1) = <<"colon">>
      BY <1>5, <3>2, <3>3, ColonDelivered
    <3>5. y[p] = <<>> /\ y[a + 2] = <<"colon">>
      BY <1>9, <3>2, <3>4
    <3>6. <<>> \o <<"colon">> = <<"colon">>
      BY TextChars, PairIs, Zenon
    <3> QED BY <3>1, <3>5, <3>6 DEF p, a
  <2>11. CASE c = "ph"
    <3>1. x[k] = <<"colon", "bind">> /\ Len(x[k]) = 2 /\ x[k][1] = "colon" /\ x[k][2] = "bind" /\ z[k] = <<"parameter">>
      BY <2>4, <2>7, <2>11 DEF WrittenAt, Rewritten, c
    <3> DEFINE p == a + 1
    <3>2. /\ p \in 1..Len(v) /\ p < Len(v) /\ v[p] = "colon" /\ v[p + 1] = "bind" /\ p + 1 = b
          /\ p + 2 = b + 1 /\ p + 1 = a + 2 /\ p + 1 \in 1..Len(v) /\ p - 1 = a /\ (k = 1 => p = 1)
      BY <2>3, <3>1
    <3> HIDE DEF p
    <3>3. p + 1 < Len(v) => v[p + 2] \notin {"colon", "ph"}
      <4> SUFFICES ASSUME p + 1 < Len(v), v[p + 2] \in {"colon", "ph"} PROVE FALSE
        OBVIOUS
      <4>1. k < n
        BY <1>2, <2>3, <2>6, <3>2
      <4>2. k = 1 \/ w[k + 1] = "ph"
        BY <2>2, <3>2, <4>1
      <4> QED BY <2>5, <2>8, <2>11, <4>1, <4>2
    <3>4. p > 1 => v[p - 1] \notin {"word", "ph", "bind", "colon", "bs"}
      BY <2>2, <2>6, <2>11, <3>2
    <3>5. DeliveredAt(v, p) = <<>> /\ DeliveredAt(v, p + 1) = <<"parameter">>
      BY <1>5, <3>2, <3>3, <3>4, BindDelivered
    <3>6. y[p] = <<>> /\ y[a + 2] = <<"parameter">>
      BY <1>9, <3>2, <3>5
    <3>7. <<>> \o <<"parameter">> = <<"parameter">>
      <4>1. "parameter" \in Sent
        BY DEF Sent
      <4> QED BY <4>1, PairIs, Zenon
    <3> QED BY <3>1, <3>6, <3>7 DEF p, a
  <2> QED BY <2>9, <2>10, <2>11
<1>15. Regroups(x, f, y, z)
  BY <1>1, <1>14 DEF Regroups
<1>16. FlattenSeq(y) = FlattenSeq(z)
  <2>1. Len(y) = Len(f[Len(x)]) /\ Len(z) = Len(x)
    BY <1>1, <1>4, <1>9, <1>10
  <2> QED BY <1>1, <1>3, <1>6, <1>8, <1>15, <2>1, Regrouped
<1> QED BY <1>6, <1>8, <1>16 DEF m

-----------------------------------------------------------------------------
(* The query is delivered. *)

\* The text is SQL from the start, and one that cannot be bound is refused.
SqlInv ==
  /\ text \in Seq(Chars) /\ PossibleText(site, text)
  /\ site = "sqlalchemy" /\ stage \in {"encode", "read", "done", "broken"} => ~Unbindable(text)

LEMMA SqlInvInit == Init => SqlInv
<1> SUFFICES ASSUME Init PROVE SqlInv
  OBVIOUS
<1>1. PICK n \in 0..MaxText : text \in [1..n -> Alphabet]
  BY DEF Init
<1>2. text \in Seq(Chars)
  BY <1>1, TextBounds
<1> QED BY <1>2 DEF Init, SqlInv

LEMMA SqlInvSteps == SqlInv /\ [Next]_vars => SqlInv'
<1> SUFFICES ASSUME SqlInv, [Next]_vars PROVE SqlInv'
  OBVIOUS
<1>1. site' = site /\ text' = text
  BY DEF Next, vars, Generate, EncodeByte, EndPiece, Close, ReadEscape, ReadChar, ReadEnd
<1>2. stage' = "encode" => stage = "encode" \/ (stage = "generate" /\ ~(site = "sqlalchemy" /\ Unbindable(text)))
  BY DEF Next, vars, Generate, EncodeByte, EndPiece, Close, ReadEscape, ReadChar, ReadEnd
<1>3. stage' \in {"read", "done", "broken"} => stage \in {"encode", "read", "done", "broken"}
  BY DEF Next, vars, Generate, EncodeByte, EndPiece, Close, ReadEscape, ReadChar, ReadEnd
<1> QED BY <1>1, <1>2, <1>3 DEF SqlInv

\* sqlalchemy.go:26-67, for every SQL text of every length: what sqlalchemy
\* sends is the query itself, with a parameter for each placeholder; a text for
\* which the rewrite cannot do it stops generation.
THEOREM SqlIsDelivered == Spec => []SqlDelivered
<1>1. TextInv /\ SqlInv => SqlDelivered
  <2> SUFFICES ASSUME TextInv, SqlInv, stage = "done", site = "sqlalchemy"
               PROVE  Delivered(value) = Meant(Queried(text))
    BY DEF SqlDelivered, Queried
  <2>1. text \in Seq(Text) /\ Sql(text) /\ ~Unbindable(text) /\ \A i \in 1..Len(text) : text[i] # "bind"
    <3>1. text \in Seq(Text) /\ Sql(text) /\ ~Unbindable(text)
      BY DEF TextInv, SqlInv, PossibleText
    <3>2. \A i \in 1..Len(text) : text[i] \in Chars
      BY DEF SqlInv
    <3>3. "bind" \notin Chars
      BY DEF Chars
    <3> QED BY <3>1, <3>2, <3>3
  <2>2. PICK tok, f, k : Reads(Whole, source, readTo, value, tok, f, k) /\ k = Len(tok)
    BY DEF TextInv, Reading
  <2>3. value = FlattenSeq(PiecesOf("sqlalchemy", text))
    BY <2>2, ReadNext DEF Whole, Pieces
  <2>4. PICK x : Writes(x, Queried(text), value)
    BY <2>1, <2>3, QueryWritten
  <2>5. QueryString(Queried(text))
    BY <2>1, QueriedString
  <2> QED BY <2>4, <2>5, StringDelivered
<1> QED BY <1>1, TextInvInit, TextInvSteps, SqlInvInit, SqlInvSteps, PTL DEF Spec

=============================================================================
