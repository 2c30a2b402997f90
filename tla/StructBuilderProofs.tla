------------------------- MODULE StructBuilderProofs -------------------------
(***************************************************************************)
(* For every schema, every number of columns and every behaviour of        *)
(* SnakeToCamel, Singular and Escape: the names the loop of columnsToStruct *)
(* (or the flat argument loop) emits are distinct over clean inputs.        *)
(***************************************************************************)
EXTENDS StructBuilder, SequenceTheorems, TLAPS

\* Appending a number to a sequence is injective in both arguments.
LEMMA AppendLen ==
  ASSUME NEW s \in Seq(Nat), NEW t \in Seq(Nat), NEW j \in Nat, NEW k \in Nat,
         Append(s, j) = Append(t, k)
  PROVE  Len(s) = Len(t)
<1>1. Len(Append(s, j)) = Len(s) + 1 /\ Len(Append(t, k)) = Len(t) + 1
  OBVIOUS
<1> QED BY <1>1

LEMMA AppendLast ==
  ASSUME NEW s \in Seq(Nat), NEW t \in Seq(Nat), NEW j \in Nat, NEW k \in Nat,
         Append(s, j) = Append(t, k)
  PROVE  j = k
<1>1. Len(s) = Len(t)
  BY AppendLen
<1>2. Append(s, j)[Len(s) + 1] = j /\ Append(t, k)[Len(t) + 1] = k
  OBVIOUS
<1> QED BY <1>1, <1>2

LEMMA AppendFront ==
  ASSUME NEW s \in Seq(Nat), NEW t \in Seq(Nat), NEW j \in Nat, NEW k \in Nat,
         Append(s, j) = Append(t, k)
  PROVE  s = t
<1>1. Len(s) = Len(t)
  BY AppendLen
<1>2. ASSUME NEW i \in 1..Len(s) PROVE s[i] = t[i]
  <2>1. Append(s, j)[i] = s[i] /\ Append(t, k)[i] = t[i]
    BY <1>1
  <2> QED BY <2>1
<1> QED BY <1>1, <1>2, SeqEqual

\* A suffixed name is a name.
LEMMA SuffixedType ==
  ASSUME NEW n \in Ident, NEW k \in Nat
  PROVE  Suffixed(n, k) \in Ident
<1>1. n.stem \in Stem /\ n.suffix \in Seq(Nat)
  BY DEF Ident
<1>2. Append(n.suffix, k) \in Seq(Nat)
  BY <1>1
<1> QED BY <1>1, <1>2 DEF Suffixed, Ident

\* Two suffixed names are equal only when name and suffix are.
LEMMA SuffixedInjective ==
  ASSUME NEW n \in Ident, NEW m \in Ident, NEW j \in Nat \ {0}, NEW k \in Nat \ {0},
         Suffixed(n, j) = Suffixed(m, k)
  PROVE  n = m /\ j = k
<1>1. /\ n.suffix \in Seq(Nat) /\ m.suffix \in Seq(Nat)
      /\ n = [stem |-> n.stem, suffix |-> n.suffix]
      /\ m = [stem |-> m.stem, suffix |-> m.suffix]
  BY DEF Ident
<1>2. n.stem = m.stem /\ Append(n.suffix, j) = Append(m.suffix, k)
  BY Zenon DEF Suffixed
<1>3. n.suffix = m.suffix /\ j = k
  BY <1>1, <1>2, AppendFront, AppendLast
<1> QED BY <1>1, <1>2, <1>3

\* Base and FieldStem give names for the columns of the instance.
LEMMA NamesOfColumns ==
  ASSUME NEW m \in Modes, NEW c \in Column
  PROVE  /\ Base(m, c) \in Bases
         /\ FieldStem(m, c) \in Ident
         /\ c.type \in Type
BY ColumnType, NameFunctions DEF Base, FieldStem, Bases

Inv == TypeOK /\ Decollided

LEMMA InitInv == Init => Inv
<1> SUFFICES ASSUME Init PROVE Inv
  OBVIOUS
<1>1. PICK n \in 1..MaxColumns : columns \in [1..n -> Column]
  BY DEF Init, ColumnLists
<1>2. columns \in Seq(Column) /\ Len(columns) = n
  BY <1>1, SuffixableNames
<1>3. TypeOK
  BY <1>1, <1>2, SuffixableNames DEF Init, TypeOK
<1>4. Decollided
  BY <1>1, <1>2, SuffixableNames DEF Init, Decollided
<1> QED BY <1>3, <1>4 DEF Inv

-----------------------------------------------------------------------------
(* One turn of the loop. *)

\* The inputs are not modified and the columns stay within the lists.
LEMMA AddColumnTypes ==
  ASSUME TypeOK, Decollided, AddColumn
  PROVE  /\ columns[pos] \in Column /\ id[pos] \in 1..MaxColumns /\ mode \in Modes
         /\ pos \in 1..Len(columns) /\ Len(columns) \in 1..MaxColumns
         /\ MaxColumns \in Nat
         /\ Base(mode, columns[pos]) \in Bases
         /\ FieldStem(mode, columns[pos]) \in Ident
         /\ columns[pos].type \in Type
         /\ NextSuffix \in 0..MaxColumns
<1>1. /\ pos \in 1..Len(columns) /\ Len(columns) \in 1..MaxColumns /\ mode \in Modes
      /\ columns \in Seq(Column) /\ MaxColumns \in Nat
  BY SuffixableNames DEF TypeOK, AddColumn
<1>2. columns[pos] \in Column
  BY <1>1
<1>3. id[pos] \in 1..MaxColumns
  BY <1>1 DEF TypeOK, ValidInput
<1>4. /\ Base(mode, columns[pos]) \in Bases /\ FieldStem(mode, columns[pos]) \in Ident
      /\ columns[pos].type \in Type
  BY <1>1, <1>2, NamesOfColumns
<1>5. seen[Base(mode, columns[pos])] \in 0..(pos - 1)
  BY <1>1, <1>4 DEF TypeOK, Decollided
<1>6. NextSuffix \in 0..MaxColumns
  BY <1>1, <1>3, <1>5 DEF NextSuffix, TypeOK
<1> QED BY <1>1, <1>2, <1>3, <1>4, <1>6

LEMMA AddColumnTypeOK ==
  ASSUME TypeOK, Decollided, AddColumn
  PROVE  TypeOK'
<1> DEFINE c == columns[pos]
           s == NextSuffix
<1>1. /\ c \in Column /\ id[pos] \in 1..MaxColumns /\ s \in 0..MaxColumns
      /\ pos \in 1..Len(columns) /\ Len(columns) \in 1..MaxColumns /\ MaxColumns \in Nat
      /\ Base(mode, c) \in Bases /\ FieldStem(mode, c) \in Ident /\ c.type \in Type
  BY AddColumnTypes
<1>2. /\ seen' = [seen EXCEPT ![Base(mode, c)] = @ + 1]
      /\ suffixes' = [k \in DOMAIN suffixes \union {id[pos]} |->
                         IF k = id[pos] THEN s ELSE suffixes[k]]
      /\ fields' = Append(fields, [name |-> Suffixed(FieldStem(mode, c), s), type |-> c.type])
      /\ pos' = pos + 1
      /\ UNCHANGED <<mode, columns, id, named, status>>
  BY DEF AddColumn, input
<1>3. seen' \in [Bases -> 0..MaxColumns]
  <2>1. \A b \in Bases : seen[b] \in 0..(pos - 1)
    BY DEF TypeOK, Decollided
  <2> QED BY <2>1, <1>1, <1>2 DEF TypeOK
<1>4. /\ DOMAIN suffixes' \subseteq 1..MaxColumns
      /\ \A k \in DOMAIN suffixes' : suffixes'[k] \in 0..MaxColumns
  BY <1>1, <1>2 DEF TypeOK
<1>5. Suffixed(FieldStem(mode, c), s) \in Ident
  BY <1>1, SuffixedType
<1>6. fields' \in Seq([name : Ident, type : Type])
  <2>1. [name |-> Suffixed(FieldStem(mode, c), s), type |-> c.type] \in [name : Ident, type : Type]
    BY <1>1, <1>5
  <2>2. fields \in Seq([name : Ident, type : Type])
    BY DEF TypeOK
  <2> QED BY <2>1, <2>2, <1>2, AppendProperties
<1>7. ValidInput(mode, columns, id, named)'
  BY <1>2 DEF TypeOK, ValidInput
<1> QED BY <1>1, <1>2, <1>3, <1>4, <1>6, <1>7 DEF TypeOK


\* The suffix chosen for a column whose id is new differs from the suffix of
\* every earlier column of its base name, and is not 1.
LEMMA FreshSuffix ==
  ASSUME TypeOK, Decollided, AddColumn, id[pos] \notin DOMAIN suffixes
  PROVE  /\ NextSuffix # 1
         /\ NextSuffix <= seen[Base(mode, columns[pos])] + 1
         /\ named => NextSuffix = 0
         /\ ~named => \A i \in 1..(pos - 1) :
              Base(mode, columns[i]) = Base(mode, columns[pos]) =>
                suffixes[id[i]] # NextSuffix
<1> DEFINE b == Base(mode, columns[pos])
<1>1. pos \in 1..Len(columns) /\ Len(columns) \in 1..MaxColumns /\ MaxColumns \in Nat /\ b \in Bases
  BY AddColumnTypes
<1>2. seen[b] \in 0..MaxColumns
  BY <1>1 DEF TypeOK
<1>3. NextSuffix = IF seen[b] > 0 /\ ~named THEN seen[b] + 1 ELSE 0
  BY DEF NextSuffix
<1>4. ASSUME ~named, NEW i \in 1..(pos - 1), Base(mode, columns[i]) = b
      PROVE  suffixes[id[i]] # NextSuffix
  <2>1. seen[b] >= 1 /\ suffixes[id[i]] <= seen[b]
    BY <1>4 DEF Decollided
  <2>2. suffixes[id[i]] \in 0..MaxColumns
    BY <1>1, <1>4 DEF TypeOK, Decollided
  <2> QED BY <2>1, <2>2, <1>2, <1>3, <1>4
<1> QED BY <1>2, <1>3, <1>4

LEMMA AddColumnDecollided ==
  ASSUME TypeOK, Decollided, AddColumn
  PROVE  Decollided'
<1> DEFINE c == columns[pos]
           s == NextSuffix
           b == Base(mode, c)
<1>1. /\ c \in Column /\ id[pos] \in 1..MaxColumns /\ s \in 0..MaxColumns
      /\ pos \in 1..Len(columns) /\ Len(columns) \in 1..MaxColumns /\ MaxColumns \in Nat
      /\ b \in Bases /\ FieldStem(mode, c) \in Ident /\ c.type \in Type
  BY AddColumnTypes
<1>2. /\ seen' = [seen EXCEPT ![b] = @ + 1]
      /\ suffixes' = [k \in DOMAIN suffixes \union {id[pos]} |->
                         IF k = id[pos] THEN s ELSE suffixes[k]]
      /\ fields' = Append(fields, [name |-> Suffixed(FieldStem(mode, c), s), type |-> c.type])
      /\ pos' = pos + 1
      /\ UNCHANGED <<mode, columns, id, named, status>>
      /\ status = "building"
  BY DEF AddColumn, input
<1> HIDE DEF c, s, b
<1>3. fields \in Seq([name : Ident, type : Type]) /\ Len(fields) = pos - 1
  BY DEF TypeOK, Decollided
<1>4. Len(fields') = pos' - 1
  BY <1>1, <1>2, <1>3
<1>5. DOMAIN suffixes' = {id[i] : i \in 1..(pos' - 1)}
  <2>1. DOMAIN suffixes = {id[i] : i \in 1..(pos - 1)}
    BY DEF Decollided
  <2>2. 1..(pos' - 1) = 1..(pos - 1) \union {pos}
    BY <1>1, <1>2
  <2> QED BY <2>1, <2>2, <1>2
<1>6. \A x \in Bases : seen'[x] <= pos' - 1 /\ seen'[x] \in Int /\ seen'[x] >= seen[x]
  <2>1. ASSUME NEW x \in Bases
        PROVE  seen'[x] <= pos' - 1 /\ seen'[x] \in Int /\ seen'[x] >= seen[x]
    <3>1. seen[x] \in 0..MaxColumns /\ seen[x] <= pos - 1
      BY <1>1 DEF TypeOK, Decollided
    <3>2. seen'[x] = IF x = b THEN seen[x] + 1 ELSE seen[x]
      BY <1>2 DEF TypeOK
    <3> QED BY <3>1, <3>2, <1>1, <1>2
  <2> QED BY <2>1
\* An earlier column keeps its suffix: a repeated id gets the recorded one.
<1>7. \A i \in 1..(pos - 1) :
        /\ id[i] \in DOMAIN suffixes
        /\ suffixes'[id[i]] = suffixes[id[i]]
        /\ suffixes[id[i]] \in 0..MaxColumns
        /\ columns[i] \in Column /\ Base(mode, columns[i]) \in Bases
        /\ seen[Base(mode, columns[i])] \in 0..MaxColumns
        /\ id[pos] = id[i] => columns[i] = c /\ s = suffixes[id[i]]
  <2> TAKE i \in 1..(pos - 1)
  <2>1. id[i] \in DOMAIN suffixes
    BY DEF Decollided
  <2>2. columns[i] \in Column
    BY <1>1 DEF TypeOK
  <2>3. Base(mode, columns[i]) \in Bases
    BY <2>2, NamesOfColumns DEF TypeOK
  <2>4. seen[Base(mode, columns[i])] \in 0..MaxColumns /\ suffixes[id[i]] \in 0..MaxColumns
    BY <2>1, <2>3 DEF TypeOK
  <2>5. ASSUME id[pos] = id[i] PROVE columns[i] = c /\ s = suffixes[id[i]]
    <3>1. i \in 1..Len(columns) /\ pos \in 1..Len(columns) /\ i # pos
      BY <1>1
    <3>2. mode # "flat"
      BY <2>5, <3>1 DEF TypeOK, ValidInput
    <3>3. columns[i] = columns[pos]
      BY <2>5, <3>1 DEF TypeOK, ValidInput
    <3>4. NextSuffix = suffixes[id[pos]]
      BY <3>2, <2>1, <2>5 DEF NextSuffix, UsesId
    <3> QED BY <3>3, <3>4, <2>5 DEF c, s
  <2>6. suffixes'[id[i]] = suffixes[id[i]]
    BY <2>1, <2>5, <1>2
  <2> QED BY <2>1, <2>2, <2>3, <2>4, <2>5, <2>6
<1>8. suffixes'[id[pos]] = s
  BY <1>2
<1>9. seen'[b] = seen[b] + 1 /\ seen[b] \in 0..MaxColumns
  BY <1>1, <1>2 DEF TypeOK
\* The recorded suffix of a repeated id already satisfies the bounds.
<1>10. s # 1 /\ s <= seen[b] + 1 /\ (named => s = 0)
  <2>1. CASE id[pos] \in DOMAIN suffixes
    <3>1. PICK i \in 1..(pos - 1) : id[i] = id[pos]
      BY <2>1 DEF Decollided
    <3>2. /\ suffixes[id[i]] # 1 /\ suffixes[id[i]] <= seen[Base(mode, columns[i])]
          /\ named => suffixes[id[i]] = 0
      BY DEF Decollided
    <3> QED BY <3>1, <3>2, <1>7, <1>9 DEF b
  <2>2. CASE id[pos] \notin DOMAIN suffixes
    BY <2>2, FreshSuffix DEF s, b, c
  <2> QED BY <2>1, <2>2
<1>11. ASSUME NEW i \in 1..pos
       PROVE  /\ fields'[i] = [name |-> Suffixed(FieldStem(mode, columns[i]), suffixes'[id[i]]),
                               type |-> columns[i].type]
              /\ seen'[Base(mode, columns[i])] >= 1
              /\ suffixes'[id[i]] <= seen'[Base(mode, columns[i])]
              /\ suffixes'[id[i]] # 1
              /\ named => suffixes'[id[i]] = 0
  <2>1. CASE i = pos
    <3>1. fields'[pos] = [name |-> Suffixed(FieldStem(mode, c), s), type |-> c.type]
      BY <1>1, <1>2, <1>3
    <3> QED BY <3>1, <2>1, <1>1, <1>8, <1>9, <1>10 DEF b, c
  <2>2. CASE i # pos
    <3>1. i \in 1..(pos - 1)
      BY <2>2, <1>1
    <3>2. fields'[i] = fields[i]
      BY <3>1, <1>1, <1>2, <1>3
    <3>3. seen'[Base(mode, columns[i])] >= seen[Base(mode, columns[i])]
      BY <3>1, <1>6, <1>7
    <3>4. /\ fields[i] = [name |-> Suffixed(FieldStem(mode, columns[i]), suffixes[id[i]]),
                          type |-> columns[i].type]
          /\ seen[Base(mode, columns[i])] >= 1
          /\ suffixes[id[i]] <= seen[Base(mode, columns[i])]
          /\ suffixes[id[i]] # 1
          /\ named => suffixes[id[i]] = 0
      BY <3>1 DEF Decollided
    <3>5. /\ seen'[Base(mode, columns[i])] \in Int /\ seen[Base(mode, columns[i])] \in Int
          /\ suffixes[id[i]] \in Int
      BY <3>1, <1>6, <1>7
    <3> QED BY <3>1, <3>2, <3>3, <3>4, <3>5, <1>7
  <2> QED BY <2>1, <2>2
<1>12. ASSUME ~named, NEW i \in 1..pos, NEW j \in 1..pos, id[i] # id[j],
              Base(mode, columns[i]) = Base(mode, columns[j])
       PROVE  suffixes'[id[i]] # suffixes'[id[j]]
  \* Every id is that of an earlier column, or the new one.
  <2>1. ASSUME NEW k \in 1..(pos - 1), NEW l \in 1..(pos - 1), id[k] # id[l],
               Base(mode, columns[k]) = Base(mode, columns[l])
        PROVE  suffixes'[id[k]] # suffixes'[id[l]]
    <3>1. suffixes[id[k]] # suffixes[id[l]]
      BY <2>1, <1>12 DEF Decollided
    <3> QED BY <3>1, <1>7
  <2>2. ASSUME NEW k \in 1..(pos - 1), id[k] # id[pos], Base(mode, columns[k]) = b
        PROVE  suffixes'[id[k]] # s
    <3>1. CASE id[pos] \in DOMAIN suffixes
      <4>1. PICK l \in 1..(pos - 1) : id[l] = id[pos]
        BY <3>1 DEF Decollided
      <4>2. Base(mode, columns[l]) = b /\ s = suffixes[id[l]]
        BY <4>1, <1>7 DEF b
      <4> QED BY <4>1, <4>2, <2>1, <2>2, <1>7
    <3>2. CASE id[pos] \notin DOMAIN suffixes
      BY <3>2, <2>2, <1>7, <1>12, FreshSuffix DEF s, b, c
    <3> QED BY <3>1, <3>2
  <2>3. (i = pos \/ i \in 1..(pos - 1)) /\ (j = pos \/ j \in 1..(pos - 1))
    BY <1>1
  <2> QED BY <2>1, <2>2, <2>3, <1>8, <1>12 DEF b, c
<1>13. pos' - 1 = pos /\ mode' = mode /\ columns' = columns /\ id' = id /\ named' = named
       /\ status' = "building"
  BY <1>1, <1>2
<1>14. \A i \in 1..(pos' - 1) :
         LET d == columns'[i]
             t == suffixes'[id'[i]]
         IN /\ fields'[i] = [name |-> Suffixed(FieldStem(mode', d), t), type |-> d.type]
            /\ seen'[Base(mode', d)] >= 1
            /\ t <= seen'[Base(mode', d)]
            /\ t # 1
            /\ named' => t = 0
  BY <1>11, <1>13
<1>15. ~named' => \A i, j \in 1..(pos' - 1) :
         /\ id'[i] # id'[j]
         /\ Base(mode', columns'[i]) = Base(mode', columns'[j])
         => suffixes'[id'[i]] # suffixes'[id'[j]]
  BY <1>12, <1>13
<1>16. /\ \A x \in Bases : seen'[x] <= pos' - 1
       /\ DOMAIN suffixes' = {id'[i] : i \in 1..(pos' - 1)}
  BY <1>5, <1>6, <1>13
<1> QED BY <1>4, <1>13, <1>14, <1>15, <1>16 DEF Decollided


-----------------------------------------------------------------------------
(* The invariant, and what it gives. *)

LEMMA StepInv == Inv /\ [Next]_vars => Inv'
<1> SUFFICES ASSUME TypeOK, Decollided, [Next]_vars PROVE Inv'
  BY DEF Inv
<1>1. CASE AddColumn
  BY <1>1, AddColumnTypeOK, AddColumnDecollided DEF Inv
<1>2. CASE Finish
  <2>1. /\ UNCHANGED <<mode, columns, id, named, pos, seen, suffixes, fields>>
        /\ status' \in {"built", "failed"}
        /\ pos > Len(columns)
    BY <1>2 DEF Finish, input
  <2>2. TypeOK'
    BY <2>1 DEF TypeOK, ValidInput
  <2>3. pos = Len(columns) + 1
    BY <2>1 DEF TypeOK
  <2>4. Decollided'
    BY <2>1, <2>3 DEF Decollided
  <2> QED BY <2>2, <2>4 DEF Inv
<1>3. CASE UNCHANGED vars
  <2>1. UNCHANGED <<mode, columns, id, named, pos, seen, suffixes, fields, status>>
    BY <1>3 DEF vars
  <2>2. TypeOK'
    BY <2>1 DEF TypeOK, ValidInput
  <2>3. Decollided'
    BY <2>1, SMTT(30) DEF Decollided
  <2> QED BY <2>2, <2>3 DEF Inv
<1> QED BY <1>1, <1>2, <1>3 DEF Next

\* The loops keep their types: names of the instance, counts within the bound
\* (columnsToStruct and the flat argument loop of buildQueries).
THEOREM TypeCorrect == Spec => []TypeOK
<1>1. Inv => TypeOK
  BY DEF Inv
<1> QED BY InitInv, StepInv, <1>1, PTL DEF Spec

\* The bookkeeping of NameDisambiguator: recorded suffixes are those of the
\* emitted names, bounded by the count of their base name, and distinct in it.
THEOREM SuffixesRecorded == Spec => []Decollided
<1>1. Inv => Decollided
  BY DEF Inv
<1> QED BY InitInv, StepInv, <1>1, PTL DEF Spec

LEMMA DistinctWhenClean ==
  ASSUME TypeOK, Decollided, CleanInput, pos = Len(columns) + 1,
         NEW i \in 1..Len(columns), NEW j \in 1..Len(columns),
         fields[i].name = fields[j].name
  PROVE  id[i] = id[j]
<1> DEFINE x == FieldStem(mode, columns[i])
           y == FieldStem(mode, columns[j])
           s == suffixes[id[i]]
           t == suffixes[id[j]]
<1>1. /\ i \in 1..(pos - 1) /\ j \in 1..(pos - 1)
      /\ columns[i] \in Column /\ columns[j] \in Column /\ mode \in Modes
      /\ MaxColumns \in Nat /\ Len(columns) \in 1..MaxColumns
  BY SuffixableNames DEF TypeOK
<1>2. /\ x \in Ident /\ y \in Ident
      /\ Base(mode, columns[i]) \in Bases /\ Base(mode, columns[j]) \in Bases
  BY <1>1, NamesOfColumns
<1>3. /\ s \in 0..MaxColumns /\ t \in 0..MaxColumns /\ s # 1 /\ t # 1
      /\ named => s = 0 /\ t = 0
  BY <1>1 DEF TypeOK, Decollided
<1>4. Suffixed(x, s) = Suffixed(y, t)
  <2>1. /\ fields[i] = [name |-> Suffixed(x, s), type |-> columns[i].type]
        /\ fields[j] = [name |-> Suffixed(y, t), type |-> columns[j].type]
    BY <1>1 DEF Decollided
  <2> QED BY <2>1
<1>5. /\ x = y => Base(mode, columns[i]) = Base(mode, columns[j])
      /\ named /\ x = y => columns[i].name = columns[j].name
      /\ \A k \in 2..MaxColumns : x # Suffixed(y, k) /\ y # Suffixed(x, k)
  BY DEF CleanInput
<1> HIDE DEF x, y, s, t
<1>6. Suffixed(x, 0) = x /\ Suffixed(y, 0) = y
  BY DEF Suffixed
<1>7. x = y /\ s = t
  <2>1. CASE s = 0 /\ t = 0
    BY <2>1, <1>4, <1>6
  <2>2. CASE s = 0 /\ t # 0
    BY <2>2, <1>1, <1>3, <1>4, <1>5, <1>6
  <2>3. CASE s # 0 /\ t = 0
    BY <2>3, <1>1, <1>3, <1>4, <1>5, <1>6
  <2>4. CASE s # 0 /\ t # 0
    BY <2>4, <1>1, <1>2, <1>3, <1>4, SuffixedInjective
  <2> QED BY <2>1, <2>2, <2>3, <2>4
<1>8. CASE named
  <2>1. columns[i].name = columns[j].name
    BY <1>5, <1>7, <1>8
  <2> QED BY <2>1, <1>8 DEF TypeOK, ValidInput
<1>9. CASE ~named
  <2>1. Base(mode, columns[i]) = Base(mode, columns[j])
    BY <1>5, <1>7
  <2> QED BY <2>1, <1>1, <1>7, <1>9 DEF Decollided, s, t
<1> QED BY <1>8, <1>9

\* Over clean inputs two emitted names are equal only for one placeholder, for
\* every schema and every number of columns (NameDisambiguator.Next).
THEOREM FieldsDistinct == Spec => []CleanFieldsDistinct
<1>1. Inv => CleanFieldsDistinct
  <2> SUFFICES ASSUME TypeOK, Decollided, CleanInput, status = "built",
                      NEW i \in 1..Len(columns), NEW j \in 1..Len(columns),
                      fields[i].name = fields[j].name
               PROVE  id[i] = id[j]
    BY DEF Inv, CleanFieldsDistinct, DistinctFields
  <2>1. pos = Len(columns) + 1
    BY DEF Decollided
  <2> QED BY <2>1, DistinctWhenClean
<1> QED BY InitInv, StepInv, <1>1, PTL DEF Spec

\* Over clean inputs no step of the loop ends in the error of
\* checkIncompatibleFieldTypes.
THEOREM NeverFails == Spec => []CleanNeverFails
<1> DEFINE Safe == Inv /\ CleanNeverFails
<1>1. Init => Safe
  BY InitInv DEF Init, CleanNeverFails
<1>2. Safe /\ [Next]_vars => Safe'
  <2> SUFFICES ASSUME Inv, CleanNeverFails, [Next]_vars PROVE Safe'
    OBVIOUS
  <2>1. Inv'
    BY StepInv
  <2>2. CASE AddColumn
    <3>1. CleanNeverFails'
      BY <2>2 DEF AddColumn, CleanNeverFails
    <3> QED BY <3>1, <2>1
  <2>3. CASE Finish
    <3> SUFFICES ASSUME CleanInput', status' = "failed" PROVE FALSE
      BY <2>1 DEF CleanNeverFails
    <3>1. /\ Incompatible(fields) /\ pos > Len(columns)
          /\ UNCHANGED <<mode, columns, id, named, pos, seen, suffixes, fields>>
      BY <2>3 DEF Finish, input
    <3>2. TypeOK /\ Decollided /\ CleanInput
      BY <3>1 DEF Inv, CleanInput
    <3>3. pos = Len(columns) + 1 /\ Len(fields) = Len(columns)
      BY <3>1, <3>2 DEF TypeOK, Decollided
    <3>4. PICK i, j \in 1..Len(columns) :
            fields[i].name = fields[j].name /\ fields[i].type # fields[j].type
      BY <3>1, <3>3 DEF Incompatible
    <3>5. id[i] = id[j]
      BY <3>2, <3>3, <3>4, DistinctWhenClean
    <3>6. columns[i] = columns[j]
      BY <3>2, <3>5 DEF TypeOK, ValidInput
    <3>7. fields[i].type = columns[i].type /\ fields[j].type = columns[j].type
      <4>1. i \in 1..(pos - 1) /\ j \in 1..(pos - 1)
        BY <3>3, <3>4
      <4> QED BY <4>1, <3>2 DEF Decollided
    <3> QED BY <3>4, <3>6, <3>7
  <2>4. CASE UNCHANGED vars
    <3>1. CleanNeverFails'
      BY <2>4 DEF vars, CleanNeverFails, CleanInput
    <3> QED BY <3>1, <2>1
  <2> QED BY <2>2, <2>3, <2>4 DEF Next
<1>3. Safe => CleanNeverFails
  OBVIOUS
<1> QED BY <1>1, <1>2, <1>3, PTL DEF Spec

=============================================================================
