---------------------------- MODULE StructBuilder ----------------------------
(***************************************************************************)
(* How the generator names the arguments of one query, or the fields of    *)
(* one generated struct.                                                   *)
(*                                                                         *)
(*   mode = "row"     columnsToStruct of a <Method>Row  (builders.go)       *)
(*   mode = "params"  columnsToStruct of a <Method>Params                   *)
(*   mode = "flat"    the keyword-only argument loop of buildQueries        *)
(*                                                                         *)
(* The loop takes one column a step.  core.NameDisambiguator gives a       *)
(* column a suffix from the number of earlier columns with the same BASE   *)
(* name; the emitted name is the FIELD stem with that suffix.  For a       *)
(* struct the two are computed differently (SnakeToCamel of the column     *)
(* against Singular of the column), which is what makes the distinctness   *)
(* of the fields worth checking.                                           *)
(*                                                                         *)
(* A Python name is a stem with the numeric suffixes appended to it, so    *)
(* that status_2 may come from the schema as well as from the              *)
(* disambiguator.  SnakeToCamel, Singular and Escape are parameters: what  *)
(* they do to the names of an instance is given by the MC module.          *)
(***************************************************************************)
EXTENDS Integers, Sequences, FiniteSets

CONSTANTS
  Stem,        \* the textual parts of names
  Name,        \* the names SQL may give a column, or a model may have
  Type,        \* the Python types a column may resolve to
  Column,      \* the columns a query may have
  MaxColumns,  \* bound on the columns of one query
  Modes,       \* the modes explored by an instance
  Camel,       \* core.SnakeToCamel on the names of the instance
  Singular,    \* inflection.Singular, or the identity when it is switched off
  Escape       \* the driver's escapeParamName

Ident == [stem : Stem, suffix : Seq(Nat)]

ASSUME SuffixableNames ==
  /\ Name \subseteq Ident
  /\ MaxColumns \in Nat
  /\ Modes \subseteq {"row", "params", "flat"}

ASSUME ColumnType == Column \subseteq [name : Name, key : Name, type : Type]

ASSUME NameFunctions ==
  /\ Camel \in [Name -> Ident]
  /\ Singular \in [Name -> Ident]
  /\ Escape \in [Name -> Ident]

VARIABLES
  mode,      \* which of the three loops runs
  columns,   \* the columns of the query, or the parameters
  id,        \* goColumn.id: the column index, or the placeholder number
  named,     \* plugin.Column.IsNamedParam, the same for every parameter
  pos,       \* the loop index
  seen,      \* NameDisambiguator.seen: how many columns used a base name
  suffixes,  \* NameDisambiguator.suffixes, by id
  fields,    \* gs.Columns: the emitted names so far
  status

vars == <<mode, columns, id, named, pos, seen, suffixes, fields, status>>
input == <<mode, columns, id, named>>

-----------------------------------------------------------------------------
(* Names *)

Suffixed(name, k) ==
  IF k = 0 THEN name
  ELSE [stem |-> name.stem, suffix |-> Append(name.suffix, k)]

\* builders.go:414 and :303. `key' is the column name, or the model name of
\* an embedded table.
Base(m, c) == IF m = "flat" THEN Escape[c.name] ELSE Camel[c.key]

\* builders.go:432 and :303.
FieldStem(m, c) == IF m = "flat" THEN Escape[c.name] ELSE Singular[c.name]

Bases == {Base(m, c) : m \in Modes, c \in Column}

\* core.NameDisambiguator.Next: the suffix for the column at hand.
UsesId(m) == m # "flat"
\* Two bugs it could have, which the properties below must notice: the suffix
\* not advancing with the count, and the count off by one.
StuckSuffix ==
  IF UsesId(mode) /\ id[pos] \in DOMAIN suffixes THEN suffixes[id[pos]]
  ELSE IF seen[Base(mode, columns[pos])] > 0 /\ ~named THEN 2 ELSE 0

SkippedSuffix ==
  IF UsesId(mode) /\ id[pos] \in DOMAIN suffixes THEN suffixes[id[pos]]
  ELSE IF seen[Base(mode, columns[pos])] > 0 /\ ~named
         THEN seen[Base(mode, columns[pos])] + 2 ELSE 0

NextSuffix ==
  LET c == columns[pos]
      v == seen[Base(mode, c)]
  IN IF UsesId(mode) /\ id[pos] \in DOMAIN suffixes THEN suffixes[id[pos]]
     ELSE IF v > 0 /\ ~named THEN v + 1
     ELSE 0

-----------------------------------------------------------------------------
(* The inputs sqlc can pass: columns of a result are numbered by position;  *)
(* a parameter is numbered by its placeholder, two parameters with one      *)
(* number are the same parameter, and the flat loop relies on sqlc having   *)
(* removed them (comment at builders.go:297).  Named parameters with one    *)
(* name are one placeholder.                                                *)

ColumnLists == UNION {[1..n -> Column] : n \in 1..MaxColumns}

ValidInput(m, cs, ids, nm) ==
  /\ ids \in [1..Len(cs) -> 1..MaxColumns]
  /\ m = "row" => ~nm /\ \A i \in 1..Len(cs) : ids[i] = i
  /\ m = "flat" => \A i, j \in 1..Len(cs) : ids[i] = ids[j] => i = j
  /\ \A i, j \in 1..Len(cs) : ids[i] = ids[j] => cs[i] = cs[j]
  /\ nm => \A i, j \in 1..Len(cs) : cs[i].name = cs[j].name => ids[i] = ids[j]

Init ==
  /\ mode \in Modes
  /\ columns \in ColumnLists
  /\ named \in BOOLEAN
  /\ id \in [1..Len(columns) -> 1..MaxColumns]
  /\ ValidInput(mode, columns, id, named)
  /\ pos = 1
  /\ seen = [b \in Bases |-> 0]
  /\ suffixes = <<>>
  /\ fields = <<>>
  /\ status = "building"

\* One turn of the loop in columnsToStruct, or of the flat argument loop.
AddColumn ==
  /\ status = "building"
  /\ pos <= Len(columns)
  /\ LET c == columns[pos]
         s == NextSuffix
     IN /\ seen' = [seen EXCEPT ![Base(mode, c)] = @ + 1]
        /\ suffixes' = [k \in DOMAIN suffixes \union {id[pos]} |->
                          IF k = id[pos] THEN s ELSE suffixes[k]]
        /\ fields' = Append(fields, [name |-> Suffixed(FieldStem(mode, c), s),
                                     type |-> c.type])
  /\ pos' = pos + 1
  /\ UNCHANGED <<input, status>>

\* checkIncompatibleFieldTypes: each field against the first of its name.
Incompatible(fs) ==
  \E i, j \in 1..Len(fs) : fs[i].name = fs[j].name /\ fs[i].type # fs[j].type

\* The structs are checked, the flat arguments are not.
Finish ==
  /\ status = "building"
  /\ pos > Len(columns)
  /\ status' = IF mode # "flat" /\ Incompatible(fields) THEN "failed" ELSE "built"
  /\ UNCHANGED <<input, pos, seen, suffixes, fields>>

Next == AddColumn \/ Finish

Spec == Init /\ [][Next]_vars

-----------------------------------------------------------------------------
(* Properties *)

\* The type invariant: the loop only writes names made of the stems of the
\* instance, and counts within the bound (columnsToStruct, buildQueries).
TypeOK ==
  /\ mode \in Modes
  /\ columns \in Seq(Column)
  /\ Len(columns) \in 1..MaxColumns
  /\ named \in BOOLEAN
  /\ ValidInput(mode, columns, id, named)
  /\ pos \in 1..(Len(columns) + 1)
  /\ seen \in [Bases -> 0..MaxColumns]
  /\ DOMAIN suffixes \subseteq 1..MaxColumns
  /\ \A k \in DOMAIN suffixes : suffixes[k] \in 0..MaxColumns
  /\ fields \in Seq([name : Ident, type : Type])
  /\ status \in {"building", "built", "failed"}

\* What the schema must not contain for the disambiguator to be enough: two
\* columns with one field name and different base names (item and items), a
\* column that is literally named like a suffixed one (status_2), and two named
\* parameters that the escape or the singular maps to one name.
CleanInput ==
  \A i, j \in 1..Len(columns) :
    LET x == FieldStem(mode, columns[i])
        y == FieldStem(mode, columns[j])
    IN /\ x = y => Base(mode, columns[i]) = Base(mode, columns[j])
       /\ \A k \in 2..MaxColumns : x # Suffixed(y, k)
       /\ named /\ x = y => columns[i].name = columns[j].name

DistinctFields ==
  status = "built" =>
    \A i, j \in 1..Len(columns) : fields[i].name = fields[j].name => id[i] = id[j]

\* Over clean inputs the loop de-collides: two emitted names are the same only
\* for one placeholder, however the columns of one base name are interleaved
\* (NameDisambiguator.Next, utils.go:172).
CleanFieldsDistinct == CleanInput => DistinctFields

\* Over clean inputs checkIncompatibleFieldTypes (builders.go:482) has nothing to
\* refuse: no valid query stops the generation.
CleanNeverFails == CleanInput => status # "failed"

\* README.md:72: "Two query columns resolving to the same name are de-collided
\* rather than silently shadowing each other."
RowColumnsDecollided == mode = "row" => DistinctFields

\* The inductive invariant behind CleanFieldsDistinct: every emitted name is its
\* stem with the suffix recorded for its id, suffixes of one base name are
\* bounded by the number of columns that used it, and they differ.
Decollided ==
  /\ Len(fields) = pos - 1
  /\ status # "building" => pos = Len(columns) + 1
  /\ DOMAIN suffixes = {id[i] : i \in 1..(pos - 1)}
  /\ \A b \in Bases : seen[b] <= pos - 1
  /\ \A i \in 1..(pos - 1) :
       LET c == columns[i]
           s == suffixes[id[i]]
       IN /\ fields[i] = [name |-> Suffixed(FieldStem(mode, c), s), type |-> c.type]
          /\ seen[Base(mode, c)] >= 1
          /\ s <= seen[Base(mode, c)]
          /\ s # 1
          /\ named => s = 0
  /\ ~named => \A i, j \in 1..(pos - 1) :
       /\ id[i] # id[j]
       /\ Base(mode, columns[i]) = Base(mode, columns[j])
       => suffixes[id[i]] # suffixes[id[j]]
=============================================================================
