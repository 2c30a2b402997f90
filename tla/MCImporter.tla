----------------------------- MODULE MCImporter ------------------------------
(***************************************************************************)
(* An instance of Importer: a query with each type in each place a query    *)
(* can have one, alone and beside queries that import nothing or much.      *)
(***************************************************************************)
EXTENDS Importer

CONSTANTS
  Drivers,     \* the drivers of the instance
  Companions   \* the kinds of the second queries, see Others

\* An option that no file of its driver depends on has one value.
MCOptions ==
  {c \in AllOptions :
     /\ c.driver \in Drivers
     /\ c.speedups => c.driver \in Sqlite
     /\ c.builtinLists \/ c.omitBlock => c.driver \in {"asyncpg", "sqlalchemy"}
     /\ c.omitBlock => c.builtinLists
     /\ c.base \in {"int"} \cup (IF c.driver = "asyncpg" THEN {"uuid", "blob"} ELSE {})
                     \cup (IF c.driver \in Sqlite THEN {"date"} ELSE {})
     /\ c.override \in {"none", "validated"} => c.base = "int"}

\* Columns: one of each type, and two types whose names are the same or are
\* imported for different uses.
Singles(c) == {<<t>> : t \in Types(c)}
Pairs(c) == {<<"int", "T">>, <<"T", "int">>, <<"date", "T">>, <<"blob", "decimal">>} \cap Seq(Types(c))

Row(cols, esc, embeds) == Value("row", cols, esc, embeds)
One(t) == Class(<<t>>, FALSE)

Rets(c) ==
  Scalars(c) \cup {Model(Class(s, FALSE)) : s \in Singles(c) \cup Pairs(c)}
  \cup {Row(s, FALSE, {}) : s \in Singles(c) \cup Pairs(c)}
  \cup {Row(<<t>>, FALSE, {One(e)}) : t \in {"int", "date"}, e \in Types(c)}
  \cup {Row(<<"int">>, TRUE, {}), Row(<<>>, FALSE, {One("int"), One("date")})}

Flat(c) == {{v} : v \in Scalars(c)} \cup {{Scalar("date"), Scalar("decimal")}}
Args(c) ==
  {{}} \cup Flat(c) \cup {{Row(s, FALSE, {})} : s \in Singles(c) \cup Pairs(c)} \cup {{Row(<<"text">>, TRUE, {})}}

Query(f, cmd, ret, args) == [file |-> f, cmd |-> cmd, ret |-> ret, args |-> args]

Firsts(c) ==
  {Query("a", cmd, r, {}) : cmd \in {"one", "many"}, r \in Rets(c)}
  \cup {Query("a", "exec", Nothing, as) : as \in Args(c)}
  \cup {Query("a", cmd, Scalar(t), as) : cmd \in Many, t \in Types(c) \cap {"int", "T"}, as \in Flat(c)}
  \cup (IF c.driver = "asyncpg" THEN {Query("a", "copyfrom", Nothing, as) : as \in {s \in Args(c) : \E v \in s : Emits(v)}}
        ELSE {})

\* The companions: none, one that imports nothing, and two that import much.
Others(c) ==
  {{}} \cup
  {{Query(f, p.cmd, p.ret, {})} :
     f \in {"a", "b"},
     p \in {r \in {[cmd |-> "exec", ret |-> Nothing], [cmd |-> "many", ret |-> Scalar("decimal")],
                   [cmd |-> "one", ret |-> Row(<<"decimal">>, FALSE, {One("date")})],
                   [cmd |-> "one", ret |-> Model(One("date"))]} : r.ret.kind \in Companions}}

\* The tables that the queries read (omit_unused_models), or beside a lone query
\* another one as well.
ModelsOf(qs) ==
  {Class(q.ret.cols, q.ret.escaped) : q \in {p \in qs : p.ret.kind = "model"}}
    \cup UNION {q.ret.embeds : q \in qs}

Package(c, qs, spare) ==
  [queries |-> qs, models |-> ModelsOf(qs) \cup spare, enums |-> "enum" \in Types(c)]

MCPackages(c) ==
  {Package(c, {q} \cup others, {}) : q \in Firsts(c), others \in Others(c)}
  \cup {Package(c, {q}, {Class(<<"uuid", "ints">>, TRUE)} \cap Classes(c)) : q \in Firsts(c)}

=============================================================================
