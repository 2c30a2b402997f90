---------------------------- MODULE MCGenerator ----------------------------
(***************************************************************************)
(* An instance of Generator: a shop with items, whose state is an enum,     *)
(* tables whose names collide after Singular and SnakeToCamel, and queries  *)
(* that refer to each kind of type in each place a query can.               *)
(***************************************************************************)
EXTENDS Generator

CONSTANT MaxQueries   \* bound on the queries of one request

Rel(s, n) == [schema |-> s, name |-> n]
Col(n, type, table) == [name |-> n, type |-> type, table |-> table, embed |-> NoTable]

Items == Rel("public", "items")
Item == Rel("public", "item")
Statuses == Rel("public", "statuses")
GetItemRows == Rel("public", "get_item_rows")
AuditItems == Rel("audit", "items")
PgClass == Rel("pg_catalog", "pg_class")

MCTables ==
  {[rel |-> Items, columns |-> <<Col("id", "int", NoTable), Col("state", "status", NoTable)>>],
   [rel |-> AuditItems, columns |-> <<Col("id", "int", NoTable), Col("state", "status", NoTable)>>],
   [rel |-> PgClass, columns |-> <<Col("oid", "int", NoTable)>>]}
    \cup {[rel |-> r, columns |-> <<Col("id", "int", NoTable)>>] : r \in {Item, Statuses, GetItemRows}}

Enum(r, members) == [rel |-> r, members |-> members]
Status == Enum(Rel("public", "status"), <<"OPEN", "DONE">>)
Lossy == Enum(Rel("audit", "status"), <<"OPEN", "OPEN">>)

\* items and the enum status are always there; what collides with them, or
\* with nothing, may be.
MCCatalogs ==
  {[tables |-> {t \in MCTables : t.rel = Items} \cup ts, enums |-> {Status} \cup es] :
     ts \in SUBSET {t \in MCTables : t.rel # Items}, es \in SUBSET {Lossy}}

Query(n, cmd, source, params, columns) ==
  [name |-> n, cmd |-> cmd, source |-> source, params |-> params, columns |-> columns,
   clash |-> FALSE, writable |-> TRUE]

Id == Col("id", "int", Items)
State == Col("state", "status", Items)
Count == Col("count", "int", NoTable)
Embed(t) == [Count EXCEPT !.embed = t]

MCQueries ==
  {Query("GetItem", "one", "a", <<>>, <<Id, State>>),                \* returns a model
   Query("GetItemRow", "one", "a", <<Id>>, <<Id, Count>>),           \* an inline row
   Query("GetItemRow", "one", "b", <<Id>>, <<State, Count>>),
   Query("ListStates", "many", "b", <<>>, <<State>>),                \* a scalar enum
   Query("CountIn", "one", "b", <<State>>, <<Count>>),               \* a flat enum argument
   Query("AddItem", "exec", "a", <<Id, State, Count>>, <<>>),        \* bundled by count
   Query("CopyItems", "copyfrom", "b", <<State>>, <<>>),             \* always bundled
   Query("Joined", "many", "a", <<>>, <<Embed(Items), Count>>),
   Query("Audited", "many", "b", <<>>, <<Embed(AuditItems)>>),
   Query("getItem", "exec", "a", <<Id>>, <<>>),                       \* the function name of GetItem
   Query("Batched", "batchmany", "a", <<Id>>, <<Id, Count>>),
   Query("Unnamed", "", "a", <<>>, <<Id, Count>>),
   [Query("Clashing", "one", "a", <<>>, <<Id, Id>>) EXCEPT !.clash = TRUE],
   [Query("Unbindable", "exec", "b", <<Id>>, <<>>) EXCEPT !.writable = FALSE]}

\* sqlc refuses two queries of one name.
MCQuerySets ==
  {qs \in UNION {kSubset(n, MCQueries) : n \in 1..MaxQueries} :
     \A q, r \in qs : q.name = r.name => q = r}

Opt(driver, omit, classes, qpl) ==
  [empty |-> FALSE, known |-> TRUE, driver |-> driver,
   engine |-> IF driver = "sqlite3" THEN "sqlite" ELSE "postgresql",
   qpl |-> qpl, initFile |-> IF classes THEN "yes" ELSE "no", package |-> TRUE,
   validate |-> FALSE, omit |-> omit, classes |-> classes]

Usual == Opt("sqlalchemy", FALSE, FALSE, 2)

MCOptions ==
  {Opt("sqlalchemy", omit, classes, 2) : omit, classes \in BOOLEAN}
    \cup {Opt("asyncpg", omit, FALSE, qpl) : omit \in BOOLEAN, qpl \in {0, 2}}
    \cup {Opt("sqlite3", FALSE, TRUE, 2)}

\* One option wrong at a time, and no options at all.
MCWrongOptions ==
  {[Usual EXCEPT !.empty = TRUE], [Usual EXCEPT !.known = FALSE], [Usual EXCEPT !.driver = "psycopg"],
   [Usual EXCEPT !.qpl = -1], [Usual EXCEPT !.initFile = "unset"],
   [Usual EXCEPT !.package = FALSE], [Usual EXCEPT !.engine = "sqlite"],
   [Opt("asyncpg", FALSE, FALSE, 2) EXCEPT !.validate = TRUE]}

MCAllOptions == MCOptions \cup MCWrongOptions

Qualifieds == {Qualified(t.rel) : t \in MCTables} \cup {<<"status">>, <<"audit", "status">>}

\* core.SnakeToCamel(inflection.Singular(name))
MCCamel ==
  [q \in Qualifieds |->
     CASE q \in {<<"items">>, <<"item">>}          -> <<"Item">>
       [] q \in {<<"status">>, <<"statuses">>}     -> <<"Status">>
       [] q = <<"get_item_rows">>                  -> <<"GetItem", "Row">>
       [] q = <<"audit", "items">>                 -> <<"Audit", "Item">>
       [] q = <<"audit", "status">>                -> <<"Audit", "Status">>
       [] OTHER                                    -> q]

QueryNames == {q.name : q \in MCQueries}

MCFuncName ==
  [n \in QueryNames |-> CASE n \in {"GetItem", "getItem"} -> <<"get", "item">>
                          [] n = "GetItemRow"              -> <<"get", "item", "row">>
                          [] OTHER                         -> <<n>>]
MCMethodName ==
  [n \in QueryNames |-> IF n = "GetItemRow" THEN <<"GetItem", "Row">> ELSE <<n>>]

=============================================================================
