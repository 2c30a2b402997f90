--------------------------- MODULE MCStructBuilder ---------------------------
(***************************************************************************)
(* Instances of StructBuilder: names that meet through every function the  *)
(* generator applies to them.                                              *)
(***************************************************************************)
EXTENDS StructBuilder

N(s) == [stem |-> s, suffix |-> <<>>]
Numbered(s, k) == [stem |-> s, suffix |-> <<k>>]

MCStem == {"status", "Status", "Status2", "item", "items", "Item", "Items",
           "user", "users", "User", "Users", "class", "class_", "Class"}
MCType == {"str", "int", "models.User"}
MCName == {N("status"), N("Status"), Numbered("status", 2), N("item"), N("items"),
           N("user"), N("users"), N("User"), N("class"), N("class_")}

\* core.SnakeToCamel on these names
MCCamel ==
  [n \in MCName |->
     CASE n.stem \in {"status", "Status"} -> IF n.suffix = <<>> THEN N("Status") ELSE N("Status2")
       [] n.stem \in {"user", "User"}   -> N("User")
       [] n.stem = "users"              -> N("Users")
       [] n.stem = "item"               -> N("Item")
       [] n.stem = "items"              -> N("Items")
       [] n.stem \in {"class", "class_"} -> N("Class")]

\* inflection.Singular on these names
MCSingular ==
  [n \in MCName |-> CASE n.stem = "items" -> N("item")
                      [] n.stem = "users" -> N("user")
                      [] OTHER           -> n]

\* singularize_result_columns: false
MCVerbatim == [n \in MCName |-> n]

\* core.EscapeFieldName on these names: class is a keyword
MCEscape == [n \in MCName |-> IF n.stem = "class" THEN N("class_") ELSE n]

Col(n, t) == [name |-> n, key |-> n, type |-> t]
UserEmbed == [name |-> N("users"), key |-> N("User"), type |-> "models.User"]

MCColumn ==
  {Col(N("status"), "str"), Col(N("status"), "int"), Col(N("Status"), "str"),
   Col(Numbered("status", 2), "str"), Col(N("user"), "str"), UserEmbed,
   Col(N("item"), "str"), Col(N("items"), "str"),
   Col(N("class"), "str"), Col(N("class_"), "str")}

MCAllModes == {"row", "params", "flat"}
MCRowMode == {"row"}

=============================================================================
