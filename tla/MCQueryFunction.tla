--------------------------- MODULE MCQueryFunction ---------------------------
(***************************************************************************)
(* An instance of QueryFunction: overrides of the column t.a at each length   *)
(* of its path, of a type, without a type, and ones that are refused, with    *)
(* type names and modules that meet; nullability by name and by table.        *)
(***************************************************************************)
EXTENDS QueryFunction

AllNames == {"public", "other", "t", "u", "a", "b", ""}

Override(path, dbType, type, module, validate) ==
  [column |-> path, dbType |-> dbType, type |-> type, module |-> module, validate |-> validate]

MCOverrides ==
  {Override(<<{"t"}, {"a"}>>, "", "T", "m1", TRUE),
   Override(<<{"other"}, {"t"}, {"a"}>>, "", "T", "m2", FALSE),
   Override(<<{"public"}, AllNames, AllNames>>, "", "U", "m1", TRUE),
   Override(<<{""}, {"public"}, {"t"}, {"a"}>>, "", "U", "m2", FALSE),
   Override(<<{"t"}, {"b"}>>, "", "", "", FALSE),
   Override(<<>>, "jsonb", "T", "m2", TRUE),
   Override(<<>>, "text", "jsonb", "", FALSE),
   Override(<<{"a"}>>, "", "T", "m1", FALSE)}

Nullability(path, nullable) == [column |-> path, nullable |-> nullable]

MCNullabilities ==
  {Nullability(<<{"a"}>>, TRUE), Nullability(<<{"a"}>>, FALSE),
   Nullability(<<{"public"}, {"t"}, {"a", "b"}>>, TRUE),
   Nullability(<<{"x"}, {"public"}, {"t"}, {"a"}>>, TRUE)}
=============================================================================
