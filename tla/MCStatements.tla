---------------------------- MODULE MCStatements ----------------------------
(* Module Statements for TLC: two schemas and a table name in two spellings. *)
EXTENDS Statements, TLC

MCLower == [n \in SchemaNames \cup TableNames |-> CASE n = "S" -> "s" [] n = "T" -> "t" [] OTHER -> n]
MCUpper == [n \in SchemaNames \cup TableNames |-> CASE n = "s" -> "S" [] n = "t" -> "T" [] OTHER -> n]

Symmetry == Permutations(Workers)

Bare(t) == <<"", t>>
Command(op, name, mode, from, arg) == [op |-> op, name |-> name, mode |-> mode, from |-> from, arg |-> arg]
On(op, mode) == Command(op, Bare("t"), mode, <<>>, <<>>)
InS(op, mode) == Command(op, <<"s", "t">>, mode, <<>>, <<>>)
OnView(op, mode, from) == Command(op, Bare("v"), mode, from, <<>>)
Schema(op, mode) == Command(op, <<"s", "">>, mode, <<>>, <<>>)
As(mode, from, fields) == Command("create_table", Bare("t"), mode, from, fields)
Tuple(op, mode, values) == Command(op, Bare(""), mode, <<>>, values)
Both(value) == [a |-> value, b |-> value]
Use(key, value) == Command("use", Bare(""), "plain", <<>>, [key |-> key, value |-> value])
Url(op, mode, u) == Command(op, Bare("t"), mode, <<>>, u)

Column(n) == [form |-> "column", name |-> n, args |-> <<>>]
Transform(f, args) == [form |-> "function", name |-> f, args |-> args]
N == [form |-> "number", name |-> "2", args |-> <<>>]
GoodFields == <<Column("c"), Transform("day", <<Column("c")>>), Transform("bucket", <<N, Column("c")>>)>>
BadFields == {<<Column("x")>>, <<Transform("bucket", <<Column("c"), N>>)>>, <<Transform("week", <<Column("c")>>)>>}

MCMenus == {
    {On("create_table", "or_replace"), On("drop_table", "plain"), On("select", "pivot")},
    {On("create_table", "if_not_exists"), On("drop_table", "if_exists"), On("truncate", "plain")},
    {As("or_replace", <<"s", "t">>, GoodFields), InS("create_table", "plain"), On("insert", "plain")},
    {As("or_replace", <<>>, f) : f \in BadFields} \cup {On("describe", "plain"), InS("show_columns", "plain"), On("create_table", "if_not_exists")},
    {OnView("create_view", "plain", Bare("t")), OnView("select", "plain", <<>>), On("insert", "plain"),
     OnView("drop_view", "plain", <<>>)},
    {OnView("create_view", "or_replace", Bare("t")), Command("create_view", Bare("t"), "or_replace", <<"s", "t">>, <<>>),
     On("drop_view", "if_exists"), On("select", "plain")},
    {InS("create_table", "plain"), Schema("drop_schema", "if_exists"), Schema("create_schema", "plain"),
     InS("drop_table", "plain")},
    {Schema("drop_schema", "plain"), Schema("create_schema", "if_not_exists"),
     Command("show_schemas", Bare(""), "plain", <<>>, <<>>), InS("show_objects", "plain")},
    {On("show_tables", "plain"), On("show_views", "plain"), On("drop_table", "plain"), On("create_table", "plain"),
     OnView("create_view", "plain", Bare("t"))},
    {Use("schema", "s"), Use("", ""), On("alter_table", "plain"), OnView("create_view", "plain", Bare("t")), InS("alter_table", "if_exists")},
    {Tuple("set", "plain", Both("1")), Tuple("set", "fails", Both("2")), Tuple("set", "length", Both("3")),
     Tuple("set", "plain", [c |-> "4", d |-> "refused"] @@ Both("4")),
     Tuple("unset", "plain", [c |-> "5"] @@ Both(""))},
    {Url("copy_into", "plain", "b2"), Url("copy_into", "bad_format", "b1"), Url("copy_into", "from_stage", "b1"),
     Url("copy_into", "integration", "b2")},
    {Url("create_stage", "plain", "b2"), Url("create_stage", "bad_url", "b1"), Url("copy_into", "plain", "b1"),
     On("drop_table", "plain")},
    {On("drop_database", "plain"), On("select", "plain"), On("create_table", "plain")},
    {On("update", "plain"), On("create_database", "plain")}}

Namespaces == {"public", "s"}
Iceberg(existing, namespaces) ==
    [namespaces |-> namespaces, next |-> 2,
     tables |-> [p \in Paths |-> IF p \in existing THEN [id |-> 1, snap |-> 1] ELSE NoTable]]

MCStarts ==
    LET empty == Iceberg({}, Namespaces)
        filled == Iceberg({<<"public", "t">>}, Namespaces)
        upper == Iceberg({<<"S", "T">>}, {"public", "S"})
    IN  {[cat |-> register_iceberg_catalog(empty), ice |-> empty],
         [cat |-> register_iceberg_catalog(filled), ice |-> filled],
         [cat |-> register_iceberg_catalog_lazy(upper, {"public"}, <<"S", "T">>), ice |-> upper]}
=============================================================================
