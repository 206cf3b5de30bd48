---------------------------- MODULE MCRuleLoading ----------------------------
(* A small instance of RuleLoading: every kind of condition, alone, negated,  *)
(* joined and next to its negation, in YAML; every shape of AND, OR and NOT   *)
(* up to three levels in SQL; pairs of rules over one column.                 *)
EXTENDS RuleLoading

W(word) == <<word>>
MCLowerOf == [U |-> "u"]
MCUpperOf == [and |-> "AND", gt |-> "GT"]
MCAddressOf == [text \in {<<"a0">>, <<"a1">>, <<"a2">>, <<"a4">>, <<"a5">>} |->
                  CASE text = <<"a0">> -> 0 [] text = <<"a1">> -> 1 [] text = <<"a2">> -> 2 [] text = <<"a4">> -> 4 [] OTHER -> 5]
MCMatching == {<<<<"U", "s">>, <<"s">>>>, <<<<"u", "s">>, <<"s">>>>}
MCBadPatterns == {<<"[">>}
Nums == {-1, 0, 1, 2, 3, 5}
MCKilometres == [p \in Nums \X Nums \X Nums \X Nums |-> (p[1] - p[3]) * (p[1] - p[3]) + (p[2] - p[4]) * (p[2] - p[4])]
MCWords == {"AND", "OR", "NOT", "IN", "IS", "NULL", "BETWEEN", "LIKE", "amount", "country", "note", "u", "s"}
MCFiles == [path \in {<<"nets">>, <<"within">>, <<"names">>, <<"counts">>} |->
    CASE path = <<"nets">> -> <<<<"cidr">>, <<"a2", "/", "2">>, <<"a4", "/", "3">>, <<"a2", "/", "3">>, <<"a0", "/", "3">>>>
      [] path = <<"within">> -> <<<<"cidr">>, <<"a0", "/", "1">>, <<"a1", "/", "3">>>>
      [] path = <<"names">> -> <<<<"id", ",", "value">>, <<"1", ",", "\"", "s", "\"">>, <<"2", ",">>>>
      [] OTHER -> <<<<"value">>, <<"3">>, <<"1">>>>]
MCLookupNodes ==
    LET entry(type, path) == Map(<<"type", "path">>, <<Scalar(<<type>>), Scalar(path)>>)
    IN Map(<<"Nets", "Within", "Names", "Counts">>,
           <<entry("IPV4_CIDR_SET", <<"nets">>), entry("IPV4_CIDR_SET", <<"within">>), entry("STRING_SET", <<"names">>), entry("INT_SET", <<"counts">>)>>)

ColumnOf(name, type) == NamedColumn(<<name>>, Column(type, <<>>))
MCBoundSchema ==
    <<ColumnOf("amount", "FLOAT64"), ColumnOf("total", "FLOAT64"), ColumnOf("count", "INT64"),
      ColumnOf("when", "TIMESTAMP_MS"), ColumnOf("country", "CATEGORICAL"), ColumnOf("home", "CATEGORICAL"),
      NamedColumn(<<"tags">>, Column("CATEGORICAL", <<<<"s">>, <<"u">>, <<"t">>>>)), ColumnOf("user", "ENTITY_KEY"),
      ColumnOf("note", "STRING"), ColumnOf("ip", "STRING")>>

N(n) == [Cell EXCEPT !.num = n]
T(text) == [Cell EXCEPT !.text = text]
B(texts) == [Cell EXCEPT !.isSet = TRUE, !.bits = texts]
NaNCell == [Cell EXCEPT !.nan = TRUE]
RowOf(cells) == [name \in {MCBoundSchema[i].name : i \in DOMAIN MCBoundSchema} |-> cells[IndexOf(MCBoundSchema, name)]]
Row1 == RowOf(<<N(2), N(1), N(5), N(47), T(<<"u">>), T(<<"u">>), B({<<"s">>, <<"u">>}), T(<<"s">>), T(<<"U", "s">>), T(<<"a2">>)>>)
Row2 == RowOf(<<N(-1), N(3), N(-1), N(-30), T(<<"s">>), T(<<"u">>), B({}), T(<<"u">>), T(<<>>), T(<<"a5">>)>>)
Row3 == RowOf(<<N(5), N(5), N(3), N(100), T(<<"u">>), T(<<"s">>), B({<<"t">>}), T(<<"t">>), T(<<"u", "s">>), T(<<"a4">>)>>)
Row4 == RowOf(<<NullCell, N(0), NullCell, NullCell, NullCell, T(<<"s">>), NullCell, NullCell, NullCell, NullCell>>)
Row5 == RowOf(<<NaNCell, NullCell, N(0), N(0), T(<<"t">>), NullCell, B({<<"s">>}), T(<<"s">>), T(<<"s">>), T(<<"a0">>)>>)
MCBatches == {<<Row1, Row3>>, <<Row2, Row1, Row4>>, <<Row3, Row5, Row2>>}

\* A value that depends on all it is computed from.
MCComputed(asked, row) ==
    (asked[3][1] + 2 * asked[3][Len(asked[3])] + asked[4] + Len(asked[2]) + row[<<"total">>].num) % 6
MCElements(path, where, row) == (row[<<"total">>].num + Len(where[1].nums)) % 2 = 1

-----------------------------------------------------------------------------
Leaf(kind, op, field, nums, texts) == Condition(kind, op, <<<<field>>>>, nums, texts)
Cross(op, f, g) == Condition("CrossField", op, <<<<f>>, <<g>>>>, <<>>, <<>>)
Window(fn, summed, per, seconds, op, value) ==
    Condition("Window", op, <<<<"user">>, summed, per>>, <<value, seconds>>, <<<<fn>>>>)
F(name) == Expr("FIELD", <<name>>, 0, <<>>)
L(n) == Expr("LITERAL", <<>>, n, <<>>)
Sum(op, l, r, kind, fields, n) ==
    [Condition("Arithmetic", op, fields, <<n>>, <<>>) EXCEPT !.expr = Expr(kind, <<>>, 0, <<l, r>>)]
AnyOf(path, where) ==
    ArrayAny(path, <<where>>, <<Map(<<"path", "where">>, <<Scalar(path), WriteYaml(where)>>)>>)
Big == Leaf("Numeric", "GT", "amount", <<2>>, <<>>)
Numerics == {Leaf("Numeric", op, "amount", <<2>>, <<>>) : op \in NumericOps}
            \union {Leaf("NumericRange", op, "amount", <<2, 5>>, <<>>) : op \in RangeOps}
Categoricals == {Leaf("Categorical", op, "country", <<>>, <<<<"u">>>>) : op \in {"EQ", "NEQ", "IN", "NOT_IN"}}
                \union {Leaf("Categorical", op, "tags", <<>>, <<<<"s">>, <<"u">>>>) : op \in MemberOps}
Texts0 == {Leaf("String", op, "note", <<0>>, <<<<"u">>>>) : op \in StringOps \ LengthOps}
          \union {Leaf("String", op, "note", <<1>>, <<<<>>>>) : op \in LengthOps}
          \union {Leaf("Regex", op, "note", <<>>, <<<<"s">>>>) : op \in RegexOps}
Nulls == {Leaf("Null", op, f, <<>>, <<>>) : op \in NullOps, f \in {"note", "country"}}
Others ==
    {Leaf("ArrayLen", op, "tags", <<1>>, <<>>) : op \in LenOps}
    \union {Cross(op, "amount", "total") : op \in FieldOps} \union {Cross("EQ_FIELD", "country", "home")}
    \union {Leaf("Bitfield", op, "count", <<3>>, <<>>) : op \in FlagOps}
    \union {Leaf("Bitfield", "FLAGS_ANY", "amount", <<3>>, <<>>)}
    \union {Leaf("Lookup", op, f[1], <<>>, <<<<f[2]>>>>) :
              op \in LookupOps, f \in {<<"ip", "Nets">>, <<"country", "Names">>, <<"tags", "Names">>, <<"count", "Counts">>}}
    \union {Leaf("Cidr", op, "ip", <<>>, <<<<"a4", "/", "2">>>>) : op \in SubnetOps}
    \union {Leaf("Temporal", op, "when", <<1>>, <<>>) : op \in {"BEFORE", "AFTER", "WITHIN_LAST"}}
    \union {Leaf("Temporal", "DAY_OF_WEEK_IN", "when", <<3, 5>>, <<>>)}
    \union {Leaf("Temporal", "TIME_OF_DAY_BETWEEN", "when", hours, <<>>) : hours \in {<<3, 19>>, <<20, 4>>}}
    \union {Condition("Geo", op, <<<<"amount">>, <<"total">>, <<"total">>, <<"amount">>>>, <<5>>, <<>>) : op \in DistanceOps}
    \union {Sum("GT", F("amount"), F("total"), kind, <<>>, 3) : kind \in {"ADD", "SUB", "MUL", "DIV"}}
    \union {Sum("LTE", F("count"), L(2), "DIV", <<<<"total">>>>, 0)}
Windows == {Window("COUNT", <<>>, <<>>, 1, "GT", 2), Window("COUNT", <<>>, <<>>, 2, "GT", 2),
            Window("SUM", <<"amount">>, <<>>, 1, "LT", 3), Window("SUM", <<"total">>, <<>>, 1, "LT", 3),
            Window("RATIO", <<"amount">>, <<"total">>, 1, "GTE", 1), Window("RATIO", <<"amount">>, <<"count">>, 1, "GTE", 1),
            Condition("ModelScore", "GT", <<<<"amount">>>>, <<1>>, <<<<"m">>, <<"0">>>>),
            Condition("ModelScore", "GT", <<<<"amount">>>>, <<2>>, <<<<"m">>, <<"1">>>>),
            Condition("Vector", "BETWEEN_INCLUDING", <<<<"amount">>, <<"total">>>>, <<1, 3>>, <<<<"L2">>, <<"1">>, <<"2">>>>),
            AnyOf(<<"items">>, Big), AnyOf(<<"items">>, Leaf("Null", "IS_NULL", "amount", <<>>, <<>>))}
Leaves == Numerics \union Categoricals \union Texts0 \union Nulls \union Others \union Windows

Both(a, b) == Junction("And", <<a, b>>)
One(a, b) == Junction("Or", <<a, b>>)
No(a) == Junction("Not", <<a>>)
Yaml(tree) == [meant |-> tree, form |-> "yaml"]
Sql(tree) == [meant |-> tree, form |-> "sql"]
Alone == {<<Yaml(l), Yaml(No(l)), Yaml(No(No(l)))>> : l \in Leaves}
         \union {<<Yaml(Both(l, Big)), Yaml(No(One(Big, l)))>> : l \in Leaves}
Related == {<<Yaml(l), Yaml(m)>> : l, m \in Windows} \union {<<Yaml(l), Yaml(m)>> : l, m \in Numerics} \union {<<Yaml(l), Yaml(Both(Big, m))>> : l, m \in Numerics}
           \union {<<Yaml(l), Yaml(Leaf("Categorical", op, "country", <<>>, <<<<"s">>>>))>> : l \in Categoricals, op \in {"EQ", "IN"}}
Atoms == {Leaf("Numeric", "LTE", "amount", <<5>>, <<>>), Leaf("Categorical", "NOT_IN", "country", <<>>, <<<<"u">>, <<"s">>>>)}
Shapes(trees) == {No(t) : t \in trees} \union {Both(t, u) : t, u \in trees} \union {One(t, u) : t, u \in trees}
Small == {Leaf("NumericRange", "BETWEEN_INCLUDING", "amount", <<-1, 10>>, <<>>), Leaf("Null", "IS_NOT_NULL", "country", <<>>, <<>>),
          Leaf("String", "STARTS_WITH", "note", <<0>>, <<<<"u">>>>)}
Textual == {<<Sql(t)>> : t \in Shapes(Atoms \union Shapes(Atoms))} \union {<<Sql(No(No(One(a, b))))>> : a, b \in Small}
           \union {<<Yaml(No(No(No(No(Big)))))>>}
Wrong == {<<Yaml(Leaf("Numeric", "GT", "missing", <<2>>, <<>>))>>, <<Yaml(Leaf("Regex", "REGEX", "note", <<>>, <<<<"[">>>>))>>,
          <<Yaml(Leaf("String", "CONTAINS", "country", <<0>>, <<<<"u">>>>))>>}
MCRuleSets == Alone \union Related \union Textual \union Wrong
=============================================================================
