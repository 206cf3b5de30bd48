---------------------------- MODULE MCCategorical ----------------------------
(***************************************************************************)
(* Instances of Categorical for TLC.                                       *)
(***************************************************************************)
EXTENDS Categorical

CONSTANTS a, b

Hinted(values, null) == [values |-> values, nullable |-> null]
Is(op, field, values) == [op |-> op, field |-> field, other |-> field, values |-> values]
Across(op, field, other) == [op |-> op, field |-> field, other |-> other, values |-> <<>>]
Rules(predicates) == [predicates |-> predicates, synthetic |-> FALSE]
WithArrayAny(rs) == [rs EXCEPT !.synthetic = TRUE]

Row(x, y) == (a :> x) @@ (b :> y)
Rows1(xs, ys) == {<<Row(x, y)>> : x \in xs, y \in ys}
Rows2(xs, ys) == {<<Row(x, y), Row(z, y)>> : x \in xs, z \in xs, y \in ys}

\* A category whose closed set the rules give, and an entity key.
CategoryAndKey == (a :> "CATEGORICAL") @@ (b :> "ENTITY_KEY")
Categories == [f \in Fields |-> "CATEGORICAL"]
NoHints == [f \in Fields |-> Hinted(<<>>, "infer")]

\* Two literals: masks of bits below BitWidth = 3; three: one code.
MixedRulesets == {
    Rules(<<Is("EQ", a, <<2>>), Is("NEQ", a, <<1>>), Is("CONTAINS_ALL", a, <<1, 2>>),
            Is("IN", b, <<3>>)>>),
    WithArrayAny(Rules(<<Is("IN", a, <<2, 3>>), Is("NOT_INTERSECTS", a, <<1, 3>>),
            Is("NOT_IN_LOOKUP", b, <<1, 2>>), Is("IS_NULL", a, <<>>)>>)),
    Rules(<<Is("IN_LOOKUP", a, <<1, 4>>), Is("NOT_IN", b, <<2>>)>>)}
MixedJson ==
    Rows1({Null, Text(1), Text(2), Text(4), List(<<1, 2>>), List(<<4, 2>>)}, {Text(3)})
        \cup Rows1({Text(2)}, {Null})
        \cup Rows2({Text(1), Text(3)}, {Text(2), List(<<1>>)})
MixedArrow == Rows1({Null, Text(2), Text(4)}, {Text(1)}) \cup Rows2({Text(1), Text(3)}, {Text(2)})
MixedDictionaries == {<<4, 1, 2>>, <<3, 1, 2>>}

\* Two categories with sets of their own.
OwnSets == (a :> Hinted(<<1, 2>>, "no")) @@ (b :> Hinted(<<2, 1>>, "no"))
SharedSet == [f \in Fields |-> Hinted(<<1, 2>>, "no")]
FieldRules == {Rules(<<Across("EQ_FIELD", a, b), Across("NEQ_FIELD", a, b)>>)}
FieldJson == Rows2({Text(1), Text(2)}, {Text(1), Text(2)})
FieldJsonLong ==
    {<<Row(w, Text(1)), Row(x, Text(1)), Row(y, Text(1)), Row(z, Text(1))>> :
        w \in {Text(1), Text(2)}, x \in {Text(1), Text(2)}, y \in {Text(1), Text(2)}, z \in {Text(1), Text(2)}}

\* The rules of lookup_resolution_tests.cpp.
LookupRules == {Rules(<<Is("IN_LOOKUP", a, <<1, 2>>)>>)}
CategoryHint == [f \in Fields |-> Hinted(<<>>, "no")]

\* An enumeration declared in full, at the width where the masks end.
DeclaredSet == [f \in Fields |-> Hinted(<<1, 2, 3>>, "no")]
ListRules == {Rules(<<Is("CONTAINS_ALL", a, <<1, 2>>), Is("CONTAINS_ANY", a, <<3>>)>>)}
ListJson == Rows1({List(s) : s \in {<<1>>, <<2, 3>>, <<1, 2>>, <<3, 1, 2>>}}, {Text(1)})

\* More texts than the dictionary has room for.
NullRules == {Rules(<<Is("IS_NULL", a, <<>>), Is("EQ", a, <<1>>)>>)}
NullArrow == Rows1({Null, Text(1), Text(2)}, {Text(1)})
=============================================================================
