------------------------------ MODULE MCIngest ------------------------------
(* A small instance of Ingest: a schema that is given and one that is         *)
(* inferred, three rule files, and all streams of up to three records of a    *)
(* few shapes, in all ways to cut them in chunks.  Bytes have two bits, and a *)
(* mask has room for two closed values.                                       *)
EXTENDS Ingest

W(word) == <<word>>
Number(n, float) == [Value("number") EXCEPT !.num = n, !.float = float]
Truth(n) == [Value("boolean") EXCEPT !.num = Half(n)]
Text(word) == [Value("string") EXCEPT !.text = <<word>>]
Array(items) == [Value("array") EXCEPT !.items = items]
Object(fields) == [Value("object") EXCEPT !.fields = fields]
Part(name, value) == Field(<<name>>, value)
Nothing == Value("null")

\* Lines of qty and sku; the first element fulfils the condition on qty.
Big == Object(<<Part("qty", Number(6, FALSE)), Part("sku", Text("u"))>>)
Little == Object(<<Part("sku", Text("v")), Part("qty", Number(2, FALSE))>>)
User(value) == Part("user", Object(<<Part("name", value)>>))

Whole1 == ObjectOf(<<Part("amount", Number(3, TRUE)), Part("flag", Truth(1)), User(Text("u")),
                     Part("items", Array(<<Little, Big>>)), Part("tags", Array(<<Text("u"), Text("z")>>)),
                     Part("kind", Text("b")), Part("count", Number(40, FALSE))>>)
Sparse == ObjectOf(<<Part("count", Number(4, FALSE)), Part("flag", Nothing), Part("items", Array(<<Little>>)),
                     User(Text("null"))>>)
Plain == ObjectOf(<<Part("flag", Truth(0)), Part("amount", Number(4, FALSE)), Part("amount", Number(8, FALSE)),
                    Part("kind", Text("z")), Part("tags", Text("v"))>>)
Misfit == ObjectOf(<<Part("amount", Text("x")), Part("flag", Truth(1)), Part("tags", Number(2, FALSE)), User(Number(2, FALSE))>>)
Torn == Document("object", <<Part("flag", Truth(1)), Part("amount", Text("x")), Part("amount", Number(2, FALSE)),
                             Part("tags", Text("u"))>>, TRUE)
Garbage == Document("garbage", <<>>, FALSE)
Other == Document("other", <<>>, FALSE)
BlankLine == Document("blank", <<>>, FALSE)
Docs == {Whole1, Sparse, Plain, Misfit, Torn, Garbage, Other, BlankLine}

\* The ways to cut a stream.
Cuts(docs) ==
    {<<docs>>} \union {<<SubSeq(docs, 1, i), SubSeq(docs, i + 1, Len(docs))>> : i \in 1..(Len(docs) - 1)}
    \union (IF Len(docs) = 3 THEN {<<<<docs[1]>>, <<docs[2]>>, <<docs[3]>>>>} ELSE {})
Input(kind, chunks) == [kind |-> kind, chunks |-> chunks, columns |-> <<>>]
Stream(docs) == {Input(kind, cut) : kind \in {"messages", "ndjson"}, cut \in Cuts(docs)}
UpTo(n, docs) == UNION {[1..k -> docs] : k \in 1..n}
Inputs2 ==
    UNION {Stream(docs) : docs \in [1..3 -> {Whole1, Misfit, Torn, Garbage}] \union UpTo(2, Docs)}
    \union UNION {Stream(<<doc, Torn, other>>) : doc \in {Plain, Whole1}, other \in Docs}
    \union UNION {Stream(<<Plain, doc, Whole1>>) : doc \in Docs}
    \union {Input("array", <<docs>>) : docs \in UpTo(2, {Whole1, Plain, Misfit, Torn, Other})}

\* The columns of records, their fields being those of a table; a user may be null.
ColumnType(name) ==
    CASE name = "amount" -> ArrowType("DOUBLE", TRUE) [] name = "count" -> ArrowType("INT32", TRUE)
      [] name = "flag" -> ArrowType("BOOL", TRUE) [] name \in {"tags", "kind"} -> ArrowType("DICTIONARY", TRUE)
      [] name = "user" -> [ArrowType("STRUCT", TRUE) EXCEPT !.children = [part \in {"name"} |-> ArrowType("STRING", FALSE)]]
      [] OTHER -> [ArrowType("LIST", TRUE) EXCEPT !.children =
                    [part \in {"items"} |-> [ArrowType("STRUCT", TRUE) EXCEPT !.children =
                        [qty |-> ArrowType("INT64", TRUE), sku |-> ArrowType("STRING", TRUE)]]]]
InDoc(doc, name) ==
    LET values == ValuesAt(doc.fields, <<name>>)
    IN IF values = <<>> THEN Nothing ELSE values[1]
Columns(docs, names) ==
    [i \in DOMAIN names |-> ArrowColumn(<<names[i]>>, ColumnType(names[i]), [r \in DOMAIN docs |-> InDoc(docs[r], names[i])])]
NoUser == ObjectOf(<<Part("amount", Number(1, TRUE)), Part("flag", Truth(0)), Part("user", Nothing), Part("items", Nothing)>>)
\* A null struct has a value under it.
Masked(columns) ==
    [i \in DOMAIN columns |-> [columns[i] EXCEPT !.values = [r \in DOMAIN @ |->
        IF columns[i].type.id = "STRUCT" /\ @[r].type = "null"
        THEN [@[r] EXCEPT !.fields = <<Part("name", Text("w"))>>] ELSE @[r]]]]
Wide == ObjectOf(<<Part("amount", Number(3, TRUE)), Part("flag", Truth(1)), User(Text("u")), Part("items", Array(<<Little, Big>>)),
                   Part("tags", Text("u")), Part("kind", Text("b")), Part("count", Number(8, FALSE))>>)
Arrow(docs, names) == [kind |-> "arrow", chunks |-> <<docs>>, columns |-> Masked(Columns(docs, names))]
AllNames == <<"items", "amount", "flag", "tags", "user", "kind", "count">>
ArrowInputs == {Arrow(docs, AllNames) : docs \in UpTo(2, {Wide, Sparse, Plain, NoUser})}
               \union {Arrow(<<Wide>>, <<"amount", "flag">>)}

First == {Input("ndjson", <<<<Plain>>>>), Input("ndjson", <<<<Whole1, Sparse>>>>), Input("messages", <<<<Plain, Torn, Garbage>>>>),
          Input("array", <<<<Sparse, Whole1>>>>), Arrow(<<Wide, NoUser>>, AllNames)}
\* A wide course has many inputs, a long one several batches and a reload.
MCInputs == [wide |-> <<Inputs2 \union ArrowInputs, First>>, long |-> <<First, First, First>>]
MCMaxLoads == [wide |-> 1, long |-> 2]

-----------------------------------------------------------------------------
Leaf(kind, op, field, nums, texts) == Condition(kind, op, <<field>>, nums, texts)
Amount == Leaf("Numeric", "GT", <<"amount">>, <<1>>, <<>>)
Flagged == Leaf("Null", "IS_NOT_NULL", <<"flag">>, <<>>, <<>>)
UserName == Leaf("String", "CONTAINS", <<"user", "name">>, <<0>>, <<<<"u">>>>)
Tagged == Leaf("Categorical", "CONTAINS_ANY", <<"tags">>, <<>>, <<<<"u">>, <<"v">>>>)
Kind == Leaf("Categorical", "EQ", <<"kind">>, <<>>, <<<<"a">>>>)
Count == Leaf("Numeric", "LT", <<"count">>, <<9>>, <<>>)
Long == Leaf("ArrayLen", "ARRAY_LEN_GT", <<"tags">>, <<1>>, <<>>)
AnyBig == ArrayAny(<<"items">>, <<Leaf("Numeric", "GT", <<"qty">>, <<2>>, <<>>)>>, "big")
AnySku == ArrayAny(<<"items">>, <<Junction("Or", <<Leaf("Categorical", "EQ", <<"sku">>, <<>>, <<<<"v">>>>),
                                              Junction("Not", <<Leaf("Null", "IS_NULL", <<"gone">>, <<>>, <<>>)>>)>>)>>, "sku")
Rule(id, root) ==
    [id |-> <<id>>, version |-> <<"1">>, enabled |-> TRUE, action |-> "REVIEW", label |-> "REVIEW", severity |-> "LOW",
     priority |-> 0, weight |-> 0, reason |-> <<id>>, shadow |-> FALSE, root |-> root]
Hint(name, type, values) ==
    [name |-> name, type |-> type, nullable |-> <<>>, entity |-> FALSE, values |-> values]
File(hints, roots) ==
    [version |-> <<"1">>, hints |-> hints, lookups |-> <<>>, default |-> "APPROVE", precedence |-> <<"APPROVE", "REVIEW">>,
     rules |-> [i \in DOMAIN roots |-> Rule(<<"r", ToString(i)>>, roots[i])]]
Hints == <<Hint(<<"kind">>, "CATEGORICAL", <<<<"a">>, <<"b">>, <<"c">>>>), Hint(<<"flag">>, "BOOLEAN", <<>>)>>
FewRules == File(Hints, <<Junction("And", <<Amount, Flagged>>), Junction("Or", <<UserName, Kind>>)>>)
ArrayRules == File(Hints, <<AnyBig, Junction("And", <<AnySku, Flagged, Count>>), Tagged>>)
LengthRules == File(Hints, <<Junction("And", <<Long, Amount>>)>>)
MCRuleFiles == {FewRules, ArrayRules, LengthRules}

SchemaColumn(name, type, values, nullable) == [name |-> name, column |-> Column(type, values), nullable |-> nullable]
GivenSchema ==
    <<SchemaColumn(<<"amount">>, "FLOAT64", <<>>, TRUE), SchemaColumn(<<"flag">>, "BOOLEAN", <<>>, TRUE),
      SchemaColumn(<<"user", "name">>, "STRING", <<>>, TRUE),
      SchemaColumn(<<"tags">>, "CATEGORICAL", <<<<"u">>, <<"v">>>>, TRUE),
      SchemaColumn(<<"kind">>, "CATEGORICAL", <<<<"a">>, <<"b">>, <<"c">>>>, FALSE),
      SchemaColumn(<<"count">>, "INT32", <<>>, FALSE)>>
Policy(ingest, type) == [ingest |-> ingest, type |-> type]
MCSetups ==
    LET setup(schema, c, p) == [schema |-> schema, course |-> c, policy |-> p]
    IN {setup(schema, c, Policy("SKIP_TO_DEAD_LETTER", "NULL_OUT")) : schema \in {<<>>, GivenSchema}, c \in {"wide", "long"}}
       \union {setup(<<>>, "long", Policy("HARD_FAIL", "NULL_OUT")), setup(GivenSchema, "long", Policy("SKIP_TO_DEAD_LETTER", "HARD_FAIL_TYPE"))}

MCLowerOf == [U |-> "u"]
MCUpperOf == [and |-> "AND"]
MCAddressOf == [text \in {<<"a0">>} |-> 0]
MCKilometres == [p \in {<<0, 0, 0, 0>>} |-> 0]
MCFiles == [path \in {<<"none">>} |-> <<>>]
MCNullTexts == {<<>>, <<"null">>}
MCSpareTexts == MCNullTexts \union {<<"nan">>}
=============================================================================
