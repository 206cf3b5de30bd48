----------------------------- MODULE RuleWriting -----------------------------
(***************************************************************************)
(* What the author of a rule file means: how a condition is written in the   *)
(* two forms of the README, and the rows it is meant to select.  Nothing     *)
(* here models code; RuleLoading compares the code with it.                  *)
(***************************************************************************)
EXTENDS RuleConflicts

Number(n) == Scalar(NumberText(n))
NumberList(nums) == List([i \in DOMAIN nums |-> Number(nums[i])])
TextList(texts) == List([i \in DOMAIN texts |-> Scalar(texts[i])])

RECURSIVE WriteExpr(_)
WriteExpr(expr) ==
    CASE expr.kind = "FIELD" -> Map(<<"field">>, <<Scalar(expr.field)>>)
      [] expr.kind = "LITERAL" -> Map(<<"value">>, <<Number(expr.literal)>>)
      [] OTHER -> Map(<<"op", "left", "right">>,
                      <<Scalar(<<expr.kind>>), WriteExpr(expr.children[1]), WriteExpr(expr.children[2])>>)

\* A condition in YAML.
RECURSIVE WriteYaml(_)
WriteYaml(c) ==
    LET op == Scalar(<<c.op>>)
        leaf(key, value) == Map(<<"field", "op", key>>, <<Scalar(c.fields[1]), op, value>>)
        sides == [i \in DOMAIN c.children |-> WriteYaml(c.children[i])]
        bounds == IF Len(c.nums) = 2 THEN NumberList(c.nums) ELSE Number(c.nums[1])
    IN CASE c.kind = "And" -> Map(<<"and">>, <<List(sides)>>)
         [] c.kind = "Or" -> Map(<<"or">>, <<List(sides)>>)
         [] c.kind = "Not" -> Map(<<"not">>, sides)
         [] c.kind = "ArrayAny" -> Map(<<"array_any">>, c.fields[1][3])
         [] c.kind = "Window" ->
              Map(<<"window", "op", "value">>,
                  <<Map(<<"entity_field", "sum_field", "denominator_field", "function", "duration_seconds">>,
                        <<Scalar(c.fields[1]), Scalar(c.fields[2]), Scalar(c.fields[3]), Scalar(c.texts[1]),
                          Number(c.nums[2])>>), op, Number(c.nums[1])>>)
         [] c.kind = "ModelScore" ->
              Map(<<"model_score", "op", "value">>,
                  <<Map(<<"model", "features", "output_index">>,
                        <<Scalar(c.texts[1]), TextList(c.fields), Scalar(c.texts[2])>>), op, bounds>>)
         [] c.kind = "Vector" ->
              Map(<<"vector_distance", "op", "value">>,
                  <<Map(<<"metric", "dims", "reference">>,
                        <<Scalar(c.texts[1]), TextList(c.fields), TextList(Tail(c.texts))>>), op, bounds>>)
         [] c.kind = "Null" -> Map(<<"field", "op">>, <<Scalar(c.fields[1]), op>>)
         [] c.kind = "CrossField" -> leaf("other_field", Scalar(c.fields[2]))
         [] c.kind = "Lookup" -> leaf("lookup", Scalar(c.texts[1]))
         [] c.kind = "Bitfield" -> leaf("mask", Number(c.nums[1]))
         [] c.kind = "Geo" -> Map(<<"op", "lat_field", "lon_field", "other_lat_field", "other_lon_field", "value">>,
                                  <<op>> \o [i \in 1..4 |-> Scalar(c.fields[i])] \o <<Number(c.nums[1])>>)
         [] c.kind = "Arithmetic" ->
              IF c.fields = <<>> THEN Map(<<"expr", "op", "value">>, <<WriteExpr(c.expr), op, Number(c.nums[1])>>)
              ELSE Map(<<"expr", "op", "other_field">>, <<WriteExpr(c.expr), op, Scalar(c.fields[1])>>)
         [] c.kind = "Categorical" /\ c.op \notin {"EQ", "NEQ"} -> leaf("values", TextList(c.texts))
         [] c.kind = "Temporal" /\ c.op \in {"DAY_OF_WEEK_IN", "TIME_OF_DAY_BETWEEN"} ->
              leaf("values", NumberList(c.nums))
         [] c.kind \in {"Categorical", "Regex", "Cidr"} \/ (c.kind = "String" /\ c.op \notin LengthOps) ->
              leaf("value", Scalar(c.texts[1]))
         [] OTHER -> leaf("value", bounds)

\* A condition in SQL, with the parentheses it needs and a blank around every word.
Spaced(parts) == FoldLeft(LAMBDA text, part : IF text = <<>> THEN part ELSE text \o <<Blank>> \o part, <<>>, parts)
Quoted(text) == <<"'">> \o text \o <<"'">>
CommaList(texts) ==
    <<"(">> \o FoldLeft(LAMBDA text, t : IF text = <<>> THEN Quoted(t) ELSE text \o <<",">> \o Quoted(t), <<>>, texts)
    \o <<")">>
SqlSign(op) ==
    CASE op = "GT" -> <<">">> [] op = "LT" -> <<"<">> [] op = "GTE" -> <<">", "=">>
      [] op = "LTE" -> <<"<", "=">> [] op = "EQ" -> <<"=">> [] op = "NEQ" -> <<"!", "=">>
      [] op = "IN" -> <<"IN">> [] OTHER -> <<"NOT", Blank, "IN">>
Binding(c) == CASE c.kind = "Or" -> 1 [] c.kind = "And" -> 2 [] OTHER -> 3

RECURSIVE WriteSql(_)
WriteSql(c) ==
    LET side(i) == IF Binding(c.children[i]) <= Binding(c) /\ Binding(c.children[i]) < 3
                   THEN <<"(">> \o WriteSql(c.children[i]) \o <<")">> ELSE WriteSql(c.children[i])
        sides(word) == FoldLeft(LAMBDA parts, i : IF parts = <<>> THEN <<side(i)>> ELSE parts \o <<<<word>>, side(i)>>,
                                <<>>, [i \in DOMAIN c.children |-> i])
        leaf(sign, value) == Spaced(<<c.fields[1], sign, value>>)
    IN CASE c.kind = "And" -> Spaced(sides("AND"))
         [] c.kind = "Or" -> Spaced(sides("OR"))
         [] c.kind = "Not" -> Spaced(<<<<"NOT">>, side(1)>>)
         [] c.kind = "Numeric" -> leaf(SqlSign(c.op), NumberText(c.nums[1]))
         [] c.kind = "NumericRange" ->
              Spaced(<<c.fields[1], <<"BETWEEN">>, NumberText(c.nums[1]), <<"AND">>, NumberText(c.nums[2])>>)
         [] c.kind = "Null" -> leaf(<<"IS">>, IF c.op = "IS_NULL" THEN <<"NULL">> ELSE <<"NOT", Blank, "NULL">>)
         [] c.kind = "String" ->
              leaf(<<"LIKE">>, Quoted((IF c.op = "STARTS_WITH" THEN <<>> ELSE <<"%">>) \o c.texts[1]
                                      \o (IF c.op = "ENDS_WITH" THEN <<>> ELSE <<"%">>)))
         [] OTHER -> leaf(SqlSign(c.op), IF c.op \in {"EQ", "NEQ"} THEN Quoted(c.texts[1]) ELSE CommaList(c.texts))

\* How deep the reader goes into the text: a NOT costs one step, parentheses two.
RECURSIVE SqlDepth(_)
SqlDepth(c) ==
    LET cost(child) == (IF c.kind = "Not" THEN 1 ELSE 0)
                       + (IF Binding(child) <= Binding(c) /\ Binding(child) < 3 THEN 2 ELSE 0)
    IN Max({0} \union {cost(c.children[i]) + SqlDepth(c.children[i]) : i \in DOMAIN c.children})
RECURSIVE YamlDepth(_)
YamlDepth(c) == Max({0} \union {1 + YamlDepth(c.children[i]) : i \in DOMAIN c.children})

-----------------------------------------------------------------------------
(* The rows a condition selects: names is a row with a cell for every field   *)

Nets(text) == [lowest |-> CidrRange(text).start, highest |-> CidrRange(text).end]
\* What a computed value depends on.
Asked(schema, c) ==
    LET fn == c.texts[1][1]
        reads == CASE fn = "COUNT" -> {1} [] fn = "RATIO" -> {1, 2, 3} [] OTHER -> {1, 2}
    IN IF c.kind = "Window"
       THEN <<"WINDOW", fn, [i \in 1..3 |-> IF i \in reads /\ c.fields[i] # <<>> THEN IndexOf(schema, c.fields[i]) ELSE 0],
              c.nums[2]>>
       ELSE IF c.kind = "ArrayAny" THEN <<c.kind, c.texts, c.children, 0>>
       ELSE <<c.kind, c.texts, [i \in DOMAIN c.fields |-> IndexOf(schema, c.fields[i])], 0>>
ComputedKinds == {"Window", "ModelScore", "Vector", "ArrayAny"}

LeafHolds(c, schema, columns, names, lookups, computed) ==
    LET cell == names[c.fields[1]]
        column == columns[c.fields[1]]
        asked == computed[Asked(schema, c)]
    IN CASE c.kind \in ComputedKinds \ {"ArrayAny"} ->
              IF Len(c.nums) = 2 /\ c.kind # "Window" THEN Within(asked, c.op, c.nums[1], c.nums[2])
              ELSE Compare(asked, c.op, c.nums[1])
         [] c.kind = "ArrayAny" -> asked
         [] c.kind = "Numeric" -> cell.valid /\ CompareCell(cell, c.op, c.nums[1])
         [] c.kind = "NumericRange" -> cell.valid /\ ~cell.nan /\ Within(cell.num, c.op, c.nums[1], c.nums[2])
         [] c.kind = "Categorical" /\ ~IsSetColumn(column) /\ c.op \in {"IN", "EQ", "NOT_IN", "NEQ"} ->
              cell.valid /\ (cell.text \in ToSet(c.texts)) = (c.op \in {"IN", "EQ"})
         [] c.kind = "Cidr" ->
              cell.valid /\ (AddressIn(cell, column) \in Nets(c.texts[1]).lowest..Nets(c.texts[1]).highest)
                            = (c.op = "IP_IN_SUBNET")
         [] OTHER -> Selects(c, columns, names, lookups, FALSE)

\* A leaf says nothing of a row in which one of its fields is null or not a number.
Definite(c, names) ==
    c.kind \in {"Null", "Window"}
    \/ \A i \in DOMAIN c.fields : names[c.fields[i]].valid /\ (names[c.fields[i]].nan => c.op \in {"EQ", "NEQ"})

\* The negation of a simple leaf selects no row the leaf says nothing of; any other
\* negation selects what the rest does not.
RECURSIVE Holds(_, _, _, _, _, _)
Holds(c, schema, columns, names, lookups, computed) ==
    LET holds(i) == Holds(c.children[i], schema, columns, names, lookups, computed)
    IN CASE c.kind = "And" -> c.children # <<>> /\ \A i \in DOMAIN c.children : holds(i)
         [] c.kind = "Or" -> \E i \in DOMAIN c.children : holds(i)
         [] c.kind = "Not" ->
              ~holds(1) /\ (c.children[1].kind \in Inverted => Definite(c.children[1], names))
         [] OTHER -> LeafHolds(c, schema, columns, names, lookups, computed)

RECURSIVE LeavesOf(_)
LeavesOf(c) == IF c.kind \in {"And", "Or", "Not"} THEN UNION {LeavesOf(c.children[i]) : i \in DOMAIN c.children} ELSE {c}
RECURSIVE NegatedLeaves(_)
NegatedLeaves(c) ==
    (IF c.kind = "Not" /\ c.children[1].kind \in Inverted THEN {c.children[1]} ELSE {})
    \union UNION {NegatedLeaves(c.children[i]) : i \in DOMAIN c.children}
=============================================================================
