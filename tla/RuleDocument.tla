---------------------------- MODULE RuleDocument ----------------------------
(***************************************************************************)
(* Rule files (dsl_parser.cpp): a tree of scalars, lists and maps is read    *)
(* into rules, field hints, lookups and decisions, or refused.  A map keeps  *)
(* its entries in their order; a key that is missing gives an undefined      *)
(* node.  What the code throws for a missing or unfit value is the error     *)
(* YAML_SYNTAX_ERROR.                                                        *)
(***************************************************************************)
EXTENDS SqlExpression

CONSTANT MaxConditionDepth   \* kMaxConditionDepth

Scalar(text) == [tag |-> "scalar", text |-> text, keys |-> <<>>, items |-> <<>>]
List(items) == [tag |-> "list", text |-> <<>>, keys |-> <<>>, items |-> items]
Map(keys, items) == [tag |-> "map", text |-> <<>>, keys |-> keys, items |-> items]
Undefined == [tag |-> "undefined", text |-> <<>>, keys |-> <<>>, items |-> <<>>]

Has(node, key) == \E i \in DOMAIN node.keys : node.keys[i] = key
At(node, key) ==
    IF Has(node, key) THEN node.items[CHOOSE i \in DOMAIN node.keys : node.keys[i] = key] ELSE Undefined
\* The first of two keys that is there.
Either(node, key, other) == IF Has(node, key) THEN At(node, key) ELSE At(node, other)
Item(node, i) == IF node.tag = "list" /\ i \in DOMAIN node.items THEN node.items[i] ELSE Undefined

IsScalar(node) == node.tag = "scalar"
IsNumber(node) ==
    /\ IsScalar(node) /\ node.text # <<>> /\ Last(node.text) \in Digits
    /\ \A i \in DOMAIN node.text : node.text[i] \in Digits \/ (i = 1 /\ node.text[i] \in {"-", "+"})
NumberOf(node) == NumberIn(node.text)
TextOr(node, default) == IF IsScalar(node) THEN node.text ELSE default
NumberOr(node, default) == IF IsNumber(node) THEN NumberOf(node) ELSE default
FlagOr(node, default) == IF node.text = <<"true">> THEN TRUE ELSE IF node.text = <<"false">> THEN FALSE ELSE default
Scalars(node) == \A i \in DOMAIN node.items : IsScalar(node.items[i])
Numbers(node) == \A i \in DOMAIN node.items : IsNumber(node.items[i])
Texts(node) == [i \in DOMAIN node.items |-> node.items[i].text]
NumbersOf(node) == [i \in DOMAIN node.items |-> NumberOf(node.items[i])]
ValueNode(node) == Either(node, "values", "value")

Rejected(error) == [ok |-> FALSE, nodes |-> <<>>, error |-> error]
Syntax == Rejected("YAML_SYNTAX_ERROR")
UnknownOp == Rejected("UNKNOWN_OP")
\* A value that could be converted, or the exception.
Accept(fits, node) == IF fits THEN [ok |-> TRUE, nodes |-> <<node>>, error |-> "NONE"] ELSE Syntax
\* What several results hold, or the first error among them.
FirstNodes(results) == [i \in DOMAIN results |-> results[i].nodes[1]]
Collected(results) ==
    LET bad == {i \in DOMAIN results : ~results[i].ok}
    IN IF bad # {} THEN results[Min(bad)] ELSE Accept(TRUE, FirstNodes(results))

-----------------------------------------------------------------------------
(* Names *)

OpNames == NumericOps \union FieldOps \union RangeOps \union NullOps \union MemberOps \union LenOps
           \union FlagOps \union StringOps \union RegexOps \union LookupOps \union SubnetOps
           \union TemporalOps \union DistanceOps
OpAliases == [IS_NONE |-> "IS_NULL", NOT_NULL |-> "IS_NOT_NULL", IS_NOT_NONE |-> "IS_NOT_NULL",
              NOT_EMPTY |-> "IS_NOT_EMPTY", IN_SUBNET |-> "IP_IN_SUBNET",
              NOT_IN_SUBNET |-> "IP_NOT_IN_SUBNET", GEO_DISTANCE_GT |-> "DISTANCE_GT",
              GEO_DISTANCE_LT |-> "DISTANCE_LT"]
Name(text) == IF Len(text) = 1 THEN Upper(text[1]) ELSE ""
Named(text, aliases, names, default) ==
    CASE Name(text) \in names -> Name(text)
      [] Name(text) \in DOMAIN aliases -> aliases[Name(text)]
      [] OTHER -> default
OpOf(text) == Named(text, OpAliases, OpNames, "INVALID")
WindowFnOf(text) == Named(text, <<>>, {"SUM", "MIN", "MAX", "AVG", "RATIO"}, "COUNT")
MetricOf(text) == Named(text, [EUCLIDEAN |-> "L2", DISTANCE |-> "L2", INNER |-> "DOT"],
                        {"L2", "DOT"}, "COSINE")
ExprKindOf(text) ==
    IF text \in {<<"+">>, <<"-">>, <<"*">>, <<"/">>}
    THEN (CASE text = <<"+">> -> "ADD" [] text = <<"-">> -> "SUB" [] text = <<"*">> -> "MUL"
            [] OTHER -> "DIV")
    ELSE Named(text, [CONST |-> "LITERAL"], {"LITERAL", "ADD", "SUB", "MUL", "DIV"}, "FIELD")
TypeAliases ==
    [F32 |-> "FLOAT32", FLOAT |-> "FLOAT32", F64 |-> "FLOAT64", DOUBLE |-> "FLOAT64", I32 |-> "INT32",
     INTEGER |-> "INT32", I64 |-> "INT64", LONG |-> "INT64", CATEGORY |-> "CATEGORICAL",
     ENUM |-> "CATEGORICAL", ENTITY |-> "ENTITY_KEY", KEY |-> "ENTITY_KEY",
     TIMESTAMP |-> "TIMESTAMP_MS", DATETIME |-> "TIMESTAMP_MS", BOOL |-> "BOOLEAN", TEXT |-> "STRING"]
TypeOf(text) == Named(text, TypeAliases, ColumnTypes, "UNKNOWN")
Actions == {"FLAG", "BLOCK", "SCORE", "REVIEW", "APPROVE"}
Severities == {"HIGH", "MEDIUM", "LOW", "CRITICAL"}
LabelOf(text) == IF text = <<>> THEN "FLAG" ELSE Name(text)

-----------------------------------------------------------------------------
(* Conditions *)

Expr(kind, field, literal, children) ==
    [kind |-> kind, field |-> field, literal |-> literal, children |-> children]

\* A scalar is a number if it reads as one, else a field; what names no operation is a
\* field without a name.
RECURSIVE ParseExpr(_)
ParseExpr(node) ==
    LET literal == Either(node, "literal", "value")
        args == IF Has(node, "left") /\ Has(node, "right") THEN <<At(node, "left"), At(node, "right")>>
                ELSE At(node, "args").items
        parsed == [i \in DOMAIN args |-> ParseExpr(args[i])]
        children == [i \in DOMAIN args |-> parsed[i].nodes[1]]
    IN CASE IsNumber(node) -> Accept(TRUE, Expr("LITERAL", <<>>, NumberOf(node), <<>>))
         [] IsScalar(node) /\ ~IsNumber(node) -> Accept(TRUE, Expr("FIELD", node.text, 0, <<>>))
         [] Has(node, "field") -> Accept(IsScalar(At(node, "field")), Expr("FIELD", At(node, "field").text, 0, <<>>))
         [] ~Has(node, "field") /\ literal # Undefined ->
              Accept(IsNumber(literal), Expr("LITERAL", <<>>, NumberOf(literal), <<>>))
         [] OTHER ->
              IF \E i \in DOMAIN args : ~parsed[i].ok THEN Syntax
              ELSE Accept(TRUE, Expr(ExprKindOf(TextOr(At(node, "op"), <<"field">>)), <<>>, 0, children))

\* One number, or the two of a range.
Bounds(op, value) ==
    IF op \in RangeOps THEN <<Item(value, 1), Item(value, 2)>> ELSE <<value>>
BoundsFit(op, value) == \A i \in DOMAIN Bounds(op, value) : IsNumber(Bounds(op, value)[i])
BoundsOf(op, value) == [i \in DOMAIN Bounds(op, value) |-> NumberOf(Bounds(op, value)[i])]

\* A part of a leaf may stand beside the map it belongs to.
Owned(part, node, key) == IF Has(part, key) THEN At(part, key) ELSE At(node, key)

ParseWindow(node) ==
    LET win == At(node, "window")
        op == Owned(win, node, "op")
        value == Owned(win, node, "value")
        summed == IF Has(win, "sum_field") THEN At(win, "sum_field")
                  ELSE IF Has(win, "value_field") THEN At(win, "value_field")
                  ELSE Scalar(TextOr(At(win, "numerator_field"), <<>>))
        shape == /\ IsScalar(At(win, "entity_field")) /\ IsScalar(summed) /\ IsScalar(op)
                 /\ IsNumber(At(win, "duration_seconds"))
    IN IF shape /\ OpOf(op.text) = "INVALID" THEN UnknownOp
       ELSE Accept(shape /\ IsNumber(value),
                   Condition("Window", OpOf(op.text),
                             <<At(win, "entity_field").text, summed.text,
                               TextOr(At(win, "denominator_field"), <<>>)>>,
                             <<NumberOf(value), NumberOf(At(win, "duration_seconds"))>>,
                             <<<<WindowFnOf(TextOr(At(win, "function"), <<"COUNT">>))>>>>))

ParseModelScore(node) ==
    LET m == At(node, "model_score")
        op == OpOf(TextOr(Owned(m, node, "op"), <<"GT">>))
        value == Owned(m, node, "value")
        shape == Scalars(At(m, "features")) /\ (Has(m, "model") => IsScalar(At(m, "model")))
    IN IF shape /\ op = "INVALID" THEN UnknownOp
       ELSE Accept(shape /\ BoundsFit(op, value),
                   Condition("ModelScore", op, Texts(At(m, "features")), BoundsOf(op, value),
                             <<TextOr(Either(m, "model", "name"), <<>>),
                               NumberText(NumberOr(At(m, "output_index"), 0))>>))

ParseVectorDistance(node) ==
    LET vec == At(node, "vector_distance")
        op == OpOf(TextOr(Owned(vec, node, "op"), <<"GT">>))
        value == Owned(vec, node, "value")
        shape == Scalars(At(vec, "dims")) /\ Numbers(At(vec, "reference"))
    IN IF shape /\ op = "INVALID" THEN UnknownOp
       ELSE Accept(shape /\ BoundsFit(op, value),
                   Condition("Vector", op, Texts(At(vec, "dims")), BoundsOf(op, value),
                             <<<<MetricOf(TextOr(At(vec, "metric"), <<"COSINE">>))>>>>
                             \o Texts(At(vec, "reference"))))

ParseField(node) ==
    LET op == OpOf(At(node, "op").text)
        field == At(node, "field")
        value == ValueNode(node)
        mask == IF Has(node, "mask") THEN At(node, "mask") ELSE value
        other == At(node, "other_field")
        expr == ParseExpr(At(node, "expr"))
        points == [i \in 1..4 |-> At(node, <<"lat_field", "lon_field", "other_lat_field", "other_lon_field">>[i])]
        named == IsScalar(field)
        leaf(kind, nums, texts) == Condition(kind, op, <<field.text>>, nums, texts)
        \* a mask keeps the digits of its text and nothing else
        mask_digits == SelectSeq(mask.text, LAMBDA p : p \in Digits)
        hours == op = "TIME_OF_DAY_BETWEEN"
    IN CASE ~IsScalar(At(node, "op")) -> Syntax
         [] IsScalar(At(node, "op")) /\ op = "INVALID" -> UnknownOp
         [] op \in NullOps -> Accept(named, leaf("Null", <<>>, <<>>))
         [] op \notin NullOps \union {"INVALID"} /\ Has(node, "expr") ->
              Accept(expr.ok /\ (IF Has(node, "other_field") THEN IsScalar(other) ELSE IsNumber(value)),
                     [Condition("Arithmetic", op, IF Has(node, "other_field") THEN <<other.text>> ELSE <<>>,
                                IF Has(node, "other_field") THEN <<0>> ELSE <<NumberOf(value)>>, <<>>)
                        EXCEPT !.expr = expr.nodes[1]])
         [] op \notin NullOps /\ ~Has(node, "expr") /\ (op \in FieldOps \/ Has(node, "other_field")) ->
              Accept(named /\ IsScalar(other), Condition("CrossField", op, <<field.text, other.text>>, <<>>, <<>>))
         [] op \in FlagOps -> Accept(named /\ IsScalar(mask),
                                     leaf("Bitfield", <<IF mask_digits = <<>> THEN 0 ELSE NumberIn(mask_digits)>>, <<>>))
         [] op \in LengthOps -> Accept(named /\ IsNumber(value), leaf("String", <<NumberOf(value)>>, <<<<>>>>))
         [] op \in StringOps \ LengthOps -> Accept(named /\ IsScalar(value), leaf("String", <<0>>, <<value.text>>))
         [] op \in RegexOps -> Accept(named /\ IsScalar(value), leaf("Regex", <<>>, <<value.text>>))
         [] op \in LookupOps -> Accept(named /\ IsScalar(At(node, "lookup")),
                                       leaf("Lookup", <<>>, <<At(node, "lookup").text>>))
         [] op \in LenOps -> Accept(named /\ IsNumber(value), leaf("ArrayLen", <<NumberOf(value)>>, <<>>))
         [] op \in SubnetOps -> Accept(named /\ IsScalar(value), leaf("Cidr", <<>>, <<value.text>>))
         [] op = "DAY_OF_WEEK_IN" -> Accept(named /\ Numbers(value), leaf("Temporal", NumbersOf(value), <<>>))
         [] hours -> Accept(named /\ IsNumber(Item(value, 1)) /\ IsNumber(Item(value, 2)),
                            leaf("Temporal", <<NumberOf(Item(value, 1)), NumberOf(Item(value, 2))>>, <<>>))
         [] op \in TemporalOps \ {"DAY_OF_WEEK_IN"} /\ ~hours ->
              Accept(named /\ IsNumber(value), leaf("Temporal", <<NumberOf(value)>>, <<>>))
         [] op \in DistanceOps \/ Has(node, "lat_field") ->
              Accept((\A i \in 1..4 : IsScalar(points[i])) /\ IsNumber(value),
                     Condition("Geo", op, [i \in 1..4 |-> points[i].text], <<NumberOf(value)>>, <<>>))
         [] op \in RangeOps /\ value.tag = "list" ->
              Accept(named /\ BoundsFit(op, value), leaf("NumericRange", BoundsOf(op, value), <<>>))
         [] op \in MemberOps -> Accept(named /\ Scalars(value), leaf("Categorical", <<>>, Texts(value)))
         [] op \in {"EQ", "NEQ"} /\ ~IsNumber(value) ->
              Accept(named /\ IsScalar(value), leaf("Categorical", <<>>, <<value.text>>))
         [] OTHER -> Accept(named /\ IsNumber(value), leaf("Numeric", <<NumberOf(value)>>, <<>>))

\* The nodes of a condition around what was read below them.
FromSql(sql) == IF sql.ok THEN Accept(TRUE, sql.nodes[1]) ELSE UnknownOp
Joining(kind, children) == IF children.ok THEN Accept(TRUE, Junction(kind, children.nodes[1])) ELSE children
Searching(arr, where) ==
    IF where.ok THEN Accept(TRUE, ArrayAny(At(arr, "path").text, where.nodes, <<arr>>)) ELSE where
JunctionKeys == [and |-> "And", or |-> "Or", not |-> "Not"]

RECURSIVE ParseCondition(_, _)
ParseCondition(node, depth) ==
    LET text == IF Has(node, "sql") THEN At(node, "sql") ELSE At(node, "expr")
        arr == At(node, "array_any")
        keys == SelectSeq(<<"and", "or", "not">>, LAMBDA key : Has(node, key))
        below == IF keys[1] = "not" THEN <<At(node, "not")>> ELSE At(node, keys[1]).items
        read(child) == ParseCondition(child, depth + 1)
    IN CASE depth > MaxConditionDepth -> UnknownOp
         [] depth <= MaxConditionDepth /\ node.tag # "map" -> Syntax
         [] Has(node, "sql") \/ IsScalar(At(node, "expr")) ->
              IF IsScalar(text) THEN FromSql(ParseSqlExpression(text.text)) ELSE Syntax
         [] keys # <<>> -> Joining(JunctionKeys[keys[1]], Collected([i \in DOMAIN below |-> read(below[i])]))
         [] Has(node, "window") -> ParseWindow(node)
         [] Has(node, "model_score") -> ParseModelScore(node)
         [] Has(node, "vector_distance") -> ParseVectorDistance(node)
         [] Has(node, "array_any") ->
              IF IsScalar(At(arr, "path")) THEN Searching(arr, read(At(arr, "where"))) ELSE Syntax
         [] OTHER -> ParseField(node)

-----------------------------------------------------------------------------
(* Rules and files *)

ActionText(node) == TextOr(At(node, "action"), <<"FLAG">>)
SeverityText(node) == TextOr(At(node, "severity"), <<"LOW">>)
RuleOf(node, version, condition) ==
    LET id == At(node, "id").text
    IN IF ~condition.ok THEN condition
       ELSE Accept(TRUE,
              [id |-> id, version |-> TextOr(At(node, "version"), version),
               enabled |-> FlagOr(At(node, "enabled"), TRUE), action |-> Name(ActionText(node)),
               label |-> LabelOf(IF Has(node, "label") THEN At(node, "label").text ELSE ActionText(node)),
               severity |-> Name(SeverityText(node)), priority |-> NumberOr(At(node, "priority"), 0),
               weight |-> NumberOr(At(node, "weight"), 0), reason |-> TextOr(At(node, "reason_code"), id),
               shadow |-> FlagOr(At(node, "shadow"), FALSE), root |-> condition.nodes[1]])
ParseRule(node, version) ==
    CASE ~IsScalar(At(node, "id")) -> Syntax
      [] IsScalar(At(node, "id")) /\ Name(ActionText(node)) \notin Actions -> Rejected("UNKNOWN_ACTION")
      [] IsScalar(At(node, "id")) /\ Has(node, "label") /\ ~IsScalar(At(node, "label")) -> Syntax
      [] Name(SeverityText(node)) \notin Severities -> Rejected("UNKNOWN_SEVERITY")
      [] OTHER -> RuleOf(node, version, ParseCondition(At(node, "conditions"), 0))

\* The type is that of the entry, of an entity or of a closed enumeration; "NONE" is no type.
ParseFieldHint(name, node) ==
    LET written == TypeOf(TextOr(At(node, "type"), <<>>))
        entity_node == Either(node, "entity", "is_entity_field")
        entity == FlagOr(entity_node, written = "ENTITY_KEY")
        values == Either(node, "values", "closed_values")
        type == CASE written # "UNKNOWN" -> written
                  [] written = "UNKNOWN" /\ entity -> "ENTITY_KEY"
                  [] OTHER -> IF values.tag = "list" THEN "CATEGORICAL" ELSE "NONE"
    IN Accept(/\ node.tag = "map" /\ (Has(node, "type") => IsScalar(At(node, "type")))
              /\ \A flag \in {At(node, "nullable"), entity_node} :
                    flag = Undefined \/ flag.text \in {<<"true">>, <<"false">>}
              /\ Scalars(values),
              [name |-> name, type |-> type,
               nullable |-> IF Has(node, "nullable") THEN <<FlagOr(At(node, "nullable"), TRUE)>> ELSE <<>>,
               entity |-> entity, values |-> IF values.tag = "list" THEN Texts(values) ELSE <<>>])

FieldHints(root) ==
    LET fields == Either(root, "fields", "schema")
        named == SelectSeq(fields.items, LAMBDA item : TextOr(At(item, "name"), <<>>) # <<>>)
    IN IF fields.tag = "map"
       THEN [i \in DOMAIN fields.keys |-> ParseFieldHint(<<fields.keys[i]>>, fields.items[i])]
       ELSE [i \in DOMAIN named |-> ParseFieldHint(At(named[i], "name").text, named[i])]

Lookups(root) ==
    LET node == At(root, "lookups")
        entry(i) == node.items[i]
    IN [i \in DOMAIN node.keys |->
          Accept(IsScalar(At(entry(i), "type")) /\ IsScalar(At(entry(i), "path")),
                 [name |-> <<node.keys[i]>>, type |-> Name(At(entry(i), "type").text),
                  path |-> At(entry(i), "path").text])]

DefaultPrecedence == <<"APPROVE", "SCORE", "FLAG", "REVIEW", "BLOCK">>
DefaultDecision(root) ==
    IF Has(root, "decisions") THEN LabelOf(TextOr(At(At(root, "decisions"), "default"), <<"APPROVE">>))
    ELSE "APPROVE"
\* The default decision is the lowest unless it is listed.
Precedence(root) ==
    LET listed == At(At(root, "decisions"), "precedence").items
        labels == IF listed = <<>> THEN DefaultPrecedence
                  ELSE [i \in DOMAIN listed |-> LabelOf(listed[i].text)]
    IN IF Contains(labels, DefaultDecision(root)) THEN labels ELSE <<DefaultDecision(root)>> \o labels

\* Rules that are not enabled are parsed and left out; the first error of a kind, in
\* the order hints, lookups, decisions, rules, is the answer.
FileOf(root, version, hints, lookups, rules) ==
    IF root.tag # "map" \/ ~Scalars(At(At(root, "decisions"), "precedence")) THEN Syntax
    ELSE IF \E result \in ToSet(hints \o lookups \o rules) : ~result.ok THEN Collected(hints \o lookups \o rules)
    ELSE Accept(TRUE,
           [version |-> version, hints |-> FirstNodes(hints), lookups |-> FirstNodes(lookups),
            default |-> DefaultDecision(root), precedence |-> Precedence(root),
            rules |-> SelectSeq(FirstNodes(rules), LAMBDA rule : rule.enabled)])
ParseRoot(root) ==
    LET ruleset == At(root, "ruleset")
        named == IF ruleset # Undefined THEN ruleset ELSE root
        rules == IF Has(ruleset, "rules") THEN At(ruleset, "rules") ELSE At(root, "rules")
        version == TextOr(At(named, "version"), <<"1">>)
    IN FileOf(root, version, FieldHints(root), Lookups(root),
              [i \in DOMAIN rules.items |-> ParseRule(rules.items[i], version)])
=============================================================================
