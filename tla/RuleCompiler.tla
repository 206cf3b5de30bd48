---------------------------- MODULE RuleCompiler ----------------------------
(***************************************************************************)
(* The compiler (compiler.cpp, schema.cpp): rules are validated against a    *)
(* schema, turned into operations on registers, and gathered in one plan     *)
(* whose predicates are shared.  A compiled predicate is a condition whose   *)
(* fields are column numbers; columns that are computed for a batch come     *)
(* after those of the schema, in the order they were asked for.              *)
(***************************************************************************)
EXTENDS RuleDocument

CONSTANT Files   \* the lookup files: the lines of a path

-----------------------------------------------------------------------------
(* Schema: a sequence of named columns *)

NamedColumn(name, column) == [name |-> name, column |-> column]
HasField(schema, name) == \E i \in DOMAIN schema : schema[i].name = name
IndexOf(schema, name) ==
    IF HasField(schema, name) THEN Min({i \in DOMAIN schema : schema[i].name = name}) ELSE 0
TypeAt(schema, name) == schema[IndexOf(schema, name)].column.type
\* The columns of a batch: those of the schema and the derived ones.
WithDerived(schema, slots) ==
    [i \in DOMAIN schema |-> schema[i].column] \o [i \in DOMAIN slots |-> Column(slots[i].type, <<>>)]

-----------------------------------------------------------------------------
(* Addresses and lookup files *)

AllOnes == 2^AddressBits - 1
\* The prefix is cut to the width; what follows the slash must begin with a digit.
CidrOf(text) ==
    LET slash == FirstOf({i \in DOMAIN text : text[i] = "/"}, text)
        ip == SubSeq(text, 1, slash - 1)
        suffix == SubSeq(text, slash + 1, Len(text))
        prefix == IF slash > Len(text) THEN AddressBits
                  ELSE IF IsNumber(Scalar(suffix)) THEN Max({0, Min({AddressBits, NumberIn(suffix)})}) ELSE 0
        block == 2^(AddressBits - prefix)
        raw == IF ip \in DOMAIN AddressOf THEN AddressOf[ip] ELSE 0
    IN [throws |-> slash <= Len(text) /\ ~IsNumber(Scalar(suffix)),
        network |-> raw - (raw % block), mask |-> AllOnes - (block - 1)]
CidrRange(text) ==
    [start |-> CidrOf(text).network, end |-> CidrOf(text).network + (AllOnes - CidrOf(text).mask)]

\* A mutant: a range that lies within the one before cuts it short.
NormalizeRanges_LastEnd(ranges) ==
    LET before(a, b) == a.start < b.start \/ (a.start = b.start /\ a.end <= b.end)
        apart(merged, r) == merged = <<>> \/ r.start > (Last(merged).end + 1) % 2^AddressBits
        add(merged, r) ==
            IF apart(merged, r) THEN Append(merged, r) ELSE [merged EXCEPT ![Len(merged)].end = r.end]
    IN FoldLeft(add, <<>>, SortSeq(ranges, before))
\* Sorted ranges, those that touch made one; the sum past the end of a range wraps.
NormalizeRanges(ranges) ==
    LET before(a, b) == a.start < b.start \/ (a.start = b.start /\ a.end <= b.end)
        apart(merged, r) == merged = <<>> \/ r.start > (Last(merged).end + 1) % 2^AddressBits
        add(merged, r) ==
            IF apart(merged, r) THEN Append(merged, r)
            ELSE [merged EXCEPT ![Len(merged)].end = Max({@, r.end})]
    IN FoldLeft(add, <<>>, SortSeq(ranges, before))

\* The cells of a line; a doubled quote within quotes is a quote.
SplitCsvLine(line) ==
    LET step(s, i) ==
          CASE s.skip -> [s EXCEPT !.skip = FALSE]
            [] ~s.skip /\ line[i] = "\"" ->
                 IF s.quoted /\ i < Len(line) /\ line[i + 1] = "\""
                 THEN [s EXCEPT !.current = Append(@, "\""), !.skip = TRUE]
                 ELSE [s EXCEPT !.quoted = ~@]
            [] ~s.skip /\ line[i] = "," /\ ~s.quoted ->
                 [s EXCEPT !.cells = Append(@, Trim(s.current)), !.current = <<>>]
            [] OTHER -> [s EXCEPT !.current = Append(@, line[i])]
        done == FoldLeft(step, [cells |-> <<>>, current |-> <<>>, quoted |-> FALSE, skip |-> FALSE],
                         [i \in DOMAIN line |-> i])
    IN Append(done.cells, Trim(done.current))

LookupTypes == {"STRING_SET", "INT_SET", "IPV4_CIDR_SET"}
\* The values of the wanted column, or of the first one, that are not empty.
WantedColumn(header, title) ==
    LET wanted == {i \in DOMAIN header : Name(header[i]) = title} IN IF wanted = {} THEN 1 ELSE Min(wanted)
ValuesOf(rows, column) ==
    LET full == SelectSeq(rows, LAMBDA cells : column <= Len(cells) /\ cells[column] # <<>>)
    IN [i \in DOMAIN full |-> full[i][column]]
LookupValues(lines, type) ==
    ValuesOf([i \in DOMAIN Tail(lines) |-> SplitCsvLine(Tail(lines)[i])],
             WantedColumn(SplitCsvLine(Head(lines)), IF type = "IPV4_CIDR_SET" THEN "CIDR" ELSE "VALUE"))

\* A number or a prefix that cannot be read is an exception.
LookupOf(name, type, values, generation) ==
    LET cidrs == type = "IPV4_CIDR_SET"
        numbers == IF type = "INT_SET" THEN ToSet(values) ELSE {}
        unfit == \/ \E v \in numbers : ~IsNumber(Scalar(v))
                 \/ cidrs /\ \E v \in ToSet(values) : CidrOf(v).throws
    IN IF unfit THEN Rejected("EXCEPTION")
       ELSE Accept(TRUE,
              [name |-> name, type |-> type, generation |-> generation,
               strings |-> IF type = "STRING_SET" THEN ToSet(values) ELSE {},
               ints |-> {NumberIn(v) : v \in numbers},
               ranges |-> IF cidrs THEN NormalizeRanges([i \in DOMAIN values |-> CidrRange(values[i])]) ELSE <<>>])
\* A file that is missing or has no line is an error.
LoadLookup(lookup, generation) ==
    LET type == IF lookup.type \in LookupTypes THEN lookup.type ELSE "STRING_SET"
    IN CASE lookup.path \notin DOMAIN Files -> Rejected("MISSING_REQUIRED_FIELD")
         [] lookup.path \in DOMAIN Files /\ Files[lookup.path] = <<>> -> Rejected("MISSING_REQUIRED_FIELD")
         [] OTHER -> LookupOf(lookup.name, type, LookupValues(Files[lookup.path], type), generation)

\* The first lookup of a name stays.
ByName(loaded) ==
    LET first(name) == Min({i \in DOMAIN loaded : loaded[i].name = name})
    IN [name \in {loaded[i].name : i \in DOMAIN loaded} |-> loaded[first(name)]]
TableOf(loaded) == IF loaded.ok THEN Accept(TRUE, ByName(loaded.nodes[1])) ELSE loaded
LoadLookups(spec) == TableOf(Collected([i \in DOMAIN spec.lookups |-> LoadLookup(spec.lookups[i], i)]))

-----------------------------------------------------------------------------
(* Validation: the error of a condition, or "NONE" *)

FirstError(errors) ==
    LET bad == {i \in DOMAIN errors : errors[i] # "NONE"} IN IF bad = {} THEN "NONE" ELSE errors[Min(bad)]
ErrorUnless(ok, error) == IF ok THEN "NONE" ELSE error
TypedField(schema, field, types) ==
    IF HasField(schema, field) THEN ErrorUnless(TypeAt(schema, field) \in types, "TYPE_MISMATCH")
    ELSE "UNKNOWN_FIELD_NAME"
NumericTypes == {t \in ColumnTypes : IsNumeric(t)}
TextTypes == {t \in ColumnTypes : IsText(t)}
CodedTypes == {"CATEGORICAL", "ENTITY_KEY"}
NumericFields(schema, fields) == FirstError([i \in DOMAIN fields |-> TypedField(schema, fields[i], NumericTypes)])

RECURSIVE ValidateExpr(_, _)
ValidateExpr(schema, expr) ==
    IF expr.kind = "FIELD" THEN TypedField(schema, expr.field, NumericTypes)
    ELSE FirstError([i \in DOMAIN expr.children |-> ValidateExpr(schema, expr.children[i])])

LookupColumnTypes(type) ==
    CASE type = "STRING_SET" -> TextTypes
      [] type = "INT_SET" -> {"INT32", "INT64", "TIMESTAMP_MS"}
      [] OTHER -> {"STRING", "INT32", "INT64"}

ValidateWindow(schema, c) ==
    LET fn == c.texts[1][1]
        given(i) == c.fields[i] # <<>>
    IN FirstError(<<TypedField(schema, c.fields[1], ColumnTypes),
                    ErrorUnless(fn \in {"AVG", "MIN", "MAX"} => given(2), "MISSING_REQUIRED_FIELD"),
                    ErrorUnless(fn = "RATIO" => given(2) /\ given(3), "MISSING_REQUIRED_FIELD"),
                    NumericFields(schema, SelectSeq(Tail(c.fields), LAMBDA f : f # <<>>))>>)

RECURSIVE ValidateCondition(_, _, _)
ValidateCondition(schema, c, lookups) ==
    LET field(types) == TypedField(schema, c.fields[1], types)
        patterns == c.texts[1] \notin BadPatterns
        known == c.texts[1] \in DOMAIN lookups
    IN CASE c.kind \in {"Numeric", "NumericRange", "Bitfield", "Temporal", "Geo"} -> NumericFields(schema, c.fields)
         [] c.kind = "Categorical" -> field(CodedTypes)
         [] c.kind = "ArrayLen" -> field(TextTypes)
         [] c.kind = "Null" -> field(IF c.op \in {"IS_EMPTY", "IS_NOT_EMPTY"} THEN TextTypes ELSE ColumnTypes)
         [] c.kind = "CrossField" -> FirstError(<<field(ColumnTypes), TypedField(schema, c.fields[2], ColumnTypes)>>)
         [] c.kind = "String" -> field({"STRING"})
         [] c.kind = "Regex" -> FirstError(<<field({"STRING"}), ErrorUnless(patterns, "UNKNOWN_OP")>>)
         [] c.kind = "Lookup" ->
              IF HasField(schema, c.fields[1]) /\ known
              THEN field(LookupColumnTypes(lookups[c.texts[1]].type))
              ELSE FirstError(<<field(ColumnTypes), "MISSING_REQUIRED_FIELD">>)
         [] c.kind = "Cidr" -> field({"STRING", "INT32", "INT64"})
         [] c.kind = "Arithmetic" -> FirstError(<<ValidateExpr(schema, c.expr), NumericFields(schema, c.fields)>>)
         [] c.kind = "Window" -> ValidateWindow(schema, c)
         [] c.kind = "ModelScore" -> FirstError(<<ErrorUnless(c.texts[1] # <<>> /\ c.fields # <<>>, "MISSING_REQUIRED_FIELD"),
                                                  NumericFields(schema, c.fields)>>)
         [] c.kind = "Vector" -> FirstError(<<ErrorUnless(c.fields # <<>>, "MISSING_REQUIRED_FIELD"),
                                              ErrorUnless(Len(c.texts) - 1 = Len(c.fields), "TYPE_MISMATCH"),
                                              NumericFields(schema, c.fields)>>)
         [] c.kind = "ArrayAny" -> NumericFields(schema, c.fields)
         [] OTHER -> FirstError([i \in DOMAIN c.children |-> ValidateCondition(schema, c.children[i], lookups)])

\* Every rule is looked at: what is wrong with it, in order.
Diagnostics(schema, spec, lookups) ==
    LET twice(i) == \E j \in 1..(i - 1) : spec.rules[j].id = spec.rules[i].id
        wrong(i) == <<ErrorUnless(~twice(i), "DUPLICATE_RULE_ID"),
                      ValidateCondition(schema, spec.rules[i].root, lookups)>>
    IN SelectSeq(FlattenSeq([i \in DOMAIN spec.rules |-> wrong(i)]), LAMBDA e : e # "NONE")

-----------------------------------------------------------------------------
(* Registers.  A context holds the operations of a rule, its next register,  *)
(* and the derived columns and array channels of the whole rule set.         *)

EmptyContext(slots, arrays) == [ops |-> <<>>, next |-> 0, slots |-> slots, arrays |-> arrays]
Emit(ctx, node, inputs) ==
    [ctx EXCEPT !.ops = Append(@, [node |-> node, inputs |-> inputs, out |-> ctx.next]), !.next = @ + 1]

\* The operators that have an opposite; any other one is its own.
Opposite ==
    LET pairs == {<<"GT", "LTE">>, <<"GTE", "LT">>, <<"EQ", "NEQ">>, <<"IN", "NOT_IN">>,
                  <<"IS_NULL", "IS_NOT_NULL">>, <<"IS_EMPTY", "IS_NOT_EMPTY">>,
                  <<"GT_FIELD", "LTE_FIELD">>, <<"GTE_FIELD", "LT_FIELD">>, <<"EQ_FIELD", "NEQ_FIELD">>,
                  <<"INTERSECTS", "NOT_INTERSECTS">>, <<"FLAGS_ANY", "FLAGS_NONE">>,
                  <<"IP_IN_SUBNET", "IP_NOT_IN_SUBNET">>, <<"REGEX", "NOT_REGEX">>,
                  <<"IN_LOOKUP", "NOT_IN_LOOKUP">>}
        both == pairs \union {<<p[2], p[1]>> : p \in pairs} \union {<<"CONTAINS_ANY", "NOT_INTERSECTS">>}
    IN [op \in {p[1] : p \in both} |-> (CHOOSE p \in both : p[1] = op)[2]]
InvertOp(op) == IF op \in DOMAIN Opposite THEN Opposite[op] ELSE op
Inverted == {"Numeric", "Categorical", "Null", "CrossField", "Bitfield", "Cidr", "Regex", "Lookup", "Window"}

\* One column for all conditions that compute the same.
DerivedKey(schema, c) ==
    LET fn == c.texts[1][1]
        index(i) == IF c.fields[i] = <<>> THEN 0 ELSE IndexOf(schema, c.fields[i])
    IN IF c.kind = "Window"
       THEN <<"WINDOW", fn, <<index(1), IF fn = "COUNT" THEN 0 ELSE index(2),
                              IF fn = "RATIO" THEN index(3) ELSE 0>>, c.nums[2]>>
       ELSE <<c.kind, c.texts, [i \in DOMAIN c.fields |-> IndexOf(schema, c.fields[i])], 0>>
\* A mutant: each kind of derived column is numbered on its own.
AllocateColumn_PerKind(schema, slots) ==
    Len(schema) + 1 + (IF slots # <<>> /\ Last(slots).key[1] = "WINDOW" THEN Len(slots) ELSE 0)
\* The number of a derived column: past the schema's, from one counter for all kinds.
AllocateColumn(schema, slots) == Len(schema) + Len(slots) + 1
Derived(schema, ctx, c) ==
    LET key == DerivedKey(schema, c)
        same == {i \in DOMAIN ctx.slots : ctx.slots[i].key = key}
        type == IF c.kind = "Window" /\ c.texts[1][1] = "COUNT" THEN "INT32" ELSE "FLOAT32"
        column == IF same # {} THEN ctx.slots[Min(same)].column ELSE AllocateColumn(schema, ctx.slots)
    IN [column |-> column,
        ctx |-> IF same # {} THEN ctx
                ELSE [ctx EXCEPT !.slots = Append(@, [key |-> key, type |-> type, column |-> column])]]

RECURSIVE IndexExpr(_, _)
IndexExpr(schema, expr) ==
    [expr EXCEPT !.field = IF expr.kind = "FIELD" THEN IndexOf(schema, @) ELSE 0,
                 !.children = [i \in DOMAIN @ |-> IndexExpr(schema, @[i])]]

\* A leaf as a predicate on columns.
Predicate(schema, c) ==
    LET fields == [i \in DOMAIN c.fields |-> IndexOf(schema, c.fields[i])]
        cidr == CidrOf(c.texts[1])
    IN CASE c.kind = "Cidr" -> [c EXCEPT !.fields = fields, !.nums = <<cidr.network, cidr.mask>>, !.texts = <<>>]
         [] c.kind = "Arithmetic" -> [c EXCEPT !.fields = fields, !.expr = IndexExpr(schema, @)]
         [] c.kind = "ArrayAny" -> Condition("Numeric", "GT", fields, <<0>>, <<>>)
         [] OTHER -> [c EXCEPT !.fields = fields]
DerivedPredicate(c, column) ==
    CASE c.kind = "Window" -> Condition("Window", c.op, <<column>>, <<c.nums[1]>>, <<>>)
      [] c.kind # "Window" /\ c.op \in RangeOps -> Condition("NumericRange", c.op, <<column>>, c.nums, <<>>)
      [] OTHER -> Condition("Numeric", c.op, <<column>>, c.nums, <<>>)

\* The operations of children, and the registers they leave their results in.
Beside(s, ctx) == [ctx |-> ctx, regs |-> Append(s.regs, ctx.next - 1)]
EmitJunction(kind, compiled) == Emit(compiled.ctx, Junction(kind, <<>>), compiled.regs)
EmitDerived(c, derived) == Emit(derived.ctx, DerivedPredicate(c, derived.column), <<>>)

RECURSIVE CompileCondition(_, _, _)
CompileCondition(schema, c, ctx) ==
    LET channel == <<IndexOf(schema, c.fields[1]), c.children, c.texts[1]>>
        heard == \E i \in DOMAIN ctx.arrays : ctx.arrays[i][1] = channel[1]
        opposite == [c.children[1] EXCEPT !.op = InvertOp(@)]
        step(s, child) == Beside(s, CompileCondition(schema, child, s.ctx))
    IN CASE c.kind = "Not" /\ c.children[1].kind \in Inverted -> CompileCondition(schema, opposite, ctx)
         [] c.kind \in {"And", "Or", "Not"} /\ ~(c.kind = "Not" /\ c.children[1].kind \in Inverted) ->
              EmitJunction(c.kind, FoldLeft(step, [ctx |-> ctx, regs |-> <<>>], c.children))
         [] c.kind \in {"Window", "ModelScore", "Vector"} -> EmitDerived(c, Derived(schema, ctx, c))
         [] c.kind = "ArrayAny" ->
              Emit([ctx EXCEPT !.arrays = IF heard THEN @ ELSE Append(@, channel)], Predicate(schema, c), <<>>)
         [] OTHER -> Emit(ctx, Predicate(schema, c), <<>>)

-----------------------------------------------------------------------------
(* The plan: predicates that are the same are computed once *)

PredicateCost(p) ==
    CASE p.kind \in {"Categorical", "ArrayLen", "Null", "Bitfield"} -> 1
      [] p.kind \in {"Numeric", "CrossField", "Temporal"} -> 2
      [] p.kind \in {"Cidr", "Lookup", "NumericRange"} -> 3
      [] p.kind = "Window" -> 4
      [] p.kind \in {"String", "Arithmetic"} -> 5
      [] OTHER -> 6
PredicateColumn(p) ==
    IF p.kind = "Arithmetic" /\ p.expr.kind = "FIELD" THEN p.expr.field
    ELSE IF p.fields = <<>> THEN -1 ELSE p.fields[1]

RECURSIVE ExprCost(_, _, _)
ExprCost(nodes, i, predicates) ==
    IF nodes[i].kind = "PREDICATE" THEN PredicateCost(predicates[nodes[i].predicate])
    ELSE Min({IF nodes[i].kind = "Not" THEN 6 ELSE 5}
             \union {ExprCost(nodes, child, predicates) : child \in ToSet(nodes[i].children)})

\* One operation of a rule: a node of its plan, and a predicate unless there is one like it.
AddNode(plan, op) ==
    LET leaf == op.inputs = <<>> /\ op.node.kind \notin {"And", "Or"}
        fresh == leaf /\ ~Contains(plan.predicates, op.node)
        predicates == IF fresh THEN Append(plan.predicates, op.node) ELSE plan.predicates
        children == [i \in DOMAIN op.inputs |-> plan.registers[op.inputs[i]]]
        cheaper(a, b) == ExprCost(plan.nodes, a, predicates) <= ExprCost(plan.nodes, b, predicates)
        node == [kind |-> IF leaf THEN "PREDICATE" ELSE op.node.kind,
                 predicate |-> IF leaf THEN CHOOSE i \in DOMAIN predicates : predicates[i] = op.node ELSE 0,
                 children |-> IF op.node.kind = "And" THEN SortSeq(children, cheaper) ELSE children]
    IN [predicates |-> predicates, nodes |-> Append(plan.nodes, node),
        registers |-> [r \in DOMAIN plan.registers \union {op.out} |->
                         IF r = op.out THEN Len(plan.nodes) + 1 ELSE plan.registers[r]]]

AddPlan(plans, rule, plan) ==
    [predicates |-> plan.predicates,
     plans |-> Append(plans, [nodes |-> plan.nodes, root |-> plan.registers[rule.final]])]
\* Predicates by their column, then by their cost.
Ordered(all) ==
    LET column(i) == PredicateColumn(all.predicates[i])
        cost(i) == PredicateCost(all.predicates[i])
        earlier(a, b) == \/ column(a) < column(b)
                         \/ column(a) = column(b) /\ (cost(a) < cost(b) \/ (cost(a) = cost(b) /\ a <= b))
    IN [predicates |-> all.predicates, plans |-> all.plans,
        order |-> SortSeq([i \in DOMAIN all.predicates |-> i], earlier)]
BuildGlobalPlan(rules) ==
    LET none(predicates) == [predicates |-> predicates, nodes |-> <<>>, registers |-> [r \in {} |-> 0]]
        step(s, rule) == AddPlan(s.plans, rule, FoldLeft(AddNode, none(s.predicates), rule.ops))
    IN Ordered(FoldLeft(step, [predicates |-> <<>>, plans |-> <<>>], rules))

-----------------------------------------------------------------------------
(* Decisions and rule sets *)

\* The labels in the order of their codes, and the rank of each: its place in the
\* precedence, or past it for the label of a rule that is not listed.
Decisions(spec) ==
    LET labels == <<spec.default>> \o spec.precedence \o [i \in DOMAIN spec.rules |-> spec.rules[i].label]
        place(label) == IF Contains(spec.precedence, label)
                        THEN Max({i \in DOMAIN spec.precedence : spec.precedence[i] = label}) - 1 ELSE 0
        used(label) == \E i \in DOMAIN spec.rules : spec.rules[i].label = label
    IN [labels |-> FoldLeft(LAMBDA seen, l : IF Contains(seen, l) THEN seen ELSE Append(seen, l), <<>>, labels),
        rank |-> [label \in ToSet(labels) |->
                    IF place(label) = 0 /\ used(label) /\ label # spec.default
                    THEN Len(spec.precedence) ELSE place(label)]]

\* A written prefix or a bad number throws past the diagnostics.
RECURSIVE Throws(_)
Throws(c) == (c.kind = "Cidr" /\ CidrOf(c.texts[1]).throws) \/ \E i \in DOMAIN c.children : Throws(c.children[i])

AddRule(rules, rule, rank, ctx) ==
    [slots |-> ctx.slots, arrays |-> ctx.arrays,
     rules |-> Append(rules, [id |-> rule.id, label |-> rule.label, ops |-> ctx.ops, rank |-> rank,
                              shadow |-> rule.shadow, final |-> ctx.next - 1])]
RuleSet(lookups, decisions, all) ==
    [lookups |-> lookups, decisions |-> decisions, slots |-> all.slots, arrays |-> all.arrays, rules |-> all.rules,
     plan |-> BuildGlobalPlan(all.rules)]
\* The rules in order: derived columns and channels are shared, registers are not.
CompileRules(spec, schema, lookups, decisions) ==
    LET compile(s, rule) == CompileCondition(schema, rule.root, EmptyContext(s.slots, s.arrays))
        step(s, rule) == AddRule(s.rules, rule, decisions.rank[rule.label], compile(s, rule))
    IN RuleSet(lookups, decisions, FoldLeft(step, [slots |-> <<>>, arrays |-> <<>>, rules |-> <<>>], spec.rules))

Checked(spec, schema, lookups, diagnostics) ==
    CASE diagnostics # <<>> -> [Rejected(Head(diagnostics)) EXCEPT !.nodes = diagnostics]
      [] diagnostics = <<>> /\ (\E i \in DOMAIN spec.rules : Throws(spec.rules[i].root)) -> Rejected("EXCEPTION")
      [] OTHER -> Accept(TRUE, CompileRules(spec, schema, lookups, Decisions(spec)))
WithLookups(spec, schema, loaded) ==
    IF loaded.ok THEN Checked(spec, schema, loaded.nodes[1], Diagnostics(schema, spec, loaded.nodes[1])) ELSE loaded
CompileRuleFile(spec, schema) == WithLookups(spec, schema, LoadLookups(spec))

\* The rows of a morsel that a rule of the plan selects.
RECURSIVE Rows(_, _, _, _)
Rows(nodes, i, masks, all) ==
    LET node == nodes[i]
        children == {Rows(nodes, child, masks, all) : child \in ToSet(node.children)}
    IN CASE node.kind = "PREDICATE" -> masks[node.predicate]
         [] node.kind = "Not" -> all \ Rows(nodes, node.children[1], masks, all)
         [] node.kind = "Or" -> UNION children
         [] OTHER -> IF children = {} THEN {} ELSE {row \in all : \A mask \in children : row \in mask}
=============================================================================
