----------------------------- MODULE RuleLoading -----------------------------
(***************************************************************************)
(* A rule file on its way to decisions: it is parsed, looked through for      *)
(* conflicts, compiled against the bound schema and evaluated on batches      *)
(* (engine.cpp, dsl_parser.cpp, compiler.cpp, orchestrator.cpp).  A file is   *)
(* known by the conditions its author meant, one for each rule, and the form  *)
(* they are written in.                                                      *)
(***************************************************************************)
EXTENDS RuleWriting

CONSTANTS
    RuleSets,     \* what may be written: sequences of [meant, form]
    LookupNodes,  \* the lookups of every file: a map of a rule file
    BoundSchema,  \* the schema of the engine: named columns
    Batches,      \* sequences of rows, a row being a cell for every field
    MaxBatches,   \* how many batches are evaluated
    Computed(_, _),   \* the value of a window, a model or a distance for a row
    Elements(_, _, _) \* whether an array of a row has an element that fits

VARIABLES
    ruleset,    \* the conditions in the file
    stage,      \* given, parsed, refused, compiled or failed
    spec,       \* the parsed file
    report,     \* what the rules say about each other
    compiled,   \* the compiled rules
    schema,     \* the columns, those for arrays of objects included, and their dictionaries
    batch,      \* the rows last evaluated
    selected,   \* the rows each rule selected among them
    batches     \* how many batches were evaluated

vars == <<ruleset, stage, spec, report, compiled, schema, batch, selected, batches>>

-----------------------------------------------------------------------------
(* Files *)

RuleId(i) == <<"r", ToString(i)>>
Written(rule) ==
    IF rule.form = "sql" THEN Map(<<"sql">>, <<Scalar(WriteSql(rule.meant))>>) ELSE WriteYaml(rule.meant)
File ==
    Map(<<"lookups", "rules">>,
        <<LookupNodes,
          List([i \in DOMAIN ruleset |->
                  Map(<<"id", "action", "conditions">>,
                      <<Scalar(RuleId(i)), Scalar(<<"REVIEW">>), Written(ruleset[i])>>)])>>)

RECURSIVE ArrayFields(_)
ArrayFields(c) ==
    IF c.kind = "ArrayAny" THEN c.fields
    ELSE IF c.kind \in {"And", "Or", "Not"} THEN FlattenSeq([i \in DOMAIN c.children |-> ArrayFields(c.children[i])])
    ELSE <<>>

\* The schema with a column of numbers for each array condition that has none yet.
SchemaWithArrays(rules) ==
    LET fields == FlattenSeq([i \in DOMAIN rules |-> ArrayFields(rules[i].root)])
        add(columns, field) == IF HasField(columns, field) THEN columns
                               ELSE Append(columns, NamedColumn(field, Column("INT32", <<>>)))
    IN FoldLeft(add, schema, fields)

-----------------------------------------------------------------------------
(* Rows *)

\* A cell for each column of the schema and each derived column.
ChannelCell(channel, names) ==
    [Cell EXCEPT !.num = IF Elements(channel[3], channel[2], names) THEN 1 ELSE 0]
BatchRow(names) ==
    LET channel(i) == compiled.arrays[CHOOSE k \in DOMAIN compiled.arrays : compiled.arrays[k][1] = i]
        base == [i \in DOMAIN schema |-> IF schema[i].name \in DOMAIN names THEN names[schema[i].name]
                                         ELSE IF \E k \in DOMAIN compiled.arrays : compiled.arrays[k][1] = i
                                         THEN ChannelCell(channel(i), names) ELSE Cell]
    IN base \o [i \in DOMAIN compiled.slots |-> [Cell EXCEPT !.num = Computed(compiled.slots[i].key, names)]]

\* The columns that get bounds: those of more than one numeric predicate.
Bounded(field) ==
    Cardinality({i \in DOMAIN compiled.plan.predicates :
                   /\ compiled.plan.predicates[i].kind \in {"Numeric", "NumericRange", "Window"}
                   /\ compiled.plan.predicates[i].fields[1] = field}) > 1

-----------------------------------------------------------------------------
Init ==
    /\ ruleset \in RuleSets /\ stage = "given" /\ schema = BoundSchema
    /\ spec = <<>> /\ report = <<>> /\ compiled = <<>> /\ batch = <<>> /\ selected = <<>> /\ batches = 0

ParseFile ==
    /\ stage = "given"
    /\ \E result \in {ParseRoot(File)} :
         IF result.ok THEN stage' = "parsed" /\ spec' = result.nodes[1]
         ELSE stage' = "refused" /\ spec' = result
    /\ UNCHANGED <<ruleset, report, compiled, schema, batch, selected, batches>>

\* Under the engine's lock: the report, then the compilation, then the rules are
\* installed and the texts of their lookups get codes.
InstallRules ==
    /\ stage = "parsed"
    /\ report' = AnalyzeConflicts(spec)
    /\ \E columns \in {SchemaWithArrays(spec.rules)} : \E result \in {CompileRuleFile(spec, columns)} :
         IF result.ok THEN stage' = "compiled" /\ compiled' = result.nodes[1] /\ schema' = columns
         ELSE stage' = "failed" /\ compiled' = result /\ UNCHANGED schema
    /\ UNCHANGED <<ruleset, spec, batch, selected, batches>>

\* A batch is encoded, and every rule is decided on the shared masks.
EvaluateBatch ==
    /\ stage = "compiled" /\ batches < MaxBatches
    /\ batches' = batches + 1
    /\ \E rows \in Batches, noise \in BOOLEAN :
         LET cells == [r \in DOMAIN rows |-> BatchRow(rows[r])]
             plain == [i \in DOMAIN schema |-> schema[i].column]
             encoded == Encoded(plain, cells)
             columns == WithDerived([i \in DOMAIN schema |-> [schema[i] EXCEPT !.column = encoded[i]]], compiled.slots)
             mask(p) == Mask(p, columns, cells, compiled.lookups, noise, p.fields # <<>> /\ Bounded(p.fields[1]))
             masks == [i \in DOMAIN compiled.plan.predicates |-> mask(compiled.plan.predicates[i])]
             plan(i) == compiled.plan.plans[i]
         IN /\ batch' = rows
            /\ schema' = [i \in DOMAIN schema |-> [schema[i] EXCEPT !.column = encoded[i]]]
            /\ selected' = [i \in DOMAIN compiled.rules |-> Rows(plan(i).nodes, plan(i).root, masks, DOMAIN rows)]
    /\ UNCHANGED <<ruleset, stage, spec, report, compiled>>

Next == ParseFile \/ InstallRules \/ EvaluateBatch
Spec == Init /\ [][Next]_vars

-----------------------------------------------------------------------------
(* Properties *)

Evaluated == stage = "compiled" /\ batches > 0
Rules == DOMAIN ruleset
Readable(rule) ==
    IF rule.form = "sql" THEN 1 + SqlDepth(rule.meant) < MaxDepth ELSE YamlDepth(rule.meant) <= MaxConditionDepth

\* Whatever nesting, precedence and parentheses a condition is written with, the tree
\* that is read is the one that was meant; a file is refused only for its depth.
ReadsAsWritten ==
    /\ stage = "refused" => \E i \in Rules : ~Readable(ruleset[i])
    /\ stage \notin {"given", "refused"} => \A i \in Rules : Readable(ruleset[i]) /\ spec.rules[i].root = ruleset[i].meant

ColumnsByName == [name \in {schema[i].name : i \in DOMAIN schema} |-> schema[IndexOf(schema, name)].column]
NamesOf(row) == [name \in DOMAIN ColumnsByName |-> IF name \in DOMAIN row THEN row[name] ELSE Cell]
Means(c, row) ==
    LET asks == {Asked(schema, leaf) : leaf \in {l \in LeavesOf(c) : l.kind \in ComputedKinds}}
        answer(asked) == IF asked[1] = "ArrayAny" THEN Elements(asked[2][1], asked[3], row) ELSE Computed(asked, row)
    IN Holds(c, schema, ColumnsByName, NamesOf(row), compiled.lookups, [asked \in asks |-> answer(asked)])

\* The conditions the code is known to decide otherwise (README, section 7): kernels
\* that read another width, a negation without an opposite operator, and a row with a
\* NaN in a column that has bounds.
Sound(c) ==
    /\ \A leaf \in NegatedLeaves(c) : leaf.op \in DOMAIN Opposite
    /\ \A leaf \in LeavesOf(c) : ~Misread(leaf, ColumnsByName)
OrderedRow(row) == \A i \in DOMAIN schema : Bounded(i) => ~NamesOf(row)[schema[i].name].nan

\* Through inverted operators, shared predicates, reordered conjunctions, derived columns
\* and the bounds of a morsel, a rule selects the rows its author meant.
CompiledMeansWritten ==
    Evaluated => \A i \in Rules, r \in DOMAIN batch :
        Sound(ruleset[i].meant) /\ OrderedRow(batch[r]) => (r \in selected[i]) = Means(ruleset[i].meant, batch[r])

\* What the report says of the rules is so: a dead rule selects no row, and two rules in
\* conflict select no row both, unless they conflict over the values of a closed column,
\* of which a row may hold several (README, section 7).
ReportIsTrue ==
    Evaluated =>
        /\ \A i \in report.dead : selected[i] = {}
        /\ \A conflict \in report.conflicts :
             IsSetColumn(ColumnsByName[conflict[3]]) \/ selected[conflict[1]] \intersect selected[conflict[2]] = {}

\* The merged ranges of a lookup hold the addresses of the prefixes in its file and no
\* other one; a range that ends at the last address breaks this (README, section 7).
ListedPrefixes(lookup) ==
    LET path == spec.lookups[CHOOSE i \in DOMAIN spec.lookups : spec.lookups[i].name = lookup.name].path
    IN ToSet(LookupValues(Files[path], lookup.type))
LookupsExact ==
    stage = "compiled" => \A name \in DOMAIN compiled.lookups :
        LET lookup == compiled.lookups[name]
            listed == {CidrRange(text) : text \in ListedPrefixes(lookup)}
        IN lookup.type = "IPV4_CIDR_SET" /\ (\A range \in listed : range.end < AllOnes) =>
             \A address \in 0..AllOnes :
               RangesContain(lookup.ranges, address) = \E range \in listed : range.start <= address /\ address <= range.end
=============================================================================
