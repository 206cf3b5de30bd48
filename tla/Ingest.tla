------------------------------- MODULE Ingest -------------------------------
(***************************************************************************)
(* A batch on its way into the engine (engine.cpp): the rules are loaded,    *)
(* before or after the schema is known; a batch of JSON is transposed, one   *)
(* of Arrow columns is aligned; what is wrong with it is counted, sampled    *)
(* and handled as the configuration says.  The engine holds its lock for     *)
(* the whole of a load or an evaluation.  What the rules decide is the       *)
(* subject of RuleLoading and RuleEval.                                      *)
(***************************************************************************)
EXTENDS Transposer

CONSTANTS
    Setups,       \* what an engine may be made with: a schema, <<>> for none, a policy, and a course
    RuleFiles,    \* the parsed rule files there are
    MaxLoads,     \* how many are loaded in a course
    Inputs        \* what the first, the second ... batch of a course may be: [kind, chunks, columns],
                  \* the columns of an Arrow batch being those of the records in its chunk

VARIABLES
    policy,   \* ingest_error_mode and type_mismatch_mode
    course,   \* which inputs there are
    engine,   \* schema, pending and active rules, transposer
    last,     \* the last batch: what came in and what was made of it
    stats,    \* what the engine has counted
    dead,     \* the dead letters
    loads,    \* how many rule files were loaded
    batches   \* how many batches came in

vars == <<policy, course, engine, last, stats, dead, loads, batches>>

JsonKinds == {"messages", "ndjson", "array"}
NoInput == [kind |-> "none", chunks |-> <<>>, columns |-> <<>>]
NoBatch == [input |-> NoInput, outcome |-> "NONE", processed |-> 0, table |-> <<>>, inferred |-> <<>>]

-----------------------------------------------------------------------------
(* Rules and schema *)

BindSchema(e, schema) == [e EXCEPT !.schema = schema, !.t = NewTransposer(schema)]

RECURSIVE SyntheticFields(_)
SyntheticFields(c) ==
    IF c.kind = "ArrayAny" THEN c.fields ELSE FlattenSeq([i \in DOMAIN c.children |-> SyntheticFields(c.children[i])])
SchemaWithArrayAnyFields(schema, spec) ==
    LET add(columns, name) ==
          IF HasField(columns, name) THEN columns
          ELSE Append(columns, [name |-> name, column |-> Column("INT32", <<>>), nullable |-> FALSE])
    IN FoldLeft(add, schema, FlattenSeq([i \in DOMAIN spec.rules |-> SyntheticFields(spec.rules[i].root)]))

\* The columns of an operation that are looked for: a length is not, and a window,
\* a model or a vector is by what it is computed from.
RECURSIVE ExprColumns(_)
ExprColumns(expr) == {expr.field} \union UNION {ExprColumns(expr.children[i]) : i \in DOMAIN expr.children}
ColumnsOfOp(op) ==
    CASE op.kind \in {"ArrayLen", "Window"} -> {}
      [] op.kind = "Arithmetic" -> ToSet(op.fields) \union ExprColumns(op.expr)
      [] OTHER -> ToSet(op.fields)
OpsOf(compiled) == UNION {{rule.ops[i].node : i \in DOMAIN rule.ops} : rule \in ToSet(compiled.rules)}
ProjectedColumns(compiled) ==
    UNION {ColumnsOfOp(op) : op \in OpsOf(compiled)}
    \union UNION {ToSet(slot.key[3]) : slot \in ToSet(compiled.slots)}

\* The channels that answer any_match: a column, a path and a condition.
ChannelsOf(compiled) ==
    [i \in DOMAIN compiled.arrays |->
       [column |-> compiled.arrays[i][1], where |-> compiled.arrays[i][2][1], path |-> compiled.arrays[i][3]]]
InstallRules(e, compiled) ==
    LET projected == SetProjectedFields(e.t, ProjectedColumns(compiled))
    IN [e EXCEPT !.active = <<compiled>>, !.t = SetArrayAnyChannels(projected, ChannelsOf(compiled), compiled.lookups)]

\* Without a schema the rules wait for the first batch.
InstallCompiled(e, schema, compiled) ==
    IF compiled.ok THEN InstallRules(IF schema = e.schema THEN e ELSE BindSchema(e, schema), compiled.nodes[1]) ELSE e
InstallOrDefer(e, spec) ==
    LET schema == SchemaWithArrayAnyFields(e.schema, spec)
    IN IF e.schema = <<>> THEN [e EXCEPT !.pending = <<spec>>]
       ELSE InstallCompiled(e, schema, CompileRuleFile(spec, schema))

Infer(spec, input) ==
    LET docs == FlattenSeq(input.chunks)
    IN CASE input.kind = "messages" -> InferFromMessages(spec, docs)
         [] input.kind = "ndjson" -> InferFromNdjson(spec, docs)
         [] input.kind = "array" -> InferFromJsonArray(spec, docs)
         [] OTHER -> InferFromArrow(spec, input.columns)

\* The first batch gives the schema; the rules are compiled when it is bound already.
Bound(e, error) == [engine |-> e, error |-> error]
Activate(e, compiled) ==
    IF compiled.ok THEN Bound([InstallRules(e, compiled.nodes[1]) EXCEPT !.pending = <<>>], "NONE")
    ELSE Bound(e, compiled.error)
BindInferred(e, inferred) ==
    IF inferred.ok
    THEN Activate(BindSchema(e, inferred.nodes[1]), CompileRuleFile(e.pending[1], inferred.nodes[1]))
    ELSE Bound(e, inferred.error)
EnsureSchemaBound(e, input) ==
    CASE e.schema # <<>> -> Bound(e, "NONE")
      [] e.schema = <<>> /\ e.pending = <<>> -> Bound(e, "MISSING_REQUIRED_FIELD")
      [] OTHER -> BindInferred(e, Infer(e.pending[1], input))

-----------------------------------------------------------------------------
(* Batches *)

\* Messages are joined, a line each, and read as one stream.
ReadJson(t, input, blind) ==
    CASE input.kind \in {"messages", "ndjson"} -> ParseNdjsonParallel(Reset(t), input.chunks, blind)
      [] OTHER -> ParseJsonArray(Reset(t), Document("array", input.chunks[1], FALSE))

RefusedBatch(t) ==
    CASE policy.ingest = "HARD_FAIL" /\ t.counts["MALFORMED_JSON"] > 0 -> "MALFORMED_JSON"
      [] policy.type = "HARD_FAIL_TYPE" /\ t.counts["FIELD_TYPE_COERCION_FAILED"] > 0 ->
           IF t.counts["MALFORMED_JSON"] > 0 THEN "MALFORMED_JSON" ELSE "FIELD_TYPE_COERCION_FAILED"
      [] OTHER -> "NONE"

\* A mutant: the letters are written before the batch is refused.
DeadLetters_BeforeRefusal(t) == IF policy.ingest = "SKIP_TO_DEAD_LETTER" THEN t.samples ELSE <<>>
DeadLetters(t) ==
    IF policy.ingest = "SKIP_TO_DEAD_LETTER" /\ RefusedBatch(t) = "NONE" THEN t.samples ELSE <<>>

\* An Arrow type that a column may have.
ArrowTypeCompatible(type, id) ==
    CASE type = "FLOAT32" -> id = "FLOAT"
      [] type = "FLOAT64" -> id = "DOUBLE"
      [] type \in {"INT32", "INT64"} -> id = type
      [] type = "TIMESTAMP_MS" -> id \in {"INT64", "TIMESTAMP"}
      [] type = "BOOLEAN" -> id = "BOOL"
      [] type = "STRING" -> id \in {"STRING", "LARGE_STRING"}
      [] OTHER -> id \in {"STRING", "LARGE_STRING", "DICTIONARY", "INT32", "INT64"}
\* A column of the schema: one of its name, the answers of a channel, or a part of a struct.
AnswerColumn(name, answers) ==
    LET truth(r) == [Value("number") EXCEPT !.num = IF answers[r] THEN Half(1) ELSE 0]
    IN <<ArrowColumn(name, ArrowType("INT32", FALSE), [r \in DOMAIN answers |-> truth(r)])>>
AlignedColumn(e, batch, c) ==
    LET name == e.schema[c].name
        channels == IF e.active = <<>> THEN <<>>
                    ELSE SelectSeq(ChannelsOf(e.active[1]), LAMBDA ch : ch.column = c)
    IN IF (\E i \in DOMAIN batch : batch[i].name = name) \/ channels = <<>> THEN Resolve(batch, name)
       ELSE AnswerColumn(name, ArrowAnyChannel(batch, channels[1], e.active[1].lookups))
Align(e, batch) == [c \in DOMAIN e.schema |-> AlignedColumn(e, batch, c)]
Misaligned(e, aligned) ==
    CASE \E c \in DOMAIN aligned : aligned[c] = <<>> -> "SCHEMA_MISMATCH"
      [] \A c \in DOMAIN aligned : aligned[c] # <<>> /\ ArrowTypeCompatible(e.schema[c].column.type, aligned[c][1].type.id) ->
           "NONE"
      [] OTHER -> "TYPE_MISMATCH"
ArrowCell(v) == IF v.type = "null" THEN NullCell ELSE [Cell EXCEPT !.num = v.num, !.text = v.text]

\* Without rules a batch is read and forgotten.
EvaluateInternal(e, records, skipped) ==
    stats' = IF e.active = <<>> THEN stats
             ELSE [batches |-> stats.batches + 1, records |-> stats.records + records, skipped |-> stats.skipped + skipped]
Report(input, before, e, outcome, processed, table) ==
    last' = [input |-> input, outcome |-> IF outcome = "NONE" /\ e.active = <<>> THEN "EMPTY" ELSE outcome,
             processed |-> processed, table |-> table,
             inferred |-> IF before.schema = <<>> /\ e.schema # <<>> THEN <<before.pending[1].hints>> ELSE <<>>]

-----------------------------------------------------------------------------
Init ==
    /\ \E setup \in Setups :
         /\ policy = setup.policy /\ course = setup.course
         /\ engine = BindSchema([schema |-> <<>>, pending |-> <<>>, active |-> <<>>, t |-> <<>>], setup.schema)
    /\ last = NoBatch /\ dead = <<>> /\ loads = 0 /\ batches = 0
    /\ stats = [batches |-> 0, records |-> 0, skipped |-> 0]

LoadRules ==
    /\ loads < MaxLoads[course]
    /\ loads' = loads + 1
    /\ \E spec \in RuleFiles : engine' = InstallOrDefer(engine, spec)
    /\ last' = NoBatch
    /\ UNCHANGED <<policy, course, stats, dead, batches>>

\* The batch does not get to the transposer.
FailToBind(input, bound) ==
    /\ bound.error # "NONE"
    /\ engine' = bound.engine
    /\ Report(input, engine, bound.engine, bound.error, 0, <<>>)
    /\ UNCHANGED <<stats, dead>>

EvaluateJson(input, bound) ==
    /\ input.kind \in JsonKinds /\ bound.error = "NONE"
    /\ LET docs == FlattenSeq(input.chunks)
       IN \E blind \in {b \in BOOLEAN : b => \E i \in DOMAIN docs : docs[i].kind = "garbage"} :
          \E t \in {ReadJson(bound.engine.t, input, blind)} :
             LET read == [bound.engine EXCEPT !.t = t]
                 processed == IF input.kind = "messages" THEN Len(docs) ELSE t.size + t.skipped
             IN /\ engine' = read
                /\ Report(input, engine, read, RefusedBatch(t), processed, FinishBatch(t))
                /\ IF RefusedBatch(t) = "NONE" THEN EvaluateInternal(read, t.size, t.skipped) ELSE UNCHANGED stats
                /\ dead' = dead \o DeadLetters(t)

EvaluateRecordBatch(input, bound) ==
    /\ input.kind = "arrow" /\ bound.error = "NONE"
    /\ \E aligned \in {Align(bound.engine, input.columns)} :
         LET error == Misaligned(bound.engine, aligned)
             rows == DOMAIN input.columns[1].values
             table == IF error # "NONE" THEN <<>>
                      ELSE [c \in DOMAIN aligned |-> [r \in rows |-> ArrowCell(aligned[c][1].values[r])]]
         IN /\ Report(input, engine, bound.engine, error, IF error = "NONE" THEN Cardinality(rows) ELSE 0, table)
            /\ IF error = "NONE" THEN EvaluateInternal(bound.engine, Cardinality(rows), 0) ELSE UNCHANGED stats
    /\ engine' = bound.engine
    /\ UNCHANGED dead

Batch ==
    /\ batches < Len(Inputs[course])
    /\ batches' = batches + 1
    /\ \E input \in Inputs[course][batches + 1] : \E bound \in {EnsureSchemaBound(engine, input)} :
         FailToBind(input, bound) \/ EvaluateJson(input, bound) \/ EvaluateRecordBatch(input, bound)
    /\ UNCHANGED <<policy, course, loads>>

Next == LoadRules \/ Batch
Spec == Init /\ [][Next]_vars

-----------------------------------------------------------------------------
(* Properties *)

\* The records of a chunk: lines that are not blank, or elements up to one that breaks.
LinesIn(chunk) ==
    IF last.input.kind = "array" THEN ElementsOf(chunk) ELSE SelectSeq(chunk, LAMBDA doc : doc.kind # "blank")
Chunks == [k \in DOMAIN last.input.chunks |-> LinesIn(last.input.chunks[k])]
Lines == FlattenSeq(Chunks)
IsRead == last.input.kind \in JsonKinds /\ last.table # <<>>

\* The values a record has at a path.
RECURSIVE ValuesAt(_, _)
ValuesAt(fields, path) ==
    LET at(field) ==
          CASE field.key = path -> <<field.value>>
            [] IsStrictPrefix(field.key, path) /\ field.value.type = "object" ->
                 ValuesAt(field.value.fields, SubSeq(path, Len(field.key) + 1, Len(path)))
            [] OTHER -> <<>>
    IN FlattenSeq([i \in DOMAIN fields |-> at(fields[i])])

Flat == engine.t.learned /\ engine.t.flat
ChannelAt(c) == SelectSeq(engine.t.channels, LAMBDA ch : ch.column = c)
PathOf(c) == IF ChannelAt(c) # <<>> THEN ChannelAt(c)[1].path ELSE engine.schema[c].name
AtTop(doc, path) == \E i \in DOMAIN doc.fields : doc.fields[i].key = path
\* What a column should be given for a record.
Reading(doc, c) ==
    LET values == ValuesAt(doc.fields, PathOf(c))
        plain == SelectSeq(values, LAMBDA v : v.type # "object" \/ Flat)
        hits == JsonAnyElement(values[1], ChannelAt(c)[1].where, engine.t.lookups)
    IN CASE ChannelAt(c) # <<>> /\ values # <<>> -> Taken([Cell EXCEPT !.num = IF hits THEN Half(1) ELSE 0])
         [] ChannelAt(c) = <<>> /\ plain # <<>> -> AppendJsonValue(engine.schema[c], plain[1])
         [] OTHER -> NullReading
Shown(doc, c) ==
    CASE c \notin engine.t.projected -> NullCell
      [] c \in engine.t.projected /\ Reading(doc, c).kind = "value" -> Reading(doc, c).cell
      [] OTHER -> IF engine.schema[c].nullable THEN NullCell ELSE DefaultCell(engine.schema[c])

\* Where the code is known to read a record otherwise (README, section 7): a column under
\* the path of an any_match, a nested field once the layout was taken for flat, and the
\* bits that a record left behind when it was taken back.
Shadowed(c) == ChannelAt(c) = <<>> /\ \E i \in DOMAIN engine.t.channels : IsPrefix(engine.t.channels[i].path, PathOf(c))
Nested(doc, c) == ValuesAt(doc.fields, PathOf(c)) # <<>> /\ ~AtTop(doc, PathOf(c))
Overlooked(doc, c) == Flat /\ Nested(doc, c)
Kept(doc) ==
    doc.kind = "object" /\ (doc.cut => Flat /\ \A c \in engine.t.projected : ~Shadowed(c) /\ AtTop(doc, PathOf(c)))
\* A row before which broken records left bits in its byte.
Smudged(lines, kept, i, c) ==
    /\ Cardinality({j \in 1..(i - 1) : kept[j]}) % ByteBits # 0
    /\ \E j \in 1..(i - 1) : /\ \A k \in j..(i - 1) : ~kept[k]
                             /\ ValuesAt(lines[j].fields, PathOf(c)) # <<>>

\* Every good record of an input is one row, in its place, and a column of that row is the
\* first value the record has for it; whatever broken records are between them, however the
\* input is cut in chunks, whatever batches and rules came before.
RowsAreDocuments ==
    IsRead =>
        LET chunks == Chunks
            kept == [k \in DOMAIN chunks |-> [i \in DOMAIN chunks[k] |-> Kept(chunks[k][i])]]
            rows(k, n) == Cardinality({i \in 1..n : kept[k][i]})
            base(k) == FoldLeft(LAMBDA n, j : n + rows(j, Len(chunks[j])), 0, [j \in 1..(k - 1) |-> j])
            columns == {c \in DOMAIN engine.schema : ~Shadowed(c)}
        IN /\ engine.t.size = base(Len(chunks) + 1)
           /\ \A k \in DOMAIN chunks : \A i \in {j \in DOMAIN chunks[k] : kept[k][j]} : \A c \in columns :
                \/ last.table[c][base(k) + rows(k, i)] = Shown(chunks[k][i], c)
                \/ Overlooked(chunks[k][i], c)
                \/ Smudged(chunks[k], kept[k], i, c)

\* A record that is skipped is counted once, a value that does not fit too, and the samples,
\* as many as there is room for, name the records they are about, however the stream was read.
ErrorsPointHome ==
    IsRead =>
        LET t == engine.t
            lines == Lines
            total == t.counts["MALFORMED_JSON"] + t.counts["FIELD_TYPE_COERCION_FAILED"]
            broken == {i \in DOMAIN lines : ~Kept(lines[i])}
            misfits == {ic \in (DOMAIN lines) \X t.projected :
                          ~Shadowed(ic[2]) /\ Reading(lines[ic[1]], ic[2]).kind = "error"}
            about(sample) == LET i == sample.row + 1
                             IN IF sample.code = "MALFORMED_JSON" THEN i \in broken
                                ELSE <<i, IndexOf(engine.schema, sample.column)>> \in misfits
        IN /\ t.skipped = Cardinality(broken) /\ t.counts["MALFORMED_JSON"] = t.skipped
           /\ Flat \/ t.counts["FIELD_TYPE_COERCION_FAILED"] = Cardinality(misfits)
           /\ Len(t.samples) = Min({total, MaxSamples})
           /\ \A i \in DOMAIN t.samples : about(t.samples[i])

\* A cell of an Arrow column, and the one of the JSON column: a mask or the code of a closed value.
SameCell(field, arrow, json) ==
    LET values == field.column.values
    IN CASE Encoding(field) = "NONE" \/ ~arrow.valid -> json = arrow
         [] Encoding(field) = "MASK" /\ arrow.valid -> json.valid /\ json.bits = {arrow.text} \intersect ToSet(values)
         [] OTHER -> /\ json.valid
                     /\ IF Contains(values, arrow.text) THEN values[json.num + 1] = arrow.text ELSE json.num = -1

\* The records of an Arrow batch give the engine the same columns, closed values and answers of
\* any_match included, when they come as messages, cut into chunks anyhow, or as an array; but
\* a column under the path of an any_match, a nested field once the layout was taken for flat,
\* a text that counts as null in JSON, and a null in a column that may not be null.
ArrowReadsAsJson ==
    last.input.kind = "arrow" /\ last.outcome = "NONE" =>
        LET docs == last.input.chunks[1]
            cuts == {<<docs>>} \union {<<SubSeq(docs, 1, i), SubSeq(docs, i + 1, Len(docs))>> : i \in 1..(Len(docs) - 1)}
            inputs == {[kind |-> "array", chunks |-> <<docs>>]} \union {[kind |-> "messages", chunks |-> cut] : cut \in cuts}
            void(field, cell) == IF cell.valid THEN field.column.type \in {"STRING", "CATEGORICAL"} /\ cell.text \in NullTexts
                                 ELSE ~field.nullable
            same(t, json) == \A c \in t.projected : \A r \in DOMAIN docs :
                \/ Shadowed(c)
                \/ t.learned /\ t.flat /\ Nested(docs[r], c)
                \/ void(engine.schema[c], last.table[c][r])
                \/ SameCell(engine.schema[c], last.table[c][r], json[c][r])
        IN \A input \in inputs : \E t \in {ReadJson(engine.t, input, FALSE)} : same(t, FinishBatch(t))

\* A schema that was inferred can hold what it was inferred from: a field that is missing or
\* null in a sampled record may be null, and a number of a field that has only numbers is kept
\* as it is.
SampleFits ==
    last.inferred # <<>> /\ IsRead =>
        LET sample == FirstOnes(SelectSeq(IF last.input.kind = "ndjson" THEN FirstOnes(Lines) ELSE Lines,
                                          LAMBDA doc : doc.kind = "object"))
            hinted == {last.inferred[1][i].name : i \in DOMAIN last.inferred[1]}
            values(i, c) == ValuesAt(sample[i].fields, engine.schema[c].name)
            missing(i, c) == values(i, c) = <<>> \/ values(i, c)[1].type = "null"
            numbers(c) == \A i \in DOMAIN sample : \A v \in ToSet(values(i, c)) : v.type \in {"number", "null"}
            kept(i, c) == AppendJsonValue(engine.schema[c], values(i, c)[1]).cell.num = values(i, c)[1].num
        IN \A i \in DOMAIN sample, c \in DOMAIN engine.schema :
             ChannelAt(c) = <<>> /\ engine.schema[c].name \notin hinted =>
               /\ missing(i, c) => engine.schema[c].nullable
               /\ ~missing(i, c) /\ numbers(c) /\ engine.schema[c].column.type \in {"INT32", "FLOAT64"} => kept(i, c)

\* What is skipped is in the dead letters or the batch is refused, while the samples have room
\* and there are rules.
SkippedAreDeadLettered ==
    [][LET letters == SubSeq(dead', Len(dead) + 1, Len(dead'))
           malformed == SelectSeq(letters, LAMBDA letter : letter.code = "MALFORMED_JSON")
       IN policy.ingest = "SKIP_TO_DEAD_LETTER" /\ Len(letters) < MaxSamples /\ last'.outcome # "EMPTY" =>
            stats'.skipped - stats.skipped = Len(malformed)]_vars

\* Every column that an operation of the active rules reads is one the transposer fills.
RulesReadTheirColumns ==
    engine.active # <<>> =>
        \A op \in OpsOf(engine.active[1]) :
          (ToSet(op.fields) \union (IF op.kind = "Arithmetic" THEN ExprColumns(op.expr) ELSE {}))
            \intersect DOMAIN engine.schema \subseteq engine.t.projected
=============================================================================
