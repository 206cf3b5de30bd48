------------------------------ MODULE Inference ------------------------------
(***************************************************************************)
(* The schema that is inferred from rules and a first batch                 *)
(* (schema_inference.cpp): what the conditions need of a field, and what a   *)
(* sample of records holds in it.  A schema is a sequence of named columns   *)
(* that may be null or not.  Documents are records: an object with its       *)
(* fields, which may be cut (it breaks after these fields, its braces        *)
(* closed), another JSON value, garbage that is refused before any field is  *)
(* read, or a blank line.                                                    *)
(***************************************************************************)
EXTENDS Records

CONSTANTS
    SampleRows,       \* the records of a sample
    SampleTexts,      \* categorical_max_cardinality
    InferDepth,       \* max_depth
    SpareTexts,       \* the texts that inference takes for null
    IntHalf           \* a 32-bit number is between -IntHalf and IntHalf - 1

Document(kind, fields, cut) == [kind |-> kind, fields |-> fields, cut |-> cut]
ObjectOf(fields) == Document("object", fields, FALSE)

-----------------------------------------------------------------------------
(* What the rules need *)

\* The stronger of two needs is the later one.
NeedRank(need) ==
    LET needs == <<"ANY", "BOOLEAN", "TEXT", "CATEGORICAL", "NUMERIC", "BITFIELD", "TEMPORAL", "CIDR", "STRING", "ENTITY">>
    IN CHOOSE i \in DOMAIN needs : needs[i] = need
NeedOfType(type) ==
    CASE type \in {"FLOAT32", "FLOAT64", "INT32", "INT64"} -> "NUMERIC"
      [] type = "TIMESTAMP_MS" -> "TEMPORAL"
      [] type = "ENTITY_KEY" -> "ENTITY"
      [] OTHER -> type

Wish(name, need) == [name |-> name, need |-> need, values |-> <<>>, type |-> "NONE", nullable |-> <<>>, entity |-> FALSE]
Wishes(names, need) == [i \in DOMAIN names |-> Wish(names[i], need)]

RECURSIVE ExprWishes(_)
ExprWishes(expr) ==
    (IF expr.kind = "FIELD" THEN <<Wish(expr.field, "NUMERIC")>> ELSE <<>>)
    \o FlattenSeq([i \in DOMAIN expr.children |-> ExprWishes(expr.children[i])])

\* The fields of a condition and what each must be; kinds gives the type of a lookup.
RECURSIVE ConditionWishes(_, _)
ConditionWishes(c, kinds) ==
    LET all(need) == Wishes(c.fields, need)
        kind == IF c.texts[1] \in DOMAIN kinds THEN kinds[c.texts[1]] ELSE "STRING_SET"
        channel == [Wish(c.fields[1], "NUMERIC") EXCEPT !.type = "INT32", !.nullable = <<FALSE>>]
    IN CASE c.kind \in {"Numeric", "NumericRange", "Geo", "ModelScore", "Vector"} -> all("NUMERIC")
         [] c.kind = "Categorical" -> <<[Wish(c.fields[1], "CATEGORICAL") EXCEPT !.values = c.texts]>>
         [] c.kind = "ArrayLen" -> all("CATEGORICAL")
         [] c.kind = "Null" -> all(IF c.op \in {"IS_EMPTY", "IS_NOT_EMPTY"} THEN "TEXT" ELSE "ANY")
         [] c.kind = "CrossField" -> all(IF c.op \in {"EQ_FIELD", "NEQ_FIELD"} THEN "TEXT" ELSE "NUMERIC")
         [] c.kind = "Bitfield" -> all("BITFIELD")
         [] c.kind \in {"String", "Regex"} -> all("STRING")
         [] c.kind = "Lookup" -> all(CASE kind = "INT_SET" -> "NUMERIC" [] kind = "IPV4_CIDR_SET" -> "CIDR" [] OTHER -> "TEXT")
         [] c.kind = "Cidr" -> all("CIDR")
         [] c.kind = "Temporal" -> all("TEMPORAL")
         [] c.kind = "Arithmetic" -> ExprWishes(c.expr) \o all("NUMERIC")
         [] c.kind = "Window" -> <<Wish(c.fields[1], "ENTITY")>>
                                 \o Wishes(SelectSeq(Tail(c.fields), LAMBDA f : f # <<>>), "NUMERIC")
         [] c.kind = "ArrayAny" -> <<channel>>
         [] OTHER -> FlattenSeq([i \in DOMAIN c.children |-> ConditionWishes(c.children[i], kinds)])

\* A hint gives a need, a type and whether the field may be null.
HintWish(hint) ==
    LET entity == hint.entity \/ hint.type = "ENTITY_KEY"
    IN [name |-> hint.name, values |-> hint.values, type |-> hint.type, nullable |-> hint.nullable, entity |-> entity,
        need |-> IF entity THEN "ENTITY" ELSE IF hint.type = "NONE" THEN "ANY" ELSE NeedOfType(hint.type)]

NewInference(name) ==
    [name |-> name, need |-> "ANY", type |-> "NONE", nullable |-> <<>>, entity |-> FALSE, values |-> <<>>,
     arrow |-> <<>>, rows |-> 0, present |-> 0, nulls |-> 0, bools |-> 0, ints |-> 0, floats |-> 0,
     strings |-> 0, arrays |-> 0, inRange |-> TRUE, samples |-> {}]
Distinct(texts) == FoldLeft(LAMBDA seen, t : IF Contains(seen, t) THEN seen ELSE Append(seen, t), <<>>, texts)
Promote(field, wish) ==
    [field EXCEPT !.need = IF NeedRank(wish.need) > NeedRank(@) THEN wish.need ELSE @,
                  !.type = IF wish.type = "NONE" THEN @ ELSE wish.type,
                  !.nullable = IF wish.nullable = <<>> THEN @ ELSE wish.nullable,
                  !.entity = @ \/ wish.entity,
                  !.values = Distinct(@ \o wish.values)]

\* The fields in the order in which the hints and the rules name them.
InferenceOf(spec) ==
    LET kinds == [name \in {spec.lookups[i].name : i \in DOMAIN spec.lookups} |->
                    (CHOOSE l \in ToSet(spec.lookups) : l.name = name).type]
        wishes == [i \in DOMAIN spec.hints |-> HintWish(spec.hints[i])]
                  \o FlattenSeq([i \in DOMAIN spec.rules |-> ConditionWishes(spec.rules[i].root, kinds)])
        names == Distinct([i \in DOMAIN wishes |-> wishes[i].name])
        granted(name) == SelectSeq(wishes, LAMBDA wish : wish.name = name)
    IN [i \in DOMAIN names |-> FoldLeft(Promote, NewInference(names[i]), granted(names[i]))]

WantsField(fields, name) == \E i \in DOMAIN fields : fields[i].name = name
WantsDescendants(fields, name) == \E i \in DOMAIN fields : IsStrictPrefix(name, fields[i].name)

-----------------------------------------------------------------------------
(* What a record shows *)

\* The values of wanted fields in a record, those under a wanted object too.
RECURSIVE Sightings(_, _, _, _)
Sightings(fields, name, v, depth) ==
    LET under == FlattenSeq([i \in DOMAIN v.fields |->
                    Sightings(fields, name \o v.fields[i].key, v.fields[i].value, depth + 1)])
        deeper == v.type = "object" /\ depth < InferDepth
    IN (IF WantsField(fields, name) THEN <<Field(name, v)>> ELSE <<>>)
       \o (IF deeper /\ (WantsField(fields, name) \/ WantsDescendants(fields, name)) THEN under ELSE <<>>)

ObserveScalar(field, v) ==
    CASE v.type = "null" -> [field EXCEPT !.nulls = @ + 1]
      [] v.type = "boolean" -> [field EXCEPT !.bools = @ + 1]
      [] v.type = "number" /\ v.float -> [field EXCEPT !.floats = @ + 1]
      [] v.type = "number" /\ ~v.float ->
           [field EXCEPT !.ints = @ + 1, !.inRange = @ /\ Whole(v.num) \in (-IntHalf)..(IntHalf - 1)]
      [] v.type = "string" /\ v.text \in SpareTexts -> [field EXCEPT !.nulls = @ + 1]
      [] v.type = "string" /\ v.text \notin SpareTexts ->
           [field EXCEPT !.strings = @ + 1,
                         !.samples = IF Cardinality(@) < SampleTexts THEN @ \union {v.text} ELSE @]
      [] OTHER -> field
ObserveValue(field, v) ==
    LET found == [field EXCEPT !.present = @ + 1]
    IN IF v.type = "array" THEN FoldLeft(ObserveScalar, [found EXCEPT !.arrays = @ + 1], v.items)
       ELSE ObserveScalar(found, v)

\* A record counts for every field; one it does not have is null in it.
ObserveRow(fields, doc) ==
    LET seen == FlattenSeq([i \in DOMAIN doc.fields |->
                    Sightings(fields, doc.fields[i].key, doc.fields[i].value, 0)])
        shown(field) == SelectSeq(seen, LAMBDA s : s.key = field.name)
        observed(field) == FoldLeft(LAMBDA f, s : ObserveValue(f, s.value), field, shown(field))
        end(field) == [observed(field) EXCEPT !.rows = @ + 1, !.nulls = IF shown(field) = <<>> THEN @ + 1 ELSE @]
    IN [i \in DOMAIN fields |-> end(fields[i])]

-----------------------------------------------------------------------------
(* The types *)

\* A mutant: a number that needs more bits is not looked for.
ChooseNumericType_Narrow(field) == IF field.floats > 0 THEN "FLOAT64" ELSE "INT32"
\* Without any number the bounds are those of a small one.
ChooseNumericType(field) == IF field.floats > 0 THEN "FLOAT64" ELSE IF field.inRange THEN "INT32" ELSE "INT64"
InferJsonType(field) ==
    CASE field.need = "ENTITY" -> "ENTITY_KEY"
      [] field.need \in {"STRING", "CIDR"} -> "STRING"
      [] field.need = "TEMPORAL" -> "TIMESTAMP_MS"
      [] field.need = "BITFIELD" -> "INT64"
      [] field.need \in {"BOOLEAN", "CATEGORICAL"} -> field.need
      [] field.need = "NUMERIC" -> ChooseNumericType(field)
      [] OTHER -> CASE field.strings > 0 \/ field.arrays > 0 -> "STRING"
                    [] field.strings + field.arrays + field.ints + field.floats = 0 /\ field.bools > 0 -> "BOOLEAN"
                    [] field.strings + field.arrays = 0 /\ field.ints + field.floats > 0 -> ChooseNumericType(field)
                    [] OTHER -> "STRING"
RefineArrowType(field) ==
    LET type == field.arrow[1].type
    IN CASE field.need = "ENTITY" -> "ENTITY_KEY"
         [] field.need \in {"STRING", "CIDR"} -> "STRING"
         [] field.need = "CATEGORICAL" -> "CATEGORICAL"
         [] field.need = "TEMPORAL" -> "TIMESTAMP_MS"
         [] field.need = "BITFIELD" -> "INT64"
         [] field.need = "NUMERIC" /\ ~IsNumeric(type) -> "FLOAT64"
         [] OTHER -> type

InferField(field) ==
    LET arrow == field.arrow # <<>>
        plain == CASE field.type # "NONE" -> field.type
                   [] field.type = "NONE" /\ arrow -> RefineArrowType(field)
                   [] OTHER -> InferJsonType(field)
        type == IF field.entity \/ field.need = "ENTITY" THEN "ENTITY_KEY" ELSE plain
        sampled == field.values = <<>> /\ type = "CATEGORICAL"
    IN [name |-> field.name,
        column |-> Column(type, IF sampled THEN SetToSeq(field.samples) ELSE field.values),
        nullable |-> CASE field.nullable # <<>> -> field.nullable[1]
                       [] field.nullable = <<>> /\ arrow -> field.arrow[1].nullable
                       [] OTHER -> field.nulls > 0 \/ field.present < field.rows,
        fits |-> ~(type = "FLOAT64" /\ field.need = "NUMERIC" /\ field.floats + field.ints = 0 /\ ~arrow)]
Finish(fields) ==
    LET inferred == [i \in DOMAIN fields |-> InferField(fields[i])]
    IN CASE fields = <<>> -> Rejected("MISSING_REQUIRED_FIELD")
         [] \E i \in DOMAIN inferred : ~inferred[i].fits -> Rejected("TYPE_MISMATCH")
         [] OTHER -> Accept(TRUE, [i \in DOMAIN inferred |->
                       [name |-> inferred[i].name, column |-> inferred[i].column, nullable |-> inferred[i].nullable]])

-----------------------------------------------------------------------------
(* The entry points *)

FirstOnes(seq) == SubSeq(seq, 1, Min({Len(seq), SampleRows}))
Objects(docs) == SelectSeq(docs, LAMBDA doc : doc.kind = "object")
InferFromRows(spec, rows) == Finish(FoldLeft(ObserveRow, InferenceOf(spec), rows))

InferFromMessages(spec, docs) ==
    IF docs = <<>> THEN Rejected("MISSING_REQUIRED_FIELD") ELSE InferFromRows(spec, FirstOnes(Objects(docs)))
\* Of a file the first lines are read, whatever they are.
InferFromNdjson(spec, docs) ==
    InferFromMessages(spec, FirstOnes(SelectSeq(docs, LAMBDA doc : doc.kind # "blank")))
\* The elements of an array up to one that breaks.
ElementsOf(docs) ==
    LET broken == {i \in DOMAIN docs : docs[i].cut} IN SubSeq(docs, 1, IF broken = {} THEN Len(docs) ELSE Min(broken))
InferFromJsonArray(spec, docs) ==
    LET rows == FirstOnes(Objects(ElementsOf(docs)))
    IN IF rows = <<>> THEN Rejected("MISSING_REQUIRED_FIELD") ELSE InferFromRows(spec, rows)

ArrowToColumnType(type) ==
    CASE type.id = "FLOAT" -> "FLOAT32" [] type.id = "DOUBLE" -> "FLOAT64"
      [] type.id \in {"INT32", "INT64"} -> type.id
      [] type.id = "TIMESTAMP" -> "TIMESTAMP_MS"
      [] type.id = "BOOL" -> "BOOLEAN"
      [] type.id = "DICTIONARY" -> "CATEGORICAL"
      [] OTHER -> "STRING"
\* The wanted fields of a type; a part of a struct may be null when the struct may.
RECURSIVE ArrowSightings(_, _, _, _)
ArrowSightings(fields, name, type, nullable) ==
    LET null == nullable \/ type.nullable
        under == {<<name \o <<child>>, type.children[child]>> : child \in DOMAIN type.children}
    IN (IF WantsField(fields, name) THEN {[name |-> name, type |-> ArrowToColumnType(type), nullable |-> null]} ELSE {})
       \union (IF type.id = "STRUCT" /\ WantsDescendants(fields, name)
               THEN UNION {ArrowSightings(fields, u[1], u[2], null) : u \in under} ELSE {})
ArrowShown(field, seen) ==
    LET same == {s \in seen : s.name = field.name}
    IN IF same = {} THEN field ELSE [field EXCEPT !.arrow = <<CHOOSE s \in same : TRUE>>]
ObserveArrow(fields, batch) ==
    LET seen == UNION {ArrowSightings(fields, batch[i].name, batch[i].type, FALSE) : i \in DOMAIN batch}
    IN [i \in DOMAIN fields |-> ArrowShown(fields[i], seen)]
InferFromArrow(spec, batch) == Finish(ObserveArrow(InferenceOf(spec), batch))
=============================================================================
