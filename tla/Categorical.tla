----------------------------- MODULE Categorical -----------------------------
(***************************************************************************)
(* The columns of texts: CATEGORICAL and ENTITY_KEY fields.  The engine    *)
(* replaces a text by a code before the kernels see it, on three ways:     *)
(*   - a JSON record whose field has a closed set of values is encoded by  *)
(*     the transposer, as a mask of bits or, from BitWidth values on, as   *)
(*     one code (src/src/core/transposer.cpp);                             *)
(*   - other JSON texts and Arrow texts by the dictionary of the column,   *)
(*     which grows (src/src/core/dict_encoder.cpp);                        *)
(*   - an Arrow dictionary array by mapping its dictionary.                *)
(* The literals and lookups of the rules are looked up in that dictionary  *)
(* for every batch (RuleEngine::build_resolved) and compared as codes.     *)
(*                                                                         *)
(* Texts are numbers, in the order of the texts; 0 is the empty text.      *)
(***************************************************************************)
EXTENDS Integers, Sequences, FiniteSets, FiniteSetsExt, SequencesExt, Sorting

CONSTANTS
    Fields,          \* the fields of texts
    Texts,           \* the texts of the records and rules, positive numbers
    Kind,            \* Kind[f]: "CATEGORICAL" or "ENTITY_KEY"
    Hint,            \* Hint[f]: [values, nullable], nullable "yes", "no" or "infer"
    Rulesets,        \* [predicates, synthetic]: synthetic if it has an array_any
    JsonBatches,     \* sequences of rows, a row gives every field a cell
    ArrowBatches,
    Dictionaries,    \* the dictionaries an Arrow producer may send
    Capacity,        \* max_dict_size_per_column
    BitWidth,        \* 63
    MaxCardinality,  \* categorical_max_cardinality
    MorselRows,      \* MORSEL_ROWS
    MaxCalls         \* bound on the calls of the engine

\* A cell is null, a text, or a list of texts.
Null == [list |-> FALSE, items |-> <<>>]
Text(v) == [list |-> FALSE, items |-> <<v>>]
List(s) == [list |-> TRUE, items |-> s]
EmptyText == 0

Membership == {"EQ", "IN", "CONTAINS_ANY", "INTERSECTS"}
Exclusion == {"NEQ", "NOT_IN", "NOT_INTERSECTS"}
Literal == Membership \cup Exclusion \cup {"CONTAINS_ALL"}
Lookup == {"IN_LOOKUP", "NOT_IN_LOOKUP"}
CrossField == {"EQ_FIELD", "NEQ_FIELD"}
Ops == Literal \cup Lookup \cup CrossField \cup {"IS_NULL"}

\* A cell of an Arrow column; a JSON record may also have a list.
IsArrowCell(c) == c = Null \/ \E v \in Texts : c = Text(v)
IsCell(c) == IsArrowCell(c) \/ (c = List(c.items) /\ c.items \in Seq(Texts))

\* The parsers give EQ one value.
IsPredicate(p) ==
    /\ p.op \in Ops /\ p.field \in Fields
    /\ p.values \in Seq(Texts)
    /\ p.op = "EQ" => Len(p.values) = 1

ASSUME CategoricalAssumption ==
    /\ Texts \subseteq Nat \ {0}
    /\ Kind \in [Fields -> {"CATEGORICAL", "ENTITY_KEY"}]
    /\ \A f \in Fields : Hint[f].nullable \in {"yes", "no", "infer"} /\ Hint[f].values \in Seq(Texts)
    /\ \A rs \in Rulesets :
          /\ rs.synthetic \in BOOLEAN /\ rs.predicates \in Seq(ToSet(rs.predicates))
          /\ \A k \in DOMAIN rs.predicates : IsPredicate(rs.predicates[k])
    /\ \A rows \in JsonBatches \cup ArrowBatches : rows \in Seq(ToSet(rows))
    /\ \A rows \in JsonBatches : \A i \in DOMAIN rows : \A f \in Fields : IsCell(rows[i][f])
    /\ \A rows \in ArrowBatches : \A i \in DOMAIN rows : \A f \in Fields : IsArrowCell(rows[i][f])
    /\ \A s \in Dictionaries : s \in Seq(Texts)
    /\ MaxCalls \in Nat
    /\ Capacity \in Nat /\ BitWidth \in Nat \ {0} /\ MaxCardinality \in Nat
    /\ MorselRows \in Nat \ {0}

VARIABLES
    bound,      \* schema_state_ is not UNBOUND
    synthetic,  \* the schema has the array_any field
    pending,    \* pending_rules_: the rules loaded before the binding
    active,     \* ruleset_: the installed rules
    closed,     \* closed[f]: closed_values, set at the binding
    nullable,   \* nullable[f]
    dict,       \* dict[f]: reverse_, the texts in the order of their codes
    last,       \* the batch of the last call: its rows, lanes, cells and verdicts
    calls       \* calls made, at most MaxCalls

vars == <<bound, synthetic, pending, active, closed, nullable, dict, last, calls>>

NoRules == [predicates |-> <<>>, synthetic |-> FALSE]
NoBatch == [rows |-> <<>>, lane |-> [f \in Fields |-> "texts"], cells |-> <<>>, matched |-> <<>>]

-----------------------------------------------------------------------------
(* The dictionary of a column.                                             *)

\* Mutant: the capacity is checked one entry too late.
Added_OneTooMany(f, d, v) ==
    IF v \in ToSet(d) \/ (Kind[f] = "CATEGORICAL" /\ Len(d) > Capacity) THEN d ELSE Append(d, v)

\* Mutant: a full dictionary forgets its oldest text.
Added_Evicting(f, d, v) ==
    CASE v \in ToSet(d) -> d
      [] v \notin ToSet(d) /\ Kind[f] = "CATEGORICAL" /\ Len(d) >= Capacity -> Append(Tail(d), v)
      [] OTHER -> Append(d, v)

\* get_or_create: a new text gets the next code while there is room.
Added(f, d, v) ==
    IF v \in ToSet(d) \/ (Kind[f] = "CATEGORICAL" /\ Len(d) >= Capacity) THEN d ELSE Append(d, v)

AddedAll(f, d, vs) == FoldLeft(LAMBDA acc, v : Added(f, acc, v), d, vs)

\* resolve: the code of a text, -1 without one.
CodeIn(d, v) == IF v \in ToSet(d) THEN (CHOOSE i \in DOMAIN d : d[i] = v) - 1 ELSE -1

\* Mutant: a new encoder starts empty.
FreshDict_Empty(cs) == [f \in Fields |-> <<>>]

\* A new encoder knows the closed values.
FreshDict(cs) == [f \in Fields |-> AddedAll(f, <<>>, cs[f])]

\* The values of the predicates on a field with one of ops, in the order of the rules.
ValuesOf(ops, f, rs) ==
    FlattenSeq([k \in DOMAIN rs.predicates |->
        LET p == rs.predicates[k] IN IF p.op \in ops /\ p.field = f THEN p.values ELSE <<>>])

\* preload_lookup_dictionaries.
Preloaded(d, rs) == [f \in Fields |-> AddedAll(f, d[f], ValuesOf(Lookup, f, rs))]

-----------------------------------------------------------------------------
(* Binding the schema to the first batch.                                  *)

\* The cells of a field, in the order of the rows.
Column(rows, f) == [i \in DOMAIN rows |-> rows[i][f]]
TextsOf(rows, f) == FlattenSeq([i \in DOMAIN rows |-> rows[i][f].items])
WithoutRepeats(s) == FoldLeft(LAMBDA acc, v : IF v \in ToSet(acc) THEN acc ELSE Append(acc, v), <<>>, s)

\* The values of the hint, then the literals of the rules.
DeclaredValues(f, rs) == WithoutRepeats(Hint[f].values \o ValuesOf(Literal, f, rs))

\* The texts of a first batch, sorted: at most MaxCardinality are kept.
Sampled(rows, f) ==
    LET texts == WithoutRepeats(TextsOf(rows, f))
        kept == SubSeq(texts, 1, Min({Len(texts), MaxCardinality}))
    IN SortedBy(kept, [v \in ToSet(kept) |-> v])

ClosedFor(rs, rows, json) ==
    [f \in Fields |->
        IF DeclaredValues(f, rs) = <<>> /\ Kind[f] = "CATEGORICAL" /\ json
        THEN Sampled(rows, f)
        ELSE DeclaredValues(f, rs)]

NullableFor(rows, json, arrowNullable) ==
    [f \in Fields |->
        CASE Hint[f].nullable = "yes" -> TRUE
          [] Hint[f].nullable = "no" -> FALSE
          [] OTHER -> IF json THEN Null \in ToSet(Column(rows, f)) ELSE arrowNullable]

-----------------------------------------------------------------------------
(* Encoding a batch.  A cell is encoded as [valid, code, bits].            *)

Encoded(code) == [valid |-> TRUE, code |-> code, bits |-> {}]
Mask(bits) == [valid |-> TRUE, code |-> -1, bits |-> bits]
NullSlot == [valid |-> FALSE, code |-> 0, bits |-> {}]

\* direct_encoded_.
JsonLane(f) ==
    IF Kind[f] = "CATEGORICAL" /\ closed'[f] # <<>>
    THEN IF Len(closed'[f]) < BitWidth THEN "bits" ELSE "codes"
    ELSE "texts"

\* append_null: the default of the lane where the field is not nullable.
DefaultSlot(f, lane, d) ==
    CASE nullable'[f] -> NullSlot
      [] ~nullable'[f] /\ lane = "bits" -> Mask({})
      [] ~nullable'[f] /\ lane = "codes" -> Encoded(0)
      [] OTHER -> Encoded(CodeIn(d, EmptyText))

\* A cell of a JSON record.  A list has no place in a column of texts.
JsonSlot(f, c, d) ==
    LET lane == JsonLane(f)
        known == {CodeIn(closed'[f], v) : v \in ToSet(c.items)} \ {-1}
        places == {k \in DOMAIN c.items : CodeIn(closed'[f], c.items[k]) # -1}
    IN CASE c = Null \/ (lane = "texts" /\ c.list) -> DefaultSlot(f, lane, d)
         [] lane = "bits" /\ c # Null -> Mask({id \in known : id < BitWidth})
         [] lane = "codes" /\ c # Null -> Encoded(IF places = {} THEN -1 ELSE CodeIn(closed'[f], c.items[Min(places)]))
         [] OTHER -> Encoded(CodeIn(d, c.items[1]))

\* The texts a JSON column adds to the dictionary, in the order of the rows.
JsonAdds(f, rows) ==
    LET AsText(c) == IF c = Null \/ c.list
                     THEN IF nullable'[f] THEN <<>> ELSE <<EmptyText>>
                     ELSE c.items
    IN IF JsonLane(f) # "texts"
       THEN <<>>
       ELSE FlattenSeq([i \in DOMAIN rows |-> AsText(rows[i][f])])

\* An Arrow column of texts; of a dictionary array, where a text without a code
\* becomes a null slot.
ArrowSlot(c, d, form) ==
    LET code == CodeIn(d, c.items[1])
    IN IF c = Null \/ (form = "dictionary" /\ code < 0) THEN NullSlot ELSE Encoded(code)

-----------------------------------------------------------------------------
(* The predicates on an encoded batch.                                     *)

Codes(d, p) == [k \in DOMAIN p.values |-> CodeIn(d[p.field], p.values[k])]

\* eval_categorical_bitset.
MatchesBits(op, bits, ids) ==
    LET requested == {id \in ToSet(ids) : id >= 0 /\ id < BitWidth}
    IN CASE op = "CONTAINS_ALL" -> requested \subseteq bits
         [] op \in Exclusion -> requested \cap bits = {}
         [] OTHER -> requested \cap bits # {}

\* The kernels on codes: EQ looks at the first literal only.
MatchesCode(op, code, ids) ==
    CASE op = "EQ" -> code = (IF ids = <<>> THEN -1 ELSE ids[1])
      [] op = "CONTAINS_ALL" -> Len(ids) <= 1 /\ code \in ToSet(ids)
      [] op \in Exclusion -> code \notin ToSet(ids)
      [] OTHER -> code \in ToSet(ids)

\* eval_lookup_predicate: the members without a code are left out.
MatchesLookup(op, lane, slot, ids) ==
    LET members == {id \in ToSet(ids) : id >= 0}
        found == IF lane = "bits"
                 THEN {id \in members : id < BitWidth} \cap slot.bits # {}
                 ELSE slot.code \in members
    IN (op = "IN_LOOKUP") = found

\* eval_cross_field compares the codes of two columns.  The masks of a column
\* are addressed as if they were 4 bytes wide: from the second morsel on the row
\* read is not the row decided.  The outcome is arbitrary for a column of masks
\* beside a column of codes.
MatchesField(p, lane, cells, i, noise) ==
    LET r0 == ((i - 1) \div MorselRows) * MorselRows
        at == IF lane[p.field] = "bits" THEN (r0 \div 2) + (i - r0) ELSE i
        x == cells[at][p.field]
        y == cells[at][p.other]
        same == IF lane[p.field] = "bits" THEN x.bits = y.bits ELSE x.code = y.code
    IN /\ cells[i][p.field].valid /\ cells[i][p.other].valid
       /\ IF (lane[p.field] = "bits") # (lane[p.other] = "bits")
          THEN i \in noise
          ELSE (p.op = "EQ_FIELD") = same

\* eval_predicate on a row.
Matches(p, d, lane, cells, i, noise) ==
    LET slot == cells[i][p.field]
        ids == Codes(d, p)
    IN CASE p.op = "IS_NULL" -> ~slot.valid
         [] p.op \in CrossField -> MatchesField(p, lane, cells, i, noise)
         [] p.op \in Lookup -> slot.valid /\ MatchesLookup(p.op, lane[p.field], slot, ids)
         [] p.op \in Literal /\ lane[p.field] = "bits" ->
               slot.valid /\ MatchesBits(p.op, slot.bits, ids)
         [] OTHER -> slot.valid /\ MatchesCode(p.op, slot.code, ids)

\* Mutant: the literals are resolved before the batch is encoded.
ResolvedAgainst_Before(before, after) == before

\* The dictionary the literals are resolved against: evaluate_internal_into
\* encodes the batch first.
ResolvedAgainst(before, after) == after

Verdicts(rs, before, after, lane, cells, noise) ==
    [k \in DOMAIN rs.predicates |->
        {i \in DOMAIN cells :
            Matches(rs.predicates[k], ResolvedAgainst(before, after), lane, cells, i, noise)}]

-----------------------------------------------------------------------------
TypeOK ==
    /\ bound \in BOOLEAN /\ synthetic \in BOOLEAN
    /\ pending \in Rulesets \cup {NoRules}
    /\ active \in Rulesets \cup {NoRules}
    /\ \A f \in Fields :
          /\ nullable[f] \in BOOLEAN
          /\ ToSet(closed[f]) \subseteq Texts /\ IsInjective(closed[f])
          /\ ToSet(dict[f]) \subseteq Texts \cup {EmptyText} /\ IsInjective(dict[f])
          /\ Kind[f] = "CATEGORICAL" => Len(dict[f]) <= Capacity
    /\ \A i \in DOMAIN last.cells : \A f \in Fields :
          last.cells[i][f].bits \subseteq 0 .. BitWidth - 1
    /\ calls \in 0 .. MaxCalls

Init ==
    /\ bound = FALSE /\ synthetic = FALSE
    /\ pending = NoRules
    /\ active = NoRules
    /\ closed = [f \in Fields |-> <<>>]
    /\ nullable = [f \in Fields |-> TRUE]
    /\ dict = [f \in Fields |-> <<>>]
    /\ last = NoBatch
    /\ calls = 0

Call == calls < MaxCalls /\ calls' = calls + 1

\* install_or_defer_rules: before the binding the rules wait; after it they are
\* installed, on a new encoder if they bring the first array_any field.
Load(rs) ==
    /\ Call
    /\ IF ~bound
       THEN /\ pending' = rs
            /\ UNCHANGED <<synthetic, active, dict>>
       ELSE /\ synthetic' = (synthetic \/ rs.synthetic)
            /\ dict' = Preloaded(IF rs.synthetic /\ ~synthetic THEN FreshDict(closed) ELSE dict, rs)
            /\ active' = rs
            /\ UNCHANGED pending
    /\ last' = NoBatch
    /\ UNCHANGED <<bound, closed, nullable>>

\* ensure_schema_bound_from_...: the first batch binds the schema and installs
\* the rules that wait; without them the call throws.
EnsureBound(rows, json, arrowNullable) ==
    IF bound
    THEN UNCHANGED <<bound, synthetic, pending, active, closed, nullable>>
    ELSE /\ pending # NoRules
         /\ bound' = TRUE
         /\ closed' = ClosedFor(pending, rows, json)
         /\ nullable' = NullableFor(rows, json, arrowNullable)
         /\ active' = pending
         /\ synthetic' = pending.synthetic
         /\ pending' = NoRules

\* The dictionary a batch finds.
DictBefore == IF bound THEN dict ELSE Preloaded(FreshDict(closed'), active')

\* The rows on which a column of masks is found equal to a column of codes.
Noise(lane, rows) ==
    IF \E k \in DOMAIN active'.predicates :
          LET p == active'.predicates[k]
          IN p.op \in CrossField /\ (lane[p.field] = "bits") # (lane[p.other] = "bits")
    THEN SUBSET DOMAIN rows
    ELSE {{}}

\* evaluate_messages_into, evaluate_ndjson_into, evaluate_json_array_into.
EvaluateJson(rows) ==
    /\ Call
    /\ EnsureBound(rows, TRUE, TRUE)
    /\ LET before == DictBefore
           after == [f \in Fields |-> AddedAll(f, before[f], JsonAdds(f, rows))]
           lane == [f \in Fields |-> JsonLane(f)]
           cells == [i \in DOMAIN rows |-> [f \in Fields |-> JsonSlot(f, rows[i][f], after[f])]]
       IN /\ dict' = after
          /\ \E noise \in Noise(lane, rows) :
                last' = [rows |-> rows, lane |-> lane, cells |-> cells,
                         matched |-> Verdicts(active', before, after, lane, cells, noise)]

\* evaluate_record_batch_into, each column a column of texts or a dictionary array.
EvaluateArrow(rows, form) ==
    /\ Call
    /\ \E arrowNullable \in BOOLEAN :
          /\ ~arrowNullable => \A f \in Fields : Null \notin ToSet(Column(rows, f))
          /\ EnsureBound(rows, FALSE, arrowNullable)
    /\ \E sent \in [Fields -> Dictionaries] :
          /\ \A f \in Fields : form = "texts" \/ ToSet(TextsOf(rows, f)) \subseteq ToSet(sent[f])
          /\ form = "texts" => sent = CHOOSE s \in [Fields -> Dictionaries] : TRUE
          /\ LET before == DictBefore
                 adds == [f \in Fields |-> IF form = "texts" THEN TextsOf(rows, f) ELSE sent[f]]
                 after == [f \in Fields |-> AddedAll(f, before[f], adds[f])]
                 lane == [f \in Fields |-> form]
                 cells == [i \in DOMAIN rows |->
                             [f \in Fields |-> ArrowSlot(rows[i][f], after[f], form)]]
             IN /\ dict' = after
                /\ last' = [rows |-> rows, lane |-> lane, cells |-> cells,
                            matched |-> Verdicts(active', before, after, lane, cells, {})]

\* The bound on the calls is reached: not a deadlock.
Stopped == calls = MaxCalls /\ UNCHANGED vars

Next ==
    \/ \E rs \in Rulesets : Load(rs)
    \/ \E rows \in JsonBatches : EvaluateJson(rows)
    \/ \E rows \in ArrowBatches, form \in {"texts", "dictionary"} : EvaluateArrow(rows, form)
    \/ Stopped

Spec == Init /\ [][Next]_vars

-----------------------------------------------------------------------------
(* Properties.                                                             *)

\* What a predicate says of the texts of a row: no predicate but IS_NULL holds
\* of a null.
Says(p, row) ==
    LET found == ToSet(row[p.field].items) \cap ToSet(p.values) # {}
        present == row[p.field] # Null
    IN CASE p.op = "IS_NULL" -> ~present
         [] p.op = "CONTAINS_ALL" -> present /\ ToSet(p.values) \subseteq ToSet(row[p.field].items)
         [] p.op \in Membership \cup {"IN_LOOKUP"} -> present /\ found
         [] p.op \in Exclusion \cup {"NOT_IN_LOOKUP"} -> present /\ ~found
         [] OTHER -> /\ present /\ row[p.other] # Null
                     /\ (p.op = "EQ_FIELD") = (row[p.field].items = row[p.other].items)

Verdict(k, i) == i \in last.matched[k]
Predicates == active.predicates

\* The literals of a predicate have codes that its lane can produce.
Covered(p) ==
    /\ ToSet(p.values) \subseteq ToSet(dict[p.field])
    /\ last.lane[p.field] \in {"bits", "codes"} => ToSet(p.values) \subseteq ToSet(closed[p.field])

\* The texts of a cell have codes of its lane.
Known(f, row) ==
    /\ ToSet(row[f].items) \subseteq ToSet(dict[f])
    /\ last.lane[f] \in {"bits", "codes"} => ToSet(row[f].items) \subseteq ToSet(closed[f])

\* The cell is one its lane can hold: not a null in a field that is not nullable,
\* nor a list where a single code is stored.
Fits(f, row) ==
    /\ row[f] = Null => nullable[f]
    /\ row[f].list => last.lane[f] = "bits"

\* On every lane, and however the dictionary grew before, a predicate whose texts
\* are covered decides a row by its texts.  A text that no code was left for, or
\* that the closed set does not have, is told apart from all those of the rule,
\* except in a dictionary array, where it becomes a null.
VerdictsExact ==
    \A k \in DOMAIN Predicates, i \in DOMAIN last.rows :
        LET p == Predicates[k]
        IN (/\ p.op \in Literal \cup Lookup /\ Covered(p) /\ Fits(p.field, last.rows[i])
            /\ last.lane[p.field] = "dictionary" => Known(p.field, last.rows[i]))
           => (Verdict(k, i) <=> Says(p, last.rows[i]))

\* A code means the same text for the transposer, which takes it from the closed
\* values, and for the dictionary, which the literals are resolved against.
CodesAgree ==
    \A i \in DOMAIN last.rows, f \in Fields :
        LET s == last.cells[i][f]
            c == last.rows[i][f]
        IN /\ (s.valid /\ last.lane[f] # "bits" /\ s.code \in 0 .. Len(dict[f]) - 1 /\ Fits(f, last.rows[i]))
                => dict[f][s.code + 1] \in ToSet(c.items)
           /\ \A id \in s.bits : id < Len(dict[f]) => dict[f][id + 1] \in ToSet(c.items)

\* Within one encoder a code is never given to another text, so that the masks and
\* literals of later batches mean what they meant; only the encoder of a changed
\* schema starts again, from the closed values.
CodesKept ==
    [][\A f \in Fields :
          \/ IsPrefix(dict[f], dict'[f])
          \/ ~synthetic /\ synthetic' /\ IsPrefix(FreshDict(closed)[f], dict'[f])]_vars

\* README, operator details: "eq_field and neq_field also work for
\* string/categorical/entity equality."
FieldEqualityExact ==
    \A k \in DOMAIN Predicates, i \in DOMAIN last.rows :
        LET p == Predicates[k]
        IN (/\ p.op \in CrossField
            /\ \A f \in {p.field, p.other} : Known(f, last.rows[i]) /\ Fits(f, last.rows[i]))
           => (Verdict(k, i) <=> Says(p, last.rows[i]))

\* lookup_resolution_tests.cpp: a text of the lookup is "in the lookup -> blocks".
LookupMembersMatch ==
    \A k \in DOMAIN Predicates, i \in DOMAIN last.rows :
        LET p == Predicates[k]
        IN (p.op = "IN_LOOKUP" /\ ToSet(p.values) \subseteq ToSet(dict[p.field]))
           => (Says(p, last.rows[i]) => Verdict(k, i))

\* README, operator details: "Closed-enum array operators use the bitset path when
\* enum values are declared in YAML."
DeclaredListsExact ==
    \A k \in DOMAIN Predicates, i \in DOMAIN last.rows :
        LET p == Predicates[k]
        IN (/\ p.op \in {"CONTAINS_ALL", "CONTAINS_ANY", "INTERSECTS"}
            /\ last.rows[i][p.field].list /\ Covered(p) /\ ToSet(p.values) \subseteq ToSet(Hint[p.field].values))
           => (Verdict(k, i) <=> Says(p, last.rows[i]))

\* dict_encoder.cpp, encode_batch: a null slot of a dictionary array stays null,
\* "preserving null-ness so IS_NULL / IN / lookup decisions stay correct".
NullnessPreserved ==
    \A k \in DOMAIN Predicates, i \in DOMAIN last.rows :
        LET p == Predicates[k]
        IN (p.op = "IS_NULL" /\ last.lane[p.field] = "dictionary")
           => (Verdict(k, i) <=> Says(p, last.rows[i]))
=============================================================================
