------------------------------- MODULE Records -------------------------------
(***************************************************************************)
(* What a record holds: JSON values and columns of an Arrow batch           *)
(* (transposer.cpp, engine.cpp), and the conditions of any_match, which are  *)
(* decided on the elements of an array while it is read.  A value is a       *)
(* record for every type; its number counts halves, so that one has a        *)
(* fraction or not.  A field's name is the sequence of its parts, and a      *)
(* dotted name is the concatenation of the names on its path.  The JSON      *)
(* text itself, and its errors, are simdjson's.                              *)
(***************************************************************************)
EXTENDS RuleCompiler

CONSTANTS
    NullTexts,   \* the texts that count as null, the empty one among them
    AnyDepth     \* the depth to which an element of an array is read, 16 in the code

-----------------------------------------------------------------------------
(* Values *)

Value(type) == [type |-> type, num |-> 0, float |-> FALSE, text |-> <<>>, items |-> <<>>, fields |-> <<>>]
Field(key, value) == [key |-> key, value |-> value]

Half(n) == 2 * n
Whole(n) == Quotient(n, 2)
IntText(n) == <<ToString(Whole(n))>>
DoubleText(n) == <<ToString(n), "/2">>
TruthText(n) == IF n = 0 THEN <<"false">> ELSE <<"true">>

\* The text of a scalar; a whole number has another text than the same number
\* with a fraction.  A null, a text that counts as null and a compound have none.
TextsOf(v) ==
    CASE v.type = "string" /\ v.text \notin NullTexts -> <<v.text>>
      [] v.type = "number" -> <<IF v.float THEN DoubleText(v.num) ELSE IntText(v.num)>>
      [] v.type = "boolean" -> <<TruthText(v.num)>>
      [] OTHER -> <<>>
TextsIn(v) == FlattenSeq([i \in DOMAIN v.items |-> TextsOf(v.items[i])])

\* The parts of a document that are no object, by their path, in the order of the text.
RECURSIVE LeavesOf(_, _, _)
LeavesOf(fields, prefix, depth) ==
    LET at(i) == prefix \o fields[i].key
        leaf(i) == fields[i].value.type # "object" \/ depth = 0
    IN FlattenSeq([i \in DOMAIN fields |->
         IF leaf(i) THEN <<Field(at(i), fields[i].value)>>
         ELSE LeavesOf(fields[i].value.fields, at(i), depth - 1)])

-----------------------------------------------------------------------------
(* A field of an element *)

Missing == [exists |-> FALSE, isNull |-> FALSE, isNumber |-> FALSE, num |-> 0, text |-> <<>>, texts |-> <<>>]
Existing == [Missing EXCEPT !.exists = TRUE]
NullAny == [Existing EXCEPT !.isNull = TRUE]

\* A truth value is a number, too; every number is text with a fraction here.
JsonAny(v) ==
    CASE v.type = "null" -> NullAny
      [] v.type = "number" -> [Existing EXCEPT !.isNumber = TRUE, !.num = v.num, !.text = DoubleText(v.num)]
      [] v.type = "boolean" -> [Existing EXCEPT !.isNumber = TRUE, !.num = v.num, !.text = TruthText(v.num)]
      [] v.type = "string" -> [Existing EXCEPT !.text = v.text, !.isNull = v.text \in NullTexts]
      [] v.type = "array" -> [Existing EXCEPT !.texts = TextsIn(v)]
      [] OTHER -> Existing

\* The fields of an element by their path; of two with one name the last is kept.
JsonRow(element) ==
    LET leaves == LeavesOf(element.fields, <<>>, AnyDepth - 1)
        last(path) == Max({i \in DOMAIN leaves : leaves[i].key = path})
    IN [path \in {leaves[i].key : i \in DOMAIN leaves} |-> JsonAny(leaves[last(path)].value)]

-----------------------------------------------------------------------------
(* Conditions on the fields of an element *)

AnyFind(row, name) == IF name \in DOMAIN row THEN row[name] ELSE Missing
TextCell(v) == [Cell EXCEPT !.valid = v.exists, !.text = v.text]
NumberCell(v, n) == [Cell EXCEPT !.valid = v.isNumber, !.num = n]
\* An address that is given as a number, or as text.
AddressCell(v) == [Cell EXCEPT !.num = Whole(v.num), !.text = v.text]
AddressColumn(v) == Column(IF v.isNumber THEN "INT64" ELSE "STRING", <<>>)

\* A field without a number, an operand that is not there, and a quotient by zero count as zero.
RECURSIVE AnyExpr(_, _)
AnyExpr(expr, row) ==
    LET v == AnyFind(row, expr.field)
        operand(i) == IF i \in DOMAIN expr.children THEN AnyExpr(expr.children[i], row) ELSE [n |-> 0, d |-> 1]
        l == operand(1)
        r == operand(2)
        sign == IF r.n < 0 THEN -1 ELSE 1
    IN CASE expr.kind = "LITERAL" -> [n |-> expr.literal, d |-> 1]
         [] expr.kind = "FIELD" -> [n |-> IF v.isNumber THEN v.num ELSE 0, d |-> 2]
         [] expr.kind = "ADD" -> [n |-> l.n * r.d + r.n * l.d, d |-> l.d * r.d]
         [] expr.kind = "SUB" -> [n |-> l.n * r.d - r.n * l.d, d |-> l.d * r.d]
         [] expr.kind = "MUL" -> [n |-> l.n * r.n, d |-> l.d * r.d]
         [] expr.kind = "DIV" /\ r.n = 0 -> [n |-> 0, d |-> 1]
         [] OTHER -> [n |-> sign * l.n * r.d, d |-> sign * r.n * l.d]

AnyNull(c, v) ==
    LET null == ~v.exists \/ v.isNull
        empty == v.text = <<>> /\ v.texts = <<>>
    IN CASE c.op = "IS_NULL" -> null
         [] c.op = "IS_EMPTY" -> null \/ empty
         [] c.op = "IS_NOT_EMPTY" -> v.exists /\ ~empty
         [] OTHER -> ~null

\* Only the texts of an array can contain them all.
AnyCategorical(c, v) ==
    LET found == ({v.text} \ {<<>>}) \union ToSet(v.texts)
        wanted == ToSet(c.texts)
    IN /\ v.exists
       /\ CASE c.op = "CONTAINS_ALL" -> wanted \subseteq ToSet(v.texts)
            [] c.op \in {"EQ", "IN", "CONTAINS_ANY", "INTERSECTS"} -> wanted \intersect found # {}
            [] OTHER -> wanted \intersect found = {}

AnyLookup(c, v, lookups) ==
    LET lookup == lookups[c.texts[1]]
        found == CASE lookup.type = "STRING_SET" -> v.text \in lookup.strings
                   [] lookup.type = "INT_SET" -> v.isNumber /\ Whole(v.num) \in lookup.ints
                   [] OTHER -> RangesContain(lookup.ranges, AddressIn(AddressCell(v), AddressColumn(v)))
    IN v.exists /\ c.texts[1] \in DOMAIN lookups /\ found = (c.op # "NOT_IN_LOOKUP")

AnyCrossField(c, l, r) ==
    /\ l.exists /\ r.exists
    /\ IF l.isNumber /\ r.isNumber THEN Compare(l.num, c.op, r.num)
       ELSE (l.text = r.text) = (c.op # "NEQ_FIELD")

\* The two copies of the code differ in one thing: comparedByField, whether a comparison of
\* an expression may be written with an operator for two fields.
RECURSIVE AnyHolds(_, _, _, _)
AnyHolds(c, row, lookups, comparedByField) ==
    LET v(i) == AnyFind(row, c.fields[i])
        holds(i) == AnyHolds(c.children[i], row, lookups, comparedByField)
        cidr == CidrOf(c.texts[1])
        points == [f \in ToSet(c.fields) |-> NumberCell(AnyFind(row, f), AnyFind(row, f).num)]
        lhs == AnyExpr(c.expr, row)
        rhs == IF c.fields = <<>> THEN Half(c.nums[1]) ELSE IF v(1).isNumber THEN v(1).num ELSE 0
    IN CASE c.kind = "Numeric" -> v(1).isNumber /\ Compare(v(1).num, c.op, Half(c.nums[1]))
         [] c.kind = "NumericRange" ->
              RangeMatches(NumberCell(v(1), v(1).num), c.op, Half(c.nums[1]), Half(c.nums[2]))
         [] c.kind = "Categorical" -> AnyCategorical(c, v(1))
         [] c.kind = "ArrayLen" ->
              v(1).exists /\ LengthHolds(c.op, IF v(1).texts = <<>> THEN Len(v(1).text) ELSE Len(v(1).texts), c.nums[1])
         [] c.kind = "Null" -> AnyNull(c, v(1))
         [] c.kind = "CrossField" -> AnyCrossField(c, v(1), v(2))
         [] c.kind = "Bitfield" -> BitfieldMatches(NumberCell(v(1), Whole(v(1).num)), c.op, c.nums[1])
         [] c.kind = "String" -> StringMatches(TextCell(v(1)), c.op, c.texts[1], c.nums[1])
         [] c.kind = "Regex" -> RegexMatches(TextCell(v(1)), c.op, c.texts[1])
         [] c.kind = "Lookup" -> AnyLookup(c, v(1), lookups)
         [] c.kind = "Cidr" ->
              v(1).exists /\ CidrMatches(AddressCell(v(1)), AddressColumn(v(1)), c.op, cidr.network, cidr.mask)
         [] c.kind = "Temporal" -> TemporalMatches(NumberCell(v(1), Whole(v(1).num)), c.op, c.nums)
         [] c.kind = "Geo" -> GeoMatches(c.op, c.fields, c.nums[1], points)
         [] c.kind = "Arithmetic" ->
              (c.op \in FieldOps => comparedByField) /\ Compare(2 * lhs.n, c.op, rhs * lhs.d)
         [] c.kind = "And" -> \A i \in DOMAIN c.children : holds(i)
         [] c.kind = "Or" -> \E i \in DOMAIN c.children : holds(i)
         [] c.kind = "Not" -> c.children = <<>> \/ ~holds(1)
         [] OTHER -> FALSE

\* Whether an element of a JSON array fulfils a condition; what is no object does not.
JsonAnyElement(v, where, lookups) ==
    \E i \in DOMAIN v.items : v.type = "array" /\ v.items[i].type = "object"
                              /\ AnyHolds(where, JsonRow(v.items[i]), lookups, FALSE)

-----------------------------------------------------------------------------
(* Arrow.  A type names its children, those of a list are items.  A row of a *)
(* struct that is null still has values under it.                            *)

ArrowType(id, nullable) == [id |-> id, nullable |-> nullable, children |-> [name \in {} |-> 0]]
ArrowColumn(name, type, values) == [name |-> name, type |-> type, values |-> values]
IsTextType(type) == type.id \in {"STRING", "LARGE_STRING", "DICTIONARY"}
IsListType(type) == type.id \in {"LIST", "LARGE_LIST"}
IsNumberType(type) == type.id \in {"INT32", "INT64", "TIMESTAMP", "FLOAT", "DOUBLE", "BOOL"}
ChildType(type, name) == IF type.id = "STRUCT" /\ name \in DOMAIN type.children THEN <<type.children[name]>> ELSE <<>>
ChildValue(v, name) ==
    LET same == {i \in DOMAIN v.fields : v.fields[i].key = <<name>>}
    IN IF same = {} THEN Value("null") ELSE v.fields[Min(same)].value

\* A mutant: a struct that is null does not make its parts null.
RECURSIVE DottedChild_NoParents(_, _)
DottedChild_NoParents(column, parts) ==
    LET type == ChildType(column.type, parts[1])
        child == [r \in DOMAIN column.values |-> ChildValue(column.values[r], parts[1])]
    IN IF parts = <<>> THEN <<column>> ELSE IF type = <<>> THEN <<>>
       ELSE DottedChild_NoParents(ArrowColumn(column.name, type[1], child), Tail(parts))

\* The column at the end of a path, null where a struct on the way is null.
RECURSIVE DottedChild(_, _)
DottedChild(column, parts) ==
    LET type == ChildType(column.type, parts[1])
        under(v) == IF v.type = "null" THEN [ChildValue(v, parts[1]) EXCEPT !.type = "null"]
                    ELSE ChildValue(v, parts[1])
    IN CASE parts = <<>> -> <<column>>
         [] parts # <<>> /\ type = <<>> -> <<>>
         [] OTHER -> DottedChild(ArrowColumn(column.name, type[1],
                                    [r \in DOMAIN column.values |-> under(column.values[r])]), Tail(parts))
Resolve(batch, name) ==
    LET named(n) == SelectSeq(batch, LAMBDA column : column.name = n)
    IN IF named(name) # <<>> THEN <<Head(named(name))>>
       ELSE IF named(<<name[1]>>) = <<>> THEN <<>>
       ELSE DottedChild(Head(named(<<name[1]>>)), Tail(name))

\* A field of a struct; numbers in a list have their text with a fraction, and a text
\* that would count as null in JSON does not.
ArrowAny(type, v) ==
    LET item == type.children["items"]
        text(i) == IF IsTextType(item) THEN v.items[i].text
                   ELSE DoubleText(v.items[i].num)
        full == SelectSeq([i \in DOMAIN v.items |-> i], LAMBDA i : v.items[i].type # "null")
    IN CASE v.type = "null" -> NullAny
         [] IsNumberType(type) /\ v.type # "null" -> JsonAny(v)
         [] IsTextType(type) /\ v.type # "null" -> [Existing EXCEPT !.text = v.text]
         [] IsListType(type) /\ v.type # "null" /\ (IsTextType(item) \/ IsNumberType(item)) ->
              [Existing EXCEPT !.texts = [i \in DOMAIN full |-> text(full[i])]]
         [] OTHER -> Existing
RECURSIVE ArrowField(_, _, _)
ArrowField(type, v, parts) ==
    CASE parts = <<>> -> ArrowAny(type, v)
      [] parts # <<>> /\ (v.type = "null" \/ ChildType(type, parts[1]) = <<>>) -> Missing
      [] OTHER -> ArrowField(type.children[parts[1]], ChildValue(v, parts[1]), Tail(parts))

RECURSIVE FieldsIn(_)
FieldsIn(expr) == {expr.field} \union UNION {FieldsIn(expr.children[i]) : i \in DOMAIN expr.children}
RECURSIVE FieldsOf(_)
FieldsOf(c) == ToSet(c.fields) \union FieldsIn(c.expr) \union UNION {FieldsOf(c.children[i]) : i \in DOMAIN c.children}

\* Whether an element of a list of structs fulfils a condition; one that is null does not.
ArrowAnyElement(struct, v, where, lookups) ==
    LET row == [f \in FieldsOf(where) |-> ArrowField(struct, v, f)]
    IN v.type # "null" /\ AnyHolds(where, row, lookups, TRUE)

\* The rows of a batch with an element that fulfils the condition; without a list there are none.
ArrowAnyChannel(batch, channel, lookups) ==
    LET list == Resolve(batch, channel.path)
        struct == list[1].type.children["items"]
        holds(v) == \E i \in DOMAIN v.items : ArrowAnyElement(struct, v.items[i], channel.where, lookups)
        fits == list # <<>> /\ IsListType(list[1].type) /\ struct.id = "STRUCT"
    IN [r \in DOMAIN batch[1].values |->
          fits /\ list[1].values[r].type # "null" /\ holds(list[1].values[r])]
=============================================================================
