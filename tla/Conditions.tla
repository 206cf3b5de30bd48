----------------------------- MODULE Conditions -----------------------------
(***************************************************************************)
(* Conditions of rules and the kernels that decide them on columns         *)
(* (rule_spec.h, schema.h, orchestrator.cpp).  A condition is a record for  *)
(* every kind: its operator, the fields it names, its numbers and texts.    *)
(* A cell is what a column holds in one row.  Texts are sequences of        *)
(* letters; a regular expression is known by the texts it matches and an    *)
(* address by its number, the rest is as in the code.                       *)
(***************************************************************************)
EXTENDS Integers, Sequences, FiniteSets, SequencesExt

CONSTANTS
    AddressBits,   \* the width of an address, 32 in the code
    AddressOf,     \* the texts that are written addresses, and their numbers
    Matching,      \* the pairs of a text and a regular expression that matches it
    BadPatterns,   \* the texts that are no regular expression
    LowerOf,       \* the capital letters and their small ones
    DayLength,     \* the milliseconds of a day, a multiple of 24
    Now,           \* the clock of the evaluation
    Kilometres     \* the distance of two points, by their four coordinates

ColumnTypes == {"FLOAT32", "FLOAT64", "INT32", "INT64", "CATEGORICAL", "ENTITY_KEY",
                "TIMESTAMP_MS", "BOOLEAN", "STRING"}
IsNumeric(t) == t \in {"FLOAT32", "FLOAT64", "INT32", "INT64", "TIMESTAMP_MS"}
IsText(t) == t \in {"STRING", "CATEGORICAL", "ENTITY_KEY"}

NumericOps == {"GT", "LT", "GTE", "LTE", "EQ", "NEQ"}
FieldOps == {"GT_FIELD", "LT_FIELD", "GTE_FIELD", "LTE_FIELD", "EQ_FIELD", "NEQ_FIELD"}
RangeOps == {"BETWEEN_INCLUDING", "BETWEEN_EXCLUDING"}
NullOps == {"IS_NULL", "IS_NOT_NULL", "IS_EMPTY", "IS_NOT_EMPTY"}
MemberOps == {"IN", "NOT_IN", "CONTAINS_ANY", "CONTAINS_ALL", "INTERSECTS", "NOT_INTERSECTS"}
LenOps == {"ARRAY_LEN_GT", "ARRAY_LEN_LT", "ARRAY_LEN_EQ"}
FlagOps == {"FLAGS_ANY", "FLAGS_ALL", "FLAGS_NONE"}
LengthOps == {"LENGTH_GT", "LENGTH_LT", "LENGTH_EQ"}
StringOps == {"CONTAINS", "STARTS_WITH", "ENDS_WITH", "CI_EQ"} \union LengthOps
RegexOps == {"REGEX", "NOT_REGEX"}
LookupOps == {"IN_LOOKUP", "NOT_IN_LOOKUP"}
SubnetOps == {"IP_IN_SUBNET", "IP_NOT_IN_SUBNET"}
TemporalOps == {"BEFORE", "AFTER", "WITHIN_LAST", "DAY_OF_WEEK_IN", "TIME_OF_DAY_BETWEEN"}
DistanceOps == {"DISTANCE_GT", "DISTANCE_LT"}

NoExpr == [kind |-> "NONE", field |-> <<>>, literal |-> 0, children |-> <<>>]

\* A ConditionSpec; the operands a kind does not have are empty.
Condition(kind, op, fields, nums, texts) ==
    [kind |-> kind, op |-> op, fields |-> fields, nums |-> nums, texts |-> texts,
     expr |-> NoExpr, children |-> <<>>]
Junction(kind, children) ==
    [Condition(kind, "NONE", <<>>, <<>>, <<>>) EXCEPT !.children = children]

-----------------------------------------------------------------------------
(* Cells *)

\* nan: the number is not a number (in a field that only comparisons read); bits: a column of closed values holds a
\* set of them (isSet), of which the text is not read.
Cell == [valid |-> TRUE, num |-> 0, nan |-> FALSE, text |-> <<>>, isSet |-> FALSE, bits |-> {}]
NullCell == [Cell EXCEPT !.valid = FALSE]

Compare(lhs, op, rhs) ==
    CASE op \in {"GT", "GT_FIELD"} -> lhs > rhs
      [] op \in {"LT", "LT_FIELD"} -> lhs < rhs
      [] op \in {"GTE", "GTE_FIELD"} -> lhs >= rhs
      [] op \in {"LTE", "LTE_FIELD"} -> lhs <= rhs
      [] op \in {"EQ", "EQ_FIELD"} -> lhs = rhs
      [] op \in {"NEQ", "NEQ_FIELD"} -> lhs # rhs
      [] OTHER -> FALSE

\* A comparison of floating-point numbers: only "not equal" holds of a NaN.
CompareCell(cell, op, rhs) == IF cell.nan THEN op = "NEQ" ELSE Compare(cell.num, op, rhs)

\* The kernel table has six rows; an operator without one takes the first.
KernelOf(op) == IF op \in NumericOps THEN op ELSE "GT"

Within(n, op, lower, upper) ==
    IF op = "BETWEEN_INCLUDING" THEN lower <= n /\ n <= upper ELSE lower < n /\ n < upper

NumericMatches(cell, op, threshold) == cell.valid /\ CompareCell(cell, KernelOf(op), threshold)
RangeMatches(cell, op, lower, upper) ==
    cell.valid /\ ~cell.nan /\ Within(cell.num, op, lower, upper)

-----------------------------------------------------------------------------
(* The bounds of a morsel, which answer a predicate for all of its rows *)

NoZone == [ready |-> FALSE, min |-> 0, max |-> 0]

\* The smallest and the largest value; std::min and std::max pass over a NaN
\* that is not the first value, and a first NaN stays.
ZoneOf(cells) ==
    LET numbers == {cells[i].num : i \in {j \in DOMAIN cells : ~cells[j].nan}}
    IN IF cells = <<>> \/ cells[1].nan \/ \E i \in DOMAIN cells : ~cells[i].valid
       THEN NoZone
       ELSE [ready |-> TRUE, min |-> CHOOSE n \in numbers : \A k \in numbers : n <= k,
             max |-> CHOOSE n \in numbers : \A k \in numbers : k <= n]

ZoneAllFalse(op, t, zone) ==
    CASE op = "GT" -> zone.max <= t
      [] op = "GTE" -> zone.max < t
      [] op = "LT" -> zone.min >= t
      [] op = "LTE" -> zone.min > t
      [] op = "EQ" -> t < zone.min \/ t > zone.max
      [] op = "NEQ" -> zone.min = t /\ zone.max = t
      [] OTHER -> FALSE
ZoneAllTrue(op, t, zone) ==
    CASE op = "GT" -> zone.min > t
      [] op = "GTE" -> zone.min >= t
      [] op = "LT" -> zone.max < t
      [] op = "LTE" -> zone.max <= t
      [] op = "NEQ" -> t < zone.min \/ t > zone.max
      [] OTHER -> FALSE
RangeAllFalse(op, lower, upper, zone) ==
    IF op = "BETWEEN_INCLUDING" THEN zone.max < lower \/ zone.min > upper
    ELSE zone.max <= lower \/ zone.min >= upper
RangeAllTrue(op, lower, upper, zone) ==
    Within(zone.min, op, lower, upper) /\ Within(zone.max, op, lower, upper)

\* The rows of a morsel that a numeric predicate selects.
ZonedRows(op, nums, zone, cells) ==
    LET range == Len(nums) = 2
        none == IF range THEN RangeAllFalse(op, nums[1], nums[2], zone)
                ELSE ZoneAllFalse(op, nums[1], zone)
        all == IF range THEN RangeAllTrue(op, nums[1], nums[2], zone)
               ELSE ZoneAllTrue(op, nums[1], zone)
    IN CASE zone.ready /\ none -> {}
         [] zone.ready /\ ~none /\ all -> DOMAIN cells
         [] OTHER -> {i \in DOMAIN cells :
                        IF range THEN RangeMatches(cells[i], op, nums[1], nums[2])
                        ELSE NumericMatches(cells[i], op, nums[1])}

-----------------------------------------------------------------------------
(* The other kernels.  A row gives each field its cell, and a column has a   *)
(* type, its closed values if any, and a dictionary: the texts seen, in the  *)
(* order of their codes.  Closed values are encoded as sets of bits.         *)

Column(type, values) == [type |-> type, values |-> values, dict |-> values]
IsSetColumn(column) == IsText(column.type) /\ column.type # "STRING" /\ column.values # <<>>
CodeOf(column, text) ==
    IF Contains(column.dict, text)
    THEN CHOOSE i \in DOMAIN column.dict : column.dict[i] = text ELSE -1

\* A text that is no closed value has no bit; a text without a code is never found.
Requested(column, texts) == ToSet(texts) \intersect ToSet(column.values)
CategoricalMatches(cell, column, op, texts) ==
    LET wanted == Requested(column, texts)
        found == cell.text \in ToSet(texts)
    IN /\ cell.valid
       /\ IF IsSetColumn(column)
          THEN CASE op = "CONTAINS_ALL" -> wanted \subseteq cell.bits
                 [] op \in {"NOT_IN", "NEQ", "NOT_INTERSECTS"} -> cell.bits \intersect wanted = {}
                 [] OTHER -> cell.bits \intersect wanted # {}
          ELSE CASE op = "CONTAINS_ALL" -> Len(texts) <= 1 /\ found
                 [] op \in {"IN", "EQ", "CONTAINS_ANY", "INTERSECTS"} -> found
                 [] OTHER -> ~found

LengthHolds(op, length, limit) ==
    CASE op \in {"ARRAY_LEN_GT", "LENGTH_GT"} -> length > limit
      [] op \in {"ARRAY_LEN_LT", "LENGTH_LT"} -> length < limit
      [] op \in {"ARRAY_LEN_EQ", "LENGTH_EQ"} -> length = limit
      [] OTHER -> FALSE

\* An element each for the closed values, one for a coded text, and for a plain text
\* its letters.
ArrayLenMatches(cell, column, op, limit) ==
    /\ cell.valid
    /\ LengthHolds(op, IF IsSetColumn(column) THEN Cardinality(cell.bits)
                       ELSE IF column.type = "STRING" THEN Len(cell.text) ELSE 1, limit)

NullMatches(cell, column, op) ==
    CASE op = "IS_NULL" -> ~cell.valid
      [] op = "IS_EMPTY" -> ~cell.valid \/ (column.type = "STRING" /\ Len(cell.text) = 0)
      [] op = "IS_NOT_EMPTY" -> cell.valid /\ (column.type = "STRING" => Len(cell.text) > 0)
      [] OTHER -> cell.valid

Lower(text) == [i \in DOMAIN text |-> IF text[i] \in DOMAIN LowerOf THEN LowerOf[text[i]] ELSE text[i]]
HasPart(text, part) == \E i \in 0..(Len(text) - Len(part)) : SubSeq(text, i + 1, i + Len(part)) = part
StringMatches(cell, op, pattern, limit) ==
    /\ cell.valid
    /\ CASE op = "CONTAINS" -> HasPart(cell.text, pattern)
         [] op = "STARTS_WITH" -> IsPrefix(pattern, cell.text)
         [] op = "ENDS_WITH" -> IsSuffix(pattern, cell.text)
         [] op = "CI_EQ" -> Lower(cell.text) = Lower(pattern)
         [] OTHER -> LengthHolds(op, Len(cell.text), limit)

RegexMatches(cell, op, pattern) == cell.valid /\ ((<<cell.text, pattern>> \in Matching) = (op = "REGEX"))

\* Texts compare as texts in plain columns and as codes, each of its own column's
\* dictionary, in the others.
CrossFieldMatches(left, lcolumn, right, rcolumn, op) ==
    LET equality == op \in {"EQ_FIELD", "NEQ_FIELD"}
        plain == lcolumn.type = "STRING" /\ rcolumn.type = "STRING"
        coded == ~IsNumeric(lcolumn.type) /\ ~IsNumeric(rcolumn.type) /\ ~plain
        code(cell, column) == IF IsSetColumn(column) THEN {CodeOf(column, t) : t \in cell.bits}
                              ELSE {CodeOf(column, cell.text)}
        number(cell, column) == IF IsNumeric(column.type) THEN cell.num ELSE 0
    IN /\ left.valid /\ right.valid
       /\ CASE plain /\ equality -> (left.text = right.text) = (op = "EQ_FIELD")
            [] coded /\ equality -> (code(left, lcolumn) = code(right, rcolumn)) = (op = "EQ_FIELD")
            [] OTHER -> Compare(number(left, lcolumn), op, number(right, rcolumn))

\* The bits of a number of the width of an address, negative ones in two's complement.
BitsOf(n) == {b \in 0..(AddressBits - 1) : (n \div 2^b) % 2 = 1}
BitfieldMatches(cell, op, mask) ==
    /\ cell.valid
    /\ CASE op = "FLAGS_ALL" -> BitsOf(mask) \subseteq BitsOf(cell.num)
         [] op = "FLAGS_NONE" -> BitsOf(mask) \intersect BitsOf(cell.num) = {}
         [] OTHER -> BitsOf(mask) \intersect BitsOf(cell.num) # {}

\* A text that is no address counts as address 0.
AddressIn(cell, column) ==
    IF column.type = "STRING"
    THEN (IF cell.text \in DOMAIN AddressOf THEN AddressOf[cell.text] ELSE 0)
    ELSE cell.num % 2^AddressBits
CidrMatches(cell, column, op, network, mask) ==
    /\ cell.valid
    /\ (BitsOf(AddressIn(cell, column)) \intersect BitsOf(mask) = BitsOf(network)) = (op = "IP_IN_SUBNET")

\* The last range that starts at or below the address decides.
RangesContain(ranges, address) ==
    LET below == {i \in DOMAIN ranges : ranges[i].start <= address}
    IN below # {} /\ address <= ranges[CHOOSE i \in below : \A j \in below : j <= i].end

\* On a coded column the members are the codes that were bound.
LookupMatches(cell, column, op, lookup) ==
    LET found ==
          CASE lookup.type = "STRING_SET" /\ IsSetColumn(column) ->
                 cell.bits \intersect lookup.strings # {}
            [] lookup.type = "STRING_SET" /\ ~IsSetColumn(column) -> cell.text \in lookup.strings
            [] lookup.type = "INT_SET" -> cell.num \in lookup.ints
            [] OTHER -> RangesContain(lookup.ranges, AddressIn(cell, column))
    IN cell.valid /\ found = (op = "IN_LOOKUP")

\* Division and remainder truncate towards zero.
Quotient(n, d) == IF n >= 0 THEN n \div d ELSE -((-n) \div d)
Remainder(n, d) == n - d * Quotient(n, d)
DayOfWeek(ms) == LET dow == Remainder(Quotient(ms, DayLength) + 4, 7) IN IF dow < 0 THEN dow + 7 ELSE dow
\* The time of day in milliseconds; the bounds of a condition are hours.
TimeOfDay(ms) == LET rest == Remainder(ms, DayLength) IN IF rest < 0 THEN rest + DayLength ELSE rest
TemporalMatches(cell, op, nums) ==
    LET v == cell.num
        hours == [i \in DOMAIN nums |-> nums[i] * (DayLength \div 24)]
        between == IF nums[1] <= nums[2]
                   THEN hours[1] <= TimeOfDay(v) /\ TimeOfDay(v) <= hours[2]
                   ELSE hours[1] <= TimeOfDay(v) \/ TimeOfDay(v) <= hours[2]
    IN /\ cell.valid
       /\ CASE op = "BEFORE" -> v < nums[1]
            [] op = "AFTER" -> v > nums[1]
            [] op = "WITHIN_LAST" -> v >= Now - nums[1] * 1000
            [] op = "DAY_OF_WEEK_IN" -> DayOfWeek(v) \in ToSet(nums)
            [] op = "TIME_OF_DAY_BETWEEN" -> between
            [] OTHER -> FALSE

\* The value of an expression in a row, as a fraction; not ok when a field is null
\* or a divisor is zero.
RECURSIVE ValueOf(_, _)
ValueOf(expr, row) ==
    LET l == ValueOf(expr.children[1], row)
        r == ValueOf(expr.children[2], row)
        sum(sign) == [n |-> l.n * r.d + sign * r.n * l.d, d |-> l.d * r.d]
        both(v) == [n |-> v.n, d |-> v.d, ok |-> l.ok /\ r.ok]
        over == IF r.n < 0 THEN [n |-> -(l.n * r.d), d |-> l.d * (-r.n)]
                ELSE [n |-> l.n * r.d, d |-> l.d * r.n]
    IN CASE expr.kind = "FIELD" ->
              [n |-> IF row[expr.field].valid THEN row[expr.field].num ELSE 0, d |-> 1,
               ok |-> row[expr.field].valid]
         [] expr.kind = "LITERAL" -> [n |-> expr.literal, d |-> 1, ok |-> TRUE]
         [] expr.kind = "ADD" -> both(sum(1))
         [] expr.kind = "SUB" -> both(sum(-1))
         [] expr.kind = "MUL" -> both([n |-> l.n * r.n, d |-> l.d * r.d])
         [] expr.kind = "DIV" /\ r.n = 0 -> [n |-> 0, d |-> 1, ok |-> FALSE]
         [] OTHER -> both(over)

\* fields may name a field to compare with, else nums has the threshold.
ArithmeticMatches(expr, op, fields, nums, row) ==
    LET lhs == ValueOf(expr, row)
        rhs == IF fields = <<>> THEN nums[1] ELSE row[fields[1]].num
    IN lhs.ok /\ (fields # <<>> => row[fields[1]].valid) /\ Compare(lhs.n, op, rhs * lhs.d)

GeoMatches(op, fields, limit, row) ==
    LET at(i) == row[fields[i]]
        far == Kilometres[<<at(1).num, at(2).num, at(3).num, at(4).num>>]
    IN (\A i \in 1..4 : at(i).valid) /\ IF op = "DISTANCE_LT" THEN far < limit ELSE far > limit

-----------------------------------------------------------------------------
(* Predicates *)

\* A kernel that reads the cells with another width than the column has: the compiler
\* checks that a field is a number, not which, and compares any two fields.
Misread(p, columns) ==
    LET type(i) == columns[p.fields[i]].type
        coded(i) == type(i) \in {"CATEGORICAL", "ENTITY_KEY"}
    IN \/ /\ p.kind = "CrossField" /\ p.op \in {"EQ_FIELD", "NEQ_FIELD"}
          /\ ~IsNumeric(type(1)) /\ ~IsNumeric(type(2)) /\ {type(1), type(2)} # {"STRING"}
          /\ ~(coded(1) /\ coded(2) /\ IsSetColumn(columns[p.fields[1]]) = IsSetColumn(columns[p.fields[2]]))
       \/ p.kind = "Temporal" /\ type(1) \notin {"INT64", "TIMESTAMP_MS"}
       \/ p.kind = "Bitfield" /\ type(1) \notin {"INT32", "INT64"}
       \/ p.kind = "Geo" /\ \E i \in 1..4 : type(i) \notin {"FLOAT32", "FLOAT64"}

\* The row a predicate selects; noise is what a misread column gives.
Selects(p, columns, row, lookups, noise) ==
    LET field == p.fields[1]
        cell == row[field]
        column == columns[field]
    IN CASE Misread(p, columns) -> noise
         [] p.kind = "Categorical" -> CategoricalMatches(cell, column, p.op, p.texts)
         [] p.kind = "ArrayLen" -> ArrayLenMatches(cell, column, p.op, p.nums[1])
         [] p.kind = "Null" -> NullMatches(cell, column, p.op)
         [] p.kind = "CrossField" ->
              CrossFieldMatches(cell, column, row[p.fields[2]], columns[p.fields[2]], p.op)
         [] p.kind = "Bitfield" /\ ~Misread(p, columns) -> BitfieldMatches(cell, p.op, p.nums[1])
         [] p.kind = "String" -> StringMatches(cell, p.op, p.texts[1], p.nums[1])
         [] p.kind = "Regex" -> RegexMatches(cell, p.op, p.texts[1])
         [] p.kind = "Lookup" -> LookupMatches(cell, column, p.op, lookups[p.texts[1]])
         [] p.kind = "Cidr" -> CidrMatches(cell, column, p.op, p.nums[1], p.nums[2])
         [] p.kind = "Temporal" /\ ~Misread(p, columns) -> TemporalMatches(cell, p.op, p.nums)
         [] p.kind = "Geo" /\ ~Misread(p, columns) -> GeoMatches(p.op, p.fields, p.nums[1], row)
         [] p.kind = "Arithmetic" -> ArithmeticMatches(p.expr, p.op, p.fields, p.nums, row)
         [] p.kind = "NumericRange" -> RangeMatches(cell, p.op, p.nums[1], p.nums[2])
         [] OTHER -> NumericMatches(cell, p.op, p.nums[1])

\* The mask of a predicate over a morsel: a number's bounds may answer for all rows.
Mask(p, columns, rows, lookups, noise, zoned) ==
    IF p.kind \in {"Numeric", "NumericRange", "Window"}
    THEN LET cells == [i \in DOMAIN rows |-> rows[i][p.fields[1]]]
         IN ZonedRows(p.op, p.nums, IF zoned THEN ZoneOf(cells) ELSE NoZone, cells)
    ELSE {i \in DOMAIN rows : Selects(p, columns, rows[i], lookups, noise)}

\* The dictionaries after a batch of rows.
Encoded(columns, rows) ==
    LET seen(f) == SelectSeq([i \in DOMAIN rows |-> rows[i][f]], LAMBDA cell : cell.valid)
        add(dict, cell) == IF Contains(dict, cell.text) THEN dict ELSE Append(dict, cell.text)
    IN [f \in DOMAIN columns |->
          IF IsText(columns[f].type) /\ ~IsSetColumn(columns[f])
          THEN [columns[f] EXCEPT !.dict = FoldLeft(add, @, seen(f))] ELSE columns[f]]
=============================================================================
