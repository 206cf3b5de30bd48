----------------------------- MODULE Transposer -----------------------------
(***************************************************************************)
(* The transposer (transposer.cpp): JSON records become the columns of a     *)
(* batch in one pass.  A record that breaks is taken back and counted; a     *)
(* stream with any such record is read again line by line; a large stream    *)
(* is read in chunks by workers whose columns are put together.  A           *)
(* transposer is a record, its operations are operators on it.  Rows are     *)
(* counted from 0.  A number of halves is kept where the code keeps a        *)
(* number, whole in a column of integers.                                    *)
(***************************************************************************)
EXTENDS Inference

CONSTANTS
    ByteBits,     \* the bits of a byte, 8 in the code
    MaskBits,     \* the closed values a mask has no room for, 63 in the code
    MaxSamples    \* max_error_samples

-----------------------------------------------------------------------------
(* Bit vectors: the bits that are set, and how many bytes there are *)

NoBits == [set |-> {}, bytes |-> 0]
BytesFor(bits) == (bits + ByteBits - 1) \div ByteBits
EnsureBitSlot(bits, i) == [bits EXCEPT !.bytes = Max({@, i \div ByteBits + 1})]
\* A bit is set, never cleared.
SetBit(bits, i, on) == [EnsureBitSlot(bits, i) EXCEPT !.set = IF on THEN @ \union {i} ELSE @]
Resize(bits, bytes) == [set |-> {i \in bits.set : i \div ByteBits < bytes}, bytes |-> bytes]

-----------------------------------------------------------------------------
(* Buffers *)

NoBuffer == [cells |-> <<>>, nulls |-> 0, validity |-> NoBits, trues |-> NoBits]
\* How closed values are kept: as a mask of bits while they fit, then as the code of one.
Encoding(field) ==
    CASE field.column.type # "CATEGORICAL" \/ field.column.values = <<>> -> "NONE"
      [] field.column.type = "CATEGORICAL" /\ Len(field.column.values) \in 1..(MaskBits - 1) -> "MASK"
      [] OTHER -> "CODE"
\* What is kept for a null: zero, false, the empty text or mask, and the first code.
DefaultCell(field) == [Cell EXCEPT !.isSet = Encoding(field) = "MASK"]

NewTransposer(schema) ==
    [schema |-> schema, projected |-> DOMAIN schema, channels |-> <<>>, lookups |-> <<>>,
     columns |-> [c \in DOMAIN schema |-> NoBuffer], size |-> 0, skipped |-> 0, row |-> 0, seen |-> {},
     counts |-> [MALFORMED_JSON |-> 0, FIELD_TYPE_COERCION_FAILED |-> 0], samples |-> <<>>,
     learned |-> FALSE, flat |-> FALSE]
\* A mutant: the counts of errors stay.
Reset_KeepsCounts(t) ==
    [NewTransposer(t.schema) EXCEPT !.projected = t.projected, !.channels = t.channels, !.lookups = t.lookups,
                                    !.learned = t.learned, !.flat = t.flat, !.counts = t.counts]
\* The layout that was learned stays.
Reset(t) ==
    [NewTransposer(t.schema) EXCEPT !.projected = t.projected, !.channels = t.channels, !.lookups = t.lookups,
                                    !.learned = t.learned, !.flat = t.flat]
\* No column asked for means all of them.
SetProjectedFields(t, columns) ==
    [t EXCEPT !.projected = IF columns = {} THEN DOMAIN t.schema ELSE columns \intersect DOMAIN t.schema]
SetArrayAnyChannels(t, channels, lookups) == [t EXCEPT !.channels = channels, !.lookups = lookups]

RecordError(t, code, column, skip) ==
    [t EXCEPT !.skipped = IF skip THEN @ + 1 ELSE @, !.counts[code] = @ + 1,
              !.samples = IF Len(@) < MaxSamples THEN Append(@, [code |-> code, row |-> t.row, column |-> column]) ELSE @]
RefuseInput(t) == [RecordError(t, "MALFORMED_JSON", <<>>, TRUE) EXCEPT !.row = @ + 1]

-----------------------------------------------------------------------------
(* What a column takes of a value: a cell, a null, or an error *)

Taken(cell) == [kind |-> "value", cell |-> cell]
NullReading == [kind |-> "null", cell |-> Cell]
ErrorReading == [kind |-> "error", cell |-> Cell]

\* The number that is kept of one in a wider form.
Wrapped(n, half) == ((n + half) % (2 * half)) - half
StoredNumber(type, num) ==
    CASE type = "INT32" -> Half(Wrapped(Whole(num), IntHalf))
      [] type \in {"INT64", "TIMESTAMP_MS"} -> Half(Whole(num))
      [] OTHER -> num

MaskReading(field, v) ==
    LET texts == IF v.type = "array" THEN TextsIn(v) ELSE TextsOf(v)
        none == v.type # "array" /\ texts = <<>> /\ field.nullable
    IN IF none THEN NullReading
       ELSE Taken([Cell EXCEPT !.isSet = TRUE, !.bits = Requested(field.column, texts)])
\* The first text of an array that is a closed value; another text is no code.
CodeReading(field, v) ==
    LET texts == IF v.type = "array" THEN TextsIn(v) ELSE TextsOf(v)
        closed == SelectSeq(texts, LAMBDA text : Contains(field.column.values, text))
        none == v.type # "array" /\ texts = <<>> /\ field.nullable
    IN IF none THEN NullReading
       ELSE Taken([Cell EXCEPT !.num = IF closed = <<>> THEN -1 ELSE CodeOf(field.column, closed[1]) - 1])
NumberReading(field, v) ==
    LET numbers == IF v.type = "array" THEN SelectSeq(v.items, LAMBDA item : item.type = "number")
                   ELSE IF v.type = "number" THEN <<v>> ELSE <<>>
    IN IF numbers = <<>> THEN ErrorReading
       ELSE Taken([Cell EXCEPT !.num = StoredNumber(field.column.type, numbers[1].num)])

AppendJsonValue(field, v) ==
    LET type == field.column.type
    IN CASE v.type = "null" -> NullReading
         [] v.type # "null" /\ Encoding(field) = "MASK" -> MaskReading(field, v)
         [] v.type # "null" /\ Encoding(field) = "CODE" -> CodeReading(field, v)
         [] OTHER ->
              CASE IsNumeric(type) -> NumberReading(field, v)
                [] type = "BOOLEAN" -> IF v.type = "boolean" THEN Taken([Cell EXCEPT !.num = v.num]) ELSE ErrorReading
                [] OTHER -> IF v.type # "string" THEN ErrorReading
                            ELSE IF v.text \in NullTexts THEN NullReading
                            ELSE Taken([Cell EXCEPT !.text = v.text])

\* A column that may not be null keeps the default of a null as a value.
AppendCell(field, buffer, reading) ==
    LET at == Len(buffer.cells)
        null == reading.kind # "value"
        truth == reading.cell.num # 0
    IN [cells |-> Append(buffer.cells, IF null THEN DefaultCell(field)
                                       ELSE IF field.column.type = "BOOLEAN" THEN Cell ELSE reading.cell),
        nulls |-> IF null /\ field.nullable THEN buffer.nulls + 1 ELSE buffer.nulls,
        trues |-> IF field.column.type = "BOOLEAN" THEN SetBit(buffer.trues, at, truth) ELSE buffer.trues,
        validity |-> IF field.nullable THEN SetBit(buffer.validity, at, ~null)
                     ELSE IF null /\ buffer.validity.bytes > 0 THEN SetBit(buffer.validity, at, TRUE)
                     ELSE buffer.validity]
AppendTo(t, c, reading) ==
    [t EXCEPT !.seen = @ \union {c}, !.columns[c] = AppendCell(t.schema[c], @, reading)]

-----------------------------------------------------------------------------
(* The fields of a record *)

\* The channels that wait for an array in this place.
Listening(t, path) ==
    SelectSeq(t.channels, LAMBDA ch : ch.path = path /\ ch.column \in t.projected \ t.seen)
AppendArrayAnyValue(t, path, v) ==
    LET found(ch) == [Cell EXCEPT !.num = IF JsonAnyElement(v, ch.where, t.lookups) THEN Half(1) ELSE 0]
    IN FoldLeft(LAMBDA s, ch : AppendTo(s, ch.column, Taken(found(ch))), t, Listening(t, path))

\* The first value of a field counts.
AppendReading(t, c, path, reading) ==
    AppendTo(IF reading.kind # "error" THEN t ELSE RecordError(t, "FIELD_TYPE_COERCION_FAILED", path, FALSE), c, reading)
AppendIfNew(t, path, v) ==
    LET c == IndexOf(t.schema, path)
    IN IF c \in t.projected \ t.seen THEN AppendReading(t, c, path, AppendJsonValue(t.schema[c], v)) ELSE t

RECURSIVE AppendObjectFields(_, _, _)
AppendObjectFields(t, fields, prefix) ==
    LET step(s, field) ==
          LET path == prefix \o field.key
              heard == Listening(s, path) # <<>>
          IN CASE heard -> AppendArrayAnyValue(s, path, field.value)
               [] ~heard /\ field.value.type = "object" -> AppendObjectFields(s, field.value.fields, path)
               [] OTHER -> AppendIfNew(s, path, field.value)
    IN FoldLeft(step, t, fields)

\* In a flat layout no object is entered, and reading ends with the last wanted column.
Complete(t) == t.projected \subseteq t.seen
AppendFlatFields(t, fields) ==
    LET step(s, field) ==
          CASE Complete(s) -> s
            [] ~Complete(s) /\ Listening(s, field.key) # <<>> -> AppendArrayAnyValue(s, field.key, field.value)
            [] OTHER -> AppendIfNew(s, field.key, field.value)
    IN FoldLeft(step, t, fields)

-----------------------------------------------------------------------------
(* A record *)

\* A mutant: the columns keep what the record put into them.
AbortMalformedRow_KeepsCells(before, read) ==
    [RecordError(read, "MALFORMED_JSON", <<>>, TRUE) EXCEPT !.seen = {}, !.row = @ + 1]
\* The columns are cut back to where they were, the bits to whole bytes; the counts of
\* errors in the record's fields stay.
AbortMalformedRow(before, read) ==
    LET back(c) == LET old == before.columns[c]
                   IN [old EXCEPT !.validity = Resize(read.columns[c].validity, old.validity.bytes),
                                  !.trues = Resize(read.columns[c].trues, old.trues.bytes)]
    IN [RecordError(read, "MALFORMED_JSON", <<>>, TRUE)
          EXCEPT !.columns = [c \in DOMAIN @ |-> IF c \in before.projected THEN back(c) ELSE @[c]],
                 !.seen = {}, !.row = @ + 1]

\* Columns the record has no value for get a null.
EndRow(t) ==
    LET filled(c) == IF c \in t.projected \ t.seen THEN AppendCell(t.schema[c], t.columns[c], NullReading)
                     ELSE t.columns[c]
    IN [t EXCEPT !.columns = [c \in DOMAIN @ |-> filled(c)], !.size = @ + 1, !.row = @ + 1, !.seen = {}]

ReadsFlat(t) == t.learned /\ t.flat
ReadFields(t, doc) ==
    CASE doc.kind # "object" -> t
      [] doc.kind = "object" /\ ReadsFlat(t) -> AppendFlatFields(t, doc.fields)
      [] OTHER -> AppendObjectFields(t, doc.fields, <<>>)
EndDocument(t, doc, read) ==
    LET broken == doc.kind # "object" \/ (doc.cut /\ ~(ReadsFlat(t) /\ Complete(read)))
        keys == {i \in DOMAIN doc.fields : Listening(t, doc.fields[i].key) = <<>>}
    IN IF broken THEN AbortMalformedRow(t, read)
       ELSE [EndRow(read) EXCEPT !.learned = @ \/ keys # {}]
AppendDocument(t, doc) == EndDocument(t, doc, ReadFields(t, doc))

AddJsonMessage(t, doc) == IF doc.kind = "garbage" THEN RefuseInput(t) ELSE AppendDocument(t, doc)

-----------------------------------------------------------------------------
(* Streams.  blind: simdjson refuses the whole stream because of some garbage in it. *)

IsBlank(doc) == doc.kind = "blank"
ParseLinesSafe(t, docs) == FoldLeft(LAMBDA s, doc : IF IsBlank(doc) THEN s ELSE AddJsonMessage(s, doc), t, docs)

\* As one stream of documents, until one fails; then all again, line by line.
AfterDocument(t, next) == [t |-> next, dirty |-> next.skipped > t.skipped]
ReadAgain(read, docs) ==
    IF read.dirty \/ \E i \in DOMAIN docs : IsBlank(docs[i]) THEN ParseLinesSafe(Reset(read.t), docs) ELSE read.t
ParseNdjsonView(t, docs, blind) ==
    LET step(s, doc) ==
          CASE s.dirty \/ IsBlank(doc) -> s
            [] ~(s.dirty \/ IsBlank(doc)) /\ doc.kind = "garbage" -> [s EXCEPT !.dirty = TRUE]
            [] OTHER -> AfterDocument(s.t, AppendDocument(s.t, doc))
    IN IF docs = <<>> THEN t ELSE ReadAgain(FoldLeft(step, [t |-> t, dirty |-> blind], docs), docs)

\* The first record tells whether the records have objects in them.
LearnFieldOrder(t, docs, blind) ==
    LET solid == SelectSeq(docs, LAMBDA doc : ~IsBlank(doc))
        first == solid[1]
        unread == t.learned \/ blind \/ solid = <<>>
    IN IF unread \/ first.kind # "object" \/ first.cut THEN t
       ELSE [t EXCEPT !.learned = first.fields # <<>>,
                      !.flat = \A i \in DOMAIN first.fields : first.fields[i].value.type # "object"]

\* The buffers of workers, one after the other.  A source without validity bits is valid.
MergeColumn(buffers) ==
    LET rows(b) == 0..(Len(b.cells) - 1)
        valid(b) == IF b.validity.bytes = 0 THEN rows(b) ELSE b.validity.set \intersect rows(b)
        join(s, b) == [cells |-> s.cells \o b.cells, nulls |-> s.nulls + b.nulls,
                       valid |-> s.valid \union {Len(s.cells) + i : i \in valid(b)},
                       trues |-> s.trues \union {Len(s.cells) + i : i \in b.trues.set \intersect rows(b)}]
        all == FoldLeft(join, [cells |-> <<>>, nulls |-> 0, valid |-> {}, trues |-> {}], buffers)
        needed == \E i \in DOMAIN buffers : buffers[i].validity.bytes > 0 \/ buffers[i].nulls > 0
        bytes == BytesFor(Len(all.cells))
    IN [cells |-> all.cells, nulls |-> all.nulls,
        validity |-> IF needed THEN [set |-> all.valid, bytes |-> bytes] ELSE NoBits,
        trues |-> [set |-> all.trues, bytes |-> bytes]]

\* The row of an error is counted from the beginning of the stream.
MergeWorkers(t, workers) ==
    LET base(i) == FoldLeft(LAMBDA n, w : n + w.row, t.row, SubSeq(workers, 1, i - 1))
        shifted(i) == [j \in DOMAIN workers[i].samples |-> [workers[i].samples[j] EXCEPT !.row = @ + base(i)]]
        samples == t.samples \o FlattenSeq([i \in DOMAIN workers |-> shifted(i)])
        buffers(c) == <<t.columns[c]>> \o [i \in DOMAIN workers |-> workers[i].columns[c]]
        total(of(_)) == FoldLeft(LAMBDA n, w : n + of(w), of(t), workers)
    IN [t EXCEPT !.columns = [c \in DOMAIN @ |-> IF c \in t.projected THEN MergeColumn(buffers(c)) ELSE @[c]],
                 !.size = total(LAMBDA w : w.size), !.skipped = total(LAMBDA w : w.skipped),
                 !.counts = [code \in DOMAIN @ |-> total(LAMBDA w : w.counts[code])],
                 !.samples = SubSeq(samples, 1, Min({Len(samples), MaxSamples})),
                 !.row = base(Len(workers) + 1)]

\* The stream in the chunks it was split into; the workers know the layout, and keep what they learn.
ParseNdjsonParallel(t, chunks, blind) ==
    LET learned == LearnFieldOrder(t, FlattenSeq(chunks), blind)
        garbled(docs) == \E i \in DOMAIN docs : docs[i].kind = "garbage"
        worker(docs) == ParseNdjsonView(Reset(learned), docs, blind /\ garbled(docs))
    IN IF Len(chunks) <= 1 THEN ParseNdjsonView(learned, FlattenSeq(chunks), blind)
       ELSE MergeWorkers(learned, [i \in DOMAIN chunks |-> worker(chunks[i])])

\* An element that breaks ends the array for the parser.
ParseJsonArray(t, top) ==
    IF top.kind # "array" THEN RefuseInput(t) ELSE FoldLeft(AppendDocument, t, ElementsOf(top.fields))

-----------------------------------------------------------------------------
(* The batch *)

FinishColumn(t, c) ==
    LET buffer == t.columns[c]
        cell(r) == IF t.schema[c].column.type = "BOOLEAN"
                   THEN [buffer.cells[r] EXCEPT !.num = IF r - 1 \in buffer.trues.set THEN Half(1) ELSE 0]
                   ELSE buffer.cells[r]
    IN [r \in 1..t.size |-> CASE c \notin t.projected -> NullCell
                               [] c \in t.projected /\ buffer.nulls > 0 /\ r - 1 \notin buffer.validity.set -> NullCell
                               [] OTHER -> cell(r)]
FinishBatch(t) == [c \in DOMAIN t.schema |-> FinishColumn(t, c)]
=============================================================================
