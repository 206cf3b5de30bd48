---------------------------- MODULE WindowStore ----------------------------
(***************************************************************************)
(* WindowStore (src/src/core/window_store.cpp): per entity and channel, a  *)
(* ring of one-second buckets with a running total, read by every batch    *)
(* before it is evaluated and written after (the window stages of          *)
(* RuleEngine::evaluate_batch_into).                                       *)
(*                                                                         *)
(* The store never looks at a history: it subtracts what expires.  The     *)
(* variable history keeps every row that was written, and the properties   *)
(* compare the store with the windows computed from that history.          *)
(*                                                                         *)
(* Values are integers, so a floating-point rounding residue of the        *)
(* running totals is outside the model.  A batch runs under the engine's   *)
(* state lock: the stages of two batches do not interleave.                *)
(***************************************************************************)
EXTENDS Integers, Sequences, FiniteSets, FiniteSetsExt

CONSTANTS
    Null,            \* a null cell
    NIds,            \* the dictionary has given the ids 0 .. NIds-1
    Channels,        \* the channels: [entity, fn, sum, denom, duration]
    Batches,         \* the batches that may come: sequences of rows
    StampLimit,      \* stamp_gen_ counts modulo this (2^32 in the code)
    MaxClock,        \* bound: the clock
    MaxBatches,      \* bound: batches
    MaxBack,         \* bound: steps back of the system clock
    MaxEvictions,    \* bound: calls of evict_stale_entities
    MaxResets        \* bound: calls of reset_all and configure

Ids == 0 .. NIds - 1
Functions == {"COUNT", "SUM", "MIN", "MAX", "AVG", "RATIO"}

\* A row gives an id to each entity column and a value to each numeric one; the
\* encoder writes -1 for a value that found no room in the dictionary.
ASSUME WindowAssumption ==
    /\ NIds \in Nat
    /\ IsFiniteSet(Channels)
    /\ \A c \in Channels :
          /\ c = [entity |-> c.entity, fn |-> c.fn, sum |-> c.sum, denom |-> c.denom,
                  duration |-> c.duration]
          /\ c.duration \in Nat \ {0} /\ c.fn \in Functions
    /\ \A batch \in Batches :
          /\ IsFiniteSet(DOMAIN batch)
          /\ \A i \in DOMAIN batch : \A c \in Channels :
                /\ batch[i][c.entity] \in Ids \cup {-1, Null}
                /\ c.sum # Null => batch[i][c.sum] \in Int \cup {Null}
                /\ c.fn = "RATIO" => batch[i][c.denom] \in Int \cup {Null}
    /\ StampLimit \in Nat \ {0, 1}
    /\ MaxClock \in Nat \ {0} /\ MaxBatches \in Nat /\ MaxBack \in Nat
    /\ MaxEvictions \in Nat /\ MaxResets \in Nat

VARIABLES
    clock,      \* system_clock, in seconds
    phase,      \* "idle", or "read": the batch is being evaluated
    rows, now,  \* the batch being evaluated, and the second it was read at
    counters,   \* counters[c][id]: EntityCounter
    active,     \* active[c]: active_entities
    stamp, gen, \* stamp_ and stamp_gen_ of the coalescing scratch
    readings,   \* readings[c][i]: what query_all_channels gave row i
    history,    \* history: the rows written since the last reset
    seen,       \* history: the latest second at which an entity was accessed
    batches, backs, evictions, resets  \* counters of the bounds

vars == <<clock, phase, rows, now, counters, active, stamp, gen, readings,
          history, seen, batches, backs, evictions, resets>>

-----------------------------------------------------------------------------
(* EntityCounter.                                                          *)

Additive(fn) == fn \notin {"MIN", "MAX"}

\* combine_fn.
Combine(fn, a, b) ==
    CASE fn = "MIN" -> Min({a, b})
      [] fn = "MAX" -> Max({a, b})
      [] OTHER -> a + b

\* combine_fn over a non-empty set, each element with its value.
CombineAll(fn, val(_), S) ==
    CASE fn = "MIN" -> Min({val(x) : x \in S})
      [] fn = "MAX" -> Max({val(x) : x \in S})
      [] OTHER -> MapThenSumSet(val, S)

\* The inline bucket and the extra buckets, at most one for each second.
Absent == [initialized |-> FALSE, inline |-> {}, extra |-> {}, total |-> 0,
           count |-> 0, head |-> 0]

Cleared(second) == [Absent EXCEPT !.initialized = TRUE, !.head = second]

Value(bucket) == bucket.value
Count(bucket) == bucket.count

Expired(bucket, second, duration) == bucket.second <= second - duration

\* advance_and_zero.
Advance(ec, second, c) ==
    LET elapsed == second - ec.head
        inlineGone == {b \in ec.inline : Expired(b, second, c.duration)}
        extraGone == {b \in ec.extra : Expired(b, second, c.duration)}
        Gone(val(_)) == IF Additive(c.fn)
                        THEN MapThenSumSet(val, inlineGone) + MapThenSumSet(val, extraGone)
                        ELSE 0
    IN CASE ~ec.initialized -> Cleared(second)
         [] ec.initialized /\ elapsed <= 0 -> ec
         [] ec.initialized /\ elapsed >= c.duration -> Cleared(second)
         [] OTHER -> [ec EXCEPT !.inline = @ \ inlineGone,
                                !.extra = @ \ extraGone,
                                !.total = @ - Gone(Value),
                                !.count = @ - Gone(Count),
                                !.head = second]

\* add_bucket: the inline bucket takes the first second that comes, an extra
\* bucket any other.
Merged(bucket, b, fn) == [bucket EXCEPT !.value = Combine(fn, @, b.value),
                                        !.count = @ + b.count]

AddBucket(ec, b, fn) ==
    LET same == {x \in ec.extra : x.second = b.second}
    IN CASE ec.inline = {} -> [ec EXCEPT !.inline = {b}]
         [] \E x \in ec.inline : x.second = b.second ->
              [ec EXCEPT !.inline = {Merged(x, b, fn) : x \in @}]
         [] OTHER ->
              [ec EXCEPT !.extra = IF same = {}
                                   THEN @ \cup {b}
                                   ELSE (@ \ same) \cup {Merged(x, b, fn) : x \in same}]

\* What a query gives for a counter, as a fraction <<numerator, denominator>>.
Zero == <<0, 1>>
Reading(ec, fn) ==
    LET buckets == ec.inline \cup ec.extra
    IN CASE fn \in {"AVG", "RATIO"} ->
              IF ec.count > 0 THEN <<ec.total, ec.count>> ELSE Zero
         [] fn \in {"MIN", "MAX"} ->
              IF buckets = {} THEN Zero ELSE <<CombineAll(fn, Value, buckets), 1>>
         [] OTHER -> <<ec.total, 1>>

-----------------------------------------------------------------------------
(* Rows.                                                                   *)

IsId(cell) == cell \in Ids
IdsOf(batch, col) == {id \in Ids : \E i \in DOMAIN batch : batch[i][col] = id}
RowsOf(batch, col, id) == {i \in DOMAIN batch : batch[i][col] = id}

\* What a row adds to a channel, and to its count.  A null value counts as one.
DeltaOf(c, row) ==
    IF c.fn # "COUNT" /\ c.sum # Null /\ row[c.sum] # Null THEN row[c.sum] ELSE 1
CountOf(c, row) ==
    IF c.fn = "RATIO" /\ row[c.denom] # Null THEN row[c.denom] ELSE 1

\* The rows of one entity, coalesced.
BucketOf(c, batch, id, second) ==
    LET R == RowsOf(batch, c.entity, id)
        D(i) == DeltaOf(c, batch[i])
        N(i) == CountOf(c, batch[i])
    IN [second |-> second, value |-> CombineAll(c.fn, D, R), count |-> MapThenSumSet(N, R)]

\* build_update_groups: the channels that differ only in their duration share
\* one pass over the rows.
SameGroup(a, c) == [a EXCEPT !.duration = 0] = [c EXCEPT !.duration = 0]
Groups == {{a \in Channels : SameGroup(a, c)} : c \in Channels}

-----------------------------------------------------------------------------
Bucket == [second : Int, value : Int, count : Int]
Counter == [initialized : BOOLEAN, inline : SUBSET Bucket, extra : SUBSET Bucket,
            total : Int, count : Int, head : Int]
EntityColumns == {c.entity : c \in Channels}

TypeOK ==
    /\ clock \in 1 .. MaxClock
    /\ phase \in {"idle", "read"}
    /\ rows \in Batches \cup {<<>>}
    /\ now \in 0 .. MaxClock
    /\ counters \in [Channels -> [Ids -> Counter]]
    /\ active \in [Channels -> 0 .. NIds]
    /\ stamp \in [Ids -> 0 .. StampLimit - 1]
    /\ gen \in 0 .. StampLimit - 1
    /\ seen \in [EntityColumns -> [Ids -> 0 .. MaxClock]]
    /\ batches \in 0 .. MaxBatches
    /\ backs \in 0 .. MaxBack
    /\ evictions \in 0 .. MaxEvictions
    /\ resets \in 0 .. MaxResets

NoReadings == [c \in Channels |-> <<>>]

Init ==
    /\ clock = 1
    /\ phase = "idle" /\ rows = <<>> /\ now = 0
    /\ counters = [c \in Channels |-> [id \in Ids |-> Absent]]
    /\ active = [c \in Channels |-> 0]
    /\ stamp = [id \in Ids |-> 0] /\ gen = 0
    /\ readings = NoReadings
    /\ history = {} /\ seen = [col \in EntityColumns |-> [id \in Ids |-> 0]]
    /\ batches = 0 /\ backs = 0 /\ evictions = 0 /\ resets = 0

-----------------------------------------------------------------------------
StoreUnchanged == UNCHANGED <<counters, active, stamp, gen, history, seen>>

\* The wall clock goes on, or an administrator or NTP steps it back.
Tick ==
    /\ phase = "idle"
    /\ \/ clock' \in clock + 1 .. MaxClock /\ UNCHANGED backs
       \/ backs < MaxBack /\ clock' \in 1 .. clock - 1 /\ backs' = backs + 1
    /\ StoreUnchanged
    /\ UNCHANGED <<phase, rows, now, readings, batches, evictions, resets>>

\* query_all_channels: a counter that exists is advanced and read.
Query ==
    /\ phase = "idle"
    /\ batches < MaxBatches
    /\ rows' \in Batches
    /\ now' = clock
    /\ counters' = [c \in Channels |-> [id \in Ids |->
                      IF id \in IdsOf(rows', c.entity) /\ counters[c][id].initialized
                      THEN Advance(counters[c][id], clock, c)
                      ELSE counters[c][id]]]
    /\ readings' = [c \in Channels |-> [i \in DOMAIN rows' |->
                      IF IsId(rows'[i][c.entity])
                      THEN Reading(counters'[c][rows'[i][c.entity]], c.fn)
                      ELSE Zero]]
    /\ seen' = [col \in EntityColumns |-> [id \in Ids |->
                  IF id \in IdsOf(rows', col) /\ seen[col][id] # 0
                  THEN Max({seen[col][id], clock})
                  ELSE seen[col][id]]]
    /\ phase' = "read"
    /\ batches' = batches + 1
    /\ UNCHANGED <<clock, active, stamp, gen, history, backs, evictions, resets>>

\* The evaluation threw: the rows of the batch are not written.
Throw ==
    /\ phase = "read"
    /\ phase' = "idle" /\ rows' = <<>> /\ readings' = NoReadings
    /\ StoreUnchanged
    /\ UNCHANGED <<clock, now, batches, backs, evictions, resets>>

\* The next generation of the scratch; at the wrap all the stamps are cleared.
\* Mutant: the stamps survive the wrap.
NextGeneration_NoFill(s) == [s EXCEPT !.gen = (@ + 1) % StampLimit]

NextGeneration(s) ==
    LET next == (s.gen + 1) % StampLimit
    IN IF next = 0
       THEN [s EXCEPT !.gen = 1, !.stamp = [id \in Ids |-> 0]]
       ELSE [s EXCEPT !.gen = next]

\* One group: its rows are coalesced by entity, then every channel of the group
\* takes the same buckets.  An entity already stamped with this generation is
\* not touched again.
UpdateGroup(group, s) ==
    LET any == CHOOSE c \in group : TRUE
        ids == IdsOf(rows, any.entity)
        next == NextGeneration(s)
        touched == {id \in ids : next.stamp[id] # next.gen}
        Written(c, id) ==
            LET ec == Advance(s.counters[c][id], now, c)
                b == BucketOf(any, rows, id, now)
                added == AddBucket(ec, b, c.fn)
            IN IF Additive(c.fn)
               THEN [added EXCEPT !.total = @ + b.value, !.count = @ + b.count]
               ELSE added
    IN IF ids = {}
       THEN s
       ELSE [gen |-> next.gen,
             stamp |-> [id \in Ids |-> IF id \in ids THEN next.gen ELSE next.stamp[id]],
             counters |-> [c \in Channels |-> [id \in Ids |->
                 IF c \in group /\ id \in touched
                 THEN Written(c, id)
                 ELSE s.counters[c][id]]],
             active |-> [c \in Channels |->
                 IF c \in group
                 THEN s.active[c] + Cardinality({id \in touched : ~s.counters[c][id].initialized})
                 ELSE s.active[c]]]

\* update_all_channels, with the second the batch was read at.
Update ==
    /\ phase = "read"
    /\ LET before == [gen |-> gen, stamp |-> stamp, counters |-> counters, active |-> active]
           after == FoldSet(UpdateGroup, before, Groups)
       IN /\ gen' = after.gen
          /\ stamp' = after.stamp
          /\ counters' = after.counters
          /\ active' = after.active
    /\ seen' = [col \in EntityColumns |-> [id \in Ids |->
                  IF id \in IdsOf(rows, col) THEN Max({seen[col][id], now}) ELSE seen[col][id]]]
    /\ history' = history \cup {[batch |-> batches, index |-> i, row |-> rows[i],
                                 second |-> now, seen |-> seen'] : i \in DOMAIN rows}
    /\ phase' = "idle" /\ rows' = <<>> /\ readings' = NoReadings
    /\ UNCHANGED <<clock, now, batches, backs, evictions, resets>>

\* evict_stale_entities frees the counters not accessed for two durations.
\* Mutant: or for one.
Stale_OneDuration(ec, c) == ec.initialized /\ clock - ec.head >= c.duration - 1

Stale(ec, c) == ec.initialized /\ clock - ec.head > c.duration * 2

ActiveAfterEviction(c) ==
    active[c] - Cardinality({id \in Ids : Stale(counters[c][id], c)})

Evict ==
    /\ phase = "idle"
    /\ evictions < MaxEvictions
    /\ evictions' = evictions + 1
    /\ counters' = [c \in Channels |-> [id \in Ids |->
                      IF Stale(counters[c][id], c) THEN Absent ELSE counters[c][id]]]
    /\ active' = [c \in Channels |-> ActiveAfterEviction(c)]
    /\ UNCHANGED <<clock, phase, rows, now, stamp, gen, readings, history, seen,
                   batches, backs, resets>>

\* reset_all, and configure when a ruleset is installed: the counters are gone,
\* the scratch keeps its stamps.
Reset ==
    /\ phase = "idle"
    /\ resets < MaxResets
    /\ resets' = resets + 1
    /\ counters' = [c \in Channels |-> [id \in Ids |-> Absent]]
    /\ active' = [c \in Channels |-> 0]
    /\ history' = {} /\ seen' = [col \in EntityColumns |-> [id \in Ids |-> 0]]
    /\ UNCHANGED <<clock, phase, rows, now, stamp, gen, readings, batches, backs, evictions>>

\* The bounds are used up: not a deadlock.
Exhausted == phase = "idle" /\ batches = MaxBatches /\ UNCHANGED vars

Next == Tick \/ Query \/ Throw \/ Update \/ Evict \/ Reset \/ Exhausted

Spec == Init /\ [][Next]_vars

-----------------------------------------------------------------------------
(* Properties.                                                             *)

\* The rows of an entity that its counter must hold: those of the window that
\* ends at its latest access, and those that came after the clock was stepped
\* back, until the entity is next advanced.
LiveAt(c, id) ==
    {h \in history : /\ h.row[c.entity] = id
                     /\ \/ h.second > seen[c.entity][id] - c.duration
                        \/ h.seen[c.entity][id] = seen[c.entity][id]}

\* The reading a set of history rows amounts to.
ReadingOf(c, H) ==
    LET D(h) == DeltaOf(c, h.row)
        N(h) == CountOf(c, h.row)
        count == MapThenSumSet(N, H)
    IN CASE H = {} -> Zero
         [] H # {} /\ c.fn \in {"AVG", "RATIO"} ->
              IF count > 0 THEN <<CombineAll(c.fn, D, H), count>> ELSE Zero
         [] OTHER -> <<CombineAll(c.fn, D, H), 1>>

\* A counter never drifts from its history: whatever was added, expired bucket
\* by bucket, cleared or coalesced, on a clock that may step back, its reading
\* is that of the rows it must hold.  (An evicted counter holds nothing, and rows
\* that a step back of the clock then makes live again stay forgotten.)
CountersMatchHistory ==
    backs = 0 \/ evictions = 0 =>
      \A c \in Channels : \A id \in Ids : counters[c][id].initialized =>
        Reading(counters[c][id], c.fn) = ReadingOf(c, LiveAt(c, id))

\* README, Windows: "batch N sees state committed by earlier batches.  Same-batch
\* repeated entity rows do not see earlier rows from that same batch".  On a
\* clock that never steps back a row reads exactly the rows that earlier batches
\* wrote for its entity in the last duration seconds, evictions included.
ReadsTheWindow ==
    (phase = "read" /\ backs = 0) =>
        \A c \in Channels : \A i \in DOMAIN rows :
            readings[c][i] =
                IF IsId(rows[i][c.entity])
                THEN ReadingOf(c, {h \in history : /\ h.row[c.entity] = rows[i][c.entity]
                                                   /\ h.second > now - c.duration})
                ELSE Zero
=============================================================================
