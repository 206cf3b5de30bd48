--------------------------- MODULE WindowStoreInv ---------------------------
(***************************************************************************)
(* The inductive invariant behind CountersMatchHistory and ReadsTheWindow. *)
(* WindowStoreProofs proves it for every instance.                         *)
(*                                                                         *)
(* A counter is a set of buckets, each of which is the sum, or the least   *)
(* or greatest value, of the rows of one second; and what it is to hold    *)
(* moves with the latest access of its entity, which is its head.  The     *)
(* inline bucket and the extra ones may be of the same second when the     *)
(* clock has been stepped back, so that they divide the rows between them. *)
(***************************************************************************)
EXTENDS WindowStore

\* What LiveAt is when the latest access is at v.
LiveAfter(c, id, v) ==
    {h \in history : /\ h.row[c.entity] = id
                     /\ h.second > v - c.duration \/ h.seen[c.entity][id] = v}

OfSecond(M, s) == {h \in M : h.second = s}

\* A bucket is that of the rows M.
Amounts(b, M, c) ==
    LET D(h) == DeltaOf(c, h.row)
        N(h) == CountOf(c, h.row)
    IN b.value = CombineAll(c.fn, D, M) /\ b.count = MapThenSumSet(N, M)

\* One bucket for each second of the rows M.
Covers(B, M, c) ==
    /\ IsFiniteSet(B)
    /\ \A x, y \in B : x.second = y.second => x = y
    /\ \A h \in M : \E b \in B : b.second = h.second
    /\ \A b \in B : OfSecond(M, b.second) # {} /\ Amounts(b, OfSecond(M, b.second), c)

\* The running totals of an additive function are those of the rows.
Totals(ec, M, c) ==
    LET D(h) == DeltaOf(c, h.row)
        N(h) == CountOf(c, h.row)
    IN Additive(c.fn) => ec.total = MapThenSumSet(D, M) /\ ec.count = MapThenSumSet(N, M)

\* A counter holds the rows L.
Holds(ec, c, L) ==
    /\ \A x, y \in ec.inline : x = y
    /\ \E first \in SUBSET L : Covers(ec.inline, first, c) /\ Covers(ec.extra, L \ first, c)
    /\ Totals(ec, L, c)

\* A counter that is initialized holds its live rows; the rows of one that is
\* not have expired.
CounterOK(c, id) ==
    IF counters[c][id].initialized
    THEN counters[c][id].head = seen[c.entity][id] /\ Holds(counters[c][id], c, LiveAt(c, id))
    ELSE /\ evictions = 0 => seen[c.entity][id] = 0
         /\ backs = 0 => \A h \in history :
                            h.row[c.entity] = id => h.second <= clock - c.duration

CountersOK == backs = 0 \/ evictions = 0 => \A c \in Channels : \A id \in Ids : CounterOK(c, id)

SlotsOK ==
    \A c \in Channels :
        /\ active[c] = Cardinality({id \in Ids : counters[c][id].initialized})
        /\ \A id \in Ids :
              /\ IsFiniteSet(counters[c][id].inline) /\ IsFiniteSet(counters[c][id].extra)
              /\ IF counters[c][id].initialized
                 THEN seen[c.entity][id] > 0
                 ELSE counters[c][id] = Absent

\* No entity is stamped with the next generation.
StampsOK == \A id \in Ids : stamp[id] <= gen

SeenOK ==
    /\ phase = "read" => now = clock /\ rows \in Batches
    /\ backs = 0 => \A col \in EntityColumns : \A id \in Ids : seen[col][id] <= clock

\* Rows are written with an access of their entity, in a batch of their own.
RowOK(h) ==
    /\ \E batch \in Batches : \E i \in DOMAIN batch : h.row = batch[i]
    /\ h.second \in Nat \ {0}
    /\ h.batch \in 0 .. batches /\ (phase = "read" => h.batch < batches)
    /\ h.seen \in [EntityColumns -> [Ids -> Nat]]
    /\ \A col \in EntityColumns : \A id \in Ids :
          h.row[col] = id =>
              /\ h.second <= h.seen[col][id] /\ h.seen[col][id] <= seen[col][id]
              /\ backs = 0 => h.seen[col][id] = h.second

HistoryOK == IsFiniteSet(history) /\ \A h \in history : RowOK(h)

StoreInv == TypeOK /\ SlotsOK /\ StampsOK /\ SeenOK /\ HistoryOK /\ CountersOK
=============================================================================
