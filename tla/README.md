# BlazeRules: TLA+ models, model checking and proofs

BlazeRules evaluates batches of records against rules written in YAML: it takes
records from Kafka, HTTP, files or memory, turns them into columns, computes one
mask of rows per rule, reduces the masks to one decision per row, and writes the
decisions. This directory holds TLA+ models of the parts of that program whose
correctness depends on interleavings, on failures, on long sequences of calls, or
on several representations of one thing agreeing with each other; the TLC
configurations that check them; and TLAPS proofs of the properties that matter most.

Line numbers refer to the repository at the modelled commit, under `src/`:
`engine.cpp` is `src/src/core/engine.cpp`, `README.md:n` the repository's README.

- [1. The system](#1-the-system)
- [2. Plan](#2-plan)
- [3. The models](#3-the-models)
- [4. The runs](#4-the-runs)
- [5. Fairness](#5-fairness)
- [6. What is proved](#6-what-is-proved)
- [7. Disagreements found](#7-disagreements-found)
- [8. What is not modelled](#8-what-is-not-modelled)

Running it: `tlc -workers 2 -config X.cfg M` for a run of the table in section 4,
`tlapm M.tla` for the modules whose name ends in `Proofs`.

## 1. The system

```
 Kafka --> run_stream ----+                       +--> decisions to Kafka, DLQ
 HTTP, stdin, files --> agent --+                 +--> agent output: file, S3 parts
 CLI, Python ------------------ | --> RuleEngine -+
                                      | per batch
     rules YAML --> parsers --> compiler --> ruleset
                                      |
     records --> transposer/encoder --> columns
                 --> window store (read) --> orchestrator + kernels --> decisions
                 --> window store (write)
```

| Component | State | Operations | What is hard | What makes it correct |
|---|---|---|---|---|
| Kafka stream runtime (`io/stream_runtime.cpp`) | bounded queue per worker, completed queue, commit accumulator, pending outputs, stop flag | poll, dispatch, evaluate, produce, collect, flush, commit, shutdown | three kinds of threads; asynchronous delivery reports; failures of any thread; crash and restart | no offset is committed past an unsettled message; a failed batch is not skipped; the call ends whatever fails |
| Kafka client wrappers (`io/kafka.cpp`) | producer queue, error counter | produce, flush, poll, commit | reports are served by whichever call polls first | a flush that returns true means delivered |
| Rule engine life cycle (`core/engine.cpp`) | schema state, pending rules, current ruleset, partition shards, window/projection set-up, watcher | load, reload, bind, evaluate, grow shards, clear, watch | reload beside batches on several engines, each with a lock; two-step activation; a file that changes meanwhile | a batch sees one ruleset; a reload reaches every engine or none; the rules fit the schema |
| Window store (`core/window_store.cpp`) | ring of one-second buckets and running totals per entity and channel, coalescing scratch | query, update, evict, reset | what expires is subtracted once; clocks that step back; wrap of a generation stamp | a row reads exactly the window of the earlier batches |
| Transposer (`core/transposer.cpp`) | columns under construction, validity bits, error counts and samples, a learned layout | append a record, take a broken one back, read a stream in chunks and merge them | a record that breaks in its middle; workers that start over; state kept from batch to batch | each good record is its row, each error is counted and sampled where it is |
| Dictionary encoder, closed sets | dictionaries, columns of codes or bit masks | encode JSON, Arrow, Arrow dictionaries; freeze literals | three encodings of one text and literals frozen separately; a full dictionary | a rule on texts decides as on the texts |
| Ingestion in the engine (`core/engine.cpp`) | bound schema, projection, `any_match` channels, ingest counters | choose the columns to fill, align Arrow batches, skip, refuse, dead-letter | JSON and Arrow take two copies of the code; the policy is applied in steps | both forms of a batch give the same columns; nothing is skipped unnoticed |
| Parsers (`compiler/dsl_parser.cpp`, `compiler/sql_expr_parser.cpp`) | none between calls | read a rule file, read a condition as text | two notations of one thing, nesting, precedence | what is read is what was meant |
| Compiler, conflict detection (`compiler/compiler.cpp`, `compiler/conflict.cpp`) | none between calls | validate, bind fields, derive columns, invert NOT, share predicates, build plans, rank decisions, report conflicts | columns and predicates shared between rules by key; inverted operators; edges of ranges | a plan selects the rows that were meant; what the report says is so; ranks follow the precedence |
| Orchestrator and kernels | masks, survivors, best decision per row, counts per worker | evaluate a morsel, reduce, assemble | several threads on one batch; shared scratch; short last morsel | masks are the Boolean meaning; the highest rule decides; counts agree |
| Schema inference (`core/schema_inference.cpp`) | samples | what the rules need of a field, what a sample holds, choose type, width, nullability, closed set | a schema bound for good from a few records | the schema holds at least what it was inferred from |
| Model registry, vector channels | models by name | register, score | sharing between engines | arithmetic, mostly |
| Agent (`agent/main.cpp`) | evaluation and sink queues, engine pool, deduplication window, open output part, rolled parts | accept, evaluate, write, acknowledge, roll, upload, tail a file, shut down | request, evaluator, sink, upload threads; acknowledgement against durability; rotation of files | an acknowledged record has its decision; no record is split or lost |
| Decoders, file reader, CDC | offsets in a file | decode, chunk | record boundaries | every record once |
| Resource resolver | cache on disk | resolve, upload, synchronise | processes that share the cache | a cached file is the whole resource |
| Dashboard | rings of history, tail offsets | collect, serve | collectors beside requests | counts agree with the log |
| CLI, Python bindings, build, charts | none of their own | drive the others | | |

The components meet in three ways. *Calls under a lock*: everything done for one
batch happens inside one `RuleEngine::evaluate_*` call under that engine's
`state_mutex_`, so the transposer, encoder, window store and orchestrator of one
engine never see two batches at a time. *Queues*: the stream runtime and the agent
move batches between threads through bounded queues, and each worker owns an engine
(a shard), so that they share no engine state. *Shared pointers*: a ruleset is
replaced by swapping a pointer, while a batch keeps the one it has observed.
The models cut the system at these places.

The hazards of the code, with the line where each one bites and the properties that
would catch it, are listed in `PROJECT.json` under `hazards`.

## 2. Plan

In order of how much depends on the part, and how little a test reaches it:

1. `KafkaStream`: the streaming pipeline, its abstract promise `AtLeastOnce`, the
   inductive invariants `KafkaStreamInv`, and the proofs. **Done**: every safety property
   and the refinement are proved.
2. `WindowStore`: counters against windows of the whole history, the inductive invariant
   `WindowStoreInv`, and the proofs. **Done**: both safety properties are proved.
3. `RuleEval`: plans, morsels, decisions, the inductive invariant `RuleEvalInv`, and the
   proofs. **Done**: every safety property that holds is proved.
4. `Categorical`: the encodings of texts, the inductive invariant `CategoricalInv`, and the
   proofs. **Done**: the property of its run is proved, and that codes are injective, bounded
   and kept.
5. `RuleEngine`: binding, loading, hot reload, shards. **Done**: every safety property
   that holds is proved.
6. `AgentHttp`: handlers, evaluators and sinks, the engine pool, acknowledgement
   modes, deduplication, shutdown, and its abstract promise `RequestPromise`. **Done**:
   every safety property that holds and the refinement are proved.
7. `RuleLoading` over `Conditions`, `SqlExpression`, `RuleDocument`, `RuleCompiler`,
   `RuleConflicts` and `RuleWriting`: a rule file from its text to the rows it selects.
   **Done**.
8. `Ingest` over `Records`, `Inference` and `Transposer`: a batch from its records to its
   columns, with schema inference, malformed records and the error policy. **Done**.
9. `AgentFiles`: tailing a log that is rotated, truncated or half written; rolling parts
   and uploading them beside the writer; end and restart of the process. **Done**: every
   safety property is proved.
10. `ResourceCache`, `DashboardHistory`: the shared cache on disk, rings and tail offsets.
11. Composition: `KafkaStream` with `RuleEngine` shards that may be unbound (`NoSilentBatch`,
    and a commit of what such a batch consumed), and `AgentHttp` with
    `RuleEngine`.

The modules about concurrent parts and state kept between calls (1 to 6, 9) have constants for
their parameters, one action per operation and no recursive operator, so that they can be
proved about. The
modules about data (7, 8) are recursive as the code is, and are model-checked only.

## 3. The models

### KafkaStream (with AtLeastOnce, KafkaStreamInv)

`run_stream` and everything it starts. The main thread is at `mpc`: it polls at most
the batch size (`Poll`, `PollNothing`, `PollError`), groups the messages by worker
(`Assignment` is `worker_for`), pushes one batch to each worker's queue
(`DispatchPush`, which blocks on a full queue), commits what the accumulator offers
(`LoopCommit`), and shuts down in the order of the code: close the worker queues, join
the workers, close the completed queue, join the delivery thread, last commit
(`CloseQueues`, `JoinWorkers`, `JoinDelivery`, `FinalCommit`). A worker (`wpc`)
starts, pops, evaluates, pushes its result, or fails; `Capture` is the first-exception
record that stops the others and closes the queues. The delivery thread (`dpc`) pops,
produces one output at a time, collects, flushes when the queue is quiet, large or
closed, and acknowledges. The broker resolves outputs when it likes (`BrokerStores`,
`BrokerRefuses`); a failed report waits in `nacks` until *some* client call serves it
(`ServeReports`), which is the point of finding `kafka_delivered`.
`Restart` is a crash at any point or a further call after the previous one returned;
only `committed` and the history variables survive it.

A batch is a set of messages: the order inside a batch is that of the poll and no
property looks at it. Offsets are small numbers; payloads are classes (`Tombstones`,
`Failing`, `Silent`). History variables (`evaluated`, `acked`, `reported`,
`delivered`, `lost`) record what happened and guard no action.

`AtLeastOnce` is what a consumer group may expect: messages are settled in any order
and committed offsets move forward, only past settled messages. `KafkaStream`
implements it with `settled` as the set of messages that were evaluated and whose
outputs, if any are due, were reported on.

### RuleEngine

Engine 0 is the caller's, engine *i* its partition shard. Each has a lock, a schema,
pending rules, an observed ruleset pointer, and `configured`: the ruleset its window
store, projection and array channels were set up for. Actions follow the locks of the
code. A batch: `StartBatch`, on a partition `EnsureShards`, `GrowShards`, `FetchShard`
(`ensure_partition_shards`), then `Enter` (the lock), `EnsureSchemaBound` and
`CompilePending` (deferred activation), `Observe` (load the pointer), `FinishBatch`.
A load: `StartLoad`, `Parse` outside the lock, `InstallOrDefer` and `BuildRules` under
the engine's, `InstallShard` under each shard's, `FinishInstall`. `InstallOnUnbound` is the
end of the process when the loop meets a shard that has no schema, and so no transposer,
yet: one that was made while the engine was unbound. The watcher:
`StartWatch`, `PollExists`, `PollStamp` (its two looks at the file), `StopWatch`, and
on a failure without `hot_reload_keep_previous_on_failure` `ClearMain`, `ClearShard`,
`FinishClear`, which take no lock of the engine. `WriteFile` is the operator.

A rules file is its content, and a content is what becomes of it: `Broken` does not
parse, `Invalid` does not compile, `Flaky` reads a lookup that may be unreadable,
`Growing` has an `array_any` condition that adds a field to the schema. A schema is
declared, or inferred for a content from a sample and grown since.

Abstractions. A write gives the file a new modification time. The race of
`start_hot_reload`'s own look at the file is left out. A shard that is created while
`clear_ruleset` iterates over the shards makes the loop's iterators invalid: the model
lets the loop skip the rest, the mildest outcome. The process that has ended, by
`std::terminate` in the watcher or by the null transposer, is the state in which all
threads are `"dead"`.

### WindowStore

`EntityCounter`s per channel and entity id, read by `Query` before a batch is
evaluated and written by `Update` after it; `Throw` is an evaluation that fails in
between, `Tick` the wall clock (which may step back), `Evict`, `Reset`. `Advance`
subtracts expired buckets, `AddBucket` coalesces into the last second, `UpdateGroup`
is the two-pass coalescing of a batch with its generation stamp, which wraps at
`StampLimit` (2^32 in the code). The inline and the overflow buckets are two sets, as
their bounds differ. `history` keeps every row written since the last reset; nothing
but the properties reads it.

### RuleEval

`evaluate_rules`: workers `Claim` morsels, `EvaluateRule` one rule after the other on
theirs, `Release`; `Assemble` sums the counts. A rule is a plan, a sequence of nodes
whose children come first, as `build_global_plan` lays them out. `Evaluate` follows
`ExprEvaluator` node by node, with the survivors vector it shares between the levels
of one rule, the selection threshold and the adaptive order by `ExprCost`; `Meaning`
is the reference: the Boolean value of the condition on a row. `Reduced` and `Wins`
are the reduction, `DecisionRank` and `ActionRank` the two ranks of a decision. Which
rows satisfy a predicate is chosen at the start, all possibilities.

### Categorical

One column of texts per field, through its encodings: masks of bits below `BitWidth`
closed values, single codes above (`JsonSlot`), dictionary codes (`Added`,
`ArrowSlot`). `EnsureBound` infers or takes the closed set and the nullability;
`EvaluateJson` and `EvaluateArrow` (plain and dictionary arrays) come in any order,
with `Load`s of new rules between them. Literals are resolved against the dictionary
once the batch is encoded (`ResolvedAgainst`, for `build_resolved`), and every
predicate is evaluated on codes (`Matches`). The reference, `Says`, decides on the
texts.

### AgentHttp (with RequestPromise)

`run_http` and the threads it starts. A handler (`Post`, `PostRefused`) puts its
request into the evaluation queue, or answers 429, and waits until someone completes
it. An evaluator (`wpc`, `http_eval_loop`) pops a request, passes the serial lock as
long as there is no engine pool (`LockSerial`, `CheckPool`), and evaluates the batches
of the request one after the other: `DropDuplicate` skips what the deduplication
window has seen, `Acquire` takes an engine (and marks the record as seen: in the code
too this comes before the evaluation), `Evaluate` or `EvaluateThrows` gives it back.
`FinishRequest` is `maybe_init_pool`, tried once; then `Push` hands the results to the
sink queue, or `PushRefused` answers 503, and `Ack` answers at once if `ack_mode` is
`evaluated`. A sink (`spc`) writes one result after the other (`SinkWrite`; the stream
may or may not be flushed with it), answers in durable mode (`SinkDone`), or fails
half-way (`SinkThrows`). `Stop`, `ListenReturns`, `JoinEval` and `JoinSink` are the
shutdown.

A request is the sequence of its batches and a batch is named by the record in it, so
two requests can carry the same record. A configuration is a record of the settings
that decide the control flow; TLC starts from each of the set `Configs`. Left out: sizes,
formats and the refusals they lead to (400, 413), the time to live of the deduplication
window (nothing expires), the failure of `create_shards`, statistics, `/healthz`. With
deduplication a batch holds one record, that is `batch_size` 1.

`SinkThrows` stands for the errors that are thrown. A local NDJSON stream that fails without
throwing (a full disk) is not noticed by the code, which does not look at the state of
`out_file_` after it writes (`main.cpp:1205`): such a loss is not modelled, and *written*
means given to the stream.

`RequestPromise` is what a client may rely on: a request is answered once, and 200
says that its batches are processed, where *processed* means written in durable mode,
evaluated in mode `evaluated` or without an output, and a duplicate is owed nothing.

### RuleLoading (with Conditions, SqlExpression, RuleDocument, RuleCompiler, RuleConflicts, RuleWriting)

A rule file from its text to the rows it selects: `ParseFile` (`parse_rules_file` and the
conflict report), `InstallRules` (validation and compilation against the bound schema),
`EvaluateBatch` (encoding, masks, plans). Each of the modules below is one file of the
code:

- `Conditions`: a condition of any kind as one record, and `Holds` of each kernel on a
  cell: numbers, ranges, categories, strings, patterns, nulls, bits, times of day,
  lookups, subnets, arithmetic, distances, cross-field comparisons, lengths, members.
- `SqlExpression`: lexer and recursive descent of `sql_expr_parser.cpp`, with the depth
  limit and the splitting of `any_match` arguments. A text is a sequence of pieces.
- `RuleDocument`: `dsl_parser.cpp` on a tree of scalars, lists and maps: field hints,
  lookups, decisions, rules, every form of a condition, and the errors.
- `RuleCompiler`: `ValidateCondition`, `AllocateColumn` (windows, models, vectors and
  `any_match` channels shared by key), `CompileCondition` with inverted operators,
  lookups and `NormalizeRanges`, the shared plan and its costs.
- `RuleConflicts`: intervals and value sets per rule, `AnalyzeConflicts`.
- `RuleWriting` is the reference and models no code: how a meant condition is written in
  YAML and in SQL, and the rows it selects.

Windows, models, vectors and the elements of arrays are computed elsewhere; here they
are a function of everything in their key (`Computed`, `Elements`), so that two
conditions that share a column by mistake read a wrong value.

### Ingest (with Records, Inference, Transposer)

A batch from its records to its columns. `Records` is what a record is, as JSON and as
Arrow, and the two copies of the `any_match` evaluation; `Inference` is
`schema_inference.cpp`; `Transposer` is `transposer.cpp` with a transposer as a record and
its operations as operators (`AppendDocument`, `AbortMalformedRow`, `ParseLinesSafe`,
`ParseNdjsonParallel` with the layout it learns, its chunks and their merge, `Reset`); `Ingest` is the engine's part, with the actions
`LoadRules`, `EvaluateJson` (messages, NDJSON, arrays, cut into chunks in every way),
`EvaluateRecordBatch` and `FailToBind`. A load or an evaluation is one step, as the code
holds the engine's lock for all of it; the workers of one batch share nothing before they
are merged, so that the merge is what matters about them. Messages (those of Kafka, of a
partition, of the agent) take the way of NDJSON: `add_json_messages` joins them, a line
each, and the text is split over the cores like any other; both come in every cut.

A record is an object, possibly cut off after some of its fields, another JSON value,
garbage, or a blank line. Numbers count halves. Validity is kept as sets of bits with a
number of bytes, as the merge moves bytes where it can.

### AgentFiles

`run_file_tail` is a program counter: `Top` (the loop's test of `g_stop`), `GetLine` and
`EndOfFile` (the inner loop), `LookAtPath` (the `stat`), `Reopen`, then `Wait` or
`FlushBatch`, and `Leave`. The log is written, renamed, created, reopened and truncated
by something else between any two of these (`AppendToLog` and its fellows, which model
no code). A line that has no end yet is given by `getline` like any other. Decisions go
to the stream's buffer (`Keep`), to the part (`Flush`) or end it (`Roll`, `maybe_roll`).
`SyncBegins` to `SyncRemoves` is `s3_sync_loop`: the parts to remove are noted before the
directory is uploaded file by file. `Joined`, `Close`, `LastUpload` and
`LastUploadFails` are the destructor. `Crash` empties what is in memory; `Restart` is a
new process with a new run id that reads from the end of the log. The run id is the
clock in milliseconds (`InstanceRunner`'s constructor); that two runs do not start in the
same millisecond, and that the clock is not set back between them, is assumed.

A decision is the line it is about. `past` is history and guards nothing.

### Proof modules

`KafkaStreamInv`, `WindowStoreInv`, `RuleEngineInv`, `AgentHttpInv`, `RuleEvalInv` and
`CategoricalInv` define the inductive invariants of their component; those of `AgentFiles` are in `AgentFiles`. The
proofs are in

- `KafkaStreamProofs`: types, the pipeline invariant and `CommitSafety`, order, refinement,
  failures, shutdown;
- `WindowStoreProofs`: buckets that cover rows, counters, one group of channels after the
  other, the invariant;
- `RuleEngineProofs`: locks and batches, what a reload does;
- `AgentHttpProofs`: the pool of engines, the answers;
- `AgentFilesProofs`;
- `RuleEvalProofs`: what a plan selects, ranks, masks, counts and decisions;
- `CategoricalProofs`: dictionaries, slots, what a predicate says of a slot, the steps;
- `FoldTheorems`, which the proofs about `WindowStore`, `RuleEval` and `Categorical` share: sums, greatest
  elements and folds over finite sets, recursive functions over numbers, folds over
  sequences, sorting. Nothing in it is about this program.

`Sorting` says what `std::sort` gives: an order of the elements by their keys, with those of
the same key in an order of its choice. Section 6 says what the proofs show.

## 4. The runs

Runs that pass:

| Run | Asks | Bounds |
|---|---|---|
| `kafka_crash` | Is anything committed past an unsettled message (`CommitSafety`), or past a message whose evaluation failed (`PoisonNotCommitted`)? Is a partition evaluated in order (`EvaluatedInOrder`)? Does the pipeline implement `AtLeastOnce`? | 1 partition of 4 messages: a tombstone, one without output, a poison message and no dead-letter topic; 2 workers, queues of 1, `max_messages` 3, one fault, one crash or further call |
| `kafka_faults` | Has a call that returns normally committed all it polled (`CleanExit`), are lost outputs counted (`CleanStats`)? Does the call end after any failure (`StopReturns`) and any shutdown (`ShutdownReturns`)? | 2 partitions of 2 on 2 workers, queues of 1 so that every push can block, grouped output, a poison message with a dead-letter topic, one fault anywhere |
| `engine_reload` | Does a batch keep its rules (`BatchKeepsRules`)? Does a reload that succeeds reach every engine (`ReloadReachesEngines`) and one that fails change no rules and no schema (`FailedReloadKeeps`)? | declared schema; 2 workers, a loader, the watcher, 2 shards, contents that do not parse, do not compile although they would grow the schema, or grow it, a file that vanishes |
| `engine_inferred` | Do the rules of the engine fit its schema (`MainRulesFit`), with inference, unlearnable first batches, lookups that fail for a while and reloads that grow the schema? As long as the process runs, do batches end (`BatchesFinish`), and does a change of the file come into force (`ReloadConverges`)? | 1 worker, 1 shard, rules cleared by a failed reload |
| `agent_http` | Is every request answered once, and 200 only if it is processed (`ImplementsPromise`)? Is a refused request absent from the output (`RefusedNotWritten`)? Is no engine shared or lost (`EnginesExclusive`)? Do requests stay in order with deduplication (`DedupeInOrder`)? Does every queued request get its answer (`AnswersCome`), and does the shutdown end (`ShutdownEnds`) without losing an acknowledged decision (`CleanShutdown`)? | 3 requests, one of two batches, one that throws (and is exempt from deduplication), one that repeats a record; 2 evaluators, 1 sink, queues of 1, one failing write; configurations: durable, evaluated, no output, deduplication |
| `window_store` | Does a counter ever drift from its history (`CountersMatchHistory`)? Does a row read exactly the window of the earlier batches (`ReadsTheWindow`)? | 7 channels: every function, two durations in one update group; 2 entities, clock to 7 that steps back once, stamp that wraps at 7, 3 batches, an eviction, a reset |
| `eval_parallel` | Do masks, winners and counts depend on how the morsels are shared (`MasksAreMeanings`, `WinnerIsHighest`, `CountsAgree`)? | 2 workers, a full and a cut morsel, every truth of 3 predicates |
| `categorical_mixed` | Over batches of three encodings, reloads and a dictionary that fills up: do rules decide by the texts (`VerdictsExact`)? | 2 fields, 4 texts, dictionary of 3, 4 calls |
| `rule_loading` | Is what is read what was meant, in both notations and with any nesting (`ReadsAsWritten`)? Does a compiled rule select the rows its author meant, whatever it shares with other rules (`CompiledMeansWritten`)? Is the conflict report true of the rows (`ReportIsTrue`)? Do merged ranges hold exactly the listed addresses (`LookupsExact`)? | every kind of condition with every operator, alone, under one and two NOTs and joined with another; all pairs of computed columns and of numeric conditions; every SQL tree of three levels over two atoms; 3 batches of 2 or 3 of 5 rows (nulls and a NaN among them), 2 evaluations; addresses of 3 bits |
| `ingest` | Is every good record its row, and nothing else in it, between broken records and in any cut into chunks (`RowsAreDocuments`)? Are errors counted once and sampled at the right record (`ErrorsPointHome`)? Do JSON and Arrow give the same columns (`ArrowReadsAsJson`)? Does an inferred schema hold its sample (`SampleFits`)? Is everything skipped also dead-lettered, or the batch refused (`SkippedAreDeadLettered`)? | streams of up to 3 records of a few shapes, as messages or NDJSON in every cut, array or Arrow; given and inferred schema; courses of two inputs, or of three with two reloads; 3 rule files; 3 policies; bytes of 2 bits, masks of 2 values |
| `agent_files` | Is a decision removed before it is in the bucket (`DecisionsKept`)? Is the log read in order and nothing twice (`ReadOnceInOrder`)? Is nothing left when a run has ended (`ExitIsComplete`)? Does the tail catch up with the file the path names (`TailCatchesUp`)? | 2 to 4 characters; a rename, a truncation, or two and one; 2 uploads with a failure, a crash or a signal; a last upload that fails up to 3 times; batches of 2, parts of 2 lines |

One run ends in a violation: `kafka_delivered` checks a statement of the repository
which the code does not meet; section 7. There is a run for each question that TLC
answers best; type invariants, the inductive invariants of the proofs and
`CommitMonotone` are not in any of them: the theorems of section 6 state the former for
every instance, and adding them to a configuration checks them on its instance.

Why the bounds are enough to be interesting. In `KafkaStream` a wrong commit needs two
batches of one partition in different places (three messages, and a fourth behind the
limit), a second partition for the affinity of workers, one fault at a place of TLC's
choosing, and one restart to make it visible; queues of one make every thread block on
every other. In `RuleEngine` two workers, a loader and the watcher on two engines give
each pair of critical sections and each order of locks; the second shard exists so
that one is installed while the other waits. In `AgentHttp` a full queue needs one
request evaluated, one queued and one at the door; the request of two batches returns an
engine to the pool and takes one again while the other evaluator waits for it, and its
two results can be half written; the failing batch is tried before, while and after
the pool is built. In `WindowStore` the clock passes the
longest duration twice, so that every bucket expires and is reused; the stamp wraps
within three batches instead of after 2^32 groups. In `RuleEval` three predicates give
every shape of an operator below an operator, and a morsel of two rows has a proper,
an empty and a full subset. In `Categorical`, `BitWidth` is 3 instead of 63, so that
rulesets of two and of three literals fall on both sides.
In `RuleLoading` the longest derived-column key has five parts, and pairs of windows
differ in each of them; three levels of SQL are what tells precedence from order, and
the depth limits are 6 and 3, so that trees fall on both sides. In `Ingest` three
records with bytes of two bits put a broken record before, at and behind the boundary of
a byte, three chunks make the merge move whole bytes and single bits, and three samples
are fewer than the errors of a batch. In `AgentFiles` a rename needs one line before and
one after it in each of two files; a truncation that is noticed and one that is not
differ in one character; a part must be finished while the directory is uploaded, and
removed after the second upload. `MaxFaults`, `MaxRestarts`,
`MaxBatches`, `MaxLoads`, `MaxWrites`, `MaxClock`, `MaxBack`, `MaxEvictions`,
`MaxResets` and `MaxCalls` only end the behaviours; the proofs hold for all their
values.

Every property has a mutant, an operator beside the definition it changes
(`NextOffsets_OffByOne`, `Install_MainOnly`, `Stale_OneDuration`, ...): a bug the code could
plausibly have and the property that notices it.

## 5. Fairness

`KafkaStream!FairSpec` is weak fairness of the main loop, of each worker, of the
delivery thread and of `BrokerStores`: the scheduler runs every runnable thread,
`condition_variable` waits end when their condition stays true, and a produced output
is not left unresolved for ever (librdkafka reports every message within its message
timeout; `BrokerRefuses` may come first). No fault, crash or failing commit is owed.

`RuleEngine!FairSpec` is weak fairness of every thread *inside* a call: a thread that
has started a batch or a load goes on. Starting one, writing the file and starting or
stopping the watch are not fair. Weak fairness also stands for the granting of locks:
batches and loads are bounded in the model, so that a waiting thread is eventually
alone; the code uses `std::mutex`, which promises no order among waiters under
unending load, and the model claims none. `ReloadConverges` promises that a
change of the file comes into force, or waits as the pending rules of an engine that
is still unbound, only as long as the watcher and the process run and the file does not
change again, and for contents whose lookups are always readable. The process may end in a
load or a batch, on an unbound shard, and in the watcher's look at the file (section 7);
`BatchesFinish` and `ReloadConverges` claim nothing beyond that. The fairness of `Spread`
includes the step that ends it there.

`AgentHttp!FairSpec` is weak fairness of each evaluator, each sink and the thread of
`run_http` once it has been stopped: runnable threads run, and the serial lock and the
pool's engines are granted. The requests are finitely many, so that no evaluator can
be overtaken for ever; `std::mutex` promises no more. No request, signal or fault is
owed.

`AgentFiles!Spec` is weak fairness of the thread of the tail: it never blocks for good, as
it polls every 200 ms. It is strong fairness of writing a batch that has waited for
`flush_ms`: the steps of the model do not count time, and a batch that is held is at this
place again and again, each time with more time gone. No append, rename, upload, signal,
crash or restart is owed, and uploads may fail as often as the course says.

`WindowStore`, `RuleEval`, `Categorical`, `RuleLoading` and `Ingest` have no liveness
properties: they are sequential, or end by construction.

## 6. What is proved

For all values of the constants that satisfy the modules' assumptions:

| Theorem | States |
|---|---|
| `KafkaStreamProofs!TypeCorrect` | `Spec => []TypeOK` |
| `KafkaStreamProofs!PipelineInvariant` | `Spec => []PipelineInv` |
| `KafkaStreamProofs!CommitsAreSafe` | `Spec => []CommitSafety`: no offset is committed past a message that is not settled |
| `KafkaStreamProofs!OrderInvariant` | `Affine => (Spec => []OrderInv)`: the batches of a partition stay in order through the pipeline |
| `KafkaStreamProofs!CommitsMoveForward` | `Spec => CommitMonotone`: the group's offset never moves back |
| `KafkaStreamProofs!PipelineImplementsAtLeastOnce` | `Spec => ImplementsAtLeastOnce`, in every configuration |
| `KafkaStreamProofs!EvaluationIsOrdered` | `Affine => (Spec => EvaluatedInOrder)` |
| `KafkaStreamProofs!PoisonIsNotCommitted` | `Spec => []PoisonNotCommitted`: without a dead-letter topic, what fails is not committed |
| `KafkaStreamProofs!JoinInvariant` | `Spec => []JoinInv`: whatever fails, all workers have ended when the main thread joins the delivery thread, and that one has when the last commit is made |
| `KafkaStreamProofs!ShutdownInvariant` | `Spec => []ShutdownInv`: where offsets are committed and nothing failed, a thread ends when nothing is left for it, and what was polled is committed, about to be, or in flight |
| `KafkaStreamProofs!StatsAreClean` | `Spec => []CleanStats`: a call that reports no delivery error has lost no output |
| `KafkaStreamProofs!ExitIsClean` | `Spec => []CleanExit`: a call that returns normally has committed all it polled |
| `WindowStoreProofs!StoreInvariant` | `Spec => []StoreInv` |
| `WindowStoreProofs!WindowTypeCorrect` | `Spec => []TypeOK` |
| `WindowStoreProofs!CountersMatch` | `Spec => []CountersMatchHistory`: no counter drifts from the rows it must hold |
| `WindowStoreProofs!RowsReadTheWindow` | `Spec => []ReadsTheWindow`: on a clock that goes forward, a row reads exactly the window of the earlier batches |
| `RuleEngineProofs!EngineInvariant` | `Spec => []EngineInv`: the ruleset in force is the one its engine is set up for; batches, loads and the adding of shards hold the lock of the engine they work on |
| `RuleEngineProofs!EngineTypeCorrect` | `Spec => []TypeOK` |
| `RuleEngineProofs!BatchesKeepTheirRules` | `Spec => []BatchKeepsRules`: the ruleset a batch uses is the one its engine's windows and projection are set up for, until the batch ends |
| `RuleEngineProofs!BatchesOwnTheirEngine` | `Spec => BatchOwnsEngine`: while a batch is in its engine's critical section, nobody else changes the schema, pending rules or set-up of that engine, and its ruleset may be taken away but not replaced |
| `RuleEngineProofs!RejectedIsNowhere` | `Spec => []AcceptedInv`: rules that do not parse or compile are in force nowhere and on the way nowhere, and no engine has rules without a schema |
| `RuleEngineProofs!MainRulesFitSchema` | `Spec => []MainRulesFit`: the caller's engine has rules of its own schema, declared, inferred or grown |
| `RuleEngineProofs!FailedReloadsKeep` | `KeepPrevious => (Spec => FailedReloadKeeps)`: a failed load takes no rules away, and a schema is bound again only with rules compiled for it |
| `RuleEngineProofs!ReachInvariant` | `Declared /\ KeepPrevious => (Spec => []ReachInv)` |
| `RuleEngineProofs!ReloadsReachEngines` | `Declared /\ KeepPrevious => (Spec => []ReloadReachesEngines)`: a load that has returned is in force on the engine and every shard |
| `AgentHttpProofs!PoolInvariant` | `Spec => []PoolInv` |
| `AgentHttpProofs!EnginesAreExclusive` | `Spec => []EnginesExclusive`: two evaluators are never on one engine, and the pool accounts for each of its engines once |
| `AgentHttpProofs!AgentTypeCorrect` | `Spec => []TypeOK`, with the bounds of the two queues |
| `AgentHttpProofs!KeepsPromise` | `Spec => ImplementsPromise`: the agent implements `RequestPromise` |
| `AgentHttpProofs!AnsweredIsProcessed` | `Spec => []AnsweredInv`: what was answered 200 is processed, and stays so |
| `AgentHttpProofs!PlaceInvariant` | `Spec => []PlaceInv`: where the requests are, and who may answer them |
| `AgentHttpProofs!RefusedIsNotWritten` | `Spec => []RefusedNotWritten` |
| `AgentHttpProofs!ShutdownIsClean` | `Spec => []CleanShutdown`: unless a write failed, what was answered 200 is written and flushed at the end |
| `AgentHttpProofs!DedupeIsInOrder` | `Spec => []DedupeInOrder` |
| `AgentFilesProofs!FilesInvariant` | `Spec => []FilesInv`: types, names of parts, and what an upload may remove |
| `AgentFilesProofs!DecisionsAreKept` | `Spec => []DecisionsKept`: no written decision is removed before it is in the bucket, for any number of parts, uploads, failures, crashes and restarts |
| `AgentFilesProofs!ExitsComplete` | `Spec => []ExitIsComplete`: a run that ends with a successful upload has left nothing behind |
| `AgentFilesProofs!ReadInvariant` | `Spec => []ReadInv` |
| `AgentFilesProofs!ReadsInOrder` | `Spec => []ReadOnceInOrder`: the log is read in order and nothing of it twice |
| `RuleEvalProofs!EvalInvariant` | `Spec => []EvalInv` |
| `RuleEvalProofs!EvalTypeCorrect` | `Spec => []TypeOK` |
| `RuleEvalProofs!MorselsApart` | `Spec => []JobsApart`: no two workers evaluate the same morsel |
| `RuleEvalProofs!CountsCorrect` | `Spec => []CountsAgree`: the workers' counts add up to the masks, however the morsels are shared |
| `RuleEvalProofs!DecisionsCorrect` | `Spec => []DecisionsFollowMasks`: a row's decision is at all times that of the highest rule whose mask has it |
| `RuleEvalProofs!MasksCorrect` | `StraightPlans => (Spec => []MasksAreMeanings)`: the masks are the Boolean meanings of the conditions |
| `RuleEvalProofs!WinnerCorrect` | `StraightPlans => (Spec => []WinnerIsHighest)` |
| `CategoricalProofs!CodesInvariant` | `Spec => []CodesInv` |
| `CategoricalProofs!CategoricalTypeCorrect` | `Spec => []TypeOK`: a text has one code, and the bounds of dictionaries and masks |
| `CategoricalProofs!VerdictsCorrect` | `ListedOnce => (Spec => []VerdictsExact)`: on every lane a predicate whose texts have codes decides a row by its texts |
| `CategoricalProofs!CodesMeanTexts` | `Spec => []CodesAgree`: a code or bit of a slot is that of a text of its cell |
| `CategoricalProofs!CodesStay` | `Spec => CodesKept`: within one encoder no code changes its text |

Assumptions: `ConfigAssumption` (the configuration checks of `run_stream`: positive
worker count, batch size and queue depth; finitely many partitions),
`EngineAssumption` with `SchemaAssumption` (thread names are distinct; "none" is
neither a schema nor a ruleset), `AgentAssumption` (positive counts and depths, as
`run_http` makes them; a request is a sequence of batches) and `WindowAssumption` (finitely
many channels, whose windows last at least a second: a duration of 0 would be a division by
zero in `now % duration`; a batch is finite, and gives an id, no id or a null to an entity
column and a number or a null to a summed one, as the encoder and `ColumnReader` do; the
generation has at least two values) and `RuleEvalAssumption` (a batch and a morsel have rows,
there are workers; a plan is what `build_global_plan` appends: children before their parents,
one child for a NOT; severities and actions are those of the enumerations) and
`CategoricalAssumption` (texts are not empty and are ordered; a cell is null, a text or a list
of texts, which is what the transposer and the encoder make of it; `EQ` has one value, as the
parser gives it; the width of a mask and a morsel are positive). `AgentFiles`
needs none. No bound on the number of workers, partitions, messages, shards, requests, parts,
faults or restarts, nor on the number of entities, channels, rules, predicates and rows, on
the size of a condition or a morsel, on the length of a window, or on the texts, batches and
dictionaries.

Eight theorems name settings of the program as hypotheses, because the property is about
these settings. `Affine` is `PartitionAffine \/ CommitOffsets`, the configurations in which
`run_stream` keeps a partition with one worker; without it two workers may hold batches of
one partition, which is what the setting is for. `KeepPrevious` is
`hot_reload_keep_previous_on_failure`, the default; without it a failed reload is meant to
clear the rules. `Declared` is the constructor with a schema; with an inferred one
`ReloadReachesEngines` is false (section 7): an unbound shard holds on to the rules that
were pending when it was created. `StraightPlans` says that every AND has a child and that, with
`enable_selection_vectors`, no AND lies below another: the vector of survivors is one for
the whole rule, an inner AND overwrites what the outer one iterates over, and
`MasksAreMeanings` is then false (section 7). With selection vectors off any nesting is
allowed. The rules of the run `eval_parallel` are straight. `ListedOnce` says that no list of a
`CONTAINS_ALL` is empty or has a value twice: on single codes the kernel takes such a list by
its length (`ids.size() <= 1`, `orchestrator.cpp:1047`), so that an empty one never holds and
`[a, a]` does not hold of `a`, while the masks decide both by their meaning. The parser accepts
these lists; the rules of the run `categorical_mixed` have none. The other theorems hold in every configuration, those
without `commit_offsets`, without output or without deduplication included.

**CommitSafety.** It is not inductive: it speaks of committed offsets and says nothing
of offsets about to be committed. What keeps the pipeline safe is order. For one
partition, all its messages go through one worker, and each stage holds the successors
of what the later stages hold:

    acked < pending < ditem < completed < witem[w] < wq[w] < grouped[w]

`PipelineInv` says, stage by stage, that the messages at or behind a point of this
chain include every payload message of lower offset (`DeliveryChain`, `ChainOf`,
`PolledChain`), that the offsets in `acc` and `committed` are those of acknowledged
messages (`OffsetInv`), that acknowledged messages are settled and what the delivery
thread may still assume about its outputs (`SettledInv`), that partitions have one
worker (`AffinityInv`), and the control facts that connect program counters with
queues and `stop` (`ControlInv`). The chain of a worker that ended early is not
claimed: it drops its batches, and nothing behind them can reach the delivery thread.
Without `commit_offsets`, nothing is ever committed (`NoCommits`). The proof moves one
message past one boundary at a time; `NextCommit` collects the lemmas `MainCommit`,
`WorkerCommit`, `DeliveryCommit` and `EnvironmentCommit`, each with a step per action.

**Order, and the refinement of AtLeastOnce.** `PipelineInv` says that nothing is left out
behind a point of the chain; that offsets only move forward needs that nothing is *behind*
what follows it either: `OrderInv` orders the batches of a partition along the same chain
(`DeliveryOrder`, `OrderOf`), above the offsets to commit and below the position of the
consumer (`Ahead`). Most steps only empty a stage or move a whole batch to the next; the
lemmas name these two cases (`Shrinks`, `OrderQuiet`) so that an action is checked against
one of them. `CommitMonotone` follows where `Affine` holds, and where it does not nothing is
ever committed. A step of the pipeline is then a step of `AtLeastOnce`: it settles messages,
or moves one partition's offset forward over settled ones, or neither.

**PoisonNotCommitted, CleanExit, CleanStats.** `PoisonInv` keeps failing messages out of
what the delivery thread holds, since it ends at a batch with an error; with `PipelineInv`
no offset passes them. For the shutdown, `JoinInv` says who has ended when the main thread
is at each of its last steps, failures included, `EndInv` that in a run without a failure a
thread leaves only an empty queue that is closed, and `PolledInv` that every polled message is committed, about
to be, or in flight: in the end nothing is in flight. `LossInv` counts the lost outputs: a
loss is a report not yet served or an error already counted, and a flush serves them all.

**CountersMatchHistory, ReadsTheWindow.** A counter does not keep the rows it counts, so
the invariant must name them. `StoreInv` says of every counter that its head is the latest
access of its entity and that it `Holds` the rows that are live at this access: its inline
bucket covers some of them and the extra buckets the others, a bucket for each second, whose
value and count are those of the rows of that second (`Covers`, `Amounts`); and the totals
of an additive function are the sums of the rows (`Totals`). That the two sets of buckets
*divide* the rows, and not the seconds, is needed as soon as the clock has been stepped
back: the same second may then be in both. A counter that is not there has no live rows, or
has been evicted when the clock can no longer bring them back. Rows are of a batch of their
own (`RowOK`), so that what a batch adds is disjoint from what is there. A step back and an
eviction together are excluded as they are in the property: the rows of an evicted counter
may become live again and are forgotten.

The sums of the module are folds over sets, defined by recursion on the subsets of a set.
`SubsetInduction` proves by a least counterexample that a property of subsets holds of all
of them, `FoldExists` that the recursive function of a fold exists, `SumUnion` and its
neighbours that sums divide over disjoint sets, whatever order the elements are taken in.
With these, `AdvanceHolds` shows that subtracting the expired buckets leaves what the live
rows amount to, `AddsHolds` that a coalesced bucket adds exactly its rows, and `UpdateIs`
that the fold over the update groups writes every channel once: `StampsOK` (no stamp is
above the generation) makes every entity of a batch count as untouched, also when the
generation wraps, since the wrap clears the stamps. For `ReadsTheWindow`, the access of a
query is the latest when the clock goes forward, and a row's own second is the access that
wrote it, so what is live at the access is the window (`QueryReads`).

**BatchKeepsRules.** `EngineInv` adds to the types that the ruleset of every engine is
the one it is configured for (`RulesConfigured`), and that a thread at a point inside
a critical section holds the lock of the engine it works on (`WorkerSafe`,
`LoaderSafe`). The engine of a
thread is fixed while the lock is held, so a step of another thread can only change
the engine's state by holding the same lock, which is absurd: `FrameKeeps` states this
once, for a step that moves one thread and touches what it has locked, and every
action is an instance of it. The clearing of the rules, which holds no lock, sets the
pointer to none and so keeps `RulesConfigured`, and the batch has its own copy: this is
the one thing `BatchOwnsEngine` must allow. When the process ends on an unbound shard the
engines stay as they are and no thread is at a point the invariant speaks of
(`DeathStep`).

**Reloads.** `AcceptedInv` follows rules through every place they can be in: what a thread
is about to install has been parsed and compiled, so a rejected file is never found on an
engine, and a failing load has nothing in its hands. `FitsSchema` holds of engine 0 because
the schema is bound, or grows, in the same critical section in which the rules that were
compiled against it are installed; the other engines are bound once, when they have no rules
yet, since no engine has rules without a schema. So whoever changes the schema of an engine
with rules installs rules for it in the same step (`Follows`), which is what a failed reload
must respect. `ReachInv` is about the time between two installations:
a load installs on engine 0 first and then on the shards in turn (`Installed`), it holds the
lock of engine 0 meanwhile, so that no shard is added and no other load begins, and a thread
that adds shards holds that lock too and copies rules that nobody is replacing
(`CopiesCurrent`). Hence all engines agree when no load is under way (`Agreed`).

**EnginesExclusive.** The exclusion before the pool exists and after it have different
reasons, and the invariant must carry both across the step that builds the pool. Before,
there is only `engine_`, and whoever evaluates holds the serial lock (`MustHold`,
`SerialOK`), or is the only evaluator. After, an engine in use came from the pool
(`PoolOK`) and is no longer in it. The pool is built by an evaluator that is between
two evaluations and must hold the lock, so nobody is on `engine_` when it is listed
(lemma `Alone`); and a holder that has checked before the pool was built keeps the
lock to its end, so it is never on `engine_` with `pooled` false while the pool hands it
out. `TasksOK` (a task, its results and its next batch belong to one request) is what the
types of the output need.

**RequestPromise.** `WorkInv` says that of the request it holds an evaluator has evaluated,
or dropped as duplicates, the batches before the next one, and `OnItsWay` that a batch of a
request that a sink has is written, dropped or still to be written. So a 200, from the
evaluator in mode `evaluated` or from the sink in durable mode, comes when the batches are
processed, and the histories only grow. That a request is answered *once*, and refused only
before anything of it is written, is a matter of who has it: `PlaceInv` says that the queue
holds the requests accepted last (`QueueInv`), that evaluators have different ones
(`HeldInv`), and that no one but the evaluator answers a request before the sinks get it
(`AnswerInv`). `DedupeInOrder` follows from the same places: with deduplication there is one
evaluator, and it works on the request it took last.

**CleanShutdown.** In mode `evaluated` the answer comes before the output is written, so
what has to survive the shutdown is in the sink queue or with a sink (`Covered`). A sink
leaves only a queue that is closed and empty (`DrainInv`), the queue is closed when all
evaluators have ended, and the last flush comes when all sinks have.

**DecisionsKept.** That a decision is in the bucket, the staging directory or the stream
does not say when it may leave the directory. `FilesInv` adds what the removal relies on
(`SyncOK`): while an upload is under way, the parts to remove are finished, so that no
write reaches them any more, and each of them is either still to be copied or its copy
in the bucket is what the directory has. `PartsOK` says that the part being written is
on disk and not among the finished ones, and that no part in either place has a name
that is still to come: a part is opened with truncation, so a name used twice would lose
what it held, and the last upload would write it over the copy. `CopiesOK` says that a
copy has nothing that the part on disk has not, so that a later upload of a part that
has grown loses nothing, and `DownOK` that a killed process has an empty stream, so that
the next run may start with one. A crash forgets the finished parts and leaves them in
the directory. What a line is does not matter to the argument beyond its type
(`LineType`: what `getline` returns is text, which rests on the smallest of a set of
numbers being one of them), so the theorem holds for any course of the log.

**ExitIsComplete.** `ExitOK` follows the end of a run: once the tail has left, no batch is
held, once the part is closed the stream is empty, and once the last upload has succeeded
every part on disk has its copy. With `DecisionsKept`, nothing is elsewhere.

**ReadOnceInOrder.** The texts that `getline` returns are the characters from the position
of the descriptor on; that they come after everything read so far depends on what the log
has been through. `LogOK` says that the files in the order of their inodes are the log: the
writer writes the last one that is not empty, and numbers only rise. `PlaceOK` says that
what follows the tail's place is unread: the file it has open from its position on, all of
that file if a truncation has made it shorter than the position, the file it is about to
open, and all later ones. The exception, a path that names another file at the `open` than
at the `stat`, is in the invariant as in the property (`raced`). What has been read is the
concatenation of the lines of the batch, a recursive function over a sequence; what the
proof needs of it (its type, and that appending a line appends its characters) is proved by
an induction that the provers can do: the least number of the set of those for which the
fact fails does not exist (`NumbersInduction`, from the well-foundedness of the order).

**CountsAgree, WinnerIsHighest, MasksAreMeanings.** While a batch is under way the masks are
those of some rules on some morsels; `EvalInv` says which: a rule is `Evaluated` on a row when
the row's morsel has been taken and the worker that has it, if one still has, is past the rule.
The masks have the rows evaluated that the evaluation selects (`MasksSoFar`), the counts of
the workers add up to them (`CountsSoFar`), and the decision of a row is that of the highest
rule whose mask has the row (`DecisionsSoFar`). For a step of a worker it matters that no other
worker has its morsel (`JobsApart`): the rows it adds are new to the mask, so the count grows
by their number, and the rules that already selected a row come before the one evaluated
(`RuleStepRows`), so that on a tie of rank, severity and priority the winner stays, as the order
of the file demands (`WinsOverRule`). Where nothing has decided yet, the undecided severity -1
lets a rule of the default's own rank win (`WinsOverDefault`).

What the evaluation of a plan selects is a matter of data, and holds without any step.
`Evaluate` is a recursive function over the nodes whose values are functions of the scratch
vector; `EvaluateIs` and `MeaningIs` show that such functions exist and are what the definition
says, by `NumberInduction` over the nodes. `NodeIsMeaning` is the case of one node: what a
node's mask is, and that a node without an AND below it leaves the scratch vector alone, which
is what the loop over the survivors needs (`SelectMeans`). The loops are folds; `FoldPath` gives
the values a fold goes through, and `PathKeeps` an invariant of them. The children of an AND
are sorted by cost, so that the same children are taken in another order (`ChildrenAre`,
`SortedByHas`); an intersection does not depend on it.

**VerdictsExact, CodesAgree, CodesKept.** The transposer takes codes from the closed values,
the literals get theirs from the dictionary, and nothing in the code compares the two. They
agree because a new encoder is given the closed values first and never forgets, which
`Coherent` states: where both have a code, it is that of the same text. This is inductive only
with its second half. If the dictionary is shorter than the closed values, it is because it is
full, so a later text can not take a code the closed values use; `AddedAllIs` (a dictionary only
grows, by texts it had not, to its capacity) and `CoherentKept` follow from it, and
`CodesStay` too. `LanesAndSlots` then says what a slot has kept of its cell, lane by lane
(`Encodes`, proved by `JsonSlotKeeps` and `ArrowSlotKeeps`): all closed codes of a list in a
mask, one code otherwise, nothing for a null or for a text that a dictionary array lost. The
verdicts are those of the dictionary as it is *after* the batch (`VerdictsOfCodes`); resolved
against the one before, a literal that the batch brings in would have no code. From there on no
step is needed: `CodeDecides` and `BitsDecide` compare codes where texts are meant,
`PredicateDecides` puts the operators together. Codes are compared through the injectivity of
the sequences (`SameCode`); -1, which stands for every text without a code, is why the
property asks for the texts of the *predicate* to be covered, and not for those of the row.

Only model-checked: liveness (`StopReturns`, `ShutdownReturns`, `BatchesFinish`,
`ReloadConverges`, `AnswersCome`, `ShutdownEnds`, `TailCatchesUp`), as fairness and ENABLED
are out of the prover's reach; and everything about `RuleLoading` and `Ingest`. Their central
facts are about recursive definitions over data: rule files and records. Both are built from
recursive operators, in whose reach no theorem is stated. `CodesAgree` and `CodesKept` of
`Categorical` are proved and in no configuration; TLC finds them true when they are added to
`CategoricalMixed.cfg`, `CodesKept` as a property. `FieldEqualityExact`, `LookupMembersMatch`
and the others of section 7 are false and have no theorem.

## 7. Disagreements found

The run `kafka_delivered` ends in a counterexample; `PROJECT.json` quotes the line of the
repository it contradicts: `flush` compares the error counter with its value at its own
start, but `produce` serves reports too, so that an output refused between the two is
taken for delivered and its input is committed.

The modules state more properties that the code does not meet, defined beside the
others and each with a comment on the behaviour it speaks of. A run of its own is
not kept for these; each was found violated by TLC, and the last column is what to change in which configuration to see
TLC's counterexample.

| Property | What the code does | Shown by |
|---|---|---|
| `AgentHttp!StatefulInOrder` | "stateful rulesets remain ordered" (`README.md:226`), but with several evaluators and rules with windows an evaluator pops its request before it waits for the serial lock, and a later request may get the lock first | `AgentHttp.cfg` with this invariant, `SPECIFICATION Spec` and `Configs <- Windowed` |
| `AgentHttp!AckedIsWritten` | a record is marked as seen before its evaluation: after a 500 or 503, the retry is dropped as a duplicate and answered 200, and its decision is written nowhere | `AgentHttp.cfg` with this invariant, `SPECIFICATION Spec` and `Configs <- Deduplicated` |
| `AgentHttp!AckedIsFlushed` | in durable mode 200 is answered when the decisions are in the stream's buffer, which is flushed at most every 200 ms and only with a further write | `AgentHttp.cfg` with this invariant and `SPECIFICATION Spec` |
| `RuleEngine!RulesFitSchema` | a reload that adds an `array_any` field to the schema is installed on shards whose schema lacks the field | `EngineInferred.cfg` with this invariant |
| `RuleEngine!ReloadReachesEngines` | with an inferred schema an engine used only through `evaluate_partition` stays unbound, and reloads never reach its shards | `EngineInferred.cfg` with this invariant |
| `RuleEngine!NoSilentBatch` | when the deferred rules do not compile, the engine stays bound without rules and later batches pass silently | `EngineInferred.cfg` with this invariant |
| `RuleEngine!InstallsOnBoundShards` | rules are installed on a shard that was made while the engine was unbound and has no transposer: `configure_projection` dereferences the null pointer (`engine.cpp:1371`, `:1088`) and the process ends | `EngineInferred.cfg` with this invariant |
| `RuleEngine!WatcherSurvives` | a rules file removed between the watcher's two looks ends the process | `EngineInferred.cfg` with this invariant |
| `RuleEngine!CompilesOffHotPath` | rules are compiled, and lookups read, under the lock that every batch needs | `EngineReload.cfg` with this invariant |
| `RuleEval!PrecedenceRespected` | the first label of `decisions.precedence` gets rank 0, which means "not listed" | `EvalParallel.cfg` with this invariant and `Rulesets <- ListedFirst` |
| `RuleEval!RiskBandFollowsAction` | the risk band looks at the label, not at the action | `EvalParallel.cfg` with this invariant and `Rulesets <- CustomLabel` |
| `Categorical!FieldEqualityExact` | `eq_field` compares codes of two enumerations | `CategoricalMixed.cfg` with this invariant, `Kind <- Categories`, `Hint <- OwnSets`, `Rulesets <- FieldRules`, `JsonBatches <- FieldJson` |
| `Categorical!FieldEqualityExact` | `eq_field` on masks addresses 8-byte columns with 4-byte strides | the same with `Hint <- SharedSet`, `JsonBatches <- FieldJsonLong` |
| `Categorical!DeclaredListsExact` | list operators on an enumeration of 63 values or more see one value of a list | `CategoricalMixed.cfg` with this invariant, `Hint <- DeclaredSet`, `Rulesets <- ListRules`, `JsonBatches <- ListJson` |
| `Categorical!NullnessPreserved` | in a dictionary array, a text that finds no room becomes null | `CategoricalMixed.cfg` with this invariant, `Rulesets <- NullRules`, `JsonBatches = {}`, `ArrowBatches <- NullArrow`, `Capacity = 1` |
| `RuleEngine!ClearsTogether` | the clearing after a failed reload takes no lock: a shard being created keeps the old rules | `EngineInferred.cfg` with this invariant |
| `RuleEval!MasksAreMeanings` | an AND below an AND overwrites the survivors the outer one is iterating over | `EvalParallel.cfg` with this invariant and `Rulesets <- NestedRulesets` |
| `Categorical!LookupMembersMatch` | members of a lookup that the first batch did not hold are never found | `CategoricalMixed.cfg` with this invariant, `Hint <- CategoryHint`, `Rulesets <- LookupRules` |
| `Ingest!RulesReadTheirColumns` | "BlazeRules projects rule-referenced columns by name" (`README.md:457`), but `configure_projection` does not collect the column of a length of an array (`README.md:580`): it is not filled, and its length is that of a null | `Ingest.cfg` with this invariant |
| `AgentFiles!OldFileDrained` | "the old descriptor is drained" (`main.cpp:1268`), but lines may come between the last read and the `stat`, and the writer may keep the old file: they are never read | `AgentFiles.cfg` with this property |

Met while writing the models of rules, and excepted by name in their properties:

- a NOT over an operator without an opposite (`FLAGS_ALL`, `CONTAINS_ALL` and others) is
  dropped (`compiler.cpp:31-64`, against `README.md:530`);
- `eq` with a number on a category, and bit tests on columns of another width, are
  evaluated on the wrong representation (`Misread`); `eq_field` on categories compares
  the codes of two columns (`README.md:605`);
- a row with a NaN may be skipped or taken with its morsel by the bounds of the column;
- address ranges that end at the last address wrap when they are merged
  (`compiler.cpp:190`); a text that is no prefix is read as 0.0.0.0 (`README.md:673`);
- the conflict report calls two rules disjoint over closed values although a row may hold
  several; "stricter" ignores fields that only one rule constrains;
- the SQL example of `README.md:540` with `any_match` does not parse, nor does a field
  whose name begins with `any_match` at the start of a text.

Met while writing `Ingest`, and excepted by name where a property meets them:

- a record that is taken back leaves its bits in the byte that the next row shares
  (`Smudged`; `README.md:111`, `tests/malformed_ingest_tests.cpp:35`);
- the layout is learned from the first record of an NDJSON text, or of a batch of messages
  (`add_json_messages`, so from Kafka, a partition and the agent too), and kept: if that
  record is flat, nested fields of later ones are never filled, where the same records as
  Arrow columns keep them, and a record torn after its last wanted field is taken for
  whole (`Overlooked`, `Kept`; `README.md:612-630`);
- a column with the same name as an `any_match` path, or under it, is not filled from JSON
  (`Shadowed`);
- the rest of a JSON array after a broken element is neither read nor counted; blank
  messages count as processed; the dead letters are those of the samples, 16 at most;
- texts that stand for null do so in JSON only; lists of numbers have other texts in JSON
  than in Arrow; a comparison of fields inside an arithmetic `any_match` is false in JSON;
- in an inferred schema, a sampled value of a wrong type (an object, an empty array)
  makes the column non-nullable, read as 0;
- after a reload without its `any_match` rule the column of that rule stays in the
  schema and every later Arrow batch is refused (`SCHEMA_MISMATCH`).

Met while writing `AgentFiles`:

- a line that is read before it is complete is evaluated in two pieces;
- a truncated log that has grown past the read position before the next look is taken
  for the old one (`truncated`); when the path names a third file at the `open`, that
  file is read again from its start (`raced`);
- lines written while the agent is down are skipped;
- when the last three uploads fail the parts stay in the staging directory
  (`README.md:397`: "loses nothing"); a later run uploads them again but never removes them.

Runs that pass beside them are cut so that the same question is asked where the code
does answer it: `eval_parallel` has no AND below an AND on the selection path;
`engine_inferred` asks `MainRulesFit` of the engine itself, as `RulesFitSchema` fails
on its shards; `engine_reload` has a declared schema; `categorical_mixed` has no
cross-field comparison, closed sets that the rules give, and a dictionary that fills
up only with texts outside them. In `RuleLoading`, `Ingest` and `AgentFiles` the
exceptions are part of the properties, by name (`Sound`, `Misread`, `OrderedRow`,
`Shadowed`, `Overlooked`, `Smudged`, `raced`, `truncated`), and everything else is asked.

## 8. What is not modelled

- **The agent's standard input, Arrow output, reopening of a local output file,
  statistics and options.** Several HTTP sinks with one S3 part are the composition of
  `AgentHttp` and `AgentFiles`: both write under `out_mu_`.
- **Decoders (Avro, Protobuf, Arrow IPC), CDC, the file reader, YAML and JSON scanning**:
  byte formats without state between calls; unit tests reach them. The models start at
  the records, pieces of text or trees they yield.
- **Fetching of resources**: HTTP and S3 downloads and the shared cache on disk. Two
  processes may take each other's unfinished download for the cached resource
  (`resource_resolver.cpp:226`); no model shows it yet.
- **Numbers**: floating-point values, rounding residues of the running totals, model
  scores, overflow of 64-bit integers. Window values and scores are integers, record
  values halves.
- **Memory and layout**: the arena, SIMD search for line ends, the vector variants of the
  kernels, which compute the same mask; the repository's tests compare them with the
  scalar ones.
- **Consumer group rebalances**: one member. There is no rebalance callback in the
  code (`stream_runtime.cpp:185`), so that batches of a revoked partition are still
  committed; what another member sees would be a composition of two pipelines.
- **`create_shards`, model registration, metrics and status reporting** of the engine:
  detached engines take no part in reloads, and the rest changes no modelled state.
- **Dashboard, CLI, Python bindings, charts, build files**: observers and drivers that
  feed nothing back into the decisions.
