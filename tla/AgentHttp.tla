----------------------------- MODULE AgentHttp -----------------------------
(***************************************************************************)
(* The HTTP input of the agent (InstanceRunner::run_http and what it       *)
(* starts, src/src/agent/main.cpp).  A handler puts its request into the   *)
(* evaluation queue and waits for the outcome; evaluators run the batches  *)
(* of a request on an engine, on a pooled one once the pool is built, and  *)
(* hand the results to the sinks, which write them; who completes the      *)
(* request depends on ack_mode.  The shutdown drains stage by stage.       *)
(*                                                                         *)
(* Body[r] is the sequence of batches in a request, each named by the      *)
(* record in it: a text body is cut by batch_size and an Arrow stream has  *)
(* its own batches.  The sizes and formats of a body, and the refusals     *)
(* they lead to, are left out, as are the statistics.                      *)
(***************************************************************************)
EXTENDS Integers, Sequences, FiniteSets

CONSTANTS
    Requests, Records, Body,
    Columnar,     \* the requests with an Arrow body: they bypass deduplication
    Failing,      \* the records whose evaluation throws
    MaxShards,    \* an upper bound of eval_shards
    NSinks,       \* sink_workers
    HttpThreads,  \* http_threads: handlers at work
    EvalDepth,    \* eval_queue_depth
    SinkDepth,    \* sink_queue_depth
    Configs,      \* the configurations: [shards, dedupe, windows, ack, disabled]
    MaxFaults     \* bound: writes that throw

ItemsOf(r) == {r} \X DOMAIN Body[r]
Items == UNION {ItemsOf(r) : r \in Requests}
RecordOf(item) == Body[item[1]][item[2]]

Workers == 1 .. MaxShards
Engines == 1 .. MaxShards   \* engine 1 is engine_, the others shard_engines_
Sinks == 1 .. NSinks
Codes == {200, 429, 500, 503}
None == 0

ASSUME AgentAssumption ==
    /\ None \notin Requests
    /\ Body \in [Requests -> Seq(Records)]
    /\ Failing \subseteq Records /\ Columnar \subseteq Requests
    /\ {MaxShards, NSinks, HttpThreads, EvalDepth, SinkDepth} \subseteq Nat \ {0}
    /\ MaxFaults \in Nat
    /\ Configs \subseteq [shards : 1 .. MaxShards, dedupe : BOOLEAN, windows : BOOLEAN,
                          ack : {"durable", "evaluated"}, disabled : BOOLEAN]

VARIABLES
    config,                \* the configuration of the instance, never changed
    answer,                \* answer[r]: its status code, None until completed
    waiting,               \* the requests whose handlers wait for an outcome
    evalQ, evalClosed,     \* http_eval_queue_
    sinkQ, sinkClosed,     \* http_sink_queue_
    wpc, job,              \* an evaluator: its place, and its locals
    spc, sink,             \* a sink: its place, and its task
    serial,                \* the evaluator that holds http_serial_eval_mu_
    once, built, free,     \* pool_once_, pool_built_, free_engines_
    bound,                 \* engine_.schema_bound()
    seen,                  \* dedupe_.seen_
    written, flushed,      \* batches in the output stream; those out of its buffer
    mpc,                   \* the thread of run_http
    faults,
    accepted, order,       \* histories: requests as they were queued, batches as
                           \* they were evaluated
    dropped                \* history: the batches dropped as duplicates

requestVars == <<answer, waiting, accepted>>
evalQVars == <<evalQ, evalClosed>>
sinkQVars == <<sinkQ, sinkClosed>>
workerVars == <<wpc, job, serial>>
sinkVars == <<spc, sink>>
poolVars == <<once, built, free, bound>>
outputVars == <<written, flushed, faults>>
historyVars == <<order, dropped>>
vars == <<config, requestVars, evalQVars, sinkQVars, workerVars, sinkVars, poolVars,
          seen, outputVars, mpc, historyVars>>

\* engine is None between two batches; pooled says where it came from.
Jobs == [request : Requests \cup {None}, next : Nat \ {0}, results : SUBSET Nat,
         engine : Engines \cup {None}, pooled : BOOLEAN]
NoJob == [request |-> None, next |-> 1, results |-> {}, engine |-> None, pooled |-> FALSE]
SinkTasks == [request : Requests \cup {None}, left : SUBSET Nat]
NoTask == [request |-> None, left |-> {}]
OwedTasks == {t \in SinkTasks : t.request \in Requests /\ t.left \subseteq DOMAIN Body[t.request]}

\* Mutant: deduplication does not reduce the evaluators.
EvalWorkers_Shards(c) == c.shards

\* run_http starts one evaluator when records are deduplicated.
EvalWorkers(c) == IF c.dedupe THEN 1 ELSE c.shards

TypeOK ==
    /\ config \in Configs
    /\ answer \in [Requests -> Codes \cup {None}]
    /\ waiting \in SUBSET Requests
    /\ evalQ \in Seq(Requests) /\ Len(evalQ) <= EvalDepth /\ evalClosed \in BOOLEAN
    /\ sinkQ \in Seq(SinkTasks) /\ Len(sinkQ) <= SinkDepth /\ sinkClosed \in BOOLEAN
    /\ wpc \in [Workers -> {"pop", "serial", "check", "eval", "using", "threw", "push",
                            "ack", "exit"}]
    /\ job \in [Workers -> Jobs]
    /\ spc \in [Sinks -> {"pop", "write", "exit"}]
    /\ sink \in [Sinks -> SinkTasks]
    /\ serial \in Workers \cup {None}
    /\ once \in BOOLEAN /\ built \in BOOLEAN /\ bound \in BOOLEAN
    /\ free \in SUBSET Engines
    /\ seen \in SUBSET Records
    /\ written \in SUBSET Items /\ flushed \in SUBSET Items
    /\ mpc \in {"listen", "draining", "joinEval", "joinSink", "done"}
    /\ faults \in 0 .. MaxFaults
    /\ accepted \in Seq(Requests) /\ order \in Seq(Items) /\ dropped \in SUBSET Items

Init ==
    /\ config \in Configs
    /\ answer = [r \in Requests |-> None] /\ waiting = {} /\ accepted = <<>>
    /\ evalQ = <<>> /\ evalClosed = FALSE
    /\ sinkQ = <<>> /\ sinkClosed = FALSE
    /\ wpc = [w \in Workers |-> IF w <= EvalWorkers(config) THEN "pop" ELSE "exit"]
    /\ job = [w \in Workers |-> NoJob] /\ serial = None
    /\ spc = [s \in Sinks |-> "pop"] /\ sink = [s \in Sinks |-> NoTask]
    /\ once = FALSE /\ built = FALSE /\ free = {}
    /\ bound \in BOOLEAN   \* the rules may declare the schema
    /\ seen = {}
    /\ written = {} /\ flushed = {} /\ faults = 0
    /\ mpc = "listen" /\ order = <<>> /\ dropped = {}

\* complete_http: the first outcome counts; the handler that waits answers it.
Complete(r, code) ==
    /\ answer' = [answer EXCEPT ![r] = IF @ = None THEN code ELSE @]
    /\ waiting' = waiting \ {r}

-----------------------------------------------------------------------------
(* The handlers.  A request that the server has accepted is still handled  *)
(* while it stops.                                                         *)

Arrives(r) ==
    /\ mpc \in {"listen", "draining"}
    /\ answer[r] = None /\ r \notin waiting
    /\ Cardinality(waiting) < HttpThreads

\* Mutant: the queue takes one request too many.
EvalRoom_OneMore == ~evalClosed /\ Len(evalQ) <= EvalDepth

\* BoundedQueue::try_push
EvalRoom == ~evalClosed /\ Len(evalQ) < EvalDepth
SinkRoom == ~sinkClosed /\ Len(sinkQ) < SinkDepth

Post(r) ==
    /\ Arrives(r) /\ EvalRoom
    /\ evalQ' = Append(evalQ, r)
    /\ waiting' = waiting \cup {r}
    /\ accepted' = Append(accepted, r)
    /\ UNCHANGED <<config, answer, evalClosed, sinkQVars, workerVars, sinkVars, poolVars,
                   seen, outputVars, mpc, historyVars>>

PostRefused(r) ==
    /\ Arrives(r) /\ ~EvalRoom
    /\ answer' = [answer EXCEPT ![r] = 429]
    /\ UNCHANGED <<config, waiting, accepted, evalQVars, sinkQVars, workerVars, sinkVars,
                   poolVars, seen, outputVars, mpc, historyVars>>

-----------------------------------------------------------------------------
(* The evaluators: http_eval_loop.                                         *)

WorkerPop(w) ==
    /\ wpc[w] = "pop" /\ evalQ # <<>>
    /\ evalQ' = Tail(evalQ)
    /\ job' = [job EXCEPT ![w] = [NoJob EXCEPT !.request = Head(evalQ)]]
    /\ wpc' = [wpc EXCEPT ![w] = IF config.shards > 1 THEN "serial" ELSE "eval"]
    /\ UNCHANGED <<config, requestVars, evalClosed, sinkQVars, serial, sinkVars, poolVars,
                   seen, outputVars, mpc, historyVars>>

WorkerExit(w) ==
    /\ wpc[w] = "pop" /\ evalQ = <<>> /\ evalClosed
    /\ wpc' = [wpc EXCEPT ![w] = "exit"]
    /\ UNCHANGED <<config, requestVars, evalQVars, sinkQVars, job, serial, sinkVars,
                   poolVars, seen, outputVars, mpc, historyVars>>

\* Requests are evaluated one at a time until the pool is built.
LockSerial(w) ==
    /\ wpc[w] = "serial" /\ serial = None
    /\ serial' = w
    /\ wpc' = [wpc EXCEPT ![w] = "check"]
    /\ UNCHANGED <<config, requestVars, evalQVars, sinkQVars, job, sinkVars, poolVars,
                   seen, outputVars, mpc, historyVars>>

\* Mutant: the lock is not kept while there is no pool.
KeepsSerial_Never == FALSE

KeepsSerial == ~built

CheckPool(w) ==
    /\ wpc[w] = "check"
    /\ serial' = IF KeepsSerial THEN w ELSE None
    /\ wpc' = [wpc EXCEPT ![w] = "eval"]
    /\ UNCHANGED <<config, requestVars, evalQVars, sinkQVars, job, sinkVars, poolVars,
                   seen, outputVars, mpc, historyVars>>

NextRecord(w) == Body[job[w].request][job[w].next]
NextItem(w) == <<job[w].request, job[w].next>>
HasNext(w) == wpc[w] = "eval" /\ job[w].next <= Len(Body[job[w].request])
Deduplicates(w) == config.dedupe /\ job[w].request \notin Columnar

\* DedupeWindow::duplicate marks a record when it is looked at for the first time.
DropDuplicate(w) ==
    /\ HasNext(w) /\ Deduplicates(w) /\ NextRecord(w) \in seen
    /\ job' = [job EXCEPT ![w].next = @ + 1]
    /\ dropped' = dropped \cup {NextItem(w)}
    /\ UNCHANGED <<config, requestVars, evalQVars, sinkQVars, wpc, serial, sinkVars,
                   poolVars, seen, outputVars, mpc, order>>

\* acquire_engine: engine_ itself before the pool is built, else a free engine,
\* for which the evaluator waits.
Acquire(w) ==
    /\ HasNext(w) /\ ~(Deduplicates(w) /\ NextRecord(w) \in seen)
    /\ seen' = IF Deduplicates(w) THEN seen \cup {NextRecord(w)} ELSE seen
    /\ IF built
       THEN \E e \in free :
               /\ job' = [job EXCEPT ![w].engine = e, ![w].pooled = TRUE]
               /\ free' = free \ {e}
       ELSE /\ job' = [job EXCEPT ![w].engine = 1, ![w].pooled = FALSE]
            /\ free' = free
    /\ wpc' = [wpc EXCEPT ![w] = "using"]
    /\ UNCHANGED <<config, requestVars, evalQVars, sinkQVars, serial, sinkVars, once, built,
                   bound, outputVars, mpc, historyVars>>

\* Mutant: the engine is not released.
Released_Never(w) == free

\* release_engine
Released(w) == IF job[w].pooled THEN free \cup {job[w].engine} ELSE free

\* The first batch that is evaluated binds the engine's schema.
Evaluate(w) ==
    /\ wpc[w] = "using" /\ NextRecord(w) \notin Failing
    /\ bound' = TRUE
    /\ order' = Append(order, NextItem(w))
    /\ free' = Released(w)
    /\ job' = [job EXCEPT ![w].results = @ \cup {job[w].next}, ![w].next = @ + 1,
                          ![w].engine = None, ![w].pooled = FALSE]
    /\ wpc' = [wpc EXCEPT ![w] = "eval"]
    /\ UNCHANGED <<config, requestVars, evalQVars, sinkQVars, serial, sinkVars, once, built,
                   seen, outputVars, mpc, dropped>>

\* The exception may leave the schema bound; it drops the results of the request
\* and the serial lock on its way to the handler of the loop.
EvaluateThrows(w) ==
    /\ wpc[w] = "using" /\ NextRecord(w) \in Failing
    /\ bound' \in {bound, TRUE}
    /\ free' = Released(w)
    /\ job' = [job EXCEPT ![w] = [NoJob EXCEPT !.request = job[w].request]]
    /\ serial' = IF serial = w THEN None ELSE serial
    /\ wpc' = [wpc EXCEPT ![w] = "threw"]
    /\ UNCHANGED <<config, requestVars, evalQVars, sinkQVars, sinkVars, once, built, seen,
                   outputVars, mpc, historyVars>>

\* Mutant: the failure is logged and not answered.
CompleteThrown_LogOnly(w) == UNCHANGED <<answer, waiting>>

CompleteThrown(w) == Complete(job[w].request, 500)

Threw(w) ==
    /\ wpc[w] = "threw"
    /\ CompleteThrown(w)
    /\ job' = [job EXCEPT ![w] = NoJob]
    /\ wpc' = [wpc EXCEPT ![w] = "pop"]
    /\ UNCHANGED <<config, accepted, evalQVars, sinkQVars, serial, sinkVars, poolVars, seen,
                   outputVars, mpc, historyVars>>

\* maybe_init_pool builds the pool once, after the first request, and only for
\* rules without windows on a bound schema; the attempt counts even if it fails.
FinishRequest(w) ==
    /\ wpc[w] = "eval" /\ ~HasNext(w)
    /\ IF config.shards > 1 /\ ~once
       THEN /\ once' = TRUE
            /\ built' = (~config.dedupe /\ bound /\ ~config.windows)
            /\ free' = IF built' THEN 1 .. config.shards ELSE free
       ELSE UNCHANGED <<once, built, free>>
    /\ wpc' = [wpc EXCEPT ![w] = "push"]
    /\ UNCHANGED <<config, requestVars, evalQVars, sinkQVars, job, serial, sinkVars, bound,
                   seen, outputVars, mpc, historyVars>>

\* The serial lock, if it is held, is held until the end of the loop's body.
EndTask(w) ==
    /\ job' = [job EXCEPT ![w] = NoJob]
    /\ serial' = IF serial = w THEN None ELSE serial
    /\ wpc' = [wpc EXCEPT ![w] = "pop"]

\* Without output the request is done.
CompleteDisabled(w) ==
    /\ wpc[w] = "push" /\ config.disabled
    /\ Complete(job[w].request, 200)
    /\ EndTask(w)
    /\ UNCHANGED <<config, accepted, evalQVars, sinkQVars, sinkVars, poolVars, seen,
                   outputVars, mpc, historyVars>>

Push(w) ==
    /\ wpc[w] = "push" /\ ~config.disabled /\ SinkRoom
    /\ sinkQ' = Append(sinkQ, [request |-> job[w].request, left |-> job[w].results])
    /\ wpc' = [wpc EXCEPT ![w] = "ack"]
    /\ UNCHANGED <<config, requestVars, evalQVars, sinkClosed, job, serial, sinkVars,
                   poolVars, seen, outputVars, mpc, historyVars>>

PushRefused(w) ==
    /\ wpc[w] = "push" /\ ~config.disabled /\ ~SinkRoom
    /\ Complete(job[w].request, 503)
    /\ EndTask(w)
    /\ UNCHANGED <<config, accepted, evalQVars, sinkQVars, sinkVars, poolVars, seen,
                   outputVars, mpc, historyVars>>

Ack(w) ==
    /\ wpc[w] = "ack"
    /\ IF config.ack = "evaluated"
       THEN Complete(job[w].request, 200)
       ELSE UNCHANGED <<answer, waiting>>
    /\ EndTask(w)
    /\ UNCHANGED <<config, accepted, evalQVars, sinkQVars, sinkVars, poolVars, seen,
                   outputVars, mpc, historyVars>>

Worker(w) ==
    \/ WorkerPop(w) \/ WorkerExit(w) \/ LockSerial(w) \/ CheckPool(w)
    \/ DropDuplicate(w) \/ Acquire(w) \/ Evaluate(w) \/ EvaluateThrows(w) \/ Threw(w)
    \/ FinishRequest(w) \/ CompleteDisabled(w) \/ Push(w) \/ PushRefused(w) \/ Ack(w)

-----------------------------------------------------------------------------
(* The sinks: http_sink_loop and write_decisions.                          *)

CompleteIfDurable(r, code) ==
    IF config.ack = "durable" THEN Complete(r, code) ELSE UNCHANGED <<answer, waiting>>

\* Mutant: the request is completed before its decisions are written.
SinkPop_Completes(s) ==
    /\ spc[s] = "pop" /\ sinkQ # <<>>
    /\ sinkQ' = Tail(sinkQ)
    /\ sink' = [sink EXCEPT ![s] = Head(sinkQ)]
    /\ spc' = [spc EXCEPT ![s] = "write"]
    /\ CompleteIfDurable(Head(sinkQ).request, 200)
    /\ UNCHANGED <<config, accepted, evalQVars, sinkClosed, workerVars,
                   poolVars, seen, outputVars, mpc, historyVars>>

SinkPop(s) ==
    /\ spc[s] = "pop" /\ sinkQ # <<>>
    /\ sinkQ' = Tail(sinkQ)
    /\ sink' = [sink EXCEPT ![s] = Head(sinkQ)]
    /\ spc' = [spc EXCEPT ![s] = "write"]
    /\ UNCHANGED <<config, requestVars, evalQVars, sinkClosed, workerVars,
                   poolVars, seen, outputVars, mpc, historyVars>>

\* Mutant: pop gives up on a closed queue that still holds results.
SinkDrained_OnClose == sinkClosed

SinkDrained == sinkQ = <<>> /\ sinkClosed

SinkExit(s) ==
    /\ spc[s] = "pop" /\ SinkDrained
    /\ spc' = [spc EXCEPT ![s] = "exit"]
    /\ UNCHANGED <<config, requestVars, evalQVars, sinkQVars, workerVars, sink, poolVars,
                   seen, outputVars, mpc, historyVars>>

\* One result is written, in the order of the batches; the stream is flushed if
\* the last flush is 200 ms old.
SinkWrite(s) ==
    /\ spc[s] = "write" /\ sink[s].left # {}
    /\ \E i \in sink[s].left :
          /\ \A j \in sink[s].left : i <= j
          /\ written' = written \cup {<<sink[s].request, i>>}
          /\ sink' = [sink EXCEPT ![s].left = @ \ {i}]
    /\ flushed' \in {flushed, written'}
    /\ UNCHANGED <<config, requestVars, evalQVars, sinkQVars, workerVars, spc, poolVars,
                   seen, faults, mpc, historyVars>>

SinkDone(s) ==
    /\ spc[s] = "write" /\ sink[s].left = {}
    /\ CompleteIfDurable(sink[s].request, 200)
    /\ sink' = [sink EXCEPT ![s] = NoTask]
    /\ spc' = [spc EXCEPT ![s] = "pop"]
    /\ UNCHANGED <<config, accepted, evalQVars, sinkQVars, workerVars, poolVars, seen,
                   outputVars, mpc, historyVars>>

\* Mutant: a write that fails half-way is answered like a full queue.
WriteFailed_Busy == 503

WriteFailed == 500

\* The output cannot be opened: the rest of the task is dropped.
SinkThrows(s) ==
    /\ spc[s] = "write" /\ sink[s].left # {} /\ faults < MaxFaults
    /\ faults' = faults + 1
    /\ CompleteIfDurable(sink[s].request, WriteFailed)
    /\ sink' = [sink EXCEPT ![s] = NoTask]
    /\ spc' = [spc EXCEPT ![s] = "pop"]
    /\ UNCHANGED <<config, accepted, evalQVars, sinkQVars, workerVars, poolVars, seen,
                   written, flushed, mpc, historyVars>>

Sink(s) == SinkPop(s) \/ SinkExit(s) \/ SinkWrite(s) \/ SinkDone(s) \/ SinkThrows(s)

-----------------------------------------------------------------------------
(* The thread of run_http.                                                 *)

\* A signal: the stopper thread stops the server.
Stop ==
    /\ mpc = "listen"
    /\ mpc' = "draining"
    /\ UNCHANGED <<config, requestVars, evalQVars, sinkQVars, workerVars, sinkVars, poolVars,
                   seen, outputVars, historyVars>>

\* listen returns when every handler has answered.
ListenReturns ==
    /\ mpc = "draining" /\ waiting = {}
    /\ evalClosed' = TRUE
    /\ mpc' = "joinEval"
    /\ UNCHANGED <<config, requestVars, evalQ, sinkQVars, workerVars, sinkVars, poolVars,
                   seen, outputVars, historyVars>>

JoinEval ==
    /\ mpc = "joinEval" /\ \A w \in Workers : wpc[w] = "exit"
    /\ sinkClosed' = TRUE
    /\ mpc' = "joinSink"
    /\ UNCHANGED <<config, requestVars, evalQVars, sinkQ, workerVars, sinkVars, poolVars,
                   seen, outputVars, historyVars>>

\* The instance is destroyed, which closes and so flushes its output.
JoinSink ==
    /\ mpc = "joinSink" /\ \A s \in Sinks : spc[s] = "exit"
    /\ flushed' = written
    /\ mpc' = "done"
    /\ UNCHANGED <<config, requestVars, evalQVars, sinkQVars, workerVars, sinkVars, poolVars,
                   seen, written, faults, historyVars>>

Shutdown == ListenReturns \/ JoinEval \/ JoinSink

\* The instance has ended: not a deadlock.
Ended == mpc = "done" /\ UNCHANGED vars

Next ==
    \/ \E r \in Requests : Post(r) \/ PostRefused(r)
    \/ \E w \in Workers : Worker(w)
    \/ \E s \in Sinks : Sink(s)
    \/ Stop \/ Shutdown \/ Ended

Spec == Init /\ [][Next]_vars

\* Every thread is scheduled, and mutexes are granted: the requests are finitely
\* many.  No request, signal or fault is owed.
FairSpec ==
    /\ Spec
    /\ \A w \in Workers : WF_vars(Worker(w))
    /\ \A s \in Sinks : WF_vars(Sink(s))
    /\ WF_vars(Shutdown)

-----------------------------------------------------------------------------
(* Properties.                                                             *)

\* No two evaluators are on one engine, and the pool neither loses an engine nor
\* lists one twice, also when evaluations throw: "an engine acquired in the
\* pre-build window is never double-listed" (release_engine).
Using == {w \in Workers : wpc[w] = "using"}

EnginesExclusive ==
    /\ \A w \in Using : job[w].engine \notin free
    /\ \A v, w \in Using : v # w => job[v].engine # job[w].engine
    /\ built => free \cup {job[w].engine : w \in Using} = 1 .. config.shards

\* What makes EnginesExclusive inductive.  A task and its results are of one
\* request, before the pool is built only the holder of the serial lock gets as
\* far as an engine, and the engine comes from the pool exactly when it exists.
TaskOK(w) ==
    /\ wpc[w] \notin {"pop", "exit"} =>
          job[w].request \in Requests /\ job[w].results \subseteq DOMAIN Body[job[w].request]
    /\ wpc[w] = "using" =>
          job[w].next \in DOMAIN Body[job[w].request] /\ job[w].engine \in Engines

SinkOK(s) == spc[s] = "write" => sink[s] \in OwedTasks

TasksOK ==
    /\ \A w \in Workers : TaskOK(w)
    /\ \A i \in DOMAIN sinkQ : sinkQ[i] \in OwedTasks
    /\ \A s \in Sinks : SinkOK(s)

MustHold(w) == wpc[w] = "check" \/ (wpc[w] \in {"eval", "using", "push", "ack"} /\ ~built)

SerialOK ==
    /\ \A w \in Workers : w > EvalWorkers(config) => wpc[w] = "exit"
    /\ config.shards > 1 => \A w \in Workers : MustHold(w) => serial = w

PoolOK ==
    /\ built => once /\ config.shards > 1
    /\ ~built => free = {}
    /\ \A w \in Using : job[w].pooled = built

PoolInv == TypeOK /\ TasksOK /\ SerialOK /\ PoolOK /\ EnginesExclusive

\* What a request is owed before it is answered 200: its batches written, or just
\* evaluated with ack_mode evaluated or without output; a duplicate is owed nothing.
Evaluated == {order[i] : i \in DOMAIN order}
Processed ==
    dropped \cup (IF config.ack = "evaluated" \/ config.disabled THEN Evaluated ELSE written)

Promise == INSTANCE RequestPromise WITH
    Owed <- [r \in Requests |-> ItemsOf(r)], Ok <- 200, Unanswered <- None, done <- Processed

\* The agent implements the promise: one answer, and 200 after the processing
\* that ack_mode names (README.md:223).
ImplementsPromise == Promise!Spec

\* A request that is refused can be sent again: nothing of it is written.
RefusedNotWritten ==
    \A r \in Requests : answer[r] \in {429, 503} => written \cap ItemsOf(r) = {}

\* With deduplication, requests are evaluated in the order they were queued in.
Place(r) == CHOOSE i \in DOMAIN accepted : accepted[i] = r
InOrder == \A i, j \in DOMAIN order : i < j => Place(order[i][1]) <= Place(order[j][1])
DedupeInOrder == config.dedupe => InOrder

\* The shutdown loses no decision of a request that was answered 200.
CleanShutdown ==
    (mpc = "done" /\ ~config.disabled /\ faults = 0) =>
        \A r \in Requests : answer[r] = 200 => ItemsOf(r) \subseteq flushed \cup dropped

\* Every request that was queued is answered, also while the agent stops.
AnswersCome == \A r \in Requests : r \in waiting ~> r \notin waiting

\* The shutdown ends: every queue drains and every thread is joined.
ShutdownEnds == mpc = "draining" ~> mpc = "done"

\* README.md:226: "stateful rulesets remain ordered".
StatefulInOrder == config.windows => InOrder

\* README.md:223 of ack_mode durable: it "responds after output is written".  A
\* duplicate is answered for the output of the record it repeats.
AckedIsWritten ==
    (config.ack = "durable" /\ ~config.disabled) =>
        \A r \in Requests : answer[r] = 200 =>
            \A item \in ItemsOf(r) : \E other \in written : RecordOf(other) = RecordOf(item)

\* A durable acknowledgement survives a crash of the agent.
AckedIsFlushed ==
    (config.ack = "durable" /\ ~config.disabled) =>
        \A r \in Requests : answer[r] = 200 => ItemsOf(r) \subseteq flushed \cup dropped
=============================================================================
