---------------------------- MODULE KafkaStream ----------------------------
(***************************************************************************)
(* run_stream (src/src/io/stream_runtime.cpp): the Kafka pipeline that     *)
(* polls a consumer, evaluates record batches on one engine shard per      *)
(* worker thread, produces the decisions and commits the input offsets.    *)
(*                                                                         *)
(*   main loop --> worker queue w --> worker w --> completed --> delivery  *)
(*       ^                                                          |      *)
(*       +-------- offsets to commit <---- CommitAccumulator <------+      *)
(*                                                                         *)
(* The main thread, the NWorkers worker threads and the delivery thread    *)
(* interleave; the broker resolves produced outputs at its own pace; the   *)
(* process may crash, or the call may end, and run_stream be called again. *)
(*                                                                         *)
(* Data abstraction: a batch is a SET of messages.  Every consumer of a    *)
(* batch takes its messages in poll order, and no property looks inside a  *)
(* batch at that order; the order of batches in a queue is kept.           *)
(***************************************************************************)
EXTENDS Integers, Sequences, FiniteSets, FiniteSetsExt

CONSTANTS
    Partitions,      \* the (topic, partition) pairs of the subscription
    LogEnd,          \* every partition's log holds the offsets 0 .. LogEnd-1
    Tombstones,      \* messages without payload, which poll_messages skips
    Failing,         \* messages whose evaluation throws
    Silent,          \* messages that decode to no record (a Debezium delete)
    NWorkers,        \* worker_count
    WorkerOf,        \* worker_for with partition_affine: hash of the partition
    Label,           \* the decision of a message, the key of grouped output
    BatchSize,       \* batch_size
    QueueDepth,      \* queue_depth
    MaxMessages,     \* max_messages, 0 for no limit
    MaxBatches,      \* max_batches, 0 for no limit
    CommitOffsets,   \* commit_offsets
    PartitionAffine, \* partition_affine
    OutputMode,      \* "rows", "grouped" or "none"
    OutputTopic,     \* output_topic is not empty
    DlqTopic,        \* dlq_topic is not empty
    MaxFaults,       \* bound: faults of the broker and the client library
    MaxRestarts      \* bound: crashes, and further calls of run_stream

Msg == [tp : Partitions, offset : 0 .. LogEnd - 1]
Payload == Msg \ Tombstones
Workers == 1 .. NWorkers

\* CompletedItem: the messages of an evaluated batch, and whether it failed.
Results == [msgs : SUBSET Payload, error : BOOLEAN]

\* The configuration checks at the top of run_stream, and what the names mean.
ASSUME ConfigAssumption ==
    /\ LogEnd \in Nat
    /\ IsFiniteSet(Partitions)
    /\ Tombstones \subseteq Msg
    /\ Failing \subseteq Payload
    /\ Silent \subseteq Payload
    /\ NWorkers \in Nat \ {0}
    /\ WorkerOf \in [Partitions -> Workers]
    /\ BatchSize \in Nat \ {0}
    /\ QueueDepth \in Nat \ {0}
    /\ MaxMessages \in Nat
    /\ MaxBatches \in Nat
    /\ CommitOffsets \in BOOLEAN
    /\ PartitionAffine \in BOOLEAN
    /\ OutputMode \in {"rows", "grouped", "none"}
    /\ OutputTopic \in BOOLEAN
    /\ DlqTopic \in BOOLEAN
    /\ MaxFaults \in Nat
    /\ MaxRestarts \in Nat

VARIABLES
    \* the broker and the consumer group
    committed,       \* committed[p]: the group's committed offset
    outq,            \* outputs produced and not yet resolved by the broker
    nacks,           \* failed delivery reports not yet served to the client
    \* the main thread
    mpc, position, grouped, messages, batches,
    \* the worker threads
    wq, wqClosed, wpc, witem,
    \* the delivery thread
    completed, completedClosed, dpc, ditem, todo, produced, pending,
    pendingDelivery,
    \* shared
    acc,             \* CommitAccumulator: next offset to commit, 0 for none
    stop,            \* PipelineFailure: stop, set together with exception
    errors,          \* DeliveryReporter: failed reports served so far
    \* history: what has happened to the messages
    evaluated,       \* a worker has evaluated it, in any run
    acked,           \* flush_pending has released it, in any run
    reported,        \* the broker has reported on its output, in any run
    delivered,       \* the broker has stored its output, in any run
    lost,            \* the broker has refused its output, in this run
    faults, restarts \* counters of the bounds MaxFaults and MaxRestarts

mainVars == <<mpc, position, grouped, messages, batches>>
workerVars == <<wpc, witem>>
queueVars == <<wq, wqClosed>>
completedVars == <<completed, completedClosed>>
deliveryVars == <<dpc, ditem, todo, produced, pending, pendingDelivery>>
producerVars == <<outq, nacks, errors>>
reportVars == <<reported, delivered, lost>>
vars == <<committed, acc, stop, mainVars, workerVars, queueVars, completedVars,
          deliveryVars, producerVars, reportVars, evaluated, acked,
          faults, restarts>>

-----------------------------------------------------------------------------
(* What the configuration makes of a message.                              *)

\* Mutant: commit_offsets does not force partition affinity.
Affine_Unforced == PartitionAffine

Affine == PartitionAffine \/ CommitOffsets

\* worker_for: the hash of the partition, or the next worker of a counter that
\* every stream of the process shares (so, to this one, any worker).
Assignment(batch) ==
    {to \in [batch -> Workers] : Affine => \A m \in batch : to[m] = WorkerOf[m.tp]}

Producing == OutputTopic /\ OutputMode # "none"

\* emit_rows and emit_groups: the outputs of an evaluated batch, each the set of
\* the messages it reports on.
DecisionOutputs(batch) ==
    LET rows == batch \ Silent
    IN CASE ~Producing -> {}
         [] Producing /\ OutputMode = "rows" -> {{m} : m \in rows}
         [] Producing /\ OutputMode = "grouped" ->
              {{m \in rows : Label[m] = Label[n]} : n \in rows}

\* A failed batch goes to the dead-letter topic message by message.
Outputs(item) ==
    IF item.error THEN {{m} : m \in item.msgs} ELSE DecisionOutputs(item.msgs)

\* The messages whose processing leaves a record on some topic.
NeedsOutput(m) == m \in Failing \/ (Producing /\ m \notin Silent)

-----------------------------------------------------------------------------
TypeOK ==
    /\ committed \in [Partitions -> 0 .. LogEnd]
    /\ outq \subseteq SUBSET Payload
    /\ nacks \in Nat
    /\ mpc \in {"loop", "poll", "dispatch", "close", "join", "joinDelivery",
                "commit", "done"}
    /\ position \in [Partitions -> 0 .. LogEnd]
    /\ grouped \in [Workers -> SUBSET Payload]
    /\ messages \in Nat
    /\ batches \in Nat
    /\ wq \in [Workers -> Seq(SUBSET Payload)]
    /\ wqClosed \in [Workers -> BOOLEAN]
    /\ wpc \in [Workers -> {"start", "pop", "eval", "push", "failing", "exit"}]
    /\ witem \in [Workers -> SUBSET Payload]
    /\ completed \in Seq(Results)
    /\ completedClosed \in BOOLEAN
    /\ dpc \in {"pop", "produce", "flush", "lastFlush", "failing", "done"}
    /\ ditem \in SUBSET Payload
    /\ todo \subseteq SUBSET Payload
    /\ produced \in BOOLEAN
    /\ pending \in SUBSET Payload
    /\ pendingDelivery \in BOOLEAN
    /\ acc \in [Partitions -> 0 .. LogEnd]
    /\ stop \in BOOLEAN
    /\ errors \in Nat
    /\ evaluated \in SUBSET Payload
    /\ acked \in SUBSET Payload
    /\ reported \in SUBSET Payload
    /\ delivered \in SUBSET Payload
    /\ lost \in SUBSET Payload
    /\ faults \in 0 .. MaxFaults
    /\ restarts \in 0 .. MaxRestarts

\* A call of run_stream starts at the group's committed offsets.
Init ==
    /\ committed = [p \in Partitions |-> 0]
    /\ position = committed
    /\ mpc = "loop" /\ messages = 0 /\ batches = 0
    /\ grouped = [w \in Workers |-> {}]
    /\ wq = [w \in Workers |-> <<>>]
    /\ wqClosed = [w \in Workers |-> FALSE]
    /\ wpc = [w \in Workers |-> "start"]
    /\ witem = [w \in Workers |-> {}]
    /\ completed = <<>> /\ completedClosed = FALSE
    /\ dpc = "pop" /\ ditem = {} /\ todo = {} /\ produced = FALSE
    /\ pending = {} /\ pendingDelivery = FALSE
    /\ acc = [p \in Partitions |-> 0]
    /\ stop = FALSE
    /\ outq = {} /\ nacks = 0 /\ errors = 0
    /\ evaluated = {} /\ acked = {}
    /\ reported = {} /\ delivered = {} /\ lost = {}
    /\ faults = 0 /\ restarts = 0

-----------------------------------------------------------------------------
(* Shared objects.                                                         *)

\* A fault of the environment, counted.
Fault == faults < MaxFaults /\ faults' = faults + 1
NoFault == UNCHANGED faults

\* PipelineFailure::capture.
Capture == stop' = TRUE

\* BoundedQueue::push waits for room unless the queue is closed.
CanPush(queue) == Len(queue) < QueueDepth

CloseAllWorkerQueues == wqClosed' = [w \in Workers |-> TRUE]

\* CommitAccumulator::acknowledge.
\* Mutant: the committed offset skips a message.
NextOffsets_OffByOne(batch, p) == {m.offset + 2 : m \in {n \in batch : n.tp = p}}

NextOffsets(batch, p) == {m.offset + 1 : m \in {n \in batch : n.tp = p}}
Acknowledge(batch) ==
    acc' = [p \in Partitions |-> Max({acc[p]} \cup NextOffsets(batch, p))]

\* commit_completed: take() empties the accumulator, then commitSync stores the
\* offsets, or throws with or without having stored them.
\* Mutant: commits what was polled.
StoreOffsets_Polled == committed' = position

StoreOffsets ==
    committed' = [p \in Partitions |-> IF acc[p] = 0 THEN committed[p] ELSE acc[p]]
TakeOffsets == acc' = [p \in Partitions |-> 0]
Committable == CommitOffsets /\ \E p \in Partitions : acc[p] # 0
CommitOk == TakeOffsets /\ StoreOffsets /\ UNCHANGED stop /\ NoFault
CommitFails ==
    /\ Committable
    /\ TakeOffsets
    /\ StoreOffsets \/ UNCHANGED committed
    /\ Capture
    /\ Fault
NothingToCommit == ~Committable /\ UNCHANGED <<committed, acc, stop, faults>>

-----------------------------------------------------------------------------
(* The main thread.                                                        *)

Limited == \/ MaxMessages > 0 /\ messages >= MaxMessages
           \/ MaxBatches > 0 /\ batches >= MaxBatches

Wanted == IF MaxMessages > 0 /\ MaxMessages - messages < BatchSize
          THEN MaxMessages - messages
          ELSE BatchSize

MainUnchanged == UNCHANGED <<workerVars, queueVars, completedVars, deliveryVars,
                             producerVars, reportVars, evaluated, acked, restarts>>

\* The head of the loop: a failure or a limit ends it.
LoopExit ==
    /\ mpc = "loop"
    /\ stop \/ Limited
    /\ mpc' = "close"
    /\ UNCHANGED <<position, grouped, messages, batches, committed, acc, stop, faults>>
    /\ MainUnchanged

LoopCommit ==
    /\ mpc = "loop"
    /\ ~stop /\ ~Limited
    /\ \/ ((Committable /\ CommitOk) \/ NothingToCommit) /\ mpc' = "poll"
       \/ CommitFails /\ mpc' = "close"
    /\ UNCHANGED <<position, grouped, messages, batches>>
    /\ MainUnchanged

\* What a poll can fetch: the messages up to some offset of each partition.
Fetched(upto) == {m \in Payload : position[m.tp] <= m.offset /\ m.offset < upto[m.tp]}
Reachable == {upto \in [Partitions -> 0 .. LogEnd] :
                \A p \in Partitions : position[p] <= upto[p]}

\* poll_messages got messages, which are grouped by worker.
Poll ==
    /\ mpc = "poll"
    /\ \E upto \in Reachable :
         LET batch == Fetched(upto)
         IN /\ Cardinality(batch) \in 1 .. Wanted
            /\ position' = upto
            /\ messages' = messages + Cardinality(batch)
            /\ \E to \in Assignment(batch) :
                 grouped' = [w \in Workers |-> {m \in batch : to[m] = w}]
    /\ mpc' = "dispatch"
    /\ NoFault
    /\ UNCHANGED <<batches, committed, acc, stop>>
    /\ MainUnchanged

\* No message before the timeout or the end of a partition: the loop ends.
PollNothing ==
    /\ mpc = "poll"
    /\ \E upto \in Reachable : Fetched(upto) = {} /\ position' = upto
    /\ mpc' = "close"
    /\ NoFault
    /\ UNCHANGED <<grouped, messages, batches, committed, acc, stop>>
    /\ MainUnchanged

\* consume() reports an error: what this poll had fetched before it is dropped.
PollError ==
    /\ mpc = "poll"
    /\ \E upto \in Reachable : Cardinality(Fetched(upto)) < Wanted /\ position' = upto
    /\ Capture
    /\ Fault
    /\ mpc' = "close"
    /\ UNCHANGED <<grouped, messages, batches, committed, acc>>
    /\ MainUnchanged

Waiting == {w \in Workers : grouped[w] # {}}

DispatchUnchanged ==
    /\ UNCHANGED <<position, messages, committed, acc, stop, faults, wqClosed>>
    /\ UNCHANGED <<workerVars, completedVars, deliveryVars, producerVars, reportVars,
                   evaluated, acked, restarts>>

\* One batch per worker, in worker order.  The push waits for room; a closed
\* queue refuses it and ends the dispatch.
DispatchPush ==
    /\ mpc = "dispatch"
    /\ \E w \in Waiting :
         /\ \A v \in Waiting : w <= v
         /\ ~wqClosed[w] /\ CanPush(wq[w])
         /\ wq' = [wq EXCEPT ![w] = Append(@, grouped[w])]
         /\ grouped' = [grouped EXCEPT ![w] = {}]
    /\ UNCHANGED <<mpc, batches>>
    /\ DispatchUnchanged

DispatchEnd ==
    /\ mpc = "dispatch"
    /\ \/ Waiting = {}
       \/ \E w \in Waiting : (\A v \in Waiting : w <= v) /\ wqClosed[w]
    /\ grouped' = [w \in Workers |-> {}]
    /\ batches' = batches + 1
    /\ mpc' = "loop"
    /\ UNCHANGED wq
    /\ DispatchUnchanged

\* The shutdown: close the worker queues, join the workers, close the completed
\* queue, join the delivery thread, commit what it has acknowledged.
CloseQueues ==
    /\ mpc = "close"
    /\ CloseAllWorkerQueues
    /\ mpc' = "join"
    /\ UNCHANGED <<position, grouped, messages, batches, wq, committed, acc, stop, faults>>
    /\ UNCHANGED <<workerVars, completedVars, deliveryVars, producerVars, reportVars,
                   evaluated, acked, restarts>>

\* Mutant: the completed queue is not closed after the workers have ended.
JoinWorkers_NoClose ==
    /\ mpc = "join"
    /\ \A w \in Workers : wpc[w] = "exit"
    /\ mpc' = "joinDelivery"
    /\ UNCHANGED <<position, grouped, messages, batches, completedVars, committed, acc,
                   stop, faults>>
    /\ UNCHANGED <<workerVars, queueVars, deliveryVars, producerVars, reportVars,
                   evaluated, acked, restarts>>

JoinWorkers ==
    /\ mpc = "join"
    /\ \A w \in Workers : wpc[w] = "exit"
    /\ completedClosed' = TRUE
    /\ mpc' = "joinDelivery"
    /\ UNCHANGED <<position, grouped, messages, batches, completed, committed, acc, stop,
                   faults>>
    /\ UNCHANGED <<workerVars, queueVars, deliveryVars, producerVars, reportVars,
                   evaluated, acked, restarts>>

JoinDelivery ==
    /\ mpc = "joinDelivery"
    /\ dpc = "done"
    /\ mpc' = "commit"
    /\ UNCHANGED <<position, grouped, messages, batches, committed, acc, stop, faults>>
    /\ MainUnchanged

FinalCommit ==
    /\ mpc = "commit"
    /\ (Committable /\ CommitOk) \/ NothingToCommit \/ CommitFails
    /\ mpc' = "done"
    /\ UNCHANGED <<position, grouped, messages, batches>>
    /\ MainUnchanged

Main == \/ LoopExit \/ LoopCommit \/ Poll \/ PollNothing \/ PollError
        \/ DispatchPush \/ DispatchEnd
        \/ CloseQueues \/ JoinWorkers \/ JoinDelivery \/ FinalCommit

-----------------------------------------------------------------------------
(* Worker thread w.                                                        *)

WorkerUnchanged == UNCHANGED <<mainVars, deliveryVars, producerVars, reportVars,
                               committed, acc, acked, restarts>>

\* The decoder session is built, or its construction throws.
WorkerStart(w) ==
    /\ wpc[w] = "start"
    /\ \/ wpc' = [wpc EXCEPT ![w] = "pop"] /\ UNCHANGED stop /\ NoFault
       \/ wpc' = [wpc EXCEPT ![w] = "failing"] /\ Capture /\ Fault
    /\ UNCHANGED <<witem, queueVars, completedVars, evaluated>>
    /\ WorkerUnchanged

\* The handler of a worker's exception closes every queue.
WorkerFails(w) ==
    /\ wpc[w] = "failing"
    /\ completedClosed' = TRUE
    /\ CloseAllWorkerQueues
    /\ wpc' = [wpc EXCEPT ![w] = "exit"]
    /\ UNCHANGED <<witem, wq, completed, evaluated, stop, faults>>
    /\ WorkerUnchanged

WorkerPop(w) ==
    /\ wpc[w] = "pop"
    /\ wq[w] # <<>>
    /\ witem' = [witem EXCEPT ![w] = Head(wq[w])]
    /\ wq' = [wq EXCEPT ![w] = Tail(@)]
    /\ wpc' = [wpc EXCEPT ![w] = "eval"]
    /\ UNCHANGED <<wqClosed, completedVars, evaluated, stop, faults>>
    /\ WorkerUnchanged

\* Mutant: pop gives up on a closed queue that still holds batches.
WorkerDrained_OnClose(w) ==
    /\ wpc[w] = "pop"
    /\ wqClosed[w]
    /\ wpc' = [wpc EXCEPT ![w] = "exit"]
    /\ UNCHANGED <<witem, queueVars, completedVars, evaluated, stop, faults>>
    /\ WorkerUnchanged

\* The queue is closed and empty: the thread ends.
WorkerDrained(w) ==
    /\ wpc[w] = "pop"
    /\ wq[w] = <<>> /\ wqClosed[w]
    /\ wpc' = [wpc EXCEPT ![w] = "exit"]
    /\ UNCHANGED <<witem, queueVars, completedVars, evaluated, stop, faults>>
    /\ WorkerUnchanged

\* After a failure elsewhere the popped batch is dropped; otherwise it is
\* evaluated, and an evaluation that throws leaves its error in the result.
WorkerEval(w) ==
    /\ wpc[w] = "eval"
    /\ IF stop
       THEN /\ wpc' = [wpc EXCEPT ![w] = "exit"]
            /\ witem' = [witem EXCEPT ![w] = {}]
            /\ UNCHANGED evaluated
       ELSE /\ wpc' = [wpc EXCEPT ![w] = "push"]
            /\ evaluated' = evaluated \cup witem[w]
            /\ UNCHANGED witem
    /\ UNCHANGED <<queueVars, completedVars, stop, faults>>
    /\ WorkerUnchanged

Result(batch) == [msgs |-> batch, error |-> batch \cap Failing # {}]

WorkerPush(w) ==
    /\ wpc[w] = "push"
    /\ \/ /\ completedClosed
          /\ wpc' = [wpc EXCEPT ![w] = "exit"]
          /\ UNCHANGED completed
       \/ /\ ~completedClosed /\ CanPush(completed)
          /\ completed' = Append(completed, Result(witem[w]))
          /\ wpc' = [wpc EXCEPT ![w] = "pop"]
    /\ witem' = [witem EXCEPT ![w] = {}]
    /\ UNCHANGED <<queueVars, completedClosed, evaluated, stop, faults>>
    /\ WorkerUnchanged

Worker(w) == \/ WorkerStart(w) \/ WorkerFails(w) \/ WorkerPop(w)
             \/ WorkerDrained(w) \/ WorkerEval(w) \/ WorkerPush(w)

-----------------------------------------------------------------------------
(* The delivery thread.                                                    *)

DeliveryUnchanged == UNCHANGED <<mainVars, workerVars, reportVars, committed,
                                 evaluated, restarts>>

\* Mutant: dr_cb does not count the failed reports.
ServeReports_Uncounted == errors' = errors /\ nacks' = 0

\* poll() and flush() of the client serve the delivery reports that have come:
\* dr_cb counts the failed ones.
ServeReports == errors' = errors + nacks /\ nacks' = 0

\* Mutant: a failed batch without a dead-letter topic is skipped.
DeliveryPop_SkipPoison ==
    /\ dpc = "pop"
    /\ completed # <<>>
    /\ completed' = Tail(completed)
    /\ ditem' = Head(completed).msgs
    /\ produced' = FALSE
    /\ todo' = IF Head(completed).error /\ ~DlqTopic
               THEN {}
               ELSE Outputs(Head(completed))
    /\ dpc' = "produce"
    /\ UNCHANGED <<stop, completedClosed, pending, pendingDelivery, producerVars,
                   queueVars, acc, acked, faults>>
    /\ DeliveryUnchanged

DeliveryPop ==
    /\ dpc = "pop"
    /\ completed # <<>>
    /\ completed' = Tail(completed)
    /\ ditem' = Head(completed).msgs
    /\ produced' = FALSE
    /\ \/ /\ Head(completed).error /\ ~DlqTopic
          /\ todo' = {}
          /\ dpc' = "failing" /\ Capture
       \/ /\ ~Head(completed).error \/ DlqTopic
          /\ todo' = Outputs(Head(completed))
          /\ dpc' = "produce" /\ UNCHANGED stop
    /\ UNCHANGED <<completedClosed, pending, pendingDelivery, producerVars, queueVars,
                   acc, acked, faults>>
    /\ DeliveryUnchanged

\* KafkaProducer::produce hands one output to the client and serves reports, or
\* gives up after five seconds of a full client queue.
Produce ==
    /\ dpc = "produce"
    /\ \E out \in todo :
         \/ /\ outq' = outq \cup {out}
            /\ todo' = todo \ {out}
            /\ produced' = TRUE
            /\ UNCHANGED <<dpc, stop>> /\ NoFault
         \/ /\ dpc' = "failing" /\ Capture /\ Fault
            /\ UNCHANGED <<outq, todo, produced>>
    /\ ServeReports
    /\ UNCHANGED <<ditem, pending, pendingDelivery, queueVars, completedVars, acc, acked>>
    /\ DeliveryUnchanged

\* The outputs of the batch are produced.  A flush follows at once when nothing
\* awaits delivery, and otherwise when flush_interval_ms have passed.
Collect ==
    /\ dpc = "produce"
    /\ todo = {}
    /\ pending' = pending \cup ditem
    /\ pendingDelivery' = (pendingDelivery \/ produced)
    /\ ditem' = {}
    /\ \/ dpc' = "flush"
       \/ pendingDelivery' /\ dpc' = "pop"
    /\ UNCHANGED <<todo, produced, stop, faults, producerVars, queueVars, completedVars,
                   acc, acked>>
    /\ DeliveryUnchanged

\* pop_for timed out on an empty queue; a closed one ends the loop.
PopTimeout ==
    /\ dpc = "pop"
    /\ completed = <<>>
    /\ \/ completedClosed /\ dpc' = "lastFlush"
       \/ ~completedClosed /\ pendingDelivery /\ dpc' = "flush"
    /\ UNCHANGED <<ditem, todo, produced, pending, pendingDelivery, stop, faults,
                   producerVars, queueVars, completedVars, acc, acked>>
    /\ DeliveryUnchanged

\* Mutant: offsets are acknowledged while outputs are still in flight.
FlushOk_InFlight == ~pendingDelivery \/ nacks = 0

\* KafkaProducer::flush returned true: the client queue drained and no failed
\* report was served during the call.
FlushOk == ~pendingDelivery \/ (outq = {} /\ nacks = 0)
Flushing == dpc \in {"flush", "lastFlush"}

\* flush_pending acknowledges the pending messages.
FlushAcknowledges ==
    /\ Flushing
    /\ FlushOk
    /\ IF CommitOffsets THEN Acknowledge(pending) ELSE UNCHANGED acc
    /\ acked' = acked \cup pending
    /\ pending' = {}
    /\ pendingDelivery' = FALSE
    /\ dpc' = IF dpc = "flush" THEN "pop" ELSE "done"
    /\ UNCHANGED <<ditem, todo, produced, stop, faults, producerVars, queueVars,
                   completedVars>>
    /\ DeliveryUnchanged

\* flush returned false, a failed report or a timeout: flush_pending throws.
FlushFails ==
    /\ Flushing
    /\ pendingDelivery
    /\ \/ outq = {} /\ nacks > 0 /\ NoFault
       \/ outq # {} /\ Fault
    /\ ServeReports
    /\ dpc' = "failing"
    /\ Capture
    /\ UNCHANGED <<outq, ditem, todo, produced, pending, pendingDelivery, queueVars,
                   completedVars, acc, acked>>
    /\ DeliveryUnchanged

\* Mutant: the delivery thread's handler leaves the completed queue open.
DeliveryFails_CompletedOpen ==
    /\ dpc = "failing"
    /\ CloseAllWorkerQueues
    /\ dpc' = "done"
    /\ UNCHANGED <<ditem, todo, produced, pending, pendingDelivery, wq, completedVars,
                   stop, faults, producerVars, acc, acked>>
    /\ DeliveryUnchanged

\* The handler of the delivery thread's exception closes every queue.
DeliveryFails ==
    /\ dpc = "failing"
    /\ CloseAllWorkerQueues
    /\ completedClosed' = TRUE
    /\ dpc' = "done"
    /\ UNCHANGED <<ditem, todo, produced, pending, pendingDelivery, wq, completed, stop,
                   faults, producerVars, acc, acked>>
    /\ DeliveryUnchanged

Delivery == \/ DeliveryPop \/ Produce \/ Collect \/ PopTimeout
            \/ FlushAcknowledges \/ FlushFails \/ DeliveryFails

-----------------------------------------------------------------------------
(* The environment.                                                        *)

BrokerUnchanged ==
    /\ UNCHANGED <<errors, committed, acc, stop, evaluated, acked, restarts>>
    /\ UNCHANGED <<mainVars, workerVars, queueVars, completedVars, deliveryVars>>

\* The broker stores an output of the client queue.
BrokerStores ==
    /\ \E out \in outq :
         /\ outq' = outq \ {out}
         /\ reported' = reported \cup out
         /\ delivered' = delivered \cup out
    /\ UNCHANGED <<nacks, lost, faults>>
    /\ BrokerUnchanged

\* The delivery of an output fails: its report waits to be served.
BrokerRefuses ==
    /\ Fault
    /\ \E out \in outq :
         /\ outq' = outq \ {out}
         /\ reported' = reported \cup out
         /\ lost' = lost \cup out
    /\ nacks' = nacks + 1
    /\ UNCHANGED delivered
    /\ BrokerUnchanged

\* The process dies at any point, or run_stream has returned, and is called
\* again: the memory is gone, the log, the group's offsets and what the broker
\* had stored of the outputs in flight remain.
Restart ==
    /\ restarts < MaxRestarts
    /\ restarts' = restarts + 1
    /\ \E stored \in SUBSET outq :
         /\ reported' = reported \cup UNION stored
         /\ delivered' = delivered \cup UNION stored
    /\ lost' = {}
    /\ position' = committed
    /\ mpc' = "loop" /\ messages' = 0 /\ batches' = 0
    /\ grouped' = [w \in Workers |-> {}]
    /\ wq' = [w \in Workers |-> <<>>]
    /\ wqClosed' = [w \in Workers |-> FALSE]
    /\ wpc' = [w \in Workers |-> "start"]
    /\ witem' = [w \in Workers |-> {}]
    /\ completed' = <<>> /\ completedClosed' = FALSE
    /\ dpc' = "pop" /\ ditem' = {} /\ todo' = {} /\ produced' = FALSE
    /\ pending' = {} /\ pendingDelivery' = FALSE
    /\ acc' = [p \in Partitions |-> 0]
    /\ stop' = FALSE
    /\ outq' = {} /\ nacks' = 0 /\ errors' = 0
    /\ UNCHANGED <<committed, evaluated, acked, faults>>

\* The call has returned or thrown: not a deadlock.
Returned == mpc = "done" /\ UNCHANGED vars

Next == \/ Main \/ Delivery \/ BrokerStores \/ BrokerRefuses \/ Restart \/ Returned
        \/ \E w \in Workers : Worker(w)

Spec == Init /\ [][Next]_vars

\* Every thread is scheduled and the broker answers; a fault, a crash and a
\* failing commit are never owed.
FairSpec ==
    /\ Spec
    /\ WF_vars(Main)
    /\ WF_vars(Delivery)
    /\ WF_vars(BrokerStores)
    /\ \A w \in Workers : WF_vars(Worker(w))

-----------------------------------------------------------------------------
(* Properties.                                                             *)

\* What at-least-once processing owes a message: it has been evaluated, and if
\* that leaves an output the broker has reported on it.
Settled(m) == m \in evaluated /\ (NeedsOutput(m) => m \in reported)

\* No offset is committed past a message that is not settled, whatever the
\* interleaving of the workers and across crashes: run_stream commits
\* "contiguous" offsets of evaluated and flushed batches only.
CommitSafety ==
    \A m \in Payload : m.offset < committed[m.tp] => Settled(m)

\* The abstract specification of the group's offsets, and its state here.
SettledMessages == {m \in Payload : Settled(m)}
Abstract == INSTANCE AtLeastOnce WITH settled <- SettledMessages

\* The pipeline implements at-least-once consumption.
ImplementsAtLeastOnce == Abstract!Spec

\* An input whose evaluation fails is not committed unless a dead-letter topic
\* takes it: without one the pipeline stops in front of it, and the commits of
\* its shutdown leave it to the next call.
PoisonNotCommitted ==
    ~DlqTopic => \A m \in Failing : committed[m.tp] <= m.offset

\* The call that returns without an exception has committed every message it
\* polled, however its shutdown interleaved with the threads.
CleanExit ==
    (mpc = "done" /\ ~stop /\ CommitOffsets)
        => \A m \in Payload : m.offset < position[m.tp] => m.offset < committed[m.tp]

\* A run that returns with delivery_errors = 0 has lost no output.
CleanStats == (mpc = "done" /\ ~stop /\ errors = 0) => lost = {}

\* The group's committed offset never moves back: a late acknowledgement of one
\* worker must not overwrite a later offset of the same partition.
CommitMonotone ==
    [][\A p \in Partitions : committed[p] <= committed'[p]]_vars

\* Batches of one partition are evaluated in offset order, which the windows of
\* a stateful ruleset rely on.
EvaluatedInOrder ==
    [][\A m \in evaluated' \ evaluated : \A n \in Payload :
          (n.tp = m.tp /\ n.offset < m.offset) => n \in evaluated']_vars

\* A failure of any thread ends the call: no thread stays blocked on a queue.
StopReturns == stop ~> (mpc = "done" \/ ~stop)

\* The shutdown ends: all threads are joined.
ShutdownReturns == (mpc = "close") ~> (mpc \in {"done", "loop"})

\* kafka.h of flush: a false return "means one or more messages were NOT
\* delivered and the caller must not treat them as durable"; run_stream: "affected
\* offsets remain uncommitted".  So a committed message has its output delivered.
DeliveredBeforeCommit ==
    \A m \in Payload :
        (m.offset < committed[m.tp] /\ NeedsOutput(m)) => m \in delivered
=============================================================================
