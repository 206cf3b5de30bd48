--------------------------- MODULE KafkaStreamInv ---------------------------
(***************************************************************************)
(* The inductive invariants of the pipeline.  TLC checks them on small     *)
(* instances; KafkaStreamProofs proves PipelineInv, the one behind         *)
(* CommitSafety, and the others (order in flight, shutdown, losses), from  *)
(* the middle of the module on, for every instance.                        *)
(*                                                                         *)
(* CommitSafety alone is not inductive: it says nothing of the offsets     *)
(* about to be committed, nor of the batches on their way to the delivery  *)
(* thread.  What makes the pipeline safe is that, partition by partition,  *)
(* each stage holds the successors of what the stages after it hold: the   *)
(* messages at or behind any point of the chain                            *)
(*                                                                         *)
(*   acked < pending < ditem < completed < witem[w] < wq[w] < grouped[w]   *)
(*                                                                         *)
(* include every payload message of lower offset.  A worker that ends      *)
(* early drops its batches, so the chain of w is claimed until it ends.    *)
(***************************************************************************)
EXTENDS KafkaStream

\* The messages that must be committable before m is.
Lower(m) == {n \in Payload : n.tp = m.tp /\ n.offset < m.offset}

\* The messages held at or behind each point of the pipeline.
Collected == acked \cup pending \cup ditem
CompletedUpTo(i) == Collected \cup {m \in Payload : \E j \in 1 .. i : m \in completed[j].msgs}
AllCompleted == CompletedUpTo(Len(completed))
UpToWorker(w) == AllCompleted \cup witem[w]
QueuedUpTo(w, i) == UpToWorker(w) \cup {m \in Payload : \E j \in 1 .. i : m \in wq[w][j]}
UpToQueue(w) == QueuedUpTo(w, Len(wq[w]))
UpToDispatch(w) == UpToQueue(w) \cup grouped[w]

Running(w) == wpc[w] # "exit"

\* The control facts the chain relies on.
ControlInv ==
    /\ \A w \in Workers : wpc[w] \in {"start", "pop"} => witem[w] = {}
    /\ \A w \in Workers : wpc[w] = "failing" => stop
    /\ dpc = "failing" => stop
    /\ \A w \in Workers : mpc \in {"loop", "poll", "dispatch"} /\ wqClosed[w] => stop
    /\ mpc \in {"loop", "poll"} => \A w \in Workers : grouped[w] = {}
    /\ dpc \in {"pop", "flush", "lastFlush"} => ditem = {}

\* partition_affine, and commit_offsets, make a partition the business of one worker.
OwnedBy(w) ==
    /\ \A m \in grouped[w] : WorkerOf[m.tp] = w
    /\ \A m \in witem[w] : WorkerOf[m.tp] = w
    /\ \A i \in 1 .. Len(wq[w]) : \A m \in wq[w][i] : WorkerOf[m.tp] = w

AffinityInv == \A w \in Workers : OwnedBy(w)

\* Every stage is preceded by the lower offsets of what it holds.
DeliveryChain ==
    /\ \A m \in acked : Lower(m) \subseteq acked
    /\ \A m \in pending : Lower(m) \subseteq acked \cup pending
    /\ \A m \in ditem : Lower(m) \subseteq Collected
    /\ \A i \in 1 .. Len(completed) :
         \A m \in completed[i].msgs : Lower(m) \subseteq CompletedUpTo(i)

ChainOf(w) ==
    /\ \A m \in witem[w] : Lower(m) \subseteq UpToWorker(w)
    /\ \A i \in 1 .. Len(wq[w]) :
         \A m \in wq[w][i] : Lower(m) \subseteq QueuedUpTo(w, i)
    /\ \A m \in grouped[w] : Lower(m) \subseteq UpToDispatch(w)

WorkerChain == \A w \in Workers : Running(w) => ChainOf(w)

\* As long as the loop goes on, everything polled is in the pipeline.
PolledChain ==
    (mpc \in {"poll", "dispatch"} \/ (mpc = "loop" /\ ~stop)) =>
        \A m \in Payload :
            m.offset < position[m.tp] /\ Running(WorkerOf[m.tp])
                => m \in UpToDispatch(WorkerOf[m.tp])

\* The offsets committed or about to be are those of acknowledged messages.
OffsetInv ==
    \A m \in Payload :
        m.offset < committed[m.tp] \/ m.offset < acc[m.tp] => m \in acked

\* What the delivery thread knows of the outputs of the messages it holds.
Awaited(m, outs) == NeedsOutput(m) => m \in reported \cup UNION outs
SettledInv ==
    /\ \A m \in acked : Settled(m)
    /\ \A m \in pending : m \in evaluated /\ Awaited(m, outq)
    /\ ~pendingDelivery => \A m \in pending : Settled(m)
    /\ dpc = "produce" =>
         \A m \in ditem :
            /\ m \in evaluated
            /\ Awaited(m, outq \cup todo)
            /\ ~produced => Awaited(m, todo)
    /\ \A i \in 1 .. Len(completed) :
         /\ completed[i].msgs \subseteq evaluated
         /\ ~completed[i].error => completed[i].msgs \cap Failing = {}
    /\ \A w \in Workers : wpc[w] = "push" => witem[w] \subseteq evaluated

\* Without commit_offsets nothing is ever committed.
NoCommits == \A p \in Partitions : acc[p] = 0 /\ committed[p] = 0

CommitInv == /\ ControlInv /\ AffinityInv /\ DeliveryChain /\ WorkerChain
             /\ PolledChain /\ OffsetInv /\ SettledInv

PipelineInv == (Affine => CommitInv) /\ (~CommitOffsets => NoCommits)

-----------------------------------------------------------------------------
(* The order of what is in flight.  The chain above says that nothing is     *)
(* left out; that offsets only move forward needs that nothing is behind     *)
(* what comes after it in the pipeline, nor behind what is committed.        *)

\* In every partition, the messages of a batch come before those of another.
Before(S, T) == \A m \in S, n \in T : m.tp = n.tp => m.offset < n.offset

\* The messages held at or behind each point in this run.
InDelivery == pending \cup ditem
InCompleted == InDelivery \cup {m \in Payload : \E i \in 1 .. Len(completed) : m \in completed[i].msgs}
InQueue(w) == {m \in Payload : \E i \in 1 .. Len(wq[w]) : m \in wq[w][i]}
InWorker(w) == InCompleted \cup witem[w]
InFlight(w) == InWorker(w) \cup InQueue(w) \cup grouped[w]

DeliveryOrder ==
    /\ Before(pending, ditem)
    /\ \A i \in 1 .. Len(completed) : Before(InDelivery, completed[i].msgs)
    /\ \A i, j \in 1 .. Len(completed) : i < j => Before(completed[i].msgs, completed[j].msgs)

OrderOf(w) ==
    /\ Before(InCompleted, witem[w])
    /\ \A i \in 1 .. Len(wq[w]) : Before(InWorker(w), wq[w][i])
    /\ \A i, j \in 1 .. Len(wq[w]) : i < j => Before(wq[w][i], wq[w][j])
    /\ Before(InWorker(w) \cup InQueue(w), grouped[w])

\* What is in flight is between the offsets to commit and the position of the consumer.
Ahead(m) == acc[m.tp] <= m.offset /\ committed[m.tp] <= m.offset /\ m.offset < position[m.tp]

OrderInv ==
    /\ DeliveryOrder
    /\ \A w \in Workers : OrderOf(w)
    /\ \A w \in Workers : \A m \in InFlight(w) : Ahead(m)
    /\ \A p \in Partitions : /\ acc[p] <= position[p] /\ committed[p] <= position[p]
                             /\ acc[p] # 0 => committed[p] <= acc[p]

-----------------------------------------------------------------------------
(* The shutdown.                                                             *)

Committing == mpc \in {"commit", "done"}

\* In any run: who has ended.
JoinInv ==
    /\ mpc # "dispatch" => \A w \in Workers : grouped[w] = {}
    /\ mpc \in {"joinDelivery", "commit", "done"} => \A w \in Workers : wpc[w] = "exit"
    /\ Committing => dpc = "done"
    /\ dpc = "failing" => stop
    /\ \A w \in Workers : wpc[w] = "failing" => stop

\* In a run without a failure: a thread ends when there is nothing left for it.
EndInv ==
    /\ \A w \in Workers : /\ wpc[w] = "exit" => witem[w] = {} /\ wq[w] = <<>> /\ wqClosed[w]
                          /\ wqClosed[w] => mpc \in {"join", "joinDelivery", "commit", "done"}
    /\ completedClosed => mpc \in {"joinDelivery", "commit", "done"}
    /\ dpc \in {"lastFlush", "done"} => completed = <<>> /\ completedClosed /\ ditem = {}
    /\ dpc = "done" => pending = {}
    /\ mpc = "done" => \A p \in Partitions : acc[p] = 0

\* ... and what was polled is committed, about to be, or in flight.
PolledInv ==
    \A m \in Payload :
        m.offset < position[m.tp] =>
            m.offset < committed[m.tp] \/ m.offset < acc[m.tp] \/ m \in InFlight(WorkerOf[m.tp])

ShutdownInv == CommitOffsets /\ ~stop => EndInv /\ PolledInv

-----------------------------------------------------------------------------
(* What a failed delivery leaves behind.                                     *)

\* The delivery thread has produced nothing since the last flush.
Flushed == /\ ~pendingDelivery
           /\ \/ dpc \in {"pop", "flush", "lastFlush"}
              \/ dpc = "produce" /\ ~produced
              \/ dpc = "done" /\ ~stop
LossInv ==
    /\ lost # {} => errors + nacks > 0
    /\ Flushed => outq = {} /\ nacks = 0
    /\ dpc = "done" /\ ~stop => ~pendingDelivery

\* Without a dead-letter topic, no failed message gets past the delivery thread.
PoisonInv ==
    ~DlqTopic => /\ acked \cap Failing = {} /\ pending \cap Failing = {}
                 /\ dpc = "produce" => ditem \cap Failing = {}

\* What has left the workers was evaluated.
EvaluatedInv == ditem \subseteq evaluated
=============================================================================
