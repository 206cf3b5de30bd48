-------------------------- MODULE KafkaStreamProofs --------------------------
(***************************************************************************)
(* Proofs about KafkaStream, for every configuration, log, number of       *)
(* workers, faults and restarts: its types and CommitSafety, from the      *)
(* inductive invariant of KafkaStreamInv; and what the pipeline promises   *)
(* beyond that: committed offsets never move back, so that it implements   *)
(* AtLeastOnce; the batches of a partition are evaluated in order; what    *)
(* fails is not committed; a clean exit has committed everything it        *)
(* polled; and no loss goes uncounted.                                     *)
(***************************************************************************)
EXTENDS KafkaStreamInv, FiniteSetTheorems, WellFoundedInduction, TLAPS

-----------------------------------------------------------------------------
(* Type correctness.                                                       *)

\* A non-empty set of numbers up to a bound has a maximum, the one Max chooses.
LEMMA MaxOfBounded ==
    ASSUME NEW k \in Nat, NEW S \in SUBSET (0 .. k), S # {}
    PROVE  Max(S) \in S /\ \A y \in S : y <= Max(S)
<1>. DEFINE Less == {e \in Nat \X Nat : e[1] < e[2]}
            R == {n \in Nat : n <= k /\ k - n \in S}
<1>1. IsWellFoundedOn(Less, Nat)
  BY NatLessThanWellFounded DEF OpToRel
<1>2. R \subseteq Nat
  OBVIOUS
<1>3. R # {}
  <2>1. PICK x \in S : TRUE
    OBVIOUS
  <2>2. k - x \in Nat /\ k - (k - x) = x
    OBVIOUS
  <2>3. k - x \in R
    BY <2>2
  <2>. QED
    BY <2>3
<1>4. PICK n \in R : \A r \in R : <<r, n>> \notin Less
  <2>. HIDE DEF R, Less
  <2>. QED
    BY <1>1, <1>2, <1>3, WFMin
<1>5. \A y \in S : k - n >= y
  <2>. SUFFICES ASSUME NEW y \in S, y > k - n
                PROVE  FALSE
    OBVIOUS
  <2>1. k - y \in Nat /\ k - (k - y) = y /\ k - y < n
    OBVIOUS
  <2>2. k - y \in R
    BY <2>1
  <2>3. <<k - y, n>> \in Less
    BY <2>1
  <2>. QED
    BY <1>4, <2>2, <2>3
<1>6. k - n \in S
  OBVIOUS
<1>. QED
  BY <1>5, <1>6 DEF Max

\* What acknowledging a batch leaves in the accumulator.
LEMMA AcknowledgeMax ==
    ASSUME ConfigAssumption, TypeOK, NEW batch \in SUBSET Payload, Acknowledge(batch)
    PROVE  /\ acc' \in [Partitions -> 0 .. LogEnd]
           /\ \A p \in Partitions : acc'[p] \in {acc[p]} \cup NextOffsets(batch, p)
           /\ \A p \in Partitions : acc[p] <= acc'[p]
           /\ \A p \in Partitions : \A y \in NextOffsets(batch, p) : y <= acc'[p]
<1>. DEFINE S(p) == {acc[p]} \cup NextOffsets(batch, p)
<1>1. ASSUME NEW p \in Partitions
      PROVE  S(p) \in SUBSET (0 .. LogEnd) /\ S(p) # {} /\ acc[p] \in S(p)
  BY DEF ConfigAssumption, TypeOK, NextOffsets, Payload, Msg
<1>2. LogEnd \in Nat
  BY DEF ConfigAssumption
<1>. HIDE DEF S
<1>3. ASSUME NEW p \in Partitions
      PROVE  Max(S(p)) \in S(p) /\ \A y \in S(p) : y <= Max(S(p))
  BY <1>1, <1>2, MaxOfBounded
<1>4. acc' = [p \in Partitions |-> Max(S(p))]
  BY DEF Acknowledge, S
<1>5. ASSUME NEW p \in Partitions
      PROVE  /\ acc'[p] \in 0 .. LogEnd /\ acc'[p] \in S(p) /\ acc[p] <= acc'[p]
             /\ \A y \in S(p) : y <= acc'[p]
  BY <1>1, <1>3, <1>4
<1>6. acc' \in [Partitions -> 0 .. LogEnd]
  BY <1>3, <1>4, <1>1
<1>. QED
  BY <1>5, <1>6 DEF S

\* Sequences used as queues.
LEMMA PopFacts ==
    ASSUME NEW S, NEW s \in Seq(S), s # <<>>
    PROVE  /\ Head(s) \in S /\ Head(s) = s[1]
           /\ Tail(s) \in Seq(S)
           /\ Len(s) \in Nat \ {0} /\ Len(Tail(s)) = Len(s) - 1
           /\ \A i \in 1 .. Len(s) - 1 : Tail(s)[i] = s[i + 1]
OBVIOUS

LEMMA PushFacts ==
    ASSUME NEW S, NEW s \in Seq(S), NEW e \in S
    PROVE  /\ Append(s, e) \in Seq(S)
           /\ Len(s) \in Nat /\ Len(Append(s, e)) = Len(s) + 1
           /\ Append(s, e)[Len(s) + 1] = e
           /\ \A i \in 1 .. Len(s) : Append(s, e)[i] = s[i]
OBVIOUS

LEMMA InitType == ASSUME ConfigAssumption, Init PROVE TypeOK
<1>1. LogEnd \in Nat /\ MaxFaults \in Nat /\ MaxRestarts \in Nat
  BY DEF ConfigAssumption
<1>2. wq \in [Workers -> Seq(SUBSET Payload)] /\ completed \in Seq(Results)
  BY DEF Init
<1>3. wqClosed \in [Workers -> BOOLEAN]
  BY Zenon DEF Init
<1>4. /\ committed \in [Partitions -> 0 .. LogEnd]
      /\ position \in [Partitions -> 0 .. LogEnd]
      /\ acc \in [Partitions -> 0 .. LogEnd]
      /\ grouped \in [Workers -> SUBSET Payload]
      /\ witem \in [Workers -> SUBSET Payload]
      /\ wpc \in [Workers -> {"start", "pop", "eval", "push", "failing", "exit"}]
      /\ faults \in 0 .. MaxFaults /\ restarts \in 0 .. MaxRestarts
  BY <1>1 DEF Init
<1>. QED
  BY <1>2, <1>3, <1>4 DEF Init, TypeOK

\* Fetching up to an offset per partition keeps positions within the logs.
LEMMA ReachableType ==
    ASSUME NEW upto \in Reachable
    PROVE  upto \in [Partitions -> 0 .. LogEnd] /\ Fetched(upto) \subseteq Payload
BY DEF Reachable, Fetched

LEMMA OutputsType ==
    ASSUME NEW item \in Results
    PROVE  Outputs(item) \subseteq SUBSET Payload
<1>0. item.msgs \in SUBSET Payload
  BY DEF Results
<1>1. DecisionOutputs(item.msgs) \subseteq SUBSET Payload
  <2>1. CASE ~Producing
    BY <2>1, <1>0 DEF DecisionOutputs
  <2>2. CASE Producing /\ OutputMode = "rows"
    BY <2>2, <1>0 DEF DecisionOutputs
  <2>3. CASE Producing /\ OutputMode = "grouped"
    BY <2>3, <1>0 DEF DecisionOutputs
  <2>. QED
    BY <2>1, <2>2, <2>3, ConfigAssumption DEF Producing, ConfigAssumption
<1>2. {{m} : m \in item.msgs} \subseteq SUBSET Payload
  BY <1>0
<1>. QED
  BY <1>1, <1>2 DEF Outputs

LEMMA CommitType ==
    ASSUME ConfigAssumption, TypeOK, CommitOk \/ CommitFails \/ NothingToCommit
    PROVE  /\ committed' \in [Partitions -> 0 .. LogEnd]
           /\ acc' \in [Partitions -> 0 .. LogEnd]
           /\ stop' \in BOOLEAN
           /\ faults' \in 0 .. MaxFaults
<1>. USE DEF ConfigAssumption, TypeOK
<1>1. TakeOffsets => acc' \in [Partitions -> 0 .. LogEnd]
  BY DEF TakeOffsets
<1>2. StoreOffsets => committed' \in [Partitions -> 0 .. LogEnd]
  BY DEF StoreOffsets
<1>3. CASE CommitOk
  BY <1>1, <1>2, <1>3 DEF CommitOk, NoFault
<1>4. CASE CommitFails
  BY <1>1, <1>2, <1>4 DEF CommitFails, Capture, Fault
<1>5. CASE NothingToCommit
  BY <1>5 DEF NothingToCommit
<1>. QED
  BY <1>3, <1>4, <1>5

LEMMA MainType ==
    ASSUME ConfigAssumption, TypeOK, Main PROVE TypeOK'
<1>. USE DEF MainUnchanged, DispatchUnchanged, mainVars, workerVars, queueVars,
             completedVars, deliveryVars, producerVars, reportVars
<1>1. CASE LoopExit
  BY <1>1 DEF TypeOK, LoopExit
<1>2. CASE LoopCommit
  <2>1. CommitOk \/ CommitFails \/ NothingToCommit
    BY <1>2 DEF LoopCommit
  <2>. QED
    BY <1>2, <2>1, CommitType DEF TypeOK, LoopCommit
<1>3. CASE Poll
  <2>1. PICK upto \in Reachable :
          /\ Cardinality(Fetched(upto)) \in 1 .. Wanted
          /\ position' = upto
          /\ messages' = messages + Cardinality(Fetched(upto))
          /\ \E to \in Assignment(Fetched(upto)) :
               grouped' = [w \in Workers |-> {m \in Fetched(upto) : to[m] = w}]
    BY <1>3 DEF Poll
  <2>2. position' \in [Partitions -> 0 .. LogEnd]
    BY <2>1, ReachableType
  <2>3. grouped' \in [Workers -> SUBSET Payload]
    BY <2>1, ReachableType
  <2>4. messages' \in Nat
    BY <2>1 DEF TypeOK
  <2>5. mpc' = "dispatch" /\ UNCHANGED <<batches, committed, acc, stop, faults>>
    BY <1>3 DEF Poll, NoFault
  <2>6. MainUnchanged
    BY <1>3 DEF Poll
  <2>. QED
    BY <2>2, <2>3, <2>4, <2>5, <2>6 DEF TypeOK
<1>4. CASE PollNothing
  <2>1. position' \in [Partitions -> 0 .. LogEnd]
    BY <1>4, ReachableType DEF PollNothing
  <2>. QED
    BY <1>4, <2>1 DEF TypeOK, PollNothing, NoFault
<1>5. CASE PollError
  <2>1. position' \in [Partitions -> 0 .. LogEnd]
    BY <1>5, ReachableType DEF PollError
  <2>. QED
    BY <1>5, <2>1 DEF ConfigAssumption, TypeOK, PollError, Capture, Fault
<1>6. CASE DispatchPush
  <2>1. PICK w \in Workers :
          /\ wq' = [wq EXCEPT ![w] = Append(@, grouped[w])]
          /\ grouped' = [grouped EXCEPT ![w] = {}]
    BY <1>6 DEF DispatchPush, Waiting
  <2>2. wq' \in [Workers -> Seq(SUBSET Payload)]
    BY <2>1 DEF TypeOK
  <2>. QED
    BY <1>6, <2>1, <2>2 DEF TypeOK, DispatchPush
<1>7. CASE DispatchEnd
  BY <1>7 DEF TypeOK, DispatchEnd
<1>8. CASE CloseQueues
  BY <1>8 DEF TypeOK, CloseQueues, CloseAllWorkerQueues
<1>9. CASE JoinWorkers
  BY <1>9 DEF TypeOK, JoinWorkers
<1>10. CASE JoinDelivery
  BY <1>10 DEF TypeOK, JoinDelivery
<1>11. CASE FinalCommit
  <2>1. CommitOk \/ CommitFails \/ NothingToCommit
    BY <1>11 DEF FinalCommit
  <2>. QED
    BY <1>11, <2>1, CommitType DEF TypeOK, FinalCommit
<1>. QED
  BY <1>1, <1>2, <1>3, <1>4, <1>5, <1>6, <1>7, <1>8, <1>9, <1>10, <1>11 DEF Main

LEMMA WorkerType ==
    ASSUME ConfigAssumption, TypeOK, NEW w \in Workers, Worker(w) PROVE TypeOK'
<1>. USE DEF WorkerUnchanged, mainVars, workerVars, queueVars, completedVars,
             deliveryVars, producerVars, reportVars
<1>1. CASE WorkerStart(w)
  <2>1. wpc' \in [Workers -> {"start", "pop", "eval", "push", "failing", "exit"}]
    BY <1>1 DEF TypeOK, WorkerStart
  <2>2. stop' \in BOOLEAN /\ faults' \in 0 .. MaxFaults
    <3>1. (UNCHANGED stop /\ NoFault) \/ (Capture /\ Fault)
      BY <1>1 DEF WorkerStart
    <3>. QED
      <4>1. stop' \in BOOLEAN
        BY <3>1, Zenon DEF TypeOK, Capture
      <4>2. faults' \in 0 .. MaxFaults
        BY <3>1 DEF ConfigAssumption, TypeOK, Fault, NoFault
      <4>. QED
        BY <4>1, <4>2
  <2>. QED
    BY <1>1, <2>1, <2>2 DEF TypeOK, WorkerStart
<1>2. CASE WorkerFails(w)
  BY <1>2 DEF TypeOK, WorkerFails, CloseAllWorkerQueues
<1>3. CASE WorkerPop(w)
  <2>1. wq[w] \in Seq(SUBSET Payload) /\ wq[w] # <<>>
    BY <1>3 DEF TypeOK, WorkerPop
  <2>2. Head(wq[w]) \in SUBSET Payload /\ Tail(wq[w]) \in Seq(SUBSET Payload)
    BY <2>1
  <2>. QED
    BY <1>3, <2>2 DEF TypeOK, WorkerPop
<1>4. CASE WorkerDrained(w)
  BY <1>4 DEF TypeOK, WorkerDrained
<1>5. CASE WorkerEval(w)
  <2>1. wpc' \in [Workers -> {"start", "pop", "eval", "push", "failing", "exit"}]
    BY <1>5 DEF TypeOK, WorkerEval
  <2>2. witem' \in [Workers -> SUBSET Payload] /\ evaluated' \in SUBSET Payload
    BY ZenonT(30), <1>5 DEF TypeOK, WorkerEval
  <2>. QED
    BY <1>5, <2>1, <2>2 DEF TypeOK, WorkerEval
<1>6. CASE WorkerPush(w)
  <2>1. Result(witem[w]) \in Results
    BY DEF TypeOK, Result, Results
  <2>2. completed' \in Seq(Results)
    <3>1. completed' = completed \/ completed' = Append(completed, Result(witem[w]))
      BY <1>6 DEF WorkerPush
    <3>. QED
      <4>1. completed \in Seq(Results)
        BY DEF TypeOK
      <4>2. Append(completed, Result(witem[w])) \in Seq(Results)
        BY <2>1, <4>1, PushFacts
      <4>. QED
        BY <3>1, <4>1, <4>2
  <2>. QED
    BY ZenonT(30), <1>6, <2>2 DEF TypeOK, WorkerPush
<1>. QED
  BY <1>1, <1>2, <1>3, <1>4, <1>5, <1>6 DEF Worker

LEMMA DeliveryType ==
    ASSUME ConfigAssumption, TypeOK, Delivery PROVE TypeOK'
<1>. USE DEF DeliveryUnchanged, mainVars, workerVars, queueVars, completedVars,
             deliveryVars, producerVars, reportVars
<1>1. CASE DeliveryPop
  <2>1. /\ completed \in Seq(Results)
        /\ completed # <<>>
    BY <1>1 DEF TypeOK, DeliveryPop
  <2>2. /\ Head(completed) \in Results
        /\ Tail(completed) \in Seq(Results)
    BY <2>1, PopFacts
  <2>3. todo' \subseteq SUBSET Payload
    BY <1>1, <2>2, OutputsType DEF DeliveryPop
  <2>. QED
    BY <1>1, <2>2, <2>3 DEF TypeOK, DeliveryPop, Capture, Results
<1>2. CASE Produce
  <2>1. outq' \subseteq SUBSET Payload /\ todo' \subseteq SUBSET Payload
    <3>1. PICK out \in todo :
            \/ outq' = outq \cup {out} /\ todo' = todo \ {out}
            \/ UNCHANGED <<outq, todo>>
      BY <1>2 DEF Produce
    <3>2. outq \subseteq SUBSET Payload /\ todo \subseteq SUBSET Payload
      BY DEF TypeOK
    <3>. QED
      BY <3>1, <3>2
  <2>2. /\ dpc' \in {"produce", "failing"}
        /\ produced' \in BOOLEAN /\ stop' \in BOOLEAN
        /\ errors' \in Nat /\ nacks' \in Nat
    <3>1. \/ dpc' = dpc /\ stop' = stop /\ produced' = TRUE
          \/ dpc' = "failing" /\ stop' = TRUE /\ produced' = produced
      BY <1>2 DEF Produce, Capture
    <3>2. dpc = "produce" /\ errors' = errors + nacks /\ nacks' = 0
      BY <1>2 DEF Produce, ServeReports
    <3>3. produced' \in BOOLEAN /\ stop' \in BOOLEAN
      BY <3>1, Zenon DEF TypeOK
    <3>. QED
      BY <3>1, <3>2, <3>3 DEF TypeOK
  <2>3. faults' \in 0 .. MaxFaults
    BY <1>2 DEF ConfigAssumption, TypeOK, Produce, Fault, NoFault
  <2>. QED
    BY <1>2, <2>1, <2>2, <2>3 DEF TypeOK, Produce
<1>3. CASE Collect
  BY <1>3 DEF TypeOK, Collect
<1>4. CASE PopTimeout
  BY <1>4 DEF TypeOK, PopTimeout
<1>5. CASE FlushAcknowledges
  <2>1. acc' \in [Partitions -> 0 .. LogEnd]
    BY <1>5, AcknowledgeMax DEF TypeOK, FlushAcknowledges
  <2>. QED
    BY <1>5, <2>1 DEF TypeOK, FlushAcknowledges
<1>6. CASE FlushFails
  BY <1>6 DEF ConfigAssumption, TypeOK, FlushFails, ServeReports, Capture, Fault, NoFault
<1>7. CASE DeliveryFails
  BY <1>7 DEF TypeOK, DeliveryFails, CloseAllWorkerQueues
<1>. QED
  BY <1>1, <1>2, <1>3, <1>4, <1>5, <1>6, <1>7 DEF Delivery

LEMMA EnvironmentType ==
    ASSUME ConfigAssumption, TypeOK, BrokerStores \/ BrokerRefuses \/ Restart
    PROVE  TypeOK'
<1>. USE DEF BrokerUnchanged, mainVars, workerVars, queueVars, completedVars,
             deliveryVars, producerVars, reportVars
<1>1. CASE BrokerStores
  BY <1>1 DEF TypeOK, BrokerStores
<1>2. CASE BrokerRefuses
  BY <1>2 DEF ConfigAssumption, TypeOK, BrokerRefuses, Fault
<1>3. CASE Restart
  <2>1. LogEnd \in Nat /\ MaxRestarts \in Nat
    BY DEF ConfigAssumption
  <2>2. reported' \in SUBSET Payload /\ delivered' \in SUBSET Payload
    BY <1>3 DEF TypeOK, Restart
  <2>3. wq' \in [Workers -> Seq(SUBSET Payload)] /\ completed' \in Seq(Results)
    BY <1>3 DEF Restart
  <2>4. restarts' \in 0 .. MaxRestarts
    BY <1>3, <2>1 DEF TypeOK, Restart
  <2>5. wqClosed' \in [Workers -> BOOLEAN]
    BY <1>3, Zenon DEF Restart
  <2>6. /\ position' \in [Partitions -> 0 .. LogEnd]
        /\ acc' \in [Partitions -> 0 .. LogEnd]
        /\ grouped' \in [Workers -> SUBSET Payload]
        /\ witem' \in [Workers -> SUBSET Payload]
        /\ wpc' \in [Workers -> {"start", "pop", "eval", "push", "failing", "exit"}]
    BY <1>3, <2>1 DEF TypeOK, Restart
  <2>. QED
    BY <1>3, <2>2, <2>3, <2>4, <2>5, <2>6 DEF TypeOK, Restart
<1>. QED
  BY <1>1, <1>2, <1>3

LEMMA NextType ==
    ASSUME ConfigAssumption, TypeOK, [Next]_vars PROVE TypeOK'
<1>1. CASE UNCHANGED vars
  BY <1>1 DEF TypeOK, vars, mainVars, workerVars, queueVars, completedVars,
              deliveryVars, producerVars, reportVars
<1>2. CASE Next
  BY <1>1, <1>2, MainType, WorkerType, DeliveryType, EnvironmentType DEF Next, Returned
<1>. QED
  BY <1>1, <1>2

\* Every reachable state is type-correct: in particular no acknowledgement and no
\* commit leaves the log's range of offsets, whatever batches are acknowledged.
THEOREM TypeCorrect == Spec => []TypeOK
<1>1. Init => TypeOK
  BY ConfigAssumption, InitType
<1>2. TypeOK /\ [Next]_vars => TypeOK'
  BY ConfigAssumption, NextType
<1>. QED
  BY <1>1, <1>2, PTL DEF Spec


-----------------------------------------------------------------------------
(* The chain, seen from one worker.                                        *)

\* A stage of worker w only grows when the stages behind it do.
LEMMA StagesGrow ==
    ASSUME NEW w \in Workers, AllCompleted \subseteq AllCompleted',
           witem'[w] = witem[w], wq'[w] = wq[w]
    PROVE  /\ UpToWorker(w) \subseteq UpToWorker(w)'
           /\ \A i \in Nat : QueuedUpTo(w, i) \subseteq QueuedUpTo(w, i)'
           /\ UpToQueue(w) \subseteq UpToQueue(w)'
BY DEF UpToWorker, QueuedUpTo, UpToQueue

\* So a step that leaves what w holds alone keeps its chain.
LEMMA ChainKept ==
    ASSUME TypeOK, NEW w \in Workers, AllCompleted \subseteq AllCompleted',
           witem'[w] = witem[w], wq'[w] = wq[w], grouped'[w] = grouped[w],
           ChainOf(w)
    PROVE  ChainOf(w)'
<1>1. /\ UpToWorker(w) \subseteq UpToWorker(w)'
      /\ \A i \in Nat : QueuedUpTo(w, i) \subseteq QueuedUpTo(w, i)'
      /\ UpToQueue(w) \subseteq UpToQueue(w)'
  BY StagesGrow
<1>2. UpToDispatch(w) \subseteq UpToDispatch(w)'
  BY <1>1 DEF UpToDispatch
<1>3. Len(wq[w]) \in Nat
  BY DEF TypeOK
<1>. QED
  BY <1>1, <1>2, <1>3 DEF ChainOf

\* The stages of the delivery thread, when it leaves them alone.
DeliveryStages == <<acked, pending, ditem, completed>>

LEMMA DeliveryChainKept ==
    ASSUME UNCHANGED DeliveryStages, DeliveryChain
    PROVE  /\ DeliveryChain'
           /\ AllCompleted' = AllCompleted
           /\ \A i \in Nat : CompletedUpTo(i)' = CompletedUpTo(i)
BY DEF DeliveryStages, DeliveryChain, AllCompleted, CompletedUpTo, Collected, Lower

\* A step that takes nothing out of the chain of a running worker.
LEMMA PolledChainKept ==
    ASSUME ConfigAssumption, PolledChain,
           UNCHANGED position, mpc' = mpc, stop => stop',
           \A w \in Workers :
               Running(w)' => Running(w) /\ UpToDispatch(w) \subseteq UpToDispatch(w)'
    PROVE  PolledChain'
<1>. SUFFICES ASSUME mpc' \in {"poll", "dispatch"} \/ (mpc' = "loop" /\ ~stop'),
                     NEW m \in Payload, m.offset < position'[m.tp],
                     Running(WorkerOf[m.tp])'
              PROVE  m \in UpToDispatch(WorkerOf[m.tp])'
  BY DEF PolledChain
<1>1. WorkerOf[m.tp] \in Workers
  BY DEF ConfigAssumption, Payload, Msg
<1>2. m \in UpToDispatch(WorkerOf[m.tp])
  BY <1>1 DEF PolledChain
<1>. QED
  BY <1>1, <1>2

\* A step that moves no batch keeps every chain.
LEMMA QuietChains ==
    ASSUME TypeOK, UNCHANGED DeliveryStages, UNCHANGED <<witem, wq, grouped>>,
           \A w \in Workers : Running(w)' => Running(w),
           AffinityInv, DeliveryChain, WorkerChain
    PROVE  /\ AffinityInv' /\ DeliveryChain' /\ WorkerChain'
           /\ \A w \in Workers : UpToDispatch(w) \subseteq UpToDispatch(w)'
<1>1. AllCompleted' = AllCompleted /\ DeliveryChain'
  BY DeliveryChainKept
<1>2. AffinityInv'
  BY DEF AffinityInv, OwnedBy
<1>3. WorkerChain'
  BY <1>1, ChainKept DEF WorkerChain
<1>4. \A w \in Workers : UpToDispatch(w) \subseteq UpToDispatch(w)'
  BY <1>1, StagesGrow DEF UpToDispatch
<1>. QED
  BY <1>1, <1>2, <1>3, <1>4

-----------------------------------------------------------------------------
(* The main thread.                                                        *)

\* Committing the accumulator's offsets: they are of acknowledged messages.
LEMMA CommitStep ==
    ASSUME ConfigAssumption, TypeOK, OffsetInv, UNCHANGED acked,
           CommitOk \/ CommitFails \/ NothingToCommit
    PROVE  /\ OffsetInv'
           /\ stop => stop'
           /\ CommitFails \/ UNCHANGED stop
<1>1. \A p \in Partitions : /\ committed'[p] \in {committed[p], acc[p]}
                            /\ acc'[p] \in {0, acc[p]}
  BY DEF TypeOK, CommitOk, CommitFails, NothingToCommit, TakeOffsets, StoreOffsets
<1>2. \A m \in Payload : m.tp \in Partitions /\ m.offset \in Nat
  BY DEF Payload, Msg
<1>3. OffsetInv'
  BY <1>1, <1>2 DEF OffsetInv
<1>. QED
  <2>1. CASE CommitOk \/ NothingToCommit
    <3>1. stop' = stop
      BY <2>1 DEF CommitOk, NothingToCommit
    <3>. QED
      BY <1>3, <3>1
  <2>2. CASE CommitFails
    BY <1>3, <2>2, Zenon DEF CommitFails, Capture
  <2>. QED
    BY <2>1, <2>2

LEMMA MainCommit ==
    ASSUME ConfigAssumption, TypeOK, Affine, CommitInv, Main
    PROVE  CommitInv'
<1>. USE DEF CommitInv
<1>a. ASSUME MainUnchanged PROVE SettledInv'
  BY <1>a DEF SettledInv, Settled, Awaited, MainUnchanged, workerVars, deliveryVars,
              producerVars, reportVars, completedVars
<1>b. ASSUME MainUnchanged, UNCHANGED grouped
      PROVE  /\ AffinityInv' /\ DeliveryChain' /\ WorkerChain'
             /\ \A w \in Workers : Running(w)' = Running(w)
             /\ \A w \in Workers : UpToDispatch(w) \subseteq UpToDispatch(w)'
  <2>1. UNCHANGED DeliveryStages /\ UNCHANGED <<witem, wq, grouped, wpc>>
    BY <1>b DEF MainUnchanged, DeliveryStages, deliveryVars, completedVars, workerVars,
                queueVars
  <2>2. \A w \in Workers : Running(w)' = Running(w)
    BY <2>1 DEF Running
  <2>. QED
    BY <2>1, <2>2, QuietChains
<1>1. CASE LoopExit
  <2>1. MainUnchanged /\ UNCHANGED <<grouped, acked, acc, committed, wpc, witem, dpc, ditem,
                                     wqClosed, stop>> /\ mpc' = "close"
    BY <1>1 DEF LoopExit, MainUnchanged, workerVars, queueVars, deliveryVars
  <2>. QED
    BY <2>1, <1>a, <1>b DEF ControlInv, PolledChain, OffsetInv
<1>2. CASE LoopCommit
  <2>1. MainUnchanged /\ UNCHANGED <<grouped, position, acked, wpc, witem, dpc, ditem,
                                     wqClosed>>
    BY <1>2 DEF LoopCommit, MainUnchanged, workerVars, queueVars, deliveryVars
  <2>2. CommitOk \/ CommitFails \/ NothingToCommit
    BY <1>2 DEF LoopCommit
  <2>3. OffsetInv' /\ (stop => stop')
    BY <2>1, <2>2, CommitStep
  <2>4. mpc = "loop" /\ ~stop /\ mpc' \in {"poll", "close"}
    BY <1>2 DEF LoopCommit
  <2>5. ControlInv'
    BY <2>1, <2>3, <2>4 DEF ControlInv
  <2>6. PolledChain'
    <3>1. \A m \in Payload : WorkerOf[m.tp] \in Workers
      BY DEF ConfigAssumption, Payload, Msg
    <3>. QED
      BY <1>b, <2>1, <2>4, <3>1 DEF PolledChain
  <2>. QED
    BY <2>1, <2>3, <2>5, <2>6, <1>a, <1>b
<1>3. CASE Poll
  <2>0. PICK upto \in Reachable :
          /\ position' = upto
          /\ \E to \in Assignment(Fetched(upto)) :
               grouped' = [w \in Workers |-> {m \in Fetched(upto) : to[m] = w}]
    BY <1>3 DEF Poll
  <2>1. PICK to \in Assignment(Fetched(upto)) :
          grouped' = [w \in Workers |-> {m \in Fetched(upto) : to[m] = w}]
    BY <2>0
  <2>2. MainUnchanged /\ mpc = "poll" /\ mpc' = "dispatch"
        /\ UNCHANGED <<acked, acc, committed, stop, wpc, witem, wq, wqClosed, dpc, ditem>>
        /\ UNCHANGED DeliveryStages
    BY <1>3 DEF Poll, MainUnchanged, workerVars, queueVars, deliveryVars, completedVars,
                DeliveryStages
  <2>3. \A w \in Workers : \A m \in grouped'[w] :
          /\ m \in Payload /\ WorkerOf[m.tp] = w
          /\ position[m.tp] <= m.offset /\ m.offset < upto[m.tp]
    BY <2>1 DEF Assignment, Affine, Fetched
  <2>4. ControlInv'
    BY <2>2 DEF ControlInv
  <2>5. AffinityInv'
    BY <2>2, <2>3 DEF AffinityInv, OwnedBy
  <2>6. DeliveryChain' /\ AllCompleted' = AllCompleted
    BY <2>2, DeliveryChainKept
  <2>7. ASSUME NEW w \in Workers, Running(w),
               NEW n \in Payload, n.offset < upto[n.tp], WorkerOf[n.tp] = w
        PROVE  n \in UpToDispatch(w)'
    <3>1. UpToQueue(w) \subseteq UpToQueue(w)'
      BY <2>2, <2>6, StagesGrow
    <3>2. n.tp \in Partitions /\ n.offset \in Nat
      BY DEF Payload, Msg
    <3>3. position[n.tp] \in Nat /\ upto[n.tp] \in Nat
      BY <3>2, ReachableType DEF TypeOK
    <3>4. CASE n.offset < position[n.tp]
      <4>1. n \in UpToQueue(w)
        BY <2>7, <3>2, <3>4, <2>2 DEF Running, PolledChain, ControlInv, UpToDispatch
      <4>. QED
        BY <4>1, <3>1 DEF UpToDispatch
    <3>5. CASE n.offset >= position[n.tp]
      <4>2. n \in Fetched(upto)
        BY <2>7, <3>2, <3>3, <3>5 DEF Fetched
      <4>3. to[n] = w
        BY <2>7, <4>2, <2>1 DEF Assignment, Affine
      <4>4. n \in grouped'[w]
        BY <2>1, <4>2, <4>3
      <4>. QED
        BY <4>4 DEF UpToDispatch
    <3>. QED
      BY <3>2, <3>3, <3>4, <3>5
  <2>8. WorkerChain'
    <3>. SUFFICES ASSUME NEW w \in Workers, Running(w)
                  PROVE  ChainOf(w)'
      BY <2>2 DEF WorkerChain, Running
    <3>1. /\ UpToWorker(w) \subseteq UpToWorker(w)'
          /\ \A i \in Nat : QueuedUpTo(w, i) \subseteq QueuedUpTo(w, i)'
          /\ UpToQueue(w) \subseteq UpToQueue(w)'
      BY <2>2, <2>6, StagesGrow
    <3>2. \A m \in witem'[w] : Lower(m) \subseteq UpToWorker(w)'
      BY <2>2, <3>1 DEF WorkerChain, ChainOf
    <3>3. \A i \in 1 .. Len(wq'[w]) :
            \A m \in wq'[w][i] : Lower(m) \subseteq QueuedUpTo(w, i)'
      BY <2>2, <3>1 DEF WorkerChain, ChainOf, TypeOK
    <3>4. ASSUME NEW m \in grouped'[w], NEW n \in Lower(m)
          PROVE  n \in UpToDispatch(w)'
      <4>1. /\ n \in Payload /\ n.tp = m.tp /\ n.offset < m.offset /\ WorkerOf[n.tp] = w
            /\ n.tp \in Partitions /\ n.offset \in Nat /\ m.offset \in Nat
        BY <2>3, <3>4 DEF Lower, Payload, Msg
      <4>2. upto[n.tp] \in Nat /\ n.offset < upto[n.tp]
        BY <2>3, <4>1, ReachableType
      <4>. QED
        BY <2>7, <4>1, <4>2
    <3>. QED
      BY <3>2, <3>3, <3>4 DEF ChainOf, Lower
  <2>9. PolledChain'
    <3>1. \A m \in Payload : WorkerOf[m.tp] \in Workers
      BY DEF ConfigAssumption, Payload, Msg
    <3>. QED
      BY <2>0, <2>2, <2>7, <3>1 DEF PolledChain, Running
  <2>10. OffsetInv'
    BY <2>2 DEF OffsetInv
  <2>. QED
    BY <2>2, <2>4, <2>5, <2>6, <2>8, <2>9, <2>10, <1>a
<1>4. CASE PollNothing \/ PollError
  <2>1. MainUnchanged /\ UNCHANGED <<grouped, acked, acc, committed, wpc, witem, dpc, ditem,
                                     wqClosed>> /\ mpc' = "close"
    BY <1>4 DEF PollNothing, PollError, MainUnchanged, workerVars, queueVars, deliveryVars
  <2>2. stop => stop'
    BY <1>4, Zenon DEF PollNothing, PollError, Capture
  <2>. QED
    BY <2>1, <2>2, <1>a, <1>b DEF ControlInv, PolledChain, OffsetInv
<1>5. CASE DispatchPush
  <2>1. PICK w \in Workers :
          /\ ~wqClosed[w]
          /\ wq' = [wq EXCEPT ![w] = Append(@, grouped[w])]
          /\ grouped' = [grouped EXCEPT ![w] = {}]
    BY <1>5 DEF DispatchPush, Waiting
  <2>2. /\ mpc = "dispatch" /\ mpc' = mpc
        /\ UNCHANGED <<position, acked, acc, committed, stop, wpc, witem, wqClosed, dpc,
                       ditem, evaluated, pending, pendingDelivery, produced, todo, outq,
                       reported, completed>>
        /\ UNCHANGED DeliveryStages
    BY <1>5 DEF DispatchPush, DispatchUnchanged, workerVars, deliveryVars, completedVars,
                producerVars, reportVars, DeliveryStages
  <2>3. /\ wq[w] \in Seq(SUBSET Payload) /\ grouped[w] \in SUBSET Payload
        /\ wq'[w] = Append(wq[w], grouped[w]) /\ grouped'[w] = {}
        /\ \A v \in Workers : v # w => wq'[v] = wq[v] /\ grouped'[v] = grouped[v]
    BY <2>1 DEF TypeOK
  <2>4. PICK k \in Nat :
          /\ k = Len(wq[w]) /\ Len(wq'[w]) = k + 1 /\ wq'[w][k + 1] = grouped[w]
          /\ \A i \in 1 .. k : wq'[w][i] = wq[w][i]
    BY <2>3, PushFacts
  <2>a. \A i \in 1 .. k + 1 : i \in 1 .. k \/ i = k + 1
    OBVIOUS
  <2>5. ControlInv'
    BY <2>2 DEF ControlInv
  <2>6. AffinityInv'
    <3>. SUFFICES ASSUME NEW v \in Workers PROVE OwnedBy(v)'
      BY DEF AffinityInv
    <3>1. CASE v # w
      BY <2>2, <2>3, <3>1 DEF AffinityInv, OwnedBy
    <3>2. CASE v = w
      <4>1. \A i \in 1 .. k + 1 : \A m \in wq'[w][i] : WorkerOf[m.tp] = w
        BY <2>4, <2>a DEF AffinityInv, OwnedBy
      <4>. QED
        BY SMTT(30), <2>2, <2>3, <2>4, <3>2, <4>1 DEF AffinityInv, OwnedBy
    <3>. QED
      BY <3>1, <3>2
  <2>7. DeliveryChain' /\ AllCompleted' = AllCompleted
    BY <2>2, DeliveryChainKept
  <2>8. /\ UpToWorker(w)' = UpToWorker(w)
        /\ \A i \in 1 .. k : QueuedUpTo(w, i)' = QueuedUpTo(w, i)
        /\ UpToDispatch(w) = QueuedUpTo(w, k + 1)'
        /\ UpToDispatch(w)' = UpToDispatch(w)
    <3>1. UpToWorker(w)' = UpToWorker(w)
      BY <2>2, <2>7 DEF UpToWorker
    <3>2. \A i \in 1 .. k : QueuedUpTo(w, i)' = QueuedUpTo(w, i)
      BY SMTT(30), <3>1, <2>4 DEF QueuedUpTo
    <3>3. UpToDispatch(w) = QueuedUpTo(w, k + 1)'
      <4>1. \A m : (\E j \in 1 .. k + 1 : m \in wq'[w][j])
                    <=> (\E j \in 1 .. k : m \in wq[w][j]) \/ m \in grouped[w]
        BY <2>4, <2>a
      <4>. QED
        BY <3>1, <4>1, <2>3, <2>4 DEF QueuedUpTo, UpToDispatch, UpToQueue
    <3>4. UpToDispatch(w)' = QueuedUpTo(w, k + 1)'
      BY <2>3, <2>4 DEF UpToDispatch, UpToQueue
    <3>. QED
      BY <3>1, <3>2, <3>3, <3>4
  <2>9. WorkerChain'
    <3>. SUFFICES ASSUME NEW v \in Workers, Running(v)
                  PROVE  ChainOf(v)'
      BY <2>2 DEF WorkerChain, Running
    <3>0. ChainOf(v)
      BY DEF WorkerChain
    <3>1. CASE v # w
      BY <3>0, <3>1, <2>2, <2>3, <2>7, ChainKept
    <3>2. CASE v = w
      <4>1. \A m \in witem'[w] : Lower(m) \subseteq UpToWorker(w)'
        BY <3>0, <3>2, <2>2, <2>8 DEF ChainOf
      <4>2. \A i \in 1 .. k : \A m \in wq'[w][i] : Lower(m) \subseteq QueuedUpTo(w, i)'
        BY <3>0, <3>2, <2>4, <2>8 DEF ChainOf
      <4>3. \A m \in wq'[w][k + 1] : Lower(m) \subseteq QueuedUpTo(w, k + 1)'
        BY <3>0, <3>2, <2>4, <2>8 DEF ChainOf
      <4>4. \A i \in 1 .. k + 1 : \A m \in wq'[w][i] : Lower(m) \subseteq QueuedUpTo(w, i)'
        BY <4>2, <4>3, <2>a
      <4>. QED
        BY <3>2, <4>1, <4>4, <2>3, <2>4 DEF ChainOf, Lower
    <3>. QED
      BY <3>1, <3>2
  <2>10. PolledChain'
    <3>1. \A v \in Workers : UpToDispatch(v) \subseteq UpToDispatch(v)'
      <4>. SUFFICES ASSUME NEW v \in Workers, v # w
                    PROVE  UpToDispatch(v) \subseteq UpToDispatch(v)'
        BY <2>8
      <4>. QED
        BY <2>2, <2>3, <2>7, StagesGrow DEF UpToDispatch
    <3>2. \A v \in Workers : Running(v)' = Running(v)
      BY <2>2 DEF Running
    <3>. QED
      BY <2>2, <3>1, <3>2, PolledChainKept
  <2>11. OffsetInv' /\ SettledInv'
    BY <2>2 DEF OffsetInv, SettledInv, Settled, Awaited
  <2>. QED
    BY <2>5, <2>6, <2>7, <2>9, <2>10, <2>11
<1>6. CASE DispatchEnd
  <2>1. /\ mpc = "dispatch" /\ mpc' = "loop"
        /\ grouped' = [w \in Workers |-> {}]
        /\ UNCHANGED <<position, acked, acc, committed, stop, wpc, witem, wq, wqClosed, dpc,
                       ditem, evaluated, pending, pendingDelivery, produced, todo, outq,
                       reported, completed>>
        /\ UNCHANGED DeliveryStages
    BY <1>6 DEF DispatchEnd, DispatchUnchanged, workerVars, deliveryVars, completedVars,
                producerVars, reportVars, DeliveryStages
  <2>2. stop \/ Waiting = {}
    BY <1>6 DEF DispatchEnd, ControlInv, Waiting
  <2>3. ControlInv' /\ AffinityInv'
    BY <2>1 DEF ControlInv, AffinityInv, OwnedBy
  <2>4. DeliveryChain' /\ AllCompleted' = AllCompleted
    BY <2>1, DeliveryChainKept
  <2>5. \A w \in Workers :
          /\ UpToWorker(w) \subseteq UpToWorker(w)'
          /\ \A i \in Nat : QueuedUpTo(w, i) \subseteq QueuedUpTo(w, i)'
          /\ UpToQueue(w) \subseteq UpToQueue(w)'
    BY <2>1, <2>4, StagesGrow
  <2>6. WorkerChain'
    <3>. SUFFICES ASSUME NEW w \in Workers, Running(w)
                  PROVE  ChainOf(w)'
      BY <2>1 DEF WorkerChain, Running
    <3>1. Len(wq[w]) \in Nat /\ ChainOf(w)
      BY DEF TypeOK, WorkerChain
    <3>. QED
      BY <3>1, <2>1, <2>5 DEF ChainOf
  <2>7. PolledChain'
    <3>. SUFFICES ASSUME ~stop, NEW m \in Payload, m.offset < position[m.tp],
                         Running(WorkerOf[m.tp])
                  PROVE  m \in UpToDispatch(WorkerOf[m.tp])'
      BY <2>1 DEF PolledChain, Running
    <3>1. WorkerOf[m.tp] \in Workers
      BY DEF ConfigAssumption, Payload, Msg
    <3>2. m \in UpToDispatch(WorkerOf[m.tp]) /\ grouped[WorkerOf[m.tp]] = {}
      BY <2>1, <2>2, <3>1 DEF PolledChain, Waiting
    <3>. QED
      BY <3>1, <3>2, <2>5 DEF UpToDispatch
  <2>8. OffsetInv' /\ SettledInv'
    BY <2>1 DEF OffsetInv, SettledInv, Settled, Awaited
  <2>. QED
    BY <2>3, <2>4, <2>6, <2>7, <2>8
<1>7. CASE CloseQueues \/ JoinWorkers
  <2>1. /\ mpc' \in {"join", "joinDelivery"}
        /\ UNCHANGED <<position, acked, acc, committed, stop, wpc, witem, wq, dpc, grouped,
                       ditem, evaluated, pending, pendingDelivery, produced, todo, outq,
                       reported, completed>>
        /\ UNCHANGED DeliveryStages
    BY <1>7 DEF CloseQueues, JoinWorkers, workerVars, deliveryVars, completedVars,
                producerVars, reportVars, queueVars, DeliveryStages
  <2>2. AffinityInv' /\ DeliveryChain' /\ WorkerChain'
    BY <2>1, QuietChains DEF Running
  <2>3. ControlInv' /\ PolledChain'
    BY <2>1 DEF ControlInv, PolledChain
  <2>4. OffsetInv' /\ SettledInv'
    BY <2>1 DEF OffsetInv, SettledInv, Settled, Awaited
  <2>. QED
    BY <2>2, <2>3, <2>4
<1>8. CASE JoinDelivery
  <2>1. /\ MainUnchanged /\ mpc' = "commit"
        /\ UNCHANGED <<grouped, acked, acc, committed, wpc, witem, dpc, ditem, wqClosed, stop>>
    BY <1>8 DEF JoinDelivery, MainUnchanged, workerVars, queueVars, deliveryVars
  <2>. QED
    BY <2>1, <1>a, <1>b DEF ControlInv, PolledChain, OffsetInv
<1>9. CASE FinalCommit
  <2>1. /\ MainUnchanged /\ mpc' = "done"
        /\ UNCHANGED <<grouped, acked, wpc, witem, dpc, ditem, wqClosed>>
        /\ CommitOk \/ CommitFails \/ NothingToCommit
    BY <1>9 DEF FinalCommit, MainUnchanged, workerVars, queueVars, deliveryVars
  <2>2. OffsetInv' /\ (stop => stop')
    BY <2>1, CommitStep
  <2>. QED
    BY <2>1, <2>2, <1>a, <1>b DEF ControlInv, PolledChain
<1>. QED
  BY <1>1, <1>2, <1>3, <1>4, <1>5, <1>6, <1>7, <1>8, <1>9 DEF Main

-----------------------------------------------------------------------------
(* The worker threads.                                                     *)

LEMMA WorkerCommit ==
    ASSUME ConfigAssumption, TypeOK, Affine, CommitInv,
           NEW w \in Workers, Worker(w)
    PROVE  CommitInv'
<1>. USE DEF CommitInv
<1>0. /\ UNCHANGED <<mpc, position, grouped, dpc, ditem, todo, produced, pending,
                     pendingDelivery, outq, reported, committed, acc, acked>>
      /\ UNCHANGED <<grouped>>
  BY DEF Worker, WorkerStart, WorkerFails, WorkerPop, WorkerDrained, WorkerEval, WorkerPush,
         WorkerUnchanged, mainVars, deliveryVars, producerVars, reportVars
<1>1. OffsetInv'
  BY <1>0 DEF OffsetInv
\* Nothing moves: the thread starts, fails or ends.
<1>2. CASE WorkerStart(w) \/ WorkerFails(w) \/ WorkerDrained(w)
  <2>1. /\ UNCHANGED <<wq, witem, completed, evaluated>>
        /\ \A v \in Workers : v # w => wpc'[v] = wpc[v]
        /\ wpc'[w] \in {"pop", "failing", "exit"}
        /\ wpc'[w] = "pop" => wpc[w] = "start"
        /\ Running(w)' => Running(w)
    BY <1>2 DEF WorkerStart, WorkerFails, WorkerDrained, queueVars, completedVars, TypeOK,
                Running
  <2>2. stop' = stop \/ stop' = TRUE
    BY <1>2 DEF WorkerStart, WorkerFails, WorkerDrained, Capture
  <2>3. stop => stop'
    BY <2>2, Zenon
  <2>4. \A v \in Workers : Running(v)' => Running(v)
    BY <2>1 DEF Running
  <2>5. /\ AffinityInv' /\ DeliveryChain' /\ WorkerChain'
        /\ \A v \in Workers : UpToDispatch(v) \subseteq UpToDispatch(v)'
    BY <1>0, <2>1, <2>4, QuietChains DEF DeliveryStages
  <2>6. PolledChain'
    BY <1>0, <2>3, <2>4, <2>5, PolledChainKept
  <2>7. SettledInv'
    BY <1>0, <2>1 DEF SettledInv, Settled, Awaited
  <2>8. ControlInv'
    <3>1. wpc'[w] = "failing" => stop'
      BY <1>2, Zenon DEF WorkerStart, WorkerFails, WorkerDrained, Capture, TypeOK
    <3>2. wpc[w] = "failing" => stop
      BY DEF ControlInv
    <3>3. \A v \in Workers : wqClosed'[v] => wqClosed[v] \/ wpc[w] = "failing"
      BY <1>2 DEF WorkerStart, WorkerFails, WorkerDrained, queueVars
    <3>. QED
      BY <1>0, <2>1, <2>3, <3>1, <3>2, <3>3 DEF ControlInv
  <2>. QED
    BY <1>1, <2>5, <2>6, <2>7, <2>8
<1>3. CASE WorkerPop(w)
  <2>1. /\ wq[w] \in Seq(SUBSET Payload) /\ wq[w] # <<>>
        /\ wpc[w] = "pop" /\ wpc'[w] = "eval"
        /\ witem'[w] = Head(wq[w]) /\ wq'[w] = Tail(wq[w])
        /\ \A v \in Workers : v # w => wpc'[v] = wpc[v] /\ witem'[v] = witem[v] /\ wq'[v] = wq[v]
        /\ UNCHANGED <<wqClosed, completed, evaluated, stop>>
    BY <1>3 DEF WorkerPop, TypeOK, completedVars
  <2>2. PICK k \in Nat :
          /\ Len(wq[w]) = k + 1 /\ Len(wq'[w]) = k /\ witem'[w] = wq[w][1]
          /\ \A i \in 1 .. k : wq'[w][i] = wq[w][i + 1]
    <3>. DEFINE n == Len(wq[w]) - 1
    <3>1. n \in Nat /\ Len(wq[w]) = n + 1 /\ Len(wq'[w]) = n /\ witem'[w] = wq[w][1]
      BY <2>1, PopFacts
    <3>2. \A i \in 1 .. n : wq'[w][i] = wq[w][i + 1]
      BY <2>1, PopFacts
    <3>. HIDE DEF n
    <3>. QED
      BY <3>1, <3>2
  <2>3. witem[w] = {}
    BY <2>1 DEF ControlInv
  <2>4. ControlInv'
    BY <1>0, <2>1 DEF ControlInv
  <2>5. AffinityInv'
    <3>. SUFFICES ASSUME NEW v \in Workers PROVE OwnedBy(v)'
      BY DEF AffinityInv
    <3>1. CASE v # w
      BY <1>0, <2>1, <3>1 DEF AffinityInv, OwnedBy
    <3>2. CASE v = w
      <4>1. \A i \in 1 .. k + 1 : \A m \in wq[w][i] : WorkerOf[m.tp] = w
        BY <2>2 DEF AffinityInv, OwnedBy
      <4>a. \A i \in 1 .. k : i + 1 \in 1 .. k + 1 /\ wq'[w][i] = wq[w][i + 1]
        BY <2>2
      <4>2. \A i \in 1 .. k : \A m \in wq'[w][i] : WorkerOf[m.tp] = w
        BY <4>1, <4>a
      <4>3. \A m \in witem'[w] : WorkerOf[m.tp] = w
        BY <2>2, <4>1
      <4>. QED
        BY <1>0, <2>2, <3>2, <4>2, <4>3 DEF AffinityInv, OwnedBy
    <3>. QED
      BY <3>1, <3>2
  <2>6. DeliveryChain' /\ AllCompleted' = AllCompleted
    BY <1>0, <2>1, DeliveryChainKept DEF DeliveryStages
  <2>7. /\ UpToWorker(w)' = QueuedUpTo(w, 1)
        /\ \A i \in 1 .. k : QueuedUpTo(w, i)' = QueuedUpTo(w, i + 1)
        /\ UpToDispatch(w)' = UpToDispatch(w)
    <3>0. wq[w][1] \in SUBSET Payload
      BY <2>1
    <3>1. UpToWorker(w)' = QueuedUpTo(w, 1)
      BY <2>2, <2>3, <2>6, <3>0 DEF UpToWorker, QueuedUpTo
    <3>2. ASSUME NEW i \in 0 .. k
          PROVE  QueuedUpTo(w, i)' = QueuedUpTo(w, i + 1)
      <4>1. ASSUME NEW m
            PROVE  (\E j \in 1 .. i + 1 : m \in wq[w][j])
                     <=> m \in wq[w][1] \/ (\E j \in 1 .. i : m \in wq'[w][j])
        <5>a. \A j \in 1 .. i + 1 : j = 1 \/ (j - 1 \in 1 .. i /\ j - 1 \in 1 .. k /\ (j - 1) + 1 = j)
          OBVIOUS
        <5>1. \A j \in 1 .. i + 1 : j = 1 \/ (j - 1 \in 1 .. i /\ wq'[w][j - 1] = wq[w][j])
          BY <2>2, <5>a
        <5>b. \A j \in 1 .. i : j \in 1 .. k /\ j + 1 \in 1 .. i + 1
          OBVIOUS
        <5>2. \A j \in 1 .. i : j + 1 \in 1 .. i + 1 /\ wq'[w][j] = wq[w][j + 1]
          BY <2>2, <5>b
        <5>3. 1 \in 1 .. i + 1
          OBVIOUS
        <5>. QED
          BY <5>1, <5>2, <5>3
      <4>. QED
        BY <2>2, <2>3, <2>6, <3>0, <4>1 DEF UpToWorker, QueuedUpTo
    <3>3. UpToQueue(w)' = UpToQueue(w)
      <4>1. QueuedUpTo(w, k)' = QueuedUpTo(w, k + 1)
        BY <3>2
      <4>. QED
        BY <4>1, <2>2 DEF UpToQueue
    <3>. QED
      BY <1>0, <3>1, <3>2, <3>3 DEF UpToDispatch
  <2>8. WorkerChain'
    <3>. SUFFICES ASSUME NEW v \in Workers, Running(v)
                  PROVE  ChainOf(v)'
      BY <2>1 DEF WorkerChain, Running
    <3>0. ChainOf(v)
      BY DEF WorkerChain
    <3>1. CASE v # w
      BY <1>0, <3>0, <3>1, <2>1, <2>6, ChainKept
    <3>2. CASE v = w
      <4>1. \A i \in 1 .. k + 1 : \A m \in wq[w][i] : Lower(m) \subseteq QueuedUpTo(w, i)
        BY <3>0, <3>2, <2>2 DEF ChainOf
      <4>2. \A m \in witem'[w] : Lower(m) \subseteq UpToWorker(w)'
        BY <4>1, <2>2, <2>7
      <4>3. \A i \in 1 .. k : \A m \in wq'[w][i] : Lower(m) \subseteq QueuedUpTo(w, i)'
        BY <4>1, <2>2, <2>7
      <4>4. \A m \in grouped[w] : Lower(m) \subseteq UpToDispatch(w)'
        BY <3>0, <3>2, <2>7 DEF ChainOf
      <4>. QED
        BY <1>0, <3>2, <4>2, <4>3, <4>4, <2>2 DEF ChainOf, Lower
    <3>. QED
      BY <3>1, <3>2
  <2>9. PolledChain'
    <3>1. \A v \in Workers : UpToDispatch(v) \subseteq UpToDispatch(v)'
      <4>. SUFFICES ASSUME NEW v \in Workers, v # w
                    PROVE  UpToDispatch(v) \subseteq UpToDispatch(v)'
        BY <2>7
      <4>. QED
        BY <1>0, <2>1, <2>6, StagesGrow DEF UpToDispatch
    <3>2. \A v \in Workers : Running(v)' => Running(v)
      BY <2>1 DEF Running
    <3>. QED
      BY <1>0, <2>1, <3>1, <3>2, PolledChainKept
  <2>10. SettledInv'
    BY <1>0, <2>1 DEF SettledInv, Settled, Awaited
  <2>. QED
    BY <1>1, <2>4, <2>5, <2>6, <2>8, <2>9, <2>10
<1>4. CASE WorkerEval(w)
  <2>1. /\ wpc[w] = "eval" /\ wpc'[w] \in {"push", "exit"}
        /\ UNCHANGED <<wq, wqClosed, completed, stop>>
        /\ \A v \in Workers : v # w => wpc'[v] = wpc[v] /\ witem'[v] = witem[v]
        /\ evaluated \subseteq evaluated'
        /\ wpc'[w] = "push" => witem'[w] = witem[w] /\ witem[w] \subseteq evaluated'
        /\ wpc'[w] = "exit" => witem'[w] = {}
    BY <1>4 DEF WorkerEval, TypeOK, queueVars, completedVars
  <2>2. ControlInv'
    BY <1>0, <2>1 DEF ControlInv
  <2>3. AffinityInv'
    BY <1>0, <2>1 DEF AffinityInv, OwnedBy
  <2>4. DeliveryChain' /\ AllCompleted' = AllCompleted
    BY <1>0, <2>1, DeliveryChainKept DEF DeliveryStages
  <2>5. \A v \in Workers : Running(v)' => Running(v) /\ witem'[v] = witem[v]
    BY <2>1 DEF Running
  <2>6. WorkerChain'
    BY <1>0, <2>1, <2>4, <2>5, ChainKept DEF WorkerChain
  <2>7. \A v \in Workers : Running(v)' => UpToDispatch(v) \subseteq UpToDispatch(v)'
    BY <1>0, <2>1, <2>4, <2>5, StagesGrow DEF UpToDispatch
  <2>8. PolledChain'
    BY <1>0, <2>1, <2>5, <2>7, PolledChainKept
  <2>9. SettledInv'
    BY <1>0, <2>1 DEF SettledInv, Settled, Awaited
  <2>. QED
    BY <1>1, <2>2, <2>3, <2>4, <2>6, <2>8, <2>9
<1>5. CASE WorkerPush(w)
  <2>1. /\ wpc[w] = "push" /\ wpc'[w] \in {"pop", "exit"} /\ witem'[w] = {}
        /\ UNCHANGED <<wq, wqClosed, evaluated, stop>>
        /\ \A v \in Workers : v # w => wpc'[v] = wpc[v] /\ witem'[v] = witem[v]
    BY <1>5 DEF WorkerPush, TypeOK, queueVars
  <2>2. \/ wpc'[w] = "exit" /\ completed' = completed
        \/ wpc'[w] = "pop" /\ completed' = Append(completed, Result(witem[w]))
    BY <1>5 DEF WorkerPush, TypeOK
  <2>3. ControlInv'
    BY <1>0, <2>1 DEF ControlInv
  <2>4. AffinityInv'
    BY <1>0, <2>1 DEF AffinityInv, OwnedBy
  <2>5. CASE wpc'[w] = "exit" /\ completed' = completed
    <3>1. DeliveryChain' /\ AllCompleted' = AllCompleted
      BY <1>0, <2>5, DeliveryChainKept DEF DeliveryStages
    <3>2. \A v \in Workers : Running(v)' => Running(v) /\ witem'[v] = witem[v]
      BY <2>1, <2>5 DEF Running
    <3>3. WorkerChain'
      BY <1>0, <2>1, <3>1, <3>2, ChainKept DEF WorkerChain
    <3>4. \A v \in Workers : Running(v)' => UpToDispatch(v) \subseteq UpToDispatch(v)'
      BY <1>0, <2>1, <3>1, <3>2, StagesGrow DEF UpToDispatch
    <3>5. PolledChain'
      BY <1>0, <2>1, <3>2, <3>4, PolledChainKept
    <3>6. SettledInv'
      BY <1>0, <2>1, <2>5 DEF SettledInv, Settled, Awaited
    <3>. QED
      BY <1>1, <2>3, <2>4, <3>1, <3>3, <3>5, <3>6
  <2>6. CASE wpc'[w] = "pop" /\ completed' = Append(completed, Result(witem[w]))
    <3>1. Result(witem[w]) \in Results /\ completed \in Seq(Results)
      BY DEF TypeOK, Result, Results
    <3>2. PICK k \in Nat :
            /\ k = Len(completed) /\ Len(completed') = k + 1
            /\ completed'[k + 1] = Result(witem[w])
            /\ \A i \in 1 .. k : completed'[i] = completed[i]
      BY <2>6, <3>1, PushFacts
    <3>3. /\ Result(witem[w]).msgs = witem[w]
          /\ ~Result(witem[w]).error => witem[w] \cap Failing = {}
      BY DEF Result
    <3>a. \A i \in 1 .. k + 1 : i \in 1 .. k \/ i = k + 1
      OBVIOUS
    <3>4. \A i \in 1 .. k : CompletedUpTo(i)' = CompletedUpTo(i)
      BY <1>0, <3>2 DEF CompletedUpTo, Collected
    <3>5. CompletedUpTo(k + 1)' = AllCompleted \cup witem[w]
      <4>1. \A m : (\E j \in 1 .. k + 1 : m \in completed'[j].msgs)
                    <=> (\E j \in 1 .. k : m \in completed[j].msgs) \/ m \in witem[w]
        BY <3>2, <3>3, <3>a
      <4>2. witem[w] \subseteq Payload
        BY DEF TypeOK
      <4>. QED
        BY <1>0, <3>2, <4>1, <4>2 DEF CompletedUpTo, Collected, AllCompleted
    <3>6. AllCompleted' = UpToWorker(w)
      BY <3>2, <3>5 DEF AllCompleted, UpToWorker
    <3>7. UpToWorker(w)' = UpToWorker(w) /\ AllCompleted \subseteq AllCompleted'
      BY <2>1, <3>6 DEF UpToWorker
    <3>8. DeliveryChain'
      <4>1. \A m \in witem[w] : Lower(m) \subseteq UpToWorker(w)
        BY <2>1 DEF WorkerChain, ChainOf, Running
      <4>2. \A i \in 1 .. k : \A m \in completed'[i].msgs : Lower(m) \subseteq CompletedUpTo(i)'
        BY <3>2, <3>4 DEF DeliveryChain
      <4>3. \A m \in completed'[k + 1].msgs : Lower(m) \subseteq CompletedUpTo(k + 1)'
        BY <3>2, <3>3, <3>5, <4>1 DEF UpToWorker
      <4>4. \A i \in 1 .. k + 1 : \A m \in completed'[i].msgs : Lower(m) \subseteq CompletedUpTo(i)'
        BY <4>2, <4>3, <3>a
      <4>. QED
        BY <1>0, <3>2, <4>4 DEF DeliveryChain, Collected, Lower
    <3>9. \A i : QueuedUpTo(w, i)' = QueuedUpTo(w, i)
      BY <2>1, <3>7 DEF QueuedUpTo
    <3>10. UpToDispatch(w)' = UpToDispatch(w)
      BY <1>0, <2>1, <3>9 DEF UpToDispatch, UpToQueue
    <3>11. WorkerChain'
      <4>. SUFFICES ASSUME NEW v \in Workers, Running(v)
                    PROVE  ChainOf(v)'
        BY <2>1 DEF WorkerChain, Running
      <4>0. ChainOf(v)
        BY DEF WorkerChain
      <4>1. CASE v # w
        BY <1>0, <4>0, <4>1, <2>1, <3>7, ChainKept
      <4>2. CASE v = w
        BY <1>0, <2>1, <4>0, <4>2, <3>9, <3>10 DEF ChainOf, Lower
      <4>. QED
        BY <4>1, <4>2
    <3>12. PolledChain'
      <4>1. \A v \in Workers : UpToDispatch(v) \subseteq UpToDispatch(v)'
        <5>. SUFFICES ASSUME NEW v \in Workers, v # w
                      PROVE  UpToDispatch(v) \subseteq UpToDispatch(v)'
          BY <3>10
        <5>. QED
          BY <1>0, <2>1, <3>7, StagesGrow DEF UpToDispatch
      <4>2. \A v \in Workers : Running(v)' => Running(v)
        BY <2>1 DEF Running
      <4>. QED
        BY <1>0, <2>1, <4>1, <4>2, PolledChainKept
    <3>13. SettledInv'
      <4>1. witem[w] \subseteq evaluated
        BY <2>1 DEF SettledInv
      <4>2. \A i \in 1 .. k + 1 : /\ completed'[i].msgs \subseteq evaluated
                                  /\ ~completed'[i].error => completed'[i].msgs \cap Failing = {}
        BY <3>2, <3>3, <3>a, <4>1 DEF SettledInv
      <4>. QED
        BY <1>0, <2>1, <3>2, <4>2 DEF SettledInv, Settled, Awaited
    <3>. QED
      BY <1>1, <2>3, <2>4, <3>8, <3>11, <3>12, <3>13
  <2>. QED
    BY <2>2, <2>5, <2>6
<1>. QED
  BY <1>2, <1>3, <1>4, <1>5 DEF Worker

-----------------------------------------------------------------------------
(* The delivery thread.                                                    *)

\* Whatever the output mode, the outputs of a batch cover the messages that need
\* one.
LEMMA OutputsCover ==
    ASSUME ConfigAssumption, NEW item \in Results, NEW m \in item.msgs, NeedsOutput(m),
           item.error \/ m \notin Failing
    PROVE  m \in UNION Outputs(item)
<1>1. CASE item.error
  BY <1>1 DEF Outputs
<1>2. CASE ~item.error
  <2>1. Producing /\ m \notin Silent /\ m \in item.msgs \ Silent
    BY <1>2 DEF NeedsOutput
  <2>2. CASE OutputMode = "rows"
    <3>1. {m} \in DecisionOutputs(item.msgs)
      BY <2>1, <2>2 DEF DecisionOutputs
    <3>. QED
      BY <1>2, <3>1 DEF Outputs
  <2>3. CASE OutputMode = "grouped"
    <3>1. {x \in item.msgs \ Silent : Label[x] = Label[m]} \in DecisionOutputs(item.msgs)
      BY <2>1, <2>3 DEF DecisionOutputs
    <3>. QED
      BY <1>2, <2>1, <3>1 DEF Outputs
  <2>. QED
    BY <2>1, <2>2, <2>3 DEF ConfigAssumption, Producing
<1>. QED
  BY <1>1, <1>2

LEMMA DeliveryCommit ==
    ASSUME ConfigAssumption, TypeOK, Affine, CommitInv, Delivery
    PROVE  CommitInv'
<1>. USE DEF CommitInv
<1>0. UNCHANGED <<mpc, position, grouped, wpc, witem, reported, committed, evaluated, wq>>
  BY DEF Delivery, DeliveryPop, Produce, Collect, PopTimeout, FlushAcknowledges, FlushFails,
         DeliveryFails, DeliveryUnchanged, mainVars, workerVars, reportVars, queueVars
<1>a. \A w \in Workers : Running(w)' = Running(w)
  BY <1>0 DEF Running
\* What keeps AllCompleted keeps the chains of the workers.
<1>b. ASSUME AllCompleted \subseteq AllCompleted', stop => stop'
      PROVE  AffinityInv' /\ WorkerChain' /\ PolledChain'
  <2>1. AffinityInv'
    BY <1>0 DEF AffinityInv, OwnedBy
  <2>2. WorkerChain'
    BY <1>0, <1>a, <1>b, ChainKept DEF WorkerChain
  <2>3. \A w \in Workers : UpToDispatch(w) \subseteq UpToDispatch(w)'
    BY <1>0, <1>b, StagesGrow DEF UpToDispatch
  <2>4. PolledChain'
    BY <1>0, <1>a, <1>b, <2>3, PolledChainKept
  <2>. QED
    BY <2>1, <2>2, <2>4
<1>1. CASE DeliveryPop
  <2>1. /\ dpc = "pop" /\ completed # <<>> /\ completed \in Seq(Results)
        /\ completed' = Tail(completed) /\ ditem' = Head(completed).msgs
        /\ UNCHANGED <<pending, pendingDelivery, outq, wqClosed, acc, acked>>
    BY <1>1 DEF DeliveryPop, TypeOK, producerVars, queueVars
  <2>2. PICK k \in Nat :
          /\ Len(completed) = k + 1 /\ Len(completed') = k /\ ditem' = completed[1].msgs
          /\ \A i \in 1 .. k : completed'[i] = completed[i + 1]
    <3>. DEFINE n == Len(completed) - 1
    <3>1. /\ n \in Nat /\ Len(completed) = n + 1 /\ Len(completed') = n
          /\ ditem' = completed[1].msgs
      BY <2>1, PopFacts
    <3>2. \A i \in 1 .. n : completed'[i] = completed[i + 1]
      BY <2>1, PopFacts
    <3>. HIDE DEF n
    <3>. QED
      BY <3>1, <3>2
  <2>3. ditem = {} /\ completed[1] \in Results /\ Head(completed) = completed[1]
    BY <2>1, PopFacts DEF ControlInv
  <2>4. ASSUME NEW i \in 0 .. k
        PROVE  CompletedUpTo(i)' = CompletedUpTo(i + 1)
    <3>1. ASSUME NEW m
          PROVE  (\E j \in 1 .. i + 1 : m \in completed[j].msgs)
                   <=> m \in ditem' \/ (\E j \in 1 .. i : m \in completed'[j].msgs)
      <4>1. \A j \in 1 .. i + 1 : j = 1 \/ (j - 1 \in 1 .. i /\ completed'[j - 1] = completed[j])
        BY <2>2
      <4>2. \A j \in 1 .. i : j + 1 \in 1 .. i + 1 /\ completed'[j] = completed[j + 1]
        BY <2>2
      <4>3. 1 \in 1 .. i + 1
        OBVIOUS
      <4>. QED
        BY <2>2, <4>1, <4>2, <4>3
    <3>2. ditem' \subseteq Payload
      BY <2>2, <2>3 DEF Results
    <3>. QED
      BY <2>1, <2>3, <3>1, <3>2 DEF CompletedUpTo, Collected
  <2>5. AllCompleted' = AllCompleted
    <3>1. CompletedUpTo(k)' = CompletedUpTo(k + 1)
      BY <2>4
    <3>. QED
      BY <3>1, <2>2 DEF AllCompleted
  <2>6. Collected' = CompletedUpTo(1)
    <3>1. CompletedUpTo(0)' = CompletedUpTo(1)
      BY <2>4
    <3>2. CompletedUpTo(0)' = Collected'
      BY DEF CompletedUpTo
    <3>. QED
      BY <3>1, <3>2
  <2>7. DeliveryChain'
    <3>1. \A i \in 1 .. k + 1 : \A m \in completed[i].msgs : Lower(m) \subseteq CompletedUpTo(i)
      BY <2>2 DEF DeliveryChain
    <3>2. \A m \in ditem' : Lower(m) \subseteq Collected'
      BY <3>1, <2>2, <2>6
    <3>3. \A i \in 1 .. k : \A m \in completed'[i].msgs : Lower(m) \subseteq CompletedUpTo(i)'
      BY <3>1, <2>2, <2>4
    <3>. QED
      BY <2>1, <2>2, <3>2, <3>3 DEF DeliveryChain, Lower
  <2>8. stop' = stop \/ stop' = TRUE
    BY <1>1 DEF DeliveryPop, Capture
  <2>9. dpc' = "failing" => stop'
    BY <1>1, Zenon DEF DeliveryPop, Capture
  <2>10. stop => stop'
    BY <2>8, Zenon
  <2>11. ControlInv'
    BY <1>0, <2>1, <2>9, <2>10, <1>1 DEF ControlInv, DeliveryPop
  <2>12. SettledInv'
    <3>1. \A i \in 1 .. k : /\ completed'[i].msgs \subseteq evaluated
                            /\ ~completed'[i].error => completed'[i].msgs \cap Failing = {}
      BY <2>2 DEF SettledInv
    <3>2. /\ completed[1].msgs \subseteq evaluated
          /\ ~completed[1].error => completed[1].msgs \cap Failing = {}
      BY <2>2 DEF SettledInv
    <3>3. dpc' = "produce" => todo' = Outputs(completed[1])
      BY <1>1, <2>3 DEF DeliveryPop
    <3>4. ASSUME dpc' = "produce", NEW m \in ditem'
          PROVE  m \in evaluated /\ Awaited(m, todo)'
      <4>1. m \in completed[1].msgs /\ (completed[1].error \/ m \notin Failing)
        BY <2>2, <3>2, <3>4
      <4>2. NeedsOutput(m) => m \in UNION todo'
        BY <4>1, <2>3, <3>3, <3>4, OutputsCover
      <4>. QED
        BY <3>2, <4>1, <4>2 DEF Awaited, NeedsOutput
    <3>5. \A m : Awaited(m, todo)' => Awaited(m, outq \cup todo)'
      BY DEF Awaited
    <3>6. dpc' = "produce" =>
            \A m \in ditem' : /\ m \in evaluated'
                              /\ Awaited(m, outq \cup todo)'
                              /\ ~produced' => Awaited(m, todo)'
      BY <1>0, <3>4, <3>5
    <3>. QED
      BY <1>0, <2>1, <2>2, <3>1, <3>6 DEF SettledInv, Settled, Awaited
  <2>13. OffsetInv'
    BY <1>0, <2>1 DEF OffsetInv
  <2>. QED
    BY <1>b, <2>5, <2>7, <2>10, <2>11, <2>12, <2>13
<1>2. CASE Produce
  <2>1. /\ dpc = "produce" /\ dpc' \in {"produce", "failing"}
        /\ UNCHANGED <<ditem, pending, pendingDelivery, wqClosed, completed, acc, acked>>
    BY <1>2 DEF Produce, queueVars, completedVars
  <2>2. dpc' = "produce" =>
          \E out \in todo : /\ outq' = outq \cup {out} /\ todo' = todo \ {out}
                            /\ produced' = TRUE
    BY <1>2 DEF Produce
  <2>3. outq \subseteq outq'
    BY <1>2 DEF Produce
  <2>4. /\ stop => stop'
        /\ dpc' = "failing" => stop'
    <3>1. \/ stop' = stop /\ dpc' = dpc
          \/ stop' = TRUE
      BY <1>2 DEF Produce, Capture
    <3>2. dpc' = "failing" => stop' = TRUE
      BY <2>1, <3>1
    <3>3. stop' = stop \/ stop' = TRUE
      BY <3>1
    <3>4. stop => stop'
      BY <3>3, Zenon
    <3>5. dpc' = "failing" => stop'
      BY <3>2
    <3>. QED
      BY <3>4, <3>5
  <2>5. DeliveryChain' /\ AllCompleted' = AllCompleted
    BY <2>1, DeliveryChainKept DEF DeliveryStages
  <2>6. ControlInv'
    BY <1>0, <2>1, <2>4 DEF ControlInv
  <2>7. SettledInv'
    <3>1. \A m : Awaited(m, outq) => Awaited(m, outq)'
      BY <1>0, <2>3 DEF Awaited, NeedsOutput
    <3>2. dpc' = "produce" => \A m : Awaited(m, outq \cup todo) => Awaited(m, outq \cup todo)'
      BY <1>0, <2>2 DEF Awaited, NeedsOutput
    <3>3. dpc' = "produce" => produced'
      BY <2>2, Zenon
    <3>. QED
      BY <1>0, <2>1, <3>1, <3>2, <3>3 DEF SettledInv, Settled
  <2>8. OffsetInv'
    BY <1>0, <2>1 DEF OffsetInv
  <2>. QED
    BY <1>b, <2>4, <2>5, <2>6, <2>7, <2>8
<1>3. CASE Collect
  <2>1. /\ dpc = "produce" /\ todo = {} /\ dpc' \in {"flush", "pop"}
        /\ pending' = pending \cup ditem /\ ditem' = {}
        /\ UNCHANGED <<outq, wqClosed, completed, acc, acked, stop>>
    BY <1>3 DEF Collect, producerVars, queueVars, completedVars
  <2>2. pendingDelivery' \/ (~pendingDelivery /\ ~produced)
    BY <1>3, Zenon DEF Collect
  <2>3. Collected' = Collected
    BY <2>1 DEF Collected
  <2>4. /\ \A i : CompletedUpTo(i)' = CompletedUpTo(i)
        /\ AllCompleted' = AllCompleted
    BY <2>1, <2>3 DEF CompletedUpTo, AllCompleted
  <2>5. DeliveryChain'
    BY <2>1, <2>3, <2>4 DEF DeliveryChain, Collected, Lower
  <2>6. ControlInv'
    BY <1>0, <2>1 DEF ControlInv
  <2>7. SettledInv'
    <3>1. \A m \in ditem : m \in evaluated /\ Awaited(m, outq)
      BY <2>1 DEF SettledInv, Awaited
    <3>2. ~pendingDelivery' => \A m \in pending' : Settled(m)
      BY <2>1, <2>2 DEF SettledInv, Settled, Awaited
    <3>. QED
      BY <1>0, <2>1, <3>1, <3>2 DEF SettledInv, Settled, Awaited
  <2>8. OffsetInv'
    BY <1>0, <2>1 DEF OffsetInv
  <2>. QED
    BY <1>b, <2>1, <2>4, <2>5, <2>6, <2>7, <2>8
<1>4. CASE PopTimeout
  <2>1. /\ dpc = "pop" /\ dpc' \in {"lastFlush", "flush"}
        /\ UNCHANGED <<ditem, todo, produced, pending, pendingDelivery, stop, outq, wqClosed,
                       completed, acc, acked>>
    BY <1>4 DEF PopTimeout, producerVars, queueVars, completedVars
  <2>2. DeliveryChain' /\ AllCompleted' = AllCompleted
    BY <2>1, DeliveryChainKept DEF DeliveryStages
  <2>3. ControlInv' /\ OffsetInv'
    BY <1>0, <2>1 DEF ControlInv, OffsetInv
  <2>4. SettledInv'
    BY <1>0, <2>1 DEF SettledInv, Settled, Awaited
  <2>. QED
    BY <1>b, <2>1, <2>2, <2>3, <2>4
<1>5. CASE FlushAcknowledges
  <2>1. /\ dpc \in {"flush", "lastFlush"} /\ dpc' \in {"pop", "done"}
        /\ FlushOk /\ (Acknowledge(pending) \/ acc' = acc)
        /\ acked' = acked \cup pending /\ pending' = {}
        /\ UNCHANGED <<ditem, todo, produced, stop, outq, wqClosed, completed>>
    BY <1>5 DEF FlushAcknowledges, Flushing, producerVars, queueVars, completedVars
  <2>2. Collected' = Collected
    BY <2>1 DEF Collected
  <2>3. /\ \A i : CompletedUpTo(i)' = CompletedUpTo(i)
        /\ AllCompleted' = AllCompleted
    BY <2>1, <2>2 DEF CompletedUpTo, AllCompleted
  <2>4. DeliveryChain'
    BY <2>1, <2>2, <2>3 DEF DeliveryChain, Lower
  <2>5. ControlInv'
    BY <1>0, <2>1 DEF ControlInv
  <2>6. \A m \in pending : Settled(m)
    <3>1. CASE ~pendingDelivery
      BY <3>1 DEF SettledInv
    <3>2. CASE outq = {}
      BY <3>2 DEF SettledInv, Settled, Awaited
    <3>. QED
      BY <2>1, <3>1, <3>2 DEF FlushOk
  <2>7. SettledInv'
    BY <1>0, <2>1, <2>6 DEF SettledInv, Settled, Awaited
  <2>8. OffsetInv'
    <3>. SUFFICES ASSUME NEW m \in Payload, m.offset < committed[m.tp] \/ m.offset < acc'[m.tp]
                  PROVE  m \in acked \cup pending
      BY <1>0, <2>1 DEF OffsetInv
    <3>1. m \in Msg /\ m.tp \in Partitions /\ m.offset \in Nat
      BY DEF Payload, Msg
    <3>2. pending \in SUBSET Payload
      BY DEF TypeOK
    <3>3. acc'[m.tp] \in {acc[m.tp]} \cup NextOffsets(pending, m.tp)
      <4>1. CASE Acknowledge(pending)
        BY <3>1, <3>2, <4>1, AcknowledgeMax
      <4>2. CASE acc' = acc
        BY <4>2
      <4>. QED
        BY <2>1, <4>1, <4>2
    <3>4. CASE m.offset < committed[m.tp] \/ m.offset < acc[m.tp]
      BY <3>4 DEF OffsetInv
    <3>5. CASE m.offset < acc'[m.tp] /\ acc'[m.tp] \in NextOffsets(pending, m.tp)
      <4>1. PICK n \in pending : n.tp = m.tp /\ acc'[m.tp] = n.offset + 1
        BY <3>5 DEF NextOffsets
      <4>2. n \in Msg /\ n.offset \in Nat
        BY <3>2, <4>1 DEF Payload, Msg
      <4>3. m.offset < n.offset \/ m.offset = n.offset
        BY <3>1, <3>5, <4>1, <4>2
      <4>4. CASE m.offset < n.offset
        BY <4>1, <4>4 DEF DeliveryChain, Lower
      <4>5. CASE m.offset = n.offset
        <5>1. m = n
          BY <3>1, <4>1, <4>2, <4>5 DEF Msg
        <5>. QED
          BY <4>1, <5>1
      <4>. QED
        BY <4>3, <4>4, <4>5
    <3>. QED
      BY <3>3, <3>4, <3>5
  <2>. QED
    BY <1>b, <2>1, <2>3, <2>4, <2>5, <2>7, <2>8
<1>6. CASE FlushFails \/ DeliveryFails
  <2>1. /\ dpc \in {"flush", "lastFlush", "failing"}
        /\ UNCHANGED <<ditem, todo, produced, pending, pendingDelivery, outq, completed, acc,
                       acked>>
        /\ dpc' \in {"failing", "done"}
        /\ wqClosed' = wqClosed \/ dpc = "failing"
    BY <1>6 DEF FlushFails, Flushing, DeliveryFails, queueVars, completedVars, producerVars
  <2>2. dpc = "failing" => stop
    BY DEF ControlInv
  <2>3. /\ stop => stop'
        /\ dpc' = "failing" => stop'
    <3>1. \/ stop' = stop /\ dpc' = "done"
          \/ stop' = TRUE
      BY <1>6 DEF FlushFails, DeliveryFails, Capture
    <3>2. dpc' = "failing" => stop' = TRUE
      BY <3>1
    <3>3. stop' = stop \/ stop' = TRUE
      BY <3>1
    <3>4. stop => stop'
      BY <3>3, Zenon
    <3>5. dpc' = "failing" => stop'
      BY <3>2
    <3>. QED
      BY <3>4, <3>5
  <2>4. DeliveryChain' /\ AllCompleted' = AllCompleted
    BY <2>1, DeliveryChainKept DEF DeliveryStages
  <2>5. ControlInv'
    BY <1>0, <2>1, <2>2, <2>3 DEF ControlInv
  <2>6. SettledInv' /\ OffsetInv'
    BY <1>0, <2>1 DEF SettledInv, Settled, Awaited, OffsetInv
  <2>. QED
    BY <1>b, <2>3, <2>4, <2>5, <2>6
<1>. QED
  BY <1>1, <1>2, <1>3, <1>4, <1>5, <1>6 DEF Delivery

-----------------------------------------------------------------------------
(* The environment.                                                        *)

LEMMA EnvironmentCommit ==
    ASSUME ConfigAssumption, TypeOK, Affine, CommitInv,
           BrokerStores \/ BrokerRefuses \/ Restart
    PROVE  CommitInv'
<1>. USE DEF CommitInv
<1>1. CASE BrokerStores \/ BrokerRefuses
  <2>1. /\ UNCHANGED <<committed, acc, stop, evaluated, acked, mpc, position, grouped, wpc,
                       witem, wq, wqClosed, completed, dpc, ditem, todo, produced, pending,
                       pendingDelivery>>
        /\ UNCHANGED DeliveryStages
    BY <1>1 DEF BrokerStores, BrokerRefuses, BrokerUnchanged, mainVars, workerVars, queueVars,
                completedVars, deliveryVars, DeliveryStages
  <2>2. PICK out \in outq : outq' = outq \ {out} /\ reported' = reported \cup out
    BY <1>1 DEF BrokerStores, BrokerRefuses
  <2>3. /\ AffinityInv' /\ DeliveryChain' /\ WorkerChain'
        /\ \A w \in Workers : UpToDispatch(w) \subseteq UpToDispatch(w)'
    BY <2>1, QuietChains DEF Running
  <2>4. ControlInv' /\ OffsetInv'
    BY <2>1 DEF ControlInv, OffsetInv
  <2>5. PolledChain'
    BY <2>1, <2>3, PolledChainKept DEF Running
  <2>6. SettledInv'
    <3>1. \A m : /\ Awaited(m, outq) => Awaited(m, outq)'
                 /\ Awaited(m, outq \cup todo) => Awaited(m, outq \cup todo)'
                 /\ Awaited(m, todo) => Awaited(m, todo)'
                 /\ Settled(m) => Settled(m)'
      BY <2>1, <2>2 DEF Awaited, Settled, NeedsOutput
    <3>. QED
      BY <2>1, <3>1 DEF SettledInv
  <2>. QED
    BY <2>3, <2>4, <2>5, <2>6
<1>2. CASE Restart
  <2>1. /\ mpc' = "loop" /\ position' = committed
        /\ grouped' = [w \in Workers |-> {}] /\ witem' = [w \in Workers |-> {}]
        /\ wq' = [w \in Workers |-> <<>>] /\ wqClosed' = [w \in Workers |-> FALSE]
        /\ wpc' = [w \in Workers |-> "start"]
        /\ completed' = <<>> /\ dpc' = "pop" /\ ditem' = {} /\ pending' = {}
        /\ acc' = [p \in Partitions |-> 0]
        /\ UNCHANGED <<committed, evaluated, acked>>
        /\ reported \subseteq reported'
    BY <1>2 DEF Restart
  <2>2. \A w \in Workers : wqClosed'[w] = FALSE
    BY <2>1, Zenon
  <2>3. ControlInv'
    BY <2>1, <2>2 DEF ControlInv
  <2>4. AffinityInv'
    BY <2>1 DEF AffinityInv, OwnedBy
  <2>5. DeliveryChain'
    BY <2>1 DEF DeliveryChain, Lower
  <2>6. WorkerChain'
    BY <2>1 DEF WorkerChain, ChainOf
  <2>7. OffsetInv'
    <3>1. \A m \in Payload : m.tp \in Partitions /\ m.offset \in Nat
      BY DEF Payload, Msg
    <3>. QED
      BY <2>1, <3>1 DEF OffsetInv
  <2>8. PolledChain'
    BY <2>1 DEF PolledChain, OffsetInv, UpToDispatch, UpToQueue, QueuedUpTo, UpToWorker,
                AllCompleted, CompletedUpTo, Collected
  <2>9. SettledInv'
    BY <2>1 DEF SettledInv, Settled
  <2>. QED
    BY <2>3, <2>4, <2>5, <2>6, <2>7, <2>8, <2>9
<1>. QED
  BY <1>1, <1>2

-----------------------------------------------------------------------------
(* The invariant, and what follows from it.                                *)

LEMMA NextCommit ==
    ASSUME ConfigAssumption, TypeOK, Affine, CommitInv, [Next]_vars
    PROVE  CommitInv'
<1>1. CASE UNCHANGED vars
  <2>. USE DEF vars, mainVars, workerVars, queueVars, completedVars, deliveryVars,
               producerVars, reportVars
  <2>1. ControlInv' /\ AffinityInv' /\ DeliveryChain'
    BY <1>1 DEF CommitInv, ControlInv, AffinityInv, OwnedBy, DeliveryChain, Collected,
                CompletedUpTo, Lower
  <2>2. UNCHANGED DeliveryStages /\ UNCHANGED <<witem, wq, grouped, wpc>>
    BY <1>1 DEF DeliveryStages
  <2>3. WorkerChain' /\ \A w \in Workers : UpToDispatch(w) \subseteq UpToDispatch(w)'
    BY <2>2, QuietChains DEF CommitInv, Running
  <2>4. PolledChain'
    BY <1>1, <2>3, PolledChainKept DEF CommitInv, Running
  <2>5. OffsetInv' /\ SettledInv'
    BY <1>1 DEF CommitInv, OffsetInv, SettledInv, Settled, Awaited
  <2>. QED
    BY <2>1, <2>3, <2>4, <2>5 DEF CommitInv
<1>2. CASE Next
  BY <1>1, <1>2, MainCommit, WorkerCommit, DeliveryCommit, EnvironmentCommit
     DEF Next, Returned
<1>. QED
  BY <1>1, <1>2

\* Without commit_offsets the accumulator stays empty.
LEMMA NextNoCommits ==
    ASSUME ConfigAssumption, TypeOK, ~CommitOffsets, NoCommits, [Next]_vars
    PROVE  NoCommits'
<1>1. UNCHANGED <<committed, acc>> \/ (acc' = [p \in Partitions |-> 0] /\ UNCHANGED committed)
  <2>1. CASE Main
    BY <2>1 DEF Main, LoopExit, LoopCommit, Poll, PollNothing, PollError, DispatchPush,
                DispatchEnd, DispatchUnchanged, CloseQueues, JoinWorkers, JoinDelivery,
                FinalCommit, NothingToCommit, CommitFails, Committable
  <2>2. CASE \E w \in Workers : Worker(w)
    BY <2>2 DEF Worker, WorkerStart, WorkerFails, WorkerPop, WorkerDrained, WorkerEval,
                WorkerPush, WorkerUnchanged
  <2>3. CASE Delivery
    BY <2>3 DEF Delivery, DeliveryPop, Produce, Collect, PopTimeout, FlushAcknowledges,
                FlushFails, DeliveryFails, DeliveryUnchanged
  <2>4. CASE BrokerStores \/ BrokerRefuses \/ Restart
    BY <2>4 DEF BrokerStores, BrokerRefuses, BrokerUnchanged, Restart
  <2>5. CASE UNCHANGED vars
    BY <2>5 DEF vars
  <2>. QED
    BY <2>1, <2>2, <2>3, <2>4, <2>5 DEF Next, Returned
<1>. QED
  BY <1>1 DEF NoCommits

LEMMA InitPipeline ==
    ASSUME ConfigAssumption, Init PROVE PipelineInv
<1>1. \A m \in Payload : /\ m.tp \in Partitions /\ WorkerOf[m.tp] \in Workers
                         /\ m.offset \in Nat
  BY DEF ConfigAssumption, Payload, Msg
<1>2. \A w \in Workers : wqClosed[w] = FALSE
  BY Zenon DEF Init
<1>3. ControlInv
  BY <1>2 DEF Init, ControlInv
<1>4. AffinityInv /\ DeliveryChain /\ WorkerChain
  BY DEF Init, AffinityInv, OwnedBy, DeliveryChain, WorkerChain, ChainOf
<1>5. PolledChain /\ OffsetInv /\ SettledInv
  BY <1>1 DEF Init, PolledChain, OffsetInv, SettledInv
<1>6. NoCommits
  BY DEF Init, NoCommits
<1>. QED
  BY <1>3, <1>4, <1>5, <1>6 DEF PipelineInv, CommitInv

\* The invariant of the whole pipeline, the one TLC checks on small instances.
THEOREM PipelineInvariant == Spec => []PipelineInv
<1>1. Init => PipelineInv
  BY ConfigAssumption, InitPipeline
<1>2. TypeOK /\ PipelineInv /\ [Next]_vars => PipelineInv'
  <2>. SUFFICES ASSUME TypeOK, PipelineInv, [Next]_vars
                PROVE  PipelineInv'
    OBVIOUS
  <2>1. ASSUME Affine
        PROVE  CommitInv'
    BY <2>1, ConfigAssumption, NextCommit DEF PipelineInv
  <2>2. ASSUME ~CommitOffsets
        PROVE  NoCommits'
    BY <2>2, ConfigAssumption, NextNoCommits DEF PipelineInv
  <2>3. Affine' = Affine
    BY DEF Affine
  <2>. QED
    BY <2>1, <2>2, <2>3 DEF PipelineInv
<1>. QED
  BY <1>1, <1>2, TypeCorrect, PTL DEF Spec

LEMMA PipelineImpliesSafety ==
    ASSUME ConfigAssumption, TypeOK, PipelineInv PROVE CommitSafety
<1>1. CASE CommitOffsets
  BY <1>1 DEF PipelineInv, CommitInv, OffsetInv, SettledInv, CommitSafety, Affine
<1>2. CASE ~CommitOffsets
  <2>1. \A m \in Payload : m.tp \in Partitions /\ m.offset \in Nat
    BY DEF Payload, Msg
  <2>. QED
    BY <1>2, <2>1 DEF PipelineInv, NoCommits, CommitSafety
<1>. QED
  BY <1>1, <1>2

\* At-least-once: whatever the number of partitions, workers, faults and crashes,
\* no offset is committed past a message that has not been evaluated or whose
\* output the broker has not reported on.
THEOREM CommitsAreSafe == Spec => []CommitSafety
<1>1. TypeOK /\ PipelineInv => CommitSafety
  BY ConfigAssumption, PipelineImpliesSafety
<1>. QED
  BY <1>1, TypeCorrect, PipelineInvariant, PTL

-----------------------------------------------------------------------------
(* The order of what is in flight.                                         *)

\* A message is a payload message of one partition with a natural offset.
LEMMA MessageFacts ==
    ASSUME ConfigAssumption, NEW m \in Payload
    PROVE  /\ m.tp \in Partitions /\ m.offset \in Nat /\ m.offset < LogEnd
           /\ WorkerOf[m.tp] \in Workers
BY DEF ConfigAssumption, Payload, Msg

\* The stages a step may only empty or leave alone.
Shrinks == /\ pending' \subseteq pending /\ ditem' \subseteq ditem
           /\ completed' = completed /\ wq' = wq
           /\ \A w \in Workers : witem'[w] \subseteq witem[w] /\ grouped'[w] \subseteq grouped[w]

LEMMA OrderKept ==
    ASSUME TypeOK, Shrinks, DeliveryOrder, \A w \in Workers : OrderOf(w)
    PROVE  /\ DeliveryOrder'
           /\ \A w \in Workers : OrderOf(w)' /\ InFlight(w)' \subseteq InFlight(w)
<1>1. InDelivery' \subseteq InDelivery /\ InCompleted' \subseteq InCompleted
  BY DEF Shrinks, InDelivery, InCompleted
<1>2. DeliveryOrder'
  BY <1>1 DEF Shrinks, DeliveryOrder, Before
<1>3. ASSUME NEW w \in Workers
      PROVE  OrderOf(w)' /\ InFlight(w)' \subseteq InFlight(w)
  <2>1. /\ witem'[w] \subseteq witem[w] /\ grouped'[w] \subseteq grouped[w]
        /\ wq'[w] = wq[w]
    BY DEF Shrinks
  <2>2. /\ InWorker(w)' \subseteq InWorker(w) /\ InQueue(w)' = InQueue(w)
    BY <1>1, <2>1 DEF InWorker, InQueue
  <2>3. OrderOf(w)'
    BY <1>1, <2>1, <2>2 DEF OrderOf, Before
  <2>. QED
    BY <2>1, <2>2, <2>3 DEF InFlight
<1>. QED
  BY <1>2, <1>3

\* Messages in flight are payload messages of a log, between the offsets of the
\* group and the position of the consumer.
LEMMA FlightType ==
    ASSUME TypeOK, NEW w \in Workers
    PROVE  /\ InFlight(w) \subseteq Payload
           /\ Len(wq[w]) \in Nat /\ Len(completed) \in Nat
BY DEF TypeOK, InFlight, InWorker, InQueue, InCompleted, InDelivery

\* A step of the offsets that leaves what is in flight ahead of them.
LEMMA AheadKept ==
    ASSUME ConfigAssumption, TypeOK, TypeOK', OrderInv, DeliveryOrder',
           \A w \in Workers : OrderOf(w)' /\ InFlight(w)' \subseteq InFlight(w),
           \A p \in Partitions : position[p] <= position'[p],
           \A p \in Partitions : /\ committed'[p] \in {committed[p], acc[p]}
                                 /\ acc'[p] \in {0, acc[p]}
                                 /\ acc'[p] # 0 => committed'[p] = committed[p]
    PROVE  OrderInv'
<1>0. \A p \in Partitions : /\ committed[p] \in Nat /\ acc[p] \in Nat /\ position[p] \in Nat
                            /\ committed'[p] \in Nat /\ acc'[p] \in Nat
                            /\ position'[p] \in Nat
  BY DEF TypeOK
<1>1. ASSUME NEW w \in Workers, NEW m \in InFlight(w)'
      PROVE  Ahead(m)'
  <2>1. m \in InFlight(w) /\ m \in Payload
    BY FlightType
  <2>2. Ahead(m) /\ m.tp \in Partitions /\ m.offset \in Nat
    BY <2>1, MessageFacts DEF OrderInv
  <2>. QED
    BY <1>0, <2>2 DEF Ahead
<1>2. ASSUME NEW p \in Partitions
      PROVE  /\ acc'[p] <= position'[p] /\ committed'[p] <= position'[p]
             /\ acc'[p] # 0 => committed'[p] <= acc'[p]
  BY <1>0 DEF OrderInv
<1>. QED
  BY <1>1, <1>2 DEF OrderInv

LEMMA OffsetsKept ==
    ASSUME ConfigAssumption, TypeOK, TypeOK', OrderInv, DeliveryOrder',
           \A w \in Workers : OrderOf(w)' /\ InFlight(w)' \subseteq InFlight(w),
           UNCHANGED <<position, committed, acc>>
    PROVE  OrderInv'
<1>1. \A p \in Partitions : position[p] <= position'[p]
  BY DEF TypeOK
<1>2. \A p \in Partitions : /\ committed'[p] \in {committed[p], acc[p]}
                            /\ acc'[p] \in {0, acc[p]}
                            /\ acc'[p] # 0 => committed'[p] = committed[p]
  OBVIOUS
<1>. QED
  BY <1>1, <1>2, AheadKept

\* In particular, a step that touches neither the offsets nor adds to a stage.
LEMMA OrderQuiet ==
    ASSUME ConfigAssumption, TypeOK, TypeOK', OrderInv, Shrinks,
           UNCHANGED <<acc, committed>>,
           \A p \in Partitions : position[p] <= position'[p]
    PROVE  OrderInv'
<1>1. /\ DeliveryOrder'
      /\ \A w \in Workers : OrderOf(w)' /\ InFlight(w)' \subseteq InFlight(w)
  BY OrderKept DEF OrderInv
<1>. QED
  BY <1>1, AheadKept

-----------------------------------------------------------------------------
(* The main thread.                                                        *)

\* What a commit does to one partition's offsets.
LEMMA CommitOffset ==
    ASSUME TypeOK, CommitOk \/ CommitFails \/ NothingToCommit, NEW p \in Partitions
    PROVE  \/ acc'[p] = acc[p] /\ committed'[p] = committed[p]
           \/ acc'[p] = 0 /\ committed'[p] = committed[p]
           \/ acc'[p] = 0 /\ acc[p] # 0 /\ committed'[p] = acc[p]
BY DEF TypeOK, CommitOk, CommitFails, NothingToCommit, TakeOffsets, StoreOffsets

\* A poll hands out messages at or after the position, one partition to one worker.
LEMMA PollFacts ==
    ASSUME ConfigAssumption, Affine, Poll
    PROVE  \E upto \in Reachable :
              /\ position' = upto
              /\ \A w \in Workers : \A m \in grouped'[w] :
                    /\ m \in Payload /\ WorkerOf[m.tp] = w
                    /\ position[m.tp] <= m.offset /\ m.offset < upto[m.tp]
              /\ \A m \in Payload : position[m.tp] <= m.offset /\ m.offset < upto[m.tp]
                                      => m \in grouped'[WorkerOf[m.tp]]
<1>1. PICK upto \in Reachable :
        /\ position' = upto
        /\ \E to \in Assignment(Fetched(upto)) :
             grouped' = [w \in Workers |-> {m \in Fetched(upto) : to[m] = w}]
  BY DEF Poll
<1>2. PICK to \in Assignment(Fetched(upto)) :
        grouped' = [w \in Workers |-> {m \in Fetched(upto) : to[m] = w}]
  BY <1>1
<1>3. \A m \in Payload : position[m.tp] <= m.offset /\ m.offset < upto[m.tp]
                            => m \in grouped'[WorkerOf[m.tp]]
  BY <1>2, MessageFacts DEF Assignment, Affine, Fetched
<1>. QED
  BY <1>1, <1>2, <1>3 DEF Assignment, Affine, Fetched

LEMMA PollOrder ==
    ASSUME ConfigAssumption, TypeOK, TypeOK', Affine, CommitInv, OrderInv, Poll
    PROVE  /\ OrderInv'
           /\ \A w \in Workers : InFlight(w) \subseteq InFlight(w)'
           /\ \A m \in Payload : position[m.tp] <= m.offset /\ m.offset < position'[m.tp]
                                   => m \in InFlight(WorkerOf[m.tp])'
<1>1. PICK upto \in Reachable :
        /\ position' = upto
        /\ \A w \in Workers : \A m \in grouped'[w] :
              /\ m \in Payload /\ WorkerOf[m.tp] = w
              /\ position[m.tp] <= m.offset /\ m.offset < upto[m.tp]
        /\ \A m \in Payload : position[m.tp] <= m.offset /\ m.offset < upto[m.tp]
                                => m \in grouped'[WorkerOf[m.tp]]
  BY PollFacts
<1>2. UNCHANGED <<pending, ditem, completed, witem, wq, acc, committed>>
  BY DEF Poll, MainUnchanged, deliveryVars, completedVars, workerVars, queueVars
<1>3. \A w \in Workers : grouped[w] = {}
  BY DEF Poll, CommitInv, ControlInv
<1>4. \A p \in Partitions : /\ position[p] \in Nat /\ position'[p] \in Nat
                            /\ acc[p] \in Nat /\ committed[p] \in Nat
                            /\ position[p] <= position'[p]
  BY <1>1 DEF TypeOK, Reachable
<1>5. InDelivery' = InDelivery /\ InCompleted' = InCompleted
  BY <1>2 DEF InDelivery, InCompleted
<1>6. DeliveryOrder'
  BY <1>2, <1>5 DEF OrderInv, DeliveryOrder, Before
<1>7. ASSUME NEW w \in Workers
      PROVE  /\ InWorker(w)' = InWorker(w) /\ InQueue(w)' = InQueue(w)
             /\ InFlight(w)' = InFlight(w) \cup grouped'[w]
  BY <1>2, <1>3, <1>5 DEF InWorker, InQueue, InFlight
<1>8. ASSUME NEW w \in Workers, NEW m \in InFlight(w)
      PROVE  m \in Payload /\ m.tp \in Partitions /\ m.offset \in Nat /\ Ahead(m) /\ Ahead(m)'
  <2>1. m \in Payload /\ Ahead(m)
    BY FlightType DEF OrderInv
  <2>2. m.tp \in Partitions /\ m.offset \in Nat
    BY <2>1, MessageFacts
  <2>. QED
    BY <2>1, <2>2, <1>2, <1>4 DEF Ahead
<1>9. ASSUME NEW w \in Workers
      PROVE  OrderOf(w)'
  <2>1. Before(InWorker(w) \cup InQueue(w), grouped'[w])
    <3>. SUFFICES ASSUME NEW m \in InWorker(w) \cup InQueue(w), NEW n \in grouped'[w],
                         m.tp = n.tp
                  PROVE  m.offset < n.offset
      BY DEF Before
    <3>1. Ahead(m) /\ m.tp \in Partitions /\ m.offset \in Nat
      BY <1>8 DEF InFlight
    <3>2. n \in Payload /\ position[n.tp] <= n.offset /\ n.offset \in Nat
      BY <1>1, MessageFacts
    <3>. QED
      BY <3>1, <3>2, <1>4 DEF Ahead
  <2>. QED
    BY <2>1, <1>2, <1>5, <1>7 DEF OrderInv, OrderOf, Before
<1>10. ASSUME NEW w \in Workers, NEW m \in grouped'[w]
       PROVE  Ahead(m)'
  <2>1. m \in Payload /\ position[m.tp] <= m.offset /\ m.offset < position'[m.tp]
        /\ m.tp \in Partitions /\ m.offset \in Nat
    BY <1>1, MessageFacts
  <2>2. acc[m.tp] <= position[m.tp] /\ committed[m.tp] <= position[m.tp]
    BY <2>1 DEF OrderInv
  <2>. QED
    BY <2>1, <2>2, <1>2, <1>4 DEF Ahead
<1>11. \A p \in Partitions : /\ acc'[p] <= position'[p] /\ committed'[p] <= position'[p]
                             /\ acc'[p] # 0 => committed'[p] <= acc'[p]
  BY <1>2, <1>4 DEF OrderInv
<1>y. OrderInv'
  BY <1>6, <1>7, <1>8, <1>9, <1>10, <1>11 DEF OrderInv
<1>. QED
  BY <1>y, <1>1, <1>7, MessageFacts

LEMMA DispatchOrder ==
    ASSUME ConfigAssumption, TypeOK, TypeOK', OrderInv, DispatchPush
    PROVE  OrderInv' /\ \A v \in Workers : InFlight(v) \subseteq InFlight(v)'
<1>1. PICK w \in Workers :
        /\ wq' = [wq EXCEPT ![w] = Append(@, grouped[w])]
        /\ grouped' = [grouped EXCEPT ![w] = {}]
  BY DEF DispatchPush, Waiting
<1>2. UNCHANGED <<pending, ditem, completed, witem, acc, committed, position>>
  BY DEF DispatchPush, DispatchUnchanged, deliveryVars, completedVars, workerVars
<1>3. /\ wq[w] \in Seq(SUBSET Payload) /\ grouped[w] \in SUBSET Payload
      /\ wq'[w] = Append(wq[w], grouped[w]) /\ grouped'[w] = {}
      /\ \A v \in Workers : v # w => wq'[v] = wq[v] /\ grouped'[v] = grouped[v]
  BY <1>1 DEF TypeOK
<1>4. PICK k \in Nat :
        /\ k = Len(wq[w]) /\ Len(wq'[w]) = k + 1 /\ wq'[w][k + 1] = grouped[w]
        /\ \A i \in 1 .. k : wq'[w][i] = wq[w][i]
  BY <1>3, PushFacts
<1>a. \A i \in 1 .. k + 1 : i \in 1 .. k \/ i = k + 1
  OBVIOUS
<1>5. InDelivery' = InDelivery /\ InCompleted' = InCompleted
  BY <1>2 DEF InDelivery, InCompleted
<1>6. DeliveryOrder'
  BY <1>2, <1>5 DEF OrderInv, DeliveryOrder, Before
<1>7. \A v \in Workers : InWorker(v)' = InWorker(v)
  BY <1>2, <1>5 DEF InWorker
<1>8. ASSUME NEW v \in Workers, v # w
      PROVE  OrderOf(v)' /\ InFlight(v)' = InFlight(v)
  <2>1. InQueue(v)' = InQueue(v)
    BY <1>3, <1>8 DEF InQueue
  <2>. QED
    BY <1>2, <1>3, <1>5, <1>7, <1>8, <2>1 DEF OrderInv, OrderOf, Before, InFlight
<1>9. InQueue(w)' = InQueue(w) \cup grouped[w]
  <2>1. \A m : (\E j \in 1 .. k + 1 : m \in wq'[w][j])
                <=> (\E j \in 1 .. k : m \in wq[w][j]) \/ m \in grouped[w]
    <3>1. k + 1 \in 1 .. k + 1 /\ \A j \in 1 .. k : j \in 1 .. k + 1
      OBVIOUS
    <3>. QED
      BY <3>1, <1>4, <1>a
  <2>. QED
    BY <2>1, <1>3, <1>4 DEF InQueue
<1>10. InFlight(w)' = InFlight(w)
  BY <1>3, <1>7, <1>9 DEF InFlight
<1>11. OrderOf(w)'
  <2>0. OrderOf(w)
    BY DEF OrderInv
  <2>1. Before(InCompleted', witem'[w])
    BY <2>0, <1>2, <1>5 DEF OrderOf
  <2>2. \A i \in 1 .. k : Before(InWorker(w)', wq'[w][i])
    BY <2>0, <1>4, <1>7 DEF OrderOf
  <2>3. Before(InWorker(w)', wq'[w][k + 1])
    BY <2>0, <1>4, <1>7 DEF OrderOf, Before
  <2>4. \A i, j \in 1 .. k : i < j => Before(wq'[w][i], wq'[w][j])
    BY <2>0, <1>4 DEF OrderOf
  <2>5. \A i \in 1 .. k : Before(wq'[w][i], wq'[w][k + 1])
    <3>1. \A i \in 1 .. k : wq[w][i] \subseteq InQueue(w)
      BY <1>3, <1>4 DEF InQueue
    <3>. QED
      BY <2>0, <3>1, <1>4 DEF OrderOf, Before
  <2>6. \A i \in 1 .. k + 1 : Before(InWorker(w)', wq'[w][i])
    BY <2>2, <2>3, <1>a
  <2>b. \A i, j \in 1 .. k + 1 : i < j => i \in 1 .. k
    OBVIOUS
  <2>7. \A i, j \in 1 .. k + 1 : i < j => Before(wq'[w][i], wq'[w][j])
    BY <2>4, <2>5, <2>b, <1>a
  <2>8. Before((InWorker(w) \cup InQueue(w))', grouped'[w])
    BY <1>3 DEF Before
  <2>. QED
    BY <2>1, <2>6, <2>7, <2>8, <1>4 DEF OrderOf, Before
<1>12. \A v \in Workers : OrderOf(v)' /\ InFlight(v)' \subseteq InFlight(v)
  BY <1>8, <1>10, <1>11
<1>y. OrderInv'
  BY <1>2, <1>6, <1>12, OffsetsKept
<1>z. \A v \in Workers : InFlight(v) \subseteq InFlight(v)'
  BY <1>8, <1>10
<1>. QED
  BY <1>y, <1>z

LEMMA MainOrder ==
    ASSUME ConfigAssumption, TypeOK, TypeOK', Affine, CommitInv, OrderInv, Main
    PROVE  OrderInv'
<1>0. \A p \in Partitions : position[p] \in Nat
  BY DEF TypeOK
<1>1. CASE LoopCommit \/ FinalCommit
  <2>1. /\ UNCHANGED <<position, grouped, pending, ditem, completed, witem, wq>>
        /\ CommitOk \/ CommitFails \/ NothingToCommit
    BY <1>1 DEF LoopCommit, FinalCommit, MainUnchanged, deliveryVars, completedVars,
                workerVars, queueVars
  <2>2. /\ DeliveryOrder'
        /\ \A w \in Workers : OrderOf(w)' /\ InFlight(w)' \subseteq InFlight(w)
    BY <2>1, OrderKept DEF OrderInv, Shrinks
  <2>3. \A p \in Partitions : /\ committed'[p] \in {committed[p], acc[p]}
                              /\ acc'[p] \in {0, acc[p]}
                              /\ acc'[p] # 0 => committed'[p] = committed[p]
    BY <2>1, CommitOffset
  <2>. QED
    BY <1>0, <2>1, <2>2, <2>3, AheadKept
<1>2. CASE PollNothing \/ PollError
  <2>1. PICK upto \in Reachable : position' = upto
    BY <1>2 DEF PollNothing, PollError
  <2>2. UNCHANGED <<grouped, pending, ditem, completed, witem, wq, acc, committed>>
    BY <1>2 DEF PollNothing, PollError, MainUnchanged, deliveryVars, completedVars,
                workerVars, queueVars
  <2>3. \A p \in Partitions : position[p] <= position'[p]
    BY <2>1 DEF Reachable
  <2>. QED
    BY <2>2, <2>3, OrderQuiet DEF Shrinks
<1>3. CASE LoopExit \/ CloseQueues \/ JoinWorkers \/ JoinDelivery
  <2>1. UNCHANGED <<position, grouped, pending, ditem, completed, witem, wq, acc, committed>>
    BY <1>3 DEF LoopExit, CloseQueues, JoinWorkers, JoinDelivery, MainUnchanged,
                deliveryVars, completedVars, workerVars, queueVars
  <2>. QED
    BY <1>0, <2>1, OrderQuiet DEF Shrinks
<1>4. CASE DispatchEnd
  <2>1. /\ UNCHANGED <<position, pending, ditem, completed, witem, wq, acc, committed>>
        /\ grouped' = [w \in Workers |-> {}]
    BY <1>4 DEF DispatchEnd, DispatchUnchanged, deliveryVars, completedVars, workerVars
  <2>. QED
    BY <1>0, <2>1, OrderQuiet DEF Shrinks
<1>. QED
  BY <1>1, <1>2, <1>3, <1>4, PollOrder, DispatchOrder DEF Main

-----------------------------------------------------------------------------
(* The worker threads.                                                     *)

LEMMA PopOrder ==
    ASSUME ConfigAssumption, TypeOK, TypeOK', CommitInv, OrderInv,
           NEW w \in Workers, WorkerPop(w)
    PROVE  OrderInv' /\ \A v \in Workers : InFlight(v) \subseteq InFlight(v)'
<1>1. /\ wq[w] \in Seq(SUBSET Payload) /\ wq[w] # <<>>
      /\ witem'[w] = Head(wq[w]) /\ wq'[w] = Tail(wq[w])
      /\ \A v \in Workers : v # w => witem'[v] = witem[v] /\ wq'[v] = wq[v]
      /\ UNCHANGED <<pending, ditem, completed, grouped, acc, committed, position>>
  BY DEF WorkerPop, TypeOK, completedVars, WorkerUnchanged, mainVars, deliveryVars
<1>2. PICK k \in Nat :
        /\ Len(wq[w]) = k + 1 /\ Len(wq'[w]) = k /\ witem'[w] = wq[w][1]
        /\ \A i \in 1 .. k : wq'[w][i] = wq[w][i + 1]
  <2>. DEFINE n == Len(wq[w]) - 1
  <2>1. n \in Nat /\ Len(wq[w]) = n + 1 /\ Len(wq'[w]) = n /\ witem'[w] = wq[w][1]
    BY <1>1, PopFacts
  <2>2. \A i \in 1 .. n : wq'[w][i] = wq[w][i + 1]
    BY <1>1, PopFacts
  <2>. HIDE DEF n
  <2>. QED
    BY <2>1, <2>2
<1>3. witem[w] = {}
  BY DEF WorkerPop, CommitInv, ControlInv
<1>a. \A i \in 1 .. k : i + 1 \in 1 .. k + 1 /\ 1 < i + 1
  OBVIOUS
<1>b. \A j \in 1 .. k + 1 : j = 1 \/ (j - 1 \in 1 .. k /\ (j - 1) + 1 = j)
  OBVIOUS
<1>c. 1 \in 1 .. k + 1
  OBVIOUS
<1>4. InDelivery' = InDelivery /\ InCompleted' = InCompleted
  BY <1>1 DEF InDelivery, InCompleted
<1>5. DeliveryOrder'
  BY <1>1, <1>4 DEF OrderInv, DeliveryOrder, Before
<1>6. ASSUME NEW v \in Workers, v # w
      PROVE  OrderOf(v)' /\ InFlight(v)' = InFlight(v)
  <2>1. InQueue(v)' = InQueue(v) /\ InWorker(v)' = InWorker(v)
    BY <1>1, <1>4, <1>6 DEF InQueue, InWorker
  <2>. QED
    BY <1>1, <1>4, <1>6, <2>1 DEF OrderInv, OrderOf, Before, InFlight
<1>7. InQueue(w) = wq[w][1] \cup InQueue(w)'
  <2>1. ASSUME NEW m
        PROVE  (\E j \in 1 .. k + 1 : m \in wq[w][j])
                 <=> m \in wq[w][1] \/ (\E j \in 1 .. k : m \in wq'[w][j])
    <3>1. \A j \in 1 .. k + 1 : j = 1 \/ (j - 1 \in 1 .. k /\ wq'[w][j - 1] = wq[w][j])
      BY <1>2, <1>b
    <3>2. \A j \in 1 .. k : j + 1 \in 1 .. k + 1 /\ wq'[w][j] = wq[w][j + 1]
      BY <1>2, <1>a
    <3>. QED
      BY <3>1, <3>2, <1>c
  <2>2. wq[w][1] \in SUBSET Payload
    BY <1>1, <1>2
  <2>. QED
    BY <2>1, <2>2, <1>2 DEF InQueue
<1>8. InWorker(w)' = InWorker(w) \cup wq[w][1]
  BY <1>2, <1>3, <1>4 DEF InWorker
<1>9. InFlight(w)' = InFlight(w)
  BY <1>1, <1>7, <1>8 DEF InFlight
<1>10. OrderOf(w)'
  <2>0. OrderOf(w)
    BY DEF OrderInv
  <2>1. /\ \A i \in 1 .. k + 1 : Before(InWorker(w), wq[w][i])
        /\ \A i, j \in 1 .. k + 1 : i < j => Before(wq[w][i], wq[w][j])
    BY <2>0, <1>2 DEF OrderOf
  <2>2. Before(InCompleted', witem'[w])
    BY <2>1, <1>2, <1>c, <1>4 DEF InWorker, Before
  <2>3. \A i \in 1 .. k : Before(InWorker(w)', wq'[w][i])
    <3>1. \A i \in 1 .. k : Before(InWorker(w), wq[w][i + 1]) /\ Before(wq[w][1], wq[w][i + 1])
      BY <2>1, <1>a, <1>c
    <3>. QED
      BY <3>1, <1>2, <1>8 DEF Before
  <2>4. \A i, j \in 1 .. k : i < j => Before(wq'[w][i], wq'[w][j])
    <3>1. \A i, j \in 1 .. k : i < j => i + 1 < j + 1
      OBVIOUS
    <3>2. \A i, j \in 1 .. k : i < j => Before(wq[w][i + 1], wq[w][j + 1])
      BY <2>1, <3>1, <1>a
    <3>. QED
      BY <3>2, <1>2
  <2>5. Before((InWorker(w) \cup InQueue(w))', grouped'[w])
    BY <2>0, <1>1, <1>7, <1>8 DEF OrderOf, Before
  <2>. QED
    BY <2>2, <2>3, <2>4, <2>5, <1>2 DEF OrderOf, Before
<1>11. \A v \in Workers : OrderOf(v)' /\ InFlight(v)' \subseteq InFlight(v)
  BY <1>6, <1>9, <1>10
<1>y. OrderInv'
  BY <1>1, <1>5, <1>11, OffsetsKept
<1>z. \A v \in Workers : InFlight(v) \subseteq InFlight(v)'
  BY <1>6, <1>9
<1>. QED
  BY <1>y, <1>z

\* The result of w joins the completed batches: its partitions are those of no
\* other worker.
LEMMA PushOrder ==
    ASSUME ConfigAssumption, TypeOK, TypeOK', AffinityInv, OrderInv,
           NEW w \in Workers, completed' = Append(completed, Result(witem[w])),
           witem' = [witem EXCEPT ![w] = {}],
           UNCHANGED <<pending, ditem, wq, grouped, position, committed, acc>>
    PROVE  OrderInv' /\ \A v \in Workers : InFlight(v) \subseteq InFlight(v)'
<1>1. PICK k \in Nat :
        /\ k = Len(completed) /\ Len(completed') = k + 1
        /\ completed'[k + 1] = Result(witem[w])
        /\ \A i \in 1 .. k : completed'[i] = completed[i]
  <2>1. Result(witem[w]) \in Results /\ completed \in Seq(Results)
    BY DEF TypeOK, Result, Results
  <2>. QED
    BY <2>1, PushFacts
<1>2. /\ Result(witem[w]).msgs = witem[w] /\ witem[w] \subseteq Payload
      /\ witem'[w] = {} /\ \A v \in Workers : v # w => witem'[v] = witem[v]
      /\ completed \in Seq(Results)
  BY DEF TypeOK, Result
<1>a. \A i \in 1 .. k + 1 : i \in 1 .. k \/ i = k + 1
  OBVIOUS
<1>b. k + 1 \in 1 .. k + 1 /\ \A j \in 1 .. k : j \in 1 .. k + 1
  OBVIOUS
<1>3. InDelivery' = InDelivery
  BY DEF InDelivery
<1>4. InCompleted' = InCompleted \cup witem[w]
  <2>1. \A m : (\E j \in 1 .. k + 1 : m \in completed'[j].msgs)
                <=> (\E j \in 1 .. k : m \in completed[j].msgs) \/ m \in witem[w]
    BY <1>1, <1>2, <1>a, <1>b
  <2>. QED
    BY <2>1, <1>1, <1>2, <1>3 DEF InCompleted
<1>5. \A i \in 1 .. k : completed[i].msgs \subseteq InCompleted
  <2>1. \A i \in 1 .. k : completed[i] \in Results
    BY <1>1, <1>2
  <2>2. \A i \in 1 .. k : completed[i].msgs \subseteq Payload
    BY <2>1 DEF Results
  <2>. QED
    BY <1>1, <2>2 DEF InCompleted
<1>6. Before(InCompleted, witem[w]) /\ InDelivery \subseteq InCompleted
  BY DEF OrderInv, OrderOf, InCompleted
<1>7. DeliveryOrder'
  <2>0. /\ Before(pending, ditem)
        /\ \A i \in 1 .. k : Before(InDelivery, completed[i].msgs)
        /\ \A i, j \in 1 .. k : i < j => Before(completed[i].msgs, completed[j].msgs)
    BY <1>1 DEF OrderInv, DeliveryOrder
  <2>1. Before(pending', ditem')
    BY <2>0
  <2>2. Before(InDelivery', completed'[k + 1].msgs)
    BY <1>1, <1>2, <1>3, <1>6 DEF Before
  <2>3. \A i \in 1 .. k + 1 : Before(InDelivery', completed'[i].msgs)
    BY <2>0, <2>2, <1>1, <1>3, <1>a
  <2>4. \A i \in 1 .. k : Before(completed'[i].msgs, completed'[k + 1].msgs)
    BY <1>1, <1>2, <1>5, <1>6 DEF Before
  <2>b. \A i, j \in 1 .. k + 1 : i < j => i \in 1 .. k
    OBVIOUS
  <2>5. \A i, j \in 1 .. k + 1 : i < j => Before(completed'[i].msgs, completed'[j].msgs)
    BY <2>0, <2>4, <2>b, <1>1, <1>a
  <2>. QED
    BY <2>1, <2>3, <2>5, <1>1 DEF DeliveryOrder, Before
<1>8. InWorker(w)' = InWorker(w) /\ InQueue(w)' = InQueue(w)
  BY <1>2, <1>4 DEF InWorker, InQueue
<1>9. OrderOf(w)' /\ InFlight(w)' = InFlight(w)
  BY <1>2, <1>8 DEF OrderInv, OrderOf, Before, InFlight
<1>10. ASSUME NEW v \in Workers, v # w
       PROVE  OrderOf(v)' /\ InFlight(v)' = InFlight(v) \cup witem[w]
  <2>1. InQueue(v)' = InQueue(v) /\ InWorker(v)' = InWorker(v) \cup witem[w]
    BY <1>2, <1>4, <1>10 DEF InQueue, InWorker
  <2>2. /\ \A n \in witem[v] : WorkerOf[n.tp] = v
        /\ \A n \in grouped[v] : WorkerOf[n.tp] = v
        /\ \A i \in 1 .. Len(wq[v]) : \A n \in wq[v][i] : WorkerOf[n.tp] = v
        /\ \A m \in witem[w] : WorkerOf[m.tp] = w
    BY DEF AffinityInv, OwnedBy
  <2>3. /\ Before(witem[w], witem[v]) /\ Before(witem[w], grouped[v])
        /\ \A i \in 1 .. Len(wq[v]) : Before(witem[w], wq[v][i])
    BY <1>10, <2>2 DEF Before
  <2>4. OrderOf(v)
    BY DEF OrderInv
  <2>5. Before(InCompleted', witem'[v])
    BY <2>3, <2>4, <1>2, <1>4, <1>10 DEF OrderOf, Before
  <2>6. \A i \in 1 .. Len(wq[v]) : Before(InWorker(v)', wq[v][i])
    BY <2>1, <2>3, <2>4 DEF OrderOf, Before
  <2>7. Before((InWorker(v) \cup InQueue(v))', grouped'[v])
    BY <2>1, <2>3, <2>4 DEF OrderOf, Before
  <2>8. OrderOf(v)'
    BY <2>4, <2>5, <2>6, <2>7 DEF OrderOf, Before
  <2>. QED
    BY <2>1, <2>8 DEF InFlight
<1>11. \A v \in Workers : \A m \in InFlight(v)' : Ahead(m)'
  <2>1. witem[w] \subseteq InFlight(w)
    BY DEF InFlight, InWorker
  <2>2. \A v \in Workers : InFlight(v)' \subseteq InFlight(v) \cup InFlight(w)
    BY <1>9, <1>10, <2>1
  <2>. QED
    BY <2>2 DEF OrderInv, Ahead
<1>y. OrderInv'
  BY <1>7, <1>9, <1>10, <1>11 DEF OrderInv
<1>z. \A v \in Workers : InFlight(v) \subseteq InFlight(v)'
  BY <1>9, <1>10
<1>. QED
  BY <1>y, <1>z

LEMMA WorkerOrder ==
    ASSUME ConfigAssumption, TypeOK, TypeOK', CommitInv, OrderInv,
           NEW w \in Workers, Worker(w)
    PROVE  OrderInv'
<1>1. /\ UNCHANGED <<pending, ditem, grouped, position, committed, acc>>
      /\ \A p \in Partitions : position[p] <= position'[p]
  BY DEF Worker, WorkerStart, WorkerFails, WorkerPop, WorkerDrained, WorkerEval, WorkerPush,
         WorkerUnchanged, mainVars, deliveryVars, TypeOK
<1>2. CASE WorkerStart(w) \/ WorkerFails(w) \/ WorkerDrained(w) \/ WorkerEval(w)
  <2>1. UNCHANGED <<completed, wq>> /\ \A v \in Workers : witem'[v] \subseteq witem[v]
    BY <1>2 DEF WorkerStart, WorkerFails, WorkerDrained, WorkerEval, completedVars,
                queueVars, TypeOK
  <2>. QED
    BY <1>1, <2>1, OrderQuiet DEF Shrinks
<1>3. CASE WorkerPush(w)
  <2>1. wq' = wq /\ witem' = [witem EXCEPT ![w] = {}]
    BY <1>3 DEF WorkerPush, queueVars
  <2>2. CASE completed' = completed
    BY <1>1, <2>1, <2>2, OrderQuiet DEF Shrinks, TypeOK
  <2>3. CASE completed' = Append(completed, Result(witem[w]))
    BY <1>1, <2>1, <2>3, PushOrder DEF CommitInv
  <2>. QED
    BY <1>3, <2>2, <2>3 DEF WorkerPush
<1>. QED
  BY <1>2, <1>3, PopOrder DEF Worker

-----------------------------------------------------------------------------
(* The delivery thread.                                                    *)

\* Nothing moves among the workers, and nothing joins the completed batches.
LEMMA WorkersKept ==
    ASSUME UNCHANGED <<witem, wq, grouped>>, InCompleted' = InCompleted, OrderInv
    PROVE  \A w \in Workers : OrderOf(w)' /\ InFlight(w)' = InFlight(w)
<1>. SUFFICES ASSUME NEW w \in Workers
              PROVE  OrderOf(w)' /\ InFlight(w)' = InFlight(w)
  OBVIOUS
<1>1. InWorker(w)' = InWorker(w) /\ InQueue(w)' = InQueue(w)
  BY DEF InWorker, InQueue
<1>. QED
  BY <1>1 DEF OrderInv, OrderOf, Before, InFlight

LEMMA TakeOrder ==
    ASSUME ConfigAssumption, TypeOK, TypeOK', CommitInv, OrderInv, DeliveryPop
    PROVE  OrderInv' /\ \A v \in Workers : InFlight(v) \subseteq InFlight(v)'
<1>1. /\ completed # <<>> /\ completed \in Seq(Results)
      /\ completed' = Tail(completed) /\ ditem' = Head(completed).msgs
      /\ UNCHANGED <<pending, witem, wq, grouped, position, committed, acc>>
      /\ ditem = {}
  BY DEF DeliveryPop, DeliveryUnchanged, TypeOK, queueVars, workerVars, mainVars, CommitInv,
         ControlInv
<1>2. PICK k \in Nat :
        /\ Len(completed) = k + 1 /\ Len(completed') = k /\ ditem' = completed[1].msgs
        /\ \A i \in 1 .. k : completed'[i] = completed[i + 1]
  <2>. DEFINE n == Len(completed) - 1
  <2>1. /\ n \in Nat /\ Len(completed) = n + 1 /\ Len(completed') = n
        /\ ditem' = completed[1].msgs
    BY <1>1, PopFacts
  <2>2. \A i \in 1 .. n : completed'[i] = completed[i + 1]
    BY <1>1, PopFacts
  <2>. HIDE DEF n
  <2>. QED
    BY <2>1, <2>2
<1>a. \A i \in 1 .. k : i + 1 \in 1 .. k + 1 /\ 1 < i + 1
  OBVIOUS
<1>b. \A j \in 1 .. k + 1 : j = 1 \/ (j - 1 \in 1 .. k /\ (j - 1) + 1 = j)
  OBVIOUS
<1>c. 1 \in 1 .. k + 1
  OBVIOUS
<1>3. completed[1].msgs \subseteq Payload
  <2>1. completed[1] \in Results
    BY <1>1, <1>2, <1>c
  <2>. QED
    BY <2>1 DEF Results
<1>4. InDelivery' = InDelivery \cup completed[1].msgs
  BY <1>1, <1>2 DEF InDelivery
<1>5. InCompleted' = InCompleted
  <2>1. ASSUME NEW m
        PROVE  (\E j \in 1 .. k + 1 : m \in completed[j].msgs)
                 <=> m \in completed[1].msgs \/ (\E j \in 1 .. k : m \in completed'[j].msgs)
    <3>1. \A j \in 1 .. k + 1 : j = 1 \/ (j - 1 \in 1 .. k /\ completed'[j - 1] = completed[j])
      BY <1>2, <1>b
    <3>2. \A j \in 1 .. k : j + 1 \in 1 .. k + 1 /\ completed'[j] = completed[j + 1]
      BY <1>2, <1>a
    <3>. QED
      BY <3>1, <3>2, <1>c
  <2>. QED
    BY <2>1, <1>2, <1>3, <1>4 DEF InCompleted
<1>6. DeliveryOrder'
  <2>0. /\ \A i \in 1 .. k + 1 : Before(InDelivery, completed[i].msgs)
        /\ \A i, j \in 1 .. k + 1 : i < j => Before(completed[i].msgs, completed[j].msgs)
    BY <1>2 DEF OrderInv, DeliveryOrder
  <2>1. Before(pending', ditem')
    BY <2>0, <1>1, <1>2, <1>c DEF InDelivery, Before
  <2>2. \A i \in 1 .. k : Before(InDelivery', completed'[i].msgs)
    <3>1. \A i \in 1 .. k : /\ Before(InDelivery, completed[i + 1].msgs)
                            /\ Before(completed[1].msgs, completed[i + 1].msgs)
      BY <2>0, <1>a, <1>c
    <3>. QED
      BY <3>1, <1>2, <1>4 DEF Before
  <2>3. \A i, j \in 1 .. k : i < j => Before(completed'[i].msgs, completed'[j].msgs)
    <3>1. \A i, j \in 1 .. k : i < j => i + 1 < j + 1
      OBVIOUS
    <3>2. \A i, j \in 1 .. k : i < j => Before(completed[i + 1].msgs, completed[j + 1].msgs)
      BY <2>0, <3>1, <1>a
    <3>. QED
      BY <3>2, <1>2
  <2>. QED
    BY <2>1, <2>2, <2>3, <1>2 DEF DeliveryOrder, Before
<1>y. OrderInv'
  BY <1>1, <1>5, <1>6, WorkersKept, OffsetsKept
<1>z. \A v \in Workers : InFlight(v) \subseteq InFlight(v)'
  BY <1>1, <1>5, WorkersKept
<1>. QED
  BY <1>y, <1>z

\* Acknowledging moves an offset past the pending messages, which are before all
\* the others in flight.
LEMMA FlushOrder ==
    ASSUME ConfigAssumption, TypeOK, TypeOK', CommitInv, OrderInv, FlushAcknowledges
    PROVE  OrderInv'
<1>1. /\ pending' = {} /\ ditem = {} /\ ditem' = {}
      /\ UNCHANGED <<completed, witem, wq, grouped, position, committed>>
      /\ Acknowledge(pending) \/ acc' = acc
      /\ pending \in SUBSET Payload
  BY DEF FlushAcknowledges, Flushing, DeliveryUnchanged, TypeOK, queueVars, workerVars,
         mainVars, CommitInv, ControlInv, completedVars
<1>2. \A p \in Partitions : acc'[p] \in {acc[p]} \cup NextOffsets(pending, p)
  <2>1. CASE Acknowledge(pending)
    BY <1>1, <2>1, AcknowledgeMax
  <2>2. CASE acc' = acc
    BY <2>2
  <2>. QED
    BY <1>1, <2>1, <2>2
<1>3. /\ DeliveryOrder'
      /\ \A w \in Workers : OrderOf(w)' /\ InFlight(w)' \subseteq InFlight(w)
  BY <1>1, OrderKept DEF OrderInv, Shrinks
<1>4. \A p \in Partitions : /\ acc[p] \in Nat /\ committed[p] \in Nat /\ position[p] \in Nat
                            /\ acc'[p] \in Nat
  BY DEF TypeOK
<1>5. ASSUME NEW p \in Partitions, acc'[p] # acc[p]
      PROVE  \E n \in pending : /\ n \in Payload /\ n.tp = p /\ acc'[p] = n.offset + 1
                                /\ n.offset \in Nat /\ Ahead(n)
  <2>1. PICK n \in pending : n.tp = p /\ acc'[p] = n.offset + 1
    BY <1>2, <1>5 DEF NextOffsets
  <2>2. n \in Payload /\ n.offset \in Nat /\ WorkerOf[n.tp] \in Workers
    BY <1>1, <2>1, MessageFacts
  <2>3. Ahead(n)
    BY <2>2 DEF OrderInv, InFlight, InWorker, InCompleted, InDelivery
  <2>. QED
    BY <2>1, <2>2, <2>3
<1>6. ASSUME NEW w \in Workers, NEW m \in InFlight(w)'
      PROVE  Ahead(m)'
  <2>1. m \in InFlight(w) /\ m \in Payload
    BY <1>3, FlightType
  <2>2. Ahead(m) /\ m.tp \in Partitions /\ m.offset \in Nat
    BY <2>1, MessageFacts DEF OrderInv
  <2>3. Before(pending, InFlight(w)')
    <3>1. pending \subseteq InDelivery /\ pending \subseteq InCompleted
          /\ pending \subseteq InWorker(w)
      BY DEF InDelivery, InCompleted, InWorker
    <3>2. \A i \in 1 .. Len(completed) : Before(pending, completed[i].msgs)
      BY <3>1 DEF OrderInv, DeliveryOrder, Before
    <3>3. Before(pending, InCompleted')
      BY <1>1, <3>2 DEF InCompleted, InDelivery, Before
    <3>4. OrderOf(w)
      BY DEF OrderInv
    <3>5. Before(pending, witem[w]) /\ Before(pending, grouped[w])
      BY <3>1, <3>4 DEF OrderOf, Before
    <3>6. \A i \in 1 .. Len(wq[w]) : Before(pending, wq[w][i])
      BY <3>1, <3>4 DEF OrderOf, Before
    <3>7. Before(pending, InQueue(w)')
      BY <1>1, <3>6 DEF InQueue, Before
    <3>. QED
      BY <1>1, <3>3, <3>5, <3>7 DEF InFlight, InWorker, Before
  <2>4. CASE acc'[m.tp] = acc[m.tp]
    BY <1>1, <2>2, <2>4 DEF Ahead
  <2>5. CASE acc'[m.tp] # acc[m.tp]
    <3>1. PICK n \in pending : n.tp = m.tp /\ acc'[m.tp] = n.offset + 1 /\ n.offset \in Nat
      BY <1>5, <2>2, <2>5
    <3>2. n.offset < m.offset
      BY <2>3, <3>1 DEF Before
    <3>. QED
      BY <1>1, <2>2, <3>1, <3>2 DEF Ahead
  <2>. QED
    BY <2>4, <2>5
<1>7. ASSUME NEW p \in Partitions
      PROVE  /\ acc'[p] <= position'[p] /\ committed'[p] <= position'[p]
             /\ acc'[p] # 0 => committed'[p] <= acc'[p]
  <2>1. CASE acc'[p] = acc[p]
    BY <1>1, <2>1 DEF OrderInv
  <2>2. CASE acc'[p] # acc[p]
    <3>1. PICK n \in pending : /\ n.tp = p /\ acc'[p] = n.offset + 1 /\ n.offset \in Nat
                               /\ Ahead(n)
      BY <1>5, <2>2
    <3>. QED
      BY <1>1, <1>4, <3>1 DEF Ahead, OrderInv
  <2>. QED
    BY <2>1, <2>2
<1>. QED
  BY <1>3, <1>6, <1>7 DEF OrderInv

LEMMA DeliveryOrderKept ==
    ASSUME ConfigAssumption, TypeOK, TypeOK', CommitInv, OrderInv, Delivery
    PROVE  OrderInv'
<1>1. /\ UNCHANGED <<witem, wq, grouped, position, committed>>
      /\ \A p \in Partitions : position[p] <= position'[p]
  <2>1. UNCHANGED <<witem, wq, grouped, position, committed>>
    BY DEF Delivery, DeliveryPop, Produce, Collect, PopTimeout, FlushAcknowledges, FlushFails,
           DeliveryFails, DeliveryUnchanged, mainVars, workerVars, queueVars
  <2>2. \A p \in Partitions : position[p] <= position[p]
    BY DEF TypeOK
  <2>. QED
    BY <2>1, <2>2
<1>2. CASE Produce \/ PopTimeout \/ FlushFails \/ DeliveryFails
  <2>1. UNCHANGED <<pending, ditem, completed, acc>>
    BY <1>2 DEF Produce, PopTimeout, FlushFails, DeliveryFails, completedVars
  <2>. QED
    BY <1>1, <2>1, OrderQuiet DEF Shrinks
<1>3. CASE Collect
  <2>1. pending' = pending \cup ditem /\ ditem' = {} /\ UNCHANGED <<completed, acc>>
    BY <1>3 DEF Collect, completedVars
  <2>2. InDelivery' = InDelivery
    BY <2>1 DEF InDelivery
  <2>3. InCompleted' = InCompleted
    BY <2>1, <2>2 DEF InCompleted
  <2>4. DeliveryOrder'
    BY <2>1, <2>2 DEF OrderInv, DeliveryOrder, Before
  <2>. QED
    BY <1>1, <2>1, <2>3, <2>4, WorkersKept, OffsetsKept
<1>. QED
  BY <1>2, <1>3, TakeOrder, FlushOrder DEF Delivery

-----------------------------------------------------------------------------
(* The environment, and the invariant.                                     *)

LEMMA EmptyOrder ==
    ASSUME pending = {}, ditem = {}, completed = <<>>,
           \A w \in Workers : witem[w] = {} /\ grouped[w] = {} /\ wq[w] = <<>>,
           position = committed, acc = [p \in Partitions |-> 0],
           committed \in [Partitions -> Nat]
    PROVE  OrderInv
<1>1. DeliveryOrder /\ InCompleted = {}
  BY DEF DeliveryOrder, Before, InDelivery, InCompleted
<1>2. \A w \in Workers : OrderOf(w) /\ InFlight(w) = {}
  BY <1>1 DEF OrderOf, Before, InWorker, InQueue, InFlight
<1>. QED
  BY <1>1, <1>2 DEF OrderInv

LEMMA RestartOrder ==
    ASSUME ConfigAssumption, TypeOK, Restart PROVE OrderInv'
<1>1. /\ pending' = {} /\ ditem' = {} /\ completed' = <<>>
      /\ \A w \in Workers : witem'[w] = {} /\ grouped'[w] = {} /\ wq'[w] = <<>>
      /\ position' = committed' /\ acc' = [p \in Partitions |-> 0]
      /\ committed' \in [Partitions -> Nat]
  BY DEF Restart, TypeOK
<1>2. DeliveryOrder' /\ InCompleted' = {}
  BY <1>1 DEF DeliveryOrder, Before, InDelivery, InCompleted
<1>3. \A w \in Workers : OrderOf(w)' /\ InFlight(w)' = {}
  BY <1>1, <1>2 DEF OrderOf, Before, InWorker, InQueue, InFlight
<1>. QED
  BY <1>1, <1>2, <1>3 DEF OrderInv

LEMMA NextOrder ==
    ASSUME ConfigAssumption, TypeOK, TypeOK', Affine, CommitInv, OrderInv, [Next]_vars
    PROVE  OrderInv'
<1>1. CASE UNCHANGED vars \/ BrokerStores \/ BrokerRefuses
  <2>1. /\ UNCHANGED <<position, grouped, pending, ditem, completed, witem, wq, acc, committed>>
        /\ \A p \in Partitions : position[p] <= position'[p]
    BY <1>1 DEF vars, BrokerStores, BrokerRefuses, BrokerUnchanged, mainVars, workerVars,
                queueVars, completedVars, deliveryVars, TypeOK
  <2>. QED
    BY <2>1, OrderQuiet DEF Shrinks
<1>. QED
  BY <1>1, MainOrder, WorkerOrder, DeliveryOrderKept, RestartOrder DEF Next, Returned

\* In the configurations that keep a partition with one worker, the batches of a
\* partition stay in order through the pipeline, ahead of the offsets to commit.
THEOREM OrderInvariant == Affine => (Spec => []OrderInv)
<1>. SUFFICES ASSUME Affine PROVE Spec => []OrderInv
  OBVIOUS
<1>1. Init => OrderInv
  <2>. SUFFICES ASSUME Init PROVE OrderInv
    OBVIOUS
  <2>1. /\ \A w \in Workers : witem[w] = {} /\ grouped[w] = {} /\ wq[w] = <<>>
        /\ committed \in [Partitions -> Nat]
    BY DEF Init
  <2>. QED
    BY <2>1, EmptyOrder DEF Init
<1>2. TypeOK /\ TypeOK' /\ PipelineInv /\ OrderInv /\ [Next]_vars => OrderInv'
  BY ConfigAssumption, NextOrder DEF PipelineInv
<1>. QED
  BY <1>1, <1>2, TypeCorrect, PipelineInvariant, PTL DEF Spec
-----------------------------------------------------------------------------
(* Commits move forward, and the pipeline implements AtLeastOnce.          *)

\* Only the two commits of the main thread change the group's offsets, and they
\* change nothing of what is known of the messages.
LEMMA CommitsAreLocal ==
    ASSUME [Next]_vars
    PROVE  \/ UNCHANGED committed /\ evaluated \subseteq evaluated' /\ reported \subseteq reported'
           \/ /\ CommitOk \/ CommitFails \/ NothingToCommit
              /\ UNCHANGED <<evaluated, reported>>
<1>1. CASE LoopCommit \/ FinalCommit
  BY <1>1 DEF LoopCommit, FinalCommit, MainUnchanged, reportVars
<1>2. CASE Main /\ ~LoopCommit /\ ~FinalCommit
  BY <1>2 DEF Main, LoopExit, Poll, PollNothing, PollError, DispatchPush, DispatchEnd,
              DispatchUnchanged, CloseQueues, JoinWorkers, JoinDelivery, MainUnchanged,
              reportVars
<1>3. CASE \E w \in Workers : Worker(w)
  BY <1>3 DEF Worker, WorkerStart, WorkerFails, WorkerPop, WorkerDrained, WorkerEval,
              WorkerPush, WorkerUnchanged, reportVars
<1>4. CASE Delivery
  BY <1>4 DEF Delivery, DeliveryPop, Produce, Collect, PopTimeout, FlushAcknowledges,
              FlushFails, DeliveryFails, DeliveryUnchanged, reportVars
<1>5. CASE BrokerStores \/ BrokerRefuses \/ Restart
  BY <1>5 DEF BrokerStores, BrokerRefuses, BrokerUnchanged, Restart
<1>6. CASE UNCHANGED vars
  BY <1>6 DEF vars, reportVars
<1>. QED
  BY <1>1, <1>2, <1>3, <1>4, <1>5, <1>6 DEF Next, Returned

LEMMA CommitsForward ==
    ASSUME TypeOK, TypeOK', PipelineInv, PipelineInv', Affine => OrderInv, [Next]_vars
    PROVE  \A p \in Partitions : committed[p] <= committed'[p]
<1>. SUFFICES ASSUME NEW p \in Partitions
              PROVE  committed[p] <= committed'[p]
  OBVIOUS
<1>0. committed[p] \in Nat /\ committed'[p] \in Nat /\ acc[p] \in Nat
  BY DEF TypeOK
<1>1. CASE ~CommitOffsets
  BY <1>0, <1>1 DEF PipelineInv, NoCommits
<1>2. CASE CommitOffsets
  <2>1. OrderInv
    BY <1>2 DEF Affine
  <2>2. acc[p] # 0 => committed[p] <= acc[p]
    BY <2>1 DEF OrderInv
  <2>3. CASE UNCHANGED committed
    BY <1>0, <2>3
  <2>4. CASE CommitOk \/ CommitFails \/ NothingToCommit
    BY <1>0, <2>2, <2>4, CommitOffset
  <2>. QED
    BY <2>3, <2>4, CommitsAreLocal
<1>. QED
  BY <1>1, <1>2

LEMMA AffineOrder == Spec => [](Affine => OrderInv)
<1>1. CASE Affine
  <2>1. OrderInv => (Affine => OrderInv)
    OBVIOUS
  <2>2. Spec => []OrderInv
    BY <1>1, OrderInvariant
  <2>. QED
    BY <2>1, <2>2, PTL
<1>2. CASE ~Affine
  <2>1. Affine => OrderInv
    BY <1>2
  <2>. QED
    BY <2>1, PTL
<1>. QED
  BY <1>1, <1>2

\* The group's committed offset never moves back, whatever the workers do with the
\* batches in the meantime and whichever commit of whichever call stores it.
THEOREM CommitsMoveForward == Spec => CommitMonotone
<1>1. TypeOK /\ TypeOK' /\ PipelineInv /\ PipelineInv' /\ (Affine => OrderInv) /\ [Next]_vars
        => [\A p \in Partitions : committed[p] <= committed'[p]]_vars
  BY CommitsForward
<1>. QED
  BY <1>1, TypeCorrect, PipelineInvariant, AffineOrder, PTL DEF Spec, CommitMonotone

\* A message stays settled.
LEMMA SettledGrows ==
    ASSUME evaluated \subseteq evaluated', reported \subseteq reported'
    PROVE  SettledMessages \subseteq SettledMessages'
BY DEF SettledMessages, Settled, NeedsOutput

\* Every step of the pipeline settles messages, or commits past settled ones, or
\* is none of the business of the abstract specification.
LEMMA StepRefines ==
    ASSUME ConfigAssumption, TypeOK, TypeOK', PipelineInv, PipelineInv', Affine => OrderInv,
           [Next]_vars
    PROVE  [Abstract!Next]_(Abstract!vars)
<1>1. CASE UNCHANGED committed /\ evaluated \subseteq evaluated' /\ reported \subseteq reported'
  <2>1. SettledMessages \subseteq SettledMessages' /\ SettledMessages' \in SUBSET Payload
    BY <1>1, SettledGrows DEF SettledMessages
  <2>. QED
    BY <1>1, <2>1 DEF Abstract!Next, Abstract!Settle
<1>2. CASE (CommitOk \/ CommitFails \/ NothingToCommit) /\ UNCHANGED <<evaluated, reported>>
  <2>1. SettledMessages' = SettledMessages
    BY <1>2 DEF SettledMessages, Settled
  <2>2. committed' \in [Partitions -> 0 .. LogEnd]
    BY DEF TypeOK
  <2>3. \A p \in Partitions : committed[p] <= committed'[p]
    BY CommitsForward
  <2>4. CommitSafety'
    <3>1. \A m \in Payload : m.offset < committed'[m.tp] => Settled(m)'
      <4>1. CASE CommitOffsets
        BY <4>1 DEF PipelineInv, CommitInv, OffsetInv, SettledInv, Affine
      <4>2. CASE ~CommitOffsets
        BY <4>2, MessageFacts DEF PipelineInv, NoCommits
      <4>. QED
        BY <4>1, <4>2
    <3>. QED
      BY <3>1 DEF CommitSafety
  <2>5. \A m \in Payload : m.offset < committed'[m.tp] => m \in SettledMessages
    BY <2>1, <2>4 DEF CommitSafety, SettledMessages
  <2>. QED
    BY <2>1, <2>2, <2>3, <2>5 DEF Abstract!Next, Abstract!Commit
<1>. QED
  BY <1>1, <1>2, CommitsAreLocal

\* The pipeline implements at-least-once consumption in every configuration.
THEOREM PipelineImplementsAtLeastOnce == Spec => ImplementsAtLeastOnce
<1>1. Init => Abstract!Init
  BY DEF Init, Abstract!Init, SettledMessages, Settled
<1>2. TypeOK /\ TypeOK' /\ PipelineInv /\ PipelineInv' /\ (Affine => OrderInv) /\ [Next]_vars
        => [Abstract!Next]_(Abstract!vars)
  BY ConfigAssumption, StepRefines
<1>. QED
  BY <1>1, <1>2, TypeCorrect, PipelineInvariant, AffineOrder, PTL
     DEF Spec, ImplementsAtLeastOnce, Abstract!Spec

-----------------------------------------------------------------------------
(* The order of evaluation.                                                *)

LEMMA NextEvaluated ==
    ASSUME ConfigAssumption, TypeOK, CommitInv, EvaluatedInv, [Next]_vars
    PROVE  EvaluatedInv'
<1>1. evaluated \subseteq evaluated'
  <2>1. CASE Main
    BY <2>1 DEF Main, LoopExit, LoopCommit, Poll, PollNothing, PollError, DispatchPush,
                DispatchEnd, DispatchUnchanged, CloseQueues, JoinWorkers, JoinDelivery,
                FinalCommit, MainUnchanged
  <2>. QED
    BY <2>1, CommitsAreLocal
<1>2. CASE DeliveryPop
  <2>1. completed \in Seq(Results) /\ completed # <<>> /\ ditem' = Head(completed).msgs
    BY <1>2 DEF DeliveryPop, TypeOK
  <2>2. Head(completed) = completed[1] /\ 1 \in 1 .. Len(completed)
    BY <2>1, PopFacts
  <2>. QED
    BY <1>1, <2>1, <2>2 DEF CommitInv, SettledInv, EvaluatedInv
<1>3. CASE ditem' \subseteq ditem
  BY <1>1, <1>3 DEF EvaluatedInv
<1>4. DeliveryPop \/ ditem' \subseteq ditem
  <2>1. CASE Main
    BY <2>1 DEF Main, LoopExit, LoopCommit, Poll, PollNothing, PollError, DispatchPush,
                DispatchEnd, DispatchUnchanged, CloseQueues, JoinWorkers, JoinDelivery,
                FinalCommit, MainUnchanged, deliveryVars
  <2>2. CASE \E w \in Workers : Worker(w)
    BY <2>2 DEF Worker, WorkerStart, WorkerFails, WorkerPop, WorkerDrained, WorkerEval,
                WorkerPush, WorkerUnchanged, deliveryVars
  <2>3. CASE Delivery
    BY <2>3 DEF Delivery, Produce, Collect, PopTimeout, FlushAcknowledges, FlushFails,
                DeliveryFails
  <2>4. CASE BrokerStores \/ BrokerRefuses \/ Restart
    BY <2>4 DEF BrokerStores, BrokerRefuses, BrokerUnchanged, Restart, deliveryVars
  <2>5. CASE UNCHANGED vars
    BY <2>5 DEF vars, deliveryVars
  <2>. QED
    BY <2>1, <2>2, <2>3, <2>4, <2>5 DEF Next, Returned
<1>. QED
  BY <1>2, <1>3, <1>4

LEMMA EvaluatedInvariant == Affine => (Spec => []EvaluatedInv)
<1>. SUFFICES ASSUME Affine PROVE Spec => []EvaluatedInv
  OBVIOUS
<1>1. Init => EvaluatedInv
  BY DEF Init, EvaluatedInv
<1>2. TypeOK /\ PipelineInv /\ EvaluatedInv /\ [Next]_vars => EvaluatedInv'
  BY ConfigAssumption, NextEvaluated DEF PipelineInv
<1>. QED
  BY <1>1, <1>2, TypeCorrect, PipelineInvariant, PTL DEF Spec

\* A worker that evaluates has, at or behind its batch, the lower offsets of the
\* batch; all but the batch itself have been evaluated.
LEMMA StepInOrder ==
    ASSUME ConfigAssumption, TypeOK, CommitInv, EvaluatedInv, [Next]_vars,
           NEW m \in evaluated' \ evaluated, NEW n \in Payload,
           n.tp = m.tp, n.offset < m.offset
    PROVE  n \in evaluated'
<1>1. PICK w \in Workers : WorkerEval(w) /\ ~stop
  <2>1. CASE Main
    BY <2>1 DEF Main, LoopExit, LoopCommit, Poll, PollNothing, PollError, DispatchPush,
                DispatchEnd, DispatchUnchanged, CloseQueues, JoinWorkers, JoinDelivery,
                FinalCommit, MainUnchanged
  <2>2. CASE \E w \in Workers : Worker(w)
    BY <2>2 DEF Worker, WorkerStart, WorkerFails, WorkerPop, WorkerDrained, WorkerEval,
                WorkerPush
  <2>3. CASE Delivery
    BY <2>3 DEF Delivery, DeliveryPop, Produce, Collect, PopTimeout, FlushAcknowledges,
                FlushFails, DeliveryFails, DeliveryUnchanged
  <2>4. CASE BrokerStores \/ BrokerRefuses \/ Restart
    BY <2>4 DEF BrokerStores, BrokerRefuses, BrokerUnchanged, Restart
  <2>5. CASE UNCHANGED vars
    BY <2>5 DEF vars
  <2>. QED
    BY <2>1, <2>2, <2>3, <2>4, <2>5 DEF Next, Returned
<1>2. wpc[w] = "eval" /\ evaluated' = evaluated \cup witem[w]
  BY <1>1 DEF WorkerEval
<1>3. m \in witem[w] /\ n \in Lower(m)
  BY <1>2 DEF Lower
<1>4. n \in AllCompleted \cup witem[w]
  BY <1>2, <1>3 DEF CommitInv, WorkerChain, Running, ChainOf, UpToWorker
<1>5. AllCompleted \subseteq evaluated
  BY DEF AllCompleted, CompletedUpTo, Collected, CommitInv, SettledInv, Settled, EvaluatedInv
<1>. QED
  BY <1>2, <1>4, <1>5

\* When a partition belongs to one worker, its messages are evaluated in offset
\* order, across workers, queue depths, faults and restarts.  (Without affinity two
\* workers may hold batches of one partition, and the property fails.)
THEOREM EvaluationIsOrdered == Affine => (Spec => EvaluatedInOrder)
<1>. SUFFICES ASSUME Affine PROVE Spec => EvaluatedInOrder
  OBVIOUS
<1>1. TypeOK /\ PipelineInv /\ EvaluatedInv /\ [Next]_vars
        => [\A m \in evaluated' \ evaluated : \A n \in Payload :
              (n.tp = m.tp /\ n.offset < m.offset) => n \in evaluated']_vars
  BY ConfigAssumption, StepInOrder DEF PipelineInv
<1>. QED
  BY <1>1, TypeCorrect, PipelineInvariant, EvaluatedInvariant, PTL DEF Spec, EvaluatedInOrder
-----------------------------------------------------------------------------
(* Failed messages.                                                        *)

\* Only the delivery thread moves what it holds, and a restart drops it.
LEMMA DeliveryAlone ==
    ASSUME [Next]_vars
    PROVE  \/ Delivery
           \/ Restart
           \/ UNCHANGED <<dpc, ditem, todo, produced, pending, pendingDelivery, acked>>
<1>1. CASE Main
  BY <1>1 DEF Main, LoopExit, LoopCommit, Poll, PollNothing, PollError, DispatchPush,
              DispatchEnd, DispatchUnchanged, CloseQueues, JoinWorkers, JoinDelivery,
              FinalCommit, MainUnchanged, deliveryVars
<1>2. CASE \E w \in Workers : Worker(w)
  BY <1>2 DEF Worker, WorkerStart, WorkerFails, WorkerPop, WorkerDrained, WorkerEval,
              WorkerPush, WorkerUnchanged, deliveryVars
<1>3. CASE BrokerStores \/ BrokerRefuses
  BY <1>3 DEF BrokerStores, BrokerRefuses, BrokerUnchanged, deliveryVars
<1>4. CASE UNCHANGED vars
  BY <1>4 DEF vars, deliveryVars
<1>. QED
  BY <1>1, <1>2, <1>3, <1>4 DEF Next, Returned

LEMMA NextPoison ==
    ASSUME ConfigAssumption, TypeOK, CommitInv, PoisonInv, [Next]_vars
    PROVE  PoisonInv'
<1>. SUFFICES ASSUME ~DlqTopic
              PROVE  /\ acked' \cap Failing = {} /\ pending' \cap Failing = {}
                     /\ dpc' = "produce" => ditem' \cap Failing = {}
  BY DEF PoisonInv
<1>0. /\ acked \cap Failing = {} /\ pending \cap Failing = {}
      /\ dpc = "produce" => ditem \cap Failing = {}
  BY DEF PoisonInv
<1>1. CASE DeliveryPop
  <2>1. /\ completed \in Seq(Results) /\ completed # <<>> /\ ditem' = Head(completed).msgs
        /\ UNCHANGED <<pending, acked>>
        /\ dpc' = "produce" => ~Head(completed).error
    BY <1>1 DEF DeliveryPop, TypeOK
  <2>2. Head(completed) = completed[1] /\ 1 \in 1 .. Len(completed)
    BY <2>1, PopFacts
  <2>3. ~completed[1].error => completed[1].msgs \cap Failing = {}
    BY <2>2 DEF CommitInv, SettledInv
  <2>. QED
    BY <1>0, <2>1, <2>2, <2>3
<1>2. CASE Collect
  BY <1>0, <1>2 DEF Collect
<1>3. CASE FlushAcknowledges
  BY <1>0, <1>3 DEF FlushAcknowledges
<1>4. CASE Produce \/ PopTimeout \/ FlushFails \/ DeliveryFails
  BY <1>0, <1>4 DEF Produce, PopTimeout, FlushFails, DeliveryFails
<1>5. CASE Restart
  BY <1>0, <1>5 DEF Restart
<1>6. CASE UNCHANGED <<dpc, ditem, todo, produced, pending, pendingDelivery, acked>>
  BY <1>0, <1>6
<1>. QED
  BY <1>1, <1>2, <1>3, <1>4, <1>5, <1>6, DeliveryAlone DEF Delivery

LEMMA PoisonInvariant == Affine => (Spec => []PoisonInv)
<1>. SUFFICES ASSUME Affine PROVE Spec => []PoisonInv
  OBVIOUS
<1>1. Init => PoisonInv
  BY DEF Init, PoisonInv
<1>2. TypeOK /\ PipelineInv /\ PoisonInv /\ [Next]_vars => PoisonInv'
  BY ConfigAssumption, NextPoison DEF PipelineInv
<1>. QED
  BY <1>1, <1>2, TypeCorrect, PipelineInvariant, PTL DEF Spec

LEMMA PoisonStays ==
    ASSUME ConfigAssumption, TypeOK, PipelineInv, Affine => PoisonInv
    PROVE  PoisonNotCommitted
<1>. SUFFICES ASSUME ~DlqTopic, NEW m \in Failing, ~(committed[m.tp] <= m.offset)
              PROVE  FALSE
  BY DEF PoisonNotCommitted
<1>1. m \in Payload /\ m.tp \in Partitions /\ m.offset \in Nat
  BY MessageFacts DEF ConfigAssumption
<1>2. m.offset < committed[m.tp]
  BY <1>1 DEF TypeOK
<1>3. CASE CommitOffsets
  <2>1. m \in acked
    BY <1>1, <1>2, <1>3 DEF PipelineInv, CommitInv, OffsetInv, Affine
  <2>. QED
    BY <1>3, <2>1 DEF PoisonInv, Affine
<1>4. CASE ~CommitOffsets
  BY <1>1, <1>2, <1>4 DEF PipelineInv, NoCommits
<1>. QED
  BY <1>3, <1>4

\* Without a dead-letter topic no message whose evaluation throws is committed,
\* in any configuration and by any commit, those of a shutdown included.
THEOREM PoisonIsNotCommitted == Spec => []PoisonNotCommitted
<1>1. CASE Affine
  <2>1. TypeOK /\ PipelineInv /\ PoisonInv => PoisonNotCommitted
    BY ConfigAssumption, PoisonStays
  <2>2. Spec => []PoisonInv
    BY <1>1, PoisonInvariant
  <2>. QED
    BY <2>1, <2>2, TypeCorrect, PipelineInvariant, PTL
<1>2. CASE ~Affine
  <2>1. TypeOK /\ PipelineInv => PoisonNotCommitted
    BY <1>2, ConfigAssumption, PoisonStays
  <2>. QED
    BY <2>1, TypeCorrect, PipelineInvariant, PTL
<1>. QED
  BY <1>1, <1>2

-----------------------------------------------------------------------------
(* Who has ended.                                                          *)

\* A failure is never forgotten within a call.
LEMMA StopStays ==
    ASSUME [Next]_vars PROVE (stop => stop') \/ Restart
<1>1. CASE UNCHANGED stop
  BY <1>1, Zenon
<1>2. CASE stop' = TRUE
  BY <1>2, Zenon
<1>3. UNCHANGED stop \/ stop' = TRUE \/ Restart
  <2>1. CASE Main
    BY <2>1 DEF Main, LoopExit, LoopCommit, CommitOk, CommitFails, NothingToCommit, Poll,
                PollNothing, PollError, DispatchPush, DispatchEnd, DispatchUnchanged,
                CloseQueues, JoinWorkers, JoinDelivery, FinalCommit, Capture
  <2>2. CASE \E w \in Workers : Worker(w)
    BY <2>2 DEF Worker, WorkerStart, WorkerFails, WorkerPop, WorkerDrained, WorkerEval,
                WorkerPush, Capture
  <2>3. CASE Delivery
    BY <2>3 DEF Delivery, DeliveryPop, Produce, Collect, PopTimeout, FlushAcknowledges,
                FlushFails, DeliveryFails, Capture
  <2>4. CASE BrokerStores \/ BrokerRefuses
    BY <2>4 DEF BrokerStores, BrokerRefuses, BrokerUnchanged
  <2>5. CASE UNCHANGED vars
    BY <2>5 DEF vars
  <2>. QED
    BY <2>1, <2>2, <2>3, <2>4, <2>5 DEF Next, Returned
<1>. QED
  BY <1>1, <1>2, <1>3

LEMMA NextJoin ==
    ASSUME ConfigAssumption, TypeOK, JoinInv, [Next]_vars
    PROVE  JoinInv'
<1>1. CASE Main
  <2>1. UNCHANGED <<wpc, dpc>>
    BY <1>1 DEF Main, LoopExit, LoopCommit, Poll, PollNothing, PollError, DispatchPush,
                DispatchEnd, DispatchUnchanged, CloseQueues, JoinWorkers, JoinDelivery,
                FinalCommit, MainUnchanged, deliveryVars, workerVars
  <2>2. stop => stop'
    BY <1>1, StopStays DEF Main, LoopExit, LoopCommit, Poll, PollNothing, PollError,
             DispatchPush, DispatchEnd, DispatchUnchanged, CloseQueues, JoinWorkers,
             JoinDelivery, FinalCommit, MainUnchanged, Restart
  <2>3. mpc' # "dispatch" => \A w \in Workers : grouped'[w] = {}
    <3>1. CASE UNCHANGED grouped /\ (mpc # "dispatch" \/ mpc' = mpc)
      BY <3>1 DEF JoinInv
    <3>2. CASE mpc' = "dispatch" \/ grouped' = [w \in Workers |-> {}]
      BY <3>2
    <3>3. \/ UNCHANGED grouped /\ (mpc # "dispatch" \/ mpc' = mpc)
          \/ mpc' = "dispatch" \/ grouped' = [w \in Workers |-> {}]
      BY <1>1 DEF Main, LoopExit, LoopCommit, Poll, PollNothing, PollError, DispatchPush,
                  DispatchEnd, CloseQueues, JoinWorkers, JoinDelivery, FinalCommit
    <3>. QED
      BY <3>1, <3>2, <3>3
  <2>4. mpc' \in {"joinDelivery", "commit", "done"} => \A w \in Workers : wpc[w] = "exit"
    BY <1>1 DEF JoinInv, Main, LoopExit, LoopCommit, Poll, PollNothing, PollError,
                DispatchPush, DispatchEnd, CloseQueues, JoinWorkers, JoinDelivery, FinalCommit
  <2>5. Committing' => dpc = "done"
    BY <1>1 DEF JoinInv, Committing, Main, LoopExit, LoopCommit, Poll, PollNothing, PollError,
                DispatchPush, DispatchEnd, CloseQueues, JoinWorkers, JoinDelivery, FinalCommit
  <2>. QED
    BY <2>1, <2>2, <2>3, <2>4, <2>5 DEF JoinInv
<1>2. CASE \E w \in Workers : Worker(w)
  <2>1. PICK w \in Workers : Worker(w)
    BY <1>2
  <2>2. UNCHANGED <<mpc, grouped, dpc>>
    BY <2>1 DEF Worker, WorkerStart, WorkerFails, WorkerPop, WorkerDrained, WorkerEval,
                WorkerPush, WorkerUnchanged, mainVars, deliveryVars
  <2>3. /\ wpc[w] # "exit"
        /\ \A v \in Workers : v # w => wpc'[v] = wpc[v]
    BY <2>1 DEF Worker, WorkerStart, WorkerFails, WorkerPop, WorkerDrained, WorkerEval,
                WorkerPush, TypeOK
  <2>4. stop => stop'
    <3>1. UNCHANGED stop \/ stop' = TRUE
      BY <2>1 DEF Worker, WorkerStart, WorkerFails, WorkerPop, WorkerDrained, WorkerEval,
                  WorkerPush, Capture
    <3>. QED
      BY <3>1, Zenon
  <2>5. wpc'[w] = "failing" => stop'
    <3>1. CASE WorkerStart(w)
      BY <3>1, Zenon DEF WorkerStart, Capture, TypeOK
    <3>2. CASE ~WorkerStart(w)
      BY <2>1, <3>2 DEF Worker, WorkerFails, WorkerPop, WorkerDrained, WorkerEval,
                        WorkerPush, TypeOK
    <3>. QED
      BY <3>1, <3>2
  <2>. QED
    BY <2>2, <2>3, <2>4, <2>5 DEF JoinInv, Committing
<1>3. CASE Delivery
  <2>1. UNCHANGED <<mpc, grouped, wpc>> /\ dpc # "done"
    BY <1>3 DEF Delivery, DeliveryPop, Produce, Collect, PopTimeout, FlushAcknowledges,
                Flushing, FlushFails, DeliveryFails, DeliveryUnchanged, mainVars, workerVars
  <2>2. \/ UNCHANGED stop /\ (dpc' # "failing" \/ dpc = "failing")
        \/ stop' = TRUE
    BY <1>3 DEF Delivery, DeliveryPop, Produce, Collect, PopTimeout, FlushAcknowledges,
                FlushFails, DeliveryFails, Capture
  <2>3. /\ stop => stop'
        /\ dpc' = "failing" => stop'
    <3>1. CASE UNCHANGED stop /\ (dpc' # "failing" \/ dpc = "failing")
      BY <3>1, Zenon DEF JoinInv
    <3>2. CASE stop' = TRUE
      BY <3>2, Zenon
    <3>. QED
      BY <2>2, <3>1, <3>2
  <2>. QED
    BY <2>1, <2>3 DEF JoinInv, Committing
<1>4. CASE BrokerStores \/ BrokerRefuses \/ UNCHANGED vars
  <2>1. UNCHANGED <<mpc, grouped, wpc, dpc, stop>>
    BY <1>4 DEF BrokerStores, BrokerRefuses, BrokerUnchanged, vars, mainVars, workerVars,
                deliveryVars
  <2>. QED
    BY <2>1 DEF JoinInv, Committing
<1>5. CASE Restart
  <2>1. /\ mpc' = "loop" /\ dpc' = "pop"
        /\ \A w \in Workers : grouped'[w] = {} /\ wpc'[w] = "start"
    BY <1>5 DEF Restart
  <2>. QED
    BY <2>1 DEF JoinInv, Committing
<1>. QED
  BY <1>1, <1>2, <1>3, <1>4, <1>5 DEF Next, Returned

\* Who has ended, in every run and whatever fails: the main thread joins the delivery
\* thread when all workers have ended, and makes its last commit when the delivery
\* thread has, with no polled message left to dispatch; a thread on its way out of an
\* exception has raised failure.stop (run_stream, from the closing of the queues on).
\* What is left in the queues is the subject of ShutdownInvariant.
THEOREM JoinInvariant == Spec => []JoinInv
<1>1. Init => JoinInv
  BY DEF Init, JoinInv, Committing
<1>2. TypeOK /\ JoinInv /\ [Next]_vars => JoinInv'
  BY ConfigAssumption, NextJoin
<1>. QED
  BY <1>1, <1>2, TypeCorrect, PTL DEF Spec

-----------------------------------------------------------------------------
(* Losses are counted.                                                     *)

LEMMA NextLoss ==
    ASSUME TypeOK, JoinInv, LossInv, [Next]_vars
    PROVE  LossInv'
<1>0. /\ errors \in Nat /\ nacks \in Nat
      /\ lost # {} => errors + nacks > 0
      /\ Flushed => outq = {} /\ nacks = 0
      /\ dpc = "done" /\ ~stop => ~pendingDelivery
  BY DEF TypeOK, LossInv
<1>1. CASE UNCHANGED <<dpc, produced, pendingDelivery, outq, nacks, errors, lost>>
           /\ (stop => stop')
  <2>1. Flushed' => Flushed
    BY <1>1 DEF Flushed
  <2>. QED
    BY <1>0, <1>1, <2>1 DEF LossInv
<1>2. CASE Main \/ (\E w \in Workers : Worker(w)) \/ UNCHANGED vars
  <2>1. UNCHANGED <<dpc, produced, pendingDelivery, outq, nacks, errors, lost>>
    <3>1. CASE Main
      BY <3>1 DEF Main, LoopExit, LoopCommit, Poll, PollNothing, PollError, DispatchPush,
                  DispatchEnd, DispatchUnchanged, CloseQueues, JoinWorkers, JoinDelivery,
                  FinalCommit, MainUnchanged, deliveryVars, producerVars, reportVars
    <3>2. CASE \E w \in Workers : Worker(w)
      BY <3>2 DEF Worker, WorkerStart, WorkerFails, WorkerPop, WorkerDrained, WorkerEval,
                  WorkerPush, WorkerUnchanged, deliveryVars, producerVars, reportVars
    <3>3. CASE UNCHANGED vars
      BY <3>3 DEF vars, deliveryVars, producerVars, reportVars
    <3>. QED
      BY <1>2, <3>1, <3>2, <3>3
  <2>2. CASE Restart
    BY <2>2 DEF Restart, LossInv, Flushed
  <2>3. CASE ~Restart
    BY <2>1, <2>3, <1>1, StopStays
  <2>. QED
    BY <2>2, <2>3
<1>3. CASE Delivery
  <2>0. lost' = lost
    BY <1>3 DEF Delivery, DeliveryPop, Produce, Collect, PopTimeout, FlushAcknowledges,
                FlushFails, DeliveryFails, DeliveryUnchanged, reportVars
  <2>1. lost' # {} => errors' + nacks' > 0
    <3>1. (errors' = errors + nacks /\ nacks' = 0) \/ UNCHANGED <<errors, nacks>>
      BY <1>3 DEF Delivery, DeliveryPop, Produce, Collect, PopTimeout, FlushAcknowledges,
                  FlushFails, DeliveryFails, ServeReports, producerVars
    <3>. QED
      BY <1>0, <2>0, <3>1
  <2>2. CASE DeliveryPop
    <3>1. /\ UNCHANGED <<pendingDelivery, outq, nacks>> /\ dpc = "pop"
          /\ dpc' \in {"produce", "failing"}
      BY <2>2 DEF DeliveryPop, producerVars
    <3>2. Flushed' => Flushed
      BY <3>1 DEF Flushed
    <3>. QED
      BY <1>0, <2>1, <3>1, <3>2 DEF LossInv
  <2>3. CASE Produce
    <3>1. dpc' \in {"produce", "failing"} /\ (dpc' = "produce" => produced' = TRUE)
      BY <2>3 DEF Produce
    <3>2. ~Flushed'
      BY <3>1 DEF Flushed
    <3>. QED
      BY <2>1, <3>1, <3>2 DEF LossInv
  <2>4. CASE Collect
    <3>1. /\ UNCHANGED <<outq, nacks>> /\ dpc = "produce" /\ dpc' \in {"flush", "pop"}
          /\ pendingDelivery' = (pendingDelivery \/ produced)
      BY <2>4 DEF Collect, producerVars
    <3>2. ~pendingDelivery' => ~pendingDelivery /\ ~produced
      BY <3>1, Zenon
    <3>3. Flushed' => Flushed
      BY <3>1, <3>2 DEF Flushed
    <3>. QED
      BY <1>0, <2>1, <3>1, <3>3 DEF LossInv
  <2>5. CASE PopTimeout
    <3>1. /\ UNCHANGED <<outq, nacks, pendingDelivery>> /\ dpc = "pop"
          /\ dpc' \in {"flush", "lastFlush"}
      BY <2>5 DEF PopTimeout, producerVars
    <3>2. Flushed' => Flushed
      BY <3>1 DEF Flushed
    <3>. QED
      BY <1>0, <2>1, <3>1, <3>2 DEF LossInv
  <2>6. CASE FlushAcknowledges
    <3>1. /\ UNCHANGED <<outq, nacks>> /\ dpc \in {"flush", "lastFlush"} /\ FlushOk
          /\ pendingDelivery' = FALSE
      BY <2>6 DEF FlushAcknowledges, Flushing, producerVars
    <3>2. outq = {} /\ nacks = 0
      BY <1>0, <3>1 DEF FlushOk, Flushed
    <3>. QED
      BY <2>1, <3>1, <3>2 DEF LossInv
  <2>7. CASE FlushFails
    <3>1. dpc' = "failing"
      BY <2>7 DEF FlushFails
    <3>. QED
      BY <2>1, <3>1 DEF LossInv, Flushed
  <2>8. CASE DeliveryFails
    <3>1. dpc = "failing" /\ dpc' = "done" /\ stop' = stop
      BY <2>8 DEF DeliveryFails
    <3>2. stop'
      BY <3>1, Zenon DEF JoinInv
    <3>. QED
      BY <2>1, <3>1, <3>2 DEF LossInv, Flushed
  <2>. QED
    BY <1>3, <2>2, <2>3, <2>4, <2>5, <2>6, <2>7, <2>8 DEF Delivery
<1>4. CASE BrokerStores \/ BrokerRefuses
  <2>1. /\ UNCHANGED <<dpc, produced, pendingDelivery, stop, errors>>
        /\ outq # {}
        /\ (lost' = lost /\ nacks' = nacks) \/ nacks' = nacks + 1
    BY <1>4 DEF BrokerStores, BrokerRefuses, BrokerUnchanged, deliveryVars
  <2>2. ~Flushed'
    BY <1>0, <2>1 DEF Flushed
  <2>. QED
    BY <1>0, <2>1, <2>2 DEF LossInv
<1>5. CASE Restart
  BY <1>5 DEF Restart, LossInv, Flushed
<1>. QED
  BY <1>2, <1>3, <1>4, <1>5 DEF Next, Returned

LEMMA LossInvariant == Spec => []LossInv
<1>1. Init => LossInv
  BY DEF Init, LossInv, Flushed
<1>2. TypeOK /\ JoinInv /\ LossInv /\ [Next]_vars => LossInv'
  BY NextLoss
<1>. QED
  BY <1>1, <1>2, TypeCorrect, JoinInvariant, PTL DEF Spec

\* In every configuration, a call that ends without an exception and reports no
\* delivery error has lost no output: the last flush serves every report.
THEOREM StatsAreClean == Spec => []CleanStats
<1>1. TypeOK /\ JoinInv /\ LossInv => CleanStats
  BY DEF TypeOK, JoinInv, Committing, LossInv, Flushed, CleanStats
<1>. QED
  BY <1>1, TypeCorrect, JoinInvariant, LossInvariant, PTL
-----------------------------------------------------------------------------
(* The shutdown of a call without a failure.                               *)

LEMMA MainEnd ==
    ASSUME TypeOK, CommitOffsets, JoinInv, EndInv, ~stop', Main
    PROVE  EndInv'
<1>0. UNCHANGED <<wpc, witem, dpc, ditem, pending, completed>>
  BY DEF Main, LoopExit, LoopCommit, Poll, PollNothing, PollError, DispatchPush, DispatchEnd,
         DispatchUnchanged, CloseQueues, JoinWorkers, JoinDelivery, FinalCommit, MainUnchanged,
         deliveryVars, workerVars, completedVars
<1>1. CASE LoopExit \/ LoopCommit \/ Poll \/ PollNothing \/ PollError \/ DispatchEnd
  <2>1. /\ mpc \in {"loop", "poll", "dispatch"} /\ mpc' \in {"close", "poll", "dispatch", "loop"}
        /\ UNCHANGED <<wq, wqClosed, completedClosed>>
    BY <1>1 DEF LoopExit, LoopCommit, Poll, PollNothing, PollError, DispatchEnd, MainUnchanged,
                DispatchUnchanged, queueVars, completedVars
  <2>. QED
    BY <1>0, <2>1 DEF EndInv
<1>2. CASE DispatchPush
  <2>1. PICK w \in Workers : /\ ~wqClosed[w]
                             /\ wq' = [wq EXCEPT ![w] = Append(@, grouped[w])]
    BY <1>2 DEF DispatchPush, Waiting
  <2>2. UNCHANGED <<mpc, wqClosed, completedClosed>> /\ mpc = "dispatch"
    BY <1>2 DEF DispatchPush, DispatchUnchanged, completedVars
  <2>3. \A v \in Workers : wpc[v] = "exit" => wq'[v] = wq[v]
    BY <2>1 DEF EndInv, TypeOK
  <2>. QED
    BY <1>0, <2>2, <2>3 DEF EndInv
<1>3. CASE CloseQueues
  <2>1. /\ UNCHANGED <<wq, completedClosed>> /\ mpc = "close" /\ mpc' = "join"
        /\ wqClosed' = [w \in Workers |-> TRUE]
    BY <1>3 DEF CloseQueues, CloseAllWorkerQueues, completedVars
  <2>2. \A w \in Workers : wqClosed'[w]
    BY <2>1, Zenon
  <2>. QED
    BY <1>0, <2>1, <2>2 DEF EndInv
<1>4. CASE JoinWorkers
  <2>1. /\ UNCHANGED <<wq, wqClosed>> /\ mpc = "join" /\ mpc' = "joinDelivery"
        /\ completedClosed' = TRUE
    BY <1>4 DEF JoinWorkers, queueVars
  <2>2. completedClosed'
    BY <2>1, Zenon
  <2>. QED
    BY <1>0, <2>1, <2>2 DEF EndInv
<1>5. CASE JoinDelivery
  <2>1. /\ UNCHANGED <<wq, wqClosed, completedClosed>>
        /\ mpc = "joinDelivery" /\ mpc' = "commit"
    BY <1>5 DEF JoinDelivery, MainUnchanged, queueVars, completedVars
  <2>. QED
    BY <1>0, <2>1 DEF EndInv
<1>6. CASE FinalCommit
  <2>1. /\ UNCHANGED <<wq, wqClosed, completedClosed>> /\ mpc = "commit" /\ mpc' = "done"
        /\ CommitOk \/ CommitFails \/ NothingToCommit
    BY <1>6 DEF FinalCommit, MainUnchanged, queueVars, completedVars
  <2>2. \A p \in Partitions : acc'[p] = 0
    BY <2>1 DEF CommitOk, CommitFails, TakeOffsets, NothingToCommit, Committable
  <2>. QED
    BY <1>0, <2>1, <2>2 DEF EndInv
<1>. QED
  BY <1>1, <1>2, <1>3, <1>4, <1>5, <1>6 DEF Main

LEMMA WorkerEnd ==
    ASSUME TypeOK, ControlInv, JoinInv, EndInv, ~stop, NEW w \in Workers, Worker(w)
    PROVE  EndInv' /\ ~completedClosed
<1>0. UNCHANGED <<mpc, dpc, ditem, pending, acc>>
  BY DEF Worker, WorkerStart, WorkerFails, WorkerPop, WorkerDrained, WorkerEval, WorkerPush,
         WorkerUnchanged, mainVars, deliveryVars
<1>1. wpc[w] \notin {"exit", "failing"}
  BY DEF Worker, WorkerStart, WorkerFails, WorkerPop, WorkerDrained, WorkerEval, WorkerPush,
         JoinInv
<1>2. ~completedClosed
  BY <1>1 DEF JoinInv, EndInv
<1>3. dpc \notin {"lastFlush", "done"}
  BY <1>2 DEF EndInv
<1>4. UNCHANGED <<wqClosed, completedClosed>>
  BY <1>1 DEF Worker, WorkerStart, WorkerFails, WorkerPop, WorkerDrained, WorkerEval,
              WorkerPush, queueVars, completedVars
<1>5. \A v \in Workers : v # w => wpc'[v] = wpc[v] /\ witem'[v] = witem[v] /\ wq'[v] = wq[v]
  BY DEF Worker, WorkerStart, WorkerFails, WorkerPop, WorkerDrained, WorkerEval, WorkerPush,
         TypeOK, queueVars
<1>6. wpc'[w] = "exit" => witem'[w] = {} /\ wq'[w] = <<>> /\ wqClosed[w]
  <2>1. CASE WorkerDrained(w)
    BY <2>1 DEF WorkerDrained, ControlInv, queueVars
  <2>2. CASE ~WorkerDrained(w)
    BY <1>1, <1>2, <2>2 DEF Worker, WorkerStart, WorkerFails, WorkerPop, WorkerEval,
                            WorkerPush, TypeOK
  <2>. QED
    BY <2>1, <2>2
<1>. QED
  BY <1>0, <1>2, <1>3, <1>4, <1>5, <1>6 DEF EndInv

LEMMA DeliveryEnd ==
    ASSUME TypeOK, ControlInv, JoinInv, EndInv, ~stop, ~stop', Delivery
    PROVE  EndInv'
<1>0. UNCHANGED <<mpc, wpc, witem, wq>>
  BY DEF Delivery, DeliveryPop, Produce, Collect, PopTimeout, FlushAcknowledges, FlushFails,
         DeliveryFails, DeliveryUnchanged, mainVars, workerVars, queueVars
<1>1. /\ UNCHANGED <<wqClosed, completedClosed>>
      /\ dpc # "done" /\ mpc # "done"
  BY DEF Delivery, DeliveryPop, Produce, Collect, PopTimeout, FlushAcknowledges, Flushing,
         FlushFails, DeliveryFails, JoinInv, Committing, queueVars, completedVars
<1>2. CASE DeliveryPop \/ Produce \/ Collect \/ FlushFails
  <2>1. dpc' \notin {"lastFlush", "done"}
    BY <1>2 DEF DeliveryPop, Produce, Collect, FlushFails
  <2>. QED
    BY <1>0, <1>1, <2>1 DEF EndInv
<1>3. CASE PopTimeout
  <2>1. /\ completed = <<>> /\ UNCHANGED <<completed, ditem>> /\ dpc = "pop"
        /\ (dpc' = "lastFlush" /\ completedClosed) \/ dpc' = "flush"
    BY <1>3 DEF PopTimeout, completedVars
  <2>2. ditem = {}
    BY <2>1 DEF ControlInv
  <2>. QED
    BY <1>0, <1>1, <2>1, <2>2 DEF EndInv
<1>4. CASE FlushAcknowledges
  <2>1. /\ UNCHANGED <<completed, ditem>> /\ pending' = {}
        /\ dpc' = "pop" \/ (dpc = "lastFlush" /\ dpc' = "done")
    BY <1>4 DEF FlushAcknowledges, Flushing, completedVars
  <2>. QED
    BY <1>0, <1>1, <2>1 DEF EndInv
<1>5. CASE DeliveryFails
  BY <1>5 DEF DeliveryFails, JoinInv
<1>. QED
  BY <1>2, <1>3, <1>4, <1>5 DEF Delivery

\* What was polled stays committed, about to be, or in flight.
LEMMA PolledKept ==
    ASSUME ConfigAssumption, TypeOK, TypeOK', PolledInv,
           UNCHANGED <<position, committed>>,
           \A p \in Partitions : acc[p] <= acc'[p],
           \A w \in Workers : \A m \in InFlight(w) :
               m \in InFlight(w)' \/ m.offset < acc'[m.tp]
    PROVE  PolledInv'
<1>. SUFFICES ASSUME NEW m \in Payload, m.offset < position[m.tp]
              PROVE  \/ m.offset < committed[m.tp] \/ m.offset < acc'[m.tp]
                     \/ m \in InFlight(WorkerOf[m.tp])'
  BY DEF PolledInv
<1>1. m.tp \in Partitions /\ m.offset \in Nat /\ WorkerOf[m.tp] \in Workers
  BY MessageFacts
<1>2. acc[m.tp] \in Nat /\ acc'[m.tp] \in Nat /\ acc[m.tp] <= acc'[m.tp]
  BY <1>1 DEF TypeOK
<1>. QED
  BY <1>1, <1>2 DEF PolledInv

\* The same stages, the same messages in flight.
LEMMA FlightKept ==
    ASSUME UNCHANGED <<pending, ditem, completed, witem, wq, grouped>>
    PROVE  \A w \in Workers : InFlight(w)' = InFlight(w)
BY DEF InFlight, InWorker, InQueue, InCompleted, InDelivery

LEMMA MainPolled ==
    ASSUME ConfigAssumption, TypeOK, TypeOK', Affine, CommitInv, OrderInv, JoinInv, EndInv,
           PolledInv, ~stop', Main
    PROVE  PolledInv'
<1>0. \A p \in Partitions : /\ acc[p] \in Nat /\ acc[p] <= acc[p] /\ committed[p] \in Nat
                            /\ position[p] \in Nat
  BY DEF TypeOK
<1>1. CASE LoopCommit \/ FinalCommit
  <2>1. /\ UNCHANGED <<position, grouped, pending, ditem, completed, witem, wq>>
        /\ CommitOk \/ CommitFails \/ NothingToCommit
    BY <1>1 DEF LoopCommit, FinalCommit, MainUnchanged, deliveryVars, completedVars,
                workerVars, queueVars
  <2>2. \A w \in Workers : InFlight(w)' = InFlight(w)
    BY <2>1, FlightKept
  <2>3. CASE NothingToCommit
    BY <1>0, <2>1, <2>2, <2>3, PolledKept DEF NothingToCommit
  <2>4. CASE CommitOk
    <3>1. \A p \in Partitions : committed'[p] = IF acc[p] = 0 THEN committed[p] ELSE acc[p]
      BY <2>4 DEF CommitOk, StoreOffsets
    <3>. SUFFICES ASSUME NEW m \in Payload, m.offset < position[m.tp]
                  PROVE  m.offset < committed'[m.tp] \/ m \in InFlight(WorkerOf[m.tp])'
      BY <2>1 DEF PolledInv
    <3>2. m.tp \in Partitions /\ m.offset \in Nat /\ WorkerOf[m.tp] \in Workers
      BY MessageFacts
    <3>3. acc[m.tp] # 0 => committed[m.tp] <= acc[m.tp]
      BY <3>2 DEF OrderInv
    <3>4. m.offset < committed[m.tp] \/ m.offset < acc[m.tp] \/ m \in InFlight(WorkerOf[m.tp])
      BY DEF PolledInv
    <3>. QED
      BY <1>0, <2>2, <3>1, <3>2, <3>3, <3>4
  <2>5. CASE CommitFails
    BY <2>5, Zenon DEF CommitFails, Capture
  <2>. QED
    BY <2>1, <2>3, <2>4, <2>5
<1>2. CASE Poll
  <2>1. /\ OrderInv'
        /\ \A w \in Workers : InFlight(w) \subseteq InFlight(w)'
        /\ \A m \in Payload : position[m.tp] <= m.offset /\ m.offset < position'[m.tp]
                                => m \in InFlight(WorkerOf[m.tp])'
    BY <1>2, PollOrder
  <2>2. UNCHANGED <<committed, acc>>
    BY <1>2 DEF Poll
  <2>. SUFFICES ASSUME NEW m \in Payload, m.offset < position'[m.tp]
                PROVE  \/ m.offset < committed[m.tp] \/ m.offset < acc[m.tp]
                       \/ m \in InFlight(WorkerOf[m.tp])'
    BY <2>2 DEF PolledInv
  <2>3. m.tp \in Partitions /\ m.offset \in Nat /\ WorkerOf[m.tp] \in Workers
    BY MessageFacts
  <2>4. m.offset < position[m.tp] \/ position[m.tp] <= m.offset
    BY <1>0, <2>3
  <2>. QED
    BY <2>1, <2>3, <2>4 DEF PolledInv
<1>3. CASE PollNothing
  <2>1. PICK upto \in Reachable : Fetched(upto) = {} /\ position' = upto
    BY <1>3 DEF PollNothing
  <2>2. UNCHANGED <<grouped, pending, ditem, completed, witem, wq, acc, committed>>
    BY <1>3 DEF PollNothing, MainUnchanged, deliveryVars, completedVars, workerVars, queueVars
  <2>3. \A w \in Workers : InFlight(w)' = InFlight(w)
    BY <2>2, FlightKept
  <2>4. ASSUME NEW m \in Payload, m.offset < position'[m.tp]
        PROVE  m.offset < position[m.tp]
    <3>1. ~(position[m.tp] <= m.offset)
      BY <2>1, <2>4 DEF Fetched
    <3>. QED
      BY <1>0, <3>1, MessageFacts
  <2>. QED
    BY <2>2, <2>3, <2>4, MessageFacts DEF PolledInv
<1>4. CASE PollError
  BY <1>4, Zenon DEF PollError, Capture
<1>5. CASE DispatchPush
  <2>1. OrderInv' /\ \A v \in Workers : InFlight(v) \subseteq InFlight(v)'
    BY <1>5, DispatchOrder
  <2>2. UNCHANGED <<position, committed, acc>>
    BY <1>5 DEF DispatchPush, DispatchUnchanged
  <2>. QED
    BY <1>0, <2>1, <2>2, PolledKept
<1>6. CASE DispatchEnd
  <2>1. mpc = "dispatch" /\ grouped' = [w \in Workers |-> {}]
        /\ UNCHANGED <<position, committed, acc, pending, ditem, completed, witem, wq>>
    BY <1>6 DEF DispatchEnd, DispatchUnchanged, deliveryVars, completedVars, workerVars
  <2>2. Waiting = {}
    BY <1>6, <2>1 DEF DispatchEnd, EndInv, Waiting
  <2>3. \A w \in Workers : grouped'[w] = grouped[w]
    BY <2>1, <2>2 DEF Waiting
  <2>4. \A w \in Workers : InFlight(w)' = InFlight(w)
    BY <2>1, <2>3 DEF InFlight, InWorker, InQueue, InCompleted, InDelivery
  <2>. QED
    BY <1>0, <2>1, <2>4, PolledKept
<1>7. CASE LoopExit \/ CloseQueues \/ JoinWorkers \/ JoinDelivery
  <2>1. UNCHANGED <<position, grouped, pending, ditem, completed, witem, wq, acc, committed>>
    BY <1>7 DEF LoopExit, CloseQueues, JoinWorkers, JoinDelivery, MainUnchanged,
                deliveryVars, completedVars, workerVars, queueVars
  <2>. QED
    BY <1>0, <2>1, FlightKept, PolledKept
<1>. QED
  BY <1>1, <1>2, <1>3, <1>4, <1>5, <1>6, <1>7 DEF Main

LEMMA WorkerPolled ==
    ASSUME ConfigAssumption, TypeOK, TypeOK', CommitInv, OrderInv, JoinInv, EndInv, PolledInv,
           ~stop, NEW w \in Workers, Worker(w)
    PROVE  PolledInv'
<1>1. /\ UNCHANGED <<pending, ditem, grouped, position, committed, acc>>
      /\ \A p \in Partitions : acc[p] <= acc'[p]
  BY DEF Worker, WorkerStart, WorkerFails, WorkerPop, WorkerDrained, WorkerEval, WorkerPush,
         WorkerUnchanged, mainVars, deliveryVars, TypeOK
<1>2. CASE WorkerStart(w) \/ WorkerFails(w) \/ WorkerDrained(w) \/ WorkerEval(w)
  <2>1. UNCHANGED <<completed, wq, witem>>
    BY <1>2 DEF WorkerStart, WorkerFails, WorkerDrained, WorkerEval, completedVars, queueVars
  <2>. QED
    BY <1>1, <2>1, FlightKept, PolledKept
<1>3. CASE WorkerPop(w)
  <2>1. \A v \in Workers : InFlight(v) \subseteq InFlight(v)'
    BY <1>3, PopOrder
  <2>. QED
    BY <1>1, <2>1, PolledKept
<1>4. CASE WorkerPush(w)
  <2>1. ~completedClosed
    BY WorkerEnd DEF CommitInv
  <2>2. /\ wq' = wq /\ witem' = [witem EXCEPT ![w] = {}]
        /\ completed' = Append(completed, Result(witem[w]))
    BY <1>4, <2>1 DEF WorkerPush, queueVars
  <2>3. \A v \in Workers : InFlight(v) \subseteq InFlight(v)'
    BY <1>1, <2>2, PushOrder DEF CommitInv
  <2>. QED
    BY <1>1, <2>3, PolledKept
<1>. QED
  BY <1>2, <1>3, <1>4 DEF Worker

LEMMA DeliveryPolled ==
    ASSUME ConfigAssumption, TypeOK, TypeOK', CommitOffsets, CommitInv, OrderInv, PolledInv,
           Delivery
    PROVE  PolledInv'
<1>0. /\ UNCHANGED <<witem, wq, grouped, position, committed>>
      /\ \A p \in Partitions : acc[p] <= acc[p]
  BY DEF Delivery, DeliveryPop, Produce, Collect, PopTimeout, FlushAcknowledges, FlushFails,
         DeliveryFails, DeliveryUnchanged, mainVars, workerVars, queueVars, TypeOK
<1>1. CASE DeliveryPop
  <2>1. acc' = acc /\ \A v \in Workers : InFlight(v) \subseteq InFlight(v)'
    BY <1>1, TakeOrder DEF DeliveryPop
  <2>. QED
    BY <1>0, <2>1, PolledKept
<1>2. CASE Produce \/ PopTimeout \/ FlushFails \/ DeliveryFails
  <2>1. UNCHANGED <<pending, ditem, completed, acc>>
    BY <1>2 DEF Produce, PopTimeout, FlushFails, DeliveryFails, completedVars
  <2>. QED
    BY <1>0, <2>1, FlightKept, PolledKept
<1>3. CASE Collect
  <2>1. pending' = pending \cup ditem /\ ditem' = {} /\ UNCHANGED <<completed, acc>>
    BY <1>3 DEF Collect, completedVars
  <2>2. InDelivery' = InDelivery
    BY <2>1 DEF InDelivery
  <2>3. InCompleted' = InCompleted
    BY <2>1, <2>2 DEF InCompleted
  <2>4. \A v \in Workers : InFlight(v)' = InFlight(v)
    BY <1>0, <2>3, WorkersKept
  <2>. QED
    BY <1>0, <2>1, <2>4, PolledKept
<1>4. CASE FlushAcknowledges
  <2>1. /\ Acknowledge(pending) /\ pending' = {} /\ UNCHANGED <<ditem, completed>>
        /\ pending \in SUBSET Payload
    BY <1>4 DEF FlushAcknowledges, completedVars, TypeOK
  <2>2. /\ \A p \in Partitions : acc[p] <= acc'[p]
        /\ \A p \in Partitions : \A y \in NextOffsets(pending, p) : y <= acc'[p]
    BY <2>1, AcknowledgeMax
  <2>3. \A m \in pending : m.offset < acc'[m.tp]
    <3>. SUFFICES ASSUME NEW m \in pending
                  PROVE  m.offset < acc'[m.tp]
      OBVIOUS
    <3>1. m.tp \in Partitions /\ m.offset \in Nat
      BY <2>1, MessageFacts
    <3>2. m.offset + 1 <= acc'[m.tp]
      BY <2>2, <3>1 DEF NextOffsets
    <3>3. acc'[m.tp] \in Nat
      BY <3>1 DEF TypeOK
    <3>. QED
      BY <3>1, <3>2, <3>3
  <2>4. \A w \in Workers : InFlight(w) \subseteq InFlight(w)' \cup pending
    BY <1>0, <2>1 DEF InFlight, InWorker, InQueue, InCompleted, InDelivery
  <2>. QED
    BY <1>0, <2>2, <2>3, <2>4, PolledKept
<1>. QED
  BY <1>1, <1>2, <1>3, <1>4 DEF Delivery

LEMMA NextShutdown ==
    ASSUME ConfigAssumption, TypeOK, TypeOK', Affine, CommitInv, OrderInv, JoinInv,
           ShutdownInv, [Next]_vars
    PROVE  ShutdownInv'
<1>. SUFFICES ASSUME CommitOffsets, ~stop'
              PROVE  EndInv' /\ PolledInv'
  BY DEF ShutdownInv
<1>1. CASE Restart
  <2>1. /\ mpc' = "loop" /\ dpc' = "pop" /\ completedClosed' = FALSE
        /\ position' = committed' /\ wqClosed' = [w \in Workers |-> FALSE]
        /\ \A w \in Workers : wpc'[w] = "start"
    BY <1>1 DEF Restart
  <2>2. ~completedClosed' /\ \A w \in Workers : ~wqClosed'[w]
    BY <2>1, Zenon
  <2>. QED
    BY <2>1, <2>2 DEF EndInv, PolledInv
<1>2. CASE ~Restart
  <2>1. ~stop /\ EndInv /\ PolledInv
    <3>1. ~stop
      BY <1>2, StopStays
    <3>. QED
      BY <3>1 DEF ShutdownInv
  <2>2. CASE Main
    BY <2>1, <2>2, MainEnd, MainPolled
  <2>3. CASE \E w \in Workers : Worker(w)
    BY <2>1, <2>3, WorkerEnd, WorkerPolled DEF CommitInv
  <2>4. CASE Delivery
    BY <2>1, <2>4, DeliveryEnd, DeliveryPolled DEF CommitInv
  <2>5. CASE BrokerStores \/ BrokerRefuses \/ UNCHANGED vars
    <3>1. /\ UNCHANGED <<position, grouped, pending, ditem, completed, witem, wq, acc, committed>>
          /\ UNCHANGED <<mpc, wpc, dpc, wqClosed, completedClosed>>
          /\ \A p \in Partitions : acc[p] <= acc[p]
      BY <2>5 DEF BrokerStores, BrokerRefuses, BrokerUnchanged, vars, mainVars, workerVars,
                  queueVars, completedVars, deliveryVars, TypeOK
    <3>2. PolledInv'
      BY <2>1, <3>1, FlightKept, PolledKept
    <3>. QED
      BY <2>1, <3>1, <3>2 DEF EndInv
  <2>. QED
    BY <1>2, <2>2, <2>3, <2>4, <2>5 DEF Next, Returned
<1>. QED
  BY <1>1, <1>2

LEMMA AffineShutdown == Affine => (Spec => []ShutdownInv)
<1>. SUFFICES ASSUME Affine PROVE Spec => []ShutdownInv
  OBVIOUS
<1>1. Init => ShutdownInv
  <2>. SUFFICES ASSUME Init PROVE EndInv /\ PolledInv
    BY DEF ShutdownInv
  <2>1. ~completedClosed /\ \A w \in Workers : ~wqClosed[w]
    BY Zenon DEF Init
  <2>. QED
    BY <2>1, MessageFacts, ConfigAssumption DEF Init, EndInv, PolledInv
<1>2. TypeOK /\ TypeOK' /\ PipelineInv /\ OrderInv /\ JoinInv /\ ShutdownInv /\ [Next]_vars
        => ShutdownInv'
  BY ConfigAssumption, NextShutdown DEF PipelineInv
<1>. QED
  BY <1>1, <1>2, TypeCorrect, PipelineInvariant, OrderInvariant, JoinInvariant, PTL DEF Spec

\* Where offsets are committed and nothing has failed: a worker has ended only with its
\* queue closed and empty and nothing in its hands, the delivery thread only when every
\* completed batch was taken and delivered; what was polled is committed, about to be,
\* or in flight; and the last commit leaves nothing in the accumulator (the threads of
\* the workers and of the delivery, and the end of run_stream).
THEOREM ShutdownInvariant == Spec => []ShutdownInv
<1>1. CASE CommitOffsets
  BY <1>1, AffineShutdown DEF Affine
<1>2. CASE ~CommitOffsets
  <2>1. ShutdownInv
    BY <1>2 DEF ShutdownInv
  <2>. QED
    BY <2>1, PTL
<1>. QED
  BY <1>1, <1>2

LEMMA EndImpliesClean ==
    ASSUME ConfigAssumption, TypeOK, CommitOffsets, JoinInv, ShutdownInv
    PROVE  CleanExit
<1>. SUFFICES ASSUME mpc = "done", ~stop, NEW m \in Payload, m.offset < position[m.tp]
              PROVE  m.offset < committed[m.tp]
  BY DEF CleanExit
<1>1. m.tp \in Partitions /\ m.offset \in Nat /\ WorkerOf[m.tp] \in Workers
  BY MessageFacts
<1>2. EndInv /\ PolledInv /\ dpc = "done"
  BY DEF ShutdownInv, JoinInv, Committing
<1>3. \A w \in Workers : /\ grouped[w] = {} /\ witem[w] = {} /\ wq[w] = <<>>
  BY <1>2 DEF JoinInv, EndInv
<1>4. completed = <<>> /\ ditem = {} /\ pending = {}
  BY <1>2 DEF EndInv
<1>5. \A w \in Workers : InFlight(w) = {}
  BY <1>3, <1>4 DEF InFlight, InWorker, InQueue, InCompleted, InDelivery
<1>6. acc[m.tp] = 0
  BY <1>1, <1>2 DEF EndInv
<1>. QED
  BY <1>1, <1>2, <1>5, <1>6 DEF PolledInv

\* A call that returns without an exception has committed all that it polled: no
\* interleaving of its shutdown leaves a batch in a queue, a thread or the
\* accumulator.
THEOREM ExitIsClean == Spec => []CleanExit
<1>1. CASE CommitOffsets
  <2>1. TypeOK /\ JoinInv /\ ShutdownInv => CleanExit
    BY <1>1, ConfigAssumption, EndImpliesClean
  <2>. QED
    BY <2>1, ShutdownInvariant, TypeCorrect, JoinInvariant, PTL
<1>2. CASE ~CommitOffsets
  <2>1. CleanExit
    BY <1>2 DEF CleanExit
  <2>. QED
    BY <2>1, PTL
<1>. QED
  BY <1>1, <1>2
=============================================================================
