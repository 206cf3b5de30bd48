--------------------------- MODULE AgentHttpProofs ---------------------------
(***************************************************************************)
(* Proofs about AgentHttp: its types, and the engines, of which no two     *)
(* evaluators ever use the same one and none is lost from the pool; and    *)
(* its answers: the agent implements the promise of RequestPromise,        *)
(* nothing is written of a request that is refused, the shutdown loses no  *)
(* acknowledged decision, and deduplication keeps the order of the         *)
(* requests.  These rest on PoolInv and on the invariants of AgentHttpInv. *)
(***************************************************************************)
EXTENDS AgentHttpInv, TLAPS

LEMMA QueueFacts ==
    ASSUME NEW S, NEW q \in Seq(S)
    PROVE  /\ Len(q) \in Nat
           /\ q # <<>> => /\ Head(q) \in S /\ Head(q) = q[1] /\ Tail(q) \in Seq(S)
                          /\ Len(Tail(q)) = Len(q) - 1
                          /\ \A i \in DOMAIN Tail(q) : \E j \in DOMAIN q : Tail(q)[i] = q[j]
           /\ \A e \in S : /\ Append(q, e) \in Seq(S) /\ Len(Append(q, e)) = Len(q) + 1
                           /\ \A i \in DOMAIN Append(q, e) :
                                 \/ Append(q, e)[i] = e
                                 \/ i \in DOMAIN q /\ Append(q, e)[i] = q[i]
<1>1. Len(q) \in Nat
  OBVIOUS
<1>2. ASSUME q # <<>>
      PROVE  /\ Head(q) \in S /\ Head(q) = q[1] /\ Tail(q) \in Seq(S)
             /\ Len(Tail(q)) = Len(q) - 1
             /\ \A i \in DOMAIN Tail(q) : \E j \in DOMAIN q : Tail(q)[i] = q[j]
  <2>1. /\ Head(q) \in S /\ Head(q) = q[1] /\ Tail(q) \in Seq(S)
        /\ Len(Tail(q)) = Len(q) - 1
    BY <1>2
  <2>2. ASSUME NEW i \in DOMAIN Tail(q)
        PROVE  i + 1 \in DOMAIN q /\ Tail(q)[i] = q[i + 1]
    BY <1>2, <2>1, <2>2
  <2>. QED
    BY <2>1, <2>2
<1>3. ASSUME NEW e \in S
      PROVE  /\ Append(q, e) \in Seq(S) /\ Len(Append(q, e)) = Len(q) + 1
             /\ \A i \in DOMAIN Append(q, e) :
                   \/ Append(q, e)[i] = e
                   \/ i \in DOMAIN q /\ Append(q, e)[i] = q[i]
  <2>1. Append(q, e) \in Seq(S) /\ Len(Append(q, e)) = Len(q) + 1
    OBVIOUS
  <2>2. ASSUME NEW i \in DOMAIN Append(q, e)
        PROVE  \/ Append(q, e)[i] = e
               \/ i \in DOMAIN q /\ Append(q, e)[i] = q[i]
    BY <2>1, <2>2
  <2>. QED
    BY <2>1, <2>2
<1>. QED
  BY <1>1, <1>2, <1>3

LEMMA ItemsFacts ==
    ASSUME NEW r \in Requests, NEW i \in DOMAIN Body[r]
    PROVE  <<r, i>> \in Items
BY DEF Items, ItemsOf

LEMMA BodyFacts ==
    ASSUME AgentAssumption, NEW r \in Requests
    PROVE  /\ DOMAIN Body[r] = 1 .. Len(Body[r]) /\ Len(Body[r]) \in Nat
           /\ DOMAIN Body[r] \subseteq Nat \ {0}
BY DEF AgentAssumption

\* What Complete does to the types.
LEMMA CompleteType ==
    ASSUME TypeOK, NEW r, NEW code \in Codes, Complete(r, code)
    PROVE  answer' \in [Requests -> Codes \cup {None}] /\ waiting' \in SUBSET Requests
BY DEF Complete, TypeOK

\* A released engine goes back to the engines of the pool.
LEMMA ReleasedType ==
    ASSUME TypeOK, NEW w \in Workers, job[w].engine # None
    PROVE  Released(w) \in SUBSET Engines
BY DEF TypeOK, Jobs, Released

\* An evaluator that has a batch before it.
LEMMA NextFacts ==
    ASSUME AgentAssumption, TypeOK, TasksOK, NEW w \in Workers,
           HasNext(w) \/ wpc[w] = "using"
    PROVE  /\ job[w] \in Jobs /\ job[w].request \in Requests
           /\ job[w].next \in DOMAIN Body[job[w].request]
           /\ NextItem(w) \in Items /\ NextRecord(w) \in Records
<1>1. job[w] \in Jobs
  BY DEF TypeOK
<1>2. job[w].request \in Requests /\ job[w].next \in Nat \ {0}
  BY <1>1 DEF HasNext, TasksOK, TaskOK, Jobs
<1>3. job[w].next \in DOMAIN Body[job[w].request]
  <2>1. CASE HasNext(w)
    BY <1>2, <2>1, BodyFacts DEF HasNext
  <2>2. CASE wpc[w] = "using"
    BY <2>2 DEF TasksOK, TaskOK
  <2>. QED
    BY <2>1, <2>2
<1>4. NextItem(w) \in Items
  BY <1>2, <1>3, ItemsFacts DEF NextItem
<1>5. NextRecord(w) \in Records
  BY <1>2, <1>3 DEF NextRecord, AgentAssumption
<1>. QED
  BY <1>1, <1>2, <1>3, <1>4, <1>5

\* A batch done.
LEMMA JobFields ==
    ASSUME NEW j \in Jobs
    PROVE  /\ [j EXCEPT !.next = @ + 1] \in Jobs
           /\ [j EXCEPT !.results = @ \cup {j.next}, !.next = @ + 1,
                        !.engine = None, !.pooled = FALSE] \in Jobs
<1>1. j.next \in Nat /\ j.next + 1 \in Nat \ {0}
  BY DEF Jobs
<1>2. \A n \in Nat \ {0} : [j EXCEPT !.next = n] \in Jobs
  BY DEF Jobs
<1>3. \A n \in Nat \ {0}, x \in SUBSET Nat :
         [j EXCEPT !.results = x, !.next = n, !.engine = None, !.pooled = FALSE] \in Jobs
  BY DEF Jobs
<1>4. j.results \cup {j.next} \in SUBSET Nat
  BY <1>1 DEF Jobs
<1>5. [j EXCEPT !.next = @ + 1] = [j EXCEPT !.next = j.next + 1]
  OBVIOUS
<1>. QED
  BY <1>1, <1>2, <1>3, <1>4, <1>5 DEF Jobs

\* The locals of an evaluator after a step of its own.
LEMMA JobStep ==
    ASSUME TypeOK, NEW w \in Workers, NEW new \in Jobs, job' = [job EXCEPT ![w] = new]
    PROVE  job' \in [Workers -> Jobs]
BY DEF TypeOK

LEMMA InitInv == ASSUME AgentAssumption, Init PROVE PoolInv
<1>1. /\ 1 \in Workers /\ None \notin Workers
      /\ config \in Configs /\ config.shards \in 1 .. MaxShards /\ MaxShards \in Nat \ {0}
  BY DEF Init, AgentAssumption, Workers, None
<1>2. TypeOK
  <2>1. /\ job \in [Workers -> Jobs] /\ sink \in [Sinks -> SinkTasks]
        /\ wpc \in [Workers -> {"pop", "serial", "check", "eval", "using", "threw", "push",
                                "ack", "exit"}]
        /\ spc \in [Sinks -> {"pop", "write", "exit"}]
        /\ answer \in [Requests -> Codes \cup {None}]
    BY DEF Init, Jobs, NoJob, SinkTasks, NoTask
  <2>2. /\ evalQ \in Seq(Requests) /\ Len(evalQ) <= EvalDepth
        /\ sinkQ \in Seq(SinkTasks) /\ Len(sinkQ) <= SinkDepth
        /\ accepted \in Seq(Requests) /\ order \in Seq(Items)
        /\ faults \in 0 .. MaxFaults
    BY DEF Init, AgentAssumption
  <2>. QED
    BY <2>1, <2>2 DEF Init, TypeOK
<1>3. Using = {}
  BY DEF Init, Using
<1>4. TasksOK
  BY <1>3 DEF Init, TasksOK, TaskOK, SinkOK
<1>5. SerialOK
  BY <1>1 DEF Init, SerialOK, MustHold, Workers, EvalWorkers
<1>6. PoolOK /\ EnginesExclusive
  BY <1>3 DEF Init, PoolOK, EnginesExclusive
<1>. QED
  BY <1>2, <1>4, <1>5, <1>6 DEF PoolInv

-----------------------------------------------------------------------------
(* Types.                                                                  *)

LEMMA WorkerType ==
    ASSUME AgentAssumption, TypeOK, TasksOK, NEW w \in Workers, Worker(w)
    PROVE  TypeOK'
<1>0. /\ job \in [Workers -> Jobs] /\ job[w] \in Jobs /\ w \in Workers \cup {None}
      /\ None \in Workers \cup {None} /\ NoJob \in Jobs
      /\ 200 \in Codes /\ 500 \in Codes /\ 503 \in Codes
      /\ config.shards \in 1 .. MaxShards /\ 1 .. config.shards \subseteq Engines
  BY DEF TypeOK, Jobs, NoJob, Codes, AgentAssumption, Engines
<1>. USE <1>0
<1>1. CASE WorkerPop(w)
  <2>1. Head(evalQ) \in Requests /\ evalQ' \in Seq(Requests) /\ Len(evalQ') <= EvalDepth
    BY <1>1, QueueFacts DEF WorkerPop, TypeOK, AgentAssumption
  <2>2. [NoJob EXCEPT !.request = Head(evalQ)] \in Jobs
    BY <2>1 DEF NoJob, Jobs
  <2>. QED
    BY <1>1, <2>1, <2>2 DEF WorkerPop, TypeOK, requestVars, sinkQVars, sinkVars, poolVars,
       outputVars, historyVars
<1>2. CASE WorkerExit(w)
  BY <1>2 DEF WorkerExit, TypeOK, requestVars, evalQVars, sinkQVars, sinkVars, poolVars,
     outputVars, historyVars
<1>3. CASE LockSerial(w)
  BY <1>3 DEF LockSerial, TypeOK, requestVars, evalQVars, sinkQVars, sinkVars, poolVars,
     outputVars, historyVars
<1>4. CASE CheckPool(w)
  BY <1>4 DEF CheckPool, TypeOK, requestVars, evalQVars, sinkQVars, sinkVars, poolVars,
     outputVars, historyVars
<1>5. CASE DropDuplicate(w)
  <2>2. NextItem(w) \in Items
    BY <1>5, NextFacts DEF DropDuplicate
  <2>3. job' \in [Workers -> Jobs]
    <3>1. [job[w] EXCEPT !.next = @ + 1] \in Jobs
      BY JobFields
    <3>. QED
      BY <1>5, <3>1, JobStep DEF DropDuplicate
  <2>. QED
    BY <1>5, <2>2, <2>3 DEF DropDuplicate, TypeOK, requestVars, evalQVars, sinkQVars,
       sinkVars, poolVars, outputVars
<1>6. CASE Acquire(w)
  <2>2. NextRecord(w) \in Records
    BY <1>6, NextFacts DEF Acquire
  <2>3. job' \in [Workers -> Jobs] /\ free' \in SUBSET Engines
    <3>1. 1 \in Engines /\ free \subseteq Engines
      BY DEF TypeOK, Engines, AgentAssumption
    <3>2. PICK e \in Engines, p \in BOOLEAN :
            /\ job' = [job EXCEPT ![w].engine = e, ![w].pooled = p]
            /\ free' \in {free, free \ {e}}
      BY <1>6, <3>1 DEF Acquire
    <3>3. [job[w] EXCEPT !.engine = e, !.pooled = p] \in Jobs
      BY DEF Jobs
    <3>4. job' = [job EXCEPT ![w] = [job[w] EXCEPT !.engine = e, !.pooled = p]]
      BY <3>2 DEF Jobs
    <3>. QED
      BY <3>1, <3>2, <3>3, <3>4, JobStep
  <2>. QED
    BY <1>6, <2>2, <2>3 DEF Acquire, TypeOK, requestVars, evalQVars, sinkQVars, sinkVars,
       outputVars, historyVars
<1>7. CASE Evaluate(w)
  <2>1. wpc[w] = "using" /\ job[w].engine # None
    BY <1>7 DEF Evaluate, TasksOK, TaskOK, Engines, None
  <2>2. NextItem(w) \in Items
    BY <2>1, NextFacts
  <2>3. order' \in Seq(Items)
    BY <1>7, <2>2 DEF Evaluate, TypeOK
  <2>4. job' \in [Workers -> Jobs]
    <3>. DEFINE new == [job[w] EXCEPT !.results = @ \cup {job[w].next}, !.next = @ + 1,
                                      !.engine = None, !.pooled = FALSE]
    <3>1. new \in Jobs
      BY JobFields
    <3>2. job' = [job EXCEPT ![w] = new]
      BY <1>7 DEF Evaluate, Jobs
    <3>. HIDE DEF new
    <3>. QED
      BY <3>1, <3>2, JobStep
  <2>5. free' \in SUBSET Engines
    BY <1>7, <2>1, ReleasedType DEF Evaluate
  <2>. QED
    BY <1>7, <2>3, <2>4, <2>5 DEF Evaluate, TypeOK, requestVars, evalQVars,
       sinkQVars, sinkVars, outputVars
<1>8. CASE EvaluateThrows(w)
  <2>1. job' \in [Workers -> Jobs]
    BY <1>8 DEF EvaluateThrows, Jobs, NoJob
  <2>2. free' \in SUBSET Engines
    <3>1. job[w].engine # None
      BY <1>8 DEF EvaluateThrows, TasksOK, TaskOK, Engines, None
    <3>. QED
      BY <1>8, <3>1, ReleasedType DEF EvaluateThrows
  <2>. QED
    BY <1>8, <2>1, <2>2 DEF EvaluateThrows, TypeOK, requestVars, evalQVars,
       sinkQVars, sinkVars, outputVars, historyVars
<1>9. CASE Threw(w)
  <2>1. answer' \in [Requests -> Codes \cup {None}] /\ waiting' \in SUBSET Requests
    BY <1>9, CompleteType DEF Threw, CompleteThrown
  <2>. QED
    BY <1>9, <2>1 DEF Threw, TypeOK, evalQVars, sinkQVars, sinkVars, poolVars, outputVars,
       historyVars
<1>10. CASE FinishRequest(w)
  <2>1. /\ once' \in BOOLEAN /\ built' \in BOOLEAN /\ free' \in SUBSET Engines
    BY <1>10 DEF FinishRequest, TypeOK
  <2>. QED
    BY <1>10, <2>1 DEF FinishRequest, TypeOK, requestVars, evalQVars, sinkQVars, sinkVars,
       outputVars, historyVars
<1>11. CASE CompleteDisabled(w)
  <2>1. answer' \in [Requests -> Codes \cup {None}] /\ waiting' \in SUBSET Requests
    BY <1>11, CompleteType DEF CompleteDisabled
  <2>. QED
    BY <1>11, <2>1 DEF CompleteDisabled, EndTask, TypeOK, evalQVars, sinkQVars, sinkVars,
       poolVars, outputVars, historyVars
<1>12. CASE Push(w)
  <2>1. [request |-> job[w].request, left |-> job[w].results] \in SinkTasks
    BY DEF Jobs, SinkTasks
  <2>2. sinkQ' \in Seq(SinkTasks) /\ Len(sinkQ') <= SinkDepth
    BY <1>12, <2>1, QueueFacts DEF Push, SinkRoom, TypeOK, AgentAssumption
  <2>. QED
    BY <1>12, <2>2 DEF Push, TypeOK, requestVars, evalQVars, sinkVars, poolVars, outputVars,
       historyVars
<1>13. CASE PushRefused(w)
  <2>1. answer' \in [Requests -> Codes \cup {None}] /\ waiting' \in SUBSET Requests
    BY <1>13, CompleteType DEF PushRefused
  <2>. QED
    BY <1>13, <2>1 DEF PushRefused, EndTask, TypeOK, evalQVars, sinkQVars, sinkVars,
       poolVars, outputVars, historyVars
<1>14. CASE Ack(w)
  <2>1. answer' \in [Requests -> Codes \cup {None}] /\ waiting' \in SUBSET Requests
    BY <1>14, CompleteType DEF Ack, TypeOK
  <2>. QED
    BY <1>14, <2>1 DEF Ack, EndTask, TypeOK, evalQVars, sinkQVars, sinkVars, poolVars,
       outputVars, historyVars
<1>. QED
  BY <1>1, <1>2, <1>3, <1>4, <1>5, <1>6, <1>7, <1>8, <1>9, <1>10, <1>11, <1>12, <1>13,
     <1>14 DEF Worker

LEMMA SinkType ==
    ASSUME AgentAssumption, TypeOK, TasksOK, NEW s \in Sinks, Sink(s)
    PROVE  TypeOK'
<1>0. /\ sink \in [Sinks -> SinkTasks] /\ sink[s] \in SinkTasks /\ NoTask \in SinkTasks
      /\ 200 \in Codes /\ 500 \in Codes
  BY DEF TypeOK, SinkTasks, NoTask, Codes
<1>. USE <1>0
<1>1. CASE SinkPop(s)
  <2>1. /\ Head(sinkQ) \in SinkTasks /\ sinkQ' \in Seq(SinkTasks)
        /\ Len(sinkQ') <= SinkDepth
    BY <1>1, QueueFacts DEF SinkPop, TypeOK, AgentAssumption
  <2>. QED
    BY <1>1, <2>1 DEF SinkPop, TypeOK, requestVars, evalQVars, workerVars, poolVars,
       outputVars, historyVars
<1>2. CASE SinkExit(s)
  BY <1>2 DEF SinkExit, TypeOK, requestVars, evalQVars, sinkQVars, workerVars, poolVars,
     outputVars, historyVars
<1>3. CASE SinkWrite(s)
  <2>1. PICK i \in sink[s].left :
          /\ written' = written \cup {<<sink[s].request, i>>}
          /\ sink' = [sink EXCEPT ![s].left = @ \ {i}]
    BY <1>3 DEF SinkWrite
  <2>2. sink[s] \in OwedTasks
    BY <1>3 DEF SinkWrite, TasksOK, SinkOK
  <2>3. <<sink[s].request, i>> \in Items
    BY <2>2, ItemsFacts DEF OwedTasks
  <2>4. sink' \in [Sinks -> SinkTasks]
    BY <2>1 DEF SinkTasks
  <2>5. written' \in SUBSET Items /\ flushed' \in SUBSET Items
    BY <1>3, <2>1, <2>3 DEF SinkWrite, TypeOK
  <2>. QED
    BY <1>3, <2>4, <2>5 DEF SinkWrite, TypeOK, requestVars, evalQVars, sinkQVars, workerVars,
       poolVars, historyVars
<1>4. CASE SinkDone(s)
  <2>1. answer' \in [Requests -> Codes \cup {None}] /\ waiting' \in SUBSET Requests
    BY <1>4, CompleteType DEF SinkDone, CompleteIfDurable, TypeOK
  <2>. QED
    BY <1>4, <2>1 DEF SinkDone, TypeOK, evalQVars, sinkQVars, workerVars, poolVars,
       outputVars, historyVars
<1>5. CASE SinkThrows(s)
  <2>1. answer' \in [Requests -> Codes \cup {None}] /\ waiting' \in SUBSET Requests
    BY <1>5, CompleteType DEF SinkThrows, CompleteIfDurable, WriteFailed, TypeOK
  <2>2. faults' \in 0 .. MaxFaults
    BY <1>5 DEF SinkThrows, TypeOK, AgentAssumption
  <2>. QED
    BY <1>5, <2>1, <2>2 DEF SinkThrows, TypeOK, evalQVars, sinkQVars, workerVars, poolVars,
       historyVars
<1>. QED
  BY <1>1, <1>2, <1>3, <1>4, <1>5 DEF Sink

LEMMA OtherType ==
    ASSUME AgentAssumption, TypeOK,
           \/ \E r \in Requests : Post(r) \/ PostRefused(r)
           \/ Stop \/ Shutdown \/ UNCHANGED vars
    PROVE  TypeOK'
<1>1. ASSUME NEW r \in Requests, Post(r) PROVE TypeOK'
  <2>1. evalQ' \in Seq(Requests) /\ Len(evalQ') <= EvalDepth
    BY <1>1, QueueFacts DEF Post, EvalRoom, TypeOK, AgentAssumption
  <2>2. accepted' \in Seq(Requests)
    BY <1>1, QueueFacts DEF Post, TypeOK
  <2>. QED
    BY <1>1, <2>1, <2>2 DEF Post, TypeOK, sinkQVars, workerVars, sinkVars, poolVars,
       outputVars, historyVars
<1>2. ASSUME NEW r \in Requests, PostRefused(r) PROVE TypeOK'
  BY <1>2 DEF PostRefused, TypeOK, Codes, evalQVars, sinkQVars, workerVars, sinkVars,
     poolVars, outputVars, historyVars
<1>3. CASE Stop
  BY <1>3 DEF Stop, TypeOK, requestVars, evalQVars, sinkQVars, workerVars, sinkVars,
     poolVars, outputVars, historyVars
<1>4. CASE Shutdown
  BY <1>4 DEF Shutdown, ListenReturns, JoinEval, JoinSink, TypeOK, requestVars, evalQVars,
     sinkQVars, workerVars, sinkVars, poolVars, outputVars, historyVars
<1>5. CASE UNCHANGED vars
  BY <1>5 DEF vars, TypeOK, requestVars, evalQVars, sinkQVars, workerVars, sinkVars,
     poolVars, outputVars, historyVars
<1>. QED
  BY <1>1, <1>2, <1>3, <1>4, <1>5

-----------------------------------------------------------------------------
(* Tasks, the serial lock and the pool.                                    *)

\* A step of an evaluator leaves the others, and the sinks, alone.
LEMMA WorkerFrame ==
    ASSUME TypeOK, NEW w \in Workers, Worker(w)
    PROVE  /\ \A v \in Workers \ {w} : wpc'[v] = wpc[v] /\ job'[v] = job[v]
           /\ UNCHANGED <<config, spc, sink>>
<1>1. wpc \in [Workers -> {"pop", "serial", "check", "eval", "using", "threw", "push",
                           "ack", "exit"}]
      /\ job \in [Workers -> Jobs]
  BY DEF TypeOK
<1>2. /\ \A v \in Workers \ {w} : wpc'[v] = wpc[v]
      /\ UNCHANGED <<config, spc, sink>>
  BY <1>1 DEF Worker, WorkerPop, WorkerExit, LockSerial, CheckPool, DropDuplicate, Acquire,
     Evaluate, EvaluateThrows, Threw, FinishRequest, CompleteDisabled, Push, PushRefused,
     Ack, EndTask, sinkVars
<1>3. \A v \in Workers \ {w} : job'[v] = job[v]
  <2>1. CASE Acquire(w)
    BY <1>1, <2>1 DEF Acquire
  <2>2. CASE ~Acquire(w)
    BY <1>1, <2>2 DEF Worker, WorkerPop, WorkerExit, LockSerial, CheckPool, DropDuplicate,
       Evaluate, EvaluateThrows, Threw, FinishRequest, CompleteDisabled, Push, PushRefused,
       Ack, EndTask
  <2>. QED
    BY <2>1, <2>2
<1>. QED
  BY <1>2, <1>3

LEMMA WorkerTasks ==
    ASSUME AgentAssumption, TypeOK, TasksOK, NEW w \in Workers, Worker(w)
    PROVE  TasksOK'
<1>0. /\ job \in [Workers -> Jobs] /\ job[w] \in Jobs /\ TaskOK(w)
      /\ wpc \in [Workers -> {"pop", "serial", "check", "eval", "using", "threw", "push",
                              "ack", "exit"}]
  BY DEF TypeOK, TasksOK
<1>1. TaskOK(w)'
  <2>1. CASE WorkerPop(w)
    <3>1. Head(evalQ) \in Requests
      BY <2>1, QueueFacts DEF WorkerPop, TypeOK
    <3>2. /\ wpc'[w] # "using"
          /\ job'[w] = [NoJob EXCEPT !.request = Head(evalQ)]
      BY <1>0, <2>1 DEF WorkerPop
    <3>. QED
      BY <3>1, <3>2 DEF TaskOK, NoJob
  <2>2. CASE WorkerExit(w) \/ LockSerial(w) \/ CheckPool(w) \/ FinishRequest(w) \/ Push(w)
    BY <1>0, <2>2 DEF WorkerExit, LockSerial, CheckPool, FinishRequest, Push, TaskOK
  <2>3. CASE DropDuplicate(w)
    <3>1. /\ wpc'[w] = "eval" /\ job'[w].request = job[w].request
          /\ job'[w].results = job[w].results
      BY <1>0, <2>3 DEF DropDuplicate, HasNext, Jobs
    <3>. QED
      BY <1>0, <2>3, <3>1 DEF TaskOK, DropDuplicate, HasNext
  <2>4. CASE Acquire(w)
    <3>1. /\ 1 \in Engines /\ free \subseteq Engines
      BY DEF TypeOK, Engines, AgentAssumption
    <3>2. PICK e \in Engines, p \in BOOLEAN :
            job' = [job EXCEPT ![w].engine = e, ![w].pooled = p]
      BY <2>4, <3>1 DEF Acquire
    <3>3. /\ job'[w].request = job[w].request /\ job'[w].results = job[w].results
          /\ job'[w].next = job[w].next /\ job'[w].engine = e
      BY <1>0, <3>2 DEF Jobs
    <3>4. job[w].next \in DOMAIN Body[job[w].request]
      BY <2>4, NextFacts DEF Acquire
    <3>5. wpc[w] = "eval"
      BY <2>4 DEF Acquire, HasNext
    <3>. QED
      BY <1>0, <3>3, <3>4, <3>5 DEF TaskOK
  <2>5. CASE Evaluate(w)
    <3>1. /\ wpc'[w] = "eval" /\ job'[w].request = job[w].request
          /\ job'[w].results = job[w].results \cup {job[w].next}
      BY <1>0, <2>5 DEF Evaluate, Jobs
    <3>2. wpc[w] = "using"
      BY <2>5 DEF Evaluate
    <3>. QED
      BY <1>0, <3>1, <3>2 DEF TaskOK
  <2>6. CASE EvaluateThrows(w)
    <3>1. /\ wpc'[w] = "threw" /\ wpc[w] = "using"
          /\ job'[w] = [NoJob EXCEPT !.request = job[w].request]
      BY <1>0, <2>6 DEF EvaluateThrows
    <3>. QED
      BY <1>0, <3>1 DEF TaskOK, NoJob
  <2>7. CASE Threw(w) \/ CompleteDisabled(w) \/ PushRefused(w) \/ Ack(w)
    <3>1. wpc'[w] = "pop"
      BY <1>0, <2>7 DEF Threw, CompleteDisabled, PushRefused, Ack, EndTask
    <3>. QED
      BY <3>1 DEF TaskOK
  <2>. QED
    BY <2>1, <2>2, <2>3, <2>4, <2>5, <2>6, <2>7 DEF Worker
<1>2. \A v \in Workers : TaskOK(v)'
  <2>1. ASSUME NEW v \in Workers, v # w PROVE TaskOK(v)'
    BY <2>1, WorkerFrame DEF TasksOK, TaskOK
  <2>. QED
    BY <1>1, <2>1
<1>3. \A i \in DOMAIN sinkQ' : sinkQ'[i] \in OwedTasks
  <2>1. CASE Push(w)
    <3>1. [request |-> job[w].request, left |-> job[w].results] \in OwedTasks
      BY <1>0, <2>1 DEF Push, TaskOK, OwedTasks, SinkTasks, Jobs
    <3>2. [request |-> job[w].request, left |-> job[w].results] \in SinkTasks
      BY <3>1 DEF OwedTasks
    <3>3. sinkQ \in Seq(SinkTasks)
      BY DEF TypeOK
    <3>. QED
      BY <2>1, <3>1, <3>2, <3>3, QueueFacts DEF Push, TasksOK
  <2>2. CASE ~Push(w)
    <3>1. sinkQ' = sinkQ
      BY <2>2 DEF Worker, WorkerPop, WorkerExit, LockSerial, CheckPool, DropDuplicate,
         Acquire, Evaluate, EvaluateThrows, Threw, FinishRequest, CompleteDisabled,
         PushRefused, Ack, sinkQVars
    <3>. QED
      BY <3>1 DEF TasksOK
  <2>. QED
    BY <2>1, <2>2
<1>4. \A s \in Sinks : SinkOK(s)'
  BY WorkerFrame DEF TasksOK, SinkOK
<1>. QED
  BY <1>2, <1>3, <1>4 DEF TasksOK, OwedTasks, SinkTasks

LEMMA SinkSteps ==
    ASSUME AgentAssumption, TypeOK, TasksOK, NEW s \in Sinks, Sink(s)
    PROVE  TasksOK'
<1>0. /\ sink \in [Sinks -> SinkTasks] /\ sink[s] \in SinkTasks
      /\ spc \in [Sinks -> {"pop", "write", "exit"}]
      /\ sinkQ \in Seq(SinkTasks)
  BY DEF TypeOK
<1>1. \A w \in Workers : TaskOK(w)'
  BY DEF Sink, SinkPop, SinkExit, SinkWrite, SinkDone, SinkThrows, workerVars, TasksOK,
     TaskOK
<1>2. /\ \A i \in DOMAIN sinkQ' : sinkQ'[i] \in OwedTasks
      /\ sinkQ # <<>> => Head(sinkQ) \in OwedTasks
  <2>0. \A i \in DOMAIN sinkQ : sinkQ[i] \in OwedTasks
    BY DEF TasksOK
  <2>1. sinkQ # <<>> => Head(sinkQ) = sinkQ[1] /\ 1 \in DOMAIN sinkQ
    BY <1>0
  <2>2. sinkQ' = sinkQ \/ (sinkQ # <<>> /\ sinkQ' = Tail(sinkQ))
    BY DEF Sink, SinkPop, SinkExit, SinkWrite, SinkDone, SinkThrows, sinkQVars
  <2>3. sinkQ # <<>> => \A i \in DOMAIN Tail(sinkQ) : \E j \in DOMAIN sinkQ :
                           Tail(sinkQ)[i] = sinkQ[j]
    BY <1>0, QueueFacts
  <2>. QED
    BY <1>0, <2>0, <2>1, <2>2, <2>3
<1>3. SinkOK(s)'
  <2>1. CASE SinkPop(s)
    BY <1>0, <1>2, <2>1 DEF SinkPop, SinkOK
  <2>2. CASE SinkWrite(s)
    <3>1. sink[s] \in OwedTasks
      BY <2>2 DEF SinkWrite, TasksOK, SinkOK
    <3>2. PICK i : sink' = [sink EXCEPT ![s].left = @ \ {i}]
      BY <2>2 DEF SinkWrite
    <3>3. sink'[s] = [sink[s] EXCEPT !.left = @ \ {i}]
      BY <1>0, <3>2
    <3>. QED
      BY <3>1, <3>3 DEF SinkOK, OwedTasks, SinkTasks
  <2>3. CASE SinkExit(s) \/ SinkDone(s) \/ SinkThrows(s)
    BY <1>0, <2>3 DEF SinkExit, SinkDone, SinkThrows, SinkOK
  <2>. QED
    BY <2>1, <2>2, <2>3 DEF Sink
<1>4. ASSUME NEW u \in Sinks, u # s PROVE SinkOK(u)'
  <2>1. spc'[u] = spc[u] /\ sink'[u] = sink[u]
    BY <1>0, <1>4 DEF Sink, SinkPop, SinkExit, SinkWrite, SinkDone, SinkThrows
  <2>. QED
    BY <2>1 DEF SinkOK, TasksOK
<1>. QED
  BY <1>1, <1>2, <1>3, <1>4 DEF TasksOK, OwedTasks, SinkTasks

\* Where a step takes an evaluator, and what it does to the lock and the pool.
LEMMA WorkerMoves ==
    ASSUME AgentAssumption, TypeOK, PoolOK, NEW w \in Workers, Worker(w)
    PROVE  /\ built => built'
           /\ \/ serial' = serial
              \/ serial = None /\ serial' = w
              \/ serial = w \/ MustHold(w)
           /\ MustHold(w)' => (MustHold(w) /\ serial' = serial) \/ serial' = w
                               \/ config.shards <= 1
<1>0. /\ wpc \in [Workers -> {"pop", "serial", "check", "eval", "using", "threw", "push",
                              "ack", "exit"}]
      /\ config.shards \in 1 .. MaxShards
  BY DEF TypeOK, AgentAssumption
<1>1. CASE \/ WorkerPop(w) \/ WorkerExit(w) \/ LockSerial(w) \/ CheckPool(w)
           \/ DropDuplicate(w) \/ Acquire(w) \/ Evaluate(w)
  BY <1>0, <1>1 DEF WorkerPop, WorkerExit, LockSerial, CheckPool, DropDuplicate, Acquire,
     Evaluate, HasNext, KeepsSerial, MustHold, poolVars, AgentAssumption
<1>2. CASE EvaluateThrows(w)
  BY <1>0, <1>2 DEF EvaluateThrows, MustHold
<1>4. CASE Threw(w) \/ CompleteDisabled(w) \/ PushRefused(w) \/ Ack(w)
  <2>1. wpc'[w] = "pop" /\ built' = built
    BY <1>0, <1>4 DEF Threw, CompleteDisabled, PushRefused, Ack, EndTask, poolVars
  <2>2. serial' = serial \/ serial = w
    BY <1>4 DEF Threw, CompleteDisabled, PushRefused, Ack, EndTask
  <2>. QED
    BY <2>1, <2>2 DEF MustHold
<1>5. CASE Push(w)
  BY <1>0, <1>5 DEF Push, MustHold, poolVars
<1>3. CASE FinishRequest(w)
  BY <1>0, <1>3 DEF FinishRequest, MustHold, PoolOK
<1>. QED
  BY <1>1, <1>2, <1>3, <1>4, <1>5 DEF Worker

LEMMA WorkerSerial ==
    ASSUME AgentAssumption, TypeOK, SerialOK, PoolOK, NEW w \in Workers, Worker(w)
    PROVE  SerialOK'
<1>0. /\ w \in 1 .. MaxShards /\ None \notin Workers
      /\ config.shards \in 1 .. MaxShards /\ MaxShards \in Nat
  BY DEF TypeOK, AgentAssumption, Workers, None
<1>1. wpc[w] # "exit"
  BY DEF Worker, WorkerPop, WorkerExit, LockSerial, CheckPool, DropDuplicate, Acquire,
     HasNext, Evaluate, EvaluateThrows, Threw, FinishRequest, CompleteDisabled, Push,
     PushRefused, Ack
<1>2. ASSUME NEW v \in Workers, v > EvalWorkers(config)
      PROVE  wpc'[v] = "exit" /\ config' = config
  BY <1>1, <1>2, WorkerFrame DEF SerialOK
<1>3. ASSUME config.shards > 1, NEW v \in Workers, MustHold(v)' PROVE serial' = v
  <2>1. CASE v = w
    BY <1>0, <1>3, <2>1, WorkerMoves DEF SerialOK
  <2>2. CASE v # w
    <3>1. MustHold(v)
      BY <1>3, <2>2, WorkerFrame, WorkerMoves DEF MustHold
    <3>2. serial = v
      BY <1>3, <3>1 DEF SerialOK
    <3>3. ~MustHold(w)
      BY <1>3, <2>2, <3>2 DEF SerialOK
    <3>. QED
      BY <1>0, <2>2, <3>2, <3>3, WorkerMoves
  <2>. QED
    BY <2>1, <2>2
<1>. QED
  BY <1>2, <1>3, WorkerFrame DEF SerialOK, EvalWorkers

\* Before there is a pool, an evaluator that has work to evaluate is alone.
LEMMA Alone ==
    ASSUME AgentAssumption, TypeOK, SerialOK, ~built,
           NEW v \in Workers, NEW w \in Workers, wpc[v] = "using", wpc[w] \in {"eval", "using"}
    PROVE  v = w
<1>0. /\ config.shards \in 1 .. MaxShards /\ MaxShards \in Nat
      /\ v \in 1 .. MaxShards /\ w \in 1 .. MaxShards
  BY DEF TypeOK, AgentAssumption, Workers
<1>1. CASE config.shards > 1
  BY <1>1 DEF SerialOK, MustHold
<1>2. CASE config.shards = 1
  <2>1. EvalWorkers(config) = 1
    BY <1>2 DEF EvalWorkers
  <2>2. ~(v > 1) /\ ~(w > 1)
    BY <2>1 DEF SerialOK
  <2>. QED
    BY <1>0, <2>2
<1>. QED
  BY <1>0, <1>1, <1>2

LEMMA WorkerPool ==
    ASSUME AgentAssumption, TypeOK, TasksOK, SerialOK, PoolOK, EnginesExclusive,
           NEW w \in Workers, Worker(w)
    PROVE  PoolOK' /\ EnginesExclusive'
<1>0. /\ wpc \in [Workers -> {"pop", "serial", "check", "eval", "using", "threw", "push",
                              "ack", "exit"}]
      /\ job \in [Workers -> Jobs] /\ job[w] \in Jobs /\ built \in BOOLEAN
      /\ \A v \in Workers \ {w} : wpc'[v] = wpc[v] /\ job'[v] = job[v]
      /\ config' = config
  BY WorkerFrame DEF TypeOK
<1>1. CASE wpc[w] # "using" /\ wpc'[w] # "using" /\ UNCHANGED <<once, built, free>>
  <2>1. Using' = Using /\ \A v \in Using : job'[v] = job[v]
    BY <1>0, <1>1 DEF Using
  <2>2. {job'[v].engine : v \in Using'} = {job[v].engine : v \in Using}
    BY <2>1
  <2>3. PoolOK'
    BY <1>0, <1>1, <2>1 DEF PoolOK
  <2>4. EnginesExclusive'
    BY <1>0, <1>1, <2>1, <2>2 DEF EnginesExclusive
  <2>. QED
    BY <2>3, <2>4
<1>2. CASE Acquire(w)
  <2>1. wpc[w] = "eval" /\ Using' = Using \cup {w} /\ w \notin Using
    BY <1>0, <1>2 DEF Acquire, HasNext, Using
  <2>2. UNCHANGED <<once, built>>
    BY <1>2 DEF Acquire
  <2>3. \A v \in Using : job'[v] = job[v]
    BY <1>0, <2>1 DEF Using
  <2>4. CASE built
    <3>1. PICK e \in free :
            /\ job' = [job EXCEPT ![w].engine = e, ![w].pooled = TRUE]
            /\ free' = free \ {e}
      BY <1>2, <2>4 DEF Acquire
    <3>2. job'[w].engine = e /\ job'[w].pooled = TRUE
      BY <1>0, <3>1 DEF Jobs
    <3>3. PoolOK'
      BY <2>1, <2>2, <2>3, <2>4, <3>2, <1>0 DEF PoolOK
    <3>4. {job'[v].engine : v \in Using'} = {job[v].engine : v \in Using} \cup {e}
      BY <2>1, <2>3, <3>2
    <3>8. \A v \in Using : job'[v].engine = job[v].engine /\ job[v].engine \notin free
      BY <2>3 DEF EnginesExclusive
    <3>9. \A u, v \in Using : u # v => job[u].engine # job[v].engine
      BY DEF EnginesExclusive
    <3>10. Using' = Using \cup {w} /\ e \in free /\ free' = free \ {e} /\ job'[w].engine = e
      BY <2>1, <3>1, <3>2
    <3>5. \A v \in Using' : job'[v].engine \notin free'
      BY <3>8, <3>10
    <3>6. \A u, v \in Using' : u # v => job'[u].engine # job'[v].engine
      BY <3>8, <3>9, <3>10
    <3>7. free' \cup {job'[v].engine : v \in Using'} = 1 .. config'.shards
      BY <1>0, <2>4, <3>1, <3>4 DEF EnginesExclusive
    <3>. QED
      BY <3>3, <3>5, <3>6, <3>7 DEF EnginesExclusive
  <2>5. CASE ~built
    <3>1. /\ job' = [job EXCEPT ![w].engine = 1, ![w].pooled = FALSE]
          /\ free' = free
      BY <1>2, <2>5 DEF Acquire
    <3>2. job'[w].engine = 1 /\ job'[w].pooled = FALSE
      BY <1>0, <3>1 DEF Jobs
    <3>3. Using = {}
      BY <2>1, <2>5, Alone DEF Using
    <3>4. free = {}
      BY <2>5 DEF PoolOK
    <3>5. PoolOK'
      BY <2>1, <2>2, <2>5, <3>1, <3>2, <3>3, <3>4, <1>0 DEF PoolOK
    <3>6. EnginesExclusive'
      BY <2>1, <2>2, <2>5, <3>1, <3>3, <3>4 DEF EnginesExclusive
    <3>. QED
      BY <3>5, <3>6
  <2>. QED
    BY <2>4, <2>5
<1>3. CASE Evaluate(w) \/ EvaluateThrows(w)
  <2>1. /\ w \in Using /\ Using' = Using \ {w} /\ UNCHANGED <<once, built>>
        /\ free' = Released(w)
    BY <1>0, <1>3 DEF Evaluate, EvaluateThrows, Using
  <2>2. \A v \in Using' : v \in Using /\ v # w /\ job'[v] = job[v]
    BY <1>0, <2>1 DEF Using
  <2>3. CASE built
    <3>1. free' = free \cup {job[w].engine}
      BY <2>1, <2>3 DEF PoolOK, Released
    <3>2. {job[v].engine : v \in Using} = {job'[v].engine : v \in Using'} \cup {job[w].engine}
      BY <2>1, <2>2
    <3>3. PoolOK'
      BY <1>0, <2>1, <2>2, <2>3 DEF PoolOK
    <3>4. \A v \in Using' : job'[v].engine \notin free'
      BY <2>1, <2>2, <3>1 DEF EnginesExclusive
    <3>5. \A u, v \in Using' : u # v => job'[u].engine # job'[v].engine
      BY <2>2 DEF EnginesExclusive
    <3>6. free' \cup {job'[v].engine : v \in Using'} = 1 .. config'.shards
      BY <1>0, <2>3, <3>1, <3>2 DEF EnginesExclusive
    <3>. QED
      BY <3>3, <3>4, <3>5, <3>6 DEF EnginesExclusive
  <2>4. CASE ~built
    <3>1. free' = {}
      BY <2>1, <2>4 DEF PoolOK, Released
    <3>2. Using' = {}
      BY <2>1, <2>4, <2>2, Alone DEF Using
    <3>. QED
      BY <1>0, <2>1, <2>4, <3>1, <3>2 DEF PoolOK, EnginesExclusive
  <2>. QED
    BY <2>3, <2>4
<1>4. CASE FinishRequest(w) /\ config.shards > 1 /\ ~once
  <2>1. /\ once' = TRUE /\ built' \in BOOLEAN
        /\ free' = IF built' THEN 1 .. config.shards ELSE free
        /\ wpc[w] = "eval" /\ wpc'[w] = "push"
    BY <1>0, <1>4 DEF FinishRequest
  <2>2. ~built /\ free = {}
    BY <1>0, <1>4 DEF PoolOK
  <2>3. Using' = {}
    BY <1>0, <2>1, <2>2, Alone DEF Using
  <2>. QED
    BY <1>0, <1>4, <2>1, <2>2, <2>3 DEF PoolOK, EnginesExclusive
<1>5. CASE FinishRequest(w) /\ ~(config.shards > 1 /\ ~once)
  BY <1>0, <1>1, <1>5 DEF FinishRequest
<1>6. CASE \/ WorkerPop(w) \/ WorkerExit(w) \/ LockSerial(w) \/ CheckPool(w)
           \/ DropDuplicate(w) \/ Threw(w) \/ CompleteDisabled(w) \/ Push(w)
           \/ PushRefused(w) \/ Ack(w)
  BY <1>0, <1>1, <1>6 DEF WorkerPop, WorkerExit, LockSerial, CheckPool, DropDuplicate,
     HasNext, Threw, CompleteDisabled, Push, PushRefused, Ack, EndTask, poolVars
<1>. QED
  BY <1>2, <1>3, <1>4, <1>5, <1>6 DEF Worker

-----------------------------------------------------------------------------
(* The theorems.                                                           *)

LEMMA StepInv == ASSUME AgentAssumption, PoolInv, [Next]_vars PROVE PoolInv'
<1>0. TypeOK /\ TasksOK /\ SerialOK /\ PoolOK /\ EnginesExclusive
  BY DEF PoolInv
<1>1. ASSUME NEW w \in Workers, Worker(w) PROVE PoolInv'
  BY <1>0, <1>1, WorkerType, WorkerTasks, WorkerSerial, WorkerPool DEF PoolInv
<1>2. ASSUME UNCHANGED <<config, wpc, job, serial, once, built, free>>
      PROVE  SerialOK' /\ PoolOK' /\ EnginesExclusive'
  <2>1. UNCHANGED <<config, wpc, job, serial, once, built, free>> /\ Using' = Using
    BY <1>2 DEF Using
  <2>. QED
    BY <1>0, <2>1 DEF SerialOK, MustHold, EvalWorkers, PoolOK, EnginesExclusive
<1>3. ASSUME NEW s \in Sinks, Sink(s) PROVE PoolInv'
  <2>1. UNCHANGED <<config, wpc, job, serial, once, built, free>>
    BY <1>3 DEF Sink, SinkPop, SinkExit, SinkWrite, SinkDone, SinkThrows, workerVars, poolVars
  <2>. QED
    BY <1>0, <1>2, <1>3, <2>1, SinkType, SinkSteps DEF PoolInv
<1>4. ASSUME \/ \E r \in Requests : Post(r) \/ PostRefused(r)
             \/ Stop \/ Shutdown \/ UNCHANGED vars
      PROVE  PoolInv'
  <2>1. UNCHANGED <<config, wpc, job, serial, once, built, free, spc, sink, sinkQ>>
    BY <1>4 DEF Post, PostRefused, Stop, Shutdown, ListenReturns, JoinEval, JoinSink, vars,
       workerVars, poolVars, sinkVars, sinkQVars
  <2>2. TasksOK'
    BY <1>0, <2>1 DEF TasksOK, TaskOK, SinkOK, OwedTasks, SinkTasks
  <2>. QED
    BY <1>0, <1>2, <1>4, <2>1, <2>2, OtherType DEF PoolInv
<1>. QED
  BY <1>1, <1>3, <1>4 DEF Next, Ended

\* The inductive invariant of the evaluators, the serial lock and the pool of engines
\* (http_eval_loop, maybe_init_pool, acquire_engine, release_engine).
THEOREM PoolInvariant == Spec => []PoolInv
<1>1. Init => PoolInv
  BY InitInv, AgentAssumption
<1>2. PoolInv /\ [Next]_vars => PoolInv'
  BY StepInv, AgentAssumption
<1>. QED
  BY <1>1, <1>2, PTL DEF Spec

\* Two evaluators are never on one engine, and the pool that release_engine and
\* acquire_engine share always accounts for every engine exactly once.
THEOREM EnginesAreExclusive == Spec => []EnginesExclusive
<1>1. PoolInv => EnginesExclusive
  BY DEF PoolInv
<1>. QED
  BY <1>1, PoolInvariant, PTL

\* Every variable of the HTTP input keeps its type; in particular the two queues of
\* run_http never exceed their depths.
THEOREM AgentTypeCorrect == Spec => []TypeOK
<1>1. PoolInv => TypeOK
  BY DEF PoolInv
<1>. QED
  BY <1>1, PoolInvariant, PTL

-----------------------------------------------------------------------------
(* What is processed of a request, and the promise.                        *)

\* What a step of an evaluator does to the histories and to what is written.
LEMMA WorkerGrows ==
    ASSUME TypeOK, NEW w \in Workers, Worker(w)
    PROVE  /\ dropped \subseteq dropped' /\ Evaluated \subseteq Evaluated'
           /\ UNCHANGED <<config, written, flushed, faults, mpc>>
<1>1. UNCHANGED <<config, written, flushed, faults, mpc>>
  BY DEF Worker, WorkerPop, WorkerExit, LockSerial, CheckPool, DropDuplicate, Acquire,
     Evaluate, EvaluateThrows, Threw, FinishRequest, CompleteDisabled, Push, PushRefused,
     Ack, outputVars
<1>2. dropped \subseteq dropped'
  BY DEF Worker, WorkerPop, WorkerExit, LockSerial, CheckPool, DropDuplicate, Acquire,
     Evaluate, EvaluateThrows, Threw, FinishRequest, CompleteDisabled, Push, PushRefused,
     Ack, historyVars
<1>3. CASE Evaluate(w)
  <2>1. order \in Seq(Items) /\ order' = Append(order, NextItem(w))
    BY <1>3 DEF Evaluate, TypeOK
  <2>2. \A i \in DOMAIN order : i \in DOMAIN order' /\ order'[i] = order[i]
    BY <2>1
  <2>. QED
    BY <1>1, <1>2, <2>2 DEF Evaluated
<1>4. CASE ~Evaluate(w)
  <2>1. order' = order
    BY <1>4 DEF Worker, WorkerPop, WorkerExit, LockSerial, CheckPool, DropDuplicate, Acquire,
       EvaluateThrows, Threw, FinishRequest, CompleteDisabled, Push, PushRefused,
       Ack, historyVars
  <2>. QED
    BY <1>1, <1>2, <2>1 DEF Evaluated
<1>. QED
  BY <1>3, <1>4

\* Acquiring an engine leaves the rest of the evaluator's locals.
LEMMA AcquireFields ==
    ASSUME TypeOK, NEW w \in Workers, Acquire(w)
    PROVE  /\ job'[w].request = job[w].request
           /\ job'[w].results = job[w].results /\ job'[w].next = job[w].next
<1>1. PICK e, p : job' = [job EXCEPT ![w].engine = e, ![w].pooled = p]
  BY DEF Acquire
<1>2. job \in [Workers -> Jobs] /\ job[w] \in Jobs
  BY DEF TypeOK
<1>3. job'[w] = [job[w] EXCEPT !.engine = e, !.pooled = p]
  BY <1>1, <1>2
<1>. QED
  BY <1>2, <1>3 DEF Jobs

\* An evaluator works through the batches of its request from the first to the
\* last: a batch behind it is a duplicate or among the results.
LEMMA WorkerWorks ==
    ASSUME AgentAssumption, TypeOK, TasksOK, NEW w \in Workers, WorkInv(w), Worker(w)
    PROVE  WorkInv(w)'
<1>0. /\ job \in [Workers -> Jobs] /\ job[w] \in Jobs
      /\ wpc \in [Workers -> {"pop", "serial", "check", "eval", "using", "threw", "push",
                              "ack", "exit"}]
      /\ TaskOK(w)
  BY DEF TypeOK, TasksOK
<1>g. dropped \subseteq dropped' /\ Evaluated \subseteq Evaluated'
  BY WorkerGrows
<1>1. CASE WorkerPop(w)
  <2>1. /\ wpc'[w] \in {"serial", "eval"}
        /\ job'[w] = [NoJob EXCEPT !.request = Head(evalQ)]
        /\ Head(evalQ) \in Requests
    BY <1>0, <1>1, QueueFacts DEF WorkerPop, TypeOK
  <2>2. job'[w].request = Head(evalQ) /\ job'[w].next = 1 /\ job'[w].results = {}
    BY <2>1 DEF NoJob
  <2>3. \A i \in DOMAIN Body[Head(evalQ)] : ~(i < 1)
    BY <2>1, BodyFacts
  <2>. QED
    BY <2>1, <2>2, <2>3 DEF WorkInv
<1>2. CASE WorkerExit(w) \/ EvaluateThrows(w) \/ Threw(w) \/ CompleteDisabled(w) \/ PushRefused(w) \/ Ack(w)
  BY ZenonT(30), <1>0, <1>2 DEF WorkerExit, EvaluateThrows, Threw, CompleteDisabled, PushRefused, Ack,
     EndTask, WorkInv
<1>3. CASE LockSerial(w) \/ CheckPool(w)
  <2>1. /\ wpc[w] \in {"serial", "check"} /\ wpc'[w] \in {"check", "eval"} /\ job'[w] = job[w]
    BY <1>0, <1>3 DEF LockSerial, CheckPool
  <2>. QED
    BY <1>g, <2>1 DEF WorkInv
<1>4. CASE DropDuplicate(w)
  <2>1. /\ wpc[w] = "eval" /\ wpc'[w] = "eval" /\ job'[w].request = job[w].request
        /\ job'[w].results = job[w].results /\ job'[w].next = job[w].next + 1
        /\ dropped' = dropped \cup {<<job[w].request, job[w].next>>}
    BY <1>0, <1>4 DEF DropDuplicate, HasNext, NextItem, Jobs
  <2>2. job[w].request \in Requests /\ job[w].next \in Int
    BY <1>0, <2>1 DEF TaskOK, Jobs
  <2>3. \A i \in DOMAIN Body[job[w].request] : i < job[w].next + 1 => i < job[w].next \/ i = job[w].next
    BY <2>2, BodyFacts
  <2>. QED
    BY <1>g, <2>1, <2>2, <2>3 DEF WorkInv
<1>5. CASE Acquire(w)
  <2>1. wpc[w] = "eval" /\ wpc'[w] = "using"
    BY <1>0, <1>5 DEF Acquire, HasNext
  <2>2. /\ job'[w].request = job[w].request
        /\ job'[w].results = job[w].results /\ job'[w].next = job[w].next
    BY <1>5, AcquireFields
  <2>. QED
    BY <1>g, <2>1, <2>2 DEF WorkInv
<1>6. CASE Evaluate(w)
  <2>1. /\ wpc[w] = "using" /\ wpc'[w] = "eval" /\ job'[w].request = job[w].request
        /\ job'[w].results = job[w].results \cup {job[w].next} /\ job'[w].next = job[w].next + 1
    BY <1>0, <1>6 DEF Evaluate, Jobs
  <2>2. job[w].request \in Requests /\ job[w].next \in Int
    BY <1>0, <2>1 DEF TaskOK, Jobs
  <2>3. \A i \in DOMAIN Body[job[w].request] : i < job[w].next + 1 => i < job[w].next \/ i = job[w].next
    BY <2>2, BodyFacts
  <2>4. <<job[w].request, job[w].next>> \in Evaluated'
    <3>1. order \in Seq(Items) /\ order' = Append(order, NextItem(w)) /\ NextItem(w) \in Items
      BY <1>6, <2>1, NextFacts DEF Evaluate, TypeOK
    <3>2. Len(order) + 1 \in DOMAIN order' /\ order'[Len(order) + 1] = NextItem(w)
      BY <3>1
    <3>. QED
      BY <3>2 DEF Evaluated, NextItem
  <2>. QED
    BY <1>g, <2>1, <2>2, <2>3, <2>4 DEF WorkInv
<1>7. CASE FinishRequest(w)
  <2>1. wpc[w] = "eval" /\ wpc'[w] = "push" /\ job'[w] = job[w] /\ ~HasNext(w)
    BY <1>0, <1>7 DEF FinishRequest
  <2>2. job[w].next > Len(Body[job[w].request])
    <3>1. job[w].request \in Requests /\ job[w].next \in Int
      BY <1>0, <2>1 DEF TaskOK, Jobs
    <3>2. Len(Body[job[w].request]) \in Int
      BY <3>1, BodyFacts
    <3>. QED
      BY <2>1, <3>1, <3>2 DEF HasNext
  <2>. QED
    BY <1>g, <2>1, <2>2 DEF WorkInv
<1>8. CASE Push(w)
  <2>1. wpc[w] = "push" /\ wpc'[w] = "ack" /\ job'[w] = job[w]
    BY <1>0, <1>8 DEF Push
  <2>. QED
    BY <1>g, <2>1 DEF WorkInv
<1>. QED
  BY <1>1, <1>2, <1>3, <1>4, <1>5, <1>6, <1>7, <1>8 DEF Worker

\* What is on its way stays so while more is dropped and written.
LEMMA OnItsWayStays ==
    ASSUME NEW t, OnItsWay(t, dropped \cup written),
           dropped \subseteq dropped', written \subseteq written'
    PROVE  OnItsWay(t, dropped' \cup written')
BY DEF OnItsWay

\* At the end of a request an evaluator has every batch of it.
LEMMA AllWorked ==
    ASSUME AgentAssumption, TypeOK, TasksOK, NEW w \in Workers, WorkInv(w), wpc[w] \in {"push", "ack"}
    PROVE  \A i \in DOMAIN Body[job[w].request] :
              <<job[w].request, i>> \in dropped \/ i \in job[w].results
<1>1. job[w].request \in Requests /\ job[w].next \in Int
  <2>1. job[w] \in Jobs /\ TaskOK(w)
    BY DEF TypeOK, TasksOK
  <2>. QED
    BY <2>1 DEF TaskOK, Jobs
<1>2. \A i \in DOMAIN Body[job[w].request] : i \in Int /\ i <= Len(Body[job[w].request])
  BY <1>1, BodyFacts
<1>3. job[w].next > Len(Body[job[w].request]) /\ Len(Body[job[w].request]) \in Int
  BY <1>1, BodyFacts DEF WorkInv
<1>4. \A i \in DOMAIN Body[job[w].request] : i < job[w].next
  BY <1>1, <1>2, <1>3
<1>. QED
  BY <1>4 DEF WorkInv

LEMMA WorkerProgress ==
    ASSUME AgentAssumption, TypeOK, TasksOK, ProgressInv, NEW w \in Workers, Worker(w)
    PROVE  ProgressInv'
<1>g. dropped \subseteq dropped' /\ Evaluated \subseteq Evaluated' /\ UNCHANGED <<written, spc, sink>>
  BY WorkerGrows, WorkerFrame
<1>1. \A v \in Workers : WorkInv(v)'
  <2>1. WorkInv(w)'
    BY WorkerWorks DEF ProgressInv
  <2>2. ASSUME NEW v \in Workers, v # w PROVE WorkInv(v)'
    <3>1. wpc'[v] = wpc[v] /\ job'[v] = job[v] /\ WorkInv(v)
      BY <2>2, WorkerFrame DEF ProgressInv
    <3>. QED
      BY <1>g, <3>1 DEF WorkInv
  <2>. QED
    BY <2>1, <2>2
<1>2. \A i \in DOMAIN sinkQ' : OnItsWay(sinkQ'[i], dropped' \cup written')
  <2>0. \A i \in DOMAIN sinkQ : OnItsWay(sinkQ[i], dropped' \cup written')
    BY <1>g, OnItsWayStays DEF ProgressInv
  <2>1. CASE Push(w)
    <3>. DEFINE t == [request |-> job[w].request, left |-> job[w].results]
    <3>1. /\ wpc[w] = "push" /\ sinkQ' = Append(sinkQ, t) /\ sinkQ \in Seq(SinkTasks)
          /\ t \in SinkTasks
      BY <2>1 DEF Push, TypeOK, Jobs, SinkTasks
    <3>2. OnItsWay(t, dropped \cup written)
      BY <3>1, AllWorked DEF OnItsWay, ProgressInv
    <3>3. OnItsWay(t, dropped' \cup written')
      BY <1>g, <3>2, OnItsWayStays
    <3>4. \A i \in DOMAIN sinkQ' : sinkQ'[i] = t \/ (i \in DOMAIN sinkQ /\ sinkQ'[i] = sinkQ[i])
      BY <3>1, QueueFacts
    <3>. HIDE DEF t
    <3>. QED
      BY <2>0, <3>3, <3>4
  <2>2. CASE ~Push(w)
    <3>1. sinkQ' = sinkQ
      BY <2>2 DEF Worker, WorkerPop, WorkerExit, LockSerial, CheckPool, DropDuplicate,
         Acquire, Evaluate, EvaluateThrows, Threw, FinishRequest, CompleteDisabled,
         PushRefused, Ack, sinkQVars
    <3>. QED
      BY <2>0, <3>1
  <2>. QED
    BY <2>1, <2>2
<1>3. \A s \in Sinks : spc'[s] = "write" => OnItsWay(sink'[s], dropped' \cup written')
  <2>1. \A s \in Sinks : spc[s] = "write" => OnItsWay(sink[s], dropped' \cup written')
    BY <1>g, OnItsWayStays DEF ProgressInv
  <2>. QED
    BY <1>g, <2>1
<1>4. IdleInv'
  <2>1. CASE Push(w)
    BY <2>1, WorkerGrows DEF Push, IdleInv
  <2>2. CASE ~Push(w)
    <3>1. sinkQ' = sinkQ /\ config' = config
      BY <2>2, WorkerGrows DEF Worker, WorkerPop, WorkerExit, LockSerial, CheckPool,
         DropDuplicate, Acquire, Evaluate, EvaluateThrows, Threw, FinishRequest,
         CompleteDisabled, PushRefused, Ack, sinkQVars
    <3>. QED
      BY <1>g, <3>1 DEF ProgressInv, IdleInv
  <2>. QED
    BY <2>1, <2>2
<1>. QED
  BY <1>1, <1>2, <1>3, <1>4 DEF ProgressInv

LEMMA SinkProgress ==
    ASSUME AgentAssumption, TypeOK, TasksOK, ProgressInv, NEW s \in Sinks, Sink(s)
    PROVE  ProgressInv' /\ written \subseteq written'
<1>0. /\ sink \in [Sinks -> SinkTasks] /\ sink[s] \in SinkTasks
      /\ spc \in [Sinks -> {"pop", "write", "exit"}]
      /\ sinkQ \in Seq(SinkTasks)
  BY DEF TypeOK
<1>g. /\ dropped' = dropped /\ written \subseteq written'
      /\ UNCHANGED <<wpc, job, order>>
  BY DEF Sink, SinkPop, SinkExit, SinkWrite, SinkDone, SinkThrows, workerVars, historyVars,
     outputVars
<1>1. \A w \in Workers : WorkInv(w)'
  BY <1>g DEF ProgressInv, WorkInv, Evaluated
<1>2. /\ \A i \in DOMAIN sinkQ : OnItsWay(sinkQ[i], dropped' \cup written')
      /\ \A u \in Sinks : spc[u] = "write" => OnItsWay(sink[u], dropped' \cup written')
  BY <1>g, OnItsWayStays DEF ProgressInv
<1>3. \A i \in DOMAIN sinkQ' : OnItsWay(sinkQ'[i], dropped' \cup written')
  <2>1. sinkQ' = sinkQ \/ (sinkQ # <<>> /\ sinkQ' = Tail(sinkQ))
    BY DEF Sink, SinkPop, SinkExit, SinkWrite, SinkDone, SinkThrows, sinkQVars
  <2>2. sinkQ # <<>> => \A i \in DOMAIN Tail(sinkQ) : \E j \in DOMAIN sinkQ :
                           Tail(sinkQ)[i] = sinkQ[j]
    BY <1>0, QueueFacts
  <2>. QED
    BY <1>2, <2>1, <2>2
<1>4. spc'[s] = "write" => OnItsWay(sink'[s], dropped' \cup written')
  <2>1. CASE SinkPop(s)
    <3>1. sinkQ # <<>> /\ sink'[s] = Head(sinkQ)
      BY <1>0, <2>1 DEF SinkPop
    <3>2. Head(sinkQ) = sinkQ[1] /\ 1 \in DOMAIN sinkQ
      BY <1>0, <3>1
    <3>. QED
      BY <1>2, <3>1, <3>2
  <2>2. CASE SinkWrite(s)
    <3>1. PICK i : /\ sink' = [sink EXCEPT ![s].left = @ \ {i}]
                   /\ written' = written \cup {<<sink[s].request, i>>}
      BY <2>2 DEF SinkWrite
    <3>2. sink'[s].request = sink[s].request /\ sink'[s].left = sink[s].left \ {i}
      BY <1>0, <3>1 DEF SinkTasks
    <3>3. OnItsWay(sink[s], dropped' \cup written')
      BY <1>2, <2>2 DEF SinkWrite
    <3>. QED
      BY <3>1, <3>2, <3>3 DEF OnItsWay
  <2>3. CASE SinkExit(s) \/ SinkDone(s) \/ SinkThrows(s)
    BY <1>0, <2>3 DEF SinkExit, SinkDone, SinkThrows
  <2>. QED
    BY <2>1, <2>2, <2>3 DEF Sink
<1>5. ASSUME NEW u \in Sinks, u # s, spc'[u] = "write" PROVE OnItsWay(sink'[u], dropped' \cup written')
  <2>1. spc'[u] = spc[u] /\ sink'[u] = sink[u]
    BY <1>0, <1>5 DEF Sink, SinkPop, SinkExit, SinkWrite, SinkDone, SinkThrows
  <2>. QED
    BY <1>2, <1>5, <2>1
<1>6. IdleInv'
  <2>1. config' = config
    BY DEF Sink, SinkPop, SinkExit, SinkWrite, SinkDone, SinkThrows
  <2>2. config.disabled => UNCHANGED sinkQ /\ spc'[s] # "write"
    BY <1>0, <2>1 DEF Sink, SinkPop, SinkExit, SinkWrite, SinkDone, SinkThrows, sinkQVars,
       ProgressInv, IdleInv
  <2>3. \A u \in Sinks \ {s} : spc'[u] = spc[u]
    BY <1>0 DEF Sink, SinkPop, SinkExit, SinkWrite, SinkDone, SinkThrows
  <2>. QED
    BY <2>1, <2>2, <2>3 DEF ProgressInv, IdleInv
<1>. QED
  BY <1>1, <1>3, <1>4, <1>5, <1>6, <1>g DEF ProgressInv

\* The steps of handlers and of the thread of run_http.
LEMMA OtherProgress ==
    ASSUME ProgressInv,
           \/ \E r \in Requests : Post(r) \/ PostRefused(r)
           \/ Stop \/ Shutdown \/ UNCHANGED vars
    PROVE  /\ ProgressInv'
           /\ UNCHANGED <<config, written, dropped, order>>
<1>1. UNCHANGED <<config, wpc, job, sinkQ, spc, sink, written, dropped, order>>
  BY DEF Post, PostRefused, Stop, Shutdown, ListenReturns, JoinEval, JoinSink, vars,
     workerVars, sinkVars, sinkQVars, outputVars, historyVars
<1>. QED
  BY <1>1 DEF ProgressInv, IdleInv, WorkInv, OnItsWay, Evaluated

\* Completing a request answers it once.
LEMMA CompleteOnce ==
    ASSUME TypeOK, NEW r \in Requests, NEW code, Complete(r, code)
    PROVE  \/ answer' = answer
           \/ answer[r] = None /\ answer' = [answer EXCEPT ![r] = code]
<1>1. answer \in [Requests -> Codes \cup {None}]
  BY DEF TypeOK
<1>2. CASE answer[r] = None
  BY <1>1, <1>2 DEF Complete
<1>3. CASE answer[r] # None
  BY <1>1, <1>3 DEF Complete
<1>. QED
  BY <1>2, <1>3

\* What is processed, seen from the histories: it only grows, and it is of the
\* batches of requests.
LEMMA ProcessedGrows ==
    ASSUME TypeOK, TypeOK', config' = config, dropped \subseteq dropped',
           Evaluated \subseteq Evaluated', written \subseteq written'
    PROVE  Processed \subseteq Processed' /\ Processed' \subseteq Items
<1>1. Evaluated' \subseteq Items
  BY DEF TypeOK, Evaluated
<1>2. Processed \subseteq Processed'
  BY DEF Processed
<1>. QED
  BY <1>1, <1>2 DEF Processed, TypeOK

\* An answer that a step gives: one request gets one code, and 200 only when its
\* batches are processed.
Answered(r, code) == /\ answer[r] = None /\ answer' = [answer EXCEPT ![r] = code]
                     /\ code = 200 => ItemsOf(r) \subseteq Processed

LEMMA ItemsProcessed ==
    ASSUME NEW r, \A i \in DOMAIN Body[r] : <<r, i>> \in Processed
    PROVE  ItemsOf(r) \subseteq Processed
BY DEF ItemsOf

\* An evaluator answers for the work it has done.
LEMMA WorkerAnswers ==
    ASSUME AgentAssumption, TypeOK, TasksOK, ProgressInv, NEW w \in Workers, Worker(w)
    PROVE  \/ answer' = answer
           \/ /\ UNCHANGED <<dropped, order>>
              /\ \E r \in Requests, code \in Codes : Answered(r, code)
<1>0. /\ job[w] \in Jobs /\ TaskOK(w) /\ WorkInv(w)
      /\ 200 \in Codes /\ 500 \in Codes /\ 503 \in Codes /\ 500 # 200 /\ 503 # 200
  BY DEF TypeOK, TasksOK, ProgressInv, Codes
<1>1. CASE Threw(w)
  <2>1. job[w].request \in Requests /\ Complete(job[w].request, 500) /\ UNCHANGED <<dropped, order>>
    BY <1>0, <1>1 DEF Threw, CompleteThrown, TaskOK, historyVars
  <2>. QED
    BY <1>0, <2>1, CompleteOnce DEF Answered
<1>2. CASE PushRefused(w)
  <2>1. job[w].request \in Requests /\ Complete(job[w].request, 503) /\ UNCHANGED <<dropped, order>>
    BY <1>0, <1>2 DEF PushRefused, TaskOK, historyVars
  <2>. QED
    BY <1>0, <2>1, CompleteOnce DEF Answered
<1>3. CASE CompleteDisabled(w) \/ (Ack(w) /\ config.ack = "evaluated")
  <2>1. /\ job[w].request \in Requests /\ Complete(job[w].request, 200)
        /\ UNCHANGED <<dropped, order>> /\ wpc[w] \in {"push", "ack"}
        /\ config.ack = "evaluated" \/ config.disabled
    BY <1>0, <1>3 DEF CompleteDisabled, Ack, TaskOK, historyVars
  <2>2. \A i \in DOMAIN Body[job[w].request] : <<job[w].request, i>> \in Processed
    <3>1. Processed = dropped \cup Evaluated
      BY <2>1 DEF Processed
    <3>2. \A i \in DOMAIN Body[job[w].request] :
              <<job[w].request, i>> \in dropped \/ i \in job[w].results
      BY <1>0, <2>1, AllWorked
    <3>3. \A i \in job[w].results : <<job[w].request, i>> \in Evaluated
      BY <1>0, <2>1 DEF WorkInv
    <3>. QED
      BY <3>1, <3>2, <3>3
  <2>. QED
    BY <1>0, <2>1, <2>2, ItemsProcessed, CompleteOnce DEF Answered
<1>4. CASE Ack(w) /\ config.ack # "evaluated"
  BY <1>4 DEF Ack
<1>5. CASE \/ WorkerPop(w) \/ WorkerExit(w) \/ LockSerial(w) \/ CheckPool(w) \/ DropDuplicate(w)
           \/ Acquire(w) \/ Evaluate(w) \/ EvaluateThrows(w) \/ FinishRequest(w) \/ Push(w)
  BY <1>5 DEF WorkerPop, WorkerExit, LockSerial, CheckPool, DropDuplicate, Acquire,
     Evaluate, EvaluateThrows, FinishRequest, Push, requestVars
<1>. QED
  BY <1>1, <1>2, <1>3, <1>4, <1>5 DEF Worker

\* A sink answers, in durable mode, when nothing of the task is left, or that it
\* failed.
LEMMA SinkAnswers ==
    ASSUME AgentAssumption, TypeOK, TasksOK, ProgressInv, NEW s \in Sinks, Sink(s)
    PROVE  \/ answer' = answer
           \/ /\ UNCHANGED <<written, dropped, order>>
              /\ \E r \in Requests, code \in Codes : Answered(r, code)
<1>0. 200 \in Codes /\ 500 \in Codes /\ 500 # 200
  BY DEF Codes
<1>1. CASE SinkDone(s) /\ config.ack = "durable"
  <2>1. /\ sink[s] \in OwedTasks /\ sink[s].left = {} /\ spc[s] = "write"
        /\ Complete(sink[s].request, 200) /\ UNCHANGED <<written, dropped, order>>
    BY <1>1 DEF SinkDone, CompleteIfDurable, TasksOK, SinkOK, outputVars, historyVars
  <2>2. sink[s].request \in Requests
    BY <2>1 DEF OwedTasks
  <2>3. \A i \in DOMAIN Body[sink[s].request] : <<sink[s].request, i>> \in dropped \cup written
    BY <2>1 DEF ProgressInv, OnItsWay
  <2>4. dropped \cup written \subseteq Processed
    BY <1>1, <2>1 DEF Processed, ProgressInv, IdleInv
  <2>. QED
    BY <1>0, <2>1, <2>2, <2>3, <2>4, ItemsProcessed, CompleteOnce DEF Answered
<1>2. CASE SinkThrows(s) /\ config.ack = "durable"
  <2>1. /\ sink[s] \in OwedTasks
        /\ Complete(sink[s].request, 500) /\ UNCHANGED <<written, dropped, order>>
    BY <1>2 DEF SinkThrows, CompleteIfDurable, WriteFailed, TasksOK, SinkOK, historyVars
  <2>2. sink[s].request \in Requests
    BY <2>1 DEF OwedTasks
  <2>. QED
    BY <1>0, <2>1, <2>2, CompleteOnce DEF Answered
<1>3. CASE (SinkDone(s) \/ SinkThrows(s)) /\ config.ack # "durable"
  BY <1>3 DEF SinkDone, SinkThrows, CompleteIfDurable
<1>4. CASE SinkPop(s) \/ SinkExit(s) \/ SinkWrite(s)
  BY <1>4 DEF SinkPop, SinkExit, SinkWrite, requestVars
<1>. QED
  BY <1>1, <1>2, <1>3, <1>4 DEF Sink

\* Answering a request, with nothing processed at the same time, keeps the promise.
LEMMA AnswerKept ==
    ASSUME NEW r \in Requests, NEW code \in Codes, Answered(r, code), UNCHANGED Processed
    PROVE  Promise!Next
<1>1. [q \in Requests |-> ItemsOf(q)][r] = ItemsOf(r)
  OBVIOUS
<1>2. Promise!Answer(r)
  BY <1>1 DEF Answered, Promise!Answer
<1>. QED
  BY <1>2 DEF Promise!Next

\* So does processing batches without answering.
LEMMA ProcessKept ==
    ASSUME TypeOK, TypeOK', answer' = answer, config' = config, dropped \subseteq dropped',
           Evaluated \subseteq Evaluated', written \subseteq written'
    PROVE  Promise!Next
<1>1. Promise!Process
  BY ProcessedGrows DEF Promise!Process
<1>. QED
  BY <1>1 DEF Promise!Next

LEMMA PromiseStep ==
    ASSUME AgentAssumption, TypeOK, TypeOK', TasksOK, ProgressInv, [Next]_vars
    PROVE  [Promise!Next]_(Promise!vars) /\ ProgressInv'
<1>1. ASSUME NEW w \in Workers, Worker(w) PROVE Promise!Next /\ ProgressInv'
  <2>1. ProgressInv'
    BY <1>1, WorkerProgress
  <2>2. /\ dropped \subseteq dropped' /\ Evaluated \subseteq Evaluated'
        /\ UNCHANGED <<config, written>>
    BY <1>1, WorkerGrows
  <2>3. CASE answer' = answer
    BY <2>1, <2>2, <2>3, ProcessKept
  <2>4. CASE answer' # answer
    <3>1. PICK r \in Requests, code \in Codes : Answered(r, code) /\ UNCHANGED <<dropped, order>>
      BY <1>1, <2>4, WorkerAnswers
    <3>2. UNCHANGED Processed
      BY <2>2, <3>1 DEF Processed, Evaluated
    <3>. QED
      BY <2>1, <3>1, <3>2, AnswerKept
  <2>. QED
    BY <2>3, <2>4
<1>2. ASSUME NEW s \in Sinks, Sink(s) PROVE Promise!Next /\ ProgressInv'
  <2>1. ProgressInv' /\ written \subseteq written'
    BY <1>2, SinkProgress
  <2>2. UNCHANGED <<config, dropped, order>>
    BY <1>2 DEF Sink, SinkPop, SinkExit, SinkWrite, SinkDone, SinkThrows, historyVars
  <2>3. CASE answer' = answer
    BY <2>1, <2>2, <2>3, ProcessKept DEF Evaluated
  <2>4. CASE answer' # answer
    <3>1. PICK r \in Requests, code \in Codes : Answered(r, code) /\ UNCHANGED written
      BY <1>2, <2>4, SinkAnswers
    <3>2. UNCHANGED Processed
      BY <2>2, <3>1 DEF Processed, Evaluated
    <3>. QED
      BY <2>1, <3>1, <3>2, AnswerKept
  <2>. QED
    BY <2>3, <2>4
<1>3. ASSUME NEW r \in Requests, PostRefused(r) PROVE Promise!Next
  <2>1. Answered(r, 429) /\ 429 \in Codes
    BY <1>3 DEF PostRefused, Arrives, Answered, Codes
  <2>2. UNCHANGED Processed
    BY <1>3, OtherProgress DEF Processed, Evaluated
  <2>. QED
    BY <2>1, <2>2, AnswerKept
<1>4. ASSUME \/ \E r \in Requests : Post(r)
             \/ Stop \/ Shutdown \/ UNCHANGED vars
      PROVE  UNCHANGED (Promise!vars)
  <2>1. UNCHANGED <<answer, config, dropped, order, written>>
    BY <1>4 DEF Post, Stop, Shutdown, ListenReturns, JoinEval, JoinSink, vars, requestVars,
       outputVars, historyVars
  <2>. QED
    BY <2>1 DEF Promise!vars, Processed, Evaluated
<1>5. ASSUME \/ \E r \in Requests : Post(r) \/ PostRefused(r)
             \/ Stop \/ Shutdown \/ UNCHANGED vars
      PROVE  ProgressInv'
  BY <1>5, OtherProgress
<1>. QED
  BY <1>1, <1>2, <1>3, <1>4, <1>5 DEF Next, Ended

LEMMA ProgressInit == ASSUME Init PROVE ProgressInv /\ Promise!Init
<1>1. Processed = {}
  BY DEF Init, Processed, Evaluated
<1>2. Promise!Init
  BY <1>1 DEF Init, Promise!Init
<1>3. ProgressInv
  BY DEF Init, ProgressInv, IdleInv, WorkInv
<1>. QED
  BY <1>2, <1>3

\* The agent implements the promise of POST /v1/logs (README.md:223): a request is
\* answered once, and 200 only when its batches are evaluated, or written with ack_mode
\* durable, whatever the queues, evaluators, sinks and failures do.
THEOREM KeepsPromise == Spec => ImplementsPromise
<1>1. Init => ProgressInv /\ Promise!Init
  BY ProgressInit
<1>2. /\ PoolInv /\ PoolInv' /\ ProgressInv /\ [Next]_vars
      => [Promise!Next]_(Promise!vars) /\ ProgressInv'
  BY PromiseStep, AgentAssumption DEF PoolInv
<1>. QED
  BY <1>1, <1>2, PoolInvariant, PTL DEF Spec, ImplementsPromise, Promise!Spec

\* Whatever is answered 200 is processed, and stays so: a client never sees a success
\* of which a batch was neither evaluated (or, with ack_mode durable, written) nor a
\* duplicate.
THEOREM AnsweredIsProcessed == Spec => []AnsweredInv
<1>1. Init => AnsweredInv
  BY DEF Init, AnsweredInv, None
<1>2. TypeOK /\ AnsweredInv /\ [Promise!Next]_(Promise!vars) => AnsweredInv'
  <2>1. SUFFICES ASSUME TypeOK, AnsweredInv, [Promise!Next]_(Promise!vars),
                        NEW r \in Requests, answer'[r] = 200
                 PROVE  ItemsOf(r) \subseteq Processed'
    BY DEF AnsweredInv
  <2>2. Processed \subseteq Processed'
    BY <2>1 DEF Promise!Next, Promise!Process, Promise!Answer, Promise!vars
  <2>3. CASE answer[r] = 200
    BY <2>1, <2>2, <2>3 DEF AnsweredInv
  <2>4. CASE answer[r] # 200
    <3>1. PICK q \in Requests : Promise!Answer(q)
      BY <2>1, <2>4 DEF Promise!Next, Promise!Process, Promise!vars
    <3>2. q = r
      BY <2>1, <2>4, <3>1 DEF Promise!Answer, TypeOK
    <3>3. ItemsOf(r) \subseteq Processed
      BY <2>1, <3>1, <3>2 DEF Promise!Answer, TypeOK
    <3>. QED
      BY <2>2, <3>3
  <2>. QED
    BY <2>3, <2>4
<1>3. ProgressInv /\ PoolInv /\ PoolInv' /\ [Next]_vars => [Promise!Next]_(Promise!vars) /\ ProgressInv'
  BY PromiseStep, AgentAssumption DEF PoolInv
<1>4. Init => ProgressInv
  BY ProgressInit
<1>5. PoolInv => TypeOK
  BY DEF PoolInv
<1>. QED
  BY <1>1, <1>2, <1>3, <1>4, <1>5, PoolInvariant, PTL DEF Spec

-----------------------------------------------------------------------------
(* Where the requests are, and who answers them.                           *)

\* Taking the next request, and queueing one.
LEMMA TakeNext ==
    ASSUME TypeOK, QueueInv, evalQ # <<>>, evalQ' = Tail(evalQ), accepted' = accepted
    PROVE  /\ QueueInv' /\ Taken' = Taken + 1 /\ Taken + 1 \in DOMAIN accepted
           /\ Head(evalQ) = accepted[Taken + 1] /\ Begun' = Begun \cup {Head(evalQ)}
<1>1. /\ evalQ \in Seq(Requests) /\ accepted \in Seq(Requests)
      /\ Len(evalQ) \in Nat \ {0} /\ Len(accepted) \in Nat
      /\ Len(Tail(evalQ)) = Len(evalQ) - 1 /\ Head(evalQ) = evalQ[1] /\ 1 \in DOMAIN evalQ
      /\ DOMAIN accepted = 1 .. Len(accepted)
      /\ \A i \in DOMAIN Tail(evalQ) : i + 1 \in DOMAIN evalQ /\ Tail(evalQ)[i] = evalQ[i + 1]
  BY DEF TypeOK
<1>2. Taken \in Nat /\ Taken' = Taken + 1 /\ Taken + 1 \in DOMAIN accepted
  BY <1>1 DEF Taken, QueueInv
<1>3. Head(evalQ) = accepted[Taken + 1]
  BY <1>1 DEF QueueInv
<1>4. QueueInv'
  <2>1. Len(evalQ') <= Len(accepted')
    BY <1>1 DEF QueueInv
  <2>2. ASSUME NEW i \in DOMAIN evalQ' PROVE evalQ'[i] = accepted'[Taken' + i]
    <3>1. i \in Int /\ i + 1 \in DOMAIN evalQ /\ evalQ'[i] = evalQ[i + 1]
      BY <1>1, <2>2
    <3>2. evalQ[i + 1] = accepted[Taken + (i + 1)]
      BY <3>1 DEF QueueInv
    <3>3. Taken + (i + 1) = Taken' + i
      BY <1>2, <3>1
    <3>. QED
      BY <3>1, <3>2, <3>3
  <2>. QED
    BY <2>1, <2>2 DEF QueueInv
<1>5. 1 .. Taken + 1 = (1 .. Taken) \cup {Taken + 1}
  BY <1>2
<1>. QED
  BY <1>2, <1>3, <1>4, <1>5 DEF Begun

LEMMA QueueNext ==
    ASSUME TypeOK, QueueInv, NEW r \in Requests,
           evalQ' = Append(evalQ, r), accepted' = Append(accepted, r)
    PROVE  /\ QueueInv' /\ Taken' = Taken /\ Begun' = Begun
           /\ \A i \in DOMAIN accepted : accepted'[i] = accepted[i]
           /\ \A i \in DOMAIN accepted' : i \in DOMAIN accepted \/ i = Len(accepted) + 1
           /\ accepted'[Len(accepted) + 1] = r
           /\ \A i \in DOMAIN evalQ' : evalQ'[i] = r \/ (i \in DOMAIN evalQ /\ evalQ'[i] = evalQ[i])
<1>1. /\ evalQ \in Seq(Requests) /\ accepted \in Seq(Requests)
      /\ Len(evalQ) \in Nat /\ Len(accepted) \in Nat
      /\ Len(evalQ') = Len(evalQ) + 1 /\ Len(accepted') = Len(accepted) + 1
      /\ DOMAIN accepted = 1 .. Len(accepted) /\ DOMAIN accepted' = 1 .. Len(accepted) + 1
      /\ DOMAIN evalQ = 1 .. Len(evalQ) /\ DOMAIN evalQ' = 1 .. Len(evalQ) + 1
      /\ \A i \in DOMAIN accepted : accepted'[i] = accepted[i]
      /\ \A i \in DOMAIN evalQ : evalQ'[i] = evalQ[i]
      /\ accepted'[Len(accepted) + 1] = r /\ evalQ'[Len(evalQ) + 1] = r
  BY DEF TypeOK
<1>2. Taken \in Nat /\ Taken' = Taken
  BY <1>1 DEF Taken, QueueInv
<1>3. QueueInv'
  <2>1. Len(evalQ') <= Len(accepted')
    BY <1>1 DEF QueueInv
  <2>2. ASSUME NEW i \in DOMAIN evalQ' PROVE evalQ'[i] = accepted'[Taken' + i]
    <3>1. CASE i \in DOMAIN evalQ
      <4>1. Taken + i \in DOMAIN accepted
        BY <1>1, <1>2, <3>1 DEF Taken
      <4>. QED
        BY <1>1, <1>2, <3>1, <4>1 DEF QueueInv
    <3>2. CASE i = Len(evalQ) + 1
      <4>1. Taken' + i = Len(accepted) + 1
        BY <1>1, <1>2, <3>2 DEF Taken
      <4>. QED
        BY <1>1, <3>2, <4>1
    <3>3. i \in DOMAIN evalQ \/ i = Len(evalQ) + 1
      BY <1>1, <2>2
    <3>. QED
      BY <3>1, <3>2, <3>3
  <2>. QED
    BY <2>1, <2>2 DEF QueueInv
<1>4. Begun' = Begun
  <2>1. 1 .. Taken \subseteq DOMAIN accepted
    BY <1>1 DEF Taken, QueueInv
  <2>. QED
    BY <1>1, <1>2, <2>1 DEF Begun
<1>5. /\ \A i \in DOMAIN accepted' : i \in DOMAIN accepted \/ i = Len(accepted) + 1
      /\ \A i \in DOMAIN evalQ' : evalQ'[i] = r \/ (i \in DOMAIN evalQ /\ evalQ'[i] = evalQ[i])
  BY <1>1
<1>. QED
  BY <1>1, <1>2, <1>3, <1>4, <1>5

\* What is in the queue is not taken yet, and what is taken was accepted.
LEMMA BegunFacts ==
    ASSUME TypeOK, QueueInv, AdmittedOnce
    PROVE  /\ \A i \in DOMAIN evalQ : evalQ[i] \notin Begun
           /\ \A i \in DOMAIN evalQ : \E j \in DOMAIN accepted : accepted[j] = evalQ[i]
           /\ \A r \in Begun : \E i \in DOMAIN accepted : accepted[i] = r
<1>1. /\ evalQ \in Seq(Requests) /\ accepted \in Seq(Requests)
      /\ Len(evalQ) \in Nat /\ Len(accepted) \in Nat
      /\ DOMAIN accepted = 1 .. Len(accepted) /\ DOMAIN evalQ = 1 .. Len(evalQ)
  BY DEF TypeOK
<1>2. Taken \in Nat /\ 1 .. Taken \subseteq DOMAIN accepted
  BY <1>1 DEF Taken, QueueInv
<1>3. ASSUME NEW i \in DOMAIN evalQ, NEW j \in 1 .. Taken PROVE evalQ[i] # accepted[j]
  <2>1. Taken + i \in DOMAIN accepted /\ Taken + i # j /\ evalQ[i] = accepted[Taken + i]
    BY <1>1, <1>2 DEF Taken, QueueInv
  <2>. QED
    BY <1>2, <2>1 DEF AdmittedOnce
<1>4. ASSUME NEW i \in DOMAIN evalQ PROVE \E j \in DOMAIN accepted : accepted[j] = evalQ[i]
  <2>1. Taken + i \in DOMAIN accepted /\ evalQ[i] = accepted[Taken + i]
    BY <1>1 DEF Taken, QueueInv
  <2>. QED
    BY <2>1
<1>. QED
  BY <1>2, <1>3, <1>4 DEF Begun

\* Completing a request changes no other's answer.
LEMMA CompleteFacts ==
    ASSUME TypeOK, NEW r \in Requests, NEW code \in Codes, Complete(r, code)
    PROVE  /\ \A q \in Requests \ {r} : answer'[q] = answer[q] /\ (q \in waiting => q \in waiting')
           /\ answer'[r] \in {answer[r], code} /\ answer'[r] # None
<1>1. answer \in [Requests -> Codes \cup {None}] /\ code # None
  BY DEF TypeOK, Codes, None
<1>2. answer'[r] = IF answer[r] = None THEN code ELSE answer[r]
  BY <1>1 DEF Complete
<1>3. \A q \in Requests \ {r} : answer'[q] = answer[q]
  BY <1>1 DEF Complete
<1>. QED
  BY <1>1, <1>2, <1>3 DEF Complete

\* Only an evaluator's push brings a request to the sinks.
LEMMA SunkBySink ==
    ASSUME TypeOK, NEW s \in Sinks, Sink(s), NEW r \in Requests, Sunk(r)'
    PROVE  Sunk(r)
<1>0. /\ sink \in [Sinks -> SinkTasks] /\ sink[s] \in SinkTasks
      /\ spc \in [Sinks -> {"pop", "write", "exit"}]
      /\ sinkQ \in Seq(SinkTasks)
  BY DEF TypeOK
<1>1. CASE SinkPop(s)
  <2>1. /\ sinkQ # <<>> /\ sinkQ' = Tail(sinkQ) /\ sink'[s] = Head(sinkQ) /\ written' = written
        /\ \A u \in Sinks \ {s} : spc'[u] = spc[u] /\ sink'[u] = sink[u]
    BY <1>0, <1>1 DEF SinkPop, outputVars
  <2>2. Head(sinkQ) = sinkQ[1] /\ 1 \in DOMAIN sinkQ
    BY <1>0, <2>1
  <2>3. \A i \in DOMAIN Tail(sinkQ) : \E j \in DOMAIN sinkQ : Tail(sinkQ)[i] = sinkQ[j]
    BY <1>0, <2>1, QueueFacts
  <2>. QED
    BY <2>1, <2>2, <2>3 DEF Sunk
<1>2. CASE SinkWrite(s)
  <2>1. PICK i : /\ sink' = [sink EXCEPT ![s].left = @ \ {i}]
                 /\ written' = written \cup {<<sink[s].request, i>>}
    BY <1>2 DEF SinkWrite
  <2>2. sink'[s].request = sink[s].request /\ \A u \in Sinks \ {s} : sink'[u] = sink[u]
    BY <1>0, <2>1 DEF SinkTasks
  <2>3. spc[s] = "write" /\ spc' = spc /\ sinkQ' = sinkQ
    BY <1>2 DEF SinkWrite, sinkQVars
  <2>. QED
    BY <2>1, <2>2, <2>3 DEF Sunk
<1>3. CASE SinkExit(s) \/ SinkDone(s) \/ SinkThrows(s)
  <2>1. /\ sinkQ' = sinkQ /\ written' = written /\ spc'[s] # "write"
        /\ \A u \in Sinks \ {s} : spc'[u] = spc[u] /\ sink'[u] = sink[u]
    BY <1>0, <1>3 DEF SinkExit, SinkDone, SinkThrows, sinkQVars, outputVars
  <2>. QED
    BY <2>1 DEF Sunk
<1>. QED
  BY <1>1, <1>2, <1>3 DEF Sink

LEMMA SunkByWorker ==
    ASSUME TypeOK, NEW w \in Workers, Worker(w), NEW r \in Requests, Sunk(r)', ~Sunk(r)
    PROVE  Push(w) /\ r = job[w].request
<1>1. UNCHANGED <<spc, sink, written>>
  BY WorkerFrame, WorkerGrows
<1>2. CASE Push(w)
  <2>. DEFINE t == [request |-> job[w].request, left |-> job[w].results]
  <2>1. sinkQ' = Append(sinkQ, t) /\ sinkQ \in Seq(SinkTasks) /\ t \in SinkTasks
    BY <1>2 DEF Push, TypeOK, Jobs, SinkTasks
  <2>2. \A i \in DOMAIN sinkQ' : sinkQ'[i] = t \/ (i \in DOMAIN sinkQ /\ sinkQ'[i] = sinkQ[i])
    BY <2>1, QueueFacts
  <2>3. t.request = job[w].request
    OBVIOUS
  <2>. HIDE DEF t
  <2>. QED
    BY <1>1, <1>2, <2>2, <2>3 DEF Sunk
<1>3. CASE ~Push(w)
  <2>1. sinkQ' = sinkQ
    BY <1>3 DEF Worker, WorkerPop, WorkerExit, LockSerial, CheckPool, DropDuplicate,
       Acquire, Evaluate, EvaluateThrows, Threw, FinishRequest, CompleteDisabled,
       PushRefused, Ack, sinkQVars
  <2>. QED
    BY <1>1, <2>1 DEF Sunk
<1>. QED
  BY <1>2, <1>3

LEMMA BegunRequests ==
    ASSUME TypeOK, QueueInv
    PROVE  Begun \subseteq Requests
<1>1. /\ accepted \in Seq(Requests) /\ Len(evalQ) \in Nat /\ Len(accepted) \in Nat
      /\ DOMAIN accepted = 1 .. Len(accepted)
  BY DEF TypeOK
<1>2. 1 .. Taken \subseteq DOMAIN accepted
  BY <1>1 DEF Taken, QueueInv
<1>. QED
  BY <1>1, <1>2 DEF Begun

\* A step that answers nothing: an evaluator goes on, or hands its request over.
LEMMA PlacesStay ==
    ASSUME TypeOK, PlaceInv, UNCHANGED <<answer, waiting, accepted, evalQ>>,
           \A v \in Workers : Busy(v)' => Busy(v) /\ job'[v].request = job[v].request,
           \A v \in Workers : PrePush(v)' => PrePush(v),
           \A q \in Requests : Sunk(q)' =>
              \/ Sunk(q)
              \/ /\ q \in Begun /\ answer[q] \notin {429, 503}
                 /\ \A v \in Workers : PrePush(v)' => job[v].request # q
    PROVE  PlaceInv'
<1>1. QueueInv' /\ AdmittedOnce' /\ Begun' = Begun
  BY DEF PlaceInv, QueueInv, AdmittedOnce, Begun, Taken
<1>2. HeldInv'
  BY <1>1 DEF PlaceInv, HeldInv
<1>3. AnswerInv'
  <2>1. ASSUME NEW v \in Workers, PrePush(v)'
        PROVE  PrePush(v) /\ job'[v].request = job[v].request
    BY <2>1 DEF PrePush, Busy
  <2>2. ASSUME NEW q \in Requests, Sunk(q)'
        PROVE  /\ q \in Begun /\ answer[q] \notin {429, 503}
               /\ \A v \in Workers : PrePush(v)' => job'[v].request # q
    BY <2>1, <2>2 DEF PlaceInv, AnswerInv
  <2>. QED
    BY <1>1, <2>1, <2>2 DEF PlaceInv, AnswerInv
<1>. QED
  BY <1>1, <1>2, <1>3 DEF PlaceInv

\* A request that an evaluator has taken is completed by the one who has it.
LEMMA PlacesComplete ==
    ASSUME TypeOK, PlaceInv, NEW r \in Requests, r \in Begun,
           NEW code \in Codes, Complete(r, code), UNCHANGED <<accepted, evalQ>>,
           Sunk(r) => code \notin {429, 503},
           \A v \in Workers : Busy(v)' => Busy(v) /\ job'[v].request = job[v].request,
           \A v \in Workers : PrePush(v)' => PrePush(v) /\ job[v].request # r,
           \A q \in Requests : Sunk(q)' => Sunk(q)
    PROVE  PlaceInv'
<1>0. /\ \A q \in Requests \ {r} : answer'[q] = answer[q] /\ (q \in waiting => q \in waiting')
      /\ answer'[r] \in {answer[r], code} /\ answer'[r] # None
  BY CompleteFacts
<1>1. QueueInv' /\ Begun' = Begun
  BY DEF PlaceInv, QueueInv, Begun, Taken
<1>2. HeldInv'
  BY <1>1 DEF PlaceInv, HeldInv
<1>3. AdmittedOnce'
  <2>1. \A i \in DOMAIN accepted : accepted[i] \in Requests
    BY DEF TypeOK
  <2>. QED
    BY <1>0, <2>1 DEF PlaceInv, AdmittedOnce
<1>4. AnswerInv'
  <2>1. ASSUME NEW v \in Workers, PrePush(v)'
        PROVE  /\ PrePush(v) /\ job'[v].request = job[v].request
               /\ job[v].request \in Requests \ {r}
    <3>1. PrePush(v) /\ Busy(v) /\ Busy(v)'
      BY <2>1 DEF PrePush, Busy
    <3>2. job[v].request \in Requests
      BY <3>1, BegunRequests DEF PlaceInv, HeldInv
    <3>. QED
      BY <2>1, <3>1, <3>2
  <2>2. ASSUME NEW q \in Requests, Sunk(q)'
        PROVE  /\ q \in Begun /\ answer'[q] \notin {429, 503}
               /\ \A v \in Workers : PrePush(v)' => job'[v].request # q
    <3>1. Sunk(q)
      BY <2>2
    <3>2. answer'[q] \notin {429, 503}
      BY <1>0, <3>1 DEF PlaceInv, AnswerInv
    <3>. QED
      BY <2>1, <3>1, <3>2 DEF PlaceInv, AnswerInv
  <2>3. ASSUME NEW i \in DOMAIN evalQ PROVE answer'[evalQ[i]] = None
    <3>1. evalQ[i] \in Requests \ {r}
      BY BegunFacts DEF TypeOK, PlaceInv
    <3>. QED
      BY <1>0, <3>1 DEF PlaceInv, AnswerInv
  <2>. QED
    BY <1>0, <1>1, <2>1, <2>2, <2>3 DEF PlaceInv, AnswerInv
<1>. QED
  BY <1>1, <1>2, <1>3, <1>4 DEF PlaceInv

\* The steps of an evaluator on a request it keeps.
GoesOn(w) == \/ LockSerial(w) \/ CheckPool(w) \/ DropDuplicate(w) \/ Acquire(w)
             \/ Evaluate(w) \/ EvaluateThrows(w) \/ FinishRequest(w)

LEMMA GoingOn ==
    ASSUME TypeOK, NEW w \in Workers, GoesOn(w)
    PROVE  /\ PrePush(w) /\ PrePush(w)' /\ Busy(w) /\ Busy(w)'
           /\ job'[w].request = job[w].request
           /\ UNCHANGED <<answer, waiting, accepted, evalQ>>
<1>0. /\ job \in [Workers -> Jobs] /\ job[w] \in Jobs
      /\ wpc \in [Workers -> {"pop", "serial", "check", "eval", "using", "threw", "push",
                              "ack", "exit"}]
  BY DEF TypeOK
<1>1. PrePush(w) /\ PrePush(w)' /\ Busy(w) /\ Busy(w)'
  BY <1>0 DEF GoesOn, LockSerial, CheckPool, DropDuplicate, Acquire, Evaluate, EvaluateThrows,
     FinishRequest, HasNext, PrePush, Busy
<1>2. UNCHANGED <<answer, waiting, accepted, evalQ>>
  BY DEF GoesOn, LockSerial, CheckPool, DropDuplicate, Acquire, Evaluate, EvaluateThrows,
     FinishRequest, requestVars, evalQVars
<1>3. job'[w].request = job[w].request
  <2>1. CASE Acquire(w)
    BY <2>1, AcquireFields
  <2>2. CASE LockSerial(w) \/ CheckPool(w) \/ FinishRequest(w)
    BY <2>2 DEF LockSerial, CheckPool, FinishRequest
  <2>3. CASE DropDuplicate(w)
    BY <1>0, <2>3 DEF DropDuplicate, Jobs
  <2>4. CASE Evaluate(w)
    BY <1>0, <2>4 DEF Evaluate, Jobs
  <2>5. CASE EvaluateThrows(w)
    BY <1>0, <2>5 DEF EvaluateThrows, NoJob
  <2>. QED
    BY <2>1, <2>2, <2>3, <2>4, <2>5 DEF GoesOn
<1>. QED
  BY <1>1, <1>2, <1>3

\* An evaluator that has a request was given it from the queue.
LEMMA BusyBegun ==
    ASSUME TypeOK, PlaceInv, NEW w \in Workers, Busy(w)
    PROVE  job[w].request \in Requests /\ job[w].request \in Begun
BY BegunRequests DEF PlaceInv, HeldInv

LEMMA WorkerPlaces ==
    ASSUME AgentAssumption, TypeOK, TasksOK, PlaceInv, NEW w \in Workers, Worker(w)
    PROVE  PlaceInv'
<1>0. /\ wpc \in [Workers -> {"pop", "serial", "check", "eval", "using", "threw", "push",
                              "ack", "exit"}]
      /\ job \in [Workers -> Jobs] /\ TaskOK(w)
      /\ 200 \in Codes /\ 500 \in Codes /\ 503 \in Codes
  BY DEF TypeOK, TasksOK, Codes
<1>1. \A v \in Workers \ {w} : wpc'[v] = wpc[v] /\ job'[v] = job[v]
  BY WorkerFrame
<1>2. /\ \A v \in Workers \ {w} : Busy(v)' => Busy(v) /\ job'[v].request = job[v].request
      /\ \A v \in Workers \ {w} : PrePush(v)' => PrePush(v)
  BY <1>1 DEF Busy, PrePush
<1>3. CASE GoesOn(w)
  <2>1. /\ PrePush(w) /\ Busy(w) /\ job'[w].request = job[w].request
        /\ UNCHANGED <<answer, waiting, accepted, evalQ>>
    BY <1>3, GoingOn
  <2>2. ~Push(w)
    BY <1>3 DEF GoesOn, LockSerial, CheckPool, DropDuplicate, Acquire, Evaluate,
       EvaluateThrows, FinishRequest, HasNext, Push
  <2>3. \A q \in Requests : Sunk(q)' => Sunk(q)
    BY <2>2, SunkByWorker
  <2>. QED
    BY <1>2, <2>1, <2>3, PlacesStay
<1>4. CASE WorkerExit(w)
  <2>1. ~Busy(w)' /\ ~PrePush(w)' /\ ~Push(w) /\ UNCHANGED <<answer, waiting, accepted, evalQ>>
    BY <1>0, <1>4 DEF WorkerExit, Push, Busy, PrePush, requestVars, evalQVars
  <2>2. \A q \in Requests : Sunk(q)' => Sunk(q)
    BY <2>1, SunkByWorker
  <2>. QED
    BY <1>2, <2>1, <2>2, PlacesStay
<1>5. CASE Push(w)
  <2>1. /\ PrePush(w) /\ Busy(w) /\ Busy(w)' /\ ~PrePush(w)' /\ job' = job
        /\ UNCHANGED <<answer, waiting, accepted, evalQ>>
    BY <1>0, <1>5 DEF Push, Busy, PrePush, requestVars, evalQVars
  <2>2. ASSUME NEW q \in Requests, Sunk(q)', ~Sunk(q)
        PROVE  /\ q \in Begun /\ answer[q] \notin {429, 503}
               /\ \A v \in Workers : PrePush(v)' => job[v].request # q
    <3>1. q = job[w].request
      BY <2>2, SunkByWorker
    <3>2. q \in Begun /\ answer[q] = None
      BY <2>1, <3>1, BusyBegun DEF PlaceInv, AnswerInv
    <3>3. \A v \in Workers : PrePush(v)' => v # w /\ Busy(v)
      BY <1>2, <2>1 DEF PrePush, Busy
    <3>. QED
      BY <2>1, <3>1, <3>2, <3>3 DEF PlaceInv, HeldInv, None
  <2>. QED
    BY <1>2, <2>1, <2>2, PlacesStay
<1>6. ASSUME Busy(w), ~Busy(w)', ~PrePush(w)', ~Push(w), UNCHANGED <<accepted, evalQ>>,
             NEW code \in Codes, Complete(job[w].request, code),
             PrePush(w) \/ code \notin {429, 503}
      PROVE  PlaceInv'
  <2>1. job[w].request \in Requests /\ job[w].request \in Begun
    BY <1>6, BusyBegun
  <2>2. Sunk(job[w].request) => code \notin {429, 503}
    BY <1>6, <2>1 DEF PlaceInv, AnswerInv
  <2>3. \A v \in Workers : PrePush(v)' => PrePush(v) /\ job[v].request # job[w].request
    <3>1. \A v \in Workers : PrePush(v)' => v # w /\ PrePush(v) /\ Busy(v)
      BY <1>2, <1>6 DEF PrePush, Busy
    <3>. QED
      BY <1>6, <3>1 DEF PlaceInv, HeldInv
  <2>4. \A q \in Requests : Sunk(q)' => Sunk(q)
    BY <1>6, SunkByWorker
  <2>5. \A v \in Workers : Busy(v)' => Busy(v) /\ job'[v].request = job[v].request
    BY <1>2, <1>6
  <2>. QED
    BY <1>6, <2>1, <2>2, <2>3, <2>4, <2>5, PlacesComplete
<1>7. CASE Threw(w)
  <2>1. /\ Busy(w) /\ ~Busy(w)' /\ PrePush(w) /\ ~PrePush(w)' /\ ~Push(w)
        /\ UNCHANGED <<accepted, evalQ>> /\ Complete(job[w].request, 500)
    BY <1>0, <1>7 DEF Threw, CompleteThrown, Push, Busy, PrePush, evalQVars
  <2>. QED
    BY <1>0, <1>6, <2>1
<1>8. CASE CompleteDisabled(w)
  <2>1. /\ Busy(w) /\ ~Busy(w)' /\ PrePush(w) /\ ~PrePush(w)' /\ ~Push(w)
        /\ UNCHANGED <<accepted, evalQ>> /\ Complete(job[w].request, 200)
    BY <1>0, <1>8 DEF CompleteDisabled, EndTask, Push, Busy, PrePush, evalQVars
  <2>. QED
    BY <1>0, <1>6, <2>1
<1>9. CASE PushRefused(w)
  <2>1. /\ Busy(w) /\ ~Busy(w)' /\ PrePush(w) /\ ~PrePush(w)' /\ ~Push(w)
        /\ UNCHANGED <<accepted, evalQ>> /\ Complete(job[w].request, 503)
    BY <1>0, <1>9 DEF PushRefused, EndTask, Push, Busy, PrePush, evalQVars
  <2>. QED
    BY <1>0, <1>6, <2>1
<1>10. CASE Ack(w)
  <2>1. /\ Busy(w) /\ ~Busy(w)' /\ ~PrePush(w)' /\ ~Push(w)
        /\ UNCHANGED <<accepted, evalQ>>
    BY <1>0, <1>10 DEF Ack, EndTask, Push, Busy, PrePush, evalQVars
  <2>2. CASE config.ack = "evaluated"
    <3>1. Complete(job[w].request, 200)
      BY <1>10, <2>2 DEF Ack
    <3>. QED
      BY <1>0, <1>6, <2>1, <3>1
  <2>3. CASE config.ack # "evaluated"
    <3>1. UNCHANGED <<answer, waiting>>
      BY <1>10, <2>3 DEF Ack
    <3>2. \A q \in Requests : Sunk(q)' => Sunk(q)
      BY <2>1, SunkByWorker
    <3>. QED
      BY <1>2, <2>1, <3>1, <3>2, PlacesStay
  <2>. QED
    BY <2>2, <2>3
<1>11. CASE WorkerPop(w)
  <2>1. /\ evalQ # <<>> /\ evalQ' = Tail(evalQ) /\ UNCHANGED <<answer, waiting, accepted>>
        /\ job'[w].request = Head(evalQ) /\ ~Push(w) /\ ~Busy(w)
        /\ evalQ \in Seq(Requests) /\ accepted \in Seq(Requests)
    BY <1>0, <1>11 DEF WorkerPop, requestVars, NoJob, Push, TypeOK, Busy
  <2>2. /\ QueueInv' /\ Begun' = Begun \cup {Head(evalQ)}
    BY <2>1, TakeNext DEF PlaceInv
  <2>3. /\ Head(evalQ) \notin Begun /\ answer[Head(evalQ)] = None
    <3>1. 1 \in DOMAIN evalQ /\ Head(evalQ) = evalQ[1]
      BY <2>1
    <3>. QED
      BY <3>1, BegunFacts DEF PlaceInv, AnswerInv
  <2>4. AdmittedOnce'
    BY <2>1 DEF PlaceInv, AdmittedOnce
  <2>5. HeldInv'
    <3>1. \A v \in Workers \ {w} : Busy(v)' =>
             Busy(v) /\ job'[v].request = job[v].request /\ job[v].request \in Begun
      BY <1>2 DEF PlaceInv, HeldInv
    <3>2. \A v \in Workers : Busy(v)' => job'[v].request \in Begun'
      BY <2>1, <2>2, <3>1
    <3>3. \A v, u \in Workers : Busy(v)' /\ Busy(u)' /\ v # u => job'[v].request # job'[u].request
      BY ZenonT(30), <2>1, <2>3, <3>1 DEF PlaceInv, HeldInv
    <3>. QED
      BY <3>2, <3>3 DEF HeldInv
  <2>6. ASSUME NEW q \in Requests, Sunk(q)' PROVE Sunk(q) /\ q # Head(evalQ)
    <3>1. Sunk(q)
      BY <2>1, <2>6, SunkByWorker
    <3>. QED
      BY <2>3, <3>1 DEF PlaceInv, AnswerInv
  <2>7. \A i \in DOMAIN evalQ' : \E j \in DOMAIN evalQ : evalQ'[i] = evalQ[j]
    <3>1. \A i \in DOMAIN Tail(evalQ) : \E j \in DOMAIN evalQ : Tail(evalQ)[i] = evalQ[j]
      BY <2>1, QueueFacts
    <3>2. evalQ' = Tail(evalQ)
      BY <2>1
    <3>. QED
      BY <3>1, <3>2
  <2>8. AnswerInv'
    <3>1. \A v \in Workers : PrePush(v)' =>
             \/ job'[v].request = Head(evalQ)
             \/ PrePush(v) /\ job'[v].request = job[v].request
      BY <1>1, <1>2, <2>1
    <3>2. ASSUME NEW q \in Requests, Sunk(q)'
          PROVE  /\ q \in Begun' /\ answer'[q] \notin {429, 503}
                 /\ \A v \in Workers : PrePush(v)' => job'[v].request # q
      <4>1. /\ Sunk(q) /\ q # Head(evalQ)
        BY <2>6, <3>2
      <4>2. /\ q \in Begun /\ answer[q] \notin {429, 503}
            /\ \A v \in Workers : PrePush(v) => job[v].request # q
        BY <4>1 DEF PlaceInv, AnswerInv
      <4>3. q \in Begun' /\ answer'[q] \notin {429, 503}
        BY <2>1, <2>2, <4>2
      <4>. QED
        BY <3>1, <4>1, <4>2, <4>3
    <3>3. ASSUME NEW v \in Workers, PrePush(v)' PROVE answer'[job'[v].request] = None
      <4>1. PrePush(v) => answer[job[v].request] = None
        BY DEF PlaceInv, AnswerInv
      <4>2. answer' = answer
        BY <2>1
      <4>. QED
        BY <2>3, <3>1, <3>3, <4>1, <4>2
    <3>4. \A i \in DOMAIN evalQ' : answer'[evalQ'[i]] = None
      BY SMTT(30), <2>1, <2>7 DEF PlaceInv, AnswerInv
    <3>. QED
      BY <3>2, <3>3, <3>4 DEF AnswerInv
  <2>. QED
    BY <2>2, <2>4, <2>5, <2>8 DEF PlaceInv
<1>. QED
  BY <1>3, <1>4, <1>5, <1>7, <1>8, <1>9, <1>10, <1>11 DEF Worker, GoesOn

LEMMA SinkPlaces ==
    ASSUME AgentAssumption, TypeOK, TasksOK, PlaceInv, NEW s \in Sinks, Sink(s)
    PROVE  PlaceInv'
<1>0. 200 \in Codes /\ 500 \in Codes
  BY DEF Codes
<1>1. UNCHANGED <<wpc, job, accepted, evalQ>>
  BY DEF Sink, SinkPop, SinkExit, SinkWrite, SinkDone, SinkThrows, workerVars, requestVars,
     evalQVars
<1>2. /\ \A v \in Workers : Busy(v)' => Busy(v) /\ job'[v].request = job[v].request
      /\ \A v \in Workers : PrePush(v)' => PrePush(v)
  BY <1>1 DEF Busy, PrePush
<1>3. \A q \in Requests : Sunk(q)' => Sunk(q)
  BY SunkBySink
<1>4. CASE UNCHANGED <<answer, waiting>>
  BY <1>1, <1>2, <1>3, <1>4, PlacesStay
<1>5. CASE (SinkDone(s) \/ SinkThrows(s)) /\ config.ack = "durable"
  <2>. DEFINE r == sink[s].request
  <2>1. spc[s] = "write" /\ \E code \in {200, 500} : Complete(r, code)
    BY <1>5 DEF SinkDone, SinkThrows, CompleteIfDurable, WriteFailed
  <2>2. r \in Requests /\ Sunk(r)
    BY <2>1 DEF TasksOK, SinkOK, OwedTasks, Sunk
  <2>3. r \in Begun /\ \A v \in Workers : PrePush(v) => job[v].request # r
    BY <2>2 DEF PlaceInv, AnswerInv
  <2>. HIDE DEF r
  <2>. QED
    BY <1>0, <1>1, <1>2, <1>3, <2>1, <2>2, <2>3, PlacesComplete
<1>6. CASE \/ SinkPop(s) \/ SinkExit(s) \/ SinkWrite(s)
           \/ ((SinkDone(s) \/ SinkThrows(s)) /\ config.ack # "durable")
  BY <1>4, <1>6 DEF SinkPop, SinkExit, SinkWrite, SinkDone, SinkThrows, CompleteIfDurable,
     requestVars
<1>. QED
  BY <1>5, <1>6 DEF Sink

LEMMA OtherPlaces ==
    ASSUME AgentAssumption, TypeOK, PlaceInv,
           \/ \E r \in Requests : Post(r) \/ PostRefused(r)
           \/ Stop \/ Shutdown \/ UNCHANGED vars
    PROVE  PlaceInv'
<1>1. UNCHANGED <<wpc, job, sinkQ, spc, sink, written>>
  BY DEF Post, PostRefused, Stop, Shutdown, ListenReturns, JoinEval, JoinSink, vars,
     workerVars, sinkVars, sinkQVars, outputVars
<1>2. /\ \A v \in Workers : Busy(v)' = Busy(v)
      /\ \A v \in Workers : PrePush(v)' = PrePush(v)
      /\ \A q \in Requests : Sunk(q)' = Sunk(q)
  BY <1>1 DEF Busy, PrePush, Sunk
<1>3. CASE UNCHANGED <<answer, waiting, accepted, evalQ>>
  BY <1>1, <1>2, <1>3, PlacesStay
<1>4. ASSUME NEW r \in Requests, Post(r) PROVE PlaceInv'
  <2>1. /\ answer[r] = None /\ r \notin waiting /\ answer' = answer /\ waiting' = waiting \cup {r}
        /\ evalQ' = Append(evalQ, r) /\ accepted' = Append(accepted, r)
    BY <1>4 DEF Post, Arrives
  <2>2. /\ QueueInv' /\ Taken' = Taken /\ Begun' = Begun
        /\ \A i \in DOMAIN accepted : accepted'[i] = accepted[i]
        /\ \A i \in DOMAIN accepted' : i \in DOMAIN accepted \/ i = Len(accepted) + 1
        /\ accepted'[Len(accepted) + 1] = r
        /\ \A i \in DOMAIN evalQ' : evalQ'[i] = r \/ (i \in DOMAIN evalQ /\ evalQ'[i] = evalQ[i])
    BY <2>1, QueueNext DEF PlaceInv
  <2>3. \A i \in DOMAIN accepted : accepted[i] # r
    BY <2>1 DEF PlaceInv, AdmittedOnce
  <2>4. AdmittedOnce'
    BY SMTT(30), <2>1, <2>2, <2>3 DEF PlaceInv, AdmittedOnce
  <2>5. HeldInv'
    BY <1>1, <1>2, <2>2 DEF PlaceInv, HeldInv
  <2>6. AnswerInv'
    <3>1. \A i \in DOMAIN evalQ' : answer'[evalQ'[i]] = None
      BY <2>1, <2>2 DEF PlaceInv, AnswerInv
    <3>. QED
      BY <1>1, <1>2, <2>1, <2>2, <3>1 DEF PlaceInv, AnswerInv
  <2>. QED
    BY <2>2, <2>4, <2>5, <2>6 DEF PlaceInv
<1>5. ASSUME NEW r \in Requests, PostRefused(r) PROVE PlaceInv'
  <2>1. /\ answer[r] = None /\ r \notin waiting /\ answer' = [answer EXCEPT ![r] = 429]
        /\ UNCHANGED <<waiting, accepted, evalQ>>
    BY <1>5 DEF PostRefused, Arrives, evalQVars
  <2>2. answer \in [Requests -> Codes \cup {None}]
    BY DEF TypeOK
  <2>3. \A q \in Requests \ {r} : answer'[q] = answer[q]
    BY <2>1, <2>2
  <2>4. answer'[r] # None
    BY <2>1, <2>2 DEF None
  <2>5. \A i \in DOMAIN accepted : accepted[i] \in Requests \ {r}
    BY <2>1 DEF TypeOK, PlaceInv, AdmittedOnce
  <2>6. Begun \subseteq Requests \ {r}
    BY <2>5, BegunFacts, BegunRequests DEF PlaceInv
  <2>7. QueueInv' /\ Begun' = Begun
    BY <2>1 DEF PlaceInv, QueueInv, Begun, Taken
  <2>8. AdmittedOnce'
    BY <2>1, <2>3, <2>5 DEF PlaceInv, AdmittedOnce
  <2>9. HeldInv'
    BY <1>1, <1>2, <2>7 DEF PlaceInv, HeldInv
  <2>10. AnswerInv'
    <3>1. ASSUME NEW q \in Requests, Sunk(q)'
          PROVE  /\ q \in Begun' /\ answer'[q] \notin {429, 503}
                 /\ \A v \in Workers : PrePush(v)' => job'[v].request # q
      <4>1. /\ q \in Begun /\ answer[q] \notin {429, 503}
            /\ \A v \in Workers : PrePush(v) => job[v].request # q
        BY <1>2, <3>1 DEF PlaceInv, AnswerInv
      <4>. QED
        BY <1>1, <1>2, <2>3, <2>6, <2>7, <4>1
    <3>2. ASSUME NEW v \in Workers, PrePush(v)' PROVE answer'[job'[v].request] = None
      <4>1. PrePush(v) /\ Busy(v) /\ job'[v].request = job[v].request
        BY <1>1, <1>2, <3>2 DEF PrePush, Busy
      <4>2. job[v].request \in Requests \ {r}
        BY <2>6, <4>1, BusyBegun
      <4>. QED
        BY <2>3, <4>1, <4>2 DEF PlaceInv, AnswerInv
    <3>3. ASSUME NEW i \in DOMAIN evalQ PROVE answer'[evalQ[i]] = None
      <4>1. answer[evalQ[i]] = None /\ evalQ[i] \in Requests
        BY DEF PlaceInv, AnswerInv, TypeOK
      <4>2. \E j \in DOMAIN accepted : accepted[j] = evalQ[i]
        BY BegunFacts DEF PlaceInv
      <4>. QED
        BY <2>3, <2>5, <4>1, <4>2
    <3>. QED
      BY <2>1, <3>1, <3>2, <3>3 DEF AnswerInv
  <2>. QED
    BY <2>7, <2>8, <2>9, <2>10 DEF PlaceInv
<1>6. CASE Stop \/ Shutdown \/ UNCHANGED vars
  BY <1>3, <1>6 DEF Stop, Shutdown, ListenReturns, JoinEval, JoinSink, vars, requestVars,
     evalQVars
<1>. QED
  BY <1>4, <1>5, <1>6

LEMMA PlaceInit == ASSUME Init PROVE PlaceInv
<1>1. QueueInv /\ Begun = {}
  BY DEF Init, QueueInv, Begun, Taken
<1>2. \A w \in Workers : ~Busy(w) /\ ~PrePush(w)
  BY DEF Init, Busy, PrePush
<1>3. \A r \in Requests : ~Sunk(r)
  BY DEF Init, Sunk
<1>. QED
  BY <1>1, <1>2, <1>3 DEF Init, PlaceInv, AdmittedOnce, HeldInv, AnswerInv

\* Where the requests are: an evaluator has what it has taken from the queue, alone,
\* and nobody else answers it before it is handed to the sinks.
THEOREM PlaceInvariant == Spec => []PlaceInv
<1>1. Init => PlaceInv
  BY PlaceInit
<1>2. PoolInv /\ PlaceInv /\ [Next]_vars => PlaceInv'
  BY WorkerPlaces, SinkPlaces, OtherPlaces, AgentAssumption DEF PoolInv, Next, Ended
<1>. QED
  BY <1>1, <1>2, PoolInvariant, PTL DEF Spec

\* A request that is refused with 429 or 503 (http_eval_queue_ or http_sink_queue_ is full)
\* can be sent again: no decision of it was, is or will be written.
THEOREM RefusedIsNotWritten == Spec => []RefusedNotWritten
<1>1. PlaceInv => RefusedNotWritten
  <2>1. SUFFICES ASSUME PlaceInv, NEW r \in Requests, NEW item \in written \cap ItemsOf(r)
                 PROVE  answer[r] \notin {429, 503}
    BY DEF RefusedNotWritten
  <2>2. Sunk(r)
    BY <2>1 DEF ItemsOf, Sunk
  <2>. QED
    BY <2>1, <2>2 DEF PlaceInv, AnswerInv
<1>. QED
  BY <1>1, PlaceInvariant, PTL

-----------------------------------------------------------------------------
(* What the shutdown still has to write.                                   *)

\* What is covered stays so: an evaluator only adds to the sinks' queue.
LEMMA CoveredByWorker ==
    ASSUME TypeOK, NEW w \in Workers, Worker(w), NEW r \in Requests, Covered(r)
    PROVE  Covered(r)'
<1>1. dropped \subseteq dropped' /\ UNCHANGED <<written, spc, sink>>
  BY WorkerFrame, WorkerGrows
<1>2. \A n \in DOMAIN sinkQ : n \in DOMAIN sinkQ' /\ sinkQ'[n] = sinkQ[n]
  <2>1. CASE Push(w)
    <3>1. sinkQ \in Seq(SinkTasks) /\ \E t \in SinkTasks : sinkQ' = Append(sinkQ, t)
      BY <2>1 DEF Push, TypeOK, Jobs, SinkTasks
    <3>. QED
      BY <3>1
  <2>2. CASE ~Push(w)
    BY <2>2 DEF Worker, WorkerPop, WorkerExit, LockSerial, CheckPool, DropDuplicate,
       Acquire, Evaluate, EvaluateThrows, Threw, FinishRequest, CompleteDisabled,
       PushRefused, Ack, sinkQVars
  <2>. QED
    BY <2>1, <2>2
<1>. QED
  BY <1>1, <1>2 DEF Covered

\* A sink that does not fail writes what it has.
LEMMA CoveredBySink ==
    ASSUME TypeOK, NEW s \in Sinks, Sink(s), ~SinkThrows(s), NEW r \in Requests, Covered(r)
    PROVE  Covered(r)'
<1>0. /\ sink \in [Sinks -> SinkTasks] /\ sink[s] \in SinkTasks
      /\ spc \in [Sinks -> {"pop", "write", "exit"}]
      /\ sinkQ \in Seq(SinkTasks)
  BY DEF TypeOK
<1>1. CASE SinkPop(s)
  <2>1. /\ sinkQ # <<>> /\ sinkQ' = Tail(sinkQ) /\ sink'[s] = Head(sinkQ) /\ spc'[s] = "write"
        /\ UNCHANGED <<written, dropped>> /\ spc[s] = "pop"
        /\ \A u \in Sinks \ {s} : spc'[u] = spc[u] /\ sink'[u] = sink[u]
    BY <1>0, <1>1 DEF SinkPop, outputVars, historyVars
  <2>2. ASSUME NEW n \in DOMAIN sinkQ
        PROVE  sinkQ[n] = sink'[s] \/ \E m \in DOMAIN sinkQ' : sinkQ'[m] = sinkQ[n]
    <3>1. CASE n = 1
      BY <1>0, <2>1, <3>1
    <3>2. CASE n # 1
      <4>1. n - 1 \in DOMAIN Tail(sinkQ) /\ Tail(sinkQ)[n - 1] = sinkQ[n]
        BY <1>0, <2>1, <2>2, <3>2
      <4>. QED
        BY <2>1, <4>1
    <3>. QED
      BY <3>1, <3>2
  <2>3. SUFFICES ASSUME NEW i \in DOMAIN Body[r]
                 PROVE  \/ <<r, i>> \in dropped \cup written
                        \/ \E n \in DOMAIN sinkQ' : sinkQ'[n].request = r /\ i \in sinkQ'[n].left
                        \/ \E u \in Sinks : spc'[u] = "write" /\ sink'[u].request = r /\ i \in sink'[u].left
    BY <2>1 DEF Covered
  <2>4. CASE <<r, i>> \in dropped \cup written
    BY <2>4
  <2>5. ASSUME NEW n \in DOMAIN sinkQ, sinkQ[n].request = r, i \in sinkQ[n].left
        PROVE  \/ \E m \in DOMAIN sinkQ' : sinkQ'[m].request = r /\ i \in sinkQ'[m].left
               \/ sink'[s].request = r /\ i \in sink'[s].left
    BY <2>2, <2>5
  <2>6. ASSUME NEW u \in Sinks, spc[u] = "write", sink[u].request = r, i \in sink[u].left
        PROVE  spc'[u] = "write" /\ sink'[u].request = r /\ i \in sink'[u].left
    BY <2>1, <2>6
  <2>. QED
    BY <2>1, <2>4, <2>5, <2>6 DEF Covered
<1>2. CASE SinkWrite(s)
  <2>1. PICK k : /\ sink' = [sink EXCEPT ![s].left = @ \ {k}]
                 /\ written' = written \cup {<<sink[s].request, k>>}
    BY <1>2 DEF SinkWrite
  <2>2. /\ sink'[s].request = sink[s].request /\ sink'[s].left = sink[s].left \ {k}
        /\ \A u \in Sinks \ {s} : sink'[u] = sink[u]
    BY <1>0, <2>1 DEF SinkTasks
  <2>3. spc' = spc /\ sinkQ' = sinkQ /\ dropped' = dropped
    BY <1>2 DEF SinkWrite, sinkQVars, historyVars
  <2>. QED
    BY <2>1, <2>2, <2>3 DEF Covered
<1>3. CASE SinkExit(s) \/ SinkDone(s)
  <2>1. /\ UNCHANGED <<sinkQ, written, dropped>> /\ (spc[s] # "write" \/ sink[s].left = {})
        /\ \A u \in Sinks \ {s} : spc'[u] = spc[u] /\ sink'[u] = sink[u]
    BY <1>0, <1>3 DEF SinkExit, SinkDone, sinkQVars, outputVars, historyVars
  <2>. QED
    BY <2>1 DEF Covered
<1>. QED
  BY <1>1, <1>2, <1>3 DEF Sink

LEMMA WorkerOwed ==
    ASSUME AgentAssumption, TypeOK, TasksOK, ProgressInv, OwedInv, NEW w \in Workers, Worker(w)
    PROVE  OwedInv'
<1>1. SUFFICES ASSUME faults = 0, ~config.disabled
               PROVE  /\ \A v \in Workers : wpc'[v] = "ack" => Covered(job[v].request)'
                      /\ \A r \in Requests : answer'[r] = 200 => Covered(r)'
  BY WorkerGrows DEF OwedInv
<1>0. /\ wpc \in [Workers -> {"pop", "serial", "check", "eval", "using", "threw", "push",
                              "ack", "exit"}]
      /\ answer \in [Requests -> Codes \cup {None}] /\ TaskOK(w)
  BY DEF TypeOK, TasksOK
<1>2. ASSUME NEW v \in Workers, wpc'[v] = "ack" PROVE Covered(job[v].request)'
  <2>1. CASE v # w
    <3>1. wpc[v] = "ack" /\ job'[v] = job[v] /\ job[v].request \in Requests
      BY <1>2, <2>1, WorkerFrame DEF TasksOK, TaskOK
    <3>2. PICK r \in Requests : r = job[v].request
      BY <3>1
    <3>3. Covered(r)'
      BY <1>1, <3>1, <3>2, CoveredByWorker DEF OwedInv
    <3>. QED
      BY <3>1, <3>2, <3>3
  <2>2. CASE v = w
    <3>1. Push(w)
      BY <1>0, <1>2, <2>2 DEF Worker, WorkerPop, WorkerExit, LockSerial, CheckPool,
         DropDuplicate, HasNext, Acquire, Evaluate, EvaluateThrows, Threw, FinishRequest,
         CompleteDisabled, PushRefused, Ack, EndTask
    <3>. DEFINE t == [request |-> job[w].request, left |-> job[w].results]
    <3>2. /\ wpc[w] = "push" /\ sinkQ' = Append(sinkQ, t) /\ sinkQ \in Seq(SinkTasks)
          /\ t \in SinkTasks /\ job' = job /\ dropped' = dropped
      BY <3>1 DEF Push, TypeOK, Jobs, SinkTasks, historyVars
    <3>3. Len(sinkQ) + 1 \in DOMAIN sinkQ' /\ sinkQ'[Len(sinkQ) + 1] = t
      BY <3>2
    <3>4. \A i \in DOMAIN Body[job[w].request] :
              <<job[w].request, i>> \in dropped \/ i \in job[w].results
      BY <3>2, AllWorked DEF ProgressInv
    <3>5. t.request = job[w].request /\ t.left = job[w].results
      OBVIOUS
    <3>. HIDE DEF t
    <3>. QED
      BY <2>2, <3>2, <3>3, <3>4, <3>5 DEF Covered
  <2>. QED
    BY <2>1, <2>2
<1>3. ASSUME NEW r \in Requests, answer'[r] = 200 PROVE Covered(r)'
  <2>1. CASE answer[r] = 200
    BY <1>1, <2>1, CoveredByWorker DEF OwedInv
  <2>2. CASE answer[r] # 200
    <3>1. Ack(w) /\ r = job[w].request
      <4>1. CASE Threw(w) \/ PushRefused(w)
        <5>1. \E code \in {500, 503} : Complete(job[w].request, code)
          BY <4>1 DEF Threw, CompleteThrown, PushRefused
        <5>. QED
          BY <1>0, <1>3, <2>2, <5>1 DEF Complete
      <4>2. CASE Ack(w)
        BY <1>0, <1>3, <2>2, <4>2 DEF Ack, Complete
      <4>3. CASE CompleteDisabled(w)
        BY <1>1, <4>3 DEF CompleteDisabled
      <4>4. CASE WorkerPop(w) \/ WorkerExit(w) \/ Push(w) \/ GoesOn(w)
        <5>1. answer' = answer
          BY <4>4, GoingOn DEF WorkerPop, WorkerExit, Push, requestVars
        <5>. QED
          BY <1>3, <2>2, <5>1
      <4>. QED
        BY <4>1, <4>2, <4>3, <4>4 DEF Worker, GoesOn
    <3>2. Covered(r)
      BY <1>1, <3>1 DEF Ack, OwedInv
    <3>. QED
      BY <3>2, CoveredByWorker
  <2>. QED
    BY <2>1, <2>2
<1>. QED
  BY <1>2, <1>3

LEMMA SinkOwed ==
    ASSUME AgentAssumption, TypeOK, TasksOK, ProgressInv, OwedInv, NEW s \in Sinks, Sink(s)
    PROVE  OwedInv'
<1>0. UNCHANGED <<config, wpc, job>>
  BY DEF Sink, SinkPop, SinkExit, SinkWrite, SinkDone, SinkThrows, workerVars
<1>1. CASE SinkThrows(s)
  <2>1. faults' # 0
    BY <1>1 DEF SinkThrows, TypeOK
  <2>. QED
    BY <2>1 DEF OwedInv
<1>2. ASSUME ~SinkThrows(s), faults = 0, ~config.disabled
      PROVE  /\ \A v \in Workers : wpc'[v] = "ack" => Covered(job[v].request)'
             /\ \A r \in Requests : answer'[r] = 200 => Covered(r)'
  <2>1. ASSUME NEW v \in Workers, wpc'[v] = "ack" PROVE Covered(job[v].request)'
    <3>1. PICK r \in Requests : r = job[v].request
      BY <1>0, <2>1 DEF TasksOK, TaskOK
    <3>2. Covered(r)'
      BY <1>0, <1>2, <2>1, <3>1, CoveredBySink DEF OwedInv
    <3>. QED
      BY <1>0, <3>1, <3>2
  <2>2. ASSUME NEW r \in Requests, answer'[r] = 200 PROVE Covered(r)'
    <3>1. CASE answer[r] = 200
      BY <1>2, <3>1, CoveredBySink DEF OwedInv
    <3>2. CASE answer[r] # 200
      <4>1. SinkDone(s) /\ r = sink[s].request
        BY <1>2, <2>2, <3>2 DEF Sink, SinkPop, SinkExit, SinkWrite, SinkDone,
           CompleteIfDurable, Complete, requestVars, TypeOK
      <4>2. spc[s] = "write" /\ sink[s].left = {}
        BY <4>1 DEF SinkDone
      <4>3. Covered(r)
        BY <4>1, <4>2 DEF ProgressInv, OnItsWay, Covered
      <4>. QED
        BY <1>2, <4>3, CoveredBySink
    <3>. QED
      BY <3>1, <3>2
  <2>. QED
    BY <2>1, <2>2
<1>3. ~SinkThrows(s) => faults' = faults
  BY DEF Sink, SinkPop, SinkExit, SinkWrite, SinkDone, outputVars
<1>. QED
  BY <1>0, <1>1, <1>2, <1>3 DEF OwedInv

LEMMA OtherOwed ==
    ASSUME TypeOK, OwedInv,
           \/ \E r \in Requests : Post(r) \/ PostRefused(r)
           \/ Stop \/ Shutdown \/ UNCHANGED vars
    PROVE  OwedInv'
<1>1. UNCHANGED <<config, wpc, job, sinkQ, spc, sink, written, dropped, faults>>
  BY DEF Post, PostRefused, Stop, Shutdown, ListenReturns, JoinEval, JoinSink, vars,
     workerVars, sinkVars, sinkQVars, outputVars, historyVars
<1>2. \A r \in Requests : answer'[r] = 200 => answer[r] = 200
  <2>1. answer \in [Requests -> Codes \cup {None}]
    BY DEF TypeOK
  <2>. QED
    BY <2>1 DEF Post, PostRefused, Stop, Shutdown, ListenReturns, JoinEval, JoinSink, vars,
       requestVars
<1>3. \A r : Covered(r)' = Covered(r)
  BY <1>1 DEF Covered
<1>. QED
  BY <1>1, <1>2, <1>3 DEF OwedInv, Covered

\* Nothing is queued for the sinks, or written, once they have left.
LEMMA DrainStep ==
    ASSUME TypeOK, DrainInv, [Next]_vars
    PROVE  DrainInv'
<1>0. spc \in [Sinks -> {"pop", "write", "exit"}]
  BY DEF TypeOK
<1>1. ASSUME NEW w \in Workers, Worker(w) PROVE DrainInv'
  <2>1. UNCHANGED <<spc, written, flushed, mpc>>
    BY <1>1, WorkerFrame, WorkerGrows
  <2>2. sinkClosed' = sinkClosed /\ (sinkClosed => sinkQ' = sinkQ)
    BY <1>1 DEF Worker, WorkerPop, WorkerExit, LockSerial, CheckPool, DropDuplicate, Acquire,
       Evaluate, EvaluateThrows, Threw, FinishRequest, CompleteDisabled, Push, SinkRoom,
       PushRefused, Ack, sinkQVars
  <2>. QED
    BY <2>1, <2>2 DEF DrainInv
<1>2. ASSUME NEW s \in Sinks, Sink(s) PROVE DrainInv'
  <2>1. sinkClosed' = sinkClosed /\ mpc' = mpc /\ spc[s] # "exit"
    BY <1>2 DEF Sink, SinkPop, SinkExit, SinkWrite, SinkDone, SinkThrows, sinkQVars
  <2>2. sinkQ = <<>> => sinkQ' = sinkQ
    BY <1>2 DEF Sink, SinkPop, SinkExit, SinkWrite, SinkDone, SinkThrows, sinkQVars
  <2>3. \A u \in Sinks \ {s} : spc'[u] = spc[u]
    BY <1>0, <1>2 DEF Sink, SinkPop, SinkExit, SinkWrite, SinkDone, SinkThrows
  <2>4. spc'[s] = "exit" => sinkQ' = <<>> /\ sinkClosed
    BY <1>0, <1>2 DEF Sink, SinkPop, SinkExit, SinkDrained, SinkWrite, SinkDone, SinkThrows,
       sinkQVars
  <2>5. mpc # "done"
    BY <2>1 DEF DrainInv
  <2>. QED
    BY <2>1, <2>2, <2>3, <2>4, <2>5 DEF DrainInv
<1>3. ASSUME \/ \E r \in Requests : Post(r) \/ PostRefused(r)
             \/ Stop \/ ListenReturns \/ JoinEval \/ UNCHANGED vars
      PROVE  DrainInv'
  <2>1. UNCHANGED <<spc, sinkQ, written, flushed>> /\ (sinkClosed => sinkClosed')
    BY <1>3 DEF Post, PostRefused, Stop, ListenReturns, JoinEval, vars, sinkVars, sinkQVars,
       outputVars
  <2>2. mpc' = "done" => mpc = "done"
    BY <1>3 DEF Post, PostRefused, Stop, ListenReturns, JoinEval, vars
  <2>. QED
    BY <2>1, <2>2 DEF DrainInv
<1>4. CASE JoinSink
  BY <1>4 DEF JoinSink, DrainInv, sinkVars, sinkQVars
<1>. QED
  BY <1>1, <1>2, <1>3, <1>4 DEF Next, Shutdown, Ended

\* At the end nothing is left with the sinks: what is covered is in the output.
LEMMA DrainedIsWritten ==
    ASSUME AgentAssumption, TypeOK, OwedInv, DrainInv
    PROVE  CleanShutdown
<1>1. SUFFICES ASSUME mpc = "done", ~config.disabled, faults = 0, NEW r \in Requests,
                      answer[r] = 200, NEW item \in ItemsOf(r)
               PROVE  item \in flushed \cup dropped
  BY DEF CleanShutdown
<1>2. 1 \in Sinks
  BY DEF AgentAssumption, Sinks
<1>3. /\ flushed = written /\ sinkQ = <<>> /\ \A s \in Sinks : spc[s] # "write"
  BY <1>1, <1>2 DEF DrainInv
<1>4. PICK i \in DOMAIN Body[r] : item = <<r, i>>
  BY DEF ItemsOf
<1>5. Covered(r)
  BY <1>1 DEF OwedInv
<1>. QED
  BY <1>3, <1>4, <1>5 DEF Covered

\* The shutdown of run_http loses no decision of a request that was answered 200, in
\* either ack_mode: unless the output failed, what the sinks were given is written
\* before they leave, and flushed when the instance is destroyed.
THEOREM ShutdownIsClean == Spec => []CleanShutdown
<1>1. Init => ProgressInv /\ OwedInv /\ DrainInv
  <2>1. Init => ProgressInv
    BY ProgressInit
  <2>2. Init => OwedInv /\ DrainInv
    BY DEF Init, OwedInv, DrainInv, None
  <2>. QED
    BY <2>1, <2>2
<1>2. /\ PoolInv /\ PoolInv' /\ ProgressInv /\ OwedInv /\ DrainInv /\ [Next]_vars
      => ProgressInv' /\ OwedInv' /\ DrainInv'
  <2>1. PoolInv /\ PoolInv' /\ ProgressInv /\ [Next]_vars => ProgressInv'
    BY PromiseStep, AgentAssumption DEF PoolInv
  <2>2. PoolInv /\ ProgressInv /\ OwedInv /\ [Next]_vars => OwedInv'
    BY WorkerOwed, SinkOwed, OtherOwed, AgentAssumption DEF PoolInv, Next, Ended
  <2>3. PoolInv /\ DrainInv /\ [Next]_vars => DrainInv'
    BY DrainStep DEF PoolInv
  <2>. QED
    BY <2>1, <2>2, <2>3
<1>3. PoolInv /\ OwedInv /\ DrainInv => CleanShutdown
  BY DrainedIsWritten, AgentAssumption DEF PoolInv
<1>. QED
  BY <1>1, <1>2, <1>3, PoolInvariant, PTL DEF Spec

-----------------------------------------------------------------------------
(* The order of evaluation when records are deduplicated.                  *)

LEMMA PlaceOf ==
    ASSUME NEW q, \A i, j \in DOMAIN q : q[i] = q[j] => i = j, NEW k \in DOMAIN q
    PROVE  (CHOOSE i \in DOMAIN q : q[i] = q[k]) = k
OBVIOUS

\* With deduplication the first evaluator is the only one.
LEMMA OneEvaluator ==
    ASSUME TypeOK, SerialOK, config.dedupe, NEW w \in Workers, wpc[w] # "exit"
    PROVE  w = 1
BY DEF SerialOK, EvalWorkers, Workers

\* Requests that are taken stand in the queue's history up to Taken.
LEMMA BegunPlaces ==
    ASSUME TypeOK, QueueInv, AdmittedOnce, NEW r \in Begun
    PROVE  \E k \in 1 .. Taken : k \in DOMAIN accepted /\ accepted[k] = r /\ Place(r) = k
<1>1. /\ accepted \in Seq(Requests) /\ Len(evalQ) \in Nat /\ Len(accepted) \in Nat
      /\ DOMAIN accepted = 1 .. Len(accepted)
  BY DEF TypeOK
<1>2. 1 .. Taken \subseteq DOMAIN accepted
  BY <1>1 DEF Taken, QueueInv
<1>3. PICK k \in 1 .. Taken : accepted[k] = r
  BY DEF Begun
<1>4. Place(r) = k
  BY <1>2, <1>3, PlaceOf DEF Place, AdmittedOnce
<1>. QED
  BY <1>2, <1>3, <1>4

\* A place in the history of the queue is for good.
LEMMA PlaceKept ==
    ASSUME TypeOK, QueueInv, AdmittedOnce, AdmittedOnce', NEW r \in Begun,
           \A i \in DOMAIN accepted : i \in DOMAIN accepted' /\ accepted'[i] = accepted[i]
    PROVE  Place(r)' = Place(r)
<1>1. PICK k \in DOMAIN accepted : accepted[k] = r /\ Place(r) = k
  BY BegunPlaces
<1>2. k \in DOMAIN accepted' /\ accepted'[k] = r
  BY <1>1
<1>3. \A i, j \in DOMAIN accepted' : accepted'[i] = accepted'[j] => i = j
  BY DEF AdmittedOnce
<1>4. (CHOOSE i \in DOMAIN accepted' : accepted'[i] = accepted'[k]) = k
  BY <1>2, <1>3, PlaceOf
<1>. QED
  BY <1>1, <1>2, <1>4 DEF Place

\* What is evaluated stays in order while no batch is evaluated.
LEMMA OrderKept ==
    ASSUME TypeOK, PlaceInv, PlaceInv', order' = order,
           \A i \in DOMAIN order : order[i][1] \in Begun, InOrder, Begun \subseteq Begun',
           \A i \in DOMAIN accepted : i \in DOMAIN accepted' /\ accepted'[i] = accepted[i]
    PROVE  InOrder' /\ \A i \in DOMAIN order' : order'[i][1] \in Begun'
<1>1. \A i \in DOMAIN order : Place(order[i][1])' = Place(order[i][1])
  <2>1. SUFFICES ASSUME NEW i \in DOMAIN order PROVE Place(order[i][1])' = Place(order[i][1])
    OBVIOUS
  <2>2. PICK r \in Begun : r = order[i][1]
    OBVIOUS
  <2>3. Place(r)' = Place(r)
    BY PlaceKept DEF PlaceInv
  <2>. QED
    BY <2>2, <2>3 DEF Place
<1>2. \A i \in DOMAIN order' : order'[i][1] \in Begun'
  OBVIOUS
<1>3. InOrder'
  BY <1>1 DEF InOrder, Place
<1>. QED
  BY <1>2, <1>3

LEMMA DedupeStep ==
    ASSUME AgentAssumption, PoolInv, PlaceInv, PlaceInv', DedupeInv, [Next]_vars
    PROVE  DedupeInv'
<1>0. /\ TypeOK /\ SerialOK /\ TasksOK
      /\ wpc \in [Workers -> {"pop", "serial", "check", "eval", "using", "threw", "push",
                              "ack", "exit"}]
      /\ accepted \in Seq(Requests) /\ order \in Seq(Items) /\ config' = config
  <2>1. config' = config
    BY WorkerFrame DEF PoolInv, Next, Post, PostRefused, Sink, SinkPop, SinkExit, SinkWrite,
       SinkDone, SinkThrows, Stop, Shutdown, ListenReturns, JoinEval, JoinSink, Ended, vars
  <2>. QED
    BY <2>1 DEF PoolInv, TypeOK
<1>. SUFFICES ASSUME config.dedupe
              PROVE  /\ \A w \in Workers : Busy(w)' => Taken' > 0 /\ job'[w].request = accepted'[Taken']
                     /\ \A i \in DOMAIN order' : order'[i][1] \in Begun'
                     /\ InOrder'
  BY <1>0 DEF DedupeInv
<1>1. /\ \A w \in Workers : Busy(w) => Taken > 0 /\ job[w].request = accepted[Taken]
      /\ \A i \in DOMAIN order : order[i][1] \in Begun
      /\ InOrder
  BY DEF DedupeInv
<1>2. ASSUME UNCHANGED <<accepted, evalQ, order>>,
             \A w \in Workers : Busy(w)' => Busy(w) /\ job'[w].request = job[w].request
      PROVE  /\ \A w \in Workers : Busy(w)' => Taken' > 0 /\ job'[w].request = accepted'[Taken']
             /\ \A i \in DOMAIN order' : order'[i][1] \in Begun'
             /\ InOrder'
  <2>1. Taken' = Taken /\ Begun' = Begun
    BY <1>2 DEF Taken, Begun
  <2>. QED
    BY <1>0, <1>1, <1>2, <2>1, OrderKept
<1>3. ASSUME NEW w \in Workers, Worker(w), ~WorkerPop(w)
      PROVE  /\ UNCHANGED <<accepted, evalQ>>
             /\ \A v \in Workers : Busy(v)' => Busy(v) /\ job'[v].request = job[v].request
  <2>1. \A v \in Workers \ {w} : wpc'[v] = wpc[v] /\ job'[v] = job[v]
    BY <1>0, <1>3, WorkerFrame
  <2>2. CASE GoesOn(w)
    BY <1>0, <2>1, <2>2, GoingOn DEF Busy
  <2>3. CASE ~GoesOn(w)
    <3>1. /\ UNCHANGED <<accepted, evalQ>>
          /\ wpc'[w] \in {"pop", "exit"} \/ (wpc[w] = "push" /\ job' = job)
      BY <1>0, <1>3, <2>3 DEF Worker, GoesOn, WorkerExit, Threw, CompleteDisabled, Push,
         PushRefused, Ack, EndTask, requestVars, evalQVars
    <3>. QED
      BY <2>1, <3>1 DEF Busy
  <2>. QED
    BY <2>2, <2>3
<1>4. CASE \E w \in Workers : WorkerPop(w)
  <2>1. PICK w \in Workers : WorkerPop(w)
    BY <1>4
  <2>2. /\ evalQ # <<>> /\ evalQ' = Tail(evalQ) /\ UNCHANGED <<accepted, order>>
        /\ job'[w].request = Head(evalQ) /\ wpc[w] = "pop"
    BY <1>0, <2>1 DEF WorkerPop, requestVars, historyVars, NoJob, TypeOK
  <2>3. /\ Taken' = Taken + 1 /\ Taken + 1 \in DOMAIN accepted
        /\ Head(evalQ) = accepted[Taken + 1] /\ Begun' = Begun \cup {Head(evalQ)}
    BY <1>0, <2>2, TakeNext DEF PlaceInv
  <2>4. InOrder' /\ \A i \in DOMAIN order' : order'[i][1] \in Begun'
    BY <1>0, <1>1, <2>2, <2>3, OrderKept
  <2>5. \A v \in Workers \ {w} : ~Busy(v)'
    <3>1. \A v \in Workers \ {w} : wpc'[v] = wpc[v]
      BY <1>0, <2>1, WorkerFrame DEF Worker
    <3>2. \A v \in Workers \ {w} : wpc[v] = "exit"
      BY <1>0, <2>2, OneEvaluator
    <3>. QED
      BY <3>1, <3>2 DEF Busy
  <2>6. Taken' > 0
    BY <1>0, <2>3
  <2>. QED
    BY <2>2, <2>3, <2>4, <2>5, <2>6
<1>5. CASE \E w \in Workers : Evaluate(w)
  <2>1. PICK w \in Workers : Evaluate(w)
    BY <1>5
  <2>2. /\ order' = Append(order, NextItem(w)) /\ NextItem(w)[1] = job[w].request
        /\ Busy(w) /\ NextItem(w) \in Items
    BY <1>0, <2>1, NextFacts DEF Evaluate, NextItem, Busy
  <2>3. /\ UNCHANGED <<accepted, evalQ>>
        /\ \A v \in Workers : Busy(v)' => Busy(v) /\ job'[v].request = job[v].request
    <3>1. Worker(w) /\ ~WorkerPop(w)
      BY <2>1 DEF Worker, Evaluate, WorkerPop
    <3>. QED
      BY <1>3, <3>1
  <2>4. Taken' = Taken /\ Begun' = Begun
    BY <2>3 DEF Taken, Begun
  <2>5. /\ NextItem(w)[1] \in Begun /\ NextItem(w)[1] = accepted[Taken] /\ Taken > 0
    BY <1>0, <1>1, <2>2, BusyBegun
  <2>6. Place(NextItem(w)[1]) = Taken
    <3>1. PICK k \in 1 .. Taken : /\ k \in DOMAIN accepted /\ accepted[k] = NextItem(w)[1]
                                  /\ Place(NextItem(w)[1]) = k
      BY <1>0, <2>5, BegunPlaces DEF PlaceInv
    <3>2. Taken \in DOMAIN accepted
      BY <1>0, <2>5 DEF Taken, PlaceInv, QueueInv, TypeOK
    <3>. QED
      BY <2>5, <3>1, <3>2 DEF PlaceInv, AdmittedOnce
  <2>7. \A r \in Begun : Place(r) \in Int /\ Place(r) <= Taken
    <3>1. Taken \in Int
      BY <1>0 DEF Taken, TypeOK
    <3>. QED
      BY <1>0, <3>1, BegunPlaces DEF PlaceInv
  <2>8. /\ DOMAIN order' = 1 .. Len(order) + 1 /\ Len(order) \in Nat
        /\ DOMAIN order = 1 .. Len(order)
        /\ order'[Len(order) + 1] = NextItem(w)
        /\ \A i \in DOMAIN order : order'[i] = order[i]
    BY <1>0, <2>2
  <2>9. \A i \in DOMAIN order' : i \in DOMAIN order \/ i = Len(order) + 1
    BY <2>8
  <2>10. \A i \in DOMAIN order' : order'[i][1] \in Begun
    BY <1>1, <2>5, <2>8, <2>9
  <2>11. ASSUME NEW i \in DOMAIN order', NEW j \in DOMAIN order', i < j
         PROVE  Place(order'[i][1]) <= Place(order'[j][1])
    <3>1. i \in DOMAIN order
      BY <2>8, <2>11
    <3>2. CASE j \in DOMAIN order
      BY <1>1, <2>8, <2>11, <3>1, <3>2 DEF InOrder
    <3>3. CASE j = Len(order) + 1
      BY <2>6, <2>7, <2>8, <2>10, <3>3
    <3>. QED
      BY <2>9, <3>2, <3>3
  <2>12. \A r : Place(r)' = Place(r)
    BY <2>3 DEF Place
  <2>13. InOrder'
    BY <2>3, <2>11 DEF InOrder, Place
  <2>. QED
    BY <1>1, <2>3, <2>4, <2>10, <2>13
<1>6. ASSUME NEW w \in Workers, Worker(w), ~WorkerPop(w), ~Evaluate(w)
      PROVE  order' = order
  BY <1>6 DEF Worker, WorkerExit, LockSerial, CheckPool, DropDuplicate, Acquire,
     EvaluateThrows, Threw, FinishRequest, CompleteDisabled, Push, PushRefused, Ack,
     historyVars
<1>7. ASSUME NEW r \in Requests, Post(r)
      PROVE  /\ \A w \in Workers : Busy(w)' => Taken' > 0 /\ job'[w].request = accepted'[Taken']
             /\ \A i \in DOMAIN order' : order'[i][1] \in Begun'
             /\ InOrder'
  <2>1. /\ UNCHANGED <<order, wpc, job>> /\ evalQ' = Append(evalQ, r)
        /\ accepted' = Append(accepted, r)
    BY <1>7 DEF Post, historyVars, workerVars
  <2>2. /\ Taken' = Taken /\ Begun' = Begun
        /\ \A i \in DOMAIN accepted : accepted'[i] = accepted[i]
    BY <1>0, <2>1, QueueNext DEF PlaceInv
  <2>3. \A i \in DOMAIN accepted : i \in DOMAIN accepted' /\ accepted'[i] = accepted[i]
    BY <1>0, <2>1, <2>2
  <2>4. Taken > 0 => Taken \in DOMAIN accepted
    BY <1>0 DEF Taken, PlaceInv, QueueInv, TypeOK
  <2>5. InOrder' /\ \A i \in DOMAIN order' : order'[i][1] \in Begun'
    BY <1>0, <1>1, <2>1, <2>2, <2>3, OrderKept
  <2>6. \A w \in Workers : Busy(w)' => Busy(w) /\ job'[w].request = job[w].request
    BY <2>1 DEF Busy
  <2>. QED
    BY <1>1, <2>2, <2>3, <2>4, <2>5, <2>6
<1>8. CASE \/ \E r \in Requests : PostRefused(r)
           \/ \E s \in Sinks : Sink(s)
           \/ Stop \/ Shutdown \/ UNCHANGED vars
  <2>1. UNCHANGED <<accepted, evalQ, order, wpc, job>>
    BY <1>8 DEF PostRefused, Sink, SinkPop, SinkExit, SinkWrite, SinkDone, SinkThrows, Stop,
       Shutdown, ListenReturns, JoinEval, JoinSink, vars, requestVars, evalQVars, workerVars,
       historyVars
  <2>. QED
    BY <1>2, <2>1 DEF Busy
<1>9. ASSUME NEW w \in Workers, Worker(w), ~WorkerPop(w), ~Evaluate(w)
      PROVE  /\ \A v \in Workers : Busy(v)' => Taken' > 0 /\ job'[v].request = accepted'[Taken']
             /\ \A i \in DOMAIN order' : order'[i][1] \in Begun'
             /\ InOrder'
  BY <1>2, <1>3, <1>6, <1>9
<1>. QED
  BY <1>4, <1>5, <1>7, <1>8, <1>9 DEF Next, Ended

\* With deduplication the requests are evaluated in the order they were queued in: run_http
\* starts one evaluator, whatever eval_shards says, and each is done before the next.
THEOREM DedupeIsInOrder == Spec => []DedupeInOrder
<1>1. Init => DedupeInv
  BY DEF Init, DedupeInv, InOrder, Busy
<1>2. /\ PoolInv /\ PlaceInv /\ PlaceInv' /\ DedupeInv /\ [Next]_vars => DedupeInv'
  BY DedupeStep, AgentAssumption
<1>3. DedupeInv => DedupeInOrder
  BY DEF DedupeInv, DedupeInOrder
<1>. QED
  BY <1>1, <1>2, <1>3, PoolInvariant, PlaceInvariant, PTL DEF Spec
=============================================================================
