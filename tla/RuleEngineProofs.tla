-------------------------- MODULE RuleEngineProofs ---------------------------
(***************************************************************************)
(* Theorems about RuleEngine, for any number of workers, loaders, shards,  *)
(* rules files and bounds: its locks and batches, and what a reload does   *)
(* to the engine and its shards: a failed one takes no rules away, the     *)
(* rules in force fit the schema, and one that succeeds reaches every      *)
(* shard.                                                                  *)
(***************************************************************************)
EXTENDS RuleEngineInv, SequenceTheorems, TLAPS

USE EngineAssumption DEF Main

-----------------------------------------------------------------------------
(* Type correctness.                                                       *)

\* The job of a thread that is in no call.
LEMMA NoJobTyped == NoJob \in Jobs
BY DEF NoJob, Jobs, Engines

\* A step to another label keeps the types of the thread's state.
LEMMA GoTyped ==
    ASSUME TypeOK, NEW t \in Threads, NEW l \in Labels, Go(t, l)
    PROVE  pc' \in [Threads -> Labels] /\ job' \in [Threads -> Jobs]
BY DEF TypeOK, Go

\* So does a step that also assigns the local variables,
LEMMA LocalTyped ==
    ASSUME TypeOK, NEW t \in Threads, NEW l \in Labels, NEW j \in Jobs, Local(t, j, l)
    PROVE  pc' \in [Threads -> Labels] /\ job' \in [Threads -> Jobs]
BY DEF TypeOK, Local

\* and the end of a call.
LEMMA ReturnTyped ==
    ASSUME TypeOK, NEW t \in Threads, Return(t)
    PROVE  pc' \in [Threads -> Labels] /\ job' \in [Threads -> Jobs]
BY NoJobTyped DEF TypeOK, Return, Rest, Labels

\* A load that fails returns or goes on to clear the rules.
LEMMA FailTyped ==
    ASSUME TypeOK, NEW t \in Threads, Fail(t)
    PROVE  pc' \in [Threads -> Labels] /\ job' \in [Threads -> Jobs]
<1>1. CASE t = Watcher /\ ~KeepPrevious
  BY <1>1, NoJobTyped, LocalTyped DEF Fail, Labels
<1>2. CASE ~(t = Watcher /\ ~KeepPrevious)
  BY <1>2, ReturnTyped DEF Fail
<1>. QED
  BY <1>1, <1>2

\* A batch that leaves gives its engine's lock back.
LEMMA LeaveTyped ==
    ASSUME TypeOK, NEW w \in Workers, Leave(w)
    PROVE  /\ pc' \in [Threads -> Labels] /\ job' \in [Threads -> Jobs]
           /\ lock' \in [Engines -> Threads \cup {None}]
<1>1. w \in Threads
  BY DEF Threads
<1>. QED
  BY <1>1, ReturnTyped DEF Leave, TypeOK

\* Appending an array_any field leaves a schema.
LEMMA GrownTyped ==
    ASSUME NEW sch \in Schemas, NEW c \in Contents
    PROVE  Grown(sch, c) \in Schemas
<1>1. CASE c \in Growing /\ sch.from # c /\ \A i \in DOMAIN sch.grown : sch.grown[i] # c
  <2>1. Append(sch.grown, c) \in Seq(Growing)
    BY <1>1, AppendProperties DEF Schemas
  <2>. QED
    BY <1>1, <2>1 DEF Grown, Schemas
<1>2. CASE ~(c \in Growing /\ sch.from # c /\ \A i \in DOMAIN sch.grown : sch.grown[i] # c)
  BY <1>2 DEF Grown
<1>. QED
  BY <1>1, <1>2

\* Installing a ruleset keeps the types.
LEMMA InstallTyped ==
    ASSUME TypeOK, NEW t \in Threads, NEW e \in Engines, NEW rs \in Rulesets, Install(t, e, rs)
    PROVE  /\ pc' \in [Threads -> Labels] /\ job' \in [Threads -> Jobs]
           /\ rules' \in [Engines -> Rulesets \cup {None}]
           /\ configured' \in [Engines -> Rulesets \cup {None}]
<1>. DEFINE j == [job[t] EXCEPT !.rules = rs, !.next = 1,
                                !.end = IF e = Main THEN shards ELSE 0]
<1>1. j \in Jobs
  <2>1. job[t] \in Jobs /\ shards \in 0 .. MaxShards
    BY DEF TypeOK
  <2>2. 1 \in 1 .. MaxShards + 1 /\ 0 \in 0 .. MaxShards
    OBVIOUS
  <2>3. (IF e = Main THEN shards ELSE 0) \in 0 .. MaxShards
    BY <2>1, <2>2
  <2>. QED
    BY <2>1, <2>2, <2>3 DEF Jobs
<1>2. Local(t, j, "install")
  BY DEF Install
<1>3. pc' \in [Threads -> Labels] /\ job' \in [Threads -> Jobs]
  <2>. HIDE DEF j
  <2>. QED
    BY <1>1, <1>2, LocalTyped DEF Labels
<1>. QED
  BY <1>3 DEF Install, TypeOK

\* Init gives every variable its type.
LEMMA InitTyped == Init => TypeOK
<1>. SUFFICES ASSUME Init PROVE TypeOK
  OBVIOUS
<1>1. DeclaredSchema \in Schemas
  BY DEF DeclaredSchema, Schemas
<1>2. schema \in [Engines -> Schemas \cup {None}]
  BY <1>1 DEF Init
<1>3. job \in [Threads -> Jobs]
  BY NoJobTyped DEF Init
<1>4. pc \in [Threads -> Labels]
  BY DEF Init, Labels
<1>5. file \in [content : Contents \cup {Absent}, stamp : 0 .. MaxWrites]
  BY DEF Init
<1>. QED
  BY <1>2, <1>3, <1>4, <1>5 DEF Init, TypeOK

\* Every step keeps the types.
LEMMA StepTyped == EngineInv /\ [Next]_vars => TypeOK'
<1>. SUFFICES ASSUME EngineInv, [Next]_vars PROVE TypeOK'
  OBVIOUS
<1>0. TypeOK
  BY DEF EngineInv
<1>. USE <1>0
<1>1. ASSUME NEW w \in Workers, StartBatch(w) PROVE TypeOK'
  <2>1. w \in Threads
    BY DEF Threads
  <2>2. PICK e \in Engines, s \in Samples :
            Local(w, [NoJob EXCEPT !.engine = e, !.sample = s],
                  IF e = Main THEN "enter" ELSE "ensure")
    BY <1>1 DEF StartBatch
  <2>3. [NoJob EXCEPT !.engine = e, !.sample = s] \in Jobs
    BY NoJobTyped DEF Jobs
  <2>4. (IF e = Main THEN "enter" ELSE "ensure") \in Labels
    BY DEF Labels
  <2>5. pc' \in [Threads -> Labels] /\ job' \in [Threads -> Jobs]
    BY <2>1, <2>2, <2>3, <2>4, LocalTyped
  <2>. QED
    BY <1>1, <2>5 DEF StartBatch, TypeOK, engineVars
<1>2. ASSUME NEW w \in Workers, EnsureShards(w) PROVE TypeOK'
  <2>1. w \in Threads
    BY DEF Threads
  <2>2. CASE job[w].engine <= shards
    BY <1>2, <2>1, <2>2, GoTyped DEF EnsureShards, TypeOK, Labels
  <2>3. CASE ~(job[w].engine <= shards)
    <3>1. [job[w] EXCEPT !.rules = rules[Main]] \in Jobs
      <4>1. job[w] \in Jobs
        BY <2>1 DEF TypeOK
      <4>2. rules[Main] \in Rulesets \cup {None}
        BY DEF TypeOK, Engines
      <4>. QED
        BY <4>1, <4>2 DEF Jobs
    <3>2. Local(w, [job[w] EXCEPT !.rules = rules[Main]], "grow")
      BY <1>2, <2>3 DEF EnsureShards
    <3>3. pc' \in [Threads -> Labels] /\ job' \in [Threads -> Jobs]
      BY <2>1, <3>1, <3>2, LocalTyped DEF Labels
    <3>. QED
      BY <1>2, <2>1, <2>3, <3>3 DEF EnsureShards, TypeOK
  <2>. QED
    BY <2>2, <2>3
<1>3. ASSUME NEW w \in Workers, GrowShards(w) PROVE TypeOK'
  <2>1. w \in Threads
    BY DEF Threads
  <2>2. [job[w] EXCEPT !.rules = None] \in Jobs
    <3>1. job[w] \in Jobs
      BY <2>1 DEF TypeOK
    <3>. QED
      BY <3>1 DEF Jobs
  <2>3. pc' \in [Threads -> Labels] /\ job' \in [Threads -> Jobs]
    BY <1>3, <2>1, <2>2, LocalTyped DEF GrowShards, Labels
  <2>4. job[w].rules \in Rulesets \cup {None} /\ job[w].engine \in 0 .. MaxShards
    BY <2>1 DEF TypeOK, Jobs, Engines
  <2>. DEFINE new == shards + 1 .. job[w].engine
  <2>5. /\ schema' \in [Engines -> Schemas \cup {None}]
        /\ pending' \in [Engines -> Contents \cup {None}]
        /\ rules' \in [Engines -> Rulesets \cup {None}]
        /\ configured' \in [Engines -> Rulesets \cup {None}]
    <3>1. Main \in Engines
      BY DEF Engines
    <3>2. schema[Main] \in Schemas \cup {None} /\ pending[Main] \in Contents \cup {None}
      BY <3>1 DEF TypeOK
    <3>3. /\ schema' = [e \in Engines |-> IF e \in new THEN schema[Main] ELSE schema[e]]
          /\ pending' = [e \in Engines |-> IF e \in new THEN pending[Main] ELSE pending[e]]
          /\ rules' = [e \in Engines |-> IF e \in new THEN job[w].rules ELSE rules[e]]
          /\ configured' = [e \in Engines |-> IF e \in new THEN job[w].rules ELSE configured[e]]
      BY <1>3 DEF GrowShards
    <3>. HIDE DEF new
    <3>4. schema' \in [Engines -> Schemas \cup {None}]
      BY <3>2, <3>3 DEF TypeOK
    <3>5. pending' \in [Engines -> Contents \cup {None}]
      BY <3>2, <3>3 DEF TypeOK
    <3>6. rules' \in [Engines -> Rulesets \cup {None}]
      BY <2>4, <3>3 DEF TypeOK
    <3>7. configured' \in [Engines -> Rulesets \cup {None}]
      BY <2>4, <3>3 DEF TypeOK
    <3>. QED
      BY <3>4, <3>5, <3>6, <3>7
  <2>6. lock' \in [Engines -> Threads \cup {None}]
    BY <1>3 DEF GrowShards, TypeOK
  <2>. QED
    BY <1>3, <2>3, <2>4, <2>5, <2>6 DEF GrowShards, TypeOK
<1>4. ASSUME NEW w \in Workers, FetchShard(w) PROVE TypeOK'
  <2>1. w \in Threads
    BY DEF Threads
  <2>2. pc' \in [Threads -> Labels] /\ job' \in [Threads -> Jobs]
    BY <1>4, <2>1, GoTyped DEF FetchShard, Labels
  <2>. QED
    BY <1>4, <2>2 DEF FetchShard, TypeOK, engineVars
<1>5. ASSUME NEW w \in Workers, Enter(w) PROVE TypeOK'
  <2>1. w \in Threads
    BY DEF Threads
  <2>2. pc' \in [Threads -> Labels] /\ job' \in [Threads -> Jobs]
    BY <1>5, <2>1, GoTyped DEF Enter, Labels
  <2>. QED
    BY <1>5, <2>1, <2>2 DEF Enter, TypeOK
<1>6. ASSUME NEW w \in Workers, EnsureSchemaBound(w) PROVE TypeOK'
  <2>1. w \in Threads
    BY DEF Threads
  <2>2. job[w].engine \in Engines /\ job[w].sample \in Samples \cup {None}
    BY <2>1 DEF TypeOK, Jobs
  <2>. DEFINE e == job[w].engine
  <2>3. CASE schema[e] # None /\ Go(w, "observe") /\ UNCHANGED <<lock, schema>>
    BY <1>6, <2>1, <2>3, GoTyped DEF EnsureSchemaBound, TypeOK, Labels
  <2>4. CASE Leave(w) /\ UNCHANGED schema
    BY <1>6, <2>4, LeaveTyped DEF EnsureSchemaBound, TypeOK
  <2>5. CASE /\ pending[e] # None
             /\ schema' = [schema EXCEPT ![e] = Inferred(pending[e], job[w].sample)]
             /\ Go(w, "compile") /\ UNCHANGED lock
    <3>1. Inferred(pending[e], job[w].sample) \in Schemas
      BY <2>2 DEF Inferred, Schemas, TypeOK
    <3>. QED
      BY <1>6, <2>1, <2>2, <2>5, <3>1, GoTyped DEF EnsureSchemaBound, TypeOK, Labels
  <2>. QED
    BY <1>6, <2>3, <2>4, <2>5 DEF EnsureSchemaBound
<1>7. ASSUME NEW w \in Workers, CompilePending(w) PROVE TypeOK'
  <2>. DEFINE e == job[w].engine
  <2>1. w \in Threads /\ e \in Engines
    BY DEF Threads, TypeOK, Jobs
  <2>2. CASE Leave(w) /\ UNCHANGED <<rules, configured, pending>>
    BY <1>7, <2>2, LeaveTyped DEF CompilePending, TypeOK
  <2>3. CASE /\ Install(w, e, Ruleset(pending[e], schema[e]))
             /\ pending' = [pending EXCEPT ![e] = None]
             /\ UNCHANGED lock
    <3>1. Ruleset(pending[e], schema[e]) \in Rulesets
      BY <1>7, <2>1 DEF CompilePending, EngineInv, WorkerSafe, TypeOK, Ruleset, Rulesets
    <3>. QED
      BY <1>7, <2>1, <2>3, <3>1, InstallTyped DEF CompilePending, TypeOK
  <2>. QED
    BY <1>7, <2>2, <2>3 DEF CompilePending
<1>8. ASSUME NEW w \in Workers, Observe(w) PROVE TypeOK'
  <2>. DEFINE e == job[w].engine
  <2>1. w \in Threads /\ e \in Engines
    BY DEF Threads, TypeOK, Jobs
  <2>2. pc' \in [Threads -> Labels] /\ job' \in [Threads -> Jobs]
    <3>1. CASE rules[e] = None
      BY <1>8, <2>1, <3>1, GoTyped DEF Observe, Labels
    <3>2. CASE rules[e] # None
      <4>1. job[w] \in Jobs /\ rules[e] \in Rulesets \cup {None}
        BY <2>1 DEF TypeOK
      <4>2. [job[w] EXCEPT !.rules = rules[e]] \in Jobs
        BY <4>1 DEF Jobs
      <4>. QED
        BY <1>8, <2>1, <3>2, <4>2, LocalTyped DEF Observe, Labels
    <3>. QED
      BY <3>1, <3>2
  <2>. QED
    BY <1>8, <2>2 DEF Observe, TypeOK, engineVars
<1>9. ASSUME NEW w \in Workers, FinishBatch(w) PROVE TypeOK'
  BY <1>9, LeaveTyped DEF FinishBatch, TypeOK
<1>10. ASSUME NEW l \in Loaders, StartLoad(l) PROVE TypeOK'
  <2>1. l \in Threads
    BY DEF Threads
  <2>2. pc' \in [Threads -> Labels] /\ job' \in [Threads -> Jobs]
    BY <1>10, <2>1, GoTyped DEF StartLoad, Labels
  <2>. QED
    BY <1>10, <2>2 DEF StartLoad, TypeOK, engineVars
<1>11. ASSUME NEW t \in Loaders \cup {Watcher}, Parse(t) PROVE TypeOK'
  <2>1. t \in Threads
    BY DEF Threads
  <2>2. pc' \in [Threads -> Labels] /\ job' \in [Threads -> Jobs]
    <3>1. CASE file.content \in Broken \cup {Absent}
      BY <1>11, <2>1, <3>1, FailTyped DEF Parse
    <3>2. CASE file.content \notin Broken \cup {Absent}
      <4>1. file.content \in Contents
        BY <3>2 DEF TypeOK
      <4>2. [NoJob EXCEPT !.content = file.content] \in Jobs
        BY <4>1, NoJobTyped DEF Jobs
      <4>. QED
        BY <1>11, <2>1, <3>2, <4>2, LocalTyped DEF Parse, Labels
    <3>. QED
      BY <3>1, <3>2
  <2>. QED
    BY <1>11, <2>2 DEF Parse, TypeOK, engineVars
<1>12. ASSUME NEW t \in Loaders \cup {Watcher}, InstallOrDefer(t) PROVE TypeOK'
  <2>1. t \in Threads
    BY DEF Threads
  <2>2. job[t].content \in Contents \cup {None}
    BY <2>1 DEF TypeOK, Jobs
  <2>3. CASE schema[Main] = None
    BY <1>12, <2>1, <2>2, <2>3, ReturnTyped DEF InstallOrDefer, TypeOK
  <2>4. CASE schema[Main] # None
    <3>1. pc' \in [Threads -> Labels] /\ job' \in [Threads -> Jobs]
      BY <1>12, <2>1, <2>4, GoTyped DEF InstallOrDefer, Labels
    <3>. QED
      BY <1>12, <2>1, <2>4, <3>1 DEF InstallOrDefer, TypeOK
  <2>. QED
    BY <2>3, <2>4
<1>13. ASSUME NEW t \in Loaders \cup {Watcher}, BuildRules(t) PROVE TypeOK'
  <2>. DEFINE c == job[t].content
              sch == Grown(schema[Main], c)
  <2>1. t \in Threads /\ Main \in Engines
    BY DEF Threads, Engines
  <2>2. c \in Contents /\ schema[Main] \in Schemas
    BY <1>13, <2>1 DEF BuildRules, EngineInv, LoaderSafe, TypeOK, Jobs
  <2>3. sch \in Schemas
    BY <2>2, GrownTyped
  <2>4. Ruleset(c, sch) \in Rulesets
    BY <2>2, <2>3 DEF Ruleset, Rulesets
  <2>5. CASE /\ schema' = [schema EXCEPT ![Main] = sch]
             /\ Install(t, Main, Ruleset(c, sch))
             /\ UNCHANGED lock
    <3>. HIDE DEF sch, c
    <3>1. schema' \in [Engines -> Schemas \cup {None}]
      BY <2>3, <2>5 DEF TypeOK
    <3>. QED
      BY <1>13, <2>1, <2>4, <2>5, <3>1, InstallTyped DEF BuildRules, TypeOK
  <2>6. CASE /\ lock' = [lock EXCEPT ![Main] = None]
             /\ Fail(t)
             /\ UNCHANGED <<schema, rules, configured>>
    BY <1>13, <2>1, <2>6, FailTyped DEF BuildRules, TypeOK
  <2>. QED
    BY <1>13, <2>5, <2>6 DEF BuildRules
<1>14. ASSUME NEW t \in Threads, InstallShard(t) PROVE TypeOK'
  <2>. DEFINE i == job[t].next
  <2>1. job[t] \in Jobs
    BY DEF TypeOK
  <2>2. i \in 1 .. MaxShards /\ job[t].rules \in Rulesets \cup {None}
    BY <1>14, <2>1 DEF InstallShard, Jobs
  <2>3. [job[t] EXCEPT !.next = i + 1] \in Jobs
    BY <2>1, <2>2 DEF Jobs
  <2>4. pc' \in [Threads -> Labels] /\ job' \in [Threads -> Jobs]
    BY <1>14, <2>3, LocalTyped DEF InstallShard, Labels
  <2>. QED
    BY <1>14, <2>2, <2>4 DEF InstallShard, TypeOK
<1>15. ASSUME NEW t \in Threads, FinishInstall(t) PROVE TypeOK'
  <2>1. job[t] \in Jobs
    BY DEF TypeOK
  <2>2. CASE t \in Workers
    <3>1. [job[t] EXCEPT !.rules = None] \in Jobs
      BY <2>1 DEF Jobs
    <3>2. pc' \in [Threads -> Labels] /\ job' \in [Threads -> Jobs]
      BY <1>15, <2>2, <3>1, LocalTyped DEF FinishInstall, Labels
    <3>. QED
      BY <1>15, <2>2, <3>2 DEF FinishInstall, TypeOK
  <2>3. CASE t \notin Workers
    <3>1. job[t].content \in Contents \cup {None}
      BY <2>1 DEF Jobs
    <3>. QED
      BY <1>15, <2>3, <3>1, ReturnTyped DEF FinishInstall, TypeOK
  <2>. QED
    BY <2>2, <2>3
<1>16. ASSUME StartWatch \/ StopWatch \/ PollExists PROVE TypeOK'
  <2>1. Watcher \in Threads
    BY DEF Threads
  <2>2. pc' \in [Threads -> Labels] /\ job' \in [Threads -> Jobs]
    BY <1>16, <2>1, GoTyped DEF StartWatch, StopWatch, PollExists, Labels
  <2>3. last' \in -1 .. MaxWrites
    BY <1>16 DEF StartWatch, StopWatch, PollExists, TypeOK
  <2>. QED
    BY <1>16, <2>2, <2>3 DEF StartWatch, StopWatch, PollExists, TypeOK, engineVars
<1>17. ASSUME PollStamp PROVE TypeOK'
  <2>1. Watcher \in Threads
    BY DEF Threads
  <2>2. CASE file.content = Absent
    BY <1>17, <2>2 DEF PollStamp, TypeOK, engineVars, Labels
  <2>3. CASE file.content # Absent
    <3>1. (IF file.stamp # last THEN "parse" ELSE "sleeping") \in Labels
      BY DEF Labels
    <3>2. pc' \in [Threads -> Labels] /\ job' \in [Threads -> Jobs]
      BY <1>17, <2>1, <2>3, <3>1, GoTyped DEF PollStamp
    <3>. QED
      BY <1>17, <2>3, <3>2 DEF PollStamp, TypeOK, engineVars
  <2>. QED
    BY <2>2, <2>3
<1>18. ASSUME ClearMain PROVE TypeOK'
  <2>1. Watcher \in Threads
    BY DEF Threads
  <2>2. [NoJob EXCEPT !.end = shards] \in Jobs
    BY NoJobTyped DEF Jobs, TypeOK
  <2>3. pc' \in [Threads -> Labels] /\ job' \in [Threads -> Jobs]
    BY <1>18, <2>1, <2>2, LocalTyped DEF ClearMain, Labels
  <2>. QED
    BY <1>18, <2>3 DEF ClearMain, TypeOK
<1>19. ASSUME ClearShard PROVE TypeOK'
  <2>. DEFINE i == job[Watcher].next
  <2>1. Watcher \in Threads /\ job[Watcher] \in Jobs
    BY DEF Threads, TypeOK
  <2>2. i \in 1 .. MaxShards
    BY <1>19, <2>1 DEF ClearShard, Jobs
  <2>3. [job[Watcher] EXCEPT !.next = i + 1] \in Jobs
    BY <2>1, <2>2 DEF Jobs
  <2>4. pc' \in [Threads -> Labels] /\ job' \in [Threads -> Jobs]
    BY <1>19, <2>1, <2>3, LocalTyped DEF ClearShard, Labels
  <2>. QED
    BY <1>19, <2>4 DEF ClearShard, TypeOK
<1>20. ASSUME FinishClear PROVE TypeOK'
  <2>1. Watcher \in Threads
    BY DEF Threads
  <2>. QED
    BY <1>20, <2>1, ReturnTyped DEF FinishClear, TypeOK, engineVars
<1>21. ASSUME WriteFile PROVE TypeOK'
  BY <1>21 DEF WriteFile, TypeOK, engineVars
<1>22. CASE UNCHANGED vars
  BY <1>22 DEF vars, engineVars, TypeOK
<1>23. ASSUME NEW t \in Threads, InstallOnUnbound(t) PROVE TypeOK'
  BY <1>23 DEF InstallOnUnbound, TypeOK, engineVars, Labels
<1>. QED
  BY <1>1, <1>2, <1>3, <1>4, <1>5, <1>6, <1>7, <1>8, <1>9, <1>10, <1>11, <1>12, <1>13, <1>14,
     <1>15, <1>16, <1>17, <1>18, <1>19, <1>20, <1>21, <1>22, <1>23
     DEF Next, Batch, Load, Spread, Poll, Clear, Terminated

-----------------------------------------------------------------------------
(* A batch keeps its rules.                                                *)

\* What a step of t leaves the others: their own state, the locks they hold,
\* and everything of an engine that is behind such a lock.
Frame(t) ==
    /\ \A u \in Threads \ {t} : pc'[u] = pc[u] /\ job'[u] = job[u]
    /\ \A e \in Engines : lock[e] \notin {None, t} => lock'[e] = lock[e]
    /\ \A e \in Engines : lock[e] \notin {None, t} /\ e <= shards =>
          /\ configured'[e] = configured[e]
          /\ rules'[e] = rules[e]
          /\ pending'[e] = pending[e]
          /\ schema'[e] = schema[e]
    /\ shards' \in Nat /\ shards' >= shards
    /\ lock[Main] \notin {None, t} => shards' = shards

\* Such a step keeps what the invariant says of the other threads.
LEMMA FrameKeeps ==
    ASSUME EngineInv, NEW t \in Threads, Frame(t)
    PROVE  /\ \A w \in Workers \ {t} : WorkerSafe(w)'
           /\ \A l \in (Loaders \cup {Watcher}) \ {t} : LoaderSafe(l)'
<1>1. ASSUME NEW w \in Workers \ {t} PROVE WorkerSafe(w)'
  <2>. DEFINE e == job[w].engine
  <2>1. w \in Threads /\ w # None /\ e \in Engines /\ Main \in Engines
    BY DEF Threads, EngineInv, TypeOK, Jobs, Engines
  <2>2. pc'[w] = pc[w] /\ job'[w] = job[w]
    BY <2>1 DEF Frame
  <2>3. WorkerSafe(w)
    BY DEF EngineInv
  <2>4. shards \in Int /\ shards' \in Int /\ e \in Int /\ shards' >= shards
    BY <2>1 DEF EngineInv, TypeOK, Engines, Frame
  <2>5. lock[e] = w => lock'[e] = w
    BY <2>1 DEF Frame
  <2>6. lock[e] = w /\ e <= shards =>
          /\ configured'[e] = configured[e]
          /\ pending'[e] = pending[e]
          /\ schema'[e] = schema[e]
    BY <2>1 DEF Frame
  <2>7. lock[Main] = w => lock'[Main] = w /\ shards' = shards
    BY <2>1 DEF Frame
  <2>. QED
    BY <2>2, <2>3, <2>4, <2>5, <2>6, <2>7 DEF WorkerSafe
<1>2. ASSUME NEW l \in (Loaders \cup {Watcher}) \ {t} PROVE LoaderSafe(l)'
  <2>1. l \in Threads /\ l # None /\ Main \in Engines
    BY DEF Threads, Engines
  <2>2. pc'[l] = pc[l] /\ job'[l] = job[l]
    BY <2>1 DEF Frame
  <2>3. LoaderSafe(l) /\ Main <= shards
    BY DEF EngineInv, TypeOK
  <2>4. lock[Main] = l => lock'[Main] = l /\ schema'[Main] = schema[Main]
    BY <2>1, <2>3 DEF Frame
  <2>. QED
    BY <2>2, <2>3, <2>4 DEF LoaderSafe
<1>. QED
  BY <1>1, <1>2

\* What Go, Local and Return do to the thread itself and to the others.
LEMMA GoMoves ==
    ASSUME TypeOK, NEW t \in Threads, NEW l, Go(t, l)
    PROVE  /\ pc'[t] = l /\ job'[t] = job[t]
           /\ \A u \in Threads \ {t} : pc'[u] = pc[u] /\ job'[u] = job[u]
BY DEF TypeOK, Go

LEMMA LocalMoves ==
    ASSUME TypeOK, NEW t \in Threads, NEW j, NEW l, Local(t, j, l)
    PROVE  /\ pc'[t] = l /\ job'[t] = j
           /\ \A u \in Threads \ {t} : pc'[u] = pc[u] /\ job'[u] = job[u]
BY DEF TypeOK, Local

LEMMA ReturnMoves ==
    ASSUME TypeOK, NEW t \in Threads, Return(t)
    PROVE  /\ pc'[t] \in {"idle", "sleeping"}
           /\ \A u \in Threads \ {t} : pc'[u] = pc[u] /\ job'[u] = job[u]
BY DEF TypeOK, Return, Rest

LEMMA FailMoves ==
    ASSUME TypeOK, NEW t \in Threads, Fail(t)
    PROVE  /\ pc'[t] \in {"idle", "sleeping", "clear"}
           /\ \A u \in Threads \ {t} : pc'[u] = pc[u] /\ job'[u] = job[u]
<1>1. CASE t = Watcher /\ ~KeepPrevious
  BY <1>1, LocalMoves DEF Fail
<1>2. CASE ~(t = Watcher /\ ~KeepPrevious)
  BY <1>2, ReturnMoves DEF Fail
<1>. QED
  BY <1>1, <1>2

\* Init is a state of the invariant.
LEMMA InitInv == Init => EngineInv
<1>. SUFFICES ASSUME Init PROVE EngineInv
  OBVIOUS
<1>1. RulesConfigured
  BY DEF Init, RulesConfigured
<1>2. \A t \in Threads : pc[t] \in {"idle", "off"}
  BY DEF Init
<1>3. \A w \in Workers : WorkerSafe(w)
  BY <1>2 DEF WorkerSafe, Threads
<1>4. \A t \in Loaders \cup {Watcher} : LoaderSafe(t)
  BY <1>2 DEF LoaderSafe, Threads
<1>. QED
  BY <1>1, <1>3, <1>4, InitTyped DEF EngineInv

\* A step of a worker inside a batch keeps the invariant.
LEMMA WorkerStep ==
    ASSUME EngineInv, TypeOK', NEW w \in Workers, StartBatch(w) \/ Batch(w)
    PROVE  RulesConfigured' /\ Frame(w) /\ WorkerSafe(w)'
<1>. DEFINE e == job[w].engine
<1>0. /\ TypeOK /\ RulesConfigured /\ WorkerSafe(w)
      /\ w \in Threads /\ w # None
      /\ e \in Engines /\ Main \in Engines /\ e \in Int
      /\ shards \in Nat
      /\ lock \in [Engines -> Threads \cup {None}]
  <2>1. TypeOK /\ RulesConfigured /\ WorkerSafe(w)
    BY DEF EngineInv
  <2>2. w \in Threads /\ w # None
    BY DEF Threads
  <2>3. job[w] \in Jobs
    BY <2>1, <2>2 DEF TypeOK
  <2>4. e \in Engines /\ Main \in Engines /\ e \in Int
    BY <2>3 DEF Jobs, Engines
  <2>. QED
    BY <2>1, <2>2, <2>4 DEF TypeOK
<1>1. CASE StartBatch(w)
  <2>1. /\ pc'[w] \in {"enter", "ensure"}
        /\ \A u \in Threads \ {w} : pc'[u] = pc[u] /\ job'[u] = job[u]
    <3>1. PICK d \in Engines, s \in Samples :
              Local(w, [NoJob EXCEPT !.engine = d, !.sample = s],
                    IF d = Main THEN "enter" ELSE "ensure")
      BY <1>1 DEF StartBatch
    <3>. QED
      BY <1>0, <3>1, LocalMoves
  <2>2. pc'[w] = "enter" => job'[w].engine = 0
    <3>1. PICK d \in Engines, s \in Samples :
              Local(w, [NoJob EXCEPT !.engine = d, !.sample = s],
                    IF d = Main THEN "enter" ELSE "ensure")
      BY <1>1 DEF StartBatch
    <3>2. job'[w] = [NoJob EXCEPT !.engine = d, !.sample = s]
      BY <1>0, <3>1, LocalMoves
    <3>3. job'[w].engine = d
      BY <3>2 DEF NoJob
    <3>4. pc'[w] = IF d = Main THEN "enter" ELSE "ensure"
      BY <1>0, <3>1, LocalMoves
    <3>. QED
      BY <3>3, <3>4
  <2>3. UNCHANGED engineVars
    BY <1>1 DEF StartBatch
  <2>4. RulesConfigured'
    BY <1>0, <2>3 DEF RulesConfigured, engineVars
  <2>5. Frame(w)
    BY <1>0, <2>1, <2>3 DEF Frame, engineVars
  <2>6. WorkerSafe(w)'
    BY <1>0, <2>1, <2>2, <2>3 DEF WorkerSafe, engineVars
  <2>. QED
    BY <2>4, <2>5, <2>6
<1>2. CASE EnsureShards(w)
  <2>1. /\ UNCHANGED <<schema, pending, rules, configured, shards>>
        /\ lock[Main] = None
        /\ \A d \in Engines \ {Main} : lock'[d] = lock[d]
    BY <1>0, <1>2 DEF EnsureShards
  <2>2. CASE e <= shards
    <3>1. /\ pc'[w] = "fetch" /\ job'[w] = job[w] /\ lock' = lock
          /\ \A u \in Threads \ {w} : pc'[u] = pc[u] /\ job'[u] = job[u]
      BY <1>0, <1>2, <2>2, GoMoves DEF EnsureShards
    <3>. QED
      BY <1>0, <2>1, <2>2, <3>1 DEF RulesConfigured, Frame, WorkerSafe
  <2>3. CASE ~(e <= shards)
    <3>1. /\ pc'[w] = "grow" /\ job'[w] = [job[w] EXCEPT !.rules = rules[Main]]
          /\ lock' = [lock EXCEPT ![Main] = w]
          /\ \A u \in Threads \ {w} : pc'[u] = pc[u] /\ job'[u] = job[u]
      BY <1>0, <1>2, <2>3, LocalMoves DEF EnsureShards
    <3>2. job'[w].engine = e
      BY <1>0, <3>1 DEF TypeOK, Jobs
    <3>3. Frame(w)
      BY <1>0, <2>1, <3>1 DEF Frame
    <3>4. WorkerSafe(w)'
      BY <1>0, <2>1, <2>3, <3>1, <3>2 DEF WorkerSafe
    <3>. QED
      BY <1>0, <2>1, <3>3, <3>4 DEF RulesConfigured
  <2>. QED
    BY <2>2, <2>3
<1>3. CASE GrowShards(w)
  <2>. DEFINE new == shards + 1 .. e
  <2>1. /\ pc'[w] = "fetch" /\ job'[w] = [job[w] EXCEPT !.rules = None]
        /\ lock' = [lock EXCEPT ![Main] = None] /\ shards' = e
        /\ \A u \in Threads \ {w} : pc'[u] = pc[u] /\ job'[u] = job[u]
    BY <1>0, <1>3, LocalMoves DEF GrowShards
  <2>2. /\ schema' = [d \in Engines |-> IF d \in new THEN schema[Main] ELSE schema[d]]
        /\ pending' = [d \in Engines |-> IF d \in new THEN pending[Main] ELSE pending[d]]
        /\ rules' = [d \in Engines |-> IF d \in new THEN job[w].rules ELSE rules[d]]
        /\ configured' = [d \in Engines |-> IF d \in new THEN job[w].rules ELSE configured[d]]
    BY <1>3 DEF GrowShards
  <2>3. lock[Main] = w /\ e > shards
    BY <1>0, <1>3 DEF GrowShards, WorkerSafe
  <2>4. \A d \in Engines : d <= shards => d \notin new
    BY <1>0 DEF Engines
  <2>5. job'[w].engine = e
    BY <1>0, <2>1 DEF TypeOK, Jobs
  <2>6. RulesConfigured'
    <3>. HIDE DEF new
    <3>. QED
      BY <1>0, <2>2 DEF RulesConfigured
  <2>7. Frame(w)
    <3>. HIDE DEF new
    <3>1. \A d \in Engines : lock[d] \notin {None, w} => lock'[d] = lock[d]
      BY <1>0, <2>1, <2>3
    <3>2. \A d \in Engines : d <= shards =>
              /\ configured'[d] = configured[d] /\ rules'[d] = rules[d]
              /\ pending'[d] = pending[d] /\ schema'[d] = schema[d]
      BY <2>2, <2>4
    <3>3. shards' \in Nat /\ shards' >= shards
      BY <1>0, <2>1, <2>3
    <3>. QED
      BY <2>1, <2>3, <3>1, <3>2, <3>3 DEF Frame
  <2>8. WorkerSafe(w)'
    BY <1>0, <2>1, <2>5 DEF WorkerSafe
  <2>. QED
    BY <2>6, <2>7, <2>8
<1>4. CASE FetchShard(w)
  <2>1. /\ pc'[w] = "enter" /\ job'[w] = job[w]
        /\ \A u \in Threads \ {w} : pc'[u] = pc[u] /\ job'[u] = job[u]
    BY <1>0, <1>4, GoMoves DEF FetchShard
  <2>2. UNCHANGED engineVars /\ pc[w] = "fetch"
    BY <1>4 DEF FetchShard
  <2>. QED
    BY <1>0, <2>1, <2>2 DEF RulesConfigured, Frame, WorkerSafe, engineVars
<1>5. CASE Enter(w)
  <2>1. /\ pc'[w] = "bind" /\ job'[w] = job[w]
        /\ \A u \in Threads \ {w} : pc'[u] = pc[u] /\ job'[u] = job[u]
    BY <1>0, <1>5, GoMoves DEF Enter
  <2>2. /\ UNCHANGED <<schema, pending, rules, configured, shards>>
        /\ pc[w] = "enter" /\ lock[e] = None /\ lock' = [lock EXCEPT ![e] = w]
    BY <1>5 DEF Enter
  <2>. QED
    BY <1>0, <2>1, <2>2 DEF RulesConfigured, Frame, WorkerSafe
<1>6. CASE EnsureSchemaBound(w)
  <2>1. /\ pc[w] = "bind" /\ lock[e] = w /\ e <= shards
        /\ UNCHANGED <<pending, rules, configured, shards>>
    BY <1>0, <1>6 DEF EnsureSchemaBound, WorkerSafe
  <2>2. CASE schema[e] # None /\ Go(w, "observe") /\ UNCHANGED <<lock, schema>>
    <3>1. /\ pc'[w] = "observe" /\ job'[w] = job[w]
          /\ \A u \in Threads \ {w} : pc'[u] = pc[u] /\ job'[u] = job[u]
      BY <1>0, <2>2, GoMoves
    <3>. QED
      BY <1>0, <2>1, <2>2, <3>1 DEF RulesConfigured, Frame, WorkerSafe
  <2>3. CASE Leave(w) /\ UNCHANGED schema
    <3>1. /\ pc'[w] \in {"idle", "sleeping"} /\ lock' = [lock EXCEPT ![e] = None]
          /\ \A u \in Threads \ {w} : pc'[u] = pc[u] /\ job'[u] = job[u]
      BY <1>0, <2>3, ReturnMoves DEF Leave
    <3>. QED
      BY <1>0, <2>1, <2>3, <3>1 DEF RulesConfigured, Frame, WorkerSafe
  <2>4. CASE /\ pending[e] # None
             /\ schema' = [schema EXCEPT ![e] = Inferred(pending[e], job[w].sample)]
             /\ Go(w, "compile") /\ UNCHANGED lock
    <3>1. /\ pc'[w] = "compile" /\ job'[w] = job[w]
          /\ \A u \in Threads \ {w} : pc'[u] = pc[u] /\ job'[u] = job[u]
      BY <1>0, <2>4, GoMoves
    <3>2. schema'[e] = Inferred(pending[e], job[w].sample)
      BY <1>0, <2>4 DEF TypeOK
    <3>3. schema'[e] # None
      <4>1. Inferred(pending[e], job[w].sample) \in Schemas
        <5>1. pending[e] \in Contents /\ job[w] \in Jobs
          BY <1>0, <2>4 DEF TypeOK
        <5>. QED
          BY <5>1 DEF Inferred, Schemas, Jobs
      <4>. QED
        BY <3>2, <4>1, SchemaAssumption
    <3>4. Frame(w)
      BY <1>0, <2>1, <2>4, <3>1 DEF Frame, TypeOK
    <3>. QED
      BY <1>0, <2>1, <2>4, <3>1, <3>3, <3>4 DEF RulesConfigured, WorkerSafe
  <2>. QED
    BY <1>6, <2>2, <2>3, <2>4 DEF EnsureSchemaBound
<1>7. CASE CompilePending(w)
  <2>1. /\ pc[w] = "compile" /\ lock[e] = w /\ e <= shards
        /\ UNCHANGED <<schema, shards>>
    BY <1>0, <1>7 DEF CompilePending, WorkerSafe
  <2>2. CASE Leave(w) /\ UNCHANGED <<rules, configured, pending>>
    <3>1. /\ pc'[w] \in {"idle", "sleeping"} /\ lock' = [lock EXCEPT ![e] = None]
          /\ \A u \in Threads \ {w} : pc'[u] = pc[u] /\ job'[u] = job[u]
      BY <1>0, <2>2, ReturnMoves DEF Leave
    <3>. QED
      BY <1>0, <2>1, <2>2, <3>1 DEF RulesConfigured, Frame, WorkerSafe
  <2>3. CASE /\ Install(w, e, Ruleset(pending[e], schema[e]))
             /\ pending' = [pending EXCEPT ![e] = None]
             /\ UNCHANGED lock
    <3>. DEFINE rs == Ruleset(pending[e], schema[e])
    <3>1. /\ pc'[w] = "install"
          /\ job'[w] = [job[w] EXCEPT !.rules = rs, !.next = 1,
                                      !.end = IF e = Main THEN shards ELSE 0]
          /\ \A u \in Threads \ {w} : pc'[u] = pc[u] /\ job'[u] = job[u]
      BY <1>0, <2>3, LocalMoves DEF Install
    <3>2. job'[w].engine = e
      <4>1. job[w] \in Jobs
        BY <1>0 DEF TypeOK
      <4>. QED
        BY <3>1, <4>1 DEF Jobs
    <3>3. rules' = [rules EXCEPT ![e] = rs] /\ configured' = [configured EXCEPT ![e] = rs]
      BY <2>3 DEF Install
    <3>. HIDE DEF rs
    <3>4. RulesConfigured'
      BY <1>0, <3>3 DEF RulesConfigured, TypeOK
    <3>5. Frame(w)
      BY <1>0, <2>1, <2>3, <3>1, <3>3 DEF Frame, TypeOK
    <3>6. WorkerSafe(w)'
      BY <1>0, <2>1, <2>3, <3>1, <3>2 DEF WorkerSafe
    <3>. QED
      BY <3>4, <3>5, <3>6
  <2>. QED
    BY <1>7, <2>2, <2>3 DEF CompilePending
<1>8. CASE Observe(w)
  <2>1. /\ pc[w] = "observe" /\ lock[e] = w /\ e <= shards
        /\ UNCHANGED engineVars
    BY <1>0, <1>8 DEF Observe, WorkerSafe
  <2>2. CASE rules[e] = None
    <3>1. /\ pc'[w] = "empty" /\ job'[w] = job[w]
          /\ \A u \in Threads \ {w} : pc'[u] = pc[u] /\ job'[u] = job[u]
      BY <1>0, <1>8, <2>2, GoMoves DEF Observe
    <3>. QED
      BY <1>0, <2>1, <3>1 DEF RulesConfigured, Frame, WorkerSafe, engineVars
  <2>3. CASE rules[e] # None
    <3>1. /\ pc'[w] = "use" /\ job'[w] = [job[w] EXCEPT !.rules = rules[e]]
          /\ \A u \in Threads \ {w} : pc'[u] = pc[u] /\ job'[u] = job[u]
      BY <1>0, <1>8, <2>3, LocalMoves DEF Observe
    <3>2. job'[w].engine = e /\ job'[w].rules = rules[e]
      <4>1. job[w] \in Jobs
        BY <1>0 DEF TypeOK
      <4>. QED
        BY <3>1, <4>1 DEF Jobs
    <3>3. rules[e] = configured[e]
      BY <1>0, <2>3 DEF RulesConfigured
    <3>4. RulesConfigured'
      BY <1>0, <2>1 DEF RulesConfigured, engineVars
    <3>5. Frame(w)
      BY <1>0, <2>1, <3>1 DEF Frame, engineVars
    <3>6. WorkerSafe(w)'
      BY <1>0, <2>1, <3>1, <3>2, <3>3 DEF WorkerSafe, engineVars
    <3>. QED
      BY <3>4, <3>5, <3>6
  <2>. QED
    BY <2>2, <2>3
<1>9. CASE FinishBatch(w)
  <2>1. /\ lock[e] = w /\ e <= shards
        /\ UNCHANGED <<schema, pending, rules, configured, shards>>
    BY <1>0, <1>9 DEF FinishBatch, WorkerSafe
  <2>2. /\ pc'[w] \in {"idle", "sleeping"} /\ lock' = [lock EXCEPT ![e] = None]
        /\ \A u \in Threads \ {w} : pc'[u] = pc[u] /\ job'[u] = job[u]
    BY <1>0, <1>9, ReturnMoves DEF FinishBatch, Leave
  <2>. QED
    BY <1>0, <2>1, <2>2 DEF RulesConfigured, Frame, WorkerSafe
<1>. QED
  BY <1>1, <1>2, <1>3, <1>4, <1>5, <1>6, <1>7, <1>8, <1>9 DEF Batch

\* So does a step of a load.
LEMMA LoaderStep ==
    ASSUME EngineInv, TypeOK', NEW t \in Loaders \cup {Watcher},
           (t \in Loaders /\ StartLoad(t)) \/ Load(t)
    PROVE  RulesConfigured' /\ Frame(t) /\ LoaderSafe(t)'
<1>0. /\ TypeOK /\ RulesConfigured /\ LoaderSafe(t)
      /\ t \in Threads /\ t # None
      /\ Main \in Engines /\ Main <= shards
      /\ shards \in Nat
      /\ lock \in [Engines -> Threads \cup {None}]
  <2>1. TypeOK /\ RulesConfigured /\ LoaderSafe(t)
    BY DEF EngineInv
  <2>2. t \in Threads /\ t # None /\ Main \in Engines
    BY DEF Threads, Engines
  <2>. QED
    BY <2>1, <2>2 DEF TypeOK
<1>1. CASE StartLoad(t)
  <2>1. /\ pc'[t] = "parse" /\ UNCHANGED engineVars
        /\ \A u \in Threads \ {t} : pc'[u] = pc[u] /\ job'[u] = job[u]
    BY <1>0, <1>1, GoMoves DEF StartLoad
  <2>. QED
    BY <1>0, <2>1 DEF RulesConfigured, Frame, LoaderSafe, engineVars
<1>2. CASE Parse(t)
  <2>1. UNCHANGED engineVars
    BY <1>2 DEF Parse
  <2>2. CASE file.content \in Broken \cup {Absent}
    <3>1. /\ pc'[t] \in {"idle", "sleeping", "clear"}
          /\ \A u \in Threads \ {t} : pc'[u] = pc[u] /\ job'[u] = job[u]
      BY <1>0, <1>2, <2>2, FailMoves DEF Parse
    <3>. QED
      BY <1>0, <2>1, <3>1 DEF RulesConfigured, Frame, LoaderSafe, engineVars
  <2>3. CASE file.content \notin Broken \cup {Absent}
    <3>1. /\ pc'[t] = "lock" /\ job'[t] = [NoJob EXCEPT !.content = file.content]
          /\ \A u \in Threads \ {t} : pc'[u] = pc[u] /\ job'[u] = job[u]
      BY <1>0, <1>2, <2>3, LocalMoves DEF Parse
    <3>2. file.content \in Contents
      BY <1>0, <2>3 DEF TypeOK
    <3>3. job'[t].content # None
      BY <3>1, <3>2 DEF NoJob
    <3>. QED
      BY <1>0, <2>1, <3>1, <3>3 DEF RulesConfigured, Frame, LoaderSafe, engineVars
  <2>. QED
    BY <2>2, <2>3
<1>3. CASE InstallOrDefer(t)
  <2>1. /\ pc[t] = "lock" /\ lock[Main] = None
        /\ UNCHANGED <<schema, rules, configured, shards>>
    BY <1>3 DEF InstallOrDefer
  <2>2. CASE schema[Main] = None
    <3>1. /\ pc'[t] \in {"idle", "sleeping"} /\ lock' = lock
          /\ pending' = [pending EXCEPT ![Main] = job[t].content]
          /\ \A u \in Threads \ {t} : pc'[u] = pc[u] /\ job'[u] = job[u]
      BY <1>0, <1>3, <2>2, ReturnMoves DEF InstallOrDefer
    <3>. QED
      BY <1>0, <2>1, <3>1 DEF RulesConfigured, Frame, LoaderSafe
  <2>3. CASE schema[Main] # None
    <3>1. /\ pc'[t] = "build" /\ job'[t] = job[t]
          /\ lock' = [lock EXCEPT ![Main] = t] /\ pending' = pending
          /\ \A u \in Threads \ {t} : pc'[u] = pc[u] /\ job'[u] = job[u]
      BY <1>0, <1>3, <2>3, GoMoves DEF InstallOrDefer
    <3>. QED
      BY <1>0, <2>1, <2>3, <3>1 DEF RulesConfigured, Frame, LoaderSafe
  <2>. QED
    BY <2>2, <2>3
<1>4. CASE BuildRules(t)
  <2>. DEFINE sch == Grown(schema[Main], job[t].content)
              rs == Ruleset(job[t].content, sch)
  <2>1. pc[t] = "build" /\ lock[Main] = t /\ UNCHANGED <<pending, shards>>
    BY <1>0, <1>4 DEF BuildRules, LoaderSafe
  <2>2. CASE /\ schema' = [schema EXCEPT ![Main] = sch]
             /\ Install(t, Main, rs)
             /\ UNCHANGED lock
    <3>1. /\ rules' = [rules EXCEPT ![Main] = rs]
          /\ configured' = [configured EXCEPT ![Main] = rs]
          /\ pc'[t] = "install"
          /\ \A u \in Threads \ {t} : pc'[u] = pc[u] /\ job'[u] = job[u]
      BY <1>0, <2>2, LocalMoves DEF Install
    <3>. HIDE DEF sch, rs
    <3>2. RulesConfigured'
      BY <1>0, <3>1 DEF RulesConfigured, TypeOK
    <3>3. Frame(t)
      BY <1>0, <2>1, <2>2, <3>1 DEF Frame, TypeOK
    <3>4. LoaderSafe(t)'
      BY <1>0, <2>1, <2>2, <3>1 DEF LoaderSafe
    <3>. QED
      BY <3>2, <3>3, <3>4
  <2>3. CASE /\ lock' = [lock EXCEPT ![Main] = None]
             /\ Fail(t)
             /\ UNCHANGED <<schema, rules, configured>>
    <3>1. /\ pc'[t] \in {"idle", "sleeping", "clear"}
          /\ \A u \in Threads \ {t} : pc'[u] = pc[u] /\ job'[u] = job[u]
      BY <1>0, <2>3, FailMoves
    <3>. QED
      BY <1>0, <2>1, <2>3, <3>1 DEF RulesConfigured, Frame, LoaderSafe
  <2>. QED
    BY <1>4, <2>2, <2>3 DEF BuildRules
<1>. QED
  BY <1>1, <1>2, <1>3, <1>4 DEF Load

\* What a thread is, as far as its steps tell threads apart.
ThreadSafe(t) == /\ t \in Workers => WorkerSafe(t)
                 /\ t \in Loaders \cup {Watcher} => LoaderSafe(t)

\* Installing on the shards takes the lock of each, so no batch runs there.
LEMMA SpreadStep ==
    ASSUME EngineInv, TypeOK', NEW t \in Threads, Spread(t)
    PROVE  RulesConfigured' /\ Frame(t) /\ ThreadSafe(t)'
<1>. DEFINE e == job[t].engine
<1>0. /\ TypeOK /\ RulesConfigured /\ ThreadSafe(t)
      /\ t # None /\ Main \in Engines /\ e \in Engines
      /\ shards \in Nat /\ job[t] \in Jobs
      /\ lock \in [Engines -> Threads \cup {None}]
      /\ pc[t] = "install"
  <2>1. TypeOK /\ RulesConfigured /\ ThreadSafe(t)
    BY DEF EngineInv, ThreadSafe
  <2>2. t # None /\ Main \in Engines
    BY DEF Threads, Engines
  <2>3. job[t] \in Jobs
    BY <2>1 DEF TypeOK
  <2>4. e \in Engines
    BY <2>3 DEF Jobs
  <2>5. pc[t] = "install"
    BY DEF Spread, InstallShard, FinishInstall
  <2>. QED
    BY <2>1, <2>2, <2>3, <2>4, <2>5 DEF TypeOK
<1>1. CASE InstallShard(t)
  <2>. DEFINE i == job[t].next
  <2>1. /\ lock[i] = None /\ UNCHANGED <<lock, schema, pending, shards>>
        /\ rules' = [rules EXCEPT ![i] = job[t].rules]
        /\ configured' = [configured EXCEPT ![i] = job[t].rules]
    BY <1>1 DEF InstallShard
  <2>2. /\ pc'[t] = "install" /\ job'[t] = [job[t] EXCEPT !.next = i + 1]
        /\ \A u \in Threads \ {t} : pc'[u] = pc[u] /\ job'[u] = job[u]
    BY <1>0, <1>1, LocalMoves DEF InstallShard
  <2>3. job'[t].engine = e
    BY <1>0, <2>2 DEF Jobs
  <2>4. RulesConfigured'
    BY <1>0, <2>1 DEF RulesConfigured, TypeOK
  <2>5. Frame(t)
    BY <1>0, <2>1, <2>2 DEF Frame, TypeOK
  <2>6. ThreadSafe(t)'
    BY <1>0, <2>1, <2>2, <2>3 DEF ThreadSafe, WorkerSafe, LoaderSafe
  <2>. QED
    BY <2>4, <2>5, <2>6
<1>2. CASE FinishInstall(t)
  <2>1. UNCHANGED <<schema, pending, rules, configured, shards>>
    BY <1>2 DEF FinishInstall
  <2>2. CASE t \in Workers
    <3>1. /\ pc'[t] = "observe" /\ job'[t] = [job[t] EXCEPT !.rules = None] /\ lock' = lock
          /\ \A u \in Threads \ {t} : pc'[u] = pc[u] /\ job'[u] = job[u]
      BY <1>0, <1>2, <2>2, LocalMoves DEF FinishInstall
    <3>2. job'[t].engine = e
      BY <1>0, <3>1 DEF Jobs
    <3>3. t \notin Loaders \cup {Watcher}
      BY <2>2
    <3>. QED
      BY <1>0, <2>1, <2>2, <3>1, <3>2, <3>3
         DEF RulesConfigured, Frame, ThreadSafe, WorkerSafe
  <2>3. CASE t \notin Workers
    <3>1. /\ pc'[t] \in {"idle", "sleeping"} /\ lock' = [lock EXCEPT ![Main] = None]
          /\ \A u \in Threads \ {t} : pc'[u] = pc[u] /\ job'[u] = job[u]
      BY <1>0, <1>2, <2>3, ReturnMoves DEF FinishInstall
    <3>2. lock[Main] = t
      BY <1>0, <2>3 DEF ThreadSafe, LoaderSafe, Threads
    <3>. QED
      BY <1>0, <2>1, <2>3, <3>1, <3>2 DEF RulesConfigured, Frame, ThreadSafe, LoaderSafe
  <2>. QED
    BY <2>2, <2>3
<1>. QED
  BY <1>1, <1>2 DEF Spread

\* The watcher's own steps take no rules from a batch that observed them.
LEMMA WatcherStep ==
    ASSUME EngineInv, TypeOK', StartWatch \/ StopWatch \/ Poll \/ Clear
    PROVE  EngineInv'
<1>0. /\ TypeOK /\ RulesConfigured /\ Watcher \in Threads /\ Watcher \notin Workers
      /\ \A w \in Workers : WorkerSafe(w)
      /\ \A t \in Loaders \cup {Watcher} : LoaderSafe(t)
  BY DEF EngineInv, Threads
<1>1. /\ UNCHANGED <<lock, schema, pending, configured, shards>>
      /\ \A d \in Engines : rules'[d] \in {rules[d], None}
  BY <1>0 DEF StartWatch, StopWatch, Poll, PollExists, PollStamp, Clear, ClearMain, ClearShard,
              FinishClear, engineVars, TypeOK
<1>2. RulesConfigured'
  BY <1>0, <1>1 DEF RulesConfigured
<1>3. CASE PollStamp /\ file.content = Absent
  <2>1. \A u \in Threads : pc'[u] = "dead"
    BY <1>3 DEF PollStamp
  <2>2. \A w \in Workers : WorkerSafe(w)'
    BY <2>1 DEF WorkerSafe, Threads
  <2>3. \A t \in Loaders \cup {Watcher} : LoaderSafe(t)'
    BY <2>1 DEF LoaderSafe, Threads
  <2>. QED
    BY <1>2, <2>2, <2>3 DEF EngineInv
<1>4. CASE ~(PollStamp /\ file.content = Absent)
  <2>1. /\ pc'[Watcher] \notin {"build", "install", "lock"}
        /\ \A u \in Threads \ {Watcher} : pc'[u] = pc[u] /\ job'[u] = job[u]
    <3>1. CASE StartWatch \/ StopWatch \/ PollExists
      BY <1>0, <3>1, GoMoves DEF StartWatch, StopWatch, PollExists
    <3>2. CASE PollStamp
      BY <1>0, <1>4, <3>2, GoMoves DEF PollStamp
    <3>3. CASE ClearMain \/ ClearShard
      BY <1>0, <3>3, LocalMoves DEF ClearMain, ClearShard
    <3>4. CASE FinishClear
      BY <1>0, <3>4, ReturnMoves DEF FinishClear
    <3>. QED
      BY <3>1, <3>2, <3>3, <3>4 DEF Poll, Clear
  <2>2. \A w \in Workers : WorkerSafe(w)'
    BY <1>0, <1>1, <2>1 DEF WorkerSafe, Threads
  <2>3. LoaderSafe(Watcher)'
    BY <2>1 DEF LoaderSafe
  <2>4. \A t \in Loaders : LoaderSafe(t)'
    BY <1>0, <1>1, <2>1 DEF LoaderSafe, Threads
  <2>. QED
    BY <1>2, <2>2, <2>3, <2>4 DEF EngineInv
<1>. QED
  BY <1>3, <1>4

\* The end of the process on an unbound shard leaves the engines as they were, and
\* no thread in a call.
LEMMA DeathStep ==
    ASSUME NEW t \in Threads, InstallOnUnbound(t)
    PROVE  /\ UNCHANGED <<engineVars, job, loaded>>
           /\ \A u \in Threads : pc'[u] = "dead"
           /\ \A w \in Workers : pc'[w] = "dead"
           /\ \A l \in Loaders \cup {Watcher} : pc'[l] = "dead"
BY DEF InstallOnUnbound, Threads

\* Every step keeps the invariant.
LEMMA StepInv == EngineInv /\ [Next]_vars => EngineInv'
<1>. SUFFICES ASSUME EngineInv, [Next]_vars PROVE EngineInv'
  OBVIOUS
<1>0. TypeOK'
  BY StepTyped
<1>1. ASSUME NEW w \in Workers, StartBatch(w) \/ Batch(w) PROVE EngineInv'
  <2>1. RulesConfigured' /\ Frame(w) /\ WorkerSafe(w)'
    BY <1>0, <1>1, WorkerStep
  <2>2. w \in Threads /\ w \notin Loaders \cup {Watcher}
    BY DEF Threads
  <2>. QED
    BY <1>0, <2>1, <2>2, FrameKeeps DEF EngineInv
<1>2. ASSUME NEW t \in Loaders \cup {Watcher}, (t \in Loaders /\ StartLoad(t)) \/ Load(t)
      PROVE  EngineInv'
  <2>1. RulesConfigured' /\ Frame(t) /\ LoaderSafe(t)'
    BY <1>0, <1>2, LoaderStep
  <2>2. t \in Threads /\ t \notin Workers
    BY DEF Threads
  <2>. QED
    BY <1>0, <2>1, <2>2, FrameKeeps DEF EngineInv
<1>3. ASSUME NEW t \in Threads, Spread(t) PROVE EngineInv'
  <2>1. RulesConfigured' /\ Frame(t) /\ ThreadSafe(t)'
    BY <1>0, <1>3, SpreadStep
  <2>2. /\ \A w \in Workers \ {t} : WorkerSafe(w)'
        /\ \A l \in (Loaders \cup {Watcher}) \ {t} : LoaderSafe(l)'
    BY <2>1, FrameKeeps
  <2>. QED
    BY <1>0, <2>1, <2>2 DEF EngineInv, ThreadSafe
<1>4. CASE StartWatch \/ StopWatch \/ Poll \/ Clear
  BY <1>0, <1>4, WatcherStep
<1>5. CASE WriteFile \/ UNCHANGED vars
  BY <1>0, <1>5 DEF WriteFile, vars, engineVars, EngineInv, RulesConfigured, WorkerSafe, LoaderSafe
<1>6. ASSUME NEW t \in Threads, InstallOnUnbound(t) PROVE EngineInv'
  BY <1>0, <1>6, DeathStep DEF engineVars, EngineInv, RulesConfigured, WorkerSafe, LoaderSafe
<1>. QED
  BY <1>1, <1>2, <1>3, <1>4, <1>5, <1>6 DEF Next, Terminated

\* EngineInv holds of every reachable state: the ruleset in force on an engine is
\* the one the engine is set up for; a batch past taking its engine's lock holds it,
\* on a shard that exists; a load compiles and installs, and a worker adds shards,
\* holding the lock of engine 0 (install_or_defer_rules, install_ruleset,
\* ensure_partition_shards).  What other threads do to such an engine is the
\* subject of BatchesOwnTheirEngine.
THEOREM EngineInvariant == Spec => []EngineInv
BY InitInv, StepInv, PTL DEF Spec

\* Every variable of the engine has its type in every reachable state.
THEOREM EngineTypeCorrect == Spec => []TypeOK
<1>1. EngineInv => TypeOK
  BY DEF EngineInv
<1>. QED
  BY <1>1, EngineInvariant, PTL

\* A batch keeps the ruleset it observed when it started: its engine stays
\* configured for it until the batch ends (evaluate_internal_into).
THEOREM BatchesKeepTheirRules == Spec => []BatchKeepsRules
<1>1. EngineInv => BatchKeepsRules
  BY DEF EngineInv, WorkerSafe, BatchKeepsRules
<1>. QED
  BY <1>1, EngineInvariant, PTL

\* A step of the batch itself takes it on: it does not stay where it is.
LEMMA BatchMoves ==
    ASSUME EngineInv, NEW w \in Workers, StartBatch(w) \/ Batch(w) \/ Spread(w),
           pc[w] \in {"bind", "compile", "observe", "use", "empty"}
    PROVE  pc'[w] # pc[w]
<1>0. TypeOK /\ w \in Threads
  BY DEF EngineInv, Threads
<1>1. CASE EnsureSchemaBound(w)
  BY <1>0, <1>1, GoMoves, ReturnMoves DEF EnsureSchemaBound, Leave
<1>2. CASE CompilePending(w)
  BY <1>0, <1>2, LocalMoves, ReturnMoves DEF CompilePending, Install, Leave
<1>3. CASE Observe(w)
  BY <1>0, <1>3, GoMoves, LocalMoves DEF Observe
<1>4. CASE FinishBatch(w)
  BY <1>0, <1>4, ReturnMoves DEF FinishBatch, Leave
<1>5. ~StartBatch(w) /\ ~EnsureShards(w) /\ ~GrowShards(w) /\ ~FetchShard(w) /\ ~Enter(w) /\ ~Spread(w)
  BY DEF StartBatch, EnsureShards, GrowShards, FetchShard, Enter, Spread, InstallShard, FinishInstall
<1>. QED
  BY <1>1, <1>2, <1>3, <1>4, <1>5 DEF Batch

\* While a batch runs, the schema, the pending rules and the set-up of its engine
\* stay, and its ruleset may only be taken away: loads and new shards go by the
\* lock the batch holds, clear_ruleset does not (engine.cpp, install_ruleset,
\* clear_ruleset, evaluate_internal_into).
THEOREM BatchesOwnTheirEngine == Spec => BatchOwnsEngine
<1>. DEFINE Owned(w) ==
         LET e == job[w].engine
         IN pc[w] \in {"bind", "compile", "observe", "use", "empty"} /\ pc'[w] = pc[w] =>
              /\ schema'[e] = schema[e] /\ pending'[e] = pending[e] /\ configured'[e] = configured[e]
              /\ rules'[e] \in {rules[e], None}
<1>1. ASSUME EngineInv, [Next]_vars, NEW w \in Workers PROVE Owned(w)
  <2>. DEFINE e == job[w].engine
              SetUpKept == schema'[e] = schema[e] /\ pending'[e] = pending[e] /\ configured'[e] = configured[e]
  <2>. SUFFICES ASSUME pc[w] \in {"bind", "compile", "observe", "use", "empty"}, pc'[w] = pc[w]
                PROVE  SetUpKept /\ rules'[e] \in {rules[e], None}
    OBVIOUS
  <2>1. /\ TypeOK /\ w \in Threads /\ w # None
        /\ e \in Engines /\ lock[e] = w /\ e <= shards
    <3>1. TypeOK /\ WorkerSafe(w) /\ w \in Threads /\ w # None
      BY <1>1 DEF EngineInv, Threads
    <3>. QED
      BY <3>1 DEF WorkerSafe, TypeOK, Jobs
  <2>2. TypeOK'
    BY <1>1, StepTyped
  <2>3. ASSUME NEW t \in Threads \ {w}, Frame(t) PROVE SetUpKept /\ rules'[e] = rules[e]
    BY <2>1, <2>3 DEF Frame
  <2>4. ASSUME NEW u \in Workers, StartBatch(u) \/ Batch(u)
        PROVE  SetUpKept /\ rules'[e] = rules[e]
    <3>1. u \in Threads /\ u # w
      BY <1>1, <2>4, BatchMoves DEF Threads
    <3>. QED
      BY <1>1, <2>2, <2>3, <2>4, <3>1, WorkerStep
  <2>5. ASSUME NEW t \in Loaders \cup {Watcher}, (t \in Loaders /\ StartLoad(t)) \/ Load(t)
        PROVE  SetUpKept /\ rules'[e] = rules[e]
    <3>1. t \in Threads \ {w}
      BY DEF Threads
    <3>. QED
      BY <1>1, <2>2, <2>3, <2>5, <3>1, LoaderStep
  <2>6. ASSUME NEW t \in Threads, Spread(t)
        PROVE  SetUpKept /\ rules'[e] = rules[e]
    <3>1. t # w
      BY <1>1, <2>6, BatchMoves
    <3>. QED
      BY <1>1, <2>2, <2>3, <2>6, <3>1, SpreadStep
  <2>7. ASSUME StartWatch \/ StopWatch \/ Poll \/ Clear
        PROVE  SetUpKept /\ rules'[e] \in {rules[e], None}
    BY <2>1, <2>7 DEF StartWatch, StopWatch, Poll, PollExists, PollStamp, Clear, ClearMain, ClearShard,
                      FinishClear, engineVars, TypeOK
  <2>8. ASSUME (\E t \in Threads : InstallOnUnbound(t)) \/ WriteFile \/ UNCHANGED vars
        PROVE  SetUpKept /\ rules'[e] = rules[e]
    BY <2>8 DEF InstallOnUnbound, WriteFile, vars, engineVars
  <2>. HIDE DEF e
  <2>. HIDE DEF SetUpKept, e
  <2>. QED
    BY <1>1, <2>4, <2>5, <2>6, <2>7, <2>8 DEF Next, Terminated
<1>2. EngineInv /\ [Next]_vars => \A w \in Workers : Owned(w)
  BY <1>1
<1>. QED
  BY <1>2, EngineInvariant, PTL DEF Spec, BatchOwnsEngine

-----------------------------------------------------------------------------
(* Rules that were rejected are nowhere.                                   *)

\* None is no content, hence no broken one.
LEMMA NoneParsed == Parsed(None)
<1>1. Broken \in {Broken, Invalid, Flaky, Growing}
  OBVIOUS
<1>2. Broken \in SUBSET Contents
  BY <1>1
<1>. QED
  BY <1>2 DEF Parsed

\* What the invariant says of a thread in no call.
LEMMA NoJobSafe == Accepted(NoJob.rules) /\ Parsed(NoJob.content)
BY NoneParsed DEF NoJob, Accepted

\* A schema that is bound again comes with rules compiled for it.
Follows(e) == schema'[e] = schema[e] \/ rules'[e].schema = schema'[e]

\* The part of a step of t that AcceptedInv and FitsSchema are about.
Accepts(t) ==
    /\ HandSafe(t)'
    /\ \A e \in Engines : Accepted(rules'[e]) /\ Parsed(pending'[e])
    /\ \A e \in Engines : e > shards' => Unborn(e)'
    /\ \A e \in Engines : rules[e] # None => rules'[e] # None /\ Follows(e)
    /\ \A e \in Engines : rules'[e] # None => schema'[e] # None
    /\ FitsSchema(Main)'

\* Such a step keeps the invariant.
LEMMA AcceptsKeeps ==
    ASSUME EngineInv, AcceptedInv, NEW t \in Threads, Accepts(t), Frame(t)
    PROVE  AcceptedInv'
<1>1. \A u \in Threads \ {t} : HandSafe(u)'
  <2>. SUFFICES ASSUME NEW u \in Threads \ {t} PROVE HandSafe(u)'
    OBVIOUS
  <2>1. pc'[u] = pc[u] /\ job'[u] = job[u]
    BY DEF Frame
  <2>2. HandSafe(u) /\ job[u].end \in Int /\ shards \in Int
    BY DEF AcceptedInv, EngineInv, TypeOK, Jobs
  <2>3. shards' \in Int /\ shards' >= shards
    BY DEF Frame
  <2>4. u \in Workers /\ pc[u] = "grow" => schema'[Main] = schema[Main]
    <3>1. u # None /\ Main \in Engines /\ Main <= shards
      BY DEF Threads, Engines, EngineInv, TypeOK
    <3>. QED
      BY <3>1 DEF EngineInv, WorkerSafe, Frame
  <2>. QED
    BY <2>1, <2>2, <2>3, <2>4 DEF HandSafe, Accepted, Parsed
<1>2. \A u \in Threads : HandSafe(u)'
  BY <1>1 DEF Accepts
<1>. QED
  BY <1>2 DEF Accepts, AcceptedInv, Accepted, Parsed

\* A step that leaves the engines alone, and whose thread has nothing new in
\* its hands, accepts.
LEMMA QuietAccepts ==
    ASSUME EngineInv, AcceptedInv, FitsSchema(Main), NEW t \in Threads,
           UNCHANGED <<schema, pending, rules, shards>>,
           Accepted(job'[t].rules), Parsed(job'[t].content), pc'[t] # "install",
           pc'[t] = "grow" /\ job'[t].rules # None => schema[Main] # None
    PROVE  Accepts(t)
<1>1. HandSafe(t)'
  BY DEF HandSafe, Accepted, Parsed
<1>2. \A e \in Engines : Accepted(rules'[e]) /\ Parsed(pending'[e])
  BY DEF AcceptedInv, Accepted, Parsed
<1>3. \A e \in Engines : e > shards' => Unborn(e)'
  BY DEF AcceptedInv, Unborn
<1>4. \A e \in Engines : rules'[e] # None => schema'[e] # None
  BY DEF AcceptedInv
<1>. QED
  BY <1>1, <1>2, <1>3, <1>4 DEF Accepts, Follows, FitsSchema

\* The end of a call leaves nothing in the thread's hands.
LEMMA ReturnEmpties ==
    ASSUME TypeOK, NEW t \in Threads, Return(t)
    PROVE  pc'[t] \in {"idle", "sleeping"} /\ job'[t] = NoJob
BY DEF TypeOK, Return, Rest

\* Neither does a load that fails.
LEMMA FailEmpties ==
    ASSUME TypeOK, NEW t \in Threads, Fail(t)
    PROVE  /\ pc'[t] \in {"idle", "sleeping", "clear"} /\ job'[t] = NoJob
           /\ KeepPrevious => pc'[t] # "clear"
BY DEF TypeOK, Fail, Local, Return, Rest

\* Installing accepted rules on an engine that exists, for the schema it has now.
LEMMA InstallAccepts ==
    ASSUME EngineInv, AcceptedInv, FitsSchema(Main), NEW t \in Threads,
           NEW e \in Engines, e <= shards,
           NEW rs \in Rulesets, Accepted(rs), Install(t, e, rs), shards' = shards,
           \A d \in Engines : Parsed(pending'[d]),
           \A d \in Engines : d > shards => pending'[d] = pending[d],
           rs.schema = schema'[e], \A d \in Engines \ {e} : schema'[d] = schema[d]
    PROVE  Accepts(t)
<1>. DEFINE j == [job[t] EXCEPT !.rules = rs, !.next = 1, !.end = IF e = Main THEN shards ELSE 0]
<1>0. /\ TypeOK /\ job[t] \in Jobs /\ shards \in 0 .. MaxShards
      /\ rules \in [Engines -> Rulesets \cup {None}] /\ Main \in Engines
  BY DEF EngineInv, TypeOK, Engines
<1>1. pc'[t] = "install" /\ job'[t] = j /\ rules' = [rules EXCEPT ![e] = rs]
  BY <1>0, LocalMoves DEF Install
<1>2. rs # None
  BY SchemaAssumption
<1>3. j.rules = rs /\ j.content = job[t].content /\ j.end <= shards
  BY <1>0 DEF Jobs
<1>. HIDE DEF j
<1>4. HandSafe(t)'
  BY <1>0, <1>1, <1>2, <1>3 DEF AcceptedInv, HandSafe, Accepted, Parsed
<1>5. \A d \in Engines : rules'[d] = IF d = e THEN rs ELSE rules[d]
  BY <1>0, <1>1
<1>6. \A d \in Engines : Accepted(rules'[d])
  BY <1>5 DEF AcceptedInv, Accepted
<1>7. \A d \in Engines : d > shards' => Unborn(d)'
  <2>1. \A d \in Engines : d > shards => d # e
    BY <1>0 DEF Engines
  <2>. QED
    BY <1>5, <2>1 DEF AcceptedInv, Unborn
<1>8. FitsSchema(Main)'
  BY <1>0, <1>5 DEF FitsSchema
<1>9. \A d \in Engines : Follows(d)
  BY <1>5 DEF Follows
<1>10. \A d \in Engines : rules'[d] # None => schema'[d] # None
  <2>1. schema'[e] # None
    BY SchemaAssumption DEF Rulesets
  <2>. QED
    BY <1>5, <2>1 DEF AcceptedInv
<1>. QED
  BY <1>2, <1>4, <1>5, <1>6, <1>7, <1>8, <1>9, <1>10 DEF Accepts

\* What is known of a worker's state.
LEMMA WorkerFacts ==
    ASSUME EngineInv, NEW w \in Workers
    PROVE  /\ TypeOK /\ WorkerSafe(w) /\ w \in Threads
           /\ job[w] \in Jobs /\ job[w].engine \in Engines /\ job[w].engine \in Nat
           /\ shards \in Nat /\ shards \in 0 .. MaxShards /\ Main \in Engines
<1>1. TypeOK /\ WorkerSafe(w) /\ w \in Threads
  BY DEF EngineInv, Threads
<1>2. job[w] \in Jobs /\ shards \in 0 .. MaxShards
  BY <1>1 DEF TypeOK
<1>. QED
  BY <1>1, <1>2 DEF Jobs, Engines

\* A step of a batch accepts: it gives new shards, and a bound engine, nothing
\* but rules that were accepted.
LEMMA WorkerAccepts ==
    ASSUME EngineInv, AcceptedInv, FitsSchema(Main), TypeOK', NEW w \in Workers,
           StartBatch(w) \/ Batch(w)
    PROVE  Accepts(w)
<1>. DEFINE e == job[w].engine
<1>0. /\ TypeOK /\ WorkerSafe(w) /\ w \in Threads
      /\ job[w] \in Jobs /\ e \in Engines /\ e \in Nat
      /\ shards \in Nat /\ shards \in 0 .. MaxShards /\ Main \in Engines
  BY WorkerFacts
<1>a. HandSafe(w) /\ Accepted(job[w].rules) /\ Parsed(job[w].content)
  BY <1>0 DEF AcceptedInv, HandSafe
<1>1. CASE StartBatch(w)
  <2>1. PICK d \in Engines, s \in Samples :
            Local(w, [NoJob EXCEPT !.engine = d, !.sample = s],
                  IF d = Main THEN "enter" ELSE "ensure")
    BY <1>1 DEF StartBatch
  <2>2. job'[w] = [NoJob EXCEPT !.engine = d, !.sample = s] /\ pc'[w] \in {"enter", "ensure"}
    BY <1>0, <2>1, LocalMoves
  <2>3. job'[w].rules = NoJob.rules /\ job'[w].content = NoJob.content
    BY <2>2 DEF NoJob
  <2>4. Accepted(job'[w].rules) /\ Parsed(job'[w].content)
    BY <2>3, NoJobSafe
  <2>5. UNCHANGED <<schema, pending, rules, shards>>
    BY <1>1 DEF StartBatch, engineVars
  <2>. QED
    BY <1>0, <2>2, <2>4, <2>5, QuietAccepts
<1>2. CASE EnsureShards(w)
  <2>1. UNCHANGED <<schema, pending, rules, shards>>
    BY <1>2 DEF EnsureShards
  <2>2. CASE e <= shards
    <3>1. pc'[w] = "fetch" /\ job'[w] = job[w]
      BY <1>0, <1>2, <2>2, GoMoves DEF EnsureShards
    <3>. QED
      BY <1>0, <1>a, <2>1, <3>1, QuietAccepts
  <2>3. CASE ~(e <= shards)
    <3>1. pc'[w] = "grow" /\ job'[w] = [job[w] EXCEPT !.rules = rules[Main]]
      BY <1>0, <1>2, <2>3, LocalMoves DEF EnsureShards
    <3>2. job'[w].rules = rules[Main] /\ job'[w].content = job[w].content
      BY <1>0, <3>1 DEF Jobs
    <3>3. /\ Accepted(job'[w].rules) /\ Parsed(job'[w].content)
          /\ job'[w].rules # None => schema[Main] # None
      BY <1>0, <1>a, <3>2 DEF AcceptedInv
    <3>. QED
      BY <1>0, <2>1, <3>1, <3>3, QuietAccepts
  <2>. QED
    BY <2>2, <2>3
<1>3. CASE GrowShards(w)
  <2>. DEFINE new == shards + 1 .. e
  <2>1. pc'[w] = "fetch" /\ job'[w] = [job[w] EXCEPT !.rules = None] /\ shards' = e
    BY <1>0, <1>3, LocalMoves DEF GrowShards
  <2>2. \A d \in Engines :
            /\ schema'[d] = IF d \in new THEN schema[Main] ELSE schema[d]
            /\ pending'[d] = IF d \in new THEN pending[Main] ELSE pending[d]
            /\ rules'[d] = IF d \in new THEN job[w].rules ELSE rules[d]
    BY <1>3 DEF GrowShards
  <2>3. e > shards
    BY <1>0, <1>3 DEF GrowShards, WorkerSafe
  <2>4. \A d \in Engines : (d \in new => d > shards) /\ (d > e => d \notin new /\ d > shards)
    BY <1>0, <2>3 DEF Engines
  <2>5. Main \notin new
    BY <1>0
  <2>. HIDE DEF new
  <2>6. HandSafe(w)'
    <3>1. job'[w].rules = None /\ job'[w].content = job[w].content
      BY <1>0, <2>1 DEF Jobs
    <3>. QED
      BY <1>a, <2>1, <3>1 DEF HandSafe, Accepted, Parsed
  <2>7. \A d \in Engines : Accepted(rules'[d]) /\ Parsed(pending'[d])
    BY <1>0, <1>a, <2>2 DEF AcceptedInv
  <2>8. \A d \in Engines : d > shards' => Unborn(d)'
    BY <2>1, <2>2, <2>4 DEF AcceptedInv, Unborn
  <2>9. \A d \in Engines : rules[d] # None => rules'[d] # None /\ Follows(d)
    BY <2>2, <2>4 DEF AcceptedInv, Unborn, Follows
  <2>10. FitsSchema(Main)'
    BY <1>0, <2>2, <2>5 DEF FitsSchema
  <2>11. \A d \in Engines : rules'[d] # None => schema'[d] # None
    <3>1. job[w].rules # None => schema[Main] # None
      BY <1>3, <1>a DEF GrowShards, HandSafe
    <3>. QED
      BY <2>2, <3>1 DEF AcceptedInv
  <2>. QED
    BY <2>6, <2>7, <2>8, <2>9, <2>10, <2>11 DEF Accepts
<1>4. CASE FetchShard(w) \/ Enter(w)
  <2>1. pc'[w] \in {"enter", "bind"} /\ job'[w] = job[w]
    BY <1>0, <1>4, GoMoves DEF FetchShard, Enter
  <2>2. UNCHANGED <<schema, pending, rules, shards>>
    BY <1>4 DEF FetchShard, Enter, engineVars
  <2>. QED
    BY <1>0, <1>a, <2>1, <2>2, QuietAccepts
<1>5. CASE EnsureSchemaBound(w)
  <2>1. UNCHANGED <<pending, rules, shards>> /\ e <= shards
    BY <1>0, <1>5 DEF EnsureSchemaBound, WorkerSafe
  <2>2. CASE Go(w, "observe") /\ UNCHANGED schema
    <3>1. pc'[w] = "observe" /\ job'[w] = job[w]
      BY <1>0, <2>2, GoMoves
    <3>. QED
      BY <1>0, <1>a, <2>1, <2>2, <3>1, QuietAccepts
  <2>3. CASE Leave(w) /\ UNCHANGED schema
    <3>1. pc'[w] \in {"idle", "sleeping"} /\ job'[w] = NoJob
      BY <1>0, <2>3, ReturnEmpties DEF Leave
    <3>. QED
      BY <1>0, <2>1, <2>3, <3>1, NoJobSafe, QuietAccepts
  <2>4. CASE /\ schema[e] = None
             /\ schema' = [schema EXCEPT ![e] = Inferred(pending[e], job[w].sample)]
             /\ Go(w, "compile")
    <3>1. pc'[w] = "compile" /\ job'[w] = job[w]
      BY <1>0, <2>4, GoMoves
    <3>2. /\ \A d \in Engines : d # e => schema'[d] = schema[d]
          /\ rules[e] = None
      BY <1>0, <2>4 DEF TypeOK, AcceptedInv
    <3>3. HandSafe(w)'
      BY <1>a, <3>1 DEF HandSafe, Accepted, Parsed
    <3>4. \A d \in Engines : Accepted(rules'[d]) /\ Parsed(pending'[d])
      BY <2>1 DEF AcceptedInv
    <3>5. \A d \in Engines : d > shards' => Unborn(d)'
      <4>1. \A d \in Engines : d > shards => d # e
        BY <1>0, <2>1 DEF Engines
      <4>. QED
        BY <2>1, <3>2, <4>1 DEF AcceptedInv, Unborn
    <3>6. /\ FitsSchema(Main)'
          /\ \A d \in Engines : rules'[d] # None => schema'[d] # None
      BY <1>0, <2>1, <3>2 DEF AcceptedInv, FitsSchema
    <3>7. \A d \in Engines : rules[d] # None => rules'[d] # None /\ Follows(d)
      BY <2>1, <3>2 DEF Follows
    <3>. QED
      BY <3>3, <3>4, <3>5, <3>6, <3>7 DEF Accepts
  <2>. QED
    BY <1>5, <2>2, <2>3, <2>4 DEF EnsureSchemaBound
<1>6. CASE CompilePending(w)
  <2>1. /\ UNCHANGED <<schema, shards>> /\ e <= shards
        /\ pending[e] # None /\ schema[e] # None
    BY <1>0, <1>6 DEF CompilePending, WorkerSafe
  <2>. DEFINE rs == Ruleset(pending[e], schema[e])
  <2>2. PICK ok \in Compile(pending[e]) :
            IF ok
            THEN /\ Install(w, e, rs)
                 /\ pending' = [pending EXCEPT ![e] = None]
                 /\ UNCHANGED lock
            ELSE Leave(w) /\ UNCHANGED <<rules, configured, pending>>
    BY <1>6 DEF CompilePending
  <2>3. CASE ok
    <3>1. Install(w, e, rs) /\ pending' = [pending EXCEPT ![e] = None]
      BY <2>2, <2>3
    <3>2. pending[e] \in Contents /\ schema[e] \in Schemas
      BY <1>0, <2>1 DEF TypeOK
    <3>3. rs \in Rulesets /\ rs.content = pending[e] /\ rs.schema = schema[e]
      BY <3>2 DEF Ruleset, Rulesets
    <3>4. pending[e] \notin Invalid
      BY <2>3 DEF Compile
    <3>5. Accepted(rs)
      BY <1>0, <3>3, <3>4 DEF AcceptedInv, Accepted, Parsed
    <3>6. \A d \in Engines : pending'[d] = IF d = e THEN None ELSE pending[d]
      BY <1>0, <3>1 DEF TypeOK
    <3>7. \A d \in Engines : Parsed(pending'[d])
      BY <3>6, NoneParsed DEF AcceptedInv
    <3>8. \A d \in Engines : d > shards => pending'[d] = pending[d]
      BY <1>0, <2>1, <3>6 DEF Engines
    <3>9. rs.schema = schema'[e] /\ \A d \in Engines \ {e} : schema'[d] = schema[d]
      BY <2>1, <3>3
    <3>. HIDE DEF rs
    <3>. QED
      BY <1>0, <2>1, <3>1, <3>3, <3>5, <3>7, <3>8, <3>9, InstallAccepts
  <2>4. CASE ~ok
    <3>1. pc'[w] \in {"idle", "sleeping"} /\ job'[w] = NoJob /\ UNCHANGED <<rules, pending>>
      BY <1>0, <2>2, <2>4, ReturnEmpties DEF Leave
    <3>. QED
      BY <1>0, <2>1, <3>1, NoJobSafe, QuietAccepts
  <2>. QED
    BY <2>3, <2>4
<1>7. CASE Observe(w)
  <2>1. UNCHANGED <<schema, pending, rules, shards>>
    BY <1>7 DEF Observe, engineVars
  <2>2. CASE rules[e] = None
    <3>1. pc'[w] = "empty" /\ job'[w] = job[w]
      BY <1>0, <1>7, <2>2, GoMoves DEF Observe
    <3>. QED
      BY <1>0, <1>a, <2>1, <3>1, QuietAccepts
  <2>3. CASE rules[e] # None
    <3>1. pc'[w] = "use" /\ job'[w] = [job[w] EXCEPT !.rules = rules[e]]
      BY <1>0, <1>7, <2>3, LocalMoves DEF Observe
    <3>2. job'[w].rules = rules[e] /\ job'[w].content = job[w].content
      BY <1>0, <3>1 DEF Jobs
    <3>3. Accepted(job'[w].rules) /\ Parsed(job'[w].content)
      BY <1>0, <1>a, <3>2 DEF AcceptedInv
    <3>. QED
      BY <1>0, <2>1, <3>1, <3>3, QuietAccepts
  <2>. QED
    BY <2>2, <2>3
<1>8. CASE FinishBatch(w)
  <2>1. UNCHANGED <<schema, pending, rules, shards>>
    BY <1>8 DEF FinishBatch
  <2>2. pc'[w] \in {"idle", "sleeping"} /\ job'[w] = NoJob
    BY <1>0, <1>8, ReturnEmpties DEF FinishBatch, Leave
  <2>. QED
    BY <1>0, <2>1, <2>2, NoJobSafe, QuietAccepts
<1>. QED
  BY <1>1, <1>2, <1>3, <1>4, <1>5, <1>6, <1>7, <1>8 DEF Batch

\* A step of a load accepts: a file that does not parse is dropped, one that
\* does not compile is not installed.
LEMMA LoaderAccepts ==
    ASSUME EngineInv, AcceptedInv, FitsSchema(Main), TypeOK', NEW t \in Loaders \cup {Watcher},
           (t \in Loaders /\ StartLoad(t)) \/ Load(t)
    PROVE  Accepts(t)
<1>0. /\ TypeOK /\ LoaderSafe(t) /\ t \in Threads /\ job[t] \in Jobs
      /\ Main \in Engines /\ shards \in 0 .. MaxShards
  <2>1. TypeOK /\ LoaderSafe(t) /\ t \in Threads /\ Main \in Engines
    BY DEF EngineInv, Threads, Engines
  <2>. QED
    BY <2>1 DEF TypeOK
<1>a. HandSafe(t) /\ Accepted(job[t].rules) /\ Parsed(job[t].content)
  BY <1>0 DEF AcceptedInv, HandSafe
<1>1. CASE StartLoad(t)
  <2>1. pc'[t] = "parse" /\ job'[t] = job[t]
    BY <1>0, <1>1, GoMoves DEF StartLoad
  <2>2. UNCHANGED <<schema, pending, rules, shards>>
    BY <1>1 DEF StartLoad, engineVars
  <2>. QED
    BY <1>0, <1>a, <2>1, <2>2, QuietAccepts
<1>2. CASE Parse(t)
  <2>1. UNCHANGED <<schema, pending, rules, shards>>
    BY <1>2 DEF Parse, engineVars
  <2>2. CASE file.content \in Broken \cup {Absent}
    <3>1. pc'[t] \in {"idle", "sleeping", "clear"} /\ job'[t] = NoJob
      BY <1>0, <1>2, <2>2, FailEmpties DEF Parse
    <3>. QED
      BY <1>0, <2>1, <3>1, NoJobSafe, QuietAccepts
  <2>3. CASE file.content \notin Broken \cup {Absent}
    <3>1. pc'[t] = "lock" /\ job'[t] = [NoJob EXCEPT !.content = file.content]
      BY <1>0, <1>2, <2>3, LocalMoves DEF Parse
    <3>2. job'[t].content = file.content /\ job'[t].rules = NoJob.rules
      BY <3>1 DEF NoJob
    <3>3. Accepted(job'[t].rules) /\ Parsed(job'[t].content)
      BY <2>3, <3>2, NoJobSafe DEF Parsed
    <3>. QED
      BY <1>0, <2>1, <3>1, <3>3, QuietAccepts
  <2>. QED
    BY <2>2, <2>3
<1>3. CASE InstallOrDefer(t)
  <2>1. UNCHANGED <<schema, rules, shards>>
    BY <1>3 DEF InstallOrDefer
  <2>2. CASE schema[Main] = None
    <3>1. /\ pc'[t] \in {"idle", "sleeping"} /\ job'[t] = NoJob
          /\ pending' = [pending EXCEPT ![Main] = job[t].content]
      BY <1>0, <1>3, <2>2, ReturnEmpties DEF InstallOrDefer
    <3>2. \A e \in Engines : pending'[e] = IF e = Main THEN job[t].content ELSE pending[e]
      BY <1>0, <3>1 DEF TypeOK
    <3>3. HandSafe(t)'
      BY <3>1, NoJobSafe DEF HandSafe, Accepted, Parsed
    <3>4. \A e \in Engines : Accepted(rules'[e]) /\ Parsed(pending'[e])
      BY <1>a, <2>1, <3>2 DEF AcceptedInv
    <3>5. \A e \in Engines : e > shards' => Unborn(e)'
      BY <1>0, <2>1, <3>2 DEF AcceptedInv, Unborn
    <3>6. \A e \in Engines : rules'[e] # None => schema'[e] # None
      BY <2>1 DEF AcceptedInv
    <3>. QED
      BY <2>1, <3>3, <3>4, <3>5, <3>6 DEF Accepts, Follows, FitsSchema
  <2>3. CASE schema[Main] # None
    <3>1. pc'[t] = "build" /\ job'[t] = job[t] /\ pending' = pending
      BY <1>0, <1>3, <2>3, GoMoves DEF InstallOrDefer
    <3>. QED
      BY <1>0, <1>a, <2>1, <3>1, QuietAccepts
  <2>. QED
    BY <2>2, <2>3
<1>4. CASE BuildRules(t)
  <2>. DEFINE c == job[t].content
              sch == Grown(schema[Main], c)
              rs == Ruleset(c, sch)
  <2>1. UNCHANGED <<pending, shards>> /\ pc[t] = "build"
    BY <1>4 DEF BuildRules
  <2>2. c \in Contents /\ schema[Main] \in Schemas
    BY <1>0, <2>1 DEF LoaderSafe, TypeOK, Jobs
  <2>3. PICK ok \in Compile(c) :
            IF ok
            THEN /\ schema' = [schema EXCEPT ![Main] = sch]
                 /\ Install(t, Main, rs)
                 /\ UNCHANGED lock
            ELSE /\ lock' = [lock EXCEPT ![Main] = None]
                 /\ Fail(t)
                 /\ UNCHANGED <<schema, rules, configured>>
    BY <1>4 DEF BuildRules
  <2>4. CASE ok
    <3>1. schema' = [schema EXCEPT ![Main] = sch] /\ Install(t, Main, rs)
      BY <2>3, <2>4
    <3>2. sch \in Schemas
      BY <2>2, GrownTyped
    <3>3. rs \in Rulesets /\ rs.content = c /\ rs.schema = sch
      BY <2>2, <3>2 DEF Ruleset, Rulesets
    <3>4. c \notin Invalid
      BY <2>4 DEF Compile
    <3>5. Accepted(rs)
      BY <1>a, <3>3, <3>4 DEF Accepted, Parsed
    <3>. HIDE DEF c, sch, rs
    <3>6. \A d \in Engines : schema'[d] = IF d = Main THEN sch ELSE schema[d]
      BY <1>0, <3>1 DEF TypeOK
    <3>7. \A d \in Engines : Parsed(pending'[d])
      BY <2>1 DEF AcceptedInv
    <3>8. \A d \in Engines : d > shards => pending'[d] = pending[d]
      BY <2>1
    <3>9. rs.schema = schema'[Main] /\ \A d \in Engines \ {Main} : schema'[d] = schema[d]
      BY <1>0, <3>3, <3>6
    <3>10. shards' = shards /\ Main <= shards
      BY <1>0, <2>1
    <3>. QED
      BY <1>0, <3>1, <3>3, <3>5, <3>7, <3>8, <3>9, <3>10, InstallAccepts
  <2>5. CASE ~ok
    <3>1. pc'[t] \in {"idle", "sleeping", "clear"} /\ job'[t] = NoJob /\ UNCHANGED <<schema, rules>>
      BY <1>0, <2>3, <2>5, FailEmpties
    <3>. QED
      BY <1>0, <2>1, <3>1, NoJobSafe, QuietAccepts
  <2>. QED
    BY <2>4, <2>5
<1>. QED
  BY <1>1, <1>2, <1>3, <1>4 DEF Load

\* Installing on the shards spreads accepted rules.
LEMMA SpreadAccepts ==
    ASSUME EngineInv, AcceptedInv, FitsSchema(Main), TypeOK', NEW t \in Threads, Spread(t)
    PROVE  Accepts(t)
<1>0. /\ TypeOK /\ job[t] \in Jobs /\ shards \in 0 .. MaxShards /\ Main \in Engines
  <2>1. TypeOK
    BY DEF EngineInv
  <2>. QED
    BY <2>1 DEF TypeOK, Engines
<1>a. HandSafe(t) /\ Accepted(job[t].rules) /\ Parsed(job[t].content)
  BY DEF AcceptedInv, HandSafe
<1>1. CASE InstallShard(t)
  <2>. DEFINE i == job[t].next
  <2>1. /\ pc[t] = "install" /\ i <= job[t].end
        /\ UNCHANGED <<schema, pending, shards>>
        /\ rules' = [rules EXCEPT ![i] = job[t].rules]
    BY <1>1 DEF InstallShard
  <2>2. pc'[t] = "install" /\ job'[t] = [job[t] EXCEPT !.next = i + 1]
    BY <1>0, <1>1, LocalMoves DEF InstallShard
  <2>3. /\ job'[t].rules = job[t].rules /\ job'[t].content = job[t].content
        /\ job'[t].end = job[t].end
    BY <1>0, <2>2 DEF Jobs
  <2>4. job[t].rules # None /\ job[t].end <= shards /\ i \in Int /\ i >= 1 /\ job[t].end \in Int
    BY <1>0, <1>a, <2>1 DEF HandSafe, Jobs
  <2>5. \A e \in Engines : rules'[e] = IF e = i THEN job[t].rules ELSE rules[e]
    BY <1>0, <2>1 DEF TypeOK
  <2>6. \A e \in Engines : e > shards => e # i
    BY <1>0, <2>1, <2>4 DEF Engines
  <2>7. i # Main
    BY <2>4
  <2>. HIDE DEF i
  <2>8. HandSafe(t)'
    BY <1>a, <2>1, <2>2, <2>3, <2>4 DEF HandSafe, Accepted, Parsed
  <2>9. \A e \in Engines : Accepted(rules'[e]) /\ Parsed(pending'[e])
    BY <1>a, <2>1, <2>5 DEF AcceptedInv
  <2>10. \A e \in Engines : e > shards' => Unborn(e)'
    BY <2>1, <2>5, <2>6 DEF AcceptedInv, Unborn
  <2>11. \A e \in Engines : rules'[e] # None => schema'[e] # None
    BY <1>1, <2>1, <2>5 DEF AcceptedInv, InstallShard, i
  <2>. QED
    BY <1>0, <2>1, <2>4, <2>5, <2>7, <2>8, <2>9, <2>10, <2>11 DEF Accepts, Follows, FitsSchema
<1>2. CASE FinishInstall(t)
  <2>1. UNCHANGED <<schema, pending, rules, shards>>
    BY <1>2 DEF FinishInstall
  <2>2. CASE t \in Workers
    <3>1. pc'[t] = "observe" /\ job'[t] = [job[t] EXCEPT !.rules = None]
      BY <1>0, <1>2, <2>2, LocalMoves DEF FinishInstall
    <3>2. job'[t].rules = None /\ job'[t].content = job[t].content
      BY <1>0, <3>1 DEF Jobs
    <3>3. Accepted(job'[t].rules) /\ Parsed(job'[t].content)
      BY <1>a, <3>2 DEF Accepted
    <3>. QED
      BY <2>1, <3>1, <3>3, QuietAccepts
  <2>3. CASE t \notin Workers
    <3>1. pc'[t] \in {"idle", "sleeping"} /\ job'[t] = NoJob
      BY <1>0, <1>2, <2>3, ReturnEmpties DEF FinishInstall
    <3>. QED
      BY <2>1, <3>1, NoJobSafe, QuietAccepts
  <2>. QED
    BY <2>2, <2>3
<1>. QED
  BY <1>1, <1>2 DEF Spread

\* A step of the watcher installs nothing; only clear_ruleset takes rules away.
LEMMA WatcherAccepts ==
    ASSUME EngineInv, AcceptedInv, FitsSchema(Main), StartWatch \/ StopWatch \/ Poll \/ Clear
    PROVE  /\ AcceptedInv' /\ FitsSchema(Main)'
           /\ NeverClears => /\ NeverClears'
                             /\ \A e \in Engines : rules[e] # None => rules'[e] # None /\ Follows(e)
<1>0. /\ TypeOK /\ Watcher \in Threads /\ job[Watcher] \in Jobs
      /\ shards \in Int /\ Main \in Engines
  <2>1. TypeOK /\ Watcher \in Threads /\ Main \in Engines
    BY DEF EngineInv, Threads, Engines
  <2>. QED
    BY <2>1 DEF TypeOK
<1>1. /\ UNCHANGED <<schema, pending, shards>>
      /\ \A e \in Engines : rules'[e] \in {rules[e], None}
  BY <1>0 DEF StartWatch, StopWatch, Poll, PollExists, PollStamp, Clear, ClearMain, ClearShard,
              FinishClear, engineVars, TypeOK
<1>2. /\ FitsSchema(Main)'
      /\ \A e \in Engines : Accepted(rules'[e]) /\ Parsed(pending'[e])
      /\ \A e \in Engines : rules'[e] # None => schema'[e] # None
      /\ \A e \in Engines : Follows(e)
  BY <1>0, <1>1 DEF AcceptedInv, Accepted, FitsSchema, Follows
<1>3. \A e \in Engines : e > shards' => Unborn(e)'
  BY <1>1 DEF AcceptedInv, Unborn
<1>4. CASE PollStamp /\ file.content = Absent
  <2>1. /\ \A u \in Threads : pc'[u] = "dead" /\ job'[u] = job[u]
        /\ rules' = rules
    BY <1>4 DEF PollStamp, engineVars
  <2>2. \A u \in Threads : HandSafe(u)'
    BY <2>1 DEF AcceptedInv, HandSafe, Accepted, Parsed
  <2>. QED
    BY <1>0, <1>2, <1>3, <2>1, <2>2 DEF AcceptedInv, NeverClears
<1>5. CASE ~(PollStamp /\ file.content = Absent)
  <2>1. /\ Accepted(job'[Watcher].rules) /\ Parsed(job'[Watcher].content)
        /\ pc'[Watcher] # "install" /\ Watcher \notin Workers
        /\ \A u \in Threads \ {Watcher} : pc'[u] = pc[u] /\ job'[u] = job[u]
        /\ NeverClears => NeverClears' /\ rules' = rules
    <3>1. CASE StartWatch \/ StopWatch \/ PollExists \/ (PollStamp /\ file.content # Absent)
      <4>1. /\ pc'[Watcher] \in {"sleeping", "off", "stat", "parse"} /\ job'[Watcher] = job[Watcher]
            /\ \A u \in Threads \ {Watcher} : pc'[u] = pc[u] /\ job'[u] = job[u]
            /\ rules' = rules
        BY <1>0, <3>1, GoMoves DEF StartWatch, StopWatch, PollExists, PollStamp, engineVars
      <4>. QED
        BY <1>0, <4>1 DEF AcceptedInv, HandSafe, NeverClears
    <3>2. CASE ClearMain
      <4>1. /\ pc[Watcher] = "clear" /\ pc'[Watcher] = "clearing"
            /\ job'[Watcher] = [NoJob EXCEPT !.end = shards]
            /\ \A u \in Threads \ {Watcher} : pc'[u] = pc[u] /\ job'[u] = job[u]
        BY <1>0, <3>2, LocalMoves DEF ClearMain
      <4>2. job'[Watcher].rules = NoJob.rules /\ job'[Watcher].content = NoJob.content
        BY <4>1 DEF NoJob
      <4>. QED
        BY <4>1, <4>2, NoJobSafe DEF NeverClears
    <3>3. CASE ClearShard
      <4>1. /\ pc[Watcher] = "clearing" /\ pc'[Watcher] = "clearing"
            /\ job'[Watcher] = [job[Watcher] EXCEPT !.next = job[Watcher].next + 1]
            /\ \A u \in Threads \ {Watcher} : pc'[u] = pc[u] /\ job'[u] = job[u]
        BY <1>0, <3>3, LocalMoves DEF ClearShard
      <4>2. job'[Watcher].rules = job[Watcher].rules /\ job'[Watcher].content = job[Watcher].content
        BY <1>0, <4>1 DEF Jobs
      <4>3. HandSafe(Watcher)
        BY <1>0 DEF AcceptedInv
      <4>. QED
        BY <4>1, <4>2, <4>3 DEF HandSafe, NeverClears
    <3>4. CASE FinishClear
      <4>1. /\ pc[Watcher] = "clearing"
            /\ pc'[Watcher] \in {"idle", "sleeping"} /\ job'[Watcher] = NoJob
            /\ \A u \in Threads \ {Watcher} : pc'[u] = pc[u] /\ job'[u] = job[u]
        BY <1>0, <3>4, ReturnEmpties, ReturnMoves DEF FinishClear
      <4>. QED
        BY <4>1, NoJobSafe DEF NeverClears
    <3>. QED
      BY <1>5, <3>1, <3>2, <3>3, <3>4 DEF Poll, Clear
  <2>2. HandSafe(Watcher)'
    BY <2>1 DEF HandSafe, Accepted, Parsed
  <2>3. \A u \in Threads \ {Watcher} : HandSafe(u)'
    BY <1>1, <2>1 DEF AcceptedInv, HandSafe, Accepted, Parsed
  <2>4. \A u \in Threads : HandSafe(u)'
    BY <2>2, <2>3
  <2>. QED
    BY <1>2, <1>3, <2>1, <2>4 DEF AcceptedInv
<1>. QED
  BY <1>4, <1>5

\* With keep_previous no thread but the watcher changes where the watcher is,
\* and a load of its own that fails just ends.
LEMMA NeverClearsStep ==
    ASSUME EngineInv, TypeOK', KeepPrevious, NeverClears, NEW t \in Threads, Frame(t),
           \/ t \in Workers
           \/ t \in Loaders /\ StartLoad(t)
           \/ t \in Loaders \cup {Watcher} /\ Load(t)
           \/ Spread(t)
    PROVE  NeverClears'
<1>0. TypeOK /\ Watcher \in Threads /\ Watcher \notin Workers \cup Loaders
  BY DEF EngineInv, Threads
<1>1. CASE t # Watcher
  BY <1>0, <1>1 DEF Frame, NeverClears
<1>2. CASE t = Watcher
  <2>1. CASE Parse(t)
    BY <1>0, <1>2, <2>1, FailEmpties, LocalMoves DEF Parse, NeverClears
  <2>2. CASE InstallOrDefer(t)
    BY <1>0, <1>2, <2>2, ReturnEmpties, GoMoves DEF InstallOrDefer, NeverClears
  <2>3. CASE BuildRules(t)
    BY <1>0, <1>2, <2>3, FailEmpties, LocalMoves DEF BuildRules, Install, NeverClears
  <2>4. CASE Spread(t)
    BY <1>0, <1>2, <2>4, ReturnEmpties, LocalMoves
       DEF Spread, InstallShard, FinishInstall, NeverClears
  <2>. QED
    BY <1>0, <1>2, <2>1, <2>2, <2>3, <2>4 DEF Load
<1>. QED
  BY <1>1, <1>2

\* No step puts rejected rules anywhere, or takes accepted ones away while the
\* watcher keeps the previous ones.
LEMMA AcceptedStep ==
    ASSUME EngineInv, AcceptedInv, FitsSchema(Main), [Next]_vars
    PROVE  /\ AcceptedInv' /\ FitsSchema(Main)'
           /\ KeepPrevious /\ NeverClears =>
                 /\ NeverClears'
                 /\ \A e \in Engines : rules[e] # None => rules'[e] # None /\ Follows(e)
<1>0. TypeOK'
  BY StepTyped
<1>1. ASSUME NEW w \in Workers, StartBatch(w) \/ Batch(w)
      PROVE  Accepts(w) /\ Frame(w) /\ (KeepPrevious /\ NeverClears => NeverClears')
  <2>1. Accepts(w) /\ Frame(w) /\ w \in Threads
    BY <1>0, <1>1, WorkerAccepts, WorkerStep DEF Threads
  <2>. QED
    BY <1>0, <1>1, <2>1, NeverClearsStep
<1>2. ASSUME NEW t \in Loaders \cup {Watcher}, (t \in Loaders /\ StartLoad(t)) \/ Load(t)
      PROVE  Accepts(t) /\ Frame(t) /\ (KeepPrevious /\ NeverClears => NeverClears')
  <2>1. Accepts(t) /\ Frame(t) /\ t \in Threads
    BY <1>0, <1>2, LoaderAccepts, LoaderStep DEF Threads
  <2>. QED
    BY <1>0, <1>2, <2>1, NeverClearsStep
<1>3. ASSUME NEW t \in Threads, Spread(t)
      PROVE  Accepts(t) /\ Frame(t) /\ (KeepPrevious /\ NeverClears => NeverClears')
  <2>1. Accepts(t) /\ Frame(t)
    BY <1>0, <1>3, SpreadAccepts, SpreadStep
  <2>. QED
    BY <1>0, <1>3, <2>1, NeverClearsStep
<1>4. CASE StartWatch \/ StopWatch \/ Poll \/ Clear
  BY <1>4, WatcherAccepts
<1>5. CASE WriteFile \/ UNCHANGED vars
  BY <1>5 DEF WriteFile, vars, engineVars, AcceptedInv, HandSafe, Accepted, Parsed, Unborn, FitsSchema,
              NeverClears, Follows
<1>6. ASSUME NEW t \in Threads, Accepts(t), Frame(t), KeepPrevious /\ NeverClears => NeverClears'
      PROVE  /\ AcceptedInv' /\ FitsSchema(Main)'
             /\ KeepPrevious /\ NeverClears =>
                   /\ NeverClears'
                   /\ \A e \in Engines : rules[e] # None => rules'[e] # None /\ Follows(e)
  BY <1>6, AcceptsKeeps DEF Accepts
<1>7. Workers \subseteq Threads /\ Loaders \cup {Watcher} \subseteq Threads
  BY DEF Threads
<1>8. ASSUME NEW t \in Threads, InstallOnUnbound(t)
      PROVE  /\ AcceptedInv' /\ FitsSchema(Main)' /\ NeverClears'
             /\ \A e \in Engines : rules[e] # None => rules'[e] # None /\ Follows(e)
  <2>1. UNCHANGED <<schema, pending, rules, shards>>
    BY <1>8, DeathStep DEF engineVars
  <2>2. \A u \in Threads : HandSafe(u)'
    BY <1>8, DeathStep DEF AcceptedInv, HandSafe, Accepted, Parsed
  <2>3. NeverClears'
    BY <1>8, DeathStep DEF NeverClears
  <2>. QED
    BY <2>1, <2>2, <2>3 DEF AcceptedInv, Accepted, Parsed, Unborn, FitsSchema, Follows
<1>. QED
  BY <1>1, <1>2, <1>3, <1>4, <1>5, <1>6, <1>7, <1>8 DEF Next, Terminated

\* The initial states.
LEMMA AcceptedInit == Init => AcceptedInv /\ FitsSchema(Main) /\ NeverClears
<1>. SUFFICES ASSUME Init PROVE AcceptedInv /\ FitsSchema(Main) /\ NeverClears
  OBVIOUS
<1>1. Watcher \in Threads /\ Main \in Engines
  BY DEF Threads, Engines
<1>2. \A t \in Threads : pc[t] \in {"off", "idle"} /\ job[t] = NoJob
  BY DEF Init
<1>3. \A e \in Engines : rules[e] = None /\ pending[e] = None /\ (e # Main => schema[e] = None)
  BY DEF Init
<1>4. \A t \in Threads : HandSafe(t)
  BY <1>2, NoJobSafe DEF HandSafe
<1>5. \A e \in Engines : e > shards => Unborn(e)
  BY <1>3 DEF Init, Unborn, Engines
<1>. QED
  BY <1>1, <1>2, <1>3, <1>4, <1>5, NoneParsed DEF AcceptedInv, FitsSchema, NeverClears, Accepted

\* Rules that do not parse or do not compile are in force nowhere, are not
\* copied to a shard, and no thread has them ready to install (rule_parser.cpp
\* and rule_compiler.cpp throw before install_ruleset is reached).
THEOREM RejectedIsNowhere == Spec => []AcceptedInv
<1>1. Init => EngineInv /\ AcceptedInv /\ FitsSchema(Main)
  BY InitInv, AcceptedInit
<1>2. (EngineInv /\ AcceptedInv /\ FitsSchema(Main)) /\ [Next]_vars
      => (EngineInv /\ AcceptedInv /\ FitsSchema(Main))'
  BY StepInv, AcceptedStep
<1>. QED
  BY <1>1, <1>2, PTL DEF Spec

\* The ruleset in force on the engine the caller holds was compiled against that
\* engine's schema, whenever the schema is inferred or grows
\* (compile_pending_rules_after_bind, install_or_defer_rules).
THEOREM MainRulesFitSchema == Spec => []MainRulesFit
<1>1. Init => EngineInv /\ AcceptedInv /\ FitsSchema(Main)
  BY InitInv, AcceptedInit
<1>2. (EngineInv /\ AcceptedInv /\ FitsSchema(Main)) /\ [Next]_vars
      => (EngineInv /\ AcceptedInv /\ FitsSchema(Main))'
  BY StepInv, AcceptedStep
<1>3. FitsSchema(Main) => MainRulesFit
  BY DEF MainRulesFit
<1>. QED
  BY <1>1, <1>2, <1>3, PTL DEF Spec

\* A reload that fails leaves every active ruleset in force, and the schema it was
\* compiled for, when the engine is configured to keep the previous rules
\* (hot_reload_loop, install_or_defer_rules).
THEOREM FailedReloadsKeep == KeepPrevious => (Spec => FailedReloadKeeps)
<1>. SUFFICES ASSUME KeepPrevious PROVE Spec => FailedReloadKeeps
  OBVIOUS
<1>. DEFINE I == EngineInv /\ AcceptedInv /\ FitsSchema(Main) /\ NeverClears
            Keeps == \A e \in Engines : rules[e] # None =>
                        /\ rules'[e] # None /\ rules'[e].content \notin Broken \cup Invalid
                        /\ schema'[e] = schema[e] \/ rules'[e].schema = schema'[e]
<1>1. Init => I
  BY InitInv, AcceptedInit
<1>2. I /\ [Next]_vars => I'
  BY StepInv, AcceptedStep
<1>3. I /\ [Next]_vars => Keeps
  BY AcceptedStep DEF AcceptedInv, Accepted, Follows
<1>. QED
  BY <1>1, <1>2, <1>3, PTL DEF Spec, FailedReloadKeeps
-----------------------------------------------------------------------------
(* A reload reaches every engine.                                          *)

\* A step that touches neither the engines nor what was loaded, of a thread that
\* is at no label the invariant is about, keeps the invariant.
LEMMA QuietReach ==
    ASSUME EngineInv, ReachInv, NEW t \in Threads,
           \A u \in Threads \ {t} : pc'[u] = pc[u] /\ job'[u] = job[u],
           UNCHANGED <<schema, rules, shards, loaded>>,
           pc[t] \notin {"install", "dead"},
           pc'[t] \notin {"install", "compile", "clear", "clearing"},
           pc'[t] = "grow" => job'[t].rules = rules[Main]
    PROVE  ReachInv'
<1>0. Workers \subseteq Threads /\ Loaders \cup {Watcher} \subseteq Threads /\ Watcher \in Threads
  BY DEF Threads
<1>1. NeverClears'
  BY <1>0 DEF ReachInv, NeverClears
<1>2. BoundInv'
  BY <1>0 DEF ReachInv, BoundInv
<1>3. Loading => Loading'
  BY <1>0 DEF Loading
<1>4. pc[Watcher] = "dead" => pc'[Watcher] = "dead"
  BY <1>0
<1>5. Agreed'
  BY <1>3, <1>4 DEF ReachInv, Agreed
<1>6. \A u \in Loaders \cup {Watcher} : Installed(u)'
  BY <1>0 DEF ReachInv, Installed
<1>7. \A u \in Workers : CopiesCurrent(u)'
  BY <1>0 DEF ReachInv, CopiesCurrent
<1>. QED
  BY <1>1, <1>2, <1>5, <1>6, <1>7 DEF ReachInv

\* Whoever holds engine 0's lock is the only one that installs or copies.
LEMMA OneAtMain ==
    ASSUME EngineInv, NEW t \in Threads, lock[Main] = t
    PROVE  /\ \A u \in (Loaders \cup {Watcher}) \ {t} : pc[u] # "install"
           /\ \A u \in Workers \ {t} : pc[u] # "grow"
BY DEF EngineInv, LoaderSafe, WorkerSafe

\* A step of a batch: new shards agree with the others.
LEMMA WorkerReaches ==
    ASSUME EngineInv, AcceptedInv, ReachInv, TypeOK', NEW w \in Workers,
           StartBatch(w) \/ Batch(w)
    PROVE  ReachInv'
<1>. DEFINE e == job[w].engine
<1>0. /\ TypeOK /\ WorkerSafe(w) /\ w \in Threads
      /\ job[w] \in Jobs /\ e \in Engines /\ e \in Nat
      /\ shards \in Nat /\ shards \in 0 .. MaxShards /\ Main \in Engines
  BY WorkerFacts
<1>f. Frame(w)
  BY WorkerStep
<1>u. \A u \in Threads \ {w} : pc'[u] = pc[u] /\ job'[u] = job[u]
  BY <1>f DEF Frame
<1>1. CASE StartBatch(w)
  <2>1. PICK d \in Engines, s \in Samples :
            Local(w, [NoJob EXCEPT !.engine = d, !.sample = s],
                  IF d = Main THEN "enter" ELSE "ensure")
    BY <1>1 DEF StartBatch
  <2>2. pc'[w] \in {"enter", "ensure"} /\ pc[w] = "idle"
    BY <1>0, <1>1, <2>1, LocalMoves DEF StartBatch
  <2>3. UNCHANGED <<schema, rules, shards, loaded>>
    BY <1>1 DEF StartBatch, engineVars
  <2>. QED
    BY <1>0, <1>u, <2>2, <2>3, QuietReach
<1>2. CASE EnsureShards(w)
  <2>1. UNCHANGED <<schema, rules, shards, loaded>> /\ pc[w] = "ensure"
    BY <1>2 DEF EnsureShards
  <2>2. CASE e <= shards
    <3>1. pc'[w] = "fetch"
      BY <1>0, <1>2, <2>2, GoMoves DEF EnsureShards
    <3>. QED
      BY <1>0, <1>u, <2>1, <3>1, QuietReach
  <2>3. CASE ~(e <= shards)
    <3>1. pc'[w] = "grow" /\ job'[w] = [job[w] EXCEPT !.rules = rules[Main]]
      BY <1>0, <1>2, <2>3, LocalMoves DEF EnsureShards
    <3>2. job'[w].rules = rules[Main]
      BY <1>0, <3>1 DEF Jobs
    <3>. QED
      BY <1>0, <1>u, <2>1, <3>1, <3>2, QuietReach
  <2>. QED
    BY <2>2, <2>3
<1>3. CASE GrowShards(w)
  <2>. DEFINE new == shards + 1 .. e
  <2>1. pc[w] = "grow" /\ pc'[w] = "fetch" /\ shards' = e /\ loaded' = loaded
    BY <1>0, <1>3, LocalMoves DEF GrowShards
  <2>2. \A d \in Engines :
            /\ schema'[d] = IF d \in new THEN schema[Main] ELSE schema[d]
            /\ rules'[d] = IF d \in new THEN job[w].rules ELSE rules[d]
    BY <1>3 DEF GrowShards
  <2>3. lock[Main] = w /\ e > shards
    BY <1>0, <2>1 DEF WorkerSafe
  <2>4. /\ \A u \in Loaders \cup {Watcher} : pc[u] # "install"
        /\ \A u \in Workers \ {w} : pc[u] # "grow"
    <3>1. w \notin Loaders \cup {Watcher}
      OBVIOUS
    <3>. QED
      BY <1>0, <2>3, <3>1, OneAtMain
  <2>5. /\ \A u \in Loaders \cup {Watcher} : pc'[u] = pc[u]
        /\ \A u \in Workers \ {w} : pc'[u] = pc[u]
    BY <1>u DEF Threads
  <2>6. job[w].rules = rules[Main]
    BY <2>1 DEF ReachInv, CopiesCurrent
  <2>7. \A d \in Engines : d <= shards' => d \in new \/ d <= shards
    BY <1>0, <2>1 DEF Engines
  <2>8. Main <= shards
    BY <1>0
  <2>. HIDE DEF new
  <2>9. NeverClears'
    BY <2>5 DEF ReachInv, NeverClears
  <2>10. BoundInv'
    <3>1. \A d \in Engines : d <= shards' => schema'[d] # None
      BY <1>0, <2>2, <2>7, <2>8 DEF ReachInv, BoundInv
    <3>2. \A u \in Workers : pc'[u] \notin {"compile", "install"}
      BY <2>1, <2>5 DEF ReachInv, BoundInv
    <3>. QED
      BY <3>1, <3>2 DEF BoundInv
  <2>11. Agreed'
    <3>. SUFFICES ASSUME pc'[Watcher] # "dead", loaded' # None, NEW d \in Engines, d <= shards'
                  PROVE  rules'[d] # None /\ rules'[d].content = loaded'
      BY DEF Agreed
    <3>1. ~Loading /\ pc[Watcher] # "dead" /\ loaded # None
      BY <2>1, <2>4, <2>5 DEF Loading
    <3>2. \A x \in Engines : x <= shards => rules[x] # None /\ rules[x].content = loaded
      BY <3>1 DEF ReachInv, Agreed
    <3>3. rules'[d] = rules[Main] \/ (d <= shards /\ rules'[d] = rules[d])
      BY <2>2, <2>6, <2>7
    <3>. QED
      BY <1>0, <2>1, <2>8, <3>2, <3>3
  <2>12. \A u \in Loaders \cup {Watcher} : Installed(u)'
    BY <2>4, <2>5 DEF Installed
  <2>13. \A u \in Workers : CopiesCurrent(u)'
    BY <2>1, <2>4, <2>5 DEF CopiesCurrent
  <2>. QED
    BY <2>9, <2>10, <2>11, <2>12, <2>13 DEF ReachInv
<1>4. CASE FetchShard(w) \/ Enter(w)
  <2>1. pc'[w] \in {"enter", "bind"} /\ pc[w] \in {"fetch", "enter"}
    BY <1>0, <1>4, GoMoves DEF FetchShard, Enter
  <2>2. UNCHANGED <<schema, rules, shards, loaded>>
    BY <1>4 DEF FetchShard, Enter, engineVars
  <2>. QED
    BY <1>0, <1>u, <2>1, <2>2, QuietReach
<1>5. CASE EnsureSchemaBound(w)
  <2>1. UNCHANGED <<rules, shards, loaded>> /\ pc[w] = "bind" /\ e <= shards
    BY <1>0, <1>5 DEF EnsureSchemaBound, WorkerSafe
  <2>2. schema[e] # None
    BY <1>0, <2>1 DEF ReachInv, BoundInv
  <2>3. Go(w, "observe") /\ UNCHANGED schema
    BY <1>5, <2>2 DEF EnsureSchemaBound
  <2>4. pc'[w] = "observe"
    BY <1>0, <2>3, GoMoves
  <2>. QED
    BY <1>0, <1>u, <2>1, <2>3, <2>4, QuietReach
<1>6. CASE CompilePending(w)
  BY <1>6 DEF CompilePending, ReachInv, BoundInv
<1>7. CASE Observe(w)
  <2>1. UNCHANGED <<schema, rules, shards, loaded>> /\ pc[w] = "observe"
    BY <1>7 DEF Observe, engineVars
  <2>2. pc'[w] \in {"empty", "use"}
    BY <1>0, <1>7, GoMoves, LocalMoves DEF Observe
  <2>. QED
    BY <1>0, <1>u, <2>1, <2>2, QuietReach
<1>8. CASE FinishBatch(w)
  <2>1. UNCHANGED <<schema, rules, shards, loaded>> /\ pc[w] \in {"use", "empty"}
    BY <1>8 DEF FinishBatch
  <2>2. pc'[w] \in {"idle", "sleeping"}
    BY <1>0, <1>8, ReturnEmpties DEF FinishBatch, Leave
  <2>. QED
    BY <1>0, <1>u, <2>1, <2>2, QuietReach
<1>. QED
  BY <1>1, <1>2, <1>3, <1>4, <1>5, <1>6, <1>7, <1>8 DEF Batch

\* A step of a load: it installs on the engine itself before any shard.
LEMMA LoaderReaches ==
    ASSUME KeepPrevious, EngineInv, AcceptedInv, ReachInv, TypeOK', NEW t \in Loaders \cup {Watcher},
           (t \in Loaders /\ StartLoad(t)) \/ Load(t)
    PROVE  ReachInv'
<1>0. /\ TypeOK /\ LoaderSafe(t) /\ t \in Threads /\ job[t] \in Jobs
      /\ Main \in Engines /\ shards \in 0 .. MaxShards /\ Main <= shards
  <2>1. TypeOK /\ LoaderSafe(t) /\ t \in Threads /\ Main \in Engines
    BY DEF EngineInv, Threads, Engines
  <2>. QED
    BY <2>1 DEF TypeOK
<1>u. \A u \in Threads \ {t} : pc'[u] = pc[u] /\ job'[u] = job[u]
  BY LoaderStep DEF Frame
<1>1. CASE StartLoad(t)
  <2>1. pc'[t] = "parse" /\ pc[t] = "idle"
    BY <1>0, <1>1, GoMoves DEF StartLoad
  <2>2. UNCHANGED <<schema, rules, shards, loaded>>
    BY <1>1 DEF StartLoad, engineVars
  <2>. QED
    BY <1>0, <1>u, <2>1, <2>2, QuietReach
<1>2. CASE Parse(t)
  <2>1. UNCHANGED <<schema, rules, shards, loaded>> /\ pc[t] = "parse"
    BY <1>2 DEF Parse, engineVars
  <2>2. pc'[t] \in {"idle", "sleeping", "lock"}
    BY <1>0, <1>2, FailEmpties, LocalMoves DEF Parse
  <2>. QED
    BY <1>0, <1>u, <2>1, <2>2, QuietReach
<1>3. CASE InstallOrDefer(t)
  <2>1. schema[Main] # None
    BY <1>0 DEF ReachInv, BoundInv
  <2>2. UNCHANGED <<schema, rules, shards, loaded>> /\ pc[t] = "lock" /\ Go(t, "build")
    BY <1>3, <2>1 DEF InstallOrDefer
  <2>3. pc'[t] = "build"
    BY <1>0, <2>2, GoMoves
  <2>. QED
    BY <1>0, <1>u, <2>2, <2>3, QuietReach
<1>4. CASE BuildRules(t)
  <2>. DEFINE c == job[t].content
              sch == Grown(schema[Main], c)
              rs == Ruleset(c, sch)
              j == [job[t] EXCEPT !.rules = rs, !.next = 1, !.end = shards]
  <2>1. UNCHANGED <<pending, shards, loaded>> /\ pc[t] = "build" /\ lock[Main] = t
    BY <1>0, <1>4 DEF BuildRules, LoaderSafe
  <2>2. c \in Contents /\ schema[Main] \in Schemas
    BY <1>0, <2>1 DEF LoaderSafe, TypeOK, Jobs
  <2>3. CASE schema' = [schema EXCEPT ![Main] = sch] /\ Install(t, Main, rs)
    <3>1. sch \in Schemas /\ sch # None
      BY <2>2, GrownTyped, SchemaAssumption
    <3>2. rs.content = c
      BY DEF Ruleset
    <3>3. pc'[t] = "install" /\ job'[t] = j /\ rules' = [rules EXCEPT ![Main] = rs]
      BY <1>0, <2>3, LocalMoves DEF Install
    <3>4. j.rules = rs /\ j.content = c /\ j.next = 1 /\ j.end = shards
      BY <1>0 DEF Jobs
    <3>. HIDE DEF c, sch, rs, j
    <3>5. /\ \A u \in (Loaders \cup {Watcher}) \ {t} : pc'[u] # "install"
          /\ \A u \in Workers : u # t /\ pc'[u] # "grow"
          /\ \A u \in Workers : pc'[u] = pc[u]
          /\ pc'[Watcher] \notin {"clear", "clearing"}
      <4>1. \A u \in Workers : u # t /\ u \in Threads
        BY DEF Threads
      <4>2. \A u \in Loaders \cup {Watcher} : u \in Threads
        BY DEF Threads
      <4>3. /\ \A u \in (Loaders \cup {Watcher}) \ {t} : pc[u] # "install"
            /\ \A u \in Workers \ {t} : pc[u] # "grow"
        BY <1>0, <2>1, OneAtMain
      <4>. QED
        BY <1>u, <3>3, <4>1, <4>2, <4>3 DEF ReachInv, NeverClears
    <3>6. BoundInv'
      <4>1. \A d \in Engines : schema'[d] = IF d = Main THEN sch ELSE schema[d]
        BY <1>0, <2>3 DEF TypeOK
      <4>2. shards' = shards
        BY <2>1
      <4>. QED
        BY <3>1, <3>5, <4>1, <4>2 DEF ReachInv, BoundInv
    <3>7. Agreed'
      BY <3>3 DEF Agreed, Loading
    <3>8. \A u \in Loaders \cup {Watcher} : Installed(u)'
      <4>1. rules'[Main] = rs
        BY <1>0, <3>3 DEF TypeOK
      <4>2. \A d \in Engines : d < 1 => d = Main
        BY DEF Engines
      <4>3. shards' = shards
        BY <2>1
      <4>4. Installed(t)'
        BY <3>2, <3>3, <3>4, <4>1, <4>2, <4>3 DEF Installed
      <4>. QED
        BY <3>5, <4>4 DEF Installed
    <3>9. \A u \in Workers : CopiesCurrent(u)'
      BY <3>5 DEF CopiesCurrent
    <3>. QED
      BY <3>5, <3>6, <3>7, <3>8, <3>9 DEF ReachInv, NeverClears
  <2>4. CASE Fail(t) /\ UNCHANGED <<schema, rules, configured>>
    <3>1. pc'[t] \in {"idle", "sleeping"}
      BY <1>0, <2>4, FailEmpties
    <3>. QED
      BY <1>0, <1>u, <2>1, <2>4, <3>1, QuietReach
  <2>. QED
    BY <1>4, <2>3, <2>4 DEF BuildRules
<1>. QED
  BY <1>1, <1>2, <1>3, <1>4 DEF Load

\* The loop over the shards: what is behind it has the new rules, and at its end
\* that is every shard.
LEMMA SpreadReaches ==
    ASSUME EngineInv, AcceptedInv, ReachInv, TypeOK', NEW t \in Threads, Spread(t)
    PROVE  ReachInv'
<1>0. /\ TypeOK /\ job[t] \in Jobs /\ shards \in 0 .. MaxShards /\ Main \in Engines
      /\ pc[t] = "install" /\ HandSafe(t)
  <2>1. TypeOK
    BY DEF EngineInv
  <2>. QED
    BY <2>1 DEF TypeOK, Engines, Spread, InstallShard, FinishInstall, AcceptedInv
<1>1. t \in Loaders \cup {Watcher} /\ t \notin Workers
  BY <1>0 DEF ReachInv, BoundInv, Threads
<1>2. Installed(t) /\ lock[Main] = t
  BY <1>0, <1>1 DEF ReachInv, EngineInv, LoaderSafe
<1>u. \A u \in Threads \ {t} : pc'[u] = pc[u] /\ job'[u] = job[u]
  BY SpreadStep DEF Frame
<1>3. /\ \A u \in (Loaders \cup {Watcher}) \ {t} : pc'[u] # "install"
      /\ \A u \in Workers : pc'[u] # "grow" /\ pc'[u] = pc[u]
      /\ \A u \in (Loaders \cup {Watcher}) \ {t} : pc'[u] = pc[u]
  <2>1. \A u \in Workers : u # t /\ u \in Threads
    BY <1>1 DEF Threads
  <2>2. \A u \in Loaders \cup {Watcher} : u \in Threads
    BY DEF Threads
  <2>3. /\ \A u \in (Loaders \cup {Watcher}) \ {t} : pc[u] # "install"
        /\ \A u \in Workers \ {t} : pc[u] # "grow"
    BY <1>0, <1>2, OneAtMain
  <2>. QED
    BY <1>u, <2>1, <2>2, <2>3
<1>4. \A u \in Workers : CopiesCurrent(u)'
  BY <1>3 DEF CopiesCurrent
<1>5. job[t].next \in Int /\ job[t].end \in Int /\ job[t].next >= 1
  BY <1>0 DEF Jobs
<1>6. CASE InstallShard(t)
  <2>. DEFINE i == job[t].next
  <2>1. /\ i <= job[t].end
        /\ UNCHANGED <<schema, pending, shards, loaded>>
        /\ rules' = [rules EXCEPT ![i] = job[t].rules]
    BY <1>6 DEF InstallShard
  <2>2. pc'[t] = "install" /\ job'[t] = [job[t] EXCEPT !.next = i + 1]
    BY <1>0, <1>6, LocalMoves DEF InstallShard
  <2>3. /\ job'[t].rules = job[t].rules /\ job'[t].content = job[t].content
        /\ job'[t].end = job[t].end /\ job'[t].next = i + 1
    BY <1>0, <2>2 DEF Jobs
  <2>4. \A e \in Engines : rules'[e] = IF e = i THEN job[t].rules ELSE rules[e]
    BY <1>0, <2>1 DEF TypeOK
  <2>5. \A e \in Engines : e < i + 1 => e = i \/ e < i
    BY <1>5 DEF Engines
  <2>. HIDE DEF i
  <2>6. Installed(t)'
    BY <1>0, <1>2, <2>1, <2>2, <2>3, <2>4, <2>5 DEF Installed, i
  <2>7. \A u \in Loaders \cup {Watcher} : Installed(u)'
    BY <1>3, <2>6 DEF Installed
  <2>8. Agreed'
    BY <1>1, <2>2 DEF Agreed, Loading
  <2>9. BoundInv'
    BY <1>3, <2>1 DEF ReachInv, BoundInv
  <2>10. NeverClears'
    BY <1>3, <2>2 DEF ReachInv, NeverClears
  <2>. QED
    BY <1>4, <2>7, <2>8, <2>9, <2>10 DEF ReachInv
<1>7. CASE FinishInstall(t)
  <2>1. /\ UNCHANGED <<schema, rules, shards>> /\ loaded' = job[t].content
        /\ job[t].next > job[t].end /\ Return(t)
    BY <1>1, <1>7 DEF FinishInstall
  <2>2. pc'[t] \in {"idle", "sleeping"}
    BY <1>0, <2>1, ReturnEmpties
  <2>3. /\ job[t].rules # None /\ job[t].rules.content = job[t].content
        /\ job[t].end = shards
        /\ \A e \in Engines : e < job[t].next => rules[e] = job[t].rules
    BY <1>0, <1>2 DEF HandSafe, Installed
  <2>4. \A e \in Engines : e <= shards' => rules'[e] = job[t].rules
    <3>1. \A e \in Engines : e <= shards => e < job[t].next
      BY <1>0, <1>5, <2>1, <2>3 DEF Engines
    <3>. QED
      BY <2>1, <2>3, <3>1
  <2>5. Agreed'
    BY <2>1, <2>3, <2>4 DEF Agreed
  <2>6. \A u \in Loaders \cup {Watcher} : Installed(u)'
    BY <1>3, <2>2 DEF Installed
  <2>7. BoundInv'
    BY <1>3, <2>1 DEF ReachInv, BoundInv
  <2>8. NeverClears'
    BY <1>3, <2>2 DEF ReachInv, NeverClears
  <2>. QED
    BY <1>4, <2>5, <2>6, <2>7, <2>8 DEF ReachInv
<1>. QED
  BY <1>6, <1>7 DEF Spread

\* A step of the watcher's own loop.
LEMMA WatcherReaches ==
    ASSUME EngineInv, ReachInv, StartWatch \/ StopWatch \/ Poll \/ Clear
    PROVE  ReachInv'
<1>0. TypeOK /\ Watcher \in Threads
  BY DEF EngineInv, Threads
<1>1. ~Clear
  BY DEF Clear, ClearMain, ClearShard, FinishClear, ReachInv, NeverClears
<1>2. UNCHANGED <<schema, rules, shards, loaded>>
  BY <1>1 DEF StartWatch, StopWatch, Poll, PollExists, PollStamp, engineVars
<1>3. CASE PollStamp /\ file.content = Absent
  <2>1. \A u \in Threads : pc'[u] = "dead"
    BY <1>3 DEF PollStamp
  <2>2. /\ pc'[Watcher] = "dead"
        /\ \A u \in Workers : pc'[u] = "dead"
        /\ \A u \in Loaders \cup {Watcher} : pc'[u] = "dead"
    BY <2>1 DEF Threads
  <2>. QED
    BY <1>2, <2>2 DEF ReachInv, NeverClears, BoundInv, Agreed, Installed, CopiesCurrent
<1>4. CASE ~(PollStamp /\ file.content = Absent)
  <2>1. /\ pc[Watcher] \in {"off", "sleeping", "stat"}
        /\ pc'[Watcher] \in {"sleeping", "off", "stat", "parse"}
        /\ \A u \in Threads \ {Watcher} : pc'[u] = pc[u] /\ job'[u] = job[u]
    BY <1>0, <1>1, <1>4, GoMoves DEF StartWatch, StopWatch, Poll, PollExists, PollStamp
  <2>. QED
    BY <1>0, <1>2, <2>1, QuietReach
<1>. QED
  BY <1>3, <1>4

\* The initial states of an engine with a declared schema.
LEMMA ReachInit == Declared /\ Init => ReachInv
<1>. SUFFICES ASSUME Declared, Init PROVE ReachInv
  OBVIOUS
<1>1. DeclaredSchema # None
  <2>1. DeclaredSchema \in Schemas
    BY DEF DeclaredSchema, Schemas
  <2>. QED
    BY <2>1, SchemaAssumption
<1>2. \A e \in Engines : e <= shards => schema[e] # None
  BY <1>1 DEF Init, Engines
<1>3. \A t \in Threads : pc[t] \in {"off", "idle"}
  BY DEF Init
<1>4. /\ \A w \in Workers : pc[w] \in {"off", "idle"}
      /\ \A t \in Loaders \cup {Watcher} : pc[t] \in {"off", "idle"}
  BY <1>3 DEF Threads
<1>5. loaded = None
  BY DEF Init
<1>. QED
  BY <1>2, <1>4, <1>5
     DEF ReachInv, NeverClears, BoundInv, Agreed, Installed, CopiesCurrent

\* Every step of an engine that keeps its previous rules.
LEMMA ReachStep ==
    ASSUME KeepPrevious, EngineInv, AcceptedInv, ReachInv, [Next]_vars
    PROVE  ReachInv'
<1>0. TypeOK'
  BY StepTyped
<1>1. ASSUME NEW w \in Workers, StartBatch(w) \/ Batch(w) PROVE ReachInv'
  BY <1>0, <1>1, WorkerReaches
<1>2. ASSUME NEW t \in Loaders \cup {Watcher}, (t \in Loaders /\ StartLoad(t)) \/ Load(t)
      PROVE  ReachInv'
  BY <1>0, <1>2, LoaderReaches
<1>3. ASSUME NEW t \in Threads, Spread(t) PROVE ReachInv'
  BY <1>0, <1>3, SpreadReaches
<1>4. CASE StartWatch \/ StopWatch \/ Poll \/ Clear
  BY <1>4, WatcherReaches
<1>5. CASE WriteFile \/ UNCHANGED vars
  BY <1>5 DEF WriteFile, vars, engineVars, ReachInv, NeverClears, BoundInv, Agreed, Loading,
              Installed, CopiesCurrent
<1>6. ASSUME NEW t \in Threads, InstallOnUnbound(t) PROVE ReachInv'
  <2>1. UNCHANGED <<schema, rules, shards, loaded>>
    BY <1>6, DeathStep DEF engineVars
  <2>2. /\ pc'[Watcher] = "dead"
        /\ \A u \in Workers : pc'[u] = "dead"
        /\ \A u \in Loaders \cup {Watcher} : pc'[u] = "dead"
    BY <1>6, DeathStep
  <2>. QED
    BY <2>1, <2>2 DEF ReachInv, NeverClears, BoundInv, Agreed, Installed, CopiesCurrent
<1>. QED
  BY <1>1, <1>2, <1>3, <1>4, <1>5, <1>6 DEF Next, Terminated

\* The invariant of an engine with a declared schema that keeps its previous
\* rules: one load installs at a time, on the engine before its shards, and a
\* new shard copies rules that nobody is replacing (install_ruleset and
\* ensure_partition_shards under engine 0's state_mutex_).
THEOREM ReachInvariant == Declared /\ KeepPrevious => (Spec => []ReachInv)
<1>. SUFFICES ASSUME Declared, KeepPrevious PROVE Spec => []ReachInv
  OBVIOUS
<1>. DEFINE I == EngineInv /\ AcceptedInv /\ FitsSchema(Main) /\ ReachInv
<1>1. Init => I
  BY InitInv, AcceptedInit, ReachInit
<1>2. I /\ [Next]_vars => I'
  BY StepInv, AcceptedStep, ReachStep
<1>. QED
  BY <1>1, <1>2, PTL DEF Spec

\* Once a load has returned, the engine and every shard have its rules, however
\* many shards, loaders and batches there are (install_ruleset,
\* ensure_partition_shards).
THEOREM ReloadsReachEngines == Declared /\ KeepPrevious => (Spec => []ReloadReachesEngines)
<1>. SUFFICES ASSUME Declared, KeepPrevious PROVE Spec => []ReloadReachesEngines
  OBVIOUS
<1>1. EngineInv /\ ReachInv => ReloadReachesEngines
  <2>. SUFFICES ASSUME EngineInv, ReachInv, Quiet, loaded # None, NEW e \in 0 .. shards
                PROVE  /\ schema[e] # None
                       /\ rules[e] # None /\ rules[e].content = loaded
    BY DEF ReloadReachesEngines
  <2>1. e \in Engines /\ e <= shards
    BY DEF EngineInv, TypeOK, Engines
  <2>2. ~Loading /\ pc[Watcher] # "dead"
    BY DEF Quiet, Loading, Threads
  <2>. QED
    BY <2>1, <2>2 DEF ReachInv, BoundInv, Agreed
<1>. QED
  BY <1>1, EngineInvariant, ReachInvariant, PTL
=============================================================================
