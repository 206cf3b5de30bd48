----------------------------- MODULE RuleEngine -----------------------------
(***************************************************************************)
(* The life cycle of a RuleEngine (src/core/engine.cpp): schema binding,   *)
(* installation of rules, hot reload, and batches that are evaluated on    *)
(* the engine itself or on its partition shards while rules are replaced.  *)
(*                                                                         *)
(* Engine 0 is the engine the caller holds, engine i > 0 its partition     *)
(* shard i - 1.  Each has its own state_mutex_.  Three kinds of threads    *)
(* run: workers evaluate batches, loaders call load_rules or               *)
(* reload_rules_now, and the watcher is the hot_reload_loop.  A rules file *)
(* is known by its content; Compile says what becomes of one.              *)
(***************************************************************************)
EXTENDS Integers, Sequences, FiniteSets

CONSTANTS
    Workers,        \* threads that evaluate batches
    Loaders,        \* threads that load the rules file
    Watcher,        \* the thread of hot_reload_loop
    MaxShards,      \* partitions the workers use
    Contents,       \* what the rules file may contain
    Broken,         \* contents that do not parse
    Invalid,        \* contents that parse and do not compile
    Flaky,          \* contents whose lookups may be unreadable for a while
    Growing,        \* contents with an array_any condition of their own
    Samples,        \* first batches, as far as inference tells them apart
    Unlearnable,    \* first batches from which no schema can be inferred
    Declared,       \* the schema is given to the constructor
    KeepPrevious,   \* hot_reload_keep_previous_on_failure
    Absent,         \* the rules file does not exist
    None,           \* no thread, no content, no ruleset
    MaxBatches,     \* bound on the batches evaluated
    MaxLoads,       \* bound on the calls of load_rules
    MaxWrites       \* bound on the changes of the rules file

ASSUME EngineAssumption ==
    /\ MaxShards \in Nat
    /\ {Broken, Invalid, Flaky, Growing} \subseteq SUBSET Contents
    /\ Unlearnable \subseteq Samples
    /\ Declared \in BOOLEAN /\ KeepPrevious \in BOOLEAN
    /\ Absent \notin Contents
    /\ None \notin Contents \cup Workers \cup Loaders \cup {Watcher}
    /\ Watcher \notin Workers \cup Loaders
    /\ Workers \cap Loaders = {}
    /\ {MaxBatches, MaxLoads, MaxWrites} \subseteq Nat

VARIABLES
    lock,       \* engine -> the thread that holds its state_mutex_
    schema,     \* engine -> its schema_, None while UNBOUND
    pending,    \* engine -> pending_rules_
    rules,      \* engine -> ruleset_, the pointer batches observe
    configured, \* engine -> the ruleset its windows, projection and array
                \*           channels are set up for
    shards,     \* partition_shards_.size()
    pc,         \* thread -> where it is
    job,        \* thread -> its local variables
    file,       \* the rules file: content and modification time
    last,       \* hot_reload_loop's last
    loaded,     \* the content of the last load that succeeded
    batches, loads

engineVars == <<lock, schema, pending, rules, configured, shards>>
vars == <<engineVars, pc, job, file, last, loaded, batches, loads>>

Main == 0
Engines == 0 .. MaxShards
Threads == Workers \cup Loaders \cup {Watcher}
-----------------------------------------------------------------------------
(* Schemas and compilation.                                                *)

Schemas == [from : Contents \cup {None}, sample : Samples \cup {None}, grown : Seq(Growing)]

\* Rulesets remember the schema they were compiled against.
Rulesets == [content : Contents, schema : Schemas]

\* None is neither a schema nor a ruleset.
ASSUME SchemaAssumption == None \notin Schemas \cup Rulesets

\* A schema is the caller's, or it was inferred for the rules of one content
\* from one sample; array_any fields are appended to it in the order of the
\* reloads that brought them.
DeclaredSchema == [from |-> None, sample |-> None, grown |-> <<>>]
Inferred(c, s) == [from |-> c, sample |-> s, grown |-> <<>>]

\* schema_with_array_any_fields: inference already has the fields of its
\* own rules.
Grown(sch, c) ==
    IF c \in Growing /\ sch.from # c /\ \A i \in DOMAIN sch.grown : sch.grown[i] # c
    THEN [sch EXCEPT !.grown = Append(@, c)]
    ELSE sch

\* compile_rule_file: the outcomes of compiling a content.
Compile(c) == IF c \in Invalid THEN {FALSE}
              ELSE IF c \in Flaky THEN BOOLEAN
              ELSE {TRUE}

Ruleset(c, sch) == [content |-> c, schema |-> sch]

NoJob == [engine |-> Main, sample |-> None, rules |-> None, content |-> None,
          next |-> 1, end |-> 0]

\* The end of a thread's call.
Rest(t) == IF t = Watcher THEN "sleeping" ELSE "idle"
Return(t) == /\ pc' = [pc EXCEPT ![t] = Rest(t)]
             /\ job' = [job EXCEPT ![t] = NoJob]
Go(t, label) == pc' = [pc EXCEPT ![t] = label] /\ UNCHANGED job
Local(t, j, label) == pc' = [pc EXCEPT ![t] = label] /\ job' = [job EXCEPT ![t] = j]
-----------------------------------------------------------------------------
Init ==
    /\ lock = [e \in Engines |-> None]
    /\ schema = [e \in Engines |-> IF Declared /\ e = Main THEN DeclaredSchema ELSE None]
    /\ pending = [e \in Engines |-> None]
    /\ rules = [e \in Engines |-> None]
    /\ configured = [e \in Engines |-> None]
    /\ shards = 0
    /\ pc = [t \in Threads |-> IF t = Watcher THEN "off" ELSE "idle"]
    /\ job = [t \in Threads |-> NoJob]
    /\ \E c \in Contents : file = [content |-> c, stamp |-> 0]
    /\ last = 0
    /\ loaded = None
    /\ batches = 0 /\ loads = 0
-----------------------------------------------------------------------------
(* Workers: evaluate_* on engine 0, evaluate_partition on a shard.         *)

StartBatch(w) ==
    /\ pc[w] = "idle" /\ batches < MaxBatches
    /\ \E e \in Engines, s \in Samples :
          Local(w, [NoJob EXCEPT !.engine = e, !.sample = s],
                IF e = Main THEN "enter" ELSE "ensure")
    /\ batches' = batches + 1
    /\ UNCHANGED <<engineVars, file, last, loaded, loads>>

\* ensure_partition_shards takes the lock of engine 0 and, when shards are
\* missing, the ruleset that is active now.
EnsureShards(w) ==
    /\ pc[w] = "ensure" /\ lock[Main] = None
    /\ IF job[w].engine <= shards
       THEN Go(w, "fetch") /\ UNCHANGED lock
       ELSE /\ lock' = [lock EXCEPT ![Main] = w]
            /\ Local(w, [job[w] EXCEPT !.rules = rules[Main]], "grow")
    /\ UNCHANGED <<schema, pending, rules, configured, shards, file, last, loaded,
                   batches, loads>>

\* Mutant: the shards are added to those there are.
GrowShards_Adding(w) ==
    /\ pc[w] = "grow"
    /\ shards' = shards + job[w].engine
    /\ lock' = [lock EXCEPT ![Main] = None]
    /\ Local(w, [job[w] EXCEPT !.rules = None], "fetch")
    /\ UNCHANGED <<schema, pending, rules, configured, file, last, loaded, batches, loads>>

\* The new shards get copies of engine 0's schema, pending rules and ruleset.
GrowShards(w) ==
    LET new == shards + 1 .. job[w].engine
        Copy(f, v) == [e \in Engines |-> IF e \in new THEN v ELSE f[e]] IN
    /\ pc[w] = "grow"
    /\ schema' = Copy(schema, schema[Main])
    /\ pending' = Copy(pending, pending[Main])
    /\ rules' = Copy(rules, job[w].rules)
    /\ configured' = Copy(configured, job[w].rules)
    /\ shards' = job[w].engine
    /\ lock' = [lock EXCEPT ![Main] = None]
    /\ Local(w, [job[w] EXCEPT !.rules = None], "fetch")
    /\ UNCHANGED <<file, last, loaded, batches, loads>>

\* evaluate_partition reads the shard's pointer under a shared lock.
FetchShard(w) ==
    /\ pc[w] = "fetch" /\ lock[Main] = None
    /\ Go(w, "enter")
    /\ UNCHANGED <<engineVars, file, last, loaded, batches, loads>>

Enter(w) ==
    /\ pc[w] = "enter" /\ lock[job[w].engine] = None
    /\ lock' = [lock EXCEPT ![job[w].engine] = w]
    /\ Go(w, "bind")
    /\ UNCHANGED <<schema, pending, rules, configured, shards, file, last, loaded,
                   batches, loads>>

Leave(w) == /\ lock' = [lock EXCEPT ![job[w].engine] = None]
            /\ Return(w)

\* ensure_schema_bound_*: nothing to do, an error of an engine without rules
\* or of a batch that tells no schema, or the inferred schema is bound.
EnsureSchemaBound(w) ==
    LET e == job[w].engine IN
    /\ pc[w] = "bind"
    /\ \/ /\ schema[e] # None
          /\ Go(w, "observe")
          /\ UNCHANGED <<lock, schema>>
       \/ /\ schema[e] = None
          /\ pending[e] = None \/ job[w].sample \in Unlearnable
          /\ Leave(w)
          /\ UNCHANGED schema
       \/ /\ schema[e] = None
          /\ pending[e] # None /\ job[w].sample \notin Unlearnable
          /\ schema' = [schema EXCEPT ![e] = Inferred(pending[e], job[w].sample)]
          /\ Go(w, "compile")
          /\ UNCHANGED lock
    /\ UNCHANGED <<pending, rules, configured, shards, file, last, loaded, batches, loads>>

\* Mutant: the shards are left with what they have.
Install_MainOnly(t, e, rs) ==
    /\ rules' = [rules EXCEPT ![e] = rs]
    /\ configured' = [configured EXCEPT ![e] = rs]
    /\ Local(t, [job[t] EXCEPT !.rules = rs, !.next = 1, !.end = 0], "install")

\* install_ruleset on the engine itself; its shards follow one by one.
Install(t, e, rs) ==
    /\ rules' = [rules EXCEPT ![e] = rs]
    /\ configured' = [configured EXCEPT ![e] = rs]
    /\ Local(t, [job[t] EXCEPT !.rules = rs, !.next = 1, !.end = IF e = Main THEN shards ELSE 0],
             "install")

\* compile_pending_rules_after_bind: an exception leaves the engine bound.
CompilePending(w) ==
    LET e == job[w].engine IN
    /\ pc[w] = "compile"
    /\ \E ok \in Compile(pending[e]) :
          IF ok
          THEN /\ Install(w, e, Ruleset(pending[e], schema[e]))
               /\ pending' = [pending EXCEPT ![e] = None]
               /\ UNCHANGED lock
          ELSE Leave(w) /\ UNCHANGED <<rules, configured, pending>>
    /\ UNCHANGED <<schema, shards, file, last, loaded, batches, loads>>

\* Mutant: the ruleset is read under engine 0's lock.
Observe_MainLocked(w) ==
    LET e == job[w].engine IN
    /\ pc[w] = "observe"
    /\ e = Main \/ lock[Main] = None
    /\ IF rules[e] = None
       THEN Go(w, "empty")
       ELSE Local(w, [job[w] EXCEPT !.rules = rules[e]], "use")
    /\ UNCHANGED <<engineVars, file, last, loaded, batches, loads>>

\* evaluate_internal_into reads the ruleset once; without one it returns an
\* empty result and no error.
Observe(w) ==
    LET e == job[w].engine IN
    /\ pc[w] = "observe"
    /\ IF rules[e] = None
       THEN Go(w, "empty")
       ELSE Local(w, [job[w] EXCEPT !.rules = rules[e]], "use")
    /\ UNCHANGED <<engineVars, file, last, loaded, batches, loads>>

FinishBatch(w) ==
    /\ pc[w] \in {"use", "empty"}
    /\ Leave(w)
    /\ UNCHANGED <<schema, pending, rules, configured, shards, file, last, loaded,
                   batches, loads>>
-----------------------------------------------------------------------------
(* Loading: compile_and_install_rules and install_or_defer_rules, by a     *)
(* loader or by the watcher.                                               *)

StartLoad(l) ==
    /\ pc[l] = "idle" /\ loads < MaxLoads
    /\ loads' = loads + 1
    /\ Go(l, "parse")
    /\ UNCHANGED <<engineVars, file, last, loaded, batches>>

\* A load that fails: the caller gets the exception; the watcher drops the
\* rules when it is configured to.
Fail(t) == IF t = Watcher /\ ~KeepPrevious
           THEN Local(t, NoJob, "clear")
           ELSE Return(t)

\* parse_rule_file, before any lock is taken.
Parse(t) ==
    /\ pc[t] = "parse"
    /\ IF file.content \in Broken \cup {Absent}
       THEN Fail(t)
       ELSE Local(t, [NoJob EXCEPT !.content = file.content], "lock")
    /\ UNCHANGED <<engineVars, file, last, loaded, batches, loads>>

\* Mutant: the watcher takes the modification time after it has parsed.
InstallOrDefer_StampsAfter(t) ==
    /\ pc[t] = "lock" /\ lock[Main] = None
    /\ last' = IF t = Watcher THEN file.stamp ELSE last
    /\ IF schema[Main] = None
       THEN /\ pending' = [pending EXCEPT ![Main] = job[t].content]
            /\ loaded' = job[t].content
            /\ Return(t)
            /\ UNCHANGED lock
       ELSE /\ lock' = [lock EXCEPT ![Main] = t]
            /\ Go(t, "build")
            /\ UNCHANGED <<pending, loaded>>
    /\ UNCHANGED <<schema, rules, configured, shards, file, batches, loads>>

\* An UNBOUND engine keeps the parsed rules for its first batch.
InstallOrDefer(t) ==
    /\ pc[t] = "lock" /\ lock[Main] = None
    /\ IF schema[Main] = None
       THEN /\ pending' = [pending EXCEPT ![Main] = job[t].content]
            /\ loaded' = job[t].content
            /\ Return(t)
            /\ UNCHANGED lock
       ELSE /\ lock' = [lock EXCEPT ![Main] = t]
            /\ Go(t, "build")
            /\ UNCHANGED <<pending, loaded>>
    /\ UNCHANGED <<schema, rules, configured, shards, file, last, batches, loads>>

\* Mutant: the schema is not bound again for the new array_any fields.
BuildRules_NotRebound(t) ==
    LET c == job[t].content IN
    /\ pc[t] = "build"
    /\ \E ok \in Compile(c) :
          IF ok
          THEN Install(t, Main, Ruleset(c, Grown(schema[Main], c))) /\ UNCHANGED lock
          ELSE /\ lock' = [lock EXCEPT ![Main] = None]
               /\ Fail(t)
               /\ UNCHANGED <<rules, configured>>
    /\ UNCHANGED <<schema, pending, shards, file, last, loaded, batches, loads>>

\* Mutant: the schema is bound again before the rules that need it compile.
BuildRules_BindsFirst(t) ==
    LET c == job[t].content
        sch == Grown(schema[Main], c) IN
    /\ pc[t] = "build"
    /\ schema' = [schema EXCEPT ![Main] = sch]
    /\ \E ok \in Compile(c) :
          IF ok
          THEN Install(t, Main, Ruleset(c, sch)) /\ UNCHANGED lock
          ELSE /\ lock' = [lock EXCEPT ![Main] = None]
               /\ Fail(t)
               /\ UNCHANGED <<rules, configured>>
    /\ UNCHANGED <<pending, shards, file, last, loaded, batches, loads>>

\* Mutant: the old rules are dropped before the new ones compile.
BuildRules_DropsFirst(t) ==
    LET c == job[t].content
        sch == Grown(schema[Main], c) IN
    /\ pc[t] = "build"
    /\ \E ok \in Compile(c) :
          IF ok
          THEN /\ schema' = [schema EXCEPT ![Main] = sch]
               /\ Install(t, Main, Ruleset(c, sch))
               /\ UNCHANGED lock
          ELSE /\ lock' = [lock EXCEPT ![Main] = None]
               /\ rules' = [rules EXCEPT ![Main] = None]
               /\ Fail(t)
               /\ UNCHANGED <<schema, configured>>
    /\ UNCHANGED <<pending, shards, file, last, loaded, batches, loads>>

\* compile_rule_file against the schema with the array_any fields of the new
\* rules; the schema is rebound and the rules installed only on success.
BuildRules(t) ==
    LET c == job[t].content
        sch == Grown(schema[Main], c) IN
    /\ pc[t] = "build"
    /\ \E ok \in Compile(c) :
          IF ok
          THEN /\ schema' = [schema EXCEPT ![Main] = sch]
               /\ Install(t, Main, Ruleset(c, sch))
               /\ UNCHANGED lock
          ELSE /\ lock' = [lock EXCEPT ![Main] = None]
               /\ Fail(t)
               /\ UNCHANGED <<schema, rules, configured>>
    /\ UNCHANGED <<pending, shards, file, last, loaded, batches, loads>>

\* Mutant: the shards' locks are not taken.
InstallShard_Unlocked(t) ==
    LET i == job[t].next IN
    /\ pc[t] = "install" /\ i <= job[t].end /\ schema[i] # None
    /\ rules' = [rules EXCEPT ![i] = job[t].rules]
    /\ configured' = [configured EXCEPT ![i] = job[t].rules]
    /\ Local(t, [job[t] EXCEPT !.next = i + 1], "install")
    /\ UNCHANGED <<lock, schema, pending, shards, file, last, loaded, batches, loads>>

\* install_ruleset's loop over the shards, each under its own lock.
InstallShard(t) ==
    LET i == job[t].next IN
    /\ pc[t] = "install" /\ i <= job[t].end /\ lock[i] = None /\ schema[i] # None
    /\ rules' = [rules EXCEPT ![i] = job[t].rules]
    /\ configured' = [configured EXCEPT ![i] = job[t].rules]
    /\ Local(t, [job[t] EXCEPT !.next = i + 1], "install")
    /\ UNCHANGED <<lock, schema, pending, shards, file, last, loaded, batches, loads>>

\* A shard that was made while the engine was UNBOUND, and has not bound a schema
\* since, has no transposer: configure_projection dereferences a null pointer, and
\* the process ends.
InstallOnUnbound(t) ==
    LET i == job[t].next IN
    /\ pc[t] = "install" /\ i <= job[t].end /\ lock[i] = None /\ schema[i] = None
    /\ pc' = [u \in Threads |-> "dead"]
    /\ UNCHANGED <<engineVars, job, file, last, loaded, batches, loads>>

\* The loop ends: a batch that had bound the schema goes on, a load returns.
FinishInstall(t) ==
    /\ pc[t] = "install" /\ job[t].next > job[t].end
    /\ IF t \in Workers
       THEN /\ Local(t, [job[t] EXCEPT !.rules = None], "observe")
            /\ UNCHANGED <<lock, loaded>>
       ELSE /\ lock' = [lock EXCEPT ![Main] = None]
            /\ loaded' = job[t].content
            /\ Return(t)
    /\ UNCHANGED <<schema, pending, rules, configured, shards, file, last, batches, loads>>
-----------------------------------------------------------------------------
(* The watcher: enable_hot_reload and hot_reload_loop.                     *)

StartWatch ==
    /\ pc[Watcher] = "off"
    /\ last' = IF file.content = Absent THEN -1 ELSE file.stamp
    /\ Go(Watcher, "sleeping")
    /\ UNCHANGED <<engineVars, file, loaded, batches, loads>>

\* fs::exists and fs::last_write_time are two looks at the file.
PollExists ==
    /\ pc[Watcher] = "sleeping" /\ file.content # Absent
    /\ Go(Watcher, "stat")
    /\ UNCHANGED <<engineVars, file, last, loaded, batches, loads>>

\* A file that is gone by then throws out of the thread, and std::terminate
\* ends them all.
PollStamp ==
    /\ pc[Watcher] = "stat"
    /\ IF file.content = Absent
       THEN pc' = [t \in Threads |-> "dead"] /\ UNCHANGED <<job, last>>
       ELSE /\ last' = file.stamp
            /\ Go(Watcher, IF file.stamp # last THEN "parse" ELSE "sleeping")
    /\ UNCHANGED <<engineVars, file, loaded, batches, loads>>

\* stop_hot_reload: the loop leaves before its next sleep.
StopWatch ==
    /\ pc[Watcher] = "sleeping"
    /\ Go(Watcher, "off")
    /\ UNCHANGED <<engineVars, file, last, loaded, batches, loads>>

\* clear_ruleset stores the empty pointer without engine 0's lock, then goes
\* over the shards that the vector holds at this moment.
ClearMain ==
    /\ pc[Watcher] = "clear"
    /\ rules' = [rules EXCEPT ![Main] = None]
    /\ Local(Watcher, [NoJob EXCEPT !.end = shards], "clearing")
    /\ UNCHANGED <<lock, schema, pending, configured, shards, file, last, loaded,
                   batches, loads>>

ClearShard ==
    LET i == job[Watcher].next IN
    /\ pc[Watcher] = "clearing" /\ i <= job[Watcher].end /\ shards = job[Watcher].end
    /\ lock[i] = None
    /\ rules' = [rules EXCEPT ![i] = None]
    /\ Local(Watcher, [job[Watcher] EXCEPT !.next = i + 1], "clearing")
    /\ UNCHANGED <<lock, schema, pending, configured, shards, file, last, loaded,
                   batches, loads>>

\* The vector grew under the loop: its iterators walk the old storage, whose
\* pointers were moved out and are skipped as null.
FinishClear ==
    /\ pc[Watcher] = "clearing"
    /\ job[Watcher].next > job[Watcher].end \/ shards # job[Watcher].end
    /\ Return(Watcher)
    /\ UNCHANGED <<engineVars, file, last, loaded, batches, loads>>

\* The rules file is written or removed by somebody else.
WriteFile ==
    /\ file.stamp < MaxWrites
    /\ \E c \in (Contents \cup {Absent}) \ {file.content} :
          file' = [content |-> c, stamp |-> file.stamp + 1]
    /\ UNCHANGED <<engineVars, pc, job, last, loaded, batches, loads>>
-----------------------------------------------------------------------------
Batch(w) == EnsureShards(w) \/ GrowShards(w) \/ FetchShard(w) \/ Enter(w)
            \/ EnsureSchemaBound(w) \/ CompilePending(w) \/ Observe(w) \/ FinishBatch(w)
Load(t) == Parse(t) \/ InstallOrDefer(t) \/ BuildRules(t)
Spread(t) == InstallShard(t) \/ FinishInstall(t)
Poll == PollExists \/ PollStamp
Clear == ClearMain \/ ClearShard \/ FinishClear

\* A process that has ended does nothing more.
Terminated == pc[Watcher] = "dead" /\ UNCHANGED vars

Next ==
    \/ \E w \in Workers : StartBatch(w) \/ Batch(w)
    \/ \E l \in Loaders : StartLoad(l)
    \/ \E t \in Loaders \cup {Watcher} : Load(t)
    \/ \E t \in Threads : Spread(t) \/ InstallOnUnbound(t)
    \/ StartWatch \/ StopWatch \/ Poll \/ Clear \/ WriteFile \/ Terminated

Spec == Init /\ [][Next]_vars

\* Every thread that is inside a call goes on, the watcher's sleep ends; no
\* batch, load or write has to come.
FairSpec ==
    /\ Spec
    /\ \A w \in Workers : WF_vars(Batch(w))
    /\ \A t \in Loaders \cup {Watcher} : WF_vars(Load(t))
    /\ \A t \in Threads : WF_vars(Spread(t) \/ InstallOnUnbound(t))
    /\ WF_vars(Poll) /\ WF_vars(Clear)
-----------------------------------------------------------------------------
(* Properties.                                                             *)

Labels == {"idle", "ensure", "grow", "fetch", "enter", "bind", "compile", "observe", "use",
           "empty", "parse", "lock", "build", "install", "off", "dead", "sleeping", "stat", "clear",
           "clearing"}

Jobs == [engine : Engines, sample : Samples \cup {None}, rules : Rulesets \cup {None},
         content : Contents \cup {None}, next : 1 .. MaxShards + 1, end : 0 .. MaxShards]

\* Every variable has its type: locks name threads, and nothing but rules is
\* ever in force.
TypeOK ==
    /\ lock \in [Engines -> Threads \cup {None}]
    /\ schema \in [Engines -> Schemas \cup {None}]
    /\ pending \in [Engines -> Contents \cup {None}]
    /\ rules \in [Engines -> Rulesets \cup {None}]
    /\ configured \in [Engines -> Rulesets \cup {None}]
    /\ shards \in 0 .. MaxShards
    /\ pc \in [Threads -> Labels]
    /\ job \in [Threads -> Jobs]
    /\ file \in [content : Contents \cup {Absent}, stamp : 0 .. MaxWrites]
    /\ last \in -1 .. MaxWrites
    /\ loaded \in Contents \cup {None}
    /\ batches \in 0 .. MaxBatches /\ loads \in 0 .. MaxLoads

\* A batch keeps the ruleset it observed at its start: while it runs, the
\* windows, the projection and the array channels of its engine stay those of
\* that ruleset, whatever is loaded or cleared meanwhile.
BatchKeepsRules ==
    \A w \in Workers : pc[w] = "use" => configured[job[w].engine] = job[w].rules

\* The parts that make BatchKeepsRules inductive: a ruleset in force is the
\* one its engine is set up for,
RulesConfigured == \A e \in Engines : rules[e] # None => rules[e] = configured[e]

\* a batch past taking its engine's lock holds it, on an engine that exists,
\* and nobody reconfigures that engine under it,
WorkerSafe(w) ==
    /\ pc[w] \in {"bind", "compile", "observe", "use", "empty", "install"}
       => lock[job[w].engine] = w
    /\ pc[w] \in {"fetch", "enter", "bind", "compile", "observe", "use", "empty", "install"}
       => job[w].engine <= shards
    /\ pc[w] = "grow" => lock[Main] = w /\ job[w].engine > shards
    /\ pc[w] = "compile" => pending[job[w].engine] # None /\ schema[job[w].engine] # None
    /\ pc[w] = "use" => configured[job[w].engine] = job[w].rules

\* and a load compiles and installs under the lock of engine 0.
LoaderSafe(t) ==
    /\ pc[t] \in {"build", "install"} => lock[Main] = t
    /\ pc[t] \in {"lock", "build"} => job[t].content # None
    /\ pc[t] = "build" => schema[Main] # None

\* The inductive invariant behind BatchKeepsRules: while rules are loaded,
\* cleared and copied to new shards, every thread works under the locks of the
\* engines whose rules it reads or replaces.
EngineInv == /\ TypeOK /\ RulesConfigured
             /\ \A w \in Workers : WorkerSafe(w)
             /\ \A t \in Loaders \cup {Watcher} : LoaderSafe(t)

\* The process runs, and no load or clearing of rules is under way.
Quiet == /\ pc[Watcher] # "dead"
         /\ \A t \in Threads : pc[t] \notin {"build", "install", "clear", "clearing"}
         /\ \A w \in Workers : pc[w] # "compile"

\* Once a load has returned, every engine that takes batches has its rules:
\* the ruleset in force, or the pending one of an engine not yet bound.
ReloadReachesEngines ==
    Quiet /\ loaded # None =>
        \A e \in 0 .. shards :
            IF schema[e] = None THEN pending[e] = loaded
            ELSE rules[e] # None /\ rules[e].content = loaded

\* The ruleset in force on an engine was compiled against that engine's own
\* schema: its column numbers are columns of the engine's batches.
FitsSchema(e) == rules[e] # None => rules[e].schema = schema[e]

\* Whenever a schema is inferred or bound again for new array_any fields, by a
\* batch or by a reload, the rules of the engine itself follow.
MainRulesFit == FitsSchema(Main)

\* "Reload compiles and validates the new YAML/lookups off the hot path, then
\* swaps": the rules that partitions evaluate were validated for their schema.
RulesFitSchema == \A e \in Engines : FitsSchema(e)

\* A reload that fails leaves every active ruleset in force, no ruleset that does
\* not compile ever comes into force, and the schema of an engine with rules is
\* only bound again together with rules compiled for it: a reload that fails
\* after its schema was extended leaves the schema as it was.
FailedReloadKeeps ==
    [][\A e \in Engines : rules[e] # None =>
          /\ rules'[e] # None /\ rules'[e].content \notin Broken \cup Invalid
          /\ schema'[e] = schema[e] \/ rules'[e].schema = schema'[e]]_vars

\* Rules that cannot be activated are an error: once a load has returned
\* normally, no batch passes with an empty result and no error.
NoSilentBatch == loaded # None => \A w \in Workers : pc[w] # "empty"

\* Compiling a reload takes no time from batches: while rules are compiled
\* the batches of the engine can start.
CompilesOffHotPath == \A t \in Loaders \cup {Watcher} : pc[t] = "build" => lock[Main] # t

\* When a failed reload has cleared the rules, no shard keeps evaluating the
\* old ones.
ClearsTogether ==
    Quiet /\ rules[Main] = None => \A e \in 1 .. shards : rules[e] = None

\* Rules are installed on shards that have a schema, and with it a transposer,
\* also when shards were made before the engine's schema was known.
InstallsOnBoundShards ==
    \A t \in Threads : pc[t] = "install" /\ job[t].next <= job[t].end => schema[job[t].next] # None

\* A rules file that is missing for a while does not end the process.
WatcherSurvives == pc[Watcher] # "dead"

\* A batch that has started ends, whatever is loaded meanwhile: locks are
\* taken in the order engine, shard, and never the other way. The process may end
\* under it, by the watcher or on an unbound shard (WatcherSurvives,
\* InstallsOnBoundShards), and nothing more is claimed of it then.
BatchesFinish == \A w \in Workers : (pc[w] = "ensure" \/ pc[w] = "enter") ~> pc[w] \in {"idle", "dead"}

\* A change of the rules file that the watcher has not seen comes into force, or
\* waits for the batch that binds the schema, unless the file changes again, the
\* watcher is stopped, or the process ends, in this load or another step.
ReloadConverges ==
    \A c \in Contents \ (Broken \cup Invalid \cup Flaky) :
        (pc[Watcher] \notin {"off", "dead"} /\ file.content = c /\ file.stamp # last)
        ~> (file.content # c \/ pc[Watcher] \in {"off", "dead"}
            \/ pending[Main] = c \/ (rules[Main] # None /\ rules[Main].content = c))
=============================================================================
