--------------------------- MODULE RuleEngineInv ---------------------------
(***************************************************************************)
(* The inductive invariants behind FailedReloadKeeps and                   *)
(* ReloadReachesEngines, and what a batch may count on while it runs.      *)
(* RuleEngineProofs proves them for every instance.                        *)
(***************************************************************************)
EXTENDS RuleEngine

\* While a batch is inside its engine's critical section nobody else touches the
\* schema, the pending rules or the set-up of that engine; the ruleset may be taken
\* from it, by clear_ruleset, which takes no lock of the engine, but not replaced.
BatchOwnsEngine ==
    [][\A w \in Workers :
         LET e == job[w].engine
         IN pc[w] \in {"bind", "compile", "observe", "use", "empty"} /\ pc'[w] = pc[w] =>
              /\ schema'[e] = schema[e] /\ pending'[e] = pending[e] /\ configured'[e] = configured[e]
              /\ rules'[e] \in {rules[e], None}]_vars

\* An engine that is no shard yet has no state and no rules of its own.
Unborn(e) == rules[e] = None /\ pending[e] = None /\ schema[e] = None

\* A ruleset that somebody is installing or copying, or that is in force, has
\* been parsed and compiled; the rules of an UNBOUND engine have been parsed.
Accepted(rs) == rs # None => rs.content \notin Broken \cup Invalid
Parsed(c) == c \notin Broken

\* What a thread has in its hands: an installer has a ruleset to install, on
\* shards that exist; the rules for new shards come with a schema.
HandSafe(t) ==
    /\ Accepted(job[t].rules) /\ Parsed(job[t].content)
    /\ pc[t] = "install" => job[t].rules # None /\ job[t].end <= shards
    /\ t \in Workers /\ pc[t] = "grow" /\ job[t].rules # None => schema[Main] # None

\* Every ruleset in force, and every one on its way, is of rules that parse and
\* compile: what a load rejects is nowhere. No engine has rules without a schema.
AcceptedInv ==
    /\ \A e \in Engines : Accepted(rules[e]) /\ Parsed(pending[e])
    /\ \A e \in Engines : rules[e] # None => schema[e] # None
    /\ \A e \in Engines : e > shards => Unborn(e)
    /\ \A t \in Threads : HandSafe(t)

\* With hot_reload_keep_previous_on_failure the watcher never clears.
NeverClears == pc[Watcher] \notin {"clear", "clearing"}

\* With a declared schema every engine is bound from its construction on, so
\* that no batch compiles or installs.
BoundInv ==
    /\ \A e \in Engines : e <= shards => schema[e] # None
    /\ \A w \in Workers : pc[w] \notin {"compile", "install"}

\* A load installs the ruleset it compiled: on the engine itself, and on the
\* shards before the next one. All shards are its own: nobody adds one while
\* it holds the engine's lock.
Installed(t) ==
    pc[t] = "install" =>
        /\ job[t].rules.content = job[t].content
        /\ job[t].end = shards
        /\ \A e \in Engines : e < job[t].next => rules[e] = job[t].rules

\* New shards get the rules that are in force.
CopiesCurrent(w) == pc[w] = "grow" => job[w].rules = rules[Main]

Loading == \E t \in Loaders \cup {Watcher} : pc[t] = "install"

\* Between two installations all engines have the rules of the last load.
Agreed ==
    (pc[Watcher] # "dead" /\ ~Loading /\ loaded # None) =>
        \A e \in Engines : e <= shards => rules[e] # None /\ rules[e].content = loaded

ReachInv ==
    /\ NeverClears /\ BoundInv /\ Agreed
    /\ \A t \in Loaders \cup {Watcher} : Installed(t)
    /\ \A w \in Workers : CopiesCurrent(w)
=============================================================================
