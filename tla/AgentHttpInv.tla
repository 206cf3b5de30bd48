---------------------------- MODULE AgentHttpInv ----------------------------
(***************************************************************************)
(* The inductive invariants behind the answers of the HTTP input: which    *)
(* requests are where, what is processed of each, and what the shutdown    *)
(* still has to write.  AgentHttpProofs proves them for every instance.    *)
(***************************************************************************)
EXTENDS AgentHttp

\* The requests that evaluators have taken from the queue so far: the queue
\* holds the rest, in the order of arrival.
Taken == Len(accepted) - Len(evalQ)
Begun == {accepted[i] : i \in 1 .. Taken}

QueueInv ==
    /\ Len(evalQ) <= Len(accepted)
    /\ \A i \in DOMAIN evalQ : evalQ[i] = accepted[Taken + i]

\* No request is queued twice: one that was queued is waiting or answered.
AdmittedOnce ==
    /\ \A i, j \in DOMAIN accepted : accepted[i] = accepted[j] => i = j
    /\ \A i \in DOMAIN accepted : accepted[i] \in waiting \/ answer[accepted[i]] # None

Busy(w) == wpc[w] \notin {"pop", "exit"}
PrePush(w) == wpc[w] \in {"serial", "check", "eval", "using", "threw", "push"}

\* Evaluators work on different requests.
HeldInv ==
    /\ \A w \in Workers : Busy(w) => job[w].request \in Begun
    /\ \A v, w \in Workers : Busy(v) /\ Busy(w) /\ v # w => job[v].request # job[w].request

\* The requests that are past the evaluators: a sink has one, or will get it, or
\* has written of it.
Sunk(r) == \/ \E i \in DOMAIN sinkQ : sinkQ[i].request = r
           \/ \E s \in Sinks : spc[s] = "write" /\ sink[s].request = r
           \/ \E n \in DOMAIN Body[r] : <<r, n>> \in written

\* A request is answered by whoever has it: until it is handed to a sink, nobody
\* but its evaluator does, and after a refusal nobody hands it over.
AnswerInv ==
    /\ \A r \in Requests : Sunk(r) =>
          /\ r \in Begun /\ answer[r] \notin {429, 503}
          /\ \A w \in Workers : PrePush(w) => job[w].request # r
    /\ \A w \in Workers : PrePush(w) => answer[job[w].request] = None
    /\ \A i \in DOMAIN evalQ : answer[evalQ[i]] = None

PlaceInv == QueueInv /\ AdmittedOnce /\ HeldInv /\ AnswerInv

\* Of a request, an evaluator has looked at the batches before next; a sink has
\* those left to write.
WorkInv(w) ==
    LET r == job[w].request IN
    wpc[w] \in {"serial", "check", "eval", "using", "push", "ack"} =>
        /\ \A i \in DOMAIN Body[r] : i < job[w].next => <<r, i>> \in dropped \/ i \in job[w].results
        /\ \A i \in job[w].results : <<r, i>> \in Evaluated
        /\ wpc[w] \in {"push", "ack"} => job[w].next > Len(Body[r])

OnItsWay(t, done) == \A i \in DOMAIN Body[t.request] : <<t.request, i>> \in done \/ i \in t.left

\* Without output the sinks get nothing.
IdleInv == config.disabled => sinkQ = <<>> /\ \A s \in Sinks : spc[s] # "write"

ProgressInv ==
    /\ IdleInv
    /\ \A w \in Workers : WorkInv(w)
    /\ \A i \in DOMAIN sinkQ : OnItsWay(sinkQ[i], dropped \cup written)
    /\ \A s \in Sinks : spc[s] = "write" => OnItsWay(sink[s], dropped \cup written)

\* A request answered 200 is processed as its configuration says.
AnsweredInv == \A r \in Requests : answer[r] = 200 => ItemsOf(r) \subseteq Processed

\* Unless a write failed, what is answered 200 is written, or a sink has it.
Covered(r) ==
    \A i \in DOMAIN Body[r] :
        \/ <<r, i>> \in dropped \cup written
        \/ \E n \in DOMAIN sinkQ : sinkQ[n].request = r /\ i \in sinkQ[n].left
        \/ \E s \in Sinks : spc[s] = "write" /\ sink[s].request = r /\ i \in sink[s].left

OwedInv ==
    (faults = 0 /\ ~config.disabled) =>
        /\ \A w \in Workers : wpc[w] = "ack" => Covered(job[w].request)
        /\ \A r \in Requests : answer[r] = 200 => Covered(r)

\* A sink leaves a queue that is closed and empty.
DrainInv ==
    /\ \A s \in Sinks : spc[s] = "exit" => sinkQ = <<>> /\ sinkClosed
    /\ mpc = "done" => flushed = written /\ \A s \in Sinks : spc[s] = "exit"

\* With deduplication there is one evaluator: what it has evaluated are batches of
\* the requests taken so far, in their order, and it is at the last of them.
DedupeInv ==
    config.dedupe =>
        /\ \A w \in Workers : Busy(w) => Taken > 0 /\ job[w].request = accepted[Taken]
        /\ \A i \in DOMAIN order : order[i][1] \in Begun
        /\ InOrder
=============================================================================
