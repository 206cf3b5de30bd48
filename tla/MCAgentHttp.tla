---------------------------- MODULE MCAgentHttp ----------------------------
(***************************************************************************)
(* Instances of AgentHttp for TLC.                                         *)
(***************************************************************************)
EXTENDS AgentHttp

CONSTANTS a, b, bad

Config(shards, dedupe, windows, ack) ==
    [shards |-> shards, dedupe |-> dedupe, windows |-> windows, ack |-> ack,
     disabled |-> FALSE]

\* Two batches, a batch that throws, and the first batch again.
TwoOneAgain == <<<<a, b>>, <<bad>>, <<a>>>>

Stateless == {Config(2, FALSE, FALSE, "durable"), Config(2, FALSE, FALSE, "evaluated"),
              [Config(2, FALSE, FALSE, "durable") EXCEPT !.disabled = TRUE],
              Config(2, TRUE, FALSE, "durable")}
Windowed == {Config(2, FALSE, TRUE, "durable")}
Deduplicated == {Config(1, TRUE, FALSE, "durable")}
=============================================================================
