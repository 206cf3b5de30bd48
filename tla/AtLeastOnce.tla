---------------------------- MODULE AtLeastOnce ----------------------------
(***************************************************************************)
(* What the Kafka stream runtime promises of a consumer group, whatever    *)
(* its threads, queues, faults and restarts do: offsets only move forward, *)
(* and only past messages whose processing is settled.                     *)
(***************************************************************************)
EXTENDS Naturals

CONSTANTS Partitions, LogEnd, Payload

VARIABLES settled, committed

vars == <<settled, committed>>

Init == settled = {} /\ committed = [p \in Partitions |-> 0]

\* Processing settles messages, in any order, and never unsettles one.
Settle ==
    /\ settled' \in SUBSET Payload
    /\ settled \subseteq settled'
    /\ UNCHANGED committed

\* The group commits up to the first message that is not settled, or less.
Commit ==
    /\ committed' \in [Partitions -> 0 .. LogEnd]
    /\ \A p \in Partitions : committed[p] <= committed'[p]
    /\ \A m \in Payload : m.offset < committed'[m.tp] => m \in settled
    /\ UNCHANGED settled

Next == Settle \/ Commit

Spec == Init /\ [][Next]_vars
=============================================================================
