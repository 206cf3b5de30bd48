--------------------------- MODULE RequestPromise ---------------------------
(***************************************************************************)
(* What the agent promises of POST /v1/logs when it acknowledges durably,  *)
(* whatever its queues, threads and engines do: a request is answered      *)
(* once, and an answer Ok says that its batches are processed.             *)
(***************************************************************************)
CONSTANTS
    Requests,
    Items,      \* the batches of all requests
    Owed,       \* Owed[r]: the batches of a request
    Codes, Ok,  \* the status codes, and 200
    Unanswered

VARIABLES
    answer,
    done        \* the batches that are processed

vars == <<answer, done>>

Init == answer = [r \in Requests |-> Unanswered] /\ done = {}

\* Batches are processed in any order.
Process ==
    /\ done' \in SUBSET Items
    /\ done \subseteq done'
    /\ UNCHANGED answer

Answer(r) ==
    /\ answer[r] = Unanswered
    /\ \E c \in Codes :
          /\ c = Ok => Owed[r] \subseteq done
          /\ answer' = [answer EXCEPT ![r] = c]
    /\ UNCHANGED done

Next == Process \/ \E r \in Requests : Answer(r)

Spec == Init /\ [][Next]_vars
=============================================================================
