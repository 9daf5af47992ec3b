---------------------------- MODULE RequestReply ----------------------------
(***************************************************************************)
(* What an agent is promised by its tool server: a request is carried out    *)
(* at most once and answered exactly once, with a result only if it was      *)
(* carried out, for as long as the server lives.  McpProxy implements this    *)
(* across restarts of the host behind it.                                   *)
(***************************************************************************)
EXTENDS Naturals

CONSTANTS Ids       \* the requests

VARIABLES
    asked,          \* requests taken from the agent
    runs,           \* request -> how often it was carried out
    answers,        \* request -> its answer, "none" before it is given
    stopped         \* the server is gone, visibly

vars == <<asked, runs, answers, stopped>>

Init ==
    /\ asked = {} /\ runs = [i \in Ids |-> 0]
    /\ answers = [i \in Ids |-> "none"] /\ stopped = FALSE

Waiting == {i \in asked : answers[i] = "none"}

Ask(i) ==
    /\ i \notin asked /\ ~stopped /\ asked' = asked \cup {i}
    /\ UNCHANGED <<runs, answers, stopped>>

\* What was sent on before the server stopped may be carried out after it.
CarryOut(i) ==
    /\ i \in asked /\ runs[i] = 0 /\ runs' = [runs EXCEPT ![i] = 1]
    /\ UNCHANGED <<asked, answers, stopped>>

Result(i) ==
    /\ i \in Waiting /\ runs[i] = 1 /\ ~stopped
    /\ answers' = [answers EXCEPT ![i] = "result"]
    /\ UNCHANGED <<asked, runs, stopped>>

\* A connection broke: what was under way is answered with an error, and the
\* server may stop.
Break ==
    /\ ~stopped
    /\ \E S \in SUBSET Waiting :
        answers' = [i \in Ids |-> IF i \in S THEN "error" ELSE answers[i]]
    /\ stopped' \in BOOLEAN
    /\ UNCHANGED <<asked, runs>>

Next == (\E i \in Ids : Ask(i) \/ CarryOut(i) \/ Result(i)) \/ Break

\* Nobody waits for ever.
NobodyWaits == \A i \in Ids : i \in asked ~> i \notin Waiting \/ stopped

Safe == Init /\ [][Next]_vars
Spec == Safe /\ NobodyWaits
=============================================================================
