----------------------------- MODULE MCDecisions -----------------------------
(* Small instances of HumanDecision and HkStop for TLC: what operators decide
   and what they stop. In each run one of them moves. *)
EXTENDS HumanDecision, HkStop, TLC

CONSTANTS s1, s2, m1, m2, accountA
VARIABLE part

\* s1 carries an old KV acceptance of m1, s2 nothing.
OneLegacy ==
  [s \in Subjects |-> IF s = s1 THEN [blocked |-> FALSE, material |-> m1,
                                      action |-> "accept", target |-> accountA]
                      ELSE NoRow]

\* Two operators, or one operator's two tabs, choose their ids alike.
Interchangeable == Permutations(RequestIds) \cup Permutations(Requests) \cup Permutations(Runs)

MCInit == part \in {"decide", "stop"} /\ Init /\ StopInit
MCNext ==
  /\ UNCHANGED part
  /\ \/ part = "decide" /\ Next /\ UNCHANGED stopVars
     \/ part = "stop" /\ StopNext /\ UNCHANGED vars
MCSpec == MCInit /\ [][MCNext]_<<part, vars, stopVars>>
DecisionsOnly == part = "decide" /\ MCSpec
=============================================================================
