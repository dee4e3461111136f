---------------------------- MODULE MCEvaluation ----------------------------
(* Instance of EvaluationPipeline: two requests, so that one decision or      *)
(* replay waits behind the other, one of them with a profile name SQLite      *)
(* cannot store, and clients that submit one event with two payloads.         *)
EXTENDS EvaluationPipeline

CONSTANTS r1, r2, h1

MCRequest == {r1, r2}
MCHandler == {h1}
MCNoHandler == {}
MCCurrent == [table |-> "policy", key |-> "current", value |-> "actual"]
MCCandidate == [table |-> "policy", key |-> "candidate", value |-> "actual"]
MCEvent == {[table |-> "outcome", key |-> "event", value |-> v] : v \in {"success", "failure"}}

MCPolicies == {MCCurrent, MCCandidate}
MCClient == Handler \union {Boot, Recorder, Shadow}
MCRow ==
    MCPolicies \union MCEvent \union {DecisionRow(r) : r \in MCRequest}
        \union {ShadowRow(r, v) : r \in MCRequest, v \in Verdict}
MCUnbindable == {ShadowRow(r2, v) : v \in Verdict}
=============================================================================
