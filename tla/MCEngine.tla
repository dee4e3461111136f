----------------------------- MODULE MCEngine ------------------------------
(* Instance of ExecutionEngine: a streaming request with an explicit chain   *)
(* over two providers and a plain one that is routed automatically; both may *)
(* use the two targets of p1.                                                *)
EXTENDS ExecutionEngine, TLC

CONSTANTS p1, p2, t1, t2, t3, r1, r2

MCProvider == {p1, p2}
MCTarget == {t1, t2, t3}
MCProviderOf == [t \in MCTarget |-> IF t = t3 THEN p2 ELSE p1]
MCRequest == {r1, r2}
MCStreams == {r1}

MCCatalog == <<t2, t1, t3>>
MCTierOf == t1 :> "balanced" @@ t2 :> "fast" @@ t3 :> "deep"
MCScopeOf == [t \in MCTarget |-> ProviderOf[t]]
MCQueryOf ==
    r1 :> [automatic |-> FALSE, chain |-> <<t1, t2, t3>>, capable |-> MCTarget,
           stateful |-> FALSE, failed |-> FALSE, deep |-> FALSE, complex |-> FALSE,
           short |-> TRUE]
 @@ r2 :> [automatic |-> TRUE, chain |-> <<>>, capable |-> {t1, t2},
           stateful |-> TRUE, failed |-> FALSE, deep |-> FALSE, complex |-> FALSE,
           short |-> TRUE]
=============================================================================
