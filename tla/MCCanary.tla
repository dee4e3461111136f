------------------------------ MODULE MCCanary ------------------------------
(* Instance of CanaryRouting: two profiles that are the defaults of different *)
(* policies, a session with and without a task, a stateful request without    *)
(* either, and configurations that differ from the base one in one respect.   *)
EXTENDS CanaryRouting, TLC

CONSTANTS r1, r2, r3

MCRequest == {r1, r2, r3}
Says(profile, session, task, stateful) ==
    [profile |-> profile, session |-> session, task |-> task,
     countOnly |-> FALSE, stateful |-> stateful]
MCAsked ==
    r1 :> Says("fast", None, None, FALSE) @@
    r2 :> Says(None, "s", "t", TRUE) @@
    r3 :> Says("fast", "s", None, FALSE)

MCDefault == "A" :> "fast" @@ "B" :> "deep" @@ "C" :> "deep"
MCBucket ==
    [k \in {"salt"} \X {"A", "B", "C"} \X {"session", "task", "request"} \X
           ({"s", "t"} \union MCRequest) |-> IF k[4] = "s" THEN 0 ELSE 1]

Base == [current |-> "A", candidate |-> "B", expected |-> "B", compatible |-> TRUE,
         salt |-> "salt", threshold |-> 1, segments |-> {"fast"},
         shadow |-> TRUE, canary |-> TRUE, capture |-> TRUE]
MCConfig ==
    {Base,
     [Base EXCEPT !.canary = FALSE],
     [Base EXCEPT !.current = "C", !.threshold = 2]}
=============================================================================
