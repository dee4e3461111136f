------------------------------ MODULE MCRelay ------------------------------
(* Instance of StreamRelay: one event of each sort the parser tells apart.   *)
(* Seven tokens hold two complete events and the beginning of a third.       *)
EXTENDS StreamRelay

Plain   == [json |-> "object", ends |-> None, usage |-> "partial", big |-> FALSE]
Stop    == [json |-> "object", ends |-> "success", usage |-> "complete", big |-> FALSE]
BigStop == [json |-> "object", ends |-> "success", usage |-> "complete", big |-> TRUE]
BigFailed == [json |-> "object", ends |-> "post_commit_stream_failure", usage |-> None, big |-> TRUE]
Failed  == [json |-> "object", ends |-> "post_commit_stream_failure", usage |-> None, big |-> FALSE]
BadCount == [json |-> "object", ends |-> None, usage |-> "invalid", big |-> FALSE]
Other   == [json |-> "other", ends |-> None, usage |-> None, big |-> FALSE]
Comment == [json |-> "invalid", ends |-> None, usage |-> None, big |-> FALSE]

MCEvent == {Plain, Stop, BigStop, Failed, BigFailed, BadCount, Other, Comment}
=============================================================================
