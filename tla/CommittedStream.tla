--------------------------- MODULE CommittedStream ---------------------------
(***************************************************************************)
(* What a streamed response promises to the health coordinator, to the     *)
(* gateway's completion task and to the provider's semaphore: one health   *)
(* outcome and one completion, which agree, both before the upstream       *)
(* exchange is closed, and nothing after that.                             *)
(***************************************************************************)
CONSTANT None

VARIABLES
    phase,   \* where the response is
    outcome, \* the class the lease was recorded with
    status   \* the status of the completion

vars == <<phase, outcome, status>>

Init == phase = "offered" /\ outcome = None /\ status = None

\* No first event: another target may still be tried.
Refuse == phase = "offered" /\ phase' = "refused" /\ UNCHANGED <<outcome, status>>

Commit == phase = "offered" /\ phase' = "committed" /\ UNCHANGED <<outcome, status>>

End(class, result) ==
    /\ phase = "committed"
    /\ phase' = "ended" /\ outcome' = class /\ status' = result

Close == phase = "ended" /\ phase' = "closed" /\ UNCHANGED <<outcome, status>>

Next ==
    \/ Refuse \/ Commit \/ Close
    \/ End("success", "success")
    \/ End("post_commit_stream_failure", "error")
    \/ End("client_cancelled", "cancelled")

Spec == Init /\ [][Next]_vars
=============================================================================
