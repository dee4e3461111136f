--------------------------- MODULE EvidenceLedger ---------------------------
(***************************************************************************)
(* What the evaluation store promises its callers, whatever their order,   *)
(* errors, cancellations and restarts: history is immutable, a call is     *)
(* acknowledged only when its row is durable, and one that fails has not   *)
(* written.  A caller that went away may have left its row in limbo: it    *)
(* may still become durable, or be lost, but no one is told.               *)
(***************************************************************************)
CONSTANTS Client, Row, None

VARIABLES
    durable, \* rows that survive
    limbo,   \* rows asked for, neither durable nor refused
    said     \* the row and the answer of each caller's last call

vars == <<durable, limbo, said>>

SameKey(p, q) == p.table = q.table /\ p.key = q.key

Init ==
    /\ durable \in SUBSET Row /\ \A p, q \in durable : SameKey(p, q) => p = q
    /\ limbo = {}
    /\ said = [c \in Client |-> None]

Ask(c, row) ==
    /\ limbo' = limbo \union {row}
    /\ said' = [said EXCEPT ![c] = None]
    /\ UNCHANGED durable

\* Rows become durable together; none takes the place of another.
Keep(kept) ==
    /\ \A p \in kept, q \in durable \union kept : SameKey(p, q) => p = q
    /\ durable' = durable \union kept

\* What an answer says of the row is true when it is given.
Truthful(row, answer) ==
    CASE answer \in {"written", "duplicate"} -> row \in durable'
      [] answer = "conflict" -> \E p \in durable' : SameKey(p, row) /\ p # row
      [] answer = "failed" -> row \notin durable' \ durable
      [] answer = "cancelled" -> TRUE

Answer(c, row, answer) ==
    /\ said[c] = None
    /\ Truthful(row, answer)
    /\ said' = [said EXCEPT ![c] = [row |-> row, answer |-> answer]]

\* Rows in limbo become durable, stay there, or are lost.
Settle ==
    /\ \E kept \in SUBSET limbo : Keep(kept)
    /\ limbo' \in SUBSET limbo
    /\ \/ UNCHANGED said
       \/ said' = [c \in Client |-> None] \* the process ended
       \/ \E c \in Client, row \in limbo, answer \in
             {"written", "duplicate", "conflict", "failed", "cancelled"} :
             Answer(c, row, answer)

\* A store that is closed refuses at once.
Refuse(c, row) ==
    /\ said' = [said EXCEPT ![c] = [row |-> row, answer |-> "failed"]]
    /\ UNCHANGED <<durable, limbo>>

\* The caller is done with its answer.
Take(c) ==
    /\ said' = [said EXCEPT ![c] = None]
    /\ UNCHANGED <<durable, limbo>>

Next ==
    \/ Settle
    \/ \E c \in Client : Take(c) \/ \E row \in Row : Ask(c, row) \/ Refuse(c, row)

Spec == Init /\ [][Next]_vars
=============================================================================
