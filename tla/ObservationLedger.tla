------------------------- MODULE ObservationLedger -------------------------
(***************************************************************************)
(* What the observation of requests promises, without lifecycles, workers  *)
(* or phases: a request is concluded once, its terminal fact never         *)
(* changes, and its bundle is pending, then written or counted as a gap,   *)
(* in the order of conclusion.  A new bundle may be refused only when as   *)
(* many are pending as there is room for.  At shutdown all pending bundles *)
(* but the oldest are counted.                                             *)
(***************************************************************************)
EXTENDS Integers, Sequences, FiniteSets

CONSTANTS
    Request,
    None,
    Room    \* bundles that may wait

VARIABLES
    fact,    \* the terminal fact of each request, or None
    pending, \* bundles not yet written, oldest first
    stored,  \* requests whose bundle was written
    gaps     \* requests whose bundle was counted as dropped or failed

vars == <<fact, pending, stored, gaps>>

Init ==
    /\ fact = [r \in Request |-> None]
    /\ pending = <<>> /\ stored = {} /\ gaps = {}

Concluded == {r \in Request : fact[r] # fact'[r]}

\* The orders in which the members of S may be taken.
Orders(S) == {o \in [1..Cardinality(S) -> S] : \A i, j \in DOMAIN o : o[i] = o[j] => i = j}

Conclude ==
    /\ Concluded # {}
    /\ \A r \in Concluded : fact[r] = None
    /\ \E taken \in SUBSET Concluded :
         /\ \E o \in Orders(taken) : pending' = pending \o o
         /\ taken # Concluded => Len(pending') >= Room
         /\ gaps' = gaps \union (Concluded \ taken)
    /\ Len(pending') <= Room + 1
    /\ stored' = stored

\* The oldest bundle is written, or its failure is counted.
Settle ==
    /\ pending # <<>>
    /\ pending' = Tail(pending)
    /\ \/ stored' = stored \union {Head(pending)} /\ gaps' = gaps
       \/ gaps' = gaps \union {Head(pending)} /\ stored' = stored
    /\ fact' = fact

\* The drain deadline: every bundle but the oldest is counted for sure.
GiveUp ==
    LET rest == {pending[i] : i \in 2..Len(pending)}
    IN  /\ pending # <<>>
        /\ pending' = <<>>
        /\ \/ stored' = stored /\ gaps' \in {gaps \union rest, gaps \union rest \union {Head(pending)}}
           \/ stored' = stored \union {Head(pending)} /\ gaps' = gaps \union rest
        /\ fact' = fact

Next == Conclude \/ Settle \/ GiveUp

Spec == Init /\ [][Next]_vars
=============================================================================
