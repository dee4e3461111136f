--------------------------- MODULE EvaluationProofs ---------------------------
(***************************************************************************)
(* Proofs about the evaluation pipeline, for every set of requests,        *)
(* handlers and events and any number of statement errors and crashes:     *)
(* only three kinds of call leave a transaction behind, every captured     *)
(* decision is accounted for, shadow rows are honest, and the store        *)
(* implements the evidence ledger.                                         *)
(*                                                                         *)
(* The argument rests on what the lock gives: whoever is between BEGIN and *)
(* COMMIT owns the transaction, so only rows of finished or cancelled      *)
(* calls can be in it besides his own.                                     *)
(***************************************************************************)
EXTENDS EvaluationPipeline, SequenceTheorems, TLAPS

\* The rows a client asks for.
RowsOf(c) ==
    IF c = Boot THEN Policies
    ELSE IF c = Recorder THEN {DecisionRow(r) : r \in Request}
    ELSE IF c = Shadow THEN {ShadowRow(r, v) : r \in Request, v \in Verdict}
    ELSE Event

Calls ==
    \A c \in Client :
        /\ op[c].answer # None <=> op[c].at = "answered"
        /\ op[c].at # "idle" => op[c].row \in RowsOf(c)
        /\ op[c].at \in {"waiting", "begun"} => ~op[c].fresh
        /\ op[c].at = "begun" => Table(c) \in {"outcome", "shadow"} /\ tx.rows = {}
        /\ op[c].at = "written" =>
              /\ op[c].row \in rows \union tx.rows
              /\ op[c].fresh <=> op[c].row \notin rows

\* What is not committed is in a transaction somebody opened; keys are unique.
Keys ==
    /\ tx.owner = None => tx.rows = {}
    /\ \A p, q \in rows \union tx.rows : SameKey(p, q) => p = q
    /\ \A p \in rows \union tx.rows : p.table = "policy" => p \in Policies

\* A transaction that nobody holds is one of the three that calls leave behind.
Owned ==
    tx.owner # None =>
        \/ Holds(tx.owner)
        \/ phase \in {"recorder", "store"} /\ op[tx.owner].answer = "cancelled"
        \/ tx.owner = Boot
        \/ tx.owner = Shadow /\ tx.rows = {} /\ op[Shadow].answer # "cancelled"

Lock ==
    /\ \A c \in Client : Holds(c) => tx.owner = c
    /\ Owned
    /\ \A c \in Client : op[c].answer = "cancelled" =>
          \/ c = Shadow /\ phase \in {"recorder", "store", "closed"}
          \/ c = Recorder /\ phase \in {"store", "closed"}

StoreInv == StoreTypeOK /\ Calls /\ Keys /\ Lock

\* A queue holds the requests in a state, each of them once.
Holding(q, requests) == q \in Seq(Request) /\ IsInjective(q) /\ ToSet(q) = requests

DecisionInv ==
    /\ capture \in [Request -> {"none", "refused", "queued", "writing", "written", "failed", "lost"}]
    /\ decisions \in Seq(Request)
    /\ DecisionsAccounted
    /\ \A r \in Request : DecisionRow(r) \in tx.rows => capture[r] \in {"writing", "lost"}
    /\ op[Recorder].at = "waiting" => op[Recorder].row \notin rows \union tx.rows
    /\ op[Recorder].at = "written" => op[Recorder].row \in tx.rows \ rows
    /\ op[Recorder].answer = "written" => op[Recorder].row \in rows \ tx.rows
    /\ op[Recorder].answer = "failed" => op[Recorder].row \notin rows \union tx.rows
    /\ crashes \in Nat

\* The evaluator's transaction is open and no call of his is in it, nor was
\* one cancelled.
Stranded == tx.owner = Shadow /\ ~Holds(Shadow) /\ op[Shadow].answer # "cancelled"

\* Some row that cannot be bound was asked for.
AskedUnbindable ==
    \E r \in Request, v \in Verdict :
        ShadowRow(r, v) \in Unbindable /\ shadow[r] \in {"storing", "done", "lost"}

ShadowInv ==
    /\ Stranded => AskedUnbindable
    /\ shadow \in [Request -> {"none", "declined", "dropped", "queued", "replaying",
                               "timeout", "storing", "done", "lost"}]
    /\ Holding(evals, {r \in Request : shadow[r] = "queued"})
    /\ thread \in Request \union {None}
    /\ \A r \in Request : capture[r] = "none" => shadow[r] = "none"
    /\ \A r \in Request, v \in Verdict :
          op[Shadow].row = ShadowRow(r, v) /\ op[Shadow].answer # "cancelled" => shadow[r] = "storing"
    /\ \A r \in Request, v \in Verdict : ShadowRow(r, v) \in rows \union tx.rows =>
          /\ shadow[r] \in {"storing", "done", "lost"}
          /\ Policies \subseteq rows
    /\ \A p \in rows \union tx.rows : p.table = "shadow" =>
          \E r \in Request, v \in Verdict : p = ShadowRow(r, v)

\* Who may have a call in progress, or requests in hand, in which phase.
Phases ==
    /\ op[Boot].at # "idle" => phase = "current" \/ (phase = "candidate" /\ bundle)
    /\ \A h \in Handler : op[h].at # "idle" => phase = "running"
    /\ op[Shadow].at \in {"waiting", "begun", "written"} => phase \in {"running", "shadow"}
    /\ op[Recorder].at \in {"waiting", "begun", "written"} =>
          phase \in {"running", "shadow", "recorder"}
    /\ phase \notin {"running", "shadow"} =>
          \A r \in Request : shadow[r] \notin {"queued", "replaying", "storing"}
    /\ phase \notin {"running", "shadow", "recorder"} =>
          \A r \in Request : capture[r] \notin {"queued", "writing"}

IdleCalls == \A c \in Client : op[c].at = "idle" => op[c].row = None

EInv == StoreInv /\ DecisionInv /\ ShadowInv /\ Phases /\ IdleCalls

-----------------------------------------------------------------------------
(* What a call of the store does                                            *)

\* The call of c goes on, and no other.
Touches(c) ==
    /\ op' \in [Client -> Call]
    /\ \A d \in Client : d # c => op'[d] = op[d]
    /\ op'[c].row = op[c].row
    /\ op[c].at \in {"waiting", "begun", "written"}

\* It is at a statement: the lock is his, or free.
Allowed(c) == op[c].at = "waiting" => LockFree

\* It is rolled back.
Refuses(c) ==
    /\ op'[c].at = "answered" /\ op'[c].answer \in {"failed", "duplicate", "conflict"}
    /\ op'[c].answer # "failed" => Table(c) \in {"outcome", "shadow"}
    /\ op'[c].answer = "duplicate" => op[c].row \in rows
    /\ op'[c].answer = "conflict" => \E p \in rows : SameKey(p, op[c].row) /\ p # op[c].row
    /\ tx' = NoTx /\ rows' = rows

Opens(c) ==
    /\ op[c].at = "waiting" /\ op'[c].at = "begun" /\ op'[c].answer = None
    /\ op'[c].fresh = op[c].fresh /\ tx.owner = None
    /\ Table(c) \in {"outcome", "shadow"}
    /\ tx' = [owner |-> c, rows |-> {}] /\ rows' = rows

\* Its row is in the transaction, if it was not durable.
Inserts(c) ==
    /\ op[c].at # "written" /\ op'[c].at = "written" /\ op'[c].answer = None
    /\ op'[c].fresh <=> op[c].row \notin rows
    /\ \A p \in rows \union tx.rows : SameKey(p, op[c].row) => p = op[c].row
    /\ Table(c) = "shadow" => Policies \subseteq rows
    /\ Table(c) = "decision" => op[c].row \notin rows \union tx.rows
    /\ tx' = [owner |-> c, rows |-> tx.rows \union ({op[c].row} \ rows)] /\ rows' = rows

Commits(c) ==
    /\ op[c].at = "written" /\ op'[c].at = "answered"
    /\ op'[c].answer = IF op[c].fresh THEN "written" ELSE "duplicate"
    /\ rows' = rows \union tx.rows /\ tx' = NoTx

\* A policy's error leaves the transaction open, and so does a row that cannot
\* be bound.
Leaves(c) ==
    /\ \/ Table(c) = "policy"
       \/ Table(c) = "shadow" /\ op[c].row \in Unbindable /\ tx.rows = {} /\ tx' = tx
    /\ op'[c].at = "answered" /\ op'[c].answer = "failed"
    /\ tx'.owner = c
    /\ tx' = [owner |-> c, rows |-> tx'.rows]
    /\ tx.rows \subseteq tx'.rows /\ tx'.rows \subseteq tx.rows \union {op[c].row}
    /\ rows' = rows

\* Who asks for a row is known by its table.
LEMMA TablesOfClients ==
    ASSUME NEW c \in Client, NEW row \in RowsOf(c)
    PROVE  /\ row \in Row /\ row # None
           /\ row.table = "policy" <=> c = Boot
           /\ row.table = "decision" <=> c = Recorder
           /\ row.table = "shadow" <=> c = Shadow
           /\ row.table \in {"policy", "decision", "outcome", "shadow"}
           /\ c = Boot => row \in Policies
<1>1. CASE c = Boot
  BY <1>1, StoreAssumption, PipelineAssumption DEF RowsOf
<1>2. CASE c = Recorder
  <2>1. PICK r \in Request : row = DecisionRow(r)
    BY <1>2, PipelineAssumption DEF RowsOf
  <2> QED
    BY <1>2, <2>1, StoreAssumption, PipelineAssumption DEF DecisionRow
<1>3. CASE c = Shadow
  <2>1. PICK r \in Request, v \in Verdict : row = ShadowRow(r, v)
    BY <1>3, PipelineAssumption DEF RowsOf
  <2>2. ShadowRow(r, v) \in Row
    BY PipelineAssumption
  <2> QED
    BY <1>3, <2>1, <2>2, StoreAssumption, PipelineAssumption DEF ShadowRow
<1>4. CASE c \notin {Boot, Recorder, Shadow}
  BY <1>4, StoreAssumption, PipelineAssumption DEF RowsOf
<1> QED
  BY <1>1, <1>2, <1>3, <1>4

\* A statement of a call does one of five things (sqlite_store.py).
LEMMA StepEffects ==
    ASSUME StoreInv, NEW c \in Client, Step(c)
    PROVE  /\ Touches(c) /\ Allowed(c) /\ open' = open /\ errors' \in 0 .. ErrorBound
           /\ Refuses(c) \/ Opens(c) \/ Inserts(c) \/ Commits(c) \/ Leaves(c)
<1>0. /\ op \in [Client -> Call] /\ op[c] \in Call /\ errors \in 0 .. ErrorBound
      /\ ErrorBound \in Nat /\ tx = [owner |-> tx.owner, rows |-> tx.rows]
  BY StoreAssumption DEF StoreInv, StoreTypeOK
<1>1. /\ op[c].at \in {"waiting", "begun", "written"}
      /\ op[c].at = "waiting" => LockFree
  BY DEF Step, Begin, LookUp, InsertDecision, EnsurePolicy, Commit
<1> SUFFICES /\ Touches(c) /\ open' = open /\ errors' \in 0 .. ErrorBound
             /\ Refuses(c) \/ Opens(c) \/ Inserts(c) \/ Commits(c) \/ Leaves(c)
  BY <1>1 DEF Allowed
<1>2. op[c].answer = None /\ op[c].row \in RowsOf(c)
  BY <1>1 DEF StoreInv, Calls
<1>3. op[c].at \in {"begun", "written"} => tx.owner = c
  BY DEF StoreInv, Lock, Holds
<1>4. StatementFails => errors' \in 0 .. ErrorBound
  BY <1>0 DEF StatementFails
<1>5. ASSUME NEW answer \in Answers, Answered(c, answer)
      PROVE  Touches(c) /\ op'[c].at = "answered" /\ op'[c].answer = answer
  BY <1>0, <1>1, <1>5 DEF Answered, Touches, Call
<1>6. ASSUME op' = [op EXCEPT ![c].at = "written"]
      PROVE  Touches(c) /\ op'[c].at = "written" /\ op'[c].answer = None /\ op'[c].fresh = op[c].fresh
  BY <1>0, <1>1, <1>2, <1>6 DEF Touches, Call
<1>7. ASSUME NEW fresh \in BOOLEAN, op' = [op EXCEPT ![c].at = "written", ![c].fresh = fresh]
      PROVE  Touches(c) /\ op'[c].at = "written" /\ op'[c].answer = None /\ op'[c].fresh = fresh
  BY <1>0, <1>1, <1>2, <1>7 DEF Touches, Call
<1>8. ASSUME Refuse(c, "failed"), UNCHANGED errors \/ StatementFails
      PROVE  Touches(c) /\ open' = open /\ errors' \in 0 .. ErrorBound /\ Refuses(c)
  BY <1>0, <1>4, <1>5, <1>8 DEF Refuse, Refuses, Answers
<1>9. CASE Begin(c)
  <2>1. CASE Refuse(c, "failed")
    BY <1>8, <1>9, <2>1 DEF Begin
  <2>2. CASE ~Refuse(c, "failed")
    <3>1. /\ op[c].at = "waiting" /\ Table(c) \in {"outcome", "shadow"}
          /\ tx.owner = None
          /\ tx' = [owner |-> c, rows |-> {}] /\ op' = [op EXCEPT ![c].at = "begun"]
          /\ UNCHANGED <<rows, open, errors>>
      BY <1>9, <2>2 DEF Begin
    <3>2. /\ Touches(c) /\ op'[c].at = "begun" /\ op'[c].answer = None
          /\ op'[c].fresh = op[c].fresh
      BY <3>1, <1>0, <1>1, <1>2 DEF Touches, Call
    <3> QED
      BY <3>1, <3>2, <1>0 DEF Opens
  <2> QED
    BY <2>1, <2>2
<1>10. CASE LookUp(c)
  <2>1. op[c].at = "begun" /\ Table(c) \in {"outcome", "shadow"} /\ tx.rows = {}
    BY <1>10 DEF LookUp, StoreInv, Calls
  <2> DEFINE same == Stored(op[c].row)
             missing == Table(c) = "shadow" /\ ~(Policies \subseteq rows)
  <2>2. same = {p \in rows : SameKey(p, op[c].row)}
    BY <2>1 DEF Stored
  <2>4. CASE Refuse(c, "failed")
    BY <1>8, <1>10, <2>4 DEF LookUp
  <2>5. CASE ~missing /\ same \ {op[c].row} # {} /\ Refuse(c, "conflict") /\ UNCHANGED errors
    <3>1. \E p \in rows : SameKey(p, op[c].row) /\ p # op[c].row
      BY <2>5, <2>2
    <3> QED
      BY <3>1, <2>1, <2>5, <1>0, <1>5 DEF Refuse, Refuses, Answers
  <2>6. CASE ~missing /\ same = {op[c].row} /\ Table(c) = "shadow" /\ Refuse(c, "duplicate")
             /\ UNCHANGED errors
    <3>1. op[c].row \in rows
      BY <2>6, <2>2
    <3> QED
      BY <3>1, <2>1, <2>6, <1>0, <1>5 DEF Refuse, Refuses, Answers
  <2>7. CASE ~missing /\ same = {op[c].row} /\ op' = [op EXCEPT ![c].at = "written"]
             /\ UNCHANGED <<tx, rows, open, errors>>
    <3>1. op[c].row \in rows /\ \A p \in rows : SameKey(p, op[c].row) => p = op[c].row
      BY <2>7, <2>2
    <3>2. op[c].fresh = FALSE
      BY <2>1, <1>0 DEF StoreInv, Calls, Call
    <3>3. tx.rows \union ({op[c].row} \ rows) = tx.rows
      BY <3>1
    <3>4. Table(c) # "decision"
      BY <2>1
    <3> QED
      BY <3>1, <3>2, <3>3, <3>4, <2>1, <2>7, <1>0, <1>3, <1>6 DEF Inserts
  <2>9. CASE /\ ~missing /\ same = {} /\ op[c].row \in Unbindable
             /\ Answered(c, "failed")
             /\ UNCHANGED <<tx, rows, open, errors>>
    <3>1. Table(c) = "shadow"
      BY <2>9, StoreAssumption DEF Table
    <3> QED
      BY <3>1, <2>1, <2>9, <1>0, <1>3, <1>5 DEF Leaves, Answers
  <2>8. CASE /\ ~missing /\ same = {}
             /\ tx' = [tx EXCEPT !.rows = @ \union {op[c].row}]
             /\ op' = [op EXCEPT ![c].at = "written", ![c].fresh = TRUE]
             /\ UNCHANGED <<rows, open, errors>>
    <3>1. op[c].row \notin rows /\ \A p \in rows : ~SameKey(p, op[c].row)
      BY <2>8, <2>2 DEF SameKey
    <3>2. tx' = [owner |-> c, rows |-> tx.rows \union ({op[c].row} \ rows)]
      BY <3>1, <2>1, <2>8, <1>0, <1>3
    <3>3. Table(c) # "decision"
      BY <2>1
    <3> QED
      BY <3>1, <3>2, <3>3, <2>1, <2>8, <1>0, <1>7 DEF Inserts
  <2> QED
    BY <1>10, <2>4, <2>5, <2>6, <2>7, <2>8, <2>9 DEF LookUp
<1>11. CASE InsertDecision(c)
  <2>1. CASE Refuse(c, "failed")
    BY <1>8, <1>11, <2>1 DEF InsertDecision
  <2>2. CASE ~Refuse(c, "failed")
    <3>1. /\ op[c].at = "waiting" /\ Table(c) = "decision" /\ Stored(op[c].row) = {}
          /\ tx' = [owner |-> c, rows |-> tx.rows \union {op[c].row}]
          /\ op' = [op EXCEPT ![c].at = "written", ![c].fresh = TRUE]
          /\ UNCHANGED <<rows, open, errors>>
      BY <1>11, <2>2 DEF InsertDecision
    <3>2. /\ op[c].row \notin rows \union tx.rows
          /\ \A p \in rows \union tx.rows : ~SameKey(p, op[c].row)
      BY <3>1 DEF Stored, SameKey
    <3>3. tx.rows \union {op[c].row} = tx.rows \union ({op[c].row} \ rows)
      BY <3>2
    <3> QED
      BY <3>1, <3>2, <3>3, <1>0, <1>7 DEF Inserts
  <2> QED
    BY <2>1, <2>2
<1>12. CASE EnsurePolicy(c)
  <2>0. op[c].at = "waiting" /\ Table(c) = "policy"
    BY <1>12 DEF EnsurePolicy
  <2>1. CASE StatementFails /\ Answered(c, "failed")
    <3>1. PICK inserted \in BOOLEAN :
             tx' = [owner |-> c,
                    rows |-> tx.rows \union IF inserted THEN {op[c].row} \ rows ELSE {}]
      BY <1>12, <2>1, <1>5 DEF EnsurePolicy, Answers
    <3> QED
      BY <3>1, <2>0, <2>1, <1>4, <1>5, <1>12 DEF EnsurePolicy, Leaves, Answers
  <2>2. CASE /\ tx' = [owner |-> c, rows |-> tx.rows \union ({op[c].row} \ rows)]
             /\ op' = [op EXCEPT ![c].at = "written", ![c].fresh = op[c].row \notin rows]
             /\ UNCHANGED <<rows, open, errors>>
    <3>1. op[c].row \in Policies
      BY <1>2, <2>0, TablesOfClients DEF Table
    <3>2. \A p \in rows \union tx.rows : SameKey(p, op[c].row) => p = op[c].row
      <4> TAKE p \in rows \union tx.rows
      <4> HAVE SameKey(p, op[c].row)
      <4>1. p.table = "policy"
        BY <3>1, PipelineAssumption DEF SameKey
      <4>2. p \in Policies
        BY <4>1 DEF StoreInv, Keys
      <4> QED
        BY <3>1, <4>2, PipelineAssumption DEF SameKey
    <3> QED
      BY <3>2, <2>0, <2>2, <1>0, <1>7 DEF Inserts
  <2> QED
    BY <1>12, <2>1, <2>2 DEF EnsurePolicy
<1>13. CASE Commit(c)
  <2>0. op[c].at = "written" /\ tx.owner = c
    BY <1>13, <1>3 DEF Commit
  <2>1. CASE /\ Answered(c, IF op[c].fresh THEN "written" ELSE "duplicate")
             /\ rows' = rows \union tx.rows
             /\ tx' = NoTx
             /\ UNCHANGED <<open, errors>>
    <3>1. (IF op[c].fresh THEN "written" ELSE "duplicate") \in Answers
      BY DEF Answers
    <3> QED
      BY <3>1, <2>0, <2>1, <1>0, <1>5 DEF Commits
  <2>2. CASE StatementFails /\ Table(c) = "policy" /\ Answered(c, "failed")
             /\ UNCHANGED <<tx, rows, open>>
    BY <2>0, <2>2, <1>0, <1>4, <1>5 DEF Leaves, Answers
  <2>3. CASE StatementFails /\ Refuse(c, "failed")
    BY <2>3, <1>8
  <2> QED
    BY <1>13, <2>1, <2>2, <2>3 DEF Commit
<1> QED
  BY <1>9, <1>10, <1>11, <1>12, <1>13 DEF Step

-----------------------------------------------------------------------------
(* The store's own invariant                                                *)

\* Whoever goes on while a call is not done is alone between BEGIN and COMMIT.
LEMMA Alone ==
    ASSUME StoreInv, NEW c \in Client, Touches(c), Allowed(c)
    PROVE  \A d \in Client : d # c => ~Holds(d)
BY DEF StoreInv, Lock, Touches, Allowed, Holds, LockFree

\* A statement keeps the invariant.
LEMMA StepStore ==
    ASSUME StoreInv, NEW c \in Client, Step(c), UNCHANGED pipeVars
    PROVE  StoreInv'
<1>1. /\ Touches(c) /\ Allowed(c) /\ open' = open /\ errors' \in 0 .. ErrorBound
      /\ Refuses(c) \/ Opens(c) \/ Inserts(c) \/ Commits(c) \/ Leaves(c)
  BY StepEffects
<1>2. /\ op \in [Client -> Call] /\ op' \in [Client -> Call]
      /\ op[c].row \in RowsOf(c) /\ op[c].row \in Row
      /\ tx \in [owner : Client \union {None}, rows : SUBSET Row] /\ rows \subseteq Row
      /\ None \notin Client /\ None \notin Answers
  <2>1. op[c].row \in RowsOf(c)
    BY <1>1 DEF Touches, StoreInv, Calls
  <2> QED
    BY <2>1, <1>1, TablesOfClients, StoreAssumption DEF Touches, StoreInv, StoreTypeOK
<1>3. \A d \in Client : d # c => ~Holds(d) /\ op'[d] = op[d]
  BY <1>1, Alone DEF Touches
<1>4. StoreTypeOK'
  <2>1. rows' \subseteq Row
    BY <1>1, <1>2 DEF Refuses, Opens, Inserts, Commits, Leaves
  <2>2. tx' \in [owner : Client \union {None}, rows : SUBSET Row]
    <3>1. CASE Refuses(c) \/ Commits(c)
      BY <3>1 DEF Refuses, Commits, NoTx
    <3>2. CASE Opens(c) \/ Inserts(c)
      BY <3>2, <1>2 DEF Opens, Inserts
    <3>3. CASE Leaves(c)
      <4>1. tx'.rows \subseteq Row
        BY <3>3, <1>2 DEF Leaves
      <4> QED
        BY <4>1, <3>3, <1>2 DEF Leaves
    <3> QED
      BY <1>1, <3>1, <3>2, <3>3
  <2> QED
    BY <2>1, <2>2, <1>1, <1>2 DEF StoreInv, StoreTypeOK
<1>5. Calls'
  <2>1. ASSUME NEW d \in Client, d # c
        PROVE  /\ op'[d].answer # None <=> op'[d].at = "answered"
               /\ op'[d].at # "idle" => op'[d].row \in RowsOf(d)
               /\ op'[d].at \in {"waiting", "begun"} => ~op'[d].fresh
               /\ op'[d].at \notin {"begun", "written"}
    BY <2>1, <1>3 DEF StoreInv, Calls, Holds
  <2>2. /\ op'[c].answer # None <=> op'[c].at = "answered"
        /\ op'[c].at # "idle" => op'[c].row \in RowsOf(c)
        /\ op'[c].at \in {"waiting", "begun"} => ~op'[c].fresh
        /\ op'[c].at = "begun" => op'[c].row.table \in {"outcome", "shadow"} /\ tx'.rows = {}
        /\ op'[c].at = "written" =>
              /\ op'[c].row \in rows' \union tx'.rows
              /\ op'[c].fresh <=> op'[c].row \notin rows'
    <3>1. CASE Refuses(c) \/ Commits(c) \/ Leaves(c)
      BY <3>1, <1>1, <1>2 DEF Refuses, Commits, Leaves, Touches, Answers
    <3>2. CASE Opens(c)
      BY <3>2, <1>1, <1>2 DEF Opens, Touches, Table, StoreInv, Calls
    <3>3. CASE Inserts(c)
      BY <3>3, <1>1, <1>2 DEF Inserts, Touches
    <3> QED
      BY <1>1, <3>1, <3>2, <3>3
  <2> QED
    BY <2>1, <2>2 DEF Calls, Table
<1>6. Keys'
  <2>1. CASE Refuses(c) \/ Commits(c) \/ Opens(c)
    BY <2>1, <1>2 DEF Refuses, Commits, Opens, NoTx, StoreInv, Keys, SameKey
  <2>2. CASE Inserts(c)
    <3>1. rows' \union tx'.rows \subseteq rows \union tx.rows \union {op[c].row}
      BY <2>2 DEF Inserts
    <3>2. tx'.owner # None
      BY <2>2, <1>2 DEF Inserts
    <3>3. op[c].row.table = "policy" => op[c].row \in Policies
      BY <1>2, TablesOfClients
    <3>4. ASSUME NEW p \in rows' \union tx'.rows, NEW q \in rows' \union tx'.rows, SameKey(p, q)
          PROVE  p = q
      BY <3>1, <3>4, <2>2 DEF Inserts, SameKey, StoreInv, Keys
    <3> QED
      BY <3>1, <3>2, <3>3, <3>4 DEF StoreInv, Keys
  <2>3. CASE Leaves(c) /\ tx' = tx
    BY <2>3 DEF Leaves, StoreInv, Keys, SameKey
  <2>4. CASE Leaves(c) /\ Table(c) = "policy"
    <3>1. rows' \union tx'.rows \subseteq rows \union tx.rows \union {op[c].row}
      BY <2>4 DEF Leaves
    <3>2. tx'.owner # None
      BY <2>4, <1>2 DEF Leaves
    <3>3. op[c].row \in Policies
      BY <2>4, <1>2, TablesOfClients DEF Table
    <3>4. ASSUME NEW p \in rows \union tx.rows, SameKey(p, op[c].row)
          PROVE  p = op[c].row
      <4>1. p \in Policies
        BY <3>3, <3>4, PipelineAssumption DEF SameKey, StoreInv, Keys
      <4> QED
        BY <4>1, <3>3, <3>4, PipelineAssumption DEF SameKey
    <3>5. ASSUME NEW p \in rows' \union tx'.rows, NEW q \in rows' \union tx'.rows, SameKey(p, q)
          PROVE  p = q
      BY <3>1, <3>4, <3>5 DEF SameKey, StoreInv, Keys
    <3> QED
      BY <3>1, <3>2, <3>3, <3>5 DEF StoreInv, Keys
  <2> QED
    BY <1>1, <2>1, <2>2, <2>3, <2>4 DEF Leaves
<1>7. Lock'
  <2>1. \A d \in Client : Holds(d)' => tx'.owner = d
    <3>1. \A d \in Client : d # c => ~Holds(d)'
      BY <1>3 DEF Holds
    <3>2. Holds(c)' => tx'.owner = c
      BY <1>1 DEF Refuses, Commits, Leaves, Opens, Inserts, Holds
    <3> QED
      BY <3>1, <3>2
  <2>2. Owned'
    <3>1. CASE Refuses(c) \/ Commits(c)
      BY <3>1 DEF Refuses, Commits, NoTx, Owned
    <3>2. CASE Opens(c) \/ Inserts(c)
      BY <3>2 DEF Opens, Inserts, Owned, Holds
    <3>3. CASE Leaves(c)
      <4>1. c = Boot \/ (c = Shadow /\ tx'.rows = {})
        BY <3>3, <1>2, TablesOfClients DEF Leaves, Table
      <4> QED
        BY <4>1, <3>3 DEF Leaves, Owned
    <3> QED
      BY <1>1, <3>1, <3>2, <3>3
  <2>3. ASSUME NEW d \in Client, op'[d].answer = "cancelled"
        PROVE  \/ d = Shadow /\ phase' \in {"recorder", "store", "closed"}
               \/ d = Recorder /\ phase' \in {"store", "closed"}
    <3>1. op'[c].answer # "cancelled"
      BY <1>1, <1>2 DEF Refuses, Commits, Opens, Inserts, Leaves, Answers
    <3> QED
      BY <3>1, <2>3, <1>3 DEF StoreInv, Lock, pipeVars
  <2> QED
    BY <2>1, <2>2, <2>3 DEF Lock
<1> QED
  BY <1>4, <1>5, <1>6, <1>7 DEF StoreInv

\* The lifespan goes on.
Onward ==
    \/ phase' = phase
    \/ phase \notin {"recorder", "store", "closed"}
    \/ phase = "recorder" /\ phase' = "store"

LEMMA IdleStore ==
    ASSUME StoreInv, UNCHANGED storeVars, Onward
    PROVE  StoreInv'
<1>1. StoreTypeOK' /\ Calls' /\ Keys'
  BY DEF StoreInv, StoreTypeOK, Calls, Keys, SameKey, Table, storeVars
<1>2. Lock'
  BY DEF StoreInv, Lock, Owned, Holds, storeVars, Onward
<1> QED
  BY <1>1, <1>2 DEF StoreInv

\* A call begins.
LEMMA AskStore ==
    ASSUME StoreInv, NEW c \in Client, NEW row \in RowsOf(c), Ask(c, row), phase' = phase
    PROVE  StoreInv'
<1>1. /\ op \in [Client -> Call] /\ op[c].at = "idle" /\ row \in Row
      /\ None \notin Answers /\ UNCHANGED <<rows, tx, open, errors>>
  BY TablesOfClients, StoreAssumption DEF StoreInv, StoreTypeOK, Ask
<1>2. /\ op' \in [Client -> Call]
      /\ \A d \in Client : d # c => op'[d] = op[d]
      /\ op'[c].row = row /\ ~op'[c].fresh
      /\ \/ op'[c].at = "waiting" /\ op'[c].answer = None
         \/ op'[c].at = "answered" /\ op'[c].answer = "failed"
  BY <1>1 DEF Ask, NoCall, Call, Answers
<1>3. StoreTypeOK' /\ Keys'
  BY <1>1, <1>2 DEF StoreInv, StoreTypeOK, Keys, SameKey
<1>4. Calls'
  <2>1. ASSUME NEW d \in Client, d # c
        PROVE  op'[d] = op[d]
    BY <2>1, <1>2
  <2>2. op'[c].answer # None <=> op'[c].at = "answered"
    BY <1>1, <1>2 DEF Answers
  <2> QED
    BY <2>1, <2>2, <1>1, <1>2 DEF Calls, StoreInv, Table
<1>5. Lock'
  <2>1. \A d \in Client : Holds(d)' <=> Holds(d)
    BY <1>1, <1>2 DEF Holds
  <2>2. op'[c].answer # "cancelled" /\ op[c].answer = None
    BY <1>1, <1>2 DEF Answers, StoreInv, Calls
  <2>3. tx.owner # None => tx.owner \in Client
    BY DEF StoreInv, StoreTypeOK
  <2>4. Owned'
    <3>1. tx.owner = c => tx.owner = Boot \/ (c = Shadow /\ tx.rows = {})
      BY <1>1, <2>2, StoreAssumption DEF StoreInv, Lock, Owned, Holds, Answers
    <3> QED
      <4>1. CASE tx.owner = c
        <5>1. tx' = tx /\ op'[c].answer # "cancelled"
          BY <1>1, <2>2
        <5> QED
          BY <3>1, <4>1, <5>1 DEF Owned
      <4>2. CASE tx.owner # c /\ tx.owner # None
        <5>1. op'[tx.owner] = op[tx.owner]
          BY <1>2, <2>3, <4>2
        <5>2. c # Shadow => op'[Shadow] = op[Shadow]
          BY <1>2, PipelineAssumption
        <5> QED
          BY <1>1, <2>1, <2>2, <2>3, <4>2, <5>1, <5>2 DEF StoreInv, Lock, Owned
      <4> QED
        BY <1>1, <4>1, <4>2 DEF Owned
  <2> QED
    BY <1>1, <1>2, <2>1, <2>2, <2>4 DEF StoreInv, Lock
<1> QED
  BY <1>3, <1>4, <1>5 DEF StoreInv

\* A caller takes its answer.
LEMMA ReleaseStore ==
    ASSUME StoreInv, NEW c \in Client, Release(c), op[c].answer # "cancelled", Onward
    PROVE  StoreInv'
<1>1. /\ op \in [Client -> Call] /\ op[c].at = "answered"
      /\ None \notin Answers /\ UNCHANGED <<rows, tx, open, errors>>
  BY StoreAssumption DEF StoreInv, StoreTypeOK, Release
<1>2. /\ op' \in [Client -> Call]
      /\ \A d \in Client : d # c => op'[d] = op[d]
      /\ op'[c].at = "idle" /\ op'[c].answer = None /\ ~op'[c].fresh
  BY <1>1 DEF Release, NoCall, Call
<1>3. StoreTypeOK' /\ Keys'
  BY <1>1, <1>2 DEF StoreInv, StoreTypeOK, Keys, SameKey
<1>4. Calls'
  BY <1>1, <1>2 DEF Calls, StoreInv, Table
<1>5. Lock'
  <2>1. \A d \in Client : Holds(d)' <=> Holds(d)
    BY <1>1, <1>2 DEF Holds
  <2>2. op'[c].answer # "cancelled"
    BY <1>1, <1>2 DEF Answers
  <2>3. tx.owner # None => tx.owner \in Client
    BY DEF StoreInv, StoreTypeOK
  <2>4. \A d \in Client : op'[d].answer = "cancelled" <=> op[d].answer = "cancelled"
    BY <1>2, <2>2
  <2>5. phase \in {"recorder", "store"} /\ phase' # phase => phase' \in {"recorder", "store"}
    BY DEF Onward
  <2>6. Owned'
    BY <1>1, <2>1, <2>3, <2>4, <2>5 DEF StoreInv, Lock, Owned
  <2> QED
    BY <1>1, <2>1, <2>4, <2>6 DEF StoreInv, Lock, Onward
<1> QED
  BY <1>3, <1>4, <1>5 DEF StoreInv

\* A cancelled call changes nothing, commits with a COMMIT it has sent, or leaves
\* its transaction open, with its row if that was sent and fits.
Abandons(c) ==
    /\ Touches(c) /\ UNCHANGED <<open, errors>>
    /\ op'[c].at = "answered" /\ op'[c].answer = "cancelled" /\ op'[c].fresh = op[c].fresh
    /\ \/ rows' = rows /\ tx' = tx
       \/ op[c].at = "written" /\ rows' = rows \union tx.rows /\ tx' = NoTx
       \/ /\ Allowed(c) /\ rows' = rows
          /\ tx' = [owner |-> c, rows |-> tx'.rows]
          /\ \/ tx'.rows = tx.rows
             \/ /\ tx'.rows = tx.rows \union {op[c].row}
                /\ Stored(op[c].row) = {}
                /\ Table(c) # "policy"
                /\ Table(c) = "shadow" => Policies \subseteq rows

LEMMA CancelEffects ==
    ASSUME StoreInv, NEW c \in Client, NEW sent \in BOOLEAN, CancelCall(c, sent)
    PROVE  Abandons(c)
<1>1. /\ op \in [Client -> Call] /\ op[c].at \in {"waiting", "begun", "written"}
      /\ op' = [op EXCEPT ![c].at = "answered", ![c].answer = "cancelled"]
      /\ UNCHANGED <<open, errors>>
  BY DEF StoreInv, StoreTypeOK, CancelCall
<1>2. /\ Touches(c)
      /\ op'[c].at = "answered" /\ op'[c].answer = "cancelled" /\ op'[c].fresh = op[c].fresh
  BY <1>1 DEF Touches, Call, Answers
<1> DEFINE commits == sent /\ op[c].at = "written"
           row == IF Table(c) = "decision" \/ op[c].at = "begun" THEN {op[c].row} ELSE {}
<1>3. /\ rows' = IF commits THEN rows \union tx.rows ELSE rows
      /\ tx' = IF commits THEN NoTx
               ELSE IF sent /\ (SentOpens(c) \/ SentInserts(c))
                    THEN [owner |-> c, rows |-> tx.rows \union row]
               ELSE tx
  BY DEF CancelCall
<1>4. CASE commits
  BY <1>2, <1>3, <1>4, <1>1 DEF Abandons
<1>5. CASE ~commits /\ ~(sent /\ (SentOpens(c) \/ SentInserts(c)))
  BY <1>2, <1>3, <1>5, <1>1 DEF Abandons
<1>6. CASE ~commits /\ sent /\ (SentOpens(c) \/ SentInserts(c))
  <2>1. Allowed(c)
    BY <1>6 DEF SentOpens, SentInserts, Allowed
  <2>2. rows' = rows /\ tx' = [owner |-> c, rows |-> tx.rows \union row]
    BY <1>3, <1>6
  <2>3. CASE row = {}
    BY <2>1, <2>2, <2>3, <1>1, <1>2 DEF Abandons
  <2>4. CASE row # {}
    <3>1. row = {op[c].row} /\ (Table(c) = "decision" \/ op[c].at = "begun")
      BY <2>4
    <3>2. Stored(op[c].row) = {}
      BY <3>1, <1>6 DEF SentOpens, SentInserts
    <3>3. Table(c) # "policy"
      BY <3>1, <1>1 DEF StoreInv, Calls
    <3>4. Table(c) = "shadow" => Policies \subseteq rows
      BY <3>1, <1>6 DEF SentOpens, SentInserts
    <3> QED
      BY <2>1, <2>2, <3>1, <3>2, <3>3, <3>4, <1>1, <1>2 DEF Abandons
  <2> QED
    BY <2>3, <2>4
<1> QED
  BY <1>4, <1>5, <1>6

\* Shutdown cancels the evaluator's call, then the recorder's.
LEMMA CancelStore ==
    ASSUME StoreInv, NEW c \in Client, NEW sent \in BOOLEAN, CancelCall(c, sent),
           \/ c = Shadow /\ phase = "shadow" /\ phase' = "recorder"
           \/ c = Recorder /\ phase = "recorder" /\ phase' = "store"
    PROVE  StoreInv'
<1>1. Abandons(c)
  BY CancelEffects
<1>2. /\ op' \in [Client -> Call] /\ \A d \in Client : d # c => op'[d] = op[d]
      /\ op'[c].row = op[c].row /\ op[c].row \in RowsOf(c) /\ op[c].row \in Row
      /\ op'[c].at = "answered" /\ op'[c].answer = "cancelled"
      /\ tx \in [owner : Client \union {None}, rows : SUBSET Row] /\ rows \subseteq Row
      /\ None \notin Client /\ None \notin Answers
  <2>1. op[c].row \in RowsOf(c)
    BY <1>1 DEF Abandons, Touches, StoreInv, Calls
  <2> QED
    BY <2>1, <1>1, TablesOfClients, StoreAssumption DEF Abandons, Touches, StoreInv, StoreTypeOK
<1>3. \/ rows' = rows /\ tx' = tx
      \/ \A d \in Client : d # c => ~Holds(d)
  BY <1>1, Alone DEF Abandons, Touches, StoreInv, Lock, Holds, Allowed, LockFree
<1>4. StoreTypeOK'
  <2>1. rows' \subseteq Row
    BY <1>1, <1>2 DEF Abandons
  <2>2. tx' \in [owner : Client \union {None}, rows : SUBSET Row]
    <3>1. CASE rows' = rows /\ tx' = tx
      BY <3>1, <1>2
    <3>2. CASE tx' = NoTx
      BY <3>2 DEF NoTx
    <3>3. CASE tx' = [owner |-> c, rows |-> tx'.rows] /\ tx'.rows \subseteq tx.rows \union {op[c].row}
      <4>1. tx'.rows \subseteq Row
        BY <3>3, <1>2
      <4> QED
        BY <4>1, <3>3, <1>2
    <3> QED
      BY <1>1, <3>1, <3>2, <3>3 DEF Abandons
  <2> QED
    BY <2>1, <2>2, <1>1, <1>2 DEF Abandons, StoreInv, StoreTypeOK
<1>5. Calls'
  <2>1. ASSUME NEW d \in Client, d # c
        PROVE  /\ op'[d].answer # None <=> op'[d].at = "answered"
               /\ op'[d].at # "idle" => op'[d].row \in RowsOf(d)
               /\ op'[d].at \in {"waiting", "begun"} => ~op'[d].fresh
               /\ op'[d].at = "begun" => op'[d].row.table \in {"outcome", "shadow"} /\ tx'.rows = {}
               /\ op'[d].at = "written" =>
                     /\ op'[d].row \in rows' \union tx'.rows
                     /\ op'[d].fresh <=> op'[d].row \notin rows'
    BY <2>1, <1>2, <1>3 DEF StoreInv, Calls, Holds, Table
  <2>2. /\ op'[c].answer # None
        /\ op'[c].at = "answered"
        /\ op'[c].row \in RowsOf(c)
    BY <1>2 DEF Answers
  <2> QED
    BY <2>1, <2>2 DEF Calls, Table
<1>6. Keys'
  <2>1. CASE \/ rows' = rows /\ tx' = tx
             \/ rows' = rows \union tx.rows /\ tx' = NoTx
    BY <2>1 DEF NoTx, StoreInv, Keys, SameKey
  <2>2. CASE /\ rows' = rows /\ tx'.owner = c
             /\ \/ tx'.rows = tx.rows
                \/ /\ tx'.rows = tx.rows \union {op[c].row}
                   /\ Stored(op[c].row) = {} /\ Table(c) # "policy"
    <3>1. CASE tx'.rows = tx.rows
      BY <2>2, <3>1, <1>2 DEF StoreInv, Keys, SameKey
    <3>2. CASE tx'.rows = tx.rows \union {op[c].row} /\ Stored(op[c].row) = {} /\ Table(c) # "policy"
      <4>1. \A p \in rows \union tx.rows : ~SameKey(p, op[c].row)
        BY <3>2 DEF Stored
      <4>2. ASSUME NEW p \in rows' \union tx'.rows, NEW q \in rows' \union tx'.rows, SameKey(p, q)
            PROVE  p = q
        BY <2>2, <3>2, <4>1, <4>2 DEF SameKey, StoreInv, Keys
      <4> QED
        BY <2>2, <3>2, <4>2, <1>2 DEF StoreInv, Keys, Table
    <3> QED
      BY <2>2, <3>1, <3>2
  <2> QED
    BY <1>1, <2>1, <2>2 DEF Abandons
<1>7. Lock'
  <2>1. \A d \in Client : Holds(d)' => tx'.owner = d
    <3>1. ~Holds(c)'
      BY <1>2 DEF Holds
    <3>2. \A d \in Client : d # c => (Holds(d)' <=> Holds(d))
      BY <1>2 DEF Holds
    <3> QED
      BY <1>3, <3>1, <3>2 DEF StoreInv, Lock
  <2>2. Owned'
    <3>1. CASE tx'.owner = None
      BY <3>1 DEF Owned
    <3>2. CASE tx'.owner = c
      BY <3>2, <1>2 DEF Owned
    <3>3. CASE tx' = tx /\ tx'.owner # c /\ tx'.owner # None
      <4>1. tx.owner \in Client /\ op'[tx.owner] = op[tx.owner]
        BY <3>3, <1>2
      <4> QED
        BY <3>3, <4>1 DEF StoreInv, Lock, Owned, Holds
    <3> QED
      BY <1>1, <3>1, <3>2, <3>3 DEF Abandons, NoTx
  <2>3. ASSUME NEW d \in Client, op'[d].answer = "cancelled"
        PROVE  \/ d = Shadow /\ phase' \in {"recorder", "store", "closed"}
               \/ d = Recorder /\ phase' \in {"store", "closed"}
    BY <2>3, <1>2, PipelineAssumption DEF StoreInv, Lock
  <2> QED
    BY <2>1, <2>2, <2>3 DEF Lock
<1> QED
  BY <1>4, <1>5, <1>6, <1>7 DEF StoreInv

\* The store is closed when its callers are done.
LEMMA ClosedStore ==
    ASSUME StoreInv, CloseStore, phase = "store", phase' = "closed",
           \A c \in Client : ~Holds(c)
    PROVE  StoreInv'
<1>1. StoreTypeOK' /\ Keys'
  BY DEF StoreInv, StoreTypeOK, Keys, SameKey, CloseStore, NoTx
<1>2. Calls'
  BY DEF StoreInv, Calls, CloseStore, NoTx, Holds, Table
<1>3. Lock'
  BY DEF StoreInv, Lock, Owned, CloseStore, NoTx, Holds
<1> QED
  BY <1>1, <1>2, <1>3 DEF StoreInv

\* The process dies: the file keeps what was committed.
LEMMA RestartedStore ==
    ASSUME StoreInv, Restart
    PROVE  StoreInv'
<1>1. /\ op' = [c \in Client |-> NoCall] /\ tx' = NoTx /\ open' = TRUE /\ errors' = errors
      /\ rows' \in {rows, rows \union tx.rows} /\ phase' = "current"
  BY DEF Restart
<1>2. None \notin Answers
  BY StoreAssumption
<1>3. StoreTypeOK'
  BY <1>1 DEF StoreInv, StoreTypeOK, NoTx, NoCall, Call
<1>4. Keys'
  BY <1>1 DEF StoreInv, Keys, SameKey, NoTx
<1>5. Calls' /\ Lock'
  BY <1>1, <1>2 DEF Calls, Lock, Owned, Holds, NoCall, NoTx, Answers
<1> QED
  BY <1>3, <1>4, <1>5 DEF StoreInv

\* What a step of the call of c does to rows, seen by the others.
RowsGrow(c) ==
    /\ rows \subseteq rows'
    /\ rows' \union tx'.rows \subseteq rows \union tx.rows \union {op[c].row}
    /\ tx'.rows \subseteq tx.rows \union {op[c].row}
    /\ \A d \in Client : d # c => op'[d] = op[d]
    /\ \A d \in Client : d # c /\ Holds(d) => rows' = rows /\ tx' = tx

LEMMA StepGrows ==
    ASSUME StoreInv, NEW c \in Client,
           Step(c) \/ \E sent \in BOOLEAN : CancelCall(c, sent)
    PROVE  RowsGrow(c)
<1>1. CASE Step(c)
  <2>1. /\ Touches(c) /\ Allowed(c)
        /\ Refuses(c) \/ Opens(c) \/ Inserts(c) \/ Commits(c) \/ Leaves(c)
    BY <1>1, StepEffects
  <2>2. \A d \in Client : d # c => ~Holds(d)
    BY <2>1, Alone
  <2> QED
    BY <2>1, <2>2 DEF RowsGrow, Touches, Refuses, Opens, Inserts, Commits, Leaves, NoTx
<1>2. CASE \E sent \in BOOLEAN : CancelCall(c, sent)
  <2>1. Abandons(c)
    BY <1>2, CancelEffects
  <2>2. \/ rows' = rows /\ tx' = tx
        \/ \A d \in Client : d # c => ~Holds(d)
    BY <2>1, Alone DEF Abandons, Touches, StoreInv, Lock, Holds, Allowed, LockFree
  <2> QED
    BY <2>1, <2>2 DEF RowsGrow, Abandons, Touches, NoTx
<1> QED
  BY <1>1, <1>2

-----------------------------------------------------------------------------
(* Queues                                                                   *)

LEMMA QueueAppend ==
    ASSUME NEW q \in Seq(Request), IsInjective(q), NEW r \in Request, r \notin ToSet(q)
    PROVE  Holding(Append(q, r), ToSet(q) \union {r})
<1> DEFINE all == Append(q, r)
<1>1. /\ all \in Seq(Request) /\ Len(all) = Len(q) + 1
      /\ \A i \in 1..Len(q) : all[i] = q[i]
      /\ all[Len(q) + 1] = r
  BY AppendProperties
<1>2. DOMAIN all = 1..(Len(q) + 1) /\ DOMAIN q = 1..Len(q) /\ Len(q) \in Nat
  BY <1>1, LenProperties
<1> HIDE DEF all
<1>3. \A i \in DOMAIN all : i \in DOMAIN q \/ i = Len(q) + 1
  BY <1>2
<1>4. \A i \in DOMAIN q : i \in DOMAIN all /\ all[i] = q[i] /\ all[i] # r
  BY <1>1, <1>2 DEF ToSet
<1>5. Len(q) + 1 \in DOMAIN all
  BY <1>2
<1>6. IsInjective(all)
  BY <1>1, <1>3, <1>4 DEF IsInjective
<1>7. ToSet(all) = ToSet(q) \union {r}
  BY <1>1, <1>3, <1>4, <1>5 DEF ToSet
<1> QED
  BY <1>1, <1>6, <1>7 DEF Holding, all

LEMMA QueueTail ==
    ASSUME NEW q \in Seq(Request), IsInjective(q), q # <<>>
    PROVE  /\ Head(q) \in ToSet(q)
           /\ Holding(Tail(q), ToSet(q) \ {Head(q)})
<1> DEFINE rest == Tail(q)
<1>1. /\ rest \in Seq(Request) /\ Len(rest) = Len(q) - 1
      /\ \A i \in 1..Len(rest) : rest[i] = q[i + 1]
      /\ Head(q) = q[1]
  BY HeadTailProperties
<1>2. /\ DOMAIN rest = 1..(Len(q) - 1) /\ DOMAIN q = 1..Len(q)
      /\ Len(q) \in Nat /\ Len(q) # 0
  BY <1>1, LenProperties, EmptySeq
<1> HIDE DEF rest
<1>3. 1 \in DOMAIN q
  BY <1>2
<1>4. \A i \in DOMAIN rest : i + 1 \in DOMAIN q /\ i + 1 # 1 /\ rest[i] = q[i + 1]
  BY <1>1, <1>2
<1>5. \A i \in DOMAIN q : i # 1 => i - 1 \in DOMAIN rest /\ rest[i - 1] = q[i]
  <2> SUFFICES ASSUME NEW i \in DOMAIN q, i # 1
               PROVE  i - 1 \in DOMAIN rest /\ rest[i - 1] = q[i]
    OBVIOUS
  <2>1. i - 1 \in DOMAIN rest /\ i - 1 + 1 = i
    BY <1>2
  <2> QED
    BY <2>1, <1>4
<1>6. \A i, j \in DOMAIN rest : i + 1 = j + 1 => i = j
  BY <1>2
<1>7. IsInjective(rest)
  BY <1>4, <1>6 DEF IsInjective
<1>8. ToSet(rest) = ToSet(q) \ {Head(q)}
  <2>1. \A x \in ToSet(rest) : x \in ToSet(q) /\ x # q[1]
    BY <1>3, <1>4 DEF ToSet, IsInjective
  <2>2. \A x \in ToSet(q) : x # q[1] => x \in ToSet(rest)
    BY <1>5 DEF ToSet
  <2> QED
    BY <2>1, <2>2, <1>1
<1>9. Head(q) \in ToSet(q)
  BY <1>1, <1>3 DEF ToSet
<1> QED
  BY <1>1, <1>7, <1>8, <1>9 DEF Holding, rest

LEMMA QueueEmpty == Holding(<<>>, {})
BY DEF Holding, IsInjective, ToSet

-----------------------------------------------------------------------------
(* The store and the phases, over every step                                *)

LEMMA Callers ==
    /\ Boot \in Client /\ Recorder \in Client /\ Shadow \in Client /\ Handler \subseteq Client
    /\ RowsOf(Boot) = Policies
    /\ RowsOf(Recorder) = {DecisionRow(r) : r \in Request}
    /\ RowsOf(Shadow) = {ShadowRow(r, v) : r \in Request, v \in Verdict}
    /\ \A h \in Handler : h \notin {Boot, Recorder, Shadow} /\ RowsOf(h) = Event
BY PipelineAssumption DEF RowsOf

LEMMA NextStore ==
    ASSUME EInv, [Next]_vars
    PROVE  StoreInv'
<1> USE DEF EInv
<1>1. CASE UNCHANGED vars
  BY <1>1, IdleStore DEF vars, pipeVars, Onward
<1>2. CASE Startup
  <2>1. CASE EnsureCurrent
    BY <2>1, AskStore, Callers, PipelineAssumption DEF EnsureCurrent, pipeVars
  <2>2. CASE CurrentEnsured
    <3>1. op[Boot].answer # "cancelled" /\ Onward
      BY <2>2, Callers, PipelineAssumption DEF CurrentEnsured, StoreInv, Lock, Onward
    <3> QED
      BY <2>2, <3>1, ReleaseStore, Callers DEF CurrentEnsured
  <2>3. CASE NoCandidate
    BY <2>3, IdleStore DEF NoCandidate, Onward
  <2>4. CASE LoadCandidate
    BY <2>4, AskStore, Callers, PipelineAssumption DEF LoadCandidate
  <2>5. CASE CandidateEnsured
    <3>1. op[Boot].answer # "cancelled" /\ Onward
      BY <2>5, Callers, PipelineAssumption DEF CandidateEnsured, StoreInv, Lock, Onward
    <3> QED
      BY <2>5, <3>1, ReleaseStore, Callers DEF CandidateEnsured
  <2> QED
    BY <1>2, <2>1, <2>2, <2>3, <2>4, <2>5 DEF Startup
<1>3. CASE RecorderTake
  <2>1. Head(decisions) \in Request
    BY <1>3, HeadTailProperties DEF RecorderTake, DecisionInv
  <2>2. DecisionRow(Head(decisions)) \in RowsOf(Recorder)
    BY <2>1, Callers
  <2> QED
    BY <1>3, <2>2, AskStore, Callers DEF RecorderTake
<1>4. CASE RecorderDone
  <2>1. op[Recorder].answer # "cancelled"
    BY <1>4, StoreAssumption DEF RecorderDone, Answer, Answers
  <2> QED
    BY <1>4, <2>1, ReleaseStore, Callers DEF RecorderDone, Onward
<1>5. CASE ShadowStored
  <2>1. op[Shadow].answer # "cancelled"
    BY <1>5, StoreAssumption DEF ShadowStored, Answer, Answers
  <2> QED
    BY <1>5, <2>1, ReleaseStore, Callers DEF ShadowStored, Onward
<1>6. ASSUME NEW verdict \in Verdict, ThreadEnd(verdict)
      PROVE  StoreInv'
  <2>1. CASE shadow[thread] = "replaying"
    <3>1. ShadowRow(thread, verdict) \in RowsOf(Shadow)
      BY <1>6, Callers DEF ThreadEnd, ShadowInv
    <3> QED
      BY <1>6, <2>1, <3>1, AskStore, Callers DEF ThreadEnd, Store
  <2>2. CASE shadow[thread] # "replaying"
    BY <1>6, <2>2, IdleStore DEF ThreadEnd, Onward
  <2> QED
    BY <2>1, <2>2
<1>7. CASE EvalTake \/ Stop \/ (\E r \in Request : ThreadStart(r) \/ ReplayTimeout(r))
           \/ (\E r \in Request, eligible \in BOOLEAN : Resolve(r, eligible))
  BY <1>7, IdleStore DEF EvalTake, Stop, ThreadStart, ReplayTimeout, Resolve, Onward
<1>8. CASE ShadowCloses
  <2>1. CASE UNCHANGED storeVars
    BY <1>8, <2>1, IdleStore DEF ShadowCloses, Onward
  <2>2. CASE \E sent \in BOOLEAN : CancelCall(Shadow, sent)
    BY <1>8, <2>2, CancelStore, Callers DEF ShadowCloses
  <2> QED
    BY <1>8, <2>1, <2>2 DEF ShadowCloses
<1>9. CASE RecorderCloses
  <2>1. CASE UNCHANGED storeVars
    BY <1>9, <2>1, IdleStore DEF RecorderCloses, Onward
  <2>2. CASE \E sent \in BOOLEAN : CancelCall(Recorder, sent)
    BY <1>9, <2>2, CancelStore, Callers DEF RecorderCloses
  <2> QED
    BY <1>9, <2>1, <2>2 DEF RecorderCloses
<1>10. CASE StoreCloses
  <2>1. \A c \in Client : ~Holds(c)
    BY <1>10, PipelineAssumption DEF StoreCloses, Phases, Holds
  <2> QED
    BY <1>10, <2>1, ClosedStore DEF StoreCloses
<1>11. CASE Restart
  BY <1>11, RestartedStore
<1>12. ASSUME NEW c \in Client, Step(c), UNCHANGED pipeVars
       PROVE  StoreInv'
  BY <1>12, StepStore
<1>13. ASSUME NEW h \in Handler, Reply(h)
       PROVE  StoreInv'
  <2>1. op[h].answer # "cancelled"
    BY Callers DEF StoreInv, Lock
  <2> QED
    BY <1>13, <2>1, ReleaseStore, Callers DEF Reply, Onward, pipeVars
<1>14. ASSUME NEW h \in Handler, NEW event \in Event, Submit(h, event)
       PROVE  StoreInv'
  BY <1>14, AskStore, Callers DEF Submit, pipeVars
<1> QED
  BY <1>1, <1>2, <1>3, <1>4, <1>5, <1>6, <1>7, <1>8, <1>9, <1>10, <1>11, <1>12, <1>13, <1>14
  DEF Next, Workers, Shutdown

\* A step of a call leaves the others alone, and goes on with its own.
LEMMA StepMoves ==
    ASSUME StoreInv, NEW c \in Client, Step(c)
    PROVE  \A d \in Client :
             /\ op'[d].at # "idle" => op[d].at # "idle"
             /\ op'[d].at \in {"waiting", "begun", "written"} =>
                    op[d].at \in {"waiting", "begun", "written"}
BY StepEffects DEF Touches

LEMMA CancelMoves ==
    ASSUME StoreInv, NEW c \in Client, NEW sent \in BOOLEAN, CancelCall(c, sent)
    PROVE  /\ \A d \in Client : d # c => op'[d] = op[d]
           /\ op'[c].at = "answered" /\ op[c].at # "idle"
BY CancelEffects DEF Abandons, Touches

LEMMA AskMoves ==
    ASSUME StoreInv, NEW c \in Client, NEW row, Ask(c, row)
    PROVE  /\ \A d \in Client : d # c => op'[d] = op[d]
           /\ op[c].at = "idle" /\ op'[c].at \in {"waiting", "answered"}
           /\ op'[c].row = row /\ op'[c].answer # "cancelled"
           /\ op'[c].answer = None <=> op'[c].at = "waiting"
           /\ op'[c].answer # "written" /\ UNCHANGED <<rows, tx>>
BY StoreAssumption DEF StoreInv, StoreTypeOK, Ask, NoCall, Answers

LEMMA ReleaseMoves ==
    ASSUME StoreInv, NEW c \in Client, Release(c)
    PROVE  /\ \A d \in Client : d # c => op'[d] = op[d]
           /\ op'[c] = NoCall /\ op'[c].at = "idle" /\ op[c].at = "answered"
           /\ UNCHANGED <<rows, tx>>
BY DEF StoreInv, StoreTypeOK, Release, NoCall

LEMMA NextPhases ==
    ASSUME EInv, [Next]_vars
    PROVE  Phases'
<1> USE DEF EInv
<1>1. CASE UNCHANGED vars
  BY <1>1 DEF Phases, vars, pipeVars, storeVars
<1>2. CASE Startup
  <2>1. UNCHANGED <<capture, shadow>>
    BY <1>2 DEF Startup, EnsureCurrent, CurrentEnsured, NoCandidate, LoadCandidate,
                CandidateEnsured, pipeVars
  <2>2. CASE EnsureCurrent \/ LoadCandidate
    <3>1. \A d \in Client : d # Boot => op'[d] = op[d]
      BY <2>2, AskMoves, Callers DEF EnsureCurrent, LoadCandidate
    <3>2. phase' = phase /\ (phase = "current" \/ (phase = "candidate" /\ bundle'))
      BY <2>2 DEF EnsureCurrent, LoadCandidate, pipeVars
    <3>3. \A d \in Handler \union {Recorder, Shadow} : op'[d] = op[d]
      BY <3>1, Callers, PipelineAssumption
    <3> QED
      BY <2>1, <3>2, <3>3 DEF Phases
  <2>3. CASE CurrentEnsured \/ CandidateEnsured
    <3>1. \A d \in Client : op'[d] = op[d] \/ op'[d].at = "idle"
      BY <2>3, ReleaseMoves, Callers DEF CurrentEnsured, CandidateEnsured
    <3>2. op'[Boot].at = "idle"
      BY <2>3, ReleaseMoves, Callers DEF CurrentEnsured, CandidateEnsured
    <3> QED
      BY <2>1, <2>3, <3>1, <3>2, Callers DEF CurrentEnsured, CandidateEnsured, Phases
  <2>4. CASE NoCandidate
    BY <2>1, <2>4 DEF NoCandidate, Phases, storeVars
  <2> QED
    BY <1>2, <2>2, <2>3, <2>4 DEF Startup
<1>3. CASE RecorderTake
  <2>1. /\ phase \in {"running", "shadow", "recorder"} /\ Ask(Recorder, DecisionRow(Head(decisions)))
        /\ capture' = [capture EXCEPT ![Head(decisions)] = "writing"]
        /\ UNCHANGED <<phase, bundle, shadow, evals, thread, crashes>>
    BY <1>3 DEF RecorderTake
  <2>2. \A d \in Client : d # Recorder => op'[d] = op[d]
    BY <2>1, AskMoves, Callers
  <2> QED
    BY <2>1, <2>2, Callers, PipelineAssumption DEF Phases
<1>4. CASE RecorderDone
  <2>1. \A d \in Client : op'[d] = op[d] \/ op'[d].at = "idle"
    BY <1>4, ReleaseMoves, Callers DEF RecorderDone
  <2>2. \A r \in Request : capture'[r] = capture[r] \/ capture'[r] \in {"written", "failed"}
    BY <1>4 DEF RecorderDone, DecisionInv
  <2> QED
    BY <1>4, <2>1, <2>2, Callers DEF RecorderDone, Phases
<1>5. CASE ShadowStored
  <2>1. \A d \in Client : op'[d] = op[d] \/ op'[d].at = "idle"
    BY <1>5, ReleaseMoves, Callers DEF ShadowStored
  <2>2. \A r \in Request : shadow'[r] = shadow[r] \/ shadow'[r] = "done"
    BY <1>5 DEF ShadowStored, ShadowInv
  <2> QED
    BY <1>5, <2>1, <2>2, Callers DEF ShadowStored, Phases
<1>6. ASSUME NEW verdict \in Verdict, ThreadEnd(verdict)
      PROVE  Phases'
  <2>1. CASE shadow[thread] = "replaying"
    <3>1. phase \in {"running", "shadow"}
      BY <1>6, <2>1 DEF ThreadEnd, ShadowInv, Phases
    <3>2. \A d \in Client : d # Shadow => op'[d] = op[d]
      BY <1>6, <2>1, AskMoves, Callers DEF ThreadEnd, Store
    <3> QED
      BY <1>6, <3>1, <3>2, Callers, PipelineAssumption DEF ThreadEnd, Phases
  <2>2. CASE shadow[thread] # "replaying"
    BY <1>6, <2>2 DEF ThreadEnd, Phases, storeVars
  <2> QED
    BY <2>1, <2>2
<1>7. CASE EvalTake \/ (\E r \in Request : ThreadStart(r) \/ ReplayTimeout(r))
           \/ (\E r \in Request, eligible \in BOOLEAN : Resolve(r, eligible))
  <2>1. UNCHANGED <<storeVars, phase, bundle>>
    BY <1>7 DEF EvalTake, ThreadStart, ReplayTimeout, Resolve
  <2>2. CASE phase \in {"running", "shadow"} /\ UNCHANGED capture
    BY <2>1, <2>2 DEF Phases, storeVars
  <2>3. CASE phase = "running"
    BY <2>1, <2>3 DEF Phases, storeVars
  <2>4. CASE UNCHANGED <<shadow, capture>>
    BY <2>1, <2>4 DEF Phases, storeVars
  <2>5. \A r \in Request : shadow[r] = "replaying" => phase \in {"running", "shadow"}
    BY DEF Phases
  <2> QED
    BY <1>7, <2>2, <2>3, <2>4, <2>5 DEF EvalTake, ThreadStart, ReplayTimeout, Resolve
<1>8. CASE Stop
  BY <1>8, PipelineAssumption DEF Stop, Phases, storeVars
<1>9. CASE ShadowCloses
  <2>1. /\ phase = "shadow" /\ phase' = "recorder" /\ UNCHANGED <<bundle, capture>>
        /\ \A r \in Request : shadow'[r] \notin {"queued", "replaying", "storing"}
    BY <1>9 DEF ShadowCloses
  <2>2. /\ \A d \in Client : d # Shadow => op'[d] = op[d]
        /\ op'[Shadow].at \notin {"waiting", "begun", "written"}
    <3>1. CASE EvaluatorDrained /\ UNCHANGED storeVars
      <4>1. \A r \in Request : shadow[r] # "storing"
        BY <3>1 DEF EvaluatorDrained, EvaluatorIdle
      <4>2. op[Shadow].at \in {"waiting", "begun", "written"} =>
              op[Shadow].row \in RowsOf(Shadow) /\ op[Shadow].answer # "cancelled"
        BY Callers, StoreAssumption DEF StoreInv, Calls, Answers
      <4> QED
        BY <3>1, <4>1, <4>2, Callers DEF ShadowInv, storeVars
    <3>2. CASE op[Shadow].at = "idle" /\ UNCHANGED storeVars
      BY <3>2 DEF storeVars
    <3>3. CASE \E sent \in BOOLEAN : CancelCall(Shadow, sent)
      BY <3>3, CancelMoves, Callers
    <3> QED
      BY <1>9, <3>1, <3>2, <3>3 DEF ShadowCloses
  <2> QED
    BY <2>1, <2>2, Callers, PipelineAssumption DEF Phases
<1>10. CASE RecorderCloses
  <2>1. /\ phase = "recorder" /\ phase' = "store" /\ UNCHANGED <<bundle, shadow>>
        /\ \A r \in Request : capture'[r] \notin {"queued", "writing"}
    BY <1>10 DEF RecorderCloses
  <2>2. /\ \A d \in Client : d # Recorder => op'[d] = op[d]
        /\ op'[Recorder].at \notin {"waiting", "begun", "written"}
    BY <1>10, CancelMoves, Callers DEF RecorderCloses, storeVars
  <2> QED
    BY <2>1, <2>2, Callers, PipelineAssumption DEF Phases
<1>11. CASE StoreCloses
  BY <1>11 DEF StoreCloses, CloseStore, Phases
<1>12. CASE Restart
  <2>1. \A c \in Client : op'[c].at = "idle"
    BY <1>12 DEF Restart, NoCall
  <2>2. \A r \in Request : /\ shadow'[r] \notin {"queued", "replaying", "storing"}
                           /\ capture'[r] \notin {"queued", "writing"}
    BY <1>12 DEF Restart
  <2> QED
    BY <2>1, <2>2, Callers DEF Phases
<1>13. ASSUME NEW c \in Client, Step(c), UNCHANGED pipeVars
       PROVE  Phases'
  BY <1>13, StepMoves, Callers DEF Phases, pipeVars
<1>14. ASSUME NEW h \in Handler, Reply(h) \/ \E event \in Event : Submit(h, event)
       PROVE  Phases'
  <2>1. /\ \A d \in Client : d # h => op'[d] = op[d]
        /\ op'[h].at # "idle" => phase = "running"
    BY <1>14, AskMoves, ReleaseMoves, Callers DEF Reply, Submit
  <2> QED
    BY <1>14, <2>1, Callers, PipelineAssumption DEF Phases, pipeVars, Reply, Submit
<1> QED
  BY <1>1, <1>2, <1>3, <1>4, <1>5, <1>6, <1>7, <1>8, <1>9, <1>10, <1>11, <1>12, <1>13, <1>14
  DEF Next, Workers, Shutdown

\* What any step of the system does to the store.
LEMMA Kinds ==
    ASSUME EInv, [Next]_vars
    PROVE  \/ UNCHANGED storeVars
           \/ \E c \in Client :
                \/ \E row \in RowsOf(c) : Ask(c, row)
                \/ Release(c) \/ Step(c)
                \/ \E sent \in BOOLEAN : CancelCall(c, sent)
           \/ CloseStore \/ Restart
<1> USE DEF EInv
<1>1. CASE Startup
  BY <1>1, Callers, PipelineAssumption
  DEF Startup, EnsureCurrent, CurrentEnsured, NoCandidate, LoadCandidate, CandidateEnsured
<1>2. CASE RecorderTake
  <2>1. DecisionRow(Head(decisions)) \in RowsOf(Recorder)
    BY <1>2, HeadTailProperties, Callers DEF RecorderTake, DecisionInv
  <2> QED
    BY <1>2, <2>1, Callers DEF RecorderTake
<1>3. ASSUME NEW verdict \in Verdict, ThreadEnd(verdict)
      PROVE  UNCHANGED storeVars \/ \E row \in RowsOf(Shadow) : Ask(Shadow, row)
  BY <1>3, Callers DEF ThreadEnd, Store, ShadowInv
<1>4. CASE RecorderDone \/ EvalTake \/ ShadowStored
           \/ \E r \in Request : ThreadStart(r) \/ ReplayTimeout(r)
  BY <1>4, Callers DEF RecorderDone, EvalTake, ShadowStored, ThreadStart, ReplayTimeout
<1>5. CASE Shutdown
  BY <1>5, Callers DEF Shutdown, Stop, ShadowCloses, RecorderCloses, StoreCloses
<1>6. CASE \/ \E r \in Request, eligible \in BOOLEAN : Resolve(r, eligible)
           \/ \E h \in Handler : Reply(h) \/ \E event \in Event : Submit(h, event)
  BY <1>6, Callers DEF Resolve, Reply, Submit
<1>7. CASE UNCHANGED vars
  BY <1>7 DEF vars
<1> QED
  BY <1>1, <1>2, <1>3, <1>4, <1>5, <1>6, <1>7, Callers DEF Next, Workers

LEMMA NextIdleCalls ==
    ASSUME EInv, [Next]_vars
    PROVE  IdleCalls'
<1> USE DEF EInv
<1>1. CASE UNCHANGED op
  BY <1>1 DEF IdleCalls
<1>2. ASSUME NEW c \in Client, NEW row, Ask(c, row)
      PROVE  IdleCalls'
  BY <1>2, AskMoves DEF IdleCalls
<1>3. ASSUME NEW c \in Client, Release(c)
      PROVE  IdleCalls'
  BY <1>3, ReleaseMoves DEF IdleCalls, NoCall
<1>4. ASSUME NEW c \in Client, Step(c)
      PROVE  IdleCalls'
  <2>1. Touches(c) /\ op'[c].at # "idle"
    BY <1>4, StepEffects DEF Refuses, Opens, Inserts, Commits, Leaves
  <2> QED
    BY <2>1 DEF IdleCalls, Touches
<1>5. ASSUME NEW c \in Client, NEW sent \in BOOLEAN, CancelCall(c, sent)
      PROVE  IdleCalls'
  BY <1>5, CancelMoves DEF IdleCalls
<1>6. CASE Restart
  BY <1>6 DEF Restart, IdleCalls, NoCall
<1> QED
  BY <1>1, <1>2, <1>3, <1>4, <1>5, <1>6, Kinds DEF storeVars, CloseStore

-----------------------------------------------------------------------------
(* The recorder's decisions                                                 *)

\* Nobody takes one decision for another.
LEMMA DecisionRows ==
    \A r \in Request :
        /\ DecisionRow(r) # None
        /\ \A q \in Request : DecisionRow(r) = DecisionRow(q) => r = q
        /\ DecisionRow(r).key = r /\ DecisionRow(r).table = "decision"
BY StoreAssumption, PipelineAssumption DEF DecisionRow

\* The call of another client, seen by the recorder.
DecisionsAside ==
    /\ UNCHANGED <<capture, decisions, crashes>>
    /\ op'[Recorder] = op[Recorder]
    /\ rows \subseteq rows'
    /\ \A r \in Request :
          /\ DecisionRow(r) \in rows' => DecisionRow(r) \in rows \union tx.rows
          /\ DecisionRow(r) \in tx'.rows => DecisionRow(r) \in tx.rows
    /\ op[Recorder].at = "written" => rows' = rows /\ tx' = tx
    /\ phase \in {"store", "closed"} => phase' \in {"store", "closed"}
    /\ phase' = "closed" => \A r \in Request : capture[r] \notin {"queued", "writing"}

LEMMA AsideDecisions ==
    ASSUME EInv, DecisionsAside
    PROVE  DecisionInv'
<1> USE DEF EInv
<1>1. \A r \in Request :
        capture[r] \in {"none", "refused", "queued", "failed"} =>
            DecisionRow(r) \notin rows' \union tx'.rows
  BY DEF DecisionsAside, DecisionInv, DecisionsAccounted
<1>2. Answer(Recorder)' = Answer(Recorder)
  BY DEF DecisionsAside, Answer
<1>3. DecisionsAccounted'
  BY <1>1, <1>2 DEF DecisionsAside, DecisionInv, DecisionsAccounted
<1>4. op[Recorder].at # "idle" => \E r \in Request : op[Recorder].row = DecisionRow(r)
  BY Callers DEF StoreInv, Calls
<1>5. op[Recorder].answer # None => op[Recorder].at = "answered"
  BY Callers DEF StoreInv, Calls
<1>6. /\ op[Recorder].at = "waiting" => op[Recorder].row \notin rows' \union tx'.rows
      /\ op[Recorder].at = "written" => op[Recorder].row \in tx'.rows \ rows'
      /\ op[Recorder].answer = "written" => op[Recorder].row \in rows' \ tx'.rows
      /\ op[Recorder].answer = "failed" => op[Recorder].row \notin rows' \union tx'.rows
  BY <1>4, <1>5, StoreAssumption DEF DecisionsAside, DecisionInv, Answers
<1> QED
  BY <1>3, <1>6 DEF DecisionsAside, DecisionInv

\* A step of another client's call does not touch decisions.
LEMMA OthersAside ==
    ASSUME EInv, NEW c \in Client, c # Recorder, RowsGrow(c), op[c].row \in RowsOf(c),
           UNCHANGED <<capture, decisions, crashes>>,
           phase \in {"store", "closed"} => phase' \in {"store", "closed"},
           phase' # "closed" \/ phase' = phase
    PROVE  DecisionsAside
<1> USE DEF EInv
<1>1. \A r \in Request : op[c].row # DecisionRow(r)
  BY TablesOfClients, DecisionRows
<1>2. op'[Recorder] = op[Recorder]
  BY Callers DEF RowsGrow
<1>3. op[Recorder].at = "written" => rows' = rows /\ tx' = tx
  BY Callers DEF RowsGrow, Holds
<1>4. phase' = "closed" => \A r \in Request : capture[r] \notin {"queued", "writing"}
  BY DEF Phases
<1> QED
  BY <1>1, <1>2, <1>3, <1>4 DEF DecisionsAside, RowsGrow

LEMMA RecorderSteps ==
    ASSUME EInv, Step(Recorder), UNCHANGED pipeVars
    PROVE  DecisionInv'
<1> USE DEF EInv
<1>1. /\ Touches(Recorder)
      /\ Refuses(Recorder) \/ Opens(Recorder) \/ Inserts(Recorder) \/ Commits(Recorder) \/ Leaves(Recorder)
  BY StepEffects, Callers
<1>2. PICK q \in Request : op[Recorder].row = DecisionRow(q)
  BY <1>1, Callers DEF Touches, StoreInv, Calls
<1>3. Table(Recorder) = "decision"
  BY <1>2, DecisionRows DEF Table
<1>4. capture[q] = "writing" /\ \A r \in Request : capture[r] = "writing" => r = q
  <2>1. Answer(Recorder) # "cancelled"
    BY <1>1, StoreAssumption DEF Touches, Answer, Answers
  <2> QED
    BY <1>2, <2>1, DecisionRows DEF DecisionInv, DecisionsAccounted
<1>5. op[Recorder].at \in {"waiting", "written"}
  BY <1>1, <1>3, Callers DEF Touches, StoreInv, Calls
<1>6. op'[Recorder].row = DecisionRow(q)
  BY <1>1, <1>2 DEF Touches
<1>7. CASE Refuses(Recorder)
  <2>1. /\ op'[Recorder].at = "answered" /\ op'[Recorder].answer = "failed"
        /\ rows' = rows /\ tx'.rows = {}
    BY <1>3, <1>7 DEF Refuses, NoTx
  <2>2. DecisionRow(q) \notin rows
    BY <1>2, <1>5 DEF DecisionInv
  <2>3. Answer(Recorder)' # "cancelled"
    BY <2>1 DEF Answer
  <2>4. DecisionsAccounted'
    BY <1>4, <1>6, <2>1, <2>3, DecisionRows DEF DecisionInv, DecisionsAccounted, pipeVars
  <2> QED
    BY <1>6, <2>1, <2>2, <2>4 DEF DecisionInv, pipeVars
<1>8. CASE Inserts(Recorder)
  <2>1. /\ op'[Recorder].at = "written" /\ op'[Recorder].answer = None
        /\ rows' = rows /\ tx'.rows = tx.rows \union {DecisionRow(q)} /\ DecisionRow(q) \notin rows
    BY <1>2, <1>3, <1>8 DEF Inserts
  <2>2. Answer(Recorder)' # "cancelled" /\ None \notin Answers
    BY <2>1, StoreAssumption DEF Answer, Answers
  <2>3. DecisionsAccounted'
    BY <1>4, <1>6, <2>1, <2>2, DecisionRows DEF DecisionInv, DecisionsAccounted, pipeVars
  <2>4. \A r \in Request : DecisionRow(r) \in tx'.rows => capture[r] \in {"writing", "lost"}
    BY <1>4, <2>1, DecisionRows DEF DecisionInv
  <2> QED
    BY <1>6, <2>1, <2>2, <2>3, <2>4 DEF DecisionInv, pipeVars, Answers
<1>9. CASE Commits(Recorder)
  <2>1. op[Recorder].at = "written" /\ op[Recorder].fresh
    BY <1>9, Callers DEF Commits, StoreInv, Calls, DecisionInv
  <2>2. /\ op'[Recorder].at = "answered" /\ op'[Recorder].answer = "written"
        /\ rows' = rows \union tx.rows /\ tx'.rows = {} /\ DecisionRow(q) \in rows'
    BY <1>2, <1>9, <2>1 DEF Commits, NoTx, DecisionInv
  <2>3. Answer(Recorder)' # "cancelled"
    BY <2>2 DEF Answer
  <2>4. DecisionsAccounted'
    BY <1>4, <1>6, <2>2, <2>3, DecisionRows DEF DecisionInv, DecisionsAccounted, pipeVars
  <2> QED
    BY <1>6, <2>2, <2>4 DEF DecisionInv, pipeVars
<1>10. CASE Opens(Recorder) \/ Leaves(Recorder)
  BY <1>3, <1>10 DEF Opens, Leaves
<1> QED
  BY <1>1, <1>7, <1>8, <1>9, <1>10

LEMMA Takes ==
    ASSUME EInv, RecorderTake
    PROVE  DecisionInv'
<1> USE DEF EInv
<1> DEFINE h == Head(decisions)
<1>1. /\ h \in ToSet(decisions) /\ Holding(decisions', ToSet(decisions) \ {h})
  BY QueueTail DEF RecorderTake, DecisionInv, DecisionsAccounted
<1>2. h \in Request /\ capture[h] = "queued"
  BY <1>1 DEF DecisionInv, DecisionsAccounted
<1>3. /\ op[Recorder].at = "idle" /\ op'[Recorder].at \in {"waiting", "answered"}
      /\ op'[Recorder].row = DecisionRow(h) /\ op'[Recorder].answer \notin {"cancelled", "written"}
      /\ UNCHANGED <<rows, tx>>
  BY AskMoves, Callers DEF RecorderTake
<1>4. /\ capture' = [capture EXCEPT ![h] = "writing"] /\ UNCHANGED crashes
      /\ phase' = phase /\ phase \in {"running", "shadow", "recorder"}
  BY DEF RecorderTake
<1>5. Answer(Recorder)' # "cancelled"
  BY <1>3, StoreAssumption DEF Answer, Answers
<1> HIDE DEF h
<1>6. \A r \in Request : capture[r] # "writing"
  BY <1>3, Callers, DecisionRows DEF DecisionInv, DecisionsAccounted, IdleCalls
<1>7. DecisionRow(h) \notin rows \union tx.rows
  BY <1>2 DEF DecisionInv, DecisionsAccounted
<1>8. \A r \in Request : capture'[r] = IF r = h THEN "writing" ELSE capture[r]
  BY <1>2, <1>4 DEF DecisionInv
<1>9. IsInjective(decisions') /\ ToSet(decisions') = {r \in Request : capture'[r] = "queued"}
  BY <1>1, <1>2, <1>8 DEF Holding, DecisionInv, DecisionsAccounted
<1>10. DecisionsAccounted'
  BY <1>2, <1>3, <1>4, <1>5, <1>6, <1>7, <1>8, <1>9, DecisionRows DEF DecisionInv, DecisionsAccounted
<1>11. \A r \in Request : DecisionRow(r) \in tx'.rows => capture'[r] \in {"writing", "lost"}
  BY <1>3, <1>8 DEF DecisionInv
<1> QED
  BY <1>1, <1>2, <1>3, <1>4, <1>7, <1>10, <1>11 DEF Holding, DecisionInv

LEMMA Counted ==
    ASSUME EInv, RecorderDone
    PROVE  DecisionInv'
<1> USE DEF EInv
<1>1. /\ op[Recorder].at = "answered" /\ op[Recorder].answer \in {"written", "failed"}
      /\ op'[Recorder] = NoCall /\ UNCHANGED <<rows, tx, decisions, phase, crashes>>
  BY ReleaseMoves, StoreAssumption, Callers DEF RecorderDone, Answer, Answers
<1>2. PICK q \in Request : op[Recorder].row = DecisionRow(q)
  BY <1>1, Callers DEF StoreInv, Calls
<1>3. capture[q] = "writing" /\ \A r \in Request : capture[r] = "writing" => r = q
  <2>1. Answer(Recorder) # "cancelled"
    BY <1>1 DEF Answer
  <2> QED
    BY <1>2, <2>1, DecisionRows DEF DecisionInv, DecisionsAccounted
<1>4. capture' = [capture EXCEPT ![q] = op[Recorder].answer]
  BY <1>1, <1>2, DecisionRows DEF RecorderDone, Answer
<1>5. \A r \in Request : capture'[r] = IF r = q THEN op[Recorder].answer ELSE capture[r]
  BY <1>4 DEF DecisionInv
<1>6. op'[Recorder].row = None /\ op'[Recorder].answer = None /\ op'[Recorder].at = "idle"
  BY <1>1 DEF NoCall
<1>7. /\ op[Recorder].answer = "written" => DecisionRow(q) \in rows \ tx.rows
      /\ op[Recorder].answer = "failed" => DecisionRow(q) \notin rows \union tx.rows
  BY <1>2 DEF DecisionInv
<1>8. DecisionsAccounted'
  BY <1>1, <1>3, <1>5, <1>6, <1>7, DecisionRows DEF DecisionInv, DecisionsAccounted
<1>9. \A r \in Request : DecisionRow(r) \in tx'.rows => capture'[r] \in {"writing", "lost"}
  BY <1>1, <1>5, <1>7 DEF DecisionInv
<1>10. capture' \in [Request -> {"none", "refused", "queued", "writing", "written", "failed", "lost"}]
  BY <1>1, <1>4 DEF DecisionInv
<1> QED
  BY <1>1, <1>6, <1>8, <1>9, <1>10, StoreAssumption DEF DecisionInv, Answers

LEMMA Drained ==
    ASSUME EInv, RecorderCloses
    PROVE  DecisionInv'
<1> USE DEF EInv
<1> DEFINE given == {r \in Request : capture[r] \in {"queued", "writing"}}
<1>1. /\ phase' = "store" /\ decisions' = <<>> /\ UNCHANGED crashes
      /\ capture' = [r \in Request |-> IF capture[r] \in {"queued", "writing"} THEN "lost" ELSE capture[r]]
  BY DEF RecorderCloses
<1>2. /\ rows \subseteq rows'
      /\ \A r \in Request : DecisionRow(r) \in rows' \union tx'.rows =>
            DecisionRow(r) \in rows \union tx.rows \/ r \in given
      /\ \A r \in Request : DecisionRow(r) \in tx'.rows => DecisionRow(r) \in tx.rows \/ r \in given
  <2>1. CASE UNCHANGED storeVars
    BY <2>1 DEF storeVars
  <2>2. ASSUME NEW sent \in BOOLEAN, CancelCall(Recorder, sent)
        PROVE  <1>2
    <3>1. RowsGrow(Recorder)
      BY <2>2, StepGrows, Callers
    <3>2. /\ op[Recorder].at \in {"waiting", "begun", "written"}
          /\ op[Recorder].row \in RowsOf(Recorder) /\ Answer(Recorder) # "cancelled"
      BY <2>2, Callers, StoreAssumption DEF CancelCall, StoreInv, Calls, Answer, Answers
    <3>3. PICK q \in Request : op[Recorder].row = DecisionRow(q)
      BY <3>2, Callers
    <3>4. q \in given
      BY <3>2, <3>3 DEF DecisionInv, DecisionsAccounted
    <3> QED
      BY <3>1, <3>3, <3>4, DecisionRows DEF RowsGrow
  <2> QED
    BY <2>1, <2>2 DEF RecorderCloses
<1>3. \/ op'[Recorder].at = "idle" /\ op'[Recorder].row = None /\ op'[Recorder].answer = None
      \/ op'[Recorder].at = "answered" /\ op'[Recorder].answer = "cancelled"
  <2>1. CASE op[Recorder].at = "idle" /\ UNCHANGED storeVars
    BY <2>1, Callers DEF storeVars, IdleCalls, StoreInv, Calls
  <2>2. ASSUME NEW sent \in BOOLEAN, CancelCall(Recorder, sent)
        PROVE  <1>3
    BY <2>2, CancelEffects, Callers DEF Abandons
  <2> QED
    BY <2>1, <2>2 DEF RecorderCloses
<1>4. /\ capture' \in [Request -> {"none", "refused", "queued", "writing", "written", "failed", "lost"}]
      /\ \A r \in Request : capture'[r] = IF r \in given THEN "lost" ELSE capture[r]
      /\ \A r \in Request : capture'[r] \notin {"queued", "writing"}
  BY <1>1 DEF DecisionInv
<1>5. \A r \in Request : op'[Recorder].row = DecisionRow(r) => Answer(Recorder)' = "cancelled"
  BY <1>3, DecisionRows DEF Answer
<1>6. \A r \in Request : DecisionRow(r) \in rows' \union tx'.rows => capture'[r] \in {"written", "lost"}
  BY <1>2, <1>4 DEF DecisionInv, DecisionsAccounted
<1>7. \A r \in Request : DecisionRow(r) \in tx'.rows => capture'[r] = "lost"
  BY <1>2, <1>4 DEF DecisionInv
<1>8. DecisionsAccounted'
  <2>1. IsInjective(decisions') /\ ToSet(decisions') = {r \in Request : capture'[r] = "queued"}
    BY <1>1, <1>4, QueueEmpty DEF Holding
  <2>2. \A r \in Request : capture'[r] = "written" => DecisionRow(r) \in rows'
    BY <1>2, <1>4 DEF DecisionInv, DecisionsAccounted
  <2> QED
    BY <1>1, <1>4, <1>5, <1>6, <2>1, <2>2 DEF DecisionsAccounted
<1> QED
  BY <1>1, <1>3, <1>4, <1>7, <1>8, StoreAssumption DEF DecisionInv, Answers

LEMMA Captures ==
    ASSUME EInv, NEW r \in Request, capture[r] = "none", Record(r),
           UNCHANGED <<storeVars, phase, crashes>>, phase = "running"
    PROVE  DecisionInv'
<1> USE DEF EInv
<1>1. CASE capture' = [capture EXCEPT ![r] = "refused"] /\ UNCHANGED decisions
  BY <1>1 DEF DecisionInv, DecisionsAccounted, storeVars, Answer
<1>2. CASE capture' = [capture EXCEPT ![r] = "queued"] /\ decisions' = Append(decisions, r)
  <2>1. r \notin ToSet(decisions)
    BY DEF DecisionInv, DecisionsAccounted
  <2>2. Holding(decisions', ToSet(decisions) \union {r})
    BY <1>2, <2>1, QueueAppend DEF DecisionInv, DecisionsAccounted
  <2>3. \A q \in Request : capture'[q] = IF q = r THEN "queued" ELSE capture[q]
    BY <1>2 DEF DecisionInv
  <2>4. DecisionsAccounted'
    BY <2>2, <2>3 DEF Holding, DecisionInv, DecisionsAccounted, storeVars, Answer
  <2> QED
    BY <1>2, <2>2, <2>3, <2>4 DEF Holding, DecisionInv, storeVars
<1> QED
  BY <1>1, <1>2 DEF Record

LEMMA Reborn ==
    ASSUME EInv, Restart
    PROVE  DecisionInv'
<1> USE DEF EInv
<1>1. /\ capture' = [r \in Request |-> IF capture[r] \in {"queued", "writing"} THEN "lost" ELSE capture[r]]
      /\ decisions' = <<>> /\ crashes' = crashes + 1 /\ phase' = "current"
      /\ tx'.rows = {} /\ op'[Recorder] = NoCall
      /\ rows' \in {rows, rows \union tx.rows}
  BY Callers DEF Restart, NoTx
<1>2. /\ op'[Recorder].at = "idle" /\ op'[Recorder].row = None /\ op'[Recorder].answer = None
      /\ crashes' \in Nat /\ crashes' > 0
  BY <1>1 DEF NoCall, DecisionInv
<1>3. /\ capture' \in [Request -> {"none", "refused", "queued", "writing", "written", "failed", "lost"}]
      /\ \A r \in Request : capture'[r] \notin {"queued", "writing"}
      /\ \A r \in Request : capture'[r] = capture[r] \/ capture'[r] = "lost"
  BY <1>1 DEF DecisionInv
<1>4. DecisionsAccounted'
  <2>1. IsInjective(decisions') /\ ToSet(decisions') = {r \in Request : capture'[r] = "queued"}
    BY <1>1, <1>3, QueueEmpty DEF Holding
  <2>2. \A r \in Request : op'[Recorder].row # DecisionRow(r)
    BY <1>2, DecisionRows
  <2>3. \A r \in Request : /\ capture'[r] = "written" => DecisionRow(r) \in rows'
                           /\ capture'[r] \in {"none", "refused", "failed"} => DecisionRow(r) \notin rows'
    BY <1>1, <1>3 DEF DecisionInv, DecisionsAccounted
  <2> QED
    BY <1>1, <1>2, <1>3, <2>1, <2>2, <2>3 DEF DecisionsAccounted
<1> QED
  BY <1>1, <1>2, <1>3, <1>4, StoreAssumption DEF DecisionInv, Answers

LEMMA NextDecisions ==
    ASSUME EInv, [Next]_vars
    PROVE  DecisionInv'
<1> USE DEF EInv
<1>0. ASSUME UNCHANGED <<rows, tx, capture, decisions, crashes>>, op'[Recorder] = op[Recorder],
             phase \in {"store", "closed"} => phase' \in {"store", "closed"},
             phase' # "closed" \/ phase' = phase
      PROVE  DecisionInv'
  <2>1. phase' = "closed" => \A r \in Request : capture[r] \notin {"queued", "writing"}
    BY <1>0 DEF Phases
  <2> QED
    BY <1>0, <2>1, AsideDecisions DEF DecisionsAside
<1>1. CASE UNCHANGED vars
  BY <1>0, <1>1 DEF vars, pipeVars, storeVars
<1>2. CASE Startup
  <2>1. op'[Recorder] = op[Recorder] /\ UNCHANGED <<rows, tx>>
    BY <1>2, AskMoves, ReleaseMoves, Callers, PipelineAssumption
    DEF Startup, EnsureCurrent, CurrentEnsured, NoCandidate, LoadCandidate, CandidateEnsured, storeVars
  <2>2. UNCHANGED <<capture, decisions, crashes>> /\ phase \notin {"store", "closed"} /\ phase' # "closed"
    BY <1>2 DEF Startup, EnsureCurrent, CurrentEnsured, NoCandidate, LoadCandidate,
                CandidateEnsured, pipeVars
  <2> QED
    BY <1>0, <2>1, <2>2
<1>3. CASE EvalTake \/ Stop \/ \E r \in Request : ThreadStart(r) \/ ReplayTimeout(r)
  BY <1>0, <1>3 DEF EvalTake, Stop, ThreadStart, ReplayTimeout, storeVars
<1>4. CASE ShadowStored
  <2>1. op'[Recorder] = op[Recorder] /\ UNCHANGED <<rows, tx>>
    BY <1>4, ReleaseMoves, Callers, PipelineAssumption DEF ShadowStored
  <2> QED
    BY <1>0, <1>4, <2>1 DEF ShadowStored
<1>5. ASSUME NEW verdict \in Verdict, ThreadEnd(verdict)
      PROVE  DecisionInv'
  <2>1. op'[Recorder] = op[Recorder] /\ UNCHANGED <<rows, tx>>
    BY <1>5, AskMoves, Callers, PipelineAssumption DEF ThreadEnd, Store, storeVars
  <2> QED
    BY <1>0, <1>5, <2>1 DEF ThreadEnd
<1>6. CASE ShadowCloses
  <2>1. CASE UNCHANGED storeVars
    BY <1>0, <1>6, <2>1 DEF ShadowCloses, storeVars
  <2>2. ASSUME NEW sent \in BOOLEAN, CancelCall(Shadow, sent)
        PROVE  DecisionInv'
    <3>1. RowsGrow(Shadow) /\ op[Shadow].row \in RowsOf(Shadow)
      BY <2>2, StepGrows, CancelMoves, Callers DEF StoreInv, Calls
    <3>2. DecisionsAside
      BY <1>6, <3>1, OthersAside, Callers, PipelineAssumption DEF ShadowCloses
    <3> QED
      BY <3>2, AsideDecisions
  <2> QED
    BY <1>6, <2>1, <2>2 DEF ShadowCloses
<1>7. CASE StoreCloses
  <2>1. op[Recorder].at # "written" /\ \A r \in Request : capture[r] \notin {"queued", "writing"}
    BY <1>7 DEF StoreCloses, Phases
  <2>2. DecisionsAside
    BY <1>7, <2>1 DEF StoreCloses, CloseStore, NoTx, DecisionsAside
  <2> QED
    BY <2>2, AsideDecisions
<1>8. ASSUME NEW c \in Client, Step(c), UNCHANGED pipeVars
      PROVE  DecisionInv'
  <2>1. CASE c = Recorder
    BY <1>8, <2>1, RecorderSteps
  <2>2. CASE c # Recorder
    <3>1. RowsGrow(c) /\ op[c].row \in RowsOf(c)
      BY <1>8, StepGrows, StepEffects DEF Touches, StoreInv, Calls
    <3>2. DecisionsAside
      BY <1>8, <2>2, <3>1, OthersAside DEF pipeVars
    <3> QED
      BY <3>2, AsideDecisions
  <2> QED
    BY <2>1, <2>2
<1>9. ASSUME NEW r \in Request, NEW eligible \in BOOLEAN, Resolve(r, eligible)
      PROVE  DecisionInv'
  BY <1>9, Captures DEF Resolve
<1>10. ASSUME NEW h \in Handler, Reply(h) \/ \E event \in Event : Submit(h, event)
       PROVE  DecisionInv'
  <2>1. op'[Recorder] = op[Recorder] /\ UNCHANGED <<rows, tx>>
    BY <1>10, AskMoves, ReleaseMoves, Callers DEF Reply, Submit
  <2> QED
    BY <1>0, <1>10, <2>1 DEF Reply, Submit, pipeVars
<1> QED
  BY <1>1, <1>2, <1>3, <1>4, <1>5, <1>6, <1>7, <1>8, <1>9, <1>10, Takes, Counted, Drained, Reborn
  DEF Next, Workers, Shutdown

-----------------------------------------------------------------------------
(* The evaluator's results                                                  *)

LEMMA ShadowRows ==
    \A r \in Request, v \in Verdict :
        /\ ShadowRow(r, v) # None
        /\ ShadowRow(r, v).key = r /\ ShadowRow(r, v).table = "shadow"
        /\ \A q \in Request, w \in Verdict : ShadowRow(r, v) = ShadowRow(q, w) => r = q
<1> SUFFICES ASSUME NEW r \in Request, NEW v \in Verdict
             PROVE  /\ ShadowRow(r, v) # None
                    /\ ShadowRow(r, v).key = r /\ ShadowRow(r, v).table = "shadow"
                    /\ \A q \in Request, w \in Verdict : ShadowRow(r, v) = ShadowRow(q, w) => r = q
  OBVIOUS
<1>1. ShadowRow(r, v) \in Row
  BY PipelineAssumption
<1> QED
  BY <1>1, StoreAssumption DEF ShadowRow

\* What becomes of the evaluator's requests, while no row of his is stored but
\* that of his call in progress.
ShadowMoves ==
    /\ Stranded' =>
          \/ Stranded
          \/ /\ op[Shadow].row \in Unbindable \intersect RowsOf(Shadow)
             /\ op[Shadow].answer # "cancelled"
    /\ shadow' \in [Request -> {"none", "declined", "dropped", "queued", "replaying",
                                "timeout", "storing", "done", "lost"}]
    /\ Holding(evals', {r \in Request : shadow'[r] = "queued"})
    /\ thread' \in Request \union {None}
    /\ \A r \in Request : capture'[r] = "none" => shadow'[r] = "none"
    /\ \A r \in Request : shadow[r] \in {"storing", "done", "lost"} =>
          shadow'[r] \in {"storing", "done", "lost"}
    /\ \A r \in Request, v \in Verdict :
          op'[Shadow].row = ShadowRow(r, v) /\ op'[Shadow].answer # "cancelled" =>
              shadow'[r] = "storing"
    /\ rows \subseteq rows'
    /\ \A p \in rows' \union tx'.rows : p.table = "shadow" =>
          \/ p \in rows \union tx.rows
          \/ /\ p = op[Shadow].row /\ p \in RowsOf(Shadow) /\ op[Shadow].answer # "cancelled"
             /\ Policies \subseteq rows

LEMMA MovedShadows ==
    ASSUME EInv, ShadowMoves
    PROVE  ShadowInv'
<1> USE DEF EInv
<1>1. ASSUME NEW r \in Request, NEW v \in Verdict, ShadowRow(r, v) \in rows' \union tx'.rows
      PROVE  shadow'[r] \in {"storing", "done", "lost"} /\ Policies \subseteq rows'
  <2>1. shadow[r] \in {"storing", "done", "lost"} /\ Policies \subseteq rows
    BY <1>1, ShadowRows DEF ShadowMoves, ShadowInv
  <2> QED
    BY <2>1 DEF ShadowMoves
<1>2. \A p \in rows' \union tx'.rows : p.table = "shadow" =>
         \E r \in Request, v \in Verdict : p = ShadowRow(r, v)
  BY Callers DEF ShadowMoves, ShadowInv
<1>3. ASSUME Stranded'
      PROVE  AskedUnbindable'
  <2>1. PICK r \in Request, v \in Verdict :
           ShadowRow(r, v) \in Unbindable /\ shadow[r] \in {"storing", "done", "lost"}
    BY <1>3, Callers DEF ShadowMoves, ShadowInv, AskedUnbindable
  <2> QED
    BY <2>1 DEF ShadowMoves, AskedUnbindable
<1> QED
  BY <1>1, <1>2, <1>3 DEF ShadowMoves, ShadowInv

\* A step of a call, or its end.
LEMMA CallShadows ==
    ASSUME EInv, NEW c \in Client, Step(c) \/ \E sent \in BOOLEAN : CancelCall(c, sent)
    PROVE  /\ rows \subseteq rows'
           /\ op'[Shadow].row = op[Shadow].row
           /\ c # Shadow => op'[Shadow] = op[Shadow]
           /\ Stranded' =>
                 \/ Stranded
                 \/ /\ op[Shadow].row \in Unbindable \intersect RowsOf(Shadow)
                    /\ op[Shadow].answer # "cancelled"
           /\ \A p \in rows' \union tx'.rows : p.table = "shadow" =>
                 \/ p \in rows \union tx.rows
                 \/ /\ p = op[Shadow].row /\ p \in RowsOf(Shadow) /\ op[Shadow].answer # "cancelled"
                    /\ Policies \subseteq rows
<1> USE DEF EInv
<1>1. RowsGrow(c) /\ op'[c].row = op[c].row
  BY StepGrows, StepEffects, CancelEffects DEF Touches, Abandons
<1>2. op[c].row \in RowsOf(c) /\ op[c].answer = None
  <2>1. op[c].at \in {"waiting", "begun", "written"}
    BY StepEffects, CancelEffects DEF Touches, Abandons
  <2> QED
    BY <2>1 DEF StoreInv, Calls
<1>3. rows \subseteq rows' /\ op'[Shadow].row = op[Shadow].row /\ (c # Shadow => op'[Shadow] = op[Shadow])
  BY <1>1, Callers DEF RowsGrow
<1>4. ASSUME NEW p \in rows' \union tx'.rows, p.table = "shadow", p \notin rows \union tx.rows
      PROVE  /\ p = op[Shadow].row /\ p \in RowsOf(Shadow) /\ op[Shadow].answer # "cancelled"
             /\ Policies \subseteq rows
  <2>1. p = op[c].row /\ c = Shadow
    BY <1>1, <1>2, <1>4, TablesOfClients DEF RowsGrow
  <2>2. Policies \subseteq rows
    <3>1. CASE Step(c)
      BY <3>1, <1>4, <2>1, StepEffects DEF Refuses, Opens, Inserts, Commits, Leaves, NoTx, Table
    <3>2. CASE \E sent \in BOOLEAN : CancelCall(c, sent)
      BY <3>2, <1>4, <2>1, CancelEffects DEF Abandons, NoTx, Table
    <3> QED
      BY <3>1, <3>2
  <2> QED
    BY <1>2, <2>1, <2>2, StoreAssumption DEF Answers
<1>5. ASSUME Stranded'
      PROVE  \/ Stranded
             \/ /\ op[Shadow].row \in Unbindable \intersect RowsOf(Shadow)
                /\ op[Shadow].answer # "cancelled"
  <2>1. /\ tx'.owner = Shadow /\ ~Holds(Shadow)' /\ op'[Shadow].answer # "cancelled"
        /\ Shadow # None
    BY <1>5, Callers, StoreAssumption DEF Stranded
  <2>2. CASE c # Shadow
    <3>1. tx'.owner \in {None, c} \/ tx' = tx
      <4>1. CASE Step(c)
        BY <4>1, StepEffects DEF Refuses, Opens, Inserts, Commits, Leaves, NoTx
      <4>2. CASE \E sent \in BOOLEAN : CancelCall(c, sent)
        BY <4>2, CancelEffects DEF Abandons, NoTx
      <4> QED
        BY <4>1, <4>2
    <3>2. tx' = tx /\ op'[Shadow] = op[Shadow]
      BY <1>3, <2>1, <2>2, <3>1
    <3> QED
      BY <2>1, <3>2 DEF Stranded, Holds
  <2>3. CASE c = Shadow
    <3>1. Leaves(Shadow)
      <4>1. Step(Shadow)
        BY <2>1, <2>3, CancelEffects DEF Abandons
      <4> QED
        BY <2>1, <4>1, StepEffects, Callers DEF Refuses, Opens, Inserts, Commits, NoTx, Holds
    <3>2. Table(Shadow) = "shadow"
      BY <1>2, <2>3, TablesOfClients, Callers DEF Table
    <3> QED
      BY <1>2, <2>3, <3>1, <3>2, StoreAssumption DEF Leaves, Answers
  <2> QED
    BY <2>2, <2>3
<1> QED
  BY <1>3, <1>4, <1>5

LEMMA NextShadows ==
    ASSUME EInv, [Next]_vars
    PROVE  ShadowInv'
<1> USE DEF EInv
<1>0. ASSUME UNCHANGED <<rows, tx, shadow, evals>>, op'[Shadow] = op[Shadow],
             thread' \in Request \union {None},
             \A r \in Request : capture'[r] = "none" => capture[r] = "none"
      PROVE  ShadowInv'
  <2>1. ShadowMoves
    BY <1>0 DEF ShadowMoves, ShadowInv, Stranded, Holds
  <2> QED
    BY <2>1, MovedShadows
<1>1. CASE UNCHANGED vars
  BY <1>0, <1>1 DEF vars, pipeVars, storeVars, ShadowInv
<1>2. CASE Startup
  <2>1. op'[Shadow] = op[Shadow] /\ UNCHANGED <<rows, tx>>
    BY <1>2, AskMoves, ReleaseMoves, Callers, PipelineAssumption
    DEF Startup, EnsureCurrent, CurrentEnsured, NoCandidate, LoadCandidate, CandidateEnsured, storeVars
  <2>2. UNCHANGED <<shadow, evals, thread, capture>>
    BY <1>2 DEF Startup, EnsureCurrent, CurrentEnsured, NoCandidate, LoadCandidate,
                CandidateEnsured, pipeVars
  <2> QED
    BY <1>0, <2>1, <2>2 DEF ShadowInv
<1>3. CASE RecorderTake \/ RecorderDone
  <2>1. op'[Shadow] = op[Shadow] /\ UNCHANGED <<rows, tx>>
    BY <1>3, AskMoves, ReleaseMoves, Callers, PipelineAssumption DEF RecorderTake, RecorderDone
  <2>2. \A r \in Request : capture'[r] = "none" => capture[r] = "none"
    BY <1>3, StoreAssumption DEF RecorderTake, RecorderDone, DecisionInv, Answer
  <2> QED
    BY <1>0, <1>3, <2>1, <2>2 DEF RecorderTake, RecorderDone, ShadowInv
<1>4. CASE EvalTake
  <2> DEFINE h == Head(evals)
  <2>1. h \in ToSet(evals) /\ Holding(evals', ToSet(evals) \ {h})
    BY <1>4, QueueTail DEF EvalTake, ShadowInv, Holding
  <2>2. h \in Request /\ shadow[h] = "queued" /\ capture[h] # "none"
    BY <2>1 DEF ShadowInv, Holding
  <2>3. shadow' = [shadow EXCEPT ![h] = "replaying"] /\ UNCHANGED <<storeVars, capture, thread>>
    BY <1>4 DEF EvalTake
  <2> HIDE DEF h
  <2>4. \A r \in Request : shadow'[r] = IF r = h THEN "replaying" ELSE shadow[r]
    BY <2>2, <2>3 DEF ShadowInv
  <2>5. ToSet(evals) \ {h} = {r \in Request : shadow'[r] = "queued"}
    BY <2>2, <2>4 DEF ShadowInv, Holding
  <2>6. ShadowMoves
    BY <2>1, <2>2, <2>3, <2>4, <2>5 DEF ShadowMoves, ShadowInv, Stranded, Holds, storeVars
  <2> QED
    BY <2>6, MovedShadows
<1>5. ASSUME NEW r \in Request, ReplayTimeout(r)
      PROVE  ShadowInv'
  <2>1. /\ shadow[r] = "replaying" /\ shadow' = [shadow EXCEPT ![r] = "timeout"]
        /\ UNCHANGED <<storeVars, capture, evals, thread>>
    BY <1>5 DEF ReplayTimeout
  <2>2. \A q \in Request : shadow'[q] = IF q = r THEN "timeout" ELSE shadow[q]
    BY <2>1 DEF ShadowInv
  <2>3. {q \in Request : shadow'[q] = "queued"} = {q \in Request : shadow[q] = "queued"}
    BY <2>1, <2>2
  <2>4. ShadowMoves
    BY <2>1, <2>2, <2>3 DEF ShadowMoves, ShadowInv, Stranded, Holds, storeVars
  <2> QED
    BY <2>4, MovedShadows
<1>6. ASSUME NEW r \in Request, ThreadStart(r)
      PROVE  ShadowInv'
  BY <1>0, <1>6 DEF ThreadStart, storeVars
<1>7. ASSUME NEW verdict \in Verdict, ThreadEnd(verdict)
      PROVE  ShadowInv'
  <2>1. thread \in Request /\ thread' = None /\ UNCHANGED <<capture, evals>>
    BY <1>7 DEF ThreadEnd, ShadowInv
  <2>2. CASE shadow[thread] = "replaying"
    <3>1. /\ shadow' = [shadow EXCEPT ![thread] = "storing"]
          /\ op'[Shadow].row = ShadowRow(thread, verdict) /\ UNCHANGED <<rows, tx>>
      BY <1>7, <2>2, AskMoves, Callers DEF ThreadEnd, Store
    <3>2. \A q \in Request : shadow'[q] = IF q = thread THEN "storing" ELSE shadow[q]
      BY <2>1, <3>1 DEF ShadowInv
    <3>3. {q \in Request : shadow'[q] = "queued"} = {q \in Request : shadow[q] = "queued"}
      BY <2>2, <3>2
    <3>4. ASSUME NEW q \in Request, NEW v \in Verdict, op'[Shadow].row = ShadowRow(q, v)
          PROVE  q = thread
      <4>1. ShadowRow(thread, verdict) = ShadowRow(q, v)
        BY <3>1, <3>4
      <4>2. ShadowRow(thread, verdict).key = thread /\ ShadowRow(q, v).key = q
        BY <2>1, ShadowRows
      <4> QED
        BY <4>1, <4>2
    <3>5. Stranded' => Stranded
      <4>1. op[Shadow].at = "idle"
        BY <1>7, <2>2, AskMoves, Callers DEF ThreadEnd, Store
      <4>2. op[Shadow].answer # "cancelled"
        BY <4>1, Callers, StoreAssumption DEF StoreInv, Calls, Answers
      <4> QED
        BY <3>1, <4>1, <4>2 DEF Stranded, Holds
    <3>6. ShadowMoves
      BY <2>1, <2>2, <3>1, <3>2, <3>3, <3>4, <3>5 DEF ShadowMoves, ShadowInv
    <3> QED
      BY <3>6, MovedShadows
  <2>3. CASE shadow[thread] # "replaying"
    BY <1>0, <1>7, <2>1, <2>3 DEF ThreadEnd, storeVars
  <2> QED
    BY <2>2, <2>3
<1>8. CASE ShadowStored
  <2>1. /\ op[Shadow].at = "answered" /\ op[Shadow].answer # "cancelled"
        /\ op'[Shadow].row = None /\ UNCHANGED <<rows, tx, capture, evals, thread>>
    BY <1>8, ReleaseMoves, StoreAssumption, Callers DEF ShadowStored, Answer, Answers, NoCall
  <2>2. PICK q \in Request, v \in Verdict : op[Shadow].row = ShadowRow(q, v)
    BY <2>1, Callers DEF StoreInv, Calls
  <2>3. shadow[q] = "storing" /\ shadow' = [shadow EXCEPT ![q] = "done"]
    <3>1. op[Shadow].row.key = q
      BY <2>2, ShadowRows
    <3>2. shadow[q] = "storing"
      BY <2>1, <2>2 DEF ShadowInv
    <3> QED
      BY <1>8, <3>1, <3>2 DEF ShadowStored
  <2>4. \A r \in Request : shadow'[r] = IF r = q THEN "done" ELSE shadow[r]
    BY <2>3 DEF ShadowInv
  <2>5. {r \in Request : shadow'[r] = "queued"} = {r \in Request : shadow[r] = "queued"}
    BY <2>3, <2>4
  <2>6. \A r \in Request, w \in Verdict : op'[Shadow].row # ShadowRow(r, w)
    BY <2>1, ShadowRows
  <2>7. shadow' \in [Request -> {"none", "declined", "dropped", "queued", "replaying",
                                 "timeout", "storing", "done", "lost"}]
    BY <2>3 DEF ShadowInv
  <2>8. \A r \in Request : capture'[r] = "none" => shadow'[r] = "none"
    BY <2>1, <2>3, <2>4 DEF ShadowInv
  <2>9. ShadowMoves
    BY <2>1, <2>3, <2>4, <2>5, <2>6, <2>7, <2>8 DEF ShadowMoves, ShadowInv, Stranded, Holds
  <2> QED
    BY <2>9, MovedShadows
<1>9. CASE ShadowCloses
  <2>1. /\ evals' = <<>> /\ UNCHANGED <<capture, thread>>
        /\ shadow' = [r \in Request |->
              IF shadow[r] \in {"queued", "replaying", "storing"} THEN "lost" ELSE shadow[r]]
    BY <1>9 DEF ShadowCloses
  <2>2. /\ rows \subseteq rows'
        /\ \A p \in rows' \union tx'.rows : p.table = "shadow" =>
              \/ p \in rows \union tx.rows
              \/ /\ p = op[Shadow].row /\ p \in RowsOf(Shadow) /\ op[Shadow].answer # "cancelled"
                 /\ Policies \subseteq rows
    <3>1. CASE UNCHANGED storeVars
      BY <3>1 DEF storeVars
    <3>2. CASE \E sent \in BOOLEAN : CancelCall(Shadow, sent)
      BY <3>2, CallShadows, Callers
    <3> QED
      BY <1>9, <3>1, <3>2 DEF ShadowCloses
  <2>3. \A r \in Request, v \in Verdict :
           ~(op'[Shadow].row = ShadowRow(r, v) /\ op'[Shadow].answer # "cancelled")
    <3>1. CASE EvaluatorDrained /\ UNCHANGED storeVars
      BY <3>1 DEF EvaluatorDrained, EvaluatorIdle, ShadowInv, storeVars
    <3>2. CASE op[Shadow].at = "idle" /\ UNCHANGED storeVars
      BY <3>2, ShadowRows, Callers DEF IdleCalls, storeVars
    <3>3. CASE \E sent \in BOOLEAN : CancelCall(Shadow, sent)
      BY <3>3, CancelEffects, Callers DEF Abandons
    <3> QED
      BY <1>9, <3>1, <3>2, <3>3 DEF ShadowCloses
  <2>4. /\ shadow' \in [Request -> {"none", "declined", "dropped", "queued", "replaying",
                                    "timeout", "storing", "done", "lost"}]
        /\ {r \in Request : shadow'[r] = "queued"} = {}
        /\ \A r \in Request : shadow[r] \in {"storing", "done", "lost"} =>
              shadow'[r] \in {"storing", "done", "lost"}
        /\ \A r \in Request : shadow[r] = "none" => shadow'[r] = "none"
    BY <2>1 DEF ShadowInv
  <2>6. Stranded' =>
           \/ Stranded
           \/ /\ op[Shadow].row \in Unbindable \intersect RowsOf(Shadow)
              /\ op[Shadow].answer # "cancelled"
    <3>1. CASE UNCHANGED storeVars
      BY <3>1 DEF storeVars, Stranded, Holds
    <3>2. CASE \E sent \in BOOLEAN : CancelCall(Shadow, sent)
      BY <3>2, CallShadows, Callers
    <3> QED
      BY <1>9, <3>1, <3>2 DEF ShadowCloses
  <2>5. ShadowMoves
    BY <2>1, <2>2, <2>3, <2>4, <2>6, QueueEmpty DEF ShadowMoves, ShadowInv
  <2> QED
    BY <2>5, MovedShadows
<1>10. CASE RecorderCloses
  <2>1. op'[Shadow] = op[Shadow] /\ \A r \in Request : capture'[r] = "none" => capture[r] = "none"
    BY <1>10, CancelMoves, Callers, PipelineAssumption DEF RecorderCloses, storeVars
  <2>2. /\ rows \subseteq rows'
        /\ \A p \in rows' \union tx'.rows : p.table = "shadow" =>
              \/ p \in rows \union tx.rows
              \/ /\ p = op[Shadow].row /\ p \in RowsOf(Shadow) /\ op[Shadow].answer # "cancelled"
                 /\ Policies \subseteq rows
        /\ Stranded' =>
              \/ Stranded
              \/ /\ op[Shadow].row \in Unbindable \intersect RowsOf(Shadow)
                 /\ op[Shadow].answer # "cancelled"
    BY <1>10, CallShadows, Callers DEF RecorderCloses, storeVars, Stranded, Holds
  <2>3. ShadowMoves
    BY <1>10, <2>1, <2>2 DEF RecorderCloses, ShadowMoves, ShadowInv
  <2> QED
    BY <2>3, MovedShadows
<1>11. CASE Stop
  BY <1>0, <1>11 DEF Stop, storeVars, ShadowInv
<1>12. CASE StoreCloses
  <2>1. ShadowMoves
    BY <1>12, Callers, StoreAssumption
    DEF StoreCloses, CloseStore, NoTx, ShadowMoves, ShadowInv, Stranded
  <2> QED
    BY <2>1, MovedShadows
<1>13. CASE Restart
  <2>1. /\ evals' = <<>> /\ thread' = None
        /\ shadow' = [r \in Request |->
              IF shadow[r] \in {"queued", "replaying", "storing"} THEN "lost" ELSE shadow[r]]
        /\ capture' = [r \in Request |-> IF capture[r] \in {"queued", "writing"} THEN "lost" ELSE capture[r]]
        /\ rows' \in {rows, rows \union tx.rows} /\ tx' = NoTx /\ op'[Shadow].row = None
    BY <1>13, Callers DEF Restart, NoTx, NoCall
  <2>2. /\ shadow' \in [Request -> {"none", "declined", "dropped", "queued", "replaying",
                                    "timeout", "storing", "done", "lost"}]
        /\ {r \in Request : shadow'[r] = "queued"} = {}
        /\ \A r \in Request : shadow[r] \in {"storing", "done", "lost"} =>
              shadow'[r] \in {"storing", "done", "lost"}
        /\ \A r \in Request : capture'[r] = "none" => shadow'[r] = "none"
    BY <2>1 DEF ShadowInv
  <2>3. \A r \in Request, v \in Verdict : op'[Shadow].row # ShadowRow(r, v)
    BY <2>1, ShadowRows
  <2>4. Holding(evals', {r \in Request : shadow'[r] = "queued"})
    BY <2>1, <2>2, QueueEmpty
  <2>5. tx'.rows = {} /\ ~Stranded'
    BY <2>1, Callers, StoreAssumption DEF NoTx, Stranded
  <2>6. ShadowMoves
    BY <2>1, <2>2, <2>3, <2>4, <2>5 DEF ShadowMoves
  <2> QED
    BY <2>6, MovedShadows
<1>14. ASSUME NEW c \in Client, Step(c), UNCHANGED pipeVars
       PROVE  ShadowInv'
  <2>1. op'[Shadow].answer # "cancelled" => op[Shadow].answer # "cancelled"
    <3>1. c # Shadow => op'[Shadow] = op[Shadow]
      BY <1>14, CallShadows
    <3>2. op[c].answer # "cancelled"
      BY <1>14, StepEffects, StoreAssumption DEF Touches, StoreInv, Calls, Answers
    <3> QED
      BY <3>1, <3>2
  <2>2. ShadowMoves
    BY <1>14, <2>1, CallShadows DEF ShadowMoves, ShadowInv, pipeVars
  <2> QED
    BY <2>2, MovedShadows
<1>15. ASSUME NEW r \in Request, NEW eligible \in BOOLEAN, Resolve(r, eligible)
       PROVE  ShadowInv'
  <2>1. capture[r] = "none" /\ shadow[r] = "none" /\ UNCHANGED <<storeVars, thread>>
    BY <1>15 DEF Resolve, ShadowInv
  <2>2. \A q \in Request : capture'[q] = "none" => capture[q] = "none" /\ q # r
    BY <1>15, <2>1 DEF Resolve, Record, DecisionInv
  <2>3. \/ shadow' = [shadow EXCEPT ![r] = "declined"] /\ evals' = evals
        \/ shadow' = [shadow EXCEPT ![r] = "dropped"] /\ evals' = evals
        \/ shadow' = [shadow EXCEPT ![r] = "queued"] /\ evals' = Append(evals, r)
    BY <1>15 DEF Resolve, Admit
  <2>4. \A q \in Request : q # r => shadow'[q] = shadow[q]
    BY <2>3 DEF ShadowInv
  <2>5. Holding(evals', {q \in Request : shadow'[q] = "queued"})
    <3>1. CASE shadow' = [shadow EXCEPT ![r] = "queued"] /\ evals' = Append(evals, r)
      <4>1. r \notin ToSet(evals)
        BY <2>1 DEF ShadowInv, Holding
      <4>2. Holding(evals', ToSet(evals) \union {r})
        BY <3>1, <4>1, QueueAppend DEF ShadowInv, Holding
      <4>3. ToSet(evals) \union {r} = {q \in Request : shadow'[q] = "queued"}
        BY <3>1 DEF ShadowInv, Holding
      <4> QED
        BY <4>2, <4>3
    <3>2. CASE evals' = evals /\ shadow'[r] # "queued"
      <4>1. {q \in Request : shadow'[q] = "queued"} = {q \in Request : shadow[q] = "queued"}
        BY <2>1, <2>4, <3>2
      <4> QED
        BY <3>2, <4>1 DEF ShadowInv
    <3> QED
      BY <2>3, <3>1, <3>2 DEF ShadowInv
  <2>6. ShadowMoves
    BY <2>1, <2>2, <2>3, <2>4, <2>5 DEF ShadowMoves, ShadowInv, Stranded, Holds, storeVars
  <2> QED
    BY <2>6, MovedShadows
<1>16. ASSUME NEW h \in Handler, Reply(h) \/ \E event \in Event : Submit(h, event)
       PROVE  ShadowInv'
  <2>1. op'[Shadow] = op[Shadow] /\ UNCHANGED <<rows, tx>>
    BY <1>16, AskMoves, ReleaseMoves, Callers DEF Reply, Submit
  <2> QED
    BY <1>0, <1>16, <2>1 DEF Reply, Submit, pipeVars, ShadowInv
<1> QED
  BY <1>1, <1>2, <1>3, <1>4, <1>5, <1>6, <1>7, <1>8, <1>9, <1>10, <1>11, <1>12, <1>13, <1>14, <1>15, <1>16
  DEF Next, Workers, Shutdown

-----------------------------------------------------------------------------
(* The invariant, and what it implies                                       *)

LEMMA InitEInv == Init => EInv
<1> SUFFICES ASSUME Init PROVE EInv
  OBVIOUS
<1>1. /\ rows \in {{}, Policies} /\ tx = NoTx /\ tx.owner = None /\ tx.rows = {}
      /\ op = [c \in Client |-> NoCall] /\ open = TRUE /\ errors = 0
      /\ \A c \in Client : /\ op[c].at = "idle" /\ op[c].row = None
                           /\ op[c].answer = None /\ op[c].fresh = FALSE
  BY DEF Init, StoreInit, NoTx, NoCall
<1>2. None \notin Answers /\ \A p \in rows : p \in Policies /\ p.table = "policy"
  BY <1>1, StoreAssumption, PipelineAssumption
<1>3. StoreInv
  <2>1. StoreTypeOK
    BY <1>1, StoreAssumption DEF StoreTypeOK, NoTx, NoCall, Call
  <2>2. Keys
    BY <1>1, <1>2, PipelineAssumption DEF Keys, SameKey
  <2> QED
    BY <1>1, <1>2, <2>1, <2>2 DEF StoreInv, Calls, Lock, Owned, Holds, Answers
<1>4. DecisionInv
  <2>1. \A r \in Request : DecisionRow(r) \notin rows
    BY <1>2, DecisionRows
  <2>2. \A r \in Request : op[Recorder].row # DecisionRow(r)
    BY <1>1, Callers, DecisionRows
  <2>3. capture = [r \in Request |-> "none"] /\ decisions = <<>> /\ crashes = 0 /\ phase = "current"
    BY DEF Init
  <2>4. IsInjective(decisions) /\ ToSet(decisions) = {r \in Request : capture[r] = "queued"}
    BY <2>3, QueueEmpty DEF Holding
  <2>5. DecisionsAccounted
    BY <2>1, <2>2, <2>3, <2>4 DEF DecisionsAccounted
  <2> QED
    BY <1>1, <1>2, <2>3, <2>5, Callers DEF DecisionInv, Answers
<1>5. ShadowInv
  <2>1. \A r \in Request, v \in Verdict : ShadowRow(r, v) \notin rows /\ op[Shadow].row # ShadowRow(r, v)
    BY <1>1, <1>2, Callers, ShadowRows
  <2>2. /\ shadow = [r \in Request |-> "none"] /\ evals = <<>> /\ thread = None
    BY DEF Init
  <2>3. Holding(evals, {r \in Request : shadow[r] = "queued"})
    BY <2>2, QueueEmpty
  <2> QED
    BY <1>1, <1>2, <2>1, <2>2, <2>3, Callers, StoreAssumption DEF ShadowInv, Stranded
<1>6. Phases /\ IdleCalls
  BY <1>1, Callers DEF Phases, IdleCalls, Init
<1> QED
  BY <1>3, <1>4, <1>5, <1>6 DEF EInv

LEMMA NextEInv == EInv /\ [Next]_vars => EInv'
BY NextStore, NextDecisions, NextShadows, NextPhases, NextIdleCalls DEF EInv

\* No step of sqlite_store.py leaves a transaction behind for the next caller,
\* but for the calls that shutdown cancels, the startup's ensure_policy(), and an
\* append_shadow() whose row cannot be bound: that one is empty, and there only
\* when such a row is of an admitted request.
THEOREM TransactionOwnedHolds == Spec => []TransactionOwned
<1>1. EInv => TransactionOwned
  <2> SUFFICES ASSUME EInv, tx.owner # None
               PROVE  TransactionOwned
    BY DEF TransactionOwned
  <2>1. CASE Stranded
    <3>1. \E row \in Unbindable : shadow[row.key] \notin {"none", "declined", "dropped"}
      BY <2>1, ShadowRows DEF EInv, ShadowInv, AskedUnbindable
    <3> QED
      BY <2>1, <3>1, Callers, PipelineAssumption
      DEF EInv, StoreInv, Lock, Owned, Stranded, TransactionOwned
  <2>2. CASE ~Stranded
    BY <2>2 DEF EInv, StoreInv, Lock, Owned, Stranded, TransactionOwned
  <2> QED
    BY <2>1, <2>2
<1> QED
  BY <1>1, InitEInv, NextEInv, PTL DEF Spec

\* Every captured decision is queued, being written, durable and counted, or
\* counted as failed and not durable; losses come from the end of the drain or
\* of the process only (recorder.py).
THEOREM DecisionsAccountedHolds == Spec => []DecisionsAccounted
<1>1. EInv => DecisionsAccounted
  BY DEF EInv, DecisionInv
<1> QED
  BY <1>1, InitEInv, NextEInv, PTL DEF Spec

\* A stored shadow row is of an admitted request whose replay came in time, and
\* both of its policies are durable (shadow.py, append_shadow()).
THEOREM ShadowHonestHolds == Spec => []ShadowHonest
<1>1. EInv => ShadowHonest
  <2> SUFFICES ASSUME EInv, NEW row \in rows, row.table = "shadow"
               PROVE  shadow[row.key] \in {"storing", "done", "lost"} /\ Policies \subseteq rows
    BY DEF ShadowHonest
  <2>1. PICK r \in Request, v \in Verdict : row = ShadowRow(r, v)
    BY DEF EInv, ShadowInv
  <2>2. row.key = r
    BY <2>1, ShadowRows
  <2> QED
    BY <2>1, <2>2 DEF EInv, ShadowInv
<1> QED
  BY <1>1, InitEInv, NextEInv, PTL DEF Spec

-----------------------------------------------------------------------------
(* The store implements the evidence ledger                                 *)

InProgress == {c \in Client : op[c].at \in {"waiting", "begun", "written"}}
Limbo == {op[c].row : c \in InProgress} \union (tx.rows \ rows)
Said ==
    [c \in Client |->
       IF op[c].at = "answered" THEN [row |-> op[c].row, answer |-> op[c].answer] ELSE None]

\* What a step of a call becomes durable was in limbo, as what stays there.
LEMMA CallSettles ==
    ASSUME EInv, NEW c \in InProgress, Step(c) \/ \E sent \in BOOLEAN : CancelCall(c, sent)
    PROVE  /\ \E kept \in SUBSET Limbo : Evidence!Keep(kept)
           /\ Limbo' \subseteq Limbo /\ op[c].row \in Limbo
<1> USE DEF EInv
<1>1. c \in Client /\ RowsGrow(c)
  BY StepGrows DEF InProgress
<1>2. op[c].row \in Limbo
  BY DEF Limbo
<1>3. op' \in [Client -> Call] /\ op'[c].row = op[c].row
  BY <1>1, StepEffects, CancelEffects DEF Touches, Abandons
<1>4. rows' = rows \/ rows' = rows \union tx.rows
  BY <1>1, StepEffects, CancelEffects DEF Refuses, Opens, Inserts, Commits, Leaves, Abandons
<1>5. Evidence!Keep(rows' \ rows) /\ rows' \ rows \subseteq Limbo
  <2>1. rows' = rows \union (rows' \ rows)
    BY <1>1 DEF RowsGrow
  <2>2. \A p \in rows' \ rows, q \in rows \union (rows' \ rows) :
           p.table = q.table /\ p.key = q.key => p = q
    BY <1>4 DEF StoreInv, Keys, SameKey
  <2>3. rows' \ rows \subseteq Limbo
    BY <1>4 DEF Limbo
  <2> QED
    BY <2>1, <2>2, <2>3 DEF Evidence!Keep, Evidence!SameKey
<1>6. Limbo' \subseteq Limbo
  <2>1. ASSUME NEW d \in InProgress'
        PROVE  op'[d].row \in Limbo
    BY <1>1, <1>2, <1>3, <2>1 DEF RowsGrow, InProgress, Limbo
  <2>2. tx'.rows \ rows' \subseteq Limbo
    BY <1>1, <1>2 DEF RowsGrow, Limbo
  <2> QED
    BY <2>1, <2>2 DEF Limbo
<1> QED
  BY <1>2, <1>5, <1>6

LEMMA StepAnswers ==
    ASSUME EInv, NEW c \in InProgress, Step(c) \/ \E sent \in BOOLEAN : CancelCall(c, sent)
    PROVE  \/ op'[c].at # "answered" /\ Said' = Said
           \/ /\ op'[c].at = "answered" /\ op'[c].answer \in Answers
              /\ Said[c] = None
              /\ Said' = [Said EXCEPT ![c] = [row |-> op[c].row, answer |-> op'[c].answer]]
              /\ Evidence!Truthful(op[c].row, op'[c].answer)
<1> USE DEF EInv
<1>1. c \in Client /\ op[c].at # "answered"
  BY DEF InProgress
<1>2. /\ op' \in [Client -> Call] /\ op'[c].row = op[c].row
      /\ \A d \in Client : d # c => op'[d] = op[d]
  BY <1>1, StepEffects, CancelEffects DEF Touches, Abandons
<1>3. CASE op'[c].at # "answered"
  <2>1. \A d \in Client : (op'[d].at = "answered" <=> op[d].at = "answered")
    BY <1>1, <1>2, <1>3
  <2>2. \A d \in Client :
          (IF op'[d].at = "answered" THEN [row |-> op'[d].row, answer |-> op'[d].answer] ELSE None)
          = (IF op[d].at = "answered" THEN [row |-> op[d].row, answer |-> op[d].answer] ELSE None)
    BY <1>1, <1>2, <1>3
  <2> QED
    BY <1>3, <2>2 DEF Said
<1>4. CASE op'[c].at = "answered"
  <2>1. op'[c].answer \in Answers /\ Evidence!Truthful(op[c].row, op'[c].answer)
    <3>1. CASE Refuses(c)
      BY <3>1 DEF Refuses, Answers, Evidence!Truthful, Evidence!SameKey, SameKey
    <3>2. CASE Commits(c)
      <4>1. op[c].row \in rows'
        BY <1>1, <3>2 DEF Commits, StoreInv, Calls
      <4> QED
        BY <3>2, <4>1 DEF Commits, Answers, Evidence!Truthful
    <3>3. CASE Leaves(c)
      BY <3>3 DEF Leaves, Answers, Evidence!Truthful
    <3>4. CASE op'[c].answer = "cancelled"
      BY <3>4 DEF Answers, Evidence!Truthful
    <3> QED
      BY <1>1, <1>4, <3>1, <3>2, <3>3, <3>4, StepEffects, CancelEffects DEF Opens, Inserts, Abandons
  <2>2. Said' = [Said EXCEPT ![c] = [row |-> op[c].row, answer |-> op'[c].answer]]
    BY <1>1, <1>2, <1>4 DEF Said
  <2>3. Said[c] = None
    BY <1>1 DEF Said
  <2> QED
    BY <1>4, <2>1, <2>2, <2>3
<1> QED
  BY <1>3, <1>4

LEMMA StepEvidence ==
    ASSUME EInv, [Next]_vars
    PROVE  Evidence!Next \/ UNCHANGED <<rows, Limbo, Said>>
<1> USE DEF EInv
<1>0. op \in [Client -> Call]
  BY DEF StoreInv, StoreTypeOK
<1>1. CASE UNCHANGED storeVars
  BY <1>1 DEF storeVars, Limbo, Said, InProgress
<1>2. ASSUME NEW c \in Client, NEW row \in RowsOf(c), Ask(c, row)
      PROVE  Evidence!Next
  <2>1. /\ \A d \in Client : d # c => op'[d] = op[d]
        /\ op[c].at = "idle" /\ op'[c].row = row /\ UNCHANGED <<rows, tx>> /\ row \in Row
        /\ \/ op'[c].at = "waiting"
           \/ op'[c].at = "answered" /\ op'[c].answer = "failed"
    BY <1>0, <1>2, TablesOfClients DEF Ask, NoCall
  <2>2. CASE op'[c].at = "waiting"
    <3>1. InProgress' = InProgress \union {c}
      BY <2>1, <2>2 DEF InProgress
    <3>2. Limbo' = Limbo \union {row}
      BY <2>1, <3>1 DEF Limbo, InProgress
    <3>3. Said' = [Said EXCEPT ![c] = None]
      BY <2>1, <2>2 DEF Said
    <3> QED
      BY <2>1, <3>2, <3>3 DEF Evidence!Next, Evidence!Ask, Limbo, Said, InProgress
  <2>3. CASE op'[c].at = "answered" /\ op'[c].answer = "failed"
    <3>1. InProgress' = InProgress
      BY <2>1, <2>3 DEF InProgress
    <3>2. Limbo' = Limbo
      BY <2>1, <3>1 DEF Limbo, InProgress
    <3>3. Said' = [Said EXCEPT ![c] = [row |-> row, answer |-> "failed"]]
      BY <2>1, <2>3 DEF Said
    <3> QED
      BY <2>1, <3>2, <3>3 DEF Evidence!Next, Evidence!Refuse, Limbo, Said, InProgress
  <2> QED
    BY <2>1, <2>2, <2>3
<1>3. ASSUME NEW c \in Client, Release(c)
      PROVE  Evidence!Next
  <2>1. /\ \A d \in Client : d # c => op'[d] = op[d]
        /\ op'[c].at = "idle" /\ op[c].at = "answered" /\ UNCHANGED <<rows, tx>>
    BY <1>3, ReleaseMoves
  <2>2. InProgress' = InProgress
    BY <2>1 DEF InProgress
  <2>3. Limbo' = Limbo
    BY <2>1, <2>2 DEF Limbo, InProgress
  <2>4. Said' = [Said EXCEPT ![c] = None]
    BY <2>1 DEF Said
  <2> QED
    BY <2>1, <2>3, <2>4 DEF Evidence!Next, Evidence!Take, Limbo, Said, InProgress
<1>4. ASSUME NEW c \in Client, Step(c) \/ \E sent \in BOOLEAN : CancelCall(c, sent)
      PROVE  Evidence!Next
  <2>1. c \in InProgress
    BY <1>4, StepEffects, CancelEffects DEF Touches, Abandons, InProgress
  <2>2. /\ \E kept \in SUBSET Limbo : Evidence!Keep(kept)
        /\ Limbo' \subseteq Limbo /\ op[c].row \in Limbo
    BY <1>4, <2>1, CallSettles
  <2>3. \/ Said' = Said
        \/ /\ op'[c].answer \in Answers /\ Said[c] = None
           /\ Said' = [Said EXCEPT ![c] = [row |-> op[c].row, answer |-> op'[c].answer]]
           /\ Evidence!Truthful(op[c].row, op'[c].answer)
    BY <1>4, <2>1, StepAnswers
  <2>4. \/ Said' = Said
        \/ \E d \in Client, row \in Limbo, answer \in Answers : Evidence!Answer(d, row, answer)
    BY <2>2, <2>3 DEF Evidence!Answer, Said, Limbo, InProgress
  <2>5. Evidence!Settle
    BY <2>2, <2>4 DEF Evidence!Settle, Answers, Limbo, Said, InProgress
  <2> QED
    BY <2>5 DEF Evidence!Next
<1>5. CASE CloseStore
  <2>1. UNCHANGED <<rows, op>> /\ tx'.rows = {}
    BY <1>5 DEF CloseStore, NoTx
  <2>2. Said' = Said /\ Limbo' \subseteq Limbo
    BY <2>1 DEF Said, Limbo, InProgress
  <2>3. Evidence!Keep({})
    BY <2>1 DEF Evidence!Keep
  <2>4. Evidence!Settle
    BY <2>2, <2>3 DEF Evidence!Settle, Limbo, Said, InProgress
  <2> QED
    BY <2>4 DEF Evidence!Next
<1>6. CASE Restart
  <2>1. /\ op' = [c \in Client |-> NoCall] /\ tx'.rows = {}
        /\ rows' = rows \/ rows' = rows \union tx.rows
    BY <1>6 DEF Restart, NoTx
  <2>2. Said' = [c \in Client |-> None] /\ Limbo' = {}
    BY <2>1 DEF Said, Limbo, InProgress, NoCall
  <2>3. Evidence!Keep(rows' \ rows) /\ rows' \ rows \subseteq Limbo
    BY <2>1 DEF Evidence!Keep, Evidence!SameKey, Limbo, StoreInv, Keys, SameKey
  <2>4. Evidence!Settle
    BY <2>2, <2>3 DEF Evidence!Settle, Limbo, Said, InProgress
  <2> QED
    BY <2>4 DEF Evidence!Next
<1> QED
  BY <1>1, <1>2, <1>3, <1>4, <1>5, <1>6, Kinds

\* For every interleaving of callers, errors, cancelled calls and restarts,
\* stored history is immutable, an acknowledged row is durable, and a failed
\* call has not written (sqlite_store.py): the store is an evidence ledger.
THEOREM StoreImplementsEvidence == Spec => ImplementsEvidence
<1>1. Init => Evidence!Init
  <2> SUFFICES ASSUME Init PROVE Evidence!Init
    OBVIOUS
  <2>1. EInv /\ \A c \in Client : op[c].at = "idle"
    BY InitEInv DEF Init, StoreInit, NoCall
  <2>2. rows \subseteq Row /\ tx.rows = {} /\ \A p, q \in rows : SameKey(p, q) => p = q
    BY <2>1 DEF EInv, StoreInv, StoreTypeOK, Keys, Init, StoreInit, NoTx
  <2> QED
    BY <2>1, <2>2 DEF Evidence!Init, Evidence!SameKey, SameKey
<1>2. EInv /\ [Next]_vars => [Evidence!Next]_(Evidence!vars)
  BY StepEvidence DEF Evidence!vars, Limbo, Said, InProgress
<1> QED
  BY <1>1, <1>2, InitEInv, NextEInv, PTL DEF Spec, ImplementsEvidence, Evidence!Spec

-----------------------------------------------------------------------------
(* Types, and the room of the queues.                                       *)

Bounds ==
    /\ phase \in {"current", "candidate", "running", "shadow", "recorder", "store", "closed", "failed"}
    /\ bundle \in BOOLEAN
    /\ Len(decisions) <= QueueCapacity /\ Len(evals) <= QueueCapacity
    /\ crashes \in 0 .. CrashBound

\* A queue grows only where there is room.
LEMMA QueueRoom ==
    ASSUME NEW q \in Seq(Request), Len(q) <= QueueCapacity, NEW next,
           \/ next = q \/ next = <<>>
           \/ q # <<>> /\ next = Tail(q)
           \/ Len(q) < QueueCapacity /\ \E r \in Request : next = Append(q, r)
    PROVE  Len(next) <= QueueCapacity
<1>1. Len(q) \in Nat /\ QueueCapacity \in Nat
  BY PipelineAssumption
<1>2. CASE next = q \/ next = <<>>
  BY <1>1, <1>2
<1>3. CASE q # <<>> /\ next = Tail(q)
  <2>1. Len(next) = Len(q) - 1
    BY <1>3
  <2> QED BY <1>1, <2>1
<1>4. CASE Len(q) < QueueCapacity /\ \E r \in Request : next = Append(q, r)
  <2>1. Len(next) = Len(q) + 1
    BY <1>4
  <2> QED BY <1>1, <1>4, <2>1
<1> QED BY <1>2, <1>3, <1>4

LEMMA NextBounds == EInv /\ Bounds /\ [Next]_vars => Bounds'
<1> SUFFICES ASSUME EInv, Bounds, [Next]_vars PROVE Bounds'
  OBVIOUS
<1>1. decisions \in Seq(Request) /\ evals \in Seq(Request) /\ CrashBound \in Nat
  BY PipelineAssumption DEF EInv, DecisionInv, ShadowInv, Holding
<1>2. ASSUME UNCHANGED <<decisions, evals, crashes>>, phase' \in
               {"current", "candidate", "running", "shadow", "recorder", "store", "closed", "failed"},
             bundle' \in BOOLEAN
      PROVE  Bounds'
  BY <1>2 DEF Bounds
<1>3. CASE Startup
  <2>1. /\ UNCHANGED <<decisions, evals, crashes>>
        /\ phase' \in {phase, "candidate", "running", "failed"} /\ bundle' \in {bundle, TRUE}
    BY <1>3 DEF Startup, EnsureCurrent, CurrentEnsured, NoCandidate, LoadCandidate,
                CandidateEnsured, pipeVars
  <2> QED BY <1>2, <2>1 DEF Bounds
<1>4. CASE Workers
  <2>1. /\ UNCHANGED <<phase, bundle, crashes>>
        /\ decisions' = decisions \/ (decisions # <<>> /\ decisions' = Tail(decisions))
        /\ evals' = evals \/ (evals # <<>> /\ evals' = Tail(evals))
    BY <1>4 DEF Workers, RecorderTake, RecorderDone, EvalTake, ShadowStored, ThreadStart,
                ReplayTimeout, ThreadEnd
  <2>2. Len(decisions') <= QueueCapacity /\ Len(evals') <= QueueCapacity
    BY <1>1, <2>1, QueueRoom DEF Bounds
  <2> QED BY <2>1, <2>2 DEF Bounds
<1>5. CASE Shutdown
  <2>1. /\ UNCHANGED <<bundle, crashes>>
        /\ phase' \in {"shadow", "recorder", "store", "closed"}
        /\ decisions' \in {decisions, <<>>} /\ evals' \in {evals, <<>>}
    BY <1>5 DEF Shutdown, Stop, ShadowCloses, RecorderCloses, StoreCloses
  <2>2. Len(decisions') <= QueueCapacity /\ Len(evals') <= QueueCapacity
    BY <1>1, <2>1, QueueRoom DEF Bounds
  <2> QED BY <2>1, <2>2 DEF Bounds
<1>6. CASE Restart
  <2>1. /\ phase' = "current" /\ bundle' = FALSE /\ decisions' = <<>> /\ evals' = <<>>
        /\ crashes' \in 0 .. CrashBound
    <3>1. crashes \in 0 .. CrashBound /\ crashes < CrashBound /\ crashes' = crashes + 1
      BY <1>6 DEF Restart, Bounds
    <3>2. crashes' \in 0 .. CrashBound
      BY <1>1, <3>1
    <3> QED BY <1>6, <3>2 DEF Restart
  <2>2. Len(decisions') <= QueueCapacity /\ Len(evals') <= QueueCapacity
    BY <1>1, <2>1, QueueRoom DEF Bounds
  <2> QED BY <1>1, <2>1, <2>2 DEF Bounds
<1>7. ASSUME NEW r \in Request, NEW eligible \in BOOLEAN, Resolve(r, eligible) PROVE Bounds'
  <2>1. /\ UNCHANGED <<phase, bundle, crashes>> /\ Record(r) /\ Admit(r, eligible)
    BY <1>7 DEF Resolve
  <2>2. decisions' = decisions
          \/ (Len(decisions) < QueueCapacity /\ decisions' = Append(decisions, r))
    BY <2>1 DEF Record
  <2>3. evals' = evals \/ (Len(evals) < QueueCapacity /\ evals' = Append(evals, r))
    <3>1. Len(evals) \in Nat /\ QueueCapacity \in Nat
      BY <1>1, PipelineAssumption
    <3> QED BY <2>1, <3>1 DEF Admit
  <2>4. Len(decisions') <= QueueCapacity
    BY <1>1, <2>2, QueueRoom DEF Bounds
  <2>5. Len(evals') <= QueueCapacity
    BY <1>1, <2>3, QueueRoom DEF Bounds
  <2> QED BY <2>1, <2>4, <2>5 DEF Bounds
<1>8. CASE UNCHANGED pipeVars
  BY <1>2, <1>8 DEF pipeVars, Bounds
<1>9. \/ UNCHANGED pipeVars \/ Startup \/ Workers \/ Shutdown \/ Restart
      \/ \E r \in Request, eligible \in BOOLEAN : Resolve(r, eligible)
  BY DEF Next, Reply, Submit, vars
<1> QED BY <1>3, <1>4, <1>5, <1>6, <1>7, <1>8, <1>9

\* The variables have their types; in particular neither queue ever holds more
\* than its maxsize (DecisionRecorder.record(), ShadowEvaluator.submit()).
THEOREM TypeCorrect == Spec => []TypeOK
<1>1. Init => Bounds
  <2>1. Len(<<>>) <= QueueCapacity /\ 0 \in 0 .. CrashBound
    BY PipelineAssumption
  <2> QED BY <2>1 DEF Init, Bounds
<1>2. EInv /\ Bounds => TypeOK
  BY DEF EInv, StoreInv, DecisionInv, ShadowInv, Holding, Bounds, TypeOK
<1> QED BY InitEInv, NextEInv, NextBounds, <1>1, <1>2, PTL DEF Spec
=============================================================================
