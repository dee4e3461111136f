--------------------------- MODULE EvaluationStore ---------------------------
(***************************************************************************)
(* evaluation/sqlite_store.py (SQLiteEvaluationStore): one connection      *)
(* shared by every task that writes evidence, one asyncio lock, explicit   *)
(* transactions.  Statements are executed by the connection's own thread,  *)
(* in the order they were sent, even when the task that waits for them is  *)
(* cancelled; so an action is a statement with what the task does with its *)
(* result up to the next one, and a cancellation falls between two.        *)
(***************************************************************************)
EXTENDS Integers, Sequences, FiniteSets

CONSTANTS
    Client,     \* tasks that call the store
    Row,        \* rows that may be asked for, with fields table, key, value
    Policies,   \* the policy rows a shadow row needs
    Unbindable, \* shadow rows with a text SQLite cannot take: a lone surrogate
    ErrorBound, \* bound: statements that fail
    None

Answers == {"written", "duplicate", "conflict", "failed", "cancelled"}

ASSUME StoreAssumption ==
    /\ None \notin Client /\ None \notin Row /\ None \notin Answers
    /\ Policies \subseteq Row
    /\ Unbindable \subseteq {row \in Row : row.table = "shadow"}
    /\ ErrorBound \in Nat
    /\ \A row \in Row : row.table \in {"policy", "decision", "outcome", "shadow"}

VARIABLES
    rows,   \* committed rows
    tx,     \* the open transaction: who opened or joined it last, its rows
    op,     \* the call of each client
    open,   \* the connection is open
    errors  \* statements that failed so far

storeVars == <<rows, tx, op, open, errors>>

Call ==
    [at     : {"idle", "waiting", "begun", "written", "answered"},
     row    : Row \union {None},
     fresh  : BOOLEAN,               \* the row was inserted by this call
     answer : Answers \union {None}]

StoreTypeOK ==
    /\ rows \subseteq Row
    /\ tx \in [owner : Client \union {None}, rows : SUBSET Row]
    /\ op \in [Client -> Call]
    /\ open \in BOOLEAN
    /\ errors \in 0 .. ErrorBound

NoTx == [owner |-> None, rows |-> {}]
NoCall == [at |-> "idle", row |-> None, fresh |-> FALSE, answer |-> None]

StoreInit ==
    /\ rows \in {{}, Policies}
    /\ tx = NoTx
    /\ op = [c \in Client |-> NoCall]
    /\ open = TRUE
    /\ errors = 0

-----------------------------------------------------------------------------

SameKey(p, q) == p.table = q.table /\ p.key = q.key

\* What the connection reads: it sees its own open transaction.
Stored(row) == {p \in rows \union tx.rows : SameKey(p, row)}

Holds(c) == op[c].at \in {"begun", "written"}
LockFree == \A c \in Client : ~Holds(c)

Table(c) == op[c].row.table

Answered(c, answer) == op' = [op EXCEPT ![c].at = "answered", ![c].answer = answer]

\* The call begins: a closed store refuses it, otherwise it waits for the lock.
Ask(c, row) ==
    /\ op[c].at = "idle"
    /\ op' = [op EXCEPT ![c] =
                IF open THEN [NoCall EXCEPT !.at = "waiting", !.row = row]
                ELSE [NoCall EXCEPT !.at = "answered", !.row = row, !.answer = "failed"]]
    /\ UNCHANGED <<rows, tx, open, errors>>

\* The caller goes on with its answer.
Release(c) ==
    /\ op[c].at = "answered"
    /\ op' = [op EXCEPT ![c] = NoCall]
    /\ UNCHANGED <<rows, tx, open, errors>>

\* A statement fails: disk, or the lock of another connection for too long.
StatementFails == errors < ErrorBound /\ errors' = errors + 1

\* Wrong form: nothing is rolled back.
RefuseOpen(c, answer) == Answered(c, answer) /\ UNCHANGED <<tx, rows, open>>

\* rollback() and the exception.
Refuse(c, answer) == Answered(c, answer) /\ tx' = NoTx /\ UNCHANGED <<rows, open>>

\* BEGIN IMMEDIATE fails inside a transaction somebody else left open; that
\* transaction is rolled back with it.
Begin(c) ==
    /\ op[c].at = "waiting" /\ LockFree /\ open
    /\ Table(c) \in {"outcome", "shadow"}
    /\ \/ tx.owner # None /\ Refuse(c, "failed") /\ UNCHANGED errors
       \/ StatementFails /\ Refuse(c, "failed")
       \/ /\ tx.owner = None
          /\ tx' = [owner |-> c, rows |-> {}]
          /\ op' = [op EXCEPT ![c].at = "begun"]
          /\ UNCHANGED <<rows, open, errors>>

\* Wrong form: an event that is stored is a duplicate whatever it says.
LookUpKeyOnly(c) ==
    /\ op[c].at = "begun" /\ open /\ Table(c) \in {"outcome", "shadow"}
    /\ tx' = [owner |-> c, rows |-> IF Stored(op[c].row) = {} THEN {op[c].row} ELSE {}]
    /\ op' = [op EXCEPT ![c].at = "written", ![c].fresh = Stored(op[c].row) = {}]
    /\ UNCHANGED <<rows, open, errors>>

\* The reads of submit_outcome() and append_shadow(), then the INSERT.  That of a row
\* that cannot be bound raises UnicodeEncodeError: no except clause names it, and
\* the transaction stays open with the lock free.
LookUp(c) ==
    /\ op[c].at = "begun" /\ open /\ Table(c) \in {"outcome", "shadow"}
    /\ LET same == Stored(op[c].row)
           missing == Table(c) = "shadow" /\ ~(Policies \subseteq rows)
       IN  \/ StatementFails /\ Refuse(c, "failed")
           \/ missing /\ Refuse(c, "failed") /\ UNCHANGED errors
           \/ /\ ~missing /\ same \ {op[c].row} # {}
              /\ Refuse(c, "conflict") /\ UNCHANGED errors
           \/ /\ ~missing /\ same = {op[c].row}
              /\ IF Table(c) = "shadow" THEN Refuse(c, "duplicate")
                 ELSE op' = [op EXCEPT ![c].at = "written"] /\ UNCHANGED <<tx, rows, open>>
              /\ UNCHANGED errors
           \/ /\ ~missing /\ same = {} /\ op[c].row \in Unbindable
              /\ Answered(c, "failed")
              /\ UNCHANGED <<tx, rows, open, errors>>
           \/ /\ ~missing /\ same = {} /\ op[c].row \notin Unbindable
              /\ tx' = [tx EXCEPT !.rows = @ \union {op[c].row}]
              /\ op' = [op EXCEPT ![c].at = "written", ![c].fresh = TRUE]
              /\ UNCHANGED <<rows, open, errors>>

\* append_decision(): the INSERT opens a transaction, or joins the open one; it
\* fails on a request that is stored already.
InsertDecision(c) ==
    /\ op[c].at = "waiting" /\ LockFree /\ open
    /\ Table(c) = "decision"
    /\ \/ /\ IF Stored(op[c].row) = {} THEN StatementFails ELSE UNCHANGED errors
          /\ Refuse(c, "failed")
       \/ /\ Stored(op[c].row) = {}
          /\ tx' = [owner |-> c, rows |-> tx.rows \union {op[c].row}]
          /\ op' = [op EXCEPT ![c].at = "written", ![c].fresh = TRUE]
          /\ UNCHANGED <<rows, open, errors>>

\* ensure_policy(): INSERT OR IGNORE and the read that verifies it.  There is
\* no except clause: an error leaves the transaction as it is.
EnsurePolicy(c) ==
    /\ op[c].at = "waiting" /\ LockFree /\ open
    /\ Table(c) = "policy"
    /\ \/ /\ StatementFails
          /\ Answered(c, "failed")
          /\ \E inserted \in BOOLEAN :
                tx' = [owner |-> c,
                       rows |-> tx.rows \union IF inserted THEN {op[c].row} \ rows ELSE {}]
          /\ UNCHANGED <<rows, open>>
       \/ /\ tx' = [owner |-> c, rows |-> tx.rows \union ({op[c].row} \ rows)]
          /\ op' = [op EXCEPT ![c].at = "written", ![c].fresh = op[c].row \notin rows]
          /\ UNCHANGED <<rows, open, errors>>

\* COMMIT takes everything in the transaction with it.
Commit(c) ==
    /\ op[c].at = "written" /\ open
    /\ \/ /\ Answered(c, IF op[c].fresh THEN "written" ELSE "duplicate")
          /\ rows' = rows \union tx.rows
          /\ tx' = NoTx
          /\ UNCHANGED <<open, errors>>
       \/ /\ StatementFails
          /\ IF Table(c) = "policy" THEN Answered(c, "failed") /\ UNCHANGED <<tx, rows, open>>
             ELSE Refuse(c, "failed")

\* What the statement a cancelled call has sent does to the transaction: a
\* BEGIN or the INSERT of a decision, or the INSERT of an outcome or shadow row.
SentOpens(c) ==
    /\ op[c].at = "waiting" /\ LockFree /\ Table(c) # "policy"
    /\ IF Table(c) = "decision" THEN Stored(op[c].row) = {} ELSE tx.owner = None
SentInserts(c) ==
    /\ op[c].at = "begun" /\ Stored(op[c].row) = {} /\ op[c].row \notin Unbindable
    /\ Table(c) = "shadow" => Policies \subseteq rows

\* The task is cancelled inside its call.  No clause rolls back and the lock is
\* free again; a statement that was sent is still executed.
CancelCall(c, sent) ==
    LET commits == sent /\ op[c].at = "written"
        row == IF Table(c) = "decision" \/ op[c].at = "begun" THEN {op[c].row} ELSE {}
    IN  /\ op[c].at \in {"waiting", "begun", "written"}
        /\ op' = [op EXCEPT ![c].at = "answered", ![c].answer = "cancelled"]
        /\ rows' = IF commits THEN rows \union tx.rows ELSE rows
        /\ tx' = IF commits THEN NoTx
                 ELSE IF sent /\ (SentOpens(c) \/ SentInserts(c))
                      THEN [owner |-> c, rows |-> tx.rows \union row]
                 ELSE tx
        /\ UNCHANGED <<open, errors>>

\* close(): what is not committed is rolled back.
CloseStore ==
    /\ open
    /\ open' = FALSE /\ tx' = NoTx
    /\ UNCHANGED <<rows, op, errors>>

\* The next statement of a call in progress.
Step(c) ==
    Begin(c) \/ LookUp(c) \/ InsertDecision(c) \/ EnsurePolicy(c) \/ Commit(c)

=============================================================================
