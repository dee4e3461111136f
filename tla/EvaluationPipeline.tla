------------------------- MODULE EvaluationPipeline -------------------------
(***************************************************************************)
(* The evidence of routing decisions, from RoutingCoordinator._capture()   *)
(* to the store: the decision recorder (evaluation/recorder.py), the       *)
(* shadow evaluator with its executor thread (evaluation/shadow.py) and    *)
(* the outcome endpoint (gateway/outcomes.py, evaluation/outcomes.py), all *)
(* on the one store, under the startup and shutdown of app.py's lifespan,  *)
(* and the end of the process at any point.                                *)
(***************************************************************************)
EXTENDS EvaluationStore, SequencesExt

CONSTANTS
    Request,        \* resolved requests
    Handler,        \* concurrent requests to the outcome endpoint
    Event,          \* outcome rows that clients submit
    Current, Candidate, \* the policy rows of this configuration
    Boot, Recorder, Shadow, \* the other callers of the store
    Verdict,        \* what a replay may come to: evaluated, non_replayable, evaluation_failed
    QueueCapacity,  \* room of each of the two queues
    CrashBound      \* bound: how often the process dies

DecisionRow(r) == [table |-> "decision", key |-> r, value |-> "actual"]
ShadowRow(r, v) == [table |-> "shadow", key |-> r, value |-> v]

ASSUME PipelineAssumption ==
    /\ Client = Handler \union {Boot, Recorder, Shadow}
    /\ Handler \intersect {Boot, Recorder, Shadow} = {}
    /\ Boot # Recorder /\ Boot # Shadow /\ Recorder # Shadow
    /\ Policies = {Current, Candidate} /\ \A p \in Policies : p.table = "policy"
    /\ Current.key = Candidate.key => Current = Candidate
    /\ Event \subseteq Row /\ \A event \in Event : event.table = "outcome"
    /\ \A r \in Request : {DecisionRow(r)} \union {ShadowRow(r, v) : v \in Verdict} \subseteq Row
    /\ None \notin Request
    /\ QueueCapacity \in Nat \ {0} /\ CrashBound \in Nat

VARIABLES
    phase,     \* where the lifespan stands
    bundle,    \* the candidate policy was loaded
    capture,   \* what became of the decision of each request
    decisions, \* the recorder's queue
    shadow,    \* what became of the shadow evaluation of each request
    evals,     \* the evaluator's queue
    thread,    \* the request the executor's thread replays, or None
    crashes    \* how often the process died

pipeVars == <<phase, bundle, capture, decisions, shadow, evals, thread, crashes>>
vars == <<storeVars, pipeVars>>

TypeOK ==
    /\ StoreTypeOK
    /\ phase \in {"current", "candidate", "running", "shadow", "recorder", "store", "closed", "failed"}
    /\ bundle \in BOOLEAN
    /\ capture \in [Request -> {"none", "refused", "queued", "writing", "written", "failed", "lost"}]
    /\ decisions \in Seq(Request) /\ Len(decisions) <= QueueCapacity
    /\ shadow \in [Request -> {"none", "declined", "dropped", "queued", "replaying",
                               "timeout", "storing", "done", "lost"}]
    /\ evals \in Seq(Request) /\ Len(evals) <= QueueCapacity
    /\ thread \in Request \union {None}
    /\ crashes \in 0 .. CrashBound

Init ==
    /\ StoreInit
    /\ phase = "current" /\ bundle = FALSE
    /\ capture = [r \in Request |-> "none"] /\ decisions = <<>>
    /\ shadow = [r \in Request |-> "none"] /\ evals = <<>>
    /\ thread = None /\ crashes = 0

-----------------------------------------------------------------------------
(* Startup: build_canary_components()                                       *)

Answer(c) == IF op[c].at = "answered" THEN op[c].answer ELSE None

EnsureCurrent ==
    /\ phase = "current" /\ Ask(Boot, Current)
    /\ UNCHANGED pipeVars

\* A failure is raised out of the lifespan: the process ends, nothing is closed.
CurrentEnsured ==
    /\ phase = "current" /\ Release(Boot)
    /\ phase' = IF Answer(Boot) = "failed" THEN "failed" ELSE "candidate"
    /\ UNCHANGED <<bundle, capture, decisions, shadow, evals, thread, crashes>>

\* The candidate cannot be loaded: no evaluator.
NoCandidate ==
    /\ phase = "candidate" /\ ~bundle
    /\ phase' = "running"
    /\ UNCHANGED <<storeVars, bundle, capture, decisions, shadow, evals, thread, crashes>>

LoadCandidate ==
    /\ phase = "candidate" /\ ~bundle /\ Ask(Boot, Candidate)
    /\ bundle' = TRUE
    /\ UNCHANGED <<phase, capture, decisions, shadow, evals, thread, crashes>>

\* Written or not, the bundle is kept and the evaluator is started.
CandidateEnsured ==
    /\ phase = "candidate" /\ Release(Boot)
    /\ phase' = "running"
    /\ UNCHANGED <<bundle, capture, decisions, shadow, evals, thread, crashes>>

-----------------------------------------------------------------------------
(* RoutingCoordinator._capture(): record(), then submit()                   *)

\* DecisionRecorder.record(): too large, not encodable, or no room: refused.
Record(r) ==
    \/ capture' = [capture EXCEPT ![r] = "refused"] /\ UNCHANGED decisions
    \/ /\ Len(decisions) < QueueCapacity
       /\ capture' = [capture EXCEPT ![r] = "queued"]
       /\ decisions' = Append(decisions, r)

\* Wrong form: nothing is dropped.
AdmitAll(r, eligible) ==
    IF ~eligible \/ ~bundle
    THEN shadow' = [shadow EXCEPT ![r] = "declined"] /\ UNCHANGED evals
    ELSE shadow' = [shadow EXCEPT ![r] = "queued"] /\ evals' = Append(evals, r)

\* ShadowEvaluator.submit(): the candidate's own decisions, filtered and
\* unsampled ones are not admitted.
Admit(r, eligible) ==
    IF ~eligible \/ ~bundle
    THEN shadow' = [shadow EXCEPT ![r] = "declined"] /\ UNCHANGED evals
    ELSE IF Len(evals) >= QueueCapacity
    THEN shadow' = [shadow EXCEPT ![r] = "dropped"] /\ UNCHANGED evals
    ELSE shadow' = [shadow EXCEPT ![r] = "queued"] /\ evals' = Append(evals, r)

Resolve(r, eligible) ==
    /\ phase = "running" /\ capture[r] = "none"
    /\ Record(r) /\ Admit(r, eligible)
    /\ UNCHANGED <<storeVars, phase, bundle, thread, crashes>>

-----------------------------------------------------------------------------
(* DecisionRecorder._run()                                                  *)

RecorderTake ==
    /\ phase \in {"running", "shadow", "recorder"} /\ decisions # <<>>
    /\ Ask(Recorder, DecisionRow(Head(decisions)))
    /\ capture' = [capture EXCEPT ![Head(decisions)] = "writing"]
    /\ decisions' = Tail(decisions)
    /\ UNCHANGED <<phase, bundle, shadow, evals, thread, crashes>>

RecorderDone ==
    /\ Answer(Recorder) \in {"written", "failed"} /\ Release(Recorder)
    /\ capture' = [capture EXCEPT ![op[Recorder].row.key] = Answer(Recorder)]
    /\ UNCHANGED <<phase, bundle, decisions, shadow, evals, thread, crashes>>

-----------------------------------------------------------------------------
(* ShadowEvaluator._run(), _evaluate() and _persist(), with one thread      *)

EvaluatorIdle == \A r \in Request : shadow[r] \notin {"replaying", "storing"}

EvalTake ==
    /\ phase \in {"running", "shadow"} /\ EvaluatorIdle /\ evals # <<>>
    /\ shadow' = [shadow EXCEPT ![Head(evals)] = "replaying"]
    /\ evals' = Tail(evals)
    /\ UNCHANGED <<storeVars, phase, bundle, capture, decisions, thread, crashes>>

\* The replay starts when the thread is free of the one before.
ThreadStart(r) ==
    /\ thread = None /\ shadow[r] = "replaying"
    /\ thread' = r
    /\ UNCHANGED <<storeVars, phase, bundle, capture, decisions, shadow, evals, crashes>>

Store(r, verdict) ==
    /\ shadow' = [shadow EXCEPT ![r] = "storing"]
    /\ Ask(Shadow, ShadowRow(r, verdict))

\* Wrong form: a result is stored when it comes, whoever waits for it.
ThreadEndLate(verdict) ==
    /\ thread # None /\ thread' = None
    /\ IF shadow[thread] = "replaying" THEN Store(thread, verdict)
       ELSE Ask(Shadow, ShadowRow(thread, verdict)) /\ UNCHANGED shadow
    /\ UNCHANGED <<phase, bundle, capture, decisions, evals, crashes>>

\* A replay returns or raises; nobody waits for one that timed out.
ThreadEnd(verdict) ==
    /\ thread # None /\ thread' = None
    /\ IF shadow[thread] = "replaying" THEN Store(thread, verdict)
       ELSE UNCHANGED <<storeVars, shadow>>
    /\ UNCHANGED <<phase, bundle, capture, decisions, evals, crashes>>

\* Wrong form: the time allowed counts from the start of the replay.
ReplayTimeoutStarted(r) ==
    /\ shadow[r] = "replaying" /\ thread = r
    /\ shadow' = [shadow EXCEPT ![r] = "timeout"]
    /\ UNCHANGED <<storeVars, phase, bundle, capture, decisions, evals, thread, crashes>>

\* The time allowed counts from the submission to the executor; the thread
\* is not interrupted.
ReplayTimeout(r) ==
    /\ shadow[r] = "replaying"
    /\ shadow' = [shadow EXCEPT ![r] = "timeout"]
    /\ UNCHANGED <<storeVars, phase, bundle, capture, decisions, evals, thread, crashes>>

ShadowStored ==
    /\ Answer(Shadow) \in Answers \ {"cancelled"} /\ Release(Shadow)
    /\ shadow' = [shadow EXCEPT ![op[Shadow].row.key] = "done"]
    /\ UNCHANGED <<phase, bundle, capture, decisions, evals, thread, crashes>>

-----------------------------------------------------------------------------
(* The outcome endpoint                                                     *)

Submit(h, event) ==
    /\ phase = "running" /\ Ask(h, event)
    /\ UNCHANGED pipeVars

Reply(h) == Release(h) /\ UNCHANGED pipeVars

-----------------------------------------------------------------------------
(* Shutdown                                                                 *)

\* The server stops once the requests it serves are answered.
Stop ==
    /\ phase = "running" /\ \A h \in Handler : op[h].at = "idle"
    /\ phase' = "shadow"
    /\ UNCHANGED <<storeVars, bundle, capture, decisions, shadow, evals, thread, crashes>>

EvaluatorDrained == EvaluatorIdle /\ evals = <<>>

\* Wrong form: the store is closed before the recorder.
ShadowClosesLast ==
    /\ phase = "shadow" /\ phase' = "store"
    /\ EvaluatorDrained
    /\ UNCHANGED <<storeVars, bundle, capture, decisions, shadow, evals, thread, crashes>>

\* shadow_evaluator.close(): the queue is drained, or the deadline cancels the
\* worker: between two calls, or inside one.
ShadowCloses ==
    /\ phase = "shadow" /\ phase' = "recorder"
    /\ \/ EvaluatorDrained /\ UNCHANGED storeVars
       \/ ~EvaluatorDrained /\ op[Shadow].at = "idle" /\ UNCHANGED storeVars
       \/ \E sent \in BOOLEAN : CancelCall(Shadow, sent)
    /\ evals' = <<>>
    /\ shadow' = [r \in Request |->
                    IF shadow[r] \in {"queued", "replaying", "storing"} THEN "lost" ELSE shadow[r]]
    /\ UNCHANGED <<bundle, capture, decisions, thread, crashes>>

\* decision_recorder.close(), in the same way.
RecorderCloses ==
    /\ phase = "recorder" /\ phase' = "store"
    /\ \/ op[Recorder].at = "idle" /\ UNCHANGED storeVars
       \/ \E sent \in BOOLEAN : CancelCall(Recorder, sent)
    /\ decisions' = <<>>
    /\ capture' = [r \in Request |->
                    IF capture[r] \in {"queued", "writing"} THEN "lost" ELSE capture[r]]
    /\ UNCHANGED <<bundle, shadow, evals, thread, crashes>>

StoreCloses ==
    /\ phase = "store" /\ CloseStore
    /\ phase' = "closed"
    /\ UNCHANGED <<bundle, capture, decisions, shadow, evals, thread, crashes>>

\* The process dies, and is started again on the same file.
Restart ==
    /\ crashes < CrashBound /\ crashes' = crashes + 1
    /\ \E sent \in BOOLEAN :
         rows' = IF sent /\ \E c \in Client : op[c].at = "written" THEN rows \union tx.rows
                 ELSE rows
    /\ tx' = NoTx /\ op' = [c \in Client |-> NoCall] /\ open' = TRUE
    /\ phase' = "current" /\ bundle' = FALSE
    /\ capture' = [r \in Request |->
                     IF capture[r] \in {"queued", "writing"} THEN "lost" ELSE capture[r]]
    /\ shadow' = [r \in Request |->
                    IF shadow[r] \in {"queued", "replaying", "storing"} THEN "lost" ELSE shadow[r]]
    /\ decisions' = <<>> /\ evals' = <<>> /\ thread' = None
    /\ UNCHANGED errors

-----------------------------------------------------------------------------

Startup == EnsureCurrent \/ CurrentEnsured \/ NoCandidate \/ LoadCandidate \/ CandidateEnsured
Workers ==
    \/ RecorderTake \/ RecorderDone \/ EvalTake \/ ShadowStored
    \/ \E r \in Request : ThreadStart(r) \/ ReplayTimeout(r)
    \/ \E verdict \in Verdict : ThreadEnd(verdict)
Shutdown == Stop \/ ShadowCloses \/ RecorderCloses \/ StoreCloses

Next ==
    \/ Startup \/ Workers \/ Shutdown \/ Restart
    \/ \E c \in Client : Step(c) /\ UNCHANGED pipeVars
    \/ \E r \in Request, eligible \in BOOLEAN : Resolve(r, eligible)
    \/ \E h \in Handler : Reply(h) \/ \E event \in Event : Submit(h, event)

Spec == Init /\ [][Next]_vars

\* The event loop runs every task that can go on, its timers expire, and its
\* lock is handed over in the order of waiting.  The executor's thread starts
\* what it is free for; how long a replay takes is not assumed.
Fairness ==
    /\ WF_vars(RecorderTake) /\ WF_vars(RecorderDone)
    /\ WF_vars(EvalTake) /\ WF_vars(ShadowStored)
    /\ \A r \in Request : WF_vars(ThreadStart(r)) /\ WF_vars(ReplayTimeout(r))
    /\ \A c \in Client : SF_vars(Step(c) /\ UNCHANGED pipeVars)

FairSpec == Spec /\ Fairness

-----------------------------------------------------------------------------
(* Properties                                                               *)

\* The store's promise (EvidenceLedger) holds with every caller at once, with
\* errors, cancelled calls that leave a transaction open for the next one, and
\* restarts: see sqlite_store.py, where all of them share one connection.
Evidence == INSTANCE EvidenceLedger WITH
    durable <- rows,
    limbo <- {op[c].row : c \in {d \in Client : op[d].at \in {"waiting", "begun", "written"}}}
                \union (tx.rows \ rows),
    said <- [c \in Client |->
               IF op[c].at = "answered" THEN [row |-> op[c].row, answer |-> op[c].answer]
               ELSE None]

ImplementsEvidence == Evidence!Spec

\* The connection is shared: whoever finds it in a transaction fails, or commits
\* what is not his (sqlite_store.py).  A call ends, by commit or by an error, with its
\* transaction closed.  Three leave one behind: a call that shutdown cancels, an
\* ensure_policy() of startup that fails, and an append_shadow() whose row cannot be
\* bound, for its exception is none of those the except clauses name; that one is
\* empty, and there only when such a row is of an admitted request.
TransactionOwned ==
    tx.owner # None =>
        \/ Holds(tx.owner)
        \/ phase \in {"recorder", "store"} /\ op[tx.owner].answer = "cancelled"
        \/ tx.owner = Boot
        \/ /\ tx.owner = Shadow /\ tx.rows = {}
           /\ \E row \in Unbindable : shadow[row.key] \notin {"none", "declined", "dropped"}

\* Every captured decision is in one place: in the queue, being written, durable
\* and counted as written, or counted as failed and not durable.  One is lost
\* without a count only by the end of the process or of the drain (recorder.py
\* record(), _run(), close()), and none is left behind when the store is closed.
DecisionsAccounted ==
    /\ IsInjective(decisions) /\ ToSet(decisions) = {r \in Request : capture[r] = "queued"}
    /\ \A r \in Request :
         /\ capture[r] = "written" => DecisionRow(r) \in rows
         /\ capture[r] \in {"none", "refused", "queued", "failed"} => DecisionRow(r) \notin rows
         /\ capture[r] = "writing" <=> op[Recorder].row = DecisionRow(r) /\ Answer(Recorder) # "cancelled"
         /\ capture[r] = "lost" => crashes > 0 \/ phase \in {"store", "closed"}
         /\ phase = "closed" => capture[r] \notin {"queued", "writing"}

\* A shadow row is evidence for opening the canary: it is only ever stored for
\* an admitted request whose replay came in time, with both policies it names
\* durable (shadow.py _evaluate(), sqlite_store.py append_shadow()).
ShadowHonest ==
    \A row \in rows : row.table = "shadow" =>
        /\ shadow[row.key] \in {"storing", "done", "lost"}
        /\ Policies \subseteq rows

\* An admitted decision is written or given up, and an admitted evaluation is
\* stored or given up, even behind a replay that never returns (shadow.py
\* _evaluate(), recorder.py _run()).
EvidenceSettles ==
    \A r \in Request :
        /\ capture[r] = "queued" ~> capture[r] \in {"written", "failed", "lost"}
        /\ shadow[r] = "queued" ~> shadow[r] \in {"timeout", "done", "lost"}
=============================================================================
