# TLA+ models of llm_router

llm_router is an asynchronous HTTP router (FastAPI, one event loop) in front of
several LLM providers. It picks a plan of model targets for a request, calls
them one after the other until one answers, keeps a circuit breaker per provider
and per target, keeps failure state per session, and writes observations and
routing decisions in the background. A candidate routing policy is evaluated in
the shadow of the current one and, on that evidence, serves a share of the
traffic. Paths below are relative to `src/src/llm_router/` of the repository;
documents are under `src/docs/`.

## Inventory

| Component | State | Operations | Talks to | Hard behaviour | Modules |
|---|---|---|---|---|---|
| Health coordinator, `health/coordinator.py` | `_DomainRecord` per provider and target, active leases, token counter, revision | `snapshot`, `acquire`, `record` under one lock | called by routing and by every attempt | late outcomes, probes, lazily expiring cooldowns, restart | `HealthCoordinator` |
| Routing kernel, `routing/kernel.py` | none (pure) | `plan` | reads a snapshot of health and session | probes deduplicated per domain, state scope, attempt limit | `RoutingKernel` |
| Routing coordinator, `routing/coordinator.py` | none | `resolve`, `_capture` | selector, sessions, health, recorder, shadow | snapshot and first `acquire` without an await between | `ExecutionEngine` (`Resolve`), `CanaryRouting` (`Resolve`), `EvaluationPipeline` (`Resolve`) |
| Execution engine, `execution/engine.py` | locals of each `execute()` | one loop over `plan.targets` | health, provider adapters, relay | cancellation, deadline and failure at each await | `ExecutionEngine` |
| Stream relay and semantics, `execution/streaming.py`, `stream_semantics.py` | locals, the usage accumulator, the completion future | `read_first_event`, `feed`, `relay_stream` | health, exchange, gateway | events cut by chunks, five ways out of a generator | `StreamRelay`, promise in `CommittedStream`; outcome class in `ExecutionEngine` |
| Provider adapters, `providers/*.py` | one semaphore per provider, exchanges | `invoke`, `close` | the upstream | permits returned exactly once | `ExecutionEngine` |
| Session store, `routing/session.py` | LRU dictionary of failure counters | `routing_snapshot`, `record` | read by routing, written by `record_completion` | overlapping requests, expiry, eviction | `SessionRouting` |
| Gateways, `gateway/*.py` | none | `handle`, `record_completion`, `finish_error` | all of the above and the lifecycle | each request ends in one terminal fact | `SessionRouting`, `ObservationPipeline` |
| Observation lifecycle, `observability/lifecycle.py` | open request lifecycles, gauges | `open`, `request_facts`, `execution_started`, `finish`, `abandon_all` | hub, metrics | two terminal paths race | `ObservationPipeline` |
| Observation hub and store, `observability/hub.py`, `sqlite_store.py` | one bounded queue, the writer, SQLite tables | `record`, `_run`, `append`, `close` | lifecycle, exporter | full queue, failed writes, drain deadline | `ObservationPipeline`, promise in `ObservationLedger` |
| OTLP exporter, `observability/otlp.py` | one bounded queue, the worker | `record`, `_run`, `_export`, `close` | hub, collector | traces cut by a full queue, drain deadline | `TraceExporter` |
| Retention and dashboard, `observability/retention.py`, `dashboard/*.py` | a transaction; an executor with permits and threads; the client's cursor | `run_batch`; request pages, details, overview | the SQLite file the hub writes | pages that move, tables read one by one while rows are deleted, queries that outlive their caller | `ObservationReads` |
| Decision recorder, shadow evaluator, evaluation store, `evaluation/*.py`, `gateway/outcomes.py` | two bounded queues, a replay thread, one shared SQLite connection | `record`, `submit`, `ensure_policy`, `append_decision`, `append_shadow`, `submit_outcome`, `close` | routing, startup, the outcome endpoint | cancellation inside a transaction, duplicates, replays that time out, crash | `EvaluationStore`, `EvaluationPipeline`, promise in `EvidenceLedger` |
| Canary, `routing/canary.py`, `canary_runtime.py`, `evaluation/canary_sqlite.py` | what is fixed at startup: bundle, gate, salt | `build_canary_components`, `select` | evaluation store, routing | evidence judged by the next process, affinity over restarts | `CanaryRouting` |
| Lifespan, `app.py` | the runtime object | start, shutdown | every worker | order of shutdown, deadlines of the drains | evaluation side in `EvaluationPipeline`, observation side in `ObservationPipeline` |
| Configuration, feature extraction, rendering, command lines | — | — | — | pure or single-process | not modelled |

What makes each component correct is what its properties below say, in one line
each: a suspended domain is decided by one probe alone and is never entered
before its cooldown (health); the first planned target serves, refusals are
honest, leases and permits come back once (engine); the client gets the bytes
sent and the books agree with them (relay); no failure of a session is lost
(sessions); each request has one terminal fact and its bundle is in one place
(observations); a page walk loses nothing and an answer is about one state
(reads); acknowledged evidence is durable and immutable (evaluation); no
candidate serves without evidence about itself (canary).

## Modules

### HealthCoordinator

`dom` holds a record per failure domain, `leases` is `_active_leases`,
`nextToken` the token counter, `revision` is `_revision`, `clock` the wall clock
passed by the callers. Each public method runs under the coordinator's lock, so
each is one action: `Acquire(t)`, `Record(lease, class, retryAfter)`; `Snapshot`
is an operator because it changes nothing. `Record` has one disjunct per branch
of `record()`; the charge of an outcome against a domain that has moved on falls
into the neutral branch, as the `elif` chain of the code does. `Overflows`
models the `OverflowError` of `float ** int` in `_cooldown_seconds`: the record
keeps what was assigned before the call. `Restart` is a new process; nothing of
this state is persisted. The clock is one of the model and advances by ticks;
it does not go backwards.

### RoutingKernel

The pure decision: `AutoTier`, `Candidates`, `Available` (with the
deduplication of probes), `InScope`, `PlannedTargets`, `Bounded`
(`ExecutionPlan.targets`). The code's filters keep positions of a list, so the
model's do (`Picked`, `EligibleAt`): a chain that names a target twice keeps both
where the target is healthy, and the first one only where it would be probed. What a request needs is abstracted to the set of
targets capable of it and the answers of the automatic rules; reasons and
messages are left out. `Catalog` lists the targets by tier and alias, the order
`_ordered_auto_targets` sorts them in.

### ExecutionEngine

Composes the kernel, the health coordinator (`H == INSTANCE HealthCoordinator`)
and any number of requests. All requests share one event loop, so an action is
what one coroutine does from one await to the next, and `pc` names the await.
`Resolve` reads the snapshot, plans, and enters `execute()`; its `pc` is then
`"next"`, and until that request reaches its next await nobody else moves
(`Settled`). `Expire`, `Skip`, `Admit`, `RunOut` are the head of the loop;
`Connect`, `HeaderTimeout`, `ConnectFailure`, `HttpFailure`, `Headers` the
adapter's `invoke` under its timeout; `ReadFailure`, `Commit`, `BodyRead` the
response up to its commitment; the `Close*` actions the awaits of
`exchange.close()` with the clause of the try statement they are in;
`FirstYield`, `StreamEnds`, `StreamCancelled`, `StreamClosed` the relay.
`Cancel` may come at each await inside the try block. Failures are abstracted
to their class and to what they allow (`"fallback"`, `"final"`, `"timeout"`).

Four events are rare, and part of every behaviour: `close()` failing or being
cancelled inside an except handler (`HandlerBreaks`, after which the request is at
`"raised"`), an exception of `invoke()` that no clause of the adapter expects
(`UnknownFailure`, whose permit `lost` counts), a response body dropped before its
first iteration (`DropUnstarted`, `"unstarted"`), and one that ends at the head of
`relay_stream()`, before its try block, because the second `usage.feed()` raises
(`RelayBreaks`, `"torn"`). After the last two nothing records the lease, resolves
the completion or closes the exchange. The properties name these ends and hold of
all others. `router_protocol_mismatch`, raised in the loop before `acquire()`
(`execution/engine.py:181`), is left out: the kernel plans only targets that can
serve the request, which have its protocol.

The two instances of the state of the coordinator, `Provider`/`Target` and the
bounds, are shared: the engine's `dom`, `leases`, `nextToken`, `revision` and
`clock` are the coordinator's variables. There is no restart in this module: it
ends every request at once and is checked in `HealthCoordinator`.

### StreamRelay, CommittedStream

One streamed response from the first byte to `exchange.close()`. The upstream's
bytes are tokens: the text of an event, or one line end; two line ends in a row
delimit an event, and a chunk is cut anywhere between two tokens, so inside a
delimiter too. An event is what the parser tells apart: whether its data is a
JSON object, another JSON value or no JSON, its terminal outcome, the status of
its usage, and whether it exceeds the 4 MiB of the buffer.

`ReadFirst` and `Refuse` are `read_first_event`; `Feed` is
`SSEUsageAccumulator.feed()` with `merge_usage()`, token by token; `Start` is the
head of `relay_stream()` before its try block, where the bytes behind the first
event are parsed; `Resume`, `Relay`, `Fail`, `EndOfBody` and `Cancel` are the
loop and its clauses, `Rendered` and `Close` its end; `Drop` a body nobody
iterates. `CommittedStream` is the promise to the coordinator, the completion
task and the semaphore: refused or committed, one outcome and one status that
agree, then closed.

`ExecutionEngine` keeps of all this the outcome class and the awaits.

### SessionRouting

`items` is the `OrderedDict`, least recently used first. `Arrive` is the
`routing_snapshot` of `resolve()` (it creates, refreshes and evicts), `Complete`
is `record_completion` (which records a signal other than `unknown`, and not
for `count_tokens`), `Fail` the paths that end without it. Requests in
flight are in `slot`, with the failure count they were routed on.

### ObservationPipeline, TraceExporter, ObservationLedger

`ObservationPipeline` follows a request from `registry.open()` to its terminal
fact, and its bundle from `hub.record()` to SQLite. `life[r]` is the
`RequestObservation` of a request together with the await its task is at:
`"validating"` (the body is read), `"executing"` (inside `engine.execute()`),
`"completing"` (the detached completion task waits for the outcome). `Open`,
`Invalid`, `Refuse`, `Execute`, `Fail`, `CancelHandler`, `Respond` and
`Complete` are what the handlers of both gateways do between these awaits; each
terminal path goes through `Finish`, where the first fact wins. Inside one of
these steps there is no await, so `finish()` with the hub's and the exporter's
`record()` is one step.

`queue`, `hand` and `depth` are the hub's queue, the bundle inside
`store.append()` and the gauge; `Take` and `Write` are the writer, which may
succeed or fail. `Shutdown` is `abandon_all()`, after which the lifespan closes
the evaluation workers, drains the hub (`Drained` or `DrainTimeout`), closes
the exporter and the store. A request that is abandoned may have its task still
running: the task finds the lifecycle closed, and its later `Respond` may even
count a stream on it.

`Overlap` says whether the server ends the lifespan while handlers still run.
uvicorn waits for connections by default (`FALSE`); with a graceful timeout it
cuts them (`TRUE`, used for the run, the more general case). Completion tasks
are detached and may be open in both.

What the abstraction leaves out: request identifiers are fresh, so the store
meets no duplicate; durable capture is enabled; the terminal stage, usage and
prices are not in the bundle; `abandon_all()` may take the lifecycles in any order
(the code takes the order of opening). `record()` during `close()` would be
refused without a count, but no lifecycle is open by then. `Released` forgets the
label of a lifecycle nobody can reach any more, to keep states few.

`TraceExporter` is the second sink: `Offer` is `record()` of one or more traces,
of which a full queue cuts off the rest and counts one drop; `Collect` and
`ExportEnds` the worker; `ExporterStops`, `ExporterDrained` and
`ExporterTimeout` its `close()`. A trace has one span per stage, up to five with
one attempt. `owed`, `cut` and `late` stand for the counters.

`ObservationLedger` is what the two promise together: a request is concluded
once, its fact never changes, its bundle waits, then is stored or counted, in
order; a new one is refused only when the queue is full, and at most the oldest
is lost at shutdown. The pipeline implements it under the mapping that takes
`pending` to the bundle in the writer's hand followed by the queue, and
`gaps` to all that was counted.

### ObservationReads

Who reads and who deletes what the pipeline stores. A bundle is one row in
`requests` and one in `parts` (the tables of attempts, usage and the rest), and
`rows` is what is committed. The file is in WAL mode, which the model renders
as: a reader's transaction sees what was committed when its first statement ran
(`snap`), and writers exclude each other (`Write` and `PurgeBegin` need
`purge = None`). `PurgeBegin`, `PurgeTable` and `PurgeEnd` are `run_batch()`,
which deletes the parts table by table and may fail and be rolled back;
`Expire` is the passing of time.

The dashboard's executor hands out `permits`, and its pool's threads take
queries from `queue` in order: `Ask` and `AskPage` are `run()` up to the pool,
`Begin` a thread, `FirstStatement`, `LaterStatements` and `QueryFails` the
read transaction with its deadline handler, `Return` the end of `run()`, with
the answer to the client. `CallerLeaves` is the cancellation of a request inside
`run()`: its permit is free at once, while its query goes on in its thread, or is
dropped when a thread takes it from the queue (`Begin`); `left` names these
queries, and `Fleeting` bounds which of them lose their caller. The shutdown of
the executor, which drops what is queued, is not modelled. `walk` is a client that follows `next_cursor` from page
to page; it asks again for a page that was refused or failed, and may recompute
the lower end of its range at each page, as the dashboard's script does.

### EvaluationStore, EvaluationPipeline, EvidenceLedger

`EvaluationStore` is the one SQLite connection shared by every writer of
evidence: `rows` is committed, `tx` the open transaction, `op[c]` the call of each
client, `open` the connection. Statements are executed by the connection's own
thread in the order they were sent, even when the task that waits for them is
cancelled; so an action is one statement with what the task does with its result
up to the next (`Begin`, `LookUp`, `InsertDecision`, `EnsurePolicy`, `Commit`),
each of which may fail. `Ask` and `Release` are the call and its answer.
`CancelCall` is a cancellation inside a call, before or after its statement was
executed: nothing rolls back, the asyncio lock is free, the transaction
stays open for whoever comes next. `Holds` is the asyncio lock. `Unbindable` are
the shadow rows whose requested profile SQLite cannot take as a text; their
`INSERT` raises an exception that no clause names (see Divergences).

`EvaluationPipeline` adds who calls: startup (`EnsureCurrent` to
`CandidateEnsured`), `_capture()` (`Resolve`: `record()` and `submit()` in one step
without an await), the recorder (`RecorderTake`, `RecorderDone`), the evaluator
with its executor thread (`EvalTake`, `ThreadStart`, `ThreadEnd`,
`ReplayTimeout`, `ShadowStored`), the outcome endpoint (`Submit`, `Reply`), the
shutdown in the lifespan's order (`Stop`, `ShadowCloses`, `RecorderCloses`,
`StoreCloses`) and `Restart`, the end of the process at any point, after which
the durable rows remain. The server waits for its handlers before the lifespan
ends, so only the two drain deadlines cancel a call. What a replay comes to is
an input (`Verdict`). An `ensure_policy()` of the current policy that fails ends
the process (`phase = "failed"`); one of the candidate is swallowed.

`EvidenceLedger` is what the store promises each caller: keys are never
replaced, an acknowledged row is durable, a call that failed has not written, a
row whose caller went away is in limbo until it becomes durable or is lost.

### CanaryRouting

Several processes after one another on the same file, each with one of `Config`.
`Start` is the bootstrap: the candidate is loaded or not, its snapshot stored or
not, and the gate judges the shadow rows that earlier processes left, within the
lookback. `Resolve` is `select()` with the role it assigns by `Affinity`
(session, else task, else request) and `Bucket`, the HMAC of it, and what the
resolution leaves: a durable decision or none, an admitted evaluation or none.
`Evaluate` is `append_shadow()` as the gate sees it; it needs both snapshots to be
durable. `EnsuredLate` is the candidate's snapshot in the transaction that a
failed `ensure_policy()` left open, committed by another call: the one place
where this module and `EvaluationPipeline` meet. How a row becomes durable is
the subject of that module; here it is durable or lost.

## Checks

| Run | Bounds | Shows |
|---|---|---|
| `health_safety` | 1 provider, 2 targets, 5 tokens, 3 leases in flight, clock to 3, threshold 2, window 1, cooldown 1 to 2, Retry-After 0, 1 or 3 | no two live calls decide a suspended domain; the view agrees with admission; suspensions are served; only its probe decides a probed domain; the revision covers the view; a failed probe suspends again, for its backoff at least and the maximum at most; and `IInv`, the invariant of the proofs |
| `health_probe_wedge` | the same with 4 tokens, threshold 1 | finding 1 |
| `health_overflow` | the same, the power of the backoff exceeding a float at level 1 | finding 2 |
| `engine` | 2 requests (one streaming with a chain of 3 targets over 2 providers, one automatic and stateful), 1 permit per provider, two classes of HTTP failure, clock to 2, threshold 1, with the four rare events | live attempts own live leases and each is recorded exactly once, permits are never freed twice and all returned, the first planned target is never skipped, refusals are honest, every request ends and completions resolve; each but for the rare events its property names |
| `relay` | 8 sorts of event, bodies of 8 tokens, chunks of 4 | the client has a prefix of what was sent, the parser holds the last terminal event however it was cut, reports are honest, `CommittedStream` is implemented |
| `relay_remainder` | bodies of 7 tokens | finding 3 |
| `sessions` | 3 sessions, room for 2, 2 requests in flight, clock to 3 with a time to live of 1, 2 failures per session; symmetry in sessions and slots | order and bound of the store, eviction of the oldest only, no lost failure, expired state forgotten |
| `observations` | 3 requests, one a sampled stream; queue of 1 bundle, 2 spans, batches of 2; overlapping shutdown | gauges agree with the registry, each conclusion is accounted for in one place, no gap in a trace is uncounted, the pipeline implements the ledger, bundles settle |
| `reads` | 3 requests, 2 of them stored before, two received at once; 2 other queries, one of which may lose its caller, and the walker, pages of 1, 2 permits, 1 thread, one step of the retention's cutoff | a walk over all pages is complete and in order, answers are about one state, admitted queries are answered or dropped |
| `evaluation` | 2 requests, 1 client that submits one event with two payloads, queues of 1, 1 failing statement, 1 crash | transactions are closed by their owners, each decision is in one place, shadow rows are honest, the store implements `EvidenceLedger` |
| `evaluation_settles` | the same without the endpoint, fair | admitted decisions and evaluations are stored or given up |
| `canary` | 3 processes of 3 configurations, 3 requests, clock to 2, one evaluated sample needed, lookback 1 | a candidate serves only on evidence about itself, its decisions can be explained from the store, a session stays with it |

The bounds are enough for the cases to meet: three leases in flight are a probe,
a call from before the suspension and one from before that; two targets of one
provider make provider and target probes collide; a clock of 3 lets a cooldown
pass, be doubled up to its maximum, and be cut off; a second provider lets a
request fall back past a provider that is suspended as a whole. Eight tokens are
two whole events and two tokens of a third, and a chunk of four spans an
event with its delimiter and the beginning of the next. Three sessions
over a capacity of two force evictions in each order; three bundles over a queue
of one are one in the writer's hand, one queued and one refused, and a trace of
five spans is longer than the exporter's queue and than one batch. Two pages of
one item with equal times meet an insertion and a deletion between them, and two
queries over one thread wait for each other. Two requests over queues of one let
one decision or replay wait behind the other, be refused, and find a
transaction left by the other; one crash suffices because what is kept is the
rows alone, and the process before it is the general case of the one after. Three
processes are one that gathers evidence, one that is judged by it, and one with
another configuration before, between or after. `LeaseBound` ends the run
of one process, `InFlightBound` the number of concurrent calls, `ClockBound`,
`MaxTime` and `CutoffBound` time, `FailureBound` the failures of one session,
`ErrorBound` failing statements, `CrashBound` and `MaxStarts` processes. In `engine`
`LeaseBound` is no less than the number of attempts two requests can make
(3 and 2), and `InFlightBound` no less than the requests, so neither ever
refuses a lease; `Acquire`'s guard on them is therefore not an outcome of
the code being cut off.

`CHECK_DEADLOCK` is on where the system always has a next step: the health model
can restart, the engine, the relay and the pipeline idle explicitly when all is
over (`Idle`, `Over`, `Stopped`), sessions can always arrive. It is off in
`evaluation`, `evaluation_settles`, `canary` and `reads`: there the process may
have ended for good, or the requests, processes and time of the instance are
used up.

### Fairness

`HealthCoordinator.FairSpec` (used by `health_probe_wedge` alone): every lease
in flight is eventually recorded with one of the allowed classes, which is what
the engine's `LeasesReported` and `EveryRequestEnds` establish but for the ends in
`Unrecorded`.

`ExecutionEngine.FairSpec`: weak fairness of `Progress(r)` for each request, the
disjunction of everything that happens to it without anybody's intervention.
The code justifies it: waiting for the permit and for the headers is under
`response_header_timeout`, the first event and the body under their timeouts and
the request deadline, the relay under the idle timeout and the deadline, and the
event loop runs each ready task. `close()` has no deadline of its own; that it
ends is an assumption on the HTTP client. Cancellation, a `close()` that breaks in a
handler, a body nobody iterates and the arrival of requests are not fair. `Connect` needs no strong fairness because a request that
waits for a permit can time out.

`ObservationPipeline.FairSpec`: weak fairness of `Writer` alone. The writer is a
task of the event loop that nothing but `close()` cancels, and `append()` ends, by
commit or error, within SQLite's busy timeout. Requests, the exporter and the
shutdown are not fair: `BundlesSettle` needs none of them.

`ObservationReads.FairSpec`: threads of the pool take queued queries, the
deadline's progress handler interrupts a query that runs, `run()` returns. That
statements end on their own is not assumed.

`EvaluationPipeline.Fairness`: the two workers go on, the replay thread takes
what waits when it is free, the replay timer expires; strong fairness of `Step(c)`
for each caller, because the asyncio lock is handed over in the order of
waiting, so a caller that can proceed again and again does. How long a replay
takes is not assumed: `EvidenceSettles` holds behind one that never returns.

## Proofs

Each `*Proofs` module extends its component and proves, for every value of the
constants that satisfies the component's named assumptions:

| Module | Theorem | Statement |
|---|---|---|
| `HealthCoordinatorProofs` | `TypeCorrect`, `Invariance` | `Spec => []TypeOK`, `Spec => []IInv` |
| | `SingleProbeHolds`, `SnapshotAgrees` | `Spec => []SingleProbe`, `Spec => []SnapshotAgreesWithAdmission` |
| | `SuspensionIsServed`, `ProbeDecidesAlone` | `Spec => SuspensionServed`, `Spec => ProbeDecides` |
| | `RevisionCovers`, `FailedProbesCoolDown` | `Spec /\ []NoOverflow => RevisionCoversSnapshot`, `... => FailedProbeCoolsDown` |
| `RelayProofs` | `TypeCorrect`, `RelayImplementsStream` | `Spec => []TypeOK`, `Spec => ImplementsStream`, a refinement |
| | `ClientHasPrefix`, `ParserIsChunkingBlind`, `CompletionIsHonest` | `Spec => []RelayFaithful`, `Spec => []ParserMatches`, `Spec => []ReportHonest` |
| `SessionProofs` | `TypeCorrect`, `LruOrderHolds` | `Spec => []TypeOK`, `Spec => []LruOrder` |
| | `ForgottenInTurnHolds`, `NoLostFailureHolds`, `ExpiredForgottenHolds` | the three action properties of the run |
| `ObservationProofs` | `TypeCorrect`, `EachBundleAccounted`, `GaugesMatchHolds` | `Spec => []TypeOK`, `Spec => []Accounted`, `Spec => []GaugesMatch` |
| | `FirstFactStays` | a terminal fact, once there, is never changed |
| | `TraceGapShowsHolds` | `Spec => []TraceGapShows` |
| | `PipelineImplementsLedger` | `Spec => ImplementsLedger`, a refinement |
| `ReadsProofs` | `TypeCorrect`, `AnswersAreWhole`, `WalksAreComplete` | `Spec => []TypeOK`, `Spec => []AnswersWhole`, `Spec => []WalkComplete` |
| | `PermitsAddUp` | the permits and the queries somebody waits for add up to the capacity, always |
| `EvaluationProofs` | `TypeCorrect` | `Spec => []TypeOK` |
| | `TransactionOwnedHolds`, `DecisionsAccountedHolds`, `ShadowHonestHolds` | the invariants of the run |
| | `StoreImplementsEvidence` | `Spec => ImplementsEvidence`, a refinement |
| `EngineProofs` | `PermitsCoverHolds`, `LiveLeasesActiveHolds` | `Spec => []PermitsCover`, `Spec => []LiveLeasesActive` |
| | `PermitsReturnedHolds`, `LeasesReportedHolds` | `Spec => []PermitsReturned`, `Spec => []LeasesReported` |
| | `PlanIsServable` | what the kernel plans is eligible, probes no domain twice, and is empty only when nothing is eligible |
| | `UsesCoordinator`, `ProbesAlone` | `Spec => Coordinator!Spec`, and with it `[]SingleProbe` under the engine |
| | `FirstTargetIsServed`, `RefusalsAreHonest` | `Spec => []FirstTargetServes`, `Spec => RefusalsHonest` |
| | `TypeCorrect` | `Spec => []TypeOK` |
| `CanaryProofs` | `TypeCorrect`, `CanaryRestsOnEvidence`, `CanaryPoliciesDurable`, `SessionsStick` | `Spec => []TypeOK` and the invariants of the run |

**Health.** `SingleProbe` is not inductive. That a call in flight cannot decide a
suspended domain next to the probe rests on its generation being older, so `IInv`
adds: tokens identify live leases and are issued (`LeaseTokens`); only a half-open
domain holds a token, an issued one (`HeldTokens`); a lease never carries a
newer generation than its domain (`Generations`); a live call of the current
generation of a suspended provider is its probe (`ProviderHolders`), and of a
suspended target is its probe or the probe of its provider (`TargetHolders`);
nobody may decide a domain whose cooldown runs (`CooldownHolders`). The lemmas
first say what any outcome does to one record (its state changes only together
with its generation), then each action preserves each conjunct. The
`health_safety` run checks `IInv` on the instance. For `RevisionCoversSnapshot`
`IInv` is not enough: a restart sets the revision to 0, so revision 0 has to show
healthy domains only (`RevisionStarts`). Every step that leaves clock and
revision alone is then shown to keep what `snapshot()` shows of each domain
(`SameView`), with one exception the code has: a target whose
cooldown has run out is still in state cooldown, so a failure charged to it by its
provider's probe suspends it again and moves neither its generation nor the
revision. That is covered because a provider under probe hides its targets
(`Hidden`). The two theorems of the last row assume that no backoff is about to
overflow at any time. The overflow is an exception in the middle of `record()`,
which breaks both properties (see Findings). The assumption says nothing about
the callers, the clock or the interleaving: it excludes only that one domain fails
`OverflowLevel` times in a row.

**Relay.** `Settlement` ties `pc` to `recorded` and `completion`: before the end
neither has a value, after it both do and agree. Each way out of the generator
is then one of the three `End` steps of the promise, and all else stutters or
closes. `Handed` adds what the client has at each `pc`: nothing, the first event,
all that was received, or at the end a prefix of it and perhaps an error event.
`Reports` adds the parser: an accumulator that has read `n` tokens of the
body (`HasRead`) holds in its buffer those behind the last delimiter and in
`terminal` the outcome of the last complete terminal event among the `n`. That is
preserved by one token (`TakeReads`), so by a chunk (`ParsedReads`), so it
does not matter where the chunks end.

**Sessions.** `LruOrder` is kept by moving an entry to the end with the current
clock and dropping the head; for `ForgottenInTurn` the entry a step removes has to
be the head unless it is the one refreshed. `Timely` bounds `last_access` by the
clock, which the order needs. For `NoLostFailure` every step stores one live entry
with no fewer failures than it found, or that of a recorded success (`ItemsStep`),
and a session that is not expired has one entry, so what is found of it is that
entry (`LiveIsEntry`).

**Observations.** `Accounted` says that a concluded request is in one place. It is
not inductive: that a bundle taken from the queue leaves it needs the queue to
hold no request twice (`Bundles`), and that a conclusion adds a request which is
in no place yet needs that all requests of the registry are open (`Registered`),
since `abandon_all()` concludes whoever is registered. The lemmas say what
`Enqueue` does to the books, then what it means for places (`RecordAccounts`,
`MoveAccounts`), then one lemma per group of actions; the exporter's variables
play no part in it. They have their own invariant (`XInv`): what a trace is
owed is at least what is queued or in the batch of it, and equal unless the trace
was cut. The refinement adds nothing to the invariants; it maps a conclusion to
the ledger's, with the queue as the tail of `pending` behind the bundle in
the writer's hand, and has one lemma per action of the writer and of the shutdown.
`GaugesMatch` needs besides that no handler of a serving router
goes on after its request is concluded (`GInv`): then each step adjusts the gauges
by the difference it makes to the share of its own lifecycle (`StepAdjusts`).

**Reads.** A committed state has each request in both tables or in none, the
purge's private copy deletes parts first and only of its `ids`, and a snapshot is
a committed state; so what later statements find is what the first one found.
`WalkComplete` needs facts about order first: in a finite set every place of the
order by time and id is taken by exactly one row (`PlacesAre`, by counting), so a
page is in order, is not empty when there is more, and leaves out only what is
older than all it shows (`PageIs`). `WInv` then has six parts: what is stored once
is not stored again (`Kept`); a query waits for a thread once (`Queued`); the
client waits exactly while its query is in progress (`Waits`); what it has is in
order and not behind the cursor (`Got`); what it has to get is there or behind the
cursor (`Due`); the page on its way starts at the cursor and has no gap
(`PageOnItsWay`). The last one is why stale snapshots do no harm: between the
statement and the answer rows are only deleted, or added that the walk does not
owe. `PermitsInv` counts permits: they and the queries somebody waits for (`Waited`)
add up to the capacity, and only a query in the executor can have lost its caller.

**Evaluation.** `EInv` has five parts. `StoreInv`: whoever is between `BEGIN` and
`COMMIT` owns the transaction (`Lock`), a call at `"begun"` finds it empty, one at
`"written"` has its row in it or durable, and knows which (`Calls`); keys are
unique over committed and uncommitted rows (`Keys`). `StepEffects` reduces every
statement to one of five effects (refused, opened, inserted, committed, left
open), `CancelEffects` does so for a cancelled call, and all else is argued on
the effects. `DecisionInv` adds that an uncommitted decision is being written or lost,
`ShadowInv` that the shadow rows belong to requests in storing, `Phases` who may
have a call in progress when. The refinement maps `limbo` to the rows of the calls
in progress with the uncommitted ones, and `said` to the answers. `TypeCorrect`
adds the room of the two queues (`Bounds`).

**Engine.** Requests meet only in the semaphores and in the coordinator's leases.
Each action is reduced to what it does to one request's permit (kept, taken,
freed, left with a stranded body, or lost) and to its lease (kept, taken, recorded,
or never to be recorded); the invariant is argued on these effects alone. It adds to the four
properties that tokens of leases in flight have been issued (`Issued`), so that a
new lease is nobody's, and nothing in it depends on what a plan names.

The other theorems do. About the kernel, `PickedUpTo` says of a filtered list
that it has exactly the picked positions, in their order; from it follow
`AvailableKeeps`, `InScopeKeeps` and `PlanIsServable`. About the coordinator,
`UsesCoordinator` shows that each step of the engine is a step of the
coordinator's own specification or leaves its variables alone, so that what is
proved in `HealthCoordinatorProofs` holds under the engine as well; it rests on
`Placed` and `VerdictKnown` (a request in the loop is at a target of its plan, and
the class it is about to report is one the coordinator knows). `FirstInv`
combines the two: a request that has not called anybody yet is at the first target
of its plan, that target is admitted, and no other request is at the same
place. It is preserved because the only step another actor can take there is the
clock's, and time takes no admission away (`TimeAdmits`). `HealthAssumption` says
that the engine's constants satisfy the assumptions of the coordinator.

**Canary.** The inductive invariant says of each resolution what the gate saw when
its process started: those samples are still there, because a shadow row and a
durable decision are never changed, and were made before.

**Induction.** The theorems of the library that take a predicate cannot be
instantiated here. Where an argument is by induction (a chunk token by token, a
filtered list place by place, the spans of a trace), `LeastNatural` and `UpTo`
derive it from the well-foundedness of the natural numbers for sets: the set of
the numbers up to which the statement holds contains all of them. Sums, folds and
lists are therefore recursive functions in the modules that are proved about.

Every safety invariant and action property of the passing runs is stated by a
theorem. Only model-checked is liveness (`EveryRequestEnds`, `CompletionResolved`,
`BundlesSettle`, `EvidenceSettles`, `QueriesAnswered`), which the prover cannot
express under fairness.

## Findings

1. A provider probe whose failure is charged to the target leaves the provider
   half open with its slot taken until the process restarts
   (`health/coordinator.py:382`; run `health_probe_wedge`). The transient failure
   of the target in that run is a 429 (`execution/failures.py:33`). The permanent one,
   a 404, takes the clause behind it (line 394), which leaves the slot as well;
   a 408 is neutral and frees it.
2. The exponential backoff overflows a float before it is capped
   (`health/coordinator.py:284`; run `health_overflow`): with the multiplier 2.0 at
   level 1024, with 8.0 at level 342. `record()` raises after it has freed the probe
   slot and before it suspends the domain. `OverflowLevel` stands for that level.
   `RevisionCoversSnapshot` is violated there too: the state of a healthy domain is
   assigned before the exception, the revision after it.
3. The bytes read behind the first event are parsed at the head of
   `relay_stream()`, before its try block. An event there whose data is JSON but
   no object raises, and neither outcome nor completion nor close follows
   (`execution/streaming.py:130`; run `relay_remainder`). `ExecutionEngine` has the
   same end as `RelayBreaks`.

## Divergences

Met while modelling and not run again with the others; where a property
is named it is in the module, and the configuration given shows it.

- An exception or a cancellation of `exchange.close()` inside an except handler of
  `execute()` skips the recording of the lease (`execution/engine.py:413`, also
  370 and 427); `LeasesReported` names these leases among those that stay.
- `append_shadow()` rolls back for the exceptions its clauses name
  (`evaluation/sqlite_store.py:352`). A lone surrogate in the model name a client
  asks for becomes the row's requested profile; the codec escapes it, but binding it
  as a text (`evaluation/shadow_sqlite.py:57`) raises `UnicodeEncodeError`, which
  none of them names. The row is lost and counted as failed; the transaction stays
  open with nothing in it. The next shadow row or outcome event fails, because its
  own `BEGIN IMMEDIATE` fails in it, and rolls it back with it; a decision or policy
  that comes first commits it. Until then it keeps other connections from writing.
  `evaluation/shadow.py:214` says that one comparison is persisted "while isolating
  store and codec failures". `TransactionOwned` names this transaction.
- `docs/coding-llm-router-v0.3-provider-reliability-spec.md` says that a health
  skip does not use up the attempt limit; the plan is cut to the limit before the
  loop (`domain.py:142`). `SkipsAreFree` is violated with `AttemptLimit` 2.
- The v0.1 document says that escalation decays without new failures; the
  gateway never records the outcomes that would decay it
  (`gateway/common.py:106`). `EscalationDecays` is violated under
  `SessionRouting.FairSpec`.
- The v0.7 plan says that after the drain deadline what remains is counted as
  dropped. The count is `qsize()`, which leaves out the bundle the writer has
  taken; the writer is then cancelled, and that bundle is neither stored nor
  counted (`observability/hub.py:124`). `NothingLost` is violated with a queue
  of 2 and `Overlap` FALSE; `ImplementsLedger` allows for the one bundle.
- The v0.7 plan says that an event over the 4 MiB limit affects only the coverage
  of usage. A terminal event over the limit is thrown away with its outcome, and
  the stream then ends with an error event (`execution/streaming.py:67`).
  `OverflowOnlyUsage` is violated in the instance of `relay`.
- `read_first_event` takes everything up to the first delimiter and reads on when
  that is blank, without dropping it; a body that begins with a blank event finds
  the same blank event after every chunk and ends as an empty stream
  (`execution/streaming.py:95`).
- The v0.8 document says that pages come without duplicates or gaps. Without a range in
  its address the dashboard's script recomputes the last 24 hours for each page
  (`dashboard/assets/state.js:25`); hence `walk.from` may grow, and `WalkComplete`
  is about the range last asked for.
- The v0.8 document says a client that goes away cancels its query; the query runs
  to its end or its deadline (`dashboard/sqlite_reader.py:142`).

## Plan

Done: the modules and proofs above. Left, in this order:

1. An abstract `CircuitBreaker` (a domain is open, probing or closed, one probe
   at a time) refined by `HealthCoordinator`.
2. The replay of a recorded context, composed with `RoutingKernel`.
3. A `close()` of the lifespan that raises, once there is one that can.
4. The rate of the retention worker: at most 1000 requests per run.

## Not modelled

Configuration documents (validated once; the ranges they guarantee are the
modules' assumptions), canonical encodings and hashes of policies, contexts and
decisions, feature extraction, protocol rendering, usage and price arithmetic,
authentication, parsing and aggregation in the dashboard, its static assets, the
canary report and the command lines: pure functions, read-only SQL or
single-process code without shared state. The correlation of an outcome with its
decision is a read for the reply. Metrics are counters without control flow,
except the gauges and the depth that `ObservationPipeline` has. Log records,
labels and wording are left out everywhere. In the kernel, capability matching is
abstracted to a set.
