---------------------------- MODULE CanaryRouting ----------------------------
(***************************************************************************)
(* The controlled canary over the life of several processes: the bootstrap *)
(* that loads a candidate policy and judges the shadow evidence that       *)
(* earlier processes left (routing/canary_runtime.py, candidate.py,        *)
(* evaluation/canary_sqlite.py), the selection of a policy for each        *)
(* request (routing/canary.py), and what RoutingCoordinator.resolve()      *)
(* leaves for the next bootstrap.  How rows reach the store is the subject *)
(* of EvaluationPipeline: here a row is durable or lost.                   *)
(***************************************************************************)
EXTENDS Integers, FiniteSets

CONSTANTS
    Config,    \* configurations a process may be started with
    Request,   \* requests, each resolved at most once
    Asked,     \* [Request -> what the client says of it]: profile, session and task
               \* (or None), countOnly, stateful
    Default,   \* [hash of a policy -> its default profile]
    Bucket,    \* [<<salt, hash, kind, affinity>> -> bucket]: the HMAC
    Minimum,   \* minimum_shadow_evaluated
    Lookback,  \* shadow_gate_lookback_seconds, in ticks
    MaxTime, MaxStarts, \* bounds: of the clock and of the processes
    None

Hashes == DOMAIN Default

ASSUME CanaryAssumption ==
    /\ \A c \in Config :
         /\ c.current \in Hashes /\ c.candidate \in Hashes
         /\ c.threshold \in Nat
         /\ {c.capture, c.shadow, c.canary, c.compatible} \subseteq BOOLEAN
    /\ \A r \in Request : {Asked[r].countOnly, Asked[r].stateful} \subseteq BOOLEAN
    /\ IsFiniteSet(Request)
    /\ None \notin Hashes /\ None \notin Request
    /\ Minimum \in Nat \ {0} /\ Lookback \in Nat
    /\ MaxTime \in Nat /\ MaxStarts \in Nat

VARIABLES
    now,      \* the clock
    starts,   \* processes started so far
    process,  \* what is fixed at startup: [config, bundle, active, since], or None
    policies, \* hashes of the durable policy snapshots
    routed,   \* the resolution of each request, or None: [process, role, at]
    stored,   \* requests whose decision is durable
    pending,  \* requests admitted to the shadow evaluator
    shadowed  \* the durable shadow row of each request, or None

vars == <<now, starts, process, policies, routed, stored, pending, shadowed>>

Process ==
    [config : Config, bundle : Hashes \union {None}, active : BOOLEAN, since : 0 .. MaxTime]
Resolution == [process : Process, role : {"current", "control", "canary"}, at : 0 .. MaxTime]
ASSUME NoneIsApart == None \notin Resolution \union Process

\* "unusable" stands for non_replayable and evaluation_failed.
ShadowStatus == {"evaluated", "unusable"}
ShadowRow == [current : Hashes, candidate : Hashes, status : ShadowStatus]

TypeOK ==
    /\ now \in 0 .. MaxTime /\ starts \in 0 .. MaxStarts
    /\ process \in Process \union {None}
    /\ policies \subseteq Hashes
    /\ routed \in [Request -> Resolution \union {None}]
    /\ stored \subseteq Request /\ pending \subseteq Request
    /\ shadowed \in [Request -> ShadowRow \union {None}]

Init ==
    /\ now = 0 /\ starts = 0 /\ process = None /\ policies = {}
    /\ routed = [r \in Request |-> None]
    /\ stored = {} /\ pending = {}
    /\ shadowed = [r \in Request |-> None]

-----------------------------------------------------------------------------
(* The gate: SQLiteCanaryGateReader.summaries() and _gate_ok()              *)

\* _profile(): the effective profile under the policy that served the request.
Profile(r, hash) == IF Asked[r].profile # None THEN Asked[r].profile ELSE Default[hash]

\* Wrong form: evidence against whatever policy was current counts.
SampleOfAny(r, config, bundle, profile, time) ==
    /\ shadowed[r] # None /\ r \in stored /\ config.current \in policies
    /\ shadowed[r].candidate = bundle
    /\ Profile(r, shadowed[r].current) = profile
    /\ routed[r].at >= time - Lookback /\ routed[r].at < time

\* A row that counts: its decision and its current policy are durable too.
Sample(r, config, bundle, profile, time) ==
    /\ shadowed[r] # None /\ r \in stored /\ config.current \in policies
    /\ shadowed[r].current = config.current /\ shadowed[r].candidate = bundle
    /\ Profile(r, shadowed[r].current) = profile
    /\ routed[r].at >= time - Lookback /\ routed[r].at < time

Samples(config, bundle, profile, time) ==
    {r \in Request : Sample(r, config, bundle, profile, time)}

GateOk(config, bundle, time) ==
    \A profile \in config.segments :
        LET samples == Samples(config, bundle, profile, time)
        IN  /\ Cardinality({r \in samples : shadowed[r].status = "evaluated"}) >= Minimum
            /\ \A r \in samples : shadowed[r].status = "evaluated"

\* _inactive_reason(): none of its reasons applies.
Active(config, bundle, gate) ==
    /\ config.canary /\ config.capture
    /\ bundle # None
    /\ config.expected = bundle
    /\ config.compatible
    /\ config.salt # None
    /\ gate

-----------------------------------------------------------------------------
(* Bootstrap: build_canary_components()                                     *)

\* The candidate's snapshot may stay out of the store: the bundle is used all
\* the same.  The gate may be unreadable.
Start(config, loads, ensured, readable) ==
    LET bundle == IF loads /\ (config.shadow \/ config.canary) THEN config.candidate ELSE None
        gate == bundle # None /\ readable /\ GateOk(config, bundle, now)
    IN  /\ process = None /\ starts < MaxStarts
        /\ starts' = starts + 1
        /\ policies' = policies \union {config.current}
                         \union (IF ensured /\ bundle # None THEN {bundle} ELSE {})
        /\ process' = [config |-> config, bundle |-> bundle,
                       active |-> Active(config, bundle, gate), since |-> now]
        /\ UNCHANGED <<now, routed, stored, pending, shadowed>>

\* The transaction that ensure_policy() left open is committed by another call.
EnsuredLate ==
    /\ process # None /\ process.bundle # None
    /\ policies' = policies \union {process.bundle}
    /\ UNCHANGED <<now, starts, process, routed, stored, pending, shadowed>>

\* Shutdown or the end of the process: what the evaluator holds is lost.
Stop ==
    /\ process # None /\ process' = None
    /\ pending' = {}
    /\ UNCHANGED <<now, starts, policies, routed, stored, shadowed>>

\* Time passes; within the life of a process it is not told apart, for the gate
\* is judged at the start of the next.
Tick ==
    /\ process = None /\ now < MaxTime /\ now' = now + 1
    /\ UNCHANGED <<starts, process, policies, routed, stored, pending, shadowed>>

-----------------------------------------------------------------------------
(* CanaryPolicySelector.select()                                            *)

\* Wrong form: the task goes before the session.
AffinityTask(r) ==
    IF Asked[r].task # None THEN <<"task", Asked[r].task>>
    ELSE IF Asked[r].session # None THEN <<"session", Asked[r].session>>
    ELSE <<"request", r>>

Affinity(r) ==
    IF Asked[r].session # None THEN <<"session", Asked[r].session>>
    ELSE IF Asked[r].task # None THEN <<"task", Asked[r].task>>
    ELSE <<"request", r>>

\* An affinity that can be hashed has a bucket.
ASSUME BucketAssumption ==
    \A c \in Config, hash \in Hashes, r \in Request :
        c.salt # None => Bucket[<<c.salt, hash, Affinity(r)[1], Affinity(r)[2]>>] \in Nat

BucketOf(r) ==
    Bucket[<<process.config.salt, process.bundle, Affinity(r)[1], Affinity(r)[2]>>]

Eligible(r) ==
    /\ process.active
    /\ Profile(r, process.config.current) \in process.config.segments
    /\ ~Asked[r].countOnly
    /\ ~(Asked[r].stateful /\ Affinity(r)[1] = "request")

\* CurrentPolicySelector, when the canary is not enabled, assigns no role.
Role(r) ==
    IF ~process.config.canary THEN "current"
    ELSE IF Eligible(r) /\ BucketOf(r) < process.config.threshold THEN "canary"
    ELSE "control"

-----------------------------------------------------------------------------
(* RoutingCoordinator.resolve() and the shadow evaluator                    *)

Admissible(r) == process.config.shadow /\ process.bundle # None /\ Role(r) # "canary"

\* The decision may be captured or lost, the evaluation admitted or not.
Resolve(r, captured, admitted) ==
    /\ process # None /\ routed[r] = None
    /\ captured => process.config.capture
    /\ admitted => Admissible(r)
    /\ routed' = [routed EXCEPT ![r] = [process |-> process, role |-> Role(r), at |-> now]]
    /\ stored' = IF captured THEN stored \union {r} ELSE stored
    /\ pending' = IF admitted THEN pending \union {r} ELSE pending
    /\ UNCHANGED <<now, starts, process, policies, shadowed>>

\* The hash of the policy that served a request.
ActualHash(r) ==
    IF routed[r].role = "canary" THEN routed[r].process.bundle
    ELSE routed[r].process.config.current

Stored(r, status) ==
    /\ pending' = pending \ {r}
    /\ shadowed' = [shadowed EXCEPT ![r] = [current |-> ActualHash(r),
                                            candidate |-> process.bundle, status |-> status]]
    /\ UNCHANGED <<now, starts, process, policies, routed, stored>>

\* Wrong form: the snapshots are not looked for.
EvaluateUnchecked(r, status) == process # None /\ r \in pending /\ Stored(r, status)

\* append_shadow() wants both snapshots; a late or failed one is not stored.
Evaluate(r, status) ==
    /\ process # None /\ r \in pending
    /\ {ActualHash(r), process.bundle} \subseteq policies
    /\ Stored(r, status)

-----------------------------------------------------------------------------

Next ==
    \/ \E config \in Config, loads, ensured, readable \in BOOLEAN :
          Start(config, loads, ensured, readable)
    \/ EnsuredLate \/ Stop \/ Tick
    \/ \E r \in Request, captured, admitted \in BOOLEAN : Resolve(r, captured, admitted)
    \/ \E r \in Request, status \in ShadowStatus : Evaluate(r, status)

Spec == Init /\ [][Next]_vars

-----------------------------------------------------------------------------
(* Properties                                                               *)

ByCanary(r) == routed[r] # None /\ routed[r].role = "canary"

\* Request q was served by the current policy of process p, under the effective
\* profile of request r, in the lookback of p, and its decision is durable.
Precedes(q, r, p) ==
    /\ routed[q] # None /\ q \in stored
    /\ routed[q].role # "canary" /\ routed[q].process.config.current = p.config.current
    /\ Profile(q, p.config.current) = Profile(r, p.config.current)
    /\ routed[q].at < p.since /\ routed[q].at >= p.since - Lookback

EvaluatedFor(q, p) ==
    shadowed[q] # None /\ shadowed[q].candidate = p.bundle /\ shadowed[q].status = "evaluated"

\* A request is served by a candidate only if, before its process started,
\* enough requests of its own profile were served by the very same current
\* policy and evaluated by the very same candidate, whatever happened to
\* configurations and defaults in between (canary_runtime.py _gate_ok()).
CanaryEvidenced ==
    \A r \in Request : ByCanary(r) =>
        LET p == routed[r].process
        IN  Cardinality({q \in Request : Precedes(q, r, p) /\ EvaluatedFor(q, p)}) >= Minimum

\* A decision made by a candidate can be explained later: both snapshots are
\* durable, although a failure to store the candidate's is swallowed at startup
\* (canary_runtime.py build_canary_components()).
PoliciesDurable ==
    \A r \in Request : ByCanary(r) =>
        {routed[r].process.bundle, routed[r].process.config.current} \subseteq policies

\* The session, or without one the task, of two requests is the same.
SameAffinity(r, q) ==
    IF Asked[r].session = None THEN Asked[q].session = None /\ Asked[r].task = Asked[q].task
                                    /\ Asked[r].task # None
    ELSE Asked[r].session = Asked[q].session

\* A session once served by a candidate stays with it, across restarts and other
\* changes of the configuration, as long as the candidate is active for it, its
\* salt is the same and the traffic rate is not lowered (canary.py select()).
StickyAffinity ==
    \A r, q \in Request :
        LET p == routed[r].process
            n == routed[q].process
        IN  /\ ByCanary(r) /\ routed[q] # None /\ SameAffinity(r, q)
            /\ n.active /\ n.bundle = p.bundle /\ n.config.salt = p.config.salt
            /\ n.config.threshold >= p.config.threshold
            /\ Profile(q, n.config.current) \in n.config.segments /\ ~Asked[q].countOnly
            => ByCanary(q)
=============================================================================
