------------------------- MODULE HealthCoordinator -------------------------
(***************************************************************************)
(* The in-memory circuit breaker of the router:                            *)
(* llm_router/health/coordinator.py (InMemoryHealthCoordinator).           *)
(*                                                                         *)
(* Every provider and every model target is a failure domain with one      *)
(* record.  A request acquires a lease on a target, calls the upstream,    *)
(* and records the outcome once; between the two, other requests acquire   *)
(* and record, so an outcome may arrive after its domain has moved on.     *)
(* Each call runs under the coordinator's lock and is one action.          *)
(***************************************************************************)
EXTENDS Integers, FiniteSets

CONSTANTS
    Provider,          \* provider names
    Target,            \* model target aliases
    ProviderOf,        \* target.provider
    FailureThreshold,  \* config.failure_threshold
    FailureWindow,     \* config.failure_window_seconds
    BaseCooldown,      \* config.cooldown_seconds
    MaxCooldown,       \* config.max_cooldown_seconds
    BackoffMultiplier, \* config.backoff_multiplier
    OverflowLevel,     \* least backoff_level at which the float power overflows
    RetryAfterValues,  \* the retry_after_seconds an outcome may carry (0: none)
    OutcomeClasses,    \* the failure classes the callers report
    None,              \* Python's None
    ClockBound,        \* bound: time stops here
    LeaseBound,        \* bound: leases issued by one process
    InFlightBound      \* bound: leases in flight at once

Domain == Provider \union Target

HealthState == {"healthy", "cooldown", "half_open", "blocked"}

ProviderTransient == {"provider_transient", "post_commit_stream_failure"}
ProviderPermanent == {"provider_permanent"}
TargetTransient   == {"target_transient"}
TargetPermanent   == {"target_permanent"}
FailureClass ==
    {"success", "request_rejected", "client_cancelled"}
      \union ProviderTransient \union ProviderPermanent
      \union TargetTransient \union TargetPermanent

ASSUME DomainAssumption ==
    /\ Provider \intersect Target = {}
    /\ ProviderOf \in [Target -> Provider]

ASSUME ConfigAssumption ==
    /\ FailureThreshold \in Nat \ {0}
    /\ FailureWindow \in Nat
    /\ BaseCooldown \in Nat \ {0}
    /\ MaxCooldown \in Nat \ {0}
    /\ OverflowLevel \in Nat
    /\ \A n \in 0 .. OverflowLevel - 1 :
          BaseCooldown * BackoffMultiplier ^ n \in Nat

ASSUME EnvironmentAssumption ==
    /\ RetryAfterValues \subseteq Nat
    /\ OutcomeClasses \subseteq FailureClass
    /\ None \notin Nat \union Domain

ASSUME BoundAssumption ==
    ClockBound \in Nat /\ LeaseBound \in Nat /\ InFlightBound \in Nat

VARIABLES
    dom,       \* the _DomainRecord of every failure domain
    leases,    \* _active_leases
    nextToken, \* what next(self._tokens) returns
    revision,  \* _revision
    clock      \* the wall clock the callers pass in

vars == <<dom, leases, nextToken, revision, clock>>

DomainRecord ==
    [state                : HealthState,
     consecutive_failures : Nat,
     window_started_at    : Nat \union {None},
     cooldown_until       : Nat \union {None},
     backoff_level        : Nat,
     half_open_token      : Nat \union {None},
     generation           : Nat]

Lease ==
    [token               : Nat \ {0},
     target              : Target,
     probe               : BOOLEAN,
     provider_generation : Nat,
     target_generation   : Nat]

TypeOK ==
    /\ dom \in [Domain -> DomainRecord]
    /\ leases \subseteq Lease
    /\ nextToken \in Nat \ {0}
    /\ revision \in Nat
    /\ clock \in Nat

-----------------------------------------------------------------------------
(* What the router sees of the domains.                                     *)

FreshRecord ==
    [state                |-> "healthy",
     consecutive_failures |-> 0,
     window_started_at    |-> None,
     cooldown_until       |-> None,
     backoff_level        |-> 0,
     half_open_token      |-> None,
     generation           |-> 0]

EffectiveState(r) ==
    IF r.state = "cooldown" /\ r.cooldown_until # None /\ r.cooldown_until <= clock
    THEN "half_open"
    ELSE r.state

RetryAt(r) ==
    IF r.state = "cooldown" /\ r.cooldown_until # None /\ r.cooldown_until > clock
    THEN r.cooldown_until
    ELSE None

\* Wrong form: a half-open domain is offered while its probe is in flight.
SuppressedByTimeOnly(r) == EffectiveState(r) = "cooldown"

\* Suppressed: cooling down, or half open with its probe in flight.
Suppressed(r) ==
    \/ EffectiveState(r) = "cooldown"
    \/ EffectiveState(r) = "half_open" /\ r.half_open_token # None

Availability(t) ==
    LET p == dom[ProviderOf[t]]
        m == dom[t]
        Seen(ok, why, retry, scope) ==
            [eligible |-> ok, reason |-> why, retry_at |-> retry, probe_scope |-> scope]
    IN  CASE EffectiveState(p) = "blocked" ->
                 Seen(FALSE, "provider_blocked", None, None)
          [] EffectiveState(p) # "blocked" /\ Suppressed(p) ->
                 Seen(FALSE, "provider_cooldown", RetryAt(p), None)
          [] EffectiveState(p) # "blocked" /\ ~Suppressed(p) ->
               CASE EffectiveState(m) = "blocked" ->
                        Seen(FALSE, "target_blocked", None, None)
                 [] EffectiveState(m) # "blocked" /\ Suppressed(m) ->
                        Seen(FALSE, "target_cooldown", RetryAt(m), None)
                 [] EffectiveState(m) # "blocked" /\ ~Suppressed(m) ->
                        IF EffectiveState(p) = "half_open"
                        THEN Seen(TRUE, "probe_eligible", None, "provider")
                        ELSE IF EffectiveState(m) = "half_open"
                        THEN Seen(TRUE, "probe_eligible", None, "target")
                        ELSE Seen(TRUE, "healthy", None, None)

Snapshot == [t \in Target |-> Availability(t)]

-----------------------------------------------------------------------------
(* acquire()                                                                *)

\* Wrong form: admission without the half_open_token test.
AdmitsAnyProbe(r) == EffectiveState(r) \notin {"blocked", "cooldown"}

Admits(r) ==
    /\ EffectiveState(r) \notin {"blocked", "cooldown"}
    /\ EffectiveState(r) = "half_open" => r.half_open_token = None

\* The provider comes first; None when both domains are healthy.
ProbeDomain(t) ==
    IF EffectiveState(dom[ProviderOf[t]]) = "half_open" THEN ProviderOf[t]
    ELSE IF EffectiveState(dom[t]) = "half_open" THEN t
    ELSE None

\* Wrong form: only a reset moves the generation.
NextGenerationKept(r, s) == r.generation

\* _transition() to state s: the generation moves when the state does.
NextGeneration(r, s) == IF r.state = s THEN r.generation ELSE r.generation + 1

StartProbe(r, token) ==
    [state                |-> "half_open",
     consecutive_failures |-> r.consecutive_failures,
     window_started_at    |-> r.window_started_at,
     cooldown_until       |-> None,
     backoff_level        |-> r.backoff_level,
     half_open_token      |-> token,
     generation           |-> NextGeneration(r, "half_open")]

NewLease(t) ==
    [token               |-> nextToken,
     target              |-> t,
     probe               |-> ProbeDomain(t) # None,
     provider_generation |-> dom'[ProviderOf[t]].generation,
     target_generation   |-> dom'[t].generation]

Admitted(t) == Admits(dom[ProviderOf[t]]) /\ Admits(dom[t])

Acquire(t) ==
    /\ nextToken <= LeaseBound
    /\ Cardinality(leases) < InFlightBound
    /\ Admitted(t)
    /\ dom' = [d \in Domain |-> IF d = ProbeDomain(t)
                                THEN StartProbe(dom[d], nextToken) ELSE dom[d]]
    /\ revision' = IF ProbeDomain(t) # None THEN revision + 1 ELSE revision
    /\ leases' = leases \union {NewLease(t)}
    /\ nextToken' = nextToken + 1
    /\ UNCHANGED clock

-----------------------------------------------------------------------------
(* record()                                                                 *)

DomainsOf(l) == {ProviderOf[l.target], l.target}

\* The generation of the domain d that the lease was admitted under.
LeaseGeneration(l, d) ==
    IF d = l.target THEN l.target_generation ELSE l.provider_generation

\* Wrong form: outcomes are applied whatever generation they belong to.
CurrentAlways(l, d) == d \in DomainsOf(l)

Current(l, d) == d \in DomainsOf(l) /\ LeaseGeneration(l, d) = dom[d].generation

\* The domain a class of outcome is charged to; None for the neutral classes.
ChargedTo(l, class) ==
    IF class \in ProviderTransient \union ProviderPermanent THEN ProviderOf[l.target]
    ELSE IF class \in TargetTransient \union TargetPermanent THEN l.target
    ELSE None

Charged(l, class) == ChargedTo(l, class) # None /\ Current(l, ChargedTo(l, class))

\* _reset() changes the record, and moves its generation, only when it has
\* something to forget.
Dirty(r) ==
    \/ r.state # "healthy"
    \/ r.consecutive_failures > 0
    \/ r.window_started_at # None
    \/ r.backoff_level > 0

Reset(r) ==
    [FreshRecord EXCEPT !.generation = IF Dirty(r) THEN r.generation + 1
                                       ELSE r.generation]

\* _cooldown_seconds()
CooldownSeconds(r, retryAfter) ==
    LET exponential == BaseCooldown * BackoffMultiplier ^ r.backoff_level
        wanted == IF exponential >= retryAfter THEN exponential ELSE retryAfter
    IN  IF wanted <= MaxCooldown THEN wanted ELSE MaxCooldown

IsProbeOf(r, l) == r.state = "half_open" /\ r.half_open_token = l.token

WindowExpired(r) ==
    r.window_started_at = None \/ clock - r.window_started_at > FailureWindow

CountFailure(r) ==
    [r EXCEPT !.consecutive_failures = IF WindowExpired(r) THEN 1 ELSE @ + 1,
              !.window_started_at = IF WindowExpired(r) THEN clock ELSE @]

\* The failure on the books: counted unless it is the verdict of a probe.
Noted(r, l) ==
    [(IF IsProbeOf(r, l) THEN r ELSE CountFailure(r)) EXCEPT !.half_open_token = None]

\* Wrong form: the failure of a probe is counted like any other.
ThresholdReachedByCount(r, l) == Noted(r, l).consecutive_failures >= FailureThreshold

ThresholdReached(r, l) ==
    IsProbeOf(r, l) \/ Noted(r, l).consecutive_failures >= FailureThreshold

\* float ** int raises OverflowError: the call ends where _cooldown_seconds is.
Overflows(r, l) == ThresholdReached(r, l) /\ r.backoff_level >= OverflowLevel

TransientFailure(r, l, retryAfter) ==
    IF ~ThresholdReached(r, l) \/ Overflows(r, l) THEN Noted(r, l)
    ELSE [state                |-> "cooldown",
          consecutive_failures |-> 0,
          window_started_at    |-> None,
          cooldown_until       |-> clock + CooldownSeconds(r, retryAfter),
          backoff_level        |-> r.backoff_level + 1,
          half_open_token      |-> None,
          generation           |-> NextGeneration(r, "cooldown")]

\* Wrong form: the failure counter is cleared like the optional fields.
PermanentFailureNone(r) ==
    [FreshRecord EXCEPT !.state                = "blocked",
                        !.consecutive_failures = None,
                        !.backoff_level        = r.backoff_level,
                        !.generation           = NextGeneration(r, "blocked")]

PermanentFailure(r) ==
    [state                |-> "blocked",
     consecutive_failures |-> 0,
     window_started_at    |-> None,
     cooldown_until       |-> None,
     backoff_level        |-> r.backoff_level,
     half_open_token      |-> None,
     generation           |-> NextGeneration(r, "blocked")]

\* The else branch: give back the probe slot, whichever domain it is of.
HoldsProbe(l, d) == Current(l, d) /\ dom[d].half_open_token = l.token

ReleaseProbe(r) == [r EXCEPT !.half_open_token = None]

\* Generation and revision move together in _transition() and in _reset().
GenerationSteps(l) ==
    LET Step(d) == dom'[d].generation - dom[d].generation
    IN  Step(ProviderOf[l.target]) + Step(l.target)

RecordSuccess(l) ==
    /\ dom' = [d \in Domain |-> IF Current(l, d) THEN Reset(dom[d]) ELSE dom[d]]
    /\ revision' = revision + GenerationSteps(l)

RecordTransient(l, class, retryAfter) ==
    /\ class \in ProviderTransient \union TargetTransient
    /\ Charged(l, class)
    /\ dom' = [dom EXCEPT ![ChargedTo(l, class)] = TransientFailure(@, l, retryAfter)]
    /\ revision' = revision + GenerationSteps(l)

RecordPermanent(l, class) ==
    /\ class \in ProviderPermanent \union TargetPermanent
    /\ Charged(l, class)
    /\ dom' = [dom EXCEPT ![ChargedTo(l, class)] = PermanentFailure(@)]
    /\ revision' = revision + GenerationSteps(l)

\* Wrong forms: a neutral outcome frees whatever slot its domains hold, or frees
\* it without moving the revision.
RecordNeutralAny(l, class) ==
    /\ class # "success"
    /\ ~Charged(l, class)
    /\ dom' = [d \in Domain |-> IF d \in DomainsOf(l) THEN ReleaseProbe(dom[d]) ELSE dom[d]]
    /\ revision' = revision + 1

RecordNeutralSilent(l, class) ==
    /\ class # "success"
    /\ ~Charged(l, class)
    /\ dom' = [d \in Domain |-> IF HoldsProbe(l, d) THEN ReleaseProbe(dom[d]) ELSE dom[d]]
    /\ UNCHANGED revision

\* Neutral classes, and charges against a domain that has moved on.
RecordNeutral(l, class) ==
    /\ class # "success"
    /\ ~Charged(l, class)
    /\ dom' = [d \in Domain |-> IF HoldsProbe(l, d) THEN ReleaseProbe(dom[d]) ELSE dom[d]]
    /\ revision' = revision + Cardinality({d \in DomainsOf(l) : HoldsProbe(l, d)})

Record(l, class, retryAfter) ==
    /\ leases' = leases \ {l}
    /\ \/ class = "success" /\ RecordSuccess(l)
       \/ RecordTransient(l, class, retryAfter)
       \/ RecordPermanent(l, class)
       \/ RecordNeutral(l, class)
    /\ UNCHANGED <<nextToken, clock>>

-----------------------------------------------------------------------------

Tick ==
    /\ clock < ClockBound
    /\ clock' = clock + 1
    /\ UNCHANGED <<dom, leases, nextToken, revision>>

\* A new process: nothing of the health state is persisted.
Restart ==
    /\ dom' = [d \in Domain |-> FreshRecord]
    /\ leases' = {}
    /\ nextToken' = 1
    /\ revision' = 0
    /\ UNCHANGED clock

Init ==
    /\ dom = [d \in Domain |-> FreshRecord]
    /\ leases = {}
    /\ nextToken = 1
    /\ revision = 0
    /\ clock = 0

RecordSome(l) ==
    \E class \in OutcomeClasses, retryAfter \in RetryAfterValues :
        Record(l, class, retryAfter)

Next ==
    \/ \E t \in Target : Acquire(t)
    \/ \E l \in leases : RecordSome(l)
    \/ Tick
    \/ Restart

Spec == Init /\ [][Next]_vars

\* Every attempt ends and reports: its stages all run under a deadline.
Fairness ==
    \A token \in 1 .. LeaseBound :
        WF_vars(\E l \in leases : l.token = token /\ RecordSome(l))

FairSpec == Spec /\ Fairness

-----------------------------------------------------------------------------
(* Properties                                                               *)

Holders(d) == {l \in leases : Current(l, d)}

\* While a domain is suspended no two admitted calls may still decide its fate:
\* acquire() hands out a half-open domain once, through the provider or through
\* the target, and each suspension outdates the calls in flight before it.
SingleProbe ==
    \A d \in Domain : dom[d].state # "healthy" =>
        \A l1, l2 \in Holders(d) : l1 = l2

\* The routing view and the admission test are coded apart (_availability() and
\* acquire()); they must name the same targets, or plans name targets that are
\* always skipped and leave out targets that would serve.
SnapshotAgreesWithAdmission ==
    \A t \in Target : Availability(t).eligible <=> Admitted(t)

\* A cooldown is served to its end and a block until the process restarts: no
\* late outcome of a call admitted earlier, success or failure, shortens,
\* extends or lifts them (record() drops outcomes of an older generation).  A
\* process whose next token is 1 has just started.
SuspensionServed ==
    [][nextToken' # 1 =>
          \A d \in Domain :
             RetryAt(dom[d]) # None \/ dom[d].state = "blocked" => dom'[d] = dom[d]]_vars

\* While a probe is in flight its own outcome is the only one that can move the
\* domain it probes: record() of any other call leaves the record as it is.
ProbeDecides ==
    [][\A d \in Domain, l \in leases :
          HoldsProbe(l, d) /\ l \in leases' => dom'[d] = dom[d]]_vars

\* A caller may compare revisions to know that the view it routed on still
\* stands: what snapshot() returns changes only with time or with the revision.
RevisionCoversSnapshot ==
    [][clock' = clock /\ revision' = revision => Snapshot' = Snapshot]_vars

\* The verdict of a failed probe is another cooldown: a retryable failure of the
\* call that holds the slot suspends the domain again, whatever was counted
\* before, for at least the backoff its failed recoveries have come to, however
\* short the Retry-After, and for no longer than the configured maximum.
FailedProbeCoolsDown ==
    [][\A d \in Domain, l \in leases :
          (/\ HoldsProbe(l, d)
           /\ \E class \in OutcomeClasses \intersect (ProviderTransient \union TargetTransient),
                 retryAfter \in RetryAfterValues :
                 ChargedTo(l, class) = d /\ Record(l, class, retryAfter))
          => /\ dom'[d].state = "cooldown"
             /\ dom'[d].cooldown_until \in
                   clock + CooldownSeconds(dom[d], 0) .. clock + MaxCooldown]_vars

\* A probe slot that was taken is given back or decided: the domain does not
\* stay reserved for a call that has long reported.
ProbeSettles ==
    \A d \in Domain : dom[d].half_open_token # None ~> dom[d].half_open_token = None
=============================================================================
