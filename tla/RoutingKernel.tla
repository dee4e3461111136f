--------------------------- MODULE RoutingKernel ---------------------------
(***************************************************************************)
(* The routing decision of routing/kernel.py (RoutingKernel.plan): a pure  *)
(* function of a request, the state of its session and one availability    *)
(* snapshot.                                                               *)
(*                                                                         *)
(* What a request needs is abstracted to the targets capable of it and to  *)
(* the answers of the automatic rules; everything the kernel does with     *)
(* them is kept.                                                           *)
(***************************************************************************)
EXTENDS Integers, Sequences, FiniteSets

CONSTANTS
    Provider, Target, ProviderOf,
    Catalog,           \* the targets of the policy by tier, then by alias
    TierOf,            \* target.tier
    ScopeOf,           \* target.state_scope
    EscalationRequests, \* policy.failure_escalation_requests
    AttemptLimit,      \* policy.attempt_limit
    None

Tier == {"fast", "balanced", "deep"}
Rank(tier) == CASE tier = "fast" -> 1 [] tier = "balanced" -> 2 [] tier = "deep" -> 3

\* What the kernel is told of a request.
Query ==
    [automatic : BOOLEAN,      \* profile.automatic
     chain     : Seq(Target),  \* (primary, *fallback) of an explicit profile
     capable   : SUBSET Target, \* the targets _capable() accepts
     stateful  : BOOLEAN,      \* response_state_requested
     failed    : BOOLEAN,      \* outcome_signal is "failure"
     deep      : BOOLEAN,      \* a tool loop or a context past the thresholds
     complex   : BOOLEAN,      \* a capability or signal of a complex task
     short     : BOOLEAN]      \* within fast_max_input_tokens

ASSUME KernelAssumption ==
    /\ Catalog \in Seq(Target)
    /\ TierOf \in [Target -> Tier]
    /\ \A i, j \in 1 .. Len(Catalog) :
          i < j => /\ Catalog[i] # Catalog[j]
                   /\ Rank(TierOf[Catalog[i]]) <= Rank(TierOf[Catalog[j]])
    /\ AttemptLimit \in Nat \ {0}
    /\ EscalationRequests \in Nat \ {0}

\* failures: consecutive_failures of the session, 0 without one.
AutoTier(q, failures) ==
    IF q.failed \/ failures >= EscalationRequests \/ q.deep THEN "deep"
    ELSE IF q.complex THEN "balanced"
    ELSE IF q.short THEN "fast" ELSE "balanced"

\* The elements of s at the positions in I, in their order.
Picked(s, I) ==
    LET upTo[i \in 0 .. Len(s)] ==
            IF i = 0 THEN <<>>
            ELSE IF i \in I THEN Append(upTo[i - 1], s[i]) ELSE upTo[i - 1]
    IN  upTo[Len(s)]

\* The capable targets in the order they are preferred; the automatic profile
\* goes from the desired tier upward.
Candidates(q, failures) ==
    IF q.automatic
    THEN Picked(Catalog,
                {i \in DOMAIN Catalog :
                    /\ Catalog[i] \in q.capable
                    /\ Rank(TierOf[Catalog[i]]) >= Rank(AutoTier(q, failures))})
    ELSE Picked(q.chain, {i \in DOMAIN q.chain : q.chain[i] \in q.capable})

\* The domain an eligible target would probe; None when both are healthy.
ProbeKey(t, view) ==
    CASE view[t].probe_scope = "provider" -> ProviderOf[t]
      [] view[t].probe_scope = "target" -> t
      [] view[t].probe_scope = None -> None

EligibleAt(targets, view) == {i \in DOMAIN targets : view[targets[i]].eligible}

\* Wrong form: a target in recovery waits for an idle moment.
AvailableHealthyOnly(targets, view) ==
    Picked(targets, {i \in EligibleAt(targets, view) : view[targets[i]].probe_scope = None})

\* The eligible targets, one for each domain in recovery: the first.
Available(targets, view) ==
    LET Key(i) == ProbeKey(targets[i], view)
    IN  Picked(targets,
               {i \in EligibleAt(targets, view) :
                   Key(i) # None => \A j \in EligibleAt(targets, view) : Key(j) = Key(i) => i <= j})

\* Stored response state is bound to the scope of the primary.
InScope(q, targets) ==
    IF q.stateful
    THEN Picked(targets, {i \in DOMAIN targets : ScopeOf[targets[i]] = ScopeOf[targets[1]]})
    ELSE targets

\* (primary, *fallbacks); empty when the kernel raises no_capable_model or
\* no_available_target.
PlannedTargets(q, failures, view) ==
    LET available == Available(Candidates(q, failures), view)
    IN  IF available = <<>> THEN <<>> ELSE InScope(q, available)

\* plan.targets
Bounded(targets) ==
    SubSeq(targets, 1, IF Len(targets) < AttemptLimit THEN Len(targets) ELSE AttemptLimit)
=============================================================================
