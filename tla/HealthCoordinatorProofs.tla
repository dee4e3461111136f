---------------------- MODULE HealthCoordinatorProofs ----------------------
(***************************************************************************)
(* Proofs about the health coordinator, for every set of providers and     *)
(* targets, every configuration and every bound.                           *)
(*                                                                         *)
(* SingleProbe is not inductive: that a second call cannot be admitted to  *)
(* a half-open domain rests on who holds the slot, on generations never    *)
(* falling behind a lease, and, for a target, on the probe of its provider.*)
(* IInv collects these facts.                                              *)
(*                                                                         *)
(* The two properties of what a step may never do to the records need      *)
(* besides that revision 0 shows healthy domains only (RevisionStarts),    *)
(* and hold while no backoff is about to overflow (NoOverflow): the        *)
(* overflow raises in the middle of a record.                              *)
(***************************************************************************)
EXTENDS HealthCoordinator, FiniteSetTheorems, TLAPS

\* Tokens of live leases are issued, and name their lease.
LeaseTokens ==
    /\ \A l \in leases : l.token < nextToken
    /\ \A l1, l2 \in leases : l1.token = l2.token => l1 = l2

\* Only a half-open domain holds a probe token, and the token is an issued one.
HeldTokens ==
    \A d \in Domain : dom[d].half_open_token # None =>
        /\ dom[d].state = "half_open"
        /\ dom[d].half_open_token \in Nat
        /\ dom[d].half_open_token < nextToken

\* A lease never runs ahead of its domains.
Generations ==
    \A l \in leases : \A d \in DomainsOf(l) :
        LeaseGeneration(l, d) <= dom[d].generation

\* A call that may still decide a suspended provider is its probe.
ProviderHolders ==
    \A p \in Provider : \A l \in Holders(p) : dom[p].state # "healthy" =>
        dom[p].state = "half_open" /\ l.token = dom[p].half_open_token

\* A call that may still decide a suspended target is its probe, or the probe of
\* its provider.
TargetHolders ==
    \A t \in Target : \A l \in Holders(t) : dom[t].state # "healthy" =>
        /\ dom[t].state # "blocked"
        /\ \/ l.token = dom[t].half_open_token
           \/ l.token = dom[ProviderOf[t]].half_open_token

\* No call may still decide a domain whose cooldown is running.
CooldownHolders ==
    \A d \in Domain : RetryAt(dom[d]) # None => Holders(d) = {}

IInv ==
    /\ TypeOK
    /\ LeaseTokens
    /\ HeldTokens
    /\ Generations
    /\ ProviderHolders
    /\ TargetHolders
    /\ CooldownHolders
    /\ SingleProbe

-----------------------------------------------------------------------------
(* What the helpers of record() do to one record.                           *)

\* What any outcome may do to a record: it frees the slot, and the state
\* changes only together with the generation.
Effect(r, q) ==
    /\ q \in DomainRecord
    /\ q.half_open_token = None
    /\ \/ q.generation = r.generation + 1
       \/ q.generation = r.generation /\ q.state = r.state

\* The domains of a target are two distinct domains.
LEMMA DomainFacts ==
    ASSUME NEW t \in Target
    PROVE  /\ t \in Domain
           /\ ProviderOf[t] \in Domain
           /\ ProviderOf[t] \in Provider
           /\ ProviderOf[t] # t
           /\ t \notin Provider
BY DomainAssumption DEF Domain

\* _cooldown_seconds() below the overflow level is a natural number.
LEMMA CooldownType ==
    ASSUME NEW r \in DomainRecord, NEW retryAfter \in Nat,
           r.backoff_level < OverflowLevel
    PROVE  CooldownSeconds(r, retryAfter) \in Nat
<1>1. r.backoff_level \in 0 .. OverflowLevel - 1
  BY ConfigAssumption DEF DomainRecord
<1>2. BaseCooldown * BackoffMultiplier ^ r.backoff_level \in Nat
  BY <1>1, ConfigAssumption
<1> QED
  BY <1>2, ConfigAssumption DEF CooldownSeconds

\* It is at least what the backoff asks for, and no more than the maximum.
LEMMA CooldownBounds ==
    ASSUME NEW r \in DomainRecord, NEW retryAfter \in Nat, NEW now \in Nat,
           r.backoff_level < OverflowLevel
    PROVE  now + CooldownSeconds(r, retryAfter) \in
              now + CooldownSeconds(r, 0) .. now + MaxCooldown
<1> DEFINE exponential == BaseCooldown * BackoffMultiplier ^ r.backoff_level
<1>1. r.backoff_level \in 0 .. OverflowLevel - 1
  BY ConfigAssumption DEF DomainRecord
<1>2. exponential \in Nat /\ MaxCooldown \in Nat
  BY <1>1, ConfigAssumption
<1>3. /\ CooldownSeconds(r, 0) = IF exponential <= MaxCooldown THEN exponential ELSE MaxCooldown
      /\ CooldownSeconds(r, retryAfter) =
            LET wanted == IF exponential >= retryAfter THEN exponential ELSE retryAfter
            IN  IF wanted <= MaxCooldown THEN wanted ELSE MaxCooldown
  BY <1>2 DEF CooldownSeconds
<1> HIDE DEF exponential
<1>4. /\ CooldownSeconds(r, 0) \in Nat /\ CooldownSeconds(r, retryAfter) \in Nat
      /\ CooldownSeconds(r, 0) <= CooldownSeconds(r, retryAfter)
      /\ CooldownSeconds(r, retryAfter) <= MaxCooldown
  BY <1>2, <1>3
<1> QED BY <1>2, <1>4

\* _reset()
LEMMA ResetEffect ==
    ASSUME NEW r \in DomainRecord
    PROVE  Effect(r, Reset(r))
BY DEF Effect, Reset, Dirty, FreshRecord, DomainRecord, HealthState

\* The bookkeeping of _transient_failure() before the threshold test.
LEMMA NotedEffect ==
    ASSUME NEW r \in DomainRecord, NEW l, clock \in Nat
    PROVE  Effect(r, Noted(r, l))
<1> DEFINE n == IF WindowExpired(r) THEN 1 ELSE r.consecutive_failures + 1
           w == IF WindowExpired(r) THEN clock ELSE r.window_started_at
           q == [r EXCEPT !.consecutive_failures = n]
<1>1. /\ CountFailure(r) \in DomainRecord
      /\ CountFailure(r).state = r.state
      /\ CountFailure(r).generation = r.generation
  <2>1. n \in Nat /\ w \in Nat \union {None}
    BY DEF DomainRecord
  <2>2. q \in DomainRecord /\ q.state = r.state /\ q.generation = r.generation
    <3> HIDE DEF n
    <3> QED
      BY <2>1 DEF DomainRecord
  <2>3. CountFailure(r) = [q EXCEPT !.window_started_at = w]
    BY DEF CountFailure
  <2> HIDE DEF q, w
  <2> QED
    BY <2>1, <2>2, <2>3 DEF DomainRecord
<1>2. PICK s \in DomainRecord :
        /\ Noted(r, l) = [s EXCEPT !.half_open_token = None]
        /\ s.state = r.state
        /\ s.generation = r.generation
  <2>1. CASE IsProbeOf(r, l)
    BY <2>1 DEF Noted
  <2>2. CASE ~IsProbeOf(r, l)
    BY <1>1, <2>2 DEF Noted
  <2> QED
    BY <2>1, <2>2
<1> QED
  BY <1>2 DEF Effect, DomainRecord

\* _transient_failure()
LEMMA TransientEffect ==
    ASSUME NEW r \in DomainRecord, NEW l, NEW retryAfter \in Nat, clock \in Nat
    PROVE  Effect(r, TransientFailure(r, l, retryAfter))
<1>1. CASE ~ThresholdReached(r, l) \/ Overflows(r, l)
  BY <1>1, NotedEffect DEF TransientFailure
<1>2. CASE ThresholdReached(r, l) /\ ~Overflows(r, l)
  <2>1. r.backoff_level < OverflowLevel
    BY <1>2, ConfigAssumption DEF Overflows, DomainRecord
  <2>2. clock + CooldownSeconds(r, retryAfter) \in Nat
    BY <2>1, CooldownType
  <2> QED
    BY <1>2, <2>2 DEF TransientFailure, Effect, NextGeneration, DomainRecord, HealthState
<1> QED
  BY <1>1, <1>2

\* _permanent_failure()
LEMMA PermanentEffect ==
    ASSUME NEW r \in DomainRecord
    PROVE  Effect(r, PermanentFailure(r))
BY DEF Effect, PermanentFailure, NextGeneration, DomainRecord, HealthState

\* The else branch of record()
LEMMA ReleaseEffect ==
    ASSUME NEW r \in DomainRecord
    PROVE  Effect(r, ReleaseProbe(r))
BY DEF Effect, ReleaseProbe, DomainRecord

-----------------------------------------------------------------------------
(* What a call of record() may do, whatever the outcome.                    *)

Recorded(l) ==
    /\ leases' = leases \ {l}
    /\ nextToken' = nextToken
    /\ clock' = clock
    /\ revision' \in Nat
    /\ dom' \in [Domain -> DomainRecord]
    /\ \A d \in Domain :
          dom'[d] = dom[d] \/ (Current(l, d) /\ Effect(dom[d], dom'[d]))

\* Generations never fall in a record(), so neither does the revision.
LEMMA RevisionStep ==
    ASSUME TypeOK, NEW l \in leases,
           dom' \in [Domain -> DomainRecord],
           \A d \in Domain : dom'[d] = dom[d] \/ Effect(dom[d], dom'[d])
    PROVE  revision + GenerationSteps(l) \in Nat
<1>1. l.target \in Domain /\ ProviderOf[l.target] \in Domain
  BY DomainFacts DEF TypeOK, Lease
<1>2. \A d \in Domain : dom'[d].generation - dom[d].generation \in Nat
  <2> TAKE d \in Domain
  <2>1. dom[d].generation \in Nat
    BY DEF TypeOK, DomainRecord
  <2>2. dom'[d].generation \in {dom[d].generation, dom[d].generation + 1}
    BY DEF Effect
  <2> QED
    BY <2>1, <2>2
<1> QED
  BY <1>1, <1>2 DEF GenerationSteps, TypeOK

LEMMA RecordSomeIsRecorded ==
    ASSUME TypeOK, NEW l \in leases, RecordSome(l)
    PROVE  Recorded(l)
<1>1. PICK class \in FailureClass, retryAfter \in Nat : Record(l, class, retryAfter)
  BY EnvironmentAssumption DEF RecordSome
<1>2. /\ leases' = leases \ {l} /\ nextToken' = nextToken /\ clock' = clock
  BY <1>1 DEF Record
<1>3. /\ dom \in [Domain -> DomainRecord] /\ clock \in Nat /\ l \in Lease
      /\ DomainsOf(l) \subseteq Domain
  BY DomainFacts DEF TypeOK, Lease, DomainsOf
<1>4. CASE RecordSuccess(l)
  <2>1. \A d \in Domain : dom'[d] = dom[d] \/ (Current(l, d) /\ dom'[d] = Reset(dom[d]))
    BY <1>4 DEF RecordSuccess
  <2>2. dom' \in [Domain -> DomainRecord]
    BY <1>3, <1>4, ResetEffect DEF RecordSuccess, Effect
  <2>3. \A d \in Domain : dom'[d] = dom[d] \/ (Current(l, d) /\ Effect(dom[d], dom'[d]))
    BY <1>3, <2>1, ResetEffect
  <2> QED
    BY <1>2, <1>4, <2>2, <2>3, RevisionStep DEF RecordSuccess, Recorded
<1>5. CASE RecordTransient(l, class, retryAfter)
  <2> DEFINE c == ChargedTo(l, class)
  <2>1. Current(l, c) /\ c \in Domain
    BY <1>3, <1>5 DEF RecordTransient, Charged, Current
  <2>2. dom' = [dom EXCEPT ![c] = TransientFailure(dom[c], l, retryAfter)]
    BY <1>5 DEF RecordTransient
  <2>3. Effect(dom[c], TransientFailure(dom[c], l, retryAfter))
    BY <1>3, <2>1, TransientEffect
  <2> HIDE DEF c
  <2>4. dom' \in [Domain -> DomainRecord]
    BY <1>3, <2>1, <2>2, <2>3 DEF Effect
  <2>5. \A d \in Domain : dom'[d] = dom[d] \/ (Current(l, d) /\ Effect(dom[d], dom'[d]))
    BY <1>3, <2>1, <2>2, <2>3
  <2> QED
    BY <1>2, <1>5, <2>4, <2>5, RevisionStep DEF RecordTransient, Recorded
<1>6. CASE RecordPermanent(l, class)
  <2> DEFINE c == ChargedTo(l, class)
  <2>1. Current(l, c) /\ c \in Domain
    BY <1>3, <1>6 DEF RecordPermanent, Charged, Current
  <2>2. dom' = [dom EXCEPT ![c] = PermanentFailure(dom[c])]
    BY <1>6 DEF RecordPermanent
  <2>3. Effect(dom[c], PermanentFailure(dom[c]))
    BY <1>3, <2>1, PermanentEffect
  <2> HIDE DEF c
  <2>4. dom' \in [Domain -> DomainRecord]
    BY <1>3, <2>1, <2>2, <2>3 DEF Effect
  <2>5. \A d \in Domain : dom'[d] = dom[d] \/ (Current(l, d) /\ Effect(dom[d], dom'[d]))
    BY <1>3, <2>1, <2>2, <2>3
  <2> QED
    BY <1>2, <1>6, <2>4, <2>5, RevisionStep DEF RecordPermanent, Recorded
<1>7. CASE RecordNeutral(l, class)
  <2>1. dom' \in [Domain -> DomainRecord]
    BY <1>3, <1>7, ReleaseEffect DEF RecordNeutral, Effect
  <2>2. \A d \in Domain : dom'[d] = dom[d] \/ (Current(l, d) /\ Effect(dom[d], dom'[d]))
    BY <1>3, <1>7, ReleaseEffect DEF RecordNeutral, HoldsProbe
  <2>3. revision' \in Nat
    <3>1. IsFiniteSet(DomainsOf(l))
      <4>1. IsFiniteSet({ProviderOf[l.target]})
        BY FS_Singleton
      <4>2. DomainsOf(l) = {ProviderOf[l.target]} \union {l.target}
        BY DEF DomainsOf
      <4> QED
        BY <4>1, <4>2, FS_AddElement
    <3>2. Cardinality({d \in DomainsOf(l) : HoldsProbe(l, d)}) \in Nat
      BY <3>1, FS_Subset, FS_CardinalityType
    <3> QED
      BY <1>7, <3>2 DEF RecordNeutral, TypeOK
  <2> QED
    BY <1>2, <2>1, <2>2, <2>3 DEF Recorded
<1> QED
  BY <1>1, <1>4, <1>5, <1>6, <1>7 DEF Record

-----------------------------------------------------------------------------
(* The inductive invariant.                                                 *)

\* record() preserves it.
LEMMA RecordedInv ==
    ASSUME IInv, NEW l \in leases, Recorded(l)
    PROVE  IInv'
<1> USE DEF Holders
<1>1. /\ TypeOK /\ LeaseTokens /\ HeldTokens /\ Generations
      /\ ProviderHolders /\ TargetHolders /\ CooldownHolders /\ SingleProbe
  BY DEF IInv
<1>2. /\ leases' = leases \ {l} /\ nextToken' = nextToken /\ clock' = clock
      /\ dom' \in [Domain -> DomainRecord] /\ revision' \in Nat
  BY DEF Recorded
<1>3. \A d \in Domain : dom'[d] = dom[d] \/ (Current(l, d) /\ Effect(dom[d], dom'[d]))
  BY DEF Recorded
<1>4. TypeOK'
  BY <1>1, <1>2 DEF TypeOK
<1>5. \A k \in leases : \A d \in DomainsOf(k) :
        /\ d \in Domain
        /\ LeaseGeneration(k, d) \in Nat
        /\ dom[d].generation \in Nat
        /\ dom'[d].generation \in {dom[d].generation, dom[d].generation + 1}
  BY <1>1, <1>3, DomainFacts
     DEF TypeOK, Lease, DomainsOf, LeaseGeneration, DomainRecord, Effect
\* After a change the domain is healthy, or nobody may decide it.
<1>6. \A d \in Domain : dom'[d] # dom[d] =>
        /\ dom'[d].half_open_token = None
        /\ dom'[d].state # "healthy" => Holders(d)' = {}
  <2> SUFFICES ASSUME NEW d \in Domain, dom'[d] # dom[d]
               PROVE  /\ dom'[d].half_open_token = None
                      /\ dom'[d].state # "healthy" => Holders(d)' = {}
    OBVIOUS
  <2>1. Current(l, d) /\ Effect(dom[d], dom'[d])
    BY <1>3
  <2>2. CASE dom'[d].generation = dom[d].generation + 1
    <3>1. \A k \in leases' : ~Current(k, d)'
      BY <1>1, <1>2, <1>5, <2>2 DEF Current, Generations, DomainsOf, LeaseGeneration
    <3> QED
      BY <2>1, <3>1 DEF Effect
  <2>3. CASE dom'[d].generation = dom[d].generation /\ dom'[d].state = dom[d].state
    <3>1. \A k \in leases' : Current(k, d)' => Current(k, d)
      BY <2>3 DEF Current, DomainsOf, LeaseGeneration
    <3>2. dom[d].state # "healthy" => \A k \in leases : Current(k, d) => k = l
      BY <1>1, <2>1 DEF SingleProbe
    <3> QED
      BY <1>2, <2>1, <2>3, <3>1, <3>2 DEF Effect
  <2> QED
    BY <2>1, <2>2, <2>3 DEF Effect
<1>7. \A d \in Domain : dom'[d] = dom[d] => Holders(d)' \subseteq Holders(d)
  BY <1>2 DEF Current, DomainsOf, LeaseGeneration
<1>8. LeaseTokens'
  BY <1>1, <1>2 DEF LeaseTokens
<1>9. HeldTokens'
  BY <1>1, <1>2, <1>6 DEF HeldTokens
<1>10. Generations'
  <2> SUFFICES ASSUME NEW k \in leases', NEW d \in DomainsOf(k)
               PROVE  LeaseGeneration(k, d) <= dom'[d].generation
    BY DEF Generations, DomainsOf, LeaseGeneration
  <2> QED
    BY <1>1, <1>2, <1>5 DEF Generations
<1>11. ProviderHolders'
  <2> SUFFICES ASSUME NEW p \in Provider, NEW k \in Holders(p)', dom'[p].state # "healthy"
               PROVE  dom'[p].state = "half_open" /\ k.token = dom'[p].half_open_token
    BY DEF ProviderHolders
  <2>1. p \in Domain
    BY DEF Domain
  <2> QED
    BY <1>1, <1>6, <1>7, <2>1 DEF ProviderHolders
<1>12. TargetHolders'
  <2> SUFFICES ASSUME NEW t \in Target, NEW k \in Holders(t)', dom'[t].state # "healthy"
               PROVE  /\ dom'[t].state # "blocked"
                      /\ \/ k.token = dom'[t].half_open_token
                         \/ k.token = dom'[ProviderOf[t]].half_open_token
    BY DEF TargetHolders
  <2> DEFINE p == ProviderOf[t]
  <2>1. t \in Domain /\ p \in Domain /\ p \in Provider
    BY DomainFacts
  <2>2. dom'[t] = dom[t]
    BY <1>6, <2>1
  <2>3. k \in Holders(t)
    BY <1>7, <2>1, <2>2
  <2>4. k \in leases /\ k # l /\ k.token # l.token /\ k.token # None
    BY <1>1, <1>2, <2>3, EnvironmentAssumption DEF LeaseTokens, TypeOK, Lease
  <2>5. CASE k.token = dom[t].half_open_token
    BY <1>1, <2>2, <2>3, <2>5 DEF TargetHolders
  <2>6. CASE k.token = dom[p].half_open_token
    <3>1. dom[p].state = "half_open"
      BY <1>1, <2>1, <2>4, <2>6 DEF HeldTokens
    <3>2. ~Current(l, p)
      BY <1>1, <2>1, <2>4, <2>6, <3>1 DEF ProviderHolders
    <3>3. dom'[p] = dom[p]
      BY <1>3, <2>1, <3>2
    <3> QED
      BY <1>1, <2>2, <2>3, <2>6, <3>3 DEF TargetHolders
  <2> QED
    BY <1>1, <2>2, <2>3, <2>5, <2>6 DEF TargetHolders
<1>13. CooldownHolders'
  <2> SUFFICES ASSUME NEW d \in Domain, RetryAt(dom[d])' # None
               PROVE  Holders(d)' = {}
    BY DEF CooldownHolders
  <2>1. CASE dom'[d] = dom[d]
    BY <1>1, <1>2, <1>7, <2>1 DEF CooldownHolders, RetryAt
  <2>2. CASE dom'[d] # dom[d]
    BY <1>6, <2>2 DEF RetryAt
  <2> QED
    BY <2>1, <2>2
<1>14. SingleProbe'
  BY <1>1, <1>6, <1>7 DEF SingleProbe
<1> QED
  BY <1>4, <1>8, <1>9, <1>10, <1>11, <1>12, <1>13, <1>14 DEF IInv

\* acquire(): what admission says of the two domains of the target.
LEMMA AdmittedDomains ==
    ASSUME IInv, NEW t \in Target, Admitted(t), NEW d \in {ProviderOf[t], t},
           dom[d].state # "healthy"
    PROVE  /\ dom[d].state \in {"half_open", "cooldown"}
           /\ EffectiveState(dom[d]) = "half_open"
           /\ dom[d].half_open_token = None
           /\ Holders(d) = {}
<1>1. d \in Domain /\ Admits(dom[d])
  BY DomainFacts DEF Admitted
<1>2. dom[d] \in DomainRecord
  BY <1>1 DEF IInv, TypeOK
<1>3. /\ dom[d].state \in {"half_open", "cooldown"}
      /\ EffectiveState(dom[d]) = "half_open"
      /\ dom[d].half_open_token = None
  BY <1>1, <1>2 DEF Admits, EffectiveState, DomainRecord, HealthState
<1>4. \A k \in Holders(d) : k.token # None
  BY EnvironmentAssumption DEF Holders, IInv, TypeOK, Lease
<1>5. CASE d = ProviderOf[t]
  BY <1>3, <1>4, <1>5, DomainFacts DEF IInv, ProviderHolders
<1>6. CASE d = t
  <2> DEFINE p == ProviderOf[t]
  <2>1. p \in Domain /\ Admits(dom[p]) /\ dom[p] \in DomainRecord
    BY DomainFacts DEF Admitted, IInv, TypeOK
  <2>2. dom[p].half_open_token = None
    BY <2>1 DEF IInv, HeldTokens, Admits, EffectiveState
  <2> QED
    BY <1>3, <1>4, <1>6, <2>2 DEF IInv, TargetHolders
<1> QED
  BY <1>3, <1>5, <1>6

LEMMA AcquireInv ==
    ASSUME IInv, NEW t \in Target, Acquire(t)
    PROVE  IInv'
<1> DEFINE p  == ProviderOf[t]
           pd == ProbeDomain(t)
           n  == NewLease(t)
<1>1. /\ TypeOK /\ LeaseTokens /\ HeldTokens /\ Generations
      /\ ProviderHolders /\ TargetHolders /\ CooldownHolders /\ SingleProbe
  BY DEF IInv
<1>2. /\ t \in Domain /\ p \in Domain /\ p \in Provider /\ p # t /\ t \notin Provider
  BY DomainFacts
<1>3. /\ Admitted(t) /\ leases' = leases \union {n} /\ nextToken' = nextToken + 1
      /\ clock' = clock
      /\ dom' = [d \in Domain |-> IF d = pd THEN StartProbe(dom[d], nextToken) ELSE dom[d]]
      /\ revision' \in {revision, revision + 1}
  BY DEF Acquire
<1>4. nextToken \in Nat \ {0} /\ revision \in Nat /\ clock \in Nat
      /\ dom \in [Domain -> DomainRecord] /\ leases \subseteq Lease
  BY <1>1 DEF TypeOK
<1>5. pd \in Domain => /\ pd \in {p, t}
                        /\ dom[pd].state # "healthy"
  BY EnvironmentAssumption DEF ProbeDomain, EffectiveState
<1>6. \A d \in Domain : d # pd => dom'[d] = dom[d]
  BY <1>3
<1>7. pd \in Domain =>
        /\ dom'[pd] \in DomainRecord
        /\ dom'[pd].state = "half_open"
        /\ dom'[pd].half_open_token = nextToken
        /\ dom'[pd].cooldown_until = None
        /\ \/ dom'[pd].generation = dom[pd].generation
           \/ dom'[pd].generation = dom[pd].generation + 1
  BY <1>3, <1>4 DEF StartProbe, NextGeneration, DomainRecord, HealthState
<1>8. TypeOK'
  <2>1. dom' \in [Domain -> DomainRecord]
    BY <1>3, <1>4, <1>6, <1>7
  <2>2. n \in Lease
    BY <1>2, <1>4, <2>1 DEF NewLease, Lease, DomainRecord
  <2> QED
    BY <1>3, <1>4, <2>1, <2>2 DEF TypeOK
<1>9. n.token = nextToken /\ n.target = t /\ DomainsOf(n) = {p, t}
      /\ n.provider_generation = dom'[p].generation
      /\ n.target_generation = dom'[t].generation
  BY DEF NewLease, DomainsOf
<1>10. \A d \in {p, t} : dom[d].state # "healthy" =>
         /\ dom[d].state \in {"half_open", "cooldown"}
         /\ EffectiveState(dom[d]) = "half_open"
         /\ dom[d].half_open_token = None
         /\ Holders(d) = {}
  BY <1>1, <1>3, AdmittedDomains
<1>11. \A k \in leases : \A d \in DomainsOf(k) :
         /\ d \in Domain
         /\ LeaseGeneration(k, d) \in Nat
         /\ LeaseGeneration(k, d) <= dom[d].generation
         /\ dom[d].generation \in Nat
         /\ dom'[d].generation \in {dom[d].generation, dom[d].generation + 1}
  BY <1>1, <1>4, <1>6, <1>7, DomainFacts
     DEF Generations, Lease, DomainsOf, LeaseGeneration, DomainRecord
<1>12. \A d \in Domain : Holders(d)' \subseteq Holders(d) \union {n}
  BY <1>3, <1>11 DEF Holders, Current, LeaseGeneration
<1>13. \A d \in Domain \ {p, t} : Holders(d)' \subseteq Holders(d)
  BY <1>9, <1>12 DEF Holders, Current
<1>14. \A d \in {p, t} : dom'[d].state # "healthy" => Holders(d)' \subseteq {n}
  BY <1>2, <1>5, <1>6, <1>10, <1>12
<1>15. LeaseTokens'
  BY <1>1, <1>3, <1>4, <1>9 DEF LeaseTokens, Lease
<1>16. HeldTokens'
  BY <1>1, <1>3, <1>4, <1>6, <1>7 DEF HeldTokens
<1>17. Generations'
  <2> SUFFICES ASSUME NEW k \in leases', NEW d \in DomainsOf(k)
               PROVE  LeaseGeneration(k, d) <= dom'[d].generation
    BY DEF Generations, DomainsOf, LeaseGeneration
  <2>1. CASE k \in leases
    BY <1>11, <2>1
  <2>2. CASE k = n
    <3>1. dom'[d].generation \in Nat
      BY <1>2, <1>8, <1>9, <2>2 DEF TypeOK, DomainRecord
    <3> QED
      BY <1>2, <1>9, <2>2, <3>1 DEF LeaseGeneration
  <2> QED
    BY <1>3, <2>1, <2>2
<1>18. ProviderHolders'
  <2> SUFFICES ASSUME NEW q \in Provider, NEW k \in Holders(q)', dom'[q].state # "healthy"
               PROVE  dom'[q].state = "half_open" /\ k.token = dom'[q].half_open_token
    BY DEF ProviderHolders
  <2>1. q \in Domain /\ q # t
    BY <1>2 DEF Domain
  <2>2. CASE q = p
    <3>1. dom[p].state # "healthy"
      BY <1>2, <1>5, <1>6, <2>2
    <3>2. pd = p
      BY <1>10, <3>1 DEF ProbeDomain
    <3> QED
      BY <1>2, <1>7, <1>9, <1>14, <2>2, <3>2
  <2>3. CASE q # p
    BY <1>1, <1>5, <1>6, <1>13, <2>1, <2>3 DEF ProviderHolders
  <2> QED
    BY <2>2, <2>3
<1>19. TargetHolders'
  <2> SUFFICES ASSUME NEW u \in Target, NEW k \in Holders(u)', dom'[u].state # "healthy"
               PROVE  /\ dom'[u].state # "blocked"
                      /\ \/ k.token = dom'[u].half_open_token
                         \/ k.token = dom'[ProviderOf[u]].half_open_token
    BY DEF TargetHolders
  <2>1. u \in Domain /\ ProviderOf[u] \in Domain /\ ProviderOf[u] # t /\ u # p
    BY <1>2, DomainFacts
  <2>2. CASE u = t
    <3>1. dom[t].state # "healthy"
      BY <1>2, <1>5, <1>6, <2>2
    <3>2. k = n /\ dom[t].state # "blocked"
      BY <1>10, <1>14, <2>2, <3>1
    <3>3. pd \in {p, t}
      BY <1>10, <3>1 DEF ProbeDomain
    <3> QED
      BY <1>2, <1>6, <1>7, <1>9, <2>2, <3>2, <3>3
  <2>3. CASE u # t
    <3>1. dom'[u] = dom[u] /\ k \in Holders(u)
      BY <1>5, <1>6, <1>13, <2>1, <2>3
    <3>2. k.token # None
      BY <1>4, <3>1, EnvironmentAssumption DEF Holders, Lease
    <3>3. CASE k.token = dom[ProviderOf[u]].half_open_token
      <4>1. ProviderOf[u] # pd
        BY <1>5, <1>10, <2>1, <3>2, <3>3
      <4> QED
        BY <1>1, <1>6, <2>1, <3>1, <3>3, <4>1 DEF TargetHolders
    <3> QED
      BY <1>1, <3>1, <3>3 DEF TargetHolders
  <2> QED
    BY <2>2, <2>3
<1>20. CooldownHolders'
  <2> SUFFICES ASSUME NEW d \in Domain, RetryAt(dom[d])' # None
               PROVE  Holders(d)' = {}
    BY DEF CooldownHolders
  <2>1. d # pd /\ dom'[d] = dom[d]
    BY <1>6, <1>7 DEF RetryAt
  <2>2. RetryAt(dom[d]) # None
    BY <1>3, <2>1 DEF RetryAt
  <2>3. d \notin {p, t}
    BY <1>4, <1>10, <2>2 DEF RetryAt, EffectiveState, DomainRecord
  <2> QED
    BY <1>1, <1>13, <2>2, <2>3 DEF CooldownHolders
<1>21. SingleProbe'
  <2> SUFFICES ASSUME NEW d \in Domain, dom'[d].state # "healthy",
                      NEW k1 \in Holders(d)', NEW k2 \in Holders(d)'
               PROVE  k1 = k2
    BY DEF SingleProbe
  <2>1. CASE d \in {p, t}
    BY <1>14, <2>1
  <2>2. CASE d \notin {p, t}
    BY <1>1, <1>5, <1>6, <1>13, <2>2 DEF SingleProbe
  <2> QED
    BY <2>1, <2>2
<1> QED
  BY <1>8, <1>15, <1>16, <1>17, <1>18, <1>19, <1>20, <1>21 DEF IInv

LEMMA TickInv ==
    ASSUME IInv, Tick
    PROVE  IInv'
<1>1. /\ dom' = dom /\ leases' = leases /\ nextToken' = nextToken /\ revision' = revision
      /\ clock' = clock + 1 /\ clock \in Nat
  BY DEF Tick, IInv, TypeOK
<1>2. TypeOK'
  BY <1>1 DEF IInv, TypeOK
<1>3. \A d : Holders(d)' = Holders(d)
  BY <1>1 DEF Holders, Current
<1>4. \A d \in Domain : RetryAt(dom[d])' # None => RetryAt(dom[d]) # None
  <2> SUFFICES ASSUME NEW d \in Domain, RetryAt(dom[d])' # None
               PROVE  RetryAt(dom[d]) # None
    OBVIOUS
  <2>1. dom[d].cooldown_until \in Nat \union {None}
    BY DEF IInv, TypeOK, DomainRecord
  <2> QED
    BY <1>1, <2>1 DEF RetryAt
<1>5. /\ LeaseTokens' /\ HeldTokens' /\ Generations'
  BY <1>1 DEF IInv, LeaseTokens, HeldTokens, Generations
<1>6. ProviderHolders' /\ TargetHolders' /\ CooldownHolders' /\ SingleProbe'
  BY <1>1, <1>3, <1>4
     DEF IInv, ProviderHolders, TargetHolders, CooldownHolders, SingleProbe
<1> QED
  BY <1>2, <1>5, <1>6 DEF IInv

\* A state with fresh records and no leases satisfies the invariant.
LEMMA FreshInv ==
    ASSUME dom = [d \in Domain |-> FreshRecord], leases = {},
           nextToken = 1, revision = 0, clock \in Nat
    PROVE  IInv
<1>1. FreshRecord \in DomainRecord
  BY DEF FreshRecord, DomainRecord, HealthState
<1>2. TypeOK
  BY <1>1 DEF TypeOK
<1>3. \A d \in Domain : dom[d] = FreshRecord
  OBVIOUS
<1>4. HeldTokens /\ LeaseTokens /\ Generations
  BY <1>3 DEF HeldTokens, LeaseTokens, Generations, FreshRecord
<1>5. ProviderHolders /\ TargetHolders /\ CooldownHolders /\ SingleProbe
  BY DEF ProviderHolders, TargetHolders, CooldownHolders, SingleProbe, Holders
<1> QED
  BY <1>2, <1>4, <1>5 DEF IInv

LEMMA RestartInv ==
    ASSUME IInv, Restart
    PROVE  IInv'
<1>1. FreshRecord \in DomainRecord
  BY DEF FreshRecord, DomainRecord, HealthState
<1>2. /\ dom' = [d \in Domain |-> FreshRecord] /\ leases' = {}
      /\ nextToken' = 1 /\ revision' = 0 /\ clock' = clock /\ clock \in Nat
  BY DEF Restart, IInv, TypeOK
<1>3. TypeOK'
  BY <1>1, <1>2 DEF TypeOK
<1>4. (HeldTokens /\ LeaseTokens /\ Generations)'
  BY <1>2 DEF HeldTokens, LeaseTokens, Generations, FreshRecord
<1>5. (ProviderHolders /\ TargetHolders /\ CooldownHolders /\ SingleProbe)'
  BY <1>2 DEF ProviderHolders, TargetHolders, CooldownHolders, SingleProbe, Holders
<1> QED
  BY <1>3, <1>4, <1>5 DEF IInv

LEMMA NextInv == IInv /\ [Next]_vars => IInv'
<1> SUFFICES ASSUME IInv, [Next]_vars
             PROVE  IInv'
  OBVIOUS
<1>1. CASE \E t \in Target : Acquire(t)
  BY <1>1, AcquireInv
<1>2. CASE \E l \in leases : RecordSome(l)
  BY <1>2, RecordSomeIsRecorded, RecordedInv DEF IInv
<1>3. CASE Tick
  BY <1>3, TickInv
<1>4. CASE Restart
  BY <1>4, RestartInv
<1>5. CASE UNCHANGED vars
  BY <1>5 DEF vars, IInv, TypeOK, LeaseTokens, HeldTokens, Generations, ProviderHolders,
     TargetHolders, CooldownHolders, SingleProbe, Holders, Current, RetryAt
<1> QED
  BY <1>1, <1>2, <1>3, <1>4, <1>5 DEF Next

-----------------------------------------------------------------------------
(* Theorems.                                                                *)

\* The inductive invariant holds in every reachable state of the coordinator.
THEOREM Invariance == Spec => []IInv
<1>1. Init => IInv
  BY FreshInv DEF Init
<1> QED
  BY <1>1, NextInv, PTL DEF Spec

\* The records, leases and counters of coordinator.py keep their types.
THEOREM TypeCorrect == Spec => []TypeOK
<1>1. IInv => TypeOK
  BY DEF IInv
<1> QED
  BY <1>1, Invariance, PTL

\* acquire() and record() together never let two live calls decide one
\* suspended domain.
THEOREM SingleProbeHolds == Spec => []SingleProbe
<1>1. IInv => SingleProbe
  BY DEF IInv
<1> QED
  BY <1>1, Invariance, PTL

\* _availability() offers exactly the targets acquire() would admit.
THEOREM SnapshotAgrees == Spec => []SnapshotAgreesWithAdmission
<1>1. IInv => SnapshotAgreesWithAdmission
  <2> SUFFICES ASSUME IInv, NEW t \in Target
               PROVE  Availability(t).eligible <=> Admitted(t)
    BY DEF SnapshotAgreesWithAdmission
  <2> DEFINE p == dom[ProviderOf[t]]
             m == dom[t]
  <2>1. p \in DomainRecord /\ m \in DomainRecord
    BY DomainFacts DEF IInv, TypeOK
  <2>2. Admits(p) <=> EffectiveState(p) # "blocked" /\ ~Suppressed(p)
    BY DEF Admits, Suppressed
  <2>3. Admits(m) <=> EffectiveState(m) # "blocked" /\ ~Suppressed(m)
    BY DEF Admits, Suppressed
  <2>4. Availability(t).eligible <=>
          /\ EffectiveState(p) # "blocked" /\ ~Suppressed(p)
          /\ EffectiveState(m) # "blocked" /\ ~Suppressed(m)
    <3> HIDE DEF p, m
    <3>1. CASE EffectiveState(p) = "blocked" \/ Suppressed(p)
      BY <3>1 DEF Availability, p, m
    <3>2. CASE EffectiveState(p) # "blocked" /\ ~Suppressed(p)
      BY <3>2 DEF Availability, p, m
    <3> QED
      BY <3>1, <3>2
  <2> QED
    BY <2>2, <2>3, <2>4 DEF Admitted
<1> QED
  BY <1>1, Invariance, PTL

\* An outcome that changes a domain comes from a call that still may decide it.
LEMMA ChangedByHolder ==
    ASSUME IInv, Next, ~Restart, NEW d \in Domain, dom'[d] # dom[d]
    PROVE  \/ \E l \in Holders(d) : leases' = leases \ {l}
           \/ /\ EffectiveState(dom[d]) = "half_open"
              /\ dom[d].half_open_token = None
<1>1. CASE \E t \in Target : Acquire(t)
  <2>1. PICK t \in Target : Acquire(t)
    BY <1>1
  <2>2. d = ProbeDomain(t) /\ Admitted(t)
    BY <2>1 DEF Acquire
  <2>3. d \in {ProviderOf[t], t} /\ EffectiveState(dom[d]) = "half_open"
    BY <2>2, EnvironmentAssumption DEF ProbeDomain
  <2> QED
    BY <2>2, <2>3 DEF Admitted, Admits
<1>2. CASE \E l \in leases : RecordSome(l)
  BY <1>2, RecordSomeIsRecorded DEF IInv, Recorded, Holders
<1>3. CASE Tick
  BY <1>3 DEF Tick
<1> QED
  BY <1>1, <1>2, <1>3 DEF Next

\* record() drops the outcomes of an older generation, so nothing ends or
\* prolongs a running cooldown or a block but time and the end of the process.
THEOREM SuspensionIsServed == Spec => SuspensionServed
<1>1. IInv /\ [Next]_vars =>
        [nextToken' # 1 =>
           \A d \in Domain :
              RetryAt(dom[d]) # None \/ dom[d].state = "blocked" => dom'[d] = dom[d]]_vars
  <2> SUFFICES ASSUME IInv, Next, nextToken' # 1, NEW d \in Domain,
                      RetryAt(dom[d]) # None \/ dom[d].state = "blocked",
                      dom'[d] # dom[d]
               PROVE  FALSE
    BY DEF vars
  <2>1. dom[d] \in DomainRecord /\ clock \in Nat
    BY DEF IInv, TypeOK
  <2>2. EffectiveState(dom[d]) # "half_open"
    BY <2>1 DEF RetryAt, EffectiveState, DomainRecord
  <2>3. Holders(d) = {}
    BY DEF Domain, IInv, CooldownHolders, ProviderHolders, TargetHolders
  <2>4. ~Restart
    BY DEF Restart
  <2> QED
    BY <2>2, <2>3, <2>4, ChangedByHolder
<1> QED
  BY <1>1, Invariance, PTL DEF Spec, SuspensionServed

\* While a probe is in flight only its own outcome moves the domain it probes.
THEOREM ProbeDecidesAlone == Spec => ProbeDecides
<1>1. IInv /\ [Next]_vars =>
        [\A d \in Domain, l \in leases :
            HoldsProbe(l, d) /\ l \in leases' => dom'[d] = dom[d]]_vars
  <2> SUFFICES ASSUME IInv, Next, NEW d \in Domain, NEW l \in leases,
                      HoldsProbe(l, d), l \in leases', dom'[d] # dom[d]
               PROVE  FALSE
    BY DEF vars
  <2>1. ~Restart
    BY DEF Restart
  <2>2. l \in Holders(d) /\ dom[d].half_open_token # None
    BY EnvironmentAssumption DEF HoldsProbe, Holders, IInv, TypeOK, Lease
  <2>3. dom[d].state = "half_open"
    BY <2>2 DEF IInv, HeldTokens
  <2>4. Holders(d) = {l}
    BY <2>2, <2>3 DEF IInv, SingleProbe
  <2> QED
    BY <2>1, <2>2, <2>4, ChangedByHolder
<1> QED
  BY <1>1, Invariance, PTL DEF Spec, ProbeDecides

-----------------------------------------------------------------------------
(* Revisions.                                                               *)

\* No domain has failed so often that the power of its backoff overflows.
NoOverflow == \A d \in Domain : dom[d].backoff_level < OverflowLevel

\* Nothing a router can see has happened before the first revision.
RevisionStarts == revision = 0 => \A d \in Domain : dom[d].state = "healthy"

LEMMA LeaseDomains ==
    ASSUME IInv, NEW l \in leases
    PROVE  /\ l \in Lease /\ l.token \in Nat /\ l.token # None
           /\ l.target \in Target /\ ProviderOf[l.target] \in Provider
           /\ DomainsOf(l) \subseteq Domain
           /\ IsFiniteSet(DomainsOf(l))
<1>1. l \in Lease /\ l.token \in Nat /\ l.token # None /\ l.target \in Target
  BY EnvironmentAssumption DEF IInv, TypeOK, Lease
<1>2. IsFiniteSet({ProviderOf[l.target]})
  BY FS_Singleton
<1>3. DomainsOf(l) = {ProviderOf[l.target]} \union {l.target}
  BY DEF DomainsOf
<1>4. IsFiniteSet(DomainsOf(l))
  BY <1>2, <1>3, FS_AddElement
<1> QED BY <1>1, <1>4, DomainFacts DEF DomainsOf

\* The revision moves with every state of a domain.
LEMMA RecordMoves ==
    ASSUME IInv, NEW l \in leases, NEW class \in FailureClass, NEW retryAfter \in Nat,
           Record(l, class, retryAfter), Recorded(l)
    PROVE  /\ revision' >= revision
           /\ revision' = revision => \A d \in Domain : /\ dom'[d].state = dom[d].state
                                                        /\ dom'[d].generation = dom[d].generation
<1> DEFINE p == ProviderOf[l.target]
           t == l.target
           Step(d) == dom'[d].generation - dom[d].generation
<1>1. /\ p \in Domain /\ t \in Domain /\ DomainsOf(l) = {p, t} /\ DomainsOf(l) \subseteq Domain
      /\ IsFiniteSet(DomainsOf(l))
  BY LeaseDomains DEF DomainsOf, Domain
<1>2. /\ revision \in Nat
      /\ \A d \in Domain : dom[d].generation \in Nat /\ dom'[d].generation \in Nat
  BY DEF IInv, TypeOK, Recorded, DomainRecord
<1>3. ASSUME NEW d \in Domain
      PROVE  \/ dom'[d] = dom[d]
             \/ d \in {p, t} /\ dom'[d].generation = dom[d].generation + 1
             \/ d \in {p, t} /\ dom'[d].generation = dom[d].generation /\ dom'[d].state = dom[d].state
  BY <1>1 DEF Recorded, Effect, Current
<1> HIDE DEF p, t
<1>4. CASE revision' = revision + GenerationSteps(l)
  <2>1. GenerationSteps(l) = Step(p) + Step(t)
    BY DEF GenerationSteps, p, t
  <2>2. Step(p) \in {0, 1} /\ Step(t) \in {0, 1}
    BY <1>1, <1>2, <1>3
  <2> HIDE DEF Step
  <2>3. revision' >= revision /\ (revision' = revision => Step(p) = 0 /\ Step(t) = 0)
    BY <1>2, <1>4, <2>1, <2>2
  <2>4. ASSUME Step(p) = 0, Step(t) = 0, NEW d \in Domain
        PROVE  dom'[d].state = dom[d].state /\ dom'[d].generation = dom[d].generation
    <3>1. d \in {p, t} => dom'[d].generation - dom[d].generation = 0
      BY <2>4 DEF Step
    <3>2. d \in {p, t} => dom'[d].generation # dom[d].generation + 1
      BY <1>2, <3>1
    <3> QED BY <1>3, <3>2
  <2> QED BY <2>3, <2>4
<1>5. CASE RecordNeutral(l, class)
  <2> DEFINE held == {d \in DomainsOf(l) : HoldsProbe(l, d)}
  <2>1. held \in SUBSET DomainsOf(l)
    OBVIOUS
  <2>2. Cardinality(held) \in Nat
    BY <1>1, <2>1, FS_Subset, FS_CardinalityType
  <2>3. revision' = revision + Cardinality(held)
    BY <1>5 DEF RecordNeutral
  <2> HIDE DEF held
  <2>4. revision' >= revision
    BY <1>2, <2>2, <2>3
  <2>5. \A d \in Domain : dom[d] \in DomainRecord
    BY DEF IInv, TypeOK
  <2>6. \A d \in Domain : dom'[d] = dom[d] \/ dom'[d] = ReleaseProbe(dom[d])
    BY <1>5 DEF RecordNeutral
  <2>7. \A d \in Domain : dom'[d].state = dom[d].state /\ dom'[d].generation = dom[d].generation
    BY <2>5, <2>6 DEF ReleaseProbe, DomainRecord
  <2> QED BY <2>4, <2>7
<1> QED BY <1>4, <1>5 DEF Record, RecordSuccess, RecordTransient, RecordPermanent

LEMMA RevisionStartsKept ==
    ASSUME IInv, RevisionStarts, [Next]_vars
    PROVE  RevisionStarts'
<1>1. revision \in Nat
  BY DEF IInv, TypeOK
<1>2. CASE \E t \in Target : Acquire(t)
  <2>1. PICK t \in Target : Acquire(t)
    BY <1>2
  <2>2. CASE ProbeDomain(t) # None
    <3>1. revision' # 0
      BY <1>1, <2>1, <2>2 DEF Acquire
    <3> QED BY <3>1 DEF RevisionStarts
  <2>3. CASE ProbeDomain(t) = None
    <3>1. revision' = revision /\ \A d \in Domain : dom'[d] = dom[d]
      BY <2>1, <2>3, EnvironmentAssumption DEF Acquire
    <3> QED BY <3>1 DEF RevisionStarts
  <2> QED BY <2>2, <2>3
<1>3. CASE \E l \in leases : RecordSome(l)
  <2>1. PICK l \in leases : RecordSome(l)
    BY <1>3
  <2>2. PICK class \in FailureClass, retryAfter \in Nat : Record(l, class, retryAfter)
    BY <2>1, EnvironmentAssumption DEF RecordSome
  <2>3. Recorded(l)
    BY <2>1, RecordSomeIsRecorded DEF IInv
  <2>4. /\ revision' >= revision
        /\ revision' = revision => \A d \in Domain : dom'[d].state = dom[d].state
    BY <2>2, <2>3, RecordMoves
  <2>5. revision' \in Nat
    BY <2>3 DEF Recorded
  <2>6. revision' = 0 => revision = 0
    BY <1>1, <2>4, <2>5
  <2> QED BY <2>4, <2>6 DEF RevisionStarts
<1>4. CASE Tick \/ UNCHANGED vars
  BY <1>4 DEF Tick, vars, RevisionStarts
<1>5. CASE Restart
  BY <1>5 DEF Restart, RevisionStarts, FreshRecord
<1> QED BY <1>2, <1>3, <1>4, <1>5 DEF Next

\* What the router sees of a domain stays.
SameView(d) ==
    /\ dom'[d].state = dom[d].state
    /\ dom'[d].state = "cooldown" => dom'[d].cooldown_until = dom[d].cooldown_until
    /\ dom'[d].half_open_token = dom[d].half_open_token

\* The provider hides its targets, before the step and after.
Hidden(p) == dom'[p] = dom[p] /\ EffectiveState(dom[p]) # "blocked" /\ Suppressed(dom[p])

LEMMA SnapshotStays ==
    ASSUME clock' = clock,
           \A t \in Target : \/ SameView(ProviderOf[t]) /\ SameView(t)
                             \/ Hidden(ProviderOf[t])
    PROVE  Snapshot' = Snapshot
<1>1. ASSUME NEW d, SameView(d)
      PROVE  /\ EffectiveState(dom[d])' = EffectiveState(dom[d])
             /\ Suppressed(dom[d])' <=> Suppressed(dom[d])
             /\ RetryAt(dom[d])' = RetryAt(dom[d])
  BY <1>1 DEF SameView, EffectiveState, Suppressed, RetryAt
<1>2. ASSUME NEW t \in Target PROVE Availability(t)' = Availability(t)
  <2> DEFINE p == dom[ProviderOf[t]]
             m == dom[t]
  <2>1. CASE SameView(ProviderOf[t]) /\ SameView(t)
    <3>1. /\ EffectiveState(p)' = EffectiveState(p) /\ (Suppressed(p)' <=> Suppressed(p))
          /\ RetryAt(p)' = RetryAt(p)
          /\ EffectiveState(m)' = EffectiveState(m) /\ (Suppressed(m)' <=> Suppressed(m))
          /\ RetryAt(m)' = RetryAt(m)
      BY <1>1, <2>1
    <3> QED BY <3>1 DEF Availability
  <2>2. CASE Hidden(ProviderOf[t])
    <3>1. p' = p
      BY <2>2 DEF Hidden
    <3>2. /\ EffectiveState(p)' = EffectiveState(p) /\ (Suppressed(p)' <=> Suppressed(p))
          /\ RetryAt(p)' = RetryAt(p)
      BY <3>1 DEF EffectiveState, Suppressed, RetryAt
    <3>3. EffectiveState(p) # "blocked" /\ Suppressed(p)
      BY <2>2 DEF Hidden
    <3> QED BY <3>2, <3>3 DEF Availability
  <2> QED BY <2>1, <2>2
<1> QED BY <1>2 DEF Snapshot


\* A failed probe suspends its domain.
LEMMA ProbeFails ==
    ASSUME IInv, NoOverflow, NEW d \in Domain, NEW l \in leases,
           dom[d].half_open_token = l.token, NEW retryAfter \in Nat
    PROVE  /\ dom[d].state = "half_open"
           /\ TransientFailure(dom[d], l, retryAfter).state = "cooldown"
           /\ TransientFailure(dom[d], l, retryAfter).cooldown_until \in
                 clock + CooldownSeconds(dom[d], 0) .. clock + MaxCooldown
<1>1. dom[d].state = "half_open"
  BY LeaseDomains DEF IInv, HeldTokens
<1>2. ThresholdReached(dom[d], l)
  BY <1>1 DEF ThresholdReached, IsProbeOf
<1>3. dom[d].backoff_level \in Nat /\ OverflowLevel \in Nat /\ dom[d].backoff_level < OverflowLevel
  BY ConfigAssumption DEF IInv, TypeOK, DomainRecord, NoOverflow
<1>4. ~Overflows(dom[d], l)
  BY <1>3 DEF Overflows
<1>5. clock + CooldownSeconds(dom[d], retryAfter) \in
         clock + CooldownSeconds(dom[d], 0) .. clock + MaxCooldown
  BY <1>3, CooldownBounds DEF IInv, TypeOK
<1> QED BY <1>1, <1>2, <1>4, <1>5 DEF TransientFailure

\* A domain that is not suspended shows nothing of the failures counted on it.
LEMMA HealthyView ==
    ASSUME IInv, NEW d \in Domain, dom[d].state = "healthy",
           dom'[d].state = "healthy", dom'[d].half_open_token = None
    PROVE  SameView(d)
<1>1. dom[d].half_open_token = None
  BY DEF IInv, HeldTokens
<1> QED BY <1>1 DEF SameView

\* An outcome that leaves the revision alone changes nothing that shows.
LEMMA RecordView ==
    ASSUME IInv, NoOverflow, NEW l \in leases, NEW class \in FailureClass,
           NEW retryAfter \in Nat, Record(l, class, retryAfter), Recorded(l), revision' = revision
    PROVE  \/ \A d \in Domain : SameView(d)
           \/ Hidden(ProviderOf[l.target]) /\ \A d \in Domain \ {l.target} : SameView(d)
<1>1. \A d \in Domain : /\ dom'[d].state = dom[d].state
                        /\ dom'[d].generation = dom[d].generation
  BY RecordMoves
<1>2. \A d : dom'[d] = dom[d] => SameView(d)
  BY DEF SameView
<1>3. \A d \in Domain : dom[d] \in DomainRecord /\ dom[d].generation \in Nat
  BY DEF IInv, TypeOK, DomainRecord
<1>4. CASE RecordSuccess(l)
  <2>1. ASSUME NEW d \in Domain, Current(l, d) PROVE SameView(d)
    <3>1. dom'[d] = Reset(dom[d])
      BY <1>4, <2>1 DEF RecordSuccess
    <3>2. dom'[d].state = "healthy" /\ dom'[d].half_open_token = None
      BY <3>1 DEF Reset, FreshRecord
    <3> QED BY <1>1, <3>2, HealthyView
  <2>2. ASSUME NEW d \in Domain, ~Current(l, d) PROVE SameView(d)
    BY <1>2, <1>4, <2>2 DEF RecordSuccess
  <2> QED BY <2>1, <2>2
<1>5. CASE RecordTransient(l, class, retryAfter)
  <2> DEFINE c == ChargedTo(l, class)
             p == ProviderOf[l.target]
  <2>1. Current(l, c) /\ c \in {p, l.target} /\ c \in Domain /\ l \in Holders(c)
    BY <1>5, LeaseDomains DEF RecordTransient, Charged, Current, DomainsOf, Holders
  <2>2. dom' = [dom EXCEPT ![c] = TransientFailure(dom[c], l, retryAfter)]
    BY <1>5 DEF RecordTransient
  <2>3. p \in Provider /\ p \in Domain /\ l.target \in Target /\ p # l.target
    BY LeaseDomains, DomainFacts
  <2> HIDE DEF c, p
  <2>4. dom \in [Domain -> DomainRecord]
    BY DEF IInv, TypeOK
  <2>5. dom'[c] = TransientFailure(dom[c], l, retryAfter)
    BY <2>1, <2>2, <2>4
  <2>6. \A d \in Domain \ {c} : dom'[d] = dom[d] /\ SameView(d)
    BY <1>2, <2>2, <2>4
  <2>7. dom'[c].half_open_token = None
    BY <1>3, <2>1, <2>5, TransientEffect DEF IInv, TypeOK, Effect
  <2>8. dom[c].half_open_token # l.token
    <3> SUFFICES ASSUME dom[c].half_open_token = l.token PROVE FALSE
      OBVIOUS
    <3>1. dom[c].state = "half_open" /\ dom'[c].state = "cooldown"
      BY <2>1, <2>5, ProbeFails
    <3> QED BY <1>1, <2>1, <3>1
  <2>9. CASE dom[c].state = "healthy"
    <3>1. SameView(c)
      BY <1>1, <2>1, <2>7, <2>9, HealthyView
    <3> QED BY <2>6, <3>1
  <2>10. CASE dom[c].state # "healthy"
    <3>1. c \notin Provider
      BY <2>1, <2>8, <2>10 DEF IInv, ProviderHolders
    <3>2. c = l.target
      BY <2>1, <2>3, <3>1
    <3>3. dom[p].half_open_token = l.token
      BY <2>1, <2>3, <2>8, <2>10, <3>2 DEF IInv, TargetHolders, p
    <3>4. dom[p].state = "half_open" /\ dom[p].half_open_token # None
      BY <2>3, <3>3, LeaseDomains DEF IInv, HeldTokens
    <3>5. dom'[p] = dom[p]
      BY <2>3, <2>6, <3>2
    <3>6. Hidden(p)
      BY <3>4, <3>5 DEF Hidden, Suppressed, EffectiveState
    <3> QED BY <2>6, <3>2, <3>6 DEF p
  <2> QED BY <2>9, <2>10
<1>6. CASE RecordPermanent(l, class)
  <2> DEFINE c == ChargedTo(l, class)
  <2>1. c \in Domain /\ l \in Holders(c)
    BY <1>6, LeaseDomains DEF RecordPermanent, Charged, Current, Holders
  <2>2. dom' = [dom EXCEPT ![c] = PermanentFailure(dom[c])]
    BY <1>6 DEF RecordPermanent
  <2> HIDE DEF c
  <2>3. dom'[c].state = "blocked"
    BY <2>1, <2>2 DEF IInv, TypeOK, PermanentFailure
  <2>4. dom[c].state = "blocked"
    BY <1>1, <2>1, <2>3
  <2> QED BY <2>1, <2>4 DEF IInv, ProviderHolders, TargetHolders, Domain
<1>7. CASE RecordNeutral(l, class)
  <2> DEFINE held == {d \in DomainsOf(l) : HoldsProbe(l, d)}
  <2>1. held \in SUBSET DomainsOf(l)
    OBVIOUS
  <2>2. IsFiniteSet(held) /\ Cardinality(held) \in Nat
    BY <2>1, LeaseDomains, FS_Subset, FS_CardinalityType
  <2>3. revision \in Nat /\ revision' = revision + Cardinality(held)
    BY <1>7 DEF RecordNeutral, IInv, TypeOK
  <2>4. Cardinality(held) = 0
    BY <2>2, <2>3
  <2>5. held = {}
    <3> HIDE DEF held
    <3> QED BY <2>2, <2>4, FS_EmptySet
  <2>6. ASSUME NEW d \in Domain PROVE dom'[d] = dom[d]
    <3>1. ~HoldsProbe(l, d)
      BY <2>5 DEF HoldsProbe, Current
    <3> QED BY <1>7, <3>1 DEF RecordNeutral
  <2> QED BY <1>2, <2>6
<1> QED BY <1>4, <1>5, <1>6, <1>7 DEF Record

LEMMA StepView ==
    ASSUME IInv, RevisionStarts, NoOverflow, Next, clock' = clock, revision' = revision
    PROVE  Snapshot' = Snapshot
<1>1. \A t \in Target : t \in Domain /\ ProviderOf[t] \in Domain
  BY DomainFacts
<1>2. ASSUME \A d \in Domain : SameView(d) PROVE Snapshot' = Snapshot
  BY <1>1, <1>2, SnapshotStays
<1>3. CASE \E t \in Target : Acquire(t)
  <2>1. PICK t \in Target : Acquire(t)
    BY <1>3
  <2>2. ProbeDomain(t) = None
    <3>1. revision \in Nat
      BY DEF IInv, TypeOK
    <3> QED BY <2>1, <3>1 DEF Acquire
  <2>3. \A d \in Domain : dom'[d] = dom[d]
    BY <2>1, <2>2, EnvironmentAssumption DEF Acquire
  <2> QED BY <1>2, <2>3 DEF SameView
<1>4. CASE \E l \in leases : RecordSome(l)
  <2>1. PICK l \in leases : RecordSome(l)
    BY <1>4
  <2>2. PICK class \in FailureClass, retryAfter \in Nat : Record(l, class, retryAfter)
    BY <2>1, EnvironmentAssumption DEF RecordSome
  <2>3. Recorded(l)
    BY <2>1, RecordSomeIsRecorded DEF IInv
  <2>4. \/ \A d \in Domain : SameView(d)
        \/ Hidden(ProviderOf[l.target]) /\ \A d \in Domain \ {l.target} : SameView(d)
    BY <2>2, <2>3, RecordView
  <2>5. ASSUME Hidden(ProviderOf[l.target]), \A d \in Domain \ {l.target} : SameView(d)
        PROVE  Snapshot' = Snapshot
    <3>1. ASSUME NEW t \in Target
          PROVE  (SameView(ProviderOf[t]) /\ SameView(t)) \/ Hidden(ProviderOf[t])
      <4>1. CASE t = l.target
        BY <2>5, <4>1
      <4>2. CASE t # l.target
        <5>1. ProviderOf[t] # l.target
          BY LeaseDomains, DomainFacts
        <5> QED BY <1>1, <2>5, <4>2, <5>1
      <4> QED BY <4>1, <4>2
    <3> QED BY <3>1, SnapshotStays
  <2> QED BY <1>2, <2>4, <2>5
<1>5. CASE Tick
  <2>1. clock \in Nat /\ clock' = clock + 1
    BY <1>5 DEF Tick, IInv, TypeOK
  <2> QED BY <2>1
<1>6. CASE Restart
  <2>1. \A d \in Domain : dom[d].state = "healthy"
    BY <1>6 DEF Restart, RevisionStarts
  <2>2. \A d \in Domain : dom'[d].state = "healthy" /\ dom'[d].half_open_token = None
    BY <1>6 DEF Restart, FreshRecord
  <2> QED BY <1>2, <2>1, <2>2, HealthyView
<1> QED BY <1>3, <1>4, <1>5, <1>6 DEF Next

\* snapshot() returns something else only after time has passed or the revision
\* has moved, as long as no backoff overflows: a failure that is only counted
\* does not show, and one that suspends a target in recovery without moving its
\* generation is hidden by its provider's probe.
THEOREM RevisionCovers == Spec /\ []NoOverflow => RevisionCoversSnapshot
<1>1. IInv /\ RevisionStarts /\ NoOverflow /\ [Next]_vars =>
        [clock' = clock /\ revision' = revision => Snapshot' = Snapshot]_vars
  <2> SUFFICES ASSUME IInv, RevisionStarts, NoOverflow, Next,
                      clock' = clock, revision' = revision
               PROVE  Snapshot' = Snapshot
    BY DEF vars
  <2> QED BY StepView
<1>2. Init => RevisionStarts
  BY DEF Init, RevisionStarts, FreshRecord
<1>3. IInv /\ RevisionStarts /\ [Next]_vars => RevisionStarts'
  BY RevisionStartsKept
<1> QED BY <1>1, <1>2, <1>3, Invariance, PTL DEF Spec, RevisionCoversSnapshot

\* record() answers the failure of a probe with another cooldown, whatever was
\* counted before, of at least its backoff and at most the maximum, as long as
\* no backoff overflows.
THEOREM FailedProbesCoolDown == Spec /\ []NoOverflow => FailedProbeCoolsDown
<1>1. IInv /\ NoOverflow /\ [Next]_vars =>
        [\A d \in Domain, l \in leases :
            (/\ HoldsProbe(l, d)
             /\ \E class \in OutcomeClasses \intersect (ProviderTransient \union TargetTransient),
                   retryAfter \in RetryAfterValues :
                   ChargedTo(l, class) = d /\ Record(l, class, retryAfter))
            => /\ dom'[d].state = "cooldown"
               /\ dom'[d].cooldown_until \in
                     clock + CooldownSeconds(dom[d], 0) .. clock + MaxCooldown]_vars
  <2> SUFFICES ASSUME IInv, NoOverflow, NEW d \in Domain, NEW l \in leases, HoldsProbe(l, d),
                      NEW class \in ProviderTransient \union TargetTransient,
                      NEW retryAfter \in Nat,
                      ChargedTo(l, class) = d, Record(l, class, retryAfter)
               PROVE  /\ dom'[d].state = "cooldown"
                      /\ dom'[d].cooldown_until \in
                            clock + CooldownSeconds(dom[d], 0) .. clock + MaxCooldown
    BY EnvironmentAssumption
  <2>1. Charged(l, class)
    BY EnvironmentAssumption DEF Charged, HoldsProbe
  <2>2. RecordTransient(l, class, retryAfter)
    BY <2>1 DEF Record, RecordPermanent, RecordNeutral, ProviderTransient, TargetTransient,
                ProviderPermanent, TargetPermanent
  <2>3. dom'[d] = TransientFailure(dom[d], l, retryAfter)
    BY <2>2 DEF RecordTransient, IInv, TypeOK
  <2> QED BY <2>3, ProbeFails DEF HoldsProbe
<1> QED BY <1>1, Invariance, PTL DEF Spec, FailedProbeCoolsDown
=============================================================================
