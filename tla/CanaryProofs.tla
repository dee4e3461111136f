---------------------------- MODULE CanaryProofs ----------------------------
(***************************************************************************)
(* What a request served by a candidate policy rests on, for any number of *)
(* configurations, processes and requests: evidence gathered before its    *)
(* process started, and policy snapshots that are durable.                 *)
(***************************************************************************)
EXTENDS CanaryRouting, FiniteSetTheorems, TLAPS

\* Precedes(), for a profile in place of a request that has it.
Served(q, profile, p) ==
    /\ routed[q] # None /\ q \in stored
    /\ routed[q].role # "canary" /\ routed[q].process.config.current = p.config.current
    /\ Profile(q, p.config.current) = profile
    /\ routed[q].at < p.since /\ routed[q].at >= p.since - Lookback

Evidence(profile, p) == {q \in Request : Served(q, profile, p) /\ EvaluatedFor(q, p)}

\* What startup has judged stays true: of the process that runs, and of those
\* that requests were resolved by.
Backed(p) ==
    p.active =>
        /\ p.config.canary /\ p.config.salt # None /\ p.bundle # None
        /\ \A profile \in p.config.segments :
             /\ Cardinality(Evidence(profile, p)) >= Minimum
             /\ {p.bundle, p.config.current} \subseteq policies

\* A shadow row is about a request served by a current policy, and both of the
\* policies it names are durable.
RowsBacked ==
    \A r \in Request : shadowed[r] # None =>
        /\ r \notin pending
        /\ routed[r] # None /\ routed[r].role # "canary"
        /\ shadowed[r].current = routed[r].process.config.current
        /\ {shadowed[r].current, shadowed[r].candidate} \subseteq policies

\* Only requests that a current policy served are evaluated, and only by a
\* process that has a candidate.
PendingServed ==
    \A r \in pending :
        /\ routed[r] # None /\ routed[r].role # "canary"
        /\ process # None /\ process.bundle # None

\* The role of a request is the one its process gives it.
RoleUnder(r, p) ==
    IF ~p.config.canary THEN "current"
    ELSE IF /\ p.active
            /\ Profile(r, p.config.current) \in p.config.segments
            /\ ~Asked[r].countOnly
            /\ ~(Asked[r].stateful /\ Affinity(r)[1] = "request")
            /\ Bucket[<<p.config.salt, p.bundle, Affinity(r)[1], Affinity(r)[2]>>]
                 < p.config.threshold
         THEN "canary" ELSE "control"

RolesExplained ==
    \A r \in Request : routed[r] # None => routed[r].role = RoleUnder(r, routed[r].process)

InUse(p) == process = p \/ \E r \in Request : routed[r] # None /\ routed[r].process = p

\* No process runs, or has resolved a request, that is active without evidence.
Known == \A p \in Process : InUse(p) => Backed(p)

IInv ==
    /\ TypeOK
    /\ RowsBacked /\ PendingServed /\ RolesExplained
    /\ Known

LEMMA InitBacked == Init => IInv
PROOF
<1> SUFFICES ASSUME Init PROVE IInv
  OBVIOUS
<1>1. TypeOK
  BY CanaryAssumption DEF Init, TypeOK
<1>2. RowsBacked /\ PendingServed /\ RolesExplained
  BY DEF Init, RowsBacked, PendingServed, RolesExplained
<1>3. Known
  <2> SUFFICES ASSUME NEW p \in Process, InUse(p) PROVE FALSE
    BY DEF Known
  <2>1. p = None
    BY DEF InUse, Init
  <2> QED
    BY <2>1, NoneIsApart
<1> QED
  BY <1>1, <1>2, <1>3 DEF IInv

\* The past of the evidence is never rewritten.
Grows ==
    /\ \A q \in Request : /\ routed[q] # None => routed'[q] = routed[q]
                          /\ shadowed[q] # None => shadowed'[q] = shadowed[q]
    /\ stored \subseteq stored' /\ policies \subseteq policies'

LEMMA BackedStays == ASSUME Grows, NEW p \in Process, Backed(p) PROVE Backed(p)'
PROOF
<1> SUFFICES ASSUME p.active, NEW profile \in p.config.segments
             PROVE  /\ Cardinality(Evidence(profile, p)') >= Minimum
                    /\ {p.bundle, p.config.current} \subseteq policies'
  BY DEF Backed
<1>1. Cardinality(Evidence(profile, p)) >= Minimum
  BY DEF Backed
<1>2. Evidence(profile, p) \subseteq Evidence(profile, p)'
  BY DEF Evidence, Served, EvaluatedFor, Grows
<1>3. Evidence(profile, p)' \subseteq Request /\ IsFiniteSet(Request)
  BY CanaryAssumption DEF Evidence
<1>4. IsFiniteSet(Evidence(profile, p)')
  BY <1>3, FS_Subset
<1>5. /\ IsFiniteSet(Evidence(profile, p))
      /\ Cardinality(Evidence(profile, p)) <= Cardinality(Evidence(profile, p)')
  BY <1>2, <1>4, FS_Subset
<1>6. /\ Cardinality(Evidence(profile, p)) \in Nat
      /\ Cardinality(Evidence(profile, p)') \in Nat
  BY <1>4, <1>5, FS_CardinalityType
<1>7. Cardinality(Evidence(profile, p)') >= Minimum
  BY <1>1, <1>5, <1>6, CanaryAssumption
<1>8. {p.bundle, p.config.current} \subseteq policies'
  BY DEF Backed, Grows
<1> QED
  BY <1>7, <1>8

\* A gate that is open names evidence.
LEMMA GateBacked ==
    ASSUME IInv, NEW config \in Config, NEW bundle \in Hashes \union {None},
           NEW gate \in BOOLEAN, gate => bundle # None /\ GateOk(config, bundle, now),
           NEW p \in Process, p.config = config, p.bundle = bundle, p.since = now,
           p.active = Active(config, bundle, gate), UNCHANGED <<routed, stored, shadowed>>,
           policies \subseteq policies'
    PROVE  Backed(p)'
PROOF
<1> SUFFICES ASSUME p.active, NEW profile \in p.config.segments
             PROVE  /\ Cardinality(Evidence(profile, p)') >= Minimum
                    /\ {p.bundle, p.config.current} \subseteq policies'
  BY DEF Backed, Active
<1> DEFINE samples == Samples(config, bundle, profile, now)
           good == {r \in samples : shadowed[r].status = "evaluated"}
<1>1. Cardinality(good) >= Minimum
  BY DEF Active, GateOk
<1>2. good \subseteq Evidence(profile, p)'
  <2> SUFFICES ASSUME NEW r \in good PROVE r \in Evidence(profile, p)'
    OBVIOUS
  <2>1. r \in Request /\ shadowed[r].status = "evaluated"
    BY DEF Samples
  <2>2. Sample(r, config, bundle, profile, now)
    BY DEF Samples
  <2>3. /\ routed[r] # None /\ routed[r].role # "canary"
        /\ shadowed[r].current = routed[r].process.config.current
    BY <2>1, <2>2 DEF IInv, RowsBacked, Sample
  <2>4. Served(r, profile, p) /\ EvaluatedFor(r, p)
    BY <2>1, <2>2, <2>3 DEF Sample, Served, EvaluatedFor
  <2> QED
    BY <2>1, <2>4 DEF Evidence, Served, EvaluatedFor
<1>3. Evidence(profile, p)' \subseteq Request /\ IsFiniteSet(Request)
  BY CanaryAssumption DEF Evidence
<1>4. IsFiniteSet(Evidence(profile, p)')
  BY <1>3, FS_Subset
<1>5. IsFiniteSet(good) /\ Cardinality(good) <= Cardinality(Evidence(profile, p)')
  <2> HIDE DEF good
  <2> QED
    BY <1>2, <1>4, FS_Subset
<1>6. Cardinality(good) \in Nat /\ Cardinality(Evidence(profile, p)') \in Nat
  <2> HIDE DEF good
  <2> QED
    BY <1>4, <1>5, FS_CardinalityType
<1>7. Cardinality(Evidence(profile, p)') >= Minimum
  <2> HIDE DEF good
  <2> QED
    BY <1>1, <1>5, <1>6, CanaryAssumption
<1>8. good # {}
  <2> HIDE DEF good
  <2>1. Cardinality(good) # 0
    BY <1>1, <1>6, CanaryAssumption
  <2> QED
    BY <2>1, FS_EmptySet
<1>9. PICK r \in good : TRUE
  BY <1>8
<1>10. r \in Request /\ Sample(r, config, bundle, profile, now)
  BY DEF Samples
<1>11. {bundle, config.current} \subseteq policies
  BY <1>10 DEF IInv, RowsBacked, Sample
<1> QED
  BY <1>7, <1>11

\* A step that starts no process and resolves nothing keeps what is known.
LEMMA KnownStays ==
    ASSUME IInv, Grows, UNCHANGED routed, process' \in {process, None}
    PROVE  RolesExplained' /\ Known'
PROOF
<1>1. RolesExplained'
  BY DEF IInv, RolesExplained, RoleUnder, Profile, Affinity
<1>2. Known'
  <2> SUFFICES ASSUME NEW p \in Process, InUse(p)' PROVE Backed(p)'
    BY DEF Known
  <2>1. p # None
    BY NoneIsApart
  <2>2. InUse(p)
    BY <2>1 DEF InUse
  <2> QED
    BY <2>2, BackedStays DEF IInv, Known
<1> QED
  BY <1>1, <1>2

LEMMA StartKeeps ==
    ASSUME IInv, NEW config \in Config, NEW loads \in BOOLEAN, NEW ensured \in BOOLEAN,
           NEW readable \in BOOLEAN, Start(config, loads, ensured, readable)
    PROVE  IInv'
PROOF
<1> DEFINE bundle == IF loads /\ (config.shadow \/ config.canary) THEN config.candidate ELSE None
           gate == bundle # None /\ readable /\ GateOk(config, bundle, now)
           new == [config |-> config, bundle |-> bundle,
                   active |-> Active(config, bundle, gate), since |-> now]
<1>1. /\ process' = new /\ process = None /\ policies \subseteq policies'
      /\ UNCHANGED <<now, routed, stored, pending, shadowed>>
  BY DEF Start
<1>2. bundle \in Hashes \union {None} /\ gate \in BOOLEAN
  BY CanaryAssumption DEF GateOk
<1>3. Active(config, bundle, gate) \in BOOLEAN
  BY <1>2, CanaryAssumption DEF Active
<1>4. new \in Process
  <2> HIDE DEF bundle, gate
  <2> QED
    BY <1>2, <1>3 DEF Process, IInv, TypeOK
<1>5. policies' \subseteq Hashes
  BY <1>2, CanaryAssumption DEF Start, IInv, TypeOK
<1>6. TypeOK'
  <2> HIDE DEF new
  <2> QED
    BY <1>1, <1>4, <1>5, CanaryAssumption DEF Start, IInv, TypeOK
<1>7. Grows
  BY <1>1 DEF Grows
<1>8. RowsBacked' /\ RolesExplained'
  <2>1. RowsBacked'
    BY <1>1 DEF IInv, RowsBacked
  <2>2. \A q, p : RoleUnder(q, p)' = RoleUnder(q, p)
    BY DEF RoleUnder, Profile, Affinity
  <2>3. RolesExplained'
    BY <1>1, <2>2 DEF IInv, RolesExplained
  <2> QED
    BY <2>1, <2>3
<1>9. PendingServed'
  <2>1. pending = {}
    BY <1>1 DEF IInv, PendingServed
  <2> QED
    BY <1>1, <2>1 DEF PendingServed
<1>10. Known'
  <2> SUFFICES ASSUME NEW p \in Process, InUse(p)' PROVE Backed(p)'
    BY DEF Known
  <2>1. CASE p = process'
    <3>1. gate => bundle # None /\ GateOk(config, bundle, now)
      OBVIOUS
    <3> HIDE DEF bundle, gate
    <3>2. /\ p.config = config /\ p.bundle = bundle /\ p.since = now
          /\ p.active = Active(config, bundle, gate)
      BY <1>1, <2>1
    <3> HIDE DEF new
    <3> QED
      BY <1>1, <1>2, <3>1, <3>2, GateBacked
  <2>2. CASE p # process'
    <3>1. InUse(p)
      BY <1>1, <2>2 DEF InUse
    <3> QED
      BY <1>7, <3>1, BackedStays DEF IInv, Known
  <2> QED
    BY <2>1, <2>2
<1> QED
  BY <1>6, <1>8, <1>9, <1>10 DEF IInv

LEMMA EnsuredKeeps == ASSUME IInv, EnsuredLate PROVE IInv'
PROOF
<1>1. /\ policies \subseteq policies'
      /\ UNCHANGED <<now, starts, process, routed, stored, pending, shadowed>>
  BY DEF EnsuredLate
<1>2. policies' \subseteq Hashes
  BY DEF EnsuredLate, IInv, TypeOK, Process
<1>3. TypeOK' /\ RowsBacked' /\ PendingServed'
  BY <1>1, <1>2 DEF IInv, TypeOK, RowsBacked, PendingServed
<1>4. RolesExplained' /\ Known'
  BY <1>1, KnownStays DEF Grows
<1> QED
  BY <1>3, <1>4 DEF IInv

LEMMA StopKeeps == ASSUME IInv, Stop \/ Tick PROVE IInv'
PROOF
<1>1. process' = None /\ UNCHANGED <<starts, policies, routed, stored, shadowed>>
  BY DEF Stop, Tick
<1>2. now' \in 0 .. MaxTime
  BY CanaryAssumption DEF Stop, Tick, IInv, TypeOK
<1>3. pending' = {}
  BY DEF Stop, Tick, IInv, PendingServed
<1>4. TypeOK' /\ RowsBacked' /\ PendingServed'
  BY <1>1, <1>2, <1>3 DEF IInv, TypeOK, RowsBacked, PendingServed
<1>5. RolesExplained' /\ Known'
  BY <1>1, KnownStays DEF Grows
<1> QED
  BY <1>4, <1>5 DEF IInv

LEMMA ResolveKeeps ==
    ASSUME IInv, NEW r \in Request, NEW captured \in BOOLEAN, NEW admitted \in BOOLEAN,
           Resolve(r, captured, admitted)
    PROVE  IInv'
PROOF
<1> DEFINE resolution == [process |-> process, role |-> Role(r), at |-> now]
<1>1. /\ process # None /\ routed[r] = None
      /\ routed' = [routed EXCEPT ![r] = resolution]
      /\ stored \subseteq stored' /\ stored' \subseteq stored \union {r}
      /\ pending' = IF admitted THEN pending \union {r} ELSE pending
      /\ UNCHANGED <<now, starts, process, policies, shadowed>>
  BY DEF Resolve
<1>2. process \in Process /\ routed \in [Request -> Resolution \union {None}]
  BY <1>1 DEF IInv, TypeOK
<1>3. Role(r) \in {"current", "control", "canary"}
  BY DEF Role
<1>4. resolution \in Resolution
  BY <1>2, <1>3 DEF Resolution, IInv, TypeOK
<1>5. routed'[r] = resolution /\ \A q \in Request \ {r} : routed'[q] = routed[q]
  BY <1>1, <1>2
<1>6. Grows
  BY <1>1, <1>5 DEF Grows
<1>7. TypeOK'
  <2> HIDE DEF resolution
  <2> QED
    BY <1>1, <1>4 DEF IInv, TypeOK
<1>8. shadowed[r] = None /\ r \notin pending
  BY <1>1 DEF IInv, RowsBacked, PendingServed
<1>9. resolution # None
  BY <1>4, NoneIsApart
<1>10. RowsBacked'
  BY <1>1, <1>5, <1>8 DEF IInv, RowsBacked
<1>11. PendingServed'
  <2>1. admitted => process.bundle # None /\ Role(r) # "canary"
    BY DEF Resolve, Admissible
  <2>2. pending \subseteq Request
    BY DEF IInv, TypeOK
  <2> QED
    BY <1>1, <1>5, <1>8, <1>9, <2>1, <2>2 DEF IInv, PendingServed
<1>12. RolesExplained'
  <2>1. Role(r) = RoleUnder(r, process)
    BY DEF Role, Eligible, BucketOf, RoleUnder
  <2>2. \A q \in Request \ {r} :
          routed[q] # None => routed[q].role = RoleUnder(q, routed[q].process)
    BY DEF IInv, RolesExplained
  <2>3. \A q, p : RoleUnder(q, p)' = RoleUnder(q, p)
    BY DEF RoleUnder, Profile, Affinity
  <2>4. resolution.role = Role(r) /\ resolution.process = process
    OBVIOUS
  <2> HIDE DEF resolution
  <2>5. \A q \in Request : routed'[q] # None => routed'[q].role = RoleUnder(q, routed'[q].process)
    BY <1>5, <2>1, <2>2, <2>4
  <2> QED
    BY <2>3, <2>5 DEF RolesExplained
<1>13. Known'
  <2> SUFFICES ASSUME NEW p \in Process, InUse(p)' PROVE Backed(p)'
    BY DEF Known
  <2>1. InUse(p)
    BY <1>1, <1>5 DEF InUse
  <2> QED
    BY <1>6, <2>1, BackedStays DEF IInv, Known
<1> QED
  BY <1>7, <1>10, <1>11, <1>12, <1>13 DEF IInv

LEMMA EvaluateKeeps ==
    ASSUME IInv, NEW r \in Request, NEW status \in ShadowStatus, Evaluate(r, status)
    PROVE  IInv'
PROOF
<1> DEFINE row == [current |-> ActualHash(r), candidate |-> process.bundle, status |-> status]
<1>1. /\ process # None /\ r \in pending /\ pending' = pending \ {r}
      /\ {ActualHash(r), process.bundle} \subseteq policies
      /\ shadowed' = [shadowed EXCEPT ![r] = row]
      /\ UNCHANGED <<now, starts, process, policies, routed, stored>>
  BY DEF Evaluate, Stored
<1>2. /\ routed[r] # None /\ routed[r].role # "canary" /\ process.bundle # None
      /\ shadowed[r] = None
  BY <1>1 DEF IInv, PendingServed, RowsBacked
<1>3. ActualHash(r) = routed[r].process.config.current
  BY <1>2 DEF ActualHash
<1>4. row \in ShadowRow
  BY <1>1 DEF ShadowRow, IInv, TypeOK
<1>5. /\ shadowed \in [Request -> ShadowRow \union {None}] /\ shadowed'[r] = row
      /\ \A q \in Request \ {r} : shadowed'[q] = shadowed[q]
  BY <1>1 DEF IInv, TypeOK
<1>6. TypeOK'
  <2> HIDE DEF row
  <2> QED
    BY <1>1, <1>4 DEF IInv, TypeOK
<1>7. RowsBacked'
  BY <1>1, <1>2, <1>3, <1>5 DEF IInv, RowsBacked
<1>8. PendingServed'
  BY <1>1 DEF IInv, PendingServed
<1>9. Grows
  BY <1>1, <1>2, <1>5 DEF Grows
<1>10. RolesExplained' /\ Known'
  BY <1>1, <1>9, KnownStays
<1> QED
  BY <1>6, <1>7, <1>8, <1>10 DEF IInv

LEMMA StepBacked == IInv /\ [Next]_vars => IInv'
PROOF
<1> SUFFICES ASSUME IInv, [Next]_vars PROVE IInv'
  OBVIOUS
<1>1. ASSUME NEW config \in Config, NEW loads \in BOOLEAN, NEW ensured \in BOOLEAN,
             NEW readable \in BOOLEAN, Start(config, loads, ensured, readable)
      PROVE  IInv'
  BY <1>1, StartKeeps
<1>2. CASE EnsuredLate
  BY <1>2, EnsuredKeeps
<1>3. CASE Stop \/ Tick
  BY <1>3, StopKeeps
<1>4. ASSUME NEW r \in Request, NEW captured \in BOOLEAN, NEW admitted \in BOOLEAN,
             Resolve(r, captured, admitted)
      PROVE  IInv'
  BY <1>4, ResolveKeeps
<1>5. ASSUME NEW r \in Request, NEW status \in ShadowStatus, Evaluate(r, status) PROVE IInv'
  BY <1>5, EvaluateKeeps
<1>6. CASE UNCHANGED vars
  <2>1. TypeOK' /\ RowsBacked' /\ PendingServed'
    BY <1>6 DEF vars, IInv, TypeOK, RowsBacked, PendingServed
  <2>2. RolesExplained' /\ Known'
    BY <1>6, KnownStays DEF vars, Grows
  <2> QED
    BY <2>1, <2>2 DEF IInv
<1> QED
  BY <1>1, <1>2, <1>3, <1>4, <1>5, <1>6 DEF Next

LEMMA Invariance == Spec => []IInv
PROOF
  BY InitBacked, StepBacked, PTL DEF Spec

-----------------------------------------------------------------------------

\* What a request that a candidate serves tells of its process.
LEMMA CanaryKnown ==
    ASSUME IInv, NEW r \in Request, ByCanary(r)
    PROVE  LET p == routed[r].process IN
           /\ p \in Process /\ p.active /\ Backed(p)
           /\ Profile(r, p.config.current) \in p.config.segments
PROOF
<1> DEFINE p == routed[r].process
<1>1. routed[r] \in Resolution
  BY DEF IInv, TypeOK, ByCanary
<1>2. p \in Process
  BY <1>1 DEF Resolution
<1>3. RoleUnder(r, p) = "canary"
  BY DEF IInv, RolesExplained, ByCanary
<1>4. p.active /\ Profile(r, p.config.current) \in p.config.segments
  BY <1>3 DEF RoleUnder
<1>5. Backed(p)
  BY <1>2 DEF IInv, Known, InUse, ByCanary
<1> QED
  BY <1>2, <1>4, <1>5

\* Every variable keeps its type, whatever configurations follow each other.
THEOREM TypeCorrect == Spec => []TypeOK
PROOF
<1>1. IInv => TypeOK
  BY DEF IInv
<1> QED
  BY Invariance, <1>1, PTL

\* No request is served by a candidate without enough evidence, of its own
\* profile and for the same pair of policies, from before its process started
\* (canary_runtime.py _gate_ok()).
THEOREM CanaryRestsOnEvidence == Spec => []CanaryEvidenced
PROOF
<1>1. IInv => CanaryEvidenced
  <2> SUFFICES ASSUME IInv, NEW r \in Request, ByCanary(r)
               PROVE  LET p == routed[r].process
                      IN  Cardinality({q \in Request : Precedes(q, r, p) /\ EvaluatedFor(q, p)})
                            >= Minimum
    BY DEF CanaryEvidenced
  <2> DEFINE p == routed[r].process
             profile == Profile(r, p.config.current)
  <2>1. {q \in Request : Precedes(q, r, p) /\ EvaluatedFor(q, p)} = Evidence(profile, p)
    BY DEF Precedes, Evidence, Served
  <2>2. Cardinality(Evidence(profile, p)) >= Minimum
    BY CanaryKnown DEF Backed
  <2> QED
    BY <2>1, <2>2
<1> QED
  BY Invariance, <1>1, PTL

\* Both policies of a request that a candidate serves are durable, although the
\* failure to store the candidate's at startup is swallowed (canary_runtime.py
\* build_canary_components()): what its gate read proves that they are.
THEOREM CanaryPoliciesDurable == Spec => []PoliciesDurable
PROOF
<1>1. IInv => PoliciesDurable
  BY CanaryKnown DEF PoliciesDurable, Backed
<1> QED
  BY Invariance, <1>1, PTL

\* Requests of one session or task stay with a candidate that stays active for
\* them, across processes (canary.py select()).
THEOREM SessionsStick == Spec => []StickyAffinity
PROOF
<1>1. IInv => StickyAffinity
  <2> SUFFICES ASSUME IInv, NEW r \in Request, NEW q \in Request,
                      LET p == routed[r].process
                          n == routed[q].process
                      IN  /\ ByCanary(r) /\ routed[q] # None /\ SameAffinity(r, q)
                          /\ n.active /\ n.bundle = p.bundle /\ n.config.salt = p.config.salt
                          /\ n.config.threshold >= p.config.threshold
                          /\ Profile(q, n.config.current) \in n.config.segments
                          /\ ~Asked[q].countOnly
               PROVE  routed[q].role = "canary"
    BY DEF StickyAffinity, ByCanary
  <2> DEFINE p == routed[r].process
             n == routed[q].process
             bucket == Bucket[<<p.config.salt, p.bundle, Affinity(r)[1], Affinity(r)[2]>>]
  <2>1. Affinity(q) = Affinity(r) /\ Affinity(q)[1] # "request"
    BY DEF SameAffinity, Affinity
  <2>2. p \in Process /\ Backed(p) /\ p.active
    BY CanaryKnown
  <2>3. n \in Process /\ Backed(n)
    BY DEF IInv, TypeOK, Known, InUse, Resolution
  <2>4. p.config.salt # None /\ p.bundle \in Hashes
    BY <2>2 DEF Backed, Process
  <2>5. bucket \in Nat
    BY <2>2, <2>4, BucketAssumption DEF Process
  <2>6. p.config.threshold \in Nat /\ n.config.threshold \in Nat
    BY <2>2, <2>3, CanaryAssumption DEF Process
  <2>7. bucket < p.config.threshold
    BY DEF IInv, RolesExplained, RoleUnder, ByCanary
  <2>8. bucket < n.config.threshold
    <3> HIDE DEF bucket
    <3> QED
      BY <2>5, <2>6, <2>7
  <2>9. RoleUnder(q, n) = "canary"
    BY <2>1, <2>3, <2>8 DEF RoleUnder, Backed
  <2> QED
    BY <2>9 DEF IInv, RolesExplained
<1> QED
  BY Invariance, <1>1, PTL

=============================================================================
