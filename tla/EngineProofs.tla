---------------------------- MODULE EngineProofs ----------------------------
(***************************************************************************)
(* Proofs about the execution engine, for every set of requests, every     *)
(* plan, limit and health configuration: permits and leases come back      *)
(* exactly once, on whichever path an attempt ends but the few that the    *)
(* code leaves open, which the properties name.                            *)
(*                                                                         *)
(* The requests meet only in the semaphores and in the coordinator's       *)
(* leases.  So each action is reduced to what it does to the permit of one *)
(* request (PermitEffect) and to its lease (LeaseEffect); the invariant is *)
(* then kept by the effects, and nothing depends on what a plan names.     *)
(*                                                                         *)
(* The second half is about the plans and the coordinator: what the kernel *)
(* keeps of the candidates (PickedUpTo), that the engine is a user of the  *)
(* coordinator's specification (UsesCoordinator), and, from the types that *)
(* gives, that a plan starts with a target that is admitted (FirstInv).    *)
(***************************************************************************)
EXTENDS ExecutionEngine, FiniteSetTheorems, TLAPS

Fields == {"pc", "plan", "at", "lease", "attempts", "skipped", "pending", "error",
           "result", "completion"}

Shaped ==
    /\ req = [r \in Request |-> req[r]]
    /\ \A r \in Request : DOMAIN req[r] = Fields

Held(l) == l.pc \in Connected \union Stranded
Alive(l) == l.pc \in Awaits \ {"closing_stream"}
Owes(l) == Alive(l) \/ l.pc \in Unrecorded

\* Every lease in flight has been issued.
Issued ==
    /\ nextToken \in Nat
    /\ \A x \in leases : x.token \in Nat /\ x.token < nextToken

PermitInv ==
    /\ inUse \in [Provider -> Nat] /\ lost \in [Provider -> Nat]
    /\ \A p \in Provider :
          /\ IsFiniteSet(Occupying(p))
          /\ inUse[p] = Cardinality(Occupying(p)) + lost[p] /\ inUse[p] <= MaxConcurrency

\* The attempts that will never be recorded have leases of their own as well.
LeaseInv ==
    /\ Issued
    /\ \A r \in Request : Owes(req[r]) => req[r].lease \in leases
    /\ \A q, r \in Request : Owes(req[q]) /\ Owes(req[r]) /\ req[q].lease = req[r].lease => q = r
    /\ \A x \in leases : \E r \in Request : Owes(req[r]) /\ req[r].lease = x

EngineInv == Shaped /\ PermitInv /\ LeaseInv

-----------------------------------------------------------------------------
(* What one step of a request does.                                         *)

MovesTo(r, l) == req' = [req EXCEPT ![r] = l] /\ DOMAIN l = Fields

\* The target the request is at stays.
Stays(r, l) == l.at = req[r].at /\ l.plan = req[r].plan

PermitKept(r, l) ==
    inUse' = inUse /\ lost' = lost /\ (Held(l) <=> Held(req[r])) /\ (Held(l) => Stays(r, l))

PermitLost(r, l) == LosePermit(r) /\ Held(req[r]) /\ ~Held(l)

PermitTaken(r, l) ==
    /\ TakePermit(r) /\ inUse[ProviderAt(r)] < MaxConcurrency
    /\ ~Held(req[r]) /\ Held(l) /\ Stays(r, l)

PermitFreed(r, l) == FreePermit(r) /\ Held(req[r]) /\ ~Held(l)

PermitEffect(r, l) ==
    PermitKept(r, l) \/ PermitLost(r, l) \/ PermitTaken(r, l) \/ PermitFreed(r, l)

LeaseKept(r, l) ==
    /\ leases' = leases /\ nextToken' = nextToken
    /\ (Owes(l) <=> Owes(req[r])) /\ (Owes(l) => l.lease = req[r].lease)

LeaseTaken(r, l) ==
    /\ leases' = leases \union {l.lease}
    /\ l.lease.token = nextToken /\ nextToken' = nextToken + 1
    /\ ~Owes(req[r]) /\ Owes(l)

LeaseRecorded(r, l) ==
    /\ leases' = leases \ {req[r].lease} /\ nextToken' = nextToken
    /\ Owes(req[r]) /\ ~Owes(l)

LeaseEffect(r, l) == LeaseKept(r, l) \/ LeaseTaken(r, l) \/ LeaseRecorded(r, l)

Effect(r) == \E l : MovesTo(r, l) /\ PermitEffect(r, l) /\ LeaseEffect(r, l)

LEMMA BecomeMoves ==
    ASSUME Shaped, NEW r \in Request, NEW ch, Become(r, ch)
    PROVE  /\ MovesTo(r, Updated(req[r], ch))
           /\ \A f \in Fields : Updated(req[r], ch)[f] = IF f \in DOMAIN ch THEN ch[f] ELSE req[r][f]
<1>1. /\ req' = [req EXCEPT ![r] = Updated(@, ch)]
      /\ DOMAIN req[r] = Fields
  BY DEF Become, Shaped
<1>2. req' = [req EXCEPT ![r] = Updated(req[r], ch)]
  BY <1>1
<1> QED BY <1>1, <1>2 DEF MovesTo, Updated

LEMMA AfterFailureLeaves ==
    ASSUME Shaped, NEW r \in Request, NEW error, Become(r, AfterFailure(r, error))
    PROVE  \E l : MovesTo(r, l) /\ l.pc \in {"done", "next"}
<1> DEFINE ch == AfterFailure(r, error)
           l == Updated(req[r], ch)
<1>1. "pc" \in DOMAIN ch /\ ch["pc"] \in {"done", "next"}
  BY DEF AfterFailure, Finished
<1>2. MovesTo(r, l) /\ l["pc"] = ch["pc"]
  <2> HIDE DEF ch
  <2>1. Become(r, ch)
    BY DEF ch
  <2> QED BY <1>1, <2>1, BecomeMoves DEF Fields
<1> HIDE DEF l, ch
<1>3. l.pc = l["pc"]
  OBVIOUS
<1> QED BY <1>1, <1>2, <1>3

LEMMA ReportRecords ==
    ASSUME NEW r \in Request, NEW class, NEW retry, Report(r, class, retry)
    PROVE  leases' = leases \ {req[r].lease} /\ nextToken' = nextToken
BY DEF Report, H!Record

LEMMA NothingReported == ASSUME NoReport PROVE leases' = leases /\ nextToken' = nextToken
BY DEF NoReport, healthVars

LEMMA PlacesToWait ==
    /\ Connected = {"sending", "first_event", "body", "closing_http", "closing_ok",
                    "closing_error", "closing_cancel", "committed", "streaming",
                    "closing_stream"}
    /\ Awaits \ {"closing_stream"} =
         {"sending", "first_event", "body", "closing_http", "closing_ok", "closing_error",
          "closing_cancel", "committed", "streaming", "queued"}
    /\ Stranded = {"unstarted", "torn"} /\ Unrecorded = {"unstarted", "torn", "raised"}
BY DEF Connected, Awaits, Stranded, Unrecorded

\* A failed attempt, or one recorded as it ends, gives its lease back.
LEMMA EndsRecorded ==
    ASSUME NEW r \in Request, Owes(req[r]), NEW l, l.pc \in {"done", "next", "closing_stream"},
           leases' = leases \ {req[r].lease}, nextToken' = nextToken
    PROVE  LeaseEffect(r, l)
BY PlacesToWait DEF LeaseEffect, LeaseRecorded, Alive, Owes

LEMMA FailureEffect ==
    ASSUME Shaped, NEW r \in Request, NEW class, NEW retry, NEW error,
           FailNow(r, class, retry, error), Owes(req[r]),
           \/ Held(req[r]) /\ FreePermit(r)
           \/ ~Held(req[r]) /\ KeepPermits
           \/ Held(req[r]) /\ LosePermit(r)
    PROVE  Effect(r)
<1>1. PICK l : MovesTo(r, l) /\ l.pc \in {"done", "next"}
  BY AfterFailureLeaves DEF FailNow
<1>2. LeaseEffect(r, l)
  BY <1>1, ReportRecords, EndsRecorded DEF FailNow
<1>3. ~Held(l)
  BY <1>1, PlacesToWait DEF Held
<1>4. PermitEffect(r, l)
  BY <1>3 DEF PermitEffect, PermitKept, PermitLost, PermitFreed, KeepPermits
<1> QED BY <1>1, <1>2, <1>4 DEF Effect

\* A request that is not in an exchange and stays outside of one.
LEMMA OutsideEffect ==
    ASSUME Shaped, NEW r \in Request, NEW ch, Become(r, ch),
           req[r].pc \in {"idle", "next"},
           "pc" \in DOMAIN ch => ch["pc"] \in {"next", "done"},
           leases' = leases, nextToken' = nextToken, KeepPermits
    PROVE  Effect(r)
<1> DEFINE l == Updated(req[r], ch)
<1>1. MovesTo(r, l) /\ l["pc"] \in {"idle", "next", "done"}
  BY BecomeMoves DEF Fields
<1> HIDE DEF l
<1>2. ~Held(l) /\ ~Owes(l) /\ ~Held(req[r]) /\ ~Owes(req[r])
  <2>1. l.pc = l["pc"]
    OBVIOUS
  <2> QED BY <1>1, <2>1, PlacesToWait DEF Held, Alive, Owes
<1> QED BY <1>1, <1>2 DEF Effect, PermitEffect, PermitKept, KeepPermits, LeaseEffect, LeaseKept

\* A request that goes on with its exchange open and its lease: in an await, or
\* stranded.
LEMMA InsideEffect ==
    ASSUME Shaped, NEW r \in Request, NEW ch, Become(r, ch), NoReport, KeepPermits,
           Held(req[r]), Owes(req[r]), "pc" \in DOMAIN ch,
           ch["pc"] \in (Connected \ {"closing_stream"}) \union Stranded,
           DOMAIN ch \cap {"at", "plan", "lease"} = {}
    PROVE  Effect(r)
<1> DEFINE l == Updated(req[r], ch)
<1>1. /\ MovesTo(r, l) /\ l["pc"] = ch["pc"]
      /\ l["at"] = req[r]["at"] /\ l["plan"] = req[r]["plan"] /\ l["lease"] = req[r]["lease"]
  BY BecomeMoves DEF Fields
<1> HIDE DEF l
<1>2. /\ l.pc = ch["pc"] /\ l.at = req[r].at /\ l.plan = req[r].plan /\ l.lease = req[r].lease
  BY <1>1
<1>3. Held(l) /\ Owes(l)
  BY <1>2, PlacesToWait DEF Held, Alive, Owes
<1> QED
  BY <1>1, <1>2, <1>3, NothingReported
  DEF Effect, PermitEffect, PermitKept, KeepPermits, Stays, LeaseEffect, LeaseKept

\* A request that is done, its exchange closed.
LEMMA LeavesEffect ==
    ASSUME Shaped, NEW r \in Request, NEW ch, Become(r, ch),
           Held(req[r]) \/ Owes(req[r]), "pc" \in DOMAIN ch, ch["pc"] = "done",
           \/ Held(req[r]) /\ FreePermit(r)
           \/ ~Held(req[r]) /\ KeepPermits,
           nextToken' = nextToken,
           \/ Owes(req[r]) /\ leases' = leases \ {req[r].lease}
           \/ ~Owes(req[r]) /\ leases' = leases
    PROVE  Effect(r)
<1> DEFINE l == Updated(req[r], ch)
<1>1. MovesTo(r, l) /\ l["pc"] = "done"
  BY BecomeMoves DEF Fields
<1> HIDE DEF l
<1>2. ~Held(l) /\ ~Owes(l)
  <2>1. l.pc = "done"
    BY <1>1
  <2> QED BY <2>1, PlacesToWait DEF Held, Alive, Owes
<1>3. PermitEffect(r, l)
  BY <1>2 DEF PermitEffect, PermitKept, PermitFreed, KeepPermits
<1>4. LeaseEffect(r, l)
  BY <1>2 DEF LeaseEffect, LeaseKept, LeaseRecorded
<1> QED BY <1>1, <1>3, <1>4 DEF Effect

\* The awaits at which a request holds a permit, a lease, or neither.
LEMMA WaitsWhere ==
    ASSUME NEW r \in Request
    PROVE  /\ req[r].pc \in {"sending", "first_event", "body", "closing_http", "closing_ok",
                             "closing_error", "closing_cancel", "committed", "streaming"}
                => Held(req[r]) /\ Owes(req[r])
           /\ req[r].pc = "queued" => ~Held(req[r]) /\ Owes(req[r])
           /\ req[r].pc = "closing_stream" => Held(req[r]) /\ ~Owes(req[r])
BY PlacesToWait DEF Held, Alive, Owes

\* Routing and the loop over plan.targets (engine.py:161-232).
LEMMA LoopEffect ==
    ASSUME Shaped, NEW r \in Request, Resolve(r) \/ Expire(r) \/ Skip(r) \/ Admit(r) \/ RunOut(r)
    PROVE  Effect(r)
<1>1. CASE Resolve(r)
  <2>1. PICK failures \in SessionFailures :
          LET planned == PlannedTargets(QueryOf[r], failures, H!Snapshot)
          IN  Become(r, IF planned # <<>> THEN [pc |-> "next", at |-> 1, plan |-> planned]
                        ELSE IF Candidates(QueryOf[r], failures) # <<>>
                        THEN [pc |-> "done", result |-> "no_available_target"]
                        ELSE [pc |-> "done", result |-> "no_capable_model"])
    BY <1>1 DEF Resolve
  <2> DEFINE planned == PlannedTargets(QueryOf[r], failures, H!Snapshot)
             refused == Candidates(QueryOf[r], failures) # <<>>
             ch == IF planned # <<>> THEN [pc |-> "next", at |-> 1, plan |-> planned]
                   ELSE IF refused THEN [pc |-> "done", result |-> "no_available_target"]
                   ELSE [pc |-> "done", result |-> "no_capable_model"]
  <2>2. Become(r, ch)
    BY <2>1
  <2> HIDE DEF planned, refused
  <2>3. "pc" \in DOMAIN ch => ch["pc"] \in {"next", "done"}
    OBVIOUS
  <2> HIDE DEF ch
  <2>4. req[r].pc = "idle" /\ leases' = leases /\ nextToken' = nextToken /\ KeepPermits
    BY <1>1 DEF Resolve, At, NoReport, healthVars
  <2> QED BY <2>2, <2>3, <2>4, OutsideEffect
<1>2. CASE Expire(r)
  <2> DEFINE ch == Finished(r, req[r].attempts, req[r].skipped, "timeout")
  <2>1. Become(r, ch) /\ req[r].pc = "next" /\ leases' = leases /\ nextToken' = nextToken /\ KeepPermits
    BY <1>2 DEF Expire, NoReport, healthVars
  <2>2. "pc" \in DOMAIN ch => ch["pc"] \in {"next", "done"}
    BY DEF Finished
  <2> HIDE DEF ch
  <2> QED BY <2>1, <2>2, OutsideEffect
<1>3. CASE Skip(r)
  <2> DEFINE ch == [at |-> req[r].at + 1, skipped |-> req[r].skipped + 1]
  <2>1. Become(r, ch) /\ req[r].pc = "next" /\ leases' = leases /\ nextToken' = nextToken /\ KeepPermits
    BY <1>3 DEF Skip, NoReport, healthVars
  <2>2. "pc" \in DOMAIN ch => ch["pc"] \in {"next", "done"}
    OBVIOUS
  <2> HIDE DEF ch
  <2> QED BY <2>1, <2>2, OutsideEffect
<1>4. CASE Admit(r)
  <2> DEFINE lease == H!NewLease(TargetOf(r))
             ch == [pc |-> "queued", lease |-> lease, attempts |-> req[r].attempts + 1]
             l == Updated(req[r], ch)
  <2>1. /\ Become(r, ch) /\ req[r].pc = "next" /\ KeepPermits
        /\ leases' = leases \union {lease} /\ nextToken' = nextToken + 1
    BY <1>4 DEF Admit, H!Acquire
  <2>2. lease.token = nextToken
    BY DEF H!NewLease
  <2> HIDE DEF lease
  <2>3. DOMAIN ch = {"pc", "lease", "attempts"} /\ ch["pc"] = "queued" /\ ch["lease"] = lease
    OBVIOUS
  <2> HIDE DEF ch
  <2>4. MovesTo(r, l) /\ l["pc"] = "queued" /\ l["lease"] = lease
    BY <2>1, <2>3, BecomeMoves DEF Fields
  <2> HIDE DEF l
  <2>5. l.pc = "queued" /\ l.lease = lease
    BY <2>4
  <2>6. ~Held(req[r]) /\ ~Held(l) /\ ~Owes(req[r]) /\ Owes(l)
    BY <2>1, <2>5, PlacesToWait DEF Held, Alive, Owes
  <2> QED
    BY <2>1, <2>2, <2>4, <2>5, <2>6
    DEF Effect, PermitEffect, PermitKept, KeepPermits, LeaseEffect, LeaseTaken
<1>5. CASE RunOut(r)
  <2> DEFINE ch == Finished(r, req[r].attempts, req[r].skipped, req[r].error)
  <2>1. Become(r, ch) /\ req[r].pc = "next" /\ leases' = leases /\ nextToken' = nextToken /\ KeepPermits
    BY <1>5 DEF RunOut, NoReport, healthVars
  <2>2. "pc" \in DOMAIN ch => ch["pc"] \in {"next", "done"}
    BY DEF Finished
  <2> HIDE DEF ch
  <2> QED BY <2>1, <2>2, OutsideEffect
<1> QED BY <1>1, <1>2, <1>3, <1>4, <1>5

\* provider.invoke() and the ways it fails (engine.py:233-250, 396-430).
LEMMA InvokeEffect ==
    ASSUME Shaped, NEW r \in Request,
           Connect(r) \/ HeaderTimeout(r) \/ ConnectFailure(r) \/ UnknownFailure(r)
    PROVE  Effect(r)
<1>1. CASE Connect(r)
  <2> DEFINE ch == [pc |-> "sending"]
             l == Updated(req[r], ch)
  <2>1. /\ Become(r, ch) /\ req[r].pc = "queued" /\ TakePermit(r)
        /\ inUse[ProviderAt(r)] < MaxConcurrency /\ leases' = leases /\ nextToken' = nextToken
    BY <1>1, NothingReported DEF Connect, At
  <2>2. DOMAIN ch = {"pc"} /\ ch["pc"] = "sending"
    OBVIOUS
  <2> HIDE DEF ch
  <2>3. /\ MovesTo(r, l) /\ l["pc"] = "sending"
        /\ l["at"] = req[r]["at"] /\ l["plan"] = req[r]["plan"] /\ l["lease"] = req[r]["lease"]
    BY <2>1, <2>2, BecomeMoves DEF Fields
  <2> HIDE DEF l
  <2>4. l.pc = "sending" /\ l.at = req[r].at /\ l.plan = req[r].plan /\ l.lease = req[r].lease
    BY <2>3
  <2>5. ~Held(req[r]) /\ Held(l) /\ Owes(req[r]) /\ Owes(l)
    BY <2>1, <2>4, PlacesToWait DEF Held, Alive, Owes
  <2> QED
    BY <2>1, <2>3, <2>4, <2>5
    DEF Effect, PermitEffect, PermitTaken, Stays, LeaseEffect, LeaseKept
<1>2. CASE HeaderTimeout(r)
  <2>1. /\ FailNow(r, "provider_transient", 0, "fallback")
        /\ \/ req[r].pc = "sending" /\ FreePermit(r)
           \/ req[r].pc = "queued" /\ KeepPermits
    BY <1>2 DEF HeaderTimeout, At
  <2> QED BY <2>1, WaitsWhere, FailureEffect
<1>3. CASE ConnectFailure(r)
  <2>1. FailNow(r, "provider_transient", 0, "fallback") /\ req[r].pc = "sending" /\ FreePermit(r)
    BY <1>3 DEF ConnectFailure, At
  <2> QED BY <2>1, WaitsWhere, FailureEffect
<1>4. CASE UnknownFailure(r)
  <2>1. /\ FailNow(r, "provider_transient", 0, "fallback") /\ req[r].pc = "sending"
        /\ LosePermit(r)
    BY <1>4 DEF UnknownFailure, At
  <2> QED BY <2>1, WaitsWhere, FailureEffect
<1> QED BY <1>1, <1>2, <1>3, <1>4

\* The exchange is open: its head, its body or its first event (engine.py:251-329);
\* or a committed body is first iterated, or never (streaming.py:126-145).
LEMMA ExchangeEffect ==
    ASSUME Shaped, NEW r \in Request,
           \/ HttpFailure(r) \/ Headers(r) \/ ReadFailure(r) \/ Commit(r) \/ BodyRead(r)
           \/ FirstYield(r) \/ RelayBreaks(r) \/ DropUnstarted(r)
    PROVE  Effect(r)
<1>1. ASSUME NEW ch, Become(r, ch), NoReport, KeepPermits,
             req[r].pc \in {"sending", "first_event", "body", "committed"},
             "pc" \in DOMAIN ch,
             ch["pc"] \in {"closing_http", "first_event", "body", "closing_error", "committed",
                           "closing_ok", "streaming", "torn", "unstarted"},
             DOMAIN ch \cap {"at", "plan", "lease"} = {}
      PROVE  Effect(r)
  <2>1. ch["pc"] \in (Connected \ {"closing_stream"}) \union Stranded
    BY <1>1, PlacesToWait
  <2> QED BY <1>1, <2>1, WaitsWhere, InsideEffect
<1>2. CASE HttpFailure(r)
  <2>1. PICK class \in HttpFailures, retry \in RetryAfterValues :
          Become(r, [pc |-> "closing_http", pending |-> [class |-> class, retry |-> retry]])
    BY <1>2 DEF HttpFailure
  <2> DEFINE ch == [pc |-> "closing_http", pending |-> [class |-> class, retry |-> retry]]
  <2>2. DOMAIN ch = {"pc", "pending"} /\ ch["pc"] = "closing_http"
    OBVIOUS
  <2>3. Become(r, ch) /\ NoReport /\ KeepPermits /\ req[r].pc = "sending"
    BY <1>2, <2>1 DEF HttpFailure, At
  <2> HIDE DEF ch
  <2> QED BY <1>1, <2>2, <2>3
<1>3. CASE Headers(r)
  <2> DEFINE ch == [pc |-> IF r \in Streams THEN "first_event" ELSE "body"]
  <2>2. DOMAIN ch = {"pc"} /\ ch["pc"] \in {"first_event", "body"}
    OBVIOUS
  <2>3. Become(r, ch) /\ NoReport /\ KeepPermits /\ req[r].pc = "sending"
    BY <1>3 DEF Headers, At
  <2> HIDE DEF ch
  <2> QED BY <1>1, <2>2, <2>3
<1>4. CASE ReadFailure(r)
  <2>1. PICK error : Reject(r, error)
    BY <1>4 DEF ReadFailure
  <2> DEFINE class == IF error = "fallback" THEN "provider_transient" ELSE "request_rejected"
             ch == [pc |-> "closing_error", error |-> error, pending |-> [class |-> class, retry |-> 0]]
  <2>2. DOMAIN ch = {"pc", "error", "pending"} /\ ch["pc"] = "closing_error"
    OBVIOUS
  <2>3. Become(r, ch)
    BY <2>1 DEF Reject
  <2>4. NoReport /\ KeepPermits /\ req[r].pc \in {"first_event", "body"}
    BY <1>4 DEF ReadFailure, At
  <2> HIDE DEF ch
  <2> QED BY <1>1, <2>2, <2>3, <2>4
<1>5. CASE Commit(r)
  <2> DEFINE ch == [pc |-> "committed", result |-> "committed", completion |-> "pending"]
  <2>2. DOMAIN ch = {"pc", "result", "completion"} /\ ch["pc"] = "committed"
    OBVIOUS
  <2>3. Become(r, ch) /\ NoReport /\ KeepPermits /\ req[r].pc = "first_event"
    BY <1>5 DEF Commit, At
  <2> HIDE DEF ch
  <2> QED BY <1>1, <2>2, <2>3
<1>6. CASE BodyRead(r)
  <2> DEFINE ch == [pc |-> "closing_ok"]
  <2>2. DOMAIN ch = {"pc"} /\ ch["pc"] = "closing_ok"
    OBVIOUS
  <2>3. Become(r, ch) /\ NoReport /\ KeepPermits /\ req[r].pc = "body"
    BY <1>6 DEF BodyRead, At
  <2> HIDE DEF ch
  <2> QED BY <1>1, <2>2, <2>3
<1>7. CASE FirstYield(r)
  <2> DEFINE ch == [pc |-> "streaming"]
  <2>2. DOMAIN ch = {"pc"} /\ ch["pc"] = "streaming"
    OBVIOUS
  <2>3. Become(r, ch) /\ NoReport /\ KeepPermits /\ req[r].pc = "committed"
    BY <1>7 DEF FirstYield, At
  <2> HIDE DEF ch
  <2> QED BY <1>1, <2>2, <2>3
<1>8. CASE RelayBreaks(r)
  <2> DEFINE ch == [pc |-> "torn"]
  <2>2. DOMAIN ch = {"pc"} /\ ch["pc"] = "torn"
    OBVIOUS
  <2>3. Become(r, ch) /\ NoReport /\ KeepPermits /\ req[r].pc = "committed"
    BY <1>8 DEF RelayBreaks, At
  <2> HIDE DEF ch
  <2> QED BY <1>1, <2>2, <2>3
<1>9. CASE DropUnstarted(r)
  <2> DEFINE ch == [pc |-> "unstarted"]
  <2>2. DOMAIN ch = {"pc"} /\ ch["pc"] = "unstarted"
    OBVIOUS
  <2>3. Become(r, ch) /\ NoReport /\ KeepPermits /\ req[r].pc = "committed"
    BY <1>9 DEF DropUnstarted, At
  <2> HIDE DEF ch
  <2> QED BY <1>1, <2>2, <2>3
<1> QED BY <1>2, <1>3, <1>4, <1>5, <1>6, <1>7, <1>8, <1>9

\* The awaits of close(), how it may break, and cancellation (engine.py:252-272, 330-430).
LEMMA CloseEffect ==
    ASSUME Shaped, NEW r \in Request,
           \/ CloseHttp(r) \/ CloseOk(r) \/ CloseError(r) \/ CloseCancel(r) \/ CloseBreaks(r)
           \/ HandlerBreaks(r) \/ Cancel(r)
    PROVE  Effect(r)
<1> DEFINE ok == [pc |-> "done", lease |-> None, result |-> "success", completion |-> "success"]
           raised == [pc |-> "raised", pending |-> None]
           closing == [pc |-> "closing_cancel"]
<1>1. /\ "pc" \in DOMAIN ok /\ ok["pc"] = "done"
      /\ DOMAIN raised = {"pc", "pending"} /\ raised["pc"] = "raised"
      /\ "pc" \in DOMAIN Cancelled /\ Cancelled["pc"] = "done"
      /\ DOMAIN closing = {"pc"} /\ closing["pc"] = "closing_cancel"
  BY DEF Cancelled
<1> HIDE DEF ok, raised, closing
<1>2. CASE CloseHttp(r) \/ CloseError(r) \/ CloseBreaks(r)
  <2>1. /\ \E class, retry, error : FailNow(r, class, retry, error)
        /\ req[r].pc \in {"closing_http", "closing_ok", "closing_error"} /\ FreePermit(r)
    BY <1>2 DEF CloseHttp, CloseError, CloseBreaks, At
  <2> QED BY <2>1, WaitsWhere, FailureEffect
<1>3. CASE CloseOk(r)
  <2>1. Become(r, ok) /\ Report(r, "success", 0) /\ req[r].pc = "closing_ok" /\ FreePermit(r)
    BY <1>3 DEF CloseOk, At, ok
  <2> QED BY <1>1, <2>1, WaitsWhere, ReportRecords, LeavesEffect
<1>4. CASE CloseCancel(r)
  <2>1. /\ Become(r, Cancelled) /\ Report(r, "client_cancelled", 0)
        /\ req[r].pc = "closing_cancel" /\ FreePermit(r)
    BY <1>4 DEF CloseCancel, At
  <2> QED BY <1>1, <2>1, WaitsWhere, ReportRecords, LeavesEffect
<1>5. CASE HandlerBreaks(r)
  <2> DEFINE l == Updated(req[r], raised)
  <2>1. /\ Become(r, raised) /\ leases' = leases /\ nextToken' = nextToken
        /\ req[r].pc \in {"closing_error", "closing_cancel"} /\ FreePermit(r)
    BY <1>5, NothingReported DEF HandlerBreaks, At, raised
  <2>2. MovesTo(r, l) /\ l["pc"] = "raised" /\ l["lease"] = req[r]["lease"]
    BY <1>1, <2>1, BecomeMoves DEF Fields
  <2> HIDE DEF l
  <2>3. l.pc = "raised" /\ l.lease = req[r].lease
    BY <2>2
  <2>4. ~Held(l) /\ Owes(l)
    BY <2>3, PlacesToWait DEF Held, Owes
  <2> QED
    BY <2>1, <2>2, <2>3, <2>4, WaitsWhere
    DEF Effect, PermitEffect, PermitFreed, LeaseEffect, LeaseKept
<1>6. CASE Cancel(r)
  <2>1. CASE req[r].pc \in {"first_event", "body"}
    <3>1. Become(r, closing) /\ NoReport /\ KeepPermits
      BY <1>6, <2>1 DEF Cancel, closing
    <3>2. closing["pc"] \in (Connected \ {"closing_stream"}) \union Stranded
      BY <1>1, PlacesToWait
    <3> QED BY <1>1, <2>1, <3>1, <3>2, WaitsWhere, InsideEffect
  <2>2. CASE req[r].pc \notin {"first_event", "body"}
    <3>1. /\ Become(r, Cancelled) /\ Report(r, "client_cancelled", 0)
          /\ \/ req[r].pc = "queued" /\ KeepPermits
             \/ req[r].pc \in {"sending", "closing_http", "closing_ok"} /\ FreePermit(r)
      BY <1>6, <2>2 DEF Cancel, At, Cancellable
    <3> QED BY <1>1, <3>1, WaitsWhere, ReportRecords, LeavesEffect
  <2> QED BY <2>1, <2>2
<1> QED BY <1>2, <1>3, <1>4, <1>5, <1>6

\* The ends of a committed stream (streaming.py:133-231).
LEMMA StreamEffect ==
    ASSUME Shaped, NEW r \in Request,
           StreamEnds(r) \/ StreamCancelled(r) \/ StreamClosed(r)
    PROVE  Effect(r)
<1>1. CASE StreamEnds(r) \/ StreamCancelled(r)
  <2>1. PICK class, status : EndStream(r, class, status)
    BY <1>1 DEF StreamEnds, StreamCancelled
  <2> DEFINE ch == [pc |-> "closing_stream", lease |-> None, completion |-> status]
             l == Updated(req[r], ch)
  <2>2. /\ Become(r, ch) /\ Report(r, class, 0) /\ KeepPermits /\ req[r].pc = "streaming"
    BY <2>1 DEF EndStream, At
  <2>3. DOMAIN ch = {"pc", "lease", "completion"} /\ ch["pc"] = "closing_stream"
    OBVIOUS
  <2> HIDE DEF ch
  <2>4. /\ MovesTo(r, l) /\ l["pc"] = "closing_stream"
        /\ l["at"] = req[r]["at"] /\ l["plan"] = req[r]["plan"]
    BY <2>2, <2>3, BecomeMoves DEF Fields
  <2> HIDE DEF l
  <2>5. l.pc = "closing_stream" /\ Stays(r, l)
    BY <2>4 DEF Stays
  <2>6. Held(l)
    BY <2>5, PlacesToWait DEF Held
  <2>7. PermitEffect(r, l)
    BY <2>2, <2>5, <2>6, WaitsWhere DEF PermitEffect, PermitKept, KeepPermits
  <2>8. LeaseEffect(r, l)
    BY <2>2, <2>5, WaitsWhere, ReportRecords, EndsRecorded
  <2> QED BY <2>4, <2>7, <2>8 DEF Effect
<1>2. CASE StreamClosed(r)
  <2> DEFINE ch == [pc |-> "done"]
  <2>1. "pc" \in DOMAIN ch /\ ch["pc"] = "done"
    OBVIOUS
  <2>2. /\ Become(r, ch) /\ leases' = leases /\ nextToken' = nextToken /\ FreePermit(r)
        /\ req[r].pc = "closing_stream"
    BY <1>2, NothingReported DEF StreamClosed, At
  <2> HIDE DEF ch
  <2> QED BY <2>1, <2>2, WaitsWhere, LeavesEffect
<1> QED BY <1>1, <1>2

LEMMA StepEffect ==
    ASSUME Shaped, NEW r \in Request, Progress(r) \/ Interference(r)
    PROVE  Effect(r)
BY LoopEffect, InvokeEffect, ExchangeEffect, CloseEffect, StreamEffect DEF Progress, Interference

-----------------------------------------------------------------------------
(* The effects keep the books.                                              *)

LEMMA MovesOne ==
    ASSUME Shaped, NEW r \in Request, NEW l, MovesTo(r, l)
    PROVE  /\ Shaped'
           /\ req'[r] = l
           /\ \A q \in Request \ {r} : req'[q] = req[q]
<1>1. /\ req' = [req EXCEPT ![r] = l] /\ DOMAIN req = Request /\ DOMAIN l = Fields
  BY DEF MovesTo, Shaped
<1>2. req'[r] = l /\ \A q \in Request \ {r} : req'[q] = req[q]
  BY <1>1
<1>3. Shaped'
  BY <1>1, <1>2 DEF Shaped
<1> QED BY <1>2, <1>3

LEMMA PermitsKept ==
    ASSUME Shaped, PermitInv, NEW r \in Request, NEW l, MovesTo(r, l), PermitEffect(r, l)
    PROVE  PermitInv'
<1>1. req'[r] = l /\ \A q \in Request \ {r} : req'[q] = req[q]
  BY MovesOne
<1> DEFINE home == ProviderAt(r)
<1>2. \A q \in Request \ {r} : \A p : q \in Occupying(p)' <=> q \in Occupying(p)
  BY <1>1 DEF Occupying, ProviderAt, TargetOf, Targets
<1>3. \A p : (r \in Occupying(p) <=> Held(req[r]) /\ home = p) /\ (r \in Occupying(p)' => Held(l))
  BY <1>1 DEF Occupying, Held
<1>4. Stays(r, l) => \A p : r \in Occupying(p)' <=> Held(l) /\ home = p
  <2> SUFFICES ASSUME Stays(r, l)
               PROVE  \A p : r \in Occupying(p)' <=> Held(l) /\ home = p
    OBVIOUS
  <2>1. ProviderAt(r)' = home
    BY <1>1 DEF Stays, ProviderAt, TargetOf, Targets
  <2> QED BY <1>1, <2>1 DEF Occupying, Held
<1>5. \A p : Occupying(p) \subseteq Request /\ Occupying(p)' \subseteq Request
  BY DEF Occupying
<1>6. /\ inUse \in [Provider -> Nat] /\ lost \in [Provider -> Nat] /\ MaxConcurrency \in Nat
      /\ \A p \in Provider :
           /\ IsFiniteSet(Occupying(p)) /\ Cardinality(Occupying(p)) \in Nat
           /\ inUse[p] = Cardinality(Occupying(p)) + lost[p] /\ inUse[p] <= MaxConcurrency
  BY EngineAssumption, FS_CardinalityType DEF PermitInv
<1>7. /\ PermitTaken(r, l) =>
           inUse' = [inUse EXCEPT ![home] = @ + 1] /\ lost' = lost /\ inUse[home] < MaxConcurrency
      /\ PermitFreed(r, l) => inUse' = [inUse EXCEPT ![home] = @ - 1] /\ lost' = lost
      /\ PermitLost(r, l) => inUse' = inUse /\ lost' = [lost EXCEPT ![home] = @ + 1]
      /\ PermitKept(r, l) => inUse' = inUse /\ lost' = lost
  BY DEF PermitTaken, TakePermit, PermitFreed, FreePermit, PermitLost, LosePermit, PermitKept
<1> HIDE DEF home
<1>8. ASSUME NEW p
      PROVE  /\ PermitKept(r, l) \/ p # home => Occupying(p)' = Occupying(p)
             /\ PermitTaken(r, l) /\ p = home =>
                   r \notin Occupying(p) /\ Occupying(p)' = Occupying(p) \union {r}
             /\ (PermitFreed(r, l) \/ PermitLost(r, l)) /\ p = home =>
                   r \in Occupying(p) /\ Occupying(p)' = Occupying(p) \ {r}
  <2>1. \A q \in Request \ {r} : q \in Occupying(p)' <=> q \in Occupying(p)
    BY <1>2
  <2>2. (r \in Occupying(p) <=> Held(req[r]) /\ home = p) /\ (r \in Occupying(p)' => Held(l))
    BY <1>3
  <2>3. Stays(r, l) => (r \in Occupying(p)' <=> Held(l) /\ home = p)
    BY <1>4
  <2>4. Occupying(p) \subseteq Request /\ Occupying(p)' \subseteq Request
    BY <1>5
  <2>5. PermitKept(r, l) => Occupying(p)' = Occupying(p)
    BY <2>1, <2>2, <2>3, <2>4 DEF PermitKept
  <2>6. PermitTaken(r, l) =>
           /\ p # home => Occupying(p)' = Occupying(p)
           /\ p = home => r \notin Occupying(p) /\ Occupying(p)' = Occupying(p) \union {r}
    BY <2>1, <2>2, <2>3, <2>4 DEF PermitTaken
  <2>7. PermitFreed(r, l) \/ PermitLost(r, l) =>
           /\ p # home => Occupying(p)' = Occupying(p)
           /\ p = home => r \in Occupying(p) /\ Occupying(p)' = Occupying(p) \ {r}
    BY <2>1, <2>2, <2>4 DEF PermitFreed, PermitLost
  <2> QED BY <2>5, <2>6, <2>7 DEF PermitEffect
<1>9. ASSUME NEW p \in Provider
      PROVE  /\ inUse'[p] \in Nat /\ lost'[p] \in Nat
             /\ IsFiniteSet(Occupying(p)')
             /\ inUse'[p] = Cardinality(Occupying(p)') + lost'[p] /\ inUse'[p] <= MaxConcurrency
  <2>1. /\ inUse[p] \in Nat /\ lost[p] \in Nat /\ MaxConcurrency \in Nat
        /\ IsFiniteSet(Occupying(p)) /\ Cardinality(Occupying(p)) \in Nat
        /\ inUse[p] = Cardinality(Occupying(p)) + lost[p] /\ inUse[p] <= MaxConcurrency
    BY <1>6
  <2>2. CASE PermitKept(r, l) \/ p # home
    <3>1. Occupying(p)' = Occupying(p)
      BY <1>8, <2>2 DEF PermitEffect
    <3>2. inUse'[p] = inUse[p] /\ lost'[p] = lost[p]
      BY <1>6, <1>7, <2>2 DEF PermitEffect
    <3> QED BY <2>1, <3>1, <3>2
  <2>3. CASE PermitTaken(r, l) /\ p = home
    <3>1. inUse'[p] = inUse[p] + 1 /\ lost'[p] = lost[p] /\ inUse[p] < MaxConcurrency
      BY <1>6, <1>7, <2>3
    <3>2. IsFiniteSet(Occupying(p)') /\ Cardinality(Occupying(p)') = Cardinality(Occupying(p)) + 1
      BY <1>8, <2>1, <2>3, FS_AddElement
    <3> QED BY <2>1, <3>1, <3>2
  <2>4. CASE (PermitFreed(r, l) \/ PermitLost(r, l)) /\ p = home
    <3>1. IsFiniteSet(Occupying(p)') /\ Cardinality(Occupying(p)') = Cardinality(Occupying(p)) - 1
      BY <1>8, <2>1, <2>4, FS_RemoveElement
    <3>2. Cardinality(Occupying(p)') \in Nat
      BY <3>1, FS_CardinalityType
    <3>3. \/ inUse'[p] = inUse[p] - 1 /\ lost'[p] = lost[p]
          \/ inUse'[p] = inUse[p] /\ lost'[p] = lost[p] + 1
      BY <1>6, <1>7, <2>4
    <3> QED BY <2>1, <3>1, <3>2, <3>3
  <2> QED BY <2>2, <2>3, <2>4 DEF PermitEffect
<1>10. /\ inUse' = [p \in Provider |-> inUse'[p]]
       /\ lost' = [p \in Provider |-> lost'[p]]
  BY <1>6, <1>7 DEF PermitEffect
<1>11. inUse' \in [Provider -> Nat] /\ lost' \in [Provider -> Nat]
  BY <1>9, <1>10
<1> QED BY <1>9, <1>11 DEF PermitInv

LEMMA LeasesKept ==
    ASSUME Shaped, LeaseInv, NEW r \in Request, NEW l, MovesTo(r, l), LeaseEffect(r, l)
    PROVE  LeaseInv'
<1>1. req'[r] = l /\ \A q \in Request \ {r} : req'[q] = req[q]
  BY MovesOne
<1>2. /\ \A q \in Request \ {r} : Owes(req'[q]) <=> Owes(req[q])
      /\ Owes(req'[r]) <=> Owes(l)
  BY <1>1
<1>3. /\ Issued
      /\ \A q \in Request : Owes(req[q]) => req[q].lease \in leases
      /\ \A p, q \in Request : Owes(req[p]) /\ Owes(req[q]) /\ req[p].lease = req[q].lease => p = q
      /\ \A x \in leases : \E q \in Request : Owes(req[q]) /\ req[q].lease = x
  BY DEF LeaseInv
<1>4. ASSUME Issued',
             \A q \in Request : Owes(req'[q]) => req'[q].lease \in leases',
             \A p, q \in Request :
                Owes(req'[p]) /\ Owes(req'[q]) /\ req'[p].lease = req'[q].lease => p = q,
             \A x \in leases' : \E q \in Request : Owes(req'[q]) /\ req'[q].lease = x
      PROVE  LeaseInv'
  BY <1>4 DEF LeaseInv, Owes, Alive
<1>5. CASE LeaseKept(r, l)
  <2>1. \A q \in Request : /\ Owes(req'[q]) <=> Owes(req[q])
                           /\ Owes(req[q]) => req'[q].lease = req[q].lease
    BY <1>1, <1>2, <1>5 DEF LeaseKept
  <2>2. leases' = leases /\ Issued'
    BY <1>3, <1>5 DEF LeaseKept, Issued
  <2> QED BY <1>3, <1>4, <2>1, <2>2
<1>6. CASE LeaseTaken(r, l)
  <2>1. /\ \A q \in Request \ {r} :
              (Owes(req'[q]) <=> Owes(req[q])) /\ req'[q].lease = req[q].lease
        /\ Owes(req'[r]) /\ req'[r].lease = l.lease /\ ~Owes(req[r])
    BY <1>1, <1>2, <1>6 DEF LeaseTaken
  <2>2. l.lease \notin leases
    BY <1>3, <1>6 DEF LeaseTaken, Issued
  <2>3. leases' = leases \union {l.lease} /\ Issued'
    BY <1>3, <1>6 DEF LeaseTaken, Issued
  <2> QED BY <1>3, <1>4, <2>1, <2>2, <2>3
<1>7. CASE LeaseRecorded(r, l)
  <2>1. \A q \in Request : /\ Owes(req'[q]) <=> (Owes(req[q]) /\ q # r)
                           /\ q # r => req'[q].lease = req[q].lease
    BY <1>1, <1>2, <1>7 DEF LeaseRecorded
  <2>2. leases' = leases \ {req[r].lease} /\ Owes(req[r]) /\ Issued'
    BY <1>3, <1>7 DEF LeaseRecorded, Issued
  <2> QED BY <1>3, <1>4, <2>1, <2>2
<1> QED BY <1>5, <1>6, <1>7 DEF LeaseEffect

LEMMA EngineInvariance == Spec => []EngineInv
<1>1. Init => EngineInv
  <2> SUFFICES ASSUME Init PROVE EngineInv
    OBVIOUS
  <2> DEFINE start == [pc |-> "idle", plan |-> <<>>, at |-> 0, lease |-> None, attempts |-> 0,
                       skipped |-> 0, pending |-> None, error |-> None, result |-> None,
                       completion |-> None]
  <2>1. DOMAIN start = Fields /\ start.pc = "idle"
    BY DEF Fields
  <2>2. /\ req = [r \in Request |-> start] /\ inUse = [p \in Provider |-> 0]
        /\ lost = [p \in Provider |-> 0] /\ leases = {} /\ nextToken = 1
    BY DEF Init, H!Init
  <2> HIDE DEF start
  <2>3. Shaped /\ \A r \in Request : req[r].pc = "idle"
    BY <2>1, <2>2 DEF Shaped
  <2>4. \A p : Occupying(p) = {}
    BY <2>3, PlacesToWait DEF Occupying
  <2>5. PermitInv
    BY <2>2, <2>4, FS_EmptySet, EngineAssumption DEF PermitInv
  <2>6. \A r \in Request : ~Owes(req[r])
    BY <2>3, PlacesToWait DEF Owes, Alive
  <2>7. LeaseInv
    BY <2>2, <2>6 DEF LeaseInv, Issued
  <2> QED BY <2>3, <2>5, <2>7 DEF EngineInv
<1>2. EngineInv /\ [Next]_vars => EngineInv'
  <2> SUFFICES ASSUME EngineInv, [Next]_vars PROVE EngineInv'
    OBVIOUS
  <2>1. ASSUME NEW r \in Request, Progress(r) \/ Interference(r) PROVE EngineInv'
    <3>1. PICK l : MovesTo(r, l) /\ PermitEffect(r, l) /\ LeaseEffect(r, l)
      BY <2>1, StepEffect DEF EngineInv, Effect
    <3> QED BY <3>1, MovesOne, PermitsKept, LeasesKept DEF EngineInv
  <2>2. CASE UNCHANGED <<leases, nextToken, req, inUse, lost>>
    BY <2>2 DEF EngineInv, Shaped, PermitInv, Occupying, ProviderAt, TargetOf, Targets,
                LeaseInv, Issued, Owes, Alive
  <2>3. Tick \/ Idle \/ UNCHANGED vars => UNCHANGED <<leases, nextToken, req, inUse, lost>>
    BY DEF Tick, H!Tick, KeepPermits, Idle, vars
  <2> QED BY <2>1, <2>2, <2>3 DEF Next
<1> QED BY <1>1, <1>2, PTL DEF Spec

(* No path of invoke(), close() or the relay frees a permit twice or takes   *)
(* one beyond the limit, in any interleaving of cancellations, deadlines and *)
(* failures (provider adapters' close() and engine.py:233-430).              *)
THEOREM PermitsCoverHolds == Spec => []PermitsCover
<1>1. EngineInv => PermitsCover
  <2> SUFFICES ASSUME EngineInv, NEW p \in Provider
               PROVE  Cardinality(Holding(p)) <= inUse[p] /\ inUse[p] <= MaxConcurrency
    BY DEF PermitsCover
  <2>1. /\ inUse[p] \in Nat /\ lost[p] \in Nat /\ IsFiniteSet(Occupying(p))
        /\ inUse[p] = Cardinality(Occupying(p)) + lost[p] /\ inUse[p] <= MaxConcurrency
    BY DEF EngineInv, PermitInv
  <2>2. Holding(p) \in SUBSET Occupying(p)
    BY DEF Holding, Occupying
  <2>3. /\ Cardinality(Holding(p)) <= Cardinality(Occupying(p))
        /\ Cardinality(Holding(p)) \in Nat /\ Cardinality(Occupying(p)) \in Nat
    BY <2>1, <2>2, FS_Subset, FS_CardinalityType
  <2> QED BY <2>1, <2>3
<1> QED BY <1>1, EngineInvariance, PTL

(* A permit taken is that of an exchange, open or left open by a committed   *)
(* body that was never iterated or broke before its try, or invoke() lost it *)
(* to an exception its adapter does not name: every other path of            *)
(* engine.py:233-430 and streaming.py:126-231 gives it back.                 *)
THEOREM PermitsReturnedHolds == Spec => []PermitsReturned
<1>1. EngineInv => PermitsReturned
  <2> SUFFICES ASSUME EngineInv, NEW p \in Provider
               PROVE  inUse[p] <= Cardinality(Occupying(p)) + lost[p]
    BY DEF PermitsReturned
  <2>1. inUse[p] \in Nat /\ inUse[p] = Cardinality(Occupying(p)) + lost[p]
    BY DEF EngineInv, PermitInv
  <2> QED BY <2>1
<1> QED BY <1>1, EngineInvariance, PTL

LEMMA WhoOwes ==
    ASSUME NEW r \in Request
    PROVE  Owes(req[r]) <=> Live(r) \/ req[r].pc \in Unrecorded
BY DEF Owes, Alive, Live

(* Every attempt in flight has a lease the coordinator knows, and its own    *)
(* (engine.py:187-232, coordinator.py).                                      *)
THEOREM LiveLeasesActiveHolds == Spec => []LiveLeasesActive
<1>1. EngineInv => LiveLeasesActive
  BY WhoOwes DEF EngineInv, LeaseInv, LiveLeasesActive
<1> QED BY <1>1, EngineInvariance, PTL

(* And every lease in flight is that of an attempt in flight, or of one that *)
(* ended in a close() that broke inside an except handler (engine.py:330,    *)
(* 396-430), in a body that was never iterated, or in one that broke before  *)
(* its try (streaming.py:126-133): each other attempt is recorded, once.     *)
THEOREM LeasesReportedHolds == Spec => []LeasesReported
<1>1. EngineInv => LeasesReported
  BY WhoOwes DEF EngineInv, LeaseInv, LeasesReported
<1> QED BY <1>1, EngineInvariance, PTL

-----------------------------------------------------------------------------
(* What the kernel keeps of the targets it is given.                        *)

LEMMA LeastNatural ==
    ASSUME NEW S, S \subseteq Nat, S # {}
    PROVE  \E n \in S : \A m \in S : n <= m
<1>1. PICK n \in S : \A m \in S : ~ (<<m, n>> \in OpToRel(<, Nat))
  BY WFMin, NatLessThanWellFounded
<1>2. \A m \in S : ~ (m < n)
  BY <1>1 DEF OpToRel
<1> QED BY <1>2

\* Induction up to n: a set that holds 0, and each number whose predecessor it holds.
LEMMA UpTo ==
    ASSUME NEW n \in Nat, NEW S, 0 \in S, \A i \in 1..n : i - 1 \in S => i \in S
    PROVE  \A i \in 0..n : i \in S
<1> DEFINE Missing == {i \in 0..n : i \notin S}
<1>1. CASE Missing # {}
  <2>1. Missing \subseteq Nat
    OBVIOUS
  <2> HIDE DEF Missing
  <2>2. PICK i \in Missing : \A j \in Missing : i <= j
    BY <1>1, <2>1, LeastNatural
  <2> USE DEF Missing
  <2>3. i \in 1..n /\ i - 1 \in 0..n /\ i - 1 < i
    BY <2>2
  <2>4. i - 1 \in S
    BY <2>2, <2>3
  <2> QED BY <2>2, <2>3, <2>4
<1> QED BY <1>1

\* The recursion of Picked, up to position n.
Picks(f, n, s, I) ==
    f = [i \in 0 .. n |->
            IF i = 0 THEN <<>>
            ELSE IF i \in I THEN Append(f[i - 1], s[i]) ELSE f[i - 1]]

LEMMA PicksExist == ASSUME NEW n \in Nat, NEW s, NEW I PROVE \E f : Picks(f, n, s, I)
<1> DEFINE S == {m \in Nat : \E f : Picks(f, m, s, I)}
<1>1. 0 \in S
  <2>1. Picks([i \in 0 .. 0 |-> <<>>], 0, s, I)
    BY DEF Picks
  <2> QED BY <2>1
<1>2. ASSUME NEW m \in 1 .. n, m - 1 \in S PROVE m \in S
  <2>1. PICK f : Picks(f, m - 1, s, I)
    BY <1>2
  <2> DEFINE next == IF m \in I THEN Append(f[m - 1], s[m]) ELSE f[m - 1]
             g == [i \in 0 .. m |-> IF i = m THEN next ELSE f[i]]
  <2>2. \A i \in 0 .. m - 1 :
            f[i] = IF i = 0 THEN <<>> ELSE IF i \in I THEN Append(f[i - 1], s[i]) ELSE f[i - 1]
    BY <2>1 DEF Picks
  <2>3. \A i \in 0 .. m :
            g[i] = IF i = 0 THEN <<>> ELSE IF i \in I THEN Append(g[i - 1], s[i]) ELSE g[i - 1]
    BY <2>2
  <2>4. Picks(g, m, s, I)
    BY <2>3 DEF Picks
  <2> QED BY <2>4
<1> HIDE DEF S
<1>3. n \in S
  BY <1>1, <1>2, UpTo
<1> QED BY <1>3 DEF S

\* p holds elements of s at positions in I up to n, in their order, and is empty
\* only when there is none.
PickedUpTo(p, n, s, I, T) ==
    /\ p \in Seq(T)
    /\ \A k \in 1 .. Len(p) : \E i \in 1 .. n : i \in I /\ p[k] = s[i]
    /\ \A k, l \in 1 .. Len(p) :
          k < l => \E i, j \in 1 .. n : {i, j} \subseteq I /\ i < j /\ p[k] = s[i] /\ p[l] = s[j]
    /\ (\E i \in 1 .. n : i \in I) => p # <<>>

LEMMA PickOne ==
    ASSUME NEW T, NEW s \in Seq(T), NEW I, NEW n \in 1 .. Len(s), NEW p,
           PickedUpTo(p, n - 1, s, I, T)
    PROVE  PickedUpTo(IF n \in I THEN Append(p, s[n]) ELSE p, n, s, I, T)
<1>1. /\ p \in Seq(T) /\ s[n] \in T /\ n \in Nat /\ Len(s) \in Nat /\ Len(p) \in Nat
      /\ \A k \in 1 .. Len(p) : \E i \in 1 .. n - 1 : i \in I /\ p[k] = s[i]
      /\ \A k, l \in 1 .. Len(p) :
            k < l => \E i, j \in 1 .. n - 1 :
                        {i, j} \subseteq I /\ i < j /\ p[k] = s[i] /\ p[l] = s[j]
      /\ (\E i \in 1 .. n - 1 : i \in I) => p # <<>>
  BY DEF PickedUpTo
<1>2. \A i : i \in 1 .. n <=> (i \in 1 .. n - 1 \/ i = n)
  BY <1>1
<1>3. CASE n \notin I
  BY <1>1, <1>2, <1>3 DEF PickedUpTo
<1>4. CASE n \in I
  <2> DEFINE q == Append(p, s[n])
  <2>1. /\ q \in Seq(T) /\ Len(q) = Len(p) + 1 /\ q[Len(p) + 1] = s[n] /\ q # <<>>
        /\ \A k \in 1 .. Len(p) : q[k] = p[k]
    BY <1>1
  <2>2. \A k : k \in 1 .. Len(q) <=> (k \in 1 .. Len(p) \/ k = Len(p) + 1)
    BY <1>1, <2>1
  <2> HIDE DEF q
  <2>3. ASSUME NEW k \in 1 .. Len(q) PROVE \E i \in 1 .. n : i \in I /\ q[k] = s[i]
    BY <1>1, <1>2, <1>4, <2>1, <2>2
  <2>4. ASSUME NEW k \in 1 .. Len(q), NEW l \in 1 .. Len(q), k < l
        PROVE  \E i, j \in 1 .. n : {i, j} \subseteq I /\ i < j /\ q[k] = s[i] /\ q[l] = s[j]
    <3>1. k \in 1 .. Len(p)
      BY <1>1, <2>1, <2>4
    <3>2. CASE l \in 1 .. Len(p)
      <4>1. PICK i \in 1 .. n - 1, j \in 1 .. n - 1 :
              {i, j} \subseteq I /\ i < j /\ p[k] = s[i] /\ p[l] = s[j]
        BY <1>1, <2>4, <3>1, <3>2
      <4>2. i \in 1 .. n /\ j \in 1 .. n
        BY <1>2
      <4> QED BY <2>1, <3>1, <3>2, <4>1, <4>2
    <3>3. CASE l = Len(p) + 1
      <4>1. PICK i \in 1 .. n - 1 : i \in I /\ p[k] = s[i]
        BY <1>1, <3>1
      <4>2. i < n /\ i \in 1 .. n /\ n \in 1 .. n
        BY <1>1, <4>1
      <4> QED BY <1>4, <2>1, <3>1, <3>3, <4>1, <4>2
    <3> QED BY <2>2, <3>2, <3>3
  <2>5. PickedUpTo(q, n, s, I, T)
    BY <2>1, <2>3, <2>4 DEF PickedUpTo
  <2> QED BY <1>4, <2>5 DEF q
<1> QED BY <1>3, <1>4

\* What Picked returns.
LEMMA PickedKeeps ==
    ASSUME NEW T, NEW s \in Seq(T), NEW I
    PROVE  PickedUpTo(Picked(s, I), Len(s), s, I, T)
<1> DEFINE n == Len(s)
           f == CHOOSE g : Picks(g, n, s, I)
           S == {i \in 0 .. n : PickedUpTo(f[i], i, s, I, T)}
<1>1. n \in Nat
  OBVIOUS
<1>2. Picks(f, n, s, I)
  BY <1>1, PicksExist
<1>3. Picked(s, I) = f[n]
  BY DEF Picked, Picks
<1> HIDE DEF f
<1>4. /\ f[0] = <<>>
      /\ \A i \in 1 .. n : f[i] = IF i \in I THEN Append(f[i - 1], s[i]) ELSE f[i - 1]
  <2> HIDE DEF n
  <2>1. \A i \in 0 .. n :
            f[i] = IF i = 0 THEN <<>> ELSE IF i \in I THEN Append(f[i - 1], s[i]) ELSE f[i - 1]
    BY <1>2 DEF Picks
  <2> QED BY <1>1, <2>1
<1>5. 0 \in S
  <2>1. PickedUpTo(<<>>, 0, s, I, T)
    BY DEF PickedUpTo
  <2> QED BY <1>1, <1>4, <2>1
<1>6. ASSUME NEW i \in 1 .. n, i - 1 \in S PROVE i \in S
  BY <1>4, <1>6, PickOne
<1> HIDE DEF S, n
<1>7. \A i \in 0 .. n : i \in S
  BY <1>1, <1>5, <1>6, UpTo
<1>8. n \in S
  BY <1>1, <1>7
<1> QED BY <1>3, <1>8 DEF S, n


LEMMA CandidatesAreTargets ==
    ASSUME NEW q \in Query, NEW failures
    PROVE  Candidates(q, failures) \in Seq(Target)
<1> DEFINE byTier == {i \in DOMAIN Catalog :
                        /\ Catalog[i] \in q.capable
                        /\ Rank(TierOf[Catalog[i]]) >= Rank(AutoTier(q, failures))}
           byChain == {i \in DOMAIN q.chain : q.chain[i] \in q.capable}
<1>1. Catalog \in Seq(Target) /\ q.chain \in Seq(Target)
  BY KernelAssumption DEF Query
<1>2. Candidates(q, failures) = IF q.automatic THEN Picked(Catalog, byTier) ELSE Picked(q.chain, byChain)
  BY DEF Candidates
<1> HIDE DEF byTier, byChain
<1> QED BY <1>1, <1>2, PickedKeeps DEF PickedUpTo

\* No two targets of ts would probe the same domain.
ProbesApart(ts, view) ==
    \A k, l \in DOMAIN ts :
        k # l => ProbeKey(ts[k], view) = None \/ ProbeKey(ts[k], view) # ProbeKey(ts[l], view)

LEMMA AvailableKeeps ==
    ASSUME NEW targets \in Seq(Target), NEW view
    PROVE  /\ Available(targets, view) \in Seq(Target)
           /\ \A k \in DOMAIN Available(targets, view) : view[Available(targets, view)[k]].eligible
           /\ ProbesApart(Available(targets, view), view)
           /\ (\E i \in DOMAIN targets : view[targets[i]].eligible) => Available(targets, view) # <<>>
<1> DEFINE n == Len(targets)
           E == EligibleAt(targets, view)
           Key(i) == ProbeKey(targets[i], view)
           I == {i \in E : Key(i) # None => \A j \in E : Key(j) = Key(i) => i <= j}
           p == Picked(targets, I)
<1>1. n \in Nat /\ DOMAIN targets = 1 .. n
  OBVIOUS
<1>2. \A i : i \in E <=> (i \in 1 .. n /\ view[targets[i]].eligible)
  BY <1>1 DEF EligibleAt
<1>3. Available(targets, view) = p
  BY DEF Available
<1> HIDE DEF E
<1>4. /\ \A i \in I : i \in E
      /\ \A i, j \in I : i < j => Key(i) = None \/ Key(i) # Key(j)
  <2>1. \A i \in I : i \in E /\ (Key(i) # None => \A j \in E : Key(j) = Key(i) => i <= j)
    OBVIOUS
  <2>2. E \subseteq Nat
    BY <1>2
  <2> HIDE DEF I
  <2>3. ASSUME NEW i \in I, NEW j \in I, i < j PROVE Key(i) = None \/ Key(i) # Key(j)
    <3>1. i \in E /\ j \in E
      BY <2>1
    <3>2. i \in Nat /\ j \in Nat
      BY <2>2, <3>1
    <3>3. ~ (j <= i)
      BY <2>3, <3>2
    <3> HIDE DEF Key
    <3>4. Key(j) = Key(i) => Key(j) = None
      BY <2>1, <3>1, <3>3
    <3> QED BY <3>4
  <2> QED BY <2>1, <2>3
<1>5. PickedUpTo(p, n, targets, I, Target)
  <2> HIDE DEF I
  <2> QED BY PickedKeeps
<1>6. E # {} => \E i \in 1 .. n : i \in I
  <2> SUFFICES ASSUME E # {} PROVE \E i \in 1 .. n : i \in I
    OBVIOUS
  <2>1. E \subseteq Nat
    BY <1>2
  <2>2. PICK i \in E : \A j \in E : i <= j
    BY <2>1, LeastNatural
  <2> HIDE DEF Key
  <2> QED BY <1>2, <2>2
<1> HIDE DEF I, p
<1>7. p \in Seq(Target) /\ DOMAIN p = 1 .. Len(p) /\ Len(p) \in Nat
  BY <1>5 DEF PickedUpTo
<1>8. ASSUME NEW k \in DOMAIN p PROVE view[p[k]].eligible
  <2>1. PICK i \in 1 .. n : i \in I /\ p[k] = targets[i]
    BY <1>5, <1>7 DEF PickedUpTo
  <2> QED BY <1>2, <1>4, <2>1
<1>9. ASSUME NEW k \in DOMAIN p, NEW l \in DOMAIN p, k < l
      PROVE  ProbeKey(p[k], view) = None \/ ProbeKey(p[k], view) # ProbeKey(p[l], view)
  <2>1. PICK i \in 1 .. n, j \in 1 .. n :
          {i, j} \subseteq I /\ i < j /\ p[k] = targets[i] /\ p[l] = targets[j]
    BY <1>5, <1>7, <1>9 DEF PickedUpTo
  <2>2. Key(i) = None \/ Key(i) # Key(j)
    BY <1>4, <2>1
  <2> QED BY <2>1, <2>2
<1>10. ProbesApart(p, view)
  <2>1. ASSUME NEW k \in DOMAIN p, NEW l \in DOMAIN p, k # l
        PROVE  ProbeKey(p[k], view) = None \/ ProbeKey(p[k], view) # ProbeKey(p[l], view)
    <3>1. k < l \/ l < k
      BY <1>7, <2>1
    <3> QED BY <1>9, <3>1
  <2> QED BY <2>1 DEF ProbesApart
<1>11. (\E i \in DOMAIN targets : view[targets[i]].eligible) => p # <<>>
  BY <1>1, <1>2, <1>5, <1>6 DEF PickedUpTo
<1> QED BY <1>3, <1>7, <1>8, <1>10, <1>11

LEMMA InScopeKeeps ==
    ASSUME NEW q, NEW targets \in Seq(Target), targets # <<>>
    PROVE  PickedUpTo(InScope(q, targets), Len(targets), targets, DOMAIN targets, Target)
           /\ InScope(q, targets) # <<>>
<1> DEFINE I == {i \in DOMAIN targets : ScopeOf[targets[i]] = ScopeOf[targets[1]]}
<1>1. Len(targets) \in Nat /\ DOMAIN targets = 1 .. Len(targets) /\ 1 \in 1 .. Len(targets)
  OBVIOUS
<1>2. CASE q.stateful
  <2>1. InScope(q, targets) = Picked(targets, I)
    BY <1>2 DEF InScope
  <2>2. 1 \in I /\ I \subseteq DOMAIN targets
    BY <1>1
  <2> HIDE DEF I
  <2>3. PickedUpTo(Picked(targets, I), Len(targets), targets, I, Target)
    BY PickedKeeps
  <2> QED BY <1>1, <2>1, <2>2, <2>3 DEF PickedUpTo
<1>3. CASE ~q.stateful
  <2>1. InScope(q, targets) = targets
    BY <1>3 DEF InScope
  <2> QED BY <1>1, <2>1 DEF PickedUpTo
<1> QED BY <1>2, <1>3

(* A plan of the kernel names only targets the snapshot shows as eligible,  *)
(* no two of which would probe the same domain, and it is refused only when *)
(* the snapshot shows no candidate as eligible (kernel.py:112-213).         *)
THEOREM PlanIsServable ==
    ASSUME NEW q \in Query, NEW failures, NEW view
    PROVE  /\ PlannedTargets(q, failures, view) \in Seq(Target)
           /\ \A k \in DOMAIN PlannedTargets(q, failures, view) :
                 view[PlannedTargets(q, failures, view)[k]].eligible
           /\ ProbesApart(PlannedTargets(q, failures, view), view)
           /\ PlannedTargets(q, failures, view) = <<>> =>
                 \A i \in DOMAIN Candidates(q, failures) :
                    ~view[Candidates(q, failures)[i]].eligible
<1> DEFINE candidates == Candidates(q, failures)
           available == Available(candidates, view)
           planned == PlannedTargets(q, failures, view)
<1>1. candidates \in Seq(Target)
  BY CandidatesAreTargets
<1>2. planned = IF available = <<>> THEN <<>> ELSE InScope(q, available)
  BY DEF PlannedTargets
<1> HIDE DEF candidates
<1>3. /\ available \in Seq(Target)
      /\ \A k \in DOMAIN available : view[available[k]].eligible
      /\ ProbesApart(available, view)
      /\ (\E i \in DOMAIN candidates : view[candidates[i]].eligible) => available # <<>>
  BY <1>1, AvailableKeeps
<1> HIDE DEF available, planned
<1>4. CASE available = <<>>
  <2>1. planned = <<>> /\ <<>> \in Seq(Target) /\ DOMAIN <<>> = {}
    BY <1>2, <1>4
  <2>2. ProbesApart(planned, view)
    BY <2>1 DEF ProbesApart
  <2> QED BY <1>3, <1>4, <2>1, <2>2 DEF candidates, planned
<1>5. CASE available # <<>>
  <2>1. planned # <<>> /\ PickedUpTo(planned, Len(available), available, DOMAIN available, Target)
    BY <1>2, <1>3, <1>5, InScopeKeeps
  <2>2. planned \in Seq(Target) /\ DOMAIN planned = 1 .. Len(planned) /\ Len(planned) \in Nat
    BY <2>1 DEF PickedUpTo
  <2>3. \A k \in DOMAIN planned : view[planned[k]].eligible
    BY <1>3, <2>1, <2>2 DEF PickedUpTo
  <2>4. ASSUME NEW k \in DOMAIN planned, NEW l \in DOMAIN planned, k < l
        PROVE  ProbeKey(planned[k], view) = None
               \/ ProbeKey(planned[k], view) # ProbeKey(planned[l], view)
    <3>1. PICK i \in 1 .. Len(available), j \in 1 .. Len(available) :
            {i, j} \subseteq DOMAIN available /\ i < j
            /\ planned[k] = available[i] /\ planned[l] = available[j]
      BY <2>1, <2>2, <2>4 DEF PickedUpTo
    <3>2. i # j
      BY <3>1
    <3> QED BY <1>3, <3>1, <3>2 DEF ProbesApart
  <2>5. ProbesApart(planned, view)
    <3>1. ASSUME NEW k \in DOMAIN planned, NEW l \in DOMAIN planned, k # l
          PROVE  ProbeKey(planned[k], view) = None
                 \/ ProbeKey(planned[k], view) # ProbeKey(planned[l], view)
      <4>1. k < l \/ l < k
        BY <2>2, <3>1
      <4> QED BY <2>4, <4>1
    <3> QED BY <3>1 DEF ProbesApart
  <2> QED BY <2>1, <2>2, <2>3, <2>5 DEF planned
<1> QED BY <1>4, <1>5


-----------------------------------------------------------------------------
(* The coordinator under the engine.                                        *)

Retries == RetryAfterValues \union {0}

\* The coordinator's specification, for callers that may report every class.
Coordinator == INSTANCE HealthCoordinatorProofs
                  WITH OutcomeClasses <- H!FailureClass, RetryAfterValues <- Retries

LEMMA CoordinatorAssumed ==
    /\ Coordinator!DomainAssumption /\ Coordinator!ConfigAssumption
    /\ Coordinator!EnvironmentAssumption /\ Coordinator!BoundAssumption
BY HealthAssumption
DEF Retries, H!DomainAssumption, Coordinator!DomainAssumption, H!ConfigAssumption,
    Coordinator!ConfigAssumption, H!EnvironmentAssumption, Coordinator!EnvironmentAssumption,
    H!BoundAssumption, Coordinator!BoundAssumption, H!Domain, Coordinator!Domain,
    H!FailureClass, Coordinator!FailureClass, H!ProviderTransient,
    Coordinator!ProviderTransient, H!ProviderPermanent, Coordinator!ProviderPermanent,
    H!TargetTransient, Coordinator!TargetTransient, H!TargetPermanent,
    Coordinator!TargetPermanent

LEMMA SameCardinality == \A S : H!Cardinality(S) = Coordinator!Cardinality(S)
BY DEF H!Cardinality, Coordinator!Cardinality

LEMMA SameAcquire ==
    ASSUME NEW t \in Target, H!Acquire(t)
    PROVE  Coordinator!Acquire(t)
BY SameCardinality
DEF H!Acquire, Coordinator!Acquire, H!Admitted, Coordinator!Admitted, H!Admits,
    Coordinator!Admits, H!EffectiveState, Coordinator!EffectiveState, H!ProbeDomain,
    Coordinator!ProbeDomain, H!Domain, Coordinator!Domain, H!StartProbe,
    Coordinator!StartProbe, H!NewLease, Coordinator!NewLease, H!NextGeneration,
    Coordinator!NextGeneration

LEMMA SameRecord ==
    ASSUME NEW l, NEW class, NEW retry, H!Record(l, class, retry)
    PROVE  Coordinator!Record(l, class, retry)
BY SameCardinality
DEF H!Record, Coordinator!Record, H!RecordSuccess, Coordinator!RecordSuccess,
    H!RecordTransient, Coordinator!RecordTransient, H!RecordPermanent,
    Coordinator!RecordPermanent, H!RecordNeutral, Coordinator!RecordNeutral,
    H!ProviderTransient, Coordinator!ProviderTransient, H!ProviderPermanent,
    Coordinator!ProviderPermanent, H!TargetTransient, Coordinator!TargetTransient,
    H!TargetPermanent, Coordinator!TargetPermanent, H!DomainsOf, Coordinator!DomainsOf,
    H!LeaseGeneration, Coordinator!LeaseGeneration, H!Current, Coordinator!Current,
    H!ChargedTo, Coordinator!ChargedTo, H!Charged, Coordinator!Charged, H!Dirty,
    Coordinator!Dirty, H!Reset, Coordinator!Reset, H!FreshRecord, Coordinator!FreshRecord,
    H!CooldownSeconds, Coordinator!CooldownSeconds, H!IsProbeOf, Coordinator!IsProbeOf,
    H!WindowExpired, Coordinator!WindowExpired, H!CountFailure, Coordinator!CountFailure,
    H!Noted, Coordinator!Noted, H!ThresholdReached, Coordinator!ThresholdReached,
    H!Overflows, Coordinator!Overflows, H!TransientFailure, Coordinator!TransientFailure,
    H!PermanentFailure, Coordinator!PermanentFailure, H!HoldsProbe, Coordinator!HoldsProbe,
    H!ReleaseProbe, Coordinator!ReleaseProbe, H!GenerationSteps, Coordinator!GenerationSteps,
    H!NextGeneration, Coordinator!NextGeneration, H!Domain, Coordinator!Domain

LEMMA SameTick == H!Tick => Coordinator!Tick
BY DEF H!Tick, Coordinator!Tick

LEMMA SameInit == H!Init => Coordinator!Init
BY DEF H!Init, Coordinator!Init, H!Domain, Coordinator!Domain, H!FreshRecord,
       Coordinator!FreshRecord

-----------------------------------------------------------------------------
(* What a request writes.                                                   *)

Verdict == [class : H!FailureClass, retry : Retries]

\* A request that closes a failed exchange knows what it will record.
VerdictKnown ==
    \A r \in Request : req[r].pc \in {"closing_http", "closing_error"} => req[r].pending \in Verdict

Result == {"success", "committed", "no_capable_model", "no_available_target", "timeout",
           "rejected", "exhausted", "cancelled", None}
Completion == {"success", "error", "cancelled", "pending", None}

\* A write of a request that waits, or has just been answered.
Onward(r, ch) ==
    /\ "pc" \in DOMAIN ch /\ ch["pc"] \in Awaits \union Over \union {"next"}
    /\ DOMAIN ch \cap {"plan", "attempts", "skipped"} = {}
    /\ "at" \in DOMAIN ch => ch["at"] = req[r].at + 1
    /\ "lease" \in DOMAIN ch => ch["lease"] = None
    /\ "pending" \in DOMAIN ch => ch["pending"] \in Verdict \union {None}
    /\ "error" \in DOMAIN ch => ch["error"] \in Errors \/ ch["error"] = req[r].error
    /\ "result" \in DOMAIN ch => ch["result"] \in Result
    /\ "completion" \in DOMAIN ch => ch["completion"] \in Completion
    /\ ch["pc"] \in {"closing_http", "closing_error"} =>
          "pending" \in DOMAIN ch /\ ch["pending"] \in Verdict

\* What the step of a waiting request may do to the coordinator.
Reports(r) ==
    \/ UNCHANGED healthVars
    \/ Alive(req[r]) /\ \E class \in H!FailureClass, retry \in Retries : Report(r, class, retry)

Answered(r) ==
    /\ Settled /\ req[r].pc \in Awaits /\ Reports(r)
    /\ \E ch : Become(r, ch) /\ Onward(r, ch)

LEMMA AwaitsAre ==
    /\ Awaits = {"queued", "sending", "first_event", "body", "closing_http", "closing_ok",
                 "closing_error", "closing_cancel", "committed", "streaming",
                 "closing_stream"}
    /\ \A r \in Request : req[r].pc \in Awaits \ {"closing_stream"} => Alive(req[r])
    /\ {"success", "client_cancelled", "request_rejected", "provider_transient",
        "post_commit_stream_failure"} \union HttpFailures \subseteq H!FailureClass
    /\ 0 \in Retries /\ RetryAfterValues \subseteq Retries
    /\ Errors = {"fallback", "final", "timeout"}
    /\ Over = {"unstarted", "torn", "raised", "done"}
BY EngineAssumption
DEF Over, Unrecorded, Stranded, Awaits, Connected, Alive, Retries, Errors, H!FailureClass, H!ProviderTransient,
    H!ProviderPermanent, H!TargetTransient, H!TargetPermanent

LEMMA FailureOnward ==
    ASSUME NEW r \in Request, NEW error, error \in Errors \/ error = req[r].error
    PROVE  Onward(r, AfterFailure(r, error))
<1>1. CASE error # "fallback" \/ req[r].at >= Len(Targets(r))
  <2> DEFINE raised == Raised(req[r].attempts, req[r].skipped, error)
             ch == [pc |-> "done", lease |-> None, pending |-> None, result |-> raised, error |-> error]
  <2>1. AfterFailure(r, error) = ch
    BY <1>1 DEF AfterFailure, Finished
  <2>2. raised \in Result
    BY DEF Raised, Result
  <2> HIDE DEF raised
  <2>3. Onward(r, ch)
    BY <2>2, AwaitsAre DEF Onward
  <2> QED BY <2>1, <2>3
<1>2. CASE ~ (error # "fallback" \/ req[r].at >= Len(Targets(r)))
  <2> DEFINE ch == [lease |-> None, pending |-> None, pc |-> "next", at |-> req[r].at + 1,
                    error |-> error]
  <2>1. AfterFailure(r, error) = ch
    BY <1>2 DEF AfterFailure
  <2>2. Onward(r, ch)
    BY AwaitsAre DEF Onward
  <2> QED BY <2>1, <2>2
<1> QED BY <1>1, <1>2

LEMMA FailureAnswered ==
    ASSUME NEW r \in Request, NEW error, error \in Errors \/ error = req[r].error,
           NEW class \in H!FailureClass, NEW retry \in Retries,
           FailNow(r, class, retry, error), Settled, req[r].pc \in Awaits \ {"closing_stream"}
    PROVE  Answered(r)
BY FailureOnward, AwaitsAre DEF Answered, Reports, FailNow


\* A step that reports nothing.
LEMMA SilentAnswered ==
    ASSUME NEW r \in Request, Settled, req[r].pc \in Awaits, NoReport,
           NEW ch, Become(r, ch), Onward(r, ch)
    PROVE  Answered(r)
BY DEF Answered, Reports, NoReport

\* A step that records how the attempt ended.
LEMMA ReportAnswered ==
    ASSUME NEW r \in Request, Settled, req[r].pc \in Awaits \ {"closing_stream"},
           NEW class \in H!FailureClass, Report(r, class, 0),
           NEW ch, Become(r, ch), Onward(r, ch)
    PROVE  Answered(r)
BY AwaitsAre DEF Answered, Reports

LEMMA InvokeAnswered ==
    ASSUME NEW r \in Request,
           \/ Connect(r) \/ HeaderTimeout(r) \/ ConnectFailure(r) \/ UnknownFailure(r)
           \/ HttpFailure(r) \/ Headers(r)
    PROVE  Answered(r)
<1>1. CASE Connect(r)
  <2>1. Onward(r, [pc |-> "sending"])
    BY AwaitsAre DEF Onward
  <2> QED BY <1>1, <2>1, AwaitsAre, SilentAnswered DEF Connect, At
<1>2. CASE HeaderTimeout(r) \/ ConnectFailure(r) \/ UnknownFailure(r)
  <2>1. /\ Settled /\ req[r].pc \in {"queued", "sending"}
        /\ FailNow(r, "provider_transient", 0, "fallback")
    BY <1>2 DEF HeaderTimeout, ConnectFailure, UnknownFailure, At
  <2>2. /\ req[r].pc \in Awaits \ {"closing_stream"}
        /\ "provider_transient" \in H!FailureClass /\ 0 \in Retries /\ "fallback" \in Errors
    BY <2>1, AwaitsAre
  <2> QED BY <2>1, <2>2, FailureAnswered
<1>3. CASE HttpFailure(r)
  <2>1. PICK class \in HttpFailures, retry \in RetryAfterValues :
          Become(r, [pc |-> "closing_http", pending |-> [class |-> class, retry |-> retry]])
    BY <1>3 DEF HttpFailure
  <2> DEFINE verdict == [class |-> class, retry |-> retry]
             ch == [pc |-> "closing_http", pending |-> verdict]
  <2>2. verdict \in Verdict
    BY AwaitsAre DEF Verdict
  <2>3. Become(r, ch)
    BY <2>1
  <2> HIDE DEF verdict
  <2>4. Onward(r, ch)
    BY <2>2, AwaitsAre DEF Onward
  <2> HIDE DEF ch
  <2> QED BY <1>3, <2>3, <2>4, AwaitsAre, SilentAnswered DEF HttpFailure, At
<1>4. CASE Headers(r)
  <2> DEFINE ch == [pc |-> IF r \in Streams THEN "first_event" ELSE "body"]
  <2>1. Onward(r, ch)
    BY AwaitsAre DEF Onward
  <2>2. Become(r, ch)
    BY <1>4 DEF Headers
  <2> HIDE DEF ch
  <2> QED BY <1>4, <2>1, <2>2, AwaitsAre, SilentAnswered DEF Headers, At
<1> QED BY <1>1, <1>2, <1>3, <1>4

LEMMA ReadAnswered ==
    ASSUME NEW r \in Request, ReadFailure(r) \/ Commit(r) \/ BodyRead(r) \/ FirstYield(r)
    PROVE  Answered(r)
<1>1. CASE ReadFailure(r)
  <2>1. PICK error \in Errors : Reject(r, error)
    BY <1>1, AwaitsAre DEF ReadFailure
  <2> DEFINE class == IF error = "fallback" THEN "provider_transient" ELSE "request_rejected"
             verdict == [class |-> class, retry |-> 0]
             ch == [pc |-> "closing_error", error |-> error, pending |-> verdict]
  <2>2. verdict \in Verdict
    BY AwaitsAre DEF Verdict
  <2>3. Become(r, ch)
    BY <2>1 DEF Reject
  <2> HIDE DEF verdict
  <2>4. Onward(r, ch)
    BY <2>2, AwaitsAre DEF Onward
  <2> HIDE DEF ch
  <2> QED BY <1>1, <2>3, <2>4, AwaitsAre, SilentAnswered DEF ReadFailure, At
<1>2. CASE Commit(r)
  <2> DEFINE ch == [pc |-> "committed", result |-> "committed", completion |-> "pending"]
  <2>1. Onward(r, ch)
    BY AwaitsAre DEF Onward, Result, Completion
  <2>2. Become(r, ch)
    BY <1>2 DEF Commit
  <2> HIDE DEF ch
  <2> QED BY <1>2, <2>1, <2>2, AwaitsAre, SilentAnswered DEF Commit, At
<1>3. CASE BodyRead(r)
  <2>1. Onward(r, [pc |-> "closing_ok"])
    BY AwaitsAre DEF Onward
  <2> QED BY <1>3, <2>1, AwaitsAre, SilentAnswered DEF BodyRead, At
<1>4. CASE FirstYield(r)
  <2>1. Onward(r, [pc |-> "streaming"])
    BY AwaitsAre DEF Onward
  <2> QED BY <1>4, <2>1, AwaitsAre, SilentAnswered DEF FirstYield, At
<1> QED BY <1>1, <1>2, <1>3, <1>4

LEMMA CloseAnswered ==
    ASSUME VerdictKnown, NEW r \in Request,
           \/ CloseHttp(r) \/ CloseOk(r) \/ CloseError(r) \/ CloseCancel(r) \/ CloseBreaks(r)
           \/ HandlerBreaks(r) \/ Cancel(r)
    PROVE  Answered(r)
<1> DEFINE ok == [pc |-> "done", lease |-> None, result |-> "success", completion |-> "success"]
           raised == [pc |-> "raised", pending |-> None]
           closing == [pc |-> "closing_cancel"]
<1>1. /\ Onward(r, ok) /\ Onward(r, raised) /\ Onward(r, closing) /\ Onward(r, Cancelled)
  BY AwaitsAre DEF Onward, Result, Completion, Cancelled
<1> HIDE DEF ok, raised, closing
<1>2. CASE CloseHttp(r) \/ CloseError(r)
  <2>1. /\ Settled /\ req[r].pc \in {"closing_http", "closing_error"}
        /\ \/ FailNow(r, req[r].pending.class, req[r].pending.retry, ErrorOf(req[r].pending.class))
           \/ FailNow(r, req[r].pending.class, req[r].pending.retry, req[r].error)
    BY <1>2 DEF CloseHttp, CloseError, At
  <2>2. req[r].pending.class \in H!FailureClass /\ req[r].pending.retry \in Retries
    BY <2>1 DEF VerdictKnown, Verdict
  <2>3. ErrorOf(req[r].pending.class) \in Errors /\ req[r].pc \in Awaits \ {"closing_stream"}
    BY <2>1, AwaitsAre DEF ErrorOf
  <2> QED BY <2>1, <2>2, <2>3, FailureAnswered
<1>3. CASE CloseBreaks(r)
  <2>1. /\ Settled /\ req[r].pc \in {"closing_http", "closing_ok"}
        /\ FailNow(r, "provider_transient", 0, "fallback")
    BY <1>3 DEF CloseBreaks, At
  <2>2. /\ req[r].pc \in Awaits \ {"closing_stream"}
        /\ "provider_transient" \in H!FailureClass /\ 0 \in Retries /\ "fallback" \in Errors
    BY <2>1, AwaitsAre
  <2> QED BY <2>1, <2>2, FailureAnswered
<1>4. CASE CloseOk(r)
  <2>1. Become(r, ok) /\ Report(r, "success", 0) /\ Settled /\ req[r].pc = "closing_ok"
    BY <1>4 DEF CloseOk, At, ok
  <2> QED BY <1>1, <2>1, AwaitsAre, ReportAnswered
<1>5. CASE CloseCancel(r)
  <2>1. /\ Become(r, Cancelled) /\ Report(r, "client_cancelled", 0) /\ Settled
        /\ req[r].pc = "closing_cancel"
    BY <1>5 DEF CloseCancel, At
  <2> QED BY <1>1, <2>1, AwaitsAre, ReportAnswered
<1>6. CASE HandlerBreaks(r)
  <2>1. /\ Become(r, raised) /\ NoReport /\ Settled
        /\ req[r].pc \in {"closing_error", "closing_cancel"}
    BY <1>6 DEF HandlerBreaks, At, raised
  <2> QED BY <1>1, <2>1, AwaitsAre, SilentAnswered
<1>7. CASE Cancel(r)
  <2>1. CASE req[r].pc \in {"first_event", "body"}
    <3>1. Become(r, closing) /\ NoReport /\ Settled
      BY <1>7, <2>1 DEF Cancel, At, closing
    <3> QED BY <1>1, <2>1, <3>1, AwaitsAre, SilentAnswered
  <2>2. CASE req[r].pc \notin {"first_event", "body"}
    <3>1. /\ Become(r, Cancelled) /\ Report(r, "client_cancelled", 0) /\ Settled
          /\ req[r].pc \in {"queued", "sending", "closing_http", "closing_ok"}
      BY <1>7, <2>2 DEF Cancel, At, Cancellable
    <3> QED BY <1>1, <3>1, AwaitsAre, ReportAnswered
  <2> QED BY <2>1, <2>2
<1> QED BY <1>2, <1>3, <1>4, <1>5, <1>6, <1>7

LEMMA StreamAnswered ==
    ASSUME NEW r \in Request,
           \/ RelayBreaks(r) \/ DropUnstarted(r)
           \/ StreamEnds(r) \/ StreamCancelled(r) \/ StreamClosed(r)
    PROVE  Answered(r)
<1>1. CASE RelayBreaks(r) \/ DropUnstarted(r)
  <2>1. Onward(r, [pc |-> "torn"]) /\ Onward(r, [pc |-> "unstarted"])
    BY AwaitsAre DEF Onward
  <2>2. /\ Become(r, [pc |-> "torn"]) \/ Become(r, [pc |-> "unstarted"])
        /\ NoReport /\ Settled /\ req[r].pc = "committed"
    BY <1>1 DEF RelayBreaks, DropUnstarted, At
  <2> QED BY <2>1, <2>2, AwaitsAre, SilentAnswered
<1>2. CASE StreamEnds(r) \/ StreamCancelled(r)
  <2>1. PICK class \in {"success", "post_commit_stream_failure", "client_cancelled"},
             status \in {"success", "error", "cancelled"} : EndStream(r, class, status)
    BY <1>2 DEF StreamEnds, StreamCancelled
  <2> DEFINE ch == [pc |-> "closing_stream", lease |-> None, completion |-> status]
  <2>2. Onward(r, ch)
    BY AwaitsAre DEF Onward, Completion
  <2>3. Become(r, ch) /\ Report(r, class, 0) /\ Settled /\ req[r].pc = "streaming"
    BY <2>1 DEF EndStream, At
  <2> HIDE DEF ch
  <2>4. class \in H!FailureClass
    BY AwaitsAre
  <2> QED BY <2>2, <2>3, <2>4, AwaitsAre, ReportAnswered
<1>3. CASE StreamClosed(r)
  <2>1. Onward(r, [pc |-> "done"])
    BY AwaitsAre DEF Onward
  <2> QED BY <1>3, <2>1, AwaitsAre, SilentAnswered DEF StreamClosed, At
<1> QED BY <1>1, <1>2, <1>3

\* A step of a request: one of the loop, or the answer to an await.
LEMMA StepAnswered ==
    ASSUME VerdictKnown, NEW r \in Request, Progress(r) \/ Interference(r)
    PROVE  Resolve(r) \/ Expire(r) \/ Skip(r) \/ Admit(r) \/ RunOut(r) \/ Answered(r)
BY InvokeAnswered, ReadAnswered, CloseAnswered, StreamAnswered DEF Progress, Interference


\* The loop is left.
Ends(r) ==
    /\ req[r].pc = "next" /\ UNCHANGED healthVars
    /\ \E ch : Become(r, ch) /\ Onward(r, ch) /\ ch["pc"] = "done"

LEMMA EndsHow ==
    ASSUME NEW r \in Request, Expire(r) \/ RunOut(r)
    PROVE  Ends(r)
<1>1. PICK error \in {"timeout", req[r].error} :
        Become(r, Finished(r, req[r].attempts, req[r].skipped, error))
  BY DEF Expire, RunOut
<1> DEFINE raised == Raised(req[r].attempts, req[r].skipped, error)
           ch == [pc |-> "done", lease |-> None, pending |-> None, result |-> raised, error |-> error]
<1>2. raised \in Result
  BY DEF Raised, Result
<1>3. Become(r, ch)
  BY <1>1 DEF Finished
<1> HIDE DEF raised
<1>4. Onward(r, ch) /\ ch["pc"] = "done"
  BY <1>2, AwaitsAre DEF Onward
<1> HIDE DEF ch
<1> QED BY <1>3, <1>4 DEF Ends, Expire, RunOut, NoReport

LEMMA StepKinds ==
    ASSUME VerdictKnown, NEW r \in Request, Progress(r) \/ Interference(r)
    PROVE  Resolve(r) \/ Skip(r) \/ Admit(r) \/ Ends(r) \/ Answered(r)
BY StepAnswered, EndsHow

LEMMA BecomeFields ==
    ASSUME Shaped, NEW r \in Request, NEW ch, Become(r, ch)
    PROVE  /\ Shaped'
           /\ \A f \in Fields : req'[r][f] = IF f \in DOMAIN ch THEN ch[f] ELSE req[r][f]
           /\ \A q \in Request \ {r} : req'[q] = req[q]
BY BecomeMoves, MovesOne

\* What each step of the loop leaves in the local variables of the request.
Routed(r) ==
    \E failures \in SessionFailures :
       LET planned == PlannedTargets(QueryOf[r], failures, H!Snapshot)
           l == req'[r]
       IN  /\ \A f \in {"lease", "attempts", "skipped", "pending", "error", "completion"} :
                 l[f] = req[r][f]
           /\ \/ /\ planned # <<>> /\ l.pc = "next" /\ l.at = 1 /\ l.plan = planned
                 /\ l.result = req[r].result
              \/ /\ planned = <<>> /\ l.pc = "done" /\ l.at = req[r].at /\ l.plan = req[r].plan
                 /\ IF Candidates(QueryOf[r], failures) # <<>>
                    THEN l.result = "no_available_target" ELSE l.result = "no_capable_model"

LEMMA ResolveWrites ==
    ASSUME Shaped, NEW r \in Request, Resolve(r)
    PROVE  /\ Settled /\ req[r].pc = "idle" /\ UNCHANGED healthVars
           /\ Shaped' /\ \A q \in Request \ {r} : req'[q] = req[q]
           /\ Routed(r)
<1>1. PICK failures \in SessionFailures :
        LET planned == PlannedTargets(QueryOf[r], failures, H!Snapshot)
        IN  Become(r, IF planned # <<>> THEN [pc |-> "next", at |-> 1, plan |-> planned]
                      ELSE IF Candidates(QueryOf[r], failures) # <<>>
                      THEN [pc |-> "done", result |-> "no_available_target"]
                      ELSE [pc |-> "done", result |-> "no_capable_model"])
  BY DEF Resolve
<1> DEFINE planned == PlannedTargets(QueryOf[r], failures, H!Snapshot)
           some == Candidates(QueryOf[r], failures) # <<>>
           ch == IF planned # <<>> THEN [pc |-> "next", at |-> 1, plan |-> planned]
                 ELSE IF some THEN [pc |-> "done", result |-> "no_available_target"]
                 ELSE [pc |-> "done", result |-> "no_capable_model"]
<1>2. Become(r, ch)
  BY <1>1
<1>3. Settled /\ req[r].pc = "idle" /\ UNCHANGED healthVars
  BY DEF Resolve, At, NoReport
<1> HIDE DEF planned, some
<1>4. /\ planned # <<>> => /\ DOMAIN ch = {"pc", "at", "plan"}
                           /\ ch["pc"] = "next" /\ ch["at"] = 1 /\ ch["plan"] = planned
      /\ planned = <<>> => /\ DOMAIN ch = {"pc", "result"} /\ ch["pc"] = "done"
                           /\ IF some THEN ch["result"] = "no_available_target"
                              ELSE ch["result"] = "no_capable_model"
  OBVIOUS
<1> HIDE DEF ch
<1>5. /\ Shaped'
      /\ \A f \in Fields : req'[r][f] = IF f \in DOMAIN ch THEN ch[f] ELSE req[r][f]
      /\ \A q \in Request \ {r} : req'[q] = req[q]
  BY <1>2, BecomeFields
<1> DEFINE l == req'[r]
           k == req[r]
<1>6. \A f \in {"lease", "attempts", "skipped", "pending", "error", "completion"} : l[f] = k[f]
  BY <1>4, <1>5 DEF Fields
<1>7. CASE planned # <<>>
  <2>1. l["pc"] = "next" /\ l["at"] = 1 /\ l["plan"] = planned /\ l["result"] = k["result"]
    BY <1>4, <1>5, <1>7 DEF Fields
  <2> HIDE DEF l, k
  <2>2. l.pc = "next" /\ l.at = 1 /\ l.plan = planned /\ l.result = k.result
    BY <2>1
  <2> QED BY <1>3, <1>5, <1>6, <1>7, <2>2 DEF Routed, planned, l, k
<1>8. CASE planned = <<>>
  <2>1. /\ l["pc"] = "done" /\ l["at"] = k["at"] /\ l["plan"] = k["plan"]
        /\ IF some THEN l["result"] = "no_available_target" ELSE l["result"] = "no_capable_model"
    BY <1>4, <1>5, <1>8 DEF Fields
  <2> HIDE DEF l, k
  <2>2. /\ l.pc = "done" /\ l.at = k.at /\ l.plan = k.plan
        /\ IF some THEN l.result = "no_available_target" ELSE l.result = "no_capable_model"
    BY <2>1
  <2> QED BY <1>3, <1>5, <1>6, <1>8, <2>2 DEF Routed, planned, some, l, k
<1> QED BY <1>7, <1>8

LEMMA SkipWrites ==
    ASSUME Shaped, NEW r \in Request, Skip(r)
    PROVE  /\ req[r].pc = "next" /\ ~H!Admitted(TargetOf(r)) /\ UNCHANGED healthVars
           /\ Shaped' /\ \A q \in Request \ {r} : req'[q] = req[q]
           /\ req'[r].at = req[r].at + 1 /\ req'[r].skipped = req[r].skipped + 1
           /\ \A f \in Fields \ {"at", "skipped"} : req'[r][f] = req[r][f]
<1> DEFINE ch == [at |-> req[r].at + 1, skipped |-> req[r].skipped + 1]
           l == req'[r]
<1>1. Become(r, ch) /\ req[r].pc = "next" /\ ~H!Admitted(TargetOf(r)) /\ UNCHANGED healthVars
  BY DEF Skip, NoReport
<1>2. DOMAIN ch = {"at", "skipped"} /\ ch["at"] = req[r].at + 1 /\ ch["skipped"] = req[r].skipped + 1
  OBVIOUS
<1> HIDE DEF ch
<1>3. /\ Shaped' /\ l["at"] = req[r].at + 1 /\ l["skipped"] = req[r].skipped + 1
      /\ \A f \in Fields \ {"at", "skipped"} : l[f] = req[r][f]
      /\ \A q \in Request \ {r} : req'[q] = req[q]
  BY <1>1, <1>2, BecomeFields DEF Fields
<1> HIDE DEF l
<1>4. l.at = req[r].at + 1 /\ l.skipped = req[r].skipped + 1
  BY <1>3
<1> QED BY <1>1, <1>3, <1>4 DEF l

LEMMA AdmitWrites ==
    ASSUME Shaped, NEW r \in Request, Admit(r)
    PROVE  /\ req[r].pc = "next" /\ req[r].at <= Len(Targets(r)) /\ H!Acquire(TargetOf(r))
           /\ Shaped' /\ \A q \in Request \ {r} : req'[q] = req[q]
           /\ req'[r].pc = "queued" /\ req'[r].attempts = req[r].attempts + 1
           /\ req'[r].lease = H!NewLease(TargetOf(r))
           /\ \A f \in Fields \ {"pc", "lease", "attempts"} : req'[r][f] = req[r][f]
<1> DEFINE lease == H!NewLease(TargetOf(r))
           ch == [pc |-> "queued", lease |-> lease, attempts |-> req[r].attempts + 1]
           l == req'[r]
<1>1. /\ Become(r, ch) /\ req[r].pc = "next" /\ req[r].at <= Len(Targets(r))
      /\ H!Acquire(TargetOf(r))
  BY DEF Admit
<1> HIDE DEF lease
<1>2. /\ DOMAIN ch = {"pc", "lease", "attempts"} /\ ch["pc"] = "queued" /\ ch["lease"] = lease
      /\ ch["attempts"] = req[r].attempts + 1
  OBVIOUS
<1> HIDE DEF ch
<1>3. /\ Shaped' /\ l["pc"] = "queued" /\ l["attempts"] = req[r].attempts + 1 /\ l["lease"] = lease
      /\ \A f \in Fields \ {"pc", "lease", "attempts"} : l[f] = req[r][f]
      /\ \A q \in Request \ {r} : req'[q] = req[q]
  BY <1>1, <1>2, BecomeFields DEF Fields
<1> HIDE DEF l
<1>4. l.pc = "queued" /\ l.attempts = req[r].attempts + 1 /\ l.lease = lease
  BY <1>3
<1> QED BY <1>1, <1>3, <1>4 DEF l, lease

\* What the other steps leave in them.
LEMMA OnwardWrites ==
    ASSUME Shaped, NEW r \in Request, NEW ch, Become(r, ch), Onward(r, ch)
    PROVE  /\ Shaped' /\ \A q \in Request \ {r} : req'[q] = req[q]
           /\ req'[r].pc = ch["pc"] /\ req'[r].pc \in Awaits \union Over \union {"next"}
           /\ \A f \in {"plan", "attempts", "skipped"} : req'[r][f] = req[r][f]
           /\ req'[r].at \in {req[r].at, req[r].at + 1}
           /\ req'[r].lease \in {req[r].lease, None}
           /\ req'[r].pending \in {req[r].pending, None} \union Verdict
           /\ req'[r].error \in {req[r].error} \union Errors
           /\ req'[r].result \in {req[r].result} \union Result
           /\ req'[r].completion \in {req[r].completion} \union Completion
           /\ req'[r].pc \in {"closing_http", "closing_error"} => req'[r].pending \in Verdict
<1> DEFINE l == req'[r]
           k == req[r]
<1>1. /\ Shaped' /\ \A q \in Request \ {r} : req'[q] = req[q]
      /\ \A f \in Fields : l[f] = IF f \in DOMAIN ch THEN ch[f] ELSE k[f]
  BY BecomeFields
<1>2. /\ l["pc"] = ch["pc"] /\ ch["pc"] \in Awaits \union Over \union {"next"}
      /\ \A f \in {"plan", "attempts", "skipped"} : l[f] = k[f]
      /\ l["pc"] \in {"closing_http", "closing_error"} => l["pending"] \in Verdict
  BY <1>1 DEF Onward, Fields
<1>3. /\ l["at"] \in {k["at"], k["at"] + 1}
      /\ l["lease"] \in {k["lease"], None}
      /\ l["pending"] \in {k["pending"], None} \union Verdict
      /\ l["error"] \in {k["error"]} \union Errors
      /\ l["result"] \in {k["result"]} \union Result
      /\ l["completion"] \in {k["completion"]} \union Completion
  BY <1>1 DEF Onward, Fields
<1> HIDE DEF l, k
<1>4. /\ l.pc = ch["pc"] /\ l.pc \in Awaits \union Over \union {"next"}
      /\ l.pc \in {"closing_http", "closing_error"} => l.pending \in Verdict
  BY <1>2
<1>5. /\ l.at \in {k.at, k.at + 1} /\ l.lease \in {k.lease, None}
      /\ l.pending \in {k.pending, None} \union Verdict /\ l.error \in {k.error} \union Errors
      /\ l.result \in {k.result} \union Result /\ l.completion \in {k.completion} \union Completion
  BY <1>3
<1> QED BY <1>1, <1>2, <1>4, <1>5 DEF l, k


\* The plan and the place in it.
Placed ==
    \A r \in Request :
        /\ req[r].plan \in Seq(Target) /\ req[r].at \in Nat
        /\ req[r].pc \in Awaits \union {"next"} => req[r].at > 0

LEMMA LoopPlaces ==
    /\ (Over \union {"idle", "next"}) \cap Awaits = {} /\ "queued" \in Awaits
    /\ "done" \in Over /\ {"idle", "next", "closing_http", "closing_error"} \cap Over = {}
BY AwaitsAre

LEMMA StepPlaces ==
    ASSUME Shaped, VerdictKnown, Placed, NEW r \in Request, Progress(r) \/ Interference(r)
    PROVE  VerdictKnown' /\ Placed'
<1> DEFINE l == req'[r]
           k == req[r]
<1>1. /\ k.plan \in Seq(Target) /\ k.at \in Nat
      /\ k.pc \in Awaits \union {"next"} => k.at > 0
      /\ k.pc \in {"closing_http", "closing_error"} => k.pending \in Verdict
  BY DEF Placed, VerdictKnown
<1>2. ASSUME \A q \in Request \ {r} : req'[q] = req[q],
             l.plan \in Seq(Target), l.at \in Nat,
             l.pc \in Awaits \union {"next"} => l.at > 0,
             l.pc \in {"closing_http", "closing_error"} => l.pending \in Verdict
      PROVE  VerdictKnown' /\ Placed'
  BY <1>2 DEF Placed, VerdictKnown
<1>3. CASE Resolve(r)
  <2>1. Routed(r) /\ \A q \in Request \ {r} : req'[q] = req[q]
    BY <1>3, ResolveWrites
  <2>2. PICK failures \in SessionFailures :
          \/ l.pc = "next" /\ l.at = 1 /\ l.plan = PlannedTargets(QueryOf[r], failures, H!Snapshot)
          \/ l.pc = "done" /\ l.at = k.at /\ l.plan = k.plan
    BY <2>1 DEF Routed
  <2>3. PlannedTargets(QueryOf[r], failures, H!Snapshot) \in Seq(Target)
    BY EngineAssumption, PlanIsServable
  <2>4. l.pc \in {"next", "done"} /\ l.plan \in Seq(Target) /\ l.at \in Nat /\ (l.pc = "next" => l.at > 0)
    BY <1>1, <2>2, <2>3
  <2> HIDE DEF l, k
  <2> QED BY <1>2, <2>1, <2>4, LoopPlaces
<1>4. CASE Skip(r)
  <2>1. /\ k.pc = "next" /\ \A q \in Request \ {r} : req'[q] = req[q]
        /\ l.at = k.at + 1 /\ l["pc"] = k["pc"] /\ l["plan"] = k["plan"]
    BY <1>4, SkipWrites DEF Fields
  <2> HIDE DEF l, k
  <2>2. l.pc = "next" /\ l.plan \in Seq(Target) /\ l.at \in Nat /\ l.at > 0
    BY <1>1, <2>1
  <2> QED BY <1>2, <2>1, <2>2
<1>5. CASE Admit(r)
  <2>1. /\ k.pc = "next" /\ \A q \in Request \ {r} : req'[q] = req[q]
        /\ l.pc = "queued" /\ l["at"] = k["at"] /\ l["plan"] = k["plan"]
    BY <1>5, AdmitWrites DEF Fields
  <2> HIDE DEF l, k
  <2>2. l.plan \in Seq(Target) /\ l.at \in Nat /\ l.at > 0
    BY <1>1, <2>1
  <2> QED BY <1>2, <2>1, <2>2
<1>6. CASE Ends(r) \/ Answered(r)
  <2>1. PICK ch : Become(r, ch) /\ Onward(r, ch) /\ k.pc \in Awaits \union {"next"}
    BY <1>6 DEF Ends, Answered
  <2>2. /\ \A q \in Request \ {r} : req'[q] = req[q]
        /\ l["plan"] = k["plan"] /\ l.at \in {k.at, k.at + 1}
        /\ l.pc \in {"closing_http", "closing_error"} => l.pending \in Verdict
    BY <2>1, OnwardWrites
  <2> HIDE DEF l, k
  <2>3. l.plan \in Seq(Target) /\ l.at \in Nat /\ l.at > 0
    BY <1>1, <2>1, <2>2
  <2> QED BY <1>2, <2>2, <2>3
<1> QED BY <1>3, <1>4, <1>5, <1>6, StepKinds

LEMMA TargetPlaced ==
    ASSUME Placed, NEW r \in Request, req[r].at > 0, req[r].at <= Len(Targets(r))
    PROVE  TargetOf(r) \in Target
<1> DEFINE plan == req[r].plan
           n == IF Len(plan) < AttemptLimit THEN Len(plan) ELSE AttemptLimit
<1>1. plan \in Seq(Target) /\ req[r].at \in Nat /\ Len(plan) \in Nat /\ AttemptLimit \in Nat
  BY KernelAssumption DEF Placed
<1>2. Targets(r) = SubSeq(plan, 1, n)
  BY DEF Targets, Bounded
<1> HIDE DEF plan
<1>3. n \in Nat /\ n <= Len(plan)
  BY <1>1
<1> HIDE DEF n
<1>4. SubSeq(plan, 1, n) \in Seq(Target)
  BY <1>1, <1>3
<1> HIDE DEF plan
<1>5. Targets(r) \in Seq(Target) /\ req[r].at \in 1 .. Len(Targets(r))
  BY <1>1, <1>2, <1>4
<1> QED BY <1>5 DEF TargetOf

LEMMA StartsPlaced == Init => VerdictKnown /\ Placed
<1> SUFFICES ASSUME Init PROVE VerdictKnown /\ Placed
  OBVIOUS
<1>1. \A r \in Request : req[r].pc = "idle" /\ req[r].plan = <<>> /\ req[r].at = 0
  BY DEF Init
<1>2. <<>> \in Seq(Target) /\ 0 \in Nat
  OBVIOUS
<1> QED BY <1>1, <1>2, LoopPlaces DEF VerdictKnown, Placed

LEMMA StaysPlaced == VerdictKnown /\ Placed /\ UNCHANGED req => VerdictKnown' /\ Placed'
BY DEF VerdictKnown, Placed

LEMMA PlaceInvariance == Spec => [](VerdictKnown /\ Placed)
<1>1. EngineInv /\ VerdictKnown /\ Placed /\ [Next]_vars => VerdictKnown' /\ Placed'
  <2> SUFFICES ASSUME EngineInv, VerdictKnown, Placed, [Next]_vars PROVE VerdictKnown' /\ Placed'
    OBVIOUS
  <2>1. Tick \/ Idle \/ UNCHANGED vars => UNCHANGED req
    BY DEF Tick, Idle, vars
  <2> QED BY <2>1, StepPlaces, StaysPlaced DEF Next, EngineInv
<1> QED BY <1>1, StartsPlaced, EngineInvariance, PTL DEF Spec

\* Each step of the engine is one of the coordinator, or leaves it alone.
LEMMA HealthStep ==
    EngineInv /\ VerdictKnown /\ Placed /\ [Next]_vars
       => [Coordinator!Next]_(Coordinator!vars)
<1> SUFFICES ASSUME EngineInv, VerdictKnown, Placed, [Next]_vars
             PROVE  Coordinator!Next \/ UNCHANGED healthVars
  BY DEF Coordinator!vars, healthVars
<1>1. ASSUME NEW r \in Request, Progress(r) \/ Interference(r)
      PROVE  Coordinator!Next \/ UNCHANGED healthVars
  <2>1. CASE Resolve(r) \/ Skip(r) \/ Ends(r)
    BY <2>1 DEF Resolve, Skip, Ends, NoReport
  <2>2. CASE Admit(r)
    <3>1. TargetOf(r) \in Target /\ H!Acquire(TargetOf(r))
      BY <2>2, TargetPlaced, AdmitWrites DEF EngineInv, Placed
    <3> QED BY <3>1, SameAcquire DEF Coordinator!Next
  <2>3. CASE Answered(r)
    <3>1. CASE UNCHANGED healthVars
      BY <3>1
    <3>2. CASE Alive(req[r]) /\ \E class \in H!FailureClass, retry \in Retries : Report(r, class, retry)
      <4>1. PICK class \in H!FailureClass, retry \in Retries : H!Record(req[r].lease, class, retry)
        BY <3>2 DEF Report
      <4>2. req[r].lease \in leases
        BY <3>2 DEF EngineInv, LeaseInv, Owes
      <4>3. Coordinator!Record(req[r].lease, class, retry)
        BY <4>1, SameRecord
      <4> QED BY <4>2, <4>3 DEF Coordinator!Next, Coordinator!RecordSome
    <3> QED BY <2>3, <3>1, <3>2 DEF Answered, Reports
  <2> QED BY <1>1, <2>1, <2>2, <2>3, StepKinds DEF EngineInv
<1>2. CASE Tick
  BY <1>2, SameTick DEF Tick, Coordinator!Next
<1>3. CASE Idle \/ UNCHANGED vars
  BY <1>3 DEF Idle, vars, healthVars
<1> QED BY <1>1, <1>2, <1>3 DEF Next

(* The engine uses the coordinator as its specification allows: a target is *)
(* acquired only when it is one of the plan, an outcome is recorded only    *)
(* for a lease in flight and with a class the coordinator knows, and        *)
(* nothing else touches it.  So every theorem about the coordinator holds   *)
(* of it under the engine (engine.py:187-430, streaming.py:133-231).        *)
THEOREM UsesCoordinator == Spec => Coordinator!Spec
<1>1. Init => Coordinator!Init
  BY SameInit DEF Init
<1> QED BY <1>1, HealthStep, EngineInvariance, PlaceInvariance, PTL DEF Spec, Coordinator!Spec

(* A half-open domain is probed by one call at a time, whatever requests    *)
(* share it (coordinator.py:188-234).                                       *)
THEOREM ProbesAlone == Spec => []Coordinator!SingleProbe
<1>1. Coordinator!Spec => []Coordinator!SingleProbe
  BY CoordinatorAssumed, Coordinator!SingleProbeHolds
<1> QED BY <1>1, UsesCoordinator, PTL

LEMMA CoordinatorTyped == Spec => []Coordinator!TypeOK
<1>1. Coordinator!Spec => []Coordinator!TypeOK
  BY CoordinatorAssumed, Coordinator!TypeCorrect
<1> QED BY <1>1, UsesCoordinator, PTL


-----------------------------------------------------------------------------
(* The first target of a plan.                                              *)

\* The view shows as eligible what acquire() admits.
LEMMA ViewIsAdmission ==
    ASSUME NEW t \in Target
    PROVE  H!Snapshot[t].eligible <=> H!Admitted(t)
BY DEF H!Snapshot, H!Availability, H!Suppressed, H!Admitted, H!Admits

\* Time alone takes no target away.
LEMMA TimeAdmits ==
    ASSUME Coordinator!TypeOK, H!Tick, NEW t \in Target, H!Admitted(t)
    PROVE  H!Admitted(t)'
<1>1. t \in Coordinator!Domain /\ ProviderOf[t] \in Coordinator!Domain
  BY CoordinatorAssumed DEF Coordinator!DomainAssumption, Coordinator!Domain
<1>2. dom' = dom /\ clock' = clock + 1 /\ clock \in Nat
  BY DEF H!Tick, Coordinator!TypeOK
<1>3. ASSUME NEW d \in Coordinator!Domain, H!Admits(dom[d]) PROVE H!Admits(dom[d])'
  <2> DEFINE x == dom[d]
             until == x.cooldown_until
  <2>1. until = None \/ until \in Nat
    BY DEF Coordinator!TypeOK, Coordinator!DomainRecord
  <2>2. until # None /\ until <= clock => until <= clock'
    BY <1>2, <2>1
  <2>3. H!EffectiveState(x) \notin {"blocked", "cooldown"}
        /\ (H!EffectiveState(x) = "half_open" => x.half_open_token = None)
    BY <1>3 DEF H!Admits
  <2>4. H!EffectiveState(x)' = H!EffectiveState(x)
    <3>1. H!EffectiveState(x)' = IF x.state = "cooldown" /\ until # None /\ until <= clock'
                                 THEN "half_open" ELSE x.state
      BY <1>2 DEF H!EffectiveState
    <3>2. H!EffectiveState(x) = IF x.state = "cooldown" /\ until # None /\ until <= clock
                                THEN "half_open" ELSE x.state
      BY DEF H!EffectiveState
    <3> HIDE DEF until, x
    <3> QED BY <2>2, <2>3, <3>1, <3>2
  <2>5. x' = x
    BY <1>2
  <2> HIDE DEF x
  <2> QED BY <2>3, <2>4, <2>5 DEF H!Admits, x
<1> QED BY <1>1, <1>2, <1>3 DEF H!Admitted

\* A request that has not called an upstream yet finds its target admitted: it
\* is the first of its plan, chosen since the last await.
FirstInv ==
    /\ \A q, r \in Request : req[q].pc = "next" /\ req[r].pc = "next" => q = r
    /\ \A r \in Request :
          /\ req[r].attempts \in Nat /\ req[r].skipped \in Nat
          /\ req[r].pc \in Awaits => req[r].attempts > 0
          /\ req[r].pc = "idle" => /\ req[r].attempts = 0 /\ req[r].skipped = 0
                                   /\ req[r].result # "no_available_target"
          /\ req[r].skipped > 0 => req[r].attempts > 0
          /\ req[r].pc = "next" /\ req[r].attempts = 0 =>
                TargetOf(r) \in Target /\ H!Admitted(TargetOf(r))

\* A plan begins with a target that is admitted at that moment.
LEMMA PlanBegins ==
    ASSUME NEW r \in Request, NEW planned \in Seq(Target), planned # <<>>,
           req'[r].plan = planned, req'[r].at = 1
    PROVE  TargetOf(r)' = planned[1] /\ planned[1] \in Target
<1> DEFINE n == IF Len(planned) < AttemptLimit THEN Len(planned) ELSE AttemptLimit
<1>1. Len(planned) \in Nat \ {0} /\ AttemptLimit \in Nat \ {0}
  BY KernelAssumption
<1>2. Targets(r)' = SubSeq(planned, 1, n)
  BY DEF Targets, Bounded
<1>3. n \in Nat /\ 1 <= n /\ n <= Len(planned)
  BY <1>1
<1> HIDE DEF n
<1>4. SubSeq(planned, 1, n)[1] = planned[1]
  BY <1>1, <1>3
<1>5. TargetOf(r)' = Targets(r)'[1]
  BY DEF TargetOf
<1>6. planned[1] \in Target
  BY <1>1
<1> QED BY <1>2, <1>4, <1>5, <1>6

LEMMA StepFirst ==
    ASSUME Shaped, VerdictKnown, FirstInv, NEW r \in Request, Progress(r) \/ Interference(r)
    PROVE  FirstInv'
<1> DEFINE l == req'[r]
           k == req[r]
<1>1. /\ k.attempts \in Nat /\ k.skipped \in Nat
      /\ k.pc \in Awaits => k.attempts > 0
      /\ k.pc = "idle" => k.attempts = 0 /\ k.skipped = 0
      /\ k.skipped > 0 => k.attempts > 0
      /\ k.pc = "next" /\ k.attempts = 0 => H!Admitted(TargetOf(r))
  BY DEF FirstInv
<1>2. Settled \/ k.pc = "next" => \A q \in Request \ {r} : req[q].pc # "next"
  BY DEF FirstInv, Settled
<1>3. ASSUME \A q \in Request \ {r} : req'[q] = req[q],
             Settled \/ k.pc = "next",
             l.attempts \in Nat, l.skipped \in Nat, l.pc # "idle",
             l.pc \in Awaits => l.attempts > 0,
             l.skipped > 0 => l.attempts > 0,
             l.pc = "next" /\ l.attempts = 0 =>
                TargetOf(r)' \in Target /\ H!Admitted(TargetOf(r))'
      PROVE  FirstInv'
  <2>1. \A q \in Request \ {r} : req'[q].pc # "next"
    BY <1>2, <1>3
  <2>2. \A p, q \in Request : req'[p].pc = "next" /\ req'[q].pc = "next" => p = q
    BY <2>1
  <2>3. ASSUME NEW q \in Request
        PROVE  /\ req'[q].attempts \in Nat /\ req'[q].skipped \in Nat
               /\ req'[q].pc \in Awaits => req'[q].attempts > 0
               /\ req'[q].pc = "idle" => /\ req'[q].attempts = 0 /\ req'[q].skipped = 0
                                         /\ req'[q].result # "no_available_target"
               /\ req'[q].skipped > 0 => req'[q].attempts > 0
    BY <1>3 DEF FirstInv
  <2>4. ASSUME NEW q \in Request, req'[q].pc = "next", req'[q].attempts = 0
        PROVE  TargetOf(q)' \in Target /\ H!Admitted(TargetOf(q))'
    <3>1. q = r
      BY <2>1, <2>4
    <3> QED BY <1>3, <2>4, <3>1
  <2> QED BY <2>2, <2>3, <2>4 DEF FirstInv
<1>4. CASE Resolve(r)
  <2>1. /\ Settled /\ k.pc = "idle" /\ UNCHANGED healthVars /\ Routed(r)
        /\ \A q \in Request \ {r} : req'[q] = req[q]
    BY <1>4, ResolveWrites
  <2>2. PICK failures \in SessionFailures :
          LET planned == PlannedTargets(QueryOf[r], failures, H!Snapshot)
          IN  /\ \A f \in {"lease", "attempts", "skipped", "pending", "error", "completion"} : l[f] = k[f]
              /\ \/ planned # <<>> /\ l.pc = "next" /\ l.at = 1 /\ l.plan = planned
                 \/ l.pc = "done"
    BY <2>1 DEF Routed
  <2> DEFINE planned == PlannedTargets(QueryOf[r], failures, H!Snapshot)
  <2>3. l.attempts = 0 /\ l.skipped = 0 /\ l.pc \in {"next", "done"}
    BY <1>1, <2>1, <2>2
  <2>4. ASSUME l.pc = "next" PROVE TargetOf(r)' \in Target /\ H!Admitted(TargetOf(r))'
    <3>1. planned # <<>> /\ l.at = 1 /\ l.plan = planned
      BY <2>2, <2>4
    <3>2. planned \in Seq(Target) /\ \A i \in DOMAIN planned : H!Snapshot[planned[i]].eligible
      BY EngineAssumption, PlanIsServable
    <3> HIDE DEF planned
    <3>3. TargetOf(r)' = planned[1] /\ planned[1] \in Target
      BY <3>1, <3>2, PlanBegins
    <3>4. 1 \in DOMAIN planned
      BY <3>1, <3>2
    <3>5. H!Admitted(planned[1])
      BY <3>2, <3>3, <3>4, ViewIsAdmission
    <3>6. \A t : H!Admitted(t)' <=> H!Admitted(t)
      BY <2>1 DEF healthVars, H!Admitted, H!Admits, H!EffectiveState
    <3> QED BY <3>3, <3>5, <3>6
  <2> HIDE DEF l, k
  <2> QED BY <1>3, <2>1, <2>3, <2>4, LoopPlaces
<1>5. CASE Skip(r)
  <2>1. /\ k.pc = "next" /\ ~H!Admitted(TargetOf(r))
        /\ \A q \in Request \ {r} : req'[q] = req[q]
        /\ l.skipped = k.skipped + 1 /\ l["pc"] = k["pc"] /\ l["attempts"] = k["attempts"]
    BY <1>5, SkipWrites DEF Fields
  <2> HIDE DEF l, k
  <2>2. l.pc = "next" /\ l.attempts = k.attempts /\ k.attempts \in Nat /\ k.attempts # 0
    BY <1>1, <2>1
  <2>3. l.skipped \in Nat /\ l.attempts > 0
    BY <1>1, <2>1, <2>2
  <2> QED BY <1>3, <2>1, <2>2, <2>3
<1>6. CASE Admit(r)
  <2>1. /\ k.pc = "next" /\ \A q \in Request \ {r} : req'[q] = req[q]
        /\ l.pc = "queued" /\ l.attempts = k.attempts + 1 /\ l["skipped"] = k["skipped"]
    BY <1>6, AdmitWrites DEF Fields
  <2> HIDE DEF l, k
  <2>2. l.attempts \in Nat /\ l.attempts > 0 /\ l.skipped \in Nat
    BY <1>1, <2>1
  <2> QED BY <1>3, <2>1, <2>2
<1>7. CASE Ends(r)
  <2>1. PICK ch : Become(r, ch) /\ Onward(r, ch) /\ ch["pc"] = "done"
    BY <1>7 DEF Ends
  <2>2. /\ \A q \in Request \ {r} : req'[q] = req[q]
        /\ l.pc = "done" /\ l["attempts"] = k["attempts"] /\ l["skipped"] = k["skipped"]
    BY <2>1, OnwardWrites
  <2>3. k.pc = "next"
    BY <1>7 DEF Ends
  <2> HIDE DEF l, k
  <2>4. l.attempts = k.attempts /\ l.skipped = k.skipped
    BY <2>2
  <2> QED BY <1>1, <1>3, <2>2, <2>3, <2>4, LoopPlaces
<1>8. CASE Answered(r)
  <2>1. PICK ch : Become(r, ch) /\ Onward(r, ch) /\ Settled /\ k.pc \in Awaits
    BY <1>8 DEF Answered
  <2>2. /\ \A q \in Request \ {r} : req'[q] = req[q]
        /\ l.pc \in Awaits \union Over \union {"next"}
        /\ l["attempts"] = k["attempts"] /\ l["skipped"] = k["skipped"]
    BY <2>1, OnwardWrites
  <2> HIDE DEF l, k
  <2>3. /\ l.attempts = k.attempts /\ l.skipped = k.skipped /\ k.attempts \in Nat
        /\ k.attempts > 0 /\ k.skipped \in Nat
    BY <1>1, <2>1, <2>2
  <2>4. l.pc # "idle" /\ l.attempts > 0 /\ l.attempts # 0
    BY <2>2, <2>3, LoopPlaces
  <2> QED BY <1>3, <2>1, <2>2, <2>3, <2>4
<1> QED BY <1>4, <1>5, <1>6, <1>7, <1>8, StepKinds

LEMMA StartsFirst == Init => FirstInv
<1> SUFFICES ASSUME Init PROVE FirstInv
  OBVIOUS
<1>1. \A r \in Request : /\ req[r].pc = "idle" /\ req[r].attempts = 0 /\ req[r].skipped = 0
                         /\ req[r].result = None
  BY DEF Init
<1> QED BY <1>1, LoopPlaces, EngineAssumption DEF FirstInv

LEMMA FirstInvariance == Spec => []FirstInv
<1>1. /\ EngineInv /\ VerdictKnown /\ Coordinator!TypeOK /\ FirstInv /\ [Next]_vars
         => FirstInv'
  <2> SUFFICES ASSUME EngineInv, VerdictKnown, Coordinator!TypeOK, FirstInv, [Next]_vars
               PROVE  FirstInv'
    OBVIOUS
  <2>1. CASE Tick
    <3>1. req' = req /\ H!Tick
      BY <2>1 DEF Tick
    <3>2. \A r \in Request : TargetOf(r)' = TargetOf(r)
      BY <3>1 DEF TargetOf, Targets
    <3>3. ASSUME NEW r \in Request, req'[r].pc = "next", req'[r].attempts = 0
          PROVE  TargetOf(r)' \in Target /\ H!Admitted(TargetOf(r))'
      <4>1. TargetOf(r) \in Target /\ H!Admitted(TargetOf(r))
        BY <3>1, <3>3 DEF FirstInv
      <4> DEFINE t == TargetOf(r)
      <4>2. t' = t
        BY <3>2
      <4> HIDE DEF t
      <4>3. \A u \in Target : H!Admitted(u) => H!Admitted(u)'
        BY <3>1, TimeAdmits
      <4>4. H!Admitted(t)'
        BY <4>1, <4>2, <4>3 DEF t
      <4> QED BY <4>1, <4>2, <4>4 DEF t
    <3> QED BY <3>1, <3>3 DEF FirstInv
  <2>2. CASE Idle \/ UNCHANGED vars
    <3>1. req' = req /\ dom' = dom /\ clock' = clock
      BY <2>2 DEF Idle, vars
    <3>2. \A r \in Request : TargetOf(r)' = TargetOf(r)
      BY <3>1 DEF TargetOf, Targets
    <3>3. \A t : H!Admitted(t)' <=> H!Admitted(t)
      BY <3>1 DEF H!Admitted, H!Admits, H!EffectiveState
    <3>4. ASSUME NEW r \in Request, TargetOf(r) \in Target, H!Admitted(TargetOf(r))
          PROVE  TargetOf(r)' \in Target /\ H!Admitted(TargetOf(r))'
      <4> DEFINE t == TargetOf(r)
      <4>1. t' = t /\ t \in Target /\ H!Admitted(t)
        BY <3>2, <3>4
      <4> HIDE DEF t
      <4>2. H!Admitted(t)'
        BY <3>3, <4>1
      <4> QED BY <4>1, <4>2 DEF t
    <3> QED BY <3>1, <3>4 DEF FirstInv
  <2> QED BY <2>1, <2>2, StepFirst DEF Next, EngineInv
<1> QED BY <1>1, StartsFirst, EngineInvariance, PlaceInvariance, CoordinatorTyped, PTL DEF Spec

(* A plan starts: the first target it names is admitted, for the snapshot   *)
(* shows what acquire() admits and no request runs between resolve() and    *)
(* the first acquire(), whatever the clock does (kernel.py:112-213,         *)
(* coordinator.py:188-234, engine.py:161-200).                              *)
THEOREM FirstTargetIsServed == Spec => []FirstTargetServes
<1>1. FirstInv => FirstTargetServes
  BY DEF FirstInv, FirstTargetServes
<1> QED BY <1>1, FirstInvariance, PTL

(* A request is refused for want of available targets only when acquire()   *)
(* would have refused each of its candidates at that moment                 *)
(* (kernel.py:112-213).                                                     *)
THEOREM RefusalsAreHonest == Spec => RefusalsHonest
<1>1. ASSUME EngineInv, VerdictKnown, FirstInv, [Next]_vars, NEW r \in Request,
             req[r].pc = "idle", req'[r].result = "no_available_target"
      PROVE  \E failures \in SessionFailures :
                LET candidates == Candidates(QueryOf[r], failures)
                IN  /\ candidates # <<>>
                    /\ \A i \in DOMAIN candidates : ~H!Admitted(candidates[i])
  <2>1. req'[r] # req[r]
    BY <1>1 DEF FirstInv
  <2>2. Resolve(r)
    <3>1. PICK q \in Request : Progress(q) \/ Interference(q)
      BY <1>1, <2>1 DEF Next, Tick, Idle, vars
    <3>2. \E ch : Become(q, ch)
      BY <1>1, <3>1, StepKinds DEF Resolve, Skip, Admit, Ends, Answered
    <3>3. q = r
      BY <1>1, <2>1, <3>2, BecomeFields DEF EngineInv
    <3> QED BY <1>1, <3>1, <3>3, StepKinds, LoopPlaces DEF Skip, Admit, Ends, Answered
  <2>3. PICK failures \in SessionFailures :
          LET planned == PlannedTargets(QueryOf[r], failures, H!Snapshot)
          IN  \/ req'[r].result = req[r].result
              \/ /\ planned = <<>>
                 /\ IF Candidates(QueryOf[r], failures) # <<>>
                    THEN req'[r].result = "no_available_target"
                    ELSE req'[r].result = "no_capable_model"
    BY <1>1, <2>2, ResolveWrites DEF Routed, EngineInv
  <2>4. req[r].result # "no_available_target"
    BY <1>1 DEF FirstInv
  <2> DEFINE candidates == Candidates(QueryOf[r], failures)
  <2>5. PlannedTargets(QueryOf[r], failures, H!Snapshot) = <<>> /\ candidates # <<>>
    BY <1>1, <2>3, <2>4
  <2>6. \A i \in DOMAIN candidates : ~H!Snapshot[candidates[i]].eligible
    BY <2>5, EngineAssumption, PlanIsServable
  <2>7. \A i \in DOMAIN candidates : candidates[i] \in Target
    BY EngineAssumption, CandidatesAreTargets
  <2> HIDE DEF candidates
  <2>8. \A i \in DOMAIN candidates : ~H!Admitted(candidates[i])
    BY <2>6, <2>7, ViewIsAdmission
  <2> QED BY <2>5, <2>8 DEF candidates
<1>2. EngineInv /\ VerdictKnown /\ FirstInv /\ [Next]_vars =>
        [\A r \in Request :
            req[r].pc = "idle" /\ req'[r].result = "no_available_target" =>
              \E failures \in SessionFailures :
                 LET candidates == Candidates(QueryOf[r], failures)
                 IN  /\ candidates # <<>>
                     /\ \A i \in DOMAIN candidates : ~H!Admitted(candidates[i])]_vars
  BY <1>1
<1> QED
  BY <1>2, EngineInvariance, PlaceInvariance, FirstInvariance, PTL DEF Spec, RefusalsHonest


-----------------------------------------------------------------------------
(* Types.                                                                   *)

Typed(l) ==
    /\ l = [f \in Fields |-> l[f]]
    /\ l.pc \in Awaits \union Over \union {"idle", "next"}
    /\ l.plan \in Seq(Target) /\ l.at \in Nat
    /\ l.lease \in H!Lease \union {None}
    /\ l.attempts \in Nat /\ l.skipped \in Nat
    /\ l.pending \in Verdict \union {None}
    /\ l.error \in Errors \union {None}
    /\ l.result \in Result /\ l.completion \in Completion

LEMMA TypedIsLocal == ASSUME NEW l, Typed(l) PROVE l \in Local
<1>1. l = [pc |-> l.pc, plan |-> l.plan, at |-> l.at, lease |-> l.lease,
           attempts |-> l.attempts, skipped |-> l.skipped, pending |-> l.pending,
           error |-> l.error, result |-> l.result, completion |-> l.completion]
  BY DEF Typed, Fields
<1>2. Verdict \subseteq [class : H!FailureClass, retry : Nat]
  BY CoordinatorAssumed DEF Verdict, Coordinator!EnvironmentAssumption
<1>3. Local = [pc : Awaits \union Over \union {"idle", "next"}, plan : Seq(Target), at : Nat,
               lease : H!Lease \union {None}, attempts : Nat, skipped : Nat,
               pending : [class : H!FailureClass, retry : Nat] \union {None},
               error : Errors \union {None}, result : Result, completion : Completion]
  BY DEF Local, Result, Completion
<1>4. /\ l.pc \in Awaits \union Over \union {"idle", "next"} /\ l.plan \in Seq(Target)
      /\ l.at \in Nat /\ l.lease \in H!Lease \union {None} /\ l.attempts \in Nat
      /\ l.skipped \in Nat
      /\ l.pending \in [class : H!FailureClass, retry : Nat] \union {None}
      /\ l.error \in Errors \union {None} /\ l.result \in Result /\ l.completion \in Completion
  BY <1>2 DEF Typed
<1> HIDE DEF Result, Completion
<1> QED BY <1>1, <1>3, <1>4

AllTyped == \A r \in Request : Typed(req[r])

LEMMA SameTypes == Coordinator!TypeOK <=> H!TypeOK
BY DEF H!TypeOK, Coordinator!TypeOK, H!Domain, Coordinator!Domain, H!DomainRecord,
       Coordinator!DomainRecord, H!Lease, Coordinator!Lease, H!HealthState,
       Coordinator!HealthState

LEMMA BecomeFunction ==
    ASSUME Shaped, NEW r \in Request, NEW ch, Become(r, ch)
    PROVE  req'[r] = [f \in Fields |-> req'[r][f]]
<1>1. req'[r] = Updated(req[r], ch)
  BY DEF Become, Shaped
<1>2. Updated(req[r], ch) = [f \in Fields |-> IF f \in DOMAIN ch THEN ch[f] ELSE req[r][f]]
  BY DEF Updated, Shaped
<1> QED BY <1>1, <1>2

LEMMA StepTyped ==
    ASSUME Shaped, VerdictKnown, FirstInv, AllTyped, H!TypeOK',
           NEW r \in Request, Progress(r) \/ Interference(r)
    PROVE  AllTyped'
<1> DEFINE l == req'[r]
           k == req[r]
<1>1. Typed(k)
  BY DEF AllTyped
<1>2. ASSUME \A q \in Request \ {r} : req'[q] = req[q], Typed(l) PROVE AllTyped'
  BY <1>2 DEF AllTyped
<1>3. l = [f \in Fields |-> l[f]]
  <2>1. \E ch : Become(r, ch)
    BY StepKinds DEF Resolve, Skip, Admit, Ends, Answered
  <2> QED BY <2>1, BecomeFunction
<1>4. CASE Resolve(r)
  <2>1. Routed(r) /\ \A q \in Request \ {r} : req'[q] = req[q]
    BY <1>4, ResolveWrites
  <2>2. PICK failures \in SessionFailures :
          LET planned == PlannedTargets(QueryOf[r], failures, H!Snapshot)
          IN  /\ \A f \in {"lease", "attempts", "skipped", "pending", "error", "completion"} : l[f] = k[f]
              /\ \/ /\ l.pc = "next" /\ l.at = 1 /\ l.plan = planned /\ l.result = k.result
                 \/ /\ l.pc = "done" /\ l.at = k.at /\ l.plan = k.plan
                    /\ l.result \in {"no_available_target", "no_capable_model"}
    BY <2>1 DEF Routed
  <2>3. PlannedTargets(QueryOf[r], failures, H!Snapshot) \in Seq(Target)
    BY EngineAssumption, PlanIsServable
  <2> HIDE DEF l, k
  <2>4. /\ l.lease = k.lease /\ l.attempts = k.attempts /\ l.skipped = k.skipped
        /\ l.pending = k.pending /\ l.error = k.error /\ l.completion = k.completion
    BY <2>2
  <2>5. l.pc \in {"next", "done"} /\ l.plan \in Seq(Target) /\ l.at \in Nat /\ l.result \in Result
    BY <1>1, <2>2, <2>3 DEF Typed, Result
  <2>6. Typed(l)
    BY <1>1, <1>3, <2>4, <2>5, LoopPlaces DEF Typed
  <2> QED BY <1>2, <2>1, <2>6 DEF l
<1>5. CASE Skip(r)
  <2>1. /\ l.at = k.at + 1 /\ l.skipped = k.skipped + 1
        /\ \A f \in Fields \ {"at", "skipped"} : l[f] = k[f]
        /\ \A q \in Request \ {r} : req'[q] = req[q]
    BY <1>5, SkipWrites
  <2>2. /\ l["pc"] = k["pc"] /\ l["plan"] = k["plan"] /\ l["lease"] = k["lease"]
        /\ l["attempts"] = k["attempts"] /\ l["pending"] = k["pending"]
        /\ l["error"] = k["error"] /\ l["result"] = k["result"]
        /\ l["completion"] = k["completion"]
    BY <2>1 DEF Fields
  <2> HIDE DEF l, k
  <2>3. /\ l.pc = k.pc /\ l.plan = k.plan /\ l.lease = k.lease /\ l.attempts = k.attempts
        /\ l.pending = k.pending /\ l.error = k.error /\ l.result = k.result
        /\ l.completion = k.completion
    BY <2>2
  <2>4. l.at \in Nat /\ l.skipped \in Nat
    BY <1>1, <2>1 DEF Typed
  <2>5. Typed(l)
    BY <1>1, <1>3, <2>3, <2>4 DEF Typed
  <2> QED BY <1>2, <2>1, <2>5 DEF l
<1>6. CASE Admit(r)
  <2>1. /\ l.pc = "queued" /\ l.attempts = k.attempts + 1 /\ l.lease = H!NewLease(TargetOf(r))
        /\ \A f \in Fields \ {"pc", "lease", "attempts"} : l[f] = k[f]
        /\ \A q \in Request \ {r} : req'[q] = req[q]
        /\ H!Acquire(TargetOf(r))
    BY <1>6, AdmitWrites
  <2>2. /\ l["plan"] = k["plan"] /\ l["at"] = k["at"] /\ l["skipped"] = k["skipped"]
        /\ l["pending"] = k["pending"] /\ l["error"] = k["error"]
        /\ l["result"] = k["result"] /\ l["completion"] = k["completion"]
    BY <2>1 DEF Fields
  <2>3. l.lease \in H!Lease
    BY <2>1 DEF H!Acquire, H!TypeOK
  <2> HIDE DEF l, k
  <2>4. /\ l.plan = k.plan /\ l.at = k.at /\ l.skipped = k.skipped /\ l.pending = k.pending
        /\ l.error = k.error /\ l.result = k.result /\ l.completion = k.completion
    BY <2>2
  <2>5. l.pc \in Awaits /\ l.attempts \in Nat
    BY <1>1, <2>1, AwaitsAre DEF Typed
  <2>6. Typed(l)
    BY <1>1, <1>3, <2>3, <2>4, <2>5 DEF Typed
  <2> QED BY <1>2, <2>1, <2>6 DEF l
<1>7. CASE Ends(r) \/ Answered(r)
  <2>1. PICK ch : Become(r, ch) /\ Onward(r, ch)
    BY <1>7 DEF Ends, Answered
  <2>2. /\ \A q \in Request \ {r} : req'[q] = req[q]
        /\ l.pc \in Awaits \union Over \union {"next"}
        /\ l["plan"] = k["plan"] /\ l["attempts"] = k["attempts"] /\ l["skipped"] = k["skipped"]
        /\ l.at \in {k.at, k.at + 1}
        /\ l.lease \in {k.lease, None}
        /\ l.pending \in {k.pending, None} \union Verdict
        /\ l.error \in {k.error} \union Errors
        /\ l.result \in {k.result} \union Result
        /\ l.completion \in {k.completion} \union Completion
    BY <2>1, OnwardWrites
  <2> HIDE DEF l, k
  <2>3. l.plan = k.plan /\ l.attempts = k.attempts /\ l.skipped = k.skipped
    BY <2>2
  <2>4. l.at \in Nat
    BY <1>1, <2>2 DEF Typed
  <2>5. Typed(l)
    BY <1>1, <1>3, <2>2, <2>3, <2>4 DEF Typed
  <2> QED BY <1>2, <2>2, <2>5 DEF l
<1> QED BY <1>4, <1>5, <1>6, <1>7, StepKinds

LEMMA StartsTyped == Init => AllTyped
<1> SUFFICES ASSUME Init, NEW r \in Request PROVE Typed(req[r])
  BY DEF AllTyped
<1>1. req[r] = [pc |-> "idle", plan |-> <<>>, at |-> 0, lease |-> None, attempts |-> 0,
                skipped |-> 0, pending |-> None, error |-> None, result |-> None,
                completion |-> None]
  BY DEF Init
<1>2. <<>> \in Seq(Target)
  OBVIOUS
<1> QED BY <1>1, <1>2 DEF Typed, Fields, Result, Completion

LEMMA StaysTyped == AllTyped /\ UNCHANGED req => AllTyped'
BY DEF AllTyped, Typed

(* The types of the engine's state, with those of the coordinator under it. *)
THEOREM TypeCorrect == Spec => []TypeOK
<1>1. /\ EngineInv /\ VerdictKnown /\ FirstInv /\ Coordinator!TypeOK' /\ AllTyped /\ [Next]_vars
         => AllTyped'
  <2> SUFFICES ASSUME EngineInv, VerdictKnown, FirstInv, Coordinator!TypeOK', AllTyped, [Next]_vars
               PROVE  AllTyped'
    OBVIOUS
  <2>1. H!TypeOK'
    BY SameTypes, PTL
  <2>2. Tick \/ Idle \/ UNCHANGED vars => UNCHANGED req
    BY DEF Tick, Idle, vars
  <2> QED BY <2>1, <2>2, StepTyped, StaysTyped DEF Next, EngineInv
<1>2. EngineInv /\ Coordinator!TypeOK /\ AllTyped => TypeOK
  <2> SUFFICES ASSUME EngineInv, Coordinator!TypeOK, AllTyped PROVE TypeOK
    OBVIOUS
  <2>1. /\ H!TypeOK /\ inUse \in [Provider -> Nat] /\ lost \in [Provider -> Nat]
        /\ req = [r \in Request |-> req[r]]
    BY SameTypes DEF EngineInv, PermitInv, Shaped
  <2>2. \A r \in Request : req[r] \in Local
    BY TypedIsLocal DEF AllTyped
  <2> QED BY <2>1, <2>2 DEF TypeOK
<1> QED
  BY <1>1, <1>2, StartsTyped, EngineInvariance, PlaceInvariance, FirstInvariance,
     CoordinatorTyped, PTL DEF Spec
=============================================================================
