-------------------------- MODULE ExecutionEngine --------------------------
(***************************************************************************)
(* Requests from their routing decision (routing/coordinator.py) through   *)
(* execution/engine.py (ExecutionEngine.execute) and the stream relay of   *)
(* execution/streaming.py, over the provider adapters and the health       *)
(* coordinator.                                                            *)
(*                                                                         *)
(* All requests share one event loop: a request runs from one await to the *)
(* next, and the others run only while it waits.  pc names the await where *)
(* a request is; at "next" it is still running (the head of the loop over  *)
(* plan.targets), and nothing else moves before it leaves.                 *)
(***************************************************************************)
EXTENDS RoutingKernel

CONSTANTS
    FailureThreshold, FailureWindow, BaseCooldown, MaxCooldown, BackoffMultiplier,
    OverflowLevel, RetryAfterValues, OutcomeClasses, ClockBound, LeaseBound,
    InFlightBound

CONSTANTS
    Request,        \* client requests, each routed and executed once
    QueryOf,        \* what the kernel is told of each request
    SessionFailures, \* the failure counts a session may have when a request comes
    Streams,        \* requests with envelope.stream
    MaxConcurrency, \* semaphore size of every provider
    HttpFailures    \* classes of the non-2xx statuses the upstreams answer with

VARIABLES dom, leases, nextToken, revision, clock

H == INSTANCE HealthCoordinator

healthVars == <<dom, leases, nextToken, revision, clock>>

VARIABLES
    req,   \* the local variables of each execute()
    inUse, \* permits taken from the semaphore of each provider
    lost   \* how many of them invoke() has lost for good: of no use to any action

vars == <<dom, leases, nextToken, revision, clock, req, inUse, lost>>

ASSUME EngineAssumption ==
    /\ QueryOf \in [Request -> Query]
    /\ SessionFailures \subseteq Nat
    /\ MaxConcurrency \in Nat \ {0}
    /\ Streams \subseteq Request
    /\ HttpFailures \subseteq
         {"provider_permanent", "target_permanent", "target_transient",
          "provider_transient", "request_rejected"}
    /\ None # "no_available_target"

\* The configuration of the coordinator is one it accepts, and no behaviour is long
\* enough for its backoff to overflow: record() does not raise into execute().
ASSUME HealthAssumption ==
    /\ LeaseBound <= OverflowLevel
    /\ H!DomainAssumption
    /\ H!ConfigAssumption
    /\ H!EnvironmentAssumption
    /\ H!BoundAssumption

\* Awaits at which a permit of the provider is held: an exchange is opening or open.
Connected == {"sending", "first_event", "body", "closing_http", "closing_ok",
              "closing_error", "closing_cancel", "committed", "streaming",
              "closing_stream"}
\* Awaits inside the try block of execute(), where a cancellation is handled.
Cancellable == {"queued", "sending", "first_event", "body", "closing_http", "closing_ok"}
Awaits == Connected \union {"queued"}

\* Ends at which the attempt's outcome was never recorded: execute() left an except
\* handler early ("raised"), or nothing will run the finally clause of the body,
\* dropped before its first iteration ("unstarted") or broken before its try ("torn").
Stranded == {"unstarted", "torn"}
Unrecorded == Stranded \union {"raised"}
Over == Unrecorded \union {"done"}

Errors == {"fallback", "final", "timeout"}

Local ==
    [pc         : Awaits \union Over \union {"idle", "next"},
     plan       : Seq(Target),                \* (primary, *fallbacks)
     at         : Nat,                        \* target_index
     lease      : H!Lease \union {None},      \* the lease not recorded yet
     attempts   : Nat,                        \* upstream_attempt_count
     skipped    : Nat,                        \* health_skipped_count
     pending    : [class : H!FailureClass, retry : Nat] \union {None}, \* failure_decision
     error      : Errors \union {None},       \* last_error: what it allows
     result     : {"success", "committed", "no_capable_model", "no_available_target",
                   "timeout", "rejected", "exhausted", "cancelled", None},
     completion : {"success", "error", "cancelled", "pending", None}]

TypeOK ==
    /\ H!TypeOK
    /\ req \in [Request -> Local]
    /\ inUse \in [Provider -> Nat]
    /\ lost \in [Provider -> Nat]

Init ==
    /\ H!Init
    /\ req = [r \in Request |->
                [pc |-> "idle", plan |-> <<>>, at |-> 0, lease |-> None, attempts |-> 0, skipped |-> 0,
                 pending |-> None, error |-> None, result |-> None, completion |-> None]]
    /\ inUse = [p \in Provider |-> 0]
    /\ lost = [p \in Provider |-> 0]

-----------------------------------------------------------------------------

Targets(r) == Bounded(req[r].plan)
TargetOf(r) == Targets(r)[req[r].at]
ProviderAt(r) == ProviderOf[TargetOf(r)]

\* The local variables l with the values of ch.
Updated(l, ch) == [f \in DOMAIN l |-> IF f \in DOMAIN ch THEN ch[f] ELSE l[f]]

\* The request changes the fields of ch and keeps the others.
Become(r, ch) == req' = [req EXCEPT ![r] = Updated(@, ch)]

\* Nobody is between two awaits.
Settled == \A r \in Request : req[r].pc # "next"

At(r, pcs) == Settled /\ req[r].pc \in pcs

Report(r, class, retry) == H!Record(req[r].lease, class, retry)
NoReport == UNCHANGED healthVars

TakePermit(r) == inUse' = [inUse EXCEPT ![ProviderAt(r)] = @ + 1] /\ UNCHANGED lost
FreePermit(r) == inUse' = [inUse EXCEPT ![ProviderAt(r)] = @ - 1] /\ UNCHANGED lost
LosePermit(r) == lost' = [lost EXCEPT ![ProviderAt(r)] = @ + 1] /\ UNCHANGED inUse
KeepPermits == UNCHANGED <<inUse, lost>>

\* What execute() raises when the loop is over.
Raised(attempts, skipped, error) ==
    IF attempts = 0 /\ skipped > 0 THEN "no_available_target"
    ELSE IF error = "timeout" THEN "timeout"
    ELSE IF error = "final" THEN "rejected"
    ELSE "exhausted"

Finished(r, attempts, skipped, error) ==
    [pc |-> "done", lease |-> None, pending |-> None,
     result |-> Raised(attempts, skipped, error), error |-> error]

\* Retryable failures only; the *_TRANSIENT classes of router_error_for_failure().
ErrorOf(class) ==
    IF class \in {"provider_transient", "target_transient"} THEN "fallback" ELSE "final"

\* The tail of the loop body after a failed attempt: on to the next target, or out.
AfterFailure(r, error) ==
    IF error # "fallback" \/ req[r].at >= Len(Targets(r))
    THEN Finished(r, req[r].attempts, req[r].skipped, error)
    ELSE [lease |-> None, pending |-> None, pc |-> "next", at |-> req[r].at + 1,
          error |-> error]

\* Wrong form: the failed attempt is not recorded.
FailNowSilent(r, class, retry, error) ==
    NoReport /\ Become(r, AfterFailure(r, error))

\* An attempt that fails with no exchange left to close.
FailNow(r, class, retry, error) ==
    /\ Report(r, class, retry)
    /\ Become(r, AfterFailure(r, error))

Cancelled == [pc |-> "done", lease |-> None, pending |-> None, result |-> "cancelled"]

-----------------------------------------------------------------------------
(* The loop over plan.targets.                                              *)

\* RoutingCoordinator.resolve() reads the snapshot and execute() is entered
\* without an await in between.
Resolve(r) ==
    /\ At(r, {"idle"})
    /\ \E failures \in SessionFailures :
          LET planned == PlannedTargets(QueryOf[r], failures, H!Snapshot)
          IN  Become(r, IF planned # <<>> THEN [pc |-> "next", at |-> 1, plan |-> planned]
                        ELSE IF Candidates(QueryOf[r], failures) # <<>>
                        THEN [pc |-> "done", result |-> "no_available_target"]
                        ELSE [pc |-> "done", result |-> "no_capable_model"])
    /\ NoReport /\ KeepPermits

\* The deadline is looked at before every target.
Expire(r) ==
    /\ req[r].pc = "next" /\ req[r].at <= Len(Targets(r))
    /\ Become(r, Finished(r, req[r].attempts, req[r].skipped, "timeout"))
    /\ NoReport /\ KeepPermits

\* The exception router_protocol_mismatch before acquire() is left out: the kernel
\* plans only targets capable of the request, which have its protocol.
Skip(r) ==
    /\ req[r].pc = "next" /\ req[r].at <= Len(Targets(r))
    /\ ~H!Admitted(TargetOf(r))
    /\ Become(r, [at |-> req[r].at + 1, skipped |-> req[r].skipped + 1])
    /\ NoReport /\ KeepPermits

Admit(r) ==
    /\ req[r].pc = "next" /\ req[r].at <= Len(Targets(r))
    /\ H!Acquire(TargetOf(r))
    /\ Become(r, [pc |-> "queued", lease |-> H!NewLease(TargetOf(r)),
                  attempts |-> req[r].attempts + 1])
    /\ KeepPermits

\* The loop ran out of targets, the last of them skipped.
RunOut(r) ==
    /\ req[r].pc = "next" /\ req[r].at > Len(Targets(r))
    /\ Become(r, Finished(r, req[r].attempts, req[r].skipped, req[r].error))
    /\ NoReport /\ KeepPermits

-----------------------------------------------------------------------------
(* provider.invoke() under wait_for().                                      *)

\* The semaphore is free; nothing is sent before it is taken.
Connect(r) ==
    /\ At(r, {"queued"})
    /\ inUse[ProviderAt(r)] < MaxConcurrency
    /\ TakePermit(r)
    /\ Become(r, [pc |-> "sending"])
    /\ NoReport

\* Wrong form: the timeout starts when the permit is taken.
HeaderTimeoutSending(r) ==
    /\ At(r, {"sending"})
    /\ FailNow(r, "provider_transient", 0, "fallback")
    /\ FreePermit(r)

\* response_header_timeout(): waiting for the permit counts as well.
HeaderTimeout(r) ==
    /\ At(r, {"queued", "sending"})
    /\ FailNow(r, "provider_transient", 0, "fallback")
    /\ IF req[r].pc = "sending" THEN FreePermit(r) ELSE KeepPermits

\* Wrong form: the adapter raises ProviderFailure without freeing the permit.
ConnectFailureKeeps(r) ==
    /\ At(r, {"sending"})
    /\ FailNow(r, "provider_transient", 0, "fallback")
    /\ KeepPermits

\* ProviderFailure: the adapter freed the permit before raising it.
ConnectFailure(r) ==
    /\ At(r, {"sending"})
    /\ FailNow(r, "provider_transient", 0, "fallback")
    /\ FreePermit(r)

\* Any other exception of invoke(): the adapters free the permit for
\* CancelledError, HTTPError and OSError only.
UnknownFailure(r) ==
    /\ At(r, {"sending"})
    /\ FailNow(r, "provider_transient", 0, "fallback")
    /\ LosePermit(r)

\* A status outside 2xx: the exchange is closed before the outcome is recorded.
HttpFailure(r) ==
    /\ At(r, {"sending"})
    /\ \E class \in HttpFailures, retry \in RetryAfterValues :
          Become(r, [pc |-> "closing_http", pending |-> [class |-> class, retry |-> retry]])
    /\ NoReport /\ KeepPermits

\* Wrong form: the status line is taken for the success of the attempt.
HeadersSucceed(r) ==
    /\ At(r, {"sending"})
    /\ Become(r, [pc |-> IF r \in Streams THEN "first_event" ELSE "body"])
    /\ Report(r, "success", 0)
    /\ KeepPermits

Headers(r) ==
    /\ At(r, {"sending"})
    /\ Become(r, [pc |-> IF r \in Streams THEN "first_event" ELSE "body"])
    /\ NoReport /\ KeepPermits

-----------------------------------------------------------------------------
(* Reading the response before anything is committed downstream.            *)

\* except RouterError, with the exchange open: it is closed first.
\* decision_for_router_error() charges the provider for every error but the
\* deadline ("timeout") and a stream of the wrong content type ("final").
Reject(r, error) ==
    LET class == IF error = "fallback" THEN "provider_transient" ELSE "request_rejected"
    IN  Become(r, [pc |-> "closing_error", error |-> error,
                   pending |-> [class |-> class, retry |-> 0]])

ReadFailure(r) ==
    /\ At(r, {"first_event", "body"})
    /\ \/ Reject(r, "fallback")
       \/ req[r].pc = "body" /\ Reject(r, "timeout")
       \/ req[r].pc = "first_event" /\ Reject(r, "final")
    /\ NoReport /\ KeepPermits

\* The first event is complete and valid: from here on no other target is tried.
Commit(r) ==
    /\ At(r, {"first_event"})
    /\ Become(r, [pc |-> "committed", result |-> "committed", completion |-> "pending"])
    /\ NoReport /\ KeepPermits

BodyRead(r) ==
    /\ At(r, {"body"})
    /\ Become(r, [pc |-> "closing_ok"])
    /\ NoReport /\ KeepPermits

-----------------------------------------------------------------------------
(* The awaits of exchange.close(): the permit is free when they end.        *)

\* close() returned.
CloseHttp(r) ==
    /\ At(r, {"closing_http"})
    /\ FailNow(r, req[r].pending.class, req[r].pending.retry, ErrorOf(req[r].pending.class))
    /\ FreePermit(r)

CloseOk(r) ==
    /\ At(r, {"closing_ok"})
    /\ Report(r, "success", 0)
    /\ Become(r, [pc |-> "done", lease |-> None, result |-> "success", completion |-> "success"])
    /\ FreePermit(r)

CloseError(r) ==
    /\ At(r, {"closing_error"})
    /\ FailNow(r, req[r].pending.class, req[r].pending.retry, req[r].error)
    /\ FreePermit(r)

CloseCancel(r) ==
    /\ At(r, {"closing_cancel"})
    /\ Report(r, "client_cancelled", 0)
    /\ Become(r, Cancelled)
    /\ FreePermit(r)

\* close() raised inside the try block: except Exception.
CloseBreaks(r) ==
    /\ At(r, {"closing_http", "closing_ok"})
    /\ FailNow(r, "provider_transient", 0, "fallback")
    /\ FreePermit(r)

\* close() raised, or was cancelled, inside an except handler: no clause of the
\* same try statement catches that, and execute() ends without recording.
HandlerBreaks(r) ==
    /\ At(r, {"closing_error", "closing_cancel"})
    /\ Become(r, [pc |-> "raised", pending |-> None])
    /\ FreePermit(r)
    /\ NoReport

\* Wrong form: the adapter frees a permit it still waits for.
CancelFrees(r) ==
    /\ At(r, Cancellable)
    /\ IF req[r].pc \in {"first_event", "body"}
       THEN /\ Become(r, [pc |-> "closing_cancel"])
            /\ NoReport /\ KeepPermits
       ELSE /\ Report(r, "client_cancelled", 0)
            /\ Become(r, Cancelled)
            /\ FreePermit(r)

\* CancelledError inside the try block.  An open exchange is closed first; a
\* second close() returns at once.
Cancel(r) ==
    /\ At(r, Cancellable)
    /\ IF req[r].pc \in {"first_event", "body"}
       THEN /\ Become(r, [pc |-> "closing_cancel"])
            /\ NoReport /\ KeepPermits
       ELSE /\ Report(r, "client_cancelled", 0)
            /\ Become(r, Cancelled)
            /\ IF req[r].pc = "queued" THEN KeepPermits ELSE FreePermit(r)

-----------------------------------------------------------------------------
(* relay_stream(): the body of a committed response.                        *)

\* The server asks for the first part, and the accumulator takes what was read with it.
FirstYield(r) ==
    /\ At(r, {"committed"})
    /\ Become(r, [pc |-> "streaming"])
    /\ NoReport /\ KeepPermits

\* usage.feed() raises on what was read after the first event: the try statement
\* has not been entered, and the generator ends with no clause of it executed.
RelayBreaks(r) ==
    /\ At(r, {"committed"})
    /\ Become(r, [pc |-> "torn"])
    /\ NoReport /\ KeepPermits

\* Closing or collecting a generator that never ran executes none of it.
DropUnstarted(r) ==
    /\ At(r, {"committed"})
    /\ Become(r, [pc |-> "unstarted"])
    /\ NoReport /\ KeepPermits

\* Wrong form: the completion is left to the finally clause.
EndStreamUnresolved(r, class, status) ==
    /\ At(r, {"streaming"})
    /\ Report(r, class, 0)
    /\ Become(r, [pc |-> "closing_stream", lease |-> None])
    /\ KeepPermits

\* finish() and the completion, then the finally clause.
EndStream(r, class, status) ==
    /\ At(r, {"streaming"})
    /\ Report(r, class, 0)
    /\ Become(r, [pc |-> "closing_stream", lease |-> None, completion |-> status])
    /\ KeepPermits

StreamEnds(r) ==
    \/ EndStream(r, "success", "success")
    \/ EndStream(r, "post_commit_stream_failure", "error")

\* CancelledError or GeneratorExit at any of its awaits and yields.
StreamCancelled(r) == EndStream(r, "client_cancelled", "cancelled")

\* However close() ends, it has freed the permit.
StreamClosed(r) ==
    /\ At(r, {"closing_stream"})
    /\ Become(r, [pc |-> "done"])
    /\ FreePermit(r)
    /\ NoReport

-----------------------------------------------------------------------------

\* The request moves without anybody's intervention: each await has a deadline
\* or ends with the exchange.
Progress(r) ==
    \/ Expire(r) \/ Skip(r) \/ Admit(r) \/ RunOut(r)
    \/ Connect(r) \/ HeaderTimeout(r) \/ ConnectFailure(r) \/ UnknownFailure(r)
    \/ HttpFailure(r) \/ Headers(r)
    \/ ReadFailure(r) \/ Commit(r) \/ BodyRead(r)
    \/ CloseHttp(r) \/ CloseOk(r) \/ CloseError(r) \/ CloseCancel(r) \/ CloseBreaks(r)
    \/ FirstYield(r) \/ RelayBreaks(r) \/ StreamEnds(r) \/ StreamClosed(r)

Interference(r) ==
    Resolve(r) \/ Cancel(r) \/ StreamCancelled(r) \/ HandlerBreaks(r) \/ DropUnstarted(r)

Tick == H!Tick /\ UNCHANGED req /\ KeepPermits

\* Every request is over; the process waits for more.
Idle == (\A r \in Request : req[r].pc \in Over) /\ UNCHANGED vars

Next ==
    \/ \E r \in Request : Progress(r) \/ Interference(r)
    \/ Tick
    \/ Idle

Spec == Init /\ [][Next]_vars

\* The event loop runs every ready task, and every await of Progress ends.
FairSpec == Spec /\ \A r \in Request : WF_vars(Progress(r))

-----------------------------------------------------------------------------
(* Properties                                                               *)

Live(r) == req[r].pc \in Awaits \ {"closing_stream"}

Holding(p) == {r \in Request : req[r].pc \in Connected /\ ProviderAt(r) = p}

\* With the committed bodies that will never be closed.
Occupying(p) == {r \in Request : req[r].pc \in Connected \union Stranded /\ ProviderAt(r) = p}

\* An upstream is never called without a lease the coordinator still knows, and
\* no two attempts share one: the outcome of each will be applied.
LiveLeasesActive ==
    /\ \A r \in Request : Live(r) => req[r].lease \in leases
    /\ \A q, r \in Request : Live(q) /\ Live(r) /\ req[q].lease = req[r].lease => q = r

\* Every admitted attempt reports exactly once, whatever exception, timeout or
\* cancellation ends it, with three exceptions: a close() that breaks inside an
\* except handler, a committed body that is never iterated, and one whose second
\* usage.feed() raises before its try.  A lease that is not recorded stays in the
\* coordinator, and keeps its probe slot, for ever.
LeasesReported ==
    leases = {req[r].lease : r \in {q \in Request : Live(q) \/ req[q].pc \in Unrecorded}}

\* No path of invoke(), close() or the relay frees a permit twice: the exchanges
\* open at a provider never outnumber the permits taken, nor its limit.
PermitsCover ==
    \A p \in Provider : Cardinality(Holding(p)) <= inUse[p] /\ inUse[p] <= MaxConcurrency

\* A permit taken is that of an exchange, open or left open by a committed body that
\* was never iterated or broke before its try, or it was lost by an exception of
\* invoke() that its adapter does not name.  Every other path gives it back.
PermitsReturned ==
    \A p \in Provider : inUse[p] <= Cardinality(Occupying(p)) + lost[p]

\* A plan starts: the target it names first is admitted, however much time has
\* passed since the snapshot, for nobody else runs between the two.  Only later
\* targets can be lost to the health of the moment.
FirstTargetServes ==
    \A r \in Request : req[r].skipped > 0 => req[r].attempts > 0

\* A request is turned away for want of available targets only when a call of
\* acquire() would have refused all its candidates.
RefusalsHonest ==
    [][\A r \in Request :
          req[r].pc = "idle" /\ req'[r].result = "no_available_target" =>
             \E failures \in SessionFailures :
                LET candidates == Candidates(QueryOf[r], failures)
                IN  /\ candidates # <<>>
                    /\ \A i \in DOMAIN candidates : ~H!Admitted(candidates[i])]_vars

\* A target the coordinator refuses does not use up the attempt limit: the loop
\* gives up only after that many upstream calls, or at the end of the plan.  The
\* v0.3 spec asks for this and the code does not keep it: README, "Divergences".
SkipsAreFree ==
    \A r \in Request :
        req[r].result = "exhausted" =>
            \/ req[r].attempts = AttemptLimit
            \/ req[r].attempts + req[r].skipped = Len(req[r].plan)

\* Every call of execute() and every committed stream comes to an end.
EveryRequestEnds == \A r \in Request : req[r].pc # "idle" ~> req[r].pc \in Over

\* The gateway awaits the completion of a committed stream before it records
\* the request: the future is resolved, unless the body is never iterated or its
\* second usage.feed() raises before its try.
CompletionResolved ==
    \A r \in Request :
        req[r].completion = "pending" ~> req[r].completion # "pending" \/ req[r].pc \in Stranded
=============================================================================
