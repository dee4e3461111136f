------------------------ MODULE ObservationPipeline ------------------------
(***************************************************************************)
(* The observation of requests: the lifecycle each gateway opens and       *)
(* finishes (observability/lifecycle.py, gateway/*.py), the hub with its   *)
(* bounded queue and its writer (observability/hub.py), the store, the     *)
(* exporter (TraceExporter), and the shutdown of all of them (app.py).     *)
(*                                                                         *)
(* One event loop runs handlers, completion tasks, workers and the         *)
(* lifespan: an action is what one of them does from await to await.       *)
(* Request IDs are fresh, so the store meets no duplicate, and capture is  *)
(* enabled.  The server opens no request once the lifespan ends.           *)
(***************************************************************************)
EXTENDS TraceExporter

CONSTANTS
    None,
    Streams,       \* requests with "stream": true
    Sampled,       \* requests whose trace is sampled
    QueueCapacity, \* observability.queue_capacity
    Overlap        \* the server ends the lifespan while handlers still run

Status == {"success", "error", "cancelled", "abandoned"}

ASSUME PipelineAssumption ==
    /\ Streams \subseteq Request /\ Sampled \subseteq Request
    /\ QueueCapacity \in Nat \ {0}
    /\ None \notin Request \union Status
    /\ Overlap \in BOOLEAN

VARIABLES
    life,    \* the RequestObservation of each request and the await of its task
    active,  \* keys of ActiveObservationRegistry._active
    gauge,   \* inflight_requests by label, active_streams
    queue,   \* ObservationHub._queue
    hand,    \* the bundle store.append() is writing
    depth,   \* observation_queue_depth, and ObservationRuntimeState._queue_depth
    rows,    \* route_requests
    counted, \* requests counted as dropped or failed, by reason
    phase    \* of the lifespan

hubVars == <<queue, hand, depth, rows, counted>>
pipelineVars == <<life, active, gauge, hubVars, phase>>
vars == <<pipelineVars, exporterVars>>

Reason == {"queue_full", "write_failed", "shutdown_timeout"}

Lifecycle ==
    [pc       : {"idle", "validating", "executing", "completing", "done"},
     label    : {"unknown", "known"},         \* _metric_protocol
     counts   : BOOLEAN,                      \* _active_stream
     fact     : Status \union {None}]         \* status of the terminal fact

LifeTypeOK ==
    /\ life \in [Request -> Lifecycle]
    /\ active \subseteq Request
    /\ gauge \in [{"unknown", "known", "streams"} -> Int]

HubTypeOK ==
    /\ queue \in Seq(Request) /\ Len(queue) <= QueueCapacity
    /\ hand \in Request \union {None}
    /\ depth \in 0..QueueCapacity
    /\ rows \subseteq Request
    /\ counted \in [Reason -> SUBSET Request]
    /\ phase \in {"serving", "closing_workers", "draining", "exporting", "closing_store", "closed"}

TypeOK == LifeTypeOK /\ HubTypeOK /\ ExporterTypeOK

Init ==
    /\ life = [r \in Request |->
                 [pc |-> "idle", label |-> "unknown", counts |-> FALSE,
                  fact |-> None]]
    /\ active = {}
    /\ gauge = [g \in {"unknown", "known", "streams"} |-> 0]
    /\ queue = <<>> /\ hand = None /\ depth = 0
    /\ rows = {} /\ counted = [x \in Reason |-> {}]
    /\ phase = "serving"
    /\ ExporterInit

-----------------------------------------------------------------------------
(* The hub and the writer.                                                  *)

\* TraceBuilder.build(): root, route, execute with one attempt, stream.  The facts
\* a request is finished with say how far it came.
SpanCount(r, facts) ==
    CASE r \notin Sampled -> 0
      [] facts = "none" -> 1
      [] facts = "routed" -> 2
      [] facts = "failed" -> 4
      [] facts = "committed" -> IF r \in Streams THEN 5 ELSE 4

Elements(q) == {q[i] : i \in DOMAIN q}

\* Wrong form: the queue takes one more than its capacity.
FittingOneMore(rs) ==
    LET room == QueueCapacity - Len(queue) + 1
    IN  IF Len(rs) <= room THEN Len(rs) ELSE room

\* Bundles of rs that the queue has room for.
Fitting(rs) ==
    LET room == QueueCapacity - Len(queue)
    IN  IF Len(rs) <= room THEN Len(rs) ELSE room

\* Durable part of record() of each of rs: drop-newest, and every drop counted.
\* Once close() has begun record() would refuse without a count; abandon_all() has
\* left no lifecycle open by then.
Enqueue(rs) ==
    LET n == Fitting(rs)
    IN  /\ queue' = queue \o SubSeq(rs, 1, n)
        /\ depth' = IF n = 0 THEN depth ELSE Len(queue) + n
        /\ counted' = [counted EXCEPT !["queue_full"] = @ \union Elements(SubSeq(rs, n + 1, Len(rs)))]
        /\ UNCHANGED <<hand, rows>>

\* record() of the requests rs, with their facts.
RecordAll(rs, facts) ==
    /\ Offer(rs, [i \in DOMAIN rs |-> SpanCount(rs[i], facts[i])])
    /\ Enqueue(rs)

WriterRuns == phase \in {"serving", "closing_workers", "draining"}

\* Wrong form: the loop of the writer ends when close() begins.
TakeUntilClose ==
    /\ phase \in {"serving", "closing_workers"} /\ hand = None /\ queue # <<>>
    /\ hand' = Head(queue)
    /\ queue' = Tail(queue)
    /\ UNCHANGED <<life, active, gauge, depth, rows, counted, phase, exporterVars>>

\* The writer takes a bundle and enters store.append().
Take ==
    /\ WriterRuns /\ hand = None /\ queue # <<>>
    /\ hand' = Head(queue)
    /\ queue' = Tail(queue)
    /\ UNCHANGED <<life, active, gauge, depth, rows, counted, phase, exporterVars>>

\* Wrong form: a failed write is not counted.
WriteUncounted ==
    /\ WriterRuns /\ hand # None
    /\ rows' \in {rows, rows \union {hand}}
    /\ hand' = None
    /\ depth' = Len(queue)
    /\ UNCHANGED <<life, active, gauge, queue, counted, phase, exporterVars>>

\* append() has committed, or has raised and the failure is counted.
Write ==
    /\ WriterRuns /\ hand # None
    /\ \/ rows' = rows \union {hand} /\ UNCHANGED counted
       \/ /\ counted' = [counted EXCEPT !["write_failed"] = @ \union {hand}]
          /\ UNCHANGED rows
    /\ hand' = None
    /\ depth' = Len(queue)
    /\ UNCHANGED <<life, active, gauge, queue, phase, exporterVars>>

-----------------------------------------------------------------------------
(* Lifecycles.                                                              *)

Unchanged == UNCHANGED <<hubVars, phase, exporterVars>>

\* request_facts(): the request moves to the label of its protocol.
Relabelled(g, l) ==
    IF l.label = "unknown" THEN [g EXCEPT !["unknown"] = @ - 1, !["known"] = @ + 1] ELSE g

Classified(l) == [l EXCEPT !.label = "known"]

\* Wrong form: the label the request was opened with.
LoweredUnknown(g, l) ==
    [g EXCEPT !["unknown"] = @ - 1, !["streams"] = IF l.counts THEN @ - 1 ELSE @]

\* finish() lowers the gauges the lifecycle has raised.
Lowered(g, l) ==
    [g EXCEPT ![l.label] = @ - 1, !["streams"] = IF l.counts THEN @ - 1 ELSE @]

\* What a lifecycle has left to tell when its task is over: its fact.
Released(l) ==
    IF l.pc = "done" THEN [l EXCEPT !.label = "unknown", !.counts = FALSE] ELSE l

\* Wrong form: the last terminal fact wins.
FinishLast(r, l, g, status, facts) ==
    /\ life' = [life EXCEPT ![r] = Released([l EXCEPT !.fact = status])]
    /\ gauge' = IF l.fact = None THEN Lowered(g, l) ELSE g
    /\ active' = active \ {r}
    /\ IF l.fact = None THEN RecordAll(<<r>>, <<facts>>) /\ UNCHANGED phase
                        ELSE Unchanged

\* finish() by the task of r, which leaves its lifecycle at l and the gauges at g:
\* the first terminal fact is recorded, a later one changes nothing.
Finish(r, l, g, status, facts) ==
    \/ /\ l.fact = None
       /\ life' = [life EXCEPT ![r] = Released([l EXCEPT !.fact = status])]
       /\ gauge' = Lowered(g, l)
       /\ active' = active \ {r}
       /\ RecordAll(<<r>>, <<facts>>)
       /\ UNCHANGED phase
    \/ /\ l.fact # None
       /\ life' = [life EXCEPT ![r] = Released(l)]
       /\ gauge' = g
       /\ UNCHANGED active
       /\ Unchanged

At(r, pc) == life[r].pc = pc

\* handle(): registry.open() and authentication, which may refuse the request.
Open(r) ==
    /\ phase = "serving" /\ At(r, "idle")
    /\ LET raised == [gauge EXCEPT !["unknown"] = @ + 1]
       IN  \/ /\ life' = [life EXCEPT ![r].pc = "validating"]
              /\ active' = active \union {r}
              /\ gauge' = raised
              /\ Unchanged
           \/ Finish(r, [life[r] EXCEPT !.pc = "done"], raised,
                     "error", "none")

\* The body is not acceptable.
Invalid(r) ==
    /\ At(r, "validating")
    /\ Finish(r, [life[r] EXCEPT !.pc = "done"], gauge, "error", "none")

\* The body is valid, but there is no coordinator any more, or no plan.
Refuse(r) ==
    /\ At(r, "validating")
    /\ Finish(r, [Classified(life[r]) EXCEPT !.pc = "done"], Relabelled(gauge, life[r]),
              "error", IF phase = "serving" THEN "routed" ELSE "none")

\* The request is routed and enters engine.execute().
Execute(r) ==
    /\ At(r, "validating") /\ phase = "serving"
    /\ life' = [life EXCEPT ![r] = [Classified(@) EXCEPT !.pc = "executing"]]
    /\ gauge' = Relabelled(gauge, life[r])
    /\ UNCHANGED active
    /\ Unchanged

\* execute() raises: finish_error(), with execution facts if they are attached.
Fail(r) ==
    /\ At(r, "executing")
    /\ \E status \in {"error", "cancelled"}, facts \in {"routed", "failed"} :
         Finish(r, [life[r] EXCEPT !.pc = "done"], gauge, status, facts)

\* The handler is cancelled at one of its two awaits.
CancelHandler(r) ==
    \/ /\ At(r, "validating")
       /\ Finish(r, [life[r] EXCEPT !.pc = "done"], gauge, "cancelled", "none")
    \/ /\ At(r, "executing")
       /\ Finish(r, [life[r] EXCEPT !.pc = "done"], gauge,
                 "cancelled", "routed")

\* execution_started(): a stream is counted, even if the lifecycle is closed.
Started(r) ==
    [life[r] EXCEPT !.pc = "completing", !.counts = @ \/ r \in Streams]

Streaming(r) ==
    [gauge EXCEPT !["streams"] = IF r \in Streams /\ ~life[r].counts THEN @ + 1 ELSE @]

\* execute() returns: the completion task is created and the response is built,
\* which may raise as well.
Respond(r) ==
    /\ At(r, "executing")
    /\ \/ /\ life' = [life EXCEPT ![r] = Started(r)]
          /\ gauge' = Streaming(r)
          /\ UNCHANGED active
          /\ Unchanged
       \/ Finish(r, Started(r), Streaming(r), "error", "routed")

\* record_completion() goes on: the completion future has its result.
Complete(r) ==
    /\ At(r, "completing")
    /\ \E status \in Status \ {"abandoned"} :
         Finish(r, [life[r] EXCEPT !.pc = "done"], gauge, status, "committed")

RequestStep(r) ==
    Open(r) \/ Invalid(r) \/ Refuse(r) \/ Execute(r) \/ Fail(r) \/ CancelHandler(r)
      \/ Respond(r) \/ Complete(r)

-----------------------------------------------------------------------------
(* Shutdown, in the order of lifespan().                                    *)

Injective(q) == \A i, j \in DOMAIN q : q[i] = q[j] => i = j

\* The orders in which the members of S may be taken.
Orders(S) == {o \in [1..Cardinality(S) -> S] : Injective(o) /\ Elements(o) = S}

\* abandon_all().  It follows the order of opening; here it may be any.
Shutdown ==
    /\ phase = "serving" /\ phase' = "closing_workers"
    /\ Overlap \/ \A r \in active : At(r, "completing")
    /\ \E order \in Orders(active) :
         RecordAll(order, [i \in DOMAIN order |->
                             IF At(order[i], "validating") THEN "none" ELSE "routed"])
    /\ life' = [r \in Request |->
                  IF r \in active
                  THEN [life[r] EXCEPT !.fact = "abandoned"]
                  ELSE life[r]]
    /\ gauge' =
         [unknown |-> gauge["unknown"] - Cardinality({r \in active : life[r].label = "unknown"}),
          known   |-> gauge["known"] - Cardinality({r \in active : life[r].label = "known"}),
          streams |-> gauge["streams"] - Cardinality({r \in active : life[r].counts})]
    /\ active' = {}

\* The evaluation workers and the retention are closed; the hub begins to drain.
HubCloses ==
    /\ phase = "closing_workers" /\ phase' = "draining"
    /\ UNCHANGED <<life, active, gauge, hubVars, exporterVars>>

\* The queue is joined within the deadline.
Drained ==
    /\ phase = "draining" /\ phase' = "exporting"
    /\ queue = <<>> /\ hand = None
    /\ ExporterStops
    /\ UNCHANGED <<life, active, gauge, hubVars>>

\* It is not: what is queued is counted, and the writer is cancelled inside
\* append(), before or after the commit.
DrainTimeout ==
    /\ phase = "draining" /\ phase' = "exporting"
    /\ queue # <<>> \/ hand # None
    /\ counted' = [counted EXCEPT !["shutdown_timeout"] = @ \union Elements(queue)]
    /\ rows' \in {rows, rows \union ({hand} \ {None})}
    /\ hand' = None
    /\ depth' = IF hand = None THEN depth ELSE Len(queue)
    /\ ExporterStops
    /\ UNCHANGED <<life, active, gauge, queue>>

ExporterCloses ==
    /\ phase = "exporting" /\ phase' = "closing_store"
    /\ ExporterDrained \/ ExporterTimeout
    /\ UNCHANGED <<life, active, gauge, hubVars>>

StoreCloses ==
    /\ phase = "closing_store" /\ phase' = "closed"
    /\ UNCHANGED <<life, active, gauge, hubVars, exporterVars>>

Closing == HubCloses \/ Drained \/ DrainTimeout \/ ExporterCloses \/ StoreCloses

\* Nothing is left to do.
Stopped ==
    /\ phase = "closed" /\ \A r \in Request : life[r].pc \in {"idle", "done"}
    /\ UNCHANGED vars

Writer == Take \/ Write

Next ==
    \/ \E r \in Request : RequestStep(r)
    \/ Writer
    \/ ExporterWorks /\ UNCHANGED pipelineVars
    \/ Shutdown
    \/ Closing
    \/ Stopped

Spec == Init /\ [][Next]_vars

\* The writer gets on: each append() ends, within SQLite's busy timeout.
FairSpec == Spec /\ WF_vars(Writer)

-----------------------------------------------------------------------------
(* Properties.                                                              *)

\* Where the bundle of r is.
Places(r) ==
    {x \in Reason : r \in counted[x]}
      \union {x \in {"queued"} : WriterRuns /\ r \in Elements(queue)}
      \union {x \in {"writing"} : r = hand}
      \union {x \in {"stored"} : r \in rows}

GaveUp == UNION {counted[x] : x \in Reason}

(* The gauges agree with the registry: as many requests are in flight as are *)
(* registered, whatever finishes them, and while the router serves, label by *)
(* label, with the streams among them (lifecycle.py:63-64, 86-89, 100-102,   *)
(* 164-170).                                                                 *)
GaugesMatch ==
    /\ gauge["unknown"] + gauge["known"] = Cardinality(active)
    /\ phase = "serving" =>
         /\ \A x \in {"unknown", "known"} :
              gauge[x] = Cardinality({r \in active : life[r].label = x})
         /\ gauge["streams"] = Cardinality({r \in active : life[r].counts})

(* Every concluded request is accounted for in one place only: its bundle is *)
(* queued, being written, stored, or counted as a gap.  The bundle in the    *)
(* writer's hand at the drain deadline alone may be missing (hub.py:85-130). *)
Accounted ==
    \A r \in Request :
        /\ \A x, y \in Places(r) : x = y
        /\ life[r].fact = None => Places(r) = {}
        /\ life[r].fact # None /\ WriterRuns => Places(r) # {}

(* The pipeline keeps the promises of the ledger: one fact per request that  *)
(* never changes, bundles settled in order, new ones refused only when the   *)
(* queue is full, at most one lost at shutdown (lifecycle.py:125-171,        *)
(* hub.py:85-130).                                                           *)
Ledger == INSTANCE ObservationLedger WITH
    Room <- QueueCapacity,
    fact <- [r \in Request |-> life[r].fact],
    pending <- IF ~WriterRuns THEN <<>> ELSE IF hand = None THEN queue ELSE <<hand>> \o queue,
    stored <- rows,
    gaps <- GaveUp

ImplementsLedger == Ledger!Spec

(* Every concluded request has its bundle stored or counted in the end,      *)
(* unless the drain deadline cuts it off: no failed write, full queue or     *)
(* shutdown leaves the writer stuck on one (hub.py:94-130).                  *)
BundlesSettle ==
    \A r \in Request :
        life[r].fact # None ~> (r \in rows \/ r \in GaveUp \/ ~WriterRuns)

(* After shutdown every concluded request is stored or counted.  The drain   *)
(* deadline counts qsize(), which does not include the bundle being written  *)
(* (hub.py:121-128).  The v0.7 plan asks for this and the code does not keep *)
(* it: README, "Divergences".                                                *)
NothingLost ==
    ~WriterRuns => \A r \in Request : life[r].fact # None => r \in rows \/ r \in GaveUp
=============================================================================
