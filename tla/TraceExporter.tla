--------------------------- MODULE TraceExporter ---------------------------
(***************************************************************************)
(* The OTLP exporter, observability/otlp.py (OtlpTraceExporter): a bounded *)
(* queue of spans, one worker that exports them in batches, and a close    *)
(* that drains within a deadline.                                          *)
(*                                                                         *)
(* A span is the request it belongs to.  How many spans a request has is   *)
(* the caller's concern; their contents are left out.                      *)
(***************************************************************************)
EXTENDS Integers, Sequences, FiniteSets

CONSTANTS
    Request,      \* requests, each with a fresh request ID
    SpanCapacity, \* otlp.queue_capacity
    BatchSize     \* otlp.batch_size

ASSUME ExporterAssumption ==
    SpanCapacity \in Nat \ {0} /\ BatchSize \in Nat \ {0}

VARIABLES
    exporter, \* running, stopping (close() drains), stopped, or unavailable: no worker
    spans,    \* _queue
    batch,    \* the spans _export() is exporting
    owed,     \* spans given to record() and not counted as success or failed, per request
    cut,      \* requests whose trace was cut: one count of "dropped" each
    late      \* spans counted as "shutdown_timeout"

exporterVars == <<exporter, spans, batch, owed, cut, late>>

ExporterTypeOK ==
    /\ exporter \in {"running", "stopping", "stopped", "unavailable"}
    /\ spans \in Seq(Request) /\ Len(spans) <= SpanCapacity
    /\ batch \in Seq(Request) /\ Len(batch) <= BatchSize
    /\ owed \in [Request -> Nat]
    /\ cut \subseteq Request
    /\ late \in Nat

\* start(): without the SDK there is no worker.
ExporterInit ==
    /\ exporter \in {"running", "unavailable"}
    /\ spans = <<>> /\ batch = <<>>
    /\ owed = [r \in Request |-> 0]
    /\ cut = {}
    /\ late = 0

-----------------------------------------------------------------------------

SpansOf(r, q) == Cardinality({i \in DOMAIN q : q[i] = r})

\* The spans of traces given one after the other: count[i] spans of the request rs[i].
Flat(rs, count) ==
    LET Before[i \in 0..Len(rs)] == IF i = 0 THEN 0 ELSE Before[i - 1] + count[i]
    IN  [j \in 1..Before[Len(rs)] |->
           rs[CHOOSE i \in 1..Len(rs) : Before[i - 1] < j /\ j <= Before[i]]]

\* Wrong form: what does not fit is dropped without a count.
OfferSilently(rs, count) ==
    /\ exporter = "running"
    /\ LET all == spans \o Flat(rs, count)
       IN  spans' = SubSeq(all, 1, IF Len(all) > SpanCapacity THEN SpanCapacity ELSE Len(all))
    /\ owed' = [r \in Request |-> owed[r] + SpansOf(r, Flat(rs, count))]
    /\ UNCHANGED <<exporter, batch, cut, late>>

\* record() of each of the traces: the rest of a trace that does not fit is
\* given up, and counted once.
Offer(rs, count) ==
    LET all == spans \o Flat(rs, count)
        fits == SubSeq(all, 1, IF Len(all) > SpanCapacity THEN SpanCapacity ELSE Len(all))
    IN  \/ /\ exporter = "running"
           /\ spans' = fits
           /\ owed' = [r \in Request |-> owed[r] + SpansOf(r, Flat(rs, count))]
           /\ cut' = cut \union {r \in Request : SpansOf(r, fits) < SpansOf(r, all)}
           /\ UNCHANGED <<exporter, batch, late>>
        \/ exporter # "running" /\ UNCHANGED exporterVars

\* _run() takes what there is, up to the size of a batch.
Collect ==
    /\ exporter \in {"running", "stopping"} /\ spans # <<>> /\ batch = <<>>
    /\ LET n == IF Len(spans) < BatchSize THEN Len(spans) ELSE BatchSize
       IN  /\ batch' = SubSeq(spans, 1, n)
           /\ spans' = SubSeq(spans, n + 1, Len(spans))
    /\ UNCHANGED <<exporter, owed, cut, late>>

\* _export() ends, by success, failure or timeout: its spans are counted.
ExportEnds ==
    /\ exporter \in {"running", "stopping"} /\ batch # <<>>
    /\ owed' = [r \in Request |-> owed[r] - SpansOf(r, batch)]
    /\ batch' = <<>>
    /\ UNCHANGED <<exporter, spans, cut, late>>

ExporterWorks == Collect \/ ExportEnds

\* close() begins: record() takes no more spans.
ExporterStops ==
    /\ exporter' = IF exporter = "running" THEN "stopping" ELSE exporter
    /\ UNCHANGED <<spans, batch, owed, cut, late>>

\* close() has joined the queue and cancelled the worker; there may have been none.
ExporterDrained ==
    /\ exporter = "unavailable" \/ (exporter = "stopping" /\ spans = <<>> /\ batch = <<>>)
    /\ exporter' = IF exporter = "stopping" THEN "stopped" ELSE exporter
    /\ UNCHANGED <<spans, batch, owed, cut, late>>

\* The join of close() times out: the spans still queued are counted, and the
\* worker is cancelled with its batch.
ExporterTimeout ==
    /\ exporter = "stopping" /\ (spans # <<>> \/ batch # <<>>)
    /\ exporter' = "stopped"
    /\ late' = late + Len(spans)
    /\ batch' = <<>>
    /\ UNCHANGED <<spans, owed, cut>>

-----------------------------------------------------------------------------

(* A trace has no gap that is not counted: until the drain deadline of       *)
(* close(), every span given to the exporter is queued, in a batch, or       *)
(* counted as exported or failed, or its trace was counted as cut            *)
(* (otlp.py:89-94, 96-132).                                                  *)
TraceGapShows ==
    exporter \in {"running", "stopping"} =>
        \A r \in Request \ cut :
            owed[r] = SpansOf(r, spans) + SpansOf(r, batch)
=============================================================================
