--------------------------- MODULE MCObservations ---------------------------
(* Instance of ObservationPipeline: a stream whose trace is sampled and two  *)
(* plain requests, enough to have one bundle written, one queued and one     *)
(* refused; a trace has up to five spans, more than the exporter queues.     *)
EXTENDS ObservationPipeline

CONSTANTS r1, r2, r3

MCRequest == {r1, r2, r3}
MCStreams == {r1}
MCSampled == {r1}
=============================================================================
