------------------------ MODULE MCTelemetryPipeline ------------------------
(* Two callers, events of a type with a table, of one without and of an excluded *)
(* path, and one tick of the clock, after which the deduplicator lets them again. *)
EXTENDS TelemetryPipeline

CONSTANTS c1, c2, kproc, kskip, kother

MCKindOf == [k \in Keys |-> CASE k = kproc  -> "process"
                              [] k = kskip  -> "excluded"
                              [] k = kother -> "other"]
=============================================================================
