--------------------------- MODULE MCIngestPipeline ---------------------------
(* Two replicas with a partition each; an event of every kind, each of which *)
(* may be published more than once and on both partitions.                   *)
EXTENDS IngestPipeline

MCIds == 1..5
MCTimes == {1}
MCKindOf == <<"object", "scalar", "bare", "invalid", "refused">>
===============================================================================
