--------------------------- MODULE MCPipelineRuns ---------------------------
(* Instances of PipelineRuns for TLC. *)
EXTENDS PipelineRuns

MCRunLengths == {1, 2}
MCRevisions == {0, 2}

\* Every run adds revisions, so versions differ from the first run to the next.
MCOneRevision == {2}

\* Everything may fail.
MCFaults == AllFaults

\* A failed statement and a failed send leave behind what a killed task does.
MCMixedFaults == {"node", "redis", "kill", "delete"}
MCShortRuns == {1}

\* Workers are interchangeable.
MCWorkers == Permutations(Worker)
=============================================================================
