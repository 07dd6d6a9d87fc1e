----------------------------- MODULE MCAnalytics -----------------------------
(* PipelineRuns with a reader of the overview, for TLC. *)
EXTENDS MCPipelineRuns, Analytics
=============================================================================
