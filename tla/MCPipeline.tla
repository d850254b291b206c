---------------------------- MODULE MCPipeline ----------------------------
(***************************************************************************)
(* Small instances of the pipeline for TLC.  The cfg files give the        *)
(* constants; this module adds only the symmetry of the episodes.          *)
(***************************************************************************)
EXTENDS PipelineProperties, TLC

Interchangeable == Permutations(Episode)
=============================================================================
