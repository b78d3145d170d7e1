------------------------------ MODULE MCPipeline ------------------------------
(***************************************************************************)
(* A pipeline of the application, up to five stages, among them pipelines  *)
(* nested four deep, and two removals.                                     *)
(***************************************************************************)
EXTENDS Pipeline
CONSTANT r1
=============================================================================
