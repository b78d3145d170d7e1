------------------------- MODULE MCPipelineBuilder -------------------------
(***************************************************************************)
(* The parts of the pipeline builder: its pipelines, and the two text      *)
(* models that are stages of them.  No text model looks at a pipeline, and *)
(* a behaviour is one of either.                                           *)
(***************************************************************************)
EXTENDS MCTextModels, MCPipeline

VARIABLE part

BuilderInit ==
  /\ part \in {"texts", "pipelines"} /\ TextInit /\ Init
  /\ part = "pipelines" => bag = Default

BuilderNext ==
  /\ UNCHANGED part
  /\ \/ part = "texts" /\ TextNext /\ UNCHANGED vars
     \/ part = "pipelines" /\ Next /\ UNCHANGED textVars

BuilderSpec == BuilderInit /\ [][BuilderNext]_<<part, textVars, vars>>
=============================================================================
