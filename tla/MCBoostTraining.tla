-------------------------- MODULE MCBoostTraining --------------------------
(***************************************************************************)
(* Two boosted ensembles trained one after the other.                      *)
(***************************************************************************)
EXTENDS BoostTraining

CONSTANTS a, b        \* instances

MCTwo == <<a, b>>
=============================================================================
