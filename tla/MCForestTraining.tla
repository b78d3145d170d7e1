-------------------------- MODULE MCForestTraining --------------------------
(***************************************************************************)
(* Forests of two trees over three samples of two classes.                 *)
(***************************************************************************)
EXTENDS ForestTraining, TLC

MCTarget == 0 :> 0 @@ 1 :> 1 @@ 2 :> 1
=============================================================================
