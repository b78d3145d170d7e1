------------------------------ MODULE Ensemble ------------------------------
(***************************************************************************)
(* What ensemble_classifier relies on (decision_engine/classifier.h).      *)
(*                                                                         *)
(* posterior weighs the vote of the classifier at position i with the      *)
(* error at position i.  So while an ensemble is built each learner joins  *)
(* it at most once and together with the error measured for it, and when   *)
(* the constructor has returned the ensemble no longer changes.            *)
(***************************************************************************)
CONSTANTS Learner, Error

VARIABLES
  members,     \* the error of each learner that has joined
  built        \* the constructor has returned

Init == members = <<>> /\ built = FALSE

Join(l, e) ==
  /\ ~built /\ l \notin DOMAIN members
  /\ members' = [x \in DOMAIN members \cup {l} |-> IF x = l THEN e ELSE members[x]]
  /\ UNCHANGED built

Return ==
  /\ ~built
  /\ built' = TRUE
  /\ UNCHANGED members

Next == Return \/ \E l \in Learner, e \in Error : Join(l, e)

Spec == Init /\ [][Next]_<<members, built>>

\* The constructor returns.
FairSpec == Spec /\ WF_<<members, built>>(Return)
=============================================================================
