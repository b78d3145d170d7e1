-------------------------- MODULE MCPolicyManager --------------------------
(***************************************************************************)
(* Two policies: p1 lists the resource s1 twice and has two visitors        *)
(* there, p2 lists s2 once.                                                *)
(***************************************************************************)
EXTENDS PolicyManager

MCResources == [p \in {"p1", "p2"} |-> IF p = "p1" THEN <<"s1", "s1">> ELSE <<"s2">>]
MCOwner == [v \in {"v1", "v2"} |-> <<"p1", "s1">>]
MCNoActions == <<>>       \* shorter than the one of the code: no property reads the actions
=============================================================================
