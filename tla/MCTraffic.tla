----------------------------- MODULE MCTraffic -----------------------------
(***************************************************************************)
(* What handles traffic: the worker of nginx and the packet filter.  They  *)
(* are programs of their own, and a behaviour is one of either.            *)
(***************************************************************************)
EXTENDS MCNginxWorker, MCPacketFilter

VARIABLE program

TrafficInit == program \in {"worker", "filter"} /\ Init /\ FilterInit

TrafficNext ==
  /\ UNCHANGED program
  /\ \/ program = "worker" /\ Next /\ UNCHANGED filterVars
     \/ program = "filter" /\ FilterNext /\ UNCHANGED vars

TrafficSpec == TrafficInit /\ [][TrafficNext]_<<program, vars, filterVars>>
=============================================================================
