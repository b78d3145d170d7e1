---------------------------- MODULE MCProcesses ----------------------------
(***************************************************************************)
(* What deals with other processes: the watcher, with two threads, so that *)
(* one can pop behind the other's test, and the allocator of memory in     *)
(* another process, with stubs of one to three words, one as long as the   *)
(* segment, and requests smaller and larger than the first region.         *)
(* Neither uses the other, and a behaviour is one of either.               *)
(***************************************************************************)
EXTENDS ProcWatcher, RemoteAllocator

VARIABLE part

ProcessesInit ==
  /\ part \in {"watcher", "allocator"} /\ Init /\ AllocatorInit
  /\ part = "allocator" => found = 0 /\ _last = 1

ProcessesNext ==
  /\ UNCHANGED part
  /\ \/ part = "watcher" /\ Next /\ UNCHANGED allocatorVars
     \/ part = "allocator" /\ AllocatorNext /\ UNCHANGED vars

ProcessesSpec ==
  ProcessesInit /\ [][ProcessesNext]_<<part, vars, allocatorVars>> /\ Fairness
=============================================================================
