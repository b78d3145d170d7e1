---------------------------- MODULE ProcWatcher ----------------------------
(***************************************************************************)
(* proc_watcher (util/procwatcher.h) and the safe_queue it keeps the       *)
(* processes in that its constructor has found.  Threads call watch, which *)
(* empties the queue by empty, front and pop, each of which takes the lock *)
(* for itself; on an empty queue it waits for an event below /proc and     *)
(* walks through the process ids since the last one.                       *)
(*                                                                         *)
(* Left out: inotify (an event arrives or does not), check, which chooses  *)
(* among the processes, and the strings the walk builds and drops.  The    *)
(* operations of safe_queue nothing calls (wait, touch, back, push_back    *)
(* and the like, some of which do not compile) are left out too.           *)
(***************************************************************************)
EXTENDS Integers, FiniteSets, Sequences, Functions

CONSTANTS
  Watchers,           \* threads that call watch on one object
  max_pid,            \* /proc/sys/kernel/pid_max
  MaxFound,           \* bound on the processes the constructor finds
  MaxEvents           \* bound on the events one read returns

ASSUME WatcherAssumption ==
  max_pid \in Nat \ {0, 1} /\ MaxFound \in Nat /\ MaxEvents \in Nat \ {0}

Pids == 0 .. max_pid - 1

VARIABLES
  found,              \* how many processes the constructor has found
  _processes,         \* the queue; process n was the nth to be pushed
  _last,              \* the latest process id a scan has seen
  at,                 \* where each watcher is in watch
  prc_buf,            \* what the call of each watcher has taken so far
  scan,               \* events left, j (modulo max_pid) and npid of its scan
  delivered,          \* processes handed to callers, in that order
  overlap,            \* two calls of watch have overlapped
  undefined,          \* front or pop of an empty queue, or a race on _last
  alive,              \* the destructor has not run
  freed               \* the processes it deleted

queue == <<found, _processes>>
ghosts == <<delivered, overlap, undefined, alive, freed>>
vars == <<queue, _last, at, prc_buf, scan, ghosts>>

Step(w, from, to) == at[w] = from /\ at' = [at EXCEPT ![w] = to]
----------------------------------------------------------------------------
\* init: the processes in the order of readdir.
Init ==
  /\ found \in 0 .. MaxFound
  /\ _processes = [n \in 1 .. found |-> n]
  /\ _last \in Pids
  /\ at = [w \in Watchers |-> "idle"] /\ prc_buf = [w \in Watchers |-> <<>>]
  /\ scan = [w \in Watchers |-> [events |-> 0, j |-> 0, npid |-> 0]]
  /\ delivered = <<>> /\ overlap = FALSE /\ undefined = FALSE /\ alive = TRUE /\ freed = {}

Call(w) ==
  /\ alive /\ Step(w, "idle", "empty")
  /\ prc_buf' = [prc_buf EXCEPT ![w] = <<>>]
  /\ overlap' = (overlap \/ \E v \in Watchers : at[v] # "idle")
  /\ UNCHANGED <<queue, _last, scan, delivered, undefined, alive, freed>>

\* while (!_processes.empty ()): take one more, return what was taken, or wait.
TestEmpty(w) ==
  /\ \/ _processes # <<>> /\ Step(w, "empty", "front") /\ UNCHANGED delivered
     \/ /\ _processes = <<>> /\ prc_buf[w] # <<>> /\ Step(w, "empty", "idle")
        /\ delivered' = delivered \o prc_buf[w]
     \/ /\ _processes = <<>> /\ prc_buf[w] = <<>> /\ Step(w, "empty", "read")
        /\ UNCHANGED delivered
  /\ UNCHANGED <<queue, _last, prc_buf, scan, overlap, undefined, alive, freed>>

\* Mutant: the process pushed last is taken, and the first one removed.
TakesBack(w) ==
  /\ Step(w, "front", "pop")
  /\ IF _processes = <<>> THEN undefined' = TRUE /\ UNCHANGED prc_buf
     ELSE prc_buf' = [prc_buf EXCEPT ![w] = Append(@, _processes[Len(_processes)])] /\ UNCHANGED undefined
  /\ UNCHANGED <<queue, _last, scan, delivered, overlap, alive, freed>>

\* front: of an empty queue it is undefined, and we follow the process no further.
TakeFront(w) ==
  /\ Step(w, "front", "pop")
  /\ IF _processes = <<>> THEN undefined' = TRUE /\ UNCHANGED prc_buf
     ELSE prc_buf' = [prc_buf EXCEPT ![w] = Append(@, Head(_processes))] /\ UNCHANGED undefined
  /\ UNCHANGED <<queue, _last, scan, delivered, overlap, alive, freed>>

\* Mutant: nothing is removed from a queue another call has emptied.
PopIfAny(w) ==
  /\ Step(w, "pop", "empty")
  /\ _processes' = IF _processes = <<>> THEN <<>> ELSE Tail(_processes)
  /\ UNCHANGED <<found, _last, prc_buf, scan, ghosts>>

Pop(w) ==
  /\ Step(w, "pop", "empty")
  /\ IF _processes = <<>> THEN undefined' = TRUE /\ UNCHANGED _processes
     ELSE _processes' = Tail(_processes) /\ UNCHANGED undefined
  /\ UNCHANGED <<found, _last, prc_buf, scan, delivered, overlap, alive, freed>>

\* read returns with events; it may fail, and then there is nothing to scan.
Read(w) ==
  /\ \/ /\ Step(w, "read", "event")
        /\ \E n \in 1 .. MaxEvents : scan' = [scan EXCEPT ![w].events = n]
     \/ Step(w, "read", "idle") /\ UNCHANGED scan
  /\ UNCHANGED <<queue, _last, prc_buf, ghosts>>

\* The latest process id is read, compared with _last and stored there.  Two watchers
\* in here race on the string and on the static buffer.
Event(w) ==
  /\ \E latest \in Pids :
       IF latest = _last
       THEN /\ Step(w, "event", IF scan[w].events = 1 THEN "idle" ELSE "event")
            /\ scan' = [scan EXCEPT ![w].events = @ - 1] /\ UNCHANGED _last
       ELSE /\ Step(w, "event", "scan") /\ _last' = latest
            /\ scan' = [scan EXCEPT ![w].j = (_last + 1) % max_pid, ![w].npid = latest]
  /\ undefined' = (undefined \/ \E v \in Watchers \ {w} : at[v] \in {"read", "event"})
  /\ UNCHANGED <<queue, prc_buf, delivered, overlap, alive, freed>>

\* Mutant: i is not advanced behind an event that was walked for.
ScanKeepsOffset(w) ==
  /\ IF scan[w].j <= scan[w].npid
     THEN Step(w, "scan", "scan") /\ scan' = [scan EXCEPT ![w].j = (@ + 1) % max_pid]
     ELSE Step(w, "scan", "event") /\ UNCHANGED scan
  /\ UNCHANGED <<queue, _last, prc_buf, ghosts>>

\* for (int j = lpid + 1; j % max_pid <= npid; ++j): the overflow of j is left out.
Scan(w) ==
  /\ IF scan[w].j <= scan[w].npid
     THEN Step(w, "scan", "scan") /\ scan' = [scan EXCEPT ![w].j = (@ + 1) % max_pid]
     ELSE /\ Step(w, "scan", IF scan[w].events = 1 THEN "idle" ELSE "event")
          /\ scan' = [scan EXCEPT ![w].events = @ - 1]
  /\ UNCHANGED <<queue, _last, prc_buf, ghosts>>

\* The destructor deletes what nobody has taken.
Destroy ==
  /\ alive /\ \A w \in Watchers : at[w] = "idle"
  /\ alive' = FALSE /\ freed' = Range(_processes) /\ _processes' = <<>>
  /\ UNCHANGED <<found, _last, at, prc_buf, scan, delivered, overlap, undefined>>

Proceed(w) == TestEmpty(w) \/ TakeFront(w) \/ Pop(w) \/ Event(w) \/ Scan(w)

Next == ~undefined /\ (Destroy \/ \E w \in Watchers : Call(w) \/ Read(w) \/ Proceed(w))

\* The scheduler runs every thread in watch again and again, but no event need ever
\* arrive.
Fairness == \A w \in Watchers : WF_vars(~undefined /\ Proceed(w))

Spec == Init /\ [][Next]_vars /\ Fairness
----------------------------------------------------------------------------
\* Calls of watch that do not overlap hand out the processes the constructor found
\* once each and in order, and leave the rest to the destructor.
DeliveredInOrder ==
  ~overlap =>
    /\ ~undefined
    /\ \A n \in DOMAIN delivered : delivered[n] = n
    /\ ~alive => freed = Len(delivered) + 1 .. found

\* Overlapping calls hand out a process twice and lose another for it: as long as
\* nothing undefined happens, the number of those handed out, queued and deleted is
\* the number of those found, so that nobody who counts them notices.
LossesBalanced ==
  (~undefined /\ \A w \in Watchers : at[w] = "idle") =>
    Len(delivered) + Len(_processes) + Cardinality(freed) = found

\* A call of watch returns or waits for an event, unless the latest process id is the
\* greatest there can be: then j % max_pid never exceeds it.
WatchReturns ==
  \A w \in Watchers :
    at[w] # "idle" ~>
      \/ at[w] \in {"idle", "read"} \/ undefined
      \/ at[w] = "scan" /\ scan[w].npid = max_pid - 1
============================================================================
