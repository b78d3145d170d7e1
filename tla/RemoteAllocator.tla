--------------------------- MODULE RemoteAllocator ---------------------------
(***************************************************************************)
(* remote_allocator with its two pools, and invoke with code_copy and      *)
(* register_setter (glue/linuxglue): memory another process is asked to    *)
(* map, by a call of mmap it is made to execute in place of its own code.  *)
(*                                                                         *)
(* invoke saves the code and the registers of the process and puts them    *)
(* back in destructors.  It never stores the address mmap returned, so     *)
(* that grow goes by an uninitialised variable, of which only matters      *)
(* whether it is zero.                                                     *)
(*                                                                         *)
(* Left out: the code itself, addresses (m_start is that uninitialised     *)
(* variable, so what a caller gets is none), and the leaks of stubs and of *)
(* backups.  Nothing in the repository fills the tables in which           *)
(* mem_map::create looks for mmap or the list of threads that are resumed: *)
(* the steps behind Create are those of the code once they are filled.     *)
(***************************************************************************)
EXTENDS Integers

CONSTANTS
  CodeSizes,          \* bytes of a stub
  Mapped,             \* words of the segment its code is written over
  kDefaultCapacity,
  Sizes,              \* bytes a caller asks for
  MaxCalls            \* bound on the calls of init and allocate

ASSUME AllocatorAssumption ==
  /\ CodeSizes \subseteq Nat /\ Sizes \subseteq Nat /\ Mapped \in Nat /\ MaxCalls \in Nat
  /\ kDefaultCapacity \in Nat \ {0} /\ kDefaultCapacity % 8 = 0

VARIABLES
  pools,              \* m_size, m_capacity and MAP_32BIT of the two pools
  call,               \* the operation, its pool and its size; calls so far
  pc,
  stub,               \* size of the code, backup, words poked, and whether invoke succeeds
  setter,             \* m_old_regs and m_modify
  target,             \* the process: stopped, running or gone
  memory, regs,       \* its code and registers: its own, or those of a stub
  lost,               \* what the destructors have failed to put back
  granted             \* what allocate has returned, other than 0

allocatorVars == <<pools, call, pc, stub, setter, target, memory, regs, lost, granted>>

remote == <<target, memory, regs, lost>>

Words == 0 .. Mapped - 1

alignment(size) == ((size + 7) \div 8) * 8

\* Mutant: the length of the code in words, rounded up.
LoopsRoundedUp(len) == (len + 7) \div 8

\* The words that are saved, and those that are overwritten: those of the loop over
\* the bytes of the code, and one of zeros if no byte is left over (!trailer).
Loops(len) == len \div 8 + 1
Poked(len) == (len + 7) \div 8 + (IF len % 8 = 0 THEN 1 ELSE 0)
----------------------------------------------------------------------------
AllocatorInit ==
  /\ pools = [t \in {"LOW", "HIGH"} |-> [size |-> 0, capacity |-> 0, bit32 |-> t = "LOW"]]
  /\ call = [op |-> "none", pool |-> "LOW", cap |-> 0, count |-> 0]
  /\ pc = "idle"
  /\ stub = [len |-> 0, backup |-> [w \in {} |-> "own"], poked |-> 0, ok |-> FALSE]
  /\ setter = [old |-> "own", modify |-> FALSE]
  /\ target = "stopped" /\ memory = [w \in Words |-> "own"] /\ regs = "own"
  /\ lost = [words |-> {}, regs |-> FALSE] /\ granted = {}

\* remote_allocator::init makes both pools grow.
init ==
  /\ pc = "idle" /\ call.count < MaxCalls
  /\ call' = [op |-> "init", pool |-> "LOW", cap |-> 0, count |-> call.count + 1]
  /\ pc' = "map"
  /\ UNCHANGED <<pools, stub, setter, remote, granted>>

\* remote_allocator::allocate: the hint decides which pool comes first.
allocate(size, pool) ==
  /\ pc = "idle" /\ call.count < MaxCalls
  /\ call' = [op |-> "allocate", pool |-> pool, cap |-> alignment(size), count |-> call.count + 1]
  /\ pc' = "try"
  /\ UNCHANGED <<pools, stub, setter, remote, granted>>

\* What is done when a pool has refused, or could not grow: the other one is tried.
Refused ==
  IF call.pool = "LOW"
  THEN call' = [call EXCEPT !.pool = "HIGH"] /\ pc' = IF call.op = "init" THEN "map" ELSE "try"
  ELSE pc' = "idle" /\ UNCHANGED call

Grown == IF call.op = "init" THEN Refused ELSE pc' = "settle" /\ UNCHANGED call

\* pool::allocate, up to grow.
TryPool ==
  /\ pc = "try"
  /\ pc' = IF pools[call.pool].size + call.cap > pools[call.pool].capacity THEN "map" ELSE "settle"
  /\ UNCHANGED <<pools, call, stub, setter, remote, granted>>

Block == [pool |-> call.pool, offset |-> pools[call.pool].size, size |-> call.cap,
          capacity |-> pools[call.pool].capacity]

Take == pools' = [pools EXCEPT ![call.pool].size = @ + call.cap]

Fits == pools[call.pool].capacity # 0 /\ pools[call.pool].size + call.cap >= pools[call.pool].capacity

\* The rest of it, where less than all of the region is refused (and an empty block of a
\* pool without a region has the address 0, which stands for that); and the end of
\* remote_allocator::allocate, which returns 0 for what the low pool has allocated.
Settle ==
  /\ pc = "settle"
  /\ IF Fits
     THEN /\ Take /\ pc' = "idle" /\ UNCHANGED call
          /\ granted' = IF call.pool = "LOW" THEN granted ELSE granted \cup {Block}
     ELSE Refused /\ UNCHANGED <<pools, granted>>
  /\ UNCHANGED <<stub, setter, remote>>
----------------------------------------------------------------------------
\* grow: mem_map::create finds mmap in the process and generates the code, or fails.
Create ==
  /\ pc = "map"
  /\ \/ Refused /\ UNCHANGED stub
     \/ /\ \E len \in CodeSizes : stub' = [stub EXCEPT !.len = len, !.poked = 0, !.ok = FALSE]
        /\ pc' = "peek" /\ UNCHANGED call
  /\ setter' = [setter EXCEPT !.modify = FALSE]
  /\ UNCHANGED <<pools, remote, granted>>

\* Mutant: the words saved by an earlier call are kept.
PeekOnce ==
  /\ pc = "peek"
  /\ \/ /\ target = "stopped" /\ Loops(stub.len) <= Mapped
        /\ stub' = [stub EXCEPT !.backup = [w \in 0 .. Loops(stub.len) - 1 |->
                                             IF w \in DOMAIN @ THEN @[w] ELSE memory[w]]]
        /\ pc' = "poke"
     \/ pc' = "restore" /\ UNCHANGED stub
  /\ UNCHANGED <<pools, call, setter, remote, granted>>

\* code_copy::init saves the words, all of them or none.  A request to ptrace can always
\* fail, and does so for a process that is not stopped and for a word that is not mapped.
Peek ==
  /\ pc = "peek"
  /\ \/ /\ target = "stopped" /\ Loops(stub.len) <= Mapped
        /\ stub' = [stub EXCEPT !.backup = [w \in 0 .. Loops(stub.len) - 1 |-> memory[w]]]
        /\ pc' = "poke"
     \/ pc' = "restore" /\ UNCHANGED stub
  /\ UNCHANGED <<pools, call, setter, remote, granted>>

\* It overwrites them, and may fail at any word.
Poke ==
  /\ pc = "poke"
  /\ \E n \in 0 .. Poked(stub.len) :
       /\ target # "stopped" => n = 0
       /\ memory' = [w \in Words |-> IF w < n THEN "code" ELSE memory[w]]
       /\ stub' = [stub EXCEPT !.poked = n]
       /\ pc' = IF n = Poked(stub.len) THEN "regs" ELSE "restore"
  /\ UNCHANGED <<pools, call, setter, target, regs, lost, granted>>

\* register_setter: the registers are saved and set.
SetRegs ==
  /\ pc = "regs"
  /\ \/ /\ target = "stopped"
        /\ setter' = [old |-> regs, modify |-> TRUE]
        /\ regs' = "code" /\ pc' = "run"
     \/ pc' = "restore" /\ UNCHANGED <<setter, regs>>
  /\ UNCHANGED <<pools, call, stub, target, memory, lost, granted>>

\* resume_and_wait: the process hits the trap behind the call of mmap, and its registers
\* are read; or it ends; or it stops for another signal, which is forwarded; or waitpid is
\* interrupted; or the process could not be resumed.
Run ==
  /\ pc = "run"
  /\ pc' = "undo"
  /\ \/ /\ target = "stopped" /\ UNCHANGED target
        /\ \E ok \in BOOLEAN : stub' = [stub EXCEPT !.ok = ok]
     \/ target = "stopped" /\ target' = "running" /\ UNCHANGED stub
     \/ target' = "gone" /\ UNCHANGED stub
     \/ target # "stopped" /\ UNCHANGED <<stub, target>>
  /\ UNCHANGED <<pools, call, setter, memory, regs, lost, granted>>

\* ~register_setter puts the registers back, or fails to and returns.
Undo ==
  /\ pc = "undo"
  /\ \/ setter.modify /\ target = "stopped" /\ regs' = setter.old /\ UNCHANGED lost
     \/ UNCHANGED regs /\ lost' = [lost EXCEPT !.regs = @ \/ setter.modify]
  /\ pc' = "restore"
  /\ UNCHANGED <<pools, call, stub, setter, target, memory, granted>>

\* ~code_copy puts the overwritten words back up to the first one for which that fails.
Restore ==
  /\ pc = "restore"
  /\ \E n \in 0 .. stub.poked :
       /\ target # "stopped" => n = 0
       /\ memory' = [w \in Words |-> IF w >= n THEN memory[w]
                                     ELSE IF w \in DOMAIN stub.backup THEN stub.backup[w]
                                     ELSE "unknown"]
       /\ lost' = [lost EXCEPT !.words = @ \cup n .. stub.poked - 1]
  /\ IF stub.ok THEN pc' = "mapped" /\ UNCHANGED call ELSE Refused
  /\ UNCHANGED <<pools, stub, setter, target, regs, granted>>

\* The rest of grow, for a variable that is zero or not: without an address MAP_32BIT is
\* given up and mmap called again (create does not fail where it has succeeded before).
Mmapped ==
  /\ pc = "mapped"
  /\ LET p == pools[call.pool] IN
     \/ /\ pools' = [pools EXCEPT ![call.pool] = [p EXCEPT !.size = 0,
                       !.capacity = IF p.capacity = 0 THEN kDefaultCapacity
                                    ELSE 2 * p.capacity + call.cap]]
        /\ Grown /\ UNCHANGED <<stub, setter>>
     \/ /\ p.bit32
        /\ pools' = [pools EXCEPT ![call.pool] = [p EXCEPT !.bit32 = FALSE]]
        /\ stub' = [stub EXCEPT !.poked = 0, !.ok = FALSE]
        /\ setter' = [setter EXCEPT !.modify = FALSE]
        /\ pc' = "peek" /\ UNCHANGED call
     \/ ~p.bit32 /\ Refused /\ UNCHANGED <<pools, stub, setter>>
  /\ UNCHANGED <<remote, granted>>

\* The process is killed, or hits a trap nobody waits for.
Die ==
  /\ target # "gone" /\ target' = "gone"
  /\ UNCHANGED <<pools, call, pc, stub, setter, memory, regs, lost, granted>>

Trap ==
  /\ target = "running" /\ target' = "stopped"
  /\ UNCHANGED <<pools, call, pc, stub, setter, memory, regs, lost, granted>>

AllocatorNext ==
  \/ init \/ \E size \in Sizes, pool \in {"LOW", "HIGH"} : allocate(size, pool)
  \/ TryPool \/ Settle \/ Create \/ Peek \/ Poke \/ SetRegs \/ Run \/ Undo \/ Restore \/ Mmapped
  \/ Die \/ Trap

AllocatorSpec == AllocatorInit /\ [][AllocatorNext]_allocatorVars
----------------------------------------------------------------------------
\* Wherever a call failed and whatever became of the process meanwhile, between two calls
\* all of its code and its registers are its own but for what a destructor gave up on: the
\* words behind the one that could not be written, and registers that could not be set.
LeftAsFound ==
  pc = "idle" =>
    /\ regs # "own" => lost.regs
    /\ \A w \in Words : memory[w] # "own" => w \in lost.words

\* What was given up on is never put back: the next call takes it for the code and the
\* registers of the process, saves it and restores it.
DamageStays ==
  /\ \A w \in Words :
       [](pc = "idle" /\ memory[w] # "own" => [](pc = "idle" => memory[w] # "own"))
  /\ [](pc = "idle" /\ regs # "own" => [](pc = "idle" => regs # "own"))

\* The assertion in pool::allocate, commented out: there is room for a block and more in
\* its region.  The test behind it refuses exactly that.
AssertedRoom == \A b \in granted : b.offset + b.size < b.capacity
=============================================================================
