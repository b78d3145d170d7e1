----------------------------- MODULE HostProofs ----------------------------
(***************************************************************************)
(* Machine-checked proofs about the parts that work on the processes of the*)
(* host: ProcWatcher, for any number of threads and of processes,          *)
(* RemoteAllocator, for stubs, segments and requests of any size, and      *)
(* StatCollector, for any files.                                           *)
(***************************************************************************)
EXTENDS ProcWatcher, RemoteAllocator, StatCollector, FiniteSetTheorems, SequenceTheorems, TLAPS

----------------------------------------------------------------------------
(* ProcWatcher *)

Places == {"idle", "empty", "front", "pop", "read", "event", "scan"}

Types ==
  /\ found \in Nat /\ _processes \in Seq(Nat) /\ delivered \in Seq(Nat)
  /\ prc_buf \in [Watchers -> Seq(Nat)]
  /\ at \in [Watchers -> Places]
  /\ alive \in BOOLEAN /\ overlap \in BOOLEAN /\ undefined \in BOOLEAN

\* How many processes have been removed from the queue.
Taken == found - Len(_processes)

\* Watcher w has taken the processes behind the delivered ones, up to number n.
Holds(w, n) ==
  /\ Len(delivered) + Len(prc_buf[w]) = n
  /\ \A k \in 1 .. Len(prc_buf[w]) : prc_buf[w][k] = Len(delivered) + k

\* What a call that nobody disturbs has taken, wherever it is.
Position(w) ==
  /\ at[w] \in {"empty", "front"} => Holds(w, Taken)
  /\ at[w] = "pop" => Holds(w, Taken + 1)
  /\ at[w] \in {"front", "pop"} => _processes # <<>>
  /\ at[w] \in {"read", "event", "scan"} => Len(delivered) = Taken

\* At most one call at a time: the queue holds the processes nobody has taken.
Undisturbed ==
  /\ ~undefined
  /\ \A v, w \in Watchers : at[v] # "idle" /\ at[w] # "idle" => v = w
  /\ \A n \in 1 .. Len(delivered) : delivered[n] = n
  /\ ~alive => /\ \A w \in Watchers : at[w] = "idle"
               /\ freed = Len(delivered) + 1 .. found
  /\ alive =>
       /\ Len(_processes) <= found
       /\ \A n \in 1 .. Len(_processes) : _processes[n] = Taken + n
       /\ \A w \in Watchers : Position(w)
       /\ (\A w \in Watchers : at[w] = "idle") => Len(delivered) = Taken

IInv == Types /\ (~overlap => Undisturbed)
----------------------------------------------------------------------------
LEMMA InitInvariant == Init => IInv
<1> SUFFICES ASSUME Init PROVE IInv
  OBVIOUS
<1>1. found \in Nat
  BY WatcherAssumption DEF Init
<1>2. _processes \in Seq(Nat) /\ Len(_processes) = found
         /\ \A n \in 1 .. Len(_processes) : _processes[n] = n
  BY <1>1 DEF Init
<1>3. delivered \in Seq(Nat) /\ Len(delivered) = 0
  BY DEF Init
<1>4. Types BY <1>1, <1>2, <1>3 DEF Init, Types, Places
<1>5. Undisturbed
  BY <1>1, <1>2, <1>3 DEF Init, Undisturbed, Taken, Position, Holds
<1> QED BY <1>4, <1>5 DEF IInv

LEMMA NextCall ==
  ASSUME IInv, NEW w \in Watchers, Call(w)
  PROVE  IInv'
<1>1. /\ alive /\ at[w] = "idle" /\ at' = [at EXCEPT ![w] = "empty"]
      /\ prc_buf' = [prc_buf EXCEPT ![w] = <<>>]
      /\ UNCHANGED <<found, _processes, delivered, undefined, alive, freed>>
      /\ overlap' = (overlap \/ \E v \in Watchers : at[v] # "idle")
  BY DEF Call, Step, queue
<1>2. Types' BY <1>1 DEF IInv, Types, Places
<1>3. ASSUME ~overlap' PROVE Undisturbed'
  <2>1. Undisturbed /\ \A v \in Watchers : at[v] = "idle"
    BY <1>1, <1>3 DEF IInv
  <2>2. Len(delivered) = Taken /\ Taken' = Taken
    BY <1>1, <2>1 DEF Undisturbed, Taken
  <2>3. prc_buf'[w] = <<>> /\ Len(prc_buf'[w]) = 0
    BY <1>1 DEF IInv, Types
  <2>4. Position(w)'
    BY <1>1, <2>2, <2>3 DEF Position, Holds, IInv, Types
  <2>5. \A v \in Watchers \ {w} : at'[v] = "idle"
    BY <1>1, <2>1 DEF IInv, Types
  <2>6. \A v \in Watchers : Position(v)'
    BY <2>4, <2>5 DEF Position
  <2>7. at'[w] = "empty" BY <1>1 DEF IInv, Types
  <2> QED BY <1>1, <2>1, <2>2, <2>5, <2>6, <2>7 DEF Undisturbed
<1> QED BY <1>2, <1>3 DEF IInv

(* A step of one thread in a call that nobody disturbs: it suffices to look *)
(* at the queue and at that thread.                                        *)
LEMMA OneMoves ==
  ASSUME IInv, ~overlap, NEW w \in Watchers, at[w] # "idle",
         NEW to \in Places, at' = [at EXCEPT ![w] = to],
         UNCHANGED <<found, alive, freed, overlap>>,
         ~undefined',
         Len(_processes') \in Nat /\ Len(_processes') <= found,
         \A n \in 1 .. Len(_processes') : _processes'[n] = Taken' + n,
         \A n \in 1 .. Len(delivered') : delivered'[n] = n,
         Position(w)',
         to = "idle" => Len(delivered') = Taken'
  PROVE  Undisturbed'
<1>1. Undisturbed /\ alive
  BY DEF IInv, Undisturbed
<1>2. \A v \in Watchers \ {w} : at[v] = "idle" /\ at'[v] = "idle"
  BY <1>1 DEF Undisturbed, IInv, Types
<1>3. \A v \in Watchers : Position(v)'
  BY <1>2 DEF Position
<1>4. at'[w] = to
  BY DEF IInv, Types
<1> QED BY <1>1, <1>2, <1>3, <1>4 DEF Undisturbed

LEMMA NextTestEmpty ==
  ASSUME IInv, NEW w \in Watchers, TestEmpty(w)
  PROVE  IInv'
<1>1. /\ at[w] = "empty"
      /\ UNCHANGED <<found, _processes, prc_buf, overlap, undefined, alive, freed>>
  BY DEF TestEmpty, Step, queue
<1>2. /\ prc_buf[w] \in Seq(Nat) /\ delivered \in Seq(Nat) /\ _processes \in Seq(Nat)
      /\ Len(prc_buf[w]) \in Nat /\ Len(delivered) \in Nat /\ Len(_processes) \in Nat
      /\ found \in Nat
  BY DEF IInv, Types
<1>3. ~overlap =>
        /\ Undisturbed /\ alive /\ Holds(w, Taken)
        /\ Len(_processes) <= found /\ \A n \in 1 .. Len(_processes) : _processes[n] = Taken + n
        /\ \A n \in 1 .. Len(delivered) : delivered[n] = n
  BY <1>1 DEF IInv, Undisturbed, Position
<1>4. Taken' = Taken
  BY <1>1 DEF Taken
<1>5. CASE _processes # <<>> /\ Step(w, "empty", "front") /\ UNCHANGED delivered
  <2>1. at' = [at EXCEPT ![w] = "front"] /\ at'[w] = "front"
    BY <1>5 DEF Step, IInv, Types
  <2>2. Types' BY <1>1, <1>5, <2>1 DEF IInv, Types, Places
  <2>3. ASSUME ~overlap PROVE Undisturbed'
    <3>1. Position(w)'
      BY <1>1, <1>3, <1>4, <1>5, <2>1, <2>3 DEF Position, Holds
    <3> QED BY <1>1, <1>2, <1>3, <1>4, <1>5, <2>1, <2>3, <3>1, OneMoves DEF Places, Undisturbed
  <2> QED BY <1>1, <2>2, <2>3 DEF IInv
<1>6. CASE _processes = <<>> /\ prc_buf[w] # <<>> /\ Step(w, "empty", "idle")
           /\ delivered' = delivered \o prc_buf[w]
  <2>1. at' = [at EXCEPT ![w] = "idle"] /\ at'[w] = "idle"
    BY <1>6 DEF Step, IInv, Types
  <2>2. /\ delivered' \in Seq(Nat) /\ Len(delivered') = Len(delivered) + Len(prc_buf[w])
        /\ \A n \in 1 .. Len(delivered') :
             delivered'[n] = IF n <= Len(delivered) THEN delivered[n] ELSE prc_buf[w][n - Len(delivered)]
    BY <1>2, <1>6
  <2>3. Types' BY <1>1, <2>1, <2>2 DEF IInv, Types, Places
  <2>4. ASSUME ~overlap PROVE Undisturbed'
    <3>1. ASSUME NEW n \in 1 .. Len(delivered') PROVE delivered'[n] = n
      <4>1. CASE n <= Len(delivered)
        <5>1. n \in 1 .. Len(delivered) BY <1>2, <2>2, <4>1
        <5> QED BY <1>3, <2>2, <2>4, <4>1, <5>1
      <4>2. CASE ~(n <= Len(delivered))
        <5>1. n - Len(delivered) \in 1 .. Len(prc_buf[w]) BY <1>2, <2>2, <4>2
        <5>2. prc_buf[w][n - Len(delivered)] = Len(delivered) + (n - Len(delivered))
          BY <1>3, <2>4, <5>1 DEF Holds
        <5>3. delivered'[n] = prc_buf[w][n - Len(delivered)] BY <2>2, <4>2
        <5>4. Len(delivered) + (n - Len(delivered)) = n BY <1>2, <2>2
        <5> QED BY <5>2, <5>3, <5>4
      <4> QED BY <4>1, <4>2
    <3>2. Position(w)' BY <2>1 DEF Position
    <3>3. Len(delivered') = Taken' BY <1>3, <1>4, <2>2, <2>4 DEF Holds
    <3>4. Undisturbed /\ alive' /\ ~undefined' BY <1>1, <1>3, <2>4 DEF Undisturbed
    <3>5. Len(_processes') \in Nat /\ Len(_processes') <= found /\ UNCHANGED found
      BY <1>1, <1>2, <1>3, <2>4
    <3>6. \A n \in 1 .. Len(_processes') : _processes'[n] = Taken' + n
      BY <1>1, <1>3, <1>4, <2>4
    <3>7. at[w] # "idle" /\ UNCHANGED <<alive, freed, overlap>> BY <1>1
    <3>8. \A n \in 1 .. Len(delivered') : delivered'[n] = n BY <3>1
    <3>9. "idle" \in Places BY DEF Places
    <3> QED BY <2>1, <2>4, <3>2, <3>3, <3>4, <3>5, <3>6, <3>7, <3>8, <3>9, OneMoves
  <2> QED BY <1>1, <2>3, <2>4 DEF IInv
<1>7. CASE _processes = <<>> /\ prc_buf[w] = <<>> /\ Step(w, "empty", "read") /\ UNCHANGED delivered
  <2>1. at' = [at EXCEPT ![w] = "read"] /\ at'[w] = "read"
    BY <1>7 DEF Step, IInv, Types
  <2>2. Types' BY <1>1, <1>7, <2>1 DEF IInv, Types, Places
  <2>3. ASSUME ~overlap PROVE Undisturbed'
    <3>1. Len(prc_buf[w]) = 0 BY <1>7
    <3>2. Len(delivered') = Taken' BY <1>2, <1>3, <1>4, <1>7, <2>3, <3>1 DEF Holds
    <3>3. Position(w)' BY <2>1, <3>2 DEF Position
    <3> QED BY <1>1, <1>2, <1>3, <1>4, <1>7, <2>1, <2>3, <3>3, OneMoves DEF Places, Undisturbed
  <2> QED BY <1>1, <2>2, <2>3 DEF IInv
<1> QED BY <1>5, <1>6, <1>7 DEF TestEmpty

LEMMA NextTakeFront ==
  ASSUME IInv, NEW w \in Watchers, TakeFront(w)
  PROVE  IInv'
<1>1. /\ at[w] = "front" /\ at' = [at EXCEPT ![w] = "pop"] /\ at'[w] = "pop"
      /\ UNCHANGED <<found, _processes, delivered, overlap, alive, freed>>
  BY DEF TakeFront, Step, queue, IInv, Types
<1>2. /\ prc_buf[w] \in Seq(Nat) /\ delivered \in Seq(Nat) /\ _processes \in Seq(Nat)
      /\ Len(prc_buf[w]) \in Nat /\ Len(delivered) \in Nat /\ Len(_processes) \in Nat
      /\ found \in Nat
  BY DEF IInv, Types
<1>3. CASE _processes = <<>>
  <2>1. undefined' = TRUE /\ UNCHANGED prc_buf BY <1>3 DEF TakeFront
  <2>2. overlap BY <1>1, <1>3 DEF IInv, Undisturbed, Position
  <2>3. Types' BY <1>1, <2>1 DEF IInv, Types, Places
  <2> QED BY <1>1, <2>2, <2>3 DEF IInv
<1>4. CASE _processes # <<>>
  <2>1. prc_buf' = [prc_buf EXCEPT ![w] = Append(prc_buf[w], Head(_processes))] /\ UNCHANGED undefined
    BY <1>4 DEF TakeFront
  <2>2. Head(_processes) \in Nat /\ Head(_processes) = _processes[1] /\ Len(_processes) > 0
    BY <1>2, <1>4
  <2>3. /\ prc_buf'[w] = Append(prc_buf[w], Head(_processes))
        /\ Len(prc_buf'[w]) = Len(prc_buf[w]) + 1
        /\ prc_buf'[w][Len(prc_buf[w]) + 1] = Head(_processes)
        /\ \A k \in 1 .. Len(prc_buf[w]) : prc_buf'[w][k] = prc_buf[w][k]
    BY <1>2, <2>1, <2>2 DEF IInv, Types
  <2>4. Types'
    <3>1. Append(prc_buf[w], Head(_processes)) \in Seq(Nat) BY <1>2, <2>2
    <3>2. prc_buf' \in [Watchers -> Seq(Nat)] BY <2>1, <3>1 DEF IInv, Types
    <3> QED BY <1>1, <2>1, <3>2 DEF IInv, Types, Places
  <2>5. ASSUME ~overlap PROVE Undisturbed'
    <3>1. /\ Undisturbed /\ alive /\ Holds(w, Taken)
          /\ Len(_processes) <= found /\ \A n \in 1 .. Len(_processes) : _processes[n] = Taken + n
          /\ \A n \in 1 .. Len(delivered) : delivered[n] = n
      BY <1>1, <2>5 DEF IInv, Undisturbed, Position
    <3>2. Taken' = Taken /\ Taken \in Int BY <1>1, <1>2 DEF Taken
    <3>3. Head(_processes) = Taken + 1 BY <1>2, <2>2, <3>1
    <3>4. Holds(w, Taken + 1)'
      <4>1. Len(delivered') + Len(prc_buf'[w]) = Taken' + 1
        BY <1>1, <1>2, <2>3, <3>1, <3>2 DEF Holds
      <4>2. ASSUME NEW k \in 1 .. Len(prc_buf'[w]) PROVE prc_buf'[w][k] = Len(delivered') + k
        <5>1. CASE k \in 1 .. Len(prc_buf[w]) BY <1>1, <2>3, <3>1, <5>1 DEF Holds
        <5>2. CASE k = Len(prc_buf[w]) + 1
          <6>1. prc_buf'[w][k] = Taken + 1 BY <2>3, <3>3, <5>2
          <6>2. Len(delivered) + Len(prc_buf[w]) = Taken BY <3>1 DEF Holds
          <6> QED BY <1>1, <1>2, <3>2, <5>2, <6>1, <6>2
        <5> QED BY <1>2, <2>3, <5>1, <5>2
      <4> QED BY <4>1, <4>2 DEF Holds
    <3>5. Position(w)' BY <1>1, <1>4, <3>4 DEF Position
    <3> QED BY <1>1, <1>2, <2>1, <2>5, <3>1, <3>2, <3>5, OneMoves DEF Places, Undisturbed
  <2> QED BY <1>1, <2>4, <2>5 DEF IInv
<1> QED BY <1>3, <1>4

LEMMA NextPop ==
  ASSUME IInv, NEW w \in Watchers, Pop(w)
  PROVE  IInv'
<1>1. /\ at[w] = "pop" /\ at' = [at EXCEPT ![w] = "empty"] /\ at'[w] = "empty"
      /\ UNCHANGED <<found, prc_buf, delivered, overlap, alive, freed>>
  BY DEF Pop, Step, IInv, Types
<1>2. /\ prc_buf[w] \in Seq(Nat) /\ delivered \in Seq(Nat) /\ _processes \in Seq(Nat)
      /\ Len(prc_buf[w]) \in Nat /\ Len(delivered) \in Nat /\ Len(_processes) \in Nat
      /\ found \in Nat
  BY DEF IInv, Types
<1>3. CASE _processes = <<>>
  <2>1. undefined' = TRUE /\ UNCHANGED _processes BY <1>3 DEF Pop
  <2>2. overlap BY <1>1, <1>3 DEF IInv, Undisturbed, Position
  <2>3. Types' BY <1>1, <2>1 DEF IInv, Types, Places
  <2> QED BY <1>1, <2>2, <2>3 DEF IInv
<1>4. CASE _processes # <<>>
  <2>1. _processes' = Tail(_processes) /\ UNCHANGED undefined
    BY <1>4 DEF Pop
  <2>2. /\ _processes' \in Seq(Nat) /\ Len(_processes') = Len(_processes) - 1 /\ Len(_processes) > 0
        /\ \A n \in 1 .. Len(_processes') : _processes'[n] = _processes[n + 1]
    BY <1>2, <1>4, <2>1
  <2>3. Types' BY <1>1, <2>1, <2>2 DEF IInv, Types, Places
  <2>4. ASSUME ~overlap PROVE Undisturbed'
    <3>1. /\ Undisturbed /\ alive /\ Holds(w, Taken + 1)
          /\ Len(_processes) <= found /\ \A n \in 1 .. Len(_processes) : _processes[n] = Taken + n
          /\ \A n \in 1 .. Len(delivered) : delivered[n] = n
      BY <1>1, <2>4 DEF IInv, Undisturbed, Position
    <3>2. Taken' = Taken + 1 /\ Taken \in Int BY <1>1, <1>2, <2>2 DEF Taken
    <3>3. \A n \in 1 .. Len(_processes') : _processes'[n] = Taken' + n
      <4> TAKE n \in 1 .. Len(_processes')
      <4>1. n + 1 \in 1 .. Len(_processes) BY <1>2, <2>2
      <4> QED BY <1>2, <2>2, <3>1, <3>2, <4>1
    <3>4. Holds(w, Taken)' BY <1>1, <3>1, <3>2 DEF Holds
    <3>5. Position(w)' BY <1>1, <3>4 DEF Position
    <3>6. Len(_processes') \in Nat /\ Len(_processes') <= found BY <1>2, <2>2, <3>1
    <3> QED BY <1>1, <2>1, <2>4, <3>1, <3>3, <3>5, <3>6, OneMoves DEF Places, Undisturbed
  <2> QED BY <1>1, <2>3, <2>4 DEF IInv
<1> QED BY <1>3, <1>4

(* read, the comparison of process ids and the walk leave the queue alone. *)
LEMMA NextWaits ==
  ASSUME IInv, NEW w \in Watchers, Read(w) \/ Event(w) \/ Scan(w)
  PROVE  IInv'
<1>1. PICK to \in {"idle", "event", "scan"} : at' = [at EXCEPT ![w] = to]
  BY DEF Read, Event, Scan, Step
<1>2. /\ at[w] \in {"read", "event", "scan"}
      /\ UNCHANGED <<found, _processes, prc_buf, delivered, overlap, alive, freed>>
  BY DEF Read, Event, Scan, Step, queue, ghosts
<1>3. undefined' = undefined \/ (undefined' \in BOOLEAN /\ \E v \in Watchers \ {w} : at[v] # "idle")
  BY DEF Read, Event, Scan, ghosts, IInv, Types
<1>4. Types' BY <1>1, <1>2, <1>3 DEF IInv, Types, Places
<1>5. ASSUME ~overlap PROVE Undisturbed'
  <2>1. /\ Undisturbed /\ alive /\ Len(delivered) = Taken
        /\ Len(_processes) <= found /\ \A n \in 1 .. Len(_processes) : _processes[n] = Taken + n
        /\ \A n \in 1 .. Len(delivered) : delivered[n] = n
    BY <1>2, <1>5 DEF IInv, Undisturbed, Position
  <2>2. ~undefined' BY <1>2, <1>3, <2>1 DEF Undisturbed
  <2>3. Taken' = Taken /\ at'[w] = to BY <1>1, <1>2 DEF Taken, IInv, Types
  <2>4. Position(w)' BY <1>2, <2>1, <2>3 DEF Position
  <2>5. Len(_processes') \in Nat /\ Len(_processes') <= found BY <1>2, <2>1 DEF IInv, Types
  <2> QED BY <1>1, <1>2, <1>5, <2>1, <2>2, <2>3, <2>4, <2>5, OneMoves DEF Places
<1> QED BY <1>2, <1>4, <1>5 DEF IInv

LEMMA NextDestroy ==
  ASSUME IInv, Destroy
  PROVE  IInv'
<1>1. /\ alive /\ alive' = FALSE /\ freed' = Range(_processes) /\ _processes' = <<>>
      /\ \A w \in Watchers : at[w] = "idle"
      /\ UNCHANGED <<found, at, prc_buf, delivered, overlap, undefined>>
  BY DEF Destroy
<1>2. Types'
  <2>1. _processes' \in Seq(Nat) BY <1>1
  <2>2. alive' \in BOOLEAN BY <1>1
  <2> QED BY <1>1, <2>1, <2>2 DEF IInv, Types
<1>3. ASSUME ~overlap PROVE Undisturbed'
  <2>1. /\ Undisturbed /\ Len(delivered) = Taken
        /\ Len(_processes) <= found /\ \A n \in 1 .. Len(_processes) : _processes[n] = Taken + n
    BY <1>1, <1>3 DEF IInv, Undisturbed
  <2>2. Range(_processes) = {_processes[n] : n \in 1 .. Len(_processes)}
    BY DEF Range, IInv, Types
  <2>3. found \in Nat /\ Len(_processes) \in Nat /\ Taken \in Int /\ Taken + Len(_processes) = found
    BY DEF IInv, Types, Taken
  <2>4. {_processes[n] : n \in 1 .. Len(_processes)} = Taken + 1 .. found
    <3>1. ASSUME NEW p \in Taken + 1 .. found
          PROVE  \E n \in 1 .. Len(_processes) : _processes[n] = p
      <4>1. p - Taken \in 1 .. Len(_processes) /\ Taken + (p - Taken) = p BY <2>3
      <4> QED BY <2>1, <4>1
    <3>2. ASSUME NEW n \in 1 .. Len(_processes) PROVE _processes[n] \in Taken + 1 .. found
      BY <2>1, <2>3
    <3> QED BY <3>1, <3>2
  <2>5. freed' = Len(delivered') + 1 .. found' BY <1>1, <2>1, <2>2, <2>4
  <2> QED BY <1>1, <2>1, <2>5 DEF Undisturbed
<1> QED BY <1>1, <1>2, <1>3 DEF IInv

LEMMA NextInvariant == IInv /\ [Next]_vars => IInv'
<1> SUFFICES ASSUME IInv, [Next]_vars PROVE IInv'
  OBVIOUS
<1>1. CASE Destroy BY <1>1, NextDestroy
<1>2. CASE \E w \in Watchers : Call(w) BY <1>2, NextCall
<1>3. CASE \E w \in Watchers : Read(w) BY <1>3, NextWaits
<1>4. ASSUME NEW w \in Watchers, Proceed(w) PROVE IInv'
  BY <1>4, NextTestEmpty, NextTakeFront, NextPop, NextWaits DEF Proceed
<1>5. CASE UNCHANGED vars
  BY <1>5 DEF vars, queue, ghosts, IInv, Types, Undisturbed, Taken, Position, Holds
<1> QED BY <1>1, <1>2, <1>3, <1>4, <1>5 DEF Next

LEMMA InvariantHolds == Spec => []IInv
  BY InitInvariant, NextInvariant, PTL DEF Spec
----------------------------------------------------------------------------
(* Calls of watch that do not overlap hand out every process once and in   *)
(* order and never touch an empty queue, however many threads call it and  *)
(* however many processes there are.                                       *)
THEOREM AlwaysDeliveredInOrder == Spec => []DeliveredInOrder
<1>1. IInv => DeliveredInOrder
  <2>1. Types => DOMAIN delivered = 1 .. Len(delivered) BY DEF Types
  <2> QED BY <2>1 DEF IInv, Undisturbed, DeliveredInOrder
<1> QED BY <1>1, InvariantHolds, PTL
----------------------------------------------------------------------------
\* What a call of watcher w has removed from the queue and not handed out yet; between
\* front and pop the last process it took is still in the queue.
HeldBy(w) ==
  IF at[w] \in {"empty", "front"} THEN Len(prc_buf[w])
  ELSE IF at[w] = "pop" THEN Len(prc_buf[w]) - 1 ELSE 0

Held == UNION {{w} \X (1 .. HeldBy(w)) : w \in Watchers}

\* However calls overlap, every pop adds one to what some call holds, and a process
\* leaves the count nowhere: what makes LossesBalanced inductive.
Balance ==
  /\ IsFiniteSet(Held) /\ IsFiniteSet(freed)
  /\ Len(delivered) + Len(_processes) + Cardinality(freed) + Cardinality(Held) = found
  /\ Len(_processes) <= found
  /\ alive => freed = {}
  /\ alive => \A n \in 1 .. Len(_processes) : _processes[n] = Taken + n
  /\ ~alive => \A w \in Watchers : at[w] = "idle"
  /\ \A w \in Watchers : at[w] = "pop" => prc_buf[w] # <<>>
  /\ \A w \in Watchers : at[w] \in {"read", "event", "scan"} => prc_buf[w] = <<>>

Counted == Types /\ (~undefined => Balance)

LEMMA HeldMember ==
  \A w, k : <<w, k>> \in Held <=> w \in Watchers /\ k \in 1 .. HeldBy(w)
  BY DEF Held

(* A step that leaves what every call holds and the queue alone.            *)
LEMMA HeldBySame ==
  ASSUME \A w \in Watchers : HeldBy(w)' = HeldBy(w)
  PROVE  Held' = Held
  BY DEF Held

LEMMA InitCounted == Init => Counted
<1> SUFFICES ASSUME Init PROVE Counted
  OBVIOUS
<1>1. Types BY InitInvariant DEF IInv
<1>2. Held = {}
  <2>1. \A w \in Watchers : HeldBy(w) = 0 BY DEF Init, HeldBy
  <2>2. \A w \in Watchers : {w} \X (1 .. HeldBy(w)) = {} BY <2>1
  <2> QED BY <2>2 DEF Held
<1>3. /\ found \in Nat /\ Len(delivered) = 0 /\ Len(_processes) = found /\ freed = {} /\ alive
      /\ \A n \in 1 .. Len(_processes) : _processes[n] = n
      /\ \A w \in Watchers : at[w] = "idle"
  BY WatcherAssumption DEF Init
<1>4. IsFiniteSet({}) /\ Cardinality({}) = 0 BY FS_EmptySet
<1>5. Len(delivered) + Len(_processes) + Cardinality(freed) + Cardinality(Held) = found
  BY <1>2, <1>3, <1>4
<1>6. \A n \in 1 .. Len(_processes) : _processes[n] = Taken + n
  BY <1>3 DEF Taken
<1>7. Balance
  <2>1. IsFiniteSet(Held) /\ IsFiniteSet(freed) BY <1>2, <1>3, <1>4
  <2>2. Len(_processes) <= found BY <1>3
  <2>3. \A w \in Watchers : at[w] \notin {"pop", "read", "event", "scan"} BY <1>3
  <2> QED BY <1>3, <1>5, <1>6, <2>1, <2>2, <2>3 DEF Balance
<1> QED BY <1>1, <1>7 DEF Counted

LEMMA CountedCall ==
  ASSUME Counted, Balance, NEW w \in Watchers, Call(w), Types'
  PROVE  Balance'
<1>1. /\ alive /\ at[w] = "idle" /\ at' = [at EXCEPT ![w] = "empty"]
      /\ prc_buf' = [prc_buf EXCEPT ![w] = <<>>]
      /\ UNCHANGED <<found, _processes, delivered, undefined, alive, freed>>
  BY DEF Call, Step, queue
<1>2. at'[w] = "empty" /\ prc_buf'[w] = <<>> /\ \A v \in Watchers \ {w} : at'[v] = at[v] /\ prc_buf'[v] = prc_buf[v]
  BY <1>1 DEF Counted, Types
<1>3. \A v \in Watchers : HeldBy(v)' = HeldBy(v) BY <1>1, <1>2 DEF HeldBy
<1>4. Held' = Held BY <1>3, HeldBySame
<1>5. Taken' = Taken BY <1>1 DEF Taken
<1> QED BY <1>1, <1>2, <1>4, <1>5 DEF Balance

LEMMA CountedTestEmpty ==
  ASSUME Counted, Balance, NEW w \in Watchers, TestEmpty(w), Types'
  PROVE  Balance'
<1>1. /\ at[w] = "empty" /\ alive
      /\ UNCHANGED <<found, _processes, prc_buf, alive, freed>>
  BY DEF TestEmpty, Step, queue, Balance
<1>2. Taken' = Taken BY <1>1 DEF Taken
<1>3. PICK to \in {"front", "idle", "read"} : at' = [at EXCEPT ![w] = to]
  BY DEF TestEmpty, Step
<1>4. at'[w] = to /\ \A v \in Watchers \ {w} : at'[v] = at[v]
  BY <1>3 DEF Counted, Types
<1>5. prc_buf[w] \in Seq(Nat) /\ delivered \in Seq(Nat) /\ _processes \in Seq(Nat) /\ found \in Nat
  BY DEF Counted, Types
<1>6. \A v \in Watchers \ {w} : HeldBy(v)' = HeldBy(v) BY <1>1, <1>4 DEF HeldBy
<1>7. CASE UNCHANGED delivered /\ (to = "front" \/ (to = "read" /\ prc_buf[w] = <<>>))
  <2>1. HeldBy(w)' = HeldBy(w) BY <1>1, <1>4, <1>7 DEF HeldBy
  <2>2. Held' = Held BY <1>6, <2>1, HeldBySame
  <2> QED BY <1>1, <1>2, <1>4, <1>7, <2>2 DEF Balance
<1>8. CASE to = "idle" /\ delivered' = delivered \o prc_buf[w]
  <2> DEFINE T == {w} \X (1 .. Len(prc_buf[w]))
  <2>1. HeldBy(w) = Len(prc_buf[w]) /\ HeldBy(w)' = 0 BY <1>1, <1>4, <1>8 DEF HeldBy
  <2>2. T \subseteq Held BY <2>1 DEF Held
  <2>3. Held' = Held \ T
    <3>1. ASSUME NEW h \in Held' PROVE h \in Held /\ h \notin T
      <4>1. PICK v \in Watchers : h \in {v} \X (1 .. HeldBy(v)') BY DEF Held
      <4>2. v # w BY <2>1, <4>1
      <4> QED BY <1>6, <4>1, <4>2 DEF Held
    <3>2. ASSUME NEW h \in Held, h \notin T PROVE h \in Held'
      <4>1. PICK v \in Watchers : h \in {v} \X (1 .. HeldBy(v)) BY DEF Held
      <4>2. v # w BY <2>1, <3>2, <4>1
      <4>3. h \in {v} \X (1 .. HeldBy(v)') BY <1>6, <4>1, <4>2
      <4> QED BY <4>3 DEF Held
    <3> QED BY <3>1, <3>2
  <2>4. IsFiniteSet(1 .. Len(prc_buf[w])) /\ Cardinality(1 .. Len(prc_buf[w])) = Len(prc_buf[w])
    <3> DEFINE len == Len(prc_buf[w])
    <3>1. len \in Nat BY <1>5
    <3> HIDE DEF len
    <3>2. IsFiniteSet(1 .. len) /\ Cardinality(1 .. len) = IF 1 > len THEN 0 ELSE len - 1 + 1
      BY <3>1, FS_Interval
    <3>3. IsFiniteSet(1 .. len) /\ Cardinality(1 .. len) = len BY <3>1, <3>2
    <3> QED BY <3>3 DEF len
  <2>5. IsFiniteSet({w}) /\ Cardinality({w}) = 1 BY FS_Singleton
  <2>6. IsFiniteSet(T) /\ Cardinality(T) = Len(prc_buf[w])
    <3> DEFINE S == 1 .. Len(prc_buf[w])
    <3>1. IsFiniteSet(S) /\ Cardinality(S) = Len(prc_buf[w]) BY <2>4
    <3> HIDE DEF S
    <3>2. Cardinality({w} \X S) = Cardinality({w}) * Cardinality(S) /\ IsFiniteSet({w} \X S)
      BY <2>5, <3>1, FS_Product
    <3>3. Cardinality({w} \X S) = Len(prc_buf[w])
      BY <1>5, <2>5, <3>1, <3>2
    <3> QED BY <3>2, <3>3 DEF S
  <2>7. Held \cap T = T BY <2>2
  <2>8. IsFiniteSet(Held) /\ Cardinality(Held) \in Nat BY FS_CardinalityType DEF Balance
  <2>9. IsFiniteSet(Held') /\ Cardinality(Held') = Cardinality(Held) - Len(prc_buf[w])
    <3>1. IsFiniteSet(Held \ T) /\ Cardinality(Held \ T) = Cardinality(Held) - Cardinality(Held \cap T)
      BY <2>8, FS_Difference
    <3> QED BY <2>3, <2>6, <2>7, <3>1
  <2>10. Len(delivered') = Len(delivered) + Len(prc_buf[w]) BY <1>5, <1>8
  <2>11. freed = {} /\ Cardinality(freed) = 0 BY <1>1, FS_EmptySet DEF Balance
  <2>12. Len(delivered') + Len(_processes') + Cardinality(freed') + Cardinality(Held') = found'
    <3>1. Len(delivered) + Len(_processes) + 0 + Cardinality(Held) = found BY <2>11 DEF Balance
    <3> QED BY <1>1, <1>5, <2>8, <2>9, <2>10, <2>11, <3>1
  <2> QED BY <1>1, <1>2, <1>4, <1>8, <2>9, <2>12 DEF Balance
<1>9. \/ UNCHANGED delivered /\ (to = "front" \/ (to = "read" /\ prc_buf[w] = <<>>))
      \/ to = "idle" /\ delivered' = delivered \o prc_buf[w]
  <2>1. at[w] \in Places /\ at \in [Watchers -> Places] BY DEF Counted, Types
  <2>2. \A p : at' = [at EXCEPT ![w] = p] => to = p BY <1>4, <2>1
  <2>3. \/ at' = [at EXCEPT ![w] = "front"] /\ UNCHANGED delivered
        \/ at' = [at EXCEPT ![w] = "idle"] /\ delivered' = delivered \o prc_buf[w]
        \/ at' = [at EXCEPT ![w] = "read"] /\ UNCHANGED delivered /\ prc_buf[w] = <<>>
    BY DEF TestEmpty, Step
  <2> QED BY <2>2, <2>3
<1> QED BY <1>7, <1>8, <1>9

LEMMA CountedTakeFront ==
  ASSUME Counted, Balance, NEW w \in Watchers, TakeFront(w), Types', ~undefined'
  PROVE  Balance'
<1>1. /\ at[w] = "front" /\ at' = [at EXCEPT ![w] = "pop"] /\ alive
      /\ prc_buf' = [prc_buf EXCEPT ![w] = Append(prc_buf[w], Head(_processes))]
      /\ UNCHANGED <<found, _processes, delivered, alive, freed>>
  BY DEF TakeFront, Step, queue, Balance
<1>2. _processes # <<>> BY DEF TakeFront
<1>3. Head(_processes) \in Nat /\ prc_buf[w] \in Seq(Nat) BY <1>2 DEF Counted, Types
<1>4. /\ at'[w] = "pop" /\ prc_buf'[w] = Append(prc_buf[w], Head(_processes))
      /\ \A v \in Watchers \ {w} : at'[v] = at[v] /\ prc_buf'[v] = prc_buf[v]
  BY <1>1 DEF Counted, Types
<1>5. Len(prc_buf'[w]) = Len(prc_buf[w]) + 1 /\ prc_buf'[w] # <<>> BY <1>3, <1>4
<1>6. \A v \in Watchers : HeldBy(v)' = HeldBy(v)
  <2>1. HeldBy(w)' = HeldBy(w) BY <1>1, <1>3, <1>4, <1>5 DEF HeldBy
  <2> QED BY <1>4, <2>1 DEF HeldBy
<1>7. Held' = Held BY <1>6, HeldBySame
<1>8. Taken' = Taken BY <1>1 DEF Taken
<1> QED BY <1>1, <1>4, <1>5, <1>7, <1>8 DEF Balance

LEMMA CountedPop ==
  ASSUME Counted, Balance, NEW w \in Watchers, Pop(w), Types', ~undefined'
  PROVE  Balance'
<1>1. /\ at[w] = "pop" /\ at' = [at EXCEPT ![w] = "empty"] /\ alive /\ prc_buf[w] # <<>>
      /\ UNCHANGED <<found, prc_buf, delivered, alive, freed>>
  BY DEF Pop, Step, Balance
<1>2. _processes # <<>> /\ _processes' = Tail(_processes) BY DEF Pop
<1>3. prc_buf[w] \in Seq(Nat) /\ delivered \in Seq(Nat) /\ _processes \in Seq(Nat) /\ found \in Nat
  BY DEF Counted, Types
<1>4. at'[w] = "empty" /\ \A v \in Watchers \ {w} : at'[v] = at[v] BY <1>1 DEF Counted, Types
<1>5. /\ Len(_processes') = Len(_processes) - 1 /\ Len(_processes) \in Nat
      /\ \A n \in 1 .. Len(_processes') : _processes'[n] = _processes[n + 1]
  BY <1>2, <1>3
<1> DEFINE k == Len(prc_buf[w])
<1>6. k \in Nat \ {0} BY <1>1, <1>3
<1>7. HeldBy(w) = k - 1 /\ HeldBy(w)' = k /\ \A v \in Watchers \ {w} : HeldBy(v)' = HeldBy(v)
  BY <1>1, <1>4 DEF HeldBy
<1>8. 1 .. k = (1 .. k - 1) \cup {k} /\ k \notin 1 .. k - 1 BY <1>6
<1>9. Held' = Held \cup {<<w, k>>}
  <2>1. ASSUME NEW h \in Held' PROVE h \in Held \cup {<<w, k>>}
    <3>1. PICK v \in Watchers : h \in {v} \X (1 .. HeldBy(v)') BY DEF Held
    <3>2. CASE v # w
      <4>1. h \in {v} \X (1 .. HeldBy(v)) BY <1>7, <3>1, <3>2
      <4> QED BY <4>1 DEF Held
    <3>3. CASE v = w
      <4>1. h \in ({w} \X (1 .. HeldBy(w))) \cup {<<w, k>>} BY <1>7, <1>8, <3>1, <3>3
      <4> QED BY <4>1 DEF Held
    <3> QED BY <3>2, <3>3
  <2>2. ASSUME NEW h \in Held PROVE h \in Held'
    <3>1. PICK v \in Watchers : h \in {v} \X (1 .. HeldBy(v)) BY DEF Held
    <3>2. h \in {v} \X (1 .. HeldBy(v)') BY <1>7, <1>8, <3>1
    <3> QED BY <3>2 DEF Held
  <2>3. <<w, k>> \in Held'
    <3>1. <<w, k>> \in {w} \X (1 .. HeldBy(w)') BY <1>6, <1>7
    <3> QED BY <3>1 DEF Held
  <2> QED BY <2>1, <2>2, <2>3
<1>10. <<w, k>> \notin Held
  <2>1. k \notin 1 .. HeldBy(w) BY <1>7, <1>8
  <2> QED BY <2>1, HeldMember
<1>11. IsFiniteSet(Held) /\ Cardinality(Held) \in Nat BY FS_CardinalityType DEF Balance
<1>12. IsFiniteSet(Held') /\ Cardinality(Held') = Cardinality(Held) + 1
  BY <1>9, <1>10, <1>11, FS_AddElement
<1>13. freed = {} /\ Cardinality(freed) = 0 BY <1>1, FS_EmptySet DEF Balance
<1>14. Len(delivered') + Len(_processes') + Cardinality(freed') + Cardinality(Held') = found'
  <2>1. Len(delivered) + Len(_processes) + 0 + Cardinality(Held) = found BY <1>13 DEF Balance
  <2> QED BY <1>1, <1>3, <1>5, <1>11, <1>12, <1>13, <2>1
<1>15. Taken' = Taken + 1 /\ Taken \in Int BY <1>1, <1>3, <1>5 DEF Taken
<1>16. ASSUME NEW n \in 1 .. Len(_processes') PROVE _processes'[n] = Taken' + n
  <2>1. n + 1 \in 1 .. Len(_processes) BY <1>5
  <2>2. _processes[n + 1] = Taken + (n + 1) BY <1>1, <2>1 DEF Balance
  <2> QED BY <1>5, <1>15, <2>2
<1>17. Len(_processes') <= found' BY <1>1, <1>3, <1>5 DEF Balance
<1> QED BY <1>1, <1>4, <1>12, <1>14, <1>16, <1>17 DEF Balance

LEMMA CountedWaits ==
  ASSUME Counted, Balance, NEW w \in Watchers, Read(w) \/ Event(w) \/ Scan(w), Types'
  PROVE  Balance'
<1>1. PICK to \in {"idle", "event", "scan"} : at' = [at EXCEPT ![w] = to]
  BY DEF Read, Event, Scan, Step
<1>2. /\ at[w] \in {"read", "event", "scan"} /\ alive
      /\ UNCHANGED <<found, _processes, prc_buf, delivered, alive, freed>>
  BY DEF Read, Event, Scan, Step, queue, ghosts, Balance
<1>3. at'[w] = to /\ \A v \in Watchers \ {w} : at'[v] = at[v] BY <1>1 DEF Counted, Types
<1>4. \A v \in Watchers : HeldBy(v)' = HeldBy(v) BY <1>2, <1>3 DEF HeldBy
<1>5. Held' = Held BY <1>4, HeldBySame
<1>6. Taken' = Taken BY <1>2 DEF Taken
<1> QED BY <1>2, <1>3, <1>5, <1>6 DEF Balance

LEMMA CountedDestroy ==
  ASSUME Counted, Balance, Destroy, Types'
  PROVE  Balance'
<1>1. /\ alive /\ alive' = FALSE /\ freed' = Range(_processes) /\ _processes' = <<>>
      /\ \A w \in Watchers : at[w] = "idle"
      /\ UNCHANGED <<found, at, prc_buf, delivered, undefined>>
  BY DEF Destroy
<1>2. \A w \in Watchers : HeldBy(w)' = HeldBy(w) BY <1>1 DEF HeldBy
<1>3. Held' = Held BY <1>2, HeldBySame
<1>4. found \in Nat /\ Len(_processes) \in Nat /\ Taken \in Int /\ Taken + Len(_processes) = found
      /\ Len(_processes) <= found /\ delivered \in Seq(Nat)
  BY DEF Counted, Balance, Types, Taken
<1>5. freed' = Taken + 1 .. found
  <2>1. freed' = {_processes[n] : n \in 1 .. Len(_processes)}
    BY <1>1 DEF Range, Counted, Types
  <2>2. ASSUME NEW p \in Taken + 1 .. found PROVE p \in freed'
    <3>1. p - Taken \in 1 .. Len(_processes) /\ Taken + (p - Taken) = p BY <1>4
    <3>2. _processes[p - Taken] = p BY <1>1, <3>1 DEF Balance
    <3> QED BY <2>1, <3>1, <3>2
  <2>3. ASSUME NEW n \in 1 .. Len(_processes) PROVE _processes[n] \in Taken + 1 .. found
    <3>1. _processes[n] = Taken + n BY <1>1 DEF Balance
    <3> QED BY <1>4, <3>1
  <2> QED BY <2>1, <2>2, <2>3
<1>6. Cardinality(freed') = Len(_processes)
  <2>1. Cardinality(Taken + 1 .. found) = IF Taken + 1 > found THEN 0 ELSE found - (Taken + 1) + 1
    <3>1. Taken + 1 \in Int /\ found \in Int BY <1>4
    <3> QED BY <3>1, FS_Interval
  <2> QED BY <1>4, <1>5, <2>1
<1>7. Len(_processes') = 0 BY <1>1
<1>8. freed = {} /\ Cardinality(freed) = 0 BY <1>1, FS_EmptySet DEF Balance
<1>9. Cardinality(Held) \in Nat BY FS_CardinalityType DEF Balance
<1>10. Len(delivered') + Len(_processes') + Cardinality(freed') + Cardinality(Held') = found'
  <2>1. Len(delivered) + Len(_processes) + 0 + Cardinality(Held) = found BY <1>8 DEF Balance
  <2>2. Len(delivered) \in Nat BY <1>4
  <2> QED BY <1>1, <1>3, <1>4, <1>6, <1>7, <1>9, <2>1, <2>2
<1>11. IsFiniteSet(freed')
  BY <1>4, <1>5, FS_Interval
<1> QED BY <1>1, <1>3, <1>4, <1>7, <1>10, <1>11 DEF Balance

LEMMA NextCounted == IInv /\ Counted /\ [Next]_vars => Counted'
<1> SUFFICES ASSUME IInv, Counted, [Next]_vars PROVE Counted'
  OBVIOUS
<1>1. Types' BY NextInvariant DEF IInv
<1>2. ASSUME ~undefined', Next PROVE Balance'
  <2>1. Balance BY <1>2 DEF Counted, Next
  <2>2. CASE Destroy BY <1>1, <2>1, <2>2, CountedDestroy
  <2>3. CASE \E w \in Watchers : Call(w) BY <1>1, <2>1, <2>3, CountedCall
  <2>4. CASE \E w \in Watchers : Read(w) BY <1>1, <2>1, <2>4, CountedWaits
  <2>5. ASSUME NEW w \in Watchers, Proceed(w) PROVE Balance'
    BY <1>1, <1>2, <2>1, <2>5, CountedTestEmpty, CountedTakeFront, CountedPop, CountedWaits DEF Proceed
  <2> QED BY <1>2, <2>2, <2>3, <2>4, <2>5 DEF Next
<1>3. ASSUME ~undefined', UNCHANGED vars PROVE Balance'
  <2>1. UNCHANGED <<found, _processes, at, prc_buf, delivered, undefined, alive, freed>>
    BY <1>3 DEF vars, queue, ghosts
  <2>2. Balance BY <1>3, <2>1 DEF Counted
  <2>3. Held' = Held /\ Taken' = Taken BY <2>1 DEF Held, HeldBy, Taken
  <2> QED BY <2>1, <2>2, <2>3 DEF Balance
<1> QED BY <1>1, <1>2, <1>3 DEF Counted

(* However calls of watch overlap, the processes handed out, queued and      *)
(* deleted are as many as those found whenever no call is under way: the     *)
(* one that is lost is made up for by the one that is handed out twice.      *)
THEOREM LossesAlwaysBalanced == Spec => []LossesBalanced
<1>1. Counted => LossesBalanced
  <2> SUFFICES ASSUME Counted, ~undefined, \A w \in Watchers : at[w] = "idle"
               PROVE  Len(delivered) + Len(_processes) + Cardinality(freed) = found
    BY DEF LossesBalanced
  <2>1. Held = {}
    <3>1. \A w \in Watchers : {w} \X (1 .. HeldBy(w)) = {} BY DEF HeldBy
    <3> QED BY <3>1 DEF Held
  <2>2. Cardinality(Held) = 0 BY <2>1, FS_EmptySet
  <2>3. IsFiniteSet(freed) /\ Cardinality(freed) \in Nat
    BY FS_CardinalityType DEF Counted, Balance
  <2> QED BY <2>2, <2>3 DEF Counted, Balance, Types
<1>2. Init /\ [][Next]_vars => []Counted
  BY InitCounted, NextCounted, InvariantHolds, InitInvariant, NextInvariant, PTL
<1> QED BY <1>1, <1>2, PTL DEF Spec

----------------------------------------------------------------------------
(* RemoteAllocator *)

AllocatorTypes ==
  /\ stub.len \in Nat /\ stub.poked \in Nat
  /\ stub = [len |-> stub.len, backup |-> stub.backup, poked |-> stub.poked, ok |-> stub.ok]
  /\ setter = [old |-> setter.old, modify |-> setter.modify]
  /\ lost = [words |-> lost.words, regs |-> lost.regs]
  /\ memory = [w \in Words |-> memory[w]]

\* The steps at which no stub is in the process.
Outside == {"idle", "try", "settle", "map", "mapped", "peek", "poke"}

\* The words that are not the process's own, and those that will not be its own when
\* the destructor is through, are the lost ones.
Plain == \A w \in Words : memory[w] # "own" <=> w \in lost.words
Saved ==
  \A w \in Words :
    IF w < stub.poked
    THEN memory[w] = "code" /\ w \in DOMAIN stub.backup /\ (stub.backup[w] # "own" <=> w \in lost.words)
    ELSE memory[w] # "own" <=> w \in lost.words

Backed ==
  Loops(stub.len) <= Mapped /\ stub.backup = [w \in 0 .. Loops(stub.len) - 1 |-> memory[w]]

Kept ==
  /\ pc \in Outside \cup {"regs", "run", "undo", "restore"}
  /\ pc \in Outside => Plain
  /\ pc = "peek" => stub.poked = 0
  /\ pc = "poke" => Backed
  /\ pc \in {"regs", "run", "undo", "restore"} => Saved
  /\ pc \notin {"run", "undo"} => (regs # "own" <=> lost.regs)
  /\ pc \in {"run", "undo"} => setter.modify /\ regs = "code" /\ (setter.old # "own" <=> lost.regs)

AllocatorIInv == AllocatorTypes /\ Kept
----------------------------------------------------------------------------
\* No more words are overwritten than are saved.
LEMMA PokedSaved == ASSUME NEW len \in Nat PROVE Poked(len) <= Loops(len) /\ Poked(len) \in Nat
  BY DEF Poked, Loops

LEMMA AllocatorInitInvariant == AllocatorInit => AllocatorIInv
<1> SUFFICES ASSUME AllocatorInit PROVE AllocatorIInv
  OBVIOUS
<1>1. AllocatorTypes
  <2>1. /\ stub.len \in Nat /\ stub.poked \in Nat
        /\ stub = [len |-> stub.len, backup |-> stub.backup, poked |-> stub.poked, ok |-> stub.ok]
    BY DEF AllocatorInit
  <2>2. setter = [old |-> setter.old, modify |-> setter.modify]
    BY DEF AllocatorInit
  <2>3. lost = [words |-> lost.words, regs |-> lost.regs]
    BY DEF AllocatorInit
  <2>4. memory = [w \in Words |-> memory[w]]
    BY DEF AllocatorInit
  <2> QED BY <2>1, <2>2, <2>3, <2>4 DEF AllocatorTypes
<1>2. Kept
  BY DEF AllocatorInit, Kept, Outside, Plain
<1> QED BY <1>1, <1>2 DEF AllocatorIInv

(* What is refused changes nothing but the position of the call.           *)
LEMMA RefusedCall == Refused => pc' \in {"idle", "map", "try"}
  BY DEF Refused

(* The steps that change nothing of the process and nothing of what a      *)
(* destructor needs, and stay where no stub is in it.                      *)
LEMMA QuietStep ==
  ASSUME AllocatorIInv, UNCHANGED <<memory, regs, lost>>, AllocatorTypes', pc \in Outside,
         pc' \in Outside, pc' = "peek" => stub'.poked = 0, pc' # "poke"
  PROVE  AllocatorIInv'
  BY DEF AllocatorIInv, Kept, Outside, Plain

LEMMA CreatePeekNext == AllocatorIInv /\ (Create \/ Peek) => AllocatorIInv'
<1> SUFFICES ASSUME AllocatorIInv PROVE (Create => AllocatorIInv') /\ (Peek => AllocatorIInv')
  OBVIOUS
<1> USE AllocatorAssumption
<1>1. ASSUME Create PROVE AllocatorIInv'
  <2>1. pc = "map" /\ UNCHANGED <<memory, regs, lost>> /\ setter' = [old |-> setter.old, modify |-> FALSE]
    BY <1>1 DEF Create, remote, AllocatorIInv, AllocatorTypes
  <2>2. CASE Refused /\ UNCHANGED stub
    <3>1. AllocatorTypes' BY <2>1, <2>2 DEF AllocatorIInv, AllocatorTypes
    <3>2. pc' \in Outside \ {"peek", "poke"} BY <2>2, RefusedCall DEF Outside
    <3> QED BY <2>1, <3>1, <3>2, QuietStep DEF Outside
  <2>3. CASE /\ \E len \in CodeSizes : stub' = [stub EXCEPT !.len = len, !.poked = 0, !.ok = FALSE]
             /\ pc' = "peek"
    <3>1. PICK len \in CodeSizes : stub' = [len |-> len, backup |-> stub.backup, poked |-> 0, ok |-> FALSE]
      BY <2>3 DEF AllocatorIInv, AllocatorTypes
    <3>2. AllocatorTypes' BY <2>1, <3>1 DEF AllocatorIInv, AllocatorTypes
    <3> QED BY <2>1, <2>3, <3>1, <3>2, QuietStep DEF Outside
  <2> QED BY <1>1, <2>2, <2>3 DEF Create
<1>2. ASSUME Peek PROVE AllocatorIInv'
  <2>1. pc = "peek" /\ UNCHANGED <<setter, memory, regs, lost>>
    BY <1>2 DEF Peek, remote
  <2>2. CASE /\ Loops(stub.len) <= Mapped
             /\ stub' = [stub EXCEPT !.backup = [w \in 0 .. Loops(stub.len) - 1 |-> memory[w]]]
             /\ pc' = "poke"
    <3>1. stub' = [len |-> stub.len, backup |-> [w \in 0 .. Loops(stub.len) - 1 |-> memory[w]],
                   poked |-> stub.poked, ok |-> stub.ok]
      BY <2>2 DEF AllocatorIInv, AllocatorTypes
    <3>2. AllocatorTypes' BY <2>1, <3>1 DEF AllocatorIInv, AllocatorTypes
    <3>3. Backed' BY <2>1, <2>2, <3>1 DEF Backed
    <3>4. Kept' BY <2>1, <2>2, <3>3 DEF AllocatorIInv, Kept, Outside, Plain
    <3> QED BY <3>2, <3>4 DEF AllocatorIInv
  <2>3. CASE pc' = "restore" /\ UNCHANGED stub
    <3>1. AllocatorTypes' BY <2>1, <2>3 DEF AllocatorIInv, AllocatorTypes
    <3>2. stub.poked = 0 /\ Plain BY <2>1 DEF AllocatorIInv, Kept, Outside
    <3>3. Saved' BY <2>1, <2>3, <3>2 DEF Saved, Plain, Words
    <3>4. Kept' BY <2>1, <2>3, <3>3 DEF AllocatorIInv, Kept, Outside
    <3> QED BY <3>1, <3>4 DEF AllocatorIInv
  <2> QED BY <1>2, <2>2, <2>3 DEF Peek
<1> QED BY <1>1, <1>2

(* What is overwritten is in the backup.                                   *)
LEMMA PokeNext == AllocatorIInv /\ Poke => AllocatorIInv'
<1> SUFFICES ASSUME AllocatorIInv, Poke PROVE AllocatorIInv'
  OBVIOUS
<1> USE AllocatorAssumption
<1>1. pc = "poke" /\ pc' \in {"regs", "restore"} /\ UNCHANGED <<setter, regs, lost>>
  BY DEF Poke
<1>2. PICK n \in 0 .. Poked(stub.len) :
        /\ memory' = [w \in Words |-> IF w < n THEN "code" ELSE memory[w]]
        /\ stub' = [stub EXCEPT !.poked = n]
  BY DEF Poke
<1>3. n \in Nat /\ n <= Loops(stub.len)
  BY PokedSaved DEF AllocatorIInv, AllocatorTypes, Loops
<1>4. stub' = [len |-> stub.len, backup |-> stub.backup, poked |-> n, ok |-> stub.ok]
  BY <1>2 DEF AllocatorIInv, AllocatorTypes
<1>5. AllocatorTypes'
  <2>1. memory' = [w \in Words |-> memory'[w]]
    BY <1>2
  <2>2. stub'.len \in Nat /\ stub'.poked \in Nat
           /\ stub' = [len |-> stub'.len, backup |-> stub'.backup, poked |-> stub'.poked, ok |-> stub'.ok]
    BY <1>3, <1>4 DEF AllocatorIInv, AllocatorTypes
  <2> QED BY <1>1, <2>1, <2>2 DEF AllocatorIInv, AllocatorTypes
<1>6. Saved'
  <2>1. Plain /\ Backed BY <1>1 DEF AllocatorIInv, Kept, Outside
  <2>2. ASSUME NEW w \in Words, w < n
        PROVE /\ memory'[w] = "code" /\ w \in DOMAIN stub.backup
              /\ stub.backup[w] # "own" <=> w \in lost.words
    <3>1. w \in 0 .. Loops(stub.len) - 1
      BY <1>3, <2>2 DEF Words, Loops, AllocatorIInv, AllocatorTypes
    <3>2. w \in DOMAIN stub.backup /\ stub.backup[w] = memory[w] BY <2>1, <3>1 DEF Backed
    <3>3. memory'[w] = "code" BY <1>2, <2>2
    <3> QED BY <2>1, <3>2, <3>3 DEF Plain
  <2>3. ASSUME NEW w \in Words, ~(w < n) PROVE memory'[w] # "own" <=> w \in lost.words
    BY <1>2, <2>1, <2>3 DEF Plain
  <2> QED BY <1>1, <1>4, <2>2, <2>3 DEF Saved
<1>7. Kept' BY <1>1, <1>6 DEF AllocatorIInv, Kept, Outside
<1> QED BY <1>5, <1>7 DEF AllocatorIInv

LEMMA SetRunUndoNext == AllocatorIInv /\ (SetRegs \/ Run \/ Undo) => AllocatorIInv'
<1> SUFFICES ASSUME AllocatorIInv
             PROVE  (SetRegs => AllocatorIInv') /\ (Run => AllocatorIInv') /\ (Undo => AllocatorIInv')
  OBVIOUS
<1>1. ASSUME SetRegs PROVE AllocatorIInv'
  <2>1. pc = "regs" /\ UNCHANGED <<stub, memory, lost>>
    BY <1>1 DEF SetRegs
  <2>2. Saved => Saved' BY <2>1 DEF Saved
  <2>3. CASE setter' = [old |-> regs, modify |-> TRUE] /\ regs' = "code" /\ pc' = "run"
    <3>1. AllocatorTypes' BY <2>1, <2>3 DEF AllocatorIInv, AllocatorTypes
    <3>2. Kept' BY <2>1, <2>2, <2>3 DEF AllocatorIInv, Kept, Outside
    <3> QED BY <3>1, <3>2 DEF AllocatorIInv
  <2>4. CASE pc' = "restore" /\ UNCHANGED <<setter, regs>>
    <3>1. AllocatorTypes' BY <2>1, <2>4 DEF AllocatorIInv, AllocatorTypes
    <3>2. Kept' BY <2>1, <2>2, <2>4 DEF AllocatorIInv, Kept, Outside
    <3> QED BY <3>1, <3>2 DEF AllocatorIInv
  <2> QED BY <1>1, <2>3, <2>4 DEF SetRegs
<1>2. ASSUME Run PROVE AllocatorIInv'
  <2>1. pc = "run" /\ pc' = "undo" /\ UNCHANGED <<setter, memory, regs, lost>>
    BY <1>2 DEF Run
  <2>2. /\ stub' = [len |-> stub.len, backup |-> stub.backup, poked |-> stub.poked, ok |-> stub'.ok]
        /\ stub'.poked = stub.poked /\ stub'.backup = stub.backup /\ stub'.len = stub.len
    BY <1>2 DEF Run, AllocatorIInv, AllocatorTypes
  <2>3. AllocatorTypes' BY <2>1, <2>2 DEF AllocatorIInv, AllocatorTypes
  <2>4. Saved => Saved' BY <2>1, <2>2 DEF Saved
  <2>5. Kept' BY <2>1, <2>4 DEF AllocatorIInv, Kept, Outside
  <2> QED BY <2>3, <2>5 DEF AllocatorIInv
<1>3. ASSUME Undo PROVE AllocatorIInv'
  <2>1. pc = "undo" /\ pc' = "restore" /\ UNCHANGED <<stub, setter, memory>>
    BY <1>3 DEF Undo
  <2>2. /\ Saved /\ setter.modify /\ regs = "code" /\ (setter.old # "own" <=> lost.regs)
        /\ lost = [words |-> lost.words, regs |-> lost.regs]
    BY <2>1 DEF AllocatorIInv, AllocatorTypes, Kept
  <2>3. CASE regs' = setter.old /\ UNCHANGED lost
    <3>1. AllocatorTypes' BY <2>1, <2>3 DEF AllocatorIInv, AllocatorTypes
    <3>2. Saved' BY <2>1, <2>2, <2>3 DEF Saved
    <3>3. Kept' BY <2>1, <2>2, <2>3, <3>2 DEF Kept, Outside
    <3> QED BY <3>1, <3>3 DEF AllocatorIInv
  <2>4. CASE UNCHANGED regs /\ lost' = [lost EXCEPT !.regs = @ \/ setter.modify]
    <3>1. lost' = [words |-> lost.words, regs |-> TRUE]
      BY <2>2, <2>4
    <3>2. lost'.words = lost.words /\ lost'.regs = TRUE /\ lost' = [words |-> lost'.words, regs |-> lost'.regs]
      BY <3>1
    <3>3. AllocatorTypes' BY <2>1, <3>2 DEF AllocatorIInv, AllocatorTypes
    <3>4. Saved' BY <2>1, <2>2, <3>2 DEF Saved
    <3>5. regs' # "own" BY <2>2, <2>4
    <3>6. Kept' BY <2>1, <3>2, <3>4, <3>5 DEF Kept, Outside
    <3> QED BY <3>3, <3>6 DEF AllocatorIInv
  <2> QED BY <1>3, <2>3, <2>4 DEF Undo
<1> QED BY <1>1, <1>2, <1>3

(* A word that is put back has what it had; the others have code, and are  *)
(* lost from now on.                                                       *)
LEMMA RestoreNext == AllocatorIInv /\ Restore => AllocatorIInv'
<1> SUFFICES ASSUME AllocatorIInv, Restore PROVE AllocatorIInv'
  OBVIOUS
<1>1. pc = "restore" /\ pc' \in {"mapped", "idle", "map", "try"} /\ UNCHANGED <<stub, setter, regs>>
  BY RefusedCall DEF Restore
<1>2. PICK n \in 0 .. stub.poked :
        /\ memory' = [w \in Words |-> IF w >= n THEN memory[w]
                                      ELSE IF w \in DOMAIN stub.backup THEN stub.backup[w]
                                      ELSE "unknown"]
        /\ lost' = [lost EXCEPT !.words = @ \cup n .. stub.poked - 1]
  BY DEF Restore
<1>3. /\ lost' = [words |-> lost.words \cup n .. stub.poked - 1, regs |-> lost.regs]
      /\ stub.poked \in Nat /\ n \in Nat /\ n <= stub.poked
  <2>1. lost = [words |-> lost.words, regs |-> lost.regs] /\ stub.poked \in Nat
    BY DEF AllocatorIInv, AllocatorTypes
  <2>2. lost' = [words |-> lost.words \cup n .. stub.poked - 1, regs |-> lost.regs]
    BY <1>2, <2>1, Zenon
  <2>3. n \in Nat /\ n <= stub.poked
    BY <2>1
  <2> QED BY <2>1, <2>2, <2>3
<1>4. /\ lost'.words = lost.words \cup n .. stub.poked - 1 /\ lost'.regs = lost.regs
      /\ lost' = [words |-> lost'.words, regs |-> lost'.regs]
  BY <1>3
<1>5. memory' = [w \in Words |-> memory'[w]]
  BY <1>2
<1>6. AllocatorTypes' BY <1>1, <1>4, <1>5 DEF AllocatorIInv, AllocatorTypes
<1>7. Plain'
  <2> SUFFICES ASSUME NEW w \in Words PROVE memory'[w] # "own" <=> w \in lost'.words
    BY DEF Plain
  <2>1. w \in Nat BY AllocatorAssumption DEF Words
  <2>2. Saved BY <1>1 DEF AllocatorIInv, Kept
  <2>3. CASE w < n
    <3>1. w < stub.poked /\ ~(w >= n) /\ w \notin n .. stub.poked - 1 BY <1>3, <2>1, <2>3
    <3>2. w \in DOMAIN stub.backup /\ (stub.backup[w] # "own" <=> w \in lost.words)
      BY <2>2, <3>1 DEF Saved
    <3>3. memory'[w] = stub.backup[w] BY <1>2, <3>1, <3>2
    <3> QED BY <1>4, <3>1, <3>2, <3>3
  <2>4. CASE w >= n /\ w < stub.poked
    <3>1. memory[w] = "code" BY <2>2, <2>4 DEF Saved
    <3>2. memory'[w] = "code" BY <1>2, <2>4, <3>1
    <3>3. w \in n .. stub.poked - 1 BY <1>3, <2>1, <2>4
    <3> QED BY <1>4, <3>2, <3>3
  <2>5. CASE w >= stub.poked
    <3>1. w >= n /\ ~(w < stub.poked) /\ w \notin n .. stub.poked - 1 BY <1>3, <2>1, <2>5
    <3>2. memory[w] # "own" <=> w \in lost.words BY <2>2, <3>1 DEF Saved
    <3>3. memory'[w] = memory[w] BY <1>2, <3>1
    <3> QED BY <1>4, <3>1, <3>2, <3>3
  <2> QED BY <1>3, <2>1, <2>3, <2>4, <2>5
<1>8. Kept'
  <2>1. regs' # "own" <=> lost'.regs BY <1>1, <1>4 DEF AllocatorIInv, Kept
  <2> QED BY <1>1, <1>7, <2>1 DEF Kept, Outside
<1> QED BY <1>6, <1>8 DEF AllocatorIInv

LEMMA AllocatorNextInvariant == AllocatorIInv /\ [AllocatorNext]_allocatorVars => AllocatorIInv'
<1> SUFFICES ASSUME AllocatorIInv, [AllocatorNext]_allocatorVars PROVE AllocatorIInv'
  OBVIOUS
<1>1. CASE init \/ \E size \in Sizes, pool \in {"LOW", "HIGH"} : allocate(size, pool)
  <2>1. pc = "idle" /\ pc' \in {"map", "try"} /\ UNCHANGED <<stub, setter, memory, regs, lost>>
    BY <1>1 DEF init, allocate, remote
  <2>2. AllocatorTypes' BY <2>1 DEF AllocatorIInv, AllocatorTypes
  <2> QED BY <2>1, <2>2, QuietStep DEF Outside
<1>2. CASE TryPool \/ Settle
  <2>1. /\ pc \in {"try", "settle"} /\ pc' \in {"map", "settle", "idle", "try"}
        /\ UNCHANGED <<stub, setter, memory, regs, lost>>
    BY <1>2, RefusedCall DEF TryPool, Settle, remote
  <2>2. AllocatorTypes' BY <2>1 DEF AllocatorIInv, AllocatorTypes
  <2> QED BY <2>1, <2>2, QuietStep DEF Outside
<1>3. CASE Mmapped
  <2>1. pc = "mapped" /\ UNCHANGED <<memory, regs, lost>>
    BY <1>3 DEF Mmapped, remote
  <2>2. CASE UNCHANGED <<stub, setter>> /\ (Grown \/ Refused)
    <3>1. AllocatorTypes' BY <2>1, <2>2 DEF AllocatorIInv, AllocatorTypes
    <3>2. pc' \in {"idle", "map", "try", "settle"} BY <2>2, RefusedCall DEF Grown
    <3> QED BY <2>1, <3>1, <3>2, QuietStep DEF Outside
  <2>3. CASE /\ stub' = [stub EXCEPT !.poked = 0, !.ok = FALSE]
             /\ setter' = [setter EXCEPT !.modify = FALSE] /\ pc' = "peek"
    <3>1. /\ stub' = [len |-> stub.len, backup |-> stub.backup, poked |-> 0, ok |-> FALSE]
          /\ setter' = [old |-> setter.old, modify |-> FALSE]
      BY <2>3 DEF AllocatorIInv, AllocatorTypes
    <3>2. AllocatorTypes' BY <2>1, <3>1 DEF AllocatorIInv, AllocatorTypes
    <3> QED BY <2>1, <2>3, <3>1, <3>2, QuietStep DEF Outside
  <2> QED BY <1>3, <2>2, <2>3 DEF Mmapped
<1>4. CASE Die \/ Trap \/ UNCHANGED allocatorVars
  <2>1. UNCHANGED <<pc, stub, setter, memory, regs, lost>>
    BY <1>4 DEF Die, Trap, allocatorVars
  <2> QED BY <2>1 DEF AllocatorIInv, AllocatorTypes, Kept, Plain, Saved, Backed
<1>5. CASE Create \/ Peek BY <1>5, CreatePeekNext
<1>6. CASE Poke BY <1>6, PokeNext
<1>7. CASE SetRegs \/ Run \/ Undo BY <1>7, SetRunUndoNext
<1>8. CASE Restore BY <1>8, RestoreNext
<1> QED BY <1>1, <1>2, <1>3, <1>4, <1>5, <1>6, <1>7, <1>8 DEF AllocatorNext

LEMMA AllocatorInvariantHolds == AllocatorSpec => []AllocatorIInv
  BY AllocatorInitInvariant, AllocatorNextInvariant, PTL DEF AllocatorSpec
----------------------------------------------------------------------------
(* Whatever request to ptrace fails, the ones of the destructors included, *)
(* and whatever becomes of the process: between two calls it has nothing   *)
(* of a stub but what a destructor gave up on.  code_copy saves every word *)
(* it overwrites, the word of zeros behind the code included, for stubs    *)
(* and segments of any size.                                               *)
THEOREM AlwaysLeftAsFound == AllocatorSpec => []LeftAsFound
<1>1. AllocatorIInv => LeftAsFound
  BY DEF AllocatorIInv, Kept, LeftAsFound, Outside, Plain
<1> QED BY <1>1, AllocatorInvariantHolds, PTL

(* What is lost stays lost.                                                *)
LEMMA LostGrows ==
  ASSUME AllocatorIInv, [AllocatorNext]_allocatorVars
  PROVE  lost.words \subseteq lost'.words /\ (lost.regs => lost'.regs)
<1>1. CASE Undo
  <2>1. CASE UNCHANGED lost BY <2>1
  <2>2. CASE lost' = [lost EXCEPT !.regs = @ \/ setter.modify]
    <3>1. lost = [words |-> lost.words, regs |-> lost.regs] /\ setter.modify
      BY <1>1 DEF Undo, AllocatorIInv, AllocatorTypes, Kept
    <3>2. lost' = [words |-> lost.words, regs |-> TRUE]
      BY <2>2, <3>1
    <3> QED BY <3>2
  <2> QED BY <1>1, <2>1, <2>2 DEF Undo
<1>2. CASE Restore
  <2>1. PICK n \in 0 .. stub.poked : lost' = [words |-> lost.words \cup n .. stub.poked - 1, regs |-> lost.regs]
    BY <1>2 DEF Restore, AllocatorIInv, AllocatorTypes
  <2> QED BY <2>1
<1>3. CASE UNCHANGED lost BY <1>3
<1>4. Undo \/ Restore \/ UNCHANGED lost
  BY DEF AllocatorNext, allocatorVars, init, allocate, TryPool, Settle, Create, Peek, Poke, SetRegs,
         Run, Mmapped, Die, Trap, remote
<1> QED BY <1>1, <1>2, <1>3, <1>4

(* A word of a stub that is left in the process is never put back by a     *)
(* later call, and registers that are left are not either: what one call   *)
(* gave up on is what the next one saves and restores.                     *)
THEOREM DamageAlwaysStays == AllocatorSpec => DamageStays
<1>1. ASSUME NEW w \in Words
      PROVE AllocatorSpec => [](pc = "idle" /\ memory[w] # "own" => [](pc = "idle" => memory[w] # "own"))
  <2> DEFINE Lost == w \in lost.words
             Left == pc = "idle" /\ memory[w] # "own"
             Stays == pc = "idle" => memory[w] # "own"
  <2>1. AllocatorIInv => (Left => Lost) /\ (Lost => Stays)
    BY DEF AllocatorIInv, Kept, Outside, Plain
  <2>2. AllocatorIInv /\ [AllocatorNext]_allocatorVars => (Lost => Lost')
    BY LostGrows
  <2> HIDE DEF Lost, Left, Stays
  <2>3. AllocatorSpec => [](Left => []Stays)
    BY <2>1, <2>2, AllocatorInvariantHolds, PTL DEF AllocatorSpec
  <2> QED BY <2>3 DEF Left, Stays
<1>2. AllocatorSpec => [](pc = "idle" /\ regs # "own" => [](pc = "idle" => regs # "own"))
  <2> DEFINE Lost == lost.regs
             Left == pc = "idle" /\ regs # "own"
             Stays == pc = "idle" => regs # "own"
  <2>1. AllocatorIInv => (Left => Lost) /\ (Lost => Stays)
    BY DEF AllocatorIInv, Kept, Outside
  <2>2. AllocatorIInv /\ [AllocatorNext]_allocatorVars => (Lost => Lost')
    BY LostGrows
  <2> HIDE DEF Lost, Left, Stays
  <2>3. AllocatorSpec => [](Left => []Stays)
    BY <2>1, <2>2, AllocatorInvariantHolds, PTL DEF AllocatorSpec
  <2> QED BY <2>3 DEF Left, Stays
<1> QED BY <1>1, <1>2 DEF DamageStays
----------------------------------------------------------------------------
(* StatCollector *)

Puts == INSTANCE SeqFolds WITH Op <- Put
Strings == INSTANCE SeqFolds WITH Op <- PutStrings
Adds == INSTANCE SeqFolds WITH Op <- Plus

LEMMA PutsFold == \A t, s : FoldLeft(Put, t, s) = Puts!Folded(t, s)
  BY DEF FoldLeft, MapThenFoldSet, Max, Puts!Folded
LEMMA StringsFold == \A t, s : FoldLeft(PutStrings, t, s) = Strings!Folded(t, s)
  BY DEF FoldLeft, MapThenFoldSet, Max, Strings!Folded
LEMMA AddsFold == \A b, s : FoldLeft(Plus, b, s) = Adds!Folded(b, s)
  BY DEF FoldLeft, MapThenFoldSet, Max, Adds!Folded

Cell == [value : Nat, stamp : Nat]
Samples(n) == [values : [1 .. n -> Nat], gap : {0, 1}]
Tables(n) == [instances : Seq([1 .. n -> Cell]), clock : Nat, taken : Seq([1 .. n -> Nat])]

\* How the two buffers go with the last samples: from the second sample on the
\* newer one is in the second buffer, from the third on the one before it is in
\* the first, and was stamped earlier.
Buffered(t, n) ==
  /\ Len(t.instances) = IF Len(t.taken) = 0 THEN 1 ELSE 2
  /\ Len(t.taken) <= 3
  /\ \A k \in 1 .. Len(t.instances), i \in 1 .. n : t.instances[k][i].stamp < t.clock
  /\ Len(t.taken) >= 2 =>
       \A i \in 1 .. n : t.instances[2][i].value = t.taken[Len(t.taken)][i]
  /\ Len(t.taken) = 3 =>
       \A i \in 1 .. n : /\ t.instances[1][i].value = t.taken[2][i]
                         /\ t.instances[1][i].stamp < t.instances[2][i].stamp
Buffers(n) == {t \in Tables(n) : Buffered(t, n)}

LEMMA LastThree ==
  ASSUME NEW S, NEW s \in Seq(S), Len(s) <= 3, NEW x \in S,
         NEW a, Len(s) = 3 => a = Append(Tail(s), x), Len(s) # 3 => a = Append(s, x)
  PROVE  /\ a \in Seq(S) /\ Len(a) = (IF Len(s) = 3 THEN 3 ELSE Len(s) + 1) /\ Len(s) \in Nat
         /\ a[Len(a)] = x
         /\ Len(a) = 3 => a[2] = s[Len(s)]
<1>0. Len(s) \in Nat
  BY LenProperties
<1>1. CASE Len(s) = 3
  <2>1. /\ Tail(s) \in Seq(S) /\ Len(Tail(s)) = 2 /\ Tail(s)[2] = s[3]
    <3>1. s # <<>>
      BY <1>1, EmptySeq
    <3>2. /\ Tail(s) \in Seq(S) /\ Len(Tail(s)) = Len(s) - 1
          /\ \A i \in 1 .. Len(Tail(s)) : Tail(s)[i] = s[i + 1]
      BY <3>1, HeadTailProperties
    <3> DEFINE len == Len(Tail(s))
    <3>3. len = 3 - 1
      BY <1>1, <3>2
    <3> HIDE DEF len
    <3>4. len = 2 /\ 2 \in 1 .. len /\ 2 + 1 = 3
      BY <3>3
    <3>5. Tail(s)[2] = s[2 + 1]
      BY <3>2, <3>4 DEF len
    <3> QED BY <3>2, <3>4, <3>5 DEF len
  <2> DEFINE u == Tail(s)
  <2>2. u \in Seq(S) /\ Len(u) = 2 /\ u[2] = s[3] /\ a = Append(u, x)
    BY <1>1, <2>1
  <2> HIDE DEF u
  <2>3. a \in Seq(S) /\ Len(a) = Len(u) + 1 /\ a[Len(u) + 1] = x
        /\ \A i \in 1 .. Len(u) : a[i] = u[i]
    BY <2>2, AppendProperties
  <2>4. Len(a) = 3 /\ a[3] = x /\ a[2] = u[2]
    BY <2>2, <2>3
  <2> QED BY <1>1, <2>2, <2>3, <2>4
<1>2. CASE Len(s) # 3
  <2>1. a = Append(s, x)
    BY <1>2
  <2>2. a \in Seq(S) /\ Len(a) = Len(s) + 1 /\ a[Len(s) + 1] = x
        /\ \A i \in 1 .. Len(s) : a[i] = s[i]
    BY <2>1, AppendProperties
  <2>3. ASSUME Len(a) = 3 PROVE a[2] = s[Len(s)]
    <3> DEFINE len == Len(s)
    <3>1. len \in Nat /\ len + 1 = 3
      BY <1>0, <2>2, <2>3
    <3> HIDE DEF len
    <3>2. len = 2 /\ 2 \in 1 .. len
      BY <3>1
    <3> QED BY <2>2, <3>2 DEF len
  <2> QED BY <1>0, <1>2, <2>2, <2>3
<1> QED BY <1>1, <1>2

LEMMA PairIs ==
  ASSUME NEW S, NEW a \in S, NEW b \in S
  PROVE  <<a, b>> \in Seq(S) /\ Len(<<a, b>>) = 2 /\ <<a, b>>[1] = a /\ <<a, b>>[2] = b
  OBVIOUS

\* The buffers behind an exchange, and a sample put into one of them.
LEMMA PutInstances ==
  ASSUME NEW C, NEW f \in Seq(C), NEW new \in C, NEW clone \in C
  PROVE  /\ Len(f) = 1 => [<<f[1], clone>> EXCEPT ![Len(f)] = new] = <<new, clone>>
         /\ Len(f) = 2 => [<<f[2], f[1]>> EXCEPT ![Len(f)] = new] = <<f[2], new>>
<1>1. \A a, b : [<<a, b>> EXCEPT ![1] = new] = <<new, b>>
  OBVIOUS
<1>2. \A a, b : [<<a, b>> EXCEPT ![2] = new] = <<a, new>>
  OBVIOUS
<1> QED BY <1>1, <1>2

LEMMA PutBuffers ==
  ASSUME NEW n \in Nat, NEW t \in Buffers(n), NEW s \in Samples(n)
  PROVE  Put(t, s) \in Buffers(n)
<1> DEFINE C == [1 .. n -> Cell]
           V == [1 .. n -> Nat]
           now == t.clock
           later == now + s.gap + 1
           new == [i \in 1 .. n |-> [value |-> s.values[i], stamp |-> now + s.gap]]
           taken == Append(IF Len(t.taken) = 3 THEN Tail(t.taken) ELSE t.taken, s.values)
           instances == [Exchanged(t) EXCEPT ![Len(t.instances)] = new]
<1>1. /\ t.instances \in Seq(C) /\ now \in Nat /\ t.taken \in Seq(V)
      /\ s.values \in V /\ s.gap \in {0, 1} /\ Buffered(t, n) /\ Len(t.taken) <= 3
  BY DEF Buffers, Tables, Samples, Buffered
<1>2. /\ new \in C /\ later \in Nat /\ now < later /\ now + s.gap \in Nat
      /\ now <= now + s.gap /\ now + s.gap < later
      /\ \A i \in 1 .. n : new[i].value = s.values[i] /\ new[i].stamp = now + s.gap
  BY <1>1 DEF Cell
<1>3. Put(t, s) = [instances |-> instances, clock |-> later, taken |-> taken]
  BY <1>1 DEF Put, Samples
<1>4. \A c \in C, i \in 1 .. n : c[i].stamp \in Nat
  BY DEF Cell
<1> HIDE DEF V
<1>5. /\ taken \in Seq(V) /\ Len(t.taken) \in Nat
      /\ Len(taken) = (IF Len(t.taken) = 3 THEN 3 ELSE Len(t.taken) + 1)
      /\ taken[Len(taken)] = s.values /\ (Len(taken) = 3 => taken[2] = t.taken[Len(t.taken)])
  <2> DEFINE values == s.values  old == t.taken
  <2>1. /\ old \in Seq(V) /\ Len(old) <= 3 /\ values \in V
        /\ (Len(old) = 3 => taken = Append(Tail(old), values))
        /\ (Len(old) # 3 => taken = Append(old, values))
    BY <1>1
  <2> HIDE DEF values, old, taken
  <2>2. /\ taken \in Seq(V) /\ Len(old) \in Nat
        /\ Len(taken) = (IF Len(old) = 3 THEN 3 ELSE Len(old) + 1)
        /\ taken[Len(taken)] = values /\ (Len(taken) = 3 => taken[2] = old[Len(old)])
    BY <2>1, LastThree
  <2> QED BY <2>2 DEF values, old
<1> HIDE DEF taken
<1>6. ASSUME NEW first \in C, NEW second \in C, instances = <<first, second>>,
             \A i \in 1 .. n : first[i].stamp < later /\ second[i].stamp < later,
             Len(taken) >= 2 => \A i \in 1 .. n : second[i].value = s.values[i],
             Len(taken) = 3 => \A i \in 1 .. n : /\ first[i].value = t.taken[Len(t.taken)][i]
                                                /\ first[i].stamp < second[i].stamp
      PROVE  Put(t, s) \in Buffers(n)
  <2> HIDE DEF C, instances, later
  <2>1. /\ instances \in Seq(C) /\ Len(instances) = 2
        /\ instances[1] = first /\ instances[2] = second
    BY <1>6, PairIs
  <2>2. Put(t, s) \in Tables(n)
    BY <1>2, <1>3, <1>5, <2>1 DEF Tables, C, V
  <2>3. Buffered(Put(t, s), n)
    <3> DEFINE p == Put(t, s)
    <3>1. p.instances = instances /\ p.clock = later /\ p.taken = taken
      BY <1>3
    <3> HIDE DEF p
    <3>2. Len(taken) # 0 /\ Len(taken) <= 3
      <4> DEFINE len == Len(t.taken)  more == Len(taken)
      <4>1. len \in Nat /\ len <= 3 /\ more = IF len = 3 THEN 3 ELSE len + 1
        BY <1>1, <1>5
      <4> HIDE DEF len, more
      <4>2. more # 0 /\ more <= 3
        BY <4>1
      <4> QED BY <4>2 DEF more
    <3>3. \A k \in 1 .. 2, i \in 1 .. n : instances[k][i].stamp < later
      BY <1>6, <2>1
    <3>4. /\ Len(p.instances) = (IF Len(p.taken) = 0 THEN 1 ELSE 2)
          /\ Len(p.taken) <= 3
      BY <2>1, <3>1, <3>2
    <3>5. \A k \in 1 .. Len(p.instances), i \in 1 .. n : p.instances[k][i].stamp < p.clock
      BY <2>1, <3>1, <3>3
    <3>6. Len(p.taken) >= 2 =>
            \A i \in 1 .. n : p.instances[2][i].value = p.taken[Len(p.taken)][i]
      BY <1>5, <1>6, <2>1, <3>1
    <3>7. Len(p.taken) = 3 =>
            \A i \in 1 .. n : /\ p.instances[1][i].value = p.taken[2][i]
                              /\ p.instances[1][i].stamp < p.instances[2][i].stamp
      <4>1. CASE Len(taken) = 3
        <5>1. taken[2] = t.taken[Len(t.taken)]
          BY <1>5, <4>1
        <5>2. \A i \in 1 .. n : first[i].value = taken[2][i] /\ first[i].stamp < second[i].stamp
          BY <1>6, <4>1, <5>1
        <5> QED BY <2>1, <3>1, <5>2
      <4> QED BY <3>1, <4>1
    <3> QED BY <3>4, <3>5, <3>6, <3>7 DEF Buffered, p
  <2> QED BY <2>2, <2>3 DEF Buffers
<1>7. CASE Len(t.taken) = 0
  <2>1. Len(t.instances) = 1 /\ t.instances[1] \in C /\ DOMAIN t.instances[1] = 1 .. n
    BY <1>1, <1>7 DEF Buffered
  <2> DEFINE clone == [i \in 1 .. n |-> [t.instances[1][i] EXCEPT !.stamp = now]]
  <2>2. clone \in C /\ \A i \in 1 .. n : clone[i].stamp = now
    BY <1>1, <2>1 DEF Cell
  <2>3. Exchanged(t) = <<t.instances[1], clone>>
    BY <2>1 DEF Exchanged
  <2> HIDE DEF clone, new, C
  <2>4. instances = <<new, clone>>
    BY <1>1, <1>2, <2>1, <2>2, <2>3, PutInstances
  <2> HIDE DEF instances, later, now
  <2>5. \A i \in 1 .. n : new[i].stamp < later /\ clone[i].stamp < later
    BY <1>2, <2>2
  <2>6. Len(taken) = 1
    BY <1>5, <1>7
  <2> QED BY <1>2, <1>6, <2>2, <2>4, <2>5, <2>6
<1>8. CASE Len(t.taken) # 0
  <2>1. Len(t.instances) = 2 /\ t.instances[1] \in C /\ t.instances[2] \in C
    BY <1>1, <1>8 DEF Buffered
  <2>2. Exchanged(t) = <<t.instances[2], t.instances[1]>>
    BY <2>1 DEF Exchanged
  <2> DEFINE prior == t.instances[2]
  <2>3. prior \in C /\ \A i \in 1 .. n : prior[i].stamp < now /\ prior[i].stamp \in Nat
    BY <1>1, <1>4, <2>1 DEF Buffered
  <2>4. Len(taken) = 3 => \A i \in 1 .. n : prior[i].value = t.taken[Len(t.taken)][i]
    <3>1. Len(taken) = 3 => Len(t.taken) >= 2
      <4> DEFINE len == Len(t.taken)  more == Len(taken)
      <4>1. len \in Nat /\ more = IF len = 3 THEN 3 ELSE len + 1
        BY <1>5
      <4> HIDE DEF len, more
      <4>2. more = 3 => len >= 2
        BY <4>1
      <4> QED BY <4>2 DEF len, more
    <3> QED BY <1>1, <3>1 DEF Buffered
  <2> HIDE DEF new, C
  <2>5. instances = <<prior, new>>
    BY <1>1, <1>2, <2>1, <2>2, PutInstances
  <2> HIDE DEF prior, instances, later
  <2>6. ASSUME NEW i \in 1 .. n
        PROVE  prior[i].stamp < later /\ new[i].stamp < later /\ prior[i].stamp < new[i].stamp
    BY <1>1, <1>2, <2>3
  <2> QED BY <1>2, <1>6, <2>3, <2>4, <2>5, <2>6
<1> QED BY <1>7, <1>8

\* However many strings a table is handed, it takes whole samples of them.
LEMMA Division ==
  ASSUME NEW len \in Nat, NEW n \in Nat \ {0}
  PROVE  len \div n \in Nat /\ \A k \in 1 .. len \div n : k * n <= len
<1>1. len \div n \in Nat /\ (len \div n) * n <= len
  BY SMTT(60)
<1> DEFINE q == len \div n
<1> HIDE DEF q
<1>2. \A a, b \in Nat : b <= a => b * n <= a * n
  BY SMTT(60)
<1> QED BY <1>1, <1>2 DEF q

Maps == UNION {[names -> Nat] : names \in SUBSET Attributes}
Strs(n) == {s \in [values : Seq(Nat), gap : {0, 1}] : n = 0 => Len(s.values) = 0}

LEMMA ChunksAre ==
  ASSUME NEW n \in Nat \ {0}, NEW s \in Strs(n)
  PROVE  Chunks(s, n) \in Seq(Samples(n))
<1> DEFINE values == s.values  gap == s.gap  len == Len(values)  count == len \div n
           Piece(k) == SubSeq(values, (k - 1) * n + 1, k * n)
<1>1. values \in Seq(Nat) /\ gap \in {0, 1} /\ len \in Nat
  <2>1. values \in Seq(Nat) /\ gap \in {0, 1}
    BY DEF Strs
  <2> QED BY <2>1, LenProperties
<1>2. Chunks(s, n) = [k \in 1 .. count |-> [values |-> Piece(k), gap |-> gap]]
  BY DEF Chunks, Sample
<1> HIDE DEF len
<1>3. count \in Nat /\ \A k \in 1 .. count : k * n <= len
  BY <1>1, Division
<1> HIDE DEF count
<1>4. ASSUME NEW k \in 1 .. count PROVE Piece(k) \in [1 .. n -> Nat]
  <2> DEFINE a == (k - 1) * n  b == k * n
  <2>1. a \in Nat /\ b \in Nat /\ b = a + n /\ b <= len
    <3>1. k \in Nat /\ k - 1 \in Nat
      BY <1>3
    <3>2. a \in Nat /\ b \in Nat
      BY <3>1, SMTT(30)
    <3>3. b = a + n
      BY <3>1, SMTT(30)
    <3> QED BY <1>3, <3>2, <3>3
  <2> HIDE DEF a, b
  <2>2. \A i \in a + 1 .. b : i \in 1 .. len
    BY <1>1, <2>1
  <2>3. \A i \in 1 .. len : values[i] \in Nat
    BY <1>1, ElementOfSeq DEF len
  <2> HIDE DEF values
  <2>4. SubSeq(values, a + 1, b) \in Seq(Nat)
        /\ Len(SubSeq(values, a + 1, b)) = IF a + 1 <= b THEN b - (a + 1) + 1 ELSE 0
    <3>1. a + 1 \in Int /\ b \in Int /\ \A i \in a + 1 .. b : values[i] \in Nat
      BY <2>1, <2>2, <2>3
    <3> QED BY <3>1, SubSeqProperties
  <2> DEFINE piece == SubSeq(values, a + 1, b)
  <2>5. piece \in Seq(Nat) /\ Len(piece) = n
    <3>1. a + 1 <= b /\ b - (a + 1) + 1 = n
      BY <2>1
    <3> QED BY <2>4, <3>1
  <2> HIDE DEF piece
  <2>6. piece \in [1 .. n -> Nat]
    BY <2>5, LenProperties
  <2> QED BY <2>6 DEF piece, a, b
<1> HIDE DEF Piece, values, gap
<1>5. \A k \in 1 .. count : [values |-> Piece(k), gap |-> gap] \in Samples(n)
  BY <1>1, <1>4 DEF Samples
<1>6. Chunks(s, n) \in [1 .. count -> Samples(n)]
  BY <1>2, <1>5
<1> QED BY <1>3, <1>6, Adds!FunctionLength

LEMMA PutStringsBuffers ==
  ASSUME NEW n \in Nat, NEW t \in Buffers(n), NEW s \in Strs(n)
  PROVE  PutStrings(t, s) \in Buffers(n)
<1> DEFINE first == t.instances[1]
<1>1. first \in [1 .. n -> Cell] /\ Len(first) = n
  <2>1. t.instances \in Seq([1 .. n -> Cell])
        /\ Len(t.instances) = IF Len(t.taken) = 0 THEN 1 ELSE 2
    BY DEF Buffers, Tables, Buffered
  <2>2. 1 \in 1 .. Len(t.instances)
    BY <2>1
  <2>3. first \in [1 .. n -> Cell]
    BY <2>1, <2>2, ElementOfSeq
  <2> QED BY <2>3, Adds!FunctionLength
<1>2. CASE n = 0
  <2>1. PutStrings(t, s) = Put(t, s)
    BY <1>1, <1>2 DEF PutStrings
  <2>2. s \in Samples(n)
    <3>1. s \in [values : Seq(Nat), gap : {0, 1}] /\ s.values \in Seq(Nat) /\ Len(s.values) = 0
      BY <1>2 DEF Strs
    <3>2. s.values \in [1 .. n -> Nat]
      BY <1>2, <3>1, LenProperties
    <3> QED BY <3>1, <3>2 DEF Samples
  <2> QED BY <2>1, <2>2, PutBuffers
<1>3. CASE n # 0
  <2>1. n \in Nat \ {0}
    BY <1>3
  <2> DEFINE chunks == Chunks(s, n)
  <2>2. chunks \in Seq(Samples(n))
    BY <2>1, ChunksAre
  <2>3. PutStrings(t, s) = FoldLeft(Put, t, chunks)
    BY <1>1, <1>3 DEF PutStrings
  <2> HIDE DEF chunks
  <2>4. \A u \in Buffers(n), x \in Samples(n) : Put(u, x) \in Buffers(n)
    BY PutBuffers
  <2>5. Puts!Folded(t, chunks) \in Buffers(n)
    BY <2>2, <2>4, Puts!FoldKeeps
  <2> QED BY <2>3, <2>5, PutsFold
<1> QED BY <1>2, <1>3

\* The table stays a pair of buffers over all the maps it is handed at once.
LEMMA SampledBuffers ==
  ASSUME NEW k \in Nat, NEW maps \in [1 .. k -> Maps], NEW gap \in {0, 1},
         collector.fields \in Seq(Attributes), table \in Buffers(Len(collector.fields))
  PROVE  Sampled(maps, gap) \in Buffers(Len(collector.fields))
<1> DEFINE n == Len(collector.fields)
           samples == [j \in 1 .. k |-> Sample(Cells(maps[j]), gap)]
<1>1. n \in Nat /\ DOMAIN collector.fields = 1 .. n
  BY LenProperties
<1>2. Sampled(maps, gap) = FoldLeft(PutStrings, table, samples)
  BY DEF Sampled
<1>3. ASSUME NEW j \in 1 .. k PROVE Sample(Cells(maps[j]), gap) \in Strs(n)
  <2> DEFINE map == maps[j]
  <2>1. map \in Maps
    OBVIOUS
  <2> HIDE DEF map
  <2>2. \A i \in 1 .. n : collector.fields[i] \in Range(collector.fields)
    BY <1>1 DEF Range
  <2>3. \A a \in DOMAIN map : map[a] \in Nat
    BY <2>1 DEF Maps
  <2>4. \A i \in 1 .. n : WithFields(map)[collector.fields[i]] \in Nat
    BY <2>2, <2>3 DEF WithFields
  <2>5. Cells(map) \in [1 .. n -> Nat]
    BY <1>1, <2>4 DEF Cells
  <2> HIDE DEF n
  <2>6. Cells(map) \in Seq(Nat) /\ Len(Cells(map)) = n
    BY <1>1, <2>5, Adds!FunctionLength
  <2> QED BY <2>6 DEF Strs, Sample, map
<1>4. samples \in Seq(Strs(n))
  <2> HIDE DEF n
  <2>1. samples \in [1 .. k -> Strs(n)]
    BY <1>3
  <2> HIDE DEF samples
  <2> QED BY <2>1, Adds!FunctionLength
<1> HIDE DEF samples, n
<1>5. \A u \in Buffers(n), x \in Strs(n) : PutStrings(u, x) \in Buffers(n)
  BY <1>1, PutStringsBuffers
<1>6. table \in Buffers(n)
  BY DEF n
<1>7. Strings!Folded(table, samples) \in Buffers(n)
  BY <1>4, <1>5, <1>6, Strings!FoldKeeps
<1> QED BY <1>2, <1>7, StringsFold DEF n

LEMMA PushBuffers ==
  ASSUME NEW values \in [DOMAIN collector.fields -> Nat], NEW gap \in {0, 1},
         collector.fields \in Seq(Attributes), table \in Buffers(Len(collector.fields))
  PROVE  PutStrings(table, Sample(values, gap)) \in Buffers(Len(collector.fields))
<1> DEFINE n == Len(collector.fields)
<1>1. n \in Nat /\ DOMAIN collector.fields = 1 .. n
  BY LenProperties
<1>2. values \in [1 .. n -> Nat] /\ table \in Buffers(n)
  BY <1>1
<1> HIDE DEF n
<1>3. values \in Seq(Nat) /\ Len(values) = n
  BY <1>1, <1>2, Adds!FunctionLength
<1>4. Sample(values, gap) \in Strs(n)
  BY <1>3 DEF Sample, Strs
<1> QED BY <1>1, <1>2, <1>4, PutStringsBuffers DEF n

LEMMA SumsAre ==
  ASSUME NEW k \in Nat, collector.fields \in Seq(Attributes),
         NEW lines \in [1 .. k -> [Range(collector.fields) -> Nat]]
  PROVE  Sums(lines) \in [DOMAIN collector.fields -> Nat]
<1>1. ASSUME NEW i \in DOMAIN collector.fields
      PROVE  FoldLeft(Plus, 0, [j \in 1 .. k |-> lines[j][collector.fields[i]]]) \in Nat
  <2> DEFINE column == [j \in 1 .. k |-> lines[j][collector.fields[i]]]
  <2>1. collector.fields[i] \in Range(collector.fields)
    BY DEF Range
  <2>2. column \in [1 .. k -> Nat]
    BY <2>1
  <2> HIDE DEF column
  <2>3. column \in Seq(Nat)
    BY <2>2, Adds!FunctionLength
  <2>4. \A u \in Nat, x \in Nat : Plus(u, x) \in Nat
    BY DEF Plus
  <2>5. Adds!Folded(0, column) \in Nat
    BY <2>3, <2>4, Adds!FoldKeeps
  <2> QED BY <2>5, AddsFold DEF column
<1>2. DOMAIN lines = 1 .. k
  OBVIOUS
<1> QED BY <1>1, <1>2 DEF Sums

LEMMA MapIs ==
  /\ \A names \in SUBSET Attributes : \A map \in [names -> Nat] : map \in Maps
  /\ \A map \in Maps : DOMAIN map \in SUBSET Attributes /\ map \in [DOMAIN map -> Nat]
  BY DEF Maps

LEMMA MapFacts ==
  ASSUME NEW map \in Maps, NEW file \in Maps, collector.fields \in Seq(Attributes)
  PROVE  /\ Overwritten(map, file) \in Maps
         /\ DOMAIN Overwritten(map, file) = DOMAIN map \cup DOMAIN file
         /\ WithFields(map) \in Maps
         /\ DOMAIN WithFields(map) = DOMAIN map \cup Range(collector.fields)
         /\ \A names \in SUBSET DOMAIN map : Restrict(map, names) \in Maps
<1>1. Range(collector.fields) \subseteq Attributes
  <2>1. \A i \in DOMAIN collector.fields : collector.fields[i] \in Attributes
    BY LenProperties, ElementOfSeq
  <2> QED BY <2>1 DEF Range
<1>2. DOMAIN map \subseteq Attributes /\ DOMAIN file \subseteq Attributes
      /\ (\A a \in DOMAIN map : map[a] \in Nat) /\ (\A a \in DOMAIN file : file[a] \in Nat)
  BY DEF Maps
<1>3. /\ Overwritten(map, file) \in [DOMAIN map \cup DOMAIN file -> Nat]
      /\ DOMAIN map \cup DOMAIN file \in SUBSET Attributes
  BY <1>2 DEF Overwritten
<1>4. /\ WithFields(map) \in [DOMAIN map \cup Range(collector.fields) -> Nat]
      /\ DOMAIN map \cup Range(collector.fields) \in SUBSET Attributes
  BY <1>1, <1>2 DEF WithFields
<1>5. ASSUME NEW names \in SUBSET DOMAIN map
      PROVE  Restrict(map, names) \in [names -> Nat] /\ names \in SUBSET Attributes
  <2>1. \A a \in names : map[a] \in Nat
    BY <1>2
  <2> QED BY <1>2, <2>1 DEF Restrict
<1> QED BY <1>3, <1>4, <1>5, MapIs

\* What all the samplers leave of the table and of the map: the buffers, and a map
\* that has lost no attribute.
StatKept ==
  /\ collector \in Collectors /\ collector.fields \in Seq(Attributes)
  /\ table \in Buffers(Len(collector.fields))
  /\ stats \in Maps

LEMMA FilesAreMaps == Files \subseteq Maps /\ Counters \subseteq Nat
<1>1. Counters \subseteq Nat
  BY StatAssumption DEF Counters
<1>2. ASSUME NEW file \in Files PROVE file \in Maps
  <2>1. PICK names \in SUBSET Attributes : file \in [names -> Counters]
    BY DEF Files
  <2>2. file \in [names -> Nat]
    BY <1>1, <2>1
  <2> QED BY <2>2, MapIs
<1> QED BY <1>1, <1>2

LEMMA AppendIs ==
  ASSUME NEW S, NEW s, NEW x \in S
  PROVE  /\ s \in [1 .. 1 -> S] => Append(s, x) \in [1 .. 2 -> S]
         /\ s \in [1 .. 2 -> S] => Append(s, x) \in [1 .. 3 -> S]
<1>1. ASSUME NEW n \in Nat, s \in [1 .. n -> S] PROVE Append(s, x) \in [1 .. n + 1 -> S]
  <2>1. s \in Seq(S) /\ Len(s) = n
    BY <1>1, Adds!FunctionLength
  <2>2. Append(s, x) \in Seq(S) /\ Len(Append(s, x)) = n + 1
    BY <2>1, AppendProperties
  <2> QED BY <2>2, LenProperties
<1>2. 1 \in Nat /\ 2 \in Nat /\ 1 + 1 = 2 /\ 2 + 1 = 3
  OBVIOUS
<1>3. s \in [1 .. 1 -> S] => Append(s, x) \in [1 .. 1 + 1 -> S]
  BY <1>1, <1>2
<1>4. s \in [1 .. 2 -> S] => Append(s, x) \in [1 .. 2 + 1 -> S]
  BY <1>1, <1>2
<1> QED BY <1>2, <1>3, <1>4

LEMMA TupleMaps ==
  ASSUME NEW S, NEW a \in S, NEW b \in S
  PROVE  /\ <<a>> \in [1 .. 1 -> S] /\ <<b, a, a>> \in [1 .. 3 -> S]
         /\ Append(<<a>>, b) \in [1 .. 2 -> S] /\ Last(<<a>>) = a
<1>1. <<a>> \in [1 .. 1 -> S] /\ <<b, a, a>> \in [1 .. 3 -> S]
  OBVIOUS
<1>2. Append(<<a>>, b) \in [1 .. 2 -> S]
  BY <1>1, AppendIs
<1> QED BY <1>1, <1>2 DEF Last

LEMMA PairMaps ==
  ASSUME NEW S, NEW a \in S, NEW b \in S
  PROVE  /\ <<a, b>> \in [1 .. 2 -> S]
         /\ Append(<<a, b>>, b) \in [1 .. 3 -> S] /\ Last(<<a, b>>) = b
<1>1. <<a, b>> \in [1 .. 2 -> S]
  OBVIOUS
<1>2. Append(<<a, b>>, b) \in [1 .. 3 -> S]
  BY <1>1, AppendIs
<1> QED BY <1>1, <1>2 DEF Last

LEMMA SamplersKeep ==
  ASSUME StatKept, StatNext
  PROVE  /\ collector' = collector
         /\ table' \in Buffers(Len(collector.fields))
         /\ stats' \in Maps /\ DOMAIN stats \subseteq DOMAIN stats'
<1> DEFINE Goal == /\ collector' = collector
                   /\ table' \in Buffers(Len(collector.fields))
                   /\ stats' \in Maps /\ DOMAIN stats \subseteq DOMAIN stats'
<1>1. /\ collector.fields \in Seq(Attributes) /\ table \in Buffers(Len(collector.fields))
      /\ stats \in Maps
  BY DEF StatKept
<1>2. \A file \in Files : file \in Maps
  BY FilesAreMaps
<1>3. \A file \in Maps : /\ Overwritten(stats, file) \in Maps
                         /\ DOMAIN stats \subseteq DOMAIN Overwritten(stats, file)
                         /\ Overwritten(file, stats) \in Maps
                         /\ DOMAIN stats \subseteq DOMAIN Overwritten(file, stats)
  <2> TAKE file \in Maps
  <2>1. /\ Overwritten(stats, file) \in Maps
        /\ DOMAIN Overwritten(stats, file) = DOMAIN stats \cup DOMAIN file
    BY <1>1, MapFacts
  <2>2. /\ Overwritten(file, stats) \in Maps
        /\ DOMAIN Overwritten(file, stats) = DOMAIN file \cup DOMAIN stats
    BY <1>1, MapFacts
  <2> QED BY <2>1, <2>2
<1>4. \A map \in Maps : WithFields(map) \in Maps /\ DOMAIN map \subseteq DOMAIN WithFields(map)
  BY <1>1, MapFacts
<1>5. \A file \in Maps : \A names \in SUBSET DOMAIN file : Restrict(file, names) \in Maps
  BY <1>1, MapFacts
<1>6. \A map \in Maps, gap \in {0, 1} : Sampled(<<map>>, gap) \in Buffers(Len(collector.fields))
  <2> TAKE map \in Maps, gap \in {0, 1}
  <2>1. <<map>> \in [1 .. 1 -> Maps] /\ 1 \in Nat
    BY TupleMaps
  <2> QED BY <1>1, <2>1, SampledBuffers
<1>7. \A names \in SUBSET Attributes : \A file \in [names -> Counters] : file \in Maps
  <2>1. \A names : \A file \in [names -> Counters] : file \in [names -> Nat]
    BY FilesAreMaps
  <2> QED BY <2>1, MapIs
<1>8. Range(collector.fields) \in SUBSET Attributes
  <2>1. \A i \in DOMAIN collector.fields : collector.fields[i] \in Attributes
    BY <1>1, LenProperties, ElementOfSeq
  <2> QED BY <2>1 DEF Range
<1>9. \A values \in [DOMAIN collector.fields -> Nat], gap \in {0, 1} :
        PutStrings(table, Sample(values, gap)) \in Buffers(Len(collector.fields))
  BY <1>1, PushBuffers
<1> DEFINE Lines == [Range(collector.fields) -> Counters]
<1>10. ASSUME NEW lines \in Caches
       PROVE  Sums(lines) \in [DOMAIN collector.fields -> Nat] /\ Last(lines) \in Maps
  <2>1. Lines \subseteq [Range(collector.fields) -> Nat] /\ \A f \in Lines : f \in Maps
    <3>1. Lines \subseteq [Range(collector.fields) -> Nat]
      BY FilesAreMaps
    <3> QED BY <1>7, <1>8, <3>1
  <2>2. CASE \E f \in Lines : lines = <<f>>
    <3>1. PICK f \in Lines : lines = <<f>>
      BY <2>2
    <3>2. <<f>> \in [1 .. 1 -> [Range(collector.fields) -> Nat]] /\ Last(<<f>>) = f /\ 1 \in Nat
      BY <2>1, TupleMaps
    <3>3. Sums(lines) \in [DOMAIN collector.fields -> Nat]
      BY <1>1, <3>1, <3>2, SumsAre
    <3> QED BY <2>1, <3>1, <3>2, <3>3
  <2>3. CASE \E f \in Lines, g \in Lines : lines = <<f, g>>
    <3>1. PICK f \in Lines, g \in Lines : lines = <<f, g>>
      BY <2>3
    <3>2. <<f, g>> \in [1 .. 2 -> [Range(collector.fields) -> Nat]] /\ Last(<<f, g>>) = g /\ 2 \in Nat
      <4> DEFINE Row == [Range(collector.fields) -> Nat]
      <4>1. f \in Row /\ g \in Row
        BY <2>1
      <4> HIDE DEF Row
      <4>2. <<f, g>> \in [1 .. 2 -> Row] /\ Last(<<f, g>>) = g
        BY <4>1, PairMaps
      <4> QED BY <4>2 DEF Row
    <3>3. Sums(lines) \in [DOMAIN collector.fields -> Nat]
      BY <1>1, <3>1, <3>2, SumsAre
    <3> QED BY <2>1, <3>1, <3>2, <3>3
  <2> QED BY <2>2, <2>3 DEF Caches
<1> HIDE DEF Lines
<1>11. ASSUME snmp4_collector PROVE Goal
  <2>0. PICK file \in Files, gap \in {0, 1} : \E names \in SUBSET DOMAIN file :
          LET part == Overwritten(stats, Restrict(file, names))
              all == Overwritten(stats, file)
          IN stats' = WithFields(all) /\ table' = Sampled(<<part, all, all>>, gap)
    BY <1>11 DEF snmp4_collector
  <2>1. PICK names \in SUBSET DOMAIN file :
          LET part == Overwritten(stats, Restrict(file, names))
              all == Overwritten(stats, file)
          IN stats' = WithFields(all) /\ table' = Sampled(<<part, all, all>>, gap)
    BY <2>0
  <2> DEFINE part == Overwritten(stats, Restrict(file, names))
             all == Overwritten(stats, file)
  <2>2. part \in Maps /\ all \in Maps /\ DOMAIN stats \subseteq DOMAIN all
    BY <1>2, <1>3, <1>5
  <2>3. stats' = WithFields(all) /\ table' = Sampled(<<part, all, all>>, gap)
    BY <2>1
  <2> HIDE DEF part, all
  <2>4. <<part, all, all>> \in [1 .. 3 -> Maps] /\ 3 \in Nat
    BY <2>2, TupleMaps
  <2>5. table' \in Buffers(Len(collector.fields))
    BY <1>1, <2>3, <2>4, SampledBuffers
  <2> QED BY <1>4, <1>11, <2>2, <2>3, <2>5 DEF snmp4_collector, Collects
<1>12. ASSUME snmp6_collector PROVE Goal
  <2>1. PICK file \in Files, gap \in {0, 1} :
          stats' = WithFields(Overwritten(stats, file)) /\ table' = Sampled(<<stats'>>, gap)
    BY <1>12 DEF snmp6_collector
  <2> QED BY <1>2, <1>3, <1>4, <1>6, <1>12, <2>1 DEF snmp6_collector, Collects
<1>13. ASSUME netdev_stats PROVE Goal
  <2>1. PICK file \in Files, gap \in {0, 1} : \E lines \in {file, [a \in DOMAIN file |-> 0]} :
          stats' = WithFields(Overwritten(stats, lines)) /\ table' = Sampled(<<stats'>>, gap)
    BY <1>13 DEF netdev_stats
  <2>2. PICK lines \in {file, [a \in DOMAIN file |-> 0]} :
          stats' = WithFields(Overwritten(stats, lines)) /\ table' = Sampled(<<stats'>>, gap)
    BY <2>1
  <2>3. lines \in Maps
    <3>1. file \in Maps
      BY <1>2
    <3>2. [a \in DOMAIN file |-> 0] \in [DOMAIN file -> Nat] /\ DOMAIN file \in SUBSET Attributes
      BY <3>1, MapIs
    <3> QED BY <2>2, <3>1, <3>2, MapIs
  <2> QED BY <1>3, <1>4, <1>6, <1>13, <2>2, <2>3 DEF netdev_stats, Collects
<1>14. ASSUME sockstat64_collector PROVE Goal
  <2>1. PICK file \in Files, gap \in {0, 1} :
          stats' = WithFields(Overwritten(file, stats)) /\ table' = Sampled(<<stats'>>, gap)
    BY <1>14 DEF sockstat64_collector
  <2> QED BY <1>2, <1>3, <1>4, <1>6, <1>14, <2>1 DEF sockstat64_collector, Collects
<1>15. ASSUME route_statistics PROVE Goal
  <2>1. PICK first \in Files, gap \in {0, 1} :
          \E lines \in {<<first>>} \cup {<<first, f>> : f \in Alike(first)} :
            LET maps == [n \in DOMAIN lines |-> Overwritten(stats, lines[n])]
            IN /\ stats' = WithFields(Last(maps))
               /\ table' = Sampled(Append(maps, Last(maps)), gap)
    BY <1>15 DEF route_statistics
  <2>2. PICK lines \in {<<first>>} \cup {<<first, f>> : f \in Alike(first)} :
            LET maps == [n \in DOMAIN lines |-> Overwritten(stats, lines[n])]
            IN /\ stats' = WithFields(Last(maps))
               /\ table' = Sampled(Append(maps, Last(maps)), gap)
    BY <2>1
  <2> DEFINE maps == [n \in DOMAIN lines |-> Overwritten(stats, lines[n])]
  <2>3. stats' = WithFields(Last(maps)) /\ table' = Sampled(Append(maps, Last(maps)), gap)
    BY <2>2
  <2>4. first \in Maps /\ \A f \in Alike(first) : f \in Maps
    <3>1. first \in Maps /\ DOMAIN first \in SUBSET Attributes
      BY <1>2, MapIs
    <3> QED BY <1>7, <3>1 DEF Alike
  <2>5. ASSUME NEW n \in {1, 2}, NEW a \in Maps, NEW b \in Maps, DOMAIN stats \subseteq DOMAIN b,
               maps = IF n = 1 THEN <<b>> ELSE <<a, b>>
        PROVE  Goal
    <3>1. Last(maps) = b /\ Append(maps, b) \in [1 .. n + 1 -> Maps] /\ n + 1 \in Nat
      <4>1. CASE n = 1
        <5>1. maps = <<b>> /\ n + 1 = 2
          BY <2>5, <4>1
        <5>2. Last(<<b>>) = b /\ Append(<<b>>, b) \in [1 .. 2 -> Maps]
          BY TupleMaps
        <5> HIDE DEF maps
        <5>3. Last(maps) = b /\ Append(maps, b) \in [1 .. 2 -> Maps]
          BY <5>1, <5>2
        <5> QED BY <5>1, <5>3
      <4>2. CASE n = 2
        <5>1. maps = <<a, b>> /\ n + 1 = 3
          BY <2>5, <4>2
        <5>2. Last(<<a, b>>) = b /\ Append(<<a, b>>, b) \in [1 .. 3 -> Maps]
          BY PairMaps
        <5> HIDE DEF maps
        <5>3. Last(maps) = b /\ Append(maps, b) \in [1 .. 3 -> Maps]
          BY <5>1, <5>2
        <5> QED BY <5>1, <5>3
      <4> QED BY <4>1, <4>2
    <3> HIDE DEF maps
    <3>2. table' = Sampled(Append(maps, b), gap) /\ stats' = WithFields(b)
      BY <2>3, <3>1
    <3>3. table' \in Buffers(Len(collector.fields))
      BY <1>1, <3>1, <3>2, SampledBuffers
    <3> QED BY <1>4, <1>15, <2>5, <3>2, <3>3 DEF route_statistics, Collects
  <2>6. CASE lines = <<first>>
    <3>1. maps = <<Overwritten(stats, first)>>
      BY <2>6
    <3> HIDE DEF maps
    <3> QED BY <1>3, <2>4, <2>5, <3>1
  <2>7. CASE \E f \in Alike(first) : lines = <<first, f>>
    <3>1. PICK f \in Alike(first) : lines = <<first, f>>
      BY <2>7
    <3>2. maps = <<Overwritten(stats, first), Overwritten(stats, f)>>
      BY <3>1
    <3> HIDE DEF maps
    <3> QED BY <1>3, <2>4, <2>5, <3>2
  <2> QED BY <2>6, <2>7
<1>16. ASSUME ndis_cache PROVE Goal
  <2>1. PICK lines \in Caches, gap \in {0, 1} :
          /\ stats' = Overwritten(stats, Last(lines))
          /\ table' = PutStrings(table, Sample(Sums(lines), gap))
    BY <1>16 DEF ndis_cache
  <2> QED BY <1>3, <1>9, <1>10, <1>16, <2>1 DEF ndis_cache, Collects
<1>17. ASSUME arp_cache_stats PROVE Goal
  <2>1. PICK lines \in Caches, gap \in {0, 1} :
          stats' = WithFields(stats) /\ table' = PutStrings(table, Sample(Sums(lines), gap))
    BY <1>17 DEF arp_cache_stats
  <2> QED BY <1>1, <1>4, <1>9, <1>10, <1>17, <2>1 DEF arp_cache_stats, Collects
<1>18. ASSUME net_stats PROVE Goal
  <2>1. PICK file \in Files, values \in [DOMAIN collector.fields -> Counters], gap \in {0, 1} :
          stats' = Overwritten(stats, file) /\ table' = PutStrings(table, Sample(values, gap))
    BY <1>18 DEF net_stats
  <2>2. values \in [DOMAIN collector.fields -> Nat]
    BY FilesAreMaps
  <2> QED BY <1>2, <1>3, <1>9, <1>18, <2>1, <2>2 DEF net_stats, Collects
<1>19. ASSUME pushDefaultValues, UNCHANGED collector PROVE Goal
  <2>1. PICK gap \in {0, 1} :
          table' = PutStrings(table, Sample([i \in DOMAIN collector.fields |-> 0], gap))
    BY <1>19 DEF pushDefaultValues
  <2>2. [i \in DOMAIN collector.fields |-> 0] \in [DOMAIN collector.fields -> Nat]
    OBVIOUS
  <2> QED BY <1>1, <1>9, <1>19, <2>1, <2>2 DEF pushDefaultValues
<1>20. ASSUME wireless PROVE Goal
  BY <1>19, <1>20 DEF wireless, Collects
<1>21. ASSUME arp_stats PROVE Goal
  <2>1. CASE pushDefaultValues
    BY <1>19, <1>21, <2>1 DEF arp_stats, Collects
  <2>2. CASE \E file \in [Range(collector.fields) -> Counters], gap \in {0, 1} :
               stats' = Overwritten(stats, file) /\ table' = Sampled(<<stats'>>, gap)
    <3>1. PICK file \in [Range(collector.fields) -> Counters], gap \in {0, 1} :
            stats' = Overwritten(stats, file) /\ table' = Sampled(<<stats'>>, gap)
      BY <2>2
    <3>2. file \in Maps
      BY <1>7, <1>8
    <3> QED BY <1>3, <1>6, <1>21, <3>1, <3>2 DEF arp_stats, Collects
  <2> QED BY <1>21, <2>1, <2>2 DEF arp_stats
<1>22. ASSUME putValuesFromStrings PROVE Goal
  <2> DEFINE n == Len(collector.fields)
  <2>1. PICK gap \in {0, 1}, m \in 1 .. 2 * n + 1, v \in {0, MaxValue}, w \in {0, MaxValue} :
          table' = PutStrings(table, Sample([i \in 1 .. m |-> IF i <= n THEN v ELSE w], gap))
    BY <1>22 DEF putValuesFromStrings
  <2> DEFINE values == [i \in 1 .. m |-> IF i <= n THEN v ELSE w]
  <2>2. values \in [1 .. m -> Nat]
    BY StatAssumption
  <2>3. n \in Nat /\ n # 0 /\ m \in Nat
    <3>1. n \in Nat /\ n # 0
      BY <1>1, <1>22, EmptySeq, LenProperties DEF putValuesFromStrings
    <3> QED BY <3>1
  <2> HIDE DEF values, n
  <2>4. values \in Seq(Nat)
    BY <2>2, <2>3, Adds!FunctionLength
  <2>5. Sample(values, gap) \in Strs(n)
    BY <2>3, <2>4 DEF Strs, Sample
  <2>6. PutStrings(table, Sample(values, gap)) \in Buffers(n)
    BY <1>1, <2>3, <2>5, PutStringsBuffers DEF n
  <2>7. table' \in Buffers(Len(collector.fields))
    BY <2>1, <2>6 DEF values, n
  <2> QED BY <1>1, <1>22, <2>7 DEF putValuesFromStrings
<1>23. ASSUME insert_query \/ create_table_query \/ Classify PROVE Goal
  BY <1>1, <1>23 DEF insert_query, create_table_query, Classify
<1> HIDE DEF Goal
<1>24. Goal
  BY <1>11, <1>12, <1>13, <1>14, <1>15, <1>16, <1>17, <1>18, <1>20, <1>21, <1>22, <1>23 DEF StatNext
<1> QED BY <1>24 DEF Goal

LEMMA OrderExists ==
  \A n \in Nat : \A S \in SUBSET Nat : IsFiniteSet(S) /\ Cardinality(S) = n =>
    \E s \in [1 .. n -> S] : \A i, j \in 1 .. n : i < j => s[i] < s[j]
<1> DEFINE Ordered(S, n) == \E s \in [1 .. n -> S] : \A i, j \in 1 .. n : i < j => s[i] < s[j]
           Good == {n \in Nat : \A S \in SUBSET Nat :
                      IsFiniteSet(S) /\ Cardinality(S) = n => Ordered(S, n)}
<1>1. 0 \in Good
  <2>1. ASSUME NEW S PROVE Ordered(S, 0)
    <3> DEFINE s == [i \in 1 .. 0 |-> i]
    <3>1. s \in [1 .. 0 -> S] /\ \A i, j \in 1 .. 0 : i < j => s[i] < s[j]
      OBVIOUS
    <3> QED BY <3>1
  <2> QED BY <2>1
<1>2. ASSUME NEW n \in Good PROVE n + 1 \in Good
  <2>1. ASSUME NEW S \in SUBSET Nat, IsFiniteSet(S), Cardinality(S) = n + 1
        PROVE  Ordered(S, n + 1)
    <3>1. S # {}
      BY <2>1, FS_EmptySet
    <3>2. PICK m \in S : \A k \in S : m <= k
      BY <3>1, Adds!Least
    <3> DEFINE rest == S \ {m}
    <3>3. rest \in SUBSET Nat /\ IsFiniteSet(rest) /\ Cardinality(rest) = n
      <4>1. IsFiniteSet(rest) /\ Cardinality(rest) = n + 1 - 1
        BY <2>1, FS_RemoveElement
      <4> QED BY <4>1
    <3>4. PICK s \in [1 .. n -> rest] : \A i, j \in 1 .. n : i < j => s[i] < s[j]
      BY <3>3
    <3>5. \A i \in 1 .. n : s[i] \in S /\ s[i] \in Nat /\ m < s[i]
      <4> TAKE i \in 1 .. n
      <4>1. s[i] \in rest
        BY <3>4
      <4> HIDE DEF Good
      <4>2. s[i] \in Nat /\ m \in Nat /\ s[i] # m /\ m <= s[i]
        BY <3>2, <4>1
      <4>3. m < s[i]
        BY <4>2
      <4> QED BY <4>1, <4>2, <4>3
    <3> DEFINE longer == [i \in 1 .. n + 1 |-> IF i = 1 THEN m ELSE s[i - 1]]
    <3>6. \A i \in 1 .. n + 1 : i # 1 => i - 1 \in 1 .. n
      OBVIOUS
    <3> HIDE DEF rest, Good
    <3>7. longer \in [1 .. n + 1 -> S]
      BY <3>5, <3>6
    <3>8. ASSUME NEW i \in 1 .. n + 1, NEW j \in 1 .. n + 1, i < j
          PROVE  longer[i] < longer[j]
      <4>1. j # 1 /\ longer[j] = s[j - 1] /\ j - 1 \in 1 .. n
        BY <3>6, <3>8
      <4>2. CASE i = 1
        <5>1. longer[i] = m
          BY <4>2
        <5> QED BY <3>5, <4>1, <5>1
      <4>3. CASE i # 1
        <5>1. longer[i] = s[i - 1] /\ i - 1 \in 1 .. n /\ i - 1 < j - 1
          BY <3>6, <3>8, <4>3
        <5> HIDE DEF longer
        <5> QED BY <3>4, <4>1, <5>1
      <4> QED BY <4>2, <4>3
    <3> HIDE DEF longer
    <3>9. \A i, j \in 1 .. n + 1 : i < j => longer[i] < longer[j]
      BY <3>8
    <3> QED BY <3>7, <3>9
  <2>2. n + 1 \in Nat
    OBVIOUS
  <2> HIDE DEF Ordered
  <2> QED BY <2>1, <2>2
<1>3. Good \in SUBSET Nat
  OBVIOUS
<1> HIDE DEF Good
<1>4. Good = Nat
  BY <1>1, <1>2, <1>3, Adds!Induct
<1> QED BY <1>4 DEF Good

\* The columns are an enumeration of the names.
LEMMA InOrderIs ==
  ASSUME NEW names \in SUBSET Attributes
  PROVE  /\ Range(InOrder(names)) = names /\ IsFiniteSet(names)
         /\ Cardinality(names) \in Nat
         /\ DOMAIN InOrder(names) = 1 .. Cardinality(names)
         /\ Len(InOrder(names)) = Cardinality(names)
<1> DEFINE n == Cardinality(names)  s == InOrder(names)
<1>1. names \in SUBSET Nat /\ IsFiniteSet(names)
  BY StatAssumption, FS_Subset
<1>2. n \in Nat
  BY <1>1, FS_CardinalityType
<1>3. \E f \in [1 .. n -> names] : \A i, j \in 1 .. n : i < j => f[i] < f[j]
  BY <1>1, <1>2, OrderExists
<1>4. s \in [1 .. n -> names] /\ \A i, j \in 1 .. n : i < j => s[i] < s[j]
  <2>1. s = CHOOSE f \in [1 .. n -> names] : \A i, j \in 1 .. n : i < j => f[i] < f[j]
    BY DEF InOrder
  <2> QED BY <1>3, <2>1
<1> HIDE DEF s, n
<1>5. \A i, j \in 1 .. n : s[i] = s[j] => i = j
  <2> TAKE i, j \in 1 .. n
  <2>1. s[i] \in Nat /\ s[j] \in Nat
    BY <1>1, <1>4
  <2>2. i < j \/ j < i \/ i = j
    BY <1>2
  <2> QED BY <1>4, <2>1, <2>2
<1>6. s \in Injection(1 .. n, names)
  BY <1>4, <1>5 DEF Injection, IsInjective
<1>7. Cardinality(1 .. n) = n
  <2>1. Cardinality(1 .. n) = IF 1 > n THEN 0 ELSE n - 1 + 1
    BY <1>2, FS_Interval
  <2> QED BY <1>2, <2>1
<1>8. s \in Surjection(1 .. n, names)
  BY <1>1, <1>6, <1>7, FS_Injection DEF n
<1>9. Range(s) = names
  <2>1. DOMAIN s = 1 .. n
    BY <1>4
  <2> QED BY <1>4, <1>8, <2>1 DEF Range, Surjection
<1>10. Len(s) = n
  BY <1>2, <1>4, Adds!FunctionLength
<1> QED BY <1>1, <1>2, <1>4, <1>9, <1>10 DEF s, n

\* Every attribute of the columns is still in the map.
StatIInv ==
  /\ StatKept
  /\ queries.parsed => \E names \in SUBSET DOMAIN stats : queries.columns = InOrder(names)

LEMMA StatInitIInv == StatInit => StatIInv
<1> SUFFICES ASSUME StatInit PROVE StatIInv
  OBVIOUS
<1> DEFINE n == Len(collector.fields)
<1>1. collector \in Collectors /\ collector.fields \in Seq(Attributes)
  BY StatAssumption DEF StatInit
<1>2. n \in Nat /\ DOMAIN collector.fields = 1 .. n
  BY <1>1, LenProperties
<1>3. PICK garbage \in [1 .. n -> Counters] :
        table = [instances |-> <<[i \in DOMAIN garbage |-> [value |-> garbage[i], stamp |-> 0]]>>,
                 clock |-> 1, taken |-> <<>>]
  BY <1>2 DEF StatInit
<1> HIDE DEF n
<1>4. table \in Buffers(n)
  <2> DEFINE C == [1 .. n -> Cell]
             first == [i \in 1 .. n |-> [value |-> garbage[i], stamp |-> 0]]
  <2>1. first \in C /\ \A i \in 1 .. n : first[i].stamp = 0
    BY FilesAreMaps DEF Cell
  <2>2. table = [instances |-> <<first>>, clock |-> 1, taken |-> <<>>]
    BY <1>3
  <2> HIDE DEF first, C
  <2>3. <<first>> \in Seq(C) /\ Len(<<first>>) = 1 /\ <<first>>[1] = first
    BY <2>1
  <2>4. table \in Tables(n)
    BY <2>2, <2>3 DEF Tables, C
  <2>5. Buffered(table, n)
    BY <2>1, <2>2, <2>3 DEF Buffered
  <2> QED BY <2>4, <2>5 DEF Buffers
<1>5. stats \in Maps
  <2>1. Range(collector.fields) \in SUBSET Attributes
    <3>1. \A i \in DOMAIN collector.fields : collector.fields[i] \in Attributes
      BY <1>1, LenProperties, ElementOfSeq
    <3> QED BY <3>1 DEF Range
  <2>2. \E names \in SUBSET Attributes : stats \in [names -> Nat]
    BY <2>1 DEF StatInit
  <2> QED BY <2>2, MapIs
<1>6. StatKept
  BY <1>1, <1>4, <1>5 DEF StatKept, n
<1>7. ~ queries.parsed
  BY DEF StatInit
<1> QED BY <1>6, <1>7 DEF StatIInv

LEMMA StatNextIInv == StatIInv /\ [StatNext]_statVars => StatIInv'
<1> SUFFICES ASSUME StatIInv, [StatNext]_statVars PROVE StatIInv'
  OBVIOUS
<1>0. StatKept
  BY DEF StatIInv
<1>1. CASE UNCHANGED statVars
  BY <1>1 DEF statVars, StatIInv, StatKept
<1>2. CASE StatNext
  <2>1. /\ collector' = collector /\ table' \in Buffers(Len(collector.fields))
        /\ stats' \in Maps /\ DOMAIN stats \subseteq DOMAIN stats'
    BY <1>0, <1>2, SamplersKeep
  <2>2. StatKept'
    BY <1>0, <2>1 DEF StatKept
  <2>3. queries'.parsed => \E names \in SUBSET DOMAIN stats' : queries'.columns = InOrder(names)
    <3>1. CASE UNCHANGED queries
      BY <2>1, <3>1 DEF StatIInv
    <3>2. CASE /\ UNCHANGED stats
               /\ queries' = [parsed |-> TRUE,
                              columns |-> IF queries.parsed THEN queries.columns ELSE Names]
      BY <3>2 DEF StatIInv, Names
    <3>3. UNCHANGED queries \/ insert_query \/ create_table_query
      BY <1>2 DEF StatNext, Collects, snmp4_collector, snmp6_collector, netdev_stats,
        sockstat64_collector, route_statistics, ndis_cache, arp_cache_stats, net_stats, wireless,
        arp_stats, putValuesFromStrings, Classify
    <3> QED BY <3>1, <3>2, <3>3 DEF insert_query, create_table_query
  <2> QED BY <2>1, <2>2, <2>3 DEF StatIInv
<1> QED BY <1>1, <1>2

LEMMA StatIInvAlways == StatSpec => []StatIInv
  BY StatInitIInv, StatNextIInv, PTL DEF StatSpec

(* What a table reports of the two latest samples is what the order of its buffers  *)
(* makes of them: whatever the class, its fields and the strings it is handed.      *)
THEOREM ReportsAreOfLastChange == StatSpec => []ChangeReported
<1>1. StatIInv => ChangeReported
  <2> SUFFICES ASSUME StatIInv, Len(table.taken) = 3 PROVE ChangeReported
    BY DEF ChangeReported
  <2> DEFINE n == Len(collector.fields)
             older == table.instances[1]  newer == table.instances[2]
             before == table.taken[2]  after == table.taken[3]
  <2>1. n \in Nat /\ DOMAIN collector.fields = 1 .. n /\ table \in Buffers(n)
    BY LenProperties DEF StatIInv, StatKept
  <2>2. /\ Len(table.instances) = 2 /\ table.instances \in Seq([1 .. n -> Cell])
        /\ \A i \in 1 .. n : newer[i].value = after[i] /\ older[i].value = before[i]
                             /\ older[i].stamp < newer[i].stamp
    <3>1. table \in Tables(n) /\ Buffered(table, n) /\ Len(table.taken) = 3
      BY <2>1 DEF Buffers
    <3>2. Len(table.instances) = 2 /\ table.instances \in Seq([1 .. n -> Cell])
      BY <3>1 DEF Buffered, Tables
    <3>3. \A i \in 1 .. n : older[i].value = before[i] /\ older[i].stamp < newer[i].stamp
      BY <3>1 DEF Buffered
    <3>4. \A i \in 1 .. n : newer[i].value = table.taken[Len(table.taken)][i]
      BY <3>1 DEF Buffered
    <3> QED BY <3>1, <3>2, <3>3, <3>4
  <2>3. older \in [1 .. n -> Cell] /\ newer \in [1 .. n -> Cell]
    <3>1. 1 \in 1 .. Len(table.instances) /\ 2 \in 1 .. Len(table.instances)
      BY <2>2
    <3> QED BY <2>2, <3>1, ElementOfSeq
  <2>4. collector.op \in {"FirstDeriv", "Less", "Changed"}
    BY StatAssumption DEF StatIInv, StatKept
  <2>5. get_normalized = [i \in 1 .. n |-> Operation(older[i], newer[i])]
    BY <2>1, <2>2 DEF get_normalized
  <2> HIDE DEF n, older, newer, before, after
  <2>6. \A i \in 1 .. n :
          Operation(older[i], newer[i])
            = CASE collector.op = "Less" -> before[i] - after[i]
                [] collector.op = "FirstDeriv" -> 0
                [] collector.op = "Changed" -> IF before[i] = after[i] THEN 0 ELSE 1
    <3> TAKE i \in 1 .. n
    <3>1. older[i].stamp - newer[i].stamp < 1
      BY <2>2, <2>3 DEF Cell
    <3> QED BY <2>2, <2>4, <3>1 DEF Operation, Less, FirstDeriv, Changed
  <2>7. get_normalized = [i \in 1 .. n |->
            CASE collector.op = "Less" -> before[i] - after[i]
              [] collector.op = "FirstDeriv" -> 0
              [] collector.op = "Changed" -> IF before[i] = after[i] THEN 0 ELSE 1]
    BY <2>5, <2>6
  <2> QED BY <2>1, <2>7 DEF ChangeReported, before, after
<1> QED BY <1>1, StatIInvAlways, PTL

(* However often the map has grown and queries have been made of it: an insert query *)
(* whose columns are those of the map pairs each with the value of its attribute.     *)
THEOREM RowsAreOfColumns == StatSpec => RowsOfColumns
<1> DEFINE Paired == row' # row /\ Range(row'.columns) = DOMAIN stats =>
             row'.values = [i \in DOMAIN row'.columns |-> stats[row'.columns[i]]]
<1>1. StatIInv /\ [StatNext]_statVars => [Paired]_statVars
  <2> SUFFICES ASSUME StatIInv, [StatNext]_statVars, row' # row, Range(row'.columns) = DOMAIN stats
               PROVE  row'.values = [i \in DOMAIN row'.columns |-> stats[row'.columns[i]]]
    OBVIOUS
  <2>1. insert_query
    BY DEF StatNext, statVars, Collects, snmp4_collector, snmp6_collector, netdev_stats,
      sockstat64_collector, route_statistics, ndis_cache, arp_cache_stats, net_stats, wireless,
      arp_stats, putValuesFromStrings, Classify, create_table_query
  <2>2. /\ row'.columns = (IF queries.parsed THEN queries.columns ELSE Names)
        /\ row'.values = [i \in DOMAIN Names |-> stats[Names[i]]]
    BY <2>1 DEF insert_query
  <2>3. DOMAIN stats \in SUBSET Attributes
    BY MapIs DEF StatIInv, StatKept
  <2>4. PICK names \in SUBSET DOMAIN stats : row'.columns = InOrder(names)
    BY <2>2 DEF StatIInv, Names
  <2>5. Range(row'.columns) = names
    BY <2>3, <2>4, InOrderIs
  <2>6. row'.columns = Names
    BY <2>4, <2>5 DEF Names
  <2> QED BY <2>2, <2>6
<1> QED BY <1>1, StatIInvAlways, PTL DEF StatSpec, RowsOfColumns
=============================================================================
