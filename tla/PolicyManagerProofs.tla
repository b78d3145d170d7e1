------------------------ MODULE PolicyManagerProofs ------------------------
(***************************************************************************)
(* Machine-checked proofs about PolicyManager, for any number of clients,  *)
(* runners, policies and visitors.                                         *)
(***************************************************************************)
EXTENDS PolicyManager, FiniteSetTheorems, SequenceTheorems, TLAPS

Threads ==
  /\ running \in BOOLEAN
  /\ m \in Client \cup Runner \cup {Free}
  /\ pc \in [Runner -> {"none", "test", "lock", "wait", "notified", "pass", "exited"}]

\* A live runner is the one stop would join; it lives as long as _running is
\* set, and afterwards only while stop waits for it; the mutex belongs to the
\* runner exactly during a pass, and to a client as long as a runner is notified.
RunnerInv ==
  /\ Live \subseteq {t}
  /\ running => t \in Live /\ m \notin Client
  /\ ~running /\ m \notin Client => Live = {}
  /\ \A r \in Runner : pc[r] = "pass" <=> m = r
  /\ \A r \in Runner : pc[r] = "notified" => m \in Client

IInv == Threads /\ RunnerInv

----------------------------------------------------------------------------
LEMMA InitInvariant == Init => IInv
  BY ConstantsAssumption DEF Init, IInv, Threads, RunnerInv, Live

(* Steps of the application that leave the threads alone.                  *)
LEMMA RegistryInvariant ==
  ASSUME IInv, UNCHANGED <<running, m, t, pc>>
  PROVE  IInv'
  BY DEF IInv, Threads, RunnerInv, Live

LEMMA StartStopInvariant ==
  ASSUME IInv,
         \/ \E r \in Runner : start(r)
         \/ \E c \in Client : StopBegin(c) \/ StopJoin(c)
  PROVE  IInv'
<1>1. CASE \E r \in Runner : start(r)
  <2>1. PICK r \in Runner : start(r)
    BY <1>1
  <2>2. Live = {} /\ m = Free /\ Free \notin Client
    BY <2>1, ConstantsAssumption DEF IInv, RunnerInv, start
  <2>3. Live' = {r}
    BY <2>1, <2>2 DEF IInv, Threads, start, Live
  <2> QED BY <2>1, <2>2, <2>3, ConstantsAssumption DEF IInv, Threads, RunnerInv, start
<1>2. CASE \E c \in Client : StopBegin(c)
  <2>1. PICK c \in Client : StopBegin(c)
    BY <1>2
  <2>2. Live' = Live
    BY <2>1 DEF IInv, Threads, StopBegin, Live
  <2> QED BY <2>1, <2>2, ConstantsAssumption DEF IInv, Threads, RunnerInv, StopBegin
<1>3. CASE \E c \in Client : StopJoin(c)
  <2>1. PICK c \in Client : StopJoin(c)
    BY <1>3
  <2>2. ~running /\ Live = {} /\ Live' = Live
    BY <2>1 DEF IInv, Threads, RunnerInv, StopJoin, Live
  <2>3. \A r \in Runner : pc[r] # "notified"
    BY <2>2 DEF Live
  <2> QED BY <2>1, <2>2, <2>3, ConstantsAssumption DEF IInv, Threads, RunnerInv, StopJoin
<1> QED BY <1>1, <1>2, <1>3

LEMMA RunnerStepInvariant ==
  ASSUME IInv, NEW r \in Runner, Wake(r) \/ Run(r)
  PROVE  IInv'
<1>1. r \in Live /\ t = r /\ pc[r] \notin {"none", "exited"}
  BY DEF IInv, RunnerInv, Live, Wake, Run, LoopTest, Sleep, Visit, NextPolicy,
         NextResource, EndPass
<1>2. CASE LoopTest(r)
  <2>1. Live' = (IF running THEN Live ELSE {})
    BY <1>1, <1>2 DEF IInv, Threads, RunnerInv, Live, LoopTest
  <2> QED BY <1>1, <1>2, <2>1 DEF IInv, Threads, RunnerInv, LoopTest
<1>3. CASE Sleep(r)
  <2>1. Live' = Live
    BY <1>1, <1>3 DEF IInv, Threads, Live, Sleep
  <2> QED BY <1>1, <1>3, <2>1, ConstantsAssumption DEF IInv, Threads, RunnerInv, Sleep
<1>4. CASE Wake(r)
  <2>1. Live' = Live
    BY <1>1, <1>4 DEF IInv, Threads, Live, Wake
  <2> QED BY <1>1, <1>4, <2>1, ConstantsAssumption DEF IInv, Threads, RunnerInv, Wake
<1>5. CASE EndPass(r)
  <2>1. Live' = Live
    BY <1>1, <1>5 DEF IInv, Threads, Live, EndPass
  <2> QED BY <1>1, <1>5, <2>1, ConstantsAssumption DEF IInv, Threads, RunnerInv, EndPass
<1>6. CASE Visit(r) \/ NextPolicy(r) \/ NextResource(r)
  BY <1>6, RegistryInvariant DEF Visit, NextPolicy, NextResource
<1> QED BY <1>2, <1>3, <1>4, <1>5, <1>6 DEF Run

LEMMA NextInvariant == IInv /\ [Next]_vars => IInv'
<1> SUFFICES ASSUME IInv, [Next]_vars PROVE IInv'
  OBVIOUS
<1>1. CASE UNCHANGED vars
  BY <1>1, RegistryInvariant DEF vars
<1>2. CASE \E v \in Visitor : register_policy_visitor(v)
  BY <1>2, RegistryInvariant DEF register_policy_visitor
<1>3. CASE \E p \in Policy : Release(p) \/ register_policy(p) \/ unregister_policy(p)
  BY <1>3, RegistryInvariant DEF Release, register_policy, unregister_policy
<1>4. CASE \E p \in Policy, a \in Action : set_actions(p, <<a>>)
  BY <1>4, RegistryInvariant DEF set_actions
<1>5. CASE \E c \in Client : StopBegin(c) \/ StopJoin(c)
  BY <1>5, StartStopInvariant
<1>6. CASE \E r \in Runner : start(r)
  BY <1>6, StartStopInvariant
<1>7. CASE \E r \in Runner : Wake(r) \/ Run(r)
  BY <1>7, RunnerStepInvariant
<1> QED BY <1>1, <1>2, <1>3, <1>4, <1>5, <1>6, <1>7 DEF Next

LEMMA Invariance == Spec => []IInv
  BY InitInvariant, NextInvariant, PTL DEF Spec

----------------------------------------------------------------------------
\* start and stop never leave two runner threads behind, nor a manager that
\* says it is running without one, although run reads _running unlocked.
THEOREM AlwaysOneRunner == Spec => []OneRunner
<1>1. IInv => OneRunner
  BY DEF IInv, RunnerInv, OneRunner
<1> QED BY <1>1, Invariance, PTL

\* No client changes the vector of policies while run walks over it.
THEOREM PassesAreIsolated == Spec => PassIsolated
<1>1. IInv /\ [Next]_vars => [InPass /\ InPass' => policies' = policies]_vars
  <2> SUFFICES ASSUME IInv, Next, InPass PROVE policies' = policies
    OBVIOUS
  <2>1. m # Free
    BY ConstantsAssumption DEF IInv, RunnerInv, InPass
  <2> QED BY <2>1 DEF Next, register_policy_visitor, Release, register_policy,
        unregister_policy, set_actions, StopBegin, StopJoin, start, Wake, Run, LoopTest,
        Sleep, Visit, NextPolicy, NextResource, EndPass, registry
<1> QED BY <1>1, Invariance, PTL DEF Spec, PassIsolated

\* Once stop joins a runner that is past the test of _running, nothing that
\* any thread can do lets stop return.
THEOREM StuckStopNeverReturns == Spec => StuckForever
<1>1. IInv /\ [Next]_vars => [Stuck => Stuck']_vars
  <2> SUFFICES ASSUME IInv, Next, Stuck PROVE Stuck'
    OBVIOUS
  <2>1. m \in Client /\ m # Free /\ pc[t] \in {"lock", "wait", "notified"}
    BY ConstantsAssumption DEF Stuck
  <2>2. ~ InPass
    BY <2>1, ConstantsAssumption DEF IInv, RunnerInv, InPass
  <2>3. CASE UNCHANGED <<m, t, pc>>
    BY <2>1, <2>3 DEF Stuck
  <2>4. CASE \E r \in Runner : LoopTest(r)
    BY <2>1, <2>4 DEF LoopTest, Stuck, IInv, Threads
  <2> QED BY <2>1, <2>2, <2>3, <2>4 DEF Next, register_policy_visitor, Release,
        register_policy, unregister_policy, set_actions, StopBegin, StopJoin, start,
        Wake, Run, Sleep, Visit, NextPolicy, NextResource, EndPass, InPass
<1> QED BY <1>1, Invariance, PTL DEF Spec, StuckForever

\* The notification in stop starts no pass: whoever it wakes stays where it is,
\* for stop keeps the mutex.
THEOREM NotifiedNeverPasses == Spec => NotifyStartsNoPass
<1>1. IInv /\ [Next]_vars
        => [\A r \in Runner : pc[r] = "notified" => pc'[r] = "notified"]_vars
  <2> SUFFICES ASSUME IInv, Next, NEW r \in Runner, pc[r] = "notified"
               PROVE  pc'[r] = "notified"
    OBVIOUS
  <2>1. m \in Client /\ m # Free /\ r = t
    BY ConstantsAssumption DEF IInv, RunnerInv, Live
  <2>2. \A q \in Runner : pc[q] \notin {"none", "exited"} => q = r
    BY <2>1 DEF IInv, RunnerInv, Live
  <2>3. CASE pc' = pc
    BY <2>3
  <2>4. CASE \E q \in Runner : LoopTest(q)
    BY <2>2, <2>4 DEF LoopTest
  <2>5. CASE \E q \in Runner : EndPass(q)
    BY <2>2, <2>5 DEF EndPass
  <2> QED BY <2>1, <2>3, <2>4, <2>5 DEF Next, register_policy_visitor, Release,
        register_policy, unregister_policy, set_actions, StopBegin, StopJoin, start,
        Wake, Run, Sleep, Visit, NextPolicy, NextResource
<1> QED BY <1>1, Invariance, PTL DEF Spec, NotifyStartsNoPass

----------------------------------------------------------------------------
(* The vectors: types, and the life of the visitors.                       *)
LEMMA ToSetAppend ==
  ASSUME NEW S, NEW s \in Seq(S), NEW e \in S
  PROVE  ToSet(Append(s, e)) = ToSet(s) \cup {e}
<1>1. /\ Append(s, e) \in Seq(S) /\ Len(Append(s, e)) = Len(s) + 1 /\ Len(s) \in Nat
      /\ \A n \in 1..Len(s) : Append(s, e)[n] = s[n]
      /\ Append(s, e)[Len(s) + 1] = e
  BY AppendProperties, LenProperties
<1>2. DOMAIN Append(s, e) = 1..(Len(s) + 1) /\ DOMAIN s = 1..Len(s)
  BY <1>1, LenProperties
<1>3. 1..(Len(s) + 1) = 1..Len(s) \cup {Len(s) + 1}
  BY <1>1
<1> QED BY <1>1, <1>2, <1>3 DEF ToSet

LEMMA ToSetTail ==
  ASSUME NEW S, NEW s \in Seq(S), s # <<>>
  PROVE  Tail(s) \in Seq(S) /\ Head(s) \in S /\ ToSet(Tail(s)) \subseteq ToSet(s)
<1>1. /\ Head(s) \in S /\ Tail(s) \in Seq(S) /\ Len(Tail(s)) = Len(s) - 1
      /\ \A n \in 1..Len(Tail(s)) : Tail(s)[n] = s[n + 1]
  BY HeadTailProperties
<1>2. DOMAIN s = 1..Len(s) /\ DOMAIN Tail(s) = 1..Len(Tail(s)) /\ Len(s) \in Nat
  BY <1>1, LenProperties
<1>3. \A n \in 1..Len(Tail(s)) : n + 1 \in 1..Len(s)
  BY <1>1, <1>2
<1> QED BY <1>1, <1>2, <1>3 DEF ToSet

LEMMA ToSetRemoveAt ==
  ASSUME NEW S, NEW s \in Seq(S), NEW k \in 1..Len(s)
  PROVE  RemoveAt(s, k) \in Seq(S) /\ ToSet(RemoveAt(s, k)) \subseteq ToSet(s)
<1> DEFINE front == SubSeq(s, 1, k - 1)
           back == SubSeq(s, k + 1, Len(s))
<1>1. /\ Len(s) \in Nat /\ DOMAIN s = 1..Len(s) /\ \A n \in 1..Len(s) : s[n] \in S
      /\ k \in Nat /\ 1 <= k /\ k <= Len(s)
  BY LenProperties, ElementOfSeq
<1>2. /\ front \in Seq(S) /\ Len(front) = k - 1
      /\ \A n \in 1..(k - 1) : front[n] = s[n]
  <2>1. 1 \in Int /\ k - 1 \in Int /\ \A n \in 1..(k - 1) : s[n] \in S
    BY <1>1
  <2>2. /\ front \in Seq(S) /\ Len(front) = IF 1 <= k - 1 THEN k - 1 - 1 + 1 ELSE 0
        /\ \A n \in 1..(k - 1 - 1 + 1) : front[n] = s[1 + n - 1]
    BY <2>1, SubSeqProperties
  <2> QED BY <1>1, <2>2
<1>3. /\ back \in Seq(S) /\ Len(back) = Len(s) - k
      /\ \A n \in 1..(Len(s) - k) : back[n] = s[k + n]
  <2>1. k + 1 \in Int /\ Len(s) \in Int /\ \A n \in (k + 1)..Len(s) : s[n] \in S
    BY <1>1
  <2>2. /\ back \in Seq(S)
        /\ Len(back) = IF k + 1 <= Len(s) THEN Len(s) - (k + 1) + 1 ELSE 0
        /\ \A n \in 1..(Len(s) - (k + 1) + 1) : back[n] = s[k + 1 + n - 1]
    BY <2>1, SubSeqProperties
  <2>3. /\ (IF k + 1 <= Len(s) THEN Len(s) - (k + 1) + 1 ELSE 0) = Len(s) - k
        /\ Len(s) - (k + 1) + 1 = Len(s) - k
        /\ \A n \in 1..(Len(s) - k) : k + 1 + n - 1 = k + n
    <3>1. \A l, j \in Nat : j <= l =>
            /\ (IF j + 1 <= l THEN l - (j + 1) + 1 ELSE 0) = l - j
            /\ l - (j + 1) + 1 = l - j
            /\ \A n \in 1..(l - j) : j + 1 + n - 1 = j + n
      OBVIOUS
    <3> QED BY ONLY <1>1, <3>1
  <2> HIDE DEF back
  <2> QED BY <2>2, <2>3
<1> HIDE DEF front, back
<1>4. /\ front \o back \in Seq(S) /\ Len(front \o back) = Len(s) - 1
      /\ \A n \in 1..(Len(s) - 1) :
           (front \o back)[n] = IF n <= k - 1 THEN front[n] ELSE back[n - (k - 1)]
  <2>1. /\ front \o back \in Seq(S) /\ Len(front \o back) = Len(front) + Len(back)
        /\ \A n \in 1..(Len(front) + Len(back)) :
             (front \o back)[n] = IF n <= Len(front) THEN front[n] ELSE back[n - Len(front)]
    BY <1>2, <1>3, ConcatProperties
  <2>2. Len(front) = k - 1 /\ Len(front) + Len(back) = Len(s) - 1
    BY <1>1, <1>2, <1>3
  <2> QED BY <2>1, <2>2
<1>5. ASSUME NEW n \in 1..(Len(s) - 1) PROVE \E j \in 1..Len(s) : (front \o back)[n] = s[j]
  <2>1. CASE n <= k - 1
    BY <1>1, <1>2, <1>4, <2>1
  <2>2. CASE ~(n <= k - 1)
    <3>1. n - (k - 1) \in 1..(Len(s) - k) /\ n + 1 \in 1..Len(s)
      BY <1>1, <2>2
    <3>2. (front \o back)[n] = s[n + 1]
      <4>1. back[n - (k - 1)] = s[k + (n - (k - 1))] /\ k + (n - (k - 1)) = n + 1
        BY <1>1, <1>3, <3>1
      <4> QED BY <1>1, <1>4, <2>2, <4>1
    <3> QED BY <3>1, <3>2
  <2> QED BY <1>1, <2>1, <2>2
<1>6. RemoveAt(s, k) = front \o back
  BY DEF RemoveAt, front, back
<1>7. DOMAIN (front \o back) = 1..(Len(s) - 1)
  BY <1>4, LenProperties
<1>8. ASSUME NEW x \in ToSet(front \o back) PROVE x \in ToSet(s)
  <2>1. PICK n \in 1..(Len(s) - 1) : x = (front \o back)[n]
    BY <1>7 DEF ToSet
  <2>2. PICK j \in 1..Len(s) : x = s[j]
    BY <1>5, <2>1
  <2> QED BY <1>1, <2>2 DEF ToSet
<1> QED BY <1>4, <1>6, <1>8

----------------------------------------------------------------------------
\* The resource the runner is about to look up is one of a registered policy.
LEMMA CurrentVector ==
  ASSUME TypeOK, InPass, cur[2] < Len(CurrentResources)
  PROVE  /\ policies[cur[1]] \in Policy /\ policies[cur[1]] \in ToSet(policies)
         /\ CurrentResources[cur[2] + 1] \in Resource
<1>1. /\ cur[1] \in Nat /\ cur[2] \in Nat /\ cur[1] <= Len(policies)
      /\ policies \in Seq(Policy) /\ Len(policies) \in Nat
  BY LenProperties DEF TypeOK
<1>2. cur[1] # 0
  <2>1. cur[1] = 0 => Len(CurrentResources) = 0
    BY EmptySeq DEF CurrentResources
  <2> QED BY <1>1, <2>1
<1>3. cur[1] \in 1..Len(policies)
  BY <1>1, <1>2
<1>4. policies[cur[1]] \in Policy /\ policies[cur[1]] \in ToSet(policies)
  BY <1>1, <1>3, ElementOfSeq, LenProperties DEF ToSet
<1>5. CurrentResources \in Seq(Resource) /\ Len(CurrentResources) \in Nat
  BY <1>2, <1>4, ConstantsAssumption, LenProperties DEF CurrentResources
<1>6. cur[2] + 1 \in 1..Len(CurrentResources)
  BY <1>1, <1>5
<1> QED BY <1>4, <1>5, <1>6, ElementOfSeq

LEMMA InitTypes == Init => TypeOK
<1> SUFFICES ASSUME Init PROVE TypeOK
  OBVIOUS
<1>1. /\ policies \in Seq(Policy) /\ todo \in Seq(Visitor) /\ visits \in Seq(Visitor)
      /\ visitors \in [Policy -> [Resource -> Seq(Visitor)]]
      /\ actions \in [Policy -> Seq(Action)]
  BY EmptySeq, ConstantsAssumption DEF Init
<1>2. running \in BOOLEAN /\ crashed \in BOOLEAN
  BY DEF Init
<1>3. /\ held \subseteq Policy /\ deleted \subseteq Visitor /\ late \subseteq Visitor
      /\ m \in Client \cup Runner \cup {Free} /\ t \in Runner \cup {Free}
      /\ pc \in [Runner -> {"none", "test", "lock", "wait", "notified", "pass", "exited"}]
      /\ cur \in Nat \X Nat /\ ~InPass
  BY DEF Init, InPass
<1> QED BY <1>1, <1>2, <1>3 DEF TypeOK

\* Clients change the registry between passes only.
LEMMA RegistryTypes ==
  ASSUME IInv, TypeOK,
         \/ \E p \in Policy : Release(p) \/ register_policy(p) \/ unregister_policy(p)
         \/ \E p \in Policy, a \in Action : set_actions(p, <<a>>)
         \/ \E v \in Visitor : register_policy_visitor(v)
  PROVE  TypeOK'
<1>1. CASE \E p \in Policy : Release(p)
  <2>1. PICK p \in Policy : Release(p)
    BY <1>1
  <2>2. \A s \in Resource : ToSet(visitors[p][s]) \subseteq Visitor
    BY ElementOfSeq, LenProperties DEF TypeOK, ToSet
  <2>3. held' \subseteq Policy /\ deleted' \subseteq Visitor
    BY <2>1, <2>2 DEF Release, TypeOK
  <2> QED BY <2>1, <2>3 DEF Release, TypeOK, pass, InPass
<1>2. CASE \E p \in Policy : register_policy(p) \/ unregister_policy(p)
  <2>1. PICK p \in Policy : register_policy(p) \/ unregister_policy(p)
    BY <1>2
  <2>2. ~InPass'
    BY <2>1, ConstantsAssumption
    DEF register_policy, unregister_policy, IInv, RunnerInv, InPass
  <2>3. policies' \in Seq(Policy)
    <3>1. CASE register_policy(p)
      BY <3>1, AppendProperties DEF register_policy, TypeOK
    <3>2. CASE unregister_policy(p)
      BY <3>2, ToSetRemoveAt, LenProperties DEF unregister_policy, TypeOK
    <3> QED BY <2>1, <3>1, <3>2
  <2> QED BY <2>1, <2>2, <2>3 DEF register_policy, unregister_policy, TypeOK, pass
<1>3. CASE \E p \in Policy, a \in Action : set_actions(p, <<a>>)
  <2>1. PICK p \in Policy, a \in Action : set_actions(p, <<a>>)
    BY <1>3
  <2>2. <<a>> \in Seq(Action)
    OBVIOUS
  <2>3. actions' \in [Policy -> Seq(Action)]
    BY <2>1, <2>2 DEF set_actions, TypeOK
  <2> QED BY <2>1, <2>3 DEF set_actions, TypeOK, pass, InPass
<1>4. CASE \E v \in Visitor : register_policy_visitor(v)
  <2>1. PICK v \in Visitor : register_policy_visitor(v)
    BY <1>4
  <2>2. Owner[v][1] \in Policy /\ Owner[v][2] \in Resource
    BY ConstantsAssumption
  <2>3. Append(visitors[Owner[v][1]][Owner[v][2]], v) \in Seq(Visitor)
    BY <2>2, AppendProperties DEF TypeOK
  <2>4. visitors' \in [Policy -> [Resource -> Seq(Visitor)]]
    BY <2>1, <2>2, <2>3 DEF register_policy_visitor, TypeOK
  <2>5. late' \subseteq Visitor
    BY <2>1 DEF register_policy_visitor, TypeOK
  <2>6. crashed' \in BOOLEAN
    BY <2>1 DEF register_policy_visitor
  <2> QED BY <2>1, <2>4, <2>5, <2>6 DEF register_policy_visitor, TypeOK, InPass
<1> QED BY <1>1, <1>2, <1>3, <1>4

LEMMA RunnerTypes ==
  ASSUME IInv, TypeOK, NEW r \in Runner, Wake(r) \/ Run(r)
  PROVE  TypeOK'
<1>1. CASE LoopTest(r)
  BY <1>1 DEF LoopTest, TypeOK, registry, pass, InPass
<1>2. CASE Sleep(r)
  BY <1>2 DEF Sleep, TypeOK, registry, pass, InPass
<1>3. CASE Wake(r)
  <2>1. cur' \in Nat \X Nat /\ cur'[1] <= Len(policies)
    BY <1>3, LenProperties DEF Wake, TypeOK
  <2>2. todo' \in Seq(Visitor) /\ visits' \in Seq(Visitor) /\ late' \subseteq Visitor
    BY <1>3, EmptySeq DEF Wake
  <2> QED BY <1>3, <2>1, <2>2 DEF Wake, TypeOK, registry
<1>4. CASE Visit(r)
  <2>1. todo' \in Seq(Visitor) /\ Head(todo) \in Visitor
    BY <1>4, ToSetTail DEF Visit, TypeOK
  <2>2. visits' \in Seq(Visitor)
    BY <1>4, <2>1, AppendProperties DEF Visit, TypeOK
  <2> QED BY <1>4, <2>1, <2>2 DEF Visit, TypeOK, registry, InPass
<1>5. CASE NextPolicy(r)
  <2>1. cur' \in Nat \X Nat /\ cur'[1] <= Len(policies)
    BY <1>5, LenProperties DEF NextPolicy, TypeOK
  <2> QED BY <1>5, <2>1 DEF NextPolicy, TypeOK, registry, InPass
<1>6. CASE NextResource(r)
  <2>1. InPass /\ cur[2] < Len(CurrentResources)
    BY <1>6 DEF NextResource, InPass
  <2>2. todo' \in Seq(Visitor)
    BY <1>6, <2>1, CurrentVector DEF NextResource, TypeOK
  <2>3. cur' \in Nat \X Nat /\ cur'[1] = cur[1]
    BY <1>6 DEF NextResource, TypeOK
  <2> QED BY <1>6, <2>1, <2>2, <2>3 DEF NextResource, TypeOK, registry
<1>7. CASE EndPass(r)
  BY <1>7 DEF EndPass, TypeOK, registry, pass, InPass
<1> QED BY <1>1, <1>2, <1>3, <1>4, <1>5, <1>6, <1>7 DEF Run

LEMMA NextTypes == IInv /\ TypeOK /\ [Next]_vars => TypeOK'
<1> SUFFICES ASSUME IInv, TypeOK, [Next]_vars PROVE TypeOK'
  OBVIOUS
<1>1. CASE UNCHANGED vars
  BY <1>1 DEF vars, registry, pass, TypeOK, InPass
<1>2. CASE \E r \in Runner : Wake(r) \/ Run(r)
  BY <1>2, RunnerTypes
<1>3. CASE \E r \in Runner : start(r)
  BY <1>3 DEF start, TypeOK, registry, pass, InPass
<1>4. CASE \E c \in Client : StopBegin(c) \/ StopJoin(c)
  BY <1>4 DEF StopBegin, StopJoin, TypeOK, registry, pass, InPass
<1> QED BY <1>1, <1>2, <1>3, <1>4, RegistryTypes DEF Next

\* Whatever clients and the runner do, the position of the runner stays inside
\* the vector of policies and everything else in its range.
THEOREM TypeCorrect == Spec => []TypeOK
  BY InitTypes, NextTypes, Invariance, PTL DEF Spec

----------------------------------------------------------------------------
(* The life of the visitors.                                               *)

\* Visitors are kept with the policy they are made for.
OwnerInv ==
  \A p \in Policy, s \in Resource : \A v \in ToSet(visitors[p][s]) : Owner[v] = <<p, s>>

\* A policy somebody holds or that is registered has not deleted its visitors.
AliveInv ==
  \A p \in Policy : p \in held \/ p \in ToSet(policies) =>
    \A s \in Resource : ToSet(visitors[p][s]) \cap deleted = {}

\* The visitors left in a pass are those of one registered policy.
TodoInv ==
  InPass => \/ todo = <<>>
            \/ \E p \in Policy, s \in Resource :
                 p \in ToSet(policies) /\ ToSet(todo) \subseteq ToSet(visitors[p][s])

VInv == IInv /\ TypeOK /\ OwnerInv /\ AliveInv /\ TodoInv

LEMMA ToSetEmpty == ToSet(<<>>) = {}
  BY DEF ToSet

LEMMA InitVisitors == Init => VInv
<1> SUFFICES ASSUME Init PROVE VInv
  OBVIOUS
<1>1. \A p \in Policy, s \in Resource : ToSet(visitors[p][s]) = {}
  BY ToSetEmpty DEF Init
<1>2. OwnerInv /\ AliveInv
  BY <1>1 DEF OwnerInv, AliveInv
<1>3. TodoInv
  BY DEF Init, TodoInv
<1> QED BY <1>2, <1>3, InitInvariant, InitTypes DEF VInv

\* Nothing about the visitors changes.
LEMMA VisitorsUnchanged ==
  ASSUME VInv, IInv', TypeOK', UNCHANGED <<policies, held, visitors, deleted>>,
         InPass' => todo' = <<>> \/ (InPass /\ todo' = todo)
  PROVE  VInv'
  BY DEF VInv, OwnerInv, AliveInv, TodoInv

LEMMA ReleaseVisitors ==
  ASSUME VInv, IInv', TypeOK', NEW p \in Policy, Release(p)
  PROVE  VInv'
<1> USE DEF VInv
<1>1. UNCHANGED <<policies, visitors, todo, pc>> /\ held' = held \ {p}
  BY DEF Release, pass
<1>2. OwnerInv' /\ TodoInv'
  BY <1>1 DEF OwnerInv, TodoInv, InPass
<1>3. AliveInv'
  <2>1. CASE deleted' = deleted
    BY <1>1, <2>1 DEF AliveInv
  <2>2. CASE deleted' # deleted
    <3>1. /\ p \notin ToSet(policies)
          /\ deleted' = deleted \cup UNION {ToSet(visitors[p][s]) : s \in Resource}
      BY <2>2, LenProperties DEF Release, Contains, ToSet, TypeOK
    <3>2. ASSUME NEW q \in Policy, q # p, NEW s \in Resource, NEW v \in ToSet(visitors[q][s])
          PROVE  v \notin UNION {ToSet(visitors[p][u]) : u \in Resource}
      BY <3>2 DEF OwnerInv
    <3>3. ASSUME NEW q \in Policy, q \in held' \/ q \in ToSet(policies'), NEW s \in Resource
          PROVE  ToSet(visitors'[q][s]) \cap deleted' = {}
      <4>1. q # p /\ (q \in held \/ q \in ToSet(policies))
        BY <1>1, <3>1, <3>3
      <4> QED BY <1>1, <3>1, <3>2, <4>1 DEF AliveInv
    <3> QED BY <3>3 DEF AliveInv
  <2> QED BY <2>1, <2>2
<1> QED BY <1>2, <1>3

LEMMA RegisterVisitors ==
  ASSUME VInv, IInv', TypeOK', NEW p \in Policy, register_policy(p) \/ unregister_policy(p)
  PROVE  VInv'
<1> USE DEF VInv
<1>1. UNCHANGED <<held, visitors, deleted, pc>> /\ m = Free /\ p \in held
  BY DEF register_policy, unregister_policy
<1>2. ToSet(policies') \subseteq ToSet(policies) \cup {p}
  <2>1. CASE register_policy(p)
    BY <2>1, ToSetAppend DEF register_policy, TypeOK
  <2>2. CASE unregister_policy(p)
    <3>1. policies \in Seq(Policy)
      BY DEF TypeOK
    <3>2. PICK n \in 1..Len(policies) : policies' = RemoveAt(policies, n)
      BY <2>2, <3>1, LenProperties DEF unregister_policy
    <3>3. ToSet(RemoveAt(policies, n)) \subseteq ToSet(policies)
      BY <3>1, ToSetRemoveAt
    <3> QED BY <3>2, <3>3
  <2> QED BY <2>1, <2>2
<1>3. ~InPass'
  BY <1>1, ConstantsAssumption DEF IInv, RunnerInv, InPass
<1>4. OwnerInv' /\ AliveInv' /\ TodoInv'
  BY <1>1, <1>2, <1>3 DEF OwnerInv, AliveInv, TodoInv
<1> QED BY <1>4

LEMMA NewVisitor ==
  ASSUME VInv, IInv', TypeOK', NEW v \in Visitor, register_policy_visitor(v)
  PROVE  VInv'
<1> USE DEF VInv
<1> DEFINE p == Owner[v][1]
           s == Owner[v][2]
<1>1. /\ p \in Policy /\ s \in Resource /\ Owner[v] = <<p, s>>
      /\ p \in held /\ v \notin deleted
      /\ UNCHANGED <<policies, held, deleted, pc, todo>>
  BY ConstantsAssumption DEF register_policy_visitor
<1>2. \A q \in Policy, u \in Resource :
        /\ ToSet(visitors[q][u]) \subseteq ToSet(visitors'[q][u])
        /\ ToSet(visitors'[q][u]) \subseteq ToSet(visitors[q][u]) \cup {v}
        /\ <<q, u>> # <<p, s>> => visitors'[q][u] = visitors[q][u]
  <2>1. ToSet(Append(visitors[p][s], v)) = ToSet(visitors[p][s]) \cup {v}
    BY <1>1, ToSetAppend DEF TypeOK
  <2>2. CASE visitors' = visitors
    BY <2>2
  <2>3. CASE visitors' = [visitors EXCEPT ![p][s] = Append(@, v)]
    BY <1>1, <2>1, <2>3 DEF TypeOK
  <2> QED BY <2>2, <2>3 DEF register_policy_visitor
<1> HIDE DEF p, s
<1>3. OwnerInv'
  BY <1>1, <1>2 DEF OwnerInv
<1>4. AliveInv'
  BY <1>1, <1>2 DEF AliveInv
<1>5. TodoInv'
  BY <1>1, <1>2 DEF TodoInv, InPass
<1> QED BY <1>3, <1>4, <1>5

LEMMA RunnerVisitors ==
  ASSUME VInv, IInv', TypeOK', NEW r \in Runner, Wake(r) \/ Run(r)
  PROVE  VInv'
<1>1. UNCHANGED <<policies, held, visitors, deleted>>
  BY DEF Wake, Run, LoopTest, Sleep, Visit, NextPolicy, NextResource, EndPass, registry
<1>2. CASE LoopTest(r) \/ Sleep(r) \/ EndPass(r) \/ NextPolicy(r)
  <2>1. todo' = todo /\ (InPass' => InPass)
    BY <1>2 DEF LoopTest, Sleep, EndPass, NextPolicy, pass, InPass, VInv, TypeOK
  <2> QED BY <1>1, <2>1, VisitorsUnchanged
<1>3. CASE Wake(r)
  BY <1>1, <1>3, VisitorsUnchanged DEF Wake
<1>4. CASE Visit(r)
  <2>1. InPass /\ todo # <<>> /\ todo \in Seq(Visitor)
    BY <1>4 DEF Visit, InPass, VInv, TypeOK
  <2>2. ToSet(todo') \subseteq ToSet(todo)
    BY <1>4, <2>1, ToSetTail DEF Visit
  <2> QED BY <1>1, <2>1, <2>2 DEF VInv, OwnerInv, AliveInv, TodoInv
<1>5. CASE NextResource(r)
  <2>1. /\ InPass /\ cur[2] < Len(CurrentResources) /\ TypeOK
        /\ todo' = visitors[policies[cur[1]]][CurrentResources[cur[2] + 1]]
    BY <1>5 DEF NextResource, InPass, VInv
  <2>2. TodoInv'
    BY <1>1, <2>1, CurrentVector DEF TodoInv
  <2> QED BY <1>1, <2>2 DEF VInv, OwnerInv, AliveInv
<1> QED BY <1>2, <1>3, <1>4, <1>5 DEF Run

LEMMA NextVisitors == VInv /\ [Next]_vars => VInv'
<1> SUFFICES ASSUME VInv, [Next]_vars PROVE VInv'
  OBVIOUS
<1>1. IInv' /\ TypeOK'
  BY NextInvariant, NextTypes DEF VInv
<1>2. CASE UNCHANGED vars
  BY <1>1, <1>2, VisitorsUnchanged DEF vars, registry, pass, InPass
<1>3. CASE \E p \in Policy : Release(p)
  BY <1>1, <1>3, ReleaseVisitors
<1>4. CASE \E p \in Policy : register_policy(p) \/ unregister_policy(p)
  BY <1>1, <1>4, RegisterVisitors
<1>5. CASE \E v \in Visitor : register_policy_visitor(v)
  BY <1>1, <1>5, NewVisitor
<1>6. CASE \E p \in Policy, a \in Action : set_actions(p, <<a>>)
  BY <1>1, <1>6, VisitorsUnchanged DEF set_actions, pass, InPass
<1>7. CASE \E r \in Runner : Wake(r) \/ Run(r)
  BY <1>1, <1>7, RunnerVisitors
<1>8. CASE (\E c \in Client : StopBegin(c) \/ StopJoin(c)) \/ \E r \in Runner : start(r)
  <2>1. UNCHANGED <<policies, held, visitors, deleted, todo>> /\ (InPass' => InPass)
    BY <1>8 DEF StopBegin, StopJoin, start, registry, pass, InPass, VInv, TypeOK
  <2> QED BY <1>1, <2>1, VisitorsUnchanged
<1> QED BY <1>2, <1>3, <1>4, <1>5, <1>6, <1>7, <1>8 DEF Next

\* The runner never calls a visitor that a destructor of its policy has
\* deleted: whoever dies is neither registered nor held.
THEOREM VisitorsAlwaysAlive == Spec => []VisitorsAlive
<1>1. VInv => VisitorsAlive
  BY ToSetEmpty DEF VInv, AliveInv, TodoInv, VisitorsAlive
<1>2. Spec => []VInv
  BY InitVisitors, NextVisitors, PTL DEF Spec
<1> QED BY <1>1, <1>2, PTL
----------------------------------------------------------------------------
(* What a pass has called.                                                 *)

\* How often x is among the first n elements of s.
Among(s, x, n) == Cardinality({k \in 1..n : s[k] = x})

LEMMA AmongNat ==
  ASSUME NEW s, NEW x, NEW n \in Int
  PROVE  IsFiniteSet({k \in 1..n : s[k] = x}) /\ Among(s, x, n) \in Nat
<1>1. IsFiniteSet(1..n)
  BY FS_Interval
<1>2. IsFiniteSet({k \in 1..n : s[k] = x})
  BY <1>1, FS_Subset
<1> QED BY <1>2, FS_CardinalityType DEF Among

LEMMA AmongNone ==
  ASSUME NEW s, NEW x, NEW n \in Int, n <= 0
  PROVE  Among(s, x, n) = 0
<1>1. {k \in 1..n : s[k] = x} = {}
  OBVIOUS
<1> QED BY <1>1, FS_EmptySet DEF Among

LEMMA AmongNext ==
  ASSUME NEW s, NEW x, NEW n \in Nat
  PROVE  Among(s, x, n + 1) = Among(s, x, n) + (IF s[n + 1] = x THEN 1 ELSE 0)
<1> DEFINE before == {k \in 1..n : s[k] = x}
           after == {k \in 1..(n + 1) : s[k] = x}
<1>1. IsFiniteSet(before) /\ Among(s, x, n) \in Nat
  BY AmongNat
<1>2. CASE s[n + 1] = x
  <2>1. after = before \cup {n + 1} /\ n + 1 \notin before
    BY <1>2
  <2>2. Cardinality(after) = Cardinality(before) + 1
    BY <1>1, <2>1, FS_AddElement
  <2> QED BY <1>2, <2>2 DEF Among
<1>3. CASE s[n + 1] # x
  <2>1. after = before
    BY <1>3
  <2> QED BY <1>1, <1>3, <2>1 DEF Among
<1> QED BY <1>2, <1>3

LEMMA OccurrencesAmong ==
  ASSUME NEW S, NEW s \in Seq(S), NEW x
  PROVE  Occurrences(s, x) = Among(s, x, Len(s)) /\ Occurrences(s, x) \in Nat
<1>1. DOMAIN s = 1..Len(s) /\ Len(s) \in Nat /\ Len(s) \in Int
  BY LenProperties
<1>2. Occurrences(s, x) = Among(s, x, Len(s))
  BY <1>1 DEF Occurrences, Among
<1>3. Among(s, x, Len(s)) \in Nat
  BY <1>1, AmongNat
<1> QED BY <1>2, <1>3

LEMMA OccurrencesAppend ==
  ASSUME NEW S, NEW s \in Seq(S), NEW e \in S, NEW x
  PROVE  Occurrences(Append(s, e), x) = Occurrences(s, x) + (IF e = x THEN 1 ELSE 0)
<1> DEFINE n == Len(s)  longer == Append(s, e)
<1>1. /\ longer \in Seq(S) /\ n \in Nat /\ Len(longer) = n + 1
      /\ longer[n + 1] = e /\ \A k \in 1..n : longer[k] = s[k]
  BY AppendProperties, LenProperties
<1> HIDE DEF longer
<1>2. Occurrences(s, x) = Among(s, x, n)
  BY OccurrencesAmong
<1> HIDE DEF n
<1>3. Among(longer, x, n) = Among(s, x, n)
  <2>1. {k \in 1..n : longer[k] = x} = {k \in 1..n : s[k] = x}
    BY <1>1
  <2> QED BY <2>1 DEF Among
<1>4. Among(longer, x, n + 1) = Among(longer, x, n) + (IF longer[n + 1] = x THEN 1 ELSE 0)
  BY <1>1, AmongNext
<1>5. Occurrences(longer, x) = Among(longer, x, n + 1)
  BY <1>1, OccurrencesAmong
<1> QED BY <1>1, <1>2, <1>3, <1>4, <1>5 DEF longer

Distinct(s) == \A j, k \in 1..Len(s) : s[j] = s[k] => j = k

\* A resource never holds a visitor twice.
VectorsDistinct == \A p \in Policy, s \in Resource : Distinct(visitors[p][s])

Registered(v) == Contains(visitors[Owner[v][1]][Owner[v][2]], v)
Made(v) == Occurrences(visits, v)
Left(v) == IF Contains(todo, v) THEN 1 ELSE 0

\* How often the loops have entered the resource of a visitor.
Entered(v) ==
  LET p == Owner[v][1]
      s == Owner[v][2]
  IN Among(policies, p, cur[1] - 1) * Occurrences(Resources[p], s)
     + (IF cur[1] > 0 /\ policies[cur[1]] = p THEN Among(Resources[p], s, cur[2]) ELSE 0)

\* A visitor registered before the pass has been called, or is about to be,
\* each time the loops have entered its resource.
PassInv ==
  InPass =>
    /\ cur[2] <= Len(CurrentResources)
    /\ Distinct(todo)
    /\ \A v \in Visitor :
         /\ Made(v) + Left(v) <= Entered(v)
         /\ ~Registered(v) => Made(v) + Left(v) = 0
         /\ Registered(v) /\ v \notin late => Made(v) + Left(v) = Entered(v)

PIInv == VInv /\ VectorsDistinct /\ PassInv

LEMMA InitPass == Init => PIInv
<1> SUFFICES ASSUME Init PROVE PIInv
  OBVIOUS
<1>1. VectorsDistinct
  BY DEF Init, VectorsDistinct, Distinct
<1>2. ~InPass
  BY DEF Init, InPass
<1> QED BY <1>1, <1>2, InitVisitors DEF PIInv, PassInv

\* Nothing the walk has entered, called or queued changes.
LEMMA PassUnchanged ==
  ASSUME PIInv, VInv', UNCHANGED visitors,
         InPass' => InPass /\ UNCHANGED <<policies, cur, todo, visits, late>>
  PROVE  PIInv'
<1>1. VectorsDistinct'
  BY DEF PIInv, VectorsDistinct
<1>2. PassInv'
  BY DEF PIInv, PassInv, CurrentResources, Made, Left, Entered, Registered
<1> QED BY <1>1, <1>2 DEF PIInv

LEMMA NumbersTyped ==
  ASSUME TypeOK, NEW v \in Visitor
  PROVE  /\ Made(v) \in Nat /\ Left(v) \in {0, 1} /\ Entered(v) \in Nat
         /\ Owner[v][1] \in Policy /\ Owner[v][2] \in Resource
         /\ Resources[Owner[v][1]] \in Seq(Resource)
         /\ Occurrences(Resources[Owner[v][1]], Owner[v][2]) \in Nat
<1>1. Owner[v][1] \in Policy /\ Owner[v][2] \in Resource
      /\ Resources[Owner[v][1]] \in Seq(Resource)
  BY ConstantsAssumption
<1>2. cur[1] - 1 \in Int /\ cur[2] \in Int
  BY DEF TypeOK
<1>3. Made(v) \in Nat
  BY OccurrencesAmong DEF TypeOK, Made
<1>4. Occurrences(Resources[Owner[v][1]], Owner[v][2]) \in Nat
  BY <1>1, OccurrencesAmong
<1>5. /\ Among(policies, Owner[v][1], cur[1] - 1) \in Nat
      /\ Among(Resources[Owner[v][1]], Owner[v][2], cur[2]) \in Nat
  BY <1>2, AmongNat
<1>6. \A x, y \in Nat : x * y \in Nat
  OBVIOUS
<1>7. Entered(v) \in Nat
  BY <1>4, <1>5, <1>6 DEF Entered
<1> QED BY <1>1, <1>3, <1>4, <1>7 DEF Left

LEMMA NewVisitorPass ==
  ASSUME PIInv, VInv', NEW v \in Visitor, register_policy_visitor(v)
  PROVE  PIInv'
<1>1. /\ TypeOK /\ VectorsDistinct /\ PassInv
      /\ UNCHANGED <<policies, pc, cur, todo, visits>> /\ (InPass' <=> InPass)
      /\ Owner[v][1] \in Policy /\ Owner[v][2] \in Resource
  BY ConstantsAssumption DEF PIInv, VInv, register_policy_visitor, InPass
<1> DEFINE p == Owner[v][1]
           s == Owner[v][2]
           old == visitors[p][s]
<1>2. /\ old \in Seq(Visitor) /\ Len(old) \in Nat
      /\ Append(old, v) \in Seq(Visitor) /\ Len(Append(old, v)) = Len(old) + 1
      /\ Append(old, v)[Len(old) + 1] = v /\ \A k \in 1..Len(old) : Append(old, v)[k] = old[k]
  <2>1. old \in Seq(Visitor)
    BY <1>1 DEF TypeOK
  <2> HIDE DEF old
  <2> QED BY <2>1, AppendProperties, LenProperties
<1>3. CASE visitors' = visitors
  <2>1. VectorsDistinct'
    BY <1>1, <1>3 DEF VectorsDistinct
  <2>2. ASSUME InPass PROVE late \subseteq late'
    BY <2>2 DEF register_policy_visitor
  <2>3. PassInv'
    BY <1>1, <1>3, <2>2 DEF PassInv, CurrentResources, Made, Left, Entered, Registered
  <2> QED BY <2>1, <2>3 DEF PIInv
<1>4. CASE ~Contains(old, v) /\ visitors' = [visitors EXCEPT ![p][s] = Append(@, v)]
  <2>1. /\ visitors'[p][s] = Append(old, v)
        /\ \A q \in Policy, u \in Resource : <<q, u>> # <<p, s>> => visitors'[q][u] = visitors[q][u]
    BY <1>1, <1>4 DEF TypeOK
  <2>2. Distinct(Append(old, v))
    <3>1. Distinct(old)
      BY <1>1 DEF VectorsDistinct
    <3>2. \A k \in 1..Len(old) : old[k] # v
      BY <1>4 DEF Contains
    <3> HIDE DEF old
    <3> QED BY <1>2, <3>1, <3>2 DEF Distinct
  <2>3. VectorsDistinct'
    BY <1>1, <2>1, <2>2 DEF VectorsDistinct
  <2>4. ASSUME InPass PROVE late' = late \cup {v}
    BY <2>4 DEF register_policy_visitor
  <2>5. ASSUME NEW w \in Visitor, w # v PROVE Registered(w)' <=> Registered(w)
    <3>1. Owner[w][1] \in Policy /\ Owner[w][2] \in Resource
      BY ConstantsAssumption
    <3>2. CASE <<Owner[w][1], Owner[w][2]>> # <<p, s>>
      BY <2>1, <3>1, <3>2 DEF Registered
    <3>3. CASE Owner[w][1] = p /\ Owner[w][2] = s
      <4>1. Contains(Append(old, v), w) <=> Contains(old, w)
        <5> HIDE DEF old
        <5> QED BY <1>2, <2>5 DEF Contains
      <4> HIDE DEF p, s
      <4> QED BY <2>1, <3>3, <4>1 DEF Registered, old
    <3> QED BY <3>2, <3>3
  <2>6. Registered(v)'
    <3>1. Contains(Append(old, v), v)
      <4> HIDE DEF old
      <4> QED BY <1>2 DEF Contains
    <3> QED BY <2>1, <3>1 DEF Registered
  <2>7. \A w \in Visitor : Made(w)' = Made(w) /\ Left(w)' = Left(w) /\ Entered(w)' = Entered(w)
    BY <1>1 DEF Made, Left, Entered
  <2>8. InPass => cur'[2] <= Len(CurrentResources') /\ Distinct(todo')
    BY <1>1 DEF PassInv, CurrentResources
  <2>9. PassInv'
    <3> SUFFICES ASSUME InPass, NEW w \in Visitor
                 PROVE  /\ Made(w) + Left(w) <= Entered(w)
                        /\ ~Registered(w)' => Made(w) + Left(w) = 0
                        /\ Registered(w)' /\ w \notin late' => Made(w) + Left(w) = Entered(w)
      BY <1>1, <2>7, <2>8 DEF PassInv
    <3> QED BY <1>1, <2>4, <2>5, <2>6 DEF PassInv
  <2> QED BY <2>3, <2>9 DEF PIInv
<1> QED BY <1>3, <1>4 DEF register_policy_visitor

LEMMA WakePass ==
  ASSUME PIInv, VInv', NEW r \in Runner, Wake(r)
  PROVE  PIInv'
<1>1. /\ UNCHANGED <<visitors, policies>> /\ cur' = <<0, 0>> /\ todo' = <<>> /\ visits' = <<>>
  BY DEF Wake, registry
<1>2. VectorsDistinct'
  BY <1>1 DEF PIInv, VectorsDistinct
<1>3. ASSUME NEW v \in Visitor PROVE Made(v)' = 0 /\ Left(v)' = 0 /\ Entered(v)' = 0
  <2>1. Made(v)' = 0
    <3>1. {n \in DOMAIN <<>> : <<>>[n] = v} = {}
      OBVIOUS
    <3> QED BY <1>1, <3>1, FS_EmptySet DEF Made, Occurrences
  <2>2. Left(v)' = 0
    BY <1>1 DEF Left, Contains
  <2>3. Entered(v)' = 0
    <3>1. Among(policies, Owner[v][1], -1) = 0
      BY AmongNone
    <3>2. Occurrences(Resources[Owner[v][1]], Owner[v][2]) \in Nat
      BY NumbersTyped DEF PIInv, VInv
    <3>3. \A x \in Nat : 0 * x = 0
      OBVIOUS
    <3> QED BY <1>1, <3>1, <3>2, <3>3 DEF Entered
  <2> QED BY <2>1, <2>2, <2>3
<1>4. cur'[2] <= Len(CurrentResources') /\ Distinct(todo')
  BY <1>1 DEF CurrentResources, Distinct
<1> QED BY <1>2, <1>3, <1>4 DEF PIInv, PassInv

LEMMA VisitPass ==
  ASSUME PIInv, VInv', NEW r \in Runner, Visit(r)
  PROVE  PIInv'
<1>1. /\ UNCHANGED <<visitors, policies, pc, cur, late>> /\ InPass /\ InPass' /\ todo # <<>>
      /\ visits' = Append(visits, Head(todo)) /\ todo' = Tail(todo)
      /\ todo \in Seq(Visitor) /\ visits \in Seq(Visitor) /\ TypeOK /\ PassInv
  BY DEF Visit, registry, InPass, PIInv, VInv, TypeOK
<1> DEFINE first == Head(todo)
<1>2. /\ first \in Visitor /\ Tail(todo) \in Seq(Visitor) /\ Len(Tail(todo)) = Len(todo) - 1
      /\ \A k \in 1..Len(Tail(todo)) : Tail(todo)[k] = todo[k + 1]
      /\ first = todo[1] /\ Len(todo) \in Nat /\ Len(todo) # 0
  BY <1>1, HeadTailProperties, LenProperties, EmptySeq
<1> HIDE DEF first
<1>3. Distinct(todo)
  BY <1>1 DEF PassInv
<1>4. Distinct(todo')
  <2>1. \A k \in 1..Len(Tail(todo)) : k + 1 \in 1..Len(todo)
    BY <1>2
  <2>2. ASSUME NEW j \in 1..Len(Tail(todo)), NEW k \in 1..Len(Tail(todo)),
               Tail(todo)[j] = Tail(todo)[k]
        PROVE  j = k
    BY <1>2, <1>3, <2>1, <2>2 DEF Distinct
  <2> QED BY <1>1, <2>2 DEF Distinct
<1>5. ASSUME NEW v \in Visitor
      PROVE  Left(v) = Left(v)' + (IF first = v THEN 1 ELSE 0)
  <2>1. CASE first = v
    <3>1. Contains(todo, v)
      <4>1. 1 \in 1..Len(todo) /\ todo[1] = v
        BY <1>2, <2>1
      <4> QED BY <4>1 DEF Contains
    <3>2. ASSUME NEW k \in 1..Len(Tail(todo)) PROVE Tail(todo)[k] # v
      <4>1. k + 1 \in 1..Len(todo) /\ 1 \in 1..Len(todo) /\ k + 1 # 1
        BY <1>2
      <4> QED BY <1>2, <1>3, <2>1, <4>1 DEF Distinct
    <3>3. ~Contains(todo', v)
      BY <1>1, <3>2 DEF Contains
    <3> QED BY <2>1, <3>1, <3>3 DEF Left
  <2>2. CASE first # v
    <3>1. ASSUME NEW k \in 1..Len(todo), todo[k] = v
          PROVE  \E j \in 1..Len(Tail(todo)) : Tail(todo)[j] = v
      <4>1. k - 1 \in 1..Len(Tail(todo)) /\ (k - 1) + 1 = k
        BY <1>2, <2>2, <3>1
      <4>2. Tail(todo)[k - 1] = todo[k]
        BY <1>2, <4>1
      <4> QED BY <3>1, <4>1, <4>2
    <3>2. ASSUME NEW k \in 1..Len(Tail(todo)), Tail(todo)[k] = v
          PROVE  \E j \in 1..Len(todo) : todo[j] = v
      <4>1. k + 1 \in 1..Len(todo)
        BY <1>2
      <4> QED BY <1>2, <3>2, <4>1
    <3>3. Contains(todo', v) <=> Contains(todo, v)
      BY <1>1, <3>1, <3>2 DEF Contains
    <3> QED BY <2>2, <3>3 DEF Left
  <2> QED BY <2>1, <2>2
<1>6. ASSUME NEW v \in Visitor
      PROVE  Made(v)' + Left(v)' = Made(v) + Left(v) /\ Entered(v)' = Entered(v)
  <2>1. Made(v)' = Made(v) + (IF first = v THEN 1 ELSE 0)
    <3>1. Occurrences(Append(visits, first), v)
            = Occurrences(visits, v) + (IF first = v THEN 1 ELSE 0)
      BY <1>1, <1>2, OccurrencesAppend
    <3> QED BY <1>1, <3>1 DEF Made, first
  <2>2. Made(v) \in Nat /\ Left(v)' \in {0, 1}
    BY <1>1, NumbersTyped DEF Left
  <2>3. Entered(v)' = Entered(v)
    BY <1>1 DEF Entered
  <2> QED BY <1>5, <2>1, <2>2, <2>3
<1>7. VectorsDistinct'
  BY <1>1 DEF PIInv, VectorsDistinct
<1>8. CurrentResources' = CurrentResources /\ \A v \in Visitor : Registered(v)' <=> Registered(v)
  BY <1>1 DEF CurrentResources, Registered
<1>9. PassInv'
  BY <1>1, <1>4, <1>6, <1>8 DEF PassInv
<1> QED BY <1>7, <1>9 DEF PIInv

\* Once every resource of the current policy has been entered.
LEMMA EnteredWhole ==
  ASSUME TypeOK, cur[2] = Len(CurrentResources), NEW v \in Visitor
  PROVE  Entered(v) = Among(policies, Owner[v][1], cur[1])
                        * Occurrences(Resources[Owner[v][1]], Owner[v][2])
<1> DEFINE p == Owner[v][1]
           s == Owner[v][2]
           per == Occurrences(Resources[p], s)
<1>1. p \in Policy /\ Resources[p] \in Seq(Resource) /\ per \in Nat /\ cur[1] \in Nat
  BY NumbersTyped DEF TypeOK
<1>2. CASE cur[1] = 0
  <2>1. Among(policies, p, 0) = 0 /\ Among(policies, p, 0 - 1) = 0
    BY AmongNone
  <2>2. Entered(v) = Among(policies, p, 0 - 1) * per + 0
    BY <1>2 DEF Entered
  <2>3. 0 * per + 0 = 0 * per
    BY <1>1
  <2> HIDE DEF per
  <2> QED BY <1>2, <2>1, <2>2, <2>3 DEF per
<1>3. CASE cur[1] > 0
  <2> DEFINE n == cur[1] - 1
             before == Among(policies, p, n)
             here == policies[cur[1]] = p
  <2>1. n \in Nat /\ n + 1 = cur[1] /\ before \in Nat
    <3>1. n \in Nat /\ n \in Int /\ n + 1 = cur[1]
      BY <1>1, <1>3
    <3> HIDE DEF n
    <3> QED BY <3>1, AmongNat
  <2>2. Among(policies, p, n + 1) = before + (IF policies[n + 1] = p THEN 1 ELSE 0)
    <3>1. n \in Nat
      BY <2>1
    <3> HIDE DEF n
    <3> QED BY <3>1, AmongNext
  <2>3. ASSUME here PROVE Among(Resources[p], s, cur[2]) = per
    <3>1. CurrentResources = Resources[p]
      BY <1>3, <2>3 DEF CurrentResources
    <3>2. per = Among(Resources[p], s, Len(Resources[p]))
      BY <1>1, OccurrencesAmong
    <3> HIDE DEF per
    <3> QED BY <3>1, <3>2
  <2>4. Entered(v) = before * per + (IF here THEN per ELSE 0)
    BY <1>3, <2>3 DEF Entered
  <2>5. \A x, y \in Nat : (x + 1) * y = x * y + y /\ (x + 0) * y = x * y + 0
    OBVIOUS
  <2>6. Among(policies, p, cur[1]) = before + (IF here THEN 1 ELSE 0)
    BY <2>1, <2>2
  <2>7. per \in Nat /\ before \in Nat
    BY <1>1, <2>1
  <2> HIDE DEF per, before, here
  <2>8. Entered(v) = (before + (IF here THEN 1 ELSE 0)) * per
    <3>1. CASE here
      BY <2>4, <2>5, <2>7, <3>1
    <3>2. CASE ~here
      BY <2>4, <2>5, <2>7, <3>2
    <3> QED BY <3>1, <3>2
  <2>9. Entered(v) = Among(policies, p, cur[1]) * per
    BY <2>6, <2>8
  <2> QED BY <2>9 DEF per
<1> QED BY <1>1, <1>2, <1>3

LEMMA NextPolicyPass ==
  ASSUME PIInv, VInv', NEW r \in Runner, NextPolicy(r)
  PROVE  PIInv'
<1>1. /\ UNCHANGED <<visitors, policies, pc, todo, visits, late>> /\ InPass /\ InPass'
      /\ cur[2] >= Len(CurrentResources) /\ cur' = <<cur[1] + 1, 0>>
      /\ cur[1] \in Nat /\ cur[2] \in Nat /\ cur[1] < Len(policies) /\ Len(policies) \in Nat
      /\ cur[2] <= Len(CurrentResources) /\ TypeOK /\ PassInv /\ policies \in Seq(Policy)
  BY LenProperties DEF NextPolicy, registry, InPass, PIInv, VInv, TypeOK, PassInv
<1>2. ASSUME NEW v \in Visitor PROVE Entered(v)' = Entered(v)
  <2> DEFINE p == Owner[v][1]
             s == Owner[v][2]
             per == Occurrences(Resources[p], s)
  <2>1. p \in Policy /\ Resources[p] \in Seq(Resource) /\ per \in Nat
    BY <1>1, NumbersTyped
  <2>2. Entered(v)' = Among(policies, p, cur[1]) * per
    <3>1. cur'[1] = cur[1] + 1 /\ cur'[2] = 0 /\ cur'[1] - 1 = cur[1]
      BY <1>1
    <3>2. Among(Resources[p], s, 0) = 0
      BY AmongNone
    <3>3. Among(policies, p, cur[1]) \in Nat
      <4>1. cur[1] \in Int
        BY <1>1
      <4> QED BY <4>1, AmongNat
    <3>4. \A x, y \in Nat : x * y + 0 = x * y
      OBVIOUS
    <3> HIDE DEF p, s, per
    <3>5. Entered(v)' = Among(policies, p, cur[1]) * per + 0
      BY <1>1, <3>1, <3>2 DEF Entered, p, s, per
    <3> QED BY <2>1, <3>3, <3>4, <3>5
  <2>3. cur[2] = Len(CurrentResources)
    <3>1. Len(CurrentResources) \in Int
      <4>1. CASE cur[1] = 0
        BY <4>1, EmptySeq DEF CurrentResources
      <4>2. CASE cur[1] # 0
        <5>1. policies[cur[1]] \in Policy
          BY <1>1, <4>2, ElementOfSeq
        <5> QED BY <4>2, <5>1, ConstantsAssumption, LenProperties DEF CurrentResources
      <4> QED BY <4>1, <4>2
    <3> QED BY <1>1, <3>1
  <2> QED BY <1>1, <2>2, <2>3, EnteredWhole
<1>3. ASSUME NEW v \in Visitor
      PROVE  Made(v)' = Made(v) /\ Left(v)' = Left(v) /\ (Registered(v)' <=> Registered(v))
  BY <1>1 DEF Made, Left, Registered
<1>4. cur'[2] <= Len(CurrentResources')
  <2>1. policies'[cur'[1]] \in Policy /\ cur'[1] # 0
    BY <1>1, ElementOfSeq
  <2>2. CurrentResources' \in Seq(Resource)
    BY <2>1, ConstantsAssumption DEF CurrentResources
  <2> QED BY <1>1, <2>2, LenProperties
<1>5. PassInv'
  BY <1>1, <1>2, <1>3, <1>4 DEF PassInv
<1>6. VectorsDistinct'
  BY <1>1 DEF PIInv, VectorsDistinct
<1> QED BY <1>5, <1>6 DEF PIInv

LEMMA NextResourcePass ==
  ASSUME PIInv, VInv', NEW r \in Runner, NextResource(r)
  PROVE  PIInv'
<1>1. /\ UNCHANGED <<visitors, policies, pc, visits, late>> /\ InPass /\ InPass' /\ todo = <<>>
      /\ cur[2] < Len(CurrentResources) /\ cur' = <<cur[1], cur[2] + 1>>
      /\ todo' = visitors[policies[cur[1]]][CurrentResources[cur[2] + 1]]
      /\ cur[1] \in Nat /\ cur[2] \in Nat /\ TypeOK /\ PassInv /\ OwnerInv /\ VectorsDistinct
  BY DEF NextResource, registry, InPass, PIInv, VInv, TypeOK
<1> DEFINE p == policies[cur[1]]
           s == CurrentResources[cur[2] + 1]
<1>2. p \in Policy /\ s \in Resource
  BY <1>1, CurrentVector
<1>3. cur[1] > 0 /\ CurrentResources = Resources[p] /\ Len(CurrentResources) \in Nat
  <2>1. cur[1] # 0
    BY <1>1, EmptySeq DEF CurrentResources
  <2>2. CurrentResources = Resources[p] /\ Resources[p] \in Seq(Resource)
    BY <1>2, <2>1, ConstantsAssumption DEF CurrentResources
  <2> QED BY <1>1, <2>1, <2>2, LenProperties
<1>4. Distinct(todo')
  BY <1>1, <1>2 DEF VectorsDistinct
<1>5. ASSUME NEW v \in Visitor
      PROVE  /\ Left(v) = 0 /\ Made(v)' = Made(v) /\ (Registered(v)' <=> Registered(v))
             /\ Entered(v)' = Entered(v) + (IF Owner[v] = <<p, s>> THEN 1 ELSE 0)
             /\ Left(v)' = IF Registered(v) /\ Owner[v] = <<p, s>> THEN 1 ELSE 0
  <2>1. Left(v) = 0 /\ Made(v)' = Made(v) /\ (Registered(v)' <=> Registered(v))
    BY <1>1 DEF Left, Contains, Made, Registered
  <2>2. Left(v)' = IF Registered(v) /\ Owner[v] = <<p, s>> THEN 1 ELSE 0
    <3>1. Contains(todo', v) => Owner[v] = <<p, s>>
      <4>1. todo' \in Seq(Visitor)
        BY <1>1, <1>2 DEF TypeOK
      <4>2. Contains(todo', v) => v \in ToSet(visitors[p][s])
        BY <1>1, <4>1, LenProperties DEF Contains, ToSet
      <4> QED BY <1>2, <4>2, <1>1 DEF OwnerInv
    <3>2. Owner[v] = <<p, s>> => (Contains(todo', v) <=> Registered(v))
      BY <1>1 DEF Registered
    <3> QED BY <3>1, <3>2 DEF Left
  <2>3. Entered(v)' = Entered(v) + (IF Owner[v] = <<p, s>> THEN 1 ELSE 0)
    <3> DEFINE q == Owner[v][1]
               u == Owner[v][2]
               whole == Among(policies, q, cur[1] - 1) * Occurrences(Resources[q], u)
    <3>1. /\ Owner[v] = <<q, u>> /\ cur'[1] = cur[1] /\ cur'[2] = cur[2] + 1
          /\ policies' = policies
      BY <1>1, ConstantsAssumption
    <3>2. whole \in Nat
      <4>1. Among(policies, q, cur[1] - 1) \in Nat /\ Occurrences(Resources[q], u) \in Nat
        <5>1. cur[1] - 1 \in Int
          BY <1>1
        <5>2. Occurrences(Resources[q], u) \in Nat
          BY <1>1, NumbersTyped
        <5>3. Among(policies, q, cur[1] - 1) \in Nat
          BY <5>1, AmongNat
        <5> QED BY <5>2, <5>3
      <4>2. \A x, y \in Nat : x * y \in Nat
        OBVIOUS
      <4> QED BY <4>1, <4>2
    <3>3. /\ Entered(v) = whole + (IF p = q THEN Among(Resources[q], u, cur[2]) ELSE 0)
          /\ Entered(v)' = whole + (IF p = q THEN Among(Resources[q], u, cur[2] + 1) ELSE 0)
      <4>1. Entered(v) = whole + (IF p = q THEN Among(Resources[q], u, cur[2]) ELSE 0)
        BY <1>3 DEF Entered
      <4>2. Entered(v)' = whole + (IF p = q THEN Among(Resources[q], u, cur[2] + 1) ELSE 0)
        BY <1>3, <3>1 DEF Entered
      <4> QED BY <4>1, <4>2
    <3>4. Among(Resources[q], u, cur[2] + 1)
            = Among(Resources[q], u, cur[2]) + (IF Resources[q][cur[2] + 1] = u THEN 1 ELSE 0)
      BY <1>1, AmongNext
    <3>5. Among(Resources[q], u, cur[2]) \in Nat
      <4>1. cur[2] \in Int
        BY <1>1
      <4> QED BY <4>1, AmongNat
    <3>6. Owner[v] = <<p, s>> <=> p = q /\ Resources[q][cur[2] + 1] = u
      BY <1>3, <3>1
    <3> HIDE DEF p, s, q, u, whole
    <3> QED BY <3>2, <3>3, <3>4, <3>5, <3>6
  <2> QED BY <2>1, <2>2, <2>3
<1>6. \A v \in Visitor : Made(v) \in Nat /\ Entered(v) \in Nat
  BY <1>1, NumbersTyped
<1>7. cur'[2] <= Len(CurrentResources')
  <2>1. CurrentResources' = CurrentResources
    BY <1>1 DEF CurrentResources
  <2> QED BY <1>1, <1>3, <2>1
<1> HIDE DEF p, s
<1>8. ASSUME NEW v \in Visitor
      PROVE  /\ Made(v)' + Left(v)' <= Entered(v)'
             /\ ~Registered(v)' => Made(v)' + Left(v)' = 0
             /\ Registered(v)' /\ v \notin late => Made(v)' + Left(v)' = Entered(v)'
  <2>1. /\ Made(v) + Left(v) <= Entered(v)
        /\ ~Registered(v) => Made(v) + Left(v) = 0
        /\ Registered(v) /\ v \notin late => Made(v) + Left(v) = Entered(v)
    BY <1>1 DEF PassInv
  <2> QED BY <1>5, <1>6, <2>1
<1>9. PassInv'
  BY <1>1, <1>4, <1>7, <1>8 DEF PassInv
<1>10. VectorsDistinct'
  BY <1>1 DEF VectorsDistinct
<1> QED BY <1>9, <1>10 DEF PIInv

LEMMA NextPass == PIInv /\ [Next]_vars => PIInv'
<1> SUFFICES ASSUME PIInv, [Next]_vars PROVE PIInv'
  OBVIOUS
<1>1. VInv /\ VInv' /\ IInv /\ TypeOK
  BY NextVisitors DEF PIInv, VInv
<1>2. CASE UNCHANGED vars
  BY <1>1, <1>2, PassUnchanged DEF vars, registry, pass, InPass
<1>3. CASE \E p \in Policy : Release(p)
  BY <1>1, <1>3, PassUnchanged DEF Release, pass, InPass
<1>4. CASE \E p \in Policy : register_policy(p) \/ unregister_policy(p)
  <2>1. m = Free /\ UNCHANGED <<visitors, pc>>
    BY <1>4 DEF register_policy, unregister_policy
  <2>2. ~InPass'
    BY <1>1, <2>1, ConstantsAssumption DEF IInv, RunnerInv, InPass
  <2> QED BY <1>1, <2>1, <2>2, PassUnchanged
<1>5. CASE \E v \in Visitor : register_policy_visitor(v)
  BY <1>1, <1>5, NewVisitorPass
<1>6. CASE \E p \in Policy, a \in Action : set_actions(p, <<a>>)
  BY <1>1, <1>6, PassUnchanged DEF set_actions, pass, InPass
<1>7. CASE \E r \in Runner : LoopTest(r) \/ Sleep(r) \/ EndPass(r)
  <2>1. UNCHANGED <<visitors, policies, cur, todo, visits, late>> /\ (InPass' => InPass)
    BY <1>1, <1>7 DEF LoopTest, Sleep, EndPass, registry, pass, InPass, TypeOK
  <2> QED BY <1>1, <2>1, PassUnchanged
<1>8. CASE \E r \in Runner : Wake(r) \/ Visit(r) \/ NextPolicy(r) \/ NextResource(r)
  BY <1>1, <1>8, WakePass, VisitPass, NextPolicyPass, NextResourcePass
<1>9. CASE (\E c \in Client : StopBegin(c) \/ StopJoin(c)) \/ \E r \in Runner : start(r)
  <2>1. UNCHANGED <<visitors, policies, cur, todo, visits, late>> /\ (InPass' => InPass)
    BY <1>1, <1>9 DEF StopBegin, StopJoin, start, registry, pass, InPass, TypeOK
  <2> QED BY <1>1, <2>1, PassUnchanged
<1> QED BY <1>2, <1>3, <1>4, <1>5, <1>6, <1>7, <1>8, <1>9 DEF Next, Run

\* A pass that ends has called every visitor registered before it once for each
\* time its policy is registered and its resource listed, and no visitor more
\* often, for any number of policies, resources and visitors.
THEOREM PassesAreComplete == Spec => []PassComplete
<1>1. PIInv => PassComplete
  <2> SUFFICES ASSUME PIInv, InPass, PassDone, NEW v \in Visitor
               PROVE  /\ Occurrences(visits, v) <= Expected(v)
                      /\ v \notin late => Occurrences(visits, v) = Expected(v)
    BY DEF PassComplete
  <2>1. /\ TypeOK /\ PassInv /\ todo = <<>> /\ cur[1] \in Nat /\ cur[2] \in Nat
        /\ cur[1] = Len(policies) /\ cur[2] >= Len(CurrentResources)
        /\ cur[2] <= Len(CurrentResources) /\ policies \in Seq(Policy)
    BY LenProperties DEF PIInv, VInv, TypeOK, PassDone, PassInv
  <2> DEFINE p == Owner[v][1]
             s == Owner[v][2]
             per == Occurrences(Resources[p], s)
  <2>2. /\ p \in Policy /\ Resources[p] \in Seq(Resource) /\ per \in Nat
        /\ Made(v) \in Nat /\ Entered(v) \in Nat
    BY <2>1, NumbersTyped
  <2>3. Left(v) = 0
    BY <2>1 DEF Left, Contains
  <2>4. Entered(v) = Occurrences(policies, p) * per
    <3>1. Occurrences(policies, p) = Among(policies, p, cur[1])
      BY <2>1, OccurrencesAmong
    <3>2. Entered(v) = Among(policies, p, cur[1]) * per
      BY <2>1, EnteredWhole
    <3> QED BY <3>1, <3>2
  <2>5. Expected(v) = IF Registered(v) THEN Entered(v) ELSE 0
    BY <2>4 DEF Expected, Registered
  <2>6. /\ Made(v) + Left(v) <= Entered(v)
        /\ ~Registered(v) => Made(v) + Left(v) = 0
        /\ Registered(v) /\ v \notin late => Made(v) + Left(v) = Entered(v)
    BY <2>1 DEF PassInv
  <2>7. Occurrences(visits, v) = Made(v)
    BY DEF Made
  <2> QED BY <2>2, <2>3, <2>5, <2>6, <2>7
<1>2. Spec => []PIInv
  BY InitPass, NextPass, PTL DEF Spec
<1> QED BY <1>1, <1>2, PTL
=============================================================================
