--------------------------- MODULE PolicyManager ---------------------------
(***************************************************************************)
(* policy_manager and monitor_policy (util/monitorpolicy.h, .cpp).         *)
(*                                                                         *)
(* Clients register policies and start and stop a runner thread.  The      *)
(* runner sleeps on a condition variable; each time it wakes it walks over *)
(* the registered policies and calls every visitor of every resource.      *)
(* register_policy, unregister_policy and start hold the mutex m from      *)
(* their first line to their last and are one step each.  stop holds it    *)
(* while it joins the runner, so it is two steps.                          *)
(*                                                                         *)
(* Policies are shared pointers: a policy lives as long as the application *)
(* holds it or it is registered, and deletes its visitors when it dies.    *)
(***************************************************************************)
EXTENDS Integers, FiniteSets, SequencesExt

CONSTANTS
  Client,             \* threads of the application
  Runner,             \* thread objects start can create
  Free,               \* nobody holds m
  Policy, Resource, Visitor,
  Resources,          \* the resource names each policy was constructed with
  Owner,              \* the policy and the resource each visitor is made for
  Action,             \* BLOCK_AND_DROP, SANDBOX_TRAFFIC, ...
  DefaultActions,     \* what the constructor of monitor_policy puts in _actions
  MaxPolicies         \* bound on the length of policies

ASSUME ConstantsAssumption ==
  /\ Client \cap Runner = {} /\ Free \notin Client \cup Runner
  /\ Resources \in [Policy -> Seq(Resource)]
  /\ Owner \in [Visitor -> Policy \X Resource]
  /\ DefaultActions \in Seq(Action)
  /\ MaxPolicies \in Nat

VARIABLES
  policies,           \* the vector of registered policies
  held,               \* policies the application holds a pointer to
  visitors,           \* per policy and resource, the vector of its visitors
  deleted,            \* visitors deleted by a destructor
  actions,            \* _actions of each policy
  running,            \* _running
  m,                  \* holder of the mutex
  t,                  \* the thread object of the last start
  pc,                 \* per runner: none, test, lock, wait, notified, pass, exited
  cur,                \* in a pass: how many policies, and resources of the
                      \* last of them, the loops have entered
  todo,               \* the visitors left of the current resource
  visits,             \* the visits made by the current or last pass
  late,               \* visitors registered since that pass began
  crashed             \* a data race has brought the process down

registry == <<policies, held, visitors, deleted, actions>>
pass == <<cur, todo, visits, late>>
vars == <<registry, running, m, t, pc, pass, crashed>>

Live == {r \in Runner : pc[r] \notin {"none", "exited"}}
InPass == \E r \in Runner : pc[r] = "pass"
----------------------------------------------------------------------------
Init ==
  /\ policies = <<>> /\ held = Policy /\ deleted = {}
  /\ visitors = [p \in Policy |-> [s \in Resource |-> <<>>]]
  /\ actions = [p \in Policy |-> DefaultActions]
  /\ running = FALSE /\ m = Free /\ t = Free
  /\ pc = [r \in Runner |-> "none"]
  /\ cur = <<0, 0>> /\ todo = <<>> /\ visits = <<>> /\ late = {}
  /\ crashed = FALSE

(* The application: monitor_policy has no lock of its own, so registering  *)
(* a visitor with a policy the runner is looking at is a data race.        *)
register_policy_visitor(v) ==
  LET p == Owner[v][1]
      s == Owner[v][2]
  IN /\ p \in held /\ v \notin deleted
     /\ visitors' = IF Contains(visitors[p][s], v) THEN visitors
                    ELSE [visitors EXCEPT ![p][s] = Append(@, v)]
     /\ late' = IF InPass THEN late \cup {v} ELSE late
     /\ crashed' \in IF InPass /\ cur[1] > 0 /\ policies[cur[1]] = p
                     THEN BOOLEAN ELSE {FALSE}
     /\ UNCHANGED <<policies, held, deleted, actions, running, m, t, pc, cur, todo, visits>>

set_actions(p, a) ==
  /\ p \in held
  /\ actions' = [actions EXCEPT ![p] = a]
  /\ UNCHANGED <<policies, held, visitors, deleted, running, m, t, pc, pass, crashed>>

\* Mutant: a policy dies with the application's pointer.
ReleaseDeletes(p) ==
  /\ p \in held
  /\ held' = held \ {p}
  /\ deleted' = deleted \cup UNION {ToSet(visitors[p][s]) : s \in Resource}
  /\ UNCHANGED <<policies, visitors, actions, running, m, t, pc, pass, crashed>>

(* The application drops its pointer; the last pointer runs ~monitor_policy. *)
Release(p) ==
  /\ p \in held
  /\ held' = held \ {p}
  /\ deleted' = IF Contains(policies, p) THEN deleted
                ELSE deleted \cup UNION {ToSet(visitors[p][s]) : s \in Resource}
  /\ UNCHANGED <<policies, visitors, actions, running, m, t, pc, pass, crashed>>

----------------------------------------------------------------------------
register_policy(p) ==
  /\ m = Free /\ p \in held /\ Len(policies) < MaxPolicies
  /\ policies' = Append(policies, p)
  /\ UNCHANGED <<held, visitors, deleted, actions, running, m, t, pc, pass, crashed>>

\* Mutant: unregister_policy without the lock.
UnregisterUnlocked(p) ==
  /\ p \in held /\ Contains(policies, p)
  /\ policies' = RemoveFirst(policies, p)
  /\ UNCHANGED <<held, visitors, deleted, actions, running, m, t, pc, pass, crashed>>

(* std::find and erase.                                                    *)
unregister_policy(p) ==
  /\ m = Free /\ p \in held
  /\ \E n \in DOMAIN policies :
       /\ policies[n] = p /\ \A k \in 1..(n - 1) : policies[k] # p
       /\ policies' = RemoveAt(policies, n)
  /\ UNCHANGED <<held, visitors, deleted, actions, running, m, t, pc, pass, crashed>>

\* Mutant: start without the test of _running.
StartAgain(r) ==
  /\ m = Free /\ pc[r] = "none"
  /\ running' = TRUE /\ t' = r
  /\ pc' = [pc EXCEPT ![r] = "test"]
  /\ UNCHANGED <<registry, m, pass, crashed>>

start(r) ==
  /\ m = Free /\ ~running /\ pc[r] = "none"
  /\ running' = TRUE /\ t' = r
  /\ pc' = [pc EXCEPT ![r] = "test"]
  /\ UNCHANGED <<registry, m, pass, crashed>>

\* Mutant: the lock of stop ends before the join.
StopUnlocked(c) ==
  /\ m = Free /\ running
  /\ running' = FALSE
  /\ pc' = [r \in Runner |-> IF pc[r] = "wait" THEN "notified" ELSE pc[r]]
  /\ UNCHANGED <<registry, m, t, pass, crashed>>

(* stop up to the join: the lock stays held.                               *)
StopBegin(c) ==
  /\ m = Free /\ running
  /\ running' = FALSE /\ m' = c
  /\ pc' = [r \in Runner |-> IF pc[r] = "wait" THEN "notified" ELSE pc[r]]
  /\ UNCHANGED <<registry, t, pass, crashed>>

StopJoin(c) ==
  /\ m = c /\ pc[t] = "exited"
  /\ m' = Free
  /\ UNCHANGED <<registry, running, t, pc, pass, crashed>>

----------------------------------------------------------------------------
(* run.  The loop condition reads _running without the lock.               *)
\* Mutant: the loop condition is not tested again.
LoopForever(r) ==
  /\ pc[r] = "test"
  /\ pc' = [pc EXCEPT ![r] = "lock"]
  /\ UNCHANGED <<registry, running, m, t, pass, crashed>>

LoopTest(r) ==
  /\ pc[r] = "test"
  /\ pc' = [pc EXCEPT ![r] = IF running THEN "lock" ELSE "exited"]
  /\ UNCHANGED <<registry, running, m, t, pass, crashed>>

(* Acquire m and release it again in cv.wait.                              *)
Sleep(r) ==
  /\ pc[r] = "lock" /\ m = Free
  /\ pc' = [pc EXCEPT ![r] = "wait"]
  /\ UNCHANGED <<registry, running, m, t, pass, crashed>>

\* Mutant: cv.wait returns without the mutex.
WakeWithoutLock(r) ==
  /\ pc[r] \in {"notified", "wait"}
  /\ m' = r
  /\ pc' = [pc EXCEPT ![r] = "pass"]
  /\ cur' = <<0, 0>> /\ todo' = <<>> /\ visits' = <<>> /\ late' = {}
  /\ UNCHANGED <<registry, running, t, crashed>>

(* cv.wait returns, with m, and the walk begins; a condition variable may   *)
(* wake up without having been notified.                                   *)
Wake(r) ==
  /\ pc[r] \in {"notified", "wait"}
  /\ m = Free
  /\ m' = r
  /\ pc' = [pc EXCEPT ![r] = "pass"]
  /\ cur' = <<0, 0>> /\ todo' = <<>> /\ visits' = <<>> /\ late' = {}
  /\ UNCHANGED <<registry, running, t, crashed>>

(* notify_all of the current resource calls its next visitor.              *)
Visit(r) ==
  /\ pc[r] = "pass" /\ todo # <<>>
  /\ visits' = Append(visits, Head(todo))
  /\ todo' = Tail(todo)
  /\ UNCHANGED <<registry, running, m, t, pc, cur, late, crashed>>

CurrentResources == IF cur[1] = 0 THEN <<>> ELSE Resources[policies[cur[1]]]

\* Mutant: the walk takes a policy whose first resource it skips.
NextPolicySkips(r) ==
  /\ pc[r] = "pass" /\ todo = <<>> /\ cur[2] >= Len(CurrentResources)
  /\ cur[1] < Len(policies)
  /\ cur' = <<cur[1] + 1, 1>>
  /\ UNCHANGED <<registry, running, m, t, pc, todo, visits, late, crashed>>

NextPolicy(r) ==
  /\ pc[r] = "pass" /\ todo = <<>> /\ cur[2] >= Len(CurrentResources)
  /\ cur[1] < Len(policies)
  /\ cur' = <<cur[1] + 1, 0>>
  /\ UNCHANGED <<registry, running, m, t, pc, todo, visits, late, crashed>>

NextResource(r) ==
  /\ pc[r] = "pass" /\ todo = <<>> /\ cur[2] < Len(CurrentResources)
  /\ cur' = <<cur[1], cur[2] + 1>>
  /\ todo' = visitors[policies[cur[1]]][CurrentResources[cur[2] + 1]]
  /\ UNCHANGED <<registry, running, m, t, pc, visits, late, crashed>>

PassDone == todo = <<>> /\ cur[1] >= Len(policies) /\ cur[2] >= Len(CurrentResources)

EndPass(r) ==
  /\ pc[r] = "pass" /\ PassDone
  /\ m' = Free
  /\ pc' = [pc EXCEPT ![r] = "test"]
  /\ UNCHANGED <<registry, running, t, pass, crashed>>

----------------------------------------------------------------------------
Run(r) == LoopTest(r) \/ Sleep(r) \/ Visit(r) \/ NextPolicy(r) \/ NextResource(r) \/ EndPass(r)

Next ==
  /\ ~crashed
  /\ \/ \E v \in Visitor : register_policy_visitor(v)
     \/ \E p \in Policy : Release(p) \/ register_policy(p) \/ unregister_policy(p)
     \/ \E p \in Policy, a \in Action : set_actions(p, <<a>>)
     \/ \E c \in Client : StopBegin(c) \/ StopJoin(c)
     \/ \E r \in Runner : start(r) \/ Wake(r) \/ Run(r)

Spec == Init /\ [][Next]_vars

\* The scheduler runs every thread that is not blocked; nothing makes a
\* condition variable wake up spuriously.
FairSpec ==
  Spec /\ WF_vars(~crashed /\ \E r \in Runner : Run(r))
       /\ WF_vars(~crashed /\ \E c \in Client : StopJoin(c))

----------------------------------------------------------------------------
TypeOK ==
  /\ policies \in Seq(Policy)
  /\ held \subseteq Policy /\ deleted \subseteq Visitor
  /\ visitors \in [Policy -> [Resource -> Seq(Visitor)]]
  /\ actions \in [Policy -> Seq(Action)]
  /\ running \in BOOLEAN /\ crashed \in BOOLEAN
  /\ m \in Client \cup Runner \cup {Free} /\ t \in Runner \cup {Free}
  /\ pc \in [Runner -> {"none", "test", "lock", "wait", "notified", "pass", "exited"}]
  /\ cur \in Nat \X Nat /\ (InPass => cur[1] <= Len(policies))
  /\ todo \in Seq(Visitor) /\ visits \in Seq(Visitor) /\ late \subseteq Visitor

\* start tests _running under the mutex while run reads it without: still
\* there is never a second runner, there is one whenever the manager says it
\* is running, and none once stop has returned.
OneRunner ==
  /\ \A r, s \in Live : r = s
  /\ running => Live # {}
  /\ ~running /\ m \notin Client => Live = {}

\* A pass sees one registry: while the runner walks over the policies no
\* client changes the vector, so its position in the vector stays valid.
PassIsolated ==
  [][InPass /\ InPass' => policies' = policies]_vars

\* A visitor that a dying policy has deleted is neither waiting to be called
\* nor called, provided it was made for one policy and one resource.
VisitorsAlive ==
  InPass => ToSet(todo) \cap deleted = {}

\* A completed pass has called every visitor once for every time its policy is
\* registered and its resource listed; only a visitor registered during the
\* pass may have been missed.
Occurrences(s, x) == Cardinality({n \in DOMAIN s : s[n] = x})
Expected(v) ==
  LET p == Owner[v][1]
      s == Owner[v][2]
  IN IF Contains(visitors[p][s], v) THEN Occurrences(policies, p) * Occurrences(Resources[p], s)
                                    ELSE 0
PassComplete ==
  InPass /\ PassDone =>
    \A v \in Visitor : /\ Occurrences(visits, v) <= Expected(v)
                       /\ v \notin late => Occurrences(visits, v) = Expected(v)

\* stop joins a runner that needs the mutex stop holds: it never returns.
Stuck == m \in Client /\ pc[t] \in {"lock", "wait", "notified"}
StuckForever == [][Stuck => Stuck']_vars

\* stop returns when it catches the runner between two iterations of its loop,
\* and, with StuckForever, only then.
StopReturns == (m \in Client /\ pc[t] \in {"test", "exited"}) ~> (m = Free \/ crashed)

\* The only notify of the condition variable is the one in stop, which never
\* lets go of the mutex the notified runner then needs: no visitor is ever
\* called because somebody notified, a pass begins with a spurious wake-up.
NotifyStartsNoPass ==
  [][\A r \in Runner : pc[r] = "notified" => pc'[r] = "notified"]_vars
=============================================================================
