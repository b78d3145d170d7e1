------------------------ MODULE ForestTrainingProofs ------------------------
(***************************************************************************)
(* Machine-checked proofs about ForestTraining, for any number of forests, *)
(* trees, samples and classes.                                             *)
(***************************************************************************)
EXTENDS ForestTraining, FiniteSetTheorems, TLAPS

\* Threads run inside a constructor only, and then the static members point
\* into the forest it builds.
StaticsInv ==
  /\ constructing => built < Forests /\ gclassifiers = built + 1
  /\ \A w \in Worker : pc[w] # "done" => constructing

\* How far the tree of each thread of the running constructor has come.
TreeInv ==
  constructing => \A w \in Worker :
    /\ pc[w] \in {"draw", "store"} => classifiers[built + 1][w] = NoTree
    /\ pc[w] \in {"test", "done"} => classifiers[built + 1][w] # NoTree
    /\ pc[w] = "store" => drawn[w] # {} /\ untested[w] \cap drawn[w] = {}
    /\ pc[w] = "test" => untested[w] \cap classifiers[built + 1][w] = {}

\* Forests before the running constructor are complete, those after it empty.
ForestsInv ==
  \A f \in 1..Forests :
    /\ f <= built => \A w \in Worker : classifiers[f][w] # NoTree
    /\ f > built /\ ~(constructing /\ f = built + 1) =>
         \A w \in Worker : classifiers[f][w] = NoTree

\* No error has been added to a forest whose constructor has not started.
ErrorInv ==
  /\ OobErrorAccounts
  /\ \A f \in 1..Forests : f > built /\ ~(constructing /\ f = built + 1) => oob_total[f] = 0

IInv == TypeOK /\ StaticsInv /\ TreeInv /\ ForestsInv /\ ErrorInv /\ TableLargeEnough

Finished == {w \in Worker : pc[w] = "done"}

----------------------------------------------------------------------------
LEMMA NoVotesType == NoVotes \in Votes
  BY DEF NoVotes, Votes

\* Whatever the weights, only samples can be drawn: there are no fewer of them
\* than classes.
LEMMA DrawableSamples == \A d : Drawable(d) \subseteq Sample
  BY ConstantsAssumption DEF Drawable, Class, Sample

LEMMA MismatchesCounted == Cardinality(Mismatches) \in 0..Samples
<1>1. IsFiniteSet(Sample) /\ Cardinality(Sample) = Samples
  BY FS_Interval, ConstantsAssumption DEF Sample
<1>2. Mismatches \in SUBSET Sample
  BY DEF Mismatches
<1>3. /\ Cardinality(Mismatches) \in Nat /\ Cardinality(Mismatches) <= Samples
  BY <1>1, <1>2, FS_Subset, FS_CardinalityType
<1> QED BY <1>3, ConstantsAssumption

(* The sum of a function over a set of threads.  The library defines it by *)
(* a recursion that takes away one element after the other, whichever      *)
(* CHOOSE returns; it is shown to be the one function on sets of threads   *)
(* that is zero for the empty set and grows by f[x] when x is added.       *)
Plus(x, y) == x + y
Numbers == INSTANCE SeqFolds WITH Op <- Plus

Any(t) == CHOOSE x \in t : TRUE

Recursion(it, f, S) ==
  it = [t \in SUBSET S |-> IF t = {} THEN 0 ELSE f[Any(t)] + it[t \ {Any(t)}]]

Totals(T, f, S) ==
  /\ T \in [SUBSET S -> Nat] /\ T[{}] = 0 /\ \A x \in S : f[x] \in Nat
  /\ \A t \in SUBSET S, x \in S : x \notin t => T[t \cup {x}] = T[t] + f[x]

LEMMA TotalsExist ==
  ASSUME NEW f, NEW n \in Nat, \A x \in 0..(n - 1) : f[x] \in Nat
  PROVE  \E T : Totals(T, f, 0..(n - 1))
<1> DEFINE Good == {k \in Nat : k <= n => \E T : Totals(T, f, 0..(k - 1))}
<1>1. 0 \in Good
  <2> DEFINE T == [t \in SUBSET (0..(0 - 1)) |-> 0]
  <2>1. 0..(0 - 1) = {}
    OBVIOUS
  <2>2. T \in [SUBSET (0..(0 - 1)) -> Nat] /\ T[{}] = 0
    OBVIOUS
  <2> HIDE DEF T
  <2>3. Totals(T, f, 0..(0 - 1))
    BY <2>1, <2>2 DEF Totals
  <2> QED BY <2>3
<1>2. ASSUME NEW k \in Good PROVE k + 1 \in Good
  <2>1. SUFFICES ASSUME k + 1 <= n PROVE \E T : Totals(T, f, 0..k)
    <3>1. k + 1 - 1 = k
      OBVIOUS
    <3> QED BY <3>1, <2>1
  <2>2. PICK T : Totals(T, f, 0..(k - 1))
    BY <2>1
  <2> DEFINE more == [t \in SUBSET (0..k) |-> IF k \in t THEN T[t \ {k}] + f[k] ELSE T[t]]
  <2>3. k \in Nat /\ f[k] \in Nat /\ T \in [SUBSET (0..(k - 1)) -> Nat] /\ T[{}] = 0
    BY <2>1, <2>2 DEF Totals
  <2>9. \A x \in 0..k : f[x] \in Nat
    <3>1. \A x \in 0..k : x \in 0..(n - 1)
      BY <2>1
    <3> QED BY <3>1
  <2>4. \A t \in SUBSET (0..k) :
          /\ k \notin t => t \in SUBSET (0..(k - 1)) /\ T[t] \in Nat
          /\ t \ {k} \in SUBSET (0..(k - 1)) /\ T[t \ {k}] \in Nat
    <3>1. \A x : x \in 0..k /\ x # k => x \in 0..(k - 1)
      OBVIOUS
    <3>2. \A t \in SUBSET (0..k) :
            (k \notin t => t \in SUBSET (0..(k - 1))) /\ t \ {k} \in SUBSET (0..(k - 1))
      BY <3>1
    <3> QED BY <2>3, <3>2
  <2>5. more \in [SUBSET (0..k) -> Nat]
    BY <2>3, <2>4
  <2>6. more[{}] = 0
    BY <2>3
  <2>7. ASSUME NEW t \in SUBSET (0..k), NEW x \in 0..k, x \notin t
        PROVE  more[t \cup {x}] = more[t] + f[x]
    <3>1. CASE x = k
      <4>1. (t \cup {x}) \ {k} = t /\ k \in t \cup {x} /\ k \notin t /\ t \cup {x} \in SUBSET (0..k)
        BY <2>7, <3>1
      <4>2. more[t \cup {x}] = T[(t \cup {x}) \ {k}] + f[k] /\ more[t] = T[t]
        BY <4>1
      <4> QED BY <3>1, <4>1, <4>2
    <3>2. CASE x # k /\ k \in t
      <4>1. /\ (t \cup {x}) \ {k} = (t \ {k}) \cup {x} /\ k \in t \cup {x}
            /\ t \cup {x} \in SUBSET (0..k) /\ x \notin t \ {k}
        BY <2>7, <3>2
      <4>2. x \in 0..(k - 1)
        BY <3>2
      <4>3. T[(t \ {k}) \cup {x}] = T[t \ {k}] + f[x]
        BY <2>2, <2>4, <4>1, <4>2 DEF Totals
      <4>4. more[t \cup {x}] = T[(t \cup {x}) \ {k}] + f[k] /\ more[t] = T[t \ {k}] + f[k]
        BY <3>2, <4>1
      <4>5. T[t \ {k}] \in Nat /\ f[x] \in Nat
        <5>1. T[t \ {k}] \in Nat
          BY <2>4
        <5> QED BY <2>9, <5>1
      <4>6. more[t \cup {x}] = (T[t \ {k}] + f[x]) + f[k]
        BY <4>1, <4>3, <4>4
      <4>7. (T[t \ {k}] + f[x]) + f[k] = (T[t \ {k}] + f[k]) + f[x]
        BY <2>3, <4>5
      <4> QED BY <4>4, <4>6, <4>7
    <3>3. CASE x # k /\ k \notin t
      <4>1. k \notin t \cup {x} /\ t \cup {x} \in SUBSET (0..k) /\ x \in 0..(k - 1)
        BY <3>3
      <4>2. more[t \cup {x}] = T[t \cup {x}] /\ more[t] = T[t]
        BY <3>3, <4>1
      <4> QED BY <2>2, <2>4, <2>7, <3>3, <4>1, <4>2 DEF Totals
    <3> QED BY <3>1, <3>2, <3>3
  <2> HIDE DEF more
  <2>8. Totals(more, f, 0..k)
    BY <2>5, <2>6, <2>7, <2>9 DEF Totals
  <2> QED BY <2>8
<1>3. Good = Nat
  <2> HIDE DEF Good
  <2>1. Good \in SUBSET Nat
    BY DEF Good
  <2> QED BY <1>1, <1>2, <2>1, Numbers!Induct
<1>4. n \in Good
  BY <1>3
<1> QED BY <1>4

LEMMA TotalsOfSubset ==
  ASSUME NEW T, NEW f, NEW g, NEW W, Totals(T, f, W), NEW S \in SUBSET W,
         \A x \in S : g[x] = f[x]
  PROVE  Totals([t \in SUBSET S |-> T[t]], g, S)
<1> DEFINE R == [t \in SUBSET S |-> T[t]]
<1>1. R \in [SUBSET S -> Nat] /\ R[{}] = 0 /\ \A x \in S : g[x] \in Nat
  BY DEF Totals
<1>2. ASSUME NEW t \in SUBSET S, NEW x \in S, x \notin t
      PROVE  R[t \cup {x}] = R[t] + g[x]
  <2>1. t \cup {x} \in SUBSET S /\ t \in SUBSET W /\ x \in W
    OBVIOUS
  <2>2. T[t \cup {x}] = T[t] + f[x]
    BY <1>2, <2>1 DEF Totals
  <2>3. R[t \cup {x}] = T[t \cup {x}] /\ R[t] = T[t]
    BY <2>1
  <2> HIDE DEF R
  <2> QED BY <2>2, <2>3
<1> HIDE DEF R
<1>3. Totals(R, g, S)
  BY <1>1, <1>2 DEF Totals
<1> QED BY <1>3 DEF R

LEMMA AnyIn == ASSUME NEW t, t # {} PROVE Any(t) \in t
  BY DEF Any

\* The recursion has a solution, which is the total, and no other.
LEMMA TotalIsRecursion ==
  ASSUME NEW T, NEW f, NEW S, Totals(T, f, S)
  PROVE  Recursion(T, f, S)
<1>1. ASSUME NEW t \in SUBSET S, t # {}
      PROVE  T[t] = f[Any(t)] + T[t \ {Any(t)}]
  <2> DEFINE a == Any(t)  rest == t \ {a}
  <2>1. a \in t
    BY <1>1, AnyIn
  <2> HIDE DEF a
  <2>2. a \in S /\ a \notin rest /\ rest \cup {a} = t /\ rest \in SUBSET S
    BY <2>1
  <2>3. T[t] = T[rest] + f[a]
    <3> HIDE DEF rest
    <3>1. T[rest \cup {a}] = T[rest] + f[a]
      BY <2>2 DEF Totals
    <3> QED BY <2>2, <3>1
  <2>4. T[rest] \in Nat /\ f[a] \in Nat
    BY <2>2 DEF Totals
  <2> QED BY <2>3, <2>4 DEF a
<1>2. T[{}] = 0 /\ T = [t \in SUBSET S |-> T[t]]
  BY DEF Totals
<1> QED BY <1>1, <1>2 DEF Recursion

LEMMA RecursionIsTotal ==
  ASSUME NEW T, NEW f, NEW S, Totals(T, f, S), IsFiniteSet(S),
         NEW it, Recursion(it, f, S)
  PROVE  it[S] = T[S]
<1> DEFINE Good == {n \in Nat : \A t \in SUBSET S : Cardinality(t) = n => it[t] = T[t]}
<1>0. \A t \in SUBSET S : IsFiniteSet(t) /\ Cardinality(t) \in Nat
  BY FS_Subset, FS_CardinalityType
<1>1. 0 \in Good
  <2>1. ASSUME NEW t \in SUBSET S, Cardinality(t) = 0 PROVE it[t] = T[t]
    <3>1. t = {}
      BY <1>0, <2>1, FS_EmptySet
    <3>2. it[{}] = 0
      BY DEF Recursion
    <3> QED BY <3>1, <3>2 DEF Totals
  <2> QED BY <2>1
<1>2. ASSUME NEW n \in Good PROVE n + 1 \in Good
  <2>1. ASSUME NEW t \in SUBSET S, Cardinality(t) = n + 1 PROVE it[t] = T[t]
    <3> DEFINE a == Any(t)  rest == t \ {a}
    <3>1. t # {}
      BY <2>1, FS_EmptySet
    <3>2. a \in t /\ it[t] = f[a] + it[rest]
      BY <3>1, AnyIn DEF Recursion
    <3>6. Recursion(T, f, S)
      BY TotalIsRecursion
    <3>3. T[t] = f[a] + T[rest]
      BY <3>1, <3>6 DEF Recursion
    <3> HIDE DEF a
    <3>4. rest \in SUBSET S /\ Cardinality(rest) = n
      <4>1. IsFiniteSet(t)
        BY <1>0
      <4>2. Cardinality(t \ {a}) = Cardinality(t) - 1
        BY <3>2, <4>1, FS_RemoveElement
      <4> QED BY <2>1, <4>2
    <3>5. it[rest] = T[rest]
      BY <3>4
    <3> QED BY <3>2, <3>3, <3>5
  <2> QED BY <2>1
<1>3. Good = Nat
  BY <1>1, <1>2, Numbers!Induct
<1> QED BY <1>0, <1>3

LEMMA SumIsTotal ==
  ASSUME NEW T, NEW f, NEW S, Totals(T, f, S), IsFiniteSet(S)
  PROVE  SumFunctionOnSet(f, S) = T[S]
<1> DEFINE chosen == CHOOSE it : Recursion(it, f, S)
<1>1. SumFunctionOnSet(f, S) = chosen[S]
  BY DEF SumFunctionOnSet, FoldFunctionOnSet, MapThenFoldSet, Recursion, Any
<1>2. Recursion(chosen, f, S)
  BY TotalIsRecursion
<1> HIDE DEF chosen
<1> QED BY <1>1, <1>2, RecursionIsTotal

LEMMA WorkersFinite ==
  ASSUME NEW S \in SUBSET Worker
  PROVE  IsFiniteSet(S) /\ Cardinality(S) \in Nat
<1>1. IsFiniteSet(Worker)
  BY FS_Interval, ConstantsAssumption DEF Worker
<1> QED BY <1>1, FS_Subset, FS_CardinalityType

\* The sum over no thread is zero.
LEMMA SumOfNone ==
  ASSUME NEW f
  PROVE  SumFunctionOnSet(f, {}) = 0
<1> DEFINE T == [t \in SUBSET {} |-> 0]
<1>1. Totals(T, f, {}) /\ T[{}] = 0
  BY DEF Totals
<1> HIDE DEF T
<1>2. IsFiniteSet({})
  BY FS_EmptySet
<1> QED BY <1>1, <1>2, SumIsTotal

\* One more thread adds its value.
LEMMA SumWithOne ==
  ASSUME NEW f \in [Worker -> Nat], NEW S \in SUBSET Worker, NEW w \in Worker, w \notin S
  PROVE  /\ SumFunctionOnSet(f, S) \in Nat
         /\ SumFunctionOnSet(f, S \cup {w}) = SumFunctionOnSet(f, S) + f[w]
<1>1. PICK T : Totals(T, f, Worker)
  BY TotalsExist, ConstantsAssumption DEF Worker
<1>2. ASSUME NEW U \in SUBSET Worker PROVE SumFunctionOnSet(f, U) = T[U]
  <2> DEFINE R == [t \in SUBSET U |-> T[t]]
  <2>1. Totals(R, f, U)
    BY <1>1, TotalsOfSubset
  <2>2. R[U] = T[U]
    OBVIOUS
  <2> HIDE DEF R
  <2> QED BY <2>1, <2>2, SumIsTotal, WorkersFinite
<1>3. S \cup {w} \in SUBSET Worker
  OBVIOUS
<1>4. T[S] \in Nat /\ T[S \cup {w}] = T[S] + f[w]
  BY <1>1 DEF Totals
<1> QED BY <1>2, <1>3, <1>4

\* What other threads do does not matter.
LEMMA SumOfSame ==
  ASSUME NEW f \in [Worker -> Nat], NEW g \in [Worker -> Nat], NEW S \in SUBSET Worker,
         \A x \in S : g[x] = f[x]
  PROVE  SumFunctionOnSet(g, S) = SumFunctionOnSet(f, S)
<1>1. PICK T : Totals(T, f, Worker)
  BY TotalsExist, ConstantsAssumption DEF Worker
<1> DEFINE R == [t \in SUBSET S |-> T[t]]
<1>2. Totals(R, f, S) /\ Totals(R, g, S)
  BY <1>1, TotalsOfSubset
<1> HIDE DEF R
<1> QED BY <1>2, SumIsTotal, WorkersFinite
(* What OobErrorAccounts says of the running forest.                       *)
Accounted(total, f, S) ==
  total \in SumFunctionOnSet(f, S)..(SumFunctionOnSet(f, S) + Samples * Cardinality(S))

LEMMA AccountsIs ==
  /\ OobErrorAccounts <=> (constructing => Accounted(oob_total[built + 1], oob_error, Finished))
  /\ OobErrorAccounts' <=>
       (constructing' => Accounted(oob_total'[built' + 1], oob_error', Finished'))
  BY DEF OobErrorAccounts, Accounted, Finished

\* A step that changes neither the totals nor the errors of the finished threads.
LEMMA AccountsKept ==
  ASSUME TypeOK, TypeOK', ErrorInv,
         UNCHANGED <<built, constructing, oob_total>>, Finished' = Finished,
         \A v \in Finished : oob_error'[v] = oob_error[v]
  PROVE  ErrorInv'
<1>1. Finished \in SUBSET Worker
  BY DEF Finished
<1>2. SumFunctionOnSet(oob_error', Finished) = SumFunctionOnSet(oob_error, Finished)
  BY <1>1, SumOfSame DEF TypeOK
<1>3. OobErrorAccounts'
  BY <1>2, AccountsIs DEF ErrorInv, Accounted
<1> QED BY <1>3 DEF ErrorInv

\* No thread of a new constructor has finished.
LEMMA AccountsOfNew ==
  ASSUME TypeOK, StaticsInv, ErrorInv, Construct
  PROVE  ErrorInv'
<1>1. built + 1 \in 1..Forests /\ built + 1 > built /\ oob_total[built + 1] = 0
  BY ConstantsAssumption DEF Construct, TypeOK, ErrorInv
<1>2. Finished' = {}
  BY DEF Construct, Finished
<1>3. Accounted(0, oob_error', {})
  <2>1. SumFunctionOnSet(oob_error', {}) = 0 /\ Cardinality({}) = 0
    BY SumOfNone, FS_EmptySet
  <2>2. 0 \in 0..(0 + Samples * 0)
    BY ConstantsAssumption
  <2> QED BY <2>1, <2>2 DEF Accounted
<1>4. UNCHANGED <<built, oob_total>>
  BY DEF Construct
<1>5. OobErrorAccounts'
  BY <1>1, <1>2, <1>3, <1>4, AccountsIs
<1>6. \A f \in 1..Forests : f > built' /\ ~(constructing' /\ f = built' + 1) => oob_total'[f] = 0
  BY <1>4 DEF Construct, ErrorInv
<1> QED BY <1>5, <1>6 DEF ErrorInv

LEMMA AccountsOfJoin ==
  ASSUME TypeOK, StaticsInv, ErrorInv, Join
  PROVE  ErrorInv'
<1>1. built' = built + 1 /\ ~constructing' /\ oob_total' = oob_total /\ built \in Nat
  BY ConstantsAssumption DEF Join, shared, TypeOK
<1>2. OobErrorAccounts'
  BY <1>1, AccountsIs
<1>3. \A f \in 1..Forests : f > built + 1 => oob_total[f] = 0
  BY <1>1 DEF ErrorInv
<1> QED BY <1>1, <1>2, <1>3 DEF ErrorInv

\* A thread that finishes adds its wrong predictions once, and at most one
\* mismatch per sample.
LEMMA AccountsOfFinish ==
  ASSUME TypeOK, StaticsInv, ErrorInv, NEW w \in Worker, Finish(w)
  PROVE  ErrorInv'
<1>1. /\ constructing /\ gclassifiers = built + 1 /\ built + 1 \in 1..Forests
      /\ UNCHANGED <<built, constructing, oob_error>>
  BY ConstantsAssumption DEF Finish, StaticsInv, TypeOK
<1> DEFINE k == Cardinality(Mismatches)
           sum == SumFunctionOnSet(oob_error, Finished)
           c == Cardinality(Finished)
           total == oob_total[built + 1]
<1>2. Finished \in SUBSET Worker /\ w \notin Finished /\ Finished' = Finished \cup {w}
  BY DEF Finished, Finish, TypeOK
<1>3. k \in 0..Samples /\ c \in Nat /\ Cardinality(Finished \cup {w}) = c + 1
  BY <1>2, MismatchesCounted, WorkersFinite, FS_AddElement
<1>4. sum \in Nat /\ SumFunctionOnSet(oob_error, Finished \cup {w}) = sum + oob_error[w]
  BY <1>2, SumWithOne DEF TypeOK
<1>5. total \in sum..(sum + Samples * c)
  BY <1>1, AccountsIs DEF ErrorInv, Accounted
<1>6. total \in Nat /\ oob_error[w] \in Nat /\ oob_total'[built + 1] = total + oob_error[w] + k
  BY <1>1 DEF Finish, TypeOK
<1> HIDE DEF k, sum, c, total
<1>7. total + oob_error[w] + k \in (sum + oob_error[w])..(sum + oob_error[w] + Samples * (c + 1))
  <2>1. Samples * (c + 1) = Samples * c + Samples /\ Samples * c \in Nat
    BY <1>3, ConstantsAssumption
  <2> DEFINE p == Samples * c
             e == oob_error[w]
  <2>2. p \in Nat /\ e \in Nat /\ Samples \in Nat /\ total \in sum..(sum + p)
    BY <1>5, <1>6, <2>1, ConstantsAssumption
  <2> HIDE DEF p, e
  <2>3. total + e + k \in (sum + e)..(sum + e + (p + Samples))
    BY <1>3, <1>4, <1>6, <2>2
  <2> QED BY <2>1, <2>3 DEF p, e
<1>8. Accounted(oob_total'[built' + 1], oob_error', Finished')
  BY <1>1, <1>2, <1>3, <1>4, <1>6, <1>7 DEF Accounted
<1>9. OobErrorAccounts'
  BY <1>8, AccountsIs
<1>10. \A f \in 1..Forests : f # built + 1 => oob_total'[f] = oob_total[f]
  BY <1>1 DEF Finish, TypeOK
<1>11. \A f \in 1..Forests : f > built' /\ ~(constructing' /\ f = built' + 1) => oob_total'[f] = 0
  BY <1>1, <1>10 DEF ErrorInv
<1> QED BY <1>9, <1>11 DEF ErrorInv

----------------------------------------------------------------------------
LEMMA InitInvariant == Init => IInv
<1> SUFFICES ASSUME Init PROVE IInv
  OBVIOUS
<1>1. TypeOK
  <2>1. /\ built \in 0..Forests /\ gclassifiers \in 0..Forests
        /\ oob_total \in [1..Forests -> Nat] /\ oob_error \in [Worker -> Nat]
    BY ConstantsAssumption DEF Init
  <2>2. constructing \in BOOLEAN /\ crashed \in BOOLEAN
    BY DEF Init
  <2>3. distribution \in Votes /\ gdist \in [Sample -> Votes]
    BY NoVotesType DEF Init
  <2>4. /\ classifiers \in [1..Forests -> [Worker -> SUBSET Sample]]
        /\ pc \in [Worker -> {"draw", "store", "test", "done"}]
        /\ drawn \in [Worker -> SUBSET Sample] /\ untested \in [Worker -> SUBSET Sample]
    BY DEF Init, NoTree
  <2> QED BY <2>1, <2>2, <2>3, <2>4 DEF TypeOK
<1>2. StaticsInv /\ TreeInv /\ TableLargeEnough
  BY DEF Init, StaticsInv, TreeInv, TableLargeEnough
<1>3. ForestsInv
  BY DEF Init, ForestsInv
<1>4. ErrorInv
  BY DEF Init, ErrorInv, OobErrorAccounts
<1> QED BY <1>1, <1>2, <1>3, <1>4 DEF IInv

LEMMA ConstructInvariant ==
  ASSUME IInv, Construct
  PROVE  IInv'
<1> USE DEF IInv
<1>1. TypeOK'
  BY NoVotesType, ConstantsAssumption DEF Construct, TypeOK
<1>2. \A w \in Worker : pc'[w] = "draw"
  BY DEF Construct
<1>3. StaticsInv'
  BY DEF Construct, StaticsInv, TypeOK
<1>4. TreeInv'
  <2>1. built + 1 \in 1..Forests /\ built + 1 > built
    BY ConstantsAssumption DEF Construct, TypeOK
  <2>2. \A w \in Worker : classifiers'[built' + 1][w] = NoTree
    BY <2>1 DEF Construct, ForestsInv
  <2> QED BY <1>2, <2>2 DEF TreeInv
<1>5. ForestsInv'
  BY DEF Construct, ForestsInv, TypeOK
<1>6. ErrorInv'
  BY AccountsOfNew
<1> QED BY <1>1, <1>3, <1>4, <1>5, <1>6 DEF Construct, TableLargeEnough

LEMMA JoinInvariant ==
  ASSUME IInv, Join
  PROVE  IInv'
<1> USE DEF IInv
<1>1. built + 1 \in 1..Forests /\ built' = built + 1 /\ ~constructing'
  BY ConstantsAssumption DEF Join, TypeOK, StaticsInv
<1>2. TypeOK'
  <2>1. built' \in 0..Forests
    BY <1>1, ConstantsAssumption DEF TypeOK
  <2>2. constructing' \in BOOLEAN
    BY DEF Join
  <2> QED BY <2>1, <2>2 DEF Join, TypeOK, shared
<1>3. StaticsInv' /\ TreeInv'
  BY <1>1 DEF Join, StaticsInv, TreeInv
<1>4. ForestsInv'
  <2>1. \A w \in Worker : classifiers[built + 1][w] # NoTree
    BY DEF Join, TreeInv
  <2>2. classifiers' = classifiers
    BY DEF Join, shared
  <2>3. ASSUME NEW f \in 1..Forests, f <= built + 1
        PROVE  \A w \in Worker : classifiers[f][w] # NoTree
    <3>1. f <= built \/ f = built + 1
      BY <2>3, <1>1 DEF TypeOK
    <3> QED BY <2>1, <3>1 DEF ForestsInv
  <2>4. ASSUME NEW f \in 1..Forests, f > built + 1
        PROVE  \A w \in Worker : classifiers[f][w] = NoTree
    <3>1. f > built /\ f # built + 1
      BY <2>4, <1>1 DEF TypeOK
    <3> QED BY <3>1 DEF ForestsInv
  <2> QED BY <1>1, <2>2, <2>3, <2>4 DEF ForestsInv
<1>5. ErrorInv'
  BY AccountsOfJoin
<1> QED BY <1>2, <1>3, <1>4, <1>5 DEF Join, TableLargeEnough

LEMMA DrawInvariant ==
  ASSUME IInv, NEW w \in Worker, NEW set \in SUBSET Drawable(distribution), Draw(w, set)
  PROVE  IInv'
<1> USE DEF IInv
<1>1. set \in SUBSET Sample /\ Sample \ set \in SUBSET Sample
  BY DrawableSamples
<1>2. UNCHANGED <<built, constructing, gclassifiers, distribution, gdist, classifiers,
                  oob_total, oob_error, crashed>>
  BY DEF Draw, shared
<1>3. TypeOK'
  BY <1>1, <1>2 DEF Draw, TypeOK
<1>4. StaticsInv' /\ ForestsInv' /\ TableLargeEnough'
  BY <1>2 DEF Draw, TypeOK, StaticsInv, ForestsInv, TableLargeEnough
<1>5. TreeInv'
  BY <1>1, <1>2 DEF Draw, TypeOK, TreeInv
<1>6. ErrorInv'
  <2>1. Finished' = Finished
    BY DEF Draw, TypeOK, Finished
  <2> QED BY <1>2, <1>3, <2>1, AccountsKept
<1> QED BY <1>3, <1>4, <1>5, <1>6

LEMMA StoreInvariant ==
  ASSUME IInv, NEW w \in Worker, Store(w)
  PROVE  IInv'
<1> USE DEF IInv
<1>1. constructing /\ gclassifiers = built + 1 /\ built + 1 \in 1..Forests
  BY ConstantsAssumption DEF Store, StaticsInv, TypeOK
<1>2. /\ classifiers' = [classifiers EXCEPT ![built + 1][w] = drawn[w]]
      /\ drawn[w] \in SUBSET Sample /\ drawn[w] # {} /\ untested[w] \cap drawn[w] = {}
  BY <1>1 DEF Store, TypeOK, TreeInv
<1>3. /\ classifiers'[built + 1][w] = drawn[w]
      /\ \A v \in Worker : v # w => classifiers'[built + 1][v] = classifiers[built + 1][v]
      /\ \A f \in 1..Forests : f # built + 1 => classifiers'[f] = classifiers[f]
  BY <1>1, <1>2 DEF TypeOK
<1>4. TypeOK'
  <2>1. classifiers' \in [1..Forests -> [Worker -> SUBSET Sample]]
    BY <1>1, <1>2 DEF TypeOK
  <2> QED BY <2>1 DEF Store, TypeOK
<1>5. StaticsInv' /\ TableLargeEnough'
  BY <1>1 DEF Store, TypeOK, StaticsInv, TableLargeEnough
<1>6. TreeInv'
  BY <1>1, <1>2, <1>3 DEF Store, TypeOK, TreeInv, NoTree
<1>7. ForestsInv'
  <2>1. UNCHANGED <<built, constructing>>
    BY DEF Store
  <2>2. ASSUME NEW f \in 1..Forests, f # built + 1
        PROVE  classifiers'[f] = classifiers[f]
    BY <1>3, <2>2
  <2>3. ~(built + 1 <= built)
    BY DEF TypeOK
  <2> QED BY <1>1, <2>1, <2>2, <2>3 DEF ForestsInv
<1>8. ErrorInv'
  <2>1. Finished' = Finished /\ UNCHANGED <<built, constructing, oob_total, oob_error>>
    BY DEF Store, TypeOK, Finished
  <2> QED BY <1>4, <2>1, AccountsKept
<1> QED BY <1>4, <1>5, <1>6, <1>7, <1>8

LEMMA TestInvariant ==
  ASSUME IInv, NEW w \in Worker, NEW s \in Sample, NEW predicted \in 0..Classes,
         Test(w, s, predicted)
  PROVE  IInv'
<1> USE DEF IInv
<1>1. UNCHANGED <<built, constructing, gclassifiers, distribution, classifiers,
                  oob_total, pc, drawn>>
      /\ untested' = [untested EXCEPT ![w] = @ \ {s}]
  BY DEF Test
<1>2. TypeOK'
  <2>1. gdist' \in [Sample -> Votes]
    <3>1. CASE gdist' = gdist
      BY <3>1 DEF TypeOK
    <3>2. CASE w \in Sample /\ gdist' = [gdist EXCEPT ![w][IF predicted \in Class
                                           THEN predicted ELSE 0] = @ + 1]
      <4>1. gdist[w] \in [Class -> Nat]
        BY <3>2 DEF TypeOK, Votes
      <4>2. \A c \in Class : [gdist[w] EXCEPT ![c] = @ + 1] \in [Class -> Nat]
        BY <4>1
      <4>3. (IF predicted \in Class THEN predicted ELSE 0) \in Class
        BY ConstantsAssumption DEF Class
      <4> QED BY <3>2, <4>2, <4>3 DEF TypeOK, Votes
    <3> QED BY <3>1, <3>2 DEF Test
  <2>2. oob_error' \in [Worker -> Nat]
    BY DEF Test, TypeOK
  <2>4. crashed' \in BOOLEAN
    BY DEF Test, TypeOK
  <2>3. untested' \in [Worker -> SUBSET Sample]
    BY <1>1 DEF TypeOK
  <2> QED BY <1>1, <2>1, <2>2, <2>3, <2>4 DEF TypeOK
<1>3. StaticsInv' /\ ForestsInv'
  BY <1>1 DEF StaticsInv, ForestsInv
<1>4. TreeInv'
  BY <1>1 DEF TypeOK, TreeInv
<1>5. TableLargeEnough'
  <2>1. N <= Samples => w \in Sample
    BY ConstantsAssumption DEF Worker, Sample
  <2> QED BY <2>1 DEF Test, TableLargeEnough
<1>6. ErrorInv'
  <2>1. Finished' = Finished
    BY <1>1 DEF Finished
  <2>2. \A v \in Finished : oob_error'[v] = oob_error[v]
    BY DEF Test, TypeOK, Finished
  <2> QED BY <1>1, <1>2, <2>1, <2>2, AccountsKept
<1> QED BY <1>2, <1>3, <1>4, <1>5, <1>6

LEMMA FinishInvariant ==
  ASSUME IInv, NEW w \in Worker, Finish(w)
  PROVE  IInv'
<1> USE DEF IInv
<1>1. UNCHANGED <<built, constructing, gclassifiers, distribution, gdist, classifiers,
                  drawn, untested, oob_error, crashed>>
  BY DEF Finish
<1>2. TypeOK'
  <2> DEFINE k == Cardinality(Mismatches)
  <2>1. k \in Nat /\ oob_error[w] \in Nat
    BY MismatchesCounted DEF TypeOK
  <2>2. oob_total' = [oob_total EXCEPT ![gclassifiers] = @ + oob_error[w] + k]
    BY DEF Finish
  <2> HIDE DEF k
  <2>3. oob_total \in [1..Forests -> Nat]
    BY DEF TypeOK
  <2>4. \A f \in 1..Forests : oob_total[f] + oob_error[w] + k \in Nat
    BY <2>1, <2>3
  <2>5. oob_total' \in [1..Forests -> Nat]
    BY ONLY <2>2, <2>3, <2>4
  <2> QED BY <1>1, <2>5 DEF Finish, TypeOK
<1>3. StaticsInv' /\ ForestsInv' /\ TableLargeEnough'
  BY <1>1 DEF Finish, TypeOK, StaticsInv, ForestsInv, TableLargeEnough
<1>4. TreeInv'
  BY <1>1 DEF Finish, TypeOK, TreeInv
<1>5. ErrorInv'
  BY AccountsOfFinish
<1> QED BY <1>2, <1>3, <1>4, <1>5

LEMMA NextInvariant == IInv /\ [Next]_vars => IInv'
<1> SUFFICES ASSUME IInv, [Next]_vars PROVE IInv'
  OBVIOUS
<1>1. CASE UNCHANGED vars
  <2>1. ErrorInv'
    BY <1>1 DEF vars, shared, IInv, ErrorInv, OobErrorAccounts
  <2> QED BY <1>1, <2>1
       DEF vars, shared, IInv, TypeOK, StaticsInv, TreeInv, ForestsInv, TableLargeEnough
<1>2. CASE Construct \/ Join
  BY <1>2, ConstructInvariant, JoinInvariant
<1>3. CASE \E w \in Worker : Work(w)
  BY <1>3, DrawInvariant, StoreInvariant, TestInvariant, FinishInvariant DEF Work
<1> QED BY <1>1, <1>2, <1>3 DEF Next

LEMMA Invariance == Spec => []IInv
  BY InitInvariant, NextInvariant, PTL DEF Spec

----------------------------------------------------------------------------
\* The static members always hold what their types say, and the errors summed
\* up by the threads never become negative.
THEOREM TypeCorrect == Spec => []TypeOK
<1>1. IInv => TypeOK
  BY DEF IInv
<1> QED BY <1>1, Invariance, PTL

\* A forest whose constructor has returned has all its trees, and no thread
\* ever stores one in another forest, though all go through static members.
THEOREM AlwaysForestComplete == Spec => []ForestComplete
<1>1. IInv => ForestComplete
  <2> SUFFICES ASSUME IInv, NEW f \in 1..Forests
               PROVE  IF f <= built THEN \A w \in Worker : classifiers[f][w] # NoTree
                      ELSE \/ constructing /\ f = built + 1
                           \/ \A w \in Worker : classifiers[f][w] = NoTree
    BY DEF ForestComplete
  <2>1. ~(f <= built) => f > built
    BY DEF IInv, TypeOK
  <2> QED BY <2>1 DEF IInv, ForestsInv
<1> QED BY <1>1, Invariance, PTL

\* No thread tests its tree with a sample the tree was trained on.
THEOREM AlwaysOnlyOobTested == Spec => []OnlyOobTested
<1>1. IInv => OnlyOobTested
  BY DEF IInv, TreeInv, OnlyOobTested
<1> QED BY <1>1, Invariance, PTL

\* With no more trees than samples no thread leaves the table of predictions.
THEOREM TableAlwaysLargeEnough == Spec => []TableLargeEnough
<1>1. IInv => TableLargeEnough
  BY DEF IInv
<1> QED BY <1>1, Invariance, PTL

\* The error of the running forest is the sum of what its finished threads got
\* wrong, each counted once, and at most one mismatch per sample and thread.
THEOREM OobErrorAlwaysAccounts == Spec => []OobErrorAccounts
<1>1. IInv => OobErrorAccounts
  BY DEF IInv, ErrorInv
<1> QED BY <1>1, Invariance, PTL

----------------------------------------------------------------------------
(* The first forest as Ensemble sees it.                                   *)
Stored == {v \in Worker : classifiers[1][v] # NoTree}
Members == [w \in Stored |-> "tiny"]

LEMMA InitialEnsemble == Init => First!Init
<1> SUFFICES ASSUME Init PROVE First!Init
  OBVIOUS
<1>1. 1 \in 1..Forests /\ Stored = {}
  BY ConstantsAssumption DEF Init, Stored
<1>2. Members = <<>>
  BY <1>1 DEF Members
<1>3. (built >= 1) = FALSE
  BY DEF Init
<1> QED BY <1>2, <1>3 DEF First!Init, Members, Stored

\* Storing the tree of a thread of the first constructor is a learner joining.
LEMMA StoreJoins ==
  ASSUME IInv, NEW w \in Worker, Store(w)
  PROVE  (built < 1 /\ First!Join(w, "tiny")) \/ (Members' = Members /\ built' = built)
<1>1. constructing /\ gclassifiers = built + 1 /\ built + 1 \in 1..Forests
      /\ built \in Nat /\ built' = built
  BY ConstantsAssumption DEF IInv, Store, StaticsInv, TypeOK
<1>2. /\ classifiers' = [classifiers EXCEPT ![built + 1][w] = drawn[w]]
      /\ drawn[w] # NoTree /\ classifiers[built + 1][w] = NoTree
      /\ classifiers \in [1..Forests -> [Worker -> SUBSET Sample]]
  BY <1>1 DEF IInv, Store, TypeOK, TreeInv, NoTree
<1>3. CASE built >= 1
  <2>1. classifiers'[1] = classifiers[1]
    BY <1>1, <1>2, <1>3, ConstantsAssumption
  <2> QED BY <1>1, <2>1 DEF Members, Stored
<1>4. CASE built = 0
  <2>1. classifiers'[1] = [classifiers[1] EXCEPT ![w] = drawn[w]]
    BY <1>1, <1>2, <1>4
  <2>2. Stored' = Stored \cup {w} /\ w \notin Stored
    BY <1>1, <1>2, <1>4, <2>1 DEF Stored
  <2>3. DOMAIN Members = Stored
    BY DEF Members
  <2>4. Members' = [x \in DOMAIN Members \cup {w} |-> IF x = w THEN "tiny" ELSE Members[x]]
    BY <2>2, <2>3 DEF Members
  <2> QED BY <1>1, <1>4, <2>2, <2>3, <2>4 DEF First!Join, Members, Stored
<1> QED BY <1>1, <1>3, <1>4

LEMMA StepEnsemble ==
  ASSUME IInv, [Next]_vars
  PROVE  First!Next \/ UNCHANGED <<Members, built >= 1>>
<1>1. CASE Construct \/ UNCHANGED vars
  BY <1>1 DEF Construct, vars, shared, Members, Stored
<1>2. CASE Join
  <2>1. built' = built + 1 /\ built \in Nat /\ Members' = Members
    BY <1>2, ConstantsAssumption DEF Join, shared, IInv, TypeOK, Members, Stored
  <2>2. CASE built >= 1
    BY <2>1, <2>2
  <2>3. CASE built = 0
    <3>1. First!Return
      BY <2>1, <2>3 DEF First!Return, Members, Stored
    <3> QED BY <3>1 DEF First!Next
  <2> QED BY <2>1, <2>2, <2>3
<1>3. CASE \E w \in Worker : Work(w)
  <2>1. PICK w \in Worker : Work(w)
    BY <1>3
  <2>2. CASE Store(w)
    <3>1. CASE First!Join(w, "tiny")
      BY <3>1 DEF First!Next
    <3> QED BY <2>2, <3>1, StoreJoins
  <2>3. CASE ~Store(w)
    <3>1. classifiers' = classifiers /\ built' = built
      BY <2>1, <2>3 DEF Work, Draw, Test, Finish, shared
    <3> QED BY <3>1 DEF Members, Stored
  <2> QED BY <2>2, <2>3
<1> QED BY <1>1, <1>2, <1>3 DEF Next

\* The first forest is filled as Ensemble promises: each tree joins once, and
\* when its constructor has returned no later one changes it.
THEOREM ForestIsEnsemble == Spec => ImplementsEnsemble
<1>1. IInv /\ [Next]_vars => [First!Next]_<<Members, built >= 1>>
  BY StepEnsemble
<1>2. Spec => First!Init /\ [][First!Next]_<<Members, built >= 1>>
  BY <1>1, InitialEnsemble, Invariance, PTL DEF Spec
<1> QED BY <1>2, PTL DEF ImplementsEnsemble, First!Spec, Members, Stored
=============================================================================
