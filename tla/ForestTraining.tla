--------------------------- MODULE ForestTraining ---------------------------
(***************************************************************************)
(* The constructor of random_forest (decision_engine/classifier.h): one    *)
(* thread per tree, each with a random subset of the samples.              *)
(*                                                                         *)
(* The threads reach the forest under construction through static members  *)
(* that every constructor assigns before it starts them.  A thread draws   *)
(* its samples, trains a tree, stores it at its index, classifies the      *)
(* samples it did not draw (its OOB set), accumulates wrong predictions in *)
(* a table shared by all threads, and at the end compares every row of the *)
(* table with the sample of the same number.  A block under the mutex is   *)
(* one step.                                                               *)
(*                                                                         *)
(* A tree is the set of samples it was trained on, none for a null pointer,*)
(* and it predicts any class.  The importance of the attributes is left    *)
(* out: the threads add zeros to it.  Errors are counted in units of one   *)
(* over the number of samples times the number of trees.                   *)
(***************************************************************************)
EXTENDS Integers, FiniteSets, Functions

CONSTANTS
  Forests,            \* constructed one after the other
  N,                  \* getClassifiersNumber()
  Samples,            \* data.size()
  Classes,            \* getTargetClassCount()
  Target              \* the class of each sample

Worker == 0..(N - 1)
Sample == 0..(Samples - 1)
Class == 0..(Classes - 1)
NoTree == {}

ASSUME ConstantsAssumption ==
  /\ Forests \in Nat \ {0} /\ N \in Nat
  /\ Samples \in Nat /\ Classes \in 1..Samples
  /\ Target \in [Sample -> Class]

VARIABLES
  built,              \* how many constructors have returned
  constructing,
  gclassifiers,       \* the forest the static members point into, 0 if none
  distribution,       \* the weights the samples are drawn with
  gdist,              \* global_oob_predictions
  classifiers,        \* _classifiers, per forest
  oob_total,          \* _oob_error, per forest
  pc, drawn, untested, oob_error,     \* per thread
  crashed             \* an access beyond the end of the table

shared == <<gclassifiers, distribution, gdist, classifiers, oob_total>>
vars == <<built, constructing, shared, pc, drawn, untested, oob_error, crashed>>
----------------------------------------------------------------------------
(* class_dist::cumulative over a distribution.  The last entry is set to   *)
(* one, in units of the sum of the weights.                                *)
Cumulative(d) ==
  [c \in Class |->
     IF c = Classes - 1
     THEN IF SumFunction(d) = 0 THEN 1 ELSE SumFunction(d)
     ELSE SumFunctionOnSet(d, 0..c)]

(* The samples randomSubsetOob can draw: lower_bound of a number in [0, 1) *)
(* is the first entry not below it, so zero or one higher than all before. *)
Drawable(d) ==
  {s \in Class : \A c \in 0..(s - 1) : Cumulative(d)[c] < Cumulative(d)[s]}

NoVotes == [c \in Class |-> 0]

\* class_dist::mode: the first of the largest entries.
Mode(votes) ==
  CHOOSE c \in Class : \A k \in Class : votes[k] <= votes[c] /\ (votes[k] = votes[c] => c <= k)

Init ==
  /\ built = 0 /\ constructing = FALSE /\ gclassifiers = 0
  /\ distribution = NoVotes
  /\ gdist = [s \in Sample |-> NoVotes]
  /\ classifiers = [f \in 1..Forests |-> [w \in Worker |-> NoTree]]
  /\ oob_total = [f \in 1..Forests |-> 0]
  /\ pc = [w \in Worker |-> "done"]
  /\ drawn = [w \in Worker |-> {}]
  /\ untested = [w \in Worker |-> {}]
  /\ oob_error = [w \in Worker |-> 0]
  /\ crashed = FALSE

\* Mutant: the static members are initialised once instead of assigned.
ConstructBindsOnce ==
  /\ ~constructing /\ built < Forests
  /\ constructing' = TRUE
  /\ gclassifiers' = IF gclassifiers = 0 THEN built + 1 ELSE gclassifiers
  /\ distribution' = NoVotes
  /\ gdist' = [s \in Sample |-> NoVotes]
  /\ pc' = [w \in Worker |-> "draw"]
  /\ oob_error' = [w \in Worker |-> 0]
  /\ UNCHANGED <<built, classifiers, oob_total, drawn, untested, crashed>>

(* Everything up to the start of the threads.  distribution.setup leaves   *)
(* every weight at zero.                                                   *)
Construct ==
  /\ ~constructing /\ built < Forests
  /\ constructing' = TRUE
  /\ gclassifiers' = built + 1
  /\ distribution' = NoVotes
  /\ gdist' = [s \in Sample |-> NoVotes]
  /\ pc' = [w \in Worker |-> "draw"]
  /\ oob_error' = [w \in Worker |-> 0]
  /\ UNCHANGED <<built, classifiers, oob_total, drawn, untested, crashed>>

\* Mutant: the constructor returns when one thread has finished.
JoinOne ==
  /\ constructing /\ \E w \in Worker : pc[w] = "done"
  /\ constructing' = FALSE /\ built' = built + 1
  /\ UNCHANGED <<shared, pc, drawn, untested, oob_error, crashed>>

Join ==
  /\ constructing /\ \A w \in Worker : pc[w] = "done"
  /\ constructing' = FALSE /\ built' = built + 1
  /\ UNCHANGED <<shared, pc, drawn, untested, oob_error, crashed>>

\* randomSubsetOob: at least one sample is drawn, the others are OOB.
Draw(w, set) ==
  /\ pc[w] = "draw"
  /\ set # {}
  /\ drawn' = [drawn EXCEPT ![w] = set]
  /\ untested' = [untested EXCEPT ![w] = Sample \ set]
  /\ pc' = [pc EXCEPT ![w] = "store"]
  /\ UNCHANGED <<built, constructing, shared, oob_error, crashed>>

Store(w) ==
  /\ pc[w] = "store"
  /\ classifiers' = [classifiers EXCEPT ![gclassifiers][w] = drawn[w]]
  /\ pc' = [pc EXCEPT ![w] = "test"]
  /\ UNCHANGED <<built, constructing, gclassifiers, distribution, gdist, oob_total,
                 drawn, untested, oob_error, crashed>>

(* One turn of the loop over the OOB set.  A wrong prediction is counted   *)
(* in the row with the index of the tree, as class 0 if it is no class.    *)
Test(w, s, predicted) ==
  /\ pc[w] = "test" /\ s \in untested[w] /\ \A t \in untested[w] : s <= t
  /\ untested' = [untested EXCEPT ![w] = @ \ {s}]
  /\ IF predicted = Target[s] THEN UNCHANGED <<oob_error, gdist, crashed>>
     ELSE /\ oob_error' = [oob_error EXCEPT ![w] = @ + 1]
          /\ IF w \in Sample
             THEN /\ gdist' = [gdist EXCEPT ![w][IF predicted \in Class THEN predicted ELSE 0] = @ + 1]
                  /\ UNCHANGED crashed
             ELSE crashed' \in BOOLEAN /\ UNCHANGED gdist
  /\ UNCHANGED <<built, constructing, gclassifiers, distribution, classifiers,
                 oob_total, pc, drawn>>

Mismatches == {s \in Sample : Target[s] # Mode(gdist[s])}

\* Mutant: the error found so far is overwritten.
FinishOverwrites(w) ==
  /\ pc[w] = "test" /\ untested[w] = {}
  /\ oob_total' = [oob_total EXCEPT ![gclassifiers] = oob_error[w] + Cardinality(Mismatches)]
  /\ pc' = [pc EXCEPT ![w] = "done"]
  /\ UNCHANGED <<built, constructing, gclassifiers, distribution, gdist, classifiers,
                 drawn, untested, oob_error, crashed>>

(* The last block under the mutex: rows that disagree with the sample of   *)
(* their number are added to the errors of this thread, and these to those *)
(* of the forest.                                                          *)
Finish(w) ==
  /\ pc[w] = "test" /\ untested[w] = {}
  /\ oob_total' = [oob_total EXCEPT ![gclassifiers] =
                     @ + oob_error[w] + Cardinality(Mismatches)]
  /\ pc' = [pc EXCEPT ![w] = "done"]
  /\ UNCHANGED <<built, constructing, gclassifiers, distribution, gdist, classifiers,
                 drawn, untested, oob_error, crashed>>

Work(w) ==
  \/ \E set \in SUBSET Drawable(distribution) : Draw(w, set)
  \/ Store(w)
  \/ \E s \in Sample, predicted \in 0..Classes : Test(w, s, predicted)
  \/ Finish(w)

Next == ~crashed /\ (Construct \/ Join \/ \E w \in Worker : Work(w))

Spec == Init /\ [][Next]_vars
----------------------------------------------------------------------------
Votes == [Class -> Nat]

TypeOK ==
  /\ built \in 0..Forests /\ constructing \in BOOLEAN /\ crashed \in BOOLEAN
  /\ gclassifiers \in 0..Forests
  /\ distribution \in Votes /\ gdist \in [Sample -> Votes]
  /\ classifiers \in [1..Forests -> [Worker -> SUBSET Sample]]
  /\ oob_total \in [1..Forests -> Nat]
  /\ pc \in [Worker -> {"draw", "store", "test", "done"}]
  /\ drawn \in [Worker -> SUBSET Sample] /\ untested \in [Worker -> SUBSET Sample]
  /\ oob_error \in [Worker -> Nat]

\* Every forest whose constructor has returned has all its trees, and none of a
\* later forest has been stored in it: posterior calls every one of them.
ForestComplete ==
  \A f \in 1..Forests :
    IF f <= built THEN \A w \in Worker : classifiers[f][w] # NoTree
    ELSE (constructing /\ f = built + 1) \/ \A w \in Worker : classifiers[f][w] = NoTree

\* The error of the running forest holds the wrong predictions of each finished
\* thread once, and of each of them at most one mismatch per sample.
OobErrorAccounts ==
  constructing =>
    LET finished == {w \in Worker : pc[w] = "done"}
        wrong == SumFunctionOnSet(oob_error, finished)
    IN oob_total[built + 1] \in wrong..(wrong + Samples * Cardinality(finished))

\* A thread never tests its tree with a sample the tree was trained on.
OnlyOobTested ==
  constructing => \A w \in Worker : pc[w] = "test" =>
    classifiers[built + 1][w] # NoTree /\ untested[w] \cap classifiers[built + 1][w] = {}

\* As long as there are no more trees than samples, no thread leaves the table.
TableLargeEnough == N <= Samples => ~crashed

\* The first forest is built as Ensemble promises, and it no longer changes while
\* the next is trained through the same static members.
First == INSTANCE Ensemble WITH
           Learner <- Worker, Error <- {"tiny"}, built <- built >= 1,
           members <- [w \in {v \in Worker : classifiers[1][v] # NoTree} |-> "tiny"]
ImplementsEnsemble == First!Spec
=============================================================================
