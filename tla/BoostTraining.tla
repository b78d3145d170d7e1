--------------------------- MODULE BoostTraining ---------------------------
(***************************************************************************)
(* adaboost::init_boost (decision_engine/classifier.h): one thread per     *)
(* base learner.                                                           *)
(*                                                                         *)
(* The constructor of each instance starts the threads and joins them.  A  *)
(* thread draws a sample, trains a learner on it and measures its error;   *)
(* unless the error is above one half it appends the learner and its error *)
(* to two vectors, under a mutex, and then reads getBeta at its own index, *)
(* without the mutex.  The threads reach the vectors through pThis, a      *)
(* function-local static: it is initialised once, by the first instance    *)
(* that gets there, and keeps that value for the life of the program.      *)
(*                                                                         *)
(* What the threads compute locally (weights, indices of the samples) is   *)
(* left out; the weights they lower are those of a local variable.         *)
(***************************************************************************)
EXTENDS Integers, Sequences

CONSTANTS
  Instances,          \* the order in which the program constructs instances
  N,                  \* getClassifiersNumber()
  Null

Instance == {Instances[n] : n \in DOMAIN Instances}
Worker == 0..(N - 1)

ASSUME ConstantsAssumption ==
  /\ N \in Nat
  /\ Instances \in Seq(Instance) \ {<<>>}
  /\ \A n, k \in DOMAIN Instances : Instances[n] = Instances[k] => n = k
  /\ Null \notin Worker \cup Instance

\* The learner a thread of the nth constructor (from zero) trains.
Learner == (0..Len(Instances)) \X Worker

\* A measured error: above 1/2, below lowError, or in between.
ErrorLevel == {"high", "mid", "low"}

VARIABLES
  built,              \* how many constructors have returned
  constructing,       \* whether the next one runs
  pThis,              \* the static
  mtx,                \* the static mutex: Null or its holder
  classifiers,        \* _classifiers, per instance
  errors,             \* _error, per instance
  pc,                 \* per thread of the running constructor
  error,              \* its local error
  crashed             \* an unlocked read of a vector has failed

vars == <<built, constructing, pThis, mtx, classifiers, errors, pc, error, crashed>>
----------------------------------------------------------------------------
Init ==
  /\ built = 0 /\ constructing = FALSE /\ pThis = Null /\ mtx = Null
  /\ classifiers = [a \in Instance |-> <<>>]
  /\ errors = [a \in Instance |-> <<>>]
  /\ pc = [w \in Worker |-> "done"]
  /\ error = [w \in Worker |-> "mid"]
  /\ crashed = FALSE

\* Mutant: pThis is assigned by every constructor.
ConstructRebinds ==
  /\ ~constructing /\ built < Len(Instances)
  /\ constructing' = TRUE
  /\ pThis' = Instances[built + 1]
  /\ pc' = [w \in Worker |-> "train"]
  /\ UNCHANGED <<built, mtx, classifiers, errors, error, crashed>>

(* The loop that starts the threads.  A thread that has not been started   *)
(* yet is one that has not taken its first step.                           *)
Construct ==
  /\ ~constructing /\ built < Len(Instances)
  /\ constructing' = TRUE
  /\ pThis' = IF pThis = Null /\ N > 0 THEN Instances[built + 1] ELSE pThis
  /\ pc' = [w \in Worker |-> "train"]
  /\ UNCHANGED <<built, mtx, classifiers, errors, error, crashed>>

\* Mutant: threads.join is skipped.
JoinNothing ==
  /\ constructing
  /\ constructing' = FALSE /\ built' = built + 1
  /\ UNCHANGED <<pThis, mtx, classifiers, errors, pc, error, crashed>>

Join ==
  /\ constructing /\ \A w \in Worker : pc[w] = "done"
  /\ constructing' = FALSE /\ built' = built + 1
  /\ UNCHANGED <<pThis, mtx, classifiers, errors, pc, error, crashed>>

(* randomSubset, the learner and its error on the sample.  A learner that  *)
(* is no better than chance is deleted with its sample.                    *)
Train(w, e) ==
  /\ pc[w] = "train"
  /\ error' = [error EXCEPT ![w] = e]
  /\ pc' = [pc EXCEPT ![w] = IF e = "high" THEN "done" ELSE "push"]
  /\ UNCHANGED <<built, constructing, pThis, mtx, classifiers, errors, crashed>>

\* Mutant: the two vectors are not filled under one lock.
PushUnlocked(w) ==
  /\ pc[w] = "push"
  /\ classifiers' = [classifiers EXCEPT ![pThis] = Append(@, [by |-> <<built, w>>, error |-> error[w]])]
  /\ pc' = [pc EXCEPT ![w] = "pushError"]
  /\ mtx' = w
  /\ UNCHANGED <<built, constructing, pThis, errors, error, crashed>>

PushClassifier(w) ==
  /\ pc[w] = "push" /\ mtx = Null
  /\ mtx' = w
  /\ classifiers' = [classifiers EXCEPT ![pThis] = Append(@, [by |-> <<built, w>>, error |-> error[w]])]
  /\ pc' = [pc EXCEPT ![w] = "pushError"]
  /\ UNCHANGED <<built, constructing, pThis, errors, error, crashed>>

\* Mutant: the mutex is not released.
PushErrorKeepsLock(w) ==
  /\ pc[w] = "pushError"
  /\ errors' = [errors EXCEPT ![pThis] = Append(@, error[w])]
  /\ pc' = [pc EXCEPT ![w] = IF error[w] = "low" THEN "done" ELSE "beta"]
  /\ UNCHANGED <<built, constructing, pThis, mtx, classifiers, error, crashed>>

(* ... and the return of a thread whose learner makes no errors.           *)
PushError(w) ==
  /\ pc[w] = "pushError"
  /\ errors' = [errors EXCEPT ![pThis] = Append(@, error[w])]
  /\ mtx' = Null
  /\ pc' = [pc EXCEPT ![w] = IF error[w] = "low" THEN "done" ELSE "beta"]
  /\ UNCHANGED <<built, constructing, pThis, classifiers, error, crashed>>

(* getBeta(w) reads _error[w] without the lock: behind the end of the      *)
(* vector, or while another thread appends to it, anything may happen.     *)
ReadBeta(w) ==
  /\ pc[w] = "beta"
  /\ crashed' \in IF w + 1 > Len(errors[pThis]) \/ mtx # Null THEN BOOLEAN ELSE {FALSE}
  /\ pc' = [pc EXCEPT ![w] = "done"]
  /\ UNCHANGED <<built, constructing, pThis, mtx, classifiers, errors, error>>

Work(w) == (\E e \in ErrorLevel : Train(w, e)) \/ PushClassifier(w) \/ PushError(w) \/ ReadBeta(w)

Next == ~crashed /\ (Construct \/ Join \/ \E w \in Worker : Work(w))

Spec == Init /\ [][Next]_vars

\* The scheduler runs every thread that can take a step.
FairSpec ==
  /\ Spec
  /\ WF_vars(~crashed /\ (Construct \/ Join))
  /\ \A w \in Worker : WF_vars(~crashed /\ Work(w))
----------------------------------------------------------------------------
TypeOK ==
  /\ built \in 0..Len(Instances) /\ constructing \in BOOLEAN /\ crashed \in BOOLEAN
  /\ pThis \in Instance \cup {Null} /\ mtx \in Worker \cup {Null}
  /\ classifiers \in [Instance -> Seq([by : Learner, error : ErrorLevel])]
  /\ errors \in [Instance -> Seq(ErrorLevel)]
  /\ pc \in [Worker -> {"train", "push", "pushError", "beta", "done"}]
  /\ error \in [Worker -> ErrorLevel]

\* posterior pairs the two vectors by position.  Whatever the order in which
\* the threads finish, position n of _error is the error of the learner at
\* position n of _classifiers, and between two pushes both are equally long.
Aligned ==
  \A a \in Instance :
    /\ \A n \in DOMAIN errors[a] : n \in DOMAIN classifiers[a]
                                   /\ errors[a][n] = classifiers[a][n].error
    /\ mtx = Null => Len(errors[a]) = Len(classifiers[a])

\* The threads of every constructor fill the ensemble of the first instance:
\* no later one ever has a learner.
OnlyFirstFilled == \A n \in DOMAIN Instances : n > 1 => classifiers[Instances[n]] = <<>>

\* The ensemble of the first instance is built as Ensemble promises, by the
\* threads of all constructors: it is final when the last of them has returned,
\* with one instance therefore when its own has.
first == Instances[1]
E == INSTANCE Ensemble WITH
       Error <- ErrorLevel, built <- built = Len(Instances),
       members <- [l \in {classifiers[first][n].by : n \in DOMAIN errors[first]} |->
                     errors[first][CHOOSE n \in DOMAIN errors[first] :
                                     classifiers[first][n].by = l]]
ImplementsEnsemble == E!Spec

\* Every constructor returns, unless a stray read brought the process down.
ConstructorsReturn == <>(crashed \/ built = Len(Instances))
=============================================================================
