------------------------ MODULE BoostTrainingProofs ------------------------
(***************************************************************************)
(* Machine-checked proofs about BoostTraining, for any number of threads   *)
(* and any sequence of instances.                                          *)
(***************************************************************************)
EXTENDS BoostTraining, SequenceTheorems, TLAPS

\* The mutex is held exactly between the two pushes of a thread.
MutexInv == \A w \in Worker : pc[w] = "pushError" <=> mtx = w

\* Threads run inside a constructor only, and then pThis is the first instance.
ThisInv ==
  /\ constructing => built < Len(Instances)
  /\ pThis # Null => pThis = Instances[1] /\ Len(Instances) > 0
  /\ pThis = Null /\ N > 0 => built = 0 /\ ~constructing
  /\ \A w \in Worker : pc[w] # "done" => pThis # Null /\ constructing

\* Learners c and errors e agree as far as e goes, and c is longer by extra.
Paired(c, e, extra) ==
  /\ Len(c) = Len(e) + extra
  /\ \A n \in 1..Len(e) : e[n] = c[n].error

\* Only the holder of the mutex has one learner more than errors.
VectorsInv ==
  /\ \A a \in Instance : a # pThis \/ mtx = Null => Paired(classifiers[a], errors[a], 0)
  /\ mtx # Null =>
       /\ Paired(classifiers[pThis], errors[pThis], 1)
       /\ classifiers[pThis][Len(errors[pThis]) + 1].error = error[mtx]
  /\ \A a \in Instance : a # Instances[1] => classifiers[a] = <<>>

NoHighInv ==
  /\ \A w \in Worker : pc[w] \in {"push", "pushError", "beta"} => error[w] # "high"
  /\ \A a \in Instance : \A n \in 1..Len(errors[a]) : errors[a][n] # "high"

IInv == TypeOK /\ MutexInv /\ ThisInv /\ VectorsInv /\ NoHighInv

Learners == [by : Learner, error : ErrorLevel]
----------------------------------------------------------------------------
LEMMA InstanceFacts ==
  /\ \A n \in 1..Len(Instances) : Instances[n] \in Instance
  /\ DOMAIN Instances = 1..Len(Instances) /\ Len(Instances) \in Nat
  /\ Null \notin Instance /\ Null \notin Worker
  /\ \A n \in 1..Len(Instances) : n > 1 => Instances[n] # Instances[1]
  BY ConstantsAssumption DEF Instance

\* Appending to the learners leaves one more than there are errors; appending
\* the error of the last one restores the balance.
LEMMA AppendLearner ==
  ASSUME NEW c \in Seq(Learners), NEW e \in Seq(ErrorLevel), NEW x \in Learners,
         Paired(c, e, 0)
  PROVE  Paired(Append(c, x), e, 1) /\ Append(c, x)[Len(e) + 1] = x
<1>1. Len(c) \in Nat /\ Len(e) \in Nat /\ Len(Append(c, x)) = Len(c) + 1
  BY AppendProperties
<1>2. Append(c, x)[Len(c) + 1] = x
  BY AppendProperties
<1>3. \A n \in 1..Len(c) : Append(c, x)[n] = c[n]
  BY AppendProperties
<1> QED BY <1>1, <1>2, <1>3 DEF Paired

LEMMA AppendError ==
  ASSUME NEW c \in Seq(Learners), NEW e \in Seq(ErrorLevel), NEW x \in ErrorLevel,
         Paired(c, e, 1), c[Len(e) + 1].error = x
  PROVE  Paired(c, Append(e, x), 0)
<1>1. Len(c) \in Nat /\ Len(e) \in Nat /\ Len(Append(e, x)) = Len(e) + 1
  BY AppendProperties
<1>2. Append(e, x)[Len(e) + 1] = x
  BY AppendProperties
<1>3. \A n \in 1..Len(e) : Append(e, x)[n] = e[n]
  BY AppendProperties
<1>4. \A n \in 1..(Len(e) + 1) : n \in 1..Len(e) \/ n = Len(e) + 1
  BY <1>1
<1> QED BY <1>1, <1>2, <1>3, <1>4 DEF Paired

LEMMA InitInvariant == Init => IInv
<1> SUFFICES ASSUME Init PROVE IInv
  OBVIOUS
<1> USE InstanceFacts
<1>1. \A a \in Instance : classifiers[a] = <<>> /\ errors[a] = <<>>
  BY DEF Init
<1>2. TypeOK
  <2>1. classifiers \in [Instance -> Seq([by : Learner, error : ErrorLevel])]
    BY EmptySeq DEF Init
  <2>2. errors \in [Instance -> Seq(ErrorLevel)]
    BY EmptySeq DEF Init
  <2>3. "mid" \in ErrorLevel
    BY DEF ErrorLevel
  <2>4. error \in [Worker -> ErrorLevel]
    BY <2>3 DEF Init
  <2>5. built \in 0..Len(Instances)
    BY DEF Init
  <2>6. pc \in [Worker -> {"train", "push", "pushError", "beta", "done"}]
    BY DEF Init
  <2> QED BY <2>1, <2>2, <2>4, <2>5, <2>6 DEF Init, TypeOK
<1>3. VectorsInv
  BY <1>1 DEF VectorsInv, Paired, Init
<1>4. MutexInv
  BY DEF MutexInv, Init
<1>5. ThisInv
  BY DEF ThisInv, Init
<1>6. NoHighInv
  BY <1>1 DEF NoHighInv, Init
<1> QED BY <1>2, <1>3, <1>4, <1>5, <1>6 DEF IInv

LEMMA ConstructInvariant ==
  ASSUME IInv, Construct
  PROVE  IInv'
<1> USE InstanceFacts DEF IInv
<1>1. built + 1 \in 1..Len(Instances)
  BY DEF Construct, TypeOK
<1>2. TypeOK'
  BY <1>1 DEF Construct, TypeOK
<1>3. ThisInv'
  <2>1. \A w \in Worker : N > 0
    BY ConstantsAssumption DEF Worker
  <2>2. pThis = Null /\ N > 0 => pThis' = Instances[1]
    BY <1>1 DEF Construct, ThisInv
  <2>3. 1 \in 1..Len(Instances) /\ Instances[1] # Null
    BY <1>1
  <2>4. pThis' # Null => pThis' = Instances[1] /\ Len(Instances) > 0
    BY <2>2, <2>3 DEF Construct, ThisInv
  <2>5. N > 0 => pThis' # Null
    BY <2>2, <2>3 DEF Construct
  <2>6. constructing' /\ built' = built /\ built < Len(Instances)
    BY DEF Construct
  <2> QED BY <2>1, <2>4, <2>5, <2>6 DEF ThisInv
<1>4. mtx = Null /\ mtx' = Null
  <2>1. \A w \in Worker : mtx # w
    BY DEF Construct, ThisInv, MutexInv
  <2> QED BY <2>1 DEF TypeOK, Construct
<1>5. VectorsInv'
  BY <1>4 DEF VectorsInv, Construct
<1>6. MutexInv'
  BY <1>4 DEF MutexInv, Construct
<1>7. NoHighInv'
  BY DEF NoHighInv, Construct
<1> QED BY <1>2, <1>3, <1>5, <1>6, <1>7

LEMMA JoinInvariant ==
  ASSUME IInv, Join
  PROVE  IInv'
<1> USE InstanceFacts DEF IInv
<1>1. TypeOK'
  <2>1. built' \in 0..Len(Instances)
    BY DEF Join, TypeOK, ThisInv
  <2> QED BY <2>1 DEF Join, TypeOK
<1>2. MutexInv' /\ NoHighInv'
  BY DEF Join, MutexInv, NoHighInv
<1>3. VectorsInv'
  BY DEF Join, VectorsInv
<1>4. ThisInv'
  BY DEF Join, ThisInv
<1> QED BY <1>1, <1>2, <1>3, <1>4

\* The steps of a thread leave what ThisInv says of the constructors alone.
LEMMA TrainInvariant ==
  ASSUME IInv, NEW w \in Worker, NEW x \in ErrorLevel, Train(w, x)
  PROVE  IInv'
<1> USE InstanceFacts DEF IInv
<1>1. TypeOK'
  BY DEF Train, TypeOK
<1>2. MutexInv'
  BY DEF Train, TypeOK, MutexInv
<1>3. ThisInv'
  BY DEF Train, TypeOK, ThisInv
<1>4. mtx = Null \/ mtx # w
  BY DEF Train, MutexInv
<1>5. VectorsInv'
  BY <1>4 DEF Train, TypeOK, VectorsInv
<1>6. NoHighInv'
  BY DEF Train, TypeOK, NoHighInv
<1> QED BY <1>1, <1>2, <1>3, <1>5, <1>6

LEMMA PushClassifierInvariant ==
  ASSUME IInv, NEW w \in Worker, PushClassifier(w)
  PROVE  IInv'
<1> USE InstanceFacts DEF IInv
<1>0. /\ pThis \in Instance /\ pThis = Instances[1]
      /\ [by |-> <<built, w>>, error |-> error[w]] \in Learners /\ error[w] \in ErrorLevel
  BY DEF PushClassifier, TypeOK, ThisInv, Learner, Learners
<1> DEFINE x == [by |-> <<built, w>>, error |-> error[w]]
           c == classifiers[pThis]
           e == errors[pThis]
<1>1. c \in Seq(Learners) /\ e \in Seq(ErrorLevel) /\ Paired(c, e, 0)
  BY <1>0 DEF TypeOK, Learners, PushClassifier, VectorsInv
<1>2. Append(c, x) \in Seq(Learners)
  BY <1>0, <1>1, AppendProperties
<1>3. classifiers' = [classifiers EXCEPT ![pThis] = Append(c, x)]
  BY DEF PushClassifier
<1>4. TypeOK'
  <2>1. classifiers' \in [Instance -> Seq(Learners)]
    BY <1>0, <1>2, <1>3 DEF TypeOK, Learners
  <2> QED BY <2>1 DEF PushClassifier, TypeOK, Learners
<1>5. MutexInv'
  BY DEF PushClassifier, TypeOK, MutexInv
<1>6. ThisInv'
  BY DEF PushClassifier, TypeOK, ThisInv
<1>7. VectorsInv'
  <2>1. classifiers'[pThis] = Append(c, x) /\ errors' = errors /\ pThis' = pThis
        /\ mtx' = w /\ mtx' # Null /\ error' = error
    BY <1>0, <1>3 DEF PushClassifier, TypeOK
  <2>2. \A a \in Instance : a # pThis => classifiers'[a] = classifiers[a]
    BY <1>3 DEF TypeOK
  <2>3. Paired(Append(c, x), e, 1) /\ Append(c, x)[Len(e) + 1] = x
    BY <1>0, <1>1, AppendLearner
  <2>4. \A a \in Instance : a # pThis => Paired(classifiers'[a], errors'[a], 0)
    BY <2>1, <2>2 DEF VectorsInv
  <2>5. \A a \in Instance : a # Instances[1] => classifiers'[a] = <<>>
    BY <1>0, <2>2 DEF VectorsInv
  <2>6. Paired(classifiers'[pThis'], errors'[pThis'], 1)
    BY <2>1, <2>3
  <2>7. classifiers'[pThis'][Len(errors'[pThis']) + 1].error = error'[mtx']
    <3>1. x.error = error[w]
      OBVIOUS
    <3>2. Append(c, x)[Len(e) + 1].error = x.error
      BY <2>3
    <3>3. classifiers'[pThis'] = Append(c, x) /\ errors'[pThis'] = e /\ error'[mtx'] = error[w]
      BY <2>1
    <3> HIDE DEF x, c, e
    <3> QED BY <3>1, <3>2, <3>3
  <2>8. \A a \in Instance : a # pThis' \/ mtx' = Null => Paired(classifiers'[a], errors'[a], 0)
    BY <2>1, <2>4
  <2> HIDE DEF x, c, e
  <2> QED BY <2>5, <2>6, <2>7, <2>8 DEF VectorsInv
<1>8. NoHighInv'
  BY DEF PushClassifier, TypeOK, NoHighInv
<1> QED BY <1>4, <1>5, <1>6, <1>7, <1>8

LEMMA PushErrorInvariant ==
  ASSUME IInv, NEW w \in Worker, PushError(w)
  PROVE  IInv'
<1> USE InstanceFacts DEF IInv
<1>0. /\ pThis \in Instance /\ pThis = Instances[1] /\ mtx = w /\ mtx # Null
      /\ error[w] \in ErrorLevel /\ error[w] # "high"
  BY DEF PushError, TypeOK, ThisInv, MutexInv, NoHighInv
<1> DEFINE c == classifiers[pThis]
           e == errors[pThis]
<1>1. c \in Seq(Learners) /\ e \in Seq(ErrorLevel)
      /\ Paired(c, e, 1) /\ c[Len(e) + 1].error = error[w]
  BY <1>0 DEF TypeOK, Learners, VectorsInv
<1>2. /\ Append(e, error[w]) \in Seq(ErrorLevel)
      /\ Len(Append(e, error[w])) = Len(e) + 1 /\ Len(e) \in Nat
      /\ Append(e, error[w])[Len(e) + 1] = error[w]
      /\ \A n \in 1..Len(e) : Append(e, error[w])[n] = e[n]
  BY <1>0, <1>1, AppendProperties
<1>3. errors' = [errors EXCEPT ![pThis] = Append(e, error[w])]
  BY DEF PushError
<1>4. TypeOK'
  <2>1. errors' \in [Instance -> Seq(ErrorLevel)]
    BY <1>0, <1>2, <1>3 DEF TypeOK
  <2> QED BY <2>1 DEF PushError, TypeOK
<1>5. MutexInv'
  <2>1. \A v \in Worker : v # w => pc[v] # "pushError" /\ pc'[v] = pc[v]
    BY <1>0 DEF PushError, MutexInv, TypeOK
  <2>2. pc'[w] # "pushError" /\ mtx' = Null
    BY DEF PushError, TypeOK
  <2> QED BY <2>1, <2>2 DEF MutexInv
<1>6. ThisInv'
  BY DEF PushError, TypeOK, ThisInv
<1>9. errors'[pThis] = Append(e, error[w]) /\ classifiers' = classifiers
      /\ pThis' = pThis /\ mtx' = Null /\ error' = error
  BY <1>0, <1>3 DEF PushError, TypeOK
<1>10. \A a \in Instance : a # pThis => errors'[a] = errors[a]
  BY <1>3 DEF TypeOK
<1>7. VectorsInv'
  <2>1. Paired(c, Append(e, error[w]), 0)
    BY <1>0, <1>1, AppendError
  <2>2. \A a \in Instance : Paired(classifiers'[a], errors'[a], 0)
    BY <1>9, <1>10, <2>1 DEF VectorsInv
  <2> QED BY <1>9, <2>2 DEF VectorsInv
<1>8. NoHighInv'
  <2>1. \A n \in 1..Len(errors'[pThis]) : errors'[pThis][n] # "high"
    <3>1. \A n \in 1..(Len(e) + 1) : n \in 1..Len(e) \/ n = Len(e) + 1
      BY <1>2
    <3> QED BY <1>0, <1>2, <1>9, <3>1 DEF NoHighInv
  <2>2. \A a \in Instance : \A n \in 1..Len(errors'[a]) : errors'[a][n] # "high"
    BY <1>10, <2>1 DEF NoHighInv
  <2>3. \A v \in Worker : pc'[v] \in {"push", "pushError", "beta"} => error[v] # "high"
    BY <1>0 DEF PushError, TypeOK, NoHighInv
  <2> QED BY <1>9, <2>2, <2>3 DEF NoHighInv
<1> QED BY <1>4, <1>5, <1>6, <1>7, <1>8

LEMMA ReadBetaInvariant ==
  ASSUME IInv, NEW w \in Worker, ReadBeta(w)
  PROVE  IInv'
<1> USE InstanceFacts DEF IInv
<1>1. TypeOK'
  BY DEF ReadBeta, TypeOK
<1>2. MutexInv'
  BY DEF ReadBeta, TypeOK, MutexInv
<1>3. ThisInv'
  BY DEF ReadBeta, TypeOK, ThisInv
<1>4. VectorsInv'
  BY DEF ReadBeta, TypeOK, VectorsInv
<1>5. NoHighInv'
  BY DEF ReadBeta, TypeOK, NoHighInv
<1> QED BY <1>1, <1>2, <1>3, <1>4, <1>5

LEMMA Invariant == Spec => []IInv
<1>1. Init => IInv
  BY InitInvariant
<1>2. IInv /\ [Next]_vars => IInv'
  <2> SUFFICES ASSUME IInv, [Next]_vars PROVE IInv'
    OBVIOUS
  <2>1. CASE Construct
    BY <2>1, ConstructInvariant
  <2>2. CASE Join
    BY <2>2, JoinInvariant
  <2>3. ASSUME NEW w \in Worker, Work(w) PROVE IInv'
    <3>1. CASE \E x \in ErrorLevel : Train(w, x)
      BY <3>1, TrainInvariant
    <3>2. CASE PushClassifier(w)
      BY <3>2, PushClassifierInvariant
    <3>3. CASE PushError(w)
      BY <3>3, PushErrorInvariant
    <3>4. CASE ReadBeta(w)
      BY <3>4, ReadBetaInvariant
    <3> QED BY <2>3, <3>1, <3>2, <3>3, <3>4 DEF Work
  <2>4. CASE UNCHANGED vars
    BY <2>4 DEF vars, IInv, TypeOK, MutexInv, ThisInv, VectorsInv, NoHighInv
  <2> QED BY <2>1, <2>2, <2>3, <2>4 DEF Next
<1> QED BY <1>1, <1>2, PTL DEF Spec

----------------------------------------------------------------------------
\* Whatever the order in which the threads of init_boost finish, and however
\* many there are, position n of _error belongs to position n of _classifiers.
THEOREM AlwaysAligned == Spec => []Aligned
<1>1. IInv => Aligned
  <2> SUFFICES ASSUME IInv, NEW a \in Instance
               PROVE  /\ \A n \in DOMAIN errors[a] : n \in DOMAIN classifiers[a]
                                                     /\ errors[a][n] = classifiers[a][n].error
                      /\ mtx = Null => Len(errors[a]) = Len(classifiers[a])
    BY DEF Aligned
  <2>1. errors[a] \in Seq(ErrorLevel) /\ classifiers[a] \in Seq(Learners)
    BY DEF IInv, TypeOK, Learners
  <2>2. DOMAIN errors[a] = 1..Len(errors[a]) /\ DOMAIN classifiers[a] = 1..Len(classifiers[a])
        /\ Len(errors[a]) \in Nat /\ Len(classifiers[a]) \in Nat
    BY <2>1
  <2>3. Paired(classifiers[a], errors[a], 0) \/ Paired(classifiers[a], errors[a], 1)
    BY DEF IInv, VectorsInv
  <2>4. mtx = Null => Paired(classifiers[a], errors[a], 0)
    BY DEF IInv, VectorsInv
  <2> QED BY <2>2, <2>3, <2>4 DEF Paired
<1> QED BY <1>1, Invariant, PTL

\* No instance but the first ever gets a learner, however many are built.
THEOREM AlwaysOnlyFirstFilled == Spec => []OnlyFirstFilled
<1>1. IInv => OnlyFirstFilled
  BY InstanceFacts DEF IInv, VectorsInv, OnlyFirstFilled
<1> QED BY <1>1, Invariant, PTL

\* A learner with an error above one half never enters an ensemble.
THEOREM NeverHighError == Spec => []NoHighInv
<1>1. IInv => NoHighInv
  BY DEF IInv
<1> QED BY <1>1, Invariant, PTL
----------------------------------------------------------------------------
(* The refinement of Ensemble.  A learner is named by its thread and the   *)
(* number of its constructor: none joins twice because its thread is past  *)
(* the push, or its constructor has returned.                              *)
LearnersOnce ==
  /\ \A n \in 1..Len(classifiers[first]) :
       \E k \in 0..built, w \in Worker :
         /\ classifiers[first][n].by = <<k, w>>
         /\ k = built => constructing /\ pc[w] \in {"pushError", "beta", "done"}
  /\ \A n, m \in 1..Len(classifiers[first]) :
       classifiers[first][n].by = classifiers[first][m].by => n = m

LEMMA FirstFacts ==
  ASSUME IInv
  PROVE  /\ first \in Instance /\ built \in Nat
         /\ classifiers[first] \in Seq(Learners) /\ errors[first] \in Seq(ErrorLevel)
         /\ pThis # Null => pThis = first
<1>1. first \in Instance
  BY InstanceFacts, ConstantsAssumption DEF first
<1>2. built \in Nat
  BY InstanceFacts DEF IInv, TypeOK
<1>3. classifiers[first] \in Seq(Learners) /\ errors[first] \in Seq(ErrorLevel)
  BY <1>1 DEF IInv, TypeOK, Learners
<1>4. pThis # Null => pThis = first
  BY DEF IInv, ThisInv, first
<1> QED BY <1>1, <1>2, <1>3, <1>4

LEMMA LearnersOnceInit == Init => LearnersOnce
<1>1. first \in Instance
  BY InstanceFacts, ConstantsAssumption DEF first
<1> QED BY <1>1 DEF Init, LearnersOnce

LEMMA LearnersOncePush ==
  ASSUME IInv, LearnersOnce, NEW w \in Worker, PushClassifier(w)
  PROVE  LearnersOnce'
<1> DEFINE c == classifiers[first]
           x == [by |-> <<built, w>>, error |-> error[w]]
<1>1. pThis = first /\ constructing /\ x \in Learners
  BY FirstFacts DEF PushClassifier, IInv, ThisInv, TypeOK, Learners, Learner
<1>2. /\ classifiers'[first] = Append(c, x)
      /\ built' = built /\ constructing' = constructing /\ pc' = [pc EXCEPT ![w] = "pushError"]
      /\ pc[w] = "push"
  BY <1>1, FirstFacts DEF PushClassifier, IInv, TypeOK
<1>3. /\ c \in Seq(Learners) /\ Len(c) \in Nat /\ Len(Append(c, x)) = Len(c) + 1
      /\ Append(c, x)[Len(c) + 1] = x
      /\ \A n \in 1..Len(c) : Append(c, x)[n] = c[n]
  BY <1>1, FirstFacts, AppendProperties
<1>4. \A n \in 1..Len(c) : c[n].by # <<built, w>>
  BY <1>2 DEF LearnersOnce
<1>5. pc \in [Worker -> {"train", "push", "pushError", "beta", "done"}]
  BY DEF IInv, TypeOK
<1>6. \A n \in 1..Len(Append(c, x)) : n \in 1..Len(c) \/ n = Len(c) + 1
  BY <1>3
<1>7. x.by = <<built, w>>
  OBVIOUS
<1>8. ASSUME NEW n \in 1..Len(classifiers'[first])
      PROVE  \E k \in 0..built', v \in Worker :
               /\ classifiers'[first][n].by = <<k, v>>
               /\ k = built' => constructing' /\ pc'[v] \in {"pushError", "beta", "done"}
  <2>1. CASE n \in 1..Len(c)
    <3>1. PICK k \in 0..built, v \in Worker :
            c[n].by = <<k, v>> /\ (k = built => constructing /\ pc[v] \in {"pushError", "beta", "done"})
      BY <2>1 DEF LearnersOnce
    <3>2. pc'[v] = pc[v] \/ pc'[v] = "pushError"
      BY <1>2, <1>5
    <3>3. classifiers'[first][n].by = <<k, v>>
      BY <1>2, <1>3, <2>1, <3>1
    <3> HIDE DEF c, x
    <3> QED BY <1>2, <3>1, <3>2, <3>3
  <2>2. CASE n = Len(c) + 1
    <3>1. classifiers'[first][n].by = <<built, w>>
      BY <1>2, <1>3, <1>7, <2>2
    <3>2. built \in 0..built' /\ pc'[w] = "pushError"
      BY <1>2, <1>5, FirstFacts
    <3> HIDE DEF c, x
    <3> QED BY <1>1, <1>2, <3>1, <3>2
  <2> QED BY <1>2, <1>6, <2>1, <2>2
<1>9. ASSUME NEW n \in 1..Len(classifiers'[first]), NEW m \in 1..Len(classifiers'[first]),
             classifiers'[first][n].by = classifiers'[first][m].by
      PROVE  n = m
  <2>1. n \in 1..Len(Append(c, x)) /\ m \in 1..Len(Append(c, x))
    BY <1>2
  <2>2. CASE n \in 1..Len(c) /\ m \in 1..Len(c)
    BY <1>2, <1>3, <1>9, <2>2 DEF LearnersOnce
  <2>3. CASE n = Len(c) + 1 /\ m \in 1..Len(c)
    BY <1>2, <1>3, <1>4, <1>7, <1>9, <2>3
  <2>4. CASE n \in 1..Len(c) /\ m = Len(c) + 1
    BY <1>2, <1>3, <1>4, <1>7, <1>9, <2>4
  <2>5. CASE n = Len(c) + 1 /\ m = Len(c) + 1
    BY <2>5
  <2> QED BY <1>6, <2>1, <2>2, <2>3, <2>4, <2>5
<1>10. first' = first
  BY DEF first
<1> HIDE DEF c, x
<1> QED BY <1>8, <1>9, <1>10 DEF LearnersOnce

LEMMA LearnersOnceNext ==
  ASSUME IInv, LearnersOnce, [Next]_vars
  PROVE  LearnersOnce'
<1> USE FirstFacts
<1>1. CASE Construct
  <2>1. built' = built /\ classifiers' = classifiers /\ constructing' /\ ~constructing
    BY <1>1 DEF Construct
  <2> QED BY <2>1 DEF LearnersOnce, first
<1>2. CASE Join
  <2>1. built' = built + 1 /\ classifiers' = classifiers
    BY <1>2 DEF Join
  <2>2. \A k \in 0..built : k \in 0..built' /\ k # built'
    BY <2>1
  <2> DEFINE c == classifiers[first]
  <2>3. \A n \in 1..Len(c) : \E k \in 0..built, w \in Worker : c[n].by = <<k, w>>
    BY DEF LearnersOnce
  <2>4. \A n \in 1..Len(c) : \E k \in 0..built', w \in Worker :
          c[n].by = <<k, w>> /\ k # built'
    BY <2>2, <2>3
  <2>5. c' = c
    BY <2>1 DEF first
  <2>6. \A n, m \in 1..Len(c) : c[n].by = c[m].by => n = m
    BY DEF LearnersOnce
  <2> HIDE DEF c
  <2>7. /\ \A n \in 1..Len(c') : \E k \in 0..built', w \in Worker :
             c'[n].by = <<k, w>> /\ k # built'
        /\ \A n, m \in 1..Len(c') : c'[n].by = c'[m].by => n = m
    BY <2>4, <2>5, <2>6
  <2> QED BY <2>7 DEF LearnersOnce, first, c
<1>3. ASSUME NEW w \in Worker, Work(w) PROVE LearnersOnce'
  <2>1. CASE PushClassifier(w)
    BY <2>1, LearnersOncePush
  <2>2. CASE ~PushClassifier(w)
    <3>1. /\ built' = built /\ constructing' = constructing /\ classifiers' = classifiers
          /\ \A v \in Worker : pc[v] \in {"pushError", "beta", "done"} =>
                                 pc'[v] \in {"pushError", "beta", "done"}
      BY <1>3, <2>2 DEF Work, Train, PushError, ReadBeta, IInv, TypeOK
    <3> QED BY <3>1 DEF LearnersOnce, first
  <2> QED BY <2>1, <2>2
<1>4. CASE UNCHANGED vars
  BY <1>4 DEF vars, LearnersOnce, first
<1> QED BY <1>1, <1>2, <1>3, <1>4 DEF Next

LEMMA EnsembleInvariant == Spec => [](IInv /\ LearnersOnce)
<1>1. Spec => []IInv
  BY Invariant
<1> QED BY <1>1, LearnersOnceInit, LearnersOnceNext, PTL DEF Spec

\* The ensemble of the first instance as Ensemble sees it.
Joined == {classifiers[first][n].by : n \in DOMAIN errors[first]}
Members == [l \in Joined |-> errors[first][CHOOSE n \in DOMAIN errors[first] :
                                             classifiers[first][n].by = l]]
Complete == built = Len(Instances)

ErrorsOfMembers ==
  \A n \in DOMAIN errors[first] : /\ n \in 1..Len(classifiers[first])
                                  /\ Members[classifiers[first][n].by] = errors[first][n]

LEMMA MemberErrors == IInv /\ LearnersOnce => ErrorsOfMembers
<1> SUFFICES ASSUME IInv, LearnersOnce PROVE ErrorsOfMembers
  OBVIOUS
<1>1. DOMAIN errors[first] = 1..Len(errors[first]) /\ Len(errors[first]) \in Nat
      /\ Len(classifiers[first]) \in Nat
  BY FirstFacts
<1>2. Paired(classifiers[first], errors[first], 0) \/ Paired(classifiers[first], errors[first], 1)
  BY FirstFacts DEF IInv, VectorsInv, TypeOK, ThisInv
<1>3. \A n \in DOMAIN errors[first] : n \in 1..Len(classifiers[first])
  BY <1>1, <1>2 DEF Paired
<1>4. ASSUME NEW n \in DOMAIN errors[first]
      PROVE  Members[classifiers[first][n].by] = errors[first][n]
  <2> DEFINE m == CHOOSE m \in DOMAIN errors[first] :
                    classifiers[first][m].by = classifiers[first][n].by
  <2>1. m \in DOMAIN errors[first] /\ classifiers[first][m].by = classifiers[first][n].by
    OBVIOUS
  <2>2. m = n
    BY <1>3, <2>1 DEF LearnersOnce
  <2>3. Members[classifiers[first][n].by] = errors[first][m]
    BY DEF Members, Joined
  <2> QED BY <2>2, <2>3
<1> QED BY <1>3, <1>4 DEF ErrorsOfMembers

\* What Ensemble sees depends on the learners that have an error, and on them only.
LEMMA MembersUnchanged ==
  ASSUME ErrorsOfMembers, ErrorsOfMembers',
         first' = first, errors'[first] = errors[first],
         \A n \in DOMAIN errors[first] : classifiers'[first][n] = classifiers[first][n]
  PROVE  Members' = Members
<1>1. Joined' = Joined
  BY DEF Joined
<1>2. ASSUME NEW l \in Joined PROVE Members'[l] = Members[l]
  <2>1. PICK n \in DOMAIN errors[first] : l = classifiers[first][n].by
    BY DEF Joined
  <2>2. Members'[classifiers'[first][n].by] = errors'[first][n]
    BY DEF ErrorsOfMembers
  <2> QED BY <2>1, <2>2 DEF ErrorsOfMembers
<1>3. Members = [l \in Joined |-> Members[l]] /\ Members' = [l \in Joined' |-> Members'[l]]
  BY DEF Members
<1> QED BY <1>1, <1>2, <1>3

LEMMA InitialEnsemble == Init => E!Init
<1> SUFFICES ASSUME Init PROVE E!Init
  OBVIOUS
<1>1. first \in Instance
  BY InstanceFacts, ConstantsAssumption DEF first
<1>2. errors[first] = <<>> /\ DOMAIN errors[first] = {}
  BY <1>1 DEF Init
<1>3. Joined = {}
  BY <1>2 DEF Joined
<1>4. Members = <<>>
  BY <1>3 DEF Members
<1>5. (built = Len(Instances)) = FALSE
  BY ConstantsAssumption DEF Init
<1> QED BY <1>4, <1>5 DEF E!Init, Members, Joined

\* Appending the error of a learner is the learner joining.
LEMMA PushErrorJoins ==
  ASSUME IInv, LearnersOnce, ErrorsOfMembers, ErrorsOfMembers',
         NEW w \in Worker, PushError(w)
  PROVE  E!Next
<1> DEFINE c == classifiers[first]
           e == errors[first]
           l == c[Len(e) + 1].by
<1>1. pThis = first /\ constructing /\ mtx = w /\ first' = first
      /\ error[w] \in ErrorLevel /\ built # Len(Instances)
  BY FirstFacts, InstanceFacts DEF PushError, IInv, ThisInv, MutexInv, TypeOK, first
<1>2. /\ errors'[first] = Append(e, error[w]) /\ classifiers' = classifiers
      /\ built' = built
  BY <1>1, FirstFacts DEF PushError, IInv, TypeOK
<1>3. /\ Len(e) \in Nat /\ Len(Append(e, error[w])) = Len(e) + 1
      /\ Append(e, error[w])[Len(e) + 1] = error[w]
      /\ \A n \in 1..Len(e) : Append(e, error[w])[n] = e[n]
      /\ DOMAIN Append(e, error[w]) = 1..(Len(e) + 1) /\ DOMAIN e = 1..Len(e)
  BY <1>1, FirstFacts, AppendProperties
<1>4. DOMAIN errors'[first] = 1..(Len(e) + 1)
  BY <1>2, <1>3
<1>5. Paired(c, e, 1)
  BY <1>1, InstanceFacts DEF IInv, VectorsInv
<1>6. Len(e) + 1 \in 1..Len(c)
  BY <1>3, <1>5 DEF Paired
<1>7. l \notin Joined
  <2>1. \A n \in 1..Len(e) : n \in 1..Len(c) /\ n # Len(e) + 1
    BY <1>3, <1>5 DEF Paired
  <2> QED BY <1>3, <1>6, <2>1 DEF Joined, LearnersOnce
<1>8. Joined' = Joined \cup {l}
  <2>1. Joined' = {c[n].by : n \in 1..(Len(e) + 1)}
    BY <1>1, <1>2, <1>4 DEF Joined
  <2>2. 1..(Len(e) + 1) = (1..Len(e)) \cup {Len(e) + 1}
    BY <1>3
  <2> QED BY <1>3, <2>1, <2>2 DEF Joined
<1>9. /\ \A n \in 1..(Len(e) + 1) : Members'[c[n].by] = errors'[first][n]
      /\ \A n \in 1..Len(e) : Members[c[n].by] = e[n]
  <2>1. \A n \in DOMAIN errors[first] : Members[c[n].by] = e[n]
    BY DEF ErrorsOfMembers
  <2>2. \A n \in DOMAIN errors'[first] : Members'[c[n].by] = errors'[first][n]
    BY <1>1, <1>2 DEF ErrorsOfMembers
  <2> QED BY <1>3, <1>4, <2>1, <2>2
<1>10. ASSUME NEW k \in Joined'
       PROVE  Members'[k] = IF k = l THEN error[w] ELSE Members[k]
  <2>1. CASE k = l
    <3>1. Len(e) + 1 \in 1..(Len(e) + 1) BY <1>3
    <3> QED BY <1>2, <1>3, <1>9, <2>1, <3>1
  <2>2. CASE k # l
    <3>1. PICK n \in 1..Len(e) : k = c[n].by
      BY <1>3, <1>8, <1>10, <2>2 DEF Joined
    <3>2. n \in 1..(Len(e) + 1) BY <1>3
    <3> QED BY <1>2, <1>3, <1>9, <2>2, <3>1, <3>2
  <2> QED BY <2>1, <2>2
<1>11. Members' = [k \in Joined \cup {l} |-> IF k = l THEN error[w] ELSE Members[k]]
  <2> HIDE DEF c, e, l
  <2>1. Members' = [k \in Joined' |-> Members'[k]]
    BY DEF Members
  <2> QED BY <1>8, <1>10, <2>1
<1>12. DOMAIN Members = Joined
  BY DEF Members
<1>13. /\ ~Complete /\ l \notin DOMAIN Members /\ UNCHANGED Complete
       /\ Members' = [x \in DOMAIN Members \cup {l} |-> IF x = l THEN error[w] ELSE Members[x]]
  BY <1>1, <1>2, <1>7, <1>11, <1>12 DEF Complete
<1>14. l \in Learner
  <2>1. c \in Seq(Learners) BY FirstFacts
  <2>2. c[Len(e) + 1] \in Learners BY <1>6, <2>1
  <2> QED BY <2>2 DEF Learners
<1> HIDE DEF c, e, l
<1>15. \E k \in Learner, x \in ErrorLevel :
         /\ ~Complete /\ k \notin DOMAIN Members
         /\ Members' = [y \in DOMAIN Members \cup {k} |-> IF y = k THEN x ELSE Members[y]]
         /\ UNCHANGED Complete
  BY <1>1, <1>13, <1>14
<1> QED BY <1>15 DEF E!Next, E!Join, Members, Joined, Complete

LEMMA StepEnsemble ==
  ASSUME IInv, LearnersOnce, ErrorsOfMembers, ErrorsOfMembers', [Next]_vars
  PROVE  E!Next \/ UNCHANGED <<Members, Complete>>
<1>0. first' = first
  BY DEF first
<1>1. CASE Construct \/ UNCHANGED vars
  <2>1. classifiers' = classifiers /\ errors' = errors /\ built' = built
    BY <1>1 DEF Construct, vars
  <2> QED BY <1>0, <2>1, MembersUnchanged DEF Complete
<1>2. CASE Join
  <2>1. classifiers' = classifiers /\ errors' = errors /\ built' = built + 1 /\ constructing
    BY <1>2 DEF Join
  <2>2. Members' = Members /\ ~Complete
    BY <1>0, <2>1, MembersUnchanged DEF Complete, IInv, ThisInv
  <2>3. CASE Complete'
    <3>1. E!Return
      BY <2>2, <2>3 DEF E!Return, Members, Joined, Complete
    <3> QED BY <3>1 DEF E!Next
  <2>4. CASE ~Complete'
    <3>1. Complete' = Complete BY <2>2, <2>4 DEF Complete
    <3> QED BY <2>2, <3>1
  <2> QED BY <2>3, <2>4
<1>3. ASSUME NEW w \in Worker, Work(w)
      PROVE  E!Next \/ UNCHANGED <<Members, Complete>>
  <2>1. CASE PushError(w)
    BY <2>1, PushErrorJoins
  <2>2. CASE PushClassifier(w)
    <3>1. pThis = first /\ Paired(classifiers[first], errors[first], 0)
      BY <2>2, FirstFacts DEF PushClassifier, IInv, VectorsInv, ThisInv
    <3>2. [by |-> <<built, w>>, error |-> error[w]] \in Learners
      BY DEF IInv, TypeOK, Learners, Learner
    <3>3. classifiers'[first] = Append(classifiers[first], [by |-> <<built, w>>, error |-> error[w]])
          /\ errors' = errors /\ built' = built
      BY <2>2, <3>1, FirstFacts DEF PushClassifier, IInv, TypeOK
    <3>4. \A n \in 1..Len(classifiers[first]) : classifiers'[first][n] = classifiers[first][n]
      BY <3>2, <3>3, FirstFacts, AppendProperties
    <3>5. \A n \in DOMAIN errors[first] : classifiers'[first][n] = classifiers[first][n]
      <4> SUFFICES ASSUME NEW n \in DOMAIN errors[first]
                   PROVE  classifiers'[first][n] = classifiers[first][n]
        OBVIOUS
      <4> QED BY <3>4 DEF ErrorsOfMembers
    <3> QED BY <1>0, <3>3, <3>5, MembersUnchanged DEF Complete
  <2>3. CASE ~PushError(w) /\ ~PushClassifier(w)
    <3>1. classifiers' = classifiers /\ errors' = errors /\ built' = built
      BY <1>3, <2>3 DEF Work, Train, ReadBeta
    <3> QED BY <1>0, <3>1, MembersUnchanged DEF Complete
  <2> QED BY <2>1, <2>2, <2>3
<1> QED BY <1>1, <1>2, <1>3 DEF Next

\* The ensemble of the first instance is filled as Ensemble promises, by the threads of
\* every constructor: a learner joins once and with its own error, and nothing changes
\* when the last constructor has returned.
THEOREM BoostIsEnsemble == Spec => ImplementsEnsemble
<1>1. (IInv /\ LearnersOnce) /\ ErrorsOfMembers /\ ErrorsOfMembers' /\ [Next]_vars
        => [E!Next]_<<Members, Complete>>
  BY StepEnsemble
<1>2. Spec => E!Init /\ [][E!Next]_<<Members, Complete>>
  BY <1>1, InitialEnsemble, EnsembleInvariant, MemberErrors, PTL DEF Spec
<1> QED BY <1>2, PTL DEF ImplementsEnsemble, E!Spec, Members, Joined, Complete
=============================================================================
