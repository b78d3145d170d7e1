------------------------------ MODULE SeqFolds ------------------------------
(***************************************************************************)
(* Facts about FoldLeft of the community modules, for one operation Op.    *)
(* FoldLeft is defined by a recursive function on sets of indices; here it *)
(* is shown to be what the loops of the program are: the fold of a longer  *)
(* sequence is one step of Op from the fold of the shorter one.            *)
(*                                                                         *)
(* A module that folds an operation takes an instance for it and shows     *)
(* that its FoldLeft is the Folded of the instance, which is FoldLeft with *)
(* its definitions written out.                                            *)
(***************************************************************************)
EXTENDS Integers, Sequences, SequenceTheorems, WellFoundedInduction, TLAPS

CONSTANT Op(_, _)

Greatest(t) == CHOOSE x \in t : \A y \in t : x >= y

\* The recursive function of the fold, on the subsets of 1 .. n.
Iterates(it, b, s, n) ==
  it = [t \in SUBSET (1 .. n) |->
          IF t = {} THEN b ELSE Op(it[t \ {Greatest(t)}], s[Greatest(t)])]

Folded(b, s) ==
  (CHOOSE it : it = [t \in SUBSET DOMAIN s |->
     IF t = {} THEN b
     ELSE Op(it[t \ {CHOOSE x \in t : \A y \in t : x >= y}],
             s[CHOOSE x \in t : \A y \in t : x >= y])])[DOMAIN s]
----------------------------------------------------------------------------
(* Induction over the numbers, for sets instead of predicates.              *)
LEMMA Least ==
  ASSUME NEW S \in SUBSET Nat, S # {}
  PROVE  \E m \in S : \A n \in S : m <= n
<1> DEFINE below == OpToRel(<, Nat)
<1>1. IsWellFoundedOn(below, Nat)
  BY NatLessThanWellFounded
<1>2. \A m, n \in Nat : <<m, n>> \in below <=> m < n
  BY DEF OpToRel
<1> HIDE DEF below
<1>3. PICK m \in S : \A n \in S : ~ (<<n, m>> \in below)
  BY <1>1, WFMin
<1>4. ASSUME NEW n \in S PROVE m <= n
  <2>1. n \in Nat /\ m \in Nat /\ ~ (<<n, m>> \in below) BY <1>3
  <2>2. ~ (n < m) BY <1>2, <2>1
  <2> QED BY <2>1, <2>2
<1> QED BY <1>4

LEMMA Induct ==
  ASSUME NEW S \in SUBSET Nat, 0 \in S, \A n \in S : n + 1 \in S
  PROVE  S = Nat
<1> DEFINE T == Nat \ S
<1>1. SUFFICES ASSUME T # {} PROVE FALSE
  OBVIOUS
<1>2. PICK m \in T : \A n \in T : m <= n
  BY <1>1, Least
<1>3. m - 1 \in S
  BY <1>2
<1> QED BY <1>2, <1>3

\* A function on 1 .. n is a sequence of length n.
LEMMA FunctionLength ==
  ASSUME NEW S, NEW n \in Nat, NEW f \in [1 .. n -> S]
  PROVE  f \in Seq(S) /\ Len(f) = n
<1>1. f \in Seq(S)
  BY SeqDef
<1>2. DOMAIN f = 1 .. n /\ DOMAIN f = 1 .. Len(f) /\ Len(f) \in Nat
  BY <1>1, LenProperties
<1> QED BY <1>1, <1>2
----------------------------------------------------------------------------
LEMMA GreatestIs ==
  ASSUME NEW S \in SUBSET Nat, NEW n \in S, \A k \in S : k <= n
  PROVE  Greatest(S) = n
<1>1. \A y \in S : n >= y
  OBVIOUS
<1>2. Greatest(S) \in S /\ \A y \in S : Greatest(S) >= y
  BY <1>1 DEF Greatest
<1>3. Greatest(S) \in Nat /\ n \in Nat /\ Greatest(S) >= n /\ n >= Greatest(S)
  BY <1>1, <1>2
<1> QED BY <1>3

LEMMA GreatestOfInterval ==
  ASSUME NEW n \in Nat
  PROVE  Greatest(1 .. n + 1) = n + 1
<1>1. (1 .. n + 1) \in SUBSET Nat /\ n + 1 \in 1 .. n + 1 /\ \A k \in 1 .. n + 1 : k <= n + 1
  OBVIOUS
<1> QED BY <1>1, GreatestIs

LEMMA Interval ==
  ASSUME NEW k \in Nat, NEW m \in Nat, k + 1 <= m
  PROVE  (1 .. k + 1) \in SUBSET (1 .. m) /\ 1 .. k + 1 # {} /\ (1 .. k + 1) \ {k + 1} = 1 .. k
<1>1. \A j \in 1 .. k + 1 : j \in 1 .. m
  OBVIOUS
<1>2. k + 1 \in 1 .. k + 1
  OBVIOUS
<1>3. \A j : j \in (1 .. k + 1) \ {k + 1} <=> j \in 1 .. k
  OBVIOUS
<1> QED BY <1>1, <1>2, <1>3

LEMMA IteratesExists ==
  ASSUME NEW b, NEW s
  PROVE  \A n \in Nat : \E it : Iterates(it, b, s, n)
<1> DEFINE Good == {n \in Nat : \E it : Iterates(it, b, s, n)}
<1>1. 0 \in Good
  <2> DEFINE it == [t \in SUBSET (1 .. 0) |-> b]
  <2>1. \A t \in SUBSET (1 .. 0) : t = {}
    OBVIOUS
  <2>2. Iterates(it, b, s, 0)
    BY <2>1 DEF Iterates
  <2> QED BY <2>2
<1>2. ASSUME NEW n \in Good PROVE n + 1 \in Good
  <2>1. PICK it : Iterates(it, b, s, n)
    OBVIOUS
  <2> DEFINE longer == [t \in SUBSET (1 .. n + 1) |->
                          IF n + 1 \in t THEN Op(it[t \ {n + 1}], s[n + 1]) ELSE it[t]]
  <2>2. ASSUME NEW t \in SUBSET (1 .. n + 1)
        PROVE  longer[t] = IF t = {} THEN b ELSE Op(longer[t \ {Greatest(t)}], s[Greatest(t)])
    <3>1. CASE n + 1 \in t
      <4>1. Greatest(t) = n + 1
        <5>1. t \in SUBSET Nat /\ \A k \in t : k <= n + 1
          OBVIOUS
        <5> QED BY <3>1, <5>1, GreatestIs
      <4>2. t \ {n + 1} \in SUBSET (1 .. n) /\ t \ {n + 1} \in SUBSET (1 .. n + 1)
        OBVIOUS
      <4>3. longer[t \ {n + 1}] = it[t \ {n + 1}]
        BY <4>2
      <4>4. longer[t] = Op(it[t \ {n + 1}], s[n + 1])
        BY <3>1
      <4> QED BY <3>1, <4>1, <4>3, <4>4
    <3>2. CASE n + 1 \notin t
      <4>1. t \in SUBSET (1 .. n) /\ longer[t] = it[t]
        BY <3>2
      <4>2. it[t] = IF t = {} THEN b ELSE Op(it[t \ {Greatest(t)}], s[Greatest(t)])
        BY <2>1, <4>1 DEF Iterates
      <4>3. t \ {Greatest(t)} \in SUBSET (1 .. n + 1) /\ n + 1 \notin t \ {Greatest(t)}
        BY <3>2
      <4>4. longer[t \ {Greatest(t)}] = it[t \ {Greatest(t)}]
        BY <4>3
      <4> QED BY <4>1, <4>2, <4>4
    <3> QED BY <3>1, <3>2
  <2>3. Iterates(longer, b, s, n + 1)
    <3>1. longer = [t \in SUBSET (1 .. n + 1) |-> longer[t]]
      OBVIOUS
    <3> HIDE DEF longer
    <3> QED BY <2>2, <3>1 DEF Iterates
  <2> QED BY <2>3
<1>3. Good = Nat
  BY <1>1, <1>2, Induct
<1> QED BY <1>3

(* Two folds agree on the indices where their sequences do.                 *)
LEMMA IteratesAgree ==
  ASSUME NEW b, NEW s1, NEW s2, NEW n1 \in Nat, NEW n2 \in Nat, NEW n \in Nat,
         n <= n1, n <= n2, \A k \in 1 .. n : s1[k] = s2[k],
         NEW it1, NEW it2, Iterates(it1, b, s1, n1), Iterates(it2, b, s2, n2)
  PROVE  it1[1 .. n] = it2[1 .. n]
<1> DEFINE Good == {k \in Nat : k <= n => it1[1 .. k] = it2[1 .. k]}
<1>1. 0 \in Good
  <2>1. 1 .. 0 = {}
    OBVIOUS
  <2>2. it1[{}] = b /\ it2[{}] = b
    BY DEF Iterates
  <2> QED BY <2>1, <2>2
<1>2. ASSUME NEW k \in Good PROVE k + 1 \in Good
  <2> SUFFICES ASSUME k + 1 <= n PROVE it1[1 .. k + 1] = it2[1 .. k + 1]
    OBVIOUS
  <2>1. Greatest(1 .. k + 1) = k + 1
    BY GreatestOfInterval
  <2>2. (1 .. k + 1) \ {k + 1} = 1 .. k /\ 1 .. k + 1 # {}
    OBVIOUS
  <2>3. it1[1 .. k + 1] = Op(it1[1 .. k], s1[k + 1])
    <3> DEFINE t == 1 .. k + 1
    <3>1. t \in SUBSET (1 .. n1) /\ t # {}
      <4>1. k \in Nat /\ k + 1 <= n1
        OBVIOUS
      <4> QED BY <4>1, Interval
    <3>2. Greatest(t) = k + 1 /\ t \ {k + 1} = 1 .. k
      BY <2>1, <2>2
    <3> HIDE DEF t
    <3>3. it1[t] = Op(it1[t \ {Greatest(t)}], s1[Greatest(t)])
      BY <3>1 DEF Iterates
    <3>4. it1[t] = Op(it1[1 .. k], s1[k + 1])
      BY <3>2, <3>3
    <3> QED BY <3>4 DEF t
  <2>4. it2[1 .. k + 1] = Op(it2[1 .. k], s2[k + 1])
    <3> DEFINE t == 1 .. k + 1
    <3>1. t \in SUBSET (1 .. n2) /\ t # {}
      <4>1. k \in Nat /\ k + 1 <= n2
        OBVIOUS
      <4> QED BY <4>1, Interval
    <3>2. Greatest(t) = k + 1 /\ t \ {k + 1} = 1 .. k
      BY <2>1, <2>2
    <3> HIDE DEF t
    <3>3. it2[t] = Op(it2[t \ {Greatest(t)}], s2[Greatest(t)])
      BY <3>1 DEF Iterates
    <3>4. it2[t] = Op(it2[1 .. k], s2[k + 1])
      BY <3>2, <3>3
    <3> QED BY <3>4 DEF t
  <2>5. it1[1 .. k] = it2[1 .. k] /\ s1[k + 1] = s2[k + 1]
    OBVIOUS
  <2> QED BY <2>3, <2>4, <2>5
<1>3. Good = Nat
  BY <1>1, <1>2, Induct
<1> QED BY <1>3

LEMMA FoldedIs ==
  ASSUME NEW b, NEW s, NEW n \in Nat, DOMAIN s = 1 .. n
  PROVE  \E it : Iterates(it, b, s, n) /\ Folded(b, s) = it[1 .. n]
<1> DEFINE Chosen == CHOOSE it : it = [t \in SUBSET DOMAIN s |->
              IF t = {} THEN b
              ELSE Op(it[t \ {CHOOSE x \in t : \A y \in t : x >= y}],
                      s[CHOOSE x \in t : \A y \in t : x >= y])]
<1>1. PICK f : Iterates(f, b, s, n)
  BY IteratesExists
<1>2. f = [t \in SUBSET DOMAIN s |->
              IF t = {} THEN b
              ELSE Op(f[t \ {CHOOSE x \in t : \A y \in t : x >= y}],
                      s[CHOOSE x \in t : \A y \in t : x >= y])]
  BY <1>1 DEF Iterates, Greatest
<1>3. Chosen = [t \in SUBSET DOMAIN s |->
              IF t = {} THEN b
              ELSE Op(Chosen[t \ {CHOOSE x \in t : \A y \in t : x >= y}],
                      s[CHOOSE x \in t : \A y \in t : x >= y])]
  BY <1>2
<1>4. Iterates(Chosen, b, s, n)
  BY <1>3 DEF Iterates, Greatest
<1>5. Folded(b, s) = Chosen[1 .. n]
  BY DEF Folded
<1> QED BY <1>4, <1>5
----------------------------------------------------------------------------
(* The fold of nothing is the base.                                         *)
THEOREM FoldEmpty == ASSUME NEW b PROVE Folded(b, <<>>) = b
<1>1. DOMAIN <<>> = 1 .. 0 /\ 1 .. 0 = {}
  OBVIOUS
<1>2. PICK it : Iterates(it, b, <<>>, 0) /\ Folded(b, <<>>) = it[1 .. 0]
  BY <1>1, FoldedIs
<1>3. it[{}] = b
  BY <1>2 DEF Iterates
<1> QED BY <1>1, <1>2, <1>3

(* One more element is one more step of the operation.                      *)
THEOREM FoldAppend ==
  ASSUME NEW b, NEW S, NEW s \in Seq(S), NEW x \in S
  PROVE  Folded(b, Append(s, x)) = Op(Folded(b, s), x)
<1> DEFINE n == Len(s)  longer == Append(s, x)
<1>1. /\ n \in Nat /\ DOMAIN s = 1 .. n /\ DOMAIN longer = 1 .. n + 1
      /\ \A k \in 1 .. n : longer[k] = s[k]
      /\ longer[n + 1] = x
  OBVIOUS
<1> HIDE DEF n, longer
<1>2. PICK it1 : Iterates(it1, b, s, n) /\ Folded(b, s) = it1[1 .. n]
  BY <1>1, FoldedIs
<1>3. PICK it2 : Iterates(it2, b, longer, n + 1) /\ Folded(b, longer) = it2[1 .. n + 1]
  <2>1. n + 1 \in Nat
    BY <1>1
  <2> QED BY <1>1, <2>1, FoldedIs
<1>4. it2[1 .. n] = it1[1 .. n]
  <2> DEFINE m == n + 1
  <2>1. m \in Nat /\ n \in Nat /\ n <= n /\ n <= m /\ Iterates(it2, b, longer, m)
    BY <1>1, <1>3
  <2>2. \A k \in 1 .. n : longer[k] = s[k]
    BY <1>1
  <2> HIDE DEF m
  <2> QED BY <1>2, <2>1, <2>2, IteratesAgree
<1>5. Greatest(1 .. n + 1) = n + 1
  BY <1>1, GreatestOfInterval
<1>6. it2[1 .. n + 1] = Op(it2[1 .. n], longer[n + 1])
  <2> DEFINE t == 1 .. n + 1
  <2>1. t \in SUBSET (1 .. n + 1) /\ t # {}
    <3>1. n \in Nat /\ n + 1 \in Nat /\ n + 1 <= n + 1
      BY <1>1
    <3> QED BY <3>1, Interval
  <2>2. Greatest(t) = n + 1 /\ t \ {n + 1} = 1 .. n
    BY <1>1, <1>5
  <2> HIDE DEF t
  <2>3. it2[t] = Op(it2[t \ {Greatest(t)}], longer[Greatest(t)])
    BY <1>3, <2>1 DEF Iterates
  <2>4. it2[t] = Op(it2[1 .. n], longer[n + 1])
    BY <2>2, <2>3
  <2> QED BY <2>4 DEF t
<1> QED BY <1>1, <1>2, <1>3, <1>4, <1>6 DEF longer

(* What the operation keeps, the fold keeps.                                *)
THEOREM FoldKeeps ==
  ASSUME NEW D, NEW b \in D, NEW S, NEW s \in Seq(S), \A u \in D, x \in S : Op(u, x) \in D
  PROVE  Folded(b, s) \in D
<1> DEFINE Good == {n \in Nat : \A t \in Seq(S) : Len(t) = n => Folded(b, t) \in D}
<1>1. 0 \in Good
  <2>1. ASSUME NEW t \in Seq(S), Len(t) = 0 PROVE Folded(b, t) \in D
    <3>1. t = <<>>
      BY <2>1
    <3> QED BY <3>1, FoldEmpty
  <2> QED BY <2>1
<1>2. ASSUME NEW n \in Good PROVE n + 1 \in Good
  <2>1. ASSUME NEW t \in Seq(S), Len(t) = n + 1 PROVE Folded(b, t) \in D
    <3> DEFINE front == SubSeq(t, 1, n)
    <3>1. front \in Seq(S) /\ Len(front) = n /\ t[n + 1] \in S /\ t = Append(front, t[n + 1])
      BY <2>1
    <3>2. Folded(b, front) \in D
      BY <3>1
    <3> DEFINE x == t[n + 1]
    <3> HIDE DEF front, x
    <3>3. Folded(b, Append(front, x)) = Op(Folded(b, front), x)
      BY <3>1, FoldAppend DEF x
    <3> QED BY <3>1, <3>2, <3>3 DEF x
  <2> QED BY <2>1
<1>3. Good = Nat
  BY <1>1, <1>2, Induct
<1>4. Len(s) \in Nat
  OBVIOUS
<1> QED BY <1>3, <1>4

(* Along a sequence the fold stays in sets that depend on how far it has    *)
(* come.                                                                    *)
THEOREM FoldAlong ==
  ASSUME NEW S, NEW s \in Seq(S), NEW D, NEW b \in D[0],
         \A k \in 1 .. Len(s) : \A u \in D[k - 1] : Op(u, s[k]) \in D[k]
  PROVE  /\ \A k \in 0 .. Len(s) : Folded(b, SubSeq(s, 1, k)) \in D[k]
         /\ Folded(b, s) \in D[Len(s)]
<1> DEFINE n == Len(s)
           Good == {k \in Nat : k <= n => Folded(b, SubSeq(s, 1, k)) \in D[k]}
<1>0. n \in Nat /\ \A k \in 1 .. n : s[k] \in S
  BY LenProperties, ElementOfSeq
<1> HIDE DEF n
<1>1. 0 \in Good
  <2>1. SubSeq(s, 1, 0) = <<>>
    BY SubSeqEmpty
  <2> QED BY <2>1, FoldEmpty
<1>2. ASSUME NEW k \in Good PROVE k + 1 \in Good
  <2>1. ASSUME k + 1 <= n PROVE Folded(b, SubSeq(s, 1, k + 1)) \in D[k + 1]
    <3> DEFINE front == SubSeq(s, 1, k)  x == s[k + 1]
    <3>1. k \in Nat /\ k <= n /\ k + 1 \in 1 .. n /\ k + 1 - 1 = k
      BY <1>0, <2>1
    <3>2. front \in Seq(S) /\ x \in S
      BY <1>0, <3>1, SubSeqProperties
    <3>3. SubSeq(s, 1, k + 1) = Append(front, x)
      BY <1>0, <3>1 DEF n
    <3>4. Folded(b, front) \in D[k]
      BY <3>1
    <3> HIDE DEF front
    <3>5. Op(Folded(b, front), x) \in D[k + 1]
      BY <3>1, <3>4 DEF n
    <3> HIDE DEF x
    <3>6. Folded(b, Append(front, x)) = Op(Folded(b, front), x)
      BY <3>2, FoldAppend
    <3> QED BY <3>3, <3>5, <3>6
  <2> QED BY <2>1
<1>3. Good = Nat
  BY <1>1, <1>2, Induct
<1>4. SubSeq(s, 1, n) = s
  BY SubSeqFull DEF n
<1>5. \A k \in 0 .. n : Folded(b, SubSeq(s, 1, k)) \in D[k]
  BY <1>0, <1>3
<1>6. Folded(b, SubSeq(s, 1, n)) \in D[n]
  BY <1>0, <1>5
<1> QED BY <1>4, <1>5, <1>6 DEF n
=============================================================================
