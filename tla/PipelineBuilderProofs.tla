------------------------ MODULE PipelineBuilderProofs ------------------------
(***************************************************************************)
(* Machine-checked proofs about the pipeline builder: the two text models, *)
(* HashedBagOfWords and Tfidf, for any words, hashes and documents, and    *)
(* the ownership of the stages of Pipeline, for any number of them.        *)
(***************************************************************************)
EXTENDS HashedBagOfWords, Tfidf, Pipeline, FiniteSetTheorems, SequenceTheorems, TLAPS

----------------------------------------------------------------------------
(* HashedBagOfWords *)

Adds == INSTANCE SeqFolds WITH Op <- Added
Looks == INSTANCE SeqFolds WITH Op <- LookedUp
Fits == INSTANCE SeqFolds WITH Op <- Fitted

LEMMA AddsFold == \A b, s : FoldLeft(Added, b, s) = Adds!Folded(b, s)
  BY DEF FoldLeft, MapThenFoldSet, Max, Adds!Folded
LEMMA LooksFold == \A b, s : FoldLeft(LookedUp, b, s) = Looks!Folded(b, s)
  BY DEF FoldLeft, MapThenFoldSet, Max, Looks!Folded
LEMMA FitsFold == \A b, s : FoldLeft(Fitted, b, s) = Fits!Folded(b, s)
  BY DEF FoldLeft, MapThenFoldSet, Max, Fits!Folded

EmptyHash == Hash[""]

\* The map knows the words of the vocabulary, and possibly the empty one; the counts
\* are never fewer than the words.
Bags ==
  {b \in [vocabulary : Seq(Words), bow : Seq(Nat), hashes : Seq(Nat),
          hash_map : UNION {[H -> Nat] : H \in SUBSET Nat}] :
     /\ Known(b.vocabulary) \subseteq DOMAIN b.hash_map
     /\ Extra(b) \subseteq {EmptyHash}
     /\ Len(b.vocabulary) <= Len(b.bow)}

\* No hash was met that did not enter, and if the words entered in the order of their
\* hashes the counts are theirs.
Counted(b, m) ==
  /\ \A h \in Hashes : h \notin DOMAIN b.hash_map => m[h] = 0
  /\ InHashOrder(b) /\ (\A h \in Extra(b) : m[h] = 0) =>
       /\ Len(b.bow) = Len(b.vocabulary)
       /\ \A i \in DOMAIN b.bow : b.bow[i] = m[Hash[b.vocabulary[i]]]

\* The counts of the bag c are those of b, and one more for the hash.
OneMore(b, c, g) ==
  \A m1, m2 \in [Hashes -> Nat] :
    Counted(b, m1) /\ (\A h \in Hashes : m2[h] = IF h = g THEN m1[h] + 1 ELSE m1[h])
      => Counted(c, m2)

LEMMA HashIs ==
  /\ \A w \in Words : Hash[w] \in Nat /\ Hash[w] \in Hashes
  /\ Hashes \subseteq Nat /\ EmptyHash \in Nat /\ EmptyHash \in Hashes
  /\ Tokens \subseteq Words
  BY BagAssumption DEF EmptyHash, Hashes, Words

LEMMA BagIs ==
  ASSUME NEW b \in Bags
  PROVE  /\ b.vocabulary \in Seq(Words) /\ b.bow \in Seq(Nat) /\ b.hashes \in Seq(Nat)
         /\ Len(b.vocabulary) \in Nat /\ Len(b.bow) \in Nat /\ Len(b.vocabulary) <= Len(b.bow)
         /\ DOMAIN b.vocabulary = 1 .. Len(b.vocabulary) /\ DOMAIN b.bow = 1 .. Len(b.bow)
         /\ \A i \in 1 .. Len(b.vocabulary) : b.vocabulary[i] \in Words
         /\ DOMAIN b.hash_map \in SUBSET Nat /\ b.hash_map \in [DOMAIN b.hash_map -> Nat]
         /\ IsFiniteSet(DOMAIN b.hash_map)
         /\ Known(b.vocabulary) \subseteq DOMAIN b.hash_map /\ Extra(b) \subseteq {EmptyHash}
         /\ Extra(b) \subseteq Hashes
         /\ Known(b.vocabulary) \subseteq Hashes /\ DOMAIN b.hash_map \subseteq Hashes
<1>1. /\ b.vocabulary \in Seq(Words) /\ b.bow \in Seq(Nat) /\ b.hashes \in Seq(Nat)
      /\ b.hash_map \in UNION {[H -> Nat] : H \in SUBSET Nat}
      /\ Known(b.vocabulary) \subseteq DOMAIN b.hash_map /\ Extra(b) \subseteq {EmptyHash}
      /\ Len(b.vocabulary) <= Len(b.bow)
  BY DEF Bags
<1>2. /\ Len(b.vocabulary) \in Nat /\ Len(b.bow) \in Nat
      /\ DOMAIN b.vocabulary = 1 .. Len(b.vocabulary) /\ DOMAIN b.bow = 1 .. Len(b.bow)
      /\ \A i \in 1 .. Len(b.vocabulary) : b.vocabulary[i] \in Words
  BY <1>1, LenProperties, ElementOfSeq
<1>4. DOMAIN b.hash_map \in SUBSET Nat /\ b.hash_map \in [DOMAIN b.hash_map -> Nat]
  BY <1>1
<1>3. DOMAIN b.hash_map \subseteq Known(b.vocabulary) \cup {EmptyHash}
  BY <1>1 DEF Extra
<1>5. IsFiniteSet(DOMAIN b.hash_map)
  <2> DEFINE n == Len(b.vocabulary)  f == [i \in 1 .. n |-> Hash[b.vocabulary[i]]]
  <2>1. f \in Surjection(1 .. n, Known(b.vocabulary))
    BY <1>2 DEF Surjection, Known, Range
  <2>2. IsFiniteSet(1 .. n)
    BY <1>2, FS_Interval
  <2> HIDE DEF f, n
  <2>3. IsFiniteSet(Known(b.vocabulary))
    BY <2>1, <2>2, FS_Surjection
  <2>4. IsFiniteSet(Known(b.vocabulary) \cup {EmptyHash})
    BY <2>3, FS_AddElement
  <2> QED BY <1>3, <2>4, FS_Subset
<1>6. Known(b.vocabulary) \subseteq Hashes
  BY <1>2, HashIs DEF Known, Range
<1>7. DOMAIN b.hash_map \subseteq Hashes /\ Extra(b) \subseteq Hashes
  BY <1>1, <1>3, <1>6, HashIs
<1> QED BY <1>1, <1>2, <1>4, <1>5, <1>6, <1>7

\* A word that is not in the map enters at the end.
LEMMA NewBag ==
  ASSUME NEW b \in Bags, NEW w \in Words, Hash[w] \notin DOMAIN b.hash_map
  PROVE  /\ New(b, w) \in Bags /\ Extra(New(b, w)) = Extra(b)
         /\ DOMAIN New(b, w).hash_map = DOMAIN b.hash_map \cup {Hash[w]}
         /\ \A m1, m2 \in [Hashes -> Nat] :
              Counted(b, m1) /\ (\A h \in Hashes : m2[h] = IF h = Hash[w] THEN 1 ELSE m1[h])
                => Counted(New(b, w), m2)
<1> DEFINE v == b.vocabulary  longer == Append(v, w)  bow == Append(b.bow, 1)
           n == Len(v)  c == New(b, w)
<1>1. /\ v \in Seq(Words) /\ b.bow \in Seq(Nat) /\ n \in Nat /\ DOMAIN v = 1 .. n
      /\ Len(b.bow) \in Nat /\ n <= Len(b.bow) /\ b.hashes \in Seq(Nat)
      /\ DOMAIN b.bow = 1 .. Len(b.bow) /\ Known(v) \subseteq DOMAIN b.hash_map
      /\ Extra(b) \subseteq {EmptyHash} /\ Extra(b) \subseteq Hashes
  BY BagIs
<1>2. /\ longer \in Seq(Words) /\ Len(longer) = n + 1 /\ longer[n + 1] = w
      /\ DOMAIN longer = 1 .. n + 1 /\ \A i \in 1 .. n : longer[i] = v[i]
  BY <1>1, AppendProperties, LenProperties
<1>3. /\ bow \in Seq(Nat) /\ Len(bow) = Len(b.bow) + 1 /\ bow[Len(b.bow) + 1] = 1
      /\ DOMAIN bow = 1 .. Len(b.bow) + 1 /\ \A i \in 1 .. Len(b.bow) : bow[i] = b.bow[i]
  <2>1. 1 \in Nat
    OBVIOUS
  <2> QED BY <1>1, <2>1, AppendProperties, LenProperties
<1>4. c.vocabulary = longer /\ c.bow = bow
      /\ DOMAIN c.hash_map = DOMAIN b.hash_map \cup {Hash[w]}
  BY DEF New
<1>5. Known(longer) = Known(v) \cup {Hash[w]}
  <2>1. \A i \in 1 .. n + 1 : i = n + 1 \/ i \in 1 .. n
    BY <1>1
  <2>2. \A i \in 1 .. n : i \in 1 .. n + 1
    BY <1>1
  <2>3. n + 1 \in 1 .. n + 1
    BY <1>1
  <2>5. DOMAIN v = 1 .. n
    BY <1>1
  <2> HIDE DEF longer, v, n
  <2>4. Range(longer) = Range(v) \cup {w}
    BY <1>2, <2>1, <2>2, <2>3, <2>5 DEF Range
  <2> QED BY <2>4 DEF Known
<1>8. Extra(c) = Extra(b)
  <2> HIDE DEF c, longer, v
  <2>1. Extra(c) = DOMAIN c.hash_map \ Known(longer) /\ Extra(b) = DOMAIN b.hash_map \ Known(v)
    BY <1>4 DEF Extra, v
  <2> QED BY <1>1, <1>4, <1>5, <2>1
<1>6. c \in Bags
  <2>1. c.hash_map \in UNION {[H -> Nat] : H \in SUBSET Nat}
    <3>1. \A h \in DOMAIN b.hash_map : b.hash_map[h] \in Nat
      BY BagIs
    <3>2. c.hash_map = [h \in DOMAIN b.hash_map \cup {Hash[w]} |->
                          IF h = Hash[w] THEN n ELSE b.hash_map[h]]
      BY DEF New
    <3>3. DOMAIN b.hash_map \cup {Hash[w]} \in SUBSET Nat
      BY BagIs, HashIs
    <3> HIDE DEF n, c
    <3>4. c.hash_map \in [DOMAIN b.hash_map \cup {Hash[w]} -> Nat]
      BY <1>1, <3>1, <3>2
    <3> QED BY <3>3, <3>4
  <2>2. Known(longer) \subseteq DOMAIN c.hash_map
    <3> HIDE DEF longer, v, c
    <3> QED BY <1>1, <1>4, <1>5
  <2>3. Len(longer) <= Len(bow)
    BY <1>1, <1>2, <1>3
  <2>4. Append(b.hashes, Hash[w]) \in Seq(Nat)
    BY <1>1, HashIs, AppendProperties
  <2> DEFINE map == c.hash_map
  <2>5. c = [vocabulary |-> longer, bow |-> bow, hashes |-> Append(b.hashes, Hash[w]),
             hash_map |-> map]
    BY DEF New
  <2>7. Extra(c) \subseteq {EmptyHash}
    BY <1>1, <1>8
  <2> HIDE DEF c, longer, bow
  <2>6. map \in UNION {[H -> Nat] : H \in SUBSET Nat} /\ Known(longer) \subseteq DOMAIN map
    BY <2>1, <2>2
  <2> HIDE DEF map
  <2> QED BY <1>2, <1>3, <2>3, <2>4, <2>5, <2>6, <2>7 DEF Bags
<1>7. ASSUME NEW m1 \in [Hashes -> Nat], NEW m2 \in [Hashes -> Nat], Counted(b, m1),
             \A h \in Hashes : m2[h] = IF h = Hash[w] THEN 1 ELSE m1[h]
      PROVE  Counted(c, m2)
  <2>1. \A h \in Hashes : h \notin DOMAIN c.hash_map => m2[h] = 0
    BY <1>4, <1>7 DEF Counted
  <2>2. ASSUME InHashOrder(c), \A h \in Extra(c) : m2[h] = 0
        PROVE  /\ Len(bow) = Len(longer)
               /\ \A i \in DOMAIN bow : bow[i] = m2[Hash[longer[i]]]
    <3> HIDE DEF c, longer, bow, n
    <3>0. \A h \in Extra(b) : h # Hash[w] /\ m1[h] = 0
      <4>1. \A h \in Extra(b) : h # Hash[w] /\ h \in Hashes
        BY <1>1 DEF Extra
      <4> QED BY <1>7, <1>8, <2>2, <4>1
    <3>1. InHashOrder(b)
      <4>1. \A i \in 1 .. n : i \in 1 .. n + 1
        BY <1>1
      <4>2. \A i, j \in 1 .. n : i < j => Hash[v[i]] < Hash[v[j]]
        <5>1. \A i, j \in 1 .. n + 1 : i < j => Hash[longer[i]] < Hash[longer[j]]
          BY <1>2, <1>4, <2>2 DEF InHashOrder
        <5> QED BY <1>2, <4>1, <5>1
      <4>3. \A h \in Extra(b), i \in 1 .. n : Hash[v[i]] < h
        <5>1. \A h \in Extra(b), i \in 1 .. n + 1 : Hash[longer[i]] < h
          BY <1>2, <1>4, <1>8, <2>2 DEF InHashOrder
        <5> QED BY <1>2, <4>1, <5>1
      <4> QED BY <1>1, <4>2, <4>3 DEF InHashOrder
    <3>2. Len(b.bow) = n /\ \A i \in 1 .. n : b.bow[i] = m1[Hash[v[i]]]
      BY <1>1, <1>7, <3>0, <3>1 DEF Counted, n
    <3>3. ASSUME NEW i \in 1 .. n PROVE bow[i] = m2[Hash[longer[i]]]
      <4>1. Hash[v[i]] \in Known(v) /\ Hash[v[i]] \in Hashes
        <5>1. v[i] \in Range(v) /\ v[i] \in Words
          BY <1>1, BagIs DEF Range
        <5> QED BY <5>1, HashIs DEF Known
      <4>2. m2[Hash[v[i]]] = m1[Hash[v[i]]]
        BY <1>1, <1>7, <4>1
      <4> QED BY <1>2, <1>3, <3>2, <4>2
    <3>4. bow[n + 1] = m2[Hash[longer[n + 1]]]
      BY <1>2, <1>3, <1>7, <3>2, HashIs
    <3>5. \A i \in 1 .. n + 1 : i = n + 1 \/ i \in 1 .. n
      BY <1>1
    <3>6. DOMAIN bow = 1 .. n + 1 /\ Len(bow) = Len(longer)
      BY <1>2, <1>3, <3>2
    <3> QED BY <3>3, <3>4, <3>5, <3>6
  <2> QED BY <1>4, <2>1, <2>2 DEF Counted
<1> QED BY <1>4, <1>6, <1>7, <1>8

\* The rank of a hash in the map is behind no count, unless the extra entry is in the
\* map; it is the index of a word if the words are in the order of their hashes.
LEMMA RankIs ==
  ASSUME NEW b \in Bags, NEW x \in DOMAIN b.hash_map
  PROVE  /\ Rank(b.hash_map, x) \in Nat
         /\ Extra(b) = {} => Rank(b.hash_map, x) < Len(b.bow)
         /\ InHashOrder(b) /\ x \notin Extra(b) => \E i \in 1 .. Len(b.vocabulary) :
              Hash[b.vocabulary[i]] = x /\ Rank(b.hash_map, x) = i - 1
<1> DEFINE H == DOMAIN b.hash_map  v == b.vocabulary  n == Len(v)
           lower == {g \in H : g < x}
<1>1. /\ n \in Nat /\ DOMAIN v = 1 .. n /\ n <= Len(b.bow) /\ Len(b.bow) \in Nat
      /\ (\A i \in 1 .. n : v[i] \in Words)
      /\ H \in SUBSET Nat /\ IsFiniteSet(H) /\ x \in H /\ x \in Nat
      /\ Known(v) \subseteq H
  BY BagIs, HashIs
<1>2. Rank(b.hash_map, x) = Cardinality(lower)
  BY DEF Rank
<1>3. lower \in SUBSET H /\ IsFiniteSet(lower) /\ Cardinality(lower) \in Nat
  <2>1. lower \in SUBSET H
    OBVIOUS
  <2> HIDE DEF lower
  <2> QED BY <1>1, <2>1, FS_Subset, FS_CardinalityType
<1>4. ASSUME Extra(b) = {} PROVE Cardinality(lower) < Len(b.bow)
  <2> DEFINE f == [i \in 1 .. n |-> Hash[v[i]]]
  <2>1. H = Known(v)
    BY <1>1, <1>4 DEF Extra
  <2>2. f \in Surjection(1 .. n, H)
    BY <1>1, <2>1 DEF Surjection, Known, Range
  <2>3. IsFiniteSet(1 .. n) /\ Cardinality(1 .. n) = n
    <3>1. n \in Nat /\ n \in Int /\ 1 \in Int
      BY <1>1
    <3> HIDE DEF n
    <3>2. Cardinality(1 .. n) = (IF 1 > n THEN 0 ELSE n - 1 + 1) /\ IsFiniteSet(1 .. n)
      BY <3>1, FS_Interval
    <3> QED BY <3>1, <3>2
  <2> HIDE DEF f, H, n
  <2>4. Cardinality(H) <= n
    BY <2>2, <2>3, FS_Surjection
  <2>5. lower \in SUBSET H /\ lower # H /\ Cardinality(H) \in Nat
    BY <1>1, <1>3, FS_CardinalityType
  <2> HIDE DEF lower
  <2>6. Cardinality(lower) <= Cardinality(H) /\ Cardinality(lower) # Cardinality(H)
    BY <1>1, <2>5, FS_Subset
  <2> QED BY <1>1, <1>3, <2>4, <2>5, <2>6
<1>5. ASSUME InHashOrder(b), x \notin Extra(b)
      PROVE  \E i \in 1 .. n : Hash[v[i]] = x /\ Cardinality(lower) = i - 1
  <2>1. PICK k \in 1 .. n : Hash[v[k]] = x
    BY <1>1, <1>5 DEF Range, Extra, Known
  <2> DEFINE f == [i \in 1 .. k - 1 |-> Hash[v[i]]]
  <2>2. \A i, j \in 1 .. n : i < j => Hash[v[i]] < Hash[v[j]]
    BY <1>1, <1>5 DEF InHashOrder
  <2>3. \A i \in 1 .. k - 1 : i \in 1 .. n /\ i < k
    BY <1>1
  <2>4. \A i \in 1 .. n : Hash[v[i]] \in Nat /\ Hash[v[i]] \in H
    BY <1>1, HashIs DEF Range, Known
  <2>5. \A g \in lower : \E i \in 1 .. k - 1 : g = Hash[v[i]]
    <3> TAKE g \in lower
    <3>1. g \notin Extra(b)
      <4>1. g \in Extra(b) => Hash[v[k]] < g
        BY <1>1, <1>5 DEF InHashOrder
      <4>2. g \in Nat /\ g < Hash[v[k]] /\ Hash[v[k]] \in Nat /\ g \in H
        BY <1>1, <2>1
      <4> HIDE DEF lower, v, n, H
      <4> QED BY <4>1, <4>2
    <3>2. g \in Known(v)
      BY <3>1 DEF Extra
    <3>3. PICK i \in 1 .. n : g = Hash[v[i]]
      BY <1>1, <3>2 DEF Known, Range
    <3>4. i < k
      <4>1. Hash[v[i]] < Hash[v[k]] /\ Hash[v[i]] \in Nat /\ Hash[v[k]] \in Nat
        BY <2>1, <2>4, <3>3
      <4> HIDE DEF lower, v, n
      <4>2. ~ (k < i)
        BY <2>2, <4>1
      <4>3. k # i
        BY <4>1
      <4>4. k \in Nat /\ i \in Nat
        BY <1>1
      <4> QED BY <4>2, <4>3, <4>4
    <3>5. i \in 1 .. k - 1
      BY <1>1, <3>4
    <3> QED BY <3>3, <3>5
  <2>6. \A i \in 1 .. k - 1 : Hash[v[i]] \in lower
    <3> TAKE i \in 1 .. k - 1
    <3>1. i \in 1 .. n /\ i < k
      BY <2>3
    <3> HIDE DEF v, n, H
    <3> QED BY <2>1, <2>2, <2>4, <3>1
  <2>7. \A i, j \in 1 .. k - 1 : f[i] = f[j] => i = j
    <3> TAKE i, j \in 1 .. k - 1
    <3>1. i \in 1 .. n /\ j \in 1 .. n /\ i \in Nat /\ j \in Nat
      BY <1>1
    <3>2. Hash[v[i]] \in Nat /\ Hash[v[j]] \in Nat
      BY <2>4, <3>1
    <3>3. i < j \/ j < i \/ i = j
      BY <3>1
    <3>4. f[i] = Hash[v[i]] /\ f[j] = Hash[v[j]]
      OBVIOUS
    <3> HIDE DEF v, n, f
    <3>5. (i < j => Hash[v[i]] < Hash[v[j]]) /\ (j < i => Hash[v[j]] < Hash[v[i]])
      BY <2>2, <3>1
    <3> QED BY <3>2, <3>3, <3>4, <3>5
  <2>8. f \in Injection(1 .. k - 1, lower) /\ f \in Surjection(1 .. k - 1, lower)
    <3> HIDE DEF lower, v, n
    <3>1. f \in [1 .. k - 1 -> lower]
      BY <2>6
    <3>2. \A g \in lower : \E i \in 1 .. k - 1 : f[i] = g
      BY <2>5
    <3> HIDE DEF f
    <3> QED BY <2>7, <3>1, <3>2 DEF Injection, Surjection, IsInjective
  <2>9. Cardinality(1 .. k - 1) = k - 1
    <3>1. k - 1 \in Int /\ 1 \in Int /\ k \in Nat /\ k >= 1
      BY <1>1
    <3>2. Cardinality(1 .. k - 1) = IF 1 > k - 1 THEN 0 ELSE k - 1 - 1 + 1
      BY <3>1, FS_Interval
    <3> QED BY <3>1, <3>2
  <2> HIDE DEF f, lower
  <2>10. Cardinality(1 .. k - 1) = Cardinality(lower)
    BY <1>3, <2>8, FS_Injection
  <2> QED BY <2>1, <2>9, <2>10
<1> QED BY <1>2, <1>3, <1>4, <1>5

\* One more of a hash in the map.
LEMMA BumpBag ==
  ASSUME NEW b \in Bags, NEW x \in DOMAIN b.hash_map, NEW slot, slot = Rank(b.hash_map, x) + 1,
         NEW bow, slot <= Len(b.bow) => bow = [b.bow EXCEPT ![slot] = @ + 1],
         ~ (slot <= Len(b.bow)) => bow = b.bow \/ bow = Append(b.bow, 1),
         NEW c, c = [b EXCEPT !.bow = bow]
  PROVE  /\ c \in Bags /\ OneMore(b, c, x) /\ Extra(c) = Extra(b)
<1> DEFINE v == b.vocabulary  n == Len(v)
<1>1. /\ n \in Nat /\ DOMAIN v = 1 .. n /\ n <= Len(b.bow) /\ Len(b.bow) \in Nat
      /\ (\A i \in 1 .. n : v[i] \in Words) /\ b.bow \in Seq(Nat)
      /\ DOMAIN b.bow = 1 .. Len(b.bow) /\ x \in Hashes
  BY BagIs
<1>2. /\ slot \in Nat /\ slot >= 1
      /\ InHashOrder(b) /\ x \notin Extra(b) => \E i \in 1 .. n : Hash[v[i]] = x /\ slot = i
  BY RankIs
<1>3. c.vocabulary = v /\ c.bow = bow /\ c.hashes = b.hashes /\ c.hash_map = b.hash_map
  BY DEF Bags
<1>7. Extra(c) = Extra(b)
  BY <1>3 DEF Extra
<1>4. /\ bow \in Seq(Nat) /\ Len(b.bow) <= Len(bow) /\ Len(bow) \in Nat
      /\ slot <= Len(b.bow) => Len(bow) = Len(b.bow)
  <2>1. CASE slot <= Len(b.bow)
    <3>1. bow = [b.bow EXCEPT ![slot] = @ + 1] /\ slot \in 1 .. Len(b.bow)
      BY <1>1, <1>2, <2>1
    <3>2. \A i \in 1 .. Len(b.bow) : b.bow[i] \in Nat
      BY <1>1, ElementOfSeq
    <3>3. bow \in [1 .. Len(b.bow) -> Nat]
      BY <1>1, <3>1, <3>2
    <3>4. bow \in Seq(Nat) /\ Len(bow) = Len(b.bow)
      <4> DEFINE len == Len(b.bow)
      <4>1. len \in Nat /\ bow \in [1 .. len -> Nat]
        BY <1>1, <3>3
      <4> HIDE DEF len
      <4>2. bow \in Seq(Nat) /\ Len(bow) = len
        BY <4>1, Adds!FunctionLength
      <4> QED BY <4>2 DEF len
    <3> QED BY <1>1, <3>4
  <2>2. CASE ~ (slot <= Len(b.bow)) /\ bow = b.bow
    BY <1>1, <2>2
  <2>3. CASE ~ (slot <= Len(b.bow)) /\ bow = Append(b.bow, 1)
    <3>1. 1 \in Nat
      OBVIOUS
    <3>2. bow \in Seq(Nat) /\ Len(bow) = Len(b.bow) + 1
      BY <1>1, <2>3, <3>1, AppendProperties
    <3> QED BY <1>1, <2>3, <3>2
  <2> QED BY <2>1, <2>2, <2>3
<1>5. c \in Bags
  <2>1. n <= Len(bow)
    BY <1>1, <1>4
  <2>2. c = [vocabulary |-> v, bow |-> bow, hashes |-> b.hashes, hash_map |-> b.hash_map]
    BY DEF Bags
  <2>3. /\ v \in Seq(Words) /\ b.hashes \in Seq(Nat)
        /\ b.hash_map \in UNION {[H -> Nat] : H \in SUBSET Nat}
        /\ Known(v) \subseteq DOMAIN b.hash_map /\ Extra(c) \subseteq {EmptyHash}
    BY <1>7 DEF Bags
  <2> QED BY <1>4, <2>1, <2>2, <2>3 DEF Bags
<1>6. ASSUME NEW m1 \in [Hashes -> Nat], NEW m2 \in [Hashes -> Nat], Counted(b, m1),
             \A h \in Hashes : m2[h] = IF h = x THEN m1[h] + 1 ELSE m1[h]
      PROVE  Counted(c, m2)
  <2>1. \A h \in Hashes : h \notin DOMAIN c.hash_map => m2[h] = 0
    BY <1>3, <1>6 DEF Counted
  <2>2. ASSUME InHashOrder(c), \A h \in Extra(c) : m2[h] = 0
        PROVE  Len(bow) = n /\ \A i \in 1 .. n : bow[i] = m2[Hash[v[i]]]
    <3>0. x \notin Extra(b) /\ \A h \in Extra(b) : m1[h] = 0
      <4>1. x \notin Extra(b)
        <5>1. m2[x] = m1[x] + 1 /\ m1[x] \in Nat
          BY <1>1, <1>6
        <5>2. m2[x] # 0
          BY <5>1
        <5> QED BY <1>7, <2>2, <5>2
      <4>2. Extra(b) \subseteq Hashes
        BY BagIs
      <4> QED BY <1>6, <1>7, <2>2, <4>1, <4>2
    <3>1. InHashOrder(b)
      BY <1>3, <1>7, <2>2 DEF InHashOrder
    <3>2. PICK k \in 1 .. n : Hash[v[k]] = x /\ slot = k
      BY <1>2, <3>0, <3>1
    <3>3. Len(b.bow) = n /\ \A i \in 1 .. n : b.bow[i] = m1[Hash[v[i]]]
      BY <1>1, <1>6, <3>0, <3>1 DEF Counted
    <3>4. bow = [b.bow EXCEPT ![k] = @ + 1] /\ Len(bow) = n
      <4>1. slot <= Len(b.bow)
        BY <3>2, <3>3
      <4> QED BY <1>4, <3>2, <3>3, <4>1
    <3>5. \A i \in 1 .. n : i # k => Hash[v[i]] # x
      <4>1. \A i, j \in 1 .. n : i < j => Hash[v[i]] < Hash[v[j]]
        BY <1>1, <3>1 DEF InHashOrder
      <4>2. \A i \in 1 .. n : Hash[v[i]] \in Nat
        BY <1>1, HashIs
      <4> HIDE DEF v, n
      <4> TAKE i \in 1 .. n
      <4>3. i < k \/ k < i \/ i = k
        BY <1>1
      <4> QED BY <3>2, <4>1, <4>2, <4>3
    <3>6. ASSUME NEW i \in 1 .. n PROVE bow[i] = m2[Hash[v[i]]]
      <4>1. bow[i] = IF i = k THEN b.bow[i] + 1 ELSE b.bow[i]
        BY <1>1, <3>3, <3>4
      <4>2. m2[Hash[v[i]]] = IF Hash[v[i]] = x THEN m1[Hash[v[i]]] + 1 ELSE m1[Hash[v[i]]]
        BY <1>1, <1>6, HashIs
      <4> HIDE DEF v, n
      <4> QED BY <3>2, <3>3, <3>5, <4>1, <4>2
    <3> QED BY <3>4, <3>6
  <2>3. Len(bow) = n => DOMAIN bow = 1 .. n
    BY <1>4, LenProperties
  <2> QED BY <1>3, <2>1, <2>2, <2>3 DEF Counted
<1> QED BY <1>5, <1>6, <1>7 DEF OneMore

\* What a step for one token keeps of a bag, and how the counts go on.
LEMMA NewIsOneMore ==
  ASSUME NEW b \in Bags, NEW w \in Words, Hash[w] \notin DOMAIN b.hash_map
  PROVE  OneMore(b, New(b, w), Hash[w])
<1> SUFFICES ASSUME NEW m1 \in [Hashes -> Nat], NEW m2 \in [Hashes -> Nat], Counted(b, m1),
                    \A h \in Hashes : m2[h] = IF h = Hash[w] THEN m1[h] + 1 ELSE m1[h]
             PROVE  Counted(New(b, w), m2)
  BY DEF OneMore
<1>1. m1[Hash[w]] = 0
  BY HashIs DEF Counted
<1>2. \A h \in Hashes : m2[h] = IF h = Hash[w] THEN 1 ELSE m1[h]
  BY <1>1
<1> QED BY <1>2, NewBag

LEMMA AddedStep ==
  ASSUME NEW b \in Bags, NEW token \in Tokens
  PROVE  /\ Added(b, token) \in Bags /\ Extra(Added(b, token)) = Extra(b)
         /\ OneMore(b, Added(b, token), Hash[Reduced[token]])
<1> DEFINE w == Reduced[token]  x == Hash[w]  slot == Rank(b.hash_map, x) + 1
<1>1. w \in Words
  BY BagAssumption
<1> HIDE DEF w
<1>2. CASE x \notin DOMAIN b.hash_map
  <2>1. Added(b, token) = New(b, w)
    BY <1>2 DEF Added, w
  <2> QED BY <1>1, <1>2, <2>1, NewBag, NewIsOneMore DEF w
<1>3. CASE x \in DOMAIN b.hash_map
  <2> DEFINE bow == IF slot <= Len(b.bow) THEN [b.bow EXCEPT ![slot] = @ + 1]
                    ELSE Append(b.bow, 1)
  <2>2. Added(b, token) = [b EXCEPT !.bow = bow]
    BY <1>3 DEF Added, w
  <2>3. slot <= Len(b.bow) => bow = [b.bow EXCEPT ![slot] = @ + 1]
    OBVIOUS
  <2>4. ~ (slot <= Len(b.bow)) => bow = b.bow \/ bow = Append(b.bow, 1)
    OBVIOUS
  <2> HIDE DEF bow
  <2>5. slot = Rank(b.hash_map, x) + 1
    OBVIOUS
  <2> HIDE DEF slot
  <2> DEFINE c == Added(b, token)
  <2>6. c = [b EXCEPT !.bow = bow]
    BY <2>2
  <2> HIDE DEF c, x
  <2>7. c \in Bags /\ OneMore(b, c, x) /\ Extra(c) = Extra(b)
    BY <1>3, <2>3, <2>4, <2>5, <2>6, BumpBag
  <2> QED BY <2>7 DEF c, w, x
<1> QED BY <1>2, <1>3

LEMMA FittedStep ==
  ASSUME NEW b \in Bags, NEW token \in Tokens
  PROVE  /\ Fitted(b, token) \in Bags /\ Extra(Fitted(b, token)) = Extra(b)
         /\ OneMore(b, Fitted(b, token), Hash[token])
<1> DEFINE x == Hash[token]  slot == Rank(b.hash_map, x) + 1
<1>2. CASE x \notin DOMAIN b.hash_map
  <2>1. Fitted(b, token) = New(b, token)
    BY <1>2 DEF Fitted
  <2> QED BY <1>2, <2>1, HashIs, NewBag, NewIsOneMore
<1>3. CASE x \in DOMAIN b.hash_map
  <2> DEFINE bow == IF slot <= Len(b.bow) THEN [b.bow EXCEPT ![slot] = @ + 1] ELSE b.bow
  <2>2. Fitted(b, token) = [b EXCEPT !.bow = bow]
    <3>1. CASE slot <= Len(b.bow)
      BY <1>3, <3>1 DEF Fitted
    <3>2. CASE ~ (slot <= Len(b.bow))
      <4>1. Fitted(b, token) = b
        BY <1>3, <3>2 DEF Fitted
      <4>2. b = [b EXCEPT !.bow = b.bow]
        BY DEF Bags
      <4> QED BY <3>2, <4>1, <4>2
    <3> QED BY <3>1, <3>2
  <2>3. slot <= Len(b.bow) => bow = [b.bow EXCEPT ![slot] = @ + 1]
    OBVIOUS
  <2>4. ~ (slot <= Len(b.bow)) => bow = b.bow \/ bow = Append(b.bow, 1)
    OBVIOUS
  <2> HIDE DEF bow
  <2>5. slot = Rank(b.hash_map, x) + 1
    OBVIOUS
  <2> HIDE DEF slot
  <2> DEFINE c == Fitted(b, token)
  <2>6. c = [b EXCEPT !.bow = bow]
    BY <2>2
  <2> HIDE DEF c, x
  <2>7. c \in Bags /\ OneMore(b, c, x) /\ Extra(c) = Extra(b)
    BY <1>3, <2>3, <2>4, <2>5, <2>6, BumpBag
  <2> QED BY <2>7 DEF c, x
<1> QED BY <1>2, <1>3

LEMMA LookedUpStep ==
  ASSUME NEW b \in Bags, NEW token \in Tokens
  PROVE  /\ LookedUp(b, token) \in Bags /\ Extra(LookedUp(b, token)) = Extra(b)
         /\ DOMAIN LookedUp(b, token).hash_map = DOMAIN b.hash_map \cup {Hash[token]}
         /\ \A m1, m2 \in [Hashes -> Nat] :
              /\ Counted(b, m1)
              /\ \A h \in Hashes :
                   m2[h] = IF h = Hash[token] /\ h \notin DOMAIN b.hash_map THEN 1 ELSE m1[h]
              => Counted(LookedUp(b, token), m2)
<1>1. CASE Hash[token] \notin DOMAIN b.hash_map
  <2>1. LookedUp(b, token) = New(b, token)
    BY <1>1 DEF LookedUp
  <2>2. \A m1, m2 \in [Hashes -> Nat] :
          (\A h \in Hashes : m2[h] = IF h = Hash[token] /\ h \notin DOMAIN b.hash_map THEN 1 ELSE m1[h])
          => \A h \in Hashes : m2[h] = IF h = Hash[token] THEN 1 ELSE m1[h]
    BY <1>1
  <2>3. \A m1, m2 \in [Hashes -> Nat] :
          Counted(b, m1) /\ (\A h \in Hashes : m2[h] = IF h = Hash[token] THEN 1 ELSE m1[h])
            => Counted(New(b, token), m2)
    BY <1>1, HashIs, NewBag
  <2>4. \A m1, m2 \in [Hashes -> Nat] :
          /\ Counted(b, m1)
          /\ \A h \in Hashes : m2[h] = IF h = Hash[token] /\ h \notin DOMAIN b.hash_map THEN 1 ELSE m1[h]
          => Counted(New(b, token), m2)
    BY <2>2, <2>3
  <2> QED BY <1>1, <2>1, <2>4, HashIs, NewBag
<1>2. CASE Hash[token] \in DOMAIN b.hash_map
  <2>1. LookedUp(b, token) = b
    BY <1>2 DEF LookedUp
  <2>2. ASSUME NEW m1 \in [Hashes -> Nat], NEW m2 \in [Hashes -> Nat],
               \A h \in Hashes :
                 m2[h] = IF h = Hash[token] /\ h \notin DOMAIN b.hash_map THEN 1 ELSE m1[h]
        PROVE  m2 = m1
    BY <1>2, <2>2
  <2> QED BY <1>2, <2>1, <2>2
<1> QED BY <1>1, <1>2

Occurred(words, k, t) == Cardinality({i \in 1 .. k : words[i] = t})

LEMMA OccursOnceMore ==
  ASSUME NEW f, NEW t
  PROVE  /\ Occurred(f, 0, t) = 0
         /\ \A k \in Nat : /\ Occurred(f, k, t) \in Nat
                           /\ Occurred(f, k + 1, t) = IF f[k + 1] = t THEN Occurred(f, k, t) + 1
                                                      ELSE Occurred(f, k, t)
<1> DEFINE At(k) == {i \in 1 .. k : f[i] = t}
<1>1. At(0) = {}
  OBVIOUS
<1>2. ASSUME NEW k \in Nat
      PROVE  /\ Cardinality(At(k)) \in Nat
             /\ Cardinality(At(k + 1)) = IF f[k + 1] = t THEN Cardinality(At(k)) + 1
                                         ELSE Cardinality(At(k))
  <2>1. IsFiniteSet(At(k)) /\ Cardinality(At(k)) \in Nat
    <3>1. IsFiniteSet(1 .. k)
      BY FS_Interval
    <3>2. At(k) \in SUBSET (1 .. k)
      OBVIOUS
    <3> HIDE DEF At
    <3> QED BY <3>1, <3>2, FS_Subset, FS_CardinalityType
  <2>2. \A i : i \in 1 .. k + 1 <=> i \in 1 .. k \/ i = k + 1
    OBVIOUS
  <2>3. k + 1 \notin At(k)
    OBVIOUS
  <2>4. At(k + 1) = IF f[k + 1] = t THEN At(k) \cup {k + 1} ELSE At(k)
    BY <2>2
  <2> HIDE DEF At
  <2> QED BY <2>1, <2>3, <2>4, FS_AddElement
<1>3. Cardinality(At(0)) = 0
  BY <1>1, FS_EmptySet
<1>4. \A k : Occurred(f, k, t) = Cardinality(At(k))
  BY DEF Occurred
<1> HIDE DEF At
<1> QED BY <1>2, <1>3, <1>4

\* A whole document, by the hashes of its words.
Met(k, hs) == [h \in Hashes |-> met[h] + Occurred(hs, k, h)]

LEMMA MetOnceMore ==
  ASSUME met \in [Hashes -> Nat], NEW hs
  PROVE  /\ Met(0, hs) = met
         /\ \A k \in Nat : /\ Met(k, hs) \in [Hashes -> Nat]
                           /\ \A h \in Hashes :
                                Met(k + 1, hs)[h] = IF h = hs[k + 1] THEN Met(k, hs)[h] + 1
                                                    ELSE Met(k, hs)[h]
<1>1. \A h : /\ Occurred(hs, 0, h) = 0
             /\ \A k \in Nat : /\ Occurred(hs, k, h) \in Nat
                               /\ Occurred(hs, k + 1, h) = IF hs[k + 1] = h
                                                           THEN Occurred(hs, k, h) + 1
                                                           ELSE Occurred(hs, k, h)
  BY OccursOnceMore
<1>3. Met(0, hs) = met
  <2>1. \A h \in Hashes : met[h] + Occurred(hs, 0, h) = met[h]
    BY <1>1
  <2> QED BY <2>1 DEF Met
<1>4. \A k \in Nat : Met(k, hs) \in [Hashes -> Nat]
  BY <1>1 DEF Met
<1>5. ASSUME NEW k \in Nat, NEW h \in Hashes
      PROVE  Met(k + 1, hs)[h] = IF h = hs[k + 1] THEN Met(k, hs)[h] + 1 ELSE Met(k, hs)[h]
  <2>1. /\ Met(k, hs)[h] = met[h] + Occurred(hs, k, h)
        /\ Met(k + 1, hs)[h] = met[h] + Occurred(hs, k + 1, h)
        /\ met[h] \in Nat /\ Occurred(hs, k, h) \in Nat
    BY <1>1 DEF Met
  <2> QED BY <1>1, <2>1
<1> QED BY <1>3, <1>4, <1>5

\* The bags with the extra entries of another one.
Alike(b) == {u \in Bags : Extra(u) = Extra(b)}

\* What the three loops make of a bag whose counts are those of what was met.
LEMMA AddedDocument ==
  ASSUME met \in [Hashes -> Nat], NEW b \in Bags, Counted(b, met), NEW document \in Seq(Tokens)
  PROVE  LET c == FoldLeft(Added, b, document)
             m == [h \in Hashes |->
                     met[h] + Occurrences([i \in DOMAIN document |-> Reduced[document[i]]], h)]
         IN c \in Alike(b) /\ Counted(c, m) /\ m \in [Hashes -> Nat]
<1> DEFINE n == Len(document)  hs == [i \in 1 .. n |-> Hash[Reduced[document[i]]]]
           Stage == [k \in 0 .. n |-> {u \in Alike(b) : Counted(u, Met(k, hs))}]
           c == FoldLeft(Added, b, document)
           m == [h \in Hashes |->
                   met[h] + Occurrences([i \in DOMAIN document |-> Reduced[document[i]]], h)]
<1>1. /\ n \in Nat /\ DOMAIN document = 1 .. n
      /\ \A k \in 1 .. n : document[k] \in Tokens /\ hs[k] = Hash[Reduced[document[k]]]
  BY LenProperties, ElementOfSeq
<1>2. m = Met(n, hs)
  <2>1. ASSUME NEW h PROVE Occurrences([i \in DOMAIN document |-> Reduced[document[i]]], h) = Occurred(hs, n, h)
    <3>1. {i \in 1 .. n : Hash[Reduced[document[i]]] = h} = {i \in 1 .. n : hs[i] = h}
      BY <1>1
    <3> QED BY <1>1, <3>1 DEF Occurrences, Occurred
  <2> QED BY <2>1 DEF Met
<1> HIDE DEF n, hs, m, c
<1>3. b \in Stage[0]
  <2>1. Counted(b, Met(0, hs))
    BY MetOnceMore
  <2> QED BY <1>1, <2>1 DEF Alike
<1>4. ASSUME NEW k \in 1 .. n, NEW u \in Stage[k - 1] PROVE Added(u, document[k]) \in Stage[k]
  <2>1. k - 1 \in 0 .. n /\ k \in 0 .. n /\ k - 1 \in Nat /\ k - 1 + 1 = k /\ k \in Nat
    BY <1>1
  <2>2. u \in Bags /\ Extra(u) = Extra(b) /\ Counted(u, Met(k - 1, hs))
    BY <2>1 DEF Alike
  <2> DEFINE token == document[k]  x == Hash[Reduced[token]]  m1 == Met(k - 1, hs)  m2 == Met(k, hs)
  <2>3. token \in Tokens /\ hs[k] = x
    BY <1>1
  <2>4. m1 \in [Hashes -> Nat] /\ m2 \in [Hashes -> Nat]
        /\ \A h \in Hashes : m2[h] = IF h = x THEN m1[h] + 1 ELSE m1[h]
    <3>1. \A j \in Nat : /\ Met(j, hs) \in [Hashes -> Nat]
                         /\ \A h \in Hashes :
                              Met(j + 1, hs)[h] = IF h = hs[j + 1] THEN Met(j, hs)[h] + 1
                                                  ELSE Met(j, hs)[h]
      BY MetOnceMore
    <3>2. \A h \in Hashes : Met(k - 1 + 1, hs)[h] = IF h = hs[k - 1 + 1]
                                                     THEN Met(k - 1, hs)[h] + 1
                                                     ELSE Met(k - 1, hs)[h]
      BY <2>1, <3>1
    <3> QED BY <2>1, <2>3, <3>1, <3>2
  <2> HIDE DEF token, x, m1, m2, Stage
  <2>5. /\ Added(u, token) \in Bags /\ OneMore(u, Added(u, token), x)
        /\ Extra(Added(u, token)) = Extra(u)
    BY <2>2, <2>3, AddedStep DEF x
  <2>6. Counted(Added(u, token), m2)
    BY <2>2, <2>4, <2>5 DEF OneMore, m1
  <2> QED BY <2>1, <2>2, <2>5, <2>6 DEF Stage, Alike, token, m2
<1> HIDE DEF Stage
<1>5. Adds!Folded(b, document) \in Stage[n]
  BY <1>3, <1>4, Adds!FoldAlong DEF n
<1>6. c \in Stage[n] /\ n \in 0 .. n
  BY <1>1, <1>5, AddsFold DEF c
<1>7. m \in [Hashes -> Nat]
  BY <1>1, <1>2, MetOnceMore
<1>8. c \in Alike(b) /\ Counted(c, m)
  BY <1>2, <1>6 DEF Stage
<1> QED BY <1>7, <1>8 DEF c, m

LEMMA FittedDocument ==
  ASSUME met \in [Hashes -> Nat], NEW b \in Bags, Counted(b, met), NEW document \in Seq(Tokens)
  PROVE  LET c == FoldLeft(Fitted, b, document)
             m == [h \in Hashes |-> met[h] + Occurrences(document, h)]
         IN c \in Alike(b) /\ Counted(c, m) /\ m \in [Hashes -> Nat]
<1> DEFINE n == Len(document)  hs == [i \in 1 .. n |-> Hash[document[i]]]
           Stage == [k \in 0 .. n |-> {u \in Alike(b) : Counted(u, Met(k, hs))}]
           c == FoldLeft(Fitted, b, document)
           m == [h \in Hashes |-> met[h] + Occurrences(document, h)]
<1>1. /\ n \in Nat /\ DOMAIN document = 1 .. n
      /\ \A k \in 1 .. n : document[k] \in Tokens /\ hs[k] = Hash[document[k]]
  BY LenProperties, ElementOfSeq
<1>2. m = Met(n, hs)
  <2>1. ASSUME NEW h PROVE Occurrences(document, h) = Occurred(hs, n, h)
    <3>1. {i \in 1 .. n : Hash[document[i]] = h} = {i \in 1 .. n : hs[i] = h}
      BY <1>1
    <3> QED BY <1>1, <3>1 DEF Occurrences, Occurred
  <2> QED BY <2>1 DEF Met
<1> HIDE DEF n, hs, m, c
<1>3. b \in Stage[0]
  <2>1. Counted(b, Met(0, hs))
    BY MetOnceMore
  <2> QED BY <1>1, <2>1 DEF Alike
<1>4. ASSUME NEW k \in 1 .. n, NEW u \in Stage[k - 1] PROVE Fitted(u, document[k]) \in Stage[k]
  <2>1. k - 1 \in 0 .. n /\ k \in 0 .. n /\ k - 1 \in Nat /\ k - 1 + 1 = k /\ k \in Nat
    BY <1>1
  <2>2. u \in Bags /\ Extra(u) = Extra(b) /\ Counted(u, Met(k - 1, hs))
    BY <2>1 DEF Alike
  <2> DEFINE token == document[k]  x == Hash[token]  m1 == Met(k - 1, hs)  m2 == Met(k, hs)
  <2>3. token \in Tokens /\ hs[k] = x
    BY <1>1
  <2>4. m1 \in [Hashes -> Nat] /\ m2 \in [Hashes -> Nat]
        /\ \A h \in Hashes : m2[h] = IF h = x THEN m1[h] + 1 ELSE m1[h]
    <3>1. \A j \in Nat : /\ Met(j, hs) \in [Hashes -> Nat]
                         /\ \A h \in Hashes :
                              Met(j + 1, hs)[h] = IF h = hs[j + 1] THEN Met(j, hs)[h] + 1
                                                  ELSE Met(j, hs)[h]
      BY MetOnceMore
    <3>2. \A h \in Hashes : Met(k - 1 + 1, hs)[h] = IF h = hs[k - 1 + 1]
                                                     THEN Met(k - 1, hs)[h] + 1
                                                     ELSE Met(k - 1, hs)[h]
      BY <2>1, <3>1
    <3> QED BY <2>1, <2>3, <3>1, <3>2
  <2> HIDE DEF token, x, m1, m2, Stage
  <2>5. /\ Fitted(u, token) \in Bags /\ OneMore(u, Fitted(u, token), x)
        /\ Extra(Fitted(u, token)) = Extra(u)
    BY <2>2, <2>3, FittedStep DEF x
  <2>6. Counted(Fitted(u, token), m2)
    BY <2>2, <2>4, <2>5 DEF OneMore, m1
  <2> QED BY <2>1, <2>2, <2>5, <2>6 DEF Stage, Alike, token, m2
<1> HIDE DEF Stage
<1>5. Fits!Folded(b, document) \in Stage[n]
  BY <1>3, <1>4, Fits!FoldAlong DEF n
<1>6. c \in Stage[n] /\ n \in 0 .. n
  BY <1>1, <1>5, FitsFold DEF c
<1>7. m \in [Hashes -> Nat]
  BY <1>1, <1>2, MetOnceMore
<1>8. c \in Alike(b) /\ Counted(c, m)
  BY <1>2, <1>6 DEF Stage
<1> QED BY <1>7, <1>8 DEF c, m

LEMMA LookedUpDocument ==
  ASSUME met \in [Hashes -> Nat], NEW b \in Bags, Counted(b, met), NEW document \in Seq(Tokens)
  PROVE  LET c == FoldLeft(LookedUp, b, document)
             m == [h \in Hashes |->
                     IF h \in DOMAIN c.hash_map \ DOMAIN b.hash_map THEN 1 ELSE met[h]]
         IN c \in Bags /\ Counted(c, m) /\ m \in [Hashes -> Nat]
<1> DEFINE New1(u) == [h \in Hashes |->
                         IF h \in DOMAIN u.hash_map \ DOMAIN b.hash_map THEN 1 ELSE met[h]]
           Stage == {u \in Bags : DOMAIN b.hash_map \subseteq DOMAIN u.hash_map
                                  /\ Counted(u, New1(u))}
           c == FoldLeft(LookedUp, b, document)
<1>1. \A u : New1(u) \in [Hashes -> Nat]
  OBVIOUS
<1>2. b \in Stage
  <2>1. New1(b) = met
    OBVIOUS
  <2> QED BY <2>1
<1>3. ASSUME NEW u \in Stage, NEW token \in Tokens PROVE LookedUp(u, token) \in Stage
  <2> DEFINE d == LookedUp(u, token)  m1 == New1(u)  m2 == New1(d)
  <2>1. u \in Bags /\ DOMAIN b.hash_map \subseteq DOMAIN u.hash_map /\ Counted(u, m1)
    BY <1>3
  <2>2. /\ d \in Bags /\ DOMAIN d.hash_map = DOMAIN u.hash_map \cup {Hash[token]}
        /\ \A n1, n2 \in [Hashes -> Nat] :
              /\ Counted(u, n1)
              /\ \A h \in Hashes :
                   n2[h] = IF h = Hash[token] /\ h \notin DOMAIN u.hash_map THEN 1 ELSE n1[h]
              => Counted(d, n2)
    BY <2>1, LookedUpStep
  <2> HIDE DEF d
  <2>3. \A h \in Hashes : m2[h] = IF h = Hash[token] /\ h \notin DOMAIN u.hash_map THEN 1 ELSE m1[h]
    BY <2>1, <2>2
  <2>4. m1 \in [Hashes -> Nat] /\ m2 \in [Hashes -> Nat]
    BY <1>1
  <2> HIDE DEF m1, m2
  <2>5. Counted(d, m2)
    BY <2>1, <2>2, <2>3, <2>4
  <2> QED BY <2>1, <2>2, <2>5 DEF d, m2
<1> HIDE DEF Stage
<1>4. Looks!Folded(b, document) \in Stage
  BY <1>2, <1>3, Looks!FoldKeeps
<1>5. c \in Stage
  BY <1>4, LooksFold
<1> HIDE DEF c
<1>6. c \in Bags /\ Counted(c, New1(c))
  BY <1>5 DEF Stage
<1> QED BY <1>1, <1>6 DEF c

\* Every key of a map has a rank of its own.
LEMMA RanksAre ==
  ASSUME NEW H \in SUBSET Nat, IsFiniteSet(H), NEW map \in [H -> Nat]
  PROVE  Cardinality(H) \in Nat
         /\ \A k \in 1 .. Cardinality(H) : \E h \in H : Rank(map, h) = k - 1
<1> DEFINE n == Cardinality(H)  lower(h) == {g \in H : g < h}
           f == [h \in H |-> Cardinality(lower(h)) + 1]
<1>1. n \in Nat
  BY FS_CardinalityType
<1>2. \A h \in H : /\ lower(h) \in SUBSET H /\ lower(h) # H
                   /\ IsFiniteSet(lower(h)) /\ Cardinality(lower(h)) \in Nat
  <2> TAKE h \in H
  <2>1. lower(h) \in SUBSET H /\ h \notin lower(h)
    OBVIOUS
  <2> HIDE DEF lower
  <2> QED BY <2>1, FS_Subset, FS_CardinalityType
<1>3. ASSUME NEW h \in H PROVE f[h] \in 1 .. n
  <2>1. Cardinality(lower(h)) <= n /\ Cardinality(lower(h)) # n
    BY <1>2, FS_Subset
  <2> HIDE DEF lower, n
  <2> QED BY <1>1, <1>2, <2>1
<1>4. ASSUME NEW g \in H, NEW h \in H, g < h PROVE f[g] # f[h]
  <2>1. lower(g) \in SUBSET lower(h) /\ g \in lower(h) /\ g \notin lower(g)
    <3>1. g \in Nat /\ h \in Nat
      OBVIOUS
    <3>2. \A x \in H : x < g => x < h
      BY <1>4, <3>1
    <3>3. ~ (g < g)
      BY <3>1
    <3> QED BY <1>4, <3>2, <3>3
  <2> HIDE DEF lower
  <2>2. Cardinality(lower(g)) # Cardinality(lower(h))
    BY <1>2, <2>1, FS_Subset
  <2> QED BY <1>2, <2>2
<1>5. f \in Injection(H, 1 .. n)
  <2>1. f \in [H -> 1 .. n]
    BY <1>3
  <2>2. ASSUME NEW g \in H, NEW h \in H, f[g] = f[h] PROVE g = h
    <3>1. g < h \/ h < g \/ g = h
      OBVIOUS
    <3> HIDE DEF f
    <3> QED BY <1>4, <2>2, <3>1
  <2> HIDE DEF f
  <2> QED BY <2>1, <2>2 DEF Injection, IsInjective
<1>6. IsFiniteSet(1 .. n) /\ Cardinality(1 .. n) = n
  <2> HIDE DEF n
  <2>1. n \in Int /\ 1 \in Int
    BY <1>1
  <2>2. Cardinality(1 .. n) = (IF 1 > n THEN 0 ELSE n - 1 + 1) /\ IsFiniteSet(1 .. n)
    BY <2>1, FS_Interval
  <2> QED BY <1>1, <2>2
<1>7. f \in Surjection(H, 1 .. n)
  <2> HIDE DEF f
  <2> QED BY <1>5, <1>6, FS_Injection
<1>8. ASSUME NEW k \in 1 .. n PROVE \E h \in H : Rank(map, h) = k - 1
  <2>1. PICK h \in H : f[h] = k
    BY <1>7 DEF Surjection
  <2>2. Rank(map, h) = Cardinality(lower(h))
    BY DEF Rank
  <2> HIDE DEF lower
  <2> QED BY <1>2, <2>1, <2>2
<1> QED BY <1>1, <1>8

\* What save writes has a blank line at its end.
Lines == [kind : {"number", "entry", "word", "blank"}, number : Nat, index : Nat, word : Words]
Filled == {l \in Lines : l.kind # "blank"}
Written(lines) ==
  lines = <<>> \/ (lines \in Seq(Lines) /\ Len(lines) >= 1 /\ lines[Len(lines)].kind = "blank")

\* What load is called for has no other.
Readable(lines) == Written(lines) /\ \A i \in 1 .. Len(lines) - 1 : lines[i] \in Filled

LEMMA SavedIsWritten == ASSUME NEW b \in Bags PROVE Written(Saved(b))
<1> DEFINE order == InOrder(b.hash_map)
           part1 == [i \in DOMAIN b.hashes |-> Numeric(b.hashes[i])]
           part2 == [i \in DOMAIN order |-> Entry(order[i], b.hash_map[order[i]])]
           part3 == [i \in DOMAIN b.vocabulary |-> Word(b.vocabulary[i])]
           part4 == [i \in DOMAIN b.bow |-> Numeric(b.bow[i])]
           tail == <<Entry(0, 0), Blank>>
<1>1. Saved(b) = part1 \o part2 \o part3 \o part4 \o tail
  BY DEF Saved, Parts
<1>2. part1 \in Seq(Lines) /\ part4 \in Seq(Lines)
  <2>1. \A n \in Nat : Numeric(n) \in Lines
    BY DEF Numeric, Lines, Words
  <2>2. \A s \in Seq(Nat) : [i \in DOMAIN s |-> Numeric(s[i])] \in Seq(Lines)
    <3> TAKE s \in Seq(Nat)
    <3>1. Len(s) \in Nat /\ DOMAIN s = 1 .. Len(s) /\ \A i \in 1 .. Len(s) : s[i] \in Nat
      BY LenProperties, ElementOfSeq
    <3> DEFINE n == Len(s)  r == [i \in DOMAIN s |-> Numeric(s[i])]
    <3>2. r \in [1 .. n -> Lines]
      BY <2>1, <3>1
    <3> HIDE DEF n, r
    <3>3. r \in Seq(Lines)
      BY <3>1, <3>2, Adds!FunctionLength DEF n
    <3> QED BY <3>3 DEF r
  <2> QED BY <2>2, BagIs
<1>3. part2 \in Seq(Lines)
  <2> DEFINE map == b.hash_map  H == DOMAIN map  n == Cardinality(H)
  <2>1. H \in SUBSET Nat /\ IsFiniteSet(H) /\ map \in [H -> Nat]
    BY BagIs
  <2>2. n \in Nat /\ \A k \in 1 .. n : \E h \in H : Rank(map, h) = k - 1
    BY <2>1, RanksAre
  <2>3. order = [k \in 1 .. n |-> CHOOSE h \in H : Rank(map, h) = k - 1]
    BY DEF InOrder
  <2> HIDE DEF map, H, n, order
  <2>4. order \in [1 .. n -> H]
    BY <2>2, <2>3
  <2>5. \A k \in 1 .. n : order[k] \in Nat /\ map[order[k]] \in Nat
    BY <2>1, <2>4
  <2>6. \A h, i \in Nat : Entry(h, i) \in Lines
    BY DEF Entry, Lines, Words
  <2>7. part2 \in [1 .. n -> Lines]
    BY <2>4, <2>5, <2>6 DEF map
  <2> HIDE DEF part2
  <2> QED BY <2>2, <2>7, Adds!FunctionLength
<1>4. part3 \in Seq(Lines)
  <2> DEFINE v == b.vocabulary  n == Len(v)
  <2>1. n \in Nat /\ DOMAIN v = 1 .. n /\ \A i \in 1 .. n : v[i] \in Words
    BY BagIs
  <2>2. \A w \in Words : Word(w) \in Lines
    BY BagAssumption DEF Word, Lines
  <2> HIDE DEF v, n
  <2>3. part3 \in [1 .. n -> Lines]
    BY <2>1, <2>2 DEF v
  <2> HIDE DEF part3
  <2> QED BY <2>1, <2>3, Adds!FunctionLength
<1> HIDE DEF order, part1, part2, part3, part4
<1> DEFINE front == part1 \o part2 \o part3 \o part4
<1>5. front \in Seq(Lines)
  BY <1>2, <1>3, <1>4, ConcatProperties
<1>6. tail \in Seq(Lines) /\ Len(tail) = 2 /\ tail[2].kind = "blank"
  <2> DEFINE e == Entry(0, 0)
  <2>1. e \in Lines /\ Blank \in Lines /\ Blank.kind = "blank"
    BY DEF Entry, Blank, Lines, Words
  <2>3. \A x, y \in Lines : <<x, y>> \in Seq(Lines) /\ Len(<<x, y>>) = 2 /\ <<x, y>>[2] = y
    OBVIOUS
  <2> HIDE DEF e
  <2>4. tail = <<e, Blank>>
    BY DEF e
  <2> QED BY <2>1, <2>3, <2>4
<1>7. Saved(b) = front \o tail
  BY <1>1
<1> HIDE DEF front, tail
<1> DEFINE n == Len(front)  lines == front \o tail
<1>8. n \in Nat
  BY <1>5, LenProperties
<1>9. /\ lines \in Seq(Lines) /\ Len(lines) = n + 2
      /\ \A i \in 1 .. n + 2 : lines[i] = IF i <= n THEN front[i] ELSE tail[i - n]
  <2>1. /\ front \o tail \in Seq(Lines) /\ Len(front \o tail) = Len(front) + Len(tail)
        /\ \A i \in 1 .. Len(front) + Len(tail) :
             (front \o tail)[i] = IF i <= Len(front) THEN front[i] ELSE tail[i - Len(front)]
    BY <1>5, <1>6, ConcatProperties
  <2> QED BY <1>6, <2>1
<1> HIDE DEF n, lines
<1>10. lines[n + 2].kind = "blank"
  <2> DEFINE last == n + 2
  <2>1. last \in 1 .. n + 2 /\ ~ (last <= n) /\ last - n = 2
    BY <1>8
  <2> HIDE DEF last
  <2>2. lines[last] = tail[last - n]
    BY <1>9, <2>1
  <2>3. lines[last] = tail[2]
    BY <2>1, <2>2
  <2> QED BY <1>6, <2>3 DEF last
<1>12. Len(lines) >= 1
  BY <1>8, <1>9
<1> QED BY <1>7, <1>9, <1>10, <1>12 DEF Written, lines

LEMMA PrefixIs ==
  ASSUME NEW S
  PROVE  \A s \in Seq(S) : \A k \in Nat : k <= Len(s) =>
           /\ SubSeq(s, 1, k) \in Seq(S) /\ Len(SubSeq(s, 1, k)) = k
           /\ \A i \in 1 .. k : SubSeq(s, 1, k)[i] = s[i]
  OBVIOUS

LEMMA WrittenIsReadable ==
  ASSUME NEW lines, Written(lines), NEW ate,
         \A i \in 1 .. Len(lines) - 1 : lines[i].kind # "blank"
  PROVE  Readable(IF ate THEN <<>> ELSE lines)
<1>1. Readable(<<>>)
  <2>1. 1 .. Len(<<>>) - 1 = {}
    OBVIOUS
  <2> QED BY <2>1 DEF Readable, Written
<1>2. CASE lines = <<>>
  BY <1>1, <1>2
<1>3. CASE lines # <<>>
  <2>1. lines \in Seq(Lines) /\ Len(lines) \in Nat
    BY <1>3, LenProperties DEF Written
  <2>2. \A i \in 1 .. Len(lines) - 1 : lines[i] \in Lines
    <3> TAKE i \in 1 .. Len(lines) - 1
    <3>1. i \in 1 .. Len(lines)
      BY <2>1
    <3> QED BY <2>1, <3>1, ElementOfSeq
  <2>3. Readable(lines)
    BY <2>2 DEF Readable, Filled
  <2> QED BY <1>1, <2>3
<1> QED BY <1>2, <1>3

\* The first loop of load reads all of it, the other three read nothing.
LEMMA SectionIs ==
  ASSUME NEW lines, Readable(lines)
  PROVE  Until(lines) \in Seq(Filled) /\ Behind(lines) = <<>>
<1>1. CASE lines = <<>>
  <2> DEFINE blanks == {i \in 1 .. Len(<<>>) : <<>>[i].kind = "blank"}
  <2>1. blanks = {}
    OBVIOUS
  <2>2. Section(<<>>) = -1
    BY <2>1 DEF Section, SelectInSeq
  <2> QED BY <1>1, <2>2 DEF Until, Behind
<1>2. CASE lines # <<>>
  <2> DEFINE n == Len(lines)  blanks == {i \in 1 .. n : lines[i].kind = "blank"}
  <2>1. /\ lines \in Seq(Lines) /\ n \in Nat /\ n >= 1 /\ lines[n].kind = "blank"
        /\ \A i \in 1 .. n - 1 : lines[i] \in Filled
    BY <1>2, LenProperties DEF Written, Readable
  <2>2. Section(lines) = IF blanks # {} THEN Min(blanks) - 1 ELSE -1
    BY DEF Section, SelectInSeq
  <2>3. blanks = {n}
    <3>1. \A i \in 1 .. n : i = n \/ i \in 1 .. n - 1
      BY <2>1
    <3>2. n \in 1 .. n
      BY <2>1
    <3> HIDE DEF n
    <3> QED BY <2>1, <3>1, <3>2 DEF Filled
  <2> HIDE DEF n, blanks
  <2>4. Min(blanks) = n
    BY <2>1, <2>3 DEF Min
  <2>5. Section(lines) = n - 1 /\ ~ (n - 1 < 0)
    BY <2>1, <2>2, <2>3, <2>4
  <2>6. Until(lines) = SubSeq(lines, 1, n - 1) /\ Behind(lines) = SubSeq(lines, n + 1, n)
    <3>1. n - 1 + 2 = n + 1
      BY <2>1
    <3> QED BY <2>5, <3>1 DEF Until, Behind, n
  <2>7. Behind(lines) = <<>>
    <3>1. n + 1 \in Int /\ n \in Int /\ n + 1 > n
      BY <2>1
    <3> QED BY <2>6, <3>1, SubSeqEmpty
  <2>8. Until(lines) \in Seq(Filled)
    <3>1. /\ SubSeq(lines, 1, n - 1) \in Seq(Lines) /\ Len(SubSeq(lines, 1, n - 1)) = n - 1
          /\ \A i \in 1 .. n - 1 : SubSeq(lines, 1, n - 1)[i] = lines[i]
      <4> DEFINE k == n - 1
      <4>1. k \in Nat /\ k <= Len(lines)
        BY <2>1 DEF n
      <4>3. lines \in Seq(Lines)
        BY <2>1
      <4> HIDE DEF k
      <4>2. /\ SubSeq(lines, 1, k) \in Seq(Lines) /\ Len(SubSeq(lines, 1, k)) = k
            /\ \A i \in 1 .. k : SubSeq(lines, 1, k)[i] = lines[i]
        BY <4>1, <4>3, PrefixIs
      <4> QED BY <4>2 DEF k
    <3> DEFINE u == SubSeq(lines, 1, n - 1)
    <3>2. DOMAIN u = 1 .. n - 1 /\ u = [i \in 1 .. n - 1 |-> u[i]]
      BY <3>1
    <3>3. n - 1 \in Nat
      BY <2>1
    <3>4. u \in [1 .. n - 1 -> Filled]
      BY <2>1, <3>1, <3>2
    <3> HIDE DEF u
    <3>5. u \in Seq(Filled)
      BY <3>3, <3>4, Adds!FunctionLength
    <3> QED BY <2>6, <3>5 DEF u
  <2> QED BY <2>7, <2>8
<1> QED BY <1>1, <1>2

Restored == {[Default EXCEPT !.hashes = hs] : hs \in Seq(Nat)}

LEMMA LoadedIs == ASSUME NEW lines, Readable(lines) PROVE Loaded(Default, lines) \in Restored
<1> DEFINE first == Until(lines)
           bad == SelectInSeq(first, LAMBDA l : l.kind = "word")
           numbers(part) == [i \in DOMAIN part |-> part[i].number]
<1>1. first \in Seq(Filled) /\ Behind(lines) = <<>>
  BY SectionIs
<1>2. Behind(<<>>) = <<>> /\ Until(<<>>) = <<>>
  <2> DEFINE blanks == {i \in 1 .. Len(<<>>) : <<>>[i].kind = "blank"}
  <2>1. blanks = {}
    OBVIOUS
  <2>2. Section(<<>>) = -1
    BY <2>1 DEF Section, SelectInSeq
  <2> QED BY <2>2 DEF Until, Behind
<1>3. ASSUME NEW part \in Seq(Filled) PROVE <<EmptyHash>> \o numbers(part) \in Seq(Nat)
  <2> DEFINE n == Len(part)  r == numbers(part)
  <2>1. n \in Nat /\ DOMAIN part = 1 .. n /\ \A i \in 1 .. n : part[i] \in Filled
    BY LenProperties, ElementOfSeq
  <2>4. \A l \in Filled : l.number \in Nat
    BY DEF Filled, Lines
  <2>2. r \in [1 .. n -> Nat]
    BY <2>1, <2>4
  <2> HIDE DEF n, r
  <2>3. r \in Seq(Nat) /\ <<EmptyHash>> \in Seq(Nat)
    BY <2>1, <2>2, Adds!FunctionLength, HashIs
  <2>5. <<EmptyHash>> \o r \in Seq(Nat)
    BY <2>3, ConcatProperties
  <2> QED BY <2>5 DEF r
<1>4. CASE bad > 0
  <2> DEFINE front == SubSeq(first, 1, bad - 1)
  <2>1. Loaded(Default, lines) = [Default EXCEPT !.hashes = @ \o numbers(front)]
    BY <1>4 DEF Loaded
  <2>2. bad \in 1 .. Len(first)
    <3> DEFINE words == {i \in 1 .. Len(first) : first[i].kind = "word"}
    <3>1. bad = IF words # {} THEN Min(words) ELSE 0
      BY DEF SelectInSeq
    <3>2. words # {} /\ words \in SUBSET Nat
      BY <1>4, <3>1
    <3> HIDE DEF bad
    <3>3. PICK m \in words : \A i \in words : m <= i
      BY <3>2, Adds!Least
    <3>4. Min(words) \in words
      BY <3>3 DEF Min
    <3> QED BY <3>1, <3>2, <3>4
  <2> HIDE DEF bad, first
  <2>3. front \in Seq(Filled)
    BY <1>1, <2>2
  <2> HIDE DEF front
  <2>4. <<EmptyHash>> \o numbers(front) \in Seq(Nat)
    BY <1>3, <2>3
  <2>5. Default.hashes = <<EmptyHash>>
    BY DEF Default, EmptyHash
  <2>6. Loaded(Default, lines) = [Default EXCEPT !.hashes = <<EmptyHash>> \o numbers(front)]
    BY <2>1, <2>5
  <2> QED BY <2>4, <2>6 DEF Restored
<1>5. CASE ~ (bad > 0)
  <2> DEFINE hs == <<EmptyHash>> \o numbers(first)
  <2> DEFINE words(part) == [i \in DOMAIN part |-> part[i].word]
             map(part) == [h \in DOMAIN Default.hash_map \cup {l.number : l \in Range(part)} |->
                             IF h \in DOMAIN Default.hash_map THEN Default.hash_map[h]
                             ELSE (CHOOSE l \in Range(part) : l.number = h).index]
             second == Behind(lines)  third == Behind(second)  fourth == Behind(third)
  <2>1. Loaded(Default, lines) =
          [vocabulary |-> Default.vocabulary \o words(Until(third)),
           bow |-> Default.bow \o numbers(Until(fourth)),
           hashes |-> Default.hashes \o numbers(first), hash_map |-> map(Until(second))]
    BY <1>5 DEF Loaded
  <2>9. second = <<>> /\ third = <<>> /\ fourth = <<>>
    BY <1>1, <1>2
  <2> HIDE DEF words, map, second, third, fourth
  <2>2. hs \in Seq(Nat)
    BY <1>1, <1>3
  <2>5. Default.hash_map = [h \in {EmptyHash} |-> 0] /\ Default.hashes = <<EmptyHash>>
        /\ Default.vocabulary = <<>> /\ Default.bow = <<>>
    BY DEF Default, EmptyHash
  <2>3. <<>> \o words(<<>>) = <<>> /\ <<>> \o numbers(<<>>) = <<>>
    BY DEF words
  <2>4. Range(<<>>) = {}
    BY DEF Range
  <2>6. map(<<>>) = [h \in {EmptyHash} |-> 0]
    BY <2>4, <2>5 DEF map
  <2> HIDE DEF first, numbers
  <2>7. Loaded(Default, lines) = [vocabulary |-> <<>>, bow |-> <<>>, hashes |-> hs,
                                  hash_map |-> [h \in {EmptyHash} |-> 0]]
    BY <1>2, <2>1, <2>3, <2>5, <2>6, <2>9
  <2> DEFINE zero == [h \in {EmptyHash} |-> 0]
  <2>10. Default = [vocabulary |-> <<>>, bow |-> <<>>, hashes |-> <<EmptyHash>>, hash_map |-> zero]
    BY DEF Default, EmptyHash
  <2>11. Loaded(Default, lines) = [vocabulary |-> <<>>, bow |-> <<>>, hashes |-> hs, hash_map |-> zero]
    BY <2>7
  <2> HIDE DEF hs, zero
  <2>8. Loaded(Default, lines) = [Default EXCEPT !.hashes = hs]
    BY <2>10, <2>11
  <2> QED BY <2>2, <2>8 DEF Restored
<1> QED BY <1>4, <1>5

LEMMA LooksInside ==
  ASSUME NEW b \in Bags, NEW document \in Seq(Tokens)
  PROVE  /\ FoldLeft(LookedUp, b, document) \in Alike(b)
         /\ Overruns(LookedUp, b, document) => Extra(b) # {}
<1>1. \A u \in Alike(b), token \in Tokens : LookedUp(u, token) \in Alike(b)
  BY LookedUpStep DEF Alike
<1>2. b \in Alike(b)
  BY DEF Alike
<1>3. ASSUME NEW s \in Seq(Tokens) PROVE FoldLeft(LookedUp, b, s) \in Alike(b)
  <2> DEFINE D == Alike(b)
  <2> HIDE DEF D
  <2>1. Looks!Folded(b, s) \in D
    BY <1>1, <1>2, Looks!FoldKeeps DEF D
  <2> QED BY <2>1, LooksFold DEF D
<1>4. ASSUME Overruns(LookedUp, b, document) PROVE Extra(b) # {}
  <2>1. PICK i \in DOMAIN document :
          LET at == FoldLeft(LookedUp, b, SubSeq(document, 1, i - 1))
          IN /\ Hash[document[i]] \in DOMAIN at.hash_map
             /\ Rank(at.hash_map, Hash[document[i]]) >= Len(at.bow)
    BY <1>4 DEF Overruns
  <2>2. document[i] \in Tokens /\ SubSeq(document, 1, i - 1) \in Seq(Tokens)
    BY LenProperties, ElementOfSeq
  <2> DEFINE at == FoldLeft(LookedUp, b, SubSeq(document, 1, i - 1))
  <2>3. at \in Alike(b)
    BY <1>3, <2>2
  <2>4. /\ Hash[document[i]] \in DOMAIN at.hash_map
        /\ Rank(at.hash_map, Hash[document[i]]) >= Len(at.bow)
    BY <2>1
  <2> HIDE DEF at
  <2>5. at \in Bags /\ Extra(at) = Extra(b)
    BY <2>3 DEF Alike
  <2>6. Len(at.bow) \in Nat
    BY <2>5, BagIs
  <2>7. /\ Rank(at.hash_map, Hash[document[i]]) \in Nat
        /\ Extra(at) = {} => Rank(at.hash_map, Hash[document[i]]) < Len(at.bow)
    BY <2>4, <2>5, RankIs
  <2> QED BY <2>4, <2>5, <2>6, <2>7
<1> QED BY <1>3, <1>4

LEMMA FitsInside ==
  ASSUME NEW b \in Bags, NEW document \in Seq(Tokens)
  PROVE  /\ FoldLeft(Fitted, b, document) \in Alike(b)
         /\ Overruns(Fitted, b, document) => Extra(b) # {}
<1>1. \A u \in Alike(b), token \in Tokens : Fitted(u, token) \in Alike(b)
  BY FittedStep DEF Alike
<1>2. b \in Alike(b)
  BY DEF Alike
<1>3. ASSUME NEW s \in Seq(Tokens) PROVE FoldLeft(Fitted, b, s) \in Alike(b)
  <2> DEFINE D == Alike(b)
  <2> HIDE DEF D
  <2>1. Fits!Folded(b, s) \in D
    BY <1>1, <1>2, Fits!FoldKeeps DEF D
  <2> QED BY <2>1, FitsFold DEF D
<1>4. ASSUME Overruns(Fitted, b, document) PROVE Extra(b) # {}
  <2>1. PICK i \in DOMAIN document :
          LET at == FoldLeft(Fitted, b, SubSeq(document, 1, i - 1))
          IN /\ Hash[document[i]] \in DOMAIN at.hash_map
             /\ Rank(at.hash_map, Hash[document[i]]) >= Len(at.bow)
    BY <1>4 DEF Overruns
  <2>2. document[i] \in Tokens /\ SubSeq(document, 1, i - 1) \in Seq(Tokens)
    BY LenProperties, ElementOfSeq
  <2> DEFINE at == FoldLeft(Fitted, b, SubSeq(document, 1, i - 1))
  <2>3. at \in Alike(b)
    BY <1>3, <2>2
  <2>4. /\ Hash[document[i]] \in DOMAIN at.hash_map
        /\ Rank(at.hash_map, Hash[document[i]]) >= Len(at.bow)
    BY <2>1
  <2> HIDE DEF at
  <2>5. at \in Bags /\ Extra(at) = Extra(b)
    BY <2>3 DEF Alike
  <2>6. Len(at.bow) \in Nat
    BY <2>5, BagIs
  <2>7. /\ Rank(at.hash_map, Hash[document[i]]) \in Nat
        /\ Extra(at) = {} => Rank(at.hash_map, Hash[document[i]]) < Len(at.bow)
    BY <2>4, <2>5, RankIs
  <2> QED BY <2>4, <2>5, <2>6, <2>7
<1> QED BY <1>3, <1>4

\* The bags the program makes: those of the constructors, that of clear, that of load.
Zero == [h \in Hashes |-> 0]

LEMMA MadeBags ==
  /\ \A b \in {Default} \cup {Constructed(v) : v \in Vocabularies} : b \in Bags /\ Counted(b, Zero)
  /\ Empty \in Bags /\ Counted(Empty, Zero)
  /\ \A b \in Restored : b \in Bags /\ Counted(b, Zero)
<1>1. <<>> \in Seq(Words) /\ <<>> \in Seq(Nat) /\ Len(<<>>) = 0 /\ Known(<<>>) = {}
  BY DEF Known, Range
<1>2. ASSUME NEW hs \in Seq(Nat), NEW map \in UNION {[H -> Nat] : H \in SUBSET Nat}, NEW b,
             b = [vocabulary |-> <<>>, bow |-> <<>>, hashes |-> hs, hash_map |-> map],
             DOMAIN map \subseteq {EmptyHash}
      PROVE  b \in Bags /\ Counted(b, Zero)
  <2>1. b \in Bags
    <3>1. Extra(b) \subseteq {EmptyHash}
      BY <1>2 DEF Extra
    <3> QED BY <1>1, <1>2, <3>1 DEF Bags
  <2>2. Counted(b, Zero)
    BY <1>2 DEF Counted, Zero
  <2> QED BY <2>1, <2>2
<1>3. \A b \in Restored : b \in Bags /\ Counted(b, Zero)
  <2> SUFFICES ASSUME NEW hs \in Seq(Nat)
               PROVE  LET b == [Default EXCEPT !.hashes = hs] IN b \in Bags /\ Counted(b, Zero)
    BY DEF Restored
  <2> DEFINE zero == [h \in {EmptyHash} |-> 0]
  <2>1. Default = [vocabulary |-> <<>>, bow |-> <<>>, hashes |-> <<EmptyHash>>, hash_map |-> zero]
    BY DEF Default, EmptyHash
  <2>2. zero \in [{EmptyHash} -> Nat] /\ {EmptyHash} \in SUBSET Nat /\ DOMAIN zero = {EmptyHash}
    BY HashIs
  <2> HIDE DEF zero
  <2>3. zero \in UNION {[H -> Nat] : H \in SUBSET Nat}
    BY <2>2
  <2> DEFINE b == [Default EXCEPT !.hashes = hs]
  <2>4. b = [vocabulary |-> <<>>, bow |-> <<>>, hashes |-> hs, hash_map |-> zero]
    BY <2>1
  <2>5. DOMAIN zero \subseteq {EmptyHash}
    BY <2>2
  <2> HIDE DEF b
  <2> QED BY <1>2, <2>3, <2>4, <2>5 DEF b
<1>4. Default \in Bags /\ Counted(Default, Zero)
  <2>1. <<EmptyHash>> \in Seq(Nat)
    BY HashIs
  <2>2. Default = [Default EXCEPT !.hashes = <<EmptyHash>>]
    <3> DEFINE zero == [h \in {EmptyHash} |-> 0]
    <3>1. Default = [vocabulary |-> <<>>, bow |-> <<>>, hashes |-> <<EmptyHash>>, hash_map |-> zero]
      BY DEF Default, EmptyHash
    <3> HIDE DEF zero
    <3> QED BY <3>1
  <2>3. Default \in Restored
    BY <2>1, <2>2 DEF Restored
  <2> QED BY <1>3, <2>3
<1>5. Empty \in Bags /\ Counted(Empty, Zero)
  <2> DEFINE none == [h \in {} |-> 0]
  <2>1. Empty = [vocabulary |-> <<>>, bow |-> <<>>, hashes |-> <<>>, hash_map |-> none]
    BY DEF Empty
  <2>2. none \in [{} -> Nat] /\ {} \in SUBSET Nat /\ DOMAIN none = {}
    OBVIOUS
  <2> HIDE DEF none
  <2>3. none \in UNION {[H -> Nat] : H \in SUBSET Nat} /\ DOMAIN none \subseteq {EmptyHash}
    BY <2>2
  <2> QED BY <1>1, <1>2, <2>1, <2>3
<1>6. ASSUME NEW v \in Vocabularies PROVE Constructed(v) \in Bags /\ Counted(Constructed(v), Zero)
  <2> DEFINE n == Len(v)  c == Constructed(v)  zeros == [i \in DOMAIN v |-> 0]
             hashes == [i \in DOMAIN v |-> Hash[v[i]]]
             At(h) == {i \in DOMAIN v : Hash[v[i]] = h}
             map == [h \in Known(v) |-> Min(At(h)) - 1]
  <2>1. /\ v \in Seq(Words) /\ n \in Nat /\ DOMAIN v = 1 .. n
        /\ \A i \in 1 .. n : v[i] \in Words
    BY BagAssumption, LenProperties, ElementOfSeq
  <2>2. c = [vocabulary |-> v, bow |-> zeros, hashes |-> hashes, hash_map |-> map]
    BY DEF Constructed
  <2>3. zeros \in [1 .. n -> Nat] /\ hashes \in [1 .. n -> Nat]
    BY <2>1, HashIs
  <2>4. DOMAIN zeros = 1 .. n /\ \A i \in 1 .. n : zeros[i] = 0
    BY <2>1
  <2>5. DOMAIN map = Known(v) /\ Known(v) \in SUBSET Nat
    BY <2>1, HashIs DEF Known, Range
  <2>6. ASSUME NEW h \in Known(v) PROVE map[h] \in Nat
    <3>1. PICK i \in 1 .. n : Hash[v[i]] = h
      BY <2>1 DEF Known, Range
    <3>2. At(h) \in SUBSET Nat /\ At(h) \in SUBSET (1 .. n) /\ At(h) # {}
      BY <2>1, <3>1
    <3>3. map[h] = Min(At(h)) - 1
      BY <2>5
    <3> HIDE DEF At
    <3>4. PICK m \in At(h) : \A k \in At(h) : m <= k
      BY <3>2, Adds!Least
    <3>5. Min(At(h)) \in At(h)
      BY <3>4 DEF Min
    <3>6. Min(At(h)) \in 1 .. n
      BY <3>2, <3>5
    <3> HIDE DEF map
    <3> QED BY <2>1, <3>3, <3>6
  <2> HIDE DEF zeros, hashes, map, n
  <2>7. zeros \in Seq(Nat) /\ hashes \in Seq(Nat) /\ Len(zeros) = n
    BY <2>1, <2>3, Adds!FunctionLength
  <2>8. map \in UNION {[H -> Nat] : H \in SUBSET Nat}
    <3>1. map = [h \in Known(v) |-> map[h]]
      BY <2>5 DEF map
    <3>2. map \in [Known(v) -> Nat]
      BY <2>6, <3>1
    <3> QED BY <2>5, <3>2
  <2>9. c \in Bags
    <3>1. Known(v) \subseteq DOMAIN map /\ Extra(c) = {} /\ Len(v) <= Len(zeros)
      BY <2>1, <2>2, <2>5, <2>7 DEF n, Extra
    <3> QED BY <2>1, <2>2, <2>7, <2>8, <3>1 DEF Bags
  <2>10. Counted(c, Zero)
    <3>1. \A i \in 1 .. n : Hash[v[i]] \in Hashes
      BY <2>1, HashIs
    <3> QED BY <2>1, <2>2, <2>4, <2>7, <3>1 DEF Counted, Zero, n
  <2> QED BY <2>9, <2>10
<1> QED BY <1>3, <1>4, <1>5, <1>6

\* What every call keeps.
BagIInv ==
  /\ bag \in Bags
  /\ met \in [Hashes -> Nat] /\ Counted(bag, met)
  /\ Written(file)
  /\ OverrunOnlyWithEmptyWord

LEMMA BagInitiallyKept == BagInit => BagIInv
<1> SUFFICES ASSUME BagInit PROVE BagIInv
  OBVIOUS
<1>1. /\ bag \in {Default} \cup {Constructed(v) : v \in Vocabularies}
      /\ file = <<>> /\ beyond = FALSE /\ met = Zero
  BY DEF BagInit, Zero
<1>2. bag \in Bags /\ Counted(bag, Zero)
  BY <1>1, MadeBags
<1>3. Zero \in [Hashes -> Nat]
  BY DEF Zero
<1> QED BY <1>1, <1>2, <1>3 DEF BagIInv, Written, OverrunOnlyWithEmptyWord

LEMMA BagStepKeeps == BagIInv /\ [BagNext]_bagVars => BagIInv'
<1> SUFFICES ASSUME BagIInv, [BagNext]_bagVars PROVE BagIInv'
  OBVIOUS
<1>1. /\ bag \in Bags /\ met \in [Hashes -> Nat] /\ Counted(bag, met) /\ Written(file)
      /\ (beyond => Extra(bag) = {EmptyHash}) /\ Extra(bag) \subseteq {EmptyHash}
  BY DEF BagIInv, OverrunOnlyWithEmptyWord, EmptyHash, Bags
<1>2. SUFFICES /\ bag' \in Bags /\ met' \in [Hashes -> Nat] /\ Counted(bag', met') /\ Written(file')
               /\ beyond' => Extra(bag') = {EmptyHash}
  BY DEF BagIInv, OverrunOnlyWithEmptyWord, EmptyHash, Counted, InHashOrder, Extra, Written
<1>3. Zero \in [Hashes -> Nat]
  BY DEF Zero
<1>4. ASSUME NEW d \in Documents, add_document(d) PROVE <1>2!1
  <2>1. /\ bag' = FoldLeft(Added, bag, d) /\ file' = file /\ beyond' = beyond /\ ~ beyond
        /\ met' = [h \in Hashes |-> met[h] + Occurrences([i \in DOMAIN d |-> Reduced[d[i]]], h)]
    BY <1>4 DEF add_document, Call
  <2>2. d \in Seq(Tokens)
    BY BagAssumption
  <2> DEFINE c == FoldLeft(Added, bag, d)
             m == [h \in Hashes |-> met[h] + Occurrences([i \in DOMAIN d |-> Reduced[d[i]]], h)]
  <2>3. c \in Bags /\ Counted(c, m) /\ m \in [Hashes -> Nat]
    BY <1>1, <2>2, AddedDocument DEF Alike
  <2>4. bag' = c /\ met' = m
    BY <2>1
  <2> HIDE DEF c, m
  <2> QED BY <1>1, <2>1, <2>3, <2>4
<1>5. ASSUME NEW d \in Documents, transform(d) PROVE <1>2!1
  <2>1. /\ bag' = FoldLeft(LookedUp, bag, d) /\ file' = file
        /\ beyond' = Overruns(LookedUp, bag, d)
        /\ met' = [h \in Hashes |-> IF h \in DOMAIN bag'.hash_map \ DOMAIN bag.hash_map
                                     THEN 1 ELSE met[h]]
    BY <1>5 DEF transform
  <2>2. d \in Seq(Tokens)
    BY BagAssumption
  <2> DEFINE c == FoldLeft(LookedUp, bag, d)
             m == [h \in Hashes |->
                     IF h \in DOMAIN c.hash_map \ DOMAIN bag.hash_map THEN 1 ELSE met[h]]
  <2>3. c \in Bags /\ Counted(c, m) /\ m \in [Hashes -> Nat]
    BY <1>1, <2>2, LookedUpDocument
  <2>4. bag' = c /\ met' = m
    BY <2>1
  <2>5. c \in Alike(bag) /\ (Overruns(LookedUp, bag, d) => Extra(bag) # {})
    BY <1>1, <2>2, LooksInside
  <2> HIDE DEF c, m
  <2> QED BY <1>1, <2>1, <2>3, <2>4, <2>5 DEF Alike
<1>6. ASSUME NEW documents \in Corpora, fit(documents) PROVE <1>2!1
  <2>1. /\ bag' = FoldLeft(Fitted, bag, documents[1]) /\ file' = file
        /\ beyond' = Overruns(Fitted, bag, documents[1])
        /\ met' = [h \in Hashes |-> met[h] + Occurrences(documents[1], h)]
    BY <1>6 DEF fit
  <2> DEFINE d == documents[1]
  <2>2. d \in Seq(Tokens)
    <3>1. documents \in Seq(Documents) /\ documents # <<>>
      BY <1>6, BagAssumption DEF fit
    <3>2. Len(documents) \in Nat /\ Len(documents) # 0
      BY <3>1, LenProperties, EmptySeq
    <3>3. 1 \in 1 .. Len(documents)
      BY <3>2
    <3>4. d \in Documents
      BY <3>1, <3>3, ElementOfSeq
    <3> QED BY <3>4, BagAssumption
  <2> HIDE DEF d
  <2> DEFINE c == FoldLeft(Fitted, bag, d)
             m == [h \in Hashes |-> met[h] + Occurrences(d, h)]
  <2>3. c \in Bags /\ Counted(c, m) /\ m \in [Hashes -> Nat]
    BY <1>1, <2>2, FittedDocument DEF Alike
  <2>4. bag' = c /\ met' = m
    BY <2>1 DEF d
  <2>5. c \in Alike(bag) /\ (Overruns(Fitted, bag, d) => Extra(bag) # {})
    BY <1>1, <2>2, FitsInside
  <2> HIDE DEF c, m
  <2> QED BY <1>1, <2>1, <2>3, <2>4, <2>5 DEF Alike, d
<1>7. CASE clear
  <2>1. bag' = Empty /\ met' = Zero /\ file' = file /\ beyond' = beyond /\ ~ beyond
    BY <1>7 DEF clear, Call, Zero
  <2> QED BY <1>1, <1>3, <2>1, MadeBags
<1>8. CASE save
  <2>1. file' = Saved(bag) /\ bag' = bag /\ beyond' = beyond /\ met' = met
    BY <1>8 DEF save
  <2> QED BY <1>1, <2>1, SavedIsWritten
<1>9. ASSUME NEW ate \in BOOLEAN, load(ate) PROVE <1>2!1
  <2> DEFINE lines == IF ate THEN <<>> ELSE file
  <2>1. /\ bag' = Loaded(Default, lines) /\ met' = Zero /\ file' = file
        /\ beyond' = beyond /\ ~ beyond
        /\ \A i \in 1 .. Len(file) - 1 : file[i].kind # "blank"
    BY <1>9 DEF load, Call, Zero
  <2>2. Readable(lines)
    BY <1>1, <2>1, WrittenIsReadable
  <2> HIDE DEF lines
  <2>3. bag' \in Restored
    BY <2>1, <2>2, LoadedIs
  <2> QED BY <1>1, <1>3, <2>1, <2>3, MadeBags
<1>10. CASE UNCHANGED bagVars
  BY <1>1, <1>10 DEF bagVars
<1> QED BY <1>4, <1>5, <1>6, <1>7, <1>8, <1>9, <1>10 DEF BagNext

LEMMA BagKept == BagSpec => []BagIInv
  BY BagInitiallyKept, BagStepKeeps, PTL DEF BagSpec

\* For any words and documents and any hash, of which words may share values: where the
\* words entered in the order of their hashes and none had that of the extra entry, each
\* count is that of the words of a hash, whatever was called.
THEOREM CountsAreOfWords == BagSpec => []CountsOfWords
<1>1. BagIInv => CountsOfWords
  BY DEF BagIInv, Counted, CountsOfWords
<1> QED BY <1>1, BagKept, PTL

\* For any words, hashes and documents: only a bag with the entry of the default
\* constructor makes transform and fit read behind the end of the counts.
THEOREM OverrunsNeedEmptyWord == BagSpec => []OverrunOnlyWithEmptyWord
<1>1. BagIInv => OverrunOnlyWithEmptyWord
  BY DEF BagIInv
<1> QED BY <1>1, BagKept, PTL

\* For any words, hashes and documents: load brings back no word, no count and no entry
\* of the map, whatever was saved.
THEOREM LoadRestoresNothing == BagSpec => NothingRestored
<1>1. BagIInv /\ [BagNext]_bagVars =>
        [\A ate \in BOOLEAN : load(ate) =>
           [bag' EXCEPT !.hashes = <<>>] = [Default EXCEPT !.hashes = <<>>]]_bagVars
  <2> SUFFICES ASSUME BagIInv, NEW ate \in BOOLEAN, load(ate)
               PROVE  [bag' EXCEPT !.hashes = <<>>] = [Default EXCEPT !.hashes = <<>>]
    OBVIOUS
  <2> DEFINE lines == IF ate THEN <<>> ELSE file
  <2>1. bag' = Loaded(Default, lines)
    BY DEF load
  <2>2. Readable(lines)
    BY WrittenIsReadable DEF BagIInv, load
  <2> HIDE DEF lines
  <2>3. PICK hs \in Seq(Nat) : bag' = [Default EXCEPT !.hashes = hs]
    BY <2>1, <2>2, LoadedIs DEF Restored
  <2> DEFINE zero == [h \in {EmptyHash} |-> 0]
  <2>4. Default = [vocabulary |-> <<>>, bow |-> <<>>, hashes |-> <<EmptyHash>>, hash_map |-> zero]
    BY DEF Default, EmptyHash
  <2> HIDE DEF zero
  <2> QED BY <2>3, <2>4
<1> QED BY <1>1, BagKept, PTL DEF BagSpec, NothingRestored

----------------------------------------------------------------------------
(* Tfidf *)

Learns == INSTANCE SeqFolds WITH Op <- Learned
Extends == INSTANCE SeqFolds WITH Op <- Extended

LEMMA LearnsFold == \A words, text : Extended(words, text) = Learns!Folded(words, text)
  BY DEF Extended, FoldLeft, MapThenFoldSet, Max, Learns!Folded
LEMMA ExtendsFold == \A words, corpus : ExtendedBy(words, corpus) = Extends!Folded(words, corpus)
  BY DEF ExtendedBy, FoldLeft, MapThenFoldSet, Max, Extends!Folded

\* The vocabularies that begin with the given words.
Extensions(words) ==
  {longer \in Seq(Terms) : /\ Len(words) <= Len(longer)
                           /\ \A i \in 1 .. Len(words) : longer[i] = words[i]}

LEMMA FitsExtend ==
  ASSUME NEW words \in Seq(Terms), NEW corpus \in TextCorpora
  PROVE  ExtendedBy(words, corpus) \in Extensions(words)
<1> DEFINE D == Extensions(words)
<1>1. ASSUME NEW u \in D, NEW w \in Terms PROVE Learned(u, w) \in D
  <2>1. /\ u \in Seq(Terms) /\ Len(u) \in Nat /\ Len(words) \in Nat /\ Len(words) <= Len(u)
        /\ \A i \in 1 .. Len(words) : u[i] = words[i]
    BY LenProperties DEF Extensions
  <2>2. /\ Append(u, w) \in Seq(Terms) /\ Len(Append(u, w)) = Len(u) + 1
        /\ \A i \in 1 .. Len(u) : Append(u, w)[i] = u[i]
    BY <2>1, AppendProperties
  <2>3. \A i \in 1 .. Len(words) : i \in 1 .. Len(u)
    BY <2>1
  <2>4. Append(u, w) \in D
    <3> DEFINE longer == Append(u, w)
    <3>1. longer \in Seq(Terms) /\ Len(words) <= Len(longer)
      BY <2>1, <2>2
    <3>2. \A i \in 1 .. Len(words) : longer[i] = words[i]
      BY <2>1, <2>2, <2>3
    <3> HIDE DEF longer
    <3>3. longer \in D
      BY <3>1, <3>2 DEF Extensions
    <3> QED BY <3>3 DEF longer
  <2> HIDE DEF D
  <2> QED BY <2>4 DEF Learned
<1>2. words \in D
  BY LenProperties DEF Extensions
<1> HIDE DEF D
<1>3. ASSUME NEW u \in D, NEW text \in Texts PROVE Extended(u, text) \in D
  <2>1. text \in Seq(Terms)
    BY TfidfAssumption
  <2>2. Learns!Folded(u, text) \in D
    BY <1>1, <2>1, Learns!FoldKeeps
  <2> QED BY <2>2, LearnsFold
<1>4. corpus \in Seq(Texts)
  BY TfidfAssumption
<1>5. Extends!Folded(words, corpus) \in D
  BY <1>2, <1>3, <1>4, Extends!FoldKeeps
<1> QED BY <1>5, ExtendsFold DEF D

\* No term frequency moves up if every word occurs.
LEMMA AllOccurring ==
  ASSUME NEW words \in Seq(Terms), NEW corpus, \A w \in Range(words) : Occurs(w, corpus)
  PROVE  Occurring(words, corpus) = words
<1> DEFINE n == Len(words)  at == {i \in DOMAIN words : Occurs(words[i], corpus)}
<1>1. n \in Nat /\ DOMAIN words = 1 .. n /\ words = [k \in 1 .. n |-> words[k]]
  BY LenProperties
<1>2. at = 1 .. n
  BY <1>1 DEF Range
<1>3. Occurring(words, corpus) =
        [k \in 1 .. Cardinality(at) |-> words[CHOOSE i \in at : Cardinality({j \in at : j <= i}) = k]]
  BY DEF Occurring
<1> HIDE DEF n, at
<1>4. ASSUME NEW i \in Nat PROVE Cardinality(1 .. i) = i
  <2>1. i \in Int /\ 1 \in Int
    OBVIOUS
  <2>2. Cardinality(1 .. i) = (IF 1 > i THEN 0 ELSE i - 1 + 1)
    BY <2>1, FS_Interval
  <2> QED BY <2>2
<1>5. ASSUME NEW i \in at PROVE Cardinality({j \in at : j <= i}) = i
  <2>1. i \in Nat /\ {j \in at : j <= i} = 1 .. i
    BY <1>1, <1>2
  <2> QED BY <1>4, <2>1
<1>6. ASSUME NEW k \in at PROVE (CHOOSE i \in at : Cardinality({j \in at : j <= i}) = k) = k
  <2>1. \A i \in at : Cardinality({j \in at : j <= i}) = k <=> i = k
    BY <1>5
  <2> QED BY <2>1
<1>7. Cardinality(at) = n
  BY <1>1, <1>2, <1>4
<1> DEFINE Place(k) == CHOOSE i \in at : Cardinality({j \in at : j <= i}) = k
<1>8. \A k \in 1 .. n : Place(k) = k
  BY <1>2, <1>6
<1>9. Occurring(words, corpus) = [k \in 1 .. n |-> words[Place(k)]]
  BY <1>3, <1>7
<1> HIDE DEF Place
<1> QED BY <1>1, <1>8, <1>9

\* Before the first fit there are no weights.  Behind it, if it lacked no word, there is
\* a row of the word itself for each of the words that were there.
TfidfIInv ==
  /\ terms \in Seq(Terms) /\ fits \in Nat
  /\ fits = 0 => tf = <<>> /\ idf = <<>> /\ rows = <<>> /\ ~outside
  /\ fits = 1 /\ ~lacking =>
       /\ ~outside
       /\ \A i \in DOMAIN rows : i \in 1 .. Len(terms) /\ rows[i] = <<<<terms[i], terms[i]>>>>

LEMMA TfidfInitiallyKept == TfidfInit => TfidfIInv
  BY DEF TfidfInit, TfidfIInv

LEMMA TfidfStepKeeps == TfidfIInv /\ [TfidfNext]_tfidfVars => TfidfIInv'
<1> SUFFICES ASSUME TfidfIInv, [TfidfNext]_tfidfVars PROVE TfidfIInv'
  OBVIOUS
<1>1. /\ terms \in Seq(Terms) /\ fits \in Nat /\ Len(terms) \in Nat
      /\ fits = 0 => tf = <<>> /\ idf = <<>> /\ rows = <<>> /\ ~outside
      /\ fits = 1 /\ ~lacking =>
           /\ ~outside
           /\ \A i \in DOMAIN rows : i \in 1 .. Len(terms) /\ rows[i] = <<<<terms[i], terms[i]>>>>
  BY LenProperties DEF TfidfIInv
<1>2. ASSUME NEW corpus \in TextCorpora, FitDocuments(corpus) PROVE TfidfIInv'
  <2> DEFINE n == Len(terms')
             both == Min({Len(tf'), Len(idf')})
             resized == Resized(rows, Len(terms'))
  <2>1. /\ terms' = ExtendedBy(terms, corpus) /\ fits' = fits + 1
        /\ tf' = tf \o Occurring(terms', corpus) /\ idf' = idf \o terms'
        /\ lacking' = (lacking \/ \E w \in Range(terms') : ~ Occurs(w, corpus))
        /\ rows' = [i \in DOMAIN resized |->
                      IF i <= both THEN Append(resized[i], <<tf'[i], idf'[i]>>) ELSE resized[i]]
        /\ outside' = (both > Len(terms'))
    BY <1>2 DEF FitDocuments
  <2>2. terms' \in Seq(Terms) /\ n \in Nat
    BY <1>1, <2>1, FitsExtend, LenProperties DEF Extensions
  <2>3. fits' \in Nat /\ fits' # 0 /\ (fits' = 1 => fits = 0)
    BY <1>1, <2>1
  <2>4. ASSUME fits' = 1, ~ lacking'
        PROVE  /\ ~ outside'
               /\ \A i \in DOMAIN rows' : i \in 1 .. n /\ rows'[i] = <<<<terms'[i], terms'[i]>>>>
    <3>1. tf = <<>> /\ idf = <<>> /\ rows = <<>>
      BY <1>1, <2>3, <2>4
    <3>2. Occurring(terms', corpus) = terms'
      BY <2>1, <2>2, <2>4, AllOccurring
    <3>3. tf' = terms' /\ idf' = terms'
      BY <2>1, <2>2, <3>1, <3>2, ConcatEmptySeq
    <3>4. both = n
      BY <2>2, <3>3 DEF Min
    <3>5. resized = [i \in 1 .. n |-> <<>>]
      BY <3>1 DEF Resized
    <3> HIDE DEF both, resized
    <3>6. ASSUME NEW i \in 1 .. n PROVE rows'[i] = <<<<terms'[i], terms'[i]>>>>
      <4>1. i <= both /\ resized[i] = <<>> /\ i \in DOMAIN resized
        BY <2>2, <3>4, <3>5
      <4>2. rows'[i] = Append(<<>>, <<tf'[i], idf'[i]>>)
        BY <2>1, <4>1
      <4>3. \A x : Append(<<>>, x) = <<x>>
        OBVIOUS
      <4> QED BY <3>3, <4>2, <4>3
    <3>7. DOMAIN rows' = 1 .. n
      BY <2>1, <3>5
    <3>8. ~ outside'
      <4>1. outside' = (both > n)
        BY <2>1
      <4> HIDE DEF n
      <4>2. ~ (both > n)
        BY <2>2, <3>4
      <4> QED BY <4>1, <4>2
    <3> HIDE DEF n
    <3> QED BY <3>6, <3>7, <3>8
  <2> QED BY <2>2, <2>3, <2>4 DEF TfidfIInv
<1>3. ASSUME NEW corpus \in TextCorpora, FitStrings(corpus) PROVE TfidfIInv'
  <2>1. /\ terms' = ExtendedBy(terms, corpus)
        /\ UNCHANGED <<tf, idf, rows, outside, fits, lacking>>
    BY <1>3 DEF FitStrings
  <2>2. /\ terms' \in Seq(Terms) /\ Len(terms') \in Nat /\ Len(terms) <= Len(terms')
        /\ \A i \in 1 .. Len(terms) : terms'[i] = terms[i]
    BY <1>1, <2>1, FitsExtend, LenProperties DEF Extensions
  <2>3. \A i \in 1 .. Len(terms) : i \in 1 .. Len(terms')
    BY <1>1, <2>2
  <2> QED BY <1>1, <2>1, <2>2, <2>3 DEF TfidfIInv
<1>4. ASSUME NEW text \in Texts, TransformText(text) PROVE TfidfIInv'
  <2>1. /\ outside' = \E i \in DOMAIN terms \cap DOMAIN rows : terms[i] \in Range(text) /\ rows[i] = <<>>
        /\ UNCHANGED <<terms, tf, idf, rows, fits, lacking>>
    BY <1>4 DEF TransformText
  <2>2. fits = 0 => ~ outside'
    BY <1>1, <2>1
  <2>3. fits = 1 /\ ~ lacking => ~ outside'
    <3>1. \A x : <<x>> # <<>>
      OBVIOUS
    <3> QED BY <1>1, <2>1, <3>1
  <2> QED BY <1>1, <2>1, <2>2, <2>3 DEF TfidfIInv
<1>5. CASE CopyTfidf
  BY <1>1, <1>5 DEF CopyTfidf, TfidfIInv
<1>6. CASE ClearTfidf
  <2>1. ~ outside /\ outside' = outside /\ terms' = <<>> /\ tf' = <<>> /\ idf' = <<>>
        /\ rows' = <<>> /\ fits' = 0
    BY <1>6 DEF ClearTfidf, Request
  <2> QED BY <2>1 DEF TfidfIInv
<1>7. CASE UNCHANGED tfidfVars
  BY <1>1, <1>7 DEF tfidfVars, TfidfIInv
<1> QED BY <1>2, <1>3, <1>4, <1>5, <1>6, <1>7 DEF TfidfNext

\* For any documents: the first fit, if it lacks no word of the vocabulary, gives each
\* word the weight computed for it and leaves no vector, whatever is called around it.
THEOREM WeightsAreOfTerms == TfidfSpec => []WeightsOfTerms
<1>1. TfidfIInv => WeightsOfTerms
  <2> SUFFICES ASSUME TfidfIInv, fits <= 1, ~ lacking
               PROVE  ~ outside /\ \A i \in DOMAIN rows : rows[i] = <<<<terms[i], terms[i]>>>>
    BY DEF WeightsOfTerms
  <2>1. fits = 0 \/ fits = 1
    BY DEF TfidfIInv
  <2>2. fits = 0 => rows = <<>> /\ ~ outside
    BY DEF TfidfIInv
  <2>3. DOMAIN <<>> = {}
    OBVIOUS
  <2> QED BY <2>1, <2>2, <2>3 DEF TfidfIInv
<1> QED BY <1>1, TfidfInitiallyKept, TfidfStepKeeps, PTL DEF TfidfSpec

----------------------------------------------------------------------------
(* Pipeline *)

Objects == Roots \cup 1 .. made
Children(o) == IF o \in DOMAIN stages THEN Range(stages[o]) ELSE {}

\* Every stage is in one list at most, once, and younger than what it is in.
Family ==
  /\ made \in Nat /\ Roots \subseteq DOMAIN stages
  /\ DOMAIN stages \subseteq Objects /\ alive \subseteq Objects
  /\ \A q \in DOMAIN stages : stages[q] \in Seq(1 .. made)
  /\ \A q \in DOMAIN stages : q \in Nat => \A s \in Range(stages[q]) : s > q
  /\ \A q, r \in DOMAIN stages : \A i \in 1 .. Len(stages[q]) : \A j \in 1 .. Len(stages[r]) :
       stages[q][i] = stages[r][j] => q = r /\ i = j

\* What Below computes by recursion is the least set that contains the object and, with
\* every object, its stages.
Closed(C) == \A q \in C : Children(q) \subseteq C
Reached(o) ==
  {y \in Objects : \A C \in SUBSET Objects : o \in C /\ Closed(C) => y \in C}

LEMMA FamilyIs ==
  ASSUME Family
  PROVE  /\ made \in Nat /\ 1 .. made \subseteq Objects
         /\ \A r \in Roots : r \in Objects /\ r \notin Nat
         /\ \A q \in Objects : q \in Nat => q \in 1 .. made
         /\ \A q : Children(q) \subseteq 1 .. made
         /\ \A q \in Nat : \A s \in Children(q) : s > q
         /\ \A q, r, y : y \in Children(q) /\ y \in Children(r) => q = r
<1>1. made \in Nat /\ 1 .. made \subseteq Objects
  BY DEF Family, Objects
<1>2. \A r \in Roots : r \in Objects /\ r \notin Nat
  BY PipelineAssumption DEF Objects
<1>3. \A q \in Objects : q \in Nat => q \in 1 .. made
  BY PipelineAssumption DEF Objects
<1>4. ASSUME NEW q, NEW y \in Children(q)
      PROVE  q \in DOMAIN stages /\ y \in 1 .. made
             /\ \E i \in 1 .. Len(stages[q]) : y = stages[q][i]
  <2>1. q \in DOMAIN stages /\ y \in Range(stages[q])
    BY DEF Children
  <2>2. stages[q] \in Seq(1 .. made)
    BY <2>1 DEF Family
  <2>3. DOMAIN stages[q] = 1 .. Len(stages[q]) /\ \A i \in 1 .. Len(stages[q]) : stages[q][i] \in 1 .. made
    BY <2>2, LenProperties, ElementOfSeq
  <2> QED BY <2>1, <2>3 DEF Range
<1>5. \A q \in Nat : \A s \in Children(q) : s > q
  BY DEF Children, Family
<1>6. ASSUME NEW q, NEW r, NEW y, y \in Children(q), y \in Children(r) PROVE q = r
  BY <1>4, <1>6 DEF Family
<1> QED BY <1>1, <1>2, <1>3, <1>4, <1>5, <1>6

LEMMA ReachedIs ==
  ASSUME Family, NEW x \in Objects
  PROVE  /\ x \in Reached(x) /\ Closed(Reached(x)) /\ Reached(x) \subseteq Objects
         /\ \A y \in Reached(x) : y = x \/ \E q \in Reached(x) : y \in Children(q)
         /\ x \in Nat => \A y \in Reached(x) : y \in Nat /\ y >= x
         /\ Reached(x) = {x} \cup UNION {Reached(s) : s \in Children(x)}
<1>1. x \in Reached(x) /\ Reached(x) \subseteq Objects
  BY DEF Reached
<1>2. \A o \in Objects : Closed(Reached(o))
  <2> SUFFICES ASSUME NEW o \in Objects, NEW q \in Reached(o), NEW y \in Children(q)
               PROVE  y \in Reached(o)
    BY DEF Closed
  <2>1. y \in Objects
    BY FamilyIs
  <2>2. ASSUME NEW C \in SUBSET Objects, o \in C, Closed(C) PROVE y \in C
    <3>1. q \in C
      BY <2>2 DEF Reached
    <3> QED BY <2>2, <3>1 DEF Closed
  <2> QED BY <2>1, <2>2 DEF Reached
<1>3. ASSUME NEW C \in SUBSET Objects, x \in C, Closed(C) PROVE Reached(x) \subseteq C
  BY <1>3 DEF Reached
<1>4. \A y \in Reached(x) : y = x \/ \E q \in Reached(x) : y \in Children(q)
  <2> DEFINE C == {y \in Reached(x) : y = x \/ \E q \in Reached(x) : y \in Children(q)}
  <2>1. C \in SUBSET Objects /\ x \in C
    BY <1>1
  <2>2. Closed(C)
    BY <1>2 DEF Closed
  <2> HIDE DEF C
  <2>3. Reached(x) \subseteq C
    BY <1>3, <2>1, <2>2
  <2> QED BY <2>3 DEF C
<1>5. ASSUME x \in Nat PROVE \A y \in Reached(x) : y \in Nat /\ y >= x
  <2> DEFINE C == {y \in Reached(x) : y \in Nat /\ y >= x}
  <2>1. C \in SUBSET Objects /\ x \in C
    BY <1>1, <1>5
  <2>2. Closed(C)
    <3> SUFFICES ASSUME NEW q \in C, NEW y \in Children(q) PROVE y \in C
      BY DEF Closed
    <3>1. q \in Nat /\ q >= x /\ y \in Reached(x)
      BY <1>2 DEF Closed
    <3>2. y > q /\ y \in 1 .. made /\ made \in Nat
      BY <3>1, FamilyIs
    <3> QED BY <1>5, <3>1, <3>2
  <2> HIDE DEF C
  <2>3. Reached(x) \subseteq C
    BY <1>3, <2>1, <2>2
  <2> QED BY <2>3 DEF C
<1>6. Reached(x) = {x} \cup UNION {Reached(s) : s \in Children(x)}
  <2> DEFINE C == {x} \cup UNION {Reached(s) : s \in Children(x)}
  <2>1. \A s \in Children(x) : s \in Objects /\ s \in Reached(s) /\ Reached(s) \subseteq Objects
    BY FamilyIs DEF Reached
  <2>2. C \in SUBSET Objects /\ x \in C
    BY <2>1
  <2>3. Closed(C)
    <3> SUFFICES ASSUME NEW q \in C, NEW y \in Children(q) PROVE y \in C
      BY DEF Closed
    <3>1. CASE q = x
      BY <2>1, <3>1
    <3>2. CASE q # x
      <4>1. PICK s \in Children(x) : q \in Reached(s)
        BY <3>2
      <4>2. y \in Reached(s)
        BY <1>2, <2>1, <4>1 DEF Closed
      <4> QED BY <4>2
    <3> QED BY <3>1, <3>2
  <2>4. C \subseteq Reached(x)
    <3>1. ASSUME NEW s \in Children(x), NEW y \in Reached(s) PROVE y \in Reached(x)
      <4>1. s \in Reached(x) /\ Reached(x) \in SUBSET Objects
        BY <1>1, <1>2 DEF Closed
      <4>2. Closed(Reached(x))
        BY <1>2
      <4> QED BY <3>1, <4>1, <4>2 DEF Reached
    <3> QED BY <1>1, <3>1
  <2> HIDE DEF C
  <2>5. Reached(x) \subseteq C
    BY <1>3, <2>2, <2>3
  <2>6. Reached(x) = C
    BY <2>4, <2>5
  <2> QED BY <2>6 DEF C
<1> QED BY <1>1, <1>2, <1>4, <1>5, <1>6

\* The stages are younger than what they are in, so that the recursion has one solution.
Solves(f) ==
  f = [o \in Objects |->
         {o} \cup IF o \in DOMAIN stages THEN UNION {f[s] : s \in Range(stages[o])} ELSE {}]

LEMMA BelowIs == ASSUME Family, NEW x \in Objects PROVE Below(x) = Reached(x)
<1> DEFINE g == [o \in Objects |-> Reached(o)]
<1>1. \A f : Solves(f) => \A o \in Objects : f[o] = {o} \cup UNION {f[s] : s \in Children(o)}
  <2> SUFFICES ASSUME NEW f, Solves(f), NEW o \in Objects
               PROVE  f[o] = {o} \cup UNION {f[s] : s \in Children(o)}
    OBVIOUS
  <2>1. f[o] = {o} \cup IF o \in DOMAIN stages THEN UNION {f[s] : s \in Range(stages[o])} ELSE {}
    BY DEF Solves
  <2>2. CASE o \in DOMAIN stages
    BY <2>1, <2>2 DEF Children
  <2>3. CASE o \notin DOMAIN stages
    BY <2>1, <2>3 DEF Children
  <2> QED BY <2>2, <2>3
<1>2. Solves(g)
  <2>1. ASSUME NEW o \in Objects
        PROVE  g[o] = {o} \cup IF o \in DOMAIN stages THEN UNION {g[s] : s \in Range(stages[o])} ELSE {}
    <3>1. \A s \in Children(o) : s \in Objects
      BY FamilyIs
    <3>2. Reached(o) = {o} \cup UNION {Reached(s) : s \in Children(o)}
      BY ReachedIs
    <3>3. {g[s] : s \in Children(o)} = {Reached(s) : s \in Children(o)}
      BY <3>1
    <3>4. g[o] = {o} \cup UNION {g[s] : s \in Children(o)}
      BY <3>2, <3>3
    <3>5. CASE o \in DOMAIN stages
      BY <3>4, <3>5 DEF Children
    <3>6. CASE o \notin DOMAIN stages
      BY <3>4, <3>6 DEF Children
    <3> QED BY <3>5, <3>6
  <2>2. g = [o \in Objects |-> g[o]]
    OBVIOUS
  <2> HIDE DEF g
  <2> QED BY <2>1, <2>2 DEF Solves
<1>3. ASSUME NEW f, Solves(f) PROVE \A o \in Objects : f[o] = g[o]
  <2> HIDE DEF g
  <2>1. ASSUME NEW o \in Objects, \A s \in Children(o) : f[s] = g[s] PROVE f[o] = g[o]
    <3>1. {f[s] : s \in Children(o)} = {g[s] : s \in Children(o)}
      BY <2>1
    <3> QED BY <1>1, <1>2, <1>3, <3>1
  <2>2. \A o \in 1 .. made : f[o] = g[o]
    <3> DEFINE T == {n \in Nat : n <= made /\ made - n \in 1 .. made /\ f[made - n] # g[made - n]}
    <3>1. T = {}
      <4> SUFFICES ASSUME T # {} PROVE FALSE
        OBVIOUS
      <4>1. PICK n \in T : \A k \in T : n <= k
        BY Adds!Least
      <4> DEFINE o == made - n
      <4>2. o \in 1 .. made /\ o \in Objects /\ o \in Nat /\ made \in Nat /\ n \in Nat /\ f[o] # g[o]
        BY <4>1, FamilyIs
      <4>3. ASSUME NEW s \in Children(o) PROVE f[s] = g[s]
        <5>1. s > o /\ s \in 1 .. made
          BY <4>2, FamilyIs
        <5>2. made - s \in Nat /\ made - (made - s) = s /\ ~ (n <= made - s) /\ made - s <= made
          BY <4>2, <5>1
        <5>3. made - s \notin T
          BY <4>1, <5>2
        <5> QED BY <5>1, <5>2, <5>3
      <4> HIDE DEF o
      <4> QED BY <2>1, <4>2, <4>3
    <3>2. ASSUME NEW o \in 1 .. made PROVE f[o] = g[o]
      <4>1. made - o \in Nat /\ made - o <= made /\ made - (made - o) = o
        BY FamilyIs
      <4> QED BY <3>1, <4>1
    <3> QED BY <3>2
  <2> QED BY <2>1, <2>2, FamilyIs
<1> DEFINE chosen == CHOOSE f : Solves(f)
<1>4. Solves(chosen)
  BY <1>2
<1>5. Below(x) = chosen[x]
  BY DEF Below, Solves, Objects
<1> HIDE DEF chosen
<1>6. chosen[x] = g[x]
  BY <1>3, <1>4
<1> QED BY <1>5, <1>6

LEMMA HeldIs == \A y : y \in Held <=> \E q \in alive : y \in Children(q)
  BY DEF Held, Pipelines, Children

\* A stage that is added to a living pipeline is held by it, and nothing else changes.
NewChildren(o) == IF o \in DOMAIN stages' THEN Range(stages'[o]) ELSE {}

LEMMA NewHeldIs == \A y : y \in Held' <=> \E q \in alive' : y \in NewChildren(q)
  BY DEF Held, Pipelines, NewChildren

LEMMA LongerRange == \A S, T : S \subseteq T => \A s \in Seq(S) : s \in Seq(T)
  OBVIOUS

LEMMA Grown ==
  ASSUME Family, NEW p \in Pipelines, made' = made + 1, alive' = alive \cup {made + 1},
         NEW D \in SUBSET {made + 1},
         stages' = [q \in DOMAIN stages \cup D |->
                      IF q = made + 1 THEN <<>>
                      ELSE IF q = p THEN Append(stages[q], made + 1) ELSE stages[q]]
  PROVE  Family' /\ Leaked' = Leaked /\ Dangling' = Dangling
<1> DEFINE m == made + 1  s == stages[p]  longer == Append(s, m)
<1>1. /\ made \in Nat /\ m \in Nat /\ 1 .. m = 1 .. made \cup {m} /\ m \notin 1 .. made
      /\ m \notin Objects /\ p \in DOMAIN stages /\ p \in alive /\ p # m /\ m \notin DOMAIN stages
  <2>1. made \in Nat /\ m \in Nat /\ 1 .. m = 1 .. made \cup {m} /\ m \notin 1 .. made
    BY FamilyIs
  <2>2. m \notin Objects
    BY <2>1, FamilyIs
  <2>3. p \in DOMAIN stages /\ p \in alive /\ p # m /\ m \notin DOMAIN stages
    BY <2>2 DEF Pipelines, Family
  <2> QED BY <2>1, <2>2, <2>3
<1> HIDE DEF m
<1>2. /\ made' = m /\ alive' = alive \cup {m} /\ DOMAIN stages' = DOMAIN stages \cup D
      /\ D \subseteq {m}
      /\ \A q \in DOMAIN stages : stages'[q] = IF q = p THEN longer ELSE stages[q]
      /\ \A q \in D : stages'[q] = <<>>
  BY <1>1 DEF m
<1>3. \A q \in DOMAIN stages : /\ stages[q] \in Seq(1 .. made) /\ Len(stages[q]) \in Nat
                               /\ DOMAIN stages[q] = 1 .. Len(stages[q])
                               /\ \A i \in 1 .. Len(stages[q]) : stages[q][i] \in 1 .. made
  <2> SUFFICES ASSUME NEW q \in DOMAIN stages
               PROVE  /\ stages[q] \in Seq(1 .. made) /\ Len(stages[q]) \in Nat
                      /\ DOMAIN stages[q] = 1 .. Len(stages[q])
                      /\ \A i \in 1 .. Len(stages[q]) : stages[q][i] \in 1 .. made
    OBVIOUS
  <2>1. stages[q] \in Seq(1 .. made)
    BY DEF Family
  <2> QED BY <2>1, LenProperties, ElementOfSeq
<1>4. /\ longer \in Seq(1 .. m) /\ Len(longer) = Len(s) + 1 /\ longer[Len(s) + 1] = m
      /\ DOMAIN longer = 1 .. Len(s) + 1 /\ \A i \in 1 .. Len(s) : longer[i] = s[i]
  <2>1. s \in Seq(1 .. m) /\ m \in 1 .. m
    <3>1. s \in Seq(1 .. made) /\ 1 .. made \subseteq 1 .. m
      BY <1>1, <1>3
    <3> QED BY <1>1, <3>1
  <2> QED BY <2>1, AppendProperties, LenProperties
<1> HIDE DEF longer
<1>5. \A q : NewChildren(q) = IF q = p THEN Children(q) \cup {m} ELSE Children(q)
  <2>1. NewChildren(p) = Children(p) \cup {m}
    <3>1. Range(longer) = Range(s) \cup {m}
      <4>1. \A i \in 1 .. Len(s) + 1 : i = Len(s) + 1 \/ i \in 1 .. Len(s)
        BY <1>1, <1>3
      <4>2. Len(s) + 1 \in 1 .. Len(s) + 1 /\ \A i \in 1 .. Len(s) : i \in 1 .. Len(s) + 1
        BY <1>1, <1>3
      <4>3. DOMAIN s = 1 .. Len(s)
        BY <1>1, <1>3
      <4> HIDE DEF s
      <4> QED BY <1>4, <4>1, <4>2, <4>3 DEF Range
    <3> QED BY <1>1, <1>2, <3>1 DEF NewChildren, Children
  <2>2. ASSUME NEW q, q # p PROVE NewChildren(q) = Children(q)
    <3>1. CASE q \in DOMAIN stages
      BY <1>2, <2>2, <3>1 DEF NewChildren, Children
    <3>2. CASE q \notin DOMAIN stages
      <4>1. Range(<<>>) = {}
        BY DEF Range
      <4> QED BY <1>2, <3>2, <4>1 DEF NewChildren, Children
    <3> QED BY <3>1, <3>2
  <2> QED BY <2>1, <2>2
<1>6. \A y : y \in Held' <=> y \in Held \/ y = m
  <2>1. \A q : m \notin Children(q) /\ Children(m) = {}
    BY <1>1, FamilyIs DEF Children
  <2> QED BY <1>1, <1>2, <1>5, <2>1, HeldIs, NewHeldIs
<1>7. m \notin alive /\ m \notin Held
  <2>1. alive \subseteq Objects
    BY DEF Family
  <2>2. Held \subseteq 1 .. made
    BY HeldIs, FamilyIs
  <2> QED BY <1>1, <2>1, <2>2
<1>8. Leaked' = Leaked
  BY <1>1, <1>2, <1>6, <1>7 DEF Leaked
<1>9. Dangling' = Dangling
  BY <1>2, <1>6, <1>7 DEF Dangling
<1>10. Family'
  <2>1. Objects' = Objects \cup {m}
    BY <1>1, <1>2 DEF Objects
  <2>2. /\ made' \in Nat /\ Roots \subseteq DOMAIN stages'
        /\ DOMAIN stages' \subseteq Objects' /\ alive' \subseteq Objects'
    BY <1>1, <1>2, <2>1 DEF Family
  <2>3. \A q \in DOMAIN stages' : stages'[q] \in Seq(1 .. made')
    <3> SUFFICES ASSUME NEW q \in DOMAIN stages' PROVE stages'[q] \in Seq(1 .. m)
      BY <1>2
    <3>1. CASE q \in D
      <4>1. <<>> \in Seq(1 .. m)
        OBVIOUS
      <4> QED BY <1>2, <3>1, <4>1
    <3>2. CASE q \in DOMAIN stages
      <4>1. stages[q] \in Seq(1 .. made) /\ 1 .. made \subseteq 1 .. m
        BY <1>1, <1>3, <3>2
      <4>2. stages[q] \in Seq(1 .. m)
        BY <4>1, LongerRange
      <4> QED BY <1>2, <1>4, <3>2, <4>2
    <3> QED BY <1>2, <3>1, <3>2
  <2>4. \A q \in DOMAIN stages' : q \in Nat => \A y \in Range(stages'[q]) : y > q
    <3> SUFFICES ASSUME NEW q \in DOMAIN stages', q \in Nat, NEW y \in Range(stages'[q]) PROVE y > q
      OBVIOUS
    <3>1. y \in NewChildren(q)
      BY DEF NewChildren
    <3>2. y \in Children(q) \/ (q = p /\ y = m)
      BY <1>5, <3>1
    <3>3. p \in Nat => m > p
      BY <1>1, FamilyIs DEF Family
    <3> QED BY <3>2, <3>3, FamilyIs
  <2>5. ASSUME NEW q \in DOMAIN stages', NEW r \in DOMAIN stages', NEW i \in 1 .. Len(stages'[q]),
               NEW j \in 1 .. Len(stages'[r]), stages'[q][i] = stages'[r][j]
        PROVE  q = r /\ i = j
    <3>1. ASSUME NEW o \in DOMAIN stages', NEW k \in 1 .. Len(stages'[o])
          PROVE  /\ o \in DOMAIN stages
                 /\ \/ k \in 1 .. Len(stages[o]) /\ stages'[o][k] = stages[o][k]
                       /\ stages'[o][k] \in 1 .. made
                    \/ o = p /\ k = Len(s) + 1 /\ stages'[o][k] = m
      <4>1. o \in DOMAIN stages
        <5>1. o \in D => Len(stages'[o]) = 0
          BY <1>2
        <5> QED BY <1>2, <5>1
      <4>2. CASE o = p
        <5>1. k \in 1 .. Len(s) + 1 /\ Len(s) \in Nat
          BY <1>1, <1>2, <1>3, <1>4, <4>2
        <5>2. k = Len(s) + 1 \/ k \in 1 .. Len(s)
          BY <5>1
        <5> QED BY <1>1, <1>2, <1>3, <1>4, <4>1, <4>2, <5>2
      <4>3. CASE o # p
        BY <1>2, <1>3, <4>1, <4>3
      <4> QED BY <4>2, <4>3
    <3>2. \/ i \in 1 .. Len(stages[q]) /\ stages'[q][i] = stages[q][i] /\ stages'[q][i] \in 1 .. made
          \/ q = p /\ i = Len(s) + 1 /\ stages'[q][i] = m
      BY <3>1
    <3>3. \/ j \in 1 .. Len(stages[r]) /\ stages'[r][j] = stages[r][j] /\ stages'[r][j] \in 1 .. made
          \/ r = p /\ j = Len(s) + 1 /\ stages'[r][j] = m
      BY <3>1
    <3>4. q \in DOMAIN stages /\ r \in DOMAIN stages
      BY <3>1
    <3>5. \A k \in 1 .. Len(stages[q]) : \A l \in 1 .. Len(stages[r]) :
            stages[q][k] = stages[r][l] => q = r /\ k = l
      BY <3>4 DEF Family
    <3> QED BY <1>1, <2>5, <3>2, <3>3, <3>5
  <2> QED BY <2>2, <2>3, <2>4, <2>5 DEF Family
<1> QED BY <1>8, <1>9, <1>10

LEMMA RemoveAtIs ==
  ASSUME NEW S, NEW s \in Seq(S), NEW i \in 1 .. Len(s)
  PROVE  /\ RemoveAt(s, i) \in Seq(S) /\ Len(RemoveAt(s, i)) = Len(s) - 1
         /\ \A j \in 1 .. Len(s) - 1 : RemoveAt(s, i)[j] = s[IF j < i THEN j ELSE j + 1]
<1> DEFINE n == Len(s)  front == SubSeq(s, 1, i - 1)  back == SubSeq(s, i + 1, n)
<1>1. n \in Nat /\ i \in Nat /\ i >= 1 /\ i <= n
  BY LenProperties
<1>2. /\ front \in Seq(S) /\ Len(front) = i - 1 /\ \A j \in 1 .. i - 1 : front[j] = s[j]
  <2>1. i - 1 \in Nat /\ i - 1 <= Len(s)
    BY <1>1
  <2> DEFINE k == i - 1
  <2> HIDE DEF k
  <2>2. /\ SubSeq(s, 1, k) \in Seq(S) /\ Len(SubSeq(s, 1, k)) = k
        /\ \A j \in 1 .. k : SubSeq(s, 1, k)[j] = s[j]
    BY <2>1, PrefixIs DEF k
  <2> QED BY <2>2 DEF k
<1>3. /\ back \in Seq(S) /\ Len(back) = n - i /\ \A j \in 1 .. n - i : back[j] = s[i + j]
  <2> DEFINE k == i + 1
  <2>1. k \in Nat /\ k >= 1 /\ n + 1 - k = n - i /\ n - k + 1 = n - i /\ k <= n + 1
    BY <1>1
  <2>2. \A j \in 1 .. n - i : k + j - 1 = i + j /\ i + j \in 1 .. n
    BY <1>1
  <2> HIDE DEF k
  <2>3. /\ SubSeq(s, k, n) \in Seq(S) /\ Len(SubSeq(s, k, n)) = n - i
        /\ \A j \in 1 .. n - i : SubSeq(s, k, n)[j] = s[k + j - 1]
    BY <1>1, <2>1
  <2> QED BY <2>2, <2>3 DEF k
<1>4. RemoveAt(s, i) = front \o back
  BY DEF RemoveAt
<1> HIDE DEF front, back, n
<1>5. /\ front \o back \in Seq(S) /\ Len(front \o back) = Len(front) + Len(back)
      /\ \A j \in 1 .. Len(front) + Len(back) :
           (front \o back)[j] = IF j <= Len(front) THEN front[j] ELSE back[j - Len(front)]
  BY <1>2, <1>3, ConcatProperties
<1>6. Len(front) + Len(back) = n - 1
  BY <1>1, <1>2, <1>3
<1>7. ASSUME NEW j \in 1 .. n - 1 PROVE (front \o back)[j] = s[IF j < i THEN j ELSE j + 1]
  <2>1. CASE j < i
    <3>1. j <= Len(front) /\ j \in 1 .. i - 1
      BY <1>1, <1>2, <2>1
    <3> QED BY <1>2, <1>5, <1>6, <2>1, <3>1
  <2>2. CASE ~ (j < i)
    <3>1. ~ (j <= Len(front)) /\ j - Len(front) \in 1 .. n - i /\ i + (j - Len(front)) = j + 1
      BY <1>1, <1>2, <2>2
    <3> DEFINE k == j - Len(front)
    <3>2. (front \o back)[j] = back[k]
      BY <1>5, <1>6, <3>1
    <3> HIDE DEF k
    <3>3. back[k] = s[i + k]
      BY <1>3, <3>1 DEF k
    <3>4. i + k = j + 1
      BY <3>1 DEF k
    <3> QED BY <2>2, <3>2, <3>3, <3>4
  <2> QED BY <2>1, <2>2
<1> QED BY <1>4, <1>5, <1>6, <1>7 DEF n

\* What a destructor deletes, if it deletes nothing twice, and what is held of it.
LEMMA DeletedIs ==
  ASSUME Family, NEW x \in Objects, Below(x) \subseteq alive
  PROVE  LET B == Below(x)
         IN /\ x \in B /\ B \subseteq Objects /\ \A q \in B : Children(q) \subseteq B
            /\ \A y \in B : y = x \/ y \in Held
            /\ \A y \in B : \A q : y \in Children(q) => y = x \/ q \in B
            /\ x \in Nat => \A y \in B : y \in Nat /\ y >= x
<1> DEFINE B == Below(x)
<1>1. B = Reached(x)
  BY BelowIs
<1> HIDE DEF B
<1>2. /\ x \in B /\ B \subseteq Objects /\ \A q \in B : Children(q) \subseteq B
      /\ \A y \in B : y = x \/ \E q \in B : y \in Children(q)
      /\ x \in Nat => \A y \in B : y \in Nat /\ y >= x
  BY <1>1, ReachedIs DEF Closed
<1>3. \A y \in B : y = x \/ y \in Held
  BY <1>2, HeldIs DEF B
<1>4. \A y \in B : \A q : y \in Children(q) => y = x \/ q \in B
  BY <1>2, FamilyIs
<1> QED BY <1>2, <1>3, <1>4 DEF B

\* What remove_stage does where it finds the stage and deletes nothing twice: the last
\* stage goes; any other one is leaked, and its successor stays in the list.
\* A list that gets shorter leaves every stage its place, whatever is deleted.
LEMMA ShrunkFamily ==
  ASSUME Family, NEW p \in DOMAIN stages, NEW i \in DOMAIN stages[p],
         made' = made, stages' = [stages EXCEPT ![p] = RemoveAt(@, i)], alive' \subseteq alive
  PROVE  Family'
<1> DEFINE s == stages[p]  n == Len(s)  t == RemoveAt(s, i)
<1>1. made \in Nat /\ alive \subseteq Objects /\ DOMAIN stages \subseteq Objects
  BY DEF Family
<1>2. ASSUME NEW q \in DOMAIN stages
      PROVE  /\ stages[q] \in Seq(1 .. made) /\ Len(stages[q]) \in Nat
             /\ DOMAIN stages[q] = 1 .. Len(stages[q])
             /\ \A j \in 1 .. Len(stages[q]) : stages[q][j] \in 1 .. made
  <2>1. stages[q] \in Seq(1 .. made)
    BY DEF Family
  <2> QED BY <2>1, LenProperties, ElementOfSeq
<1>3. s \in Seq(1 .. made) /\ n \in Nat /\ DOMAIN s = 1 .. n /\ i \in 1 .. n
  BY <1>2
<1>4. /\ t \in Seq(1 .. made) /\ Len(t) = n - 1
      /\ \A j \in 1 .. n - 1 : t[j] = s[IF j < i THEN j ELSE j + 1]
  <2> HIDE DEF s
  <2>1. /\ RemoveAt(s, i) \in Seq(1 .. made) /\ Len(RemoveAt(s, i)) = Len(s) - 1
        /\ \A j \in 1 .. Len(s) - 1 : RemoveAt(s, i)[j] = s[IF j < i THEN j ELSE j + 1]
    BY <1>3, RemoveAtIs
  <2> HIDE DEF t
  <2> QED BY <2>1 DEF t
<1>5. /\ DOMAIN stages' = DOMAIN stages /\ made' = made
      /\ \A q \in DOMAIN stages : stages'[q] = IF q = p THEN t ELSE stages[q]
  BY <1>1
<1> HIDE DEF t
<1>6. Objects' = Objects
  BY <1>5 DEF Objects
<1>7. /\ made' \in Nat /\ Roots \subseteq DOMAIN stages'
      /\ DOMAIN stages' \subseteq Objects' /\ alive' \subseteq Objects'
  BY <1>1, <1>5, <1>6 DEF Family
<1>8. \A q \in DOMAIN stages' : stages'[q] \in Seq(1 .. made')
  BY <1>2, <1>4, <1>5
<1> DEFINE Place(o, l) == IF o = p /\ ~ (l < i) THEN l + 1 ELSE l
<1>9. ASSUME NEW o \in DOMAIN stages, NEW l \in 1 .. Len(stages'[o])
      PROVE  /\ Place(o, l) \in 1 .. Len(stages[o])
             /\ stages'[o][l] = stages[o][Place(o, l)] /\ l \in Nat
  <2>1. CASE o = p
    <3>1. l \in 1 .. n - 1 /\ l \in Nat
      BY <1>3, <1>4, <1>5, <2>1
    <3>2. l \in 1 .. n /\ l + 1 \in 1 .. n
      BY <1>3, <3>1
    <3> QED BY <1>4, <1>5, <2>1, <3>1, <3>2
  <2>2. CASE o # p
    BY <1>2, <1>5, <2>2
  <2> QED BY <2>1, <2>2
<1> HIDE DEF Place, s, n
<1>10. \A q \in DOMAIN stages' : q \in Nat => \A z \in Range(stages'[q]) : z > q
  <2> SUFFICES ASSUME NEW q \in DOMAIN stages', q \in Nat, NEW z \in Range(stages'[q]) PROVE z > q
    OBVIOUS
  <2>1. q \in DOMAIN stages /\ stages'[q] \in Seq(1 .. made)
    BY <1>5, <1>8
  <2>2. PICK l \in 1 .. Len(stages'[q]) : z = stages'[q][l]
    BY <2>1, LenProperties DEF Range
  <2>3. z = stages[q][Place(q, l)] /\ Place(q, l) \in DOMAIN stages[q]
    BY <1>2, <1>9, <2>1, <2>2
  <2>4. z \in Range(stages[q])
    BY <2>3 DEF Range
  <2> QED BY <2>1, <2>4 DEF Family
<1>11. ASSUME NEW q \in DOMAIN stages', NEW r \in DOMAIN stages', NEW j \in 1 .. Len(stages'[q]),
              NEW k \in 1 .. Len(stages'[r]), stages'[q][j] = stages'[r][k]
       PROVE  q = r /\ j = k
  <2>1. /\ q \in DOMAIN stages /\ r \in DOMAIN stages
    BY <1>5
  <2>2. /\ Place(q, j) \in 1 .. Len(stages[q]) /\ stages'[q][j] = stages[q][Place(q, j)] /\ j \in Nat
        /\ Place(r, k) \in 1 .. Len(stages[r]) /\ stages'[r][k] = stages[r][Place(r, k)] /\ k \in Nat
    BY <1>9, <2>1
  <2>3. q = r /\ Place(q, j) = Place(r, k)
    <3>1. \A a \in 1 .. Len(stages[q]) : \A b \in 1 .. Len(stages[r]) :
            stages[q][a] = stages[r][b] => q = r /\ a = b
      BY <2>1 DEF Family
    <3>2. stages[q][Place(q, j)] = stages[r][Place(r, k)]
      BY <1>11, <2>2
    <3> QED BY <2>2, <3>1, <3>2
  <2>4. i \in Nat
    BY <1>3
  <2> QED BY <2>2, <2>3, <2>4 DEF Place
<1> QED BY <1>7, <1>8, <1>10, <1>11 DEF Family

LEMMA Shrunk ==
  ASSUME Family, NEW p \in Pipelines, NEW i \in DOMAIN stages[p], Searched(p, i),
         made' = made, stages' = [stages EXCEPT ![p] = RemoveAt(@, i)],
         NEW x, x = stages[p][IF i < Len(stages[p]) THEN i + 1 ELSE i],
         Below(x) \subseteq alive, alive' = alive \ Below(x)
  PROVE  /\ Family'
         /\ ~ (i < Len(stages[p])) => Leaked' = Leaked /\ Dangling' = Dangling
         /\ i < Len(stages[p]) =>
              /\ \E y : y \notin Leaked /\ Leaked' = Leaked \cup {y}
              /\ \E y : y \notin Dangling /\ Dangling' = Dangling \cup {y}
<1> DEFINE s == stages[p]  n == Len(s)  t == RemoveAt(s, i)  y == s[i]  B == Below(x)
<1>1. /\ p \in DOMAIN stages /\ p \in alive /\ made \in Nat /\ alive \subseteq Objects
      /\ DOMAIN stages \subseteq Objects
  BY DEF Pipelines, Family
<1>2. ASSUME NEW q \in DOMAIN stages
      PROVE  /\ stages[q] \in Seq(1 .. made) /\ Len(stages[q]) \in Nat
             /\ DOMAIN stages[q] = 1 .. Len(stages[q])
             /\ \A j \in 1 .. Len(stages[q]) : stages[q][j] \in 1 .. made
  <2>1. stages[q] \in Seq(1 .. made)
    BY DEF Family
  <2> QED BY <2>1, LenProperties, ElementOfSeq
<1>3. /\ s \in Seq(1 .. made) /\ n \in Nat /\ DOMAIN s = 1 .. n /\ i \in 1 .. n
      /\ \A j \in 1 .. n : s[j] \in 1 .. made
  BY <1>1, <1>2
<1>4. /\ t \in Seq(1 .. made) /\ Len(t) = n - 1 /\ DOMAIN t = 1 .. n - 1
      /\ \A j \in 1 .. n - 1 : t[j] = s[IF j < i THEN j ELSE j + 1]
  <2> HIDE DEF s
  <2>1. /\ RemoveAt(s, i) \in Seq(1 .. made) /\ Len(RemoveAt(s, i)) = Len(s) - 1
        /\ \A j \in 1 .. Len(s) - 1 : RemoveAt(s, i)[j] = s[IF j < i THEN j ELSE j + 1]
    BY <1>3, RemoveAtIs
  <2> HIDE DEF t
  <2>2. t \in Seq(1 .. made) /\ Len(t) = n - 1
    BY <2>1 DEF t
  <2> QED BY <2>1, <2>2, LenProperties DEF t
<1>5. /\ DOMAIN stages' = DOMAIN stages /\ made' = made /\ alive' = alive \ B
      /\ \A q \in DOMAIN stages : stages'[q] = IF q = p THEN t ELSE stages[q]
  BY <1>1
<1>6. \A j, k \in 1 .. n : s[j] = s[k] => j = k
  BY <1>1 DEF Family
<1>7. x \in 1 .. made /\ x \in Range(s) /\ x \in Objects /\ x = s[IF i < n THEN i + 1 ELSE i]
  <2>1. (IF i < n THEN i + 1 ELSE i) \in 1 .. n
    BY <1>3
  <2>2. x = s[IF i < n THEN i + 1 ELSE i]
    OBVIOUS
  <2> HIDE DEF s, n
  <2> QED BY <1>3, <2>1, <2>2 DEF Range, Objects
<1>8. /\ x \in B /\ B \subseteq Objects /\ \A q \in B : Children(q) \subseteq B
      /\ \A z \in B : z = x \/ z \in Held
      /\ \A z \in B : \A q : z \in Children(q) => z = x \/ q \in B
      /\ \A z \in B : z \in Nat /\ z >= x
      /\ B \subseteq alive
  BY <1>7, DeletedIs
<1> HIDE DEF B
<1>9. Children(p) = Range(s) /\ y \in Range(s) /\ y \in alive
  <2>1. y \in alive
    BY <1>3 DEF Searched
  <2>2. y \in Range(s)
    BY <1>3 DEF Range
  <2> QED BY <1>1, <2>1, <2>2 DEF Children
<1>10. p \notin B
  <2> SUFFICES ASSUME p \in B PROVE FALSE
    OBVIOUS
  <2>1. p \in Nat /\ p >= x
    BY <1>8
  <2>2. x > p
    BY <1>7, <1>9, <2>1, FamilyIs
  <2> QED BY <1>7, <2>1, <2>2
<1> HIDE DEF t
<1>11. Range(t) = Range(s) \ {y}
  <2>1. ASSUME NEW j \in 1 .. n - 1 PROVE t[j] \in Range(s) /\ t[j] # y
    <3> DEFINE k == IF j < i THEN j ELSE j + 1
    <3>1. k \in 1 .. n /\ k # i
      BY <1>3
    <3>2. t[j] = s[k]
      BY <1>4
    <3> HIDE DEF k, s, n
    <3> QED BY <1>3, <1>6, <3>1, <3>2 DEF Range
  <2>2. ASSUME NEW k \in 1 .. n, k # i PROVE s[k] \in Range(t)
    <3>1. CASE k < i
      <4>1. k \in 1 .. n - 1 /\ t[k] = s[k]
        BY <1>3, <1>4, <3>1
      <4> QED BY <1>4, <4>1 DEF Range
    <3>2. CASE ~ (k < i)
      <4> DEFINE j == k - 1
      <4>1. j \in 1 .. n - 1 /\ ~ (j < i) /\ j + 1 = k
        BY <1>3, <2>2, <3>2
      <4> HIDE DEF j
      <4>2. t[j] = s[k]
        BY <1>4, <4>1
      <4> QED BY <1>4, <4>1, <4>2 DEF Range
    <3> QED BY <3>1, <3>2
  <2> HIDE DEF n, s
  <2> QED BY <1>3, <1>4, <2>1, <2>2 DEF Range
<1> HIDE DEF n, s
<1>12. \A q : NewChildren(q) = IF q = p THEN Children(q) \ {y} ELSE Children(q)
  <2>1. NewChildren(p) = Range(t)
    BY <1>1, <1>5 DEF NewChildren
  <2>2. \A q : q # p => NewChildren(q) = Children(q)
    BY <1>5 DEF NewChildren, Children
  <2> QED BY <1>9, <1>11, <2>1, <2>2
<1> HIDE DEF y
<1>13. \A z : z \in Held' <=> z \in Held /\ z # y /\ (z \in B => z = x)
  <2>1. ASSUME NEW z, z \in Held' PROVE z \in Held /\ z # y /\ (z \in B => z = x)
    <3>1. PICK q \in alive' : z \in NewChildren(q)
      BY <2>1, NewHeldIs
    <3>2. q \in alive /\ q \notin B /\ z \in Children(q) /\ (q = p => z # y)
      BY <1>5, <1>12, <3>1
    <3>3. z # y
      BY <1>9, <3>2, FamilyIs
    <3> QED BY <1>8, <3>2, <3>3, HeldIs
  <2>2. ASSUME NEW z, z \in Held, z # y, z \in B => z = x PROVE z \in Held'
    <3>1. PICK q \in alive : z \in Children(q)
      BY <2>2, HeldIs
    <3>2. q \notin B
      <4> SUFFICES ASSUME q \in B PROVE FALSE
        OBVIOUS
      <4>1. z = x
        BY <1>8, <2>2, <3>1
      <4>2. q = p
        BY <1>7, <1>9, <3>1, <4>1, FamilyIs
      <4> QED BY <1>10, <4>2
    <3>3. q \in alive' /\ z \in NewChildren(q)
      BY <1>5, <1>12, <2>2, <3>1, <3>2
    <3> QED BY <3>3, NewHeldIs
  <2> QED BY <2>1, <2>2
<1>14. y \in 1 .. made /\ y \in Held /\ x \in Held
  BY <1>1, <1>7, <1>9, HeldIs, FamilyIs
<1>15. ASSUME ~ (i < Len(stages[p])) PROVE Leaked' = Leaked /\ Dangling' = Dangling
  <2>1. x = y
    BY <1>15, <1>7 DEF y, s, n
  <2>2. \A z : z \in Held' <=> z \in Held /\ z \notin B
    BY <1>8, <1>13, <2>1
  <2>3. Leaked' = Leaked
    BY <1>5, <1>8, <1>14, <2>2 DEF Leaked
  <2>4. Dangling' = Dangling
    BY <1>5, <1>8, <2>2 DEF Dangling
  <2> QED BY <2>3, <2>4
<1>16. ASSUME i < Len(stages[p])
       PROVE  /\ \E z : z \notin Leaked /\ Leaked' = Leaked \cup {z}
              /\ \E z : z \notin Dangling /\ Dangling' = Dangling \cup {z}
  <2>1. x # y
    <3>1. x = s[i + 1] /\ i + 1 \in 1 .. n /\ i + 1 # i
      BY <1>3, <1>7, <1>16 DEF s, n
    <3> QED BY <1>3, <1>6, <3>1 DEF y
  <2>2. y \notin B
    BY <1>8, <1>9, <1>10, <2>1
  <2>3. y \notin Leaked /\ Leaked' = Leaked \cup {y}
    BY <1>5, <1>8, <1>9, <1>13, <1>14, <2>2 DEF Leaked
  <2>4. x \notin Dangling /\ Dangling' = Dangling \cup {x}
    <3>1. x \in alive /\ x \in B
      BY <1>8
    <3>2. \A z : z \in Dangling <=> z \in Held /\ z \notin alive
      BY DEF Dangling
    <3>3. \A z : z \in Dangling' <=> z \in Held' /\ (z \notin alive \/ z \in B)
      BY <1>5 DEF Dangling
    <3>4. \A z : z \in Dangling' <=> z \in Dangling \/ z = x
      BY <1>8, <1>9, <1>13, <1>14, <2>1, <3>1, <3>2, <3>3
    <3> QED BY <3>1, <3>2, <3>4
  <2> QED BY <2>3, <2>4
<1>17. Family'
  BY <1>1, <1>3, <1>5, ShrunkFamily DEF n, s
<1> QED BY <1>15, <1>16, <1>17

\* What the other lists hold: pipeline stages, each once in one list, younger than what
\* they are in. A stage is in the list longer than in the one that owns it.
Lists ==
  /\ kind \in Seq({"plain", "pipeline"}) /\ Len(kind) = made
  /\ \A s \in 1 .. made : s \in DOMAIN stages <=> kind[s] = "pipeline"
  /\ DOMAIN pipelines = DOMAIN stages
  /\ \A q \in DOMAIN stages :
       /\ pipelines[q] \in Seq(1 .. made)
       /\ \A i \in 1 .. Len(pipelines[q]) :
            pipelines[q][i] \in DOMAIN stages /\ (q \in Nat => pipelines[q][i] > q)
       /\ \A i, j \in 1 .. Len(pipelines[q]) : pipelines[q][i] = pipelines[q][j] => i = j

LEMMA PipelinesAre ==
  ASSUME Family, Lists, NEW q \in DOMAIN stages
  PROVE  /\ pipelines[q] \in Seq(1 .. made) /\ Len(pipelines[q]) \in Nat
         /\ DOMAIN pipelines[q] = 1 .. Len(pipelines[q])
         /\ \A i \in 1 .. Len(pipelines[q]) :
              /\ pipelines[q][i] \in 1 .. made /\ pipelines[q][i] \in DOMAIN stages
              /\ pipelines[q][i] \in Range(pipelines[q]) /\ (q \in Nat => pipelines[q][i] > q)
         /\ \A r \in Range(pipelines[q]) : \E i \in 1 .. Len(pipelines[q]) : r = pipelines[q][i]
<1>1. pipelines[q] \in Seq(1 .. made)
  BY DEF Lists
<1>2. /\ Len(pipelines[q]) \in Nat /\ DOMAIN pipelines[q] = 1 .. Len(pipelines[q])
      /\ \A i \in 1 .. Len(pipelines[q]) : pipelines[q][i] \in 1 .. made
  BY <1>1, LenProperties, ElementOfSeq
<1> QED BY <1>1, <1>2 DEF Lists, Range

LEMMA ListsGrown ==
  ASSUME Family, Lists, NEW p \in DOMAIN stages, made' = made + 1,
         NEW k \in {"plain", "pipeline"}, kind' = Append(kind, k),
         DOMAIN stages' = DOMAIN stages \cup (IF k = "pipeline" THEN {made + 1} ELSE {}),
         DOMAIN pipelines' = DOMAIN stages',
         k = "pipeline" => pipelines'[made + 1] = <<>>,
         \A q \in DOMAIN stages :
           \/ pipelines'[q] = pipelines[q]
           \/ q = p /\ k = "pipeline" /\ pipelines'[q] = Append(pipelines[q], made + 1)
  PROVE  Lists'
<1> DEFINE m == made + 1
<1>1. /\ made \in Nat /\ m \in Nat /\ 1 .. m = 1 .. made \cup {m} /\ m \notin 1 .. made
      /\ 1 .. made \subseteq 1 .. m
  BY FamilyIs
<1>2. m \notin DOMAIN stages /\ \A q \in DOMAIN stages : q \in Nat => m > q
  <2>1. \A q \in DOMAIN stages : q \in Nat => q \in 1 .. made
    BY FamilyIs DEF Family
  <2> QED BY <1>1, <2>1
<1> HIDE DEF m
<1>3. made' = m /\ kind' = Append(kind, k)
  BY DEF m
<1>4. /\ kind' \in Seq({"plain", "pipeline"}) /\ Len(kind') = m /\ kind'[m] = k
      /\ \A s \in 1 .. made : kind'[s] = kind[s]
  BY <1>1, <1>3, AppendProperties DEF Lists, m
<1>5. \A s \in 1 .. m : s \in DOMAIN stages' <=> kind'[s] = "pipeline"
  <2>1. ASSUME NEW s \in 1 .. made PROVE s \in DOMAIN stages' <=> kind'[s] = "pipeline"
    BY <1>1, <1>4, <2>1 DEF Lists, m
  <2>2. m \in DOMAIN stages' <=> kind'[m] = "pipeline"
    BY <1>2, <1>4 DEF m
  <2> QED BY <1>1, <2>1, <2>2
<1>6. ASSUME NEW q \in DOMAIN stages'
      PROVE  /\ pipelines'[q] \in Seq(1 .. m)
             /\ \A i \in 1 .. Len(pipelines'[q]) :
                  pipelines'[q][i] \in DOMAIN stages' /\ (q \in Nat => pipelines'[q][i] > q)
             /\ \A i, j \in 1 .. Len(pipelines'[q]) : pipelines'[q][i] = pipelines'[q][j] => i = j
  <2>1. CASE q \notin DOMAIN stages
    <3>1. pipelines'[q] = <<>>
      BY <2>1 DEF m
    <3>2. <<>> \in Seq(1 .. m) /\ Len(<<>>) = 0 /\ 1 .. 0 = {}
      OBVIOUS
    <3> QED BY <3>1, <3>2
  <2>2. CASE q \in DOMAIN stages
    <3> DEFINE s == pipelines[q]
    <3>1. /\ s \in Seq(1 .. made) /\ Len(s) \in Nat
          /\ \A i \in 1 .. Len(s) : /\ s[i] \in 1 .. made /\ s[i] \in DOMAIN stages
                                    /\ (q \in Nat => s[i] > q)
          /\ \A i, j \in 1 .. Len(s) : s[i] = s[j] => i = j
      BY <2>2, PipelinesAre DEF Lists
    <3>2. DOMAIN stages \subseteq DOMAIN stages'
      OBVIOUS
    <3> HIDE DEF s
    <3>3. s \in Seq(1 .. m)
      BY <1>1, <3>1, LongerRange
    <3>4. CASE pipelines'[q] = s
      BY <3>1, <3>2, <3>3, <3>4
    <3>5. CASE k = "pipeline" /\ pipelines'[q] = Append(s, m)
      <4> DEFINE longer == Append(s, m)
      <4>1. /\ longer \in Seq(1 .. m) /\ Len(longer) = Len(s) + 1 /\ longer[Len(s) + 1] = m
            /\ \A i \in 1 .. Len(s) : longer[i] = s[i]
        BY <1>1, <3>3, AppendProperties
      <4>2. \A i \in 1 .. Len(s) + 1 : i = Len(s) + 1 \/ i \in 1 .. Len(s)
        BY <3>1
      <4>3. m \in DOMAIN stages' /\ (q \in Nat => m > q)
        BY <1>2, <2>2, <3>5 DEF m
      <4>4. \A i \in 1 .. Len(s) : s[i] # m
        BY <1>1, <3>1
      <4> HIDE DEF longer
      <4>5. \A i \in 1 .. Len(longer) : longer[i] \in DOMAIN stages' /\ (q \in Nat => longer[i] > q)
        BY <3>1, <3>2, <4>1, <4>2, <4>3
      <4>6. ASSUME NEW i \in 1 .. Len(longer), NEW j \in 1 .. Len(longer), longer[i] = longer[j]
            PROVE  i = j
        BY <3>1, <4>1, <4>2, <4>4, <4>6
      <4>7. pipelines'[q] = longer
        BY <3>5 DEF longer
      <4> QED BY <4>1, <4>5, <4>6, <4>7
    <3> QED BY <2>2, <3>4, <3>5 DEF s, m
  <2> QED BY <2>1, <2>2
<1> QED BY <1>3, <1>4, <1>5, <1>6 DEF Lists

LEMMA SameFamily ==
  ASSUME Family, UNCHANGED <<made, alive, stages>>
  PROVE  Family'
<1>1. made' = made /\ alive' = alive /\ stages' = stages
  OBVIOUS
<1>2. /\ made' \in Nat /\ Roots \subseteq DOMAIN stages'
      /\ DOMAIN stages' \subseteq Objects' /\ alive' \subseteq Objects'
      /\ \A q \in DOMAIN stages' : stages'[q] \in Seq(1 .. made')
  BY <1>1 DEF Family, Objects
<1>3. \A q \in DOMAIN stages' : q \in Nat => \A s \in Range(stages'[q]) : s > q
  BY <1>1 DEF Family
<1>4. \A q, r \in DOMAIN stages' : \A j \in 1 .. Len(stages'[q]) : \A k \in 1 .. Len(stages'[r]) :
        stages'[q][j] = stages'[r][k] => q = r /\ j = k
  BY <1>1 DEF Family
<1> QED BY <1>2, <1>3, <1>4 DEF Family

LEMMA ListsKept ==
  ASSUME Family, Lists, [Next]_vars
  PROVE  Lists'
<1>1. CASE UNCHANGED <<made, kind, pipelines>> /\ DOMAIN stages' = DOMAIN stages
  BY <1>1 DEF Lists
<1>2. ASSUME NEW p, AddStage(p) PROVE Lists'
  <2> DEFINE k == "plain"
  <2>1. /\ p \in DOMAIN stages /\ made' = made + 1 /\ kind' = Append(kind, k)
        /\ DOMAIN stages' = DOMAIN stages /\ pipelines' = pipelines
    BY <1>2 DEF AddStage, Pipelines
  <2>2. k \in {"plain", "pipeline"} /\ k # "pipeline"
    OBVIOUS
  <2> HIDE DEF k
  <2>3. /\ DOMAIN stages' = DOMAIN stages \cup (IF k = "pipeline" THEN {made + 1} ELSE {})
        /\ DOMAIN pipelines' = DOMAIN stages' /\ \A q \in DOMAIN stages : pipelines'[q] = pipelines[q]
    BY <2>1, <2>2 DEF Lists
  <2> QED BY <2>1, <2>2, <2>3, ListsGrown
<1>3. ASSUME NEW p, AddPipelineStage(p) \/ AddStagePointer(p) PROVE Lists'
  <2> DEFINE k == "pipeline"
  <2>1. /\ p \in DOMAIN stages /\ made' = made + 1 /\ kind' = Append(kind, k)
        /\ DOMAIN stages' = DOMAIN stages \cup {made + 1}
        /\ DOMAIN pipelines' = DOMAIN pipelines \cup {made + 1}
        /\ pipelines'[made + 1] = <<>>
    BY <1>3 DEF AddPipelineStage, AddStagePointer, Pipelines
  <2>2. \A q \in DOMAIN pipelines : q # made + 1 =>
          \/ pipelines'[q] = pipelines[q]
          \/ q = p /\ pipelines'[q] = Append(pipelines[q], made + 1)
    BY <1>3 DEF AddPipelineStage, AddStagePointer
  <2>3. made + 1 \notin DOMAIN stages
    <3>1. made + 1 \in Nat /\ made + 1 \notin 1 .. made
      BY FamilyIs
    <3> QED BY <3>1, FamilyIs DEF Family
  <2>4. k \in {"plain", "pipeline"} /\ k = "pipeline"
    OBVIOUS
  <2> HIDE DEF k
  <2>5. /\ DOMAIN stages' = DOMAIN stages \cup (IF k = "pipeline" THEN {made + 1} ELSE {})
        /\ DOMAIN pipelines' = DOMAIN stages'
        /\ \A q \in DOMAIN stages :
             \/ pipelines'[q] = pipelines[q]
             \/ q = p /\ k = "pipeline" /\ pipelines'[q] = Append(pipelines[q], made + 1)
    BY <2>1, <2>2, <2>3, <2>4 DEF Lists
  <2> QED BY <2>1, <2>4, <2>5, ListsGrown
<1>4. CASE UNCHANGED vars
  BY <1>1, <1>4 DEF vars
<1>5. ASSUME NEW p, NEW i,
             \/ remove_stage(p, i) \/ get_stage(p, i) \/ CountDeleted(p) \/ Destroy(p)
             \/ AddBehindDeleted(p)
      PROVE  Lists'
  BY <1>1, <1>5 DEF remove_stage, get_stage, CountDeleted, Destroy, AddBehindDeleted
<1> QED BY <1>2, <1>3, <1>4, <1>5 DEF Next

(* The count. As BelowIs does for Below, the first lemmas show that the recursion has a  *)
(* solution; CountIs, that any solution counts what is below.                             *)
Sums == INSTANCE SeqFolds WITH Op <- Plus

LEMMA SumsFold == \A b, s : FoldLeft(Plus, b, s) = Sums!Folded(b, s)
  BY DEF FoldLeft, MapThenFoldSet, Max, Sums!Folded

Tally(f, q) ==
  Len(stages[q]) + FoldLeft(Plus, 0, [i \in DOMAIN pipelines[q] |-> f[pipelines[q][i]]])
    - Len(pipelines[q])

Counting(f) == f = [q \in DOMAIN stages |-> Tally(f, q)]

LEMMA TallySame ==
  ASSUME Family, Lists, NEW q \in DOMAIN stages, NEW f, NEW g,
         \A i \in 1 .. Len(pipelines[q]) : f[pipelines[q][i]] = g[pipelines[q][i]]
  PROVE  Tally(f, q) = Tally(g, q)
<1>1. DOMAIN pipelines[q] = 1 .. Len(pipelines[q])
  BY PipelinesAre
<1>2. [i \in DOMAIN pipelines[q] |-> f[pipelines[q][i]]] = [i \in DOMAIN pipelines[q] |-> g[pipelines[q][i]]]
  BY <1>1
<1> QED BY <1>2 DEF Tally

LEMMA CountingExists ==
  ASSUME Family, Lists
  PROVE  \E f : Counting(f)
<1> DEFINE Late(n) == {q \in DOMAIN stages : q \in Nat /\ q > made - n}
           Good == {n \in Nat : \E f : \A q \in Late(n) : f[q] = Tally(f, q)}
<1>0. /\ made \in Nat /\ \A q \in DOMAIN stages : q \in Nat => q \in 1 .. made
      /\ \A q \in DOMAIN stages : \A i \in 1 .. Len(pipelines[q]) :
           /\ pipelines[q][i] \in DOMAIN stages /\ pipelines[q][i] \in Nat
           /\ q \in Nat => pipelines[q][i] > q
  <2>1. made \in Nat /\ \A q \in DOMAIN stages : q \in Nat => q \in 1 .. made
    BY FamilyIs DEF Family
  <2> QED BY <2>1, PipelinesAre
<1>1. 0 \in Good
  <2>1. Late(0) = {}
    BY <1>0
  <2> HIDE DEF Late
  <2> QED BY <2>1
<1>2. ASSUME NEW n \in Good PROVE n + 1 \in Good
  <2>1. PICK f : \A q \in Late(n) : f[q] = Tally(f, q)
    OBVIOUS
  <2> DEFINE g == [q \in DOMAIN stages |-> IF q \in Late(n) THEN f[q] ELSE Tally(f, q)]
  <2>2. ASSUME NEW q \in Late(n + 1) PROVE g[q] = Tally(g, q)
    <3>1. ASSUME NEW i \in 1 .. Len(pipelines[q]) PROVE f[pipelines[q][i]] = g[pipelines[q][i]]
      <4> DEFINE r == pipelines[q][i]
      <4>1. r \in DOMAIN stages /\ r \in Nat /\ r > q
        BY <1>0
      <4>2. r > made - n
        BY <1>0, <4>1
      <4>3. r \in Late(n)
        BY <4>1, <4>2
      <4> HIDE DEF Late, r
      <4> QED BY <4>1, <4>3 DEF r
    <3> HIDE DEF g
    <3>2. q \in DOMAIN stages
      OBVIOUS
    <3>3. Tally(f, q) = Tally(g, q)
      BY <3>1, <3>2, TallySame
    <3> HIDE DEF Late
    <3>4. g[q] = Tally(f, q)
      BY <2>1, <3>2 DEF g
    <3> QED BY <3>3, <3>4
  <2> HIDE DEF g, Late
  <2> QED BY <2>2
<1>3. Good = Nat
  <2> HIDE DEF Good
  <2>1. Good \in SUBSET Nat
    BY DEF Good
  <2> QED BY <1>1, <1>2, <2>1, Sums!Induct
<1>4. PICK f : \A q \in Late(made) : f[q] = Tally(f, q)
  <2>1. made \in Good
    BY <1>0, <1>3
  <2> QED BY <2>1
<1> DEFINE g == [q \in DOMAIN stages |-> IF q \in Nat THEN f[q] ELSE Tally(f, q)]
<1>5. ASSUME NEW q \in DOMAIN stages PROVE g[q] = Tally(g, q)
  <2>1. \A i \in 1 .. Len(pipelines[q]) : f[pipelines[q][i]] = g[pipelines[q][i]]
    BY <1>0
  <2>2. g[q] = Tally(f, q)
    <3>1. q \in Nat => q \in Late(made)
      BY <1>0
    <3> HIDE DEF Late
    <3> QED BY <1>4, <3>1
  <2> HIDE DEF g
  <2> QED BY <2>1, <2>2, TallySame
<1>6. g = [q \in DOMAIN stages |-> g[q]]
  OBVIOUS
<1> HIDE DEF g
<1>7. Counting(g)
  BY <1>5, <1>6 DEF Counting
<1> QED BY <1>7

(* What is below two stages of one list has nothing in common.                            *)
LEMMA Apart ==
  ASSUME Family, NEW q \in DOMAIN stages, NEW r \in Children(q), NEW s \in Children(q), r # s
  PROVE  Reached(r) \cap Reached(s) = {}
<1>1. r \in Objects /\ s \in Objects /\ r \in Nat /\ s \in Nat /\ q \in Objects
  BY FamilyIs DEF Family
<1> DEFINE both == Reached(r) \cap Reached(s)
<1>2. both \subseteq Nat
  BY <1>1, ReachedIs
<1>3. \A c \in Children(q) : q \notin Reached(c)
  <2> SUFFICES ASSUME NEW c \in Children(q), q \in Reached(c) PROVE FALSE
    OBVIOUS
  <2>1. c \in Objects /\ c \in Nat
    BY FamilyIs
  <2>2. q \in Nat /\ q >= c
    BY <2>1, ReachedIs
  <2>3. c > q
    BY <2>2, FamilyIs
  <2> QED BY <2>1, <2>2, <2>3
<1>4. SUFFICES ASSUME both # {} PROVE FALSE
  OBVIOUS
<1>5. PICK y \in both : \A z \in both : y <= z
  BY <1>2, <1>4, Sums!Least
<1>6. y \in Nat /\ y \in Reached(r) /\ y \in Reached(s)
  BY <1>2
<1>7. y # r
  <2> SUFFICES ASSUME y = r PROVE FALSE
    OBVIOUS
  <2>1. PICK x \in Reached(s) : y \in Children(x)
    BY <1>1, <1>6, ReachedIs
  <2>2. x = q
    BY <2>1, FamilyIs
  <2> QED BY <1>3, <2>2
<1>8. y # s
  <2> SUFFICES ASSUME y = s PROVE FALSE
    OBVIOUS
  <2>1. PICK x \in Reached(r) : y \in Children(x)
    BY <1>1, <1>6, ReachedIs
  <2>2. x = q
    BY <2>1, FamilyIs
  <2> QED BY <1>3, <2>2
<1>9. PICK u \in Reached(r) : y \in Children(u)
  BY <1>1, <1>6, <1>7, ReachedIs
<1>10. PICK v \in Reached(s) : y \in Children(v)
  BY <1>1, <1>6, <1>8, ReachedIs
<1>11. u = v /\ u \in Nat
  BY <1>1, <1>9, <1>10, FamilyIs, ReachedIs
<1>12. y > u
  BY <1>9, <1>11, FamilyIs
<1> QED BY <1>5, <1>6, <1>9, <1>10, <1>11, <1>12

LEMMA OnceEach ==
  ASSUME NEW S, NEW s \in Seq(S), \A i, j \in 1 .. Len(s) : s[i] = s[j] => i = j
  PROVE  IsFiniteSet(Range(s)) /\ Cardinality(Range(s)) = Len(s)
<1> DEFINE n == Len(s)  I == 1 .. n
<1>1. n \in Nat /\ DOMAIN s = I
  BY LenProperties
<1>2. IsFiniteSet(I) /\ Cardinality(I) = n
  BY <1>1, FS_Interval
<1> HIDE DEF n
<1>3. s \in Surjection(I, Range(s)) /\ s \in Injection(I, Range(s))
  <2>1. s \in [I -> Range(s)] /\ \A t \in Range(s) : \E i \in I : s[i] = t
    BY <1>1 DEF Range
  <2>2. \A i, j \in I : s[i] = s[j] => i = j
    BY DEF n
  <2> QED BY <2>1, <2>2 DEF Surjection, Injection, IsInjective
<1> HIDE DEF I
<1> QED BY <1>2, <1>3, FS_Surjection DEF n

Plain(q) == {s \in Reached(q) \cap 1 .. made : kind[s] = "plain"}
Agreed(q) == Range(pipelines[q]) = {s \in Range(stages[q]) : kind[s] = "pipeline"}

LEMMA PlainFinite ==
  ASSUME Family, NEW q
  PROVE  IsFiniteSet(Plain(q)) /\ Cardinality(Plain(q)) \in Nat
<1>1. made \in Int /\ 1 \in Int /\ Plain(q) \subseteq 1 .. made
  BY FamilyIs DEF Plain
<1> QED BY <1>1, FS_Interval, FS_Subset, FS_CardinalityType

PlainOf(q) == {s \in Range(stages[q]) : kind[s] = "plain"}
PlainUnder(q) == UNION {Plain(r) : r \in Range(pipelines[q])}

(* The plain stages below a pipeline are those in its list and those below the pipelines  *)
(* of the other list, if the lists agree.                                                 *)
LEMMA PlainIs ==
  ASSUME Family, Lists, NEW q \in DOMAIN stages, Agreed(q)
  PROVE  /\ Plain(q) = PlainOf(q) \cup PlainUnder(q) /\ PlainOf(q) \cap PlainUnder(q) = {}
         /\ IsFiniteSet(PlainOf(q))
         /\ Cardinality(PlainOf(q)) = Len(stages[q]) - Len(pipelines[q])
<1> DEFINE C == Range(stages[q])  P == Range(pipelines[q])
           own == PlainOf(q)  others == PlainUnder(q)
<1>0. own = {s \in C : kind[s] = "plain"} /\ others = UNION {Plain(r) : r \in P}
  BY DEF PlainOf, PlainUnder
<1> HIDE DEF own, others
<1>1. C = Children(q) /\ C \subseteq 1 .. made /\ q \in Objects /\ 1 .. made \subseteq Objects
  BY FamilyIs DEF Children, Family
<1>2. P \subseteq C /\ P = {s \in C : kind[s] = "pipeline"}
  BY DEF Agreed
<1>3. \A s \in 1 .. made : kind[s] \in {"plain", "pipeline"}
  BY ElementOfSeq DEF Lists
<1>4. own = C \ P /\ own \in SUBSET C
  BY <1>0, <1>1, <1>2, <1>3
<1>5. \A s \in own : Reached(s) = {s}
  <2> SUFFICES ASSUME NEW s \in own PROVE Reached(s) = {s}
    OBVIOUS
  <2>1. s \in 1 .. made /\ s \in Objects /\ kind[s] = "plain"
    BY <1>0, <1>1
  <2>2. Children(s) = {}
    BY <2>1 DEF Lists, Children
  <2> QED BY <2>1, <2>2, ReachedIs
<1>6. \A s \in C : s \in Reached(s)
  BY <1>1, ReachedIs
<1>7. Reached(q) = {q} \cup UNION {Reached(s) : s \in C}
  BY <1>1, ReachedIs
<1>8. q \in 1 .. made => kind[q] # "plain"
  BY <1>3 DEF Lists
<1>9. Plain(q) = own \cup others
  <2>1. ASSUME NEW y \in Plain(q) PROVE y \in own \cup others
    <3>1. y \in Reached(q) /\ y \in 1 .. made /\ kind[y] = "plain" /\ y # q
      BY <1>8 DEF Plain
    <3>2. PICK s \in C : y \in Reached(s)
      BY <1>7, <3>1
    <3>3. CASE s \in P
      BY <1>0, <3>1, <3>2, <3>3 DEF Plain
    <3>4. CASE s \in own
      BY <1>5, <3>2, <3>4
    <3> QED BY <1>4, <3>3, <3>4
  <2>2. ASSUME NEW y \in own PROVE y \in Plain(q)
    BY <1>0, <1>1, <1>6, <1>7 DEF Plain
  <2>3. ASSUME NEW y \in others PROVE y \in Plain(q)
    <3>1. PICK r \in P : y \in Plain(r)
      BY <1>0
    <3> QED BY <1>2, <1>7, <3>1 DEF Plain
  <2> QED BY <2>1, <2>2, <2>3
<1>10. own \cap others = {}
  <2> SUFFICES ASSUME NEW y \in own, NEW r \in P, y \in Plain(r) PROVE FALSE
    BY <1>0
  <2>1. y \in Children(q) /\ r \in Children(q) /\ y # r
    BY <1>1, <1>2, <1>4
  <2>2. y \in Reached(r) /\ y \in Reached(y)
    BY <1>4, <1>6 DEF Plain
  <2> QED BY <2>1, <2>2, Apart
<1>11. IsFiniteSet(C) /\ Cardinality(C) = Len(stages[q])
  <2>1. stages[q] \in Seq(1 .. made) /\ \A i, j \in 1 .. Len(stages[q]) : stages[q][i] = stages[q][j] => i = j
    BY DEF Family
  <2> QED BY <2>1, OnceEach
<1>12. IsFiniteSet(P) /\ Cardinality(P) = Len(pipelines[q])
  <2>1. pipelines[q] \in Seq(1 .. made)
        /\ \A i, j \in 1 .. Len(pipelines[q]) : pipelines[q][i] = pipelines[q][j] => i = j
    BY DEF Lists
  <2> QED BY <2>1, OnceEach
<1> HIDE DEF C, P
<1>13. IsFiniteSet(own)
  BY <1>4, <1>11, FS_Subset
<1>14. own \cup P = C /\ own \cap P = {}
  BY <1>2, <1>4
<1>15. Cardinality(C) = Cardinality(own) + Cardinality(P) - Cardinality({})
  <2>1. Cardinality(own \cup P) = Cardinality(own) + Cardinality(P) - Cardinality(own \cap P)
    BY <1>12, <1>13, FS_Union
  <2> QED BY <1>14, <2>1
<1>16. Cardinality({}) = 0 /\ Cardinality(own) \in Nat /\ Cardinality(P) \in Nat
  BY <1>12, <1>13, FS_EmptySet, FS_CardinalityType
<1>17. Cardinality(own) = Cardinality(C) - Cardinality(P)
  BY <1>15, <1>16
<1> QED BY <1>9, <1>10, <1>11, <1>12, <1>13, <1>17 DEF own, others

LEMMA CountStep ==
  ASSUME Family, Lists, NEW f, NEW q \in DOMAIN stages, Agreed(q), f[q] = Tally(f, q),
         \A r \in Range(pipelines[q]) : f[r] = Cardinality(Plain(r))
  PROVE  f[q] = Cardinality(Plain(q))
<1> DEFINE P == pipelines[q]  n == Len(P)  s == [i \in DOMAIN P |-> f[P[i]]]
           Sofar(k) == UNION {Plain(P[i]) : i \in 1 .. k}
           D == [k \in Nat |-> {Cardinality(Sofar(k))}]
<1>1. /\ n \in Nat /\ DOMAIN P = 1 .. n /\ \A i \in 1 .. n : P[i] \in Range(P)
      /\ \A r \in Range(P) : \E i \in 1 .. n : r = P[i]
      /\ \A i, j \in 1 .. n : P[i] = P[j] => i = j
      /\ \A i \in 1 .. n : P[i] \in Children(q)
  <2>1. \A r \in Range(P) : r \in Children(q)
    BY DEF Agreed, Children
  <2> QED BY <2>1, PipelinesAre DEF Lists
<1>2. s \in Seq(Nat) /\ Len(s) = n /\ \A i \in 1 .. n : s[i] = Cardinality(Plain(P[i]))
  <2>1. s \in [1 .. n -> Nat] /\ \A i \in 1 .. n : s[i] = Cardinality(Plain(P[i]))
    BY <1>1, PlainFinite
  <2> HIDE DEF s, n
  <2> QED BY <1>1, <2>1, Sums!FunctionLength
<1> HIDE DEF P, n, s
<1>3. ASSUME NEW k \in Nat, k <= n PROVE IsFiniteSet(Sofar(k))
  <2>1. Sofar(k) \subseteq 1 .. made /\ made \in Int /\ 1 \in Int
    BY FamilyIs DEF Plain
  <2> QED BY <2>1, FS_Interval, FS_Subset
<1>4. ASSUME NEW k \in 1 .. n PROVE Cardinality(Sofar(k - 1)) + s[k] = Cardinality(Sofar(k))
  <2>1. k - 1 \in Nat /\ k - 1 <= n /\ k \in Nat /\ k <= n
    BY <1>1
  <2>2. \A i : i \in 1 .. k <=> i \in 1 .. k - 1 \/ i = k
    BY <2>1
  <2>3. Sofar(k) = Sofar(k - 1) \cup Plain(P[k])
    BY <2>2
  <2>4. Sofar(k - 1) \cap Plain(P[k]) = {}
    <3> SUFFICES ASSUME NEW i \in 1 .. k - 1, NEW y \in Plain(P[i]), y \in Plain(P[k]) PROVE FALSE
      OBVIOUS
    <3>1. i \in 1 .. n /\ i # k
      BY <1>1, <2>1
    <3>2. P[i] \in Children(q) /\ P[k] \in Children(q) /\ P[i] # P[k]
      BY <1>1, <3>1
    <3> QED BY <3>2, Apart DEF Plain
  <2>5. IsFiniteSet(Sofar(k - 1)) /\ IsFiniteSet(Plain(P[k]))
    BY <1>3, <2>1, PlainFinite
  <2> HIDE DEF Sofar
  <2>6. Cardinality(Sofar(k)) = Cardinality(Sofar(k - 1)) + Cardinality(Plain(P[k])) - Cardinality({})
    BY <2>3, <2>4, <2>5, FS_Union
  <2>7. Cardinality({}) = 0 /\ Cardinality(Sofar(k - 1)) \in Nat /\ Cardinality(Plain(P[k])) \in Nat
    BY <2>5, FS_EmptySet, FS_CardinalityType
  <2> QED BY <1>2, <2>6, <2>7
<1>5. Sums!Folded(0, s) \in D[n]
  <2>1. 0 \in D[0]
    <3>1. Sofar(0) = {} /\ Cardinality({}) = 0
      BY FS_EmptySet
    <3> HIDE DEF Sofar
    <3> QED BY <3>1
  <2>2. \A k \in 1 .. Len(s) : \A u \in D[k - 1] : Plus(u, s[k]) \in D[k]
    <3> SUFFICES ASSUME NEW k \in 1 .. n, NEW u \in D[k - 1] PROVE Plus(u, s[k]) \in D[k]
      BY <1>2
    <3>1. k \in Nat /\ k - 1 \in Nat
      BY <1>1
    <3> HIDE DEF Sofar
    <3> QED BY <1>4, <3>1 DEF Plus
  <2> HIDE DEF D
  <2> QED BY <1>2, <2>1, <2>2, Sums!FoldAlong
<1>6. FoldLeft(Plus, 0, s) = Cardinality(Sofar(n))
  <2> HIDE DEF Sofar
  <2> QED BY <1>1, <1>5, SumsFold
<1> DEFINE own == PlainOf(q)  others == PlainUnder(q)
<1>7. others = Sofar(n)
  <2>1. ASSUME NEW y \in others PROVE y \in Sofar(n)
    <3>1. PICK r \in Range(P) : y \in Plain(r)
      BY DEF P, PlainUnder
    <3>2. PICK i \in 1 .. n : r = P[i]
      BY <1>1
    <3> QED BY <3>1, <3>2
  <2>2. ASSUME NEW y \in Sofar(n) PROVE y \in others
    <3>1. PICK i \in 1 .. n : y \in Plain(P[i])
      OBVIOUS
    <3>2. P[i] \in Range(pipelines[q])
      BY <1>1 DEF P
    <3> QED BY <3>1, <3>2 DEF PlainUnder
  <2> HIDE DEF others, Sofar
  <2> QED BY <2>1, <2>2
<1>8. /\ Plain(q) = own \cup others /\ own \cap others = {}
      /\ IsFiniteSet(own) /\ Cardinality(own) = Len(stages[q]) - n
  <2>1. n = Len(pipelines[q])
    BY DEF n, P
  <2> QED BY <2>1, PlainIs
<1>9. IsFiniteSet(others)
  BY <1>1, <1>3, <1>7
<1> HIDE DEF own, others, Sofar, D
<1>10. Cardinality(Plain(q)) = Cardinality(own) + Cardinality(others) - Cardinality({})
  BY <1>8, <1>9, FS_Union
<1>11. /\ Cardinality({}) = 0 /\ Cardinality(own) \in Nat /\ Cardinality(others) \in Nat
       /\ Len(stages[q]) \in Nat
  <2>1. stages[q] \in Seq(1 .. made)
    BY DEF Family
  <2> QED BY <1>8, <1>9, <2>1, FS_EmptySet, FS_CardinalityType, LenProperties
<1>12. f[q] = Len(stages[q]) + Cardinality(others) - n
  BY <1>6, <1>7 DEF Tally, s, n, P
<1> QED BY <1>1, <1>8, <1>10, <1>11, <1>12

LEMMA CountIs ==
  ASSUME Family, Lists, NEW f, Counting(f), NEW p \in DOMAIN stages,
         \A q \in Reached(p) \cap DOMAIN stages : Agreed(q)
  PROVE  f[p] = Cardinality(Plain(p))
<1> DEFINE T == {n \in Nat : /\ n <= made /\ made - n \in Reached(p) \cap DOMAIN stages
                             /\ f[made - n] # Cardinality(Plain(made - n))}
<1>1. p \in Objects /\ p \in Reached(p) /\ Closed(Reached(p)) /\ made \in Nat
  BY ReachedIs, FamilyIs DEF Family
<1>2. ASSUME NEW q \in Reached(p) \cap DOMAIN stages,
             \A r \in Range(pipelines[q]) : f[r] = Cardinality(Plain(r))
      PROVE  f[q] = Cardinality(Plain(q))
  <2>1. Agreed(q) /\ q \in DOMAIN stages
    OBVIOUS
  <2>2. f[q] = Tally(f, q)
    BY <2>1 DEF Counting
  <2> QED BY <1>2, <2>1, <2>2, CountStep
<1>3. ASSUME NEW q \in Reached(p) \cap DOMAIN stages, NEW r \in Range(pipelines[q])
      PROVE  r \in Reached(p) \cap DOMAIN stages /\ r \in 1 .. made /\ (q \in Nat => r > q)
  <2>1. q \in DOMAIN stages /\ Agreed(q) /\ q \in Reached(p)
    OBVIOUS
  <2>2. r \in Children(q)
    BY <2>1 DEF Agreed, Children
  <2>3. r \in Reached(p)
    BY <1>1, <2>1, <2>2 DEF Closed
  <2>4. PICK i \in 1 .. Len(pipelines[q]) : r = pipelines[q][i]
    BY <2>1, PipelinesAre
  <2>5. r \in 1 .. made /\ r \in DOMAIN stages /\ (q \in Nat => r > q)
    BY <2>1, <2>4, PipelinesAre
  <2> QED BY <2>3, <2>5
<1>4. T = {}
  <2> SUFFICES ASSUME T # {} PROVE FALSE
    OBVIOUS
  <2>1. PICK n \in T : \A k \in T : n <= k
    BY Sums!Least
  <2> DEFINE q == made - n
  <2>2. /\ q \in Reached(p) \cap DOMAIN stages /\ q \in Nat /\ n \in Nat
        /\ f[q] # Cardinality(Plain(q))
    BY <1>1, <2>1
  <2>3. ASSUME NEW r \in Range(pipelines[q]) PROVE f[r] = Cardinality(Plain(r))
    <3> HIDE DEF q
    <3>1. r \in Reached(p) \cap DOMAIN stages /\ r \in 1 .. made /\ r > q
      BY <1>3, <2>2
    <3>2. made - r \in Nat /\ made - r <= made /\ made - (made - r) = r /\ ~ (n <= made - r)
      BY <1>1, <2>2, <3>1 DEF q
    <3>3. made - r \notin T
      BY <2>1, <3>2
    <3> QED BY <3>1, <3>2, <3>3
  <2> HIDE DEF q
  <2> QED BY <1>2, <2>2, <2>3
<1>5. ASSUME NEW q \in Reached(p) \cap DOMAIN stages, q \in 1 .. made PROVE f[q] = Cardinality(Plain(q))
  <2>1. made - q \in Nat /\ made - q <= made /\ made - (made - q) = q
    BY <1>1, <1>5
  <2> QED BY <1>4, <2>1
<1>6. \A r \in Range(pipelines[p]) : f[r] = Cardinality(Plain(r))
  BY <1>1, <1>3, <1>5
<1> QED BY <1>1, <1>2, <1>6

LEMMA NumberIs ==
  ASSUME Family, Lists, NEW p \in DOMAIN stages, \A q \in Reached(p) \cap DOMAIN stages : Agreed(q)
  PROVE  get_number_of_stages(p) = Cardinality(Plain(p))
<1> DEFINE chosen == CHOOSE f : Counting(f)
<1>1. get_number_of_stages(p) = chosen[p]
  BY DEF get_number_of_stages, Counting, Tally
<1>2. Counting(chosen)
  BY CountingExists
<1> HIDE DEF chosen
<1> QED BY <1>1, <1>2, CountIs

\* Every stage has its place, and until the memory of a deleted object is used every
\* removal of a stage that others followed has leaked one and left one in its list.
PipelineIInv ==
  /\ Family /\ Lists /\ inner \in Nat
  /\ fault = "none" => Cardinality(Leaked) = inner /\ Cardinality(Dangling) = inner
  /\ fault \in {"used after delete", "deleted twice"} => inner > 0

LEMMA Countable ==
  ASSUME Family
  PROVE  IsFiniteSet(Leaked) /\ IsFiniteSet(Dangling)
<1>1. made \in Nat /\ Leaked \subseteq 1 .. made /\ Dangling \subseteq 1 .. made
  BY FamilyIs, HeldIs DEF Leaked, Dangling
<1>2. made \in Int /\ 1 \in Int
  BY <1>1
<1>3. IsFiniteSet(1 .. made)
  BY <1>2, FS_Interval
<1> QED BY <1>1, <1>3, FS_Subset

\* Where no list holds a deleted stage, whatever is below a living object is alive.
LEMMA NothingDeleted ==
  ASSUME Family, Dangling = {}, NEW x \in alive
  PROVE  Below(x) \subseteq alive
<1>1. x \in Objects /\ alive \in SUBSET Objects
  BY DEF Family
<1>2. Closed(alive)
  BY HeldIs DEF Closed, Dangling
<1>3. Reached(x) \subseteq alive
  BY <1>1, <1>2 DEF Reached
<1> QED BY <1>1, <1>3, BelowIs

LEMMA PipelineInitiallyKept == Init => PipelineIInv
<1> SUFFICES ASSUME Init PROVE PipelineIInv
  OBVIOUS
<1> SUFFICES Family /\ Lists /\ Leaked = {} /\ Dangling = {}
  <2>1. inner = 0 /\ fault = "none"
    BY DEF Init
  <2>2. Cardinality({}) = 0
    BY FS_EmptySet
  <2> QED BY <2>1, <2>2 DEF PipelineIInv
<1>1. /\ made = 0 /\ alive = Roots /\ stages = [p \in Roots |-> <<>>] /\ 1 .. 0 = {}
  BY DEF Init
<1>2. \A p \in DOMAIN stages : p \in Roots /\ stages[p] = <<>>
  BY <1>1
<1>3. <<>> \in Seq(1 .. made) /\ Len(<<>>) = 0 /\ Range(<<>>) = {}
  BY DEF Range
<1>4. Family
  BY <1>1, <1>2, <1>3 DEF Family, Objects
<1>5. Held = {}
  BY <1>2, <1>3 DEF Held, Pipelines
<1>6. Leaked = {} /\ Dangling = {}
  BY <1>1, <1>5 DEF Leaked, Dangling
<1>7. Lists
  <2>1. kind = <<>> /\ <<>> \in Seq({"plain", "pipeline"}) /\ Len(kind) = 0
    BY DEF Init
  <2>2. DOMAIN pipelines = DOMAIN stages /\ \A p \in DOMAIN pipelines : pipelines[p] = <<>>
    BY DEF Init
  <2> QED BY <1>1, <1>3, <2>1, <2>2 DEF Lists
<1> QED BY <1>4, <1>6, <1>7

LEMMA PipelineStepKeeps == PipelineIInv /\ [Next]_vars => PipelineIInv'
<1> SUFFICES ASSUME PipelineIInv, [Next]_vars PROVE PipelineIInv'
  OBVIOUS
<1>0. Family /\ Lists' /\ inner \in Nat
  BY ListsKept DEF PipelineIInv
<1>1. CASE UNCHANGED vars
  <2>1. Family' /\ UNCHANGED <<fault, inner, Dangling, Leaked>>
    BY <1>0, <1>1 DEF vars, Family, Objects, Dangling, Leaked, Held, Pipelines
  <2>2. Cardinality(Dangling)' = Cardinality(Dangling) /\ Cardinality(Leaked)' = Cardinality(Leaked)
    BY <2>1
  <2> QED BY <1>0, <2>1, <2>2 DEF PipelineIInv
<1>2. SUFFICES ASSUME Next, Cardinality(Leaked) = inner, Cardinality(Dangling) = inner
               PROVE  PipelineIInv'
  <2>1. Next => fault = "none"
    BY DEF Next, AddPipelineStage, AddBehindDeleted, AddStage, AddStagePointer, remove_stage,
           get_stage, CountDeleted, Destroy
  <2> QED BY <1>1, <2>1 DEF PipelineIInv
\* A step that leaks nothing, and one that uses the memory of a deleted object.
<1>3. ASSUME Family', Leaked' = Leaked, Dangling' = Dangling, inner' = inner, fault' = "none"
      PROVE  PipelineIInv'
  <2>1. Cardinality(Leaked)' = inner' /\ Cardinality(Dangling)' = inner'
    BY <1>2, <1>3
  <2> QED BY <1>0, <1>3, <2>1 DEF PipelineIInv
<1>4. inner = 0 => Dangling = {}
  BY <1>0, <1>2, Countable, FS_EmptySet
<1>5. ASSUME Family', inner' \in Nat, inner' >= inner, fault' # "none",
              fault' \in {"used after delete", "deleted twice"} => inner' > 0 \/ Dangling # {}
       PROVE  PipelineIInv'
  <2>1. Dangling # {} => inner' > 0
    <3>1. Dangling # {} => inner # 0
      BY <1>4
    <3>2. inner # 0 => inner' > 0
      <4>1. inner' \in Nat /\ inner' >= inner
        BY <1>5
      <4> QED BY <1>0, <4>1
    <3> QED BY <3>1, <3>2
  <2>2. ASSUME fault' \in {"used after delete", "deleted twice"} PROVE inner' > 0
    <3>1. inner' > 0 \/ Dangling # {}
      BY <1>5, <2>2
    <3> QED BY <2>1, <3>1
  <2> QED BY <1>0, <1>5, <2>2 DEF PipelineIInv
<1>6. \A p \in DOMAIN stages : p # made + 1
  <2>1. made + 1 \in Nat /\ made + 1 \notin 1 .. made
    BY <1>0, FamilyIs
  <2>2. made + 1 \notin Objects
    BY <1>0, <2>1, FamilyIs
  <2> QED BY <1>0, <2>2 DEF Family
<1>7. \A p \in Pipelines : \A i \in DOMAIN stages[p] : stages[p][i] \in Held
  BY HeldIs DEF Pipelines, Children, Range
<1>8. ASSUME NEW p, AddPipelineStage(p) \/ AddStagePointer(p) PROVE PipelineIInv'
  <2>1. /\ p \in Pipelines /\ made' = made + 1 /\ alive' = alive \cup {made + 1} /\ inner' = inner
        /\ fault' = "none"
        /\ stages' = [q \in DOMAIN stages \cup {made + 1} |->
                        IF q = made + 1 THEN <<>>
                        ELSE IF q = p THEN Append(stages[q], made + 1) ELSE stages[q]]
    BY <1>8 DEF AddPipelineStage, AddStagePointer
  <2> DEFINE D == {made + 1}
  <2>2. D \in SUBSET {made + 1} /\ stages' = [q \in DOMAIN stages \cup D |->
                        IF q = made + 1 THEN <<>>
                        ELSE IF q = p THEN Append(stages[q], made + 1) ELSE stages[q]]
    BY <2>1
  <2> HIDE DEF D
  <2>3. Family' /\ Leaked' = Leaked /\ Dangling' = Dangling
    BY <1>0, <2>1, <2>2, Grown
  <2> QED BY <1>3, <2>1, <2>3
<1>9. ASSUME NEW p, AddStage(p) PROVE PipelineIInv'
  <2>1. /\ p \in Pipelines /\ made' = made + 1 /\ alive' = alive \cup {made + 1} /\ inner' = inner
        /\ fault' = "none"
        /\ stages' = [stages EXCEPT ![p] = Append(@, made + 1)]
    BY <1>9 DEF AddStage
  <2> DEFINE D == {}
  <2>2. D \in SUBSET {made + 1} /\ stages' = [q \in DOMAIN stages \cup D |->
                        IF q = made + 1 THEN <<>>
                        ELSE IF q = p THEN Append(stages[q], made + 1) ELSE stages[q]]
    BY <1>6, <2>1
  <2> HIDE DEF D
  <2>3. Family' /\ Leaked' = Leaked /\ Dangling' = Dangling
    BY <1>0, <2>1, <2>2, Grown
  <2> QED BY <1>3, <2>1, <2>3
<1>10. ASSUME NEW p, NEW i, remove_stage(p, i) PROVE PipelineIInv'
  <2> DEFINE k == IF i < Len(stages[p]) THEN i + 1 ELSE i
             x == stages[p][k]
  <2>1. /\ p \in Pipelines /\ i \in DOMAIN stages[p] /\ made' = made
        /\ stages' = [stages EXCEPT ![p] = RemoveAt(@, i)]
        /\ inner' = inner + IF i < Len(stages[p]) THEN 1 ELSE 0
        /\ Searched(p, i) => Delete(x)
        /\ ~ Searched(p, i) => fault' = "used after delete"
    BY <1>10 DEF remove_stage
  <2>2. p \in DOMAIN stages /\ stages[p] \in Seq(1 .. made)
    BY <1>0, <2>1 DEF Pipelines, Family
  <2>3. Len(stages[p]) \in Nat /\ DOMAIN stages[p] = 1 .. Len(stages[p])
    BY <2>2, LenProperties
  <2>4. Family'
    <3>1. alive' \subseteq alive
      BY <1>10 DEF remove_stage, Delete
    <3> HIDE DEF x
    <3> QED BY <1>0, <2>1, <2>2, <3>1, ShrunkFamily
  <2>5. /\ inner' \in Nat /\ inner' >= inner
        /\ i < Len(stages[p]) => inner' = inner + 1
        /\ ~ (i < Len(stages[p])) => inner' = inner
    <3>1. inner' = inner + IF i < Len(stages[p]) THEN 1 ELSE 0
      BY <2>1
    <3>2. i < Len(stages[p]) => inner' = inner + 1
      BY <3>1
    <3>3. ~ (i < Len(stages[p])) => inner' = inner + 0
      BY <3>1
    <3> QED BY <1>0, <3>2, <3>3
  <2>6. k \in DOMAIN stages[p] /\ i \in 1 .. Len(stages[p])
    <3>1. i \in 1 .. Len(stages[p])
      BY <2>1, <2>3
    <3> QED BY <2>3, <3>1
  <2>7. x \in Held
    BY <1>7, <2>1, <2>6
  <2> HIDE DEF k, x
  <2>8. CASE ~ Searched(p, i)
    <3>1. PICK j \in 1 .. i : stages[p][j] \notin alive
      BY <2>8 DEF Searched
    <3>2. j \in DOMAIN stages[p]
      BY <2>3, <2>6
    <3>3. Dangling # {}
      BY <1>7, <2>1, <3>1, <3>2 DEF Dangling
    <3> QED BY <1>5, <2>1, <2>4, <2>5, <2>8, <3>3
  <2>9. CASE Searched(p, i) /\ ~ (Below(x) \subseteq alive)
    <3>1. fault' = "deleted twice"
      BY <2>1, <2>9 DEF Delete
    <3>2. Dangling # {}
      BY <1>0, <2>7, <2>9, NothingDeleted DEF Dangling
    <3> QED BY <1>5, <2>4, <2>5, <3>1, <3>2
  <2>10. CASE Searched(p, i) /\ Below(x) \subseteq alive
    <3>1. alive' = alive \ Below(x) /\ fault' = "none"
      BY <2>1, <2>10 DEF Delete
    <3>2. /\ ~ (i < Len(stages[p])) => Leaked' = Leaked /\ Dangling' = Dangling
          /\ i < Len(stages[p]) => /\ \E y : y \notin Leaked /\ Leaked' = Leaked \cup {y}
                                   /\ \E y : y \notin Dangling /\ Dangling' = Dangling \cup {y}
      BY <1>0, <2>1, <2>10, <3>1, Shrunk DEF x, k
    <3>3. CASE ~ (i < Len(stages[p]))
      <4>1. inner' = inner
        BY <2>5, <3>3
      <4> QED BY <1>3, <2>4, <3>1, <3>2, <3>3, <4>1
    <3>4. CASE i < Len(stages[p])
      <4>1. inner' = inner + 1
        BY <2>5, <3>4
      <4>2. PICK y : y \notin Leaked /\ Leaked' = Leaked \cup {y}
        BY <3>2, <3>4
      <4>3. PICK z : z \notin Dangling /\ Dangling' = Dangling \cup {z}
        BY <3>2, <3>4
      <4>4. Cardinality(Leaked') = Cardinality(Leaked) + 1
        BY <4>2, <1>0, Countable, FS_AddElement
      <4>5. Cardinality(Dangling') = Cardinality(Dangling) + 1
        BY <4>3, <1>0, Countable, FS_AddElement
      <4>6. Cardinality(Leaked)' = inner' /\ Cardinality(Dangling)' = inner'
        BY <1>2, <4>1, <4>4, <4>5
      <4> QED BY <1>0, <2>4, <2>5, <3>1, <4>6 DEF PipelineIInv
    <3> QED BY <3>3, <3>4
  <2> QED BY <2>8, <2>9, <2>10
<1>11. ASSUME NEW p, NEW i, get_stage(p, i) \/ CountDeleted(p) \/ AddBehindDeleted(p)
      PROVE  PipelineIInv'
  <2>1. UNCHANGED <<made, alive, stages, inner>> /\ fault' # "none"
        /\ (fault' = "counted after delete" \/ get_stage(p, i) \/ AddBehindDeleted(p))
    BY <1>11 DEF get_stage, CountDeleted, AddBehindDeleted
  <2>2. Family'
    BY <1>0, <2>1, SameFamily
  <2>3. ASSUME get_stage(p, i) PROVE Dangling # {}
    <3>1. p \in Pipelines /\ i \in DOMAIN stages[p] /\ ~ Searched(p, i)
      BY <2>3 DEF get_stage
    <3>2. p \in DOMAIN stages /\ stages[p] \in Seq(1 .. made)
      BY <1>0, <3>1 DEF Pipelines, Family
    <3>3. Len(stages[p]) \in Nat /\ DOMAIN stages[p] = 1 .. Len(stages[p])
      BY <3>2, LenProperties
    <3>4. PICK j \in 1 .. i : stages[p][j] \notin alive
      BY <3>1 DEF Searched
    <3>5. j \in DOMAIN stages[p]
      BY <3>1, <3>3
    <3> QED BY <1>7, <3>1, <3>4, <3>5 DEF Dangling
  <2>4. ASSUME AddBehindDeleted(p) PROVE Dangling # {}
    <3>1. p \in Pipelines /\ Len(stages[p]) > 1 /\ stages[p][Len(stages[p])] \notin alive
      BY <2>4 DEF AddBehindDeleted, BackAlive, Last
    <3>2. p \in DOMAIN stages /\ stages[p] \in Seq(1 .. made)
      BY <1>0, <3>1 DEF Pipelines, Family
    <3>3. Len(stages[p]) \in DOMAIN stages[p]
      BY <3>1, <3>2, LenProperties
    <3> QED BY <1>7, <3>1, <3>3 DEF Dangling
  <2>5. inner' \in Nat /\ inner' >= inner
    <3>1. inner' = inner
      BY <2>1
    <3> QED BY <1>0, <3>1
  <2> QED BY <1>5, <2>1, <2>2, <2>3, <2>4, <2>5
<1>12. ASSUME NEW p \in Roots, Destroy(p) PROVE PipelineIInv'
  <2> DEFINE B == Below(p)
  <2>1. p \in alive /\ Delete(p) /\ UNCHANGED <<made, stages, inner>>
    BY <1>12 DEF Destroy
  <2>10. Family'
    <3>1. Objects' = Objects /\ alive' \subseteq Objects
      BY <1>0, <2>1 DEF Delete, Family, Objects
    <3> QED BY <1>0, <2>1, <3>1 DEF Family
  <2>11. CASE ~ (B \subseteq alive)
    <3>1. fault' = "deleted twice"
      BY <2>1, <2>11 DEF Delete
    <3>2. Dangling # {}
      BY <1>0, <2>1, <2>11, NothingDeleted
    <3>3. inner' \in Nat /\ inner' >= inner
      BY <1>0, <2>1
    <3> QED BY <1>5, <2>10, <3>1, <3>2, <3>3
  <2> SUFFICES ASSUME B \subseteq alive PROVE PipelineIInv'
    BY <2>11
  <2>2. B \subseteq alive /\ alive' = alive \ B /\ fault' = "none"
    BY <2>1 DEF Delete
  <2>3. /\ p \in B /\ B \subseteq Objects /\ \A q \in B : Children(q) \subseteq B
        /\ \A z \in B : z = p \/ z \in Held
        /\ \A z \in B : \A q : z \in Children(q) => z = p \/ q \in B
    BY <1>0, <2>2, DeletedIs, FamilyIs
  <2>4. p \notin Nat /\ made \in Nat /\ \A q : p \notin Children(q)
    BY <1>0, FamilyIs
  <2> HIDE DEF B
  <2>5. \A q : NewChildren(q) = Children(q)
    BY <2>1 DEF NewChildren, Children
  <2>6. \A z : z \in Held' <=> z \in Held /\ z \notin B
    BY <2>2, <2>3, <2>4, <2>5, HeldIs, NewHeldIs
  <2>7. Leaked' = Leaked
    BY <2>1, <2>2, <2>3, <2>4, <2>6 DEF Leaked
  <2>8. Dangling' = Dangling
    BY <2>2, <2>6 DEF Dangling
  <2> QED BY <1>3, <2>1, <2>2, <2>7, <2>8, <2>10
<1> QED BY <1>2, <1>8, <1>9, <1>10, <1>11, <1>12 DEF Next

\* For any number of stages, removals and pipelines of the application: until the memory
\* of a deleted object is used, there are as many leaked stages, and as many deleted ones
\* in the lists of stages, as removals of a stage that others followed. Without one only
\* counting comes to a deleted object.
THEOREM LeaksAreDangling == Spec => []LeakForEachDangling
<1>1. PipelineIInv => LeakForEachDangling
  BY DEF PipelineIInv, LeakForEachDangling
<1> QED BY <1>1, PipelineInitiallyKept, PipelineStepKeeps, PTL DEF Spec

\* For any number of stages, removals and pipelines of the application: where the two
\* lists agree, at every depth, get_number_of_stages is the number of stages below a
\* pipeline that are not pipelines.
THEOREM CountsArePlain == Spec => []CountsPlainStages
<1>1. PipelineIInv => CountsPlainStages
  <2> SUFFICES ASSUME Family, Lists, NEW p \in Pipelines, Agree(p)
               PROVE  get_number_of_stages(p)
                        = Cardinality({s \in Below(p) \cap 1 .. made : kind[s] = "plain"})
    BY DEF PipelineIInv, CountsPlainStages
  <2>1. p \in DOMAIN stages /\ p \in Objects
    BY DEF Pipelines, Family
  <2>2. Below(p) = Reached(p)
    BY <2>1, BelowIs
  <2>3. \A q \in Reached(p) \cap DOMAIN stages : Agreed(q)
    BY <2>2 DEF Agree, Agreed
  <2>4. get_number_of_stages(p) = Cardinality(Plain(p))
    BY <2>1, <2>3, NumberIs
  <2> QED BY <2>2, <2>4 DEF Plain
<1> QED BY <1>1, PipelineInitiallyKept, PipelineStepKeeps, PTL DEF Spec
=============================================================================
