-------------------------- MODULE HashedBagOfWords --------------------------
(***************************************************************************)
(* hashed_bag_of_words (decision_engine/pipelinebuilder.cpp): a vocabulary,*)
(* a vector of counts, and a std::map from the hash of a word to its index.*)
(*                                                                         *)
(* The count of a known word is not looked up at the index the map holds   *)
(* but at the rank of its hash in the map, which is ordered by hash.  The  *)
(* default constructor puts the hash of the empty string into the map and  *)
(* nothing into the vectors.                                               *)
(*                                                                         *)
(* The hash is any function: fnv1a (utils.h) multiplies through a floating *)
(* point number, which leaves the integers from the second character on,   *)
(* so that words share hashes, and an entry is one of all words of a hash. *)
(*                                                                         *)
(* Left out: the conversions from and to matrices, the word cloud, and the *)
(* counters (num_words and the like), which nothing reads.                 *)
(***************************************************************************)
EXTENDS Integers, Sequences, FiniteSetsExt, SequencesExt

CONSTANTS
  Tokens,             \* what tokenize makes of a document; a blank may be one
  Reduced,            \* reduce: a token without its blanks, possibly nothing
  Hash,               \* fnv1a of a word
  Number,             \* the words std::stoull can read, and their values
  BlankWords,         \* the words whose line load takes for an empty one
  Vocabularies,       \* vocabularies an object is constructed from
  Documents, Corpora, \* sequences of tokens, and sequences of documents
  MaxBagCalls         \* bound on the calls

Words == Tokens \cup {""}
Hashes == {Hash[w] : w \in Words}

ASSUME BagAssumption ==
  /\ "" \notin Tokens /\ Reduced \in [Tokens -> Words] /\ Hash \in [Words -> Nat]
  /\ DOMAIN Number \subseteq Words /\ Number \in [DOMAIN Number -> Nat]
  /\ "" \in BlankWords /\ BlankWords \subseteq Words \ DOMAIN Number
  /\ Vocabularies \subseteq Seq(Words) /\ Documents \subseteq Seq(Tokens)
  /\ Corpora \subseteq Seq(Documents) /\ MaxBagCalls \in Nat

VARIABLES
  bag,                \* vocabulary, bow, hashes, hash_map
  file,               \* the lines save has written
  beyond,             \* _bow was accessed behind its end
  met,                \* how often words of each hash were to be counted
  bagCalls

bagVars == <<bag, file, beyond, met, bagCalls>>
----------------------------------------------------------------------------
Known(words) == {Hash[w] : w \in Range(words)}

\* The two constructors.  In a map built from a vocabulary, the first of the
\* words of one hash counts.
Constructed(words) ==
  [vocabulary |-> words, bow |-> [i \in DOMAIN words |-> 0],
   hashes |-> [i \in DOMAIN words |-> Hash[words[i]]],
   hash_map |-> [h \in Known(words) |->
                   Min({i \in DOMAIN words : Hash[words[i]] = h}) - 1]]

Default == [vocabulary |-> <<>>, bow |-> <<>>, hashes |-> <<Hash[""]>>,
            hash_map |-> [h \in {Hash[""]} |-> 0]]

Empty == [vocabulary |-> <<>>, bow |-> <<>>, hashes |-> <<>>, hash_map |-> [h \in {} |-> 0]]

BagInit ==
  /\ bag \in {Default} \cup {Constructed(v) : v \in Vocabularies}
  /\ file = <<>> /\ beyond = FALSE /\ met = [h \in Hashes |-> 0] /\ bagCalls = 0

\* Mutant: the rank counts from one.
RankOneBased(map, h) == Cardinality({g \in DOMAIN map : g <= h})

\* std::distance(_hash_map.begin(), it)
Rank(map, h) == Cardinality({g \in DOMAIN map : g < h})

\* A word that is not in the map goes to the end of all vectors.
New(b, word) ==
  [vocabulary |-> Append(b.vocabulary, word), bow |-> Append(b.bow, 1),
   hashes |-> Append(b.hashes, Hash[word]),
   hash_map |-> [h \in DOMAIN b.hash_map \cup {Hash[word]} |->
                   IF h = Hash[word] THEN Len(b.vocabulary) ELSE b.hash_map[h]]]

\* Mutant: a known word gets a count at the end.
AddedPushes(b, token) ==
  IF Hash[Reduced[token]] \notin DOMAIN b.hash_map THEN New(b, Reduced[token])
  ELSE [b EXCEPT !.bow = Append(@, 1)]

\* Mutant: a known word behind the counts is dropped, as fit would.
AddedDrops(b, token) ==
  LET slot == Rank(b.hash_map, Hash[Reduced[token]]) + 1
  IN IF Hash[Reduced[token]] \notin DOMAIN b.hash_map THEN New(b, Reduced[token])
     ELSE IF slot <= Len(b.bow) THEN [b EXCEPT !.bow[slot] = @ + 1]
     ELSE b

\* The body of the loop of add_document.
Added(b, token) ==
  LET word == Reduced[token]
      slot == Rank(b.hash_map, Hash[word]) + 1
  IN IF Hash[word] \notin DOMAIN b.hash_map THEN New(b, word)
     ELSE IF slot <= Len(b.bow) THEN [b EXCEPT !.bow[slot] = @ + 1]
     ELSE [b EXCEPT !.bow = Append(@, 1)]

\* Those of transform and of fit for one document, which are the same, and
\* that of fit for several, which counts.
LookedUp(b, token) == IF Hash[token] \in DOMAIN b.hash_map THEN b ELSE New(b, token)

Fitted(b, token) ==
  LET slot == Rank(b.hash_map, Hash[token]) + 1
  IN IF Hash[token] \notin DOMAIN b.hash_map THEN New(b, token)
     ELSE IF slot <= Len(b.bow) THEN [b EXCEPT !.bow[slot] = @ + 1]
     ELSE b

\* Whether one of the tokens is known and its rank is beyond _bow.
Overruns(Step(_, _), b, tokens) ==
  \E i \in DOMAIN tokens :
    LET at == FoldLeft(Step, b, SubSeq(tokens, 1, i - 1))
    IN /\ Hash[tokens[i]] \in DOMAIN at.hash_map
       /\ Rank(at.hash_map, Hash[tokens[i]]) >= Len(at.bow)

Occurrences(words, h) == Cardinality({i \in DOMAIN words : Hash[words[i]] = h})

Call == ~beyond /\ bagCalls < MaxBagCalls /\ bagCalls' = bagCalls + 1

add_document(document) ==
  /\ Call
  /\ bag' = FoldLeft(Added, bag, document)
  /\ met' = [h \in Hashes |-> met[h] + Occurrences([i \in DOMAIN document |-> Reduced[document[i]]], h)]
  /\ UNCHANGED <<file, beyond>>

\* Also predict, fit of one document and process_document, which calls fit
\* and transform: a document looked up twice leaves what it leaves once.
transform(document) ==
  /\ Call
  /\ bag' = FoldLeft(LookedUp, bag, document)
  /\ beyond' = Overruns(LookedUp, bag, document)
  /\ met' = [h \in Hashes |-> IF h \in DOMAIN bag'.hash_map \ DOMAIN bag.hash_map THEN 1 ELSE met[h]]
  /\ UNCHANGED file

\* fit of several documents, which returns at the end of the first one.
fit(documents) ==
  /\ Call
  /\ documents # <<>>
  /\ bag' = FoldLeft(Fitted, bag, documents[1])
  /\ beyond' = Overruns(Fitted, bag, documents[1])
  /\ met' = [h \in Hashes |-> met[h] + Occurrences(documents[1], h)]
  /\ UNCHANGED file

clear ==
  /\ Call
  /\ bag' = Empty /\ met' = [h \in Hashes |-> 0]
  /\ UNCHANGED <<file, beyond>>
----------------------------------------------------------------------------
\* The lines of a file.  std::stoull reads the hash in front of an entry.
Numeric(h) == [kind |-> "number", number |-> h, index |-> 0, word |-> ""]
Entry(h, i) == [kind |-> "entry", number |-> h, index |-> i, word |-> ""]
Word(w) == [kind |-> IF w \in BlankWords THEN "blank"
                     ELSE IF w \in DOMAIN Number THEN "number" ELSE "word",
            number |-> IF w \in DOMAIN Number THEN Number[w] ELSE 0, index |-> 0, word |-> w]
Blank == [kind |-> "blank", number |-> 0, index |-> 0, word |-> ""]

InOrder(map) ==
  [k \in 1 .. Cardinality(DOMAIN map) |-> CHOOSE h \in DOMAIN map : Rank(map, h) = k - 1]

\* The four parts save writes: hashes, map, vocabulary and counts.
Parts(b) ==
  << [i \in DOMAIN b.hashes |-> Numeric(b.hashes[i])],
     LET order == InOrder(b.hash_map)
     IN [i \in DOMAIN order |-> Entry(order[i], b.hash_map[order[i]])],
     [i \in DOMAIN b.vocabulary |-> Word(b.vocabulary[i])],
     [i \in DOMAIN b.bow |-> Numeric(b.bow[i])] >>

\* Behind them the size of a matrix that nothing fills, and an end of line.
Saved(b) == Parts(b)[1] \o Parts(b)[2] \o Parts(b)[3] \o Parts(b)[4] \o <<Entry(0, 0), Blank>>

save ==
  /\ Call
  /\ file' = Saved(bag)
  /\ UNCHANGED <<bag, beyond, met>>

\* The lines a loop of load reads, up to a blank one, and those behind it.
Section(lines) ==
  SelectInSeq(lines, LAMBDA l : l.kind = "blank") - 1

Until(lines) == IF Section(lines) < 0 THEN lines ELSE SubSeq(lines, 1, Section(lines))
Behind(lines) == IF Section(lines) < 0 THEN <<>> ELSE SubSeq(lines, Section(lines) + 2, Len(lines))

\* Mutant: the first loop fills the counts.
LoadedIntoCounts(b, lines) ==
  LET numbers == SelectSeq(Until(lines), LAMBDA l : l.kind # "word")
  IN [b EXCEPT !.bow = @ \o [i \in DOMAIN numbers |-> numbers[i].number]]

\* What the four loops make of the lines: each of them appends, and the first
\* line that is not a number ends the first loop with an exception.
Loaded(b, lines) ==
  LET first == Until(lines)
      second == Behind(lines)
      third == Behind(second)
      fourth == Behind(third)
      bad == SelectInSeq(first, LAMBDA l : l.kind = "word")
      numbers(part) == [i \in DOMAIN part |-> part[i].number]
  IN IF bad > 0 THEN [b EXCEPT !.hashes = @ \o numbers(SubSeq(first, 1, bad - 1))]
     ELSE [vocabulary |-> b.vocabulary \o [i \in DOMAIN Until(third) |-> Until(third)[i].word],
           bow |-> b.bow \o numbers(Until(fourth)),
           hashes |-> b.hashes \o numbers(first),
           hash_map |->
             [h \in DOMAIN b.hash_map \cup {l.number : l \in Range(Until(second))} |->
                IF h \in DOMAIN b.hash_map THEN b.hash_map[h]
                ELSE (CHOOSE l \in Range(Until(second)) : l.number = h).index]]

\* A file is loaded into a new object.  The program that does so opens it at
\* its end (std::ios::ate) and reads nothing.  Bound: no word in the file makes
\* a blank line.  (load would take what is behind it for entries of the map,
\* and read a second number where a line has none.)
load(ate) ==
  /\ Call
  /\ file # <<>> /\ \A i \in 1 .. Len(file) - 1 : file[i].kind # "blank"
  /\ bag' = Loaded(Default, IF ate THEN <<>> ELSE file)
  /\ met' = [h \in Hashes |-> 0]
  /\ UNCHANGED <<file, beyond>>

BagNext ==
  \/ \E d \in Documents : add_document(d) \/ transform(d)
  \/ \E c \in Corpora : fit(c)
  \/ clear \/ save
  \/ \E ate \in BOOLEAN : load(ate)

BagSpec == BagInit /\ [][BagNext]_bagVars
----------------------------------------------------------------------------
\* The entry of the default constructor, which is one of no word.
Extra(b) == DOMAIN b.hash_map \ Known(b.vocabulary)

\* Words that entered in the order of their hashes, with the extra entry behind
\* them, have ranks that are their indices.
InHashOrder(b) ==
  /\ \A i, j \in DOMAIN b.vocabulary : i < j => Hash[b.vocabulary[i]] < Hash[b.vocabulary[j]]
  /\ \A h \in Extra(b), i \in DOMAIN b.vocabulary : Hash[b.vocabulary[i]] < h

\* Each count is that of the words of a hash if these came in the order of their
\* hashes and none had that of the extra entry, whatever was called and however
\* many words share a hash.  (In any other order a known word is counted for
\* another one.)
CountsOfWords ==
  InHashOrder(bag) /\ (\A h \in Extra(bag) : met[h] = 0) =>
    /\ Len(bag.bow) = Len(bag.vocabulary)
    /\ \A i \in DOMAIN bag.bow : bag.bow[i] = met[Hash[bag.vocabulary[i]]]

\* In whatever order they came, no occurrence is lost and none counted twice:
\* add_document and fit count each one somewhere, transform those of new words.
EveryOccurrenceCounted ==
  ~beyond => FoldFunction(LAMBDA n, sum : n + sum, 0, bag.bow) = FoldFunction(LAMBDA n, sum : n + sum, 0, met)

\* What transform and fit say they add to their result, the bow value of the
\* word they found in the vocabulary.  They add the one at the rank of its hash.
BowValueOfWord ==
  \A w \in Range(bag.vocabulary) :
    LET rank == Rank(bag.hash_map, Hash[w])
    IN rank < Len(bag.bow) => bag.bow[rank + 1] = bag.bow[bag.hash_map[Hash[w]] + 1]

\* transform and fit read _bow without a test of the index.  They leave it
\* only where the map holds the entry of the default constructor, which is that
\* of no word; no sequence of calls on another object does.
OverrunOnlyWithEmptyWord == beyond => Extra(bag) = {Hash[""]}

\* load expects a blank line behind each part and save writes none: nothing
\* of a bag that was saved comes back but hashes, which nothing looks up.
NothingRestored ==
  [][\A ate \in BOOLEAN : load(ate) =>
       [bag' EXCEPT !.hashes = <<>>] = [Default EXCEPT !.hashes = <<>>]]_bagVars
=============================================================================
