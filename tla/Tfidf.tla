-------------------------------- MODULE Tfidf --------------------------------
(***************************************************************************)
(* tfidf and tfidf_vectorizer (decision_engine/pipelinebuilder.cpp): term  *)
(* frequencies, inverse document frequencies and their products, in        *)
(* vectors that are meant to be parallel to the vocabulary.                *)
(*                                                                         *)
(* A weight is represented by the word it was computed for: the frequency  *)
(* of a term is always 1 (its map holds one word, and is normalised), that *)
(* of the documents depends on the word and on the documents of the fit.   *)
(* Left out: inverse_transform and the conversions from matrices.          *)
(***************************************************************************)
EXTENDS Integers, Sequences, FiniteSetsExt, SequencesExt

CONSTANTS
  Terms,
  Texts,              \* documents: sequences of words
  TextCorpora,        \* sequences of documents
  MaxTfidfCalls

ASSUME TfidfAssumption ==
  /\ Texts \subseteq Seq(Terms) /\ TextCorpora \subseteq Seq(Texts)
  /\ MaxTfidfCalls \in Nat

VARIABLES
  terms,              \* _vocabulary
  tf, idf,            \* the words the entries of _tf and _idf belong to
  rows,               \* _tfidf: rows of pairs of such words
  outside,            \* a vector was accessed behind its end
  fits, lacking,      \* fits since the start; one lacked a word of _vocabulary
  tfidfCalls

tfidfVars == <<terms, tf, idf, rows, outside, fits, lacking, tfidfCalls>>
----------------------------------------------------------------------------
TfidfInit ==
  /\ terms = <<>> /\ tf = <<>> /\ idf = <<>> /\ rows = <<>> /\ outside = FALSE
  /\ fits = 0 /\ lacking = FALSE /\ tfidfCalls = 0

Request == ~outside /\ tfidfCalls < MaxTfidfCalls /\ tfidfCalls' = tfidfCalls + 1

\* The vocabulary with the words of a document that are new to it.
Learned(words, w) == IF w \in Range(words) THEN words ELSE Append(words, w)
Extended(words, text) == FoldLeft(Learned, words, text)

ExtendedBy(words, corpus) == FoldLeft(Extended, words, corpus)

Occurs(word, corpus) == \E i \in DOMAIN corpus : word \in Range(corpus[i])

\* The words that some document contains, in the order of the vocabulary.
Occurring(words, corpus) ==
  LET at == {i \in DOMAIN words : Occurs(words[i], corpus)}
  IN [k \in 1 .. Cardinality(at) |-> words[CHOOSE i \in at : Cardinality({j \in at : j <= i}) = k]]

\* _tfidf.resize
Resized(r, n) == [i \in 1..n |-> IF i \in DOMAIN r THEN r[i] ELSE <<>>]

\* Mutant: the rows are made before the vocabulary is extended.
FitResizesFirst(corpus) ==
  /\ Request
  /\ \E i \in DOMAIN corpus : corpus[i] # <<>>
  /\ terms' = ExtendedBy(terms, corpus)
  /\ tf' = tf \o Occurring(terms', corpus)
  /\ idf' = idf \o terms'
  /\ LET both == Min({Len(tf'), Len(idf')})
         resized == Resized(rows, Len(terms))
     IN /\ rows' = [i \in DOMAIN resized |->
                      IF i <= both THEN Append(resized[i], <<tf'[i], idf'[i]>>) ELSE resized[i]]
        /\ outside' = (both > Len(terms))
  /\ fits' = fits + 1
  /\ lacking' = (lacking \/ \E w \in Range(terms') : ~Occurs(w, corpus))

(* fit for documents made of words: set_documents, with process_documents. *)
(* A word no document contains gets no term frequency, so that those       *)
(* behind it move up; both vectors of frequencies are extended, never      *)
(* reset, and the loop that multiplies them is bounded by them only.       *)
FitDocuments(corpus) ==
  /\ Request
  /\ \E i \in DOMAIN corpus : corpus[i] # <<>>
  /\ terms' = ExtendedBy(terms, corpus)
  /\ tf' = tf \o Occurring(terms', corpus)
  /\ idf' = idf \o terms'
  /\ LET both == Min({Len(tf'), Len(idf')})
         resized == Resized(rows, Len(terms'))
     IN /\ rows' = [i \in DOMAIN resized |->
                      IF i <= both THEN Append(resized[i], <<tf'[i], idf'[i]>>) ELSE resized[i]]
        /\ outside' = (both > Len(terms'))
  /\ fits' = fits + 1
  /\ lacking' = (lacking \/ \E w \in Range(terms') : ~Occurs(w, corpus))

\* fit for a list of strings, and the constructor from one: add_document
\* extends the vocabulary and keeps no document for process_documents.
FitStrings(corpus) ==
  /\ Request
  /\ terms' = ExtendedBy(terms, corpus)
  /\ UNCHANGED <<tf, idf, rows, outside, fits, lacking>>

\* transform: the first weight of each known word that has a row.
TransformText(text) ==
  /\ Request
  /\ outside' = \E i \in DOMAIN terms \cap DOMAIN rows : terms[i] \in Range(text) /\ rows[i] = <<>>
  /\ UNCHANGED <<terms, tf, idf, rows, fits, lacking>>

\* A copy is made, by a constructor that copies the frequencies only, and used.
CopyTfidf ==
  /\ Request
  /\ terms' = <<>> /\ rows' = <<>>
  /\ UNCHANGED <<tf, idf, outside, fits, lacking>>

ClearTfidf ==
  /\ Request
  /\ terms' = <<>> /\ tf' = <<>> /\ idf' = <<>> /\ rows' = <<>>
  /\ fits' = 0 /\ lacking' = FALSE
  /\ UNCHANGED outside

TfidfNext ==
  \/ \E c \in TextCorpora : FitDocuments(c) \/ FitStrings(c)
  \/ \E t \in Texts : TransformText(t)
  \/ CopyTfidf \/ ClearTfidf

TfidfSpec == TfidfInit /\ [][TfidfNext]_tfidfVars
----------------------------------------------------------------------------
\* The first fit, if its documents contain every word of the vocabulary, gives
\* each word the weight computed for it, and no vector is left, whatever
\* strings are fitted before and whatever is transformed behind.  A second fit,
\* a copy that is fitted or a word that no document contains spoils both.
WeightsOfTerms ==
  fits <= 1 /\ ~lacking =>
    /\ ~outside
    /\ \A i \in DOMAIN rows : rows[i] = <<<<terms[i], terms[i]>>>>
=============================================================================
