----------------------------- MODULE MCTextModels -----------------------------
(***************************************************************************)
(* The two text models of the pipeline builder.  A program uses one of     *)
(* them.  One token is a blank, of which reduce leaves nothing, one is a   *)
(* number, one can be written with a blank inside.  Two words share a hash *)
(* and another one shares that of the empty string, which lies between     *)
(* those of the others.                                                    *)
(***************************************************************************)
EXTENDS HashedBagOfWords, Tfidf

MCTokens == {"a", "b b", "bb", "c", "7", " ", "e"}
MCReduced == [t \in MCTokens |-> CASE t = "b b" -> "bb" [] t = " " -> "" [] OTHER -> t]
MCHash == [t \in MCTokens \cup {""} |->
             CASE t = "7" -> 1 [] t \in {"a", "c"} -> 2 [] t \in {"", "e"} -> 3
               [] t = "bb" -> 4 [] OTHER -> 5]
MCNumber == [t \in {"7"} |-> 7]
MCBlankWords == {""}
MCVocabularies == {<<"7">>, <<"bb", "a">>, <<"a", "c">>}
MCDocuments == {<<"7">>, <<"a", "b b">>, <<"c", "7", "bb">>, <<" ", "a", "a">>, <<"e">>}
MCCorpora == {<<>>, <<<<"7">>, <<"a", "b b">>>>, <<<<"c", "7", "bb">>>>, <<<<"e">>>>}

MCTerms == {"x", "y", "z"}
MCTexts == {<<>>, <<"x">>, <<"y", "x">>, <<"z", "z">>, <<"z", "y">>}
MCTextCorpora == {<<>>} \cup {<<s>> : s \in MCTexts} \cup {<<<<"y", "x">>, <<"z", "z">>>>, <<<<"x">>, <<"z", "y">>>>}

textVars == <<bagVars, tfidfVars>>

TextInit == BagInit /\ TfidfInit

TextNext ==
  \/ BagNext /\ tfidfCalls = 0 /\ UNCHANGED tfidfVars
  \/ TfidfNext /\ bagCalls = 0 /\ UNCHANGED bagVars
=============================================================================
