--------------------------- MODULE MCHttpParser ---------------------------
(***************************************************************************)
(* Streams for HttpExchange: well formed requests with what follows them,  *)
(* fragments in any order, ill-formed streams and queries of the builder.  *)
(***************************************************************************)
EXTENDS HttpExchange

----------------------------------------------------------------------------
(* Bytes: "C" is the upper case of "c", the one-byte name that stands for  *)
(* content-length; "1" and "2" are the digits, "-" the sign.               *)
MCByte == {"CR", "LF", "SP", ":", "NUL", "C", "c", "g", "-", "1", "2"}
MCToLower(b) == IF b = "C" THEN "c" ELSE b
MCDigit == [b \in {"1", "2"} |-> IF b = "1" THEN 1 ELSE 2]
MCWidth == 256        \* stands for 2^32: larger than every buffer
MCLeading(s) ==
  LET digits == {n \in 0..Len(s) : \A m \in 1..n : s[m] \in DOMAIN MCDigit}
  IN FoldLeft(LAMBDA acc, b : 10 * acc + MCDigit[b], 0, SubSeq(s, 1, Max(digits)))
MCAtoi(s) ==
  IF s # <<>> /\ s[1] = "-" THEN (MCWidth - MCLeading(Tail(s))) % MCWidth
                            ELSE MCLeading(s)
MCKey == <<"c">>

----------------------------------------------------------------------------
(* Well formed requests.                                                   *)
MCHeaders == { [key |-> <<"C">>, value |-> <<"1">>],
               [key |-> <<"c">>, value |-> <<"2", "g">>],
               [key |-> <<"g", "C">>, value |-> <<"g", "SP", "1">>] }
MCRequests == { [line |-> <<"g", "SP", "g", "SP", "g">>, headers |-> h] :
                  h \in SeqOf(MCHeaders, 2) }

\* The request, its body, and up to two bytes of what follows it.
MCRequestWires ==
  { HeaderBlock(r) \o [n \in 1..(DeclaredLength(r) + more) |-> "SP"] :
      r \in MCRequests, more \in 0..2 }

----------------------------------------------------------------------------
(* Fragments in any order behind a request line, with and without its two  *)
(* spaces; MCNegative declares a length that atoi makes huge.              *)
MCFragments == { <<"CR", "LF">>, <<"C", ":", "SP", "1">>, <<"g">>, <<"SP">>, <<"NUL">> }
MCLines == { <<"SP", "SP", "CR", "LF">>, <<"SP", "CR", "LF">>, <<"SP", "SP">> }
MCNegative == <<"SP", "SP", "CR", "LF", "C", ":", "SP", "-", "1", "CR", "LF",
                "CR", "LF", "g", "g">>
MCFragmentWires ==
  { l \o FlattenSeq(f) : l \in MCLines, f \in SeqOf(MCFragments, 4) } \cup {MCNegative}

\* A byte without a row in each of the states that lack an ANY row, and one or
\* two bytes behind it.
MCHeader == <<"SP", "SP", "CR", "LF", "C", ":", "SP", "1">>
MCPrefixes == { SubSeq(MCHeader, 1, n) : n \in {3, 6} }
              \cup { MCHeader \o SubSeq(<<"g", "CR", "LF", "CR">>, 1, n) : n \in {2, 4} }
              \cup { <<"SP", "SP", "CR", "LF", "CR">> }
MCMalformedWires == { p \o [n \in 1..more |-> "g"] : p \in MCPrefixes, more \in 2..3 }

----------------------------------------------------------------------------
(* What the builder writes: any name but content-length is the same to the *)
(* parser, any word is one byte, and so is a digit that reads as zero.     *)
MCWord == <<"g">>
MCName == <<"C">>
MCDecimal(n) == CASE n = 0 -> <<"g">> [] n = 1 -> <<"1">> [] n = 2 -> <<"2">>
MCQueries ==
  [url : {<<"g">>}, host : {<<"g">>}, type : {<<"g">>}, token : {<<>>, <<"g">>},
   body : {<<>>, <<"g">>, <<"g", "g">>}, hasBody : BOOLEAN]
MCQueryWires == { build_query(q) : q \in MCQueries }

MCWires == MCRequestWires \cup MCFragmentWires \cup MCMalformedWires \cup MCQueryWires
=============================================================================
