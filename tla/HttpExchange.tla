--------------------------- MODULE HttpExchange ---------------------------
(***************************************************************************)
(* What the parser of util/safehttp recovers from the requests peers send: *)
(* well formed ones, written down as a line and a list of headers, and     *)
(* those the query builder of the same file builds.                        *)
(***************************************************************************)
EXTENDS HttpParser

CONSTANTS
  Requests,           \* well formed requests
  Queries,            \* what the builder is asked for
  Post, Version, Accept, UserAgent, Host, ContentType, AuthToken, ContentLength,
  AnyType, Agent, Decimal(_)  \* the words it writes

INSTANCE QueryBuilder

Fields == [key : Seq(Byte \ {CR, COLON, NUL}) \ {<<>>}, value : Seq(Byte \ {CR, NUL}) \ {<<>>}]

\* A line has the two spaces between which the URI is; names and values are not empty.
ASSUME RequestAssumption ==
  /\ LF \in Byte \ {CR} /\ \A b \in Byte : ToLower(b) = NUL => b = NUL
  /\ \A r \in Requests :
       /\ r.line \in Seq(Byte \ {CR})
       /\ \E m, n \in DOMAIN r.line : m < n /\ r.line[m] = SP /\ r.line[n] = SP
       /\ r.headers \in Seq(Fields)
       /\ \A k \in DOMAIN r.headers : Atoi(r.headers[k].value) \in Nat

\* The name of the program does not begin with a space.
ASSUME BuilderAssumption ==
  /\ {Post, Version} \subseteq Seq(Byte \ {CR}) /\ AnyType \in Seq(Byte \ {CR, NUL})
  /\ {Accept, UserAgent} \subseteq Seq(Byte \ {CR, COLON, NUL}) \ {<<>>}
  /\ {Agent, Host, ContentType, AuthToken, ContentLength} \subseteq Seq(Byte)
  /\ Agent = <<>> \/ Agent[1] # SP
  /\ \A q \in Queries :
       /\ q.url \in Seq(Byte \ {CR})
       /\ {q.host, q.type, q.token, q.body, Decimal(Len(q.body))} \subseteq Seq(Byte)

----------------------------------------------------------------------------
\* The request line with the first k headers, and all of what comes before the body.
Fielded(bytes, h) == bytes \o Field(h.key, h.value)
Preamble(r, k) == FoldLeft(Fielded, Line(r.line), SubSeq(r.headers, 1, k))
HeaderBlock(r) == Line(Preamble(r, Len(r.headers)))

Lower(s) == [n \in DOMAIN s |-> ToLower(s[n])]

\* The first header of a name, and the length of the body it declares.
Named(r, name) == {k \in DOMAIN r.headers : Lower(r.headers[k].key) = name}
ValueOf(r, name) == r.headers[Min(Named(r, name))].value
DeclaredLength(r) ==
  IF Named(r, ContentLengthKey) = {} THEN 0 ELSE Atoi(ValueOf(r, ContentLengthKey))

\* A well formed request is Done exactly when the last byte of its body is in the
\* buffer, whatever follows it and however it was cut; and then every header is found
\* under its lower case name with the value the peer sent, the first of two headers
\* of one name winning.
RequestRecovered ==
  \A r \in Requests :
    pc = "idle" /\ IsPrefix(HeaderBlock(r), wire) =>
      /\ status # "Error"
      /\ status = "Done" <=> Len(data) >= Len(HeaderBlock(r)) + DeclaredLength(r)
      /\ status = "Done" =>
           /\ contentStart = Len(HeaderBlock(r)) /\ contentLength = DeclaredLength(r)
           /\ Len(keys) = Len(r.headers)
           /\ \A k \in DOMAIN keys :
                LET name == Lower(r.headers[k].key)
                IN CString(data, keys[k]) = name /\ get_value(name) = ValueOf(r, name)

\* The parser accepts no request that query_builder builds: it writes User-Agent and
\* Host without the space the parser's table requires behind a colon, so the first
\* byte of the program's name is an error, however the request is cut.
BuiltQueriesRejected ==
  \A q \in Queries :
    pc = "idle" /\ wire = build_query(q) =>
      /\ status # "Done"
      /\ Len(data) > Len(Opening(q)) => status = "Error"
=============================================================================
