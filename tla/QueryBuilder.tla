---------------------------- MODULE QueryBuilder ----------------------------
(***************************************************************************)
(* query_builder (util/safehttp): the request of the client side, of which *)
(* the parser of the same file is the server side.                         *)
(***************************************************************************)
EXTENDS Sequences

CONSTANTS
  CR, LF, SP, COLON,  \* the bytes the layout consists of
  Post, Version,      \* "POST" and "HTTP/1.0"
  Accept, UserAgent, Host, ContentType, AuthToken, ContentLength, \* names
  AnyType, Agent,     \* "*/*" and the name of the program
  Decimal(_)          \* std::to_string of a size

Line(bytes) == bytes \o <<CR, LF>>
Field(name, value) == Line(name \o <<COLON, SP>> \o value)
Attached(name, value) == Line(name \o <<COLON>> \o value)

\* What is written in front of the value of User-Agent.
Opening(q) ==
  Line(Post \o <<SP>> \o q.url \o <<SP, SP>> \o Version) \o Field(Accept, AnyType \o <<SP>>)
  \o UserAgent \o <<COLON>>

\* The token is written if it is not empty; the body, which may be empty, and the blank
\* line that ends the headers if the caller passes one.
Closing(q) ==
  Field(ContentType, q.type)
  \o (IF q.token = <<>> THEN <<>> ELSE Field(AuthToken, q.token))
  \o (IF q.hasBody THEN Field(ContentLength, Decimal(Len(q.body))) \o <<CR, LF>> \o q.body
      ELSE <<>>)

\* Mutant: a space behind every colon.
BuildSpaced(q) ==
  Opening(q) \o <<SP>> \o Line(Agent) \o Field(Host, q.host) \o Closing(q)

build_query(q) == Opening(q) \o Line(Agent) \o Attached(Host, q.host) \o Closing(q)
============================================================================
