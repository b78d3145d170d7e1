---------------------------- MODULE HttpParser ----------------------------
(***************************************************************************)
(* The incremental request parser safe_http_parser (util/safehttp.cpp).    *)
(*                                                                         *)
(* A caller hands the bytes it has read to add_bytes, one chunk at a time. *)
(* add_bytes appends them to one buffer, drives a finite state machine     *)
(* over the bytes not yet looked at, and once the headers and the body are *)
(* complete splits the request line.  The buffer is edited in place: the   *)
(* machine lowers keys and writes NULs over delimiters, so that the stored *)
(* offsets can be used as C strings.                                       *)
(*                                                                         *)
(* One iteration of the loop in parse_headers is one step, so that what    *)
(* holds between two bytes can be stated and proved.  The bytes are model  *)
(* values; offsets are zero-based as in the code, so the byte at offset i  *)
(* is data[i + 1].                                                         *)
(***************************************************************************)
EXTENDS Integers, Sequences, SequencesExt

CONSTANTS
  Byte,               \* the byte alphabet
  CR, LF, SP, COLON,  \* the bytes the machine tells apart
  NUL,                \* the byte written over delimiters
  Wires,              \* the byte streams a connection may carry
  ContentLengthKey,   \* the bytes of "content-length"
  ToLower(_),         \* libc tolower
  Atoi(_)             \* libc atoi, converted to unsigned

ASSUME BytesAssumption ==
  /\ {CR, LF, SP, COLON, NUL} \subseteq Byte
  /\ SP \notin {CR, COLON, NUL}
  /\ \A b \in Byte : ToLower(b) \in Byte /\ (ToLower(b) = SP <=> b = SP)
  /\ Wires \subseteq Seq(Byte)
  /\ ContentLengthKey \in Seq(Byte)

VARIABLES
  wire,           \* the stream of this connection
  data,           \* _data
  state,          \* _state
  parsedTo,       \* _parsedTo
  headerStart, keyIndex, valueIndex, contentLength, contentStart, uriIndex,
  keys,           \* _keys, offsets of the keys stored so far
  status,         \* _status
  pc,             \* where the running add_bytes call is
  i               \* the loop index of parse_headers

scratch == <<headerStart, keyIndex, valueIndex>>
vars == <<wire, data, state, parsedTo, scratch, contentLength, contentStart,
          uriIndex, keys, status, pc, i>>

----------------------------------------------------------------------------
(* The table fsm[] of parse_headers.  Rows are tried in order, so the ANY  *)
(* row of a state stands for the bytes its earlier rows do not name; a     *)
(* byte without a row leads to p_error.                                    *)

States == {"parse_request_line", "parse_request_line_cr",
           "parse_request_line_crlf", "parse_request_line_crlfcr",
           "parse_key_state", "parse_key_colon", "parse_key_colon_seperator",
           "parse_value", "parse_value_cr", "parse_value_crlf",
           "parse_value_crlfcr", "parse_content", "p_error"}

\* Mutant: the CR behind a value is not overwritten.
RowValueNotClosed(cur, on, next, actions) ==
  [cur |-> cur, on |-> on, next |-> next,
   actions |-> IF cur = "parse_value" THEN actions \ {"NULLIFY"} ELSE actions]

Row(cur, on, next, actions) ==
  [cur |-> cur, on |-> on, next |-> next, actions |-> actions]

Fsm == {
  Row("parse_request_line", {CR}, "parse_request_line_cr", {"NULLIFY"}),
  Row("parse_request_line", Byte \ {CR}, "parse_request_line", {}),
  Row("parse_request_line_cr", {LF}, "parse_request_line_crlf", {}),
  Row("parse_request_line_crlf", {CR}, "parse_request_line_crlfcr", {}),
  Row("parse_request_line_crlf", Byte \ {CR}, "parse_key_state",
      {"SET_HEADER_START", "SET_KEY", "LOWER"}),
  Row("parse_request_line_crlfcr", {LF}, "parse_content", {"SET_CONTENT_START"}),
  Row("parse_key_state", {COLON}, "parse_key_colon", {"NULLIFY"}),
  Row("parse_key_state", Byte \ {COLON}, "parse_key_state", {"LOWER"}),
  Row("parse_key_colon", {SP}, "parse_key_colon_seperator", {}),
  Row("parse_key_colon_seperator", Byte, "parse_value", {"SET_VALUE"}),
  Row("parse_value", {CR}, "parse_value_cr", {"NULLIFY", "STORE_KEY_VALUE"}),
  Row("parse_value", Byte \ {CR}, "parse_value", {}),
  Row("parse_value_cr", {LF}, "parse_value_crlf", {}),
  Row("parse_value_crlf", {CR}, "parse_value_crlfcr", {}),
  Row("parse_value_crlf", Byte \ {CR}, "parse_key_state", {"SET_KEY", "LOWER"}),
  Row("parse_value_crlfcr", {LF}, "parse_content", {"SET_CONTENT_START"}),
  Row("p_error", Byte, "p_error", {}) }

----------------------------------------------------------------------------
(* The C string that starts at an offset of the buffer.                    *)
CString(d, start) ==
  LET ends == {n \in start..Len(d) : n = Len(d) \/ d[n + 1] = NUL}
  IN SubSeq(d, start + 1, CHOOSE n \in ends : \A m \in ends : n <= m)

(* get_value: the first stored key that reads as name decides.             *)
Holders(name) == {k \in DOMAIN keys : CString(data, keys[k]) = name}
get_value(name) ==
  CString(data, keys[CHOOSE k \in Holders(name) :
                       \A m \in Holders(name) : k <= m] + Len(name) + 2)

(* get_body: the offset of the body, or -1 for the NULL pointer.           *)
get_body ==
  IF contentStart < Len(data) /\ contentStart < contentLength
  THEN contentStart ELSE -1

(* The offsets sp1, sp2 parse_requestline finds: the first two spaces of   *)
(* the whole buffer.                                                       *)
Spaces(d) == {n \in 0..(Len(d) - 1) : d[n + 1] = SP}

\* Mutant: the line is split at its first and its last space, as with rfind.
LineSplitsLast(d) ==
  {p \in Spaces(d) \X Spaces(d) :
     p[1] < p[2] /\ \A n \in Spaces(d) : p[1] <= n /\ n <= p[2]}

LineSplits(d) ==
  {p \in Spaces(d) \X Spaces(d) :
     p[1] < p[2] /\ \A n \in Spaces(d) : n = p[1] \/ p[2] <= n}

----------------------------------------------------------------------------
Init ==
  /\ wire \in Wires
  /\ data = <<>> /\ keys = <<>>
  /\ state = "parse_request_line"
  /\ parsedTo = 0
  /\ headerStart = 0 /\ keyIndex = 0 /\ valueIndex = 0
  /\ contentLength = 0 /\ contentStart = 0 /\ uriIndex = 0
  /\ status = "Incomplete"
  /\ pc = "idle" /\ i = 0

(* add_bytes up to the call of parse_headers.  While the status is         *)
(* Incomplete every byte read so far is in the buffer, so Len(data) is     *)
(* also the position in the stream.                                        *)
AddBytes(len) ==
  /\ pc = "idle"
  /\ status = "Incomplete"
  /\ Len(data) + len <= Len(wire)
  /\ data' = data \o SubSeq(wire, Len(data) + 1, Len(data) + len)
  /\ i' = parsedTo
  /\ pc' = IF state \in {"parse_content", "p_error"} THEN "finish" ELSE "parse"
  /\ UNCHANGED <<wire, state, parsedTo, scratch, contentLength, contentStart,
                 uriIndex, keys, status>>

(* add_bytes on a parser that is Done or in Error returns at once.         *)
AddBytesIgnored ==
  /\ pc = "idle"
  /\ status # "Incomplete"
  /\ UNCHANGED vars

(* One iteration of the loop: apply the row of the current byte.  The row  *)
(* that enters parse_content also looks up content-length and breaks.      *)
ParseByte(r) ==
  LET c == data[i + 1] IN
  /\ pc = "parse" /\ i < Len(data)
  /\ r.cur = state /\ c \in r.on
  /\ state' = r.next
  /\ data' = IF "NULLIFY" \in r.actions THEN [data EXCEPT ![i + 1] = NUL]
             ELSE IF "LOWER" \in r.actions THEN [data EXCEPT ![i + 1] = ToLower(c)]
             ELSE data
  /\ headerStart' = IF "SET_HEADER_START" \in r.actions THEN i ELSE headerStart
  /\ keyIndex' = IF "SET_KEY" \in r.actions THEN i ELSE keyIndex
  /\ valueIndex' = IF "SET_VALUE" \in r.actions THEN i ELSE valueIndex
  /\ contentStart' = IF "SET_CONTENT_START" \in r.actions THEN i + 1 ELSE contentStart
  /\ keys' = IF "STORE_KEY_VALUE" \in r.actions THEN Append(keys, keyIndex) ELSE keys
  /\ IF r.next = "parse_content"
     THEN /\ contentLength' = IF Holders(ContentLengthKey) = {} THEN contentLength
                              ELSE Atoi(get_value(ContentLengthKey))
          /\ parsedTo' = Len(data)
          /\ pc' = "finish"
          /\ UNCHANGED i
     ELSE /\ i' = i + 1
          /\ UNCHANGED <<contentLength, parsedTo, pc>>
  /\ UNCHANGED <<wire, uriIndex, status>>

(* One iteration for a byte the table has no row for.                      *)
ParseNoRow ==
  /\ pc = "parse" /\ i < Len(data)
  /\ ~ \E r \in Fsm : r.cur = state /\ data[i + 1] \in r.on
  /\ state' = "p_error"
  /\ i' = i + 1
  /\ UNCHANGED <<wire, data, parsedTo, scratch, contentLength, contentStart,
                 uriIndex, keys, status, pc>>

\* Mutants: _parsedTo is one off, or is not advanced at all.
ParseEndBeyond ==
  /\ pc = "parse" /\ i >= Len(data)
  /\ parsedTo' = i + 1
  /\ pc' = "finish"
  /\ UNCHANGED <<wire, data, state, scratch, contentLength, contentStart,
                 uriIndex, keys, status, i>>
ParseEndForgets ==
  /\ pc = "parse" /\ i >= Len(data)
  /\ pc' = "finish"
  /\ UNCHANGED <<wire, data, state, parsedTo, scratch, contentLength,
                 contentStart, uriIndex, keys, status, i>>

(* The loop has reached the end of the buffer.                             *)
ParseEnd ==
  /\ pc = "parse" /\ i >= Len(data)
  /\ parsedTo' = Len(data)
  /\ pc' = "finish"
  /\ UNCHANGED <<wire, data, state, scratch, contentLength, contentStart,
                 uriIndex, keys, status, i>>

\* Mutant: the last byte of the body is waited for twice.
HaveMoreThanBody == contentLength = 0 \/ Len(data) - contentStart > contentLength

(* The rest of add_bytes.                                                  *)
HaveBody == contentLength = 0 \/ Len(data) - contentStart >= contentLength

FinishError ==
  /\ pc = "finish" /\ state = "p_error"
  /\ status' = "Error" /\ pc' = "idle"
  /\ UNCHANGED <<wire, data, state, parsedTo, scratch, contentLength,
                 contentStart, uriIndex, keys, i>>

FinishIncomplete ==
  /\ pc = "finish" /\ state # "p_error"
  /\ state = "parse_content" => ~HaveBody
  /\ pc' = "idle"
  /\ UNCHANGED <<wire, data, state, parsedTo, scratch, contentLength,
                 contentStart, uriIndex, keys, status, i>>

(* parse_requestline: two spaces of the buffer become NULs, or Error.      *)
FinishComplete ==
  /\ pc = "finish" /\ state = "parse_content" /\ HaveBody
  /\ \/ \E p \in LineSplits(data) :
           /\ data' = [data EXCEPT ![p[1] + 1] = NUL, ![p[2] + 1] = NUL]
           /\ uriIndex' = p[1] + 1
           /\ status' = "Done"
     \/ /\ LineSplits(data) = {}
        /\ status' = "Error"
        /\ UNCHANGED <<data, uriIndex>>
  /\ pc' = "idle"
  /\ UNCHANGED <<wire, state, parsedTo, scratch, contentLength, contentStart,
                 keys, i>>

Next ==
  \/ \E len \in 0..Len(wire) : AddBytes(len)
  \/ AddBytesIgnored
  \/ \E r \in Fsm : ParseByte(r)
  \/ ParseNoRow \/ ParseEnd
  \/ FinishError \/ FinishIncomplete \/ FinishComplete

Spec == Init /\ [][Next]_vars

----------------------------------------------------------------------------
(* Properties for every stream.                                            *)

\* Every variable stays in its range; the offsets the code keeps in
\* unsigned variables stay inside the buffer, so that the subtraction
\* _data.length() - _contentStart in add_bytes cannot wrap.
TypeOK ==
  /\ wire \in Seq(Byte)
  /\ data \in Seq(Byte)
  /\ state \in States
  /\ {parsedTo, i, contentStart, headerStart, keyIndex, valueIndex, uriIndex}
       \subseteq 0..Len(data)
  /\ keys \in Seq(0..Len(data))
  /\ status \in {"Incomplete", "Done", "Error"}
  /\ pc \in {"idle", "parse", "finish"}

\* get_value relies on a layout nobody checks: behind a stored key at offset k
\* there is a NUL at some c > k (the colon), the value starts two bytes later
\* and a NUL at e closes it before the next key, or before the bytes not yet
\* parsed.  So neither the key nor the value string of a header runs into
\* another header or off the buffer, however the bytes were cut into chunks.
Delimited(d, stored, bound) ==
  \A k \in DOMAIN stored :
    \E c, e \in 0..(Len(d) - 1) :
      /\ stored[k] < c /\ c + 2 <= e
      /\ e < bound /\ (k < Len(stored) => e < stored[k + 1])
      /\ d[c + 1] = NUL /\ d[e + 1] = NUL
HeadersDelimited == Delimited(data, keys, i)

\* The verdict of add_bytes is final: a caller may keep feeding bytes, but
\* nothing the accessors return changes any more.
VerdictFinal ==
  [][status # "Incomplete" =>
       UNCHANGED <<data, keys, contentStart, contentLength, uriIndex, status>>]_vars

\* The first line of the stream has the two spaces of "method uri version".
LineEnd == {n \in DOMAIN wire : wire[n] = CR}
TwoSpaceLine ==
  \E m, n \in DOMAIN wire :
    /\ m < n /\ wire[m] = SP /\ wire[n] = SP
    /\ \A e \in LineEnd : n < e

\* Splitting the request line searches the whole buffer for spaces.  As long
\* as the line itself has two of them, it never writes into a stored header
\* or into the body: the body is, byte for byte, what the peer sent.
PayloadIntact ==
  status = "Done" /\ TwoSpaceLine =>
    /\ SubSeq(data, contentStart + 1, Len(data))
         = SubSeq(wire, contentStart + 1, Len(data))
    /\ headerStart > 0 =>
         /\ uriIndex < headerStart
         /\ \A n \in Spaces(wire) : headerStart <= n /\ n < Len(data) => data[n + 1] = SP

----------------------------------------------------------------------------
(* The stream read in one go: the same table, no chunks, no buffer edits.  *)
RefInit == [state |-> "parse_request_line", read |-> 0, key |-> 0, keys |-> <<>>, content |-> 0]
RefStep(p, b) ==
  LET rows == {r \in Fsm : r.cur = p.state /\ b \in r.on}
      r == CHOOSE x \in rows : TRUE
  IN IF p.state = "parse_content" THEN p
     ELSE IF rows = {} THEN [p EXCEPT !.state = "p_error", !.read = @ + 1]
     ELSE [state |-> r.next,
           read |-> p.read + 1,
           key |-> IF "SET_KEY" \in r.actions THEN p.read ELSE p.key,
           keys |-> IF "STORE_KEY_VALUE" \in r.actions THEN Append(p.keys, p.key) ELSE p.keys,
           content |-> IF r.next = "parse_content" THEN p.read + 1 ELSE p.content]
RefAt(n) == FoldLeft(RefStep, RefInit, SubSeq(wire, 1, n))
Ref == RefAt(Len(data))
RefComplete == Ref.state = "parse_content" /\ Len(data) - Ref.content >= contentLength

\* What add_bytes has learnt after a number of bytes depends on the bytes and
\* not on the chunks they came in: the state of the machine, the offsets of
\* the keys and of the body are those of a reader of the whole prefix, and,
\* for a request line with its two spaces, so is the verdict.
SegmentationFree ==
  pc = "idle" =>
    /\ <<state, keys, contentStart>> = <<Ref.state, Ref.keys, Ref.content>>
    /\ status = "Error" /\ TwoSpaceLine => Ref.state = "p_error"
    /\ status = "Incomplete" => ~RefComplete /\ Ref.state # "p_error"
    /\ status = "Done" => RefComplete
=============================================================================
