------------------------- MODULE HttpParserProofs -------------------------
(***************************************************************************)
(* Machine-checked proofs about HttpParser and HttpExchange, for every     *)
(* byte alphabet, every stream, every way of cutting it into chunks, every *)
(* well formed request and every query of the builder.  Three invariants   *)
(* carry them, each on top of the one before: IInv (ranges and layout of   *)
(* the buffer), ReadingIInv (the machine is where a reader of the whole    *)
(* stream is) and RequestIInv (what the machine has left of each byte).    *)
(***************************************************************************)
EXTENDS HttpExchange, SequenceTheorems, TLAPS

\* Facts about the fold of the reference reader.
R == INSTANCE SeqFolds WITH Op <- RefStep

LiveStates == {"parse_key_state", "parse_key_colon", "parse_key_colon_seperator",
               "parse_value"}

\* While a header is being read its key lies before the loop index, every
\* stored header is closed before that key, and the NUL over the colon is
\* where the state says it is.
KeyOpen ==
  /\ state \in LiveStates => keyIndex < i /\ Delimited(data, keys, keyIndex)
  /\ state = "parse_key_colon" => keyIndex + 1 < i /\ data[i] = NUL
  /\ state = "parse_key_colon_seperator" => keyIndex + 2 < i /\ data[i - 1] = NUL
  /\ state = "parse_value" =>
       \E c \in 0..(Len(data) - 1) : keyIndex < c /\ c + 3 <= i /\ data[c + 1] = NUL

\* Between two calls the loop index is where the next call resumes; only the
\* row that ends the headers leaves it behind.
Resume ==
  pc # "parse" => i <= parsedTo /\ (state # "parse_content" => i = parsedTo)

\* The inductive invariant.
IInv == TypeOK /\ HeadersDelimited /\ KeyOpen /\ Resume

----------------------------------------------------------------------------
(* What the proofs use of the table, one row at a time.                    *)
LEMMA RowFacts ==
  ASSUME NEW r \in Fsm
  PROVE  /\ r.cur \in States /\ r.next \in States
         /\ r.cur # "parse_content"
         /\ "STORE_KEY_VALUE" \in r.actions =>
              r.cur = "parse_value" /\ r.next = "parse_value_cr"
              /\ "NULLIFY" \in r.actions
         /\ "SET_KEY" \in r.actions => r.next = "parse_key_state"
         /\ r.next = "parse_key_state" =>
              r.cur = "parse_key_state" \/ "SET_KEY" \in r.actions
         /\ r.next = "parse_key_colon" =>
              r.cur = "parse_key_state" /\ "NULLIFY" \in r.actions
         /\ r.next = "parse_key_colon_seperator" => r.cur = "parse_key_colon"
         /\ r.next = "parse_value" =>
              r.cur \in {"parse_key_colon_seperator", "parse_value"}
  BY DEF Fsm, Row, States

----------------------------------------------------------------------------
LEMMA InitInvariant == Init => IInv
  BY BytesAssumption
  DEF Init, IInv, TypeOK, HeadersDelimited, Delimited, KeyOpen, Resume,
      States, LiveStates

\* Appending bytes, or overwriting bytes from the loop index on, leaves every
\* stored header closed.
LEMMA DelimitedKept ==
  ASSUME NEW d \in Seq(Byte), NEW d2 \in Seq(Byte), NEW stored \in Seq(Nat),
         NEW bound \in 0..Len(d), NEW later \in Nat, bound <= later,
         Delimited(d, stored, bound), Len(d) <= Len(d2),
         \A n \in 1..bound : d[n] = NUL => d2[n] = NUL
  PROVE  Delimited(d2, stored, later)
<1> SUFFICES ASSUME NEW k \in DOMAIN stored
             PROVE  \E c, e \in 0..(Len(d2) - 1) :
                      /\ stored[k] < c /\ c + 2 <= e
                      /\ e < later /\ (k < Len(stored) => e < stored[k + 1])
                      /\ d2[c + 1] = NUL /\ d2[e + 1] = NUL
  BY DEF Delimited
<1>1. PICK c \in 0..(Len(d) - 1), e \in 0..(Len(d) - 1) :
        /\ stored[k] < c /\ c + 2 <= e
        /\ e < bound /\ (k < Len(stored) => e < stored[k + 1])
        /\ d[c + 1] = NUL /\ d[e + 1] = NUL
  BY DEF Delimited
<1>2. c \in 0..(Len(d2) - 1) /\ e \in 0..(Len(d2) - 1)
      /\ e < later /\ c + 1 \in 1..bound /\ e + 1 \in 1..bound
  BY <1>1
<1> QED BY <1>1, <1>2

\* Closing a header whose key lies behind the stored ones stores it closed.
LEMMA DelimitedAppend ==
  ASSUME NEW d \in Seq(Byte), NEW stored \in Seq(Nat), NEW key \in Nat,
         NEW at \in 0..(Len(d) - 1), key <= at, Delimited(d, stored, key),
         d[at + 1] = NUL,
         NEW c \in 0..(Len(d) - 1), key < c, c + 2 <= at, d[c + 1] = NUL
  PROVE  Delimited(d, Append(stored, key), at + 1)
<1> DEFINE longer == Append(stored, key)
<1>1. /\ longer \in Seq(Nat) /\ Len(longer) = Len(stored) + 1
      /\ longer[Len(stored) + 1] = key
      /\ \A k \in 1..Len(stored) : longer[k] = stored[k]
      /\ DOMAIN longer = 1..(Len(stored) + 1)
      /\ DOMAIN stored = 1..Len(stored)
  BY AppendProperties
<1> HIDE DEF longer
<1>2. ASSUME NEW k \in 1..(Len(stored) + 1)
      PROVE  \E b, e \in 0..(Len(d) - 1) :
               /\ longer[k] < b /\ b + 2 <= e
               /\ e < at + 1 /\ (k < Len(longer) => e < longer[k + 1])
               /\ d[b + 1] = NUL /\ d[e + 1] = NUL
  <2>1. CASE k = Len(stored) + 1
    <3>1. longer[k] < c /\ c + 2 <= at /\ at < at + 1 /\ ~ k < Len(longer)
      BY <1>1, <2>1
    <3> QED BY <3>1
  <2>2. CASE k \in 1..Len(stored)
    <3>1. PICK b \in 0..(Len(d) - 1), e \in 0..(Len(d) - 1) :
            /\ stored[k] < b /\ b + 2 <= e
            /\ e < key /\ (k < Len(stored) => e < stored[k + 1])
            /\ d[b + 1] = NUL /\ d[e + 1] = NUL
      BY <1>1, <2>2 DEF Delimited
    <3>2. k < Len(longer) => e < longer[k + 1]
      <4>1. CASE k = Len(stored)
        BY <1>1, <3>1, <4>1
      <4>2. CASE k < Len(stored)
        <5>1. k + 1 \in 1..Len(stored)
          BY <2>2, <4>2
        <5>2. longer[k + 1] = stored[k + 1]
          BY <1>1, <5>1
        <5> QED BY <3>1, <4>2, <5>2
      <4> QED BY <2>2, <4>1, <4>2
    <3>3. longer[k] < b /\ e < at + 1
      BY <1>1, <2>2, <3>1
    <3> QED BY <3>1, <3>2, <3>3
  <2> QED BY <2>1, <2>2
<1>3. Delimited(d, longer, at + 1)
  BY <1>1, <1>2 DEF Delimited
<1> QED BY <1>3 DEF longer

LEMMA AddBytesInvariant ==
  ASSUME IInv, NEW len \in 0..Len(wire), AddBytes(len)
  PROVE  IInv'
<1> USE DEF IInv
<1>1. /\ data' \in Seq(Byte) /\ Len(data) <= Len(data')
      /\ \A n \in 1..Len(data) : data'[n] = data[n]
  BY DEF AddBytes, TypeOK
<1>2. i <= i' /\ i' = parsedTo /\ (state # "parse_content" => i' = i)
  BY DEF AddBytes, Resume
<1>3. TypeOK'
  <2> DEFINE short == 0..Len(data)  long == 0..Len(data')
  <2>1. short \subseteq long
    BY <1>1 DEF TypeOK
  <2>2. /\ {parsedTo, contentStart, headerStart, keyIndex, valueIndex, uriIndex} \subseteq short
        /\ keys \in Seq(short)
    BY DEF TypeOK
  <2>3. UNCHANGED <<wire, state, parsedTo, contentStart, headerStart, keyIndex, valueIndex,
                    uriIndex, keys, status>>
    BY DEF AddBytes, scratch
  <2>4. wire' \in Seq(Byte) /\ state' \in States /\ status' \in {"Incomplete", "Done", "Error"}
        /\ pc' \in {"idle", "parse", "finish"}
    BY <2>3 DEF AddBytes, TypeOK
  <2> HIDE DEF short, long
  <2>5. keys' \in Seq(long)
    <3>1. \A s \in Seq(short) : s \in Seq(long)
      BY <2>1
    <3> QED BY <2>2, <2>3, <3>1
  <2>6. {parsedTo', i', contentStart', headerStart', keyIndex', valueIndex', uriIndex'}
          \subseteq long
    BY <1>2, <2>1, <2>2, <2>3
  <2> QED BY <1>1, <2>4, <2>5, <2>6 DEF TypeOK, long
<1>4. UNCHANGED <<state, keyIndex, keys>> /\ i \in 0..Len(data) /\ keyIndex \in 0..Len(data)
      /\ i' \in Nat /\ keys \in Seq(Nat) /\ data \in Seq(Byte)
  BY <1>2 DEF AddBytes, TypeOK, scratch
<1>5. HeadersDelimited'
  <2>1. \A n \in 1..i : data[n] = NUL => data'[n] = NUL
    BY <1>1, <1>4
  <2>2. Delimited(data, keys, i) /\ data' \in Seq(Byte)
    BY <1>1 DEF HeadersDelimited
  <2>3. Delimited(data', keys, i')
    BY <1>1, <1>2, <1>4, <2>1, <2>2, DelimitedKept
  <2> QED BY <1>4, <2>3 DEF HeadersDelimited
<1>6. ASSUME state \in LiveStates PROVE i' = i /\ Delimited(data', keys, keyIndex)
  <2>1. \A n \in 1..keyIndex : data[n] = NUL => data'[n] = NUL
    BY <1>1, <1>4
  <2>2. Delimited(data, keys, keyIndex) /\ data' \in Seq(Byte)
    BY <1>1, <1>6 DEF KeyOpen
  <2>3. i' = i
    BY <1>2, <1>6 DEF LiveStates
  <2> QED BY <1>1, <1>4, <2>1, <2>2, <2>3, DelimitedKept
<1>7. KeyOpen'
  <2>1. CASE state \notin LiveStates
    BY <1>4, <2>1 DEF KeyOpen, LiveStates
  <2>2. CASE state \in LiveStates
    <3>1. i' = i /\ keyIndex < i' /\ Delimited(data', keys', keyIndex')
      BY <1>4, <1>6, <2>2 DEF KeyOpen
    <3>2. \A n \in 1..i : data'[n] = data[n]
      BY <1>1, <1>4
    <3>3. state = "parse_value" =>
            \E c \in 0..(Len(data') - 1) : keyIndex < c /\ c + 3 <= i /\ data'[c + 1] = NUL
      BY <1>1, <1>4, <3>2 DEF KeyOpen
    <3>4. /\ state = "parse_key_colon" => keyIndex + 1 < i /\ data'[i] = NUL
          /\ state = "parse_key_colon_seperator" => keyIndex + 2 < i /\ data'[i - 1] = NUL
      <4>1. CASE state = "parse_key_colon"
        <5>1. keyIndex + 1 < i /\ data[i] = NUL
          BY <4>1 DEF KeyOpen
        <5>2. i \in 1..i
          BY <1>4, <5>1
        <5>3. data'[i] = data[i]
          BY <3>2, <5>2
        <5> QED BY <4>1, <5>1, <5>3
      <4>2. CASE state = "parse_key_colon_seperator"
        <5>1. keyIndex + 2 < i /\ data[i - 1] = NUL
          BY <4>2 DEF KeyOpen
        <5>2. i - 1 \in 1..i
          BY <1>4, <5>1
        <5>3. data'[i - 1] = data[i - 1]
          BY <3>2, <5>2
        <5> QED BY <4>2, <5>1, <5>3
      <4> QED BY <4>1, <4>2
    <3> QED BY <1>4, <3>1, <3>3, <3>4 DEF KeyOpen
  <2> QED BY <2>1, <2>2
<1>8. Resume'
  BY <1>2 DEF AddBytes, Resume, TypeOK, scratch
<1> QED BY <1>3, <1>5, <1>7, <1>8

\* A step that leaves the loop index, the keys and every NUL alone.
LEMMA WriteNulInvariant ==
  ASSUME IInv, UNCHANGED <<state, i, keyIndex, keys>>,
         data' \in Seq(Byte), Len(data') = Len(data),
         \A n \in 1..Len(data) : data[n] = NUL => data'[n] = NUL
  PROVE  HeadersDelimited' /\ KeyOpen'
<1>1. /\ i \in 0..Len(data) /\ keyIndex \in 0..Len(data) /\ i \in Nat /\ keyIndex \in Nat
      /\ i <= i /\ keyIndex <= keyIndex /\ Len(data) <= Len(data')
      /\ keys \in Seq(Nat) /\ data \in Seq(Byte)
  BY DEF IInv, TypeOK
<1>2. HeadersDelimited'
  <2>1. Delimited(data, keys, i) /\ \A n \in 1..i : data[n] = NUL => data'[n] = NUL
    BY <1>1 DEF IInv, HeadersDelimited
  <2>2. Delimited(data', keys, i)
    BY <1>1, <2>1, DelimitedKept
  <2> QED BY <2>2 DEF HeadersDelimited
<1>3. state \in LiveStates => keyIndex < i /\ Delimited(data', keys, keyIndex)
  <2> SUFFICES ASSUME state \in LiveStates
               PROVE  keyIndex < i /\ Delimited(data', keys, keyIndex)
    OBVIOUS
  <2>1. /\ keyIndex < i /\ Delimited(data, keys, keyIndex)
        /\ \A n \in 1..keyIndex : data[n] = NUL => data'[n] = NUL
    BY <1>1 DEF IInv, KeyOpen
  <2> QED BY <1>1, <2>1, DelimitedKept
<1>4. /\ state = "parse_key_colon" => keyIndex + 1 < i /\ data'[i] = NUL
      /\ state = "parse_key_colon_seperator" => keyIndex + 2 < i /\ data'[i - 1] = NUL
  BY <1>1 DEF IInv, KeyOpen
<1>5. state = "parse_value" =>
        \E c \in 0..(Len(data') - 1) : keyIndex < c /\ c + 3 <= i /\ data'[c + 1] = NUL
  <2> SUFFICES ASSUME state = "parse_value"
               PROVE  \E c \in 0..(Len(data') - 1) :
                        keyIndex < c /\ c + 3 <= i /\ data'[c + 1] = NUL
    OBVIOUS
  <2>1. PICK c \in 0..(Len(data) - 1) : keyIndex < c /\ c + 3 <= i /\ data[c + 1] = NUL
    BY DEF IInv, KeyOpen
  <2>2. c \in 0..(Len(data') - 1) /\ data'[c + 1] = NUL
    BY <2>1
  <2> QED BY <2>1, <2>2
<1> QED BY <1>2, <1>3, <1>4, <1>5 DEF KeyOpen

LEMMA ParseByteInvariant ==
  ASSUME IInv, NEW r \in Fsm, ParseByte(r)
  PROVE  IInv'
<1>1. /\ r.cur = state /\ state' = r.next /\ pc = "parse"
      /\ keyIndex' = (IF "SET_KEY" \in r.actions THEN i ELSE keyIndex)
      /\ keys' = (IF "STORE_KEY_VALUE" \in r.actions THEN Append(keys, keyIndex) ELSE keys)
  BY DEF ParseByte
<1>2. /\ i \in 0..(Len(data) - 1) /\ i \in Nat /\ keyIndex \in Nat
      /\ i \in 0..Len(data) /\ i <= i /\ keyIndex <= keyIndex
      /\ data \in Seq(Byte) /\ data' \in Seq(Byte)
      /\ Len(data') = Len(data) /\ Len(data) <= Len(data')
      /\ keys \in Seq(Nat) /\ keyIndex \in 0..Len(data)
      /\ \A n \in 1..Len(data) : n # i + 1 => data'[n] = data[n]
      /\ "NULLIFY" \in r.actions => data'[i + 1] = NUL
  <2>1. /\ i \in 0..(Len(data) - 1) /\ i \in 0..Len(data) /\ keyIndex \in 0..Len(data)
        /\ data \in Seq(Byte) /\ keys \in Seq(Nat) /\ data[i + 1] \in Byte
    <3>1. /\ data \in Seq(Byte) /\ i \in 0..Len(data) /\ keyIndex \in 0..Len(data) /\ i < Len(data)
      BY DEF IInv, ParseByte, TypeOK
    <3>2. keys \in Seq(Nat)
      BY DEF IInv, TypeOK
    <3>3. i \in 0..(Len(data) - 1) /\ data[i + 1] \in Byte
      BY <3>1
    <3> QED BY <3>1, <3>2, <3>3
  <2>2. PICK b \in Byte : data' = [data EXCEPT ![i + 1] = b]
                          /\ ("NULLIFY" \in r.actions => b = NUL)
    <3>1. data = [data EXCEPT ![i + 1] = data[i + 1]]
      BY <2>1
    <3> QED BY <2>1, <3>1, BytesAssumption DEF ParseByte
  <2> QED BY <2>1, <2>2
<1>3. \A n \in 1..i : data'[n] = data[n]
  BY <1>2
<1>4. i' \in {i, i + 1} /\ (r.next # "parse_content" => i' = i + 1)
  BY DEF ParseByte
<1>5. TypeOK'
  <2>1. state' \in States /\ pc' \in {"idle", "parse", "finish"}
    BY <1>1, RowFacts DEF IInv, ParseByte, TypeOK
  <2>2. i' \in 0..Len(data') /\ parsedTo' \in 0..Len(data') /\ keyIndex' \in 0..Len(data')
    BY <1>1, <1>2, <1>4 DEF IInv, ParseByte, TypeOK
  <2>3. /\ contentStart' \in 0..Len(data') /\ headerStart' \in 0..Len(data')
        /\ valueIndex' \in 0..Len(data') /\ uriIndex' \in 0..Len(data')
    BY <1>2 DEF IInv, ParseByte, TypeOK
  <2>4. keys' \in Seq(0..Len(data'))
    BY <1>1, <1>2, AppendProperties DEF IInv, TypeOK
  <2> QED BY <1>2, <2>1, <2>2, <2>3, <2>4 DEF IInv, ParseByte, TypeOK
<1>6. Delimited(data', keys, i) /\ (state \in LiveStates => Delimited(data', keys, keyIndex))
  <2>1. Delimited(data, keys, i)
    BY DEF IInv, HeadersDelimited
  <2>2. state \in LiveStates => keyIndex < i /\ Delimited(data, keys, keyIndex)
    BY DEF IInv, KeyOpen
  <2>3. Delimited(data', keys, i)
    BY <1>2, <1>3, <2>1, DelimitedKept
  <2>4. ASSUME state \in LiveStates PROVE Delimited(data', keys, keyIndex)
    <3>1. \A n \in 1..keyIndex : data[n] = NUL => data'[n] = NUL
      BY <1>2, <1>3, <2>2, <2>4
    <3> QED BY <1>2, <2>2, <2>4, <3>1, DelimitedKept
  <2> QED BY <2>3, <2>4
<1>7. Delimited(data', keys', i')
  <2>1. CASE "STORE_KEY_VALUE" \in r.actions
    <3>1. /\ state = "parse_value" /\ i' = i + 1 /\ keys' = Append(keys, keyIndex)
          /\ data'[i + 1] = NUL
      BY <1>1, <1>2, <1>4, <2>1, RowFacts
    <3>2. PICK c \in 0..(Len(data) - 1) : keyIndex < c /\ c + 3 <= i /\ data[c + 1] = NUL
      BY <3>1 DEF IInv, KeyOpen
    <3>3. /\ c \in 0..(Len(data') - 1) /\ data'[c + 1] = NUL /\ c + 2 <= i
          /\ keyIndex <= i /\ i \in 0..(Len(data') - 1)
          /\ Delimited(data', keys, keyIndex)
      <4>1. c + 1 \in 1..i /\ keyIndex <= i /\ c + 2 <= i
        BY <1>2, <3>2
      <4>2. data'[c + 1] = NUL
        BY <1>3, <3>2, <4>1
      <4> QED BY <1>2, <1>6, <3>1, <4>1, <4>2 DEF LiveStates
    <3> QED BY <1>2, <3>1, <3>2, <3>3, DelimitedAppend
  <2>2. CASE "STORE_KEY_VALUE" \notin r.actions
    <3>1. keys' = keys /\ i' \in Nat /\ i <= i' /\ i \in 0..Len(data')
      BY <1>1, <1>2, <1>4, <2>2
    <3> QED BY <1>2, <1>6, <3>1, DelimitedKept
  <2> QED BY <2>1, <2>2
<1>8. KeyOpen'
  <2>1. CASE r.next \notin LiveStates
    BY <1>1, <2>1 DEF KeyOpen, LiveStates
  <2>2. CASE r.next = "parse_key_state"
    <3>1. i' = i + 1 /\ "STORE_KEY_VALUE" \notin r.actions /\ keys' = keys
      BY <1>1, <1>4, <2>2, RowFacts
    <3>2. CASE "SET_KEY" \in r.actions
      BY <1>1, <1>2, <1>6, <2>2, <3>1, <3>2 DEF KeyOpen, LiveStates
    <3>3. CASE "SET_KEY" \notin r.actions
      <4>1. r.cur = "parse_key_state" /\ keyIndex' = keyIndex
        BY <1>1, <2>2, <3>3, RowFacts
      <4>2. keyIndex < i /\ Delimited(data', keys, keyIndex)
        BY <1>1, <1>6, <4>1 DEF IInv, KeyOpen, LiveStates
      <4> QED BY <1>1, <1>2, <2>2, <3>1, <4>1, <4>2 DEF KeyOpen, LiveStates
    <3> QED BY <3>2, <3>3
  <2>3. CASE r.next \in LiveStates \ {"parse_key_state"}
    <3>1. /\ i' = i + 1 /\ keys' = keys /\ keyIndex' = keyIndex /\ state \in LiveStates
          /\ keyIndex < i /\ Delimited(data', keys, keyIndex)
      BY <1>1, <1>4, <1>6, <2>3, RowFacts DEF IInv, KeyOpen, LiveStates
    <3>2. state' = "parse_key_colon" => data'[i + 1] = NUL
      BY <1>1, <1>2, RowFacts
    <3>3. state' = "parse_key_colon_seperator" => keyIndex + 1 < i /\ data'[i] = NUL
      <4>1. state' = "parse_key_colon_seperator" => state = "parse_key_colon"
        BY <1>1, RowFacts
      <4>2. ASSUME state = "parse_key_colon"
            PROVE  i \in 1..i /\ keyIndex + 1 < i /\ data[i] = NUL
        <5>1. keyIndex + 1 < i /\ data[i] = NUL
          BY <4>2 DEF IInv, KeyOpen
        <5> QED BY <1>2, <5>1
      <4> QED BY <1>3, <4>1, <4>2
    <3>4. ASSUME state' = "parse_value"
          PROVE  \E c \in 0..(Len(data') - 1) :
                   keyIndex < c /\ c + 3 <= i + 1 /\ data'[c + 1] = NUL
      <4>1. CASE state = "parse_value"
        <5>1. PICK c \in 0..(Len(data) - 1) : keyIndex < c /\ c + 3 <= i /\ data[c + 1] = NUL
          BY <4>1 DEF IInv, KeyOpen
        <5>2. c + 1 \in 1..i /\ c \in 0..(Len(data') - 1) /\ c + 3 <= i + 1
          BY <1>2, <5>1
        <5>3. data'[c + 1] = NUL
          BY <1>3, <5>1, <5>2
        <5> QED BY <5>1, <5>2, <5>3
      <4>2. CASE state = "parse_key_colon_seperator"
        <5>1. keyIndex + 2 < i /\ data'[i - 1] = NUL
          BY <1>2, <1>3, <4>2 DEF IInv, KeyOpen
        <5>2. PICK c \in Nat : c = i - 2 /\ c + 1 = i - 1
          BY <1>2, <5>1
        <5>3. c \in 0..(Len(data') - 1) /\ keyIndex < c /\ c + 3 <= i + 1
          BY <1>2, <5>1, <5>2
        <5>4. data'[c + 1] = NUL
          BY <5>1, <5>2
        <5> QED BY <5>3, <5>4
      <4> QED BY <1>1, <3>4, <4>1, <4>2, RowFacts
    <3>5. Delimited(data', keys', keyIndex') /\ keyIndex' < i' /\ i' = i + 1 /\ i \in Nat
      BY <1>2, <3>1
    <3>6. state' = r.next /\ r.next # "parse_key_state"
      BY <1>1, <2>3
    <3>7. /\ state' = "parse_key_colon" => keyIndex' + 1 < i' /\ data'[i'] = NUL
          /\ state' = "parse_key_colon_seperator" => keyIndex' + 2 < i' /\ data'[i' - 1] = NUL
      BY <1>2, <3>1, <3>2, <3>3
    <3>8. state' = "parse_value" =>
            \E c \in 0..(Len(data') - 1) : keyIndex' < c /\ c + 3 <= i' /\ data'[c + 1] = NUL
      BY <3>1, <3>4
    <3> QED BY <3>5, <3>7, <3>8 DEF KeyOpen
  <2> QED BY <2>1, <2>2, <2>3
<1>9. Resume'
  BY <1>1, <1>2, <1>4 DEF ParseByte, Resume
<1> QED BY <1>5, <1>7, <1>8, <1>9 DEF IInv, HeadersDelimited

LEMMA ParseNoRowInvariant ==
  ASSUME IInv, ParseNoRow
  PROVE  IInv'
<1>1. /\ i \in 0..Len(data) /\ i \in Nat /\ i' = i + 1 /\ i' \in 0..Len(data)
      /\ data' = data /\ keys' = keys /\ data \in Seq(Byte) /\ keys \in Seq(Nat)
      /\ state' = "p_error" /\ pc = "parse" /\ pc' = pc
  BY DEF IInv, TypeOK, ParseNoRow
<1>2. TypeOK'
  BY <1>1 DEF IInv, TypeOK, ParseNoRow, States, scratch
<1>3. HeadersDelimited'
  <2>1. Delimited(data, keys, i) /\ i' \in Nat /\ i <= i' /\ Len(data) <= Len(data)
    BY <1>1 DEF IInv, HeadersDelimited
  <2>2. Delimited(data, keys, i')
    BY <1>1, <2>1, DelimitedKept
  <2> QED BY <1>1, <2>2 DEF HeadersDelimited
<1> QED BY <1>1, <1>2, <1>3 DEF IInv, KeyOpen, Resume, LiveStates

LEMMA ParseEndInvariant ==
  ASSUME IInv, ParseEnd
  PROVE  IInv'
<1>1. /\ i = Len(data) /\ parsedTo' = Len(data) /\ pc' = "finish"
      /\ UNCHANGED <<state, i, data, keys, keyIndex>>
  BY DEF IInv, TypeOK, ParseEnd, scratch
<1>2. TypeOK'
  BY <1>1 DEF IInv, TypeOK, ParseEnd, scratch
<1>3. HeadersDelimited' /\ KeyOpen'
  BY <1>1 DEF IInv, HeadersDelimited, KeyOpen
<1> QED BY <1>1, <1>2, <1>3 DEF IInv, TypeOK, Resume

LEMMA FinishInvariant ==
  ASSUME IInv, FinishError \/ FinishIncomplete \/ FinishComplete
  PROVE  IInv'
<1>1. /\ UNCHANGED <<wire, state, parsedTo, contentStart, headerStart, keyIndex,
                     valueIndex, keys, i>>
      /\ status' \in {"Incomplete", "Done", "Error"} /\ pc' = "idle" /\ pc = "finish"
  BY DEF IInv, TypeOK, FinishError, FinishIncomplete, FinishComplete, scratch
<1> DEFINE OnlyNuls ==
      /\ data' \in Seq(Byte) /\ Len(data') = Len(data)
      /\ \A n \in 1..Len(data) : data[n] = NUL => data'[n] = NUL
      /\ uriIndex' \in 0..Len(data)
<1>2. OnlyNuls
  <2>1. CASE FinishError \/ FinishIncomplete
    BY <2>1 DEF IInv, TypeOK, FinishError, FinishIncomplete
  <2>2. ASSUME NEW p \in LineSplits(data),
               data' = [data EXCEPT ![p[1] + 1] = NUL, ![p[2] + 1] = NUL],
               uriIndex' = p[1] + 1
        PROVE  OnlyNuls
    <3>1. p[1] \in 0..(Len(data) - 1) /\ p[2] \in 0..(Len(data) - 1) /\ data \in Seq(Byte)
      BY <2>2 DEF LineSplits, Spaces, IInv, TypeOK
    <3> QED BY <2>2, <3>1, BytesAssumption
  <2>3. CASE FinishComplete
    BY <2>2, <2>3 DEF FinishComplete, IInv, TypeOK
  <2> QED BY <1>1, <2>1, <2>3
<1>3. TypeOK'
  BY <1>1, <1>2 DEF IInv, TypeOK
<1>4. HeadersDelimited' /\ KeyOpen'
  BY <1>1, <1>2, WriteNulInvariant
<1> QED BY <1>1, <1>3, <1>4 DEF IInv, Resume

LEMMA NextInvariant == IInv /\ [Next]_vars => IInv'
<1> SUFFICES ASSUME IInv, [Next]_vars PROVE IInv'
  OBVIOUS
<1>1. CASE UNCHANGED vars
  BY <1>1 DEF IInv, TypeOK, HeadersDelimited, KeyOpen, Resume, vars, scratch
<1>2. ASSUME NEW len \in 0..Len(wire), AddBytes(len) PROVE IInv'
  BY <1>2, AddBytesInvariant
<1>3. CASE AddBytesIgnored
  BY <1>1, <1>3 DEF AddBytesIgnored
<1>4. ASSUME NEW r \in Fsm, ParseByte(r) PROVE IInv'
  BY <1>4, ParseByteInvariant
<1>5. CASE ParseNoRow
  BY <1>5, ParseNoRowInvariant
<1>6. CASE ParseEnd
  BY <1>6, ParseEndInvariant
<1>7. CASE FinishError \/ FinishIncomplete \/ FinishComplete
  BY <1>7, FinishInvariant
<1> QED BY <1>1, <1>2, <1>3, <1>4, <1>5, <1>6, <1>7 DEF Next

----------------------------------------------------------------------------
LEMMA Invariance == Spec => []IInv
  BY InitInvariant, NextInvariant, PTL DEF Spec

\* Every offset safe_http_parser keeps stays inside its buffer, so the unsigned
\* subtraction of _contentStart in add_bytes cannot wrap around.
THEOREM TypeCorrect == Spec => []TypeOK
<1>1. IInv => TypeOK
  BY DEF IInv
<1> QED BY <1>1, Invariance, PTL

\* What get_value reads behind a stored key is closed by a NUL before the next
\* header, for every stream and every way it is cut into add_bytes calls.
THEOREM HeadersStayDelimited == Spec => []HeadersDelimited
<1>1. IInv => HeadersDelimited
  BY DEF IInv
<1> QED BY <1>1, Invariance, PTL

\* A parser with a verdict is between two calls of add_bytes.
VerdictIdle == status # "Incomplete" => pc = "idle"

LEMMA VerdictIdleInvariance == Spec => []VerdictIdle
<1>1. Init => VerdictIdle
  BY DEF Init, VerdictIdle
<1>2. VerdictIdle /\ [Next]_vars => VerdictIdle'
  BY DEF VerdictIdle, Next, vars, AddBytes, AddBytesIgnored, ParseByte, ParseNoRow,
         ParseEnd, FinishError, FinishIncomplete, FinishComplete
<1> QED BY <1>1, <1>2, PTL DEF Spec

\* Once add_bytes has answered Done or Error, nothing the accessors of the
\* parser return changes again, however often it is called.
THEOREM VerdictIsFinal == Spec => VerdictFinal
<1> DEFINE Answer == <<data, keys, contentStart, contentLength, uriIndex, status>>
<1>1. VerdictIdle /\ [Next]_vars => [status # "Incomplete" => UNCHANGED Answer]_vars
  BY DEF VerdictIdle, Next, vars, AddBytes, AddBytesIgnored, ParseByte, ParseNoRow,
         ParseEnd, FinishError, FinishIncomplete, FinishComplete
<1> QED BY <1>1, VerdictIdleInvariance, PTL DEF Spec, VerdictFinal

----------------------------------------------------------------------------
(* What the buffer still has of the stream.                                *)

\* The offset behind the bytes the machine has looked at.
Unread == IF state = "parse_content" THEN contentStart ELSE i

\* Until the request line is split the machine has touched no space, and no
\* byte that it has not looked at.
SpacesKept ==
  /\ Len(data) <= Len(wire)
  /\ \A n \in 1..Len(data) : data[n] = SP <=> wire[n] = SP
  /\ \A n \in 1..Len(data) : n > Unread => data[n] = wire[n]

\* The machine leaves the request line, and sees a first header, only behind
\* the end of the line.
LineRead ==
  /\ state \notin {"parse_request_line", "p_error"} => \E e \in LineEnd : e <= Unread
  /\ headerStart > 0 => \E e \in LineEnd : e <= headerStart

Faithful == status # "Done" => SpacesKept /\ LineRead

\* The loop never runs over the body.
Parsing == pc = "parse" => state # "parse_content"

LEMMA RowBytes ==
  ASSUME NEW r \in Fsm
  PROVE  /\ "NULLIFY" \in r.actions => r.on \subseteq {CR, COLON}
         /\ "SET_HEADER_START" \in r.actions => r.cur = "parse_request_line_crlf"
         /\ "SET_CONTENT_START" \in r.actions <=> r.next = "parse_content"
         /\ r.cur = "parse_request_line" /\ r.next # "parse_request_line" => r.on = {CR}
         /\ r.next = "parse_request_line" => r.cur = "parse_request_line"
         /\ r.cur = "p_error" <=> r.next = "p_error"
  BY DEF Fsm, Row

LEMMA AddBytesFaithful ==
  ASSUME IInv, Faithful, NEW len \in 0..Len(wire), AddBytes(len)
  PROVE  Faithful'
<1>1. /\ status = "Incomplete" /\ SpacesKept /\ LineRead /\ Unread' = Unread
      /\ wire' = wire /\ state' = state /\ headerStart' = headerStart
  BY DEF AddBytes, IInv, Resume, Unread, Faithful, scratch
<1>2. /\ data \in Seq(Byte) /\ wire \in Seq(Byte) /\ Len(data) + len <= Len(wire)
      /\ data' = data \o SubSeq(wire, Len(data) + 1, Len(data) + len)
  BY DEF AddBytes, IInv, TypeOK
<1>3. /\ Len(data') = Len(data) + len
      /\ \A n \in 1..Len(data) : data'[n] = data[n]
      /\ \A n \in 1..Len(data') : n > Len(data) => data'[n] = wire[n]
  BY <1>2
<1>4. SpacesKept'
  <2>1. Len(data') <= Len(wire')
    BY <1>1, <1>2, <1>3
  <2>2. ASSUME NEW n \in 1..Len(data')
        PROVE  (data'[n] = SP <=> wire'[n] = SP) /\ (n > Unread => data'[n] = wire[n])
    <3>1. CASE n > Len(data)
      BY <1>1, <1>3, <3>1
    <3>2. CASE ~ n > Len(data)
      <4>1. n \in 1..Len(data)
        BY <1>2, <3>2
      <4> QED BY <1>1, <1>3, <4>1 DEF SpacesKept
    <3> QED BY <3>1, <3>2
  <2> QED BY <1>1, <2>1, <2>2 DEF SpacesKept
<1>5. LineRead'
  BY <1>1 DEF LineRead, LineEnd
<1> QED BY <1>4, <1>5 DEF Faithful

LEMMA ParseByteFaithful ==
  ASSUME IInv, VerdictIdle, Faithful, NEW r \in Fsm, ParseByte(r)
  PROVE  Faithful' /\ data[i + 1] = wire[i + 1] /\ i + 1 \in 1..Len(wire)
         /\ Unread = i /\ Unread' = i + 1
<1>1. status = "Incomplete" /\ SpacesKept /\ LineRead /\ wire' = wire /\ state # "parse_content"
  BY RowFacts DEF ParseByte, VerdictIdle, Faithful
<1>2. /\ i \in 0..(Len(data) - 1) /\ data \in Seq(Byte) /\ wire \in Seq(Byte)
      /\ data[i + 1] \in r.on /\ data[i + 1] \in Byte /\ r.cur = state /\ state' = r.next
      /\ headerStart \in Nat
  BY DEF IInv, TypeOK, ParseByte
<1>3. Unread = i /\ Unread' = i + 1
  BY <1>1, <1>2, RowBytes DEF Unread, ParseByte
<1>4. data[i + 1] = wire[i + 1] /\ i + 1 \in 1..Len(data) /\ i + 1 \in 1..Len(wire)
  BY <1>1, <1>2, <1>3 DEF SpacesKept
<1>5. PICK b \in Byte : data' = [data EXCEPT ![i + 1] = b] /\ (b = SP <=> data[i + 1] = SP)
  <2>1. data = [data EXCEPT ![i + 1] = data[i + 1]]
    BY <1>2
  <2>2. CASE "NULLIFY" \in r.actions
    <3>1. data[i + 1] # SP
      BY <1>2, <2>2, RowBytes, BytesAssumption
    <3> QED BY <2>2, <3>1, BytesAssumption DEF ParseByte
  <2>3. CASE "NULLIFY" \notin r.actions
    BY <1>2, <2>1, <2>3, BytesAssumption DEF ParseByte
  <2> QED BY <2>2, <2>3
<1>6. /\ Len(data') = Len(data) /\ data'[i + 1] = b
      /\ \A n \in 1..Len(data) : n # i + 1 => data'[n] = data[n]
  BY <1>2, <1>4, <1>5
<1>7. SpacesKept'
  <2>1. ASSUME NEW n \in 1..Len(data)
        PROVE  (data'[n] = SP <=> wire[n] = SP) /\ (n > i + 1 => data'[n] = wire[n])
    BY <1>1, <1>2, <1>3, <1>4, <1>5, <1>6, <2>1 DEF SpacesKept
  <2> QED BY <1>1, <1>3, <1>6, <2>1 DEF SpacesKept
<1>8. LineRead'
  <2>1. LineEnd' = LineEnd /\ LineEnd \subseteq Nat
    BY <1>1, <1>2 DEF LineEnd
  <2>2. state' \notin {"parse_request_line", "p_error"} => \E e \in LineEnd : e <= i + 1
    <3>1. CASE state = "parse_request_line" /\ state' # "parse_request_line"
      <4>1. wire[i + 1] = CR
        BY <1>2, <1>4, <3>1, RowBytes
      <4>2. i + 1 \in LineEnd
        BY <1>2, <1>4, <4>1 DEF LineEnd
      <4> QED BY <1>2, <4>2
    <3>2. CASE state \notin {"parse_request_line", "p_error"}
      <4>1. PICK e \in LineEnd : e <= i
        BY <1>1, <1>3, <3>2 DEF LineRead
      <4>2. e <= i + 1
        BY <1>2, <2>1, <4>1
      <4> QED BY <4>2
    <3>3. CASE state' = "parse_request_line" \/ state = "p_error"
      BY <1>2, <3>3, RowBytes
    <3> QED BY <3>1, <3>2, <3>3
  <2>3. headerStart' > 0 => \E e \in LineEnd : e <= headerStart'
    <3>1. CASE "SET_HEADER_START" \in r.actions
      <4>1. state = "parse_request_line_crlf" /\ headerStart' = i
        BY <1>2, <3>1, RowBytes DEF ParseByte
      <4> QED BY <1>1, <1>3, <4>1 DEF LineRead
    <3>2. CASE "SET_HEADER_START" \notin r.actions
      BY <1>1, <3>2 DEF LineRead, ParseByte
    <3> QED BY <3>1, <3>2
  <2> QED BY <1>3, <2>1, <2>2, <2>3 DEF LineRead
<1> QED BY <1>3, <1>4, <1>7, <1>8 DEF Faithful

LEMMA ParseNoRowFaithful ==
  ASSUME IInv, Parsing, Faithful, ParseNoRow
  PROVE  Faithful'
<1>1. /\ UNCHANGED <<wire, data, headerStart, status>> /\ i' = i + 1 /\ i \in Nat
      /\ Unread = i /\ Unread' = i + 1 /\ state' = "p_error"
  BY DEF IInv, TypeOK, Parsing, ParseNoRow, Unread, scratch
<1>2. ASSUME SpacesKept PROVE SpacesKept'
  <2>1. \A n \in 1..Len(data) : n > i + 1 => n > i
    BY <1>1
  <2> QED BY <1>1, <1>2, <2>1 DEF SpacesKept
<1>3. ASSUME LineRead PROVE LineRead'
  BY <1>1, <1>3 DEF LineRead, LineEnd
<1> QED BY <1>1, <1>2, <1>3 DEF Faithful

\* With two spaces in the line, the line is split before its end.
LEMMA SplitInLine ==
  ASSUME IInv, SpacesKept, TwoSpaceLine, NEW e \in LineEnd, e <= Len(data)
  PROVE  /\ LineSplits(data) # {}
         /\ \A p \in LineSplits(data) : p[1] \in Nat /\ p[2] \in Nat /\ p[1] < p[2] /\ p[2] + 1 < e
<1>1. PICK m \in DOMAIN wire, n \in DOMAIN wire :
        m < n /\ wire[m] = SP /\ wire[n] = SP /\ \A f \in LineEnd : n < f
  BY DEF TwoSpaceLine
<1>2. /\ data \in Seq(Byte) /\ wire \in Seq(Byte) /\ m \in Nat /\ n \in Nat /\ e \in Nat
      /\ m >= 1 /\ n < e
  BY <1>1 DEF IInv, TypeOK, LineEnd
<1>3. m \in 1..Len(data) /\ n \in 1..Len(data) /\ data[m] = SP /\ data[n] = SP
  BY <1>1, <1>2 DEF SpacesKept
<1>4. m - 1 \in Spaces(data) /\ n - 1 \in Spaces(data) /\ Spaces(data) \subseteq Nat
  BY <1>2, <1>3 DEF Spaces
<1>5. ASSUME NEW p \in LineSplits(data)
      PROVE  p[1] \in Nat /\ p[2] \in Nat /\ p[1] < p[2] /\ p[2] + 1 < e
  <2>1. /\ p[1] \in Nat /\ p[2] \in Nat /\ p[1] < p[2]
        /\ \A k \in Spaces(data) : k = p[1] \/ p[2] <= k
    BY <1>4 DEF LineSplits
  <2>2. p[2] <= n - 1
    BY <1>1, <1>2, <1>4, <2>1
  <2> QED BY <1>2, <2>1, <2>2
<1>6. LineSplits(data) # {}
  <2>1. PICK first \in Spaces(data) : \A k \in Spaces(data) : first <= k
    BY <1>4, R!Least
  <2> DEFINE rest == Spaces(data) \ {first}
  <2>2. rest \in SUBSET Nat /\ rest # {}
    BY <1>1, <1>2, <1>4
  <2>3. PICK second \in rest : \A k \in rest : second <= k
    BY <2>2, R!Least
  <2>4. first < second
    BY <1>4, <2>1, <2>3
  <2>5. <<first, second>> \in LineSplits(data)
    BY <2>1, <2>3, <2>4 DEF LineSplits
  <2> QED BY <2>5
<1> QED BY <1>5, <1>6

LEMMA TwoNuls ==
  ASSUME NEW s \in Seq(Byte), NEW a \in 1..Len(s), NEW b \in 1..Len(s), NEW t,
         t = [s EXCEPT ![a] = NUL, ![b] = NUL]
  PROVE  /\ t \in Seq(Byte) /\ Len(t) = Len(s)
         /\ \A n \in 1..Len(s) : n # a /\ n # b => t[n] = s[n]
<1>1. NUL \in Byte
  BY BytesAssumption
<1> DEFINE r == [s EXCEPT ![a] = NUL]
<1>2. r \in Seq(Byte) /\ Len(r) = Len(s) /\ \A n \in 1..Len(s) : n # a => r[n] = s[n]
  BY <1>1, ExceptSeq
<1>3. t = [r EXCEPT ![b] = NUL]
  OBVIOUS
<1> HIDE DEF r
<1>4. b \in 1..Len(r)
  BY <1>2
<1>5. /\ [r EXCEPT ![b] = NUL] \in Seq(Byte) /\ Len([r EXCEPT ![b] = NUL]) = Len(r)
      /\ \A n \in 1..Len(r) : [r EXCEPT ![b] = NUL][n] = IF n = b THEN NUL ELSE r[n]
  BY <1>1, <1>2, <1>4, ExceptSeq
<1>6. t \in Seq(Byte) /\ Len(t) = Len(s) /\ \A n \in 1..Len(s) : n # b => t[n] = r[n]
  BY <1>2, <1>3, <1>5
<1> QED BY <1>2, <1>6

LEMMA FinishFaithful ==
  ASSUME IInv, VerdictIdle, Faithful, FinishError \/ FinishIncomplete \/ FinishComplete
  PROVE  Faithful' /\ PayloadIntact'
<1>1. /\ UNCHANGED <<wire, state, contentStart, headerStart, i>>
      /\ Unread' = Unread /\ LineEnd' = LineEnd /\ (TwoSpaceLine' <=> TwoSpaceLine)
  BY DEF FinishError, FinishIncomplete, FinishComplete, scratch, Unread, LineEnd, TwoSpaceLine
<1>2. status = "Incomplete" /\ SpacesKept /\ LineRead
  BY DEF VerdictIdle, Faithful, FinishError, FinishIncomplete, FinishComplete
<1>3. CASE data' = data /\ status' # "Done"
  BY <1>1, <1>2, <1>3 DEF Faithful, SpacesKept, LineRead, PayloadIntact
<1>4. ASSUME state = "parse_content", NEW p \in LineSplits(data),
             data' = [data EXCEPT ![p[1] + 1] = NUL, ![p[2] + 1] = NUL],
             uriIndex' = p[1] + 1, TwoSpaceLine
      PROVE  /\ SubSeq(data', contentStart + 1, Len(data'))
                  = SubSeq(wire, contentStart + 1, Len(data'))
             /\ headerStart > 0 =>
                  /\ uriIndex' < headerStart
                  /\ \A n \in Spaces(wire) : headerStart <= n /\ n < Len(data') => data'[n + 1] = SP
  <2>1. /\ data \in Seq(Byte) /\ wire \in Seq(Byte) /\ contentStart \in 0..Len(data)
        /\ headerStart \in 0..Len(data) /\ Len(data) <= Len(wire) /\ LineEnd \subseteq Nat
        /\ Unread = contentStart
    BY <1>2, <1>4 DEF IInv, TypeOK, SpacesKept, LineEnd, Unread
  <2>2. PICK e \in LineEnd : e <= contentStart
    BY <1>2, <1>4, <2>1 DEF LineRead
  <2>3. e <= Len(data)
    BY <2>1, <2>2
  <2>4. p[1] \in Nat /\ p[2] \in Nat /\ p[1] < p[2] /\ p[2] + 1 < e
    BY <1>2, <1>4, <2>3, SplitInLine
  <2>5. /\ data' \in Seq(Byte) /\ Len(data') = Len(data)
        /\ \A n \in 1..Len(data) : n > p[2] + 1 => data'[n] = data[n]
    <3> DEFINE a == p[1] + 1  b == p[2] + 1
    <3>1. a \in Nat /\ b \in Nat /\ a >= 1 /\ a < b /\ b < e /\ e \in Nat
      <4>1. e \in Nat
        BY <2>1, <2>2
      <4>2. \A x, y \in Nat : x < y /\ y + 1 < e =>
              x + 1 \in Nat /\ y + 1 \in Nat /\ x + 1 >= 1 /\ x + 1 < y + 1
        OBVIOUS
      <4> QED BY <2>4, <4>1, <4>2
    <3>2. data' = [data EXCEPT ![a] = NUL, ![b] = NUL] /\ data \in Seq(Byte)
      BY <1>4, <2>1
    <3> HIDE DEF a, b
    <3>3. Len(data) \in Nat
      BY <3>2, LenProperties
    <3>4. a \in 1..Len(data) /\ b \in 1..Len(data)
      BY <2>3, <3>1, <3>3
    <3>5. /\ data' \in Seq(Byte) /\ Len(data') = Len(data)
          /\ \A n \in 1..Len(data) : n # a /\ n # b => data'[n] = data[n]
      BY <3>2, <3>4, TwoNuls
    <3>6. \A n \in 1..Len(data) : n > b => n # a /\ n # b
      BY <3>1, <3>3
    <3> QED BY <3>5, <3>6 DEF b
  <2>6. \A n \in 1..Len(data) : n > contentStart => data'[n] = wire[n]
    BY <1>2, <2>1, <2>2, <2>4, <2>5 DEF SpacesKept
  <2>7. SubSeq(data', contentStart + 1, Len(data)) = SubSeq(wire, contentStart + 1, Len(data))
    BY <2>1, <2>5, <2>6
  <2>8. ASSUME headerStart > 0
        PROVE  /\ uriIndex' < headerStart
               /\ \A n \in Spaces(wire) : headerStart <= n /\ n < Len(data) => data'[n + 1] = SP
    <3>1. PICK f \in LineEnd : f <= headerStart
      BY <1>2, <2>8 DEF LineRead
    <3>2. f <= Len(data)
      BY <2>1, <3>1
    <3>3. p[2] + 1 < f
      BY <1>2, <1>4, <3>2, SplitInLine
    <3>4. uriIndex' < headerStart
      BY <1>4, <2>1, <2>4, <3>1, <3>3
    <3>5. ASSUME NEW n \in Spaces(wire), headerStart <= n, n < Len(data)
          PROVE  data'[n + 1] = SP
      <4>1. n \in Nat /\ wire[n + 1] = SP /\ n + 1 \in 1..Len(data)
        BY <2>1, <3>5 DEF Spaces
      <4>2. data[n + 1] = SP
        BY <1>2, <4>1 DEF SpacesKept
      <4>3. n + 1 > p[2] + 1
        BY <2>1, <2>4, <3>1, <3>3, <3>5, <4>1
      <4> QED BY <2>5, <4>1, <4>2, <4>3
    <3> QED BY <3>4, <3>5
  <2> QED BY <2>5, <2>7, <2>8
<1>5. CASE FinishComplete /\ status' = "Done"
  <2>1. PICK p \in LineSplits(data) :
          /\ data' = [data EXCEPT ![p[1] + 1] = NUL, ![p[2] + 1] = NUL]
          /\ uriIndex' = p[1] + 1
    BY <1>5 DEF FinishComplete
  <2>2. state = "parse_content"
    BY <1>5 DEF FinishComplete
  <2>3. Spaces(wire)' = Spaces(wire)
    BY <1>1 DEF Spaces
  <2>4. PayloadIntact'
    BY <1>1, <1>4, <2>1, <2>2 DEF PayloadIntact, Spaces
  <2> QED BY <1>5, <2>4 DEF Faithful
<1>6. CASE FinishComplete /\ status' # "Done"
  BY <1>3, <1>6 DEF FinishComplete
<1>7. CASE FinishError \/ FinishIncomplete
  BY <1>2, <1>3, <1>7 DEF FinishError, FinishIncomplete
<1> QED BY <1>5, <1>6, <1>7

\* The inductive invariant of the payload.
PayloadIInv == IInv /\ VerdictIdle /\ Parsing /\ Faithful /\ PayloadIntact

LEMMA PayloadInit == Init => PayloadIInv
<1> SUFFICES ASSUME Init PROVE PayloadIInv
  OBVIOUS
<1>1. wire \in Seq(Byte) /\ data = <<>>
  BY BytesAssumption DEF Init
<1>2. Faithful
  BY <1>1 DEF Init, Faithful, SpacesKept, LineRead
<1> QED BY <1>2, InitInvariant DEF PayloadIInv, Init, VerdictIdle, Parsing, PayloadIntact

LEMMA PayloadNext == PayloadIInv /\ [Next]_vars => PayloadIInv'
<1> SUFFICES ASSUME PayloadIInv, [Next]_vars PROVE PayloadIInv'
  OBVIOUS
<1> USE DEF PayloadIInv
<1>1. IInv'
  BY NextInvariant
<1>2. VerdictIdle' /\ Parsing'
  BY RowFacts DEF VerdictIdle, Parsing, Next, vars, AddBytes, AddBytesIgnored, ParseByte,
     ParseNoRow, ParseEnd, FinishError, FinishIncomplete, FinishComplete
<1>3. ASSUME UNCHANGED vars \/ AddBytesIgnored
      PROVE  Faithful' /\ PayloadIntact'
  <2>1. UNCHANGED <<wire, data, state, i, contentStart, headerStart, uriIndex, status>>
    BY <1>3 DEF AddBytesIgnored, vars, scratch
  <2>2. LineEnd' = LineEnd /\ (TwoSpaceLine' <=> TwoSpaceLine) /\ Unread' = Unread
    BY <2>1 DEF LineEnd, TwoSpaceLine, Unread
  <2>3. Faithful'
    BY <2>1, <2>2 DEF Faithful, SpacesKept, LineRead
  <2>4. PayloadIntact'
    BY <2>1, <2>2 DEF PayloadIntact, Spaces
  <2> QED BY <2>3, <2>4
<1>4. ASSUME status' # "Done" PROVE PayloadIntact'
  BY <1>4 DEF PayloadIntact
<1>5. ASSUME NEW len \in 0..Len(wire), AddBytes(len)
      PROVE  Faithful' /\ PayloadIntact'
  <2>1. status' # "Done"
    BY <1>5 DEF AddBytes
  <2> QED BY <1>4, <1>5, <2>1, AddBytesFaithful
<1>6. ASSUME NEW r \in Fsm, ParseByte(r)
      PROVE  Faithful' /\ PayloadIntact'
  <2>1. status' # "Done"
    BY <1>6 DEF ParseByte, VerdictIdle
  <2> QED BY <1>4, <1>6, <2>1, ParseByteFaithful
<1>7. ASSUME ParseNoRow
      PROVE  Faithful' /\ PayloadIntact'
  <2>1. status' # "Done"
    BY <1>7 DEF ParseNoRow, VerdictIdle
  <2> QED BY <1>4, <1>7, <2>1, ParseNoRowFaithful
<1>8. ASSUME ParseEnd
      PROVE  Faithful' /\ PayloadIntact'
  <2>1. status' # "Done"
    BY <1>8 DEF ParseEnd, VerdictIdle
  <2>2. UNCHANGED <<wire, data, state, i, contentStart, headerStart, status>>
    BY <1>8 DEF ParseEnd, scratch
  <2>3. Faithful'
    BY <2>2 DEF Faithful, SpacesKept, LineRead, LineEnd, Unread
  <2> QED BY <1>4, <2>1, <2>3
<1>9. ASSUME FinishError \/ FinishIncomplete \/ FinishComplete
      PROVE  Faithful' /\ PayloadIntact'
  BY <1>9, FinishFaithful
<1> QED BY <1>1, <1>2, <1>3, <1>5, <1>6, <1>7, <1>8, <1>9 DEF Next

LEMMA PayloadInvariance == Spec => []PayloadIInv
  BY PayloadInit, PayloadNext, PTL DEF Spec

\* As long as the request line has its two spaces, splitting it changes no
\* header and no byte of the body, for every stream and every cut.
THEOREM PayloadStaysIntact == Spec => []PayloadIntact
<1>1. PayloadIInv => PayloadIntact
  BY DEF PayloadIInv
<1> QED BY <1>1, PayloadInvariance, PTL
----------------------------------------------------------------------------
(* The reader of the whole stream.                                         *)
LEMMA RefFold == \A b, s : FoldLeft(RefStep, b, s) = R!Folded(b, s)
  BY DEF FoldLeft, MapThenFoldSet, Max, R!Folded

LEMMA RefAtZero ==
  ASSUME wire \in Seq(Byte)
  PROVE  RefAt(0) = RefInit
<1>1. SubSeq(wire, 1, 0) = <<>>
  OBVIOUS
<1>2. R!Folded(RefInit, <<>>) = RefInit
  BY R!FoldEmpty
<1> QED BY <1>1, <1>2, RefFold DEF RefAt

LEMMA RefAtNext ==
  ASSUME wire \in Seq(Byte), NEW n \in Nat, n + 1 <= Len(wire)
  PROVE  RefAt(n + 1) = RefStep(RefAt(n), wire[n + 1])
<1> DEFINE front == SubSeq(wire, 1, n)  b == wire[n + 1]
<1>1. front \in Seq(Byte) /\ b \in Byte /\ SubSeq(wire, 1, n + 1) = Append(front, b)
  OBVIOUS
<1> HIDE DEF front, b
<1>2. R!Folded(RefInit, Append(front, b)) = RefStep(R!Folded(RefInit, front), b)
  BY <1>1, R!FoldAppend
<1> QED BY <1>1, <1>2, RefFold DEF RefAt, front, b

\* Behind the headers it reads nothing more.
LEMMA RefAbsorbs ==
  ASSUME wire \in Seq(Byte), NEW c \in Nat, RefAt(c).state = "parse_content",
         NEW n \in Nat, c <= n, n <= Len(wire)
  PROVE  RefAt(n) = RefAt(c)
<1> DEFINE Good == {k \in Nat : c + k <= Len(wire) => RefAt(c + k) = RefAt(c)}
<1>1. 0 \in Good
  OBVIOUS
<1>2. ASSUME NEW k \in Good PROVE k + 1 \in Good
  <2> SUFFICES ASSUME c + (k + 1) <= Len(wire) PROVE RefAt(c + (k + 1)) = RefAt(c)
    OBVIOUS
  <2> DEFINE m == c + k
  <2>1. m \in Nat /\ m + 1 <= Len(wire) /\ c + (k + 1) = m + 1 /\ RefAt(m) = RefAt(c)
    OBVIOUS
  <2> HIDE DEF m
  <2>2. RefAt(m + 1) = RefStep(RefAt(m), wire[m + 1])
    BY <2>1, RefAtNext
  <2>3. RefStep(RefAt(m), wire[m + 1]) = RefAt(m)
    BY <2>1 DEF RefStep
  <2> QED BY <2>1, <2>2, <2>3
<1>3. Good = Nat
  BY <1>1, <1>2, R!Induct
<1>4. n - c \in Nat /\ c + (n - c) = n
  OBVIOUS
<1>5. n - c \in Good
  BY <1>3, <1>4
<1> QED BY <1>4, <1>5

\* At most one row fits a byte.
LEMMA RowUnique ==
  ASSUME NEW r \in Fsm, NEW q \in Fsm, r.cur = q.cur, NEW b \in r.on, b \in q.on
  PROVE  r = q
  BY DEF Fsm, Row

LEMMA RefStepRow ==
  ASSUME NEW r \in Fsm, NEW p, p.state = r.cur, NEW b \in r.on
  PROVE  RefStep(p, b) =
           [state |-> r.next,
            read |-> p.read + 1,
            key |-> IF "SET_KEY" \in r.actions THEN p.read ELSE p.key,
            keys |-> IF "STORE_KEY_VALUE" \in r.actions THEN Append(p.keys, p.key) ELSE p.keys,
            content |-> IF r.next = "parse_content" THEN p.read + 1 ELSE p.content]
<1> DEFINE rows == {x \in Fsm : x.cur = p.state /\ b \in x.on}
           chosen == CHOOSE x \in rows : TRUE
<1>1. rows # {} /\ chosen \in rows
  OBVIOUS
<1>2. chosen = r
  BY <1>1, RowUnique
<1>3. p.state # "parse_content"
  BY RowFacts
<1> QED BY <1>1, <1>2, <1>3 DEF RefStep

LEMMA RefStepNoRow ==
  ASSUME NEW p \in [state : States, read : Nat, key : Nat, keys : Seq(Nat), content : Nat],
         NEW b, p.state # "parse_content", ~ \E r \in Fsm : r.cur = p.state /\ b \in r.on
  PROVE  RefStep(p, b) = [state |-> "p_error", read |-> p.read + 1, key |-> p.key,
                          keys |-> p.keys, content |-> p.content]
<1>1. {x \in Fsm : x.cur = p.state /\ b \in x.on} = {}
  OBVIOUS
<1>2. RefStep(p, b) = [p EXCEPT !.state = "p_error", !.read = @ + 1]
  BY <1>1 DEF RefStep
<1> QED BY <1>2

----------------------------------------------------------------------------
\* The parser is where the reader of the whole stream is.
Reading ==
  RefAt(Unread) = [state |-> state, read |-> Unread, key |-> keyIndex, keys |-> keys,
                   content |-> contentStart]

\* Outside the loop, every byte of the buffer has been looked at.
CaughtUp == pc # "parse" /\ state # "parse_content" => i = Len(data)

\* What a verdict says of the machine.
Verdict ==
  pc = "idle" =>
    /\ status = "Error" /\ TwoSpaceLine => state = "p_error"
    /\ status = "Incomplete" => state # "p_error" /\ (state = "parse_content" => ~HaveBody)
    /\ status = "Done" => state = "parse_content" /\ HaveBody

\* The buffer holds no more than the stream.
Received == Len(data) <= Len(wire)

ReadingIInv == PayloadIInv /\ Received /\ Reading /\ CaughtUp /\ Verdict

LEMMA ReadingInit == Init => ReadingIInv
<1> SUFFICES ASSUME Init PROVE ReadingIInv
  OBVIOUS
<1>1. wire \in Seq(Byte)
  BY BytesAssumption DEF Init
<1>2. Reading /\ Received
  BY <1>1, RefAtZero DEF Init, Reading, Unread, RefInit, Received
<1> QED BY <1>2, PayloadInit DEF ReadingIInv, Init, CaughtUp, Verdict, Received

LEMMA ReceivedNext == PayloadIInv /\ Received /\ [Next]_vars => Received'
<1> SUFFICES ASSUME PayloadIInv, Received, [Next]_vars PROVE Received'
  OBVIOUS
<1>1. data \in Seq(Byte) /\ VerdictIdle /\ Faithful'
  BY PayloadNext DEF PayloadIInv, IInv, TypeOK
<1>2. CASE status' # "Done"
  BY <1>1, <1>2 DEF Faithful, SpacesKept, Received
<1>3. CASE status' = "Done" /\ UNCHANGED <<data, wire>>
  BY <1>3 DEF Received
<1>4. CASE FinishComplete /\ status' = "Done"
  <2>1. PICK p \in LineSplits(data) : data' = [data EXCEPT ![p[1] + 1] = NUL, ![p[2] + 1] = NUL]
    BY <1>4 DEF FinishComplete
  <2>2. Len(data') = Len(data)
    BY <1>1, <2>1
  <2> QED BY <1>4, <2>2 DEF Received, FinishComplete
<1>5. status' = "Done" => UNCHANGED <<data, wire>> \/ FinishComplete
  BY <1>1 DEF VerdictIdle, Next, vars, AddBytes, AddBytesIgnored, ParseByte, ParseNoRow,
     ParseEnd, FinishError, FinishIncomplete
<1> QED BY <1>2, <1>3, <1>4, <1>5

LEMMA ReadingNext == ReadingIInv /\ [Next]_vars => ReadingIInv'
<1> SUFFICES ASSUME ReadingIInv, [Next]_vars PROVE ReadingIInv'
  OBVIOUS
<1>1. PayloadIInv /\ PayloadIInv' /\ IInv /\ VerdictIdle /\ Parsing /\ Faithful
      /\ Reading /\ CaughtUp /\ Verdict /\ Received'
  BY PayloadNext, ReceivedNext DEF ReadingIInv, PayloadIInv
<1>2. /\ wire \in Seq(Byte) /\ data \in Seq(Byte) /\ i \in Nat /\ keyIndex \in Nat
      /\ keys \in Seq(Nat) /\ contentStart \in Nat /\ state \in States /\ Unread \in Nat
  BY <1>1 DEF IInv, TypeOK, Unread
<1>3. ASSUME UNCHANGED <<wire, data, state, i, keyIndex, keys, contentStart, contentLength,
                         status, pc>>
      PROVE  Reading' /\ CaughtUp' /\ Verdict'
  <2>1. Unread' = Unread /\ (TwoSpaceLine' <=> TwoSpaceLine) /\ (HaveBody' <=> HaveBody)
    BY <1>3 DEF Unread, TwoSpaceLine, LineEnd, HaveBody
  <2>2. RefAt(Unread)' = RefAt(Unread)
    BY <1>3, <2>1 DEF RefAt
  <2> QED BY <1>1, <1>3, <2>1, <2>2 DEF Reading, CaughtUp, Verdict
<1>4. CASE UNCHANGED vars \/ AddBytesIgnored
  <2>1. UNCHANGED <<wire, data, state, i, keyIndex, keys, contentStart, contentLength, status, pc>>
    BY <1>4 DEF vars, scratch, AddBytesIgnored
  <2> QED BY <1>1, <1>3, <2>1 DEF ReadingIInv
<1>5. ASSUME NEW len \in 0..Len(wire), AddBytes(len)
      PROVE  Reading' /\ CaughtUp' /\ Verdict'
  <2>1. /\ UNCHANGED <<wire, state, keyIndex, keys, contentStart>> /\ Unread' = Unread
        /\ pc = "idle" /\ status = "Incomplete"
        /\ pc' = (IF state \in {"parse_content", "p_error"} THEN "finish" ELSE "parse")
    BY <1>1, <1>5 DEF AddBytes, IInv, Resume, Unread, scratch
  <2>2. RefAt(Unread)' = RefAt(Unread)
    BY <2>1 DEF RefAt
  <2> QED BY <1>1, <2>1, <2>2 DEF Reading, CaughtUp, Verdict
<1>6. ASSUME NEW r \in Fsm, ParseByte(r)
      PROVE  Reading' /\ CaughtUp' /\ Verdict'
  <2>1. /\ data[i + 1] = wire[i + 1] /\ i + 1 \in 1..Len(wire) /\ Unread = i /\ Unread' = i + 1
    BY <1>1, <1>6, ParseByteFaithful
  <2>2. /\ pc = "parse" /\ r.cur = state /\ state' = r.next /\ wire[i + 1] \in r.on /\ wire' = wire
        /\ keyIndex' = (IF "SET_KEY" \in r.actions THEN i ELSE keyIndex)
        /\ keys' = (IF "STORE_KEY_VALUE" \in r.actions THEN Append(keys, keyIndex) ELSE keys)
        /\ contentStart' = (IF r.next = "parse_content" THEN i + 1 ELSE contentStart)
        /\ (r.next # "parse_content" => pc' = "parse") /\ pc' # "idle"
    BY <1>6, <2>1, RowBytes DEF ParseByte
  <2>3. RefAt(i + 1) = RefStep(RefAt(i), wire[i + 1])
    BY <1>2, <2>1, RefAtNext
  <2>4. RefAt(i) = [state |-> state, read |-> i, key |-> keyIndex, keys |-> keys,
                    content |-> contentStart]
    BY <1>1, <2>1 DEF Reading
  <2>5. RefAt(i + 1) = [state |-> state', read |-> i + 1, key |-> keyIndex', keys |-> keys',
                        content |-> contentStart']
    <3> DEFINE p == RefAt(i)  b == wire[i + 1]
    <3>1. p.state = r.cur /\ b \in r.on
      BY <2>2, <2>4
    <3>2. p.read = i /\ p.key = keyIndex /\ p.keys = keys /\ p.content = contentStart
      BY <2>4
    <3> HIDE DEF p, b
    <3>3. RefStep(p, b) =
            [state |-> r.next,
             read |-> p.read + 1,
             key |-> IF "SET_KEY" \in r.actions THEN p.read ELSE p.key,
             keys |-> IF "STORE_KEY_VALUE" \in r.actions THEN Append(p.keys, p.key) ELSE p.keys,
             content |-> IF r.next = "parse_content" THEN p.read + 1 ELSE p.content]
      BY <3>1, RefStepRow
    <3>4. RefStep(p, b) = [state |-> state', read |-> i + 1, key |-> keyIndex', keys |-> keys',
                           content |-> contentStart']
      BY <2>2, <3>2, <3>3
    <3> QED BY <2>3, <3>4 DEF p, b
  <2>6. RefAt(Unread)' = RefAt(i + 1)
    BY <2>1, <2>2 DEF RefAt
  <2>7. Reading'
    BY <2>1, <2>5, <2>6 DEF Reading
  <2> QED BY <2>2, <2>7 DEF CaughtUp, Verdict
<1>7. ASSUME ParseNoRow
      PROVE  Reading' /\ CaughtUp' /\ Verdict'
  <2>1. /\ pc = "parse" /\ i < Len(data) /\ status = "Incomplete" /\ state # "parse_content"
        /\ ~ \E r \in Fsm : r.cur = state /\ data[i + 1] \in r.on
        /\ state' = "p_error" /\ i' = i + 1 /\ UNCHANGED <<wire, keyIndex, keys, contentStart, pc>>
    BY <1>1, <1>7 DEF ParseNoRow, VerdictIdle, Parsing, scratch
  <2>2. Unread = i /\ Unread' = i + 1
    BY <2>1 DEF Unread
  <2>3. data[i + 1] = wire[i + 1] /\ i + 1 <= Len(wire)
    BY <1>1, <1>2, <2>1, <2>2 DEF Faithful, SpacesKept
  <2>4. RefAt(i + 1) = RefStep(RefAt(i), wire[i + 1])
    BY <1>2, <2>3, RefAtNext
  <2>5. RefAt(i) = [state |-> state, read |-> i, key |-> keyIndex, keys |-> keys,
                    content |-> contentStart]
    BY <1>1, <2>2 DEF Reading
  <2>6. RefAt(i + 1) = [state |-> state', read |-> i + 1, key |-> keyIndex', keys |-> keys',
                        content |-> contentStart']
    BY <1>2, <2>1, <2>3, <2>4, <2>5, RefStepNoRow
  <2>7. RefAt(Unread)' = RefAt(i + 1)
    BY <2>1, <2>2 DEF RefAt
  <2>8. Reading'
    BY <2>2, <2>6, <2>7 DEF Reading
  <2> QED BY <2>1, <2>8 DEF CaughtUp, Verdict
<1>8. ASSUME ParseEnd
      PROVE  Reading' /\ CaughtUp' /\ Verdict'
  <2>1. /\ UNCHANGED <<wire, state, i, data, keyIndex, keys, contentStart>>
        /\ pc' = "finish" /\ i = Len(data)
    BY <1>1, <1>8 DEF ParseEnd, scratch, IInv, TypeOK
  <2>2. Unread' = Unread
    BY <2>1 DEF Unread
  <2>3. RefAt(Unread)' = RefAt(Unread)
    BY <2>1, <2>2 DEF RefAt
  <2> QED BY <1>1, <2>1, <2>2, <2>3 DEF Reading, CaughtUp, Verdict
<1>9. ASSUME FinishError \/ FinishIncomplete \/ FinishComplete
      PROVE  Reading' /\ CaughtUp' /\ Verdict'
  <2>1. /\ UNCHANGED <<wire, state, i, keyIndex, keys, contentStart, contentLength>>
        /\ pc = "finish" /\ pc' = "idle" /\ status = "Incomplete"
    BY <1>1, <1>9 DEF FinishError, FinishIncomplete, FinishComplete, scratch, VerdictIdle
  <2>2. Unread' = Unread /\ (TwoSpaceLine' <=> TwoSpaceLine)
    BY <2>1 DEF Unread, TwoSpaceLine, LineEnd
  <2>3. RefAt(Unread)' = RefAt(Unread)
    BY <2>1, <2>2 DEF RefAt
  <2>4. Len(data') = Len(data)
    <3>1. ASSUME NEW p \in LineSplits(data),
                 data' = [data EXCEPT ![p[1] + 1] = NUL, ![p[2] + 1] = NUL]
          PROVE  Len(data') = Len(data)
      BY <1>2, <3>1
    <3> QED BY <1>9, <3>1 DEF FinishError, FinishIncomplete, FinishComplete
  <2>5. HaveBody' <=> HaveBody
    BY <2>1, <2>4 DEF HaveBody
  <2>6. Reading' /\ CaughtUp'
    BY <1>1, <2>1, <2>2, <2>3, <2>4 DEF Reading, CaughtUp
  <2>7. Verdict'
    <3>1. CASE FinishError
      BY <2>1, <3>1 DEF FinishError, Verdict
    <3>2. CASE FinishIncomplete
      BY <2>1, <2>5, <3>2 DEF FinishIncomplete, Verdict
    <3>3. CASE FinishComplete /\ status' = "Done"
      BY <2>1, <2>5, <3>3 DEF FinishComplete, Verdict
    <3>4. CASE FinishComplete /\ LineSplits(data) = {}
      <4>1. state = "parse_content" /\ status' = "Error"
        BY <3>4 DEF FinishComplete
      <4>2. SpacesKept /\ LineRead /\ Unread = contentStart /\ contentStart <= Len(data)
        BY <1>1, <2>1, <4>1 DEF Faithful, Unread, IInv, TypeOK
      <4>3. PICK e \in LineEnd : e <= contentStart
        BY <4>1, <4>2 DEF LineRead
      <4>4. e <= Len(data)
        BY <1>2, <4>2, <4>3 DEF LineEnd
      <4>5. ~TwoSpaceLine
        BY <1>1, <3>4, <4>2, <4>4, SplitInLine
      <4> QED BY <2>2, <4>1, <4>5 DEF Verdict
    <3> QED BY <1>9, <3>1, <3>2, <3>3, <3>4 DEF FinishComplete
  <2> QED BY <2>6, <2>7
<1> QED BY <1>1, <1>4, <1>5, <1>6, <1>7, <1>8, <1>9 DEF Next, ReadingIInv

LEMMA ReadingSegmentation == ReadingIInv => SegmentationFree
<1> SUFFICES ASSUME ReadingIInv, pc = "idle" PROVE
       /\ <<state, keys, contentStart>> = <<Ref.state, Ref.keys, Ref.content>>
       /\ status = "Error" /\ TwoSpaceLine => Ref.state = "p_error"
       /\ status = "Incomplete" => ~RefComplete /\ Ref.state # "p_error"
       /\ status = "Done" => RefComplete
  BY DEF SegmentationFree
<1>1. /\ wire \in Seq(Byte) /\ data \in Seq(Byte) /\ contentStart \in 0..Len(data)
      /\ Reading /\ CaughtUp /\ Verdict /\ Faithful
  BY DEF ReadingIInv, PayloadIInv, IInv, TypeOK
<1>2. Len(data) \in Nat /\ contentStart \in Nat
  BY <1>1
<1>3. Ref = RefAt(Unread)
  <2>1. CASE state # "parse_content"
    BY <1>1, <2>1 DEF Ref, Unread, CaughtUp
  <2>2. CASE state = "parse_content"
    <3>1. RefAt(contentStart).state = "parse_content" /\ Unread = contentStart
      BY <1>1, <2>2 DEF Reading, Unread
    <3>2. Len(data) <= Len(wire)
      BY DEF ReadingIInv, Received
    <3>3. RefAt(Len(data)) = RefAt(contentStart)
      BY <1>1, <1>2, <3>1, <3>2, RefAbsorbs
    <3> QED BY <3>1, <3>3 DEF Ref
  <2> QED BY <2>1, <2>2
<1>4. Ref.state = state /\ Ref.keys = keys /\ Ref.content = contentStart
  BY <1>1, <1>3 DEF Reading
<1>5. status = "Done" => RefComplete
  BY <1>1, <1>4 DEF Verdict, HaveBody, RefComplete
<1>6. status = "Incomplete" => ~RefComplete /\ Ref.state # "p_error"
  BY <1>1, <1>4 DEF Verdict, HaveBody, RefComplete
<1> QED BY <1>1, <1>4, <1>5, <1>6 DEF Verdict

\* However a stream is cut into add_bytes calls, the state of the machine, the
\* keys, the start of the body and the verdict are those of a reader of all
\* bytes received so far.
THEOREM SegmentationIsFree == Spec => []SegmentationFree
<1>1. Spec => []ReadingIInv
  BY ReadingInit, ReadingNext, PTL DEF Spec
<1> QED BY <1>1, ReadingSegmentation, PTL

----------------------------------------------------------------------------
(* What the parser recovers from a well formed request.                    *)

Sent(n) == wire[n]

\* What the buffer holds of a byte b the machine has seen in state s.
Stored(s, b) ==
  IF \E r \in Fsm : r.cur = s /\ b \in r.on /\ "NULLIFY" \in r.actions THEN NUL
  ELSE IF \E r \in Fsm : r.cur = s /\ b \in r.on /\ "LOWER" \in r.actions THEN ToLower(b)
  ELSE b

LEMMA StoredIs ==
  ASSUME NEW r \in Fsm, NEW b \in r.on
  PROVE  Stored(r.cur, b) = IF "NULLIFY" \in r.actions THEN NUL
                            ELSE IF "LOWER" \in r.actions THEN ToLower(b) ELSE b
<1>1. \A q \in Fsm : q.cur = r.cur /\ b \in q.on => q = r
  BY RowUnique
<1> QED BY <1>1 DEF Stored

\* What is left of the n-th byte of the stream once it is read.
Left(n) == Stored(RefAt(n - 1).state, Sent(n))

\* After n bytes the reader, in front of the body, is in state s, with these keys.
Reader(s, n, key, stored) ==
  [state |-> s, read |-> n, key |-> key, keys |-> stored, content |-> 0]
Reads(n, s, key, stored) == RefAt(n) = Reader(s, n, key, stored)

LEMMA LeftBehind ==
  ASSUME NEW n, NEW m, NEW s, NEW key, NEW stored,
         n \in Nat, m = n + 1, Reads(n, s, key, stored)
  PROVE  Left(m) = Stored(s, Sent(m))
<1>1. m - 1 = n
  OBVIOUS
<1>2. RefAt(n).state = s
  BY DEF Reads, Reader
<1> QED BY <1>1, <1>2 DEF Left

\* Reading b in state s leads to state t, and neither starts nor stores a key.
Moves(s, b, t) ==
  \E r \in Fsm :
    /\ r.cur = s /\ b \in r.on /\ r.next = t
    /\ r.actions \cap {"SET_KEY", "STORE_KEY_VALUE", "SET_CONTENT_START"} = {}

\* What a row does to each of its bytes.
TableRow(s, on, t, actions) ==
  \A b \in on :
    /\ Moves(s, b, t)
    /\ Stored(s, b) = IF "NULLIFY" \in actions THEN NUL
                      ELSE IF "LOWER" \in actions THEN ToLower(b) ELSE b

LEMMA RowMoves ==
  ASSUME NEW s, NEW on, NEW t, NEW actions, Row(s, on, t, actions) \in Fsm,
         actions \cap {"SET_KEY", "STORE_KEY_VALUE", "SET_CONTENT_START"} = {}
  PROVE  TableRow(s, on, t, actions)
<1>1. PICK r \in Fsm : r.cur = s /\ r.on = on /\ r.next = t /\ r.actions = actions
  BY DEF Row
<1>2. ASSUME NEW b \in on PROVE Moves(s, b, t)
  BY <1>1, <1>2 DEF Moves
<1>3. ASSUME NEW b \in on
      PROVE  Stored(s, b) = IF "NULLIFY" \in actions THEN NUL
                            ELSE IF "LOWER" \in actions THEN ToLower(b) ELSE b
  BY <1>1, <1>3, StoredIs
<1> QED BY <1>2, <1>3 DEF TableRow

LEMMA Table ==
  /\ \A b \in Byte \ {CR} : Moves("parse_request_line", b, "parse_request_line")
  /\ Moves("parse_request_line", CR, "parse_request_line_cr")
  /\ Moves("parse_request_line_cr", LF, "parse_request_line_crlf")
  /\ Moves("parse_request_line_crlf", CR, "parse_request_line_crlfcr")
  /\ \A b \in Byte \ {COLON} : /\ Moves("parse_key_state", b, "parse_key_state")
                               /\ Stored("parse_key_state", b) = ToLower(b)
  /\ Moves("parse_key_state", COLON, "parse_key_colon")
  /\ Stored("parse_key_state", COLON) = NUL
  /\ Moves("parse_key_colon", SP, "parse_key_colon_seperator")
  /\ \A b \in Byte : /\ Moves("parse_key_colon_seperator", b, "parse_value")
                     /\ Stored("parse_key_colon_seperator", b) = b
  /\ \A b \in Byte \ {CR} : Moves("parse_value", b, "parse_value") /\ Stored("parse_value", b) = b
  /\ Moves("parse_value_cr", LF, "parse_value_crlf")
  /\ Moves("parse_value_crlf", CR, "parse_value_crlfcr")
<1>1. TableRow("parse_request_line", Byte \ {CR}, "parse_request_line", {})
  BY RowMoves DEF Fsm
<1>2. TableRow("parse_request_line", {CR}, "parse_request_line_cr", {"NULLIFY"})
  BY RowMoves DEF Fsm
<1>3. TableRow("parse_request_line_cr", {LF}, "parse_request_line_crlf", {})
  BY RowMoves DEF Fsm
<1>4. TableRow("parse_request_line_crlf", {CR}, "parse_request_line_crlfcr", {})
  BY RowMoves DEF Fsm
<1>5. TableRow("parse_key_state", Byte \ {COLON}, "parse_key_state", {"LOWER"})
  BY RowMoves DEF Fsm
<1>6. TableRow("parse_key_state", {COLON}, "parse_key_colon", {"NULLIFY"})
  BY RowMoves DEF Fsm
<1>7. TableRow("parse_key_colon", {SP}, "parse_key_colon_seperator", {})
  BY RowMoves DEF Fsm
<1>8. TableRow("parse_key_colon_seperator", Byte, "parse_value", {"SET_VALUE"})
  BY RowMoves DEF Fsm
<1>9. TableRow("parse_value", Byte \ {CR}, "parse_value", {})
  BY RowMoves DEF Fsm
<1>10. TableRow("parse_value_cr", {LF}, "parse_value_crlf", {})
  BY RowMoves DEF Fsm
<1>11. TableRow("parse_value_crlf", {CR}, "parse_value_crlfcr", {})
  BY RowMoves DEF Fsm
<1> QED BY <1>1, <1>2, <1>3, <1>4, <1>5, <1>6, <1>7, <1>8, <1>9, <1>10, <1>11 DEF TableRow

LEMMA ReaderStep ==
  ASSUME wire \in Seq(Byte), NEW n \in Nat, n + 1 <= Len(wire), NEW r \in Fsm,
         NEW key, NEW stored, Reads(n, r.cur, key, stored), Sent(n + 1) \in r.on
  PROVE  RefAt(n + 1) =
           [state |-> r.next, read |-> n + 1,
            key |-> IF "SET_KEY" \in r.actions THEN n ELSE key,
            keys |-> IF "STORE_KEY_VALUE" \in r.actions THEN Append(stored, key) ELSE stored,
            content |-> IF r.next = "parse_content" THEN n + 1 ELSE 0]
<1> DEFINE p == RefAt(n)  b == wire[n + 1]
<1>1. p.state = r.cur /\ p.read = n /\ p.key = key /\ p.keys = stored /\ p.content = 0
  BY DEF Reader, Reads
<1>2. RefAt(n + 1) = RefStep(p, b)
  BY RefAtNext
<1>3. b \in r.on
  BY DEF Sent
<1> HIDE DEF p, b
<1>4. RefStep(p, b) =
        [state |-> r.next,
         read |-> p.read + 1,
         key |-> IF "SET_KEY" \in r.actions THEN p.read ELSE p.key,
         keys |-> IF "STORE_KEY_VALUE" \in r.actions THEN Append(p.keys, p.key) ELSE p.keys,
         content |-> IF r.next = "parse_content" THEN p.read + 1 ELSE p.content]
  BY <1>1, <1>3, RefStepRow
<1> QED BY <1>1, <1>2, <1>4

LEMMA ReaderMoves ==
  ASSUME NEW n, NEW m, NEW s, NEW t, NEW key, NEW stored, wire \in Seq(Byte),
         n \in Nat, m = n + 1, m <= Len(wire), Reads(n, s, key, stored), Moves(s, Sent(m), t)
  PROVE  Reads(m, t, key, stored)
<1>1. PICK r \in Fsm :
        /\ r.cur = s /\ Sent(n + 1) \in r.on /\ r.next = t
        /\ r.actions \cap {"SET_KEY", "STORE_KEY_VALUE", "SET_CONTENT_START"} = {}
  BY DEF Moves
<1>2. "SET_KEY" \notin r.actions /\ "STORE_KEY_VALUE" \notin r.actions /\ r.next # "parse_content"
  BY <1>1, RowBytes
<1>3. Reads(n, r.cur, key, stored)
  BY <1>1
<1>4. RefAt(n + 1) =
        [state |-> r.next, read |-> n + 1,
         key |-> IF "SET_KEY" \in r.actions THEN n ELSE key,
         keys |-> IF "STORE_KEY_VALUE" \in r.actions THEN Append(stored, key) ELSE stored,
         content |-> IF r.next = "parse_content" THEN n + 1 ELSE 0]
  BY <1>1, <1>3, ReaderStep
<1> QED BY <1>1, <1>2, <1>4 DEF Reads, Reader

\* The bytes m + 1 .. e all have a row from s to s.
Loops(s, m, e) == \A p \in m + 1..e : Moves(s, Sent(p), s)

LEMMA ReaderLoops ==
  ASSUME NEW s, NEW m, NEW e, NEW key, NEW stored, NEW p, wire \in Seq(Byte),
         m \in Nat, e \in Nat, e <= Len(wire), Reads(m, s, key, stored), Loops(s, m, e),
         p \in Nat, m <= p, p <= e
  PROVE  Reads(p, s, key, stored)
<1> DEFINE Good == {j \in Nat : m + j <= e => Reads(m + j, s, key, stored)}
<1>2. 0 \in Good
  OBVIOUS
<1>3. ASSUME NEW j \in Good PROVE j + 1 \in Good
  <2> SUFFICES ASSUME m + (j + 1) <= e PROVE Reads(m + (j + 1), s, key, stored)
    OBVIOUS
  <2>1. PICK n \in Nat : n = m + j
    OBVIOUS
  <2>2. PICK o \in Nat : o = m + (j + 1)
    OBVIOUS
  <2>3. o = n + 1 /\ n <= e /\ o <= Len(wire) /\ o \in m + 1..e
    BY <2>1, <2>2
  <2>4. Reads(n, s, key, stored)
    BY <2>1, <2>3
  <2>5. Moves(s, Sent(o), s)
    BY <2>3 DEF Loops
  <2>6. Reads(o, s, key, stored)
    BY <2>3, <2>4, <2>5, ReaderMoves
  <2> QED BY <2>2, <2>6
<1>4. Good = Nat
  BY <1>2, <1>3, R!Induct
<1>5. p - m \in Good
  <2> HIDE DEF Good
  <2>1. p - m \in Nat
    OBVIOUS
  <2> QED BY <1>4, <2>1
<1>6. m + (p - m) = p
  OBVIOUS
<1> QED BY <1>5, <1>6

\* The stream begins with these bytes, from offset a on.
At(a, bytes) == a + Len(bytes) <= Len(wire) /\ \A j \in 1..Len(bytes) : Sent(a + j) = bytes[j]

\* Bytes at offset a end at offset b.
Spans(a, bytes, b) == b = a + Len(bytes)

LEMMA AtParts ==
  ASSUME NEW a, NEW s, NEW t, NEW b, wire \in Seq(Byte),
         a \in Nat, s \in Seq(Byte), t \in Seq(Byte), At(a, s \o t), Spans(a, s, b)
  PROVE  At(a, s) /\ At(b, t)
<1> PICK u : u = s \o t
  OBVIOUS
<1>1. /\ u \in Seq(Byte) /\ Len(u) = Len(s) + Len(t)
      /\ \A j \in 1..Len(s) + Len(t) : u[j] = IF j <= Len(s) THEN s[j] ELSE t[j - Len(s)]
  BY ConcatProperties
<1>2. Len(s) \in Nat /\ Len(t) \in Nat /\ Len(wire) \in Nat /\ b = a + Len(s)
  BY DEF Spans
<1>3. a + Len(u) <= Len(wire) /\ \A j \in 1..Len(u) : Sent(a + j) = u[j]
  BY DEF At
<1>4. At(a, s)
  <2>1. ASSUME NEW j \in 1..Len(s) PROVE Sent(a + j) = s[j]
    <3>1. j \in 1..Len(u) /\ j \in 1..Len(s) + Len(t) /\ j <= Len(s)
      BY <1>1, <1>2
    <3> QED BY <1>1, <1>3, <3>1
  <2> QED BY <1>1, <1>2, <1>3, <2>1 DEF At
<1>5. At(b, t)
  <2>1. ASSUME NEW j \in 1..Len(t) PROVE Sent(b + j) = t[j]
    <3>1. PICK k \in Nat : k = Len(s) + j
      BY <1>2
    <3>2. /\ k \in 1..Len(u) /\ k \in 1..Len(s) + Len(t) /\ ~ k <= Len(s)
          /\ k - Len(s) = j /\ a + k = b + j
      BY <1>1, <1>2, <3>1
    <3>3. u[k] = t[j]
      BY <1>1, <3>2
    <3>4. Sent(a + k) = u[k]
      BY <1>3, <3>2
    <3> QED BY <3>2, <3>3, <3>4
  <2> QED BY <1>1, <1>2, <1>3, <2>1 DEF At
<1> QED BY <1>4, <1>5

LEMMA AtPair ==
  ASSUME NEW a, NEW x, NEW y, NEW m, NEW o, wire \in Seq(Byte), a \in Nat, At(a, <<x, y>>),
         m = a + 1, o = a + 2
  PROVE  Sent(m) = x /\ Sent(o) = y /\ o <= Len(wire)
<1>1. Len(<<x, y>>) = 2 /\ <<x, y>>[1] = x /\ <<x, y>>[2] = y
  OBVIOUS
<1> QED BY <1>1 DEF At

LEMMA LineLength ==
  ASSUME NEW line, line \in Seq(Byte)
  PROVE  Line(line) \in Seq(Byte) /\ Len(Line(line)) = Len(line) + 2
<1>1. PICK e \in Seq(Byte) : e = <<CR, LF>>
  <2>1. <<CR, LF>> \in Seq(Byte)
    BY BytesAssumption, RequestAssumption
  <2> QED BY <2>1
<1>2. Len(e) = 2
  BY <1>1
<1>3. Line(line) = line \o e
  BY <1>1 DEF Line
<1>4. line \o e \in Seq(Byte) /\ Len(line \o e) = Len(line) + Len(e)
  BY ConcatProperties
<1> QED BY <1>2, <1>3, <1>4

LEMMA AtLine ==
  ASSUME NEW a, NEW line, NEW b, wire \in Seq(Byte), a \in Nat, line \in Seq(Byte),
         At(a, Line(line)), Spans(a, line, b)
  PROVE  At(a, line) /\ At(b, <<CR, LF>>)
<1>1. <<CR, LF>> \in Seq(Byte)
  BY BytesAssumption, RequestAssumption
<1>2. PICK e \in Seq(Byte) : e = <<CR, LF>>
  BY <1>1
<1>3. Line(line) = line \o e
  BY <1>2 DEF Line
<1>4. At(a, line \o e)
  BY <1>3
<1>5. At(a, line)
  BY <1>4, AtParts
<1>6. At(b, e)
  BY <1>4, AtParts
<1> QED BY <1>2, <1>5, <1>6

LEMMA LineWithout ==
  ASSUME NEW x, NEW line, line \in Seq(Byte \ x)
  PROVE  line \in Seq(Byte) /\ Len(line) \in Nat /\ \A j \in 1..Len(line) : line[j] \in Byte \ x
<1>1. line \in Seq(Byte)
  <2>1. Byte \ x \subseteq Byte
    OBVIOUS
  <2> QED BY <2>1, SeqMonotonic
<1>2. ASSUME NEW j \in 1..Len(line) PROVE line[j] \in Byte \ x
  BY ElementOfSeq
<1> QED BY <1>1, <1>2

\* The request line.
LEMMA ReadLine ==
  ASSUME NEW line, NEW n, wire \in Seq(Byte), line \in Seq(Byte \ {CR}), At(0, Line(line)),
         n = Len(line) + 2
  PROVE  /\ Reads(n, "parse_request_line_crlf", 0, <<>>) /\ n \in Nat /\ n <= Len(wire)
         /\ Len(line) + 1 \in LineEnd /\ \A e \in LineEnd : Len(line) + 1 <= e
<1>1. line \in Seq(Byte) /\ Len(line) \in Nat /\ \A j \in 1..Len(line) : line[j] \in Byte \ {CR}
  BY LineWithout
<1>2. PICK len \in Nat : len = Len(line)
  BY <1>1
<1>3. PICK m \in Nat : m = len + 1
  BY <1>2
<1>4. n = len + 2 /\ n = m + 1 /\ n \in Nat
  BY <1>2, <1>3
<1>5. At(0, line) /\ At(len, <<CR, LF>>)
  <2>1. 0 \in Nat /\ Spans(0, line, len)
    BY <1>2 DEF Spans
  <2> QED BY <1>1, <2>1, AtLine
<1>6. Sent(m) = CR /\ Sent(n) = LF /\ n <= Len(wire)
  BY <1>3, <1>4, <1>5, AtPair
<1>7. ASSUME NEW j \in 1..len PROVE Sent(j) \in Byte \ {CR}
  <2>1. Sent(0 + j) = line[j]
    BY <1>2, <1>5 DEF At
  <2>2. 0 + j = j
    OBVIOUS
  <2> QED BY <1>1, <1>2, <2>1, <2>2
<1>8. Reads(0, "parse_request_line", 0, <<>>)
  BY RefAtZero DEF RefInit, Reader, Reads
<1>9. len <= Len(wire) /\ m <= Len(wire)
  <2>1. Len(wire) \in Nat
    OBVIOUS
  <2> QED BY <1>3, <1>4, <1>6, <2>1
<1>10. Loops("parse_request_line", 0, len)
  <2>1. 0 + 1..len = 1..len
    OBVIOUS
  <2>2. ASSUME NEW p \in 1..len PROVE Moves("parse_request_line", Sent(p), "parse_request_line")
    BY <1>7, Table
  <2> QED BY <2>1, <2>2 DEF Loops
<1>11. Reads(len, "parse_request_line", 0, <<>>)
  <2>1. 0 \in Nat /\ 0 <= len /\ len <= len
    OBVIOUS
  <2> QED BY <1>8, <1>9, <1>10, <2>1, ReaderLoops
<1>12. Reads(m, "parse_request_line_cr", 0, <<>>)
  <2>1. Moves("parse_request_line", Sent(m), "parse_request_line_cr")
    BY <1>6, Table
  <2> QED BY <1>3, <1>9, <1>11, <2>1, ReaderMoves
<1>13. Reads(n, "parse_request_line_crlf", 0, <<>>)
  <2>1. Moves("parse_request_line_cr", Sent(n), "parse_request_line_crlf")
    BY <1>6, Table
  <2> QED BY <1>4, <1>6, <1>12, <2>1, ReaderMoves
<1>14. m \in LineEnd
  BY <1>3, <1>6, <1>9 DEF LineEnd, Sent
<1>15. ASSUME NEW e \in LineEnd PROVE m <= e
  <2>1. e \in Nat /\ e >= 1 /\ Sent(e) = CR
    BY DEF LineEnd, Sent
  <2>2. ~ (e \in 1..len)
    BY <1>7, <2>1
  <2> QED BY <1>3, <2>1, <2>2
<1> QED BY <1>2, <1>3, <1>4, <1>6, <1>13, <1>14, <1>15

\* The first byte of a key is where the key is.
LEMMA ReaderStarts ==
  ASSUME NEW n, NEW m, NEW s, NEW key, NEW stored, wire \in Seq(Byte), n \in Nat,
         m = n + 1, m <= Len(wire), s \in {"parse_request_line_crlf", "parse_value_crlf"},
         Reads(n, s, key, stored), Sent(m) \in Byte \ {CR}
  PROVE  Reads(m, "parse_key_state", n, stored) /\ Left(m) = ToLower(Sent(m))
<1>1. PICK r \in Fsm :
        /\ r.cur = s /\ r.on = Byte \ {CR} /\ r.next = "parse_key_state" /\ "SET_KEY" \in r.actions
        /\ "LOWER" \in r.actions /\ r.actions \cap {"NULLIFY", "STORE_KEY_VALUE"} = {}
  <2> DEFINE r1 == Row("parse_request_line_crlf", Byte \ {CR}, "parse_key_state",
                       {"SET_HEADER_START", "SET_KEY", "LOWER"})
             r2 == Row("parse_value_crlf", Byte \ {CR}, "parse_key_state", {"SET_KEY", "LOWER"})
  <2>1. r1 \in Fsm /\ r2 \in Fsm
    BY DEF Fsm
  <2>2. CASE s = "parse_request_line_crlf"
    BY <2>1, <2>2 DEF Row
  <2>3. CASE s = "parse_value_crlf"
    BY <2>1, <2>3 DEF Row
  <2> QED BY <2>2, <2>3
<1>2. n + 1 <= Len(wire) /\ Sent(n + 1) \in r.on /\ Reads(n, r.cur, key, stored)
  BY <1>1
<1>3. RefAt(n + 1) =
        [state |-> r.next, read |-> n + 1,
         key |-> IF "SET_KEY" \in r.actions THEN n ELSE key,
         keys |-> IF "STORE_KEY_VALUE" \in r.actions THEN Append(stored, key) ELSE stored,
         content |-> IF r.next = "parse_content" THEN n + 1 ELSE 0]
  BY <1>2, ReaderStep
<1>4. Reads(m, "parse_key_state", n, stored)
  BY <1>1, <1>3 DEF Reads, Reader
<1>5. Stored(s, Sent(m)) = ToLower(Sent(m))
  <2>1. PICK b \in r.on : b = Sent(m)
    BY <1>1
  <2>2. Stored(r.cur, b) = IF "NULLIFY" \in r.actions THEN NUL
                           ELSE IF "LOWER" \in r.actions THEN ToLower(b) ELSE b
    BY StoredIs
  <2> QED BY <1>1, <2>1, <2>2
<1>6. Left(m) = Stored(s, Sent(m))
  BY LeftBehind
<1> QED BY <1>4, <1>5, <1>6

\* The CR behind a value stores its key.
LEMMA ReaderStores ==
  ASSUME NEW n, NEW m, NEW key, NEW stored, wire \in Seq(Byte), n \in Nat,
         m = n + 1, m <= Len(wire), Reads(n, "parse_value", key, stored), Sent(m) = CR
  PROVE  Reads(m, "parse_value_cr", key, Append(stored, key)) /\ Left(m) = NUL
<1>1. PICK r \in Fsm :
        /\ r.cur = "parse_value" /\ r.on = {CR} /\ r.next = "parse_value_cr"
        /\ r.actions = {"NULLIFY", "STORE_KEY_VALUE"}
  <2> DEFINE r1 == Row("parse_value", {CR}, "parse_value_cr", {"NULLIFY", "STORE_KEY_VALUE"})
  <2>1. r1 \in Fsm
    BY DEF Fsm
  <2> QED BY <2>1 DEF Row
<1>2. n + 1 <= Len(wire) /\ Sent(n + 1) \in r.on /\ Reads(n, r.cur, key, stored)
  BY <1>1
<1>3. RefAt(n + 1) =
        [state |-> r.next, read |-> n + 1,
         key |-> IF "SET_KEY" \in r.actions THEN n ELSE key,
         keys |-> IF "STORE_KEY_VALUE" \in r.actions THEN Append(stored, key) ELSE stored,
         content |-> IF r.next = "parse_content" THEN n + 1 ELSE 0]
  BY <1>2, ReaderStep
<1>4. Reads(m, "parse_value_cr", key, Append(stored, key))
  BY <1>1, <1>3 DEF Reads, Reader
<1>5. Stored("parse_value", CR) = NUL
  <2>1. CR \in r.on
    BY <1>1
  <2> QED BY <1>1, <2>1, StoredIs
<1>6. Left(m) = Stored("parse_value", Sent(m))
  BY LeftBehind
<1> QED BY <1>4, <1>5, <1>6

\* The two bytes that end the headers.
LEMMA ReadBlank ==
  ASSUME NEW a, NEW s, NEW key, NEW stored, wire \in Seq(Byte), a \in Nat, At(a, <<CR, LF>>),
         s \in {"parse_request_line_crlf", "parse_value_crlf"}, Reads(a, s, key, stored)
  PROVE  /\ a + 2 <= Len(wire)
         /\ RefAt(a + 2) = [state |-> "parse_content", read |-> a + 2, key |-> key,
                            keys |-> stored, content |-> a + 2]
         /\ RefAt(a + 1).state # "parse_content"
<1>0. PICK m \in Nat : m = a + 1
  OBVIOUS
<1>00. PICK o \in Nat : o = a + 2
  OBVIOUS
<1>1. Sent(m) = CR /\ Sent(o) = LF /\ o <= Len(wire)
  BY <1>0, <1>00, AtPair
<1>2. m <= Len(wire) /\ o = m + 1
  <2>1. Len(wire) \in Nat
    OBVIOUS
  <2> QED BY <1>0, <1>00, <1>1, <2>1
<1>3. PICK t \in {"parse_request_line_crlfcr", "parse_value_crlfcr"} : Reads(m, t, key, stored)
  <2>1. CASE s = "parse_request_line_crlf"
    <3>1. Moves(s, Sent(m), "parse_request_line_crlfcr")
      BY <1>1, <2>1, Table
    <3>2. Reads(m, "parse_request_line_crlfcr", key, stored)
      BY <1>0, <1>2, <3>1, ReaderMoves
    <3> QED BY <3>2
  <2>2. CASE s = "parse_value_crlf"
    <3>1. Moves(s, Sent(m), "parse_value_crlfcr")
      BY <1>1, <2>2, Table
    <3>2. Reads(m, "parse_value_crlfcr", key, stored)
      BY <1>0, <1>2, <3>1, ReaderMoves
    <3> QED BY <3>2
  <2> QED BY <2>1, <2>2
<1>4. PICK r \in Fsm :
        /\ r.cur = t /\ r.on = {LF} /\ r.next = "parse_content" /\ r.actions = {"SET_CONTENT_START"}
  <2> DEFINE r1 == Row("parse_request_line_crlfcr", {LF}, "parse_content", {"SET_CONTENT_START"})
             r2 == Row("parse_value_crlfcr", {LF}, "parse_content", {"SET_CONTENT_START"})
  <2>1. r1 \in Fsm /\ r2 \in Fsm
    BY DEF Fsm
  <2>2. CASE t = "parse_request_line_crlfcr"
    BY <2>1, <2>2 DEF Row
  <2>3. CASE t = "parse_value_crlfcr"
    BY <2>1, <2>3 DEF Row
  <2> QED BY <2>2, <2>3
<1>5. m + 1 <= Len(wire) /\ Sent(m + 1) \in r.on /\ Reads(m, r.cur, key, stored)
  BY <1>1, <1>2, <1>3, <1>4
<1>6. RefAt(m + 1) =
        [state |-> r.next, read |-> m + 1,
         key |-> IF "SET_KEY" \in r.actions THEN m ELSE key,
         keys |-> IF "STORE_KEY_VALUE" \in r.actions THEN Append(stored, key) ELSE stored,
         content |-> IF r.next = "parse_content" THEN m + 1 ELSE 0]
  BY <1>5, ReaderStep
<1>7. RefAt(o) = [state |-> "parse_content", read |-> o, key |-> key, keys |-> stored,
                   content |-> o]
  BY <1>2, <1>4, <1>6
<1>8. RefAt(m).state = t
  BY <1>3 DEF Reads, Reader
<1>9. RefAt(m).state # "parse_content"
  BY <1>8
<1> QED BY <1>0, <1>00, <1>1, <1>7, <1>9

\* These bytes are in the buffer, from offset a on, once they are read.
Kept(a, bytes) == \A j \in 1..Len(bytes) : Left(a + j) = bytes[j]

LEMMA LowerFacts ==
  ASSUME NEW s, s \in Seq(Byte)
  PROVE  /\ Lower(s) \in Seq(Byte) /\ Len(Lower(s)) = Len(s)
         /\ \A j \in 1..Len(s) : Lower(s)[j] = ToLower(s[j])
<1>1. Len(s) \in Nat /\ DOMAIN s = 1..Len(s) /\ \A j \in 1..Len(s) : s[j] \in Byte
  OBVIOUS
<1>2. \A j \in 1..Len(s) : ToLower(s[j]) \in Byte
  BY <1>1, BytesAssumption
<1>3. Lower(s) \in [1..Len(s) -> Byte]
  BY <1>1, <1>2 DEF Lower
<1>4. Lower(s) \in Seq(Byte) /\ Len(Lower(s)) = Len(s)
  BY <1>1, <1>3, R!FunctionLength
<1> QED BY <1>1, <1>4 DEF Lower

\* A name and the colon behind it.
LEMMA ReadName ==
  ASSUME NEW a, NEW name, NEW b, NEW b1, NEW s, NEW key, NEW stored, wire \in Seq(Byte),
         a \in Nat, name \in Seq(Byte \ {CR, COLON, NUL}) \ {<<>>}, At(a, name),
         Spans(a, name, b), b1 = b + 1, b1 <= Len(wire), Sent(b1) = COLON,
         s \in {"parse_request_line_crlf", "parse_value_crlf"}, Reads(a, s, key, stored)
  PROVE  /\ Reads(b1, "parse_key_colon", a, stored) /\ Left(b1) = NUL
         /\ Kept(a, Lower(name))
<1>1. PICK kl \in Nat : kl = Len(name) /\ kl > 0
  <2>1. Len(name) \in Nat /\ name # <<>>
    BY LineWithout
  <2>2. Len(name) # 0
    BY <2>1, LineWithout, EmptySeq
  <2> QED BY <2>1, <2>2
<1>2. b \in Nat /\ b1 \in Nat /\ b = a + kl /\ b <= Len(wire)
  <2>1. Len(wire) \in Nat /\ b = a + Len(name)
    BY DEF Spans
  <2> QED BY <1>1, <2>1
<1>3. ASSUME NEW j \in 1..kl PROVE Sent(a + j) = name[j] /\ name[j] \in Byte \ {CR, COLON, NUL}
  <2>1. name[j] \in Byte \ {CR, COLON, NUL}
    BY <1>1, LineWithout
  <2>2. Sent(a + j) = name[j]
    BY <1>1 DEF At
  <2> QED BY <2>1, <2>2
<1>4. ASSUME NEW p \in a + 1..b PROVE Sent(p) \in Byte \ {CR, COLON, NUL}
  <2>1. PICK j \in 1..kl : p = a + j
    <3>1. p - a \in 1..kl /\ p = a + (p - a)
      BY <1>2
    <3> QED BY <3>1
  <2> QED BY <1>3, <2>1
<1>5. PICK a1 \in Nat : a1 = a + 1
  OBVIOUS
<1>6. a1 <= b /\ a1 <= Len(wire) /\ a1 \in a + 1..b
  <2>1. Len(wire) \in Nat
    OBVIOUS
  <2>2. a1 <= b
    BY <1>1, <1>2, <1>5
  <2> QED BY <1>2, <1>5, <2>1, <2>2
<1>7. Reads(a1, "parse_key_state", a, stored) /\ Left(a1) = ToLower(Sent(a1))
  <2>1. Sent(a1) \in Byte \ {CR}
    BY <1>4, <1>6
  <2> QED BY <1>5, <1>6, <2>1, ReaderStarts
<1>8. Loops("parse_key_state", a1, b)
  <2>1. ASSUME NEW p \in a1 + 1..b PROVE Moves("parse_key_state", Sent(p), "parse_key_state")
    <3>1. p \in a + 1..b
      BY <1>2, <1>5
    <3>2. Sent(p) \in Byte \ {COLON}
      BY <1>4, <3>1
    <3> QED BY <3>2, Table
  <2> QED BY <2>1 DEF Loops
<1>9. ASSUME NEW p \in Nat, a1 <= p, p <= b PROVE Reads(p, "parse_key_state", a, stored)
  BY <1>2, <1>5, <1>7, <1>8, <1>9, ReaderLoops
<1>10. Reads(b, "parse_key_state", a, stored)
  BY <1>2, <1>6, <1>9
<1>11. Reads(b1, "parse_key_colon", a, stored)
  <2>1. Moves("parse_key_state", Sent(b1), "parse_key_colon")
    BY Table
  <2> QED BY <1>2, <1>10, <2>1, ReaderMoves
<1>12. Left(b1) = NUL
  <2>1. Left(b1) = Stored("parse_key_state", Sent(b1))
    BY <1>2, <1>10, LeftBehind
  <2>2. Stored("parse_key_state", Sent(b1)) = NUL
    BY Table
  <2> QED BY <2>1, <2>2
<1>13. ASSUME NEW j \in 1..kl PROVE Left(a + j) = ToLower(name[j])
  <2>1. PICK p \in Nat : p = a + j
    OBVIOUS
  <2>2. Left(p) = ToLower(Sent(p))
    <3>1. CASE p = a1
      BY <1>7, <3>1
    <3>2. CASE p # a1
      <4>1. PICK q \in Nat : q = a + (j - 1)
        OBVIOUS
      <4>2. p = q + 1 /\ a1 <= q /\ q <= b
        BY <1>2, <1>5, <2>1, <3>2, <4>1
      <4>3. Reads(q, "parse_key_state", a, stored)
        BY <1>9, <4>2
      <4>4. Left(p) = Stored("parse_key_state", Sent(p))
        BY <4>2, <4>3, LeftBehind
      <4>5. p \in a + 1..b
        BY <1>2, <2>1
      <4>6. Sent(p) \in Byte \ {COLON}
        BY <1>4, <4>5
      <4>7. Stored("parse_key_state", Sent(p)) = ToLower(Sent(p))
        BY <4>6, Table
      <4> QED BY <4>4, <4>7
    <3> QED BY <3>1, <3>2
  <2>3. Sent(p) = name[j]
    BY <1>3, <2>1
  <2> QED BY <2>1, <2>2, <2>3
<1>14. Kept(a, Lower(name))
  <2>1. name \in Seq(Byte)
    BY LineWithout
  <2>2. Len(Lower(name)) = kl /\ \A j \in 1..kl : Lower(name)[j] = ToLower(name[j])
    BY <1>1, <2>1, LowerFacts
  <2> QED BY <1>13, <2>2 DEF Kept
<1> QED BY <1>11, <1>12, <1>14

\* The space behind the colon, a value and the end of its line.
LEMMA ReadValue ==
  ASSUME NEW b, NEW c, NEW d, NEW d1, NEW n, NEW value, NEW key, NEW stored, wire \in Seq(Byte),
         b \in Nat, value \in Seq(Byte \ {CR, NUL}) \ {<<>>}, c = b + 1, Sent(c) = SP,
         At(c, value), Spans(c, value, d), At(d, <<CR, LF>>), d1 = d + 1, n = d + 2,
         Reads(b, "parse_key_colon", key, stored)
  PROVE  /\ Reads(n, "parse_value_crlf", key, Append(stored, key)) /\ Left(d1) = NUL
         /\ Kept(c, value)
<1>1. PICK vl \in Nat : vl = Len(value) /\ vl > 0
  <2>1. Len(value) \in Nat /\ value # <<>>
    BY LineWithout
  <2>2. Len(value) # 0
    BY <2>1, LineWithout, EmptySeq
  <2> QED BY <2>1, <2>2
<1>0. /\ c \in Nat /\ d \in Nat /\ d1 \in Nat /\ d = c + vl /\ n = d1 + 1
  BY <1>1 DEF Spans
<1>00. Sent(d1) = CR /\ Sent(n) = LF /\ n <= Len(wire)
  BY <1>0, AtPair
<1>2. /\ c \in Nat /\ d \in Nat /\ d1 \in Nat /\ d = c + vl /\ n = d1 + 1
      /\ c <= Len(wire) /\ d <= Len(wire) /\ d1 <= Len(wire)
  <2>1. Len(wire) \in Nat
    OBVIOUS
  <2> QED BY <1>0, <1>00, <2>1
<1>3. ASSUME NEW j \in 1..vl PROVE Sent(c + j) = value[j] /\ value[j] \in Byte \ {CR, NUL}
  <2>1. value[j] \in Byte \ {CR, NUL}
    BY <1>1, LineWithout
  <2>2. Sent(c + j) = value[j]
    BY <1>1 DEF At
  <2> QED BY <2>1, <2>2
<1>4. ASSUME NEW p \in c + 1..d PROVE Sent(p) \in Byte \ {CR, NUL}
  <2>1. PICK j \in 1..vl : p = c + j
    <3>1. p - c \in 1..vl /\ p = c + (p - c)
      BY <1>2
    <3> QED BY <3>1
  <2> QED BY <1>3, <2>1
<1>5. PICK c1 \in Nat : c1 = c + 1
  BY <1>2
<1>6. c1 <= d /\ c1 <= Len(wire) /\ c1 \in c + 1..d
  <2>1. Len(wire) \in Nat
    OBVIOUS
  <2>2. c1 <= d
    BY <1>1, <1>2, <1>5
  <2> QED BY <1>2, <1>5, <2>1, <2>2
<1>7. Reads(c, "parse_key_colon_seperator", key, stored)
  <2>1. Moves("parse_key_colon", Sent(c), "parse_key_colon_seperator")
    BY Table
  <2> QED BY <1>2, <2>1, ReaderMoves
<1>8. Reads(c1, "parse_value", key, stored) /\ Left(c1) = Sent(c1)
  <2>1. Sent(c1) \in Byte
    BY <1>4, <1>6
  <2>2. /\ Moves("parse_key_colon_seperator", Sent(c1), "parse_value")
        /\ Stored("parse_key_colon_seperator", Sent(c1)) = Sent(c1)
    BY <2>1, Table
  <2>3. Reads(c1, "parse_value", key, stored)
    BY <1>2, <1>5, <1>6, <1>7, <2>2, ReaderMoves
  <2>4. Left(c1) = Stored("parse_key_colon_seperator", Sent(c1))
    BY <1>2, <1>5, <1>7, LeftBehind
  <2> QED BY <2>2, <2>3, <2>4
<1>9. Loops("parse_value", c1, d)
  <2>1. ASSUME NEW p \in c1 + 1..d PROVE Moves("parse_value", Sent(p), "parse_value")
    <3>1. p \in c + 1..d
      BY <1>2, <1>5
    <3>2. Sent(p) \in Byte \ {CR}
      BY <1>4, <3>1
    <3> QED BY <3>2, Table
  <2> QED BY <2>1 DEF Loops
<1>10. ASSUME NEW p \in Nat, c1 <= p, p <= d PROVE Reads(p, "parse_value", key, stored)
  BY <1>2, <1>5, <1>8, <1>9, <1>10, ReaderLoops
<1>11. Reads(d, "parse_value", key, stored)
  BY <1>2, <1>6, <1>10
<1>12. Reads(d1, "parse_value_cr", key, Append(stored, key)) /\ Left(d1) = NUL
  BY <1>00, <1>2, <1>11, ReaderStores
<1>13. Reads(n, "parse_value_crlf", key, Append(stored, key))
  <2>1. Moves("parse_value_cr", Sent(n), "parse_value_crlf") /\ n <= Len(wire)
    BY <1>00, Table
  <2>2. PICK more : more = Append(stored, key)
    OBVIOUS
  <2>3. Reads(d1, "parse_value_cr", key, more)
    BY <1>12, <2>2
  <2>4. Reads(n, "parse_value_crlf", key, more)
    BY <1>2, <2>1, <2>3, ReaderMoves
  <2> QED BY <2>2, <2>4
<1>14. ASSUME NEW j \in 1..vl PROVE Left(c + j) = value[j]
  <2>1. PICK p \in Nat : p = c + j
    BY <1>2
  <2>2. Left(p) = Sent(p)
    <3>1. CASE p = c1
      BY <1>8, <3>1
    <3>2. CASE p # c1
      <4>1. PICK q \in Nat : q = c + (j - 1)
        BY <1>2
      <4>2. p = q + 1 /\ c1 <= q /\ q <= d
        BY <1>2, <1>5, <2>1, <3>2, <4>1
      <4>3. Reads(q, "parse_value", key, stored)
        BY <1>10, <4>2
      <4>4. Left(p) = Stored("parse_value", Sent(p))
        BY <4>2, <4>3, LeftBehind
      <4>5. p \in c + 1..d
        BY <1>2, <2>1
      <4>6. Sent(p) \in Byte \ {CR}
        BY <1>4, <4>5
      <4>7. Stored("parse_value", Sent(p)) = Sent(p)
        BY <4>6, Table
      <4> QED BY <4>4, <4>7
    <3> QED BY <3>1, <3>2
  <2>3. Sent(p) = value[j]
    BY <1>3, <2>1
  <2> QED BY <2>1, <2>2, <2>3
<1>15. Kept(c, value)
  BY <1>1, <1>14 DEF Kept
<1> QED BY <1>12, <1>13, <1>15

LEMMA FieldFacts ==
  ASSUME NEW h \in Fields
  PROVE  /\ h.key \in Seq(Byte \ {CR, COLON, NUL}) \ {<<>>}
         /\ h.value \in Seq(Byte \ {CR, NUL}) \ {<<>>}
         /\ h.key \in Seq(Byte) /\ Len(h.key) \in Nat
         /\ h.value \in Seq(Byte) /\ Len(h.value) \in Nat
<1>1. h.key \in Seq(Byte \ {CR, COLON, NUL}) \ {<<>>} /\ h.value \in Seq(Byte \ {CR, NUL}) \ {<<>>}
  BY DEF Fields
<1>2. h.key \in Seq(Byte) /\ Len(h.key) \in Nat
  BY <1>1, LineWithout
<1>3. h.value \in Seq(Byte) /\ Len(h.value) \in Nat
  BY <1>1, LineWithout
<1> QED BY <1>1, <1>2, <1>3

\* The parts of a header.
LEMMA FieldLength ==
  ASSUME NEW key, NEW value, key \in Seq(Byte), value \in Seq(Byte)
  PROVE  /\ Field(key, value) \in Seq(Byte)
         /\ Len(Field(key, value)) = Len(key) + Len(value) + 4
<1>1. PICK g \in Seq(Byte) : g = <<COLON, SP>>
  <2>1. <<COLON, SP>> \in Seq(Byte)
    BY BytesAssumption
  <2> QED BY <2>1
<1>2. Len(g) = 2
  BY <1>1
<1>3. PICK u \in Seq(Byte) : u = key \o g /\ Len(u) = Len(key) + Len(g)
  BY ConcatProperties
<1>4. PICK t \in Seq(Byte) : t = u \o value /\ Len(t) = Len(u) + Len(value)
  BY ConcatProperties
<1>5. Field(key, value) = Line(t)
  BY <1>1, <1>3, <1>4 DEF Field
<1>6. Line(t) \in Seq(Byte) /\ Len(Line(t)) = Len(t) + 2
  BY LineLength
<1>7. Len(key) \in Nat /\ Len(value) \in Nat
  OBVIOUS
<1>8. Len(t) = Len(key) + Len(value) + 2
  BY <1>2, <1>3, <1>4, <1>7
<1> QED BY <1>5, <1>6, <1>7, <1>8

LEMMA AtField ==
  ASSUME NEW a, NEW key, NEW value, NEW b, NEW c, NEW d, wire \in Seq(Byte), a \in Nat,
         key \in Seq(Byte), value \in Seq(Byte), At(a, Field(key, value)),
         Spans(a, key, b), c = b + 2, Spans(c, value, d)
  PROVE  At(a, key) /\ At(b, <<COLON, SP>>) /\ At(c, value) /\ At(d, <<CR, LF>>)
<1>1. PICK g \in Seq(Byte) : g = <<COLON, SP>>
  <2>1. <<COLON, SP>> \in Seq(Byte)
    BY BytesAssumption
  <2> QED BY <2>1
<1>2. Len(g) = 2
  BY <1>1
<1>3. PICK u \in Seq(Byte) : u = key \o g /\ Len(u) = Len(key) + Len(g)
  BY ConcatProperties
<1>4. PICK t \in Seq(Byte) : t = u \o value /\ Len(t) = Len(u) + Len(value)
  BY ConcatProperties
<1>5. Field(key, value) = Line(t)
  BY <1>1, <1>3, <1>4 DEF Field
<1>6. Len(key) \in Nat /\ Len(value) \in Nat
  OBVIOUS
<1>7. Spans(a, t, d) /\ Spans(a, u, c)
  <2>1. b = a + Len(key) /\ c = b + 2 /\ d = c + Len(value)
    BY DEF Spans
  <2>2. d = a + Len(t) /\ c = a + Len(u)
    BY <1>2, <1>3, <1>4, <1>6, <2>1
  <2> QED BY <2>2 DEF Spans
<1>9. At(a, Line(t))
  BY <1>5
<1>10. At(a, t)
  BY <1>7, <1>9, AtLine
<1>11. At(d, <<CR, LF>>)
  BY <1>7, <1>9, AtLine
<1>12. At(a, u \o value)
  BY <1>4, <1>10
<1>13. At(a, u)
  BY <1>7, <1>12, AtParts
<1>14. At(c, value)
  BY <1>7, <1>12, AtParts
<1>15. At(a, key \o g)
  BY <1>3, <1>13
<1>16. At(a, key)
  BY <1>15, AtParts
<1>17. At(b, g)
  BY <1>15, AtParts
<1> QED BY <1>1, <1>11, <1>14, <1>16, <1>17

\* What a header at offset a leaves in the buffer: its name in lower case, closed
\* by a NUL, and two bytes later its value, closed by another.
Leaves(a, h) ==
  \E b, c, d \in Nat :
    /\ b = a + Len(h.key) /\ c = b + 2 /\ d = c + Len(h.value)
    /\ Kept(a, Lower(h.key))
    /\ Left(b + 1) = NUL
    /\ Kept(c, h.value)
    /\ Left(d + 1) = NUL

LEMMA ReadField ==
  ASSUME NEW a, NEW h, NEW s, NEW key, NEW stored, NEW n, wire \in Seq(Byte), a \in Nat,
         h \in Fields, At(a, Field(h.key, h.value)),
         s \in {"parse_request_line_crlf", "parse_value_crlf"}, Reads(a, s, key, stored),
         n = a + Len(Field(h.key, h.value))
  PROVE  Reads(n, "parse_value_crlf", a, Append(stored, a)) /\ Leaves(a, h)
<1> DEFINE name == h.key  value == h.value
<1>1. /\ name \in Seq(Byte \ {CR, COLON, NUL}) \ {<<>>} /\ value \in Seq(Byte \ {CR, NUL}) \ {<<>>}
      /\ name \in Seq(Byte) /\ value \in Seq(Byte) /\ Len(name) \in Nat /\ Len(value) \in Nat
  BY FieldFacts
<1>2. At(a, Field(name, value)) /\ n = a + Len(Field(name, value))
  OBVIOUS
<1>3. Leaves(a, h) <=>
        \E b, c, d \in Nat :
          /\ b = a + Len(name) /\ c = b + 2 /\ d = c + Len(value)
          /\ Kept(a, Lower(name))
          /\ Left(b + 1) = NUL
          /\ Kept(c, value)
          /\ Left(d + 1) = NUL
  BY DEF Leaves
<1> HIDE DEF name, value
<1>4. PICK b \in Nat : b = a + Len(name)
  BY <1>1
<1>5. PICK b1 \in Nat : b1 = b + 1
  BY <1>4
<1>6. PICK c \in Nat : c = b + 2
  BY <1>4
<1>7. PICK d \in Nat : d = c + Len(value)
  BY <1>1, <1>6
<1>8. PICK d1 \in Nat : d1 = d + 1
  BY <1>7
<1>9. c = b1 + 1 /\ n = d1 + 1 /\ n = d + 2
  <2>1. Len(Field(name, value)) = Len(name) + Len(value) + 4
    BY <1>1, FieldLength
  <2>2. n = a + (Len(name) + Len(value) + 4)
    BY <1>2, <2>1
  <2> QED BY <1>1, <1>4, <1>5, <1>6, <1>7, <1>8, <2>2
<1>10. Spans(a, name, b) /\ Spans(c, value, d)
  BY <1>4, <1>7 DEF Spans
<1>11. At(a, name) /\ At(b, <<COLON, SP>>) /\ At(c, value) /\ At(d, <<CR, LF>>)
  BY <1>1, <1>2, <1>6, <1>10, AtField
<1>12. Sent(b1) = COLON /\ Sent(c) = SP
  <2>1. At(b, <<COLON, SP>>)
    BY <1>11
  <2> QED BY <1>5, <1>6, <2>1, AtPair
<1>13. b1 <= Len(wire) /\ n = d + 2 /\ c = b1 + 1
  <2>1. At(d, <<CR, LF>>)
    BY <1>11
  <2>2. n <= Len(wire)
    BY <1>8, <1>9, <2>1, AtPair
  <2>3. Len(wire) \in Nat
    OBVIOUS
  <2> QED BY <1>1, <1>5, <1>6, <1>7, <1>9, <2>2, <2>3
<1>14. /\ Reads(b1, "parse_key_colon", a, stored) /\ Left(b1) = NUL
       /\ Kept(a, Lower(name))
  <2>1. /\ name \in Seq(Byte \ {CR, COLON, NUL}) \ {<<>>} /\ At(a, name) /\ Spans(a, name, b)
        /\ b1 <= Len(wire) /\ Sent(b1) = COLON
    BY <1>1, <1>10, <1>11, <1>12, <1>13
  <2>2. Reads(b1, "parse_key_colon", a, stored)
    BY <1>5, <2>1, ReadName
  <2>3. Left(b1) = NUL
    BY <1>5, <2>1, ReadName
  <2>4. Kept(a, Lower(name))
    BY <1>5, <2>1, ReadName
  <2> QED BY <2>2, <2>3, <2>4
<1>15. /\ Reads(n, "parse_value_crlf", a, Append(stored, a)) /\ Left(d1) = NUL
       /\ Kept(c, value)
  <2>1. /\ Reads(b1, "parse_key_colon", a, stored) /\ At(c, value) /\ At(d, <<CR, LF>>)
        /\ Sent(c) = SP /\ Spans(c, value, d) /\ value \in Seq(Byte \ {CR, NUL}) \ {<<>>}
    BY <1>1, <1>10, <1>11, <1>12, <1>14
  <2>2. c = b1 + 1 /\ d1 = d + 1 /\ n = d + 2
    BY <1>8, <1>13
  <2>3. Reads(n, "parse_value_crlf", a, Append(stored, a))
    BY <2>1, <2>2, ReadValue
  <2>4. Left(d1) = NUL
    BY <2>1, <2>2, ReadValue
  <2>5. Kept(c, value)
    BY <2>1, <2>2, ReadValue
  <2> QED BY <2>3, <2>4, <2>5
<1>16. Leaves(a, h)
  BY <1>3, <1>4, <1>5, <1>6, <1>7, <1>8, <1>14, <1>15
<1> QED BY <1>15, <1>16

----------------------------------------------------------------------------
(* The headers of a request.                                               *)
F == INSTANCE SeqFolds WITH Op <- Fielded

Written(r) == r.line \in Seq(Byte \ {CR}) /\ r.headers \in Seq(Fields)

\* Where the k-th header begins, counted from 0, and where all of them do.
Offset(r, k) == Len(Preamble(r, k))
Offsets(r, k) == [j \in 1..k |-> Offset(r, j - 1)]
FieldAt(r, k) == Field(r.headers[k].key, r.headers[k].value)

LEMMA FieldedFold == \A b, s : FoldLeft(Fielded, b, s) = F!Folded(b, s)
  BY DEF FoldLeft, MapThenFoldSet, Max, F!Folded

LEMMA PreambleNone ==
  ASSUME NEW r
  PROVE  Preamble(r, 0) = Line(r.line)
<1>1. SubSeq(r.headers, 1, 0) = <<>>
  BY SubSeqEmpty
<1>2. F!Folded(Line(r.line), <<>>) = Line(r.line)
  BY F!FoldEmpty
<1> QED BY <1>1, <1>2, FieldedFold DEF Preamble

LEMMA PreambleNext ==
  ASSUME NEW r, NEW k, NEW m, Written(r), k \in Nat, m = k + 1, m <= Len(r.headers)
  PROVE  Preamble(r, m) = Preamble(r, k) \o FieldAt(r, m)
<1> DEFINE front == SubSeq(r.headers, 1, k)  h == r.headers[m]
<1>1. front \in Seq(Fields) /\ h \in Fields /\ SubSeq(r.headers, 1, m) = Append(front, h)
  BY DEF Written
<1>2. Field(h.key, h.value) = FieldAt(r, m)
  BY DEF FieldAt
<1> HIDE DEF front, h
<1>3. F!Folded(Line(r.line), Append(front, h)) = Fielded(F!Folded(Line(r.line), front), h)
  BY <1>1, F!FoldAppend
<1> QED BY <1>1, <1>2, <1>3, FieldedFold DEF Preamble, Fielded, front

LEMMA FieldAtFacts ==
  ASSUME NEW r, NEW k, Written(r), k \in 1..Len(r.headers)
  PROVE  r.headers[k] \in Fields /\ FieldAt(r, k) \in Seq(Byte)
<1> DEFINE h == r.headers[k]
<1>1. h \in Fields
  BY DEF Written
<1>2. Field(h.key, h.value) = FieldAt(r, k)
  BY DEF FieldAt
<1> HIDE DEF h
<1>3. h.key \in Seq(Byte) /\ h.value \in Seq(Byte)
  BY <1>1, FieldFacts
<1>4. Field(h.key, h.value) \in Seq(Byte)
  BY <1>3, FieldLength
<1> QED BY <1>1, <1>2, <1>4 DEF h

LEMMA PreambleType ==
  ASSUME NEW r, Written(r)
  PROVE  \A k \in 0..Len(r.headers) : Preamble(r, k) \in Seq(Byte)
<1> DEFINE Good == {k \in Nat : k <= Len(r.headers) => Preamble(r, k) \in Seq(Byte)}
<1>1. 0 \in Good
  <2>1. r.line \in Seq(Byte)
    BY LineWithout DEF Written
  <2>2. Line(r.line) \in Seq(Byte)
    BY <2>1, LineLength
  <2> QED BY <2>2, PreambleNone
<1>2. ASSUME NEW k \in Good PROVE k + 1 \in Good
  <2> SUFFICES ASSUME k + 1 <= Len(r.headers) PROVE Preamble(r, k + 1) \in Seq(Byte)
    OBVIOUS
  <2>1. PICK m \in Nat : m = k + 1
    OBVIOUS
  <2>2. Len(r.headers) \in Nat
    BY DEF Written
  <2>3. m \in 1..Len(r.headers) /\ m <= Len(r.headers) /\ Preamble(r, k) \in Seq(Byte)
    BY <2>1, <2>2
  <2>4. FieldAt(r, m) \in Seq(Byte)
    BY <2>3, FieldAtFacts
  <2>5. Preamble(r, m) = Preamble(r, k) \o FieldAt(r, m)
    BY <2>1, <2>3, PreambleNext
  <2>6. Preamble(r, k) \o FieldAt(r, m) \in Seq(Byte)
    BY <2>3, <2>4, ConcatProperties
  <2> QED BY <2>1, <2>5, <2>6
<1>3. Good = Nat
  BY <1>1, <1>2, R!Induct
<1> HIDE DEF Good
<1>4. ASSUME NEW k \in 0..Len(r.headers) PROVE Preamble(r, k) \in Seq(Byte)
  <2>1. k \in Nat /\ k <= Len(r.headers)
    BY DEF Written
  <2> QED BY <1>3, <2>1 DEF Good
<1> QED BY <1>4

\* The first k headers, and the k-th, are where they begin.
LEMMA PreambleAt ==
  ASSUME NEW r, NEW k, NEW m, wire \in Seq(Byte), Written(r), k \in Nat, m = k + 1,
         m <= Len(r.headers), At(0, Preamble(r, m))
  PROVE  /\ At(0, Preamble(r, k)) /\ At(Offset(r, k), FieldAt(r, m))
         /\ Offset(r, k) \in Nat /\ Offset(r, m) = Offset(r, k) + Len(FieldAt(r, m))
<1>1. Len(r.headers) \in Nat
  BY DEF Written
<1>2. m \in 1..Len(r.headers) /\ k \in 0..Len(r.headers)
  BY <1>1
<1>3. Preamble(r, k) \in Seq(Byte)
  BY <1>2, PreambleType
<1>4. FieldAt(r, m) \in Seq(Byte)
  BY <1>2, FieldAtFacts
<1>5. Preamble(r, m) = Preamble(r, k) \o FieldAt(r, m)
  BY PreambleNext
<1>6. Offset(r, k) \in Nat
  BY <1>3 DEF Offset
<1>7. Len(Preamble(r, k) \o FieldAt(r, m)) = Len(Preamble(r, k)) + Len(FieldAt(r, m))
  BY <1>3, <1>4, ConcatProperties
<1>8. Offset(r, m) = Offset(r, k) + Len(FieldAt(r, m))
  BY <1>5, <1>7 DEF Offset
<1>9. Spans(0, Preamble(r, k), Offset(r, k))
  BY <1>6 DEF Spans, Offset
<1>10. At(0, Preamble(r, k) \o FieldAt(r, m)) /\ 0 \in Nat
  BY <1>5
<1>11. At(0, Preamble(r, k))
  BY <1>3, <1>4, <1>9, <1>10, AtParts
<1>12. At(Offset(r, k), FieldAt(r, m))
  BY <1>3, <1>4, <1>9, <1>10, AtParts
<1> QED BY <1>6, <1>8, <1>11, <1>12

LEMMA PreamblePrefixes ==
  ASSUME NEW r, NEW m, wire \in Seq(Byte), Written(r), m \in Nat, m <= Len(r.headers),
         At(0, Preamble(r, m))
  PROVE  \A k \in 0..m : At(0, Preamble(r, k))
<1> DEFINE Good == {j \in Nat : j <= m => At(0, Preamble(r, m - j))}
<1>1. 0 \in Good
  <2>1. m - 0 = m
    OBVIOUS
  <2> QED BY <2>1
<1>2. ASSUME NEW j \in Good PROVE j + 1 \in Good
  <2> SUFFICES ASSUME j + 1 <= m PROVE At(0, Preamble(r, m - (j + 1)))
    OBVIOUS
  <2>1. PICK k \in Nat : k = m - (j + 1)
    OBVIOUS
  <2>2. PICK o \in Nat : o = m - j
    OBVIOUS
  <2>3. Len(r.headers) \in Nat
    BY DEF Written
  <2>4. o = k + 1 /\ o <= Len(r.headers)
    BY <2>1, <2>2, <2>3
  <2>5. At(0, Preamble(r, o))
    BY <2>2
  <2>6. At(0, Preamble(r, k))
    BY <2>4, <2>5, PreambleAt
  <2> QED BY <2>1, <2>6
<1>3. Good = Nat
  BY <1>1, <1>2, R!Induct
<1> HIDE DEF Good
<1>4. ASSUME NEW k \in 0..m PROVE At(0, Preamble(r, k))
  <2>1. m - k \in Nat /\ m - k <= m /\ m - (m - k) = k
    OBVIOUS
  <2>2. m - k \in Good
    BY <1>3, <2>1
  <2>3. At(0, Preamble(r, m - (m - k)))
    BY <2>1, <2>2 DEF Good
  <2> QED BY <2>1, <2>3
<1> QED BY <1>4

LEMMA OffsetsFacts ==
  ASSUME NEW r, NEW k, NEW m, k \in Nat, m = k + 1
  PROVE  Offsets(r, 0) = <<>> /\ Offsets(r, m) = Append(Offsets(r, k), Offset(r, k))
<1> DEFINE S == {Offset(r, j - 1) : j \in 1..m}
<1>1. /\ Offsets(r, 0) \in [1..0 -> S] /\ Offsets(r, k) \in [1..k -> S]
      /\ Offsets(r, m) \in [1..m -> S]
  BY DEF Offsets
<1>2. /\ Offsets(r, 0) \in Seq(S) /\ Len(Offsets(r, 0)) = 0
      /\ Offsets(r, k) \in Seq(S) /\ Len(Offsets(r, k)) = k
      /\ Offsets(r, m) \in Seq(S) /\ Len(Offsets(r, m)) = m
  <2> HIDE DEF S
  <2>1. 0 \in Nat /\ m \in Nat
    OBVIOUS
  <2>2. Offsets(r, 0) \in Seq(S) /\ Len(Offsets(r, 0)) = 0
    BY <1>1, <2>1, R!FunctionLength
  <2>3. Offsets(r, k) \in Seq(S) /\ Len(Offsets(r, k)) = k
    BY <1>1, <2>1, R!FunctionLength
  <2>4. Offsets(r, m) \in Seq(S) /\ Len(Offsets(r, m)) = m
    BY <1>1, <2>1, R!FunctionLength
  <2> QED BY <2>2, <2>3, <2>4
<1>3. Offset(r, k) \in S
  <2>1. m \in 1..m /\ m - 1 = k
    OBVIOUS
  <2> QED BY <2>1
<1>4. \A j \in 1..m : Offsets(r, m)[j] = IF j <= k THEN Offsets(r, k)[j] ELSE Offset(r, k)
  <2>1. ASSUME NEW j \in 1..m
        PROVE  Offsets(r, m)[j] = IF j <= k THEN Offsets(r, k)[j] ELSE Offset(r, k)
    <3>1. Offsets(r, m)[j] = Offset(r, j - 1)
      BY DEF Offsets
    <3>2. CASE j <= k
      <4>1. j \in 1..k
        BY <3>2
      <4> QED BY <3>1, <3>2, <4>1 DEF Offsets
    <3>3. CASE ~ j <= k
      <4>1. j - 1 = k
        BY <3>3
      <4> QED BY <3>1, <3>3, <4>1
    <3> QED BY <3>2, <3>3
  <2> QED BY <2>1
<1> HIDE DEF S
<1>5. PICK longer : longer = Append(Offsets(r, k), Offset(r, k))
  OBVIOUS
<1>6. /\ longer \in Seq(S) /\ Len(longer) = m
      /\ \A j \in 1..m : longer[j] = IF j <= k THEN Offsets(r, k)[j] ELSE Offset(r, k)
  BY <1>2, <1>3, <1>5, AppendProperties
<1>7. longer = Offsets(r, m)
  BY <1>2, <1>4, <1>6, SeqEqual
<1> QED BY <1>2, <1>5, <1>7, EmptySeq

\* The reader between two headers.
HeaderEnds == {"parse_request_line_crlf", "parse_value_crlf"}
Between(r, k) ==
  \E s \in HeaderEnds : \E key : Reads(Offset(r, k), s, key, Offsets(r, k))

LEMMA ReadFirst ==
  ASSUME NEW r, wire \in Seq(Byte), Written(r), At(0, Preamble(r, 0))
  PROVE  Between(r, 0)
<1>1. r.line \in Seq(Byte) /\ r.line \in Seq(Byte \ {CR}) /\ Len(r.line) \in Nat
  BY LineWithout DEF Written
<1>2. At(0, Line(r.line))
  BY PreambleNone
<1>3. Offset(r, 0) = Len(r.line) + 2
  <2>1. Len(Line(r.line)) = Len(r.line) + 2
    BY <1>1, LineLength
  <2> QED BY <2>1, PreambleNone DEF Offset
<1>4. Reads(Offset(r, 0), "parse_request_line_crlf", 0, <<>>)
  BY <1>1, <1>2, <1>3, ReadLine
<1>5. Offsets(r, 0) = <<>>
  <2>1. 0 \in Nat /\ 1 = 0 + 1
    OBVIOUS
  <2> QED BY <2>1, OffsetsFacts
<1> QED BY <1>4, <1>5 DEF Between, HeaderEnds

LEMMA ReadNext ==
  ASSUME NEW r, NEW k, NEW m, wire \in Seq(Byte), Written(r), k \in Nat, m = k + 1,
         m <= Len(r.headers), At(0, Preamble(r, m)), Between(r, k)
  PROVE  Between(r, m) /\ Leaves(Offset(r, k), r.headers[m])
<1>1a. PICK s \in HeaderEnds : \E key : Reads(Offset(r, k), s, key, Offsets(r, k))
  BY DEF Between
<1>1. PICK key : Reads(Offset(r, k), s, key, Offsets(r, k))
  BY <1>1a
<1>2. PICK a : a = Offset(r, k)
  OBVIOUS
<1>3. PICK stored : stored = Offsets(r, k)
  OBVIOUS
<1>4. PICK n : n = Offset(r, m)
  OBVIOUS
<1>5. PICK h : h = r.headers[m]
  OBVIOUS
<1>6. h \in Fields /\ FieldAt(r, m) = Field(h.key, h.value)
  <2>1. Len(r.headers) \in Nat
    BY DEF Written
  <2>2. m \in 1..Len(r.headers)
    BY <2>1
  <2> QED BY <1>5, <2>2, FieldAtFacts DEF FieldAt
<1>7. /\ At(a, FieldAt(r, m)) /\ a \in Nat /\ n = a + Len(FieldAt(r, m))
  <2>1. At(Offset(r, k), FieldAt(r, m))
    BY PreambleAt
  <2>2. Offset(r, k) \in Nat
    BY PreambleAt
  <2>3. Offset(r, m) = Offset(r, k) + Len(FieldAt(r, m))
    BY PreambleAt
  <2> QED BY <1>2, <1>4, <2>1, <2>2, <2>3
<1>8. Reads(a, s, key, stored)
  BY <1>1, <1>2, <1>3
<1>9. At(a, Field(h.key, h.value)) /\ n = a + Len(Field(h.key, h.value))
  BY <1>6, <1>7
<1>10. Reads(n, "parse_value_crlf", a, Append(stored, a))
  BY <1>6, <1>7, <1>8, <1>9, ReadField DEF HeaderEnds
<1>11. Leaves(a, h)
  BY <1>6, <1>7, <1>8, <1>9, ReadField DEF HeaderEnds
<1>12. Append(stored, a) = Offsets(r, m)
  BY <1>2, <1>3, OffsetsFacts
<1> QED BY <1>2, <1>4, <1>5, <1>10, <1>11, <1>12 DEF Between, HeaderEnds

LEMMA ReadPreamble ==
  ASSUME NEW r, NEW m, wire \in Seq(Byte), Written(r), m \in Nat, m <= Len(r.headers),
         At(0, Preamble(r, m))
  PROVE  /\ \A k \in 0..m : Between(r, k)
         /\ \A k \in 0..m, j \in 1..m : j = k + 1 => Leaves(Offset(r, k), r.headers[j])
<1>1. \A k \in 0..m : At(0, Preamble(r, k))
  BY PreamblePrefixes
<1>2. Len(r.headers) \in Nat
  BY DEF Written
<1> DEFINE Good == {k \in Nat : k <= m => Between(r, k)}
<1>3. 0 \in Good
  <2>1. At(0, Preamble(r, 0))
    BY <1>1
  <2> QED BY <2>1, ReadFirst
<1>4. ASSUME NEW k \in Good PROVE k + 1 \in Good
  <2> SUFFICES ASSUME k + 1 <= m PROVE Between(r, k + 1)
    OBVIOUS
  <2>1. PICK o \in Nat : o = k + 1
    OBVIOUS
  <2>2. o <= Len(r.headers) /\ At(0, Preamble(r, o)) /\ Between(r, k)
    BY <1>1, <1>2, <2>1
  <2>3. Between(r, o)
    BY <2>1, <2>2, ReadNext
  <2> QED BY <2>1, <2>3
<1>5. Good = Nat
  BY <1>3, <1>4, R!Induct
<1> HIDE DEF Good
<1>6. ASSUME NEW k \in 0..m PROVE Between(r, k)
  <2>1. k \in Good /\ k <= m
    BY <1>5
  <2> QED BY <2>1 DEF Good
<1>7. ASSUME NEW k \in 0..m, NEW j \in 1..m, j = k + 1 PROVE Leaves(Offset(r, k), r.headers[j])
  <2>1. k \in Nat /\ j <= Len(r.headers) /\ At(0, Preamble(r, j)) /\ Between(r, k)
    BY <1>1, <1>2, <1>6
  <2> QED BY <1>7, <2>1, ReadNext
<1> QED BY <1>6, <1>7

\* A reader that is in error stays there.
LEMMA RefErrs ==
  ASSUME NEW c, NEW n, wire \in Seq(Byte), c \in Nat, RefAt(c).state = "p_error",
         n \in Nat, c <= n, n <= Len(wire)
  PROVE  RefAt(n).state = "p_error"
<1> DEFINE Good == {k \in Nat : c + k <= Len(wire) => RefAt(c + k).state = "p_error"}
<1>1. 0 \in Good
  OBVIOUS
<1>2. ASSUME NEW k \in Good PROVE k + 1 \in Good
  <2> SUFFICES ASSUME c + (k + 1) <= Len(wire) PROVE RefAt(c + (k + 1)).state = "p_error"
    OBVIOUS
  <2> DEFINE m == c + k  b == wire[m + 1]  p == RefAt(m)
  <2>1. m \in Nat /\ m + 1 <= Len(wire) /\ c + (k + 1) = m + 1 /\ RefAt(m).state = "p_error"
    OBVIOUS
  <2>2. b \in Byte /\ p.state = "p_error"
    BY <2>1
  <2> HIDE DEF m
  <2>3. RefAt(m + 1) = RefStep(p, b)
    BY <2>1, RefAtNext
  <2> HIDE DEF b, p
  <2>4. PICK r \in Fsm : r = Row("p_error", Byte, "p_error", {})
    BY DEF Fsm
  <2>5. r.cur = "p_error" /\ r.on = Byte /\ r.next = "p_error"
    BY <2>4 DEF Row
  <2>6. RefStep(p, b).state = r.next
    BY <2>2, <2>5, RefStepRow
  <2> QED BY <2>1, <2>3, <2>5, <2>6
<1>3. Good = Nat
  BY <1>1, <1>2, R!Induct
<1>4. n - c \in Nat /\ c + (n - c) = n
  OBVIOUS
<1>5. n - c \in Good
  BY <1>3, <1>4
<1> QED BY <1>4, <1>5

\* All of the headers: the reader is in the body right behind them, and before that
\* neither there nor in error.
LEMMA ReadHeaders ==
  ASSUME NEW r, NEW m, NEW n, wire \in Seq(Byte), Written(r), m = Len(r.headers),
         At(0, HeaderBlock(r)), n = Len(HeaderBlock(r))
  PROVE  /\ n \in Nat /\ n = Offset(r, m) + 2 /\ n <= Len(wire)
         /\ At(0, Preamble(r, m))
         /\ RefAt(n).state = "parse_content" /\ RefAt(n).content = n
         /\ RefAt(n).keys = Offsets(r, m)
         /\ \A o \in 0..n :
              RefAt(o).state # "p_error" /\ (RefAt(o).state = "parse_content" => o = n)
<1>1. m \in Nat /\ m <= m /\ m \in 0..m
  BY DEF Written
<1>2. Preamble(r, m) \in Seq(Byte)
  BY <1>1, PreambleType
<1>3. HeaderBlock(r) = Line(Preamble(r, m))
  BY DEF HeaderBlock
<1>4. Spans(0, Preamble(r, m), Offset(r, m)) /\ Offset(r, m) \in Nat
  BY <1>2 DEF Spans, Offset
<1>5. At(0, Line(Preamble(r, m))) /\ 0 \in Nat
  BY <1>3
<1>6. At(0, Preamble(r, m))
  BY <1>2, <1>4, <1>5, AtLine
<1>7. At(Offset(r, m), <<CR, LF>>)
  BY <1>2, <1>4, <1>5, AtLine
<1>8. n = Offset(r, m) + 2
  BY <1>2, <1>3, LineLength DEF Offset
<1>9. Between(r, m)
  <2>1. \A k \in 0..m : Between(r, k)
    BY <1>1, <1>6, ReadPreamble
  <2> QED BY <1>1, <2>1
<1>10a. PICK s \in HeaderEnds : \E key : Reads(Offset(r, m), s, key, Offsets(r, m))
  BY <1>9 DEF Between
<1>10. PICK key : Reads(Offset(r, m), s, key, Offsets(r, m))
  BY <1>10a
<1>11. PICK a \in Nat : a = Offset(r, m)
  BY <1>4
<1>12. PICK stored : stored = Offsets(r, m)
  OBVIOUS
<1>13. Reads(a, s, key, stored) /\ At(a, <<CR, LF>>) /\ n = a + 2
  BY <1>7, <1>8, <1>10, <1>11, <1>12
<1>14. a + 2 <= Len(wire)
  BY <1>13, ReadBlank DEF HeaderEnds
<1>15. RefAt(a + 2) = [state |-> "parse_content", read |-> a + 2, key |-> key,
                       keys |-> stored, content |-> a + 2]
  BY <1>13, ReadBlank DEF HeaderEnds
<1>16. RefAt(a + 1).state # "parse_content"
  BY <1>13, ReadBlank DEF HeaderEnds
<1>17. RefAt(n).state = "parse_content" /\ RefAt(n).keys = stored /\ RefAt(n).content = n
  BY <1>13, <1>15
<1>18. n \in Nat /\ n <= Len(wire)
  BY <1>13, <1>14
<1>19. ASSUME NEW o \in 0..n PROVE RefAt(o).state # "p_error"
  <2>1. o \in Nat /\ o <= n
    BY <1>18
  <2> QED BY <1>17, <1>18, <2>1, RefErrs
<1>20. ASSUME NEW o \in 0..n, RefAt(o).state = "parse_content" PROVE o = n
  <2>1. SUFFICES ASSUME o <= a + 1 PROVE FALSE
    BY <1>13, <1>18
  <2>2. o \in Nat /\ a + 1 \in Nat /\ a + 1 <= Len(wire)
    <3>1. Len(wire) \in Nat
      OBVIOUS
    <3> QED BY <1>14, <1>18, <3>1
  <2>3. RefAt(a + 1) = RefAt(o)
    BY <1>20, <2>1, <2>2, RefAbsorbs
  <2> QED BY <1>16, <1>20, <2>3
<1> QED BY <1>6, <1>8, <1>12, <1>17, <1>18, <1>19, <1>20

----------------------------------------------------------------------------
(* The requests the query builder builds.                                  *)

\* What it writes before User-Agent is a request line and one header.
Started(q) ==
  [line |-> Post \o <<SP>> \o q.url \o <<SP, SP>> \o Version,
   headers |-> << [key |-> Accept, value |-> AnyType \o <<SP>>] >>]

LEMMA SequenceParts ==
  ASSUME NEW S, NEW s, NEW t, s \in Seq(S), t \in Seq(S)
  PROVE  s \o t \in Seq(S) /\ Len(s \o t) = Len(s) + Len(t)
BY ConcatProperties

LEMMA StartedWritten ==
  ASSUME NEW q \in Queries
  PROVE  Written(Started(q)) /\ Len(Started(q).headers) = 1
<1> DEFINE S == Byte \ {CR}  V == Byte \ {CR, NUL}
<1>1. SP \in Byte /\ SP # CR /\ SP # NUL
  BY BytesAssumption
<1>2. <<SP>> \in Seq(S) /\ <<SP, SP>> \in Seq(S) /\ <<SP>> \in Seq(V)
  BY <1>1
<1>3. /\ Post \in Seq(S) /\ q.url \in Seq(S) /\ Version \in Seq(S) /\ AnyType \in Seq(V)
      /\ Accept \in Seq(Byte \ {CR, COLON, NUL}) \ {<<>>}
  BY BuilderAssumption
<1> HIDE DEF S
<1>4. Post \o <<SP>> \in Seq(S)
  BY <1>2, <1>3, SequenceParts
<1>5. Post \o <<SP>> \o q.url \in Seq(S)
  BY <1>3, <1>4, SequenceParts
<1>6. Post \o <<SP>> \o q.url \o <<SP, SP>> \in Seq(S)
  BY <1>2, <1>5, SequenceParts
<1>7. Post \o <<SP>> \o q.url \o <<SP, SP>> \o Version \in Seq(S)
  BY <1>3, <1>6, SequenceParts
<1>8. PICK v : v = AnyType \o <<SP>>
  OBVIOUS
<1>9. v \in Seq(V) /\ v # <<>>
  <2> HIDE DEF V
  <2>1. AnyType \o <<SP>> \in Seq(V) /\ Len(AnyType \o <<SP>>) = Len(AnyType) + Len(<<SP>>)
    BY <1>2, <1>3, SequenceParts
  <2>2. Len(<<SP>>) = 1 /\ Len(AnyType) \in Nat
    BY <1>3
  <2>3. Len(v) # 0
    BY <1>8, <2>1, <2>2
  <2> QED BY <1>8, <2>1, <2>3, EmptySeq
<1>10. PICK h : h = [key |-> Accept, value |-> v]
  OBVIOUS
<1>11. h \in Fields
  BY <1>3, <1>9, <1>10 DEF Fields
<1>12. <<h>> \in Seq(Fields) /\ Len(<<h>>) = 1
  BY <1>11
<1>13. /\ Started(q).headers = <<h>>
       /\ Started(q).line = Post \o <<SP>> \o q.url \o <<SP, SP>> \o Version
  BY <1>8, <1>10 DEF Started
<1> QED BY <1>7, <1>12, <1>13 DEF Written, S

\* Where User-Agent begins.
LEMMA OpeningParts ==
  ASSUME NEW q \in Queries
  PROVE  /\ Opening(q) = Preamble(Started(q), 1) \o UserAgent \o <<COLON>>
         /\ Preamble(Started(q), 1) \in Seq(Byte) /\ Opening(q) \in Seq(Byte)
         /\ Len(Opening(q)) = Len(Preamble(Started(q), 1)) + Len(UserAgent) + 1
<1> DEFINE r == Started(q)
<1>1. Written(r) /\ Len(r.headers) = 1
  BY StartedWritten
<1>2. FieldAt(r, 1) = Field(Accept, AnyType \o <<SP>>)
  BY DEF FieldAt, Started
<1>3. r.line = Post \o <<SP>> \o q.url \o <<SP, SP>> \o Version
  BY DEF Started
<1> HIDE DEF r
<1>4. PICK p : p = Preamble(r, 1)
  OBVIOUS
<1>5. p = Line(r.line) \o FieldAt(r, 1)
  <2>1. Preamble(r, 1) = Preamble(r, 0) \o FieldAt(r, 1)
    <3>1. 0 \in Nat /\ 1 = 0 + 1 /\ 1 <= Len(r.headers)
      BY <1>1
    <3> QED BY <1>1, <3>1, PreambleNext
  <2> QED BY <1>4, <2>1, PreambleNone
<1>6. p \in Seq(Byte)
  <2>1. 1 \in 0..Len(r.headers)
    BY <1>1
  <2> QED BY <1>1, <1>4, <2>1, PreambleType
<1>7. Opening(q) = p \o UserAgent \o <<COLON>>
  BY <1>2, <1>3, <1>5 DEF Opening
<1>8. UserAgent \in Seq(Byte)
  <2>1. UserAgent \in Seq(Byte \ {CR, COLON, NUL})
    BY BuilderAssumption
  <2> QED BY <2>1, LineWithout
<1>9. PICK e : e = <<COLON>> /\ e \in Seq(Byte) /\ Len(e) = 1
  <2>1. <<COLON>> \in Seq(Byte) /\ Len(<<COLON>>) = 1
    BY BytesAssumption
  <2> QED BY <2>1
<1>10. p \o UserAgent \in Seq(Byte) /\ Len(p \o UserAgent) = Len(p) + Len(UserAgent)
  BY <1>6, <1>8, SequenceParts
<1>11. /\ p \o UserAgent \o e \in Seq(Byte)
       /\ Len(p \o UserAgent \o e) = Len(p \o UserAgent) + Len(e)
  BY <1>9, <1>10, SequenceParts
<1>12. Len(Opening(q)) = Len(p) + Len(UserAgent) + 1
  BY <1>7, <1>9, <1>10, <1>11
<1> QED BY <1>4, <1>6, <1>7, <1>9, <1>11, <1>12 DEF r

LEMMA ClosingType ==
  ASSUME NEW q \in Queries
  PROVE  Attached(Host, q.host) \o Closing(q) \in Seq(Byte) /\ Attached(Host, q.host) \in Seq(Byte)
         /\ Closing(q) \in Seq(Byte)
<1>1. /\ Host \in Seq(Byte) /\ ContentType \in Seq(Byte) /\ AuthToken \in Seq(Byte)
      /\ ContentLength \in Seq(Byte) /\ q.host \in Seq(Byte) /\ q.type \in Seq(Byte)
      /\ q.token \in Seq(Byte) /\ q.body \in Seq(Byte) /\ Decimal(Len(q.body)) \in Seq(Byte)
  BY BuilderAssumption
<1>2. <<COLON>> \in Seq(Byte) /\ <<CR, LF>> \in Seq(Byte) /\ <<>> \in Seq(Byte)
  BY BytesAssumption
<1>3. Attached(Host, q.host) \in Seq(Byte)
  <2>1. Host \o <<COLON>> \in Seq(Byte)
    BY <1>1, <1>2, SequenceParts
  <2>2. Host \o <<COLON>> \o q.host \in Seq(Byte)
    BY <1>1, <2>1, SequenceParts
  <2> QED BY <2>2, LineLength DEF Attached
<1>4. Field(ContentType, q.type) \in Seq(Byte)
  BY <1>1, FieldLength
<1> DEFINE token == IF q.token = <<>> THEN <<>> ELSE Field(AuthToken, q.token)
           body == IF q.hasBody
                   THEN Field(ContentLength, Decimal(Len(q.body))) \o <<CR, LF>> \o q.body
                   ELSE <<>>
<1>5. token \in Seq(Byte)
  BY <1>1, <1>2, FieldLength
<1>6. body \in Seq(Byte)
  <2>1. Field(ContentLength, Decimal(Len(q.body))) \in Seq(Byte)
    BY <1>1, FieldLength
  <2>2. Field(ContentLength, Decimal(Len(q.body))) \o <<CR, LF>> \in Seq(Byte)
    BY <1>2, <2>1, SequenceParts
  <2>3. Field(ContentLength, Decimal(Len(q.body))) \o <<CR, LF>> \o q.body \in Seq(Byte)
    BY <1>1, <2>2, SequenceParts
  <2> QED BY <1>2, <2>3
<1>7. Closing(q) = Field(ContentType, q.type) \o token \o body
  BY DEF Closing
<1> HIDE DEF token, body
<1>8. Field(ContentType, q.type) \o token \in Seq(Byte)
  BY <1>4, <1>5, SequenceParts
<1>9. Closing(q) \in Seq(Byte)
  BY <1>6, <1>7, <1>8, SequenceParts
<1>10. Attached(Host, q.host) \o Closing(q) \in Seq(Byte)
  BY <1>3, <1>9, SequenceParts
<1> QED BY <1>3, <1>9, <1>10

\* A byte without a row.
LEMMA ReadNothing ==
  ASSUME NEW n, NEW m, NEW s, NEW key, NEW stored, wire \in Seq(Byte), n \in Nat, m = n + 1,
         m <= Len(wire), Reads(n, s, key, stored), s # "parse_content",
         ~ \E r \in Fsm : r.cur = s /\ Sent(m) \in r.on
  PROVE  RefAt(m).state = "p_error"
<1> DEFINE p == RefAt(n)  b == wire[n + 1]
<1>1. RefAt(n + 1) = RefStep(p, b)
  BY RefAtNext
<1>2. p = Reader(s, n, key, stored) /\ b = Sent(m)
  BY DEF Reads, Sent
<1> HIDE DEF p, b
<1>3. p.state = s /\ p = [state |-> s, read |-> n, key |-> key, keys |-> stored, content |-> 0]
  BY <1>2 DEF Reader
<1>4. {x \in Fsm : x.cur = p.state /\ b \in x.on} = {}
  BY <1>2, <1>3
<1>5. RefStep(p, b) = [p EXCEPT !.state = "p_error", !.read = @ + 1]
  BY <1>3, <1>4 DEF RefStep
<1>6. RefStep(p, b).state = "p_error"
  BY <1>3, <1>5
<1> QED BY <1>1, <1>6

\* The first byte of the program's name is an error.
LEMMA BuiltErrs ==
  ASSUME NEW q \in Queries, wire = build_query(q)
  PROVE  /\ Len(Opening(q)) \in Nat /\ Len(Opening(q)) + 1 <= Len(wire) /\ wire \in Seq(Byte)
         /\ RefAt(Len(Opening(q)) + 1).state = "p_error"
<1>1. /\ Opening(q) = Preamble(Started(q), 1) \o UserAgent \o <<COLON>>
      /\ Preamble(Started(q), 1) \in Seq(Byte) /\ Opening(q) \in Seq(Byte)
      /\ Len(Opening(q)) = Len(Preamble(Started(q), 1)) + Len(UserAgent) + 1
  BY OpeningParts
<1>2. PICK p \in Seq(Byte) : p = Preamble(Started(q), 1)
  BY <1>1
<1>3. PICK head \in Seq(Byte) : head = Opening(q)
  BY <1>1
<1>4. PICK agent \in Seq(Byte) : agent = Line(Agent) /\ Len(agent) = Len(Agent) + 2
  <2>1. Agent \in Seq(Byte)
    BY BuilderAssumption
  <2> QED BY <2>1, LineLength
<1>5. PICK host \in Seq(Byte) : host = Attached(Host, q.host)
  BY ClosingType
<1>6. PICK rest \in Seq(Byte) : rest = Closing(q)
  BY ClosingType
<1>7. wire = head \o agent \o host \o rest
  BY <1>3, <1>4, <1>5, <1>6 DEF build_query
<1>8. head \o agent \in Seq(Byte) /\ Len(head \o agent) = Len(head) + Len(agent)
  BY SequenceParts
<1>9. /\ head \o agent \o host \in Seq(Byte)
      /\ Len(head \o agent \o host) = Len(head \o agent) + Len(host)
  BY <1>8, SequenceParts
<1>10. wire \in Seq(Byte)
  BY <1>7, <1>9, SequenceParts
<1>11. At(0, wire) /\ 0 \in Nat
  BY <1>10 DEF At, Sent
<1>12. At(0, head \o agent \o host)
  <2>1. Spans(0, head \o agent \o host, Len(head \o agent \o host))
    BY <1>9 DEF Spans
  <2>2. At(0, head \o agent \o host \o rest)
    BY <1>7, <1>11
  <2> QED BY <1>9, <1>10, <1>11, <2>1, <2>2, AtParts
<1>13. At(0, head \o agent)
  <2>1. Spans(0, head \o agent, Len(head \o agent))
    BY <1>8 DEF Spans
  <2> QED BY <1>8, <1>10, <1>11, <1>12, <2>1, AtParts
<1>14. PICK n \in Nat : n = Len(head)
  OBVIOUS
<1>15. Spans(0, head, n)
  BY <1>14 DEF Spans
<1>16. At(0, head)
  BY <1>10, <1>11, <1>13, <1>15, AtParts
<1>17. At(n, agent)
  BY <1>10, <1>11, <1>13, <1>15, AtParts
\* The byte behind the colon of User-Agent.
<1>18. PICK o \in Nat : o = n + 1
  OBVIOUS
<1>19. Sent(o) # SP /\ o <= Len(wire)
  <2>1. Agent \in Seq(Byte) /\ Len(Agent) \in Nat /\ (Agent = <<>> \/ Agent[1] # SP)
    BY BuilderAssumption
  <2>2. Len(agent) >= 1 /\ 1 \in 1..Len(agent) /\ Len(wire) \in Nat
    BY <1>4, <1>10, <2>1
  <2>3. Sent(n + 1) = agent[1] /\ n + Len(agent) <= Len(wire)
    BY <1>17, <2>2 DEF At
  <2>4. agent[1] # SP
    <3>1. PICK e \in Seq(Byte) : e = <<CR, LF>> /\ Len(e) = 2 /\ e[1] = CR
      <4>1. <<CR, LF>> \in Seq(Byte) /\ Len(<<CR, LF>>) = 2 /\ <<CR, LF>>[1] = CR
        BY BytesAssumption
      <4> QED BY <4>1
    <3>2. agent = Agent \o e
      BY <1>4, <3>1 DEF Line
    <3>3. agent[1] = IF 1 <= Len(Agent) THEN Agent[1] ELSE e[1 - Len(Agent)]
      <4>1. 1 \in 1..Len(Agent) + Len(e)
        BY <2>1, <3>1
      <4> QED BY <2>1, <3>2, <4>1, ConcatProperties
    <3>4. CASE 1 <= Len(Agent)
      <4>1. Agent # <<>>
        BY <3>4, EmptySeq
      <4> QED BY <2>1, <3>3, <3>4, <4>1
    <3>5. CASE ~ 1 <= Len(Agent)
      <4>1. 1 - Len(Agent) = 1
        BY <2>1, <3>5
      <4>2. SP # CR
        BY BytesAssumption
      <4> QED BY <3>1, <3>3, <3>5, <4>1, <4>2
    <3> QED BY <3>4, <3>5
  <2>5. o <= n + Len(agent) /\ n + Len(agent) \in Nat
    BY <1>18, <2>2
  <2> QED BY <1>18, <2>2, <2>3, <2>4, <2>5
\* The name of the header in front of it.
<1>20. /\ UserAgent \in Seq(Byte \ {CR, COLON, NUL}) \ {<<>>} /\ UserAgent \in Seq(Byte)
       /\ Len(UserAgent) \in Nat
  <2>1. UserAgent \in Seq(Byte \ {CR, COLON, NUL}) \ {<<>>}
    BY BuilderAssumption
  <2> QED BY <2>1, LineWithout
<1>21. PICK colon \in Seq(Byte) : colon = <<COLON>> /\ Len(colon) = 1 /\ colon[1] = COLON
  <2>1. <<COLON>> \in Seq(Byte) /\ Len(<<COLON>>) = 1 /\ <<COLON>>[1] = COLON
    BY BytesAssumption
  <2> QED BY <2>1
<1>22. head = p \o UserAgent \o colon /\ n = Len(p) + Len(UserAgent) + 1
  BY <1>1, <1>2, <1>3, <1>14, <1>21
<1>23. p \o UserAgent \in Seq(Byte) /\ Len(p \o UserAgent) = Len(p) + Len(UserAgent)
  BY <1>20, SequenceParts
<1>24. PICK a \in Nat : a = Len(p)
  OBVIOUS
<1>25. PICK b \in Nat : b = a + Len(UserAgent)
  BY <1>20
<1>26. n = b + 1
  BY <1>20, <1>22, <1>24, <1>25
<1>27. Spans(0, p \o UserAgent, b) /\ Spans(0, p, a) /\ Spans(a, UserAgent, b)
  BY <1>20, <1>23, <1>24, <1>25 DEF Spans
<1>28. At(0, p \o UserAgent \o colon)
  BY <1>16, <1>22
<1>29. At(0, p \o UserAgent)
  BY <1>10, <1>11, <1>23, <1>27, <1>28, AtParts
<1>30. At(b, colon)
  BY <1>10, <1>11, <1>23, <1>27, <1>28, AtParts
<1>31. At(0, p)
  BY <1>10, <1>11, <1>20, <1>27, <1>29, AtParts
<1>32. At(a, UserAgent)
  BY <1>10, <1>11, <1>20, <1>27, <1>29, AtParts
<1>33. Sent(n) = COLON /\ n <= Len(wire)
  <2>1. 1 \in 1..Len(colon) /\ Len(wire) \in Nat
    BY <1>10, <1>21
  <2>2. Sent(b + 1) = colon[1]
    BY <1>30, <2>1 DEF At
  <2> QED BY <1>18, <1>19, <1>21, <1>26, <2>1, <2>2
\* The reader is between the colon and it.
<1>34. Between(Started(q), 1)
  <2>1. Written(Started(q)) /\ 1 \in Nat /\ 1 <= Len(Started(q).headers) /\ 1 \in 0..1
    <3>1. Written(Started(q)) /\ Len(Started(q).headers) = 1
      BY StartedWritten
    <3>2. 1 <= 1 /\ 1 \in Nat /\ 1 \in 0..1
      OBVIOUS
    <3> QED BY <3>1, <3>2
  <2>2. At(0, Preamble(Started(q), 1))
    BY <1>2, <1>31
  <2>3. \A k \in 0..1 : Between(Started(q), k)
    BY <1>10, <2>1, <2>2, ReadPreamble
  <2> QED BY <2>1, <2>3
<1>35a. PICK s \in HeaderEnds :
         \E key : Reads(Offset(Started(q), 1), s, key, Offsets(Started(q), 1))
  BY <1>34 DEF Between
<1>35. PICK key : Reads(Offset(Started(q), 1), s, key, Offsets(Started(q), 1))
  BY <1>35a
<1>36. PICK stored : Reads(a, s, key, stored)
  BY <1>2, <1>24, <1>35 DEF Offset
<1>37. Reads(n, "parse_key_colon", a, stored)
  BY <1>10, <1>20, <1>26, <1>27, <1>32, <1>33, <1>36, ReadName DEF HeaderEnds
<1>38. ~ \E r \in Fsm : r.cur = "parse_key_colon" /\ Sent(o) \in r.on
  BY <1>19 DEF Fsm, Row
<1>39. RefAt(o).state = "p_error"
  BY <1>10, <1>18, <1>19, <1>37, <1>38, ReadNothing
<1> QED BY <1>3, <1>10, <1>14, <1>18, <1>19, <1>39

LEMMA ReadingBuilt == ReadingIInv => BuiltQueriesRejected
<1> SUFFICES ASSUME ReadingIInv, NEW q \in Queries, pc = "idle", wire = build_query(q)
             PROVE  status # "Done" /\ (Len(data) > Len(Opening(q)) => status = "Error")
  BY DEF BuiltQueriesRejected
<1>1. /\ data \in Seq(Byte) /\ contentStart \in 0..Len(data)
      /\ status \in {"Incomplete", "Done", "Error"}
      /\ Reading /\ CaughtUp /\ Verdict /\ Len(data) <= Len(wire)
  BY DEF ReadingIInv, PayloadIInv, IInv, TypeOK, Received
<1>2. PICK n \in Nat, o \in Nat :
        /\ n = Len(Opening(q)) /\ o = n + 1 /\ o <= Len(wire) /\ wire \in Seq(Byte)
        /\ RefAt(o).state = "p_error"
  <2>1. /\ Len(Opening(q)) \in Nat /\ Len(Opening(q)) + 1 <= Len(wire) /\ wire \in Seq(Byte)
        /\ RefAt(Len(Opening(q)) + 1).state = "p_error"
    BY BuiltErrs
  <2> QED BY <2>1
<1>3. Len(data) \in Nat /\ Len(wire) \in Nat /\ contentStart \in Nat /\ contentStart <= Len(data)
  BY <1>1, <1>2
<1>4. state # "parse_content"
  <2>1. SUFFICES ASSUME state = "parse_content" PROVE FALSE
    OBVIOUS
  <2>2. RefAt(contentStart).state = "parse_content" /\ contentStart <= Len(wire)
    BY <1>1, <1>3, <2>1 DEF Reading, Unread
  <2>3. CASE contentStart <= o
    <3>1. RefAt(o) = RefAt(contentStart)
      BY <1>2, <1>3, <2>2, <2>3, RefAbsorbs
    <3> QED BY <1>2, <2>2, <3>1
  <2>4. CASE o <= contentStart
    <3>1. RefAt(contentStart).state = "p_error"
      BY <1>2, <1>3, <2>2, <2>4, RefErrs
    <3> QED BY <2>2, <3>1
  <2> QED BY <1>2, <1>3, <2>3, <2>4
<1>5. status # "Done"
  BY <1>1, <1>4 DEF Verdict
<1>6. ASSUME Len(data) > Len(Opening(q)) PROVE status = "Error"
  <2>1. SUFFICES ASSUME status = "Incomplete" PROVE FALSE
    BY <1>1, <1>5
  <2>2. Unread = Len(data) /\ state # "p_error"
    BY <1>1, <1>4, <2>1 DEF CaughtUp, Verdict, Unread
  <2>3. RefAt(Len(data)).state = state
    BY <1>1, <2>2 DEF Reading
  <2>4. o <= Len(data)
    BY <1>2, <1>3, <1>6
  <2>5. RefAt(Len(data)).state = "p_error"
    BY <1>1, <1>2, <1>3, <2>4, RefErrs
  <2> QED BY <2>2, <2>3, <2>5
<1> QED BY <1>5, <1>6

----------------------------------------------------------------------------
(* The strings the accessors read.                                         *)

LEMMA CStringIs ==
  ASSUME NEW d, NEW start, NEW s, d \in Seq(Byte), start \in Nat, s \in Seq(Byte),
         start + Len(s) < Len(d), \A j \in 1..Len(s) : d[start + j] = s[j] /\ s[j] # NUL,
         d[start + Len(s) + 1] = NUL
  PROVE  CString(d, start) = s
<1> PICK len \in Nat : len = Len(s)
  OBVIOUS
<1> PICK size \in Nat : size = Len(d)
  OBVIOUS
<1> PICK stop \in Nat : stop = start + len
  OBVIOUS
<1> DEFINE ends == {n \in start..Len(d) : n = Len(d) \/ d[n + 1] = NUL}
<1>1. stop \in ends
  <2>1. d[stop + 1] = NUL /\ stop \in start..Len(d)
    OBVIOUS
  <2> QED BY <2>1
<1>2. ASSUME NEW n \in ends PROVE stop <= n
  <2>1. SUFFICES ASSUME n < stop PROVE FALSE
    OBVIOUS
  <2>2. PICK j \in 1..len : n + 1 = start + j
    <3>1. n + 1 - start \in 1..len /\ n + 1 = start + (n + 1 - start)
      BY <2>1
    <3> QED BY <3>1
  <2>3. d[n + 1] = s[j] /\ s[j] # NUL
    BY <2>2
  <2>4. n # Len(d)
    BY <2>1
  <2> QED BY <2>3, <2>4
<1>3. (CHOOSE n \in ends : \A m \in ends : n <= m) = stop
  <2>0. ends \subseteq Int
    OBVIOUS
  <2> HIDE DEF ends
  <2> DEFINE first == CHOOSE n \in ends : \A m \in ends : n <= m
  <2>1. first \in ends /\ \A m \in ends : first <= m
    BY <1>1, <1>2
  <2> HIDE DEF first
  <2>2. first <= stop /\ stop <= first /\ first \in Int
    BY <1>1, <1>2, <2>0, <2>1
  <2>3. first = stop
    BY <2>2
  <2> QED BY <2>3 DEF first
<1>4. CString(d, start) = SubSeq(d, start + 1, stop)
  BY <1>3 DEF CString
<1>5. /\ SubSeq(d, start + 1, stop) \in Seq(Byte) /\ Len(SubSeq(d, start + 1, stop)) = len
      /\ \A j \in 1..len : SubSeq(d, start + 1, stop)[j] = d[start + j]
  <2>1. start + 1 \in Nat /\ start + 1 >= 1 /\ stop <= size
    OBVIOUS
  <2> QED BY <2>1
<1>6. \A j \in 1..len : SubSeq(d, start + 1, stop)[j] = s[j]
  BY <1>5
<1>7. SubSeq(d, start + 1, stop) = s
  <2> PICK u : u = SubSeq(d, start + 1, stop)
    OBVIOUS
  <2>1. u \in Seq(Byte) /\ Len(u) = Len(s) /\ \A j \in 1..Len(u) : u[j] = s[j]
    BY <1>5, <1>6
  <2>2. u = s
    BY <2>1, SeqEqual
  <2> QED BY <2>2
<1> QED BY <1>4, <1>7

\* A string in a buffer that holds what the machine left of bytes lo + 1 .. hi.
Holds(d, lo, hi) == d \in Seq(Byte) /\ \A n \in Nat : lo < n /\ n <= hi => d[n] = Left(n)

LEMMA KeptString ==
  ASSUME NEW d, NEW lo, NEW hi, NEW a, NEW s, NEW b, Holds(d, lo, hi), hi <= Len(d),
         lo \in Nat, hi \in Nat, a \in Nat, lo <= a, s \in Seq(Byte), Kept(a, s),
         \A j \in 1..Len(s) : s[j] # NUL, Spans(a, s, b), b + 1 <= hi, Left(b + 1) = NUL
  PROVE  CString(d, a) = s
<1>1. d \in Seq(Byte) /\ Len(d) \in Nat /\ Len(s) \in Nat /\ b = a + Len(s) /\ b \in Nat
  BY DEF Holds, Spans
<1>2. a + Len(s) < Len(d)
  BY <1>1
<1>3. d[a + Len(s) + 1] = NUL
  <2>1. d[b + 1] = Left(b + 1)
    BY <1>1 DEF Holds
  <2> QED BY <1>1, <2>1
<1>4. ASSUME NEW j \in 1..Len(s) PROVE d[a + j] = s[j] /\ s[j] # NUL
  <2>1. PICK n \in Nat : n = a + j
    OBVIOUS
  <2>2. lo < n /\ n <= hi
    BY <1>1, <2>1
  <2>3. d[n] = Left(n)
    BY <2>2 DEF Holds
  <2>4. Left(a + j) = s[j]
    BY DEF Kept
  <2> QED BY <2>1, <2>3, <2>4
<1> QED BY <1>1, <1>2, <1>3, <1>4, CStringIs

\* Where the value of a header begins, and where the header ends.
ValueAt(a, h) == a + Len(h.key) + 2
EndOf(a, h) == a + Len(Field(h.key, h.value))

\* A header the buffer holds is read as its name in lower case, and as its value.
LEMMA FieldStrings ==
  ASSUME NEW d, NEW lo, NEW hi, NEW a, NEW h, Holds(d, lo, hi), hi <= Len(d),
         lo \in Nat, hi \in Nat, a \in Nat, lo <= a, h \in Fields, Leaves(a, h), EndOf(a, h) <= hi
  PROVE  CString(d, a) = Lower(h.key) /\ CString(d, ValueAt(a, h)) = h.value
<1> PICK c : c = ValueAt(a, h)
  OBVIOUS
<1>0. c = a + Len(h.key) + 2 /\ a + Len(Field(h.key, h.value)) <= hi
  BY DEF ValueAt, EndOf
<1>1. /\ h.key \in Seq(Byte \ {CR, COLON, NUL}) /\ h.value \in Seq(Byte \ {CR, NUL})
      /\ h.key \in Seq(Byte) /\ h.value \in Seq(Byte) /\ Len(h.key) \in Nat /\ Len(h.value) \in Nat
  BY FieldFacts
<1>2. PICK b \in Nat, e \in Nat, f \in Nat :
        /\ b = a + Len(h.key) /\ e = b + 2 /\ f = e + Len(h.value)
        /\ Kept(a, Lower(h.key)) /\ Left(b + 1) = NUL /\ Kept(e, h.value) /\ Left(f + 1) = NUL
  BY DEF Leaves
<1>3. Len(Field(h.key, h.value)) = Len(h.key) + Len(h.value) + 4
  BY <1>1, FieldLength
<1>4. f + 1 <= hi /\ b + 1 <= hi /\ e = c /\ lo <= e
  <2>1. PICK kl \in Nat : kl = Len(h.key)
    BY <1>1
  <2>2. PICK vl \in Nat : vl = Len(h.value)
    BY <1>1
  <2>3. b = a + kl /\ e = b + 2 /\ f = e + vl /\ c = a + kl + 2
    BY <1>0, <1>2, <2>1, <2>2
  <2>4. a + (kl + vl + 4) <= hi
    BY <1>0, <1>3, <2>1, <2>2
  <2> QED BY <2>3, <2>4
<1>5. PICK s : s = Lower(h.key)
  OBVIOUS
<1>6. s \in Seq(Byte) /\ Len(s) = Len(h.key) /\ \A j \in 1..Len(s) : s[j] # NUL
  <2>1. /\ s \in Seq(Byte) /\ Len(s) = Len(h.key)
        /\ \A j \in 1..Len(h.key) : s[j] = ToLower(h.key[j])
    BY <1>1, <1>5, LowerFacts
  <2>2. ASSUME NEW j \in 1..Len(h.key) PROVE ToLower(h.key[j]) # NUL
    <3>1. h.key[j] \in Byte \ {CR, COLON, NUL}
      BY <1>1, LineWithout
    <3> QED BY <3>1, RequestAssumption
  <2> QED BY <2>1, <2>2
<1>7. CString(d, a) = s
  <2>1. Spans(a, s, b) /\ Kept(a, s)
    BY <1>2, <1>5, <1>6 DEF Spans
  <2>2. Left(b + 1) = NUL /\ b + 1 <= hi
    BY <1>2, <1>4
  <2> QED BY <1>6, <2>1, <2>2, KeptString
<1>8. CString(d, e) = h.value
  <2>1. PICK v : v = h.value
    OBVIOUS
  <2>2. v \in Seq(Byte) /\ Spans(e, v, f) /\ Kept(e, v)
    BY <1>1, <1>2, <2>1 DEF Spans
  <2>3. \A j \in 1..Len(v) : v[j] # NUL
    <3>1. v \in Seq(Byte \ {CR, NUL})
      BY <1>1, <2>1
    <3>2. \A j \in 1..Len(v) : v[j] \in Byte \ {CR, NUL}
      BY <3>1, LineWithout
    <3> QED BY <3>2
  <2>4. Left(f + 1) = NUL /\ f + 1 <= hi /\ lo <= e
    BY <1>2, <1>4
  <2>5. CString(d, e) = v
    BY <2>2, <2>3, <2>4, KeptString
  <2> QED BY <2>1, <2>5
<1> QED BY <1>4, <1>5, <1>7, <1>8

LEMMA OffsetBounds ==
  ASSUME NEW r, NEW m, NEW hi, wire \in Seq(Byte), Written(r), m = Len(r.headers),
         At(0, HeaderBlock(r)), hi \in Nat, Len(HeaderBlock(r)) = hi + 1
  PROVE  /\ Len(r.line) + 1 \in Nat /\ Len(r.line) + 1 \in LineEnd
         /\ \A e \in LineEnd : Len(r.line) + 1 <= e
         /\ \A k \in 0..m : /\ Offset(r, k) \in Nat /\ Offset(r, k) <= hi
                            /\ Len(r.line) + 1 <= Offset(r, k)
<1>1. m \in Nat /\ m <= m /\ Len(r.headers) \in Nat
  BY DEF Written
<1>2. PICK n \in Nat : n = hi + 1 /\ n = Len(HeaderBlock(r))
  OBVIOUS
<1>3. /\ n <= Len(wire) /\ At(0, Preamble(r, m))
      /\ \A o \in 0..n : RefAt(o).state = "parse_content" => o = n
  <2>1. n <= Len(wire)
    BY <1>2, ReadHeaders
  <2>2. At(0, Preamble(r, m))
    BY <1>2, ReadHeaders
  <2>3. \A o \in 0..n : RefAt(o).state = "parse_content" => o = n
    BY <1>2, ReadHeaders
  <2> QED BY <2>1, <2>2, <2>3
<1>4. RefAt(n).state = "parse_content"
  BY <1>2, ReadHeaders
<1>5. \A k \in 0..m : At(0, Preamble(r, k))
  BY <1>1, <1>3, PreamblePrefixes
<1>6. \A k \in 0..m : Between(r, k)
  BY <1>1, <1>3, ReadPreamble
<1>7. r.line \in Seq(Byte \ {CR}) /\ r.line \in Seq(Byte) /\ Len(r.line) \in Nat
  BY LineWithout DEF Written
<1>8. At(0, Line(r.line)) /\ Offset(r, 0) = Len(r.line) + 2
  <2>1. 0 \in 0..m
    BY <1>1
  <2>2. Len(Line(r.line)) = Len(r.line) + 2
    BY <1>7, LineLength
  <2> QED BY <1>5, <2>1, <2>2, PreambleNone DEF Offset
<1>9. Len(r.line) + 1 \in LineEnd /\ \A e \in LineEnd : Len(r.line) + 1 <= e
  <2>1. PICK x : x = Len(r.line) + 2
    OBVIOUS
  <2> QED BY <1>7, <1>8, <2>1, ReadLine
<1>10. ASSUME NEW k \in 0..m PROVE Offset(r, k) \in Nat /\ Offset(r, k) <= Len(wire)
  <2>1. k \in 0..Len(r.headers)
    OBVIOUS
  <2>2. Preamble(r, k) \in Seq(Byte)
    BY <2>1, PreambleType
  <2>3. At(0, Preamble(r, k))
    BY <1>5
  <2>4. 0 + Len(Preamble(r, k)) <= Len(wire) /\ Len(Preamble(r, k)) \in Nat
    BY <2>2, <2>3 DEF At
  <2> QED BY <2>4 DEF Offset
<1>11. ASSUME NEW k \in 0..m PROVE Offset(r, k) <= hi
  <2>1. PICK o \in Nat : o = Offset(r, k) /\ o <= Len(wire)
    BY <1>10
  <2>2a. PICK s \in HeaderEnds : \E key : Reads(o, s, key, Offsets(r, k))
    BY <1>6, <2>1 DEF Between
  <2>2. PICK key : Reads(o, s, key, Offsets(r, k))
    BY <2>2a
  <2>3. RefAt(o).state = s
    BY <2>2 DEF Reads, Reader
  <2>4. RefAt(o).state # "parse_content"
    BY <2>3 DEF HeaderEnds
  <2>5. SUFFICES ASSUME n <= o PROVE FALSE
    BY <1>2, <2>1
  <2>6. RefAt(o) = RefAt(n)
    BY <1>2, <1>4, <2>1, <2>5, RefAbsorbs
  <2> QED BY <1>4, <2>4, <2>6
<1> DEFINE Good == {k \in Nat : k <= m => Len(r.line) + 1 <= Offset(r, k)}
<1>12. 0 \in Good
  BY <1>7, <1>8
<1>13. ASSUME NEW k \in Good PROVE k + 1 \in Good
  <2> SUFFICES ASSUME k + 1 <= m PROVE Len(r.line) + 1 <= Offset(r, k + 1)
    OBVIOUS
  <2>1. PICK j \in Nat : j = k + 1
    OBVIOUS
  <2>2. j \in 0..m /\ k \in 0..m /\ j <= Len(r.headers) /\ j \in 1..Len(r.headers)
    BY <1>1, <2>1
  <2>3. At(0, Preamble(r, j))
    BY <1>5, <2>2
  <2>4. Offset(r, j) = Offset(r, k) + Len(FieldAt(r, j))
    BY <2>1, <2>2, <2>3, PreambleAt
  <2>5. Len(FieldAt(r, j)) \in Nat
    <3>1. FieldAt(r, j) \in Seq(Byte)
      BY <2>2, FieldAtFacts
    <3> QED BY <3>1
  <2>6. Offset(r, k) \in Nat /\ Len(r.line) + 1 <= Offset(r, k)
    BY <1>10, <2>2
  <2>7. Len(r.line) + 1 <= Offset(r, j)
    BY <1>7, <2>4, <2>5, <2>6
  <2> QED BY <2>1, <2>7
<1>14. Good = Nat
  BY <1>12, <1>13, R!Induct
<1> HIDE DEF Good
<1>15. ASSUME NEW k \in 0..m PROVE Len(r.line) + 1 <= Offset(r, k)
  <2>1. k \in Good /\ k <= m
    BY <1>1, <1>14
  <2> QED BY <2>1 DEF Good
<1>16. Len(r.line) + 1 \in Nat
  BY <1>7
<1> QED BY <1>9, <1>10, <1>11, <1>15, <1>16

\* The k-th header, at offset a.
HeaderIs(r, k, a, h) == k \in 1..Len(r.headers) /\ h = r.headers[k] /\ a = Offset(r, k - 1)

\* Every header of a request reads back from a buffer that holds the headers.
LEMMA HeaderStrings ==
  ASSUME NEW r, NEW lo, NEW hi, NEW d, wire \in Seq(Byte), Written(r),
         At(0, HeaderBlock(r)), hi \in Nat, Len(HeaderBlock(r)) = hi + 1, lo = Len(r.line) + 1,
         Holds(d, lo, hi), hi <= Len(d), NEW k, NEW a, NEW h, HeaderIs(r, k, a, h)
  PROVE  CString(d, a) = Lower(h.key) /\ CString(d, ValueAt(a, h)) = h.value
<1>1. PICK m \in Nat : m = Len(r.headers)
  BY DEF Written
<1>2. PICK p \in Nat : p = k - 1 /\ k = p + 1 /\ p \in 0..m /\ k \in 0..m /\ k \in 1..m
  <2>1. k \in 1..m
    BY <1>1 DEF HeaderIs
  <2>2. k - 1 \in Nat /\ k = (k - 1) + 1 /\ k - 1 \in 0..m /\ k \in 0..m
    BY <2>1
  <2> QED BY <2>1, <2>2
<1>3. At(0, Preamble(r, m))
  <2>1. PICK n : n = Len(HeaderBlock(r))
    OBVIOUS
  <2> QED BY <1>1, <2>1, ReadHeaders
<1>4. a = Offset(r, p) /\ h = r.headers[k]
  BY <1>2 DEF HeaderIs
<1>5. lo \in Nat /\ Offset(r, p) \in Nat /\ lo <= Offset(r, p) /\ Offset(r, k) <= hi
  <2>1. Len(r.line) + 1 \in Nat
    BY <1>1, OffsetBounds
  <2>2. \A j \in 0..m : /\ Offset(r, j) \in Nat /\ Offset(r, j) <= hi
                         /\ Len(r.line) + 1 <= Offset(r, j)
    BY <1>1, OffsetBounds
  <2> QED BY <1>2, <2>1, <2>2
<1>6. At(0, Preamble(r, k)) /\ k <= Len(r.headers) /\ k \in 1..Len(r.headers)
  <2>1. m <= Len(r.headers)
    BY <1>1
  <2>2. \A j \in 0..m : At(0, Preamble(r, j))
    BY <1>3, <2>1, PreamblePrefixes
  <2> QED BY <1>1, <1>2, <2>2
<1>7. Offset(r, k) = Offset(r, p) + Len(FieldAt(r, k))
  BY <1>2, <1>6, PreambleAt
<1>8. h \in Fields /\ FieldAt(r, k) = Field(h.key, h.value)
  BY <1>4, <1>6, FieldAtFacts DEF FieldAt
<1>9. Leaves(a, h)
  <2>1. m <= Len(r.headers)
    BY <1>1
  <2>2. \A x \in 0..m, j \in 1..m : j = x + 1 => Leaves(Offset(r, x), r.headers[j])
    BY <1>3, <2>1, ReadPreamble
  <2> QED BY <1>2, <1>4, <2>2
<1>10. EndOf(a, h) <= hi /\ lo <= a /\ lo \in Nat /\ a \in Nat
  BY <1>4, <1>5, <1>7, <1>8 DEF EndOf
<1>11. PICK low \in Nat : low = lo
  BY <1>10
<1>12. Holds(d, low, hi) /\ low <= a /\ EndOf(a, h) <= hi /\ a \in Nat /\ h \in Fields
  BY <1>8, <1>10, <1>11
<1>13. CString(d, a) = Lower(h.key)
  BY <1>9, <1>12, FieldStrings
<1>14. CString(d, ValueAt(a, h)) = h.value
  BY <1>9, <1>12, FieldStrings
<1> QED BY <1>13, <1>14

\* get_value finds the value of the first header of a name.
LEMMA HeaderLookup ==
  ASSUME NEW r, NEW m, NEW lo, NEW hi, wire \in Seq(Byte), Written(r), m = Len(r.headers),
         At(0, HeaderBlock(r)), hi \in Nat, Len(HeaderBlock(r)) = hi + 1, lo = Len(r.line) + 1,
         Holds(data, lo, hi), hi <= Len(data), keys = Offsets(r, m)
  PROVE  /\ \A name : Holders(name) = Named(r, name)
         /\ \A name : Named(r, name) # {} => get_value(name) = ValueOf(r, name)
         /\ \A k \in 1..m : CString(data, keys[k]) = Lower(r.headers[k].key)
         /\ DOMAIN keys = 1..m /\ DOMAIN r.headers = 1..m /\ Len(keys) = m
<1>1. m \in Nat /\ DOMAIN r.headers = 1..m
  BY DEF Written
<1>2. DOMAIN keys = 1..m /\ \A k \in 1..m : keys[k] = Offset(r, k - 1)
  BY DEF Offsets
<1>3. ASSUME NEW k \in 1..m
      PROVE  /\ CString(data, keys[k]) = Lower(r.headers[k].key)
             /\ CString(data, keys[k] + Len(r.headers[k].key) + 2) = r.headers[k].value
             /\ Len(Lower(r.headers[k].key)) = Len(r.headers[k].key)
  <2>1. PICK h : h = r.headers[k]
    OBVIOUS
  <2>2. PICK a : a = Offset(r, k - 1)
    OBVIOUS
  <2>3. HeaderIs(r, k, a, h) /\ a = keys[k]
    BY <1>1, <1>2, <2>1, <2>2 DEF HeaderIs
  <2>4. CString(data, a) = Lower(h.key)
    BY <2>3, HeaderStrings
  <2>5. CString(data, ValueAt(a, h)) = h.value
    BY <2>3, HeaderStrings
  <2>6. h \in Fields
    BY <1>1, <2>1, FieldAtFacts
  <2>7. Len(Lower(h.key)) = Len(h.key)
    <3>1. h.key \in Seq(Byte)
      BY <2>6, FieldFacts
    <3> QED BY <3>1, LowerFacts
  <2> QED BY <2>1, <2>3, <2>4, <2>5, <2>7 DEF ValueAt
<1>4. ASSUME NEW name PROVE Holders(name) = Named(r, name)
  BY <1>1, <1>2, <1>3 DEF Holders, Named
<1>5. ASSUME NEW name, Named(r, name) # {} PROVE get_value(name) = ValueOf(r, name)
  <2> DEFINE S == Named(r, name)
             first == CHOOSE k \in S : \A j \in S : k <= j
  <2>1. S \in SUBSET Nat /\ S \subseteq 1..m /\ S # {}
    BY <1>1, <1>5 DEF Named
  <2>2. \E k \in S : \A j \in S : k <= j
    <3> HIDE DEF S
    <3> QED BY <2>1, R!Least
  <2>3. first \in S
    BY <2>2
  <2>4. first = Min(S)
    BY DEF Min
  <2>5. get_value(name) = CString(data, keys[first] + Len(name) + 2)
    BY <1>4 DEF get_value
  <2>6. ValueOf(r, name) = r.headers[first].value
    BY <2>4 DEF ValueOf
  <2>7. Lower(r.headers[first].key) = name
    BY <2>3 DEF Named
  <2> HIDE DEF first
  <2>8. CString(data, keys[first] + Len(name) + 2) = r.headers[first].value
    BY <1>3, <2>1, <2>3, <2>7
  <2> QED BY <2>5, <2>6, <2>8
<1>6. Len(keys) = m
  <2>1. keys \in Seq({Offset(r, j - 1) : j \in 1..m})
    <3>1. keys \in [1..m -> {Offset(r, j - 1) : j \in 1..m}]
      BY DEF Offsets
    <3> QED BY <1>1, <3>1, R!FunctionLength
  <2> QED BY <1>1, <1>2, <2>1, LenProperties
<1> QED BY <1>1, <1>2, <1>3, <1>4, <1>5, <1>6

----------------------------------------------------------------------------
\* The buffer holds what the machine has left of each byte it has seen; what splitting
\* the request line overwrites is in the line.
Edited ==
  \A n \in 1..Len(data) :
    n <= Unread /\ (status = "Done" => TwoSpaceLine /\ \E e \in LineEnd : e < n)
      => data[n] = Left(n)

LEMMA EditedSame ==
  ASSUME Edited, UNCHANGED <<wire, data, Unread, status>>
  PROVE  Edited'
<1>1. LineEnd' = LineEnd /\ (TwoSpaceLine' <=> TwoSpaceLine)
  BY DEF LineEnd, TwoSpaceLine
<1>2. ASSUME NEW n PROVE Left(n)' = Left(n)
  BY DEF Left, Sent, RefAt
<1> QED BY <1>1, <1>2 DEF Edited

LEMMA EditedAddBytes ==
  ASSUME ReadingIInv, Edited, NEW len \in 0..Len(wire), AddBytes(len)
  PROVE  Edited'
<1>1. /\ wire' = wire /\ Unread' = Unread /\ status = "Incomplete" /\ status' = status
      /\ data' = data \o SubSeq(wire, Len(data) + 1, Len(data) + len)
      /\ Len(data) + len <= Len(wire)
  BY DEF AddBytes, ReadingIInv, PayloadIInv, IInv, Resume, Unread, scratch
<1>2. /\ data \in Seq(Byte) /\ wire \in Seq(Byte) /\ Unread \in Nat /\ Unread <= Len(data)
  BY DEF ReadingIInv, PayloadIInv, IInv, TypeOK, Unread
<1>3. \A n \in 1..Len(data) : data'[n] = data[n]
  BY <1>1, <1>2
<1>4. ASSUME NEW n PROVE Left(n)' = Left(n)
  BY <1>1 DEF Left, Sent, RefAt
<1>5. ASSUME NEW n \in 1..Len(data'), n <= Unread PROVE data'[n] = Left(n)
  <2>1. n \in 1..Len(data)
    BY <1>2, <1>5
  <2> QED BY <1>1, <1>3, <1>5, <2>1 DEF Edited
<1> QED BY <1>1, <1>4, <1>5 DEF Edited

LEMMA EditedParseByte ==
  ASSUME ReadingIInv, Edited, NEW r \in Fsm, ParseByte(r)
  PROVE  Edited'
<1>1. IInv /\ VerdictIdle /\ Faithful /\ Reading
  BY DEF ReadingIInv, PayloadIInv
<1>2. /\ data[i + 1] = wire[i + 1] /\ i + 1 \in 1..Len(wire) /\ Unread = i /\ Unread' = i + 1
  BY <1>1, ParseByteFaithful
<1>3. /\ data \in Seq(Byte) /\ i \in Nat /\ i + 1 \in 1..Len(data) /\ wire' = wire
      /\ status = "Incomplete" /\ status' = status /\ r.cur = state /\ wire[i + 1] \in r.on
  BY <1>1, <1>2 DEF ParseByte, IInv, TypeOK, VerdictIdle
<1>4. PICK b : b = wire[i + 1] /\ b \in r.on
  BY <1>3
<1>5. Stored(r.cur, b) = IF "NULLIFY" \in r.actions THEN NUL
                         ELSE IF "LOWER" \in r.actions THEN ToLower(b) ELSE b
  BY <1>4, StoredIs
<1>6. /\ Len(data') = Len(data) /\ \A n \in 1..Len(data) : n # i + 1 => data'[n] = data[n]
      /\ data'[i + 1] = Stored(r.cur, b)
  BY <1>2, <1>3, <1>4, <1>5 DEF ParseByte
<1>7. Left(i + 1) = Stored(r.cur, b)
  <2>1. RefAt(i).state = state
    BY <1>1, <1>2 DEF Reading
  <2>2. (i + 1) - 1 = i
    BY <1>3
  <2> QED BY <1>3, <1>4, <2>1, <2>2 DEF Left, Sent
<1>8. ASSUME NEW n PROVE Left(n)' = Left(n)
  BY <1>3 DEF Left, Sent, RefAt
<1>9. ASSUME NEW n \in 1..Len(data), n <= i + 1 PROVE data'[n] = Left(n)
  <2>1. CASE n = i + 1
    BY <1>6, <1>7, <2>1
  <2>2. CASE n # i + 1
    <3>1. n <= Unread
      BY <1>2, <1>3, <1>9, <2>2
    <3> QED BY <1>3, <1>6, <2>2, <3>1 DEF Edited
  <2> QED BY <2>1, <2>2
<1> QED BY <1>2, <1>3, <1>6, <1>8, <1>9 DEF Edited

LEMMA EditedParseNoRow ==
  ASSUME ReadingIInv, Edited, ParseNoRow
  PROVE  Edited'
<1>1. IInv /\ VerdictIdle /\ Faithful /\ Reading /\ Parsing
  BY DEF ReadingIInv, PayloadIInv
<1>2. /\ data \in Seq(Byte) /\ i \in Nat /\ i + 1 \in 1..Len(data) /\ wire' = wire /\ data' = data
      /\ status = "Incomplete" /\ status' = status /\ state # "parse_content"
      /\ Unread = i /\ Unread' = i + 1
      /\ ~ \E r \in Fsm : r.cur = state /\ data[i + 1] \in r.on
  BY <1>1 DEF ParseNoRow, IInv, TypeOK, VerdictIdle, Parsing, Unread
<1>3. PICK b : b = wire[i + 1] /\ b = data[i + 1]
  BY <1>1, <1>2 DEF Faithful, SpacesKept
<1>4. Stored(state, b) = b
  BY <1>2, <1>3 DEF Stored
<1>5. Left(i + 1) = b
  <2>1. RefAt(i).state = state
    BY <1>1, <1>2 DEF Reading
  <2>2. (i + 1) - 1 = i
    BY <1>2
  <2> QED BY <1>3, <1>4, <2>1, <2>2 DEF Left, Sent
<1>6. ASSUME NEW n PROVE Left(n)' = Left(n)
  BY <1>2 DEF Left, Sent, RefAt
<1>7. ASSUME NEW n \in 1..Len(data), n <= i + 1 PROVE data[n] = Left(n)
  <2>1. CASE n = i + 1
    BY <1>3, <1>5, <2>1
  <2>2. CASE n # i + 1
    <3>1. n <= Unread
      BY <1>2, <1>7, <2>2
    <3> QED BY <1>2, <3>1 DEF Edited
  <2> QED BY <2>1, <2>2
<1> QED BY <1>2, <1>6, <1>7 DEF Edited

LEMMA EditedFinish ==
  ASSUME ReadingIInv, Edited, FinishComplete, status' = "Done"
  PROVE  Edited'
<1>1. IInv /\ VerdictIdle /\ Faithful
  BY DEF ReadingIInv, PayloadIInv
<1>2. /\ data \in Seq(Byte) /\ wire \in Seq(Byte) /\ wire' = wire /\ Unread' = Unread
      /\ status = "Incomplete" /\ SpacesKept
  BY <1>1 DEF IInv, TypeOK, VerdictIdle, Faithful, FinishComplete, Unread
<1>3. PICK p \in LineSplits(data) : data' = [data EXCEPT ![p[1] + 1] = NUL, ![p[2] + 1] = NUL]
  BY DEF FinishComplete
<1>4. LineEnd' = LineEnd /\ (TwoSpaceLine' <=> TwoSpaceLine) /\ LineEnd \subseteq Nat
  BY <1>2 DEF LineEnd, TwoSpaceLine
<1>5. ASSUME NEW n PROVE Left(n)' = Left(n)
  BY <1>2 DEF Left, Sent, RefAt
<1>6. PICK a \in 1..Len(data), b \in 1..Len(data) : a = p[1] + 1 /\ b = p[2] + 1
  <2>1. p[1] \in 0..Len(data) - 1 /\ p[2] \in 0..Len(data) - 1
    BY <1>2 DEF LineSplits, Spaces
  <2>2. p[1] + 1 \in 1..Len(data) /\ p[2] + 1 \in 1..Len(data)
    BY <1>2, <2>1
  <2> QED BY <2>2
<1>7. Len(data') = Len(data) /\ \A n \in 1..Len(data) : n # a /\ n # b => data'[n] = data[n]
  <2>1. data' = [data EXCEPT ![a] = NUL, ![b] = NUL]
    BY <1>3, <1>6
  <2> QED BY <1>2, <2>1, TwoNuls
<1>8. ASSUME NEW n \in 1..Len(data), n <= Unread, TwoSpaceLine, NEW e \in LineEnd, e < n
      PROVE  data'[n] = Left(n)
  <2>1. e \in Nat /\ e <= Len(data) /\ n \in Nat
    BY <1>2, <1>4, <1>8
  <2>2. p[1] \in Nat /\ p[2] \in Nat /\ p[1] < p[2] /\ p[2] + 1 < e
    BY <1>1, <1>2, <1>8, <2>1, SplitInLine
  <2>3. n # a /\ n # b
    BY <1>6, <1>8, <2>1, <2>2
  <2>4. data[n] = Left(n)
    BY <1>2, <1>8 DEF Edited
  <2> QED BY <1>7, <2>3, <2>4
<1> QED BY <1>2, <1>4, <1>5, <1>7, <1>8 DEF Edited

LEMMA EditedNext == ReadingIInv /\ Edited /\ [Next]_vars => Edited'
<1> SUFFICES ASSUME ReadingIInv, Edited, [Next]_vars PROVE Edited'
  OBVIOUS
<1>1. CASE UNCHANGED vars \/ AddBytesIgnored
  <2>1. UNCHANGED <<wire, data, Unread, status>>
    BY <1>1 DEF vars, scratch, AddBytesIgnored, Unread
  <2> QED BY <2>1, EditedSame
<1>2. CASE \E len \in 0..Len(wire) : AddBytes(len)
  BY <1>2, EditedAddBytes
<1>3. CASE \E r \in Fsm : ParseByte(r)
  BY <1>3, EditedParseByte
<1>4. CASE ParseNoRow
  BY <1>4, EditedParseNoRow
<1>5. CASE ParseEnd
  <2>1. UNCHANGED <<wire, data, Unread, status>>
    BY <1>5 DEF ParseEnd, scratch, Unread
  <2> QED BY <2>1, EditedSame
<1>6. CASE FinishError \/ FinishIncomplete \/ (FinishComplete /\ status' = "Error")
  <2>1. /\ UNCHANGED <<wire, data, Unread>> /\ status' # "Done" /\ status = "Incomplete"
    BY <1>6 DEF FinishError, FinishIncomplete, FinishComplete, scratch, Unread,
       ReadingIInv, PayloadIInv, VerdictIdle
  <2>2. ASSUME NEW n PROVE Left(n)' = Left(n)
    BY <2>1 DEF Left, Sent, RefAt
  <2> QED BY <2>1, <2>2 DEF Edited
<1>7. CASE FinishComplete /\ status' = "Done"
  BY <1>7, EditedFinish
<1>8. FinishComplete => status' = "Done" \/ status' = "Error"
  BY DEF FinishComplete
<1> QED BY <1>1, <1>2, <1>3, <1>4, <1>5, <1>6, <1>7, <1>8 DEF Next

\* A stream that begins with the headers of a request.
Begins(r) == IsPrefix(HeaderBlock(r), wire)

LEMMA RequestFacts ==
  ASSUME NEW r \in Requests, wire \in Seq(Byte)
  PROVE  /\ Written(r) /\ Len(r.headers) \in Nat /\ DeclaredLength(r) \in Nat
         /\ Begins(r) => At(0, HeaderBlock(r))
<1>1. Written(r) /\ \A k \in DOMAIN r.headers : Atoi(r.headers[k].value) \in Nat
  BY RequestAssumption DEF Written
<1>2. PICK m \in Nat : m = Len(r.headers) /\ DOMAIN r.headers = 1..m
  BY <1>1 DEF Written
<1>3. HeaderBlock(r) \in Seq(Byte)
  <2>1. Preamble(r, m) \in Seq(Byte)
    BY <1>1, <1>2, PreambleType
  <2> QED BY <1>2, <2>1, LineLength DEF HeaderBlock
<1>4. ASSUME Begins(r) PROVE At(0, HeaderBlock(r))
  <2>1. PICK s \in Seq(Byte) : s = HeaderBlock(r)
    BY <1>3
  <2>2. Len(s) <= Len(wire) /\ SubSeq(s, 1, Len(s)) = SubSeq(wire, 1, Len(s))
    BY <1>4, <2>1 DEF Begins, IsPrefix
  <2>3. ASSUME NEW j \in 1..Len(s) PROVE wire[0 + j] = s[j]
    <3>1. SubSeq(s, 1, Len(s))[j] = s[j] /\ SubSeq(wire, 1, Len(s))[j] = wire[j]
      BY <2>2
    <3> QED BY <2>2, <3>1
  <2>4. At(0, s)
    BY <2>2, <2>3 DEF At, Sent
  <2> QED BY <2>1, <2>4
<1>5. DeclaredLength(r) \in Nat
  <2>1. CASE Named(r, ContentLengthKey) = {}
    BY <2>1 DEF DeclaredLength
  <2>2. CASE Named(r, ContentLengthKey) # {}
    <3> DEFINE S == Named(r, ContentLengthKey)
    <3>1. S \in SUBSET Nat /\ S # {} /\ S \subseteq DOMAIN r.headers
      BY <1>2, <2>2 DEF Named
    <3> HIDE DEF S
    <3>2. \E x \in S : \A y \in S : x <= y
      BY <3>1, R!Least
    <3>3. Min(S) \in DOMAIN r.headers
      BY <3>1, <3>2 DEF Min
    <3>4. Atoi(r.headers[Min(S)].value) \in Nat
      BY <1>1, <3>3
    <3> QED BY <2>2, <3>4 DEF DeclaredLength, ValueOf, S
  <2> QED BY <2>1, <2>2
<1> QED BY <1>1, <1>2, <1>4, <1>5

\* Its request line is the first line of the stream.
LEMMA RequestLine ==
  ASSUME NEW r \in Requests, wire \in Seq(Byte), At(0, HeaderBlock(r))
  PROVE  TwoSpaceLine
<1>1. Written(r) /\ \E m, n \in DOMAIN r.line : m < n /\ r.line[m] = SP /\ r.line[n] = SP
  BY RequestAssumption DEF Written
<1>2. PICK line \in Seq(Byte) : line = r.line
  BY <1>1, LineWithout DEF Written
<1>3. PICK m \in 1..Len(line), n \in 1..Len(line) : m < n /\ line[m] = SP /\ line[n] = SP
  BY <1>1, <1>2
<1>4. PICK h \in Nat : h = Len(r.headers)
  BY <1>1 DEF Written
<1>5. At(0, Preamble(r, 0))
  <2>1. At(0, Preamble(r, h))
    <3>1. PICK x : x = Len(HeaderBlock(r))
      OBVIOUS
    <3> QED BY <1>1, <1>4, <3>1, ReadHeaders
  <2>2. h <= Len(r.headers) /\ 0 \in 0..h
    BY <1>4
  <2>3. \A k \in 0..h : At(0, Preamble(r, k))
    BY <1>1, <2>1, <2>2, PreamblePrefixes
  <2> QED BY <2>2, <2>3
<1>6. At(0, Line(line))
  BY <1>2, <1>5, PreambleNone
<1>7. At(0, line)
  <2>1. Spans(0, line, Len(line)) /\ 0 \in Nat
    BY DEF Spans
  <2> QED BY <1>6, <2>1, AtLine
<1>8. wire[m] = SP /\ wire[n] = SP /\ m \in DOMAIN wire /\ n \in DOMAIN wire
  <2>1. \A j \in 1..Len(line) : wire[0 + j] = line[j]
    BY <1>7 DEF At, Sent
  <2>2. 0 + m = m /\ 0 + n = n
    BY <1>3
  <2>3. 0 + Len(line) <= Len(wire)
    BY <1>7 DEF At
  <2>4. DOMAIN wire = 1..Len(wire) /\ Len(wire) \in Nat /\ Len(line) \in Nat
    OBVIOUS
  <2>5. m \in 1..Len(wire) /\ n \in 1..Len(wire)
    BY <1>3, <2>3, <2>4
  <2> QED BY <1>3, <2>1, <2>2, <2>4, <2>5
<1>9. ASSUME NEW e \in LineEnd PROVE n < e
  <2>1. line \in Seq(Byte \ {CR})
    BY <1>1, <1>2 DEF Written
  <2>2. PICK x : x = Len(line) + 2
    OBVIOUS
  <2>3. \A f \in LineEnd : Len(line) + 1 <= f
    BY <1>6, <2>1, <2>2, ReadLine
  <2>4. e \in Nat
    BY DEF LineEnd
  <2>5. Len(line) + 1 <= e
    BY <2>3
  <2> QED BY <1>3, <2>4, <2>5
<1> QED BY <1>3, <1>8, <1>9 DEF TwoSpaceLine

\* Where the reader enters the body, the headers end.
LEMMA BodyBegins ==
  ASSUME NEW r, NEW n, NEW o, wire \in Seq(Byte), Written(r), At(0, HeaderBlock(r)),
         n = Len(HeaderBlock(r)), o \in Nat, o <= Len(wire), RefAt(o).state = "parse_content",
         RefAt(o).content = o
  PROVE  o = n
<1>1. PICK m : m = Len(r.headers)
  OBVIOUS
<1>2. n \in Nat /\ n <= Len(wire)
  BY <1>1, ReadHeaders
<1>3. RefAt(n).state = "parse_content" /\ RefAt(n).content = n
  BY <1>1, ReadHeaders
<1>4. CASE o <= n
  <2>1. \A x \in 0..n : RefAt(x).state = "parse_content" => x = n
    BY <1>1, ReadHeaders
  <2>2. o \in 0..n
    BY <1>2, <1>4
  <2> QED BY <2>1, <2>2
<1>5. CASE n <= o
  <2>1. RefAt(o) = RefAt(n)
    BY <1>2, <1>3, <1>5, RefAbsorbs
  <2> QED BY <1>3, <2>1
<1> QED BY <1>2, <1>4, <1>5

----------------------------------------------------------------------------
\* The length is the declared one once the headers are complete.
LengthKnown ==
  /\ state # "parse_content" => contentLength = 0
  /\ \A r \in Requests :
       Begins(r) /\ state = "parse_content" => contentLength = DeclaredLength(r)

RequestIInv == ReadingIInv /\ Edited /\ LengthKnown

LEMMA RequestInit == Init => RequestIInv
BY ReadingInit DEF Init, RequestIInv, Edited, LengthKnown

\* The byte that completes the headers looks the length up.
LEMMA LengthLookup ==
  ASSUME RequestIInv, NEW row \in Fsm, ParseByte(row), row.next = "parse_content",
         NEW r \in Requests, Begins(r)
  PROVE  contentLength' = DeclaredLength(r)
<1>1. ReadingIInv /\ Edited /\ ReadingIInv' /\ IInv /\ VerdictIdle /\ Faithful /\ Reading
  <2>1. ReadingIInv'
    BY ReadingNext DEF RequestIInv, Next
  <2> QED BY <2>1 DEF RequestIInv, ReadingIInv, PayloadIInv
<1>2. /\ data[i + 1] = wire[i + 1] /\ i + 1 \in 1..Len(wire) /\ Unread = i /\ Unread' = i + 1
  BY <1>1, ParseByteFaithful
<1>3. /\ data \in Seq(Byte) /\ wire \in Seq(Byte) /\ i \in Nat /\ i <= Len(data) /\ wire' = wire
      /\ status = "Incomplete" /\ state # "parse_content" /\ contentStart' = i + 1
      /\ keys' = keys /\ state' = "parse_content"
  BY <1>1, RowFacts, RowBytes DEF ParseByte, IInv, TypeOK, VerdictIdle
<1>4. /\ RefAt(i + 1).state = "parse_content" /\ RefAt(i + 1).content = i + 1
      /\ RefAt(i + 1).keys = keys
  <2>1. RefAt(Unread)' = RefAt(i + 1)
    BY <1>2, <1>3 DEF RefAt
  <2>2. RefAt(Unread)' = [state |-> state', read |-> Unread', key |-> keyIndex', keys |-> keys',
                          content |-> contentStart']
    BY <1>1 DEF ReadingIInv, Reading
  <2> QED BY <1>3, <2>1, <2>2
<1>5. Written(r) /\ At(0, HeaderBlock(r))
  BY <1>3, RequestFacts
<1>6. i + 1 = Len(HeaderBlock(r))
  <2>1. PICK n : n = Len(HeaderBlock(r))
    OBVIOUS
  <2>2. PICK o \in Nat : o = i + 1
    BY <1>3
  <2>3. o <= Len(wire) /\ RefAt(o).state = "parse_content" /\ RefAt(o).content = o
    BY <1>2, <1>4, <2>2
  <2>4. o = n
    BY <1>3, <1>5, <2>1, <2>3, BodyBegins
  <2> QED BY <2>1, <2>2, <2>4
<1>7. PICK m : m = Len(r.headers)
  OBVIOUS
<1>8. keys = Offsets(r, m)
  <2>1. PICK n : n = Len(HeaderBlock(r))
    OBVIOUS
  <2>2. RefAt(n).keys = Offsets(r, m)
    BY <1>3, <1>5, <1>7, <2>1, ReadHeaders
  <2> QED BY <1>4, <1>6, <2>1, <2>2
<1>9. Holds(data, Len(r.line) + 1, i)
  <2>1. Len(r.line) \in Nat
    BY <1>5, LineWithout DEF Written
  <2>2. ASSUME NEW n \in Nat, Len(r.line) + 1 < n, n <= i PROVE data[n] = Left(n)
    <3>1. n \in 1..Len(data)
      BY <1>3, <2>1, <2>2
    <3> QED BY <1>1, <1>2, <1>3, <2>2, <3>1 DEF Edited
  <2> QED BY <1>3, <2>2 DEF Holds
<1>10. PICK lo : lo = Len(r.line) + 1
  OBVIOUS
<1>11. /\ \A name : Holders(name) = Named(r, name)
       /\ \A name : Named(r, name) # {} => get_value(name) = ValueOf(r, name)
  <2>1. Holds(data, lo, i) /\ Len(HeaderBlock(r)) = i + 1
    BY <1>6, <1>9, <1>10
  <2>2. \A name : Holders(name) = Named(r, name)
    BY <1>3, <1>5, <1>7, <1>8, <1>10, <2>1, HeaderLookup
  <2>3. \A name : Named(r, name) # {} => get_value(name) = ValueOf(r, name)
    BY <1>3, <1>5, <1>7, <1>8, <1>10, <2>1, HeaderLookup
  <2> QED BY <2>2, <2>3
<1>12. contentLength' = IF Holders(ContentLengthKey) = {} THEN 0
                        ELSE Atoi(get_value(ContentLengthKey))
  BY <1>3 DEF ParseByte, RequestIInv, LengthKnown
<1> QED BY <1>11, <1>12 DEF DeclaredLength

LEMMA LengthNext == RequestIInv /\ [Next]_vars => LengthKnown'
<1> SUFFICES ASSUME RequestIInv, [Next]_vars PROVE LengthKnown'
  OBVIOUS
<1>0. LengthKnown /\ Parsing
  BY DEF RequestIInv, ReadingIInv, PayloadIInv
<1>1. ASSUME UNCHANGED <<wire, contentLength>>,
             state' = state \/ (state # "parse_content" /\ state' # "parse_content")
      PROVE  LengthKnown'
  BY <1>0, <1>1 DEF LengthKnown, Begins
<1>2. CASE UNCHANGED vars \/ AddBytesIgnored
  BY <1>1, <1>2 DEF vars, AddBytesIgnored
<1>3. CASE \E len \in 0..Len(wire) : AddBytes(len)
  BY <1>1, <1>3 DEF AddBytes
<1>4. ASSUME NEW row \in Fsm, ParseByte(row) PROVE LengthKnown'
  <2>1. CASE row.next # "parse_content"
    <3>1. UNCHANGED <<wire, contentLength>> /\ state # "parse_content" /\ state' # "parse_content"
      BY <1>0, <1>4, <2>1 DEF ParseByte, Parsing
    <3> QED BY <1>1, <3>1
  <2>2. CASE row.next = "parse_content"
    <3>1. state' = "parse_content" /\ wire' = wire
      BY <1>4, <2>2 DEF ParseByte
    <3>2. \A r \in Requests : Begins(r) => contentLength' = DeclaredLength(r)
      BY <1>4, <2>2, LengthLookup
    <3> QED BY <3>1, <3>2 DEF LengthKnown, Begins
  <2> QED BY <2>1, <2>2
<1>5. CASE ParseNoRow
  BY <1>0, <1>1, <1>5 DEF ParseNoRow, Parsing
<1>6. CASE ParseEnd
  BY <1>1, <1>6 DEF ParseEnd
<1>7. CASE FinishError \/ FinishIncomplete \/ FinishComplete
  BY <1>1, <1>7 DEF FinishError, FinishIncomplete, FinishComplete
<1> QED BY <1>2, <1>3, <1>4, <1>5, <1>6, <1>7 DEF Next

LEMMA RequestNext == RequestIInv /\ [Next]_vars => RequestIInv'
BY ReadingNext, EditedNext, LengthNext DEF RequestIInv

LEMMA RequestInvariance == Spec => []RequestIInv
  BY RequestInit, RequestNext, PTL DEF Spec

----------------------------------------------------------------------------
\* The verdict of a well formed request.
LEMMA RequestVerdict ==
  ASSUME RequestIInv, pc = "idle", NEW r \in Requests, Begins(r),
         NEW n, n = Len(HeaderBlock(r))
  PROVE  /\ status # "Error"
         /\ status = "Done" <=> Len(data) >= n + DeclaredLength(r)
         /\ state = "parse_content" =>
              contentStart = n /\ contentLength = DeclaredLength(r)
<1>1. /\ Reading /\ CaughtUp /\ Verdict /\ Len(data) <= Len(wire) /\ LengthKnown
      /\ wire \in Seq(Byte) /\ data \in Seq(Byte) /\ contentStart \in 0..Len(data)
      /\ i \in 0..Len(data) /\ status \in {"Incomplete", "Done", "Error"}
  BY DEF RequestIInv, ReadingIInv, PayloadIInv, IInv, TypeOK, Received
<1>2. Written(r) /\ At(0, HeaderBlock(r)) /\ DeclaredLength(r) \in Nat
  BY <1>1, RequestFacts
<1>3. PICK m : m = Len(r.headers)
  OBVIOUS
<1>4. n \in Nat /\ RefAt(n).state = "parse_content"
  BY <1>1, <1>2, <1>3, ReadHeaders
<1>5. \A o \in 0..n : RefAt(o).state # "p_error"
  BY <1>1, <1>2, <1>3, ReadHeaders
<1>6. PICK o \in Nat : o = Unread /\ o <= Len(wire) /\ o <= Len(data)
  BY <1>1 DEF Unread
<1>7. RefAt(o).state = state /\ RefAt(o).content = contentStart
  BY <1>1, <1>6 DEF Reading
<1>8. n <= o => state = "parse_content"
  <2> SUFFICES ASSUME n <= o PROVE state = "parse_content"
    OBVIOUS
  <2>1. RefAt(o) = RefAt(n)
    BY <1>1, <1>4, <1>6, RefAbsorbs
  <2> QED BY <1>4, <1>7, <2>1
<1>9. status # "Error"
  <2>1. SUFFICES ASSUME status = "Error" PROVE FALSE
    OBVIOUS
  <2>2. state = "p_error"
    BY <1>1, <1>2, <2>1, RequestLine DEF Verdict
  <2>3. o \in 0..n
    BY <1>4, <1>6, <1>8, <2>2
  <2> QED BY <1>5, <1>7, <2>2, <2>3
<1>10. ASSUME state = "parse_content"
       PROVE  contentStart = n /\ contentLength = DeclaredLength(r)
  <2>1. o = contentStart /\ RefAt(o).state = "parse_content" /\ RefAt(o).content = o
    BY <1>6, <1>7, <1>10 DEF Unread
  <2>2. o = n
    BY <1>1, <1>2, <1>6, <2>1, BodyBegins
  <2> QED BY <1>1, <1>10, <2>1, <2>2 DEF LengthKnown
<1>11. ASSUME status = "Done" PROVE Len(data) >= n + DeclaredLength(r)
  <2>1. state = "parse_content" /\ HaveBody
    BY <1>1, <1>11 DEF Verdict
  <2>2. contentStart = n /\ contentLength = DeclaredLength(r) /\ Len(data) \in Nat
    BY <1>1, <1>10, <2>1
  <2> QED BY <1>1, <1>2, <1>4, <2>1, <2>2 DEF HaveBody
<1>12. ASSUME Len(data) >= n + DeclaredLength(r) PROVE status = "Done"
  <2>1. SUFFICES ASSUME status = "Incomplete" PROVE FALSE
    BY <1>1, <1>9
  <2>2. CASE state = "parse_content"
    <3>1. contentStart = n /\ contentLength = DeclaredLength(r) /\ Len(data) \in Nat
      BY <1>1, <1>10, <2>2
    <3>2. HaveBody
      BY <1>2, <1>4, <1>12, <3>1 DEF HaveBody
    <3> QED BY <1>1, <2>1, <2>2, <3>2 DEF Verdict
  <2>3. CASE state # "parse_content"
    <3>1. o = Len(data)
      BY <1>1, <1>6, <2>3 DEF CaughtUp, Unread
    <3>2. n <= o
      BY <1>2, <1>4, <1>12, <3>1
    <3> QED BY <1>8, <2>3, <3>2
  <2> QED BY <2>2, <2>3
<1> QED BY <1>9, <1>10, <1>11, <1>12

\* What a Done parser finds in its buffer.
LEMMA RequestHeaders ==
  ASSUME RequestIInv, pc = "idle", status = "Done", NEW r \in Requests, Begins(r)
  PROVE  /\ Len(keys) = Len(r.headers) /\ DOMAIN keys = DOMAIN r.headers
         /\ \A k \in DOMAIN keys : CString(data, keys[k]) = Lower(r.headers[k].key)
         /\ \A name : Named(r, name) # {} => get_value(name) = ValueOf(r, name)
<1>1. /\ Reading /\ Verdict /\ Edited /\ Len(data) <= Len(wire)
      /\ wire \in Seq(Byte) /\ data \in Seq(Byte) /\ contentStart \in 0..Len(data)
  BY DEF RequestIInv, ReadingIInv, PayloadIInv, IInv, TypeOK, Received
<1>2. Written(r) /\ At(0, HeaderBlock(r))
  BY <1>1, RequestFacts
<1>3. PICK n : n = Len(HeaderBlock(r))
  OBVIOUS
<1>4. PICK m : m = Len(r.headers)
  OBVIOUS
<1>5. state = "parse_content" /\ contentStart = n /\ Unread = n
  <2>1. state = "parse_content"
    BY <1>1 DEF Verdict
  <2>2. contentStart = n
    BY <1>3, <2>1, RequestVerdict
  <2> QED BY <2>1, <2>2 DEF Unread
<1>6. n \in Nat /\ n <= Len(data)
  BY <1>1, <1>5
<1>7. n = Offset(r, m) + 2 /\ RefAt(n).keys = Offsets(r, m)
  BY <1>1, <1>2, <1>3, <1>4, ReadHeaders
<1>8. keys = Offsets(r, m)
  BY <1>1, <1>5, <1>7 DEF Reading
<1>9. PICK hi \in Nat : hi = Offset(r, m) + 1 /\ n = hi + 1
  <2>1. Preamble(r, m) \in Seq(Byte)
    <3>1. m \in 0..Len(r.headers)
      BY <1>2, <1>4 DEF Written
    <3> QED BY <1>2, <3>1, PreambleType
  <2>2. Offset(r, m) \in Nat
    BY <2>1 DEF Offset
  <2> QED BY <1>7, <2>2
<1>10. PICK lo : lo = Len(r.line) + 1
  OBVIOUS
<1>11. lo \in Nat /\ lo \in LineEnd
  <2>1. Len(HeaderBlock(r)) = hi + 1
    BY <1>3, <1>9
  <2>2. Len(r.line) + 1 \in Nat /\ Len(r.line) + 1 \in LineEnd
    BY <1>1, <1>2, <1>4, <2>1, OffsetBounds
  <2> QED BY <1>10, <2>2
<1>12. TwoSpaceLine
  BY <1>1, <1>2, RequestLine
<1>13. Holds(data, lo, hi)
  <2>1. ASSUME NEW x \in Nat, lo < x, x <= hi PROVE data[x] = Left(x)
    <3>1. x \in 1..Len(data) /\ x <= Unread
      BY <1>5, <1>6, <1>9, <1>11, <2>1
    <3> QED BY <1>1, <1>11, <1>12, <2>1, <3>1 DEF Edited
  <2> QED BY <1>1, <2>1 DEF Holds
<1>14. hi <= Len(data) /\ Len(HeaderBlock(r)) = hi + 1
  BY <1>3, <1>6, <1>9
<1>15. \A name : Named(r, name) # {} => get_value(name) = ValueOf(r, name)
  BY <1>1, <1>2, <1>4, <1>8, <1>10, <1>13, <1>14, HeaderLookup
<1>16. /\ \A k \in 1..m : CString(data, keys[k]) = Lower(r.headers[k].key)
       /\ DOMAIN keys = 1..m /\ DOMAIN r.headers = 1..m /\ Len(keys) = m
  <2>1. \A k \in 1..m : CString(data, keys[k]) = Lower(r.headers[k].key)
    BY <1>1, <1>2, <1>4, <1>8, <1>10, <1>13, <1>14, HeaderLookup
  <2>2. DOMAIN keys = 1..m /\ DOMAIN r.headers = 1..m /\ Len(keys) = m
    BY <1>1, <1>2, <1>4, <1>8, <1>10, <1>13, <1>14, HeaderLookup
  <2> QED BY <2>1, <2>2
<1> QED BY <1>4, <1>15, <1>16

LEMMA RequestRecovery == RequestIInv => RequestRecovered
<1> SUFFICES ASSUME RequestIInv, pc = "idle", NEW r \in Requests, Begins(r)
             PROVE  /\ status # "Error"
                    /\ status = "Done" <=> Len(data) >= Len(HeaderBlock(r)) + DeclaredLength(r)
                    /\ status = "Done" =>
                         /\ contentStart = Len(HeaderBlock(r)) /\ contentLength = DeclaredLength(r)
                         /\ Len(keys) = Len(r.headers)
                         /\ \A k \in DOMAIN keys :
                              /\ CString(data, keys[k]) = Lower(r.headers[k].key)
                              /\ get_value(Lower(r.headers[k].key))
                                   = ValueOf(r, Lower(r.headers[k].key))
  BY DEF RequestRecovered, Begins
<1>1. PICK n : n = Len(HeaderBlock(r))
  OBVIOUS
<1>2. status # "Error"
  BY <1>1, RequestVerdict
<1>3. status = "Done" <=> Len(data) >= n + DeclaredLength(r)
  BY <1>1, RequestVerdict
<1>4. ASSUME status = "Done" PROVE contentStart = n /\ contentLength = DeclaredLength(r)
  <2>1. state = "parse_content"
    BY <1>4 DEF RequestIInv, ReadingIInv, Verdict
  <2> QED BY <1>1, <2>1, RequestVerdict
<1>5. ASSUME status = "Done"
      PROVE  /\ Len(keys) = Len(r.headers) /\ DOMAIN keys = DOMAIN r.headers
             /\ \A k \in DOMAIN keys : CString(data, keys[k]) = Lower(r.headers[k].key)
             /\ \A name : Named(r, name) # {} => get_value(name) = ValueOf(r, name)
  BY <1>5, RequestHeaders
<1>6. ASSUME status = "Done", NEW k \in DOMAIN keys
      PROVE  get_value(Lower(r.headers[k].key)) = ValueOf(r, Lower(r.headers[k].key))
  <2>1. PICK name : name = Lower(r.headers[k].key)
    OBVIOUS
  <2>2. k \in Named(r, name)
    BY <1>5, <1>6, <2>1 DEF Named
  <2>3. Named(r, name) # {}
    BY <2>2
  <2>4. get_value(name) = ValueOf(r, name)
    BY <1>5, <1>6, <2>3
  <2> QED BY <2>1, <2>4
<1> QED BY <1>1, <1>2, <1>3, <1>4, <1>5, <1>6

\* Every well formed request, whatever its line, its headers and its body, whatever
\* follows it and however it is cut into add_bytes calls, is accepted exactly when
\* its last byte is in the buffer, and get_value finds every header in it.
THEOREM RequestsAreRecovered == Spec => []RequestRecovered
BY RequestInvariance, RequestRecovery, PTL

\* No request that query_builder builds is ever accepted, and every one is refused
\* as soon as the byte behind the colon of User-Agent has arrived.
THEOREM BuiltQueriesAreRejected == Spec => []BuiltQueriesRejected
<1>1. Spec => []ReadingIInv
  BY ReadingInit, ReadingNext, PTL DEF Spec
<1> QED BY <1>1, ReadingBuilt, PTL
=============================================================================
