--------------------------- MODULE TrafficProofs ---------------------------
(***************************************************************************)
(* Machine-checked proofs about the two parts that see every request or    *)
(* packet: NginxWorker, for any number of requests and any filter_request, *)
(* and PacketFilter, for any packets, any number of restarts and whatever  *)
(* statements fail.                                                        *)
(***************************************************************************)
EXTENDS NginxWorker, PacketFilter, FiniteSetTheorems, SequenceTheorems, TLAPS

----------------------------------------------------------------------------
(* NginxWorker *)

\* str_buff holds the page of the last view.
BufferInv ==
  provallo_stability_issues_avoided # 0 =>
    /\ Len(str_buff) = 2
    /\ str_buff[2].avoided = provallo_stability_issues_avoided
    /\ str_buff[1].filtered \in Nat
    /\ str_buff[1].filtered >= provallo_stability_issues_avoided

\* What the state of a request says of its view.
RequestInv ==
  \A r \in Request :
    /\ viewed[r] <= provallo_stability_issues_avoided
    /\ viewed[r] # 0 <=> state[r] \in {"sending", "closed"}
    /\ state[r] = "sending" => Len(received[r]) < 2
    /\ Len(received[r]) <= 2
    /\ viewed[r] = 0 => received[r] = <<>>

IInv == TypeOK /\ CountersAddUp /\ BufferInv /\ RequestInv /\ PartsNotOlder /\ LatestPageIsOwn

----------------------------------------------------------------------------
\* One more request with a property is one more in its count.
LEMMA CountOneMore ==
  ASSUME NEW S \in SUBSET Request, NEW T \in SUBSET Request, NEW r \in Request,
         r \notin S, T = S \cup {r}
  PROVE  Cardinality(T) = Cardinality(S) + 1
  BY ConstantsAssumption, FS_Subset, FS_AddElement

LEMMA CountIsNat ==
  ASSUME NEW S \in SUBSET Request
  PROVE  Cardinality(S) \in Nat
  BY ConstantsAssumption, FS_Subset, FS_CardinalityType

LEMMA InitInvariant == Init => IInv
<1> SUFFICES ASSUME Init PROVE IInv
  OBVIOUS
<1>1. \A r \in Request : state[r] = "new" /\ viewed[r] = 0 /\ received[r] = <<>>
  BY DEF Init
<1>2. Cardinality({}) = 0
  BY FS_EmptySet
<1>3. Views = {} /\ Finalized("forbidden") = {} /\ Finalized("bad_request") = {}
  BY <1>1 DEF Views, Finalized
<1>4. TypeOK
  <2>1. received \in [Request -> Seq(Parts)] /\ str_buff \in Seq(Parts)
    BY EmptySeq DEF Init
  <2>2. Len(str_buff) = 0
    BY DEF Init
  <2>3. "new" \in States
    BY DEF States
  <2>4. state \in [Request -> States]
    BY <2>3 DEF Init
  <2>5. viewed \in [Request -> Nat]
    BY DEF Init
  <2>6. /\ provallo_requests_filtered \in Nat /\ provallo_malformed_sessions \in Nat
        /\ provallo_stability_issues_avoided \in Nat
    BY DEF Init
  <2> QED BY <2>1, <2>2, <2>4, <2>5, <2>6 DEF TypeOK
<1>5. CountersAddUp
  <2>1. /\ provallo_requests_filtered = 0 /\ provallo_malformed_sessions = 0
        /\ provallo_stability_issues_avoided = 0
    BY DEF Init
  <2>2. Cardinality(Views) = 0 /\ Cardinality(Finalized("forbidden")) = 0
        /\ Cardinality(Finalized("bad_request")) = 0
    BY <1>2, <1>3
  <2> QED BY <2>1, <2>2 DEF CountersAddUp
<1>6. BufferInv /\ RequestInv
  BY <1>1 DEF BufferInv, RequestInv, Init
<1>7. PartsNotOlder /\ LatestPageIsOwn
  BY <1>1, <1>3 DEF PartsNotOlder, LatestPageIsOwn
<1> QED BY <1>4, <1>5, <1>6, <1>7 DEF IInv

----------------------------------------------------------------------------
\* What every view does to the counters and to the page.
LEMMA ViewFacts ==
  ASSUME IInv, NEW r \in Request, View(r), NEW s \in {"sending", "closed"},
         state' = [state EXCEPT ![r] = s]
  PROVE  /\ CountersAddUp' /\ BufferInv'
         /\ provallo_requests_filtered' \in Nat /\ provallo_malformed_sessions' \in Nat
         /\ provallo_stability_issues_avoided' = provallo_stability_issues_avoided + 1
         /\ str_buff' \in Seq(Parts) /\ Len(str_buff') = 2
         /\ viewed' = [viewed EXCEPT ![r] = provallo_stability_issues_avoided']
         /\ viewed[r] = 0 /\ received[r] = <<>>
         /\ str_buff'[1].filtered >= provallo_stability_issues_avoided'
         /\ str_buff'[2].avoided = provallo_stability_issues_avoided'
<1> USE DEF IInv
<1>1. /\ provallo_requests_filtered' = provallo_requests_filtered + 1
      /\ provallo_malformed_sessions' = provallo_malformed_sessions + 1
      /\ provallo_stability_issues_avoided' = provallo_stability_issues_avoided + 1
      /\ str_buff' = Page(provallo_requests_filtered', provallo_malformed_sessions',
                          provallo_stability_issues_avoided')
      /\ viewed' = [viewed EXCEPT ![r] = provallo_stability_issues_avoided']
      /\ state[r] = "new"
  BY DEF View, Format
<1>2. /\ provallo_requests_filtered' \in Nat /\ provallo_malformed_sessions' \in Nat
      /\ provallo_stability_issues_avoided' \in Nat /\ provallo_stability_issues_avoided' # 0
  BY <1>1 DEF TypeOK
<1>3. /\ str_buff' \in Seq(Parts) /\ Len(str_buff') = 2
      /\ str_buff'[1].filtered = provallo_requests_filtered'
      /\ str_buff'[2].avoided = provallo_stability_issues_avoided'
  <2> DEFINE f == provallo_requests_filtered'
             m == provallo_malformed_sessions'
             a == provallo_stability_issues_avoided'
  <2>1. str_buff' = Page(f, m, a) /\ f \in Nat /\ m \in Nat /\ a \in Nat
    BY <1>1, <1>2
  <2> HIDE DEF f, m, a
  <2>2. /\ Page(f, m, a) \in Seq(Parts) /\ Len(Page(f, m, a)) = 2
        /\ Page(f, m, a)[1].filtered = f /\ Page(f, m, a)[2].avoided = a
    <3>1. [filtered |-> f] \in Parts /\ [malformed |-> m, avoided |-> a] \in Parts
      BY <2>1 DEF Parts
    <3> QED BY <3>1 DEF Page
  <2>3. str_buff' \in Seq(Parts) /\ Len(str_buff') = 2
        /\ str_buff'[1].filtered = f /\ str_buff'[2].avoided = a
    BY <2>1, <2>2
  <2> QED BY <2>3 DEF f, a
<1>4. viewed[r] = 0 /\ received[r] = <<>>
  BY <1>1 DEF RequestInv
<1>5. CountersAddUp'
  <2>1. Views' = Views \cup {r} /\ r \notin Views
    BY <1>1, <1>2, <1>4 DEF Views, TypeOK
  <2>2. /\ Finalized("forbidden")' = Finalized("forbidden")
        /\ Finalized("bad_request")' = Finalized("bad_request")
    BY <1>1 DEF Finalized, TypeOK
  <2>3. Cardinality(Views') = Cardinality(Views) + 1
    BY <2>1, CountOneMore DEF Views
  <2>4. /\ Cardinality(Views) \in Nat /\ Cardinality(Finalized("forbidden")) \in Nat
        /\ Cardinality(Finalized("bad_request")) \in Nat
    BY CountIsNat DEF Views, Finalized
  <2> QED BY <1>1, <2>2, <2>3, <2>4 DEF CountersAddUp
<1>6. provallo_requests_filtered' >= provallo_stability_issues_avoided'
  <2>1. Cardinality(Finalized("forbidden")) \in Nat /\ Cardinality(Views) \in Nat
    BY CountIsNat DEF Finalized, Views
  <2> QED BY <1>1, <2>1 DEF CountersAddUp
<1>7. BufferInv'
  BY <1>2, <1>3, <1>6 DEF BufferInv
<1> QED BY <1>1, <1>2, <1>3, <1>4, <1>5, <1>6, <1>7

\* A view whose client has got q, a beginning of the page just printed.
LEMMA ViewInvariant ==
  ASSUME IInv, NEW r \in Request, View(r), NEW s \in {"sending", "closed"},
         NEW q \in Seq(Parts), Len(q) <= 2, s = "sending" => Len(q) < 2,
         \A k \in 1..Len(q) : q[k] = str_buff'[k],
         state' = [state EXCEPT ![r] = s], received' = [received EXCEPT ![r] = q]
  PROVE  IInv'
<1> DEFINE av == provallo_stability_issues_avoided
<1>1. /\ CountersAddUp' /\ BufferInv'
      /\ provallo_requests_filtered' \in Nat /\ provallo_malformed_sessions' \in Nat
      /\ av' = av + 1 /\ av \in Nat
      /\ str_buff' \in Seq(Parts) /\ Len(str_buff') = 2
      /\ viewed' = [viewed EXCEPT ![r] = av']
      /\ str_buff'[1].filtered >= av' /\ str_buff'[2].avoided = av'
  BY ViewFacts DEF IInv, TypeOK
<1>2. Len(q) \in Nat /\ DOMAIN q = 1..Len(q)
  OBVIOUS
<1>3. s \in States
  BY DEF States
<1>4. TypeOK'
  <2>1. state' \in [Request -> States] /\ received' \in [Request -> Seq(Parts)]
        /\ viewed' \in [Request -> Nat]
    BY <1>1, <1>3 DEF IInv, TypeOK
  <2> QED BY <1>1, <2>1 DEF TypeOK
<1>5. /\ state'[r] = s /\ received'[r] = q /\ viewed'[r] = av'
      /\ \A t \in Request : t # r =>
           state'[t] = state[t] /\ received'[t] = received[t] /\ viewed'[t] = viewed[t]
                                /\ viewed[t] <= av /\ viewed[t] \in Nat
  BY <1>1 DEF IInv, TypeOK, RequestInv
<1>6. RequestInv'
  <2>1. av' # 0 /\ av' >= av'
    BY <1>1
  <2>2. \A t \in Request : t # r => viewed'[t] <= av'
    BY <1>1, <1>5
  <2>3. ASSUME NEW t \in Request, t # r
        PROVE  /\ viewed'[t] <= av'
               /\ viewed'[t] # 0 <=> state'[t] \in {"sending", "closed"}
               /\ state'[t] = "sending" => Len(received'[t]) < 2
               /\ Len(received'[t]) <= 2
               /\ viewed'[t] = 0 => received'[t] = <<>>
    BY <1>5, <2>2, <2>3 DEF IInv, RequestInv
  <2>4. /\ viewed'[r] <= av'
        /\ viewed'[r] # 0 <=> state'[r] \in {"sending", "closed"}
        /\ state'[r] = "sending" => Len(received'[r]) < 2
        /\ Len(received'[r]) <= 2
        /\ viewed'[r] = 0 => received'[r] = <<>>
    BY <1>5, <2>1
  <2> QED BY <2>3, <2>4 DEF RequestInv
<1>7. PartsNotOlder'
  <2>1. Len(q) >= 1 => q[1].filtered >= av'
    BY <1>1, <1>2
  <2>2. Len(q) = 2 => q[2].avoided >= av'
    <3>1. av' >= av'
      BY <1>1
    <3> QED BY <1>1, <1>2, <3>1
  <2> QED BY <1>5, <2>1, <2>2 DEF IInv, PartsNotOlder
<1>8. LatestPageIsOwn'
  <2>1. \A t \in Request : t # r => viewed'[t] # av'
    BY <1>1, <1>5
  <2> QED BY <1>1, <1>2, <1>5, <2>1 DEF LatestPageIsOwn, Views
<1> QED BY <1>1, <1>4, <1>6, <1>7, <1>8 DEF IInv

LEMMA WithoutBodyInvariant ==
  ASSUME IInv, NEW r \in Request, HandlerWithoutBody(r)
  PROVE  IInv'
<1>1. View(r) /\ state' = [state EXCEPT ![r] = "closed"] /\ received' = received
  BY DEF HandlerWithoutBody
<1>2. received[r] = <<>>
  BY <1>1, ViewFacts
<1>3. received' = [received EXCEPT ![r] = <<>>]
  BY <1>1, <1>2 DEF IInv, TypeOK
<1>4. <<>> \in Seq(Parts) /\ Len(<<>>) = 0
  BY EmptySeq
<1> DEFINE q == <<>>
           s == "closed"
<1>5. /\ q \in Seq(Parts) /\ Len(q) <= 2 /\ s \in {"sending", "closed"} /\ s # "sending"
      /\ \A k \in 1..Len(q) : q[k] = str_buff'[k]
  BY <1>4
<1>6. state' = [state EXCEPT ![r] = s] /\ received' = [received EXCEPT ![r] = q]
  BY <1>1, <1>3
<1> HIDE DEF q, s
<1> QED BY <1>1, <1>5, <1>6, ViewInvariant

LEMMA WithBodyInvariant ==
  ASSUME IInv, NEW r \in Request, NEW n \in 0..2, HandlerWithBody(r, n)
  PROVE  IInv'
<1> DEFINE q == SubSeq(str_buff', 1, n)
           s == IF n = 2 THEN "closed" ELSE "sending"
<1>1. View(r) /\ state' = [state EXCEPT ![r] = s] /\ received' = [received EXCEPT ![r] = q]
  BY DEF HandlerWithBody
<1>2. str_buff' \in Seq(Parts) /\ Len(str_buff') = 2
  BY <1>1, ViewFacts
<1>3. q \in Seq(Parts) /\ Len(q) = n /\ \A k \in 1..n : q[k] = str_buff'[k]
  <2> DEFINE b == str_buff'
  <2>1. b \in Seq(Parts) /\ Len(b) = 2
    BY <1>2
  <2> HIDE DEF b
  <2>2. n \in Int /\ 1 \in Int /\ \A k \in 1..n : b[k] \in Parts
    <3>1. \A k \in 1..n : k \in 1..Len(b)
      BY <2>1
    <3>2. \A k \in 1..Len(b) : b[k] \in Parts
      BY <2>1, ElementOfSeq
    <3> QED BY <3>1, <3>2
  <2>3. /\ SubSeq(b, 1, n) \in Seq(Parts)
        /\ Len(SubSeq(b, 1, n)) = IF 1 <= n THEN n - 1 + 1 ELSE 0
        /\ \A k \in 1..(n - 1 + 1) : SubSeq(b, 1, n)[k] = b[1 + k - 1]
    BY <2>2, SubSeqProperties
  <2>4. Len(SubSeq(b, 1, n)) = n /\ \A k \in 1..n : SubSeq(b, 1, n)[k] = b[k]
    BY <2>3
  <2> QED BY <2>3, <2>4 DEF b
<1>4. s \in {"sending", "closed"} /\ (s = "sending" => n < 2) /\ n <= 2
  OBVIOUS
<1> HIDE DEF q, s
<1> QED BY <1>1, <1>3, <1>4, ViewInvariant

LEMMA SendRestInvariant ==
  ASSUME IInv, NEW r \in Request, SendRest(r)
  PROVE  IInv'
<1> DEFINE av == provallo_stability_issues_avoided
           k == Len(received[r]) + 1
           q == Append(received[r], str_buff[k])
<1>1. /\ state[r] = "sending" /\ viewed[r] # 0 /\ av # 0 /\ av \in Nat
      /\ viewed[r] <= av /\ viewed[r] \in Nat
      /\ Len(str_buff) = 2 /\ k \in 1..2 /\ received[r] \in Seq(Parts)
      /\ str_buff[2].avoided = av /\ str_buff[1].filtered >= av
      /\ str_buff[1].filtered \in Nat
  <2>1. state[r] = "sending" /\ viewed[r] # 0 /\ viewed[r] <= av /\ Len(received[r]) < 2
    BY DEF SendRest, IInv, RequestInv
  <2>2. av \in Nat /\ viewed[r] \in Nat /\ received[r] \in Seq(Parts)
    BY DEF IInv, TypeOK
  <2>3. av # 0 /\ k \in 1..2
    BY <2>1, <2>2
  <2> QED BY <2>1, <2>2, <2>3 DEF IInv, BufferInv
<1>2. str_buff[k] \in Parts
  <2>1. str_buff \in Seq(Parts)
    BY DEF IInv, TypeOK
  <2> QED BY <1>1, <2>1, ElementOfSeq
<1>3. /\ q \in Seq(Parts) /\ Len(q) = k /\ q[k] = str_buff[k]
      /\ \A n \in 1..Len(received[r]) : q[n] = received[r][n]
      /\ DOMAIN q = 1..k /\ DOMAIN received[r] = 1..Len(received[r])
  BY <1>1, <1>2, AppendProperties
<1>4. received' = [received EXCEPT ![r] = q]
  BY DEF SendRest
<1>5. PICK s \in {"sending", "closed"} :
        state' = [state EXCEPT ![r] = s] /\ (s = "sending" => k # 2)
  <2>1. received'[r] = q
    BY <1>4 DEF IInv, TypeOK
  <2> QED BY <1>1, <1>3, <2>1 DEF SendRest
<1>6. UNCHANGED <<counters, str_buff, viewed>>
  BY DEF SendRest
<1> HIDE DEF q
<1>7. TypeOK'
  <2>1. received' \in [Request -> Seq(Parts)]
    BY <1>3, <1>4 DEF IInv, TypeOK
  <2>2. state' \in [Request -> States]
    BY <1>5 DEF IInv, TypeOK, States
  <2> QED BY <1>6, <2>1, <2>2 DEF IInv, TypeOK, counters
<1>8. CountersAddUp'
  <2>1. Finalized("forbidden")' = Finalized("forbidden")
        /\ Finalized("bad_request")' = Finalized("bad_request") /\ Views' = Views
    BY <1>1, <1>5, <1>6 DEF IInv, TypeOK, Finalized, Views
  <2> QED BY <1>6, <2>1 DEF IInv, CountersAddUp, counters
<1>9. BufferInv'
  BY <1>6 DEF IInv, BufferInv, counters
<1>10. /\ received'[r] = q /\ state'[r] = s
       /\ \A t \in Request : t # r => state'[t] = state[t] /\ received'[t] = received[t]
  BY <1>4, <1>5 DEF IInv, TypeOK
<1>11. RequestInv'
  <2>1. k <= 2 /\ (s = "sending" => k < 2)
    BY <1>1, <1>5
  <2> QED BY <1>1, <1>3, <1>6, <1>10, <2>1 DEF IInv, RequestInv, counters
<1>12. PartsNotOlder'
  <2>1. Len(q) >= 1 => q[1].filtered >= viewed[r]
    <3>1. CASE k = 1
      <4>1. q[1].filtered = str_buff[1].filtered
        BY <1>3, <3>1
      <4> QED BY <1>1, <4>1
    <3>2. CASE k = 2
      BY <1>1, <1>3, <3>2 DEF IInv, PartsNotOlder
    <3> QED BY <1>1, <3>1, <3>2
  <2>2. Len(q) = 2 => q[2].avoided >= viewed[r]
    BY <1>1, <1>3
  <2> QED BY <1>6, <1>10, <2>1, <2>2 DEF IInv, PartsNotOlder
<1>13. LatestPageIsOwn'
  <2>1. Views' = Views /\ r \in Views
    BY <1>1, <1>6 DEF Views
  <2>2. viewed[r] = av => \A n \in 1..k : q[n] = str_buff[n]
    BY <1>1, <1>3, <2>1 DEF IInv, LatestPageIsOwn
  <2>3. \A t \in Views : t \in Request
    BY DEF Views
  <2> QED BY <1>3, <1>6, <1>10, <2>1, <2>2, <2>3 DEF IInv, LatestPageIsOwn, counters
<1> QED BY <1>7, <1>8, <1>9, <1>11, <1>12, <1>13 DEF IInv

LEMMA DisconnectInvariant ==
  ASSUME IInv, NEW r \in Request, Disconnect(r)
  PROVE  IInv'
<1>1. /\ UNCHANGED <<counters, str_buff, received, viewed>>
      /\ state' = [state EXCEPT ![r] = "closed"] /\ state[r] = "sending"
  BY DEF Disconnect
<1>2. TypeOK'
  <2>1. state' \in [Request -> States]
    BY <1>1 DEF IInv, TypeOK, States
  <2> QED BY <1>1, <2>1 DEF IInv, TypeOK, counters
<1>3. CountersAddUp'
  <2>1. Finalized("forbidden")' = Finalized("forbidden")
        /\ Finalized("bad_request")' = Finalized("bad_request") /\ Views' = Views
    BY <1>1 DEF IInv, TypeOK, Finalized, Views
  <2> QED BY <1>1, <2>1 DEF IInv, CountersAddUp, counters
<1>4. RequestInv'
  BY <1>1 DEF IInv, TypeOK, RequestInv, counters
<1>5. BufferInv' /\ PartsNotOlder' /\ LatestPageIsOwn'
  BY <1>1 DEF IInv, BufferInv, PartsNotOlder, LatestPageIsOwn, Views, counters
<1> QED BY <1>2, <1>3, <1>4, <1>5 DEF IInv

----------------------------------------------------------------------------
\* A filter leaves the page and its readers alone.
LEMMA FilterLeavesPages ==
  ASSUME IInv, NEW r \in Request, NEW s \in States \ {"sending", "closed"},
         state[r] \in {"new", "unanswered"}, state' = [state EXCEPT ![r] = s],
         UNCHANGED <<provallo_stability_issues_avoided, str_buff, received, viewed>>
  PROVE  BufferInv' /\ RequestInv' /\ PartsNotOlder' /\ LatestPageIsOwn' /\ Views' = Views
<1>1. RequestInv'
  BY DEF IInv, TypeOK, RequestInv
<1>2. BufferInv' /\ PartsNotOlder' /\ LatestPageIsOwn' /\ Views' = Views
  BY DEF IInv, BufferInv, PartsNotOlder, LatestPageIsOwn, Views
<1> QED BY <1>1, <1>2

\* Finalizing r with s adds it to the requests finalized with s and to no others.
LEMMA FinalizedOneMore ==
  ASSUME TypeOK, NEW r \in Request, NEW s \in States, NEW t \in {"forbidden", "bad_request"},
         state[r] \in {"new", "unanswered"}, state' = [state EXCEPT ![r] = s]
  PROVE  /\ s = t => Cardinality(Finalized(t)') = Cardinality(Finalized(t)) + 1
         /\ s # t => Finalized(t)' = Finalized(t)
<1>1. \A x \in Request : state'[x] = IF x = r THEN s ELSE state[x]
  BY DEF TypeOK
<1>2. r \notin Finalized(t)
  BY DEF Finalized
<1>3. s # t => Finalized(t)' = Finalized(t)
  BY <1>1, <1>2 DEF Finalized
<1>4. ASSUME s = t PROVE Cardinality(Finalized(t)') = Cardinality(Finalized(t)) + 1
  <2>1. Finalized(t)' = Finalized(t) \cup {r}
    BY <1>1, <1>4 DEF Finalized
  <2>2. Finalized(t) \in SUBSET Request
    BY DEF Finalized
  <2> HIDE DEF Finalized
  <2>3. Cardinality(Finalized(t) \cup {r}) = Cardinality(Finalized(t)) + 1
    BY <1>2, <2>2, CountOneMore
  <2> QED BY <2>1, <2>3
<1> QED BY <1>3, <1>4

LEMMA InFileInvariant ==
  ASSUME IInv, NEW r \in Request, NEW in \in Chain, FilterInFile(r, in)
  PROVE  IInv'
<1>1. /\ state[r] \in {"new", "unanswered"} /\ state' = [state EXCEPT ![r] = "unanswered"]
      /\ UNCHANGED <<counters, str_buff, received, viewed>>
  BY DEF FilterInFile
<1>2. "unanswered" \in States \ {"sending", "closed"}
  BY DEF States
<1>3. TypeOK'
  <2>1. state' \in [Request -> States]
    BY <1>1, <1>2 DEF IInv, TypeOK
  <2> QED BY <1>1, <2>1 DEF IInv, TypeOK, counters
<1>4. BufferInv' /\ RequestInv' /\ PartsNotOlder' /\ LatestPageIsOwn' /\ Views' = Views
  BY <1>1, <1>2, FilterLeavesPages DEF counters
<1>5. CountersAddUp'
  <2>1. Finalized("forbidden")' = Finalized("forbidden")
        /\ Finalized("bad_request")' = Finalized("bad_request")
    BY <1>1 DEF IInv, TypeOK, Finalized
  <2> QED BY <1>1, <1>4, <2>1 DEF IInv, CountersAddUp, counters
<1> QED BY <1>3, <1>4, <1>5 DEF IInv

LEMMA FilterInvariant ==
  ASSUME IInv, NEW r \in Request, NEW in \in Chain, Filter(r, in)
  PROVE  IInv'
<1> DEFINE result == filter_request[Collected(in)]
           s == CASE result = 1 -> "forbidden" [] result = -1 -> "bad_request" [] OTHER -> "ok"
<1>1. /\ state[r] \in {"new", "unanswered"} /\ state' = [state EXCEPT ![r] = s]
      /\ provallo_requests_filtered' =
           provallo_requests_filtered + (IF result = 1 THEN 1 ELSE 0)
      /\ provallo_malformed_sessions' =
           provallo_malformed_sessions + (IF result = -1 THEN 1 ELSE 0)
      /\ UNCHANGED <<provallo_stability_issues_avoided, str_buff, received, viewed>>
  BY DEF Filter
<1>2. Collected(in) \subseteq Piece
  BY DEF Collected, Chain, Buffer
<1>3. result \in {-1, 0, 1}
  BY <1>2, ConstantsAssumption
<1>4. /\ s \in States \ {"sending", "closed"}
      /\ s = "forbidden" <=> result = 1
      /\ s = "bad_request" <=> result = -1
  BY <1>3 DEF States
<1> HIDE DEF result, s
<1>5. TypeOK'
  <2>1. state' \in [Request -> States]
    BY <1>1, <1>4 DEF IInv, TypeOK
  <2>2. provallo_requests_filtered' \in Nat /\ provallo_malformed_sessions' \in Nat
    BY <1>1 DEF IInv, TypeOK
  <2> QED BY <1>1, <2>1, <2>2 DEF IInv, TypeOK
<1>6. BufferInv' /\ RequestInv' /\ PartsNotOlder' /\ LatestPageIsOwn' /\ Views' = Views
  BY <1>1, <1>4, FilterLeavesPages
<1>7. CountersAddUp'
  <2>1. /\ s = "forbidden" =>
             Cardinality(Finalized("forbidden")') = Cardinality(Finalized("forbidden")) + 1
        /\ s # "forbidden" => Finalized("forbidden")' = Finalized("forbidden")
    BY <1>1, <1>4, FinalizedOneMore DEF IInv
  <2>2. /\ s = "bad_request" =>
             Cardinality(Finalized("bad_request")') = Cardinality(Finalized("bad_request")) + 1
        /\ s # "bad_request" => Finalized("bad_request")' = Finalized("bad_request")
    BY <1>1, <1>4, FinalizedOneMore DEF IInv
  <2>3. /\ Cardinality(Views) \in Nat /\ Cardinality(Finalized("forbidden")) \in Nat
        /\ Cardinality(Finalized("bad_request")) \in Nat
    BY CountIsNat DEF Views, Finalized
  <2> QED BY <1>1, <1>4, <1>6, <2>1, <2>2, <2>3 DEF IInv, CountersAddUp
<1> QED BY <1>5, <1>6, <1>7 DEF IInv

LEMMA Invariant == Spec => []IInv
<1>1. Init => IInv
  BY InitInvariant
<1>2. IInv /\ [Next]_vars => IInv'
  <2> SUFFICES ASSUME IInv, [Next]_vars PROVE IInv'
    OBVIOUS
  <2>1. ASSUME NEW r \in Request, HandlerWithoutBody(r) PROVE IInv'
    BY <2>1, WithoutBodyInvariant
  <2>2. ASSUME NEW r \in Request, NEW n \in 0..2, HandlerWithBody(r, n) PROVE IInv'
    BY <2>2, WithBodyInvariant
  <2>3. ASSUME NEW r \in Request, SendRest(r) PROVE IInv'
    BY <2>3, SendRestInvariant
  <2>4. ASSUME NEW r \in Request, Disconnect(r) PROVE IInv'
    BY <2>4, DisconnectInvariant
  <2>5. ASSUME NEW r \in Request, NEW in \in Chain, FilterInFile(r, in) PROVE IInv'
    BY <2>5, InFileInvariant
  <2>6. ASSUME NEW r \in Request, NEW in \in Chain, Filter(r, in) PROVE IInv'
    BY <2>6, FilterInvariant
  <2>7. CASE UNCHANGED vars
    BY <2>7 DEF vars, counters, IInv, TypeOK, CountersAddUp, BufferInv, RequestInv,
                PartsNotOlder, LatestPageIsOwn, Views, Finalized
  <2> QED BY <2>1, <2>2, <2>3, <2>4, <2>5, <2>6, <2>7 DEF Next
<1> QED BY <1>1, <1>2, PTL DEF Spec

----------------------------------------------------------------------------
\* Whatever callbacks of whatever requests a worker interleaves, its counters
\* are the views of the page plus the requests finalized with their status.
THEOREM CountersAlwaysAddUp == Spec => []CountersAddUp
  BY Invariant, PTL DEF IInv

\* No part of a status page is older than the request for it.
THEOREM PagesNeverOlder == Spec => []PartsNotOlder
  BY Invariant, PTL DEF IInv

\* A page that no other view overtakes is the one its own view printed.
THEOREM LatestPageAlwaysOwn == Spec => []LatestPageIsOwn
  BY Invariant, PTL DEF IInv

----------------------------------------------------------------------------
(* PacketFilter *)

Entry == [packet : Nat, life : Nat]
Rtt == [life : Nat, first_rtt : Nat, counter : Nat]

FilterTypes ==
  /\ life \in Nat /\ serial \in Nat /\ last \in Nat
  /\ pc \in {"idle", "attribute", "attributes", "traffic"}
  /\ stunlog \in Seq(Entry)
  /\ DOMAIN ip_throughput \subseteq Addresses
  /\ ip_throughput \in [DOMAIN ip_throughput -> [counter : Nat, first_rtt : Nat]]
  /\ ip_rtt_coll \in [Addresses -> Seq(Rtt)]

\* What refers to the log is of a packet that has been received, and of an
\* earlier one as long as the current one may still be logged.
Received ==
  /\ \A i \in DOMAIN stunlog :
       /\ stunlog[i].packet <= serial /\ stunlog[i].life <= life
       /\ pc = "attribute" => stunlog[i].packet < serial
  /\ \A a \in attributes :
       /\ a.packet \in Nat /\ a.packet <= serial
       /\ pc \in {"attribute", "attributes"} => a.packet < serial
  /\ \A a \in addresses : a.packet \in Nat /\ a.packet <= serial

\* The id that is remembered is that of the latest entry, if this process has
\* stored one; once the current packet has been logged, it is its entry's.
Remembered ==
  /\ last = IF \E i \in DOMAIN stunlog : stunlog[i].life = life THEN Len(stunlog) ELSE 0
  /\ last # 0 => stunlog[last].life = life
  /\ pc = "attributes" => \A i \in DOMAIN stunlog : stunlog[i].packet = serial => last = i

\* What an address refers to that is newer than every entry.
Guessed ==
  \A a \in addresses : (\A j \in DOMAIN stunlog : stunlog[j].packet < a.packet) =>
    a.log_id = IF \E j \in DOMAIN stunlog : stunlog[j].life = a.life THEN Len(stunlog) + 1 ELSE 1

\* A round trip that this process has stored and that is not zero is in memory.
RttKnown ==
  \A ip \in Addresses : \A i \in DOMAIN ip_rtt_coll[ip] :
    /\ ip_rtt_coll[ip][i].life <= life
    /\ ip_rtt_coll[ip][i].life = life /\ ip_rtt_coll[ip][i].first_rtt # 0 =>
         ip \in DOMAIN ip_throughput /\ ip_throughput[ip].first_rtt # 0

LogInv == Received /\ Remembered /\ Guessed /\ AttributesOfPacket /\ AddressesOfPacket
RttInv == RttKnown /\ RttOncePerLife
FilterIInv == FilterTypes /\ LogInv /\ RttInv
----------------------------------------------------------------------------
LEMMA FilterInitInvariant == FilterInit => FilterIInv
<1> SUFFICES ASSUME FilterInit PROVE FilterIInv
  OBVIOUS
<1>1. FilterTypes BY DEF FilterInit, FilterTypes
<1>2. LogInv BY DEF FilterInit, LogInv, Received, Remembered, Guessed, AttributesOfPacket, AddressesOfPacket
<1>3. RttInv BY DEF FilterInit, RttInv, RttKnown, RttOncePerLife
<1> QED BY <1>1, <1>2, <1>3 DEF FilterIInv

LEMMA Elements ==
  ASSUME FilterTypes
  PROVE  /\ \A i \in DOMAIN stunlog : stunlog[i].packet \in Nat /\ stunlog[i].life \in Nat
         /\ \A ip \in Addresses : \A i \in DOMAIN ip_rtt_coll[ip] : ip_rtt_coll[ip][i].life \in Nat
<1>1. \A i \in DOMAIN stunlog : stunlog[i] \in Entry
  BY DEF FilterTypes
<1>2. \A ip \in Addresses : ip_rtt_coll[ip] \in Seq(Rtt)
  BY DEF FilterTypes
<1>3. \A ip \in Addresses : \A i \in DOMAIN ip_rtt_coll[ip] : ip_rtt_coll[ip][i] \in Rtt
  BY <1>2
<1> QED BY <1>1, <1>3 DEF Entry, Rtt

(* Steps that leave the tables of round trips, and what is known of them.  *)
LEMMA RttUnchanged ==
  ASSUME RttInv, UNCHANGED <<life, ip_rtt_coll, ip_throughput>>
  PROVE  RttInv'
  BY DEF RttInv, RttKnown, RttOncePerLife

LEMMA NextReceive ==
  ASSUME FilterIInv, NEW p \in Packets, Receive(p)
  PROVE  FilterIInv'
<1>1. FilterTypes' BY DEF FilterIInv, FilterTypes, Receive, memory, tables
<1>2. LogInv'
  <2>1. Received' BY Elements DEF FilterIInv, FilterTypes, LogInv, Received, Receive, memory, tables
  <2>2. Remembered' BY DEF FilterIInv, FilterTypes, LogInv, Received, Remembered, Receive, memory, tables
  <2>3. AttributesOfPacket' /\ AddressesOfPacket' /\ Guessed'
    BY DEF FilterIInv, LogInv, AttributesOfPacket, AddressesOfPacket, Guessed, Receive, memory, tables
  <2> QED BY <2>1, <2>2, <2>3 DEF LogInv
<1>3. RttInv' BY RttUnchanged DEF FilterIInv, Receive, memory, tables
<1> QED BY <1>1, <1>2, <1>3 DEF FilterIInv

LEMMA NextParseAttribute ==
  ASSUME FilterIInv, ParseAttribute
  PROVE  FilterIInv'
<1>1. /\ pc = "attribute"
      /\ UNCHANGED <<life, serial, pc, packet, answer, last, ip_throughput, stunlog, attributes, ip_rtt_coll>>
      /\ addresses' \in {addresses, addresses \cup {AddressRow}}
  BY DEF ParseAttribute
<1>2. FilterTypes' BY <1>1 DEF FilterIInv, FilterTypes
<1>3. Received' BY <1>1 DEF FilterIInv, FilterTypes, LogInv, Received, AddressRow
<1>4. Remembered' BY <1>1 DEF FilterIInv, FilterTypes, LogInv, Remembered, AddressRow
<1>5. AttributesOfPacket' BY <1>1 DEF FilterIInv, LogInv, AttributesOfPacket
<1>6. AddressesOfPacket' /\ Guessed'
  <2>1. \A i \in DOMAIN stunlog : stunlog[i].packet \in Nat /\ stunlog[i].packet < serial
    BY <1>1, Elements DEF FilterIInv, LogInv, Received
  <2>2. AddressRow.packet = serial /\ AddressRow.life = life /\ AddressRow.log_id = last + 1
    BY DEF AddressRow
  <2>3. last + 1 = IF \E j \in DOMAIN stunlog : stunlog[j].life = life THEN Len(stunlog) + 1 ELSE 1
    BY DEF FilterIInv, LogInv, Remembered
  <2>4. AddressesOfPacket'
    <3> SUFFICES ASSUME NEW a \in addresses', NEW i \in DOMAIN stunlog, stunlog[i].packet >= a.packet,
                        \A j \in 1 .. (i - 1) : stunlog[j].packet < a.packet
                 PROVE  a.log_id = IF \E j \in 1 .. (i - 1) : stunlog[j].life = a.life THEN i ELSE 1
      BY <1>1 DEF AddressesOfPacket
    <3>1. a # AddressRow
      BY <2>1, <2>2 DEF FilterIInv, FilterTypes
    <3> QED BY <1>1, <3>1 DEF FilterIInv, LogInv, AddressesOfPacket
  <2>5. Guessed'
    BY <1>1, <2>2, <2>3 DEF FilterIInv, LogInv, Guessed
  <2> QED BY <2>4, <2>5
<1>7. RttInv' BY <1>1, RttUnchanged DEF FilterIInv
<1> QED BY <1>2, <1>3, <1>4, <1>5, <1>6, <1>7 DEF FilterIInv, LogInv

LEMMA NextLogStun ==
  ASSUME FilterIInv, LogStun
  PROVE  FilterIInv'
<1> DEFINE e == [packet |-> serial, life |-> life]
<1>1. /\ pc = "attribute" /\ pc' = "attributes"
      /\ UNCHANGED <<life, serial, ip_throughput, addresses, attributes, ip_rtt_coll>>
  BY DEF LogStun
<1>2. RttInv' BY <1>1, RttUnchanged DEF FilterIInv
<1>3. CASE stunlog' = stunlog /\ last' = last
  <2>1. FilterTypes' BY <1>1, <1>3 DEF FilterIInv, FilterTypes
  <2>2. Received' BY <1>1, <1>3 DEF FilterIInv, FilterTypes, LogInv, Received
  <2>3. Remembered' BY <1>1, <1>3 DEF FilterIInv, FilterTypes, LogInv, Received, Remembered
  <2>4. AttributesOfPacket' /\ AddressesOfPacket' /\ Guessed'
    BY <1>1, <1>3 DEF FilterIInv, LogInv, AttributesOfPacket, AddressesOfPacket, Guessed
  <2> QED BY <1>2, <2>1, <2>2, <2>3, <2>4 DEF FilterIInv, LogInv
<1>4. CASE stunlog' = Append(stunlog, e) /\ last' = Len(stunlog) + 1
  <2>1. e \in Entry /\ stunlog \in Seq(Entry) /\ Len(stunlog) \in Nat
    BY DEF FilterIInv, FilterTypes, Entry
  <2>2. FilterTypes' BY <1>1, <1>4, <2>1 DEF FilterIInv, FilterTypes
  <2>3. /\ DOMAIN stunlog = 1 .. Len(stunlog)
        /\ DOMAIN stunlog' = 1 .. (Len(stunlog) + 1)
        /\ Len(stunlog') = Len(stunlog) + 1
        /\ stunlog'[Len(stunlog) + 1] = e
        /\ \A i \in DOMAIN stunlog : stunlog'[i] = stunlog[i]
    BY <1>4, <2>1
  <2>4. \A i \in DOMAIN stunlog' : i \in DOMAIN stunlog \/ i = Len(stunlog) + 1
    BY <2>1, <2>3
  <2>5. e.packet = serial /\ e.life = life
    OBVIOUS
  <2> HIDE DEF e
  <2>6. Received'
    <3>1. \A i \in DOMAIN stunlog' : stunlog'[i].packet <= serial /\ stunlog'[i].life <= life
      BY <2>3, <2>4, <2>5 DEF FilterIInv, FilterTypes, LogInv, Received
    <3> QED BY <1>1, <3>1 DEF FilterIInv, LogInv, Received
  <2>7. Remembered'
    <3>1. \A i \in DOMAIN stunlog : stunlog[i].packet < serial
      BY <1>1 DEF FilterIInv, LogInv, Received
    <3>2. \A i \in DOMAIN stunlog' : stunlog'[i].packet = serial => i = Len(stunlog) + 1
      BY <2>3, <2>4, <3>1 DEF FilterIInv, FilterTypes
    <3>3. Len(stunlog) + 1 \in DOMAIN stunlog' /\ stunlog'[Len(stunlog) + 1].life = life
      BY <2>1, <2>3, <2>5
    <3> QED BY <1>1, <1>4, <2>3, <3>2, <3>3 DEF Remembered
  <2>8. AttributesOfPacket'
    <3> SUFFICES ASSUME NEW a \in attributes
                 PROVE  LET before == {i \in DOMAIN stunlog' : /\ stunlog'[i].life = a.life
                                                              /\ stunlog'[i].packet <= a.packet}
                        IN /\ \A i \in DOMAIN stunlog' : stunlog'[i].packet = a.packet => a.log_id = i
                           /\ a.log_id \in before \cup {0} /\ \A i \in before : i <= a.log_id
      BY <1>1 DEF AttributesOfPacket
    <3>1. a.packet \in Nat /\ a.packet < serial /\ serial \in Nat
      BY <1>1 DEF FilterIInv, FilterTypes, LogInv, Received
    <3>2. {i \in DOMAIN stunlog' : stunlog'[i].life = a.life /\ stunlog'[i].packet <= a.packet}
            = {i \in DOMAIN stunlog : stunlog[i].life = a.life /\ stunlog[i].packet <= a.packet}
      BY <2>1, <2>3, <2>4, <2>5, <3>1
    <3>3. \A i \in DOMAIN stunlog' : stunlog'[i].packet = a.packet =>
            i \in DOMAIN stunlog /\ stunlog[i].packet = a.packet
      BY <2>3, <2>4, <2>5, <3>1
    <3> QED BY <3>2, <3>3 DEF FilterIInv, LogInv, AttributesOfPacket
  <2>9. AddressesOfPacket'
    <3> SUFFICES ASSUME NEW a \in addresses, NEW i \in DOMAIN stunlog', stunlog'[i].packet >= a.packet,
                        \A j \in 1 .. (i - 1) : stunlog'[j].packet < a.packet
                 PROVE  a.log_id = IF \E j \in 1 .. (i - 1) : stunlog'[j].life = a.life THEN i ELSE 1
      BY <1>1 DEF AddressesOfPacket
    <3>1. \A j \in 1 .. (i - 1) : j \in DOMAIN stunlog
      BY <2>1, <2>3
    <3>2. \A j \in 1 .. (i - 1) : stunlog'[j] = stunlog[j]
      BY <2>3, <3>1
    <3>3. CASE i \in DOMAIN stunlog
      BY <2>3, <3>2, <3>3 DEF FilterIInv, LogInv, AddressesOfPacket
    <3>4. CASE i = Len(stunlog) + 1
      <4>1. 1 .. (i - 1) = DOMAIN stunlog
        BY <2>1, <2>3, <3>4
      <4> QED BY <3>2, <3>4, <4>1 DEF FilterIInv, LogInv, Guessed
    <3> QED BY <2>4, <3>3, <3>4
  <2>10. Guessed'
    <3> SUFFICES ASSUME NEW a \in addresses
                 PROVE  ~ \A j \in DOMAIN stunlog' : stunlog'[j].packet < a.packet
      BY <1>1 DEF Guessed
    <3>1. a.packet \in Nat /\ a.packet <= serial /\ serial \in Nat
      BY DEF FilterIInv, FilterTypes, LogInv, Received
    <3>2. Len(stunlog) + 1 \in DOMAIN stunlog' /\ stunlog'[Len(stunlog) + 1].packet = serial
      BY <2>1, <2>3, <2>5
    <3> QED BY <3>1, <3>2
  <2> QED BY <1>2, <2>2, <2>6, <2>7, <2>8, <2>9, <2>10 DEF FilterIInv, LogInv
<1> QED BY <1>3, <1>4 DEF LogStun

LEMMA NextInsertAttributes ==
  ASSUME FilterIInv, InsertAttributes
  PROVE  FilterIInv'
<1>1. /\ pc = "attributes" /\ pc' = "traffic"
      /\ UNCHANGED <<life, serial, last, ip_throughput, stunlog, addresses, ip_rtt_coll>>
  BY DEF InsertAttributes, memory
<1>2. \A a \in attributes' \ attributes : a.packet = serial /\ a.life = life /\ a.log_id = last
  BY DEF InsertAttributes
<1>3. FilterTypes' BY <1>1 DEF FilterIInv, FilterTypes
<1>4. Received' BY <1>1, <1>2 DEF FilterIInv, FilterTypes, LogInv, Received
<1>5. Remembered' BY <1>1 DEF FilterIInv, LogInv, Remembered
<1>6. AttributesOfPacket'
  <2> SUFFICES ASSUME NEW a \in attributes'
               PROVE  LET before == {i \in DOMAIN stunlog : /\ stunlog[i].life = a.life
                                                           /\ stunlog[i].packet <= a.packet}
                      IN /\ \A i \in DOMAIN stunlog : stunlog[i].packet = a.packet => a.log_id = i
                         /\ a.log_id \in before \cup {0} /\ \A i \in before : i <= a.log_id
    BY <1>1 DEF AttributesOfPacket
  <2>1. CASE a \in attributes
    BY <2>1 DEF FilterIInv, LogInv, AttributesOfPacket
  <2>2. CASE a \notin attributes
    <3>1. a.packet = serial /\ a.life = life /\ a.log_id = last
      BY <1>2, <2>2
    <3>2. \A i \in DOMAIN stunlog : stunlog[i].packet = serial => last = i
      BY <1>1 DEF FilterIInv, LogInv, Remembered
    <3> DEFINE before == {i \in DOMAIN stunlog : stunlog[i].life = life /\ stunlog[i].packet <= serial}
    <3>3. DOMAIN stunlog = 1 .. Len(stunlog) /\ Len(stunlog) \in Nat
      BY DEF FilterIInv, FilterTypes
    <3>4. CASE \E i \in DOMAIN stunlog : stunlog[i].life = life
      <4>1. last = Len(stunlog) /\ (last # 0 => stunlog[last].life = life)
        BY <3>4 DEF FilterIInv, LogInv, Remembered
      <4>2. last \in DOMAIN stunlog
        BY <3>3, <3>4, <4>1
      <4>3. last \in before
        BY <3>3, <4>1, <4>2 DEF FilterIInv, LogInv, Received
      <4>4. \A i \in before : i <= last
        BY <3>3, <4>1
      <4> QED BY <3>1, <3>2, <4>3, <4>4
    <3>5. CASE ~ \E i \in DOMAIN stunlog : stunlog[i].life = life
      <4>1. last = 0 /\ before = {}
        BY <3>5 DEF FilterIInv, LogInv, Remembered
      <4> QED BY <3>1, <3>2, <4>1
    <3> QED BY <3>4, <3>5
  <2> QED BY <2>1, <2>2
<1>7. AddressesOfPacket' /\ Guessed' BY <1>1 DEF FilterIInv, LogInv, AddressesOfPacket, Guessed
<1>8. RttInv' BY <1>1, RttUnchanged DEF FilterIInv
<1> QED BY <1>3, <1>4, <1>5, <1>6, <1>7, <1>8 DEF FilterIInv, LogInv

(* The part about the log does not mind the end of a packet.               *)
LEMMA LogUnchanged ==
  ASSUME FilterIInv, pc = "traffic", pc' = "idle",
         UNCHANGED <<life, serial, last, stunlog, addresses, attributes>>
  PROVE  LogInv'
  BY DEF FilterIInv, LogInv, Received, Remembered, Guessed, AttributesOfPacket, AddressesOfPacket

LEMMA NextCountFirst ==
  ASSUME FilterIInv, CountFirst
  PROVE  FilterIInv'
<1>1. /\ pc = "traffic" /\ pc' = "idle" /\ packet.ip \notin DOMAIN ip_throughput
      /\ UNCHANGED <<life, serial, last, stunlog, addresses, attributes, ip_rtt_coll>>
  BY DEF CountFirst, tables
<1>2. LogInv' BY <1>1, LogUnchanged
<1>3. CASE packet.ip \in Addresses
  <2>1. ip_throughput' = [a \in DOMAIN ip_throughput \cup {packet.ip} |->
               IF a = packet.ip THEN [counter |-> 1, first_rtt |-> 0] ELSE ip_throughput[a]]
    BY <1>3 DEF CountFirst
  <2>2. DOMAIN ip_throughput' = DOMAIN ip_throughput \cup {packet.ip}
    BY <2>1
  <2>3. ip_throughput' \in [DOMAIN ip_throughput' -> [counter : Nat, first_rtt : Nat]]
    BY <2>1, <2>2 DEF FilterIInv, FilterTypes
  <2>4. FilterTypes' BY <1>1, <1>3, <2>2, <2>3 DEF FilterIInv, FilterTypes
  <2>5. \A a \in DOMAIN ip_throughput : ip_throughput'[a] = ip_throughput[a]
    BY <1>1, <2>1
  <2>6. RttInv' BY <1>1, <2>2, <2>5 DEF FilterIInv, RttInv, RttKnown, RttOncePerLife
  <2> QED BY <1>2, <2>4, <2>6 DEF FilterIInv
<1>4. CASE packet.ip \notin Addresses
  <2>1. ip_throughput' = ip_throughput BY <1>4 DEF CountFirst
  <2>2. FilterTypes' BY <1>1, <2>1 DEF FilterIInv, FilterTypes
  <2>3. RttInv' BY <1>1, <2>1, RttUnchanged DEF FilterIInv
  <2> QED BY <1>2, <2>2, <2>3 DEF FilterIInv
<1> QED BY <1>3, <1>4

LEMMA NextCount ==
  ASSUME FilterIInv, NEW duration \in 0..1, Count(duration)
  PROVE  FilterIInv'
<1> DEFINE ip == packet.ip
           seen == ip_throughput[ip]
           first == seen.first_rtt = 0
           rtt == IF first THEN duration ELSE seen.first_rtt
           entry == [counter |-> seen.counter + 1, first_rtt |-> rtt]
           row == [life |-> life, first_rtt |-> duration, counter |-> entry.counter]
           old == ip_rtt_coll[ip]
<1>1. /\ pc = "traffic" /\ pc' = "idle" /\ ip \in DOMAIN ip_throughput
      /\ UNCHANGED <<life, serial, last, stunlog, addresses, attributes>>
      /\ ip_throughput' = [ip_throughput EXCEPT ![ip] = entry]
  BY DEF Count
<1>2. \/ ip_rtt_coll' = ip_rtt_coll
      \/ first /\ ip_rtt_coll' = [ip_rtt_coll EXCEPT ![ip] = Append(old, row)]
      \/ ip_rtt_coll' = [ip_rtt_coll EXCEPT ![ip] =
                           [i \in DOMAIN old |-> [old[i] EXCEPT !.counter = entry.counter]]]
  BY DEF Count
<1>3. LogInv' BY <1>1, LogUnchanged
<1>4. /\ ip \in Addresses /\ seen.counter \in Nat /\ seen.first_rtt \in Nat
      /\ old \in Seq(Rtt) /\ life \in Nat
  BY <1>1 DEF FilterIInv, FilterTypes
<1>5. entry \in [counter : Nat, first_rtt : Nat] /\ entry.counter \in Nat /\ entry.first_rtt = rtt
  BY <1>4
<1>6. row \in Rtt /\ row.life = life /\ row.first_rtt = duration
  BY <1>4, <1>5 DEF Rtt
<1> HIDE DEF entry, row, old, seen, rtt, ip, first
<1>7. /\ DOMAIN ip_throughput' = DOMAIN ip_throughput
      /\ ip_throughput' \in [DOMAIN ip_throughput' -> [counter : Nat, first_rtt : Nat]]
      /\ ip_throughput'[ip] = entry
      /\ \A a \in DOMAIN ip_throughput \ {ip} : ip_throughput'[a] = ip_throughput[a]
  BY <1>1, <1>5 DEF FilterIInv, FilterTypes
<1>8. rtt # 0 \/ (first /\ duration = 0)
  BY DEF rtt, first
<1>9. first \/ rtt = seen.first_rtt
  BY DEF rtt
<1>10. \E new \in Seq(Rtt) :
        /\ ip_rtt_coll' = [ip_rtt_coll EXCEPT ![ip] = new]
        /\ \A i \in DOMAIN old : /\ i \in DOMAIN new /\ new[i].life = old[i].life
                                 /\ new[i].first_rtt = old[i].first_rtt
        /\ \/ DOMAIN new = DOMAIN old
           \/ /\ first /\ DOMAIN new = DOMAIN old \cup {Len(old) + 1}
              /\ new[Len(old) + 1] = row
  <2>1. CASE ip_rtt_coll' = ip_rtt_coll
    <3>1. ip_rtt_coll' = [ip_rtt_coll EXCEPT ![ip] = old]
      BY <1>4, <2>1 DEF FilterIInv, FilterTypes, old
    <3> QED BY <1>4, <3>1
  <2>2. CASE first /\ ip_rtt_coll' = [ip_rtt_coll EXCEPT ![ip] = Append(old, row)]
    <3>1. Append(old, row) \in Seq(Rtt) /\ DOMAIN Append(old, row) = DOMAIN old \cup {Len(old) + 1}
      BY <1>4, <1>6
    <3>2. \A i \in DOMAIN old : Append(old, row)[i] = old[i]
      BY <1>4, <1>6
    <3>3. Append(old, row)[Len(old) + 1] = row
      BY <1>4, <1>6
    <3> QED BY <2>2, <3>1, <3>2, <3>3
  <2>3. CASE ip_rtt_coll' = [ip_rtt_coll EXCEPT ![ip] =
                               [i \in DOMAIN old |-> [old[i] EXCEPT !.counter = entry.counter]]]
    <3> DEFINE new == [i \in DOMAIN old |-> [old[i] EXCEPT !.counter = entry.counter]]
    <3>1. \A i \in DOMAIN old : old[i] \in Rtt
      BY <1>4
    <3>2. \A i \in DOMAIN old : /\ new[i] \in Rtt /\ new[i].life = old[i].life
                                /\ new[i].first_rtt = old[i].first_rtt
      BY <1>5, <3>1 DEF Rtt
    <3>3. DOMAIN new = DOMAIN old /\ DOMAIN old = 1 .. Len(old) /\ Len(old) \in Nat
      BY <1>4
    <3> HIDE DEF new
    <3>5. new = [i \in 1 .. Len(old) |-> new[i]]
      BY <3>3 DEF new
    <3>4. new \in Seq(Rtt)
      BY <3>2, <3>3, <3>5
    <3> QED BY <2>3, <3>2, <3>3, <3>4 DEF new
  <2> QED BY <1>2, <2>1, <2>2, <2>3
<1>11. PICK new \in Seq(Rtt) :
        /\ ip_rtt_coll' = [ip_rtt_coll EXCEPT ![ip] = new]
        /\ \A i \in DOMAIN old : /\ i \in DOMAIN new /\ new[i].life = old[i].life
                                 /\ new[i].first_rtt = old[i].first_rtt
        /\ \/ DOMAIN new = DOMAIN old
           \/ /\ first /\ DOMAIN new = DOMAIN old \cup {Len(old) + 1}
              /\ new[Len(old) + 1] = row
  BY <1>10
<1>12. /\ ip_rtt_coll' \in [Addresses -> Seq(Rtt)] /\ ip_rtt_coll'[ip] = new
       /\ \A a \in Addresses \ {ip} : ip_rtt_coll'[a] = ip_rtt_coll[a]
  BY <1>4, <1>11 DEF FilterIInv, FilterTypes
<1>13. FilterTypes' BY <1>1, <1>7, <1>12 DEF FilterIInv, FilterTypes
<1>14. \A i \in DOMAIN old : /\ old[i].life <= life
                             /\ old[i].life = life /\ old[i].first_rtt # 0 => ~first
  BY <1>1, <1>4 DEF FilterIInv, RttInv, RttKnown, old, first, seen
<1>15. RttKnown'
  <2> SUFFICES ASSUME NEW a \in Addresses, NEW i \in DOMAIN ip_rtt_coll'[a]
               PROVE  /\ ip_rtt_coll'[a][i].life <= life
                      /\ ip_rtt_coll'[a][i].life = life /\ ip_rtt_coll'[a][i].first_rtt # 0 =>
                           a \in DOMAIN ip_throughput' /\ ip_throughput'[a].first_rtt # 0
    BY <1>1 DEF RttKnown
  <2>1. CASE a # ip BY <1>7, <1>12, <2>1 DEF FilterIInv, RttInv, RttKnown
  <2>2. CASE a = ip /\ i \in DOMAIN old
    <3>1. first \/ rtt # 0 BY <1>8
    <3> QED BY <1>1, <1>5, <1>7, <1>11, <1>12, <1>14, <2>2, <3>1
  <2>3. CASE a = ip /\ i \notin DOMAIN old
    <3>1. new[i] = row BY <1>11, <1>12, <2>3
    <3>2. duration # 0 => rtt # 0 BY <1>8
    <3> QED BY <1>1, <1>4, <1>5, <1>6, <1>7, <1>12, <2>3, <3>1, <3>2
  <2> QED BY <2>1, <2>2, <2>3
<1>16. RttOncePerLife'
  <2> SUFFICES ASSUME NEW a \in Addresses, NEW i \in DOMAIN ip_rtt_coll'[a],
                      NEW j \in DOMAIN ip_rtt_coll'[a],
                      i < j, ip_rtt_coll'[a][i].life = ip_rtt_coll'[a][j].life
               PROVE  ip_rtt_coll'[a][i].first_rtt = 0
    BY DEF RttOncePerLife
  <2>1. CASE a # ip BY <1>12, <2>1 DEF FilterIInv, RttInv, RttOncePerLife
  <2>2. CASE a = ip /\ i \in DOMAIN old /\ j \in DOMAIN old
    <3>1. old[i].first_rtt = 0
      BY <1>4, <1>11, <1>12, <2>2 DEF FilterIInv, RttInv, RttOncePerLife, old
    <3> QED BY <1>11, <1>12, <2>2, <3>1
  <2>3. CASE a = ip /\ i \in DOMAIN old /\ j \notin DOMAIN old
    <3>1. first /\ new[j] = row BY <1>11, <1>12, <2>3
    <3>2. old[i].life = life BY <1>6, <1>11, <1>12, <2>3, <3>1
    <3> QED BY <1>11, <1>12, <1>14, <2>3, <3>1, <3>2
  <2>4. CASE a = ip /\ i \notin DOMAIN old
    <3>1. i = Len(old) + 1 /\ j \in DOMAIN old \cup {Len(old) + 1}
      BY <1>11, <1>12, <2>4
    <3>2. DOMAIN old = 1 .. Len(old) /\ Len(old) \in Nat BY <1>4
    <3> QED BY <3>1, <3>2
  <2> QED BY <2>1, <2>2, <2>3, <2>4
<1> QED BY <1>3, <1>13, <1>15, <1>16 DEF FilterIInv, RttInv

LEMMA NextRestart ==
  ASSUME FilterIInv, Restart
  PROVE  FilterIInv'
<1>1. /\ life' = life + 1 /\ pc' = "idle" /\ last' = 0 /\ ip_throughput' = [a \in {} |-> 0]
      /\ UNCHANGED <<serial, stunlog, addresses, attributes, ip_rtt_coll>>
  BY DEF Restart, tables
<1>2. FilterTypes' BY <1>1 DEF FilterIInv, FilterTypes
<1>3. Received' BY <1>1, Elements DEF FilterIInv, FilterTypes, LogInv, Received
<1>4. Remembered'
  <2>1. \A i \in DOMAIN stunlog : stunlog[i].life # life + 1
    <3>1. \A i \in DOMAIN stunlog : stunlog[i].life \in Nat BY Elements DEF FilterIInv
    <3> QED BY <3>1 DEF FilterIInv, FilterTypes, LogInv, Received
  <2> QED BY <1>1, <2>1 DEF Remembered
<1>5. AttributesOfPacket' /\ AddressesOfPacket' /\ Guessed'
  BY <1>1 DEF FilterIInv, LogInv, AttributesOfPacket, AddressesOfPacket, Guessed
<1>6. RttInv'
  <2>1. \A ip \in Addresses : \A i \in DOMAIN ip_rtt_coll[ip] :
           ip_rtt_coll[ip][i].life \in Nat /\ ip_rtt_coll[ip][i].life <= life
    BY Elements DEF FilterIInv, RttInv, RttKnown
  <2>2. \A ip \in Addresses : \A i \in DOMAIN ip_rtt_coll[ip] :
           ip_rtt_coll[ip][i].life <= life + 1 /\ ip_rtt_coll[ip][i].life # life + 1
    BY <2>1 DEF FilterIInv, FilterTypes
  <2>3. RttKnown' BY <1>1, <2>2 DEF RttKnown
  <2> QED BY <1>1, <2>3 DEF FilterIInv, RttInv, RttOncePerLife
<1> QED BY <1>2, <1>3, <1>4, <1>5, <1>6 DEF FilterIInv, LogInv

LEMMA FilterNextInvariant == FilterIInv /\ [FilterNext]_filterVars => FilterIInv'
<1> SUFFICES ASSUME FilterIInv, [FilterNext]_filterVars PROVE FilterIInv'
  OBVIOUS
<1>1. CASE ParseAttribute BY <1>1, NextParseAttribute
<1>2. CASE LogStun BY <1>2, NextLogStun
<1>3. CASE InsertAttributes BY <1>3, NextInsertAttributes
<1>4. CASE CountFirst BY <1>4, NextCountFirst
<1>5. CASE \E duration \in 0..1 : Count(duration) BY <1>5, NextCount
<1>6. CASE Restart BY <1>6, NextRestart
<1>7. CASE \E p \in Packets : Receive(p) BY <1>7, NextReceive
<1>8. CASE UNCHANGED filterVars
  BY <1>8 DEF filterVars, memory, tables, FilterIInv, FilterTypes, LogInv, Received, Remembered, AttributesOfPacket,
              AddressesOfPacket, Guessed, RttInv, RttKnown, RttOncePerLife
<1> QED BY <1>1, <1>2, <1>3, <1>4, <1>5, <1>6, <1>7, <1>8 DEF FilterNext, Callback

LEMMA FilterInvariantHolds == FilterSpec => []FilterIInv
  BY FilterInitInvariant, FilterNextInvariant, PTL DEF FilterSpec
----------------------------------------------------------------------------
(* For any number of packets and restarts and whatever statements fail:    *)
(* an attribute refers to the entry of its packet if that was stored, and  *)
(* otherwise to the latest entry its process had stored before, if any.    *)
THEOREM AttributesAlwaysOfPacket == FilterSpec => []AttributesOfPacket
<1>1. FilterIInv => AttributesOfPacket BY DEF FilterIInv, LogInv
<1> QED BY <1>1, FilterInvariantHolds, PTL

(* The guess insert_address_attribute makes names the next entry that is   *)
(* stored, whichever packet that is of, if its process has stored one      *)
(* before, and the first entry of the database otherwise.                  *)
THEOREM AddressesAlwaysOfPacket == FilterSpec => []AddressesOfPacket
<1>1. FilterIInv => AddressesOfPacket BY DEF FilterIInv, LogInv
<1> QED BY <1>1, FilterInvariantHolds, PTL

(* The first round trip of an address is stored once per process, if it is *)
(* not zero.                                                               *)
THEOREM AlwaysRttOncePerLife == FilterSpec => []RttOncePerLife
<1>1. FilterIInv => RttOncePerLife BY DEF FilterIInv, RttInv
<1> QED BY <1>1, FilterInvariantHolds, PTL
=============================================================================
