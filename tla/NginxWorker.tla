---------------------------- MODULE NginxWorker ----------------------------
(***************************************************************************)
(* One nginx worker process with the module loaded: the status handler of  *)
(* ngx_provallo_interface.c and the body and upstream filters of           *)
(* helpers/nginx_helper.cpp.                                               *)
(*                                                                         *)
(* A worker runs one callback at a time, so a callback is an action.  What *)
(* outlives it is shared by all requests of the worker: the counters, and  *)
(* the static buffer the handler formats the status page in.  The page is  *)
(* handed to nginx by reference; when the socket of the client takes only  *)
(* a part of it, nginx sends the rest in a later turn of its event loop,   *)
(* from whatever the buffer then holds.                                    *)
(*                                                                         *)
(* The page is two parts: one with the counter of filtered requests and    *)
(* one with those of malformed sessions and of avoided issues.  The number *)
(* of classifiers, which the handler sets to one, is left out, and so is   *)
(* the fixed text.                                                         *)
(***************************************************************************)
EXTENDS Integers, Sequences, FiniteSets

CONSTANTS
  Request,
  Piece,              \* contents of a buffer
  filter_request,     \* verdict on a body: 1 filtered, -1 malformed, 0 neither
  MaxChain            \* buffers in a chain

ASSUME ConstantsAssumption ==
  /\ filter_request \in [SUBSET Piece -> {-1, 0, 1}]
  /\ MaxChain \in Nat
  /\ IsFiniteSet(Request)

\* flagged: flush, last_buf or last_in_chain.
Buffer == [piece : Piece, in_file : BOOLEAN, flagged : BOOLEAN]
Chain == UNION {[1..n -> Buffer] : n \in 0..MaxChain}

VARIABLES
  provallo_requests_filtered, provallo_malformed_sessions,
  provallo_stability_issues_avoided,
  str_buff,           \* the static buffer, as the parts of the page in it
  state,              \* of every request
  received,           \* the parts of the page the client has got
  viewed              \* which view of the page a request was, 0 if none

counters == <<provallo_requests_filtered, provallo_malformed_sessions,
              provallo_stability_issues_avoided>>
vars == <<counters, str_buff, state, received, viewed>>
----------------------------------------------------------------------------
\* The text snprintf leaves in str_buff.
Page(f, m, a) == <<[filtered |-> f], [malformed |-> m, avoided |-> a]>>

Init ==
  /\ provallo_requests_filtered = 0
  /\ provallo_malformed_sessions = 0
  /\ provallo_stability_issues_avoided = 0
  /\ str_buff = <<>>
  /\ state = [r \in Request |-> "new"]
  /\ received = [r \in Request |-> <<>>]
  /\ viewed = [r \in Request |-> 0]

\* Mutant: the counters are incremented after they are printed.
FormatPostIncrement ==
  /\ provallo_requests_filtered' = provallo_requests_filtered + 1
  /\ provallo_malformed_sessions' = provallo_malformed_sessions + 1
  /\ provallo_stability_issues_avoided' = provallo_stability_issues_avoided + 1
  /\ str_buff' = Page(provallo_requests_filtered, provallo_malformed_sessions,
                      provallo_stability_issues_avoided)

(* Every view of the page increments all three counters.                   *)
Format ==
  /\ provallo_requests_filtered' = provallo_requests_filtered + 1
  /\ provallo_malformed_sessions' = provallo_malformed_sessions + 1
  /\ provallo_stability_issues_avoided' = provallo_stability_issues_avoided + 1
  /\ str_buff' = Page(provallo_requests_filtered', provallo_malformed_sessions',
                      provallo_stability_issues_avoided')

View(r) ==
  /\ state[r] = "new"
  /\ Format
  /\ viewed' = [viewed EXCEPT ![r] = provallo_stability_issues_avoided']

(* ngx_http_send_header fails or the request wants the header only, or the *)
(* buffer of the body cannot be allocated.                                 *)
HandlerWithoutBody(r) ==
  /\ View(r)
  /\ state' = [state EXCEPT ![r] = "closed"]
  /\ UNCHANGED received

\* ngx_http_output_filter sends n parts at once.
HandlerWithBody(r, n) ==
  /\ View(r)
  /\ state' = [state EXCEPT ![r] = IF n = 2 THEN "closed" ELSE "sending"]
  /\ received' = [received EXCEPT ![r] = SubSeq(str_buff', 1, n)]

(* nginx sends what is left of a page when the socket is writable again,   *)
(* or the client goes away.                                                *)
SendRest(r) ==
  /\ state[r] = "sending"
  /\ received' = [received EXCEPT ![r] = Append(@, str_buff[Len(@) + 1])]
  /\ state' = [state EXCEPT ![r] = IF Len(received'[r]) = 2 THEN "closed" ELSE @]
  /\ UNCHANGED <<counters, str_buff, viewed>>

Disconnect(r) ==
  /\ state[r] = "sending"
  /\ state' = [state EXCEPT ![r] = "closed"]
  /\ UNCHANGED <<counters, str_buff, received, viewed>>

\* The body the filter puts together: the flagged buffers only.
Collected(in) == {in[n].piece : n \in {k \in DOMAIN in : in[k].flagged}}

InFile(in) == \E n \in DOMAIN in : in[n].in_file

(* A buffer in a file: the filter returns, the request is left as it is.   *)
FilterInFile(r, in) ==
  /\ state[r] \in {"new", "unanswered"} /\ InFile(in)
  /\ state' = [state EXCEPT ![r] = "unanswered"]
  /\ UNCHANGED <<counters, str_buff, received, viewed>>

\* Mutant: malformed sessions are counted as filtered requests.
FilterCountsOne(r, in) ==
  /\ state[r] \in {"new", "unanswered"} /\ ~InFile(in)
  /\ LET result == filter_request[Collected(in)]
     IN /\ provallo_requests_filtered' =
             provallo_requests_filtered + (IF result # 0 THEN 1 ELSE 0)
        /\ state' = [state EXCEPT ![r] = CASE result = 1 -> "forbidden"
                                           [] result = -1 -> "bad_request"
                                           [] OTHER -> "ok"]
  /\ UNCHANGED <<provallo_malformed_sessions, provallo_stability_issues_avoided,
                 str_buff, received, viewed>>

(* filter_request on the collected body, the counter of its verdict, and   *)
(* the status the request is finalized with.                               *)
Filter(r, in) ==
  /\ state[r] \in {"new", "unanswered"} /\ ~InFile(in)
  /\ LET result == filter_request[Collected(in)]
     IN /\ provallo_requests_filtered' =
             provallo_requests_filtered + (IF result = 1 THEN 1 ELSE 0)
        /\ provallo_malformed_sessions' =
             provallo_malformed_sessions + (IF result = -1 THEN 1 ELSE 0)
        /\ state' = [state EXCEPT ![r] = CASE result = 1 -> "forbidden"
                                           [] result = -1 -> "bad_request"
                                           [] OTHER -> "ok"]
  /\ UNCHANGED <<provallo_stability_issues_avoided, str_buff, received, viewed>>

Next ==
  \E r \in Request :
    \/ HandlerWithoutBody(r)
    \/ \E n \in 0..2 : HandlerWithBody(r, n)
    \/ SendRest(r)
    \/ Disconnect(r)
    \/ \E in \in Chain : FilterInFile(r, in) \/ Filter(r, in)

Spec == Init /\ [][Next]_vars
----------------------------------------------------------------------------
States == {"new", "sending", "closed", "unanswered", "forbidden", "bad_request", "ok"}
Parts == [filtered : Nat] \cup [malformed : Nat, avoided : Nat]

TypeOK ==
  /\ provallo_requests_filtered \in Nat /\ provallo_malformed_sessions \in Nat
  /\ provallo_stability_issues_avoided \in Nat
  /\ str_buff \in Seq(Parts) /\ Len(str_buff) \in {0, 2}
  /\ state \in [Request -> States]
  /\ received \in [Request -> Seq(Parts)]
  /\ viewed \in [Request -> Nat]

Finalized(s) == {r \in Request : state[r] = s}
Views == {r \in Request : viewed[r] # 0}

\* The counters are shared by the handler and the filters of all requests: each
\* is the number of views of the page plus the number of requests finalized with
\* the status it counts, and no request is counted twice.
CountersAddUp ==
  /\ provallo_requests_filtered = Cardinality(Views) + Cardinality(Finalized("forbidden"))
  /\ provallo_malformed_sessions = Cardinality(Views) + Cardinality(Finalized("bad_request"))
  /\ provallo_stability_issues_avoided = Cardinality(Views)

\* A page sent in several turns may mix views, but no part of it is older than
\* the view that asked for it.
PartsNotOlder ==
  \A r \in Request :
    /\ Len(received[r]) >= 1 => received[r][1].filtered >= viewed[r]
    /\ Len(received[r]) = 2 => received[r][2].avoided >= viewed[r]

\* As long as nobody else views the page, what a client has got of it is what
\* its own view printed.
LatestPageIsOwn ==
  \A r \in Views : viewed[r] = provallo_stability_issues_avoided =>
    /\ str_buff[2].avoided = viewed[r]
    /\ \A k \in DOMAIN received[r] : received[r][k] = str_buff[k]
=============================================================================
