----------------------------- MODULE HttpClient -----------------------------
(***************************************************************************)
(* The HTTP client of httpc_common.lua: a table with one entry for each    *)
(* socket index, over the outgoing connections lua_libsu.c opens, and the  *)
(* store of async.lua, which keeps what each request was about.            *)
(*                                                                         *)
(* A request is known by its number, which is its uuid in the store; the   *)
(* buffer that collects its answer has the same name.  An answer arrives   *)
(* in Chunks parts, the first of which ends the headers.  How connections  *)
(* end is in SockLoop; here a server may hang up at any point, and a       *)
(* connection that fails is reported to nobody.  What an entry keeps but   *)
(* nobody reads before it is written again is put back to its first value. *)
(*                                                                         *)
(* A buffer that goes out has a name of its own: SendBuffer(r) is what the *)
(* request is copied to before it is written, or the rest of it that was   *)
(* queued; PostBuffer(r) is what a caller wrote the request's body into.   *)
(* Left out: after an error in a handler tcp_connect_handler_call pops the *)
(* Lua stack once more than it pushed (lua_libsu.c:226-228).               *)
(***************************************************************************)
EXTENDS Integers, Sequences, FiniteSetsExt

CONSTANTS
  Idx,       \* the socket indexes outgoing connections can have
  Chunks     \* parts in which an answer is read

ASSUME IdxAssumption == IsFiniteSet(Idx) /\ Idx \subseteq Nat
ASSUME ChunksAssumption == Chunks \in Nat \ {0}

VARIABLES
  async_requests_store,    \* what was put there, in the order of the uuids
  is,          \* inventory_client_sockets: request, its RecvData, parts read
  conn,        \* the connection: its state, the request written on it, the
               \* server's answer, the parts of it still to be read
  live,        \* the RecvData buffers that are allocated
  out,         \* the buffers that are allocated for what goes out
  whole,       \* requests that the first write took to the last byte
  outcome      \* of each request

outgoing == <<out, whole>>
client == <<async_requests_store, is, conn, live, outgoing, outcome>>

Made == 1 .. Len(async_requests_store)
NoRequest == 0      \* nil, as a request and as its buffer
NoAnswer == {}
NoEntry == [req |-> NoRequest, recv |-> NoRequest, got |-> 0]
Closed == [state |-> "closed", asked |-> NoRequest, answer |-> NoAnswer, left |-> 0,
           queued |-> {}]
SendBuffer(r) == <<"send", r>>
PostBuffer(r) == <<"post", r>>

ClientInit ==
  /\ async_requests_store = <<>>
  /\ is = [i \in Idx |-> NoEntry]
  /\ conn = [i \in Idx |-> Closed]
  /\ live = {} /\ out = {} /\ whole = {} /\ outcome = <<>>

FreeIdx == {i \in Idx : conn[i].state = "closed"}

\* Seeded fault: the buffer of the request that had the index is forgotten.
MakeReqKeepsBuffer(a, posted) ==
  LET r == Len(async_requests_store) + 1
      i == Min(FreeIdx) IN
  /\ async_requests_store' = Append(async_requests_store, a)
  /\ \/ /\ outcome' = Append(outcome, "refused")
        /\ out' = out \cup (IF posted THEN {PostBuffer(r)} ELSE {})
        /\ UNCHANGED <<is, conn, live, whole>>
     \/ /\ FreeIdx # {}
        /\ outcome' = Append(outcome, "pending")
        /\ conn' = [conn EXCEPT ![i].state = "connecting"]
        /\ is' = [is EXCEPT ![i] = [NoEntry EXCEPT !.req = r]]
        /\ UNCHANGED <<live, outgoing>>

\* Puts a in the store and asks for it on the first closed index.  When no
\* connection can be opened, for want of an index or of a route, is[nil] is
\* assigned to: an error that ends the caller before it unlocks the body it
\* posted.
MakeReq(a, posted) ==
  LET r == Len(async_requests_store) + 1
      i == Min(FreeIdx) IN
  /\ async_requests_store' = Append(async_requests_store, a)
  /\ \/ /\ outcome' = Append(outcome, "refused")
        /\ out' = out \cup (IF posted THEN {PostBuffer(r)} ELSE {})
        /\ UNCHANGED <<is, conn, live, whole>>
     \/ /\ FreeIdx # {}
        /\ outcome' = Append(outcome, "pending")
        /\ conn' = [conn EXCEPT ![i].state = "connecting"]
        /\ live' = live \ {is[i].recv}
        /\ is' = [is EXCEPT ![i] = [NoEntry EXCEPT !.req = r]]
        /\ UNCHANGED outgoing

\* The first write takes the whole request, and nobody unlocks its buffer, or
\* what it did not take is queued.
ChannelReady(i, cuttable) ==
  LET r == is[i].req IN
  /\ conn[i].state = "connecting"
  /\ is' = [is EXCEPT ![i].recv = r]
  /\ live' = live \cup {r}
  /\ out' = out \cup {SendBuffer(r)}
  /\ \/ /\ conn' = [conn EXCEPT ![i].state = "asked", ![i].asked = r]
        /\ whole' = whole \cup {r}
     \/ /\ cuttable
        /\ conn' = [conn EXCEPT ![i].state = "sending", ![i].asked = r,
                                ![i].queued = {SendBuffer(r)}]
        /\ UNCHANGED whole
  /\ UNCHANGED <<async_requests_store, outcome>>

\* POLLOUT: the rest of the request is written.
SendRest(i) ==
  /\ conn[i].state = "sending"
  /\ conn' = [conn EXCEPT ![i].state = "asked", ![i].queued = {}]
  /\ out' = out \ conn[i].queued
  /\ UNCHANGED <<async_requests_store, is, live, whole, outcome>>

ConnectFails(i) ==
  /\ conn[i].state = "connecting"
  /\ conn' = [conn EXCEPT ![i] = Closed]
  /\ is' = [is EXCEPT ![i] = NoEntry]
  /\ outcome' = [outcome EXCEPT ![is[i].req] = "failed"]
  /\ UNCHANGED <<async_requests_store, live, outgoing>>

\* The server has handled the request that was written on i.
Answer(i, content) ==
  /\ conn[i].state = "asked"
  /\ conn' = [conn EXCEPT ![i].state = "answered", ![i].answer = content, ![i].left = Chunks]
  /\ UNCHANGED <<async_requests_store, is, live, outgoing, outcome>>

HangUp(i) ==
  /\ conn[i].state \in {"sending", "asked"} \/ conn[i].left > 0
  /\ conn' = [conn EXCEPT ![i].state = "over", ![i].answer = NoAnswer, ![i].left = 0]
  /\ UNCHANGED <<async_requests_store, is, live, outgoing, outcome>>

Read(i) ==
  /\ conn[i].left > 0
  /\ conn' = [conn EXCEPT ![i].left = @ - 1]
  /\ is' = [is EXCEPT ![i].got = @ + 1]
  /\ UNCHANGED <<async_requests_store, live, outgoing, outcome>>

\* Seeded fault: a connection ends as soon as something was read.
EndedEarly(i) == conn[i].state \in {"over", "answered"}

Ended(i) ==
  conn[i].state = "over" \/ (conn[i].state = "answered" /\ conn[i].left = 0)

\* SOCK_EVENT_CLOSED: what is queued was dropped, and ReadAll has run, with the
\* result given.  When it raised an error the handler ends there and the
\* buffer of the answer stays with the index.
ClosedEvent(i, result) ==
  /\ conn' = [conn EXCEPT ![i] = Closed]
  /\ outcome' = [outcome EXCEPT ![is[i].req] = result]
  /\ out' = out \ conn[i].queued
  /\ IF result = "called"
       THEN /\ live' = live \ {is[i].recv}
            /\ is' = [is EXCEPT ![i] = NoEntry]
       ELSE /\ is' = [is EXCEPT ![i] = [NoEntry EXCEPT !.recv = is[i].recv]]
            /\ UNCHANGED live
  /\ UNCHANGED <<async_requests_store, whole>>

\* The process is started again: sockets and Lua globals are new.  The store
\* is kept here as a history: no entry of the new table names its requests.
ClientRestart ==
  /\ is' = [i \in Idx |-> NoEntry]
  /\ conn' = [i \in Idx |-> Closed]
  /\ live' = {} /\ out' = {} /\ whole' = {}
  /\ outcome' = [r \in Made |-> IF outcome[r] = "pending" THEN "lost" ELSE outcome[r]]
  /\ UNCHANGED async_requests_store

ClientTypeOK ==
  /\ is \in [Idx -> [req : Made \cup {NoRequest}, recv : Made \cup {NoRequest}, got : 0 .. Chunks]]
  /\ \A i \in Idx :
       /\ conn[i].state \in {"closed", "connecting", "sending", "asked", "answered", "over"}
       /\ conn[i].asked \in Made \cup {NoRequest}
       /\ conn[i].left \in 0 .. Chunks
  /\ live \subseteq Made /\ whole \subseteq Made
  /\ outcome \in [Made -> {"pending", "called", "raised", "gone", "refused", "failed", "lost"}]

Queued == UNION {conn[i].queued : i \in Idx}

\* What is lost for good: the copy of a request that its first write took whole
\* (sock_write_data unlocks it only when something is left over), and the body
\* of an upload for which no connection could be opened.
Leaked == {SendBuffer(r) : r \in whole}
            \cup {PostBuffer(r) : r \in {m \in Made : outcome[m] = "refused"}}

\* A buffer for an answer is allocated exactly while some index holds it, each
\* by one: an error in a callback leaves at most one behind for each index.  A
\* buffer that goes out is queued on a connection or one of those the code
\* loses, and what a queue holds is still allocated.
BuffersCounted ==
  /\ live = {is[i].recv : i \in Idx} \ {NoRequest}
  /\ \A i, j \in Idx : i # j /\ is[i].recv # NoRequest => is[i].recv # is[j].recv
  /\ Queued \subseteq out /\ out \ Queued \subseteq Leaked
=============================================================================
