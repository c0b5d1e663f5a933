------------------------------ MODULE SockLoop ------------------------------
(***************************************************************************)
(* The poll loop of supp_src/lib_sock.c: the table of sockets, the events   *)
(* of one poll() handled slot by slot, and the buffers queued on each slot. *)
(*                                                                          *)
(* Above it are the two users cosimus has for TCP: the HTTP server on       *)
(* accepted connections, which answers a request with a buffer and an empty *)
(* buffer ("time to close"), and the Lua HTTP client on outgoing ones,      *)
(* which writes its request as soon as the channel is ready.  Below it is   *)
(* the kernel.  One branch (POLLIN or POLLOUT) of one slot is one action;   *)
(* peers and kernel move between any two of them.                           *)
(*                                                                          *)
(* Bytes are numbered in the order the handlers hand them over, so the      *)
(* stream a peer sees is in order exactly when it is 1, 2, 3, ...           *)
(*                                                                          *)
(* The process dies of a failed assertion, and of SIGPIPE, which nobody     *)
(* ignores (makedaemon of lib_os.c is never called): nothing it does is     *)
(* left to happen then.                                                     *)
(***************************************************************************)
EXTENDS Integers, Sequences

CONSTANTS
  Conn,          \* TCP connections, each a socket of its own
  Outbound,      \* those initiate_connect makes; the others are accepted
  Listener,      \* the listening socket
  None,          \* no connection
  MaxFds,        \* MAX_FDS
  MaxSlots,      \* bound: slots of the table the model has
  MaxBytes       \* bound: bytes handed over for a connection

Closed == -1     \* the descriptor of a free slot
Unset == 0       \* the descriptor of a slot never used

ASSUME ConnAssumption ==
  /\ Outbound \subseteq Conn
  /\ Conn \intersect {Listener, None, Closed, Unset} = {}
  /\ Listener \notin {None, Closed, Unset}
ASSUME BoundsAssumption ==
  MaxFds \in Nat /\ MaxSlots \in Nat \ {0} /\ MaxBytes \in Nat

VARIABLES
  ufd,        \* ufds[i].fd
  events,     \* ufds[i].events
  revents,    \* ufds[i].revents not handled yet
  cdata,      \* cdata[i]
  nfds,
  inCycle,    \* between poll() and the end of sock_one_cycle
  died,       \* whether the process was killed
  polled,     \* the sockets poll() was called with, while in the cycle
  kernel,     \* what the kernel knows of each connection
  unread,     \* whether the peer's data waits to be read
  asked,      \* bytes the handlers handed over for each connection
  eof,        \* of these, those before the first end asked for; 0 if none was
  out,        \* the bytes the kernel took
  ready,      \* connections whose handlers were told of the channel
  late,       \* connections whose handlers were told when they were over
  closings    \* ev_closed calls for each connection

table == <<ufd, events, cdata, nfds>>
cycle == <<revents, inCycle, died, polled>>
world == <<kernel, unread>>
history == <<asked, eof, out, ready, late, closings>>
vars == <<table, cycle, world, history>>

Slot == 0 .. MaxSlots - 1
Event == {"in", "out"}
KernelState == {"idle", "backlog", "connecting", "refused", "up",
                "fin", "reset", "dead", "over"}
Buffer == Seq(Nat)
SlotData == [owner : Conn \union {None}, listener : BOOLEAN,
             connected : BOOLEAN, xmit : Seq(Buffer), written : Int]

NewSlotData(c, connected) ==
  [owner |-> c, listener |-> FALSE, connected |-> connected,
   xmit |-> <<>>, written |-> 0]

(* http_start_listener has taken slot 0.                                    *)
Init ==
  /\ ufd = [i \in Slot |-> IF i = 0 THEN Listener ELSE Unset]
  /\ events = [i \in Slot |-> IF i = 0 THEN {"in"} ELSE {}]
  /\ revents = [i \in Slot |-> {}]
  /\ cdata = [i \in Slot |-> [NewSlotData(None, FALSE) EXCEPT !.listener = (i = 0)]]
  /\ nfds = 1
  /\ inCycle = FALSE
  /\ died = FALSE
  /\ polled = [i \in Slot |-> Closed]
  /\ kernel = [c \in Conn |-> "idle"]
  /\ unread = [c \in Conn |-> FALSE]
  /\ asked = [c \in Conn |-> 0]
  /\ eof = [c \in Conn |-> 0]
  /\ out = [c \in Conn |-> <<>>]
  /\ ready = {}
  /\ late = {}
  /\ closings = [c \in Conn |-> 0]

-----------------------------------------------------------------------------
(* The kernel and the peers: external.  A reset connection reports its      *)
(* error once, to a read or a write; after it reads end and writes kill.    *)

Becomes(c, from, to) ==
  /\ kernel[c] \in from
  /\ kernel' = [kernel EXCEPT ![c] = to]

PeerDials(c) ==
  /\ c \notin Outbound
  /\ Becomes(c, {"idle"}, "backlog")
  /\ UNCHANGED <<table, cycle, unread, history>>

Established(c) ==
  /\ Becomes(c, {"connecting"}, "up")
  /\ UNCHANGED <<table, cycle, unread, history>>

Refused(c) ==
  /\ Becomes(c, {"connecting"}, "refused")
  /\ UNCHANGED <<table, cycle, unread, history>>

PeerSends(c) ==
  /\ kernel[c] = "up"
  /\ ~unread[c]
  /\ unread' = [unread EXCEPT ![c] = TRUE]
  /\ UNCHANGED <<table, cycle, kernel, history>>

PeerCloses(c) ==
  /\ Becomes(c, {"up"}, "fin")
  /\ UNCHANGED <<table, cycle, unread, history>>

PeerResets(c) ==
  /\ Becomes(c, {"up", "fin"}, "reset")
  /\ unread' = [unread EXCEPT ![c] = FALSE]
  /\ UNCHANGED <<table, cycle, history>>

Readable(s) ==
  \/ s = Listener /\ \E c \in Conn : kernel[c] = "backlog"
  \/ s \in Conn /\ \/ kernel[s] \in {"refused", "fin", "reset", "dead"}
                   \/ unread[s]

(* Room in the socket's buffer comes and goes: it may be writable.          *)
Writable(s) ==
  s \in Conn /\ kernel[s] \in {"refused", "up", "fin", "reset", "dead"}

-----------------------------------------------------------------------------
(* sock_one_cycle: poll, then POLLIN and POLLOUT of each slot in turn.      *)

Polled(i, e) == i < nfds /\ e \in events[i]

Poll ==
  /\ ~inCycle
  /\ \E room \in SUBSET {i \in Slot : Polled(i, "out") /\ Writable(ufd[i])} :
       revents' = [i \in Slot |->
         {e \in Event : \/ e = "in" /\ Polled(i, "in") /\ Readable(ufd[i])
                        \/ e = "out" /\ i \in room}]
  /\ inCycle' = TRUE
  /\ polled' = ufd
  /\ UNCHANGED <<died, table, world, history>>

NextTurn(i, e) ==
  /\ inCycle /\ ~died
  /\ e \in revents[i]
  /\ \A j \in Slot : revents[j] # {} => i <= j
  /\ e = "out" => "in" \notin revents[i]

Turn(i, e) ==
  /\ NextTurn(i, e)
  /\ revents' = [revents EXCEPT ![i] = @ \ {e}]
  /\ UNCHANGED <<inCycle, died, polled>>

Dies ==
  /\ died' = TRUE
  /\ UNCHANGED <<revents, inCycle, polled, table, world, history>>

\* Seeded fault: drops the top slot whenever some slot is closed.
CompactAny ==
  nfds' = IF \E i \in 0 .. nfds - 1 : ufd[i] = Closed THEN nfds - 1 ELSE nfds

(* sock_remove_closed_fds compares the closed slot's descriptor, -1, with   *)
(* the top index.                                                           *)
Compact ==
  nfds' = IF \E i \in 0 .. nfds - 1 : ufd[i] = Closed /\ ufd[i] = nfds - 1
          THEN nfds - 1 ELSE nfds

EndCycle ==
  /\ inCycle /\ ~died
  /\ \A i \in Slot : revents[i] = {}
  /\ Compact
  /\ events' = [i \in Slot |-> IF i < nfds /\ ufd[i] = Closed THEN {} ELSE events[i]]
  /\ inCycle' = FALSE
  /\ polled' = [i \in Slot |-> Closed]
  /\ UNCHANGED <<ufd, cdata, revents, died, world, history>>

-----------------------------------------------------------------------------
(* Slots.  sock_get_free_index counts the new index in nfds at once.        *)

\* Seeded fault: an unconnected slot passes for a free one.
FreeOrUnconnected(j) ==
  \/ /\ j < nfds /\ ~cdata[j].connected /\ ~cdata[j].listener
     /\ \A i \in 0 .. j - 1 : cdata[i].connected \/ cdata[i].listener
     /\ UNCHANGED nfds
  \/ /\ j = nfds
     /\ \A i \in 0 .. nfds - 1 : cdata[i].connected \/ cdata[i].listener
     /\ nfds' = nfds + 1

TakeFreeIndex(j) ==
  \/ /\ j < nfds /\ ufd[j] = Closed
     /\ \A i \in 0 .. j - 1 : ufd[i] # Closed
     /\ UNCHANGED nfds
  \/ /\ j = nfds
     /\ \A i \in 0 .. nfds - 1 : ufd[i] # Closed
     /\ nfds' = nfds + 1

Occupy(j, c, connected, interest) ==
  /\ ufd' = [ufd EXCEPT ![j] = c]
  /\ events' = [events EXCEPT ![j] = interest]
  /\ cdata' = [cdata EXCEPT ![j] = NewSlotData(c, connected)]

(* sock_tcp_listener_pollin accepts, takes a slot, and only then looks      *)
(* whether there was room.                                                  *)
Accept(i, c, j) ==
  /\ Turn(i, "in")
  /\ cdata[i].listener
  /\ TakeFreeIndex(j)
  /\ \/ /\ nfds' < MaxFds
        /\ Becomes(c, {"backlog"}, "up")
        /\ Occupy(j, c, TRUE, {"in"})
        /\ ready' = ready \union {c}
     \/ /\ nfds' >= MaxFds
        /\ Becomes(c, {"backlog"}, "over")
        /\ UNCHANGED <<ufd, events, cdata, ready>>
  /\ UNCHANGED <<unread, asked, eof, out, late, closings>>

(* accept() fails, out of descriptors, and nobody looks: ev_newconn runs    *)
(* for a slot that is free.                                                 *)
AcceptNothing(i, j) ==
  /\ Turn(i, "in")
  /\ cdata[i].listener
  /\ TakeFreeIndex(j)
  /\ \/ /\ nfds' < MaxFds
        /\ ufd' = [ufd EXCEPT ![j] = Closed]
        /\ events' = [events EXCEPT ![j] = {"in"}]
        /\ cdata' = [cdata EXCEPT ![j] = NewSlotData(None, TRUE)]
     \/ nfds' >= MaxFds /\ UNCHANGED <<ufd, events, cdata>>
  /\ UNCHANGED <<world, history>>

(* A handler, of a slot shown here or of the UDP slot, calls                *)
(* initiate_connect.  No handler that does so runs for a slot already       *)
(* closed, so none runs between the two branches of a slot the first one    *)
(* closed.                                                                  *)
HandlerMayRun == ~died /\ \A i \in Slot : revents[i] # {} => ufd[i] # Closed

Connect(c, j) ==
  /\ inCycle /\ HandlerMayRun
  /\ c \in Outbound
  /\ nfds < MaxFds
  /\ TakeFreeIndex(j)
  /\ Becomes(c, {"idle"}, "connecting")
  /\ Occupy(j, c, FALSE, {"in", "out"})
  /\ UNCHANGED <<cycle, unread, history>>

(* Slots that were refused are counted too: when nfds has passed MAX_FDS    *)
(* the assertion of initiate_connect fails.                                 *)
ConnectAborts ==
  /\ inCycle /\ HandlerMayRun
  /\ nfds > MaxFds
  /\ Dies

(* initiate_connect gives up: no room, or connect() fails at once.          *)
ConnectGivesUp(c) ==
  /\ inCycle /\ HandlerMayRun
  /\ c \in Outbound
  /\ nfds <= MaxFds
  /\ Becomes(c, {"idle"}, "over")
  /\ UNCHANGED <<table, cycle, unread, history>>

\* Seeded fault: what was queued stays on the slot.
CloseKeepingQueue(i) ==
  /\ ufd' = [ufd EXCEPT ![i] = Closed]
  /\ closings' = [closings EXCEPT ![cdata[i].owner] = @ + 1]
  /\ kernel' = [c \in Conn |-> IF c = ufd[i] THEN "over" ELSE kernel[c]]
  /\ UNCHANGED cdata

(* close_idx: ev_closed drops the queue and tells the handlers.             *)
CloseIdx(i) ==
  /\ ufd' = [ufd EXCEPT ![i] = Closed]
  /\ closings' = [closings EXCEPT ![cdata[i].owner] = @ + 1]
  /\ kernel' = [c \in Conn |-> IF c = ufd[i] THEN "over" ELSE kernel[c]]
  /\ cdata' = [cdata EXCEPT ![i].xmit = <<>>]

-----------------------------------------------------------------------------
(* Buffers.                                                                 *)

NextBytes(c, n) == [b \in 1 .. n |-> asked[c] + b]

\* Seeded fault: what was written is written again.
RestFromStart(buf, written) == buf

(* A negative count of written bytes starts before the buffer.              *)
Rest(buf, written) ==
  IF written >= 0 THEN SubSeq(buf, written + 1, Len(buf))
  ELSE [b \in 1 .. -written |-> 0] \o buf

(* What write() may return for a socket, given what is still to write.      *)
CanTake(s, w, rest) ==
  /\ s \in Conn
  /\ kernel[s] \in {"up", "fin"}
  /\ w \in 1 .. Len(rest)

Fails(s, w) == w = -1 /\ (s \in Conn => kernel[s] = "reset")

(* SIGPIPE: the error was reported before, or the peer had closed first.    *)
Kills(s) == s \in Conn /\ kernel[s] \in {"reset", "dead"}

Took(s, w, rest) ==
  IF w > 0 THEN [out EXCEPT ![s] = @ \o SubSeq(rest, 1, w)] ELSE out

ErrorReported(s) ==
  [c \in Conn |-> IF c = s /\ kernel[c] = "reset" THEN "dead" ELSE kernel[c]]

\* Seeded fault: nobody asks for POLLOUT.
QueueSilently(i, bufs) ==
  /\ cdata' = [cdata EXCEPT ![i].xmit = @ \o bufs]
  /\ UNCHANGED events

(* dsend, of one buffer after the other.                                    *)
Dsend(i, bufs) ==
  /\ cdata' = [cdata EXCEPT ![i].xmit = @ \o bufs]
  /\ events' = [events EXCEPT ![i] = @ \union {"out"}]

-----------------------------------------------------------------------------
(* The HTTP server's ev_read buffers the data; when it makes a request      *)
(* complete, the answer and the empty buffer are queued.                    *)

ReadRequest(i) ==
  LET c == ufd[i] IN
  /\ c \notin Outbound
  /\ \/ UNCHANGED <<events, cdata, asked, eof>>
     \/ \E n \in 1 .. MaxBytes - asked[c] :
          /\ Dsend(i, <<NextBytes(c, n), <<>>>>)
          /\ asked' = [asked EXCEPT ![c] = @ + n]
          /\ eof' = [eof EXCEPT ![c] = IF @ = 0 THEN asked[c] + n ELSE @]
  /\ UNCHANGED <<ufd, kernel, closings>>

(* The Lua client's ev_read collects the data; a Lua error in the callback  *)
(* counts as a zero return, which closes the socket.                        *)
ReadReply(i) ==
  /\ ufd[i] \in Outbound
  /\ \/ UNCHANGED <<ufd, cdata, kernel, closings>>
     \/ CloseIdx(i)
  /\ UNCHANGED <<events, asked, eof>>

(* sock_connected_pollin.                                                   *)
ConnectedPollin(i) ==
  LET c == ufd[i] IN
  /\ Turn(i, "in")
  /\ cdata[i].connected
  /\ \/ /\ unread[c]
        /\ unread' = [unread EXCEPT ![c] = FALSE]
        /\ ReadRequest(i) \/ ReadReply(i)
     \/ /\ ~unread[c] /\ kernel[c] \in {"fin", "dead"}
        /\ CloseIdx(i)
        /\ UNCHANGED <<events, unread, asked, eof>>
     \/ /\ kernel[c] = "reset"
        /\ kernel' = ErrorReported(c)
        /\ UNCHANGED <<ufd, cdata, events, unread, asked, eof, closings>>
  /\ UNCHANGED <<nfds, out, ready, late>>

(* http_client_callback on CHANNEL_READY: sock_write_data of the request.   *)
(* What a partial write leaves over is copied into a buffer whose dsize     *)
(* stays 0.                                                                 *)
WriteData(i, buf) ==
  LET rest == Rest(buf, cdata[i].written)
      Queued(b) == /\ cdata' = [cdata EXCEPT ![i].connected = TRUE,
                                             ![i].xmit = Append(@, b)]
                   /\ events' = [events EXCEPT ![i] = @ \union {"out"}]
  IN
  \/ /\ CanTake(ufd[i], Len(buf), rest)
     /\ out' = Took(ufd[i], Len(buf), rest)
     /\ cdata' = [cdata EXCEPT ![i].connected = TRUE]
     /\ UNCHANGED <<events, kernel>>
  \/ /\ kernel' = ErrorReported(ufd[i])
     /\ Queued(buf)
     /\ UNCHANGED out
  \/ /\ \E w \in 1 .. Len(buf) - 1 :
          CanTake(ufd[i], w, rest) /\ out' = Took(ufd[i], w, rest)
     /\ Queued(<<>>)
     /\ UNCHANGED kernel

(* ev_newoutconn: the client is told of the channel and writes its request. *)
NewOutConn(i, c) ==
  /\ \E n \in 1 .. MaxBytes :
       /\ WriteData(i, NextBytes(c, n))
       /\ asked' = [asked EXCEPT ![c] = @ + n]
  /\ ready' = ready \union {c}
  /\ UNCHANGED <<ufd, late>>

ConnectFailed(i) ==
  /\ ufd' = [ufd EXCEPT ![i] = Closed]
  /\ kernel' = [c \in Conn |-> IF c = ufd[i] THEN "over" ELSE kernel[c]]
  /\ UNCHANGED <<cdata, events, asked, out, ready, late>>

(* On a slot the POLLIN branch has just closed, getsockopt fails and err is *)
(* read uninitialised: when it is 0 the client is told of a channel that is *)
(* over, and writes its request to no socket.                               *)
NewPhantom(i) ==
  LET c == cdata[i].owner IN
  /\ \E n \in 1 .. MaxBytes :
       /\ WriteData(i, NextBytes(c, n))
       /\ asked' = [asked EXCEPT ![c] = @ + n]
  /\ late' = late \union {c}
  /\ UNCHANGED <<ufd, ready>>

(* sock_unconnected_pollinout: ask the socket for its error.                *)
UnconnectedPollinout(i, e) ==
  /\ Turn(i, e)
  /\ ~cdata[i].listener /\ ~cdata[i].connected
  /\ \/ /\ ufd[i] # Closed /\ kernel[ufd[i]] \in {"up", "fin"}
        /\ NewOutConn(i, ufd[i])
     \/ /\ ufd[i] # Closed /\ kernel[ufd[i]] \notin {"up", "fin"}
        /\ ConnectFailed(i)
     \/ /\ ufd[i] = Closed
        /\ ConnectFailed(i) \/ NewPhantom(i)
  /\ UNCHANGED <<nfds, unread, eof, closings>>

-----------------------------------------------------------------------------
(* sock_connected_pollout: the oldest buffer, or an empty one: close.       *)

SendsData(i) == cdata[i].connected /\ cdata[i].xmit # <<>> /\ Head(cdata[i].xmit) # <<>>

\* Seeded fault: a buffer written in part counts as written.
AdvancePopping(i, w) ==
  cdata' = IF w > 0 THEN [cdata EXCEPT ![i].xmit = Tail(@), ![i].written = 0]
                    ELSE [cdata EXCEPT ![i].written = @ + w]

Advance(i, w) ==
  LET d == Head(cdata[i].xmit) IN
  cdata' = IF w + cdata[i].written = Len(d)
           THEN [cdata EXCEPT ![i].xmit = Tail(@), ![i].written = 0]
           ELSE [cdata EXCEPT ![i].written = @ + w]

SendHead(i) ==
  LET rest == Rest(Head(cdata[i].xmit), cdata[i].written) IN
  /\ \E w \in {-1} \union 1 .. Len(rest) :
       /\ CanTake(ufd[i], w, rest) \/ Fails(ufd[i], w)
       /\ out' = Took(ufd[i], w, rest)
       /\ Advance(i, w)
  /\ kernel' = ErrorReported(ufd[i])
  /\ UNCHANGED <<ufd, closings>>

ConnectedPollout(i) ==
  /\ Turn(i, "out")
  /\ cdata[i].connected
  /\ \/ /\ cdata[i].xmit = <<>>
        /\ UNCHANGED <<ufd, cdata, kernel, out, closings>>
     \/ SendsData(i) /\ SendHead(i)
     \/ /\ cdata[i].xmit # <<>> /\ Head(cdata[i].xmit) = <<>>
        /\ CloseIdx(i)
        /\ UNCHANGED out
  /\ events' = IF cdata'[i].xmit = <<>> THEN [events EXCEPT ![i] = @ \ {"out"}]
                                        ELSE events
  /\ UNCHANGED <<nfds, unread, asked, eof, ready, late>>

SendKilled(i) ==
  /\ NextTurn(i, "out")
  /\ SendsData(i) /\ Kills(ufd[i])
  /\ Dies

-----------------------------------------------------------------------------
External(c) ==
  \/ PeerDials(c)
  \/ Established(c)
  \/ Refused(c)
  \/ PeerSends(c)
  \/ PeerCloses(c)
  \/ PeerResets(c)

Handle(i) ==
  \/ \E c \in Conn, j \in Slot : Accept(i, c, j)
  \/ \E j \in Slot : AcceptNothing(i, j)
  \/ ConnectedPollin(i)
  \/ \E e \in Event : UnconnectedPollinout(i, e)
  \/ ConnectedPollout(i)
  \/ SendKilled(i)

Next ==
  \/ \E c \in Conn : External(c)
  \/ Poll
  \/ \E i \in Slot : Handle(i)
  \/ \E c \in Conn, j \in Slot : Connect(c, j)
  \/ \E c \in Conn : ConnectGivesUp(c)
  \/ ConnectAborts
  \/ EndCycle

Spec == Init /\ [][Next]_vars
-----------------------------------------------------------------------------
(* Properties.                                                              *)

(* Every variable ranges over what lib_sock.c stores in it, and the table   *)
(* beyond nfds is as the program started with it.                           *)
TypeOK ==
  /\ ufd \in [Slot -> Conn \union {Listener, Closed, Unset}]
  /\ events \in [Slot -> SUBSET Event]
  /\ revents \in [Slot -> SUBSET Event]
  /\ cdata \in [Slot -> SlotData]
  /\ nfds \in 1 .. MaxSlots
  /\ \A i \in nfds .. MaxSlots - 1 : ufd[i] = Unset /\ events[i] = {}
  /\ inCycle \in BOOLEAN /\ died \in BOOLEAN
  /\ polled \in [Slot -> Conn \union {Listener, Closed, Unset}]
  /\ kernel \in [Conn -> KernelState]
  /\ unread \in [Conn -> BOOLEAN]
  /\ asked \in [Conn -> Nat]
  /\ eof \in [Conn -> Nat]
  /\ out \in [Conn -> Buffer]
  /\ ready \subseteq Conn /\ late \subseteq Conn
  /\ closings \in [Conn -> Nat]

(* A connection the kernel holds open for the server is in exactly one slot *)
(* that poll looks at, with its own cdata: a slot is never given away while *)
(* its socket is open, and a closed one leaves nothing behind.              *)
Held == {"connecting", "refused", "up", "fin", "reset", "dead"}

OpenConnectionsHaveASlot ==
  /\ TypeOK
  /\ \A c \in Conn : kernel[c] \in Held =>
       \E i \in 0 .. nfds - 1 : ufd[i] = c /\ cdata[i].owner = c
  /\ \A i, j \in Slot : ufd[i] \in Conn /\ ufd[i] = ufd[j] => i = j
  /\ \A i \in Slot : ufd[i] \in Conn => kernel[ufd[i]] \in Held

(* An event poll reported for one socket is never handled for another that  *)
(* took the slot in the same cycle.                                         *)
EventsBelongToTheirSocket ==
  \A i \in Slot : revents[i] # {} => ufd[i] \in {polled[i], Closed}

(* A connected slot with something queued asks for POLLOUT: no answer is    *)
(* forgotten because sock_connected_pollout lost interest.                  *)
QueuedMeansInterested ==
  \A i \in Slot : ufd[i] \in Conn /\ cdata[i].xmit # <<>> => "out" \in events[i]

(* ev_closed runs once for every connection whose channel its handlers were *)
(* told of while it was there, when it is over: also when both branches of  *)
(* a slot would close.  Those told of a channel that is over already are    *)
(* told of a connection that failed, and hear nothing of its end.           *)
ClosedOnce ==
  /\ \A c \in ready \ late : closings[c] = IF kernel[c] = "over" THEN 1 ELSE 0
  /\ \A c \in late :
       c \in Outbound \ ready /\ kernel[c] = "over" /\ closings[c] = 0
=============================================================================
