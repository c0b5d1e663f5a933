----------------------------- MODULE SockStream -----------------------------
(***************************************************************************)
(* What the peers of SockLoop see: each connection's bytes, in order and    *)
(* whole, until the server hangs up.                                        *)
(***************************************************************************)
EXTENDS SockLoop, SequencesExt

Listening(s) == s \in Conn /\ kernel[s] \in {"up", "fin"}

(* The bytes after from, up to to.                                          *)
Piece(from, to) == [b \in 1 .. to - from |-> from + b]

(* Buffers that go on from one another, each ending where ends says.        *)
InOrder(bufs, ends) ==
  \A k \in 1 .. Len(bufs) :
    ends[k - 1] <= ends[k] /\ bufs[k] = Piece(ends[k - 1], ends[k])

(* What the kernel took of a connection, and what still waits in its slot,  *)
(* is exactly what the handlers handed over, in order: nothing is lost,     *)
(* repeated or overtaken by partial writes, queueing and slot reuse         *)
(* (lib_sock.h:87, "immediate send, if can not send then enqueues").  But   *)
(* what a partly taken first write of the client leaves over is queued as   *)
(* an empty buffer, which ends the connection (lib_sock.c:973): then only   *)
(* the order holds.                                                         *)
StreamIntact ==
  \A i \in Slot : Listening(ufd[i]) /\ cdata[i].connected =>
    LET c == ufd[i]
        queue == cdata[i].xmit
        written == cdata[i].written
    IN  /\ out[c] = Piece(0, Len(out[c]))
        /\ 0 <= written /\ (written # 0 => queue # <<>> /\ written < Len(Head(queue)))
        /\ \E ends \in [0 .. Len(queue) -> 0 .. asked[c]] :
             /\ ends[0] = Len(out[c]) - written
             /\ InOrder(queue, ends)
             /\ \/ ends[Len(queue)] = asked[c]
                \/ c \in Outbound /\ Contains(queue, <<>>)

(* The loop keeps a Conduit's promise for every connection at once.         *)
State(c) ==
  IF kernel[c] = "over" THEN "closed" ELSE IF c \in ready THEN "open" ELSE "none"

Promise == INSTANCE Conduit WITH
  MayAbort <- Outbound,
  state <- [c \in Conn |-> State(c)],
  gone <- {c \in Conn : kernel[c] \in {"fin", "reset", "dead"}},
  sent <- [c \in Conn |-> Len(out[c])]

(* The server hangs up on a peer that still listens only when everything    *)
(* queued before the empty buffer was sent, and never sends what was not    *)
(* handed over: every step of the loop is a step of a Conduit, or none.     *)
KeepsPromise == Promise!Spec

(* The loop goes on, and the peer of a slot reads what it is sent, so that  *)
(* room comes back again and again.                                         *)
Fairness ==
  /\ WF_vars(EndCycle)
  /\ WF_vars(Poll)
  /\ \A i \in Slot :
       /\ WF_vars(Handle(i))
       /\ SF_vars(Poll /\ "out" \in revents'[i])

FairSpec == Spec /\ Fairness

(* Every answer the HTTP server queues gets its connection closed in the    *)
(* end, one way or another, unless the process is killed; none waits for    *)
(* ever.                                                                    *)
AnswersEnd ==
  \A c \in Conn : eof[c] # 0 ~> (kernel[c] = "over" \/ died)
=============================================================================
