--------------------------- MODULE SockLoopProofs ---------------------------
(***************************************************************************)
(* What the table of SockLoop keeps for every number of connections and     *)
(* slots: slots, sockets and events belong together, and nothing is queued, *)
(* closed or reported twice or forgotten.                                   *)
(***************************************************************************)
EXTENDS SockStream, SequenceTheorems, TLAPS

(* What a slot holds, by its descriptor.  Only slot 0 listens, and nothing  *)
(* is queued before the slot is connected.                                  *)
SlotsInv ==
  /\ ufd[0] = Listener
  /\ ~cdata[0].connected
  /\ \A i \in Slot :
       /\ cdata[i].listener <=> i = 0
       /\ i # 0 => ufd[i] # Listener
       /\ ufd[i] \in Conn => cdata[i].owner = ufd[i]
       /\ ufd[i] \in Conn /\ ~cdata[i].connected => cdata[i].xmit = <<>>

(* Events wait only for sockets that poll() saw, or for a slot whose POLLIN *)
(* branch has just closed it: all slots before that one are done.           *)
PendingInv ==
  \A i \in Slot :
    /\ "in" \in revents[i] => ufd[i] \in Conn \union {Listener}
    /\ "out" \in revents[i] => ufd[i] \in Conn \union {Closed}
    /\ revents[i] # {} /\ ufd[i] = Closed =>
         /\ cdata[i].owner \in Conn /\ cdata[i].xmit = <<>>
         /\ \A j \in Slot : j < i => revents[j] = {}

(* The kernel's open connections are those the slots hold, each in one.     *)
SocketsInv ==
  /\ \A c \in Conn : kernel[c] \in Held => \E i \in Slot : ufd[i] = c
  /\ \A i, j \in Slot : ufd[i] \in Conn /\ ufd[i] = ufd[j] => i = j
  /\ \A i \in Slot : ufd[i] \in Conn => kernel[ufd[i]] \in Held

(* A connection's slot is connected once its handlers were told, and        *)
(* ev_closed was called for those told that are over, and for no other.     *)
ClosingInv ==
  /\ \A i \in Slot : ufd[i] \in Conn => (cdata[i].connected <=> ufd[i] \in ready)
  /\ \A c \in ready : kernel[c] \in {"up", "fin", "reset", "dead", "over"}
  /\ \A c \in Conn :
       closings[c] = IF c \in ready /\ kernel[c] = "over" THEN 1 ELSE 0

(* Only initiate_connect makes a slot that is not connected, and whoever is *)
(* told of the channel of one that is closed is told too late.              *)
LateInv ==
  /\ \A i \in Slot : ufd[i] \in Conn /\ ~cdata[i].connected => ufd[i] \in Outbound
  /\ \A i \in Slot : revents[i] # {} /\ ufd[i] = Closed /\ ~cdata[i].connected =>
       cdata[i].owner \in Outbound \ ready /\ kernel[cdata[i].owner] = "over"
  /\ \A c \in late : c \in Outbound \ ready /\ kernel[c] = "over"

Table == TypeOK /\ SlotsInv /\ PendingInv

IInv ==
  /\ Table
  /\ EventsBelongToTheirSocket
  /\ QueuedMeansInterested
  /\ SocketsInv
  /\ ClosingInv
  /\ LateInv

-----------------------------------------------------------------------------
(* Buffers and slots keep their types.                                      *)

LEMMA SlotZero == 0 \in Slot
BY BoundsAssumption DEF Slot

LEMMA NextBytesType ==
  ASSUME TypeOK, NEW c \in Conn, NEW n \in Nat
  PROVE  NextBytes(c, n) \in Buffer /\ Len(NextBytes(c, n)) = n
<1>1. asked[c] \in Nat
  BY DEF TypeOK
<1>2. QED
  BY <1>1 DEF NextBytes, Buffer

LEMMA RestType ==
  ASSUME NEW buf \in Buffer, NEW written \in Int
  PROVE  Rest(buf, written) \in Buffer
<1>1. CASE written >= 0
  <2>1. \A i \in written + 1 .. Len(buf) : buf[i] \in Nat
    BY <1>1, ElementOfSeq DEF Buffer
  <2>2. Len(buf) \in Int
    BY LenProperties DEF Buffer
  <2>3. SubSeq(buf, written + 1, Len(buf)) \in Seq(Nat)
    BY <2>1, <2>2, SubSeqProperties
  <2>4. QED
    BY <1>1, <2>3 DEF Rest, Buffer
<1>2. CASE ~(written >= 0)
  <2>1. [b \in 1 .. -written |-> 0] \in Seq(Nat)
    BY <1>2
  <2>2. QED
    BY <1>2, <2>1, ConcatProperties DEF Rest, Buffer
<1>3. QED
  BY <1>1, <1>2

LEMMA TookType ==
  ASSUME TypeOK, NEW s, NEW rest \in Buffer, NEW w \in Int, w <= Len(rest)
  PROVE  Took(s, w, rest) \in [Conn -> Buffer]
<1>1. CASE w > 0
  <2>1. \A i \in 1 .. w : rest[i] \in Nat
    BY <1>1, ElementOfSeq, LenProperties DEF Buffer
  <2>2. SubSeq(rest, 1, w) \in Seq(Nat)
    BY <2>1, SubSeqProperties
  <2>3. \A c \in Conn : out[c] \o SubSeq(rest, 1, w) \in Seq(Nat)
    BY <2>2, ConcatProperties DEF TypeOK, Buffer
  <2>4. QED
    BY <1>1, <2>3 DEF Took, TypeOK, Buffer
<1>2. CASE ~(w > 0)
  BY <1>2 DEF Took, TypeOK
<1>3. QED
  BY <1>1, <1>2

LEMMA ErrorReportedType ==
  ASSUME TypeOK, NEW s
  PROVE  ErrorReported(s) \in [Conn -> KernelState]
BY DEF TypeOK, ErrorReported, KernelState

LEMMA SlotDataType ==
  ASSUME NEW c \in Conn \union {None}, NEW connected \in BOOLEAN
  PROVE  NewSlotData(c, connected) \in SlotData
BY EmptySeq DEF NewSlotData, SlotData

(* Every way cdata[i] changes: a field at a time.                           *)
LEMMA XmitType ==
  ASSUME TypeOK, NEW i \in Slot, NEW q \in Seq(Buffer)
  PROVE  [cdata EXCEPT ![i].xmit = q] \in [Slot -> SlotData]
BY DEF TypeOK, SlotData

LEMMA ConnectedXmitType ==
  ASSUME TypeOK, NEW i \in Slot, NEW q \in Seq(Buffer)
  PROVE  [cdata EXCEPT ![i].connected = TRUE, ![i].xmit = q] \in [Slot -> SlotData]
BY DEF TypeOK, SlotData

LEMMA XmitWrittenType ==
  ASSUME TypeOK, NEW i \in Slot, NEW q \in Seq(Buffer), NEW n \in Int
  PROVE  [cdata EXCEPT ![i].xmit = q, ![i].written = n] \in [Slot -> SlotData]
BY DEF TypeOK, SlotData

LEMMA OccupyType ==
  ASSUME TypeOK, NEW j \in Slot, NEW c \in Conn, NEW connected \in BOOLEAN,
         NEW interest \in SUBSET Event, Occupy(j, c, connected, interest)
  PROVE  /\ ufd' \in [Slot -> Conn \union {Listener, Closed, Unset}]
         /\ events' \in [Slot -> SUBSET Event]
         /\ cdata' \in [Slot -> SlotData]
BY SlotDataType DEF TypeOK, Occupy

LEMMA FreeIndexType ==
  ASSUME TypeOK, NEW j \in Slot, TakeFreeIndex(j)
  PROVE  nfds' \in 1 .. MaxSlots /\ j < nfds' /\ nfds <= nfds' /\ nfds' <= nfds + 1
BY BoundsAssumption DEF TypeOK, TakeFreeIndex, Slot

LEMMA CloseIdxType ==
  ASSUME TypeOK, NEW i \in Slot, CloseIdx(i)
  PROVE  /\ ufd' \in [Slot -> Conn \union {Listener, Closed, Unset}]
         /\ cdata' \in [Slot -> SlotData]
         /\ kernel' \in [Conn -> KernelState]
         /\ closings' \in [Conn -> Nat]
<1>1. cdata' \in [Slot -> SlotData]
  BY EmptySeq, XmitType DEF CloseIdx
<1>2. ufd' \in [Slot -> Conn \union {Listener, Closed, Unset}]
  BY DEF TypeOK, CloseIdx
<1>3. kernel' \in [Conn -> KernelState]
  BY DEF TypeOK, CloseIdx, KernelState
<1>4. closings' \in [Conn -> Nat]
  <2>1. closings \in [Conn -> Nat]
    BY DEF TypeOK
  <2>2. closings' = [closings EXCEPT ![cdata[i].owner] = @ + 1]
    BY DEF CloseIdx
  <2>3. \A c \in Conn : closings[c] \in Nat /\ closings[c] + 1 \in Nat
    BY <2>1
  <2> DEFINE o == cdata[i].owner
  <2>4. closings' = [c \in Conn |-> IF c = o THEN closings[o] + 1 ELSE closings[c]]
    BY <2>1, <2>2, Zenon
  <2>5. QED
    BY <2>3, <2>4
<1>5. QED
  BY <1>1, <1>2, <1>3, <1>4

LEMMA DsendType ==
  ASSUME TypeOK, NEW i \in Slot, NEW bufs \in Seq(Buffer), Dsend(i, bufs)
  PROVE  events' \in [Slot -> SUBSET Event] /\ cdata' \in [Slot -> SlotData]
<1>1. cdata[i].xmit \o bufs \in Seq(Buffer)
  BY ConcatProperties DEF TypeOK, SlotData
<1>2. QED
  BY <1>1, XmitType DEF TypeOK, Dsend, Event

LEMMA ReadRequestType ==
  ASSUME TypeOK, NEW i \in Slot, ufd[i] \in Conn, ReadRequest(i)
  PROVE  /\ events' \in [Slot -> SUBSET Event]
         /\ cdata' \in [Slot -> SlotData]
         /\ asked' \in [Conn -> Nat]
         /\ eof' \in [Conn -> Nat]
<1> DEFINE c == ufd[i]
<1>1. CASE UNCHANGED <<events, cdata, asked, eof>>
  BY <1>1 DEF TypeOK
<1>2. CASE ~UNCHANGED <<events, cdata, asked, eof>>
  <2>1. PICK n \in 1 .. MaxBytes - asked[c] :
          /\ Dsend(i, <<NextBytes(c, n), <<>>>>)
          /\ asked' = [asked EXCEPT ![c] = @ + n]
          /\ eof' = [eof EXCEPT ![c] = IF @ = 0 THEN asked[c] + n ELSE @]
    BY <1>2, Zenon DEF ReadRequest
  <2>2. asked[c] \in Nat /\ n \in Nat
    BY BoundsAssumption DEF TypeOK
  <2>3. <<NextBytes(c, n), <<>>>> \in Seq(Buffer)
    BY <2>2, NextBytesType, EmptySeq DEF Buffer
  <2>4. asked' \in [Conn -> Nat]
    BY <2>1, <2>2 DEF TypeOK
  <2>5. eof' \in [Conn -> Nat]
    BY <2>1, <2>2 DEF TypeOK
  <2>6. QED
    BY <2>1, <2>3, <2>4, <2>5, DsendType
<1>3. QED
  BY <1>1, <1>2

LEMMA WriteDataType ==
  ASSUME TypeOK, NEW i \in Slot, NEW buf \in Buffer, WriteData(i, buf)
  PROVE  /\ events' \in [Slot -> SUBSET Event]
         /\ cdata' \in [Slot -> SlotData]
         /\ kernel' \in [Conn -> KernelState]
         /\ out' \in [Conn -> Buffer]
<1> DEFINE rest == Rest(buf, cdata[i].written)
<1>1. /\ cdata[i].written \in Int /\ cdata[i].xmit \in Seq(Buffer)
      /\ rest \in Buffer /\ Len(rest) \in Nat /\ Len(buf) \in Nat
  BY RestType, LenProperties DEF TypeOK, SlotData, Buffer
<1>2. \A b \in Buffer : Append(cdata[i].xmit, b) \in Seq(Buffer)
  BY <1>1
<1>3. <<>> \in Buffer
  BY EmptySeq DEF Buffer
<1>4. CASE /\ CanTake(ufd[i], Len(buf), rest)
           /\ out' = Took(ufd[i], Len(buf), rest)
           /\ cdata' = [cdata EXCEPT ![i].connected = TRUE]
           /\ UNCHANGED <<events, kernel>>
  <2>1. Len(buf) <= Len(rest)
    BY <1>1, <1>4 DEF CanTake
  <2>2. cdata' \in [Slot -> SlotData]
    BY <1>4 DEF TypeOK, SlotData
  <2>3. Len(buf) \in Int
    BY <1>1
  <2>4. Took(ufd[i], Len(buf), rest) \in [Conn -> Buffer]
    BY <1>1, <2>1, <2>3, TookType, Zenon
  <2>5. out' \in [Conn -> Buffer]
    BY <1>4, <2>4
  <2>6. QED
    BY <1>4, <2>2, <2>5 DEF TypeOK
<1>5. CASE /\ kernel' = ErrorReported(ufd[i])
           /\ cdata' = [cdata EXCEPT ![i].connected = TRUE, ![i].xmit = Append(@, buf)]
           /\ events' = [events EXCEPT ![i] = @ \union {"out"}]
           /\ UNCHANGED out
  BY <1>2, <1>5, ErrorReportedType, ConnectedXmitType DEF TypeOK, Event
<1>6. ASSUME NEW w \in 1 .. Len(buf) - 1,
             CanTake(ufd[i], w, rest), out' = Took(ufd[i], w, rest),
             cdata' = [cdata EXCEPT ![i].connected = TRUE, ![i].xmit = Append(@, <<>>)],
             events' = [events EXCEPT ![i] = @ \union {"out"}],
             UNCHANGED kernel
      PROVE  /\ events' \in [Slot -> SUBSET Event]
             /\ cdata' \in [Slot -> SlotData]
             /\ kernel' \in [Conn -> KernelState]
             /\ out' \in [Conn -> Buffer]
  <2>1. w \in Int /\ w <= Len(rest)
    BY <1>1, <1>6 DEF CanTake
  <2>2. out' \in [Conn -> Buffer]
    BY <1>1, <1>6, <2>1, TookType
  <2>3. cdata' \in [Slot -> SlotData]
    BY <1>2, <1>3, <1>6, ConnectedXmitType
  <2>4. QED
    BY <1>6, <2>2, <2>3 DEF TypeOK, Event
<1>7. QED
  BY <1>4, <1>5, <1>6, Zenon DEF WriteData

-----------------------------------------------------------------------------
(* Whose turn it is.                                                        *)

LEMMA TurnHasSocket ==
  ASSUME Table, NEW i \in Slot, NEW e \in Event, Turn(i, e)
  PROVE  /\ i < nfds
         /\ ufd[i] \in Conn \union {Listener, Closed}
         /\ e = "in" => ufd[i] # Closed
         /\ ~cdata[i].listener => ufd[i] \in Conn \union {Closed}
         /\ cdata[i].connected => ufd[i] \in Conn \union {Closed}
         /\ ufd[i] = Closed => cdata[i].owner \in Conn
<1>1. /\ ufd[i] \in Conn \union {Listener, Closed} /\ (e = "in" => ufd[i] # Closed)
      /\ ufd[i] = Closed => cdata[i].owner \in Conn
  BY ConnAssumption DEF Table, PendingInv, Turn, NextTurn, Event, Closed
<1>2. ufd[i] # Unset
  BY <1>1, ConnAssumption DEF Closed, Unset
<1>3. i < nfds
  BY <1>2, BoundsAssumption DEF Table, TypeOK, Slot
<1>4. ~cdata[i].listener \/ cdata[i].connected => ufd[i] # Listener
  BY DEF Table, SlotsInv
<1>5. QED
  BY <1>1, <1>3, <1>4 DEF Table, SlotsInv

LEMMA TurnType ==
  ASSUME TypeOK, NEW i \in Slot, NEW e \in Event, Turn(i, e)
  PROVE  /\ revents' \in [Slot -> SUBSET Event]
         /\ UNCHANGED <<inCycle, died, polled>>
BY DEF TypeOK, Turn

(* The slots from nfds on stay as the program started with them.            *)
LEMMA TopUntouched ==
  ASSUME TypeOK, NEW x \in Slot, x < nfds', nfds <= nfds', nfds' \in Nat,
         \A i \in Slot \ {x} : ufd'[i] = ufd[i] /\ events'[i] = events[i]
  PROVE  \A i \in nfds' .. MaxSlots - 1 : ufd'[i] = Unset /\ events'[i] = {}
<1> SUFFICES ASSUME NEW i \in nfds' .. MaxSlots - 1
             PROVE  ufd'[i] = Unset /\ events'[i] = {}
  OBVIOUS
<1>1. nfds \in Nat /\ MaxSlots \in Nat
  BY BoundsAssumption DEF TypeOK
<1>2. i \in nfds .. MaxSlots - 1 /\ i \in Slot /\ i # x
  BY <1>1 DEF Slot
<1>3. QED
  BY <1>2 DEF TypeOK

LEMMA CompactKeeps == ASSUME TypeOK, Compact PROVE nfds' = nfds
BY DEF TypeOK, Compact, Closed

-----------------------------------------------------------------------------
(* Type correctness, one action at a time.                                  *)

LEMMA ExternalType ==
  ASSUME TypeOK, NEW c \in Conn, External(c)
  PROVE  TypeOK'
<1>1. kernel' \in [Conn -> KernelState] /\ unread' \in [Conn -> BOOLEAN]
  BY DEF External, PeerDials, Established, Refused, PeerSends, PeerCloses,
         PeerResets, Becomes, KernelState, TypeOK
<1>2. UNCHANGED <<table, cycle, history>>
  BY DEF External, PeerDials, Established, Refused, PeerSends, PeerCloses, PeerResets
<1>3. QED
  BY <1>1, <1>2 DEF TypeOK, table, cycle, history

LEMMA PollType == ASSUME TypeOK, Poll PROVE TypeOK'
<1>1. revents' \in [Slot -> SUBSET Event]
  BY DEF Poll
<1>2. QED
  BY <1>1 DEF TypeOK, Poll, table, world, history

LEMMA EndCycleType == ASSUME TypeOK, EndCycle PROVE TypeOK'
<1>1. nfds' = nfds
  BY CompactKeeps DEF EndCycle
<1>2. /\ events' \in [Slot -> SUBSET Event]
      /\ \A i \in Slot : events[i] = {} => events'[i] = {}
  BY DEF TypeOK, EndCycle
<1>3. \A i \in nfds' .. MaxSlots - 1 : ufd'[i] = Unset /\ events'[i] = {}
  BY <1>1, <1>2, BoundsAssumption DEF TypeOK, EndCycle, Slot
<1>4. polled' \in [Slot -> Conn \union {Listener, Closed, Unset}]
  BY DEF EndCycle
<1>5. QED
  BY <1>1, <1>2, <1>3, <1>4 DEF TypeOK, EndCycle, world, history

LEMMA AcceptType ==
  ASSUME Table, NEW i \in Slot, NEW c \in Conn, NEW j \in Slot, Accept(i, c, j)
  PROVE  TypeOK'
<1> TypeOK
  BY DEF Table
<1>1. revents' \in [Slot -> SUBSET Event] /\ UNCHANGED <<inCycle, died, polled>>
  BY TurnType DEF Accept, Event
<1>2. nfds' \in 1 .. MaxSlots /\ j < nfds' /\ nfds <= nfds'
  BY FreeIndexType DEF Accept
<1>3. kernel' \in [Conn -> KernelState] /\ ready' \subseteq Conn
  BY DEF Accept, Becomes, TypeOK, KernelState
<1>4. /\ ufd' \in [Slot -> Conn \union {Listener, Closed, Unset}]
      /\ events' \in [Slot -> SUBSET Event]
      /\ cdata' \in [Slot -> SlotData]
  <2>1. CASE Occupy(j, c, TRUE, {"in"})
    BY <2>1, OccupyType DEF Event
  <2>2. CASE UNCHANGED <<ufd, events, cdata>>
    BY <2>2 DEF TypeOK
  <2>3. QED
    BY <2>1, <2>2 DEF Accept
<1>5. \A k \in Slot \ {j} : ufd'[k] = ufd[k] /\ events'[k] = events[k]
  BY DEF Accept, Occupy, TypeOK
<1>6. \A k \in nfds' .. MaxSlots - 1 : ufd'[k] = Unset /\ events'[k] = {}
  BY <1>2, <1>5, TopUntouched
<1>7. QED
  BY <1>1, <1>2, <1>3, <1>4, <1>6 DEF TypeOK, Accept

(* A free index is a slot that is closed or was never used.                 *)
LEMMA FreeSlot ==
  ASSUME Table, NEW j \in Slot, TakeFreeIndex(j)
  PROVE  j # 0 /\ ufd[j] \in {Closed, Unset}
<1>1. ufd[j] \in {Closed, Unset}
  <2>1. CASE j < nfds
    BY <2>1, BoundsAssumption DEF TakeFreeIndex, Table, TypeOK, Slot
  <2>2. CASE j = nfds
    <3>1. j \in nfds .. MaxSlots - 1
      BY <2>2, BoundsAssumption DEF Slot, Table, TypeOK
    <3>2. QED
      BY <3>1 DEF Table, TypeOK
  <2>3. QED
    BY <2>1, <2>2 DEF TakeFreeIndex
<1>2. QED
  BY <1>1, ConnAssumption DEF Table, SlotsInv

(* An accept() that fails leaves a closed slot that has no event waiting,   *)
(* or takes none.                                                           *)
LEMMA NothingStep ==
  ASSUME Table, NEW i \in Slot, NEW j \in Slot, AcceptNothing(i, j)
  PROVE  /\ j # 0 /\ revents[j] = {}
         /\ ufd'[j] \in {Closed, Unset} /\ ~cdata'[j].listener
         /\ \A k \in Slot \ {j} :
              ufd'[k] = ufd[k] /\ cdata'[k] = cdata[k] /\ events'[k] = events[k]
         /\ \A k \in Slot : revents'[k] \subseteq revents[k]
         /\ UNCHANGED polled
<1>1. j # 0 /\ ufd[j] \in {Closed, Unset}
  BY FreeSlot DEF AcceptNothing
<1>2. i = 0 /\ "in" \in revents[0]
  BY DEF AcceptNothing, Turn, NextTurn, Table, SlotsInv
<1>3. revents[j] = {}
  <2>1. CASE ufd[j] = Closed
    <3>1. 0 < j
      BY <1>1, BoundsAssumption DEF Slot
    <3>2. QED
      BY <1>2, <2>1, <3>1, SlotZero DEF Table, PendingInv
  <2>2. CASE ufd[j] = Unset
    <3>1. Unset \notin Conn /\ Unset # Listener /\ Unset # Closed
      BY ConnAssumption DEF Unset, Closed
    <3>2. revents[j] \subseteq {"in", "out"}
      BY DEF Table, TypeOK, Event
    <3>3. QED
      BY <2>2, <3>1, <3>2 DEF Table, PendingInv
  <2>3. QED
    BY <1>1, <2>1, <2>2
<1>4. UNCHANGED polled /\ \A k \in Slot : revents'[k] \subseteq revents[k]
  BY DEF AcceptNothing, Turn, Table, TypeOK
<1>5. CASE /\ ufd' = [ufd EXCEPT ![j] = Closed]
           /\ events' = [events EXCEPT ![j] = {"in"}]
           /\ cdata' = [cdata EXCEPT ![j] = NewSlotData(None, TRUE)]
  <2>1. cdata'[j] = NewSlotData(None, TRUE)
    BY <1>5 DEF Table, TypeOK
  <2>2. ~cdata'[j].listener
    BY <2>1 DEF NewSlotData
  <2>3. QED
    BY <1>1, <1>3, <1>4, <1>5, <2>2 DEF Table, TypeOK
<1>6. CASE UNCHANGED <<ufd, events, cdata>>
  <2>1. ~cdata[j].listener
    BY <1>1 DEF Table, SlotsInv
  <2>2. QED
    BY <1>1, <1>3, <1>4, <1>6, <2>1
<1>7. QED
  BY <1>5, <1>6 DEF AcceptNothing

LEMMA AcceptNothingType ==
  ASSUME Table, NEW i \in Slot, NEW j \in Slot, AcceptNothing(i, j)
  PROVE  TypeOK'
<1> TypeOK
  BY DEF Table
<1>1. revents' \in [Slot -> SUBSET Event] /\ UNCHANGED <<inCycle, died, polled>>
  BY TurnType DEF AcceptNothing, Event
<1>2. nfds' \in 1 .. MaxSlots /\ j < nfds' /\ nfds <= nfds'
  BY FreeIndexType DEF AcceptNothing
<1>3. /\ ufd' \in [Slot -> Conn \union {Listener, Closed, Unset}]
      /\ events' \in [Slot -> SUBSET Event]
      /\ cdata' \in [Slot -> SlotData]
  <2>1. NewSlotData(None, TRUE) \in SlotData
    BY SlotDataType
  <2>2. QED
    BY <2>1 DEF AcceptNothing, TypeOK, Event
<1>4. \A k \in nfds' .. MaxSlots - 1 : ufd'[k] = Unset /\ events'[k] = {}
  BY <1>2, NothingStep, TopUntouched
<1>5. QED
  BY <1>1, <1>2, <1>3, <1>4 DEF TypeOK, AcceptNothing, world, history

LEMMA ConnectType ==
  ASSUME TypeOK, NEW c \in Conn, NEW j \in Slot, Connect(c, j)
  PROVE  TypeOK'
<1>1. nfds' \in 1 .. MaxSlots /\ j < nfds' /\ nfds <= nfds'
  BY FreeIndexType DEF Connect
<1>2. /\ ufd' \in [Slot -> Conn \union {Listener, Closed, Unset}]
      /\ events' \in [Slot -> SUBSET Event]
      /\ cdata' \in [Slot -> SlotData]
  BY OccupyType DEF Connect, Event
<1>3. \A k \in Slot \ {j} : ufd'[k] = ufd[k] /\ events'[k] = events[k]
  BY DEF Connect, Occupy, TypeOK
<1>4. \A k \in nfds' .. MaxSlots - 1 : ufd'[k] = Unset /\ events'[k] = {}
  BY <1>1, <1>3, TopUntouched
<1>5. kernel' \in [Conn -> KernelState]
  BY DEF Connect, Becomes, TypeOK, KernelState
<1>6. QED
  BY <1>1, <1>2, <1>4, <1>5 DEF TypeOK, Connect, cycle, history

LEMMA ConnectGivesUpType ==
  ASSUME TypeOK, NEW c \in Conn, ConnectGivesUp(c)
  PROVE  TypeOK'
<1>1. kernel' \in [Conn -> KernelState]
  BY DEF ConnectGivesUp, Becomes, TypeOK, KernelState
<1>2. QED
  BY <1>1 DEF TypeOK, ConnectGivesUp, table, cycle, history

LEMMA ConnectedPollinType ==
  ASSUME Table, NEW i \in Slot, ConnectedPollin(i)
  PROVE  TypeOK'
<1> DEFINE c == ufd[i]
<1> TypeOK
  BY DEF Table
<1>1. Turn(i, "in") /\ "in" \in Event
  BY DEF ConnectedPollin, Event
<1>2. i < nfds /\ c \in Conn
  BY <1>1, TurnHasSocket DEF ConnectedPollin
<1>3. revents' \in [Slot -> SUBSET Event] /\ UNCHANGED <<inCycle, died, polled>>
  BY <1>1, TurnType
<1>4. /\ ufd' \in [Slot -> Conn \union {Listener, Closed, Unset}]
      /\ events' \in [Slot -> SUBSET Event]
      /\ cdata' \in [Slot -> SlotData]
      /\ kernel' \in [Conn -> KernelState]
      /\ unread' \in [Conn -> BOOLEAN]
      /\ asked' \in [Conn -> Nat]
      /\ eof' \in [Conn -> Nat]
      /\ closings' \in [Conn -> Nat]
      /\ \A k \in Slot \ {i} : ufd'[k] = ufd[k] /\ events'[k] = events[k]
  <2>1. CASE unread' = [unread EXCEPT ![c] = FALSE] /\ ReadRequest(i)
    <3>1. UNCHANGED <<ufd, kernel, closings>>
      BY <2>1 DEF ReadRequest
    <3>2. \A k \in Slot \ {i} : events'[k] = events[k]
      BY <2>1 DEF ReadRequest, Dsend, TypeOK
    <3>3. QED
      BY <1>2, <2>1, <3>1, <3>2, ReadRequestType DEF TypeOK
  <2>2. CASE unread' = [unread EXCEPT ![c] = FALSE] /\ ReadReply(i)
    <3>1. CASE UNCHANGED <<ufd, cdata, kernel, closings>>
      BY <2>2, <3>1 DEF TypeOK, ReadReply
    <3>2. CASE CloseIdx(i)
      <4>1. \A k \in Slot \ {i} : ufd'[k] = ufd[k]
        BY <3>2 DEF CloseIdx, TypeOK
      <4>2. QED
        BY <2>2, <3>2, <4>1, CloseIdxType DEF TypeOK, ReadReply
    <3>3. QED
      BY <2>2, <3>1, <3>2 DEF ReadReply
  <2>3. CASE CloseIdx(i) /\ UNCHANGED <<events, unread, asked, eof>>
    <3>1. \A k \in Slot \ {i} : ufd'[k] = ufd[k]
      BY <2>3 DEF CloseIdx, TypeOK
    <3>2. QED
      BY <2>3, <3>1, CloseIdxType DEF TypeOK
  <2>4. CASE /\ kernel' = ErrorReported(c)
             /\ UNCHANGED <<ufd, cdata, events, unread, asked, eof, closings>>
    BY <2>4, ErrorReportedType DEF TypeOK
  <2>5. QED
    BY <2>1, <2>2, <2>3, <2>4 DEF ConnectedPollin
<1>5. \A k \in nfds' .. MaxSlots - 1 : ufd'[k] = Unset /\ events'[k] = {}
  <2>1. nfds' = nfds /\ nfds \in Nat
    BY DEF ConnectedPollin, TypeOK
  <2>2. QED
    BY <1>2, <1>4, <2>1, TopUntouched
<1>6. /\ nfds' \in 1 .. MaxSlots /\ out' \in [Conn -> Buffer]
      /\ ready' \subseteq Conn /\ late' \subseteq Conn
  BY DEF ConnectedPollin, TypeOK
<1>7. QED
  BY <1>3, <1>4, <1>5, <1>6 DEF TypeOK

LEMMA UnconnectedPollinoutType ==
  ASSUME Table, NEW i \in Slot, NEW e \in Event, UnconnectedPollinout(i, e)
  PROVE  TypeOK'
<1> TypeOK
  BY DEF Table
<1>1. Turn(i, e)
  BY DEF UnconnectedPollinout
<1>2. /\ i < nfds /\ ufd[i] \in Conn \union {Closed}
      /\ ufd[i] = Closed => cdata[i].owner \in Conn
  BY <1>1, TurnHasSocket DEF UnconnectedPollinout
<1>3. revents' \in [Slot -> SUBSET Event] /\ UNCHANGED <<inCycle, died, polled>>
  BY <1>1, TurnType
<1>4. /\ ufd' \in [Slot -> Conn \union {Listener, Closed, Unset}]
      /\ events' \in [Slot -> SUBSET Event]
      /\ cdata' \in [Slot -> SlotData]
      /\ kernel' \in [Conn -> KernelState]
      /\ asked' \in [Conn -> Nat]
      /\ out' \in [Conn -> Buffer]
      /\ ready' \subseteq Conn /\ late' \subseteq Conn
      /\ \A k \in Slot \ {i} : ufd'[k] = ufd[k] /\ events'[k] = events[k]
  <2>1. \A buf : WriteData(i, buf) =>
          \A k \in Slot \ {i} : events'[k] = events[k]
    BY DEF WriteData, TypeOK
  <2>2. \A n \in 1 .. MaxBytes : n \in Nat
    BY BoundsAssumption
  <2>3. ASSUME ufd[i] # Closed, NewOutConn(i, ufd[i]) PROVE <1>4
    <3>1. PICK n \in 1 .. MaxBytes :
            /\ WriteData(i, NextBytes(ufd[i], n))
            /\ asked' = [asked EXCEPT ![ufd[i]] = @ + n]
      BY <2>3, Zenon DEF NewOutConn
    <3>2. ufd[i] \in Conn /\ n \in Nat
      BY <1>2, <2>2, <2>3
    <3>3. NextBytes(ufd[i], n) \in Buffer
      BY <3>2, NextBytesType
    <3>4. asked' \in [Conn -> Nat]
      BY <3>1, <3>2 DEF TypeOK
    <3>5. UNCHANGED ufd /\ ready' \subseteq Conn /\ late' \subseteq Conn
      BY <2>3, <3>2 DEF NewOutConn, TypeOK
    <3>6. QED
      BY <2>1, <3>1, <3>3, <3>4, <3>5, WriteDataType DEF TypeOK
  <2>4. ASSUME ufd[i] = Closed, NewPhantom(i) PROVE <1>4
    <3>1. PICK n \in 1 .. MaxBytes :
            /\ WriteData(i, NextBytes(cdata[i].owner, n))
            /\ asked' = [asked EXCEPT ![cdata[i].owner] = @ + n]
      BY <2>4, Zenon DEF NewPhantom
    <3>2. cdata[i].owner \in Conn /\ n \in Nat
      BY <1>2, <2>2, <2>4
    <3>3. NextBytes(cdata[i].owner, n) \in Buffer
      BY <3>2, NextBytesType
    <3>4. UNCHANGED <<ufd, ready>> /\ late' \subseteq Conn
      BY <2>4, <3>2 DEF NewPhantom, TypeOK
    <3>5. asked' \in [Conn -> Nat]
      BY <3>1, <3>2 DEF TypeOK
    <3>6. QED
      BY <2>1, <3>1, <3>3, <3>4, <3>5, WriteDataType DEF TypeOK
  <2>5. ASSUME ConnectFailed(i) PROVE <1>4
    BY <2>5 DEF ConnectFailed, TypeOK, KernelState
  <2>6. QED
    BY <2>3, <2>4, <2>5 DEF UnconnectedPollinout
<1>5. \A k \in nfds' .. MaxSlots - 1 : ufd'[k] = Unset /\ events'[k] = {}
  <2>1. nfds' = nfds /\ nfds \in Nat
    BY DEF UnconnectedPollinout, TypeOK
  <2>2. QED
    BY <1>2, <1>4, <2>1, TopUntouched
<1>6. QED
  BY <1>3, <1>4, <1>5 DEF TypeOK, UnconnectedPollinout

LEMMA ConnectedPolloutType ==
  ASSUME Table, NEW i \in Slot, ConnectedPollout(i)
  PROVE  TypeOK'
<1> TypeOK
  BY DEF Table
<1>1. Turn(i, "out") /\ "out" \in Event
  BY DEF ConnectedPollout, Event
<1>2. i < nfds
  BY <1>1, TurnHasSocket
<1>3. revents' \in [Slot -> SUBSET Event] /\ UNCHANGED <<inCycle, died, polled>>
  BY <1>1, TurnType
<1>4. /\ ufd' \in [Slot -> Conn \union {Listener, Closed, Unset}]
      /\ cdata' \in [Slot -> SlotData]
      /\ kernel' \in [Conn -> KernelState]
      /\ out' \in [Conn -> Buffer]
      /\ closings' \in [Conn -> Nat]
      /\ \A k \in Slot \ {i} : ufd'[k] = ufd[k]
  <2>1. CASE UNCHANGED <<ufd, cdata, kernel, out, closings>>
    BY <2>1 DEF TypeOK
  <2>2. CASE cdata[i].xmit # <<>> /\ SendHead(i)
    <3> DEFINE head == Head(cdata[i].xmit)
               rest == Rest(head, cdata[i].written)
    <3>1. PICK w \in {-1} \union 1 .. Len(rest) :
            /\ out' = Took(ufd[i], w, rest)
            /\ Advance(i, w)
      BY <2>2, Zenon DEF SendHead
    <3>2. cdata[i].xmit \in Seq(Buffer) /\ cdata[i].written \in Int
      BY DEF TypeOK, SlotData
    <3>3. head \in Buffer /\ Tail(cdata[i].xmit) \in Seq(Buffer)
      BY <2>2, <3>2, HeadTailProperties
    <3>4. rest \in Buffer
      BY <3>2, <3>3, RestType
    <3>5. Len(rest) \in Nat
      BY <3>4, LenProperties DEF Buffer
    <3>6. w \in Int /\ w <= Len(rest)
      BY <3>5
    <3>7. out' \in [Conn -> Buffer]
      BY <3>1, <3>4, <3>6, TookType
    <3>8. cdata' \in [Slot -> SlotData]
      <4>1. CASE cdata' = [cdata EXCEPT ![i].xmit = Tail(@), ![i].written = 0]
        <5>1. [cdata EXCEPT ![i].xmit = Tail(cdata[i].xmit), ![i].written = 0]
                \in [Slot -> SlotData]
          BY <3>3, 0 \in Int, XmitWrittenType, Zenon
        <5>2. QED
          BY <4>1, <5>1
      <4>2. CASE cdata' = [cdata EXCEPT ![i].written = @ + w]
        <5>1. cdata[i].written + w \in Int
          BY <3>2, <3>6
        <5>2. QED
          BY <4>2, <5>1 DEF TypeOK, SlotData
      <4>3. QED
        BY <3>1, <4>1, <4>2 DEF Advance
    <3>9. QED
      BY <2>2, <3>7, <3>8, ErrorReportedType DEF SendHead, TypeOK
  <2>3. CASE CloseIdx(i) /\ UNCHANGED out
    <3>1. \A k \in Slot \ {i} : ufd'[k] = ufd[k]
      BY <2>3 DEF CloseIdx, TypeOK
    <3>2. QED
      BY <2>3, <3>1, CloseIdxType DEF TypeOK
  <2>4. QED
    BY <2>1, <2>2, <2>3 DEF ConnectedPollout, SendsData
<1>5. /\ events' \in [Slot -> SUBSET Event]
      /\ \A k \in Slot \ {i} : events'[k] = events[k]
  BY DEF ConnectedPollout, TypeOK
<1>6. \A k \in nfds' .. MaxSlots - 1 : ufd'[k] = Unset /\ events'[k] = {}
  <2>1. nfds' = nfds /\ nfds \in Nat
    BY DEF ConnectedPollout, TypeOK
  <2>2. QED
    BY <1>2, <1>4, <1>5, <2>1, TopUntouched
<1>7. QED
  BY <1>3, <1>4, <1>5, <1>6 DEF TypeOK, ConnectedPollout

LEMMA NextType ==
  ASSUME Table, [Next]_vars
  PROVE  TypeOK'
<1> TypeOK
  BY DEF Table
<1>1. ASSUME NEW c \in Conn, External(c) PROVE TypeOK'
  BY <1>1, ExternalType
<1>2. ASSUME Dies PROVE TypeOK'
  BY <1>2 DEF TypeOK, Dies, table, world, history
<1>3. ASSUME NEW i \in Slot, Handle(i) PROVE TypeOK'
  <2>1. CASE SendKilled(i)
    BY <1>2, <2>1 DEF SendKilled
  <2>2. QED
    BY <1>3, <2>1, AcceptType, AcceptNothingType, ConnectedPollinType,
       UnconnectedPollinoutType, ConnectedPolloutType DEF Handle
<1>4. CASE UNCHANGED vars
  BY <1>4 DEF TypeOK, vars, table, cycle, world, history
<1>5. QED
  BY <1>1, <1>2, <1>3, <1>4, PollType, EndCycleType, ConnectType, ConnectGivesUpType
  DEF Next, ConnectAborts

-----------------------------------------------------------------------------
(* What a branch does to its own slot, and to no other.                     *)

OwnSlotOnly(i) ==
  /\ ufd'[i] \in {ufd[i], Closed}
  /\ cdata'[i].owner = cdata[i].owner
  /\ cdata'[i].listener = cdata[i].listener
  /\ \A k \in Slot \ {i} :
       ufd'[k] = ufd[k] /\ cdata'[k] = cdata[k] /\ events'[k] = events[k]

Branch(i) ==
  \/ ConnectedPollin(i)
  \/ \E e \in Event : UnconnectedPollinout(i, e)
  \/ ConnectedPollout(i)

LEMMA CloseIdxOwnSlot ==
  ASSUME TypeOK, NEW i \in Slot, CloseIdx(i), UNCHANGED events
  PROVE  OwnSlotOnly(i) /\ cdata'[i].xmit = <<>> /\ ufd'[i] = Closed
BY DEF TypeOK, SlotData, CloseIdx, OwnSlotOnly

LEMMA DsendOwnSlot ==
  ASSUME TypeOK, NEW i \in Slot, NEW bufs, Dsend(i, bufs), UNCHANGED ufd
  PROVE  OwnSlotOnly(i) /\ cdata'[i].connected = cdata[i].connected
BY DEF TypeOK, SlotData, Dsend, OwnSlotOnly

LEMMA WriteDataOwnSlot ==
  ASSUME TypeOK, NEW i \in Slot, NEW buf, WriteData(i, buf), UNCHANGED ufd
  PROVE  OwnSlotOnly(i) /\ cdata'[i].connected
BY DEF TypeOK, SlotData, WriteData, OwnSlotOnly

LEMMA PollinOwnSlot ==
  ASSUME Table, NEW i \in Slot, ConnectedPollin(i)
  PROVE  /\ OwnSlotOnly(i)
         /\ cdata'[i].connected
         /\ ufd'[i] = Closed => cdata'[i].xmit = <<>>
<1> TypeOK
  BY DEF Table
<1>1. ufd[i] # Closed /\ cdata[i].connected
  BY TurnHasSocket DEF ConnectedPollin, Event
<1>2. CASE UNCHANGED <<ufd, events, cdata>>
  BY <1>1, <1>2 DEF OwnSlotOnly
<1>3. CASE CloseIdx(i) /\ UNCHANGED events
  <2>1. cdata'[i].connected = cdata[i].connected
    BY <1>3 DEF CloseIdx, TypeOK, SlotData
  <2>2. QED
    BY <1>1, <1>3, <2>1, CloseIdxOwnSlot
<1>4. ASSUME NEW bufs, Dsend(i, bufs), UNCHANGED ufd
      PROVE  /\ OwnSlotOnly(i)
             /\ cdata'[i].connected
             /\ ufd'[i] = Closed => cdata'[i].xmit = <<>>
  BY <1>1, <1>4, DsendOwnSlot
<1>5. QED
  BY <1>2, <1>3, <1>4 DEF ConnectedPollin, ReadRequest, ReadReply

LEMMA PollinoutOwnSlot ==
  ASSUME Table, NEW i \in Slot, NEW e \in Event, UnconnectedPollinout(i, e)
  PROVE  /\ OwnSlotOnly(i)
         /\ e = "in" /\ ufd'[i] = Closed => cdata'[i].xmit = <<>>
         /\ ufd'[i] \in Conn => cdata'[i].connected
<1> TypeOK
  BY DEF Table
<1>1. /\ ufd[i] \in Conn \union {Closed}
      /\ e = "in" => ufd[i] # Closed
  BY TurnHasSocket DEF UnconnectedPollinout
<1>2. ASSUME NEW buf, WriteData(i, buf), UNCHANGED ufd
      PROVE  OwnSlotOnly(i) /\ cdata'[i].connected
  BY <1>2, WriteDataOwnSlot
<1>3. ASSUME ConnectFailed(i)
      PROVE  OwnSlotOnly(i) /\ ufd'[i] = Closed /\ UNCHANGED cdata
  BY <1>3 DEF ConnectFailed, OwnSlotOnly, TypeOK
<1>4. ufd[i] \in Conn => cdata[i].xmit = <<>>
  BY DEF UnconnectedPollinout, Table, SlotsInv
<1>5. Closed \notin Conn
  BY ConnAssumption
<1>6. CASE ufd[i] # Closed /\ NewOutConn(i, ufd[i])
  BY <1>2, <1>6 DEF NewOutConn
<1>7. CASE ConnectFailed(i)
  BY <1>1, <1>3, <1>4, <1>5, <1>7
<1>8. CASE ufd[i] = Closed /\ NewPhantom(i)
  BY <1>1, <1>2, <1>5, <1>8 DEF NewPhantom
<1>9. QED
  BY <1>6, <1>7, <1>8 DEF UnconnectedPollinout

LEMMA PolloutOwnSlot ==
  ASSUME Table, NEW i \in Slot, ConnectedPollout(i)
  PROVE  OwnSlotOnly(i) /\ cdata'[i].connected
<1> TypeOK
  BY DEF Table
<1>1. \A k \in Slot \ {i} : events'[k] = events[k]
  BY DEF ConnectedPollout, TypeOK
<1>2. /\ ufd' = ufd \/ ufd' = [ufd EXCEPT ![i] = Closed]
      /\ \/ cdata' = cdata
         \/ cdata' = [cdata EXCEPT ![i].xmit = <<>>]
         \/ cdata' = [cdata EXCEPT ![i].xmit = Tail(@), ![i].written = 0]
         \/ \E w \in Int : cdata' = [cdata EXCEPT ![i].written = @ + w]
  <2>1. CASE UNCHANGED <<ufd, cdata>>
    BY <2>1
  <2>2. CASE CloseIdx(i)
    BY <2>2 DEF CloseIdx
  <2>3. CASE SendHead(i)
    <3>1. PICK w \in {-1} \union 1 .. Len(Rest(Head(cdata[i].xmit), cdata[i].written)) :
            Advance(i, w)
      BY <2>3, Zenon DEF SendHead
    <3>2. w \in Int
      OBVIOUS
    <3>3. QED
      BY <2>3, <3>1, <3>2 DEF SendHead, Advance
  <2>4. QED
    BY <2>1, <2>2, <2>3 DEF ConnectedPollout
<1>3. cdata[i].connected
  BY DEF ConnectedPollout
<1>4. ufd'[i] \in {ufd[i], Closed} /\ \A k \in Slot \ {i} : ufd'[k] = ufd[k]
  BY <1>2 DEF TypeOK
<1>5. /\ \A k \in Slot \ {i} : cdata'[k] = cdata[k]
      /\ cdata'[i].owner = cdata[i].owner
      /\ cdata'[i].listener = cdata[i].listener
      /\ cdata'[i].connected = cdata[i].connected
  <2> cdata \in [Slot -> SlotData]
    BY DEF TypeOK
  <2>1. CASE cdata' = [cdata EXCEPT ![i].xmit = Tail(@), ![i].written = 0]
    BY <2>1 DEF SlotData
  <2>2. ASSUME NEW w \in Int, cdata' = [cdata EXCEPT ![i].written = @ + w]
        PROVE  <1>5!1 /\ <1>5!2 /\ <1>5!3 /\ <1>5!4
    BY <2>2 DEF SlotData
  <2>3. CASE cdata' = cdata \/ cdata' = [cdata EXCEPT ![i].xmit = <<>>]
    BY <2>3 DEF SlotData
  <2>4. QED
    BY <1>2, <2>1, <2>2, <2>3
<1>6. QED
  BY <1>1, <1>3, <1>4, <1>5 DEF OwnSlotOnly

LEMMA BranchStep ==
  ASSUME Table, NEW i \in Slot, Branch(i)
  PROVE  /\ OwnSlotOnly(i)
         /\ i # 0
         /\ ufd[i] \in Conn \union {Closed}
         /\ ufd'[i] \in Conn /\ ~cdata'[i].connected => cdata'[i].xmit = <<>>
         /\ UNCHANGED <<nfds, inCycle, died, polled>>
         /\ \E e \in Event :
              /\ Turn(i, e)
              /\ e = "in" /\ ufd'[i] = Closed => cdata'[i].xmit = <<>>
<1>1. i # 0 /\ ufd[i] \in Conn \union {Closed}
  BY TurnHasSocket
  DEF Branch, ConnectedPollin, UnconnectedPollinout, ConnectedPollout, Table,
      SlotsInv, Event
<1>2. UNCHANGED <<nfds, inCycle, died, polled>>
  BY DEF Branch, ConnectedPollin, UnconnectedPollinout, ConnectedPollout, Turn
<1>3. CASE ConnectedPollin(i)
  BY <1>1, <1>2, <1>3, PollinOwnSlot DEF ConnectedPollin, Event
<1>4. ASSUME NEW e \in Event, UnconnectedPollinout(i, e)
      PROVE  /\ OwnSlotOnly(i)
             /\ ufd'[i] \in Conn => cdata'[i].connected
             /\ Turn(i, e)
             /\ e = "in" /\ ufd'[i] = Closed => cdata'[i].xmit = <<>>
  BY <1>4, PollinoutOwnSlot DEF UnconnectedPollinout
<1>5. CASE ConnectedPollout(i)
  BY <1>1, <1>2, <1>5, PolloutOwnSlot DEF ConnectedPollout, Event
<1>6. QED
  BY <1>1, <1>2, <1>3, <1>4, <1>5 DEF Branch

(* A socket takes a slot that was closed or never used, and that has no     *)
(* event waiting.                                                           *)
LEMMA OccupyStep ==
  ASSUME Table, NEW c \in Conn, NEW j \in Slot, NEW connected \in BOOLEAN,
         NEW interest, TakeFreeIndex(j), Occupy(j, c, connected, interest)
  PROVE  /\ j # 0
         /\ ufd[j] \in {Closed, Unset}
         /\ ufd'[j] = c /\ cdata'[j] = NewSlotData(c, connected)
         /\ \A k \in Slot \ {j} :
              ufd'[k] = ufd[k] /\ cdata'[k] = cdata[k] /\ events'[k] = events[k]
BY FreeSlot DEF Occupy, Table, TypeOK

LEMMA OccupySlots ==
  ASSUME Table, NEW c \in Conn, NEW j \in Slot, NEW connected \in BOOLEAN,
         NEW interest, TakeFreeIndex(j), Occupy(j, c, connected, interest)
  PROVE  SlotsInv'
<1>1. c \notin {Listener, Closed, Unset}
  BY ConnAssumption
<1>2. /\ j # 0 /\ ufd'[j] = c
      /\ \A k \in Slot \ {j} : ufd'[k] = ufd[k] /\ cdata'[k] = cdata[k]
  BY OccupyStep
<1>3. /\ cdata'[j].owner = c /\ cdata'[j].listener = FALSE
      /\ cdata'[j].xmit = <<>>
  <2>1. cdata'[j] = NewSlotData(c, connected)
    BY OccupyStep
  <2>2. QED
    BY <2>1 DEF NewSlotData
<1>4. ufd'[0] = Listener /\ ~cdata'[0].connected
  BY <1>2, SlotZero DEF Table, SlotsInv
<1>5. ASSUME NEW k \in Slot
      PROVE  /\ cdata'[k].listener <=> k = 0
             /\ k # 0 => ufd'[k] # Listener
             /\ ufd'[k] \in Conn => cdata'[k].owner = ufd'[k]
             /\ ufd'[k] \in Conn /\ ~cdata'[k].connected => cdata'[k].xmit = <<>>
  <2>1. CASE k = j
    BY <1>1, <1>2, <1>3, <2>1
  <2>2. CASE k # j
    BY <1>2, <2>2 DEF Table, SlotsInv
  <2>3. QED
    BY <2>1, <2>2
<1>6. QED
  BY <1>4, <1>5 DEF SlotsInv

LEMMA NextSlots ==
  ASSUME Table, [Next]_vars
  PROVE  SlotsInv'
<1>1. CASE UNCHANGED <<ufd, cdata>>
  BY <1>1 DEF Table, SlotsInv
<1>2. ASSUME NEW i \in Slot, NEW c \in Conn, NEW j \in Slot, Accept(i, c, j)
      PROVE  SlotsInv'
  BY <1>1, <1>2, OccupySlots DEF Accept
<1>3. ASSUME NEW c \in Conn, NEW j \in Slot, Connect(c, j) PROVE SlotsInv'
  BY <1>3, OccupySlots DEF Connect
<1>4. ASSUME NEW i \in Slot, Branch(i) PROVE SlotsInv'
  <2>1. /\ OwnSlotOnly(i) /\ i # 0 /\ ufd[i] \in Conn \union {Closed}
        /\ ufd'[i] \in Conn /\ ~cdata'[i].connected => cdata'[i].xmit = <<>>
    BY <1>4, BranchStep
  <2>2. Closed \notin Conn /\ Listener \notin Conn /\ Listener # Closed
    BY ConnAssumption
  <2>3. QED
    BY <2>1, <2>2, SlotZero DEF OwnSlotOnly, Table, SlotsInv
<1>5. ASSUME NEW i \in Slot, NEW j \in Slot, AcceptNothing(i, j) PROVE SlotsInv'
  <2>1. Listener \notin {Closed, Unset} /\ Closed \notin Conn /\ Unset \notin Conn
    BY ConnAssumption
  <2>2. QED
    BY <1>5, <2>1, NothingStep, SlotZero DEF Table, SlotsInv
<1>6. QED
  BY <1>1, <1>2, <1>3, <1>4, <1>5
  DEF ConnectAborts, SendKilled, Dies, Next, External, PeerDials, Established, Refused, PeerSends, PeerCloses,
      PeerResets, Poll, EndCycle, ConnectGivesUp, Handle, Branch, vars, table

LEMMA BranchPending ==
  ASSUME Table, EventsBelongToTheirSocket, NEW i \in Slot, Branch(i)
  PROVE  PendingInv' /\ EventsBelongToTheirSocket'
<1>1. /\ OwnSlotOnly(i) /\ UNCHANGED polled
      /\ ufd[i] \in Conn \union {Closed}
  BY BranchStep
<1>2. PICK e \in Event :
        /\ Turn(i, e)
        /\ e = "in" /\ ufd'[i] = Closed => cdata'[i].xmit = <<>>
  BY BranchStep
<1>3. /\ revents'[i] = revents[i] \ {e}
      /\ \A k \in Slot \ {i} : revents'[k] = revents[k]
      /\ \A k \in Slot : k < i => revents[k] = {}
      /\ e \in revents[i]
  BY <1>2 DEF Turn, NextTurn, Table, TypeOK, Slot
<1>4. "in" \notin revents'[i] /\ (e = "out" => revents'[i] = {})
  <2>1. revents[i] \subseteq {"in", "out"}
    BY DEF Table, TypeOK, Event
  <2>2. e = "in" \/ (e = "out" /\ "in" \notin revents[i])
    BY <1>2 DEF Turn, NextTurn, Event
  <2>3. QED
    BY <1>3, <2>1, <2>2
<1>5. \A k \in Slot : k < i => revents'[k] = {}
  BY <1>3 DEF Slot
<1>6. ASSUME NEW k \in Slot
      PROVE  /\ "in" \in revents'[k] => ufd'[k] \in Conn \union {Listener}
             /\ "out" \in revents'[k] => ufd'[k] \in Conn \union {Closed}
             /\ revents'[k] # {} /\ ufd'[k] = Closed =>
                  /\ cdata'[k].owner \in Conn /\ cdata'[k].xmit = <<>>
                  /\ \A j \in Slot : j < k => revents'[j] = {}
             /\ revents'[k] # {} => ufd'[k] \in {polled[k], Closed}
  <2>1. CASE k = i
    <3>1. cdata[i].owner \in Conn
      BY <1>1, <1>3 DEF Table, SlotsInv, PendingInv
    <3>2. QED
      BY <1>1, <1>2, <1>3, <1>4, <1>5, <2>1, <3>1
      DEF OwnSlotOnly, EventsBelongToTheirSocket, Event
  <2>2. CASE k # i
    <3>1. /\ revents'[k] = revents[k] /\ ufd'[k] = ufd[k] /\ cdata'[k] = cdata[k]
      BY <1>1, <1>3, <2>2 DEF OwnSlotOnly
    <3>2. \A j \in Slot : revents[j] = {} => revents'[j] = {}
      BY <1>3
    <3>3. QED
      BY <3>1, <3>2 DEF Table, PendingInv, EventsBelongToTheirSocket
  <2>3. QED
    BY <2>1, <2>2
<1>7. QED
  BY <1>1, <1>6 DEF PendingInv, EventsBelongToTheirSocket

(* A slot taken in the cycle has no event of its former socket waiting.     *)
LEMMA OccupyPending ==
  ASSUME Table, EventsBelongToTheirSocket, NEW c \in Conn, NEW j \in Slot,
         NEW connected \in BOOLEAN, NEW interest, TakeFreeIndex(j),
         Occupy(j, c, connected, interest), UNCHANGED polled,
         ufd[j] = Closed => revents[j] = {},
         \A k \in Slot : revents'[k] \subseteq revents[k]
  PROVE  PendingInv' /\ EventsBelongToTheirSocket'
<1>1. /\ ufd[j] \in {Closed, Unset}
      /\ \A k \in Slot \ {j} : ufd'[k] = ufd[k] /\ cdata'[k] = cdata[k]
  BY OccupyStep
<1>2. revents[j] \subseteq {"in", "out"} /\ revents'[j] \subseteq revents[j]
  BY DEF Table, TypeOK, Event
<1>3. Unset \notin Conn /\ Unset # Listener /\ Unset # Closed
  BY ConnAssumption DEF Unset, Closed
<1>4. revents'[j] = {}
  <2>1. CASE ufd[j] = Closed
    BY <1>2, <2>1
  <2>2. CASE ufd[j] = Unset
    BY <1>2, <1>3, <2>2 DEF Table, PendingInv
  <2>3. QED
    BY <1>1, <2>1, <2>2
<1>5. ASSUME NEW k \in Slot
      PROVE  /\ "in" \in revents'[k] => ufd'[k] \in Conn \union {Listener}
             /\ "out" \in revents'[k] => ufd'[k] \in Conn \union {Closed}
             /\ revents'[k] # {} /\ ufd'[k] = Closed =>
                  /\ cdata'[k].owner \in Conn /\ cdata'[k].xmit = <<>>
                  /\ \A l \in Slot : l < k => revents'[l] = {}
             /\ revents'[k] # {} => ufd'[k] \in {polled[k], Closed}
  <2>1. CASE k = j
    BY <1>4, <2>1
  <2>2. CASE k # j
    <3>1. /\ ufd'[k] = ufd[k] /\ cdata'[k] = cdata[k]
          /\ revents'[k] \subseteq revents[k]
      BY <1>1, <2>2
    <3>2. \A l \in Slot : revents[l] = {} => revents'[l] = {}
      OBVIOUS
    <3>3. QED
      BY <3>1, <3>2 DEF Table, PendingInv, EventsBelongToTheirSocket
  <2>3. QED
    BY <2>1, <2>2
<1>6. QED
  BY <1>5 DEF PendingInv, EventsBelongToTheirSocket

LEMMA NextPending ==
  ASSUME Table, EventsBelongToTheirSocket, [Next]_vars
  PROVE  PendingInv' /\ EventsBelongToTheirSocket'
<1> DEFINE Pending == PendingInv' /\ EventsBelongToTheirSocket'
<1>1. CASE UNCHANGED <<ufd, cdata, revents, polled>>
  BY <1>1 DEF Table, PendingInv, EventsBelongToTheirSocket
<1>2. CASE Poll
  <2>1. \A i \in Slot :
          /\ "in" \in revents'[i] => ufd[i] \in Conn \union {Listener}
          /\ "out" \in revents'[i] => ufd[i] \in Conn
          /\ revents'[i] \subseteq {"in", "out"}
    BY <1>2 DEF Poll, Readable, Writable, Event
  <2>2. ufd' = ufd /\ polled' = ufd
    BY <1>2 DEF Poll, table
  <2>3. Closed \notin Conn /\ Closed # Listener
    BY ConnAssumption
  <2>4. QED
    BY <2>1, <2>2, <2>3 DEF PendingInv, EventsBelongToTheirSocket
<1>3. CASE EndCycle
  <2>1. \A i \in Slot : revents'[i] = {}
    BY <1>3 DEF EndCycle
  <2>2. QED
    BY <2>1 DEF PendingInv, EventsBelongToTheirSocket
<1>4. ASSUME NEW i \in Slot, NEW c \in Conn, NEW j \in Slot, Accept(i, c, j)
      PROVE  Pending
  <2>1. i = 0 /\ "in" \in revents[0]
    BY <1>4 DEF Accept, Turn, NextTurn, Table, SlotsInv
  <2>2. UNCHANGED polled /\ \A k \in Slot : revents'[k] \subseteq revents[k]
    BY <1>4 DEF Accept, Turn, Table, TypeOK
  <2>3. CASE Occupy(j, c, TRUE, {"in"})
    <3>1. TakeFreeIndex(j) /\ j # 0
      BY <1>4, <2>3, OccupyStep DEF Accept
    <3>2. 0 < j
      BY <3>1, BoundsAssumption DEF Slot
    <3>3. ufd[j] = Closed => revents[j] = {}
      BY <2>1, <3>2, SlotZero DEF Table, PendingInv
    <3>4. QED
      BY <2>2, <2>3, <3>1, <3>3, OccupyPending
  <2>4. CASE UNCHANGED <<ufd, events, cdata>>
    <3>1. \A k \in Slot : revents[k] = {} => revents'[k] = {}
      BY <2>2
    <3>2. QED
      BY <2>2, <2>4, <3>1 DEF Table, PendingInv, EventsBelongToTheirSocket
  <2>5. QED
    BY <1>4, <2>3, <2>4 DEF Accept
<1>5. ASSUME NEW c \in Conn, NEW j \in Slot, Connect(c, j) PROVE Pending
  <2>1. UNCHANGED <<revents, polled>> /\ (ufd[j] = Closed => revents[j] = {})
    BY <1>5 DEF Connect, HandlerMayRun, cycle
  <2>2. QED
    BY <1>5, <2>1, OccupyPending DEF Connect
<1>6. ASSUME NEW i \in Slot, Branch(i) PROVE Pending
  BY <1>6, BranchPending
<1>7. ASSUME NEW i \in Slot, NEW j \in Slot, AcceptNothing(i, j) PROVE Pending
  <2>1. /\ revents[j] = {} /\ UNCHANGED polled
        /\ \A k \in Slot \ {j} : ufd'[k] = ufd[k] /\ cdata'[k] = cdata[k]
        /\ \A k \in Slot : revents'[k] \subseteq revents[k]
    BY <1>7, NothingStep
  <2>2. \A k \in Slot : revents[k] = {} => revents'[k] = {}
    BY <2>1
  <2>3. ASSUME NEW k \in Slot, revents'[k] # {}
        PROVE  k # j /\ ufd'[k] = ufd[k] /\ cdata'[k] = cdata[k]
    BY <2>1, <2>2, <2>3
  <2>4. QED
    BY <2>1, <2>2, <2>3 DEF Table, PendingInv, EventsBelongToTheirSocket
<1>8. QED
  BY <1>1, <1>2, <1>3, <1>4, <1>5, <1>6, <1>7
  DEF ConnectAborts, SendKilled, Dies, Next, External, PeerDials, Established,
      Refused, PeerSends, PeerCloses, PeerResets, ConnectGivesUp, Handle, Branch,
      vars, table, cycle

-----------------------------------------------------------------------------
LEMMA InitTable ==
  Init => Table /\ EventsBelongToTheirSocket
<1> SUFFICES ASSUME Init PROVE Table /\ EventsBelongToTheirSocket
  OBVIOUS
<1>1. \A i \in Slot : /\ cdata[i].owner = None
                      /\ cdata[i].listener <=> i = 0
                      /\ ~cdata[i].connected
                      /\ cdata[i].xmit = <<>>
  BY DEF Init, NewSlotData
<1>2. cdata \in [Slot -> SlotData]
  <2>1. NewSlotData(None, FALSE) \in SlotData
    BY SlotDataType
  <2>2. \A d \in SlotData, b \in BOOLEAN : [d EXCEPT !.listener = b] \in SlotData
    BY DEF SlotData
  <2>3. \A i \in Slot : (i = 0) \in BOOLEAN
    OBVIOUS
  <2>4. QED
    BY <2>1, <2>2, <2>3, Zenon DEF Init
<1>3. TypeOK
  <2>1. \A i \in nfds .. MaxSlots - 1 : i \in Slot /\ i # 0
    BY BoundsAssumption DEF Init, Slot
  <2>2. \A i \in nfds .. MaxSlots - 1 : ufd[i] = Unset /\ events[i] = {}
    BY <2>1 DEF Init
  <2>3. nfds \in 1 .. MaxSlots
    BY BoundsAssumption DEF Init
  <2>4. out \in [Conn -> Buffer]
    BY EmptySeq DEF Init, Buffer
  <2>5. QED
    BY <1>2, <2>2, <2>3, <2>4 DEF Init, TypeOK, Event, KernelState
<1>4. SlotsInv
  <2>1. \A i \in Slot : ufd[i] = IF i = 0 THEN Listener ELSE Unset
    BY DEF Init
  <2>2. Listener \notin Conn /\ Unset \notin Conn /\ Listener # Closed /\ Unset # Closed
    BY ConnAssumption DEF Unset, Closed
  <2>3. Listener # Unset
    BY ConnAssumption
  <2>4. QED
    BY <1>1, <2>1, <2>2, <2>3, SlotZero DEF SlotsInv
<1>5. PendingInv /\ EventsBelongToTheirSocket
  BY DEF Init, PendingInv, EventsBelongToTheirSocket
<1>6. QED
  BY <1>3, <1>4, <1>5 DEF Table

-----------------------------------------------------------------------------
(* Interest in POLLOUT follows the queue.                                   *)

LEMMA BranchQueued ==
  ASSUME Table, QueuedMeansInterested, NEW i \in Slot, Branch(i)
  PROVE  QueuedMeansInterested'
<1> TypeOK
  BY DEF Table
<1> DEFINE Interested == cdata'[i].xmit # <<>> => "out" \in events'[i]
<1>1. OwnSlotOnly(i) /\ ufd[i] \in Conn \union {Closed}
  BY BranchStep
<1>2. ASSUME ufd'[i] \in Conn PROVE Interested
  <2>1. ufd[i] \in Conn /\ Closed \notin Conn
    BY <1>1, <1>2, ConnAssumption DEF OwnSlotOnly
  <2>2. cdata[i].xmit # <<>> => "out" \in events[i]
    BY <2>1 DEF QueuedMeansInterested
  <2>3. CASE UNCHANGED <<events, cdata>>
    BY <2>2, <2>3
  <2>4. ASSUME NEW bufs, Dsend(i, bufs) PROVE Interested
    BY <2>4 DEF Dsend, TypeOK
  <2>5. ASSUME CloseIdx(i) PROVE Interested
    BY <1>2, <2>1, <2>5 DEF CloseIdx, TypeOK
  <2>6. ASSUME NEW buf, WriteData(i, buf) PROVE Interested
    <3>1. CASE cdata' = [cdata EXCEPT ![i].connected = TRUE] /\ UNCHANGED events
      BY <2>2, <3>1 DEF TypeOK, SlotData
    <3>2. CASE events' = [events EXCEPT ![i] = @ \union {"out"}]
      BY <3>2 DEF TypeOK
    <3>3. QED
      BY <2>6, <3>1, <3>2 DEF WriteData
  <2>7. ASSUME ConnectFailed(i) PROVE Interested
    BY <1>2, <2>1, <2>7 DEF ConnectFailed, TypeOK
  <2>8. CASE ConnectedPollin(i)
    BY <2>3, <2>4, <2>5, <2>8 DEF ConnectedPollin, ReadRequest, ReadReply
  <2>9. ASSUME NEW e \in Event, UnconnectedPollinout(i, e) PROVE Interested
    BY <2>6, <2>7, <2>9 DEF UnconnectedPollinout, NewOutConn, NewPhantom
  <2>10. CASE ConnectedPollout(i)
    <3>1. cdata'[i].xmit # <<>> => cdata[i].xmit # <<>> \/ CloseIdx(i)
      BY <2>10 DEF ConnectedPollout, SendsData
    <3>2. cdata'[i].xmit # <<>> => UNCHANGED events
      BY <2>10 DEF ConnectedPollout
    <3>3. QED
      BY <2>2, <2>5, <3>1, <3>2
  <2>11. QED
    BY <2>8, <2>9, <2>10 DEF Branch
<1>3. ASSUME NEW k \in Slot, ufd'[k] \in Conn, cdata'[k].xmit # <<>>
      PROVE  "out" \in events'[k]
  BY <1>1, <1>2, <1>3 DEF OwnSlotOnly, QueuedMeansInterested
<1>4. QED
  BY <1>3 DEF QueuedMeansInterested

LEMMA NextQueued ==
  ASSUME Table, QueuedMeansInterested, [Next]_vars
  PROVE  QueuedMeansInterested'
<1>1. CASE UNCHANGED <<ufd, cdata, events>>
  BY <1>1 DEF QueuedMeansInterested
<1>2. CASE EndCycle
  <2>1. UNCHANGED <<ufd, cdata>> /\ Closed \notin Conn
    BY <1>2, ConnAssumption DEF EndCycle
  <2>2. events' = [i \in Slot |-> IF i < nfds /\ ufd[i] = Closed THEN {} ELSE events[i]]
    BY <1>2 DEF EndCycle
  <2>3. ASSUME NEW i \in Slot, ufd[i] \in Conn PROVE events'[i] = events[i]
    BY <2>1, <2>2, <2>3
  <2>4. QED
    BY <2>1, <2>3 DEF QueuedMeansInterested
<1>3. ASSUME NEW c \in Conn, NEW j \in Slot, NEW connected \in BOOLEAN,
             NEW interest, TakeFreeIndex(j), Occupy(j, c, connected, interest)
      PROVE  QueuedMeansInterested'
  <2>1. cdata'[j].xmit = <<>>
    <3>1. cdata'[j] = NewSlotData(c, connected)
      BY <1>3, OccupyStep
    <3>2. QED
      BY <3>1 DEF NewSlotData
  <2>2. \A k \in Slot \ {j} :
          ufd'[k] = ufd[k] /\ cdata'[k] = cdata[k] /\ events'[k] = events[k]
    BY <1>3, OccupyStep
  <2>3. QED
    BY <2>1, <2>2 DEF QueuedMeansInterested
<1>4. ASSUME NEW i \in Slot, NEW c \in Conn, NEW j \in Slot, Accept(i, c, j)
      PROVE  QueuedMeansInterested'
  BY <1>1, <1>3, <1>4 DEF Accept
<1>5. ASSUME NEW c \in Conn, NEW j \in Slot, Connect(c, j)
      PROVE  QueuedMeansInterested'
  BY <1>3, <1>5 DEF Connect
<1>6. ASSUME NEW i \in Slot, Branch(i) PROVE QueuedMeansInterested'
  BY <1>6, BranchQueued
<1>7. ASSUME NEW i \in Slot, NEW j \in Slot, AcceptNothing(i, j)
      PROVE  QueuedMeansInterested'
  BY <1>7, NothingStep, ConnAssumption DEF QueuedMeansInterested
<1>8. QED
  BY <1>1, <1>2, <1>4, <1>5, <1>6, <1>7
  DEF ConnectAborts, SendKilled, Dies, Next, External, PeerDials, Established, Refused, PeerSends, PeerCloses,
      PeerResets, Poll, ConnectGivesUp, Handle, Branch, vars, table

-----------------------------------------------------------------------------
(* What a branch does to connections: it keeps its own (a pending error is  *)
(* reported), tells the handlers of it, ends it, or gives it up.            *)

KernelSteady ==
  \A c \in Conn :
    \/ kernel'[c] = kernel[c]
    \/ kernel[c] = "reset" /\ kernel'[c] = "dead"

Over(i) ==
  \A c \in Conn : kernel'[c] = IF c = ufd[i] THEN "over" ELSE kernel[c]

Keeps(i) ==
  /\ UNCHANGED <<ufd, closings, ready>>
  /\ ufd[i] \in Conn => cdata'[i].connected = cdata[i].connected
  /\ KernelSteady

Tells(i) ==
  /\ ufd[i] \in Conn /\ kernel[ufd[i]] \in {"up", "fin"}
  /\ UNCHANGED <<ufd, closings>>
  /\ ready' = ready \union {ufd[i]}
  /\ cdata'[i].connected
  /\ KernelSteady

Ends(i) ==
  /\ ufd[i] \in Conn /\ cdata[i].connected
  /\ ufd'[i] = Closed /\ Over(i)
  /\ \A c \in Conn : closings'[c] = closings[c] + (IF c = ufd[i] THEN 1 ELSE 0)
  /\ UNCHANGED ready

GivesUp(i) ==
  /\ ~cdata[i].connected
  /\ ufd'[i] = Closed /\ Over(i)
  /\ UNCHANGED <<closings, ready>>

LEMMA ErrorReportedSteady ==
  ASSUME NEW s, kernel' = ErrorReported(s) \/ UNCHANGED kernel
  PROVE  KernelSteady
<1>1. CASE kernel' = ErrorReported(s)
  BY <1>1 DEF ErrorReported, KernelSteady
<1>2. CASE UNCHANGED kernel
  BY <1>2 DEF KernelSteady
<1>3. QED
  BY <1>1, <1>2

LEMMA CloseIdxEnds ==
  ASSUME Table, NEW i \in Slot, ufd[i] \in Conn, cdata[i].connected,
         CloseIdx(i), UNCHANGED ready
  PROVE  Ends(i)
<1>1. cdata[i].owner = ufd[i]
  BY DEF Table, SlotsInv
<1>2. closings \in [Conn -> Nat]
  BY DEF Table, TypeOK
<1>3. closings' = [closings EXCEPT ![ufd[i]] = @ + 1]
  BY <1>1 DEF CloseIdx
<1>4. \A c \in Conn : closings'[c] = closings[c] + (IF c = ufd[i] THEN 1 ELSE 0)
  BY <1>2, <1>3
<1>5. ufd'[i] = Closed /\ Over(i)
  BY DEF CloseIdx, Over, Table, TypeOK
<1>6. QED
  BY <1>4, <1>5 DEF Ends

LEMMA BranchWorld ==
  ASSUME Table, NEW i \in Slot, Branch(i)
  PROVE  Keeps(i) \/ Tells(i) \/ Ends(i) \/ GivesUp(i)
<1> TypeOK
  BY DEF Table
<1>1. ufd[i] \in Conn \union {Closed}
  BY BranchStep
<1>2. Closed \notin Conn
  BY ConnAssumption
<1>3. CASE ConnectedPollin(i)
  <2>1. ufd[i] \in Conn /\ cdata[i].connected /\ UNCHANGED ready
    BY <1>1, <1>3, TurnHasSocket DEF ConnectedPollin, Event
  <2>2. cdata'[i].connected
    BY <1>3, PollinOwnSlot
  <2>3. CASE CloseIdx(i)
    BY <2>1, <2>3, CloseIdxEnds
  <2>4. CASE /\ UNCHANGED <<ufd, closings>>
             /\ UNCHANGED kernel \/ kernel' = ErrorReported(ufd[i])
    BY <2>1, <2>2, <2>4, ErrorReportedSteady DEF Keeps, Table, TypeOK, SlotData
  <2>5. QED
    BY <1>3, <2>3, <2>4 DEF ConnectedPollin, ReadRequest, ReadReply
<1>4. ASSUME NEW e \in Event, UnconnectedPollinout(i, e)
      PROVE  Keeps(i) \/ Tells(i) \/ GivesUp(i)
  <2>1. ~cdata[i].connected /\ UNCHANGED closings
    BY <1>4 DEF UnconnectedPollinout
  <2>2. ASSUME NEW buf, WriteData(i, buf) PROVE KernelSteady
    BY <2>2, ErrorReportedSteady DEF WriteData
  <2>3. CASE /\ ufd[i] # Closed /\ kernel[ufd[i]] \in {"up", "fin"}
             /\ NewOutConn(i, ufd[i])
    <3>1. UNCHANGED ufd /\ ufd[i] \in Conn
      BY <1>1, <2>3 DEF NewOutConn
    <3>2. cdata'[i].connected
      BY <1>4, <3>1, PollinoutOwnSlot
    <3>3. QED
      BY <2>1, <2>2, <2>3, <3>1, <3>2 DEF NewOutConn, Tells
  <2>4. CASE ConnectFailed(i)
    BY <2>1, <2>4 DEF ConnectFailed, GivesUp, Over, TypeOK
  <2>5. CASE ufd[i] = Closed /\ NewPhantom(i)
    BY <1>2, <2>1, <2>2, <2>5 DEF NewPhantom, Keeps
  <2>6. QED
    BY <1>4, <2>3, <2>4, <2>5 DEF UnconnectedPollinout
<1>5. CASE ConnectedPollout(i)
  <2>1. cdata[i].connected /\ cdata'[i].connected /\ UNCHANGED ready
    BY <1>5, PolloutOwnSlot DEF ConnectedPollout
  <2>2. cdata[i].connected = cdata'[i].connected
    BY <2>1, PolloutOwnSlot DEF TypeOK, SlotData
  <2>3. CASE CloseIdx(i) /\ cdata[i].xmit # <<>>
    <3>1. "out" \in revents[i]
      BY <1>5 DEF ConnectedPollout, Turn, NextTurn
    <3>2. ufd[i] # Closed
      BY <2>3, <3>1 DEF Table, PendingInv
    <3>3. QED
      BY <1>1, <2>1, <2>3, <3>2, CloseIdxEnds
  <2>4. CASE /\ UNCHANGED <<ufd, closings>>
             /\ UNCHANGED kernel \/ kernel' = ErrorReported(ufd[i])
    BY <2>1, <2>2, <2>4, ErrorReportedSteady DEF Keeps
  <2>5. QED
    BY <1>5, <2>3, <2>4 DEF ConnectedPollout, SendHead
<1>6. QED
  BY <1>3, <1>4, <1>5 DEF Branch

-----------------------------------------------------------------------------
(* Connections and slots.                                                   *)

LEMMA SameSockets ==
  ASSUME SocketsInv, UNCHANGED ufd,
         \A c \in Conn : kernel'[c] \in Held <=> kernel[c] \in Held
  PROVE  SocketsInv'
BY DEF SocketsInv, Held

LEMMA ExternalKernel ==
  ASSUME TypeOK, NEW c \in Conn, External(c)
  PROVE  \A d \in Conn :
           /\ kernel'[d] \in Held <=> kernel[d] \in Held
           /\ kernel'[d] = "over" <=> kernel[d] = "over"
           /\ kernel[d] \in {"up", "fin", "reset"} =>
                kernel'[d] \in {"up", "fin", "reset"}
           /\ kernel[d] \in {"dead", "over"} => kernel'[d] = kernel[d]
<1>1. kernel \in [Conn -> KernelState]
  BY DEF TypeOK
<1>2. QED
  BY <1>1 DEF External, PeerDials, Established, Refused, PeerSends, PeerCloses,
         PeerResets, Becomes, Held

LEMMA SteadyKernel ==
  ASSUME KernelSteady
  PROVE  \A c \in Conn :
           /\ kernel'[c] \in Held <=> kernel[c] \in Held
           /\ kernel'[c] = "over" <=> kernel[c] = "over"
BY DEF KernelSteady, Held

(* A connection that takes a slot was in none.                              *)
LEMMA NewSocket ==
  ASSUME Table, SocketsInv, NEW c \in Conn, NEW j \in Slot,
         NEW connected \in BOOLEAN, NEW interest, TakeFreeIndex(j),
         Occupy(j, c, connected, interest),
         kernel[c] \notin Held, NEW to \in Held,
         kernel' = [kernel EXCEPT ![c] = to]
  PROVE  /\ SocketsInv'
         /\ \A k \in Slot : ufd[k] # c
<1>1. \A k \in Slot : ufd[k] # c
  BY DEF SocketsInv
<1>2. /\ ufd[j] \in {Closed, Unset} /\ ufd'[j] = c
      /\ \A k \in Slot \ {j} : ufd'[k] = ufd[k]
  BY OccupyStep
<1>3. ufd[j] \notin Conn
  BY <1>2, ConnAssumption
<1>4. \A d \in Conn : kernel'[d] = IF d = c THEN to ELSE kernel[d]
  BY DEF Table, TypeOK
<1>5. \A d \in Conn : kernel'[d] \in Held => \E k \in Slot : ufd'[k] = d
  <2> SUFFICES ASSUME NEW d \in Conn, kernel'[d] \in Held
               PROVE  \E k \in Slot : ufd'[k] = d
    OBVIOUS
  <2>1. CASE d = c
    BY <1>2, <2>1
  <2>2. CASE d # c
    <3>1. PICK k \in Slot : ufd[k] = d
      BY <1>4, <2>2 DEF SocketsInv
    <3>2. QED
      BY <1>2, <1>3, <3>1
  <2>3. QED
    BY <2>1, <2>2
<1>6. \A k, l \in Slot : ufd'[k] \in Conn /\ ufd'[k] = ufd'[l] => k = l
  BY <1>1, <1>2 DEF SocketsInv
<1>7. \A k \in Slot : ufd'[k] \in Conn => kernel'[ufd'[k]] \in Held
  BY <1>1, <1>2, <1>4 DEF SocketsInv
<1>8. QED
  BY <1>1, <1>5, <1>6, <1>7 DEF SocketsInv

LEMMA BranchSockets ==
  ASSUME Table, SocketsInv, NEW i \in Slot, Branch(i)
  PROVE  SocketsInv'
<1>1. CASE Keeps(i) \/ Tells(i)
  <2>1. UNCHANGED ufd /\ KernelSteady
    BY <1>1 DEF Keeps, Tells
  <2>2. QED
    BY <2>1, SteadyKernel, SameSockets
<1>2. CASE Ends(i) \/ GivesUp(i)
  <2>1. ufd'[i] = Closed /\ Over(i) /\ Closed \notin Conn
    BY <1>2, ConnAssumption DEF Ends, GivesUp
  <2>2. \A k \in Slot \ {i} : ufd'[k] = ufd[k]
    BY BranchStep DEF OwnSlotOnly
  <2>3. \A c \in Conn : kernel'[c] \in Held => c # ufd[i] /\ kernel[c] \in Held
    BY <2>1 DEF Over, Held
  <2>4. \A c \in Conn : kernel'[c] \in Held => \E k \in Slot : ufd'[k] = c
    <3> SUFFICES ASSUME NEW c \in Conn, kernel'[c] \in Held
                 PROVE  \E k \in Slot : ufd'[k] = c
      OBVIOUS
    <3>1. PICK k \in Slot : ufd[k] = c
      BY <2>3 DEF SocketsInv
    <3>2. QED
      BY <2>2, <2>3, <3>1
  <2>5. \A k, l \in Slot : ufd'[k] \in Conn /\ ufd'[k] = ufd'[l] => k = l
    BY <2>1, <2>2 DEF SocketsInv
  <2>6. ASSUME NEW k \in Slot, ufd'[k] \in Conn PROVE kernel'[ufd'[k]] \in Held
    <3>1. k # i /\ ufd'[k] = ufd[k]
      BY <2>1, <2>2, <2>6
    <3>2. ufd[k] # ufd[i] /\ kernel[ufd[k]] \in Held
      BY <2>6, <3>1 DEF SocketsInv
    <3>3. QED
      BY <2>1, <2>6, <3>1, <3>2 DEF Over
  <2>7. QED
    BY <2>4, <2>5, <2>6 DEF SocketsInv
<1>3. QED
  BY <1>1, <1>2, BranchWorld

LEMMA NextSockets ==
  ASSUME Table, SocketsInv, [Next]_vars
  PROVE  SocketsInv'
<1>1. CASE UNCHANGED <<ufd, kernel>>
  BY <1>1 DEF SocketsInv
<1>2. ASSUME NEW c \in Conn, External(c) PROVE SocketsInv'
  <2>1. UNCHANGED ufd
    BY <1>2 DEF External, PeerDials, Established, Refused, PeerSends, PeerCloses,
           PeerResets, table
  <2>2. QED
    BY <1>2, <2>1, ExternalKernel, SameSockets DEF Table
<1>3. ASSUME NEW c \in Conn, UNCHANGED ufd, Becomes(c, {"idle", "backlog"}, "over")
      PROVE  SocketsInv'
  BY <1>3, SameSockets DEF Becomes, Table, TypeOK, Held
<1>4. ASSUME NEW i \in Slot, NEW c \in Conn, NEW j \in Slot, Accept(i, c, j)
      PROVE  SocketsInv'
  <2>1. CASE Becomes(c, {"backlog"}, "up") /\ Occupy(j, c, TRUE, {"in"})
    BY <1>4, <2>1, NewSocket DEF Accept, Becomes, Held
  <2>2. CASE Becomes(c, {"backlog"}, "over") /\ UNCHANGED ufd
    BY <1>3, <2>2 DEF Becomes
  <2>3. QED
    BY <1>4, <2>1, <2>2 DEF Accept
<1>5. ASSUME NEW c \in Conn, NEW j \in Slot, Connect(c, j) PROVE SocketsInv'
  BY <1>5, NewSocket DEF Connect, Becomes, Held
<1>6. ASSUME NEW c \in Conn, ConnectGivesUp(c) PROVE SocketsInv'
  BY <1>3, <1>6 DEF ConnectGivesUp, Becomes, table
<1>7. ASSUME NEW i \in Slot, Branch(i) PROVE SocketsInv'
  BY <1>7, BranchSockets
<1>8. ASSUME NEW i \in Slot, NEW j \in Slot, AcceptNothing(i, j) PROVE SocketsInv'
  <2>1. UNCHANGED kernel
    BY <1>8 DEF AcceptNothing, world
  <2>2. /\ ufd[j] \notin Conn /\ ufd'[j] \notin Conn
        /\ \A k \in Slot \ {j} : ufd'[k] = ufd[k]
    <3>1. ufd[j] \in {Closed, Unset}
      BY <1>8, FreeSlot DEF AcceptNothing
    <3>2. QED
      BY <1>8, <3>1, NothingStep, ConnAssumption
  <2>3. QED
    BY <2>1, <2>2 DEF SocketsInv
<1>9. QED
  BY <1>1, <1>2, <1>4, <1>5, <1>6, <1>7, <1>8
  DEF ConnectAborts, SendKilled, Dies, Next, Poll, EndCycle, Handle, Branch, vars,
      table, world

-----------------------------------------------------------------------------
(* Closings.                                                                *)

LEMMA WorldClosing ==
  ASSUME Table, ClosingInv, UNCHANGED <<ufd, cdata, ready, closings>>,
         \A c \in Conn : kernel'[c] = "over" <=> kernel[c] = "over",
         \A c \in ready : kernel'[c] \in {"up", "fin", "reset", "dead", "over"}
  PROVE  ClosingInv'
<1>1. \A c \in Conn :
        closings'[c] = IF c \in ready /\ kernel'[c] = "over" THEN 1 ELSE 0
  BY DEF ClosingInv
<1>2. QED
  BY <1>1 DEF ClosingInv

(* A connection nobody was told of ends without a report.                   *)
LEMMA UntoldClosing ==
  ASSUME Table, ClosingInv, NEW c \in Conn, c \notin ready,
         \A d \in Conn : kernel'[d] = IF d = c THEN "over" ELSE kernel[d],
         UNCHANGED <<ready, closings>>,
         \A i \in Slot : ufd'[i] \in Conn =>
           ufd'[i] = ufd[i] /\ cdata'[i].connected = cdata[i].connected
  PROVE  ClosingInv'
<1>1. ready \subseteq Conn
  BY DEF Table, TypeOK
<1>2. \A d \in Conn :
        closings'[d] = IF d \in ready /\ kernel'[d] = "over" THEN 1 ELSE 0
  BY DEF ClosingInv
<1>3. QED
  BY <1>1, <1>2 DEF ClosingInv

LEMMA OccupyClosing ==
  ASSUME Table, SocketsInv, ClosingInv, NEW c \in Conn, NEW j \in Slot,
         NEW connected \in BOOLEAN, NEW interest, TakeFreeIndex(j),
         Occupy(j, c, connected, interest),
         kernel[c] \in {"idle", "backlog"}, NEW to \in {"connecting", "up"},
         kernel' = [kernel EXCEPT ![c] = to],
         ready' = IF connected THEN ready \union {c} ELSE ready,
         connected => to = "up",
         UNCHANGED closings
  PROVE  ClosingInv'
<1>1. c \notin ready /\ ready \subseteq Conn
  BY DEF ClosingInv, Table, TypeOK
<1>2. \A k \in Slot : ufd[k] # c
  BY DEF SocketsInv, Held
<1>3. /\ ufd'[j] = c /\ cdata'[j] = NewSlotData(c, connected)
      /\ \A k \in Slot \ {j} : ufd'[k] = ufd[k] /\ cdata'[k] = cdata[k]
  BY OccupyStep
<1>4. cdata'[j].connected <=> connected
  BY <1>3 DEF NewSlotData
<1>5. \A d \in Conn : kernel'[d] = IF d = c THEN to ELSE kernel[d]
  BY DEF Table, TypeOK
<1>6. ASSUME NEW k \in Slot, ufd'[k] \in Conn
      PROVE  cdata'[k].connected <=> ufd'[k] \in ready'
  <2>1. CASE k = j
    BY <1>1, <1>3, <1>4, <2>1
  <2>2. CASE k # j
    BY <1>2, <1>3, <1>6, <2>2 DEF ClosingInv
  <2>3. QED
    BY <2>1, <2>2
<1>7. \A d \in ready' : kernel'[d] \in {"up", "fin", "reset", "dead", "over"}
  BY <1>1, <1>5 DEF ClosingInv
<1>8. \A d \in Conn :
        closings'[d] = IF d \in ready' /\ kernel'[d] = "over" THEN 1 ELSE 0
  BY <1>1, <1>5 DEF ClosingInv
<1>9. QED
  BY <1>6, <1>7, <1>8 DEF ClosingInv

LEMMA BranchClosing ==
  ASSUME Table, SocketsInv, ClosingInv, NEW i \in Slot, Branch(i)
  PROVE  ClosingInv'
<1> DEFINE u == ufd[i]
<1>1. /\ ready \subseteq Conn /\ Closed \notin Conn
      /\ u \in Conn \union {Closed}
      /\ \A k \in Slot \ {i} : ufd'[k] = ufd[k] /\ cdata'[k] = cdata[k]
  BY BranchStep, ConnAssumption DEF OwnSlotOnly, Table, TypeOK
<1>2. \A k \in Slot \ {i} : u \in Conn => ufd[k] # u
  BY DEF SocketsInv
<1>3. CASE Keeps(i)
  <2>1. \A c \in Conn : /\ kernel'[c] = "over" <=> kernel[c] = "over"
                        /\ \/ kernel'[c] = kernel[c]
                           \/ kernel'[c] = "dead"
    BY <1>3 DEF Keeps, KernelSteady
  <2>2. \A k \in Slot : ufd[k] \in Conn => cdata'[k].connected = cdata[k].connected
    BY <1>1, <1>3 DEF Keeps
  <2>3. UNCHANGED <<ufd, closings, ready>>
    BY <1>3 DEF Keeps
  <2>4. \A c \in Conn :
          closings'[c] = IF c \in ready' /\ kernel'[c] = "over" THEN 1 ELSE 0
    BY <2>1, <2>3 DEF ClosingInv
  <2>5. QED
    BY <1>1, <2>1, <2>2, <2>3, <2>4 DEF ClosingInv
<1>4. CASE Tells(i)
  <2>1. /\ u \in Conn /\ kernel[u] \in {"up", "fin"}
        /\ UNCHANGED <<ufd, closings>> /\ ready' = ready \union {u}
        /\ cdata'[i].connected /\ KernelSteady
    BY <1>4 DEF Tells
  <2>2. \A c \in Conn : /\ kernel'[c] = "over" <=> kernel[c] = "over"
                        /\ \/ kernel'[c] = kernel[c]
                           \/ kernel'[c] = "dead"
    BY <2>1 DEF KernelSteady
  <2>3. \A c \in ready' : kernel'[c] \in {"up", "fin", "reset", "dead", "over"}
    BY <1>1, <2>1, <2>2 DEF ClosingInv
  <2>4. \A k \in Slot : ufd'[k] \in Conn => (cdata'[k].connected <=> ufd'[k] \in ready')
    BY <1>1, <1>2, <2>1 DEF ClosingInv
  <2>5. \A c \in Conn :
          closings'[c] = IF c \in ready' /\ kernel'[c] = "over" THEN 1 ELSE 0
    BY <2>1, <2>2 DEF ClosingInv
  <2>6. QED
    BY <2>3, <2>4, <2>5 DEF ClosingInv
<1>5. CASE Ends(i)
  <2>1. /\ u \in Conn /\ u \in ready /\ ufd'[i] = Closed /\ ready' = ready
        /\ \A c \in Conn : kernel'[c] = IF c = u THEN "over" ELSE kernel[c]
        /\ \A c \in Conn : closings'[c] = closings[c] + (IF c = u THEN 1 ELSE 0)
    BY <1>5 DEF Ends, Over, ClosingInv
  <2>2. kernel[u] # "over"
    BY <2>1 DEF SocketsInv, Held
  <2>3. ASSUME NEW c \in Conn
        PROVE  closings'[c] = IF c \in ready /\ kernel'[c] = "over" THEN 1 ELSE 0
    <3>1. CASE c = u
      <4>1. closings[c] = 0
        BY <2>2, <3>1 DEF ClosingInv
      <4>2. QED
        BY <2>1, <3>1, <4>1
    <3>2. CASE c # u
      <4>1. closings[c] \in Nat
        BY DEF Table, TypeOK
      <4>2. closings'[c] = closings[c] /\ kernel'[c] = kernel[c]
        BY <2>1, <3>2, <4>1
      <4>3. QED
        BY <4>2 DEF ClosingInv
    <3>3. QED
      BY <3>1, <3>2
  <2>4. \A c \in ready : kernel'[c] \in {"up", "fin", "reset", "dead", "over"}
    BY <1>1, <2>1 DEF ClosingInv
  <2>5. \A k \in Slot : ufd'[k] \in Conn => (cdata'[k].connected <=> ufd'[k] \in ready)
    BY <1>1, <2>1 DEF ClosingInv
  <2>6. QED
    BY <2>1, <2>3, <2>4, <2>5 DEF ClosingInv
<1>6. CASE GivesUp(i)
  <2>1. /\ ~cdata[i].connected /\ ufd'[i] = Closed
        /\ \A c \in Conn : kernel'[c] = IF c = u THEN "over" ELSE kernel[c]
        /\ UNCHANGED <<closings, ready>>
    BY <1>6 DEF GivesUp, Over
  <2>2. \A k \in Slot : ufd'[k] \in Conn =>
          ufd'[k] = ufd[k] /\ cdata'[k].connected = cdata[k].connected
    BY <1>1, <2>1
  <2>3. CASE u \in Conn
    <3>1. u \notin ready
      BY <2>1, <2>3 DEF ClosingInv
    <3>2. QED
      BY <2>1, <2>2, <2>3, <3>1, UntoldClosing
  <2>4. CASE u \notin Conn
    <3>1. \A c \in Conn : kernel'[c] = kernel[c]
      BY <2>1, <2>4
    <3>2. \A c \in Conn :
            closings'[c] = IF c \in ready /\ kernel'[c] = "over" THEN 1 ELSE 0
      BY <2>1, <3>1 DEF ClosingInv
    <3>3. QED
      BY <1>1, <2>1, <2>2, <3>1, <3>2 DEF ClosingInv
  <2>5. QED
    BY <2>3, <2>4
<1>7. QED
  BY <1>3, <1>4, <1>5, <1>6, BranchWorld

LEMMA NextClosing ==
  ASSUME Table, SocketsInv, ClosingInv, [Next]_vars
  PROVE  ClosingInv'
<1> ready \subseteq Conn /\ kernel \in [Conn -> KernelState]
  BY DEF Table, TypeOK
<1>1. CASE UNCHANGED <<ufd, cdata, kernel, ready, closings>>
  BY <1>1 DEF ClosingInv
<1>2. ASSUME NEW c \in Conn, External(c) PROVE ClosingInv'
  <2>1. UNCHANGED <<ufd, cdata, ready, closings>>
    BY <1>2 DEF External, PeerDials, Established, Refused, PeerSends, PeerCloses,
           PeerResets, table, history
  <2>2. \A d \in Conn : kernel'[d] = "over" <=> kernel[d] = "over"
    BY <1>2, ExternalKernel DEF Table
  <2>3. \A d \in ready : kernel'[d] \in {"up", "fin", "reset", "dead", "over"}
    <3>1. ASSUME NEW d \in ready
          PROVE  kernel'[d] \in {"up", "fin", "reset", "dead", "over"}
      <4>1. kernel[d] \in {"up", "fin", "reset", "dead", "over"}
        BY DEF ClosingInv
      <4>2. QED
        BY <1>2, <4>1, ExternalKernel DEF Table
    <3>2. QED
      BY <3>1
  <2>4. QED
    BY <2>1, <2>2, <2>3, WorldClosing
<1>3. ASSUME NEW c \in Conn, UNCHANGED <<ufd, cdata, ready, closings>>,
             Becomes(c, {"idle", "backlog"}, "over")
      PROVE  ClosingInv'
  <2>1. c \notin ready
    BY <1>3 DEF Becomes, ClosingInv
  <2>2. \A d \in Conn : kernel'[d] = IF d = c THEN "over" ELSE kernel[d]
    BY <1>3 DEF Becomes
  <2>3. QED
    BY <1>3, <2>1, <2>2, UntoldClosing
<1>4. ASSUME NEW i \in Slot, NEW c \in Conn, NEW j \in Slot, Accept(i, c, j)
      PROVE  ClosingInv'
  <2>1. CASE /\ Becomes(c, {"backlog"}, "up") /\ Occupy(j, c, TRUE, {"in"})
             /\ ready' = ready \union {c}
    BY <1>4, <2>1, OccupyClosing DEF Accept, Becomes
  <2>2. CASE Becomes(c, {"backlog"}, "over") /\ UNCHANGED <<ufd, cdata, ready>>
    BY <1>3, <1>4, <2>2 DEF Accept, Becomes
  <2>3. QED
    BY <1>4, <2>1, <2>2 DEF Accept
<1>5. ASSUME NEW c \in Conn, NEW j \in Slot, Connect(c, j) PROVE ClosingInv'
  BY <1>5, OccupyClosing DEF Connect, Becomes, history
<1>6. ASSUME NEW c \in Conn, ConnectGivesUp(c) PROVE ClosingInv'
  BY <1>3, <1>6 DEF ConnectGivesUp, Becomes, table, history
<1>7. ASSUME NEW i \in Slot, Branch(i) PROVE ClosingInv'
  BY <1>7, BranchClosing
<1>8. ASSUME NEW i \in Slot, NEW j \in Slot, AcceptNothing(i, j) PROVE ClosingInv'
  <2>1. UNCHANGED <<kernel, ready, closings>>
    BY <1>8 DEF AcceptNothing, world, history
  <2>2. \A k \in Slot : ufd'[k] \in Conn => ufd'[k] = ufd[k] /\ cdata'[k] = cdata[k]
    BY <1>8, NothingStep, ConnAssumption
  <2>3. QED
    BY <2>1, <2>2 DEF ClosingInv
<1>9. QED
  BY <1>1, <1>2, <1>4, <1>5, <1>6, <1>7, <1>8
  DEF ConnectAborts, SendKilled, Dies, Next, Poll, EndCycle, Handle, Branch, vars,
      table, world, history

-----------------------------------------------------------------------------
(* Who is told too late.  What is over stays over, and its handlers are not *)
(* told of it as of a channel.                                              *)

OverStays ==
  \A c \in Conn : kernel[c] = "over" =>
    kernel'[c] = "over" /\ (c \in ready' => c \in ready)

LEMMA LateStays ==
  ASSUME LateInv, OverStays, UNCHANGED late, Outbound \subseteq Conn,
         \A k \in Slot :
           \/ ufd'[k] \in Conn /\ (cdata'[k].connected \/ ufd'[k] \in Outbound)
           \/ ufd'[k] \notin Conn /\ revents'[k] = {}
           \/ ufd'[k] = ufd[k] /\ cdata'[k] = cdata[k] /\ revents'[k] \subseteq revents[k]
           \/ ufd'[k] = Closed /\ cdata'[k].connected
  PROVE  LateInv'
<1>1. \A c \in late' : c \in Outbound \ ready' /\ kernel'[c] = "over"
  BY DEF LateInv, OverStays
<1>2. Closed \notin Conn
  BY ConnAssumption
<1>3. ASSUME NEW k \in Slot, ufd'[k] \in Conn, ~cdata'[k].connected
      PROVE  ufd'[k] \in Outbound
  BY <1>2, <1>3 DEF LateInv
<1>4. ASSUME NEW k \in Slot, revents'[k] # {}, ufd'[k] = Closed, ~cdata'[k].connected
      PROVE  cdata'[k].owner \in Outbound \ ready' /\ kernel'[cdata'[k].owner] = "over"
  <2>1. cdata'[k] = cdata[k] /\ ufd[k] = Closed /\ revents[k] # {}
    BY <1>2, <1>4
  <2>2. cdata[k].owner \in Outbound \ ready /\ kernel[cdata[k].owner] = "over"
    BY <1>4, <2>1 DEF LateInv
  <2>3. QED
    BY <2>1, <2>2 DEF OverStays
<1>5. QED
  BY <1>1, <1>3, <1>4 DEF LateInv

(* The branches, by what they do: NewPhantom is the only one that adds to   *)
(* late, and a connection attempt that fails in the POLLIN branch leaves    *)
(* its slot to it.                                                          *)
LEMMA BranchLate ==
  ASSUME Table, SocketsInv, ClosingInv, LateInv, NEW i \in Slot, Branch(i)
  PROVE  LateInv'
<1> TypeOK
  BY DEF Table
<1>1. /\ OwnSlotOnly(i) /\ ufd[i] \in Conn \union {Closed}
      /\ Closed \notin Conn /\ Outbound \subseteq Conn
  BY BranchStep, ConnAssumption
<1>2. PICK e \in Event : Turn(i, e)
  BY BranchStep
<1>3. /\ \A k \in Slot : revents'[k] \subseteq revents[k]
      /\ revents'[i] = revents[i] \ {e} /\ e \in revents[i]
  BY <1>2 DEF Turn, NextTurn, TypeOK
<1>4. \A k \in Slot \ {i} : ufd'[k] = ufd[k] /\ cdata'[k] = cdata[k]
  BY <1>1 DEF OwnSlotOnly
<1>5. OverStays
  <2>1. CASE Keeps(i)
    BY <2>1 DEF Keeps, KernelSteady, OverStays
  <2>2. CASE Tells(i)
    BY <2>2 DEF Tells, KernelSteady, OverStays
  <2>3. CASE Ends(i) \/ GivesUp(i)
    BY <2>3 DEF Ends, GivesUp, Over, OverStays
  <2>4. QED
    BY <2>1, <2>2, <2>3, BranchWorld
<1>6. CASE UNCHANGED late /\ cdata'[i].connected
  <2>1. ufd'[i] \in Conn \union {Closed}
    BY <1>1 DEF OwnSlotOnly
  <2>2. QED
    BY <1>1, <1>3, <1>4, <1>5, <1>6, <2>1, LateStays
<1>7. CASE ConnectedPollin(i)
  BY <1>6, <1>7, PollinOwnSlot DEF ConnectedPollin
<1>8. CASE ConnectedPollout(i)
  BY <1>6, <1>8, PolloutOwnSlot DEF ConnectedPollout
<1>9. ASSUME NEW f \in Event, UnconnectedPollinout(i, f) PROVE LateInv'
  <2>1. ~cdata[i].connected
    BY <1>9 DEF UnconnectedPollinout
  <2>2. CASE ufd[i] # Closed /\ NewOutConn(i, ufd[i])
    <3>1. UNCHANGED late /\ UNCHANGED ufd
      BY <2>2 DEF NewOutConn
    <3>2. ufd'[i] \in Conn
      BY <1>1, <2>2, <3>1
    <3>3. QED
      BY <1>6, <1>9, <3>1, <3>2, PollinoutOwnSlot
  <2>3. CASE ConnectFailed(i)
    <3>1. /\ ufd'[i] = Closed /\ UNCHANGED <<cdata, ready, late>>
          /\ \A c \in Conn : kernel'[c] = IF c = ufd[i] THEN "over" ELSE kernel[c]
      BY <2>3 DEF ConnectFailed, TypeOK
    <3>2. ASSUME revents'[i] # {}
          PROVE  cdata[i].owner \in Outbound \ ready /\ kernel'[cdata[i].owner] = "over"
      <4>1. CASE ufd[i] \in Conn
        <5>1. cdata[i].owner = ufd[i] /\ ufd[i] \in Outbound /\ ufd[i] \notin ready
          BY <2>1, <4>1 DEF Table, SlotsInv, LateInv, ClosingInv
        <5>2. QED
          BY <3>1, <4>1, <5>1
      <4>2. CASE ufd[i] = Closed
        <5>1. revents[i] # {}
          BY <1>3
        <5>2. cdata[i].owner \in Outbound \ ready /\ kernel[cdata[i].owner] = "over"
          BY <2>1, <4>2, <5>1 DEF LateInv
        <5>3. QED
          BY <1>5, <5>2, <1>1 DEF OverStays
      <4>3. QED
        BY <1>1, <4>1, <4>2
    <3>3. \A c \in late' : c \in Outbound \ ready' /\ kernel'[c] = "over"
      BY <1>1, <1>5, <3>1 DEF LateInv, OverStays
    <3>4. ASSUME NEW k \in Slot, ufd'[k] \in Conn, ~cdata'[k].connected
          PROVE  ufd'[k] \in Outbound
      BY <1>1, <1>4, <3>1, <3>4 DEF LateInv
    <3>5. ASSUME NEW k \in Slot, revents'[k] # {}, ufd'[k] = Closed, ~cdata'[k].connected
          PROVE  cdata'[k].owner \in Outbound \ ready' /\ kernel'[cdata'[k].owner] = "over"
      <4>1. CASE k = i
        BY <3>1, <3>2, <3>5, <4>1
      <4>2. CASE k # i
        <5>1. ufd[k] = Closed /\ cdata'[k] = cdata[k] /\ revents[k] # {}
          BY <1>3, <1>4, <3>5, <4>2
        <5>2. cdata[k].owner \in Outbound \ ready /\ kernel[cdata[k].owner] = "over"
          BY <3>5, <5>1 DEF LateInv
        <5>3. QED
          BY <1>1, <1>5, <5>1, <5>2 DEF OverStays
      <4>3. QED
        BY <4>1, <4>2
    <3>6. QED
      BY <3>3, <3>4, <3>5 DEF LateInv
  <2>4. CASE ufd[i] = Closed /\ NewPhantom(i)
    <3> DEFINE o == cdata[i].owner
    <3>1. UNCHANGED <<ufd, ready>> /\ late' = late \union {o}
      BY <2>4 DEF NewPhantom
    <3>2. o \in Outbound \ ready /\ kernel[o] = "over"
      BY <1>3, <2>1, <2>4 DEF LateInv
    <3>3. kernel'[o] = "over"
      BY <1>1, <1>5, <3>2 DEF OverStays
    <3>4. cdata'[i].connected
      BY <1>1, <2>4, WriteDataOwnSlot, <3>1 DEF NewPhantom
    <3> HIDE DEF o
    <3>5. \A c \in late' : c \in Outbound \ ready' /\ kernel'[c] = "over"
      BY <1>1, <1>5, <3>1, <3>2, <3>3 DEF LateInv, OverStays
    <3>6. ASSUME NEW k \in Slot, ufd'[k] \in Conn, ~cdata'[k].connected
          PROVE  ufd'[k] \in Outbound
      BY <1>4, <3>1, <3>4, <3>6 DEF LateInv
    <3>7. ASSUME NEW k \in Slot, revents'[k] # {}, ufd'[k] = Closed, ~cdata'[k].connected
          PROVE  cdata'[k].owner \in Outbound \ ready' /\ kernel'[cdata'[k].owner] = "over"
      <4>1. k # i
        BY <3>4, <3>7
      <4>2. ufd[k] = Closed /\ cdata'[k] = cdata[k] /\ revents[k] # {}
        BY <1>3, <1>4, <3>7, <4>1
      <4>3. cdata[k].owner \in Outbound \ ready /\ kernel[cdata[k].owner] = "over"
        BY <3>7, <4>2 DEF LateInv
      <4>4. QED
        BY <1>1, <1>5, <4>2, <4>3 DEF OverStays
    <3>8. QED
      BY <3>5, <3>6, <3>7 DEF LateInv
  <2>5. QED
    BY <1>9, <2>2, <2>3, <2>4 DEF UnconnectedPollinout
<1>10. QED
  BY <1>7, <1>8, <1>9 DEF Branch

LEMMA NextLate ==
  ASSUME Table, SocketsInv, ClosingInv, LateInv, [Next]_vars
  PROVE  LateInv'
<1> TypeOK
  BY DEF Table
<1>1. Outbound \subseteq Conn /\ Closed \notin Conn
  BY ConnAssumption
<1>2. ASSUME UNCHANGED <<ufd, cdata, ready, late>>, OverStays,
             \A k \in Slot : revents'[k] \subseteq revents[k]
      PROVE  LateInv'
  BY <1>1, <1>2, LateStays
<1>3. ASSUME UNCHANGED kernel, UNCHANGED ready PROVE OverStays
  BY <1>3 DEF OverStays
<1>4. ASSUME NEW c \in Conn, External(c) PROVE LateInv'
  <2>1. UNCHANGED <<ufd, cdata, revents, ready, late>>
    BY <1>4 DEF External, PeerDials, Established, Refused, PeerSends, PeerCloses,
           PeerResets, table, cycle, history
  <2>2. OverStays
    BY <1>4, <2>1, ExternalKernel DEF OverStays
  <2>3. QED
    BY <1>2, <2>1, <2>2
<1>5. CASE Poll
  <2>1. UNCHANGED <<ufd, cdata, ready, late, kernel>>
    BY <1>5 DEF Poll, table, world, history
  <2>2. \A k \in Slot : ufd[k] \notin Conn => revents'[k] = {} \/ ufd[k] = Listener
    BY <1>5 DEF Poll, Readable, Writable, Event
  <2>3. Listener # Closed
    BY ConnAssumption
  <2>4. QED
    BY <1>1, <2>1, <2>2, <2>3 DEF LateInv
<1>6. CASE EndCycle
  BY <1>2, <1>3, <1>6 DEF EndCycle, world, history
<1>7. ASSUME NEW c \in Conn, NEW j \in Slot, NEW connected \in BOOLEAN,
             NEW interest, TakeFreeIndex(j), Occupy(j, c, connected, interest),
             connected \/ c \in Outbound, OverStays, UNCHANGED late,
             \A k \in Slot : revents'[k] \subseteq revents[k]
      PROVE  LateInv'
  <2>1. cdata'[j].connected = connected
    <3>1. cdata'[j] = NewSlotData(c, connected)
      BY <1>7, OccupyStep
    <3>2. QED
      BY <3>1 DEF NewSlotData
  <2>2. ufd'[j] = c /\ \A k \in Slot \ {j} : ufd'[k] = ufd[k] /\ cdata'[k] = cdata[k]
    BY <1>7, OccupyStep
  <2>3. QED
    BY <1>1, <1>7, <2>1, <2>2, LateStays
<1>8. ASSUME NEW i \in Slot, NEW c \in Conn, NEW j \in Slot, Accept(i, c, j)
      PROVE  LateInv'
  <2>1. UNCHANGED late /\ TakeFreeIndex(j) /\ \A k \in Slot : revents'[k] \subseteq revents[k]
    BY <1>8 DEF Accept, Turn, TypeOK
  <2>2. OverStays
    BY <1>8 DEF Accept, Becomes, OverStays, TypeOK
  <2>3. QED
    BY <1>2, <1>7, <1>8, <2>1, <2>2 DEF Accept
<1>9. ASSUME NEW c \in Conn, NEW j \in Slot, Connect(c, j) PROVE LateInv'
  <2>1. UNCHANGED <<late, ready, revents>>
    BY <1>9 DEF Connect, cycle, history
  <2>2. OverStays
    BY <1>9, <2>1 DEF Connect, Becomes, OverStays, TypeOK
  <2>3. QED
    BY <1>7, <1>9, <2>1, <2>2 DEF Connect
<1>10. ASSUME NEW c \in Conn, ConnectGivesUp(c) PROVE LateInv'
  <2>1. UNCHANGED <<ufd, cdata, late, ready, revents>>
    BY <1>10 DEF ConnectGivesUp, table, cycle, history
  <2>2. OverStays
    BY <1>10, <2>1 DEF ConnectGivesUp, Becomes, OverStays, TypeOK
  <2>3. QED
    BY <1>2, <2>1, <2>2
<1>11. ASSUME NEW i \in Slot, NEW j \in Slot, AcceptNothing(i, j) PROVE LateInv'
  <2>1. UNCHANGED <<late, ready, kernel>> /\ OverStays
    BY <1>3, <1>11 DEF AcceptNothing, world, history
  <2>2. /\ ufd'[j] \notin Conn /\ revents'[j] = {}
        /\ \A k \in Slot \ {j} : ufd'[k] = ufd[k] /\ cdata'[k] = cdata[k]
        /\ \A k \in Slot : revents'[k] \subseteq revents[k]
    BY <1>11, NothingStep, ConnAssumption
  <2>3. QED
    BY <1>1, <2>1, <2>2, LateStays
<1>12. ASSUME Dies \/ UNCHANGED vars PROVE LateInv'
  BY <1>2, <1>3, <1>12 DEF Dies, vars, table, cycle, world, history
<1>13. ASSUME NEW i \in Slot, Branch(i) PROVE LateInv'
  BY <1>13, BranchLate
<1>14. QED
  BY <1>4, <1>5, <1>6, <1>8, <1>9, <1>10, <1>11, <1>12, <1>13
  DEF Next, ConnectAborts, SendKilled, Handle, Branch

-----------------------------------------------------------------------------
(* The inductive invariant, and what it implies.                            *)

LEMMA InitInv == Init => IInv
<1> SUFFICES ASSUME Init PROVE IInv
  OBVIOUS
<1>1. Table /\ EventsBelongToTheirSocket
  BY InitTable
<1>2. \A i \in Slot : ufd[i] \notin Conn
  BY ConnAssumption DEF Init
<1>3. SocketsInv
  BY <1>2 DEF Init, SocketsInv, Held
<1>4. QueuedMeansInterested /\ ClosingInv /\ LateInv
  BY <1>2 DEF Init, QueuedMeansInterested, ClosingInv, LateInv
<1>5. QED
  BY <1>1, <1>3, <1>4 DEF IInv

LEMMA Invariant == Spec => []IInv
<1>1. IInv /\ [Next]_vars => IInv'
  BY NextType, NextSlots, NextPending, NextQueued, NextSockets, NextClosing, NextLate
  DEF IInv, Table
<1>2. QED
  BY InitInv, <1>1, PTL DEF Spec

(* Every variable keeps its type, and the table above nfds stays unused.    *)
THEOREM TypeCorrect == Spec => []TypeOK
BY Invariant, PTL DEF IInv, Table

(* An event poll() reported for one socket is never handled for another     *)
(* that has taken its slot, however many slots and connections there are.   *)
THEOREM EventsKeepTheirSocket == Spec => []EventsBelongToTheirSocket
BY Invariant, PTL DEF IInv

(* What is queued on an open socket is never left without POLLOUT.          *)
THEOREM QueuesAreWatched == Spec => []QueuedMeansInterested
BY Invariant, PTL DEF IInv

(* Every connection the kernel holds open has one slot of the table to      *)
(* itself, which poll() looks at, with its own cdata.                       *)
THEOREM ConnectionsKeepTheirSlot == Spec => []OpenConnectionsHaveASlot
<1>1. IInv => OpenConnectionsHaveASlot
  <2> SUFFICES ASSUME IInv PROVE OpenConnectionsHaveASlot
    OBVIOUS
  <2> Table /\ TypeOK /\ SlotsInv /\ SocketsInv
    BY DEF IInv, Table
  <2>1. ASSUME NEW c \in Conn, kernel[c] \in Held
        PROVE  \E i \in 0 .. nfds - 1 : ufd[i] = c /\ cdata[i].owner = c
    <3>1. PICK i \in Slot : ufd[i] = c
      BY <2>1 DEF SocketsInv
    <3>2. c # Unset
      BY ConnAssumption
    <3>3. i \in 0 .. nfds - 1
      BY <3>1, <3>2, BoundsAssumption DEF TypeOK, Slot
    <3>4. QED
      BY <3>1, <3>3 DEF SlotsInv
  <2>2. QED
    BY <2>1, Zenon DEF SocketsInv, OpenConnectionsHaveASlot
<1>2. QED
  BY Invariant, <1>1, PTL

(* ev_closed runs exactly once for every connection the handlers were told  *)
(* of while it was there, and only when it is over.  Those told of it by    *)
(* the POLLOUT branch of a slot its POLLIN branch has closed are the        *)
(* client's, and are all told of a connection that is over, whose end they  *)
(* never hear of.                                                           *)
THEOREM ClosingsAreSingle == Spec => []ClosedOnce
<1>1. IInv => ClosedOnce
  BY ConnAssumption DEF IInv, Table, TypeOK, ClosingInv, LateInv, ClosedOnce
<1>2. QED
  BY Invariant, <1>1, PTL

-----------------------------------------------------------------------------
(* The streams.  What was handed over for a connection is cut into pieces   *)
(* that go on from one another: what the kernel took, and the queue.        *)

(* Where the first end that was asked for stands in the queue.              *)
Ending(q, ends, e) ==
  /\ e = 0 => \A k \in 1 .. Len(q) : q[k] # <<>>
  /\ e # 0 => \E k \in 1 .. Len(q) :
                q[k] = <<>> /\ ends[k] = e /\ \A j \in 1 .. k - 1 : q[j] # <<>>

(* Of a connection that was handed a bytes and e before its end: its queue  *)
(* q, of whose first buffer w bytes were written, goes on from o.           *)
InTransit(q, w, o, a, e, lossy, ends) ==
  /\ ends \in [0 .. Len(q) -> 0 .. a]
  /\ o = Piece(0, Len(o))
  /\ w >= 0 /\ (w # 0 => q # <<>> /\ w < Len(Head(q)))
  /\ ends[0] = Len(o) - w
  /\ InOrder(q, ends)
  /\ ends[Len(q)] = a \/ (lossy /\ Contains(q, <<>>))
  /\ ~lossy => Ending(q, ends, e)

Carries(q, w, o, a, e, lossy) == \E ends : InTransit(q, w, o, a, e, lossy, ends)

LEMMA PieceFacts ==
  ASSUME NEW from \in Nat, NEW to \in Nat, from <= to
  PROVE  /\ Piece(from, to) \in Buffer /\ Len(Piece(from, to)) = to - from
         /\ \A b \in 1 .. to - from : Piece(from, to)[b] = from + b
         /\ Piece(from, to) = <<>> <=> from = to
<1> DEFINE p == Piece(from, to)
<1>1. p \in Seq(Nat) /\ Len(p) = to - from /\ \A b \in 1 .. to - from : p[b] = from + b
  BY DEF Piece
<1> HIDE DEF p
<1>2. p = <<>> <=> Len(p) = 0
  BY <1>1, EmptySeq
<1> QED BY <1>1, <1>2 DEF p, Buffer

LEMMA Pieces ==
  ASSUME NEW o \in Buffer, NEW from \in Nat,
         \A b \in 1 .. Len(o) : o[b] = from + b
  PROVE  o = Piece(from, from + Len(o))
<1> DEFINE p == Piece(from, from + Len(o))
           l == Len(o)
<1>1. l \in Nat
  BY DEF Buffer
<1>2. p \in Buffer /\ Len(p) = (from + l) - from /\ \A b \in 1 .. (from + l) - from : p[b] = from + b
  <2>1. from + l \in Nat /\ from <= from + l
    BY <1>1
  <2> QED BY <2>1, PieceFacts
<1>3. Len(p) = l /\ \A b \in 1 .. l : p[b] = from + b
  BY <1>1, <1>2
<1> HIDE DEF p
<1>4. o = p
  BY <1>1, <1>2, <1>3, SeqEqual DEF Buffer, l
<1> QED BY <1>4 DEF p

LEMMA SubPiece ==
  ASSUME NEW from \in Nat, NEW lo \in Nat, NEW hi \in Nat, NEW to \in Nat,
         from <= lo, lo <= hi, hi <= to
  PROVE  SubSeq(Piece(from, to), (lo - from) + 1, hi - from) = Piece(lo, hi)
<1> DEFINE p == Piece(from, to)
           i == (lo - from) + 1
           j == hi - from
           s == SubSeq(p, i, j)
           d == hi - lo
<1>1. \A b \in 1 .. to - from : p[b] = from + b
  BY PieceFacts
<1>2. /\ d \in Nat /\ i \in Nat /\ j \in Nat /\ j - i + 1 = d /\ (i <= j <=> d # 0)
      /\ \A b \in i .. j : b \in 1 .. to - from
      /\ \A b \in 1 .. d : (i + b) - 1 \in 1 .. to - from /\ from + ((i + b) - 1) = lo + b
  OBVIOUS
<1> HIDE DEF p, i, j, d
<1>3. s \in Seq(Nat) /\ Len(s) = d /\ \A b \in 1 .. d : s[b] = p[(i + b) - 1]
  <2>1. \A b \in i .. j : p[b] \in Nat
    BY <1>1, <1>2
  <2>2. /\ s \in Seq(Nat)
        /\ Len(s) = IF i <= j THEN j - i + 1 ELSE 0
        /\ \A b \in 1 .. j - i + 1 : s[b] = p[i + b - 1]
    BY <1>2, <2>1, SubSeqProperties
  <2> HIDE DEF s
  <2>3. \A b \in 1 .. d : i + b - 1 = (i + b) - 1
    BY <1>2
  <2> QED BY <1>2, <2>2, <2>3
<1> HIDE DEF s
<1>4. \A b \in 1 .. Len(s) : s[b] = lo + b
  BY <1>1, <1>2, <1>3
<1>5. s = Piece(lo, lo + Len(s))
  BY <1>3, <1>4, Pieces DEF Buffer
<1>6. lo + d = hi
  BY DEF d
<1> QED BY <1>3, <1>5, <1>6 DEF s, p, i, j

LEMMA FrontPiece ==
  ASSUME NEW from \in Nat, NEW hi \in Nat, NEW to \in Nat, from <= hi, hi <= to
  PROVE  SubSeq(Piece(from, to), 1, hi - from) = Piece(from, hi)
BY SubPiece

LEMMA BackPiece ==
  ASSUME NEW from \in Nat, NEW lo \in Nat, NEW to \in Nat, from <= lo, lo <= to
  PROVE  SubSeq(Piece(from, to), (lo - from) + 1, to - from) = Piece(lo, to)
BY SubPiece

LEMMA JoinPieces ==
  ASSUME NEW from \in Nat, NEW mid \in Nat, NEW to \in Nat, from <= mid, mid <= to
  PROVE  Piece(from, mid) \o Piece(mid, to) = Piece(from, to)
<1> DEFINE p == Piece(from, mid)
           r == Piece(mid, to)
           k == mid - from
           l == to - mid
<1>1. /\ p \in Seq(Nat) /\ Len(p) = k /\ \A b \in 1 .. k : p[b] = from + b
      /\ r \in Seq(Nat) /\ Len(r) = l /\ \A b \in 1 .. l : r[b] = mid + b
  BY PieceFacts DEF Buffer
<1>2. k \in Nat /\ l \in Nat /\ from + (k + l) = to /\ mid = from + k
  OBVIOUS
<1> HIDE DEF p, r, k, l
<1>3. /\ p \o r \in Seq(Nat) /\ Len(p \o r) = k + l
      /\ \A b \in 1 .. k + l : (p \o r)[b] = IF b <= k THEN p[b] ELSE r[b - k]
  BY <1>1, ConcatProperties
<1>4. \A b \in 1 .. k + l : (p \o r)[b] = from + b
  <2> SUFFICES ASSUME NEW b \in 1 .. k + l PROVE (p \o r)[b] = from + b
    OBVIOUS
  <2>1. CASE b <= k
    BY <1>1, <1>2, <1>3, <2>1
  <2>2. CASE ~(b <= k)
    <3>1. b - k \in 1 .. l /\ mid + (b - k) = from + b
      BY <1>2, <2>2
    <3> QED BY <1>1, <1>3, <2>2, <3>1
  <2> QED BY <2>1, <2>2
<1>5. p \o r = Piece(from, from + Len(p \o r))
  BY <1>3, <1>4, Pieces DEF Buffer
<1> QED BY <1>2, <1>3, <1>5 DEF p, r

(* An answer and the end behind it are queued.                              *)
LEMMA AnswerQueued ==
  ASSUME NEW q \in Seq(Buffer), NEW w, NEW o, NEW a \in Nat, NEW e \in Nat,
         Carries(q, w, o, a, e, FALSE), NEW n \in Nat, n # 0
  PROVE  Carries(q \o <<Piece(a, a + n), <<>>>>, w, o, a + n,
                 IF e = 0 THEN a + n ELSE e, FALSE)
<1> DEFINE x == Piece(a, a + n)
           y == Piece(a + n, a + n)
           two == <<x, y>>
           l == Len(q)
           q2 == q \o two
<1>1. PICK ends : InTransit(q, w, o, a, e, FALSE, ends)
  BY DEF Carries
<1> DEFINE ends2 == [k \in 0 .. l + 2 |-> IF k <= l THEN ends[k] ELSE a + n]
<1>2. l \in Nat /\ \A k \in 0 .. l : ends[k] \in 0 .. a
  BY <1>1 DEF InTransit
<1>3. x \in Buffer /\ y \in Buffer /\ x # <<>> /\ y = <<>>
  <2>1. a + n \in Nat /\ a <= a + n /\ a # a + n /\ a + n <= a + n
    OBVIOUS
  <2>2. x \in Buffer /\ x # <<>>
    BY <2>1, PieceFacts
  <2>3. y \in Buffer /\ y = <<>>
    BY <2>1, PieceFacts
  <2> QED BY <2>2, <2>3
<1>4. two \in Seq(Buffer) /\ Len(two) = 2 /\ two[1] = x /\ two[2] = y
  <2> HIDE DEF x, y
  <2> QED BY <1>3
<1> HIDE DEF two, l
<1>5. /\ q2 \in Seq(Buffer) /\ Len(q2) = l + 2
      /\ \A k \in 1 .. l : q2[k] = q[k]
      /\ q2[l + 1] = x /\ q2[l + 2] = y
  <2>1. /\ q2 \in Seq(Buffer) /\ Len(q2) = Len(q) + Len(two)
        /\ \A k \in 1 .. Len(q) + Len(two) :
             q2[k] = IF k <= Len(q) THEN q[k] ELSE two[k - Len(q)]
    BY <1>4, ConcatProperties
  <2>2. /\ q2 \in Seq(Buffer) /\ Len(q2) = l + 2
        /\ \A k \in 1 .. l + 2 : q2[k] = IF k <= l THEN q[k] ELSE two[k - l]
    BY <1>4, <2>1 DEF l
  <2> HIDE DEF q2
  <2>3. \A k \in 1 .. l : k \in 1 .. l + 2 /\ k <= l
    BY <1>2
  <2>4. /\ l + 1 \in 1 .. l + 2 /\ ~(l + 1 <= l) /\ (l + 1) - l = 1
        /\ l + 2 \in 1 .. l + 2 /\ ~(l + 2 <= l) /\ (l + 2) - l = 2
    BY <1>2
  <2>5. q2[l + 1] = two[(l + 1) - l] /\ q2[l + 2] = two[(l + 2) - l]
    <3>1. \A k \in 1 .. l + 2 : ~(k <= l) => q2[k] = two[k - l]
      BY <2>2
    <3> QED BY <2>4, <3>1
  <2> QED BY <1>4, <2>2, <2>3, <2>4, <2>5
<1> HIDE DEF q2, x, y
<1>6. /\ ends2 \in [0 .. l + 2 -> 0 .. a + n]
      /\ \A k \in 0 .. l : ends2[k] = ends[k]
      /\ ends2[l + 1] = a + n /\ ends2[l + 2] = a + n
  BY <1>2
<1> HIDE DEF ends2
<1>7. ends[0] = Len(o) - w /\ ends[l] = a /\ InOrder(q, ends) /\ Ending(q, ends, e)
      /\ o = Piece(0, Len(o)) /\ w >= 0 /\ (w # 0 => q # <<>> /\ w < Len(Head(q)))
  BY <1>1 DEF InTransit, l
<1>8. InOrder(q2, ends2)
  <2>1. ASSUME NEW k \in 1 .. l + 2
        PROVE  ends2[k - 1] <= ends2[k] /\ q2[k] = Piece(ends2[k - 1], ends2[k])
    <3>1. CASE k <= l
      <4>1. k \in 1 .. l /\ k \in 0 .. l /\ k - 1 \in 0 .. l
        BY <1>2, <3>1
      <4>2. ends[k - 1] <= ends[k] /\ q[k] = Piece(ends[k - 1], ends[k])
        BY <1>7, <4>1 DEF InOrder, l
      <4> QED BY <1>5, <1>6, <4>1, <4>2
    <3>2. CASE k = l + 1
      <4>1. k - 1 = l /\ l \in 0 .. l
        BY <1>2, <3>2
      <4>2. ends2[k - 1] = a /\ ends2[k] = a + n
        BY <1>6, <1>7, <3>2, <4>1
      <4> QED BY <1>5, <3>2, <4>2 DEF x
    <3>3. CASE k = l + 2
      <4>1. k - 1 = l + 1
        BY <1>2, <3>3
      <4> QED BY <1>5, <1>6, <3>3, <4>1 DEF y
    <3> QED BY <1>2, <3>1, <3>2, <3>3
  <2> QED BY <1>5, <2>1 DEF InOrder
<1>9. Ending(q2, ends2, IF e = 0 THEN a + n ELSE e)
  <2>1. CASE e = 0
    <3>1. \A j \in 1 .. (l + 2) - 1 : q2[j] # <<>>
      <4>1. \A j \in 1 .. (l + 2) - 1 : j \in 1 .. l \/ j = l + 1
        BY <1>2
      <4>2. \A j \in 1 .. l : q[j] # <<>>
        BY <1>7, <2>1 DEF Ending, l
      <4> QED BY <1>3, <1>5, <4>1, <4>2
    <3>2. l + 2 \in 1 .. Len(q2) /\ q2[l + 2] = <<>> /\ ends2[l + 2] = a + n /\ a + n # 0
      BY <1>2, <1>3, <1>5, <1>6
    <3>3. \E k \in 1 .. Len(q2) :
            q2[k] = <<>> /\ ends2[k] = a + n /\ \A j \in 1 .. k - 1 : q2[j] # <<>>
      BY <3>1, <3>2
    <3> QED BY <2>1, <3>2, <3>3 DEF Ending
  <2>2. CASE e # 0
    <3>1. PICK k \in 1 .. l : q[k] = <<>> /\ ends[k] = e /\ \A j \in 1 .. k - 1 : q[j] # <<>>
      BY <1>7, <2>2 DEF Ending, l
    <3>2. k \in 1 .. Len(q2) /\ k \in 0 .. l /\ \A j \in 1 .. k - 1 : j \in 1 .. l
      BY <1>2, <1>5
    <3> QED BY <1>5, <1>6, <2>2, <3>1, <3>2 DEF Ending
  <2> QED BY <2>1, <2>2
<1>10. w # 0 => q2 # <<>> /\ w < Len(Head(q2))
  <2>1. SUFFICES ASSUME w # 0 PROVE q2 # <<>> /\ w < Len(Head(q2))
    OBVIOUS
  <2>2. q # <<>> /\ w < Len(Head(q))
    BY <1>7, <2>1
  <2>3. 1 \in 1 .. l
    BY <1>2, <2>2, EmptySeq DEF l
  <2>4. q2[1] = q[1] /\ q2 # <<>>
    BY <1>2, <1>5, <2>3, EmptySeq
  <2> QED BY <2>2, <2>4
<1>11. 0 \in 0 .. l /\ ends2[0] = Len(o) - w
  BY <1>2, <1>6, <1>7
<1>12. InTransit(q2, w, o, a + n, IF e = 0 THEN a + n ELSE e, FALSE, ends2)
  BY <1>5, <1>6, <1>7, <1>8, <1>9, <1>10, <1>11 DEF InTransit
<1>13. Carries(q2, w, o, a + n, IF e = 0 THEN a + n ELSE e, FALSE)
  BY <1>12 DEF Carries
<1>14. q2 = q \o <<Piece(a, a + n), <<>>>>
  BY <1>3 DEF q2, two, x
<1> QED BY <1>13, <1>14

(* A part of the first buffer is written, or the rest of it.                *)
LEMMA HeadSent ==
  ASSUME NEW q \in Seq(Buffer), q # <<>>, NEW w \in Int, NEW o \in Buffer, NEW a \in Nat,
         NEW e, NEW lossy \in BOOLEAN, Carries(q, w, o, a, e, lossy),
         NEW n \in 1 .. Len(Rest(Head(q), w))
  PROVE  LET o2 == o \o SubSeq(Rest(Head(q), w), 1, n) IN
         /\ o2 \in Buffer /\ Len(o) <= Len(o2) /\ Len(o2) <= a
         /\ n + w = Len(Head(q)) => Carries(Tail(q), 0, o2, a, e, lossy)
         /\ n + w # Len(Head(q)) => Carries(q, w + n, o2, a, e, lossy)
<1> DEFINE l == Len(q)
           m == Len(o)
           head == Head(q)
           rest == Rest(head, w)
           sub == SubSeq(rest, 1, n)
           t == Tail(q)
           o2 == o \o sub
<1>1. PICK ends : InTransit(q, w, o, a, e, lossy, ends)
  BY DEF Carries
<1>2. /\ l \in Nat /\ l >= 1 /\ m \in Nat /\ head = q[1] /\ head \in Buffer
      /\ t \in Seq(Buffer) /\ Len(t) = l - 1 /\ \A k \in 1 .. l - 1 : t[k] = q[k + 1]
  BY HeadTailProperties, EmptySeq DEF Buffer
<1>3. /\ ends \in [0 .. l -> 0 .. a] /\ o = Piece(0, m) /\ w >= 0 /\ ends[0] = m - w
      /\ w # 0 => w < Len(head)
  BY <1>1 DEF InTransit
<1>4. InOrder(q, ends) /\ (ends[l] = a \/ (lossy /\ Contains(q, <<>>)))
  BY <1>1 DEF InTransit
<1>5. ~lossy => Ending(q, ends, e)
  BY <1>1 DEF InTransit
<1>6. o2 = o \o sub
  OBVIOUS
<1> HIDE DEF t, head, m, o2
<1>7. /\ \A k \in 0 .. l : ends[k] \in 0 .. a
      /\ ends[0] \in 0 .. a /\ ends[1] \in 0 .. a /\ ends[0] <= ends[1]
      /\ head = Piece(ends[0], ends[1])
  <2>1. 0 \in 0 .. l /\ 1 \in 0 .. l /\ 1 \in 1 .. l /\ 1 - 1 = 0
    BY <1>2
  <2> QED BY <1>2, <1>3, <1>4, <2>1 DEF InOrder
<1> DEFINE f == ends[0]
           g == ends[1]
<1>8. f \in Nat /\ g \in Nat /\ f <= g /\ g <= a /\ m = f + w
  BY <1>2, <1>3, <1>7
<1>9. Len(head) = g - f /\ head = Piece(f, g)
  BY <1>7, <1>8, PieceFacts
<1> HIDE DEF f, g, l
<1>10. m <= g
  BY <1>3, <1>8, <1>9
<1>11. rest = Piece(m, g)
  <2>1. rest = SubSeq(Piece(f, g), w + 1, g - f)
    BY <1>3, <1>9 DEF Rest
  <2>2. f <= m /\ g <= g /\ (m - f) + 1 = w + 1
    BY <1>2, <1>3, <1>8
  <2>3. f \in Nat /\ m \in Nat /\ g \in Nat
    BY <1>2, <1>8
  <2>4. f <= m /\ m <= g
    BY <1>10, <2>2
  <2>5. SubSeq(Piece(f, g), (m - f) + 1, g - f) = Piece(m, g)
    BY <2>3, <2>4, BackPiece
  <2> QED BY <2>1, <2>2, <2>5
<1> DEFINE z == m + n
<1>12. n \in Nat /\ 1 <= n /\ z \in Nat /\ m <= z /\ z <= g
  <2>1. Len(rest) = g - m
    BY <1>2, <1>8, <1>10, <1>11, PieceFacts
  <2>2. n \in 1 .. Len(rest)
    BY DEF head
  <2> HIDE DEF rest
  <2> QED BY <1>2, <1>8, <2>1, <2>2
<1>13. z = m + n
  OBVIOUS
<1> HIDE DEF z
<1>14. sub = Piece(m, z)
  <2>1. m \in Nat /\ z \in Nat /\ g \in Nat
    BY <1>2, <1>8, <1>12
  <2>2. m <= z /\ z <= g
    BY <1>12
  <2>3. SubSeq(Piece(m, g), 1, z - m) = Piece(m, z)
    BY <2>1, <2>2, FrontPiece
  <2>4. z - m = n
    BY <1>2, <1>12, <1>13
  <2> QED BY <1>11, <2>3, <2>4
<1>15. o2 = Piece(0, z)
  <2>1. o2 = o \o sub
    BY <1>6
  <2>2. 0 \in Nat /\ 0 <= m
    BY <1>2
  <2>3. Piece(0, m) \o Piece(m, z) = Piece(0, z)
    BY <1>2, <1>12, <2>2, JoinPieces
  <2> HIDE DEF sub
  <2> QED BY <1>3, <1>14, <2>1, <2>3
<1> HIDE DEF rest, sub
<1>16. o2 \in Buffer /\ Len(o2) = z
  <2>1. 0 <= z /\ 0 \in Nat
    BY <1>12
  <2>2. o2 \in Buffer /\ Len(o2) = z - 0
    <3>1. Piece(0, z) \in Buffer /\ Len(Piece(0, z)) = z - 0
      BY <1>12, <2>1, PieceFacts
    <3> QED BY <1>15, <3>1
  <2> QED BY <1>12, <2>2
<1>17. Len(o) <= Len(o2) /\ Len(o2) <= a /\ o2 = Piece(0, Len(o2))
  <2>1. m <= z /\ z <= a
    BY <1>2, <1>8, <1>12
  <2> QED BY <1>15, <1>16, <2>1 DEF m
<1>18. head # <<>>
  <2>1. Len(head) # 0
    BY <1>2, <1>3, <1>8, <1>9, <1>12, <1>13
  <2> QED BY <2>1
<1>19. ASSUME n + w = g - f PROVE Carries(t, 0, o2, a, e, lossy)
  <2> DEFINE ends2 == [k \in 0 .. l - 1 |-> ends[k + 1]]
  <2>1. \A k \in 0 .. l - 1 : k + 1 \in 0 .. l /\ ends[k + 1] \in 0 .. a
    BY <1>2, <1>7
  <2>2. ends2 \in [0 .. l - 1 -> 0 .. a] /\ \A k \in 0 .. l - 1 : ends2[k] = ends[k + 1]
    BY <2>1
  <2> HIDE DEF ends2
  <2>3. ends2[0] = Len(o2) - 0 /\ ends2[l - 1] = ends[l]
    <3>1. 0 \in 0 .. l - 1 /\ 0 + 1 = 1 /\ l - 1 \in 0 .. l - 1 /\ (l - 1) + 1 = l
      BY <1>2
    <3>2. ends2[0] = g /\ ends2[l - 1] = ends[l]
      BY <2>2, <3>1 DEF g
    <3>3. g = z - 0
      BY <1>2, <1>3, <1>8, <1>12, <1>13, <1>19
    <3> QED BY <1>16, <3>2, <3>3
  <2>4. InOrder(t, ends2)
    <3>1. ASSUME NEW k \in 1 .. l - 1
          PROVE  ends2[k - 1] <= ends2[k] /\ t[k] = Piece(ends2[k - 1], ends2[k])
      <4>1. k - 1 \in 0 .. l - 1 /\ k \in 0 .. l - 1 /\ (k - 1) + 1 = k /\ k + 1 \in 1 .. l
            /\ (k + 1) - 1 = k
        BY <1>2
      <4>2. ends[(k + 1) - 1] <= ends[k + 1] /\ q[k + 1] = Piece(ends[(k + 1) - 1], ends[k + 1])
        BY <1>4, <4>1 DEF InOrder, l
      <4> QED BY <1>2, <2>2, <4>1, <4>2
    <3> QED BY <1>2, <3>1 DEF InOrder
  <2>5. Contains(q, <<>>) => Contains(t, <<>>)
    <3>1. SUFFICES ASSUME NEW k \in 1 .. l, q[k] = <<>> PROVE \E j \in 1 .. l - 1 : t[j] = <<>>
      BY <1>2 DEF Contains, l
    <3>2. k # 1
      BY <1>2, <1>18, <3>1
    <3>3. k - 1 \in 1 .. l - 1 /\ (k - 1) + 1 = k
      BY <1>2, <3>2
    <3> QED BY <1>2, <3>1, <3>3
  <2>6. Ending(q, ends, e) => Ending(t, ends2, e)
    <3>1. SUFFICES ASSUME Ending(q, ends, e) PROVE Ending(t, ends2, e)
      OBVIOUS
    <3>2. CASE e = 0
      <4>1. \A k \in 1 .. l - 1 : k + 1 \in 1 .. l
        BY <1>2
      <4>2. \A k \in 1 .. l : q[k] # <<>>
        BY <3>1, <3>2 DEF Ending, l
      <4> QED BY <1>2, <3>2, <4>1, <4>2 DEF Ending
    <3>3. CASE e # 0
      <4>1. PICK k \in 1 .. l : q[k] = <<>> /\ ends[k] = e /\ \A j \in 1 .. k - 1 : q[j] # <<>>
        BY <3>1, <3>3 DEF Ending, l
      <4>2. k # 1
        BY <1>2, <1>18, <4>1
      <4>3. /\ k - 1 \in 1 .. l - 1 /\ k - 1 \in 0 .. l - 1 /\ (k - 1) + 1 = k
            /\ \A j \in 1 .. (k - 1) - 1 : j + 1 \in 1 .. k - 1 /\ j \in 1 .. l - 1
        BY <1>2, <4>2
      <4>4. t[k - 1] = <<>> /\ ends2[k - 1] = e /\ \A j \in 1 .. (k - 1) - 1 : t[j] # <<>>
        BY <1>2, <2>2, <4>1, <4>3
      <4>5. \E i \in 1 .. l - 1 :
              t[i] = <<>> /\ ends2[i] = e /\ \A j \in 1 .. i - 1 : t[j] # <<>>
        BY <4>3, <4>4
      <4> QED BY <1>2, <3>3, <4>5 DEF Ending
    <3> QED BY <3>2, <3>3
  <2>7. InTransit(t, 0, o2, a, e, lossy, ends2)
    <3>1. ends2 \in [0 .. Len(t) -> 0 .. a] /\ ends2[Len(t)] = ends[l]
      BY <1>2, <2>2, <2>3
    <3>2. 0 >= 0 /\ ~(0 # 0)
      OBVIOUS
    <3> QED BY <1>4, <1>5, <1>17, <2>3, <2>4, <2>5, <2>6, <3>1, <3>2 DEF InTransit
  <2> QED BY <2>7 DEF Carries
<1>20. ASSUME n + w # g - f PROVE Carries(q, w + n, o2, a, e, lossy)
  <2>1. w + n >= 0 /\ w + n < Len(head) /\ ends[0] = Len(o2) - (w + n)
    BY <1>2, <1>3, <1>8, <1>9, <1>12, <1>13, <1>16, <1>20 DEF f
  <2>2. InTransit(q, w + n, o2, a, e, lossy, ends)
    BY <1>3, <1>4, <1>5, <1>17, <2>1 DEF InTransit, head, l
  <2> QED BY <2>2 DEF Carries
<1> QED BY <1>9, <1>16, <1>17, <1>19, <1>20 DEF head, t, o2, sub, rest

(* The first write of an outgoing connection: taken, queued or cut.         *)
LEMMA FirstWrite ==
  ASSUME NEW n \in Nat, n # 0, NEW e,
         NEW buf, buf = Piece(0, n)
  PROVE  /\ buf \in Buffer /\ Len(buf) = n
         /\ Carries(<<>>, 0, buf, n, e, TRUE)
         /\ Carries(<<buf>>, 0, <<>>, n, e, TRUE)
         /\ \A w \in 1 .. n - 1 : /\ SubSeq(buf, 1, w) = Piece(0, w)
                                  /\ Carries(<<<<>>>>, 0, SubSeq(buf, 1, w), n, e, TRUE)
<1>1. buf \in Buffer /\ Len(buf) = n - 0
  <2>1. 0 \in Nat /\ 0 <= n
    OBVIOUS
  <2> QED BY <2>1, PieceFacts
<1>2. Len(buf) = n /\ Len(<<>>) = 0 /\ <<>> \in Buffer /\ <<>> = Piece(0, 0)
  <2>1. 0 <= 0 /\ 0 \in Nat
    OBVIOUS
  <2>2. <<>> = Piece(0, 0)
    BY <2>1, PieceFacts
  <2> QED BY <1>1, <2>2 DEF Buffer
<1>3. Carries(<<>>, 0, buf, n, e, TRUE)
  <2> DEFINE ends == [k \in 0 .. 0 |-> n]
  <2>1. ends \in [0 .. Len(<<>>) -> 0 .. n] /\ ends[0] = n - 0 /\ ends[Len(<<>>)] = n
    OBVIOUS
  <2>2. InOrder(<<>>, ends)
    BY DEF InOrder
  <2> HIDE DEF ends
  <2>3. InTransit(<<>>, 0, buf, n, e, TRUE, ends)
    BY <1>2, <2>1, <2>2 DEF InTransit
  <2> QED BY <2>3 DEF Carries
<1>4. ASSUME NEW w \in 0 .. n, NEW x \in Buffer, NEW to \in 0 .. n, w <= to,
             x = Piece(w, to), to = n \/ x = <<>>
      PROVE  Carries(<<x>>, 0, Piece(0, w), n, e, TRUE)
  <2> DEFINE ends == [k \in 0 .. 1 |-> IF k = 0 THEN w ELSE to]
             q == <<x>>
             o == Piece(0, w)
  <2>1. Len(q) = 1 /\ q[1] = x
    OBVIOUS
  <2>2. Len(o) = w
    <3>1. w \in Nat /\ 0 <= w
      OBVIOUS
    <3>2. Len(o) = w - 0
      BY <3>1, PieceFacts
    <3> QED BY <3>2
  <2>3. /\ ends \in [0 .. 1 -> 0 .. n] /\ ends[0] = w /\ ends[1] = to /\ w - 0 = w
    BY <1>4
  <2> HIDE DEF q, o, ends
  <2>4. InOrder(q, ends)
    <3>1. \A k \in 1 .. 1 : k = 1 /\ k - 1 = 0
      OBVIOUS
    <3>2. \A k \in 1 .. 1 : ends[k - 1] <= ends[k] /\ q[k] = Piece(ends[k - 1], ends[k])
      BY <1>4, <2>1, <2>3, <3>1
    <3> QED BY <2>1, <3>2 DEF InOrder
  <2>5. ends[1] = n \/ Contains(q, <<>>)
    BY <1>4, <2>1, <2>3 DEF Contains
  <2>6. InTransit(q, 0, o, n, e, TRUE, ends)
    BY <2>1, <2>2, <2>3, <2>4, <2>5 DEF InTransit, o
  <2>7. Carries(q, 0, o, n, e, TRUE)
    BY <2>6 DEF Carries
  <2> QED BY <2>7 DEF q, o
<1>5. Carries(<<buf>>, 0, <<>>, n, e, TRUE)
  <2>1. 0 \in 0 .. n /\ n \in 0 .. n /\ 0 <= n
    OBVIOUS
  <2>2. Carries(<<buf>>, 0, Piece(0, 0), n, e, TRUE)
    BY <1>1, <1>4, <2>1
  <2> QED BY <1>2, <2>2
<1>6. ASSUME NEW w \in 1 .. n - 1
      PROVE  SubSeq(buf, 1, w) = Piece(0, w) /\ Carries(<<<<>>>>, 0, SubSeq(buf, 1, w), n, e, TRUE)
  <2>1. w \in Nat /\ w \in 0 .. n /\ w <= w /\ 1 <= w /\ w <= Len(buf)
    BY <1>2
  <2>2. Piece(w, w) = <<>>
    BY <2>1, PieceFacts
  <2>6. SubSeq(buf, 1, w) = Piece(0, w)
    <3>1. 0 \in Nat /\ 0 <= 0 /\ 0 <= w /\ w <= n /\ (0 - 0) + 1 = 1 /\ w - 0 = w
      BY <2>1
    <3>2. SubSeq(Piece(0, n), (0 - 0) + 1, w - 0) = Piece(0, w)
      BY <2>1, <3>1, SubPiece
    <3> QED BY <3>1, <3>2
  <2>7. Carries(<<<<>>>>, 0, Piece(0, w), n, e, TRUE)
    BY <1>2, <1>4, <2>1, <2>2
  <2> QED BY <2>6, <2>7
<1> QED BY <1>1, <1>2, <1>3, <1>5, <1>6

LEMMA NothingCarried ==
  ASSUME NEW lossy \in BOOLEAN
  PROVE  Carries(<<>>, 0, <<>>, 0, 0, lossy)
<1> DEFINE ends == [k \in 0 .. 0 |-> 0]
<1>1. ends \in [0 .. 0 -> 0 .. 0] /\ ends[0] = 0 /\ Len(<<>>) = 0 /\ 0 - 0 = 0 /\ 0 >= 0
  OBVIOUS
<1>2. <<>> = Piece(0, 0)
  <2>1. 0 \in Nat /\ 0 <= 0
    OBVIOUS
  <2> QED BY <2>1, PieceFacts
<1>3. InOrder(<<>>, ends) /\ Ending(<<>>, ends, 0)
  BY DEF InOrder, Ending
<1> HIDE DEF ends
<1>4. InTransit(<<>>, 0, <<>>, 0, 0, lossy, ends)
  BY <1>1, <1>2, <1>3 DEF InTransit
<1> QED BY <1>4 DEF Carries

(* An empty buffer at the head is the first end asked for.                  *)
LEMMA FirstEnd ==
  ASSUME NEW q \in Seq(Buffer), q # <<>>, Head(q) = <<>>, NEW w \in Int,
         NEW o \in Buffer, NEW a \in Nat, NEW e, Carries(q, w, o, a, e, FALSE)
  PROVE  e # 0 /\ Len(o) = e
<1> DEFINE l == Len(q)
<1>1. PICK ends : InTransit(q, w, o, a, e, FALSE, ends)
  BY DEF Carries
<1>2. l \in Nat /\ l >= 1 /\ q[1] = <<>> /\ Len(o) \in Nat /\ Len(Head(q)) = 0
  BY EmptySeq DEF Buffer
<1>3. /\ ends \in [0 .. l -> 0 .. a] /\ w >= 0 /\ (w # 0 => w < Len(Head(q)))
      /\ ends[0] = Len(o) - w /\ InOrder(q, ends) /\ Ending(q, ends, e)
  BY <1>1 DEF InTransit
<1> HIDE DEF l
<1>4. w = 0 /\ ends[0] = Len(o)
  BY <1>2, <1>3
<1>5. 1 \in 1 .. l /\ 0 \in 0 .. l /\ 1 \in 0 .. l /\ 1 - 1 = 0
  BY <1>2
<1>6. ends[0] \in Nat /\ ends[1] \in Nat /\ ends[0] <= ends[1] /\ q[1] = Piece(ends[0], ends[1])
  BY <1>3, <1>5 DEF InOrder, l
<1>7. ends[0] = ends[1]
  <2> DEFINE f == ends[0]
             g == ends[1]
  <2>1. f \in Nat /\ g \in Nat /\ f <= g /\ Piece(f, g) = <<>>
    BY <1>2, <1>6
  <2> HIDE DEF f, g
  <2>2. f = g
    BY <2>1, PieceFacts
  <2> QED BY <2>2 DEF f, g
<1>8. e # 0
  BY <1>2, <1>3, <1>5 DEF Ending, l
<1>9. PICK k \in 1 .. l : q[k] = <<>> /\ ends[k] = e /\ \A j \in 1 .. k - 1 : q[j] # <<>>
  BY <1>3, <1>8 DEF Ending, l
<1>10. k = 1
  <2>1. k # 1 => 1 \in 1 .. k - 1
    BY <1>2, <1>9
  <2> QED BY <1>2, <1>9, <2>1
<1> QED BY <1>4, <1>7, <1>8, <1>9, <1>10

-----------------------------------------------------------------------------
(* The inductive invariant: a connected slot carries its connection's       *)
(* stream as long as the peer may still get it.                             *)
SlotCarries(i) ==
  LET c == ufd[i] IN
  Carries(cdata[i].xmit, cdata[i].written, out[c], asked[c], eof[c], c \in Outbound)

StreamInv ==
  /\ \A c \in Conn : Len(out[c]) <= asked[c]
  /\ \A c \in Conn \ ready : /\ asked[c] = 0 \/ kernel[c] = "over"
                             /\ eof[c] = 0 /\ out[c] = <<>>
  /\ \A i \in Slot : ufd[i] \in Conn /\ ~cdata[i].connected => cdata[i].written = 0
  /\ \A i \in Slot : Listening(ufd[i]) /\ cdata[i].connected => SlotCarries(i)

(* What a branch does to the streams.                                       *)
Idles(i) ==
  /\ UNCHANGED <<ufd, asked, eof, out, ready>>
  /\ KernelSteady
  /\ ufd[i] \in Conn =>
       /\ cdata[i].connected /\ cdata'[i].connected
       /\ kernel'[ufd[i]] \in {"up", "fin"} =>
            cdata'[i].xmit = cdata[i].xmit /\ cdata'[i].written = cdata[i].written

Answers(i) ==
  LET c == ufd[i] IN
  /\ c \in Conn \ Outbound /\ cdata[i].connected /\ cdata'[i].connected
  /\ UNCHANGED <<ufd, kernel, ready, out>>
  /\ \E n \in Nat \ {0} :
       /\ asked' = [asked EXCEPT ![c] = @ + n]
       /\ eof' = [eof EXCEPT ![c] = IF @ = 0 THEN asked[c] + n ELSE @]
       /\ cdata'[i].xmit = cdata[i].xmit \o <<Piece(asked[c], asked[c] + n), <<>>>>
       /\ cdata'[i].written = cdata[i].written

Sends(i) ==
  LET c == ufd[i]
      head == Head(cdata[i].xmit)
      rest == Rest(head, cdata[i].written)
  IN
  /\ Listening(c) /\ cdata[i].connected /\ cdata'[i].connected
  /\ UNCHANGED <<ufd, kernel, ready, asked, eof>>
  /\ cdata[i].xmit # <<>>
  /\ \E n \in 1 .. Len(rest) :
       /\ out' = [out EXCEPT ![c] = @ \o SubSeq(rest, 1, n)]
       /\ n + cdata[i].written = Len(head) =>
            cdata'[i].xmit = Tail(cdata[i].xmit) /\ cdata'[i].written = 0
       /\ n + cdata[i].written # Len(head) =>
            cdata'[i].xmit = cdata[i].xmit /\ cdata'[i].written = cdata[i].written + n

Opens(i) ==
  LET c == ufd[i] IN
  /\ c \in Outbound /\ Listening(c) /\ ~cdata[i].connected /\ cdata'[i].connected
  /\ UNCHANGED <<ufd, kernel, eof>>
  /\ ready' = ready \union {c}
  /\ \A d \in Conn \ {c} : out'[d] = out[d]
  /\ \E n \in Nat \ {0} :
       /\ asked' = [asked EXCEPT ![c] = n]
       /\ Len(out'[c]) <= n
       /\ Carries(cdata'[i].xmit, cdata'[i].written, out'[c], n, eof[c], TRUE)

Hangs(i) ==
  /\ Ends(i)
  /\ UNCHANGED <<asked, eof, out>>
  /\ \/ ufd[i] \in Outbound
     \/ kernel[ufd[i]] \in {"fin", "reset", "dead"}
     \/ eof[ufd[i]] # 0 /\ Len(out[ufd[i]]) = eof[ufd[i]]

(* The POLLOUT branch of a slot that is closed: more is handed over for a   *)
(* connection that is over.                                                 *)
Delays(i) ==
  LET o == cdata[i].owner IN
  /\ ufd[i] = Closed /\ KernelSteady
  /\ o \in Outbound \ ready /\ kernel[o] = "over"
  /\ UNCHANGED <<ufd, eof, out, ready>>
  /\ \E n \in Nat : asked' = [asked EXCEPT ![o] = @ + n]

Drops(i) ==
  /\ GivesUp(i)
  /\ UNCHANGED <<asked, eof, out>>

LEMMA NextBytesPiece ==
  ASSUME TypeOK, NEW c \in Conn, NEW n \in Nat
  PROVE  NextBytes(c, n) = Piece(asked[c], asked[c] + n)
<1>1. asked[c] \in Nat
  BY DEF TypeOK
<1>2. 1 .. (asked[c] + n) - asked[c] = 1 .. n
  BY <1>1
<1> QED BY <1>2 DEF NextBytes, Piece

LEMMA PollinStream ==
  ASSUME Table, ClosingInv, NEW i \in Slot, ConnectedPollin(i)
  PROVE  Idles(i) \/ Answers(i) \/ Hangs(i)
<1> TypeOK
  BY DEF Table
<1> DEFINE c == ufd[i]
<1>1. c \in Conn /\ cdata[i].connected /\ UNCHANGED <<ready, out>>
  BY TurnHasSocket, PollinOwnSlot, BranchStep DEF ConnectedPollin, Event, Branch
<1>2. cdata'[i].connected
  BY PollinOwnSlot
<1>3. CASE UNCHANGED <<ufd, cdata, asked, eof>> /\ (UNCHANGED kernel \/ kernel' = ErrorReported(c))
  BY <1>1, <1>2, <1>3, ErrorReportedSteady DEF Idles
<1>4. CASE CloseIdx(i) /\ UNCHANGED <<asked, eof>> /\ (c \in Outbound \/ kernel[c] \in {"fin", "dead"})
  BY <1>1, <1>4, CloseIdxEnds DEF Hangs
<1>5. ASSUME c \notin Outbound, UNCHANGED <<ufd, kernel>>,
             NEW n \in 1 .. MaxBytes - asked[c],
             Dsend(i, <<NextBytes(c, n), <<>>>>),
             asked' = [asked EXCEPT ![c] = @ + n],
             eof' = [eof EXCEPT ![c] = IF @ = 0 THEN asked[c] + n ELSE @]
      PROVE  Answers(i)
  <2>1. n \in Nat \ {0}
    BY <1>1, BoundsAssumption DEF TypeOK
  <2>2. NextBytes(c, n) = Piece(asked[c], asked[c] + n)
    BY <1>1, <2>1, NextBytesPiece
  <2>3. /\ cdata'[i].xmit = cdata[i].xmit \o <<NextBytes(c, n), <<>>>>
        /\ cdata'[i].written = cdata[i].written
    BY <1>5 DEF Dsend, TypeOK, SlotData
  <2> QED BY <1>1, <1>2, <1>5, <2>1, <2>2, <2>3 DEF Answers
<1>6. CASE ReadRequest(i)
  <2>1. c \notin Outbound /\ UNCHANGED <<ufd, kernel>>
    BY <1>6 DEF ReadRequest
  <2>2. CASE UNCHANGED <<events, cdata, asked, eof>>
    BY <1>3, <2>1, <2>2
  <2>3. CASE ~UNCHANGED <<events, cdata, asked, eof>>
    <3>1. PICK n \in 1 .. MaxBytes - asked[c] :
            /\ Dsend(i, <<NextBytes(c, n), <<>>>>)
            /\ asked' = [asked EXCEPT ![c] = @ + n]
            /\ eof' = [eof EXCEPT ![c] = IF @ = 0 THEN asked[c] + n ELSE @]
      BY <1>6, <2>3, Zenon DEF ReadRequest
    <3> QED BY <1>5, <2>1, <3>1
  <2> QED BY <2>2, <2>3
<1> QED BY <1>3, <1>4, <1>6 DEF ConnectedPollin, ReadReply

LEMMA PolloutStream ==
  ASSUME Table, SocketsInv, ClosingInv, StreamInv, NEW i \in Slot, ConnectedPollout(i)
  PROVE  Idles(i) \/ Sends(i) \/ Hangs(i)
<1> TypeOK
  BY DEF Table
<1> DEFINE c == ufd[i]
           q == cdata[i].xmit
           w == cdata[i].written
           rest == Rest(Head(q), w)
<1>1. /\ c \in Conn \union {Closed} /\ cdata[i].connected /\ cdata'[i].connected
      /\ UNCHANGED <<ready, asked, eof>>
  BY PolloutOwnSlot, BranchStep DEF ConnectedPollout, Branch
<1>2. q # <<>> => c \in Conn
  <2>1. "out" \in revents[i]
    BY DEF ConnectedPollout, Turn, NextTurn
  <2> QED BY <1>1, <2>1 DEF Table, PendingInv
<1>3. q \in Seq(Buffer) /\ w \in Int
  BY DEF TypeOK, SlotData
<1>4. CASE UNCHANGED <<ufd, cdata, kernel, out>>
  BY <1>1, <1>4, ErrorReportedSteady DEF Idles
<1>5. CASE q # <<>> /\ SendHead(i)
  <2>1. PICK n \in {-1} \union 1 .. Len(rest) :
          /\ CanTake(c, n, rest) \/ Fails(c, n)
          /\ out' = Took(c, n, rest)
          /\ Advance(i, n)
    BY <1>5, Zenon DEF SendHead
  <2>2. kernel' = ErrorReported(c) /\ UNCHANGED ufd /\ c \in Conn
    BY <1>2, <1>5 DEF SendHead
  <2>3. CASE CanTake(c, n, rest)
    <3>1. Listening(c) /\ n \in 1 .. Len(rest) /\ n > 0
      BY <2>3 DEF CanTake, Listening
    <3>2. UNCHANGED kernel
      BY <2>2, <3>1 DEF ErrorReported, Listening, TypeOK
    <3>3. out' = [out EXCEPT ![c] = @ \o SubSeq(rest, 1, n)]
      BY <2>1, <3>1 DEF Took
    <3>4. /\ n + w = Len(Head(q)) => cdata'[i].xmit = Tail(q) /\ cdata'[i].written = 0
          /\ n + w # Len(Head(q)) => cdata'[i].xmit = q /\ cdata'[i].written = w + n
      BY <2>1 DEF Advance, TypeOK, SlotData
    <3> QED BY <1>1, <1>5, <2>2, <3>1, <3>2, <3>3, <3>4 DEF Sends
  <2>4. CASE Fails(c, n)
    <3>1. n = -1 /\ kernel[c] \in {"reset", "dead"}
      BY <2>2, <2>4 DEF Fails
    <3>2. UNCHANGED out
      BY <2>1, <3>1 DEF Took
    <3>3. kernel'[c] \notin {"up", "fin"}
      BY <2>2, <3>1 DEF ErrorReported
    <3> QED BY <1>1, <2>2, <3>2, <3>3, ErrorReportedSteady DEF Idles
  <2> QED BY <2>1, <2>3, <2>4
<1>6. CASE q # <<>> /\ Head(q) = <<>> /\ CloseIdx(i) /\ UNCHANGED out
  <2>1. c \in Conn /\ Ends(i)
    BY <1>1, <1>2, <1>6, CloseIdxEnds
  <2>2. ASSUME c \notin Outbound, kernel[c] \notin {"fin", "reset", "dead"}
        PROVE  eof[c] # 0 /\ Len(out[c]) = eof[c]
    <3>1. c \in ready
      BY <1>1, <2>1 DEF ClosingInv
    <3>2. kernel[c] = "up"
      BY <2>1, <2>2, <3>1 DEF ClosingInv, SocketsInv, Held
    <3>3. Carries(q, w, out[c], asked[c], eof[c], FALSE)
      <4>1. SlotCarries(i)
        BY <1>1, <2>1, <3>2 DEF StreamInv, Listening
      <4>2. (c \in Outbound) = FALSE
        BY <2>2
      <4> QED BY <4>1, <4>2 DEF SlotCarries
    <3>4. out[c] \in Buffer /\ asked[c] \in Nat
      BY <2>1 DEF TypeOK
    <3> QED BY <1>3, <1>6, <3>3, <3>4, FirstEnd
  <2> QED BY <1>1, <1>6, <2>1, <2>2 DEF Hangs
<1> QED BY <1>4, <1>5, <1>6 DEF ConnectedPollout, SendsData, SendHead

LEMMA PollinoutStream ==
  ASSUME Table, SocketsInv, ClosingInv, LateInv, StreamInv, NEW i \in Slot,
         NEW e \in Event, UnconnectedPollinout(i, e)
  PROVE  Opens(i) \/ Delays(i) \/ Drops(i)
<1> TypeOK
  BY DEF Table
<1> DEFINE c == ufd[i]
<1>1. c \in Conn \union {Closed} /\ ~cdata[i].connected /\ UNCHANGED eof
  BY BranchStep DEF UnconnectedPollinout, Branch
<1>2. Closed \notin Conn
  BY ConnAssumption
<1>3. CASE ConnectFailed(i)
  <2>1. GivesUp(i)
    BY <1>1, <1>3 DEF ConnectFailed, GivesUp, Over, UnconnectedPollinout, TypeOK
  <2> QED BY <1>1, <1>3, <2>1 DEF ConnectFailed, Drops
<1>4. CASE c = Closed /\ NewPhantom(i)
  <2>1. PICK n \in 1 .. MaxBytes :
          /\ WriteData(i, NextBytes(cdata[i].owner, n))
          /\ asked' = [asked EXCEPT ![cdata[i].owner] = @ + n]
    BY <1>4 DEF NewPhantom
  <2>2. UNCHANGED out /\ KernelSteady
    <3>1. \A w, rest : ~CanTake(c, w, rest)
      BY <1>2, <1>4 DEF CanTake
    <3>2. UNCHANGED out /\ (kernel' = ErrorReported(c) \/ UNCHANGED kernel)
      BY <2>1, <3>1 DEF WriteData
    <3> QED BY <3>2, ErrorReportedSteady
  <2>3. cdata[i].owner \in Outbound \ ready /\ kernel[cdata[i].owner] = "over"
    <3>1. revents[i] # {}
      BY DEF UnconnectedPollinout, Turn, NextTurn
    <3> QED BY <1>1, <1>4, <3>1 DEF LateInv
  <2>4. n \in Nat
    BY BoundsAssumption
  <2> QED BY <1>1, <1>4, <2>1, <2>2, <2>3, <2>4 DEF NewPhantom, Delays
<1>5. CASE c # Closed /\ kernel[c] \in {"up", "fin"} /\ NewOutConn(i, c)
  <2>1. PICK n \in 1 .. MaxBytes :
          WriteData(i, NextBytes(c, n)) /\ asked' = [asked EXCEPT ![c] = @ + n]
    BY <1>5 DEF NewOutConn
  <2> DEFINE buf == NextBytes(c, n)
             lossy == c \in Outbound
  <2>2. c \in Conn /\ Listening(c) /\ UNCHANGED ufd /\ ready' = ready \union {c} /\ n \in Nat /\ n # 0
    BY <1>1, <1>5, BoundsAssumption DEF NewOutConn, Listening
  <2>3. /\ c \notin ready /\ c \in Outbound /\ cdata[i].written = 0 /\ cdata[i].xmit = <<>>
        /\ asked[c] = 0 /\ eof[c] = 0 /\ out[c] = <<>>
    BY <1>1, <2>2 DEF StreamInv, ClosingInv, LateInv, Table, SlotsInv, Listening
  <2>4. asked' = [asked EXCEPT ![c] = n]
    <3>1. asked[c] + n = n
      BY <2>2, <2>3
    <3>2. asked' = [asked EXCEPT ![c] = asked[c] + n]
      BY <2>1
    <3> QED BY <3>1, <3>2
  <2>5. buf = Piece(0, n) /\ buf \in Buffer /\ Len(buf) = n
    BY <2>2, <2>3, NextBytesPiece, NextBytesType
  <2>6. Rest(buf, 0) = buf
    <3>1. SubSeq(Piece(0, n), 1, n - 0) = Piece(0, n)
      BY <2>2, FrontPiece
    <3> QED BY <2>2, <2>5, <3>1 DEF Rest
  <2> HIDE DEF buf
  <2>7. kernel' = ErrorReported(c) => UNCHANGED kernel
    BY <2>2 DEF ErrorReported, Listening, TypeOK
  <2>8. ASSUME UNCHANGED kernel, cdata'[i].connected,
               \A d \in Conn \ {c} : out'[d] = out[d],
               Len(out'[c]) <= n,
               Carries(cdata'[i].xmit, cdata'[i].written, out'[c], n, eof[c], TRUE)
        PROVE  Opens(i)
    BY <1>1, <2>2, <2>3, <2>4, <2>8 DEF Opens
  <2>9. CASE /\ CanTake(c, Len(buf), buf)
             /\ out' = Took(c, Len(buf), buf)
             /\ cdata' = [cdata EXCEPT ![i].connected = TRUE]
             /\ UNCHANGED <<events, kernel>>
    <3>1. out'[c] = buf /\ \A d \in Conn \ {c} : out'[d] = out[d]
      <4>1. SubSeq(Piece(0, n), 1, n - 0) = Piece(0, n)
        BY <2>2, FrontPiece
      <4>2. SubSeq(buf, 1, n) = buf
        BY <2>2, <2>5, <4>1
      <4>3. out' = [out EXCEPT ![c] = @ \o buf]
        <5>1. out' = Took(c, n, buf) /\ n > 0
          BY <2>2, <2>5, <2>9
        <5> QED BY <4>2, <5>1 DEF Took
      <4>4. <<>> \o buf = buf
        BY <2>5, ConcatEmptySeq DEF Buffer
      <4> QED BY <2>2, <2>3, <4>3, <4>4 DEF TypeOK
    <3>2. /\ cdata'[i].xmit = <<>> /\ cdata'[i].written = 0 /\ cdata'[i].connected
      BY <2>3, <2>9 DEF TypeOK, SlotData
    <3>3. Carries(<<>>, 0, buf, n, eof[c], TRUE)
      BY <2>2, <2>5, FirstWrite
    <3>4. Len(out'[c]) <= n
      BY <2>2, <2>5, <3>1
    <3> QED BY <2>8, <2>9, <3>1, <3>2, <3>3, <3>4
  <2>10. ASSUME kernel' = ErrorReported(c) \/ UNCHANGED kernel,
                NEW b \in Buffer,
                cdata' = [cdata EXCEPT ![i].connected = TRUE, ![i].xmit = Append(@, b)]
         PROVE  /\ UNCHANGED kernel
                /\ cdata'[i].connected /\ cdata'[i].xmit = <<b>> /\ cdata'[i].written = 0
    <3>1. cdata[i] \in SlotData /\ cdata'[i] = [cdata[i] EXCEPT !.connected = TRUE, !.xmit = Append(@, b)]
      BY <2>10 DEF TypeOK
    <3>2. Append(<<>>, b) = <<b>>
      OBVIOUS
    <3> QED BY <2>3, <2>7, <2>10, <3>1, <3>2 DEF SlotData
  <2>11. CASE /\ kernel' = ErrorReported(c)
              /\ cdata' = [cdata EXCEPT ![i].connected = TRUE, ![i].xmit = Append(@, buf)]
              /\ UNCHANGED out
    <3>1. Carries(<<buf>>, 0, <<>>, n, eof[c], TRUE)
      BY <2>2, <2>5, FirstWrite
    <3>2. Len(out'[c]) <= n
      BY <2>2, <2>3, <2>11
    <3>3. /\ UNCHANGED kernel
          /\ cdata'[i].connected /\ cdata'[i].xmit = <<buf>> /\ cdata'[i].written = 0
      BY <2>5, <2>10, <2>11
    <3> QED BY <2>3, <2>8, <2>11, <3>1, <3>2, <3>3
  <2>12. ASSUME NEW w \in 1 .. Len(buf) - 1,
                CanTake(c, w, buf), out' = Took(c, w, buf),
                cdata' = [cdata EXCEPT ![i].connected = TRUE, ![i].xmit = Append(@, <<>>)],
                UNCHANGED kernel
         PROVE  Opens(i)
    <3>1. w \in 1 .. n - 1 /\ w \in Nat /\ w > 0 /\ 0 <= w
      BY <2>5, <2>12
    <3>2. /\ SubSeq(buf, 1, w) = Piece(0, w)
          /\ Carries(<<<<>>>>, 0, SubSeq(buf, 1, w), n, eof[c], TRUE)
      BY <2>2, <2>5, <3>1, FirstWrite
    <3> DEFINE p == Piece(0, w)
    <3>3. p \in Buffer /\ Len(p) = w - 0
      BY <3>1, PieceFacts
    <3> HIDE DEF p
    <3>4. out' = [out EXCEPT ![c] = @ \o p]
      BY <2>12, <3>1, <3>2 DEF Took, p
    <3>5. <<>> \o p = p
      BY <3>3, ConcatEmptySeq DEF Buffer
    <3>6. out'[c] = p /\ \A d \in Conn \ {c} : out'[d] = out[d]
      BY <2>2, <2>3, <3>4, <3>5 DEF TypeOK
    <3>7. Len(out'[c]) <= n
      BY <2>2, <3>1, <3>3, <3>6
    <3>8. <<>> \in Buffer
      BY EmptySeq DEF Buffer
    <3>9. /\ cdata'[i].connected /\ cdata'[i].xmit = <<<<>>>> /\ cdata'[i].written = 0
      BY <2>10, <2>12, <3>8
    <3> QED BY <2>8, <2>12, <3>2, <3>6, <3>7, <3>9 DEF p
  <2> QED BY <2>1, <2>3, <2>6, <2>9, <2>11, <2>12 DEF WriteData, buf
<1> QED BY <1>1, <1>3, <1>4, <1>5 DEF UnconnectedPollinout

LEMMA BranchStream ==
  ASSUME Table, SocketsInv, ClosingInv, LateInv, StreamInv, NEW i \in Slot, Branch(i)
  PROVE  \/ Idles(i) \/ Answers(i) \/ Sends(i) \/ Opens(i) \/ Hangs(i) \/ Drops(i)
         \/ Delays(i)
BY PollinStream, PolloutStream, PollinoutStream DEF Branch

-----------------------------------------------------------------------------
(* The invariant is kept.                                                   *)

SlotCarriesNext(i) ==
  LET c == ufd[i] IN
  Carries(cdata'[i].xmit, cdata'[i].written, out'[c], asked'[c], eof'[c], c \in Outbound)

(* It is enough to look at the connection of the slot whose turn it is.     *)
LEMMA StreamStep ==
  ASSUME Table, SocketsInv, StreamInv, NEW i \in Slot,
         ufd[i] \in Conn \union {Closed}, OwnSlotOnly(i),
         \A d \in Conn \ {ufd[i]} :
           /\ asked'[d] = asked[d] /\ eof'[d] = eof[d] /\ out'[d] = out[d]
           /\ kernel'[d] \in {"up", "fin"} => kernel[d] \in {"up", "fin"}
           /\ kernel[d] = "over" => kernel'[d] = "over"
           /\ d \in ready => d \in ready',
         ufd[i] \in Conn =>
           LET c == ufd[i] IN
           /\ Len(out'[c]) <= asked'[c]
           /\ c \notin ready' => asked'[c] = 0 /\ eof'[c] = 0 /\ out'[c] = <<>>
           /\ ufd'[i] = c =>
                /\ cdata'[i].connected
                /\ kernel'[c] \in {"up", "fin"} => SlotCarriesNext(i)
  PROVE  StreamInv'
<1> DEFINE c == ufd[i]
<1>1. Closed \notin Conn
  BY ConnAssumption
<1>2. \A d \in Conn : Len(out'[d]) <= asked'[d]
  BY DEF StreamInv
<1>3. \A d \in Conn \ ready' : /\ asked'[d] = 0 \/ kernel'[d] = "over"
                               /\ eof'[d] = 0 /\ out'[d] = <<>>
  BY DEF StreamInv
<1>4. ASSUME NEW k \in Slot, k # i
      PROVE  /\ ufd'[k] = ufd[k] /\ cdata'[k] = cdata[k]
             /\ ufd[k] \in Conn => ufd[k] \in Conn \ {c}
  BY <1>4 DEF OwnSlotOnly, SocketsInv
<1>5. ASSUME NEW k \in Slot, ufd'[k] \in Conn, ~cdata'[k].connected
      PROVE  cdata'[k].written = 0
  <2>1. CASE k = i
    BY <1>1, <1>5, <2>1 DEF OwnSlotOnly
  <2>2. CASE k # i
    BY <1>4, <1>5, <2>2 DEF StreamInv
  <2> QED BY <2>1, <2>2
<1>6. ASSUME NEW k \in Slot, Listening(ufd[k])', cdata'[k].connected
      PROVE  SlotCarries(k)'
  <2>1. CASE k = i
    <3>1. c \in Conn /\ ufd'[i] = c /\ kernel'[c] \in {"up", "fin"}
      BY <1>1, <1>6, <2>1 DEF OwnSlotOnly, Listening
    <3>2. SlotCarriesNext(i)
      BY <3>1
    <3> QED BY <2>1, <3>1, <3>2 DEF SlotCarries, SlotCarriesNext
  <2>2. CASE k # i
    <3> DEFINE d == ufd[k]
    <3>1. ufd'[k] = d /\ cdata'[k] = cdata[k] /\ d \in Conn \ {c} /\ kernel'[d] \in {"up", "fin"}
      BY <1>4, <1>6, <2>2 DEF Listening
    <3>2. Listening(d) /\ asked'[d] = asked[d] /\ eof'[d] = eof[d] /\ out'[d] = out[d]
      BY <3>1 DEF Listening
    <3>3. SlotCarries(k)
      BY <1>6, <3>1, <3>2 DEF StreamInv
    <3> QED BY <3>1, <3>2, <3>3 DEF SlotCarries
  <2> QED BY <2>1, <2>2
<1> QED BY <1>2, <1>3, <1>5, <1>6 DEF StreamInv

LEMMA DelaysKeepsStreams ==
  ASSUME Table, StreamInv, NEW i \in Slot, OwnSlotOnly(i), Delays(i)
  PROVE  StreamInv'
<1> DEFINE o == cdata[i].owner
<1>1. PICK n \in Nat : asked' = [asked EXCEPT ![o] = @ + n]
  BY DEF Delays
<1>2. /\ ufd[i] = Closed /\ KernelSteady /\ UNCHANGED <<ufd, eof, out, ready>>
      /\ kernel[o] = "over" /\ o \in Conn /\ Closed \notin Conn
  BY ConnAssumption DEF Delays
<1>3. asked \in [Conn -> Nat] /\ out \in [Conn -> Buffer]
  BY DEF Table, TypeOK
<1> HIDE DEF o
<1>4. \A d \in Conn \ {o} : asked'[d] = asked[d]
  BY <1>1, <1>3
<1>5. asked[o] \in Nat /\ asked'[o] = asked[o] + n /\ Len(out[o]) \in Nat
  BY <1>1, <1>2, <1>3 DEF Buffer
<1>6. \A d \in Conn : Len(out'[d]) <= asked'[d]
  <2>1. Len(out[o]) <= asked[o]
    BY <1>2 DEF StreamInv
  <2>2. Len(out[o]) <= asked'[o]
    BY <1>5, <2>1
  <2> QED BY <1>2, <1>4, <2>2 DEF StreamInv
<1>7. kernel'[o] = "over" /\ \A d \in Conn : kernel[d] = "over" => kernel'[d] = "over"
  BY <1>2 DEF KernelSteady
<1>8. \A d \in Conn \ ready' : /\ asked'[d] = 0 \/ kernel'[d] = "over"
                               /\ eof'[d] = 0 /\ out'[d] = <<>>
  BY <1>2, <1>4, <1>7 DEF StreamInv
<1>9. ASSUME NEW k \in Slot, ufd'[k] \in Conn PROVE cdata'[k] = cdata[k]
  BY <1>2, <1>9 DEF OwnSlotOnly
<1>10. ASSUME NEW k \in Slot, Listening(ufd[k])', cdata'[k].connected
       PROVE  SlotCarries(k)'
  <2> DEFINE d == ufd[k]
  <2>1. ufd'[k] = d /\ cdata'[k] = cdata[k] /\ Listening(d) /\ d # o
    BY <1>2, <1>9, <1>10 DEF Listening, KernelSteady
  <2>2. asked'[d] = asked[d] /\ eof'[d] = eof[d] /\ out'[d] = out[d]
    BY <1>2, <1>4, <2>1 DEF Listening
  <2>3. SlotCarries(k)
    BY <1>10, <2>1 DEF StreamInv
  <2> QED BY <2>1, <2>2, <2>3 DEF SlotCarries
<1> QED BY <1>2, <1>6, <1>8, <1>9, <1>10 DEF StreamInv

LEMMA BranchKeepsStreams ==
  ASSUME Table, SocketsInv, ClosingInv, LateInv, StreamInv, NEW i \in Slot, Branch(i)
  PROVE  StreamInv'
<1> TypeOK
  BY DEF Table
<1> DEFINE c == ufd[i]
           q == cdata[i].xmit
           w == cdata[i].written
           lossy == c \in Outbound
<1>1. c \in Conn \union {Closed} /\ OwnSlotOnly(i) /\ Closed \notin Conn
  BY BranchStep, ConnAssumption
<1>2. /\ asked \in [Conn -> Nat] /\ eof \in [Conn -> Nat] /\ out \in [Conn -> Buffer]
      /\ kernel \in [Conn -> KernelState] /\ q \in Seq(Buffer) /\ w \in Int
  BY DEF TypeOK, SlotData
<1>3. lossy \in BOOLEAN
  OBVIOUS
<1>4. c \in Conn =>
        /\ Len(out[c]) <= asked[c]
        /\ c \notin ready => asked[c] = 0 /\ eof[c] = 0 /\ out[c] = <<>>
        /\ Listening(c) /\ cdata[i].connected =>
             Carries(q, w, out[c], asked[c], eof[c], lossy)
  BY DEF StreamInv, SlotCarries, SocketsInv, Held
<1> HIDE DEF lossy
<1>5. CASE Idles(i)
  <2>1. /\ UNCHANGED <<ufd, asked, eof, out, ready>>
        /\ \A d \in Conn : /\ kernel'[d] \in {"up", "fin"} => kernel[d] \in {"up", "fin"}
                           /\ kernel[d] = "over" => kernel'[d] = "over"
    BY <1>5 DEF Idles, KernelSteady
  <2>2. ASSUME c \in Conn
        PROVE  cdata'[i].connected /\ (kernel'[c] \in {"up", "fin"} => SlotCarriesNext(i))
    <3>1. cdata[i].connected /\ cdata'[i].connected
      BY <1>5, <2>2 DEF Idles
    <3>2. ASSUME kernel'[c] \in {"up", "fin"} PROVE SlotCarriesNext(i)
      <4>1. /\ cdata'[i].xmit = q /\ cdata'[i].written = w
            /\ asked'[c] = asked[c] /\ eof'[c] = eof[c] /\ out'[c] = out[c]
        BY <1>5, <2>1, <2>2, <3>2 DEF Idles
      <4>2. Carries(q, w, out[c], asked[c], eof[c], lossy)
        <5>1. Listening(c)
          BY <2>1, <2>2, <3>2 DEF Listening
        <5> QED BY <1>4, <2>2, <3>1, <5>1
      <4>3. Carries(cdata'[i].xmit, cdata'[i].written, out'[c], asked'[c], eof'[c], lossy)
        BY <4>1, <4>2
      <4> QED BY <4>3 DEF SlotCarriesNext, lossy
    <3> QED BY <3>1, <3>2
  <2>3. c \in Conn => /\ Len(out'[c]) <= asked'[c]
                      /\ c \notin ready' => asked'[c] = 0 /\ eof'[c] = 0 /\ out'[c] = <<>>
    BY <1>4, <2>1
  <2>4. \A d \in Conn : asked'[d] = asked[d] /\ eof'[d] = eof[d] /\ out'[d] = out[d]
    BY <2>1
  <2>5. \A d \in Conn : d \in ready => d \in ready'
    BY <2>1
  <2> HIDE DEF q, w
  <2> QED BY <1>1, <2>1, <2>2, <2>3, <2>4, <2>5, StreamStep
<1>6. CASE Answers(i)
  <2>1. /\ c \in Conn /\ c \notin Outbound /\ cdata[i].connected /\ cdata'[i].connected
        /\ UNCHANGED <<ufd, kernel, ready, out>>
    BY <1>6 DEF Answers
  <2>2. PICK n \in Nat \ {0} :
          /\ asked' = [asked EXCEPT ![c] = @ + n]
          /\ eof' = [eof EXCEPT ![c] = IF @ = 0 THEN asked[c] + n ELSE @]
          /\ cdata'[i].xmit = q \o <<Piece(asked[c], asked[c] + n), <<>>>>
          /\ cdata'[i].written = w
    BY <1>6 DEF Answers
  <2>3. c \in ready
    BY <2>1 DEF ClosingInv
  <2>4. asked'[c] = asked[c] + n /\ eof'[c] = IF eof[c] = 0 THEN asked[c] + n ELSE eof[c]
    BY <1>2, <2>1, <2>2
  <2>5. ASSUME Listening(c)
        PROVE  SlotCarriesNext(i)
    <3>1. lossy = FALSE
      BY <2>1 DEF lossy
    <3>2. Carries(q, w, out[c], asked[c], eof[c], FALSE)
      BY <1>4, <2>1, <2>5, <3>1
    <3>3. asked[c] \in Nat /\ eof[c] \in Nat /\ n \in Nat /\ n # 0
      BY <1>2, <2>1
    <3>4. Carries(q \o <<Piece(asked[c], asked[c] + n), <<>>>>, w, out[c], asked[c] + n,
                  IF eof[c] = 0 THEN asked[c] + n ELSE eof[c], FALSE)
      BY <1>2, <3>2, <3>3, AnswerQueued
    <3>5. Carries(cdata'[i].xmit, cdata'[i].written, out'[c], asked'[c], eof'[c], FALSE)
      BY <2>1, <2>2, <2>4, <3>4
    <3> QED BY <3>1, <3>5 DEF SlotCarriesNext, lossy
  <2>6. \A d \in Conn \ {c} : asked'[d] = asked[d] /\ eof'[d] = eof[d]
    BY <1>2, <2>2
  <2>7. Len(out'[c]) <= asked'[c]
    <3>1. Len(out[c]) \in Nat
      BY <1>2, <2>1 DEF Buffer
    <3>2. asked[c] \in Nat
      BY <1>2, <2>1
    <3> QED BY <1>4, <2>1, <2>2, <2>4, <3>1, <3>2
  <2> QED BY <1>1, <2>1, <2>3, <2>5, <2>6, <2>7, StreamStep DEF Listening
<1>7. CASE Sends(i)
  <2> DEFINE rest == Rest(Head(q), w)
  <2>1. /\ c \in Conn /\ Listening(c) /\ cdata[i].connected /\ cdata'[i].connected /\ q # <<>>
        /\ UNCHANGED <<ufd, kernel, ready, asked, eof>>
    BY <1>7 DEF Sends, Listening
  <2>2. PICK n \in 1 .. Len(rest) :
          /\ out' = [out EXCEPT ![c] = @ \o SubSeq(rest, 1, n)]
          /\ n + w = Len(Head(q)) => cdata'[i].xmit = Tail(q) /\ cdata'[i].written = 0
          /\ n + w # Len(Head(q)) => cdata'[i].xmit = q /\ cdata'[i].written = w + n
    BY <1>7 DEF Sends
  <2>3. out'[c] = out[c] \o SubSeq(rest, 1, n) /\ \A d \in Conn \ {c} : out'[d] = out[d]
    BY <1>2, <2>1, <2>2
  <2>4. out[c] \in Buffer /\ asked[c] \in Nat
    BY <1>2, <2>1
  <2>5. /\ Len(out'[c]) <= asked[c]
        /\ n + w = Len(Head(q)) => Carries(Tail(q), 0, out'[c], asked[c], eof[c], lossy)
        /\ n + w # Len(Head(q)) => Carries(q, w + n, out'[c], asked[c], eof[c], lossy)
    <3> DEFINE o == out[c]
               a == asked[c]
               e == eof[c]
               o2 == o \o SubSeq(rest, 1, n)
    <3>1. o \in Buffer /\ a \in Nat /\ q \in Seq(Buffer) /\ q # <<>> /\ w \in Int
      BY <1>2, <2>1, <2>4
    <3>2. Carries(q, w, o, a, e, lossy)
      BY <1>4, <2>1
    <3> HIDE DEF o, a, e, q, w
    <3>3. /\ Len(o2) <= a
          /\ n + w = Len(Head(q)) => Carries(Tail(q), 0, o2, a, e, lossy)
          /\ n + w # Len(Head(q)) => Carries(q, w + n, o2, a, e, lossy)
      BY <1>3, <3>1, <3>2, HeadSent
    <3>4. out'[c] = o2
      BY <2>3 DEF o
    <3> QED BY <3>3, <3>4 DEF a, e
  <2>6. Carries(cdata'[i].xmit, cdata'[i].written, out'[c], asked'[c], eof'[c], lossy)
    BY <2>1, <2>2, <2>5
  <2>7. c \in ready
    BY <2>1 DEF ClosingInv
  <2> QED BY <1>1, <2>1, <2>3, <2>5, <2>6, <2>7, StreamStep DEF SlotCarriesNext, lossy
<1>8. CASE Opens(i)
  <2>1. /\ c \in Conn /\ c \in Outbound /\ cdata'[i].connected
        /\ UNCHANGED <<ufd, kernel, eof>> /\ ready' = ready \union {c}
        /\ \A d \in Conn \ {c} : out'[d] = out[d]
    BY <1>8, ConnAssumption DEF Opens
  <2>2. PICK n \in Nat \ {0} :
          /\ asked' = [asked EXCEPT ![c] = n]
          /\ Len(out'[c]) <= n
          /\ Carries(cdata'[i].xmit, cdata'[i].written, out'[c], n, eof[c], TRUE)
    BY <1>8 DEF Opens
  <2>3. asked'[c] = n /\ \A d \in Conn \ {c} : asked'[d] = asked[d]
    BY <1>2, <2>1, <2>2
  <2>4. SlotCarriesNext(i)
    <3>1. lossy = TRUE
      BY <2>1 DEF lossy
    <3>2. Carries(cdata'[i].xmit, cdata'[i].written, out'[c], asked'[c], eof'[c], TRUE)
      BY <2>1, <2>2, <2>3
    <3> QED BY <3>1, <3>2 DEF SlotCarriesNext, lossy
  <2> QED BY <1>1, <2>1, <2>2, <2>3, <2>4, StreamStep
<1>9. CASE Hangs(i) \/ Drops(i)
  <2>1. /\ UNCHANGED <<asked, eof, out, ready>> /\ ufd'[i] = Closed
        /\ \A d \in Conn : kernel'[d] = IF d = c THEN "over" ELSE kernel[d]
    BY <1>9 DEF Hangs, Drops, Ends, GivesUp, Over
  <2> QED BY <1>1, <1>4, <2>1, StreamStep
<1> QED BY <1>1, <1>5, <1>6, <1>7, <1>8, <1>9, BranchStream, DelaysKeepsStreams

LEMMA ReadyHeld ==
  ASSUME Table, SocketsInv, ClosingInv, NEW k \in Slot, ufd[k] \in Conn, cdata[k].connected
  PROVE  ufd[k] \in ready /\ kernel[ufd[k]] \in {"up", "fin", "reset", "dead"}
BY DEF ClosingInv, SocketsInv, Held

(* The peers and the kernel, and steps that touch no slot.                  *)
LEMMA OutsideKeepsStreams ==
  ASSUME StreamInv, UNCHANGED <<ufd, cdata, asked, eof, out, ready>>,
         \A d \in Conn : kernel[d] = "over" => kernel'[d] = "over",
         \A k \in Slot : Listening(ufd[k])' /\ cdata[k].connected => Listening(ufd[k])
  PROVE  StreamInv'
<1>1. ASSUME NEW k \in Slot, Listening(ufd[k])', cdata'[k].connected
      PROVE  SlotCarries(k)'
  BY <1>1 DEF StreamInv, SlotCarries
<1> QED BY <1>1 DEF StreamInv

LEMMA OccupyKeepsStreams ==
  ASSUME Table, SocketsInv, ClosingInv, StreamInv, NEW c \in Conn, NEW j \in Slot,
         NEW connected \in BOOLEAN, NEW interest, TakeFreeIndex(j),
         Occupy(j, c, connected, interest),
         kernel[c] \in {"idle", "backlog"}, NEW to \in Held,
         kernel' = [kernel EXCEPT ![c] = to],
         ready \subseteq ready', UNCHANGED <<asked, eof, out>>
  PROVE  StreamInv'
<1>1. c \notin ready /\ \A k \in Slot : ufd[k] # c
  <2>1. c \notin ready
    BY DEF ClosingInv
  <2>2. \A k \in Slot : ufd[k] # c
    BY DEF SocketsInv, Held
  <2> QED BY <2>1, <2>2
<1>2. /\ ufd'[j] = c /\ cdata'[j] = NewSlotData(c, connected)
      /\ \A k \in Slot \ {j} : ufd'[k] = ufd[k] /\ cdata'[k] = cdata[k]
  BY OccupyStep
<1>3. cdata'[j].connected = connected /\ cdata'[j].xmit = <<>> /\ cdata'[j].written = 0
  BY <1>2 DEF NewSlotData
<1>4. \A d \in Conn : kernel'[d] = IF d = c THEN to ELSE kernel[d]
  BY DEF Table, TypeOK
<1>5. ASSUME NEW k \in Slot, ufd'[k] \in Conn, ~cdata'[k].connected
      PROVE  cdata'[k].written = 0
  BY <1>2, <1>3, <1>5 DEF StreamInv
<1>6. ASSUME NEW k \in Slot, Listening(ufd[k])', cdata'[k].connected
      PROVE  SlotCarries(k)'
  <2>1. CASE k = j
    <3>1. asked[c] = 0 /\ eof[c] = 0 /\ out[c] = <<>>
      BY <1>1 DEF StreamInv
    <3> DEFINE lossy == c \in Outbound
    <3>2. lossy \in BOOLEAN
      OBVIOUS
    <3> HIDE DEF lossy
    <3>3. Carries(<<>>, 0, <<>>, 0, 0, lossy)
      BY <3>2, NothingCarried
    <3>4. Carries(cdata'[j].xmit, cdata'[j].written, out'[c], asked'[c], eof'[c], lossy)
      BY <1>3, <3>1, <3>3
    <3> QED BY <1>2, <2>1, <3>4 DEF SlotCarries, lossy
  <2>2. CASE k # j
    <3> DEFINE d == ufd[k]
    <3>1. ufd'[k] = d /\ cdata'[k] = cdata[k] /\ d # c
      BY <1>1, <1>2, <2>2
    <3>2. Listening(d)
      BY <1>4, <1>6, <3>1 DEF Listening
    <3>3. SlotCarries(k)
      BY <1>6, <3>1, <3>2 DEF StreamInv
    <3> QED BY <3>1, <3>3 DEF SlotCarries
  <2> QED BY <2>1, <2>2
<1>7. \A d \in Conn : Len(out'[d]) <= asked'[d]
  BY DEF StreamInv
<1>8. \A d \in Conn \ ready' : /\ asked'[d] = 0 \/ kernel'[d] = "over"
                               /\ eof'[d] = 0 /\ out'[d] = <<>>
  BY <1>4 DEF StreamInv
<1> QED BY <1>5, <1>6, <1>7, <1>8 DEF StreamInv

LEMMA NextStreams ==
  ASSUME Table, SocketsInv, ClosingInv, LateInv, StreamInv, [Next]_vars
  PROVE  StreamInv'
<1> TypeOK
  BY DEF Table
<1>1. CASE UNCHANGED <<ufd, cdata, kernel, history>>
  BY <1>1, OutsideKeepsStreams DEF Listening, history
<1>2. ASSUME NEW c \in Conn, External(c) PROVE StreamInv'
  <2>1. UNCHANGED <<ufd, cdata, asked, eof, out, ready>>
    BY <1>2 DEF External, PeerDials, Established, Refused, PeerSends, PeerCloses,
           PeerResets, table, history
  <2>2. \A d \in Conn :
          kernel'[d] \in {"up", "fin"} => kernel[d] \in {"up", "fin", "connecting"}
    BY <1>2 DEF External, PeerDials, Established, Refused, PeerSends, PeerCloses,
           PeerResets, Becomes, TypeOK
  <2>3. \A k \in Slot : Listening(ufd[k])' /\ cdata[k].connected => Listening(ufd[k])
    BY <2>1, <2>2, ReadyHeld DEF Listening
  <2>4. \A d \in Conn : kernel[d] = "over" => kernel'[d] = "over"
    BY <1>2, ExternalKernel
  <2> QED BY <2>1, <2>3, <2>4, OutsideKeepsStreams
<1>3. ASSUME NEW c \in Conn, UNCHANGED <<ufd, cdata, asked, eof, out, ready>>,
             Becomes(c, {"idle", "backlog"}, "over")
      PROVE  StreamInv'
  <2>1. \A d \in Conn : kernel'[d] = IF d = c THEN "over" ELSE kernel[d]
    BY <1>3 DEF Becomes, TypeOK
  <2> QED BY <1>3, <2>1, OutsideKeepsStreams DEF Listening
<1>4. ASSUME NEW i \in Slot, NEW c \in Conn, NEW j \in Slot, Accept(i, c, j)
      PROVE  StreamInv'
  <2>1. CASE /\ Becomes(c, {"backlog"}, "up") /\ Occupy(j, c, TRUE, {"in"})
             /\ ready' = ready \union {c}
    BY <1>4, <2>1, OccupyKeepsStreams DEF Accept, Becomes, Held
  <2>2. CASE Becomes(c, {"backlog"}, "over") /\ UNCHANGED <<ufd, cdata, ready>>
    BY <1>3, <1>4, <2>2 DEF Accept, Becomes
  <2> QED BY <1>4, <2>1, <2>2 DEF Accept
<1>5. ASSUME NEW c \in Conn, NEW j \in Slot, Connect(c, j) PROVE StreamInv'
  BY <1>5, OccupyKeepsStreams DEF Connect, Becomes, history, Held
<1>6. ASSUME NEW c \in Conn, ConnectGivesUp(c) PROVE StreamInv'
  BY <1>3, <1>6 DEF ConnectGivesUp, Becomes, table, history
<1>7. ASSUME NEW i \in Slot, Branch(i) PROVE StreamInv'
  BY <1>7, BranchKeepsStreams
<1>8. ASSUME NEW i \in Slot, NEW j \in Slot, AcceptNothing(i, j) PROVE StreamInv'
  <2>1. UNCHANGED <<kernel, asked, eof, out, ready>>
    BY <1>8 DEF AcceptNothing, world, history
  <2>2. \A k \in Slot : ufd'[k] \in Conn => ufd'[k] = ufd[k] /\ cdata'[k] = cdata[k]
    BY <1>8, NothingStep, ConnAssumption
  <2>3. ASSUME NEW k \in Slot, Listening(ufd[k])', cdata'[k].connected
        PROVE  SlotCarries(k)'
    <3>1. ufd'[k] = ufd[k] /\ cdata'[k] = cdata[k] /\ Listening(ufd[k])
      BY <2>1, <2>2, <2>3 DEF Listening
    <3>2. SlotCarries(k)
      BY <2>3, <3>1 DEF StreamInv
    <3> QED BY <2>1, <3>1, <3>2 DEF SlotCarries
  <2> QED BY <2>1, <2>2, <2>3 DEF StreamInv
<1> QED BY <1>1, <1>2, <1>4, <1>5, <1>6, <1>7, <1>8
  DEF ConnectAborts, SendKilled, Dies, Next, Poll, EndCycle, Handle, Branch, vars,
      table, world, history

LEMMA StreamInvariant == Spec => [](IInv /\ StreamInv)
<1>1. Init => StreamInv
  <2> SUFFICES ASSUME Init PROVE StreamInv
    OBVIOUS
  <2>1. \A i \in Slot : ufd[i] \notin Conn
    BY ConnAssumption DEF Init
  <2>2. \A c \in Conn : Len(out[c]) <= asked[c] /\ asked[c] = 0 /\ eof[c] = 0 /\ out[c] = <<>>
    <3>1. \A c \in Conn : asked[c] = 0 /\ eof[c] = 0 /\ out[c] = <<>>
      BY DEF Init
    <3>2. Len(<<>>) <= 0
      OBVIOUS
    <3> QED BY <3>1, <3>2
  <2> QED BY <2>1, <2>2 DEF StreamInv, Listening
<1>2. IInv /\ StreamInv /\ [Next]_vars => StreamInv'
  BY NextStreams DEF IInv
<1> QED BY <1>1, <1>2, Invariant, PTL DEF Spec

(* Whatever the slots, queues and partial writes, the peer of every open    *)
(* connection has been sent, and will be sent, the bytes in the order they  *)
(* were handed over, each once.                                             *)
THEOREM StreamsStayIntact == Spec => []StreamIntact
<1>1. IInv /\ StreamInv => StreamIntact
  <2> SUFFICES ASSUME IInv, StreamInv, NEW i \in Slot, Listening(ufd[i]), cdata[i].connected
               PROVE  LET c == ufd[i]
                          queue == cdata[i].xmit
                          written == cdata[i].written
                      IN  /\ out[c] = Piece(0, Len(out[c]))
                          /\ 0 <= written
                          /\ written # 0 => queue # <<>> /\ written < Len(Head(queue))
                          /\ \E ends \in [0 .. Len(queue) -> 0 .. asked[c]] :
                               /\ ends[0] = Len(out[c]) - written
                               /\ InOrder(queue, ends)
                               /\ \/ ends[Len(queue)] = asked[c]
                                  \/ c \in Outbound /\ Contains(queue, <<>>)
    BY DEF StreamIntact
  <2> DEFINE c == ufd[i]
             w == cdata[i].written
  <2>1. PICK ends : InTransit(cdata[i].xmit, w, out[c], asked[c], eof[c], c \in Outbound, ends)
    BY DEF StreamInv, SlotCarries, Carries
  <2>2. w \in Int
    BY DEF IInv, Table, TypeOK, SlotData
  <2> QED BY <2>1, <2>2 DEF InTransit
<1> QED BY <1>1, StreamInvariant, PTL

-----------------------------------------------------------------------------
(* Every step of the loop is a step of the Conduit it keeps the promise of, *)
(* or changes nothing a Conduit has.                                        *)

Gone == {c \in Conn : kernel[c] \in {"fin", "reset", "dead"}}

Others(c) ==
  \A d \in Conn \ {c} :
    /\ State(d)' = State(d) /\ asked'[d] = asked[d] /\ eof'[d] = eof[d]
    /\ Len(out'[d]) = Len(out[d])

LEMMA Mapped ==
  \A c \in Conn :
    /\ [d \in Conn |-> State(d)][c] = State(c)
    /\ [d \in Conn |-> State(d)]'[c] = State(c)'
    /\ [d \in Conn |-> Len(out[d])][c] = Len(out[c])
    /\ [d \in Conn |-> Len(out[d])]'[c] = Len(out'[c])
OBVIOUS

LEMMA Transfers ==
  ASSUME NEW c \in Conn, Others(c), Gone' = Gone,
         State(c) # "closed", State(c)' = "open",
         asked'[c] >= asked[c],
         eof'[c] \in (IF eof[c] = 0 THEN {0, asked'[c]} ELSE {eof[c]}),
         Len(out[c]) <= Len(out'[c]), Len(out'[c]) <= asked'[c]
  PROVE  Promise!Next
BY Mapped DEF Promise!Next, Promise!Transfer, Promise!Unchanged, Others, Gone

LEMMA Hangups ==
  ASSUME NEW c \in Conn, Others(c), Gone' = Gone \ {c},
         State(c)' = "closed", asked'[c] = asked[c], eof'[c] = eof[c],
         Len(out'[c]) = Len(out[c]),
         \/ State(c) = "none"
         \/ /\ State(c) = "open"
            /\ c \in Gone \union Outbound \/ (eof[c] # 0 /\ Len(out[c]) = eof[c])
  PROVE  Promise!Next
BY Mapped DEF Promise!Next, Promise!HangUp, Promise!NeverOpened, Promise!MayHangUp,
              Promise!Unchanged, Others, Gone

LEMMA TooLate ==
  ASSUME NEW c \in Outbound, Others(c), Gone' = Gone,
         State(c) = "closed", State(c)' = "closed", asked'[c] >= asked[c],
         eof'[c] = eof[c], Len(out'[c]) = Len(out[c])
  PROVE  Promise!Next
BY Mapped, ConnAssumption
DEF Promise!Next, Promise!HandedTooLate, Promise!Unchanged, Others, Gone

LEMMA Stutters ==
  ASSUME \A c \in Conn : State(c)' = State(c), Gone' = Gone, UNCHANGED <<asked, eof, out>>
  PROVE  UNCHANGED Promise!vars
BY DEF Promise!vars, Gone

LEMMA GoneOver ==
  ASSUME NEW c \in Conn,
         \A d \in Conn : kernel'[d] = IF d = c THEN "over" ELSE kernel[d],
         UNCHANGED <<asked, eof, out, ready>>
  PROVE  /\ Others(c) /\ Gone' = Gone \ {c} /\ State(c)' = "closed"
         /\ asked'[c] = asked[c] /\ eof'[c] = eof[c] /\ Len(out'[c]) = Len(out[c])
BY DEF Others, Gone, State

LEMMA Unmoved ==
  ASSUME \A d \in Conn :
           /\ kernel'[d] = "over" <=> kernel[d] = "over"
           /\ kernel'[d] \in {"fin", "reset", "dead"} <=> kernel[d] \in {"fin", "reset", "dead"},
         UNCHANGED <<asked, eof, out, ready>>
  PROVE  UNCHANGED Promise!vars
<1>1. \A d \in Conn : State(d)' = State(d)
  BY DEF State
<1>2. Gone' = Gone
  BY DEF Gone
<1> QED BY <1>1, <1>2, Stutters

LEMMA OneMoves ==
  ASSUME NEW c \in Conn, UNCHANGED kernel,
         ready' = ready \/ ready' = ready \union {c},
         \A d \in Conn \ {c} : asked'[d] = asked[d] /\ eof'[d] = eof[d] /\ out'[d] = out[d]
  PROVE  Others(c) /\ Gone' = Gone
<1>1. \A d \in Conn \ {c} : State(d)' = State(d)
  BY DEF State
<1>2. \A d \in Conn \ {c} : Len(out'[d]) = Len(out[d])
  OBVIOUS
<1>3. Gone' = Gone
  BY DEF Gone
<1> QED BY <1>1, <1>2, <1>3 DEF Others

LEMMA SentGrows ==
  ASSUME NEW o \in Buffer, NEW rest \in Buffer, NEW n \in 1 .. Len(rest)
  PROVE  Len(o) <= Len(o \o SubSeq(rest, 1, n))
<1> DEFINE s == SubSeq(rest, 1, n)
<1>1. s \in Seq(Nat)
  <2>1. \A b \in 1 .. n : rest[b] \in Nat
    BY ElementOfSeq DEF Buffer
  <2>2. 1 \in Int /\ n \in Int
    BY DEF Buffer
  <2> QED BY <2>1, <2>2, SubSeqProperties
<1> HIDE DEF s
<1>2. Len(o \o s) = Len(o) + Len(s)
  BY <1>1, ConcatProperties DEF Buffer
<1>3. Len(o) \in Nat /\ Len(s) \in Nat
  BY <1>1 DEF Buffer
<1>4. Len(o) <= Len(o \o s)
  BY <1>2, <1>3
<1> QED BY <1>4 DEF s

LEMMA DelaysPromise ==
  ASSUME TypeOK, NEW i \in Slot, Delays(i)
  PROVE  Promise!Next
<1> DEFINE o == cdata[i].owner
<1>1. PICK n \in Nat : asked' = [asked EXCEPT ![o] = @ + n]
  BY DEF Delays
<1>2. /\ o \in Outbound /\ o \in Conn /\ kernel[o] = "over" /\ KernelSteady
      /\ UNCHANGED <<eof, out, ready>>
  BY ConnAssumption DEF Delays
<1> HIDE DEF o
<1>3. asked \in [Conn -> Nat]
  BY DEF TypeOK
<1>4. asked'[o] >= asked[o] /\ \A d \in Conn \ {o} : asked'[d] = asked[d]
  BY <1>1, <1>2, <1>3
<1>5. \A d \in Conn : /\ kernel'[d] = "over" <=> kernel[d] = "over"
                      /\ kernel'[d] \in {"fin", "reset", "dead"} <=>
                           kernel[d] \in {"fin", "reset", "dead"}
  BY <1>2 DEF KernelSteady
<1>6. Gone' = Gone /\ \A d \in Conn : State(d)' = State(d)
  BY <1>2, <1>5 DEF Gone, State
<1>7. State(o) = "closed"
  BY <1>2 DEF State
<1>8. Others(o)
  BY <1>2, <1>4, <1>6 DEF Others
<1> QED BY <1>2, <1>4, <1>6, <1>7, <1>8, TooLate

LEMMA BranchPromise ==
  ASSUME Table, SocketsInv, ClosingInv, LateInv, TypeOK', StreamInv, StreamInv',
         NEW i \in Slot, Branch(i)
  PROVE  Promise!Next \/ UNCHANGED Promise!vars
<1> TypeOK
  BY DEF Table
<1> DEFINE q == cdata[i].xmit
           w == cdata[i].written
<1>1. PICK c : c = ufd[i] /\ c \in Conn \union {Closed} /\ Closed \notin Conn
  BY BranchStep, ConnAssumption
<1>2. /\ asked \in [Conn -> Nat] /\ eof \in [Conn -> Nat] /\ out \in [Conn -> Buffer]
      /\ kernel \in [Conn -> KernelState] /\ q \in Seq(Buffer) /\ w \in Int
  BY DEF TypeOK, SlotData
<1>3. c \in Conn => kernel[c] \in Held /\ kernel[c] # "over"
  BY <1>1 DEF SocketsInv, Held
<1>4. c \in Conn /\ cdata[i].connected => c \in ready /\ State(c) = "open"
  BY <1>1, <1>3 DEF ClosingInv, State
<1>5. c \in Conn /\ ~cdata[i].connected => c \notin ready /\ State(c) = "none"
  BY <1>1, <1>3 DEF ClosingInv, State
<1>6. CASE Idles(i)
  BY <1>6, Unmoved DEF Idles, KernelSteady
<1>7. CASE Answers(i)
  <2>1. c \in Conn /\ cdata[i].connected /\ UNCHANGED <<kernel, ready, out>>
    BY <1>1, <1>7 DEF Answers
  <2>2. PICK n \in Nat \ {0} :
          /\ asked' = [asked EXCEPT ![c] = @ + n]
          /\ eof' = [eof EXCEPT ![c] = IF @ = 0 THEN asked[c] + n ELSE @]
    BY <1>1, <1>7 DEF Answers
  <2>3. asked'[c] = asked[c] + n /\ eof'[c] = IF eof[c] = 0 THEN asked[c] + n ELSE eof[c]
    BY <1>2, <2>1, <2>2
  <2>4. Others(c) /\ Gone' = Gone /\ State(c) # "closed" /\ State(c)' = "open"
    <3>1. \A d \in Conn \ {c} : asked'[d] = asked[d] /\ eof'[d] = eof[d] /\ out'[d] = out[d]
      BY <1>2, <2>1, <2>2
    <3>2. State(c) = "open" /\ State(c)' = "open"
      BY <1>4, <2>1 DEF State
    <3> QED BY <2>1, <3>1, <3>2, OneMoves
  <2>5. asked'[c] >= asked[c] /\ Len(out[c]) <= Len(out'[c]) /\ Len(out'[c]) <= asked'[c]
    <3>1. asked[c] \in Nat /\ Len(out[c]) \in Nat /\ out'[c] = out[c]
      BY <1>2, <2>1 DEF Buffer
    <3>2. Len(out'[c]) <= asked'[c]
      BY <2>1 DEF StreamInv
    <3> QED BY <2>3, <3>1, <3>2
  <2>6. eof'[c] \in (IF eof[c] = 0 THEN {0, asked'[c]} ELSE {eof[c]})
    BY <2>3
  <2> QED BY <2>1, <2>4, <2>5, <2>6, Transfers
<1>8. CASE Sends(i)
  <2> DEFINE rest == Rest(Head(q), w)
  <2>1. c \in Conn /\ cdata[i].connected /\ UNCHANGED <<kernel, ready, asked, eof>> /\ q # <<>>
    BY <1>1, <1>8 DEF Sends, Listening
  <2>2. PICK n \in 1 .. Len(rest) : out' = [out EXCEPT ![c] = @ \o SubSeq(rest, 1, n)]
    BY <1>1, <1>8 DEF Sends
  <2>3. out'[c] = out[c] \o SubSeq(rest, 1, n) /\ \A d \in Conn \ {c} : out'[d] = out[d]
    BY <1>2, <2>1, <2>2
  <2>4. Others(c) /\ Gone' = Gone /\ State(c) # "closed" /\ State(c)' = "open"
    <3>1. State(c) = "open" /\ State(c)' = "open"
      BY <1>4, <2>1 DEF State
    <3> QED BY <2>1, <2>3, <3>1, OneMoves
  <2>5. Len(out[c]) <= Len(out'[c])
    <3>1. Head(q) \in Buffer
      BY <1>2, <2>1
    <3>2. rest \in Buffer
      BY <1>2, <3>1, RestType
    <3>3. out[c] \in Buffer
      BY <1>2, <2>1
    <3> HIDE DEF rest
    <3> QED BY <2>3, <3>2, <3>3, SentGrows
  <2>6. Len(out'[c]) <= asked'[c] /\ asked'[c] >= asked[c]
    <3>1. asked'[c] = asked[c] /\ asked[c] \in Nat
      BY <1>2, <2>1
    <3>2. Len(out'[c]) <= asked'[c]
      BY <2>1 DEF StreamInv
    <3> QED BY <3>1, <3>2
  <2>7. eof'[c] \in (IF eof[c] = 0 THEN {0, asked'[c]} ELSE {eof[c]})
    BY <2>1
  <2> QED BY <2>1, <2>4, <2>5, <2>6, <2>7, Transfers
<1>9. CASE Opens(i)
  <2>1. /\ c \in Conn /\ ~cdata[i].connected
        /\ UNCHANGED <<kernel, eof>> /\ ready' = ready \union {c}
        /\ \A d \in Conn \ {c} : out'[d] = out[d]
    BY <1>1, <1>9, ConnAssumption DEF Opens
  <2>2. PICK n \in Nat \ {0} : asked' = [asked EXCEPT ![c] = n]
    BY <1>1, <1>9 DEF Opens
  <2>3. asked'[c] = n /\ \A d \in Conn \ {c} : asked'[d] = asked[d]
    BY <1>2, <2>1, <2>2
  <2>4. asked[c] = 0 /\ eof[c] = 0 /\ out[c] = <<>>
    BY <1>3, <1>5, <2>1 DEF StreamInv
  <2>5. Others(c) /\ Gone' = Gone /\ State(c) # "closed" /\ State(c)' = "open"
    <3>1. State(c)' = "open"
      BY <1>3, <2>1 DEF State
    <3>2. State(c) # "closed"
      BY <1>5, <2>1
    <3> QED BY <2>1, <2>3, <3>1, <3>2, OneMoves
  <2>6. Len(out[c]) <= Len(out'[c]) /\ Len(out'[c]) <= asked'[c] /\ asked'[c] >= asked[c]
    <3>1. Len(out[c]) = 0
      BY <2>4
    <3>2. Len(out'[c]) \in Nat
      <4>1. out'[c] \in Buffer
        BY <2>1 DEF TypeOK
      <4> QED BY <4>1 DEF Buffer
    <3>3. Len(out'[c]) <= asked'[c]
      BY <2>1 DEF StreamInv
    <3> QED BY <2>3, <2>4, <3>1, <3>2, <3>3
  <2>7. eof'[c] \in (IF eof[c] = 0 THEN {0, asked'[c]} ELSE {eof[c]})
    BY <2>1, <2>4
  <2> QED BY <2>1, <2>5, <2>6, <2>7, Transfers
<1>10. CASE Hangs(i)
  <2>1. /\ c \in Conn /\ cdata[i].connected /\ UNCHANGED <<asked, eof, out, ready>>
        /\ \A d \in Conn : kernel'[d] = IF d = c THEN "over" ELSE kernel[d]
        /\ c \in Gone \union Outbound \/ (eof[c] # 0 /\ Len(out[c]) = eof[c])
    BY <1>1, <1>10 DEF Hangs, Ends, Over, Gone
  <2> QED BY <1>4, <2>1, GoneOver, Hangups
<1>11. CASE Drops(i)
  <2>1. /\ ~cdata[i].connected /\ UNCHANGED <<asked, eof, out, ready>>
        /\ \A d \in Conn : kernel'[d] = IF d = c THEN "over" ELSE kernel[d]
    BY <1>1, <1>11 DEF Drops, GivesUp, Over
  <2>2. CASE c \in Conn
    BY <1>5, <2>1, <2>2, GoneOver, Hangups
  <2>3. CASE c \notin Conn
    BY <2>1, <2>3, Unmoved
  <2> QED BY <2>2, <2>3
<1> QED BY <1>6, <1>7, <1>8, <1>9, <1>10, <1>11, BranchStream, DelaysPromise

LEMMA NextPromise ==
  ASSUME IInv, TypeOK', StreamInv, StreamInv', [Next]_vars
  PROVE  Promise!Next \/ UNCHANGED Promise!vars
<1> Table /\ TypeOK /\ SocketsInv /\ ClosingInv /\ LateInv
  BY DEF IInv, Table
<1>1. CASE UNCHANGED <<kernel, history>>
  BY <1>1, Unmoved DEF history
<1>2. ASSUME NEW c \in Conn, External(c)
      PROVE  Promise!Next \/ UNCHANGED Promise!vars
  <2>1. UNCHANGED <<asked, eof, out, ready>>
    BY <1>2 DEF External, PeerDials, Established, Refused, PeerSends, PeerCloses,
           PeerResets, history
  <2>2. \A d \in Conn : State(d)' = State(d)
    BY <1>2, <2>1, ExternalKernel DEF State
  <2>3. CASE PeerCloses(c) \/ PeerResets(c)
    <3>1. Gone' = Gone \union {c}
      BY <2>3 DEF PeerCloses, PeerResets, Becomes, Gone, TypeOK
    <3>2. Promise!PeerGoes(c)
      BY <2>1, <2>2, <3>1 DEF Promise!PeerGoes, Gone
    <3> QED BY <3>2 DEF Promise!Next
  <2>4. CASE ~(PeerCloses(c) \/ PeerResets(c))
    <3>1. \A d \in Conn : kernel'[d] \in {"fin", "reset", "dead"} <=> kernel[d] \in {"fin", "reset", "dead"}
      BY <1>2, <2>4 DEF External, PeerDials, Established, Refused, PeerSends, Becomes, TypeOK
    <3>2. Gone' = Gone
      BY <3>1 DEF Gone
    <3> QED BY <2>1, <2>2, <3>2, Stutters
  <2> QED BY <2>3, <2>4
<1>3. ASSUME NEW c \in Conn, UNCHANGED <<asked, eof, out, ready>>,
             Becomes(c, {"idle", "backlog"}, "over")
      PROVE  Promise!Next
  <2>1. \A d \in Conn : kernel'[d] = IF d = c THEN "over" ELSE kernel[d]
    BY <1>3 DEF Becomes, TypeOK
  <2>2. State(c) = "none"
    BY <1>3 DEF Becomes, State, ClosingInv
  <2> QED BY <1>3, <2>1, <2>2, GoneOver, Hangups
<1>4. ASSUME NEW i \in Slot, NEW c \in Conn, NEW j \in Slot, Accept(i, c, j)
      PROVE  Promise!Next
  <2>1. CASE Becomes(c, {"backlog"}, "up") /\ ready' = ready \union {c}
    <3>1. \A d \in Conn : kernel'[d] = IF d = c THEN "up" ELSE kernel[d]
      BY <2>1 DEF Becomes, TypeOK
    <3>2. c \notin ready /\ kernel[c] = "backlog"
      BY <2>1 DEF Becomes, ClosingInv
    <3>3. UNCHANGED <<asked, eof, out>>
      BY <1>4 DEF Accept
    <3>4. Others(c) /\ Gone' = Gone /\ State(c) # "closed" /\ State(c)' = "open"
      BY <2>1, <3>1, <3>2, <3>3 DEF Others, Gone, State
    <3>5. asked[c] \in Nat /\ Len(out[c]) \in Nat /\ Len(out[c]) <= asked[c] /\ eof[c] = 0
      BY <3>2 DEF StreamInv, TypeOK, Buffer
    <3>6. /\ asked'[c] >= asked[c] /\ Len(out[c]) <= Len(out'[c]) /\ Len(out'[c]) <= asked'[c]
          /\ eof'[c] \in (IF eof[c] = 0 THEN {0, asked'[c]} ELSE {eof[c]})
      BY <3>3, <3>5
    <3> QED BY <3>4, <3>6, Transfers
  <2>2. CASE Becomes(c, {"backlog"}, "over") /\ UNCHANGED ready
    BY <1>3, <1>4, <2>2 DEF Accept, Becomes
  <2> QED BY <1>4, <2>1, <2>2 DEF Accept
<1>5. ASSUME NEW c \in Conn, NEW j \in Slot, Connect(c, j)
      PROVE  UNCHANGED Promise!vars
  <2>1. kernel[c] = "idle" /\ \A d \in Conn : kernel'[d] = IF d = c THEN "connecting" ELSE kernel[d]
    BY <1>5 DEF Connect, Becomes, TypeOK
  <2> QED BY <1>5, <2>1, Unmoved DEF Connect, history
<1>6. ASSUME NEW c \in Conn, ConnectGivesUp(c) PROVE Promise!Next
  BY <1>3, <1>6 DEF ConnectGivesUp, Becomes, history
<1>7. ASSUME NEW i \in Slot, Branch(i) PROVE Promise!Next \/ UNCHANGED Promise!vars
  BY <1>7, BranchPromise DEF IInv
<1> QED BY <1>1, <1>2, <1>4, <1>5, <1>6, <1>7
  DEF ConnectAborts, SendKilled, Dies, AcceptNothing, Next, Poll, EndCycle, Handle,
      Branch, vars, world, history

(* The loop implements a Conduit for every connection at once: the server   *)
(* never sends more than it was handed, and hangs up on a peer that still   *)
(* listens only when all that came before the end asked for was sent.       *)
THEOREM PromiseKept == Spec => KeepsPromise
<1>1. Init => Promise!Init
  <2> SUFFICES ASSUME Init PROVE Promise!Init
    OBVIOUS
  <2>1. \A c \in Conn : State(c) = "none" /\ Len(out[c]) = 0
    BY DEF Init, State
  <2>2. {c \in Conn : kernel[c] \in {"fin", "reset", "dead"}} = {}
    BY DEF Init
  <2>3. asked = [c \in Conn |-> 0] /\ eof = [c \in Conn |-> 0]
    BY DEF Init
  <2> QED BY <2>1, <2>2, <2>3 DEF Promise!Init
<1>2. (IInv /\ StreamInv) /\ (IInv /\ StreamInv)' /\ [Next]_vars => [Promise!Next]_(Promise!vars)
  BY NextPromise DEF IInv, Table
<1> QED BY <1>1, <1>2, StreamInvariant, PTL DEF Spec, KeepsPromise, Promise!Spec
=============================================================================
