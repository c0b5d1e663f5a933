------------------------------ MODULE SendPath ------------------------------
(***************************************************************************)
(* What a viewer asks for and what it can put together of the answers:     *)
(* requests over UDP with acknowledgements appended, answers of several    *)
(* packets cut by smvserver.lua, numbered, zero coded by sta_fmv.c, and    *)
(* lost, repeated or put in another order on the way.                      *)
(*                                                                         *)
(* A byte has MaxByte + 1 values, a folder, an item and a transfer is a    *)
(* byte, an S32 and an appended acknowledgement are two of them.  The six  *)
(* bytes of a header are never coded and are fields of the packet.  Every  *)
(* buffer is as long as it has to be; those of smvserver.lua hold 1500     *)
(* bytes, fewer than PerPacket items with long names take.  Names differ   *)
(* from those of SmvServer, the other half of smvserver.lua, for proofs    *)
(* about both.                                                             *)
(***************************************************************************)
EXTENDS Integers, SequencesExt

CONSTANTS
  MaxByte,       \* 255
  PerPacket,     \* 10: a packet of items is sent when it holds more
  MAX_SZ,        \* 1000: bytes of an asset in one packet
  Folders,       \* the children of each folder the inventory server has
  Assets,        \* and what the asset server has of each asset
  NotFound,
  MaxAsked, MaxHeard     \* bounds

Byte == 0 .. MaxByte

ASSUME ByteAssumption == MaxByte \in Nat /\ MaxByte >= 3
ASSUME PacketAssumption == PerPacket \in 0 .. MaxByte - 1 /\ MAX_SZ \in 1 .. MaxByte
ASSUME FoldersAssumption ==
  Folders \in [Byte -> [folders : Seq(Byte), items : Seq(Byte)] \cup {NotFound}]
ASSUME AssetsAssumption == Assets \in [Byte -> Seq(Byte) \cup {NotFound}]
ASSUME LimitsAssumption == MaxAsked \in 0 .. MaxByte /\ MaxHeard \in Nat

VARIABLES
  asked,       \* requests of the viewer, in order: the nth is transfer n
  up,          \* packets towards the server
  heard,       \* requests a handler has read
  requested,   \* the ones waiting for the answer of another server
  sent,        \* messages sent to the viewer: the nth has number n
  answers,     \* of each answer: its request, and the numbers it took
  down,        \* packets towards the viewer
  got          \* what the viewer read, by number

pathVars == <<asked, up, heard, requested, sent, answers, down, got>>

PathInit ==
  /\ asked = <<>> /\ up = {} /\ heard = <<>> /\ requested = {}
  /\ sent = <<>> /\ answers = <<>> /\ down = {} /\ got = <<>>

-----------------------------------------------------------------------------
(* Zero coding. *)

Run(n) == IF n = 0 THEN <<>> ELSE <<0, n>>

\* Seeded fault: the zero that fills the counter is not counted again.
EncodeByteForgets(e, b) ==
  IF b # 0 THEN [out |-> Append(e.out \o Run(e.zeros), b), zeros |-> 0]
  ELSE IF e.zeros = MaxByte THEN [out |-> e.out \o Run(MaxByte), zeros |-> 0]
  ELSE [e EXCEPT !.zeros = @ + 1]

\* One byte of the loop: zerocount, a byte itself, wraps after MaxByte.
EncodeByte(e, b) ==
  IF b # 0 THEN [out |-> Append(e.out \o Run(e.zeros), b), zeros |-> 0]
  ELSE IF e.zeros = MaxByte THEN [out |-> e.out \o Run(MaxByte), zeros |-> 1]
  ELSE [e EXCEPT !.zeros = @ + 1]

\* What the loop has written after each byte.
Encoding(body) ==
  LET after[n \in 0 .. Len(body)] ==
        IF n = 0 THEN [out |-> <<>>, zeros |-> 0] ELSE EncodeByte(after[n - 1], body[n])
  IN after

ZeroEncode(body) == LET e == Encoding(body)[Len(body)] IN e.out \o Run(e.zeros)

DecodeByte(d, b) ==
  IF d.counts THEN [out |-> d.out \o [i \in 1 .. b |-> 0], counts |-> FALSE]
  ELSE IF b = 0 THEN [d EXCEPT !.counts = TRUE]
  ELSE [d EXCEPT !.out = Append(@, b)]

Decoding(bytes) ==
  LET after[n \in 0 .. Len(bytes)] ==
        IF n = 0 THEN [out |-> <<>>, counts |-> FALSE] ELSE DecodeByte(after[n - 1], bytes[n])
  IN after

\* The whole packet: acknowledgements appended to it are decoded as well.
ZeroDecode(bytes) == Decoding(bytes)[Len(bytes)].out

MaybeZeroEncode(m) == IF m.zerocoded THEN ZeroEncode(m.body) ELSE m.body

MaybeZeroDecode(p) == IF p.zerocoded THEN ZeroDecode(p.bytes) ELSE p.bytes

-----------------------------------------------------------------------------
(* Messages.  The first byte of a body is the number of the message. *)

U8(n) == n % (MaxByte + 1)
S32(n) == <<U8(n), U8(n \div (MaxByte + 1))>>
FromS32(lo, hi) == lo + (MaxByte + 1) * hi

FetchDescendents == 0
TransferRequest == 1
Request(n, kind, id) == <<kind, n, id>>

PacketAck == [zerocoded |-> FALSE, body |-> <<0>>]

Descendents(id, folders, items, total) ==
  [zerocoded |-> TRUE,
   body |-> <<1, id>> \o S32(total)
             \o <<U8(Len(folders))>> \o folders \o <<U8(Len(items))>> \o items]

TransferInfo(n, status, size) ==
  [zerocoded |-> TRUE, body |-> <<2, n, status>> \o S32(size)]

TransferPacket(n, packet, status, data) ==
  [zerocoded |-> FALSE, body |-> <<3, n>> \o S32(packet) \o <<status, U8(Len(data))>> \o data]

FolderElements(ids) == [i \in 1 .. Len(ids) |-> [ID |-> ids[i], IsFolder |-> TRUE]]
ItemElements(ids) == [i \in 1 .. Len(ids) |-> [ID |-> ids[i], IsFolder |-> FALSE]]

\* invloc_retrieve_child_elements: the folder itself, then its children.
ChildElements(id, children) == FolderElements(<<id>>) \o children

\* Both lists of the inventory server.
Desc(id) ==
  IF Folders[id] = NotFound THEN [Folders |-> <<>>, Items |-> <<>>]
  ELSE [Folders |-> ChildElements(id, FolderElements(Folders[id].folders)),
        Items   |-> ChildElements(id, ItemElements(Folders[id].items))]

\* smv_cb_inventory_descendents: a loop over the first list,
AddFolder(folders, item) == IF item.IsFolder THEN Append(folders, item.ID) ELSE folders

FolderBlocks(id) ==
  LET list == Desc(id).Folders
      after[n \in 0 .. Len(list)] ==
        IF n = 0 THEN <<>> ELSE AddFolder(after[n - 1], list[n])
  IN after

\* Seeded fault: the folders are written to every packet.
AddItemKeepsFolders(id, s, item) ==
  LET items == Append(s.items, item.ID) IN
  IF item.IsFolder THEN s
  ELSE IF Len(items) > PerPacket
    THEN [s EXCEPT !.done = Append(@, Descendents(id, s.folders, items, Len(s.folders) + Len(items))),
                   !.items = <<>>]
    ELSE [s EXCEPT !.items = items]

\* and one over the other, that sends a packet as soon as it is full.
AddItem(id, s, item) ==
  LET items == Append(s.items, item.ID) IN
  IF item.IsFolder THEN s
  ELSE IF Len(items) > PerPacket
    THEN [done |-> Append(s.done, Descendents(id, s.folders, items, Len(s.folders) + Len(items))),
          folders |-> <<>>, items |-> <<>>]
    ELSE [s EXCEPT !.items = items]

\* The packets it has sent after each item, and what it has not.
Packing(id) ==
  LET desc == Desc(id)
      after[n \in 0 .. Len(desc.Items)] ==
        IF n = 0 THEN [done |-> <<>>, folders |-> FolderBlocks(id)[Len(desc.Folders)], items |-> <<>>]
        ELSE AddItem(id, after[n - 1], desc.Items[n])
  IN after

\* The rest with the lengths of both lists, then a packet with nothing.
DescendentsMessages(id) ==
  LET desc == Desc(id)
      s == Packing(id)[Len(desc.Items)]
  IN s.done \o <<Descendents(id, s.folders, s.items, Len(desc.Folders) + Len(desc.Items)),
                 Descendents(id, <<>>, <<>>, 0)>>

\* Seeded fault: a piece starts with the last byte of the one before.
PieceOverlaps(data, i) == SubSeq(data, Max({1, i * MAX_SZ}), Min({Len(data), (i + 1) * MAX_SZ}))

Piece(data, i) == SubSeq(data, i * MAX_SZ + 1, Min({Len(data), (i + 1) * MAX_SZ}))

\* In one shot when it fits, else piece by piece with the status on the last.
TransferMessages(n, data) ==
  IF data = NotFound THEN <<TransferInfo(n, 1, 0)>>
  ELSE LET last == IF Len(data) <= MAX_SZ THEN 0 ELSE (Len(data) - 1) \div MAX_SZ IN
       <<TransferInfo(n, 0, Len(data))>>
       \o [i \in 1 .. last + 1 |-> TransferPacket(n, i - 1, IF i = last + 1 THEN 1 ELSE 0, Piece(data, i - 1))]

-----------------------------------------------------------------------------
(* The server. *)

Packet(seq, m) == [seq |-> seq, zerocoded |-> m.zerocoded, bytes |-> MaybeZeroEncode(m)]

\* smv_send_then_unlock for one message after the other: sess.seq counts them.
Send(messages) ==
  /\ sent' = sent \o messages
  /\ down' = down \cup {Packet(Len(sent) + i, messages[i]) : i \in DOMAIN messages}

\* smv_packet of pktsmv.c and smvserver.lua: decode, acknowledge, read, and ask
\* the inventory or the asset server.
ServerHears(p) ==
  /\ Len(heard) < MaxHeard
  /\ LET d == MaybeZeroDecode(p)
         request == [kind |-> d[1], n |-> d[2], id |-> d[3]] IN
     /\ heard' = Append(heard, request)
     /\ requested' = requested \cup {[request |-> request, turn |-> Len(heard)]}
  /\ Send(<<PacketAck>>)
  /\ UNCHANGED <<asked, up, answers, got>>

Answer(q, messages) ==
  /\ requested' = requested \ {q}
  /\ Send(messages)
  /\ answers' = Append(answers, [request |-> q.request, first |-> Len(sent) + 1,
                                 last |-> Len(sent) + Len(messages)])
  /\ UNCHANGED <<asked, up, heard, got>>

\* smv_cb_inventory_descendents
InventoryAnswers(q) ==
  /\ q.request.kind = FetchDescendents
  /\ Answer(q, DescendentsMessages(q.request.id))

\* smv_cb_asset_client_asset: an asset server that hung up is one that has
\* no such asset.
AssetAnswers(q) ==
  /\ q.request.kind = TransferRequest
  /\ \E asset \in {Assets[q.request.id], NotFound} :
       Answer(q, TransferMessages(q.request.n, asset))

-----------------------------------------------------------------------------
(* The viewer, and a network that keeps packets for ever. *)

AppendedAcks == {<<>>} \cup {<<a, b, 1>> : a, b \in {0, MaxByte}}

ViewerAsks ==
  /\ Len(asked) < MaxAsked
  /\ \E kind \in {FetchDescendents, TransferRequest}, id \in Byte, acks \in AppendedAcks :
       LET n == Len(asked) IN
       /\ asked' = Append(asked, [kind |-> kind, n |-> n, id |-> id])
       /\ up' = up \cup {[zerocoded |-> TRUE, bytes |-> ZeroEncode(Request(n, kind, id)) \o acks]}
  /\ UNCHANGED <<heard, requested, sent, answers, down, got>>

\* A packet with a number it has is dropped, and so is an acknowledgement.
ViewerReads(p) ==
  /\ p.seq \notin DOMAIN got /\ p.bytes # PacketAck.body
  /\ got' = [s \in DOMAIN got \cup {p.seq} |-> IF s = p.seq THEN MaybeZeroDecode(p) ELSE got[s]]
  /\ UNCHANGED <<asked, up, heard, requested, sent, answers, down>>

PathNext ==
  \/ ViewerAsks
  \/ \E p \in up : ServerHears(p)
  \/ \E q \in requested : InventoryAnswers(q)
  \/ \E q \in requested : AssetAnswers(q)
  \/ \E p \in down : ViewerReads(p)

PathSpec == PathInit /\ [][PathNext]_pathVars

-----------------------------------------------------------------------------
(* Properties. *)

Requests == [kind : {FetchDescendents, TransferRequest}, n : Byte, id : Byte]

\* Requests, answers and packets have their types: what is sent is bytes.
PathTypeOK ==
  /\ asked \in Seq(Requests) /\ heard \in Seq(Requests)
  /\ \A p \in up : p.bytes \in Seq(Byte)
  /\ requested \subseteq [request : Requests, turn : Nat]
  /\ \A i \in DOMAIN sent : sent[i].body \in Seq(Byte)
  /\ \A p \in down : p.seq \in 1 .. Len(sent) /\ p.bytes \in Seq(Byte)
  /\ answers \in Seq([request : Requests, first : Nat, last : Nat])
  /\ DOMAIN got \subseteq 1 .. Len(sent)

\* A handler reads what the viewer asked for, whatever acknowledgements were
\* appended to the packet and decoded with it, and of every number the viewer
\* reads what was sent with it: bytes, however many zeros followed each other.
ReadAsSent ==
  /\ PathTypeOK
  /\ ToSet(heard) \subseteq ToSet(asked)
  /\ \A s \in DOMAIN got : got[s] = sent[s].body

\* An S32 holds numbers of two bytes.
Fits(n) == n < (MaxByte + 1) * (MaxByte + 1)

\* A byte counts the folders of an answer, an S32 its entries or its bytes.
AnswersFit ==
  \A id \in Byte :
    /\ Len(Desc(id).Folders) <= MaxByte
    /\ Fits(Len(Desc(id).Folders) + Len(Desc(id).Items))
    /\ Assets[id] # NotFound => Fits(Len(Assets[id]))

FoldersOf(body) == SubSeq(body, 6, 5 + body[5])
ItemsOf(body) == SubSeq(body, 7 + body[5], 6 + body[5] + body[6 + body[5]])

\* A viewer that got all packets of an answer has the folder, each folder and
\* each item in it once, and nothing of a folder nobody has; no packet has more
\* than its share.  One packet tells how many there are, one more than there
\* are: the folder heads both lists, and both are counted before the second is
\* left without it.
NothingMissing ==
  \A a \in ToSet(answers) :
    a.request.kind = FetchDescendents /\ a.first .. a.last \subseteq DOMAIN got
      => LET Body(i) == got[a.first + i - 1]
             packets == 1 .. a.last - a.first + 1
             folders == FlattenSeq([i \in packets |-> FoldersOf(Body(i))])
             items == FlattenSeq([i \in packets |-> ItemsOf(Body(i))])
             Told(n) == \E i \in packets : FromS32(Body(i)[3], Body(i)[4]) = n
             id == a.request.id IN
         /\ IF Folders[id] = NotFound THEN folders = <<>> /\ items = <<>> /\ Told(0)
            ELSE /\ folders = <<id>> \o Folders[id].folders
                 /\ items = Folders[id].items
                 /\ Told(Len(folders) + Len(items) + 1)
         /\ \A i \in packets : Len(ItemsOf(Body(i))) <= PerPacket + 1

\* What the viewer got of transfer n.
PacketsOf(n) == {got[s] : s \in {s \in DOMAIN got : got[s][1] = 3 /\ got[s][2] = n}}

\* A viewer that has the last packet of a transfer and all before it, in
\* whatever order they came and however many answers they are from, has the
\* asset.  It was told the size it has, or by an answer made when the asset
\* server hung up that there is none.
TransferReassembles ==
  \A request \in ToSet(asked) :
    LET packets == PacketsOf(request.n)
        Number(p) == FromS32(p[3], p[4])
        Data(i) == LET p == CHOOSE p \in packets : Number(p) = i IN SubSeq(p, 7, 6 + p[6])
    IN \A last \in packets :
         last[5] = 1 /\ (\A i \in 0 .. Number(last) : \E p \in packets : Number(p) = i)
           => LET data == FlattenSeq([i \in 1 .. Number(last) + 1 |-> Data(i - 1)]) IN
              /\ data = Assets[request.id]
              /\ \A s \in DOMAIN got :
                   got[s][1] = 2 /\ got[s][2] = request.n
                     => \/ got[s][3] = 0 /\ FromS32(got[s][4], got[s][5]) = Len(data)
                        \/ got[s][3] = 1 /\ FromS32(got[s][4], got[s][5]) = 0
=============================================================================
