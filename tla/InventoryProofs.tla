-------------------------- MODULE InventoryProofs ---------------------------
(***************************************************************************)
(* What Inventory promises, for any number of sessions, agents, socket     *)
(* indexes, parts of an answer and restarts.                               *)
(*                                                                         *)
(* ClientInv says which request and which buffer an index has in each      *)
(* state of its connection, and that no two indexes share one.  Trees says *)
(* what an entry is by its id, and that folders and their parents agree.   *)
(* Fresh keeps an item from being there before the request that creates it *)
(* is handled; Stored and Told tie what requests name, and what answers    *)
(* name, to inventories that only grow.  NilAssets and Bare say whose item *)
(* has no AssetID and who is shown it.                                     *)
(***************************************************************************)
EXTENDS Inventory, SequenceTheorems, WellFoundedInduction, TLAPS

Ids ==
  {zero_uuid, wearables, TypeParent, LibraryItem, LibraryAsset}
    \cup {Item(n) : n \in Nat} \cup {Asset(n) : n \in Nat}
    \cup {Root(o) : o \in Agents \cup {Library}}
    \cup {<<"clothing", a>> : a \in Agents} \cup {<<"folder", f>> : f \in Folders}

Requests == [session : Sessions, cmd : Commands, arg : Ids, asset : Ids]
Named == Ids \cup {nil}     \* what an answer can name
ItemIds == {LibraryItem} \cup {Item(n) : n \in Nat}
States == {"closed", "connecting", "sending", "asked", "answered", "over"}
Outcomes == {"pending", "called", "raised", "gone", "refused", "failed", "lost"}
Numbers == Made \cup {NoRequest}
Buffers == {SendBuffer(r) : r \in Nat}

\* A request whose answer shows items to an agent that updated the library's
\* without naming an asset.
Excused(r) ==
  LET q == async_requests_store[r] IN
  /\ q.cmd \in {"wearables", "fetch_descendents"}
  /\ UpdateNamesNoAsset(AgentOf[q.session], LibraryItem)

-----------------------------------------------------------------------------
(* The client. *)

ClientTyped ==
  /\ async_requests_store \in Seq(Requests)
  /\ is \in [Idx -> [req : Numbers, recv : Numbers, got : 0 .. Chunks]]
  /\ conn \in [Idx -> [state : States, asked : Numbers, answer : SUBSET Named,
                       left : 0 .. Chunks, queued : SUBSET Buffers]]
  /\ live \subseteq Made /\ whole \subseteq Made
  /\ outcome \in [Made -> Outcomes]
  /\ hung \subseteq Made

\* An index has the request of its connection while there is one, the buffer
\* of that request once its connection was ready, and of what is answered as
\* much as was not read is left.
EntryFits(i) ==
  /\ conn[i].state = "closed" => is[i].req = NoRequest /\ is[i].got = 0
  /\ conn[i].state # "closed" => is[i].req \in Made /\ outcome[is[i].req] = "pending"
  /\ conn[i].state = "connecting" => is[i].recv = NoRequest
  /\ conn[i].state \in {"sending", "asked", "answered", "over"} =>
       is[i].recv = is[i].req /\ conn[i].asked = is[i].req
  /\ conn[i].state \in {"connecting", "sending", "asked"} => is[i].got = 0
  /\ conn[i].state = "answered" => is[i].got + conn[i].left = Chunks
  /\ conn[i].state # "answered" => conn[i].left = 0 /\ conn[i].answer = NoAnswer
  /\ conn[i].state = "over" => is[i].req \in hung
  /\ conn[i].queued \subseteq {SendBuffer(is[i].req)}
  /\ conn[i].state \notin {"sending", "over"} => conn[i].queued = {}

\* Two indexes have no request and no buffer in common.
Apart ==
  \A i, j \in Idx :
    /\ i # j /\ is[i].req # NoRequest => is[i].req # is[j].req /\ is[i].req # is[j].recv
    /\ i # j /\ is[i].recv # NoRequest => is[i].recv # is[j].recv

Allocated == live = {is[i].recv : i \in Idx} \ {NoRequest}

\* What goes out is queued somewhere or lost in one of the two ways.
OutCounted ==
  /\ \A i \in Idx : conn[i].queued \subseteq out
  /\ \A b \in out : b \in Leaked \/ \E i \in Idx : b \in conn[i].queued

ClientInv ==
  /\ ClientTyped
  /\ \A i \in Idx : EntryFits(i)
  /\ Apart
  /\ Allocated
  /\ OutCounted
  /\ AnswersNotLost

\* What excuses an error goes on excusing it while the store grows.
LEMMA ErrorsExcused ==
  ASSUME AnswersNotLost, Made \subseteq Made', hung \subseteq hung',
         \A m \in Made : async_requests_store'[m] = async_requests_store[m],
         \A m \in Made' : outcome'[m] = "raised" =>
           m \in Made /\ (outcome[m] = "raised" \/ m \in hung' \/ Excused(m))
  PROVE  AnswersNotLost'
<1>1. \A m \in Made : Excused(m) => Excused(m)'
  BY DEF Excused, UpdateNamesNoAsset
<1>2. \A m \in Made : outcome[m] = "raised" => m \in hung \/ Excused(m)
  BY DEF AnswersNotLost, Excused
<1>3. \A m \in Made' : outcome'[m] = "raised" => m \in hung' \/ Excused(m)'
  BY <1>1, <1>2
<1> QED BY <1>3 DEF AnswersNotLost, Excused

\* What is lost stays lost.
LEMMA LeakedGrows ==
  ASSUME Made \subseteq Made', whole \subseteq whole',
         \A m \in Made : outcome[m] = "refused" => outcome'[m] = "refused"
  PROVE  Leaked \subseteq Leaked'
BY DEF Leaked

LEMMA OutStays ==
  ASSUME OutCounted, out' = out, Leaked \subseteq Leaked',
         \A i \in Idx : conn'[i].queued = conn[i].queued
  PROVE  OutCounted'
BY DEF OutCounted

\* Two indexes queue different buffers, so one queue can be dropped.
LEMMA OutDropped ==
  ASSUME ClientInv, NEW i \in Idx, out' = out \ conn[i].queued, Leaked \subseteq Leaked',
         conn'[i].queued = {}, \A j \in Idx \ {i} : conn'[j].queued = conn[j].queued
  PROVE  OutCounted'
<1>1. ASSUME NEW j \in Idx \ {i}, NEW b \in conn[j].queued
      PROVE  b \notin conn[i].queued
  <2>1. conn[j].state # "closed" /\ b = SendBuffer(is[j].req)
    BY <1>1 DEF ClientInv, EntryFits
  <2>2. is[j].req # NoRequest
    BY <2>1 DEF ClientInv, EntryFits, Made, NoRequest
  <2>3. is[j].req # is[i].req
    BY <2>2 DEF ClientInv, Apart
  <2>4. b # SendBuffer(is[i].req)
    BY <2>1, <2>3 DEF SendBuffer
  <2> QED BY <2>4 DEF ClientInv, EntryFits
<1> QED BY <1>1 DEF ClientInv, OutCounted

\* The first free index is one of the free ones.
LEMMA MinIsIn ==
  ASSUME NEW S \in SUBSET Nat, S # {}
  PROVE  Min(S) \in S
<1>1. IsWellFoundedOn(OpToRel(<, Nat), Nat)
  BY NatLessThanWellFounded
<1>2. \E x \in S : \A y \in S : ~ (<<y, x>> \in OpToRel(<, Nat))
  BY <1>1, WFMin
<1>3. \A x, y \in Nat : <<y, x>> \in OpToRel(<, Nat) <=> y < x
  BY DEF OpToRel
<1>4. PICK x \in S : \A y \in S : ~(y < x)
  BY <1>2, <1>3
<1>5. \A y \in S : x <= y
  BY <1>4
<1> QED BY <1>5 DEF Min

LEMMA ClientInitially == Init => ClientInv
<1> SUFFICES ASSUME Init PROVE ClientInv
  OBVIOUS
<1> USE DEF Init, ClientInit
<1>1. Len(async_requests_store) = 0 /\ Made = {}
  BY DEF Made
<1>2. <<>> \in Seq(Requests)
  BY EmptySeq
<1>3. ClientTyped
  BY <1>1, <1>2, ChunksAssumption
     DEF ClientTyped, Numbers, NoEntry, Closed, NoRequest, NoAnswer, States
<1>4. \A i \in Idx : EntryFits(i)
  BY DEF EntryFits, NoEntry, Closed, NoRequest
<1>5. Apart
  BY DEF Apart, NoEntry, NoRequest
<1>6. Allocated
  BY DEF Allocated, NoEntry
<1>7. AnswersNotLost
  BY <1>1 DEF AnswersNotLost
<1>8. OutCounted
  BY DEF OutCounted, Closed
<1> QED BY <1>3, <1>4, <1>5, <1>6, <1>7, <1>8 DEF ClientInv

\* A request that is put in the store gets a number of its own.
LEMMA StoreGrows ==
  ASSUME ClientTyped, NEW a \in Requests,
         async_requests_store' = Append(async_requests_store, a)
  PROVE  LET r == Len(async_requests_store) + 1 IN
         /\ async_requests_store' \in Seq(Requests)
         /\ r \in Nat /\ r # NoRequest /\ r \notin Made /\ Made' = Made \cup {r}
         /\ Made \subseteq Nat /\ NoRequest \notin Made /\ Numbers \subseteq Numbers'
         /\ \A m \in Made : async_requests_store'[m] = async_requests_store[m]
         /\ async_requests_store'[r] = a
<1> DEFINE s == async_requests_store
           r == Len(s) + 1
<1>1. s \in Seq(Requests)
  BY DEF ClientTyped
<1>2. Len(s) \in Nat /\ Made = 1 .. Len(s)
  BY <1>1, LenProperties DEF Made
<1>3. /\ Append(s, a) \in Seq(Requests) /\ Len(Append(s, a)) = Len(s) + 1
      /\ \A m \in 1 .. Len(s) : Append(s, a)[m] = s[m]
      /\ Append(s, a)[Len(s) + 1] = a
  BY <1>1, AppendProperties
<1>4. Made' = 1 .. (Len(s) + 1)
  BY <1>3 DEF Made
<1> HIDE DEF s
<1>5. r \in Nat /\ r # NoRequest /\ r \notin Made /\ Made' = Made \cup {r} /\ NoRequest \notin Made
  BY <1>2, <1>4 DEF NoRequest
<1>6. Made \subseteq Nat /\ Numbers \subseteq Numbers'
  BY <1>2, <1>5 DEF Numbers
<1> QED BY <1>2, <1>3, <1>5, <1>6 DEF s

LEMMA MakeReqKeepsClient ==
  ASSUME ClientInv, NEW a \in Requests, NEW posted, MakeReq(a, posted), hung' = hung
  PROVE  ClientInv'
<1> DEFINE r == Len(async_requests_store) + 1
<1>0. async_requests_store' = Append(async_requests_store, a)
  BY DEF MakeReq
<1>1. /\ async_requests_store' \in Seq(Requests)
      /\ r \in Nat /\ r # NoRequest /\ r \notin Made /\ Made' = Made \cup {r}
      /\ Made \subseteq Nat /\ NoRequest \notin Made /\ Numbers \subseteq Numbers'
  BY <1>0, StoreGrows DEF ClientInv
<1>2. \A o : outcome' = Append(outcome, o) /\ o \in Outcomes =>
        /\ outcome' \in [Made' -> Outcomes]
        /\ outcome'[r] = o
        /\ \A m \in Made : outcome'[m] = outcome[m]
  <2> SUFFICES ASSUME NEW o \in Outcomes, outcome' = Append(outcome, o)
               PROVE  /\ outcome' \in [Made' -> Outcomes]
                      /\ outcome'[r] = o
                      /\ \A m \in Made : outcome'[m] = outcome[m]
    OBVIOUS
  <2>1. Len(async_requests_store) \in Nat
    BY LenProperties DEF ClientInv, ClientTyped
  <2>2. outcome \in [1 .. Len(async_requests_store) -> Outcomes]
    BY DEF ClientInv, ClientTyped, Made
  <2>3. outcome \in Seq(Outcomes) /\ Len(outcome) = Len(async_requests_store)
    BY <2>1, <2>2
  <2>4. /\ Append(outcome, o) \in Seq(Outcomes) /\ Len(Append(outcome, o)) = Len(outcome) + 1
        /\ \A m \in 1 .. Len(outcome) : Append(outcome, o)[m] = outcome[m]
        /\ Append(outcome, o)[Len(outcome) + 1] = o
    BY <2>3, AppendProperties
  <2>5. outcome' \in [1 .. Len(outcome') -> Outcomes]
    BY <2>4, LenProperties
  <2>6. Made' = 1 .. r
    BY <1>0, LenProperties, AppendProperties DEF Made, ClientInv, ClientTyped
  <2>7. Len(outcome') = r
    BY <2>3, <2>4
  <2>8. outcome' \in [Made' -> Outcomes]
    BY <2>5, <2>6, <2>7
  <2> QED BY <2>3, <2>4, <2>8 DEF Made
<1> HIDE DEF r
<1>21. \A m \in Made : async_requests_store'[m] = async_requests_store[m]
  BY <1>0, StoreGrows DEF ClientInv
<1>3. CASE /\ outcome' = Append(outcome, "refused")
           /\ out' = out \cup (IF posted THEN {PostBuffer(r)} ELSE {})
           /\ UNCHANGED <<is, conn, live, whole>>
  <2>1. outcome' = Append(outcome, "refused") /\ UNCHANGED <<is, conn, live, whole>>
    BY <1>3
  <2>2. outcome' \in [Made' -> Outcomes] /\ outcome'[r] = "refused" /\ \A m \in Made : outcome'[m] = outcome[m]
    BY <1>2, <2>1 DEF Outcomes
  <2>3. ClientTyped'
    BY <1>1, <2>1, <2>2 DEF ClientInv, ClientTyped
  <2>4. \A i \in Idx : EntryFits(i)'
    BY <1>1, <2>1, <2>2 DEF ClientInv, EntryFits
  <2>5. Apart' /\ Allocated'
    BY <2>1 DEF ClientInv, Apart, Allocated
  <2>6. AnswersNotLost'
    BY <1>1, <1>21, <2>2, ErrorsExcused DEF ClientInv
  <2>7. Leaked \subseteq Leaked' /\ PostBuffer(r) \in Leaked'
    BY <1>1, <2>1, <2>2, LeakedGrows DEF Leaked
  <2>8. out \subseteq out' /\ \A b \in out' : b \in out \/ b \in Leaked'
    BY <1>3, <2>7
  <2>9. OutCounted'
    BY <2>1, <2>7, <2>8 DEF ClientInv, OutCounted
  <2> QED BY <2>3, <2>4, <2>5, <2>6, <2>9 DEF ClientInv
<1>4. CASE /\ FreeIdx # {}
           /\ outcome' = Append(outcome, "pending")
           /\ conn' = [conn EXCEPT ![Min(FreeIdx)].state = "connecting"]
           /\ live' = live \ {is[Min(FreeIdx)].recv}
           /\ is' = [is EXCEPT ![Min(FreeIdx)] = [NoEntry EXCEPT !.req = r]]
           /\ UNCHANGED outgoing
  <2>0. PICK i \in Idx : /\ conn[i].state = "closed"
                 /\ outcome' = Append(outcome, "pending")
                 /\ conn' = [conn EXCEPT ![i].state = "connecting"]
                 /\ live' = live \ {is[i].recv}
                 /\ is' = [is EXCEPT ![i] = [NoEntry EXCEPT !.req = r]]
    <3>1. FreeIdx \in SUBSET Nat
      BY IdxAssumption DEF FreeIdx
    <3>2. Min(FreeIdx) \in FreeIdx
      BY <1>4, <3>1, MinIsIn
    <3> QED BY <1>4, <3>2 DEF FreeIdx
  <2>1. out' = out /\ whole' = whole
    BY <1>4 DEF outgoing
  <2>2. outcome' \in [Made' -> Outcomes] /\ outcome'[r] = "pending" /\ \A m \in Made : outcome'[m] = outcome[m]
    BY <1>2, <2>0 DEF Outcomes
  <2>3. /\ is[i].req = NoRequest /\ conn[i].left = 0 /\ conn[i].answer = NoAnswer
        /\ conn[i].queued = {}
    BY <2>0 DEF ClientInv, EntryFits
  <2>4. /\ is'[i] = [req |-> r, recv |-> NoRequest, got |-> 0]
        /\ \A j \in Idx \ {i} : is'[j] = is[j] /\ conn'[j] = conn[j]
        /\ conn'[i] = [conn[i] EXCEPT !.state = "connecting"]
    BY <2>0 DEF ClientInv, ClientTyped, NoEntry
  <2>41. /\ conn'[i].state = "connecting" /\ conn'[i].asked = conn[i].asked
         /\ conn'[i].answer = NoAnswer /\ conn'[i].left = 0 /\ conn'[i].queued = {}
    BY <2>0, <2>3, <2>4 DEF ClientInv, ClientTyped
  <2>5. ClientTyped'
    <3>1. is' \in [Idx -> [req : Numbers', recv : Numbers', got : 0 .. Chunks]]
      <4>1. r \in Numbers' /\ NoRequest \in Numbers' /\ 0 \in 0 .. Chunks
        BY <1>1, ChunksAssumption DEF Numbers
      <4> QED BY <1>1, <2>0, <4>1 DEF ClientInv, ClientTyped, NoEntry
    <3>2. conn' \in [Idx -> [state : States, asked : Numbers', answer : SUBSET Named, left : 0 .. Chunks,
                             queued : SUBSET Buffers]]
      BY <1>1, <2>0 DEF ClientInv, ClientTyped, States
    <3>3. live' \subseteq Made' /\ whole' \subseteq Made' /\ hung' \subseteq Made'
      BY <1>1, <2>0, <2>1 DEF ClientInv, ClientTyped
    <3> QED BY <1>1, <2>2, <3>1, <3>2, <3>3 DEF ClientTyped
  <2>6. \A j \in Idx : EntryFits(j)'
    <3>1. EntryFits(i)'
      BY <1>1, <2>2, <2>4, <2>41 DEF EntryFits
    <3>2. ASSUME NEW j \in Idx \ {i} PROVE EntryFits(j)'
      BY <1>1, <2>2, <2>4, <3>2 DEF ClientInv, EntryFits
    <3> QED BY <3>1, <3>2
  <2>7. Apart'
    <3>1. \A j \in Idx : r # is[j].req /\ r # is[j].recv
      BY <1>1 DEF ClientInv, ClientTyped, Numbers
    <3> QED BY <1>1, <2>4, <3>1 DEF ClientInv, Apart
  <2>8. Allocated'
    <3>1. \A m : m \in live' <=> m # NoRequest /\ \E j \in Idx : m = is'[j].recv
      BY <2>0, <2>4 DEF ClientInv, Allocated, Apart
    <3> QED BY <3>1 DEF Allocated
  <2>9. AnswersNotLost'
    BY <1>1, <1>21, <2>2, ErrorsExcused DEF ClientInv
  <2>10. OutCounted'
    <3>1. Leaked \subseteq Leaked'
      BY <1>1, <2>1, <2>2, LeakedGrows
    <3>2. \A j \in Idx : conn'[j].queued = conn[j].queued
      BY <2>3, <2>4, <2>41
    <3> QED BY <2>1, <3>1, <3>2, OutStays DEF ClientInv
  <2> QED BY <2>5, <2>6, <2>7, <2>8, <2>9, <2>10 DEF ClientInv
<1> QED BY <1>3, <1>4 DEF MakeReq, r

\* Steps that change nothing but the index they are about.
LEMMA ChannelReadyKeepsClient ==
  ASSUME ClientInv, NEW i \in Idx, NEW cuttable, ChannelReady(i, cuttable), hung' = hung
  PROVE  ClientInv'
<1>r. PICK r : r = is[i].req
  OBVIOUS
<1>0. /\ conn[i].state = "connecting"
      /\ is' = [is EXCEPT ![i].recv = r]
      /\ live' = live \cup {r} /\ out' = out \cup {SendBuffer(r)}
      /\ Made' = Made /\ async_requests_store' = async_requests_store
      /\ outcome' = outcome
  BY <1>r DEF ChannelReady, Made
<1>00. PICK st \in {"asked", "sending"}, q \in SUBSET {SendBuffer(r)} :
         /\ conn' = [conn EXCEPT ![i].state = st, ![i].asked = r, ![i].queued = q]
         /\ \/ st = "asked" /\ q = {} /\ whole' = whole \cup {r}
            \/ st = "sending" /\ q = {SendBuffer(r)} /\ whole' = whole
  <2>1. CASE /\ conn' = [conn EXCEPT ![i].state = "asked", ![i].asked = r]
             /\ whole' = whole \cup {r}
    <3>1. conn[i].queued = {}
      BY <1>0 DEF ClientInv, EntryFits
    <3>2. conn' = [conn EXCEPT ![i].state = "asked", ![i].asked = r, ![i].queued = {}]
      BY <2>1, <3>1 DEF ClientInv, ClientTyped
    <3> QED BY <2>1, <3>2
  <2>2. CASE /\ conn' = [conn EXCEPT ![i].state = "sending", ![i].asked = r,
                                     ![i].queued = {SendBuffer(r)}]
             /\ whole' = whole
    BY <2>2
  <2> QED BY <1>r, <2>1, <2>2 DEF ChannelReady
<1>1. /\ r \in Made /\ r # NoRequest /\ r \in Numbers
      /\ is[i].recv = NoRequest /\ is[i].got = 0
      /\ conn[i].left = 0 /\ conn[i].answer = NoAnswer /\ outcome[r] = "pending"
      /\ q \in SUBSET Buffers
  <2>1. NoRequest \notin Made /\ Made \subseteq Nat
    BY LenProperties DEF Made, NoRequest, ClientInv, ClientTyped
  <2>2. r \in Made
    BY <1>r, <1>0 DEF ClientInv, EntryFits
  <2>3. SendBuffer(r) \in Buffers
    BY <2>1, <2>2 DEF Buffers
  <2> QED BY <1>r, <1>0, <2>1, <2>3 DEF ClientInv, EntryFits, Numbers
<1>2. /\ is'[i] = [is[i] EXCEPT !.recv = r]
      /\ conn'[i] = [conn[i] EXCEPT !.state = st, !.asked = r, !.queued = q]
      /\ \A j \in Idx \ {i} : is'[j] = is[j] /\ conn'[j] = conn[j]
  BY <1>0, <1>00 DEF ClientInv, ClientTyped
<1>3. /\ is'[i].req = r /\ is'[i].recv = r /\ is'[i].got = 0
      /\ conn'[i].state = st /\ conn'[i].asked = r /\ conn'[i].queued = q
      /\ conn'[i].left = 0 /\ conn'[i].answer = NoAnswer
  BY <1>r, <1>1, <1>2 DEF ClientInv, ClientTyped
<1>4. ClientTyped'
  <2>1. is'[i] \in [req : Numbers, recv : Numbers, got : 0 .. Chunks]
    BY <1>1, <1>2 DEF ClientInv, ClientTyped
  <2>2. conn'[i] \in [state : States, asked : Numbers, answer : SUBSET Named, left : 0 .. Chunks,
                      queued : SUBSET Buffers]
    BY <1>1, <1>2 DEF ClientInv, ClientTyped, States
  <2>3. is' \in [Idx -> [req : Numbers, recv : Numbers, got : 0 .. Chunks]]
    BY <1>0, <1>2, <2>1 DEF ClientInv, ClientTyped
  <2>4. conn' \in [Idx -> [state : States, asked : Numbers, answer : SUBSET Named,
                          left : 0 .. Chunks, queued : SUBSET Buffers]]
    BY <1>00, <1>2, <2>2 DEF ClientInv, ClientTyped
  <2>5. Numbers' = Numbers
    BY <1>0 DEF Numbers
  <2>6. whole' \subseteq Made
    BY <1>00, <1>1 DEF ClientInv, ClientTyped
  <2> QED BY <1>0, <1>1, <2>3, <2>4, <2>5, <2>6 DEF ClientInv, ClientTyped
<1>5. \A j \in Idx : EntryFits(j)'
  <2>0. r \in Made' /\ Made' = Made /\ outcome' = outcome /\ outcome[r] = "pending"
    BY <1>0, <1>1
  <2>1. EntryFits(i)'
    BY <2>0, <1>00, <1>3 DEF EntryFits
  <2>2. ASSUME NEW j \in Idx \ {i} PROVE EntryFits(j)'
    <3>1. EntryFits(j) /\ is'[j] = is[j] /\ conn'[j] = conn[j]
      BY <1>2, <2>2 DEF ClientInv
    <3> QED BY <2>0, <3>1 DEF EntryFits
  <2> QED BY <2>1, <2>2
<1>6. Apart'
  <2>1. \A j \in Idx \ {i} : r # is[j].req /\ r # is[j].recv
    BY <1>r, <1>1 DEF ClientInv, Apart
  <2>2. ASSUME NEW j \in Idx, NEW k \in Idx, j # k
        PROVE  /\ is[j].req # NoRequest => is[j].req # is[k].req /\ is[j].req # is[k].recv
               /\ is[j].recv # NoRequest => is[j].recv # is[k].recv
    BY <2>2 DEF ClientInv, Apart
  <2>4. ASSUME NEW j \in Idx, NEW k \in Idx, j # k
        PROVE  /\ is'[j].req # NoRequest => is'[j].req # is'[k].req /\ is'[j].req # is'[k].recv
               /\ is'[j].recv # NoRequest => is'[j].recv # is'[k].recv
    <3>1. CASE j = i
      BY <1>2, <1>3, <2>1, <2>4, <3>1
    <3>2. CASE k = i
      <4>1. j \in Idx \ {i}
        BY <2>4, <3>2
      <4> QED BY <1>2, <1>3, <2>1, <3>2, <4>1
    <3>3. CASE j # i /\ k # i
      BY <1>2, <2>2, <2>4, <3>3
    <3> QED BY <3>1, <3>2, <3>3
  <2> QED BY <2>4 DEF Apart
<1>7. Allocated'
  <2>1. \A m : m \in live' <=> m # NoRequest /\ \E j \in Idx : m = is'[j].recv
    BY <1>0, <1>1, <1>2, <1>3 DEF ClientInv, Allocated
  <2> QED BY <2>1 DEF Allocated
<1>8. AnswersNotLost'
  BY <1>0, ErrorsExcused DEF ClientInv
<1>9. OutCounted'
  <2>1. Leaked \subseteq Leaked'
    BY <1>0, <1>00, LeakedGrows
  <2>2. st = "asked" => SendBuffer(r) \in Leaked'
    BY <1>00 DEF Leaked
  <2>3. conn[i].queued = {}
    BY <1>0 DEF ClientInv, EntryFits
  <2>4. \A j \in Idx \ {i} : conn'[j].queued = conn[j].queued
    BY <1>2
  <2> QED BY <1>0, <1>00, <1>3, <2>1, <2>2, <2>3, <2>4 DEF ClientInv, OutCounted
<1> QED BY <1>4, <1>5, <1>6, <1>7, <1>8, <1>9 DEF ClientInv

LEMMA SendRestKeepsClient ==
  ASSUME ClientInv, NEW i \in Idx, SendRest(i), hung' = hung
  PROVE  ClientInv'
<1>0. /\ conn[i].state = "sending"
      /\ conn' = [conn EXCEPT ![i].state = "asked", ![i].queued = {}]
      /\ out' = out \ conn[i].queued
      /\ UNCHANGED <<async_requests_store, is, live, whole, outcome>>
      /\ Made' = Made /\ Numbers' = Numbers
  BY DEF SendRest, Made, Numbers
<1>1. /\ conn'[i] = [conn[i] EXCEPT !.state = "asked", !.queued = {}]
      /\ \A j \in Idx \ {i} : conn'[j] = conn[j]
  BY <1>0 DEF ClientInv, ClientTyped
<1>2. /\ conn'[i].state = "asked" /\ conn'[i].queued = {} /\ conn'[i].asked = conn[i].asked
      /\ conn'[i].left = conn[i].left /\ conn'[i].answer = conn[i].answer
  BY <1>1 DEF ClientInv, ClientTyped
<1>3. ClientTyped'
  <2>0. conn[i] \in [state : States, asked : Numbers, answer : SUBSET Named, left : 0 .. Chunks,
                     queued : SUBSET Buffers]
    BY DEF ClientInv, ClientTyped
  <2>01. "asked" \in States /\ {} \in SUBSET Buffers
    BY DEF States
  <2>1. conn'[i] \in [state : States, asked : Numbers, answer : SUBSET Named, left : 0 .. Chunks,
                      queued : SUBSET Buffers]
    BY <1>1, <2>0, <2>01
  <2> QED BY <1>0, <1>1, <2>1 DEF ClientInv, ClientTyped
<1>4. \A j \in Idx : EntryFits(j)'
  <2>0. /\ is'[i].req \in Made' /\ outcome'[is'[i].req] = "pending" /\ is'[i].got = 0
        /\ is'[i].recv = is'[i].req /\ conn'[i].asked = is'[i].req
        /\ conn'[i].left = 0 /\ conn'[i].answer = NoAnswer
    BY <1>0, <1>2 DEF ClientInv, EntryFits
  <2>1. EntryFits(i)'
    BY <1>2, <2>0 DEF EntryFits
  <2>2. ASSUME NEW j \in Idx \ {i} PROVE EntryFits(j)'
    <3>1. EntryFits(j) /\ conn'[j] = conn[j] /\ is'[j] = is[j]
      BY <1>0, <1>1, <2>2 DEF ClientInv
    <3> QED BY <1>0, <3>1 DEF EntryFits
  <2> QED BY <2>1, <2>2
<1>5. Apart' /\ Allocated'
  BY <1>0 DEF ClientInv, Apart, Allocated
<1>6. AnswersNotLost'
  BY <1>0, ErrorsExcused DEF ClientInv
<1>7. Leaked \subseteq Leaked'
  BY <1>0, LeakedGrows
<1>8. OutCounted'
  BY <1>0, <1>1, <1>2, <1>7, OutDropped
<1> QED BY <1>3, <1>4, <1>5, <1>6, <1>8 DEF ClientInv

LEMMA ConnectFailsKeepsClient ==
  ASSUME ClientInv, NEW i \in Idx, ConnectFails(i), hung' = hung
  PROVE  ClientInv'
<1>0. /\ conn[i].state = "connecting"
      /\ is' = [is EXCEPT ![i] = NoEntry]
      /\ conn' = [conn EXCEPT ![i] = Closed]
      /\ outcome' = [outcome EXCEPT ![is[i].req] = "failed"]
      /\ Made' = Made /\ async_requests_store' = async_requests_store
      /\ live' = live /\ out' = out /\ whole' = whole
  BY DEF ConnectFails, Made, outgoing
<1>1. /\ is[i].req \in Made /\ is[i].recv = NoRequest /\ outcome[is[i].req] = "pending"
      /\ conn[i].queued = {}
  BY <1>0 DEF ClientInv, EntryFits
<1>2. /\ is'[i] = NoEntry /\ conn'[i] = Closed
      /\ \A j \in Idx \ {i} : is'[j] = is[j] /\ conn'[j] = conn[j]
  BY <1>0 DEF ClientInv, ClientTyped
<1>4. ClientTyped'
  BY <1>0, <1>1, ChunksAssumption
     DEF ClientInv, ClientTyped, States, Numbers, NoEntry, Closed, Outcomes, NoAnswer
<1>5. \A j \in Idx : EntryFits(j)'
  <2>1. EntryFits(i)'
    BY <1>2 DEF EntryFits, NoEntry, Closed
  <2>0. ASSUME NEW j \in Idx \ {i}, conn[j].state # "closed"
        PROVE  outcome'[is[j].req] = outcome[is[j].req]
    <3>1. is[j].req \in Made /\ is[j].req # NoRequest
      BY <2>0 DEF ClientInv, EntryFits, Made, NoRequest
    <3>2. is[j].req # is[i].req
      BY <3>1 DEF ClientInv, Apart
    <3> QED BY <1>0, <3>1, <3>2 DEF ClientInv, ClientTyped
  <2>2. ASSUME NEW j \in Idx \ {i} PROVE EntryFits(j)'
    BY <1>0, <1>2, <2>0, <2>2 DEF ClientInv, EntryFits
  <2> QED BY <2>1, <2>2
<1>6. Apart'
  BY <1>2 DEF ClientInv, Apart, NoEntry
<1>7. Allocated'
  <2>1. \A m : m \in live' <=> m # NoRequest /\ \E j \in Idx : m = is'[j].recv
    BY <1>0, <1>1, <1>2 DEF ClientInv, Allocated, NoEntry
  <2> QED BY <2>1 DEF Allocated
<1>8. AnswersNotLost'
  <2>1. \A m \in Made : outcome'[m] = "raised" => outcome[m] = "raised"
    BY <1>0 DEF ClientInv, ClientTyped
  <2> QED BY <1>0, <2>1, ErrorsExcused DEF ClientInv
<1>9. OutCounted'
  <2>1. \A m \in Made : outcome[m] = "refused" => outcome'[m] = "refused"
    BY <1>0, <1>1 DEF ClientInv, ClientTyped
  <2>2. Leaked \subseteq Leaked'
    BY <1>0, <2>1, LeakedGrows
  <2>3. conn'[i].queued = {} /\ \A j \in Idx \ {i} : conn'[j].queued = conn[j].queued
    BY <1>2 DEF Closed
  <2>4. \A j \in Idx : conn'[j].queued = conn[j].queued
    BY <1>1, <2>3
  <2> QED BY <1>0, <2>2, <2>4, OutStays DEF ClientInv
<1> QED BY <1>4, <1>5, <1>6, <1>7, <1>8, <1>9 DEF ClientInv

\* Steps of the connection: the answer arrives, is read, or breaks off.
LEMMA ConnectionStep ==
  ASSUME ClientInv, NEW i \in Idx, NEW c \in [state : States, asked : Numbers,
           answer : SUBSET Named, left : 0 .. Chunks, queued : SUBSET Buffers],
         NEW g \in 0 .. Chunks,
         conn' = [conn EXCEPT ![i] = c], is' = [is EXCEPT ![i].got = g],
         conn[i].state \in {"sending", "asked", "answered", "over"}, c.asked = conn[i].asked,
         c.queued = conn[i].queued,
         \/ c.state = "answered" /\ g + c.left = Chunks /\ c.queued = {}
         \/ c.state = "over" /\ c.left = 0 /\ c.answer = NoAnswer /\ is[i].req \in hung',
         UNCHANGED <<async_requests_store, live, outgoing, outcome>>,
         hung \subseteq hung', hung' \subseteq Made
  PROVE  ClientInv'
<1>0. Made' = Made /\ Numbers' = Numbers /\ out' = out /\ whole' = whole
  BY DEF Made, Numbers, outgoing
<1>2. /\ conn'[i] = c /\ is'[i].req = is[i].req /\ is'[i].recv = is[i].recv /\ is'[i].got = g
      /\ \A j \in Idx \ {i} : is'[j] = is[j] /\ conn'[j] = conn[j]
  BY DEF ClientInv, ClientTyped
<1>4. ClientTyped'
  BY <1>0 DEF ClientInv, ClientTyped
<1>5. \A j \in Idx : EntryFits(j)'
  <2>1. EntryFits(i)'
    BY <1>0, <1>2 DEF EntryFits, ClientInv
  <2>2. ASSUME NEW j \in Idx \ {i} PROVE EntryFits(j)'
    BY <1>0, <1>2, <2>2 DEF ClientInv, EntryFits
  <2> QED BY <2>1, <2>2
<1>6. Apart'
  BY <1>2 DEF ClientInv, Apart
<1>7. Allocated'
  <2>1. \A m : m \in live' <=> m # NoRequest /\ \E j \in Idx : m = is'[j].recv
    BY <1>2 DEF ClientInv, Allocated
  <2> QED BY <2>1 DEF Allocated
<1>8. AnswersNotLost'
  BY <1>0, ErrorsExcused DEF ClientInv
<1>9. OutCounted'
  <2>1. Leaked \subseteq Leaked'
    BY <1>0, LeakedGrows
  <2>2. \A j \in Idx : conn'[j].queued = conn[j].queued
    BY <1>2
  <2> QED BY <1>0, <2>1, <2>2, OutStays DEF ClientInv
<1> QED BY <1>4, <1>5, <1>6, <1>7, <1>8, <1>9 DEF ClientInv

LEMMA AnswerKeepsClient ==
  ASSUME ClientInv, NEW i \in Idx, NEW content \in SUBSET Named, Answer(i, content),
         hung' = hung
  PROVE  ClientInv'
<1> DEFINE c == [conn[i] EXCEPT !.state = "answered", !.answer = content, !.left = Chunks]
<1>1. /\ conn[i].state = "asked" /\ is' = is
      /\ conn' = [conn EXCEPT ![i].state = "answered", ![i].answer = content, ![i].left = Chunks]
      /\ UNCHANGED <<async_requests_store, live, outgoing, outcome>>
  BY DEF Answer
<1>2. is[i].got = 0 /\ conn[i].queued = {}
  BY <1>1 DEF ClientInv, EntryFits
<1>30. conn[i] \in [state : States, asked : Numbers, answer : SUBSET Named, left : 0 .. Chunks,
                    queued : SUBSET Buffers]
  BY DEF ClientInv, ClientTyped
<1>31. "answered" \in States /\ Chunks \in 0 .. Chunks /\ 0 + Chunks = Chunks
  BY ChunksAssumption DEF States
<1>3. /\ c \in [state : States, asked : Numbers, answer : SUBSET Named, left : 0 .. Chunks,
                queued : SUBSET Buffers]
      /\ c.asked = conn[i].asked /\ c.state = "answered" /\ 0 + c.left = Chunks
      /\ c.queued = conn[i].queued
  BY <1>30, <1>31
<1>4. conn' = [conn EXCEPT ![i] = c] /\ is' = [is EXCEPT ![i].got = 0]
  BY <1>1, <1>2 DEF ClientInv, ClientTyped
<1>5. 0 \in 0 .. Chunks /\ hung \subseteq hung' /\ hung' \subseteq Made
  BY ChunksAssumption DEF ClientInv, ClientTyped
<1>6. /\ conn[i].state \in {"sending", "asked", "answered", "over"}
      /\ c.state = "answered" /\ 0 + c.left = Chunks /\ c.queued = {}
  BY <1>1, <1>2, <1>3
<1>7. c.asked = conn[i].asked /\ c.queued = conn[i].queued
  BY <1>3
<1> HIDE DEF c
<1> QED BY <1>1, <1>3, <1>4, <1>5, <1>6, <1>7, ConnectionStep

LEMMA HangUpKeepsClient ==
  ASSUME ClientInv, NEW i \in Idx, HangUp(i), hung' = hung \cup {is[i].req}
  PROVE  ClientInv'
<1> DEFINE c == [conn[i] EXCEPT !.state = "over", !.answer = NoAnswer, !.left = 0]
           g == is[i].got
<1>1. /\ conn[i].state \in {"sending", "asked"} \/ conn[i].left > 0
      /\ is' = is
      /\ conn' = [conn EXCEPT ![i].state = "over", ![i].answer = NoAnswer, ![i].left = 0]
      /\ UNCHANGED <<async_requests_store, live, outgoing, outcome>>
  BY DEF HangUp
<1>2. conn[i].state \in {"sending", "asked", "answered"}
  BY <1>1 DEF ClientInv, EntryFits
<1>30. conn[i] \in [state : States, asked : Numbers, answer : SUBSET Named, left : 0 .. Chunks,
                    queued : SUBSET Buffers]
  BY DEF ClientInv, ClientTyped
<1>31. "over" \in States /\ 0 \in 0 .. Chunks /\ NoAnswer \in SUBSET Named
  BY ChunksAssumption DEF States, NoAnswer
<1>3. /\ c \in [state : States, asked : Numbers, answer : SUBSET Named, left : 0 .. Chunks,
                queued : SUBSET Buffers]
      /\ c.asked = conn[i].asked /\ c.state = "over" /\ c.left = 0 /\ c.answer = NoAnswer
      /\ c.queued = conn[i].queued
  BY <1>30, <1>31
<1>4. conn' = [conn EXCEPT ![i] = c] /\ is' = [is EXCEPT ![i].got = g]
  BY <1>1 DEF ClientInv, ClientTyped
<1>5. g \in 0 .. Chunks /\ hung \subseteq hung' /\ hung' \subseteq Made /\ is[i].req \in hung'
  BY <1>2 DEF ClientInv, ClientTyped, EntryFits
<1> HIDE DEF c, g
<1> QED BY <1>1, <1>2, <1>3, <1>4, <1>5, ConnectionStep

LEMMA ReadKeepsClient ==
  ASSUME ClientInv, NEW i \in Idx, Read(i), hung' = hung
  PROVE  ClientInv'
<1> DEFINE c == [conn[i] EXCEPT !.left = conn[i].left - 1]
           g == is[i].got + 1
<1>1. /\ conn[i].left > 0
      /\ conn' = [conn EXCEPT ![i].left = @ - 1]
      /\ is' = [is EXCEPT ![i].got = @ + 1]
      /\ UNCHANGED <<async_requests_store, live, outgoing, outcome>>
  BY DEF Read
<1>2. conn[i].state = "answered" /\ is[i].got + conn[i].left = Chunks /\ conn[i].queued = {}
  BY <1>1 DEF ClientInv, EntryFits
<1>20. is[i].got \in 0 .. Chunks /\ conn[i].left \in 0 .. Chunks
  BY DEF ClientInv, ClientTyped
<1>21. conn[i].left - 1 \in 0 .. Chunks /\ g \in 0 .. Chunks /\ g + (conn[i].left - 1) = Chunks
  BY <1>1, <1>2, <1>20, ChunksAssumption
<1>3. /\ c \in [state : States, asked : Numbers, answer : SUBSET Named, left : 0 .. Chunks,
                queued : SUBSET Buffers]
      /\ c.asked = conn[i].asked /\ c.state = "answered" /\ c.left = conn[i].left - 1
      /\ c.queued = conn[i].queued
  BY <1>2, <1>21 DEF ClientInv, ClientTyped
<1>31. g + c.left = Chunks
  BY <1>21, <1>3
<1>4. conn' = [conn EXCEPT ![i] = c] /\ is' = [is EXCEPT ![i].got = g]
  BY <1>1 DEF ClientInv, ClientTyped
<1>5. hung \subseteq hung' /\ hung' \subseteq Made
  BY DEF ClientInv, ClientTyped
<1>6. g \in 0 .. Chunks
  BY <1>21
<1>7. /\ conn[i].state \in {"sending", "asked", "answered", "over"}
      /\ c.state = "answered" /\ c.queued = {} /\ c.asked = conn[i].asked
      /\ c.queued = conn[i].queued
  BY <1>2, <1>3
<1> HIDE DEF c, g
<1> QED BY <1>1, <1>3, <1>31, <1>4, <1>5, <1>6, <1>7, ConnectionStep

LEMMA ClosedEventKeepsClient ==
  ASSUME ClientInv, NEW i \in Idx, NEW result \in Outcomes, Ended(i), ClosedEvent(i, result),
         result = "raised" => is[i].req \in hung \/ Excused(is[i].req),
         result # "refused", hung' = hung
  PROVE  ClientInv'
<1>0. /\ conn' = [conn EXCEPT ![i] = Closed]
      /\ outcome' = [outcome EXCEPT ![is[i].req] = result]
      /\ Made' = Made /\ async_requests_store' = async_requests_store
      /\ out' = out \ conn[i].queued /\ whole' = whole
  BY DEF ClosedEvent, Made
<1>1. conn[i].state \in {"over", "answered"}
  BY DEF Ended
<1>2. is[i].req \in Made /\ is[i].recv = is[i].req /\ outcome[is[i].req] = "pending"
  BY <1>1 DEF ClientInv, EntryFits
<1>20. is[i].recv # NoRequest
  BY <1>2 DEF Made, NoRequest
<1>3. PICK v \in {NoRequest, is[i].recv} :
         /\ \/ v = NoRequest /\ live' = live \ {is[i].recv}
            \/ v # NoRequest /\ live' = live
         /\ is' = [is EXCEPT ![i] = [req |-> NoRequest, recv |-> v, got |-> 0]]
  <2>1. CASE result = "called"
    <3>1. /\ live' = live \ {is[i].recv}
          /\ is' = [is EXCEPT ![i] = [req |-> NoRequest, recv |-> NoRequest, got |-> 0]]
      BY <2>1 DEF ClosedEvent, NoEntry
    <3> QED BY <3>1
  <2>2. CASE result # "called"
    <3>1. /\ live' = live
          /\ is' = [is EXCEPT ![i] = [req |-> NoRequest, recv |-> is[i].recv, got |-> 0]]
      BY <2>2 DEF ClosedEvent, NoEntry
    <3> QED BY <1>20, <3>1
  <2> QED BY <2>1, <2>2
<1>31. v \in Numbers
  BY <1>2, <1>3 DEF Numbers
<1>4. /\ is'[i] = [req |-> NoRequest, recv |-> v, got |-> 0] /\ conn'[i] = Closed
      /\ \A j \in Idx \ {i} : is'[j] = is[j] /\ conn'[j] = conn[j]
  BY <1>0, <1>3 DEF ClientInv, ClientTyped
<1>5. ClientTyped'
  <2>1. Closed \in [state : States, asked : Numbers, answer : SUBSET Named, left : 0 .. Chunks,
                    queued : SUBSET Buffers]
    BY ChunksAssumption DEF Closed, States, Numbers, NoAnswer
  <2>2. [req |-> NoRequest, recv |-> v, got |-> 0] \in [req : Numbers, recv : Numbers, got : 0 .. Chunks]
    BY <1>31, ChunksAssumption DEF Numbers
  <2>3. live' \subseteq Made
    BY <1>3 DEF ClientInv, ClientTyped
  <2>4. Numbers' = Numbers
    BY <1>0 DEF Numbers
  <2> QED BY <1>0, <1>2, <1>3, <2>1, <2>2, <2>3, <2>4 DEF ClientInv, ClientTyped
<1>6. \A j \in Idx : EntryFits(j)'
  <2>1. EntryFits(i)'
    BY <1>4 DEF EntryFits, Closed
  <2>0. ASSUME NEW j \in Idx \ {i}, conn[j].state # "closed"
        PROVE  outcome'[is[j].req] = outcome[is[j].req]
    <3>1. is[j].req \in Made /\ is[j].req # NoRequest
      BY <2>0 DEF ClientInv, EntryFits, Made, NoRequest
    <3>2. is[j].req # is[i].req
      BY <3>1 DEF ClientInv, Apart
    <3> QED BY <1>0, <3>1, <3>2 DEF ClientInv, ClientTyped
  <2>2. ASSUME NEW j \in Idx \ {i} PROVE EntryFits(j)'
    BY <1>0, <1>4, <2>0, <2>2 DEF ClientInv, EntryFits
  <2> QED BY <2>1, <2>2
<1>7. Apart'
  <2>1. is'[i].req = NoRequest /\ is'[i].recv = v
    BY <1>4
  <2> QED BY <1>2, <1>3, <1>4, <2>1 DEF ClientInv, Apart
<1>8. Allocated'
  <2>1. is'[i].recv = v
    BY <1>4
  <2>2. \A m : m \in live' <=> m # NoRequest /\ \E j \in Idx : m = is'[j].recv
    BY <1>2, <1>20, <1>3, <1>4, <2>1 DEF ClientInv, Allocated, Apart
  <2> QED BY <2>2 DEF Allocated
<1>9. AnswersNotLost'
  <2>1. \A m \in Made : outcome'[m] = "raised" =>
          outcome[m] = "raised" \/ m \in hung' \/ Excused(m)
    BY <1>0, <1>2 DEF ClientInv, ClientTyped
  <2> QED BY <1>0, <2>1, ErrorsExcused DEF ClientInv
<1>10. OutCounted'
  <2>1. \A m \in Made : outcome[m] = "refused" => outcome'[m] = "refused"
    BY <1>0, <1>2 DEF ClientInv, ClientTyped
  <2>2. Leaked \subseteq Leaked'
    BY <1>0, <2>1, LeakedGrows
  <2>3. conn'[i].queued = {} /\ \A j \in Idx \ {i} : conn'[j].queued = conn[j].queued
    BY <1>4 DEF Closed
  <2> QED BY <1>0, <2>2, <2>3, OutDropped
<1> QED BY <1>5, <1>6, <1>7, <1>8, <1>9, <1>10 DEF ClientInv

LEMMA RestartKeepsClient ==
  ASSUME ClientInv, ClientRestart, hung' = hung
  PROVE  ClientInv'
<1>0. /\ Made' = Made /\ async_requests_store' = async_requests_store
      /\ is' = [i \in Idx |-> NoEntry] /\ conn' = [i \in Idx |-> Closed]
      /\ live' = {} /\ out' = {} /\ whole' = {}
      /\ outcome' = [r \in Made |-> IF outcome[r] = "pending" THEN "lost" ELSE outcome[r]]
  BY DEF ClientRestart, Made
<1>1. ClientTyped'
  BY <1>0, ChunksAssumption
     DEF ClientInv, ClientTyped, States, Numbers, NoEntry, Closed, Outcomes, NoAnswer
<1>2. \A i \in Idx : EntryFits(i)'
  BY <1>0 DEF EntryFits, NoEntry, Closed
<1>3. Apart' /\ Allocated'
  BY <1>0 DEF Apart, Allocated, NoEntry
<1>4. AnswersNotLost'
  BY <1>0, ErrorsExcused DEF ClientInv
<1>5. OutCounted'
  BY <1>0 DEF OutCounted, Closed
<1> QED BY <1>1, <1>2, <1>3, <1>4, <1>5 DEF ClientInv

LEMMA ClientStutters ==
  ASSUME ClientInv, UNCHANGED client, hung' = hung
  PROVE  ClientInv'
<1>1. UNCHANGED <<async_requests_store, is, conn, live, out, whole, outcome>> /\ Made' = Made
  BY DEF client, outgoing, Made
<1>2. AnswersNotLost'
  BY <1>1, ErrorsExcused DEF ClientInv
<1>3. OutCounted'
  BY <1>1, LeakedGrows, OutStays DEF ClientInv
<1>4. ClientTyped' /\ (\A i \in Idx : EntryFits(i)') /\ Apart' /\ Allocated'
  BY <1>1 DEF ClientInv, ClientTyped, Numbers, EntryFits, Apart, Allocated
<1> QED BY <1>2, <1>3, <1>4 DEF ClientInv

-----------------------------------------------------------------------------
(* Trees. *)

FolderEntries ==
  [IsFolder : {TRUE}, FolderID : Ids, ChildFolders : Seq(Ids), ChildItems : Seq(Ids)]
ItemEntries == [IsFolder : {FALSE}, FolderID : Ids, AssetID : Named]
OutfitEntries == [IsFolder : {FALSE}, FolderID : Ids, WearablesList : SUBSET Ids]

Folder(f) == <<"folder", f>>
FoldersOf(T) == {id \in DOMAIN T : T[id] \in FolderEntries}

\* What an entry is follows from its id; the folders a viewer makes are empty.
EntriesTyped(T) ==
  /\ DOMAIN T \subseteq Ids \ {zero_uuid}
  /\ T \in [DOMAIN T -> FolderEntries \cup ItemEntries \cup OutfitEntries]
  /\ \A x \in ItemIds \cap DOMAIN T : T[x] \in ItemEntries
  /\ wearables \in DOMAIN T => T[wearables] \in OutfitEntries
  /\ TypeParent \in DOMAIN T => T[TypeParent] \in FolderEntries
  /\ \A f \in Folders : Folder(f) \in DOMAIN T => T[Folder(f)] = NewFolder(TypeParent)

\* A folder's parent is a folder that lists it, or is the zero UUID.
FoldersLinked(T) ==
  \A f \in FoldersOf(T) :
    /\ T[f].FolderID \in FoldersOf(T) \cup {zero_uuid}
    /\ Range(T[f].ChildItems) \subseteq DOMAIN T
    /\ \A c \in Range(T[f].ChildFolders) : c \in FoldersOf(T) /\ T[c].FolderID = f
    /\ T[f].FolderID \in FoldersOf(T) => f \in Range(T[T[f].FolderID].ChildFolders)

TreeInv(T) == EntriesTyped(T) /\ FoldersLinked(T)

\* An absent AssetID is told from every id.
LEMMA NilIsNoId == nil \notin Ids
BY DEF nil, Ids, zero_uuid, wearables, TypeParent, LibraryItem, LibraryAsset, Item, Asset, Root

LEMMA IdsDiffer ==
  ASSUME NEW n \in Nat, NEW f \in Folders
  PROVE  /\ Item(n) # wearables /\ Item(n) # TypeParent /\ Item(n) # Folder(f)
         /\ Item(n) # zero_uuid /\ Item(n) # LibraryItem
         /\ \A o : Item(n) # Root(o) /\ Item(n) # <<"clothing", o>>
         /\ \A m \in Nat : Item(n) # Asset(m) /\ (Item(n) = Item(m) => n = m)
         /\ Folder(f) # TypeParent /\ Folder(f) # zero_uuid /\ Folder(f) # wearables
         /\ Folder(f) # LibraryItem
         /\ \A o : Folder(f) # Root(o) /\ Folder(f) # <<"clothing", o>>
BY DEF Item, Asset, wearables, TypeParent, Folder, zero_uuid, LibraryItem, Root

LEMMA AppendRange ==
  ASSUME NEW s \in Seq(Ids), NEW x \in Ids
  PROVE  Range(Append(s, x)) = Range(s) \cup {x}
<1>1. /\ Append(s, x) \in Seq(Ids) /\ Len(Append(s, x)) = Len(s) + 1
      /\ \A m \in 1 .. Len(s) : Append(s, x)[m] = s[m]
      /\ Append(s, x)[Len(s) + 1] = x
  BY AppendProperties
<1>2. Len(s) \in Nat /\ DOMAIN s = 1 .. Len(s) /\ DOMAIN Append(s, x) = 1 .. (Len(s) + 1)
  BY <1>1, LenProperties
<1> DEFINE a == Append(s, x)
           l == Len(s)
<1>3. /\ l \in Nat /\ DOMAIN s = 1 .. l /\ DOMAIN a = 1 .. (l + 1)
      /\ \A m \in 1 .. l : a[m] = s[m]
      /\ a[l + 1] = x
  BY <1>1, <1>2
<1> HIDE DEF a, l
<1>4. \A m \in 1 .. (l + 1) : m \in 1 .. l \/ m = l + 1
  BY <1>3
<1>5. 1 .. l \subseteq 1 .. (l + 1) /\ l + 1 \in 1 .. (l + 1)
  BY <1>3
<1>6. \A y : (\E m \in DOMAIN a : y = a[m]) <=> y = x \/ \E m \in DOMAIN s : y = s[m]
  BY <1>3, <1>4, <1>5
<1>7. Range(a) = Range(s) \cup {x}
  BY <1>6 DEF Range
<1> QED BY <1>7 DEF a

LEMMA NoRange == Range(<<>>) = {}
BY DEF Range

LEMMA NewFolderIs ==
  ASSUME NEW p \in Ids
  PROVE  /\ NewFolder(p) \in FolderEntries /\ NewFolder(p).FolderID = p
         /\ Range(NewFolder(p).ChildFolders) = {} /\ Range(NewFolder(p).ChildItems) = {}
<1>1. <<>> \in Seq(Ids)
  BY EmptySeq
<1> QED BY <1>1, NoRange DEF NewFolder, FolderEntries

\* Folders, items and outfits are told apart.
LEMMA EntriesDiffer ==
  ASSUME NEW e
  PROVE  e \in FolderEntries => e \notin ItemEntries /\ e \notin OutfitEntries
<1>1. e \in FolderEntries => e.IsFolder = TRUE
  BY DEF FolderEntries
<1>2. e \in ItemEntries \/ e \in OutfitEntries => e.IsFolder = FALSE
  BY DEF ItemEntries, OutfitEntries
<1> QED BY <1>1, <1>2

\* What is put beside the folders leaves them as they are.
LEMMA PutBesideFolders ==
  ASSUME NEW T, TreeInv(T), NEW id \in Ids, NEW e,
         \/ id \in ItemIds /\ e \in ItemEntries
         \/ id = wearables /\ e \in OutfitEntries
  PROVE  TreeInv(Put(T, id, e))
<1> DEFINE P == Put(T, id, e)
<1>1. /\ DOMAIN P = DOMAIN T \cup {id} /\ P[id] = e
      /\ \A x \in DOMAIN T \ {id} : P[x] = T[x]
      /\ P = [x \in DOMAIN P |-> P[x]]
  BY DEF Put
<1> HIDE DEF P
<1>2. e \notin FolderEntries
  BY EntriesDiffer
<1>3. id \in DOMAIN T => T[id] \notin FolderEntries
  BY EntriesDiffer DEF TreeInv, EntriesTyped
<1>40. wearables \notin ItemIds
  BY DEF ItemIds, Item, LibraryItem, wearables
<1>4. id # zero_uuid /\ id # TypeParent /\ \A f \in Folders : id # Folder(f)
  <2>1. \A x \in ItemIds \cup {wearables} :
          x # zero_uuid /\ x # TypeParent /\ \A f \in Folders : x # Folder(f)
    <3>1. \A n \in Nat : /\ Item(n) # zero_uuid /\ Item(n) # TypeParent
                         /\ \A f \in Folders : Item(n) # Folder(f)
      BY DEF Item, zero_uuid, TypeParent, Folder
    <3>2. /\ LibraryItem # zero_uuid /\ LibraryItem # TypeParent
          /\ wearables # zero_uuid /\ wearables # TypeParent
          /\ \A f \in Folders : LibraryItem # Folder(f) /\ wearables # Folder(f)
      BY DEF LibraryItem, wearables, zero_uuid, TypeParent, Folder
    <3>3. \A x \in ItemIds \cup {wearables} :
            x = LibraryItem \/ x = wearables \/ \E n \in Nat : x = Item(n)
      BY DEF ItemIds
    <3> QED BY <3>1, <3>2, <3>3
  <2>2. id \in ItemIds \cup {wearables}
    OBVIOUS
  <2> QED BY <2>1, <2>2
<1>5. EntriesTyped(P)
  <2>1. DOMAIN P \subseteq Ids \ {zero_uuid}
    BY <1>1, <1>4 DEF TreeInv, EntriesTyped
  <2>2. P \in [DOMAIN P -> FolderEntries \cup ItemEntries \cup OutfitEntries]
    BY <1>1 DEF TreeInv, EntriesTyped
  <2>3. \A x \in ItemIds \cap DOMAIN P : P[x] \in ItemEntries
    <3>1. id \in ItemIds => e \in ItemEntries
      BY <1>40
    <3> QED BY <1>1, <3>1 DEF TreeInv, EntriesTyped
  <2>4. wearables \in DOMAIN P => P[wearables] \in OutfitEntries
    <3>1. wearables = id => e \in OutfitEntries
      BY <1>40
    <3> QED BY <1>1, <3>1 DEF TreeInv, EntriesTyped
  <2>5. TypeParent \in DOMAIN P => P[TypeParent] \in FolderEntries
    BY <1>1, <1>4 DEF TreeInv, EntriesTyped
  <2>6. \A f \in Folders : Folder(f) \in DOMAIN P => P[Folder(f)] = NewFolder(TypeParent)
    BY <1>1, <1>4 DEF TreeInv, EntriesTyped
  <2> QED BY <2>1, <2>2, <2>3, <2>4, <2>5, <2>6 DEF EntriesTyped
<1>6. FoldersOf(P) = FoldersOf(T) /\ \A f \in FoldersOf(T) : P[f] = T[f]
  BY <1>1, <1>2, <1>3 DEF FoldersOf
<1>7. FoldersLinked(P)
  BY <1>1, <1>6 DEF TreeInv, FoldersLinked
<1>8. TreeInv(P)
  BY <1>5, <1>7 DEF TreeInv
<1> QED BY <1>8 DEF P

\* A folder that is new has no parent yet and nobody names it as one.
LEMMA PutTopFolder ==
  ASSUME NEW T, TreeInv(T), NEW id \in Ids, id \notin DOMAIN T, id # zero_uuid, id # wearables,
         id \notin ItemIds, \A f \in Folders : id # Folder(f)
  PROVE  TreeInv(Put(T, id, NewFolder(zero_uuid)))
<1> DEFINE P == Put(T, id, NewFolder(zero_uuid))
           e == NewFolder(zero_uuid)
<1>1. /\ DOMAIN P = DOMAIN T \cup {id} /\ P[id] = e
      /\ \A x \in DOMAIN T : P[x] = T[x]
      /\ P = [x \in DOMAIN P |-> P[x]]
  BY DEF Put
<1>2. /\ e \in FolderEntries /\ e.FolderID = zero_uuid
      /\ Range(e.ChildFolders) = {} /\ Range(e.ChildItems) = {}
  <2>1. zero_uuid \in Ids
    BY DEF Ids
  <2> QED BY <2>1, NewFolderIs
<1> HIDE DEF P, e
<1>3. EntriesTyped(P)
  BY <1>1, <1>2 DEF TreeInv, EntriesTyped
<1>4. FoldersOf(P) = FoldersOf(T) \cup {id} /\ \A f \in FoldersOf(T) : P[f] = T[f]
  BY <1>1, <1>2 DEF FoldersOf
<1>5. zero_uuid \notin FoldersOf(P)
  BY <1>3 DEF EntriesTyped, FoldersOf
<1>6. FoldersLinked(P)
  <2>1. ASSUME NEW f \in FoldersOf(T)
        PROVE  /\ P[f].FolderID \in FoldersOf(P) \cup {zero_uuid}
               /\ Range(P[f].ChildItems) \subseteq DOMAIN P
               /\ \A c \in Range(P[f].ChildFolders) : c \in FoldersOf(P) /\ P[c].FolderID = f
               /\ P[f].FolderID \in FoldersOf(P) => f \in Range(P[P[f].FolderID].ChildFolders)
    <3>1. /\ T[f].FolderID \in FoldersOf(T) \cup {zero_uuid}
          /\ Range(T[f].ChildItems) \subseteq DOMAIN T
          /\ \A c \in Range(T[f].ChildFolders) : c \in FoldersOf(T) /\ T[c].FolderID = f
          /\ T[f].FolderID \in FoldersOf(T) => f \in Range(T[T[f].FolderID].ChildFolders)
      BY DEF TreeInv, FoldersLinked
    <3> QED BY <1>1, <1>4, <1>5, <3>1
  <2>2. /\ P[id].FolderID \in FoldersOf(P) \cup {zero_uuid}
        /\ Range(P[id].ChildItems) \subseteq DOMAIN P
        /\ \A c \in Range(P[id].ChildFolders) : c \in FoldersOf(P) /\ P[c].FolderID = id
        /\ P[id].FolderID \notin FoldersOf(P)
    BY <1>1, <1>2, <1>5
  <2> QED BY <1>4, <2>1, <2>2 DEF FoldersLinked
<1>7. TreeInv(P)
  BY <1>3, <1>6 DEF TreeInv
<1> QED BY <1>7 DEF P, e

\* A folder with a parent is listed by it; made once more, it is as empty as
\* it was and listed twice.
LEMMA PutChild ==
  ASSUME NEW T, TreeInv(T), NEW p \in FoldersOf(T), NEW id \in Ids,
         id # p, id # zero_uuid, id # wearables, id \notin ItemIds,
         \A f \in Folders : p # Folder(f) /\ (id = Folder(f) => p = TypeParent),
         id \in DOMAIN T => T[id] = NewFolder(p)
  PROVE  TreeInv(Put(ListFolder(T, p, id), id, NewFolder(p)))
<1> DEFINE P == Put(ListFolder(T, p, id), id, NewFolder(p))
           e == NewFolder(p)
           l == [T[p] EXCEPT !.ChildFolders = Append(T[p].ChildFolders, id)]
<1>0. p \in DOMAIN T /\ p \in Ids /\ T[p] \in FolderEntries
  BY DEF TreeInv, EntriesTyped, FoldersOf
<1>1. /\ DOMAIN P = DOMAIN T \cup {id} /\ P[id] = e /\ P[p] = l
      /\ \A x \in DOMAIN T \ {id, p} : P[x] = T[x]
      /\ P = [x \in DOMAIN P |-> P[x]]
  BY <1>0 DEF TreeInv, EntriesTyped, Put, ListFolder
<1>2. /\ e \in FolderEntries /\ e.FolderID = p
      /\ Range(e.ChildFolders) = {} /\ Range(e.ChildItems) = {}
  BY <1>0, NewFolderIs
<1>3. /\ l \in FolderEntries /\ l.FolderID = T[p].FolderID /\ l.ChildItems = T[p].ChildItems
      /\ Range(l.ChildFolders) = Range(T[p].ChildFolders) \cup {id}
  <2>1. T[p].ChildFolders \in Seq(Ids)
    BY <1>0 DEF FolderEntries
  <2>2. Append(T[p].ChildFolders, id) \in Seq(Ids)
    BY <2>1, AppendProperties
  <2>3. Range(Append(T[p].ChildFolders, id)) = Range(T[p].ChildFolders) \cup {id}
    BY <2>1, AppendRange
  <2>4. l.ChildFolders = Append(T[p].ChildFolders, id)
    BY <1>0 DEF FolderEntries
  <2> QED BY <1>0, <2>2, <2>3, <2>4 DEF FolderEntries
<1>4. id \in DOMAIN T => T[id] \in FolderEntries /\ T[id].FolderID = p /\ Range(T[id].ChildFolders) = {}
  BY <1>2 DEF e
<1> HIDE DEF P, l
<1>5. EntriesTyped(P)
  <2>1. DOMAIN P \subseteq Ids \ {zero_uuid}
    BY <1>1 DEF TreeInv, EntriesTyped
  <2>2. P \in [DOMAIN P -> FolderEntries \cup ItemEntries \cup OutfitEntries]
    <3>1. \A x \in DOMAIN P : P[x] \in FolderEntries \cup ItemEntries \cup OutfitEntries
      BY <1>1, <1>2, <1>3 DEF TreeInv, EntriesTyped
    <3> QED BY <1>1, <3>1
  <2>3. \A x \in ItemIds \cap DOMAIN P : P[x] \in ItemEntries
    <3>1. p \notin ItemIds
      BY <1>0, EntriesDiffer DEF TreeInv, EntriesTyped
    <3> QED BY <1>1, <3>1 DEF TreeInv, EntriesTyped
  <2>4. wearables \in DOMAIN P => P[wearables] \in OutfitEntries
    <3>1. p # wearables
      BY <1>0, EntriesDiffer DEF TreeInv, EntriesTyped
    <3> QED BY <1>1, <3>1 DEF TreeInv, EntriesTyped
  <2>5. TypeParent \in DOMAIN P => P[TypeParent] \in FolderEntries
    BY <1>1, <1>2, <1>3 DEF TreeInv, EntriesTyped
  <2>6. \A f \in Folders : Folder(f) \in DOMAIN P => P[Folder(f)] = NewFolder(TypeParent)
    BY <1>1 DEF TreeInv, EntriesTyped
  <2> QED BY <2>1, <2>2, <2>3, <2>4, <2>5, <2>6 DEF EntriesTyped
<1>6. /\ FoldersOf(P) = FoldersOf(T) \cup {id}
      /\ \A f \in FoldersOf(T) \ {id, p} : P[f] = T[f]
  BY <1>0, <1>1, <1>2, <1>3, <1>4 DEF FoldersOf
<1>7. zero_uuid \notin FoldersOf(P)
  BY <1>5 DEF EntriesTyped, FoldersOf
<1>8. ASSUME NEW f \in FoldersOf(T)
      PROVE  /\ T[f].FolderID \in FoldersOf(T) \cup {zero_uuid}
             /\ Range(T[f].ChildItems) \subseteq DOMAIN T
             /\ \A c \in Range(T[f].ChildFolders) : c \in FoldersOf(T) /\ T[c].FolderID = f
             /\ T[f].FolderID \in FoldersOf(T) => f \in Range(T[T[f].FolderID].ChildFolders)
             /\ T[f].FolderID # id
  <2>1. /\ T[f].FolderID \in FoldersOf(T) \cup {zero_uuid}
        /\ Range(T[f].ChildItems) \subseteq DOMAIN T
        /\ \A c \in Range(T[f].ChildFolders) : c \in FoldersOf(T) /\ T[c].FolderID = f
        /\ T[f].FolderID \in FoldersOf(T) => f \in Range(T[T[f].FolderID].ChildFolders)
    BY DEF TreeInv, FoldersLinked
  <2>2. id \in FoldersOf(T) => T[f].FolderID # id
    BY <1>4, <2>1 DEF FoldersOf
  <2> QED BY <2>1, <2>2
<1>9. \A c \in FoldersOf(T) : P[c].FolderID = T[c].FolderID
  BY <1>1, <1>2, <1>3, <1>4, <1>6 DEF FoldersOf
<1>10. \A g \in FoldersOf(T) \ {id} : Range(T[g].ChildFolders) \subseteq Range(P[g].ChildFolders)
  BY <1>1, <1>3, <1>6
<1>11. \A g \in FoldersOf(T) \ {id} : P[g].ChildItems = T[g].ChildItems
  BY <1>1, <1>3, <1>6
<1>12. ASSUME NEW f \in FoldersOf(T) \ {id}
       PROVE  /\ P[f].FolderID \in FoldersOf(P) \cup {zero_uuid}
              /\ Range(P[f].ChildItems) \subseteq DOMAIN P
              /\ \A c \in Range(P[f].ChildFolders) : c \in FoldersOf(P) /\ P[c].FolderID = f
              /\ P[f].FolderID \in FoldersOf(P) => f \in Range(P[P[f].FolderID].ChildFolders)
  <2>1. P[f].FolderID \in FoldersOf(P) \cup {zero_uuid}
    BY <1>6, <1>8, <1>9
  <2>2. Range(P[f].ChildItems) \subseteq DOMAIN P
    BY <1>1, <1>8, <1>11
  <2>3. ASSUME NEW c \in Range(P[f].ChildFolders)
        PROVE  c \in FoldersOf(P) /\ P[c].FolderID = f
    <3>1. CASE f = p /\ c = id
      BY <1>1, <1>2, <1>6, <3>1
    <3>2. CASE ~(f = p /\ c = id)
      <4>1. c \in Range(T[f].ChildFolders)
        BY <1>1, <1>3, <1>6, <2>3, <3>2
      <4> QED BY <1>6, <1>8, <1>9, <4>1
    <3> QED BY <3>1, <3>2
  <2>4. P[f].FolderID \in FoldersOf(P) => f \in Range(P[P[f].FolderID].ChildFolders)
    <3>1. T[f].FolderID \in FoldersOf(P) => T[f].FolderID \in FoldersOf(T) \ {id}
      BY <1>6, <1>8
    <3> QED BY <1>8, <1>9, <1>10, <3>1
  <2> QED BY <2>1, <2>2, <2>3, <2>4
<1>13. /\ P[id].FolderID \in FoldersOf(P) \cup {zero_uuid}
       /\ Range(P[id].ChildItems) \subseteq DOMAIN P
       /\ \A c \in Range(P[id].ChildFolders) : c \in FoldersOf(P) /\ P[c].FolderID = id
       /\ P[id].FolderID \in FoldersOf(P) => id \in Range(P[P[id].FolderID].ChildFolders)
  BY <1>1, <1>2, <1>3, <1>6
<1>14. FoldersLinked(P)
  BY <1>6, <1>12, <1>13 DEF FoldersLinked
<1>15. TreeInv(P)
  BY <1>5, <1>14 DEF TreeInv
<1> QED BY <1>15 DEF P, e

LEMMA CreateFolderKeeps ==
  ASSUME NEW T, TreeInv(T), NEW f \in Folders
  PROVE  /\ TreeInv(CreateFolder(T, Folder(f), TypeParent))
         /\ DOMAIN CreateFolder(T, Folder(f), TypeParent) = DOMAIN T \cup {Folder(f), TypeParent}
         /\ \A x \in ItemIds \cap DOMAIN T : CreateFolder(T, Folder(f), TypeParent)[x] = T[x]
<1> DEFINE K == IF TypeParent \in DOMAIN T THEN T
                ELSE Put(T, TypeParent, NewFolder(zero_uuid))
           C == Put(ListFolder(K, TypeParent, Folder(f)), Folder(f), NewFolder(TypeParent))
<1>1. zero_uuid \notin DOMAIN T /\ TypeParent \in Ids /\ Folder(f) \in Ids
  BY DEF TreeInv, EntriesTyped, Ids, Folder
<1>2. CreateFolder(T, Folder(f), TypeParent) = C
  BY <1>1 DEF CreateFolder, ListFolder
<1>3. /\ TypeParent # zero_uuid /\ TypeParent # wearables
      /\ TypeParent \notin ItemIds /\ Folder(f) \notin ItemIds
      /\ \A g \in Folders : TypeParent # Folder(g)
      /\ Folder(f) # TypeParent /\ Folder(f) # zero_uuid /\ Folder(f) # wearables
  BY DEF ItemIds, Item, LibraryItem, Folder, TypeParent, wearables, zero_uuid
<1>4. TreeInv(K)
  BY <1>1, <1>3, PutTopFolder
<1>5. DOMAIN K = DOMAIN T \cup {TypeParent} /\ \A x \in DOMAIN T : K[x] = T[x]
  BY DEF Put
<1> HIDE DEF K
<1>6. TypeParent \in FoldersOf(K)
  BY <1>4, <1>5 DEF TreeInv, EntriesTyped, FoldersOf
<1>7. Folder(f) \in DOMAIN K => K[Folder(f)] = NewFolder(TypeParent)
  BY <1>4 DEF TreeInv, EntriesTyped
<1>8. TreeInv(C)
  BY <1>1, <1>3, <1>4, <1>6, <1>7, PutChild
<1>9. DOMAIN C = DOMAIN K \cup {Folder(f)}
  BY DEF Put, ListFolder
<1>10. \A x \in DOMAIN K \ {TypeParent, Folder(f)} : C[x] = K[x]
  BY <1>4 DEF Put, ListFolder, TreeInv, EntriesTyped
<1> HIDE DEF C
<1>11. \A x \in ItemIds \cap DOMAIN T : C[x] = T[x]
  BY <1>3, <1>5, <1>10
<1> QED BY <1>2, <1>5, <1>8, <1>9, <1>11

LEMMA EmptyTree == TreeInv(<<>>)
<1>1. DOMAIN <<>> = {}
  OBVIOUS
<1>2. <<>> \in [{} -> FolderEntries \cup ItemEntries \cup OutfitEntries]
  OBVIOUS
<1>3. FoldersOf(<<>>) = {}
  BY <1>1 DEF FoldersOf
<1> QED BY <1>1, <1>2, <1>3 DEF TreeInv, EntriesTyped, FoldersLinked

LEMMA SkeletonIsATree ==
  ASSUME NEW a \in Agents
  PROVE  TreeInv(CreateSkeleton(a)) /\ ItemIds \cap DOMAIN CreateSkeleton(a) = {}
<1> DEFINE R == Put(<<>>, Root(a), NewFolder(zero_uuid))
           id == <<"clothing", a>>
<1>1. /\ Root(a) \in Ids /\ Root(a) # zero_uuid /\ Root(a) # wearables
      /\ Root(a) \notin ItemIds /\ id \notin ItemIds
      /\ \A f \in Folders : Root(a) # Folder(f) /\ id # Folder(f)
      /\ id \in Ids /\ id # Root(a) /\ id # zero_uuid /\ id # wearables
  BY DEF Ids, ItemIds, Root, Item, LibraryItem, Folder, wearables, zero_uuid
<1>2. DOMAIN <<>> = {}
  OBVIOUS
<1>3. TreeInv(R)
  BY <1>1, <1>2, EmptyTree, PutTopFolder
<1>4. DOMAIN R = {Root(a)} /\ R[Root(a)] = NewFolder(zero_uuid)
  BY <1>2 DEF Put
<1>5. Root(a) \in FoldersOf(R)
  <2>1. zero_uuid \in Ids
    BY DEF Ids
  <2> QED BY <1>4, <2>1, NewFolderIs DEF FoldersOf
<1>6. CreateSkeleton(a) = Put(ListFolder(R, Root(a), id), id, NewFolder(Root(a)))
  BY <1>4 DEF CreateSkeleton, CreateFolder
<1> HIDE DEF R, id
<1>7. TreeInv(Put(ListFolder(R, Root(a), id), id, NewFolder(Root(a))))
  BY <1>1, <1>3, <1>4, <1>5, PutChild
<1>8. DOMAIN Put(ListFolder(R, Root(a), id), id, NewFolder(Root(a))) = {Root(a), id}
  BY <1>4 DEF Put, ListFolder
<1> QED BY <1>1, <1>6, <1>7, <1>8

LEMMA LibraryIsATree ==
  /\ TreeInv(LoadLibrary) /\ ItemIds \cap DOMAIN LoadLibrary = {LibraryItem}
  /\ LoadLibrary[LibraryItem].AssetID = LibraryAsset
<1> DEFINE R == Put(<<>>, Root(Library), NewFolder(zero_uuid))
           l == [NewFolder(zero_uuid) EXCEPT !.ChildItems = <<LibraryItem>>]
           e == NewItem(Root(Library), LibraryAsset)
           L == LoadLibrary
<1>1. /\ Root(Library) \in Ids /\ LibraryItem \in Ids /\ LibraryAsset \in Ids /\ zero_uuid \in Ids
      /\ Root(Library) # LibraryItem
      /\ \A id \in {Root(Library), LibraryItem} :
           /\ id # zero_uuid /\ id # wearables /\ id # TypeParent
           /\ \A f \in Folders : id # Folder(f)
      /\ Root(Library) \notin ItemIds /\ LibraryItem \in ItemIds
  BY DEF Ids, ItemIds, Root, Item, Folder, wearables, zero_uuid, LibraryItem, LibraryAsset,
         TypeParent
<1>2. DOMAIN <<>> = {}
  OBVIOUS
<1>3. /\ DOMAIN R = {Root(Library)} /\ R[Root(Library)] = NewFolder(zero_uuid)
  BY <1>2 DEF Put
<1>4. /\ DOMAIN L = {Root(Library), LibraryItem}
      /\ L[Root(Library)] = l /\ L[LibraryItem] = e
      /\ L = [x \in DOMAIN L |-> L[x]]
  BY <1>1, <1>3 DEF LoadLibrary, Put
<1>5. /\ l \in FolderEntries /\ l.FolderID = zero_uuid
      /\ Range(l.ChildFolders) = {} /\ Range(l.ChildItems) = {LibraryItem}
  <2>1. <<LibraryItem>> \in Seq(Ids) /\ <<>> \in Seq(Ids)
    BY <1>1, EmptySeq
  <2>2. Range(<<LibraryItem>>) = {LibraryItem}
    BY DEF Range
  <2> QED BY <1>1, <2>1, <2>2, NoRange DEF NewFolder, FolderEntries
<1>6. e \in ItemEntries /\ e.AssetID = LibraryAsset
  BY <1>1 DEF NewItem, ItemEntries, Named
<1> HIDE DEF L, l, e
<1>7. EntriesTyped(L)
  BY <1>1, <1>4, <1>5, <1>6 DEF EntriesTyped
<1>8. FoldersOf(L) = {Root(Library)}
  BY <1>4, <1>5, <1>6, EntriesDiffer DEF FoldersOf
<1>9. FoldersLinked(L)
  BY <1>1, <1>4, <1>5, <1>8 DEF FoldersLinked
<1>10. ItemIds \cap DOMAIN L = {LibraryItem} /\ L[LibraryItem].AssetID = LibraryAsset
  BY <1>1, <1>4, <1>6
<1> QED BY <1>7, <1>9, <1>10 DEF TreeInv, L

-----------------------------------------------------------------------------
(* The system. *)

Owners == Agents \cup {Library}
Uploaded == {Asset(n) : n \in 1 .. Len(assets)}
OwnerOf(r) == AgentOf[async_requests_store[r].session]

Tables ==
  /\ sessions \subseteq issued /\ issued \subseteq Sessions
  /\ assets \in Seq(BOOLEAN)
  /\ DOMAIN transactions \subseteq Transactions
  /\ \A x \in DOMAIN transactions : transactions[x] \in Uploaded
  /\ all_assets \subseteq Uploaded
  /\ \A s \in issued : Root(AgentOf[s]) \in DOMAIN local_inventory[AgentOf[s]]

\* The library is what its archives hold; every inventory is a sound tree, and
\* one without its root was never used.
Trees ==
  /\ local_inventory = [o \in Owners |-> local_inventory[o]]
  /\ local_inventory[Library] = LoadLibrary
  /\ \A o \in Owners : TreeInv(local_inventory[o])
  /\ \A a \in Agents : Root(a) \in DOMAIN local_inventory[a] \/ DOMAIN local_inventory[a] = {}

\* An item has the number of the request that created it, and no request that
\* its server has not handled yet.
Fresh ==
  \A o \in Agents, n \in Nat : Item(n) \in DOMAIN local_inventory[o] =>
    /\ n \in Made
    /\ \A i \in Idx : conn[i].state \in {"connecting", "sending", "asked"} => is[i].req # n

\* What the handlers of smvserver.lua put in the store.
Stored ==
  \A r \in Made : LET q == async_requests_store[r] IN
    /\ q.session \in issued
    /\ q.cmd = "upload" => q.arg \in Uploaded
    /\ q.cmd = "create_folder" => q.arg \in {Folder(f) : f \in Folders}
    /\ q.cmd = "update" =>
         \/ q.arg = LibraryItem
         \/ \E n \in Nat : q.arg = Item(n) /\ Item(n) \in DOMAIN local_inventory[OwnerOf(r)]

Held(s) ==
  DOMAIN local_inventory[AgentOf[s]] \cup DOMAIN local_inventory[Library]
    \cup all_assets \cup {LibraryAsset}

\* What an answer on its way, or one a viewer was told of, names is held.
Told ==
  /\ \A p \in sent : /\ p.req \in Made
                     /\ p.to = async_requests_store[p.req].session
                     /\ p.told \subseteq Held(p.to)
  /\ \A i \in Idx : conn[i].state = "answered" =>
       conn[i].answer \ {nil} \subseteq Held(async_requests_store[is[i].req].session)

\* Only the copy of a library item that an agent updated without an asset has
\* none.
NilAssets ==
  \A a \in Agents : \A x \in ItemIds \cap DOMAIN local_inventory[a] :
    local_inventory[a][x].AssetID = nil =>
      x = LibraryItem /\ UpdateNamesNoAsset(a, LibraryItem)

\* So only such an agent is shown it.
Bare ==
  \A i \in Idx : conn[i].state = "answered" /\ nil \in conn[i].answer => Excused(is[i].req)

IInv == ClientInv /\ Tables /\ Trees /\ Fresh /\ Stored /\ Told /\ NilAssets /\ Bare

LEMMA Initially == Init => IInv
<1> SUFFICES ASSUME Init PROVE IInv
  OBVIOUS
<1>1. ClientInv
  BY ClientInitially
<1>2. Made = {}
  BY DEF Init, ClientInit, Made
<1>3. Tables
  BY DEF Init, Tables
<1>4. Trees
  <2>1. \A o \in Owners : local_inventory[o] = IF o = Library THEN LoadLibrary ELSE <<>>
    BY DEF Init, Owners
  <2>2. local_inventory = [o \in Owners |-> local_inventory[o]]
    BY DEF Init, Owners
  <2>3. Library \in Owners
    BY DEF Owners
  <2>4. \A a \in Agents : a \in Owners /\ a # Library
    BY AgentAssumption DEF Owners
  <2>5. DOMAIN <<>> = {}
    OBVIOUS
  <2> QED BY <2>1, <2>2, <2>3, <2>4, <2>5, EmptyTree, LibraryIsATree DEF Trees
<1>5. Fresh
  <2>1. \A o \in Agents : local_inventory[o] = <<>>
    BY AgentAssumption DEF Init
  <2>2. DOMAIN <<>> = {}
    OBVIOUS
  <2> QED BY <2>1, <2>2 DEF Fresh
<1>6. Stored
  BY <1>2 DEF Stored
<1>7. Told /\ Bare
  BY DEF Init, ClientInit, Told, Bare, Closed
<1>8. NilAssets
  <2>1. \A o \in Agents : local_inventory[o] = <<>>
    BY AgentAssumption DEF Init
  <2>2. DOMAIN <<>> = {}
    OBVIOUS
  <2> QED BY <2>1, <2>2 DEF NilAssets
<1> QED BY <1>1, <1>3, <1>4, <1>5, <1>6, <1>7, <1>8 DEF IInv

\* A request in the store has the fields it was made with.
LEMMA RequestsTyped ==
  ASSUME ClientInv, NEW r \in Made
  PROVE  /\ async_requests_store[r] \in Requests
         /\ async_requests_store[r].session \in Sessions
         /\ OwnerOf(r) \in Agents /\ OwnerOf(r) \in Owners /\ OwnerOf(r) # Library
<1>1. async_requests_store[r] \in Requests
  BY LenProperties, ElementOfSeq DEF ClientInv, ClientTyped, Made
<1> QED BY <1>1, AgentAssumption DEF Requests, OwnerOf, Owners

\* A request stays in the store, and with it what it excuses.
LEMMA UpdatesStay ==
  ASSUME Made \subseteq Made', \A m \in Made : async_requests_store'[m] = async_requests_store[m]
  PROVE  /\ \A a, x : UpdateNamesNoAsset(a, x) => UpdateNamesNoAsset(a, x)'
         /\ \A m \in Made : Excused(m) => Excused(m)'
<1>1. \A a, x : UpdateNamesNoAsset(a, x) => UpdateNamesNoAsset(a, x)'
  BY DEF UpdateNamesNoAsset
<1> QED BY <1>1 DEF Excused

\* What holds goes on holding while inventories and stores only grow.
LEMMA TablesGrow ==
  ASSUME IInv, Trees',
         \A o \in Owners : DOMAIN local_inventory[o] \subseteq DOMAIN local_inventory'[o],
         all_assets \subseteq all_assets', Uploaded \subseteq Uploaded',
         issued \subseteq issued', UNCHANGED async_requests_store
  PROVE  /\ Stored'
         /\ \A s \in Sessions : Held(s) \subseteq Held(s)'
<1>1. Made' = Made
  BY DEF Made
<1>2. Library \in Owners /\ \A s \in Sessions : AgentOf[s] \in Owners
  BY AgentAssumption DEF Owners
<1>3. ASSUME NEW r \in Made
      PROVE  LET q == async_requests_store'[r] IN
             /\ q.session \in issued'
             /\ q.cmd = "upload" => q.arg \in Uploaded'
             /\ q.cmd = "create_folder" => q.arg \in {Folder(f) : f \in Folders}
             /\ q.cmd = "update" =>
                  \/ q.arg = LibraryItem
                  \/ \E n \in Nat : q.arg = Item(n) /\ Item(n) \in DOMAIN local_inventory'[OwnerOf(r)']
  <2>1. OwnerOf(r)' = OwnerOf(r) /\ OwnerOf(r) \in Owners
    BY RequestsTyped DEF OwnerOf, IInv
  <2> QED BY <1>3, <2>1 DEF IInv, Stored
<1>4. Stored'
  BY <1>1, <1>3 DEF Stored
<1>5. \A s \in Sessions : Held(s) \subseteq Held(s)'
  BY <1>2 DEF Held
<1> QED BY <1>4, <1>5

LEMMA ToldStays ==
  ASSUME IInv, \A s \in Sessions : Held(s) \subseteq Held(s)',
         UNCHANGED <<async_requests_store, is, conn, sent>>
  PROVE  Told' /\ Bare'
<1>1. Made' = Made
  BY DEF Made
<1>2. \A p \in sent : p.to \in Sessions
  BY RequestsTyped DEF IInv, Told
<1>3. \A i \in Idx : conn[i].state = "answered" =>
         async_requests_store[is[i].req].session \in Sessions
  BY RequestsTyped DEF IInv, ClientInv, EntryFits
<1>4. Bare'
  BY DEF IInv, Bare, Excused, UpdateNamesNoAsset, Made
<1> QED BY <1>1, <1>2, <1>3, <1>4 DEF IInv, Told

-----------------------------------------------------------------------------
(* Steps. *)

\* An agent's inventory becomes T.
LEMMA TreeChanges ==
  ASSUME IInv, NEW a \in Agents, NEW T, TreeInv(T), Root(a) \in DOMAIN T,
         DOMAIN local_inventory[a] \subseteq DOMAIN T,
         local_inventory' = [local_inventory EXCEPT ![a] = T]
  PROVE  /\ Trees'
         /\ local_inventory'[a] = T
         /\ \A o \in Owners \ {a} : local_inventory'[o] = local_inventory[o]
         /\ \A o \in Owners : DOMAIN local_inventory[o] \subseteq DOMAIN local_inventory'[o]
<1>1. a \in Owners /\ Library \in Owners /\ a # Library /\ Agents \subseteq Owners
  BY AgentAssumption DEF Owners
<1>2. /\ local_inventory'[a] = T
      /\ \A o \in Owners \ {a} : local_inventory'[o] = local_inventory[o]
      /\ local_inventory' = [o \in Owners |-> local_inventory'[o]]
  BY <1>1 DEF IInv, Trees
<1>3. Trees'
  BY <1>1, <1>2 DEF IInv, Trees, Owners
<1>4. \A o \in Owners : DOMAIN local_inventory[o] \subseteq DOMAIN local_inventory'[o]
  BY <1>2
<1> QED BY <1>2, <1>3, <1>4

LEMMA LoginKeeps ==
  ASSUME IInv, NEW s \in Sessions, Login(s)
  PROVE  IInv'
<1> DEFINE a == AgentOf[s]
<1>0. /\ issued' = issued \cup {s} /\ UNCHANGED client /\ sessions' = sessions
      /\ UNCHANGED <<transactions, assets, all_assets, hung, sent>>
      /\ local_inventory' = [local_inventory EXCEPT ![a] =
                               IF Root(a) \in DOMAIN @ THEN @ ELSE CreateSkeleton(a)]
  BY DEF Login
<1>1. /\ UNCHANGED <<async_requests_store, is, conn, live, outcome>>
      /\ Made' = Made /\ Uploaded' = Uploaded
  BY <1>0 DEF client, Made, Uploaded
<1>2. a \in Agents /\ a # Library /\ a \in Owners /\ Library \in Owners /\ Agents \subseteq Owners
  BY AgentAssumption DEF Owners
<1>3. ClientInv'
  BY <1>0, ClientStutters DEF IInv
<1> HIDE DEF a
<1>4. \E T : /\ local_inventory' = [local_inventory EXCEPT ![a] = T]
             /\ TreeInv(T) /\ Root(a) \in DOMAIN T
             /\ DOMAIN local_inventory[a] \subseteq DOMAIN T
             /\ \A x \in ItemIds \cap DOMAIN T :
                   x \in DOMAIN local_inventory[a] /\ T[x] = local_inventory[a][x]
  <2>1. CASE Root(a) \in DOMAIN local_inventory[a]
    <3>1. local_inventory' = [local_inventory EXCEPT ![a] = local_inventory[a]]
      BY <1>0, <1>2, <2>1 DEF IInv, Trees
    <3>2. TreeInv(local_inventory[a])
      BY <1>2 DEF IInv, Trees
    <3> QED BY <2>1, <3>1, <3>2
  <2>2. CASE Root(a) \notin DOMAIN local_inventory[a]
    <3>1. local_inventory' = [local_inventory EXCEPT ![a] = CreateSkeleton(a)]
      BY <1>0, <1>2, <2>2 DEF IInv, Trees
    <3>2. DOMAIN local_inventory[a] = {}
      BY <1>2, <2>2 DEF IInv, Trees
    <3>3. Root(a) \in DOMAIN CreateSkeleton(a)
      BY DEF CreateSkeleton, CreateFolder, Put, ListFolder
    <3> QED BY <1>2, <3>1, <3>2, <3>3, SkeletonIsATree
  <2> QED BY <2>1, <2>2
<1>5. PICK T : /\ local_inventory' = [local_inventory EXCEPT ![a] = T]
               /\ TreeInv(T) /\ Root(a) \in DOMAIN T
               /\ DOMAIN local_inventory[a] \subseteq DOMAIN T
               /\ \A x \in ItemIds \cap DOMAIN T :
                     x \in DOMAIN local_inventory[a] /\ T[x] = local_inventory[a][x]
  BY <1>4
<1>6. /\ Trees' /\ local_inventory'[a] = T
      /\ \A o \in Owners \ {a} : local_inventory'[o] = local_inventory[o]
      /\ \A o \in Owners : DOMAIN local_inventory[o] \subseteq DOMAIN local_inventory'[o]
  BY <1>2, <1>5, TreeChanges
<1>7. Stored' /\ \A z \in Sessions : Held(z) \subseteq Held(z)'
  BY <1>0, <1>1, <1>6, TablesGrow
<1>8. Tables'
  <2>1. \A z \in issued : AgentOf[z] \in Owners
    BY <1>2, AgentAssumption DEF IInv, Tables
  <2>2. \A z \in issued' : Root(AgentOf[z]) \in DOMAIN local_inventory'[AgentOf[z]]
    BY <1>0, <1>5, <1>6, <2>1 DEF IInv, Tables, a
  <2> QED BY <1>0, <1>1, <2>2 DEF IInv, Tables
<1>9. Fresh'
  <2>1. \A n \in Nat : Item(n) \in ItemIds
    BY DEF ItemIds
  <2> QED BY <1>1, <1>2, <1>5, <1>6, <2>1 DEF IInv, Fresh
<1>10. Told' /\ Bare'
  BY <1>0, <1>1, <1>7, ToldStays DEF IInv
<1>11. NilAssets'
  <2>1. \A o \in Agents : \A x \in ItemIds \cap DOMAIN local_inventory'[o] :
          x \in DOMAIN local_inventory[o] /\ local_inventory'[o][x] = local_inventory[o][x]
    BY <1>2, <1>5, <1>6
  <2> QED BY <1>1, <2>1, UpdatesStay DEF IInv, NilAssets
<1> QED BY <1>3, <1>6, <1>7, <1>8, <1>9, <1>10, <1>11 DEF IInv

LEMMA UseCircuitCodeKeeps ==
  ASSUME IInv, NEW s \in Sessions, UseCircuitCode(s) \/ LogoutRequest(s)
  PROVE  IInv'
<1>1. /\ sessions' \subseteq issued /\ issued' = issued
      /\ UNCHANGED <<client, local_inventory, transactions, assets, all_assets, hung, sent>>
  BY DEF UseCircuitCode, LogoutRequest, store, IInv, Tables
<1>2. ClientInv'
  BY <1>1, ClientStutters DEF IInv
<1>3. UNCHANGED <<async_requests_store, is, conn>> /\ Made' = Made
  BY <1>1 DEF client, Made
<1>4. Tables'
  BY <1>1 DEF IInv, Tables, Uploaded
<1>5. Trees'
  BY <1>1 DEF IInv, Trees
<1>6. Fresh'
  BY <1>1, <1>3 DEF IInv, Fresh
<1>7. Stored'
  BY <1>1, <1>3 DEF IInv, Stored, Uploaded, OwnerOf
<1>8. Told'
  BY <1>1, <1>3 DEF IInv, Told, Held
<1>9. NilAssets' /\ Bare'
  BY <1>1, <1>3, UpdatesStay DEF IInv, ClientInv, EntryFits, NilAssets, Bare
<1> QED BY <1>2, <1>4, <1>5, <1>6, <1>7, <1>8, <1>9 DEF IInv

\* A new request takes an index that had none, or no index.
LEMMA MakeReqTakes ==
  ASSUME ClientInv, NEW a, NEW posted, MakeReq(a, posted)
  PROVE  /\ async_requests_store' = Append(async_requests_store, a)
         /\ \A i \in Idx :
              \/ is'[i] = is[i] /\ conn'[i] = conn[i]
              \/ conn'[i].state = "connecting" /\ is'[i].req = Len(async_requests_store) + 1
<1> DEFINE r == Len(async_requests_store) + 1
<1>0. async_requests_store' = Append(async_requests_store, a)
  BY DEF MakeReq
<1>1. CASE UNCHANGED <<is, conn>>
  BY <1>0, <1>1
<1>2. CASE /\ FreeIdx # {}
           /\ conn' = [conn EXCEPT ![Min(FreeIdx)].state = "connecting"]
           /\ is' = [is EXCEPT ![Min(FreeIdx)] = [NoEntry EXCEPT !.req = r]]
  <2>1. FreeIdx \in SUBSET Nat
    BY IdxAssumption DEF FreeIdx
  <2>2. Min(FreeIdx) \in FreeIdx
    BY <1>2, <2>1, MinIsIn
  <2>3. PICK i \in Idx : /\ conn' = [conn EXCEPT ![i].state = "connecting"]
                         /\ is' = [is EXCEPT ![i] = [NoEntry EXCEPT !.req = r]]
    BY <1>2, <2>2 DEF FreeIdx
  <2>4. is'[i].req = r /\ conn'[i].state = "connecting"
    BY <2>3 DEF ClientInv, ClientTyped, NoEntry
  <2>5. \A j \in Idx \ {i} : is'[j] = is[j] /\ conn'[j] = conn[j]
    BY <2>3 DEF ClientInv, ClientTyped
  <2> QED BY <1>0, <2>4, <2>5
<1> QED BY <1>1, <1>2 DEF MakeReq

LEMMA AskKeeps ==
  ASSUME IInv, NEW s \in Sessions, NEW cmd, NEW arg \in Ids, NEW asset \in Ids,
         Ask(s, cmd, arg, asset),
         Uploaded \subseteq Uploaded', assets' \in Seq(BOOLEAN),
         DOMAIN transactions' \subseteq Transactions,
         \A x \in DOMAIN transactions' : transactions'[x] \in Uploaded',
         cmd = "upload" => arg \in Uploaded',
         cmd = "create_folder" => arg \in {Folder(f) : f \in Folders},
         cmd = "update" =>
           \/ arg = LibraryItem
           \/ \E n \in Nat : arg = Item(n) /\ Item(n) \in DOMAIN local_inventory[AgentOf[s]]
  PROVE  IInv'
<1> DEFINE a == Request(s, cmd, arg, asset)
<1>r. PICK r : r = Len(async_requests_store) + 1
  OBVIOUS
<1>0. /\ s \in sessions /\ cmd \in Commands /\ MakeReq(a, cmd = "upload")
      /\ UNCHANGED <<issued, sessions, local_inventory, all_assets, hung, sent>>
  BY DEF Ask, viewers
<1>1. /\ a \in Requests /\ a.session = s /\ a.cmd = cmd /\ a.arg = arg /\ s \in issued
  BY <1>0 DEF Request, Requests, IInv, Tables
<1> HIDE DEF a
<1>2. ClientInv'
  BY <1>0, <1>1, MakeReqKeepsClient DEF IInv
<1>3. /\ async_requests_store' = Append(async_requests_store, a)
      /\ \A i \in Idx :
              \/ is'[i] = is[i] /\ conn'[i] = conn[i]
              \/ conn'[i].state = "connecting" /\ is'[i].req = r
  BY <1>0, <1>r, MakeReqTakes DEF IInv
<1>4. /\ r \in Nat /\ r \notin Made /\ Made' = Made \cup {r}
      /\ \A m \in Made : async_requests_store'[m] = async_requests_store[m]
      /\ async_requests_store'[r] = a
  BY <1>r, <1>1, <1>3, StoreGrows DEF IInv, ClientInv
<1>5. Tables'
  BY <1>0 DEF IInv, Tables
<1>6. Trees'
  BY <1>0 DEF IInv, Trees
<1>7. Fresh'
  BY <1>0, <1>3, <1>4 DEF IInv, Fresh
<1>8. Stored'
  <2>1. ASSUME NEW m \in Made
        PROVE  LET q == async_requests_store'[m] IN
               /\ q.session \in issued'
               /\ q.cmd = "upload" => q.arg \in Uploaded'
               /\ q.cmd = "create_folder" => q.arg \in {Folder(f) : f \in Folders}
               /\ q.cmd = "update" =>
                    \/ q.arg = LibraryItem
                    \/ \E n \in Nat : q.arg = Item(n) /\ Item(n) \in DOMAIN local_inventory'[OwnerOf(m)']
    BY <1>0, <1>4, <2>1 DEF IInv, Stored, OwnerOf
  <2>2. OwnerOf(r)' = AgentOf[s]
    BY <1>1, <1>4 DEF OwnerOf
  <2>3. LET q == async_requests_store'[r] IN
        /\ q.session \in issued'
        /\ q.cmd = "upload" => q.arg \in Uploaded'
        /\ q.cmd = "create_folder" => q.arg \in {Folder(f) : f \in Folders}
        /\ q.cmd = "update" =>
             \/ q.arg = LibraryItem
             \/ \E n \in Nat : q.arg = Item(n) /\ Item(n) \in DOMAIN local_inventory'[OwnerOf(r)']
    BY <1>0, <1>1, <1>4, <2>2
  <2> QED BY <1>4, <2>1, <2>3 DEF Stored
<1>9. Told'
  <2>1. \A z : Held(z)' = Held(z)
    BY <1>0 DEF Held
  <2>2. \A p \in sent' : /\ p.req \in Made'
                         /\ p.to = async_requests_store'[p.req].session
                         /\ p.told \subseteq Held(p.to)'
    BY <1>0, <1>4, <2>1 DEF IInv, Told
  <2>3. ASSUME NEW i \in Idx, conn'[i].state = "answered"
        PROVE  (conn[i].answer \ {nil} \subseteq Held(async_requests_store[is[i].req].session))'
    <3>1. is'[i] = is[i] /\ conn'[i] = conn[i]
      BY <1>3, <2>3
    <3>2. is[i].req \in Made
      BY <2>3, <3>1 DEF IInv, ClientInv, EntryFits
    <3>3. async_requests_store'[is'[i].req] = async_requests_store[is[i].req]
      BY <1>4, <3>1, <3>2
    <3> QED BY <2>1, <2>3, <3>1, <3>3 DEF IInv, Told
  <2> QED BY <2>2, <2>3 DEF Told
<1>10. NilAssets'
  BY <1>0, <1>4, UpdatesStay DEF IInv, NilAssets
<1>11. Bare'
  <2> SUFFICES ASSUME NEW i \in Idx, conn'[i].state = "answered", nil \in conn'[i].answer
               PROVE  Excused(is[i].req)'
    BY DEF Bare
  <2>1. is'[i] = is[i] /\ conn'[i] = conn[i]
    BY <1>3
  <2>2. is[i].req \in Made /\ Excused(is[i].req)
    BY <2>1 DEF IInv, ClientInv, EntryFits, Bare
  <2>3. PICK m \in Made : m = is[i].req /\ Excused(m)
    BY <2>2
  <2>4. Excused(m)'
    BY <1>4, <2>3, UpdatesStay
  <2> QED BY <2>1, <2>3, <2>4 DEF Excused
<1> QED BY <1>2, <1>5, <1>6, <1>7, <1>8, <1>9, <1>10, <1>11 DEF IInv

\* The packets that become a request.
LEMMA AskedAsIs ==
  ASSUME IInv, NEW s \in Sessions, NEW cmd, NEW arg \in Ids, NEW asset \in Ids,
         Ask(s, cmd, arg, asset), Unasked, cmd # "upload",
         cmd = "create_folder" => arg \in {Folder(f) : f \in Folders},
         cmd = "update" =>
           \/ arg = LibraryItem
           \/ \E n \in Nat : arg = Item(n) /\ Item(n) \in DOMAIN local_inventory[AgentOf[s]]
  PROVE  IInv'
<1>1. /\ Uploaded \subseteq Uploaded' /\ assets' \in Seq(BOOLEAN)
      /\ DOMAIN transactions' \subseteq Transactions
      /\ \A x \in DOMAIN transactions' : transactions'[x] \in Uploaded'
  BY DEF Unasked, IInv, Tables, Uploaded
<1> QED BY <1>1, AskKeeps

\* What a viewer knows of is an item of its own agent, or the library's.
LEMMA ToldItemsAreOwn ==
  ASSUME IInv, NEW s \in Sessions, NEW id \in ToldItems(s), id # LibraryItem
  PROVE  \E n \in Nat : id = Item(n) /\ Item(n) \in DOMAIN local_inventory[AgentOf[s]]
<1>1. PICK p \in sent : p.to = s /\ id \in p.told
  BY DEF ToldItems
<1>2. PICK n \in Made : id = Item(n)
  BY DEF ToldItems, Items
<1>3. id \in Held(s)
  BY <1>1 DEF IInv, Told
<1>4. n \in Nat /\ id \in ItemIds
  BY <1>2, LenProperties DEF Made, IInv, ClientInv, ClientTyped, ItemIds
<1>5. id \notin DOMAIN local_inventory[Library] /\ id # LibraryAsset
  BY <1>2, <1>4, LibraryIsATree DEF IInv, Trees, Item, LibraryAsset
<1>6. id \notin all_assets
  <2>1. \A m \in 1 .. Len(assets) : Asset(m) # id
    BY <1>2 DEF Asset, Item
  <2> QED BY <2>1 DEF IInv, Tables, Uploaded
<1> QED BY <1>2, <1>3, <1>4, <1>5, <1>6 DEF Held

LEMMA UploadedIds ==
  ASSUME IInv
  PROVE  /\ Uploaded \subseteq Ids
         /\ \A x \in DOMAIN transactions : transactions[x] \in Ids
<1>1. Len(assets) \in Nat
  BY LenProperties DEF IInv, Tables
<1>2. Uploaded \subseteq Ids
  BY <1>1 DEF Uploaded, Ids
<1> QED BY <1>2 DEF IInv, Tables

\* An upload names a new asset.
LEMMA NewAsset ==
  ASSUME IInv, NEW b \in BOOLEAN, NEW x \in Transactions, assets' = Append(assets, b),
         transactions' = Put(transactions, x, Asset(Len(assets) + 1))
  PROVE  /\ Uploaded \subseteq Uploaded' /\ assets' \in Seq(BOOLEAN)
         /\ DOMAIN transactions' \subseteq Transactions
         /\ \A y \in DOMAIN transactions' : transactions'[y] \in Uploaded'
         /\ Asset(Len(assets) + 1) \in Uploaded' /\ Asset(Len(assets) + 1) \in Ids
<1> DEFINE l == Len(assets)
<1>1. assets \in Seq(BOOLEAN) /\ l \in Nat
  BY LenProperties DEF IInv, Tables
<1>2. assets' \in Seq(BOOLEAN) /\ Len(assets') = l + 1
  BY <1>1, AppendProperties
<1>3. Uploaded' = {Asset(n) : n \in 1 .. Len(assets')}
  BY DEF Uploaded
<1> HIDE DEF l
<1>4. 1 .. l \subseteq 1 .. (l + 1) /\ l + 1 \in 1 .. (l + 1) /\ l + 1 \in Nat
  BY <1>1
<1>5. Uploaded \subseteq Uploaded' /\ Asset(l + 1) \in Uploaded' /\ Asset(l + 1) \in Ids
  BY <1>2, <1>3, <1>4 DEF Uploaded, l, Ids
<1>6. /\ DOMAIN transactions' = DOMAIN transactions \cup {x}
      /\ \A y \in DOMAIN transactions' : transactions'[y] = Asset(l + 1) \/
                                      (y \in DOMAIN transactions /\ transactions'[y] = transactions[y])
  BY DEF Put, l
<1> QED BY <1>2, <1>5, <1>6 DEF IInv, Tables, l

LEMMA UploadKeeps ==
  ASSUME IInv, NEW s \in Sessions, NEW x \in Transactions,
         AssetUploadRequest(s, x) \/ AssetUploadRequestEmpty(s, x)
  PROVE  IInv'
<1>1. CASE AssetUploadRequest(s, x)
  <2> DEFINE asset == Asset(Len(assets) + 1)
  <2>1. /\ assets' = Append(assets, TRUE) /\ transactions' = Put(transactions, x, asset)
        /\ Ask(s, "upload", asset, asset)
    BY <1>1 DEF AssetUploadRequest
  <2>2. /\ Uploaded \subseteq Uploaded' /\ assets' \in Seq(BOOLEAN)
        /\ DOMAIN transactions' \subseteq Transactions
        /\ \A y \in DOMAIN transactions' : transactions'[y] \in Uploaded'
        /\ asset \in Uploaded' /\ asset \in Ids
    BY <2>1, NewAsset
  <2> HIDE DEF asset
  <2> QED BY <2>1, <2>2, AskKeeps
<1>2. CASE AssetUploadRequestEmpty(s, x)
  <2>1. /\ assets' = Append(assets, FALSE)
        /\ transactions' = Put(transactions, x, Asset(Len(assets) + 1))
        /\ UNCHANGED <<client, issued, sessions, local_inventory, all_assets, hung, sent>>
    BY <1>2 DEF AssetUploadRequestEmpty, viewers
  <2>2. /\ Uploaded \subseteq Uploaded' /\ assets' \in Seq(BOOLEAN)
        /\ DOMAIN transactions' \subseteq Transactions
        /\ \A y \in DOMAIN transactions' : transactions'[y] \in Uploaded'
    BY <2>1, NewAsset
  <2>3. UNCHANGED <<async_requests_store, is, conn>> /\ Made' = Made
    BY <2>1 DEF client, Made
  <2>4. ClientInv'
    BY <2>1, ClientStutters DEF IInv
  <2>5. Tables'
    BY <2>1, <2>2 DEF IInv, Tables
  <2>6. Trees'
    BY <2>1 DEF IInv, Trees
  <2>7. Fresh'
    BY <2>1, <2>3 DEF IInv, Fresh
  <2>8. Stored' /\ \A z \in Sessions : Held(z) \subseteq Held(z)'
    BY <2>1, <2>2, <2>3, <2>6, TablesGrow
  <2>9. Told' /\ Bare'
    BY <2>1, <2>3, <2>8, ToldStays
  <2>10. NilAssets'
    BY <2>1, <2>3, UpdatesStay DEF IInv, NilAssets
  <2> QED BY <2>4, <2>5, <2>6, <2>7, <2>8, <2>9, <2>10 DEF IInv
<1> QED BY <1>1, <1>2

-----------------------------------------------------------------------------
(* What a command does. *)

\* T is the inventory after a command of request r on the inventory S.
After(S, T, r) ==
  /\ TreeInv(T)
  /\ DOMAIN S \subseteq DOMAIN T
  /\ \A n \in Nat : Item(n) \in DOMAIN T => Item(n) \in DOMAIN S \/ n = r
  /\ \A x \in ItemIds \cap DOMAIN S : HasAsset(S[x]) => HasAsset(T[x]) \/ x = Item(r)
  /\ LibraryItem \in DOMAIN T /\ LibraryItem \notin DOMAIN S =>
       HasAsset(T[LibraryItem]) \/ UpdateNamesNoAsset(OwnerOf(r), LibraryItem)
  /\ \A x \in ItemIds \cap DOMAIN T : T[x].AssetID = nil =>
       x = LibraryItem /\ UpdateNamesNoAsset(OwnerOf(r), LibraryItem)

\* It is enough to know what became of the one item that may be different.
LEMMA OneItemAfter ==
  ASSUME NEW S, NEW T, NEW r \in Made, TreeInv(T), NEW y \in ItemIds,
         DOMAIN S \subseteq DOMAIN T,
         \A x \in ItemIds \cap DOMAIN T : x \in DOMAIN S \/ x = y,
         \A x \in ItemIds \cap DOMAIN S : x # y => T[x] = S[x],
         \A x \in ItemIds \cap DOMAIN S : S[x].AssetID = nil =>
           x = LibraryItem /\ UpdateNamesNoAsset(OwnerOf(r), LibraryItem),
         y \in DOMAIN S \/ y \in {LibraryItem, Item(r)},
         y \in DOMAIN S => (HasAsset(S[y]) => HasAsset(T[y]) \/ y = Item(r)),
         y = LibraryItem /\ y \in DOMAIN T /\ y \notin DOMAIN S =>
           HasAsset(T[y]) \/ UpdateNamesNoAsset(OwnerOf(r), LibraryItem),
         y \in DOMAIN T /\ T[y].AssetID = nil =>
           y = LibraryItem /\ UpdateNamesNoAsset(OwnerOf(r), LibraryItem)
  PROVE  After(S, T, r)
<1>1. /\ \A n \in Nat : Item(n) \in ItemIds /\ Item(n) # LibraryItem
      /\ \A n, m \in Nat : Item(n) = Item(m) => n = m
      /\ LibraryItem \in ItemIds
  BY DEF ItemIds, Item, LibraryItem
<1>2. r \in Nat
  BY DEF Made
<1>3. \A n \in Nat : Item(n) \in DOMAIN T => Item(n) \in DOMAIN S \/ n = r
  BY <1>1, <1>2
<1>4. \A x \in ItemIds \cap DOMAIN S : HasAsset(S[x]) => HasAsset(T[x]) \/ x = Item(r)
  <2> SUFFICES ASSUME NEW x \in ItemIds \cap DOMAIN S, HasAsset(S[x])
               PROVE  HasAsset(T[x]) \/ x = Item(r)
    OBVIOUS
  <2>1. CASE x = y
    BY <2>1
  <2>2. CASE x # y
    BY <2>2 DEF HasAsset
  <2> QED BY <2>1, <2>2
<1>5. LibraryItem \in DOMAIN T /\ LibraryItem \notin DOMAIN S =>
        HasAsset(T[LibraryItem]) \/ UpdateNamesNoAsset(OwnerOf(r), LibraryItem)
  BY <1>1
<1>6. \A x \in ItemIds \cap DOMAIN T : T[x].AssetID = nil =>
        x = LibraryItem /\ UpdateNamesNoAsset(OwnerOf(r), LibraryItem)
  <2> SUFFICES ASSUME NEW x \in ItemIds \cap DOMAIN T, T[x].AssetID = nil
               PROVE  x = LibraryItem /\ UpdateNamesNoAsset(OwnerOf(r), LibraryItem)
    OBVIOUS
  <2>1. CASE x = y
    BY <2>1
  <2>2. CASE x # y
    BY <2>2
  <2> QED BY <2>1, <2>2
<1> QED BY <1>3, <1>4, <1>5, <1>6 DEF After

LEMMA CommandedIs ==
  ASSUME IInv, NEW r \in Made
  PROVE  After(local_inventory[OwnerOf(r)], Commanded(r), r)
<1> DEFINE q == async_requests_store[r]
           S == local_inventory[OwnerOf(r)]
           NoAsset == UpdateNamesNoAsset(OwnerOf(r), LibraryItem)
<1>1. q \in Requests /\ OwnerOf(r) \in Owners /\ r \in Nat /\ OwnerOf(r) \in Agents
  BY RequestsTyped, LenProperties DEF IInv, ClientInv, ClientTyped, Made
<1>2. /\ TreeInv(S)
      /\ \A x \in ItemIds \cap DOMAIN S : S[x].AssetID = nil => x = LibraryItem /\ NoAsset
  BY <1>1 DEF IInv, Trees, NilAssets
<1>3. /\ q.cmd = "create_folder" => q.arg \in {Folder(f) : f \in Folders}
      /\ q.cmd = "update" => q.arg = LibraryItem \/ \E n \in Nat : q.arg = Item(n) /\ Item(n) \in DOMAIN S
  BY DEF IInv, Stored
<1>31. q.cmd = "update" /\ q.arg = LibraryItem /\ q.asset = zero_uuid => NoAsset
  BY DEF UpdateNamesNoAsset, OwnerOf
<1>4. /\ q.asset \in Ids /\ q.arg \in Ids /\ zero_uuid \in Ids /\ wearables \in Ids
      /\ Root(OwnerOf(r)) \in Ids /\ ItemIds \subseteq Ids
      /\ Item(r) \in ItemIds /\ LibraryItem \in ItemIds /\ wearables \notin ItemIds
      /\ Item(r) # LibraryItem /\ nil \notin Ids /\ zero_uuid # nil
  BY <1>1, NilIsNoId
     DEF Requests, Ids, Owners, ItemIds, Item, LibraryItem, wearables, zero_uuid, nil
<1>5. Commanded(r) =
        CASE q.cmd = "create" -> Put(S, Item(r), NewItem(zero_uuid, q.asset))
          [] q.cmd = "create_folder" -> CreateFolder(S, q.arg, TypeParent)
          [] q.cmd = "update" -> UpdateItem(S, q.arg, Root(OwnerOf(r)), q.asset)
          [] q.cmd = "update_wearables" -> Put(S, wearables, [IsFolder |-> FALSE,
                                             FolderID |-> zero_uuid, WearablesList |-> {q.arg}])
          [] OTHER -> S
  BY DEF Commanded, OwnerOf
<1> HIDE DEF q, S
<1> SUFFICES After(S, Commanded(r), r)
  BY DEF S
<1>7. CASE q.cmd = "create"
  <2> DEFINE e == NewItem(zero_uuid, q.asset)
             T == Put(S, Item(r), e)
  <2>1. e \in ItemEntries /\ e.AssetID = q.asset
    BY <1>4 DEF NewItem, ItemEntries, Named
  <2>2. TreeInv(T)
    BY <1>1, <1>2, <1>4, <2>1, PutBesideFolders
  <2>3. /\ DOMAIN T = DOMAIN S \cup {Item(r)} /\ \A x \in DOMAIN S \ {Item(r)} : T[x] = S[x]
        /\ T[Item(r)].AssetID # nil
    BY <1>4, <2>1 DEF Put
  <2>4. Commanded(r) = T
    BY <1>5, <1>7
  <2> HIDE DEF T
  <2> QED BY <1>2, <1>4, <2>2, <2>3, <2>4, OneItemAfter
<1>8. CASE q.cmd = "create_folder"
  <2>1. PICK f \in Folders : q.arg = Folder(f)
    BY <1>3, <1>8
  <2> DEFINE T == CreateFolder(S, Folder(f), TypeParent)
  <2>2. /\ TreeInv(T) /\ DOMAIN T = DOMAIN S \cup {Folder(f), TypeParent}
        /\ \A x \in ItemIds \cap DOMAIN S : T[x] = S[x]
    BY <1>2, CreateFolderKeeps
  <2>3. Commanded(r) = T
    BY <1>5, <1>8, <2>1
  <2>4. Folder(f) \notin ItemIds /\ TypeParent \notin ItemIds
    BY DEF ItemIds, Item, LibraryItem, Folder, TypeParent
  <2> HIDE DEF T
  <2>5. /\ DOMAIN S \subseteq DOMAIN T
        /\ \A x \in ItemIds \cap DOMAIN T : x \in DOMAIN S /\ T[x] = S[x]
    BY <2>2, <2>4
  <2> QED BY <1>2, <1>4, <2>2, <2>3, <2>5, OneItemAfter
<1>9. CASE q.cmd = "update"
  <2>0. PICK y \in ItemIds : q.arg = y /\ (y \in DOMAIN S \/ y = LibraryItem)
    BY <1>3, <1>4, <1>9 DEF ItemIds
  <2>2. y \in DOMAIN S => S[y] \in ItemEntries
    BY <1>2 DEF TreeInv, EntriesTyped
  <2> DEFINE old == IF y \in DOMAIN S THEN S[y].AssetID ELSE nil
             v == IF q.asset = zero_uuid THEN old ELSE q.asset
             e == NewItem(Root(OwnerOf(r)), v)
             T == Put(S, y, e)
  <2>3. /\ v \in Named
        /\ y \in DOMAIN S /\ HasAsset(S[y]) => v \notin {zero_uuid, nil}
        /\ y = LibraryItem /\ y \notin DOMAIN S => v \notin {zero_uuid, nil} \/ NoAsset
        /\ v = nil => y = LibraryItem /\ NoAsset
    <3>1. y \in DOMAIN S => S[y].AssetID \in Named
      BY <2>2 DEF ItemEntries
    <3>2. CASE q.asset = zero_uuid
      BY <1>2, <1>31, <1>9, <2>0, <3>1, <3>2 DEF HasAsset, Named
    <3>3. CASE q.asset # zero_uuid
      BY <1>4, <3>3 DEF Named
    <3> QED BY <3>2, <3>3
  <2>4. Commanded(r) = T
    BY <1>5, <1>9, <2>0 DEF UpdateItem
  <2> HIDE DEF v
  <2>5. e \in ItemEntries /\ e.AssetID = v
    BY <1>4, <2>3 DEF NewItem, ItemEntries
  <2>6. TreeInv(T)
    BY <1>2, <1>4, <2>5, PutBesideFolders
  <2>7. /\ DOMAIN T = DOMAIN S \cup {y} /\ T[y] = e
        /\ \A x \in DOMAIN S \ {y} : T[x] = S[x]
    BY DEF Put
  <2> HIDE DEF T, e
  <2>8. /\ T[y].AssetID = v
        /\ y \in DOMAIN S => (HasAsset(S[y]) => HasAsset(T[y]))
        /\ y = LibraryItem /\ y \notin DOMAIN S => HasAsset(T[y]) \/ NoAsset
        /\ T[y].AssetID = nil => y = LibraryItem /\ NoAsset
    BY <2>3, <2>5, <2>7 DEF HasAsset
  <2> HIDE DEF NoAsset
  <2>9. /\ DOMAIN S \subseteq DOMAIN T
        /\ \A x \in ItemIds \cap DOMAIN T : x \in DOMAIN S \/ x = y
        /\ \A x \in ItemIds \cap DOMAIN S : x # y => T[x] = S[x]
    BY <2>7
  <2> USE DEF NoAsset
  <2> QED BY <1>2, <2>0, <2>4, <2>6, <2>8, <2>9, OneItemAfter
<1>10. CASE q.cmd = "update_wearables"
  <2> DEFINE e == [IsFolder |-> FALSE, FolderID |-> zero_uuid, WearablesList |-> {q.arg}]
             T == Put(S, wearables, e)
  <2>1. e \in OutfitEntries
    BY <1>4 DEF OutfitEntries
  <2>2. TreeInv(T)
    BY <1>2, <1>4, <2>1, PutBesideFolders
  <2>3. DOMAIN T = DOMAIN S \cup {wearables} /\ \A x \in DOMAIN S \ {wearables} : T[x] = S[x]
    BY DEF Put
  <2>4. Commanded(r) = T
    BY <1>5, <1>10
  <2> HIDE DEF T
  <2>5. /\ DOMAIN S \subseteq DOMAIN T
        /\ \A x \in ItemIds \cap DOMAIN T : x \in DOMAIN S /\ T[x] = S[x]
    BY <1>4, <2>3
  <2> QED BY <1>2, <1>4, <2>2, <2>4, <2>5, OneItemAfter
<1>11. CASE q.cmd \notin {"create", "create_folder", "update", "update_wearables"}
  <2>1. Commanded(r) = S
    BY <1>5, <1>11
  <2> QED BY <1>2, <1>4, <2>1, OneItemAfter
<1> QED BY <1>7, <1>8, <1>9, <1>10, <1>11

\* An item that is shown without an asset is the agent's own copy of the
\* library's, and the agent asked for an update of it that named none.
LEMMA ShownBare ==
  ASSUME IInv, NEW a \in Agents, NEW ids,
         ids \subseteq DOMAIN local_inventory[a] \cup DOMAIN local_inventory[Library],
         nil \in Shown(a, ids)
  PROVE  UpdateNamesNoAsset(a, LibraryItem)
<1>1. nil \notin ids
  <2>1. a \in Owners /\ Library \in Owners
    BY DEF Owners
  <2> QED BY <2>1, NilIsNoId DEF IInv, Trees, TreeInv, EntriesTyped
<1>2. PICK x \in ids \cap Items : Seen(a, x).AssetID = nil
  BY <1>1 DEF Shown
<1>3. x \in ItemIds
  BY <1>2, LenProperties DEF Items, ItemIds, Made, IInv, ClientInv, ClientTyped
<1>4. CASE x \in DOMAIN local_inventory[a]
  BY <1>2, <1>3, <1>4 DEF Seen, IInv, NilAssets
<1>5. CASE x \notin DOMAIN local_inventory[a]
  <2>1. x \in DOMAIN LoadLibrary /\ LoadLibrary[x].AssetID = nil
    BY <1>2, <1>5 DEF Seen, IInv, Trees
  <2>2. x = LibraryItem /\ LibraryAsset # nil
    BY <1>3, <2>1, LibraryIsATree DEF LibraryAsset, nil
  <2> QED BY <2>1, <2>2, LibraryIsATree
<1> QED BY <1>4, <1>5

\* What it answers with, the inventories hold.
LEMMA AnsweredIsHeld ==
  ASSUME IInv, NEW r \in Made
  PROVE  /\ Answered(r) \ {nil} \subseteq Held(async_requests_store[r].session) \cup {Item(r)}
         /\ Answered(r) \subseteq Named
         /\ Item(r) \in Answered(r) =>
              \/ Item(r) \in DOMAIN Commanded(r)
              \/ Item(r) \in Held(async_requests_store[r].session)
         /\ nil \in Answered(r) => Excused(r)
<1> DEFINE q == async_requests_store[r]
           a == OwnerOf(r)
           H == Held(q.session)
           own == DOMAIN local_inventory[a] \cup DOMAIN local_inventory[Library]
<1>1. a \in Owners /\ Library \in Owners /\ r \in Nat /\ a \in Agents
  BY RequestsTyped, LenProperties DEF IInv, ClientInv, ClientTyped, Made, Owners
<1>2. Answered(r) =
        CASE q.cmd = "create" -> {Item(r)}
          [] q.cmd = "fetch_descendents" -> Shown(a, Descendents(a, q.arg))
          [] q.cmd = "wearables" -> Shown(a, Wearables(a))
          [] q.cmd = "get_asset" -> GetAsset(q.arg)
          [] OTHER -> {}
  BY DEF Answered, OwnerOf
<1>3. H = own \cup all_assets \cup {LibraryAsset}
  BY DEF Held, OwnerOf
<1>4. H \subseteq Ids
  <2>1. /\ DOMAIN local_inventory[a] \subseteq Ids /\ DOMAIN local_inventory[Library] \subseteq Ids
    BY <1>1 DEF IInv, Trees, TreeInv, EntriesTyped
  <2>2. all_assets \subseteq Ids /\ LibraryAsset \in Ids
    BY UploadedIds DEF IInv, Tables, Ids
  <2> QED BY <1>3, <2>1, <2>2
<1>5. q.cmd = "create" => DOMAIN Commanded(r) = DOMAIN local_inventory[a] \cup {Item(r)}
  BY DEF Commanded, OwnerOf, Put
<1>6. Descendents(a, q.arg) \subseteq own
  BY DEF Descendents, ChildElements
<1>7. Wearables(a) \subseteq own
  <2>1. \A id : Retrieve(a, id) \subseteq own
    BY DEF Retrieve
  <2> QED BY <2>1 DEF Wearables
<1>8. GetAsset(q.arg) \subseteq H
  BY <1>3 DEF GetAsset
<1>9. Item(r) \in Ids /\ nil \notin Ids
  BY <1>1, NilIsNoId DEF Ids
<1>10. \A ids : Shown(a, ids) \ {nil} \subseteq ids
  BY DEF Shown
<1>11. q.cmd = "fetch_descendents" /\ nil \in Shown(a, Descendents(a, q.arg)) => Excused(r)
  BY <1>1, <1>6, ShownBare DEF Excused, OwnerOf
<1>12. q.cmd = "wearables" /\ nil \in Shown(a, Wearables(a)) => Excused(r)
  BY <1>1, <1>7, ShownBare DEF Excused, OwnerOf
<1> HIDE DEF q, a, H, own
<1>13. CASE q.cmd = "create"
  <2>1. Answered(r) = {Item(r)}
    BY <1>2, <1>13
  <2>2. Item(r) # nil /\ Item(r) \in Named
    BY <1>9 DEF Named
  <2> QED BY <1>5, <1>13, <2>1, <2>2
<1>14. CASE q.cmd # "create"
  <2>1. Answered(r) \ {nil} \subseteq H
    BY <1>2, <1>3, <1>6, <1>7, <1>8, <1>10, <1>14
  <2>2. nil \in Answered(r) => Excused(r)
    BY <1>2, <1>4, <1>8, <1>9, <1>11, <1>12, <1>14
  <2>3. Answered(r) \subseteq Named
    BY <1>4, <2>1 DEF Named
  <2>4. Item(r) \in Answered(r) => Item(r) \in H
    BY <1>9, <2>1
  <2> QED BY <2>1, <2>2, <2>3, <2>4 DEF H, q
<1> QED BY <1>13, <1>14

-----------------------------------------------------------------------------
(* Servers and callbacks. *)

LEMMA ServerHandlesIs ==
  ASSUME IInv, NEW i \in Idx, ServerHandles(i)
  PROVE  LET r == is[i].req
             T == Commanded(r) IN
         /\ conn[i].state = "asked" /\ conn[i].asked = r /\ r \in Made
         /\ OwnerOf(r) \in Agents /\ Root(OwnerOf(r)) \in DOMAIN T
         /\ local_inventory' = [local_inventory EXCEPT ![OwnerOf(r)] = T]
         /\ After(local_inventory[OwnerOf(r)], T, r)
<1> DEFINE r == is[i].req
<1>1. /\ conn[i].state = "asked"
      /\ local_inventory' = [local_inventory EXCEPT ![OwnerOf(conn[i].asked)] = Commanded(conn[i].asked)]
  BY DEF ServerHandles, Answer, OwnerOf
<1>2. conn[i].asked = r /\ r \in Made
  BY <1>1 DEF IInv, ClientInv, EntryFits
<1>3. OwnerOf(r) \in Agents
  BY <1>2, RequestsTyped DEF IInv
<1>4. After(local_inventory[OwnerOf(r)], Commanded(r), r)
  BY <1>2, CommandedIs
<1>5. Root(OwnerOf(r)) \in DOMAIN local_inventory[OwnerOf(r)]
  BY <1>2 DEF IInv, Tables, Stored, OwnerOf
<1>6. Root(OwnerOf(r)) \in DOMAIN Commanded(r)
  BY <1>4, <1>5 DEF After
<1> QED BY <1>1, <1>2, <1>3, <1>4, <1>6

LEMMA ServerHandlesKeeps ==
  ASSUME IInv, NEW i \in Idx, ServerHandles(i)
  PROVE  IInv'
<1>r. PICK r : r = is[i].req
  OBVIOUS
<1>a. PICK a : a = OwnerOf(r)
  OBVIOUS
<1>t. PICK T : T = Commanded(r)
  OBVIOUS
<1>1. /\ conn[i].state = "asked" /\ conn[i].asked = r /\ r \in Made
      /\ a \in Agents /\ Root(a) \in DOMAIN T
      /\ local_inventory' = [local_inventory EXCEPT ![a] = T]
      /\ After(local_inventory[a], T, r)
  BY <1>r, <1>a, <1>t, ServerHandlesIs
<1>2. /\ Answer(i, Answered(r))
      /\ all_assets' = all_assets \cup
           (IF async_requests_store[r].cmd = "upload" THEN {async_requests_store[r].arg} ELSE {})
      /\ UNCHANGED <<issued, sessions, transactions, assets, hung, sent>>
  BY <1>1 DEF ServerHandles, viewers
<1>3. /\ UNCHANGED <<async_requests_store, is, live, outcome>> /\ Made' = Made
      /\ Uploaded' = Uploaded
      /\ conn' = [conn EXCEPT ![i].state = "answered", ![i].answer = Answered(r), ![i].left = Chunks]
  BY <1>2 DEF Answer, Made, Uploaded
<1>4. Answered(r) \in SUBSET Named
  BY <1>1, AnsweredIsHeld
<1>5. ClientInv'
  BY <1>2, <1>4, AnswerKeepsClient DEF IInv
<1>6. /\ a \in Owners /\ a # Library /\ Agents \subseteq Owners /\ Library \in Owners /\ r \in Nat
      /\ \A s \in Sessions : AgentOf[s] \in Owners
  BY <1>1, AgentAssumption, LenProperties DEF Owners, Made, IInv, ClientInv, ClientTyped
<1>7. /\ Trees' /\ local_inventory'[a] = T
      /\ \A o \in Owners \ {a} : local_inventory'[o] = local_inventory[o]
      /\ \A o \in Owners : DOMAIN local_inventory[o] \subseteq DOMAIN local_inventory'[o]
  BY <1>1, TreeChanges DEF After
<1>8. all_assets \subseteq all_assets' /\ all_assets' \subseteq Uploaded
  BY <1>1, <1>2 DEF IInv, Tables, Stored
<1>9. Stored' /\ \A s \in Sessions : Held(s) \subseteq Held(s)'
  BY <1>2, <1>3, <1>7, <1>8, TablesGrow
<1>10. Tables'
  <2>1. \A s \in issued : Root(AgentOf[s]) \in DOMAIN local_inventory'[AgentOf[s]]
    BY <1>6, <1>7 DEF IInv, Tables
  <2> QED BY <1>2, <1>3, <1>8, <2>1 DEF IInv, Tables
<1>11. /\ conn'[i].state = "answered" /\ conn'[i].answer = Answered(r)
       /\ \A j \in Idx \ {i} : conn'[j] = conn[j]
  BY <1>3 DEF IInv, ClientInv, ClientTyped
<1>12. Fresh'
  <2> SUFFICES ASSUME NEW o \in Agents, NEW n \in Nat, Item(n) \in DOMAIN local_inventory'[o]
               PROVE  /\ n \in Made
                      /\ \A j \in Idx : conn'[j].state \in {"connecting", "sending", "asked"} => is[j].req # n
    BY <1>3 DEF Fresh
  <2>1. CASE Item(n) \in DOMAIN local_inventory[o]
    BY <1>11, <2>1 DEF IInv, Fresh
  <2>2. CASE Item(n) \notin DOMAIN local_inventory[o]
    <3>1. o = a /\ n = r
      BY <1>1, <1>6, <1>7, <2>2 DEF After
    <3>2. r # NoRequest
      BY <1>1 DEF Made, NoRequest
    <3>3. \A j \in Idx \ {i} : is[j].req # r
      BY <1>r, <3>2 DEF IInv, ClientInv, Apart
    <3> QED BY <1>1, <1>11, <3>1, <3>3
  <2> QED BY <2>1, <2>2
<1>13. Told'
  <2>1. async_requests_store[r].session \in Sessions
    BY <1>1, RequestsTyped DEF IInv
  <2>2. PICK s \in Sessions : s = async_requests_store[r].session
    BY <2>1
  <2>3. Answered(r) \ {nil} \subseteq Held(s)'
    <3>1. /\ Answered(r) \ {nil} \subseteq Held(s) \cup {Item(r)}
          /\ Item(r) \in Answered(r) => Item(r) \in DOMAIN T \/ Item(r) \in Held(s)
      BY <1>1, <1>t, <2>2, AnsweredIsHeld
    <3>2. AgentOf[s] = a
      BY <1>a, <2>2 DEF OwnerOf
    <3>3. DOMAIN T \subseteq Held(s)'
      BY <1>7, <3>2 DEF Held
    <3> QED BY <1>9, <3>1, <3>3
  <2>4. \A p \in sent : /\ p.req \in Made /\ p.to = async_requests_store[p.req].session
                        /\ p.told \subseteq Held(p.to)'
    <3>1. \A p \in sent : p.to \in Sessions
      BY RequestsTyped DEF IInv, Told
    <3> QED BY <1>9, <3>1 DEF IInv, Told
  <2>5. ASSUME NEW j \in Idx, conn'[j].state = "answered"
        PROVE  (conn[j].answer \ {nil} \subseteq Held(async_requests_store[is[j].req].session))'
    <3>1. CASE j = i
      BY <1>r, <1>3, <1>11, <2>2, <2>3, <3>1
    <3>2. CASE j # i
      <4>1. conn'[j] = conn[j] /\ conn[j].state = "answered"
        BY <1>11, <2>5, <3>2
      <4>2. async_requests_store[is[j].req].session \in Sessions
        BY <4>1, RequestsTyped DEF IInv, ClientInv, EntryFits
      <4>3. conn[j].answer \ {nil} \subseteq Held(async_requests_store[is[j].req].session)
        BY <4>1 DEF IInv, Told
      <4>4. PICK z \in Sessions : z = async_requests_store[is[j].req].session
        BY <4>2
      <4>5. conn'[j].answer \ {nil} \subseteq Held(z)'
        BY <1>9, <4>1, <4>3, <4>4
      <4> QED BY <1>3, <4>4, <4>5
    <3> QED BY <3>1, <3>2
  <2> QED BY <1>2, <1>3, <2>4, <2>5 DEF Told
<1>14. \A o, x : UpdateNamesNoAsset(o, x) => UpdateNamesNoAsset(o, x)'
  BY <1>3, UpdatesStay
<1>15. NilAssets'
  <2> SUFFICES ASSUME NEW o \in Agents, NEW x \in ItemIds \cap DOMAIN local_inventory'[o],
                      local_inventory'[o][x].AssetID = nil
               PROVE  x = LibraryItem /\ UpdateNamesNoAsset(o, LibraryItem)'
    BY DEF NilAssets
  <2>1. CASE o = a
    BY <1>a, <1>1, <1>7, <1>14, <2>1 DEF After
  <2>2. CASE o # a
    BY <1>6, <1>7, <1>14, <2>2 DEF IInv, NilAssets
  <2> QED BY <2>1, <2>2
<1>16. Bare'
  <2> SUFFICES ASSUME NEW j \in Idx, conn'[j].state = "answered", nil \in conn'[j].answer
               PROVE  Excused(is[j].req)'
    BY DEF Bare
  <2>0. is[j].req \in Made /\ Excused(is[j].req)
    <3>1. CASE j = i
      BY <1>r, <1>1, <1>11, <3>1, AnsweredIsHeld
    <3>2. CASE j # i
      BY <1>11, <3>2 DEF IInv, ClientInv, EntryFits, Bare
    <3> QED BY <3>1, <3>2
  <2>1. PICK m \in Made : m = is[j].req /\ Excused(m)
    BY <2>0
  <2>2. Excused(m)'
    BY <1>3, <2>1, UpdatesStay
  <2> QED BY <1>3, <2>1, <2>2 DEF Excused
<1> QED BY <1>5, <1>7, <1>9, <1>10, <1>12, <1>13, <1>15, <1>16 DEF IInv

\* Steps of the client that leave the servers and the viewers alone.
LEMMA ClientStepKeeps ==
  ASSUME IInv, ClientInv', UNCHANGED <<async_requests_store, issued, sessions, store>>,
         \A i \in Idx : conn'[i].state \in {"connecting", "sending", "asked"} =>
           /\ conn[i].state \in {"connecting", "sending", "asked"}
           /\ is'[i].req = is[i].req,
         \A i \in Idx : conn'[i].state = "answered" =>
           conn[i].state = "answered" /\ conn'[i].answer = conn[i].answer /\ is'[i].req = is[i].req,
         \A p \in sent' : p \in sent \/ \E i \in Idx :
           /\ conn[i].state \in {"answered", "over"} /\ nil \notin conn[i].answer
           /\ p = [to |-> async_requests_store[is[i].req].session, req |-> is[i].req,
                   told |-> conn[i].answer]
  PROVE  IInv'
<1>1. Made' = Made /\ \A z : Held(z)' = Held(z)
  BY DEF Made, store, Held
<1>2. Tables' /\ Trees'
  BY DEF IInv, Tables, Trees, store, Uploaded
<1>3. Fresh'
  BY <1>1 DEF IInv, Fresh, store
<1>4. Stored'
  BY <1>1 DEF IInv, Stored, store, Uploaded, OwnerOf
<1>5. ASSUME NEW i \in Idx, conn[i].state \in {"answered", "over"}
      PROVE  /\ is[i].req \in Made
             /\ conn[i].answer \ {nil} \subseteq Held(async_requests_store[is[i].req].session)
  <2>1. is[i].req \in Made /\ (conn[i].state = "over" => conn[i].answer = {})
    BY <1>5 DEF IInv, ClientInv, EntryFits, NoAnswer
  <2> QED BY <1>5, <2>1 DEF IInv, Told
<1>6. \A p \in sent' : /\ p.req \in Made /\ p.to = async_requests_store[p.req].session
                       /\ p.told \subseteq Held(p.to)
  <2> SUFFICES ASSUME NEW p \in sent'
               PROVE  /\ p.req \in Made /\ p.to = async_requests_store[p.req].session
                      /\ p.told \subseteq Held(p.to)
    OBVIOUS
  <2>1. CASE p \in sent
    BY <2>1 DEF IInv, Told
  <2>2. CASE p \notin sent
    <3>1. PICK i \in Idx : /\ conn[i].state \in {"answered", "over"} /\ nil \notin conn[i].answer
                           /\ p = [to |-> async_requests_store[is[i].req].session,
                                   req |-> is[i].req, told |-> conn[i].answer]
      BY <2>2
    <3> QED BY <1>5, <3>1
  <2> QED BY <2>1, <2>2
<1>7. \A i \in Idx : conn'[i].state = "answered" =>
        (conn[i].answer \ {nil} \subseteq Held(async_requests_store[is[i].req].session))'
  <2> SUFFICES ASSUME NEW i \in Idx, conn'[i].state = "answered"
               PROVE  (conn[i].answer \ {nil} \subseteq Held(async_requests_store[is[i].req].session))'
    OBVIOUS
  <2>1. /\ conn[i].state = "answered" /\ conn'[i].answer = conn[i].answer
        /\ is'[i].req = is[i].req
    OBVIOUS
  <2>2. conn[i].answer \ {nil} \subseteq Held(async_requests_store[is[i].req].session)
    BY <2>1 DEF IInv, Told
  <2> QED BY <1>1, <2>1, <2>2
<1>8. Told'
  BY <1>1, <1>6, <1>7 DEF Told
<1>9. NilAssets'
  BY <1>1, UpdatesStay DEF IInv, NilAssets, store
<1>10. Bare'
  <2> SUFFICES ASSUME NEW i \in Idx, conn'[i].state = "answered", nil \in conn'[i].answer
               PROVE  Excused(is[i].req)'
    BY DEF Bare
  <2>1. is'[i].req = is[i].req /\ Excused(is[i].req)
    BY DEF IInv, Bare
  <2> QED BY <1>1, <2>1 DEF Excused, UpdateNamesNoAsset
<1> QED BY <1>2, <1>3, <1>4, <1>8, <1>9, <1>10 DEF IInv

LEMMA HangsUpKeeps ==
  ASSUME IInv, NEW i \in Idx, ServerHangsUp(i)
  PROVE  IInv'
<1>1. /\ HangUp(i) /\ hung' = hung \cup {is[i].req}
      /\ UNCHANGED <<issued, sessions, store, sent>>
  BY DEF ServerHangsUp, viewers
<1>2. ClientInv'
  BY <1>1, HangUpKeepsClient DEF IInv
<1>3. /\ UNCHANGED <<async_requests_store, is>>
      /\ conn' = [conn EXCEPT ![i].state = "over", ![i].answer = NoAnswer, ![i].left = 0]
  BY <1>1 DEF HangUp
<1>4. /\ conn'[i].state = "over" /\ \A j \in Idx \ {i} : conn'[j] = conn[j]
  BY <1>3 DEF IInv, ClientInv, ClientTyped
<1>5. \A j \in Idx : conn'[j].state # "over" => conn'[j] = conn[j]
  BY <1>4
<1> QED BY <1>1, <1>2, <1>3, <1>5, ClientStepKeeps

LEMMA NetworkKeeps ==
  ASSUME IInv, NEW i \in Idx, Network(i)
  PROVE  IInv'
<1>0. PICK cuttable : \/ ChannelReady(i, cuttable) \/ SendRest(i)
                      \/ ConnectFails(i) \/ Read(i)
  BY DEF Network
<1>1. UNCHANGED <<issued, sessions, store, hung, sent>>
  BY DEF Network, viewers
<1>2. ClientInv'
  BY <1>0, <1>1, ChannelReadyKeepsClient, SendRestKeepsClient, ConnectFailsKeepsClient,
     ReadKeepsClient DEF IInv
<1>3. UNCHANGED async_requests_store
  BY <1>0 DEF ChannelReady, SendRest, ConnectFails, Read
<1>4. /\ \A j \in Idx : conn'[j].state \in {"connecting", "sending", "asked"} =>
           /\ conn[j].state \in {"connecting", "sending", "asked"}
           /\ is'[j].req = is[j].req
      /\ \A j \in Idx : conn'[j].state = "answered" =>
           conn[j].state = "answered" /\ conn'[j].answer = conn[j].answer /\ is'[j].req = is[j].req
  <2>1. CASE ChannelReady(i, cuttable)
    <3>1. /\ conn[i].state = "connecting" /\ conn'[i].state \in {"sending", "asked"}
          /\ is'[i].req = is[i].req
          /\ \A j \in Idx \ {i} : conn'[j] = conn[j] /\ is'[j] = is[j]
      BY <2>1 DEF ChannelReady, IInv, ClientInv, ClientTyped
    <3> QED BY <3>1
  <2>2. CASE SendRest(i)
    <3>1. /\ conn[i].state = "sending" /\ conn'[i].state = "asked" /\ is' = is
          /\ \A j \in Idx \ {i} : conn'[j] = conn[j]
      BY <2>2 DEF SendRest, IInv, ClientInv, ClientTyped
    <3> QED BY <3>1
  <2>3. CASE ConnectFails(i)
    <3>1. /\ conn'[i].state = "closed"
          /\ \A j \in Idx \ {i} : conn'[j] = conn[j] /\ is'[j] = is[j]
      BY <2>3 DEF ConnectFails, IInv, ClientInv, ClientTyped, Closed
    <3> QED BY <3>1
  <2>4. CASE Read(i)
    <3>1. /\ conn'[i].state = conn[i].state /\ conn'[i].answer = conn[i].answer
          /\ is'[i].req = is[i].req
          /\ \A j \in Idx \ {i} : conn'[j] = conn[j] /\ is'[j] = is[j]
      BY <2>4 DEF Read, IInv, ClientInv, ClientTyped
    <3> QED BY <3>1
  <2> QED BY <1>0, <2>1, <2>2, <2>3, <2>4
<1> QED BY <1>1, <1>2, <1>3, <1>4, ClientStepKeeps

LEMMA CallbackKeeps ==
  ASSUME IInv, NEW i \in Idx, Callback(i)
  PROVE  IInv'
<1> DEFINE r == is[i].req
           q == async_requests_store[r]
           result == CASE Undecodable(q.cmd, is[i].got) -> "raised"
                       [] q.cmd \in Sends /\ q.session \notin sessions -> "gone"
                       [] nil \in conn[i].answer -> "raised"
                       [] OTHER -> "called"
<1>1. /\ Ended(i) /\ ClosedEvent(i, result)
      /\ sent' = IF result = "called" /\ q.cmd \in Sends
                   THEN sent \cup {[to |-> q.session, req |-> r, told |-> conn[i].answer]}
                   ELSE sent
      /\ UNCHANGED <<issued, sessions, store, hung>>
  BY DEF Callback, viewers
<1>2. /\ result \in {"raised", "gone", "called"} /\ result \in Outcomes /\ result # "refused"
      /\ result = "called" => nil \notin conn[i].answer
  BY DEF Outcomes
<1>3. result = "raised" => r \in hung \/ Excused(r)
  <2>1. result = "raised" => Undecodable(q.cmd, is[i].got) \/ nil \in conn[i].answer
    OBVIOUS
  <2>2. is[i].got < Chunks => r \in hung
    <3> SUFFICES ASSUME is[i].got < Chunks PROVE r \in hung
      OBVIOUS
    <3>1. is[i].got \in 0 .. Chunks
      BY DEF IInv, ClientInv, ClientTyped
    <3>2. conn[i].state = "answered" => is[i].got + conn[i].left = Chunks /\ conn[i].left = 0
      BY <1>1 DEF IInv, ClientInv, EntryFits, Ended
    <3>3. conn[i].state = "over"
      BY <1>1, <3>1, <3>2, ChunksAssumption DEF Ended
    <3> QED BY <3>3 DEF IInv, ClientInv, EntryFits
  <2>3. nil \in conn[i].answer => Excused(r)
    <3>1. nil \in conn[i].answer => conn[i].state = "answered"
      BY DEF IInv, ClientInv, EntryFits, NoAnswer
    <3> QED BY <3>1 DEF IInv, Bare
  <2> QED BY <2>1, <2>2, <2>3 DEF Undecodable
<1> HIDE DEF result
<1>4. ClientInv'
  BY <1>1, <1>2, <1>3, ClosedEventKeepsClient DEF IInv
<1>5. /\ UNCHANGED async_requests_store /\ conn' = [conn EXCEPT ![i] = Closed]
      /\ \A j \in Idx \ {i} : is'[j] = is[j]
  BY <1>1 DEF ClosedEvent, IInv, ClientInv, ClientTyped
<1>6. conn'[i].state = "closed" /\ \A j \in Idx \ {i} : conn'[j] = conn[j] /\ is'[j] = is[j]
  BY <1>5 DEF IInv, ClientInv, ClientTyped, Closed
<1>7. conn[i].state \in {"answered", "over"}
  BY <1>1 DEF Ended
<1>8. \A p \in sent' : p \in sent \/ \E j \in Idx :
           /\ conn[j].state \in {"answered", "over"} /\ nil \notin conn[j].answer
           /\ p = [to |-> async_requests_store[is[j].req].session, req |-> is[j].req,
                   told |-> conn[j].answer]
  BY <1>1, <1>2, <1>7
<1>9. \A j \in Idx : conn'[j].state # "closed" => conn'[j] = conn[j] /\ is'[j] = is[j]
  BY <1>6
<1> QED BY <1>1, <1>4, <1>5, <1>8, <1>9, ClientStepKeeps

LEMMA RestartKeeps ==
  ASSUME IInv, Restart
  PROVE  IInv' /\ \A o \in Agents : local_inventory'[o] = local_inventory[o]
<1>1. /\ ClientRestart /\ UNCHANGED <<issued, sessions, transactions, assets, all_assets, hung, sent>>
      /\ local_inventory' = [local_inventory EXCEPT ![Library] = LoadLibrary]
  BY DEF Restart, viewers
<1>2. local_inventory' = local_inventory
  BY <1>1 DEF IInv, Trees
<1>3. ClientInv'
  BY <1>1, RestartKeepsClient DEF IInv
<1>4. \A i \in Idx : conn'[i].state = "closed"
  BY <1>1 DEF ClientRestart, Closed
<1>5. UNCHANGED <<async_requests_store, store>>
  BY <1>1, <1>2 DEF ClientRestart, store
<1>6. IInv'
  BY <1>1, <1>3, <1>4, <1>5, ClientStepKeeps
<1> QED BY <1>2, <1>6

-----------------------------------------------------------------------------
(* The theorems. *)

\* A viewer's packet.
ViewerActs(s) ==
  \/ UseCircuitCode(s) \/ LogoutRequest(s)
  \/ AgentWearablesRequest(s)
  \/ \E id \in KnownFolders(s) : FetchInventoryDescendents(s, id)
  \/ \E id \in ToldItems(s) : AgentIsNowWearing(s, id)
  \/ \E id \in ToldItems(s), x \in Transactions \cup {zero_uuid} :
       UpdateInventoryItem(s, id, x)
  \/ \E f \in Folders : CreateInventoryFolder(s, <<"folder", f>>)
  \/ \E n \in 1 .. Len(assets) : TransferRequest(s, Asset(n))
  \/ TransferRequest(s, LibraryAsset)
  \/ \E x \in Transactions \cup {zero_uuid} : CreateInventoryItem(s, x)
  \/ \E x \in Transactions : AssetUploadRequest(s, x) \/ AssetUploadRequestEmpty(s, x)

LEMMA ViewerActsKeeps ==
  ASSUME IInv, NEW s \in Sessions, ViewerActs(s)
  PROVE  IInv'
<1>1. /\ zero_uuid \in Ids /\ LibraryItem \in Ids /\ LibraryAsset \in Ids
      /\ \A f \in Folders : Folder(f) \in Ids
      /\ \A n \in Nat : Item(n) \in Ids
  BY DEF Ids, Folder
<1>2. \A id \in ToldItems(s) : id \in Ids
  BY <1>1, ToldItemsAreOwn
<1>3. CASE UseCircuitCode(s) \/ LogoutRequest(s)
  BY <1>3, UseCircuitCodeKeeps
<1>4. CASE AgentWearablesRequest(s)
  BY <1>1, <1>4, AskedAsIs DEF AgentWearablesRequest
<1>5. ASSUME NEW id \in KnownFolders(s), FetchInventoryDescendents(s, id) PROVE IInv'
  <2>1. id \in Ids
    BY AgentAssumption DEF KnownFolders, Ids
  <2> QED BY <1>1, <1>5, <2>1, AskedAsIs DEF FetchInventoryDescendents
<1>6. ASSUME NEW id \in ToldItems(s), AgentIsNowWearing(s, id) PROVE IInv'
  <2>1. id \in Ids
    BY <1>1, <1>2
  <2> QED BY <1>1, <1>6, <2>1, AskedAsIs DEF AgentIsNowWearing
<1>7. ASSUME NEW id \in ToldItems(s), NEW x \in Transactions \cup {zero_uuid},
             UpdateInventoryItem(s, id, x)
      PROVE  IInv'
  <2> DEFINE asset == IF x = zero_uuid THEN zero_uuid ELSE transactions[x]
  <2>1. x \in DOMAIN transactions \cup {zero_uuid} /\ Ask(s, "update", id, asset) /\ Unasked
    BY <1>7 DEF UpdateInventoryItem
  <2>2. asset \in Ids
    BY <1>1, <2>1, UploadedIds
  <2>3. /\ id \in Ids
        /\ \/ id = LibraryItem
           \/ \E n \in Nat : id = Item(n) /\ Item(n) \in DOMAIN local_inventory[AgentOf[s]]
    BY <1>2, ToldItemsAreOwn
  <2> HIDE DEF asset
  <2> QED BY <2>1, <2>2, <2>3, AskedAsIs
<1>8. ASSUME NEW f \in Folders, CreateInventoryFolder(s, <<"folder", f>>) PROVE IInv'
  <2>1. Ask(s, "create_folder", Folder(f), zero_uuid) /\ Unasked
    BY <1>8 DEF CreateInventoryFolder, Folder
  <2> QED BY <1>1, <2>1, AskedAsIs
<1>9. ASSUME NEW n \in 1 .. Len(assets), TransferRequest(s, Asset(n)) PROVE IInv'
  <2>1. Asset(n) \in Ids
    BY UploadedIds DEF Uploaded
  <2> QED BY <1>1, <1>9, <2>1, AskedAsIs DEF TransferRequest
<1>10. CASE TransferRequest(s, LibraryAsset)
  BY <1>1, <1>10, AskedAsIs DEF TransferRequest
<1>11. ASSUME NEW x \in Transactions \cup {zero_uuid}, CreateInventoryItem(s, x) PROVE IInv'
  <2> DEFINE asset == IF x \in DOMAIN transactions THEN transactions[x] ELSE zero_uuid
  <2>1. Ask(s, "create", zero_uuid, asset) /\ Unasked
    BY <1>11 DEF CreateInventoryItem
  <2>2. asset \in Ids
    BY <1>1, UploadedIds
  <2> HIDE DEF asset
  <2> QED BY <1>1, <2>1, <2>2, AskedAsIs
<1>12. ASSUME NEW x \in Transactions, AssetUploadRequest(s, x) \/ AssetUploadRequestEmpty(s, x)
       PROVE  IInv'
  BY <1>12, UploadKeeps
<1> QED BY <1>3, <1>4, <1>5, <1>6, <1>7, <1>8, <1>9, <1>10, <1>11, <1>12 DEF ViewerActs

LEMMA StutterKeeps == ASSUME IInv, UNCHANGED vars PROVE IInv'
<1>1. /\ UNCHANGED <<client, issued, sessions, store, hung, sent, async_requests_store, is, conn>>
  BY DEF vars, viewers, client
<1>2. ClientInv'
  BY <1>1, ClientStutters DEF IInv
<1> QED BY <1>1, <1>2, ClientStepKeeps

LEMMA NextIs ==
  ASSUME Next
  PROVE  \/ \E s \in Sessions : Login(s) \/ ViewerActs(s)
         \/ \E i \in Idx : Network(i) \/ ServerHandles(i) \/ ServerHangsUp(i) \/ Callback(i)
         \/ Restart
BY DEF Next, ViewerActs

LEMMA Inductive == IInv /\ [Next]_vars => IInv'
<1> SUFFICES ASSUME IInv, [Next]_vars PROVE IInv'
  OBVIOUS
<1>1. CASE UNCHANGED vars
  BY <1>1, StutterKeeps
<1>2. CASE Next
  <2>1. ASSUME NEW s \in Sessions, Login(s) \/ ViewerActs(s) PROVE IInv'
    BY <2>1, LoginKeeps, ViewerActsKeeps
  <2>2. ASSUME NEW i \in Idx, Network(i) \/ ServerHandles(i) \/ ServerHangsUp(i) \/ Callback(i)
        PROVE  IInv'
    BY <2>2, NetworkKeeps, ServerHandlesKeeps, HangsUpKeeps, CallbackKeeps
  <2> QED BY <1>2, <2>1, <2>2, RestartKeeps, NextIs
<1> QED BY <1>1, <1>2

THEOREM Invariance == Spec => []IInv
<1>1. Init => IInv
  BY Initially
<1>2. IInv /\ [Next]_vars => IInv'
  BY Inductive
<1> QED BY <1>1, <1>2, PTL DEF Spec

LEMMA TypesHold == IInv => TypeOK
<1> SUFFICES ASSUME IInv PROVE TypeOK
  OBVIOUS
<1>1. ClientTypeOK
  BY DEF IInv, ClientInv, ClientTyped, ClientTypeOK, Numbers, States, Outcomes
<1> QED BY <1>1 DEF TypeOK, IInv, Tables, Uploaded

\* Every variable of the client and the servers has its type.
THEOREM TypeCorrect == Spec => []TypeOK
BY Invariance, TypesHold, PTL

\* In every inventory parents and children name each other: what a command
\* of inventoryserver.lua adds, a later look-up through folders finds.
THEOREM TreesStaySound == Spec => []TreeSound
<1>1. IInv => TreeSound
  <2> SUFFICES ASSUME IInv PROVE TreeSound
    OBVIOUS
  <2>1. DOMAIN local_inventory = Owners
    BY DEF IInv, Trees
  <2>2. ASSUME NEW o \in Owners
        PROVE  LET tree == local_inventory[o]
                   F == {id \in DOMAIN tree : tree[id].IsFolder}
               IN \A f \in F :
                    /\ Range(tree[f].ChildItems) \subseteq DOMAIN tree
                    /\ \A c \in Range(tree[f].ChildFolders) : c \in F /\ tree[c].FolderID = f
                    /\ tree[f].FolderID \in F => f \in Range(tree[tree[f].FolderID].ChildFolders)
    <3> DEFINE T == local_inventory[o]
               F == {id \in DOMAIN T : T[id].IsFolder}
    <3>1. TreeInv(T)
      BY DEF IInv, Trees
    <3> HIDE DEF T
    <3>2. ASSUME NEW id \in DOMAIN T
          PROVE  T[id].IsFolder <=> T[id] \in FolderEntries
      <4>1. T[id] \in FolderEntries \cup ItemEntries \cup OutfitEntries
        BY <3>1 DEF TreeInv, EntriesTyped
      <4>2. T[id] \in FolderEntries => T[id].IsFolder = TRUE
        BY DEF FolderEntries
      <4>3. T[id] \in ItemEntries \/ T[id] \in OutfitEntries =>
              T[id].IsFolder = FALSE /\ T[id] \notin FolderEntries
        BY EntriesDiffer DEF ItemEntries, OutfitEntries
      <4> QED BY <4>1, <4>2, <4>3
    <3>3. F = FoldersOf(T)
      BY <3>2 DEF FoldersOf
    <3> HIDE DEF F
    <3>4. \A f \in F :
            /\ Range(T[f].ChildItems) \subseteq DOMAIN T
            /\ \A c \in Range(T[f].ChildFolders) : c \in F /\ T[c].FolderID = f
            /\ T[f].FolderID \in F => f \in Range(T[T[f].FolderID].ChildFolders)
      BY <3>1, <3>3 DEF TreeInv, FoldersLinked
    <3> QED BY <3>4 DEF F, T
  <2> QED BY <2>1, <2>2, TypesHold DEF TreeSound
<1> QED BY <1>1, Invariance, PTL

\* The RecvData buffers of httpc_common.lua that are allocated are those an
\* index holds, each held once; what goes out and is not queued is the copy of a
\* request that the first write took whole, or a body that could not be sent.
THEOREM BuffersStayCounted == Spec => []BuffersCounted
<1>1. IInv => BuffersCounted
  <2> SUFFICES ASSUME IInv PROVE BuffersCounted
    OBVIOUS
  <2>1. Queued \subseteq out /\ out \ Queued \subseteq Leaked
    BY DEF IInv, ClientInv, OutCounted, Queued
  <2> QED BY <2>1 DEF IInv, ClientInv, Allocated, Apart, BuffersCounted
<1> QED BY <1>1, Invariance, PTL

\* What a viewer was told of stays in the inventories and the asset store, and
\* is its own agent's or the library's.
THEOREM ToldItemsStay == Spec => []ToldItemsExist
<1>1. IInv => ToldItemsExist
  BY DEF IInv, Told, Held, ToldItemsExist
<1> QED BY <1>1, Invariance, PTL

\* A callback raises an error only about a request whose connection ended
\* early, or to show an agent its copy of a library item that has no asset.
THEOREM AnswersAreRead == Spec => []AnswersNotLost
<1>1. IInv => AnswersNotLost
  BY DEF IInv, ClientInv
<1> QED BY <1>1, Invariance, PTL

\* No step takes an item's asset away, a command handled after a restart, a
\* reordering or a second copy of its datagram included, but the update of a
\* library item that names no asset.
THEOREM AssetsAreKept == Spec => ItemsKeepAssets
<1> DEFINE Kept ==
      \A a \in Agents : \A id \in Items \cap (DOMAIN local_inventory[a] \cup {LibraryItem}) :
        HasAsset(Seen(a, id)) =>
          \/ HasAsset(Seen(a, id)')
          \/ id \notin DOMAIN local_inventory[a] /\ UpdateNamesNoAsset(a, id)
<1>1. IInv /\ Next => Kept
  <2> SUFFICES ASSUME IInv, Next PROVE Kept
    OBVIOUS
  <2>0. /\ \A a \in Agents : a \in Owners /\ a # Library
        /\ Library \in Owners /\ Items \subseteq ItemIds /\ Made \subseteq Nat
    <3>1. Made \subseteq Nat
      BY LenProperties DEF Made, IInv, ClientInv, ClientTyped
    <3> QED BY <3>1, AgentAssumption DEF Owners, Items, ItemIds
  <2>1. ASSUME \A o \in Owners : local_inventory'[o] = local_inventory[o]
        PROVE  Kept
    BY <2>0, <2>1 DEF Seen
  <2>2. ASSUME NEW s \in Sessions, Login(s) PROVE Kept
    <3>0. local_inventory' = [local_inventory EXCEPT ![AgentOf[s]] =
             IF Root(AgentOf[s]) \in DOMAIN @ THEN @ ELSE CreateSkeleton(AgentOf[s])]
      BY <2>2 DEF Login
    <3>1. AgentOf[s] \in Agents
      BY AgentAssumption
    <3>2. \A o \in Owners :
            \/ local_inventory'[o] = local_inventory[o]
            \/ /\ o \in Agents /\ DOMAIN local_inventory[o] = {}
               /\ local_inventory'[o] = CreateSkeleton(o)
      BY <2>0, <3>0, <3>1 DEF IInv, Trees
    <3>3. local_inventory'[Library] = local_inventory[Library]
      BY <2>0, <3>2
    <3>4. \A o \in Agents : \/ local_inventory'[o] = local_inventory[o]
                            \/ \A id \in Items : /\ id \notin DOMAIN local_inventory[o]
                                                 /\ id \notin DOMAIN local_inventory'[o]
      BY <2>0, <3>2, SkeletonIsATree
    <3> QED BY <3>3, <3>4 DEF Seen
  <2>3. ASSUME NEW s \in Sessions, ViewerActs(s) PROVE local_inventory' = local_inventory
    BY <2>3 DEF ViewerActs, UseCircuitCode, LogoutRequest, store, AgentWearablesRequest, Ask,
      FetchInventoryDescendents, AgentIsNowWearing, UpdateInventoryItem, CreateInventoryFolder,
      TransferRequest, CreateInventoryItem, AssetUploadRequest, AssetUploadRequestEmpty
  <2>4. ASSUME NEW i \in Idx, Network(i) \/ ServerHangsUp(i) \/ Callback(i)
        PROVE  local_inventory' = local_inventory
    BY <2>4 DEF Network, ServerHangsUp, Callback, store
  <2>5. ASSUME NEW i \in Idx, ServerHandles(i) PROVE Kept
    <3>r. PICK r : r = is[i].req
      OBVIOUS
    <3>a. PICK a : a = OwnerOf(r)
      OBVIOUS
    <3>t. PICK T : T = Commanded(r)
      OBVIOUS
    <3>1. /\ conn[i].state = "asked" /\ r \in Made /\ a \in Agents
          /\ local_inventory' = [local_inventory EXCEPT ![a] = T]
          /\ After(local_inventory[a], T, r)
      BY <2>5, <3>r, <3>a, <3>t, ServerHandlesIs
    <3>2. local_inventory'[a] = T /\ \A o \in Owners \ {a} : local_inventory'[o] = local_inventory[o]
      BY <2>0, <3>1 DEF IInv, Trees
    <3>3. Item(r) \notin DOMAIN local_inventory[a]
      BY <2>0, <3>r, <3>1 DEF IInv, Fresh
    <3> SUFFICES ASSUME NEW o \in Agents,
                        NEW id \in Items \cap (DOMAIN local_inventory[o] \cup {LibraryItem}),
                        HasAsset(Seen(o, id))
                 PROVE  \/ HasAsset(Seen(o, id)')
                        \/ id \notin DOMAIN local_inventory[o] /\ UpdateNamesNoAsset(o, id)
      OBVIOUS
    <3>4. CASE o # a
      BY <2>0, <3>1, <3>2, <3>4 DEF Seen
    <3>5. CASE o = a /\ id \in DOMAIN local_inventory[a]
      <4>1. HasAsset(local_inventory[a][id]) /\ id # Item(r) /\ id \in ItemIds
        BY <2>0, <3>3, <3>5 DEF Seen
      <4>2. HasAsset(T[id]) /\ id \in DOMAIN T
        BY <3>1, <3>5, <4>1 DEF After
      <4> QED BY <3>2, <3>5, <4>2 DEF Seen
    <3>6. CASE o = a /\ id \notin DOMAIN local_inventory[a]
      <4>1. id = LibraryItem
        BY <3>6
      <4>2. CASE id \in DOMAIN T
        <5>1. HasAsset(T[id]) \/ UpdateNamesNoAsset(a, id)
          BY <3>a, <3>1, <3>6, <4>1, <4>2 DEF After
        <5> QED BY <3>2, <3>6, <4>2, <5>1 DEF Seen
      <4>3. CASE id \notin DOMAIN T
        BY <2>0, <3>1, <3>2, <3>6, <4>3 DEF Seen
      <4> QED BY <4>2, <4>3
    <3> QED BY <3>4, <3>5, <3>6
  <2>6. ASSUME Restart PROVE \A o \in Owners : local_inventory'[o] = local_inventory[o]
    BY <2>6 DEF Restart, IInv, Trees
  <2> QED BY <2>1, <2>2, <2>3, <2>4, <2>5, <2>6, NextIs
<1>2. IInv /\ [Next]_vars => [Kept]_vars
  BY <1>1
<1> QED BY <1>2, Invariance, PTL DEF Spec, ItemsKeepAssets
=============================================================================
