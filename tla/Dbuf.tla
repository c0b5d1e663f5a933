-------------------------------- MODULE Dbuf --------------------------------
(***************************************************************************)
(* The buffers of lib_dbuf.c: counted references and data that grows.      *)
(*                                                                         *)
(* Buffers are numbered in the order of their allocation and a number is   *)
(* never used again, so that a pointer to freed memory can be told from    *)
(* one to a later buffer.  A place is whatever keeps a pointer: a variable *)
(* of C or Lua, an item of a transmit queue, the parameter of a timer; it  *)
(* unlocks what it keeps once.  A buffer with a destructor is the appdata  *)
(* of an HTTP connection, which keeps two pointers itself: rdb, which its  *)
(* destructor forgets, and content, its post_content_buf.                  *)
(*                                                                         *)
(* A call that fails and changes nothing is a stutter.                     *)
(***************************************************************************)
EXTENDS Integers, FiniteSetsExt, Sequences

CONSTANTS
  Place,
  Byte,        \* bytes of text
  Texts,       \* what is appended
  GrowSize,    \* DMEMCAT_CHUNK_INCREMENT, 1024
  StrGrow,     \* 10: what dstrcat grows by
  TempSize,    \* 1024: bytes of _dxprintf_temp_buf
  Memory,      \* bytes of data malloc() and realloc() find room for
  MaxBufs,     \* bound: buffers ever allocated
  NULL

ASSUME PlaceAssumption ==
  IsFiniteSet(Place) /\ \A p \in Place : p \notin Nat \X {"rdb", "content"}
ASSUME TextAssumption == Byte \subseteq Nat \ {0} /\ Texts \subseteq Seq(Byte)
ASSUME SizeAssumption ==
  /\ GrowSize \in Nat \ {0} /\ StrGrow \in Nat \ {0} /\ TempSize \in Nat \ {0}
  /\ Memory \in Nat /\ MaxBufs \in Nat
ASSUME NullAssumption == NULL \notin Nat

VARIABLES
  bufs,        \* the buffers, freed ones included
  place        \* the buffer each place points to

vars == <<bufs, place>>

Handles == 1 .. Len(bufs)

Junk == -1     \* a byte nobody wrote
Cell == Byte \cup {0, Junk}
Cells(c, n) == [i \in 1 .. n |-> c]

(* Of a buffer also: how many pointers to it were forgotten, how often it  *)
(* was freed, what its data is meant to be, whether its last writer left a *)
(* C string, and whether a call left it wrong without saying so.           *)
Buf == [lock : Nat, data : Seq(Cell), dsize : Nat, destructor : BOOLEAN,
        rdb : Nat \cup {NULL}, content : Nat \cup {NULL},
        lost : Nat, frees : Nat,
        meant : Seq(Cell), string : BOOLEAN, spoilt : BOOLEAN]

Init ==
  /\ bufs = <<>>
  /\ place = [p \in Place |-> NULL]

(* Who would unlock d: the places, and the appdata of connections.         *)
References(d) ==
  {p \in Place : place[p] = d}
    \cup {f \in Handles \X {"rdb"} : bufs[f[1]].rdb = d}
    \cup {f \in Handles \X {"content"} : bufs[f[1]].content = d}

Held == {d \in Handles : References(d) # {}}

-----------------------------------------------------------------------------
(* Data. *)

Size(b) == Len(b.data)

Room(delta) == MapThenSumSet(LAMBDA d : Size(bufs[d]), Handles) + delta <= Memory

(* dgrow: realloc keeps what was there.                                    *)
Grow(b, delta) == [b EXCEPT !.data = @ \o Cells(Junk, delta)]

(* memcpy to the bytes from at on; no caller reaches beyond the data.      *)
Put(b, at, text) ==
  [b EXCEPT !.data = [i \in 1 .. Len(@) |->
                        IF i - at \in 1 .. Len(text) THEN text[i - at] ELSE @[i]]]

\* Seeded fault: the data starts over.
AddFromStart(b, text) ==
  [Put(b, 0, text) EXCEPT !.dsize = @ + Len(text)]

Add(b, text) == [Put(b, b.dsize, text) EXCEPT !.dsize = @ + Len(text)]

(* dmemcat always leaves room for a zero after the text.                   *)
Delta(total) == (1 + (1 + total) \div GrowSize) * GrowSize
Crowded(b, total) == Size(b) - b.dsize < total + 1
Refused(b, text) == Crowded(b, Len(text)) /\ ~Room(Delta(Len(text)))

Memcat(b, text) ==
  IF Refused(b, text) THEN b
  ELSE Add(IF Crowded(b, Len(text)) THEN Grow(b, Delta(Len(text))) ELSE b, text)

\* Seeded fault: no zero ends the string.
StrcatUnended(b, text) == Memcat(b, text)

(* dstrcat does not look at what dmemcat returns, and dgrow may fail too:  *)
(* then the zero is written outside the data.                              *)
Strcat(b, text) ==
  LET c == Memcat(b, text)
      roomy == IF c.dsize >= Size(c) /\ Room(StrGrow) THEN Grow(c, StrGrow) ELSE c
  IN  Put(roomy, c.dsize, <<0>>)

(* vsnprintf cuts the text, but not the length dstrcat is given: the rest  *)
(* comes from behind the temporary buffer.                                 *)
Printed(text) ==
  IF Len(text) < TempSize THEN text
  ELSE SubSeq(text, 1, TempSize - 1) \o <<0>> \o Cells(Junk, Len(text) - TempSize)

-----------------------------------------------------------------------------
(* Allocation, and the count of references. *)

Fresh(data, dsize, meant, string) ==
  [lock |-> 1, data |-> data, dsize |-> dsize, destructor |-> FALSE,
   rdb |-> NULL, content |-> NULL, lost |-> 0, frees |-> 0,
   meant |-> meant, string |-> string, spoilt |-> FALSE]

Empty(size) == Fresh(Cells(Junk, size), 0, <<>>, FALSE)
Zeros(size) == Fresh(Cells(0, size), size, Cells(0, size), FALSE)

Keeps(p, d) == place[p] = NULL /\ place' = [place EXCEPT ![p] = d]

New(p, b) ==
  /\ Len(bufs) < MaxBufs
  /\ Room(Size(b))
  /\ bufs' = Append(bufs, b)
  /\ Keeps(p, Len(bufs) + 1)

Dalloc(p) == \E size \in 0 .. Memory : New(p, Empty(size))

Dalloczf(p) == \E size \in 0 .. Memory : New(p, Zeros(size))

Dstrcpy(p) == \E text \in Texts : New(p, Fresh(text \o <<0>>, Len(text), text, TRUE))

(* The size of the copy's data is left at 0.                               *)
Dsubstrcpy(p, d) ==
  \E start, howmany \in 0 .. bufs[d].dsize :
    /\ start < bufs[d].dsize /\ start + howmany <= bufs[d].dsize
    /\ New(p, Fresh(SubSeq(bufs[d].data, start + 1, start + howmany), 0, <<>>, FALSE))

(* alloc_appdata_http: zeros, and a destructor for what they will become.  *)
AllocAppdata(p) == New(p, [Zeros(1) EXCEPT !.destructor = TRUE])

Forgotten(t, d) == IF d = NULL THEN t ELSE [t EXCEPT ![d].lost = @ + 1]

(* http_parse_headers, at each Content-Length: a second one overwrites what *)
(* the first allocated.                                                    *)
AllocContent(d) ==
  /\ bufs[d].destructor
  /\ Len(bufs) < MaxBufs
  /\ \E size \in {n \in 0 .. Memory : Room(n)} :
       bufs' = Append([Forgotten(bufs, bufs[d].content) EXCEPT ![d].content = Len(bufs) + 1],
                      Empty(size))
  /\ UNCHANGED place

(* The same where dalloc finds no memory, or the length is negative: the   *)
(* NULL is stored.                                                         *)
ContentRefused(d) ==
  /\ bufs[d].destructor
  /\ bufs' = [Forgotten(bufs, bufs[d].content) EXCEPT ![d].content = NULL]
  /\ UNCHANGED place

(* ev_http_read: the first read of the connection becomes its rdb.         *)
KeepRead(d, read) ==
  /\ bufs[d].destructor /\ bufs[d].rdb = NULL
  /\ ~bufs[read].destructor
  /\ bufs' = [bufs EXCEPT ![d].rdb = read, ![read].lock = @ + 1]
  /\ UNCHANGED place

Dlock(p, d) ==
  /\ bufs' = [bufs EXCEPT ![d].lock = @ + 1]
  /\ Keeps(p, d)

Freed(b) ==
  [Fresh(<<>>, 0, <<>>, FALSE) EXCEPT
     !.lock = b.lock - 1, !.lost = b.lost, !.frees = b.frees + 1]

Less(t, d) ==
  [t EXCEPT ![d] = IF t[d].lock = 1 THEN Freed(t[d]) ELSE [t[d] EXCEPT !.lock = @ - 1]]

\* Seeded fault: the destructor is not called.
UnlockedShallow(t, d) == Less(t, d)

Destroyed(t, d) ==
  LET rest == Forgotten(t, t[d].rdb)
  IN  IF t[d].content = NULL THEN rest ELSE Less(rest, t[d].content)

(* With its last reference goes the buffer; a destructor runs before that. *)
Unlocked(t, d) ==
  IF t[d].lock = 1 /\ t[d].destructor THEN Less(Destroyed(t, d), d) ELSE Less(t, d)

Dunlock(p) ==
  /\ place[p] # NULL
  /\ bufs' = Unlocked(bufs, place[p])
  /\ place' = [place EXCEPT ![p] = NULL]

-----------------------------------------------------------------------------
(* Appending to a buffer somebody holds. *)

Becomes(d, b, text, string, spoils) ==
  /\ bufs' = [bufs EXCEPT ![d] =
                [b EXCEPT !.meant = IF b.spoilt \/ spoils THEN <<>> ELSE @ \o text,
                          !.string = string,
                          !.spoilt = @ \/ spoils]]
  /\ UNCHANGED place

Dmemcat(d) ==
  \E text \in Texts :
    /\ ~Refused(bufs[d], text)
    /\ Becomes(d, Memcat(bufs[d], text), text, FALSE, FALSE)

Dstrcat(d) ==
  \E text \in Texts :
    Becomes(d, Strcat(bufs[d], text), text, TRUE, Refused(bufs[d], text))

Dxprintf(d) ==
  \E text \in Texts :
    Becomes(d, Strcat(bufs[d], Printed(text)), text, TRUE,
            Len(text) >= TempSize \/ Refused(bufs[d], text))

(* Data of a known size, for which dgrow makes just enough room.  Nobody   *)
(* lets a buffer of no size grow by nothing, which would free its data.    *)
Appends(d, text, spoils) ==
  /\ Room(Len(text)) /\ Size(bufs[d]) + Len(text) > 0
  /\ Becomes(d, Add(Grow(bufs[d], Len(text)), text), text, FALSE, spoils)

(* dconcat, and dxcat for a part.                                          *)
Dxcat(d, from) ==
  \E start, len \in 0 .. bufs[from].dsize :
    /\ start + len <= bufs[from].dsize
    /\ Appends(d, SubSeq(bufs[from].data, start + 1, start + len), bufs[from].spoilt)

Dappendfill(d) == \E c \in Byte, count \in 1 .. Memory : Appends(d, Cells(c, count), FALSE)

Dappendfile(d) == \E text \in Texts : Appends(d, text, FALSE)

(* read() returned less than fstat() said: what it read is not counted.    *)
DappendfileShort(d) ==
  \E text \in Texts, nread \in 0 .. Memory :
    /\ nread < Len(text)
    /\ Room(Len(text))
    /\ bufs' = [bufs EXCEPT ![d] =
                  [Put(Grow(@, Len(text)), @.dsize, SubSeq(text, 1, nread)) EXCEPT !.string = FALSE]]
    /\ UNCHANGED place

(* http_handle_request_by_dispatch writes its answer again behind a status *)
(* line.                                                                   *)
Rewind(d) ==
  /\ bufs' = [bufs EXCEPT ![d].dsize = 0, ![d].meant = <<>>,
                          ![d].string = FALSE, ![d].spoilt = FALSE]
  /\ UNCHANGED place

Next ==
  \/ \E p \in Place : Dalloc(p) \/ Dalloczf(p) \/ Dstrcpy(p) \/ AllocAppdata(p) \/ Dunlock(p)
  \/ \E p \in Place, d \in Held : Dsubstrcpy(p, d) \/ Dlock(p, d)
  \/ \E d \in Held : AllocContent(d) \/ ContentRefused(d)
  \/ \E d \in Held, read \in Held : KeepRead(d, read)
  \/ \E d \in {d \in Held : ~bufs[d].destructor} :
       \/ Dmemcat(d) \/ Dstrcat(d) \/ Dxprintf(d)
       \/ Dappendfill(d) \/ Dappendfile(d) \/ DappendfileShort(d) \/ Rewind(d)
       \/ \E from \in Held : Dxcat(d, from)

Spec == Init /\ [][Next]_vars

-----------------------------------------------------------------------------
(* Properties. *)

(* Buffers and places have their types.                                    *)
TypeOK ==
  /\ bufs \in Seq(Buf)
  /\ place \in [Place -> Handles \cup {NULL}]

(* The lock of a buffer counts who would unlock it, destructors included,  *)
(* and it is freed once, with its last reference: nobody is left with a    *)
(* pointer to freed memory (the asserts of dunlock and dchecksig), and     *)
(* nothing nobody can reach is kept, but for what a connection read first  *)
(* and for the content of all but its last Content-Length.                 *)
LocksCountReferences ==
  /\ TypeOK
  /\ \A d \in Handles :
       /\ bufs[d].lock = Cardinality(References(d)) + bufs[d].lost
       /\ bufs[d].frees = IF bufs[d].lock = 0 THEN 1 ELSE 0

(* The data of a buffer stays inside its memory and is what was appended   *)
(* to it, in order, however often it was moved to grow, unless dstrcat ran *)
(* out of memory or dxprintf out of its temporary buffer.                  *)
DataAsMeant ==
  \A d \in Handles :
    /\ bufs[d].dsize <= Size(bufs[d])
    /\ ~bufs[d].spoilt => SubSeq(bufs[d].data, 1, bufs[d].dsize) = bufs[d].meant

(* dstrcpy and dstrcat leave a C string: the zero is after the data and    *)
(* inside the memory ("so the string functions will work",                 *)
(* lib_dbuf.c:384).                                                        *)
StringsEnd ==
  \A d \in Handles : bufs[d].string /\ ~bufs[d].spoilt =>
    /\ bufs[d].dsize < Size(bufs[d])
    /\ bufs[d].data[bufs[d].dsize + 1] = 0
=============================================================================
