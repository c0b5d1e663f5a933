----------------------------- MODULE DbufProofs -----------------------------
(***************************************************************************)
(* What Dbuf promises for any holders, texts, chunk sizes and memory.      *)
(***************************************************************************)
EXTENDS Dbuf, SequenceTheorems, FiniteSetTheorems, TLAPS

-----------------------------------------------------------------------------
(* Data: what each helper does to the bytes of a buffer. *)

(* All of a buffer but its bytes and how many of them are data.            *)
Header(b) == <<b.lock, b.destructor, b.rdb, b.content, b.lost, b.frees,
               b.meant, b.string, b.spoilt>>

Text(b) == SubSeq(b.data, 1, b.dsize)

LEMMA ByteCells == \A text \in Texts : text \in Seq(Cell)
<1>1. SUFFICES ASSUME NEW text \in Texts PROVE text \in Seq(Cell)
  OBVIOUS
<1>2. text \in Seq(Byte) /\ Byte \subseteq Cell
  BY TextAssumption DEF Cell
<1> QED BY <1>2, SeqMonotonic

LEMMA CellsFacts ==
  ASSUME NEW c \in Cell, NEW n \in Nat
  PROVE  Cells(c, n) \in Seq(Cell) /\ Len(Cells(c, n)) = n
BY DEF Cells

LEMMA SamePrefix ==
  ASSUME NEW s \in Seq(Cell), NEW t \in Seq(Cell), NEW n \in 0 .. Len(s), n <= Len(t),
         \A i \in 1 .. n : s[i] = t[i]
  PROVE  SubSeq(s, 1, n) = SubSeq(t, 1, n)
<1>1. /\ SubSeq(s, 1, n) \in Seq(Cell) /\ Len(SubSeq(s, 1, n)) = n
      /\ SubSeq(t, 1, n) \in Seq(Cell) /\ Len(SubSeq(t, 1, n)) = n
      /\ \A i \in 1 .. n : SubSeq(s, 1, n)[i] = s[i] /\ SubSeq(t, 1, n)[i] = t[i]
  OBVIOUS
<1> QED BY <1>1, SeqEqual

LEMMA TextFacts ==
  ASSUME NEW b \in Buf, b.dsize <= Size(b)
  PROVE  /\ Text(b) \in Seq(Cell) /\ Len(Text(b)) = b.dsize
         /\ \A i \in 1 .. b.dsize : Text(b)[i] = b.data[i]
<1>1. b.data \in Seq(Cell) /\ b.dsize \in 0 .. Len(b.data)
  BY DEF Buf, Size
<1> QED BY <1>1 DEF Text

LEMMA WriteBytes ==
  ASSUME NEW b \in Buf, NEW bytes \in Seq(Cell)
  PROVE  /\ [b EXCEPT !.data = bytes] \in Buf
         /\ [b EXCEPT !.data = bytes].data = bytes
         /\ [b EXCEPT !.data = bytes].dsize = b.dsize
         /\ Header([b EXCEPT !.data = bytes]) = Header(b)
BY DEF Buf, Header

LEMMA CountBytes ==
  ASSUME NEW b \in Buf, NEW n \in Nat
  PROVE  /\ [b EXCEPT !.dsize = n] \in Buf
         /\ [b EXCEPT !.dsize = n].data = b.data
         /\ [b EXCEPT !.dsize = n].dsize = n
         /\ Header([b EXCEPT !.dsize = n]) = Header(b)
BY DEF Buf, Header

(* A buffer that grows keeps its text.                                     *)
LEMMA GrowFacts ==
  ASSUME NEW b \in Buf, NEW n \in Nat
  PROVE  /\ Grow(b, n) \in Buf
         /\ Header(Grow(b, n)) = Header(b) /\ Grow(b, n).dsize = b.dsize
         /\ Size(Grow(b, n)) = Size(b) + n
         /\ \A i \in 1 .. Size(b) : Grow(b, n).data[i] = b.data[i]
<1> DEFINE more == b.data \o Cells(Junk, n)
<1>1. b.data \in Seq(Cell) /\ Len(b.data) \in Nat /\ Junk \in Cell
  BY DEF Buf, Cell
<1>2. Cells(Junk, n) \in Seq(Cell) /\ Len(Cells(Junk, n)) = n
  BY <1>1, CellsFacts
<1>3. /\ more \in Seq(Cell) /\ Len(more) = Len(b.data) + n
      /\ \A i \in 1 .. Len(b.data) : more[i] = b.data[i]
  <2> DEFINE s == b.data
             t == Cells(Junk, n)
  <2>1. s \in Seq(Cell) /\ t \in Seq(Cell) /\ Len(s) \in Nat /\ Len(t) = n
    BY <1>1, <1>2
  <2> HIDE DEF s, t
  <2>2. /\ s \o t \in Seq(Cell) /\ Len(s \o t) = Len(s) + Len(t)
        /\ \A i \in 1 .. Len(s) + Len(t) :
              (s \o t)[i] = IF i <= Len(s) THEN s[i] ELSE t[i - Len(s)]
    BY <2>1, ConcatProperties
  <2>3. \A i \in 1 .. Len(s) : i \in 1 .. Len(s) + Len(t) /\ i <= Len(s)
    BY <2>1
  <2>4. \A i \in 1 .. Len(s) : (s \o t)[i] = s[i]
    BY <2>2, <2>3
  <2> QED BY <2>1, <2>2, <2>4 DEF s, t
<1>4. Grow(b, n) = [b EXCEPT !.data = more]
  BY DEF Grow
<1> HIDE DEF more
<1> QED BY <1>3, <1>4, WriteBytes DEF Size

LEMMA PutFacts ==
  ASSUME NEW b \in Buf, NEW at \in Nat, NEW text \in Seq(Cell)
  PROVE  /\ Put(b, at, text) \in Buf
         /\ Header(Put(b, at, text)) = Header(b) /\ Put(b, at, text).dsize = b.dsize
         /\ Size(Put(b, at, text)) = Size(b)
         /\ \A i \in 1 .. Size(b) : Put(b, at, text).data[i] =
              IF i - at \in 1 .. Len(text) THEN text[i - at] ELSE b.data[i]
<1> DEFINE bytes == [i \in 1 .. Len(b.data) |->
                      IF i - at \in 1 .. Len(text) THEN text[i - at] ELSE b.data[i]]
<1>1. b.data \in Seq(Cell)
  BY DEF Buf
<1>2. \A i \in 1 .. Len(b.data) : bytes[i] \in Cell
  BY <1>1
<1>3. bytes \in Seq(Cell) /\ Len(bytes) = Len(b.data)
  BY <1>1, <1>2
<1>4. Put(b, at, text) = [b EXCEPT !.data = bytes]
  BY DEF Put
<1>5. \A i \in 1 .. Len(b.data) :
        bytes[i] = IF i - at \in 1 .. Len(text) THEN text[i - at] ELSE b.data[i]
  OBVIOUS
<1> HIDE DEF bytes
<1> QED BY <1>3, <1>4, <1>5, WriteBytes DEF Size

(* Text that fits follows what is there.                                   *)
LEMMA AddFacts ==
  ASSUME NEW b \in Buf, NEW text \in Seq(Cell), b.dsize + Len(text) <= Size(b)
  PROVE  /\ Add(b, text) \in Buf
         /\ Header(Add(b, text)) = Header(b)
         /\ Add(b, text).dsize = b.dsize + Len(text)
         /\ Size(Add(b, text)) = Size(b)
         /\ Text(Add(b, text)) = Text(b) \o text
<1> DEFINE p == Put(b, b.dsize, text)
           n == b.dsize + Len(text)
<1>1. b.dsize \in Nat /\ Len(text) \in Nat /\ b.data \in Seq(Cell) /\ b.dsize <= Size(b)
  BY DEF Buf, Size
<1>2. /\ p \in Buf /\ Header(p) = Header(b) /\ Size(p) = Size(b) /\ p.dsize = b.dsize
      /\ \A i \in 1 .. Size(b) :
           p.data[i] = IF i - b.dsize \in 1 .. Len(text) THEN text[i - b.dsize] ELSE b.data[i]
  BY <1>1, PutFacts
<1>3. Add(b, text) = [p EXCEPT !.dsize = n]
  BY <1>2 DEF Add, Buf
<1>4. /\ Add(b, text) \in Buf /\ Header(Add(b, text)) = Header(b)
      /\ Add(b, text).dsize = n /\ Add(b, text).data = p.data
  BY <1>1, <1>2, <1>3, CountBytes
<1>5. /\ Text(Add(b, text)) \in Seq(Cell) /\ Len(Text(Add(b, text))) = n
      /\ \A i \in 1 .. n : Text(Add(b, text))[i] = p.data[i]
  <2>1. Add(b, text).dsize <= Size(Add(b, text))
    BY <1>2, <1>4 DEF Size
  <2> QED BY <1>4, <2>1, TextFacts
<1>6. /\ Text(b) \in Seq(Cell) /\ Len(Text(b)) = b.dsize
      /\ \A i \in 1 .. b.dsize : Text(b)[i] = b.data[i]
  BY <1>1, TextFacts
<1>7. /\ Text(b) \o text \in Seq(Cell) /\ Len(Text(b) \o text) = n
      /\ \A i \in 1 .. n : (Text(b) \o text)[i] =
            IF i <= b.dsize THEN Text(b)[i] ELSE text[i - b.dsize]
  BY <1>6, ConcatProperties
<1>8. ASSUME NEW i \in 1 .. n PROVE Text(Add(b, text))[i] = (Text(b) \o text)[i]
  <2>1. i \in 1 .. Size(b)
    BY <1>1 DEF Size
  <2>2. p.data[i] = IF i - b.dsize \in 1 .. Len(text) THEN text[i - b.dsize] ELSE b.data[i]
    BY <1>2, <2>1
  <2> HIDE DEF p
  <2>3. CASE i <= b.dsize
    <3>1. i \in 1 .. b.dsize /\ i - b.dsize \notin 1 .. Len(text)
      BY <1>1, <2>3
    <3> QED BY <1>5, <1>6, <1>7, <2>2, <2>3, <3>1
  <2>4. CASE ~(i <= b.dsize)
    <3>1. i - b.dsize \in 1 .. Len(text)
      BY <1>1, <2>4
    <3> QED BY <1>5, <1>7, <2>2, <2>4, <3>1
  <2> QED BY <2>3, <2>4
<1>9. Text(Add(b, text)) = Text(b) \o text
  <2> HIDE DEF n
  <2> QED BY <1>5, <1>7, <1>8, SeqEqual
<1> QED BY <1>2, <1>4, <1>9 DEF Size

(* A chunk is always more than what dmemcat lacks.                         *)
LEMMA DeltaFacts ==
  ASSUME NEW total \in Nat
  PROVE  Delta(total) \in Nat /\ Delta(total) > total + 1
<1>1. GrowSize \in Nat \ {0} /\ 1 + total \in Nat
  BY SizeAssumption
<1>2. \A n \in Nat, d \in Nat \ {0} : (1 + n \div d) * d \in Nat /\ n < (1 + n \div d) * d
  OBVIOUS
<1> QED BY <1>1, <1>2 DEF Delta

LEMMA MemcatFacts ==
  ASSUME NEW b \in Buf, b.dsize <= Size(b), NEW text \in Seq(Cell)
  PROVE  /\ Memcat(b, text) \in Buf
         /\ Header(Memcat(b, text)) = Header(b)
         /\ Memcat(b, text).dsize <= Size(Memcat(b, text))
         /\ ~Refused(b, text) =>
              /\ Text(Memcat(b, text)) = Text(b) \o text
              /\ Memcat(b, text).dsize < Size(Memcat(b, text))
<1>1. b.dsize \in Nat /\ Len(text) \in Nat /\ Size(b) \in Nat
  BY DEF Buf, Size
<1>2. CASE Refused(b, text)
  BY <1>2 DEF Memcat
<1>3. CASE ~Refused(b, text)
  <2> DEFINE g == IF Crowded(b, Len(text)) THEN Grow(b, Delta(Len(text))) ELSE b
  <2>1. Memcat(b, text) = Add(g, text)
    BY <1>3 DEF Memcat
  <2>2. /\ g \in Buf /\ Header(g) = Header(b) /\ g.dsize = b.dsize
        /\ Size(g) \in Nat /\ b.dsize + Len(text) < Size(g)
        /\ Text(g) = Text(b)
    <3>1. CASE Crowded(b, Len(text))
      <4>1. Delta(Len(text)) \in Nat /\ Delta(Len(text)) > Len(text) + 1
        BY <1>1, DeltaFacts
      <4>2. /\ g \in Buf /\ Header(g) = Header(b) /\ g.dsize = b.dsize
            /\ Size(g) = Size(b) + Delta(Len(text))
            /\ \A i \in 1 .. Size(b) : g.data[i] = b.data[i]
        BY <3>1, <4>1, GrowFacts
      <4> HIDE DEF g
      <4>3. Text(g) = Text(b)
        <5>1. /\ g.data \in Seq(Cell) /\ b.data \in Seq(Cell)
              /\ b.dsize \in 0 .. Len(b.data) /\ b.dsize <= Len(g.data)
          BY <1>1, <4>1, <4>2 DEF Buf, Size
        <5>2. \A i \in 1 .. b.dsize : b.data[i] = g.data[i]
          BY <4>2, <5>1 DEF Size
        <5> QED BY <4>2, <5>1, <5>2, SamePrefix DEF Text
      <4> QED BY <1>1, <4>1, <4>2, <4>3
    <3>2. CASE ~Crowded(b, Len(text))
      BY <1>1, <3>2 DEF Crowded
    <3> QED BY <3>1, <3>2
  <2> HIDE DEF g
  <2>4. g.dsize + Len(text) <= Size(g)
    BY <1>1, <2>2
  <2>3. /\ Add(g, text) \in Buf /\ Header(Add(g, text)) = Header(g)
        /\ Add(g, text).dsize = g.dsize + Len(text) /\ Size(Add(g, text)) = Size(g)
        /\ Text(Add(g, text)) = Text(g) \o text
    BY <2>2, <2>4, AddFacts
  <2> QED BY <1>1, <2>1, <2>2, <2>3
<1> QED BY <1>2, <1>3

(* dstrcat leaves the text with a zero after it, unless it was refused.    *)
LEMMA StrcatFacts ==
  ASSUME NEW b \in Buf, b.dsize <= Size(b), NEW text \in Seq(Cell)
  PROVE  /\ Strcat(b, text) \in Buf
         /\ Header(Strcat(b, text)) = Header(b)
         /\ Strcat(b, text).dsize <= Size(Strcat(b, text))
         /\ ~Refused(b, text) =>
              /\ Text(Strcat(b, text)) = Text(b) \o text
              /\ Strcat(b, text).dsize < Size(Strcat(b, text))
              /\ Strcat(b, text).data[Strcat(b, text).dsize + 1] = 0
<1> DEFINE c == Memcat(b, text)
           g == IF c.dsize >= Size(c) /\ Room(StrGrow) THEN Grow(c, StrGrow) ELSE c
<1>1. /\ c \in Buf /\ Header(c) = Header(b) /\ c.dsize <= Size(c)
      /\ ~Refused(b, text) => Text(c) = Text(b) \o text /\ c.dsize < Size(c)
  BY MemcatFacts
<1> HIDE DEF c
<1>2. c.dsize \in Nat /\ Size(c) \in Nat
  BY <1>1 DEF Buf, Size
<1>3. /\ g \in Buf /\ Header(g) = Header(b) /\ g.dsize = c.dsize /\ g.dsize <= Size(g)
      /\ c.dsize < Size(c) => g = c
  <2>1. StrGrow \in Nat
    BY SizeAssumption
  <2>2. CASE c.dsize >= Size(c) /\ Room(StrGrow)
    <3>1. g = Grow(c, StrGrow)
      BY <2>2, Zenon
    <3>2. /\ Grow(c, StrGrow) \in Buf /\ Header(Grow(c, StrGrow)) = Header(c)
          /\ Grow(c, StrGrow).dsize = c.dsize
          /\ Size(Grow(c, StrGrow)) = Size(c) + StrGrow
      BY <1>1, <2>1, GrowFacts
    <3>3. ~(c.dsize < Size(c))
      BY <1>2, <2>2
    <3> HIDE DEF g
    <3> QED BY <1>1, <1>2, <2>1, <3>1, <3>2, <3>3
  <2>3. CASE ~(c.dsize >= Size(c) /\ Room(StrGrow))
    <3>1. g = c
      BY <2>3, Zenon
    <3> HIDE DEF g
    <3> QED BY <1>1, <3>1
  <2> QED BY <2>2, <2>3, Zenon
<1>4. Strcat(b, text) = Put(g, c.dsize, <<0>>)
  BY DEF Strcat, c
<1> HIDE DEF g
<1>5. <<0>> \in Seq(Cell) /\ Len(<<0>>) = 1 /\ <<0>>[1] = 0
  BY DEF Cell
<1> DEFINE z == <<0>>
<1>6. /\ Put(g, c.dsize, z) \in Buf /\ Header(Put(g, c.dsize, z)) = Header(g)
      /\ Put(g, c.dsize, z).dsize = g.dsize /\ Size(Put(g, c.dsize, z)) = Size(g)
      /\ \A i \in 1 .. Size(g) : Put(g, c.dsize, z).data[i] =
           IF i - c.dsize \in 1 .. Len(z) THEN z[i - c.dsize] ELSE g.data[i]
  BY <1>2, <1>3, <1>5, PutFacts
<1>7. ASSUME ~Refused(b, text)
      PROVE  /\ Text(Put(g, c.dsize, z)) = Text(c)
             /\ Put(g, c.dsize, z).data[c.dsize + 1] = 0
             /\ c.dsize < Size(g)
  <2>1. g = c /\ c.dsize < Size(c) /\ Size(g) = Size(c)
    BY <1>1, <1>3, <1>7
  <2>2. \A i \in 1 .. Size(c) : Put(g, c.dsize, z).data[i] =
          IF i - c.dsize \in 1 .. 1 THEN z[i - c.dsize] ELSE c.data[i]
    BY <1>5, <1>6, <2>1
  <2> HIDE DEF z
  <2>3. \A i \in 1 .. c.dsize : Put(g, c.dsize, z).data[i] = c.data[i]
    BY <1>2, <2>1, <2>2
  <2>4. /\ Put(g, c.dsize, z).data \in Seq(Cell) /\ c.data \in Seq(Cell)
        /\ Len(Put(g, c.dsize, z).data) = Size(c)
        /\ c.dsize \in 0 .. Len(c.data) /\ Put(g, c.dsize, z).dsize = c.dsize
    BY <1>1, <1>2, <1>3, <1>6, <2>1 DEF Buf, Size
  <2>5. Text(Put(g, c.dsize, z)) = Text(c)
    BY <2>1, <2>3, <2>4, SamePrefix DEF Text, Size
  <2>6. Put(g, c.dsize, z).data[c.dsize + 1] = z[1]
    BY <1>2, <2>1, <2>2
  <2> QED BY <1>5, <2>1, <2>5, <2>6 DEF z
<1> QED BY <1>1, <1>3, <1>4, <1>6, <1>7

-----------------------------------------------------------------------------
(* References, in a table t of buffers and places pl that point into it.   *)
(* The buffers of "owed" have been counted for somebody who does not hold  *)
(* them yet, or not any more: every operation is a sequence of small steps *)
(* that owe, take, drop and pay.                                           *)

RefsIn(t, pl, d) ==
  {p \in Place : pl[p] = d}
    \cup {f \in (1 .. Len(t)) \X {"rdb"} : t[f[1]].rdb = d}
    \cup {f \in (1 .. Len(t)) \X {"content"} : t[f[1]].content = d}

Typed(t, pl) == t \in Seq(Buf) /\ pl \in [Place -> (1 .. Len(t)) \cup {NULL}]

(* Only a buffer with a destructor points to others, and never to another  *)
(* with a destructor: destruction does not recurse.                        *)
Linked(t) ==
  \A d \in 1 .. Len(t) :
    /\ t[d].rdb # NULL => t[d].rdb \in 1 .. Len(t) /\ ~t[t[d].rdb].destructor
    /\ t[d].content # NULL => t[d].content \in 1 .. Len(t) /\ ~t[t[d].content].destructor
    /\ ~t[d].destructor => t[d].rdb = NULL /\ t[d].content = NULL

Balanced(t, pl, owed, d) ==
  /\ t[d].lock = Cardinality(RefsIn(t, pl, d)) + t[d].lost
                   + (IF d \in owed THEN 1 ELSE 0)
  /\ t[d].frees = IF t[d].lock = 0 THEN 1 ELSE 0

Sound(t, pl, owed) ==
  /\ Typed(t, pl)
  /\ Linked(t)
  /\ \A d \in 1 .. Len(t) : Balanced(t, pl, owed, d)

LEMMA SoundTypes ==
  ASSUME NEW t, NEW pl, NEW owed, Sound(t, pl, owed)
  PROVE  /\ t \in Seq(Buf) /\ pl \in [Place -> (1 .. Len(t)) \cup {NULL}]
         /\ Len(t) \in Nat /\ NULL \notin Nat
         /\ \A d \in 1 .. Len(t) : t[d] \in Buf
         /\ Linked(t) /\ \A d \in 1 .. Len(t) : Balanced(t, pl, owed, d)
BY NullAssumption DEF Sound, Typed

LEMMA BufFields ==
  ASSUME NEW b \in Buf
  PROVE  /\ b.lock \in Nat /\ b.lost \in Nat /\ b.frees \in Nat
         /\ b.rdb \in Nat \cup {NULL} /\ b.content \in Nat \cup {NULL}
         /\ b.destructor \in BOOLEAN /\ b.data \in Seq(Cell) /\ b.dsize \in Nat
         /\ b.meant \in Seq(Cell) /\ b.string \in BOOLEAN /\ b.spoilt \in BOOLEAN
BY DEF Buf

LEMMA RefsFacts ==
  ASSUME NEW t, Len(t) \in Nat, NEW pl, NEW d
  PROVE  \A r : r \in RefsIn(t, pl, d) <=>
           \/ r \in Place /\ pl[r] = d
           \/ \E e \in 1 .. Len(t) : r = <<e, "rdb">> /\ t[e].rdb = d
           \/ \E e \in 1 .. Len(t) : r = <<e, "content">> /\ t[e].content = d
BY DEF RefsIn

LEMMA NamesDistinct ==
  /\ \A e \in Nat : <<e, "rdb">> \notin Place /\ <<e, "content">> \notin Place
  /\ \A d, e \in Nat : <<d, "rdb">> # <<e, "content">>
BY PlaceAssumption

LEMMA FiniteRefs ==
  ASSUME NEW t, Len(t) \in Nat, NEW pl, NEW d
  PROVE  IsFiniteSet(RefsIn(t, pl, d)) /\ Cardinality(RefsIn(t, pl, d)) \in Nat
<1> DEFINE S == (1 .. Len(t)) \X {"rdb", "content"}
<1>1. IsFiniteSet(1 .. Len(t)) /\ IsFiniteSet({"rdb", "content"})
  <2>1. IsFiniteSet({"rdb", "content"})
    <3>1. IsFiniteSet({"rdb"})
      BY FS_Singleton
    <3>2. {"rdb", "content"} = {"rdb"} \cup {"content"}
      OBVIOUS
    <3> QED BY <3>1, <3>2, FS_AddElement
  <2> QED BY <2>1, FS_Interval
<1>2. IsFiniteSet(S)
  BY <1>1, FS_Product
<1>3. IsFiniteSet(Place \cup S)
  BY <1>2, PlaceAssumption, FS_Union
<1>4. RefsIn(t, pl, d) \subseteq Place \cup S
  BY DEF RefsIn
<1> QED BY <1>3, <1>4, FS_Subset, FS_CardinalityType

(* How a reference that comes or goes changes their number.                *)
LEMMA RefComes ==
  ASSUME NEW t, Len(t) \in Nat, NEW pl, NEW d, NEW r, NEW S,
         r \notin RefsIn(t, pl, d), S = RefsIn(t, pl, d) \cup {r}
  PROVE  Cardinality(S) = Cardinality(RefsIn(t, pl, d)) + 1
BY FiniteRefs, FS_AddElement

LEMMA RefGoes ==
  ASSUME NEW t, Len(t) \in Nat, NEW pl, NEW d, NEW r, NEW S,
         r \in RefsIn(t, pl, d), S = RefsIn(t, pl, d) \ {r}
  PROVE  Cardinality(S) = Cardinality(RefsIn(t, pl, d)) - 1
BY FiniteRefs, FS_RemoveElement

LEMMA TableExcept ==
  ASSUME NEW t \in Seq(Buf), NEW d \in 1 .. Len(t), NEW b \in Buf
  PROVE  /\ [t EXCEPT ![d] = b] \in Seq(Buf)
         /\ Len([t EXCEPT ![d] = b]) = Len(t)
         /\ [t EXCEPT ![d] = b][d] = b
         /\ \A e \in 1 .. Len(t) : e # d => [t EXCEPT ![d] = b][e] = t[e]
BY ExceptSeq

LEMMA TableAppend ==
  ASSUME NEW t \in Seq(Buf), NEW b \in Buf
  PROVE  /\ Append(t, b) \in Seq(Buf) /\ Len(Append(t, b)) = Len(t) + 1
         /\ Append(t, b)[Len(t) + 1] = b
         /\ \A e \in 1 .. Len(t) : Append(t, b)[e] = t[e]
OBVIOUS

LEMMA SamePointers ==
  ASSUME NEW t \in Seq(Buf), NEW u \in Seq(Buf), Len(u) = Len(t),
         \A e \in 1 .. Len(t) : u[e].rdb = t[e].rdb /\ u[e].content = t[e].content,
         NEW pl, NEW d
  PROVE  RefsIn(u, pl, d) = RefsIn(t, pl, d)
BY DEF RefsIn

(* A buffer whose pointers stay where they are: its count may change with  *)
(* what is lost or owed.                                                   *)
LEMMA CountSound ==
  ASSUME NEW t, NEW pl, NEW owed, Sound(t, pl, owed), NEW d \in 1 .. Len(t), NEW b \in Buf,
         b.rdb = t[d].rdb, b.content = t[d].content, b.destructor = t[d].destructor,
         NEW debts, \A e \in 1 .. Len(t) : e # d => (e \in debts <=> e \in owed),
         b.lock - t[d].lock = b.lost - t[d].lost
                                + (IF d \in debts THEN 1 ELSE 0) - (IF d \in owed THEN 1 ELSE 0),
         b.frees = IF b.lock = 0 THEN 1 ELSE 0
  PROVE  Sound([t EXCEPT ![d] = b], pl, debts)
<1> DEFINE u == [t EXCEPT ![d] = b]
<1>1. /\ t \in Seq(Buf) /\ pl \in [Place -> (1 .. Len(t)) \cup {NULL}] /\ Len(t) \in Nat
      /\ t[d] \in Buf /\ Linked(t) /\ \A e \in 1 .. Len(t) : Balanced(t, pl, owed, e)
  BY SoundTypes
<1>2. /\ u \in Seq(Buf) /\ Len(u) = Len(t) /\ u[d] = b
      /\ \A e \in 1 .. Len(t) : e # d => u[e] = t[e]
  BY <1>1, TableExcept
<1> HIDE DEF u
<1>3. \A e \in 1 .. Len(t) : /\ u[e].rdb = t[e].rdb /\ u[e].content = t[e].content
                             /\ u[e].destructor = t[e].destructor
  BY <1>2
<1>4. Typed(u, pl)
  BY <1>1, <1>2 DEF Typed
<1>5. Linked(u)
  BY <1>1, <1>2, <1>3 DEF Linked
<1>6. ASSUME NEW e \in 1 .. Len(t) PROVE Balanced(u, pl, debts, e)
  <2>1. RefsIn(u, pl, e) = RefsIn(t, pl, e) /\ Cardinality(RefsIn(t, pl, e)) \in Nat
    <3>1. RefsIn(u, pl, e) = RefsIn(t, pl, e)
      BY <1>1, <1>2, <1>3, SamePointers
    <3> QED BY <1>1, <3>1, FiniteRefs
  <2>2. Balanced(t, pl, owed, e)
    BY <1>1
  <2>3. CASE e # d
    BY <1>2, <2>1, <2>2, <2>3 DEF Balanced
  <2>4. CASE e = d
    <3>1. /\ t[d].lock \in Nat /\ t[d].lost \in Nat /\ b.lock \in Nat /\ b.lost \in Nat
      BY <1>1, BufFields
    <3> DEFINE n == Cardinality(RefsIn(t, pl, d))
               x == IF d \in debts THEN 1 ELSE 0
               y == IF d \in owed THEN 1 ELSE 0
               l == t[d].lock
               m == t[d].lost
    <3>2. n \in Nat /\ x \in Nat /\ y \in Nat /\ l \in Nat /\ m \in Nat /\ l = n + m + y
      BY <2>1, <2>2, <2>4, <3>1 DEF Balanced
    <3>3. b.lock - l = b.lost - m + x - y
      OBVIOUS
    <3> HIDE DEF n, x, y, l, m
    <3> DEFINE i == b.lock
               j == b.lost
    <3>6. i \in Nat /\ j \in Nat /\ i - l = j - m + x - y
      BY <3>1, <3>3
    <3> HIDE DEF i, j
    <3>7. i = n + j + x
      BY <3>2, <3>6
    <3>5. b.lock = n + b.lost + x
      BY <3>7 DEF i, j
    <3> QED BY <1>2, <2>1, <2>4, <3>5 DEF Balanced, n, x
  <2> QED BY <2>3, <2>4
<1> QED BY <1>2, <1>4, <1>5, <1>6 DEF Sound, u

(* A new buffer is owed to who asked for it.                               *)
LEMMA NewOwed ==
  ASSUME NEW t, NEW pl, Sound(t, pl, {}), NEW b \in Buf,
         b.lock = 1, b.rdb = NULL, b.content = NULL, b.lost = 0, b.frees = 0
  PROVE  Sound(Append(t, b), pl, {Len(t) + 1})
<1> DEFINE u == Append(t, b)
           n == Len(t) + 1
<1>1. /\ t \in Seq(Buf) /\ pl \in [Place -> (1 .. Len(t)) \cup {NULL}] /\ Len(t) \in Nat
      /\ Linked(t) /\ NULL \notin Nat
      /\ \A d \in 1 .. Len(t) : Balanced(t, pl, {}, d)
  BY SoundTypes
<1>2. /\ u \in Seq(Buf) /\ Len(u) = n /\ u[n] = b
      /\ \A e \in 1 .. Len(t) : u[e] = t[e]
  BY <1>1, TableAppend
<1>3. n \in Nat /\ n \notin 1 .. Len(t) /\ 1 .. n = (1 .. Len(t)) \cup {n}
  BY <1>1
<1> HIDE DEF u, n
<1>4. Linked(u)
  <2>1. ASSUME NEW d \in 1 .. Len(t)
        PROVE  /\ u[d].rdb # NULL => u[d].rdb \in 1 .. n /\ ~u[u[d].rdb].destructor
               /\ u[d].content # NULL => u[d].content \in 1 .. n /\ ~u[u[d].content].destructor
               /\ ~u[d].destructor => u[d].rdb = NULL /\ u[d].content = NULL
    <3>1. /\ t[d].rdb # NULL => t[d].rdb \in 1 .. Len(t) /\ ~t[t[d].rdb].destructor
          /\ t[d].content # NULL => t[d].content \in 1 .. Len(t) /\ ~t[t[d].content].destructor
          /\ ~t[d].destructor => t[d].rdb = NULL /\ t[d].content = NULL
      BY <1>1 DEF Linked
    <3> QED BY <1>2, <1>3, <3>1
  <2> QED BY <1>2, <1>3, <2>1 DEF Linked
<1>5. Typed(u, pl)
  BY <1>1, <1>2, <1>3 DEF Typed
<1>6. ASSUME NEW e \in 1 .. Len(t) PROVE Balanced(u, pl, {n}, e)
  <2>1. \A f \in 1 .. Len(u) : /\ u[f].rdb = e => f \in 1 .. Len(t) /\ t[f].rdb = e
                               /\ u[f].content = e => f \in 1 .. Len(t) /\ t[f].content = e
    BY <1>1, <1>2, <1>3
  <2>2. \A f \in 1 .. Len(t) : f \in 1 .. Len(u) /\ u[f] = t[f]
    BY <1>1, <1>2, <1>3
  <2>3. RefsIn(u, pl, e) = RefsIn(t, pl, e)
    <3>1. Len(u) \in Nat /\ Len(t) \in Nat
      BY <1>1, <1>2, <1>3
    <3>2. ASSUME NEW r \in RefsIn(u, pl, e) PROVE r \in RefsIn(t, pl, e)
      BY <2>1, <3>1, RefsFacts
    <3>3. ASSUME NEW r \in RefsIn(t, pl, e) PROVE r \in RefsIn(u, pl, e)
      BY <2>2, <3>1, RefsFacts
    <3> QED BY <3>2, <3>3
  <2>4. Balanced(t, pl, {}, e) /\ e \notin {n} /\ u[e] = t[e]
    BY <1>1, <1>2, <1>3
  <2> QED BY <2>3, <2>4 DEF Balanced
<1>7. Balanced(u, pl, {n}, n)
  <2>1. \A f \in 1 .. Len(u) : u[f].rdb # n /\ u[f].content # n
    BY <1>1, <1>2, <1>3 DEF Linked
  <2>2. \A q \in Place : pl[q] # n
    BY <1>1, <1>3
  <2>3. RefsIn(u, pl, n) = {}
    <3>1. \A r : r \notin RefsIn(u, pl, n)
      BY <1>2, <1>3, <2>1, <2>2, RefsFacts
    <3> QED BY <3>1
  <2>4. Cardinality({}) = 0
    BY FS_EmptySet
  <2>5. u[n].lock = 1 /\ u[n].lost = 0 /\ u[n].frees = 0
    BY <1>2
  <2> QED BY <2>3, <2>4, <2>5 DEF Balanced
<1> QED BY <1>2, <1>3, <1>4, <1>5, <1>6, <1>7 DEF Sound, u, n

(* A place takes what is owed to it, or gives up what it has.              *)
LEMMA PlaceTakes ==
  ASSUME NEW t, NEW pl, NEW owed, Sound(t, pl, owed),
         NEW x \in 1 .. Len(t), x \in owed, NEW p \in Place, pl[p] = NULL
  PROVE  Sound(t, [pl EXCEPT ![p] = x], owed \ {x})
<1> DEFINE ql == [pl EXCEPT ![p] = x]
           debts == owed \ {x}
<1>1. /\ pl \in [Place -> (1 .. Len(t)) \cup {NULL}] /\ Len(t) \in Nat /\ NULL \notin Nat
      /\ Linked(t) /\ t \in Seq(Buf) /\ \A e \in 1 .. Len(t) : Balanced(t, pl, owed, e)
  BY SoundTypes
<1>2. /\ ql \in [Place -> (1 .. Len(t)) \cup {NULL}] /\ ql[p] = x
      /\ \A q \in Place : q # p => ql[q] = pl[q]
  BY <1>1
<1>3. x \notin debts /\ \A e \in 1 .. Len(t) : e # x => (e \in debts <=> e \in owed)
  OBVIOUS
<1> HIDE DEF ql, debts
<1>4. ASSUME NEW e \in 1 .. Len(t) PROVE Balanced(t, ql, debts, e)
  <2>1. Balanced(t, pl, owed, e)
    BY <1>1
  <2>2. {q \in Place : ql[q] = e} = {q \in Place : pl[q] = e} \cup (IF e = x THEN {p} ELSE {})
    BY <1>1, <1>2
  <2>3. CASE e = x
    <3>1. RefsIn(t, ql, e) = RefsIn(t, pl, e) \cup {p}
      BY <2>2, <2>3 DEF RefsIn
    <3>2. p \notin RefsIn(t, pl, e)
      <4>1. e # NULL /\ p \notin Nat \X {"rdb"} /\ p \notin Nat \X {"content"}
        BY <1>1, PlaceAssumption
      <4> QED BY <1>1, <4>1 DEF RefsIn
    <3>3. Cardinality(RefsIn(t, ql, e)) = Cardinality(RefsIn(t, pl, e)) + 1
      BY <1>1, <3>1, <3>2, RefComes
    <3>4. Cardinality(RefsIn(t, pl, e)) \in Nat /\ t[e].lost \in Nat
      BY <1>1, FiniteRefs, BufFields
    <3> QED BY <1>3, <2>1, <2>3, <3>3, <3>4 DEF Balanced
  <2>4. CASE e # x
    <3>1. RefsIn(t, ql, e) = RefsIn(t, pl, e)
      BY <2>2, <2>4 DEF RefsIn
    <3> QED BY <1>3, <2>1, <2>4, <3>1 DEF Balanced
  <2> QED BY <2>3, <2>4
<1> QED BY <1>1, <1>2, <1>4 DEF Sound, Typed, ql, debts

LEMMA PlaceDrops ==
  ASSUME NEW t, NEW pl, Sound(t, pl, {}), NEW p \in Place, pl[p] # NULL
  PROVE  Sound(t, [pl EXCEPT ![p] = NULL], {pl[p]})
<1> DEFINE ql == [pl EXCEPT ![p] = NULL]
           x == pl[p]
<1>1. /\ pl \in [Place -> (1 .. Len(t)) \cup {NULL}] /\ Len(t) \in Nat /\ NULL \notin Nat
      /\ Linked(t) /\ t \in Seq(Buf) /\ \A e \in 1 .. Len(t) : Balanced(t, pl, {}, e)
  BY SoundTypes
<1>2. /\ ql \in [Place -> (1 .. Len(t)) \cup {NULL}] /\ ql[p] = NULL /\ x \in 1 .. Len(t)
      /\ \A q \in Place : q # p => ql[q] = pl[q]
  BY <1>1
<1>3. pl[p] = x
  OBVIOUS
<1> HIDE DEF ql, x
<1>4. ASSUME NEW e \in 1 .. Len(t) PROVE Balanced(t, ql, {x}, e)
  <2>1. Balanced(t, pl, {}, e)
    BY <1>1
  <2>2. {q \in Place : ql[q] = e} = {q \in Place : pl[q] = e} \ (IF e = x THEN {p} ELSE {})
    BY <1>1, <1>2, <1>3
  <2>3. CASE e = x
    <3>1. p \notin Nat \X {"rdb"} /\ p \notin Nat \X {"content"}
      BY PlaceAssumption
    <3>2. RefsIn(t, ql, e) = RefsIn(t, pl, e) \ {p}
      BY <1>1, <2>2, <2>3, <3>1 DEF RefsIn
    <3>3. p \in RefsIn(t, pl, e)
      BY <1>3, <2>3 DEF RefsIn
    <3>4. Cardinality(RefsIn(t, ql, e)) = Cardinality(RefsIn(t, pl, e)) - 1
      BY <1>1, <3>2, <3>3, RefGoes
    <3>5. Cardinality(RefsIn(t, pl, e)) \in Nat /\ t[e].lost \in Nat
      BY <1>1, FiniteRefs, BufFields
    <3> QED BY <2>1, <2>3, <3>4, <3>5 DEF Balanced
  <2>4. CASE e # x
    <3>1. RefsIn(t, ql, e) = RefsIn(t, pl, e)
      BY <2>2, <2>4 DEF RefsIn
    <3> QED BY <2>1, <2>4, <3>1 DEF Balanced
  <2> QED BY <2>3, <2>4
<1> QED BY <1>1, <1>2, <1>4 DEF Sound, Typed, ql, x

-----------------------------------------------------------------------------
(* The two pointers of a connection's appdata. *)

LEMMA ContentTakes ==
  ASSUME NEW t, NEW pl, NEW owed, Sound(t, pl, owed),
         NEW d \in 1 .. Len(t), t[d].destructor, t[d].content = NULL,
         NEW x \in 1 .. Len(t), x \in owed, ~t[x].destructor
  PROVE  Sound([t EXCEPT ![d] = [t[d] EXCEPT !.content = x]], pl, owed \ {x})
<1> DEFINE b == [t[d] EXCEPT !.content = x]
           u == [t EXCEPT ![d] = b]
           debts == owed \ {x}
           r == <<d, "content">>
<1>1. /\ pl \in [Place -> (1 .. Len(t)) \cup {NULL}] /\ Len(t) \in Nat /\ NULL \notin Nat
      /\ Linked(t) /\ t \in Seq(Buf) /\ \A e \in 1 .. Len(t) : Balanced(t, pl, owed, e)
      /\ t[d] \in Buf
  BY SoundTypes
<1>2. /\ b \in Buf /\ b.content = x /\ b.rdb = t[d].rdb /\ b.destructor = t[d].destructor
      /\ b.lock = t[d].lock /\ b.lost = t[d].lost /\ b.frees = t[d].frees
  <2>1. x \in Nat
    BY <1>1
  <2> QED BY <1>1, <2>1 DEF Buf
<1> HIDE DEF b
<1>3. /\ u \in Seq(Buf) /\ Len(u) = Len(t) /\ u[d] = b
      /\ \A e \in 1 .. Len(t) : e # d => u[e] = t[e]
  BY <1>1, <1>2, TableExcept
<1>4. x \notin debts /\ \A e \in 1 .. Len(t) : e # x => (e \in debts <=> e \in owed)
  OBVIOUS
<1> HIDE DEF u, debts
<1>5. \A e \in 1 .. Len(t) :
        /\ u[e].rdb = t[e].rdb /\ u[e].destructor = t[e].destructor
        /\ u[e].lock = t[e].lock /\ u[e].lost = t[e].lost /\ u[e].frees = t[e].frees
        /\ e # d => u[e].content = t[e].content
  BY <1>2, <1>3
<1>6. Linked(u)
  BY <1>1, <1>2, <1>3, <1>5 DEF Linked
<1>7. ASSUME NEW e \in 1 .. Len(t) PROVE Balanced(u, pl, debts, e)
  <2>1. Balanced(t, pl, owed, e)
    BY <1>1
  <2>2. {f \in (1 .. Len(u)) \X {"rdb"} : u[f[1]].rdb = e}
          = {f \in (1 .. Len(t)) \X {"rdb"} : t[f[1]].rdb = e}
    BY <1>3, <1>5
  <2>3. {f \in (1 .. Len(u)) \X {"content"} : u[f[1]].content = e}
          = {f \in (1 .. Len(t)) \X {"content"} : t[f[1]].content = e}
              \cup (IF e = x THEN {r} ELSE {})
    BY <1>1, <1>2, <1>3, <1>5
  <2>4. CASE e = x
    <3>1. RefsIn(u, pl, e) = RefsIn(t, pl, e) \cup {r}
      BY <2>2, <2>3, <2>4 DEF RefsIn
    <3>2. r \notin RefsIn(t, pl, e)
      <4>1. d \in Nat /\ e \in Nat
        BY <1>1
      <4>2. e # NULL
        BY <1>1, <4>1
      <4>3. r \notin Place /\ \A f \in Nat : r # <<f, "rdb">>
        BY <4>1, NamesDistinct
      <4> QED BY <1>1, <4>2, <4>3, RefsFacts
    <3>3. Cardinality(RefsIn(u, pl, e)) = Cardinality(RefsIn(t, pl, e)) + 1
      BY <1>1, <3>1, <3>2, RefComes
    <3>4. Cardinality(RefsIn(t, pl, e)) \in Nat /\ t[e].lost \in Nat
      BY <1>1, FiniteRefs, SoundTypes, BufFields
    <3>5. u[e].lock = t[e].lock /\ u[e].lost = t[e].lost /\ u[e].frees = t[e].frees
      BY <1>5
    <3> QED BY <1>4, <2>1, <2>4, <3>3, <3>4, <3>5 DEF Balanced
  <2>5. CASE e # x
    <3>1. RefsIn(u, pl, e) = RefsIn(t, pl, e)
      BY <2>2, <2>3, <2>5 DEF RefsIn
    <3> QED BY <1>4, <1>5, <2>1, <2>5, <3>1 DEF Balanced
  <2> QED BY <2>4, <2>5
<1> QED BY <1>1, <1>3, <1>6, <1>7 DEF Sound, Typed, u, b, debts

LEMMA ContentDrops ==
  ASSUME NEW t, NEW pl, NEW owed, Sound(t, pl, owed),
         NEW d \in 1 .. Len(t), t[d].content # NULL, t[d].content \notin owed
  PROVE  Sound([t EXCEPT ![d] = [t[d] EXCEPT !.content = NULL]], pl, owed \cup {t[d].content})
<1> DEFINE b == [t[d] EXCEPT !.content = NULL]
           u == [t EXCEPT ![d] = b]
           x == t[d].content
           debts == owed \cup {x}
           r == <<d, "content">>
<1>1. /\ pl \in [Place -> (1 .. Len(t)) \cup {NULL}] /\ Len(t) \in Nat /\ NULL \notin Nat
      /\ Linked(t) /\ t \in Seq(Buf) /\ \A e \in 1 .. Len(t) : Balanced(t, pl, owed, e)
      /\ t[d] \in Buf
  BY SoundTypes
<1>2. /\ b \in Buf /\ b.content = NULL /\ b.rdb = t[d].rdb /\ b.destructor = t[d].destructor
      /\ b.lock = t[d].lock /\ b.lost = t[d].lost /\ b.frees = t[d].frees
  BY <1>1 DEF Buf
<1> HIDE DEF b
<1>3. /\ u \in Seq(Buf) /\ Len(u) = Len(t) /\ u[d] = b
      /\ \A e \in 1 .. Len(t) : e # d => u[e] = t[e]
  BY <1>1, <1>2, TableExcept
<1>4. x \notin owed /\ x \in debts /\ \A e \in 1 .. Len(t) : e # x => (e \in debts <=> e \in owed)
  OBVIOUS
<1>8. x \in 1 .. Len(t) /\ t[d].content = x
  BY <1>1 DEF Linked
<1> HIDE DEF u, debts, x
<1>5. \A e \in 1 .. Len(t) :
        /\ u[e].rdb = t[e].rdb /\ u[e].destructor = t[e].destructor
        /\ u[e].lock = t[e].lock /\ u[e].lost = t[e].lost /\ u[e].frees = t[e].frees
        /\ e # d => u[e].content = t[e].content
  BY <1>2, <1>3
<1>6. Linked(u)
  BY <1>1, <1>2, <1>3, <1>5 DEF Linked
<1>7. ASSUME NEW e \in 1 .. Len(t) PROVE Balanced(u, pl, debts, e)
  <2>1. Balanced(t, pl, owed, e)
    BY <1>1
  <2>2. {f \in (1 .. Len(u)) \X {"rdb"} : u[f[1]].rdb = e}
          = {f \in (1 .. Len(t)) \X {"rdb"} : t[f[1]].rdb = e}
    BY <1>3, <1>5
  <2>3. {f \in (1 .. Len(u)) \X {"content"} : u[f[1]].content = e}
          = {f \in (1 .. Len(t)) \X {"content"} : t[f[1]].content = e}
              \ (IF e = x THEN {r} ELSE {})
    BY <1>1, <1>2, <1>3, <1>5, <1>8
  <2>4. CASE e = x
    <3>1. RefsIn(u, pl, e) = RefsIn(t, pl, e) \ {r}
      <4>1. d \in Nat
        BY <1>1
      <4>2. r \notin Place /\ \A f \in Nat : r # <<f, "rdb">>
        BY <4>1, NamesDistinct
      <4>3. r \notin {f \in (1 .. Len(t)) \X {"rdb"} : t[f[1]].rdb = e}
        BY <1>1, <4>2
      <4> QED BY <2>2, <2>3, <2>4, <4>2, <4>3 DEF RefsIn
    <3>2. r \in RefsIn(t, pl, e)
      BY <1>8, <2>4 DEF RefsIn
    <3>3. Cardinality(RefsIn(u, pl, e)) = Cardinality(RefsIn(t, pl, e)) - 1
      BY <1>1, <3>1, <3>2, RefGoes
    <3>4. Cardinality(RefsIn(t, pl, e)) \in Nat /\ t[e].lost \in Nat
      BY <1>1, FiniteRefs, SoundTypes, BufFields
    <3>5. u[e].lock = t[e].lock /\ u[e].lost = t[e].lost /\ u[e].frees = t[e].frees
      BY <1>5
    <3>6. e \in debts /\ e \notin owed
      BY <1>4, <2>4
    <3>7. t[e].lock = Cardinality(RefsIn(t, pl, e)) + t[e].lost + 0
      BY <2>1, <3>4, <3>6 DEF Balanced
    <3>8. (IF e \in debts THEN 1 ELSE 0) = 1
      BY <3>6
    <3>9. t[e].frees = IF t[e].lock = 0 THEN 1 ELSE 0
      BY <2>1 DEF Balanced
    <3> QED BY <3>3, <3>4, <3>5, <3>7, <3>8, <3>9 DEF Balanced
  <2>5. CASE e # x
    <3>1. RefsIn(u, pl, e) = RefsIn(t, pl, e)
      BY <2>2, <2>3, <2>5 DEF RefsIn
    <3> QED BY <1>4, <1>5, <2>1, <2>5, <3>1 DEF Balanced
  <2> QED BY <2>4, <2>5
<1> QED BY <1>1, <1>3, <1>6, <1>7 DEF Sound, Typed, u, b, debts, x

LEMMA RdbTakes ==
  ASSUME NEW t, NEW pl, NEW owed, Sound(t, pl, owed),
         NEW d \in 1 .. Len(t), t[d].destructor, t[d].rdb = NULL,
         NEW x \in 1 .. Len(t), x \in owed, ~t[x].destructor
  PROVE  Sound([t EXCEPT ![d] = [t[d] EXCEPT !.rdb = x]], pl, owed \ {x})
<1> DEFINE b == [t[d] EXCEPT !.rdb = x]
           u == [t EXCEPT ![d] = b]
           debts == owed \ {x}
           r == <<d, "rdb">>
<1>1. /\ pl \in [Place -> (1 .. Len(t)) \cup {NULL}] /\ Len(t) \in Nat /\ NULL \notin Nat
      /\ Linked(t) /\ t \in Seq(Buf) /\ \A e \in 1 .. Len(t) : Balanced(t, pl, owed, e)
      /\ t[d] \in Buf
  BY SoundTypes
<1>2. /\ b \in Buf /\ b.rdb = x /\ b.content = t[d].content /\ b.destructor = t[d].destructor
      /\ b.lock = t[d].lock /\ b.lost = t[d].lost /\ b.frees = t[d].frees
  <2>1. x \in Nat
    BY <1>1
  <2> QED BY <1>1, <2>1 DEF Buf
<1> HIDE DEF b
<1>3. /\ u \in Seq(Buf) /\ Len(u) = Len(t) /\ u[d] = b
      /\ \A e \in 1 .. Len(t) : e # d => u[e] = t[e]
  BY <1>1, <1>2, TableExcept
<1>4. x \notin debts /\ \A e \in 1 .. Len(t) : e # x => (e \in debts <=> e \in owed)
  OBVIOUS
<1> HIDE DEF u, debts
<1>5. \A e \in 1 .. Len(t) :
        /\ u[e].content = t[e].content /\ u[e].destructor = t[e].destructor
        /\ u[e].lock = t[e].lock /\ u[e].lost = t[e].lost /\ u[e].frees = t[e].frees
        /\ e # d => u[e].rdb = t[e].rdb
  BY <1>2, <1>3
<1>6. Linked(u)
  BY <1>1, <1>2, <1>3, <1>5 DEF Linked
<1>7. ASSUME NEW e \in 1 .. Len(t) PROVE Balanced(u, pl, debts, e)
  <2>1. Balanced(t, pl, owed, e)
    BY <1>1
  <2>2. {f \in (1 .. Len(u)) \X {"content"} : u[f[1]].content = e}
          = {f \in (1 .. Len(t)) \X {"content"} : t[f[1]].content = e}
    BY <1>3, <1>5
  <2>3. {f \in (1 .. Len(u)) \X {"rdb"} : u[f[1]].rdb = e}
          = {f \in (1 .. Len(t)) \X {"rdb"} : t[f[1]].rdb = e}
              \cup (IF e = x THEN {r} ELSE {})
    BY <1>1, <1>2, <1>3, <1>5
  <2>4. CASE e = x
    <3>1. RefsIn(u, pl, e) = RefsIn(t, pl, e) \cup {r}
      BY <2>2, <2>3, <2>4 DEF RefsIn
    <3>2. r \notin RefsIn(t, pl, e)
      <4>1. d \in Nat /\ e \in Nat
        BY <1>1
      <4>2. e # NULL
        BY <1>1, <4>1
      <4>3. r \notin Place /\ \A f \in Nat : r # <<f, "content">>
        BY <4>1, NamesDistinct
      <4> QED BY <1>1, <4>2, <4>3, RefsFacts
    <3>3. Cardinality(RefsIn(u, pl, e)) = Cardinality(RefsIn(t, pl, e)) + 1
      BY <1>1, <3>1, <3>2, RefComes
    <3>4. Cardinality(RefsIn(t, pl, e)) \in Nat /\ t[e].lost \in Nat
      BY <1>1, FiniteRefs, SoundTypes, BufFields
    <3>5. u[e].lock = t[e].lock /\ u[e].lost = t[e].lost /\ u[e].frees = t[e].frees
      BY <1>5
    <3> QED BY <1>4, <2>1, <2>4, <3>3, <3>4, <3>5 DEF Balanced
  <2>5. CASE e # x
    <3>1. RefsIn(u, pl, e) = RefsIn(t, pl, e)
      BY <2>2, <2>3, <2>5 DEF RefsIn
    <3> QED BY <1>4, <1>5, <2>1, <2>5, <3>1 DEF Balanced
  <2> QED BY <2>4, <2>5
<1> QED BY <1>1, <1>3, <1>6, <1>7 DEF Sound, Typed, u, b, debts

LEMMA RdbDrops ==
  ASSUME NEW t, NEW pl, NEW owed, Sound(t, pl, owed),
         NEW d \in 1 .. Len(t), t[d].rdb # NULL, t[d].rdb \notin owed
  PROVE  Sound([t EXCEPT ![d] = [t[d] EXCEPT !.rdb = NULL]], pl, owed \cup {t[d].rdb})
<1> DEFINE b == [t[d] EXCEPT !.rdb = NULL]
           u == [t EXCEPT ![d] = b]
           x == t[d].rdb
           debts == owed \cup {x}
           r == <<d, "rdb">>
<1>1. /\ pl \in [Place -> (1 .. Len(t)) \cup {NULL}] /\ Len(t) \in Nat /\ NULL \notin Nat
      /\ Linked(t) /\ t \in Seq(Buf) /\ \A e \in 1 .. Len(t) : Balanced(t, pl, owed, e)
      /\ t[d] \in Buf
  BY SoundTypes
<1>2. /\ b \in Buf /\ b.rdb = NULL /\ b.content = t[d].content /\ b.destructor = t[d].destructor
      /\ b.lock = t[d].lock /\ b.lost = t[d].lost /\ b.frees = t[d].frees
  BY <1>1 DEF Buf
<1> HIDE DEF b
<1>3. /\ u \in Seq(Buf) /\ Len(u) = Len(t) /\ u[d] = b
      /\ \A e \in 1 .. Len(t) : e # d => u[e] = t[e]
  BY <1>1, <1>2, TableExcept
<1>4. x \notin owed /\ x \in debts /\ \A e \in 1 .. Len(t) : e # x => (e \in debts <=> e \in owed)
  OBVIOUS
<1>8. x \in 1 .. Len(t) /\ t[d].rdb = x
  BY <1>1 DEF Linked
<1> HIDE DEF u, debts, x
<1>5. \A e \in 1 .. Len(t) :
        /\ u[e].content = t[e].content /\ u[e].destructor = t[e].destructor
        /\ u[e].lock = t[e].lock /\ u[e].lost = t[e].lost /\ u[e].frees = t[e].frees
        /\ e # d => u[e].rdb = t[e].rdb
  BY <1>2, <1>3
<1>6. Linked(u)
  BY <1>1, <1>2, <1>3, <1>5 DEF Linked
<1>7. ASSUME NEW e \in 1 .. Len(t) PROVE Balanced(u, pl, debts, e)
  <2>1. Balanced(t, pl, owed, e)
    BY <1>1
  <2>2. {f \in (1 .. Len(u)) \X {"content"} : u[f[1]].content = e}
          = {f \in (1 .. Len(t)) \X {"content"} : t[f[1]].content = e}
    BY <1>3, <1>5
  <2>3. {f \in (1 .. Len(u)) \X {"rdb"} : u[f[1]].rdb = e}
          = {f \in (1 .. Len(t)) \X {"rdb"} : t[f[1]].rdb = e}
              \ (IF e = x THEN {r} ELSE {})
    BY <1>1, <1>2, <1>3, <1>5, <1>8
  <2>4. CASE e = x
    <3>1. RefsIn(u, pl, e) = RefsIn(t, pl, e) \ {r}
      <4>1. d \in Nat
        BY <1>1
      <4>2. r \notin Place /\ \A f \in Nat : r # <<f, "content">>
        BY <4>1, NamesDistinct
      <4>3. r \notin {f \in (1 .. Len(t)) \X {"content"} : t[f[1]].content = e}
        BY <1>1, <4>2
      <4> QED BY <2>2, <2>3, <2>4, <4>2, <4>3 DEF RefsIn
    <3>2. r \in RefsIn(t, pl, e)
      BY <1>8, <2>4 DEF RefsIn
    <3>3. Cardinality(RefsIn(u, pl, e)) = Cardinality(RefsIn(t, pl, e)) - 1
      BY <1>1, <3>1, <3>2, RefGoes
    <3>4. Cardinality(RefsIn(t, pl, e)) \in Nat /\ t[e].lost \in Nat
      BY <1>1, FiniteRefs, SoundTypes, BufFields
    <3>5. u[e].lock = t[e].lock /\ u[e].lost = t[e].lost /\ u[e].frees = t[e].frees
      BY <1>5
    <3>6. e \in debts /\ e \notin owed
      BY <1>4, <2>4
    <3>7. t[e].lock = Cardinality(RefsIn(t, pl, e)) + t[e].lost + 0
      BY <2>1, <3>4, <3>6 DEF Balanced
    <3>8. (IF e \in debts THEN 1 ELSE 0) = 1
      BY <3>6
    <3>9. t[e].frees = IF t[e].lock = 0 THEN 1 ELSE 0
      BY <2>1 DEF Balanced
    <3> QED BY <3>3, <3>4, <3>5, <3>7, <3>8, <3>9 DEF Balanced
  <2>5. CASE e # x
    <3>1. RefsIn(u, pl, e) = RefsIn(t, pl, e)
      BY <2>2, <2>3, <2>5 DEF RefsIn
    <3> QED BY <1>4, <1>5, <2>1, <2>5, <3>1 DEF Balanced
  <2> QED BY <2>4, <2>5
<1> QED BY <1>1, <1>3, <1>6, <1>7 DEF Sound, Typed, u, b, debts, x

-----------------------------------------------------------------------------
(* Paying what is owed. *)

LEMMA SetLock ==
  ASSUME NEW b \in Buf, NEW n \in Nat
  PROVE  LET c == [b EXCEPT !.lock = n]
         IN  /\ c \in Buf /\ c.lock = n /\ c.rdb = b.rdb /\ c.content = b.content
             /\ c.destructor = b.destructor /\ c.lost = b.lost /\ c.frees = b.frees
BY DEF Buf

LEMMA SetLost ==
  ASSUME NEW b \in Buf, NEW n \in Nat
  PROVE  LET c == [b EXCEPT !.lost = n]
         IN  /\ c \in Buf /\ c.lost = n /\ c.rdb = b.rdb /\ c.content = b.content
             /\ c.destructor = b.destructor /\ c.lock = b.lock /\ c.frees = b.frees
BY DEF Buf

(* An own reference is counted before somebody has it.                     *)
LEMMA LockOwes ==
  ASSUME NEW t, NEW pl, Sound(t, pl, {}), NEW d \in 1 .. Len(t), t[d].lock > 0
  PROVE  Sound([t EXCEPT ![d] = [t[d] EXCEPT !.lock = @ + 1]], pl, {d})
<1> DEFINE b == [t[d] EXCEPT !.lock = @ + 1]
<1>1. t[d] \in Buf /\ Balanced(t, pl, {}, d)
  BY SoundTypes
<1>2. t[d].lock \in Nat /\ t[d].lost \in Nat /\ t[d].frees = 0
  BY <1>1, BufFields DEF Balanced
<1>3. /\ b \in Buf /\ b.rdb = t[d].rdb /\ b.content = t[d].content
      /\ b.destructor = t[d].destructor /\ b.lost = t[d].lost
      /\ b.lock = t[d].lock + 1 /\ b.frees = 0
  <2>1. t[d].lock + 1 \in Nat
    BY <1>2
  <2> QED BY <1>1, <1>2, <2>1, SetLock
<1> HIDE DEF b
<1>4. /\ b.lock - t[d].lock = b.lost - t[d].lost
                                + (IF d \in {d} THEN 1 ELSE 0) - (IF d \in {} THEN 1 ELSE 0)
      /\ b.frees = IF b.lock = 0 THEN 1 ELSE 0
  BY <1>2, <1>3
<1>5. \A e \in 1 .. Len(t) : e # d => (e \in {d} <=> e \in {})
  OBVIOUS
<1> DEFINE debts == {d}
           owed == {}
<1>6. /\ Sound(t, pl, owed)
      /\ \A e \in 1 .. Len(t) : e # d => (e \in debts <=> e \in owed)
      /\ b.lock - t[d].lock = b.lost - t[d].lost
                                + (IF d \in debts THEN 1 ELSE 0) - (IF d \in owed THEN 1 ELSE 0)
  BY <1>4, <1>5
<1> HIDE DEF debts, owed
<1>7. Sound([t EXCEPT ![d] = b], pl, debts)
  BY <1>3, <1>4, <1>6, CountSound
<1> QED BY <1>7 DEF b, debts

(* A pointer that is forgotten is paid for never.                          *)
LEMMA LossPays ==
  ASSUME NEW t, NEW pl, NEW owed, Sound(t, pl, owed), NEW d \in 1 .. Len(t), d \in owed
  PROVE  Sound([t EXCEPT ![d] = [t[d] EXCEPT !.lost = @ + 1]], pl, owed \ {d})
<1> DEFINE b == [t[d] EXCEPT !.lost = @ + 1]
           debts == owed \ {d}
<1>1. t[d] \in Buf /\ Balanced(t, pl, owed, d)
  BY SoundTypes
<1>2. /\ t[d].lock \in Nat /\ t[d].lost \in Nat
      /\ t[d].frees = IF t[d].lock = 0 THEN 1 ELSE 0
  BY <1>1, BufFields DEF Balanced
<1>3. /\ b \in Buf /\ b.rdb = t[d].rdb /\ b.content = t[d].content
      /\ b.destructor = t[d].destructor /\ b.lost = t[d].lost + 1
      /\ b.lock = t[d].lock /\ b.frees = t[d].frees
  <2>1. t[d].lost + 1 \in Nat
    BY <1>2
  <2> QED BY <1>1, <1>2, <2>1, SetLost
<1> HIDE DEF b
<1>4. /\ d \notin debts /\ \A e \in 1 .. Len(t) : e # d => (e \in debts <=> e \in owed)
  OBVIOUS
<1> HIDE DEF debts
<1>5. /\ b.lock - t[d].lock = b.lost - t[d].lost
                                + (IF d \in debts THEN 1 ELSE 0) - (IF d \in owed THEN 1 ELSE 0)
      /\ b.frees = IF b.lock = 0 THEN 1 ELSE 0
  BY <1>2, <1>3, <1>4
<1>6. Sound([t EXCEPT ![d] = b], pl, debts)
  BY <1>3, <1>4, <1>5, CountSound
<1> QED BY <1>6 DEF b, debts

LEMMA FreedFacts ==
  ASSUME NEW b \in Buf, b.lock = 1
  PROVE  /\ Freed(b) \in Buf /\ Freed(b).lock = 0 /\ Freed(b).lost = b.lost
         /\ Freed(b).frees = b.frees + 1 /\ ~Freed(b).destructor
         /\ Freed(b).rdb = NULL /\ Freed(b).content = NULL
         /\ Freed(b).data = <<>> /\ Freed(b).dsize = 0 /\ Freed(b).meant = <<>>
         /\ ~Freed(b).string /\ ~Freed(b).spoilt
<1>1. /\ Freed(b).lock = 0 /\ Freed(b).lost = b.lost /\ Freed(b).frees = b.frees + 1
      /\ Freed(b).rdb = NULL /\ Freed(b).content = NULL
      /\ Freed(b).data = <<>> /\ Freed(b).dsize = 0 /\ Freed(b).meant = <<>>
  BY DEF Freed, Fresh
<1>2. ~Freed(b).destructor /\ ~Freed(b).string /\ ~Freed(b).spoilt
  BY DEF Freed, Fresh
<1>3. Freed(b) \in Buf
  <2> DEFINE f == Fresh(<<>>, 0, <<>>, FALSE)
             l == b.lock - 1
             m == b.lost
             n == b.frees + 1
  <2>1. l \in Nat /\ m \in Nat /\ n \in Nat
    BY BufFields
  <2>2. f \in Buf
    BY DEF Fresh, Buf
  <2>3. Freed(b) = [f EXCEPT !.lock = l, !.lost = m, !.frees = n]
    BY Zenon DEF Freed
  <2> HIDE DEF f, l, m, n
  <2> QED BY <2>1, <2>2, <2>3 DEF Buf
<1> QED BY <1>1, <1>2, <1>3

(* A buffer that is freed when its one count was owed has no references.   *)
LEMMA FreePays ==
  ASSUME NEW t, NEW pl, NEW owed, Sound(t, pl, owed), NEW d \in 1 .. Len(t), d \in owed,
         t[d].lock = 1, t[d].rdb = NULL, t[d].content = NULL
  PROVE  Sound([t EXCEPT ![d] = Freed(t[d])], pl, owed \ {d})
<1> DEFINE b == Freed(t[d])
           u == [t EXCEPT ![d] = b]
           debts == owed \ {d}
<1>1. /\ pl \in [Place -> (1 .. Len(t)) \cup {NULL}] /\ Len(t) \in Nat /\ NULL \notin Nat
      /\ Linked(t) /\ t \in Seq(Buf) /\ \A e \in 1 .. Len(t) : Balanced(t, pl, owed, e)
      /\ t[d] \in Buf
  BY SoundTypes
<1>2. /\ b \in Buf /\ b.lock = 0 /\ b.lost = t[d].lost /\ b.frees = t[d].frees + 1
      /\ ~b.destructor /\ b.rdb = NULL /\ b.content = NULL
  BY <1>1, FreedFacts
<1> HIDE DEF b
<1>3. /\ u \in Seq(Buf) /\ Len(u) = Len(t) /\ u[d] = b
      /\ \A e \in 1 .. Len(t) : e # d => u[e] = t[e]
  BY <1>1, <1>2, TableExcept
<1>4. d \notin debts /\ \A e \in 1 .. Len(t) : e # d => (e \in debts <=> e \in owed)
  OBVIOUS
<1> HIDE DEF u, debts
<1>5. \A e \in 1 .. Len(t) : u[e].rdb = t[e].rdb /\ u[e].content = t[e].content
  BY <1>2, <1>3
<1>6. Linked(u)
  BY <1>1, <1>2, <1>3, <1>5 DEF Linked
<1>7. ASSUME NEW e \in 1 .. Len(t) PROVE Balanced(u, pl, debts, e)
  <2>1. RefsIn(u, pl, e) = RefsIn(t, pl, e)
    BY <1>1, <1>3, <1>5, SamePointers
  <2>2. Balanced(t, pl, owed, e)
    BY <1>1
  <2>3. CASE e # d
    BY <1>3, <1>4, <2>1, <2>2, <2>3 DEF Balanced
  <2>4. CASE e = d
    <3>1. Cardinality(RefsIn(t, pl, e)) \in Nat /\ t[e].lost \in Nat
      BY <1>1, <2>4, FiniteRefs, BufFields
    <3>2. Cardinality(RefsIn(t, pl, e)) = 0 /\ t[e].lost = 0 /\ t[e].frees = 0
      BY <2>2, <2>4, <3>1 DEF Balanced
    <3> QED BY <1>2, <1>3, <1>4, <2>1, <2>4, <3>2 DEF Balanced
  <2> QED BY <2>3, <2>4
<1> QED BY <1>1, <1>3, <1>6, <1>7 DEF Sound, Typed, u, b, debts

LEMMA LessPays ==
  ASSUME NEW t, NEW pl, NEW owed, Sound(t, pl, owed), NEW d \in 1 .. Len(t), d \in owed,
         t[d].lock = 1 => t[d].rdb = NULL /\ t[d].content = NULL
  PROVE  Sound(Less(t, d), pl, owed \ {d})
<1>1. t[d] \in Buf /\ Balanced(t, pl, owed, d) /\ t \in Seq(Buf) /\ Len(t) \in Nat
  BY SoundTypes
<1>2. /\ t[d].lock \in Nat /\ t[d].lost \in Nat
      /\ t[d].frees = IF t[d].lock = 0 THEN 1 ELSE 0
      /\ t[d].lock > 0
  <2>1. Cardinality(RefsIn(t, pl, d)) \in Nat
    BY <1>1, FiniteRefs
  <2> QED BY <1>1, <2>1, BufFields DEF Balanced
<1>3. CASE t[d].lock = 1
  <2>1. Less(t, d) = [t EXCEPT ![d] = Freed(t[d])]
    <3>1. Less(t, d) = [t EXCEPT ![d] = IF t[d].lock = 1 THEN Freed(t[d])
                                        ELSE [t[d] EXCEPT !.lock = @ - 1]]
      BY DEF Less
    <3> QED BY <1>3, <3>1, Zenon
  <2>2. Sound([t EXCEPT ![d] = Freed(t[d])], pl, owed \ {d})
    BY <1>3, FreePays
  <2> QED BY <2>1, <2>2
<1>4. CASE t[d].lock # 1
  <2> DEFINE b == [t[d] EXCEPT !.lock = @ - 1]
             debts == owed \ {d}
  <2>1. Less(t, d) = [t EXCEPT ![d] = b]
    <3>1. Less(t, d) = [t EXCEPT ![d] = IF t[d].lock = 1 THEN Freed(t[d]) ELSE b]
      BY DEF Less
    <3> HIDE DEF b
    <3> QED BY <1>4, <3>1, Zenon
  <2>2. /\ b \in Buf /\ b.rdb = t[d].rdb /\ b.content = t[d].content
        /\ b.destructor = t[d].destructor /\ b.lost = t[d].lost
        /\ b.lock = t[d].lock - 1 /\ b.lock > 0 /\ b.frees = 0
    <3>1. t[d].lock - 1 \in Nat /\ t[d].lock - 1 > 0
      BY <1>2, <1>4
    <3> QED BY <1>1, <1>2, <3>1, SetLock
  <2> HIDE DEF b
  <2>3. d \notin debts /\ \A e \in 1 .. Len(t) : e # d => (e \in debts <=> e \in owed)
    OBVIOUS
  <2> HIDE DEF debts
  <2>4. /\ b.lock - t[d].lock = b.lost - t[d].lost
                                  + (IF d \in debts THEN 1 ELSE 0) - (IF d \in owed THEN 1 ELSE 0)
        /\ b.frees = IF b.lock = 0 THEN 1 ELSE 0
    BY <1>2, <2>2, <2>3
  <2>5. Sound([t EXCEPT ![d] = b], pl, debts)
    BY <2>2, <2>3, <2>4, CountSound
  <2> QED BY <2>1, <2>5 DEF debts
<1> QED BY <1>3, <1>4

-----------------------------------------------------------------------------
(* The operations, made of those steps. *)

LEMMA TablesEqual ==
  ASSUME NEW t \in Seq(Buf), NEW u \in Seq(Buf), Len(t) = Len(u),
         \A e \in 1 .. Len(t) : t[e] = u[e]
  PROVE  t = u
BY SeqEqual

LEMMA ForgottenFacts ==
  ASSUME NEW t \in Seq(Buf), NEW d, d # NULL => d \in 1 .. Len(t)
  PROVE  /\ Forgotten(t, d) \in Seq(Buf) /\ Len(Forgotten(t, d)) = Len(t)
         /\ \A e \in 1 .. Len(t) : Forgotten(t, d)[e] =
              IF e = d THEN [t[e] EXCEPT !.lost = @ + 1] ELSE t[e]
<1>1. CASE d = NULL
  <2>1. Forgotten(t, d) = t
    BY <1>1 DEF Forgotten
  <2>2. \A e \in 1 .. Len(t) : e # d
    BY <1>1, NullAssumption
  <2> QED BY <2>1, <2>2
<1>2. CASE d # NULL
  <2> DEFINE b == [t[d] EXCEPT !.lost = @ + 1]
  <2>1. Forgotten(t, d) = [t EXCEPT ![d] = b]
    BY <1>2 DEF Forgotten
  <2>2. t[d] \in Buf /\ t[d].lost + 1 \in Nat
    BY <1>2, BufFields
  <2>3. b \in Buf
    BY <2>2, SetLost
  <2>4. \A e \in 1 .. Len(t) : e = d => b = [t[e] EXCEPT !.lost = @ + 1]
    OBVIOUS
  <2> HIDE DEF b
  <2> QED BY <1>2, <2>1, <2>3, <2>4, TableExcept
<1> QED BY <1>1, <1>2

(* The count of what is forgotten moves from the references to the lost.   *)
LEMMA ContentForgotten ==
  ASSUME NEW t, NEW pl, NEW owed, Sound(t, pl, owed),
         NEW d \in 1 .. Len(t), t[d].content \notin owed
  PROVE  \E u : /\ Sound(u, pl, owed) /\ Len(u) = Len(t)
                /\ u[d] = [t[d] EXCEPT !.content = NULL]
                /\ \A e \in 1 .. Len(t) : e # d => u[e] = Forgotten(t, t[d].content)[e]
<1> DEFINE c == t[d].content
           b == [t[d] EXCEPT !.content = NULL]
           u1 == [t EXCEPT ![d] = b]
           u == [u1 EXCEPT ![c] = [u1[c] EXCEPT !.lost = @ + 1]]
<1>1. t \in Seq(Buf) /\ t[d] \in Buf /\ Linked(t) /\ Len(t) \in Nat /\ NULL \notin Nat
  BY SoundTypes
<1>2. CASE c = NULL
  <2>1. b = t[d]
    BY <1>1, <1>2 DEF Buf
  <2>2. \A e \in 1 .. Len(t) : Forgotten(t, c)[e] = t[e]
    BY <1>2 DEF Forgotten
  <2> QED BY <2>1, <2>2
<1>3. CASE c # NULL
  <2>1. c \in 1 .. Len(t) /\ c # d
    BY <1>1, <1>3 DEF Linked
  <2>2. b \in Buf
    BY <1>1 DEF Buf
  <2>3. Sound(u1, pl, owed \cup {c})
    BY <1>3, ContentDrops
  <2>4. /\ u1 \in Seq(Buf) /\ Len(u1) = Len(t) /\ u1[d] = b
        /\ \A e \in 1 .. Len(t) : e # d => u1[e] = t[e]
    BY <1>1, <2>2, TableExcept
  <2>5. c \notin owed /\ (owed \cup {c}) \ {c} = owed
    OBVIOUS
  <2>9. t[d].content = c
    OBVIOUS
  <2> HIDE DEF u1, b, c
  <2>6. Sound(u, pl, owed)
    <3>1. c \in owed \cup {c} /\ c \in 1 .. Len(u1)
      BY <2>1, <2>4
    <3>2. Sound(u, pl, (owed \cup {c}) \ {c})
      BY <2>3, <3>1, LossPays
    <3> QED BY <2>5, <3>2
  <2>7. /\ Len(u) = Len(t) /\ u[c] = [t[c] EXCEPT !.lost = @ + 1]
        /\ \A e \in 1 .. Len(t) : e # c => u[e] = u1[e]
    <3>1. u1[c] \in Buf /\ u1[c].lost + 1 \in Nat /\ u1[c] = t[c]
      BY <2>1, <2>4, BufFields
    <3>2. [u1[c] EXCEPT !.lost = @ + 1] \in Buf
      BY <3>1, SetLost
    <3> QED BY <2>1, <2>4, <3>1, <3>2, TableExcept
  <2> HIDE DEF u
  <2>8. \A e \in 1 .. Len(t) : e # d => u[e] = Forgotten(t, c)[e]
    <3>1. ASSUME NEW e \in 1 .. Len(t), e # d PROVE u[e] = Forgotten(t, c)[e]
      <4>1. Forgotten(t, c)[e] = IF e = c THEN [t[e] EXCEPT !.lost = @ + 1] ELSE t[e]
        BY <1>1, <2>1, ForgottenFacts
      <4>2. CASE e = c
        BY <2>7, <4>1, <4>2
      <4>3. CASE e # c
        BY <2>4, <2>7, <3>1, <4>1, <4>3
      <4> QED BY <4>2, <4>3
    <3> QED BY <3>1
  <2> QED BY <2>1, <2>4, <2>6, <2>7, <2>8, <2>9 DEF b
<1> QED BY <1>2, <1>3

LEMMA RdbForgotten ==
  ASSUME NEW t, NEW pl, NEW owed, Sound(t, pl, owed),
         NEW d \in 1 .. Len(t), t[d].rdb \notin owed
  PROVE  \E u : /\ Sound(u, pl, owed) /\ Len(u) = Len(t)
                /\ u[d] = [t[d] EXCEPT !.rdb = NULL]
                /\ \A e \in 1 .. Len(t) : e # d => u[e] = Forgotten(t, t[d].rdb)[e]
<1> DEFINE c == t[d].rdb
           b == [t[d] EXCEPT !.rdb = NULL]
           u1 == [t EXCEPT ![d] = b]
           u == [u1 EXCEPT ![c] = [u1[c] EXCEPT !.lost = @ + 1]]
<1>1. t \in Seq(Buf) /\ t[d] \in Buf /\ Linked(t) /\ Len(t) \in Nat /\ NULL \notin Nat
  BY SoundTypes
<1>2. CASE c = NULL
  <2>1. b = t[d]
    BY <1>1, <1>2 DEF Buf
  <2>2. \A e \in 1 .. Len(t) : Forgotten(t, c)[e] = t[e]
    BY <1>2 DEF Forgotten
  <2> QED BY <2>1, <2>2
<1>3. CASE c # NULL
  <2>1. c \in 1 .. Len(t) /\ c # d
    BY <1>1, <1>3 DEF Linked
  <2>2. b \in Buf
    BY <1>1 DEF Buf
  <2>3. Sound(u1, pl, owed \cup {c})
    BY <1>3, RdbDrops
  <2>4. /\ u1 \in Seq(Buf) /\ Len(u1) = Len(t) /\ u1[d] = b
        /\ \A e \in 1 .. Len(t) : e # d => u1[e] = t[e]
    BY <1>1, <2>2, TableExcept
  <2>5. c \notin owed /\ (owed \cup {c}) \ {c} = owed
    OBVIOUS
  <2>9. t[d].rdb = c
    OBVIOUS
  <2> HIDE DEF u1, b, c
  <2>6. Sound(u, pl, owed)
    <3>1. c \in owed \cup {c} /\ c \in 1 .. Len(u1)
      BY <2>1, <2>4
    <3>2. Sound(u, pl, (owed \cup {c}) \ {c})
      BY <2>3, <3>1, LossPays
    <3> QED BY <2>5, <3>2
  <2>7. /\ Len(u) = Len(t) /\ u[c] = [t[c] EXCEPT !.lost = @ + 1]
        /\ \A e \in 1 .. Len(t) : e # c => u[e] = u1[e]
    <3>1. u1[c] \in Buf /\ u1[c].lost + 1 \in Nat /\ u1[c] = t[c]
      BY <2>1, <2>4, BufFields
    <3>2. [u1[c] EXCEPT !.lost = @ + 1] \in Buf
      BY <3>1, SetLost
    <3> QED BY <2>1, <2>4, <3>1, <3>2, TableExcept
  <2> HIDE DEF u
  <2>8. \A e \in 1 .. Len(t) : e # d => u[e] = Forgotten(t, c)[e]
    <3>1. ASSUME NEW e \in 1 .. Len(t), e # d PROVE u[e] = Forgotten(t, c)[e]
      <4>1. Forgotten(t, c)[e] = IF e = c THEN [t[e] EXCEPT !.lost = @ + 1] ELSE t[e]
        BY <1>1, <2>1, ForgottenFacts
      <4>2. CASE e = c
        BY <2>7, <4>1, <4>2
      <4>3. CASE e # c
        BY <2>4, <2>7, <3>1, <4>1, <4>3
      <4> QED BY <4>2, <4>3
    <3> QED BY <3>1
  <2> QED BY <2>1, <2>4, <2>6, <2>7, <2>8, <2>9 DEF b
<1> QED BY <1>2, <1>3

(* A destructor unlocks the content.                                       *)
ContentGone(t, u, d) ==
  /\ Len(u) = Len(t)
  /\ u[d] = [t[d] EXCEPT !.content = NULL]
  /\ \A e \in 1 .. Len(t) : e # d =>
       /\ t[d].content = NULL => u[e] = t[e]
       /\ t[d].content # NULL => u[e] = Less(t, t[d].content)[e]

LEMMA ContentUnlocked ==
  ASSUME NEW t, NEW pl, NEW owed, Sound(t, pl, owed),
         NEW d \in 1 .. Len(t), t[d].content \notin owed
  PROVE  \E u : Sound(u, pl, owed) /\ ContentGone(t, u, d)
<1> DEFINE c == t[d].content
           b == [t[d] EXCEPT !.content = NULL]
           u1 == [t EXCEPT ![d] = b]
           u == Less(u1, c)
<1>1. t \in Seq(Buf) /\ t[d] \in Buf /\ Linked(t) /\ Len(t) \in Nat /\ NULL \notin Nat
  BY SoundTypes
<1>2. CASE c = NULL
  <2>1. b = t[d]
    BY <1>1, <1>2 DEF Buf
  <2> QED BY <1>2, <2>1 DEF ContentGone
<1>3. CASE c # NULL
  <2>1. c \in 1 .. Len(t) /\ c # d /\ ~t[c].destructor
    BY <1>1, <1>3 DEF Linked
  <2>2. b \in Buf
    BY <1>1 DEF Buf
  <2>3. Sound(u1, pl, owed \cup {c})
    BY <1>3, ContentDrops
  <2>4. /\ u1 \in Seq(Buf) /\ Len(u1) = Len(t) /\ u1[d] = b
        /\ \A e \in 1 .. Len(t) : e # d => u1[e] = t[e]
    BY <1>1, <2>2, TableExcept
  <2>5. (owed \cup {c}) \ {c} = owed
    OBVIOUS
  <2>6. t[c].rdb = NULL /\ t[c].content = NULL
    BY <1>1, <2>1 DEF Linked
  <2> HIDE DEF u1, b, c
  <2>7. Sound(u, pl, owed)
    <3>1. /\ c \in owed \cup {c} /\ c \in 1 .. Len(u1)
          /\ u1[c].rdb = NULL /\ u1[c].content = NULL
      BY <2>1, <2>4, <2>6
    <3>2. Sound(u, pl, (owed \cup {c}) \ {c})
      BY <2>3, <3>1, LessPays
    <3> QED BY <2>5, <3>2
  <2>8. /\ Len(u) = Len(t) /\ u[d] = b
        /\ \A e \in 1 .. Len(t) : e # d => u[e] = Less(t, c)[e]
    <3> DEFINE x == IF t[c].lock = 1 THEN Freed(t[c]) ELSE [t[c] EXCEPT !.lock = @ - 1]
    <3>1. u1[c] = t[c]
      BY <2>1, <2>4
    <3>2. u = [u1 EXCEPT ![c] = x] /\ Less(t, c) = [t EXCEPT ![c] = x]
      BY <3>1 DEF Less
    <3> HIDE DEF x, u
    <3> QED BY <1>1, <2>1, <2>4, <3>2
  <2> HIDE DEF u
  <2> QED BY <1>3, <2>7, <2>8 DEF b, c, ContentGone
<1> QED BY <1>2, <1>3

LEMMA LessFacts ==
  ASSUME NEW t \in Seq(Buf), NEW d \in 1 .. Len(t), t[d].lock > 0
  PROVE  /\ Less(t, d) \in Seq(Buf) /\ Len(Less(t, d)) = Len(t)
         /\ t[d].lock = 1 => Less(t, d)[d] = Freed(t[d])
         /\ t[d].lock # 1 => Less(t, d)[d] = [t[d] EXCEPT !.lock = @ - 1]
         /\ \A e \in 1 .. Len(t) : e # d => Less(t, d)[e] = t[e]
<1> DEFINE x == IF t[d].lock = 1 THEN Freed(t[d]) ELSE [t[d] EXCEPT !.lock = @ - 1]
<1>1. Less(t, d) = [t EXCEPT ![d] = x]
  BY DEF Less
<1>2. t[d] \in Buf
  OBVIOUS
<1>3. x \in Buf
  <2>1. CASE t[d].lock = 1
    <3>1. x = Freed(t[d])
      BY <2>1, Zenon
    <3> HIDE DEF x
    <3> QED BY <1>2, <2>1, <3>1, FreedFacts
  <2>2. CASE t[d].lock # 1
    <3>1. x = [t[d] EXCEPT !.lock = @ - 1]
      BY <2>2, Zenon
    <3>2. t[d].lock - 1 \in Nat
      BY <1>2, BufFields
    <3> HIDE DEF x
    <3> QED BY <1>2, <3>1, <3>2, SetLock
  <2> QED BY <2>1, <2>2
<1>4. /\ t[d].lock = 1 => x = Freed(t[d])
      /\ t[d].lock # 1 => x = [t[d] EXCEPT !.lock = @ - 1]
  BY Zenon
<1> HIDE DEF x
<1> QED BY <1>1, <1>3, <1>4, TableExcept

LEMMA Referenced ==
  ASSUME NEW t, NEW pl, NEW owed, Sound(t, pl, owed), NEW d \in 1 .. Len(t),
         RefsIn(t, pl, d) # {}
  PROVE  t[d].lock > 0
<1>1. PICK r : r \in RefsIn(t, pl, d)
  OBVIOUS
<1>2. t \in Seq(Buf) /\ Len(t) \in Nat /\ t[d] \in Buf /\ Balanced(t, pl, owed, d)
  BY SoundTypes
<1> DEFINE n == Cardinality(RefsIn(t, pl, d))
<1>3. n \in Nat /\ n - 1 \in Nat
  <2>1. IsFiniteSet(RefsIn(t, pl, d)) /\ n \in Nat
    BY <1>2, FiniteRefs
  <2>2. Cardinality(RefsIn(t, pl, d) \ {r}) = n - 1
    BY <1>1, <1>2, RefGoes
  <2>3. Cardinality(RefsIn(t, pl, d) \ {r}) \in Nat
    BY <2>1, FS_RemoveElement, FS_CardinalityType
  <2> QED BY <2>1, <2>2, <2>3
<1>4. t[d].lock \in Nat /\ t[d].lost \in Nat
  BY <1>2, BufFields
<1>5. t[d].lock = n + t[d].lost + (IF d \in owed THEN 1 ELSE 0)
  BY <1>2 DEF Balanced
<1> HIDE DEF n
<1> QED BY <1>3, <1>4, <1>5

LEMMA ForgetsNoCount ==
  ASSUME NEW t, NEW pl, NEW owed, Sound(t, pl, owed), NEW d \in 1 .. Len(t),
         t[d].destructor, t[d].content # NULL
  PROVE  Forgotten(t, t[d].rdb)[t[d].content].lock > 0
<1> DEFINE c == t[d].content
           r == t[d].rdb
<1>1. /\ t \in Seq(Buf) /\ Len(t) \in Nat
      /\ c \in 1 .. Len(t)
      /\ r # NULL => r \in 1 .. Len(t)
  BY SoundTypes DEF Linked
<1>2. <<d, "content">> \in RefsIn(t, pl, c)
  BY <1>1 DEF RefsIn
<1> HIDE DEF c, r
<1>3. t[c].lock > 0
  <2>1. RefsIn(t, pl, c) # {}
    BY <1>2
  <2> QED BY <1>1, <2>1, Referenced
<1>4. \A e \in 1 .. Len(t) : Forgotten(t, r)[e] =
        IF e = r THEN [t[e] EXCEPT !.lost = @ + 1] ELSE t[e]
  BY <1>1, ForgottenFacts
<1>5. Forgotten(t, r)[c].lock = t[c].lock
  <2>1. t[c] \in Buf
    BY <1>1
  <2> QED BY <1>1, <1>4, <2>1 DEF Buf
<1> QED BY <1>3, <1>5 DEF c, r

(* What a connection read stays locked, its content loses a count, and the *)
(* last reference to it frees the appdata itself.                          *)
LEMMA UnlockedSound ==
  ASSUME NEW t, NEW pl, Sound(t, pl, {}), NEW p \in Place, pl[p] # NULL
  PROVE  Sound(Unlocked(t, pl[p]), [pl EXCEPT ![p] = NULL], {})
<1> DEFINE d == pl[p]
           ql == [pl EXCEPT ![p] = NULL]
           r == t[d].rdb
           c == t[d].content
<1>1. t \in Seq(Buf) /\ Linked(t) /\ Len(t) \in Nat /\ NULL \notin Nat /\ d \in 1 .. Len(t)
  BY SoundTypes
<1>2. t[d] \in Buf
  BY <1>1
<1>3. Sound(t, ql, {d})
  BY PlaceDrops
<1>4. pl[p] = d
  OBVIOUS
<1> HIDE DEF d, ql
<1>5. {d} \ {d} = {} /\ d \in {d}
  OBVIOUS
<1>6. t[d].lock > 0
  <2>1. Cardinality(RefsIn(t, ql, d)) \in Nat /\ Balanced(t, ql, {d}, d)
    BY <1>1, <1>3, FiniteRefs, SoundTypes
  <2> QED BY <1>2, <2>1, BufFields DEF Balanced
<1>7. CASE ~(t[d].lock = 1 /\ t[d].destructor)
  <2>1. Unlocked(t, d) = Less(t, d)
    BY <1>7, Zenon DEF Unlocked
  <2>2. t[d].lock = 1 => t[d].rdb = NULL /\ t[d].content = NULL
    BY <1>1, <1>7 DEF Linked
  <2>3. Sound(Less(t, d), ql, {d} \ {d})
    BY <1>1, <1>3, <1>5, <2>2, LessPays
  <2> QED BY <1>4, <1>5, <2>1, <2>3 DEF ql
<1>8. CASE t[d].lock = 1 /\ t[d].destructor
  <2>1. /\ r # NULL => r \in 1 .. Len(t) /\ r # d
        /\ c # NULL => c \in 1 .. Len(t) /\ c # d
    BY <1>1, <1>8 DEF Linked
  <2> HIDE DEF r, c
  <2>2. d # NULL /\ r # d /\ c # d
    BY <1>1, <2>1
  <2>3. PICK u : /\ Sound(u, ql, {d}) /\ Len(u) = Len(t)
                 /\ u[d] = [t[d] EXCEPT !.rdb = NULL]
                 /\ \A e \in 1 .. Len(t) : e # d => u[e] = Forgotten(t, r)[e]
    BY <1>1, <1>3, <2>2, RdbForgotten DEF r
  <2>4. /\ u[d].content = c /\ u[d].lock = t[d].lock /\ u[d].lost = t[d].lost
        /\ u[d].frees = t[d].frees /\ u[d].rdb = NULL
    BY <1>2, <2>3 DEF Buf, c
  <2>5. PICK v : /\ Sound(v, ql, {d}) /\ Len(v) = Len(t)
                 /\ v[d] = [u[d] EXCEPT !.content = NULL]
                 /\ \A e \in 1 .. Len(t) : e # d =>
                      /\ c = NULL => v[e] = u[e]
                      /\ c # NULL => v[e] = Less(u, c)[e]
    <3> DEFINE owed == {d}
    <3>1. Sound(u, ql, owed) /\ d \in 1 .. Len(u) /\ u[d].content \notin owed
      BY <1>1, <2>2, <2>3, <2>4
    <3> HIDE DEF owed
    <3>2. \E y : Sound(y, ql, owed) /\ ContentGone(u, y, d)
      BY <3>1, ContentUnlocked, Zenon
    <3>3. u[d].content = c /\ Len(u) = Len(t)
      BY <2>3, <2>4
    <3> QED BY <3>2, <3>3 DEF owed, ContentGone
  <2>6. /\ v[d].lock = 1 /\ v[d].lost = t[d].lost /\ v[d].frees = t[d].frees
        /\ v[d].rdb = NULL /\ v[d].content = NULL
    <3>1. u[d] \in Buf
      BY <1>1, <2>3, SoundTypes
    <3> QED BY <1>8, <2>4, <2>5, <3>1 DEF Buf
  <2>7. Sound(Less(v, d), ql, {})
    <3>1. Sound(Less(v, d), ql, {d} \ {d})
      BY <1>1, <1>5, <2>5, <2>6, LessPays
    <3> QED BY <1>5, <3>1
  <2> DEFINE w == Forgotten(t, r)
             x == Destroyed(t, d)
  <2>8. /\ w \in Seq(Buf) /\ Len(w) = Len(t) /\ w[d] = t[d]
        /\ \A e \in 1 .. Len(t) : e # d => u[e] = w[e]
    <3>1. w \in Seq(Buf) /\ Len(w) = Len(t) /\ w[d] = t[d]
      BY <1>1, <2>1, <2>2, ForgottenFacts
    <3> QED BY <2>3, <3>1
  <2>9. x = IF c = NULL THEN w ELSE Less(w, c)
    BY Zenon DEF Destroyed, c, r
  <2> HIDE DEF w, x
  <2>10. /\ x \in Seq(Buf) /\ Len(x) = Len(t) /\ x[d] = t[d]
         /\ \A e \in 1 .. Len(t) : e # d => v[e] = x[e]
    <3>1. CASE c = NULL
      <4>1. x = w
        BY <2>9, <3>1, Zenon
      <4>2. \A e \in 1 .. Len(t) : e # d => v[e] = u[e]
        BY <2>5, <3>1
      <4> QED BY <2>8, <4>1, <4>2
    <3>2. CASE c # NULL
      <4>1. x = Less(w, c)
        BY <2>9, <3>2, Zenon
      <4>2. \A e \in 1 .. Len(t) : e # d => v[e] = Less(u, c)[e]
        BY <2>5, <3>2
      <4>3. u[c] = w[c] /\ c \in 1 .. Len(t) /\ u \in Seq(Buf)
        BY <2>1, <2>3, <2>8, <3>2, SoundTypes
      <4>4. w[c].lock > 0
        BY <1>1, <1>8, <3>2, ForgetsNoCount DEF w, c, r
      <4>5. /\ Less(w, c) \in Seq(Buf) /\ Len(Less(w, c)) = Len(t)
            /\ w[c].lock = 1 => Less(w, c)[c] = Freed(w[c])
            /\ w[c].lock # 1 => Less(w, c)[c] = [w[c] EXCEPT !.lock = @ - 1]
            /\ \A e \in 1 .. Len(t) : e # c => Less(w, c)[e] = w[e]
        BY <2>8, <4>3, <4>4, LessFacts
      <4>6. /\ u[c].lock = 1 => Less(u, c)[c] = Freed(u[c])
            /\ u[c].lock # 1 => Less(u, c)[c] = [u[c] EXCEPT !.lock = @ - 1]
            /\ \A e \in 1 .. Len(t) : e # c => Less(u, c)[e] = u[e]
        BY <2>3, <4>3, <4>4, LessFacts
      <4>7. Less(u, c)[c] = Less(w, c)[c]
        BY <4>3, <4>5, <4>6
      <4>8. ASSUME NEW e \in 1 .. Len(t), e # d PROVE v[e] = x[e]
        BY <2>8, <4>1, <4>2, <4>5, <4>6, <4>7, <4>8
      <4> QED BY <1>1, <2>2, <2>8, <4>1, <4>5, <4>8
    <3> QED BY <3>1, <3>2
  <2>11. Less(x, d) = Less(v, d)
    <3>1. /\ v \in Seq(Buf) /\ Len(v) = Len(t) /\ d \in 1 .. Len(v) /\ v[d].lock > 0
          /\ d \in 1 .. Len(x) /\ x[d].lock = 1 /\ x[d].lock > 0
      BY <1>1, <1>8, <2>5, <2>6, <2>10, SoundTypes
    <3>2. /\ Less(x, d) \in Seq(Buf) /\ Len(Less(x, d)) = Len(t)
          /\ Less(x, d)[d] = Freed(x[d])
          /\ \A e \in 1 .. Len(t) : e # d => Less(x, d)[e] = x[e]
      BY <2>10, <3>1, LessFacts
    <3>3. /\ Less(v, d) \in Seq(Buf) /\ Len(Less(v, d)) = Len(t)
          /\ Less(v, d)[d] = Freed(v[d])
          /\ \A e \in 1 .. Len(t) : e # d => Less(v, d)[e] = v[e]
      BY <2>6, <3>1, LessFacts
    <3>4. Freed(x[d]) = Freed(v[d])
      BY <2>6, <2>10, <3>1 DEF Freed
    <3>5. \A e \in 1 .. Len(t) : Less(x, d)[e] = Less(v, d)[e]
      BY <2>10, <3>2, <3>3, <3>4
    <3> QED BY <3>2, <3>3, <3>5, TablesEqual
  <2>12. Unlocked(t, d) = Less(x, d)
    BY <1>8, Zenon DEF Unlocked, x
  <2> QED BY <1>4, <2>7, <2>11, <2>12 DEF ql
<1> QED BY <1>7, <1>8

-----------------------------------------------------------------------------
(* The invariant. *)

(* The data of a buffer that was not spoilt is what was appended to it, in *)
(* its memory, and what is a string has its zero there.                    *)
Clean(b) ==
  /\ b.dsize <= Size(b)
  /\ ~b.spoilt => Text(b) = b.meant
  /\ b.string /\ ~b.spoilt => b.dsize < Size(b) /\ b.data[b.dsize + 1] = 0

Good(t, pl) ==
  /\ Sound(t, pl, {})
  /\ \A d \in 1 .. Len(t) : Clean(t[d])

IInv == Good(bufs, place)

SameAccount(a, b) ==
  /\ a.lock = b.lock /\ a.destructor = b.destructor /\ a.rdb = b.rdb
  /\ a.content = b.content /\ a.lost = b.lost /\ a.frees = b.frees

SameBytes(a, b) ==
  /\ a.data = b.data /\ a.dsize = b.dsize /\ a.meant = b.meant
  /\ a.string = b.string /\ a.spoilt = b.spoilt

LEMMA CleanSame ==
  ASSUME NEW a, NEW b, SameBytes(a, b), Clean(b)
  PROVE  Clean(a)
BY DEF SameBytes, Clean, Text, Size

LEMMA CleanFreed ==
  ASSUME NEW b \in Buf, b.lock = 1
  PROVE  Clean(Freed(b))
<1>1. /\ Freed(b).data = <<>> /\ Freed(b).dsize = 0 /\ Freed(b).meant = <<>>
      /\ ~Freed(b).string /\ ~Freed(b).spoilt
  BY FreedFacts
<1>2. SubSeq(<<>>, 1, 0) = <<>> /\ Len(<<>>) = 0
  OBVIOUS
<1> QED BY <1>1, <1>2 DEF Clean, Text, Size

LEMMA LessClean ==
  ASSUME NEW t \in Seq(Buf), NEW d \in 1 .. Len(t), t[d].lock > 0,
         \A e \in 1 .. Len(t) : Clean(t[e])
  PROVE  \A e \in 1 .. Len(Less(t, d)) : Clean(Less(t, d)[e])
<1>1. t[d] \in Buf
  OBVIOUS
<1>2. t[d].lock = 1 => Clean(Freed(t[d]))
  BY <1>1, CleanFreed
<1>3. Clean([t[d] EXCEPT !.lock = @ - 1])
  <2>1. SameBytes([t[d] EXCEPT !.lock = @ - 1], t[d])
    BY <1>1 DEF SameBytes, Buf
  <2> QED BY <2>1, CleanSame
<1> QED BY <1>2, <1>3, LessFacts

(* Writing into a buffer concerns no reference.                            *)
LEMMA BytesGood ==
  ASSUME NEW t, NEW pl, Good(t, pl), NEW d \in 1 .. Len(t), NEW b \in Buf,
         SameAccount(b, t[d]), Clean(b)
  PROVE  Good([t EXCEPT ![d] = b], pl)
<1>1. Sound(t, pl, {}) /\ \A e \in 1 .. Len(t) : Clean(t[e])
  BY DEF Good
<1>2. t \in Seq(Buf) /\ t[d] \in Buf /\ Balanced(t, pl, {}, d)
  BY <1>1, SoundTypes
<1> DEFINE owed == {}
<1>3. /\ b.rdb = t[d].rdb /\ b.content = t[d].content /\ b.destructor = t[d].destructor
      /\ b.lock - t[d].lock = b.lost - t[d].lost
                                + (IF d \in owed THEN 1 ELSE 0) - (IF d \in owed THEN 1 ELSE 0)
      /\ b.frees = IF b.lock = 0 THEN 1 ELSE 0
  <2>1. b.frees = IF b.lock = 0 THEN 1 ELSE 0
    BY <1>2 DEF SameAccount, Balanced
  <2>2. b.lock - t[d].lock = 0 /\ b.lost - t[d].lost = 0
    BY <1>2, BufFields DEF SameAccount
  <2>3. b.rdb = t[d].rdb /\ b.content = t[d].content /\ b.destructor = t[d].destructor
    BY DEF SameAccount
  <2> QED BY <1>2, <2>1, <2>2, <2>3, BufFields
<1>4. Sound(t, pl, owed)
  BY <1>1
<1> HIDE DEF owed
<1>5. Sound([t EXCEPT ![d] = b], pl, owed)
  BY <1>3, <1>4, CountSound
<1>6. \A e \in 1 .. Len([t EXCEPT ![d] = b]) : Clean([t EXCEPT ![d] = b][e])
  BY <1>1, <1>2, TableExcept
<1> QED BY <1>5, <1>6 DEF Good, owed

LEMMA NewGood ==
  ASSUME NEW t, NEW pl, Good(t, pl), NEW b \in Buf, Clean(b),
         b.lock = 1, b.rdb = NULL, b.content = NULL, b.lost = 0, b.frees = 0,
         NEW p \in Place, pl[p] = NULL
  PROVE  Good(Append(t, b), [pl EXCEPT ![p] = Len(t) + 1])
<1> DEFINE n == Len(t) + 1
           u == Append(t, b)
           owed == {n}
<1>1. Sound(t, pl, {}) /\ \A e \in 1 .. Len(t) : Clean(t[e])
  BY DEF Good
<1>2. t \in Seq(Buf) /\ Len(t) \in Nat
  BY <1>1, SoundTypes
<1>3. Sound(u, pl, owed)
  BY <1>1, NewOwed
<1>4. /\ Len(u) = n /\ u[n] = b /\ n \in 1 .. n
      /\ \A e \in 1 .. n : e # n => e \in 1 .. Len(t)
      /\ \A e \in 1 .. Len(t) : u[e] = t[e]
  BY <1>2, TableAppend
<1>5. n \in owed /\ owed \ {n} = {}
  OBVIOUS
<1> HIDE DEF n, u, owed
<1>6. Sound(u, [pl EXCEPT ![p] = n], owed \ {n})
  BY <1>3, <1>4, <1>5, PlaceTakes
<1>7. \A e \in 1 .. Len(u) : Clean(u[e])
  BY <1>1, <1>4
<1> QED BY <1>5, <1>6, <1>7 DEF Good, n, u

LEMMA LockGood ==
  ASSUME NEW t, NEW pl, Good(t, pl), NEW p \in Place, pl[p] = NULL,
         NEW d \in 1 .. Len(t), t[d].lock > 0
  PROVE  Good([t EXCEPT ![d] = [t[d] EXCEPT !.lock = @ + 1]], [pl EXCEPT ![p] = d])
<1> DEFINE b == [t[d] EXCEPT !.lock = @ + 1]
           u == [t EXCEPT ![d] = b]
           owed == {d}
<1>1. Sound(t, pl, {}) /\ \A e \in 1 .. Len(t) : Clean(t[e])
  BY DEF Good
<1>2. t \in Seq(Buf) /\ t[d] \in Buf
  BY <1>1, SoundTypes
<1>3. Sound(u, pl, owed)
  BY <1>1, LockOwes
<1>4. b \in Buf /\ Clean(b)
  <2>1. t[d].lock + 1 \in Nat /\ SameBytes(b, t[d])
    BY <1>2, BufFields DEF SameBytes
  <2> QED BY <1>1, <1>2, <2>1, SetLock, CleanSame
<1> HIDE DEF b
<1>5. Len(u) = Len(t) /\ \A e \in 1 .. Len(t) : Clean(u[e])
  BY <1>1, <1>2, <1>4, TableExcept
<1>6. d \in owed /\ owed \ {d} = {}
  OBVIOUS
<1> HIDE DEF u, owed
<1>7. Sound(u, [pl EXCEPT ![p] = d], owed \ {d})
  BY <1>3, <1>5, <1>6, PlaceTakes
<1> QED BY <1>5, <1>6, <1>7 DEF Good, u, b

LEMMA UnlockGood ==
  ASSUME NEW t, NEW pl, Good(t, pl), NEW p \in Place, pl[p] # NULL
  PROVE  Good(Unlocked(t, pl[p]), [pl EXCEPT ![p] = NULL])
<1> DEFINE d == pl[p]
<1>1. Sound(t, pl, {}) /\ \A e \in 1 .. Len(t) : Clean(t[e])
  BY DEF Good
<1>2. t \in Seq(Buf) /\ Len(t) \in Nat /\ d \in 1 .. Len(t) /\ t[d] \in Buf
  BY <1>1, SoundTypes
<1>3. t[d].lock > 0
  <2>1. RefsIn(t, pl, d) # {}
    BY DEF RefsIn
  <2> QED BY <1>1, <1>2, <2>1, Referenced
<1>4. Sound(Unlocked(t, d), [pl EXCEPT ![p] = NULL], {})
  BY <1>1, UnlockedSound
<1> HIDE DEF d
<1>5. CASE ~(t[d].lock = 1 /\ t[d].destructor)
  <2>1. Unlocked(t, d) = Less(t, d)
    BY <1>5, Zenon DEF Unlocked
  <2> QED BY <1>1, <1>2, <1>3, <1>4, <2>1, LessClean DEF Good, d
<1>6. CASE t[d].lock = 1 /\ t[d].destructor
  <2> DEFINE c == t[d].content
             r == t[d].rdb
             w == Forgotten(t, r)
             x == Destroyed(t, d)
  <2>1. /\ r # NULL => r \in 1 .. Len(t) /\ r # d
        /\ c # NULL => c \in 1 .. Len(t) /\ c # d
    BY <1>1, <1>2, <1>6, SoundTypes DEF Linked
  <2>2. /\ w \in Seq(Buf) /\ Len(w) = Len(t) /\ w[d] = t[d]
        /\ \A e \in 1 .. Len(t) : Clean(w[e])
    <3>1. d # NULL
      BY <1>2, NullAssumption
    <3>2. /\ w \in Seq(Buf) /\ Len(w) = Len(t)
          /\ \A e \in 1 .. Len(t) : w[e] = IF e = r THEN [t[e] EXCEPT !.lost = @ + 1] ELSE t[e]
      BY <1>2, <2>1, ForgottenFacts
    <3> HIDE DEF w, r
    <3>3. \A e \in 1 .. Len(t) : SameBytes(w[e], t[e])
      <4>1. \A e \in 1 .. Len(t) : SameBytes([t[e] EXCEPT !.lost = @ + 1], t[e])
        <5>1. \A e \in 1 .. Len(t) : t[e] \in Buf
          BY <1>2
        <5> QED BY <5>1 DEF SameBytes, Buf
      <4> QED BY <3>2, <4>1 DEF SameBytes
    <3> QED BY <1>1, <1>2, <2>1, <3>1, <3>2, <3>3, CleanSame
  <2>3. c # NULL => w[c].lock > 0
    BY <1>1, <1>2, <1>6, ForgetsNoCount
  <2>4. x = IF c = NULL THEN w ELSE Less(w, c)
    BY Zenon DEF Destroyed
  <2> HIDE DEF w, x, c, r
  <2>5. /\ x \in Seq(Buf) /\ Len(x) = Len(t) /\ x[d] = t[d]
        /\ \A e \in 1 .. Len(t) : Clean(x[e])
    <3>1. CASE c = NULL
      BY <2>2, <2>4, <3>1, Zenon
    <3>2. CASE c # NULL
      <4>1. x = Less(w, c)
        BY <2>4, <3>2, Zenon
      <4>2. c \in 1 .. Len(w) /\ w[c].lock > 0 /\ c # d /\ d \in 1 .. Len(w)
        BY <1>2, <2>1, <2>2, <2>3, <3>2
      <4>3. /\ Less(w, c) \in Seq(Buf) /\ Len(Less(w, c)) = Len(w)
            /\ Less(w, c)[d] = w[d]
        BY <2>2, <4>2, LessFacts
      <4>4. \A e \in 1 .. Len(w) : Clean(Less(w, c)[e])
        <5>1. \A e \in 1 .. Len(w) : Clean(w[e])
          BY <2>2
        <5> QED BY <2>2, <4>2, <4>3, <5>1, LessClean
      <4> QED BY <2>2, <4>1, <4>3, <4>4
    <3> QED BY <3>1, <3>2
  <2>6. \A e \in 1 .. Len(Less(x, d)) : Clean(Less(x, d)[e])
    BY <1>2, <1>3, <2>5, LessClean, LessFacts
  <2>7. Unlocked(t, d) = Less(x, d)
    BY <1>6, Zenon DEF Unlocked, x
  <2> QED BY <1>4, <2>6, <2>7 DEF Good, d
<1> QED BY <1>5, <1>6

-----------------------------------------------------------------------------
(* Every operation keeps the invariant: allocation. *)

LEMMA GoodTypes ==
  ASSUME IInv
  PROVE  /\ bufs \in Seq(Buf) /\ place \in [Place -> Handles \cup {NULL}]
         /\ Len(bufs) \in Nat /\ NULL \notin Nat
         /\ \A d \in Handles : bufs[d] \in Buf /\ Clean(bufs[d])
         /\ Sound(bufs, place, {}) /\ Linked(bufs)
BY SoundTypes DEF IInv, Good, Handles

LEMMA HeldFacts ==
  ASSUME IInv, NEW d \in Held
  PROVE  d \in Handles /\ bufs[d] \in Buf /\ Clean(bufs[d]) /\ bufs[d].lock > 0
<1>1. d \in Handles /\ RefsIn(bufs, place, d) # {}
  BY DEF Held, References, RefsIn, Handles
<1> QED BY <1>1, GoodTypes, Referenced DEF Handles

LEMMA NewStep ==
  ASSUME IInv, NEW p \in Place, NEW b \in Buf, Clean(b),
         b.lock = 1, b.rdb = NULL, b.content = NULL, b.lost = 0, b.frees = 0,
         New(p, b)
  PROVE  IInv'
<1>1. /\ bufs' = Append(bufs, b) /\ place[p] = NULL
      /\ place' = [place EXCEPT ![p] = Len(bufs) + 1]
  BY DEF New, Keeps
<1>2. Good(Append(bufs, b), [place EXCEPT ![p] = Len(bufs) + 1])
  BY <1>1, NewGood DEF IInv
<1> QED BY <1>1, <1>2 DEF IInv

LEMMA EmptyFacts ==
  ASSUME NEW size \in Nat
  PROVE  /\ Empty(size) \in Buf /\ Clean(Empty(size)) /\ ~Empty(size).destructor
         /\ Empty(size).lock = 1 /\ Empty(size).rdb = NULL /\ Empty(size).content = NULL
         /\ Empty(size).lost = 0 /\ Empty(size).frees = 0
<1> DEFINE data == Cells(Junk, size)
           b == Fresh(data, 0, <<>>, FALSE)
<1>1. data \in Seq(Cell) /\ Len(data) = size
  BY CellsFacts DEF Cell
<1>2. Empty(size) = b
  BY DEF Empty
<1> HIDE DEF data
<1>3. /\ b \in Buf /\ b.lock = 1 /\ b.rdb = NULL /\ b.content = NULL
      /\ b.lost = 0 /\ b.frees = 0 /\ ~b.destructor
      /\ b.data = data /\ b.dsize = 0 /\ b.meant = <<>> /\ ~b.string
  <2>1. <<>> \in Seq(Cell)
    OBVIOUS
  <2> QED BY <1>1, <2>1 DEF Fresh, Buf
<1> HIDE DEF b
<1>4. SubSeq(data, 1, 0) = <<>>
  BY <1>1
<1>5. Clean(b)
  BY <1>1, <1>3, <1>4 DEF Clean, Text, Size
<1> QED BY <1>2, <1>3, <1>5

LEMMA ZerosFacts ==
  ASSUME NEW size \in Nat
  PROVE  /\ Zeros(size) \in Buf /\ Clean(Zeros(size))
         /\ Zeros(size).lock = 1 /\ Zeros(size).rdb = NULL /\ Zeros(size).content = NULL
         /\ Zeros(size).lost = 0 /\ Zeros(size).frees = 0
<1> DEFINE data == Cells(0, size)
           b == Fresh(data, size, data, FALSE)
<1>1. data \in Seq(Cell) /\ Len(data) = size
  BY CellsFacts DEF Cell
<1>2. Zeros(size) = b
  BY DEF Zeros
<1> HIDE DEF data
<1>3. /\ b \in Buf /\ b.lock = 1 /\ b.rdb = NULL /\ b.content = NULL
      /\ b.lost = 0 /\ b.frees = 0
      /\ b.data = data /\ b.dsize = size /\ b.meant = data /\ ~b.string
  <2>1. <<>> \in Seq(Cell)
    OBVIOUS
  <2> QED BY <1>1, <2>1 DEF Fresh, Buf
<1> HIDE DEF b
<1>4. SubSeq(data, 1, size) = data
  <2>1. /\ SubSeq(data, 1, size) \in Seq(Cell) /\ Len(SubSeq(data, 1, size)) = size
        /\ \A i \in 1 .. size : SubSeq(data, 1, size)[i] = data[i]
    BY <1>1
  <2> QED BY <1>1, <2>1, SeqEqual
<1>5. Clean(b)
  BY <1>1, <1>3, <1>4 DEF Clean, Text, Size
<1> QED BY <1>2, <1>3, <1>5

LEMMA DallocStep ==
  ASSUME IInv, NEW p \in Place, Dalloc(p)
  PROVE  IInv'
<1>1. PICK size \in 0 .. Memory : New(p, Empty(size))
  BY DEF Dalloc
<1> QED BY <1>1, EmptyFacts, NewStep, SizeAssumption

LEMMA DalloczfStep ==
  ASSUME IInv, NEW p \in Place, Dalloczf(p)
  PROVE  IInv'
<1>1. PICK size \in 0 .. Memory : New(p, Zeros(size))
  BY DEF Dalloczf
<1> QED BY <1>1, ZerosFacts, NewStep, SizeAssumption

LEMMA AllocAppdataStep ==
  ASSUME IInv, NEW p \in Place, AllocAppdata(p)
  PROVE  IInv'
<1> DEFINE b == [Zeros(1) EXCEPT !.destructor = TRUE]
<1>1. New(p, b)
  BY DEF AllocAppdata
<1>2. Zeros(1) \in Buf /\ Clean(Zeros(1)) /\ Zeros(1).lock = 1 /\ Zeros(1).rdb = NULL
      /\ Zeros(1).content = NULL /\ Zeros(1).lost = 0 /\ Zeros(1).frees = 0
  BY ZerosFacts
<1>3. /\ b \in Buf /\ b.lock = 1 /\ b.rdb = NULL /\ b.content = NULL
      /\ b.lost = 0 /\ b.frees = 0 /\ SameBytes(b, Zeros(1))
  BY <1>2 DEF Buf, SameBytes
<1>4. Clean(b)
  BY <1>2, <1>3, CleanSame
<1> HIDE DEF b
<1> QED BY <1>1, <1>3, <1>4, NewStep

LEMMA DstrcpyStep ==
  ASSUME IInv, NEW p \in Place, Dstrcpy(p)
  PROVE  IInv'
<1>1. PICK text \in Texts : New(p, Fresh(text \o <<0>>, Len(text), text, TRUE))
  BY DEF Dstrcpy
<1> DEFINE z == <<0>>
           data == text \o z
           b == Fresh(data, Len(text), text, TRUE)
<1>2. text \in Seq(Cell) /\ Len(text) \in Nat
  BY ByteCells
<1>3. z \in Seq(Cell) /\ Len(z) = 1 /\ z[1] = 0
  BY DEF Cell
<1>4. New(p, b)
  BY <1>1
<1> HIDE DEF z
<1>5. /\ data \in Seq(Cell) /\ Len(data) = Len(text) + 1
      /\ \A i \in 1 .. Len(text) + 1 : data[i] = IF i <= Len(text) THEN text[i] ELSE z[i - Len(text)]
  <2>1. /\ text \o z \in Seq(Cell) /\ Len(text \o z) = Len(text) + Len(z)
        /\ \A i \in 1 .. Len(text) + Len(z) :
             (text \o z)[i] = IF i <= Len(text) THEN text[i] ELSE z[i - Len(text)]
    BY <1>2, <1>3, ConcatProperties
  <2> QED BY <1>2, <1>3, <2>1
<1> HIDE DEF data
<1>6. data[Len(text) + 1] = 0
  BY <1>2, <1>3, <1>5
<1>7. SubSeq(data, 1, Len(text)) = text
  <2>1. /\ SubSeq(data, 1, Len(text)) \in Seq(Cell)
        /\ Len(SubSeq(data, 1, Len(text))) = Len(text)
        /\ \A i \in 1 .. Len(text) : SubSeq(data, 1, Len(text))[i] = data[i]
    BY <1>2, <1>5
  <2>2. \A i \in 1 .. Len(text) : data[i] = text[i]
    BY <1>2, <1>5
  <2> QED BY <1>2, <2>1, <2>2, SeqEqual
<1>8. /\ b \in Buf /\ b.lock = 1 /\ b.rdb = NULL /\ b.content = NULL
      /\ b.lost = 0 /\ b.frees = 0
      /\ b.data = data /\ b.dsize = Len(text) /\ b.meant = text
  <2>1. <<>> \in Seq(Cell)
    OBVIOUS
  <2> QED BY <1>2, <1>5, <2>1 DEF Fresh, Buf
<1> HIDE DEF b
<1>9. Clean(b)
  BY <1>2, <1>5, <1>6, <1>7, <1>8 DEF Clean, Text, Size
<1> QED BY <1>4, <1>8, <1>9, NewStep

LEMMA DsubstrcpyStep ==
  ASSUME IInv, NEW p \in Place, NEW d \in Held, Dsubstrcpy(p, d)
  PROVE  IInv'
<1>1. PICK start \in 0 .. bufs[d].dsize, howmany \in 0 .. bufs[d].dsize :
        /\ start < bufs[d].dsize /\ start + howmany <= bufs[d].dsize
        /\ New(p, Fresh(SubSeq(bufs[d].data, start + 1, start + howmany), 0, <<>>, FALSE))
  BY DEF Dsubstrcpy
<1> DEFINE data == SubSeq(bufs[d].data, start + 1, start + howmany)
           b == Fresh(data, 0, <<>>, FALSE)
<1>2. bufs[d].data \in Seq(Cell) /\ bufs[d].dsize \in Nat /\ bufs[d].dsize <= Len(bufs[d].data)
  BY HeldFacts, BufFields DEF Clean, Size
<1>3. data \in Seq(Cell)
  BY <1>1, <1>2
<1>4. New(p, b)
  BY <1>1
<1> HIDE DEF data
<1>5. /\ b \in Buf /\ b.lock = 1 /\ b.rdb = NULL /\ b.content = NULL
      /\ b.lost = 0 /\ b.frees = 0
      /\ b.data = data /\ b.dsize = 0 /\ b.meant = <<>> /\ ~b.string
  <2>1. <<>> \in Seq(Cell)
    OBVIOUS
  <2> QED BY <1>3, <2>1 DEF Fresh, Buf
<1> HIDE DEF b
<1>6. SubSeq(data, 1, 0) = <<>> /\ Len(data) \in Nat
  BY <1>3
<1>7. Clean(b)
  BY <1>5, <1>6 DEF Clean, Text, Size
<1> QED BY <1>4, <1>5, <1>7, NewStep

LEMMA DlockStep ==
  ASSUME IInv, NEW p \in Place, NEW d \in Held, Dlock(p, d)
  PROVE  IInv'
<1>1. /\ bufs' = [bufs EXCEPT ![d] = [bufs[d] EXCEPT !.lock = @ + 1]]
      /\ place[p] = NULL /\ place' = [place EXCEPT ![p] = d]
  BY DEF Dlock, Keeps
<1>2. d \in 1 .. Len(bufs) /\ bufs[d].lock > 0
  BY HeldFacts DEF Handles
<1>3. Good([bufs EXCEPT ![d] = [bufs[d] EXCEPT !.lock = @ + 1]], [place EXCEPT ![p] = d])
  BY <1>1, <1>2, LockGood DEF IInv
<1> QED BY <1>1, <1>3 DEF IInv

LEMMA DunlockStep ==
  ASSUME IInv, NEW p \in Place, Dunlock(p)
  PROVE  IInv'
<1>1. /\ place[p] # NULL /\ bufs' = Unlocked(bufs, place[p])
      /\ place' = [place EXCEPT ![p] = NULL]
  BY DEF Dunlock
<1>2. Good(Unlocked(bufs, place[p]), [place EXCEPT ![p] = NULL])
  BY <1>1, UnlockGood DEF IInv
<1> QED BY <1>1, <1>2 DEF IInv

(* A second Content-Length loses the content of the first.                 *)
LEMMA AllocContentStep ==
  ASSUME IInv, NEW d \in Held, AllocContent(d)
  PROVE  IInv'
<1> DEFINE t == bufs
           c == bufs[d].content
           n == Len(bufs) + 1
<1>1. PICK size \in 0 .. Memory :
        bufs' = Append([Forgotten(t, c) EXCEPT ![d].content = n], Empty(size))
  BY DEF AllocContent
<1>2. place' = place /\ t[d].destructor
  BY DEF AllocContent
<1>3. /\ t \in Seq(Buf) /\ Len(t) \in Nat /\ d \in 1 .. Len(t) /\ t[d] \in Buf /\ Linked(t)
      /\ NULL \notin Nat /\ Sound(t, place, {})
      /\ \A e \in 1 .. Len(t) : t[e] \in Buf /\ Clean(t[e])
  BY GoodTypes, HeldFacts DEF Handles
<1>4. /\ c # NULL => c \in 1 .. Len(t) /\ c # d
      /\ n \in Nat /\ n \notin 1 .. Len(t) /\ 1 .. n = (1 .. Len(t)) \cup {n}
  BY <1>2, <1>3 DEF Linked
<1> DEFINE f == Forgotten(t, c)
           e0 == Empty(size)
           g == [f EXCEPT ![d].content = n]
<1>5. /\ f \in Seq(Buf) /\ Len(f) = Len(t) /\ f[d] = t[d]
      /\ \A e \in 1 .. Len(t) : SameBytes(f[e], t[e])
  <2>1. /\ f \in Seq(Buf) /\ Len(f) = Len(t)
        /\ \A e \in 1 .. Len(t) : f[e] = IF e = c THEN [t[e] EXCEPT !.lost = @ + 1] ELSE t[e]
    BY <1>3, <1>4, ForgottenFacts
  <2>2. \A e \in 1 .. Len(t) : SameBytes([t[e] EXCEPT !.lost = @ + 1], t[e])
    BY <1>3 DEF SameBytes, Buf
  <2>3. d # c
    BY <1>3, <1>4
  <2> HIDE DEF f, c
  <2>4. \A e \in 1 .. Len(t) : SameBytes(t[e], t[e])
    BY DEF SameBytes
  <2> QED BY <1>3, <2>1, <2>2, <2>3, <2>4
<1>6. PICK u : /\ Sound(u, place, {}) /\ Len(u) = Len(t)
               /\ u[d] = [t[d] EXCEPT !.content = NULL]
               /\ \A e \in 1 .. Len(t) : e # d => u[e] = f[e]
  <2> DEFINE owed == {}
  <2>1. Sound(t, place, owed) /\ t[d].content \notin owed
    BY <1>3
  <2> HIDE DEF owed
  <2>2. \E u : /\ Sound(u, place, owed) /\ Len(u) = Len(t)
               /\ u[d] = [t[d] EXCEPT !.content = NULL]
               /\ \A e \in 1 .. Len(t) : e # d => u[e] = Forgotten(t, t[d].content)[e]
    BY <1>3, <2>1, ContentForgotten
  <2> QED BY <2>2, Zenon DEF owed
<1>7. /\ e0 \in Buf /\ Clean(e0) /\ ~e0.destructor /\ e0.lock = 1 /\ e0.rdb = NULL
      /\ e0.content = NULL /\ e0.lost = 0 /\ e0.frees = 0
  BY EmptyFacts, SizeAssumption
<1>8. bufs' = Append(g, e0)
  BY <1>1
<1> DEFINE b == [t[d] EXCEPT !.content = n]
<1>9. b \in Buf /\ SameBytes(b, t[d])
  BY <1>3, <1>4 DEF Buf, SameBytes
<1>10. [u[d] EXCEPT !.content = n] = b /\ u[d].content = NULL /\ u[d].destructor
  BY <1>2, <1>3, <1>6 DEF Buf
<1> HIDE DEF c, n, e0
<1>11. /\ g \in Seq(Buf) /\ Len(g) = Len(t) /\ g[d] = b
       /\ \A e \in 1 .. Len(t) : e # d => g[e] = f[e]
  <2>1. g = [f EXCEPT ![d] = b]
    BY <1>5
  <2> HIDE DEF g, f, b
  <2> QED BY <1>3, <1>5, <1>9, <2>1, TableExcept
<1> HIDE DEF f, g, b
<1> DEFINE v == Append(u, e0)
           w == [v EXCEPT ![d] = [v[d] EXCEPT !.content = n]]
           owed == {n}
<1>12. Sound(v, place, owed) /\ u \in Seq(Buf)
  BY <1>3, <1>6, <1>7, NewOwed, SoundTypes DEF n
<1>13. /\ v \in Seq(Buf) /\ Len(v) = n /\ v[n] = e0
       /\ \A e \in 1 .. Len(t) : v[e] = u[e]
  BY <1>6, <1>7, <1>12, TableAppend DEF n
<1>14. n \in owed /\ owed \ {n} = {} /\ d \in 1 .. Len(v) /\ n \in 1 .. Len(v) /\ v[d] = u[d]
  BY <1>3, <1>4, <1>13
<1> HIDE DEF v, owed
<1>15. Sound(w, place, {})
  <2>1. v[d].destructor /\ v[d].content = NULL /\ ~v[n].destructor
    BY <1>7, <1>10, <1>13, <1>14
  <2>2. Sound(w, place, owed \ {n})
    BY <1>12, <1>14, <2>1, ContentTakes
  <2> QED BY <1>14, <2>2
<1>16. /\ w \in Seq(Buf) /\ Len(w) = n /\ w[d] = b
       /\ \A e \in 1 .. n : e # d => w[e] = v[e]
  <2>1. [v[d] EXCEPT !.content = n] = b
    BY <1>10, <1>14
  <2>2. w = [v EXCEPT ![d] = b]
    BY <2>1
  <2> HIDE DEF w
  <2> QED BY <1>9, <1>13, <1>14, <2>2, TableExcept
<1> HIDE DEF w
<1>17. /\ bufs' \in Seq(Buf) /\ Len(bufs') = n /\ bufs'[n] = e0
       /\ \A e \in 1 .. Len(t) : bufs'[e] = g[e]
  BY <1>7, <1>8, <1>11, TableAppend DEF n
<1>18. bufs' = w
  <2>1. \A e \in 1 .. n : bufs'[e] = w[e]
    BY <1>3, <1>4, <1>6, <1>11, <1>13, <1>16, <1>17
  <2> QED BY <1>16, <1>17, <2>1, TablesEqual
<1>19. \A e \in 1 .. n : Clean(bufs'[e])
  <2>1. Clean(b) /\ \A e \in 1 .. Len(t) : Clean(f[e])
    BY <1>3, <1>5, <1>9, CleanSame
  <2> QED BY <1>4, <1>7, <1>11, <1>17, <2>1
<1> QED BY <1>2, <1>15, <1>16, <1>18, <1>19 DEF IInv, Good

(* The same when there is no second buffer.                                *)
LEMMA ContentRefusedStep ==
  ASSUME IInv, NEW d \in Held, ContentRefused(d)
  PROVE  IInv'
<1> DEFINE t == bufs
           c == bufs[d].content
           f == Forgotten(t, c)
           b == [t[d] EXCEPT !.content = NULL]
<1>1. place' = place /\ t[d].destructor /\ bufs' = [f EXCEPT ![d].content = NULL]
  BY DEF ContentRefused
<1>2. /\ t \in Seq(Buf) /\ Len(t) \in Nat /\ d \in 1 .. Len(t) /\ t[d] \in Buf /\ Linked(t)
      /\ NULL \notin Nat /\ Sound(t, place, {})
      /\ \A e \in 1 .. Len(t) : t[e] \in Buf /\ Clean(t[e])
  BY GoodTypes, HeldFacts DEF Handles
<1>3. c # NULL => c \in 1 .. Len(t) /\ c # d
  BY <1>1, <1>2 DEF Linked
<1>4. /\ f \in Seq(Buf) /\ Len(f) = Len(t) /\ f[d] = t[d]
      /\ \A e \in 1 .. Len(t) : SameBytes(f[e], t[e])
  <2>1. /\ f \in Seq(Buf) /\ Len(f) = Len(t)
        /\ \A e \in 1 .. Len(t) : f[e] = IF e = c THEN [t[e] EXCEPT !.lost = @ + 1] ELSE t[e]
    BY <1>2, <1>3, ForgottenFacts
  <2>2. \A e \in 1 .. Len(t) : SameBytes([t[e] EXCEPT !.lost = @ + 1], t[e])
    BY <1>2 DEF SameBytes, Buf
  <2>3. d # c
    BY <1>2, <1>3
  <2> HIDE DEF f, c
  <2>4. \A e \in 1 .. Len(t) : SameBytes(t[e], t[e])
    BY DEF SameBytes
  <2> QED BY <1>2, <2>1, <2>2, <2>3, <2>4
<1>5. PICK u : /\ Sound(u, place, {}) /\ Len(u) = Len(t)
               /\ u[d] = [t[d] EXCEPT !.content = NULL]
               /\ \A e \in 1 .. Len(t) : e # d => u[e] = f[e]
  <2> DEFINE owed == {}
  <2>1. Sound(t, place, owed) /\ t[d].content \notin owed
    BY <1>2
  <2> HIDE DEF owed
  <2>2. \E u : /\ Sound(u, place, owed) /\ Len(u) = Len(t)
               /\ u[d] = [t[d] EXCEPT !.content = NULL]
               /\ \A e \in 1 .. Len(t) : e # d => u[e] = Forgotten(t, t[d].content)[e]
    BY <1>2, <2>1, ContentForgotten
  <2> QED BY <2>2, Zenon DEF owed
<1>6. b \in Buf /\ SameBytes(b, t[d]) /\ u \in Seq(Buf)
  BY <1>2, <1>5, SoundTypes DEF Buf, SameBytes
<1> HIDE DEF c
<1>7. /\ bufs' \in Seq(Buf) /\ Len(bufs') = Len(t) /\ bufs'[d] = b
      /\ \A e \in 1 .. Len(t) : e # d => bufs'[e] = f[e]
  <2>1. bufs' = [f EXCEPT ![d] = b]
    BY <1>1, <1>4
  <2> HIDE DEF f, b
  <2> QED BY <1>2, <1>4, <1>6, <2>1, TableExcept
<1>8. u[d] = b
  BY <1>5
<1> HIDE DEF f, b
<1>9. bufs' = u
  <2>1. \A e \in 1 .. Len(t) : bufs'[e] = u[e]
    BY <1>5, <1>7, <1>8
  <2> QED BY <1>5, <1>6, <1>7, <2>1, TablesEqual
<1>10. \A e \in 1 .. Len(t) : Clean(bufs'[e])
  <2>1. Clean(b) /\ \A e \in 1 .. Len(t) : Clean(f[e])
    BY <1>2, <1>4, <1>6, CleanSame
  <2> QED BY <1>7, <2>1
<1> QED BY <1>1, <1>5, <1>9, <1>10 DEF IInv, Good

LEMMA KeepReadStep ==
  ASSUME IInv, NEW d \in Held, NEW read \in Held, KeepRead(d, read)
  PROVE  IInv'
<1> DEFINE t == bufs
           b == [t[read] EXCEPT !.lock = @ + 1]
           u == [t EXCEPT ![read] = b]
           x == [u[d] EXCEPT !.rdb = read]
           w == [u EXCEPT ![d] = x]
           owed == {read}
<1>1. /\ t[d].destructor /\ t[d].rdb = NULL /\ ~t[read].destructor
      /\ bufs' = [t EXCEPT ![d].rdb = read, ![read].lock = @ + 1]
      /\ place' = place
  BY DEF KeepRead
<1>2. /\ t \in Seq(Buf) /\ Sound(t, place, {}) /\ \A e \in 1 .. Len(t) : Clean(t[e])
      /\ d \in 1 .. Len(t) /\ read \in 1 .. Len(t) /\ t[d] \in Buf /\ t[read] \in Buf
      /\ t[read].lock > 0 /\ Len(t) \in Nat
  BY GoodTypes, HeldFacts DEF Handles
<1>3. d # read
  BY <1>1
<1>4. Sound(u, place, owed)
  BY <1>2, LockOwes
<1>5. b \in Buf /\ SameBytes(b, t[read]) /\ b.destructor = t[read].destructor
  <2>1. t[read].lock + 1 \in Nat
    BY <1>2, BufFields
  <2> QED BY <1>2, <2>1 DEF Buf, SameBytes
<1>6. bufs' = [[t EXCEPT ![d] = [t[d] EXCEPT !.rdb = read]] EXCEPT ![read] = b]
  BY <1>1, <1>2, <1>3
<1> HIDE DEF b
<1>7. /\ u \in Seq(Buf) /\ Len(u) = Len(t) /\ u[read] = b
      /\ \A e \in 1 .. Len(t) : e # read => u[e] = t[e]
  BY <1>2, <1>5, TableExcept
<1>8. read \in owed /\ owed \ {read} = {}
  OBVIOUS
<1> HIDE DEF u, owed
<1>9. /\ u[d] = t[d] /\ u[d].destructor /\ u[d].rdb = NULL /\ ~u[read].destructor
  BY <1>1, <1>2, <1>3, <1>5, <1>7
<1>10. Sound(w, place, {})
  <2>1. Sound(w, place, owed \ {read})
    BY <1>2, <1>4, <1>7, <1>8, <1>9, RdbTakes
  <2> QED BY <1>8, <2>1
<1>11. x = [t[d] EXCEPT !.rdb = read] /\ x \in Buf /\ SameBytes(x, t[d])
  <2>1. read \in Nat
    BY <1>2
  <2> QED BY <1>2, <1>9, <2>1 DEF Buf, SameBytes
<1> DEFINE y == [t EXCEPT ![d] = x]
<1> HIDE DEF x
<1>12. /\ w \in Seq(Buf) /\ Len(w) = Len(t) /\ w[d] = x
       /\ \A e \in 1 .. Len(t) : e # d => w[e] = u[e]
  BY <1>2, <1>7, <1>11, TableExcept
<1>13. /\ y \in Seq(Buf) /\ Len(y) = Len(t) /\ y[d] = x
       /\ \A e \in 1 .. Len(t) : e # d => y[e] = t[e]
  BY <1>2, <1>11, TableExcept
<1>14. bufs' = [y EXCEPT ![read] = b]
  BY <1>6, <1>11
<1> HIDE DEF w, y
<1>15. /\ bufs' \in Seq(Buf) /\ Len(bufs') = Len(t) /\ bufs'[read] = b
       /\ \A e \in 1 .. Len(t) : e # read => bufs'[e] = y[e]
  BY <1>2, <1>5, <1>13, <1>14, TableExcept
<1>16. bufs' = w
  <2>1. \A e \in 1 .. Len(t) : bufs'[e] = w[e]
    BY <1>2, <1>3, <1>7, <1>12, <1>13, <1>15
  <2> QED BY <1>12, <1>15, <2>1, TablesEqual
<1>17. \A e \in 1 .. Len(t) : Clean(bufs'[e])
  <2>1. Clean(b) /\ Clean(x)
    BY <1>2, <1>5, <1>11, CleanSame
  <2> QED BY <1>2, <1>3, <1>13, <1>15, <2>1
<1> QED BY <1>1, <1>10, <1>12, <1>16, <1>17 DEF IInv, Good

-----------------------------------------------------------------------------
(* Every operation keeps the invariant: data. *)

(* What a call left of a buffer: text behind the one before, or junk that  *)
(* is known to be junk.                                                    *)
LEMMA BecomesStep ==
  ASSUME IInv, NEW d \in Held, NEW b \in Buf, NEW text \in Seq(Cell),
         NEW string \in BOOLEAN, NEW spoils \in BOOLEAN,
         Header(b) = Header(bufs[d]), b.dsize <= Size(b),
         ~spoils => Text(b) = Text(bufs[d]) \o text,
         string /\ ~spoils => b.dsize < Size(b) /\ b.data[b.dsize + 1] = 0,
         Becomes(d, b, text, string, spoils)
  PROVE  IInv'
<1> DEFINE bad == b.spoilt \/ spoils
           m == IF bad THEN <<>> ELSE b.meant \o text
           c == [b EXCEPT !.meant = m, !.string = string, !.spoilt = bad]
<1>1. d \in Handles /\ bufs[d] \in Buf /\ Clean(bufs[d])
  BY HeldFacts
<1>2. /\ b.spoilt = bufs[d].spoilt /\ b.meant = bufs[d].meant
      /\ SameAccount(b, bufs[d]) /\ b.meant \in Seq(Cell)
  BY <1>1 DEF Header, SameAccount, Buf
<1>3. m \in Seq(Cell) /\ bad \in BOOLEAN
  <2>1. <<>> \in Seq(Cell) /\ b.meant \o text \in Seq(Cell)
    BY <1>2, ConcatProperties
  <2>2. m \in Seq(Cell)
    BY <2>1, Zenon
  <2> QED BY <2>2
<1>4. bufs' = [bufs EXCEPT ![d] = c] /\ place' = place
  BY Zenon DEF Becomes
<1>5. ~bad => m = Text(b)
  <2>1. ASSUME ~bad PROVE m = Text(b)
    <3>1. m = b.meant \o text
      BY <2>1, Zenon
    <3>2. Text(bufs[d]) = bufs[d].meant
      BY <1>1, <1>2, <2>1 DEF Clean
    <3> QED BY <1>2, <2>1, <3>1, <3>2
  <2> QED BY <2>1
<1>6. ~bad /\ string => b.dsize < Size(b) /\ b.data[b.dsize + 1] = 0
  OBVIOUS
<1> HIDE DEF bad, m
<1>7. /\ c \in Buf /\ SameAccount(c, b) /\ c.data = b.data /\ c.dsize = b.dsize
      /\ c.meant = m /\ c.string = string /\ c.spoilt = bad
  BY <1>3 DEF Buf, SameAccount
<1> HIDE DEF c
<1>8. Clean(c)
  BY <1>5, <1>6, <1>7 DEF Clean, Text, Size
<1>9. SameAccount(c, bufs[d])
  BY <1>2, <1>7 DEF SameAccount
<1>10. Good([bufs EXCEPT ![d] = c], place)
  BY <1>1, <1>7, <1>8, <1>9, BytesGood DEF IInv, Handles
<1> QED BY <1>4, <1>10 DEF IInv

LEMMA DmemcatStep ==
  ASSUME IInv, NEW d \in Held, Dmemcat(d)
  PROVE  IInv'
<1>1. PICK text \in Texts : /\ ~Refused(bufs[d], text)
                            /\ Becomes(d, Memcat(bufs[d], text), text, FALSE, FALSE)
  BY DEF Dmemcat
<1>2. text \in Seq(Cell)
  BY ByteCells
<1>3. bufs[d] \in Buf /\ bufs[d].dsize <= Size(bufs[d])
  BY HeldFacts DEF Clean
<1> DEFINE b == Memcat(bufs[d], text)
<1>4. /\ b \in Buf /\ Header(b) = Header(bufs[d]) /\ b.dsize <= Size(b)
      /\ Text(b) = Text(bufs[d]) \o text
  BY <1>1, <1>2, <1>3, MemcatFacts
<1> DEFINE no == FALSE
<1>5. no \in BOOLEAN /\ ~no /\ Becomes(d, b, text, no, no)
  BY <1>1
<1> HIDE DEF b, no
<1> QED BY <1>2, <1>4, <1>5, BecomesStep

LEMMA StrcatStep ==
  ASSUME IInv, NEW d \in Held, NEW added \in Seq(Cell), NEW text \in Seq(Cell),
         NEW spoils \in BOOLEAN,
         ~spoils => added = text /\ ~Refused(bufs[d], added),
         Becomes(d, Strcat(bufs[d], added), text, TRUE, spoils)
  PROVE  IInv'
<1>1. bufs[d] \in Buf /\ bufs[d].dsize <= Size(bufs[d])
  BY HeldFacts DEF Clean
<1> DEFINE b == Strcat(bufs[d], added)
           yes == TRUE
<1>2. /\ b \in Buf /\ Header(b) = Header(bufs[d]) /\ b.dsize <= Size(b)
      /\ ~spoils => /\ Text(b) = Text(bufs[d]) \o text
                    /\ b.dsize < Size(b) /\ b.data[b.dsize + 1] = 0
  BY <1>1, StrcatFacts
<1>3. yes \in BOOLEAN /\ yes /\ Becomes(d, b, text, yes, spoils)
  OBVIOUS
<1> HIDE DEF b, yes
<1> QED BY <1>2, <1>3, BecomesStep

LEMMA DstrcatStep ==
  ASSUME IInv, NEW d \in Held, Dstrcat(d)
  PROVE  IInv'
<1>1. PICK text \in Texts :
        Becomes(d, Strcat(bufs[d], text), text, TRUE, Refused(bufs[d], text))
  BY DEF Dstrcat
<1>2. text \in Seq(Cell) /\ Refused(bufs[d], text) \in BOOLEAN
  BY ByteCells, Zenon DEF Refused
<1> QED BY <1>1, <1>2, StrcatStep

LEMMA DxprintfStep ==
  ASSUME IInv, NEW d \in Held, Dxprintf(d)
  PROVE  IInv'
<1> DEFINE spoils(text) == Len(text) >= TempSize \/ Refused(bufs[d], text)
<1>1. PICK text \in Texts :
        Becomes(d, Strcat(bufs[d], Printed(text)), text, TRUE, spoils(text))
  BY DEF Dxprintf
<1>2. text \in Seq(Cell) /\ spoils(text) \in BOOLEAN
  BY ByteCells, Zenon
<1>3. Len(text) \in Nat /\ TempSize \in Nat \ {0}
  BY <1>2, SizeAssumption
<1>4. ~(Len(text) >= TempSize) => Printed(text) = text
  BY <1>3 DEF Printed
<1>5. Printed(text) \in Seq(Cell)
  <2>1. CASE Len(text) < TempSize
    BY <1>2, <1>3, <1>4, <2>1
  <2>2. CASE ~(Len(text) < TempSize)
    <3> DEFINE s == SubSeq(text, 1, TempSize - 1)
               z == <<0>>
               j == Cells(Junk, Len(text) - TempSize)
    <3>1. s \in Seq(Cell)
      BY <1>2, <1>3, <2>2
    <3>2. z \in Seq(Cell)
      BY DEF Cell
    <3>3. j \in Seq(Cell)
      <4>1. Len(text) - TempSize \in Nat /\ Junk \in Cell
        BY <1>3, <2>2 DEF Cell
      <4> QED BY <4>1, CellsFacts
    <3>4. Printed(text) = (s \o z) \o j
      BY <2>2, Zenon DEF Printed
    <3> HIDE DEF s, z, j
    <3> QED BY <3>1, <3>2, <3>3, <3>4, ConcatProperties
  <2> QED BY <2>1, <2>2
<1>6. ~spoils(text) => Printed(text) = text /\ ~Refused(bufs[d], Printed(text))
  BY <1>4, Zenon
<1> HIDE DEF spoils
<1> QED BY <1>1, <1>2, <1>5, <1>6, StrcatStep

LEMMA GrowText ==
  ASSUME NEW b \in Buf, b.dsize <= Size(b), NEW n \in Nat
  PROVE  Text(Grow(b, n)) = Text(b)
<1>1. /\ Grow(b, n) \in Buf /\ Grow(b, n).dsize = b.dsize
      /\ Size(Grow(b, n)) = Size(b) + n
      /\ \A i \in 1 .. Size(b) : Grow(b, n).data[i] = b.data[i]
  BY GrowFacts
<1>2. /\ b.data \in Seq(Cell) /\ Grow(b, n).data \in Seq(Cell)
      /\ b.dsize \in 0 .. Len(b.data) /\ b.dsize <= Len(Grow(b, n).data)
  BY <1>1 DEF Buf, Size
<1>3. \A i \in 1 .. b.dsize : b.data[i] = Grow(b, n).data[i]
  BY <1>1, <1>2 DEF Size
<1> QED BY <1>1, <1>2, <1>3, SamePrefix DEF Text

LEMMA AppendsStep ==
  ASSUME IInv, NEW d \in Held, NEW text \in Seq(Cell), NEW spoils \in BOOLEAN,
         Appends(d, text, spoils)
  PROVE  IInv'
<1> DEFINE g == Grow(bufs[d], Len(text))
           b == Add(g, text)
           no == FALSE
<1>1. bufs[d] \in Buf /\ bufs[d].dsize <= Size(bufs[d]) /\ Len(text) \in Nat
  BY HeldFacts DEF Clean
<1>2. /\ g \in Buf /\ Header(g) = Header(bufs[d]) /\ g.dsize = bufs[d].dsize
      /\ Size(g) = Size(bufs[d]) + Len(text) /\ Text(g) = Text(bufs[d])
  BY <1>1, GrowFacts, GrowText
<1>3. Becomes(d, b, text, no, spoils)
  BY DEF Appends
<1> HIDE DEF g
<1>4. g.dsize + Len(text) <= Size(g) /\ g.dsize \in Nat
  BY <1>1, <1>2 DEF Buf, Size
<1>5. /\ b \in Buf /\ Header(b) = Header(g) /\ b.dsize = g.dsize + Len(text)
      /\ Size(b) = Size(g) /\ Text(b) = Text(g) \o text
  BY <1>2, <1>4, AddFacts
<1>6. no \in BOOLEAN /\ ~no
  OBVIOUS
<1> HIDE DEF b, no
<1> QED BY <1>2, <1>3, <1>4, <1>5, <1>6, BecomesStep

LEMMA DxcatStep ==
  ASSUME IInv, NEW d \in Held, NEW from \in Held, Dxcat(d, from)
  PROVE  IInv'
<1>1. PICK start \in 0 .. bufs[from].dsize, len \in 0 .. bufs[from].dsize :
        /\ start + len <= bufs[from].dsize
        /\ Appends(d, SubSeq(bufs[from].data, start + 1, start + len), bufs[from].spoilt)
  BY DEF Dxcat
<1>2. /\ bufs[from].data \in Seq(Cell) /\ bufs[from].dsize \in Nat
      /\ bufs[from].dsize <= Len(bufs[from].data) /\ bufs[from].spoilt \in BOOLEAN
  BY HeldFacts, BufFields DEF Clean, Size
<1>3. SubSeq(bufs[from].data, start + 1, start + len) \in Seq(Cell)
  BY <1>1, <1>2
<1> QED BY <1>1, <1>2, <1>3, AppendsStep

LEMMA DappendfillStep ==
  ASSUME IInv, NEW d \in Held, Dappendfill(d)
  PROVE  IInv'
<1>1. PICK c \in Byte, count \in 1 .. Memory : Appends(d, Cells(c, count), FALSE)
  BY DEF Dappendfill
<1>2. c \in Cell /\ count \in Nat
  BY SizeAssumption DEF Cell
<1>3. Cells(c, count) \in Seq(Cell) /\ FALSE \in BOOLEAN
  BY <1>2, CellsFacts
<1> QED BY <1>1, <1>3, AppendsStep, Zenon

LEMMA DappendfileStep ==
  ASSUME IInv, NEW d \in Held, Dappendfile(d)
  PROVE  IInv'
<1>1. PICK text \in Texts : Appends(d, text, FALSE)
  BY DEF Dappendfile
<1>2. text \in Seq(Cell) /\ FALSE \in BOOLEAN
  BY ByteCells
<1> QED BY <1>1, <1>2, AppendsStep, Zenon

LEMMA DappendfileShortStep ==
  ASSUME IInv, NEW d \in Held, DappendfileShort(d)
  PROVE  IInv'
<1>1. PICK text \in Texts, nread \in 0 .. Memory :
        /\ nread < Len(text)
        /\ bufs' = [bufs EXCEPT ![d] =
                     [Put(Grow(@, Len(text)), @.dsize, SubSeq(text, 1, nread))
                        EXCEPT !.string = FALSE]]
        /\ place' = place
  BY DEF DappendfileShort
<1> DEFINE old == bufs[d]
           g == Grow(old, Len(text))
           read == SubSeq(text, 1, nread)
           p == Put(g, old.dsize, read)
           b == [p EXCEPT !.string = FALSE]
<1>2. old \in Buf /\ Clean(old) /\ d \in Handles /\ old.dsize \in Nat /\ old.dsize <= Size(old)
  BY HeldFacts, BufFields DEF Clean
<1>3. text \in Seq(Cell) /\ Len(text) \in Nat /\ nread \in Nat
  BY ByteCells, SizeAssumption
<1>4. read \in Seq(Cell)
  BY <1>1, <1>3
<1>5. bufs' = [bufs EXCEPT ![d] = b] /\ place' = place
  BY <1>1
<1> HIDE DEF old, read
<1>6. /\ g \in Buf /\ Header(g) = Header(old) /\ g.dsize = old.dsize
      /\ Size(g) = Size(old) + Len(text) /\ Text(g) = Text(old)
  BY <1>2, <1>3, GrowFacts, GrowText
<1> HIDE DEF g
<1>7. /\ p \in Buf /\ Header(p) = Header(g) /\ p.dsize = g.dsize /\ Size(p) = Size(g)
      /\ \A i \in 1 .. Size(g) : p.data[i] =
           IF i - old.dsize \in 1 .. Len(read) THEN read[i - old.dsize] ELSE g.data[i]
  BY <1>2, <1>4, <1>6, PutFacts
<1> HIDE DEF p
<1>8. Text(p) = Text(g)
  <2>1. /\ p.data \in Seq(Cell) /\ g.data \in Seq(Cell)
        /\ old.dsize \in 0 .. Len(g.data) /\ old.dsize <= Len(p.data)
    BY <1>2, <1>3, <1>6, <1>7 DEF Buf, Size
  <2>2. \A i \in 1 .. old.dsize : g.data[i] = p.data[i]
    <3>1. \A i \in 1 .. old.dsize : i \in 1 .. Size(g) /\ i - old.dsize \notin 1 .. Len(read)
      BY <1>2, <2>1 DEF Size
    <3> QED BY <1>7, <3>1
  <2> QED BY <1>6, <1>7, <2>1, <2>2, SamePrefix DEF Text
<1>9. /\ b \in Buf /\ SameAccount(b, old) /\ b.data = p.data /\ b.dsize = p.dsize
      /\ b.meant = old.meant /\ ~b.string /\ b.spoilt = old.spoilt
  BY <1>6, <1>7 DEF Buf, Header, SameAccount
<1> HIDE DEF b
<1>10. Clean(b)
  <2>1. b.dsize <= Size(b)
    <3>1. Size(b) = Size(p)
      BY <1>9 DEF Size
    <3>2. Size(old) \in Nat
      BY <1>2 DEF Buf, Size
    <3> QED BY <1>2, <1>3, <1>6, <1>7, <1>9, <3>1, <3>2
  <2>2. ~b.spoilt => Text(b) = b.meant
    BY <1>2, <1>6, <1>7, <1>8, <1>9 DEF Clean, Text
  <2> QED BY <1>9, <2>1, <2>2 DEF Clean
<1>11. Good([bufs EXCEPT ![d] = b], place)
  BY <1>2, <1>9, <1>10, BytesGood DEF IInv, Handles, old
<1> QED BY <1>5, <1>11 DEF IInv

LEMMA RewindStep ==
  ASSUME IInv, NEW d \in Held, Rewind(d)
  PROVE  IInv'
<1> DEFINE b == [bufs[d] EXCEPT !.dsize = 0, !.meant = <<>>, !.string = FALSE, !.spoilt = FALSE]
<1>1. bufs[d] \in Buf /\ d \in Handles
  BY HeldFacts
<1>2. bufs' = [bufs EXCEPT ![d] = b] /\ place' = place
  BY <1>1, GoodTypes DEF Rewind
<1>3. /\ b \in Buf /\ SameAccount(b, bufs[d]) /\ b.data = bufs[d].data /\ b.dsize = 0
      /\ b.meant = <<>> /\ ~b.string /\ ~b.spoilt
  <2>1. <<>> \in Seq(Cell)
    OBVIOUS
  <2> QED BY <1>1, <2>1 DEF Buf, SameAccount
<1> HIDE DEF b
<1>4. Clean(b)
  <2>1. b.data \in Seq(Cell)
    BY <1>3, BufFields
  <2>2. SubSeq(b.data, 1, 0) = <<>> /\ Len(b.data) >= 0
    BY <2>1
  <2> QED BY <1>3, <2>2 DEF Clean, Text, Size
<1>5. Good([bufs EXCEPT ![d] = b], place)
  BY <1>1, <1>3, <1>4, BytesGood DEF IInv, Handles
<1> QED BY <1>2, <1>5 DEF IInv

-----------------------------------------------------------------------------
(* Theorems. *)

LEMMA InitInv == Init => IInv
<1>1. SUFFICES ASSUME Init PROVE IInv
  OBVIOUS
<1>2. bufs = <<>> /\ place = [p \in Place |-> NULL] /\ Len(bufs) = 0
  BY <1>1 DEF Init
<1>3. bufs \in Seq(Buf) /\ place \in [Place -> (1 .. Len(bufs)) \cup {NULL}]
  BY <1>2
<1>4. 1 .. Len(bufs) = {}
  BY <1>2
<1> QED BY <1>3, <1>4 DEF IInv, Good, Sound, Typed, Linked

LEMMA NextInv == IInv /\ [Next]_vars => IInv'
<1>1. SUFFICES ASSUME IInv, [Next]_vars PROVE IInv'
  OBVIOUS
<1>2. CASE Next
  <2>1. ASSUME NEW p \in Place, Dalloc(p) \/ Dalloczf(p) \/ Dstrcpy(p) \/ AllocAppdata(p) \/ Dunlock(p)
        PROVE  IInv'
    BY <1>1, <2>1, DallocStep, DalloczfStep, DstrcpyStep, AllocAppdataStep, DunlockStep
  <2>2. ASSUME NEW p \in Place, NEW d \in Held, Dsubstrcpy(p, d) \/ Dlock(p, d)
        PROVE  IInv'
    BY <1>1, <2>2, DsubstrcpyStep, DlockStep
  <2>3. ASSUME NEW d \in Held, AllocContent(d) \/ ContentRefused(d)
        PROVE  IInv'
    BY <1>1, <2>3, AllocContentStep, ContentRefusedStep
  <2>5. ASSUME NEW d \in Held, NEW read \in Held, KeepRead(d, read)
        PROVE  IInv'
    BY <1>1, <2>5, KeepReadStep
  <2>4. ASSUME NEW d \in Held,
               \/ Dmemcat(d) \/ Dstrcat(d) \/ Dxprintf(d)
               \/ Dappendfill(d) \/ Dappendfile(d) \/ DappendfileShort(d) \/ Rewind(d)
               \/ \E from \in Held : Dxcat(d, from)
        PROVE  IInv'
    BY <1>1, <2>4, DmemcatStep, DstrcatStep, DxprintfStep, DappendfillStep, DappendfileStep,
       DappendfileShortStep, RewindStep, DxcatStep
  <2> QED BY <1>2, <2>1, <2>2, <2>3, <2>4, <2>5 DEF Next
<1>3. CASE UNCHANGED vars
  BY <1>1, <1>3 DEF vars, IInv
<1> QED BY <1>1, <1>2, <1>3

THEOREM InvariantHolds == Spec => []IInv
BY InitInv, NextInv, PTL DEF Spec

(* The lock of every buffer counts the pointers to it that somebody will   *)
(* unlock and those that were forgotten, and it is freed with the last:    *)
(* dunlock, dlock and the destructors keep the account, whoever holds what *)
(* (LocksCountReferences).                                                 *)
THEOREM LocksCount == Spec => []LocksCountReferences
<1>1. IInv => LocksCountReferences
  <2>1. SUFFICES ASSUME IInv PROVE LocksCountReferences
    OBVIOUS
  <2>2. /\ bufs \in Seq(Buf) /\ place \in [Place -> Handles \cup {NULL}]
        /\ Sound(bufs, place, {})
    BY <2>1, GoodTypes
  <2>3. ASSUME NEW d \in Handles
        PROVE  /\ bufs[d].lock = Cardinality(References(d)) + bufs[d].lost
               /\ bufs[d].frees = IF bufs[d].lock = 0 THEN 1 ELSE 0
    <3>1. Balanced(bufs, place, {}, d) /\ bufs[d] \in Buf /\ Len(bufs) \in Nat
      BY <2>2, SoundTypes DEF Handles
    <3>2. References(d) = RefsIn(bufs, place, d)
      BY DEF References, RefsIn, Handles
    <3>3. Cardinality(RefsIn(bufs, place, d)) \in Nat /\ bufs[d].lost \in Nat
      BY <3>1, FiniteRefs, BufFields
    <3> QED BY <3>1, <3>2, <3>3 DEF Balanced
  <2> QED BY <2>2, <2>3 DEF LocksCountReferences, TypeOK
<1> QED BY <1>1, InvariantHolds, PTL

(* A buffer's data is what was appended to it, in order and in its memory, *)
(* for any texts, chunk size and memory, however often it was moved        *)
(* (DataAsMeant).                                                          *)
THEOREM DataKept == Spec => []DataAsMeant
<1>1. IInv => DataAsMeant
  BY GoodTypes DEF DataAsMeant, Clean, Text
<1> QED BY <1>1, InvariantHolds, PTL

(* What dstrcpy and dstrcat leave ends in a zero inside the memory         *)
(* (StringsEnd).                                                           *)
THEOREM StringsAreEnded == Spec => []StringsEnd
<1>1. IInv => StringsEnd
  BY GoodTypes DEF StringsEnd, Clean
<1> QED BY <1>1, InvariantHolds, PTL
=============================================================================
