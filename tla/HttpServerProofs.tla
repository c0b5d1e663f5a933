-------------------------- MODULE HttpServerProofs --------------------------
(***************************************************************************)
(* TypeOK of HttpServer for every script and body.  Its last part, that a  *)
(* connection waits only for bytes still missing, needs two facts about    *)
(* the request buffer: no headers end inside it between two reads, so the  *)
(* headers a later read completes contain all of it but a CR, and so the   *)
(* Content-Length a body was counted for is among them.                    *)
(*                                                                         *)
(* The other properties hold of peers that send one request (OneRequest):  *)
(* after a second one the headers of the first would be found again.  They *)
(* follow from the stage a connection is in (Progress): in its headers, in *)
(* its body, answered, or refused; each stage says what the buffers hold   *)
(* of what was read, and each read leads from a stage to the same or a     *)
(* later one, wherever it is cut, and runs the handler once or not at all  *)
(* (Counted).                                                              *)
(***************************************************************************)
EXTENDS HttpServer, SequenceTheorems, TLAPS

Handled == Seq([kind : {"get", "post"}, body : Seq(STRING)])

(* The part of TypeOK a read can change.                                   *)
AppdataOK ==
  /\ l7state \in L7State
  /\ rdb \in Seq(STRING)
  /\ wanted \in {0, Len(Body)}
  /\ content \in Seq(STRING)
  /\ got = Len(content)
  /\ l7state = "HTTP_L7_READ_POST_DATA" => got < wanted
  /\ handled \in Handled

(* What http_parse_headers finds after the empty line is a sequence of at  *)
(* most Content-Length bytes: start_idx to old_dsize, cut.                 *)
LEMMA BodyAfterBounded ==
  ASSUME NEW buf \in Seq(STRING), NEW i \in 1 .. Len(buf)
  PROVE  /\ BodyAfter(buf, i) \in Seq(STRING)
         /\ Len(BodyAfter(buf, i)) \in 0 .. Len(Body)
<1> DEFINE last == Least(Len(buf), i + 2 + Len(Body))
<1>1. Len(buf) \in Nat /\ Len(Body) \in Nat
  BY BodyAssumption
<1>2. last \in Nat /\ last <= Len(buf) /\ last <= i + 2 + Len(Body)
  BY <1>1 DEF Least
<1>3. SubSeq(buf, i + 3, last) \in Seq(STRING)
  BY <1>1, <1>2
<1>4. Len(SubSeq(buf, i + 3, last)) = IF i + 3 <= last THEN last - (i + 3) + 1 ELSE 0
  BY <1>1, <1>2
<1> QED BY <1>1, <1>2, <1>3, <1>4 DEF BodyAfter

(* http_handle_request is only called for a GET or a POST, so what it is   *)
(* handed keeps the history well formed.                                   *)
LEMMA HandleRequestType ==
  ASSUME NEW kind \in {"get", "post"}, handled \in Handled,
         content' \in Seq(STRING), HandleRequest(kind)
  PROVE  handled' \in Handled /\ l7state' = "HTTP_L7_INIT"
<1>1. [kind |-> kind, body |-> content'] \in [kind : {"get", "post"}, body : Seq(STRING)]
  OBVIOUS
<1> QED BY <1>1 DEF HandleRequest, Handled

(* Between two reads the buffer holds no end of headers.                   *)
NoEndInBuffer == Incomplete(rdb)

Has(buf, t) == \E j \in 1 .. Len(buf) : buf[j] = t

(* A length was only ever taken from headers that are still in the buffer. *)
LengthRemembered == Has(rdb, "length") \/ (wanted = 0 /\ content = <<>>)

IInv == TypeOK /\ NoEndInBuffer /\ LengthRemembered

(* Headers that a read completes reach to the end of what was buffered     *)
(* before, a final CR excepted.                                            *)
LEMMA HeadersKeepTheBuffer ==
  ASSUME NEW r \in Seq(STRING), NEW d \in Seq(STRING), Incomplete(r),
         NEW i \in 1 .. Len(r \o d), HeadersEnd(r \o d, i),
         NEW j \in 1 .. Len(r), r[j] = "length"
  PROVE  j <= i
<1> DEFINE buf == r \o d
<1>1. /\ buf \in Seq(STRING)
      /\ Len(r) \in Nat /\ Len(d) \in Nat
      /\ Len(buf) = Len(r) + Len(d)
      /\ \A k \in 1 .. Len(r) : buf[k] = r[k]
  OBVIOUS
<1>2. SUFFICES ASSUME i < j PROVE FALSE
  BY <1>1
<1>3. i \in 1 .. Len(r) /\ i + 1 \in 1 .. Len(r) /\ ~HeadersEnd(r, i)
  BY <1>1, <1>2 DEF Incomplete
<1>4. EndsLine(r[i])
  BY <1>1, <1>3 DEF HeadersEnd
<1>5. buf[i + 1] = r[i + 1]
  BY <1>1, <1>3
<1>6. r[i + 1] # "lf"
  BY <1>1, <1>3, <1>4 DEF HeadersEnd
<1>7. r[i + 1] = "cr" /\ buf[i + 2] = "lf"
  BY <1>5, <1>6 DEF HeadersEnd
<1>8. i + 2 <= j
  BY <1>2, <1>7, <1>1
<1>9. i + 2 \in 1 .. Len(r) /\ buf[i + 2] = r[i + 2]
  BY <1>1, <1>8
<1> QED BY <1>3, <1>4, <1>7, <1>9 DEF HeadersEnd

(* What http_request_check leaves in the buffer has no end of headers.     *)
LEMMA CutHasNoEnd ==
  ASSUME NEW buf \in Seq(STRING), NEW i, IsEnd(buf, i)
  PROVE  Incomplete(SubSeq(buf, 1, i))
<1>1. i \in 1 .. Len(buf) /\ \A j \in 1 .. i - 1 : ~HeadersEnd(buf, j)
  BY DEF IsEnd
<1>2. /\ SubSeq(buf, 1, i) \in Seq(STRING)
      /\ Len(SubSeq(buf, 1, i)) = i
      /\ \A j \in 1 .. i : SubSeq(buf, 1, i)[j] = buf[j]
  BY <1>1
<1>3. ASSUME NEW j \in 1 .. i, HeadersEnd(SubSeq(buf, 1, i), j)
      PROVE  FALSE
  <2>1. j + 1 <= i
    BY <1>1, <1>2, <1>3 DEF HeadersEnd
  <2>2. j \in 1 .. i - 1 /\ j + 1 \in 1 .. i
    BY <1>1, <2>1
  <2>3. HeadersEnd(buf, j)
    <3>1. CASE SubSeq(buf, 1, i)[j + 1] = "lf"
      BY <1>1, <1>2, <1>3, <2>2, <3>1 DEF HeadersEnd
    <3>2. CASE j + 2 <= i /\ SubSeq(buf, 1, i)[j + 1] = "cr" /\ SubSeq(buf, 1, i)[j + 2] = "lf"
      <4>1. j + 2 \in 1 .. i
        BY <1>1, <2>2, <3>2
      <4> QED BY <1>1, <1>2, <1>3, <2>2, <3>2, <4>1 DEF HeadersEnd
    <3> QED BY <1>2, <1>3, <3>1, <3>2 DEF HeadersEnd
  <2> QED BY <1>1, <2>2, <2>3
<1> QED BY <1>2, <1>3 DEF Incomplete

(* The part of the invariant a read can change.                            *)
ReadInv == AppdataOK /\ NoEndInBuffer /\ LengthRemembered

(* A complete request, recognised: the counts are those of its own body,   *)
(* or, without a Content-Length, still zero.                               *)
LEMMA RecognisedRequest ==
  ASSUME ReadInv, NEW d \in Seq(STRING), NEW i \in 1 .. Len(rdb \o d),
         IsEnd(rdb \o d, i), rdb' = SubSeq(rdb \o d, 1, i),
         ParseHeaders(rdb \o d, i)
  PROVE  /\ wanted' \in {0, Len(Body)}
         /\ content' \in Seq(STRING)
         /\ got' = Len(content')
         /\ got' <= wanted'
         /\ LengthRemembered'
<1> DEFINE buf == rdb \o d
<1>1. /\ rdb \in Seq(STRING)
      /\ buf \in Seq(STRING)
      /\ Len(rdb) \in Nat /\ Len(Body) \in Nat
      /\ \A k \in 1 .. Len(rdb) : buf[k] = rdb[k]
  BY BodyAssumption DEF ReadInv, AppdataOK
<1>2. /\ SubSeq(buf, 1, i) \in Seq(STRING)
      /\ Len(SubSeq(buf, 1, i)) = i
      /\ \A j \in 1 .. i : SubSeq(buf, 1, i)[j] = buf[j]
  BY <1>1
<1>3. CASE Contains(SubSeq(buf, 1, i), "length")
  <2>1. wanted' = Len(Body) /\ content' = BodyAfter(buf, i) /\ got' = Len(content')
    BY <1>3 DEF ParseHeaders
  <2>2. BodyAfter(buf, i) \in Seq(STRING) /\ Len(BodyAfter(buf, i)) \in 0 .. Len(Body)
    BY <1>1, BodyAfterBounded
  <2>3. Has(rdb', "length")
    BY <1>2, <1>3 DEF Contains, Has
  <2> QED BY <1>1, <2>1, <2>2, <2>3 DEF LengthRemembered
<1>4. CASE ~Contains(SubSeq(buf, 1, i), "length")
  <2>1. UNCHANGED <<wanted, got, content>>
    BY <1>4 DEF ParseHeaders
  <2>2. ~Has(rdb, "length")
    <3>1. SUFFICES ASSUME NEW j \in 1 .. Len(rdb), rdb[j] = "length" PROVE FALSE
      BY DEF Has
    <3>2. j <= i
      BY <1>1, <3>1, HeadersKeepTheBuffer DEF IsEnd, ReadInv, NoEndInBuffer
    <3>3. j \in 1 .. i /\ SubSeq(buf, 1, i)[j] = "length"
      BY <1>1, <1>2, <3>1, <3>2
    <3> QED BY <1>2, <1>4, <3>3 DEF Contains
  <2>3. wanted = 0 /\ content = <<>> /\ got = 0
    BY <2>2 DEF ReadInv, LengthRemembered, AppdataOK
  <2> QED BY <2>1, <2>3 DEF LengthRemembered
<1> QED BY <1>3, <1>4

LEMMA ReadRequestInv ==
  ASSUME ReadInv, NEW d \in Seq(STRING), ReadRequest(d)
  PROVE  ReadInv'
<1> DEFINE buf == rdb \o d
<1>1. /\ rdb \in Seq(STRING)
      /\ buf \in Seq(STRING)
      /\ Len(rdb) \in Nat /\ Len(buf) \in Nat /\ Len(rdb) <= Len(buf)
      /\ \A k \in 1 .. Len(rdb) : buf[k] = rdb[k]
      /\ l7state = "HTTP_L7_INIT"
  BY DEF ReadInv, AppdataOK, ReadRequest
<1>2. CASE Incomplete(buf) /\ rdb' = buf /\ UNCHANGED <<l7state, wanted, got, content, handled>>
  <2>1. AppdataOK'
    BY <1>1, <1>2 DEF ReadInv, AppdataOK
  <2>2. Has(rdb, "length") => Has(buf, "length")
    BY <1>1 DEF Has
  <2> QED BY <1>2, <2>1, <2>2 DEF ReadInv, NoEndInBuffer, LengthRemembered, Has, Incomplete
<1>3. ASSUME NEW i \in 1 .. Len(buf), IsEnd(buf, i), rdb' = SubSeq(buf, 1, i)
      PROVE  rdb' \in Seq(STRING) /\ NoEndInBuffer'
  <2>1. Incomplete(SubSeq(buf, 1, i))
    BY <1>1, <1>3, CutHasNoEnd
  <2>2. SubSeq(buf, 1, i) \in Seq(STRING)
    BY <1>1
  <2> QED BY <1>3, <2>1, <2>2 DEF NoEndInBuffer, Incomplete
<1>4. ASSUME NEW i \in 1 .. Len(buf), IsEnd(buf, i), rdb' = SubSeq(buf, 1, i),
             UNCHANGED <<l7state, wanted, got, content, handled>>
      PROVE  ReadInv'
  <2>1. rdb' \in Seq(STRING) /\ NoEndInBuffer'
    BY <1>3, <1>4
  <2>2. AppdataOK'
    BY <1>4, <2>1 DEF ReadInv, AppdataOK
  <2>3. LengthRemembered'
    <3>1. CASE wanted = 0 /\ content = <<>>
      BY <1>4, <3>1 DEF LengthRemembered
    <3>2. CASE Has(rdb, "length")
      <4>1. PICK j \in 1 .. Len(rdb) : rdb[j] = "length"
        BY <3>2 DEF Has
      <4>2. j <= i
        BY <1>1, <1>4, <4>1, HeadersKeepTheBuffer DEF IsEnd, ReadInv, NoEndInBuffer
      <4>3. j \in 1 .. i /\ buf[j] = "length"
        BY <1>1, <4>1, <4>2
      <4>4. Len(SubSeq(buf, 1, i)) = i /\ SubSeq(buf, 1, i)[j] = buf[j]
        BY <1>1, <4>3
      <4> QED BY <1>4, <4>3, <4>4 DEF LengthRemembered, Has
    <3> QED BY <3>1, <3>2 DEF ReadInv, LengthRemembered
  <2> QED BY <2>1, <2>2, <2>3 DEF ReadInv
<1>5. ASSUME NEW i \in 1 .. Len(buf), IsEnd(buf, i), rdb' = SubSeq(buf, 1, i),
             NEW kind \in {"get", "post", "connect"},
             ParseHeaders(buf, i), RequestComplete(kind)
      PROVE  ReadInv'
  <2>1. rdb' \in Seq(STRING) /\ NoEndInBuffer'
    BY <1>3, <1>5
  <2>2. /\ wanted' \in {0, Len(Body)}
        /\ content' \in Seq(STRING)
        /\ got' = Len(content')
        /\ got' <= wanted'
        /\ LengthRemembered'
    BY <1>5, RecognisedRequest
  <2>3. handled \in Handled
    BY DEF ReadInv, AppdataOK
  <2>4. CASE kind \in {"get", "post"} /\ HandleRequest(kind)
    <3>1. handled' \in Handled /\ l7state' = "HTTP_L7_INIT"
      BY <2>2, <2>3, <2>4, HandleRequestType
    <3> QED BY <2>1, <2>2, <3>1 DEF ReadInv, AppdataOK, L7State
  <2>5. CASE l7state' = "HTTP_L7_READ_POST_DATA" /\ got' # wanted' /\ UNCHANGED handled
    <3>1. got' < wanted'
      BY <2>2, <2>5, BodyAssumption
    <3> QED BY <2>1, <2>2, <2>3, <2>5, <3>1 DEF ReadInv, AppdataOK, L7State
  <2>6. CASE l7state' = "HTTP_L7_SHOWTIME" /\ UNCHANGED handled
    BY <2>1, <2>2, <2>3, <2>6 DEF ReadInv, AppdataOK, L7State
  <2> QED BY <1>5, <2>4, <2>5, <2>6 DEF RequestComplete
<1>6. ASSUME NEW headers PROVE RequestKind(headers) \in {"get", "post", "connect", "unknown"}
  BY DEF RequestKind, Methods
<1> QED BY <1>2, <1>4, <1>5, <1>6 DEF ReadRequest

LEMMA ReadPostDataInv ==
  ASSUME ReadInv, NEW d \in Seq(STRING), ReadPostData(d)
  PROVE  ReadInv'
<1>1. /\ content' \in Seq(STRING)
      /\ got' = Len(content')
      /\ Len(d) \in Nat
  BY DEF ReadInv, AppdataOK, ReadPostData
<1>2. got < wanted /\ wanted # 0
  BY DEF ReadInv, AppdataOK, ReadPostData
<1>3. NoEndInBuffer' /\ LengthRemembered'
  BY <1>2 DEF ReadInv, NoEndInBuffer, LengthRemembered, ReadPostData, Incomplete, Has
<1>4. CASE Enough
  <2>1. handled' \in Handled /\ l7state' = "HTTP_L7_INIT"
    BY <1>1, <1>4, HandleRequestType DEF ReadInv, AppdataOK, ReadPostData, PostHandled
  <2> QED BY <1>1, <1>3, <2>1 DEF ReadInv, AppdataOK, ReadPostData, L7State
<1>5. CASE ~Enough
  <2>1. got' < wanted'
    BY <1>1, <1>5, BodyAssumption DEF Enough, ReadPostData, ReadInv, AppdataOK
  <2> QED BY <1>1, <1>3, <1>5, <2>1 DEF ReadInv, AppdataOK, ReadPostData
<1> QED BY <1>4, <1>5

LEMMA FreshInv == Fresh => ReadInv'
  BY BodyAssumption DEF Fresh, ReadInv, AppdataOK, NoEndInBuffer, LengthRemembered,
     Incomplete, L7State, Handled

LEMMA SplitInv ==
  IInv <=> /\ script \in Scripts \union {<<>>}
           /\ pos \in 0 .. Len(script)
           /\ ReadInv
  BY DEF IInv, ReadInv, TypeOK, AppdataOK, Handled

LEMMA InitInv == Init => IInv
<1> SUFFICES ASSUME Init PROVE IInv
  OBVIOUS
<1>1. ReadInv
  BY BodyAssumption DEF Init, ReadInv, AppdataOK, NoEndInBuffer, LengthRemembered,
     Incomplete, L7State, Handled
<1> QED BY <1>1, SplitInv DEF Init

LEMMA NextInv == IInv /\ [Next]_vars => IInv'
<1> SUFFICES ASSUME IInv, [Next]_vars PROVE IInv'
  OBVIOUS
<1>1. /\ script \in Scripts \union {<<>>}
      /\ script \in Seq(STRING)
      /\ pos \in 0 .. Len(script)
      /\ ReadInv
  <2>1. \A s \in Scripts \union {<<>>} : s \in Seq(STRING)
    <3>1. <<>> \in Seq(STRING)
      OBVIOUS
    <3>2. \A s \in Scripts : s \in Seq(STRING)
      BY ScriptsAssumption, Zenon
    <3> QED BY <3>1, <3>2, Zenon
  <2>2. /\ script \in Scripts \union {<<>>}
        /\ pos \in 0 .. Len(script)
        /\ ReadInv
    BY SplitInv
  <2> QED BY <2>1, <2>2
<1>2. ASSUME script' \in Scripts \union {<<>>}, pos' \in 0 .. Len(script'), ReadInv'
      PROVE  IInv'
  BY <1>2 DEF IInv, ReadInv, TypeOK, AppdataOK, Handled
<1>3. ASSUME NEW s \in Scripts, NewConn(s) PROVE IInv'
  <2>1. Len(s) \in Nat
    BY ScriptsAssumption
  <2> QED BY <1>2, <1>3, <2>1, FreshInv DEF NewConn, Fresh
<1>4. ASSUME NEW n \in 1 .. Len(script), Read(n) PROVE IInv'
  <2>1. n \in 1 .. Len(script) - pos /\ pos' = pos + n /\ UNCHANGED script
    BY <1>4 DEF Read
  <2>2. pos' \in 0 .. Len(script')
    BY <1>1, <2>1
  <2>3. SubSeq(script, pos + 1, pos + n) \in Seq(STRING)
    BY <1>1, <2>1
  <2>4. ReadInv'
    <3>1. CASE ReadRequest(SubSeq(script, pos + 1, pos + n))
      BY <1>1, <2>3, <3>1, ReadRequestInv
    <3>2. CASE ReadPostData(SubSeq(script, pos + 1, pos + n))
      BY <1>1, <2>3, <3>2, ReadPostDataInv
    <3>3. CASE ReadInShowtime
      BY <1>1, <3>3 DEF ReadInShowtime, ReadInv, AppdataOK, NoEndInBuffer,
         LengthRemembered, Incomplete, Has
    <3> QED BY <1>4, <3>1, <3>2, <3>3 DEF Read
  <2> QED BY <1>1, <1>2, <2>1, <2>2, <2>4
<1>5. CASE Closed
  BY <1>2, <1>5, FreshInv DEF Closed, Fresh
<1>6. CASE UNCHANGED vars
  <2>1. ReadInv'
    BY <1>1, <1>6 DEF vars, ReadInv, AppdataOK, NoEndInBuffer, LengthRemembered,
       Incomplete, Has
  <2> QED BY <1>1, <1>2, <1>6, <2>1 DEF vars
<1> QED BY <1>3, <1>4, <1>5, <1>6 DEF Next

(* lib_httpd.c keeps its counts and states in range for every request and  *)
(* every way TCP cuts it; HTTP_L7_READ_POST_DATA never waits for bytes     *)
(* that are there already.                                                 *)
THEOREM TypeCorrect == Spec => []TypeOK
<1>1. IInv => TypeOK
  BY DEF IInv
<1> QED BY InitInv, NextInv, <1>1, PTL DEF Spec

-----------------------------------------------------------------------------
(* One request, wherever it is cut: the buffers hold what was read of it.  *)

Tokens == Seq(STRING)

LEMMA SubFacts ==
  ASSUME NEW s \in Tokens, NEW a \in Int, NEW b \in Int, 1 <= a, b <= Len(s), a <= b + 1
  PROVE  /\ SubSeq(s, a, b) \in Tokens /\ Len(SubSeq(s, a, b)) = b - a + 1
         /\ \A j \in 1 .. b - a + 1 : SubSeq(s, a, b)[j] = s[a + j - 1]
<1>1. Len(s) \in Nat
  BY DEF Tokens
<1>2. \A j \in a .. b : s[j] \in STRING
  BY <1>1 DEF Tokens
<1>3. /\ SubSeq(s, a, b) \in Tokens
      /\ Len(SubSeq(s, a, b)) = IF a <= b THEN b - a + 1 ELSE 0
      /\ \A j \in 1 .. b - a + 1 : SubSeq(s, a, b)[j] = s[a + j - 1]
  BY <1>2, SubSeqProperties DEF Tokens
<1> QED BY <1>1, <1>3

(* What is read piece by piece is what is read at once.                    *)
LEMMA ReadOn ==
  ASSUME NEW s \in Tokens, NEW a \in Int, NEW b \in Int, NEW c \in Int,
         1 <= a, a <= b + 1, b <= c, c <= Len(s)
  PROVE  SubSeq(s, a, b) \o SubSeq(s, b + 1, c) = SubSeq(s, a, c)
<1> DEFINE p == SubSeq(s, a, b)
           q == SubSeq(s, b + 1, c)
           w == SubSeq(s, a, c)
           l == Len(s)
<1>0. l \in Nat
  BY DEF Tokens
<1>1. p \in Tokens /\ Len(p) = b - a + 1 /\ \A j \in 1 .. b - a + 1 : p[j] = s[a + j - 1]
  BY <1>0, SubFacts
<1>2. /\ q \in Tokens /\ Len(q) = c - (b + 1) + 1
      /\ \A j \in 1 .. c - (b + 1) + 1 : q[j] = s[b + 1 + j - 1]
  BY <1>0, SubFacts
<1>3. w \in Tokens /\ Len(w) = c - a + 1 /\ \A j \in 1 .. c - a + 1 : w[j] = s[a + j - 1]
  BY <1>0, SubFacts
<1> HIDE DEF p, q, w, l
<1>4. /\ p \o q \in Tokens /\ Len(p \o q) = Len(p) + Len(q)
      /\ \A j \in 1 .. Len(p) + Len(q) :
           (p \o q)[j] = IF j <= Len(p) THEN p[j] ELSE q[j - Len(p)]
  BY <1>1, <1>2, ConcatProperties DEF Tokens
<1>5. Len(p \o q) = Len(w)
  BY <1>0, <1>1, <1>2, <1>3, <1>4
<1>6. ASSUME NEW j \in 1 .. Len(w) PROVE (p \o q)[j] = w[j]
  <2>1. j \in Int /\ 1 <= j /\ j <= c - a + 1
    BY <1>3
  <2>2. CASE j <= b - a + 1
    <3>1. j \in 1 .. b - a + 1 /\ j <= Len(p) /\ j \in 1 .. Len(p) + Len(q)
      BY <1>0, <1>1, <1>2, <2>1, <2>2
    <3>2. (p \o q)[j] = p[j]
      BY <1>4, <3>1
    <3>3. p[j] = s[a + j - 1] /\ w[j] = s[a + j - 1]
      BY <1>1, <1>3, <2>1, <3>1
    <3> QED BY <3>2, <3>3
  <2>3. CASE ~(j <= b - a + 1)
    <3>1. /\ j - Len(p) \in 1 .. c - (b + 1) + 1
          /\ b + 1 + (j - Len(p)) - 1 = a + j - 1
      BY <1>1, <2>1, <2>3
    <3>2. q[j - Len(p)] = s[a + j - 1]
      BY <1>2, <3>1
    <3> QED BY <1>1, <1>3, <1>4, <1>5, <2>1, <2>3, <3>2
  <2> QED BY <2>2, <2>3
<1>7. p \o q = w
  <2> DEFINE z == p \o q
  <2>1. z \in Seq(STRING) /\ w \in Seq(STRING) /\ Len(z) = Len(w) /\ \A j \in 1 .. Len(z) : z[j] = w[j]
    BY <1>3, <1>4, <1>5, <1>6 DEF Tokens
  <2> HIDE DEF z
  <2>2. z = w
    BY <2>1, SeqEqual
  <2> QED BY <2>2 DEF z
<1> QED BY <1>7 DEF p, q, w

(* A piece of a prefix is a piece of the whole.                            *)
LEMMA SubOfPrefix ==
  ASSUME NEW s \in Tokens, NEW c \in Int, 0 <= c, c <= Len(s),
         NEW a \in Int, NEW b \in Int, 1 <= a, a <= b + 1, b <= c
  PROVE  SubSeq(SubSeq(s, 1, c), a, b) = SubSeq(s, a, b)
<1> DEFINE w == SubSeq(s, 1, c)
           l == Len(s)
<1>0. l \in Nat
  BY DEF Tokens
<1>1. w \in Tokens /\ Len(w) = c /\ \A j \in 1 .. c : w[j] = s[j]
  <2>1. w \in Tokens /\ Len(w) = c - 1 + 1 /\ \A j \in 1 .. c - 1 + 1 : w[j] = s[1 + j - 1]
    BY <1>0, SubFacts
  <2> QED BY <1>0, <2>1
<1> DEFINE y == SubSeq(s, a, b)
           z == SubSeq(w, a, b)
<1>2. y \in Tokens /\ Len(y) = b - a + 1 /\ \A j \in 1 .. b - a + 1 : y[j] = s[a + j - 1]
  BY <1>0, SubFacts
<1> HIDE DEF w, y
<1>3. z \in Tokens /\ Len(z) = b - a + 1 /\ \A j \in 1 .. b - a + 1 : z[j] = w[a + j - 1]
  BY <1>1, SubFacts
<1> HIDE DEF z
<1>4. ASSUME NEW j \in 1 .. Len(z) PROVE z[j] = y[j]
  <2>1. j \in 1 .. b - a + 1 /\ a + j - 1 \in 1 .. c
    BY <1>3
  <2> QED BY <1>1, <1>2, <1>3, <2>1
<1>5. z = y
  BY <1>2, <1>3, <1>4, SeqEqual DEF Tokens
<1> QED BY <1>5 DEF w, y, z

(* The lengths of the properties are those of the request's shape.         *)
LEMMA Lengths ==
  ASSUME NEW e, NEW h, NEW r, script \in Tokens, Shaped(script, e, h, r)
  PROVE  /\ HeadersLength = h /\ (HasBody <=> r # h) /\ RequestLength = r
         /\ e \in Nat /\ h \in Nat /\ r \in Nat /\ Len(script) \in Nat /\ Len(Body) \in Nat
         /\ 1 <= e /\ e < h /\ h <= e + 2 /\ h <= r /\ r <= Len(script) /\ Len(script) <= r + 2
         /\ Len(Body) > 0 /\ script[h] = "lf" /\ \A j \in 1 .. e : script[j] \in Lines
         /\ r # h => h = e + 2 /\ r = h + Len(Body) /\ script[1] = "post"
<1>0. Len(script) \in Nat /\ Len(Body) \in Nat /\ Len(Body) > 0
  BY BodyAssumption DEF Tokens
<1>1. /\ e \in Nat /\ h \in Nat /\ r \in Nat
      /\ 1 <= e /\ e < h /\ h <= e + 2 /\ h <= r /\ r <= Len(script)
      /\ script[h] = "lf" /\ h \in 1 .. Len(script)
  BY <1>0 DEF Shaped
<1>2. Len(script) <= r + 2
  BY <1>0, <1>1 DEF Shaped
<1>3. \A j \in 1 .. e : script[j] \in Lines
  <2>1. \A j \in 1 .. e : j = 1 \/ j \in 2 .. e
    BY <1>1
  <2>2. script[1] \in Lines /\ \A j \in 2 .. e : script[j] \in Lines
    BY DEF Shaped, Lines
  <2> QED BY <2>1, <2>2
<1>4. \A j \in 1 .. h - 1 : script[j] # "lf"
  <2>1. \A j \in 1 .. h - 1 : j \in 1 .. e \/ (j = e + 1 /\ h = e + 2)
    BY <1>1 DEF Shaped
  <2>2. \A j \in 1 .. e : script[j] # "lf"
    BY <1>3 DEF Lines
  <2>3. h = e + 2 => script[e + 1] # "lf"
    BY DEF Shaped
  <2> QED BY <2>1, <2>2, <2>3
<1>5. HeadersLength = h
  <2>1. \A i \in 1 .. Len(script) :
          script[i] = "lf" /\ (\A j \in 1 .. i - 1 : script[j] # "lf") => i = h
    <3>1. SUFFICES ASSUME NEW i \in 1 .. Len(script), script[i] = "lf",
                          \A j \in 1 .. i - 1 : script[j] # "lf"
                   PROVE  i = h
      OBVIOUS
    <3>2. ~(i < h)
      BY <1>1, <1>4, <3>1
    <3>3. ~(h < i)
      BY <1>1, <3>1
    <3> QED BY <1>1, <3>1, <3>2, <3>3
  <2> QED BY <1>1, <1>4, <2>1 DEF HeadersLength
<1>6. r # h <=> \E j \in 2 .. e : script[j] = "length"
  BY <1>0, <1>1 DEF Shaped
<1>7. HasBody <=> r # h
  <2>1. \A j \in 2 .. e : j \in 1 .. h
    BY <1>1
  <2>2. \A j \in 1 .. h : script[j] = "length" => j \in 2 .. e
    <3>1. \A j \in 1 .. h : j = 1 \/ j \in 2 .. e \/ j = h \/ (j = e + 1 /\ h = e + 2)
      BY <1>1
    <3>2. script[1] # "length" /\ script[h] # "length" /\ (h = e + 2 => script[e + 1] # "length")
      BY DEF Shaped
    <3> QED BY <3>1, <3>2
  <2>3. r # h => script[1] = "post"
    BY <1>6 DEF Shaped
  <2> QED BY <1>5, <1>6, <2>1, <2>2, <2>3 DEF HasBody
<1>8. r # h => h = e + 2 /\ r = h + Len(Body) /\ script[1] = "post"
  BY <1>6 DEF Shaped
<1>9. RequestLength = r
  BY <1>0, <1>1, <1>5, <1>7, <1>8 DEF RequestLength
<1> QED BY <1>0, <1>1, <1>2, <1>3, <1>5, <1>7, <1>8, <1>9

(* How far a request has come: in its headers, in its body, answered; or   *)
(* refused, when it is neither a GET nor a POST.                           *)
InHeaders ==
  /\ l7state = "HTTP_L7_INIT" /\ rdb = SubSeq(script, 1, pos)
  /\ wanted = 0 /\ content = <<>> /\ handled = <<>>

InBody(e, h) ==
  /\ l7state = "HTTP_L7_READ_POST_DATA" /\ rdb = SubSeq(script, 1, e)
  /\ wanted = Len(Body) /\ content = SubSeq(script, h + 1, pos) /\ handled = <<>>

Remains(e, r) ==
  /\ l7state = "HTTP_L7_INIT"
  /\ \/ rdb = SubSeq(script, 1, e)
     \/ pos = r + 1 /\ rdb = SubSeq(script, 1, e) \o <<"cr">>

Whole(body) == Len(Body) <= Len(body) /\ \A j \in 1 .. Len(Body) : body[j] = Body[j]

Answered(e, h, r) ==
  /\ \/ Len(handled) = 1
     \/ Len(handled) = 2 /\ r = h /\ pos = r + 2
  /\ r # h => \A i \in 1 .. Len(handled) : Whole(handled[i].body)
  /\ r = h => wanted = 0 /\ content = <<>>
  /\ pos < Len(script) => Remains(e, r)

Refused ==
  /\ handled = <<>> /\ l7state # "HTTP_L7_READ_POST_DATA"
  /\ \/ pos = 0 /\ rdb = <<>> /\ l7state # "HTTP_L7_SHOWTIME"
     \/ rdb # <<>> /\ rdb[1] = script[1]

Progress(e, h, r) ==
  IF script[1] \notin {"get", "post"} THEN Refused
  ELSE /\ pos < h => InHeaders
       /\ h <= pos /\ pos < r => InBody(e, h)
       /\ r <= pos => Answered(e, h, r)

(* How often a read that goes on runs the handler.                         *)
Counted(h, r) ==
  Len(handled') =
    Len(handled) +
      IF (pos < r /\ r <= pos') \/ (r = h /\ r <= pos /\ pos' = r + 2) THEN 1 ELSE 0

(* No line of the headers but the last ends them.                          *)
LEMMA EndIsLast ==
  ASSUME NEW e, NEW h, NEW r, script \in Tokens, Shaped(script, e, h, r),
         NEW buf \in Tokens, e <= Len(buf), \A j \in 1 .. e : buf[j] = script[j],
         NEW i \in 1 .. Len(buf), HeadersEnd(buf, i)
  PROVE  e <= i
<1>1. e \in Nat /\ Len(buf) \in Nat /\ \A j \in 1 .. e : script[j] \in Lines
  BY Lengths DEF Tokens
<1>2. SUFFICES ASSUME i < e PROVE FALSE
  BY <1>1
<1>3. i + 1 \in 1 .. e /\ buf[i + 1] \in Lines
  BY <1>1, <1>2
<1> QED BY <1>3 DEF HeadersEnd, Lines

(* The headers are complete with the LF of the empty line, not before.     *)
LEMMA EndOfHeaders ==
  ASSUME NEW e, NEW h, NEW r, script \in Tokens, Shaped(script, e, h, r),
         NEW c \in 0 .. Len(script), NEW buf, buf = SubSeq(script, 1, c)
  PROVE  /\ c < h => Incomplete(buf)
         /\ h <= c => ~Incomplete(buf) /\ \A i : IsEnd(buf, i) => i = e
<1>0. /\ e \in Nat /\ h \in Nat /\ Len(script) \in Nat /\ 1 <= e /\ e < h /\ h <= e + 2
      /\ h <= Len(script) /\ script[h] = "lf" /\ \A j \in 1 .. e : script[j] \in Lines
      /\ r \in Nat /\ r <= Len(script) /\ h <= r
  BY Lengths
<1>1. buf \in Tokens /\ Len(buf) = c /\ \A j \in 1 .. c : buf[j] = script[j]
  <2>1. buf \in Tokens /\ Len(buf) = c - 1 + 1 /\ \A j \in 1 .. c - 1 + 1 : buf[j] = script[1 + j - 1]
    BY <1>0, SubFacts
  <2> QED BY <1>0, <2>1
<1>2. h = e + 1 \/ (h = e + 2 /\ script[e + 1] = "cr")
  BY <1>0 DEF Shaped
<1>3. ASSUME c < h PROVE Incomplete(buf)
  <2>1. SUFFICES ASSUME NEW i \in 1 .. c, HeadersEnd(buf, i) PROVE FALSE
    BY <1>1 DEF Incomplete
  <2>2. i + 1 \in 1 .. c /\ buf[i + 1] = script[i + 1] /\ EndsLine(buf[i])
    BY <1>0, <1>1, <2>1 DEF HeadersEnd
  <2>3. CASE i + 1 \in 1 .. e
    BY <1>0, <2>1, <2>2, <2>3 DEF HeadersEnd, Lines
  <2>4. CASE i + 1 = e + 1 /\ h = e + 2 /\ script[e + 1] = "cr"
    <3>1. ~(i + 2 <= Len(buf))
      BY <1>0, <1>1, <1>3, <2>4
    <3> QED BY <2>1, <2>2, <2>4, <3>1 DEF HeadersEnd
  <2> QED BY <1>0, <1>2, <1>3, <2>2, <2>3, <2>4
<1>4. ASSUME h <= c PROVE ~Incomplete(buf) /\ \A i : IsEnd(buf, i) => i = e
  <2>1. e \in 1 .. Len(buf) /\ h \in 1 .. Len(buf) /\ buf[e] = script[e] /\ buf[h] = "lf"
    BY <1>0, <1>1, <1>4
  <2>2. HeadersEnd(buf, e)
    <3>1. EndsLine(buf[e])
      BY <1>0, <2>1 DEF EndsLine
    <3>2. h = e + 2 => buf[e + 1] = "cr"
      BY <1>0, <1>1, <1>2, <1>4
    <3> QED BY <1>0, <1>1, <1>2, <1>4, <2>1, <3>1, <3>2 DEF HeadersEnd
  <2>3. ASSUME NEW i, IsEnd(buf, i) PROVE i = e
    <3>1. i \in 1 .. Len(buf) /\ HeadersEnd(buf, i) /\ \A j \in 1 .. i - 1 : ~HeadersEnd(buf, j)
      BY <2>3 DEF IsEnd
    <3>2. e <= Len(buf) /\ \A j \in 1 .. e : buf[j] = script[j]
      BY <1>0, <1>1, <1>4
    <3>3. e <= i
      BY <1>1, <3>1, <3>2, EndIsLast
    <3>4. ~(e < i)
      BY <1>0, <2>2, <3>1
    <3> QED BY <1>0, <1>1, <3>1, <3>3, <3>4
  <2> QED BY <2>1, <2>2, <2>3 DEF Incomplete
<1> QED BY <1>3, <1>4

LEMMA KindFacts ==
  ASSUME NEW headers
  PROVE  /\ RequestKind(headers) \in {headers[1], "unknown"}
         /\ RequestKind(headers) \in {"get", "post", "connect", "unknown"}
BY DEF RequestKind, Methods

LEMMA KindOfRequest ==
  ASSUME NEW headers \in Tokens, Len(headers) >= 1, headers[1] \in {"get", "post"},
         \A j \in 2 .. Len(headers) : headers[j] \in {"length", "host"}
  PROVE  RequestKind(headers) = headers[1]
<1> DEFINE found == {m \in 1 .. 3 : \E i \in 1 .. Len(headers) : headers[i] = Methods[m]}
<1>1. Len(headers) \in Nat /\ 1 \in 1 .. Len(headers)
  BY DEF Tokens
<1>2. \A i \in 1 .. Len(headers) : i = 1 \/ headers[i] \in {"length", "host"}
  BY <1>1
<1>3. Methods[1] = "get" /\ Methods[2] = "post" /\ Methods[3] = "connect"
  BY DEF Methods
<1>4. RequestKind(headers) =
        IF \E m \in found : (\A n \in found : m <= n) /\ headers[1] = Methods[m]
        THEN headers[1] ELSE "unknown"
  BY Zenon DEF RequestKind
<1>5. \A m \in found : headers[1] = Methods[m]
  BY <1>2, <1>3
<1>6. CASE headers[1] = "get"
  <2>1. found = {1}
    BY <1>1, <1>3, <1>5, <1>6
  <2> HIDE DEF found
  <2> QED BY <1>3, <1>4, <1>6, <2>1
<1>7. CASE headers[1] = "post"
  <2>1. found = {2}
    BY <1>1, <1>3, <1>5, <1>7
  <2> HIDE DEF found
  <2> QED BY <1>3, <1>4, <1>7, <2>1
<1> QED BY <1>6, <1>7

LEMMA WholeBody ==
  ASSUME NEW e, NEW h, NEW r, script \in Tokens, Shaped(script, e, h, r), r # h,
         NEW q \in r .. Len(script)
  PROVE  Whole(SubSeq(script, h + 1, q))
<1> DEFINE b == SubSeq(script, h + 1, q)
           l == Len(script)
           m == Len(Body)
<1>0. /\ h \in Nat /\ r \in Nat /\ l \in Nat /\ m \in Nat /\ r = h + m /\ r <= l
      /\ q \in Int /\ r <= q /\ q <= l
  BY Lengths
<1>1. \A j \in 1 .. m : script[h + j] = Body[j]
  BY <1>0 DEF Shaped
<1>2. b \in Tokens /\ Len(b) = q - (h + 1) + 1
      /\ \A j \in 1 .. q - (h + 1) + 1 : b[j] = script[h + 1 + j - 1]
  BY <1>0, SubFacts
<1> HIDE DEF b, l, m
<1>3. m <= Len(b)
  BY <1>0, <1>2
<1>4. ASSUME NEW j \in 1 .. m PROVE b[j] = Body[j]
  <2>1. j \in 1 .. q - (h + 1) + 1 /\ h + 1 + j - 1 = h + j
    BY <1>0
  <2> QED BY <1>1, <1>2, <2>1
<1> QED BY <1>3, <1>4 DEF Whole, b, m

(* A read that goes on with what the peer sends.                           *)
Cut(n) ==
  /\ script \in Tokens /\ pos \in 0 .. Len(script) /\ n \in 1 .. Len(script) - pos
  /\ pos' = pos + n /\ script' = script

Piece(n) == SubSeq(script, pos + 1, pos + n)

LEMMA CutFacts ==
  ASSUME NEW n, Cut(n)
  PROVE  /\ pos \in Nat /\ pos' \in Nat /\ pos < pos' /\ pos' <= Len(script)
         /\ n \in Nat /\ pos' = pos + n /\ pos' \in 0 .. Len(script)
         /\ Piece(n) \in Tokens /\ Len(Piece(n)) = n
         /\ \A j \in 1 .. n : Piece(n)[j] = script[pos + j]
<1>1. /\ pos \in Nat /\ pos' \in Nat /\ n \in Nat /\ Len(script) \in Nat
      /\ 1 <= n /\ pos' = pos + n /\ pos' <= Len(script)
  BY DEF Cut, Tokens
<1>2. /\ Piece(n) \in Tokens /\ Len(Piece(n)) = pos + n - (pos + 1) + 1
      /\ \A j \in 1 .. pos + n - (pos + 1) + 1 : Piece(n)[j] = script[pos + 1 + j - 1]
  <2>1. /\ script \in Tokens /\ pos + 1 \in Int /\ pos + n \in Int /\ 1 <= pos + 1
        /\ pos + n <= Len(script) /\ pos + 1 <= pos + n + 1
    BY <1>1 DEF Cut
  <2> QED BY <1>1, <2>1, SubFacts DEF Piece
<1>3. pos + n - (pos + 1) + 1 = n /\ \A j \in 1 .. n : pos + 1 + j - 1 = pos + j
  BY <1>1
<1> QED BY <1>1, <1>2, <1>3

LEMMA HeadersStep ==
  ASSUME AppdataOK, NEW e, NEW h, NEW r, NEW n, Cut(n), Shaped(script, e, h, r),
         script[1] \in {"get", "post"}, pos < h, InHeaders,
         ReadRequest(Piece(n)) \/ ReadPostData(Piece(n)) \/ ReadInShowtime
  PROVE  Progress(e, h, r)' /\ Counted(h, r)
<1> DEFINE buf == rdb \o Piece(n)
           headers == SubSeq(buf, 1, e)
<1>0. /\ pos \in Nat /\ pos' \in Nat /\ pos < pos' /\ pos' <= Len(script) /\ pos' = pos + n
      /\ pos' \in 0 .. Len(script) /\ script' = script /\ script \in Tokens
  BY CutFacts DEF Cut
<1>1. /\ e \in Nat /\ h \in Nat /\ r \in Nat /\ Len(script) \in Nat /\ Len(Body) \in Nat
      /\ 1 <= e /\ e < h /\ h <= e + 2 /\ h <= r /\ r <= Len(script)
      /\ Len(Body) > 0
      /\ r # h => h = e + 2 /\ r = h + Len(Body) /\ script[1] = "post"
  BY <1>0, Lengths
<1>2. ReadRequest(Piece(n)) /\ wanted = 0 /\ content = <<>> /\ got = 0 /\ handled = <<>>
      /\ l7state = "HTTP_L7_INIT"
  BY DEF InHeaders, ReadPostData, ReadInShowtime, AppdataOK
<1>3. buf = SubSeq(script, 1, pos')
  <2>1. rdb = SubSeq(script, 1, pos) /\ Piece(n) = SubSeq(script, pos + 1, pos')
    BY <1>0 DEF InHeaders, Piece
  <2>2. 1 <= pos + 1 /\ pos <= pos' /\ pos \in Int /\ pos' \in Int
    BY <1>0
  <2>3. SubSeq(script, 1, pos) \o SubSeq(script, pos + 1, pos') = SubSeq(script, 1, pos')
    BY <1>0, <2>2, ReadOn
  <2> QED BY <2>1, <2>3
<1>4. CASE pos' < h
  <2>1. Incomplete(buf)
    BY <1>0, <1>3, <1>4, EndOfHeaders
  <2>2. \A i \in 1 .. Len(buf) : ~IsEnd(buf, i)
    BY <2>1 DEF IsEnd, Incomplete
  <2>3. rdb' = buf /\ UNCHANGED <<l7state, wanted, got, content, handled>>
    BY <1>2, <2>2 DEF ReadRequest
  <2>4. InHeaders'
    BY <1>0, <1>2, <1>3, <2>3 DEF InHeaders
  <2>5. ~(h <= pos') /\ ~(r <= pos')
    BY <1>0, <1>1, <1>4
  <2>6. handled' = handled /\ ~(r <= pos)
    BY <1>0, <1>1, <2>3
  <2> QED BY <1>0, <1>2, <2>4, <2>5, <2>6 DEF Progress, Counted
<1>5. CASE h <= pos'
  <2>1. ~Incomplete(buf) /\ \A i : IsEnd(buf, i) => i = e
    BY <1>0, <1>3, <1>5, EndOfHeaders
  <2> HIDE DEF buf
  <2>2. /\ rdb' = headers
        /\ \/ /\ RequestKind(headers) = "unknown"
              /\ UNCHANGED <<l7state, wanted, got, content, handled>>
           \/ /\ RequestKind(headers) # "unknown" /\ ParseHeaders(buf, e)
              /\ RequestComplete(RequestKind(headers))
    BY <1>2, <2>1 DEF ReadRequest, buf
  <2>3. headers = SubSeq(script, 1, e)
    BY <1>0, <1>1, <1>3, <1>5, SubOfPrefix
  <2> DEFINE hd == SubSeq(script, 1, e)
  <2>4. hd \in Tokens /\ Len(hd) = e /\ \A j \in 1 .. e : hd[j] = script[j]
    <3>1. hd \in Tokens /\ Len(hd) = e - 1 + 1 /\ \A j \in 1 .. e - 1 + 1 : hd[j] = script[1 + j - 1]
      BY <1>0, <1>1, SubFacts
    <3> QED BY <1>1, <3>1
  <2>5. headers = hd
    BY <2>3
  <2> HIDE DEF headers, hd
  <2>6. RequestKind(headers) = script[1]
    <3>1. hd[1] = script[1] /\ Len(hd) >= 1
      BY <1>1, <2>4
    <3>2. \A j \in 2 .. Len(hd) : hd[j] \in {"length", "host"}
      BY <1>1, <2>4 DEF Shaped
    <3>3. RequestKind(hd) = hd[1]
      BY <2>4, <3>1, <3>2, KindOfRequest
    <3> QED BY <2>5, <3>1, <3>3
  <2>7. rdb' = hd /\ ParseHeaders(buf, e) /\ RequestComplete(script[1])
    BY <2>2, <2>5, <2>6
  <2>8. Contains(SubSeq(buf, 1, e), "length") <=> r # h
    <3>1. SubSeq(buf, 1, e) = hd
      BY <2>5 DEF headers
    <3>2. Contains(hd, "length") <=> \E j \in 1 .. e : script[j] = "length"
      BY <2>4 DEF Contains
    <3>3. \A j \in 1 .. e : script[j] = "length" => j \in 2 .. e
      BY <1>1
    <3>4. \A j \in 2 .. e : j \in 1 .. e
      BY <1>1
    <3>5. r # h <=> \E j \in 2 .. e : script[j] = "length"
      BY <1>1 DEF Shaped
    <3> QED BY <3>1, <3>2, <3>3, <3>4, <3>5
  <2>9. Remains(e, r)' <=> l7state' = "HTTP_L7_INIT" /\
                           (rdb' = hd \/ (pos' = r + 1 /\ rdb' = hd \o <<"cr">>))
    BY <1>0 DEF Remains, hd
  <2>10. ASSUME HandleRequest(script[1]), r <= pos', r # h => Whole(content'),
                r = h => wanted' = 0 /\ content' = <<>>
         PROVE  Progress(e, h, r)' /\ Counted(h, r)
    <3>1. /\ l7state' = "HTTP_L7_INIT"
          /\ handled' = Append(<<>>, [kind |-> script[1], body |-> content'])
      BY <1>2, <2>10 DEF HandleRequest
    <3>2. Len(handled') = 1 /\ handled'[1].body = content'
      BY <3>1
    <3>3. \A i \in 1 .. Len(handled') : i = 1
      BY <3>2
    <3>4. Remains(e, r)'
      BY <2>7, <2>9, <3>1
    <3>5. Answered(e, h, r)'
      BY <2>10, <3>2, <3>3, <3>4 DEF Answered
    <3>6. ~(pos' < h) /\ ~(pos' < r)
      BY <1>0, <1>1, <1>5, <2>10
    <3>7. pos < r /\ Len(handled) = 0
      BY <1>0, <1>1, <1>2
    <3> QED BY <1>0, <2>10, <3>2, <3>5, <3>6, <3>7 DEF Progress, Counted
  <2>11. CASE r = h
    <3>1. wanted' = 0 /\ got' = 0 /\ content' = <<>>
      BY <1>2, <2>7, <2>8, <2>11 DEF ParseHeaders
    <3>2. HandleRequest(script[1])
      BY <2>7, <3>1 DEF RequestComplete
    <3> QED BY <1>5, <2>10, <2>11, <3>1, <3>2
  <2>12. CASE r # h
    <3> DEFINE q == Least(pos', r)
    <3>1. wanted' = Len(Body) /\ content' = BodyAfter(buf, e) /\ got' = Len(content')
      BY <2>7, <2>8, <2>12 DEF ParseHeaders
    <3>2. q \in Nat /\ q <= pos' /\ q <= r /\ h <= q /\ (q = pos' \/ q = r)
      BY <1>0, <1>1, <1>5 DEF Least
    <3>3. Len(buf) = pos'
      <4>1. Len(buf) = pos' - 1 + 1
        BY <1>0, <1>1, <1>3, SubFacts
      <4> QED BY <1>0, <4>1
    <3>4. BodyAfter(buf, e) = SubSeq(buf, h + 1, q)
      <4>1. e + 3 = h + 1 /\ e + 2 + Len(Body) = r
        BY <1>1, <2>12
      <4> QED BY <3>3, <4>1 DEF BodyAfter
    <3> HIDE DEF q
    <3>5. SubSeq(buf, h + 1, q) = SubSeq(script, h + 1, q)
      BY <1>0, <1>1, <1>3, <3>2, SubOfPrefix
    <3>6. content' = SubSeq(script, h + 1, q)
      BY <3>1, <3>4, <3>5
    <3>7. got' = q - h
      <4>1. Len(SubSeq(script, h + 1, q)) = q - (h + 1) + 1
        BY <1>0, <1>1, <3>2, SubFacts
      <4> QED BY <1>1, <3>1, <3>2, <3>6, <4>1
    <3>8. CASE pos' < r
      <4>1. q = pos' /\ got' # wanted'
        BY <1>0, <1>1, <2>12, <3>1, <3>2, <3>7, <3>8
      <4>2. l7state' = "HTTP_L7_READ_POST_DATA" /\ UNCHANGED handled
        BY <1>1, <2>7, <2>12, <4>1 DEF RequestComplete
      <4>3. InBody(e, h)'
        BY <1>0, <1>2, <2>7, <3>1, <3>6, <4>1, <4>2 DEF InBody, hd
      <4>4. ~(pos' < h) /\ ~(r <= pos')
        BY <1>0, <1>1, <1>5, <3>8
      <4>5. handled' = handled /\ ~(r <= pos)
        BY <1>0, <1>1, <4>2
      <4> QED BY <1>0, <1>2, <4>3, <4>4, <4>5 DEF Progress, Counted
    <3>9. CASE r <= pos'
      <4>1. q = r
        BY <1>0, <1>1, <3>9 DEF q, Least
      <4>2. got' = wanted'
        BY <1>1, <2>12, <3>1, <3>7, <4>1
      <4>3. HandleRequest(script[1])
        BY <1>1, <2>7, <2>12, <4>2 DEF RequestComplete
      <4>4. Whole(content')
        BY <1>0, <1>1, <2>12, <3>6, <4>1, WholeBody
      <4> QED BY <2>10, <2>12, <3>9, <4>3, <4>4
    <3> QED BY <1>0, <1>1, <3>8, <3>9
  <2> QED BY <2>11, <2>12
<1> QED BY <1>0, <1>1, <1>4, <1>5

LEMMA BodyStep ==
  ASSUME AppdataOK, NEW e, NEW h, NEW r, NEW n, Cut(n), Shaped(script, e, h, r),
         script[1] \in {"get", "post"}, h <= pos, pos < r, InBody(e, h),
         ReadRequest(Piece(n)) \/ ReadPostData(Piece(n)) \/ ReadInShowtime
  PROVE  Progress(e, h, r)' /\ Counted(h, r)
<1>0. /\ pos \in Nat /\ pos' \in Nat /\ pos < pos' /\ pos' <= Len(script) /\ pos' = pos + n
      /\ n \in Nat /\ script' = script /\ script \in Tokens /\ Len(Piece(n)) = n
  BY CutFacts DEF Cut
<1>1. /\ e \in Nat /\ h \in Nat /\ r \in Nat /\ Len(script) \in Nat /\ Len(Body) \in Nat
      /\ r <= Len(script) /\ h <= r
      /\ r # h => h = e + 2 /\ r = h + Len(Body) /\ script[1] = "post"
  BY <1>0, Lengths
<1>2. r # h /\ r = h + Len(Body) /\ script[1] = "post"
  BY <1>0, <1>1
<1>3. /\ ReadPostData(Piece(n)) /\ wanted = Len(Body) /\ handled = <<>>
      /\ content = SubSeq(script, h + 1, pos) /\ rdb = SubSeq(script, 1, e) /\ got = Len(content)
  BY DEF InBody, ReadRequest, ReadInShowtime, AppdataOK
<1>4. got = pos - h
  <2>1. Len(SubSeq(script, h + 1, pos)) = pos - (h + 1) + 1
    BY <1>0, <1>1, SubFacts
  <2> QED BY <1>0, <1>1, <1>3, <2>1
<1>5. got' = pos' - h
  BY <1>0, <1>1, <1>3, <1>4 DEF ReadPostData
<1>6. content' = SubSeq(script, h + 1, pos')
  <2>1. content' = SubSeq(script, h + 1, pos) \o SubSeq(script, pos + 1, pos')
    BY <1>0, <1>3 DEF ReadPostData, Piece
  <2> QED BY <1>0, <1>1, <2>1, ReadOn
<1>7. rdb' = rdb /\ wanted' = wanted
  BY <1>3 DEF ReadPostData
<1>8. CASE pos' < r
  <2>1. ~Enough
    BY <1>0, <1>1, <1>2, <1>3, <1>5, <1>8 DEF Enough
  <2>2. UNCHANGED <<l7state, handled>>
    BY <1>3, <2>1 DEF ReadPostData
  <2>3. InBody(e, h)'
    BY <1>0, <1>3, <1>6, <1>7, <2>2 DEF InBody
  <2>4. ~(pos' < h) /\ ~(r <= pos')
    BY <1>0, <1>1, <1>8
  <2> QED BY <1>0, <1>1, <1>2, <1>3, <1>8, <2>2, <2>3, <2>4 DEF Progress, Counted
<1>9. CASE r <= pos'
  <2>1. Enough
    BY <1>0, <1>1, <1>2, <1>3, <1>5, <1>9 DEF Enough
  <2>2. /\ l7state' = "HTTP_L7_INIT"
        /\ handled' = Append(<<>>, [kind |-> "post", body |-> content'])
    BY <1>3, <2>1 DEF ReadPostData, PostHandled, HandleRequest
  <2>3. Len(handled') = 1 /\ handled'[1].body = content'
    BY <2>2
  <2>4. \A i \in 1 .. Len(handled') : i = 1
    BY <2>3
  <2>5. Whole(content')
    BY <1>0, <1>1, <1>2, <1>6, <1>9, WholeBody
  <2>6. Remains(e, r)'
    BY <1>0, <1>3, <1>7, <2>2 DEF Remains
  <2>7. Answered(e, h, r)'
    BY <1>0, <1>2, <2>3, <2>4, <2>5, <2>6 DEF Answered
  <2>8. ~(pos' < h) /\ ~(pos' < r)
    BY <1>0, <1>1, <1>9
  <2>9. Len(handled) = 0 /\ pos < r
    BY <1>3
  <2> QED BY <1>0, <1>1, <1>9, <2>3, <2>7, <2>8, <2>9 DEF Progress, Counted
<1> QED BY <1>0, <1>1, <1>8, <1>9

(* What a POST's second empty line completes has no body.                  *)
LEMMA NoSecondBody ==
  ASSUME NEW e, NEW h, NEW r, script \in Tokens, Shaped(script, e, h, r), r # h,
         NEW buf \in Tokens, e <= Len(buf), Len(buf) <= e + 2,
         \A j \in 1 .. e : buf[j] = script[j],
         NEW i \in 1 .. Len(buf), HeadersEnd(buf, i),
         RequestKind(SubSeq(buf, 1, i)) # "unknown",
         ParseHeaders(buf, i), RequestComplete(RequestKind(SubSeq(buf, 1, i)))
  PROVE  UNCHANGED handled
<1> DEFINE headers == SubSeq(buf, 1, i)
           kind == RequestKind(headers)
<1>0. /\ e \in Nat /\ 1 <= e /\ script[1] = "post" /\ Len(Body) \in Nat /\ Len(Body) > 0
      /\ Len(buf) \in Nat /\ i \in Nat /\ i <= Len(buf)
  BY Lengths DEF Tokens
<1>1. e <= i
  BY EndIsLast
<1>2. headers \in Tokens /\ Len(headers) = i /\ \A j \in 1 .. i : headers[j] = buf[j]
  <2>1. headers \in Tokens /\ Len(headers) = i - 1 + 1
        /\ \A j \in 1 .. i - 1 + 1 : headers[j] = buf[1 + j - 1]
    BY <1>0, SubFacts
  <2> QED BY <1>0, <2>1
<1> HIDE DEF headers
<1>3. Contains(headers, "length")
  <2>1. PICK j \in 2 .. e : script[j] = "length"
    BY <1>0 DEF Shaped
  <2>2. j \in 1 .. i /\ j \in 1 .. e
    BY <1>0, <1>1
  <2>3. headers[j] = "length"
    BY <1>2, <2>1, <2>2
  <2> QED BY <1>2, <2>2, <2>3 DEF Contains
<1>4. wanted' = Len(Body) /\ content' = BodyAfter(buf, i) /\ got' = Len(content')
  BY <1>3 DEF ParseHeaders, headers
<1>5. BodyAfter(buf, i) = <<>>
  <2> DEFINE q == Least(Len(buf), i + 2 + Len(Body))
  <2>1. q \in Int /\ q < i + 3
    BY <1>0, <1>1 DEF Least
  <2>2. i + 3 \in Int
    BY <1>0
  <2> HIDE DEF q
  <2>3. SubSeq(buf, i + 3, q) = <<>>
    BY <2>1, <2>2, SubSeqEmpty
  <2> QED BY <2>3 DEF BodyAfter, q
<1>6. got' = 0 /\ wanted' # got'
  BY <1>0, <1>4, <1>5
<1>7. headers[1] = "post"
  <2>1. 1 \in 1 .. e /\ 1 \in 1 .. i
    BY <1>0, <1>1
  <2> QED BY <1>0, <1>2, <2>1
<1>8. RequestKind(headers) \in {"post", "unknown"}
  BY <1>7, KindFacts
<1>9. kind = "post" /\ RequestComplete(kind)
  BY <1>8 DEF headers
<1> QED BY <1>6, <1>9 DEF RequestComplete

LEMMA OneToken ==
  ASSUME NEW t \in STRING
  PROVE  <<t>> \in Tokens /\ Len(<<t>>) = 1 /\ <<t>>[1] = t
<1>1. <<t>> = Append(<<>>, t)
  OBVIOUS
<1>2. <<>> \in Seq(STRING)
  OBVIOUS
<1>3. Append(<<>>, t) \in Seq(STRING)
  BY <1>2, AppendProperties
<1>4. Len(<<t>>) = 1 /\ <<t>>[1] = t
  OBVIOUS
<1> QED BY <1>1, <1>3, <1>4 DEF Tokens

LEMMA AnsweredStep ==
  ASSUME AppdataOK, NEW e, NEW h, NEW r, NEW n, Cut(n), Shaped(script, e, h, r),
         script[1] \in {"get", "post"}, r <= pos, Answered(e, h, r),
         ReadRequest(Piece(n)) \/ ReadPostData(Piece(n)) \/ ReadInShowtime
  PROVE  Progress(e, h, r)' /\ Counted(h, r)
<1> DEFINE d == Piece(n)
           buf == rdb \o d
           hd == SubSeq(script, 1, e)
<1>0. /\ pos \in Nat /\ pos' \in Nat /\ pos < pos' /\ pos' <= Len(script) /\ pos' = pos + n
      /\ n \in Nat /\ script' = script /\ script \in Tokens /\ d \in Tokens /\ Len(d) = n
      /\ \A j \in 1 .. n : d[j] = script[pos + j]
  BY CutFacts DEF Cut
<1>1. /\ e \in Nat /\ h \in Nat /\ r \in Nat /\ Len(script) \in Nat
      /\ 1 <= e /\ e < h /\ h <= r /\ r <= Len(script) /\ Len(script) <= r + 2
      /\ r # h => script[1] = "post"
  BY <1>0, Lengths
<1>2. /\ Len(script) = r + 2 /\ script[r + 1] = "cr" /\ script[r + 2] = "lf"
      /\ pos \in {r, r + 1} /\ pos' \in {r + 1, r + 2}
  <2>1. Len(script) # r
    BY <1>0, <1>1
  <2>2. Len(script) = r + 2 /\ script[r + 1] = "cr" /\ script[r + 2] = "lf"
    BY <2>1 DEF Shaped
  <2> QED BY <1>0, <1>1, <2>2
<1>3. hd \in Tokens /\ Len(hd) = e /\ \A j \in 1 .. e : hd[j] = script[j]
  <2>1. hd \in Tokens /\ Len(hd) = e - 1 + 1 /\ \A j \in 1 .. e - 1 + 1 : hd[j] = script[1 + j - 1]
    BY <1>0, <1>1, SubFacts
  <2> QED BY <1>1, <2>1
<1>11. "cr" \in STRING
  <2>1. r + 1 \in 1 .. Len(script) /\ script \in Seq(STRING)
    BY <1>0, <1>1, <1>2 DEF Tokens
  <2>2. script[r + 1] \in STRING
    BY <2>1
  <2> QED BY <1>2, <2>2
<1>4. /\ Remains(e, r) /\ l7state = "HTTP_L7_INIT" /\ Len(handled) = 1
      /\ rdb = hd \/ (pos = r + 1 /\ rdb = hd \o <<"cr">>)
      /\ r = h => wanted = 0 /\ content = <<>> /\ got = 0
  <2>1. Remains(e, r) /\ Len(handled) = 1
    BY <1>0, <1>1, <1>2 DEF Answered
  <2>2. r = h => wanted = 0 /\ content = <<>> /\ got = 0
    BY DEF Answered, AppdataOK
  <2> QED BY <2>1, <2>2 DEF Remains
<1>5. ReadRequest(d) /\ handled \in Handled
  BY <1>4 DEF ReadPostData, ReadInShowtime, AppdataOK
<1> HIDE DEF hd, d
<1>6. /\ rdb \in Tokens /\ \A j \in 1 .. e : rdb[j] = script[j]
      /\ \/ Len(rdb) = e
         \/ Len(rdb) = e + 1 /\ pos = r + 1 /\ rdb[e + 1] = "cr"
  <2>1. CASE rdb = hd
    BY <1>3, <2>1
  <2>2. CASE pos = r + 1 /\ rdb = hd \o <<"cr">>
    <3> DEFINE z == <<"cr">>
    <3>1. z \in Tokens /\ Len(z) = 1 /\ z[1] = "cr"
      BY <1>11, OneToken, Zenon
    <3>6. rdb = hd \o z
      BY <2>2
    <3> HIDE DEF z
    <3>2. /\ rdb \in Tokens /\ Len(rdb) = e + 1
          /\ \A j \in 1 .. e + 1 : rdb[j] = IF j <= e THEN hd[j] ELSE z[j - e]
      <4>1. hd \in Seq(STRING) /\ z \in Seq(STRING)
        BY <1>3, <3>1 DEF Tokens
      <4>2. /\ hd \o z \in Seq(STRING) /\ Len(hd \o z) = Len(hd) + Len(z)
            /\ \A j \in 1 .. Len(hd) + Len(z) :
                 (hd \o z)[j] = IF j <= Len(hd) THEN hd[j] ELSE z[j - Len(hd)]
        BY <4>1, ConcatProperties
      <4>3. Len(hd) = e /\ Len(z) = 1
        BY <1>3, <3>1
      <4> QED BY <3>6, <4>2, <4>3 DEF Tokens
    <3>3. \A j \in 1 .. e : rdb[j] = hd[j]
      BY <1>1, <3>2
    <3>5. rdb[e + 1] = "cr"
      <4> DEFINE k == e + 1
      <4>2. k \in 1 .. e + 1 /\ ~(k <= e) /\ k - e = 1
        BY <1>1
      <4> HIDE DEF k
      <4>3. rdb[k] = IF k <= e THEN hd[k] ELSE z[k - e]
        BY <3>2, <4>2, Zenon
      <4>4. rdb[k] = z[k - e]
        BY <4>2, <4>3
      <4>1. rdb[e + 1] = z[1]
        BY <4>2, <4>4, Zenon DEF k
      <4> QED BY <3>1, <4>1
    <3> QED BY <1>3, <2>2, <3>2, <3>3, <3>5
  <2> QED BY <1>4, <2>1, <2>2
<1>7. /\ buf \in Tokens /\ Len(buf) = Len(rdb) + n /\ e <= Len(buf) /\ Len(buf) <= e + 2
      /\ \A j \in 1 .. e : buf[j] = script[j]
      /\ \A j \in 1 .. n : buf[Len(rdb) + j] = d[j]
  <2> DEFINE l == Len(rdb)
  <2>0. rdb \in Seq(STRING) /\ d \in Seq(STRING) /\ l \in Nat
    BY <1>0, <1>6 DEF Tokens
  <2>1. /\ buf \in Tokens /\ Len(buf) = l + n /\ l \in Nat
        /\ \A j \in 1 .. l + n : buf[j] = IF j <= l THEN rdb[j] ELSE d[j - l]
    <3>1. /\ rdb \o d \in Seq(STRING) /\ Len(rdb \o d) = Len(rdb) + Len(d)
          /\ \A j \in 1 .. Len(rdb) + Len(d) :
               (rdb \o d)[j] = IF j <= Len(rdb) THEN rdb[j] ELSE d[j - Len(rdb)]
      BY <2>0, ConcatProperties
    <3> QED BY <1>0, <2>0, <3>1 DEF Tokens
  <2>2. e <= l /\ e <= l + n /\ l + n <= e + 2
    BY <1>0, <1>1, <1>2, <1>6
  <2> HIDE DEF buf, l
  <2>3. \A j \in 1 .. e : buf[j] = rdb[j]
    BY <1>0, <1>1, <2>1, <2>2
  <2>4. ASSUME NEW j \in 1 .. n PROVE buf[l + j] = d[j]
    <3>1. l + j \in 1 .. l + n /\ ~(l + j <= l) /\ l + j - l = j
      BY <1>0, <2>1
    <3> QED BY <2>1, <3>1
  <2> QED BY <1>6, <2>1, <2>2, <2>3, <2>4 DEF l
<1> HIDE DEF buf
<1>8. ~(pos' < h) /\ ~(pos' < r)
  BY <1>0, <1>1, <1>2
<1>9. CASE pos' = r + 1
  <2>1. pos = r /\ n = 1 /\ rdb = hd /\ d[1] = "cr"
    BY <1>0, <1>1, <1>2, <1>4, <1>9
  <2>2. d = <<"cr">>
    <3> DEFINE z == <<"cr">>
    <3>1. z \in Tokens /\ Len(z) = 1 /\ z[1] = "cr"
      BY <1>11, OneToken, Zenon
    <3> HIDE DEF z
    <3>2. d \in Seq(STRING) /\ z \in Seq(STRING) /\ Len(d) = Len(z)
      BY <1>0, <2>1, <3>1 DEF Tokens
    <3>3. \A j \in 1 .. Len(d) : d[j] = z[j]
      BY <1>0, <2>1, <3>1
    <3>4. d = z
      BY <3>2, <3>3, SeqEqual
    <3> QED BY <3>4 DEF z
  <2>3. Len(buf) = e + 1 /\ buf[e + 1] = "cr"
    <3>1. 1 \in 1 .. n /\ Len(rdb) = e
      BY <1>1, <1>3, <2>1
    <3> QED BY <1>7, <2>1, <3>1
  <2>4. ASSUME NEW i \in 1 .. Len(buf), HeadersEnd(buf, i) PROVE FALSE
    <3>1. e <= i
      BY <1>0, <1>7, <2>4, EndIsLast
    <3>2. i = e \/ i = e + 1
      BY <1>1, <2>3, <3>1
    <3>3. CASE i = e
      BY <1>1, <2>3, <2>4, <3>3 DEF HeadersEnd
    <3>4. CASE i = e + 1
      BY <1>1, <2>3, <2>4, <3>4 DEF HeadersEnd, EndsLine, Lines
    <3> QED BY <3>2, <3>3, <3>4
  <2>5. rdb' = buf /\ UNCHANGED <<l7state, wanted, content, handled>>
    BY <1>5, <2>4 DEF ReadRequest, IsEnd, buf
  <2>6. Remains(e, r)'
    BY <1>0, <1>4, <1>9, <2>1, <2>2, <2>5 DEF Remains, buf, hd
  <2>7. Answered(e, h, r)'
    BY <1>0, <1>4, <2>5, <2>6 DEF Answered
  <2>8. Counted(h, r)
    BY <1>0, <1>1, <1>9, <2>1, <2>5 DEF Counted
  <2> QED BY <1>0, <1>8, <2>7, <2>8 DEF Progress
<1>10. CASE pos' = r + 2 /\ r # h
  <2>1. UNCHANGED handled
    <3>1. SUFFICES ASSUME ~UNCHANGED handled PROVE FALSE
      OBVIOUS
    <3>2. PICK i \in 1 .. Len(buf) :
            /\ IsEnd(buf, i) /\ RequestKind(SubSeq(buf, 1, i)) # "unknown"
            /\ ParseHeaders(buf, i) /\ RequestComplete(RequestKind(SubSeq(buf, 1, i)))
      BY <1>5, <3>1 DEF ReadRequest, buf
    <3> QED BY <1>0, <1>7, <1>10, <3>1, <3>2, NoSecondBody DEF IsEnd
  <2>2. ~(pos' < Len(script'))
    BY <1>0, <1>2, <1>10
  <2>3. r # h => \A i \in 1 .. Len(handled) : Whole(handled[i].body)
    BY DEF Answered
  <2>4. Answered(e, h, r)'
    BY <1>0, <1>4, <1>10, <2>1, <2>2, <2>3 DEF Answered
  <2>5. Counted(h, r)
    BY <1>0, <1>1, <1>4, <1>10, <2>1 DEF Counted
  <2> QED BY <1>0, <1>8, <2>4, <2>5 DEF Progress
<1>12. CASE pos' = r + 2 /\ r = h
  <2>1. /\ buf[e + 1] \in {"lf", "cr"} /\ e + 1 <= Len(buf)
        /\ buf[e + 1] = "cr" => e + 2 <= Len(buf) /\ buf[e + 2] = "lf"
    <3>1. d[n] = "lf" /\ (n = 2 => d[1] = "cr") /\ n \in {1, 2} /\ (n = 2 => pos = r)
      <4>1. n \in 1 .. n /\ pos + n = r + 2
        BY <1>0, <1>2, <1>12
      <4>2. n = 2 => pos = r /\ 1 \in 1 .. n
        BY <1>0, <1>2, <1>12
      <4>3. n \in {1, 2}
        BY <1>0, <1>1, <1>2, <1>12
      <4> QED BY <1>0, <1>2, <4>1, <4>2, <4>3
    <3>2. CASE Len(rdb) = e /\ n = 1
      <4>1. 1 \in 1 .. n
        BY <3>2
      <4> QED BY <1>0, <1>7, <3>1, <3>2, <4>1
    <3>3. CASE Len(rdb) = e /\ n = 2
      <4>1. 1 \in 1 .. n /\ 2 \in 1 .. n
        BY <3>3
      <4> QED BY <1>0, <1>1, <1>7, <3>1, <3>3, <4>1
    <3>4. CASE Len(rdb) = e + 1 /\ pos = r + 1 /\ rdb[e + 1] = "cr"
      <4>1. n = 1 /\ 1 \in 1 .. n
        BY <1>0, <1>1, <1>12, <3>4
      <4>2. buf[e + 2] = "lf" /\ Len(buf) = e + 2
        <5>1. buf[Len(rdb) + 1] = d[1] /\ d[1] = "lf"
          BY <1>7, <3>1, <4>1
        <5>2. Len(rdb) + 1 = e + 2 /\ Len(buf) = Len(rdb) + 1
          BY <1>1, <1>7, <3>4, <4>1
        <5> QED BY <5>1, <5>2
      <4>3. buf[e + 1] = "cr"
        <5>1. /\ rdb \in Seq(STRING) /\ d \in Seq(STRING)
              /\ e + 1 \in 1 .. Len(rdb) + Len(d) /\ e + 1 <= Len(rdb)
          BY <1>0, <1>1, <1>6, <3>4 DEF Tokens
        <5>2. (rdb \o d)[e + 1] = rdb[e + 1]
          BY <5>1, ConcatProperties
        <5> QED BY <3>4, <5>2 DEF buf
      <4> QED BY <1>1, <4>2, <4>3
    <3> QED BY <1>6, <3>1, <3>2, <3>3, <3>4
  <2>2. HeadersEnd(buf, e)
    <3>1. EndsLine(buf[e])
      <4>1. script[e] \in Lines
        <5>1. \A j \in 1 .. e : script[j] \in Lines
          BY <1>0, Lengths, Zenon
        <5> QED BY <1>1, <5>1
      <4>2. buf[e] = script[e]
        BY <1>1, <1>7
      <4> QED BY <4>1, <4>2 DEF EndsLine
    <3> QED BY <1>1, <1>7, <2>1, <3>1 DEF HeadersEnd
  <2>3. ASSUME NEW i, IsEnd(buf, i) PROVE i = e
    <3>1. i \in 1 .. Len(buf) /\ HeadersEnd(buf, i) /\ \A j \in 1 .. i - 1 : ~HeadersEnd(buf, j)
      BY <2>3 DEF IsEnd
    <3>2. e <= i
      BY <1>0, <1>7, <3>1, EndIsLast
    <3>3. ~(e < i)
      BY <1>1, <2>2, <3>1
    <3> QED BY <1>1, <1>7, <3>1, <3>2, <3>3
  <2>4. e \in 1 .. Len(buf) /\ ~Incomplete(buf)
    <3>1. e \in 1 .. Len(buf)
      BY <1>0, <1>1, <1>6, <1>7
    <3> QED BY <2>2, <3>1 DEF Incomplete
  <2> DEFINE headers == SubSeq(buf, 1, e)
  <2>5. \/ RequestKind(headers) = "unknown"
        \/ ParseHeaders(buf, e) /\ RequestComplete(RequestKind(headers))
    BY <1>5, <2>3, <2>4 DEF ReadRequest, buf
  <2>6. headers \in Tokens /\ Len(headers) = e /\ \A j \in 1 .. e : headers[j] = script[j]
    <3>1. headers \in Tokens /\ Len(headers) = e - 1 + 1
          /\ \A j \in 1 .. e - 1 + 1 : headers[j] = buf[1 + j - 1]
      <4>1. Len(buf) \in Nat
        BY <1>7 DEF Tokens
      <4> QED BY <1>1, <1>7, <4>1, SubFacts
    <3> QED BY <1>1, <1>7, <3>1
  <2>7. ~Contains(SubSeq(buf, 1, e), "length")
    <3>1. ~\E j \in 2 .. e : script[j] = "length"
      <4>1. Len(Body) \in Nat /\ Len(Body) > 0
        BY <1>0, Lengths
      <4> QED BY <1>1, <1>12, <4>1 DEF Shaped
    <3>2. \A j \in 1 .. e : script[j] # "length"
      <4>1. \A j \in 1 .. e : j = 1 \/ j \in 2 .. e
        BY <1>1
      <4> QED BY <3>1, <4>1
    <3> QED BY <2>6, <3>2 DEF Contains
  <2> HIDE DEF headers
  <2>8. RequestKind(headers) = script[1]
    <3>1. headers[1] = script[1] /\ Len(headers) >= 1
      BY <1>1, <2>6
    <3>2. \A j \in 2 .. e : headers[j] = script[j]
      BY <1>1, <2>6
    <3>3. \A j \in 2 .. e : script[j] \in {"length", "host"}
      BY DEF Shaped
    <3> QED BY <2>6, <3>1, <3>2, <3>3, KindOfRequest
  <2>9. wanted' = 0 /\ got' = 0 /\ content' = <<>> /\ RequestComplete(script[1])
    BY <1>4, <1>12, <2>5, <2>7, <2>8 DEF ParseHeaders
  <2>10. HandleRequest(script[1])
    BY <2>9 DEF RequestComplete
  <2>11. Len(handled') = 2
    <3> DEFINE entry == [kind |-> script[1], body |-> content']
    <3>1. handled' = Append(handled, entry)
      BY <2>10 DEF HandleRequest
    <3> HIDE DEF entry
    <3>2. handled \in Seq([kind : {"get", "post"}, body : Seq(STRING)])
      BY <1>5 DEF Handled
    <3>3. Len(Append(handled, entry)) = Len(handled) + 1
      BY <3>2
    <3> QED BY <1>4, <3>1, <3>3
  <2>12. ~(pos' < Len(script'))
    BY <1>0, <1>2, <1>12
  <2>13. Answered(e, h, r)'
    BY <1>0, <1>12, <2>9, <2>11, <2>12 DEF Answered
  <2>14. Counted(h, r)
    BY <1>0, <1>1, <1>4, <1>12, <2>11 DEF Counted
  <2> QED BY <1>0, <1>8, <2>13, <2>14 DEF Progress
<1> QED BY <1>2, <1>9, <1>10, <1>12

LEMMA RefusedStep ==
  ASSUME AppdataOK, NEW n, Cut(n), script[1] \notin {"get", "post"}, Refused,
         ReadRequest(Piece(n)) \/ ReadPostData(Piece(n)) \/ ReadInShowtime
  PROVE  Refused'
<1> DEFINE d == Piece(n)
           buf == rdb \o d
<1>0. /\ pos \in Nat /\ pos' \in Nat /\ pos < pos' /\ n \in Nat /\ pos' = pos + n
      /\ script' = script /\ d \in Tokens /\ Len(d) = n
      /\ \A j \in 1 .. n : d[j] = script[pos + j]
  BY CutFacts DEF Cut
<1>10. n # 0 /\ 1 \in 1 .. n
  BY <1>0
<1> HIDE DEF d
<1>1. ASSUME NEW b \in Tokens, Len(b) >= 1, b[1] = script[1], rdb' = b,
             handled' = <<>>, l7state' # "HTTP_L7_READ_POST_DATA"
      PROVE  Refused'
  <2>1. b # <<>>
    BY <1>1
  <2> QED BY <1>0, <1>1, <2>1 DEF Refused
<1>2. CASE ReadRequest(d)
  <2>1. rdb \in Tokens /\ handled = <<>> /\ l7state = "HTTP_L7_INIT" /\ Len(rdb) \in Nat
    BY <1>2 DEF AppdataOK, Refused, ReadRequest, Tokens, d
  <2>2. buf \in Tokens /\ Len(buf) >= 1 /\ buf[1] = script[1]
    <3>1. /\ buf \in Tokens /\ Len(buf) = Len(rdb) + n
          /\ \A j \in 1 .. Len(rdb) + n : buf[j] = IF j <= Len(rdb) THEN rdb[j] ELSE d[j - Len(rdb)]
      BY <1>0, <2>1, ConcatProperties DEF Tokens
    <3>2. 1 \in 1 .. Len(rdb) + n
      BY <1>0, <1>10, <2>1
    <3>3. CASE rdb = <<>> /\ pos = 0
      <4>1. Len(rdb) = 0 /\ ~(1 <= Len(rdb)) /\ 1 - Len(rdb) = 1
        BY <3>3
      <4>2. buf[1] = d[1] /\ d[1] = script[1]
        BY <1>0, <1>10, <3>1, <3>2, <3>3, <4>1
      <4> QED BY <1>0, <1>10, <3>1, <4>1, <4>2
    <3>4. CASE rdb # <<>> /\ rdb[1] = script[1]
      <4>1. 1 <= Len(rdb)
        BY <2>1, <3>4, EmptySeq DEF Tokens
      <4> QED BY <1>0, <2>1, <3>1, <3>2, <3>4, <4>1
    <3> QED BY <3>3, <3>4 DEF Refused
  <2> HIDE DEF buf, d
  <2>3. CASE rdb' = buf /\ UNCHANGED <<l7state, handled>>
    <3>1. handled' = <<>> /\ l7state' # "HTTP_L7_READ_POST_DATA"
      BY <2>1, <2>3
    <3> QED BY <1>1, <2>2, <2>3, <3>1
  <2>4. ASSUME NEW i \in 1 .. Len(buf), rdb' = SubSeq(buf, 1, i),
               \/ UNCHANGED <<l7state, handled>>
               \/ /\ RequestKind(SubSeq(buf, 1, i)) # "unknown"
                  /\ RequestComplete(RequestKind(SubSeq(buf, 1, i)))
        PROVE  Refused'
    <3> DEFINE b == SubSeq(buf, 1, i)
    <3>1. Len(buf) \in Nat
      BY <2>2 DEF Tokens
    <3>2. b \in Tokens /\ Len(b) = i - 1 + 1 /\ \A j \in 1 .. i - 1 + 1 : b[j] = buf[1 + j - 1]
      BY <2>2, <3>1, SubFacts
    <3> HIDE DEF b
    <3>3. Len(b) >= 1 /\ b[1] = script[1]
      <4>1. 1 \in 1 .. i - 1 + 1 /\ 1 + 1 - 1 = 1 /\ i - 1 + 1 >= 1
        BY <3>1
      <4> QED BY <2>2, <3>2, <4>1
    <3>4. RequestKind(b) \notin {"get", "post"}
      BY <3>3, KindFacts
    <3>5. rdb' = b
      BY <2>4 DEF b
    <3>6. ASSUME RequestKind(b) # "unknown", RequestComplete(RequestKind(b))
          PROVE  handled' = <<>> /\ l7state' # "HTTP_L7_READ_POST_DATA"
      <4> DEFINE kind == RequestKind(b)
      <4>1. kind = "connect" /\ RequestComplete(kind)
        BY <3>4, <3>6, KindFacts
      <4> HIDE DEF kind
      <4> QED BY <2>1, <4>1 DEF RequestComplete
    <3>7. handled' = <<>> /\ l7state' # "HTTP_L7_READ_POST_DATA"
      <4>1. CASE UNCHANGED <<l7state, handled>>
        BY <2>1, <4>1
      <4> QED BY <2>4, <3>6, <4>1 DEF b
    <3> QED BY <1>1, <3>2, <3>3, <3>5, <3>7
  <2> QED BY <1>2, <2>3, <2>4 DEF ReadRequest, buf, d
<1>3. CASE ReadInShowtime
  <2>1. rdb # <<>> /\ rdb[1] = script[1] /\ UNCHANGED <<l7state, rdb, handled>>
    BY <1>3 DEF ReadInShowtime, Refused
  <2> QED BY <1>0, <2>1 DEF Refused
<1>4. ~ReadPostData(d)
  BY DEF Refused, ReadPostData
<1> QED BY <1>2, <1>3, <1>4 DEF d

(* The invariant of a connection whose peer sends one request.             *)
Tracked ==
  /\ script = <<>> => handled = <<>>
  /\ script # <<>> => \E e, h, r \in 1 .. Len(script) :
                        Shaped(script, e, h, r) /\ Progress(e, h, r)

LEMMA FreshTracked ==
  ASSUME Fresh, script' \in Tokens, script' = <<>> \/ OneRequest(script')
  PROVE  Tracked'
<1>1. /\ pos' = 0 /\ l7state' = "HTTP_L7_INIT" /\ rdb' = <<>> /\ wanted' = 0
      /\ content' = <<>> /\ handled' = <<>>
  BY DEF Fresh
<1>2. ASSUME script' # <<>>
      PROVE  \E e, h, r \in 1 .. Len(script') : Shaped(script', e, h, r) /\ Progress(e, h, r)'
  <2>1. PICK e \in 1 .. Len(script'), h \in 1 .. Len(script'), r \in 1 .. Len(script') :
               Shaped(script', e, h, r)
    BY <1>2 DEF OneRequest
  <2>2. h \in Nat /\ r \in Nat /\ 1 <= h /\ 1 <= r
    BY DEF Tokens
  <2>3. SubSeq(script', 1, 0) = <<>>
    BY SubSeqEmpty
  <2>4. InHeaders' /\ Refused'
    BY <1>1, <2>3 DEF InHeaders, Refused
  <2>5. Progress(e, h, r)'
    BY <1>1, <2>2, <2>4 DEF Progress
  <2> QED BY <2>1, <2>5
<1> QED BY <1>1, <1>2 DEF Tracked

LEMMA ReadTracked ==
  ASSUME AppdataOK, Tracked, NEW n, Cut(n),
         ReadRequest(Piece(n)) \/ ReadPostData(Piece(n)) \/ ReadInShowtime
  PROVE  Tracked'
<1>1. script # <<>> /\ script' = script /\ script \in Tokens
  <2>1. Len(script) # 0
    BY CutFacts
  <2> QED BY <2>1 DEF Cut
<1>2. PICK e \in 1 .. Len(script), h \in 1 .. Len(script), r \in 1 .. Len(script) :
             Shaped(script, e, h, r) /\ Progress(e, h, r)
  BY <1>1 DEF Tracked
<1>3. /\ e \in Nat /\ h \in Nat /\ r \in Nat /\ Len(script) \in Nat /\ pos \in Nat
      /\ h <= r /\ r <= Len(script)
  BY <1>1, <1>2, Lengths, CutFacts
<1>4. Progress(e, h, r)'
  <2>1. CASE script[1] \notin {"get", "post"}
    <3>1. Refused'
      BY <1>2, <2>1, RefusedStep DEF Progress
    <3> QED BY <1>1, <2>1, <3>1 DEF Progress
  <2>2. CASE script[1] \in {"get", "post"} /\ pos < h
    BY <1>2, <2>2, HeadersStep DEF Progress
  <2>3. CASE script[1] \in {"get", "post"} /\ h <= pos /\ pos < r
    BY <1>2, <2>3, BodyStep DEF Progress
  <2>4. CASE script[1] \in {"get", "post"} /\ r <= pos
    BY <1>2, <2>4, AnsweredStep DEF Progress
  <2> QED BY <1>3, <2>1, <2>2, <2>3, <2>4
<1> QED BY <1>1, <1>2, <1>4 DEF Tracked

LEMMA TrackedNext ==
  ASSUME \A s \in Scripts : OneRequest(s), IInv, Tracked, [Next]_vars
  PROVE  Tracked'
<1>1. /\ script \in Scripts \union {<<>>}
      /\ pos \in 0 .. Len(script)
      /\ ReadInv
  BY SplitInv
<1>2. <<>> \in Tokens /\ \A s \in Scripts : s \in Tokens
  <2>1. <<>> \in Tokens
    BY DEF Tokens
  <2> QED BY <2>1, ScriptsAssumption, Zenon DEF Tokens
<1>3. ASSUME NEW s \in Scripts, NewConn(s) PROVE Tracked'
  <2>1. script' = s /\ Fresh /\ s \in Tokens /\ OneRequest(s)
    BY <1>2, <1>3 DEF NewConn
  <2> QED BY <2>1, FreshTracked
<1>4. ASSUME NEW n \in 1 .. Len(script), Read(n) PROVE Tracked'
  <2>1. Cut(n)
    BY <1>1, <1>2, <1>4 DEF Read, Cut
  <2>2. ReadRequest(Piece(n)) \/ ReadPostData(Piece(n)) \/ ReadInShowtime
    BY <1>4 DEF Read, Piece
  <2>3. AppdataOK
    BY <1>1 DEF ReadInv
  <2> QED BY <2>1, <2>2, <2>3, ReadTracked
<1>5. CASE Closed
  BY <1>2, <1>5, FreshTracked DEF Closed
<1>6. CASE UNCHANGED vars
  BY <1>6 DEF vars, Tracked, Progress, InHeaders, InBody, Answered, Refused, Remains
<1> QED BY <1>3, <1>4, <1>5, <1>6 DEF Next

LEMMA TrackedAlways ==
  ASSUME \A s \in Scripts : OneRequest(s)
  PROVE  Spec => [](TypeOK /\ Tracked)
<1>1. Init => Tracked
  BY DEF Init, Tracked
<1>2. IInv /\ Tracked /\ [Next]_vars => Tracked'
  BY TrackedNext
<1>3. IInv => TypeOK
  BY DEF IInv
<1> QED BY InitInv, NextInv, <1>1, <1>2, <1>3, PTL DEF Spec

(* What the stages say of a connection, with the lengths of the properties.*)
LEMMA Stage ==
  ASSUME TypeOK, Tracked, script # <<>>
  PROVE  \E e, h, r \in 1 .. Len(script) :
           /\ Shaped(script, e, h, r) /\ (HasBody <=> r # h) /\ RequestLength = r
           /\ IF script[1] \notin {"get", "post"} THEN handled = <<>>
              ELSE (pos < r => handled = <<>>) /\ (r <= pos => Answered(e, h, r))
<1>1. script \in Tokens
  BY ScriptsAssumption, Zenon DEF TypeOK, Tokens
<1>2. PICK e \in 1 .. Len(script), h \in 1 .. Len(script), r \in 1 .. Len(script) :
             Shaped(script, e, h, r) /\ Progress(e, h, r)
  BY DEF Tracked
<1>3. /\ h \in Nat /\ r \in Nat /\ pos \in Nat /\ h <= r
      /\ (HasBody <=> r # h) /\ RequestLength = r
  BY <1>1, <1>2, Lengths DEF TypeOK
<1>4. IF script[1] \notin {"get", "post"} THEN handled = <<>>
      ELSE (pos < r => handled = <<>>) /\ (r <= pos => Answered(e, h, r))
  BY <1>2, <1>3 DEF Progress, Refused, InHeaders, InBody
<1> QED BY <1>2, <1>3, <1>4

(* The handler of a peer that sends one request, as viewers do, runs with  *)
(* the read that brings its last byte, wherever TCP cuts it.               *)
THEOREM HandledInTime ==
  ASSUME \A s \in Scripts : OneRequest(s)
  PROVE  Spec => []HandledWhenComplete
<1>1. TypeOK /\ Tracked => HandledWhenComplete
  <2>1. SUFFICES ASSUME TypeOK, Tracked, script # <<>>, script[1] \in {"get", "post"}
                 PROVE  handled # <<>> <=> pos >= RequestLength
    BY DEF HandledWhenComplete
  <2>2. PICK e \in 1 .. Len(script), h \in 1 .. Len(script), r \in 1 .. Len(script) :
          /\ RequestLength = r
          /\ (pos < r => handled = <<>>) /\ (r <= pos => Answered(e, h, r))
    BY <2>1, Stage
  <2>3. pos \in Nat /\ r \in Nat
    BY <2>1 DEF TypeOK
  <2>4. Answered(e, h, r) => handled # <<>>
    BY DEF Answered
  <2> QED BY <2>2, <2>3, <2>4
<1> QED BY TrackedAlways, <1>1, PTL

(* The lengths of the properties and the stages agree on which read ends   *)
(* a request.                                                              *)
LEMMA EndsWhere ==
  ASSUME NEW e, NEW h, NEW r, NEW n, Cut(n), Shaped(script, e, h, r)
  PROVE  EndsRequest <=> (pos < r /\ r <= pos') \/ (r = h /\ r <= pos /\ pos' = r + 2)
<1>1. /\ pos \in Nat /\ pos' \in Nat /\ pos < pos' /\ pos' <= Len(script) /\ script \in Tokens
  BY CutFacts DEF Cut
<1>2. /\ r \in Nat /\ Len(script) \in Nat /\ Len(script) <= r + 2 /\ r <= Len(script)
      /\ (HasBody <=> r # h) /\ RequestLength = r
  BY <1>1, Lengths
<1>3. ASSUME r <= pos
      PROVE  (\E i \in pos + 1 .. pos' : script[i] = "lf") <=> pos' = r + 2
  <2>1. Len(script) = r + 2 /\ script[r + 1] = "cr" /\ script[r + 2] = "lf"
    <3>1. Len(script) # r
      BY <1>1, <1>2, <1>3
    <3> QED BY <3>1 DEF Shaped
  <2>2. \A i \in pos + 1 .. pos' : i \in {r + 1, r + 2} /\ (i = r + 2 => pos' = r + 2)
    BY <1>1, <1>2, <1>3, <2>1
  <2>3. pos' = r + 2 => r + 2 \in pos + 1 .. pos'
    BY <1>1, <1>2
  <2> QED BY <2>1, <2>2, <2>3
<1> QED BY <1>1, <1>2, <1>3 DEF EndsRequest

(* The handler runs once for every request, with the read that ends it,    *)
(* and once more exactly for an empty line that comes in a later read      *)
(* after one without a body: for every request, body and way TCP cuts it.  *)
THEOREM HandledPerEnd ==
  ASSUME \A s \in Scripts : OneRequest(s)
  PROVE  Spec => HandledAtEachEnd
<1> DEFINE Step == script # <<>> /\ script' = script =>
              Len(handled') =
                Len(handled) +
                  IF script[1] \in {"get", "post"} /\ EndsRequest THEN 1 ELSE 0
<1>1. ASSUME IInv, Tracked, Next PROVE Step
  <2>1. SUFFICES ASSUME script # <<>>, script' = script PROVE Step
    OBVIOUS
  <2>2. PICK n \in 1 .. Len(script) : Read(n)
    BY <1>1, <2>1 DEF Next, NewConn, Closed
  <2>3. script \in Scripts /\ pos \in 0 .. Len(script) /\ AppdataOK
    BY <1>1, <2>1, SplitInv DEF ReadInv
  <2>4. script \in Tokens
    BY <2>3, ScriptsAssumption, Zenon DEF Tokens
  <2>5. Cut(n) /\ (ReadRequest(Piece(n)) \/ ReadPostData(Piece(n)) \/ ReadInShowtime)
    BY <2>2, <2>3, <2>4 DEF Read, Cut, Piece
  <2>6. PICK e \in 1 .. Len(script), h \in 1 .. Len(script), r \in 1 .. Len(script) :
               Shaped(script, e, h, r) /\ Progress(e, h, r)
    BY <1>1, <2>1 DEF Tracked
  <2>7. EndsRequest <=> (pos < r /\ r <= pos') \/ (r = h /\ r <= pos /\ pos' = r + 2)
    BY <2>5, <2>6, EndsWhere
  <2>8. CASE script[1] \notin {"get", "post"}
    <3>1. Refused /\ Refused'
      BY <2>3, <2>5, <2>6, <2>8, RefusedStep DEF Progress
    <3> QED BY <2>8, <3>1 DEF Refused
  <2>9. CASE script[1] \in {"get", "post"}
    <3>1. /\ h \in Nat /\ r \in Nat /\ h <= r /\ pos \in Nat
      BY <2>4, <2>5, <2>6, Lengths, CutFacts
    <3>2. CASE pos < h
      <4>1. Counted(h, r)
        BY <2>3, <2>5, <2>6, <2>9, <3>2, HeadersStep DEF Progress
      <4> QED BY <2>7, <2>9, <4>1 DEF Counted
    <3>3. CASE h <= pos /\ pos < r
      <4>1. Counted(h, r)
        BY <2>3, <2>5, <2>6, <2>9, <3>3, BodyStep DEF Progress
      <4> QED BY <2>7, <2>9, <4>1 DEF Counted
    <3>4. CASE r <= pos
      <4>1. Counted(h, r)
        BY <2>3, <2>5, <2>6, <2>9, <3>4, AnsweredStep DEF Progress
      <4> QED BY <2>7, <2>9, <4>1 DEF Counted
    <3> QED BY <3>1, <3>2, <3>3, <3>4
  <2> QED BY <2>8, <2>9
<1>2. Init => IInv /\ Tracked
  BY InitInv DEF Init, Tracked
<1>3. IInv /\ Tracked /\ [Next]_vars => IInv' /\ Tracked'
  BY NextInv, TrackedNext
<1>4. IInv /\ Tracked /\ [Next]_vars => [Step]_vars
  BY <1>1
<1>5. Spec => [][Step]_vars
  <2> HIDE DEF Step
  <2> QED BY <1>2, <1>3, <1>4, PTL DEF Spec
<1> QED BY <1>5 DEF HandledAtEachEnd

(* The handler of a POST is given the body from its first byte, in order.  *)
THEOREM BodyKept ==
  ASSUME \A s \in Scripts : OneRequest(s)
  PROVE  Spec => []BodyIntact
<1>1. ASSUME NEW b \in Tokens, Whole(b) PROVE IsPrefix(Body, b)
  <2> DEFINE m == Len(Body)
             x == SubSeq(Body, 1, m)
             y == SubSeq(b, 1, m)
  <2>1. m \in Nat /\ m <= Len(b) /\ Body \in Tokens /\ Len(b) \in Nat
    BY <1>1, BodyAssumption DEF Whole, Tokens
  <2>2. x \in Tokens /\ Len(x) = m - 1 + 1 /\ \A j \in 1 .. m - 1 + 1 : x[j] = Body[1 + j - 1]
    BY <2>1, SubFacts
  <2>3. y \in Tokens /\ Len(y) = m - 1 + 1 /\ \A j \in 1 .. m - 1 + 1 : y[j] = b[1 + j - 1]
    BY <2>1, SubFacts
  <2>4. \A j \in 1 .. m : b[j] = Body[j]
    BY <1>1 DEF Whole
  <2> HIDE DEF m, x, y
  <2>5. Len(x) = Len(y) /\ \A j \in 1 .. Len(x) : x[j] = y[j]
    BY <2>1, <2>2, <2>3, <2>4
  <2>6. x = y
    BY <2>2, <2>3, <2>5, SeqEqual DEF Tokens
  <2> QED BY <2>1, <2>6 DEF IsPrefix, m, x, y
<1>2. TypeOK /\ Tracked => BodyIntact
  <2>1. SUFFICES ASSUME TypeOK, Tracked, NEW i \in 1 .. Len(handled), HasBody
                 PROVE  IsPrefix(Body, handled[i].body)
    BY DEF BodyIntact
  <2>2. handled \in Handled /\ handled # <<>> /\ script # <<>>
    BY <2>1 DEF TypeOK, Handled, Tracked
  <2>3. handled[i].body \in Tokens
    <3> DEFINE R == [kind : {"get", "post"}, body : Seq(STRING)]
    <3>1. handled \in Seq(R)
      BY <2>2 DEF Handled
    <3> HIDE DEF R
    <3>2. handled[i] \in R
      BY <2>1, <3>1
    <3> QED BY <3>2 DEF R, Tokens
  <2>4. PICK e \in 1 .. Len(script), h \in 1 .. Len(script), r \in 1 .. Len(script) :
          /\ HasBody <=> r # h
          /\ IF script[1] \notin {"get", "post"} THEN handled = <<>>
             ELSE (pos < r => handled = <<>>) /\ (r <= pos => Answered(e, h, r))
    BY <2>1, <2>2, Stage
  <2>5. pos \in Nat /\ r \in Nat
    BY <2>1 DEF TypeOK
  <2>6. Answered(e, h, r)
    BY <2>2, <2>4, <2>5
  <2>7. Whole(handled[i].body)
    BY <2>1, <2>4, <2>6 DEF Answered
  <2> QED BY <1>1, <2>3, <2>7
<1> QED BY TrackedAlways, <1>2, PTL

=============================================================================
