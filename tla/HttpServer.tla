----------------------------- MODULE HttpServer -----------------------------
(***************************************************************************)
(* The HTTP server's side of one accepted connection, lib_httpd.c: what    *)
(* ev_http_read makes of the reads TCP cuts a request into.                *)
(*                                                                         *)
(* A peer's bytes are tokens: a line with its LF (a request line "get",    *)
(* "post", "connect" or "junk", which is none of these; the Content-Length *)
(* header "length"; another header "host"), a CR, an LF, or a byte of a    *)
(* body.  A read may end between any two of them.                          *)
(*                                                                         *)
(* Content-Length is the length of the body, as viewers and                *)
(* httpc_common.lua count it, and no header is empty.  Left out is what    *)
(* the parser makes of others: a length that dalloc refuses leaves         *)
(* post_content_buf NULL (lib_httpd.c:584) and the process dies at the     *)
(* next byte of a body (763); an empty value takes the next line for its   *)
(* own (lib_httpd.c:541).                                                  *)
(***************************************************************************)
EXTENDS Naturals, Sequences, SequencesExt

CONSTANTS
  Scripts,   \* what a peer may send on a connection
  Body       \* the body of a POST; its length is the Content-Length

ASSUME BodyAssumption == Body \in Seq(STRING) /\ Body # <<>>
ASSUME ScriptsAssumption ==
  \A s \in Scripts : s \in Seq(STRING) /\ s # <<>>

VARIABLES
  script,    \* what the peer of the connection sends; <<>> when there is none
  pos,       \* how much of it was read
  l7state,
  rdb,       \* the request buffer
  wanted,    \* post_content_length
  got,       \* post_content_got_length
  content,   \* post_content_buf
  handled    \* the requests handed to the handler: kind and body

vars == <<script, pos, l7state, rdb, wanted, got, content, handled>>

Methods == <<"get", "post", "connect">>
Lines == {"get", "post", "connect", "junk", "length", "host"}
L7State == {"HTTP_L7_INIT", "HTTP_L7_SHOWTIME", "HTTP_L7_READ_POST_DATA"}

Init ==
  /\ script = <<>>
  /\ pos = 0
  /\ l7state = "HTTP_L7_INIT"
  /\ rdb = <<>>
  /\ wanted = 0
  /\ got = 0
  /\ content = <<>>
  /\ handled = <<>>

(* alloc_appdata_http: everything is zero.                                 *)
Fresh ==
  /\ pos' = 0
  /\ l7state' = "HTTP_L7_INIT"
  /\ rdb' = <<>>
  /\ wanted' = 0
  /\ got' = 0
  /\ content' = <<>>
  /\ handled' = <<>>

NewConn(s) ==
  /\ script = <<>>
  /\ script' = s
  /\ Fresh

(* The answer's end, or the peer: the socket loop closes the connection.   *)
Closed ==
  /\ script # <<>>
  /\ script' = <<>>
  /\ Fresh

-----------------------------------------------------------------------------
(* http_request_check: an LF followed by an empty line ends the headers.   *)

EndsLine(t) == t \in Lines \union {"lf"}

\* Seeded fault: only CR LF makes an empty line.
CrlfOnly(buf, i) ==
  /\ EndsLine(buf[i])
  /\ i + 2 <= Len(buf) /\ buf[i + 1] = "cr" /\ buf[i + 2] = "lf"

HeadersEnd(buf, i) ==
  /\ EndsLine(buf[i])
  /\ \/ i + 1 <= Len(buf) /\ buf[i + 1] = "lf"
     \/ i + 2 <= Len(buf) /\ buf[i + 1] = "cr" /\ buf[i + 2] = "lf"

IsEnd(buf, i) ==
  /\ i \in 1 .. Len(buf) /\ HeadersEnd(buf, i)
  /\ \A j \in 1 .. i - 1 : ~HeadersEnd(buf, j)

Incomplete(buf) == \A i \in 1 .. Len(buf) : ~HeadersEnd(buf, i)

(* strstr looks for a method anywhere in the headers, and                  *)
(* http_parse_headers then takes what the first line has in its place.     *)
RequestKind(headers) ==
  LET found == {m \in 1 .. 3 : \E i \in 1 .. Len(headers) : headers[i] = Methods[m]}
  IN  IF \E m \in found : (\A n \in found : m <= n) /\ headers[1] = Methods[m]
      THEN headers[1] ELSE "unknown"

Least(a, b) == IF a < b THEN a ELSE b

(* http_parse_headers: the body that came with the headers starts after    *)
(* the two characters of the empty line.                                   *)
\* Seeded fault: it starts after one.
BodyAfterOne(buf, i) == SubSeq(buf, i + 2, Least(Len(buf), i + 1 + Len(Body)))

BodyAfter(buf, i) == SubSeq(buf, i + 3, Least(Len(buf), i + 2 + Len(Body)))

(* Without a Content-Length there is no body to wait for.                  *)
ParseHeaders(buf, i) ==
  IF Contains(SubSeq(buf, 1, i), "length")
  THEN /\ wanted' = Len(Body)
       /\ content' = BodyAfter(buf, i)
       /\ got' = Len(content')
  ELSE UNCHANGED <<wanted, got, content>>

-----------------------------------------------------------------------------
(* http_handle_request queues the answer and the end of the connection;    *)
(* do_l7_reset follows.                                                    *)
HandleRequest(kind) ==
  /\ handled' = Append(handled, [kind |-> kind, body |-> content'])
  /\ l7state' = "HTTP_L7_INIT"

RequestComplete(kind) ==
  CASE kind = "get" -> HandleRequest(kind)
    [] kind = "post" /\ got' = wanted' -> HandleRequest(kind)
    [] kind = "post" /\ got' # wanted' ->
         l7state' = "HTTP_L7_READ_POST_DATA" /\ UNCHANGED handled
    [] kind = "connect" -> l7state' = "HTTP_L7_SHOWTIME" /\ UNCHANGED handled

(* ev_http_read in HTTP_L7_INIT: the read joins the buffer; headers that   *)
(* are complete are cut off at their last LF, and stay in it.              *)
ReadRequest(d) ==
  LET buf == rdb \o d IN
  /\ l7state = "HTTP_L7_INIT"
  /\ \/ /\ Incomplete(buf)
        /\ rdb' = buf
        /\ UNCHANGED <<l7state, wanted, got, content, handled>>
     \/ \E i \in 1 .. Len(buf) :
          LET kind == RequestKind(SubSeq(buf, 1, i)) IN
          /\ IsEnd(buf, i)
          /\ rdb' = SubSeq(buf, 1, i)
          /\ \/ kind = "unknown" /\ UNCHANGED <<l7state, wanted, got, content, handled>>
             \/ kind # "unknown" /\ ParseHeaders(buf, i) /\ RequestComplete(kind)

Enough == got' >= wanted

\* Seeded fault: the state is not reset after the answer.
PostHandledNoReset ==
  /\ handled' = Append(handled, [kind |-> "post", body |-> content'])
  /\ UNCHANGED l7state

PostHandled == HandleRequest("post")

(* In HTTP_L7_READ_POST_DATA the read is all body.                         *)
ReadPostData(d) ==
  /\ l7state = "HTTP_L7_READ_POST_DATA"
  /\ content' = content \o d
  /\ got' = got + Len(d)
  /\ IF Enough THEN PostHandled ELSE UNCHANGED <<l7state, handled>>
  /\ UNCHANGED <<rdb, wanted>>

(* After a CONNECT was answered nothing is read any more.                  *)
ReadInShowtime ==
  /\ l7state = "HTTP_L7_SHOWTIME"
  /\ UNCHANGED <<l7state, rdb, wanted, got, content, handled>>

Read(n) ==
  LET d == SubSeq(script, pos + 1, pos + n) IN
  /\ n \in 1 .. Len(script) - pos
  /\ pos' = pos + n
  /\ UNCHANGED script
  /\ ReadRequest(d) \/ ReadPostData(d) \/ ReadInShowtime

Next ==
  \/ \E s \in Scripts : NewConn(s)
  \/ \E n \in 1 .. Len(script) : Read(n)
  \/ Closed

Spec == Init /\ [][Next]_vars
-----------------------------------------------------------------------------
(* Properties.                                                             *)

(* Every variable ranges over what lib_httpd.c stores in it; the length    *)
(* got counts the bytes kept, and HTTP_L7_READ_POST_DATA is left as soon   *)
(* as the body is there, for no later read would do it.                    *)
TypeOK ==
  /\ script \in Scripts \union {<<>>}
  /\ pos \in 0 .. Len(script)
  /\ l7state \in L7State
  /\ rdb \in Seq(STRING)
  /\ wanted \in {0, Len(Body)}
  /\ content \in Seq(STRING)
  /\ got = Len(content)
  /\ l7state = "HTTP_L7_READ_POST_DATA" => got < wanted
  /\ handled \in Seq([kind : {"get", "post"}, body : Seq(STRING)])

(* The first request of a script: its headers, the empty line that ends    *)
(* with the first LF of its own, and the body.                             *)
HeadersLength ==
  CHOOSE i \in 1 .. Len(script) :
    script[i] = "lf" /\ \A j \in 1 .. i - 1 : script[j] # "lf"

HasBody ==
  script[1] = "post" /\ \E i \in 1 .. HeadersLength : script[i] = "length"

RequestLength == HeadersLength + IF HasBody THEN Len(Body) ELSE 0

(* What viewers and httpc_common.lua send: one request of header lines up  *)
(* to e, an empty line up to h and, if it is a POST with a Content-Length, *)
(* its body, to r; perhaps one more CR LF, which httpc_common.lua:99 ends  *)
(* every request with.  The empty line before a body is CR LF:             *)
(* lib_httpd.c:605 skips two bytes also when it is a bare LF, and would    *)
(* lose the body's first byte.                                             *)
Shaped(s, e, h, r) ==
  /\ e \in 1 .. Len(s) /\ h \in {e + 1, e + 2} /\ r \in h .. Len(s)
  /\ s[1] \in {"get", "post", "connect", "junk"}
  /\ \A j \in 2 .. e : s[j] \in {"length", "host"}
  /\ s[h] = "lf" /\ (h = e + 2 => s[e + 1] = "cr")
  /\ IF \E j \in 2 .. e : s[j] = "length"
     THEN /\ s[1] = "post" /\ h = e + 2 /\ r = h + Len(Body)
          /\ \A j \in 1 .. Len(Body) : s[h + j] = Body[j]
     ELSE r = h
  /\ \/ Len(s) = r
     \/ Len(s) = r + 2 /\ s[r + 1] = "cr" /\ s[r + 2] = "lf"

OneRequest(s) == \E e, h, r \in 1 .. Len(s) : Shaped(s, e, h, r)

(* The handler runs with the read that brings the last byte of a request,  *)
(* neither earlier nor later, wherever TCP cuts it: also between the CR    *)
(* and the LF of the empty line, or inside the body.                       *)
HandledWhenComplete ==
  /\ TypeOK
  /\ script # <<>> /\ script[1] \in {"get", "post"} =>
       (handled # <<>> <=> pos >= RequestLength)

(* Which reads run the handler, and that each runs it once: the one that   *)
(* brings the last byte of a request and, because do_l7_reset keeps the    *)
(* headers that were answered (lib_httpd.c:208), the one that brings an    *)
(* empty line after a request without a body.  Such a request is answered  *)
(* twice, although arch.txt has the server close "the connection           *)
(* per-request": httpc_common.lua:99 sends that line after every GET.  No  *)
(* other read does, so one with a body is handled once.                    *)
EndsRequest ==
  \/ pos < RequestLength /\ RequestLength <= pos'
  \/ /\ ~HasBody /\ RequestLength <= pos
     /\ \E i \in pos + 1 .. pos' : script[i] = "lf"

HandledAtEachEnd ==
  [][script # <<>> /\ script' = script =>
       Len(handled') =
         Len(handled) +
           IF script[1] \in {"get", "post"} /\ EndsRequest THEN 1 ELSE 0]_vars

(* A POST handler is given its body from the first byte, in order.         *)
BodyIntact ==
  \A i \in 1 .. Len(handled) : HasBody => IsPrefix(Body, handled[i].body)
=============================================================================
