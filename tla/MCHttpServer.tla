---------------------------- MODULE MCHttpServer ----------------------------
(***************************************************************************)
(* HttpServer for TLC: what viewers and the Lua client of httpc_common.lua *)
(* send.  The client ends every request with one more CR LF.               *)
(***************************************************************************)
EXTENDS HttpServer

\* An XML body has line ends, and here an empty line, of its own.
XmlBody == <<"b1", "lf", "lf", "b2">>

CrLf == <<"cr", "lf">>

Headers == {<<>>, <<"host">>}

WithLength ==
  {<<"length">>, <<"host", "length">>, <<"length", "host">>}

Gets == {<<"get">> \o h \o end : h \in Headers, end \in {CrLf, <<"lf">>}}

Posts ==
  {<<"post">> \o h \o CrLf \o XmlBody : h \in WithLength}
    \union {<<"post">> \o h \o end : h \in Headers, end \in {CrLf, <<"lf">>}}

Others ==
  {<<line>> \o h \o CrLf \o CrLf : line \in {"connect", "junk"}, h \in Headers}

ClientPosts ==
  {<<"post", "length">> \o CrLf \o XmlBody \o CrLf, <<"post">> \o CrLf \o CrLf}

ClientGets == {<<"get">> \o h \o CrLf \o CrLf : h \in Headers}

ViewerScripts == Gets \union Posts \union Others \union ClientPosts
                   \union ClientGets

ASSUME ViewersSendOneRequest == \A s \in ViewerScripts : OneRequest(s)
=============================================================================
