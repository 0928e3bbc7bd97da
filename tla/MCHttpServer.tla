---------------------------- MODULE MCHttpServer ----------------------------
(***************************************************************************)
(* The model-checking instance of HttpServer: scripts of a few messages    *)
(* that differ in what decides their framing.  The bodies hold line ends   *)
(* and words, which a parser that lost count would take for lines.         *)
(***************************************************************************)
EXTENDS HttpServer

MessageOf(kind, method, version, connection, length, body) ==
  [kind |-> kind, method |-> method, version |-> version, connection |-> connection,
   length |-> length, body |-> body]

Good == {
  MessageOf("request", "GET", "HTTP/1.1", "", "", <<>>),
  MessageOf("afterBlank", "GET", "HTTP/1.1", "", "0", <<>>),
  MessageOf("request", "POST", "HTTP/1.1", "close", "1", <<"nl">>),
  MessageOf("request", "GET", "HTTP/1.0", "", "", <<>>),
  MessageOf("request", "POST", "HTTP/1.0", "keep-alive", "2", <<"nl", "word">>) }

Bad == {
  MessageOf("badLine", "", "", "", "", <<>>),
  MessageOf("badHeader", "GET", "HTTP/1.1", "", "", <<>>),
  MessageOf("request", "GET", "HTTP/1.1", "", "junk", <<>>) }

\* Two messages one after the other on a connection.
Pairs == {<<m, n>> : m \in Good \cup Bad, n \in Good \cup Bad}

\* A hook that does anything a subclass may do.
AnyHook(request) == [answers : BOOLEAN, closes : BOOLEAN]
=============================================================================
