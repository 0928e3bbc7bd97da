---------------------------- MODULE MCHelloServer ----------------------------
(***************************************************************************)
(* The model-checking instance of HelloServer: a second GET while the page *)
(* of the first is under way, a request that is refused, and a GET whose   *)
(* connection is not to be kept.                                           *)
(***************************************************************************)
EXTENDS HelloServer

Bodiless(method, version) ==
  [kind |-> "request", method |-> method, version |-> version, connection |-> "",
   length |-> "", body |-> <<>>]

Get == Bodiless("GET", "HTTP/1.1")
Post == Bodiless("POST", "HTTP/1.1")
LastGet == Bodiless("GET", "HTTP/1.0")

MCScripts == {<<Get, Get>>, <<Post>>, <<LastGet>>}
=============================================================================
