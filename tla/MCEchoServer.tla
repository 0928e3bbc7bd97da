---------------------------- MODULE MCEchoServer ----------------------------
(***************************************************************************)
(* The model-checking instance of EchoServer: an object that sends up to   *)
(* two lines and may then connect again, and whitelist files with nothing  *)
(* in them, with a pattern that matches and with one that does not.        *)
(***************************************************************************)
EXTENDS EchoServer

MCSessions == [c \in Client |-> 2]
MCLines == [x \in Conn |-> IF x[2] = 1 THEN 2 ELSE 0]

MCFiles == {[hasSection |-> TRUE, values |-> v] :
              v \in {<<NoValue>>, <<NoValue, Client>>, <<{}>>}}
=============================================================================
