---------------------------- MODULE MCTcpClientNB ----------------------------
(* The model-checking instance of TcpClientNB: two sessions over two        *)
(* descriptors, two bytes each way, so that a write and a read can each be   *)
(* partial and the second session can meet leftovers of the first.           *)
EXTENDS TcpClientNB
=============================================================================
