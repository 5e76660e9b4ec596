---------------------------- MODULE MCSSEHandler ----------------------------
(* Instances of SSEHandler: one cluster with one writer, one connection.  *)
EXTENDS SSEHandler, TLC

CONSTANTS c1, w1

OneWriter == w1 :> c1
AllOnly == {{}}
=============================================================================
