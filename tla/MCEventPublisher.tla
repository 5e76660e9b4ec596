-------------------------- MODULE MCEventPublisher --------------------------
(* Instances of EventPublisher with one writer per cluster: the poll       *)
(* goroutine of its query engine.                                          *)
EXTENDS EventPublisher, TLC

CONSTANTS c1, c2, w1, w2

OneWriterEach == (w1 :> c1) @@ (w2 :> c2)
AllAndFirst == {{}, {c1}}
=============================================================================
