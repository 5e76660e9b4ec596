----------------------------- MODULE MCDeltaFeed ----------------------------
(* DeltaFeed for a cluster with at most two nodes and two pods.            *)
EXTENDS DeltaFeed, TLC

Pods(p1, p2) == [p \in {x \in {"p1", "p2"} : (x = "p1" /\ p1 # Nil) \/ (x = "p2" /\ p2 # Nil)} |->
                   IF p = "p1" THEN p1 ELSE p2]

Running == [phase |-> "Running", labels |-> [a |-> "1", b |-> "1"], containers |-> <<"x">>]
Bare    == [phase |-> "Running", labels |-> Nil, containers |-> Nil]

\* What changes of a pod: its phase, a label, all of them, its containers.
Variants == {Running, Bare, [Running EXCEPT !.phase = "Failed"],
             [Running EXCEPT !.labels = [a |-> "2", b |-> "1"]],
             [Running EXCEPT !.containers = <<"x", "y">>]}

\* A node that is not ready has a condition that says so: both change at once.
Node(ready, pods) ==
  "n1" :> [ready |-> ready, conditions |-> IF ready = "yes" THEN << >> ELSE <<"c">>, pods |-> pods]
SecondNode == "n2" :> [ready |-> "yes", conditions |-> << >>, pods |-> Pods(Nil, Bare)]
Cluster(nodes, pods) == [nodes |-> nodes, unassigned_pods |-> pods]
None == << >>

\* Without the node, with it and one pod or two, not ready, with the second
\* pod waiting for a node, and with that pod on a node of its own.
MCData ==
  {Cluster(None, None), Cluster(None, Pods(Bare, Nil)), Cluster(Node("no", Pods(Running, Nil)), None)}
  \cup {Cluster(Node("yes", Pods(p1, p2)), None) : p1 \in Variants \cup {Nil}, p2 \in {Nil, Bare}}
  \cup {Cluster(Node("yes", Pods(p1, Nil)), Pods(Nil, Bare)) : p1 \in {Nil, Running}}
  \cup {Cluster(Node("yes", Pods(p1, Nil)) @@ SecondNode, None) : p1 \in {Nil, Running, Bare}}
  \cup {Cluster(None, Pods(Nil, p2)) : p2 \in Variants}

(* Walks: the keys of every object in one order of four, so that each key  *)
(* of an object comes last in one of them.                                 *)
Orders == {
  <<"nodes", "unassigned_pods", "n1", "n2", "status", "pods", "ready", "conditions",
    "p1", "p2", "phase", "labels", "containers", "a", "b">>,
  <<"unassigned_pods", "nodes", "n2", "n1", "pods", "status", "conditions", "ready",
    "p2", "p1", "containers", "phase", "labels", "b", "a">>,
  <<"unassigned_pods", "nodes", "n2", "n1", "pods", "status", "conditions", "ready",
    "p1", "p2", "containers", "labels", "phase", "b", "a">>,
  <<"nodes", "unassigned_pods", "n1", "n2", "status", "pods", "ready", "conditions",
    "p2", "p1", "labels", "phase", "containers", "a", "b">>}

Place(order, k) == CHOOSE i \in DOMAIN order : order[i] = k
Before(order, p, q) ==
  \/ Below(p, q)
  \/ \E n \in 0..Len(p) - 1 : /\ n < Len(q) /\ Start(p, n) = Start(q, n)
                              /\ Place(order, p[n + 1]) < Place(order, q[n + 1])

RECURSIVE Listed(_, _)
Listed(paths, order) ==
  IF paths = {} THEN << >>
  ELSE LET first == CHOOSE p \in paths : \A q \in paths : Before(order, p, q)
       IN <<first>> \o Listed(paths \ {first}, order)

MCWalks == {Listed(UNION {DOMAIN ToGenericInterface(d) : d \in MCData}, order) : order \in Orders}
=============================================================================
