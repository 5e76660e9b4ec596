--------------------------- MODULE DeltaCalculator --------------------------
(***************************************************************************)
(* The diff of DeltaCalculator (internal/delta/calculator.go) and          *)
(* OptimizeDelta (compression.go), on the documents that the data of a     *)
(* cluster become in JSON.                                                 *)
(*                                                                         *)
(* A document is a function from paths to what is there: an object, whose  *)
(* members have paths one key longer, or a leaf or an array, below which   *)
(* there is nothing.  diff descends from object to object; here it is said *)
(* at which paths it arrives, and which of them become stanzas.            *)
(*                                                                         *)
(* The key path of a stanza is a Go slice.  keysetDiff extends the path of *)
(* the object with append for one key after the other: where the array     *)
(* behind the path has room, each key overwrites the one before it, in the *)
(* stanzas made so far as well.  A path is read when the diff is done, and *)
(* each slot of its array then holds what was written there last.          *)
(***************************************************************************)
EXTENDS Integers, FiniteSets, SequencesExt, Functions

CONSTANTS
  Nil,
  Walks  \* Go ranges over a map in any order: each walk lists the paths in
         \* an order in which diff may come to them

LeafNode(v)    == [tag |-> "leaf", value |-> v]
ArrayNode(s)   == [tag |-> "array", items |-> s]
ObjectNode     == [tag |-> "object"]
NullNode       == LeafNode(Nil)

Leaf(v)   == [p \in {<< >>} |-> LeafNode(v)]
Array(s)  == [p \in {<< >>} |-> ArrayNode(s)]
Object(f) ==
  [p \in {<< >>} \cup UNION {{<<k>> \o q : q \in DOMAIN f[k]} : k \in DOMAIN f} |->
     IF p = << >> THEN ObjectNode ELSE f[Head(p)][Tail(p)]]
Null      == Leaf(Nil)

Start(p, n)    == SubSeq(p, 1, n)
Rest(p, n)     == SubSeq(p, n + 1, Len(p))
Below(p, q)    == Len(p) <= Len(q) /\ Start(q, Len(p)) = p

IsObject(f, p) == p \in DOMAIN f /\ f[p] = ObjectNode

\* Depth first: below a path come the paths below it, before any other.
IsWalk(walk) ==
  /\ walk \in Seq(Seq(STRING))
  /\ \A i, j \in DOMAIN walk :
       Below(walk[i], walk[j]) => i <= j /\ \A k \in i..j : Below(walk[i], walk[k])

-----------------------------------------------------------------------------
(* The data and the documents.  The fields that are left out, such as the  *)
(* addresses of a node, behave like the ones of their kind that are here.  *)

\* The API server sends no empty labels, and convertPod appends the containers
\* one by one: where there are none, both are nil.
IsMap(f)  == DOMAIN f \subseteq STRING /\ IsFiniteSet(DOMAIN f)
IsPod(pod) ==
  /\ pod.labels # Nil => IsMap(pod.labels) /\ DOMAIN pod.labels # {}
  /\ pod.containers # << >>
IsPods(pods) == IsMap(pods) /\ \A p \in DOMAIN pods : IsPod(pods[p])
IsNode(node) ==
  /\ node = [ready |-> node.ready, conditions |-> node.conditions, pods |-> node.pods]
  /\ IsPods(node.pods)
IsClusterData(data) ==
  /\ IsMap(data.nodes) /\ \A n \in DOMAIN data.nodes : IsNode(data.nodes[n])
  /\ IsPods(data.unassigned_pods)

\* The keys of the JSON objects.  (The provers do not know that they are strings.)
Keys == {"nodes", "unassigned_pods", "status", "pods", "ready", "conditions",
         "phase", "labels", "containers"}
ASSUME KeysAssumption == Keys \subseteq STRING

PodDocument(pod) == Object(
  [phase      |-> Leaf(pod.phase),
   labels     |-> IF pod.labels = Nil THEN Null
                  ELSE Object([l \in DOMAIN pod.labels |-> Leaf(pod.labels[l])]),
   containers |-> IF pod.containers = Nil THEN Null ELSE Array(pod.containers)])

PodsDocument(pods) == Object([p \in DOMAIN pods |-> PodDocument(pods[p])])

NodeDocument(node) == Object(
  [status |-> Object([ready |-> Leaf(node.ready), conditions |-> Array(node.conditions)]),
   pods   |-> PodsDocument(node.pods)])

ToGenericInterface(data) == Object(
  [nodes           |-> Object([n \in DOMAIN data.nodes |-> NodeDocument(data.nodes[n])]),
   unassigned_pods |-> PodsDocument(data.unassigned_pods)])

\* Clone makes a map of its own, so that no labels become empty labels, and
\* appends the containers one by one, so that empty containers become null.
ClonePod(pod) ==
  [phase      |-> pod.phase,
   labels     |-> IF pod.labels = Nil THEN << >> ELSE pod.labels,
   containers |-> IF pod.containers = << >> THEN Nil ELSE pod.containers]
ClonePods(pods) == [p \in DOMAIN pods |-> ClonePod(pods[p])]
CloneNode(node) == [node EXCEPT !.pods = ClonePods(@)]
Clone(data) ==
  [nodes           |-> [n \in DOMAIN data.nodes |-> CloneNode(data.nodes[n])],
   unassigned_pods |-> ClonePods(data.unassigned_pods)]

-----------------------------------------------------------------------------
(* The diff.                                                               *)

\* At least half of the keys of two objects are in both.
Members(f, p) == {q \in DOMAIN f : Len(q) = Len(p) + 1 /\ Below(p, q)}
Alike(left, right, p) ==
  2 * Cardinality(Members(left, p) \cap Members(right, p))
    >= Cardinality(Members(left, p) \cup Members(right, p))

\* Two objects that are not alike are replaced, and so is everything else that
\* differs, arrays included.
Worth(left, right, p) ==
  IsObject(left, p) /\ IsObject(right, p) /\ Alike(left, right, p)

\* What is at a path, or below it, differs.
Differs(left, right, p) == ~(p \in DOMAIN left \cap DOMAIN right /\ left[p] = right[p])
Altered(left, right) ==
  UNION {{Start(p, n) : n \in 0..Len(p)} :
         p \in {q \in DOMAIN left \cup DOMAIN right : Differs(left, right, q)}}

\* The paths that diff comes to, through objects whose keys it compares.
Visited(left, right) ==
  LET open == {p \in Altered(left, right) : Worth(left, right, p)}
  IN {p \in DOMAIN left \cup DOMAIN right : \A n \in 0..Len(p) - 1 : Start(p, n) \in open}

Changes(left, right) ==
  {p \in Visited(left, right) \cap Altered(left, right) : ~Worth(left, right, p)}

\* The subtree at a path; a key that was removed is set to null.
Subtree(f, p) == [q \in {Rest(r, Len(p)) : r \in {s \in DOMAIN f : Below(p, s)}} |-> f[p \o q]]
Value(right, p) == IF p \in DOMAIN right THEN Subtree(right, p) ELSE Null

-----------------------------------------------------------------------------
(* The keys of the stanzas.                                                *)

\* Fault: the first array has room for every key below it.
OwnerPreallocated(n) == 0
\* append allocates room for one, two, four, then eight elements: the length
\* at which the array of a path of length n was allocated.
Owner(n) == CHOOSE a \in {0, 1, 2, 3, 5} :
  a <= n /\ \A b \in {0, 1, 2, 3, 5} : b <= n => b <= a

\* What was written last to each slot of the path's array, by newKey :=
\* append(key, k).
ReadKey(path, walk, visited) ==
  LET array == Start(path, Owner(Len(path)))
      Writes(j) == {i \in DOMAIN walk :
                      walk[i] \in visited /\ Len(walk[i]) = j /\ Below(array, walk[i])}
  IN [j \in DOMAIN path |->
        IF j <= Len(array) THEN path[j] ELSE walk[Max(Writes(j))][j]]

\* A delta has its stanzas at the places in the walk where they were made;
\* path is where the change is.
CalculateJSONDelta(prev, current) ==
  LET left    == ToGenericInterface(prev)
      right   == ToGenericInterface(current)
      visited == Visited(left, right)
      changes == Changes(left, right)
  IN {[i \in {n \in DOMAIN walk : walk[n] \in changes} |->
         [key   |-> ReadKey(walk[i], walk, visited),
          value |-> Value(right, walk[i]),
          path  |-> walk[i]]] : walk \in Walks}

\* The last stanza of a key stays.
OptimizeDelta(delta) ==
  Restrict(delta, {i \in DOMAIN delta :
                     \A j \in DOMAIN delta : delta[j].key = delta[i].key => j <= i})

-----------------------------------------------------------------------------
(* A reader of deltas: a stanza sets the value at its key, nil removes the *)
(* key.  A member that is null is shown like one that is missing.          *)

Put(document, key, value) ==
  IF key # << >> /\ ~IsObject(document, Start(key, Len(key) - 1)) THEN document
  ELSE [p \in {q \in DOMAIN document : ~Below(key, q)} \cup
              (IF value = Null THEN {} ELSE {key \o q : q \in DOMAIN value}) |->
          IF Below(key, p) THEN value[Rest(p, Len(key))] ELSE document[p]]

ApplyDelta(document, delta) ==
  LET last == Max({0} \cup DOMAIN delta)
      After[n \in 0..last] ==
        IF n = 0 THEN document
        ELSE IF n \in DOMAIN delta THEN Put(After[n - 1], delta[n].key, delta[n].value)
        ELSE After[n - 1]
  IN After[last]

Shown(document) == Restrict(document, {p \in DOMAIN document : document[p] # NullNode})
=============================================================================
