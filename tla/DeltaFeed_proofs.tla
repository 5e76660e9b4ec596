--------------------------- MODULE DeltaFeed_proofs -------------------------
(***************************************************************************)
(* A reader of exact deltas follows the data, and an overwritten key names *)
(* a sibling: for any data of clusters and any walks.                      *)
(*                                                                         *)
(* No change of two documents is below another one, every difference is at *)
(* or below a change, and a change is a member of an object that the reader *)
(* has as well; so stanzas with the paths of all changes as their keys can *)
(* be applied in any order (ApplyFacts, DeltaLeads).  What is stored is a  *)
(* clone, in which nil labels have become empty ones: the reader's null    *)
(* there is never taken for an object, since empty labels are unlike any   *)
(* that the API server sends (CloneOf, Apart, Uncovered).  The documents   *)
(* of the data have these shapes, and no path of more than six keys        *)
(* (DataFacts).  FeedInv then says that deltas fit on one another: what is *)
(* stored is a clone of the data of the update under way, or of those the  *)
(* reader was told.                                                        *)
(***************************************************************************)
EXTENDS DeltaFeed, SequenceTheorems, FiniteSetTheorems, WellFoundedInduction, TLAPS

\* A path in a document.
Path == Seq(STRING)

LEMMA StartFacts ==
  ASSUME NEW p \in Path, NEW n \in 0..Len(p)
  PROVE  /\ Start(p, n) \in Path
         /\ Len(Start(p, n)) = n
         /\ \A i \in 1..n : Start(p, n)[i] = p[i]
<1>1. \A i \in 1..n : p[i] \in STRING
  BY DEF Path
<1> QED BY <1>1, SubSeqProperties DEF Start, Path

LEMMA StartStart ==
  ASSUME NEW p \in Path, NEW n \in 0..Len(p), NEW m \in 0..n
  PROVE  Start(Start(p, n), m) = Start(p, m)
<1>1. /\ Start(p, n) \in Path /\ Len(Start(p, n)) = n
      /\ \A i \in 1..n : Start(p, n)[i] = p[i]
  BY StartFacts
<1>0. m \in 0..Len(p)
  BY DEF Path
<1>2. /\ Start(p, m) \in Path /\ Len(Start(p, m)) = m
      /\ \A i \in 1..m : Start(p, m)[i] = p[i]
  BY <1>0, StartFacts
<1>3. m \in 0..Len(Start(p, n))
  BY <1>1
<1>4. /\ Start(Start(p, n), m) \in Path /\ Len(Start(Start(p, n), m)) = m
      /\ \A i \in 1..m : Start(Start(p, n), m)[i] = Start(p, n)[i]
  BY <1>1, <1>3, StartFacts
<1>5. \A i \in 1..m : Start(Start(p, n), m)[i] = Start(p, m)[i]
  BY <1>1, <1>2, <1>4
<1> QED BY <1>2, <1>4, <1>5, SeqEqual DEF Path

LEMMA StartWhole ==
  ASSUME NEW p \in Path
  PROVE  Start(p, Len(p)) = p
BY SubSeqFull DEF Start, Path

\* What is below a path is the path and the rest.
LEMMA RestFacts ==
  ASSUME NEW c \in Path, NEW p \in Path, Below(c, p)
  PROVE  /\ Rest(p, Len(c)) \in Path
         /\ c \o Rest(p, Len(c)) = p
<1>1. Len(c) \in Nat /\ Len(p) \in Nat /\ Len(c) <= Len(p)
  BY DEF Below, Path
<1>2. Rest(p, Len(c)) \in Path
  <2>1. \A i \in (Len(c) + 1)..Len(p) : p[i] \in STRING
    BY <1>1 DEF Path
  <2> QED BY <1>1, <2>1, SubSeqProperties DEF Rest, Path
<1>3. SubSeq(p, 1, Len(c)) \o SubSeq(p, Len(c) + 1, Len(p)) = SubSeq(p, 1, Len(p))
  <2>1. 1 \in 1..(Len(p) + 1) /\ Len(c) \in (1 - 1)..Len(p) /\ Len(p) \in Len(c)..Len(p)
    BY <1>1
  <2> QED BY <2>1, ConcatAdjacentSubSeq DEF Path
<1> QED BY <1>2, <1>3, StartWhole DEF Below, Start, Rest

LEMMA JoinFacts ==
  ASSUME NEW c \in Path, NEW q \in Path
  PROVE  /\ c \o q \in Path /\ Len(c \o q) = Len(c) + Len(q)
         /\ Below(c, c \o q)
         /\ Rest(c \o q, Len(c)) = q
<1>1. /\ c \o q \in Path /\ Len(c \o q) = Len(c) + Len(q)
      /\ \A i \in 1..(Len(c) + Len(q)) : (c \o q)[i] = IF i <= Len(c) THEN c[i] ELSE q[i - Len(c)]
  BY ConcatProperties DEF Path
<1>2. Len(c) \in Nat /\ Len(q) \in Nat
  BY DEF Path
<1>3. Below(c, c \o q)
  <2>1. Start(c \o q, Len(c)) \in Path /\ Len(Start(c \o q, Len(c))) = Len(c)
        /\ \A i \in 1..Len(c) : Start(c \o q, Len(c))[i] = (c \o q)[i]
    <3>1. Len(c) \in 0..Len(c \o q)
      BY <1>1, <1>2
    <3> QED BY <1>1, <3>1, StartFacts
  <2>2. \A i \in 1..Len(c) : Start(c \o q, Len(c))[i] = c[i]
    BY <1>1, <1>2, <2>1
  <2>3. Start(c \o q, Len(c)) = c
    BY <2>1, <2>2, SeqEqual DEF Path
  <2> QED BY <1>1, <1>2, <2>3 DEF Below
<1>4. c \o Rest(c \o q, Len(c)) = c \o q /\ Rest(c \o q, Len(c)) \in Path
  BY <1>1, <1>3, RestFacts
<1>5. Rest(c \o q, Len(c)) = q
  BY <1>4, ConcatSimplifications DEF Path
<1> QED BY <1>1, <1>3, <1>5

LEMMA BelowFacts ==
  ASSUME NEW c \in Path, NEW p \in Path
  PROVE  /\ Below(p, p)
         /\ Len(c) \in Nat
         /\ Below(c, p) => Len(c) <= Len(p) /\ Start(p, Len(c)) = c
         /\ \A n \in 0..Len(p) : Below(Start(p, n), p)
         /\ Below(c, p) /\ Len(c) = Len(p) => c = p
<1>1. Below(p, p) /\ Len(c) \in Nat /\ Len(p) \in Nat
  BY StartWhole DEF Below, Path
<1>2. \A n \in 0..Len(p) : Below(Start(p, n), p)
  BY <1>1, StartFacts DEF Below
<1>3. Below(c, p) /\ Len(c) = Len(p) => c = p
  BY StartWhole DEF Below
<1> QED BY <1>1, <1>2, <1>3 DEF Below

LEMMA BelowBelow ==
  ASSUME NEW a \in Path, NEW b \in Path, NEW p \in Path, Below(a, b), Below(b, p)
  PROVE  Below(a, p)
<1>1. Len(a) \in Nat /\ Len(b) \in Nat /\ Len(p) \in Nat /\ Len(a) <= Len(b) /\ Len(b) <= Len(p)
  BY DEF Below, Path
<1>2. Start(Start(p, Len(b)), Len(a)) = Start(p, Len(a))
  <2>1. Len(b) \in 0..Len(p) /\ Len(a) \in 0..Len(b)
    BY <1>1
  <2> QED BY <2>1, StartStart
<1>3. Start(p, Len(b)) = b /\ Start(b, Len(a)) = a
  BY DEF Below
<1>4. Len(a) <= Len(p)
  BY <1>1
<1> QED BY <1>2, <1>3, <1>4 DEF Below

-----------------------------------------------------------------------------
(* The library's induction theorems take the property as an operator; here *)
(* it is a set of numbers.                                                 *)

LEMMA Least ==
  ASSUME NEW S, S \subseteq Nat, S # {}
  PROVE  \E n \in S : \A m \in S : n <= m
<1>1. PICK n \in S : \A m \in S : ~(<<m, n>> \in OpToRel(<, Nat))
  BY NatLessThanWellFounded, WFMin
<1>2. \A m \in S : ~(m < n)
  BY <1>1 DEF OpToRel
<1>3. \A m \in S : m \in Nat /\ n \in Nat
  OBVIOUS
<1>4. \A m \in S : n <= m
  BY <1>2, <1>3
<1> QED BY <1>4

LEMMA SetInduction ==
  ASSUME NEW S, 0 \in S, \A n \in Nat : n \in S => n + 1 \in S
  PROVE  Nat \subseteq S
<1> DEFINE T == Nat \ S
<1> SUFFICES ASSUME T # {}
             PROVE  FALSE
  OBVIOUS
<1>1. PICK n \in T : \A m \in T : n <= m
  BY Least
<1>2. n - 1 \in Nat /\ n - 1 \notin T
  BY <1>1
<1> QED BY <1>1, <1>2

-----------------------------------------------------------------------------
(* Documents.                                                              *)

Document(f) ==
  /\ DOMAIN f \subseteq Path
  /\ IsFiniteSet(DOMAIN f)
  /\ << >> \in DOMAIN f
  /\ \A p \in DOMAIN f : \A n \in 0..(Len(p) - 1) : IsObject(f, Start(p, n))

\* What a document shows at a path.
At(f, p) == IF p \in DOMAIN f THEN f[p] ELSE NullNode

\* Where something differs below a path that diff does not go beyond, there is
\* a change at that path or above it.
LEMMA ChangeAbove ==
  ASSUME NEW b, NEW d, Document(b), Document(d),
         NEW p \in DOMAIN b \cup DOMAIN d, Differs(b, d, p),
         NEW m \in 0..Len(p), ~Worth(b, d, Start(p, m))
  PROVE  \E c \in Changes(b, d) : Below(c, p) /\ Below(c, Start(p, m))
<1> DEFINE S == {n \in 0..m : ~Worth(b, d, Start(p, n))}
<1>1. p \in Path /\ Len(p) \in Nat
  BY DEF Document, Path
<1>2. PICK n \in S : \A k \in S : n <= k
  <2>1. S \subseteq Nat /\ m \in S
    OBVIOUS
  <2> HIDE DEF S
  <2> QED BY <2>1, Least
<1>3. n \in 0..m /\ n \in 0..Len(p) /\ ~Worth(b, d, Start(p, n))
  BY <1>1
<1>4. \A k \in 0..(n - 1) : Worth(b, d, Start(p, k))
  BY <1>1, <1>2, <1>3
<1> DEFINE c == Start(p, n)
<1>5. c \in Path /\ Len(c) = n /\ \A k \in 0..n : Start(c, k) = Start(p, k)
  BY <1>1, <1>3, StartFacts, StartStart
<1>6. \A k \in 0..Len(p) : Start(p, k) \in Altered(b, d)
  BY DEF Altered
<1>7. c \in DOMAIN b \cup DOMAIN d
  <2>1. CASE n = Len(p)
    BY <1>1, <2>1, StartWhole
  <2>2. CASE n # Len(p)
    <3>1. n \in 0..(Len(p) - 1)
      BY <1>1, <1>3, <2>2
    <3> QED BY <3>1 DEF Document, IsObject
  <2> QED BY <2>1, <2>2
<1>8. c \in Visited(b, d)
  <2>1. \A k \in 0..(n - 1) : k \in 0..n /\ k \in 0..Len(p)
    BY <1>1, <1>3
  <2>2. \A k \in 0..(Len(c) - 1) : Start(c, k) \in Altered(b, d) /\ Worth(b, d, Start(c, k))
    BY <1>4, <1>5, <1>6, <2>1
  <2> QED BY <1>7, <2>2 DEF Visited
<1>9. c \in Changes(b, d)
  BY <1>3, <1>6, <1>8 DEF Changes
<1>10. Below(c, p)
  BY <1>1, <1>3, BelowFacts
<1>11. Below(c, Start(p, m))
  <2>1. Start(p, m) \in Path /\ Len(Start(p, m)) = m /\ Start(Start(p, m), n) = Start(p, n)
    BY <1>1, <1>3, StartFacts, StartStart
  <2> QED BY <1>3, <1>5, <2>1 DEF Below
<1> QED BY <1>9, <1>10, <1>11

LEMMA ChangeFacts ==
  ASSUME NEW b, NEW d, Document(b), Document(d), NEW c \in Changes(b, d)
  PROVE  /\ c \in Path /\ Len(c) \in Nat
         /\ c \in DOMAIN b \cup DOMAIN d
         /\ ~Worth(b, d, c)
         /\ \A n \in 0..(Len(c) - 1) : Worth(b, d, Start(c, n))
BY DEF Changes, Visited, Document, Path

\* No change is below another one.
LEMMA ChangesApart ==
  ASSUME NEW b, NEW d, Document(b), Document(d),
         NEW c \in Changes(b, d), NEW e \in Changes(b, d), Below(c, e)
  PROVE  c = e
<1>1. /\ c \in Path /\ Len(c) \in Nat /\ ~Worth(b, d, c)
      /\ e \in Path /\ Len(e) \in Nat /\ \A n \in 0..(Len(e) - 1) : Worth(b, d, Start(e, n))
  BY ChangeFacts
<1>2. Len(c) <= Len(e) /\ Start(e, Len(c)) = c
  BY DEF Below
<1>3. CASE Len(c) = Len(e)
  BY <1>1, <1>3, BelowFacts
<1>4. CASE Len(c) # Len(e)
  <2>1. Len(c) \in 0..(Len(e) - 1)
    BY <1>1, <1>2, <1>4
  <2> QED BY <1>1, <1>2, <2>1
<1> QED BY <1>3, <1>4

-----------------------------------------------------------------------------
(* The stored data are a clone of those that were told, in which nil labels *)
(* have become empty ones.                                                  *)

CloneOf(t, b) ==
  /\ DOMAIN b = DOMAIN t
  /\ \A p \in DOMAIN t : b[p] = t[p] \/ (t[p] = NullNode /\ b[p] = ObjectNode)

\* Where one of the data has nil, the other has no empty object.
Apart(t, d) ==
  \A p \in DOMAIN t \cap DOMAIN d :
    t[p] = NullNode /\ d[p] = ObjectNode => Members(d, p) # {}

LEMMA NullIsNoObject == NullNode # ObjectNode
BY DEF NullNode, LeafNode, ObjectNode

\* An object without members is not worth comparing with one that has some.
LEMMA EmptyAlike ==
  ASSUME NEW b, NEW d, Document(b), Document(d), NEW p, Members(b, p) = {}, Alike(b, d, p)
  PROVE  Members(d, p) = {}
<1>1. IsFiniteSet(Members(d, p))
  BY FS_Subset DEF Document, Members
<1>2. /\ Members(b, p) \cap Members(d, p) = {}
      /\ Members(b, p) \cup Members(d, p) = Members(d, p)
  OBVIOUS
<1>3. Cardinality(Members(d, p)) \in Nat /\ Cardinality({}) = 0
  BY <1>1, FS_CardinalityType, FS_EmptySet
<1>4. 2 * Cardinality({}) >= Cardinality(Members(d, p))
  BY <1>2 DEF Alike
<1>5. Cardinality(Members(d, p)) = 0
  BY <1>3, <1>4
<1> QED BY <1>1, <1>5, FS_EmptySet

LEMMA LooseHasNoMembers ==
  ASSUME NEW t, NEW b, Document(t), CloneOf(t, b), NEW p \in DOMAIN t, t[p] = NullNode
  PROVE  Members(b, p) = {}
<1> SUFFICES ASSUME NEW q \in Members(b, p)
             PROVE  FALSE
  OBVIOUS
<1>1. q \in DOMAIN t /\ q \in Path /\ Len(p) \in Nat /\ Len(q) = Len(p) + 1 /\ Start(q, Len(p)) = p
  BY DEF Members, CloneOf, Document, Below, Path
<1>2. Len(p) \in 0..(Len(q) - 1)
  BY <1>1
<1> QED BY <1>1, <1>2, NullIsNoObject DEF Document, IsObject

\* Where diff finds no change, what was told is what is to be told.
LEMMA Uncovered ==
  ASSUME NEW t, NEW b, NEW d, Document(t), Document(b), Document(d), CloneOf(t, b), Apart(t, d),
         NEW p \in Path, \A c \in Changes(b, d) : ~Below(c, p)
  PROVE  At(t, p) = At(d, p)
<1>1. Len(p) \in Nat /\ Start(p, Len(p)) = p /\ Len(p) \in 0..Len(p)
  BY StartWhole DEF Path
<1>2. \/ p \notin DOMAIN b \cup DOMAIN d
      \/ p \in DOMAIN b \cap DOMAIN d /\ b[p] = d[p]
  <2> SUFFICES ASSUME p \in DOMAIN b \cup DOMAIN d, Differs(b, d, p)
               PROVE  FALSE
    BY DEF Differs
  <2>1. ~Worth(b, d, Start(p, Len(p)))
    BY <1>1 DEF Worth, IsObject, Differs
  <2> QED BY <1>1, <2>1, ChangeAbove
<1>3. CASE p \notin DOMAIN b \cup DOMAIN d
  BY <1>3 DEF At, CloneOf
<1>4. CASE p \in DOMAIN b \cap DOMAIN d /\ b[p] = d[p]
  <2>1. p \in DOMAIN t
    BY <1>4 DEF CloneOf
  <2>2. CASE b[p] = t[p]
    BY <1>4, <2>1, <2>2 DEF At
  <2>3. CASE t[p] = NullNode /\ b[p] = ObjectNode
    <3>1. Members(b, p) = {}
      BY <2>1, <2>3, LooseHasNoMembers
    <3>2. PICK q \in Members(d, p) : TRUE
      BY <1>4, <2>1, <2>3 DEF Apart
    <3>3. q \in DOMAIN d /\ q \notin DOMAIN b /\ Len(q) = Len(p) + 1 /\ Start(q, Len(p)) = p
      BY <3>1, <3>2 DEF Members, Below
    <3>4. ~Worth(b, d, p)
      BY <3>1, <3>2, EmptyAlike DEF Worth
    <3>5. Len(p) \in 0..Len(q) /\ Differs(b, d, q)
      BY <1>1, <3>3 DEF Differs
    <3> QED BY <3>3, <3>4, <3>5, ChangeAbove
  <2> QED BY <2>1, <2>2, <2>3 DEF CloneOf
<1> QED BY <1>2, <1>3, <1>4

\* A change is a member of an object, of what was told as well.
LEMMA ChangeHasParent ==
  ASSUME NEW t, NEW b, NEW d, Document(t), Document(b), Document(d), CloneOf(t, b),
         NEW c \in Changes(b, d), c # << >>
  PROVE  /\ Len(c) - 1 \in 0..Len(c)
         /\ At(t, Start(c, Len(c) - 1)) = ObjectNode
<1> DEFINE p == Start(c, Len(c) - 1)
<1>1. /\ c \in Path /\ Len(c) \in Nat /\ c \in DOMAIN b \cup DOMAIN d
      /\ \A n \in 0..(Len(c) - 1) : Worth(b, d, Start(c, n))
  BY ChangeFacts
<1>2. Len(c) # 0
  BY <1>1, EmptySeq DEF Path
<1>3. Len(c) - 1 \in 0..(Len(c) - 1) /\ Len(c) - 1 \in 0..Len(c) /\ Len(c) - 1 \in Nat
  BY <1>1, <1>2
<1>4. p \in Path /\ Len(p) = Len(c) - 1
  BY <1>1, <1>3, StartFacts
<1>5. Worth(b, d, p)
  BY <1>1, <1>3
<1>6. Below(p, c) /\ Len(c) = Len(p) + 1
  BY <1>1, <1>3, <1>4, BelowFacts
<1>7. p \in DOMAIN t /\ b[p] = ObjectNode
  BY <1>5 DEF Worth, IsObject, CloneOf
<1>8. CASE t[p] = NullNode
  <2>1. Members(b, p) = {} /\ Members(d, p) = {}
    BY <1>5, <1>7, <1>8, LooseHasNoMembers, EmptyAlike DEF Worth
  <2> QED BY <1>1, <1>6, <2>1 DEF Members
<1>9. CASE t[p] # NullNode
  BY <1>7, <1>9 DEF CloneOf, At
<1> QED BY <1>3, <1>8, <1>9

-----------------------------------------------------------------------------
(* What a reader makes of a delta.                                         *)

LEMMA MaxFacts ==
  ASSUME NEW S, S # {}, NEW N \in Nat, S \subseteq 0..N
  PROVE  Max(S) \in S /\ \A y \in S : y <= Max(S)
<1> DEFINE B == {n \in Nat : \A y \in S : y <= n}
<1>1. N \in B
  OBVIOUS
<1>2. PICK n \in B : \A m \in B : n <= m
  <2>1. B \subseteq Nat /\ B # {}
    BY <1>1
  <2> HIDE DEF B
  <2> QED BY <2>1, Least
<1>3. n \in S
  <2> SUFFICES ASSUME n \notin S
               PROVE  FALSE
    OBVIOUS
  <2>1. n \in Nat /\ \A y \in S : y \in Nat /\ y <= n /\ y # n
    BY <1>2
  <2>2. PICK y \in S : TRUE
    OBVIOUS
  <2>3. n - 1 \in Nat /\ \A z \in S : z <= n - 1
    BY <2>1, <2>2
  <2>4. n <= n - 1
    BY <1>2, <2>3
  <2> QED BY <2>1, <2>4
<1>4. \A y \in S : n >= y
  BY <1>2
<1>5. Max(S) \in S /\ \A y \in S : Max(S) >= y
  BY <1>3, <1>4 DEF Max
<1>6. \A y \in S : y \in Int
  OBVIOUS
<1> QED BY <1>5, <1>6

LEMMA PutFacts ==
  ASSUME NEW x, DOMAIN x \subseteq Path, NEW c \in Path, NEW v, DOMAIN v \subseteq Path,
         c # << >> => At(x, Start(c, Len(c) - 1)) = ObjectNode
  PROVE  /\ DOMAIN Put(x, c, v) \subseteq Path
         /\ \A p \in Path :
              At(Put(x, c, v), p) = IF Below(c, p) THEN At(v, Rest(p, Len(c))) ELSE At(x, p)
<1> DEFINE D == {q \in DOMAIN x : ~Below(c, q)} \cup
                (IF v = Null THEN {} ELSE {c \o q : q \in DOMAIN v})
<1>1. Put(x, c, v) = [p \in D |-> IF Below(c, p) THEN v[Rest(p, Len(c))] ELSE x[p]]
  BY NullIsNoObject DEF Put, At, IsObject
<1>2. D \subseteq Path
  BY JoinFacts
<1>3. ASSUME NEW p \in Path, Below(c, p)
      PROVE  At(Put(x, c, v), p) = At(v, Rest(p, Len(c)))
  <2>1. Rest(p, Len(c)) \in Path /\ c \o Rest(p, Len(c)) = p
    BY <1>3, RestFacts
  <2>2. CASE v = Null
    <3>1. p \notin D
      BY <1>3, <2>2
    <3>2. At(v, Rest(p, Len(c))) = NullNode
      BY <2>2 DEF At, Null, Leaf, NullNode
    <3> QED BY <1>1, <3>1, <3>2 DEF At
  <2>3. CASE v # Null
    <3>1. p \in D <=> Rest(p, Len(c)) \in DOMAIN v
      <4>1. ASSUME NEW q \in DOMAIN v, p = c \o q
            PROVE  q = Rest(p, Len(c))
        BY <4>1, JoinFacts
      <4> QED BY <1>3, <2>1, <2>3, <4>1
    <3> HIDE DEF D
    <3> QED BY <1>1, <1>3, <3>1 DEF At
  <2> QED BY <2>2, <2>3
<1>4. ASSUME NEW p \in Path, ~Below(c, p)
      PROVE  At(Put(x, c, v), p) = At(x, p)
  <2>1. p \in D <=> p \in DOMAIN x
    <3>1. \A q \in DOMAIN v : Below(c, c \o q)
      BY JoinFacts
    <3> QED BY <1>4, <3>1
  <2> HIDE DEF D
  <2> QED BY <1>1, <1>4, <2>1 DEF At
<1> HIDE DEF D
<1> QED BY <1>1, <1>2, <1>3, <1>4

\* A stanza carries what is at its path.
LEMMA ValueFacts ==
  ASSUME NEW d, Document(d), NEW c \in Path
  PROVE  /\ DOMAIN Value(d, c) \subseteq Path
         /\ \A p \in Path : Below(c, p) => At(Value(d, c), Rest(p, Len(c))) = At(d, p)
<1>1. CASE c \notin DOMAIN d
  <2>1. Value(d, c) = Null /\ DOMAIN Null = {<< >>} /\ << >> \in Path
    BY <1>1, EmptySeq DEF Value, Null, Leaf, Path
  <2>2. ASSUME NEW p \in Path, Below(c, p)
        PROVE  p \notin DOMAIN d
    <3> SUFFICES ASSUME p \in DOMAIN d
                 PROVE  FALSE
      OBVIOUS
    <3>1. Len(c) \in Nat /\ Len(p) \in Nat /\ Len(c) <= Len(p) /\ Start(p, Len(c)) = c
      BY <2>2 DEF Below, Path
    <3>2. Len(c) # Len(p)
      BY <1>1, <2>2, <3>1, BelowFacts
    <3>3. Len(c) \in 0..(Len(p) - 1)
      BY <3>1, <3>2
    <3> QED BY <1>1, <3>1, <3>3 DEF Document, IsObject
  <2>3. \A q : At(Null, q) = NullNode
    BY DEF At, Null, Leaf, NullNode
  <2> QED BY <2>1, <2>2, <2>3 DEF At
<1>2. CASE c \in DOMAIN d
  <2> DEFINE E == {Rest(r, Len(c)) : r \in {s \in DOMAIN d : Below(c, s)}}
  <2>1. Value(d, c) = [q \in E |-> d[c \o q]]
    BY <1>2 DEF Value, Subtree
  <2>2. E \subseteq Path
    BY RestFacts DEF Document
  <2>3. ASSUME NEW p \in Path, Below(c, p)
        PROVE  At(Value(d, c), Rest(p, Len(c))) = At(d, p)
    <3>1. c \o Rest(p, Len(c)) = p
      BY <2>3, RestFacts
    <3>2. Rest(p, Len(c)) \in E <=> p \in DOMAIN d
      <4>1. ASSUME NEW r \in DOMAIN d, Below(c, r), Rest(r, Len(c)) = Rest(p, Len(c))
            PROVE  r = p
        BY <3>1, <4>1, RestFacts DEF Document
      <4> QED BY <2>3, <4>1
    <3> HIDE DEF E
    <3> QED BY <2>1, <3>1, <3>2 DEF At
  <2> HIDE DEF E
  <2> QED BY <2>1, <2>2, <2>3
<1> QED BY <1>1, <1>2

\* The documents after the first n places of a delta.
IsAfter(g, document, delta, n) ==
  g = [i \in 0..n |->
         IF i = 0 THEN document
         ELSE IF i \in DOMAIN delta THEN Put(g[i - 1], delta[i].key, delta[i].value)
         ELSE g[i - 1]]

\* The recursion in ApplyDelta defines a function.
LEMMA AfterExists ==
  ASSUME NEW document, NEW delta, NEW last \in Nat
  PROVE  \E g : IsAfter(g, document, delta, last)
<1> DEFINE S == {n \in Nat : \E g : IsAfter(g, document, delta, n)}
<1>1. 0 \in S
  <2> DEFINE g == [i \in 0..0 |-> document]
  <2>1. IsAfter(g, document, delta, 0)
    BY DEF IsAfter
  <2> QED BY <2>1
<1>2. ASSUME NEW n \in Nat, n \in S
      PROVE  n + 1 \in S
  <2>1. PICK g : IsAfter(g, document, delta, n)
    BY <1>2
  <2> DEFINE new == IF n + 1 \in DOMAIN delta
                    THEN Put(g[n], delta[n + 1].key, delta[n + 1].value) ELSE g[n]
             h == [i \in 0..(n + 1) |-> IF i = n + 1 THEN new ELSE g[i]]
  <2>2. ASSUME NEW i \in 0..n
        PROVE  g[i] = IF i = 0 THEN document
                      ELSE IF i \in DOMAIN delta THEN Put(g[i - 1], delta[i].key, delta[i].value)
                      ELSE g[i - 1]
    BY <2>1 DEF IsAfter
  <2>3. ASSUME NEW i \in 0..(n + 1)
        PROVE  h[i] = IF i = 0 THEN document
                      ELSE IF i \in DOMAIN delta THEN Put(h[i - 1], delta[i].key, delta[i].value)
                      ELSE h[i - 1]
    <3>1. CASE i = n + 1
      <4>1. h[i] = new /\ h[i - 1] = g[n]
        BY <3>1
      <4> QED BY <3>1, <4>1
    <3>2. CASE i \in 0..n
      <4>1. h[i] = g[i] /\ (i # 0 => h[i - 1] = g[i - 1])
        BY <3>2
      <4> QED BY <2>2, <3>2, <4>1
    <3> QED BY <3>1, <3>2
  <2>4. IsAfter(h, document, delta, n + 1)
    <3> HIDE DEF new
    <3> QED BY <2>3 DEF IsAfter
  <2> QED BY <2>4
<1>3. Nat \subseteq S
  <2> HIDE DEF S
  <2> QED BY <1>1, <1>2, SetInduction
<1> QED BY <1>3

\* The stanzas of delta have exactly the paths in C and what d has there.
Carries(delta, C, d) ==
  /\ \E N \in Nat : DOMAIN delta \subseteq 1..N
  /\ \A i \in DOMAIN delta :
       delta[i].key \in C /\ delta[i].value = Value(d, delta[i].key)
  /\ \A c \in C : \E i \in DOMAIN delta : delta[i].key = c

NotNested(C) == C \subseteq Path /\ \A c, e \in C : Below(c, e) => c = e

HasParents(x, C) ==
  \A c \in C : c # << >> => /\ Len(c) - 1 \in 0..Len(c)
                            /\ At(x, Start(c, Len(c) - 1)) = ObjectNode

\* Stanzas at paths that are not below one another put what is at these paths
\* into the reader's document, in any order, and leave the rest.
LEMMA ApplyFacts ==
  ASSUME NEW x, DOMAIN x \subseteq Path, NEW d, Document(d), NEW C, NotNested(C),
         NEW delta, Carries(delta, C, d), HasParents(x, C)
  PROVE  /\ DOMAIN ApplyDelta(x, delta) \subseteq Path
         /\ \A p \in Path : At(ApplyDelta(x, delta), p) =
              IF \E c \in C : Below(c, p) THEN At(d, p) ELSE At(x, p)
<1> USE DEF Carries, NotNested, HasParents
<1> DEFINE last == Max({0} \cup DOMAIN delta)
           g == CHOOSE f : IsAfter(f, x, delta, last)
<1>0. PICK N \in Nat : DOMAIN delta \subseteq 1..N
  OBVIOUS
<1>1. last \in Nat /\ \A i \in DOMAIN delta : i \in Nat /\ 0 < i /\ i <= last
  <2>1. {0} \cup DOMAIN delta \subseteq 0..N
    BY <1>0
  <2>2. last \in {0} \cup DOMAIN delta /\ \A i \in {0} \cup DOMAIN delta : i <= last
    BY <2>1, MaxFacts
  <2> HIDE DEF last
  <2>3. \A i \in DOMAIN delta : i \in 1..N /\ i <= last
    BY <1>0, <2>2
  <2> QED BY <2>1, <2>2, <2>3
<1>2. IsAfter(g, x, delta, last) /\ ApplyDelta(x, delta) = g[last]
  <2>1. IsAfter(g, x, delta, last)
    <3> HIDE DEF last
    <3> QED BY <1>1, AfterExists
  <2>2. ApplyDelta(x, delta) = g[last]
    BY DEF ApplyDelta, IsAfter
  <2> QED BY <2>1, <2>2
<1> HIDE DEF g, last
<1>3. ASSUME NEW n \in 0..last
      PROVE  g[n] = IF n = 0 THEN x
                    ELSE IF n \in DOMAIN delta THEN Put(g[n - 1], delta[n].key, delta[n].value)
                    ELSE g[n - 1]
  BY <1>2 DEF IsAfter
<1> DEFINE Done(n, p) == \E i \in DOMAIN delta : i <= n /\ Below(delta[i].key, p)
           Fits(n) == /\ DOMAIN g[n] \subseteq Path
                      /\ \A p \in Path : At(g[n], p) = IF Done(n, p) THEN At(d, p) ELSE At(x, p)
           S == {n \in Nat : n <= last => Fits(n)}
<1>4. 0 \in S
  <2>1. g[0] = x
    BY <1>1, <1>3
  <2>2. \A p : ~Done(0, p)
    BY <1>1
  <2> HIDE DEF Done
  <2> QED BY <2>1, <2>2
<1>5. ASSUME NEW n \in Nat, n \in S
      PROVE  n + 1 \in S
  <2> SUFFICES ASSUME n + 1 <= last
               PROVE  Fits(n + 1)
    OBVIOUS
  <2>1. Fits(n) /\ n + 1 \in 0..last
    BY <1>1, <1>5
  <2>2. CASE n + 1 \notin DOMAIN delta
    <3>1. g[n + 1] = g[n]
      BY <1>1, <1>3, <2>1, <2>2
    <3>2. \A p : Done(n + 1, p) <=> Done(n, p)
      BY <1>1, <2>2
    <3> HIDE DEF Done
    <3> QED BY <2>1, <3>1, <3>2
  <2>3. CASE n + 1 \in DOMAIN delta
    <3> DEFINE c == delta[n + 1].key
               v == delta[n + 1].value
    <3>1. c \in C /\ c \in Path /\ v = Value(d, c)
      BY <2>3
    <3>2. g[n + 1] = Put(g[n], c, v)
      BY <1>1, <1>3, <2>1, <2>3
    <3>3. /\ DOMAIN v \subseteq Path
          /\ \A p \in Path : Below(c, p) => At(v, Rest(p, Len(c))) = At(d, p)
      BY <3>1, ValueFacts
    <3>4. ASSUME c # << >>
          PROVE  At(g[n], Start(c, Len(c) - 1)) = ObjectNode
      <4> DEFINE q == Start(c, Len(c) - 1)
      <4>1. Len(c) - 1 \in 0..Len(c) /\ At(x, q) = ObjectNode /\ Len(c) \in Nat
        BY <3>1, <3>4 DEF Path
      <4>2. q \in Path /\ Len(q) = Len(c) - 1 /\ Below(q, c)
        BY <3>1, <4>1, StartFacts, BelowFacts
      <4>3. ASSUME NEW e \in C, Below(e, q)
            PROVE  FALSE
        <5>1. Below(e, c) /\ e = c
          BY <3>1, <4>2, <4>3, BelowBelow
        <5> QED BY <4>1, <4>2, <4>3, <5>1 DEF Below
      <4>4. ~Done(n, q)
        BY <4>3
      <4>5. At(g[n], q) = ObjectNode
        <5> HIDE DEF q, Done
        <5> QED BY <2>1, <4>1, <4>2, <4>4
      <4> QED BY <4>5
    <3>5. /\ DOMAIN g[n + 1] \subseteq Path
          /\ \A p \in Path :
               At(g[n + 1], p) = IF Below(c, p) THEN At(v, Rest(p, Len(c))) ELSE At(g[n], p)
      <4> HIDE DEF c, v, Done
      <4> QED BY <2>1, <3>1, <3>2, <3>3, <3>4, PutFacts
    <3>6. \A p : Done(n + 1, p) <=> Below(c, p) \/ Done(n, p)
      BY <1>1, <2>3
    <3> HIDE DEF c, v, Done
    <3> QED BY <2>1, <3>3, <3>5, <3>6
  <2> QED BY <2>2, <2>3
<1>6. Fits(last)
  <2>1. Nat \subseteq S
    <3> HIDE DEF S
    <3> QED BY <1>4, <1>5, SetInduction
  <2> HIDE DEF Fits
  <2> QED BY <1>1, <2>1
<1>7. \A p : Done(last, p) <=> \E c \in C : Below(c, p)
  BY <1>1
<1> HIDE DEF Done
<1> QED BY <1>2, <1>6, <1>7

\* A delta without an overwritten key leads a reader of what was told to what
\* is to be told.
LEMMA DeltaLeads ==
  ASSUME NEW t, NEW b, NEW d, Document(t), Document(b), Document(d), CloneOf(t, b), Apart(t, d),
         NEW x, DOMAIN x \subseteq Path, \A p \in Path : At(x, p) = At(t, p),
         NEW delta, Carries(delta, Changes(b, d), d)
  PROVE  /\ DOMAIN ApplyDelta(x, delta) \subseteq Path
         /\ \A p \in Path : At(ApplyDelta(x, delta), p) = At(d, p)
<1>1. NotNested(Changes(b, d))
  BY ChangeFacts, ChangesApart DEF NotNested
<1>2. HasParents(x, Changes(b, d))
  <2> SUFFICES ASSUME NEW c \in Changes(b, d), c # << >>
               PROVE  Len(c) - 1 \in 0..Len(c) /\ At(x, Start(c, Len(c) - 1)) = ObjectNode
    BY DEF HasParents
  <2>1. Len(c) - 1 \in 0..Len(c) /\ At(t, Start(c, Len(c) - 1)) = ObjectNode
    BY ChangeHasParent
  <2>2. Start(c, Len(c) - 1) \in Path
    BY <2>1, ChangeFacts, StartFacts
  <2> QED BY <2>1, <2>2
<1>3. /\ DOMAIN ApplyDelta(x, delta) \subseteq Path
      /\ \A p \in Path : At(ApplyDelta(x, delta), p) =
           IF \E c \in Changes(b, d) : Below(c, p) THEN At(d, p) ELSE At(x, p)
  BY <1>1, <1>2, ApplyFacts
<1>4. ASSUME NEW p \in Path, \A c \in Changes(b, d) : ~Below(c, p)
      PROVE  At(x, p) = At(d, p)
  BY <1>4, Uncovered
<1> QED BY <1>3, <1>4

\* What two documents show.
LEMMA ShownFacts ==
  ASSUME NEW x, NEW y, DOMAIN x \subseteq Path, DOMAIN y \subseteq Path
  PROVE  Shown(x) = Shown(y) <=> \A p \in Path : At(x, p) = At(y, p)
<1> DEFINE D(f) == {p \in DOMAIN f : f[p] # NullNode}
<1>1. Shown(x) = [p \in D(x) |-> x[p]] /\ Shown(y) = [p \in D(y) |-> y[p]]
  BY DEF Shown, Restrict
<1>2. ASSUME \A p \in Path : At(x, p) = At(y, p)
      PROVE  Shown(x) = Shown(y)
  <2>1. D(x) = D(y) /\ \A p \in D(x) : x[p] = y[p]
    BY <1>2 DEF At
  <2> HIDE DEF D
  <2> QED BY <1>1, <2>1
<1>3. ASSUME Shown(x) = Shown(y), NEW p \in Path
      PROVE  At(x, p) = At(y, p)
  <2>1. D(x) = D(y) /\ \A q \in D(x) : x[q] = y[q]
    <3>1. DOMAIN Shown(x) = D(x) /\ DOMAIN Shown(y) = D(y)
      BY <1>1
    <3>2. \A q \in D(x) : Shown(x)[q] = x[q]
      BY <1>1
    <3>3. \A q \in D(y) : Shown(y)[q] = y[q]
      BY <1>1
    <3> HIDE DEF D
    <3> QED BY <1>3, <3>1, <3>2, <3>3
  <2> QED BY <2>1 DEF At
<1> QED BY <1>2, <1>3

-----------------------------------------------------------------------------
(* The documents of the data.                                              *)

\* No path of a document is longer.
Deep(f, n) == \A p \in DOMAIN f : Len(p) <= n

LEMMA Single ==
  ASSUME NEW S, NEW k \in S
  PROVE  <<k>> \in Seq(S) /\ Len(<<k>>) = 1 /\ <<k>>[1] = k
OBVIOUS

LEMMA HeadIsFirst ==
  ASSUME NEW S, NEW s \in Seq(S), s # << >>
  PROVE  Head(s) = s[1]
OBVIOUS

LEMMA Prefixed ==
  ASSUME NEW k \in STRING, NEW v \in Path
  PROVE  /\ <<k>> \o v \in Path /\ Len(<<k>> \o v) = Len(v) + 1 /\ Len(v) \in Nat
         /\ \A i \in 1..(Len(v) + 1) : (<<k>> \o v)[i] = IF i = 1 THEN k ELSE v[i - 1]
<1> DEFINE u == <<k>>
<1>1. u \in Seq(STRING) /\ Len(u) = 1 /\ u[1] = k
  BY Single, Zenon
<1>2. v \in Seq(STRING) /\ Len(v) \in Nat
  BY DEF Path
<1> HIDE DEF u
<1>3. /\ u \o v \in Seq(STRING) /\ Len(u \o v) = Len(u) + Len(v)
      /\ \A i \in 1..(Len(u) + Len(v)) :
           (u \o v)[i] = IF i <= Len(u) THEN u[i] ELSE v[i - Len(u)]
  BY <1>1, <1>2, ConcatProperties
<1>4. Len(u \o v) = Len(v) + 1
  BY <1>1, <1>2, <1>3
<1>5. ASSUME NEW i \in 1..(Len(v) + 1)
      PROVE  (u \o v)[i] = IF i = 1 THEN k ELSE v[i - 1]
  <2>1. i \in 1..(Len(u) + Len(v)) /\ (i <= Len(u) <=> i = 1)
    BY <1>1, <1>2
  <2> QED BY <1>1, <1>3, <2>1
<1> QED BY <1>2, <1>3, <1>4, <1>5 DEF u, Path

LEMMA MemberPath ==
  ASSUME NEW k \in STRING, NEW q \in Path
  PROVE  /\ <<k>> \o q \in Path /\ Len(<<k>> \o q) = Len(q) + 1
         /\ <<k>> \o q # << >>
         /\ Head(<<k>> \o q) = k /\ Tail(<<k>> \o q) = q
         /\ \A n \in 1..(Len(q) + 1) : Start(<<k>> \o q, n) = <<k>> \o Start(q, n - 1)
<1> DEFINE p == <<k>> \o q
<1>1. /\ p \in Path /\ Len(p) = Len(q) + 1 /\ Len(q) \in Nat
      /\ \A i \in 1..(Len(q) + 1) : p[i] = IF i = 1 THEN k ELSE q[i - 1]
  BY Prefixed
<1> HIDE DEF p
<1>2. p # << >>
  BY <1>1, EmptySeq
<1>3. Head(p) = k
  <2>1. 1 \in 1..(Len(q) + 1)
    BY <1>1
  <2>2. p[1] = k
    BY <1>1, <2>1
  <2> QED BY <1>1, <1>2, <2>2, HeadIsFirst DEF Path
<1>4. Tail(p) = q
  <2>1. /\ Tail(p) \in Seq(STRING) /\ Len(Tail(p)) = Len(p) - 1
        /\ \A i \in 1..Len(Tail(p)) : Tail(p)[i] = p[i + 1]
    BY <1>1, <1>2, HeadTailProperties DEF Path
  <2>2. Len(Tail(p)) = Len(q)
    BY <1>1, <2>1
  <2>3. ASSUME NEW i \in 1..Len(q)
        PROVE  Tail(p)[i] = q[i]
    <3>1. i + 1 \in 1..(Len(q) + 1) /\ i + 1 # 1 /\ (i + 1) - 1 = i
      BY <1>1
    <3>2. p[i + 1] = q[i]
      BY <1>1, <3>1
    <3> QED BY <2>1, <2>2, <3>2
  <2> QED BY <2>1, <2>2, <2>3, SeqEqual DEF Path
<1>5. ASSUME NEW n \in 1..(Len(q) + 1)
      PROVE  Start(p, n) = <<k>> \o Start(q, n - 1)
  <2>1. n \in 0..Len(p) /\ n - 1 \in 0..Len(q) /\ n \in Nat
    BY <1>1
  <2>2. /\ Start(p, n) \in Path /\ Len(Start(p, n)) = n
        /\ \A i \in 1..n : Start(p, n)[i] = p[i]
    BY <1>1, <2>1, StartFacts
  <2> DEFINE v == Start(q, n - 1)
             r == <<k>> \o v
  <2>3. v \in Path /\ Len(v) = n - 1 /\ \A i \in 1..(n - 1) : v[i] = q[i]
    BY <2>1, StartFacts
  <2> HIDE DEF v
  <2>4. /\ r \in Path /\ Len(r) = Len(v) + 1
        /\ \A i \in 1..(Len(v) + 1) : r[i] = IF i = 1 THEN k ELSE v[i - 1]
    BY <2>3, Prefixed
  <2> HIDE DEF r
  <2>5. ASSUME NEW i \in 1..n
        PROVE  Start(p, n)[i] = r[i]
    <3>1. i \in 1..(Len(v) + 1) /\ i \in 1..(Len(q) + 1)
      BY <1>1, <2>1, <2>3
    <3>2. CASE i = 1
      <4>1. r[i] = k
        BY <2>4, <3>1, <3>2
      <4>2. p[i] = k
        BY <1>1, <3>1, <3>2
      <4> QED BY <2>2, <4>1, <4>2
    <3>3. CASE i # 1
      <4>1. r[i] = v[i - 1]
        BY <2>4, <3>1, <3>3
      <4>2. i - 1 \in 1..(n - 1)
        BY <2>1, <3>3
      <4>3. p[i] = q[i - 1]
        BY <1>1, <3>1, <3>3
      <4> QED BY <2>2, <2>3, <4>1, <4>2, <4>3
    <3> QED BY <3>2, <3>3
  <2>6. Len(r) = n
    BY <2>1, <2>3, <2>4
  <2>7. Start(p, n) = r
    BY <2>2, <2>4, <2>5, <2>6, SeqEqual DEF Path
  <2> QED BY <2>7 DEF r, v
<1> QED BY <1>1, <1>2, <1>3, <1>4, <1>5 DEF p

\* The members of an object, each a document.
Documents(f) ==
  DOMAIN f \subseteq STRING /\ IsFiniteSet(DOMAIN f) /\ \A k \in DOMAIN f : Document(f[k])

LEMMA FiniteImage ==
  ASSUME NEW S, IsFiniteSet(S), NEW g, DOMAIN g = S
  PROVE  IsFiniteSet({g[x] : x \in S})
<1> DEFINE T == {g[x] : x \in S}
           h == [x \in S |-> g[x]]
<1>1. h \in Surjection(S, T)
  BY DEF Surjection
<1> QED BY <1>1, FS_Surjection

LEMMA ObjectFacts ==
  ASSUME NEW f, Documents(f)
  PROVE  /\ << >> \in DOMAIN Object(f) /\ Object(f)[<< >>] = ObjectNode
         /\ \A k \in DOMAIN f : \A q \in DOMAIN f[k] :
              <<k>> \o q \in DOMAIN Object(f) /\ Object(f)[<<k>> \o q] = f[k][q]
         /\ \A p \in DOMAIN Object(f) :
              p = << >> \/ \E k \in DOMAIN f : \E q \in DOMAIN f[k] : p = <<k>> \o q
<1> DEFINE D == {<< >>} \cup UNION {{<<k>> \o q : q \in DOMAIN f[k]} : k \in DOMAIN f}
<1>1. Object(f) = [p \in D |-> IF p = << >> THEN ObjectNode ELSE f[Head(p)][Tail(p)]]
  BY DEF Object
<1>2. ASSUME NEW k \in DOMAIN f, NEW q \in DOMAIN f[k]
      PROVE  <<k>> \o q \in D /\ Object(f)[<<k>> \o q] = f[k][q]
  <2>1. <<k>> \o q \in D
    OBVIOUS
  <2>2. /\ <<k>> \o q # << >>
        /\ Head(<<k>> \o q) = k /\ Tail(<<k>> \o q) = q
    <3>1. k \in STRING /\ q \in Path
      BY DEF Documents, Document
    <3> QED BY <3>1, MemberPath
  <2> HIDE DEF D
  <2> QED BY <1>1, <2>1, <2>2
<1>3. << >> \in D /\ DOMAIN Object(f) = D /\ Object(f)[<< >>] = ObjectNode
  <2>1. << >> \in D
    OBVIOUS
  <2> HIDE DEF D
  <2> QED BY <1>1, <2>1
<1> QED BY <1>2, <1>3

LEMMA ObjectDocument ==
  ASSUME NEW f, Documents(f), NEW n \in Nat, \A k \in DOMAIN f : Deep(f[k], n)
  PROVE  Document(Object(f)) /\ Deep(Object(f), n + 1)
<1> DEFINE D == DOMAIN Object(f)
<1>1. D = {<< >>} \cup UNION {{<<k>> \o q : q \in DOMAIN f[k]} : k \in DOMAIN f}
  BY DEF Object
<1>2. ASSUME NEW p \in D, p # << >>
      PROVE  \E k \in STRING, q \in Path : k \in DOMAIN f /\ q \in DOMAIN f[k] /\ p = <<k>> \o q
  BY <1>1, <1>2 DEF Documents, Document
<1>3. << >> \in Path /\ Len(<< >>) = 0
  BY DEF Path
<1>4. \A p \in D : p \in Path /\ Len(p) <= n + 1
  <2> SUFFICES ASSUME NEW p \in D, p # << >>
               PROVE  p \in Path /\ Len(p) <= n + 1
    BY <1>3
  <2>1. PICK k \in STRING, q \in Path : k \in DOMAIN f /\ q \in DOMAIN f[k] /\ p = <<k>> \o q
    BY <1>2
  <2>2. Len(q) \in Nat /\ Len(q) <= n
    <3>1. Deep(f[k], n)
      BY <2>1
    <3>2. Len(q) <= n
      BY <2>1, <3>1 DEF Deep
    <3>3. Len(q) \in Nat
      BY DEF Path
    <3> QED BY <3>2, <3>3
  <2>3. p \in Path /\ Len(p) = Len(q) + 1
    BY <2>1, MemberPath
  <2> QED BY <2>2, <2>3
<1>5. IsFiniteSet(D)
  <2>1. ASSUME NEW k \in DOMAIN f
        PROVE  IsFiniteSet({<<k>> \o q : q \in DOMAIN f[k]})
    <3> DEFINE g == [q \in DOMAIN f[k] |-> <<k>> \o q]
    <3>1. IsFiniteSet({g[q] : q \in DOMAIN f[k]})
      BY FiniteImage DEF Documents, Document
    <3>2. {g[q] : q \in DOMAIN f[k]} = {<<k>> \o q : q \in DOMAIN f[k]}
      OBVIOUS
    <3> QED BY <3>1, <3>2
  <2> DEFINE U == {{<<k>> \o q : q \in DOMAIN f[k]} : k \in DOMAIN f}
  <2>2. IsFiniteSet(U) /\ \A s \in U : IsFiniteSet(s)
    <3> DEFINE g == [k \in DOMAIN f |-> {<<k>> \o q : q \in DOMAIN f[k]}]
    <3>1. IsFiniteSet({g[k] : k \in DOMAIN f})
      BY FiniteImage DEF Documents
    <3>2. {g[k] : k \in DOMAIN f} = U
      OBVIOUS
    <3> QED BY <2>1, <3>1, <3>2
  <2>3. IsFiniteSet(UNION U)
    <3> HIDE DEF U
    <3> QED BY <2>2, FS_UNION
  <2>4. D = (UNION U) \cup {<< >>}
    BY <1>1
  <2>5. IsFiniteSet((UNION U) \cup {<< >>})
    <3> HIDE DEF U, D
    <3> QED BY <2>3, FS_AddElement
  <2> QED BY <2>4, <2>5
<1>6. ASSUME NEW p \in D, NEW m \in 0..(Len(p) - 1)
      PROVE  IsObject(Object(f), Start(p, m))
  <2>1. p # << >> /\ Len(p) \in Nat
    BY <1>3, <1>4, <1>6 DEF Path
  <2>2. PICK k \in STRING, q \in Path : k \in DOMAIN f /\ q \in DOMAIN f[k] /\ p = <<k>> \o q
    BY <1>2, <2>1
  <2>3. Len(p) = Len(q) + 1 /\ Len(q) \in Nat
    BY <2>2, MemberPath DEF Path
  <2>4. CASE m = 0
    <3>1. Start(p, 0) \in Path /\ Len(Start(p, 0)) = 0
      BY <1>4, <2>1, StartFacts
    <3>2. Start(p, 0) = << >>
      BY <3>1, EmptySeq DEF Path
    <3> QED BY <2>4, <3>2, ObjectFacts DEF IsObject
  <2>5. CASE m # 0
    <3>1. m - 1 \in 0..(Len(q) - 1) /\ m \in 1..(Len(q) + 1)
      BY <2>3, <2>5
    <3>2. Start(p, m) = <<k>> \o Start(q, m - 1)
      BY <2>2, <3>1, MemberPath
    <3>3. IsObject(f[k], Start(q, m - 1))
      BY <2>2, <3>1 DEF Documents, Document
    <3>4. Start(q, m - 1) \in DOMAIN f[k] /\ f[k][Start(q, m - 1)] = ObjectNode
      BY <3>3 DEF IsObject
    <3>5. /\ <<k>> \o Start(q, m - 1) \in DOMAIN Object(f)
          /\ Object(f)[<<k>> \o Start(q, m - 1)] = ObjectNode
      BY <2>2, <3>4, ObjectFacts
    <3> QED BY <3>2, <3>5 DEF IsObject
  <2> QED BY <2>4, <2>5
<1> HIDE DEF D
<1>7. Document(Object(f))
  BY <1>4, <1>5, <1>6, ObjectFacts DEF Document, D
<1>8. Deep(Object(f), n + 1)
  BY <1>4 DEF Deep, D
<1> QED BY <1>7, <1>8

LEMMA CloneDocument ==
  ASSUME NEW t, NEW b, Document(t), CloneOf(t, b)
  PROVE  Document(b)
<1> SUFFICES ASSUME NEW p \in DOMAIN b, NEW n \in 0..(Len(p) - 1)
             PROVE  IsObject(b, Start(p, n))
  BY DEF Document, CloneOf
<1>1. Start(p, n) \in DOMAIN t /\ t[Start(p, n)] = ObjectNode
  BY DEF Document, CloneOf, IsObject
<1> QED BY <1>1, NullIsNoObject DEF CloneOf, IsObject

LEMMA ObjectClone ==
  ASSUME NEW f, NEW g, Documents(f), DOMAIN g = DOMAIN f,
         \A k \in DOMAIN f : CloneOf(f[k], g[k])
  PROVE  CloneOf(Object(f), Object(g))
<1>1. Documents(g)
  <2>1. ASSUME NEW k \in DOMAIN f
        PROVE  Document(g[k])
    <3>1. Document(f[k]) /\ CloneOf(f[k], g[k])
      BY DEF Documents
    <3> QED BY <3>1, CloneDocument
  <2> QED BY <2>1 DEF Documents
<1>2. ASSUME NEW k \in DOMAIN f
      PROVE  DOMAIN g[k] = DOMAIN f[k]
  BY DEF CloneOf
<1>3. DOMAIN Object(g) = DOMAIN Object(f)
  <2>1. {{<<k>> \o q : q \in DOMAIN g[k]} : k \in DOMAIN g}
          = {{<<k>> \o q : q \in DOMAIN f[k]} : k \in DOMAIN f}
    BY <1>2
  <2>2. /\ DOMAIN Object(f)
             = {<< >>} \cup UNION {{<<k>> \o q : q \in DOMAIN f[k]} : k \in DOMAIN f}
        /\ DOMAIN Object(g)
             = {<< >>} \cup UNION {{<<k>> \o q : q \in DOMAIN g[k]} : k \in DOMAIN g}
    BY DEF Object
  <2> QED BY <2>1, <2>2
<1>4. ASSUME NEW p \in DOMAIN Object(f)
      PROVE  \/ Object(g)[p] = Object(f)[p]
             \/ Object(f)[p] = NullNode /\ Object(g)[p] = ObjectNode
  <2>1. CASE p = << >>
    BY <1>1, <2>1, ObjectFacts
  <2>2. CASE p # << >>
    <3>1. PICK k \in DOMAIN f : \E q \in DOMAIN f[k] : p = <<k>> \o q
      BY <2>2, ObjectFacts
    <3>2. PICK q \in DOMAIN f[k] : p = <<k>> \o q
      BY <3>1
    <3>3. Object(f)[p] = f[k][q]
      BY <3>2, ObjectFacts
    <3>4. Object(g)[p] = g[k][q]
      BY <1>1, <1>2, <3>2, ObjectFacts
    <3>5. g[k][q] = f[k][q] \/ (f[k][q] = NullNode /\ g[k][q] = ObjectNode)
      BY DEF CloneOf
    <3> QED BY <3>3, <3>4, <3>5
  <2> QED BY <2>1, <2>2
<1> QED BY <1>3, <1>4 DEF CloneOf

LEMMA ObjectApart ==
  ASSUME NEW f, NEW g, Documents(f), Documents(g),
         \A k \in DOMAIN f \cap DOMAIN g : Apart(f[k], g[k])
  PROVE  Apart(Object(f), Object(g))
<1> SUFFICES ASSUME NEW p \in DOMAIN Object(f) \cap DOMAIN Object(g),
                    Object(f)[p] = NullNode, Object(g)[p] = ObjectNode
             PROVE  Members(Object(g), p) # {}
  BY DEF Apart
<1>1. p # << >>
  BY ObjectFacts, NullIsNoObject
<1>2. \E k \in DOMAIN f : \E q \in DOMAIN f[k] : p = <<k>> \o q
  BY <1>1, ObjectFacts
<1>3. PICK k \in STRING, q \in Path : k \in DOMAIN f /\ q \in DOMAIN f[k] /\ p = <<k>> \o q
  BY <1>2 DEF Documents, Document
<1>4. \E l \in DOMAIN g : \E r \in DOMAIN g[l] : p = <<l>> \o r
  BY <1>1, ObjectFacts
<1>5. PICK l \in STRING, r \in Path : l \in DOMAIN g /\ r \in DOMAIN g[l] /\ p = <<l>> \o r
  BY <1>4 DEF Documents, Document
<1>6. l = k /\ r = q
  <2>1. Head(p) = k /\ Tail(p) = q
    BY <1>3, MemberPath
  <2>2. Head(p) = l /\ Tail(p) = r
    BY <1>5, MemberPath
  <2> QED BY <2>1, <2>2
<1>7. f[k][q] = NullNode /\ g[k][q] = ObjectNode
  <2>1. Object(f)[p] = f[k][q]
    BY <1>3, ObjectFacts
  <2>2. Object(g)[p] = g[l][r]
    BY <1>5, ObjectFacts
  <2> QED BY <1>6, <2>1, <2>2
<1>8. PICK s \in Members(g[k], q) : TRUE
  BY <1>3, <1>5, <1>6, <1>7 DEF Apart
<1>9. s \in DOMAIN g[k] /\ s \in Path /\ Len(s) = Len(q) + 1 /\ Start(s, Len(q)) = q
  BY <1>5, <1>6, <1>8 DEF Members, Below, Documents, Document
<1> DEFINE m == <<k>> \o s
<1>10. m \in DOMAIN Object(g)
  BY <1>5, <1>6, <1>9, ObjectFacts
<1>11. Len(m) = Len(p) + 1 /\ Below(p, m)
  <2>1. Len(p) = Len(q) + 1 /\ Len(m) = Len(s) + 1 /\ Len(q) \in Nat
    BY <1>3, <1>9, MemberPath DEF Path
  <2>2. Start(m, Len(q) + 1) = <<k>> \o Start(s, (Len(q) + 1) - 1)
    <3>1. Len(q) + 1 \in 1..(Len(s) + 1)
      BY <1>9, <2>1
    <3> QED BY <1>9, <3>1, MemberPath
  <2>3. (Len(q) + 1) - 1 = Len(q)
    BY <2>1
  <2>4. Start(m, Len(p)) = p
    BY <1>3, <1>9, <2>1, <2>2, <2>3
  <2> HIDE DEF m
  <2> QED BY <1>9, <2>1, <2>4 DEF Below
<1> QED BY <1>10, <1>11 DEF Members

LEMMA ObjectHasMembers ==
  ASSUME NEW f, Documents(f), NEW k \in DOMAIN f
  PROVE  Members(Object(f), << >>) # {}
<1> DEFINE m == <<k>> \o << >>
<1>1. k \in STRING /\ << >> \in DOMAIN f[k] /\ << >> \in Path /\ Len(<< >>) = 0
  BY DEF Documents, Document, Path
<1>2. m \in DOMAIN Object(f)
  BY <1>1, ObjectFacts
<1>3. m \in Path /\ Len(m) = 1
  <2>1. m \in Path /\ Len(m) = Len(<< >>) + 1
    BY <1>1, MemberPath, Zenon
  <2> QED BY <1>1, <2>1
<1>4. Start(m, 0) = << >>
  <2>1. Start(m, 0) \in Path /\ Len(Start(m, 0)) = 0
    <3> HIDE DEF m
    <3> QED BY <1>3, StartFacts
  <2> QED BY <2>1, EmptySeq DEF Path
<1>5. Len(m) = Len(<< >>) + 1 /\ Below(<< >>, m)
  <2> HIDE DEF m
  <2> QED BY <1>1, <1>3, <1>4 DEF Below
<1> QED BY <1>2, <1>5 DEF Members

\* What is not an object is a document of one path.
LEMMA FlatFacts ==
  ASSUME NEW v
  PROVE  /\ Document(Leaf(v)) /\ Deep(Leaf(v), 0)
         /\ \A p \in DOMAIN Leaf(v) : Leaf(v)[p] # ObjectNode
         /\ Document(Array(v)) /\ Deep(Array(v), 0)
         /\ \A p \in DOMAIN Array(v) : Array(v)[p] # ObjectNode
<1>1. << >> \in Path /\ Len(<< >>) = 0 /\ IsFiniteSet({<< >>})
  BY FS_Singleton, EmptySeq DEF Path
<1>2. DOMAIN Leaf(v) = {<< >>} /\ DOMAIN Array(v) = {<< >>}
  BY DEF Leaf, Array
<1>3. LeafNode(v) # ObjectNode /\ ArrayNode(v) # ObjectNode
  BY DEF LeafNode, ArrayNode, ObjectNode
<1>4. \A p \in {<< >>} : Leaf(v)[p] # ObjectNode /\ Array(v)[p] # ObjectNode
  BY <1>3 DEF Leaf, Array
<1>5. \A p \in {<< >>} : 0..(Len(p) - 1) = {}
  BY <1>1
<1>6. Document(Leaf(v)) /\ Document(Array(v))
  BY <1>1, <1>2, <1>5 DEF Document
<1>7. Deep(Leaf(v), 0) /\ Deep(Array(v), 0)
  BY <1>1, <1>2 DEF Deep
<1> QED BY <1>2, <1>4, <1>6, <1>7

LEMMA Deeper ==
  ASSUME NEW f, Document(f), NEW n \in Nat, NEW m \in Nat, n <= m, Deep(f, n)
  PROVE  Deep(f, m)
<1> SUFFICES ASSUME NEW p \in DOMAIN f
             PROVE  Len(p) <= m
  BY DEF Deep
<1>1. Len(p) <= n
  BY DEF Deep
<1>2. Len(p) \in Nat
  BY DEF Document, Path
<1> QED BY <1>1, <1>2

LEMMA CloneOfItself ==
  ASSUME NEW t
  PROVE  CloneOf(t, t)
BY DEF CloneOf

\* Labels, containers and the fields that are no objects.
LabelsDocument(labels) ==
  IF labels = Nil THEN Null ELSE Object([l \in DOMAIN labels |-> Leaf(labels[l])])
IsLabels(labels) == labels # Nil => IsMap(labels) /\ DOMAIN labels # {}

LEMMA LabelsFacts ==
  ASSUME NEW labels, IsLabels(labels),
         NEW clone, clone = IF labels = Nil THEN << >> ELSE labels
  PROVE  /\ Document(LabelsDocument(labels)) /\ Deep(LabelsDocument(labels), 1)
         /\ CloneOf(LabelsDocument(labels), LabelsDocument(clone))
<1>1. CASE labels = Nil
  <2>1. LabelsDocument(labels) = Null /\ Null = Leaf(Nil)
    BY <1>1 DEF LabelsDocument, Null
  <2>2. Document(Null) /\ Deep(Null, 0)
    BY <2>1, FlatFacts
  <2>3. Deep(Null, 1)
    <3>1. 0 \in Nat /\ 1 \in Nat /\ 0 <= 1
      OBVIOUS
    <3> QED BY <2>2, <3>1, Deeper
  <2>4. CASE << >> = Nil
    <3>1. clone = labels
      BY <1>1, <2>4
    <3> QED BY <2>1, <2>2, <2>3, <3>1, CloneOfItself
  <2>5. CASE << >> # Nil
    <3> DEFINE f == [l \in DOMAIN << >> |-> Leaf(<< >>[l])]
    <3>1. LabelsDocument(<< >>) = Object(f)
      BY <2>5 DEF LabelsDocument
    <3>2. DOMAIN f = {}
      OBVIOUS
    <3> HIDE DEF f
    <3>3. DOMAIN Object(f) = {<< >>} /\ Object(f)[<< >>] = ObjectNode
      BY <3>2 DEF Object
    <3>4. DOMAIN Null = {<< >>} /\ Null[<< >>] = NullNode
      BY DEF Null, Leaf, NullNode
    <3>5. CloneOf(Null, Object(f))
      BY <3>3, <3>4 DEF CloneOf
    <3>6. clone = << >>
      BY <1>1
    <3> QED BY <2>1, <2>2, <2>3, <3>1, <3>5, <3>6
  <2> QED BY <2>4, <2>5
<1>2. CASE labels # Nil
  <2> DEFINE f == [l \in DOMAIN labels |-> Leaf(labels[l])]
  <2>1. Documents(f) /\ \A l \in DOMAIN f : Deep(f[l], 0)
    BY <1>2, FlatFacts DEF IsLabels, IsMap, Documents
  <2>2. LabelsDocument(labels) = Object(f)
    BY <1>2 DEF LabelsDocument
  <2> HIDE DEF f
  <2>3. Document(Object(f)) /\ Deep(Object(f), 0 + 1)
    <3>1. 0 \in Nat
      OBVIOUS
    <3> QED BY <2>1, <3>1, ObjectDocument
  <2>4. 0 + 1 = 1
    OBVIOUS
  <2> QED BY <1>2, <2>2, <2>3, <2>4, CloneOfItself
<1> QED BY <1>1, <1>2

LEMMA FlatApart ==
  ASSUME NEW t, NEW v
  PROVE  Apart(t, Leaf(v)) /\ Apart(t, Array(v))
<1>1. \A p \in DOMAIN Leaf(v) : Leaf(v)[p] # ObjectNode
  BY FlatFacts
<1>2. \A p \in DOMAIN Array(v) : Array(v)[p] # ObjectNode
  BY FlatFacts
<1> QED BY <1>1, <1>2 DEF Apart

LEMMA LabelsApart ==
  ASSUME NEW s, NEW labels, IsLabels(labels)
  PROVE  Apart(LabelsDocument(s), LabelsDocument(labels))
<1>1. CASE labels = Nil
  BY <1>1, FlatApart DEF LabelsDocument, Null
<1>2. CASE labels # Nil
  <2> DEFINE f == [l \in DOMAIN labels |-> Leaf(labels[l])]
  <2>1. Documents(f) /\ DOMAIN f # {} /\ \A l \in DOMAIN f : f[l] = Leaf(labels[l])
    BY <1>2, FlatFacts DEF IsLabels, IsMap, Documents
  <2>2. LabelsDocument(labels) = Object(f)
    BY <1>2 DEF LabelsDocument
  <2> HIDE DEF f
  <2>3. PICK k \in DOMAIN f : TRUE
    BY <2>1
  <2>4. Members(Object(f), << >>) # {}
    BY <2>1, <2>3, ObjectHasMembers
  <2>5. \A p \in DOMAIN Object(f) : Object(f)[p] = ObjectNode => p = << >>
    <3> SUFFICES ASSUME NEW p \in DOMAIN Object(f), p # << >>
                 PROVE  Object(f)[p] # ObjectNode
      OBVIOUS
    <3>1. PICK l \in DOMAIN f : \E q \in DOMAIN f[l] : p = <<l>> \o q
      BY <2>1, ObjectFacts
    <3>2. PICK q \in DOMAIN f[l] : p = <<l>> \o q
      BY <3>1
    <3>3. Object(f)[p] = f[l][q]
      BY <2>1, <3>2, ObjectFacts
    <3>4. f[l][q] # ObjectNode
      BY <2>1, FlatFacts
    <3> QED BY <3>3, <3>4
  <2> QED BY <2>2, <2>4, <2>5 DEF Apart
<1> QED BY <1>1, <1>2

ContainersDocument(containers) == IF containers = Nil THEN Null ELSE Array(containers)

LEMMA ContainersFacts ==
  ASSUME NEW containers
  PROVE  /\ Document(ContainersDocument(containers)) /\ Deep(ContainersDocument(containers), 1)
         /\ \A t : Apart(t, ContainersDocument(containers))
<1>1. /\ Document(ContainersDocument(containers)) /\ Deep(ContainersDocument(containers), 0)
      /\ \A t : Apart(t, ContainersDocument(containers))
  BY FlatFacts, FlatApart DEF ContainersDocument, Null
<1>2. 0 \in Nat /\ 1 \in Nat /\ 0 <= 1
  OBVIOUS
<1> QED BY <1>1, <1>2, Deeper

LEMMA LeafFacts ==
  ASSUME NEW v
  PROVE  Document(Leaf(v)) /\ Deep(Leaf(v), 1)
<1>1. 0 \in Nat /\ 1 \in Nat /\ 0 <= 1
  OBVIOUS
<1> QED BY <1>1, FlatFacts, Deeper

-----------------------------------------------------------------------------
(* Pods, nodes and the data of a cluster.                                  *)

PodFields(pod) ==
  [phase      |-> Leaf(pod.phase),
   labels     |-> LabelsDocument(pod.labels),
   containers |-> ContainersDocument(pod.containers)]

LEMMA PodFieldFacts ==
  ASSUME NEW pod
  PROVE  /\ PodDocument(pod) = Object(PodFields(pod))
         /\ DOMAIN PodFields(pod) = {"phase", "labels", "containers"}
         /\ PodFields(pod)["phase"] = Leaf(pod.phase)
         /\ PodFields(pod)["labels"] = LabelsDocument(pod.labels)
         /\ PodFields(pod)["containers"] = ContainersDocument(pod.containers)
BY DEF PodDocument, PodFields, LabelsDocument, ContainersDocument

LEMMA PodFacts ==
  ASSUME NEW pod, IsPod(pod)
  PROVE  /\ Documents(PodFields(pod))
         /\ Document(PodDocument(pod)) /\ Deep(PodDocument(pod), 2)
         /\ CloneOf(PodDocument(pod), PodDocument(ClonePod(pod)))
<1> DEFINE f == PodFields(pod)
           g == PodFields(ClonePod(pod))
<1>1. IsLabels(pod.labels) /\ pod.containers # << >>
  BY DEF IsPod, IsLabels
<1>2. /\ DOMAIN f = {"phase", "labels", "containers"} /\ DOMAIN g = DOMAIN f
      /\ f["phase"] = Leaf(pod.phase)
      /\ f["labels"] = LabelsDocument(pod.labels)
      /\ f["containers"] = ContainersDocument(pod.containers)
      /\ PodDocument(pod) = Object(f) /\ PodDocument(ClonePod(pod)) = Object(g)
  BY PodFieldFacts
<1>3. /\ g["phase"] = Leaf(pod.phase)
      /\ g["labels"] = LabelsDocument(ClonePod(pod).labels)
      /\ g["containers"] = ContainersDocument(pod.containers)
  <2>1. /\ ClonePod(pod).phase = pod.phase
        /\ ClonePod(pod).labels = IF pod.labels = Nil THEN << >> ELSE pod.labels
        /\ ClonePod(pod).containers = pod.containers
    BY <1>1 DEF ClonePod
  <2> QED BY <2>1, PodFieldFacts
<1> HIDE DEF f, g
<1>4. IsFiniteSet(DOMAIN f)
  <2>1. IsFiniteSet({"phase"})
    BY FS_Singleton
  <2>2. IsFiniteSet({"phase"} \cup {"labels"})
    BY <2>1, FS_AddElement
  <2>3. IsFiniteSet(({"phase"} \cup {"labels"}) \cup {"containers"})
    BY <2>2, FS_AddElement
  <2>4. DOMAIN f = ({"phase"} \cup {"labels"}) \cup {"containers"}
    BY <1>2
  <2> QED BY <2>3, <2>4
<1>5. /\ Document(f["phase"]) /\ Deep(f["phase"], 1) /\ CloneOf(f["phase"], g["phase"])
      /\ Document(f["labels"]) /\ Deep(f["labels"], 1) /\ CloneOf(f["labels"], g["labels"])
      /\ Document(f["containers"]) /\ Deep(f["containers"], 1)
      /\ CloneOf(f["containers"], g["containers"])
  <2>1. Document(f["phase"]) /\ Deep(f["phase"], 1) /\ CloneOf(f["phase"], g["phase"])
    BY <1>2, <1>3, LeafFacts, CloneOfItself
  <2>2. Document(f["labels"]) /\ Deep(f["labels"], 1) /\ CloneOf(f["labels"], g["labels"])
    <3>1. ClonePod(pod).labels = IF pod.labels = Nil THEN << >> ELSE pod.labels
      BY DEF ClonePod
    <3> QED BY <1>1, <1>2, <1>3, <3>1, LabelsFacts
  <2>3. /\ Document(f["containers"]) /\ Deep(f["containers"], 1)
        /\ CloneOf(f["containers"], g["containers"])
    BY <1>2, <1>3, ContainersFacts, CloneOfItself
  <2> QED BY <2>1, <2>2, <2>3
<1>6. \A k \in DOMAIN f : Document(f[k]) /\ Deep(f[k], 1) /\ CloneOf(f[k], g[k])
  BY <1>2, <1>5
<1>7. Documents(f)
  <2>1. DOMAIN f \subseteq STRING
    BY <1>2, KeysAssumption DEF Keys
  <2> QED BY <1>4, <1>6, <2>1 DEF Documents
<1>8. Document(Object(f)) /\ Deep(Object(f), 1 + 1)
  <2>1. 1 \in Nat
    OBVIOUS
  <2> QED BY <1>6, <1>7, <2>1, ObjectDocument
<1>9. CloneOf(Object(f), Object(g))
  BY <1>2, <1>6, <1>7, ObjectClone
<1>10. 1 + 1 = 2
  OBVIOUS
<1> QED BY <1>2, <1>7, <1>8, <1>9, <1>10 DEF f

LEMMA PodApart ==
  ASSUME NEW p, NEW q, IsPod(p), IsPod(q)
  PROVE  Apart(PodDocument(p), PodDocument(q))
<1> DEFINE f == PodFields(p)
           g == PodFields(q)
<1>1. /\ DOMAIN f = {"phase", "labels", "containers"}
      /\ f["labels"] = LabelsDocument(p.labels)
      /\ g["phase"] = Leaf(q.phase)
      /\ g["labels"] = LabelsDocument(q.labels)
      /\ g["containers"] = ContainersDocument(q.containers)
      /\ PodDocument(p) = Object(f) /\ PodDocument(q) = Object(g)
  BY PodFieldFacts
<1>2. Documents(f) /\ Documents(g) /\ IsLabels(q.labels)
  BY PodFacts DEF IsPod, IsLabels
<1> HIDE DEF f, g
<1>3. Apart(f["phase"], g["phase"])
  BY <1>1, FlatApart
<1>4. Apart(f["labels"], g["labels"])
  BY <1>1, <1>2, LabelsApart
<1>5. Apart(f["containers"], g["containers"])
  BY <1>1, ContainersFacts
<1>6. \A k \in DOMAIN f \cap DOMAIN g : Apart(f[k], g[k])
  BY <1>1, <1>3, <1>4, <1>5
<1> QED BY <1>1, <1>2, <1>6, ObjectApart

LEMMA PodsFacts ==
  ASSUME NEW pods, IsPods(pods)
  PROVE  /\ Document(PodsDocument(pods)) /\ Deep(PodsDocument(pods), 3)
         /\ CloneOf(PodsDocument(pods), PodsDocument(ClonePods(pods)))
<1> DEFINE f == [p \in DOMAIN pods |-> PodDocument(pods[p])]
           g == [p \in DOMAIN pods |-> PodDocument(ClonePod(pods[p]))]
<1>1. PodsDocument(pods) = Object(f) /\ PodsDocument(ClonePods(pods)) = Object(g)
  <2>1. [p \in DOMAIN ClonePods(pods) |-> PodDocument(ClonePods(pods)[p])] = g
    BY DEF ClonePods
  <2> QED BY <2>1 DEF PodsDocument
<1>2. \A k \in DOMAIN f : Document(f[k]) /\ Deep(f[k], 2) /\ CloneOf(f[k], g[k])
  BY PodFacts DEF IsPods
<1>3. Documents(f) /\ DOMAIN g = DOMAIN f
  BY <1>2 DEF Documents, IsPods, IsMap
<1> HIDE DEF f, g
<1>4. Document(Object(f)) /\ Deep(Object(f), 2 + 1)
  <2>1. 2 \in Nat
    OBVIOUS
  <2> QED BY <1>2, <1>3, <2>1, ObjectDocument
<1>5. CloneOf(Object(f), Object(g))
  BY <1>2, <1>3, ObjectClone
<1>6. 2 + 1 = 3
  OBVIOUS
<1> QED BY <1>1, <1>4, <1>5, <1>6

LEMMA PodsApart ==
  ASSUME NEW s, NEW t, IsPods(s), IsPods(t)
  PROVE  Apart(PodsDocument(s), PodsDocument(t))
<1> DEFINE f == [p \in DOMAIN s |-> PodDocument(s[p])]
           g == [p \in DOMAIN t |-> PodDocument(t[p])]
<1>1. PodsDocument(s) = Object(f) /\ PodsDocument(t) = Object(g)
  BY DEF PodsDocument
<1>2. Documents(f) /\ Documents(g)
  BY PodFacts DEF Documents, IsPods, IsMap
<1>3. \A k \in DOMAIN f \cap DOMAIN g : Apart(f[k], g[k])
  BY PodApart DEF IsPods
<1> HIDE DEF f, g
<1> QED BY <1>1, <1>2, <1>3, ObjectApart

LEMMA TwoDocuments ==
  ASSUME NEW a \in STRING, NEW b \in STRING, NEW f, DOMAIN f = {a, b},
         Document(f[a]), Document(f[b])
  PROVE  Documents(f)
<1>1. IsFiniteSet({a} \cup {b})
  <2>1. IsFiniteSet({a})
    BY FS_Singleton
  <2> QED BY <2>1, FS_AddElement
<1>2. DOMAIN f = {a} \cup {b}
  OBVIOUS
<1>3. IsFiniteSet(DOMAIN f)
  BY <1>1, <1>2
<1>4. DOMAIN f \subseteq STRING /\ \A k \in DOMAIN f : Document(f[k])
  OBVIOUS
<1> QED BY <1>3, <1>4 DEF Documents

StatusFields(node) == [ready |-> Leaf(node.ready), conditions |-> Array(node.conditions)]
StatusDocument(node) == Object(StatusFields(node))

LEMMA StatusFacts ==
  ASSUME NEW node
  PROVE  /\ Documents(StatusFields(node))
         /\ Document(StatusDocument(node)) /\ Deep(StatusDocument(node), 1)
         /\ \A t : Documents(t) => Apart(Object(t), StatusDocument(node))
<1> DEFINE f == StatusFields(node)
<1>1. DOMAIN f = {"ready", "conditions"} /\ f["ready"] = Leaf(node.ready)
      /\ f["conditions"] = Array(node.conditions)
  BY DEF StatusFields
<1>2. "ready" \in STRING /\ "conditions" \in STRING
  BY KeysAssumption DEF Keys
<1>3. /\ Document(f["ready"]) /\ Deep(f["ready"], 0)
      /\ Document(f["conditions"]) /\ Deep(f["conditions"], 0)
  BY <1>1, FlatFacts
<1> HIDE DEF f
<1>4. Documents(f)
  BY <1>1, <1>2, <1>3, TwoDocuments
<1>5. \A k \in DOMAIN f : Deep(f[k], 0)
  BY <1>1, <1>3
<1>6. Document(Object(f)) /\ Deep(Object(f), 0 + 1)
  <2>1. 0 \in Nat
    OBVIOUS
  <2> QED BY <1>4, <1>5, <2>1, ObjectDocument
<1>7. ASSUME NEW t, Documents(t)
      PROVE  Apart(Object(t), Object(f))
  <2>1. \A k \in DOMAIN t \cap DOMAIN f : Apart(t[k], f[k])
    BY <1>1, FlatApart
  <2> QED BY <1>4, <1>7, <2>1, ObjectApart
<1>8. 0 + 1 = 1
  OBVIOUS
<1> QED BY <1>4, <1>6, <1>7, <1>8 DEF f, StatusDocument

NodeFields(node) == [status |-> StatusDocument(node), pods |-> PodsDocument(node.pods)]

LEMMA NodeFieldFacts ==
  ASSUME NEW node
  PROVE  /\ NodeDocument(node) = Object(NodeFields(node))
         /\ DOMAIN NodeFields(node) = {"status", "pods"}
         /\ NodeFields(node)["status"] = StatusDocument(node)
         /\ NodeFields(node)["pods"] = PodsDocument(node.pods)
BY DEF NodeDocument, NodeFields, StatusDocument, StatusFields

LEMMA NodeFacts ==
  ASSUME NEW node, IsNode(node)
  PROVE  /\ Documents(NodeFields(node))
         /\ Document(NodeDocument(node)) /\ Deep(NodeDocument(node), 4)
         /\ CloneOf(NodeDocument(node), NodeDocument(CloneNode(node)))
<1> DEFINE f == NodeFields(node)
           g == NodeFields(CloneNode(node))
<1>1. IsPods(node.pods)
  BY DEF IsNode
<1>2. /\ CloneNode(node).ready = node.ready
      /\ CloneNode(node).conditions = node.conditions
      /\ CloneNode(node).pods = ClonePods(node.pods)
  BY DEF CloneNode, IsNode
<1>3. StatusDocument(CloneNode(node)) = StatusDocument(node)
  BY <1>2 DEF StatusDocument, StatusFields
<1>4. /\ NodeDocument(node) = Object(f) /\ NodeDocument(CloneNode(node)) = Object(g)
      /\ DOMAIN f = {"status", "pods"} /\ DOMAIN g = DOMAIN f
      /\ f["status"] = StatusDocument(node) /\ g["status"] = StatusDocument(node)
      /\ f["pods"] = PodsDocument(node.pods) /\ g["pods"] = PodsDocument(ClonePods(node.pods))
  BY <1>2, <1>3, NodeFieldFacts
<1> HIDE DEF f, g
<1>5. Document(f["status"]) /\ Deep(f["status"], 3) /\ CloneOf(f["status"], g["status"])
  <2>1. 1 \in Nat /\ 3 \in Nat /\ 1 <= 3
    OBVIOUS
  <2> QED BY <1>4, <2>1, StatusFacts, Deeper, CloneOfItself
<1>6. Document(f["pods"]) /\ Deep(f["pods"], 3) /\ CloneOf(f["pods"], g["pods"])
  BY <1>1, <1>4, PodsFacts
<1>7. \A k \in DOMAIN f : Deep(f[k], 3) /\ CloneOf(f[k], g[k])
  BY <1>4, <1>5, <1>6
<1>8. Documents(f)
  <2>1. "status" \in STRING /\ "pods" \in STRING
    BY KeysAssumption DEF Keys
  <2> QED BY <1>4, <1>5, <1>6, <2>1, TwoDocuments
<1>9. Document(Object(f)) /\ Deep(Object(f), 3 + 1)
  <2>1. 3 \in Nat
    OBVIOUS
  <2> QED BY <1>7, <1>8, <2>1, ObjectDocument
<1>10. CloneOf(Object(f), Object(g))
  BY <1>4, <1>7, <1>8, ObjectClone
<1>11. 3 + 1 = 4
  OBVIOUS
<1> QED BY <1>4, <1>8, <1>9, <1>10, <1>11 DEF f

LEMMA NodeApart ==
  ASSUME NEW m, NEW n, IsNode(m), IsNode(n)
  PROVE  Apart(NodeDocument(m), NodeDocument(n))
<1> DEFINE f == NodeFields(m)
           g == NodeFields(n)
<1>1. /\ NodeDocument(m) = Object(f) /\ NodeDocument(n) = Object(g)
      /\ DOMAIN f = {"status", "pods"}
      /\ f["status"] = Object(StatusFields(m)) /\ g["status"] = StatusDocument(n)
      /\ f["pods"] = PodsDocument(m.pods) /\ g["pods"] = PodsDocument(n.pods)
  BY NodeFieldFacts DEF StatusDocument
<1>2. Documents(f) /\ Documents(g)
  BY NodeFacts
<1> HIDE DEF f, g
<1>3. Apart(f["status"], g["status"])
  BY <1>1, StatusFacts
<1>4. Apart(f["pods"], g["pods"])
  BY <1>1, PodsApart DEF IsNode
<1>5. \A k \in DOMAIN f \cap DOMAIN g : Apart(f[k], g[k])
  BY <1>1, <1>3, <1>4
<1> QED BY <1>1, <1>2, <1>5, ObjectApart

NodesFields(nodes) == [n \in DOMAIN nodes |-> NodeDocument(nodes[n])]

LEMMA NodesFacts ==
  ASSUME NEW nodes, IsMap(nodes), \A n \in DOMAIN nodes : IsNode(nodes[n]),
         NEW clones, DOMAIN clones = DOMAIN nodes,
         \A n \in DOMAIN nodes : clones[n] = CloneNode(nodes[n])
  PROVE  /\ Documents(NodesFields(nodes))
         /\ Document(Object(NodesFields(nodes))) /\ Deep(Object(NodesFields(nodes)), 5)
         /\ CloneOf(Object(NodesFields(nodes)), Object(NodesFields(clones)))
<1> DEFINE f == NodesFields(nodes)
           g == NodesFields(clones)
<1>1. /\ DOMAIN f = DOMAIN nodes /\ DOMAIN g = DOMAIN f
      /\ \A n \in DOMAIN f : f[n] = NodeDocument(nodes[n])
                             /\ g[n] = NodeDocument(CloneNode(nodes[n]))
  BY DEF NodesFields
<1> HIDE DEF f, g
<1>2. \A k \in DOMAIN f : Document(f[k]) /\ Deep(f[k], 4) /\ CloneOf(f[k], g[k])
  BY <1>1, NodeFacts
<1>3. Documents(f)
  BY <1>1, <1>2 DEF Documents, IsMap
<1>4. Document(Object(f)) /\ Deep(Object(f), 4 + 1)
  <2>1. 4 \in Nat
    OBVIOUS
  <2> QED BY <1>2, <1>3, <2>1, ObjectDocument
<1>5. CloneOf(Object(f), Object(g))
  BY <1>1, <1>2, <1>3, ObjectClone
<1>6. 4 + 1 = 5
  OBVIOUS
<1> QED BY <1>3, <1>4, <1>5, <1>6 DEF f, g

DataFields(data) ==
  [nodes |-> Object(NodesFields(data.nodes)),
   unassigned_pods |-> PodsDocument(data.unassigned_pods)]

LEMMA DataFieldFacts ==
  ASSUME NEW data
  PROVE  /\ ToGenericInterface(data) = Object(DataFields(data))
         /\ DOMAIN DataFields(data) = {"nodes", "unassigned_pods"}
         /\ DataFields(data)["nodes"] = Object(NodesFields(data.nodes))
         /\ DataFields(data)["unassigned_pods"] = PodsDocument(data.unassigned_pods)
BY DEF ToGenericInterface, DataFields, NodesFields

\* The document of the data of a cluster has no path of more than six keys, and
\* that of the clone differs from it only where there are no labels.
LEMMA DataFacts ==
  ASSUME NEW data, IsClusterData(data)
  PROVE  /\ Documents(DataFields(data))
         /\ Document(ToGenericInterface(data)) /\ Deep(ToGenericInterface(data), 6)
         /\ CloneOf(ToGenericInterface(data), ToGenericInterface(Clone(data)))
<1> DEFINE f == DataFields(data)
           g == DataFields(Clone(data))
<1>1. /\ IsMap(data.nodes) /\ \A n \in DOMAIN data.nodes : IsNode(data.nodes[n])
      /\ IsPods(data.unassigned_pods)
  BY DEF IsClusterData
<1>2. /\ Clone(data).nodes = [n \in DOMAIN data.nodes |-> CloneNode(data.nodes[n])]
      /\ Clone(data).unassigned_pods = ClonePods(data.unassigned_pods)
  BY DEF Clone
<1>3. /\ ToGenericInterface(data) = Object(f) /\ ToGenericInterface(Clone(data)) = Object(g)
      /\ DOMAIN f = {"nodes", "unassigned_pods"} /\ DOMAIN g = DOMAIN f
      /\ f["nodes"] = Object(NodesFields(data.nodes))
      /\ g["nodes"] = Object(NodesFields(Clone(data).nodes))
      /\ f["unassigned_pods"] = PodsDocument(data.unassigned_pods)
      /\ g["unassigned_pods"] = PodsDocument(ClonePods(data.unassigned_pods))
  BY <1>2, DataFieldFacts
<1> HIDE DEF f, g
<1>4. Document(f["nodes"]) /\ Deep(f["nodes"], 5) /\ CloneOf(f["nodes"], g["nodes"])
  <2> DEFINE clones == Clone(data).nodes
  <2>1. /\ DOMAIN clones = DOMAIN data.nodes
        /\ \A n \in DOMAIN data.nodes : clones[n] = CloneNode(data.nodes[n])
    BY <1>2
  <2> HIDE DEF clones
  <2>2. /\ Document(Object(NodesFields(data.nodes))) /\ Deep(Object(NodesFields(data.nodes)), 5)
        /\ CloneOf(Object(NodesFields(data.nodes)), Object(NodesFields(clones)))
    BY <1>1, <2>1, NodesFacts
  <2> QED BY <1>3, <2>2 DEF clones
<1>5. /\ Document(f["unassigned_pods"]) /\ Deep(f["unassigned_pods"], 5)
      /\ CloneOf(f["unassigned_pods"], g["unassigned_pods"])
  <2>1. 3 \in Nat /\ 5 \in Nat /\ 3 <= 5
    OBVIOUS
  <2> QED BY <1>1, <1>3, <2>1, PodsFacts, Deeper
<1>6. \A k \in DOMAIN f : Deep(f[k], 5) /\ CloneOf(f[k], g[k])
  BY <1>3, <1>4, <1>5
<1>7. Documents(f)
  <2>1. "nodes" \in STRING /\ "unassigned_pods" \in STRING
    BY KeysAssumption DEF Keys
  <2> QED BY <1>3, <1>4, <1>5, <2>1, TwoDocuments
<1>8. Document(Object(f)) /\ Deep(Object(f), 5 + 1)
  <2>1. 5 \in Nat
    OBVIOUS
  <2> QED BY <1>6, <1>7, <2>1, ObjectDocument
<1>9. CloneOf(Object(f), Object(g))
  BY <1>3, <1>6, <1>7, ObjectClone
<1>10. 5 + 1 = 6
  OBVIOUS
<1> QED BY <1>3, <1>7, <1>8, <1>9, <1>10 DEF f

LEMMA DataApart ==
  ASSUME NEW s, NEW t, IsClusterData(s), IsClusterData(t)
  PROVE  Apart(ToGenericInterface(s), ToGenericInterface(t))
<1> DEFINE f == DataFields(s)
           g == DataFields(t)
<1>1. /\ ToGenericInterface(s) = Object(f) /\ ToGenericInterface(t) = Object(g)
      /\ DOMAIN f = {"nodes", "unassigned_pods"}
      /\ f["nodes"] = Object(NodesFields(s.nodes)) /\ g["nodes"] = Object(NodesFields(t.nodes))
      /\ f["unassigned_pods"] = PodsDocument(s.unassigned_pods)
      /\ g["unassigned_pods"] = PodsDocument(t.unassigned_pods)
  BY DataFieldFacts
<1>2. Documents(f) /\ Documents(g)
  BY DataFacts
<1> HIDE DEF f, g
<1>3. Apart(f["nodes"], g["nodes"])
  <2>1. Documents(NodesFields(s.nodes)) /\ Documents(NodesFields(t.nodes))
    BY NodeFacts DEF IsClusterData, IsMap, NodesFields, Documents
  <2>2. \A k \in DOMAIN NodesFields(s.nodes) \cap DOMAIN NodesFields(t.nodes) :
          Apart(NodesFields(s.nodes)[k], NodesFields(t.nodes)[k])
    BY NodeApart DEF IsClusterData, NodesFields
  <2> QED BY <1>1, <2>1, <2>2, ObjectApart
<1>4. Apart(f["unassigned_pods"], g["unassigned_pods"])
  BY <1>1, PodsApart DEF IsClusterData
<1>5. \A k \in DOMAIN f \cap DOMAIN g : Apart(f[k], g[k])
  BY <1>1, <1>3, <1>4
<1> QED BY <1>1, <1>2, <1>5, ObjectApart

-----------------------------------------------------------------------------
(* The deltas from stored data to new ones.                                *)

Doc(data) == ToGenericInterface(data)

\* A walk comes to every path of two documents, and to each once.
LEMMA WalkFacts ==
  ASSUME NEW told0 \in Data, NEW data \in Data, NEW walk \in Walks
  PROVE  /\ walk \in Seq(Path) /\ Len(walk) \in Nat /\ DOMAIN walk = 1..Len(walk)
         /\ \A i, j \in DOMAIN walk : walk[i] = walk[j] => i = j
         /\ \A p \in DOMAIN Doc(Clone(told0)) \cup DOMAIN Doc(data) :
              \E i \in DOMAIN walk : walk[i] = p
<1>1. walk \in Seq(Path)
  BY WalksAssumption DEF IsWalk, Path
<1>2. Len(walk) \in Nat /\ DOMAIN walk = 1..Len(walk)
  BY <1>1
<1>3. ASSUME NEW i \in DOMAIN walk, NEW j \in DOMAIN walk, walk[i] = walk[j]
      PROVE  i = j
  <2>1. walk[i] \in Path
    BY <1>1
  <2>2. Below(walk[i], walk[j]) /\ Below(walk[j], walk[i])
    BY <1>3, <2>1, BelowFacts
  <2>3. i <= j /\ j <= i
    BY <2>2, WalksAssumption DEF IsWalk
  <2> QED BY <1>2, <2>3
<1>4. DOMAIN Doc(Clone(told0)) = DOMAIN Doc(told0)
  BY DataAssumption, DataFacts DEF CloneOf, Doc
<1>5. DOMAIN Doc(told0) \cup DOMAIN Doc(data) \subseteq {walk[i] : i \in DOMAIN walk}
  BY WalksAssumption DEF Range, Doc
<1> QED BY <1>1, <1>2, <1>3, <1>4, <1>5

\* What is stored, and what is to be told, as documents.
LEMMA StoredFacts ==
  ASSUME NEW told0 \in Data, NEW data \in Data
  PROVE  LET t == Doc(told0)
             b == Doc(Clone(told0))
             d == Doc(data)
         IN /\ Document(t) /\ Document(b) /\ Document(d)
            /\ CloneOf(t, b) /\ Apart(t, d)
            /\ Deep(b, 6) /\ Deep(d, 6)
<1>1. Document(Doc(told0)) /\ CloneOf(Doc(told0), Doc(Clone(told0))) /\ Deep(Doc(told0), 6)
  BY DataAssumption, DataFacts DEF Doc
<1>2. Document(Doc(data)) /\ Deep(Doc(data), 6)
  BY DataAssumption, DataFacts DEF Doc
<1>3. Document(Doc(Clone(told0)))
  BY <1>1, CloneDocument
<1>4. Apart(Doc(told0), Doc(data))
  BY DataAssumption, DataApart DEF Doc
<1>5. Deep(Doc(Clone(told0)), 6)
  BY <1>1 DEF Deep, CloneOf
<1> QED BY <1>1, <1>2, <1>3, <1>4, <1>5

\* A delta without an overwritten key has a stanza for every change, with the
\* path of the change as its key, and OptimizeDelta keeps them all.
LEMMA ExactCarries ==
  ASSUME NEW told0 \in Data, NEW data \in Data,
         NEW delta \in CalculateJSONDelta(Clone(told0), data), Exact(delta)
  PROVE  Carries(OptimizeDelta(delta), Changes(Doc(Clone(told0)), Doc(data)), Doc(data))
<1> DEFINE b == Doc(Clone(told0))
           d == Doc(data)
           C == Changes(b, d)
           kept == {i \in DOMAIN delta : \A j \in DOMAIN delta : delta[j].key = delta[i].key => j <= i}
<1>1. PICK walk \in Walks :
        delta = [i \in {n \in DOMAIN walk : walk[n] \in C} |->
                   [key   |-> ReadKey(walk[i], walk, Visited(b, d)),
                    value |-> Value(d, walk[i]),
                    path  |-> walk[i]]]
  BY DEF CalculateJSONDelta, Doc
<1>2. /\ Len(walk) \in Nat /\ DOMAIN walk = 1..Len(walk)
      /\ \A i, j \in DOMAIN walk : walk[i] = walk[j] => i = j
      /\ \A p \in DOMAIN b \cup DOMAIN d : \E i \in DOMAIN walk : walk[i] = p
  BY WalkFacts
<1>3. C \subseteq DOMAIN b \cup DOMAIN d
  BY StoredFacts, ChangeFacts
<1> HIDE DEF b, d, C
<1>4. /\ DOMAIN delta = {n \in DOMAIN walk : walk[n] \in C}
      /\ \A i \in DOMAIN delta : delta[i].path = walk[i] /\ delta[i].value = Value(d, walk[i])
  BY <1>1
<1>5. \A i \in DOMAIN delta : delta[i].key = walk[i]
  BY <1>4 DEF Exact
<1>6. kept = DOMAIN delta
  <2>1. ASSUME NEW i \in DOMAIN delta, NEW j \in DOMAIN delta, delta[j].key = delta[i].key
        PROVE  j <= i
    <3>1. j = i /\ i \in Nat
      BY <1>2, <1>4, <1>5, <2>1
    <3> QED BY <3>1
  <2> QED BY <2>1
<1>7. OptimizeDelta(delta) = [i \in DOMAIN delta |-> delta[i]]
  <2>1. OptimizeDelta(delta) = [i \in kept |-> delta[i]]
    BY DEF OptimizeDelta, Restrict
  <2> HIDE DEF kept
  <2> QED BY <1>6, <2>1
<1> HIDE DEF kept
<1>8. \E N \in Nat : DOMAIN delta \subseteq 1..N
  BY <1>2, <1>4
<1>9. \A c \in C : \E i \in DOMAIN delta : delta[i].key = c
  BY <1>2, <1>3, <1>4, <1>5
<1>10. \A i \in DOMAIN delta : delta[i].key \in C /\ delta[i].value = Value(d, delta[i].key)
  BY <1>4, <1>5
<1>11. Carries(OptimizeDelta(delta), C, d)
  BY <1>7, <1>8, <1>9, <1>10 DEF Carries
<1> QED BY <1>11 DEF b, d, C

LEMMA OwnerFacts ==
  ASSUME NEW n \in 0..6
  PROVE  Owner(n) = n \/ (n \in {4, 6} /\ Owner(n) = n - 1)
<1> DEFINE A == {0, 1, 2, 3, 5}
           P(a) == a <= n /\ \A b \in A : b <= n => b <= a
           o == IF n \in {4, 6} THEN n - 1 ELSE n
<1>1. n \in {0, 1, 2, 3, 4, 5, 6}
  OBVIOUS
<1>2. o \in A /\ P(o)
  BY <1>1
<1>3. Owner(n) = CHOOSE a \in A : P(a)
  BY DEF Owner
<1>4. Owner(n) \in A /\ P(Owner(n))
  <2> HIDE DEF o, P, A
  <2> QED BY <1>2, <1>3
<1>5. Owner(n) = o
  <2>1. Owner(n) <= o /\ o <= Owner(n)
    BY <1>2, <1>4
  <2>2. \A a \in A : a \in Nat
    OBVIOUS
  <2> HIDE DEF o, A
  <2> QED BY <1>2, <1>4, <2>1, <2>2
<1> QED BY <1>5

\* The key of a stanza is a path that diff came to: its own one or, where the
\* array of the path has room, the last of its siblings.
LEMMA KeyFacts ==
  ASSUME NEW told0 \in Data, NEW data \in Data, NEW walk \in Walks,
         NEW path \in Visited(Doc(Clone(told0)), Doc(data))
  PROVE  LET key == ReadKey(path, walk, Visited(Doc(Clone(told0)), Doc(data)))
         IN /\ key \in Visited(Doc(Clone(told0)), Doc(data))
            /\ key # path => /\ Len(path) \in {4, 6}
                             /\ Len(key) = Len(path) /\ Front(key) = Front(path)
<1> DEFINE b == Doc(Clone(told0))
           d == Doc(data)
           V == Visited(b, d)
           key == ReadKey(path, walk, V)
<1>1. /\ V \subseteq DOMAIN b \cup DOMAIN d
      /\ Document(b) /\ Document(d) /\ Deep(b, 6) /\ Deep(d, 6)
  BY StoredFacts DEF Visited
<1>2. /\ walk \in Seq(Path) /\ Len(walk) \in Nat /\ DOMAIN walk = 1..Len(walk)
      /\ \A p \in DOMAIN b \cup DOMAIN d : \E i \in DOMAIN walk : walk[i] = p
  BY WalkFacts
<1> HIDE DEF b, d, V
<1>3. path \in V /\ path \in Path
  BY <1>1 DEF Document, b, d, V
<1>4. Len(path) \in 0..6
  <2>1. path \in DOMAIN b \cup DOMAIN d /\ Len(path) \in Nat
    BY <1>1, <1>3 DEF Path
  <2>2. Len(path) <= 6
    BY <1>1, <2>1 DEF Deep
  <2>3. \A x \in Nat : x <= 6 => x \in 0..6
    OBVIOUS
  <2> QED BY <2>1, <2>2, <2>3, Zenon
<1> DEFINE n == Len(path)
           array == Start(path, Owner(n))
           Writes(j) == {i \in DOMAIN walk :
                           walk[i] \in V /\ Len(walk[i]) = j /\ Below(array, walk[i])}
<1>5. key = [j \in DOMAIN path |->
               IF j <= Len(array) THEN path[j] ELSE walk[Max(Writes(j))][j]]
  BY DEF ReadKey
<1>6. DOMAIN path = 1..n /\ path = [j \in 1..n |-> path[j]]
  BY <1>3 DEF Path
<1>7. CASE Owner(n) = n
  <2>1. array = path
    BY <1>3, <1>7, StartWhole
  <2> HIDE DEF array
  <2>2. \A j \in 1..n : j <= Len(array)
    BY <2>1
  <2>3. key = path
    BY <1>5, <1>6, <2>2
  <2> HIDE DEF key
  <2> QED BY <1>3, <2>3 DEF key, V, b, d
<1>8. CASE n \in {4, 6} /\ Owner(n) = n - 1
  <2>1. n - 1 \in 0..n /\ n \in Nat /\ n \in 1..n /\ ~(n <= n - 1)
    BY <1>4, <1>8
  <2>2. /\ array \in Path /\ Len(array) = n - 1 /\ Below(array, path)
        /\ \A j \in 1..(n - 1) : array[j] = path[j]
    BY <1>3, <1>8, <2>1, StartFacts, BelowFacts
  <2>3. array = Start(path, n - 1)
    BY <1>8
  <2> HIDE DEF array
  <2>4. PICK i \in DOMAIN walk : walk[i] = path
    BY <1>1, <1>2, <1>3
  <2>5. i \in Writes(n)
    BY <1>3, <2>2, <2>4
  <2>6. Writes(n) \subseteq 0..Len(walk)
    BY <1>2
  <2> DEFINE w == walk[Max(Writes(n))]
  <2>7. w \in V /\ Len(w) = n /\ Below(array, w)
    <3>1. Max(Writes(n)) \in Writes(n)
      <4> HIDE DEF Writes
      <4> QED BY <1>2, <2>5, <2>6, MaxFacts
    <3> QED BY <3>1
  <2> HIDE DEF w
  <2>8. w \in Path /\ Start(w, n - 1) = array
    BY <1>1, <2>2, <2>7 DEF Document, Below
  <2>9. \A j \in 1..(n - 1) : w[j] = array[j]
    BY <2>1, <2>7, <2>8, StartFacts
  <2>10. key = w
    <3>1. \A j \in 1..n : (IF j <= Len(array) THEN path[j] ELSE walk[Max(Writes(j))][j]) = w[j]
      <4> SUFFICES ASSUME NEW j \in 1..n
                   PROVE  (IF j <= Len(array) THEN path[j] ELSE walk[Max(Writes(j))][j]) = w[j]
        OBVIOUS
      <4>1. CASE j <= n - 1
        <5>1. j \in 1..(n - 1)
          BY <2>1, <4>1
        <5> QED BY <2>2, <2>9, <4>1, <5>1
      <4>2. CASE ~(j <= n - 1)
        <5>1. j = n
          BY <2>1, <4>2
        <5> HIDE DEF Writes
        <5> QED BY <2>2, <4>2, <5>1 DEF w
      <4> QED BY <4>1, <4>2
    <3>2. w = [j \in 1..n |-> w[j]]
      BY <2>7, <2>8 DEF Path
    <3> HIDE DEF key, Writes
    <3> QED BY <1>5, <1>6, <3>1, <3>2
  <2>11. Front(w) = Front(path)
    <3>1. Front(w) = Start(w, n - 1) /\ Front(path) = Start(path, n - 1)
      BY <2>7 DEF Front, Start
    <3> QED BY <2>3, <2>8, <3>1
  <2> HIDE DEF key
  <2> QED BY <1>8, <2>7, <2>10, <2>11 DEF key, V, b, d
<1>9. Owner(n) = n \/ (n \in {4, 6} /\ Owner(n) = n - 1)
  BY <1>4, OwnerFacts
<1> QED BY <1>7, <1>8, <1>9

-----------------------------------------------------------------------------
(* The inductive invariant.                                                *)

\* What is stored while an update is under way is a clone of its data, unless
\* the cluster was removed.
UnderWay ==
  update # Idle =>
    /\ update.data \in Data
    /\ previous # Nil => previous = Clone(update.data)

\* Between two updates it is a clone of what a reader was told.
Stored ==
  update = Idle /\ previous # Nil =>
    \E d \in Data : previous = Clone(d) /\ (reader # Unknown => d = told)

Follows ==
  reader # Unknown =>
    /\ told \in Data
    /\ DOMAIN reader \subseteq Path
    /\ Shown(reader) = Shown(Doc(told))

\* A delta leads from what a reader was told.
Fits ==
  update.at = "delta" =>
    \E d \in Data :
      /\ update.base = Clone(d) /\ (reader # Unknown => d = told)
      /\ \E delta \in CalculateJSONDelta(Clone(d), update.data) :
           update.delta = OptimizeDelta(delta) /\ update.exact = Exact(delta)

FeedInv == UnderWay /\ Stored /\ Follows /\ Fits

LEMMA InitInv == Init => FeedInv
BY DEF Init, FeedInv, UnderWay, Stored, Follows, Fits, Idle

LEMMA DeltasFacts ==
  ASSUME NEW d \in Data, NEW data \in Data
  PROVE  Deltas[Clone(d)][data] = CalculateJSONDelta(Clone(d), data)
<1> DEFINE P == {Clone(e) : e \in Data}
           F == [p \in P |-> [c \in Data |-> CalculateJSONDelta(p, c)]]
<1>1. Deltas = F
  BY DEF Deltas
<1>2. Clone(d) \in P
  OBVIOUS
<1> HIDE DEF P
<1>3. F[Clone(d)] = [c \in Data |-> CalculateJSONDelta(Clone(d), c)]
  BY <1>2
<1> QED BY <1>1, <1>3

\* An exact delta from a clone of d0 leads a reader of d0 to the data.
LEMMA ExactLeads ==
  ASSUME NEW d0 \in Data, NEW data \in Data,
         NEW delta \in CalculateJSONDelta(Clone(d0), data), Exact(delta),
         NEW x, DOMAIN x \subseteq Path, Shown(x) = Shown(Doc(d0))
  PROVE  LET y == ApplyDelta(x, OptimizeDelta(delta))
         IN DOMAIN y \subseteq Path /\ Shown(y) = Shown(Doc(data))
<1> DEFINE t == Doc(d0)
           b == Doc(Clone(d0))
           d == Doc(data)
           o == OptimizeDelta(delta)
<1>1. Document(t) /\ Document(b) /\ Document(d) /\ CloneOf(t, b) /\ Apart(t, d)
  BY StoredFacts
<1>2. Carries(o, Changes(b, d), d)
  BY ExactCarries
<1>3. DOMAIN t \subseteq Path /\ DOMAIN d \subseteq Path
  BY <1>1 DEF Document
<1>4. \A p \in Path : At(x, p) = At(t, p)
  <2> HIDE DEF t
  <2>1. Shown(x) = Shown(t)
    BY DEF t
  <2> QED BY <1>3, <2>1, ShownFacts
<1> HIDE DEF t, b, d, o
<1>5. /\ DOMAIN ApplyDelta(x, o) \subseteq Path
      /\ \A p \in Path : At(ApplyDelta(x, o), p) = At(d, p)
  BY <1>1, <1>2, <1>4, DeltaLeads
<1>6. Shown(ApplyDelta(x, o)) = Shown(d)
  BY <1>3, <1>5, ShownFacts
<1> QED BY <1>5, <1>6 DEF o, d

LEMMA StepInv == FeedInv /\ [Next]_vars => FeedInv'
<1> SUFFICES ASSUME FeedInv, [Next]_vars
             PROVE  FeedInv'
  OBVIOUS
<1> USE DEF FeedInv
<1>0. /\ \A data : Full(data) # Idle /\ Full(data).at = "full" /\ Full(data).data = data
      /\ \A base, data, delta :
           /\ Delta(base, data, delta) # Idle
           /\ Delta(base, data, delta).at = "delta"
           /\ Delta(base, data, delta).base = base /\ Delta(base, data, delta).data = data
           /\ Delta(base, data, delta).delta = OptimizeDelta(delta)
           /\ Delta(base, data, delta).exact = Exact(delta)
      /\ Idle.at = "idle"
  BY DEF Full, Delta, Idle
<1>1. ASSUME NEW data \in Data, CalculateDelta(data)
      PROVE  FeedInv'
  <2>1. /\ update = Idle /\ previous' = Clone(data)
        /\ told' = told /\ reader' = reader
    BY <1>1 DEF CalculateDelta
  <2>2. Follows'
    BY <2>1 DEF Follows
  <2>3. CASE update' = Full(data)
    BY <1>0, <2>1, <2>2, <2>3 DEF UnderWay, Stored, Fits
  <2>4. CASE update' # Full(data)
    <3>1. previous # Nil
      BY <1>1, <2>4 DEF CalculateDelta
    <3>2. PICK d \in Data : previous = Clone(d) /\ (reader # Unknown => d = told)
      BY <2>1, <3>1 DEF Stored
    <3>3. PICK delta \in CalculateJSONDelta(Clone(d), data) : update' = Delta(Clone(d), data, delta)
      BY <1>1, <2>4, <3>1, <3>2, DeltasFacts DEF CalculateDelta
    <3>4. UnderWay' /\ Stored'
      BY <1>0, <2>1, <3>3 DEF UnderWay, Stored
    <3>5. Fits'
      BY <1>0, <2>1, <3>2, <3>3 DEF Fits
    <3> QED BY <2>2, <3>4, <3>5
  <2> QED BY <2>3, <2>4
<1>2. CASE ClearCluster
  <2>1. previous' = Nil /\ update' = update /\ told' = told /\ reader' = reader
    BY <1>2 DEF ClearCluster
  <2> QED BY <2>1 DEF UnderWay, Stored, Follows, Fits
<1>3. CASE PublishFullUpdate
  <2>1. /\ update # Idle /\ update.data \in Data
        /\ told' = update.data /\ update' = Idle /\ previous' = previous
        /\ reader' = Doc(update.data) \/ reader' = Unknown
    BY <1>0, <1>3 DEF PublishFullUpdate, Published, UnderWay, Doc
  <2>2. DOMAIN Doc(update.data) \subseteq Path
    BY <2>1, StoredFacts DEF Document
  <2>3. Follows'
    BY <2>1, <2>2 DEF Follows
  <2>4. Stored'
    BY <2>1 DEF Stored, UnderWay
  <2>5. UnderWay' /\ Fits'
    BY <1>0, <2>1 DEF UnderWay, Fits
  <2> QED BY <2>3, <2>4, <2>5
<1>4. CASE PublishDelta
  <2>1. /\ update # Idle /\ update.data \in Data /\ update.at = "delta"
        /\ told' = update.data /\ update' = Idle /\ previous' = previous
    BY <1>0, <1>4 DEF PublishDelta, Published, UnderWay
  <2>2. \/ reader' = Unknown
        \/ reader # Unknown /\ update.exact /\ reader' = ApplyDelta(reader, update.delta)
    BY <1>4 DEF PublishDelta, Published
  <2>3. Follows'
    <3> SUFFICES ASSUME reader' # Unknown
                 PROVE  DOMAIN reader' \subseteq Path /\ Shown(reader') = Shown(Doc(update.data))
      BY <2>1 DEF Follows
    <3>1. /\ reader # Unknown /\ update.exact /\ reader' = ApplyDelta(reader, update.delta)
          /\ DOMAIN reader \subseteq Path /\ Shown(reader) = Shown(Doc(told))
      BY <2>2 DEF Follows
    <3>2. PICK d \in Data :
            /\ d = told
            /\ \E delta \in CalculateJSONDelta(Clone(d), update.data) :
                 update.delta = OptimizeDelta(delta) /\ update.exact = Exact(delta)
      BY <2>1, <3>1 DEF Fits
    <3>3. PICK delta \in CalculateJSONDelta(Clone(d), update.data) :
            update.delta = OptimizeDelta(delta) /\ Exact(delta)
      BY <3>1, <3>2
    <3> QED BY <2>1, <3>1, <3>2, <3>3, ExactLeads
  <2>4. Stored'
    BY <2>1 DEF Stored, UnderWay
  <2>5. UnderWay' /\ Fits'
    BY <1>0, <2>1 DEF UnderWay, Fits
  <2> QED BY <2>3, <2>4, <2>5
<1>5. CASE PublishFails
  <2>1. /\ update # Idle /\ update' # Idle
        /\ update'.at = "fallback" /\ update'.data = update.data
        /\ previous' = previous /\ told' = told /\ reader' = reader
    BY <1>0, <1>5 DEF PublishFails, Idle
  <2> QED BY <2>1 DEF UnderWay, Stored, Follows, Fits
<1>6. CASE FallbackFails
  <2>1. /\ update # Idle /\ update' = Idle /\ reader' = Unknown
        /\ previous' = previous /\ told' = told
    BY <1>0, <1>6 DEF FallbackFails
  <2> QED BY <1>0, <2>1 DEF UnderWay, Stored, Follows, Fits
<1>7. CASE UNCHANGED vars
  BY <1>7 DEF vars, UnderWay, Stored, Follows, Fits
<1> QED BY <1>1, <1>2, <1>3, <1>4, <1>5, <1>6, <1>7 DEF Next

LEMMA Invariance == Spec => []FeedInv
BY InitInv, StepInv, PTL DEF Spec

-----------------------------------------------------------------------------
(* The properties.                                                         *)

\* A subscriber that got every event since a full update, none of them with an
\* overwritten key, shows the data of the last one: for any data of clusters,
\* any order in which Go ranges over its maps, and however updates, removals
\* and failed publications follow each other.
THEOREM ReadersFollow == Spec => []ReaderFollows
<1>1. FeedInv => ReaderFollows
  BY DEF FeedInv, Follows, ReaderFollows, Doc
<1> QED BY <1>1, Invariance, PTL

\* An overwritten key names another key of the same object, and only keys of
\* length four and six are overwritten.
THEOREM KeysStayInTheirObject == Spec => []KeysNameSiblings
<1>1. FeedInv => KeysNameSiblings
  <2> SUFFICES ASSUME FeedInv, update.at = "delta", NEW i \in DOMAIN update.delta
               PROVE  LET s == update.delta[i]
                      IN s.key # s.path =>
                           /\ Len(s.path) \in {4, 6}
                           /\ Len(s.key) = Len(s.path) /\ Front(s.key) = Front(s.path)
                           /\ s.key \in DOMAIN Doc(update.base) \cup DOMAIN Doc(update.data)
    BY DEF KeysNameSiblings, Doc
  <2>1. PICK d \in Data :
          /\ update.base = Clone(d)
          /\ \E delta \in CalculateJSONDelta(Clone(d), update.data) :
               update.delta = OptimizeDelta(delta) /\ update.exact = Exact(delta)
    BY DEF FeedInv, Fits
  <2>2. PICK delta \in CalculateJSONDelta(Clone(d), update.data) : update.delta = OptimizeDelta(delta)
    BY <2>1
  <2>3. update.data \in Data
    BY DEF FeedInv, UnderWay, Idle
  <2> DEFINE b == Doc(Clone(d))
             c == Doc(update.data)
             V == Visited(b, c)
  <2>4. PICK walk \in Walks :
          delta = [n \in {m \in DOMAIN walk : walk[m] \in Changes(b, c)} |->
                     [key   |-> ReadKey(walk[n], walk, V),
                      value |-> Value(c, walk[n]),
                      path  |-> walk[n]]]
    BY <2>2 DEF CalculateJSONDelta, Doc
  <2>5. i \in DOMAIN delta /\ update.delta[i] = delta[i]
    BY <2>2 DEF OptimizeDelta, Restrict
  <2> DEFINE path == delta[i].path
             key == delta[i].key
  <2>6. path \in V /\ key = ReadKey(path, walk, V)
    BY <2>4, <2>5 DEF Changes
  <2>7. /\ key \in V
        /\ key # path => Len(path) \in {4, 6} /\ Len(key) = Len(path) /\ Front(key) = Front(path)
    BY <2>3, <2>6, KeyFacts
  <2>8. V \subseteq DOMAIN b \cup DOMAIN c
    BY DEF Visited
  <2> QED BY <2>1, <2>5, <2>7, <2>8
<1> QED BY <1>1, Invariance, PTL

\* What calculator.go:75 says of a delta, that it can be applied to transform
\* the stored data into the new ones, is true of one without an overwritten key.
ExactDeltasTransform ==
  update.at = "delta" /\ update.exact =>
    Shown(ApplyDelta(ToGenericInterface(update.base), update.delta))
      = Shown(ToGenericInterface(update.data))

\* An object of the new data that was nil in the stored ones has members, also
\* where the nil of old data has become an empty object.
LEMMA CloneApart ==
  ASSUME NEW t, NEW b, NEW d, CloneOf(t, b), Apart(t, d)
  PROVE  Apart(b, d)
<1> SUFFICES ASSUME NEW p \in DOMAIN b \cap DOMAIN d, b[p] = NullNode, d[p] = ObjectNode
             PROVE  Members(d, p) # {}
  BY DEF Apart
<1>1. p \in DOMAIN t /\ t[p] = NullNode
  BY NullIsNoObject DEF CloneOf
<1> QED BY <1>1 DEF Apart

THEOREM ExactDeltasLead == Spec => []ExactDeltasTransform
<1>1. FeedInv => ExactDeltasTransform
  <2> SUFFICES ASSUME FeedInv, update.at = "delta", update.exact
               PROVE  Shown(ApplyDelta(Doc(update.base), update.delta)) = Shown(Doc(update.data))
    BY DEF ExactDeltasTransform, Doc
  <2>1. PICK d \in Data :
          /\ update.base = Clone(d)
          /\ \E delta \in CalculateJSONDelta(Clone(d), update.data) :
               update.delta = OptimizeDelta(delta) /\ update.exact = Exact(delta)
    BY DEF FeedInv, Fits
  <2>2. PICK delta \in CalculateJSONDelta(Clone(d), update.data) :
          update.delta = OptimizeDelta(delta) /\ Exact(delta)
    BY <2>1
  <2>3. update.data \in Data
    BY DEF FeedInv, UnderWay, Idle
  <2> DEFINE t == Doc(d)
             b == Doc(Clone(d))
             c == Doc(update.data)
             o == OptimizeDelta(delta)
  <2>4. Document(t) /\ Document(b) /\ Document(c) /\ CloneOf(t, b) /\ Apart(t, c)
    BY <2>3, StoredFacts
  <2>5. CloneOf(b, b) /\ Apart(b, c)
    BY <2>4, CloneApart, CloneOfItself
  <2>6. Carries(o, Changes(b, c), c)
    BY <2>2, <2>3, ExactCarries
  <2>7. DOMAIN b \subseteq Path /\ DOMAIN c \subseteq Path
    BY <2>4 DEF Document
  <2> HIDE DEF t, b, c, o
  <2>8. /\ DOMAIN ApplyDelta(b, o) \subseteq Path
        /\ \A p \in Path : At(ApplyDelta(b, o), p) = At(c, p)
    BY <2>4, <2>5, <2>6, <2>7, DeltaLeads
  <2>9. Shown(ApplyDelta(b, o)) = Shown(c)
    BY <2>7, <2>8, ShownFacts
  <2> QED BY <2>1, <2>2, <2>9 DEF b, c, o
<1> QED BY <1>1, Invariance, PTL
=============================================================================
