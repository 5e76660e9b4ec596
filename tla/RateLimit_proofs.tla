--------------------------- MODULE RateLimit_proofs --------------------------
(***************************************************************************)
(* Lemmas about the lists of RateLimit, for any limit and window.  The     *)
(* list in the map and those that requests are about to write may have     *)
(* lost entries to one another.  What is proved is that none of them holds *)
(* an entry that admitted does not answer for: counted from the end, the   *)
(* entries within the window are at least as old as those of admitted.     *)
(*                                                                         *)
(* The library's induction theorems take the property as an operator;      *)
(* here it is a set of numbers.                                            *)
(***************************************************************************)
EXTENDS RateLimit, SequenceTheorems, WellFoundedInduction, TLAPS

\* A set with 0 and the successors of its numbers has all numbers.
LEMMA SetInduction ==
  ASSUME NEW S, 0 \in S, \A n \in Nat : n \in S => n + 1 \in S
  PROVE  Nat \subseteq S
<1> DEFINE T == Nat \ S
<1> SUFFICES ASSUME T # {}
             PROVE  FALSE
  OBVIOUS
<1>1. T \subseteq Nat
  OBVIOUS
<1> HIDE DEF T
<1>2. PICK x \in T : \A y \in T : ~(<<y, x>> \in OpToRel(<, Nat))
  BY <1>1, NatLessThanWellFounded, WFMin
<1>3. \A y \in T : ~(y < x)
  BY <1>1, <1>2 DEF OpToRel
<1>4. x \in Nat /\ x # 0 /\ x \notin S
  BY DEF T
<1>5. x - 1 \in Nat /\ x - 1 < x
  BY <1>4
<1>6. x - 1 \in S
  BY <1>3, <1>5 DEF T
<1> QED BY <1>4, <1>5, <1>6

-----------------------------------------------------------------------------
(* Younger.                                                                *)

Sorted(list) == \A i, j \in 1..Len(list) : i < j => list[i] >= list[j]

\* What Younger keeps of the first n entries.
IsKept(g, list, age, n) ==
  g = [i \in 0..n |->
         IF i = 0 THEN << >>
         ELSE IF list[i] < age THEN Append(g[i - 1], list[i]) ELSE g[i - 1]]

\* The recursion in Younger defines a function.
LEMMA KeptExists ==
  ASSUME NEW list \in Seq(Nat), NEW age \in Nat
  PROVE  \E g : IsKept(g, list, age, Len(list))
<1> DEFINE S == {n \in Nat : \E g : IsKept(g, list, age, n)}
<1>1. 0 \in S
  <2> DEFINE g == [i \in 0..0 |-> << >>]
  <2>1. IsKept(g, list, age, 0)
    BY DEF IsKept
  <2> QED BY <2>1
<1>2. ASSUME NEW n \in Nat, n \in S
      PROVE  n + 1 \in S
  <2>1. PICK g : IsKept(g, list, age, n)
    BY <1>2
  <2> DEFINE last == IF list[n + 1] < age THEN Append(g[n], list[n + 1]) ELSE g[n]
             h == [i \in 0..(n + 1) |-> IF i = n + 1 THEN last ELSE g[i]]
  <2>2. ASSUME NEW i \in 0..n
        PROVE  g[i] = IF i = 0 THEN << >>
                      ELSE IF list[i] < age THEN Append(g[i - 1], list[i]) ELSE g[i - 1]
    BY <2>1 DEF IsKept
  <2>3. ASSUME NEW i \in 0..(n + 1)
        PROVE  h[i] = IF i = 0 THEN << >>
                      ELSE IF list[i] < age THEN Append(h[i - 1], list[i]) ELSE h[i - 1]
    <3>1. CASE i = n + 1
      <4>1. h[i] = last /\ h[i - 1] = g[n]
        BY <3>1
      <4> QED BY <3>1, <4>1
    <3>2. CASE i \in 0..n
      <4>1. h[i] = g[i] /\ (i # 0 => h[i - 1] = g[i - 1])
        BY <3>2
      <4> QED BY <2>2, <3>2, <4>1
    <3> QED BY <3>1, <3>2
  <2>4. IsKept(h, list, age, n + 1)
    <3> HIDE DEF last
    <3> QED BY <2>3 DEF IsKept
  <2> QED BY <2>4
<1>3. Nat \subseteq S
  <2> HIDE DEF S
  <2> QED BY <1>1, <1>2, SetInduction
<1> QED BY <1>3

\* Of a list with the oldest entries first, Younger drops the first ones.
LEMMA YoungerSuffix ==
  ASSUME NEW list \in Seq(Nat), NEW age \in Nat, Sorted(list)
  PROVE  \E k \in 0..Len(list) :
           /\ Younger(list, age) = SubSeq(list, k + 1, Len(list))
           /\ \A i \in 1..k : list[i] >= age
           /\ \A i \in (k + 1)..Len(list) : list[i] < age
<1> DEFINE g == CHOOSE f : IsKept(f, list, age, Len(list))
<1>1. IsKept(g, list, age, Len(list)) /\ Younger(list, age) = g[Len(list)]
  <2>1. IsKept(g, list, age, Len(list))
    BY KeptExists
  <2>2. Younger(list, age) = g[Len(list)]
    BY DEF Younger, IsKept
  <2> QED BY <2>1, <2>2
<1> HIDE DEF g
<1>2. ASSUME NEW i \in 0..Len(list)
      PROVE  g[i] = IF i = 0 THEN << >>
                    ELSE IF list[i] < age THEN Append(g[i - 1], list[i]) ELSE g[i - 1]
  BY <1>1 DEF IsKept
<1> DEFINE Split(n, k) == /\ g[n] = SubSeq(list, k + 1, n)
                          /\ \A i \in 1..k : list[i] >= age
                          /\ \A i \in (k + 1)..n : list[i] < age
           S == {n \in Nat : n <= Len(list) => \E k \in 0..n : Split(n, k)}
<1>3. 0 \in S
  <2>1. g[0] = << >>
    BY <1>2
  <2>2. SubSeq(list, 1, 0) = << >>
    BY SubSeqEmpty
  <2>3. Split(0, 0) /\ 0 \in 0..0
    BY <2>1, <2>2
  <2>4. \E k \in 0..0 : Split(0, k)
    BY <2>3
  <2> QED BY <2>4
<1>4. ASSUME NEW n \in Nat, n \in S
      PROVE  n + 1 \in S
  <2> HIDE DEF Split
  <2> SUFFICES ASSUME n + 1 <= Len(list)
               PROVE  \E k \in 0..(n + 1) : Split(n + 1, k)
    OBVIOUS
  <2> USE DEF Split
  <2>1. PICK k \in 0..n : Split(n, k)
    BY <1>4
  <2>2. g[n + 1] = IF list[n + 1] < age THEN Append(g[n], list[n + 1]) ELSE g[n]
    BY <1>2
  <2>3. CASE list[n + 1] < age
    <3>1. g[n + 1] = Append(SubSeq(list, k + 1, n), list[n + 1])
      BY <2>1, <2>2, <2>3
    <3>2. g[n + 1] = SubSeq(list, k + 1, n + 1)
      BY <3>1
    <3>3. Split(n + 1, k)
      BY <2>1, <2>3, <3>2
    <3> QED BY <3>3
  <2>4. CASE ~(list[n + 1] < age)
    <3>1. \A i \in 1..n : list[i] >= list[n + 1]
      BY DEF Sorted
    <3>2. \A i \in 1..(n + 1) : list[i] >= age
      BY <2>4, <3>1
    <3>3. k = n
      BY <2>1, <3>2
    <3>4. g[n + 1] = << >>
      BY <2>1, <2>2, <2>4, <3>3
    <3>5. Split(n + 1, n + 1)
      BY <3>2, <3>4
    <3> QED BY <3>5
  <2> QED BY <2>3, <2>4
<1>5. Nat \subseteq S
  <2> HIDE DEF S
  <2> QED BY <1>3, <1>4, SetInduction
<1>6. PICK k \in 0..Len(list) : Split(Len(list), k)
  <2>1. Len(list) \in Nat
    OBVIOUS
  <2>2. Len(list) \in S
    BY <1>5, <2>1
  <2> HIDE DEF Split
  <2> QED BY <2>2
<1> QED BY <1>1, <1>6

-----------------------------------------------------------------------------
(* Lists and those who were admitted.                                      *)

AllRecent(list) == \A i \in 1..Len(list) : list[i] < Window

\* The last entry of list is answered for by the last of those admitted, the
\* one before it by the one before, and so on.
Covered(list, those) ==
  \A i \in 1..Len(list) :
    list[i] < Window =>
      /\ Len(list) - i < Len(those)
      /\ those[Len(those) - (Len(list) - i)] <= list[i]

Times(list) ==
  /\ list \in Seq(Nat)
  /\ Len(list) <= MaxRequests
  /\ Sorted(list)

Honest(list, those) ==
  /\ Times(list)
  /\ \A i \in 1..Len(list) : list[i] <= Window + 1
  /\ Covered(list, those)

Noted(those) == Times(those) /\ AllRecent(those)

LEMMA EmptyHonest ==
  ASSUME NEW those
  PROVE  Honest(<< >>, those) /\ AllRecent(<< >>) /\ Noted(<< >>)
BY WindowAssumption DEF Honest, Noted, Times, AllRecent, Covered, Sorted

\* Cleaning a list leaves what it has to answer for.
LEMMA RecentHonest ==
  ASSUME NEW list, NEW those, Honest(list, those)
  PROVE  Honest(Recent(list), those) /\ AllRecent(Recent(list))
<1>1. list \in Seq(Nat) /\ Sorted(list) /\ Window \in Nat
  BY WindowAssumption DEF Honest, Times
<1>2. PICK k \in 0..Len(list) :
        /\ Younger(list, Window) = SubSeq(list, k + 1, Len(list))
        /\ \A i \in (k + 1)..Len(list) : list[i] < Window
  BY <1>1, YoungerSuffix
<1> DEFINE rest == SubSeq(list, k + 1, Len(list))
<1>3. /\ rest \in Seq(Nat) /\ Len(rest) = Len(list) - k
      /\ \A i \in 1..Len(rest) : rest[i] = list[k + i]
  BY <1>1
<1> HIDE DEF rest
<1>4. ASSUME NEW i \in 1..Len(rest)
      PROVE  /\ rest[i] = list[k + i] /\ k + i \in (k + 1)..Len(list)
             /\ rest[i] < Window /\ rest[i] <= Window + 1
             /\ Len(rest) - i = Len(list) - (k + i)
             /\ k + i \in 1..Len(list)
  <2>1. rest[i] = list[k + i] /\ k + i \in (k + 1)..Len(list) /\ k + i \in 1..Len(list)
    BY <1>3
  <2>2. rest[i] < Window /\ rest[i] \in Nat
    BY <1>2, <1>3, <2>1
  <2> QED BY <1>1, <1>3, <2>1, <2>2
<1>5. AllRecent(rest)
  BY <1>4 DEF AllRecent
<1>6. Sorted(rest)
  <2> SUFFICES ASSUME NEW i \in 1..Len(rest), NEW j \in 1..Len(rest), i < j
               PROVE  rest[i] >= rest[j]
    BY DEF Sorted
  <2>1. list[k + i] >= list[k + j]
    BY <1>1, <1>4 DEF Sorted
  <2> QED BY <1>4, <2>1
<1>7. Times(rest)
  BY <1>3, <1>6, WindowAssumption DEF Honest, Times
<1>8. Covered(rest, those)
  <2> SUFFICES ASSUME NEW i \in 1..Len(rest)
               PROVE  /\ Len(rest) - i < Len(those)
                      /\ those[Len(those) - (Len(rest) - i)] <= rest[i]
    BY DEF Covered
  <2>1. list[k + i] < Window /\ k + i \in 1..Len(list)
    BY <1>4
  <2>2. /\ Len(list) - (k + i) < Len(those)
        /\ those[Len(those) - (Len(list) - (k + i))] <= list[k + i]
    BY <2>1 DEF Honest, Covered
  <2> QED BY <1>4, <2>2
<1> QED BY <1>2, <1>4, <1>5, <1>7, <1>8 DEF Recent, rest, Honest

\* Those admitted once one more is.
Joined(those) == IF Len(those) < MaxRequests THEN Append(those, 0)
                 ELSE LastOf(Append(those, 0))

LEMMA JoinedEnds ==
  ASSUME NEW those, Noted(those)
  PROVE  /\ Joined(those) \in Seq(Nat)
         /\ Len(Joined(those)) = IF Len(those) < MaxRequests THEN Len(those) + 1 ELSE MaxRequests
         /\ Joined(those)[Len(Joined(those))] = 0
         /\ \A d \in 1..(Len(Joined(those)) - 1) :
              /\ Joined(those)[Len(Joined(those)) - d] = those[Len(those) - (d - 1)]
              /\ Len(those) - (d - 1) \in 1..Len(those)
<1>1. those \in Seq(Nat) /\ Len(those) \in 0..MaxRequests /\ MaxRequests \in Nat \ {0}
  BY WindowAssumption DEF Noted, Times
<1> DEFINE longer == Append(those, 0)
<1>2. /\ longer \in Seq(Nat) /\ Len(longer) = Len(those) + 1 /\ longer[Len(longer)] = 0
      /\ \A i \in 1..Len(those) : longer[i] = those[i]
  BY <1>1
<1>3. CASE Len(those) < MaxRequests
  <2>1. Joined(those) = longer
    BY <1>3 DEF Joined
  <2>2. ASSUME NEW d \in 1..(Len(longer) - 1)
        PROVE  /\ longer[Len(longer) - d] = those[Len(those) - (d - 1)]
               /\ Len(those) - (d - 1) \in 1..Len(those)
    BY <1>1, <1>2
  <2> QED BY <1>2, <1>3, <2>1, <2>2
<1>4. CASE ~(Len(those) < MaxRequests)
  <2> DEFINE last == SubSeq(longer, 2, MaxRequests + 1)
  <2>1. Len(those) = MaxRequests /\ Joined(those) = last
    BY <1>1, <1>2, <1>4 DEF Joined, LastOf
  <2> HIDE DEF longer
  <2>2. /\ last \in Seq(Nat) /\ Len(last) = MaxRequests
        /\ \A i \in 1..MaxRequests : last[i] = longer[i + 1]
    BY <1>1, <1>2, <2>1
  <2> HIDE DEF last
  <2>3. last[MaxRequests] = 0
    BY <1>1, <1>2, <2>1, <2>2
  <2>4. ASSUME NEW d \in 1..(Len(last) - 1)
        PROVE  /\ last[Len(last) - d] = those[Len(those) - (d - 1)]
               /\ Len(those) - (d - 1) \in 1..Len(those)
    <3>1. MaxRequests - d \in 1..MaxRequests /\ MaxRequests - d + 1 \in 1..Len(those)
      BY <1>1, <2>1, <2>2
    <3>2. last[MaxRequests - d] = longer[MaxRequests - d + 1]
      BY <2>2, <3>1
    <3>3. longer[MaxRequests - d + 1] = those[MaxRequests - d + 1]
      BY <1>2, <3>1
    <3> QED BY <1>1, <2>1, <2>2, <3>1, <3>2, <3>3
  <2> QED BY <1>4, <2>1, <2>2, <2>3, <2>4
<1> QED BY <1>3, <1>4

LEMMA JoinedNoted ==
  ASSUME NEW those, Noted(those)
  PROVE  Noted(Joined(those))
<1> DEFINE J == Joined(those)
<1>1. /\ those \in Seq(Nat) /\ Len(those) \in 0..MaxRequests /\ MaxRequests \in Nat \ {0}
      /\ Window \in Nat \ {0}
  BY WindowAssumption DEF Noted, Times
<1>2. /\ J \in Seq(Nat) /\ Len(J) \in 1..MaxRequests /\ J[Len(J)] = 0
      /\ \A d \in 1..(Len(J) - 1) : /\ J[Len(J) - d] = those[Len(those) - (d - 1)]
                                    /\ Len(those) - (d - 1) \in 1..Len(those)
  BY <1>1, JoinedEnds
<1> HIDE DEF J
<1>3. ASSUME NEW i \in 1..Len(J), i # Len(J)
      PROVE  /\ J[i] = those[Len(those) - (Len(J) - i) + 1]
             /\ Len(those) - (Len(J) - i) + 1 \in 1..Len(those)
  <2>1. Len(J) - i \in 1..(Len(J) - 1) /\ Len(J) - (Len(J) - i) = i
    BY <1>2, <1>3
  <2>2. Len(those) - ((Len(J) - i) - 1) = Len(those) - (Len(J) - i) + 1
    BY <1>1, <1>2
  <2> QED BY <1>2, <2>1, <2>2
<1>4. ASSUME NEW i \in 1..Len(J)
      PROVE  J[i] < Window
  <2>1. CASE i = Len(J)
    BY <1>1, <1>2, <2>1
  <2>2. CASE i # Len(J)
    BY <1>3, <2>2 DEF Noted, AllRecent
  <2> QED BY <2>1, <2>2
<1>5. ASSUME NEW i \in 1..Len(J), NEW j \in 1..Len(J), i < j
      PROVE  J[i] >= J[j]
  <2>1. CASE j = Len(J)
    BY <1>2, <2>1
  <2>2. CASE j # Len(J)
    <3>1. Len(those) - (Len(J) - i) + 1 < Len(those) - (Len(J) - j) + 1
      BY <1>1, <1>2, <1>5
    <3>2. i # Len(J)
      BY <1>2, <1>5
    <3> QED BY <1>3, <2>2, <3>1, <3>2 DEF Noted, Times, Sorted
  <2> QED BY <2>1, <2>2
<1> QED BY <1>1, <1>2, <1>4, <1>5 DEF Noted, Times, AllRecent, Sorted, J

\* That one more is admitted takes nothing from what a list is covered by.
LEMMA JoinedCovers ==
  ASSUME NEW list, NEW those, Honest(list, those), Noted(those)
  PROVE  Honest(list, Joined(those))
<1> DEFINE J == Joined(those)
<1>1. /\ those \in Seq(Nat) /\ Len(those) \in 0..MaxRequests /\ MaxRequests \in Nat \ {0}
      /\ list \in Seq(Nat) /\ Len(list) \in 0..MaxRequests
  BY WindowAssumption DEF Noted, Honest, Times
<1>2. /\ J \in Seq(Nat) /\ J[Len(J)] = 0
      /\ Len(J) = IF Len(those) < MaxRequests THEN Len(those) + 1 ELSE MaxRequests
      /\ \A d \in 1..(Len(J) - 1) : /\ J[Len(J) - d] = those[Len(those) - (d - 1)]
                                    /\ Len(those) - (d - 1) \in 1..Len(those)
  BY JoinedEnds
<1> HIDE DEF J
<1>3. ASSUME NEW i \in 1..Len(list), list[i] < Window
      PROVE  Len(list) - i < Len(J) /\ J[Len(J) - (Len(list) - i)] <= list[i]
  <2> DEFINE d == Len(list) - i
  <2>1. d \in Nat /\ d < Len(list) /\ d < Len(those) /\ those[Len(those) - d] <= list[i]
    BY <1>1, <1>3 DEF Honest, Covered
  <2> HIDE DEF d
  <2>2. d < Len(J)
    <3>1. CASE Len(those) < MaxRequests
      BY <1>1, <1>2, <2>1, <3>1
    <3>2. CASE ~(Len(those) < MaxRequests)
      <4>1. Len(J) = MaxRequests
        BY <1>2, <3>2
      <4> QED BY <1>1, <2>1, <4>1
    <3> QED BY <3>1, <3>2
  <2>5. list[i] \in Nat
    BY <1>1
  <2>3. CASE d = 0
    BY <1>2, <2>2, <2>3, <2>5 DEF d
  <2>4. CASE d # 0
    <3>1. d \in 1..(Len(J) - 1)
      BY <1>1, <1>2, <2>1, <2>2, <2>4
    <3>2. /\ J[Len(J) - d] = those[Len(those) - (d - 1)]
          /\ Len(those) - (d - 1) \in 1..Len(those)
      BY <1>2, <3>1
    <3>3. Len(those) - d \in 1..Len(those) /\ Len(those) - d < Len(those) - (d - 1)
      BY <1>1, <2>1
    <3>4. those[Len(those) - d] >= those[Len(those) - (d - 1)]
      BY <3>2, <3>3 DEF Noted, Times, Sorted
    <3>5. those[Len(those) - d] \in Nat /\ those[Len(those) - (d - 1)] \in Nat
      BY <1>1, <3>2, <3>3
    <3>6. J[Len(J) - d] <= list[i]
      BY <2>1, <2>5, <3>2, <3>4, <3>5
    <3> QED BY <2>2, <3>6 DEF d
  <2> QED BY <2>3, <2>4
<1> QED BY <1>3 DEF Honest, Covered, J

\* The list that the request writes answers for the request itself.
LEMMA AppendHonest ==
  ASSUME NEW list, NEW those, Honest(list, those), Noted(those), AllRecent(list),
         Len(list) < MaxRequests
  PROVE  Honest(Append(list, 0), Joined(those)) /\ AllRecent(Append(list, 0))
<1> DEFINE J == Joined(those)
           longer == Append(list, 0)
<1>1. /\ those \in Seq(Nat) /\ Len(those) \in 0..MaxRequests /\ MaxRequests \in Nat \ {0}
      /\ list \in Seq(Nat) /\ Len(list) \in 0..MaxRequests /\ Window \in Nat \ {0}
  BY WindowAssumption DEF Noted, Honest, Times
<1>2. /\ J \in Seq(Nat) /\ J[Len(J)] = 0
      /\ Len(J) = IF Len(those) < MaxRequests THEN Len(those) + 1 ELSE MaxRequests
      /\ \A d \in 1..(Len(J) - 1) : /\ J[Len(J) - d] = those[Len(those) - (d - 1)]
                                    /\ Len(those) - (d - 1) \in 1..Len(those)
  BY JoinedEnds
<1>3. /\ longer \in Seq(Nat) /\ Len(longer) = Len(list) + 1 /\ longer[Len(longer)] = 0
      /\ \A i \in 1..Len(list) : longer[i] = list[i]
  BY <1>1
<1> HIDE DEF J, longer
<1>4. AllRecent(longer) /\ \A i \in 1..Len(longer) : longer[i] <= Window + 1
  <2> SUFFICES ASSUME NEW i \in 1..Len(longer)
               PROVE  longer[i] < Window /\ longer[i] <= Window + 1
    BY DEF AllRecent
  <2>1. CASE i = Len(longer)
    BY <1>1, <1>3, <2>1
  <2>2. CASE i # Len(longer)
    <3>1. i \in 1..Len(list)
      BY <1>1, <1>3, <2>2
    <3>2. longer[i] = list[i] /\ list[i] \in Nat /\ list[i] < Window
      BY <1>1, <1>3, <3>1 DEF AllRecent
    <3> QED BY <1>1, <3>2
  <2> QED BY <2>1, <2>2
<1>5. Times(longer)
  <2>1. ASSUME NEW i \in 1..Len(longer), NEW j \in 1..Len(longer), i < j
        PROVE  longer[i] >= longer[j]
    <3>1. i \in 1..Len(list)
      BY <1>1, <1>3, <2>1
    <3>2. CASE j = Len(longer)
      BY <1>1, <1>3, <3>1, <3>2
    <3>3. CASE j # Len(longer)
      <4>1. j \in 1..Len(list)
        BY <1>1, <1>3, <3>3
      <4> QED BY <1>3, <2>1, <3>1, <4>1 DEF Honest, Times, Sorted
    <3> QED BY <3>2, <3>3
  <2> QED BY <1>1, <1>3, <2>1 DEF Times, Sorted
<1>6. ASSUME NEW i \in 1..Len(longer)
      PROVE  Len(longer) - i < Len(J) /\ J[Len(J) - (Len(longer) - i)] <= longer[i]
  <2>1. CASE i = Len(longer)
    BY <1>1, <1>2, <1>3, <2>1
  <2>2. CASE i # Len(longer)
    <3> DEFINE d == Len(list) - i
    <3>1. /\ i \in 1..Len(list) /\ longer[i] = list[i] /\ list[i] < Window
          /\ d \in Nat /\ d + 1 <= Len(list) /\ Len(longer) - i = d + 1
      BY <1>1, <1>3, <2>2 DEF AllRecent
    <3>2. d < Len(those) /\ those[Len(those) - d] <= list[i]
      BY <3>1 DEF Honest, Covered
    <3> HIDE DEF d
    <3>3. d + 1 \in 1..(Len(J) - 1)
      <4>1. Len(J) = IF Len(those) < MaxRequests THEN Len(those) + 1 ELSE MaxRequests
        BY <1>2
      <4>2. d \in Nat /\ Len(those) \in Nat /\ MaxRequests \in Nat /\ Len(list) \in Nat
        BY <1>1, <3>1
      <4>3. d + 1 <= Len(list) /\ Len(list) < MaxRequests /\ d < Len(those)
        BY <3>1, <3>2
      <4>4. d + 2 <= Len(J)
        BY <4>1, <4>2, <4>3
      <4>5. Len(J) \in Nat
        BY <4>1, <4>2
      <4> QED BY <4>2, <4>4, <4>5
    <3>4. J[Len(J) - (d + 1)] = those[Len(those) - ((d + 1) - 1)]
      BY <1>2, <3>3
    <3>5. Len(those) - ((d + 1) - 1) = Len(those) - d
      BY <1>1, <3>1
    <3>6. J[Len(J) - (Len(longer) - i)] <= longer[i]
      BY <3>1, <3>2, <3>4, <3>5
    <3>7. Len(longer) - i < Len(J)
      BY <1>1, <1>2, <3>1, <3>3
    <3> QED BY <3>6, <3>7
  <2> QED BY <2>1, <2>2
<1> QED BY <1>4, <1>5, <1>6 DEF Honest, Covered, J, longer

\* Those admitted who still are within the window when a tick has passed.
Still(those) == Younger([i \in DOMAIN those |-> those[i] + 1], Window)

LEMMA StillEnds ==
  ASSUME NEW those, Noted(those)
  PROVE  \E k \in 0..Len(those) :
           /\ Still(those) \in Seq(Nat) /\ Len(Still(those)) = Len(those) - k
           /\ \A i \in 1..k : those[i] + 1 >= Window
           /\ \A i \in 1..(Len(those) - k) :
                /\ Still(those)[i] = those[k + i] + 1
                /\ those[k + i] + 1 < Window
<1> DEFINE older == [i \in DOMAIN those |-> those[i] + 1]
<1>1. those \in Seq(Nat) /\ Len(those) \in Nat /\ Window \in Nat
  BY WindowAssumption DEF Noted, Times
<1>2. /\ older \in Seq(Nat) /\ Len(older) = Len(those)
      /\ \A i \in 1..Len(those) : older[i] = those[i] + 1
  BY <1>1
<1> HIDE DEF older
<1>3. Sorted(older)
  <2>1. ASSUME NEW i \in 1..Len(those), NEW j \in 1..Len(those), i < j
        PROVE  older[i] >= older[j]
    <3>1. those[i] >= those[j] /\ those[i] \in Nat /\ those[j] \in Nat
      BY <1>1, <2>1 DEF Noted, Times, Sorted
    <3> QED BY <1>2, <3>1
  <2> QED BY <1>2, <2>1 DEF Sorted
<1>4. PICK k \in 0..Len(older) :
        /\ Younger(older, Window) = SubSeq(older, k + 1, Len(older))
        /\ \A i \in 1..k : older[i] >= Window
        /\ \A i \in (k + 1)..Len(older) : older[i] < Window
  BY <1>1, <1>2, <1>3, YoungerSuffix
<1> DEFINE rest == SubSeq(older, k + 1, Len(older))
<1>5. /\ rest \in Seq(Nat) /\ Len(rest) = Len(those) - k
      /\ \A i \in 1..(Len(those) - k) : rest[i] = older[k + i]
  BY <1>1, <1>2
<1>6. Still(those) = rest
  BY <1>4 DEF Still, older
<1> HIDE DEF rest
<1>7. \A i \in 1..k : those[i] + 1 >= Window
  BY <1>2, <1>4
<1>8. ASSUME NEW i \in 1..(Len(those) - k)
      PROVE  rest[i] = those[k + i] + 1 /\ those[k + i] + 1 < Window
  <2>1. k + i \in 1..Len(those) /\ k + i \in (k + 1)..Len(older)
    BY <1>1, <1>2
  <2> QED BY <1>2, <1>4, <1>5, <2>1
<1> QED BY <1>2, <1>5, <1>6, <1>7, <1>8

LEMMA StillNoted ==
  ASSUME NEW those, Noted(those)
  PROVE  Noted(Still(those))
<1> DEFINE S == Still(those)
<1>1. those \in Seq(Nat) /\ Len(those) \in 0..MaxRequests /\ MaxRequests \in Nat
  BY WindowAssumption DEF Noted, Times
<1>2. PICK k \in 0..Len(those) :
        /\ S \in Seq(Nat) /\ Len(S) = Len(those) - k
        /\ \A i \in 1..(Len(those) - k) : S[i] = those[k + i] + 1 /\ those[k + i] + 1 < Window
  BY StillEnds
<1> HIDE DEF S
<1>3. AllRecent(S)
  BY <1>2 DEF AllRecent
<1>4. ASSUME NEW i \in 1..Len(S), NEW j \in 1..Len(S), i < j
      PROVE  S[i] >= S[j]
  <2>1. k + i \in 1..Len(those) /\ k + j \in 1..Len(those) /\ k + i < k + j
    BY <1>1, <1>2, <1>4
  <2>2. those[k + i] >= those[k + j] /\ those[k + i] \in Nat /\ those[k + j] \in Nat
    BY <1>1, <2>1 DEF Noted, Times, Sorted
  <2> QED BY <1>2, <2>2
<1> QED BY <1>1, <1>2, <1>3, <1>4 DEF Noted, Times, Sorted, S

\* Time ages a list and those admitted alike.
LEMMA TickHonest ==
  ASSUME NEW list, NEW those, Honest(list, those), Noted(those)
  PROVE  Honest([i \in DOMAIN list |-> Older(list[i])], Still(those))
<1> DEFINE S == Still(those)
           aged == [i \in DOMAIN list |-> Older(list[i])]
<1>1. /\ those \in Seq(Nat) /\ Len(those) \in Nat /\ Window \in Nat
      /\ list \in Seq(Nat) /\ Len(list) \in 0..MaxRequests /\ MaxRequests \in Nat
  BY WindowAssumption DEF Noted, Honest, Times
<1>2. PICK k \in 0..Len(those) :
        /\ S \in Seq(Nat) /\ Len(S) = Len(those) - k
        /\ \A i \in 1..k : those[i] + 1 >= Window
        /\ \A i \in 1..(Len(those) - k) : S[i] = those[k + i] + 1
  BY StillEnds
<1>3. /\ aged \in Seq(Nat) /\ Len(aged) = Len(list)
      /\ \A i \in 1..Len(list) : aged[i] = Older(list[i])
  BY <1>1 DEF Older
<1> HIDE DEF S, aged
<1>4. ASSUME NEW i \in 1..Len(list)
      PROVE  list[i] \in Nat /\ list[i] <= Window + 1
  BY <1>1 DEF Honest
<1>5. Times(aged) /\ \A i \in 1..Len(aged) : aged[i] <= Window + 1
  <2>1. ASSUME NEW i \in 1..Len(aged), NEW j \in 1..Len(aged), i < j
        PROVE  aged[i] >= aged[j]
    <3>1. list[i] >= list[j]
      BY <1>3, <2>1 DEF Honest, Times, Sorted
    <3>2. /\ aged[i] = Older(list[i]) /\ aged[j] = Older(list[j])
          /\ list[i] \in Nat /\ list[i] <= Window + 1
          /\ list[j] \in Nat /\ list[j] <= Window + 1
      BY <1>3, <1>4
    <3> QED BY <1>1, <3>1, <3>2 DEF Older
  <2>2. ASSUME NEW i \in 1..Len(aged)
        PROVE  aged[i] <= Window + 1
    BY <1>1, <1>3, <1>4 DEF Older
  <2> QED BY <1>1, <1>3, <2>1, <2>2 DEF Times, Sorted
<1>6. ASSUME NEW i \in 1..Len(aged), aged[i] < Window
      PROVE  Len(aged) - i < Len(S) /\ S[Len(S) - (Len(aged) - i)] <= aged[i]
  <2> DEFINE d == Len(list) - i
  <2>1. aged[i] = list[i] + 1 /\ list[i] < Window
    <3>1. aged[i] = Older(list[i]) /\ list[i] \in Nat /\ list[i] <= Window + 1
      BY <1>3, <1>4
    <3> QED BY <1>1, <1>6, <3>1 DEF Older
  <2>2. d \in Nat /\ d < Len(those) /\ those[Len(those) - d] <= list[i]
    BY <1>1, <1>3, <2>1 DEF Honest, Covered
  <2> HIDE DEF d
  <2>3. Len(those) - d \in 1..Len(those) /\ those[Len(those) - d] \in Nat
    BY <1>1, <2>2
  <2>4. those[Len(those) - d] + 1 < Window
    <3>1. list[i] \in Nat /\ list[i] + 1 < Window
      BY <1>3, <1>4, <1>6, <2>1
    <3> DEFINE x == those[Len(those) - d]
    <3>2. x \in Nat /\ x <= list[i]
      BY <2>2, <2>3
    <3> HIDE DEF x
    <3>3. x + 1 < Window
      BY <1>1, <3>1, <3>2
    <3> QED BY <3>3 DEF x
  <2>5. ~(Len(those) - d \in 1..k)
    BY <1>1, <1>2, <2>3, <2>4
  <2>6. Len(those) - d > k
    BY <1>1, <2>3, <2>5
  <2>7. Len(S) - d \in 1..(Len(those) - k) /\ k + (Len(S) - d) = Len(those) - d
    BY <1>1, <1>2, <2>2, <2>6
  <2>8. S[Len(S) - d] = those[k + (Len(S) - d)] + 1
    BY <1>2, <2>7
  <2>9. S[Len(S) - d] <= aged[i]
    BY <1>3, <1>4, <2>1, <2>2, <2>3, <2>7, <2>8
  <2>10. d < Len(S) /\ Len(aged) - i = d
    BY <1>1, <1>2, <1>3, <2>2, <2>6 DEF d
  <2> QED BY <2>9, <2>10
<1>7. Covered(aged, S)
  BY <1>6 DEF Covered
<1>8. Honest(aged, S)
  BY <1>5, <1>7 DEF Honest
<1> QED BY <1>8 DEF S, aged
=============================================================================
