-------------------------- MODULE ObserversProofs --------------------------
(***************************************************************************)
(* The links of core/list.c stay consistent and keep a sequence, and every *)
(* observer is told, for any number of observers and any number of changes *)
(* made by callbacks.                                                      *)
(***************************************************************************)
EXTENDS Observers, WellFoundedInduction, SequenceTheorems, FiniteSetTheorems, TLAPS

LinksType ==
    /\ prev \in [Nodes -> Nodes] /\ next \in [Nodes -> Nodes]

IInv == LinksType /\ LinksAgree

\* A node between two others, or alone: inserting keeps the links consistent.
LEMMA PrependAgrees ==
    ASSUME IInv, NEW self \in Nodes, NEW item \in Nodes \ {self}, next[item] = item,
           Prepend(self, item)
    PROVE  IInv'
<1> DEFINE last == prev[self]
<1>1. last \in Nodes /\ last # item /\ prev[item] = item
  BY DEF IInv, LinksType, LinksAgree
<1>2. LinksType'
  BY <1>1 DEF IInv, LinksType, Prepend
<1>3. ASSUME NEW n \in Nodes PROVE prev'[next'[n]] = n /\ next'[prev'[n]] = n
  <2>1. CASE n = item
    BY <1>1, <2>1 DEF IInv, LinksType, LinksAgree, Prepend
  <2>2. CASE n = self
    BY <1>1, <2>2 DEF IInv, LinksType, LinksAgree, Prepend
  <2>3. CASE n = last
    BY <1>1, <2>3 DEF IInv, LinksType, LinksAgree, Prepend
  <2>4. CASE n \notin {item, self, last}
    BY <1>1, <2>4 DEF IInv, LinksType, LinksAgree, Prepend
  <2>5. QED
    BY <2>1, <2>2, <2>3, <2>4
<1>4. QED
  BY <1>2, <1>3 DEF IInv, LinksAgree

\* Unlinking a node, whether or not it is in a list.
LEMMA RemoveAgrees ==
    ASSUME IInv, NEW self \in Nodes, Remove(self) PROVE IInv'
<1> DEFINE before == prev[self]  after == next[self]
<1>1. before \in Nodes /\ after \in Nodes
  BY DEF IInv, LinksType
<1>2. LinksType'
  BY <1>1 DEF IInv, LinksType, Remove
<1>3. ASSUME NEW n \in Nodes PROVE prev'[next'[n]] = n /\ next'[prev'[n]] = n
  <2>1. CASE n = self
    BY <1>1, <2>1 DEF IInv, LinksType, LinksAgree, Remove
  <2>2. CASE n # self /\ n = before
    BY <1>1, <2>2 DEF IInv, LinksType, LinksAgree, Remove
  <2>3. CASE n # self /\ n = after
    BY <1>1, <2>3 DEF IInv, LinksType, LinksAgree, Remove
  <2>4. CASE n \notin {self, before, after}
    BY <1>1, <2>4 DEF IInv, LinksType, LinksAgree, Remove
  <2>5. QED
    BY <2>1, <2>2, <2>3, <2>4
<1>4. QED
  BY <1>2, <1>3 DEF IInv, LinksAgree

LEMMA LinksInductive == IInv /\ [Next]_vars => IInv'
<1> SUFFICES ASSUME IInv, [Next]_vars PROVE IInv'
  OBVIOUS
<1>1. ASSUME UNCHANGED <<prev, next>> PROVE IInv'
  BY <1>1 DEF IInv, LinksType, LinksAgree
<1>2. CASE RaiseBegin \/ RaiseNext
  BY <1>1, <1>2 DEF RaiseBegin, RaiseNext
<1>3. ASSUME NEW o \in Obs, Add(o) PROVE IInv'
  <2>1. o \in Nodes /\ Anchor \in Nodes /\ o # Anchor
    BY ObsAssumption DEF Nodes
  <2> QED
    BY <1>3, <2>1, PrependAgrees DEF Add, Linked
<1>4. ASSUME NEW o \in Obs, Del(o) PROVE IInv'
  BY <1>4, RemoveAgrees DEF Del, Nodes
<1>5. CASE UNCHANGED vars
  BY <1>1, <1>5 DEF vars
<1> QED
  BY <1>2, <1>3, <1>4, <1>5 DEF Next

\* Every node can be reached from its neighbours, in both directions, whatever
\* is added and deleted and whenever, during a walk of raise_event as well.
THEOREM LinksStayConsistent == Spec => []LinksAgree
<1>1. Init => IInv
  BY DEF Init, IInv, LinksType, LinksAgree
<1>2. IInv => LinksAgree
  BY DEF IInv
<1>3. QED
  BY <1>1, <1>2, LinksInductive, PTL DEF Spec

-----------------------------------------------------------------------------
(* Induction over a set of numbers *)

LEMMA SetInduction ==
    ASSUME NEW S, 0 \in S, \A n \in Nat : n \in S => n + 1 \in S
    PROVE  \A n \in Nat : n \in S
<1> DEFINE Less == {p \in Nat \X Nat : p[1] < p[2]}
<1> SUFFICES ASSUME Nat \ S # {} PROVE FALSE
  OBVIOUS
<1>1. IsWellFoundedOn(Less, Nat)
  BY NatLessThanWellFounded DEF OpToRel
<1>2. PICK x \in Nat \ S : \A y \in Nat \ S : <<y, x>> \notin Less
  <2>1. Nat \ S \subseteq Nat
    OBVIOUS
  <2> QED
    BY <1>1, <2>1, WFMin
<1>3. x - 1 \in Nat /\ <<x - 1, x>> \in Less
  OBVIOUS
<1> QED
  BY <1>2, <1>3

-----------------------------------------------------------------------------
(* The links keep a sequence *)

\* The nodes from the anchor round to the anchor, when s is between them.
At(s, i) == IF i \in 1 .. Len(s) THEN s[i] ELSE Anchor

\* The list holds exactly the observers of s, in its order and once each.
Holds(s) ==
    /\ s \in Seq(Obs)
    /\ \A i, j \in 1 .. Len(s) : s[i] = s[j] => i = j
    /\ \A i \in 0 .. Len(s) : next[At(s, i)] = At(s, i + 1)
    /\ \A o \in Obs : Linked(o) => \E i \in 1 .. Len(s) : s[i] = o

LEMMA RemoveAtIsShift ==
    ASSUME NEW s \in Seq(Obs), NEW k \in 1 .. Len(s)
    PROVE  /\ List!RemoveAt(s, k) \in Seq(Obs) /\ Len(List!RemoveAt(s, k)) = Len(s) - 1
           /\ \A i \in 1 .. Len(s) - 1 : List!RemoveAt(s, k)[i] = s[IF i < k THEN i ELSE i + 1]
<1> DEFINE a == SubSeq(s, 1, k - 1)  b == SubSeq(s, k + 1, Len(s))
<1>1. Len(s) \in Nat /\ \A i \in 1 .. Len(s) : s[i] \in Obs
  OBVIOUS
<1>2. a \in Seq(Obs) /\ Len(a) = k - 1 /\ \A i \in 1 .. k - 1 : a[i] = s[i]
  BY <1>1, SubSeqProperties
<1>3. b \in Seq(Obs) /\ Len(b) = Len(s) - k /\ \A i \in 1 .. Len(s) - k : b[i] = s[k + i]
  BY <1>1, SubSeqProperties
<1> HIDE DEF a, b
<1>4. /\ a \o b \in Seq(Obs) /\ Len(a \o b) = Len(s) - 1
      /\ \A i \in 1 .. Len(s) - 1 : (a \o b)[i] = IF i <= k - 1 THEN a[i] ELSE b[i - (k - 1)]
  BY <1>1, <1>2, <1>3, ConcatProperties
<1>5. \A i \in 1 .. Len(s) - 1 : (a \o b)[i] = s[IF i < k THEN i ELSE i + 1]
  BY <1>1, <1>2, <1>3, <1>4
<1> QED
  BY <1>4, <1>5 DEF List!RemoveAt, a, b

\* No more observers are registered than there are.
LEMMA HoldsIsShort == ASSUME NEW s, Holds(s) PROVE Len(s) \in 0 .. Cardinality(Obs)
<1>1. Len(s) \in Nat /\ s \in [1 .. Len(s) -> Obs]
  BY DEF Holds
<1>2. IsFiniteSet(1 .. Len(s)) /\ Cardinality(1 .. Len(s)) = Len(s)
  BY <1>1, FS_Interval
<1>3. s \in Injection(1 .. Len(s), Obs)
  BY <1>1 DEF Holds, Injection, IsInjective
<1>4. Cardinality(1 .. Len(s)) <= Cardinality(Obs)
  BY <1>3, FS_Injection, ObsAssumption
<1> QED
  BY <1>1, <1>2, <1>4, FS_CardinalityType, ObsAssumption

\* Following next from the anchor yields the sequence.
LEMMA WalkIsHeld == ASSUME NEW s, Holds(s) PROVE Walk = s
<1> DEFINE N == Cardinality(Obs)
           Step(t) == LET l == IF t = <<>> THEN Anchor ELSE t[Len(t)]
                      IN  IF next[l] = Anchor THEN t ELSE Append(t, next[l])
           upTo(n) == SubSeq(s, 1, IF n < Len(s) THEN n ELSE Len(s))
           from == CHOOSE f : f = [n \in 0 .. N |-> IF n = 0 THEN <<>> ELSE Step(f[n - 1])]
           g == [n \in 0 .. N |-> upTo(n)]
<1>1. Walk = from[N]
  BY DEF Walk
<1>2. N \in Nat /\ Len(s) \in 0 .. N /\ s \in Seq(Obs)
  BY HoldsIsShort, FS_CardinalityType, ObsAssumption DEF Holds
<1> HIDE DEF N
<1>3. ASSUME NEW n \in Nat PROVE Step(upTo(n)) = upTo(n + 1)
  <2> DEFINE m == IF n < Len(s) THEN n ELSE Len(s)
             t == SubSeq(s, 1, m)
             l == IF t = <<>> THEN Anchor ELSE t[Len(t)]
  <2>1. m \in 0 .. Len(s)
    BY <1>2
  <2>2. \A i \in 1 .. Len(s) : s[i] \in Obs
    BY <1>2
  <2>3. t \in Seq(Obs) /\ Len(t) = m /\ \A i \in 1 .. m : t[i] = s[i]
    BY <1>2, <2>1, <2>2, SubSeqProperties
  <2>4. l = At(s, m)
    BY <1>2, <2>1, <2>3, EmptySeq DEF At
  <2>5. next[l] = At(s, m + 1)
    BY <2>1, <2>4 DEF Holds
  <2>6. Step(t) = IF next[l] = Anchor THEN t ELSE Append(t, next[l])
    OBVIOUS
  <2> HIDE DEF Step, t, l
  <2>7. CASE n < Len(s)
    <3>1. m = n /\ m + 1 \in 1 .. Len(s) /\ next[l] = s[m + 1] /\ s[m + 1] # Anchor
      BY <1>2, <2>2, <2>5, <2>7, ObsAssumption DEF At
    <3>2. Step(t) = Append(t, s[m + 1])
      BY <2>6, <3>1
    <3>3. SubSeq(s, 1, m + 1) = SubSeq(s, 1, m) \o <<s[m + 1]>>
      <4>1. (m + 1) - 1 = m /\ 1 \in 1 .. Len(s) /\ m + 1 \in 1 .. Len(s)
        BY <1>2, <3>1
      <4> HIDE DEF m
      <4>2. SubSeq(s, 1, m + 1) = SubSeq(s, 1, (m + 1) - 1) \o <<s[m + 1]>>
        BY <1>2, <4>1, SubSeqRecursiveSecond
      <4> QED
        BY <4>1, <4>2
    <3>4. Append(t, s[m + 1]) = t \o <<s[m + 1]>>
      BY <2>2, <2>3, <3>1, AppendIsConcat
    <3>5. upTo(n + 1) = SubSeq(s, 1, m + 1) /\ upTo(n) = t
      BY <1>2, <3>1 DEF t
    <3> QED
      BY <3>2, <3>3, <3>4, <3>5 DEF t
  <2>8. CASE ~(n < Len(s))
    <3>1. m = Len(s) /\ next[l] = Anchor
      BY <1>2, <2>5, <2>8 DEF At
    <3>2. ~(n + 1 < Len(s))
      BY <1>2, <2>8
    <3>3. upTo(n + 1) = SubSeq(s, 1, Len(s)) /\ upTo(n) = SubSeq(s, 1, Len(s))
      BY <2>8, <3>2
    <3> QED
      BY <2>6, <3>1, <3>3 DEF t
  <2> QED
    BY <2>7, <2>8
<1>4. upTo(0) = <<>> /\ upTo(N) = s
  <2>1. upTo(0) = SubSeq(s, 1, 0) /\ upTo(N) = SubSeq(s, 1, Len(s))
    BY <1>2
  <2> QED
    BY <1>2, <2>1, SubSeqEmpty, SubSeqFull
<1> HIDE DEF Step, upTo
<1>5. g = [n \in 0 .. N |-> IF n = 0 THEN <<>> ELSE Step(g[n - 1])]
  <2>1. ASSUME NEW n \in 0 .. N, n # 0 PROVE g[n] = Step(g[n - 1])
    <3>1. n - 1 \in Nat /\ n - 1 \in 0 .. N /\ (n - 1) + 1 = n
      BY <1>2, <2>1
    <3> QED
      BY <1>3, <3>1
  <2>2. g[0] = <<>>
    BY <1>2, <1>4
  <2> QED
    BY <2>1, <2>2
<1>6. from = [n \in 0 .. N |-> IF n = 0 THEN <<>> ELSE Step(from[n - 1])]
  BY <1>5
<1> HIDE DEF from, g
<1> DEFINE S == {k \in Nat : k <= N => from[k] = upTo(k)}
<1>7. \A n \in Nat : n \in S
  <2>1. 0 \in S
    BY <1>2, <1>4, <1>6
  <2>2. ASSUME NEW n \in Nat, n \in S PROVE n + 1 \in S
    <3> SUFFICES ASSUME n + 1 <= N PROVE from[n + 1] = upTo(n + 1)
      OBVIOUS
    <3>1. n + 1 \in 0 .. N /\ n + 1 # 0 /\ (n + 1) - 1 = n /\ n <= N
      BY <1>2
    <3>2. from[n + 1] = Step(from[n])
      BY <1>6, <3>1
    <3>3. from[n] = upTo(n)
      BY <2>2, <3>1
    <3>4. Step(upTo(n)) = upTo(n + 1)
      BY <1>3
    <3> QED
      BY <3>2, <3>3, <3>4
  <2> HIDE DEF S
  <2> QED
    BY <2>1, <2>2, SetInduction
<1> QED
  BY <1>1, <1>2, <1>4, <1>7

LEMMA AtIsInjective ==
    ASSUME NEW s, Holds(s), NEW i \in 0 .. Len(s), NEW j \in 0 .. Len(s), At(s, i) = At(s, j)
    PROVE  i = j
<1>1. Len(s) \in Nat /\ \A k \in 1 .. Len(s) : s[k] \in Obs /\ s[k] # Anchor
  BY ObsAssumption DEF Holds
<1> QED
  BY <1>1 DEF Holds, At

\* An observer is linked exactly when it is in the sequence.
LEMMA MembersAreLinked ==
    ASSUME NEW s, Holds(s), NEW o \in Obs
    PROVE  Linked(o) <=> \E i \in 1 .. Len(s) : s[i] = o
<1>1. ASSUME NEW i \in 1 .. Len(s), s[i] = o, next[o] = o PROVE FALSE
  <2>1. Len(s) \in Nat /\ i \in 0 .. Len(s) /\ At(s, i) = o
    BY <1>1 DEF Holds, At
  <2>2. next[o] = At(s, i + 1)
    BY <2>1 DEF Holds
  <2>3. i + 1 \in 0 .. Len(s)
    BY <1>1, <2>1, <2>2, ObsAssumption DEF At
  <2> QED
    BY <1>1, <2>1, <2>2, <2>3, AtIsInjective
<1> QED
  BY <1>1 DEF Holds, Linked

\* The neighbours of a node, by its place.
LEMMA Neighbours ==
    ASSUME IInv, NEW s, Holds(s), NEW i \in 0 .. Len(s)
    PROVE  next[At(s, i)] = At(s, i + 1) /\ prev[At(s, i + 1)] = At(s, i)
<1>1. At(s, i) \in Nodes
  BY DEF Holds, At, Nodes
<1> QED
  BY <1>1 DEF Holds, IInv, LinksAgree

LEMMA AddAppends ==
    ASSUME IInv, NEW s, Holds(s), NEW o \in Obs, Add(o)
    PROVE  Holds(Append(s, o))'
<1> DEFINE r == Append(s, o)  n == Len(s)
<1>1. s \in Seq(Obs) /\ n \in Nat /\ \A i \in 1 .. n : s[i] \in Obs
  BY DEF Holds
<1>2. r \in Seq(Obs) /\ Len(r) = n + 1 /\ r[n + 1] = o /\ \A i \in 1 .. n : r[i] = s[i]
  BY <1>1
<1> HIDE DEF r, n
<1>3. \A i \in 1 .. n : s[i] # o
  BY MembersAreLinked DEF Add, n
<1>4. prev[Anchor] = At(s, n) /\ n \in 0 .. n /\ 0 \in 0 .. n
  BY <1>1, Neighbours DEF At, n
<1>5. /\ next' = [next EXCEPT ![o] = Anchor, ![At(s, n)] = o] /\ next \in [Nodes -> Nodes]
      /\ o \in Nodes /\ o # Anchor /\ Anchor \in Nodes
  BY <1>4, ObsAssumption DEF Add, Prepend, IInv, LinksType, Nodes
<1>6. \A i \in 0 .. n : At(s, i) \in Nodes /\ At(s, i) # o
  BY <1>1, <1>3, <1>5 DEF At, Nodes, n
<1>7. ASSUME NEW i \in 0 .. n + 1 PROVE next'[At(r, i)] = At(r, i + 1)
  <2>1. CASE i = n + 1
    BY <1>1, <1>2, <1>5, <1>6, <2>1 DEF At
  <2>2. CASE i = n
    <3>1. At(r, n) = At(s, n) /\ At(r, n + 1) = o
      BY <1>1, <1>2 DEF At, n
    <3> QED
      BY <1>4, <1>5, <1>6, <2>2, <3>1
  <2>3. CASE i < n
    <3>1. i \in 0 .. n /\ i + 1 \in 1 .. n /\ At(r, i) = At(s, i) /\ At(r, i + 1) = At(s, i + 1)
      BY <1>1, <1>2, <2>3 DEF At, n
    <3>2. At(s, i) # At(s, n)
      BY <1>4, <2>3, <3>1, AtIsInjective DEF n
    <3> QED
      BY <1>5, <1>6, <3>1, <3>2, Neighbours DEF n
  <2> QED
    BY <1>1, <2>1, <2>2, <2>3
<1>8. \A i, j \in 1 .. n + 1 : r[i] = r[j] => i = j
  BY <1>1, <1>2, <1>3 DEF Holds, n
<1>9. ASSUME NEW p \in Obs, next'[p] # p PROVE \E i \in 1 .. n + 1 : r[i] = p
  <2>1. CASE p = o
    BY <1>1, <1>2, <2>1
  <2>2. CASE p # o /\ p = At(s, n)
    BY <1>1, <1>2, <2>2, ObsAssumption DEF At, n
  <2>3. CASE p # o /\ p # At(s, n)
    <3>1. Linked(p)
      BY <1>5, <1>9, <2>3 DEF Linked, Nodes
    <3>2. PICK i \in 1 .. n : s[i] = p
      BY <3>1 DEF Holds, n
    <3> QED
      BY <1>1, <1>2, <3>2
  <2> QED
    BY <2>1, <2>2, <2>3
<1> QED
  BY <1>2, <1>7, <1>8, <1>9 DEF Holds, At, Linked, r

LEMMA DelRemoves ==
    ASSUME IInv, NEW s, Holds(s), NEW k \in 1 .. Len(s), Remove(s[k])
    PROVE  Holds(List!RemoveAt(s, k))'
<1> DEFINE r == List!RemoveAt(s, k)  n == Len(s)  o == s[k]  up(i) == IF i < k THEN i ELSE i + 1
<1>1. s \in Seq(Obs) /\ n \in Nat /\ k \in 1 .. n /\ \A i \in 1 .. n : s[i] \in Obs
  BY DEF Holds
<1>2. r \in Seq(Obs) /\ Len(r) = n - 1 /\ \A i \in 1 .. n - 1 : r[i] = s[up(i)]
  BY <1>1, RemoveAtIsShift
<1> HIDE DEF r
<1>3. \A i \in 0 .. n : At(r, i) = At(s, up(i)) /\ (i < n => up(i) \in 0 .. n /\ up(i) # k)
  BY <1>1, <1>2 DEF At
<1> DEFINE before == At(s, k - 1)  after == At(s, k + 1)
<1>4. prev[o] = before /\ next[o] = after
  <2>1. k - 1 \in 0 .. n /\ k \in 0 .. n /\ At(s, k) = o /\ (k - 1) + 1 = k
    BY <1>1 DEF At
  <2> QED
    BY <2>1, Neighbours
<1>5. /\ next' = [next EXCEPT ![before] = after, ![o] = o] /\ next \in [Nodes -> Nodes]
      /\ o \in Nodes /\ o # Anchor /\ before \in Nodes /\ \A i \in 0 .. n : At(s, i) \in Nodes
  BY <1>1, <1>4, ObsAssumption DEF Remove, IInv, LinksType, Nodes, At
<1>6. \A i \in 0 .. n : (At(s, i) = o => i = k) /\ (At(s, i) = before => i = k - 1)
  <2>1. k - 1 \in 0 .. n /\ k \in 0 .. n /\ At(s, k) = o
    BY <1>1 DEF At
  <2> QED
    BY <2>1, AtIsInjective
<1> HIDE DEF before, after, o
<1>7. ASSUME NEW i \in 0 .. n - 1 PROVE next'[At(r, i)] = At(r, i + 1)
  <2>1. CASE i = k - 1
    <3>1. At(r, i) = before /\ At(r, i + 1) = after /\ before # o
      <4>1. i \in 0 .. n /\ i + 1 \in 0 .. n /\ up(i) = k - 1 /\ up(i + 1) = k + 1 /\ k - 1 # k
        BY <1>1, <2>1
      <4> QED
        BY <1>3, <1>6, <4>1 DEF before, after
    <3> QED
      BY <1>5, <3>1
  <2>2. CASE i # k - 1
    <3>1. /\ i \in 0 .. n /\ i + 1 \in 0 .. n /\ up(i) \in 0 .. n
          /\ up(i + 1) = up(i) + 1 /\ up(i) # k - 1 /\ up(i) # k
      BY <1>1, <2>2
    <3>2. At(s, up(i)) # before /\ At(s, up(i)) # o
      BY <1>6, <3>1
    <3>3. next'[At(s, up(i))] = next[At(s, up(i))]
      BY <1>5, <3>1, <3>2
    <3>4. next[At(s, up(i))] = At(s, up(i) + 1)
      BY <3>1, Neighbours
    <3> QED
      BY <1>3, <3>1, <3>3, <3>4
  <2> QED
    BY <2>1, <2>2
<1>8. \A i, j \in 1 .. n - 1 : r[i] = r[j] => i = j
  <2>1. \A i \in 1 .. n - 1 : up(i) \in 1 .. n
    BY <1>1
  <2>2. \A i, j \in 1 .. n - 1 : s[up(i)] = s[up(j)] => up(i) = up(j)
    BY <2>1 DEF Holds
  <2> QED
    BY <1>1, <1>2, <2>2
<1>9. ASSUME NEW p \in Obs, next'[p] # p PROVE \E i \in 1 .. n - 1 : r[i] = p
  <2>1. p # o
    BY <1>5, <1>9
  <2>2. \E i \in 1 .. n : s[i] = p
    <3>1. CASE p = before
      BY <1>1, <3>1, ObsAssumption DEF At, before
    <3>2. CASE p # before
      BY <1>5, <1>9, <2>1, <3>2 DEF Holds, Linked, Nodes
    <3> QED
      BY <3>1, <3>2
  <2>3. PICK i \in 1 .. n : s[i] = p
    BY <2>2
  <2>4. i # k
    BY <2>1, <2>3 DEF o
  <2>5. CASE i < k
    BY <1>1, <1>2, <2>3, <2>5
  <2>6. CASE i > k
    <3>1. i - 1 \in 1 .. n - 1 /\ up(i - 1) = i
      BY <1>1, <2>6
    <3> QED
      BY <1>2, <2>3, <3>1
  <2> QED
    BY <1>1, <2>4, <2>5, <2>6
<1> QED
  BY <1>2, <1>7, <1>8, <1>9 DEF Holds, At, Linked, r

\* Deleting an observer that is not registered changes no link.
LEMMA DelOfStranger ==
    ASSUME IInv, NEW o \in Obs, ~Linked(o), Remove(o)
    PROVE  UNCHANGED <<prev, next>>
<1>1. o \in Nodes /\ next[o] = o /\ prev[o] = o
  BY DEF IInv, LinksAgree, Linked, Nodes
<1> QED
  BY <1>1 DEF Remove, IInv, LinksType

-----------------------------------------------------------------------------
(* What a walk has called *)

\* The walk has called the steady observers up to where it stands, once each, and
\* has the others ahead of it.
Told(s) ==
    ~stranded =>
        \/ it = Anchor /\ \A o \in steady : called[o] = 1
        \/ \E k \in 1 .. Len(s) :
              /\ s[k] = it
              /\ \A o \in steady : \E i \in 1 .. Len(s) :
                    s[i] = o /\ called[o] = IF i <= k THEN 1 ELSE 0

ListInv == IInv /\ TypeOK /\ \E s : Holds(s) /\ Told(s)

\* Types, for every set of observers.
LEMMA TypeStep == ASSUME IInv, IInv', TypeOK, [Next]_vars PROVE TypeOK'
<1> USE DEF TypeOK, IInv, LinksType
<1>1. CASE RaiseBegin
  <2>1. Anchor \in Nodes /\ it' = next[Anchor] /\ steady' = {o \in Obs : Linked(o)}
    BY <1>1 DEF RaiseBegin, Nodes
  <2>2. called' = [o \in Obs |-> IF o = it' THEN 1 ELSE 0]
    BY <1>1 DEF RaiseBegin
  <2>3. it' \in Nodes /\ steady' \subseteq Obs
    BY <2>1
  <2>4. called' \in [Obs -> 0 .. 2]
    BY <2>2
  <2>5. stranded' = FALSE
    BY <1>1 DEF RaiseBegin
  <2> QED
    BY <2>3, <2>4, <2>5
<1>2. CASE RaiseNext
  BY <1>2 DEF RaiseNext, Advance
<1>3. ASSUME NEW o \in Obs, Add(o) PROVE TypeOK'
  BY <1>3 DEF Add
<1>4. ASSUME NEW o \in Obs, Del(o) PROVE TypeOK'
  BY <1>4 DEF Del
<1> QED
  BY <1>1, <1>2, <1>3, <1>4 DEF Next, vars

LEMMA ToldByBegin ==
    ASSUME ListInv, NEW s, Holds(s), RaiseBegin PROVE Told(s)'
<1>1. s \in Seq(Obs) /\ Len(s) \in Nat /\ it' = At(s, 1)
  <2>1. Len(s) \in Nat /\ s \in Seq(Obs) /\ 0 \in 0 .. Len(s) /\ At(s, 0) = Anchor
    BY DEF Holds, At
  <2> QED
    BY <2>1 DEF RaiseBegin, Holds
<1>2. 1 \in 1 .. Len(s)
  BY <1>1 DEF RaiseBegin, Linked, At, Holds
<1>3. ASSUME NEW o \in Obs, Linked(o)
      PROVE  \E i \in 1 .. Len(s) : s[i] = o /\ called'[o] = IF i <= 1 THEN 1 ELSE 0
  <2>1. PICK i \in 1 .. Len(s) : s[i] = o
    BY <1>3, MembersAreLinked
  <2>2. s[i] = s[1] => i = 1
    BY <1>2 DEF Holds
  <2> QED
    BY <1>1, <1>2, <2>1, <2>2 DEF RaiseBegin, At
<1> QED
  BY <1>1, <1>2, <1>3 DEF Told, RaiseBegin, At

LEMMA ToldByNext ==
    ASSUME ListInv, NEW s, Holds(s), Told(s), RaiseNext PROVE Told(s)'
<1> SUFFICES ASSUME ~stranded PROVE Told(s)'
  BY DEF Told, RaiseNext
<1>1. s \in Seq(Obs) /\ Len(s) \in Nat /\ steady' = steady /\ stranded' = stranded
  BY DEF Holds, RaiseNext
<1>2. PICK k \in 1 .. Len(s) :
          /\ s[k] = it
          /\ \A o \in steady : \E i \in 1 .. Len(s) :
                s[i] = o /\ called[o] = IF i <= k THEN 1 ELSE 0
  BY DEF Told, RaiseNext
<1>3. it' = At(s, k + 1)
  BY <1>1, <1>2 DEF RaiseNext, Advance, Holds, At
<1>4. ASSUME NEW o \in steady
      PROVE  \E i \in 1 .. Len(s) : s[i] = o /\ called'[o] = IF i <= k + 1 THEN 1 ELSE 0
  <2>1. PICK i \in 1 .. Len(s) : s[i] = o /\ called[o] = IF i <= k THEN 1 ELSE 0
    BY <1>2
  <2>2. o = it' <=> i = k + 1
    <3>1. o \in Obs /\ o # Anchor
      BY ObsAssumption DEF ListInv, TypeOK
    <3> QED
      BY <1>1, <1>3, <2>1, <3>1 DEF At, Holds
  <2>3. called'[o] = IF o = it' /\ called[o] < 2 THEN called[o] + 1 ELSE called[o]
    BY DEF RaiseNext, ListInv, TypeOK
  <2> QED
    BY <1>1, <2>1, <2>2, <2>3
<1>5. CASE k = Len(s)
  <2>1. it' = Anchor
    BY <1>1, <1>3, <1>5 DEF At
  <2>2. \A o \in steady' : called'[o] = 1
    BY <1>1, <1>4, <1>5
  <2> QED
    BY <2>1, <2>2 DEF Told
<1>6. CASE k < Len(s)
  <2>1. k + 1 \in 1 .. Len(s) /\ s[k + 1] = it'
    BY <1>1, <1>3, <1>6 DEF At
  <2> QED
    BY <1>1, <1>4, <2>1 DEF Told
<1> QED
  BY <1>1, <1>5, <1>6

LEMMA ToldByAdd ==
    ASSUME ListInv, NEW s, Holds(s), Told(s), NEW o \in Obs, Add(o)
    PROVE  Told(Append(s, o))'
<1> DEFINE r == Append(s, o)
<1>1. /\ Len(s) \in Nat /\ Len(r) = Len(s) + 1 /\ \A i \in 1 .. Len(s) : r[i] = s[i]
      /\ UNCHANGED <<it, called, steady, stranded>>
  BY DEF Holds, Add
<1>2. \A i \in 1 .. Len(s) : i \in 1 .. Len(r)
  BY <1>1
<1> HIDE DEF r
<1>3. CASE ~stranded /\ it # Anchor
  <2>1. PICK k \in 1 .. Len(s) :
            /\ s[k] = it
            /\ \A p \in steady : \E i \in 1 .. Len(s) :
                  s[i] = p /\ called[p] = IF i <= k THEN 1 ELSE 0
    BY <1>3 DEF Told
  <2>2. k \in 1 .. Len(r) /\ r[k] = it
    BY <1>1, <1>2, <2>1
  <2>3. \A p \in steady : \E i \in 1 .. Len(r) : r[i] = p /\ called[p] = IF i <= k THEN 1 ELSE 0
    BY <1>1, <1>2, <2>1
  <2>4. Told(r)'
    BY <1>1, <2>2, <2>3 DEF Told
  <2> QED
    BY <2>4 DEF r
<1>4. CASE stranded \/ it = Anchor
  <2>1. Anchor \notin Obs /\ s \in Seq(Obs)
    BY ObsAssumption DEF Holds
  <2>2. ~(\E k \in 1 .. Len(s) : s[k] = Anchor)
    BY <2>1
  <2> QED
    BY <1>1, <1>4, <2>2 DEF Told
<1> QED
  BY <1>3, <1>4 DEF ListInv, TypeOK

LEMMA ToldByDel ==
    ASSUME ListInv, NEW s, Holds(s), Told(s), NEW k \in 1 .. Len(s), Del(s[k])
    PROVE  Told(List!RemoveAt(s, k))'
<1> DEFINE r == List!RemoveAt(s, k)  n == Len(s)  down(i) == IF i < k THEN i ELSE i - 1
<1>1. s \in Seq(Obs) /\ n \in Nat /\ k \in 1 .. n /\ \A i \in 1 .. n : s[i] # Anchor
  BY ObsAssumption DEF Holds
<1>2. Len(r) = n - 1 /\ \A i \in 1 .. n - 1 : r[i] = s[IF i < k THEN i ELSE i + 1]
  BY <1>1, RemoveAtIsShift
<1>3. /\ UNCHANGED <<it, called>> /\ steady' = steady \ {s[k]}
      /\ ~stranded' => ~stranded /\ s[k] # it
  BY DEF Del, ListInv, TypeOK
<1> HIDE DEF r
<1>4. ASSUME NEW i \in 1 .. n, i # k PROVE down(i) \in 1 .. n - 1 /\ r[down(i)] = s[i]
  <2>1. down(i) \in 1 .. n - 1 /\ (IF down(i) < k THEN down(i) ELSE down(i) + 1) = i
    BY <1>1, <1>4
  <2> QED
    BY <1>2, <2>1
<1> SUFFICES ASSUME ~stranded' PROVE Told(r)'
  BY DEF Told, r
<1>5. CASE it = Anchor
  BY <1>1, <1>3, <1>5 DEF Told
<1>6. CASE it # Anchor
  <2>1. PICK j \in 1 .. n :
            /\ s[j] = it
            /\ \A o \in steady : \E i \in 1 .. n : s[i] = o /\ called[o] = IF i <= j THEN 1 ELSE 0
    BY <1>3, <1>6 DEF Told
  <2>2. j # k /\ down(j) \in 1 .. Len(r) /\ r[down(j)] = it'
    BY <1>2, <1>3, <1>4, <2>1
  <2>3. ASSUME NEW o \in steady'
        PROVE  \E i \in 1 .. Len(r) : r[i] = o /\ called'[o] = IF i <= down(j) THEN 1 ELSE 0
    <3>1. PICK i \in 1 .. n : s[i] = o /\ called[o] = IF i <= j THEN 1 ELSE 0
      BY <1>3, <2>1
    <3>2. i # k
      BY <1>3, <3>1
    <3>3. i <= j <=> down(i) <= down(j)
      BY <1>1, <2>2, <3>2
    <3> QED
      BY <1>2, <1>3, <1>4, <3>1, <3>2, <3>3
  <2> QED
    BY <2>2, <2>3 DEF Told
<1> QED
  BY <1>5, <1>6

\* One step: what it does to the sequence, and the invariant.
LEMMA ListStep ==
    ASSUME ListInv, IInv', TypeOK', [Next]_vars, NEW s, Holds(s), Told(s)
    PROVE  \/ Holds(s)' /\ Told(s)'
           \/ \E o \in Obs : /\ \A i \in 1 .. Len(s) : s[i] # o
                             /\ Holds(Append(s, o))' /\ Told(Append(s, o))'
           \/ \E k \in 1 .. Len(s) :
                 Holds(List!RemoveAt(s, k))' /\ Told(List!RemoveAt(s, k))'
<1>1. UNCHANGED <<prev, next>> => Holds(s)'
  BY DEF Holds, Linked, At
<1>2. CASE RaiseBegin
  BY <1>1, <1>2, ToldByBegin DEF RaiseBegin
<1>3. CASE RaiseNext
  BY <1>1, <1>3, ToldByNext DEF RaiseNext
<1>4. CASE UNCHANGED vars
  BY <1>1, <1>4 DEF vars, Told
<1>5. ASSUME NEW o \in Obs, Add(o)
      PROVE  \E p \in Obs : /\ \A i \in 1 .. Len(s) : s[i] # p
                            /\ Holds(Append(s, p))' /\ Told(Append(s, p))'
  BY <1>5, AddAppends, ToldByAdd, MembersAreLinked DEF ListInv, Add
<1>6. ASSUME NEW o \in Obs, Del(o), Linked(o)
      PROVE  \E k \in 1 .. Len(s) :
                 Holds(List!RemoveAt(s, k))' /\ Told(List!RemoveAt(s, k))'
  <2>1. PICK k \in 1 .. Len(s) : s[k] = o
    BY <1>6, MembersAreLinked
  <2>2. Holds(List!RemoveAt(s, k))'
    BY <1>6, <2>1, DelRemoves DEF ListInv, Del
  <2>3. Told(List!RemoveAt(s, k))'
    BY <1>6, <2>1, ToldByDel
  <2> QED
    BY <2>2, <2>3
<1>7. ASSUME NEW o \in Obs, Del(o), ~Linked(o) PROVE Holds(s)' /\ Told(s)'
  <2>1. \A i \in 1 .. Len(s) : s[i] # o
    BY <1>7, MembersAreLinked
  <2>2. Holds(s)'
    BY <1>1, <1>7, DelOfStranger DEF Del, ListInv
  <2>3. /\ UNCHANGED <<it, called>> /\ steady' \subseteq steady
        /\ ~stranded' => ~stranded
    BY <1>7 DEF Del, ListInv, TypeOK
  <2>4. Told(s)'
    BY <2>3 DEF Told
  <2> QED
    BY <2>2, <2>4
<1> QED
  BY <1>2, <1>3, <1>4, <1>5, <1>6, <1>7 DEF Next

LEMMA ListInductive == ListInv /\ [Next]_vars => ListInv'
<1> SUFFICES ASSUME ListInv, [Next]_vars PROVE ListInv'
  OBVIOUS
<1>1. IInv'
  BY LinksInductive DEF ListInv
<1>2. TypeOK'
  BY <1>1, TypeStep DEF ListInv
<1>3. PICK s : Holds(s) /\ Told(s)
  BY DEF ListInv
<1> QED
  BY <1>1, <1>2, <1>3, ListStep DEF ListInv

LEMMA ListInitial == Init => ListInv /\ Holds(<<>>)
<1> SUFFICES ASSUME Init PROVE ListInv /\ Holds(<<>>)
  OBVIOUS
<1>1. IInv
  BY DEF Init, IInv, LinksType, LinksAgree
<1>2. TypeOK
  <2>1. Anchor \in Nodes
    BY DEF Nodes
  <2>2. [o \in Obs |-> 0] \in [Obs -> 0 .. 2]
    OBVIOUS
  <2> QED
    BY <1>1, <2>1, <2>2 DEF Init, IInv, LinksType, TypeOK
<1>3. <<>> \in Seq(Obs) /\ Len(<<>>) = 0
  BY EmptySeq
<1>4. Holds(<<>>)
  BY <1>3 DEF Init, Holds, At, Linked, Nodes
<1>5. Told(<<>>)
  BY <1>3 DEF Init, Told
<1> QED
  BY <1>1, <1>2, <1>4, <1>5 DEF ListInv

\* An observer registered during a whole walk is called exactly once in it, for any
\* number of observers and whatever the callbacks add and delete.
THEOREM NobodyIsLeftOut == Spec => []EveryoneIsTold
<1>1. ListInv => EveryoneIsTold
  <2> SUFFICES ASSUME ListInv, it = Anchor, ~stranded PROVE \A o \in steady : called[o] = 1
    BY DEF EveryoneIsTold
  <2>1. PICK s : Holds(s) /\ Told(s)
    BY DEF ListInv
  <2>2. \A k \in 1 .. Len(s) : s[k] # Anchor
    BY <2>1, ObsAssumption DEF Holds
  <2> QED
    BY <2>1, <2>2 DEF Told
<1>2. QED
  BY <1>1, ListInitial, ListInductive, PTL DEF Spec

\* The links implement the sequence that ObserverList promises, whoever changes it
\* and whenever.
THEOREM LinksKeepASequence == Spec => IsSequence
<1>1. Init => List!Init
  BY ListInitial, WalkIsHeld DEF List!Init
<1>2. \A r : Holds(r) => Walk = r
  BY WalkIsHeld
<1>3. (\A r : Holds(r) => Walk = r)'
  BY <1>2, PTL
<1>4. ListInv /\ [Next]_vars => [\E o \in Obs : List!Add(o) \/ List!Del(o)]_Walk
  <2> SUFFICES ASSUME ListInv, [Next]_vars
               PROVE  Walk' = Walk \/ \E o \in Obs : List!Add(o) \/ List!Del(o)
    OBVIOUS
  <2>1. PICK s : Holds(s) /\ Told(s)
    BY DEF ListInv
  <2>2. Walk = s /\ s \in Seq(Obs) /\ \A r : Holds(r)' => Walk' = r
    BY <1>3, <2>1, WalkIsHeld DEF Holds
  <2>3. ListInv'
    BY ListInductive
  <2>4. CASE Holds(s)'
    BY <2>2, <2>4
  <2>5. ASSUME NEW o \in Obs, \A i \in 1 .. Len(s) : s[i] # o, Holds(Append(s, o))'
        PROVE  List!Add(o)
    <3>1. DOMAIN Walk = 1 .. Len(s)
      BY <2>2, LenProperties
    <3>2. o \notin List!Members
      BY <2>2, <2>5, <3>1 DEF List!Members
    <3> QED
      BY <2>2, <2>5, <3>2 DEF List!Add
  <2>6. ASSUME NEW k \in 1 .. Len(s), Holds(List!RemoveAt(s, k))'
        PROVE  s[k] \in Obs /\ List!Del(s[k])
    BY <2>2, <2>6 DEF List!Del
  <2> QED
    BY <2>1, <2>3, <2>4, <2>5, <2>6, ListStep DEF ListInv
<1>5. QED
  BY <1>1, <1>4, ListInitial, ListInductive, PTL DEF Spec, IsSequence, List!Spec
=============================================================================
