-------------------------- MODULE LinkedListProofs --------------------------
(***************************************************************************)
(* Lemmas about linked lists: a list is described by the sequence of its   *)
(* nodes, and the walk along its pointers finds that sequence.             *)
(* QueueProofs and FsmEngineProofs use them.                               *)
(***************************************************************************)
EXTENDS LinkedLists, FiniteSetTheorems, TLAPS

\* The nodes of s, all different, are linked from first to NULL.
Linked(h, first, s) ==
  /\ s \in Seq(DOMAIN h)
  /\ \A i, j \in 1 .. Len(s) : s[i] = s[j] => i = j
  /\ first = IF s = <<>> THEN NULL ELSE s[1]
  /\ \A i \in 1 .. Len(s) :
       h[s[i]].next = IF i = Len(s) THEN NULL ELSE s[i + 1]

\* A heap whose nodes are linked to each other or to nothing.
Pointers(h) ==
  /\ DOMAIN h \subseteq Nodes
  /\ \A n \in DOMAIN h : h[n].next \in Ptr

\* One step of the recursion of ChainOf, and what solves it up to k steps.
Walk(h, before, left) ==
  [n \in Ptr |-> IF n \notin DOMAIN h \/ left = 0 THEN <<>>
                 ELSE <<n>> \o before[h[n].next]]

Walks(h, k, from) ==
  from = [left \in 0 .. k |-> Walk(h, from[left - 1], left)]

\* A nonempty set of naturals has a smallest element.
LEMMA Smallest ==
  ASSUME NEW T, T \subseteq Nat, T # {}
  PROVE  \E x \in T : \A y \in T : x <= y
<1> DEFINE Below(n) == 0 .. n - 1
           B == {Below(n) : n \in T}
<1>1. B \subseteq FiniteSubsetsOf(Nat)
  <2>1. ASSUME NEW n \in T PROVE Below(n) \in FiniteSubsetsOf(Nat)
    <3>1. IsFiniteSet(0 .. n - 1) /\ 0 .. n - 1 \subseteq Nat
      BY FS_Interval
    <3> QED BY <3>1 DEF FiniteSubsetsOf
  <2> QED BY <2>1
<1>2. B # {}
  OBVIOUS
<1>3. PICK X \in B : \A Y \in B : ~(<<Y, X>> \in StrictSubsetOrdering(Nat))
  <2>1. IsWellFoundedOn(StrictSubsetOrdering(Nat), FiniteSubsetsOf(Nat))
    BY FS_StrictSubsetOrderingWellFounded
  <2> HIDE DEF B
  <2> QED BY <2>1, <1>1, <1>2, WFMin
<1>4. PICK x \in T : X = Below(x)
  OBVIOUS
<1>5. ASSUME NEW y \in T, y < x PROVE FALSE
  <2>1. /\ Below(y) \subseteq Below(x)
        /\ Below(x) \subseteq Nat
        /\ y \in Below(x)
        /\ y \notin Below(y)
    BY <1>5
  <2>2. <<Below(y), Below(x)>> \in StrictSubsetOrdering(Nat)
    BY <2>1 DEF StrictSubsetOrdering
  <2> QED BY <2>2, <1>3, <1>4
<1> QED BY <1>5

\* The recursion of ChainOf has a solution for every bound: one more step of it
\* is built on the solution for the bound before.
LEMMA WalkExists ==
  ASSUME NEW h, NEW k \in Nat
  PROVE  \E from : Walks(h, k, from)
<1> DEFINE Bad == {m \in Nat : ~ \E from : Walks(h, m, from)}
<1>1. ASSUME Bad # {} PROVE FALSE
  <2>1. PICK m \in Bad : \A x \in Bad : m <= x
    <3>1. Bad \subseteq Nat
      OBVIOUS
    <3> QED BY <1>1, <3>1, Smallest
  <2>2. CASE m = 0
    <3> DEFINE zero == [left \in 0 .. 0 |-> Walk(h, <<>>, 0)]
    <3>1. Walk(h, zero[0 - 1], 0) = Walk(h, <<>>, 0)
      BY DEF Walk
    <3>2. zero = [left \in 0 .. 0 |-> Walk(h, zero[left - 1], left)]
      <4> HIDE DEF zero
      <4>1. \A left \in 0 .. 0 : left = 0
        OBVIOUS
      <4>2. zero = [left \in 0 .. 0 |-> Walk(h, <<>>, 0)]
        BY DEF zero
      <4> QED BY <3>1, <4>1, <4>2
    <3>3. Walks(h, 0, zero)
      <4> HIDE DEF zero
      <4> QED BY <3>2 DEF Walks
    <3> QED BY <2>1, <2>2, <3>3
  <2>3. CASE m # 0
    <3>1. m - 1 \in Nat /\ m - 1 \notin Bad
      BY <2>1, <2>3
    <3>2. PICK from : Walks(h, m - 1, from)
      BY <3>1
    <3> DEFINE more == [left \in 0 .. m |-> Walk(h, from[left - 1], left)]
    <3>3. ASSUME NEW left \in 0 .. m
          PROVE  Walk(h, from[left - 1], left) = Walk(h, more[left - 1], left)
      <4>1. CASE left = 0
        BY <4>1 DEF Walk
      <4>2. CASE left # 0
        <5>1. left - 1 \in 0 .. m - 1 /\ left - 1 \in 0 .. m
          BY <4>2, <3>3, <2>1
        <5>2. from[left - 1] = Walk(h, from[(left - 1) - 1], left - 1)
          BY <3>2, <5>1 DEF Walks
        <5>3. more[left - 1] = Walk(h, from[(left - 1) - 1], left - 1)
          BY <5>1
        <5> HIDE DEF more
        <5> QED BY <5>2, <5>3
      <4> QED BY <4>1, <4>2
    <3>4. more = [left \in 0 .. m |-> Walk(h, more[left - 1], left)]
      <4> DEFINE again == [left \in 0 .. m |-> Walk(h, more[left - 1], left)]
      <4>1. \A left \in 0 .. m : more[left] = again[left]
        BY <3>3
      <4> QED BY <4>1
    <3>5. Walks(h, m, more)
      <4> HIDE DEF more
      <4> QED BY <3>4 DEF Walks
    <3> QED BY <2>1, <3>5
  <2> QED BY <2>2, <2>3
<1> QED BY <1>1

\* Chain is the last step of some solution of its recursion.
LEMMA ChainWalks ==
  ASSUME NEW h, NEW first
  PROVE  \E from : /\ Walks(h, Cardinality(Nodes) + 1, from)
                   /\ ChainOf(h, first) = from[Cardinality(Nodes) + 1][first]
<1> DEFINE C == Cardinality(Nodes) + 1
           from == CHOOSE from : Walks(h, C, from)
<1>1. C \in Nat
  BY NodesAssumption, FS_CardinalityType
<1>2. Walks(h, C, from)
  <2> HIDE DEF C
  <2> QED BY <1>1, WalkExists, Zenon
<1>3. ChainOf(h, first) = from[C][first]
  BY Zenon DEF ChainOf, Walks, Walk
<1> QED
  <2> HIDE DEF from
  <2> QED BY <1>2, <1>3

\* Different nodes are no more than there are.
LEMMA ListBounded ==
  ASSUME NEW s \in Seq(Nodes),
         \A i, j \in 1 .. Len(s) : s[i] = s[j] => i = j
  PROVE  Len(s) <= Cardinality(Nodes)
<1>1. IsFiniteSet(1 .. Len(s)) /\ Cardinality(1 .. Len(s)) = Len(s)
  <2> DEFINE n == Len(s)
  <2>1. n \in Nat
    OBVIOUS
  <2> HIDE DEF n
  <2>2. IsFiniteSet(1 .. n) /\ Cardinality(1 .. n) = n
    BY <2>1, FS_Interval
  <2> QED BY <2>2 DEF n
<1>2. s \in [1 .. Len(s) -> Nodes]
  OBVIOUS
<1>3. IsFiniteSet(Nodes) /\ Cardinality(Nodes) \in Nat
  BY NodesAssumption, FS_CardinalityType
<1>4. CASE Cardinality(Nodes) < Cardinality(1 .. Len(s))
  BY <1>1, <1>2, <1>3, <1>4, FS_PigeonHole
<1> QED
  BY <1>1, <1>3, <1>4

LEMMA FirstAndRest ==
  ASSUME NEW S, NEW s \in Seq(S), NEW i \in 1 .. Len(s)
  PROVE  <<s[i]>> \o SubSeq(s, i + 1, Len(s)) = SubSeq(s, i, Len(s))
  OBVIOUS

\* The recursion finds the nodes of a list, from the last one back.
LEMMA ChainIs ==
  ASSUME NEW h, Pointers(h), NEW first, NEW s, Linked(h, first, s)
  PROVE  ChainOf(h, first) = s
<1> DEFINE C == Cardinality(Nodes) + 1
           n == Len(s)
           Node(k) == IF k = 0 THEN NULL ELSE s[n - k + 1]
<1>1. s \in Seq(Nodes) /\ n \in Nat /\ n < C /\ C \in Nat
  <2>1. s \in Seq(Nodes)
    BY DEF Linked, Pointers
  <2> QED
    BY <2>1, ListBounded, NodesAssumption, FS_CardinalityType DEF Linked
<1>2. PICK from : /\ Walks(h, C, from)
                  /\ ChainOf(h, first) = from[C][first]
  BY ChainWalks
<1>3. ASSUME NEW left \in 0 .. C, NEW p \in Ptr
      PROVE  from[left][p] = IF p \notin DOMAIN h \/ left = 0 THEN <<>>
                             ELSE <<p>> \o from[left - 1][h[p].next]
  <2>1. from[left] = Walk(h, from[left - 1], left)
    <3> HIDE DEF C
    <3> QED BY <1>2 DEF Walks
  <2> QED
    BY <2>1 DEF Walk
<1> DEFINE Good(k) == \A left \in k + 1 .. C :
                        from[left][Node(k)] = SubSeq(s, n - k + 1, n)
           Bad == {k \in 0 .. n : ~Good(k)}
<1>4. Good(0)
  <2>1. NULL \in Ptr /\ NULL \notin DOMAIN h
    BY NodesAssumption DEF Pointers, Ptr
  <2>2. SubSeq(s, n - 0 + 1, n) = <<>>
    BY <1>1
  <2> HIDE DEF n, C
  <2>3. ASSUME NEW left \in 0 + 1 .. C PROVE from[left][NULL] = <<>>
    <3>1. left \in 0 .. C
      BY <1>1
    <3> QED BY <1>3, <2>1, <3>1
  <2>4. Node(0) = NULL
    OBVIOUS
  <2> HIDE DEF Node
  <2> QED BY <2>2, <2>3, <2>4
<1>5. ASSUME NEW k \in 1 .. n, Good(k - 1)
      PROVE  Good(k)
  <2> DEFINE i == n - k + 1
  <2>1. i \in 1 .. n /\ Node(k) = s[i]
    BY <1>1
  <2>2. s[i] \in DOMAIN h /\ s[i] \in Ptr /\ h[s[i]].next = Node(k - 1)
    BY <1>1, <2>1 DEF Linked, Pointers, Ptr
  <2>3. ASSUME NEW left \in k + 1 .. C
        PROVE  from[left][Node(k)] = SubSeq(s, i, n)
    <3>1. left \in 0 .. C /\ left # 0 /\ left - 1 \in k .. C
      BY <1>1
    <3>2. from[left][s[i]] = <<s[i]>> \o from[left - 1][Node(k - 1)]
      <4> HIDE DEF C, n, i, Node
      <4> QED BY <1>3, <2>2, <3>1
    <3>3. from[left - 1][Node(k - 1)] = SubSeq(s, n - (k - 1) + 1, n)
      <4>1. left - 1 \in (k - 1) + 1 .. C
        BY <3>1, <1>1
      <4> HIDE DEF C, n, Node
      <4> QED BY <4>1, <1>5
    <3>4. n - (k - 1) + 1 = i + 1
      BY <1>1
    <3>5. <<s[i]>> \o SubSeq(s, i + 1, n) = SubSeq(s, i, n)
      BY <1>1, <2>1, FirstAndRest
    <3> HIDE DEF C, n, i, Node
    <3> QED BY <2>1, <3>2, <3>3, <3>4, <3>5
  <2> HIDE DEF C, n, Node
  <2> QED BY <2>3
<1>6. Good(n)
  <2> SUFFICES ASSUME Bad # {} PROVE FALSE
    <3> HIDE DEF Good
    <3> QED BY <1>1
  <2>1. PICK k \in Bad : \A x \in Bad : k <= x
    <3>1. Bad \subseteq Nat
      BY <1>1
    <3> HIDE DEF Bad
    <3> QED BY <3>1, Smallest
  <2>2. k \in 0 .. n /\ ~Good(k)
    OBVIOUS
  <2>3. k # 0
    BY <1>4, <2>2
  <2>4. k \in 1 .. n /\ k - 1 \in 0 .. n /\ ~(k <= k - 1)
    BY <2>2, <2>3, <1>1
  <2>5. Good(k - 1)
    <3> HIDE DEF Good, n
    <3> QED BY <2>1, <2>4
  <2>6. Good(k)
    <3> HIDE DEF Good, n
    <3> QED BY <2>4, <2>5, <1>5
  <2> QED BY <2>2, <2>6
<1>7. first = Node(n)
  BY <1>1 DEF Linked
<1>8. C \in n + 1 .. C
  BY <1>1
<1>9. SubSeq(s, n - n + 1, n) = s
  BY <1>1
<1> HIDE DEF C, n, Node
<1> QED
  BY <1>2, <1>6, <1>7, <1>8, <1>9

\* An empty heap holds the empty list.
LEMMA ChainEmpty ==
  ASSUME NEW h, h = [n \in {} |-> NULL]
  PROVE  ChainOf(h, NULL) = <<>>
<1>1. Pointers(h) /\ Linked(h, NULL, <<>>)
  BY DEF Pointers, Linked
<1> QED
  BY <1>1, ChainIs

\* A list does not depend on what is no part of it.
LEMMA LinkedElsewhere ==
  ASSUME NEW h, NEW g, NEW first, NEW s, Linked(h, first, s),
         \A n \in ToSet(s) : n \in DOMAIN g /\ g[n] = h[n]
  PROVE  Linked(g, first, s)
<1>1. \A i \in 1 .. Len(s) : s[i] \in ToSet(s)
  BY DEF Linked, ToSet
<1>2. s \in Seq(DOMAIN g)
  <2>1. \A i \in 1 .. Len(s) : s[i] \in DOMAIN g
    BY <1>1
  <2> QED BY <2>1 DEF Linked
<1> QED
  BY <1>1, <1>2 DEF Linked

\* The first node goes: head = head->next.
LEMMA LinkedTail ==
  ASSUME NEW h, NEW first, NEW s, Linked(h, first, s), s # <<>>
  PROVE  /\ first = s[1] /\ first \in DOMAIN h
         /\ Linked(h, h[first].next, Tail(s))
         /\ first \notin ToSet(Tail(s))
         /\ ToSet(s) = {first} \cup ToSet(Tail(s))
<1> DEFINE t == Tail(s)
           l == Len(s)
<1>1. /\ s \in Seq(DOMAIN h) /\ l \in Nat \ {0} /\ first = s[1]
      /\ \A i, j \in 1 .. l : s[i] = s[j] => i = j
      /\ \A i \in 1 .. l : h[s[i]].next = IF i = l THEN NULL ELSE s[i + 1]
  BY DEF Linked
<1>2. /\ t \in Seq(DOMAIN h) /\ Len(t) = l - 1 /\ DOMAIN t = 1 .. l - 1
      /\ t = <<>> <=> l = 1
      /\ \A i \in 1 .. l - 1 : t[i] = s[i + 1] /\ i + 1 \in 1 .. l
  <2>1. t \in Seq(DOMAIN h) /\ Len(t) = l - 1
    BY <1>1
  <2>2. \A i \in 1 .. l - 1 : t[i] = s[i + 1]
    BY <1>1
  <2>3. \A i \in 1 .. l - 1 : i + 1 \in 1 .. l
    <3> HIDE DEF l
    <3> QED BY <1>1
  <2>4. DOMAIN t = 1 .. l - 1
    <3> HIDE DEF t, l
    <3> QED BY <2>1
  <2>5. t = <<>> <=> l = 1
    <3> HIDE DEF t, l
    <3> QED BY <1>1, <2>1
  <2> QED BY <2>1, <2>2, <2>3, <2>4, <2>5
<1>3. h[first].next = IF t = <<>> THEN NULL ELSE t[1]
  <2> HIDE DEF t, l
  <2> QED BY <1>1, <1>2
<1>4. Linked(h, h[first].next, t)
  <2> HIDE DEF t, l
  <2>1. ASSUME NEW i \in 1 .. Len(t), NEW j \in 1 .. Len(t), t[i] = t[j]
        PROVE  i = j
    <3>1. i \in 1 .. l - 1 /\ j \in 1 .. l - 1
      BY <1>2
    <3>2. s[i + 1] = s[j + 1] /\ i + 1 \in 1 .. l /\ j + 1 \in 1 .. l
      BY <1>2, <2>1, <3>1
    <3>3. i + 1 = j + 1
      BY <1>1, <3>2
    <3> QED BY <3>1, <3>3
  <2>2. \A i \in 1 .. Len(t) :
          h[t[i]].next = IF i = Len(t) THEN NULL ELSE t[i + 1]
    BY <1>1, <1>2
  <2> QED BY <1>2, <1>3, <2>1, <2>2 DEF Linked
<1>5. first \notin ToSet(t)
  <2> HIDE DEF t, l
  <2> QED BY <1>1, <1>2 DEF ToSet
<1>6. ToSet(s) = {first} \cup ToSet(Tail(s))
  <2>1. ASSUME NEW i \in DOMAIN s PROVE s[i] \in {first} \cup ToSet(Tail(s))
    <3>1. CASE i = 1
      BY <1>1, <3>1
    <3>2. CASE i # 1
      <4>1. i \in 1 .. l
        BY <1>1
      <4> HIDE DEF t, l
      <4>2. i - 1 \in DOMAIN t /\ t[i - 1] = s[i]
        BY <1>1, <1>2, <3>2, <4>1
      <4> QED BY <4>2 DEF ToSet, t
    <3> QED BY <3>1, <3>2
  <2>2. ASSUME NEW i \in DOMAIN Tail(s) PROVE Tail(s)[i] \in ToSet(s)
    <3>1. DOMAIN s = 1 .. l
      BY <1>1
    <3> HIDE DEF t, l
    <3>2. i + 1 \in DOMAIN s /\ Tail(s)[i] = s[i + 1]
      BY <1>1, <1>2, <3>1 DEF t
    <3> QED BY <3>2 DEF ToSet
  <2>3. first \in ToSet(s)
    BY <1>1 DEF ToSet
  <2> QED BY <2>1, <2>2, <2>3 DEF ToSet
<1>7. first \in DOMAIN h
  BY <1>1
<1> QED
  BY <1>1, <1>4, <1>5, <1>6, <1>7
=============================================================================
