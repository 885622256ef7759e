--------------------------- MODULE FsmEngineProofs ---------------------------
(***************************************************************************)
(* The event engine of utility/fsm.c, for every forest of states, every    *)
(* table and any number of events.                                         *)
(***************************************************************************)
EXTENDS FsmEngine, LinkedListProofs

-----------------------------------------------------------------------------
(* The forest of states and the paths in it. *)

Points == States \cup {NULL}

IsDepth(depth) ==
  /\ depth \in [States -> 1 .. StackSize]
  /\ \A s \in States :
       depth[s] = IF Parent[s] = NULL THEN 1 ELSE depth[Parent[s]] + 1

LEMMA ParentTyped ==
  /\ NULL \notin States
  /\ \A s \in States : Parent[s] \in Points
  /\ \E depth : IsDepth(depth)
  BY ForestAssumption DEF Points, IsDepth

\* What holds of a state when it holds of its parent holds of all states.
LEMMA TreeInduction ==
  ASSUME NEW S, \A s \in States : Parent[s] = NULL \/ Parent[s] \in S => s \in S
  PROVE  States \subseteq S
<1>1. PICK depth : IsDepth(depth)
  BY ParentTyped
<1> DEFINE Bad == {s \in States : s \notin S}
           T == {depth[s] : s \in Bad}
<1>2. ASSUME Bad # {} PROVE FALSE
  <2>1. T \subseteq Nat /\ T # {}
    BY <1>1, <1>2 DEF IsDepth, StackSize
  <2>2. PICK x \in T : \A y \in T : x <= y
    <3> HIDE DEF T
    <3> QED BY <2>1, Smallest
  <2>3. PICK s \in Bad : depth[s] = x
    OBVIOUS
  <2>4. Parent[s] # NULL /\ Parent[s] \notin S /\ Parent[s] \in States
    BY <2>3, ParentTyped DEF Points
  <2>5. depth[Parent[s]] \in T /\ depth[Parent[s]] \in Nat
        /\ x = depth[Parent[s]] + 1
    BY <1>1, <2>3, <2>4 DEF IsDepth, StackSize
  <2> HIDE DEF T
  <2> QED BY <2>2, <2>5
<1> QED
  BY <1>2

\* One step of the recursion of Path, and what solves it.
Climb(to, up) ==
  [s \in Points |-> IF s \in {to, NULL} THEN <<>> ELSE <<s>> \o up[Parent[s]]]

\* up solves the recursion for the states no deeper than k.
ClimbsTo(depth, k, to, up) ==
  /\ up = [s \in Points |-> up[s]]
  /\ \A s \in Points :
       s = NULL \/ depth[s] <= k => up[s] = Climb(to, up)[s]

LEMMA ClimbOne ==
  ASSUME NEW depth, IsDepth(depth), NEW k \in Nat, NEW to, NEW up,
         ClimbsTo(depth, k, to, up)
  PROVE  ClimbsTo(depth, k + 1, to, Climb(to, up))
<1> DEFINE next == Climb(to, up)
<1>1. next = [s \in Points |-> next[s]]
  BY DEF Climb
<1>2. ASSUME NEW s \in Points, s = NULL \/ depth[s] <= k + 1
      PROVE  next[s] = Climb(to, next)[s]
  <2>1. CASE s \in {to, NULL}
    BY <2>1 DEF Climb
  <2>2. CASE s \notin {to, NULL}
    <3>1. s \in States /\ Parent[s] \in Points
      BY <2>2, ParentTyped DEF Points
    <3>2. Parent[s] = NULL \/ depth[Parent[s]] <= k
      <4>1. CASE Parent[s] # NULL
        <5>1. /\ Parent[s] \in States
              /\ depth[s] = depth[Parent[s]] + 1
              /\ depth[Parent[s]] \in Nat
          BY <3>1, <4>1 DEF IsDepth, Points, StackSize
        <5> QED BY <1>2, <2>2, <5>1
      <4> QED BY <4>1
    <3>3. up[Parent[s]] = next[Parent[s]]
      BY <3>1, <3>2 DEF ClimbsTo
    <3>4. next[s] = <<s>> \o up[Parent[s]]
      BY <2>2, <3>1 DEF Climb, Points
    <3>5. Climb(to, next)[s] = <<s>> \o next[Parent[s]]
      <4> HIDE DEF next
      <4> QED BY <2>2, <3>1 DEF Climb, Points
    <3> HIDE DEF next
    <3> QED BY <3>3, <3>4, <3>5
  <2> QED BY <2>1, <2>2
<1> HIDE DEF next
<1>3. ClimbsTo(depth, k + 1, to, next)
  BY <1>1, <1>2 DEF ClimbsTo
<1> QED
  BY <1>3 DEF next

\* The recursion of Path has a solution: the forest is not deep.
LEMMA ClimbExists ==
  ASSUME NEW to
  PROVE  \E up : up = Climb(to, up)
<1>1. PICK depth : IsDepth(depth)
  BY ParentTyped
<1> DEFINE Bad == {k \in Nat : ~ \E up : ClimbsTo(depth, k, to, up)}
<1>2. ASSUME Bad # {} PROVE FALSE
  <2>1. PICK k \in Bad : \A x \in Bad : k <= x
    <3>1. Bad \subseteq Nat
      OBVIOUS
    <3> HIDE DEF Bad
    <3> QED BY <1>2, <3>1, Smallest
  <2>2. CASE k = 0
    <3> DEFINE none == [s \in Points |-> <<>>]
    <3>1. ASSUME NEW s \in Points, s = NULL \/ depth[s] <= 0
          PROVE  none[s] = Climb(to, none)[s]
      <4>1. s = NULL
        BY <1>1, <3>1 DEF IsDepth, Points, StackSize
      <4> QED BY <4>1 DEF Climb
    <3>2. none = [s \in Points |-> none[s]]
      OBVIOUS
    <3> HIDE DEF none
    <3>3. ClimbsTo(depth, 0, to, none)
      BY <3>1, <3>2 DEF ClimbsTo
    <3> QED BY <2>2, <3>3
  <2>3. CASE k # 0
    <3>1. k - 1 \in Nat /\ k - 1 \notin Bad
      BY <2>1, <2>3
    <3>2. PICK up : ClimbsTo(depth, k - 1, to, up)
      BY <3>1
    <3>3. ClimbsTo(depth, (k - 1) + 1, to, Climb(to, up))
      <4> HIDE DEF Bad
      <4> QED BY <1>1, <3>1, <3>2, ClimbOne
    <3>4. (k - 1) + 1 = k
      OBVIOUS
    <3> QED BY <3>3, <3>4
  <2> QED BY <2>2, <2>3
<1>3. PICK up : ClimbsTo(depth, StackSize, to, up)
  BY <1>2 DEF StackSize
<1>4. \A s \in Points : up[s] = Climb(to, up)[s]
  BY <1>1, <1>3 DEF ClimbsTo, IsDepth, Points, StackSize
<1>5. up = Climb(to, up)
  <2>1. Climb(to, up) = [s \in Points |-> Climb(to, up)[s]]
    BY DEF Climb
  <2>2. up = [s \in Points |-> up[s]]
    BY <1>3 DEF ClimbsTo
  <2> QED BY <1>4, <2>1, <2>2
<1> QED
  BY <1>5

\* One step up the path.
LEMMA PathUp ==
  ASSUME NEW s \in Points, NEW to
  PROVE  Path(s, to) = IF s \in {to, NULL} THEN <<>>
                       ELSE <<s>> \o Path(Parent[s], to)
<1> DEFINE up == CHOOSE up : up = Climb(to, up)
<1>1. \A t : Path(t, to) = up[t]
  BY Zenon DEF Path, Climb, Points
<1>2. up = Climb(to, up)
  BY ClimbExists, Zenon
<1> HIDE DEF up
<1>3. up[s] = IF s \in {to, NULL} THEN <<>> ELSE <<s>> \o up[Parent[s]]
  BY <1>2 DEF Climb
<1> QED
  BY <1>1, <1>3

LEMMA PathTyped ==
  ASSUME NEW s \in Points, NEW to
  PROVE  Path(s, to) \in Seq(States)
<1> DEFINE S == {t \in States : Path(t, to) \in Seq(States)}
<1>1. Path(NULL, to) = <<>> /\ <<>> \in Seq(States)
  <2>1. Path(NULL, to) = <<>>
    BY PathUp DEF Points
  <2> QED BY <2>1
<1>2. ASSUME NEW t \in States, Parent[t] = NULL \/ Parent[t] \in S
      PROVE  t \in S
  <2>1. Path(Parent[t], to) \in Seq(States)
    <3>1. CASE Parent[t] = NULL
      BY <1>1, <3>1
    <3>2. CASE Parent[t] # NULL
      BY <1>2, <3>2
    <3> QED BY <3>1, <3>2
  <2>2. CASE t \in {to, NULL}
    <3>1. Path(t, to) = <<>>
      BY <2>2, PathUp DEF Points
    <3> QED BY <3>1
  <2>3. CASE t \notin {to, NULL}
    <3>1. Path(t, to) = <<t>> \o Path(Parent[t], to)
      BY <2>3, PathUp DEF Points
    <3> QED BY <2>1, <3>1
  <2> QED BY <2>2, <2>3
<1>3. States \subseteq S
  <2> HIDE DEF S
  <2> QED BY <1>2, TreeInduction
<1> QED
  BY <1>1, <1>3 DEF Points

LEMMA AncestorsUp ==
  /\ AncestorsAndSelf(NULL) = {}
  /\ \A s \in States : AncestorsAndSelf(s) = {s} \cup AncestorsAndSelf(Parent[s])
  /\ \A s \in Points : AncestorsAndSelf(s) \subseteq States
<1>1. AncestorsAndSelf(NULL) = {}
  <2>1. Path(NULL, NULL) = <<>>
    BY PathUp DEF Points
  <2> QED BY <2>1 DEF AncestorsAndSelf, ToSet
<1>2. ASSUME NEW s \in States
      PROVE  AncestorsAndSelf(s) = {s} \cup AncestorsAndSelf(Parent[s])
  <2> DEFINE p == Path(Parent[s], NULL)
  <2>1. p \in Seq(States)
    BY ParentTyped, PathTyped
  <2>2. Path(s, NULL) = <<s>> \o p
    BY PathUp, ParentTyped DEF Points
  <2> HIDE DEF p
  <2>3. /\ Len(<<s>> \o p) = Len(p) + 1
        /\ (<<s>> \o p)[1] = s
        /\ \A i \in 1 .. Len(p) : (<<s>> \o p)[i + 1] = p[i]
    BY <2>1
  <2> DEFINE q == <<s>> \o p
  <2>4. DOMAIN q = 1 .. Len(p) + 1 /\ DOMAIN p = 1 .. Len(p) /\ Len(p) \in Nat
    BY <2>1
  <2> HIDE DEF q
  <2>5. q[1] = s /\ \A i \in 1 .. Len(p) : q[i + 1] = p[i]
    BY <2>3 DEF q
  <2>6. ToSet(q) \subseteq {s} \cup ToSet(p)
    <3>1. ASSUME NEW i \in DOMAIN q PROVE q[i] \in {s} \cup ToSet(p)
      <4>1. i = 1 \/ (i - 1 \in DOMAIN p /\ q[i] = p[i - 1])
        BY <2>4, <2>5
      <4> QED BY <4>1, <2>5 DEF ToSet
    <3> QED BY <3>1 DEF ToSet
  <2>7. {s} \cup ToSet(p) \subseteq ToSet(q)
    BY <2>4, <2>5 DEF ToSet
  <2> QED BY <2>2, <2>6, <2>7 DEF AncestorsAndSelf, q, p
<1>3. ASSUME NEW s \in Points PROVE AncestorsAndSelf(s) \subseteq States
  BY PathTyped DEF AncestorsAndSelf, ToSet
<1> QED
  BY <1>1, <1>2, <1>3

\* The ancestors of an ancestor are ancestors.
LEMMA AncestorsClosed ==
  ASSUME NEW s \in States, NEW t \in AncestorsAndSelf(s)
  PROVE  AncestorsAndSelf(t) \subseteq AncestorsAndSelf(s)
<1> DEFINE S == {r \in States : \A a \in AncestorsAndSelf(r) :
                                  AncestorsAndSelf(a) \subseteq AncestorsAndSelf(r)}
<1>1. ASSUME NEW r \in States, Parent[r] = NULL \/ Parent[r] \in S
      PROVE  r \in S
  BY <1>1, AncestorsUp
<1>2. States \subseteq S
  <2> HIDE DEF S
  <2> QED BY <1>1, TreeInduction
<1> QED
  BY <1>2

\* No state is an ancestor of its parent.
LEMMA NoCycle ==
  ASSUME NEW s \in States
  PROVE  s \notin AncestorsAndSelf(Parent[s])
<1>1. PICK depth : IsDepth(depth)
  BY ParentTyped
<1> DEFINE S == {r \in States : \A a \in AncestorsAndSelf(r) : depth[a] <= depth[r]}
<1>2. \A r \in States : depth[r] \in Nat
  BY <1>1 DEF IsDepth, StackSize
<1>3. ASSUME NEW r \in States, Parent[r] = NULL \/ Parent[r] \in S
      PROVE  r \in S
  <2>1. ASSUME NEW a \in AncestorsAndSelf(r) PROVE depth[a] <= depth[r]
    <3>1. CASE a = r
      BY <3>1, <1>2
    <3>2. CASE a # r
      <4>1. a \in AncestorsAndSelf(Parent[r]) /\ Parent[r] # NULL
        BY <3>2, <2>1, AncestorsUp
      <4>2. Parent[r] \in S /\ depth[r] = depth[Parent[r]] + 1
        BY <4>1, <1>1, <1>3 DEF IsDepth
      <4>3. a \in States
        BY <2>1, AncestorsUp DEF Points
      <4>4. depth[a] <= depth[Parent[r]]
        BY <4>1, <4>2
      <4> QED BY <4>2, <4>3, <4>4, <1>2
    <3> QED BY <3>1, <3>2
  <2> QED BY <2>1
<1>4. States \subseteq S
  <2> HIDE DEF S
  <2> QED BY <1>3, TreeInduction
<1>5. ASSUME s \in AncestorsAndSelf(Parent[s]) PROVE FALSE
  <2>1. Parent[s] # NULL
    BY <1>5, AncestorsUp
  <2>2. Parent[s] \in States
    BY <2>1, ParentTyped DEF Points
  <2>3. depth[s] <= depth[Parent[s]]
    BY <1>4, <1>5, <2>2
  <2>4. depth[s] = depth[Parent[s]] + 1
    BY <1>1, <2>1 DEF IsDepth
  <2> QED BY <2>2, <2>3, <2>4, <1>2
<1> QED
  BY <1>5

\* The last state of a path is a child of where the path ends, and the rest
\* is the path to that child.
LEMMA PathDown ==
  ASSUME NEW t \in States, NEW u \in AncestorsAndSelf(t) \cup {NULL}, u # t
  PROVE  \E v \in AncestorsAndSelf(t) :
           Parent[v] = u /\ Path(t, u) = Append(Path(t, v), v)
<1> DEFINE Down(r, w) == \E v \in AncestorsAndSelf(r) :
                           Parent[v] = w /\ Path(r, w) = Append(Path(r, v), v)
           S == {r \in States : \A w \in AncestorsAndSelf(r) \cup {NULL} :
                                  w # r => Down(r, w)}
<1>1. ASSUME NEW r \in States, Parent[r] = NULL \/ Parent[r] \in S
      PROVE  r \in S
  <2> SUFFICES ASSUME NEW w \in AncestorsAndSelf(r) \cup {NULL}, w # r
               PROVE  Down(r, w)
    OBVIOUS
  <2> DEFINE p == Parent[r]
  <2>1. /\ r \in Points /\ r # NULL /\ p \in Points
        /\ AncestorsAndSelf(r) = {r} \cup AncestorsAndSelf(p)
    BY ParentTyped, AncestorsUp DEF Points
  <2>2. Path(r, w) = <<r>> \o Path(p, w)
    BY <2>1, PathUp
  <2>3. CASE p = w
    <3>1. Path(p, w) = <<>> /\ Path(r, r) = <<>>
      BY <2>1, <2>3, PathUp
    <3>2. Path(r, w) = Append(Path(r, r), r)
      BY <2>2, <3>1
    <3> QED BY <2>1, <2>3, <3>2
  <2>4. CASE p # w
    <3>1. p # NULL
      BY <2>1, <2>4, AncestorsUp
    <3>2. p \in S /\ w \in AncestorsAndSelf(p) \cup {NULL}
      BY <1>1, <2>1, <3>1
    <3>3. Down(p, w)
      BY <2>4, <3>2
    <3>4. PICK v \in AncestorsAndSelf(p) :
            Parent[v] = w /\ Path(p, w) = Append(Path(p, v), v)
      BY <3>3
    <3>5. v # r /\ v \in AncestorsAndSelf(r) /\ v \in States
      BY <2>1, NoCycle, AncestorsUp
    <3>6. Path(r, v) = <<r>> \o Path(p, v)
      BY <2>1, <3>5, PathUp
    <3>7. Path(p, v) \in Seq(States)
      BY <2>1, PathTyped
    <3>8. <<r>> \o Append(Path(p, v), v) = Append(<<r>> \o Path(p, v), v)
      <4> DEFINE q == Path(p, v)
      <4>1. q \in Seq(States)
        BY <3>7
      <4> HIDE DEF q
      <4>2. <<r>> \o Append(q, v) = Append(<<r>> \o q, v)
        BY <4>1, <3>5
      <4> QED BY <4>2 DEF q
    <3>9. Path(r, w) = Append(Path(r, v), v)
      BY <2>2, <3>4, <3>6, <3>8
    <3> QED BY <3>4, <3>5, <3>9
  <2> QED BY <2>3, <2>4
<1>2. States \subseteq S
  <2> HIDE DEF S
  <2> QED BY <1>1, TreeInduction
<1> QED
  BY <1>2

-----------------------------------------------------------------------------
(* The list of events. *)

HeapTyped(h) ==
  /\ DOMAIN h \subseteq Nodes
  /\ h \in [DOMAIN h -> [type : Types, next : Ptr]]

\* The events of s wait, linked from first to last; the one in hand, e, is
\* allocated too, and no other.
IsList(h, first, last, e, s) ==
  /\ HeapTyped(h)
  /\ Linked(h, first, s)
  /\ DOMAIN h = ToSet(s) \cup ({e} \ {NULL})
  /\ e \notin ToSet(s)
  /\ last = IF s = <<>> THEN NULL ELSE Last(s)

\* The types of the events that wait, and of the one in hand with them.
TypesIn(h, s) == [i \in 1 .. Len(s) |-> h[s[i]].type]

TypesOf(h, e, s) ==
  (IF e = NULL THEN <<>> ELSE <<h[e].type>>) \o TypesIn(h, s)

\* The heap after fsm_queue_push.
Pushed(h, first, last, n, new) ==
  [m \in DOMAIN h \cup {n} |->
     IF m = n THEN new
     ELSE IF first # NULL /\ m = last THEN [h[m] EXCEPT !.next = n]
     ELSE h[m]]

LEMMA ListTyped ==
  ASSUME NEW h, NEW first, NEW last, NEW e, NEW s, IsList(h, first, last, e, s)
  PROVE  /\ s \in Seq(DOMAIN h) /\ s \in Seq(Nodes) /\ Len(s) \in Nat
         /\ Pointers(h)
         /\ \A i \in 1 .. Len(s) : s[i] \in DOMAIN h /\ s[i] \in ToSet(s) /\ s[i] # NULL
         /\ first = NULL <=> s = <<>>
         /\ s # <<>> => /\ Len(s) \in 1 .. Len(s) /\ last = s[Len(s)]
                        /\ first = s[1] /\ first \in DOMAIN h
<1>1. s \in Seq(DOMAIN h) /\ DOMAIN h \subseteq Nodes
  BY DEF IsList, Linked, HeapTyped
<1>2. s \in Seq(Nodes) /\ Len(s) \in Nat
  BY <1>1
<1>3. Pointers(h)
  BY DEF IsList, HeapTyped, Pointers
<1>4. ASSUME NEW i \in 1 .. Len(s)
      PROVE  s[i] \in DOMAIN h /\ s[i] \in ToSet(s) /\ s[i] # NULL
  BY <1>1, NodesAssumption DEF ToSet
<1>5. first = NULL <=> s = <<>>
  BY <1>1, <1>4 DEF IsList, Linked
<1>6. ASSUME s # <<>>
      PROVE  /\ Len(s) \in 1 .. Len(s) /\ last = s[Len(s)]
             /\ first = s[1] /\ first \in DOMAIN h
  BY <1>1, <1>6 DEF IsList, Linked, Last
<1> QED
  BY <1>1, <1>2, <1>3, <1>4, <1>5, <1>6

\* The list is the one the model walks through.
LEMMA WaitingIs ==
  ASSUME NEW h, NEW first, NEW last, NEW e, NEW s, IsList(h, first, last, e, s)
  PROVE  ChainOf(h, first) = s /\ DOMAIN s = 1 .. Len(s)
<1>1. ChainOf(h, first) = s
  BY ChainIs, ListTyped DEF IsList
<1>2. DOMAIN s = 1 .. Len(s)
  BY ListTyped
<1> QED
  BY <1>1, <1>2

\* fsm_queue_push puts an event behind the others and touches no other.
LEMMA PushLinks ==
  ASSUME NEW h, NEW first, NEW last, NEW e, NEW s, IsList(h, first, last, e, s),
         NEW n \in Nodes, n \notin DOMAIN h, NEW type \in Types,
         NEW g, g = Pushed(h, first, last, n, [type |-> type, next |-> NULL]),
         NEW start, start = IF first = NULL THEN n ELSE first
  PROVE  /\ IsList(g, start, n, e, Append(s, n))
         /\ g[n].type = type
         /\ \A m \in DOMAIN h : g[m].type = h[m].type
<1> DEFINE t == Append(s, n)
           l == Len(s)
<1>1. /\ s \in Seq(DOMAIN h) /\ s \in Seq(Nodes) /\ l \in Nat
      /\ \A i \in 1 .. l : s[i] \in DOMAIN h /\ s[i] \in ToSet(s)
      /\ first = NULL <=> s = <<>>
      /\ s # <<>> => l \in 1 .. l /\ last = s[l] /\ first = s[1]
      /\ s = <<>> <=> l = 0
  BY ListTyped
<1>2. /\ t \in Seq(Nodes) /\ Len(t) = l + 1 /\ t[l + 1] = n /\ t # <<>>
      /\ \A i \in 1 .. l : t[i] = s[i]
      /\ DOMAIN t = 1 .. l + 1 /\ DOMAIN s = 1 .. l
  BY <1>1
<1>3. /\ DOMAIN g = DOMAIN h \cup {n}
      /\ g[n] = [type |-> type, next |-> NULL]
      /\ \A m \in DOMAIN h : /\ m # n
                             /\ g[m].type = h[m].type
                             /\ g[m].next = IF s # <<>> /\ m = last THEN n
                                            ELSE h[m].next
                             /\ g[m] \in [type : Types, next : Ptr]
  BY <1>1 DEF Pushed, IsList, HeapTyped, Ptr
<1>4. HeapTyped(g)
  <2>1. g[n] \in [type : Types, next : Ptr]
    BY <1>3 DEF Ptr
  <2>2. g = [m \in DOMAIN g |-> g[m]]
    BY DEF Pushed
  <2>3. \A m \in DOMAIN g : g[m] \in [type : Types, next : Ptr]
    BY <1>3, <2>1
  <2>4. DOMAIN g \subseteq Nodes
    BY <1>3 DEF IsList, HeapTyped
  <2> QED BY <2>2, <2>3, <2>4 DEF HeapTyped
<1> HIDE DEF t, l
<1>5. ToSet(t) = ToSet(s) \cup {n}
  <2>1. ToSet(t) \subseteq ToSet(s) \cup {n}
    <3>1. ASSUME NEW i \in 1 .. l + 1 PROVE t[i] \in ToSet(s) \cup {n}
      <4>1. i = l + 1 \/ i \in 1 .. l
        BY <1>1
      <4> QED BY <1>1, <1>2, <4>1
    <3> QED BY <1>2, <3>1 DEF ToSet
  <2>2. ToSet(s) \subseteq ToSet(t)
    BY <1>1, <1>2 DEF ToSet
  <2>3. n \in ToSet(t)
    <3>1. l + 1 \in DOMAIN t
      BY <1>1, <1>2
    <3> QED BY <1>2, <3>1 DEF ToSet
  <2> QED BY <2>1, <2>2, <2>3
<1>6. \A i, j \in 1 .. Len(t) : t[i] = t[j] => i = j
  <2>1. \A i, j \in 1 .. l : s[i] = s[j] => i = j
    BY DEF IsList, Linked, l
  <2>2. \A i \in 1 .. Len(t) : i = l + 1 \/ i \in 1 .. l
    BY <1>1, <1>2
  <2>3. \A i \in 1 .. l : s[i] # n
    BY <1>1
  <2> QED BY <1>1, <1>2, <2>1, <2>2, <2>3
<1>7. start = t[1]
  <2>1. CASE s = <<>>
    BY <1>1, <1>2, <2>1
  <2>2. CASE s # <<>>
    <3>1. 1 \in 1 .. l
      BY <1>1, <2>2
    <3> QED BY <1>1, <1>2, <2>2, <3>1
  <2> QED BY <2>1, <2>2
<1>8. ASSUME NEW i \in 1 .. Len(t)
      PROVE  g[t[i]].next = IF i = Len(t) THEN NULL ELSE t[i + 1]
  <2>1. CASE i = l + 1
    BY <1>2, <1>3, <2>1
  <2>2. CASE i = l /\ i # l + 1
    <3>1. i \in 1 .. l /\ s # <<>> /\ s[i] = last /\ s[i] \in DOMAIN h
      BY <1>1, <1>2, <2>2
    <3>2. g[s[i]].next = n
      BY <1>3, <3>1
    <3> QED BY <1>1, <1>2, <2>2, <3>1, <3>2
  <2>3. CASE i # l /\ i # l + 1
    <3>1. i \in 1 .. l /\ i + 1 \in 1 .. l /\ l \in 1 .. l /\ s # <<>>
      BY <1>1, <1>2, <2>3
    <3>2. s[i] # last
      BY <1>1, <2>3, <3>1 DEF IsList, Linked, l
    <3>3. h[s[i]].next = s[i + 1]
      BY <2>3, <3>1 DEF IsList, Linked, l
    <3>4. g[s[i]].next = s[i + 1]
      BY <1>1, <1>3, <3>1, <3>2, <3>3
    <3>5. i # Len(t) /\ t[i + 1] = s[i + 1] /\ t[i] = s[i]
      BY <1>2, <2>3, <3>1
    <3> QED BY <3>4, <3>5
  <2> QED BY <2>1, <2>2, <2>3
<1>9. t \in Seq(DOMAIN g)
  <2>1. \A i \in 1 .. Len(t) : t[i] \in DOMAIN g
    BY <1>1, <1>2, <1>3
  <2> QED BY <1>2, <2>1
<1>10. Linked(g, start, t)
  BY <1>2, <1>6, <1>7, <1>8, <1>9 DEF Linked
<1>11. DOMAIN g = ToSet(t) \cup ({e} \ {NULL})
  BY <1>3, <1>5 DEF IsList
<1>12. e \notin ToSet(t)
  BY <1>5, NodesAssumption DEF IsList
<1>13. n = Last(t)
  BY <1>2 DEF Last
<1> QED
  BY <1>2, <1>3, <1>4, <1>10, <1>11, <1>12, <1>13 DEF IsList, t

\* fsm_queue_pop takes the first event.
LEMMA TakeLinks ==
  ASSUME NEW h, NEW first, NEW last, NEW s, IsList(h, first, last, NULL, s),
         first # NULL, NEW g, g = [h EXCEPT ![first].next = NULL],
         NEW end, end = IF h[first].next = NULL THEN NULL ELSE last
  PROVE  /\ IsList(g, h[first].next, end, first, Tail(s))
         /\ s # <<>> /\ first = s[1] /\ first \in DOMAIN h
         /\ \A m \in DOMAIN h : g[m].type = h[m].type
<1> DEFINE t == Tail(s)
           l == Len(s)
<1>1. /\ s \in Seq(DOMAIN h) /\ s \in Seq(Nodes) /\ l \in Nat /\ s # <<>>
      /\ l \in 1 .. l /\ last = s[l] /\ first = s[1] /\ first \in DOMAIN h
      /\ DOMAIN h = ToSet(s)
  BY ListTyped DEF IsList
<1>2. /\ Linked(h, h[first].next, t)
      /\ first \notin ToSet(t)
      /\ ToSet(s) = {first} \cup ToSet(t)
  BY <1>1, LinkedTail DEF IsList
<1>3. /\ DOMAIN g = DOMAIN h
      /\ \A m \in DOMAIN h : g[m].type = h[m].type
      /\ \A m \in ToSet(t) : m \in DOMAIN g /\ g[m] = h[m]
  BY <1>1, <1>2 DEF IsList, HeapTyped
<1>4. HeapTyped(g)
  BY <1>1 DEF IsList, HeapTyped, Ptr
<1>5. Linked(g, h[first].next, t)
  BY <1>2, <1>3, LinkedElsewhere
<1>6. end = IF t = <<>> THEN NULL ELSE Last(t)
  <2>1. Len(t) = l - 1 /\ (t = <<>> <=> l = 1) /\ \A i \in 1 .. l - 1 : t[i] = s[i + 1]
    <3>1. t \in Seq(DOMAIN h) /\ Len(t) = l - 1
      BY <1>1
    <3>2. \A i \in 1 .. l - 1 : t[i] = s[i + 1]
      BY <1>1
    <3> HIDE DEF t, l
    <3>3. t = <<>> <=> l = 1
      BY <1>1, <3>1
    <3> QED BY <3>1, <3>2, <3>3
  <2>2. \A i \in 1 .. l : h[s[i]].next = IF i = l THEN NULL ELSE s[i + 1]
    BY DEF IsList, Linked
  <2>3. CASE l = 1
    BY <1>1, <2>1, <2>2, <2>3
  <2>4. CASE l # 1
    <3>1. 1 \in 1 .. l /\ 2 \in 1 .. l /\ l - 1 \in 1 .. l - 1
      <4> HIDE DEF l
      <4> QED BY <1>1, <2>4
    <3>2. h[first].next = s[2] /\ s[2] # NULL
      <4>1. h[s[1]].next = IF 1 = l THEN NULL ELSE s[1 + 1]
        BY <2>2, <3>1
      <4>2. s[2] \in Nodes
        BY <1>1, <3>1
      <4> QED BY <1>1, <2>4, <4>1, <4>2, NodesAssumption
    <3>3. t[l - 1] = s[l]
      <4>1. t[l - 1] = s[(l - 1) + 1]
        BY <2>1, <3>1
      <4>2. (l - 1) + 1 = l
        BY <1>1
      <4> QED BY <4>1, <4>2
    <3> HIDE DEF t, l
    <3> QED BY <1>1, <2>1, <2>4, <3>2, <3>3 DEF Last
  <2> QED BY <2>3, <2>4
<1>7. first # NULL /\ DOMAIN g = ToSet(t) \cup ({first} \ {NULL})
  BY <1>1, <1>2, <1>3
<1> HIDE DEF t
<1> QED
  BY <1>1, <1>2, <1>3, <1>4, <1>5, <1>6, <1>7 DEF IsList, t

\* fsm_event_destroy releases the event in hand.
LEMMA FreeLinks ==
  ASSUME NEW h, NEW first, NEW last, NEW e, NEW s, IsList(h, first, last, e, s),
         NEW g, g = [n \in DOMAIN h \ {e} |-> h[n]]
  PROVE  /\ IsList(g, first, last, NULL, s)
         /\ \A i \in 1 .. Len(s) : g[s[i]].type = h[s[i]].type
<1>1. DOMAIN g = ToSet(s) /\ \A n \in ToSet(s) : n \in DOMAIN g /\ g[n] = h[n]
  BY DEF IsList
<1>2. HeapTyped(g)
  BY DEF IsList, HeapTyped
<1>3. Linked(g, first, s)
  BY <1>1, LinkedElsewhere DEF IsList
<1>4. NULL \notin ToSet(s)
  BY <1>1, <1>2, NodesAssumption DEF HeapTyped
<1>5. \A i \in 1 .. Len(s) : s[i] \in ToSet(s)
  BY ListTyped
<1> QED
  BY <1>1, <1>2, <1>3, <1>4, <1>5 DEF IsList

\* What is pending grows at its end by a push, ...
LEMMA TypesAppend ==
  ASSUME NEW h, NEW first, NEW last, NEW e, NEW s, IsList(h, first, last, e, s),
         NEW g, NEW n, NEW type, g[n].type = type,
         \A m \in DOMAIN h : g[m].type = h[m].type
  PROVE  /\ TypesOf(g, e, Append(s, n)) = Append(TypesOf(h, e, s), type)
         /\ e # NULL => g[e].type = h[e].type
<1> DEFINE t == Append(s, n)
           l == Len(s)
           before == [i \in 1 .. l |-> h[s[i]].type]
           after == [i \in 1 .. Len(t) |-> g[t[i]].type]
           hand == IF e = NULL THEN <<>> ELSE <<h[e].type>>
<1>1. l \in Nat /\ s \in Seq(Nodes) /\ \A i \in 1 .. l : s[i] \in DOMAIN h
  BY ListTyped
<1>2. /\ Len(t) = l + 1 /\ t[l + 1] = n
      /\ \A i \in 1 .. l : t[i] = s[i]
  BY <1>1
<1> HIDE DEF t, l
<1>3. e # NULL => g[e].type = h[e].type
  BY DEF IsList
<1>4. after = Append(before, type)
  <2>1. before \in Seq({before[i] : i \in 1 .. l} \cup {type}) /\ Len(before) = l
    BY <1>1
  <2>2. \A i \in 1 .. l + 1 : after[i] = IF i = l + 1 THEN type ELSE before[i]
    BY <1>1, <1>2
  <2>3. after = [i \in 1 .. l + 1 |-> IF i = l + 1 THEN type ELSE before[i]]
    <3>1. after = [i \in 1 .. l + 1 |-> after[i]]
      BY <1>2
    <3> HIDE DEF after, before
    <3> QED BY <2>2, <3>1
  <2> HIDE DEF after, before
  <2>4. Append(before, type) = [i \in 1 .. l + 1 |-> IF i = l + 1 THEN type ELSE before[i]]
    <3> DEFINE V == {before[i] : i \in 1 .. l} \cup {type}
    <3>1. before \in Seq(V) /\ type \in V
      BY <2>1
    <3> HIDE DEF V
    <3> DEFINE A == Append(before, type)
    <3>2. /\ A \in Seq(V) /\ Len(A) = l + 1
          /\ \A i \in 1 .. l + 1 : A[i] = IF i = l + 1 THEN type ELSE before[i]
      BY <1>1, <2>1, <3>1
    <3> HIDE DEF A
    <3>3. A = [i \in 1 .. l + 1 |-> A[i]]
      BY <3>2
    <3> QED BY <3>2, <3>3 DEF A
  <2> QED BY <2>3, <2>4
<1>5. hand \o Append(before, type) = Append(hand \o before, type)
  <2> DEFINE V == {before[i] : i \in 1 .. l} \cup {type, h[e].type}
  <2>1. before \in Seq(V) /\ hand \in Seq(V) /\ type \in V
    <3>1. before \in Seq(V)
      BY <1>1
    <3>2. type \in V /\ h[e].type \in V
      OBVIOUS
    <3> HIDE DEF before, V
    <3>3. hand \in Seq(V)
      BY <3>2
    <3> QED BY <3>1, <3>2, <3>3
  <2> HIDE DEF before, hand, V
  <2> QED BY <2>1
<1>6. TypesOf(h, e, s) = hand \o before
  BY DEF TypesOf, TypesIn, l
<1>7. TypesOf(g, e, t) = hand \o after
  BY <1>3 DEF TypesOf, TypesIn
<1> HIDE DEF hand, before, after
<1> QED
  BY <1>3, <1>4, <1>5, <1>6, <1>7 DEF t

\* ... does not change when the first event is taken, ...
LEMMA TypesTaken ==
  ASSUME NEW h, NEW first, NEW last, NEW s, IsList(h, first, last, NULL, s),
         first # NULL, NEW g, \A m \in DOMAIN h : g[m].type = h[m].type
  PROVE  TypesOf(g, first, Tail(s)) = TypesOf(h, NULL, s)
<1> DEFINE t == Tail(s)
           l == Len(s)
           before == [i \in 1 .. l |-> h[s[i]].type]
           after == [i \in 1 .. Len(t) |-> g[t[i]].type]
<1>1. /\ l \in Nat /\ s \in Seq(Nodes) /\ s # <<>> /\ first = s[1]
      /\ \A i \in 1 .. l : s[i] \in DOMAIN h
  BY ListTyped
<1>2. Len(t) = l - 1 /\ \A i \in 1 .. l - 1 : t[i] = s[i + 1]
  BY <1>1
<1>3. l # 0
  BY <1>1
<1> HIDE DEF t, l
<1>4. after = [i \in 1 .. l - 1 |-> before[i + 1]]
  <2>1. ASSUME NEW i \in 1 .. l - 1 PROVE g[t[i]].type = before[i + 1]
    <3>1. i + 1 \in 1 .. l
      BY <1>1
    <3> QED BY <1>1, <1>2, <3>1
  <2> HIDE DEF before
  <2> QED BY <1>2, <2>1
<1>5. <<g[first].type>> = <<before[1]>>
  <2>1. 1 \in 1 .. l
    BY <1>1, <1>3
  <2> QED BY <1>1, <2>1
<1>6. <<before[1]>> \o [i \in 1 .. l - 1 |-> before[i + 1]] = before
  <2> DEFINE V == {before[i] : i \in 1 .. l}
  <2>1. before \in Seq(V) /\ Len(before) = l
    BY <1>1
  <2> HIDE DEF before
  <2> HIDE DEF V
  <2>2. [i \in 1 .. l - 1 |-> before[i + 1]] = Tail(before)
    <3> DEFINE T == Tail(before)
    <3>1. /\ T \in Seq(V) /\ Len(T) = l - 1
          /\ \A i \in 1 .. l - 1 : T[i] = before[i + 1]
      BY <1>1, <1>3, <2>1
    <3> HIDE DEF T
    <3>2. T = [i \in 1 .. l - 1 |-> T[i]]
      BY <3>1
    <3> QED BY <3>1, <3>2 DEF T
  <2>3. <<before[1]>> \o Tail(before) = before
    BY <1>1, <1>3, <2>1
  <2> QED BY <2>2, <2>3
<1>7. TypesOf(h, NULL, s) = <<>> \o before
  BY DEF TypesOf, TypesIn, l
<1>8. <<>> \o before = before
  <2> DEFINE V == {before[i] : i \in 1 .. l}
  <2>1. before \in Seq(V)
    BY <1>1
  <2> HIDE DEF before
  <2> QED BY <2>1
<1>9. TypesOf(g, first, t) = <<g[first].type>> \o after
  BY DEF TypesOf, TypesIn
<1> HIDE DEF before, after
<1> QED
  BY <1>4, <1>5, <1>6, <1>7, <1>8, <1>9 DEF t

\* ... and loses its first when the event in hand is released.
LEMMA TypesSplit ==
  ASSUME NEW h, NEW first, NEW last, NEW e, NEW s, IsList(h, first, last, e, s),
         e # NULL
  PROVE  /\ TypesOf(h, e, s) # <<>>
         /\ Head(TypesOf(h, e, s)) = h[e].type
         /\ Tail(TypesOf(h, e, s)) = TypesIn(h, s)
<1> DEFINE l == Len(s)
           rest == [i \in 1 .. l |-> h[s[i]].type]
           x == h[e].type
           V == {rest[i] : i \in 1 .. l} \cup {x}
<1>1. rest \in Seq(V) /\ x \in V
  BY ListTyped
<1>2. TypesOf(h, e, s) = <<x>> \o rest
  BY DEF TypesOf, TypesIn
<1> HIDE DEF rest, V, x
<1>3. Len(<<x>> \o rest) = Len(rest) + 1 /\ Len(rest) \in Nat
  BY <1>1
<1>4. Head(<<x>> \o rest) = x /\ Tail(<<x>> \o rest) = rest
  BY <1>1
<1>5. <<x>> \o rest # <<>>
  BY <1>3
<1> QED
  BY <1>2, <1>4, <1>5 DEF x, rest, TypesIn

LEMMA TypesFreed ==
  ASSUME NEW h, NEW first, NEW last, NEW s, IsList(h, first, last, NULL, s)
  PROVE  TypesOf(h, NULL, s) = TypesIn(h, s)
<1> DEFINE l == Len(s)
           rest == [i \in 1 .. l |-> h[s[i]].type]
           V == {rest[i] : i \in 1 .. l}
<1>1. rest \in Seq(V)
  BY ListTyped
<1>2. TypesOf(h, NULL, s) = <<>> \o rest
  BY DEF TypesOf, TypesIn
<1> HIDE DEF rest, V
<1>3. <<>> \o rest = rest
  BY <1>1
<1> QED
  BY <1>2, <1>3 DEF rest, TypesIn

-----------------------------------------------------------------------------
(* The inductive invariant. *)

Idle       == {"raw", "main", "pop", "take"}
Transition == {"exit", "action", "enter"}

\* Where fsm_run is, and what it has in hand there.  The look at queue_head
\* without the mutex is good for what follows: only fsm_run takes events out.
Control ==
  /\ pc \in Idle \cup {"match"} \cup Transition
  /\ current_state \in Points
  /\ pc = "raw" <=> current_state = NULL
  /\ event = NULL <=> pc \in Idle
  /\ pc = "raw" => queue_head = NULL /\ heap = [n \in {} |-> NULL]
  /\ pc = "take" => queue_head # NULL

\* In a transition the row is the first one that fits the event in hand,
\* whatever has been dispatched since it was found.
RowFits ==
  pc \in Transition =>
    /\ row \in DOMAIN Table
    /\ Fits(row)
    /\ \A j \in DOMAIN Table : Fits(j) => row <= j

\* The events are one list.
ListInv == \E s : IsList(heap, queue_head, queue_tail, event, s)

\* Exactly u and its ancestors have been entered and not left; where u is, in
\* a transition.
Reached(u) ==
  /\ entered = [s \in States |-> IF s \in AncestorsAndSelf(u) THEN 1 ELSE 0]
  /\ pc \in Idle \cup {"match"} => u = current_state
  /\ pc = "exit" => u = cursor /\ ExitTarget(Table[row].to) \in {NULL, cursor}
  /\ pc = "action" => u = cursor /\ u = ExitTarget(Table[row].to)
  /\ pc = "enter" => /\ u \in AncestorsAndSelf(Table[row].to) \cup {NULL}
                     /\ stack = Path(Table[row].to, u)

Entries == \E u \in Points : Reached(u)

EngineInv == Control /\ RowFits /\ ListInv /\ Entries

LEMMA TableTyped ==
  /\ DOMAIN Table \subseteq Nat
  /\ \A i \in DOMAIN Table : /\ Table[i].from \in States
                             /\ Table[i].to \in States
                             /\ Table[i].event \in Types
<1> DEFINE R == [from : States, event : Types, to : States]
<1>1. Table \in Seq(R)
  BY TableAssumption
<1>2. DOMAIN Table \subseteq Nat /\ \A i \in DOMAIN Table : Table[i] \in R
  <2> HIDE DEF R
  <2> QED BY <1>1
<1> QED
  BY <1>2

LEMMA EngineInit == Init => EngineInv
<1> SUFFICES ASSUME Init PROVE EngineInv
  OBVIOUS
<1>1. Control /\ RowFits
  BY DEF Init, Control, RowFits, Idle, Transition, Points
<1>2. IsList(heap, queue_head, queue_tail, event, <<>>)
  BY DEF Init, IsList, HeapTyped, Linked, ToSet
<1>3. Reached(NULL) /\ NULL \in Points
  BY AncestorsUp DEF Init, Reached, Idle, Points
<1> QED
  BY <1>1, <1>2, <1>3 DEF EngineInv, ListInv, Entries

\* What a dispatch does to the list and to what is pending.
LEMMA DispatchLinks ==
  ASSUME NEW s, IsList(heap, queue_head, queue_tail, event, s),
         NEW type \in Types, fsm_dispatch(type)
  PROVE  \E z : /\ IsList(heap', queue_head', queue_tail', event, z)
                /\ TypesOf(heap', event, z) = Append(TypesOf(heap, event, s), type)
                /\ event # NULL => heap'[event].type = heap[event].type
<1>1. PICK n \in Nodes \ DOMAIN heap : fsm_queue_push(n, type)
  BY DEF fsm_dispatch
<1>2. /\ heap' = Pushed(heap, queue_head, queue_tail, n, [type |-> type, next |-> NULL])
      /\ queue_head' = IF queue_head = NULL THEN n ELSE queue_head
      /\ queue_tail' = n
  BY <1>1 DEF fsm_queue_push, Pushed
<1>3. /\ IsList(heap', queue_head', queue_tail', event, Append(s, n))
      /\ heap'[n].type = type
      /\ \A m \in DOMAIN heap : heap'[m].type = heap[m].type
  BY <1>2, PushLinks
<1>4. /\ TypesOf(heap', event, Append(s, n)) = Append(TypesOf(heap, event, s), type)
      /\ event # NULL => heap'[event].type = heap[event].type
  BY <1>3, TypesAppend
<1> QED
  BY <1>3, <1>4

\* Nothing else is pending, or one event more.
Grown(before, after) ==
  after = before \/ \E type \in Types : after = Append(before, type)

LEMMA HandlerLinks ==
  ASSUME NEW s, IsList(heap, queue_head, queue_tail, event, s), Handler
  PROVE  \E z : /\ IsList(heap', queue_head', queue_tail', event, z)
                /\ Grown(TypesOf(heap, event, s), TypesOf(heap', event, z))
                /\ event # NULL => heap'[event].type = heap[event].type
<1>1. CASE UNCHANGED queue
  BY <1>1 DEF queue, Grown
<1>2. CASE \E e \in Types : fsm_dispatch(e)
  BY <1>2, DispatchLinks DEF Grown
<1> QED
  BY <1>1, <1>2 DEF Handler

LEMMA RowKept ==
  ASSUME RowFits, pc \in Transition, UNCHANGED <<row, current_state, event>>,
         heap'[event].type = heap[event].type
  PROVE  RowFits'
  BY DEF RowFits, Fits

LEMMA EntriesKept ==
  ASSUME Entries, UNCHANGED <<entered, current_state, cursor, stack, row>>,
         \/ UNCHANGED pc
         \/ pc \in Idle \cup {"match"} /\ pc' \in Idle \cup {"match"}
  PROVE  Entries'
<1>1. PICK u \in Points : Reached(u)
  BY DEF Entries
<1>2. Reached(u)'
  BY <1>1 DEF Reached, ExitTarget, Idle
<1> QED
  BY <1>1, <1>2 DEF Entries

-----------------------------------------------------------------------------
(* The steps.  Each keeps the invariant, and what it does to the pending   *)
(* events is told in terms of the list before and the list after.          *)

\* fsm_init: the list may have got its first event.
LEMMA InitStep ==
  ASSUME EngineInv, fsm_init
  PROVE  EngineInv'
<1>1. PICK r \in States : /\ Parent[r] = NULL
                          /\ current_state' = r
                          /\ entered' = [entered EXCEPT ![r] = @ + 1]
  BY DEF fsm_init
<1>2. pc = "raw" /\ pc' = "main" /\ Handler /\ UNCHANGED <<event, row, cursor, stack>>
  BY DEF fsm_init
<1>3. current_state = NULL /\ event = NULL
  BY <1>2 DEF EngineInv, Control, Idle
<1>4. Control'
  BY <1>1, <1>2, <1>3, ParentTyped DEF Control, Idle, Transition, Points
<1>5. RowFits'
  BY <1>2 DEF RowFits, Transition
<1>6. ListInv'
  <2>1. PICK s : IsList(heap, queue_head, queue_tail, event, s)
    BY DEF EngineInv, ListInv
  <2>2. \E z : IsList(heap', queue_head', queue_tail', event, z)
    BY <1>2, <2>1, HandlerLinks
  <2> QED BY <1>2, <2>2 DEF ListInv
<1>7. Entries'
  <2>1. entered = [s \in States |-> 0]
    BY <1>2, <1>3, AncestorsUp DEF EngineInv, Entries, Reached, Idle
  <2>2. AncestorsAndSelf(r) = {r}
    BY <1>1, AncestorsUp
  <2>3. entered' = [s \in States |-> IF s \in AncestorsAndSelf(r) THEN 1 ELSE 0]
    BY <1>1, <2>1, <2>2
  <2>4. Reached(r)'
    BY <1>1, <1>2, <2>3 DEF Reached, Idle
  <2> QED BY <2>4 DEF Entries, Points
<1> QED
  BY <1>4, <1>5, <1>6, <1>7 DEF EngineInv

\* A dispatch by another thread.
LEMMA DispatchStep ==
  ASSUME EngineInv, Dispatch
  PROVE  EngineInv'
<1>1. /\ pc # "raw"
      /\ UNCHANGED <<fsm_running, current_state, event, row, cursor, stack, pc, entered>>
  BY DEF Dispatch
<1>2. PICK e \in Types : fsm_dispatch(e)
  BY DEF Dispatch
<1>3. PICK s : IsList(heap, queue_head, queue_tail, event, s)
  BY DEF EngineInv, ListInv
<1>4. PICK z : /\ IsList(heap', queue_head', queue_tail', event, z)
               /\ event # NULL => heap'[event].type = heap[event].type
  BY <1>2, <1>3, DispatchLinks
<1>5. queue_head' # NULL
  <2>1. PICK n \in Nodes \ DOMAIN heap : fsm_queue_push(n, e)
    BY <1>2 DEF fsm_dispatch
  <2> QED BY <2>1, NodesAssumption DEF fsm_queue_push
<1>6. Control'
  BY <1>1, <1>5 DEF EngineInv, Control
<1>7. RowFits'
  <2>1. CASE pc \in Transition
    <3>1. event # NULL
      BY <2>1 DEF EngineInv, Control, Idle, Transition
    <3> QED BY <1>1, <1>4, <2>1, <3>1, RowKept DEF EngineInv
  <2>2. CASE pc \notin Transition
    BY <1>1, <2>2 DEF RowFits
  <2> QED BY <2>1, <2>2
<1>8. Entries'
  BY <1>1, EntriesKept DEF EngineInv
<1> QED
  BY <1>1, <1>4, <1>6, <1>7, <1>8 DEF EngineInv, ListInv

\* The main loop calls fsm_run, and fsm_run looks at queue_head.
LEMMA LookStep ==
  ASSUME EngineInv, fsm_run \/ PopLooks
  PROVE  EngineInv'
<1>1. /\ UNCHANGED <<current_state, event, row, cursor, stack, entered>>
      /\ UNCHANGED <<queue_head, queue_tail, heap>>
      /\ pc \in {"main", "pop"}
      /\ pc' \in {"main", "pop", "take"}
      /\ pc' = "take" => queue_head # NULL
  BY DEF fsm_run, PopLooks, queue
<1>2. Control'
  BY <1>1 DEF EngineInv, Control, Idle, Transition
<1>3. RowFits'
  BY <1>1 DEF RowFits, Transition
<1>4. ListInv'
  BY <1>1 DEF EngineInv, ListInv
<1>5. Entries'
  BY <1>1, EntriesKept DEF EngineInv, Idle
<1> QED
  BY <1>2, <1>3, <1>4, <1>5 DEF EngineInv

\* The first event comes into the hand of fsm_run.
LEMMA TakeStep ==
  ASSUME EngineInv, PopTakes
  PROVE  EngineInv'
<1>1. /\ pc = "take" /\ pc' = "match" /\ event' = queue_head
      /\ queue_head' = heap[queue_head].next
      /\ queue_tail' = IF heap[queue_head].next = NULL THEN NULL ELSE queue_tail
      /\ heap' = [heap EXCEPT ![queue_head].next = NULL]
      /\ UNCHANGED <<current_state, row, cursor, stack, entered>>
  BY DEF PopTakes, TailAfterPop
<1>2. event = NULL /\ queue_head # NULL
  BY <1>1 DEF EngineInv, Control, Idle
<1>3. Control'
  BY <1>1, <1>2 DEF EngineInv, Control, Idle, Transition
<1>4. RowFits'
  BY <1>1 DEF RowFits, Transition
<1>5. ListInv'
  <2>1. PICK s : IsList(heap, queue_head, queue_tail, event, s)
    BY DEF EngineInv, ListInv
  <2>2. IsList(heap', queue_head', queue_tail', event', Tail(s))
    BY <1>1, <1>2, <2>1, TakeLinks
  <2> QED BY <2>2 DEF ListInv
<1>6. Entries'
  BY <1>1, EntriesKept DEF EngineInv, Idle
<1> QED
  BY <1>3, <1>4, <1>5, <1>6 DEF EngineInv

\* The search of the table stops at the first row that fits.
LEMMA FirstRowFits ==
  ASSUME \E i \in DOMAIN Table : Fits(i)
  PROVE  /\ FirstRow \in DOMAIN Table
         /\ Fits(FirstRow)
         /\ \A j \in DOMAIN Table : Fits(j) => FirstRow <= j
<1> DEFINE T == {i \in DOMAIN Table : Fits(i)}
<1>1. T \subseteq Nat /\ T # {}
  BY TableTyped
<1>2. \E i \in T : \A j \in T : i <= j
  <2> HIDE DEF T
  <2> QED BY <1>1, Smallest
<1>3. \E i \in DOMAIN Table : Fits(i) /\ \A j \in DOMAIN Table : Fits(j) => i <= j
  BY <1>2
<1> QED
  BY <1>3 DEF FirstRow

LEMMA MatchStep ==
  ASSUME EngineInv, Match
  PROVE  EngineInv'
<1>1. /\ pc = "match" /\ pc' = "exit" /\ row' = FirstRow /\ cursor' = current_state
      /\ \E i \in DOMAIN Table : Fits(i)
      /\ UNCHANGED <<current_state, event, stack, entered>>
      /\ UNCHANGED <<queue_head, queue_tail, heap>>
  BY DEF Match, queue
<1>2. Control'
  BY <1>1 DEF EngineInv, Control, Idle, Transition
<1>3. RowFits'
  <2>1. \A i : Fits(i)' <=> Table[i].from = current_state' /\ Table[i].event = heap'[event'].type
    BY DEF Fits
  <2>2. \A i : Fits(i) <=> Table[i].from = current_state /\ Table[i].event = heap[event].type
    BY DEF Fits
  <2> QED BY <1>1, <2>1, <2>2, FirstRowFits DEF RowFits, Fits
<1>4. ListInv'
  BY <1>1 DEF EngineInv, ListInv
<1>5. Entries'
  <2>1. PICK u \in Points : Reached(u)
    BY DEF EngineInv, Entries
  <2>2. Reached(u)'
    BY <1>1, <2>1 DEF Reached, ExitTarget, Idle
  <2> QED BY <2>1, <2>2 DEF Entries
<1> QED
  BY <1>2, <1>3, <1>4, <1>5 DEF EngineInv

LEMMA NoMatchStep ==
  ASSUME EngineInv, NoMatch
  PROVE  EngineInv'
<1>1. /\ pc = "match" /\ pc' = "pop" /\ event' = NULL
      /\ heap' = [n \in DOMAIN heap \ {event} |-> heap[n]]
      /\ UNCHANGED <<current_state, row, cursor, stack, entered>>
      /\ UNCHANGED <<queue_head, queue_tail>>
  BY DEF NoMatch
<1>2. Control'
  BY <1>1 DEF EngineInv, Control, Idle, Transition
<1>3. RowFits'
  BY <1>1 DEF RowFits, Transition
<1>4. ListInv'
  <2>1. PICK s : IsList(heap, queue_head, queue_tail, event, s)
    BY DEF EngineInv, ListInv
  <2>2. IsList(heap', queue_head', queue_tail', NULL, s)
    BY <1>1, <2>1, FreeLinks
  <2> QED BY <1>1, <2>2 DEF ListInv
<1>5. Entries'
  BY <1>1, EntriesKept DEF EngineInv, Idle
<1> QED
  BY <1>2, <1>3, <1>4, <1>5 DEF EngineInv

\* A step of a transition that runs a handler keeps the list, and the row of
\* the event in hand.
LEMMA HandlerStep ==
  ASSUME EngineInv, pc \in Transition, pc' \in Transition, Handler,
         UNCHANGED <<current_state, event, row>>
  PROVE  (Control /\ RowFits /\ ListInv)'
<1>1. event # NULL /\ current_state # NULL /\ event' # NULL /\ current_state' # NULL
  BY DEF EngineInv, Control, Idle, Transition
<1>2. PICK s : IsList(heap, queue_head, queue_tail, event, s)
  BY DEF EngineInv, ListInv
<1>3. PICK z : /\ IsList(heap', queue_head', queue_tail', event, z)
               /\ heap'[event].type = heap[event].type
  BY <1>1, <1>2, HandlerLinks
<1>4. Control'
  BY <1>1 DEF EngineInv, Control, Idle, Transition
<1>5. RowFits'
  BY <1>3, RowKept DEF EngineInv
<1>6. ListInv'
  BY <1>3 DEF ListInv
<1> QED
  BY <1>4, <1>5, <1>6

\* The state the engine is at is left for its parent.
LEMMA ExitStep ==
  ASSUME EngineInv, Exit
  PROVE  EngineInv'
<1>1. /\ pc = "exit" /\ pc' = "exit" /\ Handler
      /\ cursor \notin {NULL, ExitTarget(Table[row].to)}
      /\ entered' = [entered EXCEPT ![cursor] = @ - 1]
      /\ cursor' = Parent[cursor]
      /\ UNCHANGED <<current_state, event, row, stack>>
  BY DEF Exit
<1>2. (Control /\ RowFits /\ ListInv)'
  BY <1>1, HandlerStep DEF Transition
<1>3. PICK u \in Points : Reached(u)
  BY DEF EngineInv, Entries
<1>4. /\ u = cursor /\ u \in States /\ Parent[u] \in Points
      /\ ExitTarget(Table[row].to) = NULL
  BY <1>1, <1>3, ParentTyped DEF Reached, Points
<1>5. ExitTarget(Table[row].to)' = NULL
  BY <1>1, <1>4 DEF ExitTarget
<1>6. entered' = [s \in States |-> IF s \in AncestorsAndSelf(Parent[u]) THEN 1 ELSE 0]
  <2> DEFINE up == AncestorsAndSelf(Parent[u])
             all == AncestorsAndSelf(u)
  <2>1. all = {u} \cup up /\ u \notin up
    BY <1>4, AncestorsUp, NoCycle
  <2>2. entered = [s \in States |-> IF s \in all THEN 1 ELSE 0]
    BY <1>3 DEF Reached
  <2>3. entered' = [entered EXCEPT ![u] = @ - 1]
    BY <1>1, <1>4
  <2> HIDE DEF up, all
  <2>4. entered' = [s \in States |-> IF s \in up THEN 1 ELSE 0]
    BY <1>4, <2>1, <2>2, <2>3
  <2> QED BY <2>4 DEF up
<1>7. Reached(Parent[u])'
  BY <1>1, <1>4, <1>5, <1>6 DEF Reached, Idle
<1> QED
  BY <1>2, <1>4, <1>7 DEF EngineInv, Entries

LEMMA ExitEndStep ==
  ASSUME EngineInv, ExitEnd
  PROVE  EngineInv'
<1>1. /\ pc = "exit" /\ pc' = "action"
      /\ cursor \in {NULL, ExitTarget(Table[row].to)}
      /\ UNCHANGED <<current_state, event, row, cursor, stack, entered>>
      /\ UNCHANGED <<queue_head, queue_tail, heap>>
  BY DEF ExitEnd, queue
<1>2. Control'
  BY <1>1 DEF EngineInv, Control, Idle, Transition
<1>3. RowFits'
  BY <1>1, RowKept DEF EngineInv, Transition
<1>4. ListInv'
  BY <1>1 DEF EngineInv, ListInv
<1>5. Entries'
  <2>1. PICK u \in Points : Reached(u)
    BY DEF EngineInv, Entries
  <2>2. cursor = ExitTarget(Table[row].to)
    BY <1>1, <2>1 DEF Reached
  <2>3. Reached(u)'
    BY <1>1, <2>1, <2>2 DEF Reached, ExitTarget, Idle
  <2> QED BY <2>1, <2>3 DEF Entries
<1> QED
  BY <1>2, <1>3, <1>4, <1>5 DEF EngineInv

\* The path to the target starts where the exits have ended.
LEMMA ActionStep ==
  ASSUME EngineInv, Action
  PROVE  EngineInv'
<1>1. /\ pc = "action" /\ pc' = "enter" /\ Handler
      /\ stack' = Path(Table[row].to, ExitTarget(Table[row].to))
      /\ UNCHANGED <<current_state, event, row, cursor, entered>>
  BY DEF Action
<1>2. (Control /\ RowFits /\ ListInv)'
  BY <1>1, HandlerStep DEF Transition
<1>3. PICK u \in Points : Reached(u)
  BY DEF EngineInv, Entries
<1>4. /\ u = ExitTarget(Table[row].to)
      /\ u \in AncestorsAndSelf(Table[row].to) \cup {NULL}
  BY <1>1, <1>3 DEF Reached, ExitTarget
<1>5. Reached(u)'
  BY <1>1, <1>3, <1>4 DEF Reached, Idle
<1> QED
  BY <1>2, <1>5, <1>3 DEF EngineInv, Entries

LEMMA StackEnd ==
  ASSUME NEW S, NEW q \in Seq(S), NEW v \in S
  PROVE  Append(q, v) # <<>> /\ Last(Append(q, v)) = v /\ Front(Append(q, v)) = q
<1>1. /\ Append(q, v) \in Seq(S) /\ Len(Append(q, v)) = Len(q) + 1
      /\ Append(q, v)[Len(q) + 1] = v /\ Len(q) \in Nat
  OBVIOUS
<1>2. Append(q, v) # <<>> /\ Last(Append(q, v)) = v
  BY <1>1 DEF Last
<1>3. Front(Append(q, v)) = q
  BY <1>1 DEF Front
<1> QED
  BY <1>2, <1>3

\* The state that is entered is a child of the one the engine is at.
LEMMA EnterStep ==
  ASSUME EngineInv, Enter
  PROVE  EngineInv'
<1>1. /\ pc = "enter" /\ pc' = "enter" /\ Handler /\ stack # <<>>
      /\ entered' = [entered EXCEPT ![Last(stack)] = @ + 1]
      /\ stack' = Front(stack)
      /\ UNCHANGED <<current_state, event, row, cursor>>
  BY DEF Enter, Entering
<1>2. (Control /\ RowFits /\ ListInv)'
  BY <1>1, HandlerStep DEF Transition
<1> DEFINE t == Table[row].to
<1>3. t \in States
  BY <1>1, TableTyped DEF EngineInv, RowFits, Transition
<1>4. PICK u \in Points : Reached(u)
  BY DEF EngineInv, Entries
<1>5. u \in AncestorsAndSelf(t) \cup {NULL} /\ stack = Path(t, u)
  BY <1>1, <1>4 DEF Reached
<1>6. u # t
  BY <1>1, <1>3, <1>5, PathUp DEF Points
<1>7. PICK v \in AncestorsAndSelf(t) :
        Parent[v] = u /\ Path(t, u) = Append(Path(t, v), v)
  <2> HIDE DEF t
  <2> QED BY <1>3, <1>5, <1>6, PathDown
<1>8. v \in States /\ Path(t, v) \in Seq(States)
  BY <1>3, <1>7, AncestorsUp, PathTyped DEF Points
<1>9. Last(stack) = v /\ Front(stack) = Path(t, v)
  BY <1>5, <1>7, <1>8, StackEnd
<1>10. entered' = [s \in States |-> IF s \in AncestorsAndSelf(v) THEN 1 ELSE 0]
  <2> DEFINE before == AncestorsAndSelf(u)
             after == AncestorsAndSelf(v)
  <2>1. after = {v} \cup before /\ v \notin before
    BY <1>7, <1>8, AncestorsUp, NoCycle
  <2>2. entered = [s \in States |-> IF s \in before THEN 1 ELSE 0]
    BY <1>4 DEF Reached
  <2>3. entered' = [entered EXCEPT ![v] = @ + 1]
    BY <1>1, <1>9
  <2> HIDE DEF before, after
  <2>4. entered' = [s \in States |-> IF s \in after THEN 1 ELSE 0]
    BY <1>8, <2>1, <2>2, <2>3
  <2> QED BY <2>4 DEF after
<1>11. Reached(v)'
  BY <1>1, <1>7, <1>9, <1>10 DEF Reached, Idle
<1> QED
  BY <1>2, <1>8, <1>11 DEF EngineInv, Entries, Points

\* Once the stack is empty the target has been entered.
LEMMA CompleteStep ==
  ASSUME EngineInv, Complete
  PROVE  EngineInv'
<1>1. /\ pc = "enter" /\ pc' = "pop" /\ stack = <<>>
      /\ current_state' = Table[row].to /\ event' = NULL
      /\ heap' = [n \in DOMAIN heap \ {event} |-> heap[n]]
      /\ UNCHANGED <<queue_head, queue_tail, entered>>
  BY DEF Complete
<1> DEFINE t == Table[row].to
<1>2. t \in States /\ t # NULL
  BY <1>1, TableTyped, ParentTyped DEF EngineInv, RowFits, Transition
<1>3. Control'
  BY <1>1, <1>2 DEF Control, Idle, Transition, Points
<1>4. RowFits'
  BY <1>1 DEF RowFits, Transition
<1>5. ListInv'
  <2>1. PICK s : IsList(heap, queue_head, queue_tail, event, s)
    BY DEF EngineInv, ListInv
  <2>2. IsList(heap', queue_head', queue_tail', NULL, s)
    BY <1>1, <2>1, FreeLinks
  <2> QED BY <1>1, <2>2 DEF ListInv
<1>6. Entries'
  <2>1. PICK u \in Points : Reached(u)
    BY DEF EngineInv, Entries
  <2>2. stack = Path(t, u)
    BY <1>1, <2>1 DEF Reached
  <2>3. ASSUME u # t PROVE FALSE
    <3>1. Path(t, u) = <<t>> \o Path(Parent[t], u)
      BY <1>2, <2>3, PathUp DEF Points
    <3> DEFINE q == Path(Parent[t], u)
    <3>2. q \in Seq(States)
      BY <1>2, ParentTyped, PathTyped
    <3> HIDE DEF q, t
    <3>3. Len(<<t>> \o q) = 1 + Len(q) /\ Len(q) \in Nat
      BY <1>2, <3>2
    <3>4. <<t>> \o q # <<>>
      BY <3>3
    <3> QED BY <1>1, <2>2, <3>1, <3>4 DEF q
  <2>4. Reached(u)'
    BY <1>1, <2>1, <2>3 DEF Reached, Idle
  <2> QED BY <2>1, <2>4 DEF Entries
<1> QED
  BY <1>3, <1>4, <1>5, <1>6 DEF EngineInv

LEMMA EngineStep == EngineInv /\ [Next]_vars => EngineInv'
<1> SUFFICES ASSUME EngineInv, [Next]_vars PROVE EngineInv'
  OBVIOUS
<1>1. CASE UNCHANGED vars
  <2>1. Control' /\ RowFits' /\ ListInv'
    BY <1>1 DEF vars, queue, EngineInv, Control, RowFits, Fits, ListInv
  <2>2. Entries'
    BY <1>1, EntriesKept DEF vars, EngineInv
  <2> QED BY <2>1, <2>2 DEF EngineInv
<1>2. CASE Next
  BY <1>2, InitStep, DispatchStep, LookStep, TakeStep, MatchStep, NoMatchStep,
     ExitStep, ExitEndStep, ActionStep, EnterStep, CompleteStep
  DEF Next, Run
<1> QED
  BY <1>1, <1>2

\* The inductive invariant of the event engine, for every forest of states no
\* deeper than the stack of fsm_enter_down_from, every table, and dispatches at
\* any time by handlers and other threads.
THEOREM EngineInvariant == Spec => []EngineInv
  BY EngineInit, EngineStep, PTL DEF Spec

-----------------------------------------------------------------------------
(* What follows from it. *)

\* No event is lost, leaked or freed twice: whatever is allocated is in the
\* list, once, or in the hands of fsm_run, and queue_tail is the end of the
\* list.
THEOREM NoEventLost == Spec => []EventsAccounted
<1>1. EngineInv => EventsAccounted
  <2> SUFFICES ASSUME EngineInv PROVE EventsAccounted
    OBVIOUS
  <2>1. PICK s : IsList(heap, queue_head, queue_tail, event, s)
    BY DEF EngineInv, ListInv
  <2>2. Waiting = s
    BY <2>1, WaitingIs DEF Waiting
  <2> QED BY <2>1, <2>2 DEF EventsAccounted, IsList
<1> QED
  BY <1>1, EngineInvariant, PTL

\* A state is entered inside its parent only, and left before it, in the
\* middle of a transition too.
THEOREM ParentsFirst == Spec => []ParentsEnteredFirst
<1>1. EngineInv => ParentsEnteredFirst
  <2> SUFFICES ASSUME EngineInv,
                      NEW s \in States, entered[s] = 1, Parent[s] # NULL
               PROVE  entered[Parent[s]] = 1
    BY DEF ParentsEnteredFirst
  <2>1. PICK u \in Points : Reached(u)
    BY DEF EngineInv, Entries
  <2>2. u # NULL /\ s \in AncestorsAndSelf(u)
    BY <2>1, AncestorsUp DEF Reached
  <2>3. Parent[s] \in States /\ Parent[s] \in AncestorsAndSelf(s)
    BY AncestorsUp, ParentTyped DEF Points
  <2>4. Parent[s] \in AncestorsAndSelf(u)
    BY <2>1, <2>2, <2>3, AncestorsClosed DEF Points
  <2> QED BY <2>1, <2>3, <2>4 DEF Reached
<1> QED
  BY <1>1, EngineInvariant, PTL

\* Between two events exactly the current state and its ancestors have been
\* entered and not left.
THEOREM EntriesBalance == Spec => []EnteredIsCurrent
<1>1. EngineInv => EnteredIsCurrent
  <2> SUFFICES ASSUME EngineInv, pc \in {"main", "pop", "take", "match"}
               PROVE  {s \in States : entered[s] = 1} = AncestorsAndSelf(current_state)
    BY DEF EnteredIsCurrent
  <2>1. PICK u \in Points : Reached(u)
    BY DEF EngineInv, Entries
  <2>2. u = current_state /\ AncestorsAndSelf(u) \subseteq States
    BY <2>1, AncestorsUp DEF Reached, Idle
  <2> QED BY <2>1, <2>2 DEF Reached
<1> QED
  BY <1>1, EngineInvariant, PTL

-----------------------------------------------------------------------------
(* The engine implements RunToCompletion. *)

\* What is pending: the event in hand, then the list.
pending == (IF event = NULL THEN <<>> ELSE <<heap[event].type>>) \o Pending

LEMMA PendingNow ==
  ASSUME NEW s, IsList(heap, queue_head, queue_tail, event, s)
  PROVE  pending = TypesOf(heap, event, s)
<1>1. Waiting = s /\ DOMAIN s = 1 .. Len(s)
  BY WaitingIs DEF Waiting
<1>2. Pending = TypesIn(heap, s)
  BY <1>1 DEF Pending, TypesIn
<1> QED
  BY <1>2 DEF pending, TypesOf

LEMMA PendingNext ==
  ASSUME NEW z, IsList(heap', queue_head', queue_tail', event', z)
  PROVE  pending' = TypesOf(heap', event', z)
<1>1. Waiting' = z /\ DOMAIN z = 1 .. Len(z)
  BY WaitingIs DEF Waiting
<1>2. Pending' = TypesIn(heap', z)
  BY <1>1 DEF Pending, TypesIn
<1> QED
  BY <1>2 DEF pending, TypesOf

\* A step that may have dispatched one event and nothing else that shows.
LEMMA DispatchMaps ==
  ASSUME current_state # NULL, UNCHANGED current_state, Grown(pending, pending')
  PROVE  [Completion!Next]_(Completion!vars)
  BY DEF Grown, pending, Completion!Next, Completion!Dispatch, Completion!vars

\* A handler in a transition.
LEMMA HandlerMaps ==
  ASSUME EngineInv, pc \in Transition, Handler, UNCHANGED <<current_state, event>>
  PROVE  [Completion!Next]_(Completion!vars)
<1>1. current_state # NULL
  BY DEF EngineInv, Control, Transition
<1>2. PICK s : IsList(heap, queue_head, queue_tail, event, s)
  BY DEF EngineInv, ListInv
<1>3. PICK z : /\ IsList(heap', queue_head', queue_tail', event, z)
               /\ Grown(TypesOf(heap, event, s), TypesOf(heap', event, z))
  BY <1>2, HandlerLinks
<1>4. Grown(pending, pending')
  BY <1>2, <1>3, PendingNow, PendingNext
<1> QED
  BY <1>1, <1>4, DispatchMaps

\* The rows that fit are the rows of the abstract table.
LEMMA RowsFit ==
  ASSUME NEW i
  PROVE  i \in Completion!Rows(current_state, heap[event].type)
         <=> i \in DOMAIN Table /\ Fits(i)
  BY DEF Completion!Rows, Fits

\* The event in hand is released: it has been handled.
LEMMA ReleaseMaps ==
  ASSUME EngineInv, event # NULL, event' = NULL,
         heap' = [n \in DOMAIN heap \ {event} |-> heap[n]],
         UNCHANGED <<queue_head, queue_tail>>,
         current_state' = Completion!Successor(current_state, heap[event].type)
  PROVE  Completion!Next
<1>1. PICK s : IsList(heap, queue_head, queue_tail, event, s)
  BY DEF EngineInv, ListInv
<1>2. /\ IsList(heap', queue_head', queue_tail', event', s)
      /\ \A i \in 1 .. Len(s) : heap'[s[i]].type = heap[s[i]].type
  BY <1>1, FreeLinks, SMTT(30)
<1>3. /\ pending # <<>> /\ Head(pending) = heap[event].type
      /\ pending' = Tail(pending)
  <2>1. /\ TypesOf(heap, event, s) # <<>>
        /\ Head(TypesOf(heap, event, s)) = heap[event].type
        /\ Tail(TypesOf(heap, event, s)) = TypesIn(heap, s)
    BY <1>1, TypesSplit
  <2>2. pending = TypesOf(heap, event, s)
    BY <1>1, PendingNow
  <2>3. pending' = TypesOf(heap', NULL, s)
    <3>1. pending' = TypesOf(heap', event', s)
      BY <1>2, PendingNext
    <3> QED BY <3>1
  <2>4. TypesOf(heap', NULL, s) = TypesIn(heap', s)
    <3>1. IsList(heap', queue_head', queue_tail', NULL, s)
      BY <1>2
    <3> QED BY <3>1, TypesFreed
  <2>5. TypesIn(heap', s) = TypesIn(heap, s)
    BY <1>2 DEF TypesIn
  <2> QED BY <2>1, <2>2, <2>3, <2>4, <2>5
<1> QED
  BY <1>3 DEF pending, Completion!Next, Completion!Handle

LEMMA CompletionStep ==
  ASSUME EngineInv, EngineInv', [Next]_vars
  PROVE  [Completion!Next]_(Completion!vars)
<1>1. PICK s : IsList(heap, queue_head, queue_tail, event, s)
  BY DEF EngineInv, ListInv
<1>2. CASE UNCHANGED vars
  BY <1>2 DEF vars, queue, Completion!vars, Pending, Waiting
<1>3. CASE fsm_init
  <2>1. /\ current_state = NULL /\ event = NULL /\ queue_head = NULL
        /\ heap = [n \in {} |-> NULL]
    BY <1>3 DEF fsm_init, EngineInv, Control, Idle
  <2>2. s = <<>>
    BY <1>1, <2>1, ListTyped
  <2>3. TypesOf(heap, event, s) = <<>>
    BY <2>1, <2>2 DEF TypesOf, TypesIn
  <2>4. /\ current_state' \in States /\ event' = event /\ Handler
    BY <1>3 DEF fsm_init
  <2>5. PICK z : /\ IsList(heap', queue_head', queue_tail', event, z)
                 /\ Grown(TypesOf(heap, event, s), TypesOf(heap', event, z))
    BY <1>1, <2>4, HandlerLinks
  <2>6. pending' = TypesOf(heap', event, z)
    BY <2>4, <2>5, PendingNext
  <2>7. pending' = <<>> \/ \E type \in Types : pending' = <<type>>
    BY <2>3, <2>5, <2>6 DEF Grown
  <2> QED
    BY <2>1, <2>4, <2>7 DEF pending, Completion!Next, Completion!Start
<1>4. CASE Dispatch
  <2>1. UNCHANGED <<current_state, event>> /\ current_state # NULL
    BY <1>4 DEF Dispatch, EngineInv, Control
  <2>2. PICK e \in Types : fsm_dispatch(e)
    BY <1>4 DEF Dispatch
  <2>3. PICK z : /\ IsList(heap', queue_head', queue_tail', event, z)
                 /\ TypesOf(heap', event, z) = Append(TypesOf(heap, event, s), e)
    BY <1>1, <2>2, DispatchLinks
  <2>4. Grown(pending, pending')
    BY <1>1, <2>1, <2>3, PendingNow, PendingNext DEF Grown
  <2> QED BY <2>1, <2>4, DispatchMaps
<1>5. CASE fsm_run \/ PopLooks \/ Match \/ ExitEnd
  BY <1>5 DEF fsm_run, PopLooks, Match, ExitEnd, queue, Completion!vars, Pending, Waiting
<1>6. CASE PopTakes
  <2>1. /\ event = NULL /\ queue_head # NULL /\ event' = queue_head
        /\ queue_head' = heap[queue_head].next
        /\ queue_tail' = IF heap[queue_head].next = NULL THEN NULL ELSE queue_tail
        /\ heap' = [heap EXCEPT ![queue_head].next = NULL]
        /\ UNCHANGED current_state
    BY <1>6 DEF PopTakes, TailAfterPop, EngineInv, Control, Idle
  <2>2. /\ IsList(heap', queue_head', queue_tail', event', Tail(s))
        /\ \A m \in DOMAIN heap : heap'[m].type = heap[m].type
        /\ TypesOf(heap', queue_head, Tail(s)) = TypesOf(heap, NULL, s)
    <3>1. IsList(heap, queue_head, queue_tail, NULL, s)
      BY <1>1, <2>1
    <3>2. /\ IsList(heap', queue_head', queue_tail', queue_head, Tail(s))
          /\ \A m \in DOMAIN heap : heap'[m].type = heap[m].type
      <4>1. IsList(heap', queue_head', queue_tail', queue_head, Tail(s))
        BY <2>1, <3>1, TakeLinks
      <4>2. \A m \in DOMAIN heap : heap'[m].type = heap[m].type
        BY <2>1, <3>1, TakeLinks
      <4> QED BY <4>1, <4>2
    <3>3. TypesOf(heap', queue_head, Tail(s)) = TypesOf(heap, NULL, s)
      <4> DEFINE g == heap'
      <4>1. \A m \in DOMAIN heap : g[m].type = heap[m].type
        BY <3>2
      <4> HIDE DEF g
      <4>2. TypesOf(g, queue_head, Tail(s)) = TypesOf(heap, NULL, s)
        BY <2>1, <3>1, <4>1, TypesTaken
      <4> QED BY <4>2 DEF g
    <3> QED BY <2>1, <3>2, <3>3
  <2>3. TypesOf(heap', queue_head, Tail(s)) = TypesOf(heap, NULL, s)
    BY <2>2
  <2>4. pending' = TypesOf(heap', queue_head, Tail(s))
    <3>1. pending' = TypesOf(heap', event', Tail(s))
      BY <2>2, PendingNext
    <3> QED BY <2>1, <3>1
  <2>5. pending = TypesOf(heap, NULL, s)
    <3>1. pending = TypesOf(heap, event, s)
      BY <1>1, PendingNow
    <3> QED BY <2>1, <3>1
  <2>6. pending' = pending
    BY <2>3, <2>4, <2>5
  <2> QED BY <2>1, <2>6 DEF pending, Completion!vars
<1>7. CASE NoMatch
  <2>1. /\ event # NULL /\ event' = NULL
        /\ heap' = [n \in DOMAIN heap \ {event} |-> heap[n]]
        /\ UNCHANGED <<queue_head, queue_tail, current_state>>
        /\ ~ \E i \in DOMAIN Table : Fits(i)
    BY <1>7 DEF NoMatch, EngineInv, Control, Idle
  <2>2. Completion!Rows(current_state, heap[event].type) = {}
    BY <2>1, RowsFit
  <2>3. Completion!Successor(current_state, heap[event].type) = current_state
    BY <2>2 DEF Completion!Successor
  <2> QED BY <2>1, <2>3, ReleaseMaps
<1>8. CASE Exit \/ Action \/ Enter
  BY <1>8, HandlerMaps DEF Exit, Action, Enter, Transition
<1>9. CASE Complete
  <2>1. /\ event # NULL /\ event' = NULL
        /\ heap' = [n \in DOMAIN heap \ {event} |-> heap[n]]
        /\ UNCHANGED <<queue_head, queue_tail>>
        /\ current_state' = Table[row].to
    BY <1>9 DEF Complete, EngineInv, Control, Idle
  <2>2. /\ row \in DOMAIN Table /\ Fits(row)
        /\ \A j \in DOMAIN Table : Fits(j) => row <= j
    BY <1>9 DEF Complete, EngineInv, RowFits, Transition
  <2> DEFINE R == Completion!Rows(current_state, heap[event].type)
  <2>3. row \in R /\ \A j \in R : row <= j
    BY <2>2, RowsFit
  <2>4. \A j \in R : j \in Nat
    BY RowsFit, TableTyped
  <2>5. Completion!Successor(current_state, heap[event].type)
        = Table[CHOOSE i \in R : \A j \in R : i <= j].to
    BY <2>3 DEF Completion!Successor
  <2> HIDE DEF R
  <2>6. (CHOOSE i \in R : \A j \in R : i <= j) = row
    <3> DEFINE least == CHOOSE i \in R : \A j \in R : i <= j
    <3>1. least \in R /\ \A j \in R : least <= j
      BY <2>3
    <3> HIDE DEF least
    <3>2. least = row
      BY <2>3, <2>4, <3>1
    <3> QED BY <3>2 DEF least
  <2>7. Completion!Successor(current_state, heap[event].type) = Table[row].to
    BY <2>5, <2>6
  <2> QED BY <2>1, <2>7, ReleaseMaps
<1> QED
  BY <1>2, <1>3, <1>4, <1>5, <1>6, <1>7, <1>8, <1>9 DEF Next, Run

\* The engine handles events in the order they were dispatched, each once, to
\* its end and by the first row that fits: what HostFsm takes for granted.
THEOREM RunsToCompletion == Spec => ImplementsRunToCompletion
<1>1. Init => Completion!Init
  <2> SUFFICES ASSUME Init PROVE Completion!Init
    OBVIOUS
  <2>1. heap = [n \in {} |-> NULL] /\ queue_head = NULL /\ event = NULL
        /\ current_state = NULL
    BY DEF Init
  <2>2. Waiting = <<>>
    BY <2>1, ChainEmpty DEF Waiting
  <2>3. Pending = <<>>
    BY <2>2 DEF Pending
  <2> QED BY <2>1, <2>3 DEF Completion!Init
<1>2. EngineInv /\ EngineInv' /\ [Next]_vars => [Completion!Next]_(Completion!vars)
  BY CompletionStep
<1> QED
  BY <1>1, <1>2, EngineInvariant, PTL DEF Spec, ImplementsRunToCompletion, Completion!Spec

=============================================================================
