--------------------------- MODULE PipelineProofs ---------------------------
(***************************************************************************)
(* utility/pipeline.c for records, sectors and segments of any size.       *)
(* First one call of pipeline_next_segment, on which HostFsmProofs and     *)
(* UpdateProofs rest; then pipeline_build, which PipelineWalkProofs needs. *)
(*                                                                         *)
(* The loops of pipeline_build and insert_record are folds in the model.   *)
(* A fold is recursion over sets of positions, and what it computes is a   *)
(* statement by induction: FoldExists and Turns turn it into the values    *)
(* the loop variable runs through, and what is said of a loop is said of   *)
(* those values, from one turn to the next.                                *)
(***************************************************************************)
EXTENDS Pipeline, FiniteSetTheorems, TLAPS

\* A nonempty set of naturals has a smallest element.  Of all the intervals
\* 0 .. n - 1 with n in T, take one that is minimal for inclusion.
LEMMA SmallestNat ==
  ASSUME NEW T, T \subseteq Nat, T # {}
  PROVE  \E x \in T : \A y \in T : x <= y
<1> DEFINE Below(n) == 0 .. n - 1
           B == {Below(n) : n \in T}
<1>1. B \subseteq FiniteSubsetsOf(Nat)
  <2>1. ASSUME NEW n \in T PROVE Below(n) \in FiniteSubsetsOf(Nat)
    <3>1. IsFiniteSet(0 .. n - 1)
      BY FS_Interval
    <3>2. 0 .. n - 1 \subseteq Nat
      OBVIOUS
    <3> QED BY <3>1, <3>2 DEF FiniteSubsetsOf
  <2> QED BY <2>1
<1>2. B # {}
  OBVIOUS
<1>3. PICK X \in B : \A Y \in B : ~(<<Y, X>> \in StrictSubsetOrdering(Nat))
  <2>1. IsWellFoundedOn(StrictSubsetOrdering(Nat), FiniteSubsetsOf(Nat))
    BY FS_StrictSubsetOrderingWellFounded
  <2> HIDE DEF B
  <2> QED BY <2>1, <1>1, <1>2, WFMin
<1>4. PICK x \in T : X = Below(x)
  OBVIOUS
<1>5. ASSUME NEW y \in T, y < x PROVE FALSE
  <2>1. /\ Below(y) \subseteq Below(x)
        /\ Below(x) \subseteq Nat
        /\ y \in Below(x)
        /\ y \notin Below(y)
    BY <1>5
  <2>2. <<Below(y), Below(x)>> \in StrictSubsetOrdering(Nat)
    BY <2>1 DEF StrictSubsetOrdering
  <2> QED BY <2>2, <1>3, <1>4
<1> QED BY <1>5

-----------------------------------------------------------------------------
(* pipeline_next_segment, for sectors of any size and contents, any        *)
(* segment size and any offset.                                            *)

\* The scan over unprogrammed bytes stops at the first programmed byte, or at
\* the end of the sector, and passes none.
LEMMA SkipInvalidStops ==
  ASSUME NEW size \in Nat, NEW sector \in SectorOf(size),
         NEW start \in 0 .. size
  PROVE  /\ SkipInvalid(sector, start) \in start .. size
         /\ SkipInvalid(sector, start) < size =>
              sector.valid[SkipInvalid(sector, start)]
         /\ \A i \in start .. SkipInvalid(sector, start) - 1 :
              ~sector.valid[i]
<1> DEFINE T == {i \in start .. size - 1 : sector.valid[i]}
           Stops(i) == /\ sector.valid[i]
                       /\ \A j \in start .. i - 1 : ~sector.valid[j]
<1>1. sector.size = size
  BY DEF SectorOf
<1>2. CASE T = {}
  <2>1. SkipInvalid(sector, start) = size
    BY <1>1, <1>2 DEF SkipInvalid
  <2> QED BY <1>2, <2>1
<1>3. CASE T # {}
  <2>1. PICK x \in T : \A y \in T : x <= y
    <3>1. T \subseteq Nat
      OBVIOUS
    <3> QED BY <1>3, <3>1, SmallestNat
  <2>2. Stops(x)
    BY <2>1
  <2>3. SkipInvalid(sector, start) = CHOOSE i \in start .. size - 1 : Stops(i)
    BY <1>1, <1>3 DEF SkipInvalid
  <2>4. /\ SkipInvalid(sector, start) \in start .. size - 1
        /\ Stops(SkipInvalid(sector, start))
    <3> HIDE DEF Stops
    <3> QED BY <2>1, <2>2, <2>3
  <2> QED BY <2>4
<1> QED BY <1>2, <1>3

\* One call of pipeline_next_segment: the offset advances within the sector,
\* to its end exactly when nothing is left; a segment starts at a programmed
\* byte, lies inside the sector, is as long as the offset says, at most seg
\* bytes, and carries the sector's bytes; no programmed byte before it is
\* passed.
LEMMA NextSegmentCall ==
  ASSUME NEW size \in Nat, NEW sector \in SectorOf(size),
         NEW start \in 0 .. size, NEW seg \in Nat \ {0}
  PROVE  LET walk  == pipeline_next_segment(sector, start, seg)
             first == walk.offset - walk.len
         IN  /\ walk.offset \in start .. size
             /\ walk.len \in Int
             /\ walk.addr \in Nat
             /\ walk.data \in Seq(Byte)
             /\ walk.len < 0 =>
                  /\ walk.offset = size
                  /\ \A i \in start .. size - 1 : ~sector.valid[i]
             /\ walk.len >= 0 =>
                  /\ walk.len \in 1 .. seg
                  /\ first \in start .. size - 1
                  /\ sector.valid[first]
                  /\ \A i \in start .. first - 1 : ~sector.valid[i]
                  /\ walk.addr = sector.base_addr + first
                  /\ Len(walk.data) = walk.len
                  /\ \A i \in 1 .. walk.len :
                       walk.data[i] = sector.data[first + i - 1]
<1> DEFINE skip == SkipInvalid(sector, start)
           len  == ClampedLength(sector, skip, seg)
           walk == pipeline_next_segment(sector, start, seg)
<1>1. /\ skip \in start .. size
      /\ skip < size => sector.valid[skip]
      /\ \A i \in start .. skip - 1 : ~sector.valid[i]
  BY SkipInvalidStops
<1>2. /\ sector.size = size
      /\ sector.base_addr \in Nat
      /\ sector.data \in [0 .. size - 1 -> Byte]
  BY DEF SectorOf
<1>3. CASE skip >= size
  <2>1. walk = Exhausted(skip)
    BY <1>2, <1>3 DEF pipeline_next_segment
  <2>2. walk.offset = size /\ walk.len = -1 /\ walk.addr = 0 /\ walk.data = <<>>
    BY <1>1, <1>3, <2>1 DEF Exhausted
  <2> QED BY <1>1, <1>3, <2>2
<1>4. CASE skip < size
  <2>1. len \in 1 .. seg /\ skip + len <= size
    BY <1>1, <1>2, <1>4 DEF ClampedLength
  <2>2. walk = Segment(sector, skip, len, skip + len)
    BY <1>1, <1>2, <1>4 DEF pipeline_next_segment
  <2> HIDE DEF skip, len
  <2>3. /\ walk.len = len
        /\ walk.offset = skip + len
        /\ walk.addr = sector.base_addr + skip
        /\ walk.data = [i \in 1 .. len |-> sector.data[skip + i - 1]]
    BY <2>2 DEF Segment
  <2>4. ASSUME NEW i \in 1 .. len PROVE sector.data[skip + i - 1] \in Byte
    <3>1. skip + i - 1 \in 0 .. size - 1
      BY <1>1, <2>1
    <3> QED BY <1>2, <3>1
  <2>5. walk.data \in Seq(Byte) /\ Len(walk.data) = len
    <3> DEFINE bytes == [i \in 1 .. len |-> sector.data[skip + i - 1]]
    <3>1. bytes \in [1 .. len -> Byte] /\ len \in Nat
      BY <2>1, <2>4
    <3>2. bytes \in Seq(Byte) /\ Len(bytes) = len
      <4> HIDE DEF bytes
      <4> QED BY <3>1
    <3> QED BY <2>3, <3>2
  <2>6. walk.offset - walk.len = skip
    BY <1>1, <2>1, <2>3
  <2> HIDE DEF walk
  <2>7. /\ walk.offset \in start .. size
        /\ walk.len \in Int /\ ~(walk.len < 0) /\ walk.len \in 1 .. seg
        /\ walk.addr \in Nat
    BY <1>1, <1>2, <2>1, <2>3
  <2>8. /\ skip \in start .. size - 1
        /\ sector.valid[skip]
        /\ \A i \in start .. skip - 1 : ~sector.valid[i]
    BY <1>1, <1>4
  <2>9. \A i \in 1 .. walk.len : walk.data[i] = sector.data[skip + i - 1]
    BY <2>3
  <2>10. Len(walk.data) = walk.len /\ walk.addr = sector.base_addr + skip
    BY <2>3, <2>5
  <2> QED BY <2>5, <2>6, <2>7, <2>8, <2>9, <2>10, Zenon DEF walk
<1> QED BY <1>1, <1>3, <1>4

\* Only the last segment of a sector is shorter than the segment size.
LEMMA WholeOrLast ==
  ASSUME NEW size \in Nat, NEW sector \in SectorOf(size),
         NEW start \in 0 .. size, NEW seg \in Nat \ {0}
  PROVE  LET walk == pipeline_next_segment(sector, start, seg)
         IN  walk.len >= 0 => walk.len = seg \/ walk.offset = size
<1> DEFINE skip == SkipInvalid(sector, start)
           len  == ClampedLength(sector, skip, seg)
           walk == pipeline_next_segment(sector, start, seg)
<1>1. skip \in start .. size /\ sector.size = size
  BY SkipInvalidStops DEF SectorOf
<1>2. CASE skip >= size
  <2>1. walk.len = -1
    BY <1>1, <1>2 DEF pipeline_next_segment, Exhausted
  <2> QED BY <2>1
<1>3. CASE skip < size
  <2>1. len = seg \/ skip + len = size
    BY <1>1 DEF ClampedLength
  <2>2. walk = Segment(sector, skip, len, skip + len)
    BY <1>1, <1>3 DEF pipeline_next_segment
  <2> HIDE DEF skip, len
  <2> QED BY <2>1, <2>2 DEF Segment
<1> QED BY <1>1, <1>2, <1>3

-----------------------------------------------------------------------------
(* Induction over the turns of a loop. *)

\* A nonempty set of positions has a last one, and Max is it.
LEMMA LastPosition ==
  ASSUME NEW n \in Nat, NEW s \in SUBSET (1 .. n), s # {}
  PROVE  Max(s) \in s /\ \A i \in s : i <= Max(s)
<1> DEFINE T == {n - i : i \in s}
<1>0. \A i \in s : i \in 1 .. n
  OBVIOUS
<1>1. T \subseteq Nat /\ T # {}
  <2>1. \A i \in s : n - i \in Nat
    BY <1>0
  <2> QED BY <2>1
<1>2. PICK x \in T : \A y \in T : x <= y
  BY <1>1, SmallestNat
<1>3. PICK m \in s : x = n - m
  BY <1>2
<1>4. \A i \in s : m >= i
  <2>1. ASSUME NEW i \in s PROVE m >= i
    <3>1. n - i \in T
      OBVIOUS
    <3>2. n - m <= n - i
      BY <1>2, <1>3, <3>1
    <3> QED BY <1>0, <3>2
  <2> QED BY <2>1
<1>5. /\ Max(s) \in s
      /\ \A i \in s : Max(s) >= i
  BY <1>4, Zenon DEF Max
<1> QED BY <1>0, <1>5

\* One turn of a loop at position i, from what the turns before it, at the
\* positions of s but i, have left in iter.
Turn(op, base, iter, s) ==
  IF s = {} THEN base ELSE op[<<iter[s \ {Max(s)}], Max(s)>>]

Folded(op, base, n, iter) ==
  iter = [s \in SUBSET (1 .. n) |-> Turn(op, base, iter, s)]

\* The recursion of a fold has a solution for every number of turns: one more
\* turn is built on the solution for one less.
LEMMA FoldExists ==
  ASSUME NEW Acc, NEW base \in Acc, NEW n \in Nat,
         NEW op \in [Acc \X (1 .. n) -> Acc]
  PROVE  \E iter \in [SUBSET (1 .. n) -> Acc] : Folded(op, base, n, iter)
<1> DEFINE Solves(m, iter) == /\ iter \in [SUBSET (1 .. m) -> Acc]
                              /\ Folded(op, base, m, iter)
           Bad == {m \in Nat : m <= n /\ ~ \E iter : Solves(m, iter)}
<1>1. ASSUME Bad # {} PROVE FALSE
  <2>1. PICK m \in Bad : \A x \in Bad : m <= x
    <3>1. Bad \subseteq Nat
      OBVIOUS
    <3> HIDE DEF Bad
    <3> QED BY <1>1, <3>1, SmallestNat
  <2>2. m \in Nat /\ m <= n /\ ~ \E iter : Solves(m, iter)
    BY <2>1
  <2>3. CASE m = 0
    <3> DEFINE none == [s \in SUBSET (1 .. 0) |-> base]
    <3>1. \A s \in SUBSET (1 .. 0) : s = {}
      OBVIOUS
    <3>2. Folded(op, base, 0, none)
      BY <3>1 DEF Folded, Turn
    <3>3. none \in [SUBSET (1 .. 0) -> Acc]
      OBVIOUS
    <3> QED BY <2>2, <2>3, <3>2, <3>3
  <2>4. CASE m # 0
    <3>1. m - 1 \in Nat /\ m - 1 <= n /\ m - 1 \notin Bad
      <4>1. m - 1 \in Nat /\ m - 1 <= n /\ ~(m <= m - 1)
        BY <2>2, <2>4
      <4> HIDE DEF Bad
      <4> QED BY <2>1, <4>1
    <3>2. PICK less : Solves(m - 1, less)
      BY <3>1
    <3> DEFINE more == [s \in SUBSET (1 .. m) |->
                          IF m \in s THEN op[<<less[s \ {m}], m>>] ELSE less[s]]
    <3>3. ASSUME NEW s \in SUBSET (1 .. m)
          PROVE  more[s] \in Acc /\ more[s] = Turn(op, base, more, s)
      <4>1. CASE m \in s
        <5>1. s \ {m} \in SUBSET (1 .. m - 1) /\ s \ {m} \in SUBSET (1 .. m)
              /\ m \notin s \ {m}
          BY <2>2
        <5>2. Max(s) = m
          <6>1. Max(s) \in s /\ m <= Max(s)
            BY <2>2, <4>1, LastPosition
          <6>2. Max(s) \in 1 .. m
            BY <3>3, <6>1
          <6>3. m \in Nat
            BY <2>2
          <6> HIDE DEF Bad
          <6> QED BY <6>1, <6>2, <6>3
        <5>3. less[s \ {m}] \in Acc /\ more[s \ {m}] = less[s \ {m}]
          BY <3>2, <5>1
        <5>4. more[s] = op[<<less[s \ {m}], m>>]
          BY <4>1
        <5>5. <<less[s \ {m}], m>> \in Acc \X (1 .. n)
          BY <2>2, <2>4, <5>3
        <5> HIDE DEF more
        <5>6. op[<<less[s \ {m}], m>>] \in Acc
          BY <5>5
        <5> QED BY <4>1, <5>2, <5>3, <5>4, <5>6 DEF Turn
      <4>2. CASE m \notin s
        <5>1. s \in SUBSET (1 .. m - 1)
          BY <2>2, <4>2
        <5>2. more[s] = less[s] /\ less[s] \in Acc
          BY <3>2, <4>2, <5>1
        <5>3. less[s] = Turn(op, base, less, s)
          BY <3>2, <5>1, Zenon DEF Folded
        <5>4. more[s \ {Max(s)}] = less[s \ {Max(s)}]
          BY <4>2
        <5> HIDE DEF more
        <5> QED BY <5>2, <5>3, <5>4 DEF Turn
      <4> QED BY <4>1, <4>2
    <3>4. more \in [SUBSET (1 .. m) -> Acc]
      BY <3>3
    <3>5. Folded(op, base, m, more)
      <4> DEFINE again == [s \in SUBSET (1 .. m) |-> Turn(op, base, more, s)]
      <4>1. \A s \in SUBSET (1 .. m) : more[s] = again[s]
        BY <3>3
      <4>2. more = again
        <5>1. DOMAIN more = SUBSET (1 .. m) /\ DOMAIN again = SUBSET (1 .. m)
          OBVIOUS
        <5>2. more = [s \in SUBSET (1 .. m) |-> more[s]]
          OBVIOUS
        <5> HIDE DEF more
        <5> QED BY <4>1, <5>2
      <4> HIDE DEF more
      <4> QED BY <4>2 DEF Folded
    <3> HIDE DEF more
    <3> QED BY <2>2, <3>4, <3>5
  <2> QED BY <2>3, <2>4
<1>2. n \notin Bad
  BY <1>1
<1>3. \E iter : Solves(n, iter)
  <2> HIDE DEF Solves
  <2> QED BY <1>2
<1> QED BY <1>3

\* The positions up to the i-th, after which a loop has made i turns.
LEMMA Turns ==
  ASSUME NEW n \in Nat
  PROVE  /\ 1 .. 0 = {} /\ 1 .. 0 \in SUBSET (1 .. n)
         /\ \A i \in 1 .. n :
              /\ 1 .. i \in SUBSET (1 .. n)
              /\ 1 .. i # {}
              /\ Max(1 .. i) = i
              /\ (1 .. i) \ {i} = 1 .. (i - 1)
<1>1. 1 .. 0 = {} /\ 1 .. 0 \in SUBSET (1 .. n)
  OBVIOUS
<1>2. ASSUME NEW i \in 1 .. n
      PROVE  /\ 1 .. i \in SUBSET (1 .. n)
             /\ 1 .. i # {}
             /\ Max(1 .. i) = i
             /\ (1 .. i) \ {i} = 1 .. (i - 1)
  <2>1. 1 .. i \in SUBSET (1 .. n) /\ 1 .. i # {}
    OBVIOUS
  <2>2. Max(1 .. i) = i
    <3>1. /\ Max(1 .. i) \in 1 .. i
          /\ \A j \in 1 .. i : j <= Max(1 .. i)
      BY <2>1, LastPosition
    <3>2. i \in 1 .. i
      OBVIOUS
    <3>3. i <= Max(1 .. i)
      BY <3>1, <3>2
    <3> QED BY <3>1, <3>3
  <2>3. (1 .. i) \ {i} = 1 .. (i - 1)
    OBVIOUS
  <2> QED BY <2>1, <2>2, <2>3
<1> QED BY <1>1, <1>2

-----------------------------------------------------------------------------
(* The sector array.  A memory is a function from addresses to bytes, or   *)
(* Blank where nothing has been written.                                   *)

Blank  == -1
Memory == [Nat -> Byte \cup {Blank}]

\* The sectors hold what the memory holds, each at an address of its own.
Holds(ss, mem, size) ==
  /\ ss \in Seq(SectorOf(size))
  /\ \A k \in DOMAIN ss : ss[k].base_addr % size = 0
  /\ \A j, k \in DOMAIN ss : ss[j].base_addr = ss[k].base_addr => j = k
  /\ \A k \in DOMAIN ss : \A i \in 0 .. size - 1 :
       /\ ss[k].valid[i] <=> mem[ss[k].base_addr + i] # Blank
       /\ ss[k].data[i] = IF mem[ss[k].base_addr + i] = Blank THEN ErasedByte
                          ELSE mem[ss[k].base_addr + i]

Covers(ss, mem, size) ==
  \A a \in Nat : mem[a] # Blank =>
    \E k \in DOMAIN ss :
      a \in ss[k].base_addr .. ss[k].base_addr + size - 1

Programmed(ss, size) ==
  \A k \in DOMAIN ss : \E i \in 0 .. size - 1 : ss[k].valid[i]

Placed(ss, mem, size) ==
  Holds(ss, mem, size) /\ Covers(ss, mem, size) /\ Programmed(ss, size)

\* The sector of an address starts at a multiple of the size, and is the only
\* such sector that has the address.
LEMMA SectorBase ==
  ASSUME NEW size \in Nat \ {0}, NEW a \in Nat
  PROVE  /\ sector_base(a, size) \in Nat
         /\ sector_base(a, size) % size = 0
         /\ a - sector_base(a, size) \in 0 .. size - 1
         /\ \A b \in Nat : b % size = 0 /\ a \in b .. b + size - 1
              => sector_base(a, size) = b
<1> DEFINE q == a \div size
           r == a % size
<1>1. q \in Nat /\ r \in 0 .. size - 1 /\ a = size * q + r
  OBVIOUS
<1>2. sector_base(a, size) = size * q
  BY <1>1 DEF sector_base
<1>3. size * q \in Nat /\ (size * q) % size = 0
  BY <1>1
<1> HIDE DEF q, r
<1>4. ASSUME NEW b \in Nat, b % size = 0, a \in b .. b + size - 1
      PROVE  sector_base(a, size) = b
  <2> DEFINE p == b \div size
  <2>1. p \in Nat /\ b = size * p
    BY <1>4
  <2> HIDE DEF p
  <2>2. size * q < size * (p + 1) /\ size * p < size * (q + 1)
    BY <1>1, <1>4, <2>1
  <2>3. q < p + 1 /\ p < q + 1
    BY <1>1, <2>1, <2>2
  <2> QED BY <1>1, <1>2, <2>1, <2>3
<1> QED BY <1>1, <1>2, <1>3, <1>4

LEMMA SectorFields ==
  ASSUME NEW size \in Nat, NEW ss \in Seq(SectorOf(size)), NEW k \in DOMAIN ss
  PROVE  /\ ss[k] \in SectorOf(size)
         /\ ss[k].base_addr \in Nat /\ ss[k].size = size
         /\ ss[k].data \in [0 .. size - 1 -> Byte]
         /\ ss[k].valid \in [0 .. size - 1 -> BOOLEAN]
<1>1. ss[k] \in SectorOf(size)
  OBVIOUS
<1> QED BY <1>1 DEF SectorOf

\* find_sector returns an array with a sector for the address.  A new one
\* holds nothing, and neither does the memory at its addresses.
LEMMA FindSector ==
  ASSUME NEW size \in Nat \ {0}, NEW mem \in Memory, NEW ss,
         Holds(ss, mem, size), Covers(ss, mem, size), NEW addr \in Nat
  PROVE  LET found == find_sector(ss, addr, size)
         IN  /\ Holds(found, mem, size)
             /\ Covers(found, mem, size)
             /\ \E k \in DOMAIN found :
                  found[k].base_addr = sector_base(addr, size)
             /\ \A k \in DOMAIN found :
                  \/ found[k].base_addr = sector_base(addr, size)
                  \/ k \in DOMAIN ss /\ found[k] = ss[k]
<1> DEFINE found == find_sector(ss, addr, size)
           base  == sector_base(addr, size)
           new   == EmptySector(base, size)
<1>0. ss \in Seq(SectorOf(size))
  BY DEF Holds
<1>1. CASE \E i \in DOMAIN ss : ss[i].base_addr = base
  BY <1>1 DEF find_sector
<1>2. CASE ~ \E i \in DOMAIN ss : ss[i].base_addr = base
  <2>1. found = Append(ss, new)
    BY <1>2 DEF find_sector
  <2>2. base \in Nat /\ base % size = 0
    BY SectorBase
  <2>3. /\ new.base_addr = base /\ new.size = size
        /\ \A i \in 0 .. size - 1 : new.data[i] = ErasedByte /\ new.valid[i] = FALSE
    BY DEF EmptySector
  <2>4. new \in SectorOf(size)
    <3>1. ErasedByte \in Byte
      BY DEF ErasedByte, Byte
    <3> QED BY <2>2, <3>1 DEF EmptySector, SectorOf
  <2> DEFINE l == Len(ss) + 1
  <2>5. /\ found \in Seq(SectorOf(size)) /\ DOMAIN found = 1 .. l
        /\ DOMAIN ss = 1 .. l - 1 /\ l \in Nat \ {0}
        /\ found[l] = new
        /\ \A k \in DOMAIN ss : k \in DOMAIN found /\ found[k] = ss[k]
        /\ \A k \in DOMAIN found : k = l \/ k \in DOMAIN ss
    BY <1>0, <2>1, <2>4
  <2> HIDE DEF found, new, l, base
  <2>6. ASSUME NEW i \in 0 .. size - 1 PROVE mem[base + i] = Blank
    <3>1. SUFFICES ASSUME mem[base + i] # Blank PROVE FALSE
      OBVIOUS
    <3>2. base + i \in Nat
      BY <2>2
    <3>3. PICK k \in DOMAIN ss :
            base + i \in ss[k].base_addr .. ss[k].base_addr + size - 1
      BY <3>1, <3>2 DEF Covers
    <3>4. ss[k].base_addr \in Nat /\ ss[k].base_addr % size = 0
      BY <1>0, SectorFields DEF Holds
    <3>5. sector_base(base + i, size) = ss[k].base_addr
      BY <3>2, <3>3, <3>4, SectorBase
    <3>6. base + i \in base .. base + size - 1
      BY <2>2
    <3>7. sector_base(base + i, size) = base
      BY <2>2, <3>2, <3>6, SectorBase
    <3> QED BY <1>2, <3>5, <3>7
  <2>7. Holds(found, mem, size)
    <3>1. \A k \in DOMAIN found : found[k].base_addr % size = 0
      BY <2>2, <2>3, <2>5 DEF Holds
    <3>2. \A j, k \in DOMAIN found :
            found[j].base_addr = found[k].base_addr => j = k
      BY <1>2, <2>3, <2>5 DEF Holds
    <3>3. ASSUME NEW k \in DOMAIN found, NEW i \in 0 .. size - 1
          PROVE  /\ found[k].valid[i] <=> mem[found[k].base_addr + i] # Blank
                 /\ found[k].data[i] =
                      IF mem[found[k].base_addr + i] = Blank THEN ErasedByte
                      ELSE mem[found[k].base_addr + i]
      <4>1. CASE k = l
        BY <2>3, <2>5, <2>6, <4>1
      <4>2. CASE k \in DOMAIN ss
        BY <2>5, <4>2 DEF Holds
      <4> QED BY <2>5, <4>1, <4>2
    <3> QED BY <2>5, <3>1, <3>2, <3>3 DEF Holds
  <2>8. Covers(found, mem, size)
    BY <2>5 DEF Covers
  <2>9. l \in DOMAIN found /\ found[l].base_addr = base
    BY <2>3, <2>5
  <2> QED BY <2>5, <2>7, <2>8, <2>9 DEF found, base
<1> QED BY <1>1, <1>2

\* A byte is stored in the one sector that has its address: afterwards the
\* array holds the memory with that byte in it, and every sector has a byte.
LEMMA InsertByte ==
  ASSUME NEW size \in Nat \ {0}, NEW mem \in Memory, NEW ss,
         Placed(ss, mem, size), NEW addr \in Nat, NEW byte \in Byte
  PROVE  Placed(insert_byte(ss, addr, byte, size),
                [mem EXCEPT ![addr] = byte], size)
<1> DEFINE found == find_sector(ss, addr, size)
           base  == sector_base(addr, size)
           owner == CHOOSE i \in DOMAIN found :
                      /\ found[i].base_addr = base
                      /\ \A j \in 1 .. i - 1 : found[j].base_addr # base
           off   == addr - found[owner].base_addr
           after == [found EXCEPT ![owner].data[off] = byte,
                                  ![owner].valid[off] = TRUE]
           new   == [mem EXCEPT ![addr] = byte]
<1>1. /\ Holds(found, mem, size) /\ Covers(found, mem, size)
      /\ \E k \in DOMAIN found : found[k].base_addr = base
      /\ \A k \in DOMAIN found :
           found[k].base_addr = base \/ (k \in DOMAIN ss /\ found[k] = ss[k])
  BY FindSector DEF Placed
<1>2. insert_byte(ss, addr, byte, size) = after
  BY Zenon DEF insert_byte
<1>3. /\ base \in Nat /\ base % size = 0 /\ addr - base \in 0 .. size - 1
  BY SectorBase
<1>4. found \in Seq(SectorOf(size))
  BY <1>1 DEF Holds
<1> HIDE DEF found, base
<1>5. owner \in DOMAIN found /\ found[owner].base_addr = base
  <2>1. PICK k \in DOMAIN found : found[k].base_addr = base
    BY <1>1
  <2>2. \A j \in 1 .. k - 1 : found[j].base_addr # base
    <3>1. ASSUME NEW j \in 1 .. k - 1 PROVE j \in DOMAIN found /\ j # k
      BY <1>4, <2>1
    <3> QED BY <1>1, <2>1, <3>1 DEF Holds
  <2> QED BY <2>1, <2>2
<1> HIDE DEF owner
<1>6. off = addr - base /\ off \in 0 .. size - 1 /\ base + off = addr
  BY <1>3, <1>5
<1> HIDE DEF off
<1>7. /\ found[owner] \in SectorOf(size)
      /\ found[owner].data \in [0 .. size - 1 -> Byte]
      /\ found[owner].valid \in [0 .. size - 1 -> BOOLEAN]
  BY <1>4, <1>5, SectorFields
<1> DEFINE own == [found[owner] EXCEPT !.data  = [@ EXCEPT ![off] = byte],
                                       !.valid = [@ EXCEPT ![off] = TRUE]]
<1>8. after = [found EXCEPT ![owner] = own]
  <2>1. found[owner] \in SectorOf(size) /\ owner \in DOMAIN found
    BY <1>5, <1>7
  <2> QED BY <2>1 DEF SectorOf
<1>9. /\ own \in SectorOf(size) /\ own.base_addr = base
      /\ own.data = [found[owner].data EXCEPT ![off] = byte]
      /\ own.valid = [found[owner].valid EXCEPT ![off] = TRUE]
  BY <1>5, <1>6, <1>7 DEF SectorOf
<1> HIDE DEF own
<1>10. /\ after \in Seq(SectorOf(size))
       /\ DOMAIN after = DOMAIN found
       /\ after[owner] = own
       /\ \A k \in DOMAIN found : k # owner => after[k] = found[k]
  <2>1. found \in Seq(SectorOf(size)) /\ owner \in DOMAIN found
    BY <1>4, <1>5
  <2> HIDE DEF after
  <2> QED BY <1>8, <1>9, <2>1
<1> HIDE DEF after
<1>11. /\ new \in [Nat -> Byte \cup {Blank}] /\ new[addr] = byte /\ byte # Blank
       /\ \A a \in Nat : a # addr => new[a] = mem[a]
  BY DEF Memory, Blank, Byte
<1> HIDE DEF new
<1>12. \A k \in DOMAIN found : after[k].base_addr = found[k].base_addr
  BY <1>5, <1>9, <1>10
<1>13. \A j, k \in DOMAIN found :
         found[j].base_addr = found[k].base_addr => j = k
  BY <1>1 DEF Holds
<1>14. Holds(after, new, size)
  <2>1. ASSUME NEW k \in DOMAIN found, NEW i \in 0 .. size - 1
        PROVE  /\ after[k].valid[i] <=> new[after[k].base_addr + i] # Blank
               /\ after[k].data[i] =
                    IF new[after[k].base_addr + i] = Blank THEN ErasedByte
                    ELSE new[after[k].base_addr + i]
    <3> DEFINE a == found[k].base_addr + i
    <3>1. /\ found[k].base_addr \in Nat
          /\ found[k].base_addr % size = 0 /\ a \in Nat
      <4>1. found[k].base_addr \in Nat
        BY <1>4, <2>1, SectorFields
      <4>2. found[k].base_addr % size = 0
        BY <1>1, <2>1 DEF Holds
      <4> QED BY <2>1, <4>1, <4>2
    <3>2. /\ found[k].valid[i] <=> mem[a] # Blank
          /\ found[k].data[i] = IF mem[a] = Blank THEN ErasedByte ELSE mem[a]
      BY <1>1 DEF Holds
    <3>3. CASE k # owner
      <4>1. a # addr
        <5>1. SUFFICES ASSUME a = addr PROVE FALSE
          OBVIOUS
        <5>2. addr \in found[k].base_addr .. found[k].base_addr + size - 1
          BY <3>1, <5>1
        <5>3. sector_base(addr, size) = found[k].base_addr
          BY <3>1, <5>2, SectorBase
        <5> QED BY <1>5, <1>13, <3>3, <5>3 DEF base
      <4>2. new[a] = mem[a]
        BY <1>11, <3>1, <4>1
      <4> QED BY <1>10, <1>12, <3>2, <3>3, <4>2
    <3>4. CASE k = owner
      <4>1. found[k].base_addr = base /\ a = base + i
        BY <1>5, <3>4
      <4> HIDE DEF a
      <4>2. CASE i = off
        <5>1. a = addr /\ new[a] = byte
          BY <1>6, <1>11, <4>1, <4>2
        <5>2. own.data[i] = byte /\ own.valid[i] = TRUE
          BY <1>6, <1>7, <1>9, <4>2
        <5>3. after[k] = own /\ after[k].base_addr + i = a
          BY <1>10, <1>12, <3>4 DEF a
        <5> QED BY <1>11, <5>1, <5>2, <5>3
      <4>3. CASE i # off
        <5>1. a # addr /\ new[a] = mem[a]
          BY <1>3, <1>6, <1>11, <3>1, <4>1, <4>3
        <5>2. own.data[i] = found[k].data[i] /\ own.valid[i] = found[k].valid[i]
          BY <1>6, <1>7, <1>9, <3>4, <4>3
        <5>3. after[k] = own /\ after[k].base_addr + i = a
          BY <1>10, <1>12, <3>4 DEF a
        <5> QED BY <3>2, <5>1, <5>2, <5>3
      <4> QED BY <4>2, <4>3
    <3> QED BY <3>3, <3>4
  <2>2. \A k \in DOMAIN after : after[k].base_addr % size = 0
    BY <1>1, <1>10, <1>12 DEF Holds
  <2>3. \A j, k \in DOMAIN after :
          after[j].base_addr = after[k].base_addr => j = k
    BY <1>10, <1>12, <1>13
  <2> QED BY <1>10, <2>1, <2>2, <2>3 DEF Holds
<1>15. Covers(after, new, size)
  <2>1. ASSUME NEW a \in Nat, new[a] # Blank
        PROVE  \E k \in DOMAIN found :
                 a \in found[k].base_addr .. found[k].base_addr + size - 1
    <3>1. CASE a = addr
      <4>1. addr \in base .. base + size - 1
        BY <1>3
      <4> QED BY <1>5, <3>1, <4>1
    <3>2. CASE a # addr
      <4>1. mem[a] # Blank
        BY <1>11, <2>1, <3>2
      <4> QED BY <1>1, <4>1 DEF Covers
    <3> QED BY <3>1, <3>2
  <2> QED BY <1>10, <1>12, <2>1 DEF Covers
<1>16. Programmed(after, size)
  <2>1. ASSUME NEW k \in DOMAIN found
        PROVE  \E i \in 0 .. size - 1 : after[k].valid[i]
    <3>1. CASE k = owner
      <4>1. own.valid[off] = TRUE
        BY <1>6, <1>7, <1>9
      <4> QED BY <1>6, <1>10, <3>1, <4>1
    <3>2. CASE k # owner
      <4>1. k \in DOMAIN ss /\ after[k] = ss[k]
        BY <1>1, <1>5, <1>10, <1>13, <3>2
      <4> QED BY <4>1 DEF Placed, Programmed
    <3> QED BY <3>1, <3>2
  <2> QED BY <1>10, <2>1 DEF Programmed
<1> QED BY <1>2, <1>14, <1>15, <1>16 DEF Placed, new

-----------------------------------------------------------------------------
(* The loops of pipeline.c. *)

\* The arrays the builder goes through.
Arrays(size) ==
  {ss \in Seq(SectorOf(size)) : \E mem \in Memory : Placed(ss, mem, size)}

Record == [type : Byte, address : Nat, data : Seq(Byte)]

ByteAddress(rec, n) == (rec.address + n - 1) % AddrSpace

\* The loop over the bytes of a record.
ByteTurns(rec, size) ==
  [turn \in Arrays(size) \X (1 .. Len(rec.data)) |->
     insert_byte(turn[1], ByteAddress(rec, turn[2]), rec.data[turn[2]], size)]

Positions(rec) == [i \in DOMAIN rec.data |-> i]

BytesFolded(rec, ss, size, iter) ==
  iter = [s \in SUBSET DOMAIN Positions(rec) |->
            IF s = {} THEN ss
            ELSE insert_byte(iter[s \ {Max(s)}],
                             (rec.address + Positions(rec)[Max(s)] - 1) % AddrSpace,
                             rec.data[Positions(rec)[Max(s)]], size)]

LEMMA RecordFold ==
  ASSUME NEW rec, NEW ss, NEW size, rec.type = DATA_RECORD
  PROVE  insert_record(ss, rec, size) =
           (CHOOSE iter : BytesFolded(rec, ss, size, iter))[DOMAIN Positions(rec)]
  BY Zenon DEF insert_record, FoldLeft, MapThenFoldSet, BytesFolded, Positions

LEMMA ByteAddressNat ==
  ASSUME NEW rec \in Record, NEW n \in 1 .. Len(rec.data)
  PROVE  ByteAddress(rec, n) \in 0 .. AddrSpace - 1
<1>1. rec.address + n - 1 \in Nat /\ AddrSpace \in Nat \ {0}
  BY AddrSpaceAssumption DEF Record
<1> DEFINE sum == rec.address + n - 1
<1> HIDE DEF sum
<1>2. sum \in Nat /\ AddrSpace \in Nat \ {0} => sum % AddrSpace \in 0 .. AddrSpace - 1
  OBVIOUS
<1> QED BY <1>1, <1>2 DEF ByteAddress, sum

LEMMA ByteTurnsType ==
  ASSUME NEW size \in Nat \ {0}, NEW rec \in Record
  PROVE  ByteTurns(rec, size) \in
           [Arrays(size) \X (1 .. Len(rec.data)) -> Arrays(size)]
<1>1. ASSUME NEW ss \in Arrays(size), NEW n \in 1 .. Len(rec.data)
      PROVE  insert_byte(ss, ByteAddress(rec, n), rec.data[n], size) \in Arrays(size)
  <2> DEFINE addr == ByteAddress(rec, n)
             byte == rec.data[n]
  <2>1. addr \in Nat /\ byte \in Byte
    BY ByteAddressNat, AddrSpaceAssumption DEF Record
  <2>2. PICK mem \in Memory : Placed(ss, mem, size)
    BY DEF Arrays
  <2> HIDE DEF addr, byte
  <2> DEFINE new == [mem EXCEPT ![addr] = byte]
  <2>3. Placed(insert_byte(ss, addr, byte, size), new, size)
    BY <2>1, <2>2, InsertByte
  <2>4. new \in Memory
    BY <2>1 DEF Memory
  <2> HIDE DEF new
  <2>5. insert_byte(ss, addr, byte, size) \in Seq(SectorOf(size))
    BY <2>3 DEF Placed, Holds
  <2>6. insert_byte(ss, addr, byte, size) \in Arrays(size)
    BY <2>3, <2>4, <2>5 DEF Arrays
  <2> QED BY <2>6 DEF addr, byte
<1> DEFINE A == Arrays(size)
           N == 1 .. Len(rec.data)
           Value(turn) == insert_byte(turn[1], ByteAddress(rec, turn[2]),
                                      rec.data[turn[2]], size)
<1>2. \A turn \in A \X N : Value(turn) \in A
  <2>1. ASSUME NEW turn \in A \X N PROVE Value(turn) \in A
    <3>1. turn[1] \in A /\ turn[2] \in N
      OBVIOUS
    <3> QED BY <1>1, <3>1
  <2> QED BY <2>1
<1>3. ByteTurns(rec, size) = [turn \in A \X N |-> Value(turn)]
  BY DEF ByteTurns
<1> HIDE DEF A, N, Value
<1>4. ByteTurns(rec, size) \in [A \X N -> A]
  BY <1>2, <1>3
<1> QED BY <1>4 DEF A, N

\* insert_record stores the bytes of a data record one after the other.
BytesStored(acc, rec, ss, size) ==
  /\ acc[0] = ss
  /\ \A i \in 1 .. Len(rec.data) :
       acc[i] = insert_byte(acc[i - 1], ByteAddress(rec, i), rec.data[i], size)

LEMMA RecordRun ==
  ASSUME NEW size \in Nat \ {0}, NEW rec \in Record, rec.type = DATA_RECORD,
         NEW ss \in Arrays(size)
  PROVE  \E acc : /\ BytesStored(acc, rec, ss, size)
                  /\ insert_record(ss, rec, size) = acc[Len(rec.data)]
<1> DEFINE n  == Len(rec.data)
           A  == Arrays(size)
           op == ByteTurns(rec, size)
           Store(iter, s) ==
             IF s = {} THEN ss
             ELSE insert_byte(iter[s \ {Max(s)}],
                    (rec.address + Positions(rec)[Max(s)] - 1) % AddrSpace,
                    rec.data[Positions(rec)[Max(s)]], size)
<1>1. n \in Nat /\ DOMAIN rec.data = 1 .. n
  BY DEF Record
<1>2. op \in [A \X (1 .. n) -> A] /\ ss \in A
  BY ByteTurnsType
<1>3. DOMAIN Positions(rec) = 1 .. n /\ \A i \in 1 .. n : Positions(rec)[i] = i
  BY <1>1 DEF Positions
<1>4. ASSUME NEW iter
      PROVE  BytesFolded(rec, ss, size, iter)
               <=> iter = [s \in SUBSET (1 .. n) |-> Store(iter, s)]
  BY <1>3 DEF BytesFolded
<1>5. \E iter : BytesFolded(rec, ss, size, iter)
  <2>1. PICK iter \in [SUBSET (1 .. n) -> A] : Folded(op, ss, n, iter)
    <3> HIDE DEF n, A, op
    <3> QED BY <1>1, <1>2, FoldExists
  <2>2. ASSUME NEW s \in SUBSET (1 .. n)
        PROVE  Turn(op, ss, iter, s) = Store(iter, s)
    <3>1. CASE s = {}
      BY <3>1 DEF Turn
    <3>2. CASE s # {}
      <4> DEFINE m    == Max(s)
                 turn == <<iter[s \ {m}], m>>
      <4>1. m \in 1 .. n
        BY <1>1, <3>2, LastPosition
      <4>2. s \ {m} \in SUBSET (1 .. n)
        OBVIOUS
      <4>3. turn \in A \X (1 .. n) /\ turn[1] = iter[s \ {m}] /\ turn[2] = m
        BY <4>1, <4>2
      <4>4. op[turn] = insert_byte(turn[1], ByteAddress(rec, turn[2]),
                                   rec.data[turn[2]], size)
        BY <4>3, Zenon DEF ByteTurns
      <4>5. Turn(op, ss, iter, s) = op[turn]
        BY <3>2 DEF Turn
      <4>6. Positions(rec)[m] = m
        BY <1>3, <4>1
      <4>7. Store(iter, s) = insert_byte(iter[s \ {m}], ByteAddress(rec, m),
                                         rec.data[m], size)
        BY <3>2, <4>6 DEF ByteAddress
      <4> HIDE DEF op, m, turn, Store
      <4> QED BY <4>3, <4>4, <4>5, <4>7
    <3> QED BY <3>1, <3>2
  <2>3. iter = [s \in SUBSET (1 .. n) |-> Store(iter, s)]
    <3> HIDE DEF Store
    <3>1. [s \in SUBSET (1 .. n) |-> Turn(op, ss, iter, s)]
            = [s \in SUBSET (1 .. n) |-> Store(iter, s)]
      BY <2>2
    <3> QED BY <2>1, <3>1, Zenon DEF Folded
  <2> QED BY <1>4, <2>3
<1> DEFINE it  == CHOOSE iter : BytesFolded(rec, ss, size, iter)
           acc == [i \in 0 .. n |-> it[1 .. i]]
<1>6. it = [s \in SUBSET (1 .. n) |-> Store(it, s)]
  <2>1. BytesFolded(rec, ss, size, it)
    BY <1>5, Zenon
  <2> HIDE DEF it, Store
  <2> QED BY <1>4, <2>1
<1>7. insert_record(ss, rec, size) = it[1 .. n]
  BY <1>3, RecordFold, Zenon
<1> HIDE DEF it
<1>8. \A s \in SUBSET (1 .. n) : it[s] = Store(it, s)
  <2> HIDE DEF Store
  <2> QED BY <1>6, Zenon
<1>9. acc[0] = ss
  <2>1. acc[0] = it[1 .. 0]
    BY <1>1
  <2> QED BY <1>1, <1>8, <2>1, Turns
<1>10. ASSUME NEW i \in 1 .. n
       PROVE  acc[i] = insert_byte(acc[i - 1], ByteAddress(rec, i), rec.data[i], size)
  <2>1. acc[i] = it[1 .. i] /\ acc[i - 1] = it[1 .. (i - 1)]
    BY <1>1
  <2>2. /\ 1 .. i \in SUBSET (1 .. n) /\ 1 .. i # {} /\ Max(1 .. i) = i
        /\ (1 .. i) \ {i} = 1 .. (i - 1)
    BY <1>1, Turns
  <2>3. Positions(rec)[i] = i
    BY <1>3
  <2> HIDE DEF acc
  <2>4. it[1 .. i] = insert_byte(it[1 .. (i - 1)], (rec.address + i - 1) % AddrSpace,
                                 rec.data[i], size)
    BY <1>8, <2>2, <2>3
  <2> QED BY <2>1, <2>4 DEF ByteAddress
<1>11. insert_record(ss, rec, size) = acc[n]
  BY <1>1, <1>7
<1>12. BytesStored(acc, rec, ss, size)
  <2> HIDE DEF acc
  <2> QED BY <1>9, <1>10 DEF BytesStored
<1> HIDE DEF acc
<1> QED BY <1>11, <1>12

-----------------------------------------------------------------------------
(* What the memory holds.  Byte n of record k comes before byte m + 1 of   *)
(* record i when k is less than i, or k is i and n at most m.              *)

Writes(recs, a, k, n) ==
  /\ recs[k].type = DATA_RECORD
  /\ ByteAddress(recs[k], n) = a

Earlier(k, n, i, m) == k < i \/ (k = i /\ n <= m)

WrittenBy(recs, mem, a, k, n, i, m) ==
  /\ Writes(recs, a, k, n) /\ Earlier(k, n, i, m)
  /\ mem[a] = recs[k].data[n]
  /\ \A l \in DOMAIN recs : \A o \in DOMAIN recs[l].data :
       Writes(recs, a, l, o) /\ Earlier(l, o, i, m) => Earlier(l, o, k, n)

Unwritten(recs, mem, a, i, m) ==
  /\ mem[a] = Blank
  /\ \A k \in DOMAIN recs : \A n \in DOMAIN recs[k].data :
       Writes(recs, a, k, n) => ~Earlier(k, n, i, m)

\* The memory after byte m of record i: at each address what the last writer
\* up to there has left, or nothing.
Upto(recs, mem, i, m) ==
  \A a \in Nat :
    \/ Unwritten(recs, mem, a, i, m)
    \/ \E k \in DOMAIN recs : \E n \in DOMAIN recs[k].data :
         WrittenBy(recs, mem, a, k, n, i, m)

LEMMA PositionTypes ==
  ASSUME NEW recs \in Seq(Record), NEW k \in DOMAIN recs
  PROVE  /\ k \in Nat \ {0} /\ k <= Len(recs) /\ Len(recs) \in Nat
         /\ recs[k] \in Record
         /\ recs[k].data \in Seq(Byte) /\ recs[k].type \in Byte
         /\ Len(recs[k].data) \in Nat
         /\ DOMAIN recs[k].data = 1 .. Len(recs[k].data)
         /\ \A n \in DOMAIN recs[k].data :
              /\ n \in 1 .. Len(recs[k].data)
              /\ recs[k].data[n] \in Byte
              /\ ByteAddress(recs[k], n) \in 0 .. AddrSpace - 1
              /\ ByteAddress(recs[k], n) \in Nat
<1>1. recs[k] \in Record /\ k \in Nat \ {0} /\ k <= Len(recs) /\ Len(recs) \in Nat
  OBVIOUS
<1>2. recs[k].data \in Seq(Byte) /\ recs[k].type \in Byte
  BY <1>1 DEF Record
<1>3. \A n \in DOMAIN recs[k].data :
        /\ n \in 1 .. Len(recs[k].data) /\ recs[k].data[n] \in Byte
        /\ ByteAddress(recs[k], n) \in 0 .. AddrSpace - 1
  BY <1>1, <1>2, ByteAddressNat
<1>4. AddrSpace \in Nat
  BY AddrSpaceAssumption
<1> QED BY <1>1, <1>2, <1>3, <1>4

\* One more byte: it is the last writer of its address, and nothing else
\* changes.
LEMMA OneByteMore ==
  ASSUME NEW recs \in Seq(Record), NEW mem \in Memory, NEW i \in DOMAIN recs,
         recs[i].type = DATA_RECORD, NEW m \in 1 .. Len(recs[i].data),
         Upto(recs, mem, i, m - 1)
  PROVE  LET new == [mem EXCEPT ![ByteAddress(recs[i], m)] = recs[i].data[m]]
         IN  new \in Memory /\ Upto(recs, new, i, m)
<1> DEFINE addr == ByteAddress(recs[i], m)
           new  == [mem EXCEPT ![addr] = recs[i].data[m]]
<1>1. m \in DOMAIN recs[i].data /\ addr \in Nat /\ recs[i].data[m] \in Byte
      /\ m \in Nat \ {0} /\ i \in Nat
  BY PositionTypes
<1>2. new \in Memory
  BY <1>1 DEF Memory
<1>3. /\ new[addr] = recs[i].data[m]
      /\ \A a \in Nat : a # addr => new[a] = mem[a]
  BY <1>1 DEF Memory
<1> HIDE DEF new
<1>4. ASSUME NEW k \in DOMAIN recs, NEW n \in DOMAIN recs[k].data
      PROVE  /\ k \in Nat /\ n \in Nat
             /\ Earlier(k, n, i, m) <=> Earlier(k, n, i, m - 1) \/ (k = i /\ n = m)
  BY <1>1, PositionTypes DEF Earlier
<1>5. ASSUME NEW a \in Nat
      PROVE  \/ Unwritten(recs, new, a, i, m)
             \/ \E k \in DOMAIN recs : \E n \in DOMAIN recs[k].data :
                  WrittenBy(recs, new, a, k, n, i, m)
  <2>1. CASE a = addr
    <3>1. Writes(recs, a, i, m) /\ Earlier(i, m, i, m)
      BY <1>1, <2>1 DEF Writes, Earlier
    <3>2. WrittenBy(recs, new, a, i, m, i, m)
      BY <1>3, <2>1, <3>1 DEF WrittenBy
    <3> QED BY <1>1, <3>2
  <2>2. CASE a # addr
    <3>1. new[a] = mem[a] /\ ~Writes(recs, a, i, m)
      BY <1>3, <2>2 DEF Writes
    <3>2. CASE Unwritten(recs, mem, a, i, m - 1)
      <4>1. Unwritten(recs, new, a, i, m)
        BY <1>4, <3>1, <3>2 DEF Unwritten
      <4> QED BY <4>1
    <3>3. ASSUME NEW k \in DOMAIN recs, NEW n \in DOMAIN recs[k].data,
                 WrittenBy(recs, mem, a, k, n, i, m - 1)
          PROVE  WrittenBy(recs, new, a, k, n, i, m)
      <4>1. /\ Writes(recs, a, k, n) /\ Earlier(k, n, i, m)
            /\ new[a] = recs[k].data[n]
        BY <1>4, <3>1, <3>3 DEF WrittenBy
      <4>2. ASSUME NEW l \in DOMAIN recs, NEW o \in DOMAIN recs[l].data,
                   Writes(recs, a, l, o), Earlier(l, o, i, m)
            PROVE  Earlier(l, o, k, n)
        <5>1. Earlier(l, o, i, m - 1)
          BY <1>4, <3>1, <4>2
        <5> QED BY <3>3, <4>2, <5>1 DEF WrittenBy
      <4> QED BY <4>1, <4>2 DEF WrittenBy
    <3> QED BY <3>2, <3>3 DEF Upto
  <2> QED BY <2>1, <2>2
<1> QED BY <1>2, <1>5 DEF Upto, new

\* From one record to the next: after the last byte of a data record, or
\* before the first of any other.
LEMMA NextRecord ==
  ASSUME NEW recs \in Seq(Record), NEW mem \in Memory, NEW i \in DOMAIN recs,
         NEW m \in Nat, Upto(recs, mem, i, m),
         recs[i].type = DATA_RECORD => m = Len(recs[i].data)
  PROVE  Upto(recs, mem, i + 1, 0)
<1>1. ASSUME NEW k \in DOMAIN recs, NEW n \in DOMAIN recs[k].data, NEW a \in Nat,
             Writes(recs, a, k, n)
      PROVE  Earlier(k, n, i + 1, 0) <=> Earlier(k, n, i, m)
  BY <1>1, PositionTypes DEF Earlier, Writes
<1>2. ASSUME NEW a \in Nat, Unwritten(recs, mem, a, i, m)
      PROVE  Unwritten(recs, mem, a, i + 1, 0)
  BY <1>1, <1>2 DEF Unwritten
<1>3. ASSUME NEW a \in Nat, NEW k \in DOMAIN recs, NEW n \in DOMAIN recs[k].data,
             WrittenBy(recs, mem, a, k, n, i, m)
      PROVE  WrittenBy(recs, mem, a, k, n, i + 1, 0)
  BY <1>1, <1>3 DEF WrittenBy
<1> QED BY <1>2, <1>3 DEF Upto

\* insert_record takes the array and the memory one record further.
LEMMA InsertRecord ==
  ASSUME NEW size \in Nat \ {0}, NEW recs \in Seq(Record), NEW i \in DOMAIN recs,
         NEW ss, NEW mem \in Memory, Placed(ss, mem, size), Upto(recs, mem, i, 0)
  PROVE  \E new \in Memory : /\ Placed(insert_record(ss, recs[i], size), new, size)
                             /\ Upto(recs, new, i + 1, 0)
<1> DEFINE rec == recs[i]
           n   == Len(rec.data)
<1>1. /\ rec \in Record /\ n \in Nat /\ DOMAIN rec.data = 1 .. n
      /\ \A m \in 1 .. n : rec.data[m] \in Byte /\ ByteAddress(rec, m) \in Nat
  BY PositionTypes
<1>2. CASE rec.type # DATA_RECORD
  <2>1. insert_record(ss, rec, size) = ss
    BY <1>2 DEF insert_record
  <2>2. Upto(recs, mem, i + 1, 0)
    BY <1>2, NextRecord
  <2> QED BY <2>1, <2>2
<1>3. CASE rec.type = DATA_RECORD
  <2>1. ss \in Arrays(size)
    BY DEF Arrays, Placed, Holds
  <2>2. PICK acc : BytesStored(acc, rec, ss, size)
                   /\ insert_record(ss, rec, size) = acc[n]
    BY <1>1, <1>3, <2>1, RecordRun
  <2> DEFINE Good(m) == \E new \in Memory : /\ Placed(acc[m], new, size)
                                            /\ Upto(recs, new, i, m)
             Bad == {m \in 0 .. n : ~Good(m)}
  <2>3. ASSUME Bad # {} PROVE FALSE
    <3>1. PICK m \in Bad : \A x \in Bad : m <= x
      <4>1. Bad \subseteq Nat
        OBVIOUS
      <4> HIDE DEF Bad
      <4> QED BY <2>3, <4>1, SmallestNat
    <3>2. m \in 0 .. n /\ ~Good(m)
      OBVIOUS
    <3>3. m # 0
      <4>1. Good(0)
        BY <2>2 DEF BytesStored
      <4> HIDE DEF Good
      <4> QED BY <3>2, <4>1
    <3>4. m \in 1 .. n /\ m - 1 \in 0 .. n /\ Good(m - 1)
      <4>1. m \in 1 .. n /\ m - 1 \in 0 .. n /\ ~(m <= m - 1)
        BY <1>1, <3>2, <3>3
      <4>2. m - 1 \notin Bad
        <5> HIDE DEF Bad
        <5> QED BY <3>1, <4>1
      <4> HIDE DEF Good
      <4> QED BY <4>1, <4>2
    <3>5. PICK old \in Memory : Placed(acc[m - 1], old, size)
                                /\ Upto(recs, old, i, m - 1)
      BY <3>4
    <3> DEFINE new == [old EXCEPT ![ByteAddress(rec, m)] = rec.data[m]]
    <3>6. acc[m] = insert_byte(acc[m - 1], ByteAddress(rec, m), rec.data[m], size)
      BY <2>2, <3>4 DEF BytesStored
    <3>7. Placed(acc[m], new, size)
      BY <1>1, <3>4, <3>5, <3>6, InsertByte
    <3>8. new \in Memory /\ Upto(recs, new, i, m)
      BY <1>3, <3>4, <3>5, OneByteMore
    <3> HIDE DEF new
    <3> QED BY <3>2, <3>7, <3>8
  <2>4. Good(n)
    <3> HIDE DEF Good
    <3>1. n \in 0 .. n
      BY <1>1
    <3> QED BY <2>3, <3>1
  <2>5. PICK new \in Memory : Placed(acc[n], new, size) /\ Upto(recs, new, i, n)
    BY <2>4
  <2>6. Upto(recs, new, i + 1, 0)
    BY <1>1, <2>5, NextRecord
  <2> QED BY <2>2, <2>5, <2>6
<1> QED BY <1>2, <1>3

-----------------------------------------------------------------------------
(* pipeline_build. *)

LEMMA InsertRecordType ==
  ASSUME NEW size \in Nat \ {0}, NEW rec \in Record, NEW ss \in Arrays(size)
  PROVE  insert_record(ss, rec, size) \in Arrays(size)
<1>1. CASE rec.type # DATA_RECORD
  BY <1>1 DEF insert_record
<1>2. CASE rec.type = DATA_RECORD
  <2> DEFINE n == Len(rec.data)
  <2>1. n \in Nat
    BY DEF Record
  <2>2. PICK acc : BytesStored(acc, rec, ss, size)
                   /\ insert_record(ss, rec, size) = acc[n]
    BY <1>2, RecordRun
  <2> DEFINE Bad == {m \in 0 .. n : acc[m] \notin Arrays(size)}
  <2>3. ASSUME Bad # {} PROVE FALSE
    <3>1. PICK m \in Bad : \A x \in Bad : m <= x
      <4>1. Bad \subseteq Nat
        OBVIOUS
      <4> HIDE DEF Bad
      <4> QED BY <2>3, <4>1, SmallestNat
    <3>2. m \in 0 .. n /\ acc[m] \notin Arrays(size)
      OBVIOUS
    <3>3. m # 0
      BY <2>2, <3>2 DEF BytesStored
    <3>4. m \in 1 .. n /\ m - 1 \in 0 .. n /\ acc[m - 1] \in Arrays(size)
      <4>1. m \in 1 .. n /\ m - 1 \in 0 .. n /\ ~(m <= m - 1)
        BY <2>1, <3>2, <3>3
      <4>2. m - 1 \notin Bad
        <5> HIDE DEF Bad
        <5> QED BY <3>1, <4>1
      <4> QED BY <4>1, <4>2
    <3> DEFINE turn == <<acc[m - 1], m>>
    <3>5. turn \in Arrays(size) \X (1 .. Len(rec.data))
          /\ turn[1] = acc[m - 1] /\ turn[2] = m
      BY <3>4
    <3> HIDE DEF turn
    <3>6. ByteTurns(rec, size)[turn] \in Arrays(size)
      BY <3>5, ByteTurnsType
    <3>7. ByteTurns(rec, size)[turn]
            = insert_byte(turn[1], ByteAddress(rec, turn[2]),
                          rec.data[turn[2]], size)
      BY <3>5, Zenon DEF ByteTurns
    <3>8. acc[m] = insert_byte(acc[m - 1], ByteAddress(rec, m), rec.data[m], size)
      BY <2>2, <3>4 DEF BytesStored
    <3> HIDE DEF Bad
    <3> QED BY <3>2, <3>5, <3>6, <3>7, <3>8
  <2>4. n \notin Bad
    BY <2>3
  <2> QED BY <2>1, <2>2, <2>4
<1> QED BY <1>1, <1>2

\* The loop over the records.
RecordTurns(recs, size) ==
  [turn \in Arrays(size) \X (1 .. Len(recs)) |->
     insert_record(turn[1], recs[turn[2]], size)]

LEMMA RecordTurnsType ==
  ASSUME NEW size \in Nat \ {0}, NEW recs \in Seq(Record)
  PROVE  RecordTurns(recs, size) \in
           [Arrays(size) \X (1 .. Len(recs)) -> Arrays(size)]
<1> DEFINE A == Arrays(size)
           N == 1 .. Len(recs)
           Value(turn) == insert_record(turn[1], recs[turn[2]], size)
<1>1. \A turn \in A \X N : Value(turn) \in A
  <2>1. ASSUME NEW turn \in A \X N PROVE Value(turn) \in A
    <3>1. turn[1] \in A /\ turn[2] \in N
      OBVIOUS
    <3>2. recs[turn[2]] \in Record
      BY <3>1
    <3> QED BY <3>1, <3>2, InsertRecordType
  <2> QED BY <2>1
<1>2. RecordTurns(recs, size) = [turn \in A \X N |-> Value(turn)]
  BY DEF RecordTurns
<1> HIDE DEF A, N, Value
<1>3. RecordTurns(recs, size) \in [A \X N -> A]
  BY <1>1, <1>2
<1> QED BY <1>3 DEF A, N

RecordsFolded(recs, size, iter) ==
  iter = [s \in SUBSET DOMAIN recs |->
            IF s = {} THEN <<>>
            ELSE insert_record(iter[s \ {Max(s)}], recs[Max(s)], size)]

LEMMA BuildFold ==
  ASSUME NEW recs, NEW size
  PROVE  pipeline_build(recs, size) =
           (CHOOSE iter : RecordsFolded(recs, size, iter))[DOMAIN recs]
  BY Zenon DEF pipeline_build, FoldLeft, MapThenFoldSet, RecordsFolded

\* An empty array holds an empty memory.
LEMMA NothingPlaced ==
  ASSUME NEW size \in Nat \ {0}
  PROVE  /\ [a \in Nat |-> Blank] \in Memory
         /\ Placed(<<>>, [a \in Nat |-> Blank], size)
         /\ <<>> \in Arrays(size)
<1> DEFINE mem == [a \in Nat |-> Blank]
<1>1. mem \in Memory /\ \A a \in Nat : mem[a] = Blank
  BY DEF Memory
<1> HIDE DEF mem
<1>2. <<>> \in Seq(SectorOf(size)) /\ \A k \in DOMAIN <<>> : FALSE
  OBVIOUS
<1>3. Placed(<<>>, mem, size)
  BY <1>1, <1>2 DEF Placed, Holds, Covers, Programmed
<1>4. <<>> \in Arrays(size)
  BY <1>1, <1>2, <1>3 DEF Arrays
<1> QED BY <1>1, <1>3, <1>4 DEF mem

\* pipeline_build inserts the records one after the other.
RecordsInserted(acc, recs, size) ==
  /\ acc[0] = <<>>
  /\ \A i \in 1 .. Len(recs) : acc[i] = insert_record(acc[i - 1], recs[i], size)

LEMMA BuildRun ==
  ASSUME NEW size \in Nat \ {0}, NEW recs \in Seq(Record)
  PROVE  \E acc : /\ RecordsInserted(acc, recs, size)
                  /\ pipeline_build(recs, size) = acc[Len(recs)]
<1> DEFINE n  == Len(recs)
           A  == Arrays(size)
           op == RecordTurns(recs, size)
           Insert(iter, s) ==
             IF s = {} THEN <<>>
             ELSE insert_record(iter[s \ {Max(s)}], recs[Max(s)], size)
<1>1. n \in Nat /\ DOMAIN recs = 1 .. n
  OBVIOUS
<1>2. op \in [A \X (1 .. n) -> A] /\ <<>> \in A
  BY RecordTurnsType, NothingPlaced
<1>3. ASSUME NEW iter
      PROVE  RecordsFolded(recs, size, iter)
               <=> iter = [s \in SUBSET (1 .. n) |-> Insert(iter, s)]
  BY <1>1, Zenon DEF RecordsFolded
<1>4. \E iter : RecordsFolded(recs, size, iter)
  <2>1. PICK iter \in [SUBSET (1 .. n) -> A] : Folded(op, <<>>, n, iter)
    <3> HIDE DEF n, A, op
    <3> QED BY <1>1, <1>2, FoldExists
  <2>2. ASSUME NEW s \in SUBSET (1 .. n)
        PROVE  Turn(op, <<>>, iter, s) = Insert(iter, s)
    <3>1. CASE s = {}
      BY <3>1 DEF Turn
    <3>2. CASE s # {}
      <4> DEFINE m    == Max(s)
                 turn == <<iter[s \ {m}], m>>
      <4>1. m \in 1 .. n
        BY <1>1, <3>2, LastPosition
      <4>2. s \ {m} \in SUBSET (1 .. n)
        OBVIOUS
      <4>3. turn \in A \X (1 .. n) /\ turn[1] = iter[s \ {m}] /\ turn[2] = m
        BY <4>1, <4>2
      <4>4. op[turn] = insert_record(turn[1], recs[turn[2]], size)
        BY <4>3, Zenon DEF RecordTurns
      <4>5. Turn(op, <<>>, iter, s) = op[turn]
        BY <3>2 DEF Turn
      <4>6. Insert(iter, s) = insert_record(iter[s \ {m}], recs[m], size)
        BY <3>2
      <4> HIDE DEF op, m, turn, Insert
      <4> QED BY <4>3, <4>4, <4>5, <4>6
    <3> QED BY <3>1, <3>2
  <2>3. iter = [s \in SUBSET (1 .. n) |-> Insert(iter, s)]
    <3> HIDE DEF Insert
    <3>1. [s \in SUBSET (1 .. n) |-> Turn(op, <<>>, iter, s)]
            = [s \in SUBSET (1 .. n) |-> Insert(iter, s)]
      BY <2>2
    <3> QED BY <2>1, <3>1, Zenon DEF Folded
  <2> QED BY <1>3, <2>3
<1> DEFINE it  == CHOOSE iter : RecordsFolded(recs, size, iter)
           acc == [i \in 0 .. n |-> it[1 .. i]]
<1>5. it = [s \in SUBSET (1 .. n) |-> Insert(it, s)]
  <2>1. RecordsFolded(recs, size, it)
    BY <1>4, Zenon
  <2> HIDE DEF it, Insert
  <2> QED BY <1>3, <2>1
<1>6. pipeline_build(recs, size) = it[1 .. n]
  BY <1>1, BuildFold, Zenon
<1> HIDE DEF it
<1>7. \A s \in SUBSET (1 .. n) : it[s] = Insert(it, s)
  <2> HIDE DEF Insert
  <2> QED BY <1>5, Zenon
<1>8. acc[0] = <<>>
  <2>1. acc[0] = it[1 .. 0]
    BY <1>1
  <2> QED BY <1>1, <1>7, <2>1, Turns
<1>9. ASSUME NEW i \in 1 .. n
      PROVE  acc[i] = insert_record(acc[i - 1], recs[i], size)
  <2>1. acc[i] = it[1 .. i] /\ acc[i - 1] = it[1 .. (i - 1)]
    BY <1>1
  <2>2. /\ 1 .. i \in SUBSET (1 .. n) /\ 1 .. i # {} /\ Max(1 .. i) = i
        /\ (1 .. i) \ {i} = 1 .. (i - 1)
    BY <1>1, Turns
  <2> HIDE DEF acc
  <2>3. it[1 .. i] = insert_record(it[1 .. (i - 1)], recs[i], size)
    BY <1>7, <2>2
  <2> QED BY <2>1, <2>3
<1>10. pipeline_build(recs, size) = acc[n]
  BY <1>1, <1>6
<1>11. RecordsInserted(acc, recs, size)
  <2> HIDE DEF acc
  <2> QED BY <1>8, <1>9 DEF RecordsInserted
<1> HIDE DEF acc
<1> QED BY <1>10, <1>11

\* The array pipeline_build returns holds what the records write, the last
\* writer of an address winning.
LEMMA Built ==
  ASSUME NEW size \in Nat \ {0}, NEW recs \in Seq(Record)
  PROVE  \E mem \in Memory : /\ Placed(pipeline_build(recs, size), mem, size)
                             /\ Upto(recs, mem, Len(recs) + 1, 0)
<1> DEFINE n == Len(recs)
<1>1. n \in Nat /\ DOMAIN recs = 1 .. n
  OBVIOUS
<1>2. PICK acc : RecordsInserted(acc, recs, size)
                 /\ pipeline_build(recs, size) = acc[n]
  BY BuildRun
<1> DEFINE Good(m) == \E mem \in Memory : /\ Placed(acc[m], mem, size)
                                          /\ Upto(recs, mem, m + 1, 0)
           Bad == {m \in 0 .. n : ~Good(m)}
<1>3. ASSUME Bad # {} PROVE FALSE
  <2>1. PICK m \in Bad : \A x \in Bad : m <= x
    <3>1. Bad \subseteq Nat
      OBVIOUS
    <3> HIDE DEF Bad
    <3> QED BY <1>3, <3>1, SmallestNat
  <2>2. m \in 0 .. n /\ ~Good(m)
    OBVIOUS
  <2>3. m # 0
    <3> DEFINE none == [a \in Nat |-> Blank]
    <3>1. none \in Memory /\ Placed(acc[0], none, size)
      BY <1>2, NothingPlaced DEF RecordsInserted
    <3>2. Upto(recs, none, 1, 0)
      <4>1. ASSUME NEW a \in Nat PROVE Unwritten(recs, none, a, 1, 0)
        BY PositionTypes DEF Unwritten, Earlier
      <4> QED BY <4>1 DEF Upto
    <3> HIDE DEF none
    <3>3. Good(0)
      BY <3>1, <3>2
    <3> HIDE DEF Good
    <3> QED BY <2>2, <3>3
  <2>4. m \in 1 .. n /\ m - 1 \in 0 .. n /\ Good(m - 1)
    <3>1. m \in 1 .. n /\ m - 1 \in 0 .. n /\ ~(m <= m - 1)
      BY <1>1, <2>2, <2>3
    <3>2. m - 1 \notin Bad
      <4> HIDE DEF Bad
      <4> QED BY <2>1, <3>1
    <3> HIDE DEF Good
    <3> QED BY <3>1, <3>2
  <2>5. PICK old \in Memory : Placed(acc[m - 1], old, size) /\ Upto(recs, old, m, 0)
    <3>1. m - 1 + 1 = m
      BY <2>4
    <3> QED BY <2>4, <3>1
  <2>6. acc[m] = insert_record(acc[m - 1], recs[m], size) /\ m \in DOMAIN recs
    BY <1>1, <1>2, <2>4 DEF RecordsInserted
  <2>7. \E new \in Memory : /\ Placed(insert_record(acc[m - 1], recs[m], size), new, size)
                            /\ Upto(recs, new, m + 1, 0)
    BY <2>5, <2>6, InsertRecord
  <2>8. Good(m)
    BY <2>6, <2>7
  <2> HIDE DEF Good
  <2> QED BY <2>2, <2>8
<1>4. Good(n)
  <2> HIDE DEF Good
  <2>1. n \in 0 .. n
    BY <1>1
  <2> QED BY <1>3, <2>1
<1> QED BY <1>2, <1>4
=============================================================================
