-------------------------- MODULE PipelineWalkProofs -------------------------
(***************************************************************************)
(* From the HEX file to the segments, for every file, every sector and     *)
(* segment size and any number of restarts.                                *)
(*                                                                         *)
(* ReadSoFar says what read_hex_file has after so many lines, and Built    *)
(* (PipelineProofs) what pipeline_build makes of the records: ImageHeld    *)
(* puts the two together.  The walk has an invariant of its own, Pass.     *)
(***************************************************************************)
EXTENDS PipelineWalk, PipelineProofs

-----------------------------------------------------------------------------
(* read_hex_file. *)

Reading ==
  [records : Seq(Record), base : Nat, data_seen : BOOLEAN,
   hex_base : Nat, hex_end : Nat]

\* What WalkAssumption says of a line: an extended linear address has its two
\* bytes.
Readable(line) ==
  line \in Line /\ (line.type = EXT_LINEAR => Len(line.data) >= 2)

LEMMA FileLines ==
  ASSUME file \in Files
  PROVE  /\ file \in Seq(Line) /\ Len(file) \in Nat
         /\ DOMAIN file = 1 .. Len(file)
         /\ \A i \in DOMAIN file : Readable(file[i])
<1>1. file \in Seq(Line) /\ \A i \in DOMAIN file :
        file[i].type = EXT_LINEAR => Len(file[i].data) >= 2
  BY WalkAssumption
<1>2. \A i \in DOMAIN file : file[i] \in Line
  BY <1>1
<1> QED BY <1>1, <1>2 DEF Readable

LEMMA ModType ==
  ASSUME NEW n \in Nat
  PROVE  n % AddrSpace \in Nat /\ n % AddrSpace < AddrSpace
BY AddrSpaceAssumption

\* The address of the line's first byte, and the base after the line.
BaseAfter(acc, line) ==
  IF line.type = EXT_LINEAR THEN Upper(line) * PageSize ELSE acc.base

AddressOf(acc, line) == (BaseAfter(acc, line) + line.address) % AddrSpace

EndOf(acc, line) == (AddressOf(acc, line) + Len(line.data)) % AddrSpace

RecordOf(acc, line) ==
  [type |-> line.type, address |-> AddressOf(acc, line), data |-> line.data]

\* One line: what becomes of each part of what has been read.
LEMMA OneLine ==
  ASSUME NEW acc \in Reading, NEW line, Readable(line)
  PROVE  LET next == ReadLine(acc, line)
         IN  /\ next \in Reading
             /\ BaseAfter(acc, line) \in Nat
             /\ AddressOf(acc, line) \in Nat /\ EndOf(acc, line) \in Nat
             /\ RecordOf(acc, line) \in Record
             /\ ~line.sof => next = acc
             /\ line.sof =>
                  /\ next.base = BaseAfter(acc, line)
                  /\ next.records = Append(acc.records, RecordOf(acc, line))
                  /\ line.type # DATA_RECORD =>
                       /\ next.data_seen = acc.data_seen
                       /\ next.hex_base = acc.hex_base
                       /\ next.hex_end = acc.hex_end
                  /\ line.type = DATA_RECORD =>
                       /\ next.data_seen = TRUE
                       /\ next.hex_base =
                            IF ~acc.data_seen \/ AddressOf(acc, line) < acc.hex_base
                            THEN AddressOf(acc, line) ELSE acc.hex_base
                       /\ next.hex_end = IF EndOf(acc, line) > acc.hex_end
                                         THEN EndOf(acc, line) ELSE acc.hex_end
<1> DEFINE base    == BaseAfter(acc, line)
           address == AddressOf(acc, line)
           end     == EndOf(acc, line)
           rec     == RecordOf(acc, line)
           stored  == [acc EXCEPT !.base = base,
                         !.records = Append(@, [type    |-> line.type,
                                                address |-> address,
                                                data    |-> line.data])]
           next == ReadLine(acc, line)
<1>1. /\ line.sof \in BOOLEAN /\ line.type \in Byte /\ line.address \in Nat
      /\ line.data \in Seq(Byte) /\ Len(line.data) \in Nat
  <2>1. line \in Line /\ PageSize \in Nat
    BY PageAssumption DEF Readable
  <2> QED BY <2>1 DEF Line
<1>2. base \in Nat
  <2>1. CASE line.type = EXT_LINEAR
    <3>1. line.data[1] \in Nat /\ line.data[2] \in Nat
      <4>1. 1 \in 1 .. Len(line.data) /\ 2 \in 1 .. Len(line.data)
        BY <1>1, <2>1 DEF Readable
      <4>2. \A n \in 1 .. Len(line.data) : line.data[n] \in Byte
        BY <1>1
      <4>3. line.data[1] \in Byte /\ line.data[2] \in Byte
        BY <4>1, <4>2
      <4>4. \A b \in Byte : b \in Nat
        BY DEF Byte
      <4> QED BY <4>3, <4>4
    <3>2. Upper(line) \in Nat
      BY <3>1 DEF Upper
    <3> QED BY <2>1, <3>2, PageAssumption DEF BaseAfter
  <2>2. CASE line.type # EXT_LINEAR
    BY <2>2 DEF BaseAfter, Reading
  <2> QED BY <2>1, <2>2
<1>3. address \in Nat
  <2>1. base + line.address \in Nat
    BY <1>1, <1>2
  <2> QED BY <2>1, ModType DEF AddressOf
<1>4. end \in Nat
  <2>1. address + Len(line.data) \in Nat
    BY <1>1, <1>3
  <2> QED BY <2>1, ModType DEF EndOf
<1>5. rec \in Record
  BY <1>1, <1>3 DEF Record, RecordOf
<1>6. next = IF ~line.sof THEN acc
             ELSE IF line.type # DATA_RECORD THEN stored
             ELSE [stored EXCEPT !.data_seen = TRUE,
                     !.hex_base = IF ~acc.data_seen \/ address < @ THEN address ELSE @,
                     !.hex_end  = IF end > @ THEN end ELSE @]
  BY Zenon DEF ReadLine, BaseAfter, AddressOf, EndOf
<1>7. rec = [type |-> line.type, address |-> address, data |-> line.data]
  BY DEF RecordOf
<1> HIDE DEF next, base, address, end, rec
<1>8. acc.records \in Seq(Record) /\ Append(acc.records, rec) \in Seq(Record)
      /\ acc.hex_base \in Nat /\ acc.hex_end \in Nat /\ acc.data_seen \in BOOLEAN
  BY <1>5 DEF Reading
<1>9. /\ stored \in Reading
      /\ stored.base = base /\ stored.records = Append(acc.records, rec)
      /\ stored.data_seen = acc.data_seen /\ stored.hex_base = acc.hex_base
      /\ stored.hex_end = acc.hex_end
  BY <1>2, <1>7, <1>8 DEF Reading
<1> HIDE DEF stored
<1>10. CASE ~line.sof
  BY <1>2, <1>3, <1>4, <1>5, <1>6, <1>10 DEF next, base, address, end, rec
<1>11. CASE line.sof /\ line.type # DATA_RECORD
  <2>1. next = stored
    BY <1>6, <1>11
  <2> QED BY <1>2, <1>3, <1>4, <1>5, <1>9, <1>11, <2>1
          DEF next, base, address, end, rec
<1>12. CASE line.sof /\ line.type = DATA_RECORD
  <2> DEFINE low  == IF ~acc.data_seen \/ address < acc.hex_base
                     THEN address ELSE acc.hex_base
             high == IF end > acc.hex_end THEN end ELSE acc.hex_end
  <2>1. low \in Nat /\ high \in Nat
    BY <1>3, <1>4, <1>8
  <2>2. next = [stored EXCEPT !.data_seen = TRUE, !.hex_base = low,
                              !.hex_end = high]
    BY <1>6, <1>9, <1>12 DEF Reading
  <2> HIDE DEF low, high
  <2>3. /\ next \in Reading /\ next.base = base
        /\ next.records = Append(acc.records, rec)
        /\ next.data_seen = TRUE /\ next.hex_base = low /\ next.hex_end = high
    BY <1>9, <2>1, <2>2 DEF Reading
  <2> QED BY <1>2, <1>3, <1>4, <1>5, <1>12, <2>3
          DEF next, base, address, end, rec, low, high
<1> QED BY <1>1, <1>10, <1>11, <1>12

\* The loop over the lines.
LineTurns ==
  [turn \in Reading \X (1 .. Len(file)) |-> ReadLine(turn[1], file[turn[2]])]

LEMMA LineTurnsType ==
  ASSUME file \in Files
  PROVE  LineTurns \in [Reading \X (1 .. Len(file)) -> Reading]
<1> DEFINE N == 1 .. Len(file)
           Value(turn) == ReadLine(turn[1], file[turn[2]])
<1>1. \A turn \in Reading \X N : Value(turn) \in Reading
  <2>1. ASSUME NEW turn \in Reading \X N PROVE Value(turn) \in Reading
    <3>1. turn[1] \in Reading /\ turn[2] \in N
      OBVIOUS
    <3>2. Readable(file[turn[2]])
      BY <3>1, FileLines
    <3> QED BY <3>1, <3>2, OneLine
  <2> QED BY <2>1
<1>2. LineTurns = [turn \in Reading \X N |-> Value(turn)]
  BY DEF LineTurns
<1> HIDE DEF N, Value
<1>3. LineTurns \in [Reading \X N -> Reading]
  BY <1>1, <1>2
<1> QED BY <1>3 DEF N

LinesFolded(iter) ==
  iter = [s \in SUBSET DOMAIN file |->
            IF s = {} THEN Nothing ELSE ReadLine(iter[s \ {Max(s)}], file[Max(s)])]

LEMMA ReadFold ==
  read_hex_file(file) = (CHOOSE iter : LinesFolded(iter))[DOMAIN file]
BY Zenon DEF read_hex_file, FoldLeft, MapThenFoldSet, LinesFolded

\* read_hex_file reads the lines one after the other.
LinesRead(acc) ==
  /\ acc[0] = Nothing
  /\ \A i \in 1 .. Len(file) : acc[i] = ReadLine(acc[i - 1], file[i])

LEMMA ReadRun ==
  ASSUME file \in Files
  PROVE  \E acc : LinesRead(acc) /\ read_hex_file(file) = acc[Len(file)]
<1> DEFINE n  == Len(file)
           op == LineTurns
           Read(iter, s) ==
             IF s = {} THEN Nothing ELSE ReadLine(iter[s \ {Max(s)}], file[Max(s)])
<1>1. n \in Nat /\ DOMAIN file = 1 .. n
  BY FileLines
<1>2. op \in [Reading \X (1 .. n) -> Reading] /\ Nothing \in Reading
  <2>1. Nothing \in Reading
    BY DEF Nothing, Reading
  <2> QED BY <2>1, LineTurnsType
<1>3. ASSUME NEW iter
      PROVE  LinesFolded(iter) <=> iter = [s \in SUBSET (1 .. n) |-> Read(iter, s)]
  BY <1>1, Zenon DEF LinesFolded
<1>4. \E iter : LinesFolded(iter)
  <2>1. PICK iter \in [SUBSET (1 .. n) -> Reading] : Folded(op, Nothing, n, iter)
    <3> HIDE DEF n, op
    <3> QED BY <1>1, <1>2, FoldExists
  <2>2. ASSUME NEW s \in SUBSET (1 .. n)
        PROVE  Turn(op, Nothing, iter, s) = Read(iter, s)
    <3>1. CASE s = {}
      BY <3>1 DEF Turn
    <3>2. CASE s # {}
      <4> DEFINE m    == Max(s)
                 turn == <<iter[s \ {m}], m>>
      <4>1. m \in 1 .. n
        BY <1>1, <3>2, LastPosition
      <4>2. s \ {m} \in SUBSET (1 .. n)
        OBVIOUS
      <4>3. turn \in Reading \X (1 .. n) /\ turn[1] = iter[s \ {m}] /\ turn[2] = m
        BY <4>1, <4>2
      <4>4. op[turn] = ReadLine(turn[1], file[turn[2]])
        BY <4>3, Zenon DEF LineTurns
      <4>5. Turn(op, Nothing, iter, s) = op[turn]
        BY <3>2 DEF Turn
      <4>6. Read(iter, s) = ReadLine(iter[s \ {m}], file[m])
        BY <3>2
      <4> HIDE DEF op, m, turn, Read
      <4> QED BY <4>3, <4>4, <4>5, <4>6
    <3> QED BY <3>1, <3>2
  <2>3. iter = [s \in SUBSET (1 .. n) |-> Read(iter, s)]
    <3> HIDE DEF Read
    <3>1. [s \in SUBSET (1 .. n) |-> Turn(op, Nothing, iter, s)]
            = [s \in SUBSET (1 .. n) |-> Read(iter, s)]
      BY <2>2
    <3> QED BY <2>1, <3>1, Zenon DEF Folded
  <2> QED BY <1>3, <2>3
<1> DEFINE it  == CHOOSE iter : LinesFolded(iter)
           acc == [i \in 0 .. n |-> it[1 .. i]]
<1>5. it = [s \in SUBSET (1 .. n) |-> Read(it, s)]
  <2>1. LinesFolded(it)
    BY <1>4, Zenon
  <2> HIDE DEF it, Read
  <2> QED BY <1>3, <2>1
<1>6. read_hex_file(file) = it[1 .. n]
  BY <1>1, ReadFold, Zenon
<1> HIDE DEF it
<1>7. \A s \in SUBSET (1 .. n) : it[s] = Read(it, s)
  <2> HIDE DEF Read
  <2> QED BY <1>5, Zenon
<1>8. acc[0] = Nothing
  <2>1. acc[0] = it[1 .. 0]
    BY <1>1
  <2> QED BY <1>1, <1>7, <2>1, Turns
<1>9. ASSUME NEW i \in 1 .. n
      PROVE  acc[i] = ReadLine(acc[i - 1], file[i])
  <2>1. acc[i] = it[1 .. i] /\ acc[i - 1] = it[1 .. (i - 1)]
    BY <1>1
  <2>2. /\ 1 .. i \in SUBSET (1 .. n) /\ 1 .. i # {} /\ Max(1 .. i) = i
        /\ (1 .. i) \ {i} = 1 .. (i - 1)
    BY <1>1, Turns
  <2> HIDE DEF acc
  <2>3. it[1 .. i] = ReadLine(it[1 .. (i - 1)], file[i])
    BY <1>7, <2>2
  <2> QED BY <2>1, <2>3
<1>10. read_hex_file(file) = acc[n]
  BY <1>1, <1>6
<1>11. LinesRead(acc)
  <2> HIDE DEF acc
  <2> QED BY <1>8, <1>9 DEF LinesRead
<1> HIDE DEF acc
<1> QED BY <1>10, <1>11

-----------------------------------------------------------------------------
(* The records and the lines they come from. *)

Bases(i) == {j \in RecordLines : j < i /\ file[j].type = EXT_LINEAR}

BaseOf(bases) ==
  IF bases = {} THEN 0
  ELSE PageSize * Upper(file[CHOOSE j \in bases : \A k \in bases : k <= j])

\* The base in force before line i, as Start has it.
BaseBefore(i) == BaseOf(Bases(i))

LEMMA StartIs ==
  ASSUME NEW i
  PROVE  Start(i) = BaseBefore(i) + file[i].address
BY Zenon DEF Start, BaseBefore, BaseOf, Bases

\* A line that is a record and an extended linear address sets the base; no
\* other does.
LEMMA NextBase ==
  ASSUME file \in Files, NEW i \in DOMAIN file
  PROVE  BaseBefore(i + 1) =
           IF file[i].sof /\ file[i].type = EXT_LINEAR
           THEN PageSize * Upper(file[i]) ELSE BaseBefore(i)
<1>1. i \in Nat /\ DOMAIN file \subseteq Nat
  BY FileLines
<1>2. \A j \in RecordLines : j \in DOMAIN file /\ j \in Nat /\ file[j].sof
  BY <1>1 DEF RecordLines
<1>3. CASE file[i].sof /\ file[i].type = EXT_LINEAR
  <2>1. i \in Bases(i + 1)
    BY <1>1, <1>3 DEF Bases, RecordLines
  <2>2. \A j \in Bases(i + 1) : j <= i
    BY <1>1, <1>2 DEF Bases
  <2> DEFINE last == CHOOSE j \in Bases(i + 1) : \A k \in Bases(i + 1) : k <= j
  <2>3. last \in Bases(i + 1) /\ \A k \in Bases(i + 1) : k <= last
    BY <2>1, <2>2
  <2>4. last \in Nat
    BY <1>2, <2>3 DEF Bases
  <2>5. BaseBefore(i + 1) = PageSize * Upper(file[last])
    BY <2>1 DEF BaseBefore, BaseOf
  <2> HIDE DEF last
  <2>6. last = i
    BY <1>1, <2>1, <2>2, <2>3, <2>4
  <2> QED BY <1>3, <2>5, <2>6
<1>4. CASE ~(file[i].sof /\ file[i].type = EXT_LINEAR)
  <2>1. ASSUME NEW j PROVE j \in Bases(i + 1) <=> j \in Bases(i)
    <3>1. j = i => j \notin Bases(i + 1)
      BY <1>2, <1>4 DEF Bases
    <3>2. j \in RecordLines => (j < i + 1 <=> j < i \/ j = i)
      BY <1>1, <1>2
    <3> QED BY <3>1, <3>2 DEF Bases
  <2>2. Bases(i + 1) = Bases(i)
    BY <2>1
  <2>3. BaseBefore(i + 1) = BaseBefore(i)
    BY <2>2 DEF BaseBefore
  <2> QED BY <1>4, <2>3
<1> QED BY <1>3, <1>4

\* The k-th record was made from line source[k], and every line that is a
\* record has made one.
MadeFrom(recs, source, j) ==
  /\ source \in [1 .. Len(recs) -> 1 .. j]
  /\ \A k \in 1 .. Len(recs) :
       /\ file[source[k]].sof
       /\ recs[k].type = file[source[k]].type
       /\ recs[k].data = file[source[k]].data
       /\ recs[k].type = DATA_RECORD =>
            recs[k].address = Start(source[k]) % AddrSpace
       /\ \A l \in 1 .. Len(recs) : k < l => source[k] < source[l]
  /\ \A i \in 1 .. j : file[i].sof => \E k \in 1 .. Len(recs) : source[k] = i

\* The lowest address and the highest end of the lines read.
RangeOf(acc, j) ==
  \A i \in 1 .. j :
    /\ Start(i) \in Nat
    /\ i \in DataLines =>
         /\ acc.data_seen
         /\ acc.hex_base <= Start(i) % AddrSpace
         /\ ((Start(i) % AddrSpace) + Len(file[i].data)) % AddrSpace <= acc.hex_end

ReadSoFar(acc, j) ==
  /\ acc \in Reading
  /\ acc.base = BaseBefore(j + 1)
  /\ RangeOf(acc, j)
  /\ \E source : MadeFrom(acc.records, source, j)

LEMMA NothingRead ==
  ASSUME file \in Files
  PROVE  ReadSoFar(Nothing, 0)
<1>1. Nothing \in Reading /\ Nothing.base = 0 /\ Nothing.records = <<>>
  BY DEF Nothing, Reading
<1>2. BaseBefore(0 + 1) = 0
  <2>1. \A j \in Bases(1) : j \in 1 .. Len(file) /\ j < 1
    BY FileLines DEF Bases, RecordLines
  <2>2. Bases(1) = {}
    <3>1. Len(file) \in Nat
      BY FileLines
    <3> QED BY <2>1, <3>1
  <2>3. BaseBefore(1) = 0
    BY <2>2 DEF BaseBefore, BaseOf
  <2> QED BY <2>3
<1>3. RangeOf(Nothing, 0)
  BY DEF RangeOf
<1>4. MadeFrom(<<>>, <<>>, 0)
  BY DEF MadeFrom
<1> QED BY <1>1, <1>2, <1>3, <1>4 DEF ReadSoFar

\* A line that is a record adds a record made from it.
LEMMA OneRecordMore ==
  ASSUME file \in Files, NEW j \in DOMAIN file, NEW recs \in Seq(Record),
         NEW source, MadeFrom(recs, source, j - 1), NEW rec \in Record,
         file[j].sof, rec.type = file[j].type, rec.data = file[j].data,
         rec.type = DATA_RECORD => rec.address = Start(j) % AddrSpace
  PROVE  \E new : MadeFrom(Append(recs, rec), new, j)
<1> DEFINE n    == Len(recs)
           more == Append(recs, rec)
           new  == [k \in 1 .. n + 1 |-> IF k <= n THEN source[k] ELSE j]
<1>1. j \in Nat \ {0} /\ n \in Nat
  BY FileLines
<1>2. /\ Len(more) = n + 1 /\ more[n + 1] = rec
      /\ \A k \in 1 .. n : more[k] = recs[k]
  OBVIOUS
<1>3. /\ new[n + 1] = j
      /\ \A k \in 1 .. n : new[k] = source[k] /\ source[k] \in 1 .. j - 1
                           /\ k \in 1 .. n + 1
      /\ \A k \in 1 .. n + 1 : k \in 1 .. n \/ k = n + 1
      /\ n + 1 \in 1 .. n + 1
  <2>1. source \in [1 .. n -> 1 .. j - 1]
    BY DEF MadeFrom
  <2>2. \A k \in 1 .. n : source[k] \in 1 .. j - 1
    BY <2>1
  <2> QED BY <1>1, <2>2
<1>4. new \in [1 .. n + 1 -> 1 .. j]
  <2>1. \A k \in 1 .. n + 1 : new[k] \in 1 .. j
    <3> HIDE DEF new
    <3>1. j \in 1 .. j /\ \A i \in 1 .. j - 1 : i \in 1 .. j
      BY <1>1
    <3> QED BY <1>3, <3>1
  <2>2. new = [k \in 1 .. n + 1 |-> new[k]]
    OBVIOUS
  <2> HIDE DEF new
  <2> QED BY <2>1, <2>2
<1> HIDE DEF more, new
<1>5. ASSUME NEW k \in 1 .. n + 1
      PROVE  /\ file[new[k]].sof
             /\ more[k].type = file[new[k]].type
             /\ more[k].data = file[new[k]].data
             /\ more[k].type = DATA_RECORD =>
                  more[k].address = Start(new[k]) % AddrSpace
             /\ \A l \in 1 .. n + 1 : k < l => new[k] < new[l]
  <2>1. CASE k = n + 1
    <3>1. \A l \in 1 .. n + 1 : ~(k < l)
      BY <1>1, <2>1
    <3> QED BY <1>2, <1>3, <2>1, <3>1
  <2>2. CASE k \in 1 .. n
    <3>1. ASSUME NEW l \in 1 .. n + 1, k < l PROVE new[k] < new[l]
      <4>1. CASE l = n + 1
        BY <1>1, <1>3, <2>2, <4>1
      <4>2. CASE l \in 1 .. n
        BY <1>3, <2>2, <3>1, <4>2 DEF MadeFrom
      <4> QED BY <1>3, <4>1, <4>2
    <3>2. /\ file[source[k]].sof
          /\ recs[k].type = file[source[k]].type
          /\ recs[k].data = file[source[k]].data
          /\ recs[k].type = DATA_RECORD =>
               recs[k].address = Start(source[k]) % AddrSpace
      BY <2>2 DEF MadeFrom
    <3> QED BY <1>2, <1>3, <2>2, <3>1, <3>2
  <2> QED BY <1>3, <2>1, <2>2
<1>6. ASSUME NEW i \in 1 .. j, file[i].sof
      PROVE  \E k \in 1 .. n + 1 : new[k] = i
  <2>1. CASE i = j
    BY <1>3, <2>1
  <2>2. CASE i # j
    <3>1. i \in 1 .. j - 1
      BY <1>1, <2>2
    <3>2. PICK k \in 1 .. n : source[k] = i
      BY <1>6, <3>1 DEF MadeFrom
    <3> QED BY <1>3, <3>2
  <2> QED BY <2>1, <2>2
<1>7. MadeFrom(more, new, j)
  BY <1>2, <1>4, <1>5, <1>6 DEF MadeFrom
<1> QED BY <1>7 DEF more

LEMMA ReadOneLine ==
  ASSUME file \in Files, NEW j \in DOMAIN file, NEW acc, ReadSoFar(acc, j - 1)
  PROVE  ReadSoFar(ReadLine(acc, file[j]), j)
<1> DEFINE line == file[j]
           next == ReadLine(acc, line)
<1>1. /\ j \in Nat \ {0} /\ Readable(line) /\ j - 1 + 1 = j
      /\ \A i \in 1 .. j : i = j \/ i \in 1 .. j - 1
  BY FileLines
<1>2. /\ acc \in Reading /\ acc.base = BaseBefore(j) /\ RangeOf(acc, j - 1)
      /\ acc.records \in Seq(Record)
  BY <1>1 DEF ReadSoFar, Reading
<1>3. PICK source : MadeFrom(acc.records, source, j - 1)
  BY DEF ReadSoFar
<1>4. /\ line.address \in Nat /\ line.sof \in BOOLEAN /\ line.type \in Byte
      /\ line.data \in Seq(Byte)
  <2>1. line \in Line /\ PageSize \in Nat
    BY <1>1, PageAssumption DEF Readable
  <2> QED BY <2>1 DEF Line
<1>5. Start(j) = acc.base + line.address /\ Start(j) \in Nat
  BY <1>2, <1>4, StartIs DEF Reading
<1>6. line.type = DATA_RECORD => /\ AddressOf(acc, line) = Start(j) % AddrSpace
                                 /\ BaseAfter(acc, line) = acc.base
  BY <1>5 DEF AddressOf, BaseAfter, EXT_LINEAR, DATA_RECORD
<1>7. j \in DataLines <=> line.sof /\ line.type = DATA_RECORD
  BY DEF DataLines, RecordLines
<1>8. BaseBefore(j + 1) = IF line.sof /\ line.type = EXT_LINEAR
                          THEN PageSize * Upper(line) ELSE acc.base
  BY <1>2, NextBase
<1> DEFINE address == AddressOf(acc, line)
           end     == EndOf(acc, line)
<1>9. /\ next \in Reading
      /\ BaseAfter(acc, line) \in Nat /\ address \in Nat /\ end \in Nat
      /\ RecordOf(acc, line) \in Record
      /\ ~line.sof => next = acc
      /\ line.sof =>
           /\ next.base = BaseAfter(acc, line)
           /\ next.records = Append(acc.records, RecordOf(acc, line))
           /\ line.type # DATA_RECORD =>
                /\ next.data_seen = acc.data_seen
                /\ next.hex_base = acc.hex_base
                /\ next.hex_end = acc.hex_end
           /\ line.type = DATA_RECORD =>
                /\ next.data_seen = TRUE
                /\ next.hex_base = IF ~acc.data_seen \/ address < acc.hex_base
                                   THEN address ELSE acc.hex_base
                /\ next.hex_end = IF end > acc.hex_end
                                  THEN end ELSE acc.hex_end
  BY <1>1, <1>2, OneLine
<1>10. end = (address + Len(line.data)) % AddrSpace
  BY DEF EndOf
<1> HIDE DEF next, address, end
<1>11. acc.hex_base \in Nat /\ acc.hex_end \in Nat
  BY <1>2 DEF Reading
<1>12. next.base = BaseBefore(j + 1)
  <2>1. CASE ~line.sof
    BY <1>8, <1>9, <2>1
  <2>2. CASE line.sof /\ line.type # EXT_LINEAR
    BY <1>8, <1>9, <2>2 DEF BaseAfter
  <2>3. CASE line.sof /\ line.type = EXT_LINEAR
    <3>1. next.base = Upper(line) * PageSize
      BY <1>9, <2>3 DEF BaseAfter
    <3>2. Upper(line) * PageSize = PageSize * Upper(line)
      <4>1. line.data[1] \in Byte /\ line.data[2] \in Byte
        <5>1. 1 \in 1 .. Len(line.data) /\ 2 \in 1 .. Len(line.data)
          <6>1. Len(line.data) \in Nat /\ Len(line.data) >= 2
            BY <1>1, <1>4, <2>3 DEF Readable
          <6> QED BY <6>1
        <5>2. \A n \in 1 .. Len(line.data) : line.data[n] \in Byte
          BY <1>4
        <5> QED BY <5>1, <5>2
      <4>2. \A b \in Byte : b \in Nat
        BY DEF Byte
      <4>3. Upper(line) \in Nat
        BY <4>1, <4>2 DEF Upper
      <4> QED BY <4>3, PageAssumption
    <3> QED BY <1>8, <2>3, <3>1, <3>2
  <2> QED BY <2>1, <2>2, <2>3
<1>13. RangeOf(next, j)
  <2>1. ASSUME NEW i \in 1 .. j - 1
        PROVE  /\ Start(i) \in Nat
               /\ i \in DataLines =>
                    /\ next.data_seen
                    /\ next.hex_base <= Start(i) % AddrSpace
                    /\ ((Start(i) % AddrSpace) + Len(file[i].data)) % AddrSpace
                         <= next.hex_end
    <3> DEFINE low  == Start(i) % AddrSpace
               high == ((Start(i) % AddrSpace) + Len(file[i].data)) % AddrSpace
    <3>1. /\ Start(i) \in Nat
          /\ i \in DataLines => acc.data_seen /\ acc.hex_base <= low
                                /\ high <= acc.hex_end
      BY <1>2 DEF RangeOf
    <3>2. low \in Nat
      BY <3>1, ModType
    <3>3. i \in DataLines => high \in Nat
      <4>1. ASSUME i \in DataLines PROVE Len(file[i].data) \in Nat
        <5>1. file[i] \in Line
          BY <4>1, FileLines DEF DataLines, RecordLines, Readable
        <5> QED BY <5>1 DEF Line
      <4>2. ASSUME i \in DataLines PROVE low + Len(file[i].data) \in Nat
        BY <3>2, <4>1, <4>2
      <4> HIDE DEF low
      <4>3. i \in DataLines => (low + Len(file[i].data)) % AddrSpace \in Nat
        BY <4>2, ModType
      <4> QED BY <4>3 DEF low
    <3> HIDE DEF low, high
    <3>4. CASE ~line.sof
      BY <1>9, <3>1, <3>4 DEF low, high
    <3>5. CASE line.sof /\ line.type # DATA_RECORD
      BY <1>9, <3>1, <3>5 DEF low, high
    <3>6. CASE line.sof /\ line.type = DATA_RECORD
      <4>1. /\ next.hex_base \in Nat /\ next.hex_end \in Nat
            /\ acc.data_seen => next.hex_base <= acc.hex_base
            /\ acc.hex_end <= next.hex_end
            /\ next.data_seen
        BY <1>9, <1>11, <3>6
      <4>2. i \in DataLines => /\ next.data_seen /\ next.hex_base <= low
                               /\ high <= next.hex_end
        BY <1>11, <3>1, <3>2, <3>3, <4>1
      <4> QED BY <3>1, <4>2 DEF low, high
    <3> QED BY <1>4, <3>4, <3>5, <3>6
  <2>2. ASSUME j \in DataLines
        PROVE  /\ next.data_seen
               /\ next.hex_base <= Start(j) % AddrSpace
               /\ ((Start(j) % AddrSpace) + Len(line.data)) % AddrSpace
                    <= next.hex_end
    <3>1. address = Start(j) % AddrSpace
      BY <1>6, <1>7, <2>2 DEF address
    <3>2. next.data_seen /\ next.hex_base <= address /\ end <= next.hex_end
      BY <1>7, <1>9, <1>11, <2>2
    <3>3. end = ((Start(j) % AddrSpace) + Len(line.data)) % AddrSpace
      BY <1>10, <3>1
    <3> QED BY <3>1, <3>2, <3>3
  <2> QED BY <1>1, <1>5, <2>1, <2>2 DEF RangeOf
<1>14. \E new : MadeFrom(next.records, new, j)
  <2>1. CASE ~line.sof
    <3>1. next.records = acc.records
      BY <1>9, <2>1
    <3>2. source \in [1 .. Len(acc.records) -> 1 .. j - 1]
      BY <1>3 DEF MadeFrom
    <3>3. source \in [1 .. Len(acc.records) -> 1 .. j]
      <4>1. 1 .. j - 1 \subseteq 1 .. j
        BY <1>1
      <4> QED BY <3>2, <4>1
    <3>4. \A i \in 1 .. j : file[i].sof =>
             \E k \in 1 .. Len(acc.records) : source[k] = i
      BY <1>1, <1>3, <2>1 DEF MadeFrom
    <3>5. MadeFrom(acc.records, source, j)
      BY <1>3, <3>3, <3>4 DEF MadeFrom
    <3> QED BY <3>1, <3>5
  <2>2. CASE line.sof
    <3> DEFINE rec == RecordOf(acc, line)
    <3>1. /\ rec \in Record /\ rec.type = line.type /\ rec.data = line.data
          /\ rec.type = DATA_RECORD => rec.address = Start(j) % AddrSpace
      BY <1>6, <1>9 DEF RecordOf
    <3> HIDE DEF rec
    <3>2. \E new : MadeFrom(Append(acc.records, rec), new, j)
      BY <1>2, <1>3, <2>2, <3>1, OneRecordMore
    <3> QED BY <1>9, <2>2, <3>2 DEF rec
  <2> QED BY <1>4, <2>1, <2>2
<1>15. ReadSoFar(next, j)
  BY <1>9, <1>12, <1>13, <1>14 DEF ReadSoFar
<1> QED BY <1>15 DEF next

LEMMA FileRead ==
  ASSUME file \in Files
  PROVE  ReadSoFar(read_hex_file(file), Len(file))
<1> DEFINE n == Len(file)
<1>1. n \in Nat /\ DOMAIN file = 1 .. n
  BY FileLines
<1>2. PICK acc : LinesRead(acc) /\ read_hex_file(file) = acc[n]
  BY ReadRun
<1> DEFINE Bad == {m \in 0 .. n : ~ReadSoFar(acc[m], m)}
<1>3. ASSUME Bad # {} PROVE FALSE
  <2>1. PICK m \in Bad : \A x \in Bad : m <= x
    <3>1. Bad \subseteq Nat
      OBVIOUS
    <3> HIDE DEF Bad
    <3> QED BY <1>3, <3>1, SmallestNat
  <2>2. m \in 0 .. n /\ ~ReadSoFar(acc[m], m)
    OBVIOUS
  <2>3. m # 0
    BY <1>2, <2>2, NothingRead DEF LinesRead
  <2>4. m \in 1 .. n /\ m - 1 \in 0 .. n /\ ReadSoFar(acc[m - 1], m - 1)
    <3>1. m \in 1 .. n /\ m - 1 \in 0 .. n /\ ~(m <= m - 1)
      BY <1>1, <2>2, <2>3
    <3>2. m - 1 \notin Bad
      <4> HIDE DEF Bad
      <4> QED BY <2>1, <3>1
    <3> QED BY <3>1, <3>2
  <2>5. acc[m] = ReadLine(acc[m - 1], file[m]) /\ m \in DOMAIN file
    BY <1>1, <1>2, <2>4 DEF LinesRead
  <2>6. ReadSoFar(acc[m], m)
    BY <2>4, <2>5, ReadOneLine
  <2> QED BY <2>2, <2>6
<1>4. n \in 0 .. n
  BY <1>1
<1> QED BY <1>2, <1>3, <1>4

-----------------------------------------------------------------------------
(* The memory the records write is the image of the file. *)

LEMMA ModSum ==
  ASSUME NEW m \in Nat \ {0}, NEW s \in Nat, NEW d \in Nat
  PROVE  ((s % m) + d) % m = (s + d) % m
<1> DEFINE q == s \div m
           r == s % m
           p == (r + d) \div m
           t == (r + d) % m
<1>1. q \in Nat /\ r \in Nat /\ s = m * q + r
  OBVIOUS
<1>2. p \in Nat /\ t \in 0 .. m - 1 /\ r + d = m * p + t
  <2>1. r + d \in Nat
    BY <1>1
  <2> HIDE DEF r
  <2>2. \A x \in Nat : /\ x \div m \in Nat /\ x % m \in 0 .. m - 1
                       /\ x = m * (x \div m) + (x % m)
    OBVIOUS
  <2> QED BY <2>1, <2>2
<1>3. s + d = m * (q + p) + t
  <2> HIDE DEF q, r, p, t
  <2>1. m * (q + p) = m * q + m * p
    BY <1>1, <1>2
  <2> QED BY <1>1, <1>2, <2>1
<1>4. (s + d) % m = t
  <2> HIDE DEF q, r, p, t
  <2> DEFINE z == q + p
  <2>1. z \in Nat /\ s + d = m * z + t /\ t \in 0 .. m - 1
    BY <1>1, <1>2, <1>3
  <2> HIDE DEF z
  <2>2. (m * z + t) % m = t
    <3> DEFINE x == m * z + t
               y == x \div m
               u == x % m
    <3>1. x \in Nat
      BY <2>1
    <3>2. y \in Nat /\ u \in 0 .. m - 1 /\ x = m * y + u
      <4> HIDE DEF x
      <4> QED BY <3>1
    <3>3. x = m * z + t
      OBVIOUS
    <3> HIDE DEF x, y, u
    <3>4. m * z < m * (y + 1) /\ m * y < m * (z + 1)
      BY <2>1, <3>2, <3>3
    <3>5. z < y + 1 /\ y < z + 1
      BY <2>1, <3>2, <3>4
    <3>6. z = y
      BY <2>1, <3>2, <3>5
    <3>7. u = t
      <4>1. m * z + t = m * z + u /\ m * z \in Nat
        BY <2>1, <3>2, <3>3, <3>6
      <4> QED BY <2>1, <3>2, <4>1
    <3> QED BY <3>7 DEF x, u
  <2> QED BY <2>1, <2>2
<1> QED BY <1>4

Read == read_hex_file(file)

\* A line's bytes, as Start has them and as its record has them.
LEMMA WritersAre ==
  ASSUME file \in Files, NEW source, MadeFrom(Read.records, source, Len(file)),
         Read.records \in Seq(Record), NEW a, NEW i, NEW n
  PROVE  <<i, n>> \in Writers(a) <=>
           \E k \in DOMAIN Read.records :
             /\ source[k] = i
             /\ n \in DOMAIN Read.records[k].data
             /\ Writes(Read.records, a, k, n)
<1> DEFINE recs == Read.records
<1>1. <<i, n>> \in Writers(a)
        <=> /\ i \in DataLines /\ n \in DOMAIN file[i].data
            /\ (Start(i) + n - 1) % AddrSpace = a
  BY DEF Writers
<1>2. DOMAIN recs = 1 .. Len(recs) /\ DOMAIN file = 1 .. Len(file)
  BY FileLines
<1>3. RangeOf(Read, Len(file))
  BY FileRead DEF ReadSoFar, Read
<1> HIDE DEF recs
<1>4. ASSUME NEW k \in DOMAIN recs
      PROVE  /\ source[k] \in DOMAIN file
             /\ source[k] \in DataLines <=> recs[k].type = DATA_RECORD
             /\ recs[k].data = file[source[k]].data
             /\ recs[k].type = DATA_RECORD =>
                  \A o \in DOMAIN recs[k].data :
                    ByteAddress(recs[k], o) = (Start(source[k]) + o - 1) % AddrSpace
  <2>1. source \in [1 .. Len(recs) -> 1 .. Len(file)]
    BY DEF MadeFrom, recs
  <2>2. source[k] \in DOMAIN file
    BY <1>2, <2>1
  <2>3. /\ file[source[k]].sof
        /\ recs[k].type = file[source[k]].type
        /\ recs[k].data = file[source[k]].data
        /\ recs[k].type = DATA_RECORD =>
             recs[k].address = Start(source[k]) % AddrSpace
    BY <1>2 DEF MadeFrom, recs
  <2>4. source[k] \in DataLines <=> recs[k].type = DATA_RECORD
    BY <2>2, <2>3 DEF DataLines, RecordLines
  <2>5. ASSUME recs[k].type = DATA_RECORD, NEW o \in DOMAIN recs[k].data
        PROVE  ByteAddress(recs[k], o) = (Start(source[k]) + o - 1) % AddrSpace
    <3> DEFINE s == Start(source[k])
               d == o - 1
    <3>1. s \in Nat
      BY <1>2, <1>3, <2>2 DEF RangeOf
    <3>2. d \in Nat /\ o \in Nat
      BY PositionTypes DEF recs
    <3>3. ((s % AddrSpace) + d) % AddrSpace = (s + d) % AddrSpace
      BY <3>1, <3>2, AddrSpaceAssumption, ModSum
    <3>4. recs[k].address = s % AddrSpace /\ s % AddrSpace \in Nat
      BY <2>3, <2>5, <3>1, ModType
    <3> HIDE DEF s
    <3>5. recs[k].address + o - 1 = (s % AddrSpace) + d /\ s + o - 1 = s + d
      BY <3>1, <3>2, <3>4
    <3> QED BY <3>3, <3>5 DEF ByteAddress, s
  <2> QED BY <2>2, <2>3, <2>4, <2>5
<1>5. ASSUME NEW k \in DOMAIN recs, source[k] = i, n \in DOMAIN recs[k].data,
             Writes(recs, a, k, n)
      PROVE  <<i, n>> \in Writers(a)
  BY <1>1, <1>4, <1>5 DEF Writes
<1>6. ASSUME <<i, n>> \in Writers(a)
      PROVE  \E k \in DOMAIN recs : /\ source[k] = i
                                    /\ n \in DOMAIN recs[k].data
                                    /\ Writes(recs, a, k, n)
  <2>1. i \in 1 .. Len(file) /\ file[i].sof /\ i \in DataLines
    BY <1>1, <1>2, <1>6 DEF DataLines, RecordLines
  <2>2. PICK k \in DOMAIN recs : source[k] = i
    BY <1>2, <2>1 DEF MadeFrom, recs
  <2>3. recs[k].type = DATA_RECORD /\ n \in DOMAIN recs[k].data
    BY <1>1, <1>4, <1>6, <2>1, <2>2
  <2>4. ByteAddress(recs[k], n) = a
    BY <1>1, <1>4, <1>6, <2>2, <2>3
  <2> QED BY <2>2, <2>3, <2>4 DEF Writes
<1> QED BY <1>5, <1>6 DEF recs

LEMMA WritersArePairs ==
  ASSUME NEW a, NEW w \in Writers(a)
  PROVE  w = <<w[1], w[2]>>
BY DEF Writers

\* What the memory holds at an address is what the file's last record for it
\* says; where no record writes it holds nothing.
LEMMA ImageHeld ==
  ASSUME file \in Files, NEW mem \in Memory,
         Upto(Read.records, mem, Len(Read.records) + 1, 0), NEW a \in Nat
  PROVE  /\ mem[a] = Blank <=> Writers(a) = {}
         /\ Writers(a) # {} => mem[a] = ImageByte(a) /\ a \in 0 .. AddrSpace - 1
<1> DEFINE recs == Read.records
<1>1. recs \in Seq(Record) /\ Len(recs) \in Nat /\ DOMAIN recs = 1 .. Len(recs)
  BY FileRead DEF ReadSoFar, Reading, Read
<1>2. PICK source : MadeFrom(recs, source, Len(file))
  BY FileRead DEF ReadSoFar, Read
<1>3. \A i, n : <<i, n>> \in Writers(a) <=>
        \E k \in DOMAIN recs : /\ source[k] = i
                               /\ n \in DOMAIN recs[k].data
                               /\ Writes(recs, a, k, n)
  BY <1>1, <1>2, WritersAre
<1>4. \A k \in DOMAIN recs : \A n, m : Earlier(k, n, Len(recs) + 1, 0)
  BY <1>1 DEF Earlier
<1>5. Upto(recs, mem, Len(recs) + 1, 0)
  OBVIOUS
<1>6. /\ source \in [DOMAIN recs -> 1 .. Len(file)]
      /\ \A k, l \in DOMAIN recs : k < l => source[k] < source[l]
  BY <1>1, <1>2 DEF MadeFrom
<1>7. Len(file) \in Nat
  BY FileLines
<1> HIDE DEF recs
<1>8. CASE Unwritten(recs, mem, a, Len(recs) + 1, 0)
  <2>1. \A k \in DOMAIN recs : \A n \in DOMAIN recs[k].data : ~Writes(recs, a, k, n)
    BY <1>4, <1>8 DEF Unwritten
  <2>2. \A i, n : <<i, n>> \notin Writers(a)
    BY <1>3, <2>1
  <2>3. Writers(a) = {}
    BY <2>2, WritersArePairs
  <2> QED BY <1>8, <2>3 DEF Unwritten
<1>9. ASSUME NEW k \in DOMAIN recs, NEW n \in DOMAIN recs[k].data,
             WrittenBy(recs, mem, a, k, n, Len(recs) + 1, 0)
      PROVE  /\ mem[a] # Blank /\ Writers(a) # {}
             /\ mem[a] = ImageByte(a) /\ a \in 0 .. AddrSpace - 1
  <2>1. /\ Writes(recs, a, k, n) /\ mem[a] = recs[k].data[n]
        /\ \A l \in DOMAIN recs : \A o \in DOMAIN recs[l].data :
             Writes(recs, a, l, o) => Earlier(l, o, k, n)
    BY <1>4, <1>9 DEF WrittenBy
  <2>2. mem[a] # Blank /\ a \in 0 .. AddrSpace - 1
    <3>1. recs[k].data[n] \in Byte /\ ByteAddress(recs[k], n) \in 0 .. AddrSpace - 1
      BY <1>1, PositionTypes
    <3>2. \A b \in Byte : b # Blank
      BY DEF Byte, Blank
    <3> QED BY <2>1, <3>1, <3>2 DEF Writes
  <2> DEFINE w == <<source[k], n>>
  <2>3. w \in Writers(a)
    BY <1>3, <2>1
  <2>4. /\ source[k] \in Nat /\ n \in Nat
    <3>1. source[k] \in 1 .. Len(file)
      BY <1>6
    <3> QED BY <1>1, <1>7, <3>1, PositionTypes
  <2>5. ASSUME NEW v \in Writers(a)
        PROVE  Later(w, v) /\ v = <<v[1], v[2]>> /\ v[1] \in Nat /\ v[2] \in Nat
    <3>1. v = <<v[1], v[2]>>
      BY WritersArePairs
    <3>2. PICK l \in DOMAIN recs : /\ source[l] = v[1]
                                   /\ v[2] \in DOMAIN recs[l].data
                                   /\ Writes(recs, a, l, v[2])
      BY <1>3, <3>1
    <3>3. Earlier(l, v[2], k, n)
      BY <2>1, <3>2
    <3>4. l < k => source[l] < source[k]
      BY <1>6
    <3>5. v[1] \in Nat /\ v[2] \in Nat
      <4>1. source[l] \in 1 .. Len(file)
        BY <1>6
      <4>2. v[2] \in Nat
        BY <1>1, <3>2, PositionTypes
      <4> QED BY <1>7, <3>2, <4>1, <4>2
    <3> QED BY <2>4, <3>1, <3>2, <3>3, <3>4, <3>5 DEF Earlier, Later
  <2> DEFINE last == CHOOSE x \in Writers(a) : \A v \in Writers(a) : Later(x, v)
  <2>6. last \in Writers(a) /\ \A v \in Writers(a) : Later(last, v)
    BY <2>3, <2>5
  <2>7. ImageByte(a) = file[last[1]].data[last[2]]
    BY Zenon DEF ImageByte
  <2> HIDE DEF last, w
  <2>8. last[1] = source[k] /\ last[2] = n
    <3>1. Later(last, w) /\ Later(w, last) /\ last[1] \in Nat /\ last[2] \in Nat
      BY <2>3, <2>5, <2>6
    <3>2. w[1] = source[k] /\ w[2] = n
      BY DEF w
    <3> QED BY <2>4, <3>1, <3>2 DEF Later
  <2>9. recs[k].data = file[source[k]].data
    BY <1>1, <1>2 DEF MadeFrom
  <2> QED BY <2>1, <2>2, <2>3, <2>7, <2>8, <2>9
<1> QED BY <1>5, <1>8, <1>9 DEF Upto

\* The lowest and the highest address read_hex_file has seen enclose the
\* image when no record reaches the end of the address space.
LEMMA ImageRange ==
  ASSUME file \in Files, NoneReachesEnd, NEW a, Writers(a) # {}
  PROVE  /\ a \in Nat /\ Read.hex_base \in Nat /\ Read.hex_end \in Nat
         /\ Read.hex_base <= a /\ a < Read.hex_end
<1>1. PICK w \in Writers(a) : TRUE
  OBVIOUS
<1> DEFINE i == w[1]
           n == w[2]
           len == Len(file[i].data)
<1>2. /\ i \in DataLines /\ n \in DOMAIN file[i].data
      /\ (Start(i) + n - 1) % AddrSpace = a
  BY WritersArePairs DEF Writers
<1>3. i \in 1 .. Len(file) /\ file[i].data \in Seq(Byte)
  <2>1. i \in 1 .. Len(file) /\ file[i] \in Line
    BY <1>2, FileLines DEF DataLines, RecordLines, Readable
  <2> QED BY <2>1 DEF Line
<1>4. n \in 1 .. len /\ len \in Nat /\ n \in Nat \ {0}
  BY <1>2, <1>3
<1>5. ReadSoFar(Read, Len(file))
  BY FileRead DEF Read
<1>6. Read.hex_base \in Nat /\ Read.hex_end \in Nat
  BY <1>5 DEF ReadSoFar, Reading
<1>7. /\ Start(i) \in Nat /\ Read.hex_base <= Start(i) % AddrSpace
      /\ ((Start(i) % AddrSpace) + len) % AddrSpace <= Read.hex_end
  BY <1>2, <1>3, <1>5 DEF ReadSoFar, RangeOf
<1>8. Start(i) + len < AddrSpace
  BY <1>2 DEF NoneReachesEnd
<1>9. \A x \in Nat : x < AddrSpace => x % AddrSpace = x
  BY AddrSpaceAssumption
<1> DEFINE s == Start(i)
<1> HIDE DEF i, n, len, s
<1>10. s \in Nat /\ s + len < AddrSpace /\ AddrSpace \in Nat
  BY <1>7, <1>8, AddrSpaceAssumption DEF s
<1>11. s % AddrSpace = s /\ (s + len) % AddrSpace = s + len
  BY <1>4, <1>9, <1>10
<1>12. s + n - 1 \in Nat /\ s + n - 1 < AddrSpace
  BY <1>4, <1>10
<1>13. a = s + n - 1
  BY <1>2, <1>9, <1>12 DEF s
<1>14. Read.hex_base <= s /\ s + len <= Read.hex_end
  BY <1>7, <1>11 DEF s
<1> QED BY <1>4, <1>6, <1>10, <1>13, <1>14

-----------------------------------------------------------------------------
(* What is loaded and built, at any time. *)

ImageInv ==
  /\ file \in Files /\ sector_size \in SectorSizes
  /\ load \in {"todo", "done", "mismatch"}
  /\ load = "done" => /\ records = Read.records
                      /\ hex_base_address = Read.hex_base
                      /\ hex_end_address = Read.hex_end
  /\ built \in BOOLEAN
  /\ built => load = "done" /\ sectors = pipeline_build(records, sector_size)

LEMMA ImageStep == ImageInv /\ [Next]_vars => ImageInv'
<1> SUFFICES ASSUME ImageInv, [Next]_vars PROVE ImageInv'
  OBVIOUS
<1>1. CASE Load
  BY <1>1 DEF Load, ImageInv, Read, inputs
<1>2. CASE LoadMismatch
  BY <1>2 DEF LoadMismatch, ImageInv, Read, inputs
<1>3. CASE Build
  BY <1>3 DEF Build, ImageInv, Read, inputs, image
<1>4. CASE NextSegment
  BY <1>4 DEF NextSegment, ImageInv, Read, inputs, image
<1>5. CASE Advance
  BY <1>5 DEF Advance, ImageInv, Read, inputs, image
<1>6. CASE Rewind
  BY <1>6 DEF Rewind, ImageInv, Read, inputs, image
<1>7. CASE UNCHANGED vars
  BY <1>7 DEF vars, ImageInv, Read, inputs, image
<1> QED BY <1>1, <1>2, <1>3, <1>4, <1>5, <1>6, <1>7 DEF Next

LEMMA ImageInvariant == Spec => []ImageInv
<1>1. Init => ImageInv
  BY DEF Init, ImageInv
<1> QED BY <1>1, ImageStep, PTL DEF Spec

\* What is known of the sectors once they are built.
LEMMA SectorsBuilt ==
  ASSUME ImageInv, built
  PROVE  /\ sector_size \in Nat \ {0}
         /\ \E mem \in Memory :
              /\ Placed(sectors, mem, sector_size)
              /\ \A a \in Nat :
                   /\ mem[a] = Blank <=> Writers(a) = {}
                   /\ Writers(a) # {} => /\ mem[a] = ImageByte(a)
                                         /\ a \in 0 .. AddrSpace - 1
<1>1. /\ file \in Files /\ records = Read.records
      /\ sectors = pipeline_build(records, sector_size)
      /\ sector_size \in Nat \ {0}
  BY WalkAssumption DEF ImageInv
<1>2. records \in Seq(Record)
  BY <1>1, FileRead DEF ReadSoFar, Reading, Read
<1>3. PICK mem \in Memory : /\ Placed(sectors, mem, sector_size)
                            /\ Upto(records, mem, Len(records) + 1, 0)
  BY <1>1, <1>2, Built
<1> QED BY <1>1, <1>3, ImageHeld

LEMMA ImageRangeHolds == ImageInv => RangeHoldsImage
<1> SUFFICES ASSUME ImageInv, load = "done", NoneReachesEnd,
                    NEW a \in 0 .. AddrSpace - 1, Writers(a) # {}
             PROVE  hex_base_address <= a /\ a < hex_end_address
  BY DEF RangeHoldsImage
<1> QED BY ImageRange DEF ImageInv

LEMMA ImageBuildMatches == ImageInv => BuildMatchesImage
<1> SUFFICES ASSUME ImageInv, built PROVE BuildMatchesImage
  BY DEF BuildMatchesImage
<1>1. PICK mem \in Memory :
        /\ Placed(sectors, mem, sector_size)
        /\ \A a \in Nat :
             /\ mem[a] = Blank <=> Writers(a) = {}
             /\ Writers(a) # {} => /\ mem[a] = ImageByte(a)
                                   /\ a \in 0 .. AddrSpace - 1
  BY SectorsBuilt
<1>2. sector_size \in Nat \ {0} /\ sectors \in Seq(SectorOf(sector_size))
  BY <1>1, SectorsBuilt DEF Placed, Holds
<1>3. \A k \in DOMAIN sectors :
        sectors[k].base_addr \in Nat /\ sectors[k].size = sector_size
  BY <1>2, SectorFields
<1>4. ASSUME NEW k \in DOMAIN sectors
      PROVE  /\ sectors[k].base_addr % sector_size = 0
             /\ \A j \in DOMAIN sectors :
                  sectors[j].base_addr = sectors[k].base_addr => j = k
  BY <1>1 DEF Placed, Holds
<1>5. ASSUME NEW k \in DOMAIN sectors, NEW i \in 0 .. sectors[k].size - 1
      PROVE  LET a == sectors[k].base_addr + i
             IN  /\ sectors[k].valid[i] <=> Writers(a) # {}
                 /\ sectors[k].data[i] =
                      IF Writers(a) = {} THEN ErasedByte ELSE ImageByte(a)
  <2> DEFINE a == sectors[k].base_addr + i
  <2>1. a \in Nat /\ i \in 0 .. sector_size - 1
    BY <1>2, <1>3
  <2>2. /\ sectors[k].valid[i] <=> mem[a] # Blank
        /\ sectors[k].data[i] = IF mem[a] = Blank THEN ErasedByte ELSE mem[a]
    BY <1>1, <2>1 DEF Placed, Holds
  <2> HIDE DEF a
  <2>3. /\ sectors[k].valid[i] <=> Writers(a) # {}
        /\ sectors[k].data[i] =
             IF Writers(a) = {} THEN ErasedByte ELSE ImageByte(a)
    BY <1>1, <2>1, <2>2
  <2> QED BY <2>3 DEF a
<1>6. ASSUME NEW a \in 0 .. AddrSpace - 1, Writers(a) # {}
      PROVE  \E k \in DOMAIN sectors : a \in Addresses(k)
  <2>1. a \in Nat /\ mem[a] # Blank
    BY <1>1, <1>6, AddrSpaceAssumption
  <2>2. PICK k \in DOMAIN sectors :
          a \in sectors[k].base_addr .. sectors[k].base_addr + sector_size - 1
    BY <1>1, <2>1 DEF Placed, Covers
  <2> QED BY <1>3, <2>2 DEF Addresses
<1> QED BY <1>4, <1>5, <1>6 DEF BuildMatchesImage

LEMMA ImageAssumed == ImageInv => ImageAsAssumed
<1> SUFFICES ASSUME ImageInv, built PROVE ImageAsAssumed
  BY DEF ImageAsAssumed
<1> DEFINE size == sector_size
<1>1. PICK mem \in Memory :
        /\ Placed(sectors, mem, size)
        /\ \A a \in Nat :
             /\ mem[a] = Blank <=> Writers(a) = {}
             /\ Writers(a) # {} => a \in 0 .. AddrSpace - 1
  BY SectorsBuilt
<1>2. /\ size \in Nat \ {0} /\ sectors \in Seq(SectorOf(size))
      /\ file \in Files /\ load = "done" /\ AddrSpace \in Nat
  BY <1>1, SectorsBuilt, AddrSpaceAssumption DEF Placed, Holds, ImageInv
<1>3. \A k \in DOMAIN sectors :
        sectors[k].base_addr \in Nat /\ sectors[k].size = size
  BY <1>2, SectorFields
<1> HIDE DEF size
<1>4. ASSUME NEW k \in DOMAIN sectors, NEW i \in 0 .. size - 1
      PROVE  /\ sectors[k].base_addr + i \in Nat
             /\ sector_base(sectors[k].base_addr + i, size) = sectors[k].base_addr
             /\ sectors[k].valid[i] <=> Writers(sectors[k].base_addr + i) # {}
             /\ sectors[k].valid[i] => sectors[k].base_addr + i \in 0 .. AddrSpace - 1
  <2> DEFINE b == sectors[k].base_addr
  <2>1. b \in Nat /\ b % size = 0
    BY <1>1, <1>3 DEF Placed, Holds
  <2>2. sectors[k].valid[i] <=> mem[b + i] # Blank
    BY <1>1 DEF Placed, Holds
  <2> HIDE DEF b
  <2>3. b + i \in Nat /\ b + i \in b .. b + size - 1
    BY <1>2, <2>1
  <2>4. sector_base(b + i, size) = b
    BY <1>2, <2>1, <2>3, SectorBase
  <2>5. sectors[k].valid[i] <=> Writers(b + i) # {}
    BY <1>1, <2>2, <2>3
  <2> QED BY <1>1, <2>3, <2>4, <2>5 DEF b
<1>5. \A k \in DOMAIN sectors : \E i \in 0 .. size - 1 : sectors[k].valid[i]
  BY <1>1 DEF Placed, Programmed
<1>6. sectors # <<>> <=> HasData
  <2>1. ASSUME sectors # <<>> PROVE HasData
    <3>1. 1 \in DOMAIN sectors
      BY <1>2, <2>1
    <3>2. PICK i \in 0 .. size - 1 : sectors[1].valid[i]
      BY <1>5, <3>1
    <3>3. /\ Writers(sectors[1].base_addr + i) # {}
          /\ sectors[1].base_addr + i \in 0 .. AddrSpace - 1
      BY <1>4, <3>1, <3>2
    <3> QED BY <3>3 DEF HasData
  <2>2. ASSUME HasData PROVE sectors # <<>>
    <3>1. PICK a \in 0 .. AddrSpace - 1 : Writers(a) # {}
      BY <2>2 DEF HasData
    <3>2. mem[a] # Blank /\ a \in Nat
      BY <1>1, <1>2, <3>1
    <3>3. \E k \in DOMAIN sectors :
            a \in sectors[k].base_addr .. sectors[k].base_addr + size - 1
      BY <1>1, <3>2 DEF Placed, Covers
    <3> QED BY <3>3
  <2> QED BY <2>1, <2>2
<1>7. SectorsApart(sectors, size)
  <2>1. \A j, k \in DOMAIN sectors :
          sectors[j].base_addr = sectors[k].base_addr => j = k
    BY <1>1 DEF Placed, Holds
  <2> QED BY <1>3, <1>4, <1>5, <2>1 DEF SectorsApart
<1>8. ASSUME NoneReachesEnd, HasData PROVE hex_base_address < hex_end_address
  <2>1. PICK a \in 0 .. AddrSpace - 1 : Writers(a) # {}
    BY <1>8 DEF HasData
  <2>2. /\ a \in Nat /\ hex_base_address \in Nat /\ hex_end_address \in Nat
        /\ hex_base_address <= a /\ a < hex_end_address
    BY <1>2, <1>8, <2>1, ImageRange DEF ImageInv
  <2> QED BY <2>2
<1>9. ASSUME NoneReachesEnd
      PROVE  SectorsWithin(sectors, size, hex_base_address, hex_end_address)
  <2>1. ASSUME NEW k \in DOMAIN sectors, NEW i \in 0 .. size - 1,
               sectors[k].valid[i]
        PROVE  sectors[k].base_addr + i
                 \in hex_base_address .. hex_end_address - 1
    <3> DEFINE a == sectors[k].base_addr + i
    <3>1. Writers(a) # {}
      BY <1>4, <2>1
    <3> HIDE DEF a
    <3>2. /\ a \in Nat /\ hex_base_address \in Nat /\ hex_end_address \in Nat
          /\ hex_base_address <= a /\ a < hex_end_address
      BY <1>2, <1>9, <3>1, ImageRange DEF ImageInv
    <3>3. a \in hex_base_address .. hex_end_address - 1
      BY <3>2
    <3> QED BY <3>3 DEF a
  <2> QED BY <1>2, <2>1 DEF SectorsWithin
<1> QED BY <1>6, <1>7, <1>8, <1>9 DEF ImageAsAssumed, size

\* The range checked against the target's flash encloses the image.
THEOREM RangeHolds == Spec => []RangeHoldsImage
BY ImageInvariant, ImageRangeHolds, PTL

\* The sectors hold the image of the file, byte for byte, and nothing else.
THEOREM BuildMatches == Spec => []BuildMatchesImage
BY ImageInvariant, ImageBuildMatches, PTL

\* What HostFsm and UpdateSystem assume of an image and its sectors is what
\* read_hex_file and pipeline_build make of any file.
THEOREM AssumptionsMet == Spec => []ImageAsAssumed
BY ImageInvariant, ImageAssumed, PTL

-----------------------------------------------------------------------------
(* The walk over a sector. *)

\* A segment of the walk, behind which it has reached at: it starts at a
\* programmed byte and carries the sector's bytes.
Carried(sector, size, s, at) ==
  LET first == s.addr - sector.base_addr
  IN  /\ s.addr \in Nat /\ s.data \in Seq(Byte)
      /\ first \in 0 .. size - 1
      /\ first + Len(s.data) <= at
      /\ sector.valid[first]
      /\ \A i \in 1 .. Len(s.data) : s.data[i] = sector.data[first + i - 1]

\* A pass that has reached at: its segments follow each other, no programmed
\* byte before at is left out, and all but the last take seg bytes.
Pass(sector, size, seg, at, segs) ==
  /\ at \in 0 .. size
  /\ segs \in Seq([addr : Nat, data : Seq(Byte)])
  /\ \A n \in DOMAIN segs : Carried(sector, size, segs[n], at)
  /\ \A n, m \in DOMAIN segs :
       n < m => segs[n].addr + Len(segs[n].data) <= segs[m].addr
  /\ \A i \in 0 .. at - 1 :
       sector.valid[i] =>
         \E n \in DOMAIN segs : sector.base_addr + i \in SegAddresses(segs[n])
  /\ \/ Len(segs) * seg <= at
     \/ at = size /\ Len(segs) * seg < size + seg

LEMMA PassStarts ==
  ASSUME NEW size \in Nat \ {0}, NEW sector \in SectorOf(size),
         NEW seg \in Nat \ {0}
  PROVE  Pass(sector, size, seg, 0, <<>>)
<1>1. /\ <<>> \in Seq([addr : Nat, data : Seq(Byte)])
      /\ DOMAIN <<>> = {} /\ Len(<<>>) = 0
      /\ 0 \in 0 .. size /\ 0 * seg <= 0 /\ 0 .. 0 - 1 = {}
  OBVIOUS
<1> QED BY <1>1 DEF Pass

\* A call that finds nothing more takes the walk to the end of the sector.
LEMMA PassEnds ==
  ASSUME NEW size \in Nat \ {0}, NEW sector \in SectorOf(size),
         NEW seg \in Nat \ {0}, NEW at, NEW segs,
         Pass(sector, size, seg, at, segs),
         \A i \in at .. size - 1 : ~sector.valid[i]
  PROVE  Pass(sector, size, seg, size, segs)
<1>1. at \in 0 .. size
  BY DEF Pass
<1>2. \A n \in DOMAIN segs : Carried(sector, size, segs[n], size)
  <2>1. ASSUME NEW n \in DOMAIN segs
        PROVE  Carried(sector, size, segs[n], size)
    <3>1. /\ Carried(sector, size, segs[n], at)
          /\ segs \in Seq([addr : Nat, data : Seq(Byte)])
      BY DEF Pass
    <3>2. Len(segs[n].data) \in Nat /\ segs[n].addr - sector.base_addr \in Nat
      BY <3>1 DEF Carried
    <3> QED BY <1>1, <3>1, <3>2 DEF Carried
  <2> QED BY <2>1
<1>3. ASSUME NEW i \in 0 .. size - 1, sector.valid[i]
      PROVE  i \in 0 .. at - 1
  BY <1>1, <1>3
<1>4. \/ Len(segs) * seg <= size
      \/ Len(segs) * seg < size + seg
  <2>1. Len(segs) * seg \in Nat
    BY DEF Pass
  <2> QED BY <1>1, <2>1 DEF Pass
<1>5. size \in 0 .. size
  OBVIOUS
<1> QED BY <1>2, <1>3, <1>4, <1>5 DEF Pass

\* A call that returns a segment takes the walk behind it.
LEMMA PassGoesOn ==
  ASSUME NEW size \in Nat \ {0}, NEW sector \in SectorOf(size),
         NEW seg \in Nat \ {0}, NEW at, NEW segs,
         Pass(sector, size, seg, at, segs),
         pipeline_next_segment(sector, at, seg).len >= 0
  PROVE  LET walk == pipeline_next_segment(sector, at, seg)
         IN  Pass(sector, size, seg, walk.offset,
                  Append(segs, [addr |-> walk.addr, data |-> walk.data]))
<1> DEFINE walk  == pipeline_next_segment(sector, at, seg)
           base  == sector.base_addr
           next  == walk.offset
           len   == walk.len
           first == next - len
           new   == [addr |-> walk.addr, data |-> walk.data]
           more  == Append(segs, new)
           l     == Len(segs) + 1
<1>1. /\ at \in 0 .. size
      /\ segs \in Seq([addr : Nat, data : Seq(Byte)])
      /\ base \in Nat
  BY DEF Pass, SectorOf
<1>2. /\ next \in at .. size
      /\ len \in 1 .. seg
      /\ first \in at .. size - 1
      /\ sector.valid[first]
      /\ \A i \in at .. first - 1 : ~sector.valid[i]
      /\ walk.addr = base + first
      /\ walk.data \in Seq(Byte) /\ Len(walk.data) = len
      /\ \A i \in 1 .. len : walk.data[i] = sector.data[first + i - 1]
  <2>1. size \in Nat /\ at \in 0 .. size
    BY <1>1
  <2> QED BY <2>1, NextSegmentCall
<1>3. len = seg \/ next = size
  BY <1>1, WholeOrLast
<1>4. /\ new \in [addr : Nat, data : Seq(Byte)]
      /\ new.addr = base + first /\ new.data = walk.data
  BY <1>1, <1>2
<1>5. /\ more \in Seq([addr : Nat, data : Seq(Byte)]) /\ Len(more) = l
      /\ l \in Nat \ {0} /\ l \in DOMAIN more /\ more[l] = new
      /\ \A n \in DOMAIN segs : n \in DOMAIN more /\ more[n] = segs[n] /\ n < l
      /\ \A n \in DOMAIN more : n = l \/ n \in DOMAIN segs
      /\ \A n \in DOMAIN more : n \in Nat /\ n <= l
  <2> HIDE DEF new
  <2>1. /\ more \in Seq([addr : Nat, data : Seq(Byte)])
        /\ Len(more) = l /\ l \in Nat \ {0} /\ more[l] = new
        /\ \A n \in 1 .. Len(segs) : more[n] = segs[n]
    BY <1>1, <1>4
  <2>2. DOMAIN segs = 1 .. l - 1 /\ DOMAIN more = 1 .. l /\ Len(segs) = l - 1
    BY <1>1, <2>1
  <2> HIDE DEF more, l
  <2> QED BY <2>1, <2>2
<1> HIDE DEF walk, base, next, len, first, new, more, l
<1>6. /\ next \in 0 .. size /\ len \in Nat \ {0} /\ first \in Nat
      /\ first + len = next /\ at <= first /\ first < size /\ at <= next
  BY <1>1, <1>2 DEF first
<1>7. ASSUME NEW n \in DOMAIN more PROVE Carried(sector, size, more[n], next)
  <2>1. CASE n = l
    <3>1. new.addr - sector.base_addr = first /\ new.addr \in Nat
      BY <1>1, <1>4, <1>6 DEF base
    <3>2. first \in 0 .. size - 1 /\ first + len <= next
      BY <1>6
    <3>3. Carried(sector, size, new, next)
      BY <1>2, <1>4, <3>1, <3>2 DEF Carried
    <3> QED BY <1>5, <2>1, <3>3
  <2>2. CASE n \in DOMAIN segs
    <3>1. Carried(sector, size, segs[n], at)
      BY <2>2 DEF Pass
    <3> DEFINE reach == segs[n].addr - sector.base_addr + Len(segs[n].data)
    <3>2. reach \in Nat /\ reach <= at
      <4>1. Len(segs[n].data) \in Nat /\ segs[n].addr - sector.base_addr \in Nat
        BY <3>1 DEF Carried
      <4>2. reach <= at
        BY <3>1 DEF Carried
      <4> QED BY <4>1, <4>2
    <3>3. at \in Nat /\ next \in Nat /\ at <= next
      BY <1>1, <1>6
    <3>4. reach <= next
      <4> HIDE DEF reach
      <4> QED BY <3>2, <3>3
    <3>5. Carried(sector, size, segs[n], next)
      BY <3>1, <3>4 DEF Carried
    <3> QED BY <1>5, <2>2, <3>5
  <2> QED BY <1>5, <2>1, <2>2
<1>8. ASSUME NEW n \in DOMAIN more, NEW m \in DOMAIN more, n < m
      PROVE  more[n].addr + Len(more[n].data) <= more[m].addr
  <2>1. n \in DOMAIN segs
    BY <1>5, <1>8
  <2>2. CASE m \in DOMAIN segs
    BY <1>5, <1>8, <2>1, <2>2 DEF Pass
  <2>3. CASE m = l
    <3>1. Carried(sector, size, segs[n], at)
      BY <2>1 DEF Pass
    <3>2. /\ Len(segs[n].data) \in Nat /\ segs[n].addr \in Nat
          /\ segs[n].addr - base + Len(segs[n].data) <= at
      BY <3>1 DEF Carried, base
    <3>3. segs[n].addr + Len(segs[n].data) <= new.addr
      <4> DEFINE a == segs[n].addr
                 c == Len(segs[n].data)
      <4>1. a \in Nat /\ c \in Nat /\ a - base + c <= at
        BY <3>2
      <4> HIDE DEF a, c
      <4>2. at \in Nat /\ at <= first /\ new.addr = base + first
        BY <1>1, <1>4, <1>6
      <4>3. a + c <= base + first
        BY <1>1, <1>6, <4>1, <4>2
      <4> QED BY <4>2, <4>3 DEF a, c
    <3> QED BY <1>5, <2>1, <2>3, <3>3
  <2> QED BY <1>5, <2>2, <2>3
<1>9. ASSUME NEW i \in 0 .. next - 1, sector.valid[i]
      PROVE  \E n \in DOMAIN more : base + i \in SegAddresses(more[n])
  <2>1. CASE i < at
    <3>1. i \in 0 .. at - 1
      BY <1>1, <1>6, <2>1
    <3>2. PICK n \in DOMAIN segs : base + i \in SegAddresses(segs[n])
      BY <1>9, <3>1 DEF Pass, base
    <3> QED BY <1>5, <3>2
  <2>2. CASE i >= at
    <3>1. i >= first
      <4>1. i < first => i \in at .. first - 1
        BY <1>1, <1>6, <2>2
      <4> QED BY <1>2, <1>6, <1>9, <4>1
    <3>2. base + i \in SegAddresses(new)
      <4>1. base + i \in base + first .. base + first + len - 1
        BY <1>1, <1>6, <3>1
      <4> QED BY <1>2, <1>4, <4>1 DEF SegAddresses
    <3> QED BY <1>5, <3>2
  <2> QED BY <1>1, <2>1, <2>2
<1>10. \/ l * seg <= next
       \/ next = size /\ l * seg < size + seg
  <2>1. Len(segs) \in Nat /\ at < size
    BY <1>1, <1>6
  <2>2. Len(segs) * seg <= at
    BY <2>1 DEF Pass
  <2>3. l * seg = Len(segs) * seg + seg /\ Len(segs) * seg \in Nat
    BY <2>1 DEF l
  <2>4. CASE len = seg
    <3>1. l * seg <= next
      BY <1>1, <1>6, <2>2, <2>3, <2>4
    <3> QED BY <3>1
  <2>5. CASE next = size
    <3>1. l * seg < size + seg
      BY <1>1, <2>1, <2>2, <2>3
    <3> QED BY <2>5, <3>1
  <2> QED BY <1>3, <2>4, <2>5 DEF len, next
<1>11. Pass(sector, size, seg, next, more)
  BY <1>5, <1>6, <1>7, <1>8, <1>9, <1>10 DEF Pass, base
<1> QED BY <1>11 DEF walk, next, more, new

WalkInv ==
  /\ segment_size \in SegmentSizes
  /\ current_sector \in Nat
  /\ ended \in BOOLEAN
  /\ Walking => /\ Pass(Sector, sector_size, segment_size, offset, segments)
                /\ ended => offset = sector_size
  /\ ~Walking => offset = 0 /\ segments = <<>> /\ ~ended

LEMMA SectorType ==
  ASSUME ImageInv, Walking, current_sector \in Nat
  PROVE  /\ sector_size \in Nat \ {0}
         /\ current_sector + 1 \in DOMAIN sectors
         /\ Sector \in SectorOf(sector_size)
<1>1. built /\ current_sector < Len(sectors)
  BY DEF Walking
<1>2. sector_size \in Nat \ {0} /\ sectors \in Seq(SectorOf(sector_size))
  BY <1>1, SectorsBuilt DEF Placed, Holds
<1>3. current_sector + 1 \in DOMAIN sectors
  BY <1>1, <1>2
<1> QED BY <1>2, <1>3 DEF Sector

\* A pass that begins, over the sector the step leads to.
LEMMA WalkStarts ==
  ASSUME ImageInv', segment_size' \in SegmentSizes, current_sector' \in Nat,
         offset' = 0, segments' = <<>>, ended' = FALSE
  PROVE  WalkInv'
<1>1. ASSUME Walking'
      PROVE  Pass(Sector, sector_size, segment_size, offset, segments)'
  <2>1. Sector' \in SectorOf(sector_size') /\ sector_size' \in Nat \ {0}
    <3>1. (ImageInv /\ Walking /\ current_sector \in Nat =>
             /\ sector_size \in Nat \ {0}
             /\ Sector \in SectorOf(sector_size))'
      BY SectorType, PTL
    <3> QED BY <1>1, <3>1
  <2>2. segment_size' \in Nat \ {0}
    BY WalkAssumption
  <2>3. Pass(Sector', sector_size', segment_size', 0, <<>>)
    BY <2>1, <2>2, PassStarts
  <2> QED BY <2>3
<1> QED BY <1>1 DEF WalkInv

LEMMA WalkStep == ImageInv /\ ImageInv' /\ WalkInv /\ [Next]_vars => WalkInv'
<1> SUFFICES ASSUME ImageInv, ImageInv', WalkInv, [Next]_vars PROVE WalkInv'
  OBVIOUS
<1>1. CASE Load
  <2>1. ~Walking /\ ~Walking'
    BY <1>1 DEF Load, Walking, ImageInv
  <2> QED BY <1>1, <2>1 DEF Load, WalkInv, inputs
<1>2. CASE LoadMismatch
  <2>1. ~Walking /\ ~Walking'
    BY <1>2 DEF LoadMismatch, Walking, ImageInv
  <2> QED BY <1>2, <2>1 DEF LoadMismatch, WalkInv, inputs
<1>3. CASE Build
  <2>1. ~Walking
    BY <1>3 DEF Build, Walking
  <2> QED BY <1>3, <2>1, WalkStarts DEF Build, WalkInv, inputs
<1>4. CASE NextSegment
  <2> DEFINE walk == pipeline_next_segment(Sector, offset, segment_size)
             new  == [addr |-> walk.addr, data |-> walk.data]
  <2>1. /\ Walking /\ Walking' /\ Sector' = Sector
        /\ offset' = walk.offset
        /\ ended' = (walk.len < 0)
        /\ segments' = IF walk.len < 0 THEN segments ELSE Append(segments, new)
        /\ sector_size' = sector_size /\ segment_size' = segment_size
        /\ current_sector' = current_sector
    BY <1>4 DEF NextSegment, Walking, Sector, inputs
  <2>2. /\ sector_size \in Nat \ {0} /\ Sector \in SectorOf(sector_size)
        /\ segment_size \in Nat \ {0}
        /\ Pass(Sector, sector_size, segment_size, offset, segments)
        /\ offset \in 0 .. sector_size
    BY <2>1, SectorType, WalkAssumption DEF WalkInv, Pass
  <2>3. /\ walk.len \in Int
        /\ walk.len < 0 =>
             /\ walk.offset = sector_size
             /\ \A i \in offset .. sector_size - 1 : ~Sector.valid[i]
    BY <2>2, NextSegmentCall
  <2>4. CASE walk.len < 0
    <3>1. Pass(Sector, sector_size, segment_size, sector_size, segments)
      BY <2>2, <2>3, <2>4, PassEnds
    <3> HIDE DEF walk
    <3> QED BY <2>1, <2>3, <2>4, <3>1 DEF WalkInv
  <2>5. CASE walk.len >= 0
    <3>1. Pass(Sector, sector_size, segment_size, walk.offset, Append(segments, new))
      BY <2>2, <2>5, PassGoesOn
    <3> HIDE DEF walk, new
    <3>2. /\ segments' = Append(segments, new) /\ ended' = FALSE
          /\ ~(walk.len < 0)
      <4>1. ~(walk.len < 0)
        BY <2>3, <2>5
      <4>2. (walk.len < 0) = FALSE
        BY <4>1
      <4>3. ended' = FALSE
        BY <2>1, <4>2, Zenon
      <4>4. segments' = Append(segments, new)
        BY <2>1, <4>1
      <4> QED BY <4>1, <4>3, <4>4
    <3>3. segment_size' \in SegmentSizes /\ current_sector' \in Nat
      BY <2>1 DEF WalkInv
    <3>4. Pass(Sector', sector_size', segment_size', offset', segments')
      BY <2>1, <3>1, <3>2
    <3> QED BY <2>1, <3>2, <3>3, <3>4 DEF WalkInv
  <2> QED BY <2>3, <2>4, <2>5
<1>5. CASE Advance
  <2>1. segment_size' \in SegmentSizes /\ current_sector' \in Nat
    BY <1>5 DEF Advance, WalkInv, inputs
  <2>2. offset' = 0 /\ segments' = <<>> /\ ended' = FALSE
    BY <1>5 DEF Advance
  <2> QED BY <2>1, <2>2, WalkStarts
<1>6. CASE Rewind
  BY <1>6, WalkStarts DEF Rewind, WalkInv, inputs
<1>7. CASE UNCHANGED vars
  BY <1>7 DEF vars, inputs, WalkInv, Walking, Sector
<1> QED BY <1>1, <1>2, <1>3, <1>4, <1>5, <1>6, <1>7 DEF Next

LEMMA WalkInvariant == Spec => []WalkInv
<1>1. Init => WalkInv
  <2> SUFFICES ASSUME Init PROVE WalkInv
    OBVIOUS
  <2>1. ~Walking
    BY DEF Init, Walking
  <2> QED BY <2>1 DEF Init, WalkInv
<1> QED BY <1>1, ImageInvariant, WalkStep, PTL DEF Spec

LEMMA WalkCovers == ImageInv /\ WalkInv => SegmentsCoverSector
<1> SUFFICES ASSUME ImageInv, WalkInv, Walking PROVE SegmentsCoverSector
  BY DEF SegmentsCoverSector
<1>1. /\ sector_size \in Nat \ {0} /\ current_sector + 1 \in DOMAIN sectors
      /\ Sector \in SectorOf(sector_size)
      /\ Pass(Sector, sector_size, segment_size, offset, segments)
      /\ ended => offset = sector_size
  BY SectorType DEF WalkInv
<1>2. Sector.size = sector_size /\ Sector.base_addr \in Nat
  BY <1>1 DEF SectorOf
<1>3. Addresses(current_sector + 1)
        = Sector.base_addr .. Sector.base_addr + sector_size - 1
  BY <1>2 DEF Addresses, Sector
<1>4. /\ segments \in Seq([addr : Nat, data : Seq(Byte)])
      /\ offset \in 0 .. sector_size
      /\ \A n, m \in DOMAIN segments :
           n < m => segments[n].addr + Len(segments[n].data) <= segments[m].addr
  BY <1>1 DEF Pass
<1> DEFINE base == Sector.base_addr
<1>5. \A n \in DOMAIN segments :
        segments[n].addr \in Nat /\ Len(segments[n].data) \in Nat
  <2>1. \A n \in DOMAIN segments : Carried(Sector, sector_size, segments[n], offset)
    BY <1>1 DEF Pass
  <2> QED BY <2>1 DEF Carried
<1>6. ASSUME NEW n \in DOMAIN segments
      PROVE  LET s == segments[n]
                 first == s.addr - Sector.base_addr
             IN  /\ SegAddresses(s) \subseteq Addresses(current_sector + 1)
                 /\ Sector.valid[first]
                 /\ \A i \in DOMAIN s.data : s.data[i] = Sector.data[first + i - 1]
                 /\ \A m \in DOMAIN segments :
                      m # n => SegAddresses(s) \cap SegAddresses(segments[m]) = {}
  <2> DEFINE s == segments[n]
             first == s.addr - Sector.base_addr
  <2>1. /\ s.addr \in Nat /\ s.data \in Seq(Byte)
        /\ first \in 0 .. sector_size - 1
        /\ first + Len(s.data) <= offset
        /\ Sector.valid[first]
        /\ \A i \in 1 .. Len(s.data) : s.data[i] = Sector.data[first + i - 1]
    BY <1>1 DEF Pass, Carried
  <2>2. Len(s.data) \in Nat /\ DOMAIN s.data = 1 .. Len(s.data)
    BY <2>1
  <2>3. SegAddresses(s) \subseteq Addresses(current_sector + 1)
    <3> DEFINE a == s.addr
               c == Len(s.data)
    <3>1. /\ a \in Nat /\ c \in Nat /\ base \in Nat /\ a - base \in Nat
          /\ a - base + c <= offset /\ offset \in Nat /\ offset <= sector_size
      BY <1>1, <1>2, <1>4, <2>1, <2>2
    <3> HIDE DEF a, c, base
    <3>2. a .. a + c - 1 \subseteq base .. base + sector_size - 1
      BY <1>1, <3>1
    <3> QED BY <1>3, <3>2 DEF SegAddresses, a, c, base
  <2>4. ASSUME NEW m \in DOMAIN segments, m # n
        PROVE  SegAddresses(s) \cap SegAddresses(segments[m]) = {}
    <3> DEFINE t == segments[m]
    <3>1. t.addr \in Nat /\ Len(t.data) \in Nat
      BY <1>5
    <3>2. \/ s.addr + Len(s.data) <= t.addr
          \/ t.addr + Len(t.data) <= s.addr
      <4>1. n \in Nat /\ m \in Nat
        BY <1>4
      <4>2. n < m \/ m < n
        BY <2>4, <4>1
      <4> QED BY <1>4, <4>2
    <3> HIDE DEF s, t
    <3>3. ASSUME NEW x, x \in SegAddresses(s), x \in SegAddresses(t) PROVE FALSE
      <4> DEFINE a == s.addr
                 b == t.addr
                 c == Len(s.data)
                 d == Len(t.data)
      <4>1. /\ a \in Nat /\ b \in Nat /\ c \in Nat /\ d \in Nat
            /\ a + c <= b \/ b + d <= a
        BY <2>1, <2>2, <3>1, <3>2
      <4>2. x \in a .. a + c - 1 /\ x \in b .. b + d - 1
        BY <3>3 DEF SegAddresses
      <4> HIDE DEF a, b, c, d
      <4> QED BY <4>1, <4>2
    <3>4. SegAddresses(s) \cap SegAddresses(t) = {}
      BY <3>3
    <3> QED BY <3>4 DEF t
  <2> QED BY <2>1, <2>2, <2>3, <2>4
<1>7. ASSUME ended, NEW i \in 0 .. Sector.size - 1, Sector.valid[i]
      PROVE  \E n \in DOMAIN segments :
               Sector.base_addr + i \in SegAddresses(segments[n])
  BY <1>1, <1>2, <1>7 DEF Pass
<1> QED BY <1>6, <1>7 DEF SegmentsCoverSector

LEMMA WalkWithin == ImageInv /\ WalkInv => SegmentsWithinEstimate
<1> SUFFICES ASSUME ImageInv, WalkInv PROVE SegmentsWithinEstimate
  OBVIOUS
<1>1. sector_size \in Nat \ {0} /\ segment_size \in Nat \ {0}
  BY WalkAssumption DEF ImageInv, WalkInv
<1>2. CASE Walking
  <2>1. /\ Pass(Sector, sector_size, segment_size, offset, segments)
    BY <1>2 DEF WalkInv
  <2>2. /\ Len(segments) \in Nat /\ offset \in 0 .. sector_size
        /\ \/ Len(segments) * segment_size <= offset
           \/ Len(segments) * segment_size < sector_size + segment_size
    BY <2>1 DEF Pass
  <2>3. Len(segments) * segment_size \in Nat
    BY <1>1, <2>2
  <2> QED BY <1>1, <2>2, <2>3 DEF SegmentsWithinEstimate
<1>3. CASE ~Walking
  <2>1. segments = <<>>
    BY <1>3 DEF WalkInv
  <2>2. Len(segments) * segment_size = 0
    BY <1>1, <2>1
  <2> QED BY <1>1, <2>2 DEF SegmentsWithinEstimate
<1> QED BY <1>2, <1>3

\* The segments of a pass over a sector cover its programmed bytes, never
\* overlap, and carry the sector's bytes.
THEOREM SegmentsCover == Spec => []SegmentsCoverSector
BY ImageInvariant, WalkInvariant, WalkCovers, PTL

\* A pass takes no more segments than act_build_pipeline estimates.
THEOREM SegmentsWithin == Spec => []SegmentsWithinEstimate
BY ImageInvariant, WalkInvariant, WalkWithin, PTL
=============================================================================
