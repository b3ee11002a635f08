------------------------ MODULE FilesystemFaultProofs ------------------------
(***************************************************************************)
(* The partition of filesystem_lib.c on any device, flash included, where  *)
(* a store erases pages before it writes: the head of a partition that     *)
(* holds an element survives one power failure or storage error, alone and *)
(* under storer_lib.c.                                                     *)
(***************************************************************************)
EXTENDS FilesystemProofs

(* Stores on any device. *)

(* Between two operations that touch a cell it keeps its contents. *)
LEMMA TraceBetween ==
  ASSUME NEW s, Sound(s), NEW ops \in Seq(Ops), NEW x \in Addresses,
         NEW j \in 0 .. Len(ops), NEW k \in j .. Len(ops),
         \A i \in j + 1 .. k : ~Touches(ops[i], x)
  PROVE  Trace(s, ops)[k].disk[x] = Trace(s, ops)[j].disk[x]
<1> DEFINE After(n) == Trace(s, ops)[n]
           T == {n \in Nat : j <= n /\ n <= k => After(n).disk[x] = After(j).disk[x]}
<1>1. 0 \in T
  <2>1. j <= 0 => j = 0
    OBVIOUS
  <2> HIDE DEF After
  <2> QED BY <2>1
<1>2. ASSUME NEW n \in Nat, n \in T PROVE n + 1 \in T
  <2> SUFFICES ASSUME j <= n + 1, n + 1 <= k PROVE After(n + 1).disk[x] = After(j).disk[x]
    OBVIOUS
  <2>1. CASE j = n + 1
    BY <2>1
  <2>2. CASE j # n + 1
    <3>1. j <= n /\ n <= k
      BY <2>2
    <3>2. After(n).disk[x] = After(j).disk[x]
      BY <1>2, <3>1
    <3>3. n + 1 \in 1 .. Len(ops) /\ n + 1 \in j + 1 .. k /\ n \in 0 .. Len(ops)
          /\ ops[n + 1] \in Ops /\ (n + 1) - 1 = n
      BY <3>1
    <3>4. After(n + 1) = Apply(After(n), ops[n + 1])
      BY <3>3, TraceDef
    <3>5. After(n) \in States
      BY <3>3, TraceType DEF Sound
    <3>6. ~Touches(ops[n + 1], x)
      BY <3>3
    <3> HIDE DEF After
    <3> QED BY <3>2, <3>3, <3>4, <3>5, <3>6, ApplyFrame
  <2> QED BY <2>1, <2>2
<1> HIDE DEF T
<1>3. Nat \subseteq T
  BY <1>1, <1>2, SetInduction
<1>4. k \in T /\ j <= k
  BY <1>3
<1> QED BY <1>4 DEF T

(* A cell that is erased and then programmed once holds what was put.      *)
LEMMA ErasedThenPut ==
  ASSUME NEW s, Sound(s), NEW ops \in Seq(Ops), NEW x \in Addresses, x >= 0,
         NEW e \in 1 .. Len(ops), NEW p \in e + 1 .. Len(ops), NEW c,
         ops[e] = Erase(x \div UnitSize), ops[p] = Put(x, c),
         \A i \in e + 1 .. Len(ops) : i # p => ~Touches(ops[i], x)
  PROVE  Trace(s, ops)[Len(ops)].disk[x] = c
<1> DEFINE After(n) == Trace(s, ops)[n]
           n == Len(ops)
<1>0. /\ e \in 0 .. n /\ e - 1 \in 0 .. n /\ p - 1 \in e .. n /\ p - 1 \in 0 .. n
      /\ p \in 0 .. n /\ p \in 1 .. n /\ n \in p .. n /\ n \in Nat
  OBVIOUS
<1>1. \A k \in 0 .. n : After(k) \in States
  BY TraceType DEF Sound
<1>2. /\ After(e) = Apply(After(e - 1), ops[e])
      /\ After(p) = Apply(After(p - 1), ops[p])
  BY <1>0, TraceDef
<1>3. After(e).disk[x] = Blank
  <2> DEFINE t == After(e - 1)
  <2>1. t \in States
    BY <1>0, <1>1
  <2> HIDE DEF t
  <2>2. Apply(t, Erase(x \div UnitSize)).disk
          = [y \in DOMAIN t.disk |->
               IF y >= 0 /\ y \div UnitSize = x \div UnitSize THEN Blank ELSE t.disk[y]]
    BY <2>1 DEF Apply, Erase, States
  <2>3. DOMAIN t.disk = Addresses
    BY <2>1 DEF States
  <2>4. Apply(t, Erase(x \div UnitSize)).disk[x] = Blank
    BY <2>2, <2>3
  <2>5. After(e) = Apply(t, Erase(x \div UnitSize))
    BY <1>2 DEF t
  <2> HIDE DEF After
  <2> QED BY <2>4, <2>5
<1>4. After(p - 1).disk[x] = After(e).disk[x]
  <2>1. \A i \in e + 1 .. p - 1 : ~Touches(ops[i], x)
    OBVIOUS
  <2> QED BY <1>0, <2>1, TraceBetween
<1>5. After(p).disk[x] = c
  <2> DEFINE t == After(p - 1)
  <2>1. t \in States /\ t.disk[x] = Blank
    BY <1>0, <1>1, <1>3, <1>4
  <2>2. After(p) = Apply(t, Put(x, c))
    BY <1>2
  <2> HIDE DEF t, After
  <2>3. Apply(t, Put(x, c)) = [t EXCEPT !.disk[x] = c]
    <3>1. ~(x < 0)
      BY Lengths DEF Addresses
    <3>2. Program(t.disk[x], c) = c
      BY <2>1 DEF Program
    <3>3. Apply(t, Put(x, c)) = [t EXCEPT !.disk[x] =
                                   IF x < 0 THEN c ELSE Program(t.disk[x], c)]
      BY DEF Apply, Put
    <3> QED BY <3>1, <3>2, <3>3
  <2> QED BY <2>1, <2>2, <2>3 DEF States
<1>6. After(n).disk[x] = After(p).disk[x]
  <2>1. \A i \in p + 1 .. n : ~Touches(ops[i], x)
    OBVIOUS
  <2> HIDE DEF n
  <2> QED BY <1>0, <2>1, TraceBetween DEF n
<1> QED BY <1>5, <1>6

(* The places of four pieces that follow each other. *)
Laid(o, t, E, F, P) ==
  /\ Len(o) = 1 + Len(E) + Len(F) + Len(P)
  /\ o[1] = t
  /\ \A i \in 1 .. Len(E) : o[1 + i] = E[i]
  /\ \A i \in 1 .. Len(F) : o[1 + Len(E) + i] = F[i]
  /\ \A i \in 1 .. Len(P) : o[1 + Len(E) + Len(F) + i] = P[i]
  /\ \A i \in 1 .. Len(o) :
       \/ i = 1
       \/ \E k \in 1 .. Len(E) : i = 1 + k
       \/ \E k \in 1 .. Len(F) : i = 1 + Len(E) + k
       \/ \E k \in 1 .. Len(P) : i = 1 + Len(E) + Len(F) + k

(* The operations of a store in flash: track, erase, write back, write.    *)
LEMMA FourParts ==
  ASSUME NEW S, NEW t \in S, NEW E \in Seq(S), NEW F \in Seq(S), NEW P \in Seq(S),
         NEW o, o = <<t>> \o E \o F \o P
  PROVE  o \in Seq(S) /\ Laid(o, t, E, F, P)
<1> DEFINE a == <<t>> \o E
           b == a \o F
           ops == b \o P
<1>0. \A x, y \in Seq(S) :
        /\ x \o y \in Seq(S) /\ Len(x \o y) = Len(x) + Len(y)
        /\ \A i \in 1 .. Len(x) : (x \o y)[i] = x[i]
        /\ \A i \in 1 .. Len(y) : (x \o y)[Len(x) + i] = y[i]
  BY ConcatAt
<1>1. /\ a \in Seq(S) /\ Len(a) = 1 + Len(E) /\ a[1] = t
      /\ \A i \in 1 .. Len(E) : a[1 + i] = E[i]
  OBVIOUS
<1> HIDE DEF a
<1>2. /\ b \in Seq(S) /\ Len(b) = Len(a) + Len(F)
      /\ \A i \in 1 .. Len(a) : b[i] = a[i]
      /\ \A i \in 1 .. Len(F) : b[Len(a) + i] = F[i]
  BY ONLY <1>0, <1>1, F \in Seq(S), Zenon
<1> HIDE DEF b
<1>3. /\ ops \in Seq(S) /\ Len(ops) = Len(b) + Len(P)
      /\ \A i \in 1 .. Len(b) : ops[i] = b[i]
      /\ \A i \in 1 .. Len(P) : ops[Len(b) + i] = P[i]
  BY ONLY <1>0, <1>2, P \in Seq(S), Zenon
<1> HIDE DEF ops
<1>4. Len(E) \in Nat /\ Len(F) \in Nat /\ Len(P) \in Nat
  OBVIOUS
<1>5. Len(ops) = 1 + Len(E) + Len(F) + Len(P)
  BY <1>1, <1>2, <1>3, <1>4
<1>6. ops[1] = t
  BY <1>1, <1>2, <1>3, <1>4
<1>7. ASSUME NEW i \in 1 .. Len(E) PROVE ops[1 + i] = E[i]
  <2>1. 1 + i \in 1 .. Len(a) /\ 1 + i \in 1 .. Len(b)
    BY <1>1, <1>2, <1>4
  <2> QED BY <1>1, <1>2, <1>3, <2>1
<1>8. ASSUME NEW i \in 1 .. Len(F) PROVE ops[1 + Len(E) + i] = F[i]
  <2>1. Len(a) + i \in 1 .. Len(b) /\ Len(a) + i = 1 + Len(E) + i
    BY <1>1, <1>2, <1>4
  <2> QED BY <1>2, <1>3, <2>1
<1>9. ASSUME NEW i \in 1 .. Len(P) PROVE ops[1 + Len(E) + Len(F) + i] = P[i]
  <2>1. Len(b) + i = 1 + Len(E) + Len(F) + i
    BY <1>1, <1>2, <1>4
  <2> QED BY <1>3, <2>1
<1>10. ASSUME NEW i \in 1 .. Len(ops)
       PROVE  \/ i = 1
              \/ \E k \in 1 .. Len(E) : i = 1 + k
              \/ \E k \in 1 .. Len(F) : i = 1 + Len(E) + k
              \/ \E k \in 1 .. Len(P) : i = 1 + Len(E) + Len(F) + k
  <2>1. CASE i = 1
    BY <2>1
  <2>2. CASE i > 1 /\ i <= 1 + Len(E)
    <3>1. i - 1 \in 1 .. Len(E) /\ i = 1 + (i - 1)
      BY <1>4, <2>2
    <3> QED BY <3>1
  <2>3. CASE i > 1 + Len(E) /\ i <= 1 + Len(E) + Len(F)
    <3>1. i - 1 - Len(E) \in 1 .. Len(F) /\ i = 1 + Len(E) + (i - 1 - Len(E))
      BY <1>4, <2>3
    <3> QED BY <3>1
  <2>4. CASE i > 1 + Len(E) + Len(F)
    <3>1. i - 1 - Len(E) - Len(F) \in 1 .. Len(P)
          /\ i = 1 + Len(E) + Len(F) + (i - 1 - Len(E) - Len(F))
      BY <1>4, <1>5, <2>4
    <3> QED BY <3>1
  <2> QED BY <1>4, <2>1, <2>2, <2>3, <2>4
<1>11. ops = o
  BY DEF ops, b, a
<1> QED BY <1>3, <1>5, <1>6, <1>7, <1>8, <1>9, <1>10, <1>11 DEF Laid

(* A store in flash: the pages that are erased, the cells in front of the  *)
(* address that are written back unless the page was kept, and the data.   *)
FlashPlan(ops, s, a, cells, kept, e, f) ==
  LET first == a \div UnitSize
      last  == (a + Len(cells) - 1) \div UnitSize
      begin == IF kept THEN first + 1 ELSE first
      b     == first * UnitSize
  IN  /\ e = last - begin + 1
      /\ f = IF kept THEN 0 ELSE a - b
      /\ Len(ops) = 1 + e + f + Len(cells)
      /\ ops[1].k = "track"
      /\ \A i \in 1 .. e : ops[1 + i] = Erase(begin + i - 1)
      /\ \A i \in 1 .. f : ops[1 + e + i] = Put(b + i - 1, Read(s.disk, b + i - 1))
      /\ \A i \in 1 .. Len(cells) : ops[1 + e + f + i] = Put(a + i - 1, cells[i])
      /\ \A i \in 1 .. Len(ops) :
           \/ i = 1
           \/ \E k \in 1 .. e : i = 1 + k
           \/ \E k \in 1 .. f : i = 1 + e + k
           \/ \E k \in 1 .. Len(cells) : i = 1 + e + f + k

(* storage1_store follows such a plan; the page is kept only if something  *)
(* in front of the address was stored on it last.                          *)
LEMMA FlashPlanned ==
  ASSUME NEW s, Sound(s), NEW a \in Nat, NEW cells \in Seq(Cells),
         cells # << >>, a + Len(cells) <= partition_size
  PROVE  /\ FlashStore(s, a, cells) \in Seq(Ops)
         /\ \E kept \in BOOLEAN, e \in Nat, f \in Nat :
              /\ kept => a > 0
              /\ FlashPlan(FlashStore(s, a, cells), s, a, cells, kept, e, f)
<1> DEFINE U     == UnitSize
           end   == a + Len(cells) - 1
           first == a \div U
           last  == end \div U
           fresh == \E y \in s.track : y \div U = first /\ y < a
           begin == IF fresh THEN first + 1 ELSE first
           kept  == {y \in s.track : y \div U \notin first .. last}
           track1 == IF end % U = U - 1 THEN kept ELSE kept \cup {end}
           t == SetTrack(track1)
           E == [i \in 1 .. last - begin + 1 |-> Erase(begin + i - 1)]
           b == first * U
           read == ReadCells(s.disk, b, a - b)
           front == Puts(b, read)
           F == IF fresh THEN << >> ELSE front
           P == Puts(a, cells)
           ops == FlashStore(s, a, cells)
<1> USE Lengths
<1>1. U \in Nat \ {0} /\ end \in Nat /\ a <= end /\ end <= partition_size - 1
  BY PartitionAssumption
<1>2. ops = <<t>> \o E \o F \o P
  BY Zenon DEF FlashStore
<1> HIDE DEF ops
<1>4. first \in Nat /\ last \in Nat /\ first <= last /\ b \in Nat /\ b <= a
  BY <1>1, DivFacts, DivMono
<1>3. t \in Ops /\ t.k = "track"
  <2>1. s.track \subseteq 0 .. partition_size - 1 /\ end \in 0 .. partition_size - 1
    BY <1>1 DEF Sound, States, Tracks
  <2>2. kept \subseteq s.track
    OBVIOUS
  <2> HIDE DEF kept, end
  <2>3. track1 \in Tracks
    BY <2>1, <2>2 DEF Tracks
  <2> HIDE DEF track1
  <2> QED BY <2>3 DEF SetTrack, Ops
<1>8. last - begin + 1 \in Nat /\ begin \in Nat
  <2> HIDE DEF first, last, fresh
  <2> QED BY <1>4
<1>9. /\ E \in Seq(Ops) /\ Len(E) = last - begin + 1
      /\ \A i \in 1 .. Len(E) : E[i] = Erase(begin + i - 1)
  <2> HIDE DEF begin, last
  <2>1. \A i \in 1 .. last - begin + 1 : Erase(begin + i - 1) \in Ops
    <3> TAKE i \in 1 .. last - begin + 1
    <3> DEFINE x == begin + i - 1
    <3>1. x \in Nat
      BY <1>8
    <3> HIDE DEF x
    <3>2. Erase(x) \in Ops
      BY <3>1 DEF Erase, Ops
    <3> QED BY <3>2 DEF x
  <2>2. E \in [1 .. last - begin + 1 -> Ops]
    BY <2>1
  <2>3. \A i \in 1 .. last - begin + 1 : E[i] = Erase(begin + i - 1)
    OBVIOUS
  <2>4. E \in Seq(Ops) /\ Len(E) = last - begin + 1
    <3> HIDE DEF E
    <3> QED BY <1>8, <2>2, FcnIsSeq
  <2> QED BY <2>3, <2>4
<1>10. /\ read \in Seq(Cells) /\ Len(read) = a - b
       /\ \A i \in 1 .. a - b : read[i] = Read(s.disk, b + i - 1)
  <2>1. a - b \in Nat /\ b \in Int /\ s.disk \in [Addresses -> Cells]
    BY <1>4 DEF Sound, States
  <2> HIDE DEF b
  <2> QED BY <2>1, ReadCellsType DEF ReadCells
<1> HIDE DEF read
<1>11. /\ front \in Seq(Ops) /\ Len(front) = a - b
       /\ \A i \in 1 .. a - b : front[i] = Put(b + i - 1, Read(s.disk, b + i - 1))
  <2> HIDE DEF b
  <2>1. Inside(b, Len(read)) /\ b \in Int
    BY <1>4, <1>10 DEF Inside
  <2>2. front \in Seq(Ops) /\ Len(front) = Len(read)
    BY <1>10, <2>1, PutsType
  <2>3. \A i \in 1 .. Len(read) : front[i] = Put(b + i - 1, read[i])
    BY <1>10 DEF Puts
  <2> QED BY <1>10, <2>2, <2>3
<1>12. /\ P \in Seq(Ops) /\ Len(P) = Len(cells)
       /\ \A i \in 1 .. Len(cells) : P[i] = Put(a + i - 1, cells[i])
  <2>1. Inside(a, Len(cells))
    BY DEF Inside
  <2>2. P \in Seq(Ops) /\ Len(P) = Len(cells)
    BY <2>1, PutsType
  <2>3. \A i \in 1 .. Len(cells) : P[i] = Put(a + i - 1, cells[i])
    BY DEF Puts
  <2> QED BY <2>2, <2>3
<1> HIDE DEF t, E, front, P
<1>13. /\ F \in Seq(Ops) /\ Len(F) = IF fresh THEN 0 ELSE a - b
       /\ \A i \in 1 .. Len(F) : F[i] = Put(b + i - 1, Read(s.disk, b + i - 1))
  <2> HIDE DEF b, fresh
  <2> QED BY <1>11
<1> HIDE DEF F
<1>14. fresh => a > 0
  <2>1. \A y \in s.track : y \in Nat
    BY DEF Sound, States, Tracks
  <2> QED BY <2>1
<1>15. /\ ops \in Seq(Ops)
       /\ Len(ops) = 1 + Len(E) + Len(F) + Len(P)
       /\ ops[1] = t
       /\ \A i \in 1 .. Len(E) : ops[1 + i] = E[i]
       /\ \A i \in 1 .. Len(F) : ops[1 + Len(E) + i] = F[i]
       /\ \A i \in 1 .. Len(P) : ops[1 + Len(E) + Len(F) + i] = P[i]
       /\ \A i \in 1 .. Len(ops) :
            \/ i = 1
            \/ \E k \in 1 .. Len(E) : i = 1 + k
            \/ \E k \in 1 .. Len(F) : i = 1 + Len(E) + k
            \/ \E k \in 1 .. Len(P) : i = 1 + Len(E) + Len(F) + k
  <2>2. t \in Ops /\ E \in Seq(Ops) /\ F \in Seq(Ops) /\ P \in Seq(Ops)
    BY <1>3, <1>9, <1>12, <1>13
  <2>3. ops \in Seq(Ops) /\ Laid(ops, t, E, F, P)
    BY ONLY <1>2, <2>2, FourParts
  <2> QED BY ONLY <2>3, Zenon DEF Laid
<1>16. FlashPlan(ops, s, a, cells, fresh, Len(E), Len(F))
  <2>1. Len(ops) = 1 + Len(E) + Len(F) + Len(cells)
    BY <1>12, <1>15
  <2>2. ops[1].k = "track"
    BY <1>3, <1>15
  <2>3. \A i \in 1 .. Len(E) : ops[1 + i] = Erase(begin + i - 1)
    BY ONLY <1>9, <1>15, Zenon
  <2>4. \A i \in 1 .. Len(F) : ops[1 + Len(E) + i] = Put(b + i - 1, Read(s.disk, b + i - 1))
    BY ONLY <1>13, <1>15, Zenon
  <2>5. \A i \in 1 .. Len(cells) : ops[1 + Len(E) + Len(F) + i] = Put(a + i - 1, cells[i])
    BY ONLY <1>12, <1>15, Zenon
  <2>6. \A i \in 1 .. Len(ops) :
            \/ i = 1
            \/ \E k \in 1 .. Len(E) : i = 1 + k
            \/ \E k \in 1 .. Len(F) : i = 1 + Len(E) + k
            \/ \E k \in 1 .. Len(cells) : i = 1 + Len(E) + Len(F) + k
    BY ONLY <1>12, <1>15, Zenon
  <2> QED BY ONLY <1>9, <1>13, <2>1, <2>2, <2>3, <2>4, <2>5, <2>6, Zenon DEF FlashPlan
<1>17. fresh \in BOOLEAN /\ Len(E) \in Nat /\ Len(F) \in Nat
  <2> HIDE DEF fresh
  <2>1. Len(E) \in Nat /\ Len(F) \in Nat
    BY <1>9, <1>13
  <2> QED BY <2>1 DEF fresh
<1>18. FlashStore(s, a, cells) = ops
  BY DEF ops
<1> HIDE DEF fresh
<1> QED BY <1>14, <1>15, <1>16, <1>17, <1>18, Zenon

(* What storage1_store does to a cell in front of the address: nothing, or *)
(* erase it and write it back.                                             *)
LEMMA FlashBelow ==
  ASSUME NEW s, Sound(s), NEW a \in Nat, NEW cells \in Seq(Cells),
         cells # << >>, a + Len(cells) <= partition_size,
         NEW ops, ops = FlashStore(s, a, cells),
         NEW x \in Addresses, 0 <= x, x < a
  PROVE  Trace(s, ops)[Len(ops)].disk[x] = s.disk[x]
<1> DEFINE U     == UnitSize
           first == a \div U
           last  == (a + Len(cells) - 1) \div U
           b == first * U
           n == Len(ops)
<1> USE Lengths
<1>1. U \in Nat \ {0} /\ x \in Nat /\ Len(cells) \in Nat \ {0}
      /\ a + Len(cells) - 1 \in Nat /\ a <= a + Len(cells) - 1
  BY PartitionAssumption DEF Addresses
<1>2. ops \in Seq(Ops) /\ n \in Nat
  BY FlashPlanned
<1>3. PICK kept \in BOOLEAN, e \in Nat, f \in Nat :
        FlashPlan(ops, s, a, cells, kept, e, f)
  BY FlashPlanned
<1> DEFINE begin == IF kept THEN first + 1 ELSE first
<1>4. /\ e = last - begin + 1
      /\ f = IF kept THEN 0 ELSE a - b
      /\ n = 1 + e + f + Len(cells)
      /\ ops[1].k = "track"
      /\ \A i \in 1 .. e : ops[1 + i] = Erase(begin + i - 1)
      /\ \A i \in 1 .. f : ops[1 + e + i] = Put(b + i - 1, Read(s.disk, b + i - 1))
      /\ \A i \in 1 .. Len(cells) : ops[1 + e + f + i] = Put(a + i - 1, cells[i])
      /\ \A i \in 1 .. n :
           \/ i = 1
           \/ \E k \in 1 .. e : i = 1 + k
           \/ \E k \in 1 .. f : i = 1 + e + k
           \/ \E k \in 1 .. Len(cells) : i = 1 + e + f + k
  BY <1>3, Zenon DEF FlashPlan
<1>5. first \in Nat /\ last \in Nat /\ first <= last /\ b \in Nat /\ b <= a
  BY <1>1, DivFacts, DivMono
<1>6. x \div U \in Nat /\ x \div U <= first /\ (x \div U) * U <= x /\ x < (x \div U) * U + U
  BY <1>1, DivFacts, DivMono
<1>7. x \div U < first => x < b
  <2> SUFFICES ASSUME x \div U + 1 <= first PROVE x < b
    BY <1>5, <1>6
  <2>1. (x \div U + 1) * U <= first * U
    BY <1>1, <1>5, <1>6
  <2>2. (x \div U + 1) * U = (x \div U) * U + U
    BY <1>1, <1>6
  <2> QED BY <1>1, <1>5, <1>6, <2>1, <2>2
<1>8. x \div U = first => b <= x
  BY <1>6
<1> DEFINE q == x \div U
<1>9. /\ \A y, c : Touches(Put(y, c), x) <=> y = x
      /\ \A y : Touches(Erase(y), x) <=> q = y
      /\ ~Touches(ops[1], x)
  BY <1>1, <1>4 DEF Touches, Put, Erase
<1> HIDE DEF q, b, first, last, n
<1>10. begin \in Nat /\ q \in Nat /\ q <= first /\ (q < first => x < b) /\ (q = first => b <= x)
  BY <1>5, <1>6, <1>7, <1>8 DEF q
<1> HIDE DEF begin
<1>11. \A i \in 1 .. Len(cells) : ~Touches(ops[1 + e + f + i], x)
  <2>1. \A i \in 1 .. Len(cells) : a + i - 1 # x
    BY <1>1
  <2> QED BY <1>4, <1>9, <2>1
<1>12. CASE q < begin
  <2>1. \A i \in 1 .. e : ~Touches(ops[1 + i], x)
    <3>1. \A i \in 1 .. e : begin + i - 1 # q
      BY <1>10, <1>12
    <3> QED BY <1>4, <1>9, <3>1
  <2>2. \A i \in 1 .. f : ~Touches(ops[1 + e + i], x)
    <3>1. kept => f = 0
      BY <1>4
    <3>2. ~kept => x < b
      BY <1>10, <1>12 DEF begin
    <3>3. \A i \in 1 .. f : b + i - 1 # x
      BY <1>5, <1>1, <3>1, <3>2
    <3> SUFFICES ASSUME NEW i \in 1 .. f PROVE ~Touches(ops[1 + e + i], x)
      OBVIOUS
    <3>4. ops[1 + e + i] = Put(b + i - 1, Read(s.disk, b + i - 1))
      BY <1>4
    <3>5. b + i - 1 # x
      BY <3>3
    <3> QED BY <1>9, <3>4, <3>5, Zenon
  <2>3. \A i \in 1 .. n : ~Touches(ops[i], x)
    BY <1>4, <1>9, <1>11, <2>1, <2>2, Zenon
  <2>4. n \in 0 .. Len(ops) /\ n = Len(ops)
    BY <1>2 DEF n
  <2> QED BY <1>2, <2>3, <2>4, TraceFrame
<1>13. CASE ~(q < begin)
  <2>1. ~kept /\ q = first /\ begin = first /\ b <= x
    BY <1>5, <1>10, <1>13 DEF begin
  <2>2. e >= 1 /\ f = a - b /\ e = last - first + 1
    BY <1>4, <1>5, <2>1
  <2> DEFINE p == 1 + e + (x - b + 1)
             c == s.disk[x]
  <2>3. 2 \in 1 .. Len(ops) /\ p \in 2 + 1 .. Len(ops) /\ x - b + 1 \in 1 .. f
    BY <1>1, <1>4, <1>5, <2>1, <2>2 DEF n
  <2>4. ops[2] = Erase(x \div UnitSize)
    <3>1. 1 \in 1 .. e /\ 1 + 1 = 2 /\ begin + 1 - 1 = q
      BY <1>5, <2>1, <2>2
    <3> QED BY <1>4, <3>1 DEF q
  <2>5. ops[p] = Put(x, c)
    <3>1. b + (x - b + 1) - 1 = x
      BY <1>1, <1>5
    <3>2. Read(s.disk, x) = c
      BY DEF Read, Sound, States
    <3> QED BY <1>4, <2>3, <3>1, <3>2
  <2>6. ASSUME NEW i \in 3 .. Len(ops), i # p PROVE ~Touches(ops[i], x)
    <3>1. i \in 1 .. n /\ i # 1
      BY DEF n
    <3>2. CASE \E k \in 1 .. e : i = 1 + k
      <4>1. PICK k \in 1 .. e : i = 1 + k
        BY <3>2
      <4>2. begin + k - 1 # q
        BY <4>1, <1>5, <2>1
      <4> QED BY <1>4, <1>9, <4>1, <4>2
    <3>3. CASE \E k \in 1 .. f : i = 1 + e + k
      <4>1. PICK k \in 1 .. f : i = 1 + e + k
        BY <3>3
      <4>2. b + k - 1 # x
        BY <1>1, <1>5, <2>6, <4>1
      <4> QED BY <1>4, <1>9, <4>1, <4>2
    <3>4. CASE \E k \in 1 .. Len(cells) : i = 1 + e + f + k
      BY <1>11, <3>4
    <3> QED BY <1>4, <3>1, <3>2, <3>3, <3>4
  <2> DEFINE g == 2
  <2>7. /\ g \in 1 .. Len(ops) /\ p \in g + 1 .. Len(ops) /\ x >= 0
        /\ ops[g] = Erase(x \div UnitSize)
        /\ \A i \in g + 1 .. Len(ops) : i # p => ~Touches(ops[i], x)
    <3>1. g + 1 = 3
      OBVIOUS
    <3> QED BY <1>1, <2>3, <2>4, <2>6, <3>1
  <2> HIDE DEF p, c, g
  <2>8. Trace(s, ops)[Len(ops)].disk[x] = c
    BY ONLY Sound(s), x \in Addresses, <1>2, <2>5, <2>7, ErasedThenPut
  <2> QED BY <2>8 DEF c
<1> QED BY <1>12, <1>13

(* A store at the start of the partition erases every page it reaches:     *)
(* afterwards the cells are what was stored.                               *)
LEMMA FlashFirst ==
  ASSUME NEW s, Sound(s), NEW cells \in Seq(Cells),
         cells # << >>, Len(cells) <= partition_size,
         NEW ops, ops = FlashStore(s, 0, cells),
         NEW x \in Addresses, 0 <= x, x < Len(cells)
  PROVE  Trace(s, ops)[Len(ops)].disk[x] = cells[x + 1]
<1> DEFINE U    == UnitSize
           last == (0 + Len(cells) - 1) \div U
           n == Len(ops)
           q == x \div U
<1> USE Lengths
<1>1. U \in Nat \ {0} /\ x \in Nat /\ Len(cells) \in Nat \ {0} /\ x <= 0 + Len(cells) - 1
      /\ 0 + Len(cells) - 1 \in Nat /\ 0 \in Nat /\ 0 + Len(cells) <= partition_size
  BY PartitionAssumption DEF Addresses
<1>2. ops \in Seq(Ops) /\ n \in Nat
  BY <1>1, FlashPlanned
<1>3. PICK kept \in BOOLEAN, e \in Nat, f \in Nat :
        (kept => 0 > 0) /\ FlashPlan(ops, s, 0, cells, kept, e, f)
  BY <1>1, FlashPlanned
<1>4. 0 \div U = 0
  BY <1>1
<1>5. /\ e = last + 1
      /\ f = 0
      /\ n = 1 + e + f + Len(cells)
      /\ \A i \in 1 .. e : ops[1 + i] = Erase(0 + i - 1)
      /\ \A i \in 1 .. Len(cells) : ops[1 + e + f + i] = Put(0 + i - 1, cells[i])
      /\ \A i \in 1 .. n :
           \/ i = 1
           \/ \E k \in 1 .. e : i = 1 + k
           \/ \E k \in 1 .. f : i = 1 + e + k
           \/ \E k \in 1 .. Len(cells) : i = 1 + e + f + k
  <2>1. ~kept
    BY <1>3
  <2>2. last \in Nat
    BY <1>1, DivFacts
  <2> HIDE DEF last
  <2>3. 0 * U = 0 /\ last - 0 + 1 = last + 1 /\ 0 - 0 = 0
    BY <1>1, <2>2
  <2> QED BY <1>3, <1>4, <2>1, <2>3 DEF FlashPlan, last
<1>6. q \in Nat /\ last \in Nat /\ q <= last
  BY <1>1, DivFacts, DivMono
<1>7. /\ \A y, c : Touches(Put(y, c), x) <=> y = x
      /\ \A y : Touches(Erase(y), x) <=> q = y
  BY <1>1 DEF Touches, Put, Erase
<1> DEFINE p == 1 + e + x + 1
           g == q + 2
<1> HIDE DEF q, last, n
<1>8. g \in 1 .. Len(ops) /\ p \in g + 1 .. Len(ops)
  BY <1>1, <1>5, <1>6 DEF n
<1>9. ops[g] = Erase(x \div UnitSize)
  <2>1. q + 1 \in 1 .. e /\ 1 + (q + 1) = g /\ 0 + (q + 1) - 1 = q
    BY <1>5, <1>6
  <2> QED BY <1>5, <2>1 DEF q
<1>10. ops[p] = Put(x, cells[x + 1])
  <2>1. x + 1 \in 1 .. Len(cells) /\ 1 + e + f + (x + 1) = p /\ 0 + (x + 1) - 1 = x
    BY <1>1, <1>5
  <2> QED BY <1>5, <2>1
<1>11. ASSUME NEW i \in g + 1 .. Len(ops), i # p PROVE ~Touches(ops[i], x)
  <2>1. i \in 1 .. n /\ i # 1
    BY <1>6 DEF n
  <2>2. CASE \E k \in 1 .. e : i = 1 + k
    <3>1. PICK k \in 1 .. e : i = 1 + k
      BY <2>2
    <3>2. 0 + k - 1 # q
      BY <3>1, <1>6, <1>11
    <3> QED BY <1>5, <1>7, <3>1, <3>2
  <2>3. ~ \E k \in 1 .. f : i = 1 + e + k
    BY <1>5
  <2>4. CASE \E k \in 1 .. Len(cells) : i = 1 + e + f + k
    <3>1. PICK k \in 1 .. Len(cells) : i = 1 + e + f + k
      BY <2>4
    <3>2. 0 + k - 1 # x
      <4>1. k \in Nat /\ i = 1 + e + k /\ i # 1 + e + x + 1
        BY <1>5, <1>11, <3>1
      <4> QED BY ONLY <1>1, <4>1, e \in Nat
    <3> QED BY <1>5, <1>7, <3>1, <3>2
  <2> QED BY <1>5, <2>1, <2>2, <2>3, <2>4
<1>12. x >= 0 /\ \A i \in g + 1 .. Len(ops) : i # p => ~Touches(ops[i], x)
  BY <1>1, <1>11
<1> HIDE DEF p, g
<1> QED BY ONLY Sound(s), x \in Addresses, <1>2, <1>8, <1>9, <1>10, <1>12, ErasedThenPut

(* A put touches its cell. *)
LEMMA PutTouches == \A x, y, c : Touches(Put(y, c), x) <=> y = x
BY DEF Touches, Put

(* The first header is a matter of the first cells. *)
LEMMA HeadSame ==
  ASSUME NEW d \in [Addresses -> Cells], NEW e \in [Addresses -> Cells],
         \A x \in Addresses : 0 <= x /\ x < MetaLen + HdrLen => e[x] = d[x]
  PROVE  /\ ReadCells(e, 0, MetaLen + HdrLen) = ReadCells(d, 0, MetaLen + HdrLen)
         /\ MetaAt(e, 0) = MetaAt(d, 0)
         /\ ValidFirst(e, 0) <=> ValidFirst(d, 0)
<1> DEFINE z == 0
<1>1. \A i \in 0 .. MetaLen + HdrLen - 1 : Read(e, z + i) = Read(d, z + i)
  <2> SUFFICES ASSUME NEW i \in 0 .. MetaLen + HdrLen - 1 PROVE Read(e, z + i) = Read(d, z + i)
    OBVIOUS
  <2>1. z + i \in Addresses /\ 0 <= z + i /\ z + i < MetaLen + HdrLen
    BY Lengths DEF Addresses
  <2> HIDE DEF z
  <2> QED BY <2>1 DEF Read
<1>2. MetaAt(e, 0) = MetaAt(d, 0)
  <2>1. 0 \in 0 .. MetaLen + HdrLen - 1 /\ 1 \in 0 .. MetaLen + HdrLen - 1
        /\ 2 \in 0 .. MetaLen + HdrLen - 1 /\ z + 0 = z /\ z = 0
    BY Lengths
  <2> HIDE DEF z
  <2> QED BY <1>1, <2>1 DEF MetaAt
<1>3. z \in Int
  OBVIOUS
<1> HIDE DEF z
<1>4. /\ ReadCells(e, z, MetaLen + HdrLen) = ReadCells(d, z, MetaLen + HdrLen)
      /\ ValidFirst(e, z) <=> ValidFirst(d, z)
  BY <1>1, <1>3, ValidShift
<1> QED BY <1>2, <1>4 DEF z

(* A storage_store runs its operations. *)
LEMMA WriteRun ==
  ASSUME NEW s, Sound(s), NEW a \in Int, NEW cells \in Seq(Cells), Inside(a, Len(cells)),
         NEW ops, ops = StoreOps(s, a, cells)
  PROVE  /\ ops \in Seq(Ops)
         /\ a >= 0 => ops \in Seq(HighOps)
         /\ Write(s, a, cells).disk = Trace(s, ops)[Len(ops)].disk
         /\ Write(s, a, cells).ops = s.ops \o ops
<1> DEFINE t == Trace(s, ops)[Len(ops)]
<1>1. ops \in Seq(Ops) /\ (a >= 0 => ops \in Seq(HighOps))
  BY StoreOpsType DEF Sound
<1>2. t \in States
  BY <1>1, TraceType DEF Sound
<1>3. Write(s, a, cells) = [t EXCEPT !.ops = s.ops \o ops]
  BY Zenon DEF Write, Run
<1> HIDE DEF t
<1>4. Write(s, a, cells).disk = t.disk /\ Write(s, a, cells).ops = s.ops \o ops
  BY <1>2, <1>3 DEF States
<1> QED BY <1>1, <1>4 DEF t

(* Whatever is erased for a store, in the end the cells in front of it are *)
(* what they were.                                                         *)
LEMMA WriteBelow ==
  ASSUME NEW s, Sound(s), NEW a \in Nat, NEW cells \in Seq(Cells),
         a + Len(cells) <= partition_size, NEW x \in Addresses, x < a
  PROVE  Write(s, a, cells).disk[x] = s.disk[x]
<1> DEFINE ops == StoreOps(s, a, cells)
<1>0. Inside(a, Len(cells)) /\ a \in Int /\ a >= 0
  BY DEF Inside
<1>1. ops \in Seq(Ops) /\ Write(s, a, cells).disk = Trace(s, ops)[Len(ops)].disk
  BY <1>0, WriteRun
<1> SUFFICES Trace(s, ops)[Len(ops)].disk[x] = s.disk[x]
  BY <1>1
<1>2. CASE x < 0
  BY <1>0, <1>1, <1>2, WriteType
<1>3. CASE cells = << >>
  <2>1. ops = << >> /\ Len(ops) = 0
    BY <1>3 DEF StoreOps
  <2>2. Trace(s, ops)[0] = s
    BY <2>1, TraceDef
  <2> QED BY <2>1, <2>2
<1>4. CASE 0 <= x /\ cells # << >> /\ UnitSize = 1
  <2>1. ops = Puts(a, cells)
    BY <1>4 DEF StoreOps
  <2>2. Len(ops) = Len(cells)
    BY <1>0, <2>1, PutsType
  <2>3. \A i \in 1 .. Len(ops) : ops[i] = Put(a + i - 1, cells[i])
    BY <2>1, <2>2 DEF Puts
  <2>4. \A i \in 1 .. Len(ops) : a + i - 1 # x
    BY <1>0, Lengths DEF Addresses
  <2>5. \A i \in 1 .. Len(ops) : ~Touches(ops[i], x)
    BY <2>3, <2>4, PutTouches
  <2>6. Len(ops) \in 0 .. Len(ops)
    BY <1>1
  <2> HIDE DEF ops
  <2> QED BY <1>1, <2>5, <2>6, TraceFrame
<1>5. CASE 0 <= x /\ cells # << >> /\ UnitSize # 1
  <2>1. ops = FlashStore(s, a, cells)
    BY <1>0, <1>5 DEF StoreOps
  <2> QED BY <1>5, <2>1, FlashBelow
<1>6. 0 <= x \/ x < 0
  BY Lengths DEF Addresses
<1> QED BY <1>2, <1>3, <1>4, <1>5, <1>6

(* A store behind the first header leaves that header as it was. *)
LEMMA WriteBeyond ==
  ASSUME NEW s, Sound(s), NEW a \in Nat, NEW cells \in Seq(Cells),
         MetaLen + HdrLen <= a, a + Len(cells) <= partition_size
  PROVE  LET d == Write(s, a, cells).disk
         IN  /\ ValidFirst(d, 0) <=> ValidFirst(s.disk, 0)
             /\ MetaAt(d, 0) = MetaAt(s.disk, 0)
             /\ ValidFirst(d, SwapAddress) <=> ValidFirst(s.disk, SwapAddress)
             /\ ReadCells(d, SwapAddress, MetaLen + HdrLen)
                  = ReadCells(s.disk, SwapAddress, MetaLen + HdrLen)
<1> DEFINE d == Write(s, a, cells).disk
<1>0. Inside(a, Len(cells)) /\ a \in Int /\ a >= 0
  BY DEF Inside
<1>1. d \in [Addresses -> Cells] /\ s.disk \in [Addresses -> Cells]
  BY <1>0, WriteType DEF Sound, States
<1>2. \A x \in Addresses : x < a => d[x] = s.disk[x]
  BY WriteBelow
<1> HIDE DEF d
<1>3. \A x \in Addresses : 0 <= x /\ x < MetaLen + HdrLen => d[x] = s.disk[x]
  BY <1>2, Lengths DEF Addresses
<1>4. \A x \in Addresses : x < 0 => d[x] = s.disk[x]
  BY <1>0, <1>2, Lengths DEF Addresses
<1>5. /\ ValidFirst(d, 0) <=> ValidFirst(s.disk, 0)
      /\ MetaAt(d, 0) = MetaAt(s.disk, 0)
  BY <1>1, <1>3, HeadSame
<1>6. /\ ValidFirst(d, SwapAddress) <=> ValidFirst(s.disk, SwapAddress)
      /\ ReadCells(d, SwapAddress, MetaLen + HdrLen)
                  = ReadCells(s.disk, SwapAddress, MetaLen + HdrLen)
  BY <1>1, <1>4, SwapSame
<1> QED BY <1>5, <1>6 DEF d

(* A store at the start of the partition is complete when it returns. *)
LEMMA WriteFirst ==
  ASSUME NEW s, Sound(s), NEW cells \in Seq(Cells), Len(cells) = MetaLen + HdrLen
  PROVE  /\ ReadCells(Write(s, 0, cells).disk, 0, MetaLen + HdrLen) = cells
         /\ \A x \in Addresses : x < 0 => Write(s, 0, cells).disk[x] = s.disk[x]
<1> DEFINE ops == StoreOps(s, 0, cells)
           d == Write(s, 0, cells).disk
           n == MetaLen + HdrLen
<1> USE Lengths
<1>0. /\ Inside(0, Len(cells)) /\ 0 \in Int /\ 0 >= 0 /\ Len(cells) <= partition_size
      /\ cells # << >> /\ n \in Nat
  BY DEF Inside
<1>1. ops \in Seq(Ops) /\ d = Trace(s, ops)[Len(ops)].disk
  BY <1>0, WriteRun
<1>2. \A x \in Addresses : x < 0 => d[x] = s.disk[x]
  BY <1>0, WriteType
<1>3. CASE UnitSize = 1
  <2>1. d = Patched(s.disk, 0, cells, Len(cells))
    BY <1>0, <1>3, WriteDisk
  <2>2. s.disk \in [Addresses -> Cells]
    BY DEF Sound, States
  <2>3. ReadCells(Patched(s.disk, 0, cells, Len(cells)), 0, Len(cells)) = cells
    BY <1>0, <2>2, PatchedRead
  <2> QED BY <1>2, <2>1, <2>3
<1>4. CASE UnitSize # 1
  <2>1. ops = FlashStore(s, 0, cells)
    BY <1>0, <1>4 DEF StoreOps
  <2>2. \A x \in Addresses : 0 <= x /\ x < Len(cells) => d[x] = cells[x + 1]
    BY <1>0, <1>1, <2>1, FlashFirst
  <2>3. DOMAIN d = Addresses
    <3>1. Sound(Write(s, 0, cells))
      BY <1>0, WriteType
    <3> QED BY <3>1 DEF Sound, States
  <2> HIDE DEF d, ops, n
  <2>4. ASSUME NEW i \in 1 .. n PROVE Read(d, 0 + i - 1) = cells[i]
    <3>1. 0 + i - 1 \in Addresses /\ 0 <= 0 + i - 1 /\ 0 + i - 1 < Len(cells) /\ (0 + i - 1) + 1 = i
      BY DEF Addresses, n
    <3> QED BY <2>2, <2>3, <3>1 DEF Read
  <2>5. ReadCells(d, 0, n) = [i \in 1 .. n |-> cells[i]]
    BY <2>4 DEF ReadCells
  <2>6. cells = [i \in 1 .. n |-> cells[i]]
    BY <1>0 DEF n
  <2> QED BY <1>2, <2>5, <2>6 DEF d, n
<1> QED BY <1>3, <1>4

(* The backup is written cell by cell, on any device; nothing else is      *)
(* touched on the way.                                                     *)
LEMMA WriteSwap ==
  ASSUME NEW s, Sound(s), NEW cells \in Seq(Cells), Len(cells) = MetaLen + HdrLen,
         NEW ops, ops = Puts(SwapAddress, cells)
  PROVE  /\ ops \in Seq(Ops)
         /\ Write(s, SwapAddress, cells).disk = Trace(s, ops)[Len(ops)].disk
         /\ Write(s, SwapAddress, cells).ops = s.ops \o ops
         /\ ReadCells(Write(s, SwapAddress, cells).disk, SwapAddress, MetaLen + HdrLen) = cells
         /\ \A k \in 0 .. Len(ops) : \A x \in Addresses :
              x >= 0 => Trace(s, ops)[k].disk[x] = s.disk[x]
<1> DEFINE d == Write(s, SwapAddress, cells).disk
           n == MetaLen + HdrLen
<1> USE Lengths
<1>0. /\ Inside(SwapAddress, Len(cells)) /\ SwapAddress \in Int /\ SwapAddress < 0
      /\ cells # << >> /\ n \in Nat
  BY DEF Inside
<1>1. StoreOps(s, SwapAddress, cells) = ops
  BY <1>0 DEF StoreOps
<1>2. /\ ops \in Seq(Ops) /\ d = Trace(s, ops)[Len(ops)].disk
      /\ Write(s, SwapAddress, cells).ops = s.ops \o ops
  BY ONLY Sound(s), cells \in Seq(Cells), <1>0, <1>1, WriteRun
<1>3. Len(ops) = n
  BY <1>0, PutsType
<1>4. \A i \in 1 .. n : ops[i] = Put(SwapAddress + i - 1, cells[i])
  BY <1>3 DEF Puts
<1>5. ASSUME NEW k \in 0 .. Len(ops), NEW x \in Addresses, x >= 0
      PROVE  Trace(s, ops)[k].disk[x] = s.disk[x]
  <2>1. \A i \in 1 .. k : SwapAddress + i - 1 # x /\ i \in 1 .. n
    BY <1>0, <1>3, <1>5 DEF Addresses
  <2>2. \A i \in 1 .. k : ~Touches(ops[i], x)
    BY <1>4, <2>1, PutTouches
  <2> QED BY <1>2, <2>2, TraceFrame
<1>6. ASSUME NEW j \in 1 .. n PROVE Read(d, SwapAddress + j - 1) = cells[j]
  <2> DEFINE x == SwapAddress + j - 1
             t == Trace(s, ops)[j - 1]
             u == Trace(s, ops)[j]
  <2>1. /\ x \in Addresses /\ x < 0 /\ x \in Int
        /\ j \in 1 .. Len(ops) /\ j \in 0 .. Len(ops) /\ j - 1 \in 0 .. Len(ops)
        /\ Len(ops) \in j .. Len(ops)
    BY <1>0, <1>3 DEF Addresses
  <2>2. t \in States /\ u = Apply(t, ops[j])
    BY <1>2, <2>1, TraceType, TraceDef DEF Sound
  <2>3. ops[j] = Put(x, cells[j])
    BY <1>4
  <2> HIDE DEF x, t, u
  <2>4. u.disk[x] = cells[j]
    <3> DEFINE c == cells[j]
    <3> HIDE DEF c
    <3>1. Apply(t, Put(x, c)) = [t EXCEPT !.disk[x] =
                                   IF x < 0 THEN c ELSE Program(t.disk[x], c)]
      BY DEF Apply, Put
    <3>2. Apply(t, Put(x, c)) = [t EXCEPT !.disk[x] = c]
      BY <2>1, <3>1
    <3>3. Apply(t, Put(x, c)).disk[x] = c
      BY <2>1, <2>2, <3>2 DEF States
    <3> QED BY <2>2, <2>3, <3>3 DEF c
  <2>5. \A i \in j + 1 .. Len(ops) : ~Touches(ops[i], x)
    <3>1. \A i \in j + 1 .. Len(ops) : SwapAddress + i - 1 # x /\ i \in 1 .. n
      BY <1>0, <1>3 DEF x
    <3> QED BY <1>4, <3>1, PutTouches
  <2>6. Trace(s, ops)[Len(ops)].disk[x] = Trace(s, ops)[j].disk[x]
    BY ONLY Sound(s), <1>2, <2>1, <2>5, TraceBetween
  <2>7. d[x] = cells[j]
    BY <1>2, <2>4, <2>6 DEF u
  <2>8. DOMAIN d = Addresses
    <3>1. Sound(Write(s, SwapAddress, cells))
      BY <1>0, WriteType
    <3> QED BY <3>1 DEF Sound, States
  <2> HIDE DEF d
  <2> QED BY <2>1, <2>7, <2>8 DEF Read, x
<1>7. ReadCells(d, SwapAddress, n) = [i \in 1 .. n |-> cells[i]]
  <2> HIDE DEF d, n
  <2> QED BY <1>6 DEF ReadCells
<1>8. cells = [i \in 1 .. n |-> cells[i]]
  BY <1>0
<1> QED BY <1>2, <1>5, <1>7, <1>8

(* What an operation does to the device depends on the device only. *)
LEMMA ApplyDisk ==
  ASSUME NEW t \in States, NEW u \in States, t.disk = u.disk, NEW op \in Ops
  PROVE  Apply(t, op).disk = Apply(u, op).disk
<1>1. CASE op.k = "put"
  <2>1. /\ Apply(t, op) = [t EXCEPT !.disk[op.at] =
                             IF op.at < 0 THEN op.cell ELSE Program(t.disk[op.at], op.cell)]
        /\ Apply(u, op) = [u EXCEPT !.disk[op.at] =
                             IF op.at < 0 THEN op.cell ELSE Program(u.disk[op.at], op.cell)]
    BY <1>1 DEF Apply
  <2> DEFINE c == IF op.at < 0 THEN op.cell ELSE Program(t.disk[op.at], op.cell)
  <2>2. /\ Apply(t, op) = [t EXCEPT !.disk[op.at] = c]
        /\ Apply(u, op) = [u EXCEPT !.disk[op.at] = c]
    BY <2>1
  <2> HIDE DEF c
  <2> QED BY <2>2 DEF States
<1>2. CASE op.k = "erase"
  <2> DEFINE d == [a \in DOMAIN t.disk |->
                     IF a >= 0 /\ a \div UnitSize = op.at THEN Blank ELSE t.disk[a]]
  <2>1. Apply(t, op) = [t EXCEPT !.disk = d] /\ Apply(u, op) = [u EXCEPT !.disk = d]
    BY <1>2 DEF Apply
  <2> HIDE DEF d
  <2> QED BY <2>1 DEF States
<1>3. CASE op.k = "track"
  <2>1. Apply(t, op) = [t EXCEPT !.track = op.set] /\ Apply(u, op) = [u EXCEPT !.track = op.set]
    BY <1>3 DEF Apply
  <2> QED BY <2>1 DEF States
<1> QED BY <1>1, <1>2, <1>3 DEF Ops

(* A list of operations goes on where another one ended. *)
LEMMA TraceJoin ==
  ASSUME NEW s0, Sound(s0), NEW s, Sound(s), NEW o \in Seq(Ops), NEW p \in Seq(Ops),
         Trace(s0, o)[Len(o)].disk = s.disk, NEW k \in 0 .. Len(p)
  PROVE  Trace(s0, o \o p)[Len(o) + k].disk = Trace(s, p)[k].disk
<1> DEFINE op == o \o p
           L(n) == Trace(s0, op)[Len(o) + n]
           R(n) == Trace(s, p)[n]
           T == {n \in Nat : n <= Len(p) => L(n).disk = R(n).disk}
<1>0. /\ op \in Seq(Ops) /\ Len(op) = Len(o) + Len(p)
      /\ \A i \in 1 .. Len(p) : op[Len(o) + i] = p[i]
      /\ Len(o) \in Nat /\ Len(p) \in Nat
  BY ConcatAt
<1>1. 0 \in T
  <2>1. Len(o) \in 0 .. Len(o) /\ Len(o) + 0 = Len(o)
    BY <1>0
  <2>2. Trace(s0, op)[Len(o)] = Trace(s0, o)[Len(o)]
    BY <2>1, TraceConcat
  <2>3. Trace(s, p)[0] = s
    BY <1>0, TraceDef
  <2>4. L(0).disk = R(0).disk
    BY <2>1, <2>2, <2>3
  <2> QED BY <2>4
<1> HIDE DEF op
<1>2. ASSUME NEW n \in Nat, n \in T PROVE n + 1 \in T
  <2> SUFFICES ASSUME n + 1 <= Len(p) PROVE L(n + 1).disk = R(n + 1).disk
    OBVIOUS
  <2>1. /\ n \in 0 .. Len(p) /\ n + 1 \in 1 .. Len(p) /\ n <= Len(p)
        /\ Len(o) + n \in 0 .. Len(op) /\ Len(o) + (n + 1) \in 1 .. Len(op)
        /\ (Len(o) + (n + 1)) - 1 = Len(o) + n /\ (n + 1) - 1 = n
    BY <1>0
  <2>2. L(n).disk = R(n).disk
    BY <1>2, <2>1
  <2>3. L(n) \in States /\ R(n) \in States
    BY <1>0, <2>1, TraceType DEF Sound
  <2>4. R(n + 1) = Apply(R(n), p[n + 1])
    <3>1. n + 1 \in 1 .. Len(p) /\ (n + 1) - 1 = n
      BY <2>1
    <3>2. Trace(s, p)[n + 1] = Apply(Trace(s, p)[(n + 1) - 1], p[n + 1])
      BY ONLY <3>1, p \in Seq(Ops), TraceDef
    <3> QED BY <3>1, <3>2
  <2>5. L(n + 1) = Apply(L(n), op[Len(o) + (n + 1)])
    <3> DEFINE m == Len(o) + (n + 1)
    <3>1. op \in Seq(Ops) /\ m \in 1 .. Len(op) /\ m - 1 = Len(o) + n
      BY <1>0, <2>1
    <3> HIDE DEF m
    <3>2. Trace(s0, op)[m] = Apply(Trace(s0, op)[m - 1], op[m])
      BY <3>1, TraceDef
    <3> QED BY <3>1, <3>2 DEF m
  <2>6. op[Len(o) + (n + 1)] = p[n + 1]
    BY ONLY <1>0, <2>1, Zenon
  <2>7. p[n + 1] \in Ops
    BY <2>1
  <2> HIDE DEF L, R
  <2> QED BY <2>2, <2>3, <2>4, <2>5, <2>6, <2>7, ApplyDisk
<1> HIDE DEF T
<1>3. Nat \subseteq T
  BY <1>1, <1>2, SetInduction
<1>4. k \in T /\ k <= Len(p)
  BY <1>3
<1> QED BY <1>4 DEF T, op
-----------------------------------------------------------------------------
(* One fault, on any device. *)

(* The cells of the backup, and those that the copies in RAM stand for. *)
SwapCells(d) == ReadCells(d, SwapAddress, MetaLen + HdrLen)
RamCells(r) == MetaCells(r.meta) \o HeaderCells(r.fhdr)

(* The backup is valid and is what the next backup would be. *)
BackedUp(d, r) == ValidFirst(d, SwapAddress) /\ SwapCells(d) = RamCells(r)

(* As long as nothing failed: both copies are valid, and RAM has them. *)
Settled(s) ==
  /\ ValidFirst(s.disk, 0)
  /\ MetaAt(s.disk, 0) = s.ram.meta
  /\ BackedUp(s.disk, s.ram)

(* After a fault: the first header is valid, or the backup is and no       *)
(* backup made from RAM replaces it.                                       *)
Held(s) == ValidFirst(s.disk, 0) \/ BackedUp(s.disk, s.ram)

(* A store behind the first header harms neither copy. *)
LEMMA WriteHeld ==
  ASSUME NEW s, Sound(s), NEW a \in Nat, NEW cells \in Seq(Cells),
         MetaLen + HdrLen <= a, a + Len(cells) <= partition_size
  PROVE  LET w == Write(s, a, cells)
         IN  /\ Held(s) => Held(w)
             /\ Settled(s) => Settled(w)
             /\ ValidFirst(s.disk, 0) => ValidFirst(w.disk, 0)
<1> DEFINE w == Write(s, a, cells)
<1>0. Inside(a, Len(cells)) /\ a \in Int
  BY DEF Inside
<1>1. w.ram = s.ram
  BY <1>0, WriteType
<1>2. /\ ValidFirst(w.disk, 0) <=> ValidFirst(s.disk, 0)
      /\ MetaAt(w.disk, 0) = MetaAt(s.disk, 0)
      /\ ValidFirst(w.disk, SwapAddress) <=> ValidFirst(s.disk, SwapAddress)
      /\ SwapCells(w.disk) = SwapCells(s.disk)
  BY WriteBeyond DEF SwapCells
<1> HIDE DEF w
<1>3. BackedUp(w.disk, w.ram) <=> BackedUp(s.disk, s.ram)
  BY <1>1, <1>2 DEF BackedUp
<1>4. /\ Held(s) => Held(w)
      /\ Settled(s) => Settled(w)
      /\ ValidFirst(s.disk, 0) => ValidFirst(w.disk, 0)
  BY <1>1, <1>2, <1>3 DEF Held, Settled
<1> QED BY <1>4 DEF w

(* Only RAM's copies of metadata and first header matter, not the rest. *)
LEMMA SameHeld ==
  ASSUME NEW s, NEW t, t.disk = s.disk, t.ram.meta = s.ram.meta, t.ram.fhdr = s.ram.fhdr
  PROVE  (Held(t) <=> Held(s)) /\ (Settled(t) <=> Settled(s))
<1>1. RamCells(t.ram) = RamCells(s.ram)
  BY DEF RamCells
<1>2. BackedUp(t.disk, t.ram) <=> BackedUp(s.disk, s.ram)
  BY <1>1 DEF BackedUp
<1> QED BY <1>2 DEF Held, Settled

(* filesystem_read_element_header leaves a valid first header wherever     *)
(* there was one, or a backup to restore it from.                          *)
LEMMA ReadFirst ==
  ASSUME NEW s, Sound(s), ValidFirst(s.disk, 0) \/ ValidFirst(s.disk, SwapAddress)
  PROVE  ValidFirst(ReadElementHeader(s, 0).s.disk, 0)
<1> DEFINE r == ReadElementHeader(s, 0)
<1>0. s.disk \in [Addresses -> Cells]
  BY DEF Sound, States
<1>1. CASE ValidFirst(s.disk, 0)
  <2> DEFINE t == [s EXCEPT !.ram.meta = MetaAt(s.disk, 0)]
  <2>1. r.s = t
    BY <1>1 DEF ReadElementHeader
  <2>2. t.disk = s.disk
    BY DEF Sound, States
  <2> HIDE DEF r, t
  <2>3. r.s.disk = s.disk
    BY <2>1, <2>2
  <2> QED BY <1>1, <2>3 DEF r
<1>2. CASE ~ValidFirst(s.disk, 0) /\ ValidFirst(s.disk, SwapAddress)
  <2> DEFINE n == MetaLen + HdrLen
             c == ReadCells(s.disk, SwapAddress, n)
             w == Write(s, 0, c)
             t == [w EXCEPT !.ram.meta = MetaAt(w.disk, SwapAddress)]
             e == w.disk
             z == 0
  <2>1. r.s = t
    BY <1>2 DEF ReadElementHeader
  <2>2. c \in Seq(Cells) /\ Len(c) = n /\ Inside(0, Len(c)) /\ 0 \in Int
    BY <1>0, SwapInside, Lengths
  <2>3. Sound(w)
    <3> HIDE DEF c
    <3> QED BY <2>2, WriteType
  <2>4. t.disk = e /\ e \in [Addresses -> Cells]
    <3> HIDE DEF w
    <3> QED BY <2>3 DEF Sound, States
  <2>5. ReadCells(e, z, n) = c
    <3> HIDE DEF c
    <3> QED BY <2>2, WriteFirst
  <2> HIDE DEF r, t, w, e
  <2>6. ASSUME NEW i \in 0 .. MetaLen + HdrLen - 1
        PROVE  Read(e, z + i) = Read(s.disk, SwapAddress + i)
    <3>1. i + 1 \in 1 .. n /\ z + (i + 1) - 1 = z + i
          /\ SwapAddress + (i + 1) - 1 = SwapAddress + i
      BY Lengths
    <3> HIDE DEF z
    <3>2. ReadCells(e, z, n)[i + 1] = Read(e, z + (i + 1) - 1)
      BY <3>1 DEF ReadCells
    <3>3. ReadCells(s.disk, SwapAddress, n)[i + 1] = Read(s.disk, SwapAddress + (i + 1) - 1)
      BY <3>1 DEF ReadCells
    <3> QED BY <2>5, <3>1, <3>2, <3>3 DEF c
  <2>7. SwapAddress \in Int /\ z \in Int
    BY Lengths
  <2> HIDE DEF z
  <2>8. ValidFirst(e, z) <=> ValidFirst(s.disk, SwapAddress)
    BY <1>0, <2>4, <2>6, <2>7, ValidShift
  <2>9. r.s.disk = e
    BY <2>1, <2>4
  <2> QED BY <1>2, <2>8, <2>9 DEF z, r
<1> QED BY <1>1, <1>2

(* Sets of states no read leads out of: after a fault the states in which  *)
(* a copy is held, before it those with the same storage.                  *)
HeldStates == {t \in States : Sound(t) /\ Held(t)}
SameStates(s) == {t \in States : Sound(t) /\ SameStorage(t, s)}

(* A read keeps what is held. *)
LEMMA HeldClosed ==
  /\ Closed(HeldStates)
  /\ \A s : s \in HeldStates <=> Sound(s) /\ Held(s)
<1>1. \A s : s \in HeldStates <=> Sound(s) /\ Held(s)
  BY DEF HeldStates, Sound
<1>2. ASSUME NEW s \in HeldStates, NEW a \in Nat
      PROVE  ReadElementHeader(s, a).s \in HeldStates
  <2>1. Sound(s) /\ Held(s)
    BY <1>1
  <2>2. Sound(ReadElementHeader(s, a).s)
    BY <2>1, ReadElementHeaderType DEF ReadFrom
  <2>3. CASE a # 0
    <3>1. ReadElementHeader(s, a).s = s
      BY <2>1, <2>3, ReadElementHeaderType
    <3> QED BY <3>1
  <2>4. CASE a = 0
    <3>1. ValidFirst(s.disk, 0) \/ ValidFirst(s.disk, SwapAddress)
      BY <2>1 DEF Held, BackedUp
    <3>2. ValidFirst(ReadElementHeader(s, 0).s.disk, 0)
      BY <2>1, <3>1, ReadFirst
    <3>3. Held(ReadElementHeader(s, a).s)
      BY <2>4, <3>2 DEF Held
    <3> QED BY <1>1, <2>2, <3>3
  <2> QED BY <2>3, <2>4
<1>3. ASSUME NEW s \in HeldStates, NEW t \in States, Sound(t), SameStorage(t, s)
      PROVE  t \in HeldStates
  <2>1. t.disk = s.disk /\ t.ram = s.ram
    BY <1>3 DEF SameStorage
  <2>2. Held(t)
    BY <1>1, <2>1 DEF Held
  <2> QED BY <1>1, <1>3, <2>2
<1>4. \A s \in HeldStates : Sound(s)
  BY <1>1
<1> QED BY <1>1, <1>2, <1>3, <1>4 DEF Closed

(* Where nothing failed a read changes nothing. *)
LEMMA SameClosed ==
  ASSUME NEW s, Sound(s), Settled(s)
  PROVE  /\ Closed(SameStates(s))
         /\ \A t : t \in SameStates(s) <=> Sound(t) /\ SameStorage(t, s)
         /\ s \in SameStates(s)
<1>1. \A t : t \in SameStates(s) <=> Sound(t) /\ SameStorage(t, s)
  BY DEF SameStates, Sound
<1>2. ASSUME NEW t \in SameStates(s), NEW a \in Nat
      PROVE  ReadElementHeader(t, a).s \in SameStates(s)
  <2>1. Sound(t) /\ SameStorage(t, s)
    BY <1>1
  <2>2. CASE a # 0
    <3>1. ReadElementHeader(t, a).s = t
      BY <2>1, <2>2, ReadElementHeaderType
    <3> QED BY <3>1
  <2>3. CASE a = 0
    <3>1. ValidFirst(t.disk, 0) /\ MetaAt(t.disk, 0) = t.ram.meta
      BY <2>1 DEF Settled, SameStorage
    <3>2. ReadElementHeader(t, a).s = [t EXCEPT !.ram.meta = MetaAt(t.disk, 0)]
      BY <2>3, <3>1 DEF ReadElementHeader
    <3>3. [t EXCEPT !.ram.meta = t.ram.meta] = t
      BY <2>1 DEF Sound, States, Rams
    <3> QED BY <3>1, <3>2, <3>3
  <2> QED BY <2>2, <2>3
<1>3. ASSUME NEW t \in SameStates(s), NEW u \in States, Sound(u), SameStorage(u, t)
      PROVE  u \in SameStates(s)
  <2>1. SameStorage(u, s)
    BY <1>1, <1>3 DEF SameStorage
  <2> QED BY <1>1, <1>3, <2>1
<1>4. \A t \in SameStates(s) : Sound(t)
  BY <1>1
<1>5. s \in SameStates(s)
  BY <1>1 DEF SameStorage
<1> QED BY <1>1, <1>2, <1>3, <1>4, <1>5 DEF Closed

(* The header behind a new element is cleared behind the first header. *)
LEMMA ClearStaleNextHeld ==
  ASSUME NEW s, Sound(s), NEW p, p.at \in Nat, p.at = 0 \/ MetaLen + HdrLen <= p.at,
         NEW len \in 0 .. 3
  PROVE  LET t == ClearStaleNext(s, p, len)
         IN  /\ Held(s) => Held(t)
             /\ Settled(s) =>
                  /\ Settled(t) /\ t.ram = s.ram
                  /\ \E o \in Seq(HighOps) : /\ t.ops = s.ops \o o
                                             /\ Trace(s, o)[Len(o)].disk = t.disk
<1> DEFINE n == GetNext(s, p.at, p.id, len)
           blank == BlankCells(HdrLen)
           w == Write(n.s, n.addr, blank)
           t == ClearStaleNext(s, p, len)
<1>1. /\ n.hdr \in Headers /\ ReadFrom(s, n.s)
      /\ \/ n.addr = 0
         \/ /\ n.addr = p.at + HeaderLenAt(p.at) + len
            /\ n.addr > p.at
            /\ n.addr + HdrLen + LinkedLen(s, len, n.hdr.xor) <= partition_size
            /\ n.s = s
  BY GetNextType
<1>2. t = IF n.ret = "SUCCESS" /\ n.addr > p.at THEN w ELSE n.s
  BY Zenon DEF ClearStaleNext
<1>3. Held(s) => Held(n.s)
  BY HeldClosed, GetNextClosed
<1>4. Settled(s) => SameStorage(n.s, s)
  BY SameClosed, GetNextClosed
<1>5. Sound(n.s)
  BY <1>1 DEF ReadFrom
<1> HIDE DEF n, t, w, blank
<1>6. SameStorage(n.s, s) /\ Settled(s) => Settled(n.s)
  BY DEF SameStorage, Settled
<1>7. CASE n.ret = "SUCCESS" /\ n.addr > p.at
  <2>1. LinkedLen(s, len, n.hdr.xor) \in 0 .. 3
    BY <1>1, LinkedLenType DEF Headers
  <2>2. /\ n.addr \in Nat /\ n.addr \in Int /\ n.addr >= 0 /\ MetaLen + HdrLen <= n.addr
        /\ n.addr + HdrLen <= partition_size
    BY <1>1, <1>7, <2>1, Lengths DEF HeaderLenAt
  <2>3. blank \in Seq(Cells) /\ Len(blank) = HdrLen
    BY CellsOf, Lengths DEF blank
  <2>4. /\ Held(n.s) => Held(w)
        /\ Settled(n.s) => Settled(w)
    BY <1>5, <2>2, <2>3, WriteHeld DEF w
  <2>5. Inside(n.addr, Len(blank))
    BY <2>2, <2>3 DEF Inside
  <2>6. w.ram = n.s.ram
    BY <1>5, <2>2, <2>3, <2>5, WriteType DEF w
  <2> DEFINE o == StoreOps(n.s, n.addr, blank)
  <2>01. o = StoreOps(n.s, n.addr, blank) /\ w = Write(n.s, n.addr, blank)
    BY DEF w
  <2> HIDE DEF o
  <2>7. /\ o \in Seq(Ops) /\ o \in Seq(HighOps)
        /\ w.disk = Trace(n.s, o)[Len(o)].disk
        /\ w.ops = n.s.ops \o o
    <3>1. /\ o \in Seq(Ops) /\ (n.addr >= 0 => o \in Seq(HighOps))
          /\ Write(n.s, n.addr, blank).disk = Trace(n.s, o)[Len(o)].disk
          /\ Write(n.s, n.addr, blank).ops = n.s.ops \o o
      BY ONLY <1>5, <2>01, <2>2, <2>3, <2>5, WriteRun
    <3> QED BY <2>01, <2>2, <3>1
  <2>8. t = w /\ n.s = s
    BY <1>1, <1>2, <1>7
  <2> QED BY <1>3, <1>4, <1>6, <2>4, <2>6, <2>7, <2>8 DEF t
<1>8. CASE ~(n.ret = "SUCCESS" /\ n.addr > p.at)
  <2>1. t = n.s
    BY <1>2, <1>8
  <2>2. Settled(s) => n.s.ram = s.ram /\ n.s.disk = s.disk /\ n.s.ops = s.ops
    BY <1>4 DEF SameStorage
  <2> DEFINE o == << >>
  <2>3. o \in Seq(HighOps) /\ Len(o) = 0 /\ Trace(s, o)[Len(o)] = s
    BY TraceDef
  <2>4. s.ops \o o = s.ops
    BY DEF Sound, States
  <2> HIDE DEF o
  <2>5. Settled(s) => \E oo \in Seq(HighOps) : /\ t.ops = s.ops \o oo
                                              /\ Trace(s, oo)[Len(oo)].disk = t.disk
    BY <2>1, <2>2, <2>3, <2>4
  <2> QED BY <1>3, <1>4, <1>6, <2>1, <2>2, <2>5 DEF t
<1> QED BY <1>7, <1>8

(* The steps of filesystem_store_element, once there is room and no        *)
(* iterator in the way.                                                    *)
StorePath(s, v, len, p, r, checked, begun, cells, b, headed, written) ==
  /\ p.at + HeaderLenAt(p.at) + len <= partition_size
  /\ r.checked = checked /\ r.begun = begun
  /\ checked = ClearStaleNext(CheckValidity(s).s, p, len)
  /\ Sound(checked) /\ checked.ram.has = s.ram.has
  /\ Sound(begun) /\ begun.disk = checked.disk /\ begun.ops = checked.ops
  /\ begun.ram.has = checked.ram.has
  /\ p.at # 0 => begun = checked
  /\ cells \in Seq(Cells) /\ Len(cells) = HeaderLenAt(p.at)
  /\ p.at = 0 => cells = RamCells(begun.ram)
  /\ p.at = 0 => \A d \in [Addresses -> Cells], x \in Int :
                   ReadCells(d, x, MetaLen + HdrLen) = cells
                     => ValidFirst(d, x) /\ MetaAt(d, x) = begun.ram.meta
  /\ b = BackupFirst(begun, p)
  /\ Sound(b) /\ b.ram = begun.ram
  /\ headed = Write(b, p.at, cells)
  /\ Sound(headed) /\ headed.ram = begun.ram
  /\ written = Write(headed, p.at + HeaderLenAt(p.at), DataCells(v, len))
  /\ Sound(written) /\ written.ram = begun.ram
  /\ \/ /\ ReadCells(headed.disk, p.at, Len(cells)) # cells
        /\ r.ret = "INTERNAL"
        /\ r.s = headed
     \/ /\ ReadCells(headed.disk, p.at, Len(cells)) = cells
        /\ r.ret = "SUCCESS"
        /\ r.s.disk = written.disk /\ r.s.ops = written.ops
        /\ r.s.ram.meta = written.ram.meta /\ r.s.ram.fhdr = written.ram.fhdr
        /\ r.s.ram.has

(* filesystem_store_element refuses, leaving all but the iterator to the   *)
(* validity check, or goes that way.                                       *)
LEMMA StoreGoes ==
  ASSUME NEW s, Sound(s), NEW v \in Nat, NEW len \in Lens
  PROVE  LET p == Placement(s.ram, len)
             r == StoreElement(s, v, len)
         IN  \/ r.ret # "SUCCESS" /\ r.s \in {s, CheckValidity(s).s}
             \/ \E checked, begun, cells, b, headed, written :
                  StorePath(s, v, len, p, r, checked, begun, cells, b, headed, written)
<1> DEFINE p == Placement(s.ram, len)
           r == StoreElement(s, v, len)
           h == Header(p, v, len)
           c == IteratorConflict(s, p.at, len)
           checked == ClearStaleNext(c.s, p, len)
           begun == IF p.at # 0 THEN checked
                    ELSE [checked EXCEPT !.ram.meta = FirstMetadata(checked, p, h, len),
                                         !.ram.fhdr = h]
           cells == IF p.at = 0 THEN MetaCells(begun.ram.meta) \o HeaderCells(h)
                                ELSE HeaderCells(h)
           b == BackupFirst(begun, p)
           headed == Write(b, p.at, cells)
           a == p.at + HeaderLenAt(p.at)
           data == DataCells(v, len)
           written == Write(headed, a, data)
           done == [written EXCEPT !.ram = [written.ram EXCEPT !.has = TRUE, !.laddr = p.at,
                                                               !.lid = p.id, !.llen = len]]
<1> SUFFICES \/ r.ret # "SUCCESS" /\ r.s \in {s, CheckValidity(s).s}
             \/ \E ch, be, ce, bb, he, wr :
                  StorePath(s, v, len, p, r, ch, be, ce, bb, he, wr)
  OBVIOUS
<1>0. s.ram \in Rams /\ RamInside(s.ram)
  BY DEF Sound, States
<1>1. /\ p.at \in Nat /\ p.id \in 0 .. MaxId /\ p.xor \in 0 .. 3
      /\ p.at = 0 \/ MetaLen + HdrLen <= p.at
      /\ len \in 0 .. 3
  BY <1>0, PlacementType
<1>01. ~is_dynamic => p.xor = 0
  BY DEF Placement
<1>2. CASE p.at + HeaderLenAt(p.at) + len > partition_size
  <2>1. r = [ret |-> "NO_MEM", checked |-> s, begun |-> s, s |-> s]
    BY <1>2 DEF StoreElement
  <2> QED BY <2>1
<1>3. c.s = CheckValidity(s).s /\ Sound(c.s) /\ c.s.ram.has = s.ram.has
  <2>1. c.s = CheckValidity(s).s
    BY DEF IteratorConflict
  <2>2. Checked(s, c.s)
    BY IteratorConflictType
  <2> HIDE DEF c
  <2> QED BY <2>1, <2>2 DEF Checked, SameButMeta
<1>5. CASE ~(p.at + HeaderLenAt(p.at) + len > partition_size) /\ c.conflict
  <2>1. r = [ret |-> "INTERNAL", checked |-> c.s, begun |-> c.s, s |-> c.s]
    BY <1>5 DEF StoreElement
  <2> QED BY <1>3, <2>1
<1>6. CASE ~(p.at + HeaderLenAt(p.at) + len > partition_size) /\ ~c.conflict
  <2>1. r = IF ReadCells(headed.disk, p.at, Len(cells)) # cells
              THEN [ret |-> "INTERNAL", checked |-> checked, begun |-> begun, s |-> headed]
              ELSE [ret |-> "SUCCESS", checked |-> checked, begun |-> begun, s |-> done]
    BY <1>6 DEF StoreElement
  <2>2. /\ Sound(checked) /\ checked.ram.has = s.ram.has
        /\ checked = ClearStaleNext(CheckValidity(s).s, p, len)
    <3> HIDE DEF c
    <3>1. ReadFrom(c.s, checked)
      BY <1>1, <1>3, ClearStaleNextType
    <3>2. checked = ClearStaleNext(CheckValidity(s).s, p, len)
      BY <1>3
    <3> HIDE DEF checked
    <3> QED BY <1>3, <3>1, <3>2 DEF ReadFrom, SameButMeta
  <2>3. h \in Headers /\ Exact(h)
    BY <1>01, <1>1, HeaderType DEF Exact, Header
  <2>4. HeaderLenAt(p.at) \in Nat /\ p.at + HeaderLenAt(p.at) + len <= partition_size
    BY <1>1, <1>6, Lengths DEF HeaderLenAt
  <2> HIDE DEF h, checked, c, p, r
  <2>5. /\ Sound(begun) /\ begun.disk = checked.disk /\ begun.ops = checked.ops
        /\ begun.ram.has = checked.ram.has
        /\ p.at = 0 => /\ begun.ram.fhdr = h
                       /\ begun.ram.meta \in Metas
                       /\ begun.ram.meta.crc
                            = HeaderCrc(begun.ram.meta.flen, begun.ram.meta.last, h)
    <3>1. CASE p.at = 0
      <4>1. len \in FirstLens
        BY <1>1, <2>4, <3>1, Lengths DEF FirstLens, HeaderLenAt
      <4> DEFINE m == FirstMetadata(checked, p, h, len)
      <4>2. m \in Metas
        BY <2>2, <2>3, <4>1, FirstMetadataType
      <4>3. m.crc = HeaderCrc(m.flen, m.last, h)
        BY DEF FirstMetadata
      <4> HIDE DEF m
      <4>4. begun = [checked EXCEPT !.ram.meta = m, !.ram.fhdr = h]
        BY <3>1 DEF m
      <4> HIDE DEF begun
      <4> QED BY <2>2, <2>3, <4>2, <4>3, <4>4 DEF Sound, States, Rams, RamInside
    <3>2. CASE p.at # 0
      BY <2>2, <3>2
    <3> QED BY <3>1, <3>2
  <2>6. p.at # 0 => begun = checked
    OBVIOUS
  <2> HIDE DEF begun
  <2>7. cells \in Seq(Cells) /\ Len(cells) = HeaderLenAt(p.at)
    <3>1. begun.ram.meta \in Metas
      BY <2>5 DEF Sound, States, Rams
    <3> QED BY <2>3, <3>1, CellsOf DEF HeaderLenAt
  <2>8. p.at = 0 => cells = RamCells(begun.ram)
    BY <2>5 DEF RamCells
  <2>9. p.at = 0 => \A d \in [Addresses -> Cells], x \in Int :
                   ReadCells(d, x, MetaLen + HdrLen) = cells
                     => ValidFirst(d, x) /\ MetaAt(d, x) = begun.ram.meta
    <3> SUFFICES ASSUME p.at = 0, NEW d \in [Addresses -> Cells], NEW x \in Int,
                        ReadCells(d, x, MetaLen + HdrLen) = cells
                 PROVE  ValidFirst(d, x) /\ MetaAt(d, x) = begun.ram.meta
      OBVIOUS
    <3>1. cells = MetaCells(begun.ram.meta) \o HeaderCells(h)
      OBVIOUS
    <3> HIDE DEF cells
    <3> QED BY <2>3, <2>5, <3>1, ValidCells
  <2>10. Sound(b) /\ b.ram = begun.ram
    BY <2>5, BackupFirstType
  <2> HIDE DEF cells, b
  <2>11. Inside(p.at, Len(cells)) /\ p.at \in Int
    BY <1>1, <2>4, <2>7, Lengths DEF Inside
  <2>12. Sound(headed) /\ headed.ram = begun.ram
    BY <2>7, <2>10, <2>11, WriteType
  <2>13. data \in Seq(Cells) /\ Len(data) = len /\ a \in Int /\ Inside(a, Len(data))
    <3>1. data \in Seq(Cells) /\ Len(data) = len
      BY <1>1, CellsOf
    <3> HIDE DEF data
    <3> QED BY <1>1, <2>4, <3>1, Lengths DEF Inside
  <2> HIDE DEF headed
  <2>14. Sound(written) /\ written.ram = begun.ram
    <3> HIDE DEF a, data
    <3> QED BY <2>12, <2>13, WriteType
  <2>15. written = Write(headed, p.at + HeaderLenAt(p.at), DataCells(v, len))
    OBVIOUS
  <2> HIDE DEF written
  <2>16. /\ done.disk = written.disk /\ done.ops = written.ops
         /\ done.ram.meta = written.ram.meta /\ done.ram.fhdr = written.ram.fhdr
         /\ done.ram.has
    BY <2>14 DEF Sound, States, Rams
  <2> HIDE DEF done
  <2>17. r.checked = checked /\ r.begun = begun
    BY <2>1
  <2>18. \/ /\ ReadCells(headed.disk, p.at, Len(cells)) # cells
            /\ r.ret = "INTERNAL"
            /\ r.s = headed
         \/ /\ ReadCells(headed.disk, p.at, Len(cells)) = cells
            /\ r.ret = "SUCCESS"
            /\ r.s.disk = written.disk /\ r.s.ops = written.ops
            /\ r.s.ram.meta = written.ram.meta /\ r.s.ram.fhdr = written.ram.fhdr
            /\ r.s.ram.has
    BY <2>1, <2>16
  <2>19. b = BackupFirst(begun, p) /\ headed = Write(b, p.at, cells)
    BY DEF b, headed
  <2>20. StorePath(s, v, len, p, r, checked, begun, cells, b, headed, written)
    BY ONLY <2>2, <2>4, <2>5, <2>6, <2>7, <2>8, <2>9, <2>10, <2>12, <2>14, <2>15,
            <2>17, <2>18, <2>19, Zenon DEF StorePath
  <2> QED BY <2>20, Zenon
<1> QED BY <1>2, <1>5, <1>6

(* A list of operations in three legs: each moment lies on one of them. *)
LEMMA ThreeLegs ==
  ASSUME NEW s, Sound(s), NEW t, Sound(t), NEW u, Sound(u),
         NEW o1 \in Seq(Ops), NEW o2 \in Seq(Ops), NEW o3 \in Seq(Ops),
         Trace(s, o1)[Len(o1)].disk = t.disk, Trace(t, o2)[Len(o2)].disk = u.disk,
         NEW k \in 0 .. Len((o1 \o o2) \o o3)
  PROVE  LET d == Trace(s, (o1 \o o2) \o o3)[k].disk
         IN  \/ k < Len(o1) /\ d = Trace(s, o1)[k].disk
             \/ k >= Len(o1) /\ \E j \in 0 .. Len(o2) : d = Trace(t, o2)[j].disk
             \/ k >= Len(o1) /\ \E j \in 0 .. Len(o3) : d = Trace(u, o3)[j].disk
<1> DEFINE q == o1 \o o2
           d == Trace(s, q \o o3)[k].disk
<1>1. /\ q \in Seq(Ops) /\ Len(q) = Len(o1) + Len(o2)
      /\ Len(o1) \in Nat /\ Len(o2) \in Nat /\ Len(o3) \in Nat
  BY ConcatAt
<1>2. Trace(s, q)[Len(o1) + Len(o2)].disk = Trace(t, o2)[Len(o2)].disk
  <2>1. Len(o2) \in 0 .. Len(o2)
    BY <1>1
  <2> QED BY <2>1, TraceJoin
<1>20. ASSUME NEW j \in 0 .. Len(o2) PROVE Trace(s, q)[Len(o1) + j].disk = Trace(t, o2)[j].disk
  BY TraceJoin
<1>21. ASSUME NEW j \in 0 .. Len(o1) PROVE Trace(s, q)[j] = Trace(s, o1)[j]
  BY TraceConcat
<1>22. k \in 0 .. Len(q \o o3)
  OBVIOUS
<1>23. q \in Seq(Ops)
  BY <1>1
<1> HIDE DEF q
<1>3. Trace(s, q)[Len(q)].disk = u.disk
  BY <1>1, <1>2
<1>4. Len(q \o o3) = Len(q) + Len(o3)
  BY <1>1, ConcatAt
<1>40. ASSUME NEW j \in 0 .. Len(o3) PROVE Trace(s, q \o o3)[Len(q) + j].disk = Trace(u, o3)[j].disk
  BY ONLY Sound(s), Sound(u), <1>23, <1>3, o3 \in Seq(Ops), j \in 0 .. Len(o3), TraceJoin
<1>5. CASE k < Len(o1)
  <2>1. k \in 0 .. Len(q) /\ k \in 0 .. Len(o1)
    BY <1>1, <1>22, <1>4, <1>5
  <2>2. Trace(s, q \o o3)[k] = Trace(s, q)[k]
    BY <1>1, <2>1, TraceConcat
  <2>3. Trace(s, q)[k] = Trace(s, o1)[k]
    BY <2>1, <1>21
  <2> QED BY <1>5, <2>2, <2>3 DEF q
<1>6. CASE Len(o1) <= k /\ k <= Len(q)
  <2> DEFINE j == k - Len(o1)
  <2>1. k \in 0 .. Len(q) /\ j \in 0 .. Len(o2) /\ Len(o1) + j = k /\ k >= Len(o1)
    BY <1>1, <1>22, <1>4, <1>6
  <2>2. Trace(s, q \o o3)[k] = Trace(s, q)[k]
    BY <1>1, <2>1, TraceConcat
  <2>3. Trace(s, q)[Len(o1) + j].disk = Trace(t, o2)[j].disk
    BY <2>1, <1>20
  <2> HIDE DEF j
  <2>4. d = Trace(t, o2)[j].disk
    BY <2>1, <2>2, <2>3
  <2> QED BY <2>1, <2>4 DEF q
<1>7. CASE Len(q) < k
  <2> DEFINE j == k - Len(q)
  <2>0. Len(q) \in Nat /\ k \in Nat /\ k <= Len(q) + Len(o3) /\ Len(o1) <= Len(q)
    BY ONLY <1>1, <1>22, <1>4
  <2>1. j \in 0 .. Len(o3) /\ Len(q) + j = k /\ k >= Len(o1)
    BY ONLY <1>7, <2>0, Len(o1) \in Nat, Len(o3) \in Nat
  <2>2. Trace(s, q \o o3)[Len(q) + j].disk = Trace(u, o3)[j].disk
    BY <1>40, <2>1
  <2> HIDE DEF j
  <2>3. d = Trace(u, o3)[j].disk
    BY <2>1, <2>2
  <2> QED BY <2>1, <2>3 DEF q
<1>8. k < Len(o1) \/ (Len(o1) <= k /\ k <= Len(q)) \/ Len(q) < k
  BY <1>1, <1>22, <1>4
<1> QED BY <1>5, <1>6, <1>7, <1>8

(* How b comes of s by the operations o of a backup. *)
BackupBy(s, b, o) ==
  /\ o \in Seq(Ops) /\ b.ops = s.ops \o o
  /\ Trace(s, o)[Len(o)].disk = b.disk
  /\ \A k \in 0 .. Len(o) : \A x \in Addresses :
       x >= 0 => Trace(s, o)[k].disk[x] = s.disk[x]

(* The first header is in the swap page before its unit is written, and    *)
(* making the backup touches nothing else.  A backup that is there already *)
(* is not written again.                                                   *)
LEMMA BackupMade ==
  ASSUME NEW s, Sound(s), NEW p
  PROVE  LET b == BackupFirst(s, p)
         IN  /\ UnitStart(p.at) = 0 => SwapCells(b.disk) = RamCells(s.ram)
             /\ SwapCells(s.disk) = RamCells(s.ram) => b = s
             /\ \E o : BackupBy(s, b, o)
<1> DEFINE b == BackupFirst(s, p)
           cells == RamCells(s.ram)
           w == Write(s, SwapAddress, cells)
<1>1. cells \in Seq(Cells) /\ Len(cells) = MetaLen + HdrLen
  BY CellsOf DEF RamCells, Sound, States, Rams
<1>2. b = IF UnitStart(p.at) = 0 THEN Backup(s, cells) ELSE s
  BY DEF BackupFirst, RamCells
<1> HIDE DEF b, cells
<1>3. Backup(s, cells) = IF SwapCells(s.disk) = cells THEN s ELSE w
  BY <1>1 DEF Backup, SwapCells
<1>4. \E o : BackupBy(s, s, o)
  <2> DEFINE o == << >>
  <2>1. o \in Seq(Ops) /\ Len(o) = 0 /\ Trace(s, o)[0] = s
    BY TraceDef
  <2>2. s.ops \o o = s.ops
    BY DEF Sound, States
  <2> HIDE DEF o
  <2>3. \A k \in 0 .. Len(o) : k = 0
    BY <2>1
  <2>4. BackupBy(s, s, o)
    BY <2>1, <2>2, <2>3 DEF BackupBy
  <2> QED BY <2>4
<1>5. SwapCells(w.disk) = cells /\ \E o : BackupBy(s, w, o)
  <2> DEFINE o == Puts(SwapAddress, cells)
  <2>0. o = Puts(SwapAddress, cells)
    OBVIOUS
  <2> HIDE DEF o
  <2>1. /\ o \in Seq(Ops)
        /\ Write(s, SwapAddress, cells).disk = Trace(s, o)[Len(o)].disk
        /\ Write(s, SwapAddress, cells).ops = s.ops \o o
        /\ ReadCells(Write(s, SwapAddress, cells).disk, SwapAddress, MetaLen + HdrLen) = cells
        /\ \A k \in 0 .. Len(o) : \A x \in Addresses :
             x >= 0 => Trace(s, o)[k].disk[x] = s.disk[x]
    BY ONLY Sound(s), <1>1, <2>0, WriteSwap
  <2>2. BackupBy(s, w, o)
    BY <2>1 DEF BackupBy
  <2> QED BY <2>1, <2>2 DEF SwapCells
<1> HIDE DEF w
<1>6. /\ UnitStart(p.at) = 0 => SwapCells(b.disk) = cells
      /\ SwapCells(s.disk) = cells => b = s
      /\ \E o : BackupBy(s, b, o)
  BY <1>2, <1>3, <1>4, <1>5
<1> QED BY <1>6 DEF b, cells

(* A backup leaves the first header alone. *)
LEMMA BackupBeside ==
  ASSUME NEW s, Sound(s), NEW b, NEW o, BackupBy(s, b, o), NEW k \in 0 .. Len(o)
  PROVE  LET d == Trace(s, o)[k].disk
         IN  /\ ValidFirst(d, 0) <=> ValidFirst(s.disk, 0)
             /\ MetaAt(d, 0) = MetaAt(s.disk, 0)
<1> DEFINE d == Trace(s, o)[k].disk
<1>1. s.disk \in [Addresses -> Cells]
  BY DEF Sound, States
<1>2. o \in Seq(Ops) /\ \A x \in Addresses : x >= 0 => d[x] = s.disk[x]
  BY DEF BackupBy
<1>3. d \in [Addresses -> Cells]
  BY <1>2, TraceType DEF Sound, States
<1> HIDE DEF d
<1>4. \A x \in Addresses : 0 <= x /\ x < MetaLen + HdrLen => d[x] = s.disk[x]
  BY <1>2, Lengths DEF Addresses
<1>5. /\ ValidFirst(d, 0) <=> ValidFirst(s.disk, 0)
      /\ MetaAt(d, 0) = MetaAt(s.disk, 0)
  BY <1>1, <1>3, <1>4, HeadSame
<1> QED BY <1>5 DEF d

(* An element stored at the start of the partition is in place, and so is  *)
(* its backup, when filesystem_store_element returns.                      *)
LEMMA StoreAtZero ==
  ASSUME NEW s, NEW v \in Nat, NEW len \in 0 .. 3, NEW p, p.at = 0, NEW r,
         NEW checked, NEW begun, NEW cells, NEW b, NEW headed, NEW written,
         StorePath(s, v, len, p, r, checked, begun, cells, b, headed, written)
  PROVE  r.ret = "SUCCESS" /\ Settled(r.s)
<1> DEFINE n == MetaLen + HdrLen
           z == 0
<1>0. n \in Nat /\ HeaderLenAt(p.at) = n /\ z + n + len <= partition_size /\ p.at = z
  BY Lengths DEF HeaderLenAt, StorePath
<1>1. /\ Sound(begun) /\ Sound(b) /\ Sound(headed) /\ Sound(written)
      /\ b.ram = begun.ram /\ headed.ram = begun.ram /\ written.ram = begun.ram
      /\ b = BackupFirst(begun, p)
  BY DEF StorePath
<1>2. cells \in Seq(Cells) /\ Len(cells) = n /\ cells = RamCells(begun.ram)
  BY <1>0 DEF StorePath
<1>3. \A d \in [Addresses -> Cells], x \in Int :
        ReadCells(d, x, n) = cells => ValidFirst(d, x) /\ MetaAt(d, x) = begun.ram.meta
  BY DEF StorePath
<1>4. /\ headed = Write(b, z, cells)
      /\ written = Write(headed, n, DataCells(v, len))
  <2>1. /\ headed = Write(b, p.at, cells)
        /\ written = Write(headed, p.at + HeaderLenAt(p.at), DataCells(v, len))
    BY DEF StorePath
  <2>2. p.at + HeaderLenAt(p.at) = n
    BY <1>0
  <2> QED BY <2>1, <2>2
<1>5. SwapCells(b.disk) = cells
  <2>1. UnitStart(p.at) = 0
    BY PartitionAssumption DEF UnitStart
  <2> QED BY <1>1, <1>2, <2>1, BackupMade
<1>6. /\ b.disk \in [Addresses -> Cells] /\ headed.disk \in [Addresses -> Cells]
      /\ SwapAddress \in Int /\ z \in Int
  BY <1>1, Lengths DEF Sound, States
<1>7. /\ ReadCells(headed.disk, z, n) = cells
      /\ \A x \in Addresses : x < 0 => headed.disk[x] = b.disk[x]
  BY <1>1, <1>2, <1>4, WriteFirst
<1>8. SwapCells(headed.disk) = cells
  BY <1>5, <1>6, <1>7, SwapSame DEF SwapCells
<1> HIDE DEF z
<1>9. /\ ValidFirst(headed.disk, z) /\ MetaAt(headed.disk, z) = begun.ram.meta
      /\ ValidFirst(headed.disk, SwapAddress)
  <2> HIDE DEF n
  <2>1. ReadCells(headed.disk, SwapAddress, n) = cells
    BY <1>8 DEF SwapCells, n
  <2> QED BY <1>3, <1>6, <1>7, <2>1
<1>10. Settled(headed)
  BY <1>1, <1>2, <1>8, <1>9 DEF Settled, BackedUp, z
<1>11. Settled(written)
  <2> DEFINE data == DataCells(v, len)
  <2>1. data \in Seq(Cells) /\ Len(data) = len
    BY CellsOf
  <2> HIDE DEF data
  <2>2. n \in Nat /\ MetaLen + HdrLen <= n /\ n + Len(data) <= partition_size
    BY <1>0, <2>1 DEF z
  <2> HIDE DEF n
  <2>3. Settled(Write(headed, n, data))
    BY <1>1, <1>10, <2>1, <2>2, WriteHeld
  <2> QED BY <1>4, <2>3 DEF data
<1>12. ReadCells(headed.disk, p.at, Len(cells)) = cells
  BY <1>0, <1>2, <1>7
<1>13. /\ r.ret = "SUCCESS" /\ r.s.disk = written.disk
       /\ r.s.ram.meta = written.ram.meta /\ r.s.ram.fhdr = written.ram.fhdr
  BY <1>12, Zenon DEF StorePath
<1> QED BY <1>11, <1>13, SameHeld

(* After a fault: whatever filesystem_store_element returns, one of the    *)
(* copies is held.                                                         *)
LEMMA StoreHeld ==
  ASSUME NEW s, Sound(s), NEW v \in Nat, NEW len \in Lens, Held(s)
  PROVE  Held(StoreElement(s, v, len).s)
<1> DEFINE p == Placement(s.ram, len)
           r == StoreElement(s, v, len)
           c == CheckValidity(s)
<1>1. len \in 0 .. 3
  BY PlacementType DEF Sound, States
<1>2. \/ r.ret # "SUCCESS" /\ r.s \in {s, c.s}
      \/ \E checked, begun, cells, b, headed, written :
           StorePath(s, v, len, p, r, checked, begun, cells, b, headed, written)
  BY StoreGoes
<1>3. Held(c.s) /\ Sound(c.s)
  BY HeldClosed, CheckValidityClosed
<1>4. p.at \in Nat
  BY PlacementType DEF Sound, States
<1>5. p.at = 0 \/ MetaLen + HdrLen <= p.at
  BY PlacementType DEF Sound, States
<1> HIDE DEF p, r
<1>6. CASE r.s \in {s, c.s}
  BY <1>3, <1>6 DEF r
<1>7. ASSUME NEW checked, NEW begun, NEW cells, NEW b, NEW headed, NEW written,
             StorePath(s, v, len, p, r, checked, begun, cells, b, headed, written)
      PROVE  Held(r.s)
  <2>1. CASE p.at = 0
    <3>1. Settled(r.s)
      BY <1>1, <1>7, <2>1, StoreAtZero
    <3> QED BY <3>1 DEF Settled, Held
  <2>2. CASE p.at # 0
    <3>1. /\ checked = ClearStaleNext(c.s, p, len) /\ begun = checked
          /\ Sound(begun) /\ b = BackupFirst(begun, p) /\ Sound(b) /\ b.ram = begun.ram
          /\ headed = Write(b, p.at, cells) /\ Sound(headed)
          /\ written = Write(headed, p.at + HeaderLenAt(p.at), DataCells(v, len))
          /\ cells \in Seq(Cells) /\ Len(cells) = HeaderLenAt(p.at)
          /\ p.at + HeaderLenAt(p.at) + len <= partition_size
      BY <1>7, <2>2 DEF StorePath
    <3>2. Held(checked)
      <4> HIDE DEF c
      <4> QED BY <1>1, <1>3, <1>4, <1>5, <3>1, ClearStaleNextHeld
    <3>3. Held(b)
      <4>1. CASE SwapCells(begun.disk) = RamCells(begun.ram)
        <5>1. b = begun
          BY <3>1, <4>1, BackupMade
        <5> QED BY <3>1, <3>2, <5>1
      <4>2. CASE SwapCells(begun.disk) # RamCells(begun.ram)
        <5>1. ValidFirst(begun.disk, 0)
          BY <3>1, <3>2, <4>2 DEF Held, BackedUp
        <5>2. PICK o : BackupBy(begun, b, o)
          BY <3>1, BackupMade
        <5>3. Len(o) \in 0 .. Len(o) /\ Trace(begun, o)[Len(o)].disk = b.disk
          BY <5>2 DEF BackupBy
        <5>4. ValidFirst(Trace(begun, o)[Len(o)].disk, 0) <=> ValidFirst(begun.disk, 0)
          BY <3>1, <5>2, <5>3, BackupBeside
        <5> QED BY <5>1, <5>3, <5>4 DEF Held
      <4> QED BY <4>1, <4>2
    <3>4. HeaderLenAt(p.at) \in Nat /\ MetaLen + HdrLen <= p.at
      BY <1>5, <2>2, Lengths DEF HeaderLenAt
    <3>50. p.at + HeaderLenAt(p.at) + len <= partition_size /\ Len(cells) = HeaderLenAt(p.at)
      BY <3>1
    <3>5. p.at + Len(cells) <= partition_size
      BY ONLY <1>1, <1>4, <3>50, <3>4, Lengths
    <3>6. Held(headed)
      BY <1>4, <3>1, <3>3, <3>4, <3>5, WriteHeld
    <3> DEFINE a == p.at + HeaderLenAt(p.at)
               data == DataCells(v, len)
    <3>7. data \in Seq(Cells) /\ Len(data) = len
      BY <1>1, CellsOf
    <3>8. a \in Nat /\ MetaLen + HdrLen <= a /\ a + len <= partition_size
      BY ONLY <1>1, <1>4, <3>50, <3>4, Lengths DEF a
    <3>9. written = Write(headed, a, data)
      BY <3>1
    <3> HIDE DEF a, data
    <3>10. Held(written)
      BY <3>1, <3>6, <3>7, <3>8, <3>9, WriteHeld
    <3>11. \/ r.s = headed
           \/ /\ r.s.disk = written.disk /\ r.s.ram.meta = written.ram.meta
              /\ r.s.ram.fhdr = written.ram.fhdr
      BY <1>7, Zenon DEF StorePath
    <3> QED BY <3>6, <3>10, <3>11, SameHeld
  <2> QED BY <2>1, <2>2
<1> QED BY <1>2, <1>6, <1>7 DEF r

(* Operations on the partition leave the backup alone. *)
LEMMA HighBacked ==
  ASSUME NEW s, Sound(s), NEW o \in Seq(HighOps), NEW k \in 0 .. Len(o), NEW r
  PROVE  BackedUp(Trace(s, o)[k].disk, r) <=> BackedUp(s.disk, r)
<1> DEFINE d == Trace(s, o)[k].disk
<1>1. o \in Seq(Ops)
  BY DEF HighOps
<1>2. d \in [Addresses -> Cells] /\ s.disk \in [Addresses -> Cells]
  BY <1>1, TraceType DEF Sound, States
<1>3. \A x \in Addresses : x < 0 => d[x] = s.disk[x]
  BY HighFrame
<1> HIDE DEF d
<1>4. /\ ValidFirst(d, SwapAddress) <=> ValidFirst(s.disk, SwapAddress)
      /\ SwapCells(d) = SwapCells(s.disk)
  BY <1>2, <1>3, SwapSame DEF SwapCells
<1> QED BY <1>4 DEF BackedUp, d

(* The same operations do the same to the same storage. *)
LEMMA TraceSame ==
  ASSUME NEW s, Sound(s), NEW t, Sound(t), t.disk = s.disk,
         NEW o \in Seq(Ops), NEW k \in 0 .. Len(o)
  PROVE  Trace(s, o)[k].disk = Trace(t, o)[k].disk
<1> DEFINE e == << >>
<1>1. e \in Seq(Ops) /\ Len(e) = 0 /\ e \o o = o /\ 0 + k = k
  OBVIOUS
<1>2. Trace(s, e)[0] = s
  BY <1>1, TraceDef
<1> HIDE DEF e
<1>3. Trace(s, e)[Len(e)].disk = t.disk
  BY <1>1, <1>2
<1>30. e \in Seq(Ops)
  BY <1>1
<1>4. Trace(s, e \o o)[Len(e) + k].disk = Trace(t, o)[k].disk
  BY ONLY Sound(s), Sound(t), <1>30, <1>3, o \in Seq(Ops), k \in 0 .. Len(o), TraceJoin
<1> QED BY <1>1, <1>4

(* Concatenation is associative. *)
LEMMA ConcatAssoc ==
  ASSUME NEW S, NEW p \in Seq(S), NEW q \in Seq(S), NEW r \in Seq(S)
  PROVE  (p \o q) \o r = p \o (q \o r)
<1> DEFINE x == (p \o q) \o r
           y == p \o (q \o r)
           n == Len(p) + Len(q) + Len(r)
<1>1. x \in Seq(S) /\ Len(x) = n /\ y \in Seq(S) /\ Len(y) = n
  OBVIOUS
<1>2. ASSUME NEW i \in 1 .. n PROVE x[i] = y[i]
  <2>1. CASE i <= Len(p)
    BY <2>1
  <2>2. CASE Len(p) < i /\ i <= Len(p) + Len(q)
    BY <2>2
  <2>3. CASE Len(p) + Len(q) < i
    <3> DEFINE j == i - Len(p) - Len(q)
               pq == p \o q
               qr == q \o r
    <3>1. /\ j \in 1 .. Len(r) /\ Len(q) + j \in 1 .. Len(q) + Len(r)
          /\ (Len(p) + Len(q)) + j = i /\ Len(p) + (Len(q) + j) = i
      BY <2>3
    <3>2. pq \in Seq(S) /\ Len(pq) = Len(p) + Len(q) /\ qr \in Seq(S) /\ Len(qr) = Len(q) + Len(r)
      BY ConcatAt
    <3>3. qr[Len(q) + j] = r[j]
      BY <3>1, ConcatAt
    <3> HIDE DEF j, pq, qr
    <3>4. (pq \o r)[Len(pq) + j] = r[j]
      <4>1. pq \in Seq(S) /\ j \in 1 .. Len(r)
        BY <3>1, <3>2
      <4> QED BY ONLY <4>1, r \in Seq(S), ConcatAt
    <3>5. (p \o qr)[Len(p) + (Len(q) + j)] = qr[Len(q) + j]
      <4> DEFINE l == Len(q) + j
      <4>1. l \in 1 .. Len(qr)
        BY <3>1, <3>2
      <4> HIDE DEF l
      <4>2. (p \o qr)[Len(p) + l] = qr[l]
        <5>1. qr \in Seq(S)
          BY <3>2
        <5> QED BY ONLY <4>1, <5>1, p \in Seq(S), ConcatAt
      <4> QED BY <4>2 DEF l
    <3>6. (pq \o r)[i] = (p \o qr)[i]
      BY <3>1, <3>2, <3>3, <3>4, <3>5
    <3> QED BY <3>6 DEF pq, qr
  <2> QED BY <2>1, <2>2, <2>3
<1> HIDE DEF x, y, n
<1>3. x = [i \in 1 .. n |-> x[i]] /\ y = [i \in 1 .. n |-> y[i]]
  BY <1>1
<1>4. x = y
  BY <1>2, <1>3
<1> QED BY <1>4 DEF x, y

(* From s to t only operations on the partition were performed. *)
HighSince(s, t) == \E q \in Seq(HighOps) : t.ops = s.ops \o q

(* Behind the backup filesystem_store_element writes to the partition only. *)
LEMMA PathWrites ==
  ASSUME NEW s, NEW v \in Nat, NEW len \in 0 .. 3, NEW p, p.at \in Nat, NEW r,
         NEW checked, NEW begun, NEW cells, NEW b, NEW headed, NEW written,
         StorePath(s, v, len, p, r, checked, begun, cells, b, headed, written)
  PROVE  HighSince(b, written)
<1> DEFINE a == p.at + HeaderLenAt(p.at)
           data == DataCells(v, len)
           o == StoreOps(b, p.at, cells)
           u == StoreOps(headed, a, data)
<1>1. /\ Sound(b) /\ Sound(headed)
      /\ headed = Write(b, p.at, cells) /\ written = Write(headed, a, data)
      /\ cells \in Seq(Cells) /\ Len(cells) = HeaderLenAt(p.at)
  BY DEF StorePath
<1>2. a + len <= partition_size /\ Len(cells) = HeaderLenAt(p.at)
  BY DEF StorePath
<1>3. HeaderLenAt(p.at) \in Nat
  BY Lengths DEF HeaderLenAt
<1>4. data \in Seq(Cells) /\ Len(data) = len
  BY CellsOf
<1> HIDE DEF data
<1>5. /\ a \in Int /\ a >= 0 /\ Inside(a, Len(data))
      /\ p.at \in Int /\ p.at >= 0 /\ Inside(p.at, Len(cells))
  BY ONLY p.at \in Nat, len \in 0 .. 3, <1>2, <1>3, <1>4, Lengths DEF Inside, a
<1>6. o = StoreOps(b, p.at, cells) /\ u = StoreOps(headed, a, data)
  OBVIOUS
<1> HIDE DEF a, o, u
<1>7. o \in Seq(HighOps) /\ Write(b, p.at, cells).ops = b.ops \o o
  <2>1. /\ Sound(b) /\ cells \in Seq(Cells) /\ Inside(p.at, Len(cells))
        /\ p.at \in Int /\ p.at >= 0 /\ o = StoreOps(b, p.at, cells)
    BY <1>1, <1>5, <1>6
  <2> QED BY ONLY <2>1, WriteRun
<1>8. u \in Seq(HighOps) /\ Write(headed, a, data).ops = headed.ops \o u
  BY ONLY <1>1, <1>4, <1>5, <1>6, WriteRun
<1>9. written.ops = (b.ops \o o) \o u
  BY <1>1, <1>7, <1>8
<1>10. b.ops \in Seq(Ops) /\ o \in Seq(Ops) /\ u \in Seq(Ops)
  BY <1>1, <1>7, <1>8 DEF Sound, States, HighOps
<1>11. (b.ops \o o) \o u = b.ops \o (o \o u)
  <2> DEFINE x == b.ops
  <2>1. x \in Seq(Ops)
    BY <1>10
  <2> HIDE DEF x
  <2>2. (x \o o) \o u = x \o (o \o u)
    BY ONLY <1>10, <2>1, ConcatAssoc
  <2> QED BY <2>2 DEF x
<1>12. o \o u \in Seq(HighOps)
  BY <1>7, <1>8
<1> QED BY <1>9, <1>11, <1>12 DEF HighSince

(* What must hold of the storage d if filesystem_store_element stops after *)
(* k of its device operations: a first header is left for the next         *)
(* power-up, and for the next backup.                                      *)
Lasting(r, k, d) ==
  \/ ValidFirst(d, 0)
  \/ BackedUp(d, IF k < Len(r.checked.ops) THEN r.checked.ram ELSE r.begun.ram)

(* As long as nothing failed: filesystem_store_element leaves both copies  *)
(* valid, and at every moment on the way one of them lasts.                *)
LEMMA StoreSettled ==
  ASSUME NEW s, Sound(s), s.ops = << >>, NEW v \in Nat, NEW len \in Lens, Settled(s)
  PROVE  LET r == StoreElement(s, v, len)
         IN  /\ Settled(r.s)
             /\ r.ret = "SUCCESS" =>
                  \A k \in 0 .. Len(r.s.ops) : Lasting(r, k, Trace(s, r.s.ops)[k].disk)
<1> DEFINE p == Placement(s.ram, len)
           r == StoreElement(s, v, len)
           c == CheckValidity(s)
<1> SUFFICES /\ Settled(r.s)
             /\ r.ret = "SUCCESS" =>
                  \A k \in 0 .. Len(r.s.ops) : Lasting(r, k, Trace(s, r.s.ops)[k].disk)
  OBVIOUS
<1>1. len \in 0 .. 3
  BY PlacementType DEF Sound, States
<1>2. \/ r.ret # "SUCCESS" /\ r.s \in {s, c.s}
      \/ \E checked, begun, cells, b, headed, written :
           StorePath(s, v, len, p, r, checked, begun, cells, b, headed, written)
  BY StoreGoes
<1>3. SameStorage(c.s, s) /\ Sound(c.s)
  BY SameClosed, CheckValidityClosed
<1>4. p.at \in Nat
  BY PlacementType DEF Sound, States
<1>5. p.at = 0 \/ MetaLen + HdrLen <= p.at
  BY PlacementType DEF Sound, States
<1> HIDE DEF p, r, c
<1>6. c.s.disk = s.disk /\ c.s.ram = s.ram /\ c.s.ops = << >>
  BY <1>3 DEF SameStorage
<1>7. Settled(c.s)
  BY <1>6, SameHeld
<1>8. CASE r.ret # "SUCCESS" /\ r.s \in {s, c.s}
  BY <1>7, <1>8
<1>9. ASSUME NEW checked, NEW begun, NEW cells, NEW b, NEW headed, NEW written,
             StorePath(s, v, len, p, r, checked, begun, cells, b, headed, written)
      PROVE  /\ Settled(r.s)
             /\ r.ret = "SUCCESS" =>
                  \A k \in 0 .. Len(r.s.ops) : Lasting(r, k, Trace(s, r.s.ops)[k].disk)
  <2>1. /\ checked = ClearStaleNext(c.s, p, len) /\ Sound(checked)
        /\ Sound(begun) /\ begun.disk = checked.disk /\ begun.ops = checked.ops
        /\ b = BackupFirst(begun, p) /\ Sound(b) /\ b.ram = begun.ram
        /\ r.checked = checked /\ r.begun = begun
    BY <1>9 DEF StorePath, c
  <2>2. /\ Settled(checked) /\ checked.ram = c.s.ram
        /\ \E o \in Seq(HighOps) : /\ checked.ops = c.s.ops \o o
                                   /\ Trace(c.s, o)[Len(o)].disk = checked.disk
    <3> DEFINE u == c.s
               t == ClearStaleNext(u, p, len)
    <3>1. Sound(u) /\ Settled(u)
      BY <1>3, <1>7
    <3> HIDE DEF u
    <3>2. /\ Settled(t) /\ t.ram = u.ram
          /\ \E o \in Seq(HighOps) : /\ t.ops = u.ops \o o
                                     /\ Trace(u, o)[Len(o)].disk = t.disk
      BY ONLY <1>1, <1>4, <1>5, <3>1, ClearStaleNextHeld, Zenon
    <3>3. t = checked
      BY <2>1 DEF u
    <3> HIDE DEF t
    <3> QED BY <3>2, <3>3, Zenon DEF u
  <2>3. PICK o1 \in Seq(HighOps) : /\ checked.ops = c.s.ops \o o1
                                   /\ Trace(c.s, o1)[Len(o1)].disk = checked.disk
    BY <2>2
  <2>4. o1 \in Seq(Ops) /\ Len(o1) \in 0 .. Len(o1)
    BY DEF HighOps
  <2>5. checked.ops = o1
    BY <1>6, <2>3, <2>4
  <2>6. Trace(s, o1)[Len(o1)].disk = checked.disk
    BY <1>3, <1>6, <2>3, <2>4, TraceSame
  <2>7. PICK q \in Seq(HighOps) : written.ops = b.ops \o q
    <3>1. HighSince(b, written)
      BY <1>1, <1>4, <1>9, PathWrites
    <3> QED BY <3>1 DEF HighSince
  <2>8. q \in Seq(Ops)
    BY DEF HighOps
  <2>9. BackedUp(s.disk, checked.ram)
    BY <1>6, <2>2 DEF Settled
  <2>10. r.ret = "SUCCESS" => r.s.ops = written.ops
    BY <1>9, Zenon DEF StorePath
  <2>11. CASE p.at # 0
    <3>1. begun = checked
      BY <1>9, <2>11 DEF StorePath
    <3>2. b = checked
      <4>1. SwapCells(begun.disk) = RamCells(begun.ram)
        BY <2>2, <3>1 DEF Settled, BackedUp
      <4> QED BY <2>1, <3>1, <4>1, BackupMade
    <3>3. written.ops = o1 \o q /\ o1 \o q \in Seq(HighOps)
      <4>1. written.ops = o1 \o q
        BY <2>5, <2>7, <3>2, Zenon
      <4> QED BY <4>1
    <3>4. ASSUME r.ret = "SUCCESS", NEW k \in 0 .. Len(r.s.ops)
          PROVE  Lasting(r, k, Trace(s, r.s.ops)[k].disk)
      <4> DEFINE ops == o1 \o q
      <4>1. r.s.ops = ops /\ k \in 0 .. Len(ops) /\ ops \in Seq(HighOps)
        BY <2>10, <3>3, <3>4
      <4> HIDE DEF ops
      <4>2. BackedUp(Trace(s, ops)[k].disk, checked.ram)
        <5>1. k \in 0 .. Len(ops) /\ ops \in Seq(HighOps)
          BY <4>1
        <5> QED BY ONLY Sound(s), <2>9, <5>1, HighBacked
      <4> QED BY <2>1, <3>1, <4>1, <4>2 DEF Lasting
    <3>5. Settled(r.s)
      <4>1. /\ headed = Write(b, p.at, cells) /\ Sound(headed)
            /\ written = Write(headed, p.at + HeaderLenAt(p.at), DataCells(v, len))
            /\ cells \in Seq(Cells)
        BY <1>9 DEF StorePath
      <4>2. p.at + HeaderLenAt(p.at) + len <= partition_size /\ Len(cells) = HeaderLenAt(p.at)
        BY <1>9 DEF StorePath
      <4>3. HeaderLenAt(p.at) \in Nat /\ MetaLen + HdrLen <= p.at
        BY <1>5, <2>11, Lengths DEF HeaderLenAt
      <4>4. p.at + Len(cells) <= partition_size
        BY ONLY <1>1, <1>4, <4>2, <4>3, Lengths
      <4>5. Settled(headed)
        BY <1>4, <2>1, <2>2, <3>2, <4>1, <4>3, <4>4, WriteHeld
      <4> DEFINE a == p.at + HeaderLenAt(p.at)
                 data == DataCells(v, len)
      <4>6. data \in Seq(Cells) /\ Len(data) = len
        BY <1>1, CellsOf
      <4>7. a \in Nat /\ MetaLen + HdrLen <= a /\ a + len <= partition_size
        BY ONLY <1>1, <1>4, <4>2, <4>3, Lengths DEF a
      <4>8. written = Write(headed, a, data)
        BY <4>1
      <4> HIDE DEF a, data
      <4>9. Settled(written)
        BY <4>1, <4>5, <4>6, <4>7, <4>8, WriteHeld
      <4>10. \/ r.s = headed
             \/ /\ r.s.disk = written.disk /\ r.s.ram.meta = written.ram.meta
                /\ r.s.ram.fhdr = written.ram.fhdr
        BY <1>9, Zenon DEF StorePath
      <4> QED BY <4>5, <4>9, <4>10, SameHeld
    <3> QED BY <3>4, <3>5
  <2>12. CASE p.at = 0
    <3>1. Settled(r.s)
      BY <1>1, <1>9, <2>12, StoreAtZero
    <3>2. PICK o2 : BackupBy(begun, b, o2)
      BY <2>1, BackupMade
    <3>3. /\ o2 \in Seq(Ops) /\ b.ops = begun.ops \o o2
          /\ Trace(begun, o2)[Len(o2)].disk = b.disk
      BY <3>2 DEF BackupBy
    <3>4. written.ops = (o1 \o o2) \o q
      BY <2>1, <2>5, <2>7, <3>3
    <3>5. BackedUp(b.disk, begun.ram)
      <4>1. UnitStart(p.at) = 0
        BY <2>12, PartitionAssumption DEF UnitStart
      <4>2. SwapCells(b.disk) = RamCells(begun.ram)
        BY <2>1, <4>1, BackupMade
      <4>3. b.disk \in [Addresses -> Cells] /\ SwapAddress \in Int
        BY <2>1, Lengths DEF Sound, States
      <4>4. /\ cells = RamCells(begun.ram)
            /\ \A d \in [Addresses -> Cells], x \in Int :
                 ReadCells(d, x, MetaLen + HdrLen) = cells => ValidFirst(d, x)
        BY <1>9, <2>12 DEF StorePath
      <4>5. ReadCells(b.disk, SwapAddress, MetaLen + HdrLen) = cells
        BY <4>2, <4>4 DEF SwapCells
      <4>6. ValidFirst(b.disk, SwapAddress)
        BY <4>3, <4>4, <4>5
      <4> QED BY <4>2, <4>6 DEF BackedUp
    <3>6. ASSUME r.ret = "SUCCESS", NEW k \in 0 .. Len(r.s.ops)
          PROVE  Lasting(r, k, Trace(s, r.s.ops)[k].disk)
      <4> DEFINE d == Trace(s, r.s.ops)[k].disk
      <4>1. r.s.ops = (o1 \o o2) \o q
        BY <2>10, <3>4, <3>6
      <4>2. \/ k < Len(o1) /\ d = Trace(s, o1)[k].disk
            \/ k >= Len(o1) /\ \E j \in 0 .. Len(o2) : d = Trace(begun, o2)[j].disk
            \/ k >= Len(o1) /\ \E j \in 0 .. Len(q) : d = Trace(b, q)[j].disk
        <5>1. Trace(s, o1)[Len(o1)].disk = begun.disk
          BY <2>1, <2>6
        <5>2. k \in 0 .. Len((o1 \o o2) \o q)
          BY <4>1
        <5>3. Sound(begun) /\ Sound(b)
          BY <2>1
        <5>4. LET e == Trace(s, (o1 \o o2) \o q)[k].disk
              IN  \/ k < Len(o1) /\ e = Trace(s, o1)[k].disk
                  \/ k >= Len(o1) /\ \E j \in 0 .. Len(o2) : e = Trace(begun, o2)[j].disk
                  \/ k >= Len(o1) /\ \E j \in 0 .. Len(q) : e = Trace(b, q)[j].disk
          BY ONLY Sound(s), <2>4, <2>8, <3>3, <5>1, <5>2, <5>3, ThreeLegs
        <5> QED BY <4>1, <5>4
      <4>3. r.checked.ops = o1 /\ r.checked.ram = checked.ram /\ r.begun.ram = begun.ram
        BY <2>1, <2>5
      <4>30. k \in Nat /\ Len(o1) \in Nat
        BY <2>4
      <4> HIDE DEF d
      <4>4. CASE k < Len(o1) /\ d = Trace(s, o1)[k].disk
        <5>1. k \in 0 .. Len(o1)
          BY <4>30, <4>4
        <5>2. BackedUp(d, checked.ram)
          BY <2>9, <4>4, <5>1, HighBacked
        <5> QED BY <4>3, <4>4, <5>2 DEF Lasting, d
      <4>5. ASSUME k >= Len(o1), NEW j \in 0 .. Len(o2), d = Trace(begun, o2)[j].disk
            PROVE  Lasting(r, k, d)
        <5>1. ValidFirst(begun.disk, 0)
          BY <2>1, <2>2 DEF Settled
        <5>2. ValidFirst(d, 0)
          BY <2>1, <3>2, <4>5, <5>1, BackupBeside
        <5> QED BY <5>2 DEF Lasting
      <4>6. ASSUME k >= Len(o1), NEW j \in 0 .. Len(q), d = Trace(b, q)[j].disk
            PROVE  Lasting(r, k, d)
        <5>1. BackedUp(d, begun.ram)
          BY <2>1, <3>5, <4>6, HighBacked
        <5>2. ~(k < Len(o1))
          BY <4>30, <4>6
        <5> QED BY <4>3, <5>1, <5>2 DEF Lasting
      <4> QED BY <4>2, <4>4, <4>5, <4>6 DEF d
    <3> QED BY <3>1, <3>6
  <2> QED BY <2>11, <2>12
<1> QED BY <1>2, <1>8, <1>9

(* A store that returns NRF_SUCCESS leaves an element; one that stops on   *)
(* the way leaves the library's view of whether there is one as it was.    *)
LEMMA StoreHas ==
  ASSUME NEW s, Sound(s), NEW v \in Nat, NEW len \in Lens
  PROVE  LET r == StoreElement(s, v, len)
         IN  /\ r.ret = "SUCCESS" => /\ r.s.ram.has
                                     /\ r.checked.ram.has = s.ram.has
                                     /\ r.begun.ram.has = s.ram.has
             /\ r.ret # "SUCCESS" => r.s.ram.has = s.ram.has
<1> DEFINE p == Placement(s.ram, len)
           r == StoreElement(s, v, len)
           c == CheckValidity(s)
<1> SUFFICES /\ r.ret = "SUCCESS" => /\ r.s.ram.has
                                     /\ r.checked.ram.has = s.ram.has
                                     /\ r.begun.ram.has = s.ram.has
             /\ r.ret # "SUCCESS" => r.s.ram.has = s.ram.has
  OBVIOUS
<1>1. \/ r.ret # "SUCCESS" /\ r.s \in {s, c.s}
      \/ \E checked, begun, cells, b, headed, written :
           StorePath(s, v, len, p, r, checked, begun, cells, b, headed, written)
  BY StoreGoes
<1>2. c.s.ram.has = s.ram.has
  BY CheckValidityType DEF Checked, SameButMeta
<1> HIDE DEF p, r, c
<1>3. ASSUME NEW checked, NEW begun, NEW cells, NEW b, NEW headed, NEW written,
             StorePath(s, v, len, p, r, checked, begun, cells, b, headed, written)
      PROVE  /\ r.ret = "SUCCESS" => /\ r.s.ram.has
                                     /\ r.checked.ram.has = s.ram.has
                                     /\ r.begun.ram.has = s.ram.has
             /\ r.ret # "SUCCESS" => r.s.ram.has = s.ram.has
  <2>1. /\ r.checked = checked /\ r.begun = begun
        /\ checked.ram.has = s.ram.has /\ begun.ram.has = checked.ram.has
        /\ headed.ram = begun.ram
        /\ (r.ret = "INTERNAL" /\ r.s = headed) \/ (r.ret = "SUCCESS" /\ r.s.ram.has)
    BY <1>3, Zenon DEF StorePath
  <2> QED BY <2>1
<1>4. CASE r.ret # "SUCCESS" /\ r.s \in {s, c.s}
  BY <1>2, <1>4
<1> QED BY <1>1, <1>3, <1>4

(* The first element of an empty partition goes to its start. *)
LEMMA StoreOnEmpty ==
  ASSUME NEW s, Sound(s), ~s.ram.has, NEW v \in Nat, NEW len \in Lens,
         StoreElement(s, v, len).ret = "SUCCESS"
  PROVE  Settled(StoreElement(s, v, len).s)
<1> DEFINE p == Placement(s.ram, len)
           r == StoreElement(s, v, len)
<1>1. len \in 0 .. 3
  BY PlacementType DEF Sound, States
<1>2. p.at = 0
  BY DEF Placement
<1>3. \E checked, begun, cells, b, headed, written :
        StorePath(s, v, len, p, r, checked, begun, cells, b, headed, written)
  BY StoreGoes
<1>4. r.ret = "SUCCESS"
  OBVIOUS
<1> HIDE DEF p, r
<1>5. Settled(r.s)
  BY <1>1, <1>2, <1>3, StoreAtZero
<1> QED BY <1>5 DEF r

(* filesystem_register_partition holds a first header if it finds one. *)
LEMMA RegisterHeld ==
  ASSUME NEW s, Sound(s), ValidFirst(s.disk, 0) \/ ValidFirst(s.disk, SwapAddress)
  PROVE  Held(RegisterPartition(s))
<1> DEFINE fresh == [has |-> FALSE, laddr |-> 0, lid |-> 1, llen |-> 0,
                     meta |-> [NoMeta EXCEPT !.flen = IF is_dynamic THEN 0 ELSE element_len],
                     fhdr |-> s.ram.fhdr]
           t == [s EXCEPT !.ram = fresh]
           r == ReadElementHeader(t, 0)
           l == FindLatest(r.s)
           done == [l.s EXCEPT !.ram = [l.s.ram EXCEPT !.has = TRUE, !.laddr = l.addr,
                                                       !.lid = l.id, !.llen = l.len]]
<1>1. fresh \in Rams /\ ~fresh.has
  BY Lengths, PartitionAssumption DEF Rams, Metas, NoMeta, Sound, States
<1>2. Sound(t) /\ t.disk = s.disk
  <2> HIDE DEF fresh
  <2> QED BY <1>1 DEF Sound, States, RamInside
<1>3. RegisterPartition(s) = IF r.ret = "SUCCESS" THEN done ELSE r.s
  BY Zenon DEF RegisterPartition
<1> HIDE DEF t
<1>4. ReadFrom(t, r.s)
  BY <1>2, ReadElementHeaderType
<1>5. ValidFirst(r.s.disk, 0)
  BY <1>2, ReadFirst
<1> HIDE DEF r
<1>6. r.s \in HeldStates /\ Held(r.s)
  BY <1>4, <1>5, HeldClosed DEF Held, ReadFrom
<1>7. l.s \in HeldStates
  BY <1>6, HeldClosed, FindLatestClosed
<1> HIDE DEF l
<1>8. Held(l.s) /\ Sound(l.s)
  BY <1>7, HeldClosed
<1>9. /\ done.disk = l.s.disk /\ done.ram.meta = l.s.ram.meta
      /\ done.ram.fhdr = l.s.ram.fhdr
  BY <1>8 DEF Sound, States, Rams
<1> HIDE DEF done
<1>10. Held(done)
  BY <1>8, <1>9, SameHeld
<1> QED BY <1>3, <1>6, <1>10

(* An erased storage has no first header. *)
LEMMA ErasedEmpty ==
  ASSUME NEW d, d = [a \in Addresses |-> Blank]
  PROVE  ~ValidFirst(d, 0) /\ ~ValidFirst(d, SwapAddress)
<1>1. ASSUME NEW x \in Int, ValidFirst(d, x) PROVE FALSE
  <2> DEFINE m == MetaAt(d, x)
             h == HeaderAt(d, x + MetaLen)
  <2>1. ReadCells(d, x, MetaLen + HdrLen) = MetaCells(m) \o HeaderCells(h)
    BY <1>1 DEF ValidFirst
  <2> HIDE DEF h, m
  <2>2. (MetaCells(m) \o HeaderCells(h))[1] = Cell("mcrc", m.crc)
    <3> DEFINE f == HeaderCells(h)
               S == {Cell("mcrc", m.crc), Cell("flen", m.flen), Cell("last", m.last),
                     Cell("id", h.id), Cell("xor", h.xor), Cell("crc", h.crc)}
    <3>1. f \in Seq(S)
      <4> DEFINE a == Cell("id", h.id)
                 e == Cell("xor", h.xor)
                 c == Cell("crc", h.crc)
      <4>1. a \in S /\ e \in S /\ c \in S
        OBVIOUS
      <4>2. f = <<a>> \o (IF is_dynamic THEN <<e>> ELSE << >>)
                      \o (IF has_element_crc THEN <<c>> ELSE << >>)
        BY DEF HeaderCells
      <4> HIDE DEF a, e, c, S, f
      <4>3. /\ <<a>> \in Seq(S)
            /\ (IF is_dynamic THEN <<e>> ELSE << >>) \in Seq(S)
            /\ (IF has_element_crc THEN <<c>> ELSE << >>) \in Seq(S)
        BY <4>1
      <4> QED BY <4>2, <4>3
    <3> HIDE DEF f
    <3> QED BY <3>1 DEF MetaCells
  <2>3. ReadCells(d, x, MetaLen + HdrLen)[1] = Read(d, x + 1 - 1)
    BY Lengths DEF ReadCells
  <2>4. Read(d, x + 1 - 1) = Blank
    BY DEF Read
  <2>5. Blank # Cell("mcrc", m.crc)
    BY DEF Blank, Cell
  <2> QED BY <2>1, <2>2, <2>3, <2>4, <2>5
<1>2. 0 \in Int /\ SwapAddress \in Int
  BY Lengths
<1> QED BY <1>1, <1>2

(* The invariant for a single fault.  Until the fault both copies of the   *)
(* first header are valid; afterwards one is, or the backup is the one     *)
(* that RAM would write.  Before the first registration there is nothing.  *)
Lasts ==
  /\ FsInv
  /\ crashes \in Nat /\ fails \in Nat
  /\ mode = "up" /\ stored # {} => ram.has
  /\ mode = "up" /\ ram.has => Held(Now)
  /\ mode = "up" /\ ram.has /\ crashes + fails = 0 => Settled(Now)
  /\ mode = "down" /\ stored # {} => ValidFirst(disk, 0) \/ ValidFirst(disk, SwapAddress)
  /\ mode = "down" /\ crashes + fails = 0 =>
       stored = {} /\ ~ValidFirst(disk, 0) /\ ~ValidFirst(disk, SwapAddress)

(* At most one power failure or storage error. *)
OneFault == MaxFaults \in {0, 1}

(* Valid copies are held. *)
LEMMA SettledHeld ==
  ASSUME NEW s, Settled(s)
  PROVE  Held(s)
BY DEF Settled, Held

(* What a step leads to holds of the state it leads to. *)
LEMMA BecomeHeld ==
  ASSUME NEW t, Become(t)
  PROVE  (Held(Now)' <=> Held(t)) /\ (Settled(Now)' <=> Settled(t))
<1>1. Now'.disk = t.disk /\ Now'.ram = t.ram
  BY DEF Become, Now
<1>2. (Held(Now') <=> Held(t)) /\ (Settled(Now') <=> Settled(t))
  BY <1>1, SameHeld
<1> QED BY <1>2

(* filesystem_register_partition preserves the invariant. *)
LEMMA RegisterLasts ==
  ASSUME Lasts, Register
  PROVE  Lasts'
<1> DEFINE r == RegisterPartition(Now)
<1>1. FsInv'
  BY RegisterInv DEF Lasts
<1>2. /\ mode = "down" /\ mode' = "up" /\ ram' = r.ram /\ Become(r)
      /\ stored' = stored /\ crashes' = crashes /\ fails' = fails
  BY DEF Register, Become, ghosts, bounds
<1>3. Sound(Now)
  BY DEF Lasts, FsInv
<1>4. r.ram.has <=> ValidFirst(disk, 0) \/ ValidFirst(disk, SwapAddress)
  BY <1>3, NowFields, RegisterHas
<1>5. r.ram.has => Held(r)
  BY <1>3, <1>4, NowFields, RegisterHeld
<1> HIDE DEF r
<1>6. ram'.has => Held(Now)'
  BY <1>2, <1>5, BecomeHeld
<1>7. stored' # {} => ram'.has
  BY <1>2, <1>4 DEF Lasts
<1>8. ~(ram'.has /\ crashes' + fails' = 0)
  BY <1>2, <1>4 DEF Lasts
<1> QED BY <1>1, <1>2, <1>6, <1>7, <1>8 DEF Lasts

(* The power fails during the registration: nothing was stored yet. *)
LEMMA RegisterCrashLasts ==
  ASSUME OneFault, Lasts, RegisterCrash
  PROVE  Lasts'
<1>1. FsInv'
  BY RegisterCrashInv DEF Lasts
<1>2. /\ mode = "down" /\ mode' = "down" /\ stored' = stored
      /\ crashes' = crashes + 1 /\ fails' = fails /\ crashes + fails < MaxFaults
  BY DEF RegisterCrash, MayCrash, ghosts
<1>3. crashes \in Nat /\ fails \in Nat
  BY DEF Lasts
<1>4. crashes + fails = 0 /\ crashes' + fails' # 0 /\ crashes' \in Nat /\ fails' \in Nat
  BY <1>2, <1>3 DEF OneFault
<1>5. stored' = {}
  BY <1>2, <1>4 DEF Lasts
<1> QED BY <1>1, <1>2, <1>4, <1>5 DEF Lasts

(* filesystem_store_element preserves the invariant. *)
LEMMA StoreLasts ==
  ASSUME Lasts, NEW len \in Lens, Store(len)
  PROVE  Lasts'
<1> DEFINE r == StoreElement(Now, attempts + 1, len)
<1>1. FsInv'
  BY StoreInv DEF Lasts
<1>2. /\ mode = "up" /\ mode' = "up" /\ ram' = r.s.ram /\ Become(r.s)
      /\ r.ret # "SUCCESS" => stored' = stored
      /\ crashes' = crashes /\ fails' = fails
  BY DEF Store, MayStore, Become, bounds
<1>3. Sound(Now) /\ attempts + 1 \in Nat /\ Now.ram = ram /\ Now.ops = << >>
  BY NowFields DEF Lasts, FsInv
<1>4. /\ r.ret = "SUCCESS" => r.s.ram.has
      /\ r.ret # "SUCCESS" => r.s.ram.has = ram.has
  BY <1>3, StoreHas
<1>5. Held(Now) => Held(r.s)
  BY <1>3, StoreHeld
<1>6. Settled(Now) => Settled(r.s)
  BY <1>3, StoreSettled
<1>7. ~ram.has /\ r.ret = "SUCCESS" => Settled(r.s)
  BY <1>3, StoreOnEmpty
<1> HIDE DEF r
<1>8. stored' # {} => ram'.has
  BY <1>2, <1>4 DEF Lasts
<1>9. r.s.ram.has => Held(r.s)
  BY <1>2, <1>4, <1>5, <1>7, SettledHeld DEF Lasts
<1>10. r.s.ram.has /\ crashes + fails = 0 => Settled(r.s)
  BY <1>2, <1>4, <1>6, <1>7 DEF Lasts
<1>11. (Held(Now)' <=> Held(r.s)) /\ (Settled(Now)' <=> Settled(r.s))
  BY <1>2, BecomeHeld
<1> QED BY <1>1, <1>2, <1>8, <1>9, <1>10, <1>11 DEF Lasts

(* What a store that will not end begins with. *)
LEMMA FaultBegins ==
  ASSUME OneFault, Lasts, NEW len \in Lens, MayStore(len), crashes + fails < MaxFaults
  PROVE  /\ Sound(Now) /\ attempts + 1 \in Nat
         /\ mode = "up" /\ crashes \in Nat /\ fails \in Nat
         /\ crashes + fails = 0
         /\ stored # {} => ram.has
         /\ ram.has => Settled(Now)
<1>1. Sound(Now) /\ attempts + 1 \in Nat /\ crashes \in Nat /\ fails \in Nat
  BY DEF Lasts, FsInv
<1>2. mode = "up"
  BY DEF MayStore
<1>3. crashes + fails = 0
  BY <1>1 DEF OneFault
<1> QED BY <1>1, <1>2, <1>3 DEF Lasts

(* A storage error preserves the invariant: what is left of the first      *)
(* header is valid, or the backup is the one that RAM would write.         *)
LEMMA StoreFailsLasts ==
  ASSUME OneFault, Lasts, NEW len \in Lens, StoreFails(len)
  PROVE  Lasts'
<1> DEFINE r == StoreElement(Now, attempts + 1, len)
           ops == r.s.ops
           q(k) == IF k < Len(r.checked.ops) THEN r.checked.ram ELSE r.begun.ram
           Left(k) == [Trace(Now, ops)[k] EXCEPT
                         !.it = r.s.it,
                         !.ram = IF k < Len(r.checked.ops) THEN r.checked.ram
                                                           ELSE r.begun.ram]
<1>1. FsInv'
  BY StoreFailsInv DEF Lasts
<1>2. /\ Sound(Now) /\ attempts + 1 \in Nat
      /\ mode = "up" /\ crashes \in Nat /\ fails \in Nat
      /\ stored # {} => ram.has
      /\ ram.has => Settled(Now)
  BY FaultBegins DEF StoreFails
<1>3. PICK k \in 0 .. Len(ops) : Become(Left(k))
  BY Zenon DEF StoreFails
<1>4. r.ret = "SUCCESS"
  BY DEF StoreFails
<1>5. /\ r.checked.ram.has = ram.has
      /\ r.begun.ram.has = ram.has
  BY <1>2, <1>4, NowFields, StoreHas
<1>6. Settled(Now) => Lasting(r, k, Trace(Now, ops)[k].disk)
  BY <1>2, <1>4, NowFields, StoreSettled
<1>7. disk' = Trace(Now, ops)[k].disk /\ ram' = q(k)
  <2>1. r.s.ops \in Seq(Ops)
    BY <1>2, StoreElementType DEF Sound, States
  <2> DEFINE t == Trace(Now, ops)[k]
  <2>2. t \in States
    BY <1>2, <2>1, TraceType DEF Sound
  <2> HIDE DEF t
  <2>3. Left(k) = [t EXCEPT !.it = r.s.it, !.ram = q(k)]
    BY DEF t
  <2> HIDE DEF q, Left, r
  <2>4. Left(k).disk = t.disk /\ Left(k).ram = q(k)
    BY <2>2, <2>3 DEF States
  <2> QED BY <1>3, <2>4 DEF Become, t
<1>8. /\ mode' = "up" /\ stored' = stored /\ fails' = fails + 1 /\ crashes' = crashes
  BY <1>2 DEF StoreFails
<1> HIDE DEF Left, r, ops
<1>9. ram'.has = ram.has
  BY <1>5, <1>7
<1>10. ram.has => ValidFirst(disk', 0) \/ BackedUp(disk', ram')
  BY <1>2, <1>6, <1>7 DEF Lasting
<1>11. ram.has => Held(Now)'
  <2>1. Now'.disk = disk' /\ Now'.ram = ram'
    BY DEF Now
  <2>2. ram.has => Held(Now')
    BY <1>10, <2>1 DEF Held
  <2> QED BY <2>2
<1>12. crashes' + fails' # 0 /\ crashes' \in Nat /\ fails' \in Nat
  BY <1>2, <1>8
<1> QED BY <1>1, <1>2, <1>8, <1>9, <1>11, <1>12 DEF Lasts

(* A power failure preserves the invariant: the first header or its backup *)
(* is left.                                                                *)
LEMMA StoreCrashLasts ==
  ASSUME OneFault, Lasts, NEW len \in Lens, StoreCrash(len)
  PROVE  Lasts'
<1> DEFINE r == StoreElement(Now, attempts + 1, len)
           ops == r.s.ops
<1>1. FsInv'
  BY StoreCrashInv DEF Lasts
<1>2. /\ Sound(Now) /\ attempts + 1 \in Nat
      /\ mode = "up" /\ crashes \in Nat /\ fails \in Nat
      /\ stored # {} => ram.has
      /\ ram.has => Settled(Now)
  BY FaultBegins DEF StoreCrash, MayCrash
<1>3. PICK k \in 0 .. Len(ops) : Become(PowerLost(Trace(Now, ops)[k].disk))
  BY DEF StoreCrash
<1>4. r.ret = "SUCCESS"
  BY DEF StoreCrash
<1>5. Settled(Now) => Lasting(r, k, Trace(Now, ops)[k].disk)
  BY <1>2, <1>4, NowFields, StoreSettled
<1> HIDE DEF r, ops
<1>6. /\ disk' = Trace(Now, ops)[k].disk /\ mode' = "down" /\ stored' = stored
      /\ crashes' = crashes + 1 /\ fails' = fails
  BY <1>3 DEF Become, PowerLost, StoreCrash
<1>7. stored' # {} => ValidFirst(disk', 0) \/ ValidFirst(disk', SwapAddress)
  BY <1>2, <1>5, <1>6 DEF Lasting, BackedUp
<1>8. crashes' + fails' # 0 /\ crashes' \in Nat /\ fails' \in Nat
  BY <1>2, <1>6
<1> QED BY <1>1, <1>6, <1>7, <1>8 DEF Lasts

(* filesystem_clear_partition preserves the invariant: nothing is stored   *)
(* afterwards.                                                             *)
LEMMA ClearLasts ==
  ASSUME Lasts, Clear
  PROVE  Lasts'
<1>1. FsInv'
  BY ClearInv DEF Lasts
<1>2. Sound(ClearPartition(Now)) /\ ~ClearPartition(Now).ram.has
  BY ClearPartitionType DEF Lasts, FsInv
<1>3. stored' = {} /\ mode' = "up" /\ ~ram'.has /\ crashes' = crashes /\ fails' = fails
  BY <1>2 DEF Clear, Become
<1> QED BY <1>1, <1>3 DEF Lasts

(* So does a power failure during it. *)
LEMMA ClearCrashLasts ==
  ASSUME Lasts, ClearCrash
  PROVE  Lasts'
<1>1. FsInv'
  BY ClearCrashInv DEF Lasts
<1>2. stored' = {} /\ mode' = "down" /\ crashes' = crashes + 1 /\ fails' = fails
  BY DEF ClearCrash
<1>3. crashes' + fails' # 0 /\ crashes' \in Nat /\ fails' \in Nat
  BY <1>2 DEF Lasts
<1> QED BY <1>1, <1>2, <1>3 DEF Lasts

(* A step that changes nothing preserves the invariant. *)
LEMMA StutterLasts ==
  ASSUME Lasts, UNCHANGED vars
  PROVE  Lasts'
<1>1. FsInv'
  BY StutterInv DEF Lasts
<1>2. /\ mode' = mode /\ disk' = disk /\ ram' = ram /\ stored' = stored
      /\ track' = track /\ it' = it /\ crashes' = crashes /\ fails' = fails
  BY DEF vars, libvars, ghosts, bounds
<1>3. Become(Now)
  BY <1>2, NowFields DEF Become
<1>4. (Held(Now)' <=> Held(Now)) /\ (Settled(Now)' <=> Settled(Now))
  BY <1>3, BecomeHeld
<1> QED BY <1>1, <1>2, <1>4 DEF Lasts

(* Every step of the filesystem preserves the invariant. *)
LEMMA NextLasts ==
  ASSUME OneFault, Lasts, [Next]_vars
  PROVE  Lasts'
BY RegisterLasts, RegisterCrashLasts, StoreLasts, StoreFailsLasts,
   StoreCrashLasts, ClearLasts, ClearCrashLasts, StutterLasts DEF Next

(* The invariant holds initially. *)
LEMMA InitLasts == Init => Lasts
<1> SUFFICES ASSUME Init PROVE Lasts
  OBVIOUS
<1>1. FsInv
  BY InitInv
<1>2. ~ValidFirst(disk, 0) /\ ~ValidFirst(disk, SwapAddress)
  BY ErasedEmpty DEF Init
<1> QED BY <1>1, <1>2 DEF Init, Lasts

(* The invariant says what the next power-up finds. *)
LEMMA LastsReboot == Lasts => PartitionSurvives
<1> SUFFICES ASSUME Lasts, stored # {} PROVE AfterReboot.ram.has
  BY DEF PartitionSurvives
<1>1. Held(Now) => ValidFirst(disk, 0) \/ ValidFirst(disk, SwapAddress)
  BY NowFields DEF Held, BackedUp
<1>2. ValidFirst(disk, 0) \/ ValidFirst(disk, SwapAddress)
  BY <1>1 DEF Lasts, FsInv
<1>3. Sound(Now)
  BY DEF Lasts, FsInv
<1>4. Sound(PowerLost(disk)) /\ PowerLost(disk).disk = disk
  BY <1>3, NowFields, PowerLostType DEF PowerLost
<1> QED BY <1>2, <1>4, RegisterHas DEF AfterReboot

(* On any device, flash included: the head of a partition that holds an    *)
(* element survives one power failure or storage error, at any operation   *)
(* of the device.  Until then both copies of the first header are valid    *)
(* and RAM has them; what the fault leaves is a valid first header or a    *)
(* backup that the next filesystem_backup_first_element_header does not    *)
(* write again.  (With a second fault the head in flash is lost: run       *)
(* filesystem_reboot.)                                                     *)
THEOREM FilesystemOneFault ==
  ASSUME OneFault
  PROVE  Spec => []PartitionSurvives
<1>1. Lasts /\ [Next]_vars => Lasts'
  BY NextLasts
<1>2. Spec => []Lasts
  BY <1>1, InitLasts, PTL DEF Spec
<1> QED BY <1>2, LastsReboot, PTL

(* A call that only reads keeps what is held, and changes nothing as long  *)
(* as nothing failed.                                                      *)
LEMMA ReadLasts ==
  ASSUME Lasts, NEW t, Become(t), Checked(Now, t),
         Held(Now) => Held(t), Settled(Now) => Settled(t),
         mode = "up", mode' = mode, stored' = stored, attempts' = attempts,
         crashes' = crashes, fails' = fails
  PROVE  Lasts'
<1>0. Sound(Now) /\ mode \in {"down", "up"} /\ attempts \in Nat
  BY DEF Lasts, FsInv
<1>1. FsInv'
  <2>1. Sound(Now)'
    BY BecomeSound DEF Checked
  <2> QED BY <1>0, <2>1 DEF FsInv
<1>2. ram'.has = ram.has
  BY NowFields DEF Become, Checked, SameButMeta
<1>3. (Held(Now)' <=> Held(t)) /\ (Settled(Now)' <=> Settled(t))
  BY BecomeHeld
<1> QED BY <1>1, <1>2, <1>3 DEF Lasts

(* A read that stays in every closed set is such a call. *)
LEMMA ClosedLasts ==
  ASSUME NEW s, Sound(s), NEW t, \A K : Closed(K) /\ s \in K => t \in K
  PROVE  (Held(s) => Held(t)) /\ (Settled(s) => Settled(t))
<1>1. Held(s) => Held(t)
  BY HeldClosed
<1>2. ASSUME Settled(s) PROVE Settled(t)
  <2>1. t \in SameStates(s)
    BY <1>2, SameClosed
  <2>2. SameStorage(t, s)
    BY <1>2, <2>1, SameClosed
  <2>3. t.disk = s.disk /\ t.ram = s.ram
    BY <2>2 DEF SameStorage
  <2> QED BY <1>2, <2>3, SameHeld
<1> QED BY <1>1, <1>2

(* Every step of the storer preserves the invariant. *)
LEMMA StorerNextLasts ==
  ASSUME OneFault, Lasts, [StorerNext]_storervars
  PROVE  Lasts'
<1>0. Sound(Now)
  BY DEF Lasts, FsInv
<1>1. ASSUME NEW stamp \in Requested, FindChunkFromTimestamp(stamp) PROVE Lasts'
  <2> DEFINE t == FindChunk(Now, stamp).s
  <2>1. Become(t) /\ mode = "up" /\ mode' = mode /\ stored' = stored
        /\ attempts' = attempts /\ crashes' = crashes /\ fails' = fails
    BY <1>1 DEF FindChunkFromTimestamp, ghosts, bounds
  <2>2. Checked(Now, t)
    BY <1>0, FindChunkType
  <2>3. \A K : Closed(K) /\ Now \in K => t \in K
    BY FindChunkClosed
  <2> HIDE DEF t
  <2>4. (Held(Now) => Held(t)) /\ (Settled(Now) => Settled(t))
    BY <1>0, <2>3, ClosedLasts
  <2> QED BY <2>1, <2>2, <2>4, ReadLasts
<1>2. CASE GetNextChunkCall
  <2> DEFINE t == GetNextChunk(Now, found_timestamp).s
  <2>1. Become(t) /\ mode = "up" /\ mode' = mode /\ stored' = stored
        /\ attempts' = attempts /\ crashes' = crashes /\ fails' = fails
    BY <1>2 DEF GetNextChunkCall, ghosts, bounds
  <2>2. Checked(Now, t)
    BY <1>0, GetNextChunkType
  <2>3. \A K : Closed(K) /\ Now \in K => t \in K
    BY GetNextChunkClosed
  <2> HIDE DEF t
  <2>4. (Held(Now) => Held(t)) /\ (Settled(Now) => Settled(t))
    BY <1>0, <2>3, ClosedLasts
  <2> QED BY <2>1, <2>2, <2>4, ReadLasts
<1>3. CASE InvalidateIterators
  <2> DEFINE t == Invalidated(Now)
  <2>1. Become(t) /\ mode = "up" /\ mode' = mode /\ stored' = stored
        /\ attempts' = attempts /\ crashes' = crashes /\ fails' = fails
    BY <1>3 DEF InvalidateIterators, ghosts, bounds
  <2>2. Checked(Now, t)
    BY <1>0, InvalidatedType DEF Checked, SameButMeta
  <2>3. \A K : Closed(K) /\ Now \in K => t \in K
    BY InvalidatedClosed
  <2> HIDE DEF t
  <2>4. (Held(Now) => Held(t)) /\ (Settled(Now) => Settled(t))
    BY <1>0, <2>3, ClosedLasts
  <2> QED BY <2>1, <2>2, <2>4, ReadLasts
<1>4. CASE Next
  BY <1>4, NextLasts
<1>5. CASE UNCHANGED storervars
  BY <1>5, StutterLasts DEF storervars
<1> QED BY <1>1, <1>2, <1>3, <1>4, <1>5 DEF StorerNext, Next

(* The same with storer_lib.c on top: as long as nothing failed its reads  *)
(* (storer_find_*_chunk_from_timestamp, storer_get_next_*_chunk) write     *)
(* nothing, and after the fault they restore the first header at most.     *)
THEOREM StorerOneFault ==
  ASSUME OneFault
  PROVE  StorerSpec => []PartitionSurvives
<1>1. StorerInit => Lasts
  BY InitLasts DEF StorerInit
<1>2. Lasts /\ [StorerNext]_storervars => Lasts'
  BY StorerNextLasts
<1>3. StorerSpec => []Lasts
  BY <1>1, <1>2, PTL DEF StorerSpec
<1> QED BY <1>3, LastsReboot, PTL
=============================================================================
