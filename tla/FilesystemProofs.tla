-------------------------- MODULE FilesystemProofs --------------------------
(***************************************************************************)
(* The partition of filesystem_lib.c, alone and under storer_lib.c, proved *)
(* for every partition that filesystem_register_partition accepts: the     *)
(* library stays inside its partition (any device), and in EEPROM the head *)
(* of a partition that holds an element survives any number of power       *)
(* failures and storage errors.                                            *)
(***************************************************************************)
EXTENDS Storer, WellFoundedInduction, TLAPS

(* A nonempty set of naturals has a least element. *)
LEMMA LeastNat ==
  ASSUME NEW T, T \subseteq Nat, T # {}
  PROVE  \E n \in T : \A m \in T : n <= m
<1>1. PICK x \in T : \A y \in T : ~(<<y, x>> \in OpToRel(<, Nat))
  BY WFMin, NatLessThanWellFounded
<1>2. \A y \in T : y < x => <<y, x>> \in OpToRel(<, Nat)
  BY DEF OpToRel
<1>3. \A y \in T : ~(y < x)
  BY ONLY <1>1, <1>2, Zenon
<1>4. \A y \in T : x <= y
  BY <1>3, x \in Nat, T \subseteq Nat
<1> QED BY <1>4

(* Induction over the naturals for a set, by its least counterexample: the *)
(* library states it for an operator, which the provers cannot             *)
(* instantiate.                                                            *)
LEMMA SetInduction ==
  ASSUME NEW T, 0 \in T, \A n \in Nat : n \in T => n + 1 \in T
  PROVE  Nat \subseteq T
<1>1. SUFFICES ASSUME Nat \ T # {} PROVE FALSE
  OBVIOUS
<1>2. PICK n \in Nat \ T : \A m \in Nat \ T : n <= m
  BY <1>1, LeastNat
<1>3. n # 0 /\ n - 1 \in Nat /\ n - 1 < n
  BY <1>2
<1>4. n - 1 \in T
  BY <1>2, <1>3
<1> QED BY <1>2, <1>3, <1>4

(* f holds the states the first m operations lead through. *)
IsTrace(f, s, ops, m) ==
  f = [k \in 0 .. m |-> IF k = 0 THEN s ELSE Apply(f[k - 1], ops[k])]

(* The recursion in Trace has a solution. *)
LEMMA TraceExists ==
  ASSUME NEW s, NEW ops, NEW m \in Nat
  PROVE  \E f : IsTrace(f, s, ops, m)
<1> DEFINE T == {n \in Nat : \E f : IsTrace(f, s, ops, n)}
<1>1. 0 \in T
  <2> DEFINE f == [k \in 0 .. 0 |-> s]
  <2>1. IsTrace(f, s, ops, 0)
    BY DEF IsTrace
  <2> HIDE DEF f
  <2> QED BY <2>1, Zenon
<1>2. ASSUME NEW n \in Nat, n \in T PROVE n + 1 \in T
  <2>1. PICK f : IsTrace(f, s, ops, n)
    BY <1>2
  <2> DEFINE g == [k \in 0 .. n + 1 |-> IF k <= n THEN f[k] ELSE Apply(f[n], ops[n + 1])]
  <2>2. \A k \in 0 .. n + 1 : g[k] = IF k = 0 THEN s ELSE Apply(g[k - 1], ops[k])
    <3> SUFFICES ASSUME NEW k \in 0 .. n + 1
                 PROVE  g[k] = IF k = 0 THEN s ELSE Apply(g[k - 1], ops[k])
      OBVIOUS
    <3>1. CASE k = 0
      BY <2>1, <3>1 DEF IsTrace
    <3>2. CASE k \in 1 .. n
      <4>1. g[k] = f[k] /\ g[k - 1] = f[k - 1] /\ k \in 0 .. n /\ k # 0
        BY <3>2
      <4>2. f[k] = Apply(f[k - 1], ops[k])
        BY <2>1, <4>1 DEF IsTrace
      <4> QED BY <4>1, <4>2
    <3>3. CASE k = n + 1
      <4>1. g[k] = Apply(f[n], ops[n + 1]) /\ g[k - 1] = f[n] /\ k # 0
        BY <3>3
      <4> QED BY <4>1, <3>3
    <3> QED BY <3>1, <3>2, <3>3
  <2>3. IsTrace(g, s, ops, n + 1)
    BY <2>2 DEF IsTrace
  <2>4. n + 1 \in Nat
    OBVIOUS
  <2> HIDE DEF g
  <2> QED BY <2>3, <2>4, Zenon
<1> HIDE DEF T
<1>3. Nat \subseteq T
  BY <1>1, <1>2, SetInduction
<1> USE DEF T
<1> QED BY <1>3

(* Trace is the trace of all the operations. *)
LEMMA TraceDef ==
  ASSUME NEW s, NEW ops, Len(ops) \in Nat
  PROVE  /\ Trace(s, ops)[0] = s
         /\ \A k \in 1 .. Len(ops) :
              Trace(s, ops)[k] = Apply(Trace(s, ops)[k - 1], ops[k])
<1>1. Trace(s, ops) = CHOOSE f : IsTrace(f, s, ops, Len(ops))
  BY Zenon DEF Trace, IsTrace
<1>2. \E f : IsTrace(f, s, ops, Len(ops))
  BY TraceExists
<1>3. IsTrace(Trace(s, ops), s, ops, Len(ops))
  BY <1>1, <1>2, Zenon
<1> QED BY <1>3 DEF IsTrace
-----------------------------------------------------------------------------
(* Types. *)

FirstLens == {n \in 0 .. 3 : MetaLen + HdrLen + n <= partition_size}

Tags == {"blank", "junk", "mcrc", "flen", "last", "id", "xor", "crc", "data"}

Cells ==
  {c \in [t : Tags, n : Nat] :
     /\ c.t = "id" => c.n <= MaxId
     /\ c.t = "xor" => c.n <= 3
     /\ c.t = "flen" => c.n \in FirstLens}

Headers == [id : 0 .. MaxId, xor : 0 .. 3, crc : Nat]
Metas == [crc : Nat, flen : FirstLens, last : Nat]
Rams == [has : BOOLEAN, laddr : Nat, lid : 0 .. MaxId, llen : 0 .. 3,
         meta : Metas, fhdr : Headers]
Iterators == [valid : BOOLEAN, addr : Nat, len : 0 .. 3, hdr : Headers]

Tracks == SUBSET (0 .. partition_size - 1)
Ops == [k : {"put"}, at : SwapAddress .. partition_size - 1, cell : Cells]
       \cup [k : {"erase"}, at : Int]
       \cup [k : {"track"}, set : Tracks]

(* Operations on the partition, not on the swap page. *)
HighOps == {op \in Ops : op.k = "put" => op.at >= 0}

States == [disk : [Addresses -> Cells], track : Tracks, ram : Rams,
           it : Iterators, ops : Seq(Ops)]

TailBlank(d) == \A a \in partition_size .. partition_size + HdrLen - 1 : d[a] = Blank

RamInside(r) ==
  r.has => /\ r.laddr + HeaderLenAt(r.laddr) + r.llen <= partition_size
           /\ r.laddr = 0 \/ MetaLen + HdrLen <= r.laddr

IteratorInside(i) == i.valid => i.addr + HdrLen + i.len <= partition_size

(* A state of the library that is of its type, with the latest element and *)
(* the iterator inside the partition.                                      *)
Sound(s) ==
  /\ s \in States
  /\ TailBlank(s.disk)
  /\ RamInside(s.ram)
  /\ IteratorInside(s.it)

(* The lengths of the headers, as the partition assumption bounds them. *)
LEMMA Lengths ==
  /\ MetaLen = 3
  /\ HdrLen \in 1 .. 3
  /\ partition_size \in Nat
  /\ MetaLen + HdrLen <= partition_size
  /\ SwapAddress = -(3 + HdrLen)
  /\ element_len \in FirstLens
  /\ 0 \in FirstLens
BY PartitionAssumption DEF MetaLen, HdrLen, Flag, SwapAddress, FirstLens

(* An erased cell and a half-programmed cell are cells. *)
LEMMA BlankType == Blank \in Cells /\ Junk \in Cells
BY DEF Blank, Junk, Cell, Cells, Tags

(* A device operation inside the partition or the swap page keeps a state  *)
(* of its type, and leaves everything in RAM alone.                        *)
LEMMA ApplyType ==
  ASSUME NEW s \in States, NEW op \in Ops
  PROVE  /\ Apply(s, op) \in States
         /\ Apply(s, op).ram = s.ram
         /\ Apply(s, op).it = s.it
         /\ Apply(s, op).ops = s.ops
         /\ TailBlank(s.disk) => TailBlank(Apply(s, op).disk)
<1> USE Lengths, BlankType
<1>1. CASE op \in [k : {"put"}, at : SwapAddress .. partition_size - 1, cell : Cells]
  <2>1. op.k = "put" /\ op.at \in SwapAddress .. partition_size - 1 /\ op.cell \in Cells
    BY <1>1
  <2>2. op.at \in Addresses
    BY <2>1 DEF Addresses
  <2> DEFINE c == IF op.at < 0 THEN op.cell ELSE Program(s.disk[op.at], op.cell)
  <2>3. s.disk[op.at] \in Cells
    BY <2>2 DEF States
  <2>4. c \in Cells
    BY <2>1, <2>3 DEF Program
  <2>5. Apply(s, op) = [s EXCEPT !.disk[op.at] = c]
    BY <2>1 DEF Apply
  <2> HIDE DEF c
  <2>6. Apply(s, op) = [s EXCEPT !.disk = [s.disk EXCEPT ![op.at] = c]]
    BY <2>5 DEF States
  <2>7. [s.disk EXCEPT ![op.at] = c] \in [Addresses -> Cells]
    BY <2>4 DEF States
  <2>8. TailBlank(s.disk) => TailBlank([s.disk EXCEPT ![op.at] = c])
    BY <2>1 DEF TailBlank, States, Addresses
  <2> QED BY <2>6, <2>7, <2>8 DEF States
<1>2. CASE op \in [k : {"erase"}, at : Int]
  <2>1. op.k = "erase"
    BY <1>2
  <2> DEFINE d == [a \in DOMAIN s.disk |->
                     IF a >= 0 /\ a \div UnitSize = op.at THEN Blank ELSE s.disk[a]]
  <2>2. Apply(s, op) = [s EXCEPT !.disk = d]
    BY <2>1 DEF Apply
  <2>3. d \in [Addresses -> Cells]
    BY DEF States
  <2>4. TailBlank(s.disk) => TailBlank(d)
    BY DEF TailBlank, States, Addresses
  <2> HIDE DEF d
  <2> QED BY <2>2, <2>3, <2>4 DEF States
<1>3. CASE op \in [k : {"track"}, set : Tracks]
  <2>1. op.k = "track" /\ op.set \in Tracks
    BY <1>3
  <2>2. Apply(s, op) = [s EXCEPT !.track = op.set]
    BY <2>1 DEF Apply
  <2> QED BY <2>1, <2>2 DEF States
<1> QED BY <1>1, <1>2, <1>3 DEF Ops

(* What the states in the middle of a device operation have in common with *)
(* the one they started from.                                              *)
LEMMA TraceType ==
  ASSUME NEW s, Sound(s), NEW ops \in Seq(Ops), NEW k \in 0 .. Len(ops)
  PROVE  /\ Sound(Trace(s, ops)[k])
         /\ Trace(s, ops)[k].ram = s.ram
         /\ Trace(s, ops)[k].it = s.it
         /\ Trace(s, ops)[k].ops = s.ops
<1> DEFINE After(n) == Trace(s, ops)[n]
           Good(n) == /\ After(n) \in States
                      /\ TailBlank(After(n).disk)
                      /\ After(n).ram = s.ram
                      /\ After(n).it = s.it
                      /\ After(n).ops = s.ops
           T == {n \in Nat : n <= Len(ops) => Good(n)}
<1>1. 0 \in T
  <2>1. After(0) = s
    BY TraceDef
  <2> QED BY <2>1 DEF Sound
<1>2. ASSUME NEW n \in Nat, n \in T PROVE n + 1 \in T
  <2> SUFFICES ASSUME n + 1 <= Len(ops) PROVE Good(n + 1)
    OBVIOUS
  <2>1. Good(n)
    BY <1>2
  <2>2. n + 1 \in 1 .. Len(ops) /\ ops[n + 1] \in Ops /\ (n + 1) - 1 = n
    OBVIOUS
  <2>3. After(n + 1) = Apply(After(n), ops[n + 1])
    BY <2>2, TraceDef
  <2> HIDE DEF After
  <2> QED BY <2>1, <2>2, <2>3, ApplyType
<1> HIDE DEF T
<1>3. Nat \subseteq T
  BY <1>1, <1>2, SetInduction
<1>4. k \in T
  BY <1>3
<1>5. Good(k)
  BY <1>4 DEF T
<1> HIDE DEF After
<1>6. Sound(After(k)) /\ After(k).ram = s.ram /\ After(k).it = s.it /\ After(k).ops = s.ops
  BY <1>5 DEF Sound
<1> QED BY <1>6 DEF After

Touches(op, x) ==
  \/ op.k = "put" /\ op.at = x
  \/ op.k = "erase" /\ x >= 0 /\ x \div UnitSize = op.at

(* A device operation leaves the cells alone that it does not touch. *)
LEMMA ApplyFrame ==
  ASSUME NEW s \in States, NEW op \in Ops, NEW x \in Addresses, ~Touches(op, x)
  PROVE  Apply(s, op).disk[x] = s.disk[x]
<1>1. CASE op.k = "put"
  <2> DEFINE c == IF op.at < 0 THEN op.cell ELSE Program(s.disk[op.at], op.cell)
  <2>1. Apply(s, op) = [s EXCEPT !.disk[op.at] = c]
    BY <1>1 DEF Apply
  <2> HIDE DEF c
  <2> QED BY <1>1, <2>1 DEF States, Touches
<1>2. CASE op.k = "erase"
  <2>1. Apply(s, op).disk = [a \in DOMAIN s.disk |->
                  IF a >= 0 /\ a \div UnitSize = op.at THEN Blank ELSE s.disk[a]]
    BY <1>2 DEF Apply, States
  <2>2. DOMAIN s.disk = Addresses
    BY DEF States
  <2> QED BY <1>2, <2>1, <2>2 DEF Touches
<1>3. CASE op.k = "track"
  <2>1. Apply(s, op) = [s EXCEPT !.track = op.set]
    BY <1>3 DEF Apply
  <2> QED BY <2>1 DEF States
<1> QED BY <1>1, <1>2, <1>3 DEF Ops

(* A cell that no operation touches keeps its contents. *)
LEMMA TraceFrame ==
  ASSUME NEW s, Sound(s), NEW ops \in Seq(Ops), NEW x \in Addresses,
         NEW k \in 0 .. Len(ops),
         \A i \in 1 .. k : ~Touches(ops[i], x)
  PROVE  Trace(s, ops)[k].disk[x] = s.disk[x]
<1> DEFINE After(n) == Trace(s, ops)[n]
           T == {n \in Nat : n <= k => After(n).disk[x] = s.disk[x]}
<1>1. 0 \in T
  <2>1. After(0) = s
    BY TraceDef
  <2> QED BY <2>1
<1>2. ASSUME NEW n \in Nat, n \in T PROVE n + 1 \in T
  <2> SUFFICES ASSUME n + 1 <= k PROVE After(n + 1).disk[x] = s.disk[x]
    OBVIOUS
  <2>1. After(n).disk[x] = s.disk[x]
    BY <1>2
  <2>2. n + 1 \in 1 .. Len(ops) /\ n + 1 \in 1 .. k /\ n \in 0 .. Len(ops)
        /\ ops[n + 1] \in Ops /\ (n + 1) - 1 = n
    OBVIOUS
  <2>3. After(n + 1) = Apply(After(n), ops[n + 1])
    BY <2>2, TraceDef
  <2>4. After(n) \in States
    BY <2>2, TraceType DEF Sound
  <2>5. ~Touches(ops[n + 1], x)
    BY <2>2
  <2> HIDE DEF After
  <2> QED BY <2>1, <2>2, <2>3, <2>4, <2>5, ApplyFrame
<1> HIDE DEF T
<1>3. Nat \subseteq T
  BY <1>1, <1>2, SetInduction
<1>4. k \in T
  BY <1>3
<1> QED BY <1>4 DEF T

(* A store to the partition leaves the swap page alone. *)
LEMMA HighFrame ==
  ASSUME NEW s, Sound(s), NEW ops \in Seq(HighOps), NEW x \in Addresses, x < 0,
         NEW k \in 0 .. Len(ops)
  PROVE  Trace(s, ops)[k].disk[x] = s.disk[x]
<1>1. ops \in Seq(Ops)
  BY DEF HighOps
<1>2. \A i \in 1 .. k : ~Touches(ops[i], x)
  BY Lengths DEF HighOps, Touches, Addresses
<1> QED BY <1>1, <1>2, TraceFrame
-----------------------------------------------------------------------------
(* Writing. *)

(* A multiple of the unit below a number is less than a unit away. *)
LEMMA DivFacts ==
  ASSUME NEW a \in Nat, NEW u \in Nat \ {0}
  PROVE  /\ a \div u \in Nat
         /\ (a \div u) * u \in Nat
         /\ (a \div u) * u <= a
         /\ a < (a \div u) * u + u
OBVIOUS

(* Division is monotonic. *)
LEMMA DivMono ==
  ASSUME NEW a \in Nat, NEW b \in Nat, NEW u \in Nat \ {0}, a <= b
  PROVE  a \div u <= b \div u
<1>1. SUFFICES ASSUME b \div u + 1 <= a \div u PROVE FALSE
  BY DivFacts
<1>2. (b \div u + 1) * u <= (a \div u) * u
  BY <1>1, DivFacts
<1>3. (b \div u + 1) * u = (b \div u) * u + u
  BY DivFacts
<1> QED BY <1>2, <1>3, DivFacts

(* A function on 1 .. n is a sequence of length n. *)
LEMMA FcnIsSeq ==
  ASSUME NEW S, NEW n \in Nat, NEW f, f \in [1 .. n -> S]
  PROVE  f \in Seq(S) /\ Len(f) = n
OBVIOUS

(* The range a store may be about: inside the partition or the swap page.  *)
Inside(a, n) ==
  \/ 0 <= a /\ a + n <= partition_size
  \/ SwapAddress <= a /\ a + n <= 0

(* Writing cells takes one operation for each; those of a write into the   *)
(* partition stay off the swap page.                                       *)
LEMMA PutsType ==
  ASSUME NEW a \in Int, NEW cells \in Seq(Cells), Inside(a, Len(cells))
  PROVE  /\ Puts(a, cells) \in Seq(Ops)
         /\ a >= 0 => Puts(a, cells) \in Seq(HighOps)
         /\ Len(Puts(a, cells)) = Len(cells)
<1>1. ASSUME NEW i \in 1 .. Len(cells) PROVE Put(a + i - 1, cells[i]) \in Ops
  <2>1. a + i - 1 \in SwapAddress .. partition_size - 1
    BY Lengths DEF Inside
  <2>2. cells[i] \in Cells
    OBVIOUS
  <2> QED BY <2>1, <2>2 DEF Put, Ops
<1>2. Puts(a, cells) \in [1 .. Len(cells) -> Ops]
  BY <1>1 DEF Puts
<1>3. a >= 0 => Puts(a, cells) \in [1 .. Len(cells) -> HighOps]
  BY <1>1 DEF Puts, HighOps, Put
<1> QED BY <1>2, <1>3, FcnIsSeq

(* Reading n cells returns n cells. *)
LEMMA ReadCellsType ==
  ASSUME NEW d \in [Addresses -> Cells], NEW a \in Int, NEW n \in Nat
  PROVE  ReadCells(d, a, n) \in Seq(Cells) /\ Len(ReadCells(d, a, n)) = n
<1>1. \A x : Read(d, x) \in Cells
  BY BlankType DEF Read
<1>2. ReadCells(d, a, n) \in [1 .. n -> Cells]
  BY <1>1 DEF ReadCells
<1> QED BY <1>2, FcnIsSeq

(* flash_store in a partition issues operations on that partition only. *)
LEMMA FlashStoreType ==
  ASSUME NEW s \in States, NEW a \in Nat, NEW cells \in Seq(Cells),
         cells # << >>, a + Len(cells) <= partition_size
  PROVE  FlashStore(s, a, cells) \in Seq(HighOps)
<1> DEFINE end   == a + Len(cells) - 1
           first == a \div UnitSize
           last  == end \div UnitSize
           fresh == \E x \in s.track : x \div UnitSize = first /\ x < a
           begin  == IF fresh THEN first + 1 ELSE first
           kept  == {x \in s.track : x \div UnitSize \notin first .. last}
           track1 == IF end % UnitSize = UnitSize - 1 THEN kept ELSE kept \cup {end}
           erased == [i \in 1 .. last - begin + 1 |-> Erase(begin + i - 1)]
           front == Puts(first * UnitSize,
                      ReadCells(s.disk, first * UnitSize, a - first * UnitSize))
<1> USE Lengths
<1>1. UnitSize \in Nat \ {0} /\ end \in Nat /\ a <= end /\ end <= partition_size - 1
  BY PartitionAssumption
<1>2. /\ first \in Nat /\ last \in Nat /\ first <= last
      /\ first * UnitSize \in Nat /\ first * UnitSize <= a
  BY <1>1, DivFacts, DivMono
<1>3. <<SetTrack(track1)>> \in Seq(HighOps)
  <2>1. s.track \subseteq 0 .. partition_size - 1 /\ end \in 0 .. partition_size - 1
    BY <1>1 DEF States, Tracks
  <2>2. kept \subseteq s.track
    OBVIOUS
  <2> HIDE DEF kept, end
  <2>3. track1 \in Tracks
    BY <2>1, <2>2 DEF Tracks
  <2> HIDE DEF track1
  <2>4. SetTrack(track1) \in HighOps
    BY <2>3 DEF SetTrack, Ops, HighOps
  <2> QED BY <2>4
<1>4. erased \in Seq(HighOps)
  <2> HIDE DEF first, last, fresh
  <2>1. last - begin + 1 \in Nat /\ begin \in Nat
    BY <1>2
  <2>2. erased \in [1 .. last - begin + 1 -> HighOps]
    BY <2>1 DEF Erase, Ops, HighOps
  <2> QED BY <2>1, <2>2, FcnIsSeq
<1>5. front \in Seq(HighOps)
  <2> DEFINE b == first * UnitSize
             n == a - b
             read == ReadCells(s.disk, b, n)
  <2>1. s.disk \in [Addresses -> Cells]
    BY DEF States
  <2>2. b \in Nat /\ n \in Nat /\ b + n <= partition_size
    BY <1>1, <1>2
  <2>3. front = Puts(b, read)
    OBVIOUS
  <2> HIDE DEF b, n, first, front
  <2>4. read \in Seq(Cells) /\ Len(read) = n
    BY <2>1, <2>2, ReadCellsType
  <2> HIDE DEF read
  <2> QED BY <2>2, <2>3, <2>4, PutsType DEF Inside
<1>6. Puts(a, cells) \in Seq(HighOps)
  BY PutsType DEF Inside
<1>7. FlashStore(s, a, cells) =
        <<SetTrack(track1)>> \o erased \o (IF fresh THEN << >> ELSE front) \o Puts(a, cells)
  BY Zenon DEF FlashStore
<1> HIDE DEF track1, erased, fresh, front
<1>8. (IF fresh THEN << >> ELSE front) \in Seq(HighOps)
  BY <1>5
<1> QED BY <1>3, <1>4, <1>6, <1>7, <1>8

(* storage1_store issues operations on the range it is given. *)
LEMMA StoreOpsType ==
  ASSUME NEW s \in States, NEW a \in Int, NEW cells \in Seq(Cells), Inside(a, Len(cells))
  PROVE  /\ StoreOps(s, a, cells) \in Seq(Ops)
         /\ a >= 0 => StoreOps(s, a, cells) \in Seq(HighOps)
<1>0. Seq(HighOps) \subseteq Seq(Ops)
  BY DEF HighOps
<1>1. CASE cells = << >>
  BY <1>1 DEF StoreOps
<1>2. CASE cells # << >> /\ (UnitSize = 1 \/ a < 0)
  BY <1>2, PutsType DEF StoreOps
<1>3. CASE cells # << >> /\ ~(UnitSize = 1 \/ a < 0)
  BY <1>0, <1>3, FlashStoreType, Lengths DEF StoreOps, Inside
<1> QED BY <1>1, <1>2, <1>3

(* A store inside the partition or the swap page leaves the state sound,   *)
(* and RAM alone.                                                          *)
LEMMA WriteType ==
  ASSUME NEW s, Sound(s), NEW a \in Int, NEW cells \in Seq(Cells), Inside(a, Len(cells))
  PROVE  /\ Sound(Write(s, a, cells))
         /\ Write(s, a, cells).ram = s.ram
         /\ Write(s, a, cells).it = s.it
         /\ a >= 0 => \A x \in Addresses : x < 0 => Write(s, a, cells).disk[x] = s.disk[x]
<1> DEFINE ops == StoreOps(s, a, cells)
           t == Run(s, ops)
<1>1. ops \in Seq(Ops)
  BY StoreOpsType DEF Sound
<1>2. Sound(t) /\ t.ram = s.ram /\ t.it = s.it
  BY <1>1, TraceType DEF Run
<1>5. a >= 0 => \A x \in Addresses : x < 0 => t.disk[x] = s.disk[x]
  <2>1. a >= 0 => ops \in Seq(HighOps)
    BY StoreOpsType DEF Sound
  <2> HIDE DEF ops
  <2> QED BY <1>1, <2>1, HighFrame DEF Run
<1>3. Write(s, a, cells) = [t EXCEPT !.ops = s.ops \o ops]
  BY Zenon DEF Write
<1>4. s.ops \o ops \in Seq(Ops)
  BY <1>1 DEF Sound, States
<1> HIDE DEF ops, t
<1> QED BY <1>2, <1>3, <1>4, <1>5 DEF Sound, States
-----------------------------------------------------------------------------
(* Reading. *)

(* Whatever is on the device, reading it as a header returns a header. *)
LEMMA HeaderAtType ==
  ASSUME NEW d \in [Addresses -> Cells], NEW a \in Int
  PROVE  HeaderAt(d, a) \in Headers
<1>1. \A x : Read(d, x) \in Cells
  BY BlankType DEF Read
<1>2. \A x : /\ Read(d, x).n \in Nat
             /\ Read(d, x).n % 4 \in 0 .. 3
             /\ Read(d, x).t = "id" => Read(d, x).n \in 0 .. MaxId
  BY <1>1 DEF Cells
<1> QED BY <1>2, PartitionAssumption DEF HeaderAt, Headers

(* What the library serialises has the length it reserves for it. *)
LEMMA CellsOf ==
  /\ \A h \in Headers : HeaderCells(h) \in Seq(Cells) /\ Len(HeaderCells(h)) = HdrLen
  /\ \A m \in Metas : MetaCells(m) \in Seq(Cells) /\ Len(MetaCells(m)) = MetaLen
  /\ \A m \in Metas, h \in Headers :
       /\ MetaCells(m) \o HeaderCells(h) \in Seq(Cells)
       /\ Len(MetaCells(m) \o HeaderCells(h)) = MetaLen + HdrLen
  /\ \A n \in Nat : BlankCells(n) \in Seq(Cells) /\ Len(BlankCells(n)) = n
  /\ \A n \in Nat, v \in Nat : DataCells(v, n) \in Seq(Cells) /\ Len(DataCells(v, n)) = n
<1>1. ASSUME NEW h \in Headers
      PROVE  HeaderCells(h) \in Seq(Cells) /\ Len(HeaderCells(h)) = HdrLen
  <2>1. Cell("id", h.id) \in Cells /\ Cell("xor", h.xor) \in Cells /\ Cell("crc", h.crc) \in Cells
    BY PartitionAssumption DEF Headers, Cell, Cells, Tags
  <2> QED BY <2>1, PartitionAssumption DEF HeaderCells, HdrLen, Flag
<1>2. ASSUME NEW m \in Metas
      PROVE  MetaCells(m) \in Seq(Cells) /\ Len(MetaCells(m)) = MetaLen
  <2>1. Cell("mcrc", m.crc) \in Cells /\ Cell("flen", m.flen) \in Cells /\ Cell("last", m.last) \in Cells
    BY PartitionAssumption DEF Metas, Cell, Cells, Tags, FirstLens
  <2> QED BY <2>1 DEF MetaCells, MetaLen
<1>3. ASSUME NEW m \in Metas, NEW h \in Headers
      PROVE  /\ MetaCells(m) \o HeaderCells(h) \in Seq(Cells)
             /\ Len(MetaCells(m) \o HeaderCells(h)) = MetaLen + HdrLen
  BY <1>1, <1>2
<1>4. ASSUME NEW n \in Nat
      PROVE  BlankCells(n) \in Seq(Cells) /\ Len(BlankCells(n)) = n
  BY FcnIsSeq, BlankType DEF BlankCells
<1>5. ASSUME NEW n \in Nat, NEW v \in Nat
      PROVE  DataCells(v, n) \in Seq(Cells) /\ Len(DataCells(v, n)) = n
  <2>1. Cell("data", v) \in Cells
    BY DEF Cell, Cells, Tags
  <2>2. DataCells(v, n) \in [1 .. n -> Cells]
    BY <2>1 DEF DataCells
  <2> QED BY <2>2, FcnIsSeq
<1> QED BY <1>1, <1>2, <1>3, <1>4, <1>5

(* A first header with a correct CRC is made of the cells of its fields.   *)
LEMMA ValidFirstType ==
  ASSUME NEW d \in [Addresses -> Cells], NEW a \in Int, ValidFirst(d, a)
  PROVE  MetaAt(d, a) \in Metas
<1> DEFINE m == MetaAt(d, a)
           h == HeaderAt(d, a + MetaLen)
           cells == ReadCells(d, a, MetaLen + HdrLen)
<1> USE Lengths
<1>1. cells = MetaCells(m) \o HeaderCells(h)
  BY DEF ValidFirst
<1>2. h \in Headers
  BY HeaderAtType
<1>3. \A x : Read(d, x) \in Cells
  BY BlankType DEF Read
<1>4. m.crc \in Nat /\ m.last \in Nat /\ m.flen = Read(d, a + 1).n
  BY <1>3 DEF MetaAt, Cells
<1>5. cells[2] = Read(d, a + 1)
  BY DEF ReadCells
<1>6. Len(HeaderCells(h)) = HdrLen /\ HeaderCells(h) \in Seq(Cells)
  BY <1>2, CellsOf
<1>7. (MetaCells(m) \o HeaderCells(h))[2] = Cell("flen", m.flen)
  BY <1>6 DEF MetaCells
<1>8. Read(d, a + 1).t = "flen"
  <2>1. Read(d, a + 1) = Cell("flen", m.flen)
    BY ONLY <1>1, <1>5, <1>7, Zenon
  <2> QED BY <2>1 DEF Cell
<1>9. m.flen \in FirstLens
  BY <1>3, <1>4, <1>8 DEF Cells
<1> QED BY <1>4, <1>9 DEF MetaAt, Metas

(* RAM after something was read: only the metadata may have been loaded.   *)
SameButMeta(r, q) ==
  /\ r.has = q.has
  /\ r.laddr = q.laddr
  /\ r.lid = q.lid
  /\ r.llen = q.llen
  /\ r.fhdr = q.fhdr

(* t is a sound state that reading has made of s. *)
ReadFrom(s, t) ==
  /\ Sound(t)
  /\ t.it = s.it
  /\ SameButMeta(t.ram, s.ram)

(* Two reads after each other are a read. *)
LEMMA ReadFromTrans ==
  ASSUME NEW s, NEW t, NEW u, ReadFrom(s, t), ReadFrom(t, u)
  PROVE  ReadFrom(s, u)
BY DEF ReadFrom, SameButMeta

(* Loading the metadata of the partition is a read. *)
LEMMA LoadedType ==
  ASSUME NEW s, Sound(s), NEW m \in Metas
  PROVE  ReadFrom(s, [s EXCEPT !.ram.meta = m])
BY DEF ReadFrom, Sound, States, Rams, SameButMeta, RamInside

(* What is restored from the swap page fits the head of the partition. *)
LEMMA SwapInside ==
  ASSUME NEW d \in [Addresses -> Cells]
  PROVE  LET c == ReadCells(d, SwapAddress, MetaLen + HdrLen)
         IN  c \in Seq(Cells) /\ Len(c) = MetaLen + HdrLen /\ Inside(0, Len(c))
BY ReadCellsType, Lengths DEF Inside

(* The backup only depends on the cells of the swap page. *)
LEMMA SwapSame ==
  ASSUME NEW d \in [Addresses -> Cells], NEW e \in [Addresses -> Cells],
         \A x \in Addresses : x < 0 => e[x] = d[x]
  PROVE  /\ ReadCells(e, SwapAddress, MetaLen + HdrLen) = ReadCells(d, SwapAddress, MetaLen + HdrLen)
         /\ MetaAt(e, SwapAddress) = MetaAt(d, SwapAddress)
         /\ HeaderAt(e, SwapAddress + MetaLen) = HeaderAt(d, SwapAddress + MetaLen)
         /\ ValidFirst(e, SwapAddress) <=> ValidFirst(d, SwapAddress)
<1> USE Lengths
<1>1. \A x \in SwapAddress .. -1 : Read(e, x) = Read(d, x)
  BY DEF Read, Addresses
<1>2. ReadCells(e, SwapAddress, MetaLen + HdrLen) = ReadCells(d, SwapAddress, MetaLen + HdrLen)
  BY <1>1 DEF ReadCells
<1>3. MetaAt(e, SwapAddress) = MetaAt(d, SwapAddress)
  BY <1>1 DEF MetaAt
<1>4. HeaderAt(e, SwapAddress + MetaLen) = HeaderAt(d, SwapAddress + MetaLen)
  <2>1. /\ Read(e, SwapAddress + MetaLen) = Read(d, SwapAddress + MetaLen)
        /\ Read(e, SwapAddress + MetaLen + HdrLen - 1) = Read(d, SwapAddress + MetaLen + HdrLen - 1)
        /\ is_dynamic => Read(e, SwapAddress + MetaLen + 1) = Read(d, SwapAddress + MetaLen + 1)
    BY <1>1, PartitionAssumption DEF HdrLen, Flag
  <2> QED BY <2>1 DEF HeaderAt
<1> QED BY <1>2, <1>3, <1>4 DEF ValidFirst

(* filesystem_read_element_header returns a header, from a partition whose *)
(* first header it may have restored and whose metadata it may have        *)
(* loaded.                                                                 *)
LEMMA ReadElementHeaderType ==
  ASSUME NEW s, Sound(s), NEW a \in Nat
  PROVE  LET r == ReadElementHeader(s, a)
         IN  /\ r.ret \in {"SUCCESS", "NOT_FOUND"}
             /\ r.hdr \in Headers
             /\ ReadFrom(s, r.s)
             /\ a # 0 => r.s = s
<1> DEFINE r == ReadElementHeader(s, a)
<1> SUFFICES /\ r.ret \in {"SUCCESS", "NOT_FOUND"}
             /\ r.hdr \in Headers
             /\ ReadFrom(s, r.s)
             /\ a # 0 => r.s = s
  OBVIOUS
<1>0. s.disk \in [Addresses -> Cells] /\ s \in States /\ ReadFrom(s, s)
  BY DEF Sound, States, ReadFrom, SameButMeta
<1>1. CASE a # 0
  <2>1. r = [ret |-> "SUCCESS", hdr |-> HeaderAt(s.disk, a), s |-> s]
    BY <1>1 DEF ReadElementHeader
  <2> HIDE DEF r
  <2> QED BY <2>1, <1>0, HeaderAtType
<1>2. CASE a = 0 /\ ValidFirst(s.disk, 0)
  <2> DEFINE t == [s EXCEPT !.ram.meta = MetaAt(s.disk, 0)]
             h == HeaderAt(s.disk, 0 + MetaLen)
  <2>1. r = [ret |-> "SUCCESS", hdr |-> h, s |-> t]
    BY <1>2 DEF ReadElementHeader
  <2>2. ReadFrom(s, t)
    BY <1>0, <1>2, ValidFirstType, LoadedType
  <2>3. h \in Headers
    BY <1>0, Lengths, HeaderAtType
  <2> HIDE DEF r, t, h
  <2> QED BY <1>2, <2>1, <2>2, <2>3
<1>3. CASE a = 0 /\ ~ValidFirst(s.disk, 0) /\ ValidFirst(s.disk, SwapAddress)
  <2> DEFINE c == ReadCells(s.disk, SwapAddress, MetaLen + HdrLen)
             w == Write(s, 0, c)
             t == [w EXCEPT !.ram.meta = MetaAt(w.disk, SwapAddress)]
             h == HeaderAt(w.disk, SwapAddress + MetaLen)
  <2>1. r = [ret |-> "SUCCESS", hdr |-> h, s |-> t]
    BY <1>3 DEF ReadElementHeader
  <2>2. Sound(w) /\ w.ram = s.ram /\ w.it = s.it
    BY <1>0, SwapInside, WriteType
  <2>3. w.disk \in [Addresses -> Cells]
    BY <2>2 DEF Sound, States
  <2>4. \A x \in Addresses : x < 0 => w.disk[x] = s.disk[x]
    BY <1>0, SwapInside, WriteType
  <2>5. ValidFirst(w.disk, SwapAddress)
    BY <1>0, <1>3, <2>3, <2>4, SwapSame
  <2>6. MetaAt(w.disk, SwapAddress) \in Metas
    BY <2>3, <2>5, ValidFirstType, Lengths
  <2>7. h \in Headers
    BY <2>3, HeaderAtType, Lengths
  <2> HIDE DEF w
  <2>8. ReadFrom(w, t)
    BY <2>2, <2>6, LoadedType
  <2>9. ReadFrom(s, t)
    BY <2>2, <2>8 DEF ReadFrom, SameButMeta
  <2> HIDE DEF r, t, h
  <2> QED BY <1>3, <2>1, <2>7, <2>9
<1>4. CASE a = 0 /\ ~ValidFirst(s.disk, 0) /\ ~ValidFirst(s.disk, SwapAddress)
  <2>1. r = [ret |-> "NOT_FOUND", hdr |-> NoHeader, s |-> s]
    BY <1>4 DEF ReadElementHeader
  <2>2. NoHeader \in Headers
    BY PartitionAssumption DEF NoHeader, Headers
  <2> HIDE DEF r
  <2> QED BY <1>4, <2>1, <2>2, <1>0
<1> QED BY <1>1, <1>2, <1>3, <1>4

(* The XOR of two lengths is a length. *)
LEMMA XorType ==
  ASSUME NEW x \in 0 .. 3, NEW y \in 0 .. 3
  PROVE  Xor(x, y) \in 0 .. 3
BY DEF Xor

(* The length an element link leads to is a length. *)
LEMMA LinkedLenType ==
  ASSUME NEW s, Sound(s), NEW len \in 0 .. 3, NEW x \in 0 .. 3
  PROVE  LinkedLen(s, len, x) \in 0 .. 3
<1>1. s.ram.meta.flen \in 0 .. 3
  BY DEF Sound, States, Rams, Metas, FirstLens
<1> QED BY <1>1, XorType DEF LinkedLen

(* What GetNext returns is the first header, or the one right behind the   *)
(* element, which then ends inside the partition.                          *)
LEMMA GetNextType ==
  ASSUME NEW s, Sound(s), NEW a \in Nat, NEW id, NEW len \in 0 .. 3
  PROVE  LET n == GetNext(s, a, id, len)
         IN  /\ n.hdr \in Headers
             /\ n.ret \in {"SUCCESS", "NOT_FOUND"}
             /\ ReadFrom(s, n.s)
             /\ \/ n.addr = 0
                \/ /\ n.addr = a + HeaderLenAt(a) + len
                   /\ n.addr > a
                   /\ n.addr + HdrLen + LinkedLen(s, len, n.hdr.xor) <= partition_size
                   /\ n.s = s
<1> DEFINE next == a + HeaderLenAt(a) + len
           r == ReadElementHeader(s, next)
           first == ReadElementHeader(r.s, 0)
           n == GetNext(s, a, id, len)
           behind == /\ r.hdr.id = Inc(id)
                     /\ next + HdrLen + LinkedLen(r.s, len, r.hdr.xor) <= partition_size
<1> SUFFICES /\ n.hdr \in Headers
             /\ n.ret \in {"SUCCESS", "NOT_FOUND"}
             /\ ReadFrom(s, n.s)
             /\ \/ n.addr = 0
                \/ /\ n.addr = next
                   /\ n.addr > a
                   /\ n.addr + HdrLen + LinkedLen(s, len, n.hdr.xor) <= partition_size
                   /\ n.s = s
  OBVIOUS
<1>1. next \in Nat /\ next > a
  BY Lengths DEF HeaderLenAt
<1> HIDE DEF next
<1>2. r.hdr \in Headers /\ ReadFrom(s, r.s) /\ r.s = s
  BY <1>1, ReadElementHeaderType
<1>3. Sound(r.s)
  BY <1>2
<1> HIDE DEF r
<1>4. first.hdr \in Headers /\ ReadFrom(r.s, first.s) /\ first.ret \in {"SUCCESS", "NOT_FOUND"}
  BY <1>3, ReadElementHeaderType
<1>5. CASE behind
  <2>1. n = [ret |-> "SUCCESS", addr |-> next, hdr |-> r.hdr, s |-> r.s]
    BY <1>5 DEF GetNext, next, r
  <2> HIDE DEF n
  <2> QED BY <1>1, <1>2, <1>5, <2>1
<1>6. CASE ~behind
  <2> DEFINE ret == IF first.ret = "SUCCESS" /\ first.hdr.id # Inc(id)
                      THEN "NOT_FOUND" ELSE first.ret
  <2>1. n = [ret |-> ret, addr |-> 0, hdr |-> first.hdr, s |-> first.s]
    BY <1>6, Zenon DEF GetNext, next, r
  <2> HIDE DEF n, first
  <2>2. ReadFrom(s, first.s)
    BY <1>2, <1>4
  <2>3. ret \in {"SUCCESS", "NOT_FOUND"}
    BY <1>4
  <2> HIDE DEF ret
  <2> QED BY <2>1, <2>2, <2>3, <1>4
<1> QED BY <1>5, <1>6

(* filesystem_get_previous_element returns an address and a header,        *)
(* whatever is on the device.                                              *)
LEMMA GetPreviousType ==
  ASSUME NEW s, Sound(s), NEW a \in Nat, NEW id, NEW len \in 0 .. 3
  PROVE  LET p == GetPrevious(s, a, id, len)
         IN  /\ p.hdr \in Headers
             /\ p.addr \in Nat
             /\ ReadFrom(s, p.s)
<1> DEFINE p == GetPrevious(s, a, id, len)
<1> SUFFICES p.hdr \in Headers /\ p.addr \in Nat /\ ReadFrom(s, p.s)
  OBVIOUS
<1> DEFINE At(addr, r) ==
             [ret  |-> IF r.ret = "SUCCESS" /\ r.hdr.id # Dec(id)
                         THEN "NOT_FOUND" ELSE r.ret,
              addr |-> addr, hdr |-> r.hdr, s |-> r.s]
<1>1. CASE a # 0
  <2> DEFINE cur == ReadElementHeader(s, a)
             plen == LinkedLen(cur.s, len, cur.hdr.xor)
             addr == IF a <= MetaLen + HdrLen + plen THEN 0 ELSE a - plen - HdrLen
             r == ReadElementHeader(cur.s, addr)
  <2>1. cur.hdr \in Headers /\ cur.s = s
    BY <1>1, ReadElementHeaderType
  <2>2. p = At(addr, r)
    BY <1>1 DEF GetPrevious
  <2> HIDE DEF cur
  <2>3. plen \in 0 .. 3
    BY <2>1, LinkedLenType DEF Headers
  <2> HIDE DEF plen
  <2>4. addr \in Nat
    BY <2>3, Lengths
  <2> HIDE DEF addr
  <2>5. r.hdr \in Headers /\ ReadFrom(s, r.s)
    BY <2>1, <2>4, ReadElementHeaderType
  <2> HIDE DEF r, p
  <2> QED BY <2>2, <2>4, <2>5
<1>2. CASE a = 0 /\ s.ram.meta.last > 0
  <2> DEFINE last == s.ram.meta.last
             r == ReadElementHeader(s, last)
  <2>1. last \in Nat
    BY DEF Sound, States, Rams, Metas
  <2>2. p = At(last, r)
    BY <1>2 DEF GetPrevious
  <2> HIDE DEF last
  <2>3. r.hdr \in Headers /\ ReadFrom(s, r.s)
    BY <2>1, ReadElementHeaderType
  <2> HIDE DEF r, p
  <2> QED BY <2>1, <2>2, <2>3
<1>3. CASE a = 0 /\ ~(s.ram.meta.last > 0)
  <2>1. p = [ret |-> "NOT_FOUND", addr |-> 0, hdr |-> NoHeader, s |-> s]
    BY <1>3 DEF GetPrevious
  <2> HIDE DEF p
  <2> QED BY <2>1, PartitionAssumption DEF NoHeader, Headers, ReadFrom, SameButMeta
<1> QED BY <1>1, <1>2, <1>3

(* The bounds on the walks along the elements are naturals. *)
LEMMA DepthType == partition_size \div HdrLen \in Nat /\ Depth \in Nat
BY DivFacts, Lengths DEF Depth

(* f holds the first m positions of the search for the latest element. *)
IsWalk(f, start, m) ==
  f = [k \in 0 .. m |-> IF k = 0 THEN start ELSE Advance(f[k - 1])]

(* The recursion in Walk has a solution. *)
LEMMA WalkExists ==
  ASSUME NEW start, NEW m \in Nat
  PROVE  \E f : IsWalk(f, start, m)
<1> DEFINE T == {n \in Nat : \E f : IsWalk(f, start, n)}
<1>1. 0 \in T
  <2> DEFINE f == [k \in 0 .. 0 |-> start]
  <2>1. IsWalk(f, start, 0)
    BY DEF IsWalk
  <2> HIDE DEF f
  <2> QED BY <2>1, Zenon
<1>2. ASSUME NEW n \in Nat, n \in T PROVE n + 1 \in T
  <2>1. PICK f : IsWalk(f, start, n)
    BY <1>2
  <2> DEFINE g == [k \in 0 .. n + 1 |-> IF k <= n THEN f[k] ELSE Advance(f[n])]
  <2>2. \A k \in 0 .. n + 1 : g[k] = IF k = 0 THEN start ELSE Advance(g[k - 1])
    <3> SUFFICES ASSUME NEW k \in 0 .. n + 1
                 PROVE  g[k] = IF k = 0 THEN start ELSE Advance(g[k - 1])
      OBVIOUS
    <3>1. CASE k = 0
      BY <2>1, <3>1 DEF IsWalk
    <3>2. CASE k \in 1 .. n
      <4>1. g[k] = f[k] /\ g[k - 1] = f[k - 1] /\ k \in 0 .. n /\ k # 0
        BY <3>2
      <4>2. f[k] = Advance(f[k - 1])
        BY <2>1, <4>1 DEF IsWalk
      <4> QED BY <4>1, <4>2
    <3>3. CASE k = n + 1
      <4>1. g[k] = Advance(f[n]) /\ g[k - 1] = f[n] /\ k # 0
        BY <3>3
      <4> QED BY <4>1
    <3> QED BY <3>1, <3>2, <3>3
  <2>3. IsWalk(g, start, n + 1)
    BY <2>2 DEF IsWalk
  <2>4. n + 1 \in Nat
    OBVIOUS
  <2> HIDE DEF g
  <2> QED BY <2>3, <2>4, Zenon
<1> HIDE DEF T
<1>3. Nat \subseteq T
  BY <1>1, <1>2, SetInduction
<1> USE DEF T
<1> QED BY <1>3

(* The recursion in Walk is well-founded, so its equation holds. *)
LEMMA WalkDef ==
  ASSUME NEW start
  PROVE  /\ Walk(start)[0] = start
         /\ \A k \in 1 .. partition_size \div HdrLen :
              Walk(start)[k] = Advance(Walk(start)[k - 1])
<1>0. partition_size \div HdrLen \in Nat
  BY DepthType
<1>1. Walk(start) = CHOOSE f : IsWalk(f, start, partition_size \div HdrLen)
  BY Zenon DEF Walk, IsWalk
<1>2. \E f : IsWalk(f, start, partition_size \div HdrLen)
  BY <1>0, WalkExists
<1>3. IsWalk(Walk(start), start, partition_size \div HdrLen)
  BY <1>1, <1>2, Zenon
<1> QED BY <1>0, <1>3 DEF IsWalk

(* A position of the search: an element inside the partition. *)
Position(s, c) ==
  /\ c \in [addr : Nat, id : 0 .. MaxId, len : 0 .. 3, s : States]
  /\ c.addr + HeaderLenAt(c.addr) + c.len <= partition_size
  /\ c.addr = 0 \/ MetaLen + HdrLen <= c.addr
  /\ ReadFrom(s, c.s)

(* One step of the search for the latest element stays inside the          *)
(* partition.                                                              *)
LEMMA AdvanceType ==
  ASSUME NEW s, NEW c, Position(s, c)
  PROVE  Position(s, Advance(c))
<1> DEFINE n == GetNext(c.s, c.addr, c.id, c.len)
           len == LinkedLen(c.s, c.len, n.hdr.xor)
<1>1. Sound(c.s) /\ c.addr \in Nat /\ c.len \in 0 .. 3
  BY DEF Position, ReadFrom
<1>2. /\ n.hdr \in Headers
      /\ ReadFrom(c.s, n.s)
      /\ \/ n.addr = 0
         \/ /\ n.addr = c.addr + HeaderLenAt(c.addr) + c.len
            /\ n.addr > c.addr
            /\ n.addr + HdrLen + len <= partition_size
            /\ n.s = c.s
  BY <1>1, GetNextType
<1>3. len \in 0 .. 3 /\ n.hdr.id \in 0 .. MaxId
  BY <1>1, <1>2, LinkedLenType DEF Headers
<1>4. ReadFrom(s, n.s) /\ n.s \in States
  BY <1>2, ReadFromTrans DEF Position, ReadFrom, Sound
<1>5. CASE n.ret = "SUCCESS" /\ n.addr > c.addr
  <2>1. Advance(c) = [addr |-> n.addr, id |-> n.hdr.id, len |-> len, s |-> n.s]
    BY <1>5, Zenon DEF Advance
  <2> HIDE DEF n, len
  <2>2. /\ n.addr = c.addr + HeaderLenAt(c.addr) + c.len
        /\ n.addr + HdrLen + len <= partition_size
    BY <1>1, <1>2, <1>5
  <2>3. n.addr \in Nat /\ HeaderLenAt(n.addr) = HdrLen /\ MetaLen + HdrLen <= n.addr
    BY <1>1, <2>2, Lengths DEF HeaderLenAt, Position
  <2> HIDE DEF HeaderLenAt
  <2> QED BY <1>3, <1>4, <2>1, <2>2, <2>3 DEF Position
<1>6. CASE ~(n.ret = "SUCCESS" /\ n.addr > c.addr)
  <2>1. Advance(c) = [c EXCEPT !.s = n.s]
    BY <1>6, Zenon DEF Advance
  <2> HIDE DEF n
  <2> QED BY <1>4, <2>1 DEF Position
<1> QED BY <1>5, <1>6

(* Every position of the search for the latest element is inside the       *)
(* partition.                                                              *)
LEMMA WalkType ==
  ASSUME NEW s, NEW start, Position(s, start), NEW k \in 0 .. partition_size \div HdrLen
  PROVE  Position(s, Walk(start)[k])
<1> DEFINE d == partition_size \div HdrLen
           At(n) == Walk(start)[n]
           T == {n \in Nat : n <= d => Position(s, At(n))}
<1>0. d \in Nat
  BY DepthType
<1>1. 0 \in T
  BY WalkDef
<1>2. ASSUME NEW n \in Nat, n \in T PROVE n + 1 \in T
  <2> SUFFICES ASSUME n + 1 <= d PROVE Position(s, At(n + 1))
    OBVIOUS
  <2>1. n + 1 \in 1 .. d /\ (n + 1) - 1 = n /\ n <= d
    BY <1>0
  <2>2. At(n + 1) = Advance(At(n))
    BY <2>1, WalkDef
  <2>3. Position(s, At(n))
    BY <1>2, <2>1
  <2> HIDE DEF At
  <2> QED BY <2>2, <2>3, AdvanceType
<1> HIDE DEF T
<1>3. Nat \subseteq T
  BY <1>1, <1>2, SetInduction
<1>4. k \in T /\ k <= d
  BY <1>0, <1>3
<1> QED BY <1>4 DEF T

(* filesystem_find_latest_element_address ends inside the partition. *)
LEMMA FindLatestType ==
  ASSUME NEW s, Sound(s)
  PROVE  Position(s, FindLatest(s))
<1> DEFINE r == ReadElementHeader(s, 0)
           start == [addr |-> 0, id |-> r.hdr.id, len |-> r.s.ram.meta.flen, s |-> r.s]
<1>1. r.hdr \in Headers /\ ReadFrom(s, r.s)
  BY ReadElementHeaderType
<1>2. FindLatest(s) = Walk(start)[partition_size \div HdrLen]
  BY Zenon DEF FindLatest
<1> HIDE DEF r
<1>3. Position(s, start)
  <2>1. r.hdr.id \in 0 .. MaxId
    BY <1>1 DEF Headers
  <2>2. r.s \in States /\ r.s.ram.meta.flen \in FirstLens
    BY <1>1 DEF ReadFrom, Sound, States, Rams, Metas
  <2> QED BY <1>1, <2>1, <2>2, Lengths DEF Position, HeaderLenAt, FirstLens
<1>4. partition_size \div HdrLen \in 0 .. partition_size \div HdrLen
  BY DepthType
<1> HIDE DEF start
<1> QED BY <1>2, <1>3, <1>4, WalkType

(* Registration makes a sound state of any storage. *)
LEMMA RegisterType ==
  ASSUME NEW s, Sound(s)
  PROVE  /\ Sound(RegisterPartition(s))
         /\ RegisterPartition(s).it = s.it
<1> DEFINE fresh == [has |-> FALSE, laddr |-> 0, lid |-> 1, llen |-> 0,
                     meta |-> [NoMeta EXCEPT !.flen = IF is_dynamic THEN 0 ELSE element_len],
                     fhdr |-> s.ram.fhdr]
           t == [s EXCEPT !.ram = fresh]
           r == ReadElementHeader(t, 0)
           l == FindLatest(r.s)
           done == [l.s EXCEPT !.ram = [l.s.ram EXCEPT !.has = TRUE, !.laddr = l.addr,
                                                       !.lid = l.id, !.llen = l.len]]
<1>1. fresh \in Rams /\ ~fresh.has
  BY Lengths, PartitionAssumption DEF Rams, Metas, NoMeta, Sound, States
<1>2. Sound(t) /\ t.it = s.it
  <2> HIDE DEF fresh
  <2> QED BY <1>1 DEF Sound, States, RamInside
<1>3. RegisterPartition(s) = IF r.ret = "SUCCESS" THEN done ELSE r.s
  BY Zenon DEF RegisterPartition
<1> HIDE DEF t
<1>4. ReadFrom(t, r.s) /\ r.ret \in {"SUCCESS", "NOT_FOUND"}
  BY <1>2, ReadElementHeaderType
<1> HIDE DEF r
<1>5. CASE r.ret # "SUCCESS"
  BY <1>2, <1>3, <1>4, <1>5 DEF ReadFrom
<1>6. CASE r.ret = "SUCCESS"
  <2>1. Position(r.s, l)
    BY <1>4, FindLatestType DEF ReadFrom
  <2> HIDE DEF l
  <2>2. Sound(l.s) /\ l.s.it = s.it
    BY <1>2, <1>4, <2>1 DEF Position, ReadFrom
  <2>3. Sound(done) /\ done.it = l.s.it
    BY <2>1, <2>2 DEF Position, Sound, States, Rams, RamInside
  <2> HIDE DEF done
  <2> QED BY <1>3, <1>6, <2>2, <2>3
<1> QED BY <1>5, <1>6
-----------------------------------------------------------------------------
(* The iterator. *)

(* Invalidating the iterator changes nothing else. *)
LEMMA InvalidatedType ==
  ASSUME NEW s, Sound(s)
  PROVE  /\ Sound(Invalidated(s))
         /\ Invalidated(s).ram = s.ram
         /\ Invalidated(s).disk = s.disk
         /\ Invalidated(s).track = s.track
         /\ Invalidated(s).ops = s.ops
BY DEF Invalidated, Sound, States, Iterators, IteratorInside

(* What the iterator's calls and the conflict check make of the state.     *)
Checked(s, t) == Sound(t) /\ SameButMeta(t.ram, s.ram)

(* filesystem_iterator_check_validity changes nothing but the iterator and *)
(* the loaded metadata.                                                    *)
LEMMA CheckValidityType ==
  ASSUME NEW s, Sound(s)
  PROVE  LET c == CheckValidity(s)
         IN  /\ Checked(s, c.s)
             /\ c.ret = "SUCCESS" => s.it.valid /\ c.s.it = s.it
<1> DEFINE c == CheckValidity(s)
           r == ReadElementHeader(s, s.it.addr)
           same == /\ r.hdr.id = s.it.hdr.id
                   /\ has_element_crc => r.hdr.crc = s.it.hdr.crc
                   /\ is_dynamic => r.hdr.xor = s.it.hdr.xor
<1> SUFFICES Checked(s, c.s) /\ (c.ret = "SUCCESS" => s.it.valid /\ c.s.it = s.it)
  OBVIOUS
<1>0. Checked(s, s) /\ Checked(s, Invalidated(s))
  BY InvalidatedType DEF Checked, SameButMeta
<1>1. CASE ~s.it.valid
  <2>1. c = [ret |-> "INVALID_STATE", s |-> s]
    BY <1>1 DEF CheckValidity
  <2> HIDE DEF c
  <2> QED BY <2>1, <1>0
<1>2. CASE s.it.valid /\ ~s.ram.has
  <2>1. c = [ret |-> "INVALID_STATE", s |-> Invalidated(s)]
    BY <1>2 DEF CheckValidity
  <2> HIDE DEF c
  <2> QED BY <2>1, <1>0
<1>3. CASE s.it.valid /\ s.ram.has
  <2>1. s.it.addr \in Nat
    BY DEF Sound, States, Iterators
  <2>2. ReadFrom(s, r.s)
    BY <2>1, ReadElementHeaderType
  <2>3. c = IF r.ret = "SUCCESS" /\ same
              THEN [ret |-> "SUCCESS", s |-> r.s]
              ELSE [ret |-> "INVALID_STATE", s |-> Invalidated(r.s)]
    BY <1>3 DEF CheckValidity
  <2> HIDE DEF c, r, same
  <2>4. Checked(s, r.s) /\ Checked(s, Invalidated(r.s)) /\ r.s.it = s.it
    BY <2>2, InvalidatedType DEF ReadFrom, Checked
  <2> QED BY <2>3, <2>4, <1>3
<1> QED BY <1>1, <1>2, <1>3

(* filesystem_check_iterator_conflict changes nothing but the iterator. *)
LEMMA IteratorConflictType ==
  ASSUME NEW s, Sound(s), NEW a, NEW len
  PROVE  Checked(s, IteratorConflict(s, a, len).s)
<1>1. IteratorConflict(s, a, len).s = CheckValidity(s).s
  BY DEF IteratorConflict
<1> QED BY <1>1, CheckValidityType

(* filesystem_iterator_init leaves the iterator inside the partition. *)
LEMMA IteratorInitType ==
  ASSUME NEW s, Sound(s)
  PROVE  LET i == IteratorInit(s)
         IN  Checked(s, i.s) /\ (i.ret = "SUCCESS" => i.s.it.valid)
<1> DEFINE i == IteratorInit(s)
           r == ReadElementHeader(s, s.ram.laddr)
           t == [r.s EXCEPT !.it = [valid |-> TRUE, addr |-> s.ram.laddr,
                                    len |-> s.ram.llen, hdr |-> r.hdr]]
<1> SUFFICES Checked(s, i.s) /\ (i.ret = "SUCCESS" => i.s.it.valid)
  OBVIOUS
<1>1. CASE ~s.ram.has
  <2>1. i = [ret |-> "INVALID_STATE", s |-> Invalidated(s)]
    BY <1>1 DEF IteratorInit
  <2> HIDE DEF i
  <2> QED BY <2>1, InvalidatedType DEF Checked, SameButMeta
<1>2. CASE s.ram.has
  <2>1. s.ram \in Rams
    BY DEF Sound, States
  <2>2. ReadFrom(s, r.s) /\ r.hdr \in Headers
    BY <2>1, ReadElementHeaderType DEF Rams
  <2>3. i = IF r.ret = "SUCCESS" THEN [ret |-> "SUCCESS", s |-> t]
            ELSE [ret |-> "INVALID_STATE", s |-> Invalidated(r.s)]
    BY <1>2 DEF IteratorInit
  <2> HIDE DEF i, r
  <2>4. Checked(s, Invalidated(r.s))
    BY <2>2, InvalidatedType DEF ReadFrom, Checked
  <2>5. s.ram.laddr + HdrLen + s.ram.llen <= partition_size
    BY <1>2, <2>1, Lengths DEF Sound, RamInside, HeaderLenAt, Rams
  <2>6. Checked(s, t) /\ t.it.valid
    BY <2>1, <2>2, <2>5 DEF Checked, ReadFrom, Sound, States, Rams, Iterators, IteratorInside
  <2> HIDE DEF t
  <2> QED BY <2>3, <2>4, <2>6
<1> QED BY <1>1, <1>2

(* The iterator moves to an element inside the partition. *)
LEMMA MovedType ==
  ASSUME NEW s, Sound(s), NEW n, n.addr \in Nat, n.hdr \in Headers, NEW len \in 0 .. 3,
         n.addr + HdrLen + len <= partition_size
  PROVE  Checked(s, Moved(s, n, len).s)
BY DEF Checked, Moved, Sound, States, Iterators, IteratorInside, SameButMeta

(* Two uses of the iterator after each other are a use of the iterator. *)
LEMMA CheckedTrans ==
  ASSUME NEW s, NEW t, NEW u, Checked(s, t), Checked(t, u)
  PROVE  Checked(s, u)
BY DEF Checked, SameButMeta

(* filesystem_iterator_next leaves the iterator inside the partition. *)
LEMMA IteratorNextType ==
  ASSUME NEW s, Sound(s)
  PROVE  Checked(s, IteratorNext(s).s)
<1> DEFINE c == CheckValidity(s)
           i == c.s.it
           n == GetNext(c.s, i.addr, i.hdr.id, i.len)
           len == LinkedLen(n.s, i.len, n.hdr.xor)
<1>1. Checked(s, c.s)
  BY CheckValidityType
<1>2. IteratorNext(s) = IF c.ret # "SUCCESS" THEN c
                        ELSE IF n.ret # "SUCCESS" THEN [ret |-> n.ret, s |-> n.s]
                        ELSE Moved(n.s, n, len)
  BY Zenon DEF IteratorNext
<1> HIDE DEF c
<1>3. i \in Iterators /\ Sound(c.s)
  BY <1>1 DEF Checked, Sound, States
<1>4. /\ n.hdr \in Headers /\ ReadFrom(c.s, n.s)
      /\ \/ n.addr = 0
         \/ /\ n.addr > i.addr
            /\ n.addr = i.addr + HeaderLenAt(i.addr) + i.len
            /\ n.addr + HdrLen + LinkedLen(c.s, i.len, n.hdr.xor) <= partition_size
            /\ n.s = c.s
  BY <1>3, GetNextType DEF Iterators
<1> HIDE DEF n
<1>5. len \in 0 .. 3
  BY <1>3, <1>4, LinkedLenType DEF Iterators, Headers, ReadFrom
<1>6. n.addr \in Nat /\ n.addr + HdrLen + len <= partition_size
  <2>1. CASE n.addr = 0
    BY <1>5, <2>1, Lengths
  <2>2. CASE n.addr # 0
    <3>1. n.addr \in Nat
      BY <1>3, <1>4, <2>2, Lengths DEF Iterators, HeaderLenAt
    <3> QED BY <3>1, <1>4, <2>2
  <2> QED BY <2>1, <2>2
<1>7. Checked(s, n.s) /\ Sound(n.s)
  BY <1>1, <1>4, CheckedTrans DEF ReadFrom, Checked
<1> HIDE DEF len
<1>8. Checked(s, Moved(n.s, n, len).s)
  BY <1>4, <1>5, <1>6, <1>7, MovedType, CheckedTrans
<1> QED BY <1>1, <1>2, <1>7, <1>8

(* filesystem_iterator_previous leaves the iterator inside the partition. *)
LEMMA IteratorPreviousType ==
  ASSUME NEW s, Sound(s)
  PROVE  Checked(s, IteratorPrevious(s).s)
<1> DEFINE c == CheckValidity(s)
           i == c.s.it
           p == GetPrevious(c.s, i.addr, i.hdr.id, i.len)
           len == LinkedLen(p.s, i.len, i.hdr.xor)
<1>1. Checked(s, c.s)
  BY CheckValidityType
<1>2. IteratorPrevious(s) = IF c.ret # "SUCCESS" THEN c
                        ELSE IF p.ret # "SUCCESS" \/ p.addr + HdrLen + len > partition_size
                          THEN [ret |-> "NOT_FOUND", s |-> p.s]
                        ELSE Moved(p.s, p, len)
  BY Zenon DEF IteratorPrevious
<1> HIDE DEF c
<1>3. i \in Iterators /\ Sound(c.s)
  BY <1>1 DEF Checked, Sound, States
<1>4. p.hdr \in Headers /\ p.addr \in Nat /\ ReadFrom(c.s, p.s)
  BY <1>3, GetPreviousType DEF Iterators
<1> HIDE DEF p
<1>5. len \in 0 .. 3
  BY <1>3, <1>4, LinkedLenType DEF Iterators, Headers, ReadFrom
<1>7. Checked(s, p.s) /\ Sound(p.s)
  BY <1>1, <1>4, CheckedTrans DEF ReadFrom, Checked
<1> HIDE DEF len
<1>8. CASE ~(p.addr + HdrLen + len > partition_size)
  <2>1. Checked(s, Moved(p.s, p, len).s)
    BY <1>4, <1>5, <1>8, <1>7, MovedType, CheckedTrans, Lengths
  <2> QED BY <1>1, <1>2, <1>7, <2>1
<1>9. CASE p.addr + HdrLen + len > partition_size
  BY <1>1, <1>2, <1>7, <1>9
<1> QED BY <1>8, <1>9

(* filesystem_iterator_read_element leaves the iterator inside the         *)
(* partition.                                                              *)
LEMMA IteratorReadType ==
  ASSUME NEW s, Sound(s)
  PROVE  Checked(s, IteratorRead(s).s)
<1>1. IteratorRead(s).s = CheckValidity(s).s
  BY DEF IteratorRead
<1> QED BY <1>1, CheckValidityType
-----------------------------------------------------------------------------
(* Storing and clearing. *)

(* Writing the swap page leaves the state sound. *)
LEMMA BackupType ==
  ASSUME NEW s, Sound(s), NEW cells \in Seq(Cells), Len(cells) = MetaLen + HdrLen
  PROVE  /\ Sound(Backup(s, cells))
         /\ Backup(s, cells).ram = s.ram
         /\ Backup(s, cells).it = s.it
<1>1. Inside(SwapAddress, Len(cells)) /\ SwapAddress \in Int
  BY Lengths DEF Inside
<1> QED BY <1>1, WriteType DEF Backup

(* filesystem_backup_first_element_header leaves the state sound. *)
LEMMA BackupFirstType ==
  ASSUME NEW s, Sound(s), NEW p
  PROVE  /\ Sound(BackupFirst(s, p))
         /\ BackupFirst(s, p).ram = s.ram
         /\ BackupFirst(s, p).it = s.it
<1>1. s.ram.meta \in Metas /\ s.ram.fhdr \in Headers
  BY DEF Sound, States, Rams
<1> QED BY <1>1, CellsOf, BackupType DEF BackupFirst

(* Where an element goes, and with which record-id. *)
LEMMA PlacementType ==
  ASSUME NEW r \in Rams, RamInside(r), NEW len \in Lens
  PROVE  LET p == Placement(r, len)
         IN  /\ p.at \in Nat
             /\ p.id \in 0 .. MaxId
             /\ p.xor \in 0 .. 3
             /\ p.at = 0 \/ MetaLen + HdrLen <= p.at
             /\ len \in 0 .. 3
<1> DEFINE next == r.laddr + HeaderLenAt(r.laddr) + r.llen
           p == Placement(r, len)
<1> SUFFICES /\ p.at \in Nat /\ p.id \in 0 .. MaxId /\ p.xor \in 0 .. 3
             /\ p.at = 0 \/ MetaLen + HdrLen <= p.at
             /\ len \in 0 .. 3
  OBVIOUS
<1>0. len \in 0 .. 3 /\ r.lid \in 0 .. MaxId /\ r.llen \in 0 .. 3 /\ r.laddr \in Nat
  BY PartitionAssumption DEF Rams
<1>1. Inc(r.lid) \in 0 .. MaxId
  BY <1>0, PartitionAssumption DEF Inc
<1>2. Xor(r.llen, len) \in 0 .. 3
  BY <1>0, XorType
<1>3. r.has => next \in Nat /\ MetaLen + HdrLen <= next
  BY <1>0, Lengths DEF RamInside, HeaderLenAt
<1>4. CASE ~r.has
  <2>1. p = [at |-> 0, id |-> r.lid, xor |-> 0]
    BY <1>4 DEF Placement
  <2> HIDE DEF p
  <2> QED BY <2>1, <1>0
<1>5. CASE r.has
  <2>1. p = [at  |-> IF next + HdrLen + len <= partition_size THEN next ELSE 0,
             id  |-> Inc(r.lid),
             xor |-> IF is_dynamic THEN Xor(r.llen, len) ELSE 0]
    BY <1>5 DEF Placement
  <2> HIDE DEF p, next
  <2> QED BY <2>1, <1>0, <1>1, <1>2, <1>3, <1>5
<1> QED BY <1>4, <1>5

(* The header of a new element is of its type. *)
LEMMA HeaderType ==
  ASSUME NEW p, p.id \in 0 .. MaxId, p.xor \in 0 .. 3, NEW v \in Nat, NEW len \in 0 .. 3
  PROVE  Header(p, v, len) \in Headers
<1>1. DataCrc(v, len) \in Nat
  BY DEF DataCrc
<1> QED BY <1>1 DEF Header, Headers

(* The metadata stored with the first element is of its type. *)
LEMMA FirstMetadataType ==
  ASSUME NEW s, Sound(s), NEW p, NEW h \in Headers, NEW len \in FirstLens
  PROVE  FirstMetadata(s, p, h, len) \in Metas
<1> DEFINE last == IF MetaLen + HdrLen + len >= s.ram.laddr THEN 0 ELSE s.ram.laddr
<1>1. last \in Nat /\ len \in Nat
  BY DEF Sound, States, Rams, FirstLens
<1>2. FirstMetadata(s, p, h, len) = [crc |-> HeaderCrc(len, last, h), flen |-> len, last |-> last]
  BY DEF FirstMetadata
<1> HIDE DEF last
<1>3. HeaderCrc(len, last, h) \in Nat
  BY <1>1 DEF HeaderCrc, Headers
<1> QED BY <1>1, <1>2, <1>3 DEF Metas

(* Clearing the stale header after a new element leaves the state sound. *)
LEMMA ClearStaleNextType ==
  ASSUME NEW s, Sound(s), NEW p, p.at \in Nat, NEW len \in 0 .. 3
  PROVE  ReadFrom(s, ClearStaleNext(s, p, len))
<1> DEFINE n == GetNext(s, p.at, p.id, len)
           w == Write(n.s, n.addr, BlankCells(HdrLen))
<1>1. /\ n.hdr \in Headers /\ ReadFrom(s, n.s)
      /\ \/ n.addr = 0
         \/ /\ n.addr = p.at + HeaderLenAt(p.at) + len
            /\ n.addr > p.at
            /\ n.addr + HdrLen + LinkedLen(s, len, n.hdr.xor) <= partition_size
            /\ n.s = s
  BY GetNextType
<1>2. ClearStaleNext(s, p, len) = IF n.ret = "SUCCESS" /\ n.addr > p.at THEN w ELSE n.s
  BY Zenon DEF ClearStaleNext
<1> HIDE DEF n
<1>3. CASE n.ret = "SUCCESS" /\ n.addr > p.at
  <2>1. LinkedLen(s, len, n.hdr.xor) \in 0 .. 3
    BY <1>1, LinkedLenType DEF Headers
  <2>2. n.addr \in Nat /\ n.addr + HdrLen <= partition_size
    BY <1>1, <1>3, <2>1, Lengths DEF HeaderLenAt
  <2>3. BlankCells(HdrLen) \in Seq(Cells) /\ Len(BlankCells(HdrLen)) = HdrLen
    BY CellsOf, Lengths
  <2>4. Inside(n.addr, HdrLen)
    BY <2>2 DEF Inside
  <2>5. Sound(w) /\ w.ram = n.s.ram /\ w.it = n.s.it
    BY <1>1, <2>2, <2>3, <2>4, WriteType DEF ReadFrom
  <2> HIDE DEF w
  <2> QED BY <1>1, <1>2, <1>3, <2>5 DEF ReadFrom
<1>4. CASE ~(n.ret = "SUCCESS" /\ n.addr > p.at)
  BY <1>1, <1>2, <1>4
<1> QED BY <1>3, <1>4

(* filesystem_store_element leaves a sound state wherever it stops. *)
LEMMA StoreElementType ==
  ASSUME NEW s, Sound(s), NEW v \in Nat, NEW len \in Lens
  PROVE  LET r == StoreElement(s, v, len)
         IN  Sound(r.s) /\ Sound(r.checked) /\ Sound(r.begun)
<1> DEFINE r == StoreElement(s, v, len)
           p == Placement(s.ram, len)
           h == Header(p, v, len)
           c == IteratorConflict(s, p.at, len)
           checked == ClearStaleNext(c.s, p, len)
           begun == IF p.at # 0 THEN checked
                    ELSE [checked EXCEPT !.ram.meta = FirstMetadata(checked, p, h, len),
                                         !.ram.fhdr = h]
           cells == IF p.at = 0 THEN MetaCells(begun.ram.meta) \o HeaderCells(h)
                                ELSE HeaderCells(h)
           headed == Write(BackupFirst(begun, p), p.at, cells)
           written == Write(headed, p.at + HeaderLenAt(p.at), DataCells(v, len))
           done == [written EXCEPT !.ram = [written.ram EXCEPT !.has = TRUE, !.laddr = p.at,
                                                               !.lid = p.id, !.llen = len]]
<1> SUFFICES Sound(r.s) /\ Sound(r.checked) /\ Sound(r.begun)
  OBVIOUS
<1>0. s.ram \in Rams /\ RamInside(s.ram)
  BY DEF Sound, States
<1>1. /\ p.at \in Nat /\ p.id \in 0 .. MaxId /\ p.xor \in 0 .. 3
      /\ p.at = 0 \/ MetaLen + HdrLen <= p.at
      /\ len \in 0 .. 3
  BY <1>0, PlacementType
<1>2. CASE p.at + HeaderLenAt(p.at) + len > partition_size
  <2>1. r = [ret |-> "NO_MEM", checked |-> s, begun |-> s, s |-> s]
    BY <1>2 DEF StoreElement
  <2> HIDE DEF r
  <2> QED BY <2>1
<1>3. CASE ~(p.at + HeaderLenAt(p.at) + len > partition_size) /\ c.conflict
  <2>1. r = [ret |-> "INTERNAL", checked |-> c.s, begun |-> c.s, s |-> c.s]
    BY <1>3 DEF StoreElement
  <2> HIDE DEF r
  <2> QED BY <2>1, IteratorConflictType DEF Checked
<1>4. CASE ~(p.at + HeaderLenAt(p.at) + len > partition_size) /\ ~c.conflict
  <2>1. r = IF ReadCells(headed.disk, p.at, Len(cells)) # cells
              THEN [ret |-> "INTERNAL", checked |-> checked, begun |-> begun, s |-> headed]
              ELSE [ret |-> "SUCCESS", checked |-> checked, begun |-> begun, s |-> done]
    BY <1>4 DEF StoreElement
  <2>2. Sound(checked)
    BY <1>1, IteratorConflictType, ClearStaleNextType DEF Checked, ReadFrom
  <2>3. h \in Headers
    BY <1>1, HeaderType
  <2>4. p.at + HeaderLenAt(p.at) + len <= partition_size
    BY <1>1, <1>4, Lengths DEF HeaderLenAt
  <2> HIDE DEF r, p, h, checked
  <2>5. Sound(begun)
    <3>1. CASE p.at = 0
      <4>1. len \in FirstLens
        BY <1>1, <2>4, <3>1, Lengths DEF FirstLens, HeaderLenAt
      <4>2. FirstMetadata(checked, p, h, len) \in Metas
        BY <2>2, <2>3, <4>1, FirstMetadataType
      <4> QED BY <2>2, <2>3, <3>1, <4>2 DEF Sound, States, Rams, RamInside
    <3> QED BY <2>2, <3>1
  <2> HIDE DEF begun
  <2>6. cells \in Seq(Cells) /\ Len(cells) = HeaderLenAt(p.at)
    <3>1. begun.ram.meta \in Metas
      BY <2>5 DEF Sound, States, Rams
    <3> QED BY <2>3, <3>1, CellsOf DEF HeaderLenAt
  <2> HIDE DEF cells
  <2>7. HeaderLenAt(p.at) \in Nat
    BY Lengths DEF HeaderLenAt
  <2>8. Sound(BackupFirst(begun, p))
    BY <2>5, BackupFirstType
  <2>9. Sound(headed)
    <3>1. Inside(p.at, Len(cells)) /\ p.at \in Int
      BY <1>1, <2>4, <2>6, <2>7, Lengths DEF Inside
    <3> QED BY <2>6, <2>8, <3>1, WriteType
  <2> HIDE DEF headed
  <2>10. DataCells(v, len) \in Seq(Cells) /\ Len(DataCells(v, len)) = len
    BY <1>1, CellsOf
  <2>11. Sound(written)
    <3>1. Inside(p.at + HeaderLenAt(p.at), len) /\ p.at + HeaderLenAt(p.at) \in Int
      BY <1>1, <2>4, <2>7, Lengths DEF Inside
    <3> QED BY <2>9, <2>10, <3>1, WriteType
  <2> HIDE DEF written
  <2>12. Sound(done)
    BY <1>1, <2>4, <2>11 DEF Sound, States, Rams, RamInside
  <2> HIDE DEF done
  <2> QED BY <2>1, <2>2, <2>5, <2>9, <2>12
<1> QED BY <1>2, <1>3, <1>4

(* A cleared partition has no latest element. *)
LEMMA ClearedRam ==
  ASSUME NEW q \in Rams, NEW lid \in 0 .. MaxId, NEW llen \in 0 .. 3, NEW laddr \in Nat
  PROVE  LET r == [q EXCEPT !.has = FALSE, !.laddr = laddr, !.llen = llen, !.lid = lid]
         IN  r \in Rams /\ ~r.has
BY PartitionAssumption DEF Rams

(* filesystem_clear_partition leaves the state sound and the partition     *)
(* empty.                                                                  *)
LEMMA ClearPartitionType ==
  ASSUME NEW s, Sound(s)
  PROVE  Sound(ClearPartition(s)) /\ ~ClearPartition(s).ram.has
<1> DEFINE blank == BlankCells(MetaLen + HdrLen)
           r == ReadElementHeader(s, 0)
           b == Backup(r.s, blank)
           w == Write(b, 0, blank)
           lid == IF r.ret = "SUCCESS" THEN Inc(r.hdr.id) ELSE 1
<1>1. ReadFrom(s, r.s) /\ r.hdr \in Headers
  BY ReadElementHeaderType
<1>2. ClearPartition(s) =
        [w EXCEPT !.ram = [w.ram EXCEPT !.has = FALSE, !.laddr = 0, !.llen = 0, !.lid = lid]]
  BY DEF ClearPartition
<1>3. blank \in Seq(Cells) /\ Len(blank) = MetaLen + HdrLen
  BY CellsOf, Lengths
<1> HIDE DEF blank, r
<1>4. Sound(b)
  BY <1>1, <1>3, BackupType DEF ReadFrom
<1> HIDE DEF b
<1>5. Sound(w)
  <2>1. Inside(0, Len(blank)) /\ 0 \in Int
    BY <1>3, Lengths DEF Inside
  <2> QED BY <1>3, <1>4, <2>1, WriteType
<1> HIDE DEF w
<1>6. lid \in 0 .. MaxId
  BY <1>1, PartitionAssumption DEF Headers, Inc
<1> DEFINE ram1 == [w.ram EXCEPT !.has = FALSE, !.laddr = 0, !.llen = 0, !.lid = lid]
<1> HIDE DEF lid
<1>7. ram1 \in Rams /\ RamInside(ram1) /\ ~ram1.has
  <2>1. w.ram \in Rams
    BY <1>5 DEF Sound, States
  <2>2. ram1 \in Rams /\ ~ram1.has
    <3>1. 0 \in 0 .. 3 /\ 0 \in Nat
      OBVIOUS
    <3> QED BY ONLY <1>6, <2>1, <3>1, ClearedRam, Zenon
  <2> QED BY <2>2 DEF RamInside
<1> HIDE DEF ram1
<1>8. Sound([w EXCEPT !.ram = ram1]) /\ ~[w EXCEPT !.ram = ram1].ram.has
  BY <1>5, <1>7 DEF Sound, States
<1> QED BY <1>2, <1>8 DEF ram1
-----------------------------------------------------------------------------
(* The storer's loops. *)

(* f holds the first m rounds of find_chunk_from_timestamp. *)
IsSearch(f, stamp, start, m) ==
  f = [k \in 0 .. m |-> IF k = 0 THEN start ELSE FindStep(stamp, f[k - 1])]

(* The recursion in Search has a solution. *)
LEMMA SearchExists ==
  ASSUME NEW stamp, NEW start, NEW m \in Nat
  PROVE  \E f : IsSearch(f, stamp, start, m)
<1> DEFINE T == {n \in Nat : \E f : IsSearch(f, stamp, start, n)}
<1>1. 0 \in T
  <2> DEFINE f == [k \in 0 .. 0 |-> start]
  <2>1. IsSearch(f, stamp, start, 0)
    BY DEF IsSearch
  <2> HIDE DEF f
  <2> QED BY <2>1, Zenon
<1>2. ASSUME NEW n \in Nat, n \in T PROVE n + 1 \in T
  <2>1. PICK f : IsSearch(f, stamp, start, n)
    BY <1>2
  <2> DEFINE g == [k \in 0 .. n + 1 |-> IF k <= n THEN f[k] ELSE FindStep(stamp, f[n])]
  <2>2. \A k \in 0 .. n + 1 : g[k] = IF k = 0 THEN start ELSE FindStep(stamp, g[k - 1])
    <3> SUFFICES ASSUME NEW k \in 0 .. n + 1
                 PROVE  g[k] = IF k = 0 THEN start ELSE FindStep(stamp, g[k - 1])
      OBVIOUS
    <3>1. CASE k = 0
      BY <2>1, <3>1 DEF IsSearch
    <3>2. CASE k \in 1 .. n
      <4>1. g[k] = f[k] /\ g[k - 1] = f[k - 1] /\ k \in 0 .. n /\ k # 0
        BY <3>2
      <4>2. f[k] = FindStep(stamp, f[k - 1])
        BY <2>1, <4>1 DEF IsSearch
      <4> QED BY <4>1, <4>2
    <3>3. CASE k = n + 1
      <4>1. g[k] = FindStep(stamp, f[n]) /\ g[k - 1] = f[n] /\ k # 0
        BY <3>3
      <4> QED BY <4>1
    <3> QED BY <3>1, <3>2, <3>3
  <2>3. IsSearch(g, stamp, start, n + 1)
    BY <2>2 DEF IsSearch
  <2>4. n + 1 \in Nat
    OBVIOUS
  <2> HIDE DEF g
  <2> QED BY <2>3, <2>4, Zenon
<1> HIDE DEF T
<1>3. Nat \subseteq T
  BY <1>1, <1>2, SetInduction
<1> USE DEF T
<1> QED BY <1>3

(* The recursion in Search is well-founded, so its equation holds. *)
LEMMA SearchDef ==
  ASSUME NEW stamp, NEW start
  PROVE  /\ Search(stamp, start)[0] = start
         /\ \A k \in 1 .. Depth :
              Search(stamp, start)[k] = FindStep(stamp, Search(stamp, start)[k - 1])
<1>0. Depth \in Nat
  BY DepthType
<1>1. Search(stamp, start) = CHOOSE f : IsSearch(f, stamp, start, Depth)
  BY Zenon DEF Search, IsSearch
<1>2. \E f : IsSearch(f, stamp, start, Depth)
  BY <1>0, SearchExists
<1>3. IsSearch(Search(stamp, start), stamp, start, Depth)
  BY <1>1, <1>2, Zenon
<1> QED BY <1>0, <1>3 DEF IsSearch

(* f holds the first m rounds of get_next_chunk. *)
IsSkip(f, start, m) ==
  f = [k \in 0 .. m |-> IF k = 0 THEN start ELSE NextStep(f[k - 1])]

(* The recursion in Skip has a solution. *)
LEMMA SkipExists ==
  ASSUME NEW start, NEW m \in Nat
  PROVE  \E f : IsSkip(f, start, m)
<1> DEFINE T == {n \in Nat : \E f : IsSkip(f, start, n)}
<1>1. 0 \in T
  <2> DEFINE f == [k \in 0 .. 0 |-> start]
  <2>1. IsSkip(f, start, 0)
    BY DEF IsSkip
  <2> HIDE DEF f
  <2> QED BY <2>1, Zenon
<1>2. ASSUME NEW n \in Nat, n \in T PROVE n + 1 \in T
  <2>1. PICK f : IsSkip(f, start, n)
    BY <1>2
  <2> DEFINE g == [k \in 0 .. n + 1 |-> IF k <= n THEN f[k] ELSE NextStep(f[n])]
  <2>2. \A k \in 0 .. n + 1 : g[k] = IF k = 0 THEN start ELSE NextStep(g[k - 1])
    <3> SUFFICES ASSUME NEW k \in 0 .. n + 1
                 PROVE  g[k] = IF k = 0 THEN start ELSE NextStep(g[k - 1])
      OBVIOUS
    <3>1. CASE k = 0
      BY <2>1, <3>1 DEF IsSkip
    <3>2. CASE k \in 1 .. n
      <4>1. g[k] = f[k] /\ g[k - 1] = f[k - 1] /\ k \in 0 .. n /\ k # 0
        BY <3>2
      <4>2. f[k] = NextStep(f[k - 1])
        BY <2>1, <4>1 DEF IsSkip
      <4> QED BY <4>1, <4>2
    <3>3. CASE k = n + 1
      <4>1. g[k] = NextStep(f[n]) /\ g[k - 1] = f[n] /\ k # 0
        BY <3>3
      <4> QED BY <4>1
    <3> QED BY <3>1, <3>2, <3>3
  <2>3. IsSkip(g, start, n + 1)
    BY <2>2 DEF IsSkip
  <2>4. n + 1 \in Nat
    OBVIOUS
  <2> HIDE DEF g
  <2> QED BY <2>3, <2>4, Zenon
<1> HIDE DEF T
<1>3. Nat \subseteq T
  BY <1>1, <1>2, SetInduction
<1> USE DEF T
<1> QED BY <1>3

(* The recursion in Skip is well-founded, so its equation holds. *)
LEMMA SkipDef ==
  ASSUME NEW start
  PROVE  /\ Skip(start)[0] = start
         /\ \A k \in 1 .. Depth :
              Skip(start)[k] = NextStep(Skip(start)[k - 1])
<1>0. Depth \in Nat
  BY DepthType
<1>1. Skip(start) = CHOOSE f : IsSkip(f, start, Depth)
  BY Zenon DEF Skip, IsSkip
<1>2. \E f : IsSkip(f, start, Depth)
  BY <1>0, SkipExists
<1>3. IsSkip(Skip(start), start, Depth)
  BY <1>1, <1>2, Zenon
<1> QED BY <1>0, <1>3 DEF IsSkip

(* The ways a search ends leave the state as it is. *)
LEMMA EndedType ==
  ASSUME NEW q, NEW ret, NEW found, NEW r, Checked(q, r.s)
  PROVE  /\ Checked(q, Ended(ret, found, r.s).s)
         /\ Checked(q, Aborted(r).s)
         /\ Checked(q, Taken(r).s)
<1>1. Checked(q, Invalidated(r.s))
  BY InvalidatedType DEF Checked
<1>2. Ended(ret, found, r.s).s = r.s /\ Aborted(r).s = Invalidated(r.s) /\ Taken(r).s = r.s
  BY DEF Ended, Aborted, Taken
<1> QED BY <1>1, <1>2

(* One step of the search for the oldest chunk to send is a use of the     *)
(* iterator.                                                               *)
LEMMA FindStepType ==
  ASSUME NEW q, NEW stamp, NEW c, Checked(q, c.s)
  PROVE  Checked(q, FindStep(stamp, c).s)
<1> DEFINE r == IteratorRead(c.s)
           n == IteratorNext(r.s)
           p == IteratorPrevious(r.s)
           f == FindStep(stamp, c)
<1>0. Sound(c.s)
  BY DEF Checked
<1>1. Checked(q, r.s) /\ Sound(r.s)
  BY <1>0, IteratorReadType, CheckedTrans DEF Checked
<1>2. Checked(q, n.s) /\ Checked(q, p.s)
  <2> HIDE DEF r
  <2>1. Checked(r.s, n.s) /\ Checked(r.s, p.s)
    BY <1>1, IteratorNextType, IteratorPreviousType
  <2> QED BY <1>1, <2>1, CheckedTrans
<1>3. \/ f = c
      \/ f = Aborted(r) \/ f = Aborted(n) \/ f = Aborted(p)
      \/ f = Ended("SUCCESS", TRUE, n.s) \/ f = Ended("SUCCESS", FALSE, n.s)
      \/ f = Ended("NONE", FALSE, p.s) \/ f = Ended("SUCCESS", TRUE, p.s)
  BY DEF FindStep
<1> HIDE DEF f, r, n, p
<1>4. /\ Checked(q, Aborted(r).s) /\ Checked(q, Aborted(n).s) /\ Checked(q, Aborted(p).s)
      /\ \A ret, found : /\ Checked(q, Ended(ret, found, n.s).s)
                         /\ Checked(q, Ended(ret, found, p.s).s)
  BY <1>1, <1>2, EndedType
<1>5. Checked(q, f.s)
  BY <1>3, <1>4, Zenon
<1> QED BY <1>5 DEF f

(* The search for the oldest chunk to send is a use of the iterator. *)
LEMMA SearchType ==
  ASSUME NEW q, NEW stamp, NEW start, Checked(q, start.s)
  PROVE  Checked(q, Search(stamp, start)[Depth].s)
<1> DEFINE At(n) == Search(stamp, start)[n]
           T == {n \in Nat : n <= Depth => Checked(q, At(n).s)}
<1>0. Depth \in Nat
  BY DepthType
<1>1. 0 \in T
  BY SearchDef
<1>2. ASSUME NEW n \in Nat, n \in T PROVE n + 1 \in T
  <2> SUFFICES ASSUME n + 1 <= Depth PROVE Checked(q, At(n + 1).s)
    OBVIOUS
  <2>1. n + 1 \in 1 .. Depth /\ (n + 1) - 1 = n /\ n <= Depth
    BY <1>0
  <2>2. At(n + 1) = FindStep(stamp, At(n))
    BY <2>1, SearchDef
  <2>3. Checked(q, At(n).s)
    BY <1>2, <2>1
  <2> HIDE DEF At
  <2> QED BY <2>2, <2>3, FindStepType
<1> HIDE DEF T
<1>3. Nat \subseteq T
  BY <1>1, <1>2, SetInduction
<1>4. Depth \in T /\ Depth <= Depth
  BY <1>0, <1>3
<1> QED BY <1>4 DEF T

(* storer_find_*_chunk_from_timestamp changes nothing but the iterator and *)
(* the loaded metadata.                                                    *)
LEMMA FindChunkType ==
  ASSUME NEW s, Sound(s), NEW stamp
  PROVE  Checked(s, FindChunk(s, stamp).s)
<1> DEFINE i == IteratorInit(s)
           start == Ended("NONE", FALSE, i.s)
<1>1. Checked(s, i.s)
  BY IteratorInitType
<1>2. FindChunk(s, stamp) = IF i.ret # "SUCCESS" THEN Aborted(i) ELSE Search(stamp, start)[Depth]
  BY Zenon DEF FindChunk
<1> HIDE DEF i
<1>3. Checked(s, start.s) /\ Checked(s, Aborted(i).s)
  BY <1>1, EndedType
<1> HIDE DEF start
<1> QED BY <1>2, <1>3, SearchType

(* One step of the search for the next chunk is a use of the iterator. *)
LEMMA NextStepType ==
  ASSUME NEW q, NEW c, Checked(q, c.s)
  PROVE  Checked(q, NextStep(c).s)
<1> DEFINE r == IteratorRead(c.s)
           n == IteratorNext(c.s)
           t == IteratorRead(n.s)
           f == NextStep(c)
<1>0. Sound(c.s)
  BY DEF Checked
<1>1. Checked(q, r.s) /\ Checked(q, n.s) /\ Sound(n.s)
  BY <1>0, IteratorReadType, IteratorNextType, CheckedTrans DEF Checked
<1>2. Checked(q, t.s)
  <2> HIDE DEF n
  <2> QED BY <1>1, IteratorReadType, CheckedTrans
<1>3. \/ f = c
      \/ f = Taken(r) \/ f = Ended("NONE", FALSE, r.s) \/ f = Aborted(r)
      \/ f = Taken(t) \/ f = Ended("NONE", FALSE, t.s) \/ f = Aborted(t)
      \/ f = Aborted(n)
  BY DEF NextStep
<1> HIDE DEF f, r, n, t
<1>4. /\ Checked(q, Aborted(r).s) /\ Checked(q, Aborted(n).s) /\ Checked(q, Aborted(t).s)
      /\ Checked(q, Taken(r).s) /\ Checked(q, Taken(t).s)
      /\ \A ret, found : /\ Checked(q, Ended(ret, found, r.s).s)
                         /\ Checked(q, Ended(ret, found, t.s).s)
  BY <1>1, <1>2, EndedType
<1>5. Checked(q, f.s)
  BY <1>3, <1>4, Zenon
<1> QED BY <1>5 DEF f

(* The search for the next chunk is a use of the iterator. *)
LEMMA SkipType ==
  ASSUME NEW q, NEW start, Checked(q, start.s)
  PROVE  Checked(q, Skip(start)[Depth].s)
<1> DEFINE At(n) == Skip(start)[n]
           T == {n \in Nat : n <= Depth => Checked(q, At(n).s)}
<1>0. Depth \in Nat
  BY DepthType
<1>1. 0 \in T
  BY SkipDef
<1>2. ASSUME NEW n \in Nat, n \in T PROVE n + 1 \in T
  <2> SUFFICES ASSUME n + 1 <= Depth PROVE Checked(q, At(n + 1).s)
    OBVIOUS
  <2>1. n + 1 \in 1 .. Depth /\ (n + 1) - 1 = n /\ n <= Depth
    BY <1>0
  <2>2. At(n + 1) = NextStep(At(n))
    BY <2>1, SkipDef
  <2>3. Checked(q, At(n).s)
    BY <1>2, <2>1
  <2> HIDE DEF At
  <2> QED BY <2>2, <2>3, NextStepType
<1> HIDE DEF T
<1>3. Nat \subseteq T
  BY <1>1, <1>2, SetInduction
<1>4. Depth \in T /\ Depth <= Depth
  BY <1>0, <1>3
<1> QED BY <1>4 DEF T

(* storer_get_next_*_chunk changes nothing but the iterator and the loaded *)
(* metadata.                                                               *)
LEMMA GetNextChunkType ==
  ASSUME NEW s, Sound(s), NEW found
  PROVE  Checked(s, GetNextChunk(s, found).s)
<1> DEFINE start == Ended("NONE", found, s)
<1>1. start.s = s /\ Checked(s, s)
  BY DEF Ended, Checked, SameButMeta
<1> HIDE DEF start
<1>2. Checked(s, Skip(start)[Depth].s)
  BY <1>1, SkipType
<1> QED BY <1>2 DEF GetNextChunk, start
-----------------------------------------------------------------------------
(* The type invariant.  It is inductive: what the library believes about   *)
(* the latest element and the iterator was checked against the size of the *)
(* partition when it was read, and whatever is found in the cells of a     *)
(* header was written there by the library.                                *)
FsInv ==
  /\ mode \in {"down", "up"}
  /\ attempts \in Nat
  /\ Sound(Now)

(* Soundness of the present state, variable by variable. *)
LEMMA SoundNow ==
  Sound(Now) <=> /\ disk \in [Addresses -> Cells]
                 /\ track \in Tracks
                 /\ ram \in Rams
                 /\ it \in Iterators
                 /\ TailBlank(disk)
                 /\ RamInside(ram)
                 /\ IteratorInside(it)
BY DEF Now, Sound, States

(* A step to a sound state makes the present state sound. *)
LEMMA BecomeSound ==
  ASSUME NEW s, Sound(s), Become(s)
  PROVE  Sound(Now)'
BY DEF Become, Now, Sound, States

(* What a power failure leaves is sound: the RAM is reset. *)
LEMMA PowerLostType ==
  ASSUME NEW s, Sound(s)
  PROVE  Sound(PowerLost(s.disk))
<1>1. NoRam \in Rams /\ RamInside(NoRam)
  BY Lengths, PartitionAssumption DEF NoRam, Rams, NoMeta, Metas, NoHeader, Headers, RamInside
<1>2. NoIterator \in Iterators /\ IteratorInside(NoIterator)
  BY PartitionAssumption DEF NoIterator, Iterators, NoHeader, Headers, IteratorInside
<1>3. s.disk \in [Addresses -> Cells] /\ TailBlank(s.disk)
  BY DEF Sound, States
<1> QED BY <1>1, <1>2, <1>3 DEF PowerLost, Sound, States, Tracks

(* The invariant holds initially. *)
LEMMA InitInv == Init => FsInv
<1> SUFFICES ASSUME Init PROVE FsInv
  OBVIOUS
<1> DEFINE d == [a \in Addresses |-> Blank]
<1>1. NoRam \in Rams /\ RamInside(NoRam)
  BY Lengths, PartitionAssumption DEF NoRam, Rams, NoMeta, Metas, NoHeader, Headers, RamInside
<1>2. NoIterator \in Iterators /\ IteratorInside(NoIterator)
  BY PartitionAssumption DEF NoIterator, Iterators, NoHeader, Headers, IteratorInside
<1>3. d \in [Addresses -> Cells] /\ TailBlank(d)
  BY BlankType, Lengths DEF TailBlank, Addresses
<1> HIDE DEF d
<1>4. disk = d /\ track \in Tracks /\ ram = NoRam /\ it = NoIterator
  BY DEF Init, d, Tracks
<1>5. Sound(Now)
  BY <1>1, <1>2, <1>3, <1>4, SoundNow
<1> QED BY <1>5 DEF FsInv, Init

(* A power failure in the middle of device operations leaves a storage     *)
(* that can be registered.                                                 *)
LEMMA CrashType ==
  ASSUME NEW s, Sound(s), NEW ops \in Seq(Ops), NEW k \in 0 .. Len(ops)
  PROVE  Sound(PowerLost(Trace(s, ops)[k].disk))
BY TraceType, PowerLostType

(* filesystem_register_partition preserves the invariant. *)
LEMMA RegisterInv == FsInv /\ Register => FsInv'
<1> SUFFICES ASSUME FsInv, Register PROVE FsInv'
  OBVIOUS
<1>1. Sound(RegisterPartition(Now))
  BY RegisterType DEF FsInv
<1>2. Sound(Now)'
  BY <1>1, BecomeSound DEF Register
<1> QED BY <1>2 DEF FsInv, Register, ghosts

(* A power failure during the registration preserves the invariant. *)
LEMMA RegisterCrashInv == FsInv /\ RegisterCrash => FsInv'
<1> SUFFICES ASSUME FsInv, RegisterCrash PROVE FsInv'
  OBVIOUS
<1> DEFINE ops == RegisterPartition(Now).ops
<1>1. Sound(Now) /\ ops \in Seq(Ops)
  BY RegisterType DEF FsInv, Sound, States
<1>2. PICK k \in 1 .. Len(ops) - 1 : Become(PowerLost(Trace(Now, ops)[k].disk))
  BY DEF RegisterCrash
<1> HIDE DEF ops
<1>3. k \in 0 .. Len(ops)
  BY <1>1
<1>4. Sound(PowerLost(Trace(Now, ops)[k].disk))
  BY <1>1, <1>3, CrashType
<1>5. Sound(Now)'
  BY <1>2, <1>4, BecomeSound
<1> QED BY <1>5 DEF FsInv, RegisterCrash, ghosts

(* filesystem_store_element preserves the invariant. *)
LEMMA StoreInv ==
  ASSUME FsInv, NEW len \in Lens, Store(len)
  PROVE  FsInv'
<1> DEFINE r == StoreElement(Now, attempts + 1, len)
<1>1. Sound(r.s)
  BY StoreElementType DEF FsInv
<1>2. Become(r.s) /\ attempts' = (IF r.ret = "INTERNAL" THEN attempts ELSE attempts + 1)
  BY DEF Store
<1> HIDE DEF r
<1>3. Sound(Now)'
  BY <1>1, <1>2, BecomeSound
<1> QED BY <1>2, <1>3 DEF FsInv, Store

(* A storage error during filesystem_store_element preserves the           *)
(* invariant.                                                              *)
LEMMA StoreFailsInv ==
  ASSUME FsInv, NEW len \in Lens, StoreFails(len)
  PROVE  FsInv'
<1> DEFINE r == StoreElement(Now, attempts + 1, len)
           ops == r.s.ops
           Left(k) == [Trace(Now, ops)[k] EXCEPT
                         !.it = r.s.it,
                         !.ram = IF k < Len(r.checked.ops) THEN r.checked.ram
                                                           ELSE r.begun.ram]
<1>0. Sound(Now) /\ attempts + 1 \in Nat
  BY DEF FsInv
<1>1. Sound(r.s) /\ Sound(r.checked) /\ Sound(r.begun)
  BY <1>0, StoreElementType
<1>2. PICK k \in 0 .. Len(ops) : Become(Left(k))
  BY DEF StoreFails
<1>3. Sound(Left(k))
  <2> DEFINE t == Trace(Now, ops)[k]
             q == IF k < Len(r.checked.ops) THEN r.checked.ram ELSE r.begun.ram
  <2>1. ops \in Seq(Ops)
    BY <1>1 DEF Sound, States
  <2>2. Sound(t)
    BY <1>0, <2>1, TraceType
  <2>3. q \in Rams /\ RamInside(q) /\ r.s.it \in Iterators /\ IteratorInside(r.s.it)
    BY <1>1 DEF Sound, States
  <2>4. Left(k) = [t EXCEPT !.it = r.s.it, !.ram = q]
    OBVIOUS
  <2> HIDE DEF t, q, Left, r
  <2>5. Sound([t EXCEPT !.it = r.s.it, !.ram = q])
    BY <2>2, <2>3 DEF Sound, States
  <2> QED BY <2>4, <2>5
<1> HIDE DEF Left
<1>4. Sound(Now)'
  BY <1>2, <1>3, BecomeSound
<1> QED BY <1>4 DEF FsInv, StoreFails

(* A power failure during filesystem_store_element preserves the           *)
(* invariant.                                                              *)
LEMMA StoreCrashInv ==
  ASSUME FsInv, NEW len \in Lens, StoreCrash(len)
  PROVE  FsInv'
<1> DEFINE r == StoreElement(Now, attempts + 1, len)
           ops == r.s.ops
<1>1. Sound(Now) /\ ops \in Seq(Ops)
  BY StoreElementType DEF FsInv, Sound, States
<1>2. PICK k \in 0 .. Len(ops) : Become(PowerLost(Trace(Now, ops)[k].disk))
  BY DEF StoreCrash
<1> HIDE DEF ops
<1>3. Sound(PowerLost(Trace(Now, ops)[k].disk))
  BY <1>1, CrashType
<1>4. Sound(Now)'
  BY <1>2, <1>3, BecomeSound
<1> QED BY <1>4 DEF FsInv, StoreCrash

(* filesystem_clear_partition preserves the invariant. *)
LEMMA ClearInv == FsInv /\ Clear => FsInv'
<1> SUFFICES ASSUME FsInv, Clear PROVE FsInv'
  OBVIOUS
<1>1. Sound(ClearPartition(Now))
  BY ClearPartitionType DEF FsInv
<1>2. Sound(Now)'
  BY <1>1, BecomeSound DEF Clear
<1> QED BY <1>2 DEF FsInv, Clear

(* A power failure during filesystem_clear_partition preserves the         *)
(* invariant.                                                              *)
LEMMA ClearCrashInv == FsInv /\ ClearCrash => FsInv'
<1> SUFFICES ASSUME FsInv, ClearCrash PROVE FsInv'
  OBVIOUS
<1> DEFINE ops == ClearPartition(Now).ops
<1>1. Sound(Now) /\ ops \in Seq(Ops)
  BY ClearPartitionType DEF FsInv, Sound, States
<1>2. PICK k \in 0 .. Len(ops) - 1 : Become(PowerLost(Trace(Now, ops)[k].disk))
  BY DEF ClearCrash
<1> HIDE DEF ops
<1>3. k \in 0 .. Len(ops)
  BY <1>1
<1>4. Sound(PowerLost(Trace(Now, ops)[k].disk))
  BY <1>1, <1>3, CrashType
<1>5. Sound(Now)'
  BY <1>2, <1>4, BecomeSound
<1> QED BY <1>5 DEF FsInv, ClearCrash, Flag

(* A step that changes nothing preserves the invariant. *)
LEMMA StutterInv == FsInv /\ UNCHANGED vars => FsInv'
BY SoundNow DEF FsInv, vars, libvars, ghosts, bounds, Now, Sound, States

(* Every step of the filesystem preserves the invariant. *)
LEMMA NextInv == FsInv /\ [Next]_vars => FsInv'
BY RegisterInv, RegisterCrashInv, StoreInv, StoreFailsInv, StoreCrashInv, ClearInv,
   ClearCrashInv, StutterInv DEF Next

(* The invariant contains the type invariant. *)
LEMMA InvTypeOK == FsInv => TypeOK
<1> SUFFICES ASSUME FsInv PROVE TypeOK
  OBVIOUS
<1>1. /\ disk \in [Addresses -> Cells] /\ track \in Tracks /\ ram \in Rams /\ it \in Iterators
      /\ TailBlank(disk) /\ RamInside(ram) /\ IteratorInside(it)
  BY SoundNow DEF FsInv
<1> QED BY <1>1 DEF FsInv, TypeOK, Tracks, TailBlank, RamInside, IteratorInside, Rams

(* For every partition filesystem_register_partition accepts, on EEPROM or *)
(* in flash of any unit, static or dynamic, with or without CRC: the       *)
(* latest element that the library keeps in RAM, and so every address it   *)
(* stores at next, and the iterator stay inside the partition, although    *)
(* both are computed from headers that a power failure or a storage error  *)
(* in filesystem_store_element may have left half written.                 *)
THEOREM FilesystemTypeOK == Spec => []TypeOK
<1>1. Spec => []FsInv
  BY InitInv, NextInv, PTL DEF Spec
<1> QED BY <1>1, InvTypeOK, PTL

(* Every step of the storer preserves the invariant. *)
LEMMA StorerNextInv == FsInv /\ [StorerNext]_storervars => FsInv'
<1> SUFFICES ASSUME FsInv, [StorerNext]_storervars PROVE FsInv'
  OBVIOUS
<1>0. Sound(Now)
  BY DEF FsInv
<1>1. ASSUME NEW stamp \in Requested, FindChunkFromTimestamp(stamp) PROVE FsInv'
  <2>1. Sound(FindChunk(Now, stamp).s)
    BY <1>0, FindChunkType DEF Checked
  <2>2. Sound(Now)'
    BY <1>1, <2>1, BecomeSound DEF FindChunkFromTimestamp
  <2> QED BY <1>1, <2>2 DEF FsInv, FindChunkFromTimestamp, ghosts
<1>2. CASE GetNextChunkCall
  <2>1. Sound(GetNextChunk(Now, found_timestamp).s)
    BY <1>0, GetNextChunkType DEF Checked
  <2>2. Sound(Now)'
    BY <1>2, <2>1, BecomeSound DEF GetNextChunkCall
  <2> QED BY <1>2, <2>2 DEF FsInv, GetNextChunkCall, ghosts
<1>3. CASE InvalidateIterators
  <2>1. Sound(Invalidated(Now))
    BY <1>0, InvalidatedType
  <2>2. Sound(Now)'
    BY <1>3, <2>1, BecomeSound DEF InvalidateIterators
  <2> QED BY <1>3, <2>2 DEF FsInv, InvalidateIterators, ghosts
<1>4. CASE Next
  BY <1>4, NextInv
<1>5. CASE UNCHANGED storervars
  BY <1>5, StutterInv DEF storervars
<1> QED BY <1>1, <1>2, <1>3, <1>4, <1>5 DEF StorerNext, Next

(* The same with storer_lib.c on top: its searches along the iterator      *)
(* (storer_find_*_chunk_from_timestamp, storer_get_next_*_chunk), between  *)
(* the stores and over half-written elements, never lead the library out   *)
(* of its partition.                                                       *)
THEOREM StorerTypeOK == StorerSpec => []TypeOK
<1>1. StorerInit => FsInv
  BY InitInv DEF StorerInit
<1>2. StorerSpec => []FsInv
  BY <1>1, StorerNextInv, PTL DEF StorerSpec
<1> QED BY <1>2, InvTypeOK, PTL
-----------------------------------------------------------------------------
(* What a first header is on the storage. *)

(* A first header is valid wherever its cells are. *)
LEMMA ValidShift ==
  ASSUME NEW d \in [Addresses -> Cells], NEW e \in [Addresses -> Cells],
         NEW a \in Int, NEW b \in Int,
         \A i \in 0 .. MetaLen + HdrLen - 1 : Read(e, b + i) = Read(d, a + i)
  PROVE  /\ ReadCells(e, b, MetaLen + HdrLen) = ReadCells(d, a, MetaLen + HdrLen)
         /\ ValidFirst(e, b) <=> ValidFirst(d, a)
<1> USE Lengths
<1>1. ReadCells(e, b, MetaLen + HdrLen) = ReadCells(d, a, MetaLen + HdrLen)
  <2>1. \A i \in 1 .. MetaLen + HdrLen : Read(e, b + i - 1) = Read(d, a + i - 1)
    <3> TAKE i \in 1 .. MetaLen + HdrLen
    <3>1. i - 1 \in 0 .. MetaLen + HdrLen - 1
      OBVIOUS
    <3>2. b + (i - 1) = b + i - 1 /\ a + (i - 1) = a + i - 1
      OBVIOUS
    <3> QED BY <3>1, <3>2
  <2> QED BY <2>1 DEF ReadCells
<1>2. MetaAt(e, b) = MetaAt(d, a)
  <2>1. /\ Read(e, b + 0) = Read(d, a + 0) /\ Read(e, b + 1) = Read(d, a + 1)
        /\ Read(e, b + 2) = Read(d, a + 2) /\ b + 0 = b /\ a + 0 = a
    OBVIOUS
  <2> QED BY <2>1 DEF MetaAt
<1>3. HeaderAt(e, b + MetaLen) = HeaderAt(d, a + MetaLen)
  <2>1. /\ Read(e, b + MetaLen) = Read(d, a + MetaLen)
        /\ Read(e, b + (MetaLen + HdrLen - 1)) = Read(d, a + (MetaLen + HdrLen - 1))
    OBVIOUS
  <2>2. /\ b + MetaLen + HdrLen - 1 = b + (MetaLen + HdrLen - 1)
        /\ a + MetaLen + HdrLen - 1 = a + (MetaLen + HdrLen - 1)
    OBVIOUS
  <2>3. is_dynamic => Read(e, b + MetaLen + 1) = Read(d, a + MetaLen + 1)
    <3>1. is_dynamic => MetaLen + 1 \in 0 .. MetaLen + HdrLen - 1
      BY PartitionAssumption DEF HdrLen, Flag
    <3>2. b + (MetaLen + 1) = b + MetaLen + 1 /\ a + (MetaLen + 1) = a + MetaLen + 1
      OBVIOUS
    <3> QED BY <3>1, <3>2
  <2> QED BY <2>1, <2>2, <2>3 DEF HeaderAt
<1> QED BY <1>1, <1>2, <1>3 DEF ValidFirst

(* The elements of a concatenation. *)
LEMMA ConcatAt ==
  ASSUME NEW S, NEW p \in Seq(S), NEW q \in Seq(S)
  PROVE  /\ p \o q \in Seq(S)
         /\ Len(p \o q) = Len(p) + Len(q)
         /\ \A i \in 1 .. Len(p) : (p \o q)[i] = p[i]
         /\ \A i \in 1 .. Len(q) : (p \o q)[Len(p) + i] = q[i]
OBVIOUS

(* A header of this partition: the fields it does not have are 0. *)
Exact(h) == (~is_dynamic => h.xor = 0) /\ (~has_element_crc => h.crc = 0)

(* The cells of a first header with a correct CRC are found valid. *)
LEMMA ValidCells ==
  ASSUME NEW d \in [Addresses -> Cells], NEW a \in Int,
         NEW m \in Metas, NEW h \in Headers, Exact(h),
         m.crc = HeaderCrc(m.flen, m.last, h),
         ReadCells(d, a, MetaLen + HdrLen) = MetaCells(m) \o HeaderCells(h)
  PROVE  ValidFirst(d, a) /\ MetaAt(d, a) = m
<1> USE Lengths
<1> DEFINE cells == MetaCells(m) \o HeaderCells(h)
<1>1. \A i \in 1 .. MetaLen + HdrLen : Read(d, a + i - 1) = cells[i]
  BY DEF ReadCells
<1>2. /\ HeaderCells(h) \in Seq(Cells) /\ Len(HeaderCells(h)) = HdrLen
      /\ MetaCells(m) \in Seq(Cells) /\ Len(MetaCells(m)) = MetaLen
  BY CellsOf
<1>3. /\ \A i \in 1 .. MetaLen : cells[i] = MetaCells(m)[i]
      /\ \A i \in 1 .. HdrLen : cells[MetaLen + i] = HeaderCells(h)[i]
  <2> DEFINE p == MetaCells(m)
             q == HeaderCells(h)
  <2>1. p \in Seq(Cells) /\ q \in Seq(Cells)
    BY <1>2
  <2>2. /\ \A i \in 1 .. Len(p) : (p \o q)[i] = p[i]
        /\ \A i \in 1 .. Len(q) : (p \o q)[Len(p) + i] = q[i]
    <3> HIDE DEF p, q
    <3> QED BY <2>1, ConcatAt
  <2>3. Len(p) = MetaLen /\ Len(q) = HdrLen /\ cells = p \o q
    BY <1>2
  <2> HIDE DEF p, q
  <2>4. /\ \A i \in 1 .. MetaLen : cells[i] = p[i]
        /\ \A i \in 1 .. HdrLen : cells[MetaLen + i] = q[i]
    BY ONLY <2>2, <2>3, Zenon
  <2> QED BY <2>4 DEF p, q
<1> HIDE DEF cells
<1>4. /\ Read(d, a) = Cell("mcrc", m.crc)
      /\ Read(d, a + 1) = Cell("flen", m.flen)
      /\ Read(d, a + 2) = Cell("last", m.last)
  <2>1. /\ MetaCells(m)[1] = Cell("mcrc", m.crc)
        /\ MetaCells(m)[2] = Cell("flen", m.flen)
        /\ MetaCells(m)[3] = Cell("last", m.last)
    BY DEF MetaCells
  <2>2. a + 1 - 1 = a /\ a + 2 - 1 = a + 1 /\ a + 3 - 1 = a + 2
    OBVIOUS
  <2>3. Read(d, a + 1 - 1) = cells[1] /\ Read(d, a + 2 - 1) = cells[2] /\ Read(d, a + 3 - 1) = cells[3]
    BY <1>1
  <2> QED BY <1>3, <2>1, <2>2, <2>3
<1>5. MetaAt(d, a) = m
  BY <1>4 DEF MetaAt, Cell, Metas
<1>6. \A i \in 1 .. HdrLen : Read(d, a + MetaLen + i - 1) = HeaderCells(h)[i]
  <2> TAKE i \in 1 .. HdrLen
  <2>1. MetaLen + i \in 1 .. MetaLen + HdrLen /\ a + MetaLen + i - 1 = a + (MetaLen + i) - 1
    OBVIOUS
  <2> QED BY <1>1, <1>3, <2>1
<1>7. HeaderAt(d, a + MetaLen) = h
  <2> DEFINE b == a + MetaLen
  <2>1. b \in Int
    OBVIOUS
  <2>2. \A i \in 1 .. HdrLen : Read(d, b + i - 1) = HeaderCells(h)[i]
    BY <1>6
  <2>3. /\ h.id \in Nat /\ h.xor \in 0 .. 3 /\ h.crc \in Nat
        /\ h = [id |-> h.id, xor |-> h.xor, crc |-> h.crc]
    BY PartitionAssumption DEF Headers
  <2> HIDE DEF b
  <2>4. Read(d, b) = Cell("id", h.id)
    <3>1. HeaderCells(h)[1] = Cell("id", h.id)
      BY DEF HeaderCells
    <3>2. b + 1 - 1 = b
      BY <2>1
    <3> QED BY <2>2, <3>1, <3>2
  <2>5. is_dynamic => Read(d, b + 1) = Cell("xor", h.xor)
    <3> SUFFICES ASSUME is_dynamic PROVE Read(d, b + 1) = Cell("xor", h.xor)
      OBVIOUS
    <3>1. HeaderCells(h)[2] = Cell("xor", h.xor) /\ 2 \in 1 .. HdrLen
      BY PartitionAssumption DEF HeaderCells, HdrLen, Flag
    <3>2. b + 2 - 1 = b + 1
      BY <2>1
    <3> QED BY <2>2, <3>1, <3>2
  <2>6. has_element_crc => Read(d, b + HdrLen - 1) = Cell("crc", h.crc)
    <3> SUFFICES ASSUME has_element_crc PROVE Read(d, b + HdrLen - 1) = Cell("crc", h.crc)
      OBVIOUS
    <3>1. HeaderCells(h)[HdrLen] = Cell("crc", h.crc) /\ HdrLen \in 1 .. HdrLen
      BY PartitionAssumption DEF HeaderCells, HdrLen, Flag
    <3> QED BY <2>2, <3>1
  <2>7. h.xor % 4 = h.xor
    BY <2>3
  <2>8. /\ Cell("id", h.id).t = "id" /\ Cell("id", h.id).n = h.id
        /\ Cell("xor", h.xor).n = h.xor
        /\ Cell("crc", h.crc).t = "crc" /\ Cell("crc", h.crc).n = h.crc
    BY DEF Cell
  <2>9. HeaderAt(d, b) = [id |-> h.id, xor |-> h.xor, crc |-> h.crc]
    BY <2>3, <2>4, <2>5, <2>6, <2>7, <2>8 DEF HeaderAt, Exact
  <2> QED BY <2>3, <2>9 DEF b
<1> QED BY <1>5, <1>7 DEF ValidFirst
-----------------------------------------------------------------------------
(* What is on the EEPROM in the middle of a store. *)

(* The first j cells are written. *)
Patched(d, a, cells, j) ==
  [x \in Addresses |-> IF a <= x /\ x < a + j THEN cells[x - a + 1] ELSE d[x]]

(* The EEPROM is written cell by cell, from the first address on. *)
LEMMA PutStep ==
  ASSUME UnitSize = 1, NEW t \in States, NEW d \in [Addresses -> Cells],
         NEW a \in Int, NEW cells \in Seq(Cells), Inside(a, Len(cells)),
         NEW j \in 0 .. Len(cells) - 1, t.disk = Patched(d, a, cells, j)
  PROVE  Apply(t, Puts(a, cells)[j + 1]).disk = Patched(d, a, cells, j + 1)
<1> USE Lengths
<1> DEFINE op == Puts(a, cells)[j + 1]
           c == cells[j + 1]
<1>1. j + 1 \in 1 .. Len(cells) /\ a + j \in Addresses
  BY DEF Inside, Addresses
<1>2. op.k = "put" /\ op.at = a + j /\ op.cell = c
  <2>1. op = Put(a + (j + 1) - 1, c)
    BY <1>1 DEF Puts
  <2>2. a + (j + 1) - 1 = a + j
    OBVIOUS
  <2> QED BY <2>1, <2>2 DEF Put
<1> HIDE DEF op
<1>3. Apply(t, op) = [t EXCEPT !.disk[op.at] = c]
  BY <1>2 DEF Apply, Program
<1>4. Apply(t, op).disk = [t.disk EXCEPT ![a + j] = c]
  BY <1>2, <1>3 DEF States
<1>5. [t.disk EXCEPT ![a + j] = c] = Patched(d, a, cells, j + 1)
  <2>1. DOMAIN t.disk = Addresses
    BY DEF States
  <2>2. \A x \in Addresses : [t.disk EXCEPT ![a + j] = c][x] = Patched(d, a, cells, j + 1)[x]
    <3> SUFFICES ASSUME NEW x \in Addresses
                 PROVE  [t.disk EXCEPT ![a + j] = c][x] = Patched(d, a, cells, j + 1)[x]
      OBVIOUS
    <3>0. x \in Int
      BY DEF Addresses
    <3>1. CASE x = a + j
      <4>1. a <= x /\ x < a + (j + 1) /\ x - a + 1 = j + 1
        BY <3>1
      <4>2. Patched(d, a, cells, j + 1)[x] = c
        BY <4>1 DEF Patched
      <4> QED BY <2>1, <3>1, <4>2
    <3>2. CASE x # a + j
      <4>1. (a <= x /\ x < a + (j + 1)) <=> (a <= x /\ x < a + j)
        BY <3>0, <3>2
      <4>2. Patched(d, a, cells, j + 1)[x] = Patched(d, a, cells, j)[x]
        BY <4>1 DEF Patched
      <4> QED BY <2>1, <3>2, <4>2
    <3> QED BY <3>1, <3>2
  <2> QED BY <2>1, <2>2 DEF Patched
<1> QED BY <1>4, <1>5 DEF op

(* Later operations do not change what the earlier ones led through. *)
LEMMA TraceConcat ==
  ASSUME NEW s, NEW o \in Seq(Ops), NEW p \in Seq(Ops), NEW k \in 0 .. Len(o)
  PROVE  Trace(s, o \o p)[k] = Trace(s, o)[k]
<1> DEFINE T == {n \in Nat : n <= Len(o) => Trace(s, o \o p)[n] = Trace(s, o)[n]}
<1>0. /\ o \o p \in Seq(Ops) /\ Len(o \o p) = Len(o) + Len(p)
      /\ \A i \in 1 .. Len(o) : (o \o p)[i] = o[i]
  BY ConcatAt
<1> DEFINE q == o \o p
<1>00. q \in Seq(Ops) /\ Len(q) \in Nat /\ Len(o) <= Len(q) /\ Len(o) \in Nat
  BY <1>0
<1> HIDE DEF q
<1>1. 0 \in T
  <2>1. Trace(s, q)[0] = s /\ Trace(s, o)[0] = s
    BY <1>00, TraceDef
  <2> QED BY <2>1 DEF q
<1>2. ASSUME NEW n \in Nat, n \in T PROVE n + 1 \in T
  <2> SUFFICES ASSUME n + 1 <= Len(o) PROVE Trace(s, q)[n + 1] = Trace(s, o)[n + 1]
    BY DEF q
  <2>1. Trace(s, q)[n] = Trace(s, o)[n]
    BY <1>2 DEF q
  <2>2. n + 1 \in 1 .. Len(o) /\ n + 1 \in 1 .. Len(q) /\ (n + 1) - 1 = n
    BY <1>00
  <2>3. q[n + 1] = o[n + 1]
    BY <1>0, <2>2 DEF q
  <2>4. /\ Trace(s, q)[n + 1] = Apply(Trace(s, q)[n], q[n + 1])
        /\ Trace(s, o)[n + 1] = Apply(Trace(s, o)[n], o[n + 1])
    BY <1>00, <2>2, TraceDef
  <2> QED BY <2>1, <2>3, <2>4
<1> HIDE DEF T
<1>3. Nat \subseteq T
  BY <1>1, <1>2, SetInduction
<1>4. k \in T
  BY <1>3
<1> QED BY <1>4 DEF T

(* What is on the storage when j cells of a store are written. *)
LEMMA PutsTrace ==
  ASSUME UnitSize = 1, NEW s, Sound(s), NEW o \in Seq(Ops), NEW a \in Int,
         NEW cells \in Seq(Cells), Inside(a, Len(cells)), NEW k \in 0 .. Len(cells)
  PROVE  Trace(s, o \o Puts(a, cells))[Len(o) + k].disk
           = Patched(Trace(s, o)[Len(o)].disk, a, cells, k)
<1> DEFINE p == Puts(a, cells)
           q == o \o p
           d == Trace(s, o)[Len(o)].disk
           After(n) == Trace(s, q)[Len(o) + n]
           T == {n \in Nat : n <= Len(cells) => After(n).disk = Patched(d, a, cells, n)}
<1>0. p \in Seq(Ops) /\ Len(p) = Len(cells) /\ Len(o) \in Nat /\ Len(cells) \in Nat
  BY PutsType
<1> HIDE DEF p
<1>1. /\ q \in Seq(Ops) /\ Len(q) = Len(o) + Len(cells)
      /\ \A i \in 1 .. Len(cells) : q[Len(o) + i] = p[i]
  <2>1. /\ q \in Seq(Ops) /\ Len(q) = Len(o) + Len(p)
        /\ \A i \in 1 .. Len(p) : q[Len(o) + i] = p[i]
    <3>1. p \in Seq(Ops)
      BY <1>0
    <3>2. \A S : \A x, y \in Seq(S) : x \o y \in Seq(S) /\ Len(x \o y) = Len(x) + Len(y)
      BY ConcatAt
    <3>3. \A S : \A x, y \in Seq(S) : \A i \in 1 .. Len(y) : (x \o y)[Len(x) + i] = y[i]
      BY ConcatAt
    <3> QED BY ONLY <3>1, <3>2, <3>3, o \in Seq(Ops), Zenon
  <2> QED BY <1>0, <2>1
<1>2. d \in [Addresses -> Cells]
  <2>1. Len(o) \in 0 .. Len(o)
    BY <1>0
  <2> QED BY <2>1, TraceType DEF Sound, States
<1>3. 0 \in T
  <2>1. Trace(s, q)[Len(o)] = Trace(s, o)[Len(o)]
    BY <1>0, TraceConcat
  <2>2. After(0).disk = d
    BY <1>0, <2>1
  <2>3. Patched(d, a, cells, 0) = d
    <3> HIDE DEF d
    <3> QED BY <1>2, Lengths DEF Patched, Addresses
  <2> HIDE DEF After, d
  <2> QED BY <2>2, <2>3
<1> HIDE DEF d, q
<1>4. ASSUME NEW n \in Nat, n \in T PROVE n + 1 \in T
  <2> SUFFICES ASSUME n + 1 <= Len(cells) PROVE After(n + 1).disk = Patched(d, a, cells, n + 1)
    OBVIOUS
  <2>1. After(n).disk = Patched(d, a, cells, n)
    BY <1>4
  <2>2. /\ Len(o) + n \in 0 .. Len(q) /\ Len(o) + (n + 1) \in 1 .. Len(q)
        /\ (Len(o) + (n + 1)) - 1 = Len(o) + n
        /\ n + 1 \in 1 .. Len(cells) /\ n \in 0 .. Len(cells) - 1
    BY <1>0, <1>1
  <2>3. After(n) \in States
    BY <1>1, <2>2, TraceType DEF Sound
  <2>4. Len(q) \in Nat
    BY <1>1
  <2>5. Trace(s, q)[Len(o) + (n + 1)] = Apply(Trace(s, q)[(Len(o) + (n + 1)) - 1], q[Len(o) + (n + 1)])
    BY <2>2, <2>4, TraceDef
  <2>6. After(n + 1) = Apply(After(n), p[n + 1])
    BY <1>1, <2>2, <2>5
  <2> HIDE DEF After
  <2> QED BY <1>2, <2>1, <2>2, <2>3, <2>6, PutStep DEF p
<1> HIDE DEF T
<1>5. Nat \subseteq T
  BY <1>3, <1>4, SetInduction
<1>6. k \in T
  BY <1>5
<1> QED BY <1>6 DEF T, d, q, p

(* What a store leaves on the EEPROM. *)
LEMMA WriteDisk ==
  ASSUME UnitSize = 1, NEW s, Sound(s), NEW a \in Int, NEW cells \in Seq(Cells),
         Inside(a, Len(cells))
  PROVE  /\ Write(s, a, cells).disk = Patched(s.disk, a, cells, Len(cells))
         /\ Write(s, a, cells).ops = s.ops \o Puts(a, cells)
<1> DEFINE p == Puts(a, cells)
           e == << >>
           n == Len(cells)
<1>1. StoreOps(s, a, cells) = p
  <2>1. CASE cells = << >>
    BY <2>1 DEF StoreOps, Puts
  <2> QED BY <2>1 DEF StoreOps
<1>2. p \in Seq(Ops) /\ Len(p) = n /\ n \in Nat
  BY PutsType
<1>3. e \in Seq(Ops) /\ e \o p = p /\ Len(e) = 0 /\ 0 + n = n /\ n \in 0 .. n
  BY <1>2
<1>4. Trace(s, e \o p)[Len(e) + n].disk = Patched(Trace(s, e)[Len(e)].disk, a, cells, n)
  <2> HIDE DEF e
  <2> QED BY <1>3, PutsTrace
<1>5. Trace(s, e)[0] = s
  <2> HIDE DEF e
  <2> QED BY <1>3, TraceDef
<1> HIDE DEF e, p
<1>6. Run(s, p).disk = Patched(s.disk, a, cells, n)
  BY <1>2, <1>3, <1>4, <1>5 DEF Run
<1>7. Write(s, a, cells) = [Run(s, p) EXCEPT !.ops = s.ops \o p]
  BY <1>1 DEF Write
<1>8. Run(s, p) \in States
  <2>1. n \in 0 .. Len(p)
    BY <1>2
  <2> QED BY <1>2, <2>1, TraceType DEF Run, Sound
<1>9. Write(s, a, cells).disk = Run(s, p).disk /\ Write(s, a, cells).ops = s.ops \o p
  BY <1>7, <1>8 DEF States
<1> QED BY <1>6, <1>9 DEF p

(* A device with some cells overwritten is a device. *)
LEMMA PatchedType ==
  ASSUME NEW d \in [Addresses -> Cells], NEW a \in Int, NEW cells \in Seq(Cells),
         NEW j \in 0 .. Len(cells)
  PROVE  Patched(d, a, cells, j) \in [Addresses -> Cells]
<1>1. ASSUME NEW x \in Addresses, a <= x, x < a + j PROVE cells[x - a + 1] \in Cells
  <2>1. x \in Int
    BY DEF Addresses
  <2>2. x - a + 1 \in 1 .. Len(cells)
    BY <1>1, <2>1
  <2> QED BY <2>2
<1> QED BY <1>1 DEF Patched

(* A store that is done has left its cells. *)
LEMMA PatchedRead ==
  ASSUME NEW d \in [Addresses -> Cells], NEW a \in Int, NEW cells \in Seq(Cells),
         Inside(a, Len(cells))
  PROVE  ReadCells(Patched(d, a, cells, Len(cells)), a, Len(cells)) = cells
<1> DEFINE e == Patched(d, a, cells, Len(cells))
<1>1. ASSUME NEW i \in 1 .. Len(cells) PROVE Read(e, a + i - 1) = cells[i]
  <2> DEFINE x == a + i - 1
  <2>1. x \in Addresses /\ a <= x /\ x < a + Len(cells) /\ x - a + 1 = i
    BY Lengths DEF Inside, Addresses
  <2> HIDE DEF x
  <2>2. e[x] = cells[i] /\ DOMAIN e = Addresses
    BY <2>1 DEF Patched
  <2>3. Read(e, x) = cells[i]
    BY <2>1, <2>2 DEF Read
  <2> QED BY <2>3 DEF x
<1> HIDE DEF e
<1>2. ReadCells(e, a, Len(cells)) = [i \in 1 .. Len(cells) |-> cells[i]]
  BY <1>1 DEF ReadCells
<1> QED BY <1>2 DEF e

(* A store beside the header at b leaves that header alone. *)
LEMMA PatchedBeside ==
  ASSUME NEW d \in [Addresses -> Cells], NEW a \in Int, NEW cells \in Seq(Cells),
         NEW j \in 0 .. Len(cells), NEW b \in {0, SwapAddress},
         b + MetaLen + HdrLen <= a \/ a + Len(cells) <= b
  PROVE  /\ ValidFirst(Patched(d, a, cells, j), b) <=> ValidFirst(d, b)
         /\ ReadCells(Patched(d, a, cells, j), b, MetaLen + HdrLen)
              = ReadCells(d, b, MetaLen + HdrLen)
<1> USE Lengths
<1> DEFINE e == Patched(d, a, cells, j)
<1>1. e \in [Addresses -> Cells] /\ b \in Int
  BY PatchedType
<1>2. ASSUME NEW i \in 0 .. MetaLen + HdrLen - 1 PROVE Read(e, b + i) = Read(d, b + i)
  <2> DEFINE x == b + i
  <2>1. x \in Addresses /\ ~(a <= x /\ x < a + j)
    BY DEF Addresses
  <2> HIDE DEF x
  <2>2. e[x] = d[x]
    BY <2>1 DEF Patched
  <2>3. Read(e, x) = Read(d, x)
    BY <1>1, <2>1, <2>2 DEF Read
  <2> QED BY <2>3 DEF x
<1> HIDE DEF e
<1>3. /\ ValidFirst(e, b) <=> ValidFirst(d, b)
      /\ ReadCells(e, b, MetaLen + HdrLen) = ReadCells(d, b, MetaLen + HdrLen)
  <2>1. \A i \in 0 .. MetaLen + HdrLen - 1 : Read(e, b + i) = Read(d, b + i)
    BY <1>2
  <2>2. b \in Int /\ e \in [Addresses -> Cells]
    BY <1>1
  <2> QED BY ONLY d \in [Addresses -> Cells], <2>1, <2>2, ValidShift
<1> QED BY <1>3 DEF e
-----------------------------------------------------------------------------
(* Reading, for any set of states that it does not leave. *)

(* The same contents of the storage and the RAM, and the same operations.  *)
SameStorage(t, s) ==
  t.disk = s.disk /\ t.ops = s.ops /\ t.ram = s.ram /\ t.track = s.track

(* No read of a header leads out of K, whatever becomes of the iterator.   *)
Closed(K) ==
  /\ \A s \in K : Sound(s)
  /\ \A s \in K, a \in Nat : ReadElementHeader(s, a).s \in K
  /\ \A s \in K, t \in States : Sound(t) /\ SameStorage(t, s) => t \in K

(* The states of a closed set are sound. *)
LEMMA ClosedSound ==
  ASSUME NEW K, Closed(K), NEW s, s \in K
  PROVE  Sound(s)
BY DEF Closed

(* Reading a header stays in a closed set. *)
LEMMA ClosedRead ==
  ASSUME NEW K, Closed(K), NEW s, s \in K, NEW a \in Nat
  PROVE  ReadElementHeader(s, a).s \in K
BY DEF Closed

(* Moving the iterator stays in a closed set. *)
LEMMA ClosedSame ==
  ASSUME NEW K, Closed(K), NEW s, NEW t, s \in K, Sound(t), SameStorage(t, s)
  PROVE  t \in K
BY DEF Closed, Sound

(* filesystem_get_next_element stays in a closed set. *)
LEMMA GetNextClosed ==
  ASSUME NEW K, Closed(K), NEW s, s \in K,
         NEW a \in Nat, NEW id, NEW len \in 0 .. 3
  PROVE  GetNext(s, a, id, len).s \in K
<1> DEFINE next == a + HeaderLenAt(a) + len
           r == ReadElementHeader(s, next)
           first == ReadElementHeader(r.s, 0)
           n == GetNext(s, a, id, len)
<1>1. next \in Nat
  BY Lengths DEF HeaderLenAt
<1>2. n.s = r.s \/ n.s = first.s
  BY DEF GetNext
<1> HIDE DEF next
<1>3. r.s \in K
  BY <1>1, ClosedRead
<1> HIDE DEF r
<1>4. first.s \in K
  BY <1>3, ClosedRead
<1> HIDE DEF first, n
<1>5. n.s \in K
  BY <1>2, <1>3, <1>4, Zenon
<1> QED BY <1>5 DEF n

(* filesystem_get_previous_element stays in a closed set. *)
LEMMA GetPreviousClosed ==
  ASSUME NEW K, Closed(K), NEW s, s \in K,
         NEW a \in Nat, NEW id, NEW len \in 0 .. 3
  PROVE  GetPrevious(s, a, id, len).s \in K
<1> DEFINE p == GetPrevious(s, a, id, len)
<1>0. Sound(s)
  BY ClosedSound
<1>1. CASE a # 0
  <2> DEFINE cur == ReadElementHeader(s, a)
             plen == LinkedLen(cur.s, len, cur.hdr.xor)
             addr == IF a <= MetaLen + HdrLen + plen THEN 0 ELSE a - plen - HdrLen
             r == ReadElementHeader(cur.s, addr)
  <2>1. p.s = r.s
    BY <1>1 DEF GetPrevious
  <2>2. cur.s \in K /\ Sound(cur.s) /\ cur.hdr \in Headers
    BY <1>0, ClosedRead, ReadElementHeaderType DEF ReadFrom
  <2> HIDE DEF cur
  <2>3. plen \in 0 .. 3
    BY <2>2, LinkedLenType DEF Headers
  <2>4. addr \in Nat
    <3> HIDE DEF plen
    <3> QED BY <2>3, Lengths
  <2> HIDE DEF addr
  <2>5. r.s \in K
    BY <2>2, <2>4, ClosedRead
  <2> QED BY <2>1, <2>5
<1>2. CASE a = 0 /\ s.ram.meta.last > 0
  <2> DEFINE last == s.ram.meta.last
             r == ReadElementHeader(s, last)
  <2>1. p.s = r.s
    BY <1>2 DEF GetPrevious
  <2>2. last \in Nat
    BY <1>0 DEF Sound, States, Rams, Metas
  <2> HIDE DEF last
  <2>3. r.s \in K
    BY <2>2, ClosedRead
  <2> QED BY <2>1, <2>3
<1>3. CASE a = 0 /\ ~(s.ram.meta.last > 0)
  <2>1. p.s = s
    BY <1>3 DEF GetPrevious
  <2> QED BY <2>1
<1> QED BY <1>1, <1>2, <1>3

(* The search for the latest element stays in a closed set. *)
LEMMA WalkClosed ==
  ASSUME NEW K, Closed(K), NEW s, NEW start, Position(s, start),
         start.s \in K, NEW k \in 0 .. partition_size \div HdrLen
  PROVE  Walk(start)[k].s \in K
<1> DEFINE d == partition_size \div HdrLen
           At(n) == Walk(start)[n]
           T == {n \in Nat : n <= d => At(n).s \in K}
<1>0. d \in Nat
  BY DepthType
<1>1. 0 \in T
  BY WalkDef
<1>2. ASSUME NEW n \in Nat, n \in T PROVE n + 1 \in T
  <2> SUFFICES ASSUME n + 1 <= d PROVE At(n + 1).s \in K
    OBVIOUS
  <2>1. n + 1 \in 1 .. d /\ (n + 1) - 1 = n /\ n \in 0 .. d
    BY <1>0
  <2>2. At(n + 1) = Advance(At(n))
    BY <2>1, WalkDef
  <2>3. At(n).s \in K
    BY <1>2, <2>1
  <2>4. Position(s, At(n))
    BY <2>1, WalkType
  <2> HIDE DEF At
  <2> DEFINE c == At(n)
             g == GetNext(c.s, c.addr, c.id, c.len)
  <2>5. c.addr \in Nat /\ c.len \in 0 .. 3 /\ c \in [addr : Nat, id : 0 .. MaxId, len : 0 .. 3, s : States]
    BY <2>4 DEF Position
  <2>6. Advance(c).s = g.s
    BY <2>5 DEF Advance
  <2>7. g.s \in K
    <3> HIDE DEF c
    <3> QED BY <2>3, <2>5, GetNextClosed DEF c
  <2> QED BY <2>2, <2>6, <2>7
<1> HIDE DEF T
<1>3. Nat \subseteq T
  BY <1>1, <1>2, SetInduction
<1>4. k \in T /\ k <= d
  BY <1>0, <1>3
<1> QED BY <1>4 DEF T

(* filesystem_find_latest_element_address stays in a closed set. *)
LEMMA FindLatestClosed ==
  ASSUME NEW K, Closed(K), NEW s, s \in K
  PROVE  FindLatest(s).s \in K
<1> DEFINE r == ReadElementHeader(s, 0)
           start == [addr |-> 0, id |-> r.hdr.id, len |-> r.s.ram.meta.flen, s |-> r.s]
<1>1. r.hdr \in Headers /\ ReadFrom(s, r.s) /\ r.s \in K
  BY ClosedSound, ReadElementHeaderType, ClosedRead
<1>2. FindLatest(s) = Walk(start)[partition_size \div HdrLen]
  BY Zenon DEF FindLatest
<1> HIDE DEF r
<1>3. Position(s, start) /\ start.s = r.s
  <2>1. r.hdr.id \in 0 .. MaxId
    BY <1>1 DEF Headers
  <2>2. r.s \in States /\ r.s.ram.meta.flen \in FirstLens
    BY <1>1 DEF ReadFrom, Sound, States, Rams, Metas
  <2> QED BY <1>1, <2>1, <2>2, Lengths DEF Position, HeaderLenAt, FirstLens
<1>4. partition_size \div HdrLen \in 0 .. partition_size \div HdrLen
  BY DepthType
<1> HIDE DEF start
<1> QED BY <1>1, <1>2, <1>3, <1>4, WalkClosed

(* Invalidating the iterator stays in a closed set. *)
LEMMA InvalidatedClosed ==
  ASSUME NEW K, Closed(K), NEW s, s \in K
  PROVE  Invalidated(s) \in K
BY ClosedSound, ClosedSame, InvalidatedType DEF SameStorage

(* filesystem_iterator_check_validity stays in a closed set. *)
LEMMA CheckValidityClosed ==
  ASSUME NEW K, Closed(K), NEW s, s \in K
  PROVE  CheckValidity(s).s \in K
<1> DEFINE c == CheckValidity(s)
           r == ReadElementHeader(s, s.it.addr)
<1>1. c.s = s \/ c.s = Invalidated(s) \/ c.s = r.s \/ c.s = Invalidated(r.s)
  BY DEF CheckValidity
<1>2. s.it.addr \in Nat
  BY ClosedSound DEF Sound, States, Iterators
<1>3. r.s \in K
  BY <1>2, ClosedRead
<1> HIDE DEF c, r
<1>4. Invalidated(s) \in K /\ Invalidated(r.s) \in K
  BY <1>3, InvalidatedClosed
<1>5. c.s \in K
  BY <1>1, <1>3, <1>4, Zenon
<1> QED BY <1>5 DEF c

(* filesystem_iterator_init stays in a closed set. *)
LEMMA IteratorInitClosed ==
  ASSUME NEW K, Closed(K), NEW s, s \in K
  PROVE  IteratorInit(s).s \in K
<1> DEFINE i == IteratorInit(s)
           r == ReadElementHeader(s, s.ram.laddr)
           t == [r.s EXCEPT !.it = [valid |-> TRUE, addr |-> s.ram.laddr,
                                    len |-> s.ram.llen, hdr |-> r.hdr]]
<1>1. i.s = t \/ i.s = Invalidated(r.s) \/ i.s = Invalidated(s)
  BY DEF IteratorInit
<1>2. Sound(i.s) /\ s.ram.laddr \in Nat
  BY ClosedSound, IteratorInitType DEF Checked, Sound, States, Rams
<1>3. r.s \in K
  BY <1>2, ClosedRead
<1> HIDE DEF i, r
<1>4. SameStorage(t, r.s)
  BY <1>3, ClosedSound DEF SameStorage, Sound, States
<1> HIDE DEF t
<1>5. i.s = t => i.s \in K
  BY <1>2, <1>3, <1>4, ClosedSame
<1>6. Invalidated(s) \in K /\ Invalidated(r.s) \in K
  BY <1>3, InvalidatedClosed
<1>7. i.s \in K
  BY <1>1, <1>5, <1>6, Zenon
<1> QED BY <1>7 DEF i

(* Moving the iterator stays in a closed set. *)
LEMMA MovedClosed ==
  ASSUME NEW K, Closed(K), NEW s, s \in K, NEW n, NEW len,
         Sound(Moved(s, n, len).s)
  PROVE  Moved(s, n, len).s \in K
<1> DEFINE m == Moved(s, n, len).s
<1>1. SameStorage(m, s)
  BY ClosedSound DEF SameStorage, Moved, Sound, States
<1> HIDE DEF m
<1>2. Sound(m) => m \in K
  BY <1>1, ClosedSame
<1> QED BY <1>2 DEF m

(* filesystem_iterator_next stays in a closed set. *)
LEMMA IteratorNextClosed ==
  ASSUME NEW K, Closed(K), NEW s, s \in K
  PROVE  IteratorNext(s).s \in K
<1> DEFINE c == CheckValidity(s)
           i == c.s.it
           n == GetNext(c.s, i.addr, i.hdr.id, i.len)
           len == LinkedLen(n.s, i.len, n.hdr.xor)
           f == IteratorNext(s)
<1>1. c.s \in K
  BY CheckValidityClosed
<1>2. f = c \/ f = [ret |-> n.ret, s |-> n.s] \/ f = Moved(n.s, n, len)
  BY Zenon DEF IteratorNext
<1>3. Sound(f.s)
  BY ClosedSound, IteratorNextType DEF Checked
<1> HIDE DEF c, f
<1>4. i.addr \in Nat /\ i.len \in 0 .. 3
  BY <1>1, ClosedSound DEF Sound, States, Iterators
<1>5. n.s \in K
  BY <1>1, <1>4, GetNextClosed
<1> HIDE DEF n, len
<1>6. f = Moved(n.s, n, len) => f.s \in K
  BY <1>3, <1>5, MovedClosed
<1>7. f = [ret |-> n.ret, s |-> n.s] => f.s = n.s
  OBVIOUS
<1>8. f.s \in K
  BY <1>1, <1>2, <1>5, <1>6, <1>7, Zenon
<1> QED BY <1>8 DEF f

(* filesystem_iterator_previous stays in a closed set. *)
LEMMA IteratorPreviousClosed ==
  ASSUME NEW K, Closed(K), NEW s, s \in K
  PROVE  IteratorPrevious(s).s \in K
<1> DEFINE c == CheckValidity(s)
           i == c.s.it
           p == GetPrevious(c.s, i.addr, i.hdr.id, i.len)
           len == LinkedLen(p.s, i.len, i.hdr.xor)
           f == IteratorPrevious(s)
<1>1. c.s \in K
  BY CheckValidityClosed
<1>2. f = c \/ f = [ret |-> "NOT_FOUND", s |-> p.s] \/ f = Moved(p.s, p, len)
  BY Zenon DEF IteratorPrevious
<1>3. Sound(f.s)
  BY ClosedSound, IteratorPreviousType DEF Checked
<1> HIDE DEF c, f
<1>4. i.addr \in Nat /\ i.len \in 0 .. 3
  BY <1>1, ClosedSound DEF Sound, States, Iterators
<1>5. p.s \in K
  BY <1>1, <1>4, GetPreviousClosed
<1> HIDE DEF p, len
<1>6. f = Moved(p.s, p, len) => f.s \in K
  BY <1>3, <1>5, MovedClosed
<1>7. f = [ret |-> "NOT_FOUND", s |-> p.s] => f.s = p.s
  OBVIOUS
<1>8. f.s \in K
  BY <1>1, <1>2, <1>5, <1>6, <1>7, Zenon
<1> QED BY <1>8 DEF f

(* filesystem_iterator_read_element stays in a closed set. *)
LEMMA IteratorReadClosed ==
  ASSUME NEW K, Closed(K), NEW s, s \in K
  PROVE  IteratorRead(s).s \in K
<1>1. IteratorRead(s).s = CheckValidity(s).s
  BY DEF IteratorRead
<1> QED BY <1>1, CheckValidityClosed

(* The ways a search of the storer ends stay in it. *)
LEMMA EndedClosed ==
  ASSUME NEW K, Closed(K), NEW ret, NEW found, NEW r, r.s \in K
  PROVE  /\ Ended(ret, found, r.s).s \in K
         /\ Aborted(r).s \in K
         /\ Taken(r).s \in K
<1>1. Invalidated(r.s) \in K
  BY InvalidatedClosed
<1>2. Ended(ret, found, r.s).s = r.s /\ Aborted(r).s = Invalidated(r.s) /\ Taken(r).s = r.s
  BY DEF Ended, Aborted, Taken
<1> QED BY <1>1, <1>2

(* One step of the search for the oldest chunk stays in a closed set. *)
LEMMA FindStepClosed ==
  ASSUME NEW K, Closed(K), NEW stamp, NEW c, c.s \in K
  PROVE  FindStep(stamp, c).s \in K
<1> DEFINE r == IteratorRead(c.s)
           n == IteratorNext(r.s)
           p == IteratorPrevious(r.s)
           f == FindStep(stamp, c)
<1>1. r.s \in K
  BY IteratorReadClosed
<1>2. n.s \in K /\ p.s \in K
  BY <1>1, IteratorNextClosed, IteratorPreviousClosed
<1>3. \/ f = c
      \/ f = Aborted(r) \/ f = Aborted(n) \/ f = Aborted(p)
      \/ f = Ended("SUCCESS", TRUE, n.s) \/ f = Ended("SUCCESS", FALSE, n.s)
      \/ f = Ended("NONE", FALSE, p.s) \/ f = Ended("SUCCESS", TRUE, p.s)
  BY DEF FindStep
<1> HIDE DEF f, r, n, p
<1>4. /\ Aborted(r).s \in K /\ Aborted(n).s \in K
      /\ Aborted(p).s \in K
      /\ \A ret, found : /\ Ended(ret, found, n.s).s \in K
                         /\ Ended(ret, found, p.s).s \in K
  BY <1>1, <1>2, EndedClosed
<1>5. f.s \in K
  BY <1>3, <1>4, Zenon
<1> QED BY <1>5 DEF f

(* One step of the search for the next chunk stays in a closed set. *)
LEMMA NextStepClosed ==
  ASSUME NEW K, Closed(K), NEW c, c.s \in K
  PROVE  NextStep(c).s \in K
<1> DEFINE r == IteratorRead(c.s)
           n == IteratorNext(c.s)
           q == IteratorRead(n.s)
           f == NextStep(c)
<1>1. r.s \in K /\ n.s \in K
  BY IteratorReadClosed, IteratorNextClosed
<1>2. q.s \in K
  BY <1>1, IteratorReadClosed
<1>3. \/ f = c
      \/ f = Taken(r) \/ f = Ended("NONE", FALSE, r.s) \/ f = Aborted(r)
      \/ f = Taken(q) \/ f = Ended("NONE", FALSE, q.s) \/ f = Aborted(q)
      \/ f = Aborted(n)
  BY DEF NextStep
<1> HIDE DEF f, r, n, q
<1>4. /\ Aborted(r).s \in K /\ Aborted(n).s \in K
      /\ Aborted(q).s \in K
      /\ Taken(r).s \in K /\ Taken(q).s \in K
      /\ \A ret, found : /\ Ended(ret, found, r.s).s \in K
                         /\ Ended(ret, found, q.s).s \in K
  BY <1>1, <1>2, EndedClosed
<1>5. f.s \in K
  BY <1>3, <1>4, Zenon
<1> QED BY <1>5 DEF f

(* The search for the oldest chunk stays in a closed set. *)
LEMMA SearchClosed ==
  ASSUME NEW K, Closed(K), NEW stamp, NEW start, start.s \in K
  PROVE  Search(stamp, start)[Depth].s \in K
<1> DEFINE At(n) == Search(stamp, start)[n]
           T == {n \in Nat : n <= Depth => At(n).s \in K}
<1>0. Depth \in Nat
  BY DepthType
<1>1. 0 \in T
  BY SearchDef
<1>2. ASSUME NEW n \in Nat, n \in T PROVE n + 1 \in T
  <2> SUFFICES ASSUME n + 1 <= Depth PROVE At(n + 1).s \in K
    OBVIOUS
  <2>1. n + 1 \in 1 .. Depth /\ (n + 1) - 1 = n /\ n <= Depth
    BY <1>0
  <2>2. At(n + 1) = FindStep(stamp, At(n))
    BY <2>1, SearchDef
  <2>3. At(n).s \in K
    BY <1>2, <2>1
  <2> HIDE DEF At
  <2> QED BY <2>2, <2>3, FindStepClosed
<1> HIDE DEF T
<1>3. Nat \subseteq T
  BY <1>1, <1>2, SetInduction
<1>4. Depth \in T /\ Depth <= Depth
  BY <1>0, <1>3
<1> QED BY <1>4 DEF T

(* storer_find_*_chunk_from_timestamp stays in a closed set. *)
LEMMA FindChunkClosed ==
  ASSUME NEW K, Closed(K), NEW s, s \in K, NEW stamp
  PROVE  FindChunk(s, stamp).s \in K
<1> DEFINE i == IteratorInit(s)
           start == Ended("NONE", FALSE, i.s)
<1>1. i.s \in K
  BY IteratorInitClosed
<1>2. FindChunk(s, stamp) = IF i.ret # "SUCCESS" THEN Aborted(i) ELSE Search(stamp, start)[Depth]
  BY Zenon DEF FindChunk
<1> HIDE DEF i
<1>3. start.s \in K /\ Aborted(i).s \in K
  BY <1>1, EndedClosed
<1> HIDE DEF start
<1> QED BY <1>2, <1>3, SearchClosed

(* The search for the next chunk stays in a closed set. *)
LEMMA SkipClosed ==
  ASSUME NEW K, Closed(K), NEW start, start.s \in K
  PROVE  Skip(start)[Depth].s \in K
<1> DEFINE At(n) == Skip(start)[n]
           T == {n \in Nat : n <= Depth => At(n).s \in K}
<1>0. Depth \in Nat
  BY DepthType
<1>1. 0 \in T
  BY SkipDef
<1>2. ASSUME NEW n \in Nat, n \in T PROVE n + 1 \in T
  <2> SUFFICES ASSUME n + 1 <= Depth PROVE At(n + 1).s \in K
    OBVIOUS
  <2>1. n + 1 \in 1 .. Depth /\ (n + 1) - 1 = n /\ n <= Depth
    BY <1>0
  <2>2. At(n + 1) = NextStep(At(n))
    BY <2>1, SkipDef
  <2>3. At(n).s \in K
    BY <1>2, <2>1
  <2> HIDE DEF At
  <2> QED BY <2>2, <2>3, NextStepClosed
<1> HIDE DEF T
<1>3. Nat \subseteq T
  BY <1>1, <1>2, SetInduction
<1>4. Depth \in T /\ Depth <= Depth
  BY <1>0, <1>3
<1> QED BY <1>4 DEF T

(* storer_get_next_*_chunk stays in a closed set. *)
LEMMA GetNextChunkClosed ==
  ASSUME NEW K, Closed(K), NEW s, s \in K, NEW found
  PROVE  GetNextChunk(s, found).s \in K
<1> DEFINE start == Ended("NONE", found, s)
<1>1. start.s = s
  BY DEF Ended
<1> HIDE DEF start
<1>2. Skip(start)[Depth].s \in K
  BY <1>1, SkipClosed
<1> QED BY <1>2 DEF GetNextChunk, start
-----------------------------------------------------------------------------
(* What the storing of a first element writes, first to the swap page and  *)
(* then to the beginning of the partition.                                 *)
FirstCells(s, v, len) ==
  MetaCells(FirstMetadata(s, Placement(s.ram, len),
                          Header(Placement(s.ram, len), v, len), len))
  \o HeaderCells(Header(Placement(s.ram, len), v, len))

-----------------------------------------------------------------------------
(* The first header survives. *)

(* The first header is valid, or it can be restored from a backup in C.    *)
Kept(d, C) ==
  \/ ValidFirst(d, 0)
  \/ /\ ValidFirst(d, SwapAddress)
     /\ ReadCells(d, SwapAddress, MetaLen + HdrLen) \in C

(* s was reached from s0 by device operations that all kept the first      *)
(* header or a backup in C; now the backup, if it is needed, is in E.      *)
Safe(s0, C, E, s) ==
  /\ Sound(s0)
  /\ Sound(s)
  /\ Trace(s0, s.ops)[Len(s.ops)].disk = s.disk
  /\ \A k \in 0 .. Len(s.ops) : Kept(Trace(s0, s.ops)[k].disk, C)
  /\ Kept(s.disk, E)

(* A step without a device operation is safe. *)
LEMMA SafeSame ==
  ASSUME NEW s0, NEW C, NEW E, NEW s, NEW t, Safe(s0, C, E, s), Sound(t),
         t.disk = s.disk, t.ops = s.ops
  PROVE  Safe(s0, C, E, t)
BY DEF Safe

(* The whole path is safe up to the present state. *)
LEMMA SafeNow ==
  ASSUME NEW s0, NEW C, NEW E, NEW s, Safe(s0, C, E, s)
  PROVE  /\ Sound(s) /\ Kept(s.disk, C) /\ Kept(s.disk, E)
         /\ s.disk \in [Addresses -> Cells] /\ s.ops \in Seq(Ops)
<1>1. s.disk \in [Addresses -> Cells] /\ s.ops \in Seq(Ops)
  BY DEF Safe, Sound, States
<1>2. Len(s.ops) \in 0 .. Len(s.ops)
  BY <1>1
<1> QED BY <1>1, <1>2 DEF Safe

(* No operation yet: safe if the first header is kept. *)
LEMMA SafeStart ==
  ASSUME NEW s, Sound(s), s.ops = << >>, NEW C, NEW E, Kept(s.disk, C), Kept(s.disk, E)
  PROVE  Safe(s, C, E, s)
<1>1. Len(s.ops) = 0 /\ Len(s.ops) \in Nat
  OBVIOUS
<1>2. Trace(s, s.ops)[0] = s
  BY <1>1, TraceDef
<1>3. \A k \in 0 .. Len(s.ops) : k = 0
  BY <1>1
<1> QED BY <1>1, <1>2, <1>3 DEF Safe

(* A store all of whose steps keep the first header or a backup. *)
LEMMA WriteSafe ==
  ASSUME UnitSize = 1, NEW s0, NEW C, NEW E, NEW F, NEW s, Safe(s0, C, E, s),
         NEW a \in Int, NEW cells \in Seq(Cells), Inside(a, Len(cells)),
         \A j \in 0 .. Len(cells) : Kept(Patched(s.disk, a, cells, j), C),
         Kept(Patched(s.disk, a, cells, Len(cells)), F)
  PROVE  Safe(s0, C, F, Write(s, a, cells))
<1> DEFINE t == Write(s, a, cells)
           p == Puts(a, cells)
           o == s.ops
           n == Len(cells)
           q == o \o p
<1>1. Sound(s0) /\ Sound(s) /\ o \in Seq(Ops)
  BY SafeNow DEF Safe
<1>2. Sound(t)
  BY <1>1, WriteType
<1>3. t.disk = Patched(s.disk, a, cells, n) /\ t.ops = q
  BY <1>1, WriteDisk
<1>4. p \in Seq(Ops) /\ Len(p) = n /\ n \in Nat /\ Len(o) \in Nat
  BY <1>1, PutsType
<1>5. Trace(s0, o)[Len(o)].disk = s.disk
  BY DEF Safe
<1>6. \A j \in 0 .. n : Trace(s0, q)[Len(o) + j].disk = Patched(s.disk, a, cells, j)
  <2> TAKE j \in 0 .. n
  <2>1. Trace(s0, o \o p)[Len(o) + j].disk = Patched(Trace(s0, o)[Len(o)].disk, a, cells, j)
    <3> HIDE DEF o
    <3> QED BY ONLY UnitSize = 1, <1>1, a \in Int, cells \in Seq(Cells), Inside(a, Len(cells)),
                    j \in 0 .. n, PutsTrace
  <2> QED BY <1>5, <2>1
<1>7. \A k \in 0 .. Len(o) : Trace(s0, q)[k] = Trace(s0, o)[k]
  BY <1>1, <1>4, TraceConcat
<1>8. Len(q) = Len(o) + n
  <2>1. o \in Seq(Ops) /\ p \in Seq(Ops) /\ Len(p) = n
    BY <1>1, <1>4
  <2> HIDE DEF p, o, n
  <2> QED BY ONLY <2>1
<1> HIDE DEF q, p
<1>9. ASSUME NEW k \in 0 .. Len(q) PROVE Kept(Trace(s0, q)[k].disk, C)
  <2>1. CASE k <= Len(o)
    <3>1. k \in 0 .. Len(o)
      BY <2>1, <1>4, <1>8
    <3> QED BY <1>7, <3>1 DEF Safe
  <2>2. CASE ~(k <= Len(o))
    <3>1. k - Len(o) \in 0 .. n /\ Len(o) + (k - Len(o)) = k
      BY <2>2, <1>4, <1>8
    <3>2. Trace(s0, q)[k].disk = Patched(s.disk, a, cells, k - Len(o))
      BY <1>6, <3>1
    <3> QED BY <3>1, <3>2
  <2> QED BY <2>1, <2>2
<1>10. Trace(s0, q)[Len(q)].disk = Patched(s.disk, a, cells, n)
  <2>1. n \in 0 .. n
    BY <1>4
  <2> QED BY <1>6, <1>8, <2>1
<1> HIDE DEF t, o, n
<1>11. Safe(s0, C, F, t)
  BY <1>1, <1>2, <1>3, <1>9, <1>10 DEF Safe, n
<1> QED BY <1>11 DEF t

(* A store behind the first header does not harm it. *)
LEMMA WriteBehind ==
  ASSUME UnitSize = 1, NEW s0, NEW C, NEW E, NEW s, Safe(s0, C, E, s),
         NEW a \in Int, NEW cells \in Seq(Cells),
         MetaLen + HdrLen <= a, a + Len(cells) <= partition_size
  PROVE  /\ Safe(s0, C, E, Write(s, a, cells))
         /\ ValidFirst(s.disk, 0) => ValidFirst(Write(s, a, cells).disk, 0)
<1> USE Lengths
<1>1. /\ s.disk \in [Addresses -> Cells] /\ Inside(a, Len(cells))
      /\ Kept(s.disk, C) /\ Kept(s.disk, E) /\ Sound(s)
  BY SafeNow DEF Inside
<1>2. \A j \in 0 .. Len(cells) :
        /\ ValidFirst(Patched(s.disk, a, cells, j), 0) <=> ValidFirst(s.disk, 0)
        /\ ValidFirst(Patched(s.disk, a, cells, j), SwapAddress) <=> ValidFirst(s.disk, SwapAddress)
        /\ ReadCells(Patched(s.disk, a, cells, j), SwapAddress, MetaLen + HdrLen)
             = ReadCells(s.disk, SwapAddress, MetaLen + HdrLen)
  <2>1. 0 + MetaLen + HdrLen <= a /\ SwapAddress + MetaLen + HdrLen <= a
    OBVIOUS
  <2> QED BY <1>1, <2>1, PatchedBeside
<1>3. \A j \in 0 .. Len(cells) : /\ Kept(Patched(s.disk, a, cells, j), C)
                                 /\ Kept(Patched(s.disk, a, cells, j), E)
  BY <1>1, <1>2 DEF Kept
<1>4. Len(cells) \in 0 .. Len(cells)
  OBVIOUS
<1>5. Safe(s0, C, E, Write(s, a, cells))
  BY <1>1, <1>3, <1>4, WriteSafe
<1>6. Write(s, a, cells).disk = Patched(s.disk, a, cells, Len(cells))
  BY <1>1, WriteDisk
<1> QED BY <1>2, <1>4, <1>5, <1>6

(* Reading the first header restores it from the backup if that is needed, *)
(* and no power failure on the way harms the backup.                       *)
LEMMA ReadSafe ==
  ASSUME UnitSize = 1, NEW s0, NEW C, NEW E, NEW s, Safe(s0, C, E, s), NEW a \in Nat
  PROVE  LET r == ReadElementHeader(s, a)
         IN  /\ Safe(s0, C, E, r.s)
             /\ ValidFirst(s.disk, 0) => ValidFirst(r.s.disk, 0)
             /\ a = 0 /\ r.ret = "SUCCESS" => ValidFirst(r.s.disk, 0)
<1> DEFINE r == ReadElementHeader(s, a)
<1> SUFFICES /\ Safe(s0, C, E, r.s)
             /\ ValidFirst(s.disk, 0) => ValidFirst(r.s.disk, 0)
             /\ a = 0 /\ r.ret = "SUCCESS" => ValidFirst(r.s.disk, 0)
  OBVIOUS
<1>0. Sound(s) /\ s.disk \in [Addresses -> Cells] /\ Kept(s.disk, C) /\ Kept(s.disk, E)
  BY SafeNow
<1>00. Sound(r.s)
  BY <1>0, ReadElementHeaderType DEF ReadFrom
<1>1. CASE a # 0
  <2>1. r.s = s
    BY <1>0, <1>1, ReadElementHeaderType
  <2> QED BY <1>1, <2>1
<1>2. CASE a = 0 /\ ValidFirst(s.disk, 0)
  <2> DEFINE t == [s EXCEPT !.ram.meta = MetaAt(s.disk, 0)]
  <2>1. r.s = t
    BY <1>2 DEF ReadElementHeader
  <2>2. t.disk = s.disk /\ t.ops = s.ops
    BY <1>0 DEF Sound, States
  <2> HIDE DEF r, t
  <2>3. r.s.disk = s.disk /\ r.s.ops = s.ops
    BY <2>1, <2>2
  <2> QED BY <1>00, <1>2, <2>3, SafeSame
<1>3. CASE a = 0 /\ ~ValidFirst(s.disk, 0) /\ ValidFirst(s.disk, SwapAddress)
  <2> DEFINE n == MetaLen + HdrLen
             c == ReadCells(s.disk, SwapAddress, n)
             w == Write(s, 0, c)
             t == [w EXCEPT !.ram.meta = MetaAt(w.disk, SwapAddress)]
  <2>1. r.s = t
    BY <1>3 DEF ReadElementHeader
  <2>2. c \in Seq(Cells) /\ Len(c) = n /\ Inside(0, Len(c)) /\ n \in Nat /\ 0 \in Int
    BY <1>0, SwapInside, Lengths
  <2>3. \A j \in 0 .. Len(c) :
          /\ ValidFirst(Patched(s.disk, 0, c, j), SwapAddress)
          /\ ReadCells(Patched(s.disk, 0, c, j), SwapAddress, n) = c
    <3> HIDE DEF c
    <3>1. SwapAddress + MetaLen + HdrLen <= 0
      BY Lengths
    <3> QED BY <1>0, <1>3, <2>2, <3>1, PatchedBeside DEF c
  <2>4. c \in C /\ c \in E
    BY <1>0, <1>3 DEF Kept
  <2> HIDE DEF c
  <2>5. \A j \in 0 .. Len(c) : /\ Kept(Patched(s.disk, 0, c, j), C)
                               /\ Kept(Patched(s.disk, 0, c, j), E)
    BY <2>3, <2>4 DEF Kept
  <2>6. Safe(s0, C, E, w)
    <3>1. Len(c) \in 0 .. Len(c)
      BY <2>2
    <3> QED BY <2>2, <2>5, <3>1, WriteSafe
  <2>7. ValidFirst(w.disk, 0)
    <3> DEFINE e == Patched(s.disk, 0, c, n)
    <3>1. w.disk = e /\ e \in [Addresses -> Cells]
      <4>1. w.disk = Patched(s.disk, 0, c, Len(c))
        BY <1>0, <2>2, WriteDisk
      <4>2. Patched(s.disk, 0, c, Len(c)) \in [Addresses -> Cells]
        <5>1. Len(c) \in 0 .. Len(c)
          BY <2>2
        <5> QED BY <1>0, <2>2, <5>1, PatchedType
      <4> HIDE DEF w, n
      <4> QED BY <2>2, <4>1, <4>2
    <3>2. ReadCells(e, 0, n) = c
      BY <1>0, <2>2, PatchedRead
    <3>3. ASSUME NEW i \in 0 .. MetaLen + HdrLen - 1
          PROVE  Read(e, 0 + i) = Read(s.disk, SwapAddress + i)
      <4>1. i + 1 \in 1 .. n /\ 0 + (i + 1) - 1 = 0 + i
            /\ SwapAddress + (i + 1) - 1 = SwapAddress + i
        BY Lengths
      <4>2. ReadCells(e, 0, n)[i + 1] = Read(e, 0 + (i + 1) - 1)
        BY <4>1 DEF ReadCells
      <4>3. ReadCells(s.disk, SwapAddress, n)[i + 1] = Read(s.disk, SwapAddress + (i + 1) - 1)
        BY <4>1 DEF ReadCells
      <4> HIDE DEF e
      <4> QED BY <3>2, <4>1, <4>2, <4>3 DEF c
    <3> HIDE DEF e
    <3>4. ValidFirst(e, 0) <=> ValidFirst(s.disk, SwapAddress)
      <4>1. SwapAddress \in Int
        BY Lengths
      <4> QED BY <1>0, <3>1, <3>3, <4>1, ValidShift
    <3> QED BY <1>3, <3>1, <3>4
  <2>8. t.disk = w.disk /\ t.ops = w.ops
    BY <2>6, SafeNow DEF Sound, States
  <2> HIDE DEF r, t, w
  <2>9. r.s.disk = w.disk /\ r.s.ops = w.ops
    BY <2>1, <2>8
  <2> QED BY <1>00, <2>6, <2>7, <2>9, SafeSame
<1>4. CASE a = 0 /\ ~ValidFirst(s.disk, 0) /\ ~ValidFirst(s.disk, SwapAddress)
  BY <1>0, <1>4 DEF Kept
<1> QED BY <1>1, <1>2, <1>3, <1>4

(* With a valid first header or backup the first header can be read. *)
LEMMA ReadFound ==
  ASSUME NEW s
  PROVE  ReadElementHeader(s, 0).ret = "SUCCESS"
           <=> ValidFirst(s.disk, 0) \/ ValidFirst(s.disk, SwapAddress)
BY DEF ReadElementHeader

-----------------------------------------------------------------------------
(* The states on safe paths are such a set. *)

SafeStates(s0, C, E) == {t \in States : Safe(s0, C, E, t)}

(* No read leads off a safe path. *)
LEMMA SafeClosed ==
  ASSUME UnitSize = 1, NEW s0, NEW C, NEW E
  PROVE  /\ Closed(SafeStates(s0, C, E))
         /\ \A s : s \in SafeStates(s0, C, E) <=> Safe(s0, C, E, s)
<1>1. \A s : s \in SafeStates(s0, C, E) <=> Safe(s0, C, E, s)
  BY DEF SafeStates, Safe, Sound
<1>2. \A s \in SafeStates(s0, C, E) : Sound(s)
  BY DEF SafeStates, Safe
<1>3. ASSUME NEW s \in SafeStates(s0, C, E), NEW a \in Nat
      PROVE  ReadElementHeader(s, a).s \in SafeStates(s0, C, E)
  BY <1>1, ReadSafe
<1>4. ASSUME NEW s \in SafeStates(s0, C, E), NEW t \in States, Sound(t), SameStorage(t, s)
      PROVE  t \in SafeStates(s0, C, E)
  BY <1>1, <1>4, SafeSame DEF SameStorage
<1> QED BY <1>1, <1>2, <1>3, <1>4 DEF Closed

(* filesystem_get_next_element keeps the first header. *)
LEMMA GetNextSafe ==
  ASSUME UnitSize = 1, NEW s0, NEW C, NEW E, NEW s, Safe(s0, C, E, s),
         NEW a \in Nat, NEW id, NEW len \in 0 .. 3
  PROVE  Safe(s0, C, E, GetNext(s, a, id, len).s)
BY SafeClosed, GetNextClosed

(* filesystem_find_latest_element_address keeps the first header. *)
LEMMA FindLatestSafe ==
  ASSUME UnitSize = 1, NEW s0, NEW C, NEW E, NEW s, Safe(s0, C, E, s)
  PROVE  Safe(s0, C, E, FindLatest(s).s)
BY SafeClosed, FindLatestClosed

(* Invalidating the iterator keeps the first header. *)
LEMMA InvalidatedSafe ==
  ASSUME UnitSize = 1, NEW s0, NEW C, NEW E, NEW s, Safe(s0, C, E, s)
  PROVE  Safe(s0, C, E, Invalidated(s))
BY SafeClosed, InvalidatedClosed

(* filesystem_iterator_check_validity keeps the first header. *)
LEMMA CheckValiditySafe ==
  ASSUME UnitSize = 1, NEW s0, NEW C, NEW E, NEW s, Safe(s0, C, E, s)
  PROVE  Safe(s0, C, E, CheckValidity(s).s)
BY SafeClosed, CheckValidityClosed

(* storer_find_*_chunk_from_timestamp keeps the first header. *)
LEMMA FindChunkSafe ==
  ASSUME UnitSize = 1, NEW s0, NEW C, NEW E, NEW s, Safe(s0, C, E, s), NEW stamp
  PROVE  Safe(s0, C, E, FindChunk(s, stamp).s)
BY SafeClosed, FindChunkClosed

(* storer_get_next_*_chunk keeps the first header. *)
LEMMA GetNextChunkSafe ==
  ASSUME UnitSize = 1, NEW s0, NEW C, NEW E, NEW s, Safe(s0, C, E, s), NEW found
  PROVE  Safe(s0, C, E, GetNextChunk(s, found).s)
BY SafeClosed, GetNextChunkClosed

(* Registration finds an element exactly if the first header is valid or   *)
(* can be restored.                                                        *)
LEMMA RegisterHas ==
  ASSUME NEW s, Sound(s)
  PROVE  RegisterPartition(s).ram.has
           <=> ValidFirst(s.disk, 0) \/ ValidFirst(s.disk, SwapAddress)
<1> DEFINE fresh == [has |-> FALSE, laddr |-> 0, lid |-> 1, llen |-> 0,
                     meta |-> [NoMeta EXCEPT !.flen = IF is_dynamic THEN 0 ELSE element_len],
                     fhdr |-> s.ram.fhdr]
           t == [s EXCEPT !.ram = fresh]
           r == ReadElementHeader(t, 0)
           l == FindLatest(r.s)
           done == [l.s EXCEPT !.ram = [l.s.ram EXCEPT !.has = TRUE, !.laddr = l.addr,
                                                       !.lid = l.id, !.llen = l.len]]
<1>1. fresh \in Rams /\ ~fresh.has
  BY Lengths, PartitionAssumption DEF Rams, Metas, NoMeta, Sound, States
<1>2. Sound(t) /\ t.disk = s.disk /\ ~t.ram.has
  <2> HIDE DEF fresh
  <2> QED BY <1>1 DEF Sound, States, RamInside
<1>3. RegisterPartition(s) = IF r.ret = "SUCCESS" THEN done ELSE r.s
  BY Zenon DEF RegisterPartition
<1> HIDE DEF t
<1>4. ReadFrom(t, r.s)
  BY <1>2, ReadElementHeaderType
<1>5. r.ret = "SUCCESS" <=> ValidFirst(s.disk, 0) \/ ValidFirst(s.disk, SwapAddress)
  BY <1>2, ReadFound
<1> HIDE DEF r
<1>6. ~r.s.ram.has
  BY <1>2, <1>4 DEF ReadFrom, SameButMeta
<1>7. done.ram.has
  <2>1. Position(r.s, l)
    BY <1>4, FindLatestType DEF ReadFrom
  <2> HIDE DEF l
  <2>2. l.s \in States /\ l.s.ram \in Rams
    BY <2>1 DEF Position, ReadFrom, Sound, States
  <2> QED BY <2>2 DEF States, Rams
<1> HIDE DEF done
<1> QED BY <1>3, <1>5, <1>6, <1>7

(* Registration makes the first header valid, and a power failure while it *)
(* restores the header does not lose it.                                   *)
LEMMA RegisterSafe ==
  ASSUME UnitSize = 1, NEW s, Sound(s), s.ops = << >>, NEW C, Kept(s.disk, C)
  PROVE  Safe(s, C, {}, RegisterPartition(s))
<1> DEFINE fresh == [has |-> FALSE, laddr |-> 0, lid |-> 1, llen |-> 0,
                     meta |-> [NoMeta EXCEPT !.flen = IF is_dynamic THEN 0 ELSE element_len],
                     fhdr |-> s.ram.fhdr]
           t == [s EXCEPT !.ram = fresh]
           r == ReadElementHeader(t, 0)
           l == FindLatest(r.s)
           done == [l.s EXCEPT !.ram = [l.s.ram EXCEPT !.has = TRUE, !.laddr = l.addr,
                                                       !.lid = l.id, !.llen = l.len]]
<1>1. fresh \in Rams /\ ~fresh.has
  BY Lengths, PartitionAssumption DEF Rams, Metas, NoMeta, Sound, States
<1>2. Sound(t) /\ t.disk = s.disk /\ t.ops = s.ops
  <2> HIDE DEF fresh
  <2> QED BY <1>1 DEF Sound, States, RamInside
<1>3. RegisterPartition(s) = IF r.ret = "SUCCESS" THEN done ELSE r.s
  BY Zenon DEF RegisterPartition
<1>4. Safe(s, C, C, t)
  <2> HIDE DEF t
  <2> QED BY <1>2, SafeStart, SafeSame
<1> HIDE DEF t
<1>5. r.ret = "SUCCESS"
  BY <1>2, ReadFound DEF Kept
<1>6. Safe(s, C, C, r.s) /\ ValidFirst(r.s.disk, 0)
  BY <1>4, <1>5, ReadSafe
<1> HIDE DEF r
<1>7. Safe(s, C, {}, r.s)
  BY <1>6 DEF Safe, Kept
<1>8. Safe(s, C, {}, l.s)
  BY <1>7, FindLatestSafe
<1> HIDE DEF l
<1>9. done.disk = l.s.disk /\ done.ops = l.s.ops
  BY <1>8, SafeNow DEF Sound, States
<1>10. Sound(RegisterPartition(s))
  BY RegisterType
<1> HIDE DEF done
<1>11. RegisterPartition(s) = done
  BY <1>3, <1>5
<1> QED BY <1>8, <1>9, <1>10, <1>11, SafeSame

(* The backup that the store of this element makes, if it makes one. *)
Pending(s, v, len) ==
  IF Placement(s.ram, len).at = 0 /\ MetaLen + HdrLen + len <= partition_size
    THEN {FirstCells(s, v, len)} ELSE {}

(* The next element goes to the same place. *)
SamePlace(r, q) ==
  /\ r.has = q.has
  /\ r.laddr = q.laddr
  /\ r.lid = q.lid
  /\ r.llen = q.llen

(* Where the next element goes, and the backup it makes, depend on the     *)
(* latest element only.                                                    *)
LEMMA PendingSame ==
  ASSUME NEW s, NEW t, SamePlace(t.ram, s.ram), NEW v, NEW len
  PROVE  /\ Placement(t.ram, len) = Placement(s.ram, len)
         /\ \A p, h : FirstMetadata(t, p, h, len) = FirstMetadata(s, p, h, len)
         /\ FirstCells(t, v, len) = FirstCells(s, v, len)
         /\ Pending(t, v, len) = Pending(s, v, len)
<1>1. Placement(t.ram, len) = Placement(s.ram, len)
  BY DEF Placement, SamePlace
<1>2. \A p, h : FirstMetadata(t, p, h, len) = FirstMetadata(s, p, h, len)
  BY DEF FirstMetadata, SamePlace
<1>3. FirstCells(t, v, len) = FirstCells(s, v, len)
  BY <1>1, <1>2, Zenon DEF FirstCells
<1> QED BY <1>1, <1>2, <1>3 DEF Pending

(* They are the cells of a valid first header. *)
LEMMA FirstCellsValid ==
  ASSUME NEW s, Sound(s), NEW v \in Nat, NEW len \in Lens,
         MetaLen + HdrLen + len <= partition_size
  PROVE  /\ FirstCells(s, v, len) \in Seq(Cells)
         /\ Len(FirstCells(s, v, len)) = MetaLen + HdrLen
         /\ \A d \in [Addresses -> Cells], a \in Int :
              ReadCells(d, a, MetaLen + HdrLen) = FirstCells(s, v, len) => ValidFirst(d, a)
<1> DEFINE p == Placement(s.ram, len)
           h == Header(p, v, len)
           m == FirstMetadata(s, p, h, len)
<1>0. s.ram \in Rams /\ RamInside(s.ram)
  BY DEF Sound, States
<1>1. p.id \in 0 .. MaxId /\ p.xor \in 0 .. 3 /\ len \in 0 .. 3
  BY <1>0, PlacementType
<1>2. ~is_dynamic => p.xor = 0
  BY DEF Placement
<1> HIDE DEF p
<1>3. h \in Headers /\ Exact(h)
  BY <1>1, <1>2, HeaderType DEF Exact, Header
<1> HIDE DEF h
<1>4. len \in FirstLens
  BY <1>1 DEF FirstLens
<1>5. m \in Metas /\ m.crc = HeaderCrc(m.flen, m.last, h)
  <2>1. m \in Metas
    BY <1>3, <1>4, FirstMetadataType
  <2>2. m.crc = HeaderCrc(m.flen, m.last, h)
    BY DEF FirstMetadata
  <2> QED BY <2>1, <2>2
<1> HIDE DEF m
<1>6. FirstCells(s, v, len) = MetaCells(m) \o HeaderCells(h)
  BY DEF FirstCells, m, h, p
<1>7. /\ MetaCells(m) \o HeaderCells(h) \in Seq(Cells)
      /\ Len(MetaCells(m) \o HeaderCells(h)) = MetaLen + HdrLen
  BY <1>3, <1>5, CellsOf
<1>8. \A d \in [Addresses -> Cells], a \in Int :
        ReadCells(d, a, MetaLen + HdrLen) = MetaCells(m) \o HeaderCells(h) => ValidFirst(d, a)
  BY <1>3, <1>5, ValidCells
<1> QED BY <1>6, <1>7, <1>8

(* The backup of a new first header is written while the old one is valid, *)
(* unless it is there already.                                             *)
LEMMA BackupSafe ==
  ASSUME UnitSize = 1, NEW s0, NEW s, Sound(s), NEW cells \in Seq(Cells),
         Len(cells) = MetaLen + HdrLen,
         \A d \in [Addresses -> Cells], a \in Int :
           ReadCells(d, a, MetaLen + HdrLen) = cells => ValidFirst(d, a)
  PROVE  /\ ReadCells(Backup(s, cells).disk, SwapAddress, MetaLen + HdrLen) = cells
         /\ Safe(s0, {cells}, {cells}, s) => Safe(s0, {cells}, {cells}, Backup(s, cells))
<1> USE Lengths
<1>1. s.disk \in [Addresses -> Cells] /\ Inside(SwapAddress, Len(cells)) /\ SwapAddress \in Int
  BY DEF Sound, States, Inside
<1>2. CASE ReadCells(s.disk, SwapAddress, Len(cells)) = cells
  <2>1. Backup(s, cells) = s
    BY <1>2 DEF Backup
  <2> QED BY <1>2, <2>1
<1>3. CASE ReadCells(s.disk, SwapAddress, Len(cells)) # cells
  <2> DEFINE w == Write(s, SwapAddress, cells)
             E(j) == Patched(s.disk, SwapAddress, cells, j)
  <2>1. Backup(s, cells) = w
    BY <1>3 DEF Backup
  <2>2. w.disk = E(Len(cells))
    BY <1>1, WriteDisk
  <2>3. ReadCells(E(Len(cells)), SwapAddress, Len(cells)) = cells
    BY <1>1, PatchedRead
  <2>4. ReadCells(w.disk, SwapAddress, MetaLen + HdrLen) = cells
    <3> HIDE DEF w, E
    <3> QED BY <2>2, <2>3
  <2>5. ASSUME Safe(s0, {cells}, {cells}, s) PROVE Safe(s0, {cells}, {cells}, w)
    <3>1. ValidFirst(s.disk, 0)
      BY <1>3, <2>5, SafeNow DEF Kept
    <3>2. \A j \in 0 .. Len(cells) : ValidFirst(E(j), 0)
      <4>1. SwapAddress + Len(cells) <= 0
        OBVIOUS
      <4> QED BY <1>1, <3>1, <4>1, PatchedBeside
    <3>3. \A j \in 0 .. Len(cells) : Kept(E(j), {cells})
      <4> HIDE DEF E
      <4> QED BY <3>2 DEF Kept
    <3>4. Len(cells) \in 0 .. Len(cells)
      OBVIOUS
    <3>5. Kept(E(Len(cells)), {cells})
      BY <3>3, <3>4
    <3> QED BY <1>1, <2>5, <3>3, <3>5, WriteSafe
  <2> HIDE DEF w
  <2> QED BY <2>1, <2>4, <2>5
<1> QED BY <1>2, <1>3

(* The new first header is written while its backup is valid. *)
LEMMA HeadSafe ==
  ASSUME UnitSize = 1, NEW s0, NEW s, NEW cells \in Seq(Cells),
         Len(cells) = MetaLen + HdrLen,
         \A d \in [Addresses -> Cells], a \in Int :
           ReadCells(d, a, MetaLen + HdrLen) = cells => ValidFirst(d, a),
         ReadCells(s.disk, SwapAddress, MetaLen + HdrLen) = cells,
         Safe(s0, {cells}, {cells}, s)
  PROVE  Safe(s0, {cells}, {cells}, Write(s, 0, cells))
<1> USE Lengths
<1> DEFINE E(j) == Patched(s.disk, 0, cells, j)
<1>1. s.disk \in [Addresses -> Cells] /\ Inside(0, Len(cells)) /\ SwapAddress \in Int /\ 0 \in Int
  BY SafeNow DEF Inside
<1>2. ValidFirst(s.disk, SwapAddress)
  BY <1>1
<1>3. \A j \in 0 .. Len(cells) :
        /\ ValidFirst(E(j), SwapAddress)
        /\ ReadCells(E(j), SwapAddress, MetaLen + HdrLen) = cells
  <2>1. SwapAddress + MetaLen + HdrLen <= 0
    OBVIOUS
  <2> QED BY <1>1, <1>2, <2>1, PatchedBeside
<1>4. \A j \in 0 .. Len(cells) : Kept(E(j), {cells})
  <2> HIDE DEF E
  <2> QED BY <1>3 DEF Kept
<1>5. Len(cells) \in 0 .. Len(cells)
  OBVIOUS
<1>6. Kept(E(Len(cells)), {cells})
  BY <1>4, <1>5
<1> QED BY <1>1, <1>4, <1>6, WriteSafe

(* The header cleared after a new element is not the first one. *)
LEMMA ClearStaleNextSafe ==
  ASSUME UnitSize = 1, NEW s0, NEW C, NEW E, NEW s, Safe(s0, C, E, s), NEW p, p.at \in Nat,
         p.at = 0 \/ MetaLen + HdrLen <= p.at, NEW len \in 0 .. 3
  PROVE  Safe(s0, C, E, ClearStaleNext(s, p, len))
<1> DEFINE n == GetNext(s, p.at, p.id, len)
           w == Write(n.s, n.addr, BlankCells(HdrLen))
<1>0. Sound(s)
  BY SafeNow
<1>1. /\ n.hdr \in Headers /\ ReadFrom(s, n.s)
      /\ \/ n.addr = 0
         \/ /\ n.addr = p.at + HeaderLenAt(p.at) + len
            /\ n.addr > p.at
            /\ n.addr + HdrLen + LinkedLen(s, len, n.hdr.xor) <= partition_size
            /\ n.s = s
  BY <1>0, GetNextType
<1>2. ClearStaleNext(s, p, len) = IF n.ret = "SUCCESS" /\ n.addr > p.at THEN w ELSE n.s
  BY Zenon DEF ClearStaleNext
<1>3. Safe(s0, C, E, n.s)
  BY GetNextSafe
<1> HIDE DEF n
<1>4. CASE n.ret = "SUCCESS" /\ n.addr > p.at
  <2>1. LinkedLen(s, len, n.hdr.xor) \in 0 .. 3
    BY <1>0, <1>1, LinkedLenType DEF Headers
  <2>2. n.addr \in Int /\ MetaLen + HdrLen <= n.addr /\ n.addr + HdrLen <= partition_size
    BY <1>1, <1>4, <2>1, Lengths DEF HeaderLenAt
  <2>3. BlankCells(HdrLen) \in Seq(Cells) /\ Len(BlankCells(HdrLen)) = HdrLen
    BY CellsOf, Lengths
  <2>4. Safe(s0, C, E, w)
    BY <1>3, <2>2, <2>3, WriteBehind
  <2> QED BY <1>2, <1>4, <2>4
<1>5. CASE ~(n.ret = "SUCCESS" /\ n.addr > p.at)
  BY <1>2, <1>3, <1>5
<1> QED BY <1>4, <1>5

(* filesystem_store_element: what comes next goes to the same place unless *)
(* it returned NRF_SUCCESS, a first element that was stored is valid, and  *)
(* no moment on the way is without a valid first header or backup if there *)
(* was one before.                                                         *)
LEMMA StoreSafe ==
  ASSUME UnitSize = 1, NEW s, Sound(s), s.ops = << >>, NEW v \in Nat, NEW len \in Lens
  PROVE  LET r == StoreElement(s, v, len)
             C == Pending(s, v, len)
         IN  /\ r.ret \in {"SUCCESS", "NO_MEM", "INTERNAL"}
             /\ SamePlace(r.checked.ram, s.ram)
             /\ SamePlace(r.begun.ram, s.ram)
             /\ r.ret # "SUCCESS" => SamePlace(r.s.ram, s.ram)
             /\ r.ret = "NO_MEM" => r.s = s /\ C = {}
             /\ r.ret = "SUCCESS" => r.s.ram.has
             /\ r.ret = "SUCCESS" /\ Placement(s.ram, len).at = 0 => ValidFirst(r.s.disk, 0)
             /\ Kept(s.disk, C) => Safe(s, C, C, r.s)
<1> DEFINE r == StoreElement(s, v, len)
           C == Pending(s, v, len)
           p == Placement(s.ram, len)
           h == Header(p, v, len)
           c == IteratorConflict(s, p.at, len)
           checked == ClearStaleNext(c.s, p, len)
           begun == IF p.at # 0 THEN checked
                    ELSE [checked EXCEPT !.ram.meta = FirstMetadata(checked, p, h, len),
                                         !.ram.fhdr = h]
           cells == IF p.at = 0 THEN MetaCells(begun.ram.meta) \o HeaderCells(h)
                                ELSE HeaderCells(h)
           b == BackupFirst(begun, p)
           headed == Write(b, p.at, cells)
           written == Write(headed, p.at + HeaderLenAt(p.at), DataCells(v, len))
           done == [written EXCEPT !.ram = [written.ram EXCEPT !.has = TRUE, !.laddr = p.at,
                                                               !.lid = p.id, !.llen = len]]
<1> SUFFICES /\ r.ret \in {"SUCCESS", "NO_MEM", "INTERNAL"}
             /\ SamePlace(r.checked.ram, s.ram)
             /\ SamePlace(r.begun.ram, s.ram)
             /\ r.ret # "SUCCESS" => SamePlace(r.s.ram, s.ram)
             /\ r.ret = "NO_MEM" => r.s = s /\ C = {}
             /\ r.ret = "SUCCESS" => r.s.ram.has
             /\ r.ret = "SUCCESS" /\ p.at = 0 => ValidFirst(r.s.disk, 0)
             /\ Kept(s.disk, C) => Safe(s, C, C, r.s)
  OBVIOUS
<1>0. s.ram \in Rams /\ RamInside(s.ram)
  BY DEF Sound, States
<1>1. /\ p.at \in Nat /\ p.id \in 0 .. MaxId /\ p.xor \in 0 .. 3
      /\ p.at = 0 \/ MetaLen + HdrLen <= p.at
      /\ len \in 0 .. 3
  BY <1>0, PlacementType
<1>00. Kept(s.disk, C) => Safe(s, C, C, s)
  BY SafeStart
<1>2. CASE p.at + HeaderLenAt(p.at) + len > partition_size
  <2>1. r = [ret |-> "NO_MEM", checked |-> s, begun |-> s, s |-> s]
    BY <1>2 DEF StoreElement
  <2>2. C = {}
    <3> HIDE DEF p
    <3>1. p.at = 0 => ~(MetaLen + HdrLen + len <= partition_size)
      BY <1>1, <1>2, Lengths DEF HeaderLenAt
    <3> QED BY <3>1 DEF Pending, p
  <2>3. SamePlace(s.ram, s.ram)
    BY DEF SamePlace
  <2> HIDE DEF r, C
  <2> QED BY <1>00, <2>1, <2>2, <2>3
<1>3. Checked(s, c.s) /\ (Kept(s.disk, C) => Safe(s, C, C, c.s))
  <2>1. c.s = CheckValidity(s).s
    BY DEF IteratorConflict
  <2>2. Checked(s, c.s)
    BY IteratorConflictType
  <2> HIDE DEF c, C
  <2> QED BY <1>00, <2>1, <2>2, CheckValiditySafe
<1>4. SamePlace(c.s.ram, s.ram) /\ Sound(c.s)
  BY <1>3 DEF Checked, SameButMeta, SamePlace
<1>5. CASE ~(p.at + HeaderLenAt(p.at) + len > partition_size) /\ c.conflict
  <2>1. r = [ret |-> "INTERNAL", checked |-> c.s, begun |-> c.s, s |-> c.s]
    BY <1>5 DEF StoreElement
  <2> HIDE DEF r, C, c
  <2> QED BY <1>3, <1>4, <2>1
<1>6. CASE ~(p.at + HeaderLenAt(p.at) + len > partition_size) /\ ~c.conflict
  <2>1. r = IF ReadCells(headed.disk, p.at, Len(cells)) # cells
              THEN [ret |-> "INTERNAL", checked |-> checked, begun |-> begun, s |-> headed]
              ELSE [ret |-> "SUCCESS", checked |-> checked, begun |-> begun, s |-> done]
    BY <1>6 DEF StoreElement
  <2>01. Sound(r.s)
    BY StoreElementType
  <2>2. /\ Sound(checked) /\ SamePlace(checked.ram, s.ram)
        /\ Kept(s.disk, C) => Safe(s, C, C, checked)
    <3>1. ReadFrom(c.s, checked)
      BY <1>1, <1>4, ClearStaleNextType
    <3>2. Kept(s.disk, C) => Safe(s, C, C, checked)
      <4> HIDE DEF C, c, p
      <4> QED BY <1>1, <1>3, ClearStaleNextSafe
    <3> HIDE DEF checked, c
    <3> QED BY <1>4, <3>1, <3>2 DEF ReadFrom, SameButMeta, SamePlace
  <2>3. h \in Headers
    BY <1>1, HeaderType
  <2>4. p.at + HeaderLenAt(p.at) + len <= partition_size
    BY <1>1, <1>6, Lengths DEF HeaderLenAt
  <2>5. FirstMetadata(checked, p, h, len) = FirstMetadata(s, p, h, len)
    <3> HIDE DEF checked, p, h
    <3> QED BY <2>2, PendingSame
  <2>02. C = IF p.at = 0 /\ MetaLen + HdrLen + len <= partition_size
               THEN {FirstCells(s, v, len)} ELSE {}
    BY DEF Pending
  <2>03. FirstCells(s, v, len) = MetaCells(FirstMetadata(s, p, h, len)) \o HeaderCells(h)
    BY DEF FirstCells
  <2>04. p.at = 0 => BackupFirst(begun, p) = Backup(begun, MetaCells(begun.ram.meta) \o HeaderCells(begun.ram.fhdr))
    <3> HIDE DEF begun, p
    <3>1. p.at = 0 => UnitStart(p.at) = 0
      BY DEF UnitStart
    <3> QED BY <3>1 DEF BackupFirst
  <2>05. p.at # 0 => BackupFirst(begun, p) = begun
    <3> HIDE DEF begun, p
    <3>1. UnitStart(p.at) = p.at
      BY <1>1 DEF UnitStart
    <3> QED BY <3>1 DEF BackupFirst
  <2> HIDE DEF r, p, h, checked, C
  <2>6. /\ Sound(begun) /\ SamePlace(begun.ram, s.ram)
        /\ begun.disk = checked.disk /\ begun.ops = checked.ops
        /\ p.at = 0 => /\ begun.ram.meta = FirstMetadata(s, p, h, len)
                       /\ begun.ram.fhdr = h
    <3>1. CASE p.at = 0
      <4>1. len \in FirstLens
        BY <1>1, <2>4, <3>1, Lengths DEF FirstLens, HeaderLenAt
      <4> DEFINE m == FirstMetadata(checked, p, h, len)
      <4>2. m \in Metas
        BY <2>2, <2>3, <4>1, FirstMetadataType
      <4> HIDE DEF m
      <4>3. begun = [checked EXCEPT !.ram.meta = m, !.ram.fhdr = h]
        BY <3>1 DEF m
      <4> HIDE DEF begun
      <4> QED BY <2>2, <2>3, <2>5, <4>2, <4>3 DEF Sound, States, Rams, RamInside, SamePlace, m
    <3>2. CASE p.at # 0
      BY <2>2, <3>2
    <3> QED BY <3>1, <3>2
  <2>7. Kept(s.disk, C) => Safe(s, C, C, begun)
    <3> HIDE DEF begun
    <3> QED BY <2>2, <2>6, SafeSame
  <2> HIDE DEF begun
  <2>8. cells \in Seq(Cells) /\ Len(cells) = HeaderLenAt(p.at)
    <3>1. begun.ram.meta \in Metas
      BY <2>6 DEF Sound, States, Rams
    <3> QED BY <2>3, <3>1, CellsOf DEF HeaderLenAt
  <2>9. Sound(b) /\ b.ram = begun.ram
    BY <2>6, BackupFirstType
  <2>10. HeaderLenAt(p.at) \in Nat
    BY Lengths DEF HeaderLenAt
  <2>11. Inside(p.at, Len(cells)) /\ p.at \in Int
    <3> HIDE DEF cells
    <3> QED BY <1>1, <2>4, <2>8, <2>10, Lengths DEF Inside
  <2>12. p.at = 0 => /\ cells = FirstCells(s, v, len)
                     /\ b = Backup(begun, cells)
                     /\ C = {cells}
                     /\ MetaLen + HdrLen + len <= partition_size
    <3> SUFFICES ASSUME p.at = 0
                 PROVE  /\ cells = FirstCells(s, v, len)
                        /\ b = Backup(begun, cells)
                        /\ C = {cells}
                        /\ MetaLen + HdrLen + len <= partition_size
      OBVIOUS
    <3>1. MetaLen + HdrLen + len <= partition_size
      BY <1>1, <2>4, Lengths DEF HeaderLenAt
    <3>2. cells = MetaCells(begun.ram.meta) \o HeaderCells(h) /\ cells = FirstCells(s, v, len)
      BY <2>6, <2>03
    <3>3. b = Backup(begun, MetaCells(begun.ram.meta) \o HeaderCells(h))
      BY <2>6, <2>04
    <3> QED BY <2>02, <3>1, <3>2, <3>3
  <2> HIDE DEF cells, b
  <2>13. Sound(headed) /\ headed.ram = b.ram
    <3>1. Sound(b) /\ cells \in Seq(Cells) /\ Inside(p.at, Len(cells)) /\ p.at \in Int
      BY <2>8, <2>9, <2>11
    <3> QED BY ONLY <3>1, WriteType
  <2>14. DataCells(v, len) \in Seq(Cells) /\ Len(DataCells(v, len)) = len
    <3>1. v \in Nat /\ len \in Nat
      BY <1>1
    <3> QED BY ONLY <3>1, CellsOf
  <2> DEFINE a == p.at + HeaderLenAt(p.at)
             data == DataCells(v, len)
  <2>15. a \in Int /\ MetaLen + HdrLen <= a /\ a + len <= partition_size /\ Inside(a, len)
    BY <1>1, <2>4, <2>10, Lengths DEF Inside, HeaderLenAt
  <2>16. p.at = 0 => \A d \in [Addresses -> Cells], x \in Int :
                       ReadCells(d, x, MetaLen + HdrLen) = cells => ValidFirst(d, x)
    BY <2>12, FirstCellsValid
  <2>17. Kept(s.disk, C) => Safe(s, C, C, headed)
    <3> SUFFICES ASSUME Kept(s.disk, C) PROVE Safe(s, C, C, headed)
      OBVIOUS
    <3>1. CASE p.at = 0
      <4>1. Len(cells) = MetaLen + HdrLen
        BY <2>8, <3>1 DEF HeaderLenAt
      <4>2. /\ ReadCells(b.disk, SwapAddress, MetaLen + HdrLen) = cells
            /\ Safe(s, {cells}, {cells}, b)
        BY <2>6, <2>7, <2>8, <2>12, <2>16, <3>1, <4>1, BackupSafe
      <4>3. Safe(s, {cells}, {cells}, Write(b, 0, cells))
        BY <2>8, <2>16, <3>1, <4>1, <4>2, HeadSafe
      <4> QED BY <2>12, <3>1, <4>3
    <3>2. CASE p.at # 0
      <4>1. b = begun /\ Safe(s, C, C, b)
        BY <2>05, <2>7, <3>2 DEF b
      <4>2. MetaLen + HdrLen <= p.at /\ p.at + Len(cells) <= partition_size
        BY <1>1, <2>4, <2>8, <2>10, <3>2, Lengths
      <4> QED BY <2>8, <2>11, <4>1, <4>2, WriteBehind
    <3> QED BY <3>1, <3>2
  <2> HIDE DEF headed, a, data
  <2>18. written = Write(headed, a, data)
    BY DEF a, data
  <2> HIDE DEF written
  <2>19. Sound(written) /\ (Kept(s.disk, C) => Safe(s, C, C, written))
    <3>1. data \in Seq(Cells) /\ Len(data) = len
      BY <2>14 DEF data
    <3>2. Sound(Write(headed, a, data))
      BY <2>13, <2>15, <3>1, WriteType
    <3>3. Kept(s.disk, C) => Safe(s, C, C, Write(headed, a, data))
      BY <2>15, <2>17, <3>1, WriteBehind
    <3> QED BY <2>18, <3>2, <3>3
  <2>20. /\ done.disk = written.disk /\ done.ops = written.ops /\ done.ram.has
    BY <2>19 DEF Sound, States, Rams
  <2> HIDE DEF done
  <2>21. CASE ReadCells(headed.disk, p.at, Len(cells)) # cells
    <3>1. r = [ret |-> "INTERNAL", checked |-> checked, begun |-> begun, s |-> headed]
      BY <2>1, <2>21
    <3>2. SamePlace(headed.ram, s.ram)
      BY <2>6, <2>9, <2>13
    <3> QED BY <2>2, <2>6, <2>17, <3>1, <3>2
  <2>22. CASE ReadCells(headed.disk, p.at, Len(cells)) = cells
    <3>1. r = [ret |-> "SUCCESS", checked |-> checked, begun |-> begun, s |-> done]
      BY <2>1, <2>22
    <3>2. Kept(s.disk, C) => Safe(s, C, C, done)
      <4>1. Sound(done)
        BY <2>01, <3>1
      <4> QED BY <2>19, <2>20, <4>1, SafeSame
    <3>3. p.at = 0 => ValidFirst(done.disk, 0)
      <4> SUFFICES ASSUME p.at = 0 PROVE ValidFirst(written.disk, 0)
        BY <2>20
      <4>1. headed.disk \in [Addresses -> Cells]
        BY <2>13 DEF Sound, States
      <4>2. ValidFirst(headed.disk, 0)
        <5>1. Len(cells) = MetaLen + HdrLen
          BY <2>8 DEF HeaderLenAt
        <5>2. ReadCells(headed.disk, 0, MetaLen + HdrLen) = cells
          BY <2>22, <5>1
        <5> QED BY <2>16, <4>1, <5>2
      <4>3. data \in Seq(Cells) /\ Len(data) = len /\ len \in 0 .. len
        BY <1>1, <2>14 DEF data
      <4>4. written.disk = Patched(headed.disk, a, data, len)
        BY <2>13, <2>15, <2>18, <4>3, WriteDisk
      <4>5. ValidFirst(Patched(headed.disk, a, data, len), 0) <=> ValidFirst(headed.disk, 0)
        <5>1. 0 + MetaLen + HdrLen <= a /\ len \in 0 .. Len(data)
          BY <2>15, <4>3, Lengths
        <5> QED BY <2>15, <4>1, <4>3, <5>1, PatchedBeside
      <4> QED BY <4>2, <4>4, <4>5
    <3> QED BY <2>2, <2>6, <2>20, <3>1, <3>2, <3>3
  <2> QED BY <2>21, <2>22
<1> QED BY <1>2, <1>5, <1>6
-----------------------------------------------------------------------------
(* The backup that may be needed while the partition is in use: the one of *)
(* the store that failed and comes again.                                  *)
Needed == IF retry = 0 THEN {} ELSE Pending(Now, attempts + 1, retry)

(* A registered partition that holds an element has a valid first header,  *)
(* or the backup that the store to come would make; before registration    *)
(* one of the two is valid.                                                *)
Survives ==
  /\ FsInv
  /\ mode = "up" /\ stored # {} => ram.has
  /\ mode = "up" /\ ram.has => Kept(disk, Needed)
  /\ mode = "down" /\ stored # {} => ValidFirst(disk, 0) \/ ValidFirst(disk, SwapAddress)

(* EEPROM is written byte by byte, and no chunk of the storer is empty: a   *)
(* failed store of length 0 would not be known from none (retry = 0).      *)
InEeprom == UnitSize = 1 /\ 0 \notin Lens

(* A backup is needed only when the first header is not valid. *)
LEMMA KeptMono ==
  /\ \A d, C : Kept(d, {}) => Kept(d, C)
  /\ \A d, C : Kept(d, C) => ValidFirst(d, 0) \/ ValidFirst(d, SwapAddress)
  /\ \A d : Kept(d, {}) <=> ValidFirst(d, 0)
BY DEF Kept

(* The fields of the present state. *)
LEMMA NowFields ==
  Now.disk = disk /\ Now.ram = ram /\ Now.it = it /\ Now.track = track /\ Now.ops = << >>
BY DEF Now

(* filesystem_register_partition preserves the invariant: it restores the  *)
(* first header before it looks for the latest element.                    *)
LEMMA RegisterSurvives ==
  ASSUME InEeprom, Survives, Register
  PROVE  Survives'
<1> DEFINE r == RegisterPartition(Now)
           C == Seq(Cells)
<1>1. FsInv'
  BY RegisterInv DEF Survives
<1>2. /\ mode = "down" /\ mode' = "up" /\ disk' = r.disk /\ ram' = r.ram
      /\ stored' = stored
  BY DEF Register, Become, ghosts
<1>3. Sound(Now) /\ disk \in [Addresses -> Cells] /\ UnitSize = 1
  BY SoundNow DEF Survives, FsInv, InEeprom
<1>4. r.ram.has <=> ValidFirst(disk, 0) \/ ValidFirst(disk, SwapAddress)
  BY <1>3, NowFields, RegisterHas
<1>5. ReadCells(disk, SwapAddress, MetaLen + HdrLen) \in C
  BY <1>3, Lengths, ReadCellsType
<1>6. r.ram.has => Kept(disk, C)
  BY <1>4, <1>5 DEF Kept
<1>7. r.ram.has => Safe(Now, C, {}, r)
  <2> HIDE DEF C
  <2> QED BY <1>3, <1>6, NowFields, RegisterSafe
<1> HIDE DEF r, C
<1>8. r.ram.has => ValidFirst(r.disk, 0)
  BY <1>7, SafeNow, KeptMono
<1>9. ram'.has => Kept(disk', Needed')
  BY <1>2, <1>8 DEF Kept
<1>10. stored' # {} => ram'.has
  BY <1>2, <1>4 DEF Survives
<1> QED BY <1>1, <1>2, <1>9, <1>10 DEF Survives

(* A power failure during the registration preserves the invariant: the    *)
(* backup stays until the restored header is complete.                     *)
LEMMA RegisterCrashSurvives ==
  ASSUME InEeprom, Survives, RegisterCrash
  PROVE  Survives'
<1> DEFINE r == RegisterPartition(Now)
           C == Seq(Cells)
<1>1. FsInv'
  BY RegisterCrashInv DEF Survives
<1>2. PICK k \in 1 .. Len(r.ops) - 1 : Become(PowerLost(Trace(Now, r.ops)[k].disk))
  BY DEF RegisterCrash
<1>3. /\ mode = "down" /\ mode' = "down" /\ disk' = Trace(Now, r.ops)[k].disk
      /\ stored' = stored
  BY <1>2 DEF RegisterCrash, Become, PowerLost, ghosts
<1>4. Sound(Now) /\ disk \in [Addresses -> Cells] /\ UnitSize = 1
  BY SoundNow DEF Survives, FsInv, InEeprom
<1>5. ReadCells(disk, SwapAddress, MetaLen + HdrLen) \in C
  BY <1>4, Lengths, ReadCellsType
<1>6. stored # {} => Kept(disk, C)
  BY <1>3, <1>5 DEF Kept, Survives
<1>7. stored # {} => Safe(Now, C, {}, r)
  <2> HIDE DEF C
  <2> QED BY <1>4, <1>6, NowFields, RegisterSafe
<1>8. r.ops \in Seq(Ops)
  BY <1>4, RegisterType DEF Sound, States
<1> HIDE DEF r, C
<1>9. k \in 0 .. Len(r.ops)
  BY <1>8
<1>10. stored # {} => Kept(disk', C)
  BY <1>3, <1>7, <1>9 DEF Safe
<1> QED BY <1>1, <1>3, <1>10, KeptMono DEF Survives

(* What a store begins with. *)
LEMMA StoreBegins ==
  ASSUME InEeprom, Survives, NEW len \in Lens, MayStore(len)
  PROVE  /\ Sound(Now) /\ attempts + 1 \in Nat /\ UnitSize = 1 /\ len # 0
         /\ ram.has => Kept(disk, Pending(Now, attempts + 1, len))
         /\ stored # {} => ram.has
<1>1. Sound(Now) /\ attempts + 1 \in Nat /\ UnitSize = 1 /\ len # 0
  BY DEF Survives, FsInv, InEeprom
<1>2. mode = "up" /\ retry \in {0, len}
  BY DEF MayStore
<1>3. ram.has => Kept(disk, Needed)
  BY <1>2 DEF Survives
<1>4. Needed = {} \/ Needed = Pending(Now, attempts + 1, len)
  BY <1>2 DEF Needed
<1> HIDE DEF Needed
<1>5. ram.has => Kept(disk, Pending(Now, attempts + 1, len))
  BY <1>3, <1>4, KeptMono
<1> QED BY <1>1, <1>2, <1>5 DEF Survives

(* filesystem_store_element preserves the invariant. *)
LEMMA StoreSurvives ==
  ASSUME InEeprom, Survives, NEW len \in Lens, Store(len)
  PROVE  Survives'
<1> DEFINE r == StoreElement(Now, attempts + 1, len)
           C == Pending(Now, attempts + 1, len)
           p == Placement(ram, len)
<1>1. FsInv'
  BY StoreInv DEF Survives
<1>2. /\ Sound(Now) /\ attempts + 1 \in Nat /\ UnitSize = 1 /\ len # 0
      /\ ram.has => Kept(disk, C)
      /\ stored # {} => ram.has
  BY StoreBegins DEF Store
<1>3. /\ mode = "up" /\ mode' = "up" /\ disk' = r.s.disk /\ ram' = r.s.ram
      /\ attempts' = (IF r.ret = "INTERNAL" THEN attempts ELSE attempts + 1)
      /\ retry' = (IF r.ret = "INTERNAL" THEN len ELSE 0)
      /\ r.ret # "SUCCESS" => stored' = stored
  BY DEF Store, MayStore, Become
<1>4. /\ r.ret \in {"SUCCESS", "NO_MEM", "INTERNAL"}
      /\ r.ret # "SUCCESS" => SamePlace(r.s.ram, ram)
      /\ r.ret = "NO_MEM" => r.s = Now /\ C = {}
      /\ r.ret = "SUCCESS" => r.s.ram.has
      /\ r.ret = "SUCCESS" /\ p.at = 0 => ValidFirst(r.s.disk, 0)
      /\ Kept(disk, C) => Safe(Now, C, C, r.s)
  BY <1>2, NowFields, StoreSafe
<1>5. ~ram.has => p.at = 0
  BY DEF Placement
<1>6. p.at # 0 => C = {}
  BY NowFields DEF Pending
<1> HIDE DEF r, C, p
<1>7. ram.has => Kept(r.s.disk, C)
  BY <1>2, <1>4, SafeNow
<1>8. CASE r.ret = "SUCCESS"
  <2>1. ValidFirst(r.s.disk, 0)
    BY <1>4, <1>5, <1>6, <1>7, <1>8, KeptMono
  <2>2. Kept(disk', Needed')
    BY <1>3, <2>1 DEF Kept
  <2> QED BY <1>1, <1>3, <1>4, <1>8, <2>2 DEF Survives
<1>9. CASE r.ret = "NO_MEM"
  <2>1. SamePlace(ram', ram) /\ stored' = stored
    BY <1>3, <1>4, <1>9
  <2>2. ram'.has = ram.has
    BY <2>1 DEF SamePlace
  <2>3. ram.has => Kept(disk', Needed')
    BY <1>3, <1>4, <1>7, <1>9 DEF Kept
  <2> QED BY <1>1, <1>2, <1>3, <2>1, <2>2, <2>3 DEF Survives
<1>10. CASE r.ret = "INTERNAL"
  <2>1. SamePlace(ram', ram) /\ stored' = stored
    BY <1>3, <1>4, <1>10
  <2>2. ram'.has = ram.has
    BY <2>1 DEF SamePlace
  <2>3. Needed' = C
    <3>1. SamePlace(Now'.ram, Now.ram)
      BY <2>1 DEF Now
    <3>2. Pending(Now', attempts + 1, len) = C
      BY <3>1, PendingSame DEF C
    <3>3. attempts' = attempts /\ retry' = len /\ retry' # 0
      BY <1>2, <1>3, <1>10
    <3> QED BY <3>2, <3>3 DEF Needed
  <2>4. ram.has => Kept(disk', Needed')
    BY <1>3, <1>7, <2>3
  <2> QED BY <1>1, <1>2, <1>3, <2>1, <2>2, <2>4 DEF Survives
<1> QED BY <1>4, <1>8, <1>9, <1>10

(* A storage error preserves the invariant: the same element comes again   *)
(* and would make the same backup.                                         *)
LEMMA StoreFailsSurvives ==
  ASSUME InEeprom, Survives, NEW len \in Lens, StoreFails(len)
  PROVE  Survives'
<1> DEFINE r == StoreElement(Now, attempts + 1, len)
           C == Pending(Now, attempts + 1, len)
           ops == r.s.ops
           q(k) == IF k < Len(r.checked.ops) THEN r.checked.ram ELSE r.begun.ram
           Left(k) == [Trace(Now, ops)[k] EXCEPT
                         !.it = r.s.it,
                         !.ram = IF k < Len(r.checked.ops) THEN r.checked.ram
                                                           ELSE r.begun.ram]
<1>1. FsInv'
  BY StoreFailsInv DEF Survives
<1>2. /\ Sound(Now) /\ attempts + 1 \in Nat /\ UnitSize = 1 /\ len # 0
      /\ ram.has => Kept(disk, C)
      /\ stored # {} => ram.has
  BY StoreBegins DEF StoreFails
<1>3. PICK k \in 0 .. Len(ops) : Become(Left(k))
  BY DEF StoreFails
<1>4. /\ SamePlace(r.checked.ram, ram) /\ SamePlace(r.begun.ram, ram)
      /\ Kept(disk, C) => Safe(Now, C, C, r.s)
  BY <1>2, NowFields, StoreSafe
<1>5. disk' = Trace(Now, ops)[k].disk /\ ram' = q(k)
  <2>1. r.s.ops \in Seq(Ops)
    BY <1>2, StoreElementType DEF Sound, States
  <2> DEFINE t == Trace(Now, ops)[k]
  <2>2. t \in States
    BY <1>2, <2>1, TraceType DEF Sound
  <2> HIDE DEF t
  <2>3. Left(k) = [t EXCEPT !.it = r.s.it, !.ram = q(k)]
    BY DEF t
  <2> HIDE DEF q, Left, r
  <2>4. Left(k).disk = t.disk /\ Left(k).ram = q(k)
    BY <2>2, <2>3 DEF States
  <2> QED BY <1>3, <2>4 DEF Become, t
<1>6. mode = "up" /\ mode' = "up" /\ retry' = len /\ attempts' = attempts /\ stored' = stored
  BY DEF StoreFails, MayStore
<1> HIDE DEF Left, r, C
<1>7. SamePlace(ram', ram)
  BY <1>4, <1>5
<1>8. ram'.has = ram.has
  BY <1>7 DEF SamePlace
<1>9. Needed' = C
  <2>1. SamePlace(Now'.ram, Now.ram)
    BY <1>7 DEF Now
  <2>2. Pending(Now', attempts + 1, len) = C
    BY <2>1, PendingSame DEF C
  <2> QED BY <1>2, <1>6, <2>2 DEF Needed
<1>10. ram.has => Kept(disk', C)
  BY <1>2, <1>4, <1>5 DEF Safe
<1> QED BY <1>1, <1>2, <1>6, <1>8, <1>9, <1>10 DEF Survives

(* A power failure during filesystem_store_element preserves the           *)
(* invariant: the backup is complete before the first header is written.   *)
LEMMA StoreCrashSurvives ==
  ASSUME InEeprom, Survives, NEW len \in Lens, StoreCrash(len)
  PROVE  Survives'
<1> DEFINE r == StoreElement(Now, attempts + 1, len)
           C == Pending(Now, attempts + 1, len)
           ops == r.s.ops
<1>1. FsInv'
  BY StoreCrashInv DEF Survives
<1>2. /\ Sound(Now) /\ attempts + 1 \in Nat /\ UnitSize = 1
      /\ ram.has => Kept(disk, C)
      /\ stored # {} => ram.has
  BY StoreBegins DEF StoreCrash
<1>3. PICK k \in 0 .. Len(ops) : Become(PowerLost(Trace(Now, ops)[k].disk))
  BY DEF StoreCrash
<1>4. Kept(disk, C) => Safe(Now, C, C, r.s)
  BY <1>2, NowFields, StoreSafe
<1> HIDE DEF r, C
<1>5. disk' = Trace(Now, ops)[k].disk /\ mode' = "down" /\ stored' = stored
  BY <1>3 DEF Become, PowerLost, StoreCrash
<1>6. stored # {} => Kept(disk', C)
  BY <1>2, <1>4, <1>5 DEF Safe
<1> QED BY <1>1, <1>5, <1>6, KeptMono DEF Survives

(* filesystem_clear_partition preserves the invariant: nothing is stored   *)
(* afterwards.                                                             *)
LEMMA ClearSurvives ==
  ASSUME Survives, Clear
  PROVE  Survives'
<1>1. FsInv'
  BY ClearInv DEF Survives
<1>2. Sound(ClearPartition(Now)) /\ ~ClearPartition(Now).ram.has
  BY ClearPartitionType DEF Survives, FsInv
<1>3. stored' = {} /\ mode' = "up" /\ ~ram'.has
  BY <1>2 DEF Clear, Become
<1> QED BY <1>1, <1>3 DEF Survives

(* So does a power failure during it. *)
LEMMA ClearCrashSurvives ==
  ASSUME Survives, ClearCrash
  PROVE  Survives'
<1>1. FsInv'
  BY ClearCrashInv DEF Survives
<1>2. stored' = {} /\ mode' = "down"
  BY DEF ClearCrash
<1> QED BY <1>1, <1>2 DEF Survives

(* A step that changes nothing preserves the invariant. *)
LEMMA StutterSurvives ==
  ASSUME Survives, UNCHANGED vars
  PROVE  Survives'
<1>1. FsInv'
  BY StutterInv DEF Survives
<1>2. /\ mode' = mode /\ disk' = disk /\ ram' = ram /\ stored' = stored
      /\ attempts' = attempts /\ retry' = retry /\ track' = track /\ it' = it
  BY DEF vars, libvars, ghosts
<1>3. Now' = Now
  BY <1>2 DEF Now
<1>4. Needed' = Needed
  BY <1>2, <1>3 DEF Needed
<1> QED BY <1>1, <1>2, <1>4 DEF Survives

(* Every step of the filesystem preserves the invariant. *)
LEMMA NextSurvives ==
  ASSUME InEeprom, Survives, [Next]_vars
  PROVE  Survives'
BY RegisterSurvives, RegisterCrashSurvives, StoreSurvives, StoreFailsSurvives,
   StoreCrashSurvives, ClearSurvives, ClearCrashSurvives, StutterSurvives DEF Next

(* The invariant holds initially. *)
LEMMA InitSurvives == Init => Survives
<1>1. Init => FsInv
  BY InitInv
<1> QED BY <1>1 DEF Init, Survives

(* The invariant says what the next power-up finds. *)
LEMMA SurvivesReboot == Survives => PartitionSurvives
<1> SUFFICES ASSUME Survives, stored # {} PROVE AfterReboot.ram.has
  BY DEF PartitionSurvives
<1>1. ValidFirst(disk, 0) \/ ValidFirst(disk, SwapAddress)
  BY KeptMono DEF Survives, FsInv
<1>2. Sound(Now)
  BY DEF Survives, FsInv
<1>3. Sound(PowerLost(disk)) /\ PowerLost(disk).disk = disk
  BY <1>2, NowFields, PowerLostType DEF PowerLost
<1> QED BY <1>1, <1>3, RegisterHas DEF AfterReboot

(* In EEPROM the head of a partition that holds an element survives any    *)
(* number of power failures and storage errors, at any operation of the    *)
(* device, restarts that fail again included:                              *)
(* filesystem_backup_first_element_header completes the copy on the swap   *)
(* page before filesystem_store_element writes the first header, and       *)
(* filesystem_read_element_header restores it. (In flash it does not: run  *)
(* filesystem_reboot.)                                                     *)
THEOREM FilesystemPartitionSurvives ==
  ASSUME InEeprom
  PROVE  Spec => []PartitionSurvives
<1>1. Survives /\ [Next]_vars => Survives'
  BY NextSurvives
<1>2. Spec => []Survives
  BY <1>1, InitSurvives, PTL DEF Spec
<1> QED BY <1>2, SurvivesReboot, PTL

(* A call that only reads keeps the first header or the backup. *)
LEMMA ReadSurvives ==
  ASSUME InEeprom, Survives, NEW t, Become(t), Checked(Now, t),
         \A C, E : Safe(Now, C, E, Now) => Safe(Now, C, E, t),
         mode = "up", mode' = mode, stored' = stored, attempts' = attempts, retry' = retry
  PROVE  Survives'
<1>0. Sound(Now) /\ mode \in {"down", "up"} /\ attempts \in Nat
  BY DEF Survives, FsInv
<1>1. FsInv'
  <2>1. Sound(Now)'
    BY BecomeSound DEF Checked
  <2> QED BY <1>0, <2>1 DEF FsInv
<1>2. disk' = t.disk /\ ram' = t.ram
  BY DEF Become
<1>3. SamePlace(ram', ram)
  BY <1>2, NowFields DEF Checked, SameButMeta, SamePlace
<1>4. ram'.has = ram.has
  BY <1>3 DEF SamePlace
<1>5. Needed' = Needed
  <2>1. SamePlace(Now'.ram, Now.ram)
    BY <1>3 DEF Now
  <2>2. Pending(Now', attempts + 1, retry) = Pending(Now, attempts + 1, retry)
    BY <2>1, PendingSame
  <2> QED BY <2>2 DEF Needed
<1>6. ram.has => Kept(disk', Needed')
  <2> SUFFICES ASSUME ram.has PROVE Kept(disk', Needed)
    BY <1>5
  <2>1. Kept(Now.disk, Needed)
    BY NowFields DEF Survives
  <2> HIDE DEF Needed
  <2>2. Safe(Now, Needed, Needed, Now)
    BY <1>0, <2>1, NowFields, SafeStart
  <2>3. Safe(Now, Needed, Needed, t)
    BY <2>2
  <2> QED BY <1>2, <2>3, SafeNow
<1> QED BY <1>1, <1>4, <1>6 DEF Survives

(* Every step of the storer preserves the invariant. *)
LEMMA StorerNextSurvives ==
  ASSUME InEeprom, Survives, [StorerNext]_storervars
  PROVE  Survives'
<1>0. Sound(Now) /\ UnitSize = 1
  BY DEF Survives, FsInv, InEeprom
<1>1. ASSUME NEW stamp \in Requested, FindChunkFromTimestamp(stamp) PROVE Survives'
  <2> DEFINE t == FindChunk(Now, stamp).s
  <2>1. Become(t) /\ mode = "up" /\ mode' = mode
        /\ stored' = stored /\ attempts' = attempts /\ retry' = retry
    BY <1>1 DEF FindChunkFromTimestamp, ghosts
  <2>2. Checked(Now, t) /\ \A C, E : Safe(Now, C, E, Now) => Safe(Now, C, E, t)
    BY <1>0, FindChunkType, FindChunkSafe
  <2> HIDE DEF t
  <2> QED BY <2>1, <2>2, ReadSurvives
<1>2. CASE GetNextChunkCall
  <2> DEFINE t == GetNextChunk(Now, found_timestamp).s
  <2>1. Become(t) /\ mode = "up" /\ mode' = mode
        /\ stored' = stored /\ attempts' = attempts /\ retry' = retry
    BY <1>2 DEF GetNextChunkCall, ghosts
  <2>2. Checked(Now, t) /\ \A C, E : Safe(Now, C, E, Now) => Safe(Now, C, E, t)
    BY <1>0, GetNextChunkType, GetNextChunkSafe
  <2> HIDE DEF t
  <2> QED BY <2>1, <2>2, ReadSurvives
<1>3. CASE InvalidateIterators
  <2> DEFINE t == Invalidated(Now)
  <2>1. Become(t) /\ mode = "up" /\ mode' = mode
        /\ stored' = stored /\ attempts' = attempts /\ retry' = retry
    BY <1>3 DEF InvalidateIterators, ghosts
  <2>2. Checked(Now, t) /\ \A C, E : Safe(Now, C, E, Now) => Safe(Now, C, E, t)
    BY <1>0, InvalidatedType, InvalidatedSafe DEF Checked, SameButMeta
  <2> HIDE DEF t
  <2> QED BY <2>1, <2>2, ReadSurvives
<1>4. CASE Next
  BY <1>4, NextSurvives
<1>5. CASE UNCHANGED storervars
  BY <1>5, StutterSurvives DEF storervars
<1> QED BY <1>1, <1>2, <1>3, <1>4, <1>5 DEF StorerNext, Next

(* The same with storer_lib.c on top, which reads between the stores: a    *)
(* read may itself restore the first header                                *)
(* (filesystem_read_element_header), over and over, while a store that     *)
(* failed waits for its retry.                                             *)
THEOREM StorerPartitionSurvives ==
  ASSUME InEeprom
  PROVE  StorerSpec => []PartitionSurvives
<1>1. StorerInit => Survives
  BY InitSurvives DEF StorerInit
<1>2. Survives /\ [StorerNext]_storervars => Survives'
  BY StorerNextSurvives
<1>3. StorerSpec => []Survives
  BY <1>1, <1>2, PTL DEF StorerSpec
<1> QED BY <1>3, SurvivesReboot, PTL
=============================================================================
