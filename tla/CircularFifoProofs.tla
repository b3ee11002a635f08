------------------------- MODULE CircularFifoProofs -------------------------
(***************************************************************************)
(* What holds of the stream FIFO for every size of the elements, the       *)
(* buffer and the response.  InOrder is nearly inductive: all it lacks is  *)
(* that the bytes which are still to come are newer than the last one that *)
(* was read.                                                               *)
(***************************************************************************)
EXTENDS CircularFifo, TLAPS

(* The modulo of the code is a wrap-around at the last position. *)
LEMMA SuccWraps ==
  ASSUME NEW p \in Positions
  PROVE  /\ Succ(p) = IF p = buf_size THEN 0 ELSE p + 1
         /\ Succ(p) \in Positions
BY BufAssumption DEF Succ, Positions

LEMMA ModNat ==
  ASSUME NEW a \in Int, NEW b \in Nat, b > 0
  PROVE  a % b \in Nat
OBVIOUS

LEMMA DivNat ==
  ASSUME NEW a \in Nat, NEW b \in Nat, b > 0
  PROVE  a \div b \in Nat
OBVIOUS

LEMMA TimesNat ==
  ASSUME NEW a \in Nat, NEW b \in Nat
  PROVE  a * b \in Nat
OBVIOUS

(* Whatever was loaded, the number of elements fits the response. *)
LEMMA ElementsFit ==
  ASSUME TypeOK, Loaded
  PROVE  Elements \in 0 .. PROTOCOL_SIZE
<1>1. w \in Positions /\ r \in Positions
  BY DEF TypeOK, Loaded
<1>2. (w - r) % WORD \in Nat
  <2>1. w - r \in Int
    BY <1>1, BufAssumption DEF Positions
  <2> QED
    BY <2>1, ModNat, WordAssumption, BufAssumption
<1>3. AvailableLen \in Nat
  BY <1>1, <1>2, BufAssumption DEF AvailableLen, Positions
<1>4. AvailableLen \div SIZE \in Nat
  BY <1>3, DivNat, SizeAssumption
<1> QED
  BY <1>4, ProtocolAssumption DEF Elements

(* Every position, flag and counter stays in its range. *)
THEOREM TypeCorrect == Spec => []TypeOK
<1>1. Init => TypeOK
  BY SizeAssumption, BufAssumption, ProtocolAssumption
     DEF Init, TypeOK, Positions, NULL, Steps
<1>2. TypeOK /\ [Next]_vars => TypeOK'
  <2> SUFFICES ASSUME TypeOK, [Next]_vars
               PROVE  TypeOK'
    OBVIOUS
  <2> USE SizeAssumption DEF TypeOK, fifo, loads, response, interrupt
  <2>1. CASE PutRefused
    <3>1. sampled' \in Nat /\ left' \in 0 .. SIZE - 1
      BY <2>1 DEF PutRefused, NextByte
    <3>2. cut' \in BOOLEAN
      BY <2>1, Zenon DEF PutRefused
    <3> QED
      BY <2>1, <3>1, <3>2 DEF PutRefused, NextByte
  <2>2. CASE Put
    <3>1. sampled' \in Nat /\ left' \in 0 .. SIZE - 1
      BY <2>2 DEF Put, NextByte
    <3>2. raced' \in BOOLEAN
      BY <2>2, Zenon DEF Put
    <3>3. p_buf' \in [Positions -> Int] /\ read_pos' \in Positions /\ write_pos' \in Positions
      BY <2>2, SuccWraps DEF Put
    <3> QED
      BY <2>2, <3>1, <3>2, <3>3 DEF Put, NextByte
  <2>3. CASE StreamHandler
    <3>1. count' \in 0 .. PROTOCOL_SIZE /\ len' \in Nat /\ bytes' \in Seq(Int)
      BY <2>3, ProtocolAssumption DEF StreamHandler
    <3> QED
      BY <2>3, <3>1 DEF StreamHandler, MainStep, Steps
  <2>4. CASE LoadWritePos
    BY <2>4 DEF LoadWritePos, MainStep
  <2>5. CASE LoadReadPos
    BY <2>5 DEF LoadReadPos, MainStep
  <2>6. CASE Compare
    BY <2>6 DEF Compare, MainStep, IsStraight, Steps
  <2>7. CASE Subtract
    <3>1. Elements \in 0 .. PROTOCOL_SIZE
      BY <2>7, ElementsFit DEF Subtract
    <3>2. Elements * SIZE \in Nat
      BY <3>1, TimesNat, ProtocolAssumption
    <3> QED
      BY <2>7, <3>1, <3>2 DEF Subtract, MainStep, Steps
  <2>8. CASE ReadOpen
    BY <2>8 DEF ReadOpen, MainStep, Steps
  <2>9. CASE Get
    BY <2>9, SuccWraps DEF Get, TakeByte, MainStep
  <2>10. CASE ReadClose
    BY <2>10 DEF ReadClose, MainStep, Steps
  <2>11. CASE Respond
    BY <2>11 DEF Respond, MainStep, Steps
  <2>12. CASE UNCHANGED vars
    BY <2>12 DEF vars
  <2> QED
    BY <2>1, <2>2, <2>3, <2>4, <2>5, <2>6, <2>7, <2>8, <2>9, <2>10, <2>11, <2>12
       DEF Next
<1> QED
  BY <1>1, <1>2, PTL DEF Spec
-----------------------------------------------------------------------------
(* The order of the bytes. *)

IInv == TypeOK /\ InOrder /\ last < sampled

(* Steps that leave the FIFO alone keep the order. *)
LEMMA FifoUntouched ==
  ASSUME IInv, UNCHANGED <<fifo, last>>, sampled' \in Nat, sampled' >= sampled
  PROVE  (InOrder /\ last < sampled)'
BY DEF IInv, InOrder, Occupied, Offset, fifo, TypeOK

(* circular_fifo_put adds a byte behind the others when there is room, ... *)
LEMMA PutAdds ==
  ASSUME TypeOK, ~Full,
         read_pos' = read_pos, write_pos' = Succ(write_pos)
  PROVE  /\ Occupied' = Occupied \cup {write_pos}
         /\ write_pos \notin Occupied
         /\ \A p \in Positions : Offset(p)' = Offset(p)
         /\ \A p \in Occupied : Offset(p) < Offset(write_pos)
<1>1. /\ buf_size \in Nat
      /\ read_pos \in 0 .. buf_size /\ write_pos \in 0 .. buf_size
      /\ write_pos' = IF write_pos = buf_size THEN 0 ELSE write_pos + 1
      /\ write_pos' # read_pos
  BY SuccWraps, BufAssumption DEF TypeOK, Full, Positions
<1>2. \A p \in Positions : Offset(p)' = Offset(p)
  BY DEF Offset
<1>3. \A p \in Positions :
        Offset(p) < Offset(write_pos') <=> Offset(p) < Offset(write_pos) \/ p = write_pos
  BY <1>1 DEF Offset, Positions
<1>4. Offset(write_pos)' = Offset(write_pos')
  BY DEF Offset
<1>5. Occupied' = {p \in Positions : Offset(p) < Offset(write_pos')}
  BY <1>2, <1>4 DEF Occupied
<1>6. write_pos \in Positions /\ ~(Offset(write_pos) < Offset(write_pos))
  BY <1>1 DEF Positions, Offset
<1> QED
  BY <1>2, <1>3, <1>5, <1>6 DEF Occupied

(* ... and gives up the oldest one when there is not. *)
LEMMA PutReplaces ==
  ASSUME TypeOK, Full,
         read_pos' = Succ(read_pos), write_pos' = Succ(write_pos)
  PROVE  /\ Occupied' = (Occupied \ {read_pos}) \cup {write_pos}
         /\ write_pos \notin Occupied
         /\ \A p, q \in Occupied' : Offset(p)' < Offset(q)' =>
              p # write_pos /\ (q = write_pos \/ Offset(p) < Offset(q))
<1>1. /\ buf_size \in Nat
      /\ read_pos \in 0 .. buf_size /\ write_pos \in 0 .. buf_size
      /\ read_pos' = IF read_pos = buf_size THEN 0 ELSE read_pos + 1
      /\ read_pos = IF write_pos = buf_size THEN 0 ELSE write_pos + 1
      /\ write_pos' = read_pos
  BY SuccWraps, BufAssumption DEF TypeOK, Full, Positions
<1>2. \A p \in Positions :
        /\ Offset(p) \in Nat
        /\ Offset(p)' = IF p = read_pos THEN buf_size ELSE Offset(p) - 1
  BY <1>1 DEF Offset, Positions
<1>3. Offset(write_pos) = buf_size /\ Offset(write_pos)' = buf_size
  <2>1. Offset(write_pos)' = IF write_pos' >= read_pos' THEN write_pos' - read_pos'
                                ELSE write_pos' + buf_size + 1 - read_pos'
    BY DEF Offset
  <2> QED
    BY <1>1, <2>1 DEF Offset
<1>4. \A p \in Positions : p # write_pos => Offset(p) < buf_size
  BY <1>1 DEF Offset, Positions
<1>5. \A p \in Positions : p \in Occupied <=> p # write_pos
  BY <1>2, <1>3, <1>4 DEF Occupied
<1>6. \A p \in Positions : p \in Occupied' <=> p # read_pos
  <2> SUFFICES ASSUME NEW p \in Positions
               PROVE  Offset(p)' < Offset(write_pos)' <=> p # read_pos
    BY DEF Occupied, Positions
  <2> QED
    BY <1>1, <1>2, <1>3, <1>4 DEF Positions
<1>7. Occupied \subseteq Positions /\ Occupied' \subseteq Positions
  BY DEF Occupied, Positions
<1>8. read_pos \in Positions /\ write_pos \in Positions /\ read_pos # write_pos
  BY <1>1, BufAssumption DEF Positions
<1>9. ASSUME NEW p \in Occupied', NEW q \in Occupied', Offset(p)' < Offset(q)'
      PROVE  p # write_pos /\ (q = write_pos \/ Offset(p) < Offset(q))
  BY <1>1, <1>2, <1>3, <1>4, <1>6, <1>7, <1>9
<1> QED
  BY <1>5, <1>6, <1>7, <1>8, <1>9

(* circular_fifo_get takes the oldest byte. *)
LEMMA GetTakes ==
  ASSUME TypeOK, read_pos # write_pos,
         read_pos' = Succ(read_pos), write_pos' = write_pos
  PROVE  /\ Occupied' = Occupied \ {read_pos}
         /\ read_pos \in Occupied
         /\ \A p \in Occupied' : Offset(read_pos) < Offset(p)
         /\ \A p, q \in Occupied' : Offset(p)' < Offset(q)' => Offset(p) < Offset(q)
<1>1. /\ buf_size \in Nat
      /\ read_pos \in 0 .. buf_size /\ write_pos \in 0 .. buf_size
      /\ read_pos' = IF read_pos = buf_size THEN 0 ELSE read_pos + 1
      /\ read_pos # write_pos
  BY SuccWraps, BufAssumption DEF TypeOK, Positions
<1>2. \A p \in Positions :
        /\ Offset(p) \in Nat /\ Offset(p) <= buf_size
        /\ p # read_pos => 0 < Offset(p)
        /\ Offset(p)' = IF p = read_pos THEN buf_size ELSE Offset(p) - 1
  BY <1>1 DEF Offset, Positions
<1>3. /\ Offset(read_pos) = 0
      /\ Offset(write_pos)' = Offset(write_pos) - 1
  BY <1>1 DEF Offset
<1>4. read_pos \in Positions /\ write_pos \in Positions
  BY <1>1 DEF Positions
<1>5. read_pos \in Occupied
  BY <1>1, <1>2, <1>3, <1>4 DEF Occupied
<1>6. \A p \in Positions : p \in Occupied' <=> p \in Occupied /\ p # read_pos
  <2> SUFFICES ASSUME NEW p \in Positions
               PROVE  Offset(p)' < Offset(write_pos)' <=>
                        Offset(p) < Offset(write_pos) /\ p # read_pos
    BY DEF Occupied, Positions
  <2> QED
    BY <1>1, <1>2, <1>3, <1>4
<1>7. Occupied \subseteq Positions /\ Occupied' \subseteq Positions
  BY DEF Occupied, Positions
<1>8. ASSUME NEW p \in Occupied', NEW q \in Occupied'
      PROVE  /\ Offset(read_pos) < Offset(p)
             /\ Offset(p)' < Offset(q)' => Offset(p) < Offset(q)
  BY <1>2, <1>3, <1>6, <1>7
<1> QED
  BY <1>5, <1>6, <1>7, <1>8

(* No byte is delivered twice or out of order, whenever the sampling       *)
(* interrupt puts a byte between the steps of circular_fifo_get_size and   *)
(* circular_fifo_read.                                                     *)
THEOREM BytesInOrder == Spec => []InOrder
<1>1. Init => IInv
  <2> SUFFICES ASSUME Init PROVE IInv
    OBVIOUS
  <2>1. TypeOK
    BY SizeAssumption, BufAssumption, ProtocolAssumption
       DEF Init, TypeOK, Positions, NULL, Steps
  <2>2. Occupied = {}
    BY BufAssumption DEF Init, Occupied, Offset, Positions
  <2> QED
    BY <2>1, <2>2 DEF IInv, InOrder, Init, NULL
<1>2. IInv /\ TypeOK' /\ [Next]_vars => IInv'
  <2> SUFFICES ASSUME IInv, TypeOK', [Next]_vars
               PROVE  (InOrder /\ last < sampled)'
    BY DEF IInv
  <2>0. TypeOK
    BY DEF IInv
  <2>1. CASE PutRefused
    BY <2>0, <2>1, FifoUntouched DEF PutRefused, NextByte, TypeOK
  <2>2. CASE Put
    <3>1. /\ p_buf' = [p_buf EXCEPT ![write_pos] = sampled]
          /\ write_pos' = Succ(write_pos)
          /\ sampled' = sampled + 1 /\ last' = last
          /\ read_pos' = IF Full THEN Succ(read_pos) ELSE read_pos
      BY <2>2 DEF Put, NextByte
    <3>2. /\ write_pos \in Positions /\ sampled \in Nat /\ last \in Int
          /\ p_buf \in [Positions -> Int] /\ Occupied \subseteq Positions
      BY <2>0 DEF TypeOK, Occupied
    <3>3. CASE ~Full
      <4>1. /\ Occupied' = Occupied \cup {write_pos}
            /\ write_pos \notin Occupied
            /\ \A p \in Positions : Offset(p)' = Offset(p)
            /\ \A p \in Occupied : Offset(p) < Offset(write_pos)
        BY <2>0, <3>1, <3>3, PutAdds
      <4>2. \A p, q \in Occupied' : Offset(p)' < Offset(q)' => p # write_pos
        <5>1. \A p \in Positions : Offset(p) \in Int
          BY <2>0, BufAssumption DEF Offset, TypeOK, Positions
        <5> QED
          BY <3>2, <4>1, <5>1
      <4> QED
        BY <3>1, <3>2, <4>1, <4>2 DEF IInv, InOrder
    <3>4. CASE Full
      <4>1. /\ Occupied' = (Occupied \ {read_pos}) \cup {write_pos}
            /\ write_pos \notin Occupied
            /\ \A p, q \in Occupied' : Offset(p)' < Offset(q)' =>
                 p # write_pos /\ (q = write_pos \/ Offset(p) < Offset(q))
        BY <2>0, <3>1, <3>4, PutReplaces
      <4> QED
        BY <3>1, <3>2, <4>1 DEF IInv, InOrder
    <3> QED
      BY <3>3, <3>4
  <2>3. CASE Get
    <3>1. /\ read_pos # write_pos /\ read_pos' = Succ(read_pos)
          /\ UNCHANGED <<p_buf, write_pos, sampled>>
          /\ last' = p_buf[read_pos]
      BY <2>3 DEF Get, TakeByte, interrupt
    <3>2. /\ Occupied' = Occupied \ {read_pos}
          /\ read_pos \in Occupied
          /\ \A p \in Occupied' : Offset(read_pos) < Offset(p)
          /\ \A p, q \in Occupied' : Offset(p)' < Offset(q)' => Offset(p) < Offset(q)
      BY <2>0, <3>1, GetTakes
    <3> QED
      BY <3>1, <3>2 DEF IInv, InOrder
  <2>4. CASE UNCHANGED <<fifo, last, sampled>>
    BY <2>0, <2>4, FifoUntouched DEF TypeOK
  <2> QED
    BY <2>1, <2>2, <2>3, <2>4
       DEF Next, vars, interrupt, StreamHandler, LoadWritePos, LoadReadPos, Compare,
           Subtract, ReadOpen, ReadClose, Respond
<1>3. IInv => InOrder
  BY DEF IInv
<1> QED
  BY <1>1, <1>2, <1>3, TypeCorrect, PTL DEF Spec
-----------------------------------------------------------------------------
(* The count of a response. *)

Sizing == {"compare", "subtract"}

(* While no position jumped, read_pos is what it was when it was loaded,   *)
(* and write_pos only went on, on the same side of it.                     *)
LoadsValid ==
  /\ pc \notin Sizing => w = NULL /\ r = NULL
  /\ ~raced /\ pc \in Sizing =>
       /\ r # NULL => r = read_pos
       /\ w # NULL => w <= write_pos /\ (w >= read_pos <=> write_pos >= read_pos)
  /\ ~raced /\ pc = "subtract" => (straight <=> write_pos >= read_pos)

(* What is still to be read is there. *)
BytesThere ==
  /\ pc \in Sizing \cup {"open"} => bytes = << >>
  /\ pc \in {"open", "read", "respond"} => Len(bytes) + len = count * SIZE
  /\ ~raced /\ pc \in {"open", "read"} => len <= Offset(write_pos)
  /\ ~raced /\ pc = "respond" => len = 0

HInv == TypeOK /\ LoadsValid /\ BytesThere

LEMMA ModSmall ==
  ASSUME NEW a \in Nat, NEW b \in Nat, a < b
  PROVE  a % b = a
OBVIOUS

LEMMA DivTimes ==
  ASSUME NEW a \in Nat, NEW b \in Nat, b > 0
  PROVE  (a \div b) * b <= a
OBVIOUS

LEMMA TimesMonotone ==
  ASSUME NEW a \in Nat, NEW b \in Nat, NEW c \in Nat, a <= b
  PROVE  a * c <= b * c
OBVIOUS

(* Not more is asked for than is there. *)
LEMMA SizeHolds ==
  ASSUME HInv, Loaded, pc = "subtract", ~raced
  PROVE  Elements * SIZE <= Offset(write_pos)
<1>1. /\ buf_size \in Nat /\ WORD \in Nat /\ WORD > buf_size
      /\ read_pos \in 0 .. buf_size /\ write_pos \in 0 .. buf_size
      /\ w \in 0 .. buf_size /\ r = read_pos /\ w <= write_pos
      /\ w >= read_pos <=> write_pos >= read_pos
      /\ straight <=> write_pos >= read_pos
  BY BufAssumption, WordAssumption DEF HInv, TypeOK, LoadsValid, Loaded, Positions, Sizing
<1>2. AvailableLen \in Nat /\ AvailableLen <= Offset(write_pos)
  <2>1. CASE straight
    <3>1. w - r \in Nat /\ w - r < WORD
      BY <1>1, <2>1
    <3>2. AvailableLen = w - r
      BY <1>1, <2>1, <3>1, ModSmall DEF AvailableLen
    <3> QED
      BY <1>1, <2>1, <3>1, <3>2 DEF Offset
  <2>2. CASE ~straight
    BY <1>1, <2>2 DEF AvailableLen, Offset
  <2> QED
    BY <2>1, <2>2
<1>3. AvailableLen \div SIZE \in Nat
  BY <1>2, DivNat, SizeAssumption
<1>4. (AvailableLen \div SIZE) * SIZE <= AvailableLen
  BY <1>2, DivTimes, SizeAssumption
<1>5. Elements \in Nat /\ Elements <= AvailableLen \div SIZE
  BY <1>3, ProtocolAssumption DEF Elements
<1>6. Elements * SIZE <= (AvailableLen \div SIZE) * SIZE
  BY <1>3, <1>5, TimesMonotone, SizeAssumption
<1>7. Elements * SIZE \in Nat /\ (AvailableLen \div SIZE) * SIZE \in Nat
  BY <1>3, <1>5, TimesNat, SizeAssumption
<1>8. Offset(write_pos) \in Int
  BY <1>1 DEF Offset
<1> QED
  BY <1>2, <1>4, <1>6, <1>7, <1>8

(* A byte that is put never takes from what is there. *)
LEMMA PutGrows ==
  ASSUME TypeOK, Put
  PROVE  Offset(write_pos)' >= Offset(write_pos)
<1>1. /\ buf_size \in Nat
      /\ read_pos \in 0 .. buf_size /\ write_pos \in 0 .. buf_size
      /\ write_pos' = IF write_pos = buf_size THEN 0 ELSE write_pos + 1
      /\ IF write_pos' = read_pos
           THEN read_pos' = IF read_pos = buf_size THEN 0 ELSE read_pos + 1
           ELSE read_pos' = read_pos
  BY SuccWraps, BufAssumption DEF TypeOK, Put, Full, Positions
<1> QED
  BY <1>1 DEF Offset

LEMMA CountInductive == Spec => []HInv
<1>1. Init => HInv
  <2> SUFFICES ASSUME Init PROVE HInv
    OBVIOUS
  <2>1. TypeOK
    BY SizeAssumption, BufAssumption, ProtocolAssumption
       DEF Init, TypeOK, Positions, NULL, Steps
  <2> QED
    BY <2>1 DEF Init, HInv, LoadsValid, BytesThere, Sizing
<1>2. HInv /\ TypeOK' /\ [Next]_vars => HInv'
  <2> SUFFICES ASSUME HInv, TypeOK', [Next]_vars
               PROVE  LoadsValid' /\ BytesThere'
    BY DEF HInv
  <2>0. /\ TypeOK /\ LoadsValid /\ BytesThere
        /\ buf_size \in Nat
        /\ read_pos \in 0 .. buf_size /\ write_pos \in 0 .. buf_size
        /\ Offset(write_pos) \in Nat
    <3>1. TypeOK /\ LoadsValid /\ BytesThere
      BY DEF HInv
    <3>2. /\ buf_size \in Nat
          /\ read_pos \in 0 .. buf_size /\ write_pos \in 0 .. buf_size
      BY <3>1, BufAssumption DEF TypeOK, Positions
    <3>3. Offset(write_pos) \in Nat
      BY <3>2 DEF Offset
    <3> QED
      BY <3>1, <3>2, <3>3
  <2> USE DEF Sizing
  <2>1. CASE PutRefused
    BY <2>0, <2>1 DEF PutRefused, NextByte, LoadsValid, BytesThere, fifo, loads, response, Offset
  <2>2. CASE Put
    <3>1. /\ UNCHANGED <<pc, w, r, straight, count, len, bytes>>
          /\ ~raced' => ~raced
          /\ ~raced' /\ pc \in Sizing => ~Full /\ Succ(write_pos) # 0
          /\ write_pos' = Succ(write_pos)
          /\ ~Full => read_pos' = read_pos /\ Succ(write_pos) # read_pos
          /\ pc \notin Sizing => raced' = raced
      BY <2>0, <2>2, Zenon DEF Put, NextByte, loads, response, Full, TypeOK
    <3>2. Offset(write_pos)' >= Offset(write_pos)
      BY <2>0, <2>2, PutGrows
    <3>3. BytesThere'
      <4>1. read_pos' \in Int /\ write_pos' \in Int
        BY BufAssumption DEF TypeOK, Positions
      <4>2. Offset(write_pos)' \in Int
        BY <2>0, <4>1 DEF Offset
      <4>3. len \in Nat
        BY <2>0 DEF TypeOK
      <4> QED
        BY <2>0, <3>1, <3>2, <4>2, <4>3 DEF BytesThere
    <3>4. LoadsValid'
      <4>1. Succ(write_pos) = IF write_pos = buf_size THEN 0 ELSE write_pos + 1
        BY <2>0, SuccWraps DEF Positions
      <4>2. w \in Int /\ r \in Int
        BY <2>0 DEF TypeOK, Positions, NULL
      <4>3. ASSUME ~raced', pc \in Sizing
            PROVE  /\ write_pos' = write_pos + 1 /\ read_pos' = read_pos
                   /\ write_pos' >= read_pos <=> write_pos >= read_pos
        BY <2>0, <3>1, <4>1, <4>3
      <4> QED
        BY <2>0, <3>1, <4>2, <4>3 DEF LoadsValid
    <3> QED
      BY <3>3, <3>4
  <2>3. CASE StreamHandler
    BY <2>0, <2>3 DEF StreamHandler, MainStep, LoadsValid, BytesThere, fifo, loads
  <2>4. CASE LoadWritePos
    BY <2>0, <2>4 DEF LoadWritePos, MainStep, LoadsValid, BytesThere, fifo, response
  <2>5. CASE LoadReadPos
    BY <2>0, <2>5 DEF LoadReadPos, MainStep, LoadsValid, BytesThere, fifo, response
  <2>6. CASE Compare
    BY <2>0, <2>6 DEF Compare, MainStep, Loaded, IsStraight, LoadsValid, BytesThere, fifo, response
  <2>7. CASE Subtract
    <3>1. ~raced => Elements * SIZE <= Offset(write_pos)
      BY <2>7, SizeHolds DEF Subtract, MainStep
    <3>2. Offset(write_pos)' = Offset(write_pos)
      BY <2>7 DEF Subtract, fifo, Offset
    <3>3. len' \in Nat /\ len' = count' * SIZE
      BY <2>7 DEF Subtract, TypeOK
    <3> QED
      BY <2>0, <2>7, <3>1, <3>2, <3>3 DEF Subtract, MainStep, LoadsValid, BytesThere
  <2>8. CASE ReadOpen
    BY <2>0, <2>8 DEF ReadOpen, MainStep, LoadsValid, BytesThere, fifo, loads, response, Offset
  <2>9. CASE Get
    <3>1. /\ pc = "read" /\ UNCHANGED <<pc, w, r, straight, count, raced>>
          /\ len' = len - 1 /\ bytes' = Append(bytes, p_buf[read_pos])
          /\ read_pos # write_pos
          /\ read_pos' = Succ(read_pos) /\ write_pos' = write_pos
      BY <2>9 DEF Get, MainStep, TakeByte, loads
    <3>2. Offset(write_pos)' = Offset(write_pos) - 1
      <4>1. read_pos' = IF read_pos = buf_size THEN 0 ELSE read_pos + 1
        BY <2>0, <3>1, SuccWraps DEF Positions
      <4> QED
        BY <2>0, <3>1, <4>1 DEF Offset
    <3>3. Len(bytes') = Len(bytes) + 1 /\ Len(bytes) \in Nat /\ len \in Nat
      BY <2>0, <3>1 DEF TypeOK
    <3>4. count * SIZE \in Nat
      BY <2>0, TimesNat, SizeAssumption, ProtocolAssumption DEF TypeOK
    <3> QED
      BY <2>0, <3>1, <3>2, <3>3, <3>4 DEF LoadsValid, BytesThere
  <2>10. CASE ReadClose
    <3>1. read_pos = write_pos => Offset(write_pos) = 0
      BY <2>0 DEF Offset
    <3>2. len \in Nat
      BY <2>0 DEF TypeOK
    <3> QED
      BY <2>0, <2>10, <3>1, <3>2 DEF ReadClose, MainStep, LoadsValid, BytesThere, fifo, loads, response
  <2>11. CASE Respond
    BY <2>0, <2>11 DEF Respond, MainStep, LoadsValid, BytesThere, fifo, loads, response
  <2>12. CASE UNCHANGED vars
    BY <2>0, <2>12 DEF vars, LoadsValid, BytesThere, fifo, loads, response, Offset
  <2> QED
    BY <2>1, <2>2, <2>3, <2>4, <2>5, <2>6, <2>7, <2>8, <2>9, <2>10, <2>11, <2>12
       DEF Next
<1> QED
  BY <1>1, <1>2, TypeCorrect, PTL DEF Spec

(* Unless a position jumps while circular_fifo_get_size is interrupted, a  *)
(* response has the elements its count says it has, however many bytes are *)
(* put while it is read.                                                   *)
THEOREM CountsHonest == Spec => []CountHonest
<1>1. HInv => CountHonest
  <2> SUFFICES ASSUME HInv, ~raced, pc = "respond"
               PROVE  Len(bytes) = count * SIZE
    BY DEF CountHonest
  <2>1. Len(bytes) \in Nat
    BY DEF HInv, TypeOK
  <2> QED
    BY <2>1 DEF HInv, BytesThere
<1> QED
  BY <1>1, CountInductive, PTL
-----------------------------------------------------------------------------
(* Remainders. *)

Mod(x) == x % SIZE

LEMMA DivMod ==
  ASSUME NEW x \in Int
  PROVE  /\ x \div SIZE \in Int /\ x % SIZE \in 0 .. SIZE - 1
         /\ x = ((x \div SIZE) * SIZE) + (x % SIZE)
BY SizeAssumption

LEMMA Unique ==
  ASSUME NEW k \in Int, NEW q \in 0 .. SIZE - 1, NEW x \in Int, x = k * SIZE + q
  PROVE  x % SIZE = q
<1> DEFINE d == x \div SIZE
           m == x % SIZE
<1>1. d \in Int /\ m \in 0 .. SIZE - 1 /\ x = d * SIZE + m
  BY DivMod
<1> HIDE DEF d, m
<1>2. (k - d) * SIZE = m - q
  BY <1>1, SizeAssumption
<1>3. CASE k - d >= 1
  <2>1. (k - d) * SIZE >= SIZE
    BY <1>3, <1>1, SizeAssumption
  <2> QED BY <2>1, <1>2, <1>1, SizeAssumption
<1>4. CASE k - d <= -1
  <2>1. (k - d) * SIZE <= -SIZE
    BY <1>4, <1>1, SizeAssumption
  <2> QED BY <2>1, <1>2, <1>1, SizeAssumption
<1>5. CASE k - d = 0
  BY <1>5, <1>2, <1>1, SizeAssumption DEF m
<1> QED BY <1>3, <1>4, <1>5, <1>1

LEMMA ModSum ==
  ASSUME NEW x \in Int, NEW y \in Int, Mod(y) = 0
  PROVE  Mod(x + y) = Mod(x) /\ Mod(x - y) = Mod(x)
<1> DEFINE k == x \div SIZE
           q == x % SIZE
           l == y \div SIZE
           m == y % SIZE
<1>1. k \in Int /\ q \in 0 .. SIZE - 1 /\ x = k * SIZE + q
  BY DivMod
<1>2. l \in Int /\ y = l * SIZE + m
  BY DivMod
<1>3. Mod(x) = q /\ m = 0
  BY DEF Mod
<1> HIDE DEF k, q, l, m
<1>4. x + y = (k + l) * SIZE + q /\ x - y = (k - l) * SIZE + q
  BY <1>1, <1>2, <1>3, SizeAssumption
<1> QED BY <1>1, <1>2, <1>3, <1>4, Unique DEF Mod

LEMMA ModEqual ==
  ASSUME NEW x \in Int, NEW y \in Int, Mod(x - y) = 0
  PROVE  Mod(x) = Mod(y)
<1>1. Mod(y + (x - y)) = Mod(y)
  BY ModSum
<1> QED BY <1>1

LEMMA ModShift ==
  ASSUME NEW x \in Int
  PROVE  Mod(x + SIZE) = Mod(x) /\ Mod(0) = 0
<1>1. SIZE \in Int /\ SIZE = 1 * SIZE + 0 /\ 0 = 0 * SIZE + 0 /\ 0 \in 0 .. SIZE - 1
  BY SizeAssumption
<1>2. Mod(SIZE) = 0 /\ Mod(0) = 0
  BY <1>1, Unique DEF Mod
<1> QED
  BY <1>1, <1>2, ModSum

LEMMA ModTimes ==
  ASSUME NEW k \in Nat
  PROVE  Mod(k * SIZE) = 0
<1>1. k * SIZE \in Int /\ k * SIZE = k * SIZE + 0 /\ 0 \in 0 .. SIZE - 1
  BY SizeAssumption
<1> QED
  BY <1>1, Unique DEF Mod
-----------------------------------------------------------------------------
(* Whole elements. *)

(* The bytes in the FIFO, the bytes of the element that are still to       *)
(* follow them, and the bytes of it the handler has taken.                 *)
Fill == Offset(write_pos)
Pending == IF kept THEN left ELSE 0
Taken == IF pc = "read" THEN Len(bytes) ELSE 0

(* The interrupt puts element after element, a refused element is refused  *)
(* to its end, and an accepted one ends with the byte put last.            *)
Putting ==
  /\ Mod(sampled + left) = 0
  /\ left # 0 /\ ~kept => Full /\ read_flag
  /\ left # 0 /\ kept =>
       0 < Fill /\ \A p \in Positions : Offset(p) + 1 = Fill => p_buf[p] = sampled - 1

Reading ==
  /\ read_flag <=> pc = "read"
  /\ pc = "read" /\ bytes # << >> => last = bytes[Len(bytes)]

(* What was taken, what is there and what is to follow are whole elements, *)
(* unless the oldest bytes are being overwritten.                          *)
Rounded ==
  \/ pc # "read" /\ Fill = buf_size
  \/ Mod(Fill + Pending + Taken) = 0

(* A byte's place in its element is its distance from the end. *)
InPhase == \A p \in Occupied : Mod(p_buf[p] + Fill - Offset(p) + Pending) = 0

(* Behind a byte comes the next one or the first one of another element, ... *)
Runs ==
  \A p, q \in Occupied :
    Offset(q) = Offset(p) + 1 => p_buf[q] = p_buf[p] + 1 \/ Mod(p_buf[q]) = 0

(* ... behind the byte that was taken last as well.                        *)
Continues ==
  pc = "read" /\ bytes # << >> /\ read_pos # write_pos =>
    p_buf[read_pos] = last + 1 \/ Mod(p_buf[read_pos]) = 0

BytesWhole ==
  /\ pc \in {"read", "respond"} =>
       \A i \in 1 .. Len(bytes) :
         /\ Mod(bytes[i]) = Mod(i - 1)
         /\ Mod(i - 1) # 0 => bytes[i] = bytes[i - 1] + 1
  /\ pc = "respond" => Mod(Len(bytes)) = 0

Elementwise == Rounded /\ InPhase /\ Runs /\ Continues /\ BytesWhole

WInv == Putting /\ Reading /\ (~cut => Elementwise)

(* What circular_fifo_put does to the offsets, ... *)
LEMMA PutGeometry ==
  ASSUME TypeOK, write_pos' = Succ(write_pos),
         read_pos' = IF Full THEN Succ(read_pos) ELSE read_pos
  PROVE  /\ Fill' = IF Full THEN buf_size ELSE Fill + 1
         /\ Full => Fill = buf_size
         /\ write_pos \in Positions /\ write_pos \notin Occupied
         /\ \A p \in Occupied' : p # write_pos =>
              p \in Occupied /\ Offset(p)' = IF Full THEN Offset(p) - 1 ELSE Offset(p)
         /\ \A p \in Positions : Offset(p)' + 1 = Fill' <=> p = write_pos
<1>0. buf_size > 0
  BY BufAssumption
<1>1. /\ buf_size \in Nat
      /\ read_pos \in 0 .. buf_size /\ write_pos \in 0 .. buf_size
      /\ write_pos' = IF write_pos = buf_size THEN 0 ELSE write_pos + 1
      /\ Full <=> write_pos' = read_pos
      /\ read_pos' = IF Full THEN IF read_pos = buf_size THEN 0 ELSE read_pos + 1
                     ELSE read_pos
  BY SuccWraps, BufAssumption DEF TypeOK, Full, Positions
<1>2. \A p \in Positions : Offset(p)' = IF p >= read_pos' THEN p - read_pos'
                                         ELSE p + buf_size + 1 - read_pos'
  BY DEF Offset
<1>3. Fill' = IF write_pos' >= read_pos' THEN write_pos' - read_pos'
              ELSE write_pos' + buf_size + 1 - read_pos'
  BY DEF Offset, Fill
<1>4. Fill' = IF Full THEN buf_size ELSE Fill + 1
  BY <1>1, <1>3 DEF Fill, Offset
<1>5. Full => Fill = buf_size
  BY <1>1 DEF Fill, Offset
<1>6. write_pos \in Positions /\ write_pos \notin Occupied
  BY <1>1 DEF Positions, Occupied, Offset
<1>7. \A p \in Positions : Offset(p)' + 1 = Fill' <=> p = write_pos
  BY <1>0, <1>1, <1>2, <1>3 DEF Positions
<1>8. ASSUME NEW p \in Occupied', p # write_pos
      PROVE  p \in Occupied /\ Offset(p)' = IF Full THEN Offset(p) - 1 ELSE Offset(p)
  <2>1. p \in 0 .. buf_size /\ Offset(p)' < Fill'
    BY <1>8 DEF Occupied, Positions, Fill
  <2>2. Offset(p) < Offset(write_pos)
    BY <1>1, <1>2, <1>3, <1>8, <2>1 DEF Offset, Positions
  <2>3. Offset(p)' = IF Full THEN Offset(p) - 1 ELSE Offset(p)
    BY <1>1, <1>2, <1>3, <1>8, <2>1 DEF Offset, Positions
  <2> QED
    BY <2>1, <2>2, <2>3 DEF Occupied, Positions
<1> QED
  BY <1>4, <1>5, <1>6, <1>7, <1>8

(* ... and what circular_fifo_get does. *)
LEMMA GetGeometry ==
  ASSUME TypeOK, read_pos # write_pos,
         read_pos' = Succ(read_pos), write_pos' = write_pos
  PROVE  /\ Fill > 0 /\ Fill' = Fill - 1
         /\ read_pos \in Occupied /\ Offset(read_pos) = 0
         /\ \A p \in Occupied' : p \in Occupied /\ Offset(p)' = Offset(p) - 1
         /\ read_pos' # write_pos => read_pos' \in Occupied /\ Offset(read_pos') = 1
<1>0. buf_size > 0
  BY BufAssumption
<1>1. /\ buf_size \in Nat
      /\ read_pos \in 0 .. buf_size /\ write_pos \in 0 .. buf_size
      /\ read_pos' = IF read_pos = buf_size THEN 0 ELSE read_pos + 1
      /\ read_pos # write_pos
  BY SuccWraps, BufAssumption DEF TypeOK, Positions
<1>2. \A p \in Positions : Offset(p)' = IF p >= read_pos' THEN p - read_pos'
                                         ELSE p + buf_size + 1 - read_pos'
  BY DEF Offset
<1>3. Fill' = IF write_pos >= read_pos' THEN write_pos - read_pos'
              ELSE write_pos + buf_size + 1 - read_pos'
  BY DEF Offset, Fill
<1>4. Fill > 0 /\ Fill' = Fill - 1
  BY <1>1, <1>3 DEF Fill, Offset
<1>5. read_pos \in Occupied /\ Offset(read_pos) = 0
  BY <1>1 DEF Occupied, Offset, Positions
<1>6. ASSUME NEW p \in Occupied'
      PROVE  p \in Occupied /\ Offset(p)' = Offset(p) - 1
  <2>1. p \in 0 .. buf_size /\ Offset(p)' < Fill'
    BY <1>6 DEF Occupied, Positions, Fill
  <2>2. Offset(p) < Offset(write_pos) /\ Offset(p)' = Offset(p) - 1
    BY <1>1, <1>2, <1>3, <2>1 DEF Offset, Positions
  <2> QED
    BY <2>1, <2>2 DEF Occupied, Positions
<1>7. read_pos' # write_pos => read_pos' \in Occupied /\ Offset(read_pos') = 1
  BY <1>1 DEF Occupied, Offset, Positions
<1> QED
  BY <1>4, <1>5, <1>6, <1>7

LEMMA OffsetTyped ==
  ASSUME TypeOK
  PROVE  /\ Fill \in Nat /\ \A p \in Positions : Offset(p) \in Nat
         /\ Fill = 0 <=> read_pos = write_pos
         /\ Occupied \subseteq Positions /\ \A p \in Occupied : p_buf[p] \in Int
         /\ Pending \in Nat /\ Taken \in Nat /\ left \in Nat
<1>1. /\ buf_size \in Nat
      /\ read_pos \in 0 .. buf_size /\ write_pos \in 0 .. buf_size
  BY BufAssumption DEF TypeOK, Positions
<1>2. Fill \in Nat /\ \A p \in Positions : Offset(p) \in Nat
  BY <1>1 DEF Fill, Offset, Positions
<1>3. Fill = 0 <=> read_pos = write_pos
  BY <1>1 DEF Fill, Offset
<1>4. Occupied \subseteq Positions /\ \A p \in Occupied : p_buf[p] \in Int
  BY DEF Occupied, TypeOK
<1>5. Pending \in Nat /\ Taken \in Nat /\ left \in Nat
  BY SizeAssumption DEF Pending, Taken, TypeOK
<1> QED
  BY <1>2, <1>3, <1>4, <1>5

(* A byte that finds room is the next one of its element or the first one, *)
(* and it follows what is there.                                           *)
LEMMA PutWhole ==
  ASSUME HInv, TypeOK', WInv, Put
  PROVE  WInv'
<1>0. TypeOK
  BY DEF HInv
<1>1. /\ p_buf' = [p_buf EXCEPT ![write_pos] = sampled]
      /\ write_pos' = Succ(write_pos)
      /\ read_pos' = IF Full THEN Succ(read_pos) ELSE read_pos
      /\ sampled' = sampled + 1 /\ kept' = TRUE
      /\ left' = IF left = 0 THEN SIZE - 1 ELSE left - 1
      /\ UNCHANGED <<read_flag, pc, bytes, last, cut>>
      /\ ~(Full /\ read_flag)
  BY DEF Put, NextByte, response, Refused
<1>2. /\ Fill' = IF Full THEN buf_size ELSE Fill + 1
      /\ Full => Fill = buf_size
      /\ write_pos \in Positions /\ write_pos \notin Occupied
      /\ \A p \in Occupied' : p # write_pos =>
           p \in Occupied /\ Offset(p)' = IF Full THEN Offset(p) - 1 ELSE Offset(p)
      /\ \A p \in Positions : Offset(p)' + 1 = Fill' <=> p = write_pos
  BY <1>0, <1>1, PutGeometry
<1>3. /\ Fill \in Nat /\ \A p \in Positions : Offset(p) \in Nat
      /\ Fill = 0 <=> read_pos = write_pos
      /\ Occupied \subseteq Positions /\ \A p \in Occupied : p_buf[p] \in Int
      /\ Pending \in Nat /\ left \in Nat /\ Taken \in Nat
  BY <1>0, OffsetTyped
<1>4. /\ Fill' \in Nat /\ \A p \in Positions : Offset(p)' \in Nat
      /\ Occupied' \subseteq Positions
      /\ Pending' \in Nat
  <2>1. \A p \in Positions : Offset(p)' \in Nat
    <3>1. buf_size \in Nat /\ read_pos' \in 0 .. buf_size
      BY BufAssumption DEF TypeOK, Positions
    <3>2. \A p \in Positions : Offset(p)' = IF p >= read_pos' THEN p - read_pos'
                                             ELSE p + buf_size + 1 - read_pos'
      BY DEF Offset
    <3> QED
      BY <3>1, <3>2 DEF Positions
  <2>2. Fill' \in Nat
    BY <1>2, <1>3, BufAssumption
  <2>3. Pending' \in Nat
    BY <1>1, <1>3, SizeAssumption DEF Pending
  <2> QED
    BY <2>1, <2>2, <2>3 DEF Occupied, Positions
<1>5. /\ Mod(sampled + left) = 0 /\ sampled \in Nat
      /\ left # 0 => kept
      /\ read_flag <=> pc = "read"
      /\ ~Full \/ pc # "read"
  BY <1>0, <1>1 DEF WInv, Putting, Reading, TypeOK
<1>6. /\ left # 0 => Pending' = Pending - 1 /\ Pending = left
      /\ left = 0 => Pending' = Pending - 1 + SIZE /\ Pending = 0
  BY <1>1, <1>3, <1>5, SizeAssumption DEF Pending
<1>7. \A x \in Int : Mod(x + SIZE) = Mod(x)
  BY ModShift
<1>8. ASSUME NEW x \in Int, Mod(x + Pending) = 0
      PROVE  Mod(x + 1 + Pending') = 0
  <2>1. x + Pending \in Int
    BY <1>3
  <2>2. x + 1 + Pending' = x + Pending \/ x + 1 + Pending' = (x + Pending) + SIZE
    BY <1>3, <1>6, SizeAssumption
  <2> QED
    BY <1>7, <1>8, <2>1, <2>2
<1>9. Mod(sampled' + left') = 0
  <2>1. sampled + left \in Int
    BY <1>3, <1>5
  <2>2. sampled' + left' = sampled + left \/ sampled' + left' = (sampled + left) + SIZE
    BY <1>1, <1>3, <1>5, SizeAssumption
  <2> QED
    BY <1>5, <1>7, <2>1, <2>2
<1>10. Putting'
  <2>1. 0 < Fill'
    BY <1>2, <1>3, BufAssumption
  <2>2. \A p \in Positions : Offset(p)' + 1 = Fill' => p_buf'[p] = sampled' - 1
    BY <1>0, <1>1, <1>2, <1>5 DEF TypeOK
  <2>3. Positions' = Positions
    BY DEF Positions
  <2> QED
    BY <1>1, <1>9, <2>1, <2>2, <2>3 DEF Putting, Mod
<1>11. Reading'
  BY <1>1, Zenon DEF WInv, Reading
<1>12. ASSUME ~cut
       PROVE  Elementwise'
  <2>1. Rounded /\ InPhase /\ Runs /\ Continues /\ BytesWhole
    BY <1>12 DEF WInv, Elementwise
  <2>2. Taken' = Taken
    BY <1>1 DEF Taken
  <2>3. Rounded'
    <3>1. CASE Full
      BY <1>1, <1>2, <1>5, <3>1 DEF Rounded
    <3>2. CASE ~Full /\ Fill = buf_size
      <4>1. /\ buf_size \in Nat
            /\ read_pos \in 0 .. buf_size /\ write_pos \in 0 .. buf_size
            /\ Succ(write_pos) = IF write_pos = buf_size THEN 0 ELSE write_pos + 1
        BY <1>0, SuccWraps, BufAssumption DEF TypeOK, Positions
      <4> QED
        BY <3>2, <4>1 DEF Fill, Offset, Full
    <3>3. CASE ~Full /\ Fill # buf_size
      <4>1. Mod((Fill + Taken) + Pending) = 0
        <5>1. (Fill + Taken) + Pending = Fill + Pending + Taken
          BY <1>3
        <5> QED
          BY <2>1, <3>3, <5>1 DEF Rounded
      <4>2. Mod((Fill + Taken) + 1 + Pending') = 0
        BY <1>3, <1>8, <4>1
      <4>3. (Fill + Taken) + 1 + Pending' = Fill' + Pending' + Taken'
        BY <1>2, <1>3, <1>4, <2>2, <3>3
      <4>4. Mod(Fill' + Pending' + Taken') = 0
        BY <4>2, <4>3
      <4> QED
        BY <4>4 DEF Rounded, Mod
    <3> QED
      BY <3>1, <3>2, <3>3
  <2>4. InPhase'
    <3> SUFFICES ASSUME NEW p \in Occupied'
                 PROVE  Mod(p_buf'[p] + Fill' - Offset(p)' + Pending') = 0
      BY DEF InPhase, Mod
    <3>1. CASE p = write_pos
      <4>1. p_buf'[p] = sampled /\ Offset(p)' + 1 = Fill'
        BY <1>0, <1>1, <1>2, <3>1 DEF TypeOK
      <4>2. p_buf'[p] + Fill' - Offset(p)' + Pending' = sampled' + left'
        BY <1>1, <1>2, <1>3, <1>4, <1>5, <3>1, <4>1, SizeAssumption DEF Pending
      <4> QED
        BY <1>9, <4>2
    <3>2. CASE p # write_pos
      <4>1. /\ p \in Occupied /\ p_buf'[p] = p_buf[p] /\ p_buf[p] \in Int
            /\ Offset(p) \in Nat
            /\ Fill' - Offset(p)' = Fill - Offset(p) + 1
        BY <1>0, <1>1, <1>2, <1>3, <3>2, BufAssumption DEF TypeOK
      <4>2. Mod((p_buf[p] + Fill - Offset(p)) + Pending) = 0
        BY <2>1, <4>1 DEF InPhase
      <4>3. p_buf[p] + Fill - Offset(p) \in Int
        BY <1>3, <4>1
      <4>4. Mod((p_buf[p] + Fill - Offset(p)) + 1 + Pending') = 0
        BY <1>8, <4>2, <4>3
      <4>5. (p_buf[p] + Fill - Offset(p)) + 1 + Pending' = p_buf'[p] + Fill' - Offset(p)' + Pending'
        BY <1>3, <1>4, <4>1
      <4> QED
        BY <4>4, <4>5
    <3> QED
      BY <3>1, <3>2
  <2>5. Runs'
    <3> SUFFICES ASSUME NEW p \in Occupied', NEW q \in Occupied', Offset(q)' = Offset(p)' + 1
                 PROVE  p_buf'[q] = p_buf'[p] + 1 \/ Mod(p_buf'[q]) = 0
      BY DEF Runs, Mod
    <3>1. /\ p \in Positions /\ q \in Positions
          /\ Offset(q)' < Fill'
          /\ Offset(p)' \in Nat
      BY <1>4 DEF Occupied, Fill
    <3>2. p # write_pos
      BY <1>2, <1>4, <3>1
    <3>3. p \in Occupied /\ Offset(p) \in Nat /\ Offset(p)' = IF Full THEN Offset(p) - 1 ELSE Offset(p)
      BY <1>2, <1>3, <3>2
    <3>4. p_buf'[p] = p_buf[p]
      BY <1>0, <1>1, <3>1, <3>2 DEF TypeOK
    <3>5. CASE q = write_pos
      <4>1. p_buf'[q] = sampled
        BY <1>0, <1>1, <3>1, <3>5 DEF TypeOK
      <4>2. CASE left = 0
        <5>1. Mod(sampled) = 0
          BY <1>5, <4>2
        <5> QED
          BY <4>1, <5>1
      <4>3. CASE left # 0
        <5>1. Offset(q)' + 1 = Fill'
          BY <1>2, <3>1, <3>5
        <5>2. Offset(p) + 1 = Fill
          BY <1>2, <1>3, <1>4, <3>1, <3>3, <5>1
        <5>3. p_buf[p] = sampled - 1
          BY <1>5, <3>1, <4>3, <5>2 DEF WInv, Putting
        <5> QED
          BY <1>5, <3>4, <4>1, <5>3
      <4> QED
        BY <4>2, <4>3
    <3>6. CASE q # write_pos
      <4>1. q \in Occupied /\ Offset(q)' = IF Full THEN Offset(q) - 1 ELSE Offset(q)
        BY <1>2, <3>6
      <4>2. Offset(q) = Offset(p) + 1
        BY <1>3, <3>3, <4>1, <3>1
      <4>3. p_buf'[q] = p_buf[q]
        BY <1>0, <1>1, <3>1, <3>6 DEF TypeOK
      <4> QED
        BY <2>1, <3>3, <3>4, <4>1, <4>2, <4>3 DEF Runs
    <3> QED
      BY <3>5, <3>6
  <2>6. Continues'
    <3> SUFFICES ASSUME pc = "read", bytes # << >>
                 PROVE  p_buf'[read_pos'] = last + 1 \/ Mod(p_buf'[read_pos']) = 0
      BY <1>1 DEF Continues, Mod
    <3>1. ~Full /\ read_pos' = read_pos /\ read_pos \in Positions
      BY <1>0, <1>1, <1>5 DEF TypeOK
    <3>2. CASE read_pos = write_pos
      <4>1. Fill = 0
        BY <1>3, <3>2
      <4>2. left = 0
        BY <1>5, <4>1 DEF WInv, Putting
      <4>3. p_buf'[read_pos'] = sampled
        BY <1>0, <1>1, <3>1, <3>2 DEF TypeOK
      <4>4. Mod(sampled) = 0
        BY <1>5, <4>2
      <4> QED
        BY <4>3, <4>4
    <3>3. CASE read_pos # write_pos
      <4>1. p_buf'[read_pos'] = p_buf[read_pos]
        BY <1>0, <1>1, <3>1, <3>3 DEF TypeOK
      <4> QED
        BY <2>1, <3>3, <4>1 DEF Continues
    <3> QED
      BY <3>2, <3>3
  <2>7. BytesWhole'
    BY <1>1, <2>1 DEF BytesWhole, Mod
  <2> QED
    BY <2>3, <2>4, <2>5, <2>6, <2>7 DEF Elementwise
<1> QED
  BY <1>1, <1>10, <1>11, <1>12 DEF WInv

(* A refused byte leaves all as it is, or cuts its element. *)
LEMMA RefusedWhole ==
  ASSUME HInv, WInv, PutRefused
  PROVE  WInv'
<1>0. TypeOK
  BY DEF HInv
<1>1. /\ UNCHANGED <<p_buf, read_pos, write_pos, read_flag, pc, bytes, last>>
      /\ Full /\ read_flag
      /\ sampled' = sampled + 1 /\ kept' = FALSE
      /\ left' = IF left = 0 THEN SIZE - 1 ELSE left - 1
      /\ cut' = (cut \/ (left # 0 /\ kept))
  BY DEF PutRefused, NextByte, fifo, response, Refused
<1>2. /\ Full' = Full /\ Fill' = Fill /\ Taken' = Taken /\ Occupied' = Occupied
      /\ \A p : Offset(p)' = Offset(p)
  BY <1>1 DEF Full, Succ, Fill, Taken, Occupied, Positions, Offset
<1>3. sampled \in Nat /\ left \in Nat
  BY <1>0, SizeAssumption DEF TypeOK
<1>4. Mod(sampled' + left') = 0
  <2>1. sampled + left \in Int /\ Mod(sampled + left) = 0
    BY <1>3 DEF WInv, Putting
  <2>2. sampled' + left' = sampled + left \/ sampled' + left' = (sampled + left) + SIZE
    BY <1>1, <1>3, SizeAssumption
  <2> QED
    BY <2>1, <2>2, ModShift
<1>5. Putting'
  BY <1>1, <1>2, <1>4 DEF Putting, Mod
<1>6. Reading'
  BY <1>1, Zenon DEF WInv, Reading
<1>7. ASSUME ~cut'
      PROVE  Elementwise'
  <2>1. ~cut /\ (left = 0 \/ ~kept)
    BY <1>1, <1>7
  <2>2. Pending' = Pending
    BY <1>1, <2>1 DEF Pending
  <2>3. Elementwise
    BY <2>1 DEF WInv
  <2>4. Rounded' /\ InPhase'
    BY <1>1, <1>2, <2>2, <2>3 DEF Elementwise, Rounded, InPhase, Mod
  <2>5. Runs' /\ Continues' /\ BytesWhole'
    BY <1>1, <1>2, <2>3 DEF Elementwise, Runs, Continues, BytesWhole, Mod
  <2> QED
    BY <2>4, <2>5 DEF Elementwise
<1> QED
  BY <1>5, <1>6, <1>7 DEF WInv

(* The byte that is taken has the next place in its element. *)
LEMMA GetWhole ==
  ASSUME HInv, TypeOK', WInv, Get
  PROVE  WInv'
<1>0. TypeOK
  BY DEF HInv
<1>1. /\ left = 0 /\ pc = "read" /\ pc' = "read"
      /\ read_pos # write_pos /\ read_pos' = Succ(read_pos)
      /\ bytes' = Append(bytes, p_buf[read_pos]) /\ last' = p_buf[read_pos]
      /\ UNCHANGED <<p_buf, write_pos, read_flag, sampled, left, kept, cut>>
  BY DEF Get, MainStep, TakeByte, interrupt
<1>2. /\ Fill > 0 /\ Fill' = Fill - 1
      /\ read_pos \in Occupied /\ Offset(read_pos) = 0
      /\ \A p \in Occupied' : p \in Occupied /\ Offset(p)' = Offset(p) - 1
      /\ read_pos' # write_pos => read_pos' \in Occupied /\ Offset(read_pos') = 1
  BY <1>0, <1>1, GetGeometry
<1>3. /\ Fill \in Nat /\ \A p \in Positions : Offset(p) \in Nat
      /\ Occupied \subseteq Positions /\ \A p \in Occupied : p_buf[p] \in Int
      /\ Pending = 0 /\ Pending' = 0
  BY <1>0, <1>1, OffsetTyped DEF Pending
<1>4. /\ bytes \in Seq(Int) /\ p_buf[read_pos] \in Int
      /\ Len(bytes) \in Nat /\ Len(bytes') = Len(bytes) + 1
      /\ \A i \in 1 .. Len(bytes) : bytes'[i] = bytes[i]
      /\ bytes'[Len(bytes) + 1] = p_buf[read_pos]
      /\ Taken = Len(bytes) /\ Taken' = Len(bytes) + 1
  BY <1>0, <1>1, <1>2, <1>3 DEF TypeOK, Taken
<1>5. Putting'
  BY <1>1 DEF WInv, Putting, Mod
<1>6. Reading'
  BY <1>1, <1>4 DEF WInv, Reading
<1>7. ASSUME ~cut
      PROVE  Elementwise'
  <2>1. Rounded /\ InPhase /\ Runs /\ Continues /\ BytesWhole
    BY <1>7 DEF WInv, Elementwise
  <2>2. Mod(Fill + Len(bytes)) = 0
    <3>1. Fill + Pending + Taken = Fill + Len(bytes)
      BY <1>3, <1>4
    <3> QED
      BY <1>1, <2>1, <3>1 DEF Rounded
  <2>3. Rounded'
    <3>1. Fill' + Pending' + Taken' = Fill + Len(bytes)
      BY <1>2, <1>3, <1>4
    <3>2. Mod(Fill' + Pending' + Taken') = 0
      BY <2>2, <3>1
    <3> QED
      BY <3>2 DEF Rounded, Mod
  <2>4. InPhase'
    <3> SUFFICES ASSUME NEW p \in Occupied'
                 PROVE  Mod(p_buf[p] + Fill' - Offset(p)' + Pending') = 0
      BY <1>1 DEF InPhase, Mod
    <3>1. p \in Occupied /\ Offset(p)' = Offset(p) - 1 /\ Offset(p) \in Nat /\ p_buf[p] \in Int
      BY <1>2, <1>3
    <3>2. p_buf[p] + Fill' - Offset(p)' + Pending' = p_buf[p] + Fill - Offset(p) + Pending
      BY <1>2, <1>3, <3>1
    <3> QED
      BY <2>1, <3>1, <3>2 DEF InPhase
  <2>5. Runs'
    <3> SUFFICES ASSUME NEW p \in Occupied', NEW q \in Occupied', Offset(q)' = Offset(p)' + 1
                 PROVE  p_buf[q] = p_buf[p] + 1 \/ Mod(p_buf[q]) = 0
      BY <1>1 DEF Runs, Mod
    <3>1. p \in Occupied /\ q \in Occupied /\ Offset(q) = Offset(p) + 1
      BY <1>2, <1>3
    <3> QED
      BY <2>1, <3>1 DEF Runs
  <2>6. Continues'
    <3> SUFFICES ASSUME read_pos' # write_pos
                 PROVE  p_buf[read_pos'] = p_buf[read_pos] + 1 \/ Mod(p_buf[read_pos']) = 0
      BY <1>1 DEF Continues, Mod
    <3>1. read_pos' \in Occupied /\ Offset(read_pos') = Offset(read_pos) + 1
      BY <1>2
    <3> QED
      BY <1>2, <2>1, <3>1 DEF Runs
  <2>7. Mod(p_buf[read_pos]) = Mod(Len(bytes))
    <3>1. Mod(p_buf[read_pos] + Fill) = 0
      <4>1. p_buf[read_pos] + Fill - Offset(read_pos) + Pending = p_buf[read_pos] + Fill
        BY <1>2, <1>3, <1>4
      <4> QED
        BY <1>2, <2>1, <4>1 DEF InPhase
    <3>2. Mod((p_buf[read_pos] + Fill) - (Fill + Len(bytes))) = 0
      <4>1. p_buf[read_pos] + Fill \in Int /\ Fill + Len(bytes) \in Int
        BY <1>3, <1>4
      <4> QED
        BY <2>2, <3>1, <4>1, ModSum
    <3>3. (p_buf[read_pos] + Fill) - (Fill + Len(bytes)) = p_buf[read_pos] - Len(bytes)
      BY <1>3, <1>4
    <3> QED
      BY <1>4, <3>2, <3>3, ModEqual
  <2>8. Mod(Len(bytes)) # 0 => p_buf[read_pos] = bytes[Len(bytes)] + 1
    <3> SUFFICES ASSUME Mod(Len(bytes)) # 0
                 PROVE  p_buf[read_pos] = bytes[Len(bytes)] + 1
      OBVIOUS
    <3>1. bytes # << >>
      BY ModShift
    <3>2. last = bytes[Len(bytes)]
      BY <1>1, <3>1 DEF WInv, Reading
    <3> QED
      BY <1>1, <2>1, <2>7, <3>1, <3>2 DEF Continues
  <2>9. BytesWhole'
    <3> SUFFICES ASSUME NEW i \in 1 .. Len(bytes) + 1
                 PROVE  /\ Mod(bytes'[i]) = Mod(i - 1)
                        /\ Mod(i - 1) # 0 => bytes'[i] = bytes'[i - 1] + 1
      BY <1>1, <1>4 DEF BytesWhole, Mod
    <3>1. CASE i \in 1 .. Len(bytes)
      <4>1. /\ Mod(bytes[i]) = Mod(i - 1)
            /\ Mod(i - 1) # 0 => bytes[i] = bytes[i - 1] + 1
        BY <1>1, <2>1, <3>1 DEF BytesWhole
      <4>2. Mod(i - 1) # 0 => i - 1 \in 1 .. Len(bytes)
        BY <1>4, <3>1, ModShift
      <4> QED
        BY <1>4, <3>1, <4>1, <4>2
    <3>2. CASE i = Len(bytes) + 1
      <4>1. i - 1 = Len(bytes)
        BY <1>4, <3>2
      <4>2. Mod(i - 1) # 0 => i - 1 \in 1 .. Len(bytes)
        BY <1>4, <4>1, ModShift
      <4> QED
        BY <1>4, <2>7, <2>8, <3>2, <4>1, <4>2
    <3> QED
      BY <1>4, <3>1, <3>2
  <2> QED
    BY <2>3, <2>4, <2>5, <2>6, <2>9 DEF Elementwise
<1> QED
  BY <1>1, <1>5, <1>6, <1>7 DEF WInv

(* The handler's other steps neither put nor take a byte. *)
LEMMA HandlerWhole ==
  ASSUME HInv, HInv', WInv, left = 0,
         UNCHANGED <<p_buf, read_pos, write_pos, sampled, left, kept, last, cut>>,
         read_flag' <=> pc' = "read",
         pc' \in {"read", "respond"} => bytes' = bytes,
         pc' = "read" => pc = "open",
         pc' = "respond" => pc = "read" /\ (len = 0 \/ read_pos = write_pos),
         pc = "read" => pc' = "respond"
  PROVE  WInv'
<1>0. TypeOK /\ BytesThere
  BY DEF HInv
<1>1. /\ Full' = Full /\ Fill' = Fill /\ Occupied' = Occupied /\ Pending' = Pending
      /\ \A p : Offset(p)' = Offset(p)
  BY DEF Full, Succ, Fill, Occupied, Positions, Offset, Pending
<1>2. Fill \in Nat /\ Pending = 0 /\ (Fill = 0 <=> read_pos = write_pos)
      /\ Len(bytes) \in Nat /\ Taken \in Nat
  BY <1>0, OffsetTyped DEF Pending, TypeOK
<1>3. pc' = "read" => bytes' = << >>
  BY <1>0 DEF BytesThere
<1>4. Putting'
  BY DEF WInv, Putting, Mod
<1>5. Reading'
  BY <1>3 DEF Reading
<1>6. ASSUME ~cut
      PROVE  Elementwise'
  <2>1. Rounded /\ InPhase /\ Runs /\ Continues /\ BytesWhole
    BY <1>6 DEF WInv, Elementwise
  <2>2. InPhase' /\ Runs' /\ Continues'
    BY <1>1, <1>3, <2>1 DEF InPhase, Runs, Continues, Mod
  <2>3. Taken' = 0
    BY <1>3 DEF Taken
  <2>4. pc = "read" => Mod(Fill + Len(bytes)) = 0
    <3>1. pc = "read" => Fill + Pending + Taken = Fill + Len(bytes)
      BY <1>2 DEF Taken
    <3> QED
      BY <2>1, <3>1 DEF Rounded
  <2>5. pc = "read" => Mod(Len(bytes)) = 0 /\ Mod(Fill) = 0
    <3> SUFFICES ASSUME pc = "read"
                 PROVE  Mod(Len(bytes)) = 0 /\ Mod(Fill) = 0
      OBVIOUS
    <3>1. CASE Fill = 0
      <4>1. Fill + Len(bytes) = Len(bytes)
        BY <1>2, <3>1
      <4> QED
        BY <2>4, <3>1, <4>1, ModShift
    <3>2. CASE len = 0
      <4>1. Len(bytes) = count * SIZE /\ count \in Nat
        BY <1>0, <1>2, <3>2, ProtocolAssumption DEF BytesThere, TypeOK
      <4>2. Mod(Len(bytes)) = 0
        BY <4>1, ModTimes
      <4>3. Mod((Fill + Len(bytes)) - Len(bytes)) = Mod(Fill + Len(bytes))
        BY <1>2, <4>2, ModSum
      <4>4. (Fill + Len(bytes)) - Len(bytes) = Fill
        BY <1>2
      <4> QED
        BY <2>4, <4>2, <4>3, <4>4
    <3> QED
      BY <1>2, <3>1, <3>2
  <2>6. Rounded'
    <3>1. CASE pc = "read"
      <4>1. Fill' + Pending' + Taken' = Fill
        BY <1>1, <1>2, <2>3
      <4>2. Mod(Fill' + Pending' + Taken') = 0
        BY <2>5, <3>1, <4>1
      <4> QED
        BY <4>2 DEF Rounded, Mod
    <3>2. CASE pc # "read" /\ Fill = buf_size
      <4>1. Fill' + Pending' + Taken' = buf_size /\ Mod(buf_size) = 0
        BY <1>1, <1>2, <2>3, <3>2, MultipleAssumption DEF Mod
      <4>2. Mod(Fill' + Pending' + Taken') = 0
        BY <4>1
      <4> QED
        BY <4>2 DEF Rounded, Mod
    <3>3. CASE pc # "read" /\ Fill # buf_size
      <4>1. Taken = 0
        BY <3>3 DEF Taken
      <4>2. Mod(Fill' + Pending' + Taken') = 0
        BY <1>1, <2>1, <2>3, <3>3, <4>1 DEF Rounded
      <4> QED
        BY <4>2 DEF Rounded, Mod
    <3> QED
      BY <3>1, <3>2, <3>3
  <2>7. BytesWhole'
    <3>1. CASE pc' = "read"
      BY <1>3, <3>1 DEF BytesWhole, Mod
    <3>2. CASE pc' = "respond"
      BY <2>1, <2>5, <3>2 DEF BytesWhole, Mod
    <3> QED
      BY <3>1, <3>2 DEF BytesWhole
  <2> QED
    BY <2>2, <2>6, <2>7 DEF Elementwise
<1> QED
  BY <1>4, <1>5, <1>6 DEF WInv

LEMMA WholeStep == HInv /\ HInv' /\ WInv /\ [Next]_vars => WInv'
<1> SUFFICES ASSUME HInv, HInv', WInv, [Next]_vars
             PROVE  WInv'
  OBVIOUS
<1>0. /\ TypeOK' /\ (read_flag <=> pc = "read")
      /\ read_flag \in BOOLEAN /\ pc \in Steps
  BY DEF HInv, WInv, Reading, TypeOK
<1> USE DEF MainStep, fifo, interrupt, loads, response
<1>1. CASE PutRefused
  BY <1>1, RefusedWhole
<1>2. CASE Put
  BY <1>0, <1>2, PutWhole
<1>3. CASE Get
  BY <1>0, <1>3, GetWhole
<1>4. CASE StreamHandler
  BY <1>0, <1>4, HandlerWhole DEF StreamHandler
<1>5. CASE LoadWritePos \/ LoadReadPos
  <2>1. /\ left = 0 /\ pc \in {"compare", "subtract"} /\ pc' = pc
        /\ UNCHANGED <<p_buf, read_pos, write_pos, read_flag, sampled, left, kept, last, cut>>
    BY <1>5 DEF LoadWritePos, LoadReadPos
  <2> QED
    BY <1>0, <2>1, HandlerWhole
<1>6. CASE Compare
  BY <1>0, <1>6, HandlerWhole DEF Compare
<1>7. CASE Subtract
  BY <1>0, <1>7, HandlerWhole DEF Subtract
<1>8. CASE ReadOpen
  BY <1>0, <1>8, HandlerWhole DEF ReadOpen
<1>9. CASE ReadClose
  BY <1>0, <1>9, HandlerWhole DEF ReadClose
<1>10. CASE Respond
  BY <1>0, <1>10, HandlerWhole DEF Respond
<1>11. CASE UNCHANGED vars
  <2>1. /\ Full' = Full /\ Fill' = Fill /\ Occupied' = Occupied /\ Pending' = Pending
        /\ Taken' = Taken /\ \A p : Offset(p)' = Offset(p)
    BY <1>11 DEF vars, Full, Succ, Fill, Occupied, Positions, Offset, Pending, Taken
  <2>2. Putting' /\ Reading'
    BY <1>11, <2>1 DEF vars, WInv, Putting, Reading, Mod, Positions
  <2>3. ~cut => Elementwise'
    <3> SUFFICES ASSUME ~cut PROVE Elementwise'
      OBVIOUS
    <3>1. Elementwise
      BY DEF WInv
    <3>2. Rounded' /\ InPhase'
      BY <1>11, <2>1, <3>1 DEF vars, Elementwise, Rounded, InPhase, Mod
    <3>3. Runs' /\ Continues' /\ BytesWhole'
      BY <1>11, <2>1, <3>1 DEF vars, Elementwise, Runs, Continues, BytesWhole, Mod
    <3> QED
      BY <3>2, <3>3 DEF Elementwise
  <2> QED
    BY <1>11, <2>2, <2>3 DEF vars, WInv
<1> QED
  BY <1>1, <1>2, <1>3, <1>4, <1>5, <1>6, <1>7, <1>8, <1>9, <1>10, <1>11 DEF Next

(* A response holds whole elements, each of its bytes in its place, for    *)
(* every size of the elements and of the buffer that holds a multiple of   *)
(* them, as long as circular_fifo_put cut no element while it was read:    *)
(* bytes that are overwritten and a size that was computed from positions  *)
(* which jumped do no harm.                                                *)
THEOREM ElementsWhole == Spec => []WholeElements
<1>1. Init => WInv
  <2> SUFFICES ASSUME Init PROVE WInv
    OBVIOUS
  <2>1. Occupied = {} /\ Fill = 0 /\ Pending = 0 /\ Taken = 0
    BY BufAssumption DEF Init, Occupied, Fill, Offset, Positions, Pending, Taken
  <2>2. Mod(0) = 0
    BY ModShift
  <2>3. Putting /\ Reading
    BY <2>2 DEF Init, Putting, Reading
  <2>4. Elementwise
    BY <2>1, <2>2 DEF Init, Elementwise, Rounded, InPhase, Runs, Continues, BytesWhole
  <2> QED
    BY <2>3, <2>4 DEF WInv
<1>2. HInv /\ WInv => WholeElements
  <2> SUFFICES ASSUME HInv, WInv, ~cut, pc = "respond"
               PROVE  /\ Len(bytes) % SIZE = 0
                      /\ \A i \in DOMAIN bytes :
                           /\ bytes[i] % SIZE = (i - 1) % SIZE
                           /\ (i - 1) % SIZE # 0 => bytes[i] = bytes[i - 1] + 1
    BY DEF WholeElements
  <2>1. DOMAIN bytes = 1 .. Len(bytes)
    BY DEF HInv, TypeOK
  <2> QED
    BY <2>1 DEF WInv, Elementwise, BytesWhole, Mod
<1> QED
  BY <1>1, <1>2, WholeStep, CountInductive, PTL DEF Spec
=============================================================================
