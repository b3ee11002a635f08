-------------------------- MODULE ChunkFifoProofs ---------------------------
(***************************************************************************)
(* Proofs about ChunkFifo for every ring size and every number of samples. *)
(* The argument: TypeOK is inductive on its own; RingInvariant is          *)
(* inductive relative to it, because write_close refuses to reach the read *)
(* position and only read_close moves that; no overwriting and the         *)
(* refinement of the bounded queue follow from the two.                    *)
(***************************************************************************)
EXTENDS ChunkFifo, TLAPS

USE ChunkNumAssumption, MaxSamplesAssumption

(* The modulo of the code is a wrap-around at the last slot. *)
LEMMA NextPosWraps ==
  ASSUME NEW p \in Slots
  PROVE  NextPos(p) = IF p = chunk_num THEN 0 ELSE p + 1
<1>1. CASE p = chunk_num
  BY <1>1 DEF NextPos, Slots
<1>2. CASE p < chunk_num
  BY <1>2 DEF NextPos, Slots
<1> QED  BY <1>1, <1>2 DEF Slots

(* Every position, pointer and counter of the FIFO stays in its range. *)
THEOREM TypeCorrect == Spec => []TypeOK
<1>1. Init => TypeOK
  BY DEF Init, TypeOK, Slots
<1>2. TypeOK /\ [Next]_vars => TypeOK'
  <2> SUFFICES ASSUME TypeOK, [Next]_vars
               PROVE  TypeOK'
    OBVIOUS
  <2> USE DEF TypeOK, posvars, wvars, rvars
  <2>1. CASE WriteOpen
    BY <2>1 DEF WriteOpen
  <2>2. CASE FillChunk
    BY <2>2 DEF FillChunk
  <2>3. CASE WriteClose
    BY <2>3, NextPosWraps DEF WriteClose, Slots
  <2>4. CASE ReadOpen
    BY <2>4 DEF ReadOpen
  <2>5. CASE ReadAbort
    BY <2>5 DEF ReadAbort
  <2>6. CASE ReadCloseFlag
    BY <2>6 DEF ReadCloseFlag
  <2>7. CASE ReadCloseAdvance
    BY <2>7, NextPosWraps DEF ReadCloseAdvance, Slots
  <2>8. CASE UNCHANGED vars
    BY <2>8 DEF vars
  <2> QED
    BY <2>1, <2>2, <2>3, <2>4, <2>5, <2>6, <2>7, <2>8 DEF Next
<1> QED
  BY <1>1, <1>2, PTL DEF Spec

-----------------------------------------------------------------------------
(* Facts about the ring's geometry. *)

(* A slot the ring counts as unread is not the slot at the write position. *)
LEMMA WriteSlotIsFree ==
  ASSUME TypeOK
  PROVE  chunk_write_pos \notin Unread
BY DEF TypeOK, Unread, Offset, NumberOfChunks, Slots

(* The read position is the oldest unread slot of a ring that is not empty. *)
LEMMA OldestIsUnread ==
  ASSUME TypeOK, chunk_read_pos # chunk_write_pos
  PROVE  chunk_read_pos \in Unread
BY DEF TypeOK, Unread, Offset, NumberOfChunks, Slots

(* An accepting write_close adds the closed slot behind the unread ones. *)
LEMMA AcceptExtends ==
  ASSUME TypeOK, UNCHANGED chunk_read_pos,
         NextPos(chunk_write_pos) # chunk_read_pos,
         chunk_write_pos' = NextPos(chunk_write_pos)
  PROVE  /\ Unread' = Unread \cup {chunk_write_pos}
         /\ \A s \in Slots : Offset(s)' = Offset(s)
         /\ \A s \in Unread : Offset(s) < Offset(chunk_write_pos)
<1>1. \A s \in Slots : Offset(s)' = Offset(s)
  BY DEF Offset, NumberOfChunks
<1>2. /\ chunk_read_pos \in 0 .. chunk_num /\ chunk_write_pos \in 0 .. chunk_num
      /\ chunk_write_pos' = IF chunk_write_pos = chunk_num
                              THEN 0 ELSE chunk_write_pos + 1
      /\ chunk_write_pos' # chunk_read_pos
  BY NextPosWraps DEF TypeOK, Slots
<1>3. Offset(chunk_write_pos)' = Offset(chunk_write_pos) + 1
  BY <1>2 DEF Offset, NumberOfChunks
<1>4. \A s \in Slots : Offset(s) = Offset(chunk_write_pos) => s = chunk_write_pos
  BY <1>2 DEF Offset, NumberOfChunks, Slots
<1>5. \A s \in Slots : Offset(s) \in Nat
  BY <1>2 DEF Offset, NumberOfChunks, Slots
<1>6. \A s \in Slots : s \in Unread' <=> s \in Unread \/ s = chunk_write_pos
  <2> SUFFICES ASSUME NEW s \in Slots
               PROVE  Offset(s)' < Offset(chunk_write_pos)' <=>
                        Offset(s) < Offset(chunk_write_pos) \/ s = chunk_write_pos
    BY DEF Unread, Slots
  <2> QED  BY <1>1, <1>2, <1>3, <1>4, <1>5 DEF Slots
<1>7. chunk_write_pos \in Slots /\ Unread \subseteq Slots /\ Unread' \subseteq Slots
  BY DEF TypeOK, Unread, Slots
<1> QED
  BY <1>1, <1>6, <1>7 DEF Unread

(* Advancing the read position removes the oldest slot and keeps the order *)
(* of the others.                                                          *)
LEMMA AdvanceRemovesOldest ==
  ASSUME TypeOK, UNCHANGED chunk_write_pos,
         chunk_read_pos # chunk_write_pos,
         chunk_read_pos' = NextPos(chunk_read_pos)
  PROVE  /\ Unread' = Unread \ {chunk_read_pos}
         /\ \A s \in Unread \ {chunk_read_pos} : Offset(s)' = Offset(s) - 1
         /\ Offset(chunk_read_pos) = 0
         /\ \A s \in Unread \ {chunk_read_pos} : 0 < Offset(s)
<1>1. /\ chunk_read_pos \in 0 .. chunk_num /\ chunk_write_pos \in 0 .. chunk_num
      /\ chunk_read_pos' = IF chunk_read_pos = chunk_num
                             THEN 0 ELSE chunk_read_pos + 1
      /\ chunk_write_pos' = chunk_write_pos
  BY NextPosWraps DEF TypeOK, Slots
<1>2. ASSUME NEW s \in Slots, s # chunk_read_pos
      PROVE  Offset(s)' = Offset(s) - 1 /\ Offset(s) \in Nat \ {0}
  BY <1>1, <1>2 DEF Offset, NumberOfChunks, Slots
<1>3. Offset(chunk_read_pos) = 0
  BY <1>1 DEF Offset, NumberOfChunks
<1>4. Offset(chunk_write_pos)' = Offset(chunk_write_pos) - 1
  BY <1>1 DEF Offset, NumberOfChunks
<1>5. Offset(chunk_write_pos) \in 1 .. chunk_num
  BY <1>1 DEF Offset, NumberOfChunks
<1>6. chunk_read_pos \notin Unread'
  <2>1. (NumberOfChunks(chunk_read_pos, chunk_read_pos'))  = chunk_num
    BY <1>1 DEF NumberOfChunks
  <2> QED  BY <2>1, <1>1, <1>4, <1>5 DEF Unread, Offset, Slots
<1>7. ASSUME NEW s \in Slots, s # chunk_read_pos
      PROVE  s \in Unread' <=> s \in Unread
  <2>1. Offset(s)' = Offset(s) - 1 /\ Offset(s) \in Nat \ {0}
    BY <1>2, <1>7
  <2> SUFFICES Offset(s)' < Offset(chunk_write_pos)' <=> Offset(s) < Offset(chunk_write_pos)
    BY <1>1 DEF Unread, Slots
  <2> QED  BY <2>1, <1>4, <1>5
<1>8. Unread \subseteq Slots /\ Unread' \subseteq Slots
  BY DEF Unread, Slots
<1> QED
  BY <1>2, <1>3, <1>6, <1>7, <1>8

-----------------------------------------------------------------------------
(* One lemma per action: it keeps the ring's invariant. *)

LEMMA WriteOpenKeepsRing ==
  ASSUME TypeOK, RingInvariant, WriteOpen
  PROVE  RingInvariant'
<1> USE DEF WriteOpen, posvars, rvars
<1>1. Unread' = Unread /\ \A s : Offset(s)' = Offset(s)
  BY DEF Unread, Offset, NumberOfChunks
<1>2. chunk_write_pos \notin Unread
  BY WriteSlotIsFree
<1>3. \A s \in Unread : buf'[s] = buf[s]
  BY <1>2 DEF TypeOK, Unread
<1>4. WriterHoldsFreeSlot'
  BY DEF WriterHoldsFreeSlot
<1>5. ReaderHoldsOldest'
  BY <1>3, OldestIsUnread DEF RingInvariant, ReaderHoldsOldest
<1>6. AcceptedInOrder'
  <2>1. buf'[w_chunk'] = 0
    BY DEF TypeOK
  <2> QED  BY <2>1, <1>1, <1>3 DEF RingInvariant, AcceptedInOrder
<1> QED  BY <1>4, <1>5, <1>6 DEF RingInvariant

LEMMA FillChunkKeepsRing ==
  ASSUME TypeOK, RingInvariant, FillChunk
  PROVE  RingInvariant'
<1> USE DEF FillChunk, posvars, rvars
<1>1. Unread' = Unread /\ \A s : Offset(s)' = Offset(s)
  BY DEF Unread, Offset, NumberOfChunks
<1>2. w_chunk = chunk_write_pos /\ chunk_write_pos \notin Unread
  BY WriteSlotIsFree DEF RingInvariant, WriterHoldsFreeSlot
<1>3. \A s \in Unread : buf'[s] = buf[s]
  BY <1>2 DEF TypeOK, Unread
<1>4. WriterHoldsFreeSlot'
  BY DEF RingInvariant, WriterHoldsFreeSlot
<1>5. ReaderHoldsOldest'
  BY <1>3, OldestIsUnread DEF RingInvariant, ReaderHoldsOldest
<1>6. AcceptedInOrder'
  <2>1. buf'[w_chunk'] = samples + 1 /\ samples' = samples + 1 /\ samples \in Nat
    BY DEF TypeOK
  <2>2. \A s \in Unread : buf[s] \in Nat /\ delivered < buf[s] /\ buf[s] <= samples
    BY DEF TypeOK, RingInvariant, AcceptedInOrder, Unread
  <2>3. \A s \in Unread : delivered < buf[s] /\ buf[s] <= samples + 1 /\ buf[s] < samples + 1
    BY <2>1, <2>2
  <2>4. delivered <= samples + 1 /\ delivered < samples + 1
    BY <2>1 DEF TypeOK, RingInvariant, AcceptedInOrder
  <2> QED  BY <2>1, <2>3, <2>4, <1>1, <1>3 DEF RingInvariant, AcceptedInOrder
<1> QED  BY <1>4, <1>5, <1>6 DEF RingInvariant

LEMMA WriteCloseKeepsRing ==
  ASSUME TypeOK, RingInvariant, WriteClose
  PROVE  RingInvariant'
<1> USE DEF WriteClose, rvars
<1>1. CASE NextPos(chunk_write_pos) = chunk_read_pos
  <2>1. Unread' = Unread /\ \A s : Offset(s)' = Offset(s)
    BY <1>1 DEF Unread, Offset, NumberOfChunks
  <2> QED
    BY <1>1, <2>1 DEF RingInvariant, WriterHoldsFreeSlot, ReaderHoldsOldest,
                      AcceptedInOrder
<1>2. CASE NextPos(chunk_write_pos) # chunk_read_pos
  <2>1. /\ Unread' = Unread \cup {chunk_write_pos}
        /\ \A s \in Slots : Offset(s)' = Offset(s)
        /\ \A s \in Unread : Offset(s) < Offset(chunk_write_pos)
    BY <1>2, AcceptExtends
  <2>2. w_chunk = chunk_write_pos
    BY DEF RingInvariant, WriterHoldsFreeSlot
  <2>3. ReaderHoldsOldest'
    BY <1>2 DEF RingInvariant, ReaderHoldsOldest
  <2>4. AcceptedInOrder'
    <3>1. \A s \in Unread : buf[s] < buf[chunk_write_pos]
      BY <2>2 DEF RingInvariant, AcceptedInOrder
    <3>2. delivered < buf[chunk_write_pos] /\ buf[chunk_write_pos] <= samples
      BY <2>2 DEF RingInvariant, AcceptedInOrder
    <3>3. \A s \in Unread' : delivered < buf[s] /\ buf[s] <= samples
      BY <2>1, <3>2 DEF RingInvariant, AcceptedInOrder
    <3>4. ASSUME NEW s \in Unread', NEW t \in Unread', Offset(s) < Offset(t)
          PROVE  buf[s] < buf[t]
      <4>1. Offset(s) \in Nat /\ Offset(t) \in Nat
        BY <2>1 DEF TypeOK, Unread, Offset, NumberOfChunks, Slots
      <4>2. CASE s \in Unread /\ t \in Unread
        BY <3>4, <4>2 DEF RingInvariant, AcceptedInOrder
      <4>3. CASE s \in Unread /\ t = chunk_write_pos
        BY <3>1, <4>3
      <4>4. s # chunk_write_pos
        BY <2>1, <3>4, <4>1
      <4> QED  BY <2>1, <4>2, <4>3, <4>4
    <3>5. Unread' \subseteq Slots /\ buf' = buf /\ delivered' = delivered /\ samples' = samples
      BY DEF Unread, Slots
    <3>6. \A s, t \in Unread' : Offset(s)' < Offset(t)' => buf[s] < buf[t]
      BY <2>1, <3>4, <3>5
    <3>7. delivered <= samples
      BY DEF RingInvariant, AcceptedInOrder
    <3> QED  BY <3>3, <3>5, <3>6, <3>7 DEF AcceptedInOrder
  <2> QED  BY <2>3, <2>4 DEF RingInvariant, WriterHoldsFreeSlot
<1> QED  BY <1>1, <1>2

LEMMA ReadOpenKeepsRing ==
  ASSUME TypeOK, RingInvariant, ReadOpen
  PROVE  RingInvariant'
<1> USE DEF ReadOpen, posvars, wvars
<1>1. Unread' = Unread /\ \A s : Offset(s)' = Offset(s)
  BY DEF Unread, Offset, NumberOfChunks
<1> QED
  BY <1>1 DEF RingInvariant, WriterHoldsFreeSlot, ReaderHoldsOldest, AcceptedInOrder

LEMMA ReadStepKeepsRing ==
  ASSUME TypeOK, RingInvariant, ReadAbort \/ ReadCloseFlag
  PROVE  RingInvariant'
<1> USE DEF ReadAbort, ReadCloseFlag, posvars, wvars
<1>1. Unread' = Unread /\ \A s : Offset(s)' = Offset(s)
  BY DEF Unread, Offset, NumberOfChunks
<1> QED
  BY <1>1 DEF RingInvariant, WriterHoldsFreeSlot, ReaderHoldsOldest, AcceptedInOrder

LEMMA ReadCloseAdvanceKeepsRing ==
  ASSUME TypeOK, RingInvariant, ReadCloseAdvance
  PROVE  RingInvariant'
<1> USE DEF ReadCloseAdvance, wvars
<1>1. /\ chunk_read_pos # chunk_write_pos
      /\ taken = buf[chunk_read_pos]
      /\ chunk_read_pos' = NextPos(chunk_read_pos)
      /\ delivered' = buf[chunk_read_pos]
  BY DEF RingInvariant, ReaderHoldsOldest
<1>2. /\ Unread' = Unread \ {chunk_read_pos}
      /\ \A s \in Unread \ {chunk_read_pos} : Offset(s)' = Offset(s) - 1
      /\ Offset(chunk_read_pos) = 0
      /\ \A s \in Unread \ {chunk_read_pos} : 0 < Offset(s)
  BY <1>1, AdvanceRemovesOldest
<1>3. chunk_read_pos \in Unread
  BY <1>1, OldestIsUnread
<1>4. \A s \in Unread' : buf[chunk_read_pos] < buf[s] /\ buf[s] <= samples
  BY <1>2, <1>3 DEF RingInvariant, AcceptedInOrder
<1>5. ASSUME NEW s \in Unread', NEW t \in Unread', Offset(s)' < Offset(t)'
      PROVE  buf[s] < buf[t]
  <2>1. Offset(s) \in Int /\ Offset(t) \in Int
    BY <1>2 DEF TypeOK, Unread, Offset, NumberOfChunks, Slots
  <2>2. Offset(s) < Offset(t)
    BY <1>2, <1>5, <2>1
  <2> QED  BY <1>2, <2>2 DEF RingInvariant, AcceptedInOrder
<1>6. buf[chunk_read_pos] <= samples
  BY <1>3 DEF RingInvariant, AcceptedInOrder
<1>7. chunk_open_write = 1 /\ buf[w_chunk] # 0 =>
        /\ buf[chunk_read_pos] < buf[w_chunk] /\ buf[w_chunk] <= samples
        /\ \A s \in Unread' : buf[s] < buf[w_chunk]
  BY <1>2, <1>3 DEF RingInvariant, AcceptedInOrder
<1>8. AcceptedInOrder'
  BY <1>1, <1>4, <1>5, <1>6, <1>7 DEF AcceptedInOrder
<1>9. WriterHoldsFreeSlot' /\ ReaderHoldsOldest'
  BY DEF RingInvariant, WriterHoldsFreeSlot, ReaderHoldsOldest
<1> QED  BY <1>8, <1>9 DEF RingInvariant

(* In every reachable state the sampling code holds the slot at the write  *)
(* position, the handler holds the oldest accepted chunk, and accepted     *)
(* chunks are complete and in order.                                       *)
THEOREM RingCorrect == Spec => []RingInvariant
<1>1. Init => RingInvariant
  BY DEF Init, RingInvariant, WriterHoldsFreeSlot, ReaderHoldsOldest,
         AcceptedInOrder, Unread, Offset, NumberOfChunks, Slots
<1>2. TypeOK /\ RingInvariant /\ [Next]_vars => RingInvariant'
  <2> SUFFICES ASSUME TypeOK, RingInvariant, [Next]_vars
               PROVE  RingInvariant'
    OBVIOUS
  <2>1. CASE UNCHANGED vars
    <3>1. Unread' = Unread /\ \A s : Offset(s)' = Offset(s)
      BY <2>1 DEF vars, posvars, Unread, Offset, NumberOfChunks
    <3> QED
      BY <2>1, <3>1 DEF vars, posvars, wvars, rvars, RingInvariant,
           WriterHoldsFreeSlot, ReaderHoldsOldest, AcceptedInOrder
  <2> QED
    BY <2>1, WriteOpenKeepsRing, FillChunkKeepsRing, WriteCloseKeepsRing,
       ReadOpenKeepsRing, ReadStepKeepsRing, ReadCloseAdvanceKeepsRing DEF Next
<1> QED
  BY <1>1, <1>2, TypeCorrect, PTL DEF Spec

-----------------------------------------------------------------------------
(* The writer only ever writes to the slot at the write position. *)
LEMMA OnlyWriteSlotWritten ==
  ASSUME TypeOK, RingInvariant, [Next]_vars
  PROVE  \A s \in Unread : buf'[s] = buf[s]
<1>1. chunk_write_pos \notin Unread /\ Unread \subseteq Slots
  BY WriteSlotIsFree DEF Unread, Slots
<1>2. CASE WriteOpen
  BY <1>1, <1>2 DEF WriteOpen, TypeOK
<1>3. CASE FillChunk
  <2>1. w_chunk = chunk_write_pos
    BY <1>3 DEF FillChunk, RingInvariant, WriterHoldsFreeSlot
  <2> QED  BY <1>1, <1>3, <2>1 DEF FillChunk, TypeOK
<1>4. CASE ~ (WriteOpen \/ FillChunk)
  BY <1>4 DEF Next, vars, wvars, WriteClose, ReadOpen, ReadAbort,
              ReadCloseFlag, ReadCloseAdvance
<1> QED  BY <1>2, <1>3, <1>4

(* chunk_fifo_lib.h's promise: while a chunk is not read by the            *)
(* application it is not overwritten.                                      *)
THEOREM NeverOverwritten == Spec => UnreadNeverOverwritten
<1>1. TypeOK /\ RingInvariant /\ [Next]_vars =>
        [\A s \in Unread : s \in Unread' => buf'[s] = buf[s]]_vars
  BY OnlyWriteSlotWritten
<1> QED
  BY <1>1, TypeCorrect, RingCorrect, PTL DEF Spec, UnreadNeverOverwritten

-----------------------------------------------------------------------------
(* The refinement of the bounded queue. *)

(* Walking i slots on from slot r. *)
LEMMA SlotAfter ==
  ASSUME NEW r \in Slots, NEW i \in 0 .. chunk_num
  PROVE  (r + i) % (chunk_num + 1) =
           IF r + i <= chunk_num THEN r + i ELSE r + i - (chunk_num + 1)
<1>1. CASE r + i <= chunk_num
  BY <1>1 DEF Slots
<1>2. CASE r + i > chunk_num
  BY <1>2 DEF Slots
<1> QED  BY <1>1, <1>2 DEF Slots

(* The number of accepted chunks, and the slot of the i-th of them. *)
Count == NumberOfChunks(chunk_write_pos, chunk_read_pos)
SlotOf(i) == (chunk_read_pos + (i - 1)) % (chunk_num + 1)

(* The mapped queue is a sequence of completed chunks, at most chunk_num   *)
(* of them, and its i-th element lies in an unread slot.                   *)
LEMMA ContentsIsSeq ==
  ASSUME TypeOK
  PROVE  /\ Count \in 0 .. chunk_num
         /\ \A i \in 1 .. Count : SlotOf(i) \in Unread
         /\ Contents = [i \in 1 .. Count |-> buf[SlotOf(i)]]
         /\ Contents \in Seq(0 .. MaxSamples) /\ Len(Contents) = Count
<1>1. /\ chunk_read_pos \in 0 .. chunk_num /\ chunk_write_pos \in 0 .. chunk_num
      /\ chunk_read_pos \in Slots
  BY DEF TypeOK, Slots
<1>2. Count \in 0 .. chunk_num
  BY <1>1 DEF Count, NumberOfChunks
<1>3. ASSUME NEW i \in 1 .. Count
      PROVE  SlotOf(i) \in Unread
  <2>1. i - 1 \in 0 .. chunk_num /\ i - 1 < Count
    BY <1>2
  <2>2. SlotOf(i) = IF chunk_read_pos + (i - 1) <= chunk_num
                      THEN chunk_read_pos + (i - 1)
                      ELSE chunk_read_pos + (i - 1) - (chunk_num + 1)
    BY <1>1, <2>1, SlotAfter DEF SlotOf
  <2>3. SlotOf(i) \in Slots /\ Offset(SlotOf(i)) = i - 1
    BY <1>1, <2>1, <2>2 DEF Offset, NumberOfChunks, Slots
  <2> QED  BY <2>1, <2>3 DEF Unread, Count, Offset
<1>4. Contents = [i \in 1 .. Count |-> buf[SlotOf(i)]]
  BY DEF Contents, Count, SlotOf
<1>5. \A i \in 1 .. Count : buf[SlotOf(i)] \in 0 .. MaxSamples
  BY <1>3 DEF TypeOK, Unread
<1> QED  BY <1>2, <1>3, <1>4, <1>5

(* write_close of a chunk the ring has room for appends it to the queue. *)
LEMMA AcceptAppends ==
  ASSUME TypeOK, TypeOK', RingInvariant, WriteClose,
         NextPos(chunk_write_pos) # chunk_read_pos
  PROVE  \E c \in 1 .. MaxSamples : Queue!Accept(c)
<1> DEFINE c == buf[chunk_write_pos]
<1>1. /\ chunk_read_pos \in Slots /\ chunk_write_pos \in Slots
      /\ chunk_read_pos' = chunk_read_pos /\ buf' = buf
      /\ chunk_write_pos' = IF chunk_write_pos = chunk_num
                              THEN 0 ELSE chunk_write_pos + 1
      /\ chunk_write_pos' # chunk_read_pos
      /\ delivered' = delivered
  BY NextPosWraps DEF WriteClose, TypeOK, rvars
<1>2. c \in 1 .. MaxSamples
  <2>1. w_chunk = chunk_write_pos /\ c # 0
    BY DEF WriteClose, RingInvariant, WriterHoldsFreeSlot
  <2> QED  BY <2>1, <1>1 DEF TypeOK
<1>3. Count' = Count + 1 /\ Count < chunk_num /\ Count \in Nat
  BY <1>1 DEF Count, NumberOfChunks, Slots
<1>4. SlotOf(Count + 1) = chunk_write_pos
  <2>1. SlotOf(Count + 1) = IF chunk_read_pos + Count <= chunk_num
                              THEN chunk_read_pos + Count
                              ELSE chunk_read_pos + Count - (chunk_num + 1)
    <3>1. Count \in 0 .. chunk_num /\ (Count + 1) - 1 = Count
      BY <1>3
    <3> QED  BY <1>1, <3>1, SlotAfter DEF SlotOf
  <2> QED  BY <1>1, <2>1 DEF Count, NumberOfChunks, Slots
<1>5. /\ Contents = [i \in 1 .. Count |-> buf[SlotOf(i)]]
      /\ Contents \in Seq(0 .. MaxSamples) /\ Len(Contents) = Count
  BY ContentsIsSeq
<1>6. Contents' = [i \in 1 .. Count + 1 |-> buf[SlotOf(i)]]
  BY <1>1, <1>3 DEF Contents, Count, SlotOf
<1>7. Contents' = Append(Contents, c)
  <2> DEFINE new == [i \in 1 .. Count + 1 |-> buf[SlotOf(i)]]
  <2>1. Append(Contents, c) =
          [i \in 1 .. Count + 1 |-> IF i = Count + 1 THEN c ELSE Contents[i]]
    BY <1>3, <1>5
  <2>2. \A i \in 1 .. Count + 1 :
          buf[SlotOf(i)] = IF i = Count + 1 THEN c ELSE Contents[i]
    BY <1>3, <1>4, <1>5
  <2> QED  BY <1>6, <2>1, <2>2
<1>8. Queue!Accept(c)
  BY <1>1, <1>3, <1>5, <1>7 DEF Queue!Accept
<1> QED  BY <1>2, <1>8

(* read_close hands over the head of the queue. *)
LEMMA CloseDelivers ==
  ASSUME TypeOK, RingInvariant, ReadCloseAdvance
  PROVE  Queue!Deliver
<1>1. /\ chunk_read_pos # chunk_write_pos
      /\ delivered' = buf[chunk_read_pos]
      /\ chunk_read_pos \in Slots /\ chunk_write_pos \in Slots
      /\ chunk_read_pos' = IF chunk_read_pos = chunk_num
                              THEN 0 ELSE chunk_read_pos + 1
      /\ chunk_write_pos' = chunk_write_pos /\ buf' = buf
  BY NextPosWraps DEF ReadCloseAdvance, RingInvariant, ReaderHoldsOldest, TypeOK, wvars
<1>2. Count \in 1 .. chunk_num /\ Count' = Count - 1
  BY <1>1 DEF Count, NumberOfChunks, Slots
<1>3. ASSUME NEW i \in 1 .. Count - 1
      PROVE  SlotOf(i)' = SlotOf(i + 1)
  <2>1. /\ i - 1 \in 0 .. chunk_num /\ i \in 0 .. chunk_num /\ (i + 1) - 1 = i
        /\ chunk_read_pos' \in Slots
    BY <1>1, <1>2 DEF Slots
  <2>2. SlotOf(i + 1) = IF chunk_read_pos + i <= chunk_num
                          THEN chunk_read_pos + i
                          ELSE chunk_read_pos + i - (chunk_num + 1)
    BY <1>1, <2>1, SlotAfter DEF SlotOf
  <2>3. SlotOf(i)' = IF chunk_read_pos' + (i - 1) <= chunk_num
                       THEN chunk_read_pos' + (i - 1)
                       ELSE chunk_read_pos' + (i - 1) - (chunk_num + 1)
    BY <2>1, SlotAfter DEF SlotOf
  <2> QED  BY <1>1, <2>1, <2>2, <2>3 DEF Slots
<1>4. SlotOf(1) = chunk_read_pos
  <2>1. SlotOf(1) = (chunk_read_pos + 0) % (chunk_num + 1)
    BY DEF SlotOf
  <2> QED  BY <1>1, <2>1 DEF Slots
<1>5. /\ Contents = [i \in 1 .. Count |-> buf[SlotOf(i)]]
      /\ Contents \in Seq(0 .. MaxSamples) /\ Len(Contents) = Count
  BY ContentsIsSeq
<1>6. Head(Contents) = buf[chunk_read_pos] /\ Contents # << >>
  BY <1>2, <1>4, <1>5
<1>7. Tail(Contents) = [i \in 1 .. Count - 1 |-> Contents[i + 1]]
  BY <1>2, <1>5
<1>8. Contents' = [i \in 1 .. Count - 1 |-> buf[SlotOf(i + 1)]]
  BY <1>1, <1>2, <1>3 DEF Contents, Count, SlotOf
<1>9. Contents' = Tail(Contents)
  <2>1. \A i \in 1 .. Count - 1 : Contents[i + 1] = buf[SlotOf(i + 1)]
    BY <1>2, <1>5
  <2> QED  BY <1>7, <1>8, <2>1
<1> QED  BY <1>1, <1>6, <1>9 DEF Queue!Deliver

(* The chunk FIFO implements the bounded queue that refuses the newest     *)
(* chunk: nothing accepted is lost, altered, repeated or reordered.        *)
THEOREM RefinesQueue == Spec => ImplementsQueue
<1>1. Init => Queue!QInit
  BY DEF Init, Queue!QInit, Contents, NumberOfChunks
<1>2. TypeOK /\ TypeOK' /\ RingInvariant /\ [Next]_vars =>
        [Queue!QNext]_(Queue!qvars)
  <2> SUFFICES ASSUME TypeOK, TypeOK', RingInvariant, [Next]_vars
               PROVE  Queue!QNext \/ UNCHANGED <<Contents, delivered>>
    BY DEF Queue!qvars
  <2>1. ASSUME UNCHANGED posvars, UNCHANGED delivered
        PROVE  UNCHANGED <<Contents, delivered>>
    <3>1. Count' = Count /\ \A i : SlotOf(i)' = SlotOf(i)
      BY <2>1 DEF posvars, Count, NumberOfChunks, SlotOf
    <3>2. \A i \in 1 .. Count : buf'[SlotOf(i)] = buf[SlotOf(i)]
      BY ContentsIsSeq, OnlyWriteSlotWritten
    <3>3. Contents' = [i \in 1 .. Count |-> buf'[SlotOf(i)]]
      BY <3>1 DEF Contents, Count, SlotOf
    <3> QED  BY <2>1, <3>2, <3>3, ContentsIsSeq
  <2>2. CASE WriteClose
    <3>1. CASE NextPos(chunk_write_pos) = chunk_read_pos
      BY <2>1, <2>2, <3>1 DEF WriteClose, posvars, rvars
    <3>2. CASE NextPos(chunk_write_pos) # chunk_read_pos
      BY <2>2, <3>2, AcceptAppends DEF Queue!QNext
    <3> QED  BY <3>1, <3>2
  <2>3. CASE ReadCloseAdvance
    BY <2>3, CloseDelivers DEF Queue!QNext
  <2>4. CASE ~ (WriteClose \/ ReadCloseAdvance)
    BY <2>1, <2>4 DEF Next, vars, posvars, rvars, WriteOpen, FillChunk,
                      ReadOpen, ReadAbort, ReadCloseFlag
  <2> QED  BY <2>2, <2>3, <2>4
<1> QED
  BY <1>1, <1>2, TypeCorrect, RingCorrect, PTL DEF Spec, ImplementsQueue, Queue!QSpec
=============================================================================
