----------------------------- MODULE ChunkFifo ------------------------------
(***************************************************************************)
(* chunk_fifo_lib.c: the ring of chunks between a sampling callback (timer *)
(* or radio interrupt) and the processing handler (main loop).             *)
(*                                                                         *)
(* The writer runs in interrupt context, so it may preempt the reader      *)
(* between any two statements of chunk_fifo_read_open/read_close; the      *)
(* reader never preempts the writer.  There is no critical region in the   *)
(* library: what makes it safe is that each position has one writer.       *)
(*                                                                         *)
(* A chunk's contents are abstracted to 0 while it is being filled and to  *)
(* the number of the sample that completed it afterwards.                  *)
(***************************************************************************)
EXTENDS Integers, Sequences

CONSTANTS
  chunk_num,    \* usable chunks; the ring has chunk_num + 1 slots
  MaxSamples    \* bound: chunks the sampling callback completes

ASSUME ChunkNumAssumption == chunk_num \in Nat \ {0}
ASSUME MaxSamplesAssumption == MaxSamples \in Nat

VARIABLES
  chunk_read_pos,
  chunk_write_pos,
  chunk_open_read,
  chunk_open_write,
  buf,            \* p_chunk_fifo_buf, one entry per slot
  w_chunk,        \* the pointer write_open handed to the sampling code
  samples,        \* chunks completed so far
  reader,         \* where the processing handler is
  r_chunk,        \* the pointer read_open handed to the processing code
  taken,          \* the contents the processing code found behind it
  delivered       \* the contents of the last chunk it closed

posvars == <<chunk_read_pos, chunk_write_pos>>
wvars == <<chunk_open_write, buf, w_chunk, samples>>
rvars == <<chunk_open_read, reader, r_chunk, taken, delivered>>
vars == <<posvars, wvars, rvars>>

Slots == 0 .. chunk_num

(* Mutant: the position is advanced without the modulo. *)
NextPosMut(pos) == pos + 1

(* (pos + 1) % (chunk_num + 1) *)
NextPos(pos) == (pos + 1) % (chunk_num + 1)

(* chunk_fifo_get_number_of_chunks *)
NumberOfChunks(w, r) ==
  IF w >= r THEN w - r ELSE (chunk_num + 1) - (r - w)

Init ==
  /\ chunk_read_pos = 0
  /\ chunk_write_pos = 0
  /\ chunk_open_read = 0
  /\ chunk_open_write = 0
  /\ buf = [s \in Slots |-> 0]
  /\ w_chunk = 0
  /\ samples = 0
  /\ reader = "idle"
  /\ r_chunk = 0
  /\ taken = 0
  /\ delivered = 0

-----------------------------------------------------------------------------
(* The writer. *)

(* chunk_fifo_write_open, and the caller's reset of the chunk it is handed *)
(* (timestamp, data_count = 0).  It never fails and never looks at the     *)
(* reader.                                                                 *)
WriteOpen ==
  /\ chunk_open_write' = 1
  /\ w_chunk' = chunk_write_pos
  /\ buf' = [buf EXCEPT ![chunk_write_pos] = 0]
  /\ UNCHANGED <<posvars, samples, rvars>>

(* Mutant: a late sample is written through the pointer of a closed chunk. *)
FillChunkMut ==
  /\ samples < MaxSamples
  /\ samples' = samples + 1
  /\ buf' = [buf EXCEPT ![w_chunk] = samples + 1]
  /\ UNCHANGED <<posvars, chunk_open_write, w_chunk, rvars>>

(* The accelerometer's timer callback completes the chunk it holds; it     *)
(* runs only while sampling is on, and then a chunk is open.               *)
FillChunk ==
  /\ chunk_open_write = 1
  /\ samples < MaxSamples
  /\ samples' = samples + 1
  /\ buf' = [buf EXCEPT ![w_chunk] = samples + 1]
  /\ UNCHANGED <<posvars, chunk_open_write, w_chunk, rvars>>

(* Mutant: the write position advances although the ring is full. *)
WriteCloseMut ==
  /\ chunk_open_write = 1
  /\ buf[w_chunk] # 0
  /\ chunk_open_write' = 0
  /\ chunk_write_pos' = NextPos(chunk_write_pos)
  /\ UNCHANGED <<chunk_read_pos, buf, w_chunk, samples, rvars>>

(* chunk_fifo_write_close of a completed chunk: a full ring keeps its      *)
(* write position, so the newest chunk is dropped.                         *)
WriteClose ==
  /\ chunk_open_write = 1
  /\ buf[w_chunk] # 0
  /\ chunk_open_write' = 0
  /\ chunk_write_pos' = IF NextPos(chunk_write_pos) = chunk_read_pos
                          THEN chunk_write_pos
                          ELSE NextPos(chunk_write_pos)
  /\ UNCHANGED <<chunk_read_pos, buf, w_chunk, samples, rvars>>

-----------------------------------------------------------------------------
(* The reader. *)

(* Mutant: the chunk is taken from the slot behind the oldest one. *)
ReadOpenMut ==
  /\ reader = "idle"
  /\ chunk_read_pos # chunk_write_pos
  /\ r_chunk' = NextPos(chunk_read_pos)
  /\ taken' = buf[NextPos(chunk_read_pos)]
  /\ chunk_open_read' = 1
  /\ reader' = "open"
  /\ UNCHANGED <<posvars, wvars, delivered>>

(* chunk_fifo_read_open with a chunk available; the flag may still be set  *)
(* from an attempt that was given up.                                      *)
ReadOpen ==
  /\ reader = "idle"
  /\ chunk_read_pos # chunk_write_pos
  /\ r_chunk' = chunk_read_pos
  /\ taken' = buf[chunk_read_pos]
  /\ chunk_open_read' = 1
  /\ reader' = "open"
  /\ UNCHANGED <<posvars, wvars, delivered>>

(* The storage is busy: the handler leaves the chunk open and comes back.  *)
ReadAbort ==
  /\ reader = "open"
  /\ reader' = "idle"
  /\ UNCHANGED <<posvars, wvars, chunk_open_read, r_chunk, taken, delivered>>

(* chunk_fifo_read_close up to the clearing of the flag. *)
ReadCloseFlag ==
  /\ reader = "open"
  /\ chunk_open_read = 1
  /\ chunk_open_read' = 0
  /\ reader' = "closing"
  /\ UNCHANGED <<posvars, wvars, r_chunk, taken, delivered>>

(* Mutant: closing frees the slot twice when it can. *)
ReadCloseAdvanceMut ==
  /\ reader = "closing"
  /\ reader' = "idle"
  /\ chunk_read_pos' = IF NextPos(chunk_read_pos) = chunk_write_pos
                         THEN NextPos(chunk_read_pos)
                         ELSE NextPos(NextPos(chunk_read_pos))
  /\ delivered' = taken
  /\ UNCHANGED <<chunk_write_pos, wvars, chunk_open_read, r_chunk, taken>>

(* The rest of chunk_fifo_read_close: the slot goes back to the writer.    *)
ReadCloseAdvance ==
  /\ reader = "closing"
  /\ reader' = "idle"
  /\ IF chunk_read_pos = chunk_write_pos
       THEN UNCHANGED <<chunk_read_pos, delivered>>
       ELSE /\ chunk_read_pos' = NextPos(chunk_read_pos)
            /\ delivered' = taken
  /\ UNCHANGED <<chunk_write_pos, wvars, chunk_open_read, r_chunk, taken>>

Next ==
  \/ WriteOpen \/ FillChunk \/ WriteClose
  \/ ReadOpen \/ ReadAbort \/ ReadCloseFlag \/ ReadCloseAdvance

(* The main loop keeps running the processing handler, and the handler     *)
(* closes what it opens; nothing forces the sensors to deliver.            *)
Fairness ==
  /\ WF_vars(ReadOpen)
  /\ SF_vars(ReadCloseFlag)
  /\ WF_vars(ReadCloseAdvance)

Spec == Init /\ [][Next]_vars
FairSpec == Spec /\ Fairness
-----------------------------------------------------------------------------
(* Properties. *)

(* The accepted chunks that were not closed by the reader yet: the slots   *)
(* from the read position up to the write position.                        *)
Offset(s) == NumberOfChunks(s, chunk_read_pos)
Unread == {s \in Slots : Offset(s) < Offset(chunk_write_pos)}

(* Every position stays inside the ring, and the handler's pointers are    *)
(* slots of it (chunk_fifo_lib.c keeps both in uint8_t).                   *)
TypeOK ==
  /\ chunk_read_pos \in Slots
  /\ chunk_write_pos \in Slots
  /\ chunk_open_read \in {0, 1}
  /\ chunk_open_write \in {0, 1}
  /\ buf \in [Slots -> 0 .. MaxSamples]
  /\ w_chunk \in Slots
  /\ samples \in 0 .. MaxSamples
  /\ reader \in {"idle", "open", "closing"}
  /\ r_chunk \in Slots
  /\ taken \in 0 .. MaxSamples
  /\ delivered \in 0 .. MaxSamples

(* The facts the safety of the ring rests on, kept by every interleaving   *)
(* of the sampling interrupt with the processing handler.                  *)

(* The sampling code holds the slot at the write position.                 *)
WriterHoldsFreeSlot == chunk_open_write = 1 => w_chunk = chunk_write_pos

(* A handler inside open ... close holds the oldest accepted chunk, and    *)
(* what it found there is still there.                                     *)
ReaderHoldsOldest ==
  reader # "idle" =>
    /\ chunk_read_pos # chunk_write_pos
    /\ r_chunk = chunk_read_pos
    /\ taken = buf[chunk_read_pos]

(* Accepted chunks are complete, newer than what was delivered, and lie in *)
(* the ring in the order in which they were completed; the chunk under     *)
(* construction is newer than all of them.                                 *)
AcceptedInOrder ==
  /\ \A s \in Unread : delivered < buf[s] /\ buf[s] <= samples
  /\ \A s, t \in Unread : Offset(s) < Offset(t) => buf[s] < buf[t]
  /\ delivered <= samples
  /\ chunk_open_write = 1 /\ buf[w_chunk] # 0 =>
       /\ delivered < buf[w_chunk] /\ buf[w_chunk] <= samples
       /\ \A s \in Unread : buf[s] < buf[w_chunk]

(* The inductive invariant: the sampling interrupt and the processing      *)
(* handler never share a slot, and the ring between them is ordered.       *)
RingInvariant ==
  /\ WriterHoldsFreeSlot
  /\ ReaderHoldsOldest
  /\ AcceptedInOrder

(* No step changes an accepted chunk before the reader gives its slot      *)
(* back: chunk_fifo_lib.h's "while a chunk is not read by the application  *)
(* it couldn't be overwritten".                                            *)
UnreadNeverOverwritten ==
  [][\A s \in Unread : s \in Unread' => buf'[s] = buf[s]]_vars

(* The accepted chunks, oldest first. *)
Contents ==
  [i \in 1 .. NumberOfChunks(chunk_write_pos, chunk_read_pos) |->
     buf[(chunk_read_pos + (i - 1)) % (chunk_num + 1)]]

Queue == INSTANCE ChunkQueue WITH
  Capacity <- chunk_num, Chunk <- 1 .. MaxSamples, queue <- Contents

(* The ring implements the bounded queue that drops the newest chunk.      *)
ImplementsQueue == Queue!QSpec

(* Every chunk write_close accepted is handed to the application in the    *)
(* end, whatever the sensor does in the meantime.                          *)
EventuallyDelivered ==
  \A c \in 1 .. MaxSamples :
    (\E s \in Unread : buf[s] = c) ~> (delivered = c)
=============================================================================
