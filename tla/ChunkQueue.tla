----------------------------- MODULE ChunkQueue -----------------------------
(***************************************************************************)
(* What a chunk FIFO promises the sampling and the processing code: a      *)
(* queue of at most Capacity complete chunks that delivers in the order of *)
(* arrival, and that refuses the NEWEST chunk when it is full, so that a   *)
(* chunk once accepted is never lost or altered before it is delivered.    *)
(* A chunk is represented by the number of the close that completed it.    *)
(***************************************************************************)
EXTENDS Integers, Sequences

CONSTANTS
  Capacity,   \* chunks the queue holds
  Chunk       \* the numbers of completed chunks

VARIABLES
  queue,      \* accepted chunks that were not delivered yet
  delivered   \* the last chunk handed to the application, 0 before the first

qvars == <<queue, delivered>>

QInit ==
  /\ queue = << >>
  /\ delivered = 0

(* A completed chunk enters the queue, if there is room for it. *)
Accept(c) ==
  /\ Len(queue) < Capacity
  /\ queue' = Append(queue, c)
  /\ UNCHANGED delivered

(* The application is done with the oldest chunk. *)
Deliver ==
  /\ queue # << >>
  /\ delivered' = Head(queue)
  /\ queue' = Tail(queue)

QNext ==
  \/ \E c \in Chunk : Accept(c)
  \/ Deliver

QSpec == QInit /\ [][QNext]_qvars
=============================================================================
