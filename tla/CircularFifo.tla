---------------------------- MODULE CircularFifo ----------------------------
(***************************************************************************)
(* The FIFO of a data stream (circular_fifo_lib.c) between the sampling    *)
(* interrupt, which writes elements of several bytes, and the main loop,   *)
(* whose stream handler (request_handler_lib_02v1.c) asks for the size and *)
(* reads whole elements for a response.                                    *)
(*                                                                         *)
(* An interrupt comes between any two loads and stores of the main loop,   *)
(* which waits until it returns.  A byte is the number of the byte in the  *)
(* stream, the first one is 0: byte b belongs to element b \div SIZE.      *)
(***************************************************************************)
EXTENDS Integers, Sequences

CONSTANTS
  SIZE,           \* bytes of an element, sizeof(ScanStream) and the like
  buf_size,       \* bytes in the FIFO, a multiple of SIZE
  PROTOCOL_SIZE,  \* elements in a response, PROTOCOL_SCAN_STREAM_SIZE and the like
  WORD,           \* values of the type of the size (2^32)
  MaxBytes        \* bound: bytes the stream consists of

ASSUME SizeAssumption == SIZE \in Nat \ {0}
ASSUME BufAssumption == buf_size \in Nat \ {0}
ASSUME MultipleAssumption == buf_size % SIZE = 0
ASSUME WordAssumption == WORD \in Nat /\ WORD > buf_size
ASSUME ProtocolAssumption == PROTOCOL_SIZE \in Nat

NULL == -1
Positions == 0 .. buf_size

VARIABLES
  p_buf, read_pos, write_pos, read_flag,   \* circular_fifo_t
  sampled,       \* bytes the interrupt tried to put
  left,          \* bytes of the element that are still to be put
  kept,          \* the last byte found room
  pc,            \* the stream handler
  w, r,          \* its loads of write_pos and read_pos
  straight,      \* circular_fifo_get_size saw write_pos >= read_pos
  count,         \* elements the response claims to have
  len,           \* bytes that are still to be read
  bytes,         \* the bytes of the response
  last,          \* the byte that was read last
  cut,           \* an element was put in part
  raced          \* a position jumped while the size was computed

fifo == <<p_buf, read_pos, write_pos>>
loads == <<w, r, straight>>
response == <<count, len, bytes>>
interrupt == <<sampled, left, kept>>
vars == <<fifo, read_flag, interrupt, pc, loads, response, last, cut, raced>>

Init ==
  /\ p_buf = [p \in Positions |-> NULL]
  /\ read_pos = 0 /\ write_pos = 0 /\ read_flag = FALSE
  /\ sampled = 0 /\ left = 0 /\ kept = FALSE
  /\ pc = "idle"
  /\ w = NULL /\ r = NULL /\ straight = FALSE
  /\ count = 0 /\ len = 0 /\ bytes = << >>
  /\ last = NULL
  /\ cut = FALSE /\ raced = FALSE

(* Mutant: the buffer is taken to be one byte longer. *)
SuccMut(p) == (p + 1) % (buf_size + 2)

Succ(p) == (p + 1) % (buf_size + 1)
-----------------------------------------------------------------------------
(* The sampling interrupt. *)

(* The loop of circular_fifo_write: the next byte of the element, or the   *)
(* first one of another.                                                   *)
NextByte ==
  /\ left # 0 \/ sampled < MaxBytes
  /\ sampled' = sampled + 1
  /\ left' = IF left = 0 THEN SIZE - 1 ELSE left - 1
  /\ UNCHANGED <<read_flag, pc, loads, response, last>>

Full == Succ(write_pos) = read_pos

(* Mutant: a byte is overwritten whoever reads it. *)
RefusedMut == FALSE

(* circular_fifo_put returns when there is no room and bytes are being read. *)
Refused == Full /\ read_flag

PutRefused ==
  /\ Refused
  /\ NextByte
  /\ kept' = FALSE
  /\ cut' = (cut \/ (left # 0 /\ kept))
  /\ UNCHANGED <<fifo, raced>>

(* circular_fifo_put, which gives up the oldest byte when there is no room. *)
Put ==
  /\ ~Refused
  /\ NextByte
  /\ kept' = TRUE
  /\ p_buf' = [p_buf EXCEPT ![write_pos] = sampled]
  /\ read_pos' = IF Full THEN Succ(read_pos) ELSE read_pos
  /\ write_pos' = Succ(write_pos)
  /\ raced' = (raced \/ (pc \in {"compare", "subtract"} /\ (Full \/ Succ(write_pos) = 0)))
  /\ UNCHANGED cut
-----------------------------------------------------------------------------
(* The stream handler, which only gets on while there is no interrupt. *)

MainStep(from, to) == left = 0 /\ pc = from /\ pc' = to

StreamHandler ==
  /\ MainStep("idle", "compare")
  /\ raced' = FALSE
  /\ count' = 0 /\ len' = 0 /\ bytes' = << >>
  /\ UNCHANGED <<fifo, read_flag, interrupt, loads, last, cut>>

(* circular_fifo_get_size loads both positions to compare them, and again  *)
(* to subtract them.  C leaves the order of two loads open.                *)
LoadWritePos ==
  /\ \E at \in {"compare", "subtract"} : MainStep(at, at)
  /\ w = NULL
  /\ w' = write_pos
  /\ UNCHANGED <<fifo, read_flag, interrupt, r, straight, response, last, cut, raced>>

LoadReadPos ==
  /\ \E at \in {"compare", "subtract"} : MainStep(at, at)
  /\ r = NULL
  /\ r' = read_pos
  /\ UNCHANGED <<fifo, read_flag, interrupt, w, straight, response, last, cut, raced>>

Loaded == w # NULL /\ r # NULL

(* Mutant: an empty FIFO is taken for a full one. *)
IsStraightMut == w > r

IsStraight == w >= r

Compare ==
  /\ MainStep("compare", "subtract")
  /\ Loaded
  /\ straight' = IsStraight
  /\ w' = NULL /\ r' = NULL
  /\ UNCHANGED <<fifo, read_flag, interrupt, response, last, cut, raced>>

AvailableLen == IF straight THEN (w - r) % WORD ELSE buf_size + 1 - r + w

(* The elements that are asked for, which the response's count says at     *)
(* once, whatever will be read of them.                                    *)
Elements ==
  IF AvailableLen \div SIZE > PROTOCOL_SIZE THEN PROTOCOL_SIZE ELSE AvailableLen \div SIZE

Subtract ==
  /\ MainStep("subtract", "open")
  /\ Loaded
  /\ count' = Elements
  /\ len' = Elements * SIZE
  /\ w' = NULL /\ r' = NULL /\ straight' = FALSE
  /\ UNCHANGED <<fifo, read_flag, interrupt, bytes, last, cut, raced>>

(* circular_fifo_read sets the flag, ... *)
ReadOpen ==
  /\ MainStep("open", "read")
  /\ read_flag' = TRUE
  /\ UNCHANGED <<fifo, interrupt, loads, response, last, cut, raced>>

(* Mutant: the buffer is taken to be one byte shorter. *)
TakeByteMut ==
  /\ read_pos' = (read_pos + 1) % buf_size
  /\ bytes' = Append(bytes, p_buf[read_pos])
  /\ last' = p_buf[read_pos]

TakeByte ==
  /\ read_pos' = Succ(read_pos)
  /\ bytes' = Append(bytes, p_buf[read_pos])
  /\ last' = p_buf[read_pos]

(* ... gets byte after byte, ... *)
Get ==
  /\ MainStep("read", "read")
  /\ len > 0
  /\ read_pos # write_pos
  /\ TakeByte
  /\ len' = len - 1
  /\ UNCHANGED <<p_buf, write_pos, read_flag, interrupt, loads, count, cut, raced>>

(* ... and resets the flag when it has enough or there are no more. *)
ReadClose ==
  /\ MainStep("read", "respond")
  /\ len = 0 \/ read_pos = write_pos
  /\ read_flag' = FALSE
  /\ UNCHANGED <<fifo, interrupt, loads, response, last, cut, raced>>

(* The response is queued, and the handler schedules itself again. *)
Respond ==
  /\ MainStep("respond", "idle")
  /\ UNCHANGED <<fifo, read_flag, interrupt, loads, response, last, cut, raced>>

Next ==
  \/ PutRefused \/ Put
  \/ StreamHandler \/ LoadWritePos \/ LoadReadPos \/ Compare \/ Subtract
  \/ ReadOpen \/ Get \/ ReadClose \/ Respond

Spec == Init /\ [][Next]_vars
-----------------------------------------------------------------------------
(* Properties. *)

Steps == {"idle", "compare", "subtract", "open", "read", "respond"}

TypeOK ==
  /\ p_buf \in [Positions -> Int]
  /\ read_pos \in Positions /\ write_pos \in Positions
  /\ read_flag \in BOOLEAN
  /\ sampled \in Nat /\ left \in 0 .. SIZE - 1 /\ kept \in BOOLEAN
  /\ pc \in Steps
  /\ w \in Positions \cup {NULL} /\ r \in Positions \cup {NULL}
  /\ straight \in BOOLEAN
  /\ count \in 0 .. PROTOCOL_SIZE /\ len \in Nat /\ bytes \in Seq(Int)
  /\ last \in Int
  /\ cut \in BOOLEAN /\ raced \in BOOLEAN

(* How far behind read_pos a position is, and which of them hold a byte.   *)
Offset(p) == IF p >= read_pos THEN p - read_pos ELSE p + buf_size + 1 - read_pos
Occupied == {p \in Positions : Offset(p) < Offset(write_pos)}

(* The bytes in the FIFO are in the order they were sampled in, and all of *)
(* them are newer than the ones that were read: no byte is read twice or   *)
(* out of order, however circular_fifo_put overtakes circular_fifo_get.    *)
InOrder ==
  /\ \A p, q \in Occupied : Offset(p) < Offset(q) => p_buf[p] < p_buf[q]
  /\ \A p \in Occupied : last < p_buf[p] /\ p_buf[p] < sampled

(* The bytes of a response are whole elements, as long as no element was   *)
(* cut by a circular_fifo_put that found room for a part of it while the   *)
(* main loop was reading.                                                  *)
WholeElements ==
  ~cut /\ pc = "respond" =>
    /\ Len(bytes) % SIZE = 0
    /\ \A i \in DOMAIN bytes :
         /\ bytes[i] % SIZE = (i - 1) % SIZE
         /\ (i - 1) % SIZE # 0 => bytes[i] = bytes[i - 1] + 1

(* A response has as many elements as its count says, as long as no        *)
(* position jumped in circular_fifo_get_size: the handler ignores what     *)
(* circular_fifo_read says it has read.                                    *)
CountHonest == ~raced /\ pc = "respond" => Len(bytes) = count * SIZE
=============================================================================
