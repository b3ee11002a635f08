---------------------------- MODULE ScanSampling ----------------------------
(***************************************************************************)
(* The scan pipeline: the repeated sampling_scan_timer starts a scan of    *)
(* the radio (scanner_lib.c, ble_lib.c), its reports are aggregated in the *)
(* chunk that is open (sampling_lib.c), the radio's timeout closes the     *)
(* chunk, and the processing handler sorts, cuts and stores it             *)
(* (processing_lib.c).                                                     *)
(*                                                                         *)
(* The callbacks of the timers, the timeouts and the radio run at one      *)
(* interrupt priority, each is one step.  Requests and the processing      *)
(* handler are run by the main loop, which only gets on when no interrupt  *)
(* of the radio is pending; a request is split where an interrupt that     *)
(* comes inside it can tell.                                               *)
(*                                                                         *)
(* A report stands for one that is strong enough, is of a known kind and   *)
(* has the group that is asked for: any other changes nothing.  Reports    *)
(* for the stream go to a FIFO of their own (CircularFifo).                *)
(***************************************************************************)
EXTENDS Integers, Sequences, SequencesExt, FiniteSets

CONSTANTS
  Badges, Beacons,                \* devices with an ID below and from 16000 on
  Rssi,                           \* bound: the signal strengths, int8_t
  SCAN_SAMPLING_CHUNK_DATA_SIZE,  \* devices in a chunk that is sampled
  SCAN_CHUNK_DATA_SIZE,           \* devices in a chunk that is stored
  SCAN_PRIORITIZED_BEACONS,
  MaxCount,                       \* reports counted of a device (255)
  MaxEvents                       \* bound: requests, timeouts, scans and reports together

(* A strength is an int8_t.  The chunk that is stored has room for the     *)
(* prioritized beacons (4 of 29 devices).                                 *)
ASSUME ScanAssumption ==
  /\ Rssi \subseteq -128 .. 127
  /\ SCAN_SAMPLING_CHUNK_DATA_SIZE \in Nat
  /\ SCAN_CHUNK_DATA_SIZE \in Nat
  /\ SCAN_PRIORITIZED_BEACONS \in 0 .. SCAN_CHUNK_DATA_SIZE
  /\ MaxCount \in Nat \ {0}

NULL == -1
Slots == 0 .. 1   \* scan_sampling_chunk_fifo has chunk_num = 1
Users == {"sampling", "streaming"}
Empty == [data |-> << >>, mixed |-> FALSE]
Unused == [i \in 1 .. SCAN_SAMPLING_CHUNK_DATA_SIZE |-> 0]

VARIABLES
  sampling, streaming,   \* SAMPLING_SCAN, STREAMING_SCAN of sampling_configuration
  aggregation,           \* scan_aggregation_type
  timer,                 \* sampling_scan_timer runs
  scanning,              \* the radio scans
  timed_out,             \* the radio's timeout event waits for its interrupt
  read_pos, write_pos, open_write, slots,   \* scan_sampling_chunk_fifo
  chunk,                 \* scan_sampling_chunk
  aggregated,            \* scan_aggregated_rssi
  scheduled,             \* the processing handler is in the scheduler's queue
  pc,                    \* where the main loop is, in a request or the processing handler
  user, on, other,       \* a request: for whom, start or stop, the other's bit as loaded
  scan_chunk,            \* what the processing handler stores
  seen,                  \* the chunk as it was sampled
  fault,                 \* a report went through a NULL pointer
  late,                  \* SAMPLING_SCAN was switched on in the middle of a scan
  overrun,               \* a scan began before the last one's timeout was served
  failed,                \* the timer could not be started
  raced,                 \* a timeout came inside a request, which nothing has put right
  events

config == <<sampling, streaming, aggregation, timer, failed, raced>>
call == <<user, on, other>>
radio == <<scanning, timed_out>>
fifo == <<read_pos, write_pos, open_write, slots>>
sampler == <<chunk, aggregated, fault, late, overrun>>
process == <<pc, scan_chunk, seen>>
vars == <<config, call, radio, fifo, sampler, scheduled, process, events>>

Uses(u) == IF u = "sampling" THEN sampling ELSE streaming
Other(u) == IF u = "sampling" THEN "streaming" ELSE "sampling"

Init ==
  /\ sampling = FALSE /\ streaming = FALSE /\ aggregation = "MAX" /\ timer = FALSE
  /\ scanning = FALSE /\ timed_out = FALSE
  /\ read_pos = 0 /\ write_pos = 0 /\ open_write = FALSE
  /\ slots = [s \in Slots |-> Empty]
  /\ chunk = NULL /\ aggregated = Unused
  /\ scheduled = FALSE
  /\ pc = "idle" /\ scan_chunk = << >> /\ seen = << >>
  /\ fault = FALSE /\ late = FALSE /\ overrun = FALSE /\ failed = FALSE
  /\ raced = FALSE /\ user = "sampling" /\ on = FALSE /\ other = FALSE
  /\ events = 0
-----------------------------------------------------------------------------
(* Sampling. *)

Min2(a, b) == IF a < b THEN a ELSE b
Max2(a, b) == IF a > b THEN a ELSE b

(* (int8_t) *)
Int8(x) == ((x + 128) % 256) - 128

(* The division of C, which truncates towards zero. *)
Quotient(x, n) == IF x < 0 THEN -((-x) \div n) ELSE x \div n

(* AGGREGATE_SCAN_SAMPLE_MAX, AGGREGATE_SCAN_SAMPLE_MEAN *)
Aggregate(old, rssi) == IF aggregation = "MAX" THEN Max2(old, rssi) ELSE old + rssi

(* Mutant: the sum is cast before it is divided. *)
AggregateResultMut(agg, count) ==
  IF aggregation = "MAX" THEN Int8(agg) ELSE Quotient(Int8(agg), count)

(* PROCESS_SCAN_SAMPLE_MAX, PROCESS_SCAN_SAMPLE_MEAN *)
AggregateResult(agg, count) ==
  Int8(IF aggregation = "MAX" THEN agg ELSE Quotient(agg, count))

(* What is known of a device; lo and hi are the extremes that were         *)
(* reported of it.                                                         *)
Device(id, rssi) == [id |-> id, count |-> 1, rssi |-> 0, lo |-> rssi, hi |-> rssi]

(* Mutant: the chunk is the first one for ever. *)
SetupChunkMut ==
  /\ chunk' = IF chunk = NULL THEN write_pos ELSE chunk
  /\ slots' = [slots EXCEPT ![chunk'] = Empty]
  /\ aggregated' = Unused

(* sampling_setup_scan_sampling_chunk: chunk_fifo_write_open, and no       *)
(* device is known.  An aggregate is written before it is used.            *)
SetupChunk ==
  /\ chunk' = write_pos
  /\ slots' = [slots EXCEPT ![write_pos] = Empty]
  /\ aggregated' = Unused

(* chunk_fifo_write_close *)
Closed(w, open) == IF open /\ (w + 1) % 2 # read_pos THEN (w + 1) % 2 ELSE w

Finalized(c) ==
  [c EXCEPT !.data = [i \in DOMAIN @ |->
     [c.data[i] EXCEPT !.rssi = AggregateResult(aggregated[i], c.data[i].count)]]]

(* sampling_finalize_scan_sampling_chunk *)
FinalizeChunk ==
  IF chunk = NULL
    THEN fault' = TRUE /\ UNCHANGED <<fifo, scheduled>>
    ELSE /\ slots' = [slots EXCEPT ![chunk] = Finalized(@)]
         /\ write_pos' = Closed(write_pos, open_write)
         /\ open_write' = FALSE
         /\ scheduled' = TRUE
         /\ UNCHANGED <<read_pos, fault>>

(* sampling_scan_callback: the scan is started, ... *)
ScanStarts ==
  /\ ~fault
  /\ timer
  /\ events < MaxEvents
  /\ events' = events + 1
  /\ open_write' = (open_write \/ sampling)
  /\ IF sampling THEN SetupChunk ELSE UNCHANGED <<slots, chunk, aggregated>>
  /\ overrun' = (overrun \/ timed_out)
  /\ scanning' = TRUE
  /\ UNCHANGED <<config, call, timed_out, read_pos, write_pos, scheduled, process,
                 fault, late>>

(* ... or the radio refuses, and the chunk is closed at once.              *)
ScanRefused ==
  /\ ~fault
  /\ timer
  /\ events < MaxEvents
  /\ events' = events + 1
  /\ overrun' = (overrun \/ timed_out)
  /\ scanning' = FALSE
  /\ IF sampling
       THEN /\ SetupChunk
            /\ write_pos' = Closed(write_pos, TRUE)
            /\ open_write' = FALSE
            /\ scheduled' = TRUE
       ELSE UNCHANGED <<slots, chunk, aggregated, write_pos, open_write, scheduled>>
  /\ UNCHANGED <<config, call, timed_out, read_pos, process, fault, late>>

(* The radio's scan is over. *)
ScanExpires ==
  /\ ~fault
  /\ scanning
  /\ scanning' = FALSE
  /\ timed_out' = TRUE
  /\ UNCHANGED <<config, call, fifo, sampler, scheduled, process, events>>

(* sampling_on_scan_timeout_callback *)
OnScanTimeout ==
  /\ ~fault
  /\ timed_out
  /\ timed_out' = FALSE
  /\ IF sampling THEN FinalizeChunk ELSE UNCHANGED <<fifo, scheduled, fault>>
  /\ UNCHANGED <<config, call, scanning, chunk, aggregated, late, overrun, process, events>>

(* The chunk after a report on a device that is in it, and on another.     *)
Heard(d, rssi) ==
  [d EXCEPT !.count = Min2(@ + 1, MaxCount), !.lo = Min2(@, rssi), !.hi = Max2(@, rssi)]
Counted(c, i, rssi) == [c EXCEPT !.data[i] = Heard(@, rssi)]
Added(c, id, rssi) == [c EXCEPT !.data = Append(@, Device(id, rssi))]

(* Mutant: off by one. *)
HasRoomMut(c) == Len(c.data) <= SCAN_SAMPLING_CHUNK_DATA_SIZE

HasRoom(c) == Len(c.data) < SCAN_SAMPLING_CHUNK_DATA_SIZE

(* sampling_on_scan_report_callback while SAMPLING_SCAN is set *)
Report(id, rssi) ==
  /\ ~fault
  /\ scanning
  /\ sampling
  /\ events < MaxEvents
  /\ events' = events + 1
  /\ IF chunk = NULL
       THEN fault' = TRUE /\ UNCHANGED <<slots, aggregated>>
       ELSE LET c     == slots[chunk]
                known == {i \in DOMAIN c.data : c.data[i].id = id}
            IN  /\ UNCHANGED fault
                /\ \/ \E i \in known :
                        /\ slots' = [slots EXCEPT ![chunk] = Counted(c, i, rssi)]
                        /\ aggregated' =
                             IF c.data[i].count < MaxCount
                               THEN [aggregated EXCEPT ![i] = Aggregate(@, rssi)]
                               ELSE aggregated
                   \/ /\ known = {}
                      /\ HasRoom(c)
                      /\ slots' = [slots EXCEPT ![chunk] = Added(c, id, rssi)]
                      /\ aggregated' = [aggregated EXCEPT ![Len(c.data) + 1] = rssi]
                   \/ /\ known = {}
                      /\ ~HasRoom(c)
                      /\ UNCHANGED <<slots, aggregated>>
  /\ UNCHANGED <<config, call, radio, read_pos, write_pos, open_write, chunk, late, overrun,
                 scheduled, process>>
-----------------------------------------------------------------------------
(* Requests. *)

(* A request is handled by the main loop. *)
MainLoop == ~fault /\ pc = "idle" /\ ~timed_out /\ events < MaxEvents

(* The main loop goes on with a request. *)
At(step) == ~fault /\ pc = step /\ ~timed_out

Return == pc' = "idle" /\ user' = "sampling" /\ on' = FALSE /\ other' = FALSE

Requesting == pc \in {"stop", "start", "radio", "load", "write"}

(* A change of the aggregation hits the chunk that is being sampled.       *)
Aggregation(type) ==
  /\ aggregation' = type
  /\ slots' = IF chunk # NULL /\ open_write /\ type # aggregation
                   /\ slots[chunk].data # << >>
                THEN [slots EXCEPT ![chunk].mixed = TRUE] ELSE slots

(* sampling_start_scan for a user: the parameters are stored, and the      *)
(* timer is started again unless it runs for the sampling already and no   *)
(* parameter changed.  In that case a request to sample is ignored.        *)
StartScan(u, type, changed) ==
  /\ MainLoop
  /\ type # aggregation => changed
  /\ ~sampling \/ changed
  /\ Aggregation(type)
  /\ user' = u /\ on' = TRUE
  /\ pc' = "stop"
  /\ events' = events + 1
  /\ UNCHANGED <<sampling, streaming, timer, failed, raced, other, radio, read_pos, write_pos,
                 open_write, sampler, scheduled, scan_chunk, seen>>

(* ... and a stream joins the sampling. *)
JoinSampling ==
  /\ MainLoop
  /\ sampling
  /\ user' = "streaming" /\ on' = TRUE
  /\ pc' = "load"
  /\ events' = events + 1
  /\ UNCHANGED <<config, other, radio, fifo, sampler, scheduled, scan_chunk, seen>>

(* sampling_stop_scan for a user: timer and radio are left to the other.   *)
StopScan(u) ==
  /\ MainLoop
  /\ user' = u /\ on' = FALSE
  /\ pc' = IF Uses(Other(u)) THEN "load" ELSE "stop"
  /\ events' = events + 1
  /\ UNCHANGED <<config, other, radio, fifo, sampler, scheduled, scan_chunk, seen>>

(* app_timer_stop *)
StopTimer ==
  /\ At("stop")
  /\ timer' = FALSE
  /\ pc' = IF on THEN "start" ELSE "radio"
  /\ UNCHANGED <<sampling, streaming, aggregation, failed, raced, call, radio, fifo, sampler,
                 scheduled, scan_chunk, seen, events>>

(* app_timer_start.  Whatever a timeout took from the user is given back.  *)
StartTimer ==
  /\ At("start")
  /\ timer' = TRUE
  /\ failed' = FALSE /\ raced' = FALSE
  /\ pc' = "load"
  /\ UNCHANGED <<sampling, streaming, aggregation, call, radio, fifo, sampler, scheduled,
                 scan_chunk, seen, events>>

(* app_timer_start fails: the parameters are changed, and the sampling     *)
(* that went on has no timer.                                              *)
StartFails ==
  /\ At("start")
  /\ failed' = TRUE
  /\ Return
  /\ UNCHANGED <<sampling, streaming, aggregation, timer, raced, radio, fifo, sampler,
                 scheduled, scan_chunk, seen, events>>

(* scanner_stop_scanning *)
StopRadio ==
  /\ At("radio")
  /\ scanning' = FALSE
  /\ raced' = FALSE
  /\ pc' = "load"
  /\ UNCHANGED <<sampling, streaming, aggregation, timer, failed, call, timed_out, fifo,
                 sampler, scheduled, scan_chunk, seen, events>>

(* sampling_configuration is loaded, ... *)
LoadConfiguration ==
  /\ At("load")
  /\ other' = Uses(Other(user))
  /\ pc' = "write"
  /\ UNCHANGED <<config, user, on, radio, fifo, sampler, scheduled, scan_chunk, seen, events>>

(* ... and written back with the bit of the user set or cleared.           *)
WriteConfiguration ==
  /\ At("write")
  /\ sampling' = IF user = "sampling" THEN on ELSE other
  /\ streaming' = IF user = "sampling" THEN other ELSE on
  /\ late' = (late \/ (~sampling /\ sampling' /\ scanning))
  /\ Return
  /\ UNCHANGED <<aggregation, timer, failed, raced, radio, fifo, chunk, aggregated, fault,
                 overrun, scheduled, scan_chunk, seen, events>>

(* Mutant: the other user of the radio is not looked at. *)
StopScannerMut(u) == timer' = FALSE /\ scanning' = FALSE

StopScanner(u) ==
  IF Uses(Other(u)) THEN UNCHANGED <<timer, scanning>> ELSE timer' = FALSE /\ scanning' = FALSE

(* The timeout of a user: the whole of sampling_stop_scan, in an           *)
(* interrupt, also inside a request.                                       *)
Timeout(u) ==
  /\ ~fault
  /\ events < MaxEvents
  /\ StopScanner(u)
  /\ sampling' = (sampling /\ u # "sampling")
  /\ streaming' = (streaming /\ u # "streaming")
  /\ raced' = (raced \/ Requesting)
  /\ events' = events + 1
  /\ UNCHANGED <<aggregation, failed, call, timed_out, fifo, sampler, scheduled, process>>
-----------------------------------------------------------------------------
(* Processing. *)

IsBeacon(d) == d.id \in Beacons
NumBeacons(data) == Cardinality({i \in DOMAIN data : IsBeacon(data[i])})

(* qsort: some order of the n devices behind the first ones that is        *)
(* sorted; nothing is said about devices that compare equal.               *)
Qsort(data, first, n, Before(_, _)) ==
  LET range == first + 1 .. first + n
      Arranged(p) == [i \in DOMAIN data |-> IF i \in range THEN data[p[i]] ELSE data[i]]
      Sorted(q) == \A i, j \in range : i < j => ~Before(q[j], q[i])
  IN  {q \in {Arranged(p) : p \in Bijection(range, range)} : Sorted(q)}

(* compare_by_beacon, compare_by_RSSI *)
ByBeacon(a, b) == IsBeacon(a) /\ ~IsBeacon(b)
ByRSSI(a, b) == a.rssi > b.rssi

QsortByBeacon(data, first, n) == Qsort(data, first, n, ByBeacon)
QsortByRSSI(data, first, n) == Qsort(data, first, n, ByRSSI)

(* Mutant: the beacons are not sorted by themselves. *)
SortScanMut(data) ==
  LET n == NumBeacons(data)
  IN  UNION {QsortByRSSI(q, Min2(n, SCAN_PRIORITIZED_BEACONS), Len(data) - n)
               : q \in QsortByBeacon(data, 0, Len(data))}

(* sort_scan.  The last sort covers as many devices as there are badges,   *)
(* from the prioritized beacons on.                                        *)
SortScan(data) ==
  LET n == NumBeacons(data)
      Split == QsortByBeacon(data, 0, Len(data))
      Ranked == UNION {QsortByRSSI(q, 0, n) : q \in Split}
  IN  UNION {QsortByRSSI(q, Min2(n, SCAN_PRIORITIZED_BEACONS), Len(data) - n) : q \in Ranked}

Cut(data) == SubSeq(data, 1, SCAN_CHUNK_DATA_SIZE)

(* processing_process_scan_sampling_chunk up to storer_store_scan_chunk *)
ProcessChunk ==
  /\ ~fault
  /\ ~timed_out
  /\ pc = "loop" \/ (pc = "idle" /\ scheduled)
  /\ scheduled' = IF pc = "idle" THEN FALSE ELSE scheduled
  /\ IF read_pos = write_pos
       THEN pc' = "idle" /\ UNCHANGED <<slots, scan_chunk, seen>>
       ELSE \E data \in {slots[read_pos].data} :
              /\ seen' = data
              /\ IF Len(data) > SCAN_CHUNK_DATA_SIZE
                   THEN \E q \in SortScan(data) : scan_chunk' = Cut(q)
                   ELSE scan_chunk' = data
              /\ slots' = [slots EXCEPT ![read_pos].data = scan_chunk']
              /\ pc' = "store"
  /\ UNCHANGED <<config, call, radio, read_pos, write_pos, open_write, sampler, events>>

(* Mutant: after an error the handler is not scheduled again. *)
StoreBusyMut ==
  /\ ~fault
  /\ ~timed_out
  /\ pc = "store"
  /\ pc' = "idle"
  /\ scan_chunk' = << >> /\ seen' = << >>
  /\ UNCHANGED <<config, call, radio, fifo, sampler, scheduled, events>>

(* The store fails with NRF_ERROR_INTERNAL: the chunk stays where it is. *)
StoreBusy ==
  /\ ~fault
  /\ ~timed_out
  /\ pc = "store"
  /\ scheduled' = TRUE
  /\ pc' = "idle"
  /\ scan_chunk' = << >> /\ seen' = << >>
  /\ UNCHANGED <<config, call, radio, fifo, sampler, events>>

(* Otherwise it is done with: chunk_fifo_read_close. *)
StoreDone ==
  /\ ~fault
  /\ ~timed_out
  /\ pc = "store"
  /\ read_pos' = IF read_pos = write_pos THEN read_pos ELSE (read_pos + 1) % 2
  /\ pc' = "loop"
  /\ scan_chunk' = << >> /\ seen' = << >>
  /\ UNCHANGED <<config, call, radio, write_pos, open_write, slots, sampler, scheduled, events>>

Next ==
  \/ \E u \in Users, type \in {"MAX", "MEAN"}, changed \in BOOLEAN : StartScan(u, type, changed)
  \/ \E u \in Users : StopScan(u) \/ Timeout(u)
  \/ JoinSampling
  \/ StopTimer \/ StartTimer \/ StartFails \/ StopRadio
  \/ LoadConfiguration \/ WriteConfiguration
  \/ ScanStarts \/ ScanRefused \/ ScanExpires \/ OnScanTimeout
  \/ \E id \in Badges \cup Beacons, rssi \in Rssi : Report(id, rssi)
  \/ ProcessChunk \/ StoreBusy \/ StoreDone

Spec == Init /\ [][Next]_vars
-----------------------------------------------------------------------------
(* Properties. *)

TypeOK ==
  /\ {sampling, streaming, timer, scanning, timed_out, open_write, scheduled} \subseteq BOOLEAN
  /\ {fault, late, overrun, failed, raced, on, other} \subseteq BOOLEAN
  /\ user \in Users
  /\ aggregation \in {"MAX", "MEAN"}
  /\ read_pos \in Slots /\ write_pos \in Slots /\ chunk \in Slots \cup {NULL}
  /\ \A s \in Slots : /\ Len(slots[s].data) <= SCAN_SAMPLING_CHUNK_DATA_SIZE
                      /\ \A d \in ToSet(slots[s].data) : d.rssi \in -128 .. 127
  /\ pc \in {"idle", "loop", "store", "stop", "start", "radio", "load", "write"}
  /\ Len(scan_chunk) <= SCAN_CHUNK_DATA_SIZE

(* Reports are sampled into a chunk that is open for writing, and no       *)
(* pointer is NULL (sampling_on_scan_report_callback,                      *)
(* sampling_on_scan_timeout_callback), unless SAMPLING_SCAN was switched   *)
(* on in the middle of a scan of the stream, or the timer started a scan   *)
(* before the timeout of the last one was served.                          *)
OwnChunk ==
  ~late /\ ~overrun =>
    /\ ~fault
    /\ sampling /\ (scanning \/ timed_out) => open_write /\ chunk = write_pos

(* The strength stored for a device lies between the weakest and the       *)
(* strongest of its reports in the scan, for the maximum and for the mean, *)
(* if the aggregation was not changed in between                           *)
(* (sampling_finalize_scan_sampling_chunk).                                *)
RssiInRange ==
  ~late /\ ~overrun =>
    \A s \in Slots : s # write_pos /\ ~slots[s].mixed =>
      \A d \in ToSet(slots[s].data) : d.lo <= d.rssi /\ d.rssi <= d.hi

(* Between two requests whoever samples or streams has the timer running,  *)
(* and nobody else has the radio on (sampling_start_scan,                  *)
(* sampling_stop_scan), unless the timer could not be started; and unless  *)
(* a timeout came inside a request, between the test of                    *)
(* sampling_configuration and its write, until a request starts the timer  *)
(* or stops the radio again.                                               *)
ScannerFollows ==
  ~Requesting /\ ~raced =>
    /\ ~sampling /\ ~streaming => ~timer /\ ~scanning
    /\ (sampling \/ streaming) /\ ~failed => timer

(* A chunk that was closed is on its way: the processing handler runs or   *)
(* is scheduled (processing_process_scan_sampling_chunk reschedules itself *)
(* when the storage is busy).                                              *)
ChunkOnItsWay == read_pos # write_pos => scheduled \/ pc \in {"loop", "store"}

(* A chunk with too many devices is cut to the important ones (sort_scan): *)
(* no beacon that is left out is stronger than any device that is kept,    *)
(* and as many beacons as are prioritized are kept before it.  If there    *)
(* are no more beacons than that, no badge that is left out is stronger    *)
(* than a badge that is kept; if there are, the last sort ends before the  *)
(* last badges, and it may be.                                             *)
ImportantKept ==
  pc = "store" =>
    LET out == ToSet(seen) \ ToSet(scan_chunk)
    IN  /\ ToSet(scan_chunk) \subseteq ToSet(seen)
        /\ Len(scan_chunk) = Min2(Len(seen), SCAN_CHUNK_DATA_SIZE)
        /\ Cardinality({d.id : d \in ToSet(scan_chunk)}) = Len(scan_chunk)
        /\ \A d \in out : IsBeacon(d) =>
             /\ \A e \in ToSet(scan_chunk) : e.rssi >= d.rssi
             /\ Cardinality({e \in ToSet(scan_chunk) : IsBeacon(e)}) >= SCAN_PRIORITIZED_BEACONS
        /\ NumBeacons(seen) <= SCAN_PRIORITIZED_BEACONS =>
             \A d \in out, e \in ToSet(scan_chunk) : ~IsBeacon(e) => e.rssi >= d.rssi
=============================================================================
