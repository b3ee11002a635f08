# A TLA+ development of the OpenBadge firmware

OpenBadge is firmware for a wearable badge (nRF51/nRF52): it samples a
microphone, an accelerometer, the battery and nearby badges, keeps the samples
in flash and EEPROM, and hands them to a hub over Bluetooth. This directory
models the parts of `firmware/nRF_badge/data_collector` in which samples or
requests could get lost, be altered or be waited for in vain. `PROJECT.json`
names, for every definition, the lines it stands for; `src/...` below is the
repository, and file names without a directory are under
`src/firmware/nRF_badge/data_collector/incl/`.

## 1. Inventory

All code runs in two contexts: *interrupts* (radio events, timers, which do not
preempt each other) and the *main loop* (`main.c`: `app_sched_execute()` for
ever), which runs queued handlers one after the other and which an interrupt
may preempt anywhere outside a critical region.

| component | state | operations | talks to |
|---|---|---|---|
| chunk FIFO (`chunk_fifo_lib.c`) | ring of chunks, two positions, two open flags | write_open/close, read_open/close | written by sampling (interrupt), read by processing (main loop) |
| sampling (`sampling_lib.c`) | configuration bits, the open chunks, stream FIFOs | start/stop per sensor, timer callbacks, timeouts | chunk FIFOs, circular FIFOs, scanner, timeouts |
| scanner (`scanner_lib.c`) | scan running, callbacks | start, stop, reports | sampling |
| processing (`processing_lib.c`) | - | one handler per kind: read a chunk, store it, come back when busy; sort scans | chunk FIFO, storer |
| storer (`storer_lib.c`) | partition ids | store, find by timestamp, get next, badge assignment | filesystem |
| filesystem (`filesystem_lib.c`) | partitions (metadata, first header, latest element), one iterator each, swap page | register, store, clear, iterator init/next/previous/read/invalidate | storage |
| storage (`storage_lib.c`, `storage1_lib.c`, `storage2_lib.c`) | addresses stored since the last erase | store, read, clear | flash and EEPROM drivers |
| flash/EEPROM drivers (`flash_lib.c`, `eeprom_lib.c`, `spi_lib.c`) | operation and error flags | erase, store, read, completion events | SoftDevice events |
| request handler (`request_handler_lib_02v1.c`) | notification FIFO, two "processing" flags, one global request and response, streaming flag | receive, process, one handler per request and response type, send with retries, error | sender, storer, sampling, scheduler |
| sender (`sender_lib.c`) | RX and TX FIFO, connected, transmitting | callbacks of the radio, await, transmit, disconnect timeout | BLE, request handler |
| timeouts (`timeout_lib.c`) | table of timeouts sharing one timer | register, start, stop, reset, callback | sampling, sender |
| circular FIFO (`circular_fifo_lib.c`) | ring of bytes that overwrites the oldest | put, get, read, write, flush | sampling (interrupt), stream responses (main loop) |
| systick (`systick_lib.c`) | accumulated 24-bit ticks, clock offset | callback, get, set | everyone |

What is hard here, and hard to test:

* **Preemption.** Sampling and the radio interrupt the handlers that use the
  same FIFOs and flags.
* **Power failures.** A badge runs from a coin cell; every device operation of
  a store may be the last before the next start.
* **Flags and queued handlers.** The request handler has no threads but a queue
  of handlers and a few global flags; errors reset the flags while handlers
  stay queued, and connections come and go meanwhile.
* **Waiting.** Handlers that cannot go on put themselves at the back of the
  queue. Somebody must clear what they wait for.
* **Boundaries.** Full FIFOs, record-ids that wrap, elements that end exactly
  at the end of a page or of the partition.

`hazards` in `PROJECT.json` lists each of these at its line, with the properties
that watch it, or the reason why none does yet.

What makes each part correct: the chunk FIFO delivers every chunk it accepted,
once, unaltered and in order; the filesystem gives back what was stored until it
is overwritten, and nothing else, over any number of restarts; the storer hands
out every chunk since a timestamp, in order, while storing goes on; the request
handler serves or refuses every request, never waits for something nobody
does, and releases what it holds; a clock is set from the request's own arrival;
a timeout is neither early nor late, whoever else uses the timer; a scan's
reports go to the chunk of that scan, and the devices that matter most are kept;
a stream's bytes come in order and in whole elements.

## 2. Modules

| module | models | kind |
|---|---|---|
| `ChunkQueue` | what a chunk FIFO promises: a bounded queue that refuses the newest | abstract specification |
| `ChunkFifo` | `chunk_fifo_lib.c`, its writer in `sampling_lib.c`, its reader in `processing_lib.c` | component; refines `ChunkQueue` |
| `ChunkFifoProofs` | theorems about `ChunkFifo` | proofs |
| `Filesystem` | `filesystem_lib.c` over `storage_lib.c`/`storage1_lib.c` | component |
| `Storer` | `storer_lib.c` over `Filesystem`: a reader that searches by timestamp and takes chunk by chunk | composition; extends `Filesystem` |
| `FilesystemProofs` | theorems about `Filesystem` and `Storer`: types, the partition in the EEPROM | proofs; extends `Storer` |
| `FilesystemFaultProofs` | theorems about `Filesystem` and `Storer`: one fault on any device | proofs; extends `FilesystemProofs` |
| `RequestHandler` | `request_handler_lib_02v1.c` composed with `sender_lib.c`, the scheduler and a client | composition |
| `RequestHandlerProofs` | theorems about `RequestHandler`: types, owners of the flags | proofs |
| `RequestQueueProofs` | theorems about `RequestHandler`: the length of the scheduler's queue | proofs; extends `RequestHandlerProofs` |
| `Timeout` | `timeout_lib.c`, with the sampling and sender code that starts and resets timeouts | component |
| `TimeoutProofs` | theorems about `Timeout` | proofs |
| `ScanSampling` | the scan pipeline: `sampling_lib.c`, `scanner_lib.c`, `ble_lib.c`, `processing_lib.c` | composition |
| `ScanSamplingProofs` | theorems about `ScanSampling`: its control, and what is in the chunks | proofs |
| `CircularFifo` | `circular_fifo_lib.c`, its writer in `sampling_lib.c`, the stream handler of `request_handler_lib_02v1.c` | component |
| `CircularFifoProofs` | theorems about `CircularFifo` | proofs |
| `MCChunkFifo`, `MCFilesystem`, `MCStorer`, `MCRequestHandler`, `MCTimeout`, `MCScanSampling`, `MCCircularFifo` | instances for TLC | |

A definition named `...Mut`, or named for what it leaves out
(`FinishErrorKeepsFlag`), is a mutant: the definition after it with a plausible
bug. Nothing uses it; it exists to show that a property notices.

### ChunkFifo

The variables are the fields of `chunk_fifo_t`, the buffer, and the pointers
handed out to the sampling code (`w_chunk`) and the processing code
(`r_chunk`). A chunk's contents are 0 while it is filled and the number of its
completing sample afterwards, which tells chunks apart, complete ones from
incomplete ones, and gives their order.

The writer runs in interrupt context, so each of its calls is one action. The
reader is interrupted: `read_close` is split where it has cleared its flag and
not yet moved the position, and `ReadOpen` records what lies behind the pointer
so that a later change is noticed. `ReadAbort` is the handler's return when the
storage is busy, with the chunk still open. A chunk is filled only while it is
open, which holds for the accelerometer, battery and microphone; the scan
pipeline differs and has a module of its own.

### Filesystem

One partition. The disk is a function from addresses to cells, where a cell is
one header field, one metadata field or one unit of data. A library call is an
operator on the library's state that lists the *device operations* it performs.
`Store`, `Register` and `Clear` take the whole list; `StoreCrash`,
`RegisterCrash` and `ClearCrash` take a prefix, forget the RAM and turn the
badge off; `StoreFails` takes a prefix and returns an error, keeping the RAM as
it is at that point. On EEPROM (`UnitSize = 1`) a device operation writes one
cell. On flash a page is backed up in RAM, erased and written back, and cells
are only programmed after an erase (programming a used cell gives `Junk`).

The ghost variables are the elements whose store returned success
(`stored`, with header and place), the attempts so far, and the headers that
unfinished stores left on the storage, whole or in part (`left`).

### RequestHandler

`badge` is the firmware: the scheduler's queue, the FIFOs, the flags, the
streaming state, the iterators and the two globals `request` and `response`;
`client` is the other end of the link. `badge.pc` tells where the running
handler waits: between the empty peek and the flush of the notification FIFO,
in `sender_await_data` for a header or a body, or in `sender_transmit` for
room. Interrupts happen there and between handlers; the stretches in between
touch shared state once, or share only flags that interrupts do not look at.

A request is a header cell and a body cell, sent in one packet or in two; a
response is one unit of `tx`. What a handler's callee answers (`ok`, `empty`,
`busy`, `error`) is chosen freely among what the code distinguishes. A start
request whose parameters `app_timer_start` does not accept is a type of its own
(`rejected`): the handler puts it back like one that found sampling busy
(`request_handler_lib_02v1.c:1023-1026`), but its answer never changes. The five
kinds of data and their copies of the handlers differ in nothing but names and
are one handler with a parameter.

### Storer

`Storer` adds the reader to `Filesystem`: `found_timestamp` is the flag
`storer_lib.c` keeps between the search and the first `get_next`.
`FindChunk` folds the search loop (back from the latest chunk to the first that
is older, then one forward), `GetNextChunk` the loop that passes over chunks
whose data is not valid; each call of the library is one action, since both
users of the partition are run by the scheduler. `Stamp` gives the chunks'
timestamps and need not be increasing: the hub may set the clock back. The
ghosts `from` and `got` say what the reading is about and what it got.

### Timeout

The variables are the fields of `registered_timeouts`, `timeout_timer_running`
and the app-timer. `timeout_start` and `timeout_reset` of the main loop take a
step per access, because no critical region protects them: `Look`, `StopTimer`,
`ReadClock`, `ReadDelta`; in the loop of `adapt_remaining_ms` `AdaptOne` (is it
active), `Check` (line 90), `CallHandler`, `ClearActive`, `LoadRemaining` and
`StoreRemaining` (line 98); then `SetTimeout`, `SetRemaining`, `SetActive`; in
`get_minimal_remaining_ms` `MinOne`, `Compare`, `Take`; and `SetRunning`,
`SetStart`, `Arm`. The timer callback and the radio's callbacks, which run at
one priority, are one step each and may come between any two of these.
`remaining_ms` is a `uint32_t`: values are taken modulo `WORD`, and the ghost
`wrapped` notes a subtraction of more than was left. Time is relative: `Tick`
lets a millisecond pass, between calls freely and inside calls up to `MaxPause`
times. The clock is followed `MaxIdle` ms past the last start while the
app-timer is off, when nobody reads it, and `MaxAge` ms once a remaining time
has wrapped. The other ghosts are the age of each active timeout, whether a
handler ran early, and whether an interrupt changed the table inside a call
(`raced`).

### ScanSampling

One step per callback of the timer or the radio (`ScanStarts`, `ScanRefused`,
`ScanExpires`, `OnScanTimeout`, `Report`) and per stretch of the processing
handler between two calls of the storage (`ProcessChunk`, `StoreBusy`,
`StoreDone`). A request of the main loop is split where a timeout's interrupt
can come in: `StartScan`, `JoinSampling` or `StopScan` looks at
`sampling_configuration` and stores the parameters, `StopTimer`, `StartTimer`
(or `StartFails`) and `StopRadio` are its calls, and `LoadConfiguration` and
`WriteConfiguration` the two halves of the change of the user's bit. A timeout of
sampling or streaming (`Timeout`) is the whole of `sampling_stop_scan` in an
interrupt, at any of these points; the ghost `raced` notes one inside a request
until a request starts the timer or stops the radio again. The chunk FIFO has `chunk_num = 1`
here, and reports are written through a pointer that is opened when a scan
starts and closed when it ends. A device record keeps, beside what the code
has, the weakest and strongest report it stands for. `Quotient` and `Int8` are
C's division and its cast to `int8_t`; `qsort` is any order that is sorted. The
ghosts `late` and `overrun` mark the two situations in which the pointer does
not belong to the scan (below).

### CircularFifo

The interrupt puts one byte per step, the main loop makes one load or store
per step: `circular_fifo_get_size` loads both positions twice, in any order.
The main loop does not get on while an element is being put. A byte is its
number in the stream, which tells order, loss and the element it belongs to.

## 3. Runs

| run | instance | result |
|---|---|---|
| `chunk_fifo` | 2 chunks (3 slots), 7 samples | passes, 3.7k states |
| `filesystem_eeprom` | dynamic, CRC, 15 cells, 5 stores of length 1-2, record-ids up to 4, 2 power failures or one and a failing store, 1 clear | passes, 168k states |
| `filesystem_torn` | dynamic, CRC, 20 cells, 5 stores of length 1-2, 2 power failures | **violates** `CorruptionDetected` |
| `filesystem_reboot` | static, one flash page, 2 power failures | **violates** `PartitionSurvives` |
| `storer` | 2 flash pages of 10 cells, 6 stores, record-ids up to 5, one power failure or failing store, 1 clear, a clock set back twice | passes, 15k states |
| `request_handler` | every request type, 2 requests over 2 connections, FIFOs of 1-3 | passes, 228k states |
| `request_handler_busy` | data requests, storage may be busy | **violates** `ResponseFinished` |
| `request_handler_stale` | status requests over 2 connections | **violates** `OwnTimepoint` |
| `timeout` | a sampling and the disconnect timeout, durations 0 and 3 ms, a disconnect after 2 ms, an app-timer of at most 2 ms, latency 1 ms, 1 ms inside calls, words of 6 values | passes, 591k states |
| `timeout_preempted` | the same two, 5 and 6 ms, no latency, no time inside calls | **violates** `HandlerNotEarly` |
| `scan` | 2 badges and 3 beacons, chunks of 3 sampled and 2 stored, 1 prioritized, 7 events (requests, timeouts, scans and reports together) | passes, 4.5M states |
| `circular_fifo` | elements of 3 bytes, a buffer for 2, responses of 2, 21 bytes | passes, 195k states |

### What they show

**chunk_fifo.** Under every interleaving, writer and reader never share a slot
(`RingInvariant`), an accepted chunk does not change before its slot is given
back (`UnreadNeverOverwritten`), the ring is a bounded queue that drops the
newest chunk (`ImplementsQueue`), and everything accepted is delivered
(`EventuallyDelivered`). Seven samples wrap a ring of three slots twice, with a
full ring in each position.

**filesystem_eeprom.** Elements whose store returned success and which no later
store touched are read back, now and after a restart at this moment
(`NothingLost`); what is read was stored since the last clear, newest first
(`NothingResurrected`), up to a header written in part; and a partition that holds an
element is never lost as a whole (`PartitionSurvives`). Fifteen cells hold two
elements or three, so five stores go around, and the fifth has record-id 1
again; two power failures allow one during the recovery from
another, and a power failure may meet what a store left that failed half way and
is retried. The sizes are such that an element may begin exactly where the first
element of a new lap ends: the comparison at `filesystem_lib.c:1033` then gives up
the link to it although it is intact, and `NothingLost` names this (`Unlinked`),
together with elements whose newer neighbour was overwritten. Four ids are enough
for five stores in these sizes; with fewer ids than elements *and* headers left over from
unfinished stores, an old header can pass for a new one, which the 65534 ids of
the code rule out for the partitions of `storer_lib.c`.

**storer.** A reading that began is not cut short (`ReadingGoesOn`), delivers
chunks in the order they were stored, none twice (`DeliveredInOrder`), and when
it says there are no more, every chunk it is about and that was not overwritten
was delivered, those stored meanwhile included (`NoneSkipped`). Stores between
two calls do not change what the iterator reads (`IteratorStable`); a store
refuses rather than overwrite the element under it. The erase of a flash page
that also holds older elements, with a power failure at any device operation,
loses no partition (`PartitionSurvives`; with two, the static one-page partition
of `filesystem_reboot` is lost). Four elements fill the partition, so six stores go
around it under a standing iterator, and one of them may fail half way and be
retried.

**request_handler.** With disconnects, timeouts, errors and dropped packets
anywhere: a set flag always has a handler that will clear it (`NoWedge`), a
pending response is not replaced by another (`ResponseKept`), an iterator is
valid only while its series of responses goes on (`IteratorsOwned`, without
which the filesystem would refuse to store), no step of the main loop adds to
what the scheduler's queue may grow to (`HandlersDoNotMultiply`), the receiving
side comes to rest (`RequestsServed`: what was received is finished, refused or
given up, unless a start request that is rejected for good waits in the queue or
a stream goes on) and every response is sent or given up (`ResponseFinished`).
The queue of 10 does not fill with two requests; what fills it, and what keeps it
from filling, is the subject of `RequestQueueProofs`. Two
connections are what it takes for handlers of the first to meet flags of the
second; two requests, for one to arrive while another is processed. RX and
notification FIFOs of 3 and 2 overflow; the TX FIFO of 1 makes every second
response wait and, with one retry, be given up.

**timeout.** Whatever interrupts the main loop, between its calls the app-timer
runs while a timeout is active (`AlarmSet`; a timeout with exactly `UINT32_MAX`
left, which only a wrap can give, is not counted, as `get_minimal_remaining_ms`
does not count it), and every timeout ends unless a remaining time wrapped
(`TimeoutEnds`). No remaining time wraps (`NoWrap`), no handler is called early
(`NeverEarly`), no timeout stays active longer than its time, the shortest
app-timer, the latency and the time spent inside calls (`NeverLate`), and a
connection is never without its disconnect timeout (`LinkGuarded`), unless an
interrupt changed the table inside a call of the main loop, which is what
`timeout_preempted` is about. One duration is the most the app-timer runs for
(2 ms, also the least), the other is longer and served in rounds, with a last one
below the least; two
timeouts are enough for one to be charged while the other is started. No
variable counts the time since the start, so behaviours are not bounded in
length.

**scan.** With sampling and streaming switched on and off anywhere, reports go
to the chunk of their scan and through no NULL pointer (`OwnChunk`), the stored
strength lies between the weakest and the strongest report, for the maximum and
for the mean (`RssiInRange`), between requests neither user has taken the timer
from the other or left the radio on (`ScannerFollows`, unless the timer could not
be started, or a timeout came inside a request and no request has started the
timer or stopped the radio since), and a closed chunk has a processing handler
(`ChunkOnItsWay`). `ImportantKept` says what a chunk is cut to: no beacon that is
left out is stronger than any device that is kept, and as many beacons as are
prioritized are kept before it; and, only if there are no more beacons than are
prioritized, no device that is left out is stronger than a badge that is kept.
Three devices sampled and two stored make every sort cut something; with two or
three beacons among them there are more than are prioritized. Seven events are
enough for a request and a scan with reports that fill a chunk and overflow it,
for one device that reaches its counting limit, for a chunk dropped by a full FIFO,
and for a timeout between any two steps of a request while the other user is on.

**circular_fifo.** Bytes are delivered in order and once (`InOrder`), responses
consist of whole elements (`WholeElements`) and of as many as they claim
(`CountHonest`), but for the two races below. Twenty-one bytes are seven
elements through a ring of seven positions: every position is the first of an
element once, and the ring is full in each of them.

### Disagreements between code and documentation

1. `filesystem_torn`: the CRC covers the data only, and a header is written over
   the header of an older element. A power failure behind the record-id leaves
   the older data with its older, matching CRC under the new record-id: an old
   element is read as the newest. `filesystem_lib.h:9` says the CRC is there
   "to detect corrupted data".
2. `filesystem_reboot`: `filesystem_register_partition` does not load
   `first_element_header`. The first store after a restart that is not itself
   the first element, but shares its unit, backs up a zero header to the swap
   page; a power failure during the erase that follows leaves no valid copy.
   `filesystem_lib.h:180` says the backup keeps the partition valid.
3. `request_handler_busy`: a data response handler that is told "busy" puts
   itself back without `finish_response()`; its next run finds
   `processing_response` set, and so does every other response, for ever.
   `README.md:17` of `data_collector` promises a last response.
4. `request_handler_stale`: nobody flushes the notification FIFO when the link
   goes down, so the next connection's first request is processed with the
   arrival time of a packet of the old one.
   `request_handler_lib_02v1.h:11` says that timepoint sets the clock correctly.

5. `timeout_preempted`: `timeout_start` of the main loop charges the elapsed time
   to the active timeouts before it notes that the app-timer was stopped. A
   packet that arrives in between resets the disconnect timeout, which charges
   the same time again: a handler is called before its time. `timeout_lib.h:4`
   says it is called "if it is not resetet in timeout_ms".

More observations, which no run counts as a disagreement:

* A start request with parameters that `app_timer_start` never accepts is put
  back for ever (`request_handler_lib_02v1.c:1023-1026`, with a "TODO" for an
  error counter), and every later request waits behind it. `RequestsServed` is
  stated for behaviours in which none is in the queue.
* A client that sends requests without waiting for responses fills the
  scheduler's queue; the events put then are dropped, nobody looks at the
  answer, and a flag stays set.
* A timeout inside a request to scan: between the start of the timer and the
  write of the configuration (`sampling_lib.c:1097-1100`) the stream's timeout
  stops the timer of the sampling that just started; between the look at the
  configuration and its write (1146-1150) a timeout leaves timer and radio on
  for nobody; and between load and store of the configuration the bit it
  cleared comes back (`raced`).
* `adapt_remaining_ms` compares at `timeout_lib.c:90` and subtracts at 98. A
  packet in between that resets the disconnect timeout charges the same time;
  the subtraction then wraps, and the timeout is active for 49 days (`wrapped`).
* A first element of a new lap that ends exactly where the latest element begins
  gives up that element and everything before it, although nothing of it was
  overwritten (`>=` at `filesystem_lib.c:1033`).
* While a client does not read and a stream is on, the stream's handler can win
  `processing_response` each time and a status response starves, which is why
  `RequestsServed` is stated for behaviours in which streaming ends.
* After an error and a reconnect two stream handlers can be queued at once
  (three requests reach this; both end with the stream, and they do not become
  more: `HandlersNeverMultiply`), and handlers queued
  before an error run after it, for a client that did not ask.
* Sampling switched on in the middle of a scan of the stream (`late`,
  `sampling_lib.c:1180`) finds no chunk of that scan: the reports go through
  the pointer of an earlier one, or through NULL. So they do when a scan starts
  before the timeout event of the last one was served (`overrun`).
* `sampling_start_scan` stops the timer and stores the new parameters before it
  starts the timer again. If that start fails (`sampling_lib.c:1098`), whoever
  was sampling or streaming has none (`failed`), and a repeated request with the
  same parameters is ignored as nothing seems to have changed.
* `sort_scan` sorts `count - num_beacons` devices from the prioritized beacons
  on (`processing_lib.c:171`), where its comment (147-149) says all but those
  beacons: with more beacons than are prioritized the tail is not sorted and a
  stronger badge may be cut while weaker devices are kept. Hence the condition of
  `ImportantKept`'s clause on badges.
* While the stream handler reads from a full FIFO, `circular_fifo_put` refuses
  byte by byte; if room appears in the middle of an element, a part of the
  element is put and every later one is shifted (`cut`,
  `circular_fifo_lib.c:42`).
* `circular_fifo_get_size` is computed from several loads; if a position wraps
  in between, the response claims elements that are not there (`raced`,
  `circular_fifo_lib.c:77`).
* Nobody calls `circular_fifo_flush`: what is left of an ended stream comes first
  in the next one.

### Fairness

* `ChunkFifo!FairSpec`: weak fairness of `ReadOpen` and `ReadCloseAdvance` (the
  main loop runs the handler again and again: each finished chunk queues it,
  and it queues itself when the storage is busy); strong fairness of
  `ReadCloseFlag` (the storage is not busy each time). None for the sensor.
* `RequestHandler!FairSpec`: weak fairness of the main loop (`main.c` runs for
  ever, and every wait inside a handler has a timeout), strong fairness of a
  queued request handler being accepted (storage and sampling are not busy each
  time; a start request that is rejected for good is never accepted, and fairness
  asks nothing of it). None for the client or the radio.

* `Timeout!FairSpec`: weak fairness of the main loop's steps inside a call and of
  the timer interrupt (each is pending until it is served, and nothing keeps the
  processor from it for ever); strong fairness of `Tick`, since time passes
  between the interrupts, however many there are. None for requests or the
  radio.

`CHECK_DEADLOCK FALSE` in the Filesystem, Storer, RequestHandler and ScanSampling
instances: when the bounds on stores, requests, connections and scans are used
up, the system is at rest.

## 4. Proofs

`ChunkFifoProofs` proves, for every `chunk_num` in `Nat \ {0}`
(`ChunkNumAssumption`; `chunk_fifo_init` refuses 0) and every number of samples:

* `TypeCorrect`: positions and pointers stay inside the ring;
* `RingCorrect`: `Spec => []RingInvariant`;
* `NeverOverwritten`: `Spec => UnreadNeverOverwritten`;
* `RefinesQueue`: `Spec => ImplementsQueue`.

`TypeOK /\ RingInvariant` is inductive. `UnreadNeverOverwritten` alone is not:
that the writer only touches the slot at the write position needs
`WriterHoldsFreeSlot`, that this slot is never unread is geometry
(`WriteSlotIsFree`), and that the reader delivers what was accepted needs
`ReaderHoldsOldest` (its pointer is the read position, and what it took is still
there). Order (`AcceptedInOrder`) is a conjunct because an accepting close
appends the newest chunk. The geometry of the ring is in two lemmas,
`AcceptExtends` and `AdvanceRemovesOldest`: what moving one position does to the
set of unread slots and their order. `NextPosWraps` replaces the modulo by a
case split once and for all. The refinement maps the queue to the function
`Contents`; an accepting close is `Accept`, the second half of `read_close` is
`Deliver`, everything else stutters.

`TimeoutProofs` proves, for every number of timeouts, all durations, every
latency and any time inside calls (`TimeoutAssumption`):

* `TypeCorrect`, and `AlarmKept`: `Spec => []AlarmSet`, both with interrupts
  inside calls and remaining times that wrapped included;
* `NeverWraps`, `HandlersNeverEarly`, `HandlersNeverLate`, `LinksGuarded`:
  `NoWrap`, `NeverEarly`, `NeverLate` and `LinkGuarded`.

The last four follow from `IInv` (`Inductive`), whose heart is bookkeeping:
`Balanced` says that the age of a timeout and its remaining time add up to its
duration and the time that is still to be charged, up to the time spent inside
calls. What is still to be charged (`Pending`) depends on where the call of the
main loop stands: the loop of `adapt_remaining_ms` has passed some timeouts and
not others, and the one it is at has been compared, loaded or charged. `TimerServes` says that the app-timer expires early enough for every
active timeout and agrees with `timeout_timer_running`. There is one lemma per
action. All of it is under `~raced`: `timeout_preempted` shows that it must be.

`CircularFifoProofs` proves, for every element, buffer and response size
(`SizeAssumption`, `BufAssumption`, `ProtocolAssumption`; `WordAssumption`: the
size type holds the buffer's length; `MultipleAssumption`: the buffer holds
whole elements, as `CIRCULAR_FIFO_INIT` is always given
`sizeof(X) * STREAM_X_FIFO_SIZE`, `sampling_lib.c:194`):

* `TypeCorrect`; `BytesInOrder`: `Spec => []InOrder`; `CountsHonest`:
  `Spec => []CountHonest`; `ElementsWhole`: `Spec => []WholeElements`.

`InOrder` lacks only that the bytes to come are newer than the last one read.
What a put or a get does to the occupied positions and their order is in
`PutAdds`, `PutReplaces` and `GetTakes`. `CountHonest` needs its own invariant:
the loads of `circular_fifo_get_size` never show more than there is
(`LoadsValid`), so at least as many bytes as are still to be read lie in the
ring (`BytesThere`), and a put never takes them away while they are read
(`PutGrows`). `WholeElements` needs the most: as long as no element was cut,
the bytes in the ring, those the interrupt has still to put of its element and
those the main loop has taken of its own are whole elements, or the oldest are
being overwritten (`Rounded`), a byte's place in its element is its distance from
the end modulo the element's size (`InPhase`), and inside an element the numbers are consecutive,
in the ring (`Runs`), across the byte that was read last (`Continues`) and in the
response (`BytesWhole`). This is where `MultipleAssumption` is used: a full ring
of another size would overwrite a part of an element. `PutGeometry` and
`GetGeometry` say what a byte put or taken does to the offsets.

`ScanSamplingProofs` proves `ReportsHaveChunk` (`OwnChunk`), `RadioFollowsUsers`
(`ScannerFollows`) and `ChunksProcessed` (`ChunkOnItsWay`) for any set of devices,
strengths and sizes, using no assumption. `RadioFollowsUsers` has the exceptions of
the property, a timer that could not be started and a timeout inside a request;
its invariant says of every step of a request what it has to find there if no
timeout came. The three and `OneScan` (a timeout
that waits belongs to the scan that is over) are inductive together over the
control state; what is in the chunks does not matter to them.

It goes on to what the chunks contain, for any devices and every size
(`ScanAssumption`: strengths are an `int8_t`, the prioritized beacons fit into a
stored chunk, 4 of 29 in the code, and a device can be counted once):

* `TypeCorrect`; `StrengthsInRange`: `Spec => []RssiInRange`;
  `ImportantDevicesKept`: `Spec => []ImportantKept`.

The inductive invariant is `DInv` on top of the control's: the aggregate of the
open chunk stands for the reports it was made of, a maximum between the weakest
and the strongest or a sum between count times each (`AggregateInRange`), and the
pointer is the write position while a chunk is open (`OpenIsCurrent`). C's quotient of such a sum lies between the two
(`QuotientBetween`), and so the cast to `int8_t` changes nothing. Each `qsort` is
a bijection that moves its block only (`Shuffles`) and leaves it sorted, whatever
it does to devices that compare equal; after the first one the beacons are a
prefix of `NumBeacons` devices (`BeaconsFirst`, by counting them), hence what the
three of them establish together (`SortScanSorts`) and what the cut of a sorted
chunk leaves out (`CutImportant`).

`RequestHandlerProofs` proves, for any kinds of data and every size of the
scheduler's queue and the FIFOs (`SizesAssumption`, `RequestsAssumption`):

* `TypeCorrect`, and `ResponsesKept` (`ResponseKept`), with no condition;
* `NeverWedged`: `~StorageBusy => (Spec /\ []RoomLeft => []NoWedge)`, and
  `IteratorsAlwaysOwned`, the same for `IteratorsOwned`.

`NoWedge` fails without either condition: a busy storage leaves
`processing_response` set (finding 3), and a handler dropped by a full queue
leaves its flag without an owner. `IteratorsOwned` fails without room; it is
proved together with `NoWedge`, hence also under `~StorageBusy`. The handlers are compositions of functions from badges to
badges, so the six conjuncts of the inductive invariant (`ResponseOwned`,
`RequestOwned`, `NotificationsOwned`, `StreamOwned`, `TxOwned`, `DataOwned`) are
stated of a badge, and each function has a lemma that says which conjuncts it
needs and which it establishes: `finish_error` establishes all of them from
any badge, a response that is sent or given up starts from those in `Sending`.
Popping the running handler breaks the conjuncts it owned (`PoppedOwned`), and
its body restores them.

`RequestQueueProofs` proves where the room comes from, under the same
assumptions and for a busy storage too:

* `HandlersNeverMultiply`: `Spec => HandlersDoNotMultiply`;
* `RoomWhenPaced`: `SchedSize >= 2 => (PacedSpec => []RoomLeft)`, where
  `PacedSpec` is the specification with a client that sends a packet only while
  the load is at least five below the queue's size: the queue then always has
  room for what a step puts there, for any number of requests;
* `NeverWedgedWhenPaced` and `IteratorsOwnedWhenPaced`: with such a client, and
  `~StorageBusy`, `NoWedge` and `IteratorsOwned`.

The argument is a potential, `Load`: the handlers in the queue, a request handler
counted three times and a handler that finishes a request twice, since it may
queue that many; the cells in `rx_fifo`, which may become requests; what the
handler that waits will queue; and one for a stream that may start a response.
Every handler takes at least as much from the load as it adds (one lemma per
helper and per handler: `HandleLoad`, `SendLoad`, `StreamTailLoad`, ...). The
least obvious part is the stream, which queues itself *and* leaves a response
behind when `tx_fifo` is full: the extra one is in the load while nobody else's
response is pending (`MayStream`), and a pending response takes it away, by the
flag `start_response` looks at. Only packets add to the load, at most three each
(`PacketLoad`), so a client that waits keeps the load two below the size, and the
load bounds the queue (`PInv`). The firmware does not make its client wait: the
condition is on the client, who in the code's 100 slots may have some thirty packets
on their way at once; without it the queue can be filled (requests that are finished
before their response leave a response handler each while another response waits),
and `RoomLeft` is false. The processing handlers that share the queue are not in it.

`FilesystemProofs` proves, for any partition that `filesystem_register_partition`
accepts (`PartitionAssumption`: the first unit holds the metadata and the first
header, `filesystem_lib.c:810-811`; lengths of data are 0 to 3 cells, two bits,
so that the XOR of two lengths in a header and the CRC can be computed), of `Filesystem` and, with a reader at work,
of `Storer`:

* `FilesystemTypeOK` and `StorerTypeOK`: `TypeOK`, on any device, with any
  number of stores, power failures, failing stores and
  clears;
* `FilesystemPartitionSurvives` and `StorerPartitionSurvives`:
  `InEeprom => (Spec => []PartitionSurvives)`, for partitions in the EEPROM, again
  whatever fails and how often.

`TypeOK` is not inductive: an address is inside the device because the links of
the ring are followed only where they lead into the partition, so the invariant
(`FsInv`) says that of the latest element and of the iterator, and that the tail
of the device is blank. The library's calls are functions of the state `Sound`
describes, and each has a lemma that it stays there.

`PartitionSurvives` asks what a restart at this very moment would find, so its
invariant (`Survives`) is about both copies of the first header: while the badge
is on, the first header is valid, or the backup in the swap page equals the
cells that the retry of the failed store will write there; while it is off, one
of the two is valid. The first alternative is not enough, since a failing store
may leave half a header with the badge on. That a *prefix* of a call's device
operations keeps one copy valid is the predicate `Safe` on the list of
operations: every library call takes safe lists to safe lists (`WriteSafe`,
`BackupSafe`, `HeadSafe`, `StoreSafe`, ...). `InEeprom` is `UnitSize = 1` and a
data length that is never 0: the storer writes encoded messages, and a retry of
length 0 is how the model writes that there is none.

In the flash the property is false with two faults (`filesystem_reboot`):
after the first power failure RAM has no first header, a store then backs up an
invalid one, and the second power failure strikes while the page of the valid copy
is erased. `FilesystemFaultProofs` proves that two are needed: `FilesystemOneFault`
and `StorerOneFault` state `PartitionSurvives` for any device and any unit, with
any number of stores and clears, under `OneFault` (`MaxFaults \in {0, 1}`, the
bound on power failures and failing stores together). The invariant (`Lasts`) has
a part for each side of the fault. Until it, both copies of the first header are
valid and RAM has their contents (`Settled`), so a store may erase the page of one
of them; after it, the first header is valid, or the backup is and equals what
RAM would write (`Held`), which is enough since nothing fails any more.
`Settled` is what makes it inductive: `Held` alone is also the state in which the
next fault loses the partition. The step from one to the other is
`StoreSettled`: after every prefix of a store's device operations one of the
copies is left (`Lasting`). It rests on lemmas about the list of operations by
which a store to flash erases pages and writes them back (`FlashPlanned`,
`WriteBelow`, `WriteFirst`), and on `ThreeLegs`, which joins the backup, the
header and the data of a store.

The model's loops are recursive functions (`Trace` runs a list of device
operations, `Walk` follows the ring at a restart, `Search` and `Skip` are the
storer's). Each lemma about one of them is an induction by least counterexample:
the set of steps at which the claim fails has a least element if it is not empty
(`LeastNat`, from the library's theorem on well-founded relations), and this one
is refuted by the step before it.

Model-checked only: liveness (`EventuallyDelivered`, `RequestsServed`,
`ResponseFinished`, `TimeoutEnds`), which is out of the prover's reach; and of the
filesystem and the storer `NothingLost`, `NothingResurrected`,
`DeliveredInOrder`, `ReadingGoesOn`, `IteratorStable` and `NoneSkipped`. These need
an invariant of the whole ring (which elements are linked to which, on the disk
and after each prefix of a store) and hold only as long as the record-ids in the
ring are distinct, that is while `MaxId` is larger than the number of elements a
partition can hold: the run's instances meet this, and a proof would have to count
elements.

## 5. Abstractions and bounds

* *Cells.* A header field or a unit of data is written at once. EEPROM stores
  are split at 128-byte pages and flash stores in words, so a real power
  failure can also cut a field; the record-id, the field everything hangs on, is
  two bytes that do not cross a word.
* *CRC.* CRCs do not collide, and data is never taken for a header: cells carry
  what they are. A record-id read from data is a hazard of the format that no
  test of the code could exclude, and is left out.
* *Tracked addresses.* `storage1` remembers the addresses stored since the last
  erase in a bounded array; the model keeps a set.
* *Scheduler.* The instances have 10 or 20 slots for the code's 100, enough for
  their two or three requests, so the runs do not fill the queue; `Put` drops
  what does not fit, as nobody looks at `NRF_ERROR_NO_MEM`, and what that does is
  in the proofs (`NeverWedged` needs `RoomLeft`, `RoomWhenPaced` says when it
  holds). Only the request handler's events are in the queue; the processing
  handlers and the advertised voltage (`battery_lib.c:93`) are put into the same
  one. In `ScanSampling` the processing handler's event always finds room.
* *Timers.* `app_timer_start` may fail in `ScanSampling`; in `Timeout` it does not
  (the app-timer's queue is full: `NRF_ERROR_NO_MEM`, which `timeout_lib.c:152`
  ignores).
* *Storage.* `filesystem_clear_partition` meets no storage error, since its only
  caller halts on one (`main.c:87-88`). A header read beyond the end of the device
  is blank and so is no header, where `storage_lib.c:133` answers
  `NRF_ERROR_INVALID_PARAM`. A page of flash is written back in ascending order;
  `storage1_lib.c:246-362` writes the whole words in the middle before the bytes at
  both ends, so a power failure there can leave other cells than the model's.
* *Sender.* The response encoder does not fail; the start of the transmit timer
  and the write to `tx_fifo` are one step (the code protects the write by a
  critical region and starts the timer behind it).
* *Interrupts.* The timer's and the radio's callbacks have one priority and are
  one step each. In the main loop `sampling_configuration` is loaded and written
  back in two steps, with interrupts in between.
* *Scan reports* in `ScanSampling` are the ones that pass the filters for
  strength, kind and group; the parsing of advertising data is left out.
* *Stored chunks.* `tb_encode` and `tb_decode` are inverse to each other.
* *Bounds* are constants named `Max...`: `MaxSamples`, `MaxStores`,
  `MaxCrashes`, `MaxFails`, `MaxFaults` (power failures and failing stores
  together), `MaxClears`, `MaxId` (0xFFFE in the code, so that ids wrap),
  `MaxChunks`, `MaxRequests`, `MaxConnections`, `MaxRetries`, `MaxPause`,
  `MaxIdle`, `MaxAge`, `MaxEvents`, `MaxCount` (255 in the code), `MaxBytes`; and the
  inputs `Durations`, `Latency`, `Requested`, `Stamp`, `Rssi`. `WORD` stands for
  the 2^32 values of the size type in `CircularFifo` and of a time in `Timeout`.

## 6. Not modelled

* *Flash and EEPROM drivers* (`flash_lib.c`, `eeprom_lib.c`, `spi_lib.c`): an
  operation of theirs is one device operation of `Filesystem`, which completes
  or fails. The completion event of an operation that was given up after its
  timeout (`flash_lib.c:236`) is below that level.
* *Systick* (`systick_lib.c`): a 24-bit counter and floating-point conversion; the
  models use differences of time only.
* *Starting and stopping the other sensors* (`sampling_lib.c`): the pattern of the
  scan's, with one configuration bit each for sampling and streaming.
* *Badge assignment* (`storer_lib.c`): a store and an iterator's init, read and
  invalidate on a partition of its own; and the advertising data that shows it.
* *`circular_fifo_flush`*, which nobody calls.
* *Peripherals* (ADC, battery, microphone, accelerometer registers, UART), self
  test, system events and debug output: no protocol between steps.
* *TinyBuf and the generated message tables*: a request decodes or does not.
* *The former protocol* (`request_handler_lib_01v1.c`), with the mechanism of
  02v1; the *former firmware* (`rssi_scanner`); the *Python client*, in whose
  place a client sends any request at any time.
* *Vendored code*: googletest, which the unit tests bring along, is most of the
  repository's C++.

What would come next: the drivers' completion flags as a small module, and the
invariant of the ring behind `NothingLost` and `IteratorStable`.
