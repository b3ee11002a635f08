------------------------- MODULE ScanSamplingProofs -------------------------
(***************************************************************************)
(* The scan pipeline for every number of devices, reports, scans and       *)
(* requests.  First its control, in which the data of the chunks plays no  *)
(* part; then what is in the chunks: the strengths that are aggregated,    *)
(* and the devices that processing keeps, for all sizes of the chunks, all *)
(* devices and all strengths of an int8_t.                                 *)
(***************************************************************************)
EXTENDS ScanSampling, SequenceTheorems, FiniteSetTheorems, TLAPS


ControlTypes ==
  /\ sampling \in BOOLEAN /\ streaming \in BOOLEAN /\ timer \in BOOLEAN
  /\ scanning \in BOOLEAN /\ timed_out \in BOOLEAN /\ open_write \in BOOLEAN
  /\ read_pos \in Slots /\ write_pos \in Slots
  /\ pc \in {"idle", "loop", "store", "stop", "start", "radio", "load", "write"}
  /\ on \in BOOLEAN /\ other \in BOOLEAN /\ user \in Users
  /\ failed \in BOOLEAN /\ raced \in BOOLEAN

(* A timeout that waits is the one of the scan that is over, unless the    *)
(* timer was faster.                                                       *)
OneScan == ~overrun => ~(scanning /\ timed_out)

(* Timer and radio while the main loop is inside a request.  Timeouts      *)
(* switch users off only, so that a stop that went for the timer still     *)
(* finds no other user.                                                    *)
TimerStopped ==
  /\ pc = "stop" /\ ~on => ~Uses(Other(user))
  /\ pc = "start" => on /\ ~timer
  /\ pc = "radio" => ~on /\ ~timer /\ ~Uses(Other(user))

Settled ==
  /\ ~sampling /\ ~streaming => ~timer /\ ~scanning
  /\ (sampling \/ streaming) /\ ~failed => timer

(* What the request has seen of the other user is still so. *)
Undisturbed ==
  ~raced =>
    /\ pc \in {"idle", "loop", "store", "stop"} => Settled
    /\ pc = "start" /\ ~sampling /\ ~streaming => ~scanning
    /\ pc \in {"load", "write"} =>
         IF on \/ Uses(Other(user)) THEN timer \/ failed ELSE ~timer /\ ~scanning
    /\ pc = "write" => other = Uses(Other(user))

IInv == ControlTypes /\ OneScan /\ OwnChunk /\ ChunkOnItsWay /\ TimerStopped /\ Undisturbed

LEMMA ClosedIsSlot ==
  ASSUME NEW p \in Slots, NEW open
  PROVE  Closed(p, open) \in Slots
BY DEF Closed, Slots

(* A callback of the timer or the radio leaves the main loop where it is. *)
LEMMA CallbackTypes ==
  ASSUME ControlTypes, UNCHANGED <<config, call, process, read_pos>>,
         scanning' \in BOOLEAN, timed_out' \in BOOLEAN, open_write' \in BOOLEAN,
         write_pos' \in Slots
  PROVE  ControlTypes'
<1>1. UNCHANGED <<sampling, streaming, timer, failed, raced, user, on, other, pc, read_pos>>
  BY DEF config, call, process
<1> QED
  BY <1>1 DEF ControlTypes

(* The chunks: whose request it is plays no part. *)
LEMMA PipelineInductive ==
  IInv /\ [Next]_vars => (ControlTypes /\ OneScan /\ OwnChunk /\ ChunkOnItsWay)'
<1> SUFFICES ASSUME IInv, [Next]_vars
             PROVE  (ControlTypes /\ OneScan /\ OwnChunk /\ ChunkOnItsWay)'
  OBVIOUS
<1> DEFINE Pipeline == ControlTypes /\ OneScan /\ OwnChunk /\ ChunkOnItsWay
<1> SUFFICES Pipeline'
  OBVIOUS
<1>0. Pipeline
  BY DEF IInv
<1> USE <1>0 DEF ControlTypes, OneScan, OwnChunk, ChunkOnItsWay, config, call, radio, fifo,
                 sampler, process
<1>1. ASSUME NEW u \in Users, NEW type, NEW changed, StartScan(u, type, changed)
      PROVE  Pipeline'
  BY <1>1 DEF StartScan, MainLoop, Aggregation, Users
<1>2. ASSUME NEW u \in Users, StopScan(u)
      PROVE  Pipeline'
  BY <1>2 DEF StopScan, MainLoop, Users
<1>3. ASSUME NEW u \in Users, Timeout(u)
      PROVE  Pipeline'
  <2>1. sampling' \in BOOLEAN /\ streaming' \in BOOLEAN /\ raced' \in BOOLEAN
    BY <1>3, Zenon DEF Timeout
  <2>2. (UNCHANGED <<timer, scanning>>) \/ (timer' = FALSE /\ scanning' = FALSE)
    BY <1>3 DEF Timeout, StopScanner
  <2>3. /\ UNCHANGED <<failed, call, timed_out, fifo, sampler, scheduled, process>>
        /\ sampling' => sampling
    BY <1>3 DEF Timeout
  <2>4. ControlTypes'
    BY <2>1, <2>2, <2>3
  <2> QED
    BY <2>2, <2>3, <2>4
<1>4. CASE JoinSampling
  BY <1>4 DEF JoinSampling, MainLoop, Users
<1>5. CASE StopTimer \/ StartTimer \/ StartFails \/ StopRadio
  <2>1. /\ UNCHANGED <<sampling, streaming, timed_out, fifo, sampler, scheduled>>
        /\ pc \notin {"loop", "store"}
    BY <1>5 DEF StopTimer, StartTimer, StartFails, StopRadio, At
  <2>2. UNCHANGED scanning \/ scanning' = FALSE
    BY <1>5 DEF StopTimer, StartTimer, StartFails, StopRadio
  <2>3. ControlTypes'
    <3>1. CASE StopTimer
      BY <2>1, <3>1 DEF StopTimer
    <3>2. CASE StartTimer
      BY <2>1, <3>2 DEF StartTimer
    <3>3. CASE StartFails
      BY <2>1, <3>3 DEF StartFails, Return, Users
    <3>4. CASE StopRadio
      BY <2>1, <3>4 DEF StopRadio
    <3> QED
      BY <1>5, <3>1, <3>2, <3>3, <3>4
  <2>4. OneScan' /\ OwnChunk'
    BY <2>1, <2>2
  <2>5. ChunkOnItsWay'
    BY <2>1
  <2> QED
    BY <2>3, <2>4, <2>5
<1>6. CASE LoadConfiguration \/ WriteConfiguration
  <2>1. CASE LoadConfiguration
    <3>1. other' \in BOOLEAN
      BY <1>0, <2>1 DEF LoadConfiguration, Uses
    <3> QED
      BY <2>1, <3>1 DEF LoadConfiguration, At
  <2>2. CASE WriteConfiguration
    <3>1. sampling' \in BOOLEAN /\ streaming' \in BOOLEAN
      BY <1>0, <2>2 DEF WriteConfiguration
    <3> QED
      BY <2>2, <3>1 DEF WriteConfiguration, At, Return, Users
  <2> QED
    BY <1>6, <2>1, <2>2
<1>7. CASE ScanStarts
  <2>1. open_write' \in BOOLEAN
    BY <1>7, Zenon DEF ScanStarts
  <2>2. ControlTypes'
    BY <1>7, <2>1, CallbackTypes DEF ScanStarts
  <2> QED
    BY <1>7, <2>2 DEF ScanStarts, SetupChunk
<1>8. CASE ScanRefused
  <2>1. CASE sampling
    BY <1>8, <2>1, ClosedIsSlot DEF ScanRefused, SetupChunk
  <2>2. CASE ~sampling
    BY <1>8, <2>2 DEF ScanRefused
  <2> QED
    BY <2>1, <2>2
<1>9. CASE ScanExpires
  <2>1. /\ UNCHANGED <<config, call, process, fifo, scheduled, sampler>>
        /\ scanning /\ scanning' = FALSE /\ timed_out' = TRUE
    BY <1>9 DEF ScanExpires
  <2>2. ControlTypes'
    BY <2>1, CallbackTypes
  <2>3. OneScan' /\ OwnChunk' /\ ChunkOnItsWay'
    BY <2>1
  <2> QED
    BY <2>2, <2>3
<1>10. CASE OnScanTimeout
  <2>1. CASE sampling /\ chunk # NULL
    <3>1. /\ write_pos' \in Slots /\ open_write' = FALSE /\ timed_out' = FALSE /\ scheduled'
          /\ UNCHANGED <<config, call, scanning, read_pos, chunk, fault, late, overrun, process>>
      BY <1>10, <2>1, ClosedIsSlot DEF OnScanTimeout, FinalizeChunk
    <3>2. ~late /\ ~overrun => ~scanning /\ ~fault
      BY <1>10 DEF OnScanTimeout
    <3>3. ControlTypes'
      BY <3>1, CallbackTypes
    <3>4. OneScan' /\ OwnChunk' /\ ChunkOnItsWay'
      BY <3>1, <3>2
    <3> QED
      BY <3>3, <3>4
  <2>2. CASE sampling /\ chunk = NULL
    <3>1. chunk # write_pos
      BY <2>2 DEF NULL, Slots
    <3>2. late \/ overrun
      BY <1>10, <2>2, <3>1 DEF OnScanTimeout
    <3>3. UNCHANGED <<config, call, scanning, late, overrun, process, fifo, scheduled>> /\ timed_out' = FALSE
      BY <1>10, <2>2, Zenon DEF OnScanTimeout, FinalizeChunk
    <3>4. ControlTypes'
      BY <3>3, CallbackTypes
    <3>5. OneScan' /\ OwnChunk'
      BY <3>2, <3>3
    <3>6. ChunkOnItsWay'
      BY <3>3
    <3> QED
      BY <3>4, <3>5, <3>6
  <2>3. CASE ~sampling
    <3>1. UNCHANGED <<config, call, scanning, chunk, late, overrun, process, fifo, scheduled, fault>>
      BY <1>10, <2>3, Zenon DEF OnScanTimeout
    <3>2. timed_out' = FALSE
      BY <1>10 DEF OnScanTimeout
    <3>3. ControlTypes'
      BY <3>1, <3>2, CallbackTypes
    <3>4. ChunkOnItsWay'
      BY <3>1
    <3>5. OneScan' /\ OwnChunk'
      BY <2>3, <3>1, <3>2
    <3> QED
      BY <3>3, <3>4, <3>5
  <2> QED
    BY <2>1, <2>2, <2>3
<1>11. ASSUME NEW id, NEW rssi, Report(id, rssi)
       PROVE  Pipeline'
  <2>1. CASE chunk = NULL
    BY <1>11, <2>1 DEF Report, NULL, Slots
  <2>2. CASE chunk # NULL
    BY <1>11, <2>2 DEF Report
  <2> QED
    BY <2>1, <2>2
<1>12. CASE ProcessChunk
  BY <1>12 DEF ProcessChunk
<1>13. CASE StoreBusy
  BY <1>13 DEF StoreBusy
<1>14. CASE StoreDone
  BY <1>14 DEF StoreDone, Slots
<1>15. CASE UNCHANGED vars
  BY <1>15 DEF vars
<1> QED
  BY <1>1, <1>2, <1>3, <1>4, <1>5, <1>6, <1>7, <1>8, <1>9, <1>10, <1>11, <1>12,
     <1>13, <1>14, <1>15 DEF Next

(* A step of the radio or of the processing handler: a scan only begins    *)
(* while the timer runs.                                                   *)
LEMMA UsersStay ==
  ASSUME ControlTypes, TimerStopped, Undisturbed,
         UNCHANGED <<config, call>>,
         UNCHANGED pc \/ {pc, pc'} \subseteq {"idle", "loop", "store"},
         scanning' => scanning \/ timer
  PROVE  (TimerStopped /\ Undisturbed)'
<1>1. TimerStopped'
  BY DEF TimerStopped, Uses, Other, config, call
<1>2. Undisturbed'
  BY DEF ControlTypes, TimerStopped, Undisturbed, Settled, Uses, Other, config, call
<1> QED
  BY <1>1, <1>2

(* The users of timer and radio. *)
LEMMA UsersInductive ==
  IInv /\ [Next]_vars => (TimerStopped /\ Undisturbed)'
<1> SUFFICES ASSUME IInv, [Next]_vars
             PROVE  (TimerStopped /\ Undisturbed)'
  OBVIOUS
<1> DEFINE Held == TimerStopped /\ Undisturbed
<1> SUFFICES Held'
  OBVIOUS
<1>0. ControlTypes /\ TimerStopped /\ Undisturbed
  BY DEF IInv
<1> HIDE DEF Held
<1>1. ASSUME NEW u \in Users, NEW type, NEW changed, StartScan(u, type, changed)
      PROVE  Held'
  BY <1>0, <1>1 DEF StartScan, MainLoop, radio, Held, TimerStopped, Undisturbed, Settled
<1>2. ASSUME NEW u \in Users, StopScan(u)
      PROVE  Held'
  BY <1>0, <1>2
  DEF StopScan, MainLoop, config, radio, Held, TimerStopped, Undisturbed, Settled, ControlTypes,
      Uses, Other, Users
<1>3. ASSUME NEW u \in Users, Timeout(u)
      PROVE  Held'
  <2>1. TimerStopped'
    BY <1>0, <1>3
    DEF Timeout, StopScanner, call, process, TimerStopped, ControlTypes, Uses, Other, Users
  <2>2. CASE Requesting
    BY <1>3, <2>1, <2>2 DEF Timeout, Undisturbed, Held
  <2>3. CASE ~Requesting
    BY <1>0, <1>3, <2>1, <2>3
    DEF Timeout, Requesting, StopScanner, process, Undisturbed, Settled, Held, ControlTypes, Uses,
        Other, Users
  <2> QED
    BY <2>2, <2>3
<1>4. CASE JoinSampling
  BY <1>0, <1>4
  DEF JoinSampling, MainLoop, config, radio, Held, TimerStopped, Undisturbed, Settled
<1>5. CASE StopTimer
  BY <1>0, <1>5
  DEF StopTimer, At, call, radio, Held, TimerStopped, Undisturbed, Settled, ControlTypes, Uses, Other
<1>6. CASE StartTimer
  BY <1>0, <1>6 DEF StartTimer, At, call, Held, TimerStopped, Undisturbed
<1>7. CASE StartFails
  BY <1>0, <1>7 DEF StartFails, At, Return, radio, Held, TimerStopped, Undisturbed, Settled
<1>8. CASE StopRadio
  BY <1>0, <1>8 DEF StopRadio, At, call, Held, TimerStopped, Undisturbed, Uses, Other
<1>9. CASE LoadConfiguration
  BY <1>0, <1>9
  DEF LoadConfiguration, At, config, radio, Held, TimerStopped, Undisturbed, Uses, Other
<1>10. CASE WriteConfiguration
  BY <1>0, <1>10
  DEF WriteConfiguration, At, Return, radio, Held, TimerStopped, Undisturbed, Settled, ControlTypes,
      Uses, Other, Users
<1>11. CASE ScanStarts
  BY <1>0, <1>11, UsersStay DEF ScanStarts, process, Held
<1>12. CASE ScanRefused
  BY <1>0, <1>12, UsersStay DEF ScanRefused, process, Held
<1>13. CASE ScanExpires
  BY <1>0, <1>13, UsersStay DEF ScanExpires, process, Held
<1>14. CASE OnScanTimeout
  BY <1>0, <1>14, UsersStay DEF OnScanTimeout, process, Held
<1>15. ASSUME NEW id, NEW rssi, Report(id, rssi)
       PROVE  Held'
  <2>1. UNCHANGED <<config, call, radio, process>>
    BY <1>15 DEF Report
  <2> QED
    BY <1>0, <2>1, UsersStay DEF radio, process, Held
<1>16. CASE ProcessChunk
  <2>1. UNCHANGED <<config, call, radio>> /\ {pc, pc'} \subseteq {"idle", "loop", "store"}
    BY <1>16 DEF ProcessChunk
  <2> QED
    BY <1>0, <2>1, UsersStay DEF radio, Held
<1>17. CASE StoreBusy \/ StoreDone
  BY <1>0, <1>17, UsersStay DEF StoreBusy, StoreDone, radio, Held
<1>18. CASE UNCHANGED vars
  BY <1>0, <1>18, UsersStay DEF vars, radio, process, Held
<1> QED
  BY <1>1, <1>2, <1>3, <1>4, <1>5, <1>6, <1>7, <1>8, <1>9, <1>10, <1>11, <1>12,
     <1>13, <1>14, <1>15, <1>16, <1>17, <1>18 DEF Next

LEMMA Inductive == IInv /\ [Next]_vars => IInv'
BY PipelineInductive, UsersInductive DEF IInv

LEMMA Initially == Init => IInv
BY DEF Init, IInv, ControlTypes, OneScan, OwnChunk, TimerStopped, Undisturbed, Settled,
       ChunkOnItsWay, Slots, Users

(* Every report and every timeout finds the chunk of its own scan open,    *)
(* and no NULL pointer, unless the sampling was switched on in the middle  *)
(* of a scan or the timer overtook a timeout.                              *)
THEOREM ReportsHaveChunk == Spec => []OwnChunk
<1>1. IInv => OwnChunk
  BY DEF IInv
<1> QED
  BY <1>1, Initially, Inductive, PTL DEF Spec

(* Whoever samples or streams has the timer, and nobody else the radio:    *)
(* sampling_stop_scan for one does not take it from the other, unless a    *)
(* timeout calls it inside a request; and the next request that starts the *)
(* timer or stops the radio puts that right.                               *)
THEOREM RadioFollowsUsers == Spec => []ScannerFollows
<1>1. IInv => ScannerFollows
  BY DEF IInv, ControlTypes, Undisturbed, Settled, ScannerFollows, Requesting
<1> QED
  BY <1>1, Initially, Inductive, PTL DEF Spec

(* A closed chunk never waits for a processing handler that nobody         *)
(* schedules.                                                              *)
THEOREM ChunksProcessed == Spec => []ChunkOnItsWay
<1>1. IInv => ChunkOnItsWay
  BY DEF IInv
<1> QED
  BY <1>1, Initially, Inductive, PTL DEF Spec

(***************************************************************************)
(* What is in the chunks.                                                  *)
(***************************************************************************)

Devices ==
  [id : Badges \cup Beacons, count : 1 .. MaxCount, rssi : -128 .. 127, lo : Rssi, hi : Rssi]

(* No device is in a sequence twice. *)
Distinct(data) == \A i, j \in 1 .. Len(data) : data[i].id = data[j].id => i = j

(* A chunk is never longer than its array. *)
Chunks ==
  {c \in [data : Seq(Devices), mixed : BOOLEAN] :
     Len(c.data) <= SCAN_SAMPLING_CHUNK_DATA_SIZE /\ Distinct(c.data)}

DataTypes ==
  /\ failed \in BOOLEAN /\ fault \in BOOLEAN /\ late \in BOOLEAN /\ overrun \in BOOLEAN
  /\ scheduled \in BOOLEAN
  /\ aggregation \in {"MAX", "MEAN"}
  /\ chunk \in Slots \cup {NULL}
  /\ slots \in [Slots -> Chunks]
  /\ aggregated \in [1 .. SCAN_SAMPLING_CHUNK_DATA_SIZE -> Int]
  /\ scan_chunk \in Seq(Devices) /\ Len(scan_chunk) <= SCAN_CHUNK_DATA_SIZE
  /\ seen \in Seq(Devices)

OpenIsCurrent == open_write => chunk = write_pos

(* The aggregate of a device that was reported between lo and hi. *)
Covers(type, d, agg) ==
  IF type = "MAX" THEN d.lo <= agg /\ agg <= d.hi
  ELSE d.lo * d.count <= agg /\ agg <= d.hi * d.count

(* The chunk that is being sampled can be finalized. *)
AggregateInRange ==
  ~late /\ ~overrun /\ open_write /\ ~slots[write_pos].mixed =>
    \A i \in 1 .. Len(slots[write_pos].data) :
      Covers(aggregation, slots[write_pos].data[i], aggregated[i])

DInv ==
  DataTypes /\ OpenIsCurrent /\ AggregateInRange /\ RssiInRange /\ ImportantKept
-----------------------------------------------------------------------------
(* Strengths. *)

LEMMA Int8Range ==
  ASSUME NEW x \in Int
  PROVE  /\ Int8(x) \in -128 .. 127
         /\ x \in -128 .. 127 => Int8(x) = x
<1>1. (x + 128) % 256 \in 0 .. 255
  OBVIOUS
<1>2. x \in -128 .. 127 => (x + 128) % 256 = x + 128
  OBVIOUS
<1> QED
  BY <1>1, <1>2 DEF Int8

LEMMA Division ==
  ASSUME NEW x \in Nat, NEW n \in Nat \ {0}
  PROVE  /\ x \div n \in Nat
         /\ n * (x \div n) <= x
         /\ x < n * (x \div n + 1)
OBVIOUS

LEMMA TimesMonotone ==
  ASSUME NEW a \in Int, NEW b \in Int, NEW n \in Nat \ {0}
  PROVE  /\ a <= b => a * n <= b * n
         /\ a < b => a * n < b * n
<1>1. a * n + (b - a) * n = b * n
  OBVIOUS
<1>2. (b - a) \in Nat => (b - a) * n \in Nat
  OBVIOUS
<1>3. (b - a) \in Nat \ {0} => (b - a) * n \in Nat \ {0}
  OBVIOUS
<1>4. a * n \in Int /\ b * n \in Int /\ (b - a) * n \in Int
  OBVIOUS
<1>5. a <= b => b - a \in Nat
  OBVIOUS
<1>6. a < b => b - a \in Nat \ {0}
  OBVIOUS
<1> QED
  BY <1>1, <1>2, <1>3, <1>4, <1>5, <1>6

(* The quotient of C lies between two bounds of the mean. *)
LEMMA QuotientBetween ==
  ASSUME NEW x \in Int, NEW n \in Nat \ {0}, NEW lo \in Int, NEW hi \in Int,
         lo * n <= x, x <= hi * n
  PROVE  Quotient(x, n) \in Int /\ lo <= Quotient(x, n) /\ Quotient(x, n) <= hi
<1>0. lo * n \in Int /\ hi * n \in Int
  OBVIOUS
<1>1. CASE x >= 0
  <2> DEFINE q == x \div n
  <2>1. q \in Nat /\ n * q <= x /\ x < n * (q + 1)
    BY <1>1, Division
  <2>2. Quotient(x, n) = q
    BY <1>1 DEF Quotient
  <2> HIDE DEF q
  <2>3. n * q = q * n /\ n * (q + 1) = (q + 1) * n /\ q * n \in Int /\ (q + 1) * n \in Int
    BY <2>1
  <2>4. ~(q + 1 <= lo)
    BY <2>1, <2>3, <1>0, TimesMonotone
  <2>5. ~(hi < q)
    BY <2>1, <2>3, <1>0, TimesMonotone
  <2> QED
    BY <2>1, <2>2, <2>4, <2>5
<1>2. CASE x < 0
  <2> DEFINE q == (-x) \div n
  <2>1. q \in Nat /\ n * q <= -x /\ -x < n * (q + 1)
    BY <1>2, Division
  <2>2. Quotient(x, n) = -q
    BY <1>2 DEF Quotient
  <2> HIDE DEF q
  <2>3. /\ n * q = q * n /\ n * (q + 1) = (q + 1) * n
        /\ (-q) * n = -(q * n) /\ (-(q + 1)) * n = -((q + 1) * n)
        /\ q * n \in Int /\ (q + 1) * n \in Int
    BY <2>1
  <2>4. ~(-q < lo)
    BY <2>1, <2>3, <1>0, TimesMonotone
  <2>5. ~(hi <= -(q + 1))
    BY <2>1, <2>3, <1>0, TimesMonotone
  <2> QED
    BY <2>1, <2>2, <2>4, <2>5
<1> QED
  BY <1>1, <1>2

LEMMA QuotientType ==
  ASSUME NEW x \in Int, NEW n \in Nat \ {0}
  PROVE  Quotient(x, n) \in Int
<1>1. CASE x >= 0
  BY <1>1, Division DEF Quotient
<1>2. CASE x < 0
  BY <1>2, Division DEF Quotient
<1> QED
  BY <1>1, <1>2

LEMMA ResultType ==
  ASSUME NEW agg \in Int, NEW count \in Nat \ {0}
  PROVE  AggregateResult(agg, count) \in -128 .. 127
BY QuotientType, Int8Range DEF AggregateResult

LEMMA FcnIsSeq ==
  ASSUME NEW S, NEW n \in Nat, NEW f \in [1 .. n -> S]
  PROVE  f \in Seq(S) /\ Len(f) = n /\ DOMAIN f = 1 .. n
<1>1. f \in Seq(S)
  BY SeqDef
<1> QED
  BY <1>1
-----------------------------------------------------------------------------
(* Sorting. *)

Positions(data) == 1 .. Len(data)
Block(first, n) == first + 1 .. first + n

(* q has the devices of data, where f says, and moves the block only. *)
Shuffles(f, q, data, first, n) ==
  /\ f \in Bijection(Positions(data), Positions(data))
  /\ q = [i \in Positions(data) |-> data[f[i]]]
  /\ \A i \in Positions(data) :
       IF i \in Block(first, n) THEN f[i] \in Block(first, n) ELSE f[i] = i

LEMMA Arranged ==
  ASSUME NEW data \in Seq(Devices), NEW first \in Nat, NEW n \in Nat, first + n <= Len(data),
         NEW p \in Bijection(Block(first, n), Block(first, n)),
         NEW q, q = [i \in DOMAIN data |-> IF i \in Block(first, n) THEN data[p[i]] ELSE data[i]]
  PROVE  \E f : Shuffles(f, q, data, first, n)
<1> DEFINE B == Block(first, n)
           P == Positions(data)
           f == [i \in P |-> IF i \in B THEN p[i] ELSE i]
<1>1. DOMAIN data = P /\ B \subseteq P
  BY DEF Positions, Block
<1>2. /\ p \in [B -> B]
      /\ \A a, b \in B : p[a] = p[b] => a = b
      /\ \A t \in B : \E s \in B : p[s] = t
  BY DEF Bijection, Injection, Surjection, IsInjective
<1> HIDE DEF B, P
<1>3. f \in [P -> P]
  BY <1>1, <1>2
<1>4. \A a, b \in P : f[a] = f[b] => a = b
  BY <1>1, <1>2
<1>5. \A t \in P : \E s \in P : f[s] = t
  BY <1>1, <1>2
<1>6. f \in Bijection(P, P)
  <2>1. DOMAIN f = P
    OBVIOUS
  <2> HIDE DEF f
  <2> QED
    BY <1>3, <1>4, <1>5, <2>1, Zenon DEF Bijection, Injection, Surjection, IsInjective
<1>7. q = [i \in P |-> data[f[i]]]
  BY <1>1 DEF B
<1>8. \A i \in P : IF i \in B THEN f[i] \in B ELSE f[i] = i
  BY <1>1, <1>2
<1> HIDE DEF f
<1>9. Shuffles(f, q, data, first, n)
  BY <1>6, <1>7, <1>8, Zenon DEF Shuffles, B, P
<1> QED
  BY <1>9

LEMMA SortsByBeacon ==
  ASSUME NEW data \in Seq(Devices), NEW first \in Nat, NEW n \in Nat, first + n <= Len(data),
         NEW q \in QsortByBeacon(data, first, n)
  PROVE  /\ \E f : Shuffles(f, q, data, first, n)
         /\ \A i, j \in Block(first, n) : i < j => ~ByBeacon(q[j], q[i])
<1>1. PICK p \in Bijection(Block(first, n), Block(first, n)) :
        q = [i \in DOMAIN data |-> IF i \in Block(first, n) THEN data[p[i]] ELSE data[i]]
  BY DEF QsortByBeacon, Qsort, Block
<1>2. \A i, j \in Block(first, n) : i < j => ~ByBeacon(q[j], q[i])
  BY DEF QsortByBeacon, Qsort, Block
<1> QED
  BY <1>1, <1>2, Arranged

LEMMA SortsByRSSI ==
  ASSUME NEW data \in Seq(Devices), NEW first \in Nat, NEW n \in Nat, first + n <= Len(data),
         NEW q \in QsortByRSSI(data, first, n)
  PROVE  /\ \E f : Shuffles(f, q, data, first, n)
         /\ \A i, j \in Block(first, n) : i < j => ~ByRSSI(q[j], q[i])
<1>1. PICK p \in Bijection(Block(first, n), Block(first, n)) :
        q = [i \in DOMAIN data |-> IF i \in Block(first, n) THEN data[p[i]] ELSE data[i]]
  BY DEF QsortByRSSI, Qsort, Block
<1>2. \A i, j \in Block(first, n) : i < j => ~ByRSSI(q[j], q[i])
  BY DEF QsortByRSSI, Qsort, Block
<1> QED
  BY <1>1, <1>2, Arranged

(* A shuffled sequence has the same devices, each of them once, and as     *)
(* many beacons.                                                           *)
LEMMA ShuffledSame ==
  ASSUME NEW data \in Seq(Devices), NEW first \in Nat, NEW n \in Nat, NEW q, NEW f,
         Shuffles(f, q, data, first, n)
  PROVE  /\ q \in Seq(Devices) /\ Len(q) = Len(data)
         /\ \A i \in Positions(data) : f[i] \in Positions(data) /\ q[i] = data[f[i]]
         /\ Distinct(data) => Distinct(q)
         /\ ToSet(q) = ToSet(data)
         /\ NumBeacons(q) = NumBeacons(data)
<1> DEFINE P == Positions(data)
<1>0. /\ f \in [P -> P]
      /\ \A a, b \in P : f[a] = f[b] => a = b
      /\ \A t \in P : \E s \in P : f[s] = t
  BY DEF Shuffles, Bijection, Injection, Surjection, IsInjective
<1>1. DOMAIN data = P /\ P = 1 .. Len(data) /\ Len(data) \in Nat /\ data \in [P -> Devices]
  BY DEF Positions
<1>2. q = [i \in P |-> data[f[i]]]
  BY DEF Shuffles
<1> HIDE DEF P
<1>3. q \in [1 .. Len(data) -> Devices]
  BY <1>0, <1>1, <1>2
<1>4. q \in Seq(Devices) /\ Len(q) = Len(data) /\ DOMAIN q = P
  BY <1>1, <1>3, FcnIsSeq
<1>5. \A i \in P : f[i] \in P /\ q[i] = data[f[i]]
  BY <1>0, <1>2
<1>6. ASSUME Distinct(data)
      PROVE  Distinct(q)
  <2>1. \A i, j \in P : data[i].id = data[j].id => i = j
    BY <1>1, <1>6 DEF Distinct
  <2>2. ASSUME NEW i \in P, NEW j \in P, q[i].id = q[j].id
        PROVE  i = j
    <3>1. f[i] \in P /\ f[j] \in P /\ data[f[i]].id = data[f[j]].id
      BY <1>5, <2>2
    <3>2. f[i] = f[j]
      BY <2>1, <3>1
    <3> QED
      BY <1>0, <3>2
  <2> QED
    BY <1>1, <1>4, <2>2 DEF Distinct
<1>7. ToSet(q) = ToSet(data)
  BY <1>0, <1>1, <1>4, <1>5 DEF ToSet
<1>8. NumBeacons(q) = NumBeacons(data)
  <2> DEFINE S == {i \in P : IsBeacon(q[i])}
             T == {i \in P : IsBeacon(data[i])}
             g == [i \in S |-> f[i]]
  <2>1. NumBeacons(q) = Cardinality(S) /\ NumBeacons(data) = Cardinality(T)
    BY <1>1, <1>4 DEF NumBeacons
  <2>2. IsFiniteSet(P)
    BY <1>1, FS_Interval
  <2>3. IsFiniteSet(S)
    BY <2>2, FS_Subset
  <2>4. g \in [S -> T]
    BY <1>0, <1>5
  <2>5. \A a, b \in S : g[a] = g[b] => a = b
    BY <1>0
  <2>6. \A t \in T : \E s \in S : g[s] = t
    BY <1>0, <1>5
  <2>7. g \in Bijection(S, T)
    <3>1. DOMAIN g = S
      OBVIOUS
    <3> HIDE DEF g, S, T
    <3> QED
      BY <2>4, <2>5, <2>6, <3>1, Zenon DEF Bijection, Injection, Surjection, IsInjective
  <2> HIDE DEF g, S, T
  <2>8. ExistsBijection(S, T)
    BY <2>7 DEF ExistsBijection
  <2> QED
    BY <2>1, <2>3, <2>8, FS_Bijection
<1> QED
  BY <1>4, <1>5, <1>6, <1>7, <1>8 DEF P

LEMMA BeaconsBounded ==
  ASSUME NEW data \in Seq(Devices)
  PROVE  NumBeacons(data) \in 0 .. Len(data)
<1>1. DOMAIN data = 1 .. Len(data) /\ Len(data) \in Nat
  OBVIOUS
<1>2. IsFiniteSet(1 .. Len(data)) /\ Cardinality(1 .. Len(data)) = Len(data)
  BY <1>1, FS_Interval
<1> DEFINE B == {i \in 1 .. Len(data) : IsBeacon(data[i])}
<1>3. NumBeacons(data) = Cardinality(B)
  BY <1>1 DEF NumBeacons
<1>4. B \in SUBSET (1 .. Len(data))
  OBVIOUS
<1> HIDE DEF B
<1>5. IsFiniteSet(B) /\ Cardinality(B) <= Len(data)
  BY <1>2, <1>4, FS_Subset
<1>6. Cardinality(B) \in Nat
  BY <1>5, FS_CardinalityType
<1> QED
  BY <1>1, <1>3, <1>5, <1>6

(* If no badge is before a beacon, the beacons are the first ones. *)
LEMMA BeaconsFirst ==
  ASSUME NEW data \in Seq(Devices),
         \A i, j \in Positions(data) : i < j => ~ByBeacon(data[j], data[i])
  PROVE  \A i \in Positions(data) : IsBeacon(data[i]) <=> i <= NumBeacons(data)
<1> DEFINE B == {i \in 1 .. Len(data) : IsBeacon(data[i])}
           n == NumBeacons(data)
<1>1. DOMAIN data = 1 .. Len(data) /\ Len(data) \in Nat /\ n \in 0 .. Len(data)
  BY BeaconsBounded
<1>2. n = Cardinality(B)
  BY <1>1 DEF NumBeacons
<1>3. \A i \in B : 1 .. i \subseteq B
  BY DEF Positions, ByBeacon
<1>4. IsFiniteSet(B)
  <2>1. IsFiniteSet(1 .. Len(data)) /\ B \in SUBSET (1 .. Len(data))
    BY <1>1, FS_Interval
  <2> HIDE DEF B
  <2> QED
    BY <2>1, FS_Subset
<1> HIDE DEF n
<1>5. \A i \in B : i <= n
  <2> SUFFICES ASSUME NEW i \in B
               PROVE  i <= n
    OBVIOUS
  <2>1. 1 .. i \in SUBSET B /\ i \in Nat /\ 1 <= i
    BY <1>3
  <2> HIDE DEF B
  <2>2. Cardinality(1 .. i) <= Cardinality(B)
    BY <1>4, <2>1, FS_Subset
  <2>3. Cardinality(1 .. i) = i
    BY <2>1, FS_Interval
  <2> QED
    BY <1>2, <2>2, <2>3
<1>6. B \in SUBSET (1 .. n)
  BY <1>5, <1>1
<1>7. IsFiniteSet(1 .. n) /\ Cardinality(1 .. n) = n
  BY <1>1, FS_Interval
<1>8. 1 .. n = B
  <2> HIDE DEF B
  <2> QED
    BY <1>2, <1>6, <1>7, FS_Subset
<1> QED
  BY <1>1, <1>8 DEF n, Positions

LEMMA ByteIsInt ==
  ASSUME NEW x, x \in -128 .. 127
  PROVE  x \in Int
OBVIOUS

LEMMA RssiType ==
  ASSUME NEW data \in Seq(Devices), NEW i \in 1 .. Len(data)
  PROVE  data[i].rssi \in Int
<1>1. data[i] \in Devices
  OBVIOUS
<1>2. data[i].rssi \in -128 .. 127
  BY <1>1 DEF Devices
<1> QED
  BY <1>2, ByteIsInt, Zenon

(* What sort_scan does: the first devices are the prioritized beacons, no  *)
(* beacon has a weaker device before it, and behind the prioritized ones   *)
(* the strongest come first, as far as the last sort goes.  If no beacon   *)
(* is left over, they are badges.                                          *)
SortedScan(q, data) ==
  LET n == NumBeacons(data)
      k == Min2(n, SCAN_PRIORITIZED_BEACONS)
  IN  /\ q \in Seq(Devices) /\ Len(q) = Len(data)
      /\ Distinct(data) => Distinct(q)
      /\ ToSet(q) = ToSet(data)
      /\ \A i \in Positions(q) : i <= k => IsBeacon(q[i])
      /\ \A i, j \in Positions(q) : i < j /\ IsBeacon(q[j]) => q[i].rssi >= q[j].rssi
      /\ k = n => \A j \in Positions(q) : n < j => ~IsBeacon(q[j])
      /\ \A i, j \in Block(k, Len(q) - n) : i < j => q[i].rssi >= q[j].rssi

LEMMA SortScanSorts ==
  ASSUME NEW data \in Seq(Devices), NEW q \in SortScan(data)
  PROVE  SortedScan(q, data)
<1> DEFINE n == NumBeacons(data)
           k == Min2(n, SCAN_PRIORITIZED_BEACONS)
           L == Len(data)
<1>1. PICK a \in QsortByBeacon(data, 0, L) :
        \E b \in QsortByRSSI(a, 0, n) : q \in QsortByRSSI(b, k, L - n)
  BY DEF SortScan
<1>2. PICK b \in QsortByRSSI(a, 0, n) : q \in QsortByRSSI(b, k, L - n)
  BY <1>1
<1>3. n \in 0 .. L /\ L \in Nat /\ k \in 0 .. n /\ k <= SCAN_PRIORITIZED_BEACONS
  BY BeaconsBounded, ScanAssumption DEF Min2
<1> HIDE DEF n, k
<1>4. PICK f : Shuffles(f, a, data, 0, L)
  BY <1>3, SortsByBeacon
<1>5. \A i, j \in Block(0, L) : i < j => ~ByBeacon(a[j], a[i])
  BY <1>3, SortsByBeacon
<1>6. /\ a \in Seq(Devices) /\ Len(a) = L
      /\ Distinct(data) => Distinct(a)
      /\ ToSet(a) = ToSet(data) /\ NumBeacons(a) = n
  BY <1>4, <1>3, ShuffledSame DEF n
<1>7. \A i \in 1 .. L : IsBeacon(a[i]) <=> i <= n
  <2>1. Block(0, L) = Positions(a) /\ Positions(a) = 1 .. L
    BY <1>3, <1>6 DEF Block, Positions
  <2> QED
    BY <1>5, <1>6, <2>1, BeaconsFirst
<1>8. PICK g : Shuffles(g, b, a, 0, n)
  BY <1>2, <1>3, <1>6, SortsByRSSI
<1>9. \A i, j \in Block(0, n) : i < j => ~ByRSSI(b[j], b[i])
  BY <1>2, <1>3, <1>6, SortsByRSSI
<1>10. /\ b \in Seq(Devices) /\ Len(b) = L
       /\ \A i \in Positions(a) : g[i] \in Positions(a) /\ b[i] = a[g[i]]
       /\ Distinct(a) => Distinct(b)
       /\ ToSet(b) = ToSet(a)
  BY <1>8, <1>3, <1>6, ShuffledSame
<1>11. \A i \in 1 .. L : IsBeacon(b[i]) <=> i <= n
  <2>1. \A i \in 1 .. L : IF i \in Block(0, n) THEN g[i] \in Block(0, n) ELSE g[i] = i
    BY <1>6, <1>8 DEF Shuffles, Positions
  <2>2. \A i \in 1 .. L : g[i] \in 1 .. L /\ (g[i] <= n <=> i <= n)
    BY <1>3, <1>6, <1>10, <2>1 DEF Block, Positions
  <2> QED
    BY <1>6, <1>7, <1>10, <2>2 DEF Positions
<1>12. PICK h : Shuffles(h, q, b, k, L - n)
  BY <1>2, <1>3, <1>10, SortsByRSSI
<1>13. \A i, j \in Block(k, L - n) : i < j => ~ByRSSI(q[j], q[i])
  BY <1>2, <1>3, <1>10, SortsByRSSI
<1>14. /\ q \in Seq(Devices) /\ Len(q) = L
       /\ \A i \in Positions(b) : h[i] \in Positions(b) /\ q[i] = b[h[i]]
       /\ Distinct(b) => Distinct(q)
       /\ ToSet(q) = ToSet(b)
  BY <1>12, <1>3, <1>10, ShuffledSame
<1>15. \A i \in 1 .. L : IF i <= k THEN h[i] = i /\ q[i] = b[i]
                                   ELSE h[i] \in 1 .. L /\ k < h[i] /\ q[i] = b[h[i]]
  <2>1. \A i \in 1 .. L : IF i \in Block(k, L - n) THEN h[i] \in Block(k, L - n) ELSE h[i] = i
    BY <1>10, <1>12 DEF Shuffles, Positions
  <2> QED
    BY <1>3, <1>10, <1>14, <2>1 DEF Block, Positions
<1>16. \A i, j \in 1 .. n : i < j => b[i].rssi >= b[j].rssi
  <2>1. \A i \in 1 .. n : b[i].rssi \in Int
    BY <1>3, <1>10, RssiType
  <2> QED
    BY <1>3, <1>9, <2>1 DEF Block, ByRSSI
<1>17. \A i \in 1 .. L : i <= k => IsBeacon(q[i])
  BY <1>3, <1>11, <1>15
<1>18. ASSUME NEW i \in 1 .. L, NEW j \in 1 .. L, i < j, IsBeacon(q[j])
       PROVE  q[i].rssi >= q[j].rssi
  <2> DEFINE B == Block(k, L - n)
  <2>1. \A m \in 1 .. L : /\ h[m] \in 1 .. L /\ q[m] = b[h[m]]
                         /\ IF m \in B THEN h[m] \in B ELSE h[m] = m
    BY <1>10, <1>12, <1>14 DEF Shuffles, Positions
  <2>2. \A m \in 1 .. L : m \in B <=> k < m /\ m <= k + (L - n)
    BY <1>3 DEF Block
  <2>3. CASE i \in B /\ j \in B
    <3>1. q[i].rssi \in Int /\ q[j].rssi \in Int
      BY <1>14, RssiType
    <3> QED
      BY <1>13, <1>18, <2>3, <3>1 DEF ByRSSI
  <2>4. CASE ~(i \in B /\ j \in B)
    <3>1. h[j] \in 1 .. n
      BY <1>11, <1>18, <2>1, <1>3
    <3>2. h[i] < h[j]
      <4> HIDE DEF B
      <4>1. h[i] \in 1 .. L /\ h[j] \in 1 .. L
        BY <2>1
      <4>2. CASE j \in B
        <5>1. h[i] = i /\ h[j] \in B /\ i \notin B
          BY <2>1, <2>4, <4>2
        <5>2. i <= k /\ k < h[j]
          BY <1>3, <1>18, <2>2, <4>1, <4>2, <5>1
        <5> QED
          BY <1>3, <4>1, <5>1, <5>2
      <4>3. CASE j \notin B
        <5>1. h[j] = j
          BY <2>1, <4>3
        <5>2. CASE i \in B
          <6>1. h[i] \in B /\ k < i
            BY <2>1, <2>2, <5>2
          <6>2. h[i] <= k + (L - n) /\ ~(j <= k + (L - n))
            BY <1>3, <1>18, <2>2, <4>1, <4>3, <6>1
          <6> QED
            BY <1>3, <4>1, <5>1, <6>2
        <5>3. CASE i \notin B
          BY <1>18, <2>1, <5>1, <5>3
        <5> QED
          BY <5>2, <5>3
      <4> QED
        BY <4>2, <4>3
    <3>3. h[i] \in 1 .. n
      BY <1>3, <2>1, <3>1, <3>2
    <3> QED
      BY <1>16, <2>1, <3>1, <3>2, <3>3
  <2> QED
    BY <2>3, <2>4
<1>19. ASSUME k = n, NEW j \in 1 .. L, n < j
       PROVE  ~IsBeacon(q[j])
  BY <1>3, <1>11, <1>15, <1>19
<1>20. \A i, j \in Block(k, L - n) : i < j => q[i].rssi >= q[j].rssi
  <2>1. Block(k, L - n) \subseteq 1 .. L
    BY <1>3 DEF Block
  <2>2. \A i \in Block(k, L - n) : q[i].rssi \in Int
    BY <2>1, <1>14, RssiType
  <2> QED
    BY <1>13, <2>2 DEF ByRSSI
<1>21. Distinct(data) => Distinct(q)
  BY <1>6, <1>10, <1>14
<1>22. ToSet(q) = ToSet(data)
  BY <1>6, <1>10, <1>14
<1>23. Positions(q) = 1 .. L
  BY <1>14 DEF Positions
<1> QED
  BY <1>14, <1>17, <1>18, <1>19, <1>20, <1>21, <1>22, <1>23, Zenon DEF SortedScan, n, k, L

LEMMA UpTo ==
  ASSUME NEW n \in Nat
  PROVE  IsFiniteSet(1 .. n) /\ Cardinality(1 .. n) = n
<1>1. Cardinality(1 .. n) = IF 1 > n THEN 0 ELSE n - 1 + 1
  BY FS_Interval
<1>2. IsFiniteSet(1 .. n)
  BY FS_Interval
<1> QED
  BY <1>1, <1>2

LEMMA ToSetFinite ==
  ASSUME NEW data \in Seq(Devices)
  PROVE  IsFiniteSet(ToSet(data))
<1> DEFINE P == 1 .. Len(data)
           T == ToSet(data)
           g == [i \in P |-> data[i]]
<1>1. DOMAIN data = P /\ IsFiniteSet(P)
  BY FS_Interval
<1>2. T = {data[i] : i \in P}
  BY <1>1 DEF ToSet
<1> HIDE DEF P
<1>3. g \in [P -> T] /\ \A t \in T : \E s \in P : g[s] = t
  BY <1>2
<1> HIDE DEF g, T
<1>4. g \in Surjection(P, T)
  BY <1>3 DEF Surjection
<1>5. IsFiniteSet(T)
  BY <1>1, <1>4, FS_Surjection
<1> QED
  BY <1>5 DEF T

(* Devices that are distinct have as many IDs. *)
LEMMA DistinctCount ==
  ASSUME NEW data \in Seq(Devices), Distinct(data)
  PROVE  Cardinality({d.id : d \in ToSet(data)}) = Len(data)
<1> DEFINE P == 1 .. Len(data)
           T == {d.id : d \in ToSet(data)}
           g == [i \in P |-> data[i].id]
<1>1. DOMAIN data = P /\ IsFiniteSet(P) /\ Cardinality(P) = Len(data)
  <2>1. Len(data) \in Nat /\ DOMAIN data = P
    OBVIOUS
  <2> QED
    BY <2>1, UpTo
<1>2. T = {data[i].id : i \in P}
  BY <1>1 DEF ToSet
<1>3. \A a, b \in P : data[a].id = data[b].id => a = b
  BY DEF Distinct
<1> HIDE DEF P, T
<1>4. g \in [P -> T] /\ \A t \in T : \E s \in P : g[s] = t
  BY <1>2
<1>5. \A a, b \in P : g[a] = g[b] => a = b
  BY <1>3
<1>6. DOMAIN g = P
  OBVIOUS
<1> HIDE DEF g
<1>7. g \in Bijection(P, T)
  BY <1>4, <1>5, <1>6, Zenon DEF Bijection, Injection, Surjection, IsInjective
<1>8. ExistsBijection(P, T)
  BY <1>7 DEF ExistsBijection
<1>9. Cardinality(T) = Len(data)
  BY <1>1, <1>8, FS_Bijection
<1> QED
  BY <1>9 DEF T

(* As ImportantKept, of any two sequences. *)
Important(all, kept) ==
  LET out == ToSet(all) \ ToSet(kept)
  IN  /\ ToSet(kept) \subseteq ToSet(all)
      /\ Len(kept) = Min2(Len(all), SCAN_CHUNK_DATA_SIZE)
      /\ Cardinality({d.id : d \in ToSet(kept)}) = Len(kept)
      /\ \A d \in out : IsBeacon(d) =>
           /\ \A e \in ToSet(kept) : e.rssi >= d.rssi
           /\ Cardinality({e \in ToSet(kept) : IsBeacon(e)}) >= SCAN_PRIORITIZED_BEACONS
      /\ NumBeacons(all) <= SCAN_PRIORITIZED_BEACONS =>
           \A d \in out, e \in ToSet(kept) : ~IsBeacon(e) => e.rssi >= d.rssi

LEMMA ImportantIsImportantKept == ImportantKept <=> (pc = "store" => Important(seen, scan_chunk))
BY DEF ImportantKept, Important

LEMMA ShortImportant ==
  ASSUME NEW data \in Seq(Devices), Distinct(data), Len(data) <= SCAN_CHUNK_DATA_SIZE
  PROVE  Important(data, data)
<1>1. Len(data) = Min2(Len(data), SCAN_CHUNK_DATA_SIZE)
  BY ScanAssumption DEF Min2
<1>2. ToSet(data) \ ToSet(data) = {}
  OBVIOUS
<1> QED
  BY <1>1, <1>2, DistinctCount, Zenon DEF Important

LEMMA CutImportant ==
  ASSUME NEW data \in Seq(Devices), Distinct(data), Len(data) > SCAN_CHUNK_DATA_SIZE,
         NEW q \in SortScan(data)
  PROVE  /\ Cut(q) \in Seq(Devices) /\ Len(Cut(q)) = SCAN_CHUNK_DATA_SIZE
         /\ Distinct(Cut(q))
         /\ Important(data, Cut(q))
<1> DEFINE n == NumBeacons(data)
           k == Min2(n, SCAN_PRIORITIZED_BEACONS)
           L == Len(data)
           C == SCAN_CHUNK_DATA_SIZE
           c == Cut(q)
           out == ToSet(data) \ ToSet(c)
<1>1. /\ q \in Seq(Devices) /\ Len(q) = L
      /\ Distinct(q)
      /\ ToSet(q) = ToSet(data)
      /\ \A i \in 1 .. L : i <= k => IsBeacon(q[i])
      /\ \A i, j \in 1 .. L : i < j /\ IsBeacon(q[j]) => q[i].rssi >= q[j].rssi
      /\ k = n => \A j \in 1 .. L : n < j => ~IsBeacon(q[j])
      /\ \A i, j \in Block(k, L - n) : i < j => q[i].rssi >= q[j].rssi
  BY SortScanSorts DEF SortedScan, Positions
<1>2. /\ L \in Nat /\ C \in Nat /\ n \in 0 .. L /\ SCAN_PRIORITIZED_BEACONS \in 0 .. C
      /\ C < L
  BY ScanAssumption, BeaconsBounded
<1> HIDE DEF n, L
<1>3. /\ k \in 0 .. n /\ k <= C /\ k <= SCAN_PRIORITIZED_BEACONS
      /\ k = n \/ k = SCAN_PRIORITIZED_BEACONS
      /\ n <= SCAN_PRIORITIZED_BEACONS => k = n
  BY <1>2 DEF Min2
<1> HIDE DEF k
<1>4. c \in Seq(Devices) /\ Len(c) = C /\ \A i \in 1 .. C : c[i] = q[i]
  BY <1>1, <1>2 DEF Cut
<1> HIDE DEF c
<1>5. Distinct(c)
  BY <1>1, <1>2, <1>4 DEF Distinct
<1>6. /\ \A d \in ToSet(c) : \E i \in 1 .. C : d = q[i]
      /\ \A i \in 1 .. C : q[i] \in ToSet(c)
  BY <1>4 DEF ToSet
<1>7. \A d \in ToSet(data) : \E i \in 1 .. L : d = q[i]
  <2>1. \A d \in ToSet(q) : \E i \in 1 .. L : d = q[i]
    BY <1>1 DEF ToSet
  <2> QED
    BY <1>1, <2>1
<1>8. ToSet(c) \subseteq ToSet(data)
  <2>1. \A i \in 1 .. L : q[i] \in ToSet(q)
    BY <1>1 DEF ToSet
  <2> QED
    BY <1>1, <1>2, <1>6, <2>1
<1>9. \A d \in out : \E j \in 1 .. L : C < j /\ d = q[j]
  BY <1>2, <1>6, <1>7
<1>10. Len(c) = Min2(Len(data), SCAN_CHUNK_DATA_SIZE)
  BY <1>2, <1>4 DEF Min2, L
<1>11. Cardinality({d.id : d \in ToSet(c)}) = Len(c)
  BY <1>4, <1>5, DistinctCount
<1>12. ASSUME NEW d \in out, IsBeacon(d)
       PROVE  /\ \A e \in ToSet(c) : e.rssi >= d.rssi
              /\ Cardinality({e \in ToSet(c) : IsBeacon(e)}) >= SCAN_PRIORITIZED_BEACONS
  <2>1. PICK j \in 1 .. L : C < j /\ d = q[j]
    BY <1>9
  <2>2. k = SCAN_PRIORITIZED_BEACONS
    <3>1. k # n
      BY <1>1, <1>2, <1>3, <1>12, <2>1
    <3> QED
      BY <1>3, <3>1
  <2> DEFINE S == {e \in ToSet(c) : IsBeacon(e)}
             K == 1 .. k
             g == [i \in K |-> q[i]]
  <2>3. \A i \in K : i \in 1 .. L /\ i \in 1 .. C /\ i <= k /\ k < j
    BY <1>2, <1>3, <2>1
  <2>4. \A i \in K : q[i] \in S
    BY <1>1, <1>6, <2>3
  <2>5. \A a, b \in K : q[a] = q[b] => a = b
    BY <1>1, <2>3 DEF Distinct
  <2>6. IsFiniteSet(S)
    <3>1. IsFiniteSet(ToSet(c)) /\ S \in SUBSET ToSet(c)
      BY <1>4, ToSetFinite
    <3> HIDE DEF S
    <3> QED
      BY <3>1, FS_Subset
  <2>7. IsFiniteSet(K) /\ Cardinality(K) = k
    <3>1. k \in Nat
      BY <1>2, <1>3
    <3> QED
      BY <3>1, UpTo
  <2> HIDE DEF S, K
  <2>8. g \in [K -> S] /\ DOMAIN g = K /\ \A a, b \in K : g[a] = g[b] => a = b
    BY <2>4, <2>5
  <2> HIDE DEF g
  <2>9. g \in Injection(K, S)
    BY <2>8, Zenon DEF Injection, IsInjective
  <2>10. Cardinality(K) <= Cardinality(S)
    BY <2>6, <2>9, FS_Injection
  <2>11. Cardinality(S) \in Nat
    BY <2>6, FS_CardinalityType
  <2>12. Cardinality({e \in ToSet(c) : IsBeacon(e)}) >= SCAN_PRIORITIZED_BEACONS
    BY <1>2, <2>2, <2>7, <2>10, <2>11 DEF S
  <2>13. ASSUME NEW e \in ToSet(c)
         PROVE  e.rssi >= d.rssi
    <3>1. PICK i \in 1 .. C : e = q[i]
      BY <1>6
    <3>2. i \in 1 .. L /\ i < j
      BY <1>2, <2>1, <3>1
    <3> QED
      BY <1>1, <1>12, <2>1, <3>1, <3>2
  <2> QED
    BY <2>12, <2>13
<1>13. ASSUME n <= SCAN_PRIORITIZED_BEACONS,
              NEW d \in out, NEW e \in ToSet(c), ~IsBeacon(e)
       PROVE  e.rssi >= d.rssi
  <2>1. PICK j \in 1 .. L : C < j /\ d = q[j]
    BY <1>9
  <2>2. PICK i \in 1 .. C : e = q[i]
    BY <1>6
  <2>3. k = n
    BY <1>3, <1>13
  <2>4. i \in 1 .. L /\ ~(i <= k)
    BY <1>1, <1>2, <1>13, <2>2
  <2>5. i \in Block(k, L - n) /\ j \in Block(k, L - n) /\ i < j
    BY <1>2, <1>3, <2>1, <2>2, <2>3, <2>4 DEF Block
  <2> QED
    BY <1>1, <2>1, <2>2, <2>5
<1>14. Important(data, c)
  BY <1>8, <1>10, <1>11, <1>12, <1>13, Zenon DEF Important, n, out
<1> QED
  BY <1>4, <1>5, <1>14 DEF c
-----------------------------------------------------------------------------
(* Chunks. *)

LEMMA DeviceType ==
  ASSUME NEW c \in Chunks, NEW i \in 1 .. Len(c.data)
  PROVE  /\ c.data[i] \in Devices
         /\ c.data[i].count \in Nat \ {0}
         /\ c.data[i].rssi \in -128 .. 127
         /\ c.data[i].lo \in Int /\ c.data[i].lo \in -128 .. 127
         /\ c.data[i].hi \in Int /\ c.data[i].hi \in -128 .. 127
<1>1. c.data \in Seq(Devices)
  BY DEF Chunks
<1> DEFINE d == c.data[i]
<1>2. d \in Devices
  BY <1>1
<1> HIDE DEF d
<1>3. d.count \in 1 .. MaxCount /\ d.rssi \in -128 .. 127 /\ d.lo \in Rssi /\ d.hi \in Rssi
  BY <1>2 DEF Devices
<1>4. d.lo \in -128 .. 127 /\ d.hi \in -128 .. 127
  BY <1>3, ScanAssumption
<1>5. d.count \in Nat \ {0}
  <2>1. \A x \in 1 .. MaxCount : x \in Nat \ {0}
    BY ScanAssumption
  <2> QED
    BY <1>3, <2>1, Zenon
<1>6. d.lo \in Int /\ d.hi \in Int
  BY <1>4, ByteIsInt, Zenon
<1> QED
  BY <1>2, <1>3, <1>4, <1>5, <1>6 DEF d

LEMMA EmptyChunk == Empty \in Chunks /\ Len(Empty.data) = 0 /\ Empty.mixed = FALSE
BY ScanAssumption DEF Empty, Chunks, Distinct

LEMMA MixedChunk ==
  ASSUME NEW c \in Chunks
  PROVE  /\ [c EXCEPT !.mixed = TRUE] \in Chunks
         /\ [c EXCEPT !.mixed = TRUE].data = c.data
         /\ [c EXCEPT !.mixed = TRUE].mixed = TRUE
BY DEF Chunks

LEMMA StoredChunk ==
  ASSUME NEW c \in Chunks, NEW data \in Seq(Devices), Distinct(data),
         Len(data) <= Len(c.data)
  PROVE  /\ [c EXCEPT !.data = data] \in Chunks
         /\ [c EXCEPT !.data = data].data = data
         /\ [c EXCEPT !.data = data].mixed = c.mixed
<1>1. Len(c.data) \in Nat /\ Len(c.data) <= SCAN_SAMPLING_CHUNK_DATA_SIZE /\ Len(data) \in Nat
  BY DEF Chunks
<1>2. Len(data) <= SCAN_SAMPLING_CHUNK_DATA_SIZE
  BY <1>1, ScanAssumption
<1> QED
  BY <1>2 DEF Chunks

LEMMA CountedChunk ==
  ASSUME NEW c \in Chunks, NEW i \in 1 .. Len(c.data), NEW rssi \in Rssi
  PROVE  LET e == Counted(c, i, rssi)
             d == c.data[i]
         IN  /\ e \in Chunks /\ e.mixed = c.mixed /\ Len(e.data) = Len(c.data)
             /\ \A j \in 1 .. Len(c.data) : j # i => e.data[j] = c.data[j]
             /\ e.data[i].count = Min2(d.count + 1, MaxCount)
             /\ e.data[i].lo = Min2(d.lo, rssi)
             /\ e.data[i].hi = Max2(d.hi, rssi)
<1> DEFINE d == c.data[i]
           u == Heard(d, rssi)
           data == [c.data EXCEPT ![i] = u]
           e == Counted(c, i, rssi)
<1>1. /\ c \in [data : Seq(Devices), mixed : BOOLEAN] /\ c.data \in Seq(Devices)
      /\ Distinct(c.data) /\ Len(c.data) <= SCAN_SAMPLING_CHUNK_DATA_SIZE
  BY DEF Chunks
<1>2. d \in Devices
  BY <1>1
<1>3. e = [c EXCEPT !.data = data]
  BY <1>1 DEF Counted
<1> HIDE DEF e, d
<1>4. /\ u.id = d.id
      /\ u.count = Min2(d.count + 1, MaxCount)
      /\ u.lo = Min2(d.lo, rssi) /\ u.hi = Max2(d.hi, rssi)
  BY <1>2 DEF Devices, Heard
<1>5. u \in Devices
  <2>1. Min2(d.lo, rssi) \in Rssi /\ Max2(d.hi, rssi) \in Rssi
    BY <1>2 DEF Devices, Min2, Max2
  <2>2. Min2(d.count + 1, MaxCount) \in 1 .. MaxCount
    <3>1. d.count \in 1 .. MaxCount
      BY <1>2 DEF Devices
    <3>2. \A x \in 1 .. MaxCount : Min2(x + 1, MaxCount) \in 1 .. MaxCount
      BY ScanAssumption DEF Min2
    <3> QED
      BY <3>1, <3>2, Zenon
  <2> QED
    BY <1>2, <2>1, <2>2 DEF Devices, Heard
<1> HIDE DEF u
<1>6. /\ data \in Seq(Devices) /\ Len(data) = Len(c.data) /\ data[i] = u
      /\ \A j \in 1 .. Len(c.data) : j # i => data[j] = c.data[j]
  BY <1>1, <1>5
<1> HIDE DEF data
<1>7. Distinct(data)
  <2>1. \A j \in 1 .. Len(c.data) : data[j].id = c.data[j].id
    BY <1>4, <1>6 DEF d
  <2> QED
    BY <1>1, <1>6, <2>1, Zenon DEF Distinct
<1>8. e \in Chunks /\ e.data = data /\ e.mixed = c.mixed
  BY <1>1, <1>3, <1>6, <1>7 DEF Chunks
<1> QED
  BY <1>4, <1>6, <1>8 DEF e, d

LEMMA AddedChunk ==
  ASSUME NEW c \in Chunks, NEW id \in Badges \cup Beacons, NEW rssi \in Rssi, HasRoom(c),
         \A i \in 1 .. Len(c.data) : c.data[i].id # id
  PROVE  LET e == Added(c, id, rssi)
             m == Len(c.data) + 1
         IN  /\ e \in Chunks /\ e.mixed = c.mixed /\ Len(e.data) = m
             /\ m \in 1 .. SCAN_SAMPLING_CHUNK_DATA_SIZE
             /\ \A j \in 1 .. Len(c.data) : e.data[j] = c.data[j]
             /\ e.data[m] = Device(id, rssi)
<1> DEFINE u == Device(id, rssi)
           data == Append(c.data, u)
           e == Added(c, id, rssi)
           m == Len(c.data) + 1
<1>1. /\ c \in [data : Seq(Devices), mixed : BOOLEAN] /\ c.data \in Seq(Devices)
      /\ Distinct(c.data) /\ Len(c.data) \in Nat
  BY DEF Chunks
<1>2. e = [c EXCEPT !.data = data]
  BY DEF Added
<1>3. u \in Devices /\ u.id = id
  BY ScanAssumption DEF Device, Devices
<1> HIDE DEF e, u
<1>4. /\ data \in Seq(Devices) /\ Len(data) = m /\ data[m] = u
      /\ \A j \in 1 .. Len(c.data) : data[j] = c.data[j]
  BY <1>1, <1>3
<1>5. m \in 1 .. SCAN_SAMPLING_CHUNK_DATA_SIZE
  BY <1>1, ScanAssumption DEF HasRoom
<1> HIDE DEF data
<1>6. Distinct(data)
  <2>1. 1 .. m = 1 .. Len(c.data) \cup {m}
    BY <1>1
  <2>2. \A j \in 1 .. Len(c.data) : data[j].id = c.data[j].id /\ data[j].id # id
    BY <1>4
  <2>3. data[m].id = id
    BY <1>3, <1>4
  <2>4. \A i, j \in 1 .. Len(c.data) : data[i].id = data[j].id => i = j
    BY <1>1, <2>2, Zenon DEF Distinct
  <2> HIDE DEF m
  <2>5. \A i, j \in 1 .. Len(c.data) \cup {m} : data[i].id = data[j].id => i = j
    BY <2>2, <2>3, <2>4, Zenon
  <2> QED
    BY <1>4, <2>1, <2>5, Zenon DEF Distinct
<1>7. e \in Chunks /\ e.data = data /\ e.mixed = c.mixed
  BY <1>1, <1>2, <1>4, <1>5, <1>6 DEF Chunks
<1> QED
  BY <1>4, <1>5, <1>7 DEF e, u

LEMMA FinalizedChunk ==
  ASSUME NEW c \in Chunks,
         aggregated \in [1 .. SCAN_SAMPLING_CHUNK_DATA_SIZE -> Int]
  PROVE  LET e == Finalized(c)
         IN  /\ e \in Chunks /\ e.mixed = c.mixed /\ Len(e.data) = Len(c.data)
             /\ \A i \in 1 .. Len(c.data) :
                  /\ e.data[i].lo = c.data[i].lo /\ e.data[i].hi = c.data[i].hi
                  /\ e.data[i].rssi = AggregateResult(aggregated[i], c.data[i].count)
<1> DEFINE R(i) == AggregateResult(aggregated[i], c.data[i].count)
           data == [i \in DOMAIN c.data |-> [c.data[i] EXCEPT !.rssi = R(i)]]
           e == Finalized(c)
<1>1. /\ c \in [data : Seq(Devices), mixed : BOOLEAN] /\ c.data \in Seq(Devices)
      /\ Distinct(c.data) /\ Len(c.data) \in Nat
      /\ Len(c.data) <= SCAN_SAMPLING_CHUNK_DATA_SIZE
      /\ DOMAIN c.data = 1 .. Len(c.data)
  BY DEF Chunks
<1>2. e = [c EXCEPT !.data = data]
  BY DEF Finalized
<1>3. ASSUME NEW i \in 1 .. Len(c.data)
      PROVE  R(i) \in -128 .. 127
  <2>1. aggregated[i] \in Int
    BY <1>1, ScanAssumption
  <2> QED
    BY <2>1, DeviceType, ResultType, Zenon
<1> HIDE DEF e, R
<1>4. ASSUME NEW i \in 1 .. Len(c.data)
      PROVE  /\ data[i] \in Devices /\ data[i].id = c.data[i].id
             /\ data[i].lo = c.data[i].lo /\ data[i].hi = c.data[i].hi /\ data[i].rssi = R(i)
  <2>1. c.data[i] \in Devices
    BY <1>1
  <2>2. data[i] = [c.data[i] EXCEPT !.rssi = R(i)]
    BY <1>1
  <2>3. R(i) \in -128 .. 127
    BY <1>3
  <2> DEFINE d == c.data[i]
             r == R(i)
             x == data[i]
  <2>4. d \in Devices /\ r \in -128 .. 127 /\ x = [d EXCEPT !.rssi = r]
    BY <2>1, <2>2, <2>3, Zenon
  <2> HIDE DEF d, r, x, data
  <2>5. x \in Devices /\ x.id = d.id /\ x.lo = d.lo /\ x.hi = d.hi /\ x.rssi = r
    BY ONLY <2>4 DEF Devices
  <2> QED
    BY <2>5, Zenon DEF d, r, x
<1>5. data \in [1 .. Len(c.data) -> Devices]
  BY <1>1, <1>4
<1> HIDE DEF data
<1>6. data \in Seq(Devices) /\ Len(data) = Len(c.data)
  BY <1>1, <1>5, FcnIsSeq
<1>7. Distinct(data)
  BY <1>1, <1>4, <1>6, Zenon DEF Distinct
<1>8. e \in Chunks /\ e.data = data /\ e.mixed = c.mixed
  BY <1>1, <1>2, <1>6, <1>7 DEF Chunks
<1> QED
  BY <1>4, <1>6, <1>8, Zenon DEF e, R

LEMMA CoversFirst ==
  ASSUME NEW id, NEW rssi \in Rssi, NEW type
  PROVE  Covers(type, Device(id, rssi), rssi)
<1>1. rssi \in Int
  BY ScanAssumption
<1> QED
  BY <1>1 DEF Covers, Device

(* One more report. *)
LEMMA CoversNext ==
  ASSUME NEW d, NEW e, NEW agg \in Int, NEW rssi \in Int, NEW type,
         d.count \in Nat \ {0}, d.lo \in Int, d.hi \in Int,
         e.lo = Min2(d.lo, rssi), e.hi = Max2(d.hi, rssi), Covers(type, d, agg)
  PROVE  /\ e.count = d.count => Covers(type, e, agg)
         /\ e.count = d.count + 1 =>
              Covers(type, e, IF type = "MAX" THEN Max2(agg, rssi) ELSE agg + rssi)
<1> DEFINE n == d.count
           lo == d.lo
           hi == d.hi
           l == e.lo
           h == e.hi
<1>1. n \in Nat \ {0} /\ lo \in Int /\ hi \in Int
  OBVIOUS
<1>2. l \in Int /\ h \in Int /\ l <= lo /\ l <= rssi /\ hi <= h /\ rssi <= h
  BY DEF Min2, Max2
<1>3. IF type = "MAX" THEN lo <= agg /\ agg <= hi ELSE lo * n <= agg /\ agg <= hi * n
  BY DEF Covers
<1> HIDE DEF n, lo, hi, l, h
<1>4. l * n <= lo * n /\ hi * n <= h * n
  BY <1>1, <1>2, TimesMonotone
<1>5. l * (n + 1) = l * n + l /\ h * (n + 1) = h * n + h
  BY <1>1, <1>2
<1>6. l * n \in Int /\ h * n \in Int /\ lo * n \in Int /\ hi * n \in Int
  BY <1>1, <1>2
<1>7. IF type = "MAX" THEN l <= agg /\ agg <= h ELSE l * n <= agg /\ agg <= h * n
  BY <1>1, <1>2, <1>3, <1>4, <1>6
<1>8. IF type = "MAX" THEN l <= Max2(agg, rssi) /\ Max2(agg, rssi) <= h
      ELSE l * (n + 1) <= agg + rssi /\ agg + rssi <= h * (n + 1)
  BY <1>1, <1>2, <1>5, <1>6, <1>7 DEF Max2
<1> QED
  BY <1>7, <1>8 DEF Covers, n, lo, hi, l, h

LEMMA CoversResult ==
  ASSUME NEW c \in Chunks, NEW i \in 1 .. Len(c.data), NEW agg \in Int,
         Covers(aggregation, c.data[i], agg)
  PROVE  /\ c.data[i].lo <= AggregateResult(agg, c.data[i].count)
         /\ AggregateResult(agg, c.data[i].count) <= c.data[i].hi
<1> DEFINE lo == c.data[i].lo
           hi == c.data[i].hi
           n == c.data[i].count
           x == IF aggregation = "MAX" THEN agg ELSE Quotient(agg, n)
<1>1. /\ n \in Nat \ {0} /\ lo \in Int /\ hi \in Int
      /\ lo \in -128 .. 127 /\ hi \in -128 .. 127
  BY DeviceType, Zenon
<1>2. IF aggregation = "MAX" THEN lo <= agg /\ agg <= hi ELSE lo * n <= agg /\ agg <= hi * n
  BY DEF Covers
<1> HIDE DEF lo, hi, n
<1>3. x \in Int /\ lo <= x /\ x <= hi
  BY <1>1, <1>2, QuotientBetween
<1> HIDE DEF x
<1>4. x \in -128 .. 127
  BY <1>1, <1>3
<1>5. Int8(x) = x
  BY <1>3, <1>4, Int8Range
<1>6. AggregateResult(agg, n) = x
  BY <1>5 DEF AggregateResult, x
<1> QED
  BY <1>3, <1>6 DEF lo, hi, n

InRange(c) ==
  \A i \in 1 .. Len(c.data) : c.data[i].lo <= c.data[i].rssi /\ c.data[i].rssi <= c.data[i].hi

LEMMA InRangeSet ==
  ASSUME NEW c \in Chunks
  PROVE  (\A d \in ToSet(c.data) : d.lo <= d.rssi /\ d.rssi <= d.hi) <=> InRange(c)
<1>1. DOMAIN c.data = 1 .. Len(c.data)
  BY DEF Chunks
<1>2. ToSet(c.data) = {c.data[i] : i \in 1 .. Len(c.data)}
  BY <1>1 DEF ToSet
<1> QED
  BY <1>2, Zenon DEF InRange

LEMMA RangeNow ==
  ASSUME slots \in [Slots -> Chunks]
  PROVE  RssiInRange <=>
           (~late /\ ~overrun =>
              \A s \in Slots : s # write_pos /\ ~slots[s].mixed => InRange(slots[s]))
<1>1. \A s \in Slots : slots[s] \in Chunks
  OBVIOUS
<1> QED
  BY <1>1, InRangeSet, Zenon DEF RssiInRange

LEMMA RangeNext ==
  ASSUME slots' \in [Slots -> Chunks]
  PROVE  RssiInRange' <=>
           (~late' /\ ~overrun' =>
              \A s \in Slots : s # write_pos' /\ ~slots'[s].mixed => InRange(slots'[s]))
<1>1. \A s \in Slots : slots'[s] \in Chunks
  OBVIOUS
<1> QED
  BY <1>1, InRangeSet, Zenon DEF RssiInRange

LEMMA ImportantNext ==
  ImportantKept' <=> (pc' = "store" => Important(seen', scan_chunk'))
BY DEF ImportantKept, Important
-----------------------------------------------------------------------------
(* Steps. *)

(* The chunks, the aggregates and what is stored stay as they are. *)
LEMMA DataStays ==
  ASSUME DInv,
         UNCHANGED <<aggregation, chunk, slots, aggregated, write_pos, open_write>>,
         UNCHANGED <<scan_chunk, seen>> \/ (scan_chunk' = << >> /\ seen' = << >>),
         UNCHANGED process \/ pc' # "store",
         failed' \in BOOLEAN, fault' \in BOOLEAN, scheduled' \in BOOLEAN,
         late' \in BOOLEAN, overrun' \in BOOLEAN, late => late', overrun => overrun'
  PROVE  DInv'
<1> USE DEF DInv
<1>1. DataTypes'
  <2>1. /\ scan_chunk' \in Seq(Devices) /\ Len(scan_chunk') <= SCAN_CHUNK_DATA_SIZE
        /\ seen' \in Seq(Devices)
    <3>1. CASE UNCHANGED <<scan_chunk, seen>>
      BY <3>1 DEF DataTypes
    <3>2. CASE scan_chunk' = << >> /\ seen' = << >>
      BY <3>2, ScanAssumption
    <3> QED
      BY <3>1, <3>2
  <2> QED
    BY <2>1 DEF DataTypes
<1>2. OpenIsCurrent' /\ AggregateInRange' /\ RssiInRange'
  BY DEF OpenIsCurrent, AggregateInRange, RssiInRange
<1>3. ImportantKept'
  <2>1. CASE UNCHANGED process
    BY <2>1 DEF ImportantKept, process
  <2>2. CASE pc' # "store"
    BY <2>2 DEF ImportantKept
  <2> QED
    BY <2>1, <2>2
<1> QED
  BY <1>1, <1>2, <1>3

(* sampling_start_scan: the aggregation may change. *)
LEMMA AggregationStep ==
  ASSUME IInv, DInv, NEW type \in {"MAX", "MEAN"}, Aggregation(type),
         UNCHANGED <<chunk, aggregated, write_pos, open_write, scan_chunk, seen>>, pc' # "store",
         failed' \in BOOLEAN, fault' \in BOOLEAN, scheduled' \in BOOLEAN,
         late' \in BOOLEAN, overrun' \in BOOLEAN, late => late', overrun => overrun'
  PROVE  DInv'
<1>1. DataTypes /\ OpenIsCurrent /\ AggregateInRange /\ RssiInRange /\ ImportantKept
  BY DEF DInv
<1>2. slots \in [Slots -> Chunks] /\ write_pos \in Slots /\ write_pos # NULL
  BY <1>1 DEF DataTypes, IInv, ControlTypes, Slots, NULL
<1> DEFINE hit == chunk # NULL /\ open_write /\ type # aggregation /\ slots[chunk].data # << >>
<1>3. slots' = IF hit THEN [slots EXCEPT ![chunk].mixed = TRUE] ELSE slots
  BY DEF Aggregation
<1>4. hit => chunk \in Slots /\ chunk = write_pos
  BY <1>1 DEF DataTypes, OpenIsCurrent
<1> HIDE DEF hit
<1>5. \A s \in Slots : /\ slots'[s] \in Chunks /\ slots'[s].data = slots[s].data
                       /\ slots[s].mixed => slots'[s].mixed
  <2>1. CASE hit
    <3>1. slots' = [slots EXCEPT ![chunk] = [slots[chunk] EXCEPT !.mixed = TRUE]]
      BY <1>3, <2>1
    <3>2. slots[chunk] \in Chunks
      BY <1>2, <1>4, <2>1
    <3> QED
      BY <1>2, <3>1, <3>2, MixedChunk
  <2>2. CASE ~hit
    BY <1>2, <1>3, <2>2
  <2> QED
    BY <2>1, <2>2
<1>6. slots' \in [Slots -> Chunks]
  <2>1. DOMAIN slots' = Slots /\ slots' = [s \in Slots |-> slots'[s]]
    BY <1>2, <1>3
  <2> QED
    BY <1>5, <2>1
<1>7. DataTypes'
  BY <1>1, <1>6 DEF DataTypes, Aggregation
<1>8. OpenIsCurrent'
  BY <1>1 DEF OpenIsCurrent
<1>9. AggregateInRange'
  <2> SUFFICES ASSUME ~late', ~overrun', open_write', ~slots'[write_pos].mixed,
                      NEW i \in 1 .. Len(slots'[write_pos].data)
               PROVE  Covers(type, slots'[write_pos].data[i], aggregated[i])
    BY DEF AggregateInRange, Aggregation
  <2>1. chunk = write_pos /\ open_write /\ ~slots[write_pos].mixed /\ ~late /\ ~overrun
    BY <1>1, <1>2, <1>5 DEF OpenIsCurrent
  <2>2. ~hit
    <3> SUFFICES ASSUME hit PROVE FALSE
      OBVIOUS
    <3>1. slots' = [slots EXCEPT ![write_pos] = [slots[write_pos] EXCEPT !.mixed = TRUE]]
      BY <1>3, <1>4
    <3>2. slots[write_pos] \in Chunks
      BY <1>2
    <3>3. slots'[write_pos].mixed = TRUE
      BY <1>2, <3>1, <3>2, MixedChunk
    <3> QED
      BY <3>3
  <2>3. slots' = slots
    BY <1>3, <2>2
  <2>4. slots[write_pos].data # << >>
    <3> SUFFICES ASSUME slots[write_pos].data = << >> PROVE FALSE
      OBVIOUS
    <3> QED
      BY <2>3
  <2>5. type = aggregation
    BY <1>2, <2>1, <2>2, <2>4 DEF hit
  <2> QED
    BY <1>1, <2>1, <2>3, <2>5 DEF AggregateInRange
<1>10. RssiInRange'
  <2>1. ~late /\ ~overrun =>
          \A s \in Slots : s # write_pos /\ ~slots[s].mixed => InRange(slots[s])
    BY <1>1, <1>2, RangeNow
  <2>2. \A s \in Slots : InRange(slots[s]) => InRange(slots'[s])
    BY <1>5, Zenon DEF InRange
  <2> QED
    BY <1>5, <1>6, <2>1, <2>2, RangeNext, Zenon
<1>11. ImportantKept'
  BY DEF ImportantKept
<1> QED
  BY <1>7, <1>8, <1>9, <1>10, <1>11 DEF DInv

(* sampling_setup_scan_sampling_chunk: an empty chunk is opened, which the *)
(* refused scan closes at once.                                            *)
LEMMA SetupStep ==
  ASSUME IInv, DInv, SetupChunk, write_pos' \in Slots, open_write' => write_pos' = write_pos,
         UNCHANGED <<aggregation, failed, fault, late, process>>,
         scheduled' \in BOOLEAN, overrun' \in BOOLEAN, overrun => overrun'
  PROVE  DInv'
<1>1. DataTypes /\ RssiInRange /\ ImportantKept
  BY DEF DInv
<1>2. slots \in [Slots -> Chunks] /\ write_pos \in Slots
  BY <1>1 DEF DataTypes, IInv, ControlTypes
<1>3. slots' = [slots EXCEPT ![write_pos] = Empty] /\ chunk' = write_pos /\ aggregated' = Unused
  BY DEF SetupChunk
<1>4. slots' \in [Slots -> Chunks]
  BY <1>2, <1>3, EmptyChunk
<1>5. slots'[write_pos] = Empty /\ \A s \in Slots : s # write_pos => slots'[s] = slots[s]
  BY <1>2, <1>3
<1>6. aggregated' \in [1 .. SCAN_SAMPLING_CHUNK_DATA_SIZE -> Int]
  BY <1>3 DEF Unused
<1>7. DataTypes'
  BY <1>1, <1>2, <1>3, <1>4, <1>6 DEF DataTypes, process
<1>8. OpenIsCurrent'
  BY <1>3 DEF OpenIsCurrent
<1>9. AggregateInRange'
  <2> SUFFICES ASSUME open_write',
                      NEW i \in 1 .. Len(slots'[write_pos'].data)
               PROVE  FALSE
    BY DEF AggregateInRange
  <2>1. Len(slots'[write_pos'].data) = 0
    BY <1>5, EmptyChunk
  <2> QED
    BY <2>1
<1>10. RssiInRange'
  <2>1. ~late /\ ~overrun =>
          \A s \in Slots : s # write_pos /\ ~slots[s].mixed => InRange(slots[s])
    BY <1>1, <1>2, RangeNow
  <2>2. InRange(Empty)
    BY EmptyChunk DEF InRange
  <2> QED
    BY <1>4, <1>5, <2>1, <2>2, RangeNext, Zenon
<1>11. ImportantKept'
  BY <1>1 DEF ImportantKept, process
<1> QED
  BY <1>7, <1>8, <1>9, <1>10, <1>11 DEF DInv

(* sampling_finalize_scan_sampling_chunk *)
LEMMA FinalizeStep ==
  ASSUME IInv, DInv, OnScanTimeout, sampling, chunk # NULL
  PROVE  DInv'
<1>1. DataTypes /\ AggregateInRange /\ RssiInRange /\ ImportantKept /\ OwnChunk
  BY DEF DInv, IInv
<1>2. /\ slots \in [Slots -> Chunks] /\ write_pos \in Slots /\ chunk \in Slots
      /\ aggregated \in [1 .. SCAN_SAMPLING_CHUNK_DATA_SIZE -> Int]
  BY <1>1 DEF DataTypes, IInv, ControlTypes
<1>3. /\ slots' = [slots EXCEPT ![chunk] = Finalized(slots[chunk])]
      /\ open_write' = FALSE /\ scheduled' = TRUE
      /\ UNCHANGED <<config, chunk, aggregated, fault, late, overrun, process>>
  BY DEF OnScanTimeout, FinalizeChunk
<1> DEFINE c == slots[chunk]
<1>4. c \in Chunks
  BY <1>2
<1>5. slots' \in [Slots -> Chunks]
  BY <1>2, <1>3, <1>4, FinalizedChunk
<1>6. slots'[chunk] = Finalized(c) /\ \A s \in Slots : s # chunk => slots'[s] = slots[s]
  BY <1>2, <1>3
<1>7. DataTypes'
  BY <1>1, <1>3, <1>5 DEF DataTypes, process, config
<1>8. OpenIsCurrent' /\ AggregateInRange'
  BY <1>3 DEF OpenIsCurrent, AggregateInRange
<1>9. RssiInRange'
  <2>1. ~late /\ ~overrun =>
          \A s \in Slots : s # write_pos /\ ~slots[s].mixed => InRange(slots[s])
    BY <1>1, <1>2, RangeNow
  <2>2. ASSUME ~late, ~overrun
        PROVE  /\ chunk = write_pos
               /\ ~Finalized(c).mixed => InRange(Finalized(c))
    <3>1. open_write /\ chunk = write_pos
      BY <1>1, <2>2 DEF OwnChunk, OnScanTimeout
    <3>2. ASSUME ~c.mixed, NEW i \in 1 .. Len(c.data)
          PROVE  /\ c.data[i].lo <= AggregateResult(aggregated[i], c.data[i].count)
                 /\ AggregateResult(aggregated[i], c.data[i].count) <= c.data[i].hi
      <4>1. Covers(aggregation, c.data[i], aggregated[i])
        BY <1>1, <2>2, <3>1, <3>2 DEF AggregateInRange
      <4>2. aggregated[i] \in Int
        <5>1. i \in 1 .. SCAN_SAMPLING_CHUNK_DATA_SIZE
          BY <1>4, <3>2, ScanAssumption DEF Chunks
        <5> QED
          BY <1>2, <5>1
      <4> HIDE DEF c
      <4> QED
        BY <1>4, <4>1, <4>2, CoversResult
    <3> HIDE DEF c
    <3>3. /\ Finalized(c).mixed = c.mixed /\ Len(Finalized(c).data) = Len(c.data)
          /\ \A i \in 1 .. Len(c.data) :
               /\ Finalized(c).data[i].lo = c.data[i].lo
               /\ Finalized(c).data[i].hi = c.data[i].hi
               /\ Finalized(c).data[i].rssi = AggregateResult(aggregated[i], c.data[i].count)
      BY <1>2, <1>4, FinalizedChunk, Zenon
    <3>4. ~c.mixed => InRange(Finalized(c))
      BY <3>2, <3>3, Zenon DEF InRange
    <3> QED
      BY <3>1, <3>3, <3>4
  <2>3. late' = late /\ overrun' = overrun
    BY <1>3
  <2> HIDE DEF c
  <2> QED
    BY <1>5, <1>6, <2>1, <2>2, <2>3, RangeNext, Zenon
<1>10. ImportantKept'
  BY <1>1, <1>3 DEF ImportantKept, process
<1> QED
  BY <1>7, <1>8, <1>9, <1>10 DEF DInv

(* A report changes the chunk that is being sampled to e, and keeps what   *)
(* is aggregated in range.                                                 *)
LEMMA ReportStep ==
  ASSUME IInv, DInv, scanning, sampling, chunk # NULL, NEW e \in Chunks,
         slots' = [slots EXCEPT ![chunk] = e], e.mixed = slots[chunk].mixed,
         aggregated' \in [1 .. SCAN_SAMPLING_CHUNK_DATA_SIZE -> Int],
         (\A i \in 1 .. Len(slots[chunk].data) :
            Covers(aggregation, slots[chunk].data[i], aggregated[i]))
           => (\A i \in 1 .. Len(e.data) : Covers(aggregation, e.data[i], aggregated'[i])),
         UNCHANGED <<config, write_pos, open_write, chunk, fault, late, overrun, scheduled,
                     process>>
  PROVE  DInv'
<1>1. DataTypes /\ OpenIsCurrent /\ AggregateInRange /\ RssiInRange /\ ImportantKept /\ OwnChunk
  BY DEF DInv, IInv
<1>2. slots \in [Slots -> Chunks] /\ write_pos \in Slots /\ chunk \in Slots
  BY <1>1 DEF DataTypes, IInv, ControlTypes
<1>3. slots' \in [Slots -> Chunks]
  BY <1>2
<1>4. slots'[chunk] = e /\ \A s \in Slots : s # chunk => slots'[s] = slots[s]
  BY <1>2
<1>5. DataTypes'
  BY <1>1, <1>3 DEF DataTypes, process, config
<1>6. OpenIsCurrent'
  BY <1>1 DEF OpenIsCurrent
<1>7. AggregateInRange'
  <2> SUFFICES ASSUME ~late, ~overrun, open_write, ~slots'[write_pos].mixed
               PROVE  \A i \in 1 .. Len(slots'[write_pos].data) :
                        Covers(aggregation, slots'[write_pos].data[i], aggregated'[i])
    BY DEF AggregateInRange, config
  <2>1. chunk = write_pos
    BY <1>1 DEF OpenIsCurrent
  <2>2. ~slots[write_pos].mixed
    BY <1>4, <2>1
  <2>3. \A i \in 1 .. Len(slots[chunk].data) :
          Covers(aggregation, slots[chunk].data[i], aggregated[i])
    BY <1>1, <2>1, <2>2 DEF AggregateInRange
  <2> QED
    BY <1>4, <2>1, <2>3
<1>8. RssiInRange'
  <2>1. ~late /\ ~overrun =>
          \A s \in Slots : s # write_pos /\ ~slots[s].mixed => InRange(slots[s])
    BY <1>1, <1>2, RangeNow
  <2>2. ~late /\ ~overrun => chunk = write_pos
    BY <1>1 DEF OwnChunk
  <2>3. late' = late /\ overrun' = overrun /\ write_pos' = write_pos
    OBVIOUS
  <2>4. ~late' /\ ~overrun' =>
          \A s \in Slots : s # write_pos' /\ ~slots'[s].mixed => InRange(slots'[s])
    BY <1>4, <2>1, <2>2, <2>3
  <2> QED
    BY <1>3, <2>4, RangeNext
<1>9. ImportantKept'
  BY <1>1 DEF ImportantKept, process
<1> QED
  BY <1>5, <1>6, <1>7, <1>8, <1>9 DEF DInv

(* sampling_on_scan_report_callback *)
LEMMA ReportData ==
  ASSUME IInv, DInv, NEW id \in Badges \cup Beacons, NEW rssi \in Rssi, Report(id, rssi)
  PROVE  DInv'
<1>1. DataTypes
  BY DEF DInv
<1>2. CASE chunk = NULL
  <2>1. /\ UNCHANGED <<aggregation, chunk, slots, aggregated, write_pos, open_write>>
        /\ UNCHANGED process /\ UNCHANGED <<failed, scheduled, late, overrun>> /\ fault' = TRUE
    BY <1>2 DEF Report, config
  <2> QED
    BY <1>1, <2>1, DataStays DEF DataTypes, process
<1>3. CASE chunk # NULL
  <2> DEFINE c == slots[chunk]
             data == c.data
             known == {i \in DOMAIN c.data : c.data[i].id = id}
  <2>1. /\ c \in Chunks /\ c.data \in Seq(Devices) /\ DOMAIN data = 1 .. Len(c.data)
        /\ Len(c.data) \in Nat /\ Len(c.data) <= SCAN_SAMPLING_CHUNK_DATA_SIZE
        /\ aggregated \in [1 .. SCAN_SAMPLING_CHUNK_DATA_SIZE -> Int]
        /\ rssi \in Int
    <3>1. c \in Chunks
      BY <1>1, <1>3 DEF DataTypes
    <3> HIDE DEF c
    <3>2. c.data \in Seq(Devices) /\ Len(c.data) <= SCAN_SAMPLING_CHUNK_DATA_SIZE
      BY <3>1 DEF Chunks
    <3>3. Len(c.data) \in Nat /\ DOMAIN data = 1 .. Len(c.data)
      BY <3>2
    <3>4. aggregated \in [1 .. SCAN_SAMPLING_CHUNK_DATA_SIZE -> Int]
      BY <1>1 DEF DataTypes
    <3>5. rssi \in Int
      BY ScanAssumption
    <3> QED
      BY <3>1, <3>2, <3>3, <3>4, <3>5
  <2>2. \A i \in 1 .. Len(c.data) : aggregated[i] \in Int
    BY <2>1, ScanAssumption
  <2>3. /\ scanning /\ sampling
        /\ UNCHANGED <<config, write_pos, open_write, chunk, fault, late, overrun, scheduled,
                       process>>
    BY <1>3 DEF Report
  <2>4. ASSUME NEW i \in known,
               slots' = [slots EXCEPT ![chunk] = Counted(c, i, rssi)],
               aggregated' = IF c.data[i].count < MaxCount
                               THEN [aggregated EXCEPT ![i] = Aggregate(aggregated[i], rssi)]
                               ELSE aggregated
        PROVE  DInv'
    <3> DEFINE e == Counted(c, i, rssi)
               agg == IF aggregation = "MAX" THEN Max2(aggregated[i], rssi)
                                              ELSE aggregated[i] + rssi
    <3>1. i \in 1 .. Len(c.data)
      BY <2>1
    <3> HIDE DEF c, known
    <3>2. /\ e \in Chunks /\ e.mixed = c.mixed /\ Len(e.data) = Len(c.data)
          /\ \A j \in 1 .. Len(c.data) : j # i => e.data[j] = c.data[j]
          /\ e.data[i].count = Min2(c.data[i].count + 1, MaxCount)
          /\ e.data[i].lo = Min2(c.data[i].lo, rssi)
          /\ e.data[i].hi = Max2(c.data[i].hi, rssi)
      BY <2>1, <3>1, CountedChunk, Zenon
    <3>3. agg \in Int
      BY <2>1, <2>2, <3>1 DEF Max2
    <3>4. /\ aggregated' \in [1 .. SCAN_SAMPLING_CHUNK_DATA_SIZE -> Int]
          /\ aggregated'[i] = IF c.data[i].count < MaxCount THEN agg ELSE aggregated[i]
          /\ \A j \in 1 .. Len(c.data) : j # i => aggregated'[j] = aggregated[j]
      <4>1. i \in 1 .. SCAN_SAMPLING_CHUNK_DATA_SIZE
        BY <2>1, <3>1, ScanAssumption
      <4>2. agg = Aggregate(aggregated[i], rssi)
        BY DEF Aggregate
      <4> HIDE DEF agg
      <4> QED
        BY <2>1, <2>4, <3>3, <4>1, <4>2
    <3> HIDE DEF e, agg
    <3>5. ASSUME \A j \in 1 .. Len(c.data) : Covers(aggregation, c.data[j], aggregated[j])
          PROVE  \A j \in 1 .. Len(e.data) : Covers(aggregation, e.data[j], aggregated'[j])
      <4>1. c.data[i].count \in Nat \ {0} /\ c.data[i].lo \in Int /\ c.data[i].hi \in Int
        BY <2>1, <3>1, DeviceType, Zenon
      <4>2. c.data[i].count \in 1 .. MaxCount
        BY <2>1, <3>1, DeviceType DEF Devices
      <4>3. aggregated[i] \in Int /\ Covers(aggregation, c.data[i], aggregated[i])
        BY <2>2, <3>1, <3>5
      <4>4. /\ e.data[i].count = c.data[i].count => Covers(aggregation, e.data[i], aggregated[i])
            /\ e.data[i].count = c.data[i].count + 1 => Covers(aggregation, e.data[i], agg)
        BY <2>1, <3>2, <4>1, <4>3, CoversNext DEF agg
      <4>5. IF c.data[i].count < MaxCount THEN e.data[i].count = c.data[i].count + 1
                                          ELSE e.data[i].count = c.data[i].count
        <5>1. \A n \in 1 .. MaxCount :
                Min2(n + 1, MaxCount) = IF n < MaxCount THEN n + 1 ELSE n
          BY ScanAssumption DEF Min2
        <5>2. Min2(c.data[i].count + 1, MaxCount)
                = IF c.data[i].count < MaxCount THEN c.data[i].count + 1 ELSE c.data[i].count
          BY <4>2, <5>1, Zenon
        <5> QED
          BY <3>2, <5>2, Zenon
      <4>6. Covers(aggregation, e.data[i], aggregated'[i])
        BY <3>4, <4>4, <4>5, Zenon
      <4> QED
        BY <3>2, <3>4, <3>5, <4>6, Zenon
    <3> QED
      BY <1>3, <2>3, <2>4, <3>2, <3>4, <3>5, ReportStep DEF c, e
  <2>5. ASSUME known = {}, HasRoom(c),
               slots' = [slots EXCEPT ![chunk] = Added(c, id, rssi)],
               aggregated' = [aggregated EXCEPT ![Len(c.data) + 1] = rssi]
        PROVE  DInv'
    <3> DEFINE e == Added(c, id, rssi)
               m == Len(c.data) + 1
    <3>1. \A i \in 1 .. Len(c.data) : c.data[i].id # id
      BY <2>1, <2>5
    <3> HIDE DEF c, known
    <3>2. /\ e \in Chunks /\ e.mixed = c.mixed /\ Len(e.data) = m
          /\ m \in 1 .. SCAN_SAMPLING_CHUNK_DATA_SIZE
          /\ \A j \in 1 .. Len(c.data) : e.data[j] = c.data[j]
          /\ e.data[m] = Device(id, rssi)
      BY <2>1, <2>5, <3>1, AddedChunk, Zenon
    <3>3. /\ aggregated' \in [1 .. SCAN_SAMPLING_CHUNK_DATA_SIZE -> Int]
          /\ aggregated'[m] = rssi
          /\ \A j \in 1 .. Len(c.data) : aggregated'[j] = aggregated[j]
      BY <2>1, <2>5, <3>2, ScanAssumption
    <3>4. 1 .. m = 1 .. Len(c.data) \cup {m}
      BY <2>1
    <3> HIDE DEF e, m
    <3>5. Covers(aggregation, e.data[m], aggregated'[m])
      BY <3>2, <3>3, CoversFirst, Zenon
    <3>6. ASSUME \A j \in 1 .. Len(c.data) : Covers(aggregation, c.data[j], aggregated[j])
          PROVE  \A j \in 1 .. Len(e.data) : Covers(aggregation, e.data[j], aggregated'[j])
      BY <3>2, <3>3, <3>4, <3>5, <3>6, Zenon
    <3> QED
      BY <1>3, <2>3, <2>5, <3>2, <3>3, <3>6, ReportStep DEF c, e
  <2>6. ASSUME UNCHANGED <<slots, aggregated>>
        PROVE  DInv'
    BY <1>1, <2>3, <2>6, DataStays DEF DataTypes, process, config
  <2> QED
    <3>1. \/ \E i \in known :
               /\ slots' = [slots EXCEPT ![chunk] = Counted(c, i, rssi)]
               /\ aggregated' = IF c.data[i].count < MaxCount
                                  THEN [aggregated EXCEPT ![i] = Aggregate(aggregated[i], rssi)]
                                  ELSE aggregated
          \/ /\ known = {} /\ HasRoom(c)
             /\ slots' = [slots EXCEPT ![chunk] = Added(c, id, rssi)]
             /\ aggregated' = [aggregated EXCEPT ![Len(c.data) + 1] = rssi]
          \/ UNCHANGED <<slots, aggregated>>
      BY <1>3, Zenon DEF Report
    <3> HIDE DEF c, known
    <3> QED
      BY <3>1, <2>4, <2>5, <2>6, Zenon
<1> QED
  BY <1>2, <1>3

(* processing_process_scan_sampling_chunk *)
LEMMA ProcessData ==
  ASSUME IInv, DInv, ProcessChunk
  PROVE  DInv'
<1>1. DataTypes /\ OpenIsCurrent /\ AggregateInRange /\ RssiInRange
  BY DEF DInv
<1>2. /\ slots \in [Slots -> Chunks] /\ write_pos \in Slots /\ read_pos \in Slots
      /\ scheduled \in BOOLEAN
  BY <1>1 DEF DataTypes, IInv, ControlTypes
<1>3. /\ UNCHANGED <<config, write_pos, open_write, sampler>>
      /\ scheduled' \in BOOLEAN
  BY <1>2 DEF ProcessChunk
<1>4. CASE read_pos = write_pos
  <2>1. pc' = "idle" /\ UNCHANGED <<slots, scan_chunk, seen>>
    BY <1>4 DEF ProcessChunk
  <2> QED
    BY <1>1, <1>3, <2>1, DataStays DEF DataTypes, config, sampler
<1>5. CASE read_pos # write_pos
  <2> DEFINE c == slots[read_pos]
             data == c.data
  <2>1. /\ seen' = data
        /\ IF Len(data) > SCAN_CHUNK_DATA_SIZE
             THEN \E q \in SortScan(data) : scan_chunk' = Cut(q)
             ELSE scan_chunk' = data
        /\ slots' = [slots EXCEPT ![read_pos].data = scan_chunk']
        /\ pc' = "store"
    BY <1>5 DEF ProcessChunk
  <2>2. c \in Chunks
    BY <1>2
  <2> HIDE DEF c
  <2>3. data \in Seq(Devices) /\ Distinct(data) /\ Len(data) \in Nat
    BY <2>2 DEF Chunks
  <2> HIDE DEF data
  <2>4. /\ scan_chunk' \in Seq(Devices) /\ Distinct(scan_chunk')
        /\ Len(scan_chunk') <= SCAN_CHUNK_DATA_SIZE
        /\ Len(scan_chunk') <= Len(data)
        /\ Important(data, scan_chunk')
    <3>1. CASE Len(data) > SCAN_CHUNK_DATA_SIZE
      <4>1. PICK q \in SortScan(data) : scan_chunk' = Cut(q)
        BY <2>1, <3>1
      <4>2. /\ Cut(q) \in Seq(Devices) /\ Len(Cut(q)) = SCAN_CHUNK_DATA_SIZE
            /\ Distinct(Cut(q)) /\ Important(data, Cut(q))
        BY <2>3, <3>1, CutImportant
      <4> QED
        BY <2>3, <3>1, <4>1, <4>2, ScanAssumption
    <3>2. CASE ~(Len(data) > SCAN_CHUNK_DATA_SIZE)
      <4>1. Len(data) <= SCAN_CHUNK_DATA_SIZE /\ scan_chunk' = data
        BY <2>1, <2>3, <3>2, ScanAssumption
      <4> QED
        BY <2>3, <4>1, ShortImportant
    <3> QED
      BY <3>1, <3>2
  <2> DEFINE e == [c EXCEPT !.data = scan_chunk']
  <2>5. e \in Chunks /\ e.data = scan_chunk' /\ e.mixed = c.mixed
    BY <2>2, <2>4, StoredChunk DEF data
  <2>6. slots' = [slots EXCEPT ![read_pos] = e]
    BY <2>1 DEF c
  <2> HIDE DEF e
  <2>7. slots' \in [Slots -> Chunks]
    BY <1>2, <2>5, <2>6
  <2>8. slots'[read_pos] = e /\ \A s \in Slots : s # read_pos => slots'[s] = slots[s]
    BY <1>2, <2>6
  <2>9. DataTypes'
    BY <1>1, <1>3, <2>1, <2>3, <2>4, <2>7 DEF DataTypes, config, sampler
  <2>10. OpenIsCurrent'
    BY <1>1, <1>3 DEF OpenIsCurrent, sampler
  <2>11. AggregateInRange'
    <3>1. slots'[write_pos] = slots[write_pos]
      BY <1>2, <1>5, <2>8
    <3> QED
      BY <1>1, <1>3, <3>1 DEF AggregateInRange, config, sampler
  <2>12. RssiInRange'
    <3>1. ToSet(scan_chunk') \subseteq ToSet(data)
      BY <2>4 DEF Important
    <3>2. late' = late /\ overrun' = overrun /\ write_pos' = write_pos
      BY <1>3 DEF sampler
    <3>3. ASSUME ~late, ~overrun, NEW s \in Slots, s # write_pos, ~slots'[s].mixed,
                 NEW d \in ToSet(slots'[s].data)
          PROVE  d.lo <= d.rssi /\ d.rssi <= d.hi
      <4>1. ~slots[s].mixed
        BY <2>5, <2>8, <3>3 DEF c
      <4>2. d \in ToSet(slots[s].data)
        <5>1. CASE s = read_pos
          BY <2>5, <2>8, <3>1, <3>3, <5>1 DEF c, data
        <5>2. CASE s # read_pos
          BY <2>8, <3>3, <5>2
        <5> QED
          BY <5>1, <5>2
      <4> QED
        BY <1>1, <3>3, <4>1, <4>2 DEF RssiInRange
    <3> QED
      BY <3>2, <3>3 DEF RssiInRange
  <2>13. ImportantKept'
    BY <2>1, <2>4, ImportantNext
  <2> QED
    BY <2>9, <2>10, <2>11, <2>12, <2>13 DEF DInv
<1> QED
  BY <1>4, <1>5

LEMMA DataInductive == IInv /\ DInv /\ [Next]_vars => DInv'
<1> SUFFICES ASSUME IInv, DInv, [Next]_vars
             PROVE  DInv'
  OBVIOUS
<1>0. DataTypes /\ ControlTypes
  BY DEF IInv, DInv
<1>1. ASSUME NEW u \in Users, NEW type \in {"MAX", "MEAN"}, NEW changed,
             StartScan(u, type, changed)
      PROVE  DInv'
  BY <1>0, <1>1, AggregationStep DEF StartScan, DataTypes, sampler
<1>2. ASSUME NEW u \in Users, StopScan(u)
      PROVE  DInv'
  BY <1>0, <1>2, DataStays DEF StopScan, DataTypes, config, fifo, sampler
<1>3. ASSUME NEW u \in Users, Timeout(u)
      PROVE  DInv'
  BY <1>0, <1>3, DataStays DEF Timeout, DataTypes, fifo, sampler, process
<1>4. CASE JoinSampling
  BY <1>0, <1>4, DataStays DEF JoinSampling, DataTypes, config, fifo, sampler
<1>5. CASE StopTimer \/ StartTimer \/ StartFails \/ StopRadio
  BY <1>0, <1>5, DataStays
  DEF StopTimer, StartTimer, StartFails, StopRadio, Return, DataTypes, fifo, sampler
<1>6. CASE LoadConfiguration \/ WriteConfiguration
  BY <1>0, <1>6, DataStays
  DEF LoadConfiguration, WriteConfiguration, Return, DataTypes, ControlTypes, config, fifo, sampler
<1>7. CASE ScanStarts
  <2>1. CASE sampling
    BY <1>0, <1>7, <2>1, SetupStep DEF ScanStarts, DataTypes, ControlTypes, config
  <2>2. CASE ~sampling
    BY <1>0, <1>7, <2>2, DataStays DEF ScanStarts, DataTypes, ControlTypes, config, process
  <2> QED
    BY <2>1, <2>2
<1>8. CASE ScanRefused
  <2>1. CASE sampling
    BY <1>0, <1>8, <2>1, SetupStep, ClosedIsSlot DEF ScanRefused, DataTypes, ControlTypes, config
  <2>2. CASE ~sampling
    BY <1>0, <1>8, <2>2, DataStays DEF ScanRefused, DataTypes, ControlTypes, config, process
  <2> QED
    BY <2>1, <2>2
<1>9. CASE ScanExpires
  BY <1>0, <1>9, DataStays DEF ScanExpires, DataTypes, config, fifo, sampler, process
<1>10. CASE OnScanTimeout
  <2>1. CASE sampling /\ chunk # NULL
    BY <1>10, <2>1, FinalizeStep
  <2>2. CASE ~sampling \/ chunk = NULL
    <3>1. /\ UNCHANGED <<config, fifo, chunk, aggregated, late, overrun, process, scheduled>>
          /\ fault' \in BOOLEAN
      BY <1>0, <1>10, <2>2 DEF OnScanTimeout, FinalizeChunk, DataTypes
    <3> QED
      BY <1>0, <3>1, DataStays DEF DataTypes, config, fifo, process
  <2> QED
    BY <2>1, <2>2
<1>11. ASSUME NEW id \in Badges \cup Beacons, NEW rssi \in Rssi, Report(id, rssi)
       PROVE  DInv'
  BY <1>11, ReportData
<1>12. CASE ProcessChunk
  BY <1>12, ProcessData
<1>13. CASE StoreBusy
  BY <1>0, <1>13, DataStays DEF StoreBusy, DataTypes, config, fifo, sampler
<1>14. CASE StoreDone
  BY <1>0, <1>14, DataStays DEF StoreDone, DataTypes, config, sampler
<1>15. CASE UNCHANGED vars
  BY <1>0, <1>15, DataStays DEF vars, DataTypes, config, fifo, sampler, process
<1> QED
  BY <1>1, <1>2, <1>3, <1>4, <1>5, <1>6, <1>7, <1>8, <1>9, <1>10, <1>11, <1>12,
     <1>13, <1>14, <1>15 DEF Next

LEMMA DataInitially == Init => DInv
<1> SUFFICES ASSUME Init
             PROVE  DInv
  OBVIOUS
<1>1. slots \in [Slots -> Chunks] /\ \A s \in Slots : slots[s] = Empty
  BY EmptyChunk DEF Init
<1>2. aggregated \in [1 .. SCAN_SAMPLING_CHUNK_DATA_SIZE -> Int]
  BY DEF Init, Unused
<1>3. DataTypes
  <2>1. << >> \in Seq(Devices) /\ Len(<< >>) <= SCAN_CHUNK_DATA_SIZE
    BY ScanAssumption
  <2> QED
    BY <1>1, <1>2, <2>1 DEF Init, DataTypes
<1>4. OpenIsCurrent /\ AggregateInRange
  BY DEF Init, OpenIsCurrent, AggregateInRange
<1>5. InRange(Empty)
  BY EmptyChunk DEF InRange
<1>6. RssiInRange
  BY <1>1, <1>5, RangeNow
<1>7. ImportantKept
  BY DEF Init, ImportantKept
<1> QED
  BY <1>3, <1>4, <1>6, <1>7 DEF DInv

LEMMA DataInvariant == Spec => [](IInv /\ DInv)
BY Initially, Inductive, DataInitially, DataInductive, PTL DEF Spec
-----------------------------------------------------------------------------
(* Positions, pointers and flags stay in their ranges, no chunk outgrows   *)
(* its array (the test of scan_result_data_count in                        *)
(* sampling_on_scan_report_callback, the cut in                            *)
(* processing_process_scan_sampling_chunk), and every strength that is     *)
(* stored is an int8_t.                                                    *)
THEOREM TypeCorrect == Spec => []TypeOK
<1>1. IInv /\ DInv => TypeOK
  <2> SUFFICES ASSUME IInv, DInv
               PROVE  TypeOK
    OBVIOUS
  <2>1. DataTypes /\ ControlTypes
    BY DEF IInv, DInv
  <2>2. ASSUME NEW s \in Slots
        PROVE  /\ Len(slots[s].data) <= SCAN_SAMPLING_CHUNK_DATA_SIZE
               /\ \A d \in ToSet(slots[s].data) : d.rssi \in -128 .. 127
    <3>1. slots[s] \in Chunks
      BY <2>1 DEF DataTypes
    <3>2. Len(slots[s].data) <= SCAN_SAMPLING_CHUNK_DATA_SIZE
      BY <3>1 DEF Chunks
    <3>3. ToSet(slots[s].data) = {slots[s].data[i] : i \in 1 .. Len(slots[s].data)}
      BY <3>1 DEF Chunks, ToSet
    <3> QED
      BY <3>1, <3>2, <3>3, DeviceType, Zenon
  <2> QED
    BY <2>1, <2>2 DEF TypeOK, DataTypes, ControlTypes
<1> QED
  BY <1>1, DataInvariant, PTL

(* The strength stored for a device lies between the weakest and the       *)
(* strongest of its reports: neither the sum of up to MaxCount strengths   *)
(* nor the division of C nor the cast to int8_t in                         *)
(* sampling_finalize_scan_sampling_chunk leads out of that range.          *)
THEOREM StrengthsInRange == Spec => []RssiInRange
<1>1. DInv => RssiInRange
  BY DEF DInv
<1> QED
  BY <1>1, DataInvariant, PTL

(* sort_scan and the cut behind it, whatever qsort does with devices that  *)
(* compare equal: for any number of beacons, none that is left out is      *)
(* stronger than a device that is kept, and the prioritized number of them *)
(* is kept before it.  That no stronger badge is left out for a badge is   *)
(* stated of chunks without more beacons than are prioritized only.        *)
THEOREM ImportantDevicesKept == Spec => []ImportantKept
<1>1. DInv => ImportantKept
  BY DEF DInv
<1> QED
  BY <1>1, DataInvariant, PTL
=============================================================================
