------------------------------ MODULE Timeout -------------------------------
(***************************************************************************)
(* timeout_lib.c: several timeouts on one single-shot app-timer, with the  *)
(* sender's disconnect timeout among them.                                 *)
(*                                                                         *)
(* The table is shared without a critical region by two contexts.  The     *)
(* main loop starts and resets the timeouts of sampling_lib.c and resets   *)
(* the disconnect timeout (sender_transmit); its calls are modelled access *)
(* by access to the table, timeout_timer_running, timeout_timer_start_ms,  *)
(* the clock and the app-timer.  The timer callback and the radio's        *)
(* callbacks run at one interrupt priority: each is one step, possibly     *)
(* between any two accesses of the main loop.                              *)
(*                                                                         *)
(* Time is relative: what is kept of the clock is the time since           *)
(* timeout_timer_start_ms, until the app-timer expires, and since a        *)
(* timeout was started.  The app-timer is external: an expiry is served    *)
(* late by up to Latency ms, starting a timer that runs has no effect.     *)
(***************************************************************************)
EXTENDS Integers

CONSTANTS
  number_of_registered_timeouts,
  disconnect_timeout_id,          \* registered by sender_init
  DISCONNECT_TIMEOUT_MS,
  MAX_MILLIS_PER_TIMEOUT_TIMER,
  WORD,        \* the values of a uint32_t are 0 .. WORD - 1
  Durations,   \* bound: the timeout_ms of sampling requests; 0 is none
  Latency,     \* bound: ms an expired app-timer waits for its interrupt
  MaxPause,    \* bound: ms that pass inside calls of the main loop
  MaxIdle,     \* bound: ms since the last start of an app-timer that is off
  MaxAge       \* bound: ms a timeout is followed once a remaining time wrapped

Ids == 0 .. number_of_registered_timeouts - 1
Words == 0 .. WORD - 1
UINT32_MAX == WORD - 1

ASSUME TimeoutAssumption ==
  /\ number_of_registered_timeouts \in Nat
  /\ disconnect_timeout_id \in Ids
  /\ MAX_MILLIS_PER_TIMEOUT_TIMER \in Nat /\ MAX_MILLIS_PER_TIMEOUT_TIMER >= 2
  /\ WORD \in Nat \ {0}
  /\ DISCONNECT_TIMEOUT_MS \in Words \ {0, UINT32_MAX}
  /\ Durations \subseteq Words \ {UINT32_MAX}
  /\ Latency \in Nat
  /\ MaxPause \in Nat
  /\ MaxIdle \in Nat
  /\ MaxAge \in Nat
  /\ MAX_MILLIS_PER_TIMEOUT_TIMER + Latency + MaxPause < WORD

VARIABLES
  remaining_ms, timeout_ms, active,   \* registered_timeouts[id]
  running,     \* timeout_timer_running
  since,       \* ms since timeout_timer_start_ms
  armed, due,  \* the app-timer runs, and the ms until it expires
  over,        \* ms its expiry has been waiting to be served
  pc, arg, arg_ms, delta_ms, index,   \* the call of the main loop
  value,       \* its register: ms since it read the clock, a remaining
               \* time it has loaded, or the least one so far
  link,        \* a connection is up
  closing,     \* the disconnect handler ran on this connection
  age,         \* ms since the timeout was started, while it is active
  early,       \* a handler ran before its time
  pauses,      \* ms that passed inside calls of the main loop
  raced,       \* an interrupt changed the table inside such a call
  wrapped      \* a remaining time was reduced by more than was left

table == <<remaining_ms, timeout_ms, active>>
timer == <<armed, due, over>>
call == <<pc, arg, arg_ms, delta_ms, index, value>>
radio == <<link, closing>>
ghosts == <<age, early, pauses, raced, wrapped>>
vars == <<table, running, since, timer, call, radio, ghosts>>

Init ==
  /\ remaining_ms = [i \in Ids |-> 0]
  /\ timeout_ms = [i \in Ids |-> 0]
  /\ active = [i \in Ids |-> FALSE]
  /\ running = FALSE
  /\ since = 0
  /\ armed = FALSE /\ due = 0 /\ over = 0
  /\ pc = "idle" /\ arg = 0 /\ arg_ms = 0 /\ delta_ms = 0 /\ index = 0 /\ value = 0
  /\ link = FALSE /\ closing = FALSE
  /\ age = [i \in Ids |-> 0]
  /\ early = FALSE
  /\ pauses = 0
  /\ raced = FALSE /\ wrapped = FALSE
-----------------------------------------------------------------------------
(* get_minimal_remaining_ms: the least remaining time of an active         *)
(* timeout, UINT32_MAX if there is none below it, ...                      *)
Minimal(rem, act, ms) ==
  /\ ms = UINT32_MAX \/ \E i \in Ids : act[i] /\ ms = rem[i]
  /\ \A i \in Ids : act[i] => ms <= rem[i]

(* ... and what the app-timer is started with for it. *)
TimerMs(ms) ==
  IF ms > MAX_MILLIS_PER_TIMEOUT_TIMER THEN MAX_MILLIS_PER_TIMEOUT_TIMER
  ELSE IF ms < 2 THEN 2 ELSE ms

(* adapt_remaining_ms after delta ms: the timeouts whose handler is called *)
(* and what the others have left.                                          *)
Expired(i, delta) == active[i] /\ remaining_ms[i] < delta

(* Mutant: the time that passed is not charged. *)
LeftUncharged(i, delta) == remaining_ms[i]

Left(i, delta) ==
  IF active[i] /\ ~Expired(i, delta) THEN remaining_ms[i] - delta ELSE remaining_ms[i]

TooEarly(i) == age[i] <= timeout_ms[i]

(* The handler of the disconnect timeout is sender_disconnect, the others  *)
(* stop a sampling: none of them comes back to the table.                  *)
HandlersRun(S) ==
  /\ early' = (early \/ \E i \in S : TooEarly(i))
  /\ closing' = (closing \/ disconnect_timeout_id \in S)
-----------------------------------------------------------------------------
(* Calls of the main loop. *)

(* timeout_start of a sampling timeout, up to its first access; 0 ms stops *)
(* the timeout and leaves the app-timer alone.                             *)
Start(i, ms) ==
  /\ pc = "idle"
  /\ IF ms = 0
       THEN /\ active' = [active EXCEPT ![i] = FALSE]
            /\ age' = [age EXCEPT ![i] = 0]
            /\ UNCHANGED call
       ELSE /\ pc' = "look" /\ arg' = i /\ arg_ms' = ms
            /\ UNCHANGED <<delta_ms, index, value, active, age>>
  /\ UNCHANGED <<remaining_ms, timeout_ms, running, since, timer, radio,
                 early, pauses, raced, wrapped>>

(* timeout_reset, from sampling_reset_timeouts or sender_transmit.  An     *)
(* interrupt between its two reads would not change the second one: it     *)
(* starts a timeout with the timeout_ms it has.                            *)
Reset(i) ==
  /\ pc = "idle"
  /\ active[i]
  /\ pc' = "look" /\ arg' = i /\ arg_ms' = timeout_ms[i]
  /\ UNCHANGED <<delta_ms, index, value, table, running, since, timer, radio, ghosts>>

Look ==
  /\ pc = "look"
  /\ pc' = IF running THEN "stop" ELSE "set"
  /\ UNCHANGED <<arg, arg_ms, delta_ms, index, value,
                 table, running, since, timer, radio, ghosts>>

StopTimer ==
  /\ pc = "stop"
  /\ armed' = FALSE /\ due' = 0 /\ over' = 0
  /\ pc' = "clock"
  /\ UNCHANGED <<arg, arg_ms, delta_ms, index, value, table, running, since, radio, ghosts>>

(* adapt_remaining_ms reads the clock ... *)
ReadClock ==
  /\ pc = "clock"
  /\ value' = 0
  /\ pc' = "delta"
  /\ UNCHANGED <<arg, arg_ms, delta_ms, index, table, running, since, timer, radio, ghosts>>

(* ... and then timeout_timer_start_ms; the difference becomes a uint32_t. *)
ReadDelta ==
  /\ pc = "delta"
  /\ delta_ms' = (since - value) % WORD
  /\ index' = 0
  /\ pc' = "adapt"
  /\ UNCHANGED <<arg, arg_ms, value, table, running, since, timer, radio, ghosts>>

(* Mutant: the loop does not get past a timeout that is not active. *)
AdaptOneMut ==
  /\ pc = "adapt"
  /\ index < number_of_registered_timeouts
  /\ pc' = IF active[index] THEN "check" ELSE "adapt"
  /\ UNCHANGED <<arg, arg_ms, delta_ms, index, value,
                 table, running, since, timer, radio, ghosts>>

(* It looks at one timeout after the other, ... *)
AdaptOne ==
  /\ pc = "adapt"
  /\ index < number_of_registered_timeouts
  /\ IF active[index] THEN pc' = "check" /\ UNCHANGED index
     ELSE index' = index + 1 /\ UNCHANGED pc
  /\ UNCHANGED <<arg, arg_ms, delta_ms, value,
                 table, running, since, timer, radio, ghosts>>

(* Mutant: the remaining time is reduced without looking at it. *)
CheckMut ==
  /\ pc = "check"
  /\ pc' = "load"
  /\ UNCHANGED <<arg, arg_ms, delta_ms, index, value,
                 table, running, since, timer, radio, ghosts>>

(* ... compares what remains of an active one, ... *)
Check ==
  /\ pc = "check"
  /\ pc' = IF remaining_ms[index] < delta_ms THEN "handle" ELSE "load"
  /\ UNCHANGED <<arg, arg_ms, delta_ms, index, value,
                 table, running, since, timer, radio, ghosts>>

(* ... calls its handler ... *)
CallHandler ==
  /\ pc = "handle"
  /\ HandlersRun({index})
  /\ pc' = "clear"
  /\ UNCHANGED <<arg, arg_ms, delta_ms, index, value, table, running, since, timer, link,
                 age, pauses, raced, wrapped>>

(* Mutant: the loop goes on two timeouts further. *)
ClearActiveMut ==
  /\ pc = "clear"
  /\ active' = [active EXCEPT ![index] = FALSE]
  /\ age' = [age EXCEPT ![index] = 0]
  /\ index' = index + 2
  /\ pc' = "adapt"
  /\ UNCHANGED <<arg, arg_ms, delta_ms, value, remaining_ms, timeout_ms, running, since,
                 timer, radio, early, pauses, raced, wrapped>>

(* ... and clears active after that, ... *)
ClearActive ==
  /\ pc = "clear"
  /\ active' = [active EXCEPT ![index] = FALSE]
  /\ age' = [age EXCEPT ![index] = 0]
  /\ index' = index + 1
  /\ pc' = "adapt"
  /\ UNCHANGED <<arg, arg_ms, delta_ms, value, remaining_ms, timeout_ms, running, since,
                 timer, radio, early, pauses, raced, wrapped>>

(* ... or reduces the remaining time, which it reads again and stores.     *)
LoadRemaining ==
  /\ pc = "load"
  /\ value' = remaining_ms[index]
  /\ pc' = "store"
  /\ UNCHANGED <<arg, arg_ms, delta_ms, index, table, running, since, timer, radio, ghosts>>

StoreRemaining ==
  /\ pc = "store"
  /\ remaining_ms' = [remaining_ms EXCEPT ![index] = (value - delta_ms) % WORD]
  /\ wrapped' = (wrapped \/ value < delta_ms)
  /\ index' = index + 1
  /\ pc' = "adapt"
  /\ UNCHANGED <<arg, arg_ms, delta_ms, value, timeout_ms, active, running, since, timer,
                 radio, age, early, pauses, raced>>

AdaptDone ==
  /\ pc = "adapt"
  /\ index = number_of_registered_timeouts
  /\ running' = FALSE
  /\ pc' = "set"
  /\ UNCHANGED <<arg, arg_ms, delta_ms, index, value, table, since, timer, radio, ghosts>>

(* The three stores to the entry.  The timeout counts as started with the  *)
(* first of them.                                                          *)
SetTimeout ==
  /\ pc = "set"
  /\ timeout_ms' = [timeout_ms EXCEPT ![arg] = arg_ms]
  /\ age' = [age EXCEPT ![arg] = 0]
  /\ pc' = "set_remaining"
  /\ UNCHANGED <<arg, arg_ms, delta_ms, index, value, remaining_ms, active, running, since,
                 timer, radio, early, pauses, raced, wrapped>>

SetRemaining ==
  /\ pc = "set_remaining"
  /\ remaining_ms' = [remaining_ms EXCEPT ![arg] = arg_ms]
  /\ pc' = "set_active"
  /\ UNCHANGED <<arg, arg_ms, delta_ms, index, value, timeout_ms, active, running, since,
                 timer, radio, ghosts>>

SetActive ==
  /\ pc = "set_active"
  /\ active' = [active EXCEPT ![arg] = TRUE]
  /\ index' = 0 /\ value' = UINT32_MAX
  /\ pc' = "min"
  /\ UNCHANGED <<arg, arg_ms, delta_ms, remaining_ms, timeout_ms, running, since, timer,
                 radio, ghosts>>

(* get_minimal_remaining_ms looks at one timeout after the other: at       *)
(* active, and twice at remaining_ms.                                      *)
MinOne ==
  /\ pc = "min"
  /\ index < number_of_registered_timeouts
  /\ IF active[index] THEN pc' = "compare" /\ UNCHANGED index
     ELSE index' = index + 1 /\ UNCHANGED pc
  /\ UNCHANGED <<arg, arg_ms, delta_ms, value,
                 table, running, since, timer, radio, ghosts>>

Compare ==
  /\ pc = "compare"
  /\ IF remaining_ms[index] < value THEN pc' = "take" /\ UNCHANGED index
     ELSE pc' = "min" /\ index' = index + 1
  /\ UNCHANGED <<arg, arg_ms, delta_ms, value,
                 table, running, since, timer, radio, ghosts>>

Take ==
  /\ pc = "take"
  /\ value' = remaining_ms[index]
  /\ pc' = "min" /\ index' = index + 1
  /\ UNCHANGED <<arg, arg_ms, delta_ms, table, running, since, timer, radio, ghosts>>

(* The call returns: its local variables are gone. *)
Return ==
  /\ pc' = "idle"
  /\ arg' = 0 /\ arg_ms' = 0 /\ delta_ms' = 0 /\ index' = 0 /\ value' = 0

SetRunning ==
  /\ pc = "min"
  /\ index = number_of_registered_timeouts
  /\ IF value = UINT32_MAX THEN Return /\ UNCHANGED running
     ELSE /\ running' = TRUE
          /\ pc' = "stamp"
          /\ UNCHANGED <<arg, arg_ms, delta_ms, index, value>>
  /\ UNCHANGED <<table, since, timer, radio, ghosts>>

(* Mutant: timeout_timer_start_ms keeps its old value. *)
SetStartMut ==
  /\ pc = "stamp"
  /\ pc' = "arm"
  /\ UNCHANGED <<since, arg, arg_ms, delta_ms, index, value, table, running, timer, radio,
                 ghosts>>

SetStart ==
  /\ pc = "stamp"
  /\ since' = 0
  /\ pc' = "arm"
  /\ UNCHANGED <<arg, arg_ms, delta_ms, index, value, table, running, timer, radio, ghosts>>

(* app_timer_start *)
StartTimer(ms) ==
  /\ armed' = TRUE
  /\ due' = IF armed THEN due ELSE ms
  /\ over' = IF armed THEN over ELSE 0

Arm ==
  /\ pc = "arm"
  /\ StartTimer(TimerMs(value))
  /\ Return
  /\ UNCHANGED <<table, running, since, radio, ghosts>>
-----------------------------------------------------------------------------
(* Interrupts. *)

(* Up to where the main loop stops the app-timer it has not used anything  *)
(* of the table.                                                           *)
Interrupts ==
  /\ raced' = (raced \/ pc \notin {"idle", "look", "stop"})
  /\ UNCHANGED wrapped

(* The app-timer starts again for what is active now. *)
Rearm(stopped) ==
  \E ms \in Words :
    /\ Minimal(remaining_ms', active', ms)
    /\ IF ms = UINT32_MAX
         THEN /\ running' = FALSE
              /\ armed' = (armed /\ ~stopped)
              /\ due' = IF stopped THEN 0 ELSE due
              /\ over' = IF stopped THEN 0 ELSE over
              /\ UNCHANGED since
         ELSE /\ running' = TRUE
              /\ since' = 0
              /\ armed' = TRUE
              /\ due' = IF armed /\ ~stopped THEN due ELSE TimerMs(ms)
              /\ over' = IF armed /\ ~stopped THEN over ELSE 0

(* timeout_timer_callback *)
TimerExpires ==
  /\ armed
  /\ due = 0
  /\ active' = [i \in Ids |-> active[i] /\ ~Expired(i, since)]
  /\ remaining_ms' = [i \in Ids |-> Left(i, since)]
  /\ age' = [i \in Ids |-> IF Expired(i, since) THEN 0 ELSE age[i]]
  /\ HandlersRun({i \in Ids : Expired(i, since)})
  /\ Rearm(TRUE)
  /\ Interrupts
  /\ UNCHANGED <<timeout_ms, call, link, pauses>>

(* timeout_start(disconnect_timeout_id, ms) *)
StartDisconnect(ms) ==
  LET i == disconnect_timeout_id
  IN  /\ active' = [j \in Ids |-> j = i \/ (active[j] /\ ~(running /\ Expired(j, since)))]
      /\ remaining_ms' = [j \in Ids |-> IF j = i THEN ms
                                        ELSE IF running THEN Left(j, since) ELSE remaining_ms[j]]
      /\ timeout_ms' = [timeout_ms EXCEPT ![i] = ms]
      /\ age' = [j \in Ids |-> IF j = i \/ (running /\ Expired(j, since)) THEN 0 ELSE age[j]]
      /\ early' = (early \/ \E j \in Ids : running /\ Expired(j, since) /\ TooEarly(j))
      /\ Rearm(running)
      /\ Interrupts

(* Mutant: nothing is started if the app-timer runs already. *)
ConnectMut ==
  /\ ~link
  /\ link' = TRUE
  /\ IF running
       THEN UNCHANGED <<table, running, since, timer, closing, age, early>> /\ Interrupts
       ELSE StartDisconnect(DISCONNECT_TIMEOUT_MS) /\ closing' = FALSE
  /\ UNCHANGED <<call, pauses>>

(* on_connect_callback *)
Connect ==
  /\ ~link
  /\ link' = TRUE
  /\ StartDisconnect(DISCONNECT_TIMEOUT_MS)
  /\ closing' = (running /\ Expired(disconnect_timeout_id, since))
  /\ UNCHANGED <<call, pauses>>

(* on_receive_callback: timeout_reset *)
Receive ==
  /\ link
  /\ active[disconnect_timeout_id]
  /\ StartDisconnect(timeout_ms[disconnect_timeout_id])
  /\ closing' = (closing \/ (running /\ Expired(disconnect_timeout_id, since)))
  /\ UNCHANGED <<link, call, pauses>>

(* Mutant: the app-timer is stopped although other timeouts are active. *)
DisconnectMut ==
  /\ link
  /\ link' = FALSE
  /\ closing' = FALSE
  /\ active' = [active EXCEPT ![disconnect_timeout_id] = FALSE]
  /\ age' = [age EXCEPT ![disconnect_timeout_id] = 0]
  /\ running' = FALSE /\ armed' = FALSE /\ due' = 0 /\ over' = 0
  /\ Interrupts
  /\ UNCHANGED <<remaining_ms, timeout_ms, since, call, early, pauses>>

(* on_disconnect_callback: timeout_stop *)
Disconnect ==
  /\ link
  /\ link' = FALSE
  /\ closing' = FALSE
  /\ active' = [active EXCEPT ![disconnect_timeout_id] = FALSE]
  /\ age' = [age EXCEPT ![disconnect_timeout_id] = 0]
  /\ IF \E i \in Ids : active'[i]
       THEN UNCHANGED <<running, timer>>
       ELSE running' = FALSE /\ armed' = FALSE /\ due' = 0 /\ over' = 0
  /\ Interrupts
  /\ UNCHANGED <<remaining_ms, timeout_ms, since, call, early, pauses>>

(* A millisecond passes. *)
Tick ==
  /\ armed /\ due = 0 => over < Latency
  /\ pc # "idle" => pauses < MaxPause
  /\ ~armed /\ pc = "idle" => since < MaxIdle
  /\ wrapped => \A i \in Ids : active[i] => age[i] < MaxAge
  /\ pauses' = IF pc = "idle" THEN pauses ELSE pauses + 1
  /\ since' = since + 1
  /\ value' = IF pc = "delta" THEN value + 1 ELSE value
  /\ due' = IF armed /\ due > 0 THEN due - 1 ELSE due
  /\ over' = IF armed /\ due = 0 THEN over + 1 ELSE over
  /\ age' = [i \in Ids |-> IF active[i] THEN age[i] + 1 ELSE age[i]]
  /\ UNCHANGED <<table, running, armed, pc, arg, arg_ms, delta_ms, index, radio,
                 early, raced, wrapped>>

MainStep ==
  \/ Look \/ StopTimer \/ ReadClock \/ ReadDelta
  \/ AdaptOne \/ Check \/ CallHandler \/ ClearActive \/ LoadRemaining \/ StoreRemaining
  \/ AdaptDone
  \/ SetTimeout \/ SetRemaining \/ SetActive
  \/ MinOne \/ Compare \/ Take
  \/ SetRunning \/ SetStart \/ Arm

Next ==
  \/ \E i \in Ids \ {disconnect_timeout_id}, ms \in Durations : Start(i, ms)
  \/ \E i \in Ids : Reset(i)
  \/ MainStep
  \/ TimerExpires
  \/ Connect \/ Receive \/ Disconnect
  \/ Tick

(* Time passes, a call of the main loop comes to its end and an interrupt  *)
(* is served; nothing is assumed of who calls what.                        *)
Fairness == SF_vars(Tick) /\ WF_vars(MainStep) /\ WF_vars(TimerExpires)

Spec == Init /\ [][Next]_vars
FairSpec == Spec /\ Fairness
-----------------------------------------------------------------------------
(* Properties. *)

TypeOK ==
  /\ remaining_ms \in [Ids -> Words]
  /\ timeout_ms \in [Ids -> Words \ {UINT32_MAX}]
  /\ active \in [Ids -> BOOLEAN]
  /\ running \in BOOLEAN
  /\ since \in Nat
  /\ armed \in BOOLEAN /\ due \in Nat /\ over \in 0 .. Latency
  /\ pc \in {"idle", "look", "stop", "clock", "delta",
             "adapt", "check", "handle", "clear", "load", "store",
             "set", "set_remaining", "set_active",
             "min", "compare", "take", "stamp", "arm"}
  /\ arg \in Ids /\ arg_ms \in Words \ {UINT32_MAX} /\ delta_ms \in Words
  /\ value \in Nat
  /\ pc \in {"store", "min", "compare", "take", "stamp", "arm"} => value \in Words
  /\ index \in 0 .. number_of_registered_timeouts
  /\ pc \in {"check", "handle", "clear", "load", "store", "compare", "take"} => index \in Ids
  /\ link \in BOOLEAN /\ closing \in BOOLEAN
  /\ age \in [Ids -> Nat]
  /\ early \in BOOLEAN
  /\ pauses \in 0 .. MaxPause
  /\ raced \in BOOLEAN /\ wrapped \in BOOLEAN

(* Between calls of the main loop the app-timer runs while a timeout is    *)
(* active, whatever interrupted them (get_minimal_remaining_ms does not    *)
(* see a remaining time of UINT32_MAX, which a wrap may leave).            *)
AlarmSet ==
  pc = "idle" /\ (\E i \in Ids : active[i] /\ remaining_ms[i] # UINT32_MAX) => armed

(* adapt_remaining_ms never takes more from a remaining time than is left, *)
(* unless an interrupt changed the table inside a call of the main loop:   *)
(* an interrupt that charges the timeout between the comparison and the    *)
(* subtraction makes the uint32_t wrap, and the timeout runs on for weeks. *)
NoWrap == ~raced => ~wrapped

(* No handler is called before the time its timeout was started with has   *)
(* passed, with the same exception (timeout_start and adapt_remaining_ms). *)
NeverEarly == ~raced => ~early

(* An active timeout is not older than the time it was started with, two   *)
(* ms for the shortest app-timer, the latency of the interrupt and the     *)
(* time spent inside calls (which adapt_remaining_ms does not charge),     *)
(* with the same exception.                                                *)
NeverLate ==
  ~raced => \A i \in Ids : active[i] =>
    age[i] <= timeout_ms[i] + 2 + Latency + pauses

(* A connection is guarded: its disconnect timeout is active or has        *)
(* expired, with the same exception (on_connect_callback,                  *)
(* on_receive_callback, sender_transmit).                                  *)
LinkGuarded == ~raced /\ link => active[disconnect_timeout_id] \/ closing

(* The time a timeout was started with passes before its handler is called *)
(* (timeout_lib.h: "If it is not resetet in timeout_ms, the                *)
(* timeout-handler is called").                                            *)
HandlerNotEarly == ~early

(* An active timeout does not stay active for ever: it expires, is stopped *)
(* or started again, whatever interrupts the main loop, unless a remaining *)
(* time wraps.                                                             *)
TimeoutEnds ==
  \A i \in Ids : active[i] /\ age[i] > 0 ~> ~active[i] \/ age[i] = 0 \/ wrapped
=============================================================================
