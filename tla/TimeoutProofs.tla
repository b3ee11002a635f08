--------------------------- MODULE TimeoutProofs ----------------------------
(***************************************************************************)
(* What holds of timeout_lib.c for any number of timeouts, any durations,  *)
(* any latency of the timer interrupt and any time spent in the calls.     *)
(***************************************************************************)
EXTENDS Timeout, TLAPS

(* The part of the clock that is still to be charged to a timeout: all of  *)
(* it between calls, delta_ms until the loop of adapt_remaining_ms has     *)
(* passed the timeout, nothing from then on until the clock is read again. *)
Pending(i) ==
  IF pc \in {"idle", "look", "stop", "clock", "arm"} THEN since
  ELSE IF pc = "delta" THEN since - value
  ELSE IF pc \in {"adapt", "check", "handle", "clear", "load", "store"} /\ i >= index
         THEN delta_ms ELSE 0

(* The books balance: age and remaining time add up to the duration, the   *)
(* time still to be charged, and at most the time spent inside calls.      *)
Balanced(i) ==
  /\ timeout_ms[i] + Pending(i) <= age[i] + remaining_ms[i]
  /\ age[i] + remaining_ms[i] <=
       timeout_ms[i] + (IF pc = "arm" THEN 0 ELSE Pending(i)) + pauses

(* The entry that the main loop is setting. *)
Entering(i) == pc = "set_remaining" /\ i = arg
Entered(i) == pc = "set_active" /\ i = arg

AtLeastTwo(ms) == IF ms < 2 THEN 2 ELSE ms

(* The app-timer expires early enough for a timeout. *)
Served(i) ==
  age[i] + remaining_ms[i] + due <= timeout_ms[i] + AtLeastTwo(remaining_ms[i]) + over + pauses

(* The app-timer belongs to the timeouts: it runs exactly as              *)
(* timeout_timer_running says, and expires early enough for each of them.  *)
TimerServes ==
  /\ pc \in {"idle", "look", "stop"} =>
       /\ (\E i \in Ids : active[i]) => running
       /\ running => armed
       /\ armed => running
  /\ pc \notin {"idle", "look", "stop"} => ~armed
  /\ pc \in {"set", "set_remaining", "set_active", "min", "compare", "take"} => ~running
  /\ pc \in {"stamp", "arm"} => running
  /\ armed => \A i \in Ids : active[i] => Served(i)

(* The time that passes between two charges fits into a uint32_t. *)
Short ==
  /\ armed => since + due <= MAX_MILLIS_PER_TIMEOUT_TIMER + over + pauses
  /\ pc \in {"clock", "delta"} /\ (\E i \in Ids : active[i]) =>
       Pending(0) <= MAX_MILLIS_PER_TIMEOUT_TIMER + Latency + pauses
  /\ pc = "delta" => value <= since
  /\ pc = "arm" => since <= pauses

(* The loop of adapt_remaining_ms: what has been looked at still holds. *)
LoopHolds ==
  /\ pc \in {"check", "handle", "clear", "load", "store"} => active[index]
  /\ pc = "handle" => remaining_ms[index] < delta_ms
  /\ pc \in {"load", "store"} => delta_ms <= remaining_ms[index]
  /\ pc = "store" => value = remaining_ms[index]

(* The loop of get_minimal_remaining_ms has the least of what it passed. *)
LeastSoFar ==
  /\ pc \in {"min", "compare", "take", "stamp", "arm"} => \A i \in Ids : active[i] =>
       (pc \in {"min", "compare", "take"} /\ i >= index) \/ value <= remaining_ms[i]
  /\ pc = "take" => remaining_ms[index] < value

NoneAtMax == \A i \in Ids : remaining_ms[i] # UINT32_MAX

HandlerPending == pc = "clear" /\ index = disconnect_timeout_id => closing

AllBalanced ==
  /\ \A i \in Ids : (active[i] /\ ~Entering(i)) \/ Entered(i) => Balanced(i)
  /\ pc = "set_remaining" => timeout_ms[arg] = arg_ms /\ age[arg] <= pauses
InTime == \A i \in Ids : active[i] => age[i] <= timeout_ms[i] + 2 + Latency + pauses
Guarded == link => active[disconnect_timeout_id] \/ closing

(* The inductive invariant, as long as no interrupt came into a call. *)
Timely ==
  /\ AllBalanced /\ TimerServes /\ Short /\ LoopHolds /\ LeastSoFar /\ NoneAtMax
  /\ HandlerPending /\ ~early /\ ~wrapped /\ InTime /\ Guarded

(* If the loop of get_minimal_remaining_ms has found nothing yet, what it  *)
(* passed is not active or has been given the app-timer by an interrupt.   *)
AlarmLoop ==
  /\ pc \in {"min", "compare", "take"} /\ ~armed /\ value = UINT32_MAX =>
       \A i \in Ids : i < index => ~(active[i] /\ remaining_ms[i] # UINT32_MAX)
  /\ pc = "take" => remaining_ms[index] # UINT32_MAX

IInv == TypeOK /\ AlarmSet /\ AlarmLoop /\ (~raced => Timely)
-----------------------------------------------------------------------------
(* Types. *)

LEMMA ModRange ==
  ASSUME NEW a \in Int, NEW b \in Nat, b > 0
  PROVE  a % b \in 0 .. b - 1
OBVIOUS

LEMMA ModSmall ==
  ASSUME NEW a \in Nat, NEW b \in Nat, a < b
  PROVE  a % b = a
OBVIOUS

LEMMA Constants ==
  /\ 0 \in Ids /\ Ids \subseteq Nat /\ 0 \in 0 .. Latency /\ 0 \in Words
  /\ UINT32_MAX \in Words /\ Words \subseteq Nat
BY TimeoutAssumption DEF Ids, Words, UINT32_MAX

LEMMA InitIInv == Init => IInv
<1> SUFFICES ASSUME Init PROVE IInv
  OBVIOUS
<1>1. /\ 0 \in Ids /\ 0 \in 0 .. Latency /\ 0 \in 0 .. MaxPause
      /\ 0 \in 0 .. number_of_registered_timeouts /\ 0 \in Words \ {UINT32_MAX}
  BY TimeoutAssumption DEF Ids, Words, UINT32_MAX
<1>2. TypeOK
  BY <1>1, Constants DEF Init, TypeOK
<1>3. \A i \in Ids : ~active[i]
  BY DEF Init
<1>4. NoneAtMax
  BY <1>1 DEF Init, NoneAtMax
<1>5. Timely
  BY <1>3, <1>4 DEF Init, Timely, TimerServes, Short, LoopHolds, LeastSoFar, HandlerPending,
                    AllBalanced, Entered, InTime, Guarded
<1> QED BY <1>2, <1>3, <1>5 DEF Init, IInv, AlarmSet, AlarmLoop

(* What the main loop's steps keep of the types. *)
LEMMA MainTypes ==
  ASSUME TypeOK, MainStep
  PROVE  TypeOK'
<1> USE TimeoutAssumption
<1>1. CASE Look
  BY <1>1 DEF Look, TypeOK, table, timer, radio, ghosts
<1>2. CASE StopTimer
  BY <1>2, Constants DEF StopTimer, TypeOK, table, radio, ghosts
<1>3. CASE ReadClock
  BY <1>3 DEF ReadClock, TypeOK, table, timer, radio, ghosts
<1>4. CASE ReadDelta
  <2>1. delta_ms' \in Words
    BY <1>4, ModRange DEF ReadDelta, TypeOK, Words
  <2>2. index' \in 0 .. number_of_registered_timeouts /\ pc' = "adapt"
    BY <1>4 DEF ReadDelta
  <2> QED BY <1>4, <2>1, <2>2 DEF ReadDelta, TypeOK, table, timer, radio, ghosts
<1>5. CASE AdaptOne
  <2>1. index \in Ids /\ index + 1 \in 0 .. number_of_registered_timeouts
    BY <1>5 DEF AdaptOne, TypeOK, Ids
  <2> QED BY <1>5, <2>1 DEF AdaptOne, TypeOK, table, timer, radio, ghosts
<1>6. CASE Check
  BY <1>6 DEF Check, TypeOK, table, timer, radio, ghosts
<1>7. CASE CallHandler
  <2>1. closing' \in BOOLEAN /\ early' \in BOOLEAN
    BY <1>7 DEF CallHandler, HandlersRun
  <2> QED BY <1>7, <2>1 DEF CallHandler, TypeOK, table, timer
<1>8. CASE ClearActive
  <2>1. index \in Ids /\ index + 1 \in 0 .. number_of_registered_timeouts
    BY <1>8 DEF ClearActive, TypeOK, Ids
  <2> QED BY <1>8, <2>1 DEF ClearActive, TypeOK, timer, radio
<1>9. CASE LoadRemaining
  <2>1. remaining_ms[index] \in Words /\ remaining_ms[index] \in Nat
    BY <1>9, Constants DEF LoadRemaining, TypeOK
  <2> QED BY <1>9, <2>1 DEF LoadRemaining, TypeOK, table, timer, radio, ghosts
<1>10. CASE StoreRemaining
  <2>1. index \in Ids /\ index + 1 \in 0 .. number_of_registered_timeouts
    BY <1>10 DEF StoreRemaining, TypeOK, Ids
  <2>2. (value - delta_ms) % WORD \in Words
    BY ModRange DEF TypeOK, Words
  <2>3. wrapped' \in BOOLEAN
    BY <1>10 DEF StoreRemaining
  <2> QED BY <1>10, <2>1, <2>2, <2>3 DEF StoreRemaining, TypeOK, timer, radio
<1>11. CASE AdaptDone
  BY <1>11 DEF AdaptDone, TypeOK, table, timer, radio, ghosts
<1>12. CASE SetTimeout
  BY <1>12 DEF SetTimeout, TypeOK, timer, radio
<1>13. CASE SetRemaining
  BY <1>13 DEF SetRemaining, TypeOK, timer, radio, ghosts
<1>14. CASE SetActive
  <2>1. value' \in Words /\ value' \in Nat /\ index' \in 0 .. number_of_registered_timeouts
    BY <1>14, Constants DEF SetActive
  <2> QED BY <1>14, <2>1 DEF SetActive, TypeOK, timer, radio, ghosts
<1>15. CASE MinOne
  <2>1. index \in Ids /\ index + 1 \in 0 .. number_of_registered_timeouts
    BY <1>15 DEF MinOne, TypeOK, Ids
  <2> QED BY <1>15, <2>1 DEF MinOne, TypeOK, table, timer, radio, ghosts
<1>16. CASE Compare
  <2>1. index \in Ids /\ index + 1 \in 0 .. number_of_registered_timeouts
    BY <1>16 DEF Compare, TypeOK, Ids
  <2> QED BY <1>16, <2>1 DEF Compare, TypeOK, table, timer, radio, ghosts
<1>17. CASE Take
  <2>1. index \in Ids /\ index + 1 \in 0 .. number_of_registered_timeouts
    BY <1>17 DEF Take, TypeOK, Ids
  <2>2. value' \in Words /\ value' \in Nat
    BY <1>17, <2>1, Constants DEF Take, TypeOK
  <2> QED BY <1>17, <2>1, <2>2 DEF Take, TypeOK, table, timer, radio, ghosts
<1>18. CASE SetRunning
  <2>1. CASE value = UINT32_MAX
    <3>1. arg' \in Ids /\ arg_ms' = 0 /\ delta_ms' \in Words /\ value' \in Nat /\ index' = 0
          /\ pc' = "idle" /\ running' = running
      BY <1>18, <2>1, Constants DEF SetRunning, Return
    <3>2. arg_ms' \in Words \ {UINT32_MAX}
      BY <3>1 DEF Words, UINT32_MAX
    <3> QED BY <1>18, <3>1, <3>2 DEF SetRunning, TypeOK, table, timer, radio, ghosts
  <2>2. CASE value # UINT32_MAX
    BY <1>18, <2>2 DEF SetRunning, TypeOK, table, timer, radio, ghosts
  <2> QED BY <2>1, <2>2
<1>19. CASE SetStart
  BY <1>19 DEF SetStart, TypeOK, table, timer, radio, ghosts
<1>20. CASE Arm
  <2>1. arg' \in Ids /\ arg_ms' = 0 /\ delta_ms' \in Words /\ value' \in Nat /\ index' = 0
        /\ pc' = "idle"
    BY <1>20, Constants DEF Arm, Return
  <2>2. arg_ms' \in Words \ {UINT32_MAX}
    BY <2>1 DEF Words, UINT32_MAX
  <2>3. TimerMs(value) \in Nat
    BY DEF TimerMs, TypeOK
  <2>4. due' \in Nat /\ over' \in 0 .. Latency /\ armed' = TRUE
    BY <1>20, <2>3 DEF Arm, StartTimer, TypeOK
  <2> QED BY <1>20, <2>1, <2>2, <2>4 DEF Arm, TypeOK, table, radio, ghosts
<1> QED BY <1>1, <1>2, <1>3, <1>4, <1>5, <1>6, <1>7, <1>8, <1>9, <1>10, <1>11, <1>12, <1>13,
           <1>14, <1>15, <1>16, <1>17, <1>18, <1>19, <1>20 DEF MainStep

(* Restarting the app-timer keeps its types. *)
LEMMA RearmTypes ==
  ASSUME TypeOK, NEW stopped \in BOOLEAN, Rearm(stopped)
  PROVE  /\ running' \in BOOLEAN /\ since' \in Nat
         /\ armed' \in BOOLEAN /\ due' \in Nat /\ over' \in 0 .. Latency
<1>1. PICK ms \in Words : Rearm(stopped)!(ms)
  BY DEF Rearm
<1>2. TimerMs(ms) \in Nat
  BY TimeoutAssumption, Constants DEF TimerMs
<1>3. CASE ms = UINT32_MAX
  <2>1. armed' \in BOOLEAN /\ running' \in BOOLEAN
    BY <1>1, <1>3
  <2>2. since' = since /\ due' \in {0, due} /\ over' \in {0, over}
    BY <1>1, <1>3
  <2> QED BY <2>1, <2>2, Constants DEF TypeOK
<1>4. CASE ms # UINT32_MAX
  <2>1. armed' = TRUE /\ running' = TRUE /\ since' = 0
    BY <1>1, <1>4
  <2>2. due' \in {due, TimerMs(ms)} /\ over' \in {0, over}
    BY <1>1, <1>4
  <2> QED BY <1>2, <2>1, <2>2, Constants DEF TypeOK
<1> QED BY <1>3, <1>4

(* What is left of a timeout stays a uint32_t: an interrupt compares the   *)
(* remaining time with what passed and reduces it in one step.             *)
LEMMA LeftIsWord ==
  ASSUME TypeOK, NEW i \in Ids
  PROVE  Left(i, since) \in Words /\ Left(i, since) <= remaining_ms[i]
BY TimeoutAssumption DEF Left, Expired, TypeOK, Words

LEMMA StartDisconnectTypes ==
  ASSUME TypeOK, NEW ms \in Words \ {UINT32_MAX}, StartDisconnect(ms)
  PROVE  /\ remaining_ms' \in [Ids -> Words] /\ timeout_ms' \in [Ids -> Words \ {UINT32_MAX}]
         /\ active' \in [Ids -> BOOLEAN] /\ age' \in [Ids -> Nat]
         /\ running' \in BOOLEAN /\ since' \in Nat
         /\ armed' \in BOOLEAN /\ due' \in Nat /\ over' \in 0 .. Latency
         /\ early' \in BOOLEAN /\ raced' \in BOOLEAN /\ wrapped' \in BOOLEAN
<1>1. remaining_ms' \in [Ids -> Words]
  BY LeftIsWord DEF StartDisconnect, TypeOK
<1>2. Rearm(running) /\ running \in BOOLEAN
  BY DEF StartDisconnect, TypeOK
<1>3. /\ timeout_ms' \in [Ids -> Words \ {UINT32_MAX}]
      /\ active' \in [Ids -> BOOLEAN] /\ age' \in [Ids -> Nat]
  BY TimeoutAssumption DEF StartDisconnect, TypeOK
<1>4. early' \in BOOLEAN
  BY DEF StartDisconnect, TypeOK
<1>5. raced' \in BOOLEAN /\ wrapped' \in BOOLEAN
  BY DEF StartDisconnect, Interrupts, TypeOK
<1> QED BY <1>1, <1>2, <1>3, <1>4, <1>5, RearmTypes

LEMMA TypeStep == TypeOK /\ [Next]_vars => TypeOK'
<1> SUFFICES ASSUME TypeOK, [Next]_vars PROVE TypeOK'
  OBVIOUS
<1> USE TimeoutAssumption
<1>1. ASSUME NEW i \in Ids \ {disconnect_timeout_id}, NEW ms \in Durations, Start(i, ms)
      PROVE  TypeOK'
  <2>1. CASE ms = 0
    <3>0. active' = [active EXCEPT ![i] = FALSE] /\ age' = [age EXCEPT ![i] = 0]
      BY <1>1, <2>1 DEF Start
    <3>1. active' \in [Ids -> BOOLEAN] /\ age' \in [Ids -> Nat]
      BY <3>0 DEF TypeOK
    <3>2. UNCHANGED call
      BY <1>1, <2>1 DEF Start
    <3> QED BY <1>1, <3>1, <3>2 DEF Start, TypeOK, call, timer, radio
  <2>2. CASE ms # 0
    BY <1>1, <2>2 DEF Start, TypeOK, timer, radio
  <2> QED BY <2>1, <2>2
<1>2. ASSUME NEW i \in Ids, Reset(i)
      PROVE  TypeOK'
  BY <1>2 DEF Reset, TypeOK, table, timer, radio, ghosts
<1>3. CASE MainStep
  BY <1>3, MainTypes
<1>4. CASE TimerExpires
  <2>1. remaining_ms' \in [Ids -> Words]
    BY <1>4, LeftIsWord DEF TimerExpires
  <2>2. Rearm(TRUE)
    BY <1>4 DEF TimerExpires
  <2>3. /\ running' \in BOOLEAN /\ since' \in Nat
        /\ armed' \in BOOLEAN /\ due' \in Nat /\ over' \in 0 .. Latency
    BY <2>2, RearmTypes
  <2>4. /\ active' \in [Ids -> BOOLEAN] /\ age' \in [Ids -> Nat] /\ early' \in BOOLEAN
        /\ closing' \in BOOLEAN /\ raced' \in BOOLEAN /\ wrapped' \in BOOLEAN
    BY <1>4 DEF TimerExpires, HandlersRun, Interrupts, TypeOK
  <2> QED BY <1>4, <2>1, <2>3, <2>4 DEF TimerExpires, TypeOK, call
<1>5. CASE Connect
  <2>1. StartDisconnect(DISCONNECT_TIMEOUT_MS) /\ DISCONNECT_TIMEOUT_MS \in Words \ {UINT32_MAX}
    BY <1>5 DEF Connect
  <2>2. closing' \in BOOLEAN
    BY <1>5 DEF Connect, TypeOK
  <2> QED BY <1>5, <2>1, <2>2, StartDisconnectTypes DEF Connect, TypeOK, call
<1>6. CASE Receive
  <2>1. /\ StartDisconnect(timeout_ms[disconnect_timeout_id])
        /\ timeout_ms[disconnect_timeout_id] \in Words \ {UINT32_MAX}
    BY <1>6 DEF Receive, TypeOK
  <2>2. closing' \in BOOLEAN
    BY <1>6 DEF Receive, TypeOK
  <2> QED BY <1>6, <2>1, <2>2, StartDisconnectTypes DEF Receive, TypeOK, call
<1>7. CASE Disconnect
  <2>1. raced' \in BOOLEAN /\ wrapped' \in BOOLEAN
    BY <1>7 DEF Disconnect, Interrupts, TypeOK
  <2>2. 0 \in 0 .. Latency
    OBVIOUS
  <2>3. /\ running' \in BOOLEAN
        /\ armed' \in BOOLEAN /\ due' \in Nat /\ over' \in 0 .. Latency
    <3>1. CASE \E i \in Ids : active'[i]
      BY <1>7, <3>1 DEF Disconnect, TypeOK, timer
    <3>2. CASE ~\E i \in Ids : active'[i]
      <4>1. running' = FALSE /\ armed' = FALSE /\ due' = 0 /\ over' = 0
        BY <1>7, <3>2, Zenon DEF Disconnect
      <4> QED BY <2>2, <4>1
    <3> QED BY <3>1, <3>2
  <2> QED BY <1>7, <2>1, <2>3 DEF Disconnect, TypeOK, call
<1>8. CASE Tick
  <2>1. value' \in Nat /\ (pc # "delta" => value' = value)
    BY <1>8 DEF Tick, TypeOK
  <2>2. pauses' \in 0 .. MaxPause /\ over' \in 0 .. Latency /\ due' \in Nat /\ since' \in Nat
    BY <1>8 DEF Tick, TypeOK
  <2>3. age' \in [Ids -> Nat]
    BY <1>8 DEF Tick, TypeOK
  <2> QED BY <1>8, <2>1, <2>2, <2>3 DEF Tick, TypeOK, table, radio
<1>9. CASE UNCHANGED vars
  BY <1>9 DEF TypeOK, vars, table, timer, call, radio, ghosts
<1> QED BY <1>1, <1>2, <1>3, <1>4, <1>5, <1>6, <1>7, <1>8, <1>9 DEF Next

(* Every variable of timeout_lib.c keeps its type: the index of a loop     *)
(* stays in the table when it is used.                                     *)
THEOREM TypeCorrect == Spec => []TypeOK
<1>1. Init => TypeOK
  BY InitIInv DEF IInv
<1> QED BY <1>1, TypeStep, PTL DEF Spec
-----------------------------------------------------------------------------
(* The app-timer is never left stopped. *)

Visible(i) == active[i] /\ remaining_ms[i] # UINT32_MAX

(* An interrupt that finds a timeout to wait for arms the app-timer. *)
LEMMA RearmAlarm ==
  ASSUME NEW stopped \in BOOLEAN, Rearm(stopped), remaining_ms' \in [Ids -> Words],
         \E i \in Ids : Visible(i)'
  PROVE  armed'
<1>1. PICK ms \in Words : Rearm(stopped)!(ms)
  BY DEF Rearm
<1>2. PICK i \in Ids : active'[i] /\ remaining_ms'[i] # UINT32_MAX
  BY DEF Visible
<1>3. ms <= remaining_ms'[i] /\ remaining_ms'[i] \in Words
  BY <1>1, <1>2 DEF Minimal
<1>4. ms # UINT32_MAX
  BY <1>2, <1>3, TimeoutAssumption DEF Words, UINT32_MAX
<1> QED BY <1>1, <1>4

(* Every interrupt leaves the app-timer armed if there is a timeout to     *)
(* wait for, or the timer as it was and fewer timeouts; and none makes a   *)
(* remaining time UINT32_MAX.                                              *)
LEMMA InterruptAlarm ==
  ASSUME TypeOK, TypeOK', TimerExpires \/ Connect \/ Receive \/ Disconnect
  PROVE  /\ UNCHANGED call
         /\ \/ (\E i \in Ids : Visible(i)') => armed'
            \/ armed' = armed /\ \A i \in Ids : Visible(i)' => Visible(i)
         /\ \A i \in Ids : remaining_ms[i] # UINT32_MAX => remaining_ms'[i] # UINT32_MAX
<1>1. CASE TimerExpires
  <2>1. UNCHANGED call /\ Rearm(TRUE) /\ remaining_ms' = [i \in Ids |-> Left(i, since)]
    BY <1>1 DEF TimerExpires
  <2>2. \A i \in Ids : remaining_ms[i] # UINT32_MAX => remaining_ms'[i] # UINT32_MAX
    BY <2>1, LeftIsWord, TimeoutAssumption DEF TypeOK, Words, UINT32_MAX
  <2> QED BY <2>1, <2>2, RearmAlarm DEF TypeOK
<1>2. CASE Connect \/ Receive
  <2>1. PICK ms \in Words \ {UINT32_MAX} : StartDisconnect(ms) /\ UNCHANGED call
    BY <1>2, TimeoutAssumption DEF Connect, Receive, TypeOK
  <2>2. /\ Rearm(running)
        /\ remaining_ms' = [j \in Ids |-> IF j = disconnect_timeout_id THEN ms
                              ELSE IF running THEN Left(j, since) ELSE remaining_ms[j]]
    BY <2>1 DEF StartDisconnect
  <2>3. \A i \in Ids : remaining_ms[i] # UINT32_MAX => remaining_ms'[i] # UINT32_MAX
    BY <2>1, <2>2, LeftIsWord, TimeoutAssumption DEF TypeOK, Words, UINT32_MAX
  <2>4. (\E i \in Ids : Visible(i)') => armed'
    BY <2>2, RearmAlarm DEF TypeOK
  <2> QED BY <2>1, <2>3, <2>4
<1>3. CASE Disconnect
  <2>1. /\ UNCHANGED call /\ remaining_ms' = remaining_ms
        /\ active' = [active EXCEPT ![disconnect_timeout_id] = FALSE]
    BY <1>3 DEF Disconnect
  <2>2. \A i \in Ids : Visible(i)' => Visible(i)
    BY <2>1 DEF Visible, TypeOK
  <2>3. CASE \E i \in Ids : active'[i]
    BY <1>3, <2>1, <2>2, <2>3 DEF Disconnect, timer
  <2>4. CASE ~\E i \in Ids : active'[i]
    BY <2>1, <2>4 DEF Visible
  <2> QED BY <2>3, <2>4
<1> QED BY <1>1, <1>2, <1>3

Alarm == AlarmSet /\ AlarmLoop


LEMMA MainAlarm ==
  ASSUME TypeOK, Alarm, MainStep
  PROVE  Alarm'
<1> USE TimeoutAssumption
<1>1. CASE SetActive
  <2>1. pc' = "min" /\ index' = 0
    BY <1>1 DEF SetActive
  <2>2. \A i \in Ids : ~(i < 0)
    BY DEF Ids
  <2> QED BY <2>1, <2>2 DEF Alarm, AlarmSet, AlarmLoop
<1>2. CASE MinOne \/ Compare
  <2>1. /\ UNCHANGED <<remaining_ms, active, armed, value>>
        /\ pc \in {"min", "compare"} /\ index \in Ids
        /\ pc' \in {"min", "compare", "take"}
        /\ index' = index \/ (index' = index + 1 /\ (~active[index] \/ ~(remaining_ms[index] < value)))
        /\ pc' = "take" => index' = index /\ remaining_ms[index] < value
    BY <1>2 DEF MinOne, Compare, TypeOK, table, timer, Ids
  <2>2. remaining_ms[index] \in Words /\ value \in Words
    BY <2>1 DEF TypeOK
  <2>3. value = UINT32_MAX /\ ~(remaining_ms[index] < value) => remaining_ms[index] = UINT32_MAX
    BY <2>2 DEF Words, UINT32_MAX
  <2>4. remaining_ms[index] < value => remaining_ms[index] # UINT32_MAX
    BY <2>2 DEF Words, UINT32_MAX
  <2>5. value = UINT32_MAX /\ index' = index + 1 => ~Visible(index)
    BY <2>1, <2>3 DEF Visible, TypeOK
  <2>6. ~armed /\ value = UINT32_MAX => \A i \in Ids : i < index' => ~Visible(i)
    <3> SUFFICES ASSUME ~armed, value = UINT32_MAX, NEW i \in Ids, i < index'
                 PROVE  ~Visible(i)
      OBVIOUS
    <3>1. i < index \/ i = index
      BY <2>1 DEF Ids
    <3>2. CASE i < index
      BY <2>1, <3>2 DEF Alarm, AlarmLoop, Visible
    <3>3. CASE i = index /\ index' = index + 1
      BY <2>5, <3>3
    <3>4. ~(index < index)
      BY <2>1 DEF Ids
    <3> QED BY <2>1, <3>1, <3>2, <3>3, <3>4
  <2> QED BY <2>1, <2>4, <2>6 DEF Alarm, AlarmSet, AlarmLoop, Visible
<1>3. CASE Take
  <2>1. /\ value' = remaining_ms[index] /\ pc' = "min" /\ pc = "take"
    BY <1>3 DEF Take
  <2> QED BY <2>1 DEF Alarm, AlarmSet, AlarmLoop
<1>4. CASE SetRunning
  <2>1. CASE value = UINT32_MAX
    <3>1. /\ UNCHANGED <<remaining_ms, active, armed>> /\ pc = "min" /\ pc' = "idle"
          /\ index = number_of_registered_timeouts
      BY <1>4, <2>1 DEF SetRunning, Return, table, timer
    <3>2. \A i \in Ids : i < index
      BY <3>1 DEF Ids
    <3> QED BY <2>1, <3>1, <3>2 DEF Alarm, AlarmSet, AlarmLoop
  <2>2. CASE value # UINT32_MAX
    BY <1>4, <2>2 DEF SetRunning, Alarm, AlarmSet, AlarmLoop
  <2> QED BY <2>1, <2>2
<1>5. CASE Arm
  BY <1>5 DEF Arm, StartTimer, Return, Alarm, AlarmSet, AlarmLoop
<1>6. CASE \/ Look \/ StopTimer \/ ReadClock \/ ReadDelta \/ AdaptOne \/ Check \/ CallHandler
           \/ ClearActive \/ LoadRemaining \/ StoreRemaining \/ AdaptDone \/ SetTimeout
           \/ SetRemaining \/ SetStart
  <2>1. pc' \notin {"idle", "min", "compare", "take"}
    BY <1>6 DEF Look, StopTimer, ReadClock, ReadDelta, AdaptOne, Check, CallHandler,
                ClearActive, LoadRemaining, StoreRemaining, AdaptDone, SetTimeout,
                SetRemaining, SetStart
  <2> QED BY <2>1 DEF Alarm, AlarmSet, AlarmLoop
<1> QED BY <1>1, <1>2, <1>3, <1>4, <1>5, <1>6 DEF MainStep

LEMMA AlarmStep == TypeOK /\ TypeOK' /\ Alarm /\ [Next]_vars => Alarm'
<1> SUFFICES ASSUME TypeOK, TypeOK', Alarm, [Next]_vars PROVE Alarm'
  OBVIOUS
<1>1. ASSUME NEW i \in Ids \ {disconnect_timeout_id}, NEW ms \in Durations, Start(i, ms)
      PROVE  Alarm'
  <2>1. CASE ms = 0
    <3>1. /\ pc = "idle" /\ pc' = pc /\ active' = [active EXCEPT ![i] = FALSE]
          /\ armed' = armed /\ remaining_ms' = remaining_ms
      BY <1>1, <2>1 DEF Start, timer, call
    <3>2. \A j \in Ids : active'[j] => active[j]
      BY <3>1 DEF TypeOK
    <3> QED BY <3>1, <3>2 DEF Alarm, AlarmSet, AlarmLoop
  <2>2. CASE ms # 0
    BY <1>1, <2>2 DEF Start, Alarm, AlarmSet, AlarmLoop
  <2> QED BY <2>1, <2>2
<1>2. ASSUME NEW i \in Ids, Reset(i)
      PROVE  Alarm'
  BY <1>2 DEF Reset, Alarm, AlarmSet, AlarmLoop
<1>3. CASE MainStep
  BY <1>3, MainAlarm
<1>4. CASE TimerExpires \/ Connect \/ Receive \/ Disconnect
  <2>1. pc' = pc /\ index' = index /\ value' = value
    BY <1>4, InterruptAlarm DEF call
  <2>2. pc = "take" => index \in Ids
    BY DEF TypeOK
  <2>3. pc = "take" => remaining_ms'[index] # UINT32_MAX
    BY <1>4, <2>2, InterruptAlarm DEF Alarm, AlarmLoop
  <2>4. CASE (\E i \in Ids : Visible(i)') => armed'
    BY <2>1, <2>3, <2>4 DEF Alarm, AlarmSet, AlarmLoop, Visible
  <2>5. CASE armed' = armed /\ \A i \in Ids : Visible(i)' => Visible(i)
    BY <2>1, <2>3, <2>5 DEF Alarm, AlarmSet, AlarmLoop, Visible
  <2> QED BY <1>4, <2>4, <2>5, InterruptAlarm
<1>5. CASE Tick
  BY <1>5 DEF Tick, Alarm, AlarmSet, AlarmLoop, table
<1>6. CASE UNCHANGED vars
  BY <1>6 DEF Alarm, AlarmSet, AlarmLoop, vars, table, timer, call
<1> QED BY <1>1, <1>2, <1>3, <1>4, <1>5, <1>6 DEF Next

(* Between calls of the main loop the app-timer runs while a timeout is    *)
(* active, even if interrupts changed the table inside the calls           *)
(* (get_minimal_remaining_ms, timeout_start, timeout_stop).                *)
THEOREM AlarmKept == Spec => []AlarmSet
<1>1. Init => Alarm
  BY InitIInv DEF IInv, Alarm
<1>2. Alarm => AlarmSet
  BY DEF Alarm
<1> QED BY <1>1, <1>2, TypeCorrect, AlarmStep, PTL DEF Spec
-----------------------------------------------------------------------------
(* Time.  One lemma per action: it keeps Timely. *)

(* Steps of the main loop that only read, or change its local variables. *)
Quiet ==
  /\ remaining_ms' = remaining_ms /\ timeout_ms' = timeout_ms /\ active' = active
  /\ running' = running /\ since' = since
  /\ armed' = armed /\ due' = due /\ over' = over
  /\ link' = link /\ closing' = closing
  /\ age' = age /\ early' = early /\ pauses' = pauses /\ wrapped' = wrapped

LEMMA QuietTimely ==
  ASSUME Timely, Quiet,
         AllBalanced', TimerServes', Short', LoopHolds', LeastSoFar', HandlerPending'
  PROVE  Timely'
BY DEF Timely, Quiet, InTime, Guarded, NoneAtMax

SetPcs == {"set_remaining", "set_active"}

LEMMA QuietBalanced ==
  ASSUME Timely, Quiet, pc \notin SetPcs \cup {"arm"}, pc' \notin SetPcs \cup {"arm"},
         \A i \in Ids : active[i] => Pending(i)' = Pending(i)
  PROVE  AllBalanced'
BY DEF Timely, Quiet, AllBalanced, Balanced, Entering, Entered, SetPcs

LEMMA TableNat ==
  ASSUME TypeOK, NEW i \in Ids
  PROVE  /\ remaining_ms[i] \in Nat /\ timeout_ms[i] \in Nat /\ age[i] \in Nat
         /\ delta_ms \in Nat /\ pauses \in Nat /\ i \in Int
<1> USE TimeoutAssumption
<1>1. remaining_ms[i] \in Words /\ timeout_ms[i] \in Words /\ delta_ms \in Words
  BY DEF TypeOK
<1>2. age[i] \in Nat /\ pauses \in 0 .. MaxPause
  BY DEF TypeOK
<1> QED BY <1>1, <1>2 DEF Words, Ids

LEMMA StartTimely ==
  ASSUME TypeOK, Timely, NEW i \in Ids \ {disconnect_timeout_id}, NEW ms \in Durations,
         Start(i, ms)
  PROVE  Timely'
<1> USE TimeoutAssumption
<1>1. CASE ms = 0
  <2>1. /\ pc = "idle" /\ pc' = pc /\ index' = index /\ value' = value /\ delta_ms' = delta_ms
        /\ active' = [active EXCEPT ![i] = FALSE] /\ age' = [age EXCEPT ![i] = 0]
        /\ remaining_ms' = remaining_ms /\ timeout_ms' = timeout_ms
        /\ running' = running /\ since' = since /\ armed' = armed /\ due' = due /\ over' = over
        /\ link' = link /\ closing' = closing /\ early' = early /\ pauses' = pauses
        /\ wrapped' = wrapped
    BY <1>1 DEF Start, call, timer, radio
  <2>2. \A j \in Ids : active'[j] => active[j] /\ j # i /\ age'[j] = age[j]
    BY <2>1 DEF TypeOK
  <2>3. AllBalanced' /\ InTime'
    BY <2>1, <2>2 DEF Timely, AllBalanced, InTime, Balanced, Pending, Entering, Entered
  <2>4. TimerServes'
    BY <2>1, <2>2 DEF Timely, TimerServes, Served, AtLeastTwo
  <2>5. Guarded' /\ HandlerPending'
    BY <2>1 DEF Timely, Guarded, HandlerPending, TypeOK
  <2>6. Short' /\ LoopHolds' /\ LeastSoFar' /\ NoneAtMax'
    BY <2>1 DEF Timely, Short, LoopHolds, LeastSoFar, NoneAtMax
  <2> QED BY <2>1, <2>3, <2>4, <2>5, <2>6 DEF Timely
<1>2. CASE ms # 0
  <2>1. Quiet /\ pc = "idle" /\ pc' = "look"
    BY <1>2 DEF Start, Quiet, timer, radio
  <2>2. AllBalanced'
    BY <2>1, QuietBalanced DEF Pending, Quiet, SetPcs
  <2> QED BY <2>1, <2>2, QuietTimely DEF Quiet, Timely, TimerServes, Served, AtLeastTwo, Short,
                                         LoopHolds, LeastSoFar, HandlerPending
<1> QED BY <1>1, <1>2

LEMMA ResetTimely ==
  ASSUME TypeOK, Timely, NEW i \in Ids, Reset(i)
  PROVE  Timely'
<1>1. Quiet /\ pc = "idle" /\ pc' = "look"
  BY DEF Reset, Quiet, table, timer, radio, ghosts
<1>2. AllBalanced'
  BY <1>1, QuietBalanced DEF Pending, Quiet, SetPcs
<1> QED BY <1>1, <1>2, QuietTimely DEF Quiet, Timely, TimerServes, Served, AtLeastTwo, Short,
                                       LoopHolds, LeastSoFar, HandlerPending

LEMMA LookTimely ==
  ASSUME TypeOK, Timely, Look
  PROVE  Timely'
<1>1. Quiet /\ pc = "look" /\ pc' = (IF running THEN "stop" ELSE "set")
  BY DEF Look, Quiet, table, timer, radio, ghosts
<1>2. CASE running
  <2>1. AllBalanced'
    BY <1>1, <1>2, QuietBalanced DEF Pending, Quiet, SetPcs
  <2> QED BY <1>1, <1>2, <2>1, QuietTimely DEF Quiet, Timely, TimerServes, Served, AtLeastTwo,
                                         Short, LoopHolds, LeastSoFar, HandlerPending
<1>3. CASE ~running
  <2>1. ~armed /\ \A j \in Ids : ~active[j]
    BY <1>1, <1>3 DEF Timely, TimerServes
  <2>2. AllBalanced'
    BY <1>1, <1>3, <2>1, QuietBalanced DEF SetPcs
  <2> QED BY <1>1, <1>3, <2>1, <2>2, QuietTimely DEF Quiet, TimerServes, Short, LoopHolds,
                                                    LeastSoFar, HandlerPending
<1> QED BY <1>2, <1>3

LEMMA StopTimerTimely ==
  ASSUME TypeOK, Timely, StopTimer
  PROVE  Timely'
<1> USE TimeoutAssumption
<1>1. /\ pc = "stop" /\ pc' = "clock" /\ ~armed'
      /\ remaining_ms' = remaining_ms /\ timeout_ms' = timeout_ms /\ active' = active
      /\ since' = since /\ pauses' = pauses /\ age' = age
      /\ link' = link /\ closing' = closing /\ early' = early /\ wrapped' = wrapped
  BY DEF StopTimer, table, radio, ghosts
<1>2. Short'
  <2>1. (\E i \in Ids : active[i]) => since + due <= MAX_MILLIS_PER_TIMEOUT_TIMER + over + pauses
    BY <1>1 DEF Timely, Short, TimerServes
  <2>2. (\E i \in Ids : active[i]) => since <= MAX_MILLIS_PER_TIMEOUT_TIMER + Latency + pauses
    BY <2>1 DEF TypeOK
  <2>3. Pending(0)' = since
    BY <1>1 DEF Pending
  <2> QED BY <1>1, <2>2, <2>3 DEF Short
<1> QED BY <1>1, <1>2 DEF Timely, AllBalanced, Balanced, Entering, Entered, Pending,
                    TimerServes, HandlerPending, InTime, Guarded, LoopHolds, LeastSoFar, NoneAtMax

LEMMA ReadClockTimely ==
  ASSUME TypeOK, Timely, ReadClock
  PROVE  Timely'
<1>1. Quiet /\ pc = "clock" /\ pc' = "delta" /\ value' = 0
  BY DEF ReadClock, Quiet, table, timer, radio, ghosts
<1>2. \A i \in Ids : Pending(i)' = Pending(i)
  BY <1>1 DEF Pending, Quiet, TypeOK
<1>3. Pending(0)' = Pending(0)
  BY <1>1 DEF Pending, Quiet, TypeOK
<1>4. AllBalanced'
  BY <1>1, <1>2, QuietBalanced DEF SetPcs
<1>5. Short'
  BY <1>1, <1>3 DEF Timely, TimerServes, Short, Quiet, TypeOK
<1> QED BY <1>1, <1>4, <1>5, QuietTimely DEF Quiet, Timely, TimerServes, LoopHolds, LeastSoFar,
                                             HandlerPending

LEMMA ReadDeltaTimely ==
  ASSUME TypeOK, Timely, ReadDelta
  PROVE  Timely'
<1> USE TimeoutAssumption
<1>1. Quiet /\ pc = "delta" /\ pc' = "adapt" /\ index' = 0 /\ delta_ms' = (since - value) % WORD
  BY DEF ReadDelta, Quiet, table, timer, radio, ghosts
<1>2. \A i \in Ids : i >= 0
  BY DEF Ids
<1>3. ASSUME NEW i \in Ids, active[i]
      PROVE  Pending(i)' = Pending(i)
  <2>1. since - value <= MAX_MILLIS_PER_TIMEOUT_TIMER + Latency + pauses /\ value <= since
    BY <1>1, <1>3 DEF Timely, Short, Pending
  <2>2. since - value \in Nat /\ since - value < WORD
    BY <2>1 DEF TypeOK
  <2>3. delta_ms' = since - value
    BY <1>1, <2>2, ModSmall
  <2> QED BY <1>1, <1>2, <2>3 DEF Pending
<1>4. AllBalanced'
  BY <1>1, <1>3, QuietBalanced DEF SetPcs
<1> QED BY <1>1, <1>4, QuietTimely DEF Quiet, Timely, TimerServes, Short, LoopHolds, LeastSoFar,
                                       HandlerPending

LEMMA AdaptOneTimely ==
  ASSUME TypeOK, Timely, AdaptOne
  PROVE  Timely'
<1>1. /\ Quiet /\ pc = "adapt" /\ index \in Ids /\ delta_ms' = delta_ms
      /\ \/ pc' = "check" /\ active[index] /\ index' = index
         \/ pc' = "adapt" /\ ~active[index] /\ index' = index + 1
  BY TimeoutAssumption DEF AdaptOne, Quiet, table, timer, radio, ghosts, TypeOK, Ids
<1>2. \A i \in Ids : i \in Int
  BY TimeoutAssumption DEF Ids
<1>3. \A i \in Ids : active[i] => Pending(i)' = Pending(i)
  BY <1>1, <1>2 DEF Pending
<1>4. AllBalanced'
  BY <1>1, <1>3, QuietBalanced DEF SetPcs
<1> QED BY <1>1, <1>4, QuietTimely DEF Quiet, Timely, TimerServes, Short, LoopHolds, LeastSoFar,
                                       HandlerPending

LEMMA CheckTimely ==
  ASSUME TypeOK, Timely, Check
  PROVE  Timely'
<1>1. /\ Quiet /\ pc = "check" /\ index' = index /\ delta_ms' = delta_ms
      /\ pc' = (IF remaining_ms[index] < delta_ms THEN "handle" ELSE "load")
  BY DEF Check, Quiet, table, timer, radio, ghosts
<1>2. index \in Ids /\ remaining_ms[index] \in Nat /\ delta_ms \in Nat
  BY <1>1, Constants DEF TypeOK
<1>3. AllBalanced'
  BY <1>1, QuietBalanced DEF Pending, SetPcs
<1>4. LoopHolds'
  BY <1>1, <1>2 DEF LoopHolds, Quiet, Timely
<1> QED BY <1>1, <1>3, <1>4, QuietTimely DEF Quiet, Timely, TimerServes, Short, LeastSoFar,
                                             HandlerPending

(* A handler is due when less remains than is charged: more time has       *)
(* passed since the start than the timeout allowed.                        *)
LEMMA CallHandlerTimely ==
  ASSUME TypeOK, Timely, CallHandler
  PROVE  Timely'
<1> USE TimeoutAssumption
<1>1. /\ pc = "handle" /\ pc' = "clear" /\ index' = index /\ delta_ms' = delta_ms
      /\ remaining_ms' = remaining_ms /\ timeout_ms' = timeout_ms /\ active' = active
      /\ armed' = armed /\ pauses' = pauses /\ age' = age /\ link' = link /\ wrapped' = wrapped
      /\ HandlersRun({index})
  BY DEF CallHandler, table, timer
<1>2. index \in Ids /\ active[index] /\ remaining_ms[index] < delta_ms
  BY <1>1 DEF TypeOK, Timely, LoopHolds
<1>3. index >= index
  BY <1>2 DEF Ids
<1>4. timeout_ms[index] + delta_ms <= age[index] + remaining_ms[index]
  BY <1>1, <1>2, <1>3 DEF Timely, AllBalanced, Balanced, Pending, Entering
<1>5. /\ timeout_ms[index] \in Nat /\ age[index] \in Nat /\ remaining_ms[index] \in Nat
      /\ delta_ms \in Nat
  BY <1>2, Constants DEF TypeOK
<1>6. ~TooEarly(index)
  BY <1>2, <1>4, <1>5 DEF TooEarly
<1>7. ~early'
  BY <1>1, <1>6 DEF HandlersRun, Timely
<1>8. (closing => closing') /\ (index = disconnect_timeout_id => closing')
  BY <1>1 DEF HandlersRun
<1>9. Guarded' /\ HandlerPending'
  BY <1>1, <1>8 DEF Timely, Guarded, HandlerPending
<1>10. AllBalanced'
  BY <1>1 DEF Timely, AllBalanced, Balanced, Pending, Entering, Entered
<1> QED BY <1>1, <1>2, <1>7, <1>9, <1>10 DEF Timely, TimerServes, Short, LoopHolds, LeastSoFar,
                                             NoneAtMax, InTime

LEMMA ClearActiveTimely ==
  ASSUME TypeOK, Timely, ClearActive
  PROVE  Timely'
<1> USE TimeoutAssumption
<1>1. /\ pc = "clear" /\ pc' = "adapt" /\ index \in Ids /\ index' = index + 1
      /\ active' = [active EXCEPT ![index] = FALSE] /\ age' = [age EXCEPT ![index] = 0]
      /\ remaining_ms' = remaining_ms /\ timeout_ms' = timeout_ms /\ armed' = armed
      /\ delta_ms' = delta_ms /\ pauses' = pauses /\ wrapped' = wrapped
      /\ link' = link /\ closing' = closing /\ early' = early
  BY DEF ClearActive, TypeOK, timer, radio
<1>2. \A i \in Ids : i \in Int
  BY DEF Ids
<1>3. \A i \in Ids : active'[i] => active[i] /\ i # index /\ age'[i] = age[i]
  BY <1>1 DEF TypeOK
<1>4. \A i \in Ids : i # index => Pending(i)' = Pending(i)
  BY <1>1, <1>2 DEF Pending
<1>5. AllBalanced' /\ InTime'
  BY <1>1, <1>3, <1>4 DEF Timely, AllBalanced, InTime, Balanced, Entering, Entered
<1>6. TimerServes' /\ HandlerPending' /\ Short' /\ LoopHolds' /\ LeastSoFar' /\ NoneAtMax'
  BY <1>1 DEF Timely, TimerServes, HandlerPending, Short, LoopHolds, LeastSoFar, NoneAtMax
<1>7. Guarded'
  BY <1>1 DEF Timely, Guarded, HandlerPending, TypeOK
<1> QED BY <1>1, <1>5, <1>6, <1>7 DEF Timely

LEMMA LoadRemainingTimely ==
  ASSUME TypeOK, Timely, LoadRemaining
  PROVE  Timely'
<1>1. /\ Quiet /\ pc = "load" /\ pc' = "store" /\ index' = index /\ delta_ms' = delta_ms
      /\ value' = remaining_ms[index]
  BY DEF LoadRemaining, Quiet, table, timer, radio, ghosts
<1>2. AllBalanced'
  BY <1>1, QuietBalanced DEF Pending, SetPcs
<1> QED BY <1>1, <1>2, QuietTimely DEF Quiet, Timely, TimerServes, Short, LoopHolds, LeastSoFar,
                                       HandlerPending

(* What was compared is still there: the subtraction does not wrap. *)
LEMMA StoreRemainingTimely ==
  ASSUME TypeOK, Timely, StoreRemaining
  PROVE  Timely'
<1> USE TimeoutAssumption
<1>1. /\ pc = "store" /\ pc' = "adapt" /\ index' = index + 1 /\ delta_ms' = delta_ms
      /\ timeout_ms' = timeout_ms /\ active' = active /\ armed' = armed
      /\ pauses' = pauses /\ age' = age /\ link' = link /\ closing' = closing /\ early' = early
      /\ remaining_ms' = [remaining_ms EXCEPT ![index] = (value - delta_ms) % WORD]
      /\ wrapped' = (wrapped \/ value < delta_ms)
  BY DEF StoreRemaining, timer, radio
<1>2. /\ index \in Ids /\ value = remaining_ms[index] /\ delta_ms <= value
      /\ value \in Words /\ delta_ms \in Words /\ value # UINT32_MAX
  BY <1>1 DEF Timely, LoopHolds, NoneAtMax, TypeOK
<1>3. (value - delta_ms) % WORD = value - delta_ms
  <2>1. value - delta_ms \in Nat /\ value - delta_ms < WORD
    BY <1>2 DEF Words
  <2> QED BY <2>1, ModSmall
<1>4. remaining_ms' = [remaining_ms EXCEPT ![index] = value - delta_ms]
  BY <1>1, <1>3
<1>5. ~wrapped'
  <2>1. ~(value < delta_ms)
    BY <1>2 DEF Words
  <2> QED BY <1>1, <2>1 DEF Timely
<1>6. NoneAtMax'
  <2>1. value - delta_ms # UINT32_MAX
    BY <1>2 DEF Words, UINT32_MAX
  <2> QED BY <1>4, <2>1 DEF Timely, NoneAtMax, TypeOK
<1>7. \A i \in Ids : i \in Int
  BY DEF Ids
<1>8. ASSUME NEW i \in Ids, active[i]
      PROVE  Balanced(i)'
  <2>1. Balanced(i)
    BY <1>1, <1>8 DEF Timely, AllBalanced, Entering
  <2>2. CASE i = index
    <3>1. Pending(i) = delta_ms /\ Pending(i)' = 0
      BY <1>1, <1>7, <2>2 DEF Pending
    <3>2. remaining_ms'[i] = remaining_ms[i] - delta_ms
      BY <1>2, <1>4, <2>2 DEF TypeOK
    <3>3. /\ remaining_ms[i] \in Nat /\ delta_ms \in Nat /\ age[i] \in Nat
          /\ timeout_ms[i] \in Nat /\ pauses \in Nat
      BY TableNat
    <3> QED BY <1>1, <2>1, <3>1, <3>2, <3>3 DEF Balanced
  <2>3. CASE i # index
    <3>1. Pending(i)' = Pending(i)
      BY <1>1, <1>2, <1>7, <2>3 DEF Pending
    <3>2. remaining_ms'[i] = remaining_ms[i]
      BY <1>1, <2>3 DEF TypeOK
    <3> QED BY <1>1, <2>1, <3>1, <3>2 DEF Balanced
  <2> QED BY <2>2, <2>3
<1>9. AllBalanced'
  BY <1>1, <1>8 DEF AllBalanced, Entered
<1> QED BY <1>1, <1>5, <1>6, <1>9 DEF Timely, TimerServes, Short, LoopHolds, LeastSoFar,
                                     HandlerPending, InTime, Guarded

LEMMA AdaptDoneTimely ==
  ASSUME TypeOK, Timely, AdaptDone
  PROVE  Timely'
<1> USE TimeoutAssumption
<1>1. /\ pc = "adapt" /\ pc' = "set" /\ index = number_of_registered_timeouts /\ ~running'
      /\ remaining_ms' = remaining_ms /\ timeout_ms' = timeout_ms /\ active' = active
      /\ armed' = armed /\ pauses' = pauses /\ age' = age /\ wrapped' = wrapped
      /\ link' = link /\ closing' = closing /\ early' = early
  BY DEF AdaptDone, table, timer, radio, ghosts
<1>2. \A i \in Ids : Pending(i) = 0 /\ Pending(i)' = 0
  BY <1>1 DEF Pending, Ids
<1>3. AllBalanced'
  BY <1>1, <1>2 DEF Timely, AllBalanced, Balanced, Entering, Entered
<1> QED BY <1>1, <1>3 DEF Timely, TimerServes, Short, LoopHolds, LeastSoFar, NoneAtMax,
                          HandlerPending, InTime, Guarded

LEMMA SetTimeoutTimely ==
  ASSUME TypeOK, Timely, SetTimeout
  PROVE  Timely'
<1> USE TimeoutAssumption
<1>1. /\ pc = "set" /\ pc' = "set_remaining" /\ arg' = arg /\ arg_ms' = arg_ms
      /\ timeout_ms' = [timeout_ms EXCEPT ![arg] = arg_ms] /\ age' = [age EXCEPT ![arg] = 0]
      /\ remaining_ms' = remaining_ms /\ active' = active /\ running' = running
      /\ armed' = armed /\ pauses' = pauses /\ wrapped' = wrapped
      /\ link' = link /\ closing' = closing /\ early' = early
  BY DEF SetTimeout, timer, radio
<1>2. arg \in Ids /\ pauses \in Nat /\ arg_ms \in Nat /\ Latency \in Nat
  BY Constants DEF TypeOK
<1>3. \A i \in Ids : i # arg => age'[i] = age[i] /\ timeout_ms'[i] = timeout_ms[i]
  BY <1>1 DEF TypeOK
<1>4. age'[arg] = 0 /\ timeout_ms'[arg] = arg_ms
  BY <1>1, <1>2 DEF TypeOK
<1>5. \A i \in Ids : Pending(i) = 0 /\ Pending(i)' = 0
  BY <1>1 DEF Pending
<1>6. \A i \in Ids : active[i] /\ i # arg => Balanced(i)'
  BY <1>1, <1>3, <1>5 DEF Timely, AllBalanced, Balanced, Entering
<1>7. AllBalanced'
  BY <1>1, <1>2, <1>4, <1>6 DEF AllBalanced, Entering, Entered
<1>8. InTime'
  BY <1>1, <1>2, <1>3, <1>4 DEF Timely, InTime
<1> QED BY <1>1, <1>7, <1>8 DEF Timely, TimerServes, Short, LoopHolds, LeastSoFar, NoneAtMax,
                          HandlerPending, Guarded

LEMMA SetRemainingTimely ==
  ASSUME TypeOK, Timely, SetRemaining
  PROVE  Timely'
<1> USE TimeoutAssumption
<1>1. /\ pc = "set_remaining" /\ pc' = "set_active" /\ arg' = arg
      /\ remaining_ms' = [remaining_ms EXCEPT ![arg] = arg_ms]
      /\ timeout_ms' = timeout_ms /\ active' = active /\ running' = running
      /\ armed' = armed /\ pauses' = pauses /\ age' = age /\ wrapped' = wrapped
      /\ link' = link /\ closing' = closing /\ early' = early
  BY DEF SetRemaining, timer, radio, ghosts
<1>2. /\ arg \in Ids /\ timeout_ms[arg] = arg_ms /\ age[arg] <= pauses
      /\ arg_ms # UINT32_MAX /\ arg_ms \in Nat /\ age[arg] \in Nat /\ pauses \in Nat
  BY <1>1, Constants DEF Timely, AllBalanced, TypeOK
<1>3. remaining_ms'[arg] = arg_ms /\ \A i \in Ids : i # arg => remaining_ms'[i] = remaining_ms[i]
  BY <1>1, <1>2 DEF TypeOK
<1>4. \A i \in Ids : Pending(i) = 0 /\ Pending(i)' = 0
  BY <1>1 DEF Pending
<1>5. Balanced(arg)'
  BY <1>1, <1>2, <1>3, <1>4 DEF Balanced
<1>6. \A i \in Ids : active[i] /\ i # arg => Balanced(i)'
  BY <1>1, <1>3, <1>4 DEF Timely, AllBalanced, Balanced, Entering
<1>7. AllBalanced'
  BY <1>1, <1>5, <1>6 DEF AllBalanced, Entering, Entered
<1>8. NoneAtMax'
  BY <1>2, <1>3 DEF Timely, NoneAtMax
<1> QED BY <1>1, <1>7, <1>8 DEF Timely, TimerServes, Short, LoopHolds, LeastSoFar,
                          HandlerPending, InTime, Guarded

LEMMA SetActiveTimely ==
  ASSUME TypeOK, Timely, SetActive
  PROVE  Timely'
<1> USE TimeoutAssumption
<1>1. /\ pc = "set_active" /\ pc' = "min" /\ index' = 0 /\ arg \in Ids
      /\ active' = [active EXCEPT ![arg] = TRUE]
      /\ remaining_ms' = remaining_ms /\ timeout_ms' = timeout_ms /\ running' = running
      /\ armed' = armed /\ pauses' = pauses /\ age' = age /\ wrapped' = wrapped
      /\ link' = link /\ closing' = closing /\ early' = early
  BY DEF SetActive, TypeOK, timer, radio, ghosts
<1>2. \A i \in Ids : active'[i] => active[i] \/ i = arg
  BY <1>1 DEF TypeOK
<1>3. \A i \in Ids : Pending(i) = 0 /\ Pending(i)' = 0
  BY <1>1 DEF Pending
<1>4. \A i \in Ids : active'[i] => Balanced(i) /\ Balanced(i)'
  BY <1>1, <1>2, <1>3 DEF Timely, AllBalanced, Balanced, Entering, Entered
<1>5. AllBalanced'
  BY <1>1, <1>4 DEF AllBalanced, Entering, Entered
<1>6. InTime'
  <2> SUFFICES ASSUME NEW i \in Ids, active'[i]
               PROVE  age[i] <= timeout_ms[i] + 2 + Latency + pauses
    BY <1>1 DEF InTime
  <2>1. age[i] + remaining_ms[i] <= timeout_ms[i] + 0 + pauses
    BY <1>1, <1>3, <1>4 DEF Balanced
  <2>2. /\ age[i] \in Nat /\ remaining_ms[i] \in Nat /\ timeout_ms[i] \in Nat
        /\ pauses \in Nat /\ Latency \in Nat
    BY TableNat
  <2> QED BY <2>1, <2>2
<1>7. Guarded'
  BY <1>1 DEF Timely, Guarded, TypeOK
<1>8. LeastSoFar'
  BY <1>1 DEF LeastSoFar, Ids
<1> QED BY <1>1, <1>5, <1>6, <1>7, <1>8 DEF Timely, TimerServes, Short, LoopHolds, NoneAtMax,
                          HandlerPending

LEMMA MinLoopTimely ==
  ASSUME TypeOK, Timely, MinOne \/ Compare \/ Take
  PROVE  Timely'
<1> USE TimeoutAssumption
<1>1. /\ Quiet /\ pc \in {"min", "compare", "take"} /\ pc' \in {"min", "compare", "take"}
      /\ index \in Ids
  BY DEF MinOne, Compare, Take, Quiet, table, timer, radio, ghosts, TypeOK, Ids
<1>2. \A i \in Ids : Pending(i) = 0 /\ Pending(i)' = 0
  BY <1>1 DEF Pending
<1>3. AllBalanced'
  BY <1>1, <1>2, QuietBalanced DEF SetPcs
<1>4. \A i \in Ids : i \in Int /\ remaining_ms[i] \in Nat
  BY TableNat
<1>5. value \in Nat
  BY DEF TypeOK
<1>6. LeastSoFar'
  <2>1. CASE MinOne
    <3>1. /\ value' = value
          /\ \/ pc' = "compare" /\ index' = index
             \/ pc' = "min" /\ ~active[index] /\ index' = index + 1
      BY <2>1 DEF MinOne
    <3> QED BY <1>1, <1>4, <3>1 DEF Timely, LeastSoFar, Quiet
  <2>2. CASE Compare
    <3>1. /\ value' = value
          /\ \/ pc' = "take" /\ index' = index /\ remaining_ms[index] < value
             \/ pc' = "min" /\ ~(remaining_ms[index] < value) /\ index' = index + 1
      BY <2>2 DEF Compare
    <3> QED BY <1>1, <1>4, <1>5, <3>1 DEF Timely, LeastSoFar, Quiet
  <2>3. CASE Take
    <3>1. pc = "take" /\ value' = remaining_ms[index] /\ pc' = "min" /\ index' = index + 1
      BY <2>3 DEF Take
    <3>2. remaining_ms[index] < value
      BY <3>1 DEF Timely, LeastSoFar
    <3> QED BY <1>1, <1>4, <1>5, <3>1, <3>2 DEF Timely, LeastSoFar, Quiet
  <2> QED BY <2>1, <2>2, <2>3
<1> QED BY <1>1, <1>3, <1>6, QuietTimely DEF Quiet, Timely, TimerServes, Short, LoopHolds,
                                             HandlerPending

LEMMA SetRunningTimely ==
  ASSUME TypeOK, Timely, SetRunning
  PROVE  Timely'
<1> USE TimeoutAssumption
<1>1. /\ pc = "min" /\ index = number_of_registered_timeouts /\ ~armed /\ ~running
      /\ remaining_ms' = remaining_ms /\ timeout_ms' = timeout_ms /\ active' = active
      /\ armed' = armed /\ pauses' = pauses /\ age' = age /\ wrapped' = wrapped
      /\ link' = link /\ closing' = closing /\ early' = early
  BY DEF SetRunning, Timely, TimerServes, table, timer, radio, ghosts
<1>2. InTime' /\ Guarded' /\ ~early' /\ NoneAtMax' /\ ~wrapped'
  BY <1>1 DEF Timely, InTime, Guarded, NoneAtMax
<1>3. \A i \in Ids : active[i] => value <= remaining_ms[i]
  BY <1>1 DEF Timely, LeastSoFar, Ids
<1>4. CASE value = UINT32_MAX
  <2>1. \A i \in Ids : ~active[i]
    <3>1. \A i \in Ids : remaining_ms[i] \in Words /\ remaining_ms[i] # UINT32_MAX
      BY DEF Timely, NoneAtMax, TypeOK
    <3> QED BY <1>3, <1>4, <3>1 DEF Words, UINT32_MAX
  <2>2. pc' = "idle" /\ running' = running
    BY <1>4 DEF SetRunning, Return
  <2> QED BY <1>1, <1>2, <2>1, <2>2 DEF Timely, AllBalanced, Entered, TimerServes, Short,
                                        LoopHolds, LeastSoFar, HandlerPending
<1>5. CASE value # UINT32_MAX
  <2>1. pc' = "stamp" /\ running' = TRUE /\ value' = value
    BY <1>5 DEF SetRunning
  <2>2. AllBalanced'
    BY <1>1, <2>1 DEF Timely, AllBalanced, Balanced, Pending, Entering, Entered
  <2> QED BY <1>1, <1>2, <1>3, <2>1, <2>2 DEF Timely, TimerServes, Short, LoopHolds, LeastSoFar,
                                        HandlerPending
<1> QED BY <1>4, <1>5

LEMMA SetStartTimely ==
  ASSUME TypeOK, Timely, SetStart
  PROVE  Timely'
<1> USE TimeoutAssumption
<1>1. /\ pc = "stamp" /\ pc' = "arm" /\ since' = 0 /\ value' = value
      /\ remaining_ms' = remaining_ms /\ timeout_ms' = timeout_ms /\ active' = active
      /\ running' = running /\ armed' = armed /\ pauses' = pauses /\ age' = age
      /\ link' = link /\ closing' = closing /\ early' = early /\ wrapped' = wrapped
  BY DEF SetStart, table, timer, radio, ghosts
<1>2. AllBalanced'
  BY <1>1 DEF Timely, AllBalanced, Balanced, Pending, Entering, Entered
<1>3. Short'
  BY <1>1 DEF Timely, TimerServes, Short, TypeOK
<1> QED BY <1>1, <1>2, <1>3 DEF Timely, TimerServes, LoopHolds, LeastSoFar, NoneAtMax,
                          HandlerPending, InTime, Guarded

(* The app-timer is started with a time that is early enough for every     *)
(* active timeout.                                                         *)
LEMMA TimerMsServes ==
  ASSUME NEW r \in Nat, NEW q \in Nat, r <= q
  PROVE  /\ TimerMs(r) <= AtLeastTwo(q) /\ TimerMs(r) \in Nat
         /\ TimerMs(r) <= MAX_MILLIS_PER_TIMEOUT_TIMER
BY TimeoutAssumption DEF TimerMs, AtLeastTwo

LEMMA ArmTimely ==
  ASSUME TypeOK, Timely, Arm
  PROVE  Timely'
<1> USE TimeoutAssumption
<1>1. /\ pc = "arm" /\ pc' = "idle" /\ running' = running /\ since' = since
      /\ remaining_ms' = remaining_ms /\ timeout_ms' = timeout_ms /\ active' = active
      /\ pauses' = pauses /\ age' = age /\ wrapped' = wrapped
      /\ link' = link /\ closing' = closing /\ early' = early
  BY DEF Arm, Return, table, radio, ghosts
<1>2. ~armed /\ running
  BY <1>1 DEF Timely, TimerServes
<1>3. armed' /\ due' = TimerMs(value) /\ over' = 0
  BY <1>2 DEF Arm, StartTimer
<1>4. value \in Nat /\ since \in Nat /\ pauses \in Nat /\ since <= pauses
  BY <1>1 DEF TypeOK, Timely, Short
<1>5. ASSUME NEW i \in Ids, active[i]
      PROVE  Balanced(i)' /\ Served(i)'
  <2>1. /\ remaining_ms[i] \in Nat /\ timeout_ms[i] \in Nat /\ age[i] \in Nat
        /\ AtLeastTwo(remaining_ms[i]) \in Nat
    BY Constants DEF TypeOK, AtLeastTwo
  <2>2. value <= remaining_ms[i]
    BY <1>1, <1>5 DEF Timely, LeastSoFar
  <2>3. due' <= AtLeastTwo(remaining_ms[i]) /\ due' \in Nat
    BY <1>3, <1>4, <2>1, <2>2, TimerMsServes
  <2>4. /\ timeout_ms[i] + since <= age[i] + remaining_ms[i]
        /\ age[i] + remaining_ms[i] <= timeout_ms[i] + 0 + pauses
    BY <1>1, <1>5 DEF Timely, AllBalanced, Balanced, Pending, Entering
  <2>5. Balanced(i)'
    BY <1>1, <1>4, <2>1, <2>4 DEF Balanced, Pending
  <2>6. Served(i)'
    BY <1>1, <1>3, <1>4, <2>1, <2>3, <2>4 DEF Served, AtLeastTwo
  <2> QED BY <2>5, <2>6
<1>6. AllBalanced'
  BY <1>1, <1>5 DEF AllBalanced, Entered
<1>7. TimerServes'
  BY <1>1, <1>2, <1>3, <1>5 DEF TimerServes
<1>8. Short'
  <2>1. due' <= MAX_MILLIS_PER_TIMEOUT_TIMER /\ due' \in Nat
    BY <1>3, <1>4, TimerMsServes
  <2> QED BY <1>1, <1>3, <1>4, <2>1 DEF Short
<1> QED BY <1>1, <1>6, <1>7, <1>8 DEF Timely, LoopHolds, LeastSoFar, NoneAtMax, HandlerPending,
                                      InTime, Guarded

LEMMA MainTimely ==
  ASSUME TypeOK, Timely, MainStep
  PROVE  Timely'
BY LookTimely, StopTimerTimely, ReadClockTimely, ReadDeltaTimely, AdaptOneTimely, CheckTimely,
   CallHandlerTimely, ClearActiveTimely, LoadRemainingTimely, StoreRemainingTimely,
   AdaptDoneTimely, SetTimeoutTimely, SetRemainingTimely, SetActiveTimely, MinLoopTimely,
   SetRunningTimely, SetStartTimely, ArmTimely DEF MainStep

(* After an interrupt between the calls, or before the first access of     *)
(* one that matters, the app-timer fits what is active.                    *)
LEMMA RearmServes ==
  ASSUME TypeOK, TypeOK', NEW stopped \in BOOLEAN, stopped \/ ~armed, Rearm(stopped),
         NoneAtMax', pc \in {"idle", "look", "stop"}, pc' = pc,
         \A i \in Ids : active'[i] => age'[i] + remaining_ms'[i] <= timeout_ms'[i] + pauses'
  PROVE  /\ TimerServes' /\ Short'
         /\ (\E i \in Ids : active'[i]) => since' = 0
<1> USE TimeoutAssumption
<1>1. PICK ms \in Words : Rearm(stopped)!(ms)
  BY DEF Rearm
<1>2. \A i \in Ids : active'[i] => ms <= remaining_ms'[i]
  BY <1>1 DEF Minimal
<1>3. CASE ms = UINT32_MAX
  <2>1. \A i \in Ids : ~active'[i]
    <3>1. \A i \in Ids : remaining_ms'[i] \in Words /\ remaining_ms'[i] # UINT32_MAX
      BY DEF NoneAtMax, TypeOK
    <3> QED BY <1>2, <1>3, <3>1 DEF Words, UINT32_MAX
  <2>2. ~armed' /\ ~running'
    BY <1>1, <1>3
  <2> QED BY <2>1, <2>2 DEF TimerServes, Short
<1>4. CASE ms # UINT32_MAX
  <2>1. running' /\ since' = 0 /\ armed' /\ over' = 0 /\ due' = TimerMs(ms)
    BY <1>1, <1>4
  <2>2. ms \in Nat
    BY DEF Words
  <2>3. due' \in Nat /\ due' <= MAX_MILLIS_PER_TIMEOUT_TIMER
    BY <2>1, <2>2, TimerMsServes
  <2>4. pauses' \in Nat
    BY DEF TypeOK
  <2>5. ASSUME NEW i \in Ids, active'[i]
        PROVE  Served(i)'
    <3>1. /\ remaining_ms'[i] \in Nat /\ timeout_ms'[i] \in Nat /\ age'[i] \in Nat
          /\ AtLeastTwo(remaining_ms'[i]) \in Nat
      <4>1. remaining_ms'[i] \in Words /\ timeout_ms'[i] \in Words /\ age'[i] \in Nat
        BY DEF TypeOK
      <4> QED BY <4>1 DEF Words, AtLeastTwo
    <3>2. due' <= AtLeastTwo(remaining_ms'[i])
      BY <1>2, <2>1, <2>2, <2>5, <3>1, TimerMsServes
    <3>3. age'[i] + remaining_ms'[i] <= timeout_ms'[i] + pauses'
      BY <2>5
    <3>4. age'[i] + remaining_ms'[i] + due' <=
            timeout_ms'[i] + AtLeastTwo(remaining_ms'[i]) + over' + pauses'
      BY <2>1, <2>3, <2>4, <3>1, <3>2, <3>3
    <3> QED BY <3>4 DEF Served, AtLeastTwo
  <2>6. Short'
    BY <2>1, <2>3, <2>4 DEF Short
  <2>7. TimerServes'
    BY <2>1, <2>5 DEF TimerServes
  <2> QED BY <2>1, <2>6, <2>7
<1> QED BY <1>3, <1>4

LEMMA ExpiredNotEarly ==
  ASSUME TypeOK, AllBalanced, pc \in {"idle", "look", "stop"}, NEW i \in Ids, Expired(i, since)
  PROVE  ~TooEarly(i)
<1>1. active[i] /\ remaining_ms[i] < since
  BY DEF Expired
<1>2. timeout_ms[i] + since <= age[i] + remaining_ms[i]
  BY <1>1 DEF AllBalanced, Balanced, Pending, Entering
<1>3. since \in Nat
  BY DEF TypeOK
<1> QED BY <1>1, <1>2, <1>3, TableNat DEF TooEarly

(* A timeout that is charged with all that passed. *)
LEMMA ChargedBalanced ==
  ASSUME TypeOK, AllBalanced, pc \in {"idle", "look", "stop"}, NEW i \in Ids,
         active[i], ~Expired(i, since)
  PROVE  /\ timeout_ms[i] <= age[i] + Left(i, since)
         /\ age[i] + Left(i, since) <= timeout_ms[i] + pauses
<1>1. Left(i, since) = remaining_ms[i] - since
  BY DEF Left
<1>2. /\ timeout_ms[i] + since <= age[i] + remaining_ms[i]
      /\ age[i] + remaining_ms[i] <= timeout_ms[i] + since + pauses
  BY DEF AllBalanced, Balanced, Pending, Entering
<1>3. since \in Nat
  BY DEF TypeOK
<1> QED BY <1>1, <1>2, <1>3, TableNat

LEMMA LeftNotMax ==
  ASSUME TypeOK, NoneAtMax, NEW i \in Ids
  PROVE  Left(i, since) # UINT32_MAX
BY LeftIsWord, TimeoutAssumption DEF NoneAtMax, TypeOK, Words, UINT32_MAX

(* Steps of interrupts between the calls: what is left to show. *)
LEMMA BetweenTimely ==
  ASSUME pc \in {"idle", "look", "stop"}, pc' = pc,
         (\E i \in Ids : active'[i]) => since' = 0,
         \A i \in Ids : active'[i] =>
           /\ timeout_ms'[i] <= age'[i] + remaining_ms'[i]
           /\ age'[i] + remaining_ms'[i] <= timeout_ms'[i] + pauses',
         TypeOK', TimerServes', Short', NoneAtMax', ~early', ~wrapped', InTime', Guarded'
  PROVE  Timely'
<1>1. ASSUME NEW i \in Ids, active'[i]
      PROVE  Balanced(i)'
  <2>1. Pending(i)' = 0 /\ pc' # "arm"
    BY <1>1 DEF Pending
  <2>2. timeout_ms'[i] \in Nat /\ pauses' \in Nat
    <3>1. timeout_ms'[i] \in Words
      BY DEF TypeOK
    <3> QED BY <3>1, TimeoutAssumption DEF TypeOK, Words
  <2> QED BY <1>1, <2>1, <2>2 DEF Balanced
<1>2. AllBalanced'
  BY <1>1 DEF AllBalanced, Entered
<1> QED BY <1>2 DEF Timely, LoopHolds, LeastSoFar, HandlerPending

LEMMA TimerExpiresTimely ==
  ASSUME TypeOK, TypeOK', Timely, TimerExpires, ~raced'
  PROVE  Timely'
<1> USE TimeoutAssumption
<1>1. /\ pc \in {"idle", "look", "stop"} /\ pc' = pc
      /\ timeout_ms' = timeout_ms /\ pauses' = pauses /\ link' = link /\ wrapped' = wrapped
      /\ active' = [i \in Ids |-> active[i] /\ ~Expired(i, since)]
      /\ remaining_ms' = [i \in Ids |-> Left(i, since)]
      /\ age' = [i \in Ids |-> IF Expired(i, since) THEN 0 ELSE age[i]]
  BY DEF TimerExpires, Interrupts, call
<1>2. NoneAtMax'
  BY <1>1, LeftNotMax DEF Timely, NoneAtMax
<1>3. \A i \in Ids : active'[i] =>
        /\ active[i] /\ ~Expired(i, since) /\ remaining_ms'[i] = Left(i, since)
        /\ age'[i] = age[i]
  BY <1>1
<1>4. \A i \in Ids : active'[i] =>
        /\ timeout_ms'[i] <= age'[i] + remaining_ms'[i]
        /\ age'[i] + remaining_ms'[i] <= timeout_ms'[i] + pauses'
  BY <1>1, <1>3, ChargedBalanced DEF Timely
<1>5. TimerServes' /\ Short' /\ ((\E i \in Ids : active'[i]) => since' = 0)
  BY <1>1, <1>2, <1>4, RearmServes DEF TimerExpires
<1>6. InTime'
  BY <1>1, <1>3 DEF InTime, Timely
<1>7. ~early'
  BY ExpiredNotEarly, <1>1 DEF TimerExpires, HandlersRun, Timely
<1>8. Guarded'
  <2>1. closing' = (closing \/ Expired(disconnect_timeout_id, since))
    BY DEF TimerExpires, HandlersRun
  <2> QED BY <1>1, <2>1 DEF Timely, Guarded
<1>9. ~wrapped'
  BY <1>1 DEF Timely
<1> QED BY <1>1, <1>2, <1>4, <1>5, <1>6, <1>7, <1>8, <1>9, BetweenTimely

LEMMA StartDisconnectTimely ==
  ASSUME TypeOK, TypeOK', Timely, NEW ms \in Words \ {UINT32_MAX}, StartDisconnect(ms), ~raced',
         UNCHANGED <<call, pauses>>
  PROVE  Timely'
<1> USE TimeoutAssumption
<1> DEFINE d == disconnect_timeout_id
<1>1. /\ pc \in {"idle", "look", "stop"} /\ pc' = pc /\ pauses' = pauses /\ wrapped' = wrapped
      /\ active' = [j \in Ids |-> j = d \/ (active[j] /\ ~(running /\ Expired(j, since)))]
      /\ remaining_ms' = [j \in Ids |-> IF j = d THEN ms
                              ELSE IF running THEN Left(j, since) ELSE remaining_ms[j]]
      /\ timeout_ms' = [timeout_ms EXCEPT ![d] = ms]
      /\ age' = [j \in Ids |-> IF j = d \/ (running /\ Expired(j, since)) THEN 0 ELSE age[j]]
      /\ Rearm(running)
  BY DEF StartDisconnect, Interrupts, call
<1>2. NoneAtMax'
  BY <1>1, LeftNotMax DEF Timely, NoneAtMax
<1>3. running \/ (~armed /\ \A j \in Ids : ~active[j])
  BY <1>1 DEF Timely, TimerServes
<1>4. ASSUME NEW j \in Ids, active'[j]
      PROVE  /\ timeout_ms'[j] <= age'[j] + remaining_ms'[j]
             /\ age'[j] + remaining_ms'[j] <= timeout_ms'[j] + pauses'
             /\ age'[j] <= timeout_ms'[j] + 2 + Latency + pauses'
  <2>1. CASE j = d
    <3>1. age'[j] = 0 /\ timeout_ms'[j] = ms /\ remaining_ms'[j] = ms
      BY <1>1, <2>1 DEF TypeOK
    <3>2. ms \in Nat /\ pauses \in Nat
      BY DEF TypeOK, Words
    <3> QED BY <1>1, <3>1, <3>2
  <2>2. CASE j # d
    <3>1. active[j] /\ running /\ ~Expired(j, since)
      BY <1>1, <1>3, <1>4, <2>2
    <3>2. age'[j] = age[j] /\ timeout_ms'[j] = timeout_ms[j] /\ remaining_ms'[j] = Left(j, since)
      BY <1>1, <2>2, <3>1 DEF TypeOK
    <3>3. /\ timeout_ms[j] <= age[j] + Left(j, since)
          /\ age[j] + Left(j, since) <= timeout_ms[j] + pauses
      BY <1>1, <3>1, ChargedBalanced DEF Timely
    <3>4. age[j] <= timeout_ms[j] + 2 + Latency + pauses
      BY <3>1 DEF Timely, InTime
    <3> QED BY <1>1, <3>2, <3>3, <3>4
  <2> QED BY <2>1, <2>2
<1>5. TimerServes' /\ Short' /\ ((\E i \in Ids : active'[i]) => since' = 0)
  BY <1>1, <1>2, <1>3, <1>4, RearmServes DEF TypeOK
<1>6. InTime'
  BY <1>4 DEF InTime
<1>7. Guarded'
  BY <1>1 DEF Guarded
<1>8. ~early'
  BY ExpiredNotEarly, <1>1 DEF StartDisconnect, Timely
<1>9. ~wrapped'
  BY <1>1 DEF Timely
<1> QED BY <1>1, <1>2, <1>4, <1>5, <1>6, <1>7, <1>8, <1>9, BetweenTimely

LEMMA DisconnectTimely ==
  ASSUME TypeOK, Timely, Disconnect, ~raced'
  PROVE  Timely'
<1> USE TimeoutAssumption
<1>1. /\ pc \in {"idle", "look", "stop"} /\ pc' = pc /\ index' = index /\ value' = value
      /\ remaining_ms' = remaining_ms /\ timeout_ms' = timeout_ms /\ pauses' = pauses
      /\ since' = since /\ early' = early /\ ~link' /\ wrapped' = wrapped
      /\ active' = [active EXCEPT ![disconnect_timeout_id] = FALSE]
      /\ age' = [age EXCEPT ![disconnect_timeout_id] = 0]
  BY DEF Disconnect, Interrupts, call
<1>2. \A i \in Ids : active'[i] => active[i] /\ age'[i] = age[i]
  BY <1>1 DEF TypeOK
<1>3. AllBalanced' /\ InTime'
  BY <1>1, <1>2 DEF Timely, AllBalanced, InTime, Balanced, Pending, Entering, Entered
<1>4. TimerServes' /\ Short'
  <2>1. CASE \E i \in Ids : active'[i]
    <3>1. running' = running /\ armed' = armed /\ due' = due /\ over' = over
      BY <2>1, Zenon DEF Disconnect, timer
    <3> QED BY <1>1, <1>2, <3>1 DEF Timely, TimerServes, Served, AtLeastTwo, Short
  <2>2. CASE ~\E i \in Ids : active'[i]
    <3>1. running' = FALSE /\ armed' = FALSE
      BY <2>2, Zenon DEF Disconnect
    <3> QED BY <1>1, <2>2, <3>1 DEF TimerServes, Short
  <2> QED BY <2>1, <2>2
<1> QED BY <1>1, <1>3, <1>4 DEF Timely, Guarded, HandlerPending, LoopHolds, LeastSoFar, NoneAtMax

(* Between calls a millisecond is one more to be charged and brings the    *)
(* app-timer nearer; inside a call it counts as a pause.                   *)
LEMMA TickTimely ==
  ASSUME TypeOK, TypeOK', Timely, Tick
  PROVE  Timely'
<1> USE TimeoutAssumption
<1>1. /\ remaining_ms' = remaining_ms /\ timeout_ms' = timeout_ms /\ active' = active
      /\ running' = running /\ armed' = armed /\ early' = early /\ wrapped' = wrapped
      /\ pc' = pc /\ index' = index /\ delta_ms' = delta_ms /\ arg' = arg /\ arg_ms' = arg_ms
      /\ link' = link /\ closing' = closing /\ since' = since + 1
      /\ value' = (IF pc = "delta" THEN value + 1 ELSE value)
      /\ age' = [i \in Ids |-> IF active[i] THEN age[i] + 1 ELSE age[i]]
      /\ pauses' = (IF pc = "idle" THEN pauses ELSE pauses + 1)
  BY DEF Tick, table, radio
<1>2. \A i \in Ids : active[i] => age'[i] = age[i] + 1
  BY <1>1
<1>3. armed => pc \in {"idle", "look", "stop"}
  BY DEF Timely, TimerServes
<1>4. armed => \/ due > 0 /\ due' = due - 1 /\ over' = over
               \/ due = 0 /\ due' = 0 /\ over' = over + 1
  BY DEF Tick, TypeOK
<1>5. since \in Nat /\ pauses \in Nat /\ value \in Nat /\ due \in Nat /\ over \in Nat
  BY DEF TypeOK
<1>6. ASSUME NEW i \in Ids, active[i] \/ Entered(i), Balanced(i)
      PROVE  Balanced(i)'
  <2>1. age'[i] = age[i] + 1 \/ (pc = "set_active" /\ age'[i] = age[i])
    BY <1>1, <1>6 DEF Entered
  <2>2. CASE pc = "idle"
    <3>1. Pending(i) = since /\ Pending(i)' = since + 1 /\ pauses' = pauses
      BY <1>1, <2>2 DEF Pending
    <3> QED BY <1>1, <1>5, <1>6, <2>1, <2>2, <3>1, TableNat DEF Balanced
  <2>3. CASE pc \in {"look", "stop", "clock"}
    <3>1. Pending(i) = since /\ Pending(i)' = since + 1 /\ pauses' = pauses + 1
      BY <1>1, <2>3 DEF Pending
    <3> QED BY <1>1, <1>5, <1>6, <2>1, <2>3, <3>1, TableNat DEF Balanced
  <2>4. CASE pc = "arm"
    <3>1. Pending(i) = since /\ Pending(i)' = since + 1 /\ pauses' = pauses + 1
      BY <1>1, <2>4 DEF Pending
    <3> QED BY <1>1, <1>5, <1>6, <2>1, <2>4, <3>1, TableNat DEF Balanced
  <2>5. CASE pc \notin {"idle", "look", "stop", "clock", "arm"}
    <3>1. Pending(i)' = Pending(i) /\ Pending(i) \in Int /\ pauses' = pauses + 1
      BY <1>1, <1>5, <2>5, TableNat DEF Pending
    <3> QED BY <1>1, <1>5, <1>6, <2>1, <2>5, <3>1, TableNat DEF Balanced
  <2> QED BY <2>2, <2>3, <2>4, <2>5
<1>7. AllBalanced'
  <2>1. \A i \in Ids : (active[i] /\ ~Entering(i)) \/ Entered(i) => Balanced(i)'
    BY <1>6 DEF Timely, AllBalanced
  <2>2. pc = "set_remaining" => age'[arg] <= pauses'
    <3>1. arg \in Ids
      BY DEF TypeOK
    <3>2. age'[arg] <= age[arg] + 1 /\ age[arg] \in Nat
      BY <1>1, <3>1, TableNat
    <3>3. pc = "set_remaining" => age[arg] <= pauses
      BY DEF Timely, AllBalanced
    <3>4. age'[arg] \in Nat
      BY <3>1 DEF TypeOK
    <3> QED BY <1>1, <1>5, <3>2, <3>3, <3>4
  <2> QED BY <1>1, <2>1, <2>2 DEF Timely, AllBalanced, Entering, Entered
<1>8. ASSUME NEW i \in Ids, active[i], armed
      PROVE  Served(i)'
  <2>1. age[i] + remaining_ms[i] + due <= timeout_ms[i] + AtLeastTwo(remaining_ms[i]) + over + pauses
    BY <1>8 DEF Timely, TimerServes, Served
  <2>2. AtLeastTwo(remaining_ms[i]) \in Nat
    BY TableNat DEF AtLeastTwo
  <2>3. age'[i] + remaining_ms[i] + due' <=
          timeout_ms[i] + AtLeastTwo(remaining_ms[i]) + over' + pauses'
    BY <1>1, <1>2, <1>4, <1>5, <1>8, <2>1, <2>2, TableNat
  <2> QED BY <1>1, <2>3 DEF Served, AtLeastTwo
<1>9. TimerServes'
  BY <1>1, <1>8 DEF Timely, TimerServes
<1>10. Short'
  <2>1. armed => since' + due' <= MAX_MILLIS_PER_TIMEOUT_TIMER + over' + pauses'
    BY <1>1, <1>4, <1>5 DEF Timely, Short
  <2>2. pc \in {"clock", "delta"} /\ (\E i \in Ids : active[i]) =>
          Pending(0)' <= MAX_MILLIS_PER_TIMEOUT_TIMER + Latency + pauses'
    <3>1. pc \in {"clock", "delta"} /\ (\E i \in Ids : active[i]) =>
            Pending(0) <= MAX_MILLIS_PER_TIMEOUT_TIMER + Latency + pauses
      BY DEF Timely, Short
    <3>2. pc = "clock" => Pending(0) = since /\ Pending(0)' = since + 1
      BY <1>1 DEF Pending
    <3>3. pc = "delta" => Pending(0) = since - value /\ Pending(0)' = (since + 1) - (value + 1)
      BY <1>1 DEF Pending
    <3>4. pc \in {"clock", "delta"} => pauses' = pauses + 1
      BY <1>1
    <3>5. CASE pc = "clock"
      BY <1>5, <3>1, <3>2, <3>4, <3>5
    <3>6. CASE pc = "delta"
      BY <1>5, <3>1, <3>3, <3>4, <3>6
    <3> QED BY <3>5, <3>6
  <2>3. (pc = "delta" => value' <= since') /\ (pc = "arm" => since' <= pauses')
    BY <1>1, <1>5 DEF Timely, Short
  <2> QED BY <1>1, <2>1, <2>2, <2>3 DEF Short
<1>11. ASSUME NEW i \in Ids, active[i]
       PROVE  age'[i] <= timeout_ms'[i] + 2 + Latency + pauses'
  <2>1. CASE pc \in {"idle", "look", "stop"}
    <3>1. armed
      BY <1>11, <2>1 DEF Timely, TimerServes
    <3>2. age'[i] + remaining_ms[i] + due' <=
            timeout_ms[i] + AtLeastTwo(remaining_ms[i]) + over' + pauses'
      BY <1>1, <1>8, <1>11, <3>1 DEF Served, AtLeastTwo
    <3>3. AtLeastTwo(remaining_ms[i]) <= remaining_ms[i] + 2 /\ AtLeastTwo(remaining_ms[i]) \in Nat
      BY TableNat DEF AtLeastTwo
    <3>4. due' \in Nat /\ over' \in Nat /\ over' <= Latency /\ pauses' \in Nat /\ age'[i] \in Nat
      BY DEF TypeOK
    <3> QED BY <1>1, <3>2, <3>3, <3>4, TableNat
  <2>2. CASE pc \notin {"idle", "look", "stop"}
    <3>1. age[i] <= timeout_ms[i] + 2 + Latency + pauses
      BY <1>11 DEF Timely, InTime
    <3> QED BY <1>1, <1>2, <1>5, <1>11, <2>2, <3>1, TableNat
  <2> QED BY <2>1, <2>2
<1>12. InTime'
  BY <1>1, <1>11 DEF InTime
<1>13. LoopHolds' /\ LeastSoFar' /\ HandlerPending' /\ Guarded' /\ NoneAtMax'
  BY <1>1 DEF Timely, LoopHolds, LeastSoFar, HandlerPending, Guarded, NoneAtMax
<1> QED BY <1>1, <1>7, <1>9, <1>10, <1>12, <1>13 DEF Timely

(* raced is never taken back. *)
LEMMA RacedStays == TypeOK /\ [Next]_vars /\ raced => raced'
<1> SUFFICES ASSUME TypeOK, [Next]_vars, raced PROVE raced'
  OBVIOUS
<1>1. CASE TimerExpires \/ Connect \/ Receive \/ Disconnect
  BY <1>1 DEF TimerExpires, Connect, Receive, Disconnect, StartDisconnect, Interrupts
<1>2. CASE UNCHANGED raced
  BY <1>2
<1>3. ASSUME NEW i \in Ids, NEW ms \in Durations, Start(i, ms) PROVE UNCHANGED raced
  BY <1>3 DEF Start
<1>4. ASSUME NEW i \in Ids, Reset(i) PROVE UNCHANGED raced
  BY <1>4 DEF Reset, ghosts
<1>5. MainStep \/ Tick \/ UNCHANGED vars => UNCHANGED raced
  BY DEF MainStep, Look, StopTimer, ReadClock, ReadDelta, AdaptOne, Check, CallHandler,
         ClearActive, LoadRemaining, StoreRemaining, AdaptDone, SetTimeout, SetRemaining,
         SetActive, MinOne, Compare, Take, SetRunning, SetStart, Arm, Tick, vars, ghosts
<1> QED BY <1>1, <1>2, <1>3, <1>4, <1>5 DEF Next

LEMMA TimelyStep == TypeOK /\ TypeOK' /\ (~raced => Timely) /\ [Next]_vars => (~raced' => Timely')
<1> SUFFICES ASSUME TypeOK, TypeOK', ~raced => Timely, [Next]_vars, ~raced' PROVE Timely'
  OBVIOUS
<1>1. Timely
  BY RacedStays
<1>2. ASSUME NEW i \in Ids \ {disconnect_timeout_id}, NEW ms \in Durations, Start(i, ms)
      PROVE  Timely'
  BY <1>1, <1>2, StartTimely
<1>3. ASSUME NEW i \in Ids, Reset(i)
      PROVE  Timely'
  BY <1>1, <1>3, ResetTimely
<1>4. CASE MainStep
  BY <1>1, <1>4, MainTimely
<1>5. CASE TimerExpires
  BY <1>1, <1>5, TimerExpiresTimely
<1>6. CASE Connect
  BY <1>1, <1>6, StartDisconnectTimely, TimeoutAssumption DEF Connect
<1>7. CASE Receive
  BY <1>1, <1>7, StartDisconnectTimely, TimeoutAssumption DEF Receive, TypeOK
<1>8. CASE Disconnect
  BY <1>1, <1>8, DisconnectTimely
<1>9. CASE Tick
  BY <1>1, <1>9, TickTimely
<1>10. CASE UNCHANGED vars
  <2>1. Quiet /\ pc' = pc /\ index' = index /\ value' = value /\ delta_ms' = delta_ms
        /\ arg' = arg /\ arg_ms' = arg_ms
    BY <1>10 DEF vars, table, timer, call, radio, ghosts, Quiet
  <2>2. \A i \in Ids : Balanced(i) => Balanced(i)'
    BY <2>1 DEF Quiet, Balanced, Pending
  <2>3. AllBalanced'
    BY <1>1, <2>1, <2>2 DEF Quiet, Timely, AllBalanced, Entering, Entered
  <2>4. Pending(0)' = Pending(0) /\ \A i \in Ids : Served(i)' = Served(i)
    BY <2>1 DEF Quiet, Pending, Served, AtLeastTwo
  <2>5. TimerServes' /\ Short' /\ LoopHolds' /\ LeastSoFar' /\ HandlerPending'
    BY <1>1, <2>1, <2>4 DEF Quiet, Timely, TimerServes, Short, LoopHolds, LeastSoFar, HandlerPending
  <2> QED BY <1>1, <2>1, <2>3, <2>5, QuietTimely
<1> QED BY <1>2, <1>3, <1>4, <1>5, <1>6, <1>7, <1>8, <1>9, <1>10 DEF Next

(* The inductive invariant. *)
THEOREM Inductive == Spec => []IInv
<1>1. IInv /\ [Next]_vars => IInv'
  BY TypeStep, AlarmStep, TimelyStep DEF IInv, Alarm
<1> QED BY InitIInv, <1>1, PTL DEF Spec

(* adapt_remaining_ms never takes more from a remaining time than is left, *)
(* as long as no interrupt changes the table inside a call of the main     *)
(* loop.                                                                   *)
THEOREM NeverWraps == Spec => []NoWrap
<1>1. IInv => NoWrap
  BY DEF IInv, Timely, NoWrap
<1> QED BY <1>1, Inductive, PTL

(* No handler is called before its time (timeout_start,                    *)
(* timeout_timer_callback), as long as no interrupt changes the table      *)
(* inside a call of the main loop.                                         *)
THEOREM HandlersNeverEarly == Spec => []NeverEarly
<1>1. IInv => NeverEarly
  BY DEF IInv, Timely, NeverEarly
<1> QED BY <1>1, Inductive, PTL

(* Nor later than the latency of the interrupt, the two ms of the shortest *)
(* app-timer and the time inside calls explain.                            *)
THEOREM HandlersNeverLate == Spec => []NeverLate
<1>1. IInv => NeverLate
  BY DEF IInv, Timely, InTime, NeverLate
<1> QED BY <1>1, Inductive, PTL

(* A connection is never without its disconnect timeout, unless that has   *)
(* expired (on_connect_callback, on_receive_callback).                     *)
THEOREM LinksGuarded == Spec => []LinkGuarded
<1>1. IInv => LinkGuarded
  BY DEF IInv, Timely, Guarded, LinkGuarded
<1> QED BY <1>1, Inductive, PTL
=============================================================================
