SPECIFICATION FairSpec
CONSTANTS
  number_of_registered_timeouts = 2
  disconnect_timeout_id = 1
  DISCONNECT_TIMEOUT_MS = 2
  MAX_MILLIS_PER_TIMEOUT_TIMER = 2
  WORD = 6
  Durations = {0, 3}
  Latency = 1
  MaxPause = 1
  MaxIdle = 1
  MaxAge = 3
INVARIANTS TypeOK AlarmSet  NeverEarly NeverLate LinkGuarded
PROPERTY TimeoutEnds
