SPECIFICATION Spec
CONSTANTS
  number_of_registered_timeouts = 2
  disconnect_timeout_id = 1
  DISCONNECT_TIMEOUT_MS = 5
  MAX_MILLIS_PER_TIMEOUT_TIMER = 6
  WORD = 8
  Durations = {6}
  Latency = 0
  MaxPause = 0
  MaxIdle = 0
  MaxAge = 6
INVARIANT HandlerNotEarly
