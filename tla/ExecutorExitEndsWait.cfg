\* A runner may end before its pid is registered.
CONSTANTS
  Listener = {v4, v6}
  Caller = {signed}
  Genuine = {signed}
  MaxPid = 2
  Shards = 2
  Workers = 4
SPECIFICATION LiveSpec
PROPERTY
  ExitEndsWait
CHECK_DEADLOCK FALSE
