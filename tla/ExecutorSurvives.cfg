\* A wait may find the error of a guest that failed.
CONSTANTS
  Listener = {v4, v6}
  Caller = {signed}
  Genuine = {signed}
  MaxPid = 2
  Shards = 2
  Workers = 4
SPECIFICATION Spec
INVARIANT
  ListenerSurvivesGuest
CHECK_DEADLOCK FALSE
