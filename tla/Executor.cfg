\* Two listeners (the v4 and the v6 group) on one executor; all programs in one shard of the
\* map, the worst case for guards; the least number of workers that is enough.
CONSTANTS
  Listener = {v4, v6}
  Caller = {signed, unsigned}
  Genuine = {signed}
  MaxPid = 2
  Shards = 1
  Workers = 4
SPECIFICATION LiveSpec
INVARIANTS
  ReplyAfterExit
  FailureIsOwn
  NoLostWakeup
  EnoughWorkers
PROPERTIES
  WaitReturns
  RunnersFinish
\* The node really stops when every listener has ended.
CHECK_DEADLOCK FALSE
