\* What Ok promises, one clone and two writes.
CONSTANTS
  Stream = {stdout}
  Fresh = {}
  MaxWrites = 2
SPECIFICATION Spec
INVARIANT OkMeansSent
\* The guest stops after its last write.
CHECK_DEADLOCK FALSE
