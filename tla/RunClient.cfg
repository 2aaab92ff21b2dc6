\* A WASI stream and host::print, three writes; the window and its extension are scaled down from 24 and 10.
CONSTANTS
  Stream = {stdout, print}
  Fresh = {print}
  MaxWrites = 3
  INITIAL_CHECKS = 3
  EXTRA_CHECKS = 2
  MaxGap = 1
SPECIFICATION RunSpec
INVARIANTS OutputInOrder LostOnlyIfPending PrintedInOrder ShownToTheEnd
PROPERTY ClientEnds
\* The program and the client both end.
CHECK_DEADLOCK FALSE
