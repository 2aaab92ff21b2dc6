\* A user who types up to three keys, a program that asks for up to two copies.
CONSTANTS
  MaxKeys = 3
  MaxRequests = 2
SPECIFICATION LiveSpec
INVARIANTS Restored TerminalLeftAlone LastWordsSent
PROPERTY CommandEnds
\* A command ends.
CHECK_DEADLOCK FALSE
