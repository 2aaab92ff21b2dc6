\* Two daemons that list each other and the origin's own daemon, all contacted by netmap.
CONSTANTS
  o = o
  a = a
  b = b
  Node = {o, a, b}
  Origin = o
  FirstHop = {o, a, b}
  FirstTrusted = {}
  Keyed = {o, a, b}
  TRUSTED_FORWARD_DEPTH = 1
  UNTRUSTED_FORWARD_DEPTH = 1
  Peer <- PairPeer
  Pinned <- PairPeer
  Trusted <- NoPeer
  Hostname <- Names
SPECIFICATION MapSpec
INVARIANTS OneRowEach TreeIsTrue MissingOnlyInCycles
\* When the map is printed nothing is left to do.
CHECK_DEADLOCK FALSE
