\* Five daemons, one of them the origin's own and one without an identity; every peer's key is pinned.
CONSTANTS
  o = o
  a = a
  b = b
  c = c
  d = d
  Node = {o, a, b, c, d}
  Origin = o
  FirstHop = {a}
  FirstTrusted = {a}
  Keyed = {o, a, b, c}
  TRUSTED_FORWARD_DEPTH = 3
  UNTRUSTED_FORWARD_DEPTH = 1
  Peer <- LinePeer
  Pinned <- LinePeer
  Trusted <- NoPeer
SPECIFICATION LiveSpec
INVARIANTS TypeOK DepthBounded NoLoop UuidsMatch ParentAsked Complete
PROPERTY FanOutEnds
\* When the fan-out is over nothing is left to do.
CHECK_DEADLOCK FALSE
