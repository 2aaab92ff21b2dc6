\* Daemons that pin and trust their peers.
CONSTANTS
  o = o
  a = a
  b = b
  c = c
  d = d
  Node = {o, a, b, c, d}
  Origin = o
  FirstHop = {a}
  FirstTrusted = {a}
  Keyed = {o, a, b, c}
  TRUSTED_FORWARD_DEPTH = 3
  UNTRUSTED_FORWARD_DEPTH = 1
  Peer <- LinePeer
  Pinned <- LinePeer
  Trusted <- LinePeer
SPECIFICATION Spec
INVARIANT TrustPerEdge
\* When the fan-out is over nothing is left to do.
CHECK_DEADLOCK FALSE
