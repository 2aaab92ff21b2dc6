---------------------------- MODULE MCDiscovery -----------------------------
(***************************************************************************)
(* Small fabrics for TLC.  o is the machine netmap runs on; its own daemon *)
(* listens as well.                                                        *)
(***************************************************************************)
EXTENDS Discovery
CONSTANTS o, a, b, c, d

\* A line with a way around, ways back, a way to the origin's own daemon, and a node further on.
LinePeer ==
  [n \in Node |-> CASE n = a -> {b, c} [] n = b -> {a, c} [] n = c -> {a, o, d} [] OTHER -> {a}]

NoPeer == [n \in Node |-> {}]
=============================================================================
