------------------------------ MODULE MCNetmap ------------------------------
(***************************************************************************)
(* Small fabrics for TLC, as in MCDiscovery, with an order of hostnames.   *)
(***************************************************************************)
EXTENDS Netmap
CONSTANTS o, a, b

\* The two daemons list each other; the origin's own daemon lists the first one.
PairPeer == [n \in Node |-> CASE n = a -> {b} [] n = b -> {a} [] OTHER -> {a}]
NoPeer == [n \in Node |-> {}]

\* Two nodes share their hostname.
Names == [n \in Node |-> IF n = b THEN 2 ELSE 1]
=============================================================================
