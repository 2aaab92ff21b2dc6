------------------------------- MODULE MCNode -------------------------------
(***************************************************************************)
(* Small configuration files for the model checker.                        *)
(***************************************************************************)
EXTENDS Node

Peer(hostname_, ipv6, ipv4) == [hostname |-> hostname_, ipv6 |-> ipv6, ipv4 |-> ipv4]

\* Files that set one setting, the other or both, one with a bad peer entry among good ones, and one
\* that cannot be read.
MCFile ==
  { [readable |-> TRUE, scalars |-> [keyfile |-> 1, limit |-> 1], trusted |-> <<1>>,
     peer |-> <<Peer("name", "none", "none"), Peer("blank", "v6", "v4")>>],
    [readable |-> TRUE, scalars |-> [keyfile |-> 2], trusted |-> <<>>, peer |-> <<Peer("name", "v6", "v4")>>],
    [readable |-> TRUE, scalars |-> [limit |-> 3], trusted |-> <<3, 1>>, peer |-> <<>>],
    [readable |-> TRUE, scalars |-> [limit |-> 4], trusted |-> <<4>>,
     peer |-> <<Peer("none", "none", "v4"), Peer("blank", "none", "none")>>],
    [readable |-> FALSE, scalars |-> <<>>, trusted |-> <<>>, peer |-> <<>>] }
=============================================================================
