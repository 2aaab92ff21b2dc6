----------------------------- MODULE MCChatFeed -----------------------------
(***************************************************************************)
(* The feed for TLC: three valid messages of two senders who share an id,  *)
(* one message that was altered on the way, and a program on this node     *)
(* that pushes without an id.                                              *)
(***************************************************************************)
EXTENDS ChatFeed
CONSTANTS p1, p2, i1, i2, short, long

Msg(pk, id, body, payload_ok) ==
  [source |-> pk, id |-> id, body |-> body, self_ok |-> TRUE, payload_ok |-> payload_ok]

MCTraffic == {Msg(p1, i1, short, TRUE), Msg(p1, i2, long, TRUE), Msg(p2, i1, short, TRUE),
              Msg(p2, i2, short, FALSE)}

\* Two valid messages, for the run with a small buffer.
MCPair == {Msg(p1, i1, short, TRUE), Msg(p1, i2, long, TRUE)}
MCGuestPush == {[source |-> p2, id |-> NoId, body |-> short]}
MCBodySize == [b \in Body |-> IF b = short THEN 1 ELSE 3]
=============================================================================
