----------------------------- MODULE FabricLog ------------------------------
(***************************************************************************)
(* What the message log of a node promises to its readers, without the     *)
(* machinery that keeps the promise: messages are numbered 1, 2, 3, ... in *)
(* the order they are accepted, the log holds the Cap latest of them, and  *)
(* a message whose (sender, id) the log still holds is never accepted      *)
(* again.                                                                  *)
(***************************************************************************)
EXTENDS Integers

CONSTANTS Pubkey, MsgId, NoId, Body, Cap

VARIABLES
  next,      \* number of the next accepted message
  retained   \* the messages the log holds

Init == next = 1 /\ retained = {}

Holds(pk, id) == \E m \in retained : m.from_pubkey = pk /\ m.id = id

Accept(pk, id, body) ==
  /\ id # NoId => ~Holds(pk, id)
  /\ next' = next + 1
  /\ LET new == [seq |-> next, from_pubkey |-> pk, id |-> id, body |-> body]
     IN  retained' = {m \in retained \cup {new} : m.seq > next - Cap}

Next == \E pk \in Pubkey, id \in MsgId \cup {NoId}, body \in Body : Accept(pk, id, body)

Spec == Init /\ [][Next]_<<next, retained>>
=============================================================================
