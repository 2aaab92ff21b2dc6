-------------------------------- MODULE Node --------------------------------
(***************************************************************************)
(* A node reads its configuration or looks for an address, and starts.     *)
(* The registry does not depend on the result, so it is forgotten when the *)
(* call returns.                                                           *)
(***************************************************************************)
EXTENDS PeerRegistry, Config

return == call # NoCall /\ call' = NoCall

NodeInit == CallInit /\ Init
NodeNext ==
  \/ (CallNext \/ return) /\ UNCHANGED vars
  \/ call = NoCall /\ Next /\ UNCHANGED call
NodeSpec == NodeInit /\ [][NodeNext]_<<call, vars>> /\ Fairness
=============================================================================
