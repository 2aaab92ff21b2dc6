----------------------------- MODULE Discovery ------------------------------
(***************************************************************************)
(* Recursive discovery: netmap sends a program to its first hops           *)
(* (src/src/command/netmap.rs); every node that runs it answers with a     *)
(* record of itself and forwards the program to its own peers, relaying    *)
(* their answers back (serve_group, discovery_forward and relay_one_peer   *)
(* in src/src/command/serve.rs, the depth budget in src/src/discovery.rs). *)
(*                                                                         *)
(* A node is named by its identity key.  A forwarded request carries a     *)
(* fresh uuid and is sent from a socket of its own, which one relay task   *)
(* reads.  Both are named here by the path of the request: the nodes it    *)
(* went through, its target last; <<>> is the origin.  No key, uuid or     *)
(* socket depends on that name.                                            *)
(*                                                                         *)
(* Left out: how a node runs the program (Executor); copies of a request,  *)
(* which make trees of their own; and forwarding to observed neighbours:   *)
(* the address observed is the socket a client or a relay sent from, and   *)
(* neither answers requests.                                               *)
(***************************************************************************)
EXTENDS Integers, Sequences

CONSTANTS
  Node,         \* daemons, by identity key
  Origin,       \* the key netmap runs under; a daemon may have the same key
  FirstHop,     \* who the origin contacts: configured peers and multicast listeners
  FirstTrusted, \* the first hops it pins and trusts
  Peer,         \* Peer[n]: the [[peer]] entries of n
  Pinned,       \* Pinned[n]: the ones whose key is given
  Trusted,      \* Trusted[n]: the [[trusted]] keys of n's configuration
  Keyed,        \* nodes that have an identity to sign with
  TRUSTED_FORWARD_DEPTH,
  UNTRUSTED_FORWARD_DEPTH

ASSUME GraphAssumption ==
  /\ FirstTrusted \subseteq FirstHop /\ FirstHop \subseteq Node
  /\ Peer \in [Node -> SUBSET Node]
  /\ Pinned \in [Node -> SUBSET Node]
ASSUME DepthAssumption ==
  /\ TRUSTED_FORWARD_DEPTH \in Nat
  /\ UNTRUSTED_FORWARD_DEPTH \in Nat

VARIABLES
  timely,       \* a good run: every node answers, nothing is lost, no timeout comes before the answers
  requests,     \* ExecuteRequests in flight
  forwarding,   \* requests whose program has run and is being forwarded
  relays,       \* relay_one_peer tasks
  replies,      \* BasicReturnMaps in flight
  collecting,   \* is the 12 s window of netmap open
  collected,    \* the records netmap has collected
  executed      \* history: the requests whose program has run

vars == <<timely, requests, forwarding, relays, replies, collecting, collected, executed>>

Target(path) == path[Len(path)]

\* The path without its target, and who sent the request.
FrontOf(path) == SubSeq(path, 1, Len(path) - 1)
ParentOf(path) == IF Len(path) = 1 THEN Origin ELSE path[Len(path) - 1]

Min2(a, b) == IF a < b THEN a ELSE b

-----------------------------------------------------------------------------
(* Seeded faults.                                                          *)
NoDecrement(parent_remaining, forwarder_trusts_peer) ==
  Min2(parent_remaining, UNTRUSTED_FORWARD_DEPTH)
DecrementTwice(parent_remaining, forwarder_trusts_peer) ==
  Min2(parent_remaining - 2, UNTRUSTED_FORWARD_DEPTH)
ForgetSelf(req, n) ==
  [path |-> Append(req.path, n), uuid |-> req.path, source |-> Target(req.path),
   budget |-> req.budget - 1, visited |-> req.visited]
PassOnSource(req, n) ==
  [path |-> Append(req.path, n), uuid |-> req.path, source |-> req.source,
   budget |-> req.budget - 1, visited |-> req.visited \cup {Target(req.path)}]
UuidNotRewritten(r, m) == [sock |-> r.caller, uuid |-> m.uuid, record |-> m.record]
NoTimeout == FALSE /\ UNCHANGED vars

-----------------------------------------------------------------------------
(* The depth budget.                                                       *)

\* trusted_keys of a daemon: its own key, added at start-up.  The configured keys are not.
trusted_keys(n) == {n}

trust_cap(trusted) == IF trusted THEN TRUSTED_FORWARD_DEPTH ELSE UNTRUSTED_FORWARD_DEPTH

initial_depth_budget(origin_trusts_peer) == trust_cap(origin_trusts_peer)

child_depth_budget(parent_remaining, forwarder_trusts_peer) ==
  IF parent_remaining = 0 THEN 0
  ELSE Min2(parent_remaining - 1, trust_cap(forwarder_trusts_peer))

-----------------------------------------------------------------------------
(* The messages.                                                           *)

\* make_request of netmap, for one first hop.
make_request(n) ==
  [path |-> <<n>>, uuid |-> <<>>, source |-> Origin,
   budget |-> initial_depth_budget(n \in FirstTrusted), visited |-> {Origin}]

\* The sub-request for peer n of the node that ran req.
sub_request(req, n) ==
  LET me == Target(req.path)
      we_trust == n \in Pinned[me] /\ n \in trusted_keys(me)
  IN [path |-> Append(req.path, n), uuid |-> req.path, source |-> me,
      budget |-> child_depth_budget(req.budget, we_trust), visited |-> req.visited \cup {me}]

\* The peers it goes to, none if the node cannot sign: a peer with a known key is skipped if it is
\* the node itself or on the path.
targets(req) ==
  LET me == Target(req.path)
  IN {n \in Peer[me] : me \in Keyed /\ (n \in Pinned[me] => n # me /\ n \notin req.visited)}

\* host::signed_attestation: the node's key and the key it signs with; empty on a node without one.
signed_attestation(n) == IF n \in Keyed THEN {[pubkey |-> n, signer |-> n]} ELSE {}

\* host::caller_pubkey: the key that the request was sent under.
caller_pubkey(req) == req.source

\* What the discovery program reports of the node that runs it; path is auxiliary.
node_record(req) ==
  [attestation |-> signed_attestation(Target(req.path)), parent |-> caller_pubkey(req), path |-> req.path]

\* What the node that ran req sends its caller.
answer(req) == [sock |-> req.path, uuid |-> req.uuid, record |-> node_record(req)]

\* A relay passes an answer on under its caller's uuid.
rewrite(r, m) == [sock |-> r.caller, uuid |-> r.caller_uuid, record |-> m.record]

-----------------------------------------------------------------------------
\* Something of the subtree below path is still going on.
Below(path, q) == Len(path) <= Len(q) /\ SubSeq(q, 1, Len(path)) = path
Busy(path) ==
  \/ \E r \in requests \cup forwarding : Below(path, r.path)
  \/ \E m \in replies : Below(path, m.record.path)

\* The node runs the program, sends the record it returned, if any, to the caller, and starts
\* forwarding if the request has budget left.
execute ==
  \E req \in requests :
    /\ requests' = requests \ {req}
    /\ executed' = executed \cup {req}
    /\ \/ replies' = replies \cup {answer(req)}
       \/ ~timely /\ UNCHANGED replies
    /\ forwarding' = IF req.budget > 0 THEN forwarding \cup {req} ELSE forwarding
    /\ UNCHANGED <<timely, relays, collecting, collected>>

\* One sub-request and one relay task for each target.
discovery_forward ==
  \E req \in forwarding :
    /\ forwarding' = forwarding \ {req}
    /\ requests' = requests \cup {sub_request(req, n) : n \in targets(req)}
    /\ relays' = relays \cup {[sock |-> Append(req.path, n), caller |-> req.path,
                               caller_uuid |-> req.uuid] : n \in targets(req)}
    /\ UNCHANGED <<timely, replies, collecting, collected, executed>>

relay_reply ==
  \E r \in relays, m \in replies :
    /\ m.sock = r.sock
    /\ replies' = (replies \ {m}) \cup {rewrite(r, m)}
    /\ UNCHANGED <<timely, requests, forwarding, relays, collecting, collected, executed>>

\* The relay has heard nothing for RELAY_QUIET_TIMEOUT_MS or has run for RELAY_MAX_MS.
relay_ends ==
  \E r \in relays :
    /\ timely => ~Busy(r.sock)
    /\ relays' = relays \ {r}
    /\ UNCHANGED <<timely, requests, forwarding, replies, collecting, collected, executed>>

\* collect_until: answers to another request are ignored.
collect ==
  \E m \in replies :
    /\ Len(m.sock) = 1 /\ collecting
    /\ replies' = replies \ {m}
    /\ collected' = IF m.uuid = <<>> THEN collected \cup {m.record} ELSE collected
    /\ UNCHANGED <<timely, requests, forwarding, relays, collecting, executed>>

\* The window of netmap ends.
deadline ==
  /\ collecting
  /\ timely => requests = {} /\ forwarding = {} /\ replies = {}
  /\ collecting' = FALSE
  /\ UNCHANGED <<timely, requests, forwarding, relays, replies, collected, executed>>

\* A datagram is lost on the way ...
lose ==
  /\ ~timely
  /\ \/ \E req \in requests : requests' = requests \ {req} /\ UNCHANGED replies
     \/ \E m \in replies : replies' = replies \ {m} /\ UNCHANGED requests
  /\ UNCHANGED <<timely, forwarding, relays, collecting, collected, executed>>

\* ... or nobody reads the socket it was sent to any more.
discard ==
  \E m \in replies :
    /\ IF Len(m.sock) = 1 THEN ~collecting ELSE \A r \in relays : r.sock # m.sock
    /\ replies' = replies \ {m}
    /\ UNCHANGED <<timely, requests, forwarding, relays, collecting, collected, executed>>

Init ==
  /\ timely \in BOOLEAN
  /\ requests = {make_request(n) : n \in FirstHop}
  /\ forwarding = {}
  /\ relays = {}
  /\ replies = {}
  /\ collecting = TRUE
  /\ collected = {}
  /\ executed = {}

Next ==
  \/ execute \/ discovery_forward \/ relay_reply \/ relay_ends \/ collect \/ deadline
  \/ lose \/ discard

\* A datagram that is not lost arrives, tasks run, timeouts expire.
Fairness ==
  /\ WF_vars(execute) /\ WF_vars(discovery_forward) /\ WF_vars(relay_reply) /\ WF_vars(relay_ends)
  /\ WF_vars(collect) /\ WF_vars(deadline) /\ WF_vars(discard)

Spec == Init /\ [][Next]_vars
LiveSpec == Spec /\ Fairness

-----------------------------------------------------------------------------
(* Properties                                                              *)

Request == [path : Seq(Node), uuid : Seq(Node), source : Node \cup {Origin},
            budget : Nat, visited : SUBSET (Node \cup {Origin})]
Record == [attestation : SUBSET [pubkey : Node, signer : Node],
           parent : Node \cup {Origin}, path : Seq(Node)]

\* Every variable has its type, and every request a target.
TypeOK ==
  /\ \A req \in requests \cup forwarding \cup executed : req \in Request /\ req.path # <<>>
  /\ \A r \in relays : r \in [sock : Seq(Node), caller : Seq(Node), caller_uuid : Seq(Node)]
  /\ \A m \in replies : m \in [sock : Seq(Node), uuid : Seq(Node), record : Record]
  /\ timely \in BOOLEAN /\ collecting \in BOOLEAN
  /\ \A d \in collected : d \in Record

\* The trust the budget of the i-th hop of a path is capped by.
EdgeTrusted(path, i) ==
  IF i = 1 THEN path[1] \in FirstTrusted
  ELSE path[i] \in Pinned[path[i - 1]] /\ path[i] \in trusted_keys(path[i - 1])

\* The fan-out is bounded: below the i-th hop of a path there are never more hops than the trust in
\* that edge allows, so crossing one untrusted edge anywhere leaves UNTRUSTED_FORWARD_DEPTH hops.
WithinDepth(req) ==
  \A i \in 1 .. Len(req.path) :
    Len(req.path) - i + req.budget <= trust_cap(EdgeTrusted(req.path, i))
DepthBounded == \A req \in requests \cup executed : WithinDepth(req)

\* No node is asked twice along a path, and the origin's own daemon only if netmap itself asks it.
\* It takes that every peer entry gives the key of its peer.
Loopless(req) ==
  /\ \A i, j \in 1 .. Len(req.path) : req.path[i] = req.path[j] => i = j
  /\ \A i \in 2 .. Len(req.path) : req.path[i] # Origin
NoLoop == \A req \in requests \cup executed : Loopless(req)

\* However deep it comes from, an answer arrives at every hop under the uuid its reader expects, and
\* at the origin under the one that netmap filters by: no answer is dropped for its uuid.
UuidsMatch ==
  /\ \A m \in replies : Len(m.sock) = 1 => m.uuid = <<>>
  /\ \A m \in replies, r \in relays : m.sock = r.sock => m.uuid = r.caller

\* A record links a node to the one that really asked it: by the parents of its ancestors' records
\* every record hangs together with the origin.
Truthful(d) == (\E req \in executed : req.path = d.path) /\ d.parent = ParentOf(d.path)
ParentAsked == \A d \in collected : Truthful(d)

\* The whole fan-out ends: all datagrams are consumed, all relay tasks gone.
FanOutEnds == <>[](requests = {} /\ forwarding = {} /\ relays = {} /\ replies = {} /\ ~collecting)

\* The paths that a discovery should take: paths of peers on which no node and not the origin comes
\* again, all of them keyed but the last, and no edge with more hops below it than allowed.
Hops(path) ==
  path[1] \in FirstHop /\ \A i \in 2 .. Len(path) : path[i] \in Peer[path[i - 1]] /\ path[i - 1] \in Keyed
LegalPaths ==
  {path \in UNION {[1 .. k -> Node] : k \in 1 .. TRUSTED_FORWARD_DEPTH + 1} :
     /\ Hops(path)
     /\ \A i, j \in 1 .. Len(path) : path[i] = path[j] => i = j
     /\ \A i \in 2 .. Len(path) : path[i] # Origin
     /\ \A i \in 1 .. Len(path) : Len(path) - i <= trust_cap(EdgeTrusted(path, i))}
Reachable == {Target(path) : path \in LegalPaths}

\* If nothing is lost or late, netmap has a record of exactly the nodes that these paths lead to when
\* its window ends.
Complete == (timely /\ ~collecting) => {Target(d.path) : d \in collected} = Reachable

-----------------------------------------------------------------------------
(* The inductive invariant behind the safety properties.                   *)

\* What is being forwarded has been executed and has budget left.
ForwardingRan == \A req \in forwarding : req \in executed /\ req.budget > 0

\* A request carries the uuid and the key of the node that sent it, and has visited the origin and
\* every node of its path but the target.
Follows(req) ==
  /\ req.uuid = FrontOf(req.path)
  /\ req.source = ParentOf(req.path)
  /\ Origin \in req.visited
  /\ \A i \in 1 .. Len(req.path) - 1 : req.path[i] \in req.visited
RequestsFollow == \A req \in requests \cup executed : Follows(req)

\* A relay knows the socket and the uuid of the request it serves.
RelaysFollow ==
  \A r \in relays :
    Len(r.sock) > 1 /\ r.caller = FrontOf(r.sock) /\ r.caller # <<>> /\ r.caller_uuid = FrontOf(r.caller)

\* An answer carries the uuid of the request that its reader sent, and a truthful record.
RepliesFollow ==
  \A m \in replies : m.sock # <<>> /\ m.uuid = FrontOf(m.sock) /\ Truthful(m.record)

DiscoveryInv ==
  /\ TypeOK /\ ForwardingRan /\ RequestsFollow /\ RelaysFollow /\ RepliesFollow
  /\ ParentAsked /\ DepthBounded

-----------------------------------------------------------------------------
(* The inductive invariant behind Complete.                                *)

\* The budget of a request is the smallest of what the edges of its path allow, and it has visited
\* exactly the origin and the nodes before its target.
Exact(req) ==
  /\ Hops(req.path)
  /\ req.visited = {Origin} \cup {req.path[i] : i \in 1 .. Len(req.path) - 1}
  /\ \E i \in 1 .. Len(req.path) :
       Len(req.path) - i + req.budget = trust_cap(EdgeTrusted(req.path, i))
RequestsExact == \A req \in requests \cup executed : Exact(req)

\* As long as something is going on at or below a hop, the relay of that hop is there.
Relayed(path) == \A i \in 2 .. Len(path) : \E r \in relays : r.sock = SubSeq(path, 1, i)
WaysBack ==
  /\ \A req \in requests \cup forwarding : Relayed(req.path)
  /\ \A m \in replies : Relayed(m.record.path) /\ Below(m.sock, m.record.path)

\* A request that was executed is answered, or its answer is on the way.
Answered ==
  \A req \in executed :
    (\E d \in collected : d.path = req.path) \/ (\E m \in replies : m.record.path = req.path)

\* A path that should be taken has been, or a part of it is about to be.
Covered ==
  \A path \in LegalPaths :
    \/ \E req \in executed : req.path = path
    \/ \E i \in 1 .. Len(path) : \E req \in requests \cup forwarding : req.path = SubSeq(path, 1, i)

\* The window ends when nothing is going on any more.
WindowLast == collecting \/ (requests = {} /\ forwarding = {} /\ replies = {})

CompletionInv == RequestsExact /\ (timely => WaysBack /\ Answered /\ Covered /\ WindowLast)

-----------------------------------------------------------------------------
(* What the comments of the code promise beyond that.                      *)

\* "Trust is evaluated per edge": a peer that the configuration of the forwarder pins and trusts is
\* granted what is left of the forwarder's budget, up to TRUSTED_FORWARD_DEPTH.
TrustPerEdge ==
  \A req \in requests, par \in executed :
    (/\ req.uuid = par.path
     /\ Target(req.path) \in Pinned[req.source] \cap Trusted[req.source])
      => req.budget = Min2(par.budget - 1, TRUSTED_FORWARD_DEPTH)
=============================================================================
