-------------------------- MODULE DiscoveryProofs ---------------------------
(***************************************************************************)
(* The fan-out of a discovery is bounded, answers keep their uuid and      *)
(* records their parent, in every fabric: any number of nodes, any peers,  *)
(* any trust, any two depths.  DiscoveryInv is inductive; the two actions  *)
(* that make new messages have a lemma for the message they make.          *)
(* CompletionInv, for the good runs, is what netmap finds.  MapInv is      *)
(* about the map it draws of that, whatever came in and in which order.    *)
(***************************************************************************)
EXTENDS Netmap, FiniteSetTheorems, DataLemmas

-----------------------------------------------------------------------------
(* Paths.                                                                  *)

\* One more hop.
LEMMA AppendPath ==
  ASSUME NEW path \in Seq(Node), path # <<>>, NEW n \in Node
  PROVE  LET q == Append(path, n) IN
         /\ q \in Seq(Node) /\ q # <<>> /\ Len(q) = Len(path) + 1 /\ Len(path) \in Nat \ {0}
         /\ \A i \in 1 .. Len(path) : q[i] = path[i]
         /\ Target(q) = n /\ Target(path) \in Node
         /\ FrontOf(q) = path
         /\ ParentOf(q) = Target(path)
<1> DEFINE q == Append(path, n)
<1>1. q \in Seq(Node) /\ q # <<>> /\ Len(q) = Len(path) + 1 /\ Len(path) \in Nat \ {0}
  OBVIOUS
<1>2. \A i \in 1 .. Len(path) : q[i] = path[i]
  OBVIOUS
<1>3. Target(q) = n /\ Target(path) \in Node
  BY DEF Target
<1>4. FrontOf(q) = path
  <2>1. Len(q) - 1 = Len(path)
    BY <1>1
  <2>2. SubSeq(q, 1, Len(path)) = path
    BY <1>1, <1>2
  <2> QED
    BY <2>1, <2>2 DEF FrontOf
<1>5. ParentOf(q) = Target(path)
  BY <1>1, <1>2 DEF ParentOf, Target
<1> QED
  BY <1>1, <1>2, <1>3, <1>4, <1>5

\* The first hop.
LEMMA FirstPath ==
  ASSUME NEW n \in Node
  PROVE  /\ <<n>> \in Seq(Node) /\ <<n>> # <<>> /\ Len(<<n>>) = 1
         /\ FrontOf(<<n>>) = <<>>
         /\ ParentOf(<<n>>) = Origin
  BY DEF FrontOf, ParentOf

\* The budget of a child: less than its forwarder's and at most the cap of the edge.
LEMMA ChildBudget ==
  ASSUME NEW b \in Nat \ {0}, NEW t \in BOOLEAN
  PROVE  /\ child_depth_budget(b, t) \in Nat
         /\ child_depth_budget(b, t) <= b - 1
         /\ child_depth_budget(b, t) <= trust_cap(t)
  BY DepthAssumption DEF child_depth_budget, trust_cap, Min2

-----------------------------------------------------------------------------
(* The messages.                                                           *)

\* What the origin sends.
LEMMA FirstRequest ==
  ASSUME NEW n \in FirstHop
  PROVE  /\ make_request(n) \in Request /\ make_request(n).path # <<>>
         /\ Follows(make_request(n)) /\ WithinDepth(make_request(n))
<1> DEFINE req == make_request(n)
<1>1. n \in Node
  BY GraphAssumption
<1>2. /\ req.path = <<n>> /\ req.uuid = <<>> /\ req.source = Origin /\ req.visited = {Origin}
      /\ req.budget = trust_cap(n \in FirstTrusted)
  BY DEF make_request, initial_depth_budget
<1>3. trust_cap(n \in FirstTrusted) \in Nat
  BY DepthAssumption DEF trust_cap
<1>4. req \in Request
  BY <1>1, <1>3, FirstPath DEF make_request, initial_depth_budget, Request
<1>5. Follows(req)
  BY <1>1, <1>2, FirstPath DEF Follows
<1>6. WithinDepth(req)
  BY <1>1, <1>2, <1>3, FirstPath DEF WithinDepth, EdgeTrusted
<1> QED
  BY <1>1, <1>2, <1>4, <1>5, <1>6, FirstPath

\* What a node forwards.
LEMMA SubRequest ==
  ASSUME NEW req \in Request, req.path # <<>>, req.budget > 0, Follows(req), WithinDepth(req),
         NEW n \in Node
  PROVE  /\ sub_request(req, n) \in Request /\ sub_request(req, n).path # <<>>
         /\ Follows(sub_request(req, n)) /\ WithinDepth(sub_request(req, n))
<1> DEFINE sub == sub_request(req, n)
           me == Target(req.path)
           t == n \in Pinned[me] /\ n \in trusted_keys(me)
           k == Len(req.path)
<1>1. /\ sub.path = Append(req.path, n) /\ sub.uuid = req.path /\ sub.source = me
      /\ sub.budget = child_depth_budget(req.budget, t) /\ sub.visited = req.visited \cup {me}
  BY DEF sub_request
<1>2. /\ req.path \in Seq(Node) /\ req.budget \in Nat \ {0}
      /\ req.visited \subseteq Node \cup {Origin}
  BY DEF Request
<1>3. /\ sub.path \in Seq(Node) /\ sub.path # <<>> /\ Len(sub.path) = k + 1 /\ k \in Nat \ {0}
      /\ \A i \in 1 .. k : sub.path[i] = req.path[i]
      /\ sub.path[k + 1] = n /\ me \in Node
      /\ FrontOf(sub.path) = req.path /\ ParentOf(sub.path) = me
  BY <1>1, <1>2, AppendPath, SMTT(20) DEF Target
<1>4. sub.budget \in Nat /\ sub.budget <= req.budget - 1 /\ sub.budget <= trust_cap(t)
  BY <1>1, <1>2, ChildBudget
<1>5. sub \in Request
  BY <1>1, <1>2, <1>3, <1>4 DEF sub_request, Request
<1>6. Follows(sub)
  <2>1. \A i \in 1 .. Len(sub.path) - 1 : sub.path[i] \in sub.visited
    BY <1>1, <1>3 DEF Follows, Target
  <2> QED
    BY <1>1, <1>3, <2>1 DEF Follows
<1>7. WithinDepth(sub)
  <2>1. ASSUME NEW i \in 1 .. k
        PROVE  k + 1 - i + sub.budget <= trust_cap(EdgeTrusted(sub.path, i))
    <3>1. EdgeTrusted(sub.path, i) = EdgeTrusted(req.path, i)
      BY <1>3 DEF EdgeTrusted
    <3>2. k - i + req.budget <= trust_cap(EdgeTrusted(req.path, i))
      BY DEF WithinDepth
    <3>3. trust_cap(EdgeTrusted(req.path, i)) \in Nat
      BY DepthAssumption DEF trust_cap
    <3>4. k + 1 - i + sub.budget <= k - i + req.budget
      BY <1>2, <1>3, <1>4
    <3> HIDE DEF sub, k
    <3> QED
      BY <1>2, <1>3, <1>4, <3>1, <3>2, <3>3, <3>4
  <2>2. sub.budget <= trust_cap(EdgeTrusted(sub.path, k + 1))
    <3>1. EdgeTrusted(sub.path, k + 1) = t
      BY <1>3 DEF EdgeTrusted, Target
    <3> QED
      BY <1>4, <3>1
  <2> HIDE DEF sub, k
  <2> QED
    BY <1>3, <1>4, <2>1, <2>2 DEF WithinDepth
<1> QED
  BY <1>3, <1>5, <1>6, <1>7

\* What a node that ran the program answers.
LEMMA AnswerFollows ==
  ASSUME NEW req \in Request, req.path # <<>>, Follows(req)
  PROVE  /\ answer(req) \in [sock : Seq(Node), uuid : Seq(Node), record : Record]
         /\ answer(req).sock # <<>> /\ answer(req).uuid = FrontOf(answer(req).sock)
         /\ answer(req).record.path = req.path
         /\ answer(req).record.parent = ParentOf(req.path)
<1>1. Target(req.path) \in Node
  BY DEF Request, Target
<1> QED
  BY <1>1 DEF answer, node_record, signed_attestation, caller_pubkey, Request, Record, Follows

\* What a relay passes on.
LEMMA RewriteFollows ==
  ASSUME DiscoveryInv, NEW r \in relays, NEW m \in replies
  PROVE  /\ rewrite(r, m) \in [sock : Seq(Node), uuid : Seq(Node), record : Record]
         /\ rewrite(r, m).sock # <<>> /\ rewrite(r, m).uuid = FrontOf(rewrite(r, m).sock)
         /\ rewrite(r, m).record = m.record
  BY DEF rewrite, DiscoveryInv, TypeOK, RelaysFollow

-----------------------------------------------------------------------------
(* The steps.                                                              *)

\* The program runs: a request becomes an executed one, its answer follows it.
LEMMA ExecuteKeepsInv ==
  ASSUME DiscoveryInv, execute
  PROVE  DiscoveryInv'
<1> USE DEF DiscoveryInv
<1>1. PICK req \in requests :
        /\ requests' = requests \ {req}
        /\ executed' = executed \cup {req}
        /\ replies' \subseteq replies \cup {answer(req)}
        /\ forwarding' = IF req.budget > 0 THEN forwarding \cup {req} ELSE forwarding
        /\ UNCHANGED <<timely, relays, collecting, collected>>
  BY DEF execute
<1>2. req \in Request /\ req.path # <<>> /\ Follows(req)
  BY DEF TypeOK, RequestsFollow
<1>3. \A d : Truthful(d) => Truthful(d)'
  BY <1>1 DEF Truthful
<1>4. Truthful(answer(req).record)'
  BY <1>1, <1>2, AnswerFollows DEF Truthful
<1>5. TypeOK'
  BY <1>1, <1>2, AnswerFollows DEF TypeOK
<1>6. ForwardingRan'
  BY <1>1, <1>2 DEF ForwardingRan, Request
<1>7. RequestsFollow' /\ DepthBounded'
  BY <1>1 DEF RequestsFollow, DepthBounded
<1>8. RepliesFollow'
  BY <1>1, <1>2, <1>3, <1>4, AnswerFollows DEF RepliesFollow
<1>9. RelaysFollow' /\ ParentAsked'
  BY <1>1, <1>3 DEF RelaysFollow, ParentAsked
<1> QED
  BY <1>5, <1>6, <1>7, <1>8, <1>9

\* The program is forwarded: new requests and relays, all of them one hop below an executed request.
LEMMA ForwardKeepsInv ==
  ASSUME DiscoveryInv, discovery_forward
  PROVE  DiscoveryInv'
<1> USE DEF DiscoveryInv
<1>1. PICK req \in forwarding :
        /\ forwarding' = forwarding \ {req}
        /\ requests' = requests \cup {sub_request(req, n) : n \in targets(req)}
        /\ relays' = relays \cup {[sock |-> Append(req.path, n), caller |-> req.path,
                                   caller_uuid |-> req.uuid] : n \in targets(req)}
        /\ UNCHANGED <<timely, replies, collecting, collected, executed>>
  BY DEF discovery_forward
<1> DEFINE to == targets(req)
<1>2. \A r \in relays' : r \notin relays =>
        \E n \in to : /\ r = [sock |-> Append(req.path, n), caller |-> req.path, caller_uuid |-> req.uuid]
                      /\ r.sock = Append(req.path, n) /\ r.caller = req.path /\ r.caller_uuid = req.uuid
  BY <1>1
<1>3. /\ req \in Request /\ req.path # <<>> /\ req.budget > 0
      /\ Follows(req) /\ WithinDepth(req)
  BY DEF TypeOK, ForwardingRan, RequestsFollow, DepthBounded
<1>4. req.path \in Seq(Node) /\ req.uuid \in Seq(Node) /\ req.uuid = FrontOf(req.path)
  BY <1>3 DEF Request, Follows
<1>5. to \subseteq Node
  BY <1>3, <1>4, GraphAssumption DEF Target, targets
<1>6. \A n \in to : /\ sub_request(req, n) \in Request /\ sub_request(req, n).path # <<>>
                    /\ Follows(sub_request(req, n)) /\ WithinDepth(sub_request(req, n))
  BY <1>3, <1>5, SubRequest
<1>7. \A n \in to : /\ Append(req.path, n) \in Seq(Node) /\ Len(Append(req.path, n)) > 1
                    /\ FrontOf(Append(req.path, n)) = req.path
  BY <1>3, <1>4, <1>5, AppendPath
<1>8. TypeOK'
  <2>1. \A q \in requests' : q \in Request /\ q.path # <<>>
    BY <1>1, <1>6 DEF TypeOK
  <2>2. \A r \in relays' : r \in [sock : Seq(Node), caller : Seq(Node), caller_uuid : Seq(Node)]
    <3> SUFFICES ASSUME NEW r \in relays', r \notin relays
                 PROVE  r \in [sock : Seq(Node), caller : Seq(Node), caller_uuid : Seq(Node)]
      BY DEF TypeOK
    <3>1. PICK n \in to : r = [sock |-> Append(req.path, n), caller |-> req.path,
                               caller_uuid |-> req.uuid]
      BY <1>2
    <3> HIDE DEF to
    <3> QED
      BY <1>4, <1>7, <3>1
  <2> QED
    BY <1>1, <2>1, <2>2 DEF TypeOK
<1>9. ForwardingRan'
  BY <1>1 DEF ForwardingRan
<1>10. RequestsFollow'
  BY <1>1, <1>6 DEF RequestsFollow
<1>11. DepthBounded'
  BY <1>1, <1>6 DEF DepthBounded
<1>12. RelaysFollow'
  <2> SUFFICES ASSUME NEW r \in relays', r \notin relays
               PROVE  /\ Len(r.sock) > 1 /\ r.caller = FrontOf(r.sock)
                      /\ r.caller # <<>> /\ r.caller_uuid = FrontOf(r.caller)
    BY DEF RelaysFollow
  <2>1. PICK n \in to : r.sock = Append(req.path, n) /\ r.caller = req.path /\ r.caller_uuid = req.uuid
    BY <1>2
  <2> HIDE DEF to
  <2> QED
    BY <1>3, <1>4, <1>7, <2>1
<1>13. RepliesFollow' /\ ParentAsked'
  BY <1>1 DEF RepliesFollow, ParentAsked, Truthful
<1> QED
  BY <1>8, <1>9, <1>10, <1>11, <1>12, <1>13

\* An answer moves up one hop.
LEMMA RelayKeepsInv ==
  ASSUME DiscoveryInv, relay_reply
  PROVE  DiscoveryInv'
<1> USE DEF DiscoveryInv
<1>1. PICK r \in relays, m \in replies :
        /\ replies' = (replies \ {m}) \cup {rewrite(r, m)}
        /\ UNCHANGED <<timely, requests, forwarding, relays, collecting, collected, executed>>
  BY DEF relay_reply
<1>2. TypeOK'
  BY <1>1, RewriteFollows DEF TypeOK
<1>3. RepliesFollow'
  BY <1>1, RewriteFollows DEF RepliesFollow, Truthful
<1>4. ForwardingRan' /\ RequestsFollow' /\ RelaysFollow' /\ ParentAsked' /\ DepthBounded'
  BY <1>1 DEF ForwardingRan, RequestsFollow, RelaysFollow, ParentAsked, Truthful, DepthBounded
<1> QED
  BY <1>2, <1>3, <1>4

\* netmap takes a record.
LEMMA CollectKeepsInv ==
  ASSUME DiscoveryInv, collect
  PROVE  DiscoveryInv'
<1> USE DEF DiscoveryInv
<1>1. PICK m \in replies :
        /\ replies' = replies \ {m}
        /\ collected' \subseteq collected \cup {m.record}
        /\ UNCHANGED <<timely, requests, forwarding, relays, collecting, executed>>
  BY DEF collect
<1>2. m.record \in Record /\ Truthful(m.record)
  BY DEF TypeOK, RepliesFollow
<1>3. TypeOK'
  BY <1>1, <1>2 DEF TypeOK
<1>4. RepliesFollow' /\ ParentAsked'
  BY <1>1, <1>2 DEF RepliesFollow, ParentAsked, Truthful
<1>5. ForwardingRan' /\ RequestsFollow' /\ RelaysFollow' /\ DepthBounded'
  BY <1>1 DEF ForwardingRan, RequestsFollow, RelaysFollow, DepthBounded
<1> QED
  BY <1>3, <1>4, <1>5

\* Losing messages, ending relays and closing the window only make the sets smaller.
LEMMA ShrinkKeepsInv ==
  ASSUME DiscoveryInv, requests' \subseteq requests, relays' \subseteq relays,
         replies' \subseteq replies, collecting' \in BOOLEAN,
         UNCHANGED <<timely, forwarding, collected, executed>>
  PROVE  DiscoveryInv'
<1> USE DEF DiscoveryInv
<1>1. TypeOK'
  BY DEF TypeOK
<1>2. ForwardingRan' /\ RequestsFollow' /\ DepthBounded'
  BY DEF ForwardingRan, RequestsFollow, DepthBounded
<1>3. RelaysFollow' /\ RepliesFollow' /\ ParentAsked'
  BY DEF RelaysFollow, RepliesFollow, ParentAsked, Truthful
<1> QED
  BY <1>1, <1>2, <1>3

\* The first requests are well formed; nothing else exists yet.
LEMMA InitInv == Init => DiscoveryInv
<1> SUFFICES ASSUME Init PROVE DiscoveryInv
  OBVIOUS
<1>1. TypeOK
  BY FirstRequest DEF Init, TypeOK
<1>2. RequestsFollow /\ DepthBounded
  BY FirstRequest DEF Init, RequestsFollow, DepthBounded
<1>3. ForwardingRan /\ RelaysFollow /\ RepliesFollow /\ ParentAsked
  BY DEF Init, ForwardingRan, RelaysFollow, RepliesFollow, ParentAsked
<1> QED
  BY <1>1, <1>2, <1>3 DEF DiscoveryInv

LEMMA NextKeepsInv == DiscoveryInv /\ [Next]_vars => DiscoveryInv'
<1> SUFFICES ASSUME DiscoveryInv, [Next]_vars PROVE DiscoveryInv'
  OBVIOUS
<1>0. collecting \in BOOLEAN
  BY DEF DiscoveryInv, TypeOK
<1>1. CASE execute \/ discovery_forward \/ relay_reply \/ collect
  BY <1>1, ExecuteKeepsInv, ForwardKeepsInv, RelayKeepsInv, CollectKeepsInv
<1>2. CASE relay_ends \/ deadline \/ lose \/ discard \/ UNCHANGED vars
  <2>1. /\ requests' \subseteq requests /\ relays' \subseteq relays /\ replies' \subseteq replies
        /\ collecting' \in BOOLEAN /\ UNCHANGED <<timely, forwarding, collected, executed>>
    BY <1>0, <1>2 DEF relay_ends, deadline, lose, discard, vars
  <2> QED
    BY <2>1, ShrinkKeepsInv
<1> QED
  BY <1>1, <1>2 DEF Next

\* DiscoveryInv holds of every reachable state.
LEMMA DiscoveryInvariant == Spec => []DiscoveryInv
  BY InitInv, NextKeepsInv, PTL DEF Spec

-----------------------------------------------------------------------------
\* Requests, relays, answers and records keep their types; in particular no budget underflows.
THEOREM DiscoveryTyped == Spec => []TypeOK
<1>1. DiscoveryInv => TypeOK
  BY DEF DiscoveryInv
<1> QED
  BY <1>1, DiscoveryInvariant, PTL

\* The budgets of child_depth_budget bound every path of a discovery by the trust along it.
THEOREM FanOutBounded == Spec => []DepthBounded
<1>1. DiscoveryInv => DepthBounded
  BY DEF DiscoveryInv
<1> QED
  BY <1>1, DiscoveryInvariant, PTL

\* relay_one_peer rewrites uuids so that each reader knows the answers to its own request.
THEOREM UuidsRewritten == Spec => []UuidsMatch
<1>1. DiscoveryInv => UuidsMatch
  <2> SUFFICES ASSUME DiscoveryInv PROVE UuidsMatch
    OBVIOUS
  <2>1. ASSUME NEW m \in replies, Len(m.sock) = 1 PROVE m.uuid = <<>>
    BY <2>1 DEF DiscoveryInv, RepliesFollow, FrontOf, TypeOK
  <2>2. ASSUME NEW m \in replies, NEW r \in relays, m.sock = r.sock PROVE m.uuid = r.caller
    BY <2>2 DEF DiscoveryInv, RepliesFollow, RelaysFollow
  <2> QED
    BY <2>1, <2>2 DEF UuidsMatch
<1> QED
  BY <1>1, DiscoveryInvariant, PTL

\* Every record netmap prints hangs below the node that asked for it.
THEOREM ParentsTrue == Spec => []ParentAsked
<1>1. DiscoveryInv => ParentAsked
  BY DEF DiscoveryInv
<1> QED
  BY <1>1, DiscoveryInvariant, PTL

-----------------------------------------------------------------------------
(* Loops.                                                                  *)

\* Every peer entry gives a key.
AllPinned == \A n \in Node : Peer[n] \subseteq Pinned[n]

\* A node whose key is pinned is skipped if the path already has it, so one more hop makes no loop.
LEMMA SubRequestLoopless ==
  ASSUME NEW req \in Request, req.path # <<>>, Follows(req), Loopless(req),
         NEW n \in Node, n # Target(req.path), n \notin req.visited
  PROVE  Loopless(sub_request(req, n))
<1> DEFINE k == Len(req.path)
           q == Append(req.path, n)
<1>1. sub_request(req, n).path = q
  BY DEF sub_request
<1>2. req.path \in Seq(Node)
  BY DEF Request
<1>3. k \in Nat \ {0} /\ Len(q) = k + 1 /\ q[k + 1] = n /\ \A i \in 1 .. k : q[i] = req.path[i]
  BY <1>2
<1>4. \A i \in 1 .. k : req.path[i] # n
  BY <1>2, <1>3 DEF Follows, Target
<1>5. n # Origin
  BY DEF Follows
<1>6. ASSUME NEW i \in 1 .. k + 1, NEW j \in 1 .. k + 1, q[i] = q[j] PROVE i = j
  <2>1. CASE i \in 1 .. k /\ j \in 1 .. k
    BY <1>3, <1>6, <2>1 DEF Loopless
  <2>2. CASE i = k + 1 \/ j = k + 1
    <3> HIDE DEF k, q
    <3> QED
      BY <1>3, <1>4, <1>6, <2>2
  <2> HIDE DEF k, q
  <2> QED
    BY <1>3, <2>1, <2>2
<1>7. ASSUME NEW i \in 2 .. k + 1 PROVE q[i] # Origin
  <2>1. CASE i = k + 1
    BY <1>3, <1>5, <2>1
  <2>2. CASE i \in 2 .. k
    BY <1>3, <2>2 DEF Loopless
  <2> HIDE DEF k, q
  <2> QED
    BY <1>3, <2>1, <2>2
<1> QED
  BY <1>1, <1>3, <1>6, <1>7 DEF Loopless

\* If all peers are pinned the visited set of discovery_forward keeps a discovery from coming back to
\* a node of its path, or to the origin.
THEOREM NeverLoops == ASSUME AllPinned PROVE Spec => []NoLoop
<1>1. Init => NoLoop
  <2> SUFFICES ASSUME Init, NEW n \in FirstHop PROVE Loopless(make_request(n))
    BY DEF Init, NoLoop
  <2> QED
    BY DEF make_request, Loopless
<1>2. DiscoveryInv /\ NoLoop /\ [Next]_vars => NoLoop'
  <2> SUFFICES ASSUME DiscoveryInv, NoLoop, [Next]_vars PROVE NoLoop'
    OBVIOUS
  <2>1. CASE discovery_forward
    <3>1. PICK req \in forwarding :
            /\ requests' = requests \cup {sub_request(req, n) : n \in targets(req)}
            /\ executed' = executed
      BY <2>1 DEF discovery_forward
    <3>3. req \in Request /\ req.path # <<>> /\ Follows(req) /\ Loopless(req)
      BY DEF DiscoveryInv, TypeOK, ForwardingRan, RequestsFollow, NoLoop
    <3>4. Target(req.path) \in Node
      BY <3>3 DEF Request, Target
    <3>5. \A n \in targets(req) : n \in Node /\ n # Target(req.path) /\ n \notin req.visited
      BY <3>4, GraphAssumption DEF targets, AllPinned
    <3>6. \A n \in targets(req) : Loopless(sub_request(req, n))
      BY <3>3, <3>5, SubRequestLoopless
    <3> QED
      BY <3>1, <3>6 DEF NoLoop
  <2>2. CASE ~discovery_forward
    <3>1. requests' \cup executed' \subseteq requests \cup executed
      BY <2>2 DEF Next, vars, execute, relay_reply, relay_ends, collect, deadline, lose, discard
    <3> QED
      BY <3>1 DEF NoLoop
  <2> QED
    BY <2>1, <2>2
<1> QED
  BY <1>1, <1>2, DiscoveryInvariant, PTL DEF Spec

-----------------------------------------------------------------------------
(* Completeness.                                                           *)

\* The hops of a path.
LEMMA PrefixPath ==
  ASSUME NEW path \in Seq(Node), NEW i \in 1 .. Len(path)
  PROVE  /\ SubSeq(path, 1, i) \in Seq(Node) /\ Len(SubSeq(path, 1, i)) = i
         /\ \A j \in 1 .. i : SubSeq(path, 1, i)[j] = path[j]
  OBVIOUS

\* One hop more of a path.
LEMMA NextHop ==
  ASSUME NEW path \in Seq(Node), NEW i \in 1 .. Len(path) - 1
  PROVE  SubSeq(path, 1, i + 1) = Append(SubSeq(path, 1, i), path[i + 1])
<1> DEFINE p == SubSeq(path, 1, i)
           q == SubSeq(path, 1, i + 1)
<1>1. i \in 1 .. Len(path) /\ i + 1 \in 1 .. Len(path)
  OBVIOUS
<1>2. p \in Seq(Node) /\ Len(p) = i /\ \A j \in 1 .. i : p[j] = path[j]
  BY <1>1, PrefixPath
<1>3. q \in Seq(Node) /\ Len(q) = i + 1 /\ \A j \in 1 .. i + 1 : q[j] = path[j]
  BY <1>1, PrefixPath
<1>4. path[i + 1] \in Node
  BY <1>1
<1> HIDE DEF p, q
<1>5. /\ Append(p, path[i + 1]) \in Seq(Node) /\ Len(Append(p, path[i + 1])) = i + 1
      /\ \A j \in 1 .. i + 1 : Append(p, path[i + 1])[j] = path[j]
  BY <1>2, <1>4
<1>6. q = Append(p, path[i + 1])
  BY <1>3, <1>5, SeqEqual
<1> QED
  BY <1>6 DEF p, q

\* The hops of a path with one more hop are those of the path, and the new one.
LEMMA HopsOfAppend ==
  ASSUME NEW path \in Seq(Node), path # <<>>, NEW n \in Node
  PROVE  /\ \A i \in 1 .. Len(path) : SubSeq(Append(path, n), 1, i) = SubSeq(path, 1, i)
         /\ SubSeq(Append(path, n), 1, Len(path) + 1) = Append(path, n)
<1> DEFINE q == Append(path, n)
<1>1. q \in Seq(Node) /\ Len(q) = Len(path) + 1 /\ (\A i \in 1 .. Len(path) : q[i] = path[i]) /\ Len(path) \in Nat
  OBVIOUS
<1> HIDE DEF q
<1>2. ASSUME NEW i \in 1 .. Len(path) PROVE SubSeq(q, 1, i) = SubSeq(path, 1, i)
  <2>1. /\ SubSeq(path, 1, i) \in Seq(Node) /\ Len(SubSeq(path, 1, i)) = i
        /\ \A j \in 1 .. i : SubSeq(path, 1, i)[j] = path[j]
    BY PrefixPath
  <2>2. i \in 1 .. Len(q)
    BY <1>1
  <2>3. /\ SubSeq(q, 1, i) \in Seq(Node) /\ Len(SubSeq(q, 1, i)) = i
        /\ \A j \in 1 .. i : SubSeq(q, 1, i)[j] = q[j]
    BY <1>1, <2>2, PrefixPath
  <2>4. \A j \in 1 .. i : SubSeq(q, 1, i)[j] = SubSeq(path, 1, i)[j]
    BY <1>1, <2>1, <2>3
  <2> QED
    BY <2>1, <2>3, <2>4, SeqEqual
<1>3. SubSeq(q, 1, Len(path) + 1) = q
  BY <1>1
<1> QED
  BY <1>2, <1>3 DEF q


\* A legal path.
LEMMA LegalPath ==
  ASSUME NEW path \in LegalPaths
  PROVE  /\ path \in Seq(Node) /\ Len(path) \in Nat \ {0} /\ Hops(path)
         /\ \A i, j \in 1 .. Len(path) : path[i] = path[j] => i = j
         /\ \A i \in 2 .. Len(path) : path[i] # Origin
         /\ \A i \in 1 .. Len(path) : Len(path) - i <= trust_cap(EdgeTrusted(path, i))
<1>1. PICK k \in 1 .. TRUSTED_FORWARD_DEPTH + 1 : path \in [1 .. k -> Node]
  BY DEF LegalPaths
<1>2. path \in Seq(Node) /\ Len(path) = k /\ k \in Nat \ {0}
  BY <1>1, DepthAssumption
<1> QED
  BY <1>2 DEF LegalPaths

\* The trust in an edge depends only on the path up to it.
LEMMA EdgeSame ==
  ASSUME NEW p, NEW q, NEW k \in Nat, \A j \in 1 .. k : p[j] = q[j], NEW i \in 1 .. k
  PROVE  EdgeTrusted(p, i) = EdgeTrusted(q, i)
<1>1. CASE i = 1
  BY <1>1 DEF EdgeTrusted
<1>2. CASE i # 1
  <2>1. i - 1 \in 1 .. k
    BY <1>2
  <2> QED
    BY <1>2, <2>1 DEF EdgeTrusted
<1> QED
  BY <1>1, <1>2

\* The first requests have what the first edges allow.
LEMMA FirstExact ==
  ASSUME NEW n \in FirstHop PROVE Exact(make_request(n))
<1> DEFINE req == make_request(n)
<1>1. /\ req.path = <<n>> /\ req.visited = {Origin} /\ req.budget = trust_cap(n \in FirstTrusted)
  BY DEF make_request, initial_depth_budget
<1>2. Len(req.path) = 1 /\ req.path[1] = n
  BY <1>1
<1>3. trust_cap(n \in FirstTrusted) \in Nat
  BY DepthAssumption DEF trust_cap
<1> HIDE DEF req
<1>4. Hops(req.path)
  BY <1>2 DEF Hops
<1>5. req.visited = {Origin} \cup {req.path[i] : i \in 1 .. Len(req.path) - 1}
  BY <1>1, <1>2
<1>6. Len(req.path) - 1 + req.budget = trust_cap(EdgeTrusted(req.path, 1))
  BY <1>1, <1>2, <1>3 DEF EdgeTrusted
<1> QED
  BY <1>2, <1>4, <1>5, <1>6 DEF Exact, req

\* A forwarded request has what is left, or what the new edge allows if that is less.
LEMMA SubExact ==
  ASSUME NEW req \in Request, req.path # <<>>, req.budget > 0, Exact(req), NEW n \in targets(req)
  PROVE  Exact(sub_request(req, n))
<1> DEFINE sub == sub_request(req, n)
           me == Target(req.path)
           t == n \in Pinned[me] /\ n \in trusted_keys(me)
           k == Len(req.path)
<1>1. /\ sub.path = Append(req.path, n) /\ sub.visited = req.visited \cup {me}
      /\ sub.budget = child_depth_budget(req.budget, t)
  BY DEF sub_request
<1>2. req.path \in Seq(Node) /\ req.budget \in Nat \ {0}
  BY DEF Request
<1>3. k \in Nat \ {0} /\ me = req.path[k] /\ me \in Node
  BY <1>2 DEF Target
<1>4. n \in Node /\ n \in Peer[me] /\ me \in Keyed
  BY <1>3, GraphAssumption DEF targets
<1>5. Len(sub.path) = k + 1 /\ (\A i \in 1 .. k : sub.path[i] = req.path[i]) /\ sub.path[k + 1] = n
  BY <1>1, <1>2, <1>4
<1> HIDE DEF sub, k, me
<1>6. Hops(sub.path)
  <2>1. sub.path[1] \in FirstHop
    BY <1>3, <1>5 DEF Exact, Hops
  <2>2. ASSUME NEW i \in 2 .. k + 1 PROVE sub.path[i] \in Peer[sub.path[i - 1]] /\ sub.path[i - 1] \in Keyed
    <3>1. CASE i = k + 1
      <4>1. i - 1 = k /\ k \in 1 .. k
        BY <1>3, <3>1
      <4> QED
        BY <1>3, <1>4, <1>5, <3>1, <4>1
    <3>2. CASE i # k + 1
      <4>1. i \in 2 .. k /\ i \in 1 .. k /\ i - 1 \in 1 .. k
        BY <1>3, <3>2
      <4>2. req.path[i] \in Peer[req.path[i - 1]] /\ req.path[i - 1] \in Keyed
        BY <4>1 DEF Exact, Hops, k
      <4> QED
        BY <1>5, <4>1, <4>2
    <3> QED
      BY <3>1, <3>2
  <2> QED
    BY <1>5, <2>1, <2>2 DEF Hops
<1>7. sub.visited = {Origin} \cup {sub.path[i] : i \in 1 .. Len(sub.path) - 1}
  <2>1. Len(sub.path) - 1 = k /\ 1 .. k = (1 .. k - 1) \cup {k}
    BY <1>3, <1>5
  <2>2. {sub.path[i] : i \in 1 .. k} = {req.path[i] : i \in 1 .. k}
    BY <1>5
  <2>3. {req.path[i] : i \in 1 .. k} = {req.path[i] : i \in 1 .. k - 1} \cup {req.path[k]}
    BY <2>1
  <2>4. req.visited = {Origin} \cup {req.path[i] : i \in 1 .. k - 1}
    BY DEF Exact, k
  <2> QED
    BY <1>1, <1>3, <2>1, <2>2, <2>3, <2>4
<1>8. \E i \in 1 .. Len(sub.path) :
        Len(sub.path) - i + sub.budget = trust_cap(EdgeTrusted(sub.path, i))
  <2>1. CASE sub.budget = req.budget - 1
    <3>1. PICK i \in 1 .. k : k - i + req.budget = trust_cap(EdgeTrusted(req.path, i))
      BY DEF Exact, k
    <3>2. EdgeTrusted(sub.path, i) = EdgeTrusted(req.path, i)
      <4>1. k \in Nat
        BY <1>3
      <4> QED
        BY <1>5, <4>1, EdgeSame
    <3> DEFINE b == req.budget
    <3>3. b \in Nat /\ k \in Nat /\ i \in 1 .. k
      BY <1>2, <1>3
    <3>4. Len(sub.path) = k + 1 /\ sub.budget = b - 1
      BY <1>5, <2>1
    <3>5. k - i + b = trust_cap(EdgeTrusted(sub.path, i))
      BY <3>1, <3>2
    <3> HIDE DEF b
    <3>6. i \in 1 .. k + 1 /\ (k + 1) - i + (b - 1) = k - i + b
      BY ONLY <3>3
    <3>7. i \in 1 .. Len(sub.path) /\ Len(sub.path) - i + sub.budget = trust_cap(EdgeTrusted(sub.path, i))
      BY ONLY <3>4, <3>5, <3>6
    <3> QED
      BY <3>7
  <2>2. CASE sub.budget = trust_cap(t)
    <3>1. EdgeTrusted(sub.path, k + 1) = t
      <4>1. k + 1 # 1 /\ (k + 1) - 1 = k /\ k \in 1 .. k
        BY <1>3
      <4>2. sub.path[k] = me
        BY <1>3, <1>5, <4>1
      <4> QED
        BY <1>5, <4>1, <4>2 DEF EdgeTrusted
    <3>2. trust_cap(t) \in Nat
      BY DepthAssumption DEF trust_cap
    <3>3. k + 1 \in 1 .. Len(sub.path) /\ Len(sub.path) - (k + 1) + sub.budget = sub.budget
      BY <1>3, <1>5, <2>2, <3>2
    <3> HIDE DEF t
    <3> QED
      BY <2>2, <3>1, <3>3
  <2>3. sub.budget = req.budget - 1 \/ sub.budget = trust_cap(t)
    BY <1>1, <1>2 DEF child_depth_budget, Min2
  <2> QED
    BY <2>1, <2>2, <2>3
<1> QED
  BY <1>6, <1>7, <1>8 DEF Exact, sub

\* A request on a legal path has budget for the rest of it, ...
LEMMA BudgetLeft ==
  ASSUME NEW req \in Request, Exact(req), NEW path \in LegalPaths, NEW i \in 1 .. Len(path) - 1,
         req.path = SubSeq(path, 1, i)
  PROVE  req.budget > 0
<1> DEFINE n == Len(path)
<1>1. path \in Seq(Node) /\ n \in Nat \ {0}
  BY LegalPath
<1>2. i \in 1 .. n /\ i \in Nat /\ i < n
  BY <1>1
<1>3. Len(req.path) = i /\ \A j \in 1 .. i : req.path[j] = path[j]
  BY <1>1, <1>2, PrefixPath
<1>4. PICK j \in 1 .. i : i - j + req.budget = trust_cap(EdgeTrusted(req.path, j))
  BY <1>3 DEF Exact
<1>5. EdgeTrusted(req.path, j) = EdgeTrusted(path, j)
  <2> DEFINE p == req.path
  <2>1. i \in Nat /\ j \in 1 .. i /\ \A l \in 1 .. i : p[l] = path[l]
    BY <1>2, <1>3
  <2> HIDE DEF p
  <2>2. EdgeTrusted(p, j) = EdgeTrusted(path, j)
    BY ONLY <2>1, EdgeSame
  <2> QED
    BY <2>2 DEF p
<1>6. n - j <= trust_cap(EdgeTrusted(path, j))
  <2>1. j \in 1 .. n
    BY <1>1, <1>2
  <2> QED
    BY <2>1, LegalPath
<1>7. req.budget \in Nat
  BY DEF Request
<1>8. trust_cap(EdgeTrusted(path, j)) \in Nat
  BY DepthAssumption DEF trust_cap
<1> HIDE DEF n
<1> QED
  BY <1>1, <1>2, <1>4, <1>5, <1>6, <1>7, <1>8

\* ... and its next hop is a target.
LEMMA NextIsTarget ==
  ASSUME NEW req, Exact(req), NEW path \in LegalPaths, NEW i \in 1 .. Len(path) - 1,
         req.path = SubSeq(path, 1, i)
  PROVE  path[i + 1] \in targets(req)
<1>1. path \in Seq(Node) /\ Len(path) \in Nat \ {0}
  BY LegalPath
<1>2. i \in 1 .. Len(path) /\ i + 1 \in 2 .. Len(path) /\ i + 1 \in 1 .. Len(path) /\ (i + 1) - 1 = i
  BY <1>1
<1>3. Len(req.path) = i /\ \A j \in 1 .. i : req.path[j] = path[j]
  BY <1>1, <1>2, PrefixPath
<1>4. Target(req.path) = path[i]
  BY <1>2, <1>3 DEF Target
<1>5. path[i + 1] \in Peer[path[i]] /\ path[i] \in Keyed
  BY <1>2, LegalPath DEF Hops
<1>6. path[i + 1] # path[i]
  BY <1>2, LegalPath
<1>7. path[i + 1] \notin req.visited
  <2>1. path[i + 1] # Origin
    BY <1>2, LegalPath
  <2>2. ASSUME NEW j \in 1 .. i - 1 PROVE path[i + 1] # req.path[j]
    <3>1. j \in 1 .. i /\ j \in 1 .. Len(path) /\ j # i + 1
      BY <1>1, <1>2
    <3>2. path[i + 1] # path[j]
      BY <1>2, <3>1, LegalPath
    <3> QED
      BY <1>3, <3>1, <3>2
  <2>3. req.visited = {Origin} \cup {req.path[j] : j \in 1 .. i - 1}
    BY <1>3 DEF Exact
  <2> QED
    BY <2>1, <2>2, <2>3
<1> QED
  BY <1>4, <1>5, <1>6, <1>7 DEF targets


\* The reader of an answer's socket is on the way back, and so is the next one.
LEMMA FrontBelow ==
  ASSUME NEW s \in Seq(Node), NEW q \in Seq(Node), Len(s) > 1, Below(s, q)
  PROVE  Below(FrontOf(s), q)
<1> DEFINE k == Len(s)
<1>1. k \in Nat /\ k > 1 /\ k <= Len(q) /\ Len(q) \in Nat /\ s = SubSeq(q, 1, k)
  BY DEF Below
<1>2. k \in 1 .. Len(q) /\ k - 1 \in 1 .. Len(q) /\ k - 1 \in 1 .. k
  BY <1>1
<1>3. \A j \in 1 .. k : s[j] = q[j]
  BY <1>1, <1>2, PrefixPath
<1> HIDE DEF k
<1>4. /\ SubSeq(s, 1, k - 1) \in Seq(Node) /\ Len(SubSeq(s, 1, k - 1)) = k - 1
      /\ \A j \in 1 .. k - 1 : SubSeq(s, 1, k - 1)[j] = s[j]
  BY <1>2, PrefixPath DEF k
<1>5. /\ SubSeq(q, 1, k - 1) \in Seq(Node) /\ Len(SubSeq(q, 1, k - 1)) = k - 1
      /\ \A j \in 1 .. k - 1 : SubSeq(q, 1, k - 1)[j] = q[j]
  BY <1>2, PrefixPath
<1>6. \A j \in 1 .. k - 1 : j \in 1 .. k
  BY <1>2
<1>7. SubSeq(s, 1, k - 1) = SubSeq(q, 1, k - 1)
  BY <1>3, <1>4, <1>5, <1>6, SeqEqual
<1>8. FrontOf(s) = SubSeq(s, 1, k - 1)
  BY DEF FrontOf, k
<1> QED
  BY <1>2, <1>4, <1>7, <1>8 DEF Below

\* At the start every legal path begins with a request.
LEMMA CompletionStarts == Init => CompletionInv
<1> SUFFICES ASSUME Init PROVE CompletionInv
  OBVIOUS
<1>1. RequestsExact
  BY FirstExact DEF Init, RequestsExact
<1>2. WaysBack
  <2>1. \A n \in FirstHop : Len(make_request(n).path) = 1
    BY DEF make_request
  <2>2. \A req \in requests : Relayed(req.path)
    <3> SUFFICES ASSUME NEW n \in FirstHop PROVE Relayed(make_request(n).path)
      BY DEF Init
    <3> DEFINE p == make_request(n).path
    <3>1. Len(p) = 1
      BY <2>1
    <3> HIDE DEF p
    <3>2. Relayed(p)
      BY <3>1 DEF Relayed
    <3> QED
      BY <3>2 DEF p
  <2> QED
    BY <2>2 DEF Init, WaysBack
<1>3. Answered /\ WindowLast
  BY DEF Init, Answered, WindowLast
<1>4. ASSUME NEW path \in LegalPaths
      PROVE  \E i \in 1 .. Len(path) : \E req \in requests : req.path = SubSeq(path, 1, i)
  <2>1. path \in Seq(Node) /\ 1 \in 1 .. Len(path) /\ path[1] \in FirstHop
    BY LegalPath DEF Hops
  <2>2. SubSeq(path, 1, 1) = <<path[1]>>
    <3>1. /\ SubSeq(path, 1, 1) \in Seq(Node) /\ Len(SubSeq(path, 1, 1)) = 1
          /\ \A j \in 1 .. 1 : SubSeq(path, 1, 1)[j] = path[j]
      BY <2>1, PrefixPath
    <3>2. /\ <<path[1]>> \in Seq(Node) /\ Len(<<path[1]>>) = 1
          /\ \A j \in 1 .. 1 : <<path[1]>>[j] = path[j]
      BY <2>1
    <3> QED
      BY <3>1, <3>2, SeqEqual
  <2>3. make_request(path[1]) \in requests /\ make_request(path[1]).path = <<path[1]>>
    BY <2>1 DEF Init, make_request
  <2> QED
    BY <2>1, <2>2, <2>3
<1>5. Covered
  BY <1>4 DEF Covered
<1> QED
  BY <1>1, <1>2, <1>3, <1>5 DEF CompletionInv

\* The program runs: its answer is on the way, and it is forwarded if there is more of the path.
LEMMA ExecuteCompletes ==
  ASSUME DiscoveryInv, CompletionInv, execute PROVE CompletionInv'
<1>1. PICK req \in requests :
        /\ requests' = requests \ {req}
        /\ executed' = executed \cup {req}
        /\ timely => replies' = replies \cup {answer(req)}
        /\ forwarding' = IF req.budget > 0 THEN forwarding \cup {req} ELSE forwarding
        /\ UNCHANGED <<timely, relays, collecting, collected>>
  BY DEF execute
<1>2. req \in Request /\ req.path # <<>> /\ req.path \in Seq(Node) /\ Exact(req)
  BY DEF DiscoveryInv, TypeOK, CompletionInv, RequestsExact, Request
<1>3. RequestsExact'
  BY <1>1 DEF CompletionInv, RequestsExact
<1>4. ASSUME timely PROVE WaysBack' /\ Answered' /\ Covered' /\ WindowLast'
  <2>1. WaysBack /\ Answered /\ Covered /\ WindowLast
    BY <1>4 DEF CompletionInv
  <2>2. \A p : Relayed(p) => Relayed(p)'
    BY <1>1 DEF Relayed
  <2>3. answer(req).sock = req.path /\ answer(req).record.path = req.path
    BY DEF answer, node_record
  <2>4. Below(req.path, req.path)
    BY <1>2 DEF Below
  <2>5. Relayed(req.path)
    BY <2>1 DEF WaysBack
  <2>6. WaysBack'
    <3>1. \A q \in requests' \cup forwarding' : Relayed(q.path)
      BY <1>1, <2>1 DEF WaysBack
    <3>2. \A m \in replies' : Relayed(m.record.path) /\ Below(m.sock, m.record.path)
      BY <1>1, <1>4, <2>1, <2>3, <2>4, <2>5 DEF WaysBack
    <3> QED
      BY <2>2, <3>1, <3>2 DEF WaysBack
  <2>7. Answered'
    BY <1>1, <1>4, <2>1, <2>3 DEF Answered
  <2>8. WindowLast'
    BY <1>1, <2>1 DEF WindowLast
  <2>9. ASSUME NEW path \in LegalPaths, ~ \E q \in executed' : q.path = path
        PROVE  \E i \in 1 .. Len(path) : \E q \in requests' \cup forwarding' : q.path = SubSeq(path, 1, i)
    <3>1. PICK i \in 1 .. Len(path), q \in requests \cup forwarding : q.path = SubSeq(path, 1, i)
      BY <1>1, <2>1, <2>9 DEF Covered
    <3>2. CASE q # req
      BY <1>1, <3>1, <3>2
    <3>3. CASE q = req
      <4>1. path \in Seq(Node) /\ Len(path) \in Nat
        BY LegalPath
      <4>2. i # Len(path)
        <5>1. SubSeq(path, 1, Len(path)) = path
          BY <4>1
        <5> QED
          BY <1>1, <2>9, <3>1, <3>3, <5>1
      <4>3. i \in 1 .. Len(path) - 1
        BY <4>1, <4>2
      <4>4. req.budget > 0
        BY <1>2, <3>1, <3>3, <4>3, BudgetLeft
      <4> QED
        BY <1>1, <3>1, <3>3, <4>4
    <3> QED
      BY <3>2, <3>3
  <2>10. Covered'
    BY <2>9 DEF Covered
  <2> QED
    BY <2>6, <2>7, <2>8, <2>10
<1> QED
  BY <1>1, <1>3, <1>4 DEF CompletionInv

\* The program is forwarded: one hop more of every legal path through it, with its relay.
LEMMA ForwardCompletes ==
  ASSUME DiscoveryInv, CompletionInv, discovery_forward PROVE CompletionInv'
<1>1. PICK req \in forwarding :
        /\ forwarding' = forwarding \ {req}
        /\ requests' = requests \cup {sub_request(req, n) : n \in targets(req)}
        /\ relays' = relays \cup {[sock |-> Append(req.path, n), caller |-> req.path,
                                   caller_uuid |-> req.uuid] : n \in targets(req)}
        /\ UNCHANGED <<timely, replies, collecting, collected, executed>>
  BY DEF discovery_forward
<1>2. /\ req \in Request /\ req.path # <<>> /\ req.path \in Seq(Node) /\ req.budget > 0
      /\ req \in executed /\ Exact(req)
  BY DEF DiscoveryInv, TypeOK, CompletionInv, RequestsExact, ForwardingRan, Request
<1>3. \A n \in targets(req) : n \in Node
  <2>1. Target(req.path) \in Node
    BY <1>2 DEF Target
  <2> QED
    BY <2>1, GraphAssumption DEF targets
<1>4. \A n : sub_request(req, n).path = Append(req.path, n)
  BY DEF sub_request
<1>5. RequestsExact'
  <2>1. \A n \in targets(req) : Exact(sub_request(req, n))
    BY <1>2, SubExact
  <2> QED
    BY <1>1, <2>1 DEF CompletionInv, RequestsExact
<1>6. ASSUME timely PROVE WaysBack' /\ Answered' /\ Covered' /\ WindowLast'
  <2>1. WaysBack /\ Answered /\ Covered /\ WindowLast
    BY <1>6 DEF CompletionInv
  <2>2. \A p : Relayed(p) => Relayed(p)'
    BY <1>1 DEF Relayed
  <2>3. ASSUME NEW n \in targets(req) PROVE Relayed(Append(req.path, n))'
    <3> DEFINE k == Len(req.path)
               q == Append(req.path, n)
    <3>1. n \in Node /\ k \in Nat \ {0} /\ Len(q) = k + 1
      BY <1>2, <1>3
    <3>2. (\A i \in 1 .. k : SubSeq(q, 1, i) = SubSeq(req.path, 1, i)) /\ SubSeq(q, 1, k + 1) = q
      BY <1>2, <3>1, HopsOfAppend
    <3>3. \E r \in relays' : r.sock = q
      <4> DEFINE new == [sock |-> q, caller |-> req.path, caller_uuid |-> req.uuid]
      <4>1. new \in relays' /\ new.sock = q
        BY <1>1
      <4> QED
        BY <4>1
    <3>4. \A i \in 2 .. k : \E r \in relays : r.sock = SubSeq(req.path, 1, i)
      BY <2>1 DEF WaysBack, Relayed
    <3> HIDE DEF k, q
    <3>5. ASSUME NEW i \in 2 .. k + 1 PROVE \E r \in relays' : r.sock = SubSeq(q, 1, i)
      <4>1. CASE i = k + 1
        BY <3>2, <3>3, <4>1
      <4>2. CASE i # k + 1
        <5>1. i \in 1 .. k /\ i \in 2 .. k
          BY <3>1, <4>2
        <5> QED
          BY <1>1, <3>2, <3>4, <5>1
      <4> QED
        BY <4>1, <4>2
    <3> QED
      BY <3>1, <3>5 DEF Relayed, q
  <2>4. WaysBack'
    <3>1. \A q \in requests' \cup forwarding' : Relayed(q.path)'
      BY <1>1, <1>4, <2>1, <2>2, <2>3 DEF WaysBack
    <3>2. \A m \in replies' : Relayed(m.record.path)' /\ Below(m.sock, m.record.path)
      BY <1>1, <2>1, <2>2 DEF WaysBack
    <3> QED
      BY <3>1, <3>2 DEF WaysBack
  <2>5. Answered' /\ WindowLast'
    BY <1>1, <2>1 DEF Answered, WindowLast
  <2>6. ASSUME NEW path \in LegalPaths, ~ \E q \in executed' : q.path = path
        PROVE  \E i \in 1 .. Len(path) : \E q \in requests' \cup forwarding' : q.path = SubSeq(path, 1, i)
    <3>1. PICK i \in 1 .. Len(path), q \in requests \cup forwarding : q.path = SubSeq(path, 1, i)
      BY <1>1, <2>1, <2>6 DEF Covered
    <3>2. CASE q # req
      BY <1>1, <3>1, <3>2
    <3>3. CASE q = req
      <4>1. path \in Seq(Node) /\ Len(path) \in Nat
        BY LegalPath
      <4>2. i # Len(path)
        <5>1. SubSeq(path, 1, Len(path)) = path
          BY <4>1
        <5> QED
          BY <1>1, <1>2, <2>6, <3>1, <3>3, <5>1
      <4>3. i \in 1 .. Len(path) - 1 /\ i + 1 \in 1 .. Len(path)
        BY <4>1, <4>2
      <4>4. path[i + 1] \in targets(req)
        BY <1>2, <3>1, <3>3, <4>3, NextIsTarget
      <4>5. SubSeq(path, 1, i + 1) = Append(req.path, path[i + 1])
        BY <3>1, <3>3, <4>1, <4>3, NextHop
      <4>6. sub_request(req, path[i + 1]) \in requests'
        BY <1>1, <4>4
      <4> QED
        BY <1>4, <4>3, <4>5, <4>6
    <3> QED
      BY <3>2, <3>3
  <2>7. Covered'
    BY <2>6 DEF Covered
  <2> QED
    BY <2>4, <2>5, <2>7
<1> QED
  BY <1>1, <1>5, <1>6 DEF CompletionInv


\* An answer moves up one hop: it is still on the way back.
LEMMA RelayCompletes ==
  ASSUME DiscoveryInv, CompletionInv, relay_reply PROVE CompletionInv'
<1>1. PICK r \in relays, m \in replies :
        /\ m.sock = r.sock
        /\ replies' = (replies \ {m}) \cup {rewrite(r, m)}
        /\ UNCHANGED <<timely, requests, forwarding, relays, collecting, collected, executed>>
  BY DEF relay_reply
<1>2. rewrite(r, m).sock = FrontOf(m.sock) /\ rewrite(r, m).record = m.record /\ Len(m.sock) > 1
  BY <1>1 DEF rewrite, DiscoveryInv, RelaysFollow
<1>3. m.sock \in Seq(Node) /\ m.record.path \in Seq(Node)
  BY DEF DiscoveryInv, TypeOK, Record
<1>4. RequestsExact'
  BY <1>1 DEF CompletionInv, RequestsExact
<1>5. ASSUME timely PROVE WaysBack' /\ Answered' /\ Covered' /\ WindowLast'
  <2>1. WaysBack /\ Answered /\ Covered /\ WindowLast
    BY <1>5 DEF CompletionInv
  <2>2. \A p : Relayed(p) => Relayed(p)'
    BY <1>1 DEF Relayed
  <2>3. Below(FrontOf(m.sock), m.record.path)
    BY <1>2, <1>3, <2>1, FrontBelow DEF WaysBack
  <2>4. WaysBack'
    <3>1. \A q \in requests' \cup forwarding' : Relayed(q.path)
      BY <1>1, <2>1 DEF WaysBack
    <3>2. \A a \in replies' : Relayed(a.record.path) /\ Below(a.sock, a.record.path)
      BY <1>1, <1>2, <2>1, <2>3 DEF WaysBack
    <3> QED
      BY <2>2, <3>1, <3>2 DEF WaysBack
  <2>5. Answered'
    BY <1>1, <1>2, <2>1 DEF Answered
  <2>6. Covered' /\ WindowLast'
    BY <1>1, <2>1 DEF Covered, WindowLast
  <2> QED
    BY <2>4, <2>5, <2>6
<1> QED
  BY <1>1, <1>4, <1>5 DEF CompletionInv

\* In a good run a relay ends only when nothing below it needs it.
LEMMA RelayEndsCompletes ==
  ASSUME DiscoveryInv, CompletionInv, relay_ends PROVE CompletionInv'
<1>1. PICK r \in relays :
        /\ timely => ~Busy(r.sock)
        /\ relays' = relays \ {r}
        /\ UNCHANGED <<timely, requests, forwarding, replies, collecting, collected, executed>>
  BY DEF relay_ends
<1>2. RequestsExact'
  BY <1>1 DEF CompletionInv, RequestsExact
<1>3. ASSUME timely PROVE WaysBack' /\ Answered' /\ Covered' /\ WindowLast'
  <2>1. WaysBack /\ Answered /\ Covered /\ WindowLast
    BY <1>3 DEF CompletionInv
  <2>2. ASSUME NEW p \in Seq(Node), Relayed(p), ~Below(r.sock, p) PROVE Relayed(p)'
    <3>1. ASSUME NEW i \in 2 .. Len(p) PROVE \E x \in relays' : x.sock = SubSeq(p, 1, i)
      <4>1. PICK x \in relays : x.sock = SubSeq(p, 1, i)
        BY <2>2 DEF Relayed
      <4>2. i \in 1 .. Len(p)
        OBVIOUS
      <4>3. Len(SubSeq(p, 1, i)) = i
        BY <4>2, PrefixPath
      <4>4. x # r
        BY <2>2, <4>1, <4>2, <4>3 DEF Below
      <4> QED
        BY <1>1, <4>1, <4>4
    <3> QED
      BY <3>1 DEF Relayed
  <2>3. /\ \A q \in requests \cup forwarding : q.path \in Seq(Node)
        /\ \A m \in replies : m.record.path \in Seq(Node)
    BY DEF DiscoveryInv, TypeOK, Request, Record
  <2>4. /\ \A q \in requests \cup forwarding : ~Below(r.sock, q.path)
        /\ \A m \in replies : ~Below(r.sock, m.record.path)
    BY <1>1, <1>3 DEF Busy
  <2>5. \A q \in requests \cup forwarding : Relayed(q.path)'
    BY <2>1, <2>2, <2>3, <2>4 DEF WaysBack
  <2>6. \A m \in replies : Relayed(m.record.path)' /\ Below(m.sock, m.record.path)
    BY <2>1, <2>2, <2>3, <2>4 DEF WaysBack
  <2>7. WaysBack'
    BY <1>1, <2>5, <2>6 DEF WaysBack
  <2>8. Answered' /\ Covered' /\ WindowLast'
    BY <1>1, <2>1 DEF Answered, Covered, WindowLast
  <2> QED
    BY <2>7, <2>8
<1> QED
  BY <1>1, <1>2, <1>3 DEF CompletionInv

\* netmap takes every record that arrives, since it arrives under its uuid.
LEMMA CollectCompletes ==
  ASSUME DiscoveryInv, CompletionInv, collect PROVE CompletionInv'
<1>1. PICK m \in replies :
        /\ Len(m.sock) = 1
        /\ replies' = replies \ {m}
        /\ collected' = IF m.uuid = <<>> THEN collected \cup {m.record} ELSE collected
        /\ UNCHANGED <<timely, requests, forwarding, relays, collecting, executed>>
  BY DEF collect
<1>2. m.uuid = <<>>
  BY <1>1 DEF DiscoveryInv, RepliesFollow, FrontOf, TypeOK
<1>3. RequestsExact'
  BY <1>1 DEF CompletionInv, RequestsExact
<1>4. ASSUME timely PROVE WaysBack' /\ Answered' /\ Covered' /\ WindowLast'
  <2>1. WaysBack /\ Answered /\ Covered /\ WindowLast
    BY <1>4 DEF CompletionInv
  <2>2. \A p : Relayed(p) => Relayed(p)'
    BY <1>1 DEF Relayed
  <2>3. WaysBack'
    BY <1>1, <2>1, <2>2 DEF WaysBack
  <2>4. Answered'
    BY <1>1, <1>2, <2>1 DEF Answered
  <2>5. Covered' /\ WindowLast'
    BY <1>1, <2>1 DEF Covered, WindowLast
  <2> QED
    BY <2>3, <2>4, <2>5
<1> QED
  BY <1>1, <1>3, <1>4 DEF CompletionInv

\* In a good run somebody reads every socket an answer is sent to.
LEMMA NothingDiscarded ==
  ASSUME DiscoveryInv, CompletionInv, timely PROVE ~discard
<1> SUFFICES ASSUME NEW m \in replies,
                    IF Len(m.sock) = 1 THEN ~collecting ELSE \A r \in relays : r.sock # m.sock
             PROVE  FALSE
  BY DEF discard
<1>1. WaysBack /\ collecting
  BY DEF CompletionInv, WindowLast
<1>2. m.sock \in Seq(Node) /\ m.sock # <<>> /\ m.record.path \in Seq(Node)
  BY DEF DiscoveryInv, TypeOK, RepliesFollow, Record
<1>3. Relayed(m.record.path) /\ Below(m.sock, m.record.path)
  BY <1>1 DEF WaysBack
<1>4. CASE Len(m.sock) # 1
  <2>1. Len(m.sock) \in 2 .. Len(m.record.path)
    <3> DEFINE k == Len(m.sock)
               l == Len(m.record.path)
    <3>1. k \in Nat /\ k # 0 /\ l \in Nat
      BY <1>2
    <3>2. k <= l
      BY <1>3 DEF Below
    <3>3. k # 1
      BY <1>4
    <3> HIDE DEF k, l
    <3>4. k \in 2 .. l
      BY ONLY <3>1, <3>2, <3>3
    <3> QED
      BY <3>4 DEF k, l
  <2> QED
    BY <1>3, <1>4, <2>1 DEF Relayed, Below
<1> QED
  BY <1>1, <1>4

\* CompletionInv is inductive.
LEMMA CompletionKeeps ==
  ASSUME DiscoveryInv, CompletionInv, [Next]_vars PROVE CompletionInv'
<1>1. CASE execute \/ discovery_forward \/ relay_reply \/ relay_ends \/ collect
  BY <1>1, ExecuteCompletes, ForwardCompletes, RelayCompletes, RelayEndsCompletes, CollectCompletes
<1>2. CASE deadline \/ UNCHANGED vars
  <2>1. UNCHANGED <<timely, requests, forwarding, relays, replies, collected, executed>>
    BY <1>2 DEF deadline, vars
  <2>2. RequestsExact'
    BY <2>1 DEF CompletionInv, RequestsExact
  <2>3. ASSUME timely PROVE WaysBack' /\ Answered' /\ Covered' /\ WindowLast'
    <3>1. WaysBack /\ Answered /\ Covered /\ WindowLast
      BY <2>3 DEF CompletionInv
    <3>2. \A p : Relayed(p) => Relayed(p)'
      BY <2>1 DEF Relayed
    <3>3. WaysBack'
      BY <2>1, <3>1, <3>2 DEF WaysBack
    <3>4. Answered' /\ Covered'
      BY <2>1, <3>1 DEF Answered, Covered
    <3>5. WindowLast'
      BY <1>2, <2>1, <2>3, <3>1 DEF WindowLast, deadline, vars
    <3> QED
      BY <3>3, <3>4, <3>5
  <2> QED
    BY <2>1, <2>2, <2>3 DEF CompletionInv
<1>3. CASE lose \/ discard
  <2>1. ~timely
    BY <1>3, NothingDiscarded DEF lose, DiscoveryInv, TypeOK
  <2>2. requests' \subseteq requests /\ executed' = executed /\ timely' = timely
    BY <1>3 DEF lose, discard
  <2> QED
    BY <2>1, <2>2 DEF CompletionInv, RequestsExact
<1> QED
  BY <1>1, <1>2, <1>3 DEF Next

\* A request that was executed went along a legal path.
LEMMA ExecutedIsLegal ==
  ASSUME UNTRUSTED_FORWARD_DEPTH <= TRUSTED_FORWARD_DEPTH,
         NEW req \in Request, req.path # <<>>, Exact(req), WithinDepth(req), Loopless(req)
  PROVE  req.path \in LegalPaths
<1> DEFINE p == req.path
           k == Len(p)
<1>1. p \in Seq(Node) /\ k \in Nat \ {0} /\ p \in [1 .. k -> Node] /\ req.budget \in Nat
  BY DEF Request
<1>2. ASSUME NEW i \in 1 .. k PROVE k - i <= trust_cap(EdgeTrusted(p, i))
  <2>1. k - i + req.budget <= trust_cap(EdgeTrusted(p, i))
    BY DEF WithinDepth
  <2>2. trust_cap(EdgeTrusted(p, i)) \in Nat
    BY DepthAssumption DEF trust_cap
  <2> HIDE DEF k, p
  <2> QED
    BY <1>1, <2>1, <2>2
<1>3. k \in 1 .. TRUSTED_FORWARD_DEPTH + 1
  <2>1. k - 1 <= trust_cap(EdgeTrusted(p, 1))
    BY <1>1, <1>2
  <2>2. trust_cap(EdgeTrusted(p, 1)) <= TRUSTED_FORWARD_DEPTH
    BY DepthAssumption DEF trust_cap
  <2>3. trust_cap(EdgeTrusted(p, 1)) \in Nat
    BY DepthAssumption DEF trust_cap
  <2> HIDE DEF k, p
  <2> QED
    BY <1>1, <2>1, <2>2, <2>3, DepthAssumption
<1>4. Hops(p)
  BY DEF Exact
<1> QED
  BY <1>1, <1>2, <1>3, <1>4 DEF LegalPaths, Loopless

\* In a good run netmap finds exactly the nodes it should, if all peers are pinned and an untrusted
\* edge grants no more depth than a trusted one: no answer is discarded, no path given up early, none
\* taken that should not be.
THEOREM FindsExactlyReachable ==
  ASSUME AllPinned, UNTRUSTED_FORWARD_DEPTH <= TRUSTED_FORWARD_DEPTH PROVE Spec => []Complete
<1>1. DiscoveryInv /\ NoLoop /\ CompletionInv => Complete
  <2> SUFFICES ASSUME DiscoveryInv, NoLoop, CompletionInv, timely, ~collecting
               PROVE  {Target(d.path) : d \in collected} = Reachable
    BY DEF Complete
  <2>1. Answered /\ Covered /\ requests = {} /\ forwarding = {} /\ replies = {}
    BY DEF CompletionInv, WindowLast
  <2>2. ASSUME NEW d \in collected PROVE Target(d.path) \in Reachable
    <3>1. PICK req \in executed : req.path = d.path
      BY DEF DiscoveryInv, ParentAsked, Truthful
    <3>2. req \in Request /\ req.path # <<>> /\ Exact(req) /\ WithinDepth(req) /\ Loopless(req)
      BY DEF DiscoveryInv, TypeOK, DepthBounded, NoLoop, CompletionInv, RequestsExact
    <3>3. d.path \in LegalPaths
      BY <3>1, <3>2, ExecutedIsLegal
    <3> QED
      BY <3>3 DEF Reachable
  <2>3. ASSUME NEW path \in LegalPaths PROVE \E d \in collected : d.path = path
    <3>1. PICK req \in executed : req.path = path
      BY <2>1 DEF Covered
    <3> QED
      BY <2>1, <3>1 DEF Answered
  <2> QED
    BY <2>2, <2>3 DEF Reachable
<1>2. DiscoveryInv /\ CompletionInv /\ [Next]_vars => CompletionInv'
  BY CompletionKeeps
<1> QED
  BY <1>1, <1>2, CompletionStarts, DiscoveryInvariant, NeverLoops, PTL DEF Spec

-----------------------------------------------------------------------------
(* The map.                                                                *)

\* The steps of netmap are steps of the discovery, or leave it alone.
LEMMA MapIsDiscovery == MapSpec => Spec
<1>1. MapInit => Init
  BY DEF MapInit
<1>2. [MapNext]_mapVars => [Next]_vars
  BY DEF MapNext, mapVars, vars, Gather, print_network_map, collect_rows
<1> QED
  BY <1>1, <1>2, PTL DEF MapSpec, Spec

\* A known node has a first record, which the program made there.
LEMMA RecordIs ==
  ASSUME MapTypeOK, RecordsMade, NEW n \in Known
  PROVE  /\ \E i \in 1 .. Len(arrived) : n \in Verified(i) /\ RecordOf(n) = arrived[i]
         /\ \E req \in executed : RecordOf(n) = node_record(req) /\ Target(req.path) = n
<1> DEFINE T == {i \in 1 .. Len(arrived) : n \in Verified(i)}
<1>1. T # {} /\ T \subseteq Nat
  BY DEF Known, MapTypeOK
<1>2. PICK i \in T : \A j \in T : i <= j
  BY <1>1, LeastOfNat
<1>3. PICK k \in 1 .. Len(arrived) : n \in Verified(k) /\ RecordOf(n) = arrived[k]
  <2>1. \E k \in 1 .. Len(arrived) :
          n \in Verified(k) /\ \A j \in 1 .. Len(arrived) : n \in Verified(j) => k <= j
    BY <1>2
  <2> QED
    BY <2>1, Zenon DEF RecordOf
<1>4. PICK req \in executed : arrived[k] = node_record(req)
  BY <1>3 DEF MapTypeOK, RecordsMade
<1>5. arrived[k].attestation = signed_attestation(Target(req.path))
  BY <1>4 DEF node_record
<1>6. Target(req.path) = n
  BY <1>3, <1>5 DEF Verified, verify_attestation_cbor, signed_attestation
<1> QED
  BY <1>3, <1>4, <1>6

\* There are not more nodes than records.
LEMMA KnownFinite ==
  ASSUME MapTypeOK, RecordsMade PROVE IsFiniteSet(Known) /\ \A S \in SUBSET Known : IsFiniteSet(S)
<1> DEFINE I == {i \in 1 .. Len(arrived) : Verified(i) # {}}
           f == [i \in I |-> CHOOSE n \in Known : n \in Verified(i)]
<1>1. IsFiniteSet(1 .. Len(arrived))
  BY FS_Interval DEF MapTypeOK
<1>2. IsFiniteSet(I)
  BY <1>1, FS_Subset
<1>3. \A i \in I : f[i] \in Known /\ f[i] \in Verified(i)
  BY DEF Known
<1>4. \A i \in I : \A n, m \in Verified(i) : n = m
  <2> SUFFICES ASSUME NEW i \in I, NEW n \in Verified(i), NEW m \in Verified(i) PROVE n = m
    OBVIOUS
  <2>1. PICK req \in executed : arrived[i] = node_record(req)
    BY DEF MapTypeOK, RecordsMade
  <2>2. arrived[i].attestation = signed_attestation(Target(req.path))
    BY <2>1 DEF node_record
  <2> QED
    BY <2>2 DEF Verified, verify_attestation_cbor, signed_attestation
<1>5. f \in Surjection(I, Known)
  <2>1. f \in [I -> Known]
    BY <1>3
  <2>2. \A n \in Known : \E i \in I : f[i] = n
    BY <1>3, <1>4 DEF Known
  <2> QED
    BY <2>1, <2>2 DEF Surjection
<1>6. IsFiniteSet(Known)
  BY <1>2, <1>5, FS_Surjection DEF ExistsSurjection
<1> QED
  BY <1>6, FS_Subset

\* A sorted list has the elements of the set.
LEMMA SortedIs ==
  ASSUME NEW S, IsFiniteSet(S), NEW s \in Sorted(S)
  PROVE  s \in Seq(S) /\ Len(s) \in Nat /\ \A n \in S : \E i \in 1 .. Len(s) : s[i] = n
<1>1. Cardinality(S) \in Nat
  BY FS_CardinalityType
<1>2. s \in [1 .. Cardinality(S) -> S] /\ Range(s) = S
  BY DEF Sorted
<1>3. s \in Seq(S) /\ Len(s) = Cardinality(S)
  BY <1>1, <1>2
<1>4. DOMAIN s = 1 .. Len(s)
  BY <1>2, <1>3
<1>5. \A n \in S : \E i \in DOMAIN s : s[i] = n
  BY <1>2, Zenon DEF Range
<1> QED
  BY <1>1, <1>3, <1>4, <1>5

\* The calls for a list of nodes.
LEMMA CallsIs ==
  ASSUME NEW s \in Seq(Node), NEW level \in Nat
  PROVE  /\ Calls(s, level) \in Seq(Row) /\ Len(Calls(s, level)) = Len(s)
         /\ \A i \in 1 .. Len(s) : Calls(s, level)[i] = [node |-> s[i], level |-> level]
  BY DEF Calls, Row

\* Known nodes are nodes.
LEMMA KnownNodes == MapTypeOK => Known \subseteq Node
<1> SUFFICES ASSUME MapTypeOK, NEW n \in Known PROVE n \in Node
  OBVIOUS
<1>1. PICK i \in 1 .. Len(arrived) : n \in Verified(i)
  BY DEF Known
<1>2. arrived[i].attestation \in SUBSET [pubkey : Node, signer : Node]
  <2>1. arrived[i] \in Record
    BY DEF MapTypeOK
  <2> QED
    BY <2>1 DEF Record
<1> QED
  BY <1>1, <1>2 DEF Verified, verify_attestation_cbor

\* The empty list, of whatever.
LEMMA EmptyIsSeq == Len(<<>>) = 0 /\ \A S : <<>> \in Seq(S)
  OBVIOUS

\* There is nothing at the start.
LEMMA MapStarts == MapInit => MapInv
<1> SUFFICES ASSUME MapInit PROVE MapInv
  OBVIOUS
<1>1. arrived = <<>> /\ printing = FALSE /\ todo = <<>> /\ rows = <<>>
  BY DEF MapInit
<1>2. MapTypeOK
  <2>1. arrived \in Seq(Record) /\ todo \in Seq(Row) /\ rows \in Seq(Row) /\ Len(arrived) = 0
    BY <1>1, EmptyIsSeq, Zenon
  <2>2. 1 .. Len(arrived) = {}
    BY <2>1
  <2>3. printing \in BOOLEAN
    BY <1>1
  <2> QED
    BY <2>1, <2>2, <2>3, Zenon DEF MapTypeOK
<1>3. NotBegun /\ OneRowEach /\ RowsLinked
  BY <1>1 DEF NotBegun, OneRowEach, RowsLinked
<1>4. CallsLinked /\ InnerFirst /\ NothingForgotten
  BY <1>1 DEF CallsLinked, InnerFirst, NothingForgotten
<1>5. RecordsMade /\ ListIsWhole
  BY DEF MapInit, Init, RecordsMade, ListIsWhole
<1> QED
  BY <1>2, <1>3, <1>4, <1>5 DEF MapInv

\* Records are made by the program and passed on as they are.
LEMMA RecordsKept ==
  ASSUME RecordsMade, [Next]_vars
  PROVE  /\ RecordsMade' /\ collected \subseteq collected'
         /\ \A d, e \in collected' \ collected : d = e
<1> USE DEF RecordsMade
<1> DEFINE R == collected \cup {m.record : m \in replies}
<1>1. CASE execute
  <2>1. PICK req \in requests :
          /\ executed' = executed \cup {req} /\ collected' = collected
          /\ replies' = replies \cup {answer(req)} \/ replies' = replies
    BY <1>1 DEF execute
  <2>2. R' \subseteq R \cup {node_record(req)}
    BY <2>1 DEF answer
  <2> QED
    BY <2>1, <2>2
<1>2. CASE relay_reply
  <2>1. PICK r \in relays, m \in replies :
          /\ executed' = executed /\ collected' = collected
          /\ replies' = (replies \ {m}) \cup {rewrite(r, m)}
    BY <1>2 DEF relay_reply
  <2>2. R' \subseteq R
    BY <2>1 DEF rewrite
  <2> QED
    BY <2>1, <2>2
<1>3. CASE collect
  BY <1>3 DEF collect
<1>4. CASE discovery_forward \/ relay_ends \/ deadline
  BY <1>4 DEF discovery_forward, relay_ends, deadline
<1>5. CASE lose \/ discard
  BY <1>5 DEF lose, discard
<1>6. CASE UNCHANGED vars
  BY <1>6 DEF vars
<1> QED
  BY <1>1, <1>2, <1>3, <1>4, <1>5, <1>6 DEF Next

\* Collecting adds a record to the list; there are no rows yet.
LEMMA GatherKeeps == ASSUME DiscoveryInv, DiscoveryInv', MapInv, Gather PROVE MapInv'
<1>1. /\ RecordsMade' /\ collected \subseteq collected'
      /\ \A d, e \in collected' \ collected : d = e
  BY RecordsKept DEF Gather, MapInv
<1>2. todo' = <<>> /\ rows' = <<>> /\ printing' = FALSE
  BY DEF Gather, MapInv, NotBegun, MapTypeOK
<1>3. MapTypeOK'
  <2>1. CASE arrived' = arrived
    <3>1. arrived' \in Seq(Record) /\ \A i \in 1 .. Len(arrived') : arrived'[i] \in collected'
      BY <1>1, <2>1 DEF MapInv, MapTypeOK
    <3> QED
      BY <1>2, <3>1, EmptyIsSeq, Zenon DEF MapTypeOK
  <2>2. CASE \E d \in collected' \ collected : arrived' = Append(arrived, d)
    <3>1. PICK d \in collected' \ collected : arrived' = Append(arrived, d)
      BY <2>2
    <3>2. d \in Record
      BY DEF DiscoveryInv, TypeOK
    <3>3. \A i \in 1 .. Len(arrived') : arrived'[i] \in collected'
      BY <1>1, <3>1, <3>2 DEF MapInv, MapTypeOK
    <3>4. arrived' \in Seq(Record)
      BY <3>1, <3>2 DEF MapInv, MapTypeOK
    <3> QED
      BY <1>2, <3>3, <3>4, EmptyIsSeq, Zenon DEF MapTypeOK
  <2> QED
    BY <2>1, <2>2 DEF Gather
<1>4. NotBegun' /\ OneRowEach' /\ RowsLinked' /\ CallsLinked' /\ InnerFirst' /\ NothingForgotten'
  BY <1>2 DEF NotBegun, OneRowEach, RowsLinked, CallsLinked, InnerFirst, NothingForgotten
<1>5. ListIsWhole'
  <2>1. CASE collected' = collected /\ arrived' = arrived
    BY <2>1 DEF MapInv, ListIsWhole
  <2>2. CASE \E d \in collected' \ collected : arrived' = Append(arrived, d)
    <3>1. PICK d \in collected' \ collected : arrived' = Append(arrived, d)
      BY <2>2
    <3>2. collected' \subseteq collected \cup {d}
      BY <1>1
    <3>3. /\ Len(arrived') = Len(arrived) + 1 /\ Len(arrived) \in Nat
          /\ arrived'[Len(arrived) + 1] = d /\ \A i \in 1 .. Len(arrived) : arrived'[i] = arrived[i]
      BY <3>1 DEF MapInv, MapTypeOK
    <3>4. ASSUME NEW e \in collected' PROVE \E i \in 1 .. Len(arrived') : arrived'[i] = e
      <4>1. CASE e = d
        BY <3>3, <4>1
      <4>2. CASE e # d
        <5>1. PICK i \in 1 .. Len(arrived) : arrived[i] = e
          BY <3>2, <4>2 DEF MapInv, ListIsWhole
        <5>2. i \in 1 .. Len(arrived') /\ arrived'[i] = e
          BY <3>3, <5>1
        <5> QED
          BY <5>2
      <4> QED
        BY <4>1, <4>2
    <3> QED
      BY <3>4 DEF ListIsWhole
  <2> QED
    BY <2>1, <2>2 DEF Gather
<1> QED
  BY <1>1, <1>3, <1>4, <1>5 DEF MapInv

\* While the map is made the records stay what they are.
LEMMA RecordsStay ==
  ASSUME UNCHANGED arrived
  PROVE  Known' = Known /\ roots' = roots /\ (\A n : RecordOf(n)' = RecordOf(n))
         /\ \A n : children(n)' = children(n)
<1>1. Known' = Known
  BY DEF Known, Verified
<1>2. \A n : RecordOf(n)' = RecordOf(n)
  BY DEF RecordOf, Verified
<1> QED
  BY <1>1, <1>2 DEF roots, children

\* The calls for the roots.
LEMMA PrintKeeps == ASSUME MapInv, print_network_map PROVE MapInv'
<1> USE DEF MapInv
<1>1. PICK pks \in Sorted(roots) : todo' = Calls(pks, 0)
  BY DEF print_network_map
<1>2. /\ UNCHANGED <<arrived, rows, collected, replies, executed>>
      /\ rows = <<>> /\ printing' = TRUE
  BY DEF print_network_map, NotBegun
<1>3. roots \subseteq Known /\ Known \subseteq Node /\ IsFiniteSet(roots)
  BY KnownFinite, KnownNodes DEF roots
<1>4. /\ pks \in Seq(roots) /\ Len(pks) \in Nat
      /\ \A n \in roots : \E i \in 1 .. Len(pks) : pks[i] = n
  BY <1>1, <1>3, SortedIs
<1>5. /\ todo' \in Seq(Row) /\ Len(todo') = Len(pks)
      /\ \A i \in 1 .. Len(pks) : todo'[i] = [node |-> pks[i], level |-> 0]
  <2>1. pks \in Seq(Node)
    BY <1>3, <1>4
  <2> QED
    BY <1>1, <2>1, CallsIs
<1>6. Known' = Known /\ roots' = roots /\ \A n : RecordOf(n)' = RecordOf(n)
  BY <1>2, RecordsStay
<1>7. MapTypeOK' /\ RecordsMade' /\ ListIsWhole' /\ NotBegun' /\ OneRowEach' /\ RowsLinked'
  BY <1>2, <1>5 DEF MapTypeOK, RecordsMade, ListIsWhole, NotBegun, OneRowEach, RowsLinked
<1>8. \A c \in 1 .. Len(todo') : todo'[c].node = pks[c] /\ todo'[c].level = 0 /\ pks[c] \in roots
  <2> SUFFICES ASSUME NEW c \in 1 .. Len(todo')
               PROVE  todo'[c].node = pks[c] /\ todo'[c].level = 0 /\ pks[c] \in roots
    OBVIOUS
  <2>1. c \in 1 .. Len(pks)
    BY <1>5
  <2>2. todo'[c] = [node |-> pks[c], level |-> 0]
    BY <1>5, <2>1
  <2> QED
    BY <1>4, <2>1, <2>2
<1>9. CallsLinked' /\ InnerFirst'
  BY <1>3, <1>6, <1>8 DEF CallsLinked, InnerFirst
<1>10. NothingForgotten'
  <2>1. Shown' = {}
    BY <1>2 DEF Shown
  <2>2. \A n \in roots : \E c \in 1 .. Len(todo') : todo'[c].node = n
    BY <1>4, <1>5, <1>8
  <2> QED
    BY <2>1, <2>2, <1>6 DEF NothingForgotten
<1> QED
  BY <1>7, <1>9, <1>10

\* New calls are put before the ones that remain.
LEMMA CallsBefore ==
  ASSUME NEW K \in Seq(Row), NEW t \in Seq(Row), t # <<>>, NEW u, u = K \o Tail(t)
  PROVE  /\ u \in Seq(Row) /\ Len(u) = Len(K) + Len(t) - 1
         /\ \A c \in 1 .. Len(K) : u[c] = K[c]
         /\ \A c \in 2 .. Len(t) : u[Len(K) + c - 1] = t[c]
         /\ \A c \in 1 .. Len(u) : c \in 1 .. Len(K) \/ \E d \in 2 .. Len(t) : c = Len(K) + d - 1
<1>1. Tail(t) \in Seq(Row) /\ Len(Tail(t)) = Len(t) - 1 /\ Len(t) \in Nat \ {0} /\ Len(K) \in Nat
  OBVIOUS
<1>2. u \in Seq(Row) /\ Len(u) = Len(K) + Len(t) - 1
  BY <1>1
<1>3. \A c \in 1 .. Len(K) : u[c] = K[c]
  BY <1>1
<1>4. ASSUME NEW c \in 2 .. Len(t) PROVE u[Len(K) + c - 1] = t[c]
  <2>1. Len(K) + c - 1 \in Len(K) + 1 .. Len(K) + Len(Tail(t))
    BY <1>1
  <2>2. u[Len(K) + c - 1] = Tail(t)[c - 1]
    BY <1>1, <2>1
  <2>3. Tail(t)[c - 1] = t[c]
    BY <1>1
  <2> QED
    BY <2>2, <2>3
<1>5. ASSUME NEW c \in 1 .. Len(u), c \notin 1 .. Len(K)
      PROVE  \E d \in 2 .. Len(t) : c = Len(K) + d - 1
  <2>1. c - Len(K) + 1 \in 2 .. Len(t) /\ c = Len(K) + (c - Len(K) + 1) - 1
    BY <1>1, <1>2, <1>5
  <2> QED
    BY <2>1
<1> QED
  BY <1>2, <1>3, <1>4, <1>5

\* A call for a node that has a row changes nothing else.
LEMMA SkipKeeps ==
  ASSUME MapInv, todo # <<>>, Head(todo).node \in Shown, todo' = Tail(todo),
         UNCHANGED <<rows, arrived, printing, collected, replies, executed>>
  PROVE  MapInv'
<1> USE DEF MapInv
<1>1. /\ todo' \in Seq(Row) /\ Len(todo') = Len(todo) - 1 /\ Len(todo) \in Nat \ {0}
      /\ \A c \in 1 .. Len(todo') : c + 1 \in 1 .. Len(todo) /\ todo'[c] = todo[c + 1]
  BY DEF MapTypeOK
<1>2. Known' = Known /\ roots' = roots /\ \A n : RecordOf(n)' = RecordOf(n)
  BY RecordsStay
<1>3. MapTypeOK' /\ RecordsMade' /\ ListIsWhole' /\ OneRowEach'
  BY <1>1 DEF MapTypeOK, RecordsMade, ListIsWhole, OneRowEach
<1>4. NotBegun'
  BY DEF NotBegun
<1>5. \A i, j : HangsBelow(i, j)' = HangsBelow(i, j)
  BY DEF HangsBelow
<1>6. RowsLinked'
  BY <1>2, <1>5 DEF RowsLinked, Linked
<1>7. CallsLinked'
  <2>1. \A c \in 1 .. Len(todo') : \A j : Linked(todo[c], j)' <=> Linked(todo[c + 1], j)
    BY <1>1, <1>2 DEF Linked
  <2> QED
    <3> SUFFICES ASSUME NEW c \in 1 .. Len(todo')
                 PROVE  /\ todo'[c].node \in Known
                        /\ IF todo'[c].level = 0 THEN todo'[c].node \in roots
                           ELSE \E j \in 1 .. Len(rows) :
                                  /\ Linked(todo[c], j)'
                                  /\ \A k \in j + 1 .. Len(rows) : rows[k].level > rows[j].level
      BY <1>2 DEF CallsLinked
    <3>1. c + 1 \in 1 .. Len(todo) /\ todo'[c] = todo[c + 1]
      BY <1>1
    <3> QED
      BY <2>1, <3>1 DEF CallsLinked
<1>8. InnerFirst'
  BY <1>1 DEF InnerFirst
<1>9. NothingForgotten'
  <2> SUFFICES ASSUME printing, NEW n \in Known, n \in roots \/ RecordOf(n).parent \in Shown, n \notin Shown
               PROVE  \E c \in 1 .. Len(todo') : todo'[c].node = n
    <3>1. Shown' = Shown /\ printing' = printing
      BY DEF Shown
    <3> QED
      BY <1>2, <3>1 DEF NothingForgotten
  <2>1. PICK c \in 1 .. Len(todo) : todo[c].node = n
    BY DEF NothingForgotten
  <2>2. c # 1
    BY <2>1 DEF MapTypeOK
  <2>3. c - 1 \in 1 .. Len(todo') /\ todo'[c - 1] = todo[c]
    BY <1>1, <2>2
  <2> QED
    BY <2>1, <2>3
<1> QED
  BY <1>3, <1>4, <1>6, <1>7, <1>8, <1>9

\* A call for a node that has no row, and its children.
RowAdded(kids) ==
  /\ todo # <<>> /\ Head(todo).node \in Known \ Shown
  /\ rows' = Append(rows, Head(todo))
  /\ kids \in Sorted(children(Head(todo).node) \ (Shown \cup {Head(todo).node}))
  /\ todo' = Calls(kids, Head(todo).level + 1) \o Tail(todo)
  /\ UNCHANGED <<arrived, printing, collected, replies, executed>>

\* The node gets its row below that of its parent, and its children are next.
LEMMA RowKeeps == ASSUME MapInv, NEW kids, RowAdded(kids) PROVE MapInv'
<1> USE DEF MapInv
<1> DEFINE h == todo[1]
           pk == h.node
           S == children(pk) \ (Shown \cup {pk})
           K == Calls(kids, h.level + 1)
<1>1. /\ h \in Row /\ Head(todo) = h /\ pk \in Node /\ h.level \in Nat
      /\ Len(todo) \in Nat \ {0} /\ 1 \in 1 .. Len(todo) /\ pk \in Known \ Shown
  <2>1. todo \in Seq(Row) /\ Len(todo) \in Nat \ {0} /\ Head(todo) = h /\ 1 \in 1 .. Len(todo)
    BY DEF MapTypeOK, RowAdded
  <2>2. h \in Row
    BY <2>1
  <2>3. pk \in Known \ Shown
    BY <2>1 DEF RowAdded
  <2> QED
    BY <2>1, <2>2, <2>3 DEF Row
<1> HIDE DEF h
<1>2. PICK N \in Nat : N = Len(rows) + 1
  BY DEF MapTypeOK
<1>3. /\ rows' \in Seq(Row) /\ Len(rows') = N /\ N \in Nat /\ Len(rows) \in Nat /\ rows'[N] = h
      /\ \A i \in 1 .. Len(rows) : rows'[i] = rows[i] /\ rows[i] \in Row
  BY <1>1, <1>2 DEF MapTypeOK, RowAdded
<1>4. /\ S \subseteq Known /\ S \subseteq Node /\ IsFiniteSet(S) /\ kids \in Sorted(S)
      /\ \A n \in Known : n \in S <=> RecordOf(n).parent = pk /\ n \notin Shown /\ n # pk
  BY <1>1, KnownFinite, KnownNodes DEF children, RowAdded
<1> HIDE DEF S
<1>5. /\ kids \in Seq(S) /\ Len(kids) \in Nat
      /\ \A n \in S : \E i \in 1 .. Len(kids) : kids[i] = n
  BY <1>4, SortedIs
<1>6. /\ K \in Seq(Row) /\ Len(K) = Len(kids)
      /\ \A i \in 1 .. Len(kids) : K[i] = [node |-> kids[i], level |-> h.level + 1]
  <2>1. kids \in Seq(Node) /\ h.level + 1 \in Nat
    BY <1>1, <1>4, <1>5
  <2> QED
    BY <2>1, CallsIs
<1>7. todo' = K \o Tail(todo) /\ todo \in Seq(Row) /\ todo # <<>>
  BY <1>1 DEF MapTypeOK, RowAdded
<1> HIDE DEF K
<1>8. /\ todo' \in Seq(Row) /\ Len(todo') = Len(K) + Len(todo) - 1
      /\ \A c \in 1 .. Len(K) : todo'[c] = K[c]
      /\ \A c \in 2 .. Len(todo) : todo'[Len(K) + c - 1] = todo[c]
      /\ \A c \in 1 .. Len(todo') : c \in 1 .. Len(K) \/ \E d \in 2 .. Len(todo) : c = Len(K) + d - 1
  <2>1. K \in Seq(Row) /\ todo \in Seq(Row) /\ todo # <<>>
    BY <1>6, <1>7
  <2>2. ASSUME NEW u, u = K \o Tail(todo)
        PROVE  /\ u \in Seq(Row) /\ Len(u) = Len(K) + Len(todo) - 1
               /\ \A c \in 1 .. Len(K) : u[c] = K[c]
               /\ \A c \in 2 .. Len(todo) : u[Len(K) + c - 1] = todo[c]
               /\ \A c \in 1 .. Len(u) : c \in 1 .. Len(K) \/ \E d \in 2 .. Len(todo) : c = Len(K) + d - 1
    BY <2>1, <2>2, CallsBefore, SMT
  <2> QED
    BY <1>7, <2>2, Zenon
<1>9. Known' = Known /\ roots' = roots /\ \A n : RecordOf(n)' = RecordOf(n)
  BY RecordsStay DEF RowAdded
<1>10. Shown' = Shown \cup {pk}
  <2>1. \A i \in 1 .. Len(rows) : i \in 1 .. N
    BY <1>3, <1>2
  <2>2. \A i \in 1 .. N : i \in 1 .. Len(rows) \/ i = N
    BY <1>3, <1>2
  <2>3. N \in 1 .. N
    BY <1>3, <1>2
  <2> QED
    BY <1>3, <2>1, <2>2, <2>3 DEF Shown
<1>11. MapTypeOK' /\ RecordsMade' /\ ListIsWhole'
  BY <1>3, <1>8 DEF MapTypeOK, RecordsMade, ListIsWhole, RowAdded
<1>12. NotBegun'
  BY <1>7 DEF NotBegun, RowAdded
<1>13. OneRowEach'
  <2>1. \A i \in 1 .. Len(rows) : rows'[i].node # pk
    BY <1>1, <1>3 DEF Shown
  <2> QED
    BY <1>3, <1>2, <2>1 DEF OneRowEach
<1>14. RowsLinked'
  <2> SUFFICES ASSUME NEW i \in 1 .. N
               PROVE  /\ rows'[i].node \in Known
                      /\ IF rows'[i].level = 0 THEN rows'[i].node \in roots
                         ELSE \E j \in 1 .. N : HangsBelow(i, j)' /\ Linked(rows[i], j)'
    BY <1>3, <1>9 DEF RowsLinked
  <2>1. CASE i # N
    <3>1. i \in 1 .. Len(rows) /\ rows'[i] = rows[i]
      BY <1>3, <1>2, <2>1
    <3>2. ASSUME NEW j \in 1 .. Len(rows), HangsBelow(i, j), Linked(rows[i], j)
          PROVE  j \in 1 .. N /\ HangsBelow(i, j)' /\ Linked(rows[i], j)'
      <4>1. j \in 1 .. N /\ rows'[j] = rows[j]
        BY <1>3, <1>2
      <4>2. \A k \in j + 1 .. i - 1 : rows'[k] = rows[k]
        BY <1>3, <3>1
      <4>3. HangsBelow(i, j)'
        BY <3>1, <3>2, <4>1, <4>2 DEF HangsBelow
      <4>4. Linked(rows[i], j)'
        BY <1>9, <3>1, <3>2, <4>1 DEF Linked
      <4> QED
        BY <4>1, <4>3, <4>4
    <3> QED
      BY <3>1, <3>2 DEF RowsLinked
  <2>2. CASE i = N
    <3>1. rows'[i] = h /\ h.node \in Known
      BY <1>1, <1>3, <2>2
    <3>2. CASE h.level = 0
      BY <1>1, <3>1, <3>2 DEF CallsLinked, h
    <3>3. CASE h.level # 0
      <4>1. PICK j \in 1 .. Len(rows) :
              Linked(h, j) /\ \A k \in j + 1 .. Len(rows) : rows[k].level > rows[j].level
        BY <1>1, <3>3 DEF CallsLinked, h
      <4>2. j \in 1 .. N /\ j < N /\ rows'[j] = rows[j] /\ N - 1 = Len(rows)
        BY <1>3, <1>2
      <4>3. \A k \in j + 1 .. N - 1 : rows'[k] = rows[k]
        BY <1>3, <4>2
      <4>4. HangsBelow(i, j)'
        BY <2>2, <3>1, <4>1, <4>2, <4>3 DEF HangsBelow, Linked
      <4>5. Linked(rows[i], j)'
        BY <1>9, <3>1, <4>1, <4>2 DEF Linked
      <4> QED
        BY <3>1, <3>3, <4>2, <4>4, <4>5
    <3> QED
      BY <3>2, <3>3
  <2> QED
    BY <2>1, <2>2
<1>15. ASSUME NEW c \in 1 .. Len(K)
       PROVE  /\ c \in 1 .. Len(kids) /\ kids[c] \in S /\ kids[c] \in Known
              /\ todo'[c].node = kids[c] /\ todo'[c].level = h.level + 1
  <2>1. c \in 1 .. Len(kids) /\ todo'[c] = K[c]
    BY <1>6, <1>8
  <2>2. kids[c] \in S
    BY <1>5, <2>1
  <2>3. K[c] = [node |-> kids[c], level |-> h.level + 1]
    BY <1>6, <2>1
  <2> QED
    BY <1>4, <2>1, <2>2, <2>3
<1>16. CallsLinked'
  <2> SUFFICES ASSUME NEW c \in 1 .. Len(todo')
               PROVE  /\ todo'[c].node \in Known
                      /\ IF todo'[c].level = 0 THEN todo'[c].node \in roots
                         ELSE \E j \in 1 .. N :
                                /\ Linked(todo[c], j)'
                                /\ \A k \in j + 1 .. N : rows'[k].level > rows'[j].level
    BY <1>3, <1>9 DEF CallsLinked
  <2>1. CASE c \in 1 .. Len(K)
    <3>1. /\ kids[c] \in S /\ kids[c] \in Known
          /\ todo'[c].node = kids[c] /\ todo'[c].level = h.level + 1
      BY <1>15, <2>1
    <3>2. N \in 1 .. N /\ \A k \in N + 1 .. N : FALSE
      BY <1>3, <1>2
    <3>3. RecordOf(kids[c]).parent = pk
      BY <1>4, <3>1
    <3>4. Linked(todo[c], N)'
      BY <1>1, <1>3, <1>9, <3>1, <3>3 DEF Linked
    <3>5. todo'[c].level # 0
      BY <1>1, <3>1
    <3> QED
      BY <3>1, <3>2, <3>4, <3>5
  <2>2. CASE c \notin 1 .. Len(K)
    <3>1. PICK d \in 2 .. Len(todo) : c = Len(K) + d - 1
      BY <1>8, <2>2
    <3>2. todo'[c] = todo[d] /\ d \in 1 .. Len(todo) /\ 1 < d
      BY <1>8, <3>1
    <3>3. CASE todo[d].level = 0
      BY <3>2, <3>3 DEF CallsLinked
    <3>4. CASE todo[d].level # 0
      <4>1. PICK j \in 1 .. Len(rows) :
              Linked(todo[d], j) /\ \A k \in j + 1 .. Len(rows) : rows[k].level > rows[j].level
        BY <3>2, <3>4 DEF CallsLinked
      <4>2. j \in 1 .. N /\ rows'[j] = rows[j]
        BY <1>3, <1>2
      <4>3. Linked(todo[c], j)'
        BY <1>9, <3>2, <4>1, <4>2 DEF Linked
      <4>4. h.level > rows[j].level
        <5>1. h.level >= todo[d].level
          BY <1>1, <3>2 DEF InnerFirst, h
        <5>2. todo[d] \in Row
          BY <1>7, <3>2
        <5>3. rows[j].level = todo[d].level - 1 /\ todo[d].level \in Nat
          BY <4>1, <5>2 DEF Linked, Row
        <5> QED
          BY <1>1, <5>1, <5>3
      <4>5. ASSUME NEW k \in j + 1 .. N PROVE rows'[k].level > rows'[j].level
        <5>1. k = N \/ k \in j + 1 .. Len(rows)
          BY <1>3, <1>2
        <5>2. k \in j + 1 .. Len(rows) => rows'[k] = rows[k]
          BY <1>3
        <5> QED
          BY <1>3, <4>1, <4>2, <4>4, <5>1, <5>2
      <4>6. todo'[c].node \in Known
        BY <3>2 DEF CallsLinked
      <4> QED
        BY <3>2, <3>4, <4>2, <4>3, <4>5, <4>6
    <3> QED
      BY <3>3, <3>4
  <2> QED
    BY <2>1, <2>2
<1>17. InnerFirst'
  <2> SUFFICES ASSUME NEW c \in 1 .. Len(todo'), NEW d \in 1 .. Len(todo'), c < d
               PROVE  todo'[c].level >= todo'[d].level
    BY DEF InnerFirst
  <2>1. CASE c \in 1 .. Len(K) /\ d \in 1 .. Len(K)
    <3>1. todo'[c].level = h.level + 1 /\ todo'[d].level = h.level + 1
      BY <1>15, <2>1
    <3> QED
      BY <1>1, <3>1
  <2>2. CASE d \notin 1 .. Len(K)
    <3>1. PICK e \in 2 .. Len(todo) : d = Len(K) + e - 1
      BY <1>8, <2>2
    <3>2. todo'[d] = todo[e] /\ e \in 1 .. Len(todo) /\ 1 < e /\ todo[e].level \in Nat
      <4>1. todo'[d] = todo[e] /\ e \in 1 .. Len(todo) /\ 1 < e
        BY <1>1, <1>8, <3>1
      <4>2. todo[e] \in Row
        BY <1>7, <4>1
      <4> QED
        BY <4>1, <4>2 DEF Row
    <3>3. CASE c \in 1 .. Len(K)
      <4>1. todo'[c].level = h.level + 1
        BY <1>15, <3>3
      <4>2. h.level >= todo[e].level
        BY <1>1, <3>2 DEF InnerFirst, h
      <4> QED
        BY <1>1, <3>2, <4>1, <4>2
    <3>4. CASE c \notin 1 .. Len(K)
      <4>1. PICK b \in 2 .. Len(todo) : c = Len(K) + b - 1
        BY <1>8, <3>4
      <4>2. todo'[c] = todo[b] /\ b \in 1 .. Len(todo) /\ b < e
        BY <1>1, <1>6, <1>8, <3>1, <4>1
      <4> QED
        BY <3>2, <4>2 DEF InnerFirst
    <3> QED
      BY <3>3, <3>4
  <2>3. d \in 1 .. Len(K) => c \in 1 .. Len(K)
    BY <1>6
  <2> QED
    BY <2>1, <2>2, <2>3
<1>18. NothingForgotten'
  <2> SUFFICES ASSUME printing, NEW n \in Known, n \in roots \/ RecordOf(n).parent \in Shown \cup {pk},
                      n \notin Shown, n # pk
               PROVE  \E c \in 1 .. Len(todo') : todo'[c].node = n
    <3>1. printing' = printing
      BY DEF RowAdded
    <3> QED
      BY <1>9, <1>10, <3>1 DEF NothingForgotten
  <2>1. CASE n \in S
    <3>1. PICK c \in 1 .. Len(kids) : kids[c] = n
      BY <1>5, <2>1
    <3>2. c \in 1 .. Len(todo') /\ c \in 1 .. Len(K)
      BY <1>1, <1>6, <1>8
    <3> QED
      BY <1>15, <3>1, <3>2
  <2>2. CASE n \notin S
    <3>1. n \in roots \/ RecordOf(n).parent \in Shown
      BY <1>4, <2>2
    <3>2. PICK c \in 1 .. Len(todo) : todo[c].node = n
      BY <3>1 DEF NothingForgotten
    <3>3. c \in 2 .. Len(todo)
      BY <1>1, <3>2 DEF h
    <3>4. Len(K) + c - 1 \in 1 .. Len(todo') /\ todo'[Len(K) + c - 1] = todo[c]
      BY <1>1, <1>6, <1>8, <3>3
    <3> QED
      BY <3>2, <3>4
  <2> QED
    BY <2>1, <2>2
<1> QED
  BY <1>11, <1>12, <1>13, <1>14, <1>16, <1>17, <1>18

\* One step of netmap.
LEMMA MapNextKeeps == DiscoveryInv /\ DiscoveryInv' /\ MapInv /\ [MapNext]_mapVars => MapInv'
<1> SUFFICES ASSUME DiscoveryInv, DiscoveryInv', MapInv, [MapNext]_mapVars PROVE MapInv'
  OBVIOUS
<1>1. CASE Gather
  BY <1>1, GatherKeeps
<1>2. CASE print_network_map
  BY <1>2, PrintKeeps
<1>3. CASE collect_rows
  <2>1. /\ UNCHANGED <<arrived, printing, collected, replies, executed>> /\ todo # <<>>
        /\ Head(todo).node \in Known
    <3>1. todo # <<>> /\ UNCHANGED <<arrived, printing, collected, replies, executed>>
      BY <1>3 DEF collect_rows
    <3>2. 1 \in 1 .. Len(todo) /\ Head(todo) = todo[1]
      BY <3>1 DEF MapInv, MapTypeOK
    <3> QED
      BY <3>1, <3>2 DEF MapInv, CallsLinked
  <2>2. CASE Head(todo).node \in Shown
    <3>1. todo' = Tail(todo) /\ UNCHANGED rows
      BY <1>3, <2>2 DEF collect_rows
    <3> QED
      BY <2>1, <2>2, <3>1, SkipKeeps
  <2>3. CASE Head(todo).node \notin Shown
    <3>1. \E kids : RowAdded(kids)
      BY <1>3, <2>1, <2>3 DEF collect_rows, RowAdded
    <3> QED
      BY <3>1, RowKeeps
  <2> QED
    BY <2>2, <2>3
<1>4. CASE UNCHANGED mapVars
  <2> USE <1>4 DEF mapVars
  <2>1. Known' = Known /\ roots' = roots /\ \A n : RecordOf(n)' = RecordOf(n)
    BY RecordsStay
  <2>2. MapTypeOK' /\ RecordsMade' /\ ListIsWhole' /\ NotBegun' /\ OneRowEach' /\ InnerFirst'
    BY DEF MapInv, MapTypeOK, RecordsMade, ListIsWhole, NotBegun, OneRowEach, InnerFirst
  <2>3. Shown' = Shown /\ \A i, j : HangsBelow(i, j)' = HangsBelow(i, j)
    BY DEF Shown, HangsBelow
  <2>4. RowsLinked' /\ CallsLinked'
    BY <2>1, <2>3 DEF MapInv, RowsLinked, CallsLinked, Linked
  <2>5. NothingForgotten'
    BY <2>1, <2>3 DEF MapInv, NothingForgotten
  <2> QED
    BY <2>2, <2>4, <2>5 DEF MapInv
<1> QED
  BY <1>1, <1>2, <1>3, <1>4 DEF MapNext

\* The invariants of the discovery and of the map hold throughout.
LEMMA MapInvariant == MapSpec => [](DiscoveryInv /\ MapInv)
<1>1. MapSpec => []DiscoveryInv
  BY MapIsDiscovery, DiscoveryInvariant, PTL
<1> QED
  BY <1>1, MapStarts, MapNextKeeps, PTL DEF MapSpec

\* Every variable of the map has its type: print_network_map and collect_rows.
THEOREM MapTyped == MapSpec => []MapTypeOK
<1>1. MapInv => MapTypeOK
  BY DEF MapInv
<1> QED
  BY <1>1, MapInvariant, PTL

\* Whatever records came in, in whatever order and with whatever parents, printed of collect_rows
\* keeps every node to one row.
THEOREM RowsUnique == MapSpec => []OneRowEach
<1>1. MapInv => OneRowEach
  BY DEF MapInv
<1> QED
  BY <1>1, MapInvariant, PTL

\* The tree that collect_rows draws tells who asked whom: each row hangs below the row of a node
\* that really asked, and rows at the top are of nodes asked under the origin's key or by a node
\* not heard of.
THEOREM MapIsTrue == MapSpec => []TreeIsTrue
<1>1. ASSUME DiscoveryInv, MapInv PROVE TreeIsTrue
  <2> SUFFICES ASSUME NEW i \in 1 .. Len(rows)
               PROVE  \E req \in executed :
                        /\ Target(req.path) = rows[i].node
                        /\ IF rows[i].level = 0 THEN req.source = Origin \/ req.source \notin Known
                           ELSE \E j \in 1 .. Len(rows) : HangsBelow(i, j) /\ req.source = rows[j].node
    BY DEF TreeIsTrue
  <2> DEFINE n == rows[i].node
  <2>1. /\ n \in Known
        /\ IF rows[i].level = 0 THEN n \in roots
           ELSE \E j \in 1 .. Len(rows) : HangsBelow(i, j) /\ Linked(rows[i], j)
    BY <1>1 DEF MapInv, RowsLinked
  <2>2. PICK req \in executed : RecordOf(n) = node_record(req) /\ Target(req.path) = n
    BY <1>1, <2>1, RecordIs DEF MapInv
  <2>3. RecordOf(n).parent = req.source
    BY <2>2 DEF node_record, caller_pubkey
  <2>4. CASE rows[i].level = 0
    BY <2>1, <2>2, <2>3, <2>4 DEF roots
  <2>5. CASE rows[i].level # 0
    BY <2>1, <2>2, <2>3, <2>5 DEF Linked
  <2> QED
    BY <2>4, <2>5
<1> QED
  BY <1>1, MapInvariant, PTL

\* When collect_rows has been called for all roots, a node without a row is one whose parent has
\* none either: the tree loses cycles of parents and what hangs below them, nothing else.
THEOREM OnlyCyclesMissing == MapSpec => []MissingOnlyInCycles
<1>1. MapInv => MissingOnlyInCycles
  <2> SUFFICES ASSUME MapInv, finished, NEW n \in Known \ Shown
               PROVE  RecordOf(n).parent \in Known \ Shown
    BY DEF MissingOnlyInCycles
  <2>1. printing /\ \A c \in 1 .. Len(todo) : FALSE
    BY DEF finished
  <2>2. n \notin roots /\ RecordOf(n).parent \notin Shown
    BY <2>1 DEF MapInv, NothingForgotten
  <2> QED
    BY <2>2 DEF roots
<1> QED
  BY <1>1, MapInvariant, PTL

\* Where the first records name no cycle of parents, collect_rows reaches every node that answered.
\* A missing node of least rank would have a parent of lower rank that is missing too.
THEOREM AllShown == MapSpec => []AllKnownShown
<1>1. MapInv /\ MissingOnlyInCycles => AllKnownShown
  <2> SUFFICES ASSUME MapInv, MissingOnlyInCycles, finished, NoCycle PROVE Shown = Known
    BY DEF AllKnownShown
  <2>1. Shown \subseteq Known
    BY DEF MapInv, RowsLinked, Shown
  <2>2. SUFFICES ASSUME Known \ Shown # {} PROVE FALSE
    BY <2>1
  <2>3. PICK rank \in [Known -> Nat] :
          \A n \in Known : RecordOf(n).parent \in Known \ {Origin} => rank[RecordOf(n).parent] < rank[n]
    BY DEF NoCycle
  <2> DEFINE T == {rank[n] : n \in Known \ Shown}
  <2>4. T \subseteq Nat /\ T # {}
    BY <2>2
  <2>5. PICK x \in T : \A y \in T : x <= y
    BY <2>4, LeastOfNat
  <2>6. PICK n \in Known \ Shown : x = rank[n]
    BY <2>5
  <2>7. RecordOf(n).parent \in Known \ Shown
    BY DEF MissingOnlyInCycles
  <2>8. n \notin roots
    <3>1. printing /\ \A c \in 1 .. Len(todo) : FALSE
      BY DEF finished
    <3> QED
      BY <3>1 DEF MapInv, NothingForgotten
  <2>9. RecordOf(n).parent # Origin
    BY <2>8 DEF roots
  <2>10. rank[RecordOf(n).parent] < rank[n] /\ rank[RecordOf(n).parent] \in T
    BY <2>3, <2>7, <2>9
  <2> QED
    BY <2>4, <2>5, <2>6, <2>10
<1> QED
  BY <1>1, MapInvariant, OnlyCyclesMissing, PTL

\* From the sends of netmap to its map: if nothing is lost or late, the nodes that
\* print_network_map makes the map of are those that the depth policy reaches and that can sign.
THEOREM MapKnowsReachable ==
  ASSUME AllPinned, UNTRUSTED_FORWARD_DEPTH <= TRUSTED_FORWARD_DEPTH PROVE MapSpec => []KnowsReachable
<1>1. MapInv /\ Complete => KnowsReachable
  <2> SUFFICES ASSUME MapInv, {Target(d.path) : d \in collected} = Reachable
               PROVE  Known = Reachable \cap Keyed
    BY DEF Complete, KnowsReachable
  <2>1. ASSUME NEW i \in 1 .. Len(arrived)
        PROVE  Verified(i) = {Target(arrived[i].path)} \cap Keyed
    <3>1. PICK req \in executed : arrived[i] = node_record(req)
      BY DEF MapInv, MapTypeOK, RecordsMade
    <3>2. /\ arrived[i].attestation = signed_attestation(Target(req.path))
          /\ arrived[i].path = req.path
      BY <3>1 DEF node_record
    <3> DEFINE t == Target(req.path)
    <3>3. CASE t \in Keyed
      <4>1. PICK r : r = [pubkey |-> t, signer |-> t]
        OBVIOUS
      <4>2. r.pubkey = t /\ r.signer = t /\ arrived[i].attestation = {r}
        BY <3>2, <3>3, <4>1 DEF signed_attestation
      <4>3. {b \in {r} : b.signer = b.pubkey} = {r}
        BY <4>2
      <4>4. Verified(i) = {t}
        BY <4>2, <4>3, Zenon DEF Verified, verify_attestation_cbor
      <4> QED
        BY <3>2, <3>3, <4>4
    <3>4. CASE t \notin Keyed
      <4>1. Verified(i) = {}
        BY <3>2, <3>4 DEF Verified, verify_attestation_cbor, signed_attestation
      <4> QED
        BY <3>2, <3>4, <4>1
    <3> QED
      BY <3>3, <3>4
  <2>2. ASSUME NEW n \in Known PROVE n \in Reachable \cap Keyed
    <3>1. PICK i \in 1 .. Len(arrived) : n \in Verified(i)
      BY DEF Known
    <3>2. arrived[i] \in collected
      BY DEF MapInv, MapTypeOK
    <3>3. n = Target(arrived[i].path) /\ n \in Keyed
      BY <2>1, <3>1
    <3> QED
      BY <3>2, <3>3
  <2>3. ASSUME NEW n \in Reachable \cap Keyed PROVE n \in Known
    <3>1. PICK d \in collected : n = Target(d.path)
      OBVIOUS
    <3>2. PICK i \in 1 .. Len(arrived) : arrived[i] = d
      BY DEF MapInv, ListIsWhole
    <3>3. n \in Verified(i)
      BY <2>1, <3>1, <3>2
    <3> QED
      BY <3>3 DEF Known
  <2> QED
    BY <2>2, <2>3
<1> QED
  BY <1>1, MapInvariant, MapIsDiscovery, FindsExactlyReachable, PTL
=============================================================================
