------------------------------- MODULE Netmap -------------------------------
(***************************************************************************)
(* The map that netmap prints when its window has ended: print_network_map *)
(* and collect_rows of src/src/command/netmap.rs, on the records that a    *)
(* discovery brought (module Discovery), in the order they came in.        *)
(*                                                                         *)
(* A row is a node and its level in the tree.  collect_rows calls itself   *)
(* for each child in turn; here a step is the start of one call, and todo  *)
(* has the calls that are still to be made, the next one first.  Left out: *)
(* addresses, marks, the time window of an attestation, which only warns,  *)
(* and the drawing itself.                                                 *)
(***************************************************************************)
EXTENDS Discovery, FiniteSets, Functions

CONSTANT
  Hostname      \* Hostname[n]: the place of n's hostname in the alphabet; two nodes may share one

ASSUME HostnameAssumption == Hostname \in [Node -> Nat]

VARIABLES
  arrived,      \* what collect_until pushed: the records in the order they came in
  printing,     \* has print_network_map begun
  todo,         \* the calls of collect_rows to be made: the node and its level
  rows          \* the rows collected

mapVars == <<timely, requests, forwarding, relays, replies, collecting, collected, executed,
             arrived, printing, todo, rows>>

-----------------------------------------------------------------------------
(* Assembling the map.                                                     *)

\* The key whose signature an attestation carries; an empty attestation, or one signed with another
\* key than it names, gives none.
verify_attestation_cbor(attestation) == {a.pubkey : a \in {b \in attestation : b.signer = b.pubkey}}

\* The nodes that the i-th record is a verified record of: one or none.
Verified(i) == verify_attestation_cbor(arrived[i].attestation)

\* nodes: the first verified record of each node.
Known == UNION {Verified(i) : i \in 1 .. Len(arrived)}
RecordOf(n) ==
  arrived[CHOOSE i \in 1 .. Len(arrived) :
            n \in Verified(i) /\ \A j \in 1 .. Len(arrived) : n \in Verified(j) => i <= j]

\* Nodes by hostname; those that share one come in any order, that of a hash map.
Sorted(S) ==
  {s \in [1 .. Cardinality(S) -> S] :
     /\ Range(s) = S
     /\ \A i, j \in 1 .. Cardinality(S) : i < j => Hostname[s[i]] <= Hostname[s[j]]}

children(pk) == {n \in Known : RecordOf(n).parent = pk}

\* Seeded fault.
RootsOfOrigin == {n \in Known : RecordOf(n).parent = Origin}

roots == {n \in Known : RecordOf(n).parent = Origin \/ RecordOf(n).parent \notin Known}

\* printed: the nodes that have a row.
Shown == {rows[i].node : i \in 1 .. Len(rows)}

Calls(s, level) == [i \in 1 .. Len(s) |-> [node |-> s[i], level |-> level]]

\* Seeded faults.
RowsAgain ==
  /\ todo # <<>> /\ rows' = Append(rows, Head(todo))
  /\ \E kids \in Sorted(children(Head(todo).node) \ (Shown \cup {Head(todo).node})) :
       todo' = Calls(kids, Head(todo).level + 1) \o Tail(todo)
  /\ UNCHANGED <<timely, requests, forwarding, relays, replies, collecting, collected, executed, arrived, printing>>
KidsLast ==
  /\ todo # <<>>
  /\ \/ Head(todo).node \in Shown /\ todo' = Tail(todo) /\ UNCHANGED rows
     \/ /\ Head(todo).node \notin Shown /\ rows' = Append(rows, Head(todo))
        /\ \E kids \in Sorted(children(Head(todo).node) \ (Shown \cup {Head(todo).node})) :
             todo' = Tail(todo) \o Calls(kids, Head(todo).level + 1)
  /\ UNCHANGED <<timely, requests, forwarding, relays, replies, collecting, collected, executed, arrived, printing>>

\* One call: a node without a record or with a row is left out; otherwise it gets a row, and its
\* children without one are next.
collect_rows ==
  /\ todo # <<>>
  /\ LET pk == Head(todo).node IN
     \/ /\ pk \notin Known \/ pk \in Shown
        /\ todo' = Tail(todo)
        /\ UNCHANGED rows
     \/ /\ pk \in Known \ Shown
        /\ rows' = Append(rows, Head(todo))
        /\ \E kids \in Sorted(children(pk) \ (Shown \cup {pk})) :
             todo' = Calls(kids, Head(todo).level + 1) \o Tail(todo)
  /\ UNCHANGED <<timely, requests, forwarding, relays, replies, collecting, collected, executed,
                 arrived, printing>>

\* The window has ended: collect_rows is called for each root.
print_network_map ==
  /\ ~collecting /\ ~printing
  /\ printing' = TRUE
  /\ \E pks \in Sorted(roots) : todo' = Calls(pks, 0)
  /\ UNCHANGED <<timely, requests, forwarding, relays, replies, collecting, collected, executed,
                 arrived, rows>>

finished == printing /\ todo = <<>>

-----------------------------------------------------------------------------
MapInit == Init /\ arrived = <<>> /\ printing = FALSE /\ todo = <<>> /\ rows = <<>>

\* The records go into the list as they are collected.  What the daemons still do after netmap has
\* begun to print its map does not concern it.
Gather ==
  /\ ~printing
  /\ Next
  /\ \/ collected' = collected /\ UNCHANGED arrived
     \/ \E d \in collected' \ collected : arrived' = Append(arrived, d)
  /\ UNCHANGED <<printing, todo, rows>>

MapNext == Gather \/ print_network_map \/ collect_rows

MapSpec == MapInit /\ [][MapNext]_mapVars

-----------------------------------------------------------------------------
(* Properties                                                              *)

Row == [node : Node, level : Nat]

\* Every variable has its type; the list has what has been collected.
MapTypeOK ==
  /\ arrived \in Seq(Record) /\ \A i \in 1 .. Len(arrived) : arrived[i] \in collected
  /\ printing \in BOOLEAN
  /\ todo \in Seq(Row) /\ rows \in Seq(Row)

\* Row i hangs below row j: the last one before it that is a level higher.
HangsBelow(i, j) ==
  /\ j < i /\ rows[j].level = rows[i].level - 1
  /\ \A k \in j + 1 .. i - 1 : rows[k].level > rows[j].level

\* A node that answered on several paths has one row, also if the origin's own daemon, whose key is
\* that of the root, answered too.
OneRowEach == \A i, j \in 1 .. Len(rows) : rows[i].node = rows[j].node => i = j

\* The tree tells the truth: each row below another one is of a node that the other one really
\* asked, and each row at the top of one asked under the origin's key or by a node not heard of.
TreeIsTrue ==
  \A i \in 1 .. Len(rows) : \E req \in executed :
    /\ Target(req.path) = rows[i].node
    /\ IF rows[i].level = 0 THEN req.source = Origin \/ req.source \notin Known
       ELSE \E j \in 1 .. Len(rows) : HangsBelow(i, j) /\ req.source = rows[j].node

\* A node that answered is missing from the map only if the one named as its parent is missing too:
\* what is lost is a cycle of parents, and what hangs below it, never a single branch.
MissingOnlyInCycles ==
  finished => \A n \in Known \ Shown : RecordOf(n).parent \in Known \ Shown

\* Where the first records name no cycle of parents, every node that answered has its row.
NoCycle ==
  \E rank \in [Known -> Nat] :
    \A n \in Known :
      RecordOf(n).parent \in Known \ {Origin} => rank[RecordOf(n).parent] < rank[n]
AllKnownShown == (finished /\ NoCycle) => Shown = Known

\* If nothing is lost or late, the nodes that the map is made of are those that the depth policy
\* reaches and that can sign.
KnowsReachable == (timely /\ ~collecting) => Known = Reachable \cap Keyed

-----------------------------------------------------------------------------
(* The inductive invariant behind these properties.                        *)

\* A record is the one that the program made at a node that ran it.
RecordsMade ==
  \A d \in collected \cup {m.record : m \in replies} : \E req \in executed : d = node_record(req)

\* The list leaves out nothing that was collected.
ListIsWhole == \A d \in collected : \E i \in 1 .. Len(arrived) : arrived[i] = d

\* Before the map is begun there are no rows.
NotBegun == printing \/ (todo = <<>> /\ rows = <<>>)

\* The row above each row is of the node's parent, and those at the top are of roots.
Linked(c, j) == rows[j].level = c.level - 1 /\ RecordOf(c.node).parent = rows[j].node
RowsLinked ==
  \A i \in 1 .. Len(rows) :
    /\ rows[i].node \in Known
    /\ IF rows[i].level = 0 THEN rows[i].node \in roots
       ELSE \E j \in 1 .. Len(rows) : HangsBelow(i, j) /\ Linked(rows[i], j)

\* The same for a call that is to be made: its parent has a row, and nothing has been put next to or
\* above that row since.
CallsLinked ==
  \A c \in 1 .. Len(todo) :
    /\ todo[c].node \in Known
    /\ IF todo[c].level = 0 THEN todo[c].node \in roots
       ELSE \E j \in 1 .. Len(rows) :
              /\ Linked(todo[c], j)
              /\ \A k \in j + 1 .. Len(rows) : rows[k].level > rows[j].level

\* The calls of inner levels come first.
InnerFirst == \A c, d \in 1 .. Len(todo) : c < d => todo[c].level >= todo[d].level

\* A root, and a child of a node with a row, has a row or will be called for.
NothingForgotten ==
  printing =>
    \A n \in Known :
      n \in roots \/ RecordOf(n).parent \in Shown
        => n \in Shown \/ \E c \in 1 .. Len(todo) : todo[c].node = n

MapInv ==
  /\ MapTypeOK /\ RecordsMade /\ ListIsWhole /\ NotBegun
  /\ OneRowEach /\ RowsLinked /\ CallsLinked /\ InnerFirst /\ NothingForgotten
=============================================================================
