------------------------------ MODULE ChatFeed ------------------------------
(***************************************************************************)
(* A chat message on its way from the senders' terminals to this node's    *)
(* transcript:                                                             *)
(*                                                                         *)
(*   host::messages_send  ->  one copy per interface and peer on UDP  ->   *)
(*   serve_group (verify, note_peer, record)  ->  MessageStore  ->         *)
(*   host::messages_read  ->  poll_messages of example-programs/chat.c     *)
(*                                                                         *)
(* UDP may lose and reorder copies and every copy that arrives goes        *)
(* through the whole handler.  A handler run is one step: its checks read  *)
(* only the datagram, and what it changes is one map insert (peers) and    *)
(* one push under the store's mutex.  A poll is one step as well: it       *)
(* takes a snapshot of the store under the mutex and works on that.        *)
(***************************************************************************)
EXTENDS MessageStore, FiniteSets, FiniteSetsExt

CONSTANTS
  Traffic,     \* the signed messages others send to this node, see TrafficAssumption
  Copies,      \* copies of a message put on the network: interfaces + unicast peers
  GuestPush,   \* what programs on this node push through host::messages_push
  BodySize,    \* encoded size of a message record carrying the body
  ReadBuf      \* size of the reader's buffer (rbuf of chat.c, 16384)

ASSUME TrafficAssumption ==
  /\ Traffic \subseteq [source : Pubkey, id : MsgId, body : Body, self_ok : BOOLEAN, payload_ok : BOOLEAN]
  /\ GuestPush \subseteq [source : Pubkey, id : MsgId \cup {NoId}, body : Body]
  /\ Copies \in Nat \ {0}
ASSUME SizeAssumption == BodySize \in [Body -> Nat \ {0}] /\ ReadBuf \in Nat

VARIABLES
  unsent,      \* messages of Traffic not sent yet
  inflight,    \* copies of each message still on the network
  peers,       \* identities in the executor's peer registry, verified or not
  after,       \* the reader's high-water sequence number
  transcript,  \* messages appended to the transcript, oldest first
  log          \* history: every message ever stored, at the index of its number

vars == <<next_seq, msgs, seen, seen_order, unsent, inflight, peers, after, transcript, log>>

-----------------------------------------------------------------------------
(* Reading: encode_messages_cbor and poll_messages.                        *)

\* Size of the CBOR array of the first n messages of s.
EncodedSize(s, n) ==
  LET size[k \in 0 .. n] == IF k = 0 THEN 1 ELSE size[k - 1] + BodySize[s[k].body]
  IN  size[n]

\* Seeded faults.
NewestThatFit(s) ==
  LET n == Max({0} \cup {k \in 1 .. Len(s) : EncodedSize(s, k) <= ReadBuf})
  IN  SubSeq(s, Len(s) - n + 1, Len(s))
VerifiesIdentityOnly(d) == d.self_ok
FitsStrictly(s) ==
  LET n == Max({0} \cup {k \in 1 .. Len(s) : EncodedSize(s, k) < ReadBuf})
  IN  SubSeq(s, 1, n)

\* The longest run of oldest messages that fits the reader's buffer; none if the first does not fit.
encode_messages_cbor(s) ==
  LET n == Max({0} \cup {k \in 1 .. Len(s) : EncodedSize(s, k) <= ReadBuf})
  IN  SubSeq(s, 1, n)

-----------------------------------------------------------------------------
\* Extend the history of stored messages by what the step stored.
Logged == log' = IF next_seq' = next_seq THEN log ELSE Append(log, msgs'[Len(msgs')])

\* A copy on every interface and one to every peer; UDP loses all but n of them.
broadcast_bytes_to_fabric(d) ==
  \E n \in 0 .. Copies : inflight' = [inflight EXCEPT ![d] = n]

\* A user presses Enter elsewhere: messages_send mints a fresh id and signs, and the drain task of
\* that node broadcasts what it queued.
messages_send(d) ==
  /\ d \in unsent
  /\ unsent' = unsent \ {d}
  /\ broadcast_bytes_to_fabric(d)
  /\ UNCHANGED <<next_seq, msgs, seen, seen_order, peers, after, transcript, log>>

\* The two signatures: of the identity over itself, and of its key over id and body.
check_self_signature(d) == d.self_ok
verify_payload(d) == d.payload_ok
Verifies(d) == check_self_signature(d) /\ verify_payload(d)

note_peer(pk) == peers' = peers \cup {pk}

record_fabric_message(d) == push(d.source, d.id, d.body) /\ Logged

\* The SignedFabricMessage arm of serve_group.
Receive(d) ==
  /\ inflight[d] > 0
  /\ inflight' = [inflight EXCEPT ![d] = @ - 1]
  /\ IF Verifies(d)
     THEN note_peer(d.source) /\ record_fabric_message(d)
     ELSE UNCHANGED <<next_seq, msgs, seen, seen_order, peers, log>>
  /\ UNCHANGED <<unsent, after, transcript>>

\* The ExecuteRequest arm of serve_group: it notes whoever the request names as its source, whatever
\* its signatures say.  Module Executor has the rest of the arm.
ExecuteRequest(pk) ==
  /\ note_peer(pk)
  /\ UNCHANGED <<next_seq, msgs, seen, seen_order, unsent, inflight, after, transcript, log>>

\* A program running on this node calls host::messages_push.
messages_push(g) ==
  /\ push(g.source, g.id, g.body)
  /\ Logged
  /\ UNCHANGED <<unsent, inflight, peers, after, transcript>>

messages_read(after_seq) == encode_messages_cbor(read_after(after_seq))

\* Read what is above the high-water mark, append a line for each message, raise the mark.
poll_messages ==
  \E batch \in {messages_read(after)} :
    /\ transcript' = transcript \o batch
    /\ after' = Max({after} \cup {batch[i].seq : i \in 1 .. Len(batch)})
    /\ UNCHANGED <<next_seq, msgs, seen, seen_order, unsent, inflight, peers, log>>

-----------------------------------------------------------------------------
FeedInit ==
  /\ Init
  /\ unsent = Traffic
  /\ inflight = [d \in Traffic |-> 0]
  /\ peers = {}
  /\ after = 0
  /\ transcript = <<>>
  /\ log = <<>>

FeedNext ==
  \/ \E d \in Traffic : messages_send(d) \/ Receive(d)
  \/ \E pk \in Pubkey : ExecuteRequest(pk)
  \/ \E g \in GuestPush : messages_push(g)
  \/ poll_messages

\* ui_loop polls at least every 120 ms while it runs.
FeedSpec == FeedInit /\ [][FeedNext]_vars /\ WF_vars(poll_messages)

-----------------------------------------------------------------------------
(* Properties                                                              *)

\* Types of the variables around the store.
FeedTypeOK ==
  /\ unsent \subseteq Traffic
  /\ inflight \in [Traffic -> 0 .. Copies]
  /\ peers \subseteq Pubkey
  /\ after \in Nat
  /\ transcript \in Seq(Message)
  /\ log \in Seq(Message)

\* The transcript shows messages in the order this node accepted them and none of them twice,
\* however polls, evictions and deliveries interleave.
TranscriptInOrder ==
  \A i, j \in 1 .. Len(transcript) : i < j => transcript[i].seq < transcript[j].seq

\* The stored messages between two entries of the log that carry an id, and so take up a place in
\* the dedup memory.
KeyedBetween(i, j) == {k \in i + 1 .. j - 1 : log[k].id # NoId}

\* push accepts a second copy of a message only after SeenCap other keyed messages: the dedup
\* memory really is SeenCap deep, and what programs push without an id takes nothing from it.
RepeatOnlyAfterSeenCap ==
  \A i, j \in 1 .. Len(log) :
    (i < j /\ log[i].id # NoId /\ log[i].id = log[j].id /\ log[i].from_pubkey = log[j].from_pubkey)
      => Cardinality(KeyedBetween(i, j)) >= SeenCap

\* No valid message is mistaken for a copy of another one: once the handler is done with it, it has
\* been stored, now or before, also when two senders choose the same id.
HeardIsStored ==
  [][\A d \in Traffic : Verifies(d) /\ inflight'[d] < inflight[d] =>
       \E i \in 1 .. Len(log') : log'[i].from_pubkey = d.source /\ log'[i].id = d.id]_vars

\* A body enters the transcript only with a message whose two signatures verified or through a
\* program already running here.
OnlyVerified ==
  \A i \in 1 .. Len(transcript) :
    \E d \in {e \in Traffic : e.self_ok /\ e.payload_ok} \cup GuestPush :
      d.source = transcript[i].from_pubkey /\ d.id = transcript[i].id /\ d.body = transcript[i].body

\* A poll that raises the high-water mark over a message the store still holds has shown it: the
\* reply that is cut to the buffer never cuts a message out of the middle or the front.
NothingSkipped ==
  [][\A i \in 1 .. Len(msgs) : after < msgs[i].seq /\ msgs[i].seq <= after' =>
       \E j \in 1 .. Len(transcript') : transcript'[j] = msgs[i]]_vars

\* While the UI polls, the reader catches up with every stored message or finds it evicted ("the
\* reader advances its high-water seq and gets the rest next poll").
CatchesUp == \A s \in 1 .. MaxSeq : next_seq > s ~> after >= s

-----------------------------------------------------------------------------
(* The inductive invariant behind the safety properties.                   *)

\* A message that has not been sent is not on the network.
UnsentIsNowhere == \A d \in unsent : inflight[d] = 0

\* What is stored came with two good signatures, or from a program running here.
Admitted(m) ==
  \E d \in {e \in Traffic : e.self_ok /\ e.payload_ok} \cup GuestPush :
    d.source = m.from_pubkey /\ d.id = m.id /\ d.body = m.body

\* The log holds the message of each number that was handed out; the store retains its newest end.
LogIsNumbered ==
  /\ Len(log) = next_seq - 1
  /\ \A i \in 1 .. Len(log) : log[i].seq = i /\ Admitted(log[i])
  /\ \A i \in 1 .. Len(msgs) : msgs[i] = log[Len(log) - Len(msgs) + i]

\* Every remembered key is that of a stored message, ...
SeenIsLogged ==
  \A j \in 1 .. Len(seen_order) : \E i \in 1 .. Len(log) :
    seen_order[j] = <<log[i].from_pubkey, log[i].id>>

\* ... and the key of a stored message is remembered until SeenCap other keyed ones have been stored
\* after it: it moves up seen_order by one for each of them.
KeyedAfter(i) == Cardinality(KeyedBetween(i, Len(log) + 1))
LoggedIsSeen ==
  \A i \in 1 .. Len(log) : log[i].id # NoId =>
    \/ KeyedAfter(i) >= SeenCap
    \/ \E j \in 1 .. Len(seen_order) :
         /\ seen_order[j] = <<log[i].from_pubkey, log[i].id>>
         /\ Len(seen_order) - j <= KeyedAfter(i)

\* The transcript shows stored messages, none above the reader's mark, which is a number handed out.
ReaderIsBehind ==
  /\ after < next_seq
  /\ \A i \in 1 .. Len(transcript) :
       transcript[i].seq <= after /\ \E k \in 1 .. Len(log) : transcript[i] = log[k]

FeedInv ==
  /\ StoreInv /\ FeedTypeOK
  /\ UnsentIsNowhere
  /\ LogIsNumbered /\ SeenIsLogged /\ LoggedIsSeen /\ RepeatOnlyAfterSeenCap
  /\ ReaderIsBehind /\ TranscriptInOrder
=============================================================================
