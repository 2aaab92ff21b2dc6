---------------------------- MODULE MessageStore ----------------------------
(***************************************************************************)
(* The bounded in-memory message log of a node (struct MessageStore of     *)
(* src/src/executor/mod.rs).  Every operation runs under one std Mutex, so *)
(* an operation is one step.  A node calls push from two places: its UDP   *)
(* listeners (record_fabric_message) and the host::messages_push import of *)
(* a running program.                                                      *)
(*                                                                         *)
(* A message keeps its sender's key, its body and its sequence number; the *)
(* display name and the epoch are left out, they are copied along and no   *)
(* code of the store looks at them.  The sender-chosen id is not kept in   *)
(* StoredMessage: the field `id' of a message below is auxiliary and is    *)
(* read by the properties only.                                            *)
(***************************************************************************)
EXTENDS Integers, Sequences

CONSTANTS
  Pubkey,   \* sender identities
  MsgId,    \* the non-empty message ids a sender may choose
  NoId,     \* the empty id, which switches deduplication off
  Body,     \* message bodies
  Cap,      \* messages retained (4096 in Executor::new)
  SeenCap,  \* dedup keys remembered (4096 in MessageStore::new)
  MaxSeq    \* bound of the model: last sequence number handed out (u64 in the code)

ASSUME CapAssumption == Cap \in Nat \ {0} /\ SeenCap \in Nat \ {0} /\ MaxSeq \in Nat
ASSUME NoIdAssumption == NoId \notin MsgId
\* Both caps are 4096 in the code; deduplicating what is retained needs no more than this.
ASSUME CapsAssumption == Cap <= SeenCap

VARIABLES
  next_seq,    \* the next sequence number
  msgs,        \* VecDeque of retained messages, oldest first
  seen,        \* HashSet of remembered dedup keys
  seen_order   \* VecDeque of the same keys, oldest first

storeVars == <<next_seq, msgs, seen, seen_order>>

Key == Pubkey \X MsgId
Message == [seq : Nat \ {0}, from_pubkey : Pubkey, id : MsgId \cup {NoId}, body : Body]

-----------------------------------------------------------------------------
(* VecDeque operations.                                                    *)

\* The tail that "while len > cap { pop_front }" leaves.
KeepLast(s, n) == IF Len(s) > n THEN SubSeq(s, Len(s) - n + 1, Len(s)) ELSE s

\* The elements that loop pops.
Popped(s, n) == {s[j] : j \in 1 .. (Len(s) - n)}

Elements(s) == {s[j] : j \in 1 .. Len(s)}

-----------------------------------------------------------------------------
(* Seeded faults that the properties below catch; none is part of the      *)
(* specification.                                                          *)
KeyIsId(pk, id) == id
ReadFromMark(after) == SelectSeq(msgs, LAMBDA m : m.seq >= after)
RememberEmptyId(pk, id) ==
  /\ seen_order' = KeepLast(Append(seen_order, <<pk, id>>), SeenCap)
  /\ seen' = (seen \cup {<<pk, id>>}) \ Popped(Append(seen_order, <<pk, id>>), SeenCap)
ForgetNewest(pk, id) ==
  IF id = NoId THEN UNCHANGED <<seen, seen_order>>
  ELSE /\ seen_order' = IF Len(seen_order) < SeenCap THEN Append(seen_order, <<pk, id>>) ELSE seen_order
       /\ seen' = Elements(seen_order')
StoreOneTooMany(pk, id, body) ==
  /\ next_seq <= MaxSeq
  /\ next_seq' = next_seq + 1
  /\ msgs' = KeepLast(Append(msgs, [seq |-> next_seq, from_pubkey |-> pk, id |-> id, body |-> body]), Cap + 1)

-----------------------------------------------------------------------------
(* push                                                                    *)

KeyOf(pk, id) == <<pk, id>>

\* seen.insert(key) found the key already there.
Duplicate(pk, id) == id # NoId /\ KeyOf(pk, id) \in seen

\* Remember the key, forgetting the oldest ones above seen_cap.
Remember(pk, id) ==
  IF id = NoId THEN UNCHANGED <<seen, seen_order>>
  ELSE LET order == Append(seen_order, KeyOf(pk, id))
       IN  /\ seen_order' = KeepLast(order, SeenCap)
           /\ seen' = (seen \cup {KeyOf(pk, id)}) \ Popped(order, SeenCap)

\* Number the message, append it, evict the oldest ones above cap.
Store(pk, id, body) ==
  /\ next_seq <= MaxSeq
  /\ next_seq' = next_seq + 1
  /\ msgs' = KeepLast(Append(msgs, [seq |-> next_seq, from_pubkey |-> pk,
                                    id |-> id, body |-> body]), Cap)

push(pk, id, body) ==
  \/ Duplicate(pk, id) /\ UNCHANGED storeVars
  \/ ~Duplicate(pk, id) /\ Remember(pk, id) /\ Store(pk, id, body)

\* The retained messages above the reader's mark, in their order.
read_after(after) ==
  LET filter[k \in 0 .. Len(msgs)] ==
        IF k = 0 THEN << >>
        ELSE IF msgs[k].seq > after THEN Append(filter[k - 1], msgs[k]) ELSE filter[k - 1]
  IN  filter[Len(msgs)]

-----------------------------------------------------------------------------
Init ==
  /\ next_seq = 1
  /\ msgs = <<>>
  /\ seen = {}
  /\ seen_order = <<>>

Next == \E pk \in Pubkey, id \in MsgId \cup {NoId}, body \in Body : push(pk, id, body)

Spec == Init /\ [][Next]_storeVars

-----------------------------------------------------------------------------
(* Properties                                                              *)

\* Every variable has the shape the fields of struct MessageStore give it.
TypeOK ==
  /\ next_seq \in Nat \ {0}
  /\ msgs \in Seq(Message)
  /\ seen \in SUBSET Key
  /\ seen_order \in Seq(Key)

\* push keeps the HashSet and the eviction queue in step: the queue lists each remembered key
\* exactly once and never holds more than seen_cap of them, so no key is remembered for ever
\* (nothing leaks) and none is forgotten while it is still queued.
SeenMatchesOrder ==
  /\ seen = Elements(seen_order)
  /\ \A i, j \in 1 .. Len(seen_order) : seen_order[i] = seen_order[j] => i = j
  /\ Len(seen_order) <= SeenCap

\* The log never holds more than cap messages and what it holds is the unbroken run of the latest
\* sequence numbers: a reader that finds a gap between its high-water mark and the oldest message
\* lost exactly the evicted ones.
RetainedIsLatestRun ==
  /\ Len(msgs) <= Cap
  /\ \A i \in 1 .. Len(msgs) : msgs[i].seq = next_seq - Len(msgs) + i - 1
  /\ Len(msgs) < Cap => Len(msgs) = next_seq - 1

\* However the copies of a message are spread over interfaces, unicast and time, no two retained
\* messages carry the same (sender, id): push forgets a key only after its message is evicted.
NoRetainedDuplicate ==
  \A i, j \in 1 .. Len(msgs) :
    (msgs[i].id # NoId /\ msgs[i].from_pubkey = msgs[j].from_pubkey /\ msgs[i].id = msgs[j].id) => i = j

\* The strengthening that makes NoRetainedDuplicate inductive: the key of a retained message is
\* still queued in seen_order, no further from its newest end than the message is in msgs.
RetainedIsRemembered ==
  \A i \in 1 .. Len(msgs) : msgs[i].id # NoId =>
    \E j \in 1 .. Len(seen_order) :
      /\ seen_order[j] = <<msgs[i].from_pubkey, msgs[i].id>>
      /\ Len(seen_order) - j <= Len(msgs) - i

StoreInv ==
  TypeOK /\ SeenMatchesOrder /\ RetainedIsLatestRun /\ NoRetainedDuplicate /\ RetainedIsRemembered

\* The store implements the abstract log of module FabricLog, which knows nothing of seen,
\* seen_order and SeenCap: the queue of messages is the set of the latest ones.
Log == INSTANCE FabricLog WITH next <- next_seq, retained <- Elements(msgs)
ImplementsLog == Log!Spec
=============================================================================
