------------------------- MODULE MessageStoreProofs -------------------------
(***************************************************************************)
(* Theorems about the message store, for every set of senders, ids and     *)
(* bodies and every Cap <= SeenCap.                                        *)
(***************************************************************************)
EXTENDS MessageStore, SequenceTheorems, TLAPS

-----------------------------------------------------------------------------
(* VecDeque operations.                                                    *)

\* t is s without its d oldest elements.
DropFirst(s, d, t) ==
  /\ d \in Nat
  /\ Len(s) \in Nat
  /\ Len(t) \in Nat
  /\ Len(s) = Len(t) + d
  /\ \A i \in 1 .. Len(t) : t[i] = s[d + i]

\* How many elements the eviction loop pops from a queue of length l to trim it to n.
Excess(l, n) == IF l > n THEN l - n ELSE 0

\* What the eviction loop of push leaves: the last n elements, in order, or all if there are fewer.
LEMMA KeepLastProperties ==
  ASSUME NEW S, NEW s \in Seq(S), NEW n \in Nat \ {0}
  PROVE  /\ KeepLast(s, n) \in Seq(S)
         /\ DropFirst(s, Excess(Len(s), n), KeepLast(s, n))
<1>1. Len(s) \in Nat
  BY LenProperties
<1>2. CASE Len(s) > n
  <2>1. Len(s) - n + 1 \in 1 .. Len(s) + 1 /\ Len(s) \in Len(s) - n + 1 - 1 .. Len(s)
    BY <1>1, <1>2
  <2>2. KeepLast(s, n) = SubSeq(s, Len(s) - n + 1, Len(s)) /\ Excess(Len(s), n) = Len(s) - n
    BY <1>2 DEF KeepLast, Excess
  <2>3. QED
    BY <1>1, <1>2, <2>1, <2>2, SubSeqProperties DEF DropFirst
<1>3. CASE ~(Len(s) > n)
  BY <1>1, <1>3 DEF KeepLast, Excess, DropFirst
<1>4. QED
  BY <1>2, <1>3

\* Dropping the oldest elements of a queue of distinct keys drops exactly those keys.
LEMMA DropDistinct ==
  ASSUME NEW s, NEW t, NEW d, DropFirst(s, d, t),
         \A i, j \in 1 .. Len(s) : s[i] = s[j] => i = j
  PROVE  /\ Elements(t) = Elements(s) \ {s[j] : j \in 1 .. d}
         /\ \A i, j \in 1 .. Len(t) : t[i] = t[j] => i = j
<1> USE DEF DropFirst
<1>1. \A i \in 1 .. Len(t) : d + i \in 1 .. Len(s)
  OBVIOUS
<1>2. \A j \in 1 .. d : j \in 1 .. Len(s)
  OBVIOUS
<1>3. \A j \in 1 .. Len(s) : j \notin 1 .. d => j - d \in 1 .. Len(t) /\ d + (j - d) = j
  OBVIOUS
<1>4. \A i \in 1 .. Len(t), j \in 1 .. d : d + i # j
  OBVIOUS
<1>5. \A i, j \in 1 .. Len(t) : t[i] = t[j] => i = j
  <2> SUFFICES ASSUME NEW i \in 1 .. Len(t), NEW j \in 1 .. Len(t), t[i] = t[j]
               PROVE  i = j
    OBVIOUS
  <2>1. d + i = d + j
    BY <1>1
  <2>2. QED
    BY <2>1
<1>6. Elements(t) \subseteq Elements(s) \ {s[j] : j \in 1 .. d}
  BY <1>1, <1>2, <1>4 DEF Elements
<1>7. Elements(s) \ {s[j] : j \in 1 .. d} \subseteq Elements(t)
  <2> SUFFICES ASSUME NEW j \in 1 .. Len(s), s[j] \notin {s[k] : k \in 1 .. d}
               PROVE  s[j] \in Elements(t)
    BY DEF Elements
  <2>1. j - d \in 1 .. Len(t) /\ d + (j - d) = j
    BY <1>3
  <2>2. t[j - d] = s[j]
    BY <2>1
  <2>3. QED
    BY <2>1, <2>2 DEF Elements
<1>8. QED
  BY <1>5, <1>6, <1>7

-----------------------------------------------------------------------------
(* The two halves of push.                                                 *)

NewMessage(pk, id, body) == [seq |-> next_seq, from_pubkey |-> pk, id |-> id, body |-> body]

\* Remembering a fresh key appends it to the queue of keys, drops the oldest ones, and keeps the
\* HashSet in step with the queue.
LEMMA RememberKeepsSeen ==
  ASSUME TypeOK, SeenMatchesOrder, NEW pk \in Pubkey, NEW id \in MsgId,
         ~Duplicate(pk, id), Remember(pk, id)
  PROVE  /\ seen_order' \in Seq(Key)
         /\ seen' \in SUBSET Key
         /\ SeenMatchesOrder'
         /\ DropFirst(Append(seen_order, <<pk, id>>), Excess(Len(seen_order) + 1, SeenCap), seen_order')
<1> DEFINE o == Append(seen_order, <<pk, id>>)
           d == Excess(Len(seen_order) + 1, SeenCap)
<1>1. seen_order \in Seq(Key) /\ <<pk, id>> \in Key /\ Len(seen_order) \in Nat
  BY LenProperties DEF TypeOK, Key
<1>2. id # NoId /\ <<pk, id>> \notin seen
  BY NoIdAssumption DEF Duplicate, KeyOf
<1>3. /\ seen_order' = KeepLast(o, SeenCap)
      /\ seen' = (seen \cup {<<pk, id>>}) \ Popped(o, SeenCap)
  BY <1>2 DEF Remember, KeyOf
<1>4. /\ o \in Seq(Key)
      /\ Len(o) = Len(seen_order) + 1
      /\ o[Len(seen_order) + 1] = <<pk, id>>
      /\ \A i \in 1 .. Len(seen_order) : o[i] = seen_order[i]
  BY <1>1, AppendProperties
<1>5. \A i, j \in 1 .. Len(o) : o[i] = o[j] => i = j
  <2>1. \A i \in 1 .. Len(seen_order) : o[i] # <<pk, id>>
    BY <1>2, <1>4 DEF SeenMatchesOrder, Elements
  <2>2. \A i \in 1 .. Len(o) : i \in 1 .. Len(seen_order) \/ i = Len(seen_order) + 1
    BY <1>1, <1>4
  <2>3. QED
    BY <1>1, <1>4, <2>1, <2>2 DEF SeenMatchesOrder
<1>6. Elements(o) = seen \cup {<<pk, id>>}
  <2>1. 1 .. Len(o) = 1 .. Len(seen_order) \cup {Len(seen_order) + 1}
    BY <1>1, <1>4
  <2>2. QED
    BY <1>4, <2>1 DEF SeenMatchesOrder, Elements
<1>7. seen_order' \in Seq(Key) /\ DropFirst(o, d, seen_order')
  BY <1>3, <1>4, KeepLastProperties, CapAssumption
<1>8. Popped(o, SeenCap) = {o[j] : j \in 1 .. d}
  <2>1. 1 .. (Len(o) - SeenCap) = 1 .. d
    BY <1>1, <1>4, CapAssumption DEF Excess
  <2>2. QED
    BY <2>1 DEF Popped
<1>9. /\ Elements(seen_order') = Elements(o) \ {o[j] : j \in 1 .. d}
      /\ \A i, j \in 1 .. Len(seen_order') : seen_order'[i] = seen_order'[j] => i = j
  <2> HIDE DEF o, d
  <2>1. QED
    BY <1>5, <1>7, DropDistinct
<1>10. Len(seen_order') <= SeenCap
  BY <1>1, <1>4, <1>7, CapAssumption DEF DropFirst, Excess
<1>11. SeenMatchesOrder'
  <2>1. seen' = Elements(seen_order')
    BY <1>3, <1>6, <1>8, <1>9
  <2>2. QED
    BY <2>1, <1>9, <1>10 DEF SeenMatchesOrder, Elements
<1>12. QED
  BY <1>1, <1>3, <1>7, <1>11 DEF TypeOK

\* Storing a message appends it under the next number and drops the oldest ones: what is left is
\* again the run of the latest numbers.
LEMMA StoreKeepsRun ==
  ASSUME TypeOK, RetainedIsLatestRun, NEW pk \in Pubkey, NEW id \in MsgId \cup {NoId},
         NEW body \in Body, Store(pk, id, body)
  PROVE  /\ next_seq' = next_seq + 1
         /\ msgs' \in Seq(Message)
         /\ RetainedIsLatestRun'
         /\ DropFirst(Append(msgs, NewMessage(pk, id, body)), Excess(Len(msgs) + 1, Cap), msgs')
<1> DEFINE m == NewMessage(pk, id, body)
           o == Append(msgs, m)
           e == Excess(Len(msgs) + 1, Cap)
<1>1. msgs \in Seq(Message) /\ m \in Message /\ Len(msgs) \in Nat /\ next_seq \in Nat \ {0}
  BY LenProperties DEF TypeOK, Message, NewMessage
<1>2. next_seq' = next_seq + 1 /\ msgs' = KeepLast(o, Cap)
  BY DEF Store, NewMessage
<1>3. /\ o \in Seq(Message)
      /\ Len(o) = Len(msgs) + 1
      /\ o[Len(msgs) + 1] = m
      /\ \A i \in 1 .. Len(msgs) : o[i] = msgs[i]
  BY <1>1, AppendProperties
<1>4. msgs' \in Seq(Message) /\ DropFirst(o, e, msgs')
  BY <1>2, <1>3, KeepLastProperties, CapAssumption
<1>5. \A i \in 1 .. Len(o) : o[i].seq = next_seq - Len(msgs) + i - 1
  <2> SUFFICES ASSUME NEW i \in 1 .. Len(o)
               PROVE  o[i].seq = next_seq - Len(msgs) + i - 1
    OBVIOUS
  <2>1. CASE i = Len(msgs) + 1
    <3>1. o[i].seq = next_seq
      BY <1>3, <2>1 DEF NewMessage
    <3>2. QED
      BY <1>1, <2>1, <3>1
  <2>2. CASE i \in 1 .. Len(msgs)
    BY <1>3, <2>2 DEF RetainedIsLatestRun
  <2>3. QED
    BY <1>1, <1>3, <2>1, <2>2
<1>6. RetainedIsLatestRun'
  <2>1. Len(msgs') <= Cap
    BY <1>1, <1>3, <1>4, CapAssumption DEF DropFirst, Excess
  <2>2. ASSUME NEW i \in 1 .. Len(msgs')
        PROVE  msgs'[i].seq = next_seq' - Len(msgs') + i - 1
    <3>1. e + i \in 1 .. Len(o) /\ msgs'[i] = o[e + i]
      BY <1>4 DEF DropFirst
    <3>2. msgs'[i].seq = next_seq - Len(msgs) + (e + i) - 1
      BY <1>5, <3>1
    <3>3. Len(msgs) + 1 = Len(msgs') + e /\ e \in Nat /\ Len(msgs') \in Nat
      BY <1>3, <1>4 DEF DropFirst
    <3> HIDE DEF e
    <3>4. QED
      BY <1>1, <1>2, <3>2, <3>3
  <2>3. Len(msgs') < Cap => Len(msgs') = next_seq' - 1
    BY <1>1, <1>2, <1>3, <1>4, CapAssumption DEF DropFirst, Excess, RetainedIsLatestRun
  <2>4. QED
    BY <2>1, <2>2, <2>3 DEF RetainedIsLatestRun
<1>7. QED
  BY <1>2, <1>4, <1>6

\* The position argument behind deduplication.  A kept message moves towards the old end of msgs at
\* least as fast as its key moves towards the old end of seen_order, and seen_order is the longer
\* queue: the key is still queued while the message is retained.
LEMMA PushRemembersRetained ==
  ASSUME StoreInv, NEW pk \in Pubkey, NEW id \in MsgId \cup {NoId}, NEW body \in Body,
         ~Duplicate(pk, id), Remember(pk, id), Store(pk, id, body)
  PROVE  RetainedIsRemembered'
<1> DEFINE m == NewMessage(pk, id, body)
           o == Append(msgs, m)
           e == Excess(Len(msgs) + 1, Cap)
<1>1. /\ msgs \in Seq(Message) /\ Len(msgs) \in Nat
      /\ seen_order \in Seq(Key) /\ Len(seen_order) \in Nat
  BY LenProperties DEF StoreInv, TypeOK
<1>2. DropFirst(o, e, msgs') /\ RetainedIsLatestRun'
  BY StoreKeepsRun DEF StoreInv
<1>3. /\ Len(o) = Len(msgs) + 1
      /\ o[Len(msgs) + 1] = m
      /\ \A i \in 1 .. Len(msgs) : o[i] = msgs[i]
  <2>1. m \in Message
    BY DEF StoreInv, TypeOK, Message, NewMessage
  <2>2. QED
    BY <1>1, <2>1, AppendProperties
<1>4. /\ e \in Nat /\ Len(msgs') \in Nat /\ Len(msgs) + 1 = Len(msgs') + e
      /\ Len(msgs') <= Cap
      /\ \A i \in 1 .. Len(msgs') : msgs'[i] = o[e + i]
  BY <1>2, <1>3 DEF DropFirst, RetainedIsLatestRun
<1> SUFFICES ASSUME NEW i \in 1 .. Len(msgs'), msgs'[i].id # NoId
             PROVE  \E j \in 1 .. Len(seen_order') :
                      /\ seen_order'[j] = <<msgs'[i].from_pubkey, msgs'[i].id>>
                      /\ Len(seen_order') - j <= Len(msgs') - i
  BY DEF RetainedIsRemembered
<1> HIDE DEF e, o, m
<1>5. e + i \in 1 .. Len(msgs) \/ e + i = Len(msgs) + 1
  BY <1>1, <1>4
<1>6. CASE id = NoId
  <2>1. seen_order' = seen_order
    BY <1>6 DEF Remember
  <2>2. e + i \in 1 .. Len(msgs)
    <3>1. m.id = NoId
      BY <1>6 DEF m, NewMessage
    <3>2. QED
      BY <1>3, <1>4, <1>5, <3>1
  <2>3. msgs'[i] = msgs[e + i]
    BY <1>3, <1>4, <2>2
  <2>4. PICK j \in 1 .. Len(seen_order) :
          /\ seen_order[j] = <<msgs[e + i].from_pubkey, msgs[e + i].id>>
          /\ Len(seen_order) - j <= Len(msgs) - (e + i)
    BY <2>2, <2>3 DEF StoreInv, RetainedIsRemembered
  <2>5. Len(seen_order) - j <= Len(msgs') - i
    BY <1>1, <1>4, <2>4
  <2>6. QED
    BY <2>1, <2>3, <2>4, <2>5
<1>7. CASE id # NoId
  <2> DEFINE q == Append(seen_order, <<pk, id>>)
             f == Excess(Len(seen_order) + 1, SeenCap)
  <2>1. DropFirst(q, f, seen_order') /\ SeenMatchesOrder'
    BY <1>7, RememberKeepsSeen DEF StoreInv
  <2>2. /\ Len(q) = Len(seen_order) + 1
        /\ q[Len(seen_order) + 1] = <<pk, id>>
        /\ \A j \in 1 .. Len(seen_order) : q[j] = seen_order[j]
    <3>1. <<pk, id>> \in Key
      BY <1>7 DEF Key
    <3>2. QED
      BY <1>1, <3>1, AppendProperties
  <2>3. /\ f \in Nat /\ Len(seen_order') \in Nat /\ Len(seen_order) + 1 = Len(seen_order') + f
        /\ \A j \in 1 .. Len(seen_order') : seen_order'[j] = q[f + j]
    BY <2>1, <2>2 DEF DropFirst
  <2>4. f = 0 \/ Len(seen_order') = SeenCap
    BY <1>1, <2>3, CapAssumption DEF Excess
  <2> HIDE DEF f, q
  <2>5. CASE e + i = Len(msgs) + 1
    <3>1. msgs'[i] = m /\ i = Len(msgs')
      BY <1>1, <1>3, <1>4, <2>5
    <3>2. msgs'[i].from_pubkey = pk /\ msgs'[i].id = id
      BY <3>1 DEF m, NewMessage
    <3>3. Len(seen_order') \in 1 .. Len(seen_order')
      BY <1>1, <2>3, <2>4, CapAssumption
    <3>4. seen_order'[Len(seen_order')] = <<pk, id>>
      <4>1. f + Len(seen_order') = Len(seen_order) + 1
        BY <1>1, <2>3
      <4>2. QED
        BY <2>2, <2>3, <3>3, <4>1
    <3>5. Len(seen_order') - Len(seen_order') <= Len(msgs') - i
      BY <1>4, <2>3, <3>1
    <3>6. QED
      BY <3>2, <3>3, <3>4, <3>5
  <2>6. CASE e + i \in 1 .. Len(msgs)
    <3>1. msgs'[i] = msgs[e + i]
      BY <1>3, <1>4, <2>6
    <3>2. PICK k \in 1 .. Len(seen_order) :
            /\ seen_order[k] = <<msgs[e + i].from_pubkey, msgs[e + i].id>>
            /\ Len(seen_order) - k <= Len(msgs) - (e + i)
      BY <2>6, <3>1 DEF StoreInv, RetainedIsRemembered
    <3>n. /\ Len(msgs) \in Nat /\ Len(seen_order) \in Nat /\ f \in Nat /\ e \in Nat
          /\ Len(seen_order') \in Nat /\ Len(seen_order) + 1 = Len(seen_order') + f
          /\ Len(msgs') \in Nat /\ Len(msgs) + 1 = Len(msgs') + e /\ Len(msgs') <= Cap
          /\ Len(seen_order) - k <= Len(msgs) - (e + i)
      BY <1>1, <1>4, <2>3, <3>2
    <3>3. k - f \in 1 .. Len(seen_order') /\ f + (k - f) = k
      BY <2>4, <3>n, CapAssumption, CapsAssumption
    <3>4. seen_order'[k - f] = seen_order[k]
      BY <2>2, <2>3, <3>3
    <3>5. Len(seen_order') - (k - f) <= Len(msgs') - i
      BY <3>n
    <3>6. QED
      BY <3>1, <3>2, <3>3, <3>4, <3>5
  <2>7. QED
    BY <1>5, <2>5, <2>6
<1>8. QED
  BY <1>6, <1>7

\* A stored message is no copy of a retained one: the key of every retained message is in seen, and
\* push stops at a key that is in seen.
LEMMA PushKeepsDistinct ==
  ASSUME StoreInv, NEW pk \in Pubkey, NEW id \in MsgId \cup {NoId}, NEW body \in Body,
         ~Duplicate(pk, id), Store(pk, id, body)
  PROVE  NoRetainedDuplicate'
<1> DEFINE m == NewMessage(pk, id, body)
           o == Append(msgs, m)
           e == Excess(Len(msgs) + 1, Cap)
<1>1. msgs \in Seq(Message) /\ Len(msgs) \in Nat /\ m \in Message
  BY LenProperties DEF StoreInv, TypeOK, Message, NewMessage
<1>2. DropFirst(o, e, msgs')
  BY StoreKeepsRun DEF StoreInv
<1>3. /\ Len(o) = Len(msgs) + 1
      /\ o[Len(msgs) + 1] = m
      /\ \A i \in 1 .. Len(msgs) : o[i] = msgs[i]
  BY <1>1, AppendProperties
<1>4. m.from_pubkey = pk /\ m.id = id
  BY DEF NewMessage
<1> HIDE DEF m, o, e
<1>5. ASSUME NEW i \in 1 .. Len(msgs), msgs[i].id # NoId, msgs[i].from_pubkey = pk, msgs[i].id = id
      PROVE  FALSE
  <2>1. PICK j \in 1 .. Len(seen_order) : seen_order[j] = <<pk, id>>
    BY <1>5 DEF StoreInv, RetainedIsRemembered
  <2>2. <<pk, id>> \in seen
    BY <2>1 DEF StoreInv, SeenMatchesOrder, Elements
  <2>3. QED
    BY <1>5, <2>2 DEF Duplicate, KeyOf
<1>6. ASSUME NEW i \in 1 .. Len(o), NEW j \in 1 .. Len(o), o[i].id # NoId,
             o[i].from_pubkey = o[j].from_pubkey, o[i].id = o[j].id
      PROVE  i = j
  <2>1. /\ i \in 1 .. Len(msgs) \/ i = Len(msgs) + 1
        /\ j \in 1 .. Len(msgs) \/ j = Len(msgs) + 1
    BY <1>1, <1>3
  <2>2. CASE i \in 1 .. Len(msgs) /\ j \in 1 .. Len(msgs)
    BY <1>3, <1>6, <2>2 DEF StoreInv, NoRetainedDuplicate
  <2>3. CASE i \in 1 .. Len(msgs) /\ j = Len(msgs) + 1
    BY <1>3, <1>4, <1>5, <1>6, <2>3
  <2>4. CASE i = Len(msgs) + 1 /\ j \in 1 .. Len(msgs)
    BY <1>3, <1>4, <1>5, <1>6, <2>4
  <2>5. QED
    BY <2>1, <2>2, <2>3, <2>4
<1>7. ASSUME NEW i \in 1 .. Len(msgs'), NEW j \in 1 .. Len(msgs'), msgs'[i].id # NoId,
             msgs'[i].from_pubkey = msgs'[j].from_pubkey, msgs'[i].id = msgs'[j].id
      PROVE  i = j
  <2>1. /\ e + i \in 1 .. Len(o) /\ msgs'[i] = o[e + i]
        /\ e + j \in 1 .. Len(o) /\ msgs'[j] = o[e + j]
    BY <1>2 DEF DropFirst
  <2>2. e + i = e + j
    BY <1>6, <1>7, <2>1
  <2>3. QED
    BY <1>2, <2>2 DEF DropFirst
<1>8. QED
  BY <1>7 DEF NoRetainedDuplicate

-----------------------------------------------------------------------------
(* The invariant.                                                          *)

\* A dropped duplicate changes nothing, so it keeps the invariant.
LEMMA StutterKeepsInv ==
  ASSUME StoreInv, UNCHANGED storeVars
  PROVE  StoreInv'
<1>1. next_seq' = next_seq /\ msgs' = msgs /\ seen' = seen /\ seen_order' = seen_order
  BY DEF storeVars
<1>2. TypeOK'
  BY <1>1 DEF StoreInv, TypeOK
<1>3. SeenMatchesOrder'
  BY <1>1 DEF StoreInv, SeenMatchesOrder, Elements
<1>4. RetainedIsLatestRun'
  BY <1>1 DEF StoreInv, RetainedIsLatestRun
<1>5. NoRetainedDuplicate'
  BY <1>1 DEF StoreInv, NoRetainedDuplicate
<1>6. RetainedIsRemembered'
  BY <1>1 DEF StoreInv, RetainedIsRemembered
<1>7. QED
  BY <1>2, <1>3, <1>4, <1>5, <1>6 DEF StoreInv

\* One push, accepted or dropped, keeps the invariant.
LEMMA PushKeepsInv ==
  ASSUME StoreInv, NEW pk \in Pubkey, NEW id \in MsgId \cup {NoId}, NEW body \in Body,
         push(pk, id, body)
  PROVE  StoreInv'
<1>1. CASE UNCHANGED storeVars
  BY <1>1, StutterKeepsInv
<1>2. CASE ~Duplicate(pk, id) /\ Remember(pk, id) /\ Store(pk, id, body)
  <2>1. next_seq' = next_seq + 1 /\ msgs' \in Seq(Message) /\ RetainedIsLatestRun'
    BY <1>2, StoreKeepsRun DEF StoreInv
  <2>2. seen_order' \in Seq(Key) /\ seen' \in SUBSET Key /\ SeenMatchesOrder'
    <3>1. CASE id = NoId
      BY <1>2, <3>1 DEF Remember, StoreInv, TypeOK, SeenMatchesOrder, Elements
    <3>2. CASE id \in MsgId
      BY <1>2, <3>2, RememberKeepsSeen DEF StoreInv
    <3>3. QED
      BY <3>1, <3>2
  <2>3. NoRetainedDuplicate' /\ RetainedIsRemembered'
    BY <1>2, PushKeepsDistinct, PushRemembersRetained
  <2>4. TypeOK'
    BY <2>1, <2>2 DEF StoreInv, TypeOK
  <2>5. QED
    BY <2>1, <2>2, <2>3, <2>4 DEF StoreInv
<1>3. QED
  BY <1>1, <1>2 DEF push

\* Every reachable store satisfies the inductive invariant.
LEMMA StoreInvariant == Spec => []StoreInv
<1>1. Init => StoreInv
  BY CapAssumption DEF Init, StoreInv, TypeOK, SeenMatchesOrder, RetainedIsLatestRun,
     NoRetainedDuplicate, RetainedIsRemembered, Elements
<1>2. StoreInv /\ [Next]_storeVars => StoreInv'
  <2> SUFFICES ASSUME StoreInv, [Next]_storeVars
               PROVE  StoreInv'
    OBVIOUS
  <2>1. CASE Next
    BY <2>1, PushKeepsInv DEF Next
  <2>2. CASE UNCHANGED storeVars
    BY <2>2, StutterKeepsInv
  <2>3. QED
    BY <2>1, <2>2
<1>3. QED
  BY <1>1, <1>2, PTL DEF Spec

\* push keeps every field of the store well formed.
THEOREM StoreTyped == Spec => []TypeOK
<1>1. StoreInv => TypeOK
  BY DEF StoreInv
<1>2. QED
  BY <1>1, StoreInvariant, PTL

\* The HashSet and the eviction queue of dedup keys never drift apart, and both stay bounded.
THEOREM DedupMemoryConsistent == Spec => []SeenMatchesOrder
<1>1. StoreInv => SeenMatchesOrder
  BY DEF StoreInv
<1>2. QED
  BY <1>1, StoreInvariant, PTL

\* Whatever the caps, the store holds an unbroken run of the latest sequence numbers.
THEOREM LatestRun == Spec => []RetainedIsLatestRun
<1>1. StoreInv => RetainedIsLatestRun
  BY DEF StoreInv
<1>2. QED
  BY <1>1, StoreInvariant, PTL

\* If the dedup memory is no smaller than the log (Cap <= SeenCap), no message is ever retained twice.
THEOREM NoDuplicates == Spec => []NoRetainedDuplicate
<1>1. StoreInv => NoRetainedDuplicate
  BY DEF StoreInv
<1>2. QED
  BY <1>1, StoreInvariant, PTL

-----------------------------------------------------------------------------
(* Refinement.                                                             *)

\* An accepted push is the abstract Accept: the queue after the eviction loop holds exactly the
\* messages whose number is among the Cap latest.
LEMMA StoreAccepts ==
  ASSUME StoreInv, NEW pk \in Pubkey, NEW id \in MsgId \cup {NoId}, NEW body \in Body,
         ~Duplicate(pk, id), Store(pk, id, body)
  PROVE  Log!Accept(pk, id, body)
<1> DEFINE m == NewMessage(pk, id, body)
           o == Append(msgs, m)
           e == Excess(Len(msgs) + 1, Cap)
<1>1. /\ msgs \in Seq(Message) /\ Len(msgs) \in Nat /\ m \in Message
      /\ next_seq \in Nat \ {0} /\ m.seq = next_seq
  BY LenProperties DEF StoreInv, TypeOK, Message, NewMessage
<1>2. DropFirst(o, e, msgs') /\ next_seq' = next_seq + 1
  BY StoreKeepsRun DEF StoreInv
<1>3. /\ Len(o) = Len(msgs) + 1
      /\ o[Len(msgs) + 1] = m
      /\ \A i \in 1 .. Len(msgs) : o[i] = msgs[i]
  BY <1>1, AppendProperties
<1>4. id # NoId => ~Log!Holds(pk, id)
  <2> SUFFICES ASSUME id # NoId, NEW i \in 1 .. Len(msgs), msgs[i].from_pubkey = pk, msgs[i].id = id
               PROVE  FALSE
    BY DEF Log!Holds, Elements
  <2>1. PICK j \in 1 .. Len(seen_order) : seen_order[j] = <<pk, id>>
    BY DEF StoreInv, RetainedIsRemembered
  <2>2. <<pk, id>> \in seen
    BY <2>1 DEF StoreInv, SeenMatchesOrder, Elements
  <2>3. QED
    BY <2>2 DEF Duplicate, KeyOf
<1>5. \A i \in 1 .. Len(o) : o[i].seq = next_seq - Len(msgs) + i - 1
  <2> SUFFICES ASSUME NEW i \in 1 .. Len(o)
               PROVE  o[i].seq = next_seq - Len(msgs) + i - 1
    OBVIOUS
  <2>1. CASE i = Len(msgs) + 1
    BY <1>1, <1>3, <2>1
  <2>2. CASE i \in 1 .. Len(msgs)
    BY <1>3, <2>2 DEF StoreInv, RetainedIsLatestRun
  <2>3. QED
    BY <1>1, <1>3, <2>1, <2>2
<1>6. Elements(o) = Elements(msgs) \cup {m}
  <2>1. 1 .. Len(o) = 1 .. Len(msgs) \cup {Len(msgs) + 1}
    BY <1>1, <1>3
  <2>2. QED
    BY <1>3, <2>1 DEF Elements
<1>7. Len(msgs) + 1 = Len(msgs') + e /\ e \in Nat /\ Len(msgs') \in Nat
      /\ (e = 0 \/ Len(msgs') = Cap) /\ Len(msgs') <= Cap
  BY <1>1, <1>2, <1>3, CapAssumption DEF DropFirst, Excess
<1> HIDE DEF m, o, e
<1>8. \A i \in 1 .. Len(o) : o[i].seq > next_seq - Cap <=> i > e
  <2> SUFFICES ASSUME NEW i \in 1 .. Len(o)
               PROVE  next_seq - Len(msgs) + i - 1 > next_seq - Cap <=> i > e
    BY <1>5
  <2>1. QED
    BY <1>1, <1>3, <1>7, CapAssumption
<1>9. Elements(msgs') = {x \in Elements(o) : x.seq > next_seq - Cap}
  <2>1. ASSUME NEW i \in 1 .. Len(msgs')
        PROVE  msgs'[i] \in Elements(o) /\ msgs'[i].seq > next_seq - Cap
    <3>1. e + i \in 1 .. Len(o) /\ e + i > e /\ msgs'[i] = o[e + i]
      BY <1>2 DEF DropFirst
    <3>2. QED
      BY <1>8, <3>1 DEF Elements
  <2>2. ASSUME NEW i \in 1 .. Len(o), o[i].seq > next_seq - Cap
        PROVE  o[i] \in Elements(msgs')
    <3>1. i > e
      BY <1>8, <2>2
    <3>2. i - e \in 1 .. Len(msgs') /\ e + (i - e) = i
      BY <1>1, <1>3, <1>7, <3>1
    <3>3. msgs'[i - e] = o[i]
      BY <1>2, <3>2 DEF DropFirst
    <3>4. QED
      BY <3>2, <3>3 DEF Elements
  <2>3. QED
    BY <2>1, <2>2 DEF Elements
<1>10. QED
  <2>1. Elements(msgs)' = Elements(msgs')
    BY DEF Elements
  <2>2. m = [seq |-> next_seq, from_pubkey |-> pk, id |-> id, body |-> body]
    BY DEF m, NewMessage
  <2>3. QED
    BY <1>2, <1>4, <1>6, <1>9, <2>1, <2>2 DEF Log!Accept

\* The deduplicating queue implements the abstract log: its readers may reason about FabricLog and
\* forget seen, seen_order and their cap.
THEOREM StoreImplementsLog == Spec => ImplementsLog
<1>1. Init => Log!Init
  BY DEF Init, Log!Init, Elements
<1>2. StoreInv /\ [Next]_storeVars => [Log!Next]_<<next_seq, Elements(msgs)>>
  <2> SUFFICES ASSUME StoreInv, [Next]_storeVars
               PROVE  [Log!Next]_<<next_seq, Elements(msgs)>>
    OBVIOUS
  <2>1. CASE UNCHANGED storeVars
    BY <2>1 DEF storeVars, Elements
  <2>2. ASSUME NEW pk \in Pubkey, NEW id \in MsgId \cup {NoId}, NEW body \in Body,
               ~Duplicate(pk, id), Remember(pk, id), Store(pk, id, body)
        PROVE  Log!Next
    BY <2>2, StoreAccepts DEF Log!Next
  <2>3. QED
    BY <2>1, <2>2 DEF Next, push
<1>3. QED
  BY <1>1, <1>2, StoreInvariant, PTL DEF Spec, ImplementsLog, Log!Spec
=============================================================================
