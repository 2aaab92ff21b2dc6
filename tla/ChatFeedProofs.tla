--------------------------- MODULE ChatFeedProofs ---------------------------
(***************************************************************************)
(* Theorems about the chat feed, for any traffic, any number of copies,    *)
(* any buffer of the reader and any Cap <= SeenCap.                        *)
(***************************************************************************)
EXTENDS ChatFeed, MessageStoreProofs, DataLemmas, FiniteSetTheorems

-----------------------------------------------------------------------------
(* Reading.                                                                *)

\* How many of the retained messages are at or below a mark.
Below(mark) == IF mark < next_seq - Len(msgs) THEN 0 ELSE mark - (next_seq - Len(msgs)) + 1

\* The store retains no more messages than it has numbered.
LEMMA RetainsNoMore ==
  ASSUME TypeOK, RetainedIsLatestRun
  PROVE  msgs \in Seq(Message) /\ Len(msgs) \in Nat /\ next_seq \in Nat \ {0} /\ Len(msgs) <= next_seq - 1
<1> DEFINE N == Len(msgs)
<1>1. msgs \in Seq(Message) /\ N \in Nat /\ next_seq \in Nat \ {0}
  BY DEF TypeOK
<1>2. CASE N = 0
  BY <1>1, <1>2
<1>3. CASE N # 0
  <2>1. 1 \in 1 .. N
    BY <1>1, <1>3
  <2>2. msgs[1].seq \in Nat \ {0}
    <3>1. msgs[1] \in Message
      BY <1>1, <2>1
    <3> QED
      BY <3>1 DEF Message
  <2>3. msgs[1].seq = next_seq - N
    BY <1>1, <2>1 DEF RetainedIsLatestRun
  <2> QED
    BY <1>1, <2>2, <2>3
<1> QED
  BY <1>1, <1>2, <1>3

\* read_after gives the newest end of the log, all the messages above the mark.
LEMMA ReadsTheEnd ==
  ASSUME TypeOK, RetainedIsLatestRun, NEW mark \in Nat, mark < next_seq
  PROVE  /\ Below(mark) \in 0 .. Len(msgs)
         /\ \A i \in 1 .. Len(msgs) : msgs[i].seq > mark <=> i > Below(mark)
         /\ read_after(mark) = SubSeq(msgs, Below(mark) + 1, Len(msgs))
<1> DEFINE b == Below(mark)
           N == Len(msgs)
<1>1. msgs \in Seq(Message) /\ N \in Nat /\ next_seq \in Nat \ {0} /\ N <= next_seq - 1
  BY RetainsNoMore
<1>2. b \in 0 .. N
  BY <1>1 DEF Below
<1>3. \A i \in 1 .. N : msgs[i].seq > mark <=> i > b
  BY <1>1 DEF RetainedIsLatestRun, Below
<1> DEFINE Step(f) == [k \in 0 .. N |->
                        IF k = 0 THEN << >>
                        ELSE IF msgs[k].seq > mark THEN Append(f[k - 1], msgs[k]) ELSE f[k - 1]]
           g == [k \in 0 .. N |-> IF k <= b THEN << >> ELSE SubSeq(msgs, b + 1, k)]
           f == CHOOSE filter : filter = Step(filter)
<1>4. g = Step(g)
  <2>1. ASSUME NEW k \in 0 .. N PROVE g[k] = Step(g)[k]
    <3>1. CASE k <= b
      BY <1>1, <1>2, <1>3, <2>1, <3>1
    <3>2. CASE k > b
      <4>1. k \in 1 .. N /\ k - 1 \in 0 .. N /\ k # 0
        BY <1>1, <1>2, <3>2
      <4>2. Step(g)[k] = Append(g[k - 1], msgs[k])
        BY <1>3, <3>2, <4>1
      <4>3. g[k] = SubSeq(msgs, b + 1, k)
        <5>1. ~(k <= b)
          BY <1>1, <1>2, <3>2
        <5> QED
          BY <5>1
      <4>4. CASE k = b + 1
        <5>1. g[k - 1] = << >> /\ k - 1 <= b
          BY <1>1, <1>2, <4>1, <4>4
        <5>2. SubSeq(msgs, b + 1, k) = << msgs[k] >>
          <6>1. SubSeq(msgs, k, k) = << msgs[k] >> \o SubSeq(msgs, k + 1, k)
            BY <1>1, <4>1, SubSeqRecursiveFirst
          <6>2. SubSeq(msgs, k + 1, k) = << >>
            BY <1>1, <4>1, SubSeqEmpty
          <6>3. << msgs[k] >> \in Seq(Message)
            BY <1>1, <4>1
          <6> QED
            BY <4>4, <6>1, <6>2, <6>3, ConcatEmptySeq
        <5>3. Append(<< >>, msgs[k]) = << msgs[k] >>
          OBVIOUS
        <5> QED
          BY <4>2, <4>3, <5>1, <5>2, <5>3
      <4>5. CASE k # b + 1
        <5>1. g[k - 1] = SubSeq(msgs, b + 1, k - 1) /\ b + 1 \in 1 .. N /\ k \in b + 1 .. N /\ k - 1 \in b + 1 .. N
          <6>1. b + 1 \in 1 .. N /\ k \in b + 1 .. N /\ k - 1 \in b + 1 .. N /\ ~(k - 1 <= b)
            BY <1>1, <1>2, <3>2, <4>1, <4>5
          <6> QED
            BY <4>1, <6>1
        <5>2. SubSeq(msgs, b + 1, k) = SubSeq(msgs, b + 1, k - 1) \o << msgs[k] >>
          BY <1>1, <5>1, SubSeqRecursiveSecond
        <5>3. SubSeq(msgs, b + 1, k - 1) \in Seq(Message) /\ msgs[k] \in Message
          BY <1>1, <4>1, <5>1
        <5> QED
          BY <4>2, <4>3, <5>1, <5>2, <5>3, AppendIsConcat
      <4> QED
        BY <4>4, <4>5
    <3> QED
      BY <1>1, <1>2, <3>1, <3>2
  <2> QED
    BY <2>1
<1>5. f = Step(f)
  BY <1>4
<1>6. read_after(mark) = f[N]
  BY DEF read_after
<1> HIDE DEF f, g
<1>7. \A k \in 0 .. N : f[k] = g[k]
  <2> DEFINE T == {k \in 0 .. N : f[k] # g[k]}
  <2> SUFFICES ASSUME T # {} PROVE FALSE
    OBVIOUS
  <2>1. PICK k \in T : \A y \in T : k <= y
    <3>1. T \subseteq Nat
      BY <1>1
    <3> HIDE DEF T
    <3> QED
      BY <3>1, LeastOfNat
  <2>2. k \in 0 .. N /\ f[k] # g[k]
    BY <2>1
  <2>3. f[k] = Step(f)[k] /\ g[k] = Step(g)[k]
    BY <1>4, <1>5
  <2>4. k # 0
    BY <2>2, <2>3
  <2>5. k - 1 \in 0 .. N /\ k - 1 \notin T
    BY <1>1, <2>1, <2>2, <2>4
  <2>6. f[k - 1] = g[k - 1]
    BY <2>5
  <2> QED
    BY <2>2, <2>3, <2>4, <2>6
<1>8. g[N] = SubSeq(msgs, b + 1, N)
  <2>1. N \in 0 .. N
    BY <1>1
  <2> HIDE DEF N, b
  <2>2. g[N] = IF N <= b THEN << >> ELSE SubSeq(msgs, b + 1, N)
    BY <2>1 DEF g
  <2>3. CASE N <= b
    <3>1. N < b + 1 /\ b + 1 \in Int
      BY <1>1, <1>2, <2>3
    <3>2. SubSeq(msgs, b + 1, N) = << >>
      BY <1>1, <3>1, SubSeqEmpty
    <3> QED
      BY <2>2, <2>3, <3>2
  <2>4. CASE ~(N <= b)
    BY <2>2, <2>4
  <2> QED
    BY <2>3, <2>4
<1> QED
  <2>1. read_after(mark) = SubSeq(msgs, b + 1, N)
    BY <1>1, <1>6, <1>7, <1>8
  <2> QED
    BY <1>2, <1>3, <2>1
\* encode_messages_cbor gives a run of the oldest messages, whatever their sizes.
LEMMA CutToBuffer ==
  ASSUME NEW s \in Seq(Message) PROVE \E n \in 0 .. Len(s) : encode_messages_cbor(s) = SubSeq(s, 1, n)
<1> DEFINE T == {0} \cup {k \in 1 .. Len(s) : EncodedSize(s, k) <= ReadBuf}
<1>1. Len(s) \in Nat /\ T \subseteq 0 .. Len(s) /\ T # {}
  OBVIOUS
<1>2. encode_messages_cbor(s) = SubSeq(s, 1, Max(T))
  BY DEF encode_messages_cbor
<1> HIDE DEF T
<1>3. Max(T) \in 0 .. Len(s)
  BY <1>1, MaxUpTo
<1> QED
  BY <1>2, <1>3

\* A poll reads, from the mark on, a run of the retained messages, none left out.
LEMMA ReadsARun ==
  ASSUME TypeOK, RetainedIsLatestRun, NEW mark \in Nat, mark < next_seq
  PROVE  \E n \in 0 .. Len(msgs) - Below(mark) :
           /\ messages_read(mark) \in Seq(Message)
           /\ Len(messages_read(mark)) = n
           /\ \A i \in 1 .. n : messages_read(mark)[i] = msgs[Below(mark) + i]
<1> DEFINE b == Below(mark)
           N == Len(msgs)
           r == SubSeq(msgs, b + 1, N)
<1>1. msgs \in Seq(Message) /\ N \in Nat /\ b \in 0 .. N /\ read_after(mark) = r
  BY ReadsTheEnd DEF TypeOK
<1>2. r \in Seq(Message) /\ Len(r) = N - b /\ \A i \in 1 .. N - b : r[i] = msgs[b + i]
  <2>1. b + 1 \in Int /\ N \in Int /\ \A i \in b + 1 .. N : msgs[i] \in Message
    BY <1>1
  <2>2. /\ r \in Seq(Message)
        /\ Len(r) = IF b + 1 <= N THEN N - (b + 1) + 1 ELSE 0
        /\ \A i \in 1 .. N - (b + 1) + 1 : r[i] = msgs[b + 1 + i - 1]
    BY <2>1, SubSeqProperties
  <2> HIDE DEF r, b, N
  <2>3. Len(r) = N - b
    BY <1>1, <2>2
  <2>4. ASSUME NEW i \in 1 .. N - b PROVE r[i] = msgs[b + i]
    <3>1. i \in 1 .. N - (b + 1) + 1 /\ b + 1 + i - 1 = b + i
      BY <1>1
    <3> QED
      BY <2>2, <3>1
  <2> QED
    BY <2>2, <2>3, <2>4
<1> HIDE DEF r, b, N
<1>3. PICK n \in 0 .. Len(r) : encode_messages_cbor(r) = SubSeq(r, 1, n)
  BY <1>2, CutToBuffer
<1>4. messages_read(mark) = SubSeq(r, 1, n)
  BY <1>1, <1>3 DEF messages_read
<1>5. n \in 0 .. N - b
  BY <1>2, <1>3
<1>6. /\ SubSeq(r, 1, n) \in Seq(Message) /\ Len(SubSeq(r, 1, n)) = n
      /\ \A i \in 1 .. n : SubSeq(r, 1, n)[i] = r[i]
  BY <1>1, <1>2, <1>3
<1>7. \A i \in 1 .. n : SubSeq(r, 1, n)[i] = msgs[b + i]
  BY <1>1, <1>2, <1>5, <1>6
<1> QED
  BY <1>4, <1>5, <1>6, <1>7 DEF b, N
-----------------------------------------------------------------------------
(* Pushing.                                                                *)

LogInv ==
  StoreInv /\ log \in Seq(Message) /\ LogIsNumbered /\ SeenIsLogged /\ LoggedIsSeen /\ RepeatOnlyAfterSeenCap

\* An accepted push appends the message to the log, and what it leaves in the store is the end of
\* the old contents and the message.
LEMMA AcceptedIsLogged ==
  ASSUME LogInv, NEW pk \in Pubkey, NEW id \in MsgId \cup {NoId}, NEW body \in Body,
         Store(pk, id, body), Logged
  PROVE  /\ next_seq \in Nat \ {0} /\ next_seq' = next_seq + 1
         /\ NewMessage(pk, id, body) \in Message
         /\ DropFirst(Append(msgs, NewMessage(pk, id, body)), Excess(Len(msgs) + 1, Cap), msgs')
         /\ log' = Append(log, NewMessage(pk, id, body))
         /\ log' \in Seq(Message) /\ Len(log) \in Nat /\ Len(log') = Len(log) + 1
         /\ \A i \in 1 .. Len(log) : log'[i] = log[i]
         /\ log'[Len(log) + 1] = NewMessage(pk, id, body)
<1> DEFINE m == NewMessage(pk, id, body)
           o == Append(msgs, m)
           e == Excess(Len(msgs) + 1, Cap)
<1>1. /\ msgs \in Seq(Message) /\ Len(msgs) \in Nat /\ next_seq \in Nat \ {0}
      /\ log \in Seq(Message) /\ Len(log) \in Nat
  BY DEF LogInv, StoreInv, TypeOK
<1>2. m \in Message
  BY <1>1 DEF NewMessage, Message
<1>3. next_seq' = next_seq + 1 /\ DropFirst(o, e, msgs')
  BY StoreKeepsRun DEF LogInv, StoreInv
<1>4. o[Len(msgs) + 1] = m /\ Len(o) = Len(msgs) + 1
  BY <1>1, <1>2
<1> HIDE DEF m, o, e
<1>5. Len(msgs') \in 1 .. Len(msgs) + 1 /\ e + Len(msgs') = Len(msgs) + 1
  BY <1>1, <1>3, <1>4, CapAssumption DEF DropFirst, e, Excess
<1>6. msgs'[Len(msgs')] = m
  <2>1. Len(msgs') \in 1 .. Len(msgs')
    BY <1>1, <1>5
  <2>2. msgs'[Len(msgs')] = o[e + Len(msgs')]
    BY <1>3, <2>1 DEF DropFirst
  <2> QED
    BY <1>4, <1>5, <2>2
<1>7. log' = Append(log, m)
  BY <1>1, <1>3, <1>6 DEF Logged
<1>8. /\ Append(log, m) \in Seq(Message) /\ Len(Append(log, m)) = Len(log) + 1
      /\ \A i \in 1 .. Len(log) : Append(log, m)[i] = log[i]
      /\ Append(log, m)[Len(log) + 1] = m
  BY <1>1, <1>2
<1> QED
  BY <1>1, <1>2, <1>3, <1>7, <1>8 DEF m, o, e

\* How an accepted push changes the count of keyed messages after an entry of the log: by one if it
\* carries an id and not at all otherwise.
LEMMA KeyedCount ==
  ASSUME LogInv, NEW pk \in Pubkey, NEW id \in MsgId \cup {NoId}, NEW body \in Body,
         Store(pk, id, body), Logged, NEW i \in 1 .. Len(log) + 1
  PROVE  /\ KeyedAfter(i)' = IF id = NoId \/ i = Len(log) + 1 THEN KeyedAfter(i) ELSE KeyedAfter(i) + 1
         /\ KeyedAfter(i) \in Nat
         /\ i = Len(log) + 1 => KeyedAfter(i) = 0
<1> DEFINE L == Len(log)
           S == {k \in i + 1 .. L + 1 - 1 : log[k].id # NoId}
           T == {k \in i + 1 .. L + 1 + 1 - 1 : log'[k].id # NoId}
<1>1. /\ L \in Nat /\ Len(log') = L + 1
      /\ \A k \in 1 .. L : log'[k] = log[k]
      /\ log'[L + 1].id = id
  <2>1. NewMessage(pk, id, body).id = id
    BY DEF NewMessage
  <2> QED
    BY <2>1, AcceptedIsLogged
<1>2. KeyedAfter(i) = Cardinality(S) /\ KeyedAfter(i)' = Cardinality(T)
  BY <1>1 DEF KeyedAfter, KeyedBetween
<1>3. IsFiniteSet(S)
  <2>1. IsFiniteSet(i + 1 .. L + 1 - 1)
    BY <1>1, FS_Interval
  <2> QED
    BY <2>1, FS_Subset
<1>4. L + 1 \notin S
  BY <1>1
<1>5. CASE i = L + 1
  <2>1. S = {} /\ T = {}
    BY <1>1, <1>5
  <2>2. Cardinality(S) = 0 /\ Cardinality(T) = 0
    BY <2>1, FS_EmptySet
  <2> HIDE DEF S, T
  <2> QED
    BY <1>2, <1>5, <2>2
<1>6. CASE i # L + 1 /\ id = NoId
  <2>1. T = S
    BY <1>1, <1>6
  <2>2. Cardinality(S) \in Nat
    BY <1>3, FS_CardinalityType
  <2> QED
    BY <1>2, <1>6, <2>1, <2>2
<1>7. CASE i # L + 1 /\ id # NoId
  <2>1. T = S \cup {L + 1}
    BY <1>1, <1>7
  <2>2. Cardinality(S) \in Nat /\ Cardinality(S \cup {L + 1}) = Cardinality(S) + 1
    BY <1>3, <1>4, FS_CardinalityType, FS_AddElement
  <2> QED
    BY <1>2, <1>7, <2>1, <2>2
<1> QED
  BY <1>5, <1>6, <1>7

\* The log stays numbered and the store its newest end.
LEMMA PushNumbers ==
  ASSUME LogInv, NEW pk \in Pubkey, NEW id \in MsgId \cup {NoId}, NEW body \in Body,
         Store(pk, id, body), Logged, Admitted(NewMessage(pk, id, body))
  PROVE  LogIsNumbered'
<1> DEFINE m == NewMessage(pk, id, body)
           o == Append(msgs, m)
           e == Excess(Len(msgs) + 1, Cap)
           L == Len(log)
<1>1. /\ next_seq \in Nat \ {0} /\ next_seq' = next_seq + 1
      /\ m \in Message
      /\ DropFirst(o, e, msgs')
      /\ log' \in Seq(Message) /\ L \in Nat /\ Len(log') = L + 1
      /\ \A i \in 1 .. L : log'[i] = log[i]
      /\ log'[L + 1] = m
  BY AcceptedIsLogged
<1>2. msgs \in Seq(Message) /\ Len(msgs) \in Nat /\ LogIsNumbered /\ m.seq = next_seq
  BY DEF LogInv, StoreInv, TypeOK, NewMessage
<1>3. Len(o) = Len(msgs) + 1 /\ o[Len(msgs) + 1] = m /\ \A i \in 1 .. Len(msgs) : o[i] = msgs[i]
  BY <1>1, <1>2
<1>4. Admitted(m)
  OBVIOUS
<1> HIDE DEF m, o, e, L
<1>5. L = next_seq - 1 /\ Len(log') = next_seq' - 1
  BY <1>1, <1>2 DEF LogIsNumbered, L
<1>6. ASSUME NEW i \in 1 .. Len(log') PROVE log'[i].seq = i /\ Admitted(log'[i])
  <2>1. CASE i = L + 1
    BY <1>1, <1>2, <1>4, <1>5, <2>1
  <2>2. CASE i # L + 1
    <3>1. i \in 1 .. L
      BY <1>1, <2>2
    <3>2. log'[i] = log[i]
      BY <1>1, <3>1
    <3>3. log[i].seq = i /\ Admitted(log[i])
      BY <1>2, <3>1 DEF LogIsNumbered, L
    <3> QED
      BY <3>2, <3>3
  <2> QED
    BY <2>1, <2>2
<1>7. ASSUME NEW i \in 1 .. Len(msgs') PROVE msgs'[i] = log'[Len(log') - Len(msgs') + i]
  <2>1. /\ e \in Nat /\ Len(msgs') \in Nat /\ Len(msgs) + 1 = Len(msgs') + e
        /\ msgs'[i] = o[e + i] /\ e + i \in 1 .. Len(msgs) + 1
    <3>1. /\ e \in Nat /\ Len(msgs') \in Nat /\ Len(o) = Len(msgs') + e
          /\ msgs'[i] = o[e + i]
      BY <1>1 DEF DropFirst
    <3> QED
      BY <1>2, <1>3, <3>1
  <2>2. Len(log') - Len(msgs') + i = L - Len(msgs) + e + i
    <3>1. Len(log') = L + 1 /\ L \in Nat /\ i \in Int
      BY <1>1, <2>1
    <3> QED
      BY <1>2, <2>1, <3>1
  <2>3. CASE e + i = Len(msgs) + 1
    BY <1>1, <1>2, <1>3, <2>1, <2>2, <2>3
  <2>4. CASE e + i # Len(msgs) + 1
    <3>1. e + i \in 1 .. Len(msgs)
      BY <1>2, <2>1, <2>4
    <3>2. msgs'[i] = msgs[e + i]
      BY <1>3, <2>1, <3>1
    <3>3. msgs[e + i] = log[L - Len(msgs) + (e + i)]
      BY <1>2, <3>1 DEF LogIsNumbered, L
    <3>4. Len(msgs) <= L
      BY <1>5, RetainsNoMore DEF LogInv, StoreInv
    <3>5. L - Len(msgs) + (e + i) \in 1 .. L /\ L - Len(msgs) + (e + i) = L - Len(msgs) + e + i
      BY <1>1, <1>2, <2>1, <3>1, <3>4
    <3> QED
      BY <1>1, <2>2, <3>2, <3>3, <3>5
  <2> QED
    BY <2>3, <2>4
<1> QED
  BY <1>5, <1>6, <1>7 DEF LogIsNumbered, Admitted

\* Every remembered key still is that of a stored message.
LEMMA PushSeenLogged ==
  ASSUME LogInv, NEW pk \in Pubkey, NEW id \in MsgId \cup {NoId}, NEW body \in Body,
         ~Duplicate(pk, id), Remember(pk, id), Store(pk, id, body), Logged
  PROVE  SeenIsLogged'
<1> DEFINE m == NewMessage(pk, id, body)
           L == Len(log)
<1>1. /\ L \in Nat /\ Len(log') = L + 1
      /\ \A i \in 1 .. L : log'[i] = log[i]
      /\ log'[L + 1] = m
  BY AcceptedIsLogged
<1>2. m.from_pubkey = pk /\ m.id = id
  BY DEF NewMessage
<1> HIDE DEF m
<1>3. seen_order \in Seq(Key) /\ Len(seen_order) \in Nat /\ SeenIsLogged
  BY DEF LogInv, StoreInv, TypeOK
<1>4. ASSUME NEW j \in 1 .. Len(seen_order)
      PROVE  \E i \in 1 .. Len(log') : seen_order[j] = <<log'[i].from_pubkey, log'[i].id>>
  <2>1. PICK i \in 1 .. L : seen_order[j] = <<log[i].from_pubkey, log[i].id>>
    BY <1>3 DEF SeenIsLogged
  <2>2. i \in 1 .. Len(log') /\ log'[i] = log[i]
    BY <1>1
  <2> QED
    BY <2>1, <2>2
<1>5. \E i \in 1 .. Len(log') : <<pk, id>> = <<log'[i].from_pubkey, log'[i].id>>
  <2>1. L + 1 \in 1 .. Len(log')
    BY <1>1
  <2> QED
    BY <1>1, <1>2, <2>1
<1>6. CASE id = NoId
  <2>1. seen_order' = seen_order
    BY <1>6 DEF Remember
  <2> QED
    BY <1>4, <2>1 DEF SeenIsLogged
<1>7. CASE id \in MsgId
  <2> DEFINE o == Append(seen_order, <<pk, id>>)
             d == Excess(Len(seen_order) + 1, SeenCap)
  <2>1. DropFirst(o, d, seen_order')
    BY <1>7, RememberKeepsSeen DEF LogInv, StoreInv
  <2>2. <<pk, id>> \in Key
    BY <1>7 DEF Key
  <2>3. /\ Len(o) = Len(seen_order) + 1 /\ o[Len(seen_order) + 1] = <<pk, id>>
        /\ \A j \in 1 .. Len(seen_order) : o[j] = seen_order[j]
    BY <1>3, <2>2
  <2> HIDE DEF o, d
  <2>4. ASSUME NEW j \in 1 .. Len(seen_order')
        PROVE  \E i \in 1 .. Len(log') : seen_order'[j] = <<log'[i].from_pubkey, log'[i].id>>
    <3>1. d + j \in 1 .. Len(seen_order) + 1 /\ seen_order'[j] = o[d + j]
      BY <2>1, <2>3 DEF DropFirst
    <3>2. CASE d + j = Len(seen_order) + 1
      BY <1>5, <2>3, <3>1, <3>2
    <3>3. CASE d + j # Len(seen_order) + 1
      <4>1. d + j \in 1 .. Len(seen_order)
        BY <1>3, <3>1, <3>3
      <4> QED
        BY <1>4, <2>3, <3>1, <4>1
    <3> QED
      BY <3>2, <3>3
  <2> QED
    BY <2>4 DEF SeenIsLogged
<1> QED
  BY <1>6, <1>7
\* The key of a stored message is forgotten only after SeenCap others: the queue of keys has never
\* moved further than the log.
LEMMA PushLoggedSeen ==
  ASSUME LogInv, NEW pk \in Pubkey, NEW id \in MsgId \cup {NoId}, NEW body \in Body,
         ~Duplicate(pk, id), Remember(pk, id), Store(pk, id, body), Logged
  PROVE  LoggedIsSeen'
<1> DEFINE m == NewMessage(pk, id, body)
           L == Len(log)
           Q == Len(seen_order)
           At(i) == \/ KeyedAfter(i)' >= SeenCap
                    \/ \E j \in 1 .. Len(seen_order') :
                         /\ seen_order'[j] = <<log'[i].from_pubkey, log'[i].id>>
                         /\ Len(seen_order') - j <= KeyedAfter(i)'
<1>1. /\ L \in Nat /\ Len(log') = L + 1
      /\ \A i \in 1 .. L : log'[i] = log[i]
      /\ log'[L + 1] = m
  BY AcceptedIsLogged
<1>2. m.from_pubkey = pk /\ m.id = id
  BY DEF NewMessage
<1> HIDE DEF m
<1>3. seen_order \in Seq(Key) /\ Q \in Nat /\ LoggedIsSeen /\ Q <= SeenCap /\ SeenCap \in Nat
  BY CapAssumption DEF LogInv, StoreInv, TypeOK, SeenMatchesOrder
<1>4. \A i \in 1 .. Len(log') : i = L + 1 \/ (i \in 1 .. L /\ log'[i] = log[i])
  BY <1>1
<1>5. \A i \in 1 .. L : KeyedAfter(i) \in Nat /\ KeyedAfter(i)' = IF id = NoId THEN KeyedAfter(i) ELSE KeyedAfter(i) + 1
  <2>1. ASSUME NEW i \in 1 .. L
        PROVE  KeyedAfter(i) \in Nat /\ KeyedAfter(i)' = IF id = NoId THEN KeyedAfter(i) ELSE KeyedAfter(i) + 1
    <3>1. i \in 1 .. L + 1 /\ i # L + 1
      BY <1>1
    <3> QED
      BY <3>1, KeyedCount
  <2> QED
    BY <2>1
<1>6. PICK new \in Nat : new = L + 1
  BY <1>1
<1>7. KeyedAfter(new)' = 0
  <2>1. new \in 1 .. L + 1
    BY <1>1, <1>6
  <2> QED
    BY <1>6, <2>1, KeyedCount
<1>8. CASE id = NoId
  <2>1. seen_order' = seen_order
    BY <1>8 DEF Remember
  <2>2. ASSUME NEW i \in 1 .. L, log[i].id # NoId PROVE At(i)
    <3>1. log'[i] = log[i]
      BY <1>1
    <3>2. CASE KeyedAfter(i) >= SeenCap
      BY <1>3, <1>8, <1>5, <3>2
    <3>3. ASSUME NEW j \in 1 .. Q, seen_order[j] = <<log[i].from_pubkey, log[i].id>>, Q - j <= KeyedAfter(i)
          PROVE  At(i)
      <4>1. Q - j <= KeyedAfter(i)'
        BY <1>8, <1>5, <3>3
      <4> QED
        BY <2>1, <3>1, <3>3, <4>1
    <3> QED
      BY <1>3, <2>2, <3>2, <3>3 DEF LoggedIsSeen
  <2> QED
    BY <1>1, <1>2, <1>4, <1>8, <2>2 DEF LoggedIsSeen
<1>9. CASE id \in MsgId
  <2> DEFINE o == Append(seen_order, <<pk, id>>)
             d == Excess(Q + 1, SeenCap)
  <2>1. DropFirst(o, d, seen_order')
    BY <1>9, RememberKeepsSeen DEF LogInv, StoreInv
  <2>2. <<pk, id>> \in Key
    BY <1>9 DEF Key
  <2>3. Len(o) = Q + 1 /\ o[Q + 1] = <<pk, id>> /\ \A j \in 1 .. Q : o[j] = seen_order[j]
    BY <1>3, <2>2
  <2>4. d \in 0 .. 1 /\ (d = 1 => Q = SeenCap)
    BY <1>3 DEF Excess
  <2> HIDE DEF o, d
  <2>5. Len(seen_order') \in Nat /\ Len(seen_order') = Q + 1 - d
    BY <1>3, <2>1, <2>3, <2>4 DEF DropFirst
  <2>6. ASSUME NEW j \in 1 .. Q + 1, j > d
        PROVE  j - d \in 1 .. Len(seen_order') /\ seen_order'[j - d] = o[j]
    <3>1. j - d \in 1 .. Len(seen_order') /\ d + (j - d) = j
      BY <1>3, <2>4, <2>5, <2>6
    <3> QED
      BY <2>1, <3>1 DEF DropFirst
  <2>7. At(new)
    <3>1. Q + 1 > d /\ Q + 1 \in 1 .. Q + 1
      BY <1>3, <2>4, CapAssumption
    <3>2. Q + 1 - d \in 1 .. Len(seen_order') /\ seen_order'[Q + 1 - d] = <<pk, id>>
      <4> DEFINE q == Q + 1
      <4> HIDE DEF q
      <4>1. q - d \in 1 .. Len(seen_order') /\ seen_order'[q - d] = o[q]
        BY <2>6, <3>1 DEF q
      <4>2. o[q] = <<pk, id>>
        BY <2>3 DEF q
      <4>3. Q + 1 - d = q - d
        BY <1>3, <2>4 DEF q
      <4> QED
        BY <4>1, <4>2, <4>3
    <3>3. Len(seen_order') - (Q + 1 - d) <= KeyedAfter(new)'
      BY <1>3, <1>7, <2>4, <2>5
    <3> QED
      BY <1>1, <1>2, <1>6, <3>2, <3>3
  <2>8. ASSUME NEW i \in 1 .. L, log[i].id # NoId PROVE At(i)
    <3>1. log'[i] = log[i]
      BY <1>1
    <3>2. CASE KeyedAfter(i) >= SeenCap
      BY <1>3, <1>9, NoIdAssumption, <1>5, <3>2
    <3>3. ASSUME NEW j \in 1 .. Q, seen_order[j] = <<log[i].from_pubkey, log[i].id>>, Q - j <= KeyedAfter(i)
          PROVE  At(i)
      <4>1. CASE j > d
        <5>1. j - d \in 1 .. Len(seen_order') /\ seen_order'[j - d] = seen_order[j]
          BY <1>3, <2>3, <2>6, <4>1
        <5>2. KeyedAfter(i) \in Nat /\ KeyedAfter(i)' = KeyedAfter(i) + 1
          BY <1>5, <1>9, NoIdAssumption
        <5>3. Len(seen_order') - (j - d) = Q - j + 1
          BY <1>3, <2>4, <2>5
        <5>4. Len(seen_order') - (j - d) <= KeyedAfter(i)'
          BY <1>3, <3>3, <5>2, <5>3
        <5> QED
          BY <3>1, <3>3, <5>1, <5>4
      <4>2. CASE ~(j > d)
        <5>1. KeyedAfter(i)' >= SeenCap
          BY <1>3, <1>9, <1>5, <2>4, <3>3, <4>2, NoIdAssumption
        <5> QED
          BY <5>1
      <4> QED
        BY <4>1, <4>2
    <3> QED
      BY <1>3, <2>8, <3>2, <3>3 DEF LoggedIsSeen
  <2>9. ASSUME NEW i \in 1 .. Len(log'), log'[i].id # NoId PROVE At(i)
    BY <1>4, <1>6, <2>7, <2>8, <2>9
  <2> QED
    BY <2>9 DEF LoggedIsSeen
<1> QED
  BY <1>8, <1>9

\* A second copy of a message is accepted only after SeenCap others.
LEMMA PushRepeats ==
  ASSUME LogInv, NEW pk \in Pubkey, NEW id \in MsgId \cup {NoId}, NEW body \in Body,
         ~Duplicate(pk, id), Store(pk, id, body), Logged
  PROVE  RepeatOnlyAfterSeenCap'
<1> DEFINE m == NewMessage(pk, id, body)
           L == Len(log)
<1>1. /\ L \in Nat /\ Len(log') = L + 1
      /\ \A i \in 1 .. L : log'[i] = log[i]
      /\ log'[L + 1] = m
  BY AcceptedIsLogged
<1>2. m.from_pubkey = pk /\ m.id = id
  BY DEF NewMessage
<1> HIDE DEF m
<1>3. LoggedIsSeen /\ RepeatOnlyAfterSeenCap /\ SeenCap \in Nat
  BY CapAssumption DEF LogInv
<1>4. ASSUME NEW i \in 1 .. L, log[i].id # NoId, log[i].id = id, log[i].from_pubkey = pk
      PROVE  KeyedAfter(i) >= SeenCap
  <2>1. <<pk, id>> \notin seen
    BY <1>4 DEF Duplicate, KeyOf
  <2>2. \A j \in 1 .. Len(seen_order) : seen_order[j] # <<pk, id>>
    BY <2>1 DEF LogInv, StoreInv, SeenMatchesOrder, Elements
  <2> QED
    BY <1>3, <1>4, <2>2 DEF LoggedIsSeen
<1>5. ASSUME NEW i \in 1 .. Len(log'), NEW j \in 1 .. Len(log'), i < j, log'[i].id # NoId,
             log'[i].id = log'[j].id, log'[i].from_pubkey = log'[j].from_pubkey
      PROVE  Cardinality(KeyedBetween(i, j)') >= SeenCap
  <2>1. i \in 1 .. L /\ log'[i] = log[i]
    BY <1>1, <1>5
  <2>2. j \in 1 .. L + 1
    BY <1>1
  <2>3. KeyedBetween(i, j)' = KeyedBetween(i, j)
    <3>1. \A k \in i + 1 .. j - 1 : log'[k] = log[k]
      BY <1>1, <2>1, <2>2
    <3> QED
      BY <3>1 DEF KeyedBetween
  <2>4. CASE j = L + 1
    <3>1. KeyedAfter(i) >= SeenCap
      BY <1>1, <1>2, <1>4, <1>5, <2>1, <2>4
    <3> QED
      BY <2>3, <2>4, <3>1 DEF KeyedAfter
  <2>5. CASE j # L + 1
    <3>1. j \in 1 .. L /\ log'[j] = log[j]
      BY <1>1, <2>2, <2>5
    <3>2. Cardinality(KeyedBetween(i, j)) >= SeenCap
      BY <1>3, <1>5, <2>1, <3>1 DEF RepeatOnlyAfterSeenCap
    <3> QED
      BY <2>3, <3>2
  <2> QED
    BY <2>4, <2>5
<1> QED
  BY <1>5 DEF RepeatOnlyAfterSeenCap, KeyedBetween

\* What leaves the store alone keeps the log.
LEMMA LogStutter == ASSUME LogInv, UNCHANGED storeVars, log' = log PROVE LogInv'
<1>1. UNCHANGED <<next_seq, msgs, seen, seen_order>> /\ StoreInv'
  BY StutterKeepsInv DEF storeVars, LogInv
<1>2. LogIsNumbered'
  BY <1>1 DEF LogInv, LogIsNumbered, Admitted
<1>3. SeenIsLogged'
  BY <1>1 DEF LogInv, SeenIsLogged
<1>4. LoggedIsSeen'
  BY <1>1 DEF LogInv, LoggedIsSeen, KeyedAfter, KeyedBetween
<1>5. RepeatOnlyAfterSeenCap'
  BY <1>1 DEF LogInv, RepeatOnlyAfterSeenCap, KeyedBetween
<1> QED
  BY <1>1, <1>2, <1>3, <1>4, <1>5 DEF LogInv

\* One push keeps all this.  The log only grows, and afterwards it holds the message: it was stored
\* now, or when its key was.
LEMMA PushKeepsLog ==
  ASSUME LogInv, NEW pk \in Pubkey, NEW id \in MsgId \cup {NoId}, NEW body \in Body,
         push(pk, id, body), Logged, Admitted(NewMessage(pk, id, body))
  PROVE  /\ LogInv'
         /\ next_seq' >= next_seq
         /\ Len(log') >= Len(log) /\ \A i \in 1 .. Len(log) : log'[i] = log[i]
         /\ \E i \in 1 .. Len(log') : log'[i].from_pubkey = pk /\ log'[i].id = id
<1>1. CASE Duplicate(pk, id) /\ UNCHANGED storeVars
  <2>1. UNCHANGED <<next_seq, msgs, seen, seen_order>> /\ log' = log
    BY <1>1 DEF storeVars, Logged, LogInv, StoreInv, TypeOK
  <2>2. LogInv'
    BY <1>1, <2>1, LogStutter
  <2>3. <<pk, id>> \in Elements(seen_order) /\ SeenIsLogged
    BY <1>1 DEF Duplicate, KeyOf, LogInv, StoreInv, SeenMatchesOrder
  <2>4. PICK j \in 1 .. Len(seen_order) : seen_order[j] = <<pk, id>>
    BY <2>3 DEF Elements
  <2>5. \E i \in 1 .. Len(log) : log[i].from_pubkey = pk /\ log[i].id = id
    <3>1. PICK i \in 1 .. Len(log) : seen_order[j] = <<log[i].from_pubkey, log[i].id>>
      BY <2>3 DEF SeenIsLogged
    <3> QED
      BY <2>4, <3>1
  <2>6. next_seq \in Nat /\ Len(log) \in Nat
    BY DEF LogInv, StoreInv, TypeOK
  <2> QED
    BY <2>1, <2>2, <2>5, <2>6
<1>2. CASE ~Duplicate(pk, id) /\ Remember(pk, id) /\ Store(pk, id, body)
  <2>1. StoreInv'
    BY PushKeepsInv DEF LogInv
  <2>2. /\ next_seq \in Nat \ {0} /\ next_seq' = next_seq + 1
        /\ log' \in Seq(Message) /\ Len(log) \in Nat /\ Len(log') = Len(log) + 1
        /\ \A i \in 1 .. Len(log) : log'[i] = log[i]
        /\ log'[Len(log) + 1] = NewMessage(pk, id, body)
    BY <1>2, AcceptedIsLogged
  <2>3. LogIsNumbered' /\ SeenIsLogged' /\ LoggedIsSeen' /\ RepeatOnlyAfterSeenCap'
    BY <1>2, PushNumbers, PushSeenLogged, PushLoggedSeen, PushRepeats
  <2>4. LogInv'
    BY <2>1, <2>2, <2>3 DEF LogInv
  <2>5. \E i \in 1 .. Len(log') : log'[i].from_pubkey = pk /\ log'[i].id = id
    <3>1. Len(log) + 1 \in 1 .. Len(log')
      BY <2>2
    <3> QED
      BY <2>2, <3>1 DEF NewMessage
  <2> QED
    BY <2>2, <2>4, <2>5
<1> QED
  BY <1>1, <1>2 DEF push
-----------------------------------------------------------------------------
(* The inductive invariant.                                                *)

\* Nothing is sent, stored or shown at the start.
LEMMA FeedInitInv == FeedInit => FeedInv
<1> SUFFICES ASSUME FeedInit PROVE FeedInv
  OBVIOUS
<1>1. StoreInv
  BY CapAssumption DEF FeedInit, Init, StoreInv, TypeOK, SeenMatchesOrder, RetainedIsLatestRun,
     NoRetainedDuplicate, RetainedIsRemembered, Elements
<1>2. FeedTypeOK
  BY TrafficAssumption DEF FeedInit, FeedTypeOK
<1>3. UnsentIsNowhere /\ LogIsNumbered /\ SeenIsLogged /\ LoggedIsSeen /\ RepeatOnlyAfterSeenCap
  BY DEF FeedInit, Init, UnsentIsNowhere, LogIsNumbered, SeenIsLogged, LoggedIsSeen, RepeatOnlyAfterSeenCap
<1>4. ReaderIsBehind /\ TranscriptInOrder
  BY DEF FeedInit, Init, ReaderIsBehind, TranscriptInOrder
<1> QED
  BY <1>1, <1>2, <1>3, <1>4 DEF FeedInit, FeedInv

\* The reader's part of the invariant outlasts a step in which the log grows.
LEMMA LogGrows ==
  ASSUME FeedInv, LogInv', next_seq' >= next_seq, UNCHANGED <<after, transcript>>,
         Len(log') >= Len(log), \A i \in 1 .. Len(log) : log'[i] = log[i]
  PROVE  ReaderIsBehind' /\ TranscriptInOrder'
<1>1. ReaderIsBehind /\ TranscriptInOrder /\ next_seq \in Nat /\ after \in Nat /\ next_seq' \in Nat
      /\ Len(log) \in Nat /\ Len(log') \in Nat
  BY DEF FeedInv, FeedTypeOK, StoreInv, TypeOK, LogInv
<1>2. after' < next_seq'
  BY <1>1 DEF ReaderIsBehind
<1>3. ASSUME NEW i \in 1 .. Len(transcript)
      PROVE  transcript[i].seq <= after /\ \E k \in 1 .. Len(log') : transcript[i] = log'[k]
  <2>1. PICK k \in 1 .. Len(log) : transcript[i] = log[k]
    BY <1>1 DEF ReaderIsBehind
  <2>2. k \in 1 .. Len(log') /\ log'[k] = log[k]
    BY <1>1
  <2> QED
    BY <1>1, <2>1, <2>2 DEF ReaderIsBehind
<1> QED
  BY <1>1, <1>2, <1>3 DEF ReaderIsBehind, TranscriptInOrder

\* A message is sent.
LEMMA SendInv == ASSUME FeedInv, NEW d \in Traffic, messages_send(d) PROVE FeedInv'
<1>1. LogInv
  BY DEF FeedInv, LogInv, FeedTypeOK
<1>2. /\ UNCHANGED <<next_seq, msgs, seen, seen_order, peers, after, transcript, log>>
      /\ d \in unsent /\ unsent' = unsent \ {d}
  BY DEF messages_send
<1>3. PICK n \in 0 .. Copies : inflight' = [inflight EXCEPT ![d] = n]
  BY DEF messages_send, broadcast_bytes_to_fabric
<1>4. LogInv'
  BY <1>1, <1>2, LogStutter DEF storeVars
<1>5. FeedTypeOK'
  BY <1>2, <1>3 DEF FeedInv, FeedTypeOK
<1>6. UnsentIsNowhere'
  BY <1>2, <1>3 DEF FeedInv, FeedTypeOK, UnsentIsNowhere
<1>7. ReaderIsBehind' /\ TranscriptInOrder'
  BY <1>2 DEF FeedInv, ReaderIsBehind, TranscriptInOrder
<1> QED
  BY <1>2, <1>4, <1>5, <1>6, <1>7 DEF FeedInv, LogInv

\* A copy arrives: its message is stored or found to be a copy, or it does not verify.
LEMMA ReceiveInv ==
  ASSUME FeedInv, NEW d \in Traffic, Receive(d)
  PROVE  /\ FeedInv'
         /\ Verifies(d) => \E i \in 1 .. Len(log') : log'[i].from_pubkey = d.source /\ log'[i].id = d.id
<1>1. LogInv
  BY DEF FeedInv, LogInv, FeedTypeOK
<1>2. d.source \in Pubkey /\ d.id \in MsgId /\ d.body \in Body
  BY TrafficAssumption
<1>3. /\ UNCHANGED <<unsent, after, transcript>>
      /\ inflight[d] > 0 /\ inflight' = [inflight EXCEPT ![d] = inflight[d] - 1]
  BY DEF Receive
<1>4. inflight \in [Traffic -> 0 .. Copies] /\ Copies \in Nat
  BY TrafficAssumption DEF FeedInv, FeedTypeOK
<1>5. inflight' \in [Traffic -> 0 .. Copies]
  <2>1. inflight[d] - 1 \in 0 .. Copies
    BY <1>3, <1>4
  <2> QED
    BY <1>3, <1>4, <2>1
<1>6. UnsentIsNowhere'
  BY <1>3, <1>4 DEF FeedInv, UnsentIsNowhere, FeedTypeOK
<1>7. CASE Verifies(d)
  <2>1. push(d.source, d.id, d.body) /\ Logged /\ peers' = peers \cup {d.source}
    BY <1>7 DEF Receive, note_peer, record_fabric_message
  <2>2. d \in {f \in Traffic : f.self_ok /\ f.payload_ok}
    BY <1>7 DEF Verifies, check_self_signature, verify_payload
  <2>3. Admitted(NewMessage(d.source, d.id, d.body))
    BY <2>2 DEF Admitted, NewMessage
  <2>4. /\ LogInv'
        /\ next_seq' >= next_seq
        /\ Len(log') >= Len(log) /\ \A i \in 1 .. Len(log) : log'[i] = log[i]
        /\ \E i \in 1 .. Len(log') : log'[i].from_pubkey = d.source /\ log'[i].id = d.id
    BY <1>1, <1>2, <2>1, <2>3, PushKeepsLog
  <2>5. ReaderIsBehind' /\ TranscriptInOrder'
    BY <1>3, <2>4, LogGrows
  <2>6. peers' \subseteq Pubkey
    BY <1>2, <2>1 DEF FeedInv, FeedTypeOK
  <2>7. FeedTypeOK'
    BY <1>3, <1>5, <2>4, <2>6 DEF FeedInv, FeedTypeOK, LogInv
  <2> QED
    BY <1>6, <2>4, <2>5, <2>6, <2>7 DEF FeedInv, LogInv
<1>8. CASE ~Verifies(d)
  <2>1. UNCHANGED <<next_seq, msgs, seen, seen_order, peers, log>>
    BY <1>8 DEF Receive
  <2>2. LogInv'
    BY <1>1, <2>1, LogStutter DEF storeVars
  <2>3. ReaderIsBehind' /\ TranscriptInOrder'
    BY <1>3, <2>1 DEF FeedInv, ReaderIsBehind, TranscriptInOrder
  <2>4. FeedTypeOK'
    BY <1>3, <1>5, <2>1 DEF FeedInv, FeedTypeOK
  <2> QED
    BY <1>6, <1>8, <2>1, <2>2, <2>3, <2>4 DEF FeedInv, LogInv
<1> QED
  BY <1>7, <1>8

\* Noting the sender of a request touches the peer registry only.
LEMMA RequestInv == ASSUME FeedInv, NEW pk \in Pubkey, ExecuteRequest(pk) PROVE FeedInv'
<1>1. /\ UNCHANGED <<next_seq, msgs, seen, seen_order, unsent, inflight, after, transcript, log>>
      /\ peers' = peers \cup {pk}
  BY DEF ExecuteRequest, note_peer
<1>2. LogInv'
  BY <1>1, LogStutter DEF FeedInv, LogInv, FeedTypeOK, storeVars
<1>3. FeedTypeOK' /\ UnsentIsNowhere' /\ ReaderIsBehind' /\ TranscriptInOrder'
  BY <1>1 DEF FeedInv, FeedTypeOK, UnsentIsNowhere, ReaderIsBehind, TranscriptInOrder
<1> QED
  BY <1>1, <1>2, <1>3 DEF FeedInv, LogInv

\* A program on this node pushes.
LEMMA GuestPushInv == ASSUME FeedInv, NEW g \in GuestPush, messages_push(g) PROVE FeedInv'
<1>1. LogInv
  BY DEF FeedInv, LogInv, FeedTypeOK
<1>2. g.source \in Pubkey /\ g.id \in MsgId \cup {NoId} /\ g.body \in Body
  BY TrafficAssumption
<1>3. /\ push(g.source, g.id, g.body) /\ Logged
      /\ UNCHANGED <<unsent, inflight, peers, after, transcript>>
  BY DEF messages_push
<1>4. Admitted(NewMessage(g.source, g.id, g.body))
  BY DEF Admitted, NewMessage
<1>5. /\ LogInv'
      /\ next_seq' >= next_seq
      /\ Len(log') >= Len(log) /\ \A i \in 1 .. Len(log) : log'[i] = log[i]
  BY <1>1, <1>2, <1>3, <1>4, PushKeepsLog
<1>6. ReaderIsBehind' /\ TranscriptInOrder'
  BY <1>3, <1>5, LogGrows
<1>7. FeedTypeOK' /\ UnsentIsNowhere'
  BY <1>3, <1>5 DEF FeedInv, FeedTypeOK, LogInv, UnsentIsNowhere
<1> QED
  BY <1>3, <1>5, <1>6, <1>7 DEF FeedInv, LogInv
\* What a poll appends to the transcript: the retained messages from the mark on, without a gap, and
\* the mark is then the number of the last.
LEMMA PollReads ==
  ASSUME FeedInv, poll_messages
  PROVE  \E n \in 0 .. Len(msgs) - Below(after) :
           /\ Below(after) \in 0 .. Len(msgs)
           /\ \A i \in 1 .. Len(msgs) : msgs[i].seq > after <=> i > Below(after)
           /\ transcript' \in Seq(Message) /\ Len(transcript') = Len(transcript) + n
           /\ \A i \in 1 .. Len(transcript) : transcript'[i] = transcript[i]
           /\ \A i \in 1 .. n : transcript'[Len(transcript) + i] = msgs[Below(after) + i]
           /\ after' = IF n = 0 THEN after ELSE msgs[Below(after) + n].seq
<1> DEFINE b == Below(after)
           batch == messages_read(after)
           R == {batch[i].seq : i \in 1 .. Len(batch)}
<1>1. TypeOK /\ RetainedIsLatestRun /\ after \in Nat /\ after < next_seq /\ transcript \in Seq(Message)
  BY DEF FeedInv, StoreInv, FeedTypeOK, ReaderIsBehind
<1>2. b \in 0 .. Len(msgs) /\ \A i \in 1 .. Len(msgs) : msgs[i].seq > after <=> i > b
  BY <1>1, ReadsTheEnd
<1>3. PICK n \in 0 .. Len(msgs) - b :
        batch \in Seq(Message) /\ Len(batch) = n /\ \A i \in 1 .. n : batch[i] = msgs[b + i]
  BY <1>1, ReadsARun
<1>4. transcript' = transcript \o batch /\ after' = Max({after} \cup R)
  BY DEF poll_messages
<1>5. msgs \in Seq(Message) /\ Len(msgs) \in Nat /\ next_seq \in Nat \ {0} /\ Len(msgs) <= next_seq - 1
  BY <1>1, RetainsNoMore
<1> HIDE DEF b, batch
<1>6. \A i \in 1 .. n : /\ b + i \in 1 .. Len(msgs) /\ batch[i] = msgs[b + i]
                        /\ batch[i].seq = next_seq - Len(msgs) + b + i - 1 /\ batch[i].seq > after
  <2>1. ASSUME NEW i \in 1 .. n PROVE b + i \in 1 .. Len(msgs) /\ b + i > b
    BY <1>2, <1>3, <1>5
  <2>2. ASSUME NEW i \in 1 .. n PROVE batch[i].seq = next_seq - Len(msgs) + b + i - 1
    <3>1. msgs[b + i].seq = next_seq - Len(msgs) + (b + i) - 1
      BY <1>1, <2>1 DEF RetainedIsLatestRun
    <3>2. next_seq - Len(msgs) + (b + i) - 1 = next_seq - Len(msgs) + b + i - 1
      BY <1>2, <1>3, <1>5
    <3> QED
      BY <1>3, <3>1, <3>2
  <2> QED
    BY <1>2, <1>3, <2>1, <2>2
<1>7. after' = IF n = 0 THEN after ELSE msgs[b + n].seq
  <2>1. CASE n = 0
    <3>1. R = {}
      BY <1>3, <2>1
    <3>2. Max({after} \cup R) = after
      <4> HIDE DEF R
      <4>1. {after} \cup R = {after} /\ {after} \subseteq Int /\ \A y \in {after} : y <= after
        BY <1>1, <3>1
      <4>2. Max({after}) = after
        BY <4>1, MaxIs
      <4> QED
        BY <4>1, <4>2
    <3> QED
      BY <1>4, <2>1, <3>2
  <2>2. CASE n # 0
    <3> DEFINE top == batch[n].seq
    <3>1. n \in 1 .. n
      BY <1>3, <2>2
    <3>2. \A i \in 1 .. n : batch[i].seq \in Int /\ batch[i].seq <= top
      <4>1. \A i \in 1 .. n : /\ batch[i].seq = next_seq - Len(msgs) + b + i - 1
                              /\ top = next_seq - Len(msgs) + b + n - 1
        BY <1>6, <3>1
      <4>2. b \in Int /\ n \in Int /\ next_seq \in Int /\ Len(msgs) \in Int
        BY <1>2, <1>3, <1>5
      <4> HIDE DEF top
      <4> QED
        BY <4>1, <4>2
    <3>3. top \in R /\ \A y \in R : y \in Int /\ y <= top
      BY <1>3, <3>1, <3>2
    <3>4. after <= top /\ top = msgs[b + n].seq
      BY <1>1, <1>6, <3>1, <3>2
    <3> HIDE DEF R, top
    <3>5. {after} \cup R \subseteq Int /\ top \in {after} \cup R /\ \A y \in {after} \cup R : y <= top
      BY <1>1, <3>3, <3>4
    <3>6. Max({after} \cup R) = top
      BY <3>5, MaxIs
    <3> QED
      BY <1>4, <2>2, <3>4, <3>6
  <2> QED
    BY <2>1, <2>2
<1>8. /\ transcript' \in Seq(Message) /\ Len(transcript') = Len(transcript) + n
      /\ \A i \in 1 .. Len(transcript) : transcript'[i] = transcript[i]
      /\ \A i \in 1 .. n : transcript'[Len(transcript) + i] = msgs[b + i]
  <2>1. Len(transcript) \in Nat
    BY <1>1
  <2>2. /\ transcript' \in Seq(Message) /\ Len(transcript') = Len(transcript) + n
        /\ \A i \in 1 .. Len(transcript) + n : transcript'[i] =
             IF i <= Len(transcript) THEN transcript[i] ELSE batch[i - Len(transcript)]
    BY <1>1, <1>3, <1>4, ConcatProperties
  <2>3. ASSUME NEW i \in 1 .. n PROVE transcript'[Len(transcript) + i] = msgs[b + i]
    <3>1. /\ Len(transcript) + i \in 1 .. Len(transcript) + n /\ ~(Len(transcript) + i <= Len(transcript))
          /\ (Len(transcript) + i) - Len(transcript) = i
      BY <1>3, <2>1
    <3> QED
      BY <1>3, <2>2, <3>1
  <2>4. \A i \in 1 .. Len(transcript) : transcript'[i] = transcript[i]
    BY <1>3, <2>1, <2>2
  <2> QED
    BY <2>2, <2>3, <2>4
<1> QED
  BY <1>2, <1>3, <1>7, <1>8 DEF b

\* A poll keeps the transcript in order and the reader behind the store.
LEMMA PollInv == ASSUME FeedInv, poll_messages PROVE FeedInv'
<1> DEFINE b == Below(after)
           T == Len(transcript)
<1>1. PICK n \in 0 .. Len(msgs) - b :
        /\ b \in 0 .. Len(msgs)
        /\ \A i \in 1 .. Len(msgs) : msgs[i].seq > after <=> i > b
        /\ transcript' \in Seq(Message) /\ Len(transcript') = T + n
        /\ \A i \in 1 .. T : transcript'[i] = transcript[i]
        /\ \A i \in 1 .. n : transcript'[T + i] = msgs[b + i]
        /\ after' = IF n = 0 THEN after ELSE msgs[b + n].seq
  BY PollReads
<1>2. UNCHANGED <<next_seq, msgs, seen, seen_order, unsent, inflight, peers, log>>
  BY DEF poll_messages
<1>3. /\ after \in Nat /\ after < next_seq /\ transcript \in Seq(Message) /\ T \in Nat
      /\ ReaderIsBehind /\ TranscriptInOrder /\ RetainedIsLatestRun /\ LogIsNumbered
      /\ log \in Seq(Message) /\ Len(log) \in Nat
  BY DEF FeedInv, FeedTypeOK, ReaderIsBehind, StoreInv
<1>4. msgs \in Seq(Message) /\ Len(msgs) \in Nat /\ next_seq \in Nat \ {0} /\ Len(msgs) <= next_seq - 1
  BY RetainsNoMore DEF FeedInv, StoreInv
<1> HIDE DEF b, T
<1>5. ASSUME NEW i \in 1 .. n
      PROVE  /\ b + i \in 1 .. Len(msgs) /\ transcript'[T + i] = msgs[b + i]
             /\ msgs[b + i].seq > after
             /\ msgs[b + i].seq = next_seq - Len(msgs) + (b + i) - 1
             /\ \E k \in 1 .. Len(log) : msgs[b + i] = log[k]
  <2>1. b + i \in 1 .. Len(msgs) /\ b + i > b
    BY <1>1, <1>4
  <2>2. msgs[b + i].seq > after /\ msgs[b + i].seq = next_seq - Len(msgs) + (b + i) - 1
    BY <1>1, <1>3, <2>1 DEF RetainedIsLatestRun
  <2>3. msgs[b + i] = log[Len(log) - Len(msgs) + (b + i)] /\ Len(log) = next_seq - 1
    BY <1>3, <2>1 DEF LogIsNumbered
  <2>4. Len(log) - Len(msgs) + (b + i) \in 1 .. Len(log)
    BY <1>3, <1>4, <2>1, <2>3
  <2> QED
    BY <1>1, <2>1, <2>2, <2>3, <2>4
<1>6. after' \in Nat /\ after <= after' /\ after' < next_seq /\ \A i \in 1 .. n : msgs[b + i].seq <= after'
  <2>1. CASE n = 0
    BY <1>1, <1>3, <2>1
  <2>2. CASE n # 0
    <3>1. n \in 1 .. n /\ after' = msgs[b + n].seq
      BY <1>1, <2>2
    <3>2. after' > after /\ after' = next_seq - Len(msgs) + (b + n) - 1 /\ b + n \in 1 .. Len(msgs)
      BY <1>5, <3>1
    <3>3. \A i \in 1 .. n : msgs[b + i].seq = next_seq - Len(msgs) + (b + i) - 1
      BY <1>5
    <3>4. after' \in Nat /\ after <= after' /\ after' < next_seq
      BY <1>3, <1>4, <3>2
    <3>5. ASSUME NEW i \in 1 .. n PROVE msgs[b + i].seq <= after'
      <4>1. b \in Int /\ n \in Int /\ i \in Int /\ i <= n
        BY <1>1, <1>4
      <4>2. msgs[b + i].seq = next_seq - Len(msgs) + (b + i) - 1
        BY <3>3
      <4> QED
        BY <1>4, <3>2, <4>1, <4>2
    <3> QED
      BY <3>4, <3>5
  <2> QED
    BY <2>1, <2>2
<1>7. \A i \in 1 .. Len(transcript') : i \in 1 .. T \/ \E k \in 1 .. n : i = T + k
  <2>1. ASSUME NEW i \in 1 .. Len(transcript'), i \notin 1 .. T PROVE \E k \in 1 .. n : i = T + k
    <3>1. i - T \in 1 .. n /\ i = T + (i - T)
      BY <1>1, <1>3, <2>1
    <3> QED
      BY <3>1
  <2> QED
    BY <2>1
<1>8. ReaderIsBehind'
  <2>1. ASSUME NEW i \in 1 .. Len(transcript')
        PROVE  transcript'[i].seq <= after' /\ \E k \in 1 .. Len(log) : transcript'[i] = log[k]
    <3>1. CASE i \in 1 .. T
      <4>1. transcript'[i] = transcript[i]
        BY <1>1, <3>1
      <4>2. transcript[i].seq <= after /\ \E k \in 1 .. Len(log) : transcript[i] = log[k]
        BY <1>3, <3>1 DEF ReaderIsBehind, T
      <4>3. transcript[i].seq \in Nat
        <5>1. transcript[i] \in Message
          BY <1>3, <3>1 DEF T
        <5> QED
          BY <5>1 DEF Message
      <4> QED
        BY <1>3, <1>6, <4>1, <4>2, <4>3
    <3>2. ASSUME NEW k \in 1 .. n, i = T + k
          PROVE  transcript'[i].seq <= after' /\ \E l \in 1 .. Len(log) : transcript'[i] = log[l]
      BY <1>5, <1>6, <3>2
    <3> QED
      BY <1>7, <3>1, <3>2
  <2> QED
    BY <1>2, <1>6, <2>1 DEF ReaderIsBehind
<1>9. TranscriptInOrder'
  <2>1. ASSUME NEW i \in 1 .. Len(transcript'), NEW j \in 1 .. Len(transcript'), i < j
        PROVE  transcript'[i].seq < transcript'[j].seq
    <3>1. CASE i \in 1 .. T /\ j \in 1 .. T
      BY <1>1, <1>3, <2>1, <3>1 DEF TranscriptInOrder, T
    <3>2. ASSUME i \in 1 .. T, NEW k \in 1 .. n, j = T + k PROVE transcript'[i].seq < transcript'[j].seq
      <4>1. transcript'[i] = transcript[i] /\ transcript[i].seq <= after
        BY <1>1, <1>3, <3>2 DEF ReaderIsBehind, T
      <4>2. transcript'[j] = msgs[b + k] /\ msgs[b + k].seq > after
        BY <1>5, <3>2
      <4>3. transcript[i].seq \in Nat /\ msgs[b + k].seq \in Nat
        <5>1. transcript[i] \in Message
          BY <1>3, <3>2 DEF T
        <5>2. b + k \in 1 .. Len(msgs)
          BY <1>5
        <5>3. msgs[b + k] \in Message
          BY <1>4, <5>2
        <5> QED
          BY <5>1, <5>3 DEF Message
      <4>4. \A x, y, z \in Nat : x <= y /\ z > y => x < z
        OBVIOUS
      <4>5. transcript[i].seq < msgs[b + k].seq
        BY <1>3, <4>1, <4>2, <4>3, <4>4
      <4> QED
        BY <4>1, <4>2, <4>5
    <3>3. ASSUME NEW k \in 1 .. n, i = T + k, NEW l \in 1 .. n, j = T + l
          PROVE  transcript'[i].seq < transcript'[j].seq
      <4>1. k < l
        BY <1>1, <1>3, <2>1, <3>3
      <4>2. /\ transcript'[i].seq = next_seq - Len(msgs) + (b + k) - 1
            /\ transcript'[j].seq = next_seq - Len(msgs) + (b + l) - 1
        BY <1>5, <3>3
      <4> QED
        BY <1>1, <1>4, <4>1, <4>2
    <3>4. ASSUME j \in 1 .. T PROVE i \in 1 .. T
      BY <1>3, <2>1, <3>4
    <3> QED
      BY <1>7, <3>1, <3>2, <3>3, <3>4
  <2> QED
    BY <2>1 DEF TranscriptInOrder
<1>10. LogInv'
  <2>1. LogInv
    BY DEF FeedInv, LogInv, FeedTypeOK
  <2> QED
    BY <1>2, <2>1, LogStutter DEF storeVars
<1>11. FeedTypeOK' /\ UnsentIsNowhere'
  BY <1>1, <1>2, <1>6 DEF FeedInv, FeedTypeOK, UnsentIsNowhere
<1> QED
  BY <1>2, <1>8, <1>9, <1>10, <1>11 DEF FeedInv, LogInv
\* Stuttering keeps the invariant.
LEMMA FeedStutter == ASSUME FeedInv, UNCHANGED vars PROVE FeedInv'
<1>1. UNCHANGED <<next_seq, msgs, seen, seen_order, unsent, inflight, peers, after, transcript, log>>
  BY DEF vars
<1>2. LogInv'
  BY <1>1, LogStutter DEF FeedInv, LogInv, FeedTypeOK, storeVars
<1>3. FeedTypeOK' /\ UnsentIsNowhere' /\ ReaderIsBehind' /\ TranscriptInOrder'
  BY <1>1 DEF FeedInv, FeedTypeOK, UnsentIsNowhere, ReaderIsBehind, TranscriptInOrder
<1> QED
  BY <1>1, <1>2, <1>3 DEF FeedInv, LogInv

\* The invariant of the feed: the log of what was stored, the store and its dedup memory as its newest
\* end, the network and the reader.
THEOREM FeedInvariant == FeedSpec => []FeedInv
<1>1. FeedInit => FeedInv
  BY FeedInitInv
<1>2. FeedInv /\ [FeedNext]_vars => FeedInv'
  <2> SUFFICES ASSUME FeedInv, [FeedNext]_vars PROVE FeedInv'
    OBVIOUS
  <2>1. ASSUME NEW d \in Traffic, messages_send(d) PROVE FeedInv'
    BY <2>1, SendInv
  <2>2. ASSUME NEW d \in Traffic, Receive(d) PROVE FeedInv'
    BY <2>2, ReceiveInv
  <2>3. ASSUME NEW g \in GuestPush, messages_push(g) PROVE FeedInv'
    BY <2>3, GuestPushInv
  <2>4. CASE poll_messages
    BY <2>4, PollInv
  <2>5. CASE UNCHANGED vars
    BY <2>5, FeedStutter
  <2>6. ASSUME NEW pk \in Pubkey, ExecuteRequest(pk) PROVE FeedInv'
    BY <2>6, RequestInv
  <2> QED
    BY <2>1, <2>2, <2>3, <2>4, <2>5, <2>6 DEF FeedNext
<1> QED
  BY <1>1, <1>2, PTL DEF FeedSpec

-----------------------------------------------------------------------------
(* The safety properties.                                                  *)

\* The variables around the store keep their types.
THEOREM FeedTyped == FeedSpec => []FeedTypeOK
<1>1. FeedInv => FeedTypeOK
  BY DEF FeedInv
<1> QED
  BY <1>1, FeedInvariant, PTL

\* poll_messages shows messages in the order the node accepted them and none of them twice.
THEOREM TranscriptOrdered == FeedSpec => []TranscriptInOrder
<1>1. FeedInv => TranscriptInOrder
  BY DEF FeedInv
<1> QED
  BY <1>1, FeedInvariant, PTL

\* push accepts a second copy of a message only after SeenCap other messages that carry an id, for
\* every SeenCap >= Cap and whatever is pushed without an id in between.
THEOREM DedupIsSeenCapDeep == FeedSpec => []RepeatOnlyAfterSeenCap
<1>1. FeedInv => RepeatOnlyAfterSeenCap
  BY DEF FeedInv
<1> QED
  BY <1>1, FeedInvariant, PTL

\* No copy that serve_group receives, in whatever order, makes the store hold a message twice.
THEOREM FeedNoDuplicates == FeedSpec => []NoRetainedDuplicate
<1>1. FeedInv => NoRetainedDuplicate
  BY DEF FeedInv, StoreInv
<1> QED
  BY <1>1, FeedInvariant, PTL

\* Only what passed check_self_signature and verify_payload, or comes from a program on this node,
\* reaches the transcript.
THEOREM ShowsOnlyVerified == FeedSpec => []OnlyVerified
<1>1. FeedInv => OnlyVerified
  <2> SUFFICES ASSUME FeedInv PROVE OnlyVerified
    OBVIOUS
  <2>1. ASSUME NEW i \in 1 .. Len(transcript) PROVE Admitted(transcript[i])
    <3>1. PICK k \in 1 .. Len(log) : transcript[i] = log[k]
      BY DEF FeedInv, ReaderIsBehind
    <3> QED
      BY <3>1 DEF FeedInv, LogIsNumbered
  <2> QED
    BY <2>1 DEF FeedInv, Admitted, OnlyVerified
<1> QED
  BY <1>1, FeedInvariant, PTL

\* A poll that raises the mark over a retained message has shown it.
THEOREM PollSkipsNothing == FeedSpec => NothingSkipped
<1> DEFINE Shows == \A i \in 1 .. Len(msgs) : after < msgs[i].seq /\ msgs[i].seq <= after' =>
                      \E j \in 1 .. Len(transcript') : transcript'[j] = msgs[i]
<1>1. FeedInv /\ [FeedNext]_vars => [Shows]_vars
  <2> SUFFICES ASSUME FeedInv, FeedNext PROVE Shows
    OBVIOUS
  <2>1. msgs \in Seq(Message) /\ Len(msgs) \in Nat /\ next_seq \in Nat \ {0} /\ Len(msgs) <= next_seq - 1
        /\ after \in Nat /\ Len(transcript) \in Nat
    BY RetainsNoMore DEF FeedInv, StoreInv, FeedTypeOK
  <2>2. \A i \in 1 .. Len(msgs) : msgs[i].seq = next_seq - Len(msgs) + i - 1
    BY DEF FeedInv, StoreInv, RetainedIsLatestRun
  <2>3. CASE poll_messages
    <3> DEFINE b == Below(after)
               T == Len(transcript)
    <3>1. PICK n \in 0 .. Len(msgs) - b :
            /\ b \in 0 .. Len(msgs)
            /\ \A i \in 1 .. Len(msgs) : msgs[i].seq > after <=> i > b
            /\ Len(transcript') = T + n
            /\ \A i \in 1 .. n : transcript'[T + i] = msgs[b + i]
            /\ after' = IF n = 0 THEN after ELSE msgs[b + n].seq
      BY <2>3, PollReads
    <3> HIDE DEF b
    <3>2. ASSUME NEW i \in 1 .. Len(msgs), after < msgs[i].seq, msgs[i].seq <= after'
          PROVE  \E j \in 1 .. Len(transcript') : transcript'[j] = msgs[i]
      <4>1. msgs[i].seq = next_seq - Len(msgs) + i - 1 /\ msgs[i].seq \in Int
        BY <2>1, <2>2
      <4>2. i > b
        BY <2>1, <3>1, <3>2, <4>1
      <4>3. n # 0
        BY <2>1, <3>1, <3>2, <4>1
      <4>4. b + n \in 1 .. Len(msgs) /\ after' = msgs[b + n].seq
        <5>1. b \in 0 .. Len(msgs) /\ n \in 0 .. Len(msgs) - b
          BY <3>1
        <5>2. b + n \in 1 .. Len(msgs)
          BY <2>1, <4>3, <5>1
        <5> QED
          BY <3>1, <4>3, <5>2
      <4>5. after' = next_seq - Len(msgs) + (b + n) - 1
        BY <2>2, <4>4
      <4>6. i - b \in 1 .. n
        BY <2>1, <3>1, <3>2, <4>1, <4>2, <4>4, <4>5
      <4>7. PICK k \in 1 .. n : b + k = i
        BY <2>1, <3>1, <4>6
      <4>8. T + k \in 1 .. Len(transcript') /\ transcript'[T + k] = msgs[b + k]
        BY <2>1, <3>1
      <4> QED
        BY <4>7, <4>8
    <3> QED
      BY <3>2
  <2>4. CASE ~poll_messages
    <3>1. after' = after
      BY <2>4 DEF FeedNext, messages_send, Receive, messages_push, ExecuteRequest
    <3>2. \A i \in 1 .. Len(msgs) : msgs[i].seq \in Int
      BY <2>1, <2>2
    <3> QED
      BY <2>1, <3>1, <3>2
  <2> QED
    BY <2>3, <2>4
<1> QED
  BY <1>1, FeedInvariant, PTL DEF FeedSpec, NothingSkipped

\* When serve_group is done with a message that verifies, the message has been stored, now or before.
THEOREM HeardMeansStored == FeedSpec => HeardIsStored
<1> DEFINE Stored == \A d \in Traffic : Verifies(d) /\ inflight'[d] < inflight[d] =>
                       \E i \in 1 .. Len(log') : log'[i].from_pubkey = d.source /\ log'[i].id = d.id
<1>1. FeedInv /\ [FeedNext]_vars => [Stored]_vars
  <2> SUFFICES ASSUME FeedInv, FeedNext, NEW d \in Traffic, Verifies(d), inflight'[d] < inflight[d]
               PROVE  \E i \in 1 .. Len(log') : log'[i].from_pubkey = d.source /\ log'[i].id = d.id
    OBVIOUS
  <2>1. inflight \in [Traffic -> 0 .. Copies] /\ Copies \in Nat
    BY TrafficAssumption DEF FeedInv, FeedTypeOK
  <2>2. ASSUME NEW e \in Traffic, messages_send(e) PROVE FALSE
    <3>1. PICK n \in 0 .. Copies : inflight' = [inflight EXCEPT ![e] = n]
      BY <2>2 DEF messages_send, broadcast_bytes_to_fabric
    <3>2. inflight[e] = 0
      BY <2>2 DEF messages_send, FeedInv, UnsentIsNowhere
    <3> QED
      BY <2>1, <3>1, <3>2
  <2>3. ASSUME NEW e \in Traffic, Receive(e) PROVE e = d
    BY <2>1, <2>3 DEF Receive
  <2>4. inflight' = inflight => FALSE
    BY <2>1
  <2>5. /\ ~poll_messages /\ \A g \in GuestPush : ~messages_push(g)
        /\ \A pk \in Pubkey : ~ExecuteRequest(pk)
    BY <2>4 DEF poll_messages, messages_push, ExecuteRequest
  <2>6. Receive(d)
    BY <2>2, <2>3, <2>5 DEF FeedNext
  <2> QED
    BY <2>6, ReceiveInv
<1> QED
  BY <1>1, FeedInvariant, PTL DEF FeedSpec, HeardIsStored

-----------------------------------------------------------------------------
(* Refinement.                                                             *)

\* The whole feed, with its network and its reader, implements the abstract log: an accepted push is
\* Accept, every other step leaves the log as it is.
THEOREM FeedImplementsLog == FeedSpec => ImplementsLog
<1>1. FeedInit => Log!Init
  BY DEF FeedInit, Init, Log!Init, Elements
<1>2. FeedInv /\ [FeedNext]_vars => [Log!Next]_<<next_seq, Elements(msgs)>>
  <2> SUFFICES ASSUME FeedInv, [FeedNext]_vars PROVE [Log!Next]_<<next_seq, Elements(msgs)>>
    OBVIOUS
  <2>1. CASE next_seq' = next_seq /\ msgs' = msgs
    BY <2>1 DEF Elements
  <2>2. ASSUME NEW pk \in Pubkey, NEW id \in MsgId \cup {NoId}, NEW body \in Body, push(pk, id, body)
        PROVE  Log!Next \/ (next_seq' = next_seq /\ msgs' = msgs)
    BY <2>2, StoreAccepts DEF FeedInv, push, storeVars, Log!Next
  <2>3. ASSUME NEW d \in Traffic, Receive(d)
        PROVE  Log!Next \/ (next_seq' = next_seq /\ msgs' = msgs)
    <3>1. d.source \in Pubkey /\ d.id \in MsgId \cup {NoId} /\ d.body \in Body
      BY TrafficAssumption
    <3> QED
      BY <2>2, <2>3, <3>1 DEF Receive, record_fabric_message
  <2>4. ASSUME NEW g \in GuestPush, messages_push(g)
        PROVE  Log!Next \/ (next_seq' = next_seq /\ msgs' = msgs)
    <3>1. g.source \in Pubkey /\ g.id \in MsgId \cup {NoId} /\ g.body \in Body
      BY TrafficAssumption
    <3> QED
      BY <2>2, <2>4, <3>1 DEF messages_push
  <2>5. ASSUME NEW d \in Traffic, messages_send(d) PROVE next_seq' = next_seq /\ msgs' = msgs
    BY <2>5 DEF messages_send
  <2>6. CASE poll_messages \/ UNCHANGED vars
    BY <2>1, <2>6 DEF poll_messages, vars
  <2>7. ASSUME NEW pk \in Pubkey, ExecuteRequest(pk) PROVE next_seq' = next_seq /\ msgs' = msgs
    BY <2>7 DEF ExecuteRequest
  <2> QED
    BY <2>1, <2>3, <2>4, <2>5, <2>6, <2>7 DEF FeedNext
<1> QED
  BY <1>1, <1>2, FeedInvariant, PTL DEF FeedSpec, ImplementsLog, Log!Spec
=============================================================================
