-------------------------- MODULE RunClientProofs ---------------------------
(***************************************************************************)
(* The two ends of a program's output, for any streams and any writes.     *)
(* The forwarder keeps the order and loses only what it wrote over a       *)
(* pending socket. The client, for any window and any sizes of datagrams,  *)
(* prints nothing twice, from the local daemon in order, and in a good run *)
(* shows the program to its end.                                           *)
(***************************************************************************)
EXTENDS RunClient, DataLemmas

-----------------------------------------------------------------------------
(* The forwarder.                                                          *)

\* The forwarder starts with nothing written and nothing left over.
LEMMA InitInv == Init => ForwarderInv
<1> SUFFICES ASSUME Init PROVE ForwarderInv
  OBVIOUS
<1>1. TypeOK
  BY WritesAssumption DEF Init, TypeOK
<1> QED
  BY <1>1 DEF Init, ForwarderInv, OutputInOrder, LostOnlyIfPending, Progress, LeftOver

\* A write begins: its stream holds no message, since it is open or its clone is new.
LEMMA WriteInv == ASSUME ForwarderInv, NEW s \in Stream, write(s) PROVE ForwarderInv'
<1> USE DEF ForwarderInv
<1>1. TypeOK'
  BY WritesAssumption DEF write, TypeOK
<1>2. OutputInOrder' /\ LostOnlyIfPending'
  BY DEF write, OutputInOrder, LostOnlyIfPending
<1>3. Progress'
  BY WritesAssumption DEF write, Progress, TypeOK, Frame
<1>4. LeftOver'
  BY DEF write, LeftOver, TypeOK
<1> QED
  BY <1>1, <1>2, <1>3, <1>4

\* The datagram is sent in one call.
LEMMA SentInv ==
  ASSUME ForwarderInv, NEW s \in Stream, s \in writing, sent(s), writes' = writes PROVE ForwarderInv'
<1> USE DEF ForwarderInv
<1> DEFINE f == [stream |-> s, write |-> writes]
<1>1. f \in Frame
  BY WritesAssumption DEF TypeOK, Frame, Progress
<1>2. TypeOK'
  BY <1>1 DEF sent, TypeOK
<1>3. /\ Len(wire') = Len(wire) + 1
      /\ \A i \in 1 .. Len(wire) : wire'[i] = wire[i]
      /\ wire'[Len(wire) + 1] = f
      /\ Len(wire) \in Nat
  BY <1>1 DEF sent, TypeOK
<1>4. \A i \in 1 .. Len(wire) : wire[i].write < writes
  BY DEF OutputInOrder, Progress
<1>5. f \in done' /\ done \subseteq done' /\ done' = done \cup {f}
  BY DEF sent
<1>6. OutputInOrder'
  <2>1. ASSUME NEW i \in 1 .. Len(wire'), NEW j \in 1 .. Len(wire'), i < j
        PROVE  wire'[i].write < wire'[j].write
    <3>1. i \in 1 .. Len(wire)
      BY <1>3, <2>1
    <3>2. CASE j = Len(wire) + 1
      BY <1>3, <1>4, <3>1, <3>2
    <3>3. CASE j # Len(wire) + 1
      BY <1>3, <2>1, <3>1, <3>3 DEF OutputInOrder
    <3> QED
      BY <3>2, <3>3
  <2>2. ASSUME NEW i \in 1 .. Len(wire') PROVE wire'[i] \in done'
    <3>1. CASE i = Len(wire) + 1
      BY <1>3, <1>5, <3>1
    <3>2. CASE i # Len(wire) + 1
      BY <1>3, <1>5, <3>2 DEF OutputInOrder
    <3> QED
      BY <3>1, <3>2
  <2> QED
    BY <2>1, <2>2 DEF OutputInOrder
<1>7. LostOnlyIfPending'
  <2>1. ASSUME NEW g \in done', g # f PROVE (\E i \in 1 .. Len(wire') : wire'[i] = g) \/ g.write \in pended'
    <3>1. pended' = pended /\ g \in done
      BY <1>5, <2>1 DEF sent
    <3> QED
      BY <1>3, <3>1 DEF LostOnlyIfPending
  <2>2. \E i \in 1 .. Len(wire') : wire'[i] = f
    <3>1. Len(wire) + 1 \in 1 .. Len(wire')
      BY <1>3
    <3> QED
      BY <1>3, <3>1
  <2> QED
    BY <2>1, <2>2 DEF LostOnlyIfPending
<1>8. Progress'
  BY <1>5 DEF sent, Progress, TypeOK, Frame
<1>9. LeftOver'
  BY DEF sent, LeftOver, TypeOK
<1> QED
  BY <1>2, <1>6, <1>7, <1>8, <1>9

\* The write is answered without being sent: the socket was pending for it.
LEMMA ResumedInv ==
  ASSUME ForwarderInv, NEW s \in Stream, s \in writing, resumed(s), writes' = writes PROVE ForwarderInv'
<1> USE DEF ForwarderInv
<1> DEFINE f == [stream |-> s, write |-> writes]
<1>1. f \in Frame
  BY WritesAssumption DEF TypeOK, Frame, Progress
<1>2. TypeOK'
  BY <1>1, WritesAssumption DEF resumed, TypeOK
<1>3. OutputInOrder'
  BY DEF resumed, OutputInOrder
<1>4. LostOnlyIfPending'
  BY DEF resumed, LostOnlyIfPending, LeftOver
<1>5. Progress'
  BY DEF resumed, Progress, TypeOK, Frame
<1>6. LeftOver'
  BY DEF resumed, LeftOver, TypeOK
<1> QED
  BY <1>2, <1>3, <1>4, <1>5, <1>6

\* The socket is pending: the message stays with the write in progress.
LEMMA PendingInv ==
  ASSUME ForwarderInv, NEW s \in Stream, s \in writing, pending(s), writes' = writes PROVE ForwarderInv'
<1> USE DEF ForwarderInv
<1>1. TypeOK'
  BY WritesAssumption DEF pending, TypeOK, Progress
<1>2. OutputInOrder' /\ LostOnlyIfPending' /\ Progress'
  BY DEF pending, OutputInOrder, LostOnlyIfPending, Progress
<1>3. LeftOver'
  BY DEF pending, LeftOver, TypeOK
<1> QED
  BY <1>1, <1>2, <1>3

\* The socket fails: the message stays in a stream that is closed or in a clone not used again.
LEMMA FailsInv ==
  ASSUME ForwarderInv, NEW s \in Stream, s \in writing, fails(s), writes' = writes PROVE ForwarderInv'
<1> USE DEF ForwarderInv
<1>1. TypeOK'
  BY WritesAssumption DEF fails, TypeOK
<1>2. OutputInOrder' /\ LostOnlyIfPending'
  BY DEF fails, OutputInOrder, LostOnlyIfPending
<1>3. Progress'
  BY DEF fails, Progress, TypeOK, Frame
<1>4. LeftOver'
  BY DEF fails, LeftOver, TypeOK
<1> QED
  BY <1>1, <1>2, <1>3, <1>4

\* The forwarder's invariant: order of what is sent, what is left over in the polled state of a stream.
THEOREM ForwarderInvariant == Spec => []ForwarderInv
<1>1. Init => ForwarderInv
  BY InitInv
<1>2. ForwarderInv /\ [Next]_vars => ForwarderInv'
  <2> SUFFICES ASSUME ForwarderInv, [Next]_vars PROVE ForwarderInv'
    OBVIOUS
  <2>1. ASSUME NEW s \in Stream, write(s) PROVE ForwarderInv'
    BY <2>1, WriteInv
  <2>2. ASSUME NEW s \in Stream, poll_write(s) PROVE ForwarderInv'
    BY <2>2, SentInv, ResumedInv, PendingInv, FailsInv DEF poll_write
  <2>3. CASE UNCHANGED vars
    BY <2>3 DEF vars, ForwarderInv, TypeOK, OutputInOrder, LostOnlyIfPending, Progress, LeftOver
  <2> QED
    BY <2>1, <2>2, <2>3 DEF Next
<1> QED
  BY <1>1, <1>2, PTL DEF Spec

\* The state of the forwarder keeps its type, and one write is in progress at a time.
THEOREM ForwarderTyped == Spec => []TypeOK
BY ForwarderInvariant, PTL DEF ForwarderInv

\* poll_write sends what the guest wrote in the order it wrote it, over all streams and with nothing
\* twice.
THEOREM OutputOrdered == Spec => []OutputInOrder
BY ForwarderInvariant, PTL DEF ForwarderInv

\* A write that poll_write answered with Ok is lost before the socket only if the socket was pending.
THEOREM LossesArePending == Spec => []LostOnlyIfPending
BY ForwarderInvariant, PTL DEF ForwarderInv

-----------------------------------------------------------------------------
(* The guest's steps as the client sees them.                              *)

\* A step of the guest and its forwarder keeps the forwarder's invariant.  It sends nothing, or one
\* datagram: the write in progress, which is later than all on the wire.
LEMMA GuestSends ==
  ASSUME RunInv, guest
  PROVE  /\ ForwarderInv'
         /\ ~exited
         /\ \/ wire' = wire /\ net' = net
            \/ /\ writes \in 1 .. MaxWrites
               /\ wire' = Append(wire, [stream |-> wire'[Len(wire) + 1].stream, write |-> writes])
               /\ net' = Append(net, Stdout(writes))
               /\ \A i \in 1 .. Len(wire) : wire[i].write < writes
<1>1. PICK s \in Stream : (write(s) /\ ~exited) \/ poll_write(s)
  BY DEF guest
<1>2. ForwarderInv /\ FromDaemon /\ RunTypeOK /\ TypeOK /\ OutputInOrder /\ Progress
  BY DEF RunInv, ForwarderInv
<1>3. ForwarderInv'
  BY <1>1, <1>2, WriteInv, SentInv, ResumedInv, PendingInv, FailsInv DEF poll_write
<1>4. ~exited
  BY <1>1, <1>2 DEF poll_write, FromDaemon
<1>5. wire' = wire \/ (s \in writing /\ sent(s))
  BY <1>1 DEF write, poll_write, resumed, pending, fails
<1> DEFINE t == [i \in 1 .. Len(wire') - Len(wire) |-> Stdout(wire'[Len(wire) + i].write)]
<1>6. net' = net \o t
  BY DEF guest
<1>7. CASE wire' = wire
  <2>1. t = << >>
    BY <1>2, <1>7 DEF TypeOK
  <2>2. net \in Seq(Datagram)
    BY <1>2 DEF RunTypeOK
  <2>3. net' = net
    BY <1>6, <2>1, <2>2, ConcatEmptySeq
  <2> QED
    BY <1>3, <1>4, <1>7, <2>3
<1>8. CASE s \in writing /\ sent(s)
  <2> DEFINE f == [stream |-> s, write |-> writes]
  <2>1. writes \in 1 .. MaxWrites
    BY <1>2, <1>8, WritesAssumption DEF TypeOK, Progress
  <2>2. wire' = Append(wire, f) /\ wire \in Seq(Frame) /\ f \in Frame
    BY <1>2, <1>8, <2>1 DEF sent, TypeOK, Frame
  <2>3. Len(wire') = Len(wire) + 1 /\ wire'[Len(wire) + 1] = f /\ Len(wire) \in Nat
    BY <2>2
  <2>4. t = <<Stdout(writes)>>
    <3>1. t = [i \in 1 .. 1 |-> Stdout(wire'[Len(wire) + i].write)]
      BY <2>3
    <3>2. \A i \in 1 .. 1 : Stdout(wire'[Len(wire) + i].write) = Stdout(writes)
      BY <2>3
    <3> QED
      BY <3>1, <3>2
  <2>5. net \in Seq(Datagram) /\ Stdout(writes) \in Datagram
    BY <1>2, <2>1 DEF RunTypeOK, Datagram
  <2>6. net' = Append(net, Stdout(writes))
    BY <1>6, <2>4, <2>5, AppendIsConcat
  <2>7. \A i \in 1 .. Len(wire) : wire[i].write < writes
    BY <1>2, <1>8 DEF OutputInOrder, Progress
  <2>8. wire'[Len(wire) + 1].stream = s
    BY <2>3
  <2> QED
    BY <1>3, <1>4, <2>1, <2>2, <2>6, <2>7, <2>8
<1> QED
  BY <1>5, <1>7, <1>8
-----------------------------------------------------------------------------
(* Sending, losing and printing a datagram, for what is printed (p) and    *)
(* what is on the way (n).                                                 *)

\* A datagram that is not there yet is sent.
LEMMA SendOnce ==
  ASSUME NEW p \in Seq(Datagram), NEW n \in Seq(Datagram), NEW d \in Datagram,
         Once(p, n), d \notin ToSet(p), d \notin ToSet(n)
  PROVE  Once(p, Append(n, d))
<1> DEFINE t == Append(n, d)
<1>1. /\ Len(t) = Len(n) + 1 /\ Len(n) \in Nat
      /\ \A j \in 1 .. Len(n) : t[j] = n[j] /\ n[j] # d
      /\ t[Len(n) + 1] = d
      /\ ToSet(t) = ToSet(n) \cup {d}
  BY AppendSet, ToSetByIndex
<1> HIDE DEF t
<1>2. ASSUME NEW i \in 1 .. Len(t), NEW j \in 1 .. Len(t), t[i] = t[j] PROVE i = j
  BY <1>1, <1>2 DEF Once
<1>3. ToSet(p) \cap ToSet(t) = {}
  BY <1>1 DEF Once
<1> QED
  BY <1>2, <1>3 DEF Once, t

\* A datagram that all the others are ahead of is sent.
LEMMA SendOrdered ==
  ASSUME NEW p \in Seq(Datagram), NEW n \in Seq(Datagram), NEW d \in Datagram,
         Ordered(p, n), \A e \in ToSet(p) \cup ToSet(n) : Ahead(e, d)
  PROVE  Ordered(p, Append(n, d))
<1> DEFINE t == Append(n, d)
<1>1. /\ Len(t) = Len(n) + 1 /\ Len(n) \in Nat
      /\ \A j \in 1 .. Len(n) : t[j] = n[j] /\ n[j] \in ToSet(n)
      /\ t[Len(n) + 1] = d
      /\ ToSet(t) = ToSet(n) \cup {d}
  BY AppendSet, ToSetByIndex
<1> HIDE DEF t
<1>2. ASSUME NEW i \in 1 .. Len(t), NEW j \in 1 .. Len(t), i < j PROVE Ahead(t[i], t[j])
  <2>1. i \in 1 .. Len(n)
    BY <1>1, <1>2
  <2>2. CASE j = Len(n) + 1
    BY <1>1, <2>1, <2>2
  <2>3. CASE j # Len(n) + 1
    BY <1>1, <1>2, <2>1, <2>3 DEF Ordered
  <2> QED
    BY <2>2, <2>3
<1>3. \A e \in ToSet(p), f \in ToSet(t) : Ahead(e, f)
  BY <1>1 DEF Ordered
<1> QED
  BY <1>2, <1>3 DEF Ordered, t

\* One datagram is taken off the way.
LEMMA TakenOff ==
  ASSUME NEW p \in Seq(Datagram), NEW n \in Seq(Datagram), NEW i \in 1 .. Len(n), Once(p, n)
  PROVE  /\ RemoveAt(n, i) \in Seq(Datagram)
         /\ Len(RemoveAt(n, i)) = Len(n) - 1
         /\ \A j \in 1 .. Len(n) - 1 : RemoveAt(n, i)[j] = IF j < i THEN n[j] ELSE n[j + 1]
         /\ n[i] \in Datagram /\ n[i] \in ToSet(n)
         /\ ToSet(RemoveAt(n, i)) = ToSet(n) \ {n[i]}
         /\ \A j, k \in 1 .. Len(n) - 1 : RemoveAt(n, i)[j] = RemoveAt(n, i)[k] => j = k
<1>1. /\ RemoveAt(n, i) \in Seq(Datagram)
      /\ Len(RemoveAt(n, i)) = Len(n) - 1
      /\ \A j \in 1 .. Len(n) - 1 : RemoveAt(n, i)[j] = IF j < i THEN n[j] ELSE n[j + 1]
  BY RemoveAtByIndex
<1>2. \A j, k \in 1 .. Len(n) : n[j] = n[k] => j = k
  BY DEF Once
<1>3. /\ ToSet(RemoveAt(n, i)) = ToSet(n) \ {n[i]} /\ n[i] \in ToSet(n)
      /\ \A j, k \in 1 .. Len(n) - 1 : RemoveAt(n, i)[j] = RemoveAt(n, i)[k] => j = k
  BY <1>2, RemoveAtSet
<1>4. n[i] \in Datagram
  OBVIOUS
<1> QED
  BY <1>1, <1>3, <1>4

\* A datagram is lost, or read and not printed.
LEMMA DropOnce ==
  ASSUME NEW p \in Seq(Datagram), NEW n \in Seq(Datagram), NEW i \in 1 .. Len(n), Once(p, n)
  PROVE  Once(p, RemoveAt(n, i))
<1> DEFINE t == RemoveAt(n, i)
<1>1. /\ Len(t) = Len(n) - 1
      /\ ToSet(t) \subseteq ToSet(n)
      /\ \A j, k \in 1 .. Len(n) - 1 : t[j] = t[k] => j = k
  BY TakenOff
<1> HIDE DEF t
<1>2. \A j, k \in 1 .. Len(t) : t[j] = t[k] => j = k
  BY <1>1
<1>3. ToSet(p) \cap ToSet(t) = {}
  BY <1>1 DEF Once
<1> QED
  BY <1>2, <1>3 DEF Once, t

LEMMA DropOrdered ==
  ASSUME NEW p \in Seq(Datagram), NEW n \in Seq(Datagram), NEW i \in 1 .. Len(n),
         Once(p, n), Ordered(p, n)
  PROVE  Ordered(p, RemoveAt(n, i))
<1> DEFINE t == RemoveAt(n, i)
<1>1. /\ Len(t) = Len(n) - 1
      /\ \A j \in 1 .. Len(n) - 1 : t[j] = IF j < i THEN n[j] ELSE n[j + 1]
      /\ ToSet(t) \subseteq ToSet(n)
  BY TakenOff
<1> HIDE DEF t
<1>2. ASSUME NEW j \in 1 .. Len(t), NEW k \in 1 .. Len(t), j < k PROVE Ahead(t[j], t[k])
  <2> DEFINE x == IF j < i THEN j ELSE j + 1
             y == IF k < i THEN k ELSE k + 1
  <2>1. x \in 1 .. Len(n) /\ y \in 1 .. Len(n) /\ x < y
    BY <1>1, <1>2
  <2>2. t[j] = n[x] /\ t[k] = n[y]
    BY <1>1
  <2> QED
    BY <2>1, <2>2 DEF Ordered
<1> QED
  BY <1>1, <1>2 DEF Ordered, t

\* A datagram is read and printed.
LEMMA PrintOnce ==
  ASSUME NEW p \in Seq(Datagram), NEW n \in Seq(Datagram), NEW i \in 1 .. Len(n), Once(p, n)
  PROVE  Once(Append(p, n[i]), RemoveAt(n, i))
<1> DEFINE t == RemoveAt(n, i)
           q == Append(p, n[i])
<1>1. /\ Len(t) = Len(n) - 1
      /\ ToSet(t) = ToSet(n) \ {n[i]} /\ n[i] \in ToSet(n) /\ n[i] \in Datagram
      /\ \A j, k \in 1 .. Len(n) - 1 : t[j] = t[k] => j = k
  BY TakenOff
<1>2. /\ Len(q) = Len(p) + 1 /\ Len(p) \in Nat
      /\ \A j \in 1 .. Len(p) : q[j] = p[j] /\ p[j] \in ToSet(p)
      /\ q[Len(p) + 1] = n[i]
      /\ ToSet(q) = ToSet(p) \cup {n[i]}
  BY <1>1, AppendSet, ToSetByIndex
<1> HIDE DEF t, q
<1>3. n[i] \notin ToSet(p)
  BY <1>1 DEF Once
<1>4. ASSUME NEW j \in 1 .. Len(q), NEW k \in 1 .. Len(q), q[j] = q[k] PROVE j = k
  BY <1>2, <1>3, <1>4 DEF Once
<1>5. ToSet(q) \cap ToSet(t) = {}
  BY <1>1, <1>2 DEF Once
<1> QED
  BY <1>1, <1>4, <1>5 DEF Once, q, t

\* The first datagram of the loopback is read and printed.
LEMMA PrintOrdered ==
  ASSUME NEW p \in Seq(Datagram), NEW n \in Seq(Datagram), 1 \in 1 .. Len(n),
         Once(p, n), Ordered(p, n)
  PROVE  Ordered(Append(p, n[1]), RemoveAt(n, 1))
<1> DEFINE t == RemoveAt(n, 1)
           q == Append(p, n[1])
<1>1. /\ Len(t) = Len(n) - 1 /\ t \in Seq(Datagram) /\ Len(n) \in Nat
      /\ \A j \in 1 .. Len(n) - 1 : t[j] = IF j < 1 THEN n[j] ELSE n[j + 1]
      /\ n[1] \in ToSet(n) /\ n[1] \in Datagram /\ ToSet(t) \subseteq ToSet(n)
  BY TakenOff
<1>2. /\ Len(q) = Len(p) + 1 /\ Len(p) \in Nat
      /\ \A j \in 1 .. Len(p) : q[j] = p[j] /\ p[j] \in ToSet(p)
      /\ q[Len(p) + 1] = n[1]
      /\ ToSet(q) = ToSet(p) \cup {n[1]}
  BY <1>1, AppendSet, ToSetByIndex
<1>3. ToSet(t) = {t[j] : j \in 1 .. Len(n) - 1}
  BY <1>1, ToSetByIndex
<1> HIDE DEF t, q
<1>4. ASSUME NEW j \in 1 .. Len(q), NEW k \in 1 .. Len(q), j < k PROVE Ahead(q[j], q[k])
  <2>1. j \in 1 .. Len(p)
    BY <1>2, <1>4
  <2>2. CASE k = Len(p) + 1
    BY <1>1, <1>2, <2>1, <2>2 DEF Ordered
  <2>3. CASE k # Len(p) + 1
    BY <1>2, <1>4, <2>1, <2>3 DEF Ordered
  <2> QED
    BY <2>2, <2>3
<1>5. ASSUME NEW j \in 1 .. Len(t), NEW k \in 1 .. Len(t), j < k PROVE Ahead(t[j], t[k])
  <2>1. j + 1 \in 1 .. Len(n) /\ k + 1 \in 1 .. Len(n) /\ j + 1 < k + 1
    BY <1>1, <1>5
  <2>2. t[j] = n[j + 1] /\ t[k] = n[k + 1]
    BY <1>1
  <2> QED
    BY <2>1, <2>2 DEF Ordered
<1>6. ASSUME NEW d \in ToSet(q), NEW e \in ToSet(t) PROVE Ahead(d, e)
  <2>1. CASE d = n[1]
    <3>1. PICK k \in 1 .. Len(n) - 1 : e = n[k + 1]
      BY <1>1, <1>3
    <3>2. k + 1 \in 1 .. Len(n) /\ 1 < k + 1
      BY <1>1
    <3> QED
      BY <2>1, <3>1, <3>2 DEF Ordered
  <2>2. CASE d # n[1]
    BY <1>1, <1>2, <2>2 DEF Ordered
  <2> QED
    BY <2>1, <2>2
<1> QED
  BY <1>4, <1>5, <1>6 DEF Ordered, q, t
-----------------------------------------------------------------------------
(* The inductive invariant.                                                *)

\* The three kinds of datagram are told apart.
LEMMA Kinds ==
  /\ Exit.kind = "exit" /\ Exit.write = 0 /\ Exit \in Datagram
  /\ ReturnMap.kind = "map" /\ ReturnMap.write = 0 /\ ReturnMap \in Datagram
  /\ Exit # ReturnMap
  /\ \A w : Stdout(w).kind = "stdout" /\ Stdout(w).write = w /\ Stdout(w) # Exit /\ Stdout(w) # ReturnMap
  /\ \A w \in 1 .. MaxWrites : Stdout(w) \in Datagram
  /\ \A d \in Datagram : d.kind = "stdout" => d = Stdout(d.write) /\ d.write \in 1 .. MaxWrites
BY DEF Exit, ReturnMap, Stdout, Datagram

\* The client and the network leave the forwarder alone.
LEMMA ForwarderStutter == ASSUME ForwarderInv, UNCHANGED vars PROVE ForwarderInv'
BY DEF vars, ForwarderInv, TypeOK, OutputInOrder, LostOnlyIfPending, Progress, LeftOver

\* At the start nothing is printed and nothing on the way.
LEMMA RunInitInv == RunInit => RunInv
<1> SUFFICES ASSUME RunInit PROVE RunInv
  OBVIOUS
<1>1. ForwarderInv
  BY InitInv DEF RunInit
<1>2. RunTypeOK
  <2>1. timely \in BOOLEAN /\ exited \in BOOLEAN
    BY Zenon DEF RunInit
  <2>2. large \subseteq 1 .. MaxWrites
    BY DEF RunInit
  <2>3. remaining \in Nat /\ gap \in 0 .. MaxGap
    BY WindowAssumption DEF RunInit
  <2>4. net \in Seq(Datagram) /\ printed \in Seq(Datagram)
    BY DEF RunInit
  <2> QED
    BY <2>1, <2>2, <2>3, <2>4, Zenon DEF RunInit, RunTypeOK
<1>3. printed = << >> /\ net = << >> /\ wire = << >> /\ ToSet(printed) = {} /\ ToSet(net) = {}
  BY DEF RunInit, Init, ToSet
<1>4. FromDaemon /\ Once(printed, net) /\ Ordered(printed, net)
  BY <1>3 DEF RunInit, FromDaemon, Once, Ordered
<1>5. NothingLost /\ WindowOpen
  BY <1>3, WindowAssumption DEF RunInit, NothingLost, WindowOpen, Ended
<1> QED
  BY <1>1, <1>2, <1>4, <1>5 DEF RunInv

\* The guest's output goes to the network behind everything else.
LEMMA GuestInv == ASSUME RunInv, guest PROVE RunInv'
<1>1. /\ ForwarderInv /\ RunTypeOK /\ FromDaemon /\ Once(printed, net)
      /\ route = "local" => Ordered(printed, net)
      /\ NothingLost /\ WindowOpen
  BY DEF RunInv
<1>2. ForwarderInv' /\ ~exited
  BY GuestSends
<1>3. UNCHANGED <<route, large, timely, exited, remaining, printed, gap>>
  BY DEF guest
<1>4. CASE wire' = wire /\ net' = net
  <2>1. RunTypeOK'
    BY <1>1, <1>3, <1>4 DEF RunTypeOK
  <2>2. FromDaemon'
    BY <1>1, <1>2, <1>3, <1>4 DEF FromDaemon
  <2>3. Once(printed, net)' /\ (route = "local" => Ordered(printed, net))'
    BY <1>1, <1>3, <1>4
  <2>4. NothingLost' /\ WindowOpen'
    BY <1>1, <1>3, <1>4 DEF NothingLost, WindowOpen, Ended
  <2> QED
    BY <1>2, <2>1, <2>2, <2>3, <2>4 DEF RunInv
<1>5. CASE /\ writes \in 1 .. MaxWrites
           /\ wire' = Append(wire, [stream |-> wire'[Len(wire) + 1].stream, write |-> writes])
           /\ net' = Append(net, Stdout(writes))
           /\ \A i \in 1 .. Len(wire) : wire[i].write < writes
  <2> DEFINE d == Stdout(writes)
  <2>1. d \in Datagram /\ d.kind = "stdout" /\ d.write = writes /\ d # Exit
    BY <1>5, Kinds
  <2> HIDE DEF d
  <2>2. net \in Seq(Datagram) /\ printed \in Seq(Datagram) /\ wire \in Seq(Frame) /\ wire' \in Seq(Frame)
    BY <1>1, <1>2 DEF RunTypeOK, ForwarderInv, TypeOK
  <2>3. net' = Append(net, d) /\ net' \in Seq(Datagram) /\ ToSet(net') = ToSet(net) \cup {d}
    BY <1>5, <2>1, <2>2, AppendSet DEF d
  <2>4. /\ Len(wire') = Len(wire) + 1 /\ Len(wire) \in Nat
        /\ \A i \in 1 .. Len(wire) : wire'[i] = wire[i]
        /\ wire'[Len(wire) + 1].write = writes
    BY <1>5, <2>2
  <2>5. \A e \in ToSet(printed) \cup ToSet(net) : e.kind = "stdout" /\ e.write < writes
    BY <1>1, <1>2, <1>5 DEF FromDaemon
  <2>6. \A e \in ToSet(printed) \cup ToSet(net) : Ahead(e, d)
    BY <2>1, <2>5, Kinds DEF Ahead
  <2>7. d \notin ToSet(printed) /\ d \notin ToSet(net)
    BY <1>5, <2>1, <2>5
  <2>8. RunTypeOK'
    BY <1>1, <1>3, <2>3 DEF RunTypeOK
  <2>9. FromDaemon'
    <3>1. ASSUME NEW e \in ToSet(printed) \cup ToSet(net) PROVE \E i \in 1 .. Len(wire') : wire'[i].write = e.write
      <4>1. PICK i \in 1 .. Len(wire) : wire[i].write = e.write
        BY <1>1, <2>5 DEF FromDaemon
      <4> QED
        BY <2>4, <4>1
    <3>2. \E i \in 1 .. Len(wire') : wire'[i].write = d.write
      <4>1. Len(wire) + 1 \in 1 .. Len(wire')
        BY <2>4
      <4> QED
        BY <2>1, <2>4, <4>1
    <3> QED
      BY <1>2, <1>3, <2>1, <2>3, <2>5, <3>1, <3>2 DEF FromDaemon
  <2>10. Once(printed, net)'
    BY <1>1, <1>3, <2>1, <2>2, <2>3, <2>7, SendOnce
  <2>11. (route = "local" => Ordered(printed, net))'
    BY <1>1, <1>3, <2>1, <2>2, <2>3, <2>6, SendOrdered
  <2>12. NothingLost'
    <3>1. ASSUME timely, large = {}, NEW i \in 1 .. Len(wire')
          PROVE  Stdout(wire'[i].write) \in ToSet(printed) \cup ToSet(net')
      <4>1. CASE i = Len(wire) + 1
        BY <2>3, <2>4, <4>1 DEF d
      <4>2. CASE i # Len(wire) + 1
        BY <1>1, <2>3, <2>4, <3>1, <4>2 DEF NothingLost
      <4> QED
        BY <4>1, <4>2
    <3> QED
      BY <1>2, <1>3, <3>1 DEF NothingLost
  <2>13. WindowOpen'
    <3>1. (timely /\ large = {}) => ~Ended
      BY <1>1, <1>2, WindowAssumption DEF WindowOpen, Ended, FromDaemon, RunTypeOK, Exit
    <3> QED
      BY <1>1, <1>3, <3>1 DEF WindowOpen, Ended
  <2> QED
    BY <1>2, <2>8, <2>9, <2>10, <2>11, <2>12, <2>13 DEF RunInv
<1> QED
  BY <1>4, <1>5, GuestSends

\* One answer of serve_group is sent behind the output.
LEMMA EndInv == ASSUME RunInv, end PROVE RunInv'
<1>1. /\ ForwarderInv /\ RunTypeOK /\ FromDaemon /\ Once(printed, net)
      /\ route = "local" => Ordered(printed, net)
      /\ NothingLost /\ WindowOpen
  BY DEF RunInv
<1>2. PICK answers \in {<<Exit>>, <<ReturnMap, Exit>>, << >>} :
        exit_reply(answers) /\ (answers = << >> => ~timely)
  BY DEF end
<1>3. /\ ~exited /\ writing = {} /\ exited'
      /\ net' = net \o answers
      /\ UNCHANGED <<vars, route, large, timely, remaining, printed, gap>>
  BY <1>2 DEF exit_reply
<1>4. net \in Seq(Datagram) /\ printed \in Seq(Datagram)
  BY <1>1 DEF RunTypeOK
<1>5. wire' = wire /\ writing' = writing /\ ForwarderInv'
  BY <1>1, <1>3, ForwarderStutter DEF vars
<1>6. \A e \in ToSet(printed) \cup ToSet(net) : e.kind = "stdout" /\ e # Exit /\ e # ReturnMap
  BY <1>1, <1>3, Kinds DEF FromDaemon
<1> DEFINE m == Append(net, ReturnMap)
<1>7. m \in Seq(Datagram) /\ ToSet(m) = ToSet(net) \cup {ReturnMap}
  BY <1>4, AppendSet, Kinds
<1>8. Once(printed, m) /\ (route = "local" => Ordered(printed, m))
  <2>1. \A e \in ToSet(printed) \cup ToSet(net) : Ahead(e, ReturnMap)
    BY <1>6, Kinds DEF Ahead
  <2> QED
    BY <1>1, <1>4, <1>6, <2>1, Kinds, SendOnce, SendOrdered
<1>9. /\ net' \in Seq(Datagram)
      /\ ToSet(net) \subseteq ToSet(net') /\ ToSet(net') \subseteq ToSet(net) \cup {ReturnMap, Exit}
      /\ answers # << >> => Exit \in ToSet(net')
      /\ Once(printed, net') /\ (route = "local" => Ordered(printed, net'))
  <2>1. CASE answers = << >>
    BY <1>1, <1>3, <1>4, <2>1, ConcatEmptySeq
  <2>2. CASE answers = <<Exit>>
    <3>1. net' = Append(net, Exit)
      BY <1>3, <1>4, <2>2, AppendIsConcat, Kinds
    <3>2. \A e \in ToSet(printed) \cup ToSet(net) : Ahead(e, Exit)
      BY <1>6, Kinds DEF Ahead
    <3>3. net' \in Seq(Datagram) /\ ToSet(net') = ToSet(net) \cup {Exit}
      BY <1>4, <3>1, AppendSet, Kinds
    <3> QED
      BY <1>1, <1>4, <1>6, <3>1, <3>2, <3>3, Kinds, SendOnce, SendOrdered
  <2>3. CASE answers = <<ReturnMap, Exit>>
    <3>1. net' = Append(m, Exit)
      <4>1. answers = Append(<<ReturnMap>>, Exit) /\ <<ReturnMap>> \in Seq(Datagram)
        BY <2>3, Kinds
      <4>2. answers = <<ReturnMap>> \o <<Exit>> /\ <<Exit>> \in Seq(Datagram)
        BY <4>1, AppendIsConcat, Kinds
      <4>3. net' = (net \o <<ReturnMap>>) \o <<Exit>>
        BY <1>3, <1>4, <4>1, <4>2, ConcatAssociative
      <4>4. net \o <<ReturnMap>> = m
        BY <1>4, AppendIsConcat, Kinds
      <4>5. net' = m \o <<Exit>>
        BY <4>3, <4>4
      <4> HIDE DEF m
      <4> QED
        BY <1>7, <4>5, AppendIsConcat, Kinds
    <3> HIDE DEF m
    <3>2. \A e \in ToSet(printed) \cup ToSet(m) : Ahead(e, Exit)
      BY <1>6, <1>7, Kinds DEF Ahead
    <3>3. Exit \notin ToSet(m) /\ Exit \notin ToSet(printed)
      BY <1>6, <1>7, Kinds
    <3>4. net' \in Seq(Datagram) /\ ToSet(net') = ToSet(m) \cup {Exit}
      BY <1>7, <3>1, AppendSet, Kinds
    <3>5. Once(printed, net')
      BY <1>4, <1>7, <1>8, <3>1, <3>3, Kinds, SendOnce
    <3>6. route = "local" => Ordered(printed, net')
      BY <1>4, <1>7, <1>8, <3>1, <3>2, Kinds, SendOrdered
    <3> QED
      BY <1>7, <3>4, <3>5, <3>6
  <2> QED
    BY <1>2, <2>1, <2>2, <2>3
<1>10. RunTypeOK'
  BY <1>1, <1>3, <1>9 DEF RunTypeOK
<1>11. FromDaemon'
  <2>1. ASSUME NEW e \in ToSet(printed') \cup ToSet(net'), e.kind = "stdout"
        PROVE  \E i \in 1 .. Len(wire) : wire[i].write = e.write
    <3>1. e \in ToSet(printed) \cup ToSet(net)
      BY <1>3, <1>9, <2>1, Kinds
    <3> QED
      BY <1>1, <2>1, <3>1 DEF FromDaemon
  <2> QED
    BY <1>3, <1>5, <2>1 DEF FromDaemon
<1>12. Once(printed, net)' /\ (route = "local" => Ordered(printed, net))'
  BY <1>3, <1>9
<1>13. NothingLost'
  BY <1>1, <1>2, <1>3, <1>5, <1>9 DEF NothingLost
<1>14. WindowOpen'
  <2>1. (timely /\ large = {}) => ~Ended
    BY <1>1, <1>3, WindowAssumption DEF WindowOpen, Ended, FromDaemon, RunTypeOK, Exit
  <2> QED
    BY <1>1, <1>3, <2>1 DEF WindowOpen, Ended
<1> QED
  BY <1>5, <1>10, <1>11, <1>12, <1>13, <1>14 DEF RunInv
\* A datagram is lost on the way.
LEMMA LostInv == ASSUME RunInv, lost PROVE RunInv'
<1>1. /\ ForwarderInv /\ RunTypeOK /\ FromDaemon /\ Once(printed, net)
      /\ route = "local" => Ordered(printed, net)
      /\ NothingLost /\ WindowOpen
  BY DEF RunInv
<1>2. PICK i \in 1 .. Len(net) : net' = RemoveAt(net, i)
  BY DEF lost
<1>3. ~timely /\ UNCHANGED <<vars, route, large, timely, exited, remaining, printed, gap>>
  BY DEF lost
<1>4. wire' = wire /\ writing' = writing /\ ForwarderInv'
  BY <1>1, <1>3, ForwarderStutter DEF vars
<1>5. net \in Seq(Datagram) /\ printed \in Seq(Datagram)
  BY <1>1 DEF RunTypeOK
<1>6. net' \in Seq(Datagram) /\ ToSet(net') \subseteq ToSet(net)
  BY <1>1, <1>2, <1>5, TakenOff
<1>7. RunTypeOK'
  BY <1>1, <1>3, <1>6 DEF RunTypeOK
<1>8. FromDaemon'
  BY <1>1, <1>3, <1>4, <1>6 DEF FromDaemon
<1>9. Once(printed, net)'
  BY <1>1, <1>2, <1>3, <1>5, DropOnce
<1>10. (route = "local" => Ordered(printed, net))'
  BY <1>1, <1>2, <1>3, <1>5, DropOrdered
<1>11. NothingLost' /\ WindowOpen'
  BY <1>3 DEF NothingLost, WindowOpen
<1> QED
  BY <1>4, <1>7, <1>8, <1>9, <1>10, <1>11 DEF RunInv

\* The client reads a datagram: it prints it, if it parses, and its window grows.
LEMMA RecvInv == ASSUME RunInv, recv PROVE RunInv'
<1>1. /\ ForwarderInv /\ RunTypeOK /\ FromDaemon /\ Once(printed, net)
      /\ route = "local" => Ordered(printed, net)
      /\ NothingLost /\ WindowOpen
  BY DEF RunInv
<1>2. net \in Seq(Datagram) /\ printed \in Seq(Datagram) /\ Len(net) \in Nat /\ remaining \in Nat
  BY <1>1 DEF RunTypeOK
<1>3. PICK i \in 1 .. Len(net) :
        /\ route = "local" => i = 1
        /\ net' = RemoveAt(net, i)
        /\ remaining' = remaining - 1 + bonus(net[i])
        /\ printed' = IF parses(net[i]) THEN Append(printed, net[i]) ELSE printed
  BY DEF recv, Arriving
<1>4. remaining > 0 /\ gap' = 0 /\ UNCHANGED <<vars, route, large, timely, exited>>
  BY DEF recv
<1>5. wire' = wire /\ writing' = writing /\ ForwarderInv'
  BY <1>1, <1>4, ForwarderStutter DEF vars
<1>6. /\ net' \in Seq(Datagram) /\ net[i] \in Datagram /\ net[i] \in ToSet(net)
      /\ ToSet(net') = ToSet(net) \ {net[i]}
  <2>1. net' = RemoveAt(net, i) /\ Once(printed, net)
    BY <1>1, <1>3
  <2>2. net \in Seq(Datagram) /\ printed \in Seq(Datagram)
    BY <1>2
  <2> QED
    BY <2>1, <2>2, TakenOff
<1>7. CASE parses(net[i])
  <2>1. printed' = Append(printed, net[i])
    BY <1>3, <1>7
  <2>2. printed' \in Seq(Datagram) /\ ToSet(printed') = ToSet(printed) \cup {net[i]}
    BY <1>2, <1>6, <2>1, AppendSet
  <2>3. ToSet(printed') \cup ToSet(net') = ToSet(printed) \cup ToSet(net)
    BY <1>6, <2>2
  <2>4. remaining' \in Nat /\ remaining' > MaxGap
    BY <1>2, <1>3, <1>4, <1>7, WindowAssumption DEF bonus
  <2>5. RunTypeOK'
    BY <1>1, <1>4, <1>6, <2>2, <2>4, WindowAssumption DEF RunTypeOK
  <2>6. FromDaemon'
    BY <1>1, <1>4, <1>5, <2>3 DEF FromDaemon
  <2>7. Once(printed, net)'
    BY <1>1, <1>2, <1>3, <2>1, PrintOnce
  <2>8. (route = "local" => Ordered(printed, net))'
    <3> SUFFICES ASSUME route = "local" PROVE Ordered(printed', net')
      BY <1>4
    <3>1. i = 1 /\ 1 \in 1 .. Len(net)
      BY <1>3
    <3> QED
      BY <1>1, <1>2, <1>3, <2>1, <3>1, PrintOrdered
  <2>9. NothingLost'
    BY <1>1, <1>4, <1>5, <2>3 DEF NothingLost
  <2>10. WindowOpen'
    <3>1. MaxGap \in Nat /\ gap' = 0
      BY <1>4, WindowAssumption
    <3>2. remaining' # 0
      BY <2>4, <3>1
    <3>3. \A r, g \in Nat : r > MaxGap => r + g > MaxGap
      BY <3>1
    <3>4. remaining' + gap' > MaxGap
      BY <2>4, <3>1, <3>3
    <3> QED
      BY <3>2, <3>4 DEF WindowOpen, Ended
  <2> QED
    BY <1>5, <2>5, <2>6, <2>7, <2>8, <2>9, <2>10 DEF RunInv
<1>8. CASE ~parses(net[i])
  <2>1. printed' = printed /\ remaining' = remaining - 1 /\ large # {}
    BY <1>2, <1>3, <1>8 DEF parses, bonus
  <2>2. RunTypeOK'
    BY <1>1, <1>4, <1>6, <2>1, WindowAssumption DEF RunTypeOK
  <2>3. FromDaemon'
    BY <1>1, <1>4, <1>5, <1>6, <2>1 DEF FromDaemon
  <2>4. Once(printed, net)'
    BY <1>1, <1>2, <1>3, <2>1, DropOnce
  <2>5. (route = "local" => Ordered(printed, net))'
    BY <1>1, <1>2, <1>3, <1>4, <2>1, DropOrdered
  <2>6. NothingLost' /\ WindowOpen'
    BY <1>4, <2>1 DEF NothingLost, WindowOpen
  <2> QED
    BY <1>5, <2>2, <2>3, <2>4, <2>5, <2>6 DEF RunInv
<1> QED
  BY <1>7, <1>8

\* A check passes without a datagram.  In a good run it is one of at most MaxGap in a row.
LEMMA RecvNoneInv == ASSUME RunInv, recv_none PROVE RunInv'
<1>1. /\ ForwarderInv /\ RunTypeOK /\ FromDaemon /\ Once(printed, net)
      /\ route = "local" => Ordered(printed, net)
      /\ NothingLost /\ WindowOpen
  BY DEF RunInv
<1>2. /\ remaining > 0 /\ remaining' = remaining - 1
      /\ gap' = IF timely /\ gap < MaxGap THEN gap + 1 ELSE gap
      /\ timely => net = <<>> /\ (gap < MaxGap \/ Exit \in ToSet(printed))
      /\ UNCHANGED <<vars, route, large, timely, exited, net, printed>>
  BY DEF recv_none
<1>3. wire' = wire /\ writing' = writing /\ ForwarderInv'
  BY <1>1, <1>2, ForwarderStutter DEF vars
<1>4. remaining \in Nat /\ gap \in 0 .. MaxGap
  BY <1>1 DEF RunTypeOK
<1>5. RunTypeOK'
  <2>1. remaining' \in Nat /\ gap' \in 0 .. MaxGap
    BY <1>2, <1>4, WindowAssumption
  <2> QED
    BY <1>1, <1>2, <2>1 DEF RunTypeOK
<1>6. FromDaemon'
  BY <1>1, <1>2, <1>3 DEF FromDaemon
<1>7. Once(printed, net)' /\ (route = "local" => Ordered(printed, net))'
  BY <1>1, <1>2
<1>8. NothingLost'
  BY <1>1, <1>2, <1>3 DEF NothingLost
<1>9. WindowOpen'
  <2>1. ASSUME timely, large = {}, Exit \notin ToSet(printed) PROVE remaining' + gap' > MaxGap
    BY <1>1, <1>2, <1>4, <2>1, WindowAssumption DEF WindowOpen
  <2> QED
    BY <1>2, <2>1 DEF WindowOpen
<1> QED
  BY <1>3, <1>5, <1>6, <1>7, <1>8, <1>9 DEF RunInv

\* The invariant of the run command: what is printed and on the way is what the daemon sent, once and
\* on the loopback in order, and in a good run the window outlasts the program.
THEOREM RunInvariant == RunSpec => []RunInv
<1>1. RunInit => RunInv
  BY RunInitInv
<1>2. RunInv /\ [RunNext]_<<vars, clientVars>> => RunInv'
  <2> SUFFICES ASSUME RunInv, [RunNext]_<<vars, clientVars>> PROVE RunInv'
    OBVIOUS
  <2>1. CASE RunNext
    BY <2>1, GuestInv, EndInv, LostInv, RecvInv, RecvNoneInv DEF RunNext
  <2>2. CASE UNCHANGED <<vars, clientVars>>
    <3>1. ForwarderInv' /\ wire' = wire /\ writing' = writing
      BY <2>2, ForwarderStutter DEF RunInv, vars
    <3>2. UNCHANGED <<route, large, timely, exited, net, remaining, printed, gap>>
      BY <2>2 DEF clientVars
    <3>3. RunTypeOK' /\ FromDaemon' /\ NothingLost' /\ WindowOpen'
      BY <3>1, <3>2 DEF RunInv, RunTypeOK, FromDaemon, NothingLost, WindowOpen, Ended
    <3> QED
      BY <3>1, <3>2, <3>3 DEF RunInv
  <2> QED
    BY <2>1, <2>2
<1> QED
  BY <1>1, <1>2, PTL DEF RunSpec

\* The client's state keeps its type; in particular remaining_100ms_checks, which is unsigned and
\* counted down once per pass, never goes below zero.
THEOREM RunTyped == RunSpec => []RunTypeOK
BY RunInvariant, PTL DEF RunInv

\* read_daemon_replies prints nothing twice, and what the local daemon sends in the order in which
\* the program wrote it, the exit last.
THEOREM PrintsInOrder == RunSpec => []PrintedInOrder
<1>1. RunInv => PrintedInOrder
  BY DEF RunInv, Once, Ordered, Ahead, PrintedInOrder
<1> QED
  BY <1>1, RunInvariant, PTL

\* A program that is never silent for more than MaxGap checks, whose datagrams arrive and fit the
\* buffer, is shown to its end: the window does not close before its exit is printed.
THEOREM ShowsToTheEnd == RunSpec => []ShownToTheEnd
<1>1. RunInv => ShownToTheEnd
  <2> SUFFICES ASSUME RunInv, timely, Ended, large = {}
               PROVE  /\ \A i \in 1 .. Len(wire) : Stdout(wire[i].write) \in ToSet(printed)
                      /\ exited /\ net = << >> /\ Exit \in ToSet(printed)
    BY DEF ShownToTheEnd
  <2>1. net = << >> /\ ToSet(net) = {}
    BY DEF RunInv, WindowOpen, ToSet
  <2>2. Exit \in ToSet(printed)
    BY WindowAssumption DEF RunInv, WindowOpen, Ended, RunTypeOK
  <2>3. exited
    BY <2>2, Kinds DEF RunInv, FromDaemon
  <2>4. \A i \in 1 .. Len(wire) : Stdout(wire[i].write) \in ToSet(printed)
    BY <2>1 DEF RunInv, NothingLost
  <2> QED
    BY <2>1, <2>2, <2>3, <2>4
<1> QED
  BY <1>1, RunInvariant, PTL

\* With a client at the other end the forwarder keeps its promises: the order of the output over all
\* streams, and losses only over a pending socket.
THEOREM ForwarderInRun == RunSpec => [](OutputInOrder /\ LostOnlyIfPending)
<1>1. RunInv => OutputInOrder /\ LostOnlyIfPending
  BY DEF RunInv, ForwarderInv
<1> QED
  BY <1>1, RunInvariant, PTL
=============================================================================
