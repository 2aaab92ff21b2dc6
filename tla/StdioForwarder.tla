--------------------------- MODULE StdioForwarder ---------------------------
(***************************************************************************)
(* How the output of a guest program reaches whoever asked for it:         *)
(* WasiStdioSimpleForwarder in src/src/executor/wasi_adapters.rs.          *)
(*                                                                         *)
(* Every clone of the forwarder keeps its own polled state.  The WASI      *)
(* streams have one clone each for the life of the program; host::print    *)
(* writes each time through a fresh clone.  The guest is one thread and    *)
(* waits for each of its writes, so at most one is in progress.            *)
(*                                                                         *)
(* The socket is external: poll_send_to may send the datagram, fail, or be *)
(* pending, after which the write is polled again.  A datagram is sent     *)
(* whole.  Left out: the no-op forwarder of local runs, flush and shutdown *)
(* (both do nothing), and the encoding, which does not fail.               *)
(***************************************************************************)
EXTENDS Integers, Sequences

CONSTANTS
  Stream,     \* the clones: stdout, stderr, host::print
  Fresh,      \* the ones cloned anew for every write
  MaxWrites   \* bound of the model: writes of the guest, numbered from 1

ASSUME StreamAssumption == Fresh \subseteq Stream
ASSUME WritesAssumption == MaxWrites \in Nat

VARIABLES
  writes,     \* writes the guest has begun
  writing,    \* the streams with a write in progress: one or none
  msg,        \* current_encoded_msg: the write it holds, 0 for None
  closed,     \* streams whose writer has given up after an error
  wire,       \* the datagrams sent, in order
  done,       \* writes answered with Ok, and the stream of each
  pended      \* history: writes for which the socket was pending

vars == <<writes, writing, msg, closed, wire, done, pended>>

Frame == [stream : Stream, write : 1 .. MaxWrites]

-----------------------------------------------------------------------------
(* Seeded faults.                                                          *)
NotCleared(s) ==
  /\ msg[s] = 0
  /\ wire' = Append(wire, [stream |-> s, write |-> writes])
  /\ msg' = [msg EXCEPT ![s] = writes]
  /\ done' = done \cup {[stream |-> s, write |-> writes]}
  /\ writing' = {}
  /\ UNCHANGED <<closed, pended>>
ResentNotCleared(s) ==
  /\ msg[s] # 0
  /\ wire' = Append(wire, [stream |-> s, write |-> msg[s]])
  /\ done' = done \cup {[stream |-> s, write |-> writes]}
  /\ writing' = {}
  /\ UNCHANGED <<msg, closed, pended>>

-----------------------------------------------------------------------------
\* The guest writes: fd_write on an open stream, or host::print, which clones the forwarder as
\* set_pid left it.
write(s) ==
  /\ writing = {}
  /\ writes < MaxWrites
  /\ s \notin closed
  /\ writes' = writes + 1
  /\ writing' = {s}
  /\ msg' = IF s \in Fresh THEN [msg EXCEPT ![s] = 0] ELSE msg
  /\ UNCHANGED <<closed, wire, done, pended>>

\* poll_write returns Ok: the message was encoded and sent in this call ...
sent(s) ==
  /\ msg[s] = 0
  /\ wire' = Append(wire, [stream |-> s, write |-> writes])
  /\ done' = done \cup {[stream |-> s, write |-> writes]}
  /\ writing' = {}
  /\ UNCHANGED <<msg, closed, pended>>

\* ... or it was encoded in an earlier call: the loop that sends is skipped.
resumed(s) ==
  /\ msg[s] # 0
  /\ msg' = [msg EXCEPT ![s] = 0]
  /\ done' = done \cup {[stream |-> s, write |-> writes]}
  /\ writing' = {}
  /\ UNCHANGED <<wire, closed, pended>>

\* The socket is pending: the write will be polled again.
pending(s) ==
  /\ msg[s] = 0
  /\ msg' = [msg EXCEPT ![s] = writes]
  /\ pended' = pended \cup {writes}
  /\ UNCHANGED <<wire, done, writing, closed>>

\* The socket fails.  The writer of a WASI stream stops for good; host::print logs the error.
fails(s) ==
  /\ msg[s] = 0
  /\ msg' = [msg EXCEPT ![s] = writes]
  /\ closed' = IF s \in Fresh THEN closed ELSE closed \cup {s}
  /\ writing' = {}
  /\ UNCHANGED <<wire, done, pended>>

poll_write(s) ==
  /\ s \in writing
  /\ sent(s) \/ resumed(s) \/ pending(s) \/ fails(s)
  /\ UNCHANGED writes

Init ==
  /\ writes = 0
  /\ writing = {}
  /\ msg = [s \in Stream |-> 0]
  /\ closed = {}
  /\ wire = <<>>
  /\ done = {}
  /\ pended = {}

Next == \E s \in Stream : write(s) \/ poll_write(s)

Spec == Init /\ [][Next]_vars

-----------------------------------------------------------------------------
(* Properties                                                              *)

\* Every variable has its type, and at most one write is in progress.
TypeOK ==
  /\ writes \in 0 .. MaxWrites
  /\ writing \in {{}} \cup {{s} : s \in Stream}
  /\ msg \in [Stream -> 0 .. MaxWrites]
  /\ closed \subseteq Stream
  /\ wire \in Seq(Frame)
  /\ done \subseteq Frame
  /\ pended \subseteq 1 .. MaxWrites

\* What the caller sees is what the guest wrote, in the order it wrote it over all its streams, with
\* nothing twice, whatever was left in the polled state of a stream before.
OutputInOrder ==
  /\ \A i, j \in 1 .. Len(wire) : i < j => wire[i].write < wire[j].write
  /\ \A i \in 1 .. Len(wire) : wire[i] \in done

\* A write that was answered with Ok is lost before the socket only if the socket was pending for it:
\* neither an earlier failure nor another stream's write can swallow it.
LostOnlyIfPending ==
  \A f \in done : (\E i \in 1 .. Len(wire) : wire[i] = f) \/ f.write \in pended

-----------------------------------------------------------------------------
(* The inductive invariant behind these two.                               *)

\* The writes answered and sent so far; the one in progress is neither.
Progress ==
  /\ \A f \in done : f.write <= writes /\ (writing # {} => f.write < writes)
  /\ \A s \in writing : writes > 0

\* A message is left in the polled state only by a write in progress that met a pending socket, and
\* by one that failed: then the stream is closed, or its clone is not used again.
LeftOver ==
  \A s \in Stream : msg[s] # 0 =>
    IF s \in writing THEN writes \in pended ELSE s \in closed \cup Fresh

ForwarderInv == TypeOK /\ OutputInOrder /\ LostOnlyIfPending /\ Progress /\ LeftOver

-----------------------------------------------------------------------------
(* What the comments of the code promise beyond that.                      *)

\* "Success, we have sent everything!": a write that is answered with Ok has been sent.
OkMeansSent == \A f \in done : \E i \in 1 .. Len(wire) : wire[i] = f
=============================================================================
