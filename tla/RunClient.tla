----------------------------- MODULE RunClient ------------------------------
(***************************************************************************)
(* The client of the run command, at the other end of the forwarder: one   *)
(* socket that sent an ExecuteRequest and prints what comes back while its *)
(* window is open (send_to_local_daemon, run_one_peer, run_one_iface and   *)
(* read_daemon_replies in src/src/command/run.rs), and the answer that     *)
(* serve_group sends when the program has ended (src/src/command/serve.rs).*)
(*                                                                         *)
(* The window is a number of checks of 100 ms.  Every pass of the loop     *)
(* uses one up, whether it ended with a datagram, an error or the timeout; *)
(* a datagram that parses adds ten.                                        *)
(*                                                                         *)
(* The unicast paths (the local daemon, a peer) read into a buffer of 16   *)
(* KiB: a longer datagram is cut and does not parse.  The multicast path   *)
(* reads into 64 KiB, which holds any.  Datagrams to the local daemon's    *)
(* client cross only the loopback, which keeps their order.                *)
(***************************************************************************)
EXTENDS StdioForwarder, SequencesExt

CONSTANTS
  INITIAL_CHECKS,   \* 24 in the code
  EXTRA_CHECKS,     \* 10 in the code
  MaxGap            \* checks between two arrivals in a good run

ASSUME WindowAssumption ==
  /\ INITIAL_CHECKS \in Nat \ {0} /\ EXTRA_CHECKS \in Nat \ {0}
  /\ MaxGap \in Nat /\ MaxGap < EXTRA_CHECKS /\ MaxGap < INITIAL_CHECKS

VARIABLES
  route,     \* how the request was sent: "local", "peer" or "multicast"
  large,     \* the writes too large for the buffer of a unicast path
  timely,    \* a good run: nothing lost, no error, no silence of more than MaxGap checks before the exit
  exited,    \* the program has ended and serve_group has answered
  net,       \* datagrams on the way to the client
  remaining, \* remaining_100ms_checks
  printed,   \* what the client has printed
  gap        \* history, in a good run: checks since the last arrival

clientVars == <<route, large, timely, exited, net, remaining, printed, gap>>

Stdout(w) == [kind |-> "stdout", write |-> w]
ReturnMap == [kind |-> "map", write |-> 0]
Exit == [kind |-> "exit", write |-> 0]
Datagram == {Stdout(w) : w \in 1 .. MaxWrites} \cup {ReturnMap, Exit}

-----------------------------------------------------------------------------
(* Seeded faults.                                                          *)
NoBonus(m) == 0
ExitWithoutWait(answers) ==
  /\ ~exited
  /\ exited' = TRUE
  /\ net' = net \o answers
  /\ UNCHANGED <<vars, route, large, timely, remaining, printed, gap>>
TimeoutsFree == remaining > 0 /\ UNCHANGED <<vars, clientVars>>

-----------------------------------------------------------------------------
(* The daemon.                                                             *)

\* The program writes and the forwarder sends; what is sent is on its way.
guest ==
  /\ \E s \in Stream : (write(s) /\ ~exited) \/ poll_write(s)
  /\ net' = net \o [i \in 1 .. Len(wire') - Len(wire) |-> Stdout(wire'[Len(wire) + i].write)]
  /\ UNCHANGED <<route, large, timely, exited, remaining, printed, gap>>

\* serve_group after wait_for_pid_exit: the record the program returned, if any, then its exit.  If
\* the wait or a send fails there is no answer.
exit_reply(answers) ==
  /\ ~exited
  /\ writing = {}
  /\ exited' = TRUE
  /\ net' = net \o answers
  /\ UNCHANGED <<vars, route, large, timely, remaining, printed, gap>>

end ==
  \/ exit_reply(<<Exit>>)
  \/ exit_reply(<<ReturnMap, Exit>>)
  \/ ~timely /\ exit_reply(<<>>)

-----------------------------------------------------------------------------
(* The network.                                                            *)

\* The datagrams that may arrive next.
Arriving(n) == IF route = "local" THEN {i \in 1 .. Len(n) : i = 1} ELSE 1 .. Len(n)

lost ==
  /\ ~timely
  /\ \E i \in 1 .. Len(net) : net' = RemoveAt(net, i)
  /\ UNCHANGED <<vars, route, large, timely, exited, remaining, printed, gap>>

-----------------------------------------------------------------------------
(* The client: one pass of the loop.                                       *)

\* The datagram came in whole, so it decodes.
parses(m) == m.kind # "stdout" \/ m.write \notin large

bonus(m) == IF parses(m) THEN EXTRA_CHECKS ELSE 0

\* sock.recv gives a datagram.  What does not parse is not printed.
recv ==
  /\ remaining > 0
  /\ \E i \in Arriving(net) :
       /\ net' = RemoveAt(net, i)
       /\ remaining' = remaining - 1 + bonus(net[i])
       /\ printed' = IF parses(net[i]) THEN Append(printed, net[i]) ELSE printed
  /\ gap' = 0
  /\ UNCHANGED <<vars, route, large, timely, exited>>

\* No datagram in 100 ms, or an error of the socket.
recv_none ==
  /\ remaining > 0
  /\ timely => net = <<>> /\ (gap < MaxGap \/ Exit \in ToSet(printed))
  /\ remaining' = remaining - 1
  /\ gap' = IF timely /\ gap < MaxGap THEN gap + 1 ELSE gap
  /\ UNCHANGED <<vars, route, large, timely, exited, net, printed>>

-----------------------------------------------------------------------------
RunInit ==
  /\ Init
  /\ route \in {"local", "peer", "multicast"}
  /\ large \in SUBSET (IF route = "multicast" THEN {} ELSE 1 .. MaxWrites)
  /\ timely \in BOOLEAN
  /\ exited = FALSE
  /\ net = <<>>
  /\ remaining = INITIAL_CHECKS
  /\ printed = <<>>
  /\ gap = 0

RunNext == guest \/ end \/ lost \/ recv \/ recv_none

\* The client's loop runs.  Nothing is assumed of the daemon, but for the good runs, in which it
\* goes on until it has answered.
RunFairness ==
  WF_<<vars, clientVars>>(recv \/ recv_none) /\ WF_<<vars, clientVars>>(timely /\ (guest \/ end))

RunSpec == RunInit /\ [][RunNext]_<<vars, clientVars>> /\ RunFairness

-----------------------------------------------------------------------------
(* Properties                                                              *)

Ended == remaining = 0

\* Every variable has its type; in particular the unsigned number of checks does not wrap.
RunTypeOK ==
  /\ route \in {"local", "peer", "multicast"}
  /\ large \subseteq 1 .. MaxWrites
  /\ timely \in BOOLEAN /\ exited \in BOOLEAN
  /\ net \in Seq(Datagram)
  /\ remaining \in Nat
  /\ printed \in Seq(Datagram)
  /\ gap \in 0 .. MaxGap

\* From the local daemon the client prints what the program wrote in the order it wrote it, over all
\* its streams, and the exit after all of it; on every route it prints nothing twice.
PrintedInOrder ==
  /\ \A i, j \in 1 .. Len(printed) : printed[i] = printed[j] => i = j
  /\ route = "local" =>
       \A i, j \in 1 .. Len(printed) : i < j =>
         /\ printed[i] # Exit
         /\ printed[j].kind = "stdout" => printed[i].write < printed[j].write

\* A program that never lets MaxGap checks pass without output is shown to its end, however long it
\* runs: all that the forwarder sent, and the exit.  It takes that each datagram fits the buffer.
ShownToTheEnd ==
  (timely /\ Ended /\ large = {}) =>
    /\ \A i \in 1 .. Len(wire) : Stdout(wire[i].write) \in ToSet(printed)
    /\ exited /\ net = <<>> /\ Exit \in ToSet(printed)

\* The command ends, although every reply keeps it waiting for longer.
ClientEnds == <>Ended

-----------------------------------------------------------------------------
(* The inductive invariant behind the two.                                 *)

\* What the client gets is what the daemon sent: output that is on the forwarder's wire, and after
\* the program has ended, when no write is in progress, its answers.
FromDaemon ==
  /\ exited => writing = {}
  /\ \A m \in ToSet(printed) \cup ToSet(net) :
       IF m.kind = "stdout" THEN \E i \in 1 .. Len(wire) : wire[i].write = m.write ELSE exited

\* No datagram is there twice, among those printed and those on the way.
Once(p, n) ==
  /\ \A i, j \in 1 .. Len(p) : p[i] = p[j] => i = j
  /\ \A i, j \in 1 .. Len(n) : n[i] = n[j] => i = j
  /\ ToSet(p) \cap ToSet(n) = {}

\* d is ahead of e in what the local daemon sends.
Ahead(d, e) == d # Exit /\ (e.kind = "stdout" => d.write < e.write)

\* The loopback keeps the order, also between what is printed and what is on the way.
Ordered(p, n) ==
  /\ \A i, j \in 1 .. Len(p) : i < j => Ahead(p[i], p[j])
  /\ \A i, j \in 1 .. Len(n) : i < j => Ahead(n[i], n[j])
  /\ \A d \in ToSet(p), e \in ToSet(n) : Ahead(d, e)

\* In a good run nothing that was sent disappears, ...
NothingLost ==
  (timely /\ large = {}) =>
    /\ \A i \in 1 .. Len(wire) : Stdout(wire[i].write) \in ToSet(printed) \cup ToSet(net)
    /\ exited => Exit \in ToSet(printed) \cup ToSet(net)

\* ... and until the exit is printed the window outlasts any silence; it closes on an empty network.
WindowOpen ==
  (timely /\ large = {}) =>
    /\ Exit \notin ToSet(printed) => remaining + gap > MaxGap
    /\ Ended => net = <<>>

RunInv ==
  /\ ForwarderInv /\ RunTypeOK
  /\ FromDaemon
  /\ Once(printed, net)
  /\ route = "local" => Ordered(printed, net)
  /\ NothingLost /\ WindowOpen
=============================================================================
