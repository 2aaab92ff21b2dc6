--------------------------- MODULE LauncherProofs ---------------------------
(***************************************************************************)
(* What Launcher promises of the terminal and of the messages, for any     *)
(* number of keystrokes and requests.                                      *)
(*                                                                         *)
(* Control says which stages of the command go with which stages of the    *)
(* guard, of the program and of the task that broadcasts; Stream accounts  *)
(* for every message; Delivered says what is left of them when the command *)
(* is about to end.                                                        *)
(***************************************************************************)
EXTENDS Launcher, TLAPS

Attached == {"begin", "register", "wait", "grace", "drop", "join"}

Control ==
  /\ command = "run_local" =>
       guard = "none" /\ pc \notin {"begin", "grace", "drop", "join"} /\ drain = "none" /\ sending = 0
  /\ command = "chat" => pc # "flush"
  /\ pc \in {"start", "begin"} => program = "none"
  /\ pc \in {"grace", "drop", "join", "flush", "over"} => program \in {"none", "ended", "failed"}
  /\ pc = "start" => guard = "none"
  /\ command = "chat" /\ pc \in Attached => guard = "held"
  /\ command = "chat" /\ pc \in {"register", "wait", "grace"} => drain = "waiting"
  /\ guard = "held" => pc \in Attached
  /\ guard = "dropped" => pc = "over" /\ reader = "ended" /\ term = {}

Stream == sent + lost + sending + queue = said

Delivered ==
  (/\ program = "ended"
   /\ IF command = "chat" THEN timely /\ pc \in {"drop", "join", "over"} ELSE pc = "over")
    => queue = 0 /\ sending = 0

LauncherInv == TypeOK /\ Control /\ Stream /\ Delivered

-----------------------------------------------------------------------------
\* Steps of the terminal and of the keyboard keep the types: only events that map_event lets through
\* get into the channel.
LEMMA TerminalTyped ==
  ASSUME TypeOK, attach \/ press \/ Keyboard \/ reader_fails \/ drop_guard \/ restore
  PROVE  TypeOK'
<1> USE DEF programVars, channelVars, terminalVars
<1>1. CASE attach BY <1>1 DEF attach, TypeOK
<1>2. CASE press
  <2>1. PICK k \in Keystroke : typed' = Append(typed, k) BY <1>2 DEF press
  <2>2. typed' \in Seq(Keystroke) BY <2>1 DEF TypeOK
  <2>3. keys' \in 0 .. MaxKeys BY <1>2, MaxKeysAssumption DEF press, TypeOK
  <2> QED BY <1>2, <2>2, <2>3 DEF press, TypeOK
<1>3. CASE reader_checks BY <1>3 DEF reader_checks, Reader, TypeOK
<1>4. CASE reader_polls
  <2>1. CASE typed = <<>> /\ UNCHANGED <<typed, events>> BY <1>4, <2>1 DEF reader_polls, Reader, TypeOK
  <2>2. CASE typed # <<>> /\ typed' = Tail(typed) /\ events' = events \o map_event(Head(typed))
    <3>1. map_event(Head(typed)) \in Seq(TtyEvent)
      BY <2>2 DEF map_event, TypeOK
    <3>2. typed' \in Seq(Keystroke) /\ events' \in Seq(TtyEvent)
      BY <2>2, <3>1 DEF TypeOK
    <3> QED BY <1>4, <3>2 DEF reader_polls, Reader, TypeOK
  <2> QED BY <1>4, <2>1, <2>2 DEF reader_polls
<1>5. CASE reader_fails BY <1>5 DEF reader_fails, Reader, TypeOK
<1>6. CASE drop_guard BY <1>6 DEF drop_guard, TypeOK
<1>7. CASE restore BY <1>7 DEF restore, TypeOK
<1> QED BY <1>1, <1>2, <1>3, <1>4, <1>5, <1>6, <1>7 DEF Keyboard

\* Steps of the command and of the task that broadcasts keep the types.
LEMMA CommandTyped ==
  ASSUME TypeOK, \/ prepare_fails \/ begin_exec \/ register \/ wait_for_pid_exit \/ grace_ends \/ flush
                 \/ Drain
  PROVE  TypeOK'
<1> USE DEF programVars, channelVars, terminalVars, TypeOK
<1>1. CASE prepare_fails BY <1>1 DEF prepare_fails
<1>2. CASE begin_exec BY <1>2 DEF begin_exec
<1>3. CASE register BY <1>3 DEF register, Over
<1>4. CASE wait_for_pid_exit BY <1>4 DEF wait_for_pid_exit
<1>5. CASE grace_ends BY <1>5 DEF grace_ends
<1>6. CASE flush
  <2>1. queue' \in Nat /\ sent' \in Nat /\ lost' \in Nat BY <1>6 DEF flush, broadcast
  <2> QED BY <1>6, <2>1 DEF flush
<1>7. CASE drain_recv
  <2>1. queue' \in Nat /\ sending' \in 0 .. 1 BY <1>7 DEF drain_recv
  <2> QED BY <1>7, <2>1 DEF drain_recv
<1>8. CASE drain_broadcast
  <2>1. sent' \in Nat /\ lost' \in Nat /\ sending' \in 0 .. 1 BY <1>8 DEF drain_broadcast, broadcast
  <2> QED BY <1>8, <2>1 DEF drain_broadcast
<1> QED BY <1>1, <1>2, <1>3, <1>4, <1>5, <1>6, <1>7, <1>8 DEF Drain

\* Steps of the program keep the types.
LEMMA ProgramTyped ==
  ASSUME TypeOK, Program \/ replicate \/ guest_ends \/ ui_traps
  PROVE  TypeOK'
<1> USE DEF programVars, channelVars, terminalVars
<1>1. ASSUME Send PROVE said' \in Nat /\ queue' \in Nat
  BY <1>1 DEF Send, TypeOK
<1>2. CASE send_join BY <1>1, <1>2 DEF send_join, TypeOK
<1>3. CASE ui_loop
  <2>1. said' \in Nat /\ queue' \in Nat BY <1>1, <1>3 DEF ui_loop, TypeOK
  <2>2. events' \in Seq(TtyEvent) BY <1>3 DEF ui_loop, TypeOK
  <2>3. line' \in BOOLEAN BY <1>3 DEF ui_loop, TypeOK
  <2>4. program' \in {"running", "leaving"} BY <1>3 DEF ui_loop
  <2> QED BY <1>3, <2>1, <2>2, <2>3, <2>4 DEF ui_loop, TypeOK
<1>4. CASE send_leave BY <1>1, <1>4 DEF send_leave, TypeOK
<1>5. CASE guest_ends BY <1>5 DEF guest_ends, TypeOK
<1>6. CASE replicate BY <1>1, <1>6 DEF replicate, TypeOK
<1>7. CASE ui_traps BY <1>7 DEF ui_traps, TypeOK
<1> QED BY <1>2, <1>3, <1>4, <1>5, <1>6, <1>7 DEF Program

-----------------------------------------------------------------------------
\* The guard, the command and the program stay in step.
LEMMA ControlKept ==
  ASSUME TypeOK, Control, Next
  PROVE  Control'
<1> USE DEF programVars, channelVars, terminalVars, Control, Attached
<1>1. CASE attach BY <1>1 DEF attach
<1>2. CASE press BY <1>2 DEF press
<1>3. CASE Keyboard BY <1>3 DEF Keyboard, reader_checks, reader_polls, Reader
<1>4. CASE reader_fails BY <1>4 DEF reader_fails, Reader
<1>5. CASE drop_guard BY <1>5 DEF drop_guard
<1>6. CASE restore BY <1>6 DEF restore
<1>7. CASE prepare_fails BY <1>7 DEF prepare_fails
<1>8. CASE begin_exec
  <2>1. command \in {"chat", "run_local"} BY DEF TypeOK
  <2> QED BY <1>8, <2>1 DEF begin_exec
<1>9. CASE register BY <1>9 DEF register
<1>10. CASE wait_for_pid_exit
  <2>1. command \in {"chat", "run_local"} BY DEF TypeOK
  <2> QED BY <1>10, <2>1 DEF wait_for_pid_exit, Over
<1>11. CASE grace_ends BY <1>11 DEF grace_ends
<1>12. CASE flush BY <1>12 DEF flush
<1>13. CASE Drain BY <1>13 DEF Drain, drain_recv, drain_broadcast
<1>14. CASE Program \/ guest_ends BY <1>14 DEF Program, send_join, ui_loop, send_leave, guest_ends
<1>15. CASE replicate BY <1>15 DEF replicate
<1>16. CASE ui_traps BY <1>16 DEF ui_traps
<1> QED BY <1>1, <1>2, <1>3, <1>4, <1>5, <1>6, <1>7, <1>8, <1>9, <1>10, <1>11, <1>12, <1>13, <1>14,
           <1>15, <1>16 DEF Next, Command

-----------------------------------------------------------------------------
\* Every step keeps the account of the messages.
LEMMA StreamKept ==
  ASSUME TypeOK, Control, Stream, Next
  PROVE  Stream'
<1> USE DEF programVars, channelVars
<1>0. queue \in Nat /\ sending \in Nat /\ sent \in Nat /\ lost \in Nat /\ said \in Nat
  BY DEF TypeOK
<1>1. ASSUME UNCHANGED <<queue, sending, sent, lost, said>> PROVE Stream'
  BY <1>1 DEF Stream
<1>2. ASSUME Send, UNCHANGED <<sending, sent, lost>> PROVE Stream'
  BY <1>0, <1>2 DEF Send, Stream
<1>3. CASE Command
  <2>1. CASE flush
    <3>1. UNCHANGED <<sending, said>> BY <2>1 DEF flush
    <3>2. CASE queue > 0 /\ queue' = queue - 1 /\ broadcast
      <4>1. CASE sent' = sent + 1 /\ UNCHANGED lost BY <1>0, <3>1, <3>2, <4>1 DEF Stream
      <4>2. CASE lost' = lost + 1 /\ UNCHANGED sent BY <1>0, <3>1, <3>2, <4>2 DEF Stream
      <4> QED BY <3>2, <4>1, <4>2 DEF broadcast
    <3>3. CASE UNCHANGED <<queue, sent, lost>> BY <1>1, <3>1, <3>3
    <3> QED BY <2>1, <3>2, <3>3 DEF flush
  <2> QED BY <1>1, <1>3, <2>1 DEF Command, attach, drop_guard, restore, prepare_fails, begin_exec, register,
                                  wait_for_pid_exit, grace_ends
<1>4. CASE Keyboard \/ press \/ reader_fails \/ guest_ends \/ ui_traps
  BY <1>1, <1>4 DEF Keyboard, reader_checks, reader_polls, Reader, press, reader_fails, guest_ends, ui_traps
<1>5. CASE drain_recv
  <2>1. sending = 0 /\ sending' = 1 /\ queue' = queue - 1 /\ UNCHANGED <<sent, lost, said>>
    BY <1>5 DEF drain_recv
  <2> QED BY <1>0, <2>1 DEF Stream
<1>6. CASE drain_broadcast
  <2>1. broadcast /\ sending = 1 /\ sending' = 0 /\ UNCHANGED <<queue, said>> BY <1>6 DEF drain_broadcast
  <2>2. CASE sent' = sent + 1 /\ UNCHANGED lost BY <1>0, <2>1, <2>2 DEF Stream
  <2>3. CASE lost' = lost + 1 /\ UNCHANGED sent BY <1>0, <2>1, <2>3 DEF Stream
  <2> QED BY <2>1, <2>2, <2>3 DEF broadcast
<1>7. CASE send_join \/ send_leave \/ replicate
  BY <1>2, <1>7 DEF send_join, send_leave, replicate
<1>8. CASE ui_loop
  <2>1. UNCHANGED <<sent, sending, lost>> BY <1>8 DEF ui_loop
  <2>2. Send \/ UNCHANGED <<said, queue>> BY <1>8 DEF ui_loop
  <2> QED BY <1>1, <1>2, <2>1, <2>2
<1> QED BY <1>3, <1>4, <1>5, <1>6, <1>7, <1>8 DEF Next, Drain, Program

-----------------------------------------------------------------------------
\* Nothing is left over when a command ends that had the time, and nothing comes after it.
LEMMA DeliveredKept ==
  ASSUME TypeOK, Control, Delivered, Next
  PROVE  Delivered'
<1> USE DEF programVars, channelVars, terminalVars, Delivered
<1>1. CASE attach \/ prepare_fails \/ begin_exec \/ register
  BY <1>1 DEF attach, prepare_fails, begin_exec, register, Control, TypeOK
<1>2. CASE press \/ Keyboard \/ reader_fails
  BY <1>2 DEF press, Keyboard, reader_checks, reader_polls, Reader, reader_fails
<1>3. CASE drop_guard \/ restore
  BY <1>3 DEF drop_guard, restore, Control, TypeOK
<1>4. CASE wait_for_pid_exit BY <1>4 DEF wait_for_pid_exit
<1>5. CASE grace_ends BY <1>5 DEF grace_ends, Control
<1>6. CASE flush BY <1>6 DEF flush, Control, TypeOK
<1>7. CASE Drain BY <1>7 DEF Drain, drain_recv, drain_broadcast
<1>8. CASE Program \/ replicate \/ guest_ends \/ ui_traps
  <2>1. program \in {"starting", "running", "leaving"} /\ UNCHANGED <<pc, command, timely>>
    BY <1>8 DEF Program, send_join, ui_loop, send_leave, guest_ends, replicate, ui_traps
  <2> QED BY <2>1 DEF Control
<1> QED BY <1>1, <1>2, <1>3, <1>4, <1>5, <1>6, <1>7, <1>8 DEF Next, Command

-----------------------------------------------------------------------------
\* LauncherInv is inductive.
THEOREM LauncherInvariant == Spec => []LauncherInv
<1>1. Init => LauncherInv
  <2> SUFFICES ASSUME Init PROVE LauncherInv OBVIOUS
  <2>1. TypeOK
    <3>1. keys \in 0 .. MaxKeys BY MaxKeysAssumption DEF Init
    <3>2. typed \in Seq(Keystroke) /\ events \in Seq(TtyEvent) BY DEF Init
    <3>3. said \in Nat /\ queue \in Nat /\ sending \in 0 .. 1 /\ sent \in Nat /\ lost \in Nat BY DEF Init
    <3> QED BY <3>1, <3>2, <3>3, Zenon DEF Init, TypeOK
  <2>2. Control BY DEF Init, Control, Attached
  <2>4. Stream BY DEF Init, Stream
  <2>5. Delivered BY DEF Init, Delivered
  <2> QED BY <2>1, <2>2, <2>4, <2>5 DEF LauncherInv
<1>2. LauncherInv /\ [Next]_vars => LauncherInv'
  <2> SUFFICES ASSUME LauncherInv, [Next]_vars PROVE LauncherInv' OBVIOUS
  <2>1. CASE Next
    <3>1. TypeOK'
      BY <2>1, TerminalTyped, CommandTyped, ProgramTyped DEF LauncherInv, Next, Command
    <3> QED BY <2>1, <3>1, ControlKept, StreamKept, DeliveredKept DEF LauncherInv
  <2>2. CASE UNCHANGED vars
    BY <2>2 DEF vars, terminalVars, programVars, channelVars, LauncherInv, TypeOK, Control, Stream,
                Delivered
  <2> QED BY <2>1, <2>2
<1> QED BY <1>1, <1>2, PTL DEF Spec

\* Every variable keeps its type; in particular no key release reaches the program.
THEOREM LauncherTyped == Spec => []TypeOK
BY LauncherInvariant, PTL DEF LauncherInv

\* However an attached chat ends, the terminal is restored.
THEOREM TerminalRestored == Spec => []Restored
<1>1. LauncherInv => Restored
  BY DEF LauncherInv, TypeOK, Control, Attached, Restored
<1> QED BY <1>1, LauncherInvariant, PTL

\* After the terminal is given back neither the keyboard thread nor the program uses it.
THEOREM TerminalFree == Spec => []TerminalLeftAlone
<1>1. LauncherInv => TerminalLeftAlone
  BY DEF LauncherInv, Control, TerminalLeftAlone
<1> QED BY <1>1, LauncherInvariant, PTL

\* The good-bye and the last requests are handed to the broadcast if the task keeps up, whichever
\* broadcasts before them fail.
THEOREM NothingLeftOver == Spec => []LastWordsSent
<1>1. LauncherInv => LastWordsSent
  <2> SUFFICES ASSUME LauncherInv, pc = "over", program = "ended", command = "chat" => timely
               PROVE  sent + lost = said
    BY DEF LastWordsSent
  <2>1. queue = 0 /\ sending = 0
    BY DEF LauncherInv, Delivered
  <2> QED BY <2>1 DEF LauncherInv, Stream, TypeOK
<1> QED BY <1>1, LauncherInvariant, PTL
=============================================================================
