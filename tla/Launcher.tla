------------------------------ MODULE Launcher ------------------------------
(***************************************************************************)
(* The two commands that run a program on an executor of their own: chat   *)
(* (src/src/command/chat.rs, with the terminal of src/src/tty.rs and the   *)
(* program src/example-programs/chat.c) and run-local                      *)
(* (src/src/command/run_local.rs).                                         *)
(*                                                                         *)
(* Five actors share two channels, the terminal and a stop flag: the task  *)
(* of the command, the program, the thread that reads the keyboard, the    *)
(* task that broadcasts what the program sends, and the user.  Of the      *)
(* messages and requests only the number is kept: all are treated alike.   *)
(*                                                                         *)
(* Left out: what is drawn, the listeners (ChatFeed, Executor), and the    *)
(* inside of begin_exec and wait_for_pid_exit (Executor), of which only    *)
(* this remains: a program may end before its pid is registered, and a     *)
(* failed one may be reported as exited.                                   *)
(***************************************************************************)
EXTENDS Integers, Sequences

CONSTANTS
  MaxKeys,     \* bound of the model: keystrokes of the user
  MaxRequests  \* bound of the model: calls of host::replicate in a local run

ASSUME MaxKeysAssumption == MaxKeys \in Nat
ASSUME MaxRequestsAssumption == MaxRequests \in Nat

VARIABLES
  command,   \* the command of this process
  timely,    \* does the task that broadcasts catch up within the 300 ms of the shutdown
  pc,        \* where the task of the command is
  term,      \* what is changed at the terminal: raw mode, the alternate screen
  guard,     \* the TtyGuard
  stop,      \* its stop flag
  reader,    \* where the keyboard thread is
  typed,     \* keystrokes that nobody has read yet
  keys,      \* how many there were
  events,    \* the channel of the keyboard thread
  line,      \* does the input line of the program hold anything
  program,   \* where the program is
  early,     \* had it ended before its pid was registered
  result,    \* what wait_for_pid_exit returned
  said,      \* how many messages or requests the program has sent
  queue,     \* how many of them are in the channel
  sending,   \* how many are being broadcast, none or one
  sent,      \* how many have been broadcast
  lost,      \* how many the broadcast of which failed
  drain      \* the task that broadcasts them

terminalVars == <<term, guard, stop, reader, typed, keys, events>>
programVars == <<line, program, said>>
channelVars == <<queue, sending, sent, lost, drain>>
vars == <<command, timely, pc, early, result, terminalVars, programVars, channelVars>>

Keystroke == {"char", "backspace", "enter", "quit", "release"}
TtyEvent == Keystroke \ {"release"}
Over == program \in {"ended", "failed"}

-----------------------------------------------------------------------------
(* Seeded faults.                                                          *)
RestoreAtOnce ==
  /\ pc = "join"
  /\ term' = {}
  /\ guard' = "dropped"
  /\ pc' = "over"
  /\ UNCHANGED <<command, timely, early, result, stop, reader, typed, keys, events,
                 programVars, channelVars>>
ForgetGuard ==
  /\ pc = IF command = "chat" THEN "begin" ELSE "start"
  /\ drain' = IF command = "chat" THEN "waiting" ELSE "none"
  /\ \/ pc' = "register" /\ program' = "starting"
     \/ pc' = (IF command = "chat" THEN "over" ELSE "flush") /\ UNCHANGED program
  /\ UNCHANGED <<command, timely, early, result, terminalVars, line, said, queue, sending, sent, lost>>
StopOnError ==
  /\ drain = "waiting" /\ sending = 1
  /\ sending' = 0
  /\ \/ sent' = sent + 1 /\ UNCHANGED <<lost, drain>>
     \/ lost' = lost + 1 /\ drain' = "aborted" /\ UNCHANGED sent
  /\ UNCHANGED <<command, timely, pc, early, result, terminalVars, programVars, queue>>
QuitOnEmptyLine ==
  /\ command = "chat" /\ program = "running" /\ events # <<>>
  /\ events' = Tail(events)
  /\ program' = IF Head(events) = "quit" /\ ~line THEN "leaving" ELSE "running"
  /\ line' = (Head(events) = "char")
  /\ UNCHANGED <<command, timely, pc, early, result, term, guard, stop, reader, typed, keys,
                 said, channelVars>>

-----------------------------------------------------------------------------
(* The terminal: tty.rs.                                                   *)

\* Releases and keys that mean nothing to a program are dropped.
map_event(k) == IF k \in TtyEvent THEN <<k>> ELSE <<>>

\* Raw mode and the alternate screen go on, then the keyboard thread is started.  If the second of
\* these fails the first stays on: there is no guard yet.
attach ==
  /\ command = "chat" /\ pc = "start"
  /\ \/ /\ pc' = "over"
        /\ term' \in {{}, {"raw"}, {"raw", "alternate"}}
        /\ UNCHANGED <<guard, reader>>
     \/ /\ pc' = "begin"
        /\ term' = {"raw", "alternate"}
        /\ guard' = "held"
        /\ reader' = "checking"
  /\ UNCHANGED <<command, timely, early, result, stop, typed, keys, events, programVars, channelVars>>

\* The user presses a key while the terminal is chat's.
press ==
  /\ guard = "held" /\ keys < MaxKeys
  /\ \E k \in Keystroke : typed' = Append(typed, k)
  /\ keys' = keys + 1
  /\ UNCHANGED <<command, timely, pc, early, result, term, guard, stop, reader, events,
                 programVars, channelVars>>

Reader(s) ==
  /\ reader' = s
  /\ UNCHANGED <<command, timely, pc, early, result, term, guard, stop, keys, programVars, channelVars>>

\* while !stop ...
reader_checks ==
  /\ reader = "checking"
  /\ Reader(IF stop THEN "ended" ELSE "polling")
  /\ UNCHANGED <<typed, events>>

\* ... poll for 50 ms: no event, or one that is read, mapped and sent.  The stop flag may have been
\* set meanwhile.
reader_polls ==
  /\ reader = "polling"
  /\ Reader("checking")
  /\ \/ typed = <<>> /\ UNCHANGED <<typed, events>>
     \/ typed # <<>> /\ typed' = Tail(typed) /\ events' = events \o map_event(Head(typed))

\* Polling or reading fails; the thread ends and nobody is told.
reader_fails ==
  /\ reader = "polling"
  /\ Reader("ended")
  /\ UNCHANGED <<typed, events>>

\* The guard is dropped: the thread is told to stop, ...
drop_guard ==
  /\ pc = "drop"
  /\ stop' = TRUE
  /\ pc' = "join"
  /\ UNCHANGED <<command, timely, early, result, term, guard, reader, typed, keys, events,
                 programVars, channelVars>>

\* ... joined, and the terminal restored.
restore ==
  /\ pc = "join" /\ reader = "ended"
  /\ term' = {}
  /\ guard' = "dropped"
  /\ pc' = "over"
  /\ UNCHANGED <<command, timely, early, result, stop, reader, typed, keys, events,
                 programVars, channelVars>>

-----------------------------------------------------------------------------
(* The task of the command.                                                *)

\* The configuration, the identity or the program file cannot be read.
prepare_fails ==
  /\ pc = "start"
  /\ pc' = "over"
  /\ UNCHANGED <<command, timely, early, result, terminalVars, programVars, channelVars>>

\* Chat starts its listeners and the task that broadcasts; both commands start the program.  Chat
\* returns the error of begin_exec, which drops the guard; run-local logs it and goes on.
begin_exec ==
  /\ pc = IF command = "chat" THEN "begin" ELSE "start"
  /\ drain' = IF command = "chat" THEN "waiting" ELSE "none"
  /\ \/ pc' = "register" /\ program' = "starting"
     \/ pc' = (IF command = "chat" THEN "drop" ELSE "flush") /\ UNCHANGED program
  /\ UNCHANGED <<command, timely, early, result, terminalVars, line, said, queue, sending, sent, lost>>

\* The pid goes into running_programs, after the program has been spawned.
register ==
  /\ pc = "register"
  /\ early' = Over
  /\ pc' = "wait"
  /\ UNCHANGED <<command, timely, result, terminalVars, programVars, channelVars>>

\* A program that ended well before it was registered is waited for in vain.  The error of a failed
\* one is returned, or missed if the wait comes late.  Chat goes on either way and aborts its
\* listeners; run-local returns the error.
wait_for_pid_exit ==
  /\ pc = "wait" /\ Over
  /\ early => program = "failed"
  /\ result' \in (IF program = "ended" THEN {"ok"} ELSE IF early THEN {"err"} ELSE {"ok", "err"})
  /\ pc' = IF command = "chat" THEN "grace" ELSE IF result' = "ok" THEN "flush" ELSE "over"
  /\ UNCHANGED <<command, timely, early, terminalVars, programVars, channelVars>>

\* The 300 ms of chat are over and drain is aborted.  The task cannot have ended by itself: the
\* sender of its channel stays alive in the store of the program.
grace_ends ==
  /\ pc = "grace"
  /\ timely /\ drain = "waiting" => queue = 0 /\ sending = 0
  /\ drain' = "aborted"
  /\ pc' = "drop"
  /\ UNCHANGED <<command, timely, early, result, terminalVars, programVars, queue, sending, sent, lost>>

\* A broadcast succeeds or fails; an error is only logged.
broadcast ==
  \/ sent' = sent + 1 /\ UNCHANGED lost
  \/ lost' = lost + 1 /\ UNCHANGED sent

\* run-local broadcasts the requests that are in the channel when the program has ended.
flush ==
  /\ pc = "flush"
  /\ \/ queue > 0 /\ queue' = queue - 1 /\ broadcast /\ UNCHANGED pc
     \/ queue = 0 /\ pc' = "over" /\ UNCHANGED <<queue, sent, lost>>
  /\ UNCHANGED <<command, timely, early, result, terminalVars, programVars, sending, drain>>

-----------------------------------------------------------------------------
(* The task that broadcasts.                                               *)

drain_recv ==
  /\ drain = "waiting" /\ queue > 0 /\ sending = 0
  /\ sending' = 1
  /\ queue' = queue - 1
  /\ UNCHANGED <<command, timely, pc, early, result, terminalVars, programVars, sent, lost, drain>>

drain_broadcast ==
  /\ drain = "waiting" /\ sending = 1
  /\ sending' = 0
  /\ broadcast
  /\ UNCHANGED <<command, timely, pc, early, result, terminalVars, programVars, queue, drain>>

-----------------------------------------------------------------------------
(* The program.                                                            *)

Send == said' = said + 1 /\ queue' = queue + 1

\* chat.c announces itself, ...
send_join ==
  /\ command = "chat" /\ program = "starting"
  /\ program' = "running"
  /\ Send
  /\ UNCHANGED <<command, timely, pc, early, result, terminalVars, line, sending, sent, lost, drain>>

\* ... takes the next event, if there is one, ...
ui_loop ==
  /\ command = "chat" /\ program = "running" /\ events # <<>>
  /\ events' = Tail(events)
  /\ LET e == Head(events) IN
       /\ program' = IF e = "quit" THEN "leaving" ELSE "running"
       /\ line' \in CASE e = "char" -> {TRUE} [] e = "enter" -> {FALSE}
                      [] e = "backspace" /\ line -> BOOLEAN [] OTHER -> {line}
       /\ IF e = "enter" /\ line THEN Send ELSE UNCHANGED <<said, queue>>
  /\ UNCHANGED <<command, timely, pc, early, result, term, guard, stop, reader, typed, keys,
                 sending, sent, lost, drain>>

\* ... and says good-bye.
send_leave ==
  /\ program = "leaving"
  /\ program' = "ended"
  /\ Send
  /\ UNCHANGED <<command, timely, pc, early, result, terminalVars, line, sending, sent, lost, drain>>

\* A program of run-local asks for copies of itself on the fabric ...
replicate ==
  /\ command = "run_local" /\ program = "starting" /\ said < MaxRequests
  /\ Send
  /\ UNCHANGED <<command, timely, pc, early, result, terminalVars, line, program, sending, sent, lost, drain>>

\* ... and ends, or is stopped when its fuel is used up.
guest_ends ==
  /\ command = "run_local" /\ program = "starting"
  /\ program' \in {"ended", "failed"}
  /\ UNCHANGED <<command, timely, pc, early, result, terminalVars, line, said, channelVars>>

\* The program of chat traps.
ui_traps ==
  /\ command = "chat" /\ program \in {"starting", "running", "leaving"}
  /\ program' = "failed"
  /\ UNCHANGED <<command, timely, pc, early, result, terminalVars, line, said, channelVars>>

-----------------------------------------------------------------------------
Init ==
  /\ command \in {"chat", "run_local"} /\ timely \in BOOLEAN
  /\ pc = "start" /\ early = FALSE /\ result = "none"
  /\ term = {} /\ guard = "none" /\ stop = FALSE /\ reader = "none"
  /\ typed = <<>> /\ keys = 0 /\ events = <<>>
  /\ line = FALSE /\ program = "none" /\ said = 0
  /\ queue = 0 /\ sending = 0 /\ sent = 0 /\ lost = 0 /\ drain = "none"

Command ==
  \/ attach \/ drop_guard \/ restore \/ prepare_fails \/ begin_exec \/ register
  \/ wait_for_pid_exit \/ grace_ends \/ flush
Keyboard == reader_checks \/ reader_polls
Drain == drain_recv \/ drain_broadcast
Program == send_join \/ ui_loop \/ send_leave

Next == Command \/ Keyboard \/ Drain \/ Program \/ press \/ reader_fails \/ replicate \/ guest_ends \/ ui_traps

\* The runtime runs every task and the thread, and chat.c goes on polling; nothing makes the user
\* type, a component fail or a program of run-local end.
Fairness == WF_vars(Command) /\ WF_vars(Keyboard) /\ WF_vars(Drain) /\ WF_vars(Program)

Spec == Init /\ [][Next]_vars
LiveSpec == Spec /\ Fairness

-----------------------------------------------------------------------------
(* Properties                                                              *)

\* Every variable has its type.
TypeOK ==
  /\ command \in {"chat", "run_local"} /\ timely \in BOOLEAN
  /\ pc \in {"start", "begin", "register", "wait", "grace", "drop", "join", "flush", "over"}
  /\ term \in SUBSET {"raw", "alternate"} /\ guard \in {"none", "held", "dropped"}
  /\ stop \in BOOLEAN /\ reader \in {"none", "checking", "polling", "ended"}
  /\ typed \in Seq(Keystroke) /\ keys \in 0 .. MaxKeys /\ events \in Seq(TtyEvent)
  /\ line \in BOOLEAN /\ early \in BOOLEAN /\ result \in {"none", "ok", "err"}
  /\ program \in {"none", "starting", "running", "leaving", "ended", "failed"}
  /\ said \in Nat /\ queue \in Nat /\ sending \in 0 .. 1 /\ sent \in Nat /\ lost \in Nat
  /\ drain \in {"none", "waiting", "aborted"}

\* However chat ends once it is attached (the user quits, the program traps or never starts), the
\* guard has put the terminal back as it was.
Restored == pc = "over" /\ guard # "none" => guard = "dropped" /\ term = {}

\* When the terminal is given back nobody of chat uses it: the keyboard thread does not take
\* keystrokes that are meant for the shell, and the program does not draw.
TerminalLeftAlone ==
  guard = "dropped" => reader = "ended" /\ program \notin {"starting", "running", "leaving"}

\* The good-bye of a user who quits, like all that was sent before, is handed to the broadcast if the
\* task needs no longer than the 300 ms, and so is every request of a local run that reports its exit.
\* A broadcast that fails costs its own message and none after it.
LastWordsSent ==
  (/\ pc = "over" /\ program = "ended"
   /\ command = "chat" => timely)
    => sent + lost = said

\* A user who presses a quit key gets the shell back, unless the keyboard thread has failed: from the
\* key to the restored terminal it takes the thread, the program, the task that broadcasts and the
\* command.  And whenever the program has ended or is about to, the command ends, unless the program
\* was faster than the registration of its pid.
CommandEnds ==
  /\ (\E i \in 1 .. Len(typed) : typed[i] = "quit")
       ~> (pc = "over" \/ (early /\ program = "ended") \/ (reader = "ended" /\ ~stop))
  /\ program \in {"leaving", "ended", "failed"} ~> (pc = "over" \/ (early /\ program = "ended"))
=============================================================================
