------------------------------ MODULE Executor ------------------------------
(***************************************************************************)
(* How a node runs the programs it is sent (src/src/executor/mod.rs) and   *)
(* how a UDP listener waits for them (ExecuteRequest arm of serve_group,   *)
(* src/src/command/serve.rs).                                              *)
(*                                                                         *)
(* A listener handles one request at a time: it prepares the program,      *)
(* spawns a runner task for it, registers the pid and then waits for the   *)
(* runner.  Listener and runner are two tokio tasks; they share the        *)
(* DashMaps running_programs and pid_last_exit_code, the program's RwLock  *)
(* and spawn_error slot, and the Notify pid_exit_signal.  An action is one *)
(* access to a shared object; what a task does between two accesses is     *)
(* folded into it.                                                         *)
(*                                                                         *)
(* All tasks share the worker threads of the runtime.  A task gives its    *)
(* worker back where it awaits; a DashMap lock is not awaited, it blocks   *)
(* the worker.                                                             *)
(*                                                                         *)
(* Left out: what the guest computes (any program may succeed or fail at   *)
(* any point), the snapshot of host facts handed to it, and the relay task *)
(* a listener spawns before it replies (it shares nothing with the waits). *)
(***************************************************************************)
EXTENDS Integers, FiniteSets

CONSTANTS
  Listener,   \* serve_group tasks, one per multicast group, on one executor
  Caller,     \* identities that requests claim
  Genuine,    \* the ones whose self signature verifies
  MaxPid,     \* bound of the model: pids handed out (u64 in the code)
  Shards,     \* locks of a DashMap; a pid lives in shard pid % Shards
  Workers     \* worker threads of the runtime (the number of CPUs)

ASSUME MaxPidAssumption == MaxPid \in Nat
ASSUME ShardsAssumption == Shards \in Nat \ {0}
ASSUME CallerAssumption == Genuine \subseteq Caller
ASSUME WorkersAssumption == Workers \in Nat \ {0} /\ IsFiniteSet(Listener)

VARIABLES
  next_pid,     \* pids count from 1 here, from 0 in the code
  peers,        \* identities in the peer registry
  running,      \* keys of running_programs
  exit_code,    \* pid_last_exit_code; "none" where the map has no entry
  spawn_error,  \* is there an error in the program's spawn_error slot
  failed,       \* history: did the program fail
  runner,       \* where the runner task of each pid is
  pc,           \* where each listener is
  wpid,         \* the pid a listener started last; 0 before the first
  woken,        \* has the listener's Notified future been notified
  got           \* what the listener's last wait returned

vars == <<next_pid, peers, running, exit_code, spawn_error, failed, runner, pc, wpid, woken, got>>

Pid == 1 .. MaxPid
RunnerState == {"none", "spawned", "instantiating", "calling", "failing", "removing",
                "coding", "notifying", "done"}
ListenerState == {"recv", "prepare", "insert", "arm", "check", "get", "reading", "await",
                  "fetch", "reply", "dead"}
Result == {"none", "zero", "one", "err"}

\* The runner has run the program to its end and taken it out of running_programs.
Exited(p) == runner[p] \in {"coding", "notifying", "done"}

\* The listener is inside wait_for_pid_exit.
Waiting(l) == pc[l] \in {"arm", "check", "get", "reading", "await", "fetch"}

\* Seeded fault: the entry guard of a new pid is still held when the pid is inserted.
GuardedByEntry(p) ==
  \E l \in Listener : pc[l] \in {"insert", "reading"} /\ wpid[l] % Shards = p % Shards

\* Some listener holds a DashMap guard in the shard of p while it awaits the program's RwLock.
Guarded(p) == \E l \in Listener : pc[l] = "reading" /\ wpid[l] % Shards = p % Shards

\* The tasks in the middle of a poll: up to their next await they keep the worker they are on.  All
\* the others, awaiting or ready, need a free worker to take a step.
BusyListeners == {l \in Listener : pc[l] \in {"insert", "arm", "check", "get", "fetch"}}
BusyRunners == {p \in Pid : runner[p] \in {"removing", "coding", "notifying"}}
WorkerFree == Cardinality(BusyListeners) + Cardinality(BusyRunners) < Workers

Goto(l, s) == pc' = [pc EXCEPT ![l] = s]
Run(p, s) == runner' = [runner EXCEPT ![p] = s]

-----------------------------------------------------------------------------
(* Seeded faults.                                                          *)
SkipInsert(l) ==
  /\ pc[l] = "insert"
  /\ Goto(l, "arm")
  /\ UNCHANGED <<next_pid, peers, running, exit_code, spawn_error, failed, runner, wpid, woken, got>>
ArmAfterCheck(l) ==
  /\ pc[l] = "get"
  /\ woken' = [woken EXCEPT ![l] = FALSE]
  /\ IF wpid[l] \in running THEN Goto(l, "reading") ELSE Goto(l, "await")
  /\ UNCHANGED <<next_pid, peers, running, exit_code, spawn_error, failed, runner, wpid, got>>
HoldGuard(l) ==
  /\ pc[l] = "reading"
  /\ WorkerFree
  /\ Exited(wpid[l])
  /\ Goto(l, "await")
  /\ UNCHANGED <<next_pid, peers, running, exit_code, spawn_error, failed, runner, wpid, woken, got>>
NotifyOne(p) ==
  /\ runner[p] = "notifying"
  /\ Run(p, "done")
  /\ \E l \in Listener :
       woken' = [woken EXCEPT ![l] = TRUE]
  /\ UNCHANGED <<next_pid, peers, running, exit_code, spawn_error, failed, pc, wpid, got>>
CodeOfAnyError(p) ==
  /\ runner[p] = "coding"
  /\ Run(p, "notifying")
  /\ exit_code' = [exit_code EXCEPT ![p] = IF \E q \in Pid : failed[q] THEN "one" ELSE "zero"]
  /\ UNCHANGED <<next_pid, peers, running, spawn_error, failed, pc, wpid, woken, got>>

-----------------------------------------------------------------------------
(* The listener: ExecuteRequest, begin_exec and create_pid.                *)

note_peer(c) == peers' = peers \cup {c}

\* An error of recv_from ends the listener: `?'.
recv_fails(l) ==
  /\ pc[l] = "recv"
  /\ WorkerFree
  /\ Goto(l, "dead")
  /\ UNCHANGED <<next_pid, peers, running, exit_code, spawn_error, failed, runner, wpid, woken, got>>

\* A request arrives.  Its claimed identity is noted first; begin_exec then rejects a bad self
\* signature, otherwise create_pid takes the next pid.
begin_exec(l) ==
  /\ pc[l] = "recv"
  /\ WorkerFree
  /\ \E c \in Caller :
       /\ note_peer(c)
       /\ \/ /\ c \notin Genuine
             /\ UNCHANGED <<next_pid, wpid, got, pc>>
          \/ /\ c \in Genuine
             /\ next_pid <= MaxPid
             /\ wpid' = [wpid EXCEPT ![l] = next_pid]
             /\ next_pid' = next_pid + 1
             /\ got' = [got EXCEPT ![l] = "none"]
             /\ Goto(l, "prepare")
  /\ UNCHANGED <<running, exit_code, spawn_error, failed, runner, woken>>

\* Engine, linker and module are built.  If any of that fails create_pid returns the error, which
\* the listener logs; the pid stays unused.
create_pid_fails(l) ==
  /\ pc[l] = "prepare"
  /\ WorkerFree
  /\ Goto(l, "recv")
  /\ UNCHANGED <<next_pid, peers, running, exit_code, spawn_error, failed, runner, wpid, woken, got>>

\* tokio::spawn: the runner may start, and end, before the next step of this task.
spawn(l) ==
  /\ pc[l] = "prepare"
  /\ WorkerFree
  /\ Goto(l, "insert")
  /\ Run(wpid[l], "spawned")
  /\ UNCHANGED <<next_pid, peers, running, exit_code, spawn_error, failed, wpid, woken, got>>

\* running_programs.insert: blocks while a listener holds a guard in the shard.
insert(l) ==
  /\ pc[l] = "insert"
  /\ ~Guarded(wpid[l])
  /\ running' = running \cup {wpid[l]}
  /\ Goto(l, "arm")
  /\ UNCHANGED <<next_pid, peers, exit_code, spawn_error, failed, runner, wpid, woken, got>>

-----------------------------------------------------------------------------
(* The listener: wait_for_pid_exit.                                        *)

\* pid_exit_signal.notified(): from here on notify_waiters reaches this future.
arm(l) ==
  /\ pc[l] = "arm"
  /\ woken' = [woken EXCEPT ![l] = FALSE]
  /\ Goto(l, "check")
  /\ UNCHANGED <<next_pid, peers, running, exit_code, spawn_error, failed, runner, wpid, got>>

\* contains_key
check(l) ==
  /\ pc[l] = "check"
  /\ IF wpid[l] \in running THEN Goto(l, "get") ELSE Goto(l, "fetch")
  /\ UNCHANGED <<next_pid, peers, running, exit_code, spawn_error, failed, runner, wpid, woken, got>>

\* running_programs.get: a guard on the shard, or nothing if the runner removed the pid meanwhile.
get(l) ==
  /\ pc[l] = "get"
  /\ IF wpid[l] \in running THEN Goto(l, "reading") ELSE Goto(l, "await")
  /\ UNCHANGED <<next_pid, peers, running, exit_code, spawn_error, failed, runner, wpid, woken, got>>

\* program_data.read().await.spawn_error...take(): waits while the runner holds the write lock
\* (instantiation).  An error found here is returned; serve_group's `?' ends the listener with it.
\* (Here the runner may pass a listener that is about to read; in the code it does so only if the
\* task yields before it queues for the lock.)
read_spawn_error(l) ==
  /\ pc[l] = "reading"
  /\ WorkerFree
  /\ runner[wpid[l]] # "instantiating"
  /\ IF spawn_error[wpid[l]]
     THEN /\ spawn_error' = [spawn_error EXCEPT ![wpid[l]] = FALSE]
          /\ got' = [got EXCEPT ![l] = "err"]
          /\ Goto(l, "dead")
     ELSE /\ Goto(l, "await")
          /\ UNCHANGED <<spawn_error, got>>
  /\ UNCHANGED <<next_pid, peers, running, exit_code, failed, runner, wpid, woken>>

\* pid_exit_notified.await
await_exit(l) ==
  /\ pc[l] = "await"
  /\ WorkerFree
  /\ woken[l]
  /\ Goto(l, "arm")
  /\ UNCHANGED <<next_pid, peers, running, exit_code, spawn_error, failed, runner, wpid, woken, got>>

\* pid_last_exit_code.get(&pid)...unwrap_or(0)
fetch_code(l) ==
  /\ pc[l] = "fetch"
  /\ got' = [got EXCEPT ![l] = IF exit_code[wpid[l]] = "one" THEN "one" ELSE "zero"]
  /\ Goto(l, "reply")
  /\ UNCHANGED <<next_pid, peers, running, exit_code, spawn_error, failed, runner, wpid, woken>>

\* The exit message is sent and the listener goes back to recv_from, unless sending fails: `?'.
reply(l) ==
  /\ pc[l] = "reply"
  /\ WorkerFree
  /\ Goto(l, "recv") \/ Goto(l, "dead")
  /\ UNCHANGED <<next_pid, peers, running, exit_code, spawn_error, failed, runner, wpid, woken, got>>

-----------------------------------------------------------------------------
(* The runner task.                                                        *)

\* The program's write lock is taken for the instantiation ...
begin_instantiate(p) ==
  /\ runner[p] = "spawned"
  /\ WorkerFree
  /\ Run(p, "instantiating")
  /\ UNCHANGED <<next_pid, peers, running, exit_code, spawn_error, failed, pc, wpid, woken, got>>

\* ... and released when it is done; it may have failed.  The guest's start function runs here.
end_instantiate(p) ==
  /\ runner[p] = "instantiating"
  /\ WorkerFree
  /\ \/ Run(p, "calling") /\ UNCHANGED failed
     \/ Run(p, "failing") /\ failed' = [failed EXCEPT ![p] = TRUE]
  /\ UNCHANGED <<next_pid, peers, running, exit_code, spawn_error, pc, wpid, woken, got>>

\* _start is looked up and called.  A missing _start, a trap and running out of fuel are failures.
call_start(p) ==
  /\ runner[p] = "calling"
  /\ WorkerFree
  /\ \/ Run(p, "removing") /\ UNCHANGED failed
     \/ Run(p, "failing") /\ failed' = [failed EXCEPT ![p] = TRUE]
  /\ UNCHANGED <<next_pid, peers, running, exit_code, spawn_error, pc, wpid, woken, got>>

set_spawn_error(p) ==
  /\ runner[p] = "failing"
  /\ WorkerFree
  /\ Run(p, "removing")
  /\ spawn_error' = [spawn_error EXCEPT ![p] = TRUE]
  /\ UNCHANGED <<next_pid, peers, running, exit_code, failed, pc, wpid, woken, got>>

\* running_programs.remove: blocks while a listener holds a guard in the shard.
remove(p) ==
  /\ runner[p] = "removing"
  /\ ~Guarded(p)
  /\ Run(p, "coding")
  /\ running' = running \ {p}
  /\ UNCHANGED <<next_pid, peers, exit_code, spawn_error, failed, pc, wpid, woken, got>>

\* pid_last_exit_code.insert
set_exit_code(p) ==
  /\ runner[p] = "coding"
  /\ Run(p, "notifying")
  /\ exit_code' = [exit_code EXCEPT ![p] = IF failed[p] THEN "one" ELSE "zero"]
  /\ UNCHANGED <<next_pid, peers, running, spawn_error, failed, pc, wpid, woken, got>>

\* notify_waiters: every Notified that exists is notified, polled or not.
notify(p) ==
  /\ runner[p] = "notifying"
  /\ Run(p, "done")
  /\ woken' = [l \in Listener |-> TRUE]
  /\ UNCHANGED <<next_pid, peers, running, exit_code, spawn_error, failed, pc, wpid, got>>

-----------------------------------------------------------------------------
Init ==
  /\ next_pid = 1
  /\ peers = {}
  /\ running = {}
  /\ exit_code = [p \in Pid |-> "none"]
  /\ spawn_error = [p \in Pid |-> FALSE]
  /\ failed = [p \in Pid |-> FALSE]
  /\ runner = [p \in Pid |-> "none"]
  /\ pc = [l \in Listener |-> "recv"]
  /\ wpid = [l \in Listener |-> 0]
  /\ woken = [l \in Listener |-> FALSE]
  /\ got = [l \in Listener |-> "none"]

Wait(l) == arm(l) \/ check(l) \/ get(l) \/ read_spawn_error(l) \/ await_exit(l) \/ fetch_code(l)

Handle(l) == create_pid_fails(l) \/ spawn(l) \/ insert(l) \/ Wait(l) \/ reply(l)

\* The runner's own steps, and those in which the guest has to get somewhere.
Host(p) == begin_instantiate(p) \/ set_spawn_error(p) \/ remove(p) \/ set_exit_code(p) \/ notify(p)
Guest(p) == end_instantiate(p) \/ call_start(p)

Next ==
  \/ \E l \in Listener : recv_fails(l) \/ begin_exec(l) \/ Handle(l)
  \/ \E p \in Pid : Host(p) \/ Guest(p)

\* The runner is about to take, or blocked in taking, the lock that its own listener holds a guard of.
Caught(l) == pc[l] = "reading" /\ runner[wpid[l]] = "removing"

\* As long as a worker is free the tokio runtime gets round to every ready task, and a task that is
\* blocked on a DashMap lock goes on when the lock is free.  Not so a listener that is caught: the
\* runner woke it by releasing the program's lock, tokio keeps the task woken last for the worker it
\* was woken on, and there the runner may be blocked.  Nobody has to send requests, and no guest has
\* to end: fuel bounds what it computes, not how long it sleeps in poll_oneoff.
Fairness ==
  /\ \A l \in Listener : WF_vars(~Caught(l) /\ Handle(l))
  /\ \A p \in Pid : WF_vars(Host(p))

Spec == Init /\ [][Next]_vars
LiveSpec == Spec /\ Fairness

-----------------------------------------------------------------------------
(* Properties                                                              *)

\* Every variable has its type.
TypeOK ==
  /\ next_pid \in 1 .. MaxPid + 1
  /\ peers \subseteq Caller
  /\ running \subseteq Pid
  /\ exit_code \in [Pid -> {"none", "zero", "one"}]
  /\ spawn_error \in [Pid -> BOOLEAN]
  /\ failed \in [Pid -> BOOLEAN]
  /\ runner \in [Pid -> RunnerState]
  /\ pc \in [Listener -> ListenerState]
  /\ wpid \in [Listener -> 0 .. MaxPid]
  /\ woken \in [Listener -> BOOLEAN]
  /\ got \in [Listener -> Result]

\* Two listeners never wait for, or answer for, the same program.
PidsNotShared ==
  \A k, l \in Listener : (k # l /\ wpid[k] # 0) => wpid[k] # wpid[l]

\* wait_for_pid_exit returns Ok only after the runner has run the program to its end: the caller is
\* never told of an exit that has not happened.
ReplyAfterExit == \A l \in Listener : pc[l] \in {"fetch", "reply"} => Exited(wpid[l])

\* A failure is reported, as an exit code or as an error, only of a program that failed itself,
\* however many programs of other listeners fail around it.
FailureIsOwn ==
  \A l \in Listener : got[l] \in {"one", "err"} => failed[wpid[l]]

\* The heart of the wait loop: a listener that saw its pid registered and has not been notified since
\* still has a notification coming if the pid is gone.  (The Notified future is made before the map
\* is read; the other order loses the wake-up.)
NoLostWakeup ==
  \A l \in Listener :
    (pc[l] \in {"get", "reading", "await"} /\ ~woken[l] /\ wpid[l] \notin running)
      => runner[wpid[l]] \in {"coding", "notifying"}

\* The tasks blocked on a shard, each with the worker it is on.
ParkedListeners == {l \in Listener : pc[l] = "insert" /\ Guarded(wpid[l])}
ParkedRunners == {p \in Pid : runner[p] = "removing" /\ Guarded(p)}

\* With two workers for each listener the runtime never comes to a standstill, in which every worker
\* is blocked on a guard and neither the listener that holds it nor the runner this listener waits
\* for is polled again.  (wait_for_pid_exit holds the guard of running_programs.get over an await.)
TwoWorkersEach == Workers >= 2 * Cardinality(Listener)
EnoughWorkers ==
  TwoWorkersEach =>
    Cardinality(ParkedListeners) + Cardinality(ParkedRunners) < Workers

\* What the waits depend on: enough workers, no guest that stays in its instantiation for ever (its
\* start function may sleep), no listener that stays caught.
NothingStuck ==
  /\ TwoWorkersEach
  /\ \A p \in Pid : []<>(runner[p] # "instantiating")
  /\ \A l \in Listener : []<>~Caught(l)

\* Nothing else keeps a listener waiting: a wait during which the guest ends returns.
WaitReturns ==
  NothingStuck => \A l \in Listener :
    (Waiting(l) /\ runner[wpid[l]] \in {"failing", "removing"}) ~> ~Waiting(l)

\* Nothing else keeps a runner from reporting the exit: when the guest has ended the runner gets past
\* the guards that listeners hold across an await.
RunnersFinish ==
  NothingStuck => \A p \in Pid : runner[p] \in {"failing", "removing"} ~> runner[p] = "done"

-----------------------------------------------------------------------------
(* The inductive invariant behind the safety properties.                   *)

\* A pid is handed out once: runners exist only for pids already handed out, and a listener past
\* begin_exec has one, not yet spawned while it prepares it and spawned from then on.
PidDiscipline ==
  /\ \A p \in Pid : p >= next_pid => runner[p] = "none"
  /\ \A l \in Listener : wpid[l] < next_pid
  /\ \A l \in Listener : pc[l] \notin {"recv", "dead"} => wpid[l] # 0
  /\ \A l \in Listener : pc[l] = "prepare" => runner[wpid[l]] = "none"

\* From the insert on, the pid is in the map or the runner is done with it.
Registered ==
  \A l \in Listener :
    pc[l] \in {"arm", "check", "get", "reading", "await"} => wpid[l] \in running \/ Exited(wpid[l])

\* Every trace a failure leaves is of the program that failed.
FailureTraced ==
  /\ \A p \in Pid : runner[p] = "failing" \/ spawn_error[p] \/ exit_code[p] = "one" => failed[p]
  /\ \A l \in Listener : got[l] # "none" => wpid[l] # 0

\* A running program is the one some listener started last: a listener takes the next request only
\* when the program of the last one was not spawned or has exited.
Owned ==
  /\ \A p \in Pid : runner[p] \in {"none", "coding", "notifying", "done"} \/ \E l \in Listener : wpid[l] = p
  /\ \A l \in Listener : pc[l] = "recv" /\ wpid[l] # 0 => runner[wpid[l]] = "none" \/ Exited(wpid[l])

ExecInv ==
  /\ TypeOK /\ PidDiscipline /\ PidsNotShared /\ Registered
  /\ ReplyAfterExit /\ NoLostWakeup /\ FailureTraced /\ FailureIsOwn

-----------------------------------------------------------------------------
(* What the comments of the code promise beyond that.                      *)

\* "This one is fired every time a PID exits": when a program has exited, its waiter wakes up.
ExitEndsWait ==
  \A l \in Listener : (Waiting(l) /\ Exited(wpid[l])) ~> ~Waiting(l)

\* "some caller gets the spawn error and is responsible for handling it": a guest that fails does
\* not take the listener down.
ListenerSurvivesGuest == \A l \in Listener : got[l] = "err" => pc[l] # "dead"
=============================================================================
