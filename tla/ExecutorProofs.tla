--------------------------- MODULE ExecutorProofs ---------------------------
(***************************************************************************)
(* The safety properties of Executor hold for any number of listeners,     *)
(* callers and pids.  ExecInv is inductive: there is one lemma for each    *)
(* action of Next, and in it one step for each conjunct of ExecInv that    *)
(* the action can disturb; the conjuncts over variables the action leaves  *)
(* alone share the last step.                                              *)
(***************************************************************************)
EXTENDS Executor, FiniteSetTheorems, TLAPS

\* A listener past begin_exec has a real pid.
LEMMA OwnPid ==
  ASSUME ExecInv, NEW l \in Listener, pc[l] \notin {"recv", "dead"}
  PROVE  wpid[l] \in Pid
  BY MaxPidAssumption DEF ExecInv, TypeOK, PidDiscipline, Pid

-----------------------------------------------------------------------------
\* A rejected request only adds a peer.  An accepted one takes next_pid, which no listener has and no
\* runner runs.
LEMMA BeginExecKeepsInv ==
  ASSUME ExecInv, NEW l \in Listener, begin_exec(l)
  PROVE  ExecInv'
<1> USE DEF ExecInv
<1>1. /\ pc[l] = "recv"
      /\ UNCHANGED <<running, exit_code, spawn_error, failed, runner, woken>>
      /\ peers' \subseteq Caller
  BY DEF begin_exec, note_peer, TypeOK
<1>2. CASE UNCHANGED <<next_pid, wpid, got, pc>>
  <2>1. TypeOK'
    BY <1>1, <1>2 DEF TypeOK
  <2>2. PidDiscipline' /\ PidsNotShared' /\ Registered' /\ ReplyAfterExit' /\ NoLostWakeup'
    BY <1>1, <1>2 DEF PidDiscipline, PidsNotShared, Registered, ReplyAfterExit, NoLostWakeup, Exited
  <2>3. FailureTraced' /\ FailureIsOwn'
    BY <1>1, <1>2 DEF FailureTraced, FailureIsOwn
  <2> QED
    BY <2>1, <2>2, <2>3
<1>3. CASE /\ next_pid <= MaxPid
           /\ wpid' = [wpid EXCEPT ![l] = next_pid]
           /\ next_pid' = next_pid + 1
           /\ got' = [got EXCEPT ![l] = "none"]
           /\ pc' = [pc EXCEPT ![l] = "prepare"]
  <2>1. next_pid \in Pid /\ next_pid + 1 \in 1 .. MaxPid + 1
    BY <1>3, MaxPidAssumption DEF TypeOK, Pid
  <2>2. TypeOK'
    <3>1. wpid' \in [Listener -> 0 .. MaxPid]
      BY <1>3, <2>1, MaxPidAssumption DEF TypeOK, Pid
    <3>2. pc' \in [Listener -> ListenerState] /\ got' \in [Listener -> Result]
      BY <1>3 DEF TypeOK, ListenerState, Result
    <3> QED
      BY <1>1, <1>3, <2>1, <3>1, <3>2 DEF TypeOK
  <2>3. PidDiscipline'
    <3>1. \A p \in Pid : p >= next_pid' => runner'[p] = "none"
      BY <1>1, <1>3, <2>1, MaxPidAssumption DEF PidDiscipline, TypeOK, Pid
    <3>2. \A k \in Listener : wpid'[k] < next_pid'
      BY <1>3, <2>1, MaxPidAssumption DEF PidDiscipline, TypeOK, Pid
    <3>3. \A k \in Listener : pc'[k] \notin {"recv", "dead"} => wpid'[k] # 0
      BY <1>3, <2>1 DEF PidDiscipline, TypeOK, Pid
    <3>4. runner[next_pid] = "none"
      BY <2>1 DEF PidDiscipline, Pid
    <3>5. \A k \in Listener : pc'[k] = "prepare" => runner'[wpid'[k]] = "none"
      BY <1>1, <1>3, <3>4 DEF PidDiscipline, TypeOK
    <3> QED
      BY <3>1, <3>2, <3>3, <3>5 DEF PidDiscipline
  <2>4. PidsNotShared'
    BY <1>3, <2>1 DEF TypeOK, PidsNotShared, PidDiscipline, Pid
  <2>5. Registered' /\ ReplyAfterExit' /\ NoLostWakeup'
    BY <1>1, <1>3 DEF TypeOK, Registered, ReplyAfterExit, NoLostWakeup, Exited
  <2>6. FailureTraced' /\ FailureIsOwn'
    BY <1>1, <1>3, <2>1 DEF TypeOK, FailureTraced, FailureIsOwn, Pid
  <2> QED
    BY <2>2, <2>3, <2>4, <2>5, <2>6
<1> QED
  BY <1>2, <1>3 DEF begin_exec, note_peer, Goto

\* A listener that ends leaves everything as it is.
LEMMA RecvFailsKeepsInv ==
  ASSUME ExecInv, NEW l \in Listener, recv_fails(l)
  PROVE  ExecInv'
<1> USE DEF ExecInv, recv_fails, Goto
<1>1. TypeOK'
  BY MaxPidAssumption DEF TypeOK, Pid, ListenerState
<1>2. PidDiscipline'
  BY MaxPidAssumption DEF TypeOK, Pid, PidDiscipline
<1>3. Registered' /\ ReplyAfterExit' /\ NoLostWakeup'
  BY DEF TypeOK, Registered, ReplyAfterExit, NoLostWakeup, Exited
<1>4. PidsNotShared' /\ FailureTraced' /\ FailureIsOwn'
  BY DEF PidsNotShared, FailureTraced, FailureIsOwn
<1> QED
  BY <1>1, <1>2, <1>3, <1>4

\* The pid of a program that cannot be prepared stays unused.
LEMMA CreatePidFailsKeepsInv ==
  ASSUME ExecInv, NEW l \in Listener, create_pid_fails(l)
  PROVE  ExecInv'
<1> USE DEF ExecInv, create_pid_fails, Goto
<1>1. TypeOK'
  BY MaxPidAssumption DEF TypeOK, Pid, ListenerState
<1>2. PidDiscipline'
  BY MaxPidAssumption DEF TypeOK, Pid, PidDiscipline
<1>3. Registered'
  BY DEF TypeOK, Pid, PidDiscipline, Registered, Exited
<1>4. ReplyAfterExit'
  BY DEF TypeOK, Pid, PidDiscipline, Registered, ReplyAfterExit, Exited
<1>5. NoLostWakeup'
  BY DEF TypeOK, Pid, PidDiscipline, Registered, NoLostWakeup, Exited
<1>6. PidsNotShared' /\ FailureTraced' /\ FailureIsOwn'
  BY DEF PidsNotShared, FailureTraced, FailureIsOwn
<1> QED
  BY <1>1, <1>2, <1>3, <1>4, <1>5, <1>6

\* The pid that begins to run is the listener's own, which no other listener waits for.
LEMMA SpawnKeepsInv ==
  ASSUME ExecInv, NEW l \in Listener, spawn(l)
  PROVE  ExecInv'
<1> USE DEF ExecInv, spawn, Goto, Run
<1>1. TypeOK'
  BY MaxPidAssumption DEF TypeOK, Pid, ListenerState, RunnerState
<1>2. PidDiscipline'
  <2>1. wpid[l] \in Pid /\ wpid[l] < next_pid
    BY OwnPid DEF PidDiscipline
  <2>2. \A p \in Pid : p >= next_pid' => runner'[p] = "none"
    BY <2>1, MaxPidAssumption DEF PidDiscipline, TypeOK, Pid
  <2>3. \A k \in Listener : wpid'[k] < next_pid' /\ (pc'[k] \notin {"recv", "dead"} => wpid'[k] # 0)
    BY DEF PidDiscipline, TypeOK
  <2>4. \A k \in Listener : pc'[k] = "prepare" => runner'[wpid'[k]] = "none"
    BY <2>1 DEF PidDiscipline, PidsNotShared, TypeOK, Pid
  <2> QED
    BY <2>2, <2>3, <2>4 DEF PidDiscipline
<1>3. Registered'
  BY DEF TypeOK, Pid, PidDiscipline, Registered, Exited
<1>4. ReplyAfterExit'
  BY DEF TypeOK, Pid, PidDiscipline, Registered, ReplyAfterExit, Exited
<1>5. NoLostWakeup'
  BY DEF TypeOK, Pid, PidDiscipline, Registered, NoLostWakeup, Exited
<1>6. FailureTraced'
  BY DEF TypeOK, Pid, PidDiscipline, FailureTraced
<1>7. PidsNotShared' /\ FailureIsOwn'
  BY DEF PidsNotShared, FailureIsOwn
<1> QED
  BY <1>1, <1>2, <1>3, <1>4, <1>5, <1>6, <1>7

\* Registering the pid is what makes it safe to wait for: Registered starts to hold here.
LEMMA InsertKeepsInv ==
  ASSUME ExecInv, NEW l \in Listener, insert(l)
  PROVE  ExecInv'
<1> USE DEF ExecInv, insert, Goto
<1>1. TypeOK'
  <2>1. running' \subseteq Pid
    BY OwnPid DEF TypeOK
  <2>2. pc' \in [Listener -> ListenerState]
    BY DEF TypeOK, ListenerState
  <2> QED
    BY <2>1, <2>2 DEF TypeOK
<1>2. PidDiscipline'
  BY MaxPidAssumption DEF TypeOK, Pid, PidDiscipline
<1>3. Registered'
  BY DEF TypeOK, Pid, PidDiscipline, Registered, Exited
<1>4. ReplyAfterExit'
  BY DEF TypeOK, Pid, PidDiscipline, Registered, ReplyAfterExit, Exited
<1>5. NoLostWakeup'
  BY DEF TypeOK, Pid, PidDiscipline, Registered, NoLostWakeup, Exited
<1>6. PidsNotShared' /\ FailureTraced' /\ FailureIsOwn'
  BY DEF PidsNotShared, FailureTraced, FailureIsOwn
<1> QED
  BY <1>1, <1>2, <1>3, <1>4, <1>5, <1>6

\* A new Notified future: nothing is known of the map yet.
LEMMA ArmKeepsInv ==
  ASSUME ExecInv, NEW l \in Listener, arm(l)
  PROVE  ExecInv'
<1> USE DEF ExecInv, arm, Goto
<1>1. TypeOK'
  BY MaxPidAssumption DEF TypeOK, Pid, ListenerState
<1>2. PidDiscipline'
  BY MaxPidAssumption DEF TypeOK, Pid, PidDiscipline
<1>3. Registered'
  BY DEF TypeOK, Pid, PidDiscipline, Registered, Exited
<1>4. ReplyAfterExit'
  BY DEF TypeOK, Pid, PidDiscipline, Registered, ReplyAfterExit, Exited
<1>5. NoLostWakeup'
  BY DEF TypeOK, Pid, PidDiscipline, Registered, NoLostWakeup, Exited
<1>6. PidsNotShared' /\ FailureTraced' /\ FailureIsOwn'
  BY DEF PidsNotShared, FailureTraced, FailureIsOwn
<1> QED
  BY <1>1, <1>2, <1>3, <1>4, <1>5, <1>6

\* A pid that is not in the map has exited, by Registered.
LEMMA CheckKeepsInv ==
  ASSUME ExecInv, NEW l \in Listener, check(l)
  PROVE  ExecInv'
<1> USE DEF ExecInv, check, Goto
<1>1. TypeOK'
  BY MaxPidAssumption DEF TypeOK, Pid, ListenerState
<1>2. PidDiscipline'
  BY MaxPidAssumption DEF TypeOK, Pid, PidDiscipline
<1>3. Registered'
  BY DEF TypeOK, Pid, PidDiscipline, Registered, Exited
<1>4. ReplyAfterExit'
  BY DEF TypeOK, Pid, PidDiscipline, Registered, ReplyAfterExit, Exited
<1>5. NoLostWakeup'
  BY DEF TypeOK, Pid, PidDiscipline, Registered, NoLostWakeup, Exited
<1>6. PidsNotShared' /\ FailureTraced' /\ FailureIsOwn'
  BY DEF PidsNotShared, FailureTraced, FailureIsOwn
<1> QED
  BY <1>1, <1>2, <1>3, <1>4, <1>5, <1>6

\* A pid that went between check and get still has its notification coming, by Registered.
LEMMA GetKeepsInv ==
  ASSUME ExecInv, NEW l \in Listener, get(l)
  PROVE  ExecInv'
<1> USE DEF ExecInv, get, Goto
<1>1. TypeOK'
  BY MaxPidAssumption DEF TypeOK, Pid, ListenerState
<1>2. PidDiscipline'
  BY MaxPidAssumption DEF TypeOK, Pid, PidDiscipline
<1>3. Registered'
  BY DEF TypeOK, Pid, PidDiscipline, Registered, Exited
<1>4. ReplyAfterExit'
  BY DEF TypeOK, Pid, PidDiscipline, Registered, ReplyAfterExit, Exited
<1>5. NoLostWakeup'
  BY DEF TypeOK, Pid, PidDiscipline, Registered, NoLostWakeup, Exited
<1>6. PidsNotShared' /\ FailureTraced' /\ FailureIsOwn'
  BY DEF PidsNotShared, FailureTraced, FailureIsOwn
<1> QED
  BY <1>1, <1>2, <1>3, <1>4, <1>5, <1>6

\* An error is found only in the slot of the listener's own program.
LEMMA ReadSpawnErrorKeepsInv ==
  ASSUME ExecInv, NEW l \in Listener, read_spawn_error(l)
  PROVE  ExecInv'
<1> USE DEF ExecInv, read_spawn_error, Goto
<1>1. TypeOK'
  <2>1. CASE spawn_error[wpid[l]]
    <3>1. got' \in [Listener -> Result] /\ pc' \in [Listener -> ListenerState]
      BY <2>1 DEF TypeOK, Result, ListenerState
    <3>2. spawn_error' \in [Pid -> BOOLEAN]
      BY <2>1, Zenon DEF TypeOK
    <3> QED
      BY <3>1, <3>2 DEF TypeOK
  <2>2. CASE ~spawn_error[wpid[l]]
    BY <2>2 DEF TypeOK, ListenerState
  <2> QED
    BY <2>1, <2>2
<1>2. PidDiscipline'
  BY MaxPidAssumption DEF TypeOK, Pid, PidDiscipline
<1>3. Registered'
  BY DEF TypeOK, Pid, PidDiscipline, Registered, Exited
<1>4. ReplyAfterExit'
  BY DEF TypeOK, Pid, PidDiscipline, Registered, ReplyAfterExit, Exited
<1>5. NoLostWakeup'
  BY DEF TypeOK, Pid, PidDiscipline, Registered, NoLostWakeup, Exited
<1>6. FailureTraced'
  BY DEF TypeOK, Pid, PidDiscipline, FailureTraced
<1>7. FailureIsOwn'
  <2>1. wpid[l] \in Pid
    BY OwnPid
  <2>2. CASE spawn_error[wpid[l]]
    BY <2>1, <2>2 DEF TypeOK, FailureTraced, FailureIsOwn
  <2>3. CASE ~spawn_error[wpid[l]]
    BY <2>3 DEF FailureIsOwn
  <2> QED
    BY <2>2, <2>3
<1>8. PidsNotShared'
  BY DEF PidsNotShared
<1> QED
  BY <1>1, <1>2, <1>3, <1>4, <1>5, <1>6, <1>7, <1>8

\* The listener starts another round.
LEMMA AwaitExitKeepsInv ==
  ASSUME ExecInv, NEW l \in Listener, await_exit(l)
  PROVE  ExecInv'
<1> USE DEF ExecInv, await_exit, Goto
<1>1. TypeOK'
  BY MaxPidAssumption DEF TypeOK, Pid, ListenerState
<1>2. PidDiscipline'
  BY MaxPidAssumption DEF TypeOK, Pid, PidDiscipline
<1>3. Registered'
  BY DEF TypeOK, Pid, PidDiscipline, Registered, Exited
<1>4. ReplyAfterExit'
  BY DEF TypeOK, Pid, PidDiscipline, Registered, ReplyAfterExit, Exited
<1>5. NoLostWakeup'
  BY DEF TypeOK, Pid, PidDiscipline, Registered, NoLostWakeup, Exited
<1>6. PidsNotShared' /\ FailureTraced' /\ FailureIsOwn'
  BY DEF PidsNotShared, FailureTraced, FailureIsOwn
<1> QED
  BY <1>1, <1>2, <1>3, <1>4, <1>5, <1>6

\* The code is that of the listener's own program.
LEMMA FetchCodeKeepsInv ==
  ASSUME ExecInv, NEW l \in Listener, fetch_code(l)
  PROVE  ExecInv'
<1> USE DEF ExecInv, fetch_code, Goto
<1>1. TypeOK'
  BY MaxPidAssumption DEF TypeOK, Pid, ListenerState, Result
<1>2. PidDiscipline'
  BY MaxPidAssumption DEF TypeOK, Pid, PidDiscipline
<1>3. Registered'
  BY DEF TypeOK, Pid, PidDiscipline, Registered, Exited
<1>4. ReplyAfterExit'
  BY DEF TypeOK, Pid, PidDiscipline, Registered, ReplyAfterExit, Exited
<1>5. NoLostWakeup'
  BY DEF TypeOK, Pid, PidDiscipline, Registered, NoLostWakeup, Exited
<1>6. FailureTraced'
  BY DEF TypeOK, Pid, PidDiscipline, FailureTraced
<1>7. FailureIsOwn'
  <2> SUFFICES ASSUME NEW m \in Listener, got'[m] \in {"one", "err"}
               PROVE  failed[wpid[m]]
    BY DEF FailureIsOwn
  <2>1. CASE m = l
    <3>1. wpid[l] \in Pid /\ exit_code[wpid[l]] = "one"
      BY <2>1, OwnPid DEF TypeOK
    <3> QED
      BY <2>1, <3>1 DEF FailureTraced
  <2>2. CASE m # l
    BY <2>2 DEF TypeOK, FailureIsOwn
  <2> QED
    BY <2>1, <2>2
<1>8. PidsNotShared'
  BY DEF PidsNotShared
<1> QED
  BY <1>1, <1>2, <1>3, <1>4, <1>5, <1>6, <1>7, <1>8

\* Answering frees the listener.
LEMMA ReplyKeepsInv ==
  ASSUME ExecInv, NEW l \in Listener, reply(l)
  PROVE  ExecInv'
<1> USE DEF ExecInv, reply, Goto
<1>1. TypeOK'
  BY MaxPidAssumption DEF TypeOK, Pid, ListenerState
<1>2. PidDiscipline'
  BY MaxPidAssumption DEF TypeOK, Pid, PidDiscipline
<1>3. Registered'
  BY DEF TypeOK, Pid, PidDiscipline, Registered, Exited
<1>4. ReplyAfterExit'
  BY DEF TypeOK, Pid, PidDiscipline, Registered, ReplyAfterExit, Exited
<1>5. NoLostWakeup'
  BY DEF TypeOK, Pid, PidDiscipline, Registered, NoLostWakeup, Exited
<1>6. PidsNotShared' /\ FailureTraced' /\ FailureIsOwn'
  BY DEF PidsNotShared, FailureTraced, FailureIsOwn
<1> QED
  BY <1>1, <1>2, <1>3, <1>4, <1>5, <1>6

\* Instantiation begins.
LEMMA BeginInstantiateKeepsInv ==
  ASSUME ExecInv, NEW p \in Pid, begin_instantiate(p)
  PROVE  ExecInv'
<1> USE DEF ExecInv, begin_instantiate, Run
<1>1. TypeOK'
  BY MaxPidAssumption DEF TypeOK, Pid, RunnerState
<1>2. PidDiscipline'
  BY MaxPidAssumption DEF TypeOK, Pid, PidDiscipline
<1>3. Registered'
  BY DEF TypeOK, Pid, PidDiscipline, Registered, Exited
<1>4. ReplyAfterExit'
  BY DEF TypeOK, Pid, PidDiscipline, Registered, ReplyAfterExit, Exited
<1>5. NoLostWakeup'
  BY DEF TypeOK, Pid, PidDiscipline, Registered, NoLostWakeup, Exited
<1>6. FailureTraced'
  BY DEF TypeOK, Pid, PidDiscipline, FailureTraced
<1>7. PidsNotShared' /\ FailureIsOwn'
  BY DEF PidsNotShared, FailureIsOwn
<1> QED
  BY <1>1, <1>2, <1>3, <1>4, <1>5, <1>6, <1>7

\* Instantiation ends, well or badly.
LEMMA EndInstantiateKeepsInv ==
  ASSUME ExecInv, NEW p \in Pid, end_instantiate(p)
  PROVE  ExecInv'
<1> USE DEF ExecInv
<1>1. /\ runner[p] = "instantiating"
      /\ UNCHANGED <<next_pid, peers, running, exit_code, spawn_error, pc, wpid, woken, got>>
  BY DEF end_instantiate
<1>2. PICK s \in {"calling", "failing"} : runner' = [runner EXCEPT ![p] = s]
  BY DEF end_instantiate, Run
<1>3. failed' = failed \/ failed' = [failed EXCEPT ![p] = TRUE]
  BY DEF end_instantiate
<1>4. TypeOK'
  BY <1>1, <1>2, <1>3 DEF TypeOK, RunnerState
<1>5. PidDiscipline'
  BY <1>1, <1>2 DEF TypeOK, Pid, PidDiscipline
<1>6. Registered' /\ ReplyAfterExit' /\ NoLostWakeup'
  <2>1. \A q \in Pid : Exited(q) => Exited(q)'
    BY <1>1, <1>2 DEF TypeOK, Exited
  <2>2. \A l \in Listener : pc[l] \notin {"recv", "dead"} => wpid[l] \in Pid
    BY OwnPid
  <2> QED
    BY <1>1, <1>2, <2>1, <2>2 DEF TypeOK, Registered, ReplyAfterExit, NoLostWakeup, Exited
<1>7. FailureTraced'
  BY <1>1 DEF end_instantiate, Run, TypeOK, Pid, FailureTraced
<1>8. FailureIsOwn'
  <2>1. \A q \in Pid : failed[q] => failed'[q]
    BY <1>3 DEF TypeOK
  <2>2. \A l \in Listener : got[l] # "none" => wpid[l] \in Pid
    BY MaxPidAssumption DEF TypeOK, FailureTraced, Pid
  <2> QED
    BY <1>1, <2>1, <2>2 DEF FailureIsOwn
<1>9. PidsNotShared'
  BY <1>1 DEF PidsNotShared
<1> QED
  BY <1>4, <1>5, <1>6, <1>7, <1>8, <1>9

\* The guest ends, well or badly.
LEMMA CallStartKeepsInv ==
  ASSUME ExecInv, NEW p \in Pid, call_start(p)
  PROVE  ExecInv'
<1> USE DEF ExecInv
<1>1. /\ runner[p] = "calling"
      /\ UNCHANGED <<next_pid, peers, running, exit_code, spawn_error, pc, wpid, woken, got>>
  BY DEF call_start
<1>2. PICK s \in {"removing", "failing"} : runner' = [runner EXCEPT ![p] = s]
  BY DEF call_start, Run
<1>3. failed' = failed \/ failed' = [failed EXCEPT ![p] = TRUE]
  BY DEF call_start
<1>4. TypeOK'
  BY <1>1, <1>2, <1>3 DEF TypeOK, RunnerState
<1>5. PidDiscipline'
  BY <1>1, <1>2 DEF TypeOK, Pid, PidDiscipline
<1>6. Registered' /\ ReplyAfterExit' /\ NoLostWakeup'
  <2>1. \A q \in Pid : Exited(q) => Exited(q)'
    BY <1>1, <1>2 DEF TypeOK, Exited
  <2>2. \A l \in Listener : pc[l] \notin {"recv", "dead"} => wpid[l] \in Pid
    BY OwnPid
  <2> QED
    BY <1>1, <1>2, <2>1, <2>2 DEF TypeOK, Registered, ReplyAfterExit, NoLostWakeup, Exited
<1>7. FailureTraced'
  BY <1>1 DEF call_start, Run, TypeOK, Pid, FailureTraced
<1>8. FailureIsOwn'
  <2>1. \A q \in Pid : failed[q] => failed'[q]
    BY <1>3 DEF TypeOK
  <2>2. \A l \in Listener : got[l] # "none" => wpid[l] \in Pid
    BY MaxPidAssumption DEF TypeOK, FailureTraced, Pid
  <2> QED
    BY <1>1, <2>1, <2>2 DEF FailureIsOwn
<1>9. PidsNotShared'
  BY <1>1 DEF PidsNotShared
<1> QED
  BY <1>4, <1>5, <1>6, <1>7, <1>8, <1>9

\* The error is stored only for a program that failed.
LEMMA SetSpawnErrorKeepsInv ==
  ASSUME ExecInv, NEW p \in Pid, set_spawn_error(p)
  PROVE  ExecInv'
<1> USE DEF ExecInv, set_spawn_error, Run
<1>1. TypeOK'
  BY MaxPidAssumption DEF TypeOK, Pid, RunnerState
<1>2. PidDiscipline'
  BY MaxPidAssumption DEF TypeOK, Pid, PidDiscipline
<1>3. Registered'
  BY DEF TypeOK, Pid, PidDiscipline, Registered, Exited
<1>4. ReplyAfterExit'
  BY DEF TypeOK, Pid, PidDiscipline, Registered, ReplyAfterExit, Exited
<1>5. NoLostWakeup'
  BY DEF TypeOK, Pid, PidDiscipline, Registered, NoLostWakeup, Exited
<1>6. FailureTraced'
  BY DEF TypeOK, Pid, PidDiscipline, FailureTraced
<1>7. PidsNotShared' /\ FailureIsOwn'
  BY DEF PidsNotShared, FailureIsOwn
<1> QED
  BY <1>1, <1>2, <1>3, <1>4, <1>5, <1>6, <1>7

\* Who waits for the pid is not notified yet: the runner goes on to store the code and notify.
LEMMA RemoveKeepsInv ==
  ASSUME ExecInv, NEW p \in Pid, remove(p)
  PROVE  ExecInv'
<1> USE DEF ExecInv, remove, Run
<1>1. TypeOK'
  BY MaxPidAssumption DEF TypeOK, Pid, RunnerState
<1>2. PidDiscipline'
  BY MaxPidAssumption DEF TypeOK, Pid, PidDiscipline
<1>3. Registered'
  BY DEF TypeOK, Pid, PidDiscipline, Registered, Exited
<1>4. ReplyAfterExit'
  BY DEF TypeOK, Pid, PidDiscipline, Registered, ReplyAfterExit, Exited
<1>5. NoLostWakeup'
  BY DEF TypeOK, Pid, PidDiscipline, Registered, NoLostWakeup, Exited
<1>6. FailureTraced'
  BY DEF TypeOK, Pid, PidDiscipline, FailureTraced
<1>7. PidsNotShared' /\ FailureIsOwn'
  BY DEF PidsNotShared, FailureIsOwn
<1> QED
  BY <1>1, <1>2, <1>3, <1>4, <1>5, <1>6, <1>7

\* The code 1 is stored only for a program that failed.
LEMMA SetExitCodeKeepsInv ==
  ASSUME ExecInv, NEW p \in Pid, set_exit_code(p)
  PROVE  ExecInv'
<1> USE DEF ExecInv, set_exit_code, Run
<1>1. TypeOK'
  BY MaxPidAssumption DEF TypeOK, Pid, RunnerState
<1>2. PidDiscipline'
  BY MaxPidAssumption DEF TypeOK, Pid, PidDiscipline
<1>3. Registered'
  BY DEF TypeOK, Pid, PidDiscipline, Registered, Exited
<1>4. ReplyAfterExit'
  BY DEF TypeOK, Pid, PidDiscipline, Registered, ReplyAfterExit, Exited
<1>5. NoLostWakeup'
  BY DEF TypeOK, Pid, PidDiscipline, Registered, NoLostWakeup, Exited
<1>6. FailureTraced'
  BY DEF TypeOK, Pid, PidDiscipline, FailureTraced
<1>7. PidsNotShared' /\ FailureIsOwn'
  BY DEF PidsNotShared, FailureIsOwn
<1> QED
  BY <1>1, <1>2, <1>3, <1>4, <1>5, <1>6, <1>7

\* All futures are notified, so no listener waits on an old one.
LEMMA NotifyKeepsInv ==
  ASSUME ExecInv, NEW p \in Pid, notify(p)
  PROVE  ExecInv'
<1> USE DEF ExecInv, notify, Run
<1>1. TypeOK'
  BY MaxPidAssumption DEF TypeOK, Pid, RunnerState
<1>2. PidDiscipline'
  BY MaxPidAssumption DEF TypeOK, Pid, PidDiscipline
<1>3. Registered'
  BY DEF TypeOK, Pid, PidDiscipline, Registered, Exited
<1>4. ReplyAfterExit'
  BY DEF TypeOK, Pid, PidDiscipline, Registered, ReplyAfterExit, Exited
<1>5. NoLostWakeup'
  BY DEF TypeOK, Pid, PidDiscipline, Registered, NoLostWakeup, Exited
<1>6. FailureTraced'
  BY DEF TypeOK, Pid, PidDiscipline, FailureTraced
<1>7. PidsNotShared' /\ FailureIsOwn'
  BY DEF PidsNotShared, FailureIsOwn
<1> QED
  BY <1>1, <1>2, <1>3, <1>4, <1>5, <1>6, <1>7

-----------------------------------------------------------------------------
\* A step that changes nothing.
LEMMA StutterKeepsInv ==
  ASSUME ExecInv, UNCHANGED vars
  PROVE  ExecInv'
<1> USE DEF ExecInv, vars
<1>1. TypeOK'
  BY DEF TypeOK
<1>2. PidDiscipline' /\ PidsNotShared'
  BY DEF PidDiscipline, PidsNotShared
<1>3. Registered' /\ ReplyAfterExit' /\ NoLostWakeup'
  BY DEF Registered, ReplyAfterExit, NoLostWakeup, Exited
<1>4. FailureTraced' /\ FailureIsOwn'
  BY DEF FailureTraced, FailureIsOwn
<1> QED
  BY <1>1, <1>2, <1>3, <1>4

\* No pid has been handed out, nobody waits.
LEMMA InitInv == Init => ExecInv
<1> SUFFICES ASSUME Init PROVE ExecInv
  OBVIOUS
<1> USE DEF Init
<1>1. TypeOK
  BY MaxPidAssumption DEF TypeOK, Pid, ListenerState, RunnerState, Result
<1>2. PidDiscipline /\ PidsNotShared
  BY DEF PidDiscipline, PidsNotShared
<1>3. Registered /\ ReplyAfterExit /\ NoLostWakeup
  BY DEF Registered, ReplyAfterExit, NoLostWakeup
<1>4. FailureTraced /\ FailureIsOwn
  BY DEF FailureTraced, FailureIsOwn
<1> QED
  BY <1>1, <1>2, <1>3, <1>4 DEF ExecInv

\* ExecInv holds of every reachable state.
THEOREM ExecutorInvariant == Spec => []ExecInv
<1>1. ExecInv /\ [Next]_vars => ExecInv'
  <2> SUFFICES ASSUME ExecInv, [Next]_vars PROVE ExecInv'
    OBVIOUS
  <2>1. CASE UNCHANGED vars
    BY <2>1, StutterKeepsInv
  <2>2. ASSUME NEW l \in Listener, recv_fails(l) \/ begin_exec(l) \/ Handle(l) PROVE ExecInv'
    BY <2>2, RecvFailsKeepsInv, BeginExecKeepsInv, CreatePidFailsKeepsInv, SpawnKeepsInv, InsertKeepsInv, ArmKeepsInv,
       CheckKeepsInv, GetKeepsInv, ReadSpawnErrorKeepsInv, AwaitExitKeepsInv, FetchCodeKeepsInv,
       ReplyKeepsInv DEF Handle, Wait
  <2>3. ASSUME NEW p \in Pid, Host(p) \/ Guest(p) PROVE ExecInv'
    BY <2>3, BeginInstantiateKeepsInv, EndInstantiateKeepsInv, CallStartKeepsInv,
       SetSpawnErrorKeepsInv, RemoveKeepsInv, SetExitCodeKeepsInv, NotifyKeepsInv DEF Host, Guest
  <2> QED
    BY <2>1, <2>2, <2>3 DEF Next
<1> QED
  BY <1>1, InitInv, PTL DEF Spec

-----------------------------------------------------------------------------
\* Every variable of the executor and its listeners keeps its type.
THEOREM ExecutorTyped == Spec => []TypeOK
<1>1. ExecInv => TypeOK
  BY DEF ExecInv
<1> QED
  BY <1>1, ExecutorInvariant, PTL

\* create_next_pid never hands one pid to two listeners.
THEOREM PidsDistinct == Spec => []PidsNotShared
<1>1. ExecInv => PidsNotShared
  BY DEF ExecInv
<1> QED
  BY <1>1, ExecutorInvariant, PTL

\* A caller is told that its program has exited only when it has.
THEOREM RepliesAreTrue == Spec => []ReplyAfterExit
<1>1. ExecInv => ReplyAfterExit
  BY DEF ExecInv
<1> QED
  BY <1>1, ExecutorInvariant, PTL

\* The wait loop of wait_for_pid_exit loses no wake-up, whatever the interleaving.
THEOREM WakeupsNotLost == Spec => []NoLostWakeup
<1>1. ExecInv => NoLostWakeup
  BY DEF ExecInv
<1> QED
  BY <1>1, ExecutorInvariant, PTL

\* A failure that a wait reports is the failure of the program waited for.
THEOREM FailuresNotMixed == Spec => []FailureIsOwn
<1>1. ExecInv => FailureIsOwn
  BY DEF ExecInv
<1> QED
  BY <1>1, ExecutorInvariant, PTL

-----------------------------------------------------------------------------
(* How many workers can be blocked.                                        *)

\* What takes a pid off a listener, or a listener back to recv_from, finds the program exited or
\* never spawned.
LEMMA OwnedStep ==
  ASSUME ExecInv, Owned, [Next]_vars
  PROVE  Owned'
<1>1. /\ pc \in [Listener -> ListenerState] /\ runner \in [Pid -> RunnerState]
      /\ wpid \in [Listener -> 0 .. MaxPid]
  BY DEF ExecInv, TypeOK
<1>2. CASE UNCHANGED <<pc, runner, wpid>>
  BY <1>2 DEF Owned, Exited
<1>3. ASSUME NEW l \in Listener, begin_exec(l) PROVE Owned'
  <2>1. CASE UNCHANGED <<pc, wpid>>
    BY <1>2, <1>3, <2>1 DEF begin_exec
  <2>2. CASE /\ wpid' = [wpid EXCEPT ![l] = next_pid] /\ pc' = [pc EXCEPT ![l] = "prepare"]
             /\ pc[l] = "recv" /\ runner' = runner
    <3>1. ASSUME NEW p \in Pid, NEW k \in Listener, wpid[k] = p,
                 runner[p] \notin {"none", "coding", "notifying", "done"}
          PROVE  wpid'[k] = p
      <4>1. p # 0
        BY MaxPidAssumption DEF Pid
      <4>2. k # l
        BY <2>2, <3>1, <4>1 DEF Owned, Exited
      <4> QED
        BY <1>1, <2>2, <3>1, <4>2
    <3>2. \A p \in Pid : runner'[p] \in {"none", "coding", "notifying", "done"} \/ \E k \in Listener : wpid'[k] = p
      BY <2>2, <3>1 DEF Owned
    <3>3. \A k \in Listener : pc'[k] = "recv" => pc[k] = "recv" /\ wpid'[k] = wpid[k]
      BY <1>1, <2>2
    <3> QED
      BY <2>2, <3>2, <3>3 DEF Owned, Exited
  <2> QED
    BY <1>3, <2>1, <2>2 DEF begin_exec, Goto
<1>4. ASSUME NEW l \in Listener, spawn(l) PROVE Owned'
  <2>1. /\ runner' = [runner EXCEPT ![wpid[l]] = "spawned"] /\ wpid' = wpid
        /\ pc' = [pc EXCEPT ![l] = "insert"] /\ wpid[l] # 0
    BY <1>4 DEF spawn, Goto, Run, ExecInv, PidDiscipline
  <2>2. \A p \in Pid : runner'[p] \in {"none", "coding", "notifying", "done"} \/ \E k \in Listener : wpid'[k] = p
    BY <1>1, <2>1 DEF Owned
  <2>3. ASSUME NEW k \in Listener, pc'[k] = "recv", wpid'[k] # 0
        PROVE  runner'[wpid'[k]] = "none" \/ Exited(wpid[k])'
    <3>1. k # l /\ pc[k] = "recv"
      BY <1>1, <2>1, <2>3
    <3>2. wpid[k] # wpid[l]
      BY <2>1, <2>3, <3>1 DEF ExecInv, PidsNotShared
    <3>3. runner'[wpid[k]] = runner[wpid[k]]
      BY <1>1, <2>1, <3>2
    <3> QED
      BY <2>1, <2>3, <3>1, <3>3 DEF Owned, Exited
  <2> QED
    BY <2>2, <2>3 DEF Owned, Exited
<1>5. ASSUME NEW l \in Listener, pc' \in {[pc EXCEPT ![l] = s] : s \in ListenerState \ {"recv"}},
             UNCHANGED <<runner, wpid>>
      PROVE  Owned'
  <2>1. \A k \in Listener : pc'[k] = "recv" => pc[k] = "recv"
    BY <1>1, <1>5
  <2> QED
    BY <1>5, <2>1 DEF Owned, Exited
<1>6. ASSUME NEW l \in Listener, pc' = [pc EXCEPT ![l] = "recv"], UNCHANGED <<runner, wpid>>,
             runner[wpid[l]] = "none" \/ Exited(wpid[l])
      PROVE  Owned'
  <2>1. \A k \in Listener : pc'[k] = "recv" => pc[k] = "recv" \/ k = l
    BY <1>1, <1>6
  <2> QED
    BY <1>6, <2>1 DEF Owned, Exited
<1>7. ASSUME NEW l \in Listener, recv_fails(l) \/ Handle(l), ~spawn(l) PROVE Owned'
  <2>1. CASE recv_fails(l) \/ insert(l)
    BY <1>5, <2>1 DEF recv_fails, insert, Goto, ListenerState
  <2>2. CASE create_pid_fails(l)
    BY <1>6, <2>2 DEF create_pid_fails, Goto, ExecInv, PidDiscipline
  <2>3. CASE Wait(l)
    BY <1>5, <2>3 DEF Wait, arm, check, get, read_spawn_error, await_exit, fetch_code, Goto, ListenerState
  <2>4. CASE reply(l)
    BY <1>5, <1>6, <2>4 DEF reply, Goto, ListenerState, ExecInv, ReplyAfterExit
  <2> QED
    BY <1>7, <2>1, <2>2, <2>3, <2>4 DEF Handle
<1>8. ASSUME NEW p \in Pid, Host(p) \/ Guest(p) PROVE Owned'
  <2>1. PICK s \in RunnerState \ {"none", "spawned"} :
          /\ runner' = [runner EXCEPT ![p] = s] /\ UNCHANGED <<pc, wpid>>
          /\ runner[p] # "none" /\ (Exited(p) => s \in {"coding", "notifying", "done"})
    BY <1>8 DEF Host, Guest, begin_instantiate, end_instantiate, call_start, set_spawn_error, remove,
       set_exit_code, notify, Run, RunnerState, Exited
  <2>2. \A q \in Pid : runner'[q] \in {"none", "coding", "notifying", "done"} \/ \E k \in Listener : wpid'[k] = q
    BY <1>1, <2>1 DEF Owned, Exited
  <2>3. \A k \in Listener : pc[k] = "recv" /\ wpid[k] # 0 => runner'[wpid[k]] = "none" \/ Exited(wpid[k])'
    BY <1>1, <2>1 DEF Owned, Exited, Pid
  <2> QED
    BY <2>1, <2>2, <2>3 DEF Owned, Exited
<1> QED
  BY <1>2, <1>3, <1>4, <1>7, <1>8 DEF Next, vars

\* Every listener but the one that holds the guard may be blocked in insert, and one runner for each
\* listener in remove, so that with two workers for each listener one is left: a runtime of that size
\* never stands still on the guard that wait_for_pid_exit holds over an await.
THEOREM RuntimeKeepsMoving == Spec => []EnoughWorkers
<1>1. Init => Owned
  BY DEF Init, Owned
<1>2. ExecInv /\ Owned /\ [Next]_vars => Owned'
  BY OwnedStep
<1>3. ExecInv /\ Owned => EnoughWorkers
  <2> SUFFICES ASSUME ExecInv, Owned, TwoWorkersEach
               PROVE  Cardinality(ParkedListeners) + Cardinality(ParkedRunners) < Workers
    BY DEF EnoughWorkers
  <2> DEFINE N == Cardinality(Listener)
             L == ParkedListeners
             R == ParkedRunners
  <2>1. N \in Nat /\ Workers \in Nat /\ Workers >= 2 * N /\ Workers > 0
    BY WorkersAssumption, FS_CardinalityType DEF TwoWorkersEach
  <2>2. CASE \A l \in Listener : pc[l] # "reading"
    <3>1. L = {} /\ R = {}
      BY <2>2 DEF ParkedListeners, ParkedRunners, Guarded
    <3>2. Cardinality(L) = 0 /\ Cardinality(R) = 0
      BY <3>1, FS_EmptySet
    <3> QED
      BY <2>1, <3>2
  <2>3. ASSUME NEW l \in Listener, pc[l] = "reading"
        PROVE  Cardinality(L) + Cardinality(R) < Workers
    <3>1. L \in SUBSET (Listener \ {l})
      BY <2>3 DEF ParkedListeners
    <3>2. IsFiniteSet(Listener \ {l}) /\ Cardinality(Listener \ {l}) = N - 1
      BY WorkersAssumption, FS_RemoveElement
    <3>3. Cardinality(L) <= N - 1 /\ Cardinality(L) \in Nat
      <4>1. IsFiniteSet(L) /\ Cardinality(L) <= N - 1
        BY <3>1, <3>2, FS_Subset
      <4> QED
        BY <4>1, FS_CardinalityType
    <3> DEFINE K == {k \in Listener : wpid[k] \in R}
               owner == [k \in K |-> wpid[k]]
    <3>4. IsFiniteSet(K) /\ Cardinality(K) <= N
      BY WorkersAssumption, FS_Subset
    <3>5. owner \in Surjection(K, R)
      <4>1. \A p \in R : \E k \in K : owner[k] = p
        BY DEF Owned, ParkedRunners
      <4> QED
        BY <4>1 DEF Surjection
    <3>6. IsFiniteSet(R) /\ Cardinality(R) <= Cardinality(K)
      <4> HIDE DEF K, R, owner
      <4> QED
        BY <3>4, <3>5, FS_Surjection
    <3>7. Cardinality(R) \in Nat /\ Cardinality(K) \in Nat
      BY <3>4, <3>6, FS_CardinalityType
    <3> HIDE DEF L, R, K, N
    <3> QED
      BY <2>1, <3>3, <3>4, <3>6, <3>7
  <2> QED
    BY <2>2, <2>3
<1> QED
  BY <1>1, <1>2, <1>3, ExecutorInvariant, PTL DEF Spec
=============================================================================
