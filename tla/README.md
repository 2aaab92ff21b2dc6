# A verification project for weverywhere

weverywhere runs small WASI programs on a fabric of daemons that talk over UDP. This directory holds
TLA+ models of its core, the TLC configurations that check them, and TLAPS proofs of the properties
that matter most. Paths such as `src/src/executor/mod.rs` are relative to the directory above.

## 1. The system and its parts

| part | state it keeps | operations | talks to |
|---|---|---|---|
| executor (`executor/mod.rs`) | `next_pid`, `running_programs`, `pid_last_exit_code`, a `Notify`, per program a lock and a `spawn_error` slot | `begin_exec`, `create_pid`, the runner task, `wait_for_pid_exit` | listeners, local runs, chat |
| listener (`command/serve.rs`) | its socket; one request at a time | `serve_group`: run a program, or store a signed message | executor, store, relays |
| message store (`executor/mod.rs`) | bounded log, dedup set and its eviction queue | `push`, `read_after` | listeners push, guest programs push and read |
| chat feed (`messages_*` imports, `chat.c`) | the reader's high-water mark, the transcript | send, receive, poll | store, network |
| stdio forwarder (`wasi_adapters.rs`) | one encoded message per clone | `poll_write` | guest output, the caller's socket |
| discovery (`discovery.rs`, `serve.rs`, `netmap.rs`) | request uuid, depth budget, visited set; relay tasks; the collected records | execute, forward, relay, collect | listeners of other nodes |
| map assembly (`netmap.rs`) | first record of each node, rows | `print_network_map`, `collect_rows` | the collected records |
| peer registry (`executor/mod.rs`) | per key the identity, address and trust last noted; the trust set | `note_peer`, `add_trusted_key`, the snapshots of a program | listeners, discovery, programs |
| identity and configuration (`config.rs`, `crypto_utils.rs`, `net_utils.rs`) | the key file, settings, peers, trusted keys | generate, sign, verify, read and merge files, resolve a peer | all |
| run client (`run.rs`) | the reply window | send a program, read its replies | listeners |
| chat host (`chat.rs`, `tty.rs`) | the terminal and its guard, a keyboard thread, two channels, a broadcasting task | attach, run, drain, restore | executor, network, the user |
| local run (`run_local.rs`) | the channel of replicate requests | run, flush | executor, network |
| the rest (firewall, daemon, installation, information commands, build, scripts, testbed) | none of its own | system calls and printing | - |

What is hard here:

* *Interleaving.* `main.rs` starts a multi-threaded tokio runtime: the runner of a program, the
  listener that waits for it, and the listeners of other groups run in parallel over shared DashMaps
  and one `Notify`.
* *Unreliable delivery.* All traffic is UDP. A message is sent once per interface and once per peer,
  so it arrives several times, late, or not at all.
* *Partial failure.* Guests trap and run out of fuel, sends fail, sockets are pending.
* *Bounds.* 4096 messages, 4096 dedup keys, a 16 KiB read buffer, an 8-bit depth budget.
* *Timeouts.* A relay stops after 1.5 s of silence or 9 s, netmap after 12 s, whether or not the
  answers are in; chat gives its last messages 300 ms.
* *Start and end.* The node's own key becomes trusted by a task that runs beside the listeners; the
  end of chat passes through five actors, each of which must hand over to the next.
* *Termination.* A program forwarded among peers that list each other must not go round for ever.

`PROJECT.json` lists every such place under `hazards`, with its line and the properties about it.

## 2. Modules

| module | models | rests on |
|---|---|---|
| `FabricLog` | what the log promises, abstractly | - |
| `MessageStore` | `struct MessageStore` | implements `FabricLog` |
| `ChatFeed`, `MCChatFeed` | a message from Enter at one node to the transcript of another | extends `MessageStore` |
| `Executor` | pids, runners, waits, the ExecuteRequest arm | - |
| `StdioForwarder` | `poll_write` and its clones | - |
| `RunClient` | one socket of the run command, from its request to the end of its window | extends `StdioForwarder` |
| `Discovery`, `MCDiscovery` | the fan-out, the relays, the collection window | - |
| `Netmap`, `MCNetmap` | the assembly of the map | extends `Discovery` |
| `Launcher` | `chat` and `run-local` from their start to their end | - |
| `PeerRegistry` | the start of a node, its trust set and peer table, what programs are told | - |
| `Config` | the merge of configuration files, addresses of peers and of the host | - |
| `Node`, `MCNode` | a node that reads its configuration and starts; small configuration files | extends `PeerRegistry`, `Config` |
| `MessageStoreProofs`, `ChatFeedProofs`, `ExecutorProofs`, `LauncherProofs` | theorems | the module each is named after |
| `DiscoveryProofs` | theorems | `Discovery`, `Netmap` |
| `RunClientProofs` | theorems | `StdioForwarder`, `RunClient` |
| `NodeProofs` | theorems | `PeerRegistry`, `Config`, `Node` |
| `DataLemmas` | facts on numbers and sequences that several proofs use | - |

Definitions have the names of the code where one definition is one function. Each module lists, under
"Seeded faults", variants of its definitions that stand for plausible bugs; no specification uses
them, `PROJECT.json` pairs each with the property that catches it.

### MessageStore and FabricLog

`next_seq`, `msgs`, `seen`, `seen_order` are the fields of the struct. Every operation runs under one
mutex, so `push` is one step: look the key up, remember it and forget the oldest keys above the cap,
number the message and evict the oldest messages above the cap. The display name and the epoch are
left out. A dedup key is the pair of sender and id; in the code it is their concatenation, which is
the same because a key that passed the signature check has 32 bytes. The field `id` of a stored
message is auxiliary.

`FabricLog` has only a counter and a set of messages. `ImplementsLog` says that the store implements
it, with `retained` mapped to the elements of `msgs`: readers need not know of the dedup memory.

### ChatFeed

`messages_send` puts between none and `Copies` copies on the network, `Receive` is the
SignedFabricMessage arm of `serve_group` for one copy (both signatures, `note_peer`,
`record_fabric_message`), `ExecuteRequest` what the other arm does to the same peer registry: it notes
the claimed identity before any signature is checked. `messages_push` is the host import for programs, and `poll_messages` is the
reader of `chat.c` with `messages_read` and `encode_messages_cbor`. A body has a size; a batch is the
longest run of oldest unread messages whose encoding fits the buffer. `chat.c` shows the last lines
of a ring; `transcript` is all that was appended. `log` is a history variable.

### Executor

An action is one access to a shared object. The listener goes through
`recv`, `prepare`, `insert`, `arm`, `check`, `get`, `reading`, `await`, `fetch`, `reply`; the runner
through `spawned`, `instantiating`, `calling`, `failing`, `removing`, `coding`, `notifying`, `done`.
All tasks share `Workers` threads. A task between two awaits is on one of them (`BusyListeners`,
`BusyRunners`); any other needs a free one to go on (`WorkerFree`), and a task that meets a guard in
`insert` or `remove` keeps its thread, because a DashMap lock blocks and is not awaited.
Three library behaviours are modelled from how they are used: a DashMap guard blocks writers of its
shard (`Guarded`), a `Notified` future is notified by every `notify_waiters` after its creation,
polled or not (`woken`), and a tokio `RwLock` held for writing delays readers (`read_spawn_error`).
What a guest computes is left open: any program may fail at instantiation or in `_start`.
`terminate_running_pid` only logs. The event loop wakes on every insert and does nothing.

### StdioForwarder

The WASI streams keep one clone of the forwarder each, `host::print` makes a fresh one for each call.
`msg` is `current_encoded_msg` of each clone. The socket may send, fail, or be pending. The guest is
one thread, so one write is in progress at a time.

### RunClient

`RunClient` adds the other end to `StdioForwarder`: `guest` is a step of the program and the forwarder,
`end` what `serve_group` sends when the program is over, `recv` and `recv_none` one pass of the
client's loop (`read_daemon_replies`; `run_one_iface` has the same loop with a larger buffer).
`remaining` is `remaining_100ms_checks`. `route` tells the three ways to send apart: the local daemon
keeps the order of datagrams, the two unicast ways cut what is `large`. `timely` singles out the runs
without losses and with at most `MaxGap` checks between arrivals; `ShownToTheEnd` is about these.
Two consequences of the code are part of the model: the extensions add up, so that after many replies
in quick succession the client stays for as many seconds, and a datagram that does not parse uses up
a check without waiting.

### Discovery

A request is named by its path. The actions are the steps of the code: `execute` (the node runs the
program, answers, and starts to forward if it has budget), `discovery_forward` (one sub-request and
one relay for each target), `relay_reply`, `relay_ends`, `collect`, `deadline`; `lose` and `discard`
are the network. `timely`, chosen at the start, singles out the good runs: datagrams are not lost and
timeouts do not come before the answers. `Complete` is about these, all other properties about every
run.
Observed neighbours are not targets in the model: the address the registry remembers is the socket a
client or a relay sent from, and neither answers requests.

### Netmap

`arrived` is the list `collect_until` fills, in order; `print_network_map` takes the first verified
record of each node, finds the roots and calls `collect_rows` for each. That function calls itself for
the children of a node; here a step is the start of one call, and `todo` has the calls to be made, the
next one first, which is the order of the recursion. Nodes are sorted by hostname; those that share a
hostname come in any order, since the lists are filled from a hash map and the sort is stable. Two consequences
of the code are part of the model: nodes whose first records name each other as parents are not roots
and are missing from the map (`MissingOnlyInCycles` says that nothing else is), and since the origin's
own daemon has the key of the root, nodes asked directly may be drawn below its row.

### Launcher

The task of the command, the program, the keyboard thread and the broadcasting task are four `pc`s
over one state. `attach` is `TtyHost::attach`, `drop_guard` and `restore` are the `Drop` of the
guard, `reader_*` the loop of the thread; `send_join`, `ui_loop` and `send_leave` are `chat.c`, reduced
to when it sends and when it ends. `begin_exec` and `wait_for_pid_exit` keep only what `Executor` says
of them: the wait is in vain if the program ended well before its registration, and an error may be
missed. Messages and requests are counted and not told apart; a broadcast sends its message or fails, in
which case the message is logged and lost. The 300 ms are the nondeterministic step `grace_ends`; `timely`, chosen at the start, singles
out the runs in which the broadcasts need no longer. Failures are possible at every stage: preparing,
attaching, starting the program, in the program, in the keyboard thread.

### PeerRegistry

An action is one access to the key file, to `trusted_keys` or to `peers`. The key file is read
four times: by `read_signing_key`, by `read_public_key` and `generate_from_config`, which make the
identity and sign it, and by `startup_reads`. Any number of other processes (`Generator`) may generate a
missing key meanwhile; each of them looks first and writes in a second step. `note_peer` is two steps, the lookup of the trust and the
replacement of the entry, and `create_pid` takes its two snapshots in two steps; listeners interleave
in between. `trusts_me`, `trusts_key` and `peer_report` are the imports that answer from them.

### Config

A behaviour is one call: `read_from_file`, one override file at each step, or `local_addr_facing`, one
address at each step; the other definitions are functions. The properties compare the loop's result so
far with a closed definition of it, over every small input. A file that does not parse has no effect
at all, because a bad `[[peer]]` entry fails the deserialisation of the whole file.

## 3. Runs

Each question has one run; a run checks the properties that were hard to get right. Type invariants
are stated in the modules (not in `FabricLog`) and proved in the proof modules; the run of
`Discovery` checks its own too, because it holds the argument that no depth budget wraps below zero.

| run | shows | bounds |
|---|---|---|
| `ChatFeed` | the log has no duplicates and implements `FabricLog`; the transcript is in order, nothing repeated until as many other messages with an id have come as the dedup memory holds, nothing skipped, nothing mistaken for a copy, nothing unverified; the reader catches up | 4 messages with 2 copies, one altered under way, and local pushes without an id; 2 senders sharing ids; caps of 2 and 4 stored messages, so both are passed; a buffer for 1 long or 3 short messages |
| `Executor` | exit reports, failures and wake-ups are those of the right program; with two workers for each listener the guards that are held over an await never block them all, and nothing in the executor itself keeps a wait from returning or a runner from finishing once the guest has ended | 2 listeners (one per address family, the default), 2 programs run by one listener in turn or by both at once, in 1 shard, the worst case for guards; 4 workers |
| `RunClient` | order, no repeats, and the only way the forwarder loses output; what the client prints is in order with the exit last, a program that is never silent for long is shown to its end, and the client ends | a WASI stream and `host::print`, 3 writes, any of them large, the three routes; a window of 3 checks extended by 2 (24 and 10 in the code) and silences of 1: only that the silence is shorter than the extension matters |
| `Discovery` | bounded, loop-free, ends, right uuids and parents, under loss and early timeouts; without them, netmap finds exactly the nodes that the depth policy reaches | 4 nodes and the origin, with cycles, an edge back to the origin's daemon and a node that cannot sign; depths 3 and 1, so that the policy excludes some paths |
| `Netmap` | one row a node, true edges, only cycles are missing | 3 nodes including the origin's own, all first hops, two with the same hostname, every loss and order |
| `Launcher` | the terminal is given back however chat ends, and nobody uses it afterwards; every message and request is handed to the broadcast before the command ends, if the broadcasts keep up; a quit key or the end of the program ends the command | 3 keystrokes of 5 kinds (text and Enter, or a correction, before the quit key), 2 requests of a local program, failures anywhere |
| `Node` | the node signs with, presents and trusts one key, which stays in the file, unless two processes wrote it; what a program is told of trust by three imports is consistent; the time in which the node does not trust itself ends; before it starts, files are merged whole or not at all and every configured peer is reached, by the first of hostname, IPv6 and IPv4 address that resolves; the facing address is a closest one | 2 keys, one of them another node's, 2 processes that generate a missing key, 2 listeners with any datagrams, forged ones included; 5 kinds of files and up to 3 includes; every pair of own addresses of 2 bits in two families, loopback or not |

Deadlock is checked for the feed, whose reader always polls, and for the node, which always receives.
The other systems do stop: a command, a program that has ended and a client whose window is over, a fan-out, listeners that have ended.

*Fairness.* `FeedSpec` has weak fairness of the poll: `ui_loop` polls at least every 120 ms. In
`Executor` each listener past the receipt of a request is weakly fair, and so are the runner's own steps
(`Host`): tokio polls every ready task as long as it has a free worker, which is a guard of these
actions. Nobody has to send requests, and no guest has to end: its 128000 units of fuel bound what it
computes, but in `poll_oneoff` of WASI it sleeps without using any. Nothing is assumed either of a
listener that is `Caught`, ready to release its guard while its own runner is blocked on it: the runner
woke it, tokio keeps the task woken last for the worker it was woken on, and that worker is blocked. In `RunClient` the
client's loop is weakly fair; nothing is assumed of the daemon except in the good runs, in which it
goes on until it has answered. In `Discovery` every step but loss is weakly fair: tasks run and all
waits have timeouts. In `Launcher` the runtime runs the tasks and the operating system the thread;
nothing makes the user type, a program ask for copies or end (`chat.c` polls until a quit key), or a
component fail. In `PeerRegistry` the
start-up and a listener that has a datagram are weakly fair; nothing makes datagrams come in, a program
end or a key be generated.

### Disagreements between comments and code

Five runs state what a comment says and find it violated (`findings` in `PROJECT.json`):

* `ExecutorExitEndsWait`: the runner is spawned before its pid is inserted; a program that ends in
  between leaves its listener waiting for good, since the pid stays registered and each later
  notification only repeats the check.
* `ExecutorSurvives`: the error of a guest ends the listener of its group.
* `ChatFeedOversize`: a message larger than the buffer stops the reader while it is retained.
* `StdioForwarderSent`: output for which the socket was pending is answered with Ok and not sent.
* `DiscoveryTrust`: a daemon never grants the trusted depth, its trust set is its own key.

The passing properties are stated with exactly these limits: `WaitReturns` is about waits that begin
before the exit, and like `RunnersFinish` takes that `NothingStuck`: two workers for each listener, no
guest that never gets through its instantiation, no listener that stays caught; `CatchesUp` holds when every message fits, `LostOnlyIfPending` names the only way to
lose output, `ShownToTheEnd` takes datagrams that fit the buffer, `NoLoop` takes pinned peers,
`MissingOnlyInCycles` says what can be missing, `CommandEnds` excepts a program that was faster than
its registration and a keyboard thread that failed, `LastWordsSent` takes broadcasts within 300 ms and says that they
were tried, not that they succeeded, `OneKey` and `TrustsItself` except a key file that two processes wrote.
The number of workers in `EnoughWorkers` is safe and perhaps not the least: in the model, which lets a
runner take the program's lock before a listener that is about to read, TLC finds a standstill with 2 and
with 3 workers for 2 listeners.

Limits of the code that the models contain and no run is about:

* an identity is noted in the peer registry before its signature is checked (`begin_exec` in `Executor`,
  `ExecuteRequest` in `ChatFeed`); programs run, and messages are shown, only under verified ones;
* two processes that both find the key missing may overwrite each other's file
  (`generate_private_key_ed25519_pem_file`), and a node that starts meanwhile may read both keys;
* a guest that sleeps keeps its listener waiting (`call_start`), in its start function even with the
  guard held, so that other programs of the shard are blocked (`end_instantiate`);
* with few workers the tasks blocked on a guard can be all of them (`WorkerFree`);
* the pid is removed before its exit code is stored, so that a failed program can be reported with
  code 0 (`fetch` in `Executor`);
* a peer listed without a key is asked again although it is on the path (`sub_request`);
* raw mode stays on if the alternate screen cannot be entered (`attach`), and a keyboard thread that
  ends on an input error leaves chat without a quit key (`reader_fails`);
* `run-local` does not send the requests of a program whose error is returned (`wait_for_pid_exit` in
  `Launcher`);
* `trusts_me` says no while a program is being instantiated (`trusts_me`).

And limits outside the models: the address that `observed_targets` hands out is the ephemeral port of a client; the
store of a program stays alive in a cycle of references, and with it the senders of its channels.

## 4. Proofs

All theorems hold for every value of the constants within the named assumptions.

**MessageStoreProofs** (capacities positive, `Cap <= SeenCap`, the empty id is no id). The inductive
invariant is `StoreInv`. `NoRetainedDuplicate` is not inductive: a push could bring back a key that
was forgotten while its message is still retained. `RetainedIsRemembered` rules that out: the key of a
retained message is in `seen_order`, no further from the newest end than the message is from the
newest end of `msgs`. Both queues drop from the other end, and the log is no longer than the memory.
From `StoreInv` follow `StoreTyped`, `DedupMemoryConsistent`, `LatestRun`, `NoDuplicates`, and
`StoreImplementsLog`: an accepted push is an `Accept` (the evicted message is the one whose number
falls out of the window), a duplicate a stutter.

**ExecutorProofs** (any set of listeners and callers, any number of pids and shards). The inductive
invariant is `ExecInv`. `PidsNotShared` needs `PidDiscipline` (nothing runs under a pid not yet handed
out). `ReplyAfterExit` and `NoLostWakeup` need `Registered`: from the insert on, a pid is in the map or
its runner is past the removal; so a wait that does not find it may conclude that the program has
exited, and one that found it and was not notified since has a runner that will notify. `FailureIsOwn`
needs `FailureTraced`. `RuntimeKeepsMoving` proves `EnoughWorkers` for any number of listeners: by `Owned`
a program that runs is the last one of some listener, so at most one runner and one listener for each
listener are blocked, and the listener that holds the guard is not. There is one lemma for each action.

**ChatFeedProofs** (any senders, messages and buffer, on the assumptions of the store). The inductive
invariant is `FeedInv`, on top of `StoreInv`. `RepeatOnlyAfterSeenCap` compares two places of the whole
history, of which the store keeps only the end: `LogIsNumbered` says that `log` is that history,
`SeenIsLogged` and `LoggedIsSeen` that the dedup memory holds the keys of its end and of nothing else.
`TranscriptInOrder` needs `ReaderIsBehind`: what is shown is not beyond the mark, and the mark not
beyond the log. Only messages with a key count in the distance between two copies (`RepeatOnlyAfterSeenCap`), since only
they displace keys. `OnlyVerified` follows a shown message back to its sender and needs `Admitted`, from
what a stored message may stem, and `UnsentIsNowhere`. `read_after` is a recursive function of the
number of messages, since the provers cannot expand `SelectSeq`. `NothingSkipped` and
`HeardIsStored` are proved as action properties from the same invariant, and `FeedImplementsLog`
carries the refinement of `FabricLog` over to the whole feed.

**RunClientProofs** (any streams, writes, windows and sizes). For the forwarder the inductive invariant
is `ForwarderInv`. `LostOnlyIfPending` needs `LeftOver`: what is left in the polled state of a stream
comes from the write in progress, for which the socket was pending, or the stream is not written to
again. `OutputInOrder` needs `Progress`: the write in progress has not been answered. The client is
proved on top of it: a behaviour of `RunSpec` is one of the forwarder (`ForwarderInRun`), and `RunInv`
is inductive. It says where each datagram comes from (`FromDaemon`), that what is printed and what is
still on the network together hold nothing twice, on the local route in the order of writing (`Once`,
`Ordered`), and for a good run that nothing has been lost so far and that the window is open for longer
than the silence can last (`NothingLost`, `WindowOpen`). The last is why a silence must be shorter than
an extension: each arrival leaves at least that many checks.

**DiscoveryProofs** (any graph, any two depths). The inductive invariant is `DiscoveryInv`: requests
carry the uuid, the key and the visited set of their path (`RequestsFollow`), relays and replies the
uuids of theirs. `FanOutBounded` is the depth policy for whole paths, from what
`child_depth_budget` does at one hop. `NeverLoops` takes in addition that every peer entry gives a key.
`FindsExactlyReachable` proves `Complete`, for pinned peers and an untrusted depth not above the trusted
one (2 and 8 in the code). It needs `CompletionInv`. A request must have exactly the budget that its
path leaves, the least over its hops (`RequestsExact`), or a legal path could be cut short. Every
legal path has been executed or a part of it is about to be (`Covered`). An executed request is
answered or its answer is on the way (`Answered`), and the relays it has to pass through are there
(`WaysBack`): a relay of a good run does not end while anything is going on below it. The window
closes last (`WindowLast`).

The map (any fabric, any hostnames, any records in any order) has the inductive invariant `MapInv`, on
top of `DiscoveryInv`: a behaviour of `MapSpec` is one of the discovery. `TreeIsTrue` speaks of the last row
before another that is a level higher, so it is not enough that the parent of a waiting call has a row:
`CallsLinked` says that no row was added since at or above the level of that one, and `InnerFirst`, that
waiting calls are ordered by level, is why the next row does not break it for the others.
`RecordsMade` ties a record to the request that was executed at the node that signed it.
`MissingOnlyInCycles` needs `NothingForgotten`: roots and the children of shown nodes have a row or wait for one.
`AllShown` goes on from it: where the first records name no cycle of parents, every node that answered
has a row, since a missing one of least rank would have a missing parent of lower rank. (Cycles do occur,
even in good runs, when the longer way is the faster one.) `MapKnowsReachable` joins the two halves: in a good run, with
the hypotheses of `FindsExactlyReachable`, the map is made of exactly the reachable nodes that can
sign. These two, `AllKnownShown` and `KnowsReachable`, are stated for the proofs and not part of a run.

**LauncherProofs** (any number of keystrokes and requests). The inductive invariant is `LauncherInv`.
`Restored` and `TerminalLeftAlone` need `Control`, which ties the stages of the command to those of
the guard and of the program: a held guard means that the command is still on its way, and past the
wait the program is over. `LastWordsSent` needs `Stream`, the account of the messages (sent, lost, being
sent and queued are together what was said), and `Delivered`: nothing is queued or being sent from the
end of the grace time on, and no program is alive to add to it.

**NodeProofs** (any keys, listeners, files and addresses). For the registry the inductive invariant is
`RegistryInv`. It rests on trust that only grows: whatever was read as trusted, be it in the mark of a
listener, in an entry, or in the snapshot of a program, still is (`MarksTrusted`, `ViewsTrusted`), so a
later look finds it. `OneKey` needs `KeyTraced`: a key that has been read is the key in the file, unless
two processes have written it, and a process that found it missing does not come after the first writer unnoticed: as long as nobody wrote,
the file is missing or nobody has looked. For the configuration, `CallInvariant` says that what a call has
computed so far has its type, is the merge of the files read so far, and is the closest of the
addresses seen so far. The merge is compared with a closed definition (for each setting the last file
that has it, for the lists their concatenation), so a step needs what a maximum and `FlattenSeq` do when
one more file is added. `NodeImplementsRegistry` shows that a node is a registry whatever it reads, and
`NodeTrust` carries the trust properties over. `FileAssumption` says what a file is: a record whose
`trusted` and `peer` parts are lists.

**DataLemmas** has what the others share: least and greatest elements of sets of numbers, in place of
induction, and sequences from which an element is removed, to which one is appended, or that are
flattened.

The strengthened invariants were checked by TLC on the instances of the runs before they were proved.

Only model-checked: liveness (`CatchesUp`, `WaitReturns`, `RunnersFinish`, `FanOutEnds`, `ClientEnds`,
`CommandEnds`, `WindowCloses`, `TrustsItself`), which is out of the prover's reach. Every invariant and
every action property of the passing runs is proved.

## 5. What is not modelled

Cryptography (a signature verifies or not), byte encodings, the clock and validity of identities, the
content of host imports that only copy a value, sockets and multicast set-up, what is drawn on the
terminal, firewall rules, service files and installation, argument parsing, build and test tooling:
these are calls of the system or of libraries without a state of the program's own that could go
wrong in a sequence of steps. A poisoned mutex (a panic inside `push`) is not modelled:
`push` does not panic.

## 6. Plan

Done: everything in section 2. Left:

1. A composition of the listeners with `Executor` and the service manager: when the daemon as a whole
   stops answering.
