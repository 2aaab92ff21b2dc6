---------------------------- MODULE PeerRegistry ----------------------------
(***************************************************************************)
(* Whom a node knows and whom it trusts: the start of the executor, its    *)
(* trust set and peer table, and what a program is told of both            *)
(* (src/src/executor/mod.rs, serve_group of src/src/command/serve.rs).     *)
(*                                                                         *)
(* The task that trusts the node's own key runs beside the listeners, and  *)
(* the listeners beside each other; an action is one access to the key     *)
(* file, to trusted_keys or to peers.  Each listener handles one datagram  *)
(* at a time.  Other processes of the host share the key file: each of     *)
(* them may find it missing and generate a key, before, while or after     *)
(* this node starts (src/src/command/configuration.rs; every command       *)
(* offers it, src/src/main.rs).                                            *)
(*                                                                         *)
(* Left out: a file that is half written, which is read as no key; names,  *)
(* addresses and times of peers; the iteration over peers is one step      *)
(* (entries are independent of each other); what happens to the program    *)
(* otherwise (Executor) and to the message (ChatFeed).                     *)
(***************************************************************************)
EXTENDS Integers

CONSTANTS
  Key,        \* public keys of nodes
  NoKey,      \* there is no key, or no file
  Listener,   \* serve_group tasks of the executor
  Generator   \* processes that generate a missing key

ASSUME NoKeyAssumption == NoKey \notin Key

VARIABLES
  keyfile,        \* the key in the identity file
  generator,      \* where each process is that generates a missing key
  boot,           \* how far Executor::new is
  signing_key,    \* identity_signing_key and identity_pubkey
  identity_key,   \* the key that identity_data carries
  identity_signer,  \* the key that signed it
  startup,        \* where the task is that trusts our own key
  startup_key,    \* the key it has read
  trusted_keys,
  peers,          \* per key: not noted, or noted as trusted or untrusted
  pc,             \* where each listener is
  cur,            \* the datagram it handles
  mark,           \* the trust it read for note_peer
  program_is_trusted,  \* the trust begin_exec gave its program
  view            \* what its program has been told so far

fileVars == <<keyfile, generator>>
bootVars == <<boot, signing_key, identity_key, identity_signer>>
trustVars == <<startup, startup_key, trusted_keys>>
startVars == <<fileVars, bootVars, trustVars>>
listenerVars == <<pc, cur, mark, program_is_trusted, view>>
vars == <<startVars, peers, listenerVars>>

\* A datagram: a request to execute or a signed message, the key it claims, and whether its
\* signatures are those of that key.
Datagram == [kind : {"execute", "fabric"}, key : Key, verifies : BOOLEAN]

\* The peers that a program sees marked as trusted, and the keys it sees as trusted.
View == [marked : SUBSET Key, trusted_pubkeys : SUBSET Key]
Blank == [marked |-> {}, trusted_pubkeys |-> {}]
NoDatagram == [kind |-> "none", key |-> NoKey, verifies |-> FALSE]

Goto(l, s) == pc' = [pc EXCEPT ![l] = s]
\* On with the datagram, or back to receive another one: this one is dropped.
Proceed(l, on, s) ==
  IF on THEN Goto(l, s) /\ UNCHANGED cur
  ELSE Goto(l, "recv") /\ cur' = [cur EXCEPT ![l] = NoDatagram]
Generates(g, s) ==
  /\ generator' = [generator EXCEPT ![g] = s]
  /\ UNCHANGED <<bootVars, trustVars, peers, listenerVars>>
Marked == {k \in Key : peers[k] = "trusted"}

-----------------------------------------------------------------------------
(* Seeded faults.                                                          *)
Overwrite(g) ==
  /\ generator[g] = "idle"
  /\ Generates(g, "missing")
  /\ UNCHANGED keyfile
AddOnlyAtStart ==
  /\ startup = "adding" /\ boot = "serving"
  /\ startup' = "done"
  /\ trusted_keys' \in {trusted_keys, trusted_keys \cup {startup_key}}
  /\ startup_key' = NoKey
  /\ UNCHANGED <<fileVars, bootVars, peers, listenerVars>>
LiveTrust(l) == pc[l] = "running" /\ cur[l].key \in trusted_keys
LivePeers(l) == Marked
KeepFirstMark(l) ==
  /\ pc[l] = "insert"
  /\ peers' = [peers EXCEPT ![cur[l].key] = IF @ # "unknown" THEN @
                                            ELSE IF mark[l] THEN "trusted" ELSE "untrusted"]
  /\ mark' = [mark EXCEPT ![l] = FALSE]
  /\ Proceed(l, cur[l].kind = "execute", "begin")
  /\ UNCHANGED <<startVars, program_is_trusted, view>>

-----------------------------------------------------------------------------
(* The key file.                                                           *)

\* generate-missing-keys looks whether the file exists; if it does, the process leaves it alone ...
check_missing(g) ==
  /\ generator[g] = "idle" /\ keyfile = NoKey
  /\ Generates(g, "missing")
  /\ UNCHANGED keyfile

\* ... and otherwise it writes a new key, whatever the file holds by now.
generate_private_key_ed25519_pem_file(g) ==
  /\ generator[g] = "missing"
  /\ Generates(g, "wrote")
  /\ \E k \in Key : keyfile' = k

-----------------------------------------------------------------------------
(* Executor::new.                                                          *)

\* The private key is read for signing, ...
read_signing_key ==
  /\ boot = "signing"
  /\ signing_key' = keyfile
  /\ boot' = "identity"
  /\ UNCHANGED <<fileVars, identity_key, identity_signer, trustVars, peers, listenerVars>>

\* ... then the public key for the identity that the node signs its requests with, ...
read_public_key ==
  /\ boot = "identity"
  /\ identity_key' = keyfile
  /\ boot' = IF keyfile = NoKey THEN "cyclic" ELSE "identity_signature"
  /\ UNCHANGED <<fileVars, signing_key, identity_signer, trustVars, peers, listenerVars>>

\* ... and the private key again to sign that identity; there is none if either cannot be read.
generate_from_config ==
  /\ boot = "identity_signature"
  /\ identity_signer' = keyfile
  /\ identity_key' = IF keyfile = NoKey THEN NoKey ELSE identity_key
  /\ boot' = "cyclic"
  /\ UNCHANGED <<fileVars, signing_key, trustVars, peers, listenerVars>>

\* A task is spawned that trusts our own key, ...
spawn_startup ==
  /\ boot = "cyclic"
  /\ startup' = "reading"
  /\ boot' = "building"
  /\ UNCHANGED <<fileVars, signing_key, identity_key, identity_signer, startup_key, trusted_keys, peers,
                 listenerVars>>

\* ... and the executor exists: the listeners start.
serving ==
  /\ boot = "building"
  /\ boot' = "serving"
  /\ UNCHANGED <<fileVars, signing_key, identity_key, identity_signer, trustVars, peers, listenerVars>>

\* The task reads the file a fourth time; without a key it gives up ...
startup_reads ==
  /\ startup = "reading"
  /\ startup_key' = keyfile
  /\ startup' = IF keyfile = NoKey THEN "done" ELSE "adding"
  /\ UNCHANGED <<fileVars, bootVars, trusted_keys, peers, listenerVars>>

\* ... otherwise it tries every 5 ms until the executor exists, which is long before its last try.
add_trusted_key ==
  /\ startup = "adding" /\ boot = "serving"
  /\ startup' = "done"
  /\ trusted_keys' = trusted_keys \cup {startup_key}
  /\ startup_key' = NoKey
  /\ UNCHANGED <<fileVars, bootVars, peers, listenerVars>>

-----------------------------------------------------------------------------
(* A listener: serve_group, note_peer, begin_exec and create_pid.          *)

\* A datagram comes in.  A message that does not verify is dropped; the claimed identity of a request
\* is noted before anybody has checked it.
recv_from(l) ==
  /\ boot = "serving" /\ pc[l] = "recv"
  /\ \E d \in Datagram :
       /\ d.kind = "execute" \/ d.verifies
       /\ cur' = [cur EXCEPT ![l] = d]
  /\ Goto(l, "note")
  /\ UNCHANGED <<startVars, peers, mark, program_is_trusted, view>>

\* note_peer looks the key up in trusted_keys ...
note_peer_trust(l) ==
  /\ pc[l] = "note"
  /\ mark' = [mark EXCEPT ![l] = cur[l].key \in trusted_keys]
  /\ Goto(l, "insert")
  /\ UNCHANGED <<startVars, peers, cur, program_is_trusted, view>>

\* ... and replaces the entry of the key.
note_peer_insert(l) ==
  /\ pc[l] = "insert"
  /\ peers' = [peers EXCEPT ![cur[l].key] = IF mark[l] THEN "trusted" ELSE "untrusted"]
  /\ mark' = [mark EXCEPT ![l] = FALSE]
  /\ Proceed(l, cur[l].kind = "execute", "begin")
  /\ UNCHANGED <<startVars, program_is_trusted, view>>

\* begin_exec refuses a bad self signature, otherwise it decides whether the program is trusted.
begin_exec(l) ==
  /\ pc[l] = "begin"
  /\ Proceed(l, cur[l].verifies, "reports")
  /\ program_is_trusted' = [program_is_trusted EXCEPT ![l] = cur[l].verifies /\ cur[l].key \in trusted_keys]
  /\ UNCHANGED <<startVars, peers, mark, view>>

\* create_pid takes the snapshot of the peers ...
peer_reports(l) ==
  /\ pc[l] = "reports"
  /\ view' = [view EXCEPT ![l].marked = Marked]
  /\ Goto(l, "keys")
  /\ UNCHANGED <<startVars, peers, cur, mark, program_is_trusted>>

\* ... and then the one of the trusted keys.
trusted_pubkeys(l) ==
  /\ pc[l] = "keys"
  /\ view' = [view EXCEPT ![l].trusted_pubkeys = trusted_keys]
  /\ Goto(l, "running")
  /\ UNCHANGED <<startVars, peers, cur, mark, program_is_trusted>>

\* The program ends; the listener takes the next datagram.
ends(l) ==
  /\ pc[l] = "running"
  /\ view' = [view EXCEPT ![l] = Blank]
  /\ program_is_trusted' = [program_is_trusted EXCEPT ![l] = FALSE]
  /\ Proceed(l, FALSE, "recv")
  /\ UNCHANGED <<startVars, peers, mark>>

\* What the program is told.  host::trusts_me cannot look while the program is being instantiated
\* and says no.
trusts_me(l) == pc[l] = "running" /\ program_is_trusted[l]
trusts_key(l, k) == k \in view[l].trusted_pubkeys
peer_report(l) == view[l].marked

-----------------------------------------------------------------------------
Init ==
  /\ keyfile \in Key \cup {NoKey} /\ generator = [g \in Generator |-> "idle"]
  /\ boot = "signing" /\ signing_key = NoKey /\ identity_key = NoKey /\ identity_signer = NoKey
  /\ startup = "none" /\ startup_key = NoKey /\ trusted_keys = {}
  /\ peers = [k \in Key |-> "unknown"]
  /\ pc = [l \in Listener |-> "recv"]
  /\ cur = [l \in Listener |-> NoDatagram]
  /\ mark = [l \in Listener |-> FALSE] /\ program_is_trusted = [l \in Listener |-> FALSE]
  /\ view = [l \in Listener |-> Blank]

KeyFile == \E g \in Generator : check_missing(g) \/ generate_private_key_ed25519_pem_file(g)
Boot == read_signing_key \/ read_public_key \/ generate_from_config \/ spawn_startup \/ serving
Startup == startup_reads \/ add_trusted_key
Handle(l) ==
  note_peer_trust(l) \/ note_peer_insert(l) \/ begin_exec(l) \/ peer_reports(l) \/ trusted_pubkeys(l)

Next == KeyFile \/ Boot \/ Startup \/ \E l \in Listener : recv_from(l) \/ Handle(l) \/ ends(l)

\* The tasks run; nothing makes datagrams come in, a key be generated or a program end.
Fairness == WF_vars(Boot) /\ WF_vars(Startup) /\ \A l \in Listener : WF_vars(Handle(l))

Spec == Init /\ [][Next]_vars
LiveSpec == Spec /\ Fairness

-----------------------------------------------------------------------------
(* Properties                                                              *)

\* Every variable has its type.
TypeOK ==
  /\ {keyfile, signing_key, identity_key, identity_signer, startup_key} \subseteq Key \cup {NoKey}
  /\ generator \in [Generator -> {"idle", "missing", "wrote"}]
  /\ boot \in {"signing", "identity", "identity_signature", "cyclic", "building", "serving"}
  /\ startup \in {"none", "reading", "adding", "done"} /\ trusted_keys \in SUBSET Key
  /\ peers \in [Key -> {"unknown", "trusted", "untrusted"}]
  /\ pc \in [Listener -> {"recv", "note", "insert", "begin", "reports", "keys", "running"}]
  /\ cur \in [Listener -> Datagram \cup {NoDatagram}] /\ view \in [Listener -> View]
  /\ mark \in [Listener -> BOOLEAN] /\ program_is_trusted \in [Listener -> BOOLEAN]

\* Two processes found the file missing and both wrote it.
Raced == \E g, h \in Generator : g # h /\ generator[g] = "wrote" /\ generator[h] = "wrote"

\* The key file is read four times while a node starts, and anybody may generate a missing key
\* meanwhile.  The key the node signs with, the key of its identity and the one that signed it, the
\* key it trusts and the one that the next command will read are still one key or missing, with one
\* exception: two processes that both looked before either wrote.  In particular a key that is in the
\* file when the node starts stays.
OneKey ==
  Raced \/ \A j, k \in ({keyfile, signing_key, identity_key, identity_signer} \cup trusted_keys) \ {NoKey} : j = k

\* A program runs only under an identity that verified, although the registry notes the others too.
RunsVerified == \A l \in Listener : pc[l] \in {"reports", "keys", "running"} => cur[l].verifies

\* A program that is told it is trusted finds its caller among the trusted keys, although the two
\* are looked up at different times.
TrustAgrees == \A l \in Listener : trusts_me(l) => trusts_key(l, cur[l].key)

\* A peer that is reported to a program as trusted is one of the keys it is told are trusted, although
\* the mark was set by any listener at any time.
ReportsAgree == \A l \in Listener : pc[l] = "running" => \A k \in peer_report(l) : trusts_key(l, k)

\* The time in which a node does not trust itself ends: a key that is trusted and keeps coming is
\* at last marked so for good, and no program of it is started untrusted any more.
WindowCloses ==
  \A k \in Key :
    <>(k \in trusted_keys) /\ []<>(\E l \in Listener : pc[l] = "note" /\ cur[l].key = k)
      => <>[](/\ peers[k] = "trusted"
              /\ \A l \in Listener : pc[l] \in {"reports", "keys"} /\ cur[l].key = k => program_is_trusted[l])

\* A node whose key file is there when it starts comes to trust the key it signs with, unless two
\* processes have written the file.
TrustsItself == (signing_key # NoKey) ~> (trusted_keys = {signing_key} \/ Raced)
=============================================================================
