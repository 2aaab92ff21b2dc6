----------------------------- MODULE NodeProofs -----------------------------
(***************************************************************************)
(* What PeerRegistry promises of keys and trust, for any number of nodes   *)
(* and listeners, and what a node makes of its configuration, for any      *)
(* files and any addresses.                                                *)
(*                                                                         *)
(* Trust only grows, so whatever was seen in trusted_keys at one time is   *)
(* there at every later time: marks and views are bounded by the trust set *)
(* (MarksTrusted, ViewsTrusted) until a program has its own copy of it.    *)
(* Unless two processes have written the key file, a process that is about *)
(* to write it is the first, and nobody has read a key yet (KeyTraced).    *)
(***************************************************************************)
EXTENDS Node, DataLemmas

\* Unless two processes wrote the file, every key that was read is the one in it.  If nobody has
\* written it and somebody found it missing, it still is.
KeyTraced ==
  /\ startup = "adding" => startup_key # NoKey
  /\ \/ Raced
     \/ \A k \in ({signing_key, identity_key, identity_signer, startup_key} \cup trusted_keys) \ {NoKey} : k = keyfile
  /\ \/ \E g \in Generator : generator[g] = "wrote"
     \/ \A g \in Generator : generator[g] = "idle"
     \/ keyfile = NoKey

\* What is marked as trusted, or about to be, is trusted.
MarksTrusted ==
  /\ \A k \in Key : peers[k] = "trusted" => k \in trusted_keys
  /\ \A l \in Listener : pc[l] = "insert" /\ mark[l] => cur[l].key \in trusted_keys

\* What a program is told is trusted is in the trust set, and in its own copy once it has one.
ViewsTrusted ==
  \A l \in Listener :
    /\ pc[l] \in {"reports", "keys"} /\ program_is_trusted[l] => cur[l].key \in trusted_keys
    /\ pc[l] = "keys" => view[l].marked \subseteq trusted_keys
    /\ pc[l] = "running" =>
         /\ view[l].marked \subseteq view[l].trusted_pubkeys
         /\ program_is_trusted[l] => cur[l].key \in view[l].trusted_pubkeys

RegistryInv == TypeOK /\ KeyTraced /\ MarksTrusted /\ ViewsTrusted /\ RunsVerified

-----------------------------------------------------------------------------
(* The start of the node.                                                  *)

\* A step of a process that generates a key keeps the types.
LEMMA FileTyped ==
  ASSUME TypeOK, KeyFile
  PROVE  TypeOK'
<1>1. PICK g \in Generator : check_missing(g) \/ generate_private_key_ed25519_pem_file(g)
  BY DEF KeyFile
<1>2. generator' \in [Generator -> {"idle", "missing", "wrote"}]
  BY <1>1 DEF check_missing, generate_private_key_ed25519_pem_file, Generates, TypeOK
<1>3. keyfile' \in Key \cup {NoKey}
  BY <1>1 DEF check_missing, generate_private_key_ed25519_pem_file, TypeOK
<1>4. UNCHANGED <<bootVars, trustVars, peers, listenerVars>>
  BY <1>1 DEF check_missing, generate_private_key_ed25519_pem_file, Generates
<1> QED BY <1>2, <1>3, <1>4 DEF TypeOK, bootVars, trustVars, listenerVars

\* A step of Executor::new or of its start-up task keeps the types.
LEMMA StartTyped ==
  ASSUME TypeOK, KeyTraced, Boot \/ Startup
  PROVE  TypeOK'
BY NoKeyAssumption
DEF TypeOK, KeyTraced, Boot, Startup, read_signing_key, read_public_key, generate_from_config,
    spawn_startup, serving, startup_reads, add_trusted_key, fileVars, bootVars, trustVars, listenerVars

\* A process that writes the file is the first, and then nobody has a key, or it is not.
LEMMA FileTraced ==
  ASSUME TypeOK, KeyTraced, KeyFile
  PROVE  KeyTraced'
<1> USE DEF Generates, bootVars, trustVars
<1>1. ASSUME NEW g \in Generator, check_missing(g) PROVE KeyTraced'
  <2>1. generator' = [generator EXCEPT ![g] = "missing"] /\ generator[g] = "idle" /\ keyfile = NoKey
    BY <1>1 DEF check_missing
  <2>2. \A h \in Generator : generator'[h] = "wrote" <=> generator[h] = "wrote"
    BY <2>1 DEF TypeOK
  <2>3. Raced' <=> Raced
    BY <2>2 DEF Raced
  <2> QED BY <1>1, <2>1, <2>3 DEF check_missing, KeyTraced
<1>2. ASSUME NEW g \in Generator, generate_private_key_ed25519_pem_file(g) PROVE KeyTraced'
  <2>1. generator' = [generator EXCEPT ![g] = "wrote"] /\ generator[g] = "missing"
    BY <1>2 DEF generate_private_key_ed25519_pem_file
  <2>2. generator'[g] = "wrote" /\ \A h \in Generator : generator[h] = "wrote" => generator'[h] = "wrote" /\ h # g
    BY <2>1 DEF TypeOK
  <2>3. CASE \E h \in Generator : generator[h] = "wrote"
    <3>1. Raced' BY <2>2, <2>3 DEF Raced
    <3> QED BY <1>2, <2>2, <3>1 DEF generate_private_key_ed25519_pem_file, KeyTraced
  <2>4. CASE ~\E h \in Generator : generator[h] = "wrote"
    <3>1. keyfile = NoKey /\ ~Raced BY <2>1, <2>4 DEF KeyTraced, Raced
    <3>2. ({signing_key, identity_key, identity_signer, startup_key} \cup trusted_keys) \ {NoKey} = {}
      BY <3>1 DEF KeyTraced
    <3> QED BY <1>2, <2>2, <3>2 DEF generate_private_key_ed25519_pem_file, KeyTraced
  <2> QED BY <2>3, <2>4
<1> QED BY <1>1, <1>2 DEF KeyFile

\* What the node reads is what the file holds.
LEMMA StartTraced ==
  ASSUME TypeOK, KeyTraced, Boot \/ Startup
  PROVE  KeyTraced'
<1>1. UNCHANGED <<keyfile, generator>> /\ (Raced' <=> Raced)
  BY DEF Boot, Startup, read_signing_key, read_public_key, generate_from_config, spawn_startup, serving,
         startup_reads, add_trusted_key, fileVars, Raced
<1>2. CASE Boot
  BY <1>1, <1>2 DEF Boot, read_signing_key, read_public_key, generate_from_config, spawn_startup, serving,
                    trustVars, KeyTraced
<1>3. CASE Startup
  BY <1>1, <1>3 DEF Startup, startup_reads, add_trusted_key, bootVars, KeyTraced
<1> QED BY <1>2, <1>3

\* The trust set only grows, and the listeners are left alone.
LEMMA StartTrusts ==
  ASSUME MarksTrusted, ViewsTrusted, RunsVerified, KeyFile \/ Boot \/ Startup
  PROVE  MarksTrusted' /\ ViewsTrusted' /\ RunsVerified'
<1>1. trusted_keys \subseteq trusted_keys' /\ UNCHANGED <<peers, listenerVars>>
  BY DEF KeyFile, Generates, Boot, Startup, check_missing, generate_private_key_ed25519_pem_file,
         read_signing_key, read_public_key, generate_from_config, spawn_startup, serving, startup_reads,
         add_trusted_key, trustVars
<1>2. MarksTrusted'
  BY <1>1 DEF MarksTrusted, listenerVars
<1>3. ViewsTrusted'
  BY <1>1 DEF ViewsTrusted, listenerVars
<1>4. RunsVerified'
  BY <1>1 DEF RunsVerified, listenerVars
<1> QED BY <1>2, <1>3, <1>4

-----------------------------------------------------------------------------
(* The steps of a listener.                                                *)

\* Receiving a datagram keeps the invariant.
LEMMA RecvKeeps ==
  ASSUME RegistryInv, NEW l \in Listener, recv_from(l)
  PROVE  RegistryInv'
<1> USE DEF RegistryInv, recv_from, Goto, startVars, fileVars, bootVars, trustVars
<1>1. TypeOK' BY DEF TypeOK
<1>2. KeyTraced' BY DEF KeyTraced, Raced
<1>3. MarksTrusted' BY DEF MarksTrusted, TypeOK
<1>4. ViewsTrusted' BY DEF ViewsTrusted, TypeOK
<1>5. RunsVerified' BY DEF RunsVerified, TypeOK
<1> QED BY <1>1, <1>2, <1>3, <1>4, <1>5

\* note_peer, first half: what is about to be marked as trusted is trusted.
LEMMA NoteTrustKeeps ==
  ASSUME RegistryInv, NEW l \in Listener, note_peer_trust(l)
  PROVE  RegistryInv'
<1> USE DEF RegistryInv, note_peer_trust, Goto, startVars, fileVars, bootVars, trustVars
<1>1. TypeOK' BY DEF TypeOK
<1>2. KeyTraced' BY DEF KeyTraced, Raced
<1>3. MarksTrusted' BY DEF MarksTrusted, TypeOK
<1>4. ViewsTrusted' BY DEF ViewsTrusted, TypeOK
<1>5. RunsVerified' BY DEF RunsVerified, TypeOK
<1> QED BY <1>1, <1>2, <1>3, <1>4, <1>5

\* note_peer, second half: a mark may be old, but it was true when it was read and still is.
LEMMA NoteInsertKeeps ==
  ASSUME RegistryInv, NEW l \in Listener, note_peer_insert(l)
  PROVE  RegistryInv'
<1> USE DEF RegistryInv, note_peer_insert, Proceed, Goto, startVars, fileVars, bootVars, trustVars
<1>1. TypeOK' BY DEF TypeOK
<1>2. KeyTraced' BY DEF KeyTraced, Raced
<1>3. MarksTrusted' BY DEF MarksTrusted, TypeOK
<1>4. ViewsTrusted' BY DEF ViewsTrusted, TypeOK
<1>5. RunsVerified' BY DEF RunsVerified, TypeOK
<1> QED BY <1>1, <1>2, <1>3, <1>4, <1>5

\* begin_exec: only a verified request goes on.
LEMMA BeginExecKeeps ==
  ASSUME RegistryInv, NEW l \in Listener, begin_exec(l)
  PROVE  RegistryInv'
<1> USE DEF RegistryInv, begin_exec, startVars, fileVars, bootVars, trustVars
<1>1. \/ cur[l].verifies /\ pc' = [pc EXCEPT ![l] = "reports"] /\ cur' = cur
      \/ pc' = [pc EXCEPT ![l] = "recv"] /\ cur' = [cur EXCEPT ![l] = NoDatagram]
  BY DEF Proceed, Goto
<1>2. /\ pc' \in [Listener -> {"recv", "note", "insert", "begin", "reports", "keys", "running"}]
      /\ cur' \in [Listener -> Datagram \cup {NoDatagram}]
      /\ \A m \in Listener : m # l => pc'[m] = pc[m] /\ cur'[m] = cur[m]
      /\ pc'[l] = "recv" \/ (pc'[l] = "reports" /\ cur'[l] = cur[l] /\ cur[l].verifies)
  BY <1>1 DEF TypeOK
<1>3. PICK b \in BOOLEAN : b = (cur[l].verifies /\ cur[l].key \in trusted_keys)
  OBVIOUS
<1>4. /\ program_is_trusted' \in [Listener -> BOOLEAN]
      /\ \A m \in Listener : m # l => program_is_trusted'[m] = program_is_trusted[m]
      /\ program_is_trusted'[l] => cur[l].key \in trusted_keys
  <2>1. program_is_trusted' = [program_is_trusted EXCEPT ![l] = b]
    BY <1>3
  <2>2. program_is_trusted'[l] = b
    BY <2>1 DEF TypeOK
  <2> QED BY <1>3, <2>1, <2>2 DEF TypeOK
<1>5. TypeOK' BY <1>2, <1>4 DEF TypeOK
<1>6. KeyTraced' BY DEF KeyTraced, Raced
<1>7. MarksTrusted' BY <1>2 DEF MarksTrusted
<1>8. ViewsTrusted'
  <2> SUFFICES ASSUME NEW m \in Listener
               PROVE  /\ pc'[m] \in {"reports", "keys"} /\ program_is_trusted'[m] => cur'[m].key \in trusted_keys
                      /\ pc'[m] = "keys" => view[m].marked \subseteq trusted_keys
                      /\ pc'[m] = "running" =>
                           /\ view[m].marked \subseteq view[m].trusted_pubkeys
                           /\ program_is_trusted'[m] => cur'[m].key \in view[m].trusted_pubkeys
    BY DEF ViewsTrusted
  <2>1. CASE m # l BY <1>2, <1>4, <2>1 DEF ViewsTrusted
  <2>2. CASE m = l BY <1>2, <1>4, <2>2
  <2> QED BY <2>1, <2>2
<1>9. RunsVerified' BY <1>2 DEF RunsVerified
<1> QED BY <1>5, <1>6, <1>7, <1>8, <1>9

\* create_pid: the snapshot of the peers.
LEMMA PeerReportsKeeps ==
  ASSUME RegistryInv, NEW l \in Listener, peer_reports(l)
  PROVE  RegistryInv'
<1> USE DEF RegistryInv, peer_reports, Goto, startVars, fileVars, bootVars, trustVars
<1>1. TypeOK' BY DEF TypeOK, View, Marked
<1>2. KeyTraced' BY DEF KeyTraced, Raced
<1>3. MarksTrusted' BY DEF MarksTrusted, TypeOK
<1>4. Marked \subseteq trusted_keys BY DEF MarksTrusted, Marked
<1>5. ViewsTrusted' BY <1>4 DEF ViewsTrusted, TypeOK, View
<1>6. RunsVerified' BY DEF RunsVerified, TypeOK
<1> QED BY <1>1, <1>2, <1>3, <1>5, <1>6

\* create_pid: the snapshot of the trusted keys comes last, so it holds all that was told before.
LEMMA TrustedPubkeysKeeps ==
  ASSUME RegistryInv, NEW l \in Listener, trusted_pubkeys(l)
  PROVE  RegistryInv'
<1> USE DEF RegistryInv, trusted_pubkeys, Goto, startVars, fileVars, bootVars, trustVars
<1>1. TypeOK' BY DEF TypeOK, View
<1>2. KeyTraced' BY DEF KeyTraced, Raced
<1>3. MarksTrusted' BY DEF MarksTrusted, TypeOK
<1>4. ViewsTrusted' BY DEF ViewsTrusted, TypeOK, View
<1>5. RunsVerified' BY DEF RunsVerified, TypeOK
<1> QED BY <1>1, <1>2, <1>3, <1>4, <1>5

\* The end of a program.
LEMMA EndsKeeps ==
  ASSUME RegistryInv, NEW l \in Listener, ends(l)
  PROVE  RegistryInv'
<1> USE DEF RegistryInv, ends, Proceed, Goto, startVars, fileVars, bootVars, trustVars
<1>1. TypeOK' BY DEF TypeOK, View, Blank
<1>2. KeyTraced' BY DEF KeyTraced, Raced
<1>3. MarksTrusted' BY DEF MarksTrusted, TypeOK
<1>4. ViewsTrusted' BY DEF ViewsTrusted, TypeOK, View
<1>5. RunsVerified' BY DEF RunsVerified, TypeOK
<1> QED BY <1>1, <1>2, <1>3, <1>4, <1>5

-----------------------------------------------------------------------------
\* RegistryInv is inductive.
THEOREM RegistryInvariant == Spec => []RegistryInv
<1>1. Init => RegistryInv
  <2> SUFFICES ASSUME Init PROVE RegistryInv OBVIOUS
  <2>1. TypeOK BY DEF Init, TypeOK, Blank, View
  <2>2. KeyTraced BY DEF Init, KeyTraced
  <2>3. MarksTrusted /\ ViewsTrusted /\ RunsVerified
    BY DEF Init, MarksTrusted, ViewsTrusted, RunsVerified
  <2> QED BY <2>1, <2>2, <2>3 DEF RegistryInv
<1>2. RegistryInv /\ [Next]_vars => RegistryInv'
  <2> SUFFICES ASSUME RegistryInv, [Next]_vars PROVE RegistryInv' OBVIOUS
  <2>1. CASE KeyFile \/ Boot \/ Startup
    BY <2>1, FileTyped, FileTraced, StartTyped, StartTraced, StartTrusts DEF RegistryInv
  <2>2. ASSUME NEW l \in Listener, recv_from(l) PROVE RegistryInv'
    BY <2>2, RecvKeeps
  <2>3. ASSUME NEW l \in Listener, Handle(l) \/ ends(l) PROVE RegistryInv'
    BY <2>3, NoteTrustKeeps, NoteInsertKeeps, BeginExecKeeps, PeerReportsKeeps, TrustedPubkeysKeeps,
       EndsKeeps DEF Handle
  <2>4. CASE UNCHANGED vars
    BY <2>4 DEF RegistryInv, TypeOK, KeyTraced, Raced, MarksTrusted, ViewsTrusted, RunsVerified, vars,
                startVars, fileVars, bootVars, trustVars, listenerVars
  <2> QED BY <2>1, <2>2, <2>3, <2>4 DEF Next
<1> QED BY <1>1, <1>2, PTL DEF Spec

\* The state of the registry keeps its type; in particular the absence of a key is never trusted.
THEOREM RegistryTyped == Spec => []TypeOK
BY RegistryInvariant, PTL DEF RegistryInv

\* The node signs with, presents and trusts one key, whenever the key file appears and however many
\* processes offer to generate it, unless two of them find it missing and both write it.
THEOREM KeysAgree == Spec => []OneKey
<1>1. RegistryInv => OneKey
  BY DEF RegistryInv, KeyTraced, OneKey
<1> QED BY <1>1, RegistryInvariant, PTL

\* No program runs under an identity that did not verify.
THEOREM OnlyVerifiedRun == Spec => []RunsVerified
BY RegistryInvariant, PTL DEF RegistryInv

\* host::trusts_me and host::trusts_key agree about the caller of a program.
THEOREM TrustConsistent == Spec => []TrustAgrees
<1>1. RegistryInv => TrustAgrees
  BY DEF RegistryInv, ViewsTrusted, TrustAgrees, trusts_me, trusts_key
<1> QED BY <1>1, RegistryInvariant, PTL

\* host::peer_report and host::trusts_key agree about every peer.
THEOREM ReportsConsistent == Spec => []ReportsAgree
<1>1. RegistryInv => ReportsAgree
  BY DEF RegistryInv, ViewsTrusted, ReportsAgree, peer_report, trusts_key
<1> QED BY <1>1, RegistryInvariant, PTL

-----------------------------------------------------------------------------
(* The address that faces a caller.                                        *)

\* Two addresses have at least no bit in common: the number of common bits is a number.
LEMMA PrefixIsNat ==
  ASSUME NEW a \in Addr, NEW b \in Addr PROVE common_prefix_bits(a, b) \in 0 .. Width
<1> DEFINE T == {n \in 0 .. Width : a.bits \div 2 ^ (Width - n) = b.bits \div 2 ^ (Width - n)}
           p == 2 ^ Width
<1>1. p \in Int /\ a.bits \in 0 .. p - 1 /\ b.bits \in 0 .. p - 1
  BY WidthAssumption DEF Addr, Bits
<1>2. a.bits \div p = 0 /\ b.bits \div p = 0
  <2> HIDE DEF p
  <2> QED
    BY <1>1
<1>3. 0 \in T
  <2>1. Width - 0 = Width /\ 0 \in 0 .. Width
    BY WidthAssumption
  <2> QED
    BY <1>2, <2>1
<1>4. T \subseteq 0 .. Width /\ T # {} /\ Width \in Nat
  BY <1>3, WidthAssumption
<1>5. Max(T) \in T
  <2> HIDE DEF T
  <2> QED
    BY <1>4, MaxUpTo
<1> QED
  BY <1>4, <1>5 DEF common_prefix_bits

\* One more address: the best one stays the best.
LEMMA FacingKeeps ==
  ASSUME CallTypeOK, FacingIsClosest, NEW a \in Addr, local_addr_facing(a)
  PROVE  CallTypeOK' /\ FacingIsClosest'
<1> DEFINE best == call.best
           peer == call.peer
           addrs == call.addrs
<1>1. call \in [op : {"local_addr_facing"}, peer : Addr, addrs : Seq(Addr), best : Seq(Addr)] /\ Len(best) <= 1
  BY DEF CallTypeOK, local_addr_facing, NoCall
<1>2. /\ call' = [op |-> "local_addr_facing", peer |-> peer, addrs |-> Append(addrs, a),
                  best |-> better(best, a, peer)]
  BY <1>1 DEF local_addr_facing
<1>3. best \in Seq(Addr) /\ Len(best) <= 1
  BY <1>1
<1>4. better(best, a, peer) = best \/ better(best, a, peer) = <<a>>
  BY DEF better
<1>5. CallTypeOK'
  <2>1. better(best, a, peer) \in Seq(Addr) /\ Len(better(best, a, peer)) <= 1
    <3>1. <<a>> \in Seq(Addr) /\ Len(<<a>>) <= 1
      OBVIOUS
    <3> QED
      BY <1>3, <1>4, <3>1, Zenon
  <2> QED
    BY <1>1, <1>2, <2>1 DEF CallTypeOK
<1> DEFINE new == call'.best
           was == {x \in Range(addrs) : Eligible(x, peer)}
           is == {x \in Range(Append(addrs, a)) : Eligible(x, peer)}
<1>6. Range(Append(addrs, a)) = Range(addrs) \cup {a} /\ Range(addrs) \subseteq Addr
  <2>1. addrs \in Seq(Addr)
    BY <1>1
  <2>2. Range(addrs) = {addrs[i] : i \in 1 .. Len(addrs)}
    BY <2>1 DEF Range
  <2>3. /\ Append(addrs, a) \in Seq(Addr) /\ Len(Append(addrs, a)) = Len(addrs) + 1
        /\ \A i \in 1 .. Len(addrs) : Append(addrs, a)[i] = addrs[i]
        /\ Append(addrs, a)[Len(addrs) + 1] = a
    BY <2>1
  <2>4. Range(Append(addrs, a)) = {Append(addrs, a)[i] : i \in 1 .. Len(addrs) + 1}
    BY <2>3 DEF Range
  <2> HIDE DEF addrs
  <2> QED
    BY <2>1, <2>2, <2>3, <2>4
<1>7. is = was \cup (IF Eligible(a, peer) THEN {a} ELSE {})
  BY <1>6
<1>8. \A x \in Addr : common_prefix_bits(x, peer) \in Int
  BY <1>1, PrefixIsNat
<1>9. /\ best = <<>> => was = {}
      /\ best # <<>> => /\ best[1] \in was
                        /\ \A x \in was : common_prefix_bits(x, peer) <= common_prefix_bits(best[1], peer)
  BY <1>1 DEF FacingIsClosest
<1>10. /\ new = <<>> => is = {}
       /\ new # <<>> => /\ new[1] \in is
                        /\ \A x \in is : common_prefix_bits(x, peer) <= common_prefix_bits(new[1], peer)
  <2>1. new = better(best, a, peer)
    BY <1>2
  <2>2. was \subseteq Addr
    BY <1>6
  <2> HIDE DEF new, was, is, best, peer
  <2>3. CASE ~Eligible(a, peer)
    BY <1>7, <1>9, <2>1, <2>3 DEF better
  <2>4. CASE Eligible(a, peer) /\ best = <<>>
    <3>1. new = <<a>> /\ new # <<>> /\ new[1] = a /\ is = {a}
      BY <1>7, <1>9, <2>1, <2>4 DEF better
    <3> QED
      BY <1>8, <3>1
  <2>5. CASE Eligible(a, peer) /\ best # <<>> /\ common_prefix_bits(a, peer) > common_prefix_bits(best[1], peer)
    <3>1. new = <<a>> /\ new # <<>> /\ new[1] = a
      BY <2>1, <2>5 DEF better
    <3>2. is = was \cup {a}
      BY <1>7, <2>5
    <3> QED
      BY <1>8, <1>9, <2>2, <2>5, <3>1, <3>2
  <2>6. CASE Eligible(a, peer) /\ best # <<>> /\ ~(common_prefix_bits(a, peer) > common_prefix_bits(best[1], peer))
    <3>1. new = best
      BY <2>1, <2>6 DEF better
    <3>2. is = was \cup {a}
      BY <1>7, <2>6
    <3> QED
      BY <1>8, <1>9, <2>2, <2>6, <3>1, <3>2
  <2> QED
    BY <2>3, <2>4, <2>5, <2>6
<1>11. FacingIsClosest'
  <2>1. call'.peer = peer /\ call'.addrs = Append(addrs, a)
    BY <1>2
  <2> QED
    BY <1>10, <2>1 DEF FacingIsClosest
<1> QED
  BY <1>5, <1>11

-----------------------------------------------------------------------------
(* The merge of configuration files.                                       *)

\* What resolve_peer_addr finds for an entry that try_from accepts.
LEMMA EntryReached ==
  ASSUME NEW raw, try_from_ok(raw) PROVE Reached(raw)
<1> DEFINE h == hostname(raw)
           a == raw.ipv6
           b == raw.ipv4
           hosts == connect_hosts(raw)
           order == <<raw.hostname, a, b>>
           usable == {i \in 1 .. 3 : order[i] # NoAddr /\ (i = 1 => order[i] # "blank")}
<1>1. /\ order[1] = raw.hostname /\ order[2] = a /\ order[3] = b
      /\ \A i : i \in usable <=> ((i = 1 /\ h # NoAddr) \/ (i = 2 /\ a # NoAddr) \/ (i = 3 /\ b # NoAddr))
      /\ h # NoAddr => h = raw.hostname
  BY DEF hostname, NoAddr
<1>2. h # NoAddr \/ a # NoAddr \/ b # NoAddr
  BY DEF try_from_ok
<1>3. usable # {}
  BY <1>1, <1>2
<1>4. /\ Len(hosts) = (IF h = NoAddr THEN 0 ELSE 1) + (IF a = NoAddr THEN 0 ELSE 1) + (IF b = NoAddr THEN 0 ELSE 1)
      /\ h # NoAddr => hosts[1] = h
      /\ a # NoAddr => hosts[IF h = NoAddr THEN 1 ELSE 2] = a
      /\ b # NoAddr => hosts[Len(hosts)] = b
  <2> DEFINE S == {h, a, b}
             p(host) == IF host = NoAddr THEN <<>> ELSE <<host>>
             u == p(h)
             v == p(a)
             w == p(b)
  <2>1. hosts = (u \o v) \o w
    BY DEF connect_hosts
  <2>2. ASSUME NEW x \in S
        PROVE  p(x) \in Seq(S) /\ Len(p(x)) = (IF x = NoAddr THEN 0 ELSE 1) /\ (x # NoAddr => p(x)[1] = x)
    <3>1. CASE x = NoAddr BY <3>1
    <3>2. CASE x # NoAddr
      <4>1. p(x) = <<x>> BY <3>2
      <4> HIDE DEF S, p
      <4>2. <<x>> \in Seq(S) /\ Len(<<x>>) = 1 /\ <<x>>[1] = x OBVIOUS
      <4> QED BY <3>2, <4>1, <4>2
    <3> QED BY <3>1, <3>2
  <2>3. /\ u \in Seq(S) /\ Len(u) = (IF h = NoAddr THEN 0 ELSE 1) /\ (h # NoAddr => u[1] = h)
        /\ v \in Seq(S) /\ Len(v) = (IF a = NoAddr THEN 0 ELSE 1) /\ (a # NoAddr => v[1] = a)
        /\ w \in Seq(S) /\ Len(w) = (IF b = NoAddr THEN 0 ELSE 1) /\ (b # NoAddr => w[1] = b)
    BY <2>2
  <2> HIDE DEF u, v, w, S, hosts, h
  <2>4. PICK x \in Seq(S) : x = u \o v
    <3>1. u \o v \in Seq(S) BY <2>3
    <3> QED BY <3>1
  <2>5. /\ Len(x) = Len(u) + Len(v)
        /\ h # NoAddr => x[1] = h
        /\ a # NoAddr => x[IF h = NoAddr THEN 1 ELSE 2] = a
    BY <2>3, <2>4
  <2>6. hosts = x \o w
    BY <2>1, <2>4
  <2>7. /\ Len(hosts) = Len(x) + Len(w)
        /\ \A i \in 1 .. Len(x) : hosts[i] = x[i]
        /\ b # NoAddr => hosts[Len(x) + 1] = b
    <3>1. Len(x \o w) = Len(x) + Len(w) BY <2>3, ConcatProperties, Zenon
    <3>2. \A i \in 1 .. Len(x) + Len(w) : (x \o w)[i] = IF i <= Len(x) THEN x[i] ELSE w[i - Len(x)]
      BY <2>3, ConcatProperties, Zenon
    <3>3. Len(x) \in Nat /\ Len(w) \in Nat BY <2>3
    <3>4. b # NoAddr => (x \o w)[Len(x) + 1] = w[1] BY <2>3, <3>2, <3>3
    <3>5. \A i \in 1 .. Len(x) : (x \o w)[i] = x[i] BY <3>2, <3>3
    <3> QED BY <2>3, <2>6, <3>1, <3>4, <3>5
  <2> QED
    BY <2>3, <2>5, <2>7
<1> HIDE DEF hosts, usable, order, h
<1>5. ASSUME NEW resolving
      PROVE  LET good == {i \in usable : order[i] \in resolving}
             IN  IF good = {} THEN resolve_peer_addr(raw, resolving) = NoAddr
                 ELSE \E i \in good : resolve_peer_addr(raw, resolving) = order[i] /\ \A j \in good : i <= j
  <2> DEFINE found == {i \in 1 .. Len(hosts) : hosts[i] \in resolving}
             good == {i \in usable : order[i] \in resolving}
             addr == resolve_peer_addr(raw, resolving)
  <2>1. addr = IF found = {} THEN NoAddr ELSE hosts[Min(found)]
    BY DEF resolve_peer_addr, hosts
  <2>2. Len(hosts) \in Nat
    BY <1>2, <1>4
  <2>3. CASE found = {}
    <3>1. addr = NoAddr
      BY <2>1, <2>3
    <3>2. \A i \in 1 .. Len(hosts) : hosts[i] \notin resolving
      BY <2>3
    <3>3. good = {}
      BY <1>1, <1>2, <1>4, <3>2
    <3> QED
      BY <3>1, <3>3
  <2>4. CASE found # {}
    <3>1. found \subseteq Nat
      BY <2>2
    <3>2. PICK m \in found : m = Min(found) /\ \A j \in found : m <= j
      <4>1. \E x \in found : \A y \in found : x <= y
        BY <2>4, <3>1, LeastOfNat
      <4> HIDE DEF found
      <4> QED
        BY <4>1 DEF Min
    <3>3. addr = hosts[m]
      BY <2>1, <2>4, <3>2
    <3>4. m \in 1 .. Len(hosts) /\ hosts[m] \in resolving /\ \A j \in 1 .. Len(hosts) : j < m => hosts[j] \notin resolving
      <4>1. m \in 1 .. Len(hosts) /\ hosts[m] \in resolving
        BY <3>2
      <4>2. ASSUME NEW j \in 1 .. Len(hosts), j < m, hosts[j] \in resolving PROVE FALSE
        <5>1. j \in found BY <4>2
        <5>2. m <= j BY <3>2, <5>1
        <5> QED BY <2>2, <4>1, <4>2, <5>2
      <4> QED BY <4>1, <4>2
    <3>5. \E i \in good : hosts[m] = order[i] /\ \A j \in good : i <= j
      BY <1>1, <1>2, <1>4, <3>4
    <3> QED
      BY <3>3, <3>5
  <2> QED
    BY <2>3, <2>4
<1> QED
  BY <1>3, <1>5 DEF Reached, usable, order

\* The parts of a file.
LEMMA FileParts ==
  ASSUME NEW f \in File
  PROVE  IsConfig(f) /\ Range(f.peer) \subseteq PeerEntry
<1>1. /\ f = [readable |-> f.readable, scalars |-> f.scalars, trusted |-> f.trusted, peer |-> f.peer]
      /\ f.trusted \in Seq(Range(f.trusted)) /\ f.peer \in Seq(Range(f.peer))
  BY FileAssumption
<1>2. Range(f.trusted) \subseteq TrustedKey /\ Range(f.peer) \subseteq PeerEntry
  BY DEF TrustedKey, PeerEntry
<1>3. f.trusted \in Seq(TrustedKey) /\ f.peer \in Seq(PeerEntry)
  BY <1>1, <1>2
<1> QED
  BY <1>1, <1>2, <1>3 DEF IsConfig

\* The peers of a file that parses are reached.
LEMMA GoodFileReached ==
  ASSUME NEW f \in File, Parses(f), NEW raw \in Range(f.peer) PROVE Reached(raw)
<1>1. f.peer \in Seq(PeerEntry)
  BY FileParts DEF IsConfig
<1>2. PICK i \in 1 .. Len(f.peer) : raw = f.peer[i]
  BY <1>1, RangeEquality
<1> QED
  BY <1>2, EntryReached DEF Parses

\* The first file is the merge of itself.
LEMMA MergeOfOne ==
  ASSUME NEW f \in File, Parses(f) PROVE IsMergeOf(f, <<f>>)
<1> DEFINE files == <<f>>
<1>1. Len(files) = 1 /\ files[1] = f /\ 1 .. 1 = {1}
  OBVIOUS
<1> HIDE DEF files
<1>2. Good(files) = {1}
  BY <1>1 DEF Good
<1>3. DOMAIN f.scalars = UNION {DOMAIN files[i].scalars : i \in Good(files)}
  BY <1>1, <1>2
<1>4. ASSUME NEW s \in DOMAIN f.scalars PROVE f.scalars[s] = files[Max(Sets(files, s))].scalars[s]
  <2>1. Sets(files, s) = {1}
    BY <1>1, <1>2 DEF Sets
  <2>2. Max({1}) = 1
    BY MaxIs
  <2> QED
    BY <1>1, <2>1, <2>2
<1>5. f.peer = FlattenSeq(PeerLists(files))
  <2>1. PeerLists(files) \in Seq({f.peer}) /\ Len(PeerLists(files)) = 1 /\ PeerLists(files)[1] = f.peer
    BY <1>1 DEF PeerLists
  <2> QED
    BY <2>1, FlattenOne
<1>6. f.trusted = FlattenSeq(TrustedLists(files))
  <2>1. TrustedLists(files) \in Seq({f.trusted}) /\ Len(TrustedLists(files)) = 1 /\ TrustedLists(files)[1] = f.trusted
    BY <1>1 DEF TrustedLists
  <2> QED
    BY <2>1, FlattenOne
<1> QED
  BY <1>3, <1>4, <1>5, <1>6 DEF IsMergeOf, files

\* One more file, where n files are merged: the files so far keep their places.
LEMMA FilesByIndex ==
  ASSUME NEW files \in Seq(File), NEW f \in File
  PROVE  /\ Append(files, f) \in Seq(File) /\ Len(Append(files, f)) = Len(files) + 1 /\ Len(files) \in Nat
         /\ \A i \in 1 .. Len(files) : Append(files, f)[i] = files[i]
         /\ Append(files, f)[Len(files) + 1] = f
         /\ Good(Append(files, f)) = Good(files) \cup (IF Parses(f) THEN {Len(files) + 1} ELSE {})
         /\ Good(files) \subseteq 1 .. Len(files)
<1> DEFINE t == Append(files, f)
<1>1. /\ t \in Seq(File) /\ Len(t) = Len(files) + 1 /\ Len(files) \in Nat
      /\ \A i \in 1 .. Len(files) : t[i] = files[i]
      /\ t[Len(files) + 1] = f
  OBVIOUS
<1> HIDE DEF t
<1>2. 1 .. Len(files) + 1 = (1 .. Len(files)) \cup {Len(files) + 1}
  BY <1>1
<1>3. Good(t) = Good(files) \cup (IF Parses(f) THEN {Len(files) + 1} ELSE {})
  BY <1>1, <1>2 DEF Good
<1>4. Good(files) \subseteq 1 .. Len(files)
  BY DEF Good
<1> QED
  BY <1>1, <1>3, <1>4 DEF t

\* The last good file that mentions a setting.
LEMMA SettersMax ==
  ASSUME NEW files \in Seq(File), NEW s, s \in UNION {DOMAIN files[i].scalars : i \in Good(files)}
  PROVE  Max(Sets(files, s)) \in Good(files)
<1>1. Sets(files, s) # {} /\ Sets(files, s) \subseteq Good(files)
  BY DEF Sets
<1>2. Good(files) \subseteq 0 .. Len(files) /\ Len(files) \in Nat
  BY DEF Good
<1>3. Sets(files, s) \subseteq 0 .. Len(files)
  BY <1>1, <1>2
<1>4. Max(Sets(files, s)) \in Sets(files, s)
  BY <1>1, <1>2, <1>3, MaxUpTo
<1> QED
  BY <1>1, <1>4

\* A list grows by that of the file, or by nothing if the file does not parse.
LEMMA ListsGrow ==
  ASSUME NEW files \in Seq(File), files # <<>>, NEW f \in File
  PROVE  /\ FlattenSeq(PeerLists(Append(files, f))) =
              FlattenSeq(PeerLists(files)) \o (IF Parses(f) THEN f.peer ELSE <<>>)
         /\ FlattenSeq(TrustedLists(Append(files, f))) =
              FlattenSeq(TrustedLists(files)) \o (IF Parses(f) THEN f.trusted ELSE <<>>)
<1> DEFINE t == Append(files, f)
           n == Len(files)
<1>1. t \in Seq(File) /\ n \in Nat \ {0} /\ Len(t) = n + 1 /\ (\A i \in 1 .. n : t[i] = files[i]) /\ t[n + 1] = f
  BY FilesByIndex
<1>2. \A i \in 1 .. n : files[i] \in File
  OBVIOUS
<1> HIDE DEF t, n
<1>3. /\ PeerLists(files) = [i \in 1 .. n |-> IF Parses(files[i]) THEN files[i].peer ELSE <<>>]
      /\ TrustedLists(files) = [i \in 1 .. n |-> IF Parses(files[i]) THEN files[i].trusted ELSE <<>>]
  BY DEF PeerLists, TrustedLists, n
<1>4. /\ PeerLists(t) = [i \in 1 .. n + 1 |-> IF Parses(t[i]) THEN t[i].peer ELSE <<>>]
      /\ TrustedLists(t) = [i \in 1 .. n + 1 |-> IF Parses(t[i]) THEN t[i].trusted ELSE <<>>]
  BY <1>1 DEF PeerLists, TrustedLists
<1> DEFINE P == {g.peer : g \in File} \cup {<<>>}
           Q == {g.trusted : g \in File} \cup {<<>>}
<1>5. /\ PeerLists(files) \in Seq(P) /\ Len(PeerLists(files)) = n
      /\ TrustedLists(files) \in Seq(Q) /\ Len(TrustedLists(files)) = n
  BY <1>1, <1>2, <1>3
<1>6. \A i \in 1 .. n + 1 : t[i] \in File
  BY <1>1
<1>7. /\ PeerLists(t) \in Seq(P) /\ Len(PeerLists(t)) = n + 1
      /\ TrustedLists(t) \in Seq(Q) /\ Len(TrustedLists(t)) = n + 1
  <2> DEFINE m == n + 1
  <2>1. m \in Nat
    BY <1>1
  <2> HIDE DEF m
  <2>2. PeerLists(t) \in Seq(P) /\ Len(PeerLists(t)) = m
    BY <1>4, <1>6, <2>1 DEF m
  <2>3. TrustedLists(t) \in Seq(Q) /\ Len(TrustedLists(t)) = m
    BY <1>4, <1>6, <2>1 DEF m
  <2> QED
    BY <2>2, <2>3 DEF m
<1>8. /\ \A i \in 1 .. n : PeerLists(files)[i] = PeerLists(t)[i]
      /\ PeerLists(t)[n + 1] = IF Parses(f) THEN f.peer ELSE <<>>
  BY <1>1, <1>3, <1>4
<1>9. /\ \A i \in 1 .. n : TrustedLists(files)[i] = TrustedLists(t)[i]
      /\ TrustedLists(t)[n + 1] = IF Parses(f) THEN f.trusted ELSE <<>>
  BY <1>1, <1>3, <1>4
<1> HIDE DEF P, Q
<1>10. FlattenSeq(PeerLists(t)) = FlattenSeq(PeerLists(files)) \o PeerLists(t)[n + 1]
  <2> DEFINE u == PeerLists(files)
             v == PeerLists(t)
  <2>1. u \in Seq(P) /\ v \in Seq(P) /\ Len(u) = n /\ Len(v) = n + 1 /\ \A i \in 1 .. n : u[i] = v[i]
    BY <1>5, <1>7, <1>8
  <2> HIDE DEF u, v
  <2>2. FlattenSeq(v) = FlattenSeq(u) \o v[Len(v)]
    BY <1>1, <2>1, FlattenMore
  <2> QED
    BY <2>1, <2>2 DEF u, v
<1>11. FlattenSeq(TrustedLists(t)) = FlattenSeq(TrustedLists(files)) \o TrustedLists(t)[n + 1]
  <2> DEFINE u == TrustedLists(files)
             v == TrustedLists(t)
  <2>1. u \in Seq(Q) /\ v \in Seq(Q) /\ Len(u) = n /\ Len(v) = n + 1 /\ \A i \in 1 .. n : u[i] = v[i]
    BY <1>5, <1>7, <1>9
  <2> HIDE DEF u, v
  <2>2. FlattenSeq(v) = FlattenSeq(u) \o v[Len(v)]
    BY <1>1, <2>1, FlattenMore
  <2> QED
    BY <2>1, <2>2 DEF u, v
<1> QED
  BY <1>8, <1>9, <1>10, <1>11 DEF t

\* One override file over a merge gives the merge with that file.
LEMMA MergeOfMore ==
  ASSUME NEW files \in Seq(File), files # <<>>, NEW f \in File, NEW conf, IsConfig(conf), IsMergeOf(conf, files)
  PROVE  /\ IsConfig(process_config_override_file(conf, f))
         /\ IsMergeOf(process_config_override_file(conf, f), Append(files, f))
<1> DEFINE t == Append(files, f)
           n == Len(files)
           new == process_config_override_file(conf, f)
<1>1. /\ t \in Seq(File) /\ n \in Nat /\ Len(t) = n + 1
      /\ (\A i \in 1 .. n : t[i] = files[i]) /\ t[n + 1] = f
      /\ Good(t) = Good(files) \cup (IF Parses(f) THEN {n + 1} ELSE {})
      /\ Good(files) \subseteq 1 .. n
  BY FilesByIndex
<1>2. /\ FlattenSeq(PeerLists(t)) = conf.peer \o (IF Parses(f) THEN f.peer ELSE <<>>)
      /\ FlattenSeq(TrustedLists(t)) = conf.trusted \o (IF Parses(f) THEN f.trusted ELSE <<>>)
  BY ListsGrow DEF IsMergeOf
<1>3. IsConfig(f)
  BY FileParts
<1> HIDE DEF t, n
<1>4. \A i \in Good(files) : t[i] = files[i]
  BY <1>1
<1>5. CASE ~Parses(f)
  <2>1. new = conf
    BY <1>5 DEF process_config_override_file
  <2>2. Good(t) = Good(files)
    BY <1>1, <1>5
  <2>3. \A s : Sets(t, s) = Sets(files, s)
    BY <1>4, <2>2 DEF Sets
  <2>4. DOMAIN conf.scalars = UNION {DOMAIN t[i].scalars : i \in Good(t)}
    BY <1>4, <2>2 DEF IsMergeOf
  <2>5. ASSUME NEW s \in DOMAIN conf.scalars PROVE conf.scalars[s] = t[Max(Sets(t, s))].scalars[s]
    <3>1. Max(Sets(files, s)) \in Good(files)
      BY <1>1, SettersMax DEF IsMergeOf, n
    <3> QED
      BY <1>4, <2>3, <3>1 DEF IsMergeOf
  <2>6. conf.peer = FlattenSeq(PeerLists(t)) /\ conf.trusted = FlattenSeq(TrustedLists(t))
    BY <1>2, <1>5, ConcatEmptySeq DEF IsConfig
  <2>7. IsMergeOf(conf, t)
    BY <2>4, <2>5, <2>6 DEF IsMergeOf
  <2> QED
    BY <2>1, <2>7 DEF t
<1>6. CASE Parses(f)
  <2> DEFINE sc == fancy_omerge(conf.scalars, f.scalars)
  <2>1. new = [readable |-> conf.readable, scalars |-> sc, trusted |-> conf.trusted \o f.trusted,
               peer |-> conf.peer \o f.peer]
    BY <1>6 DEF process_config_override_file, fancy_omerge_vec, IsConfig
  <2> HIDE DEF new
  <2>2. IsConfig(new)
    <3>1. conf.trusted \o f.trusted \in Seq(TrustedKey)
      BY <1>3 DEF IsConfig
    <3>2. conf.peer \o f.peer \in Seq(PeerEntry)
      BY <1>3 DEF IsConfig
    <3> QED
      BY <2>1, <3>1, <3>2 DEF IsConfig
  <2>3. Good(t) = Good(files) \cup {n + 1}
    BY <1>1, <1>6
  <2>4. /\ DOMAIN sc = DOMAIN conf.scalars \cup DOMAIN f.scalars
        /\ \A s \in DOMAIN sc : sc[s] = IF s \in DOMAIN f.scalars THEN f.scalars[s] ELSE conf.scalars[s]
    BY DEF fancy_omerge
  <2> HIDE DEF sc
  <2>5. DOMAIN new.scalars = UNION {DOMAIN t[i].scalars : i \in Good(t)}
    <3>1. UNION {DOMAIN t[i].scalars : i \in Good(t)} =
            (UNION {DOMAIN t[i].scalars : i \in Good(files)}) \cup DOMAIN t[n + 1].scalars
      BY <2>3
    <3>2. UNION {DOMAIN t[i].scalars : i \in Good(files)} = DOMAIN conf.scalars
      BY <1>4 DEF IsMergeOf
    <3> QED
      BY <1>1, <2>1, <2>4, <3>1, <3>2
  <2>6. ASSUME NEW s \in DOMAIN sc PROVE sc[s] = t[Max(Sets(t, s))].scalars[s]
    <3>1. CASE s \in DOMAIN f.scalars
      <4>1. n + 1 \in Sets(t, s) /\ Sets(t, s) \subseteq Int /\ \A i \in Sets(t, s) : i <= n + 1
        BY <1>1, <2>3, <3>1 DEF Sets
      <4>2. Max(Sets(t, s)) = n + 1
        BY <4>1, MaxIs
      <4> QED
        BY <1>1, <2>4, <3>1, <4>2
    <3>2. CASE s \notin DOMAIN f.scalars
      <4>1. s \in DOMAIN conf.scalars
        BY <2>4, <3>2
      <4>2. Sets(t, s) = Sets(files, s)
        BY <1>1, <1>4, <2>3, <3>2 DEF Sets
      <4>3. Max(Sets(files, s)) \in Good(files)
        BY <4>1, SettersMax DEF IsMergeOf
      <4>4. conf.scalars[s] = files[Max(Sets(files, s))].scalars[s]
        BY <4>1 DEF IsMergeOf
      <4> QED
        BY <1>4, <2>4, <3>2, <4>2, <4>3, <4>4
    <3> QED
      BY <3>1, <3>2
  <2>7. new.peer = FlattenSeq(PeerLists(t)) /\ new.trusted = FlattenSeq(TrustedLists(t))
    BY <1>2, <1>6, <2>1
  <2>8. new.scalars = sc
    BY <2>1
  <2>9. IsMergeOf(new, t)
    BY <2>5, <2>6, <2>7, <2>8 DEF IsMergeOf
  <2> QED
    BY <2>2, <2>9 DEF t, new
<1> QED
  BY <1>5, <1>6

\* Reading a file of the includes.
LEMMA MergeKeeps ==
  ASSUME CallTypeOK, MergeTakesWholeFiles, NEW f \in File, read_from_file(f)
  PROVE  CallTypeOK' /\ MergeTakesWholeFiles'
<1> DEFINE files == call.files
           conf == call.config
           new == process_config_override_file(conf, f)
<1>1. /\ call = [op |-> "read_from_file", files |-> files, config |-> conf]
      /\ files \in Seq(File) /\ files # <<>> /\ IsConfig(conf)
  BY DEF CallTypeOK, read_from_file, NoCall
<1>2. call' = [op |-> "read_from_file", files |-> Append(files, f), config |-> new]
  BY <1>1 DEF read_from_file
<1>3. IsMergeOf(conf, files) /\ \A raw \in Range(conf.peer) : Reached(raw)
  BY <1>1 DEF MergeTakesWholeFiles
<1>4. IsConfig(new) /\ IsMergeOf(new, Append(files, f))
  BY <1>1, <1>3, MergeOfMore
<1>5. ASSUME NEW raw \in Range(new.peer) PROVE Reached(raw)
  <2>1. CASE ~Parses(f)
    BY <1>3, <1>5, <2>1 DEF process_config_override_file
  <2>2. CASE Parses(f)
    <3>1. new.peer = conf.peer \o f.peer
      BY <1>1, <2>2 DEF process_config_override_file, fancy_omerge_vec, IsConfig
    <3>2. conf.peer \in Seq(PeerEntry) /\ f.peer \in Seq(PeerEntry)
      BY <1>1, FileParts DEF IsConfig
    <3>3. Range(new.peer) = Range(conf.peer) \cup Range(f.peer)
      BY <3>1, <3>2, RangeConcatenation
    <3> QED
      BY <1>3, <1>5, <2>2, <3>3, GoodFileReached
  <2> QED
    BY <2>1, <2>2
<1>6. Append(files, f) \in Seq(File) /\ Append(files, f) # <<>>
  BY <1>1
<1>7. CallTypeOK'
  <2>1. call'.op = "read_from_file" /\ call'.files = Append(files, f) /\ call'.config = new
    BY <1>2
  <2> HIDE DEF files, conf, new
  <2> QED
    BY <1>2, <1>4, <1>6, <2>1 DEF CallTypeOK
<1>8. MergeTakesWholeFiles'
  <2>1. call'.files = Append(files, f) /\ call'.config = new
    BY <1>2
  <2> HIDE DEF files, conf, new
  <2> QED
    BY <1>4, <1>5, <2>1 DEF MergeTakesWholeFiles
<1> QED
  BY <1>7, <1>8

-----------------------------------------------------------------------------
(* The node.                                                               *)

CallInv == CallTypeOK /\ MergeTakesWholeFiles /\ FacingIsClosest

\* A call starts with one file that parses, or with no address looked at.
LEMMA CallStarts == CallInit => CallInv
<1>1. ASSUME NEW base \in File, open_file(base) PROVE CallInv
  <2>1. call = [op |-> "read_from_file", files |-> <<base>>, config |-> base] /\ Parses(base)
    BY <1>1 DEF open_file
  <2>2. call.op = "read_from_file" /\ call.files = <<base>> /\ call.config = base
    BY <2>1
  <2>3. <<base>> \in Seq(File) /\ <<base>> # <<>> /\ IsConfig(base)
    BY FileParts
  <2>4. CallTypeOK
    BY <2>1, <2>2, <2>3 DEF CallTypeOK
  <2>5. MergeTakesWholeFiles
    BY <2>1, <2>2, MergeOfOne, GoodFileReached DEF MergeTakesWholeFiles
  <2> QED
    BY <2>2, <2>4, <2>5 DEF CallInv, FacingIsClosest
<1>2. ASSUME NEW peer \in Addr,
             call = [op |-> "local_addr_facing", peer |-> peer, addrs |-> <<>>, best |-> <<>>]
      PROVE  CallInv
  <2>1. CallTypeOK
    BY <1>2 DEF CallTypeOK
  <2>2. Range(<<>>) = {}
    BY DEF Range
  <2>3. MergeTakesWholeFiles /\ FacingIsClosest
    BY <1>2, <2>2 DEF MergeTakesWholeFiles, FacingIsClosest
  <2> QED
    BY <2>1, <2>3 DEF CallInv
<1> QED
  BY <1>1, <1>2 DEF CallInit

\* A step of a call, or of the node when the call is over, keeps what the call has so far right.
LEMMA CallKeeps ==
  ASSUME CallInv, [NodeNext]_<<call, vars>> PROVE CallInv'
<1>1. ASSUME NEW f \in File, read_from_file(f) PROVE CallInv'
  <2>1. CallTypeOK' /\ MergeTakesWholeFiles'
    BY <1>1, MergeKeeps DEF CallInv
  <2>2. call'.op = "read_from_file"
    BY <1>1 DEF read_from_file, CallInv, CallTypeOK, NoCall
  <2> QED
    BY <2>1, <2>2 DEF CallInv, FacingIsClosest
<1>2. ASSUME NEW a \in Addr, local_addr_facing(a) PROVE CallInv'
  <2>1. CallTypeOK' /\ FacingIsClosest'
    BY <1>2, FacingKeeps DEF CallInv
  <2>2. call'.op = "local_addr_facing"
    BY <1>2 DEF local_addr_facing, CallInv, CallTypeOK, NoCall
  <2> QED
    BY <2>1, <2>2 DEF CallInv, MergeTakesWholeFiles
<1>3. CASE return
  BY <1>3 DEF return, CallInv, CallTypeOK, MergeTakesWholeFiles, FacingIsClosest, NoCall
<1>4. CASE UNCHANGED call
  BY <1>4 DEF CallInv, CallTypeOK, MergeTakesWholeFiles, FacingIsClosest
<1> QED
  BY <1>1, <1>2, <1>3, <1>4 DEF NodeNext, CallNext

\* What a call has so far is right, after any files and any addresses.
THEOREM CallInvariant == NodeSpec => []CallInv
<1>1. NodeInit => CallInv
  BY CallStarts DEF NodeInit
<1>2. CallInv /\ [NodeNext]_<<call, vars>> => CallInv'
  BY CallKeeps
<1> QED
  BY <1>1, <1>2, PTL DEF NodeSpec

\* Config::read_from_file takes from each file all or nothing, whatever the files say: the last good
\* file wins a setting, the lists keep the order of the files, and every peer entry can be reached.
THEOREM MergesWholeFiles == NodeSpec => []MergeTakesWholeFiles
BY CallInvariant, PTL DEF CallInv

\* local_addr_facing finds an address that no other one beats, for any width and any addresses.
THEOREM FacesClosest == NodeSpec => []FacingIsClosest
BY CallInvariant, PTL DEF CallInv

\* What the node does to its registry is what the registry's specification allows.
THEOREM NodeImplementsRegistry == NodeSpec => Spec
<1>1. NodeInit => Init
  BY DEF NodeInit
<1>2. [NodeNext]_<<call, vars>> => [Next]_vars
  BY DEF NodeNext
<1> QED
  BY <1>1, <1>2, PTL DEF NodeSpec, Spec

\* So the node has one key, unless two processes wrote it, and each of its programs one view of trust.
THEOREM NodeTrust == NodeSpec => [](OneKey /\ TrustAgrees /\ ReportsAgree)
BY NodeImplementsRegistry, KeysAgree, TrustConsistent, ReportsConsistent, PTL
=============================================================================
