------------------------------- MODULE Config -------------------------------
(***************************************************************************)
(* What a node makes of its configuration: the merge of the files          *)
(* (src/src/config.rs), the address a [[peer]] entry stands for and the    *)
(* address of its own that faces a caller (src/src/net_utils.rs).          *)
(*                                                                         *)
(* A behaviour is one call, of Config::read_from_file or of                *)
(* local_addr_facing, a step one pass of its loop.  The invariants compare *)
(* what the loop has so far with a definition of it that says nothing of   *)
(* how it is computed.                                                     *)
(*                                                                         *)
(* A file sets some of the scalar settings (the identity and the limits)   *)
(* and adds to some of the lists.  A setting that it does not mention is   *)
(* not in the domain of its scalars.                                       *)
(***************************************************************************)
EXTENDS Integers, SequencesExt

CONSTANTS
  File,        \* the files that may be found
  MaxFiles,    \* bound of the model: override files
  MaxAddrs,    \* bound of the model: addresses of the host
  Width        \* bits of an address (32 or 128 in the code)

\* A file has these parts, and its lists are sequences.
ASSUME FileAssumption ==
  \A f \in File :
    /\ f = [readable |-> f.readable, scalars |-> f.scalars, trusted |-> f.trusted, peer |-> f.peer]
    /\ f.trusted \in Seq(Range(f.trusted)) /\ f.peer \in Seq(Range(f.peer))
ASSUME MaxFilesAssumption == MaxFiles \in Nat
ASSUME MaxAddrsAssumption == MaxAddrs \in Nat
ASSUME WidthAssumption == Width \in Nat \ {0}

VARIABLE call  \* the call in progress: its input so far and its result so far

NoAddr == "none"
NoCall == [op |-> "none"]

-----------------------------------------------------------------------------
(* [[peer]] entries and their addresses.                                   *)

\* A blank hostname counts as none.
hostname(raw) == IF raw.hostname = "blank" THEN NoAddr ELSE raw.hostname

\* At least one of the three must be set, or the file that holds the entry does not parse.
try_from_ok(raw) == hostname(raw) # NoAddr \/ raw.ipv6 # NoAddr \/ raw.ipv4 # NoAddr

\* What is set is pushed, in the order of preference.
connect_hosts(raw) ==
  LET pushed(host) == IF host = NoAddr THEN <<>> ELSE <<host>>
  IN  pushed(hostname(raw)) \o pushed(raw.ipv6) \o pushed(raw.ipv4)

\* The first host that the socket layer resolves.
resolve_peer_addr(raw, resolving) ==
  LET hosts == connect_hosts(raw)
      found == {i \in 1 .. Len(hosts) : hosts[i] \in resolving}
  IN  IF found = {} THEN NoAddr ELSE hosts[Min(found)]

-----------------------------------------------------------------------------
(* The merge of the files.                                                 *)

\* The value of the override file f2 wins over that of the configuration so far.
fancy_omerge(f1, f2) ==
  [s \in DOMAIN f1 \cup DOMAIN f2 |-> IF s \in DOMAIN f2 THEN f2[s] ELSE f1[s]]

fancy_omerge_vec(f1, f2) == f1 \o f2

\* Can the file be read and parsed?
Parses(f) == f.readable /\ \A i \in 1 .. Len(f.peer) : try_from_ok(f.peer[i])

\* Seeded faults.
KeepGoodPart(config, f) ==
  [config EXCEPT !.scalars = fancy_omerge(@, f.scalars), !.trusted = fancy_omerge_vec(@, f.trusted),
                 !.peer = IF Parses(f) THEN fancy_omerge_vec(@, f.peer) ELSE @]

\* One override file over the configuration so far: all of it, or nothing if it does not parse.  Its
\* own includes are dropped.
process_config_override_file(config, f) ==
  IF ~Parses(f) THEN config
  ELSE [config EXCEPT !.scalars = fancy_omerge(@, f.scalars),
                      !.trusted = fancy_omerge_vec(@, f.trusted),
                      !.peer = fancy_omerge_vec(@, f.peer)]

\* The file of the command line is the start, ...
open_file(base) ==
  Parses(base) /\ call = [op |-> "read_from_file", files |-> <<base>>, config |-> base]

\* ... then come the files that its includes name, in order.
read_from_file(f) ==
  /\ call.op = "read_from_file" /\ Len(call.files) <= MaxFiles
  /\ call' = [call EXCEPT !.files = Append(@, f), !.config = process_config_override_file(@, f)]

-----------------------------------------------------------------------------
(* The address of this host that faces a caller.                           *)

Bits == 0 .. 2 ^ Width - 1
Addr == [family : {"v4", "v6"}, bits : Bits, loopback : BOOLEAN]
is_unspecified(a) == a.bits = 0

\* How many leading bits are the same.
common_prefix_bits(a, b) ==
  Max({n \in 0 .. Width : a.bits \div 2 ^ (Width - n) = b.bits \div 2 ^ (Width - n)})

Eligible(a, peer) ==
  a.family = peer.family /\ ~is_unspecified(a) /\ (a.loopback => peer.loopback)

\* Seeded fault.
LastFits(best, a, peer) == IF Eligible(a, peer) THEN <<a>> ELSE best

\* The best address so far, if there is one, or the one that is looked at.
better(best, a, peer) ==
  IF /\ Eligible(a, peer)
     /\ best = <<>> \/ common_prefix_bits(a, peer) > common_prefix_bits(best[1], peer)
  THEN <<a>> ELSE best

\* Each address of each interface is looked at.
local_addr_facing(a) ==
  /\ call.op = "local_addr_facing" /\ Len(call.addrs) < MaxAddrs
  /\ call' = [call EXCEPT !.addrs = Append(@, a), !.best = better(@, a, call.peer)]

-----------------------------------------------------------------------------
CallInit ==
  \/ \E base \in File : open_file(base)
  \/ \E peer \in Addr : call = [op |-> "local_addr_facing", peer |-> peer, addrs |-> <<>>, best |-> <<>>]

CallNext ==
  \/ \E f \in File : read_from_file(f)
  \/ \E a \in Addr : local_addr_facing(a)

-----------------------------------------------------------------------------
(* Properties                                                              *)

TrustedKey == UNION {Range(f.trusted) : f \in File}
PeerEntry == UNION {Range(f.peer) : f \in File}

IsConfig(conf) ==
  /\ conf = [readable |-> conf.readable, scalars |-> conf.scalars, trusted |-> conf.trusted, peer |-> conf.peer]
  /\ conf.trusted \in Seq(TrustedKey) /\ conf.peer \in Seq(PeerEntry)

\* The call has its type.
CallTypeOK ==
  \/ call = NoCall
  \/ /\ call.op = "read_from_file"
     /\ call = [op |-> "read_from_file", files |-> call.files, config |-> call.config]
     /\ call.files \in Seq(File) \ {<<>>} /\ IsConfig(call.config)
  \/ /\ call \in [op : {"local_addr_facing"}, peer : Addr, addrs : Seq(Addr), best : Seq(Addr)]
     /\ Len(call.best) <= 1

\* A peer entry has an address, and the peer is reached at the first that resolves of its hostname,
\* its ipv6 and its ipv4 address; a blank hostname is none.
Reached(raw) ==
  LET order == <<raw.hostname, raw.ipv6, raw.ipv4>>
      usable == {i \in 1 .. 3 : order[i] # NoAddr /\ (i = 1 => order[i] # "blank")}
  IN  /\ usable # {}
      /\ \A resolving \in SUBSET {raw.hostname, raw.ipv6, raw.ipv4} :
           LET addr == resolve_peer_addr(raw, resolving)
               good == {i \in usable : order[i] \in resolving}
           IN  IF good = {} THEN addr = NoAddr
               ELSE \E i \in good : addr = order[i] /\ \A j \in good : i <= j

\* The files that parse, and those of them that mention a setting.
Good(files) == {i \in 1 .. Len(files) : Parses(files[i])}
Sets(files, s) == {i \in Good(files) : s \in DOMAIN files[i].scalars}

\* conf is what the files say: a setting has the value that the last good file gave it, and the lists
\* are those of the good files, in order.
PeerLists(files) == [i \in 1 .. Len(files) |-> IF Parses(files[i]) THEN files[i].peer ELSE <<>>]
TrustedLists(files) == [i \in 1 .. Len(files) |-> IF Parses(files[i]) THEN files[i].trusted ELSE <<>>]
IsMergeOf(conf, files) ==
  /\ DOMAIN conf.scalars = UNION {DOMAIN files[i].scalars : i \in Good(files)}
  /\ \A s \in DOMAIN conf.scalars : conf.scalars[s] = files[Max(Sets(files, s))].scalars[s]
  /\ conf.peer = FlattenSeq(PeerLists(files)) /\ conf.trusted = FlattenSeq(TrustedLists(files))

\* A setting has the value that the last file gave it which mentions it and parses, and the lists
\* hold what these files list, in order.  A file that does not parse, be it for one bad peer entry,
\* changes nothing; so every peer of the result is reached at the first of its addresses that
\* resolves, and nothing is ever sent to a blank hostname.
MergeTakesWholeFiles ==
  call.op = "read_from_file" =>
    /\ IsMergeOf(call.config, call.files)
    /\ \A raw \in Range(call.config.peer) : Reached(raw)

\* The address reported to a caller is an address of this host that no other one beats, and there is
\* one if any is eligible.
FacingIsClosest ==
  call.op = "local_addr_facing" =>
    LET best == call.best
        peer == call.peer
        eligible == {a \in Range(call.addrs) : Eligible(a, peer)}
    IN  IF best = <<>> THEN eligible = {}
        ELSE /\ best[1] \in eligible
             /\ \A a \in eligible : common_prefix_bits(a, peer) <= common_prefix_bits(best[1], peer)
=============================================================================
