---------------------------- MODULE PacketFilter ----------------------------
(***************************************************************************)
(* netfilter_helper (helpers/netfilterhelper.cpp): the callback of the     *)
(* packet queue, what it remembers, and the rows it stores through         *)
(* mini_dal (data/minidal.cpp) in a database that outlives the process.    *)
(*                                                                         *)
(* The callback handles a packet at a time.  A step is what lies between   *)
(* two statements sent to the database: each of them may fail, in which    *)
(* case the data layer catches the error and the callback goes on, and the *)
(* process may be restarted in front of each.  The table STUNLOG numbers   *)
(* its rows with AUTOINCREMENT.                                            *)
(*                                                                         *)
(* Left out: the caches of get_asn and get_aso, whose answers are printed, *)
(* the tables that no row refers to, and the clustering of old packets,    *)
(* whose result is printed.  Durations are zero or not.  The packet and    *)
(* the life of a row say where it comes from; the tables do not hold them. *)
(***************************************************************************)
EXTENDS Integers, Sequences, Functions

CONSTANTS
  Packets,            \* records: proto, inbound, ip, known, src, valid, atts
  Addresses,          \* those that are neither link-local nor site-local
  Ports,
  MaxPackets, MaxLives          \* bounds on packets and on restarts

(* An attribute is [type, length, port].  A packet is "rpc", "stun" (UDP)  *)
(* or "other"; known says that one of its ports is a STUN port, and valid  *)
(* that its length and its cookie are.                                     *)
ASSUME FilterAssumption ==
  /\ MaxPackets \in Nat /\ MaxLives \in Nat \ {0}
  /\ \A p \in Packets : /\ p.inbound \in BOOLEAN /\ p.known \in BOOLEAN
                        /\ p.valid \in BOOLEAN /\ p.src \in Ports
                        /\ p.proto \in {"rpc", "stun", "other"}
                        /\ \A i \in DOMAIN p.atts : p.atts[i].port \in Ports

VARIABLES
  life, serial,       \* restarts, packets received
  pc, packet, next,   \* the callback, its packet, the attribute it is at
  answer,             \* the latest verdict
  last,               \* last_rowid_map[STUNLOG]
  port_mapped,        \* keys of port_mapped_addresses
  ip_throughput,      \* per address seen: counter, first_rtt
  stunlog,            \* STUNLOG: its rows in the order of their ids
  addresses,          \* stun_address_attribute
  attributes,         \* stun_attribute
  ip_rtt_coll         \* ip_rtt_coll: per address, its rows

memory == <<last, port_mapped, ip_throughput>>
tables == <<stunlog, addresses, attributes, ip_rtt_coll>>
filterVars == <<life, serial, pc, packet, next, answer, memory, tables>>
----------------------------------------------------------------------------
IpUdp == 28           \* where the message starts in an IPv4 packet
StunHeader == 20      \* STUN_HDR_LEN

\* The first n attributes: four bytes and a value padded to words of four.
Bytes(atts, n) ==
  SumFunctionOnSet([j \in DOMAIN atts |-> 4 + 4 * ((atts[j].length + 3) \div 4)], 1..n)

(* Whether the loop of print_stun gets to attribute i.  Its tests compare  *)
(* the length of the attributes with an offset that also counts the header *)
(* of the message, and behind an attribute those of IP and UDP as well.    *)
Parses(p, i) ==
  LET length == Bytes(p.atts, Len(p.atts))
      offset == IpUdp + StunHeader + Bytes(p.atts, i - 1)
  IN /\ i \in DOMAIN p.atts
     /\ offset - IpUdp < length
     /\ i > 1 => offset + 8 <= length
     /\ \A j \in 1..i : p.atts[j].length > 0

\* INSEPECTED_PORT: a STUN port, or a source port learnt from a mapped address.
Inspected(p) == p.known \/ p.src \in port_mapped

FilterInit ==
  /\ life = 1 /\ serial = 0 /\ pc = "idle" /\ packet = (CHOOSE p \in Packets : TRUE) /\ next = 1
  /\ answer = "none" /\ last = 0 /\ port_mapped = {}
  /\ ip_throughput = [a \in {} |-> 0]
  /\ stunlog = <<>> /\ addresses = {} /\ attributes = {}
  /\ ip_rtt_coll = [a \in Addresses |-> <<>>]

(* The start of dissect_packet: a message of the monitor itself goes       *)
(* through uncounted, an inspected one is parsed.                          *)
Receive(p) ==
  /\ pc = "idle" /\ serial < MaxPackets
  /\ serial' = serial + 1 /\ packet' = p /\ next' = 1
  /\ pc' = CASE p.proto = "rpc" -> "idle"
             [] p.proto = "stun" /\ Inspected(p) -> "attribute"
             [] OTHER -> "traffic"
  /\ answer' = IF p.proto = "rpc" THEN "accept" ELSE answer
  /\ UNCHANGED <<life, memory, tables>>

\* Mutant: the id of the latest entry, which is another packet's.
AddressRowOfLatest == [packet |-> serial, life |-> life, log_id |-> last]

\* insert_address_attribute: the entry is not there yet, its id is guessed.
AddressRow == [packet |-> serial, life |-> life, log_id |-> last + 1]

(* An attribute of the message.  An address is stored at once, and that of *)
(* MAPPED_ADDRESS makes its port one to inspect.                           *)
ParseAttribute ==
  /\ pc = "attribute" /\ Parses(packet, next)
  /\ next' = next + 1
  /\ LET att == packet.atts[next]
     IN IF att.type = "plain" THEN UNCHANGED <<addresses, port_mapped>>
        ELSE /\ \E stored \in BOOLEAN :
                  addresses' = IF stored THEN addresses \cup {AddressRow} ELSE addresses
             /\ port_mapped' = IF att.type = "mapped" THEN port_mapped \cup {att.port}
                               ELSE port_mapped
  /\ UNCHANGED <<life, serial, pc, packet, answer, last, ip_throughput, stunlog,
                 attributes, ip_rtt_coll>>

\* Mutant: the id is not read back.
LogForgetsRow ==
  /\ pc = "attribute" /\ ~Parses(packet, next)
  /\ pc' = "attributes"
  /\ \E stored \in BOOLEAN :
       /\ stunlog' = IF stored THEN Append(stunlog, [packet |-> serial, life |-> life]) ELSE stunlog
       /\ last' = IF stored /\ last = 0 THEN Len(stunlog) + 1 ELSE last
  /\ UNCHANGED <<life, serial, packet, next, answer, port_mapped, ip_throughput,
                 addresses, attributes, ip_rtt_coll>>

\* log_stun: the entry, and its id if it was stored.
LogStun ==
  /\ pc = "attribute" /\ ~Parses(packet, next)
  /\ pc' = "attributes"
  /\ \E stored \in BOOLEAN :
       /\ stunlog' = IF stored THEN Append(stunlog, [packet |-> serial, life |-> life]) ELSE stunlog
       /\ last' = IF stored THEN Len(stunlog) + 1 ELSE last
  /\ UNCHANGED <<life, serial, packet, next, answer, port_mapped, ip_throughput,
                 addresses, attributes, ip_rtt_coll>>

(* insert_attribute for every different header of the message.  Those in   *)
(* front of a restart are some of them, like those that did not fail.      *)
InsertAttributes ==
  /\ pc = "attributes"
  /\ \E stored \in SUBSET {packet.atts[i].type : i \in 1..(next - 1)} :
       attributes' = attributes \cup
                       {[packet |-> serial, life |-> life, type |-> t, log_id |-> last] : t \in stored}
  /\ pc' = "traffic"
  /\ UNCHANGED <<life, serial, packet, next, answer, memory, stunlog, addresses, ip_rtt_coll>>

\* The callback: malformed packets are dropped on their way in.
Verdict ==
  IF packet.proto = "stun" /\ Inspected(packet) /\ ~packet.valid /\ packet.inbound
  THEN "drop" ELSE "accept"

\* The first packet of an address, or one of an address that is not counted.
CountFirst ==
  /\ pc = "traffic" /\ packet.ip \notin DOMAIN ip_throughput
  /\ ip_throughput' =
       IF packet.ip \in Addresses
       THEN [a \in DOMAIN ip_throughput \cup {packet.ip} |->
               IF a = packet.ip THEN [counter |-> 1, first_rtt |-> 0] ELSE ip_throughput[a]]
       ELSE ip_throughput
  /\ pc' = "idle" /\ answer' = Verdict
  /\ UNCHANGED <<life, serial, packet, next, last, port_mapped, tables>>

\* Mutant: the round trip of the packet is stored, not the first one.
CountInsertsAgain(duration) ==
  /\ pc = "traffic" /\ packet.ip \in DOMAIN ip_throughput
  /\ LET ip == packet.ip
         seen == ip_throughput[ip]
         entry == [counter |-> seen.counter + 1, first_rtt |-> duration]
     IN /\ ip_throughput' = [ip_throughput EXCEPT ![ip] = entry]
        /\ \E stored \in BOOLEAN :
             ip_rtt_coll' = IF stored
               THEN [ip_rtt_coll EXCEPT ![ip] =
                       Append(@, [life |-> life, first_rtt |-> duration, counter |-> entry.counter])]
               ELSE ip_rtt_coll
  /\ pc' = "idle" /\ answer' = Verdict
  /\ UNCHANGED <<life, serial, packet, next, last, port_mapped, stunlog, addresses, attributes>>

(* A further packet of an address.  "insert on first rtt only once", then  *)
(* update every row of the address.                                        *)
Count(duration) ==
  /\ pc = "traffic" /\ packet.ip \in DOMAIN ip_throughput
  /\ LET ip == packet.ip
         seen == ip_throughput[ip]
         first == seen.first_rtt = 0
         entry == [counter |-> seen.counter + 1,
                   first_rtt |-> IF first THEN duration ELSE seen.first_rtt]
     IN /\ ip_throughput' = [ip_throughput EXCEPT ![ip] = entry]
        /\ \E stored \in BOOLEAN :
             ip_rtt_coll' =
               IF ~stored THEN ip_rtt_coll
               ELSE IF first
               THEN [ip_rtt_coll EXCEPT ![ip] =
                       Append(@, [life |-> life, first_rtt |-> duration, counter |-> entry.counter])]
               ELSE [ip_rtt_coll EXCEPT ![ip] =
                       [i \in DOMAIN @ |-> [@[i] EXCEPT !.counter = entry.counter]]]
  /\ pc' = "idle" /\ answer' = Verdict
  /\ UNCHANGED <<life, serial, packet, next, last, port_mapped, stunlog, addresses, attributes>>

\* The process is started again.  init_last_rowids exists and is not called.
Restart ==
  /\ life < MaxLives
  /\ life' = life + 1 /\ pc' = "idle"
  /\ last' = 0 /\ port_mapped' = {} /\ ip_throughput' = [a \in {} |-> 0]
  /\ UNCHANGED <<serial, packet, next, answer, tables>>

Callback ==
  \/ ParseAttribute \/ LogStun \/ InsertAttributes
  \/ CountFirst \/ \E duration \in 0..1 : Count(duration)

FilterNext == Callback \/ Restart \/ \E p \in Packets : Receive(p)

FilterSpec == FilterInit /\ [][FilterNext]_filterVars
----------------------------------------------------------------------------
(* An attribute refers to the entry of its own packet, if that was stored. *)
(* If the statement failed, the id that is remembered is stale: it refers  *)
(* to the latest entry its process has stored before, which is another     *)
(* packet's, and to none (0) only where there is no such entry.            *)
AttributesOfPacket ==
  \A a \in attributes :
    LET before == {i \in DOMAIN stunlog : stunlog[i].life = a.life /\ stunlog[i].packet <= a.packet}
    IN /\ \A i \in DOMAIN stunlog : stunlog[i].packet = a.packet => a.log_id = i
       /\ a.log_id \in before \cup {0} /\ \A i \in before : i <= a.log_id

(* An address is stored in front of the entry of its packet, and refers to *)
(* the next entry that is stored: that of its packet or, if the statement  *)
(* failed, that of a later one.  Only where its process had not stored any *)
(* yet, it refers to the very first entry of the database.                 *)
AddressesOfPacket ==
  \A a \in addresses, i \in DOMAIN stunlog :
    stunlog[i].packet >= a.packet /\ (\A j \in 1..(i - 1) : stunlog[j].packet < a.packet) =>
      a.log_id = IF \E j \in 1..(i - 1) : stunlog[j].life = a.life THEN i ELSE 1

\* "insert on first rtt only once": an address has a second row from the same
\* process only where the first round trip was measured as zero.
RttOncePerLife ==
  \A ip \in Addresses : \A i, j \in DOMAIN ip_rtt_coll[ip] :
    i < j /\ ip_rtt_coll[ip][i].life = ip_rtt_coll[ip][j].life => ip_rtt_coll[ip][i].first_rtt = 0

\* A first round trip that is known and was not stored, as the insertion failed, is
\* never stored by this process, which only updates rows from then on.
NotStored(ip) ==
  /\ ip \in DOMAIN ip_throughput /\ ip_throughput[ip].first_rtt # 0
  /\ \A i \in DOMAIN ip_rtt_coll[ip] :
       ip_rtt_coll[ip][i].life = life => ip_rtt_coll[ip][i].first_rtt = 0
LostRttStaysLost ==
  [][\A ip \in Addresses : NotStored(ip) /\ life' = life => NotStored(ip)']_filterVars
=============================================================================
