----------------------------- MODULE QpTinyStack -----------------------------
(***************************************************************************)
(* qp_stack_parse: the layers of one captured frame, parsed one after the  *)
(* other into a result structure that the caller keeps and uses again for  *)
(* the next frame.                                                         *)
(*                                                                         *)
(* A frame is its length and the fields the parser branches on.  Fields    *)
(* beyond the length are what the memory after the frame holds: the parser *)
(* reads the type (and, for a length field, the identification) before it  *)
(* knows that the frame is long enough.  Addresses and ports are           *)
(* represented by the place in the frame they are taken from.              *)
(***************************************************************************)
EXTENDS Naturals

CONSTANTS
  Frame,   \* the frames: [len, typeNlen, identify, snapType, proto]
  Link,    \* the link types the caller passes; DLT_EN10MB is 1
  Null     \* the null pointer

ASSUME StackAssumption ==
  /\ Frame \subseteq [len : Nat, typeNlen : Nat, identify : Nat, snapType : Nat, proto : Nat]
  /\ Null \notin Nat /\ Null \notin Frame

VARIABLES
  frame, link, level,   \* the arguments of the call
  i,                    \* the layer the loop is at, Idle between two calls
  result,               \* the caller's result structure
  ret                   \* what the last call returned

vars == <<frame, link, level, i, result, ret>>

DLT_EN10MB == 1
QP_SUCCESS == "QP_SUCCESS"
QP_ERROR == "QP_ERROR"

QP_STACK_LEVEL_DATALINK == 1
QP_STACK_LEVEL_TRANSMIT == 3

QP_STACK_PROTO_UNKNOWN == "UNKNOWN"

Idle == 3

\* sizeof the packed header structures.
SizeOf == [ethernet_II |-> 14, novell |-> 14, ethernet_802 |-> 17,
           snap |-> 22, ipv4 |-> 20, tcp |-> 20, udp |-> 8]

\* qp_stack_datalink_get_type: the network protocols the table names.
Ethertypes ==
  {<<2048, "IP">>, <<2054, "ARP">>, <<32821, "RARP">>, <<32823, "NOVELL_IPX">>,
   <<33011, "AARP">>, <<33024, "ESPS">>, <<33079, "IPX">>, <<33100, "SNMP">>,
   <<34525, "IPV6">>, <<34827, "PPP">>, <<34828, "GSMP">>, <<34887, "S_MPLS">>,
   <<34888, "G_MPLS">>, <<34915, "D_PPPOE">>, <<34916, "S_PPPOE">>,
   <<35003, "LWAPP">>, <<35020, "LLDP">>, <<36488, "EAPOL">>,
   <<36864, "LOOKBACK">>, <<37120, "VLAN1">>, <<37376, "VLAN2">>}

qp_stack_datalink_get_type(type) ==
  IF \E e \in Ethertypes : e[1] = type
  THEN (CHOOSE e \in Ethertypes : e[1] = type)[2]
  ELSE QP_STACK_PROTO_UNKNOWN

\* qp_stack_network_get_type: the transport protocols the table names.
IpProtos ==
  {<<1, "ICMP">>, <<2, "IGMP">>, <<3, "GGP">>, <<4, "IPENCAP">>, <<5, "ST">>,
   <<6, "TCP">>, <<8, "EGP">>, <<9, "IGP">>, <<12, "PUP">>, <<17, "UDP">>}

qp_stack_network_get_type(type) ==
  IF \E p \in IpProtos : p[1] = type
  THEN (CHOOSE p \in IpProtos : p[1] = type)[2]
  ELSE QP_STACK_PROTO_UNKNOWN

\* The result after memset.
Cleared ==
  [l2_type |-> QP_STACK_PROTO_UNKNOWN, l3_type |-> QP_STACK_PROTO_UNKNOWN,
   l4_type |-> QP_STACK_PROTO_UNKNOWN, l2_offset |-> 0, l3_offset |-> 0,
   l4_offset |-> 0, data_offset |-> 0, sport |-> Null, dport |-> Null,
   smac |-> Null, dmac |-> Null, src |-> Null, dst |-> Null]

-----------------------------------------------------------------------------
(* The datalink layer.  A parser gives the result and the value returned.  *)

\* What the four Ethernet parsers share: the offset of the next layer is set
\* before the length is tested, the rest only after it; l2_type is known by
\* the time the addresses are taken.
Ethernet(f, r, size, l2, l3) ==
  LET placed == [r EXCEPT !.l3_offset = r.l2_offset + size]
  IN IF f.len < placed.l3_offset
     THEN [result |-> placed, type |-> QP_STACK_PROTO_UNKNOWN]
     ELSE [result |-> [placed EXCEPT !.dmac = r.l2_offset,
                                     !.smac = r.l2_offset + 6,
                                     !.l2_type = l2,
                                     !.l3_type = l3,
                                     !.data_offset = placed.l3_offset],
           type |-> l2]

qp_stack_datalink_ethernet_II(f, r) ==
  Ethernet(f, r, SizeOf.ethernet_II, "ETHERNET_II", qp_stack_datalink_get_type(f.typeNlen))

qp_stack_datalink_ethernet_novell(f, r) ==
  Ethernet(f, r, SizeOf.novell, "ETHERNET_NOVELL", "IPX")

\* The type found by the table is overwritten at once ("disable").
qp_stack_datalink_ethernet_802(f, r) ==
  Ethernet(f, r, SizeOf.ethernet_802, "ETHERNET_802", QP_STACK_PROTO_UNKNOWN)

qp_stack_datalink_ethernet_snap(f, r) ==
  Ethernet(f, r, SizeOf.snap, "ETHERNET_SNAP", qp_stack_datalink_get_type(f.snapType))

\* Mutant: the identification is looked at whatever the type field says.
qp_stack_datalink_parse_NoLengthTest(f, lk, r) ==
  CASE lk # DLT_EN10MB -> [result |-> r, type |-> r.l2_type]
    [] lk = DLT_EN10MB /\ f.identify = 65535 ->
         qp_stack_datalink_ethernet_novell(f, [r EXCEPT !.l2_type = "ETHERNET_NOVELL"])
    [] OTHER -> qp_stack_datalink_ethernet_II(f, r)

\* A type field of at most 0x05dc is a length: the two bytes behind it tell
\* the flavour, which is entered in the result before the frame's length is
\* tested.  Other link types are not parsed.
qp_stack_datalink_parse(f, lk, r) ==
  CASE lk # DLT_EN10MB -> [result |-> r, type |-> r.l2_type]
    [] lk = DLT_EN10MB /\ f.typeNlen > 1500 -> qp_stack_datalink_ethernet_II(f, r)
    [] lk = DLT_EN10MB /\ f.typeNlen <= 1500 /\ f.identify = 65535 ->
         qp_stack_datalink_ethernet_novell(f, [r EXCEPT !.l2_type = "ETHERNET_NOVELL"])
    [] lk = DLT_EN10MB /\ f.typeNlen <= 1500 /\ f.identify = 43690 ->
         qp_stack_datalink_ethernet_snap(f, [r EXCEPT !.l2_type = "ETHERNET_SNAP"])
    [] OTHER ->
         qp_stack_datalink_ethernet_802(f, [r EXCEPT !.l2_type = "ETHERNET_802"])

-----------------------------------------------------------------------------
(* The network layer. *)

\* Both parsers leave room for an IPv4 header.  srcAt and dstAt are where the
\* addresses lie in the header.
Ip(f, r, l4, srcAt, dstAt) ==
  LET placed == [r EXCEPT !.l4_offset = r.l3_offset + SizeOf.ipv4]
  IN IF f.len < placed.l4_offset
     THEN [placed EXCEPT !.l3_type = QP_STACK_PROTO_UNKNOWN]
     ELSE [placed EXCEPT !.l4_type = l4, !.src = r.l3_offset + srcAt,
                         !.dst = r.l3_offset + dstAt,
                         !.data_offset = placed.l4_offset]

qp_stack_network_ipv4(f, r) == Ip(f, r, qp_stack_network_get_type(f.proto), 12, 16)

qp_stack_network_ipv6(f, r) == Ip(f, r, QP_STACK_PROTO_UNKNOWN, 8, 24)

\* Of the network protocols the table names only two are parsed.
qp_stack_network_parse(f, r) ==
  LET parsed == CASE r.l3_type = "IP"   -> qp_stack_network_ipv4(f, r)
                  [] r.l3_type = "IPV6" -> qp_stack_network_ipv6(f, r)
                  [] OTHER -> [r EXCEPT !.l3_type = QP_STACK_PROTO_UNKNOWN]
  IN [result |-> parsed, type |-> parsed.l3_type]

-----------------------------------------------------------------------------
(* The transport layer. *)

\* data_offset moves past the header before the length is tested.
Transport(f, r, size) ==
  LET placed == [r EXCEPT !.data_offset = r.l4_offset + size]
  IN IF f.len < placed.data_offset
     THEN [placed EXCEPT !.l4_type = QP_STACK_PROTO_UNKNOWN]
     ELSE [placed EXCEPT !.sport = r.l4_offset, !.dport = r.l4_offset + 2]

\* Mutant: the length is not tested.
qp_stack_transmit_tcp_Unchecked(f, r) ==
  [r EXCEPT !.data_offset = r.l4_offset + SizeOf.tcp,
            !.sport = r.l4_offset, !.dport = r.l4_offset + 2]

qp_stack_transmit_tcp(f, r) == Transport(f, r, SizeOf.tcp)

qp_stack_transmit_udp(f, r) == Transport(f, r, SizeOf.udp)

qp_stack_transmit_parse(f, r) ==
  LET parsed == CASE r.l4_type = "TCP" -> qp_stack_transmit_tcp(f, r)
                  [] r.l4_type = "UDP" -> qp_stack_transmit_udp(f, r)
                  [] OTHER -> [r EXCEPT !.l4_type = QP_STACK_PROTO_UNKNOWN]
  IN [result |-> parsed, type |-> parsed.l4_type]

-----------------------------------------------------------------------------
(* qp_stack_parse *)

Init ==
  /\ frame = Null
  /\ link = DLT_EN10MB
  /\ level = QP_STACK_LEVEL_DATALINK
  /\ i = Idle
  /\ result = Cleared
  /\ ret = QP_ERROR

\* The level is brought into range and the result is cleared, whatever an
\* earlier frame left in it.
Call ==
  /\ i = Idle
  /\ \E f \in Frame, lk \in Link, lv \in 0..4 :
       /\ frame' = f
       /\ link' = lk
       /\ level' = IF lv > QP_STACK_LEVEL_TRANSMIT THEN QP_STACK_LEVEL_TRANSMIT
                   ELSE IF lv < QP_STACK_LEVEL_DATALINK THEN QP_STACK_LEVEL_DATALINK
                   ELSE lv
  /\ result' = Cleared
  /\ i' = 0
  /\ UNCHANGED ret

\* No frame is passed: the early return leaves the result of the last call.
CallNull ==
  /\ i = Idle
  /\ frame' = Null
  /\ ret' = QP_ERROR
  /\ UNCHANGED <<link, level, i, result>>

Parsed ==
  CASE i = 0 -> qp_stack_datalink_parse(frame, link, result)
    [] i = 1 -> qp_stack_network_parse(frame, result)
    [] i = 2 -> qp_stack_transmit_parse(frame, result)

\* One turn of the loop.  An unknown layer ends it: with success if it is the
\* last layer asked for, with an error otherwise.
Layer ==
  /\ i # Idle
  /\ result' = Parsed.result
  /\ \/ /\ Parsed.type = QP_STACK_PROTO_UNKNOWN
        /\ ret' = IF i = level - 1 THEN QP_SUCCESS ELSE QP_ERROR
        /\ i' = Idle
     \/ /\ Parsed.type # QP_STACK_PROTO_UNKNOWN
        /\ i < level - 1
        /\ i' = i + 1
        /\ UNCHANGED ret
     \/ /\ Parsed.type # QP_STACK_PROTO_UNKNOWN
        /\ i = level - 1
        /\ ret' = QP_SUCCESS
        /\ i' = Idle
  /\ UNCHANGED <<frame, link, level>>

Next == Call \/ CallNull \/ Layer

Spec == Init /\ [][Next]_vars

-----------------------------------------------------------------------------
(* What a frame really holds, said of the whole frame at once. *)

L2Size == IF frame.typeNlen > 1500 \/ frame.identify = 65535 THEN 14
          ELSE IF frame.identify = 43690 THEN 22 ELSE 17

NetworkType == IF frame.typeNlen > 1500 THEN frame.typeNlen
               ELSE IF frame.identify = 43690 THEN frame.snapType ELSE 0

HasDatalink == link = DLT_EN10MB /\ frame.len >= L2Size

\* The network headers that are parsed: IPv4 with 20 bytes, IPv6 with 40.
HasNetwork == /\ HasDatalink
              /\ \/ NetworkType = 2048 /\ frame.len >= L2Size + 20
                 \/ NetworkType = 34525 /\ frame.len >= L2Size + 40

\* An IPv6 header of which the frame holds no more than 20 to 39 bytes.
CutIpv6 == /\ HasDatalink
           /\ NetworkType = 34525
           /\ frame.len \in (L2Size + 20)..(L2Size + 39)

HasTransport == /\ HasNetwork
                /\ NetworkType = 2048
                /\ \/ frame.proto = 6 /\ frame.len >= L2Size + 40
                   \/ frame.proto = 17 /\ frame.len >= L2Size + 28

\* A call that was given a frame has returned.
Done == i = Idle /\ frame # Null

(***************************************************************************)
(* What a finished qp_stack_parse reports, down to the level asked for,    *)
(* depends on this frame only, whatever the frames parsed earlier into the *)
(* same structure left there: MAC addresses and ports are given if and     *)
(* only if their header is complete, and IP addresses if and only if it is *)
(* or it is an IPv6 header cut at 20 to 39 bytes.  That exception is real: *)
(* qp_stack_network_ipv6 asks for the length of an IPv4 header, and the    *)
(* addresses of such a frame lie in part behind its end.  The call fails   *)
(* if and only if a layer above the last one asked for is not found.       *)
(***************************************************************************)
LayersExact ==
  Done =>
    /\ (result.smac # Null) <=> HasDatalink
    /\ (result.src # Null) <=> (level >= 2 /\ (HasNetwork \/ CutIpv6))
    /\ (result.sport # Null) <=> (level >= 3 /\ HasTransport)
    /\ (ret = QP_ERROR) <=> \/ level >= 2 /\ ~HasDatalink
                            \/ level >= 3 /\ ~(HasNetwork \/ CutIpv6)

(***************************************************************************)
(* Whatever the length of the frame, what the result of qp_stack_parse     *)
(* points at lies inside it, and so does the start of the payload when the *)
(* last layer asked for was recognised.  (Not claimed of IPv6 addresses:   *)
(* only 20 of the 40 bytes of that header are known to be there.)          *)
(***************************************************************************)
PlacesInsideFrame ==
  Done =>
    /\ result.smac # Null => result.smac + 6 <= frame.len /\ result.dmac + 6 <= result.smac
    /\ result.src # Null /\ result.l3_type = "IP" =>
         result.src + 4 <= result.dst /\ result.dst + 4 <= frame.len
    /\ result.sport # Null => result.dport + 2 <= frame.len
    /\ <<result.l2_type, result.l3_type, result.l4_type>>[level] # QP_STACK_PROTO_UNKNOWN
         => result.data_offset <= frame.len
=============================================================================
