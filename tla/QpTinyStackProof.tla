-------------------------- MODULE QpTinyStackProof --------------------------
(***************************************************************************)
(* Proofs about qp_stack_parse, for frames of every length and with every  *)
(* value in the fields the parser looks at.                                *)
(***************************************************************************)
EXTENDS QpTinyStack, TLAPS

\* The names of protocols.
Proto == {e[2] : e \in Ethertypes} \cup {p[2] : p \in IpProtos} \cup
         {"UNKNOWN", "ETHERNET_II", "ETHERNET_NOVELL", "ETHERNET_802", "ETHERNET_SNAP", "IPX"}

Layers == [l2_type : Proto, l3_type : Proto, l4_type : Proto,
           l2_offset : Nat, l3_offset : Nat, l4_offset : Nat, data_offset : Nat,
           sport : Nat \cup {Null}, dport : Nat \cup {Null},
           smac : Nat \cup {Null}, dmac : Nat \cup {Null},
           src : Nat \cup {Null}, dst : Nat \cup {Null}]

Types ==
  /\ result \in Layers
  /\ level \in 1..3 /\ i \in 0..3
  /\ frame \in Frame \cup {Null} /\ (i # Idle => frame \in Frame)

\* What the result r says before a layer is known, and of the layers known.
NoDatalink(r) == r.smac = Null /\ r.data_offset = 0
NoNetwork(r) == r.src = Null /\ r.l4_type = QP_STACK_PROTO_UNKNOWN
NoTransport(r) == r.sport = Null

Datalink(r) ==
  /\ r.dmac = 0 /\ r.smac = 6
  /\ r.l3_offset = L2Size /\ r.data_offset = L2Size
  /\ (r.l3_type = "IP") <=> (NetworkType = 2048)
  /\ (r.l3_type = "IPV6") <=> (NetworkType = 34525)

Network(r) ==
  /\ r.dmac = 0 /\ r.smac = 6
  /\ r.l4_offset = L2Size + 20 /\ r.data_offset = L2Size + 20
  /\ r.src # Null /\ r.l3_type \in {"IP", "IPV6"}
  /\ r.l3_type = "IP" => r.src = L2Size + 12 /\ r.dst = L2Size + 16
  /\ (r.l4_type = "TCP") <=> (NetworkType = 2048 /\ frame.proto = 6)
  /\ (r.l4_type = "UDP") <=> (NetworkType = 2048 /\ frame.proto = 17)

\* What the parser takes for a network header: 20 bytes of either kind.
NetworkFound == /\ HasDatalink
                /\ NetworkType \in {2048, 34525}
                /\ frame.len >= L2Size + 20

TransportFound == /\ NetworkFound
                  /\ NetworkType = 2048
                  /\ \/ frame.proto = 6 /\ frame.len >= L2Size + 40
                     \/ frame.proto = 17 /\ frame.len >= L2Size + 28

\* LayersExact in these terms.
LayersFound ==
  Done =>
    /\ (result.smac # Null) <=> HasDatalink
    /\ (result.src # Null) <=> (level >= 2 /\ NetworkFound)
    /\ (result.sport # Null) <=> (level >= 3 /\ TransportFound)
    /\ (ret = QP_ERROR) <=> \/ level >= 2 /\ ~HasDatalink
                            \/ level >= 3 /\ ~NetworkFound

(***************************************************************************)
(* The loop: when it is at a layer, the layers above are there and in the  *)
(* result, and the result says nothing of that layer and those below.      *)
(***************************************************************************)
LoopInv ==
  /\ i = 0 => result = Cleared
  /\ i = 1 => /\ level >= 2 /\ HasDatalink
              /\ Datalink(result) /\ NoNetwork(result) /\ NoTransport(result)
  /\ i = 2 => /\ level >= 3 /\ NetworkFound
              /\ Network(result) /\ NoTransport(result)

IInv == Types /\ LoopInv /\ LayersFound /\ PlacesInsideFrame

(***************************************************************************)
(* The table of network protocols gives IP and IPV6 for their own numbers  *)
(* only.                                                                   *)
(***************************************************************************)
LEMMA EthertypeFound ==
  ASSUME NEW type \in Nat
  PROVE  LET t == qp_stack_datalink_get_type(type)
         IN  /\ t \in Proto
             /\ (t = "IP") <=> (type = 2048)
             /\ (t = "IPV6") <=> (type = 34525)
<1> DEFINE t == qp_stack_datalink_get_type(type)
<1>1. \A e \in Ethertypes : /\ (e[2] = "IP") <=> (e[1] = 2048)
                            /\ (e[2] = "IPV6") <=> (e[1] = 34525)
  BY DEF Ethertypes
<1>2. CASE \E e \in Ethertypes : e[1] = type
  <2>1. PICK e \in Ethertypes : e[1] = type /\ t = e[2]
    BY <1>2 DEF qp_stack_datalink_get_type
  <2> QED
    BY <1>1, <2>1 DEF Proto
<1>3. CASE ~\E e \in Ethertypes : e[1] = type
  <2>1. t = "UNKNOWN"
    BY <1>3 DEF qp_stack_datalink_get_type, QP_STACK_PROTO_UNKNOWN
  <2>2. <<2048, "IP">> \in Ethertypes /\ <<34525, "IPV6">> \in Ethertypes
    BY DEF Ethertypes
  <2>3. type # 2048 /\ type # 34525
    BY <1>3, <2>2
  <2> QED
    BY <2>1, <2>3 DEF Proto
<1> QED
  BY <1>2, <1>3

(***************************************************************************)
(* So does the table of transport protocols for TCP and UDP.               *)
(***************************************************************************)
LEMMA IpProtoFound ==
  ASSUME NEW type \in Nat
  PROVE  LET t == qp_stack_network_get_type(type)
         IN  /\ t \in Proto
             /\ (t = "TCP") <=> (type = 6)
             /\ (t = "UDP") <=> (type = 17)
<1> DEFINE t == qp_stack_network_get_type(type)
<1>1. \A p \in IpProtos : /\ (p[2] = "TCP") <=> (p[1] = 6)
                          /\ (p[2] = "UDP") <=> (p[1] = 17)
  BY DEF IpProtos
<1>2. CASE \E p \in IpProtos : p[1] = type
  <2>1. PICK p \in IpProtos : p[1] = type /\ t = p[2]
    BY <1>2 DEF qp_stack_network_get_type
  <2> QED
    BY <1>1, <2>1 DEF Proto
<1>3. CASE ~\E p \in IpProtos : p[1] = type
  <2>1. t = "UNKNOWN"
    BY <1>3 DEF qp_stack_network_get_type, QP_STACK_PROTO_UNKNOWN
  <2>2. <<6, "TCP">> \in IpProtos /\ <<17, "UDP">> \in IpProtos
    BY DEF IpProtos
  <2>3. type # 6 /\ type # 17
    BY <1>3, <2>2
  <2> QED
    BY <2>1, <2>3 DEF Proto
<1> QED
  BY <1>2, <1>3

(***************************************************************************)
(* The result after memset has no layer.                                   *)
(***************************************************************************)
LEMMA ClearedLayers ==
  /\ Cleared \in Layers /\ Cleared.l2_offset = 0
  /\ NoDatalink(Cleared) /\ NoNetwork(Cleared) /\ NoTransport(Cleared)
  /\ Cleared.l2_type = QP_STACK_PROTO_UNKNOWN
  /\ Cleared.l3_type = QP_STACK_PROTO_UNKNOWN
<1>1. QP_STACK_PROTO_UNKNOWN \in Proto
  BY DEF Proto, QP_STACK_PROTO_UNKNOWN
<1> QED
  BY <1>1 DEF Cleared, Layers, NoDatalink, NoNetwork, NoTransport

\* What a parser for an Ethernet header of that size gives.
EthernetExact(p, size, l2, l3) ==
  /\ p.result \in Layers /\ NoNetwork(p.result) /\ NoTransport(p.result)
  /\ frame.len < size => /\ p.type = QP_STACK_PROTO_UNKNOWN /\ NoDatalink(p.result)
                         /\ p.result.l3_type = QP_STACK_PROTO_UNKNOWN
  /\ ~(frame.len < size) => /\ p.type = l2 /\ p.result.l2_type = l2 /\ p.result.l3_type = l3
                            /\ p.result.dmac = 0 /\ p.result.smac = 6
                            /\ p.result.l3_offset = size /\ p.result.data_offset = size

(***************************************************************************)
(* What the four Ethernet parsers share: the addresses are given exactly   *)
(* when the header is complete, and nothing is said of the layers below.   *)
(***************************************************************************)
LEMMA EthernetParsed ==
  ASSUME frame \in Frame, NEW r \in Layers, r.l2_offset = 0,
         NoDatalink(r), NoNetwork(r), NoTransport(r), r.l3_type = QP_STACK_PROTO_UNKNOWN,
         NEW size \in Nat, NEW l2 \in Proto, NEW l3 \in Proto
  PROVE  EthernetExact(Ethernet(frame, r, size, l2, l3), size, l2, l3)
<1> DEFINE placed == [r EXCEPT !.l3_offset = r.l2_offset + size]
           full == [placed EXCEPT !.dmac = 0, !.smac = 6, !.l2_type = l2, !.l3_type = l3,
                                  !.data_offset = size]
<1>1. frame.len \in Nat /\ r.l2_offset + size = size /\ r.l2_offset + 6 = 6
  BY StackAssumption
<1>2. /\ placed \in Layers /\ placed.l3_offset = size
      /\ placed.smac = r.smac /\ placed.data_offset = r.data_offset /\ placed.src = r.src
      /\ placed.l3_type = r.l3_type /\ placed.l4_type = r.l4_type /\ placed.sport = r.sport
  BY <1>1 DEF Layers
<1>3. Ethernet(frame, r, size, l2, l3) =
        IF frame.len < placed.l3_offset
        THEN [result |-> placed, type |-> QP_STACK_PROTO_UNKNOWN]
        ELSE [result |-> full, type |-> l2]
  BY <1>1, <1>2 DEF Ethernet
<1> HIDE DEF placed
<1>4. /\ full \in Layers /\ full.l2_type = l2 /\ full.l3_type = l3
      /\ full.dmac = 0 /\ full.smac = 6 /\ full.l3_offset = size /\ full.data_offset = size
      /\ full.src = placed.src /\ full.l4_type = placed.l4_type /\ full.sport = placed.sport
  <2>1. full \in Layers
    BY <1>2 DEF Layers
  <2> QED
    BY <1>2, <2>1 DEF Layers
<1> HIDE DEF full
<1>5. NoNetwork(placed) /\ NoTransport(placed) /\ NoDatalink(placed) /\ NoNetwork(full) /\ NoTransport(full)
  BY <1>2, <1>4 DEF NoNetwork, NoTransport, NoDatalink
<1>6. CASE frame.len < size
  BY <1>1, <1>2, <1>3, <1>5, <1>6 DEF EthernetExact
<1>7. CASE ~(frame.len < size)
  BY <1>1, <1>2, <1>3, <1>4, <1>5, <1>7 DEF EthernetExact
<1> QED
  BY <1>6, <1>7

(***************************************************************************)
(* The datalink layer is recognised exactly when the frame holds it.       *)
(***************************************************************************)
LEMMA DatalinkParsed ==
  ASSUME frame \in Frame
  PROVE  LET p == qp_stack_datalink_parse(frame, link, Cleared)
         IN  /\ p.result \in Layers /\ NoNetwork(p.result) /\ NoTransport(p.result)
             /\ HasDatalink => p.type # QP_STACK_PROTO_UNKNOWN /\ Datalink(p.result)
             /\ ~HasDatalink => /\ p.type = QP_STACK_PROTO_UNKNOWN /\ NoDatalink(p.result)
                                /\ p.result.l3_type = QP_STACK_PROTO_UNKNOWN
<1> DEFINE p == qp_stack_datalink_parse(frame, link, Cleared)
           With(l2) == [Cleared EXCEPT !.l2_type = l2]
<1>1. /\ frame.len \in Nat /\ frame.typeNlen \in Nat /\ frame.identify \in Nat
      /\ frame.snapType \in Nat
  BY StackAssumption
<1>2. /\ SizeOf.ethernet_II = 14 /\ SizeOf.novell = 14 /\ SizeOf.ethernet_802 = 17
      /\ SizeOf.snap = 22
  BY DEF SizeOf
<1>3. /\ {"ETHERNET_II", "ETHERNET_NOVELL", "ETHERNET_802", "ETHERNET_SNAP", "IPX",
          QP_STACK_PROTO_UNKNOWN} \subseteq Proto
      /\ QP_STACK_PROTO_UNKNOWN \notin
           {"ETHERNET_II", "ETHERNET_NOVELL", "ETHERNET_802", "ETHERNET_SNAP", "IPX", "IP", "IPV6"}
  BY DEF Proto, QP_STACK_PROTO_UNKNOWN
<1>4. ASSUME NEW l2 \in Proto
      PROVE  /\ With(l2) \in Layers /\ With(l2).l2_offset = 0
             /\ NoDatalink(With(l2)) /\ NoNetwork(With(l2)) /\ NoTransport(With(l2))
             /\ With(l2).l3_type = QP_STACK_PROTO_UNKNOWN
  BY <1>4, ClearedLayers DEF Layers, NoDatalink, NoNetwork, NoTransport
<1> HIDE DEF With
<1>5. CASE link # DLT_EN10MB
  <2>1. p = [result |-> Cleared, type |-> Cleared.l2_type]
    BY <1>5 DEF qp_stack_datalink_parse
  <2> QED
    BY <1>5, <2>1, ClearedLayers DEF HasDatalink
<1>6. CASE link = DLT_EN10MB /\ frame.typeNlen > 1500
  <2>1. p = Ethernet(frame, Cleared, 14, "ETHERNET_II", qp_stack_datalink_get_type(frame.typeNlen))
    BY <1>1, <1>2, <1>6 DEF qp_stack_datalink_parse, qp_stack_datalink_ethernet_II
  <2>2. L2Size = 14 /\ NetworkType = frame.typeNlen
    BY <1>6 DEF L2Size, NetworkType
  <2>3. EthernetExact(p, 14, "ETHERNET_II", qp_stack_datalink_get_type(frame.typeNlen))
    BY <1>1, <1>3, <2>1, EthernetParsed, EthertypeFound, ClearedLayers
  <2> QED
    BY <1>1, <1>3, <1>6, <2>2, <2>3, EthertypeFound DEF HasDatalink, Datalink, EthernetExact
<1>7. CASE link = DLT_EN10MB /\ frame.typeNlen <= 1500 /\ frame.identify = 65535
  <2>1. p = Ethernet(frame, With("ETHERNET_NOVELL"), 14, "ETHERNET_NOVELL", "IPX")
    BY <1>1, <1>2, <1>7 DEF qp_stack_datalink_parse, qp_stack_datalink_ethernet_novell, With
  <2>2. L2Size = 14 /\ NetworkType = 0
    BY <1>1, <1>7 DEF L2Size, NetworkType
  <2>3. EthernetExact(p, 14, "ETHERNET_NOVELL", "IPX")
    BY <1>3, <1>4, <2>1, EthernetParsed
  <2> QED
    BY <1>1, <1>3, <1>7, <2>2, <2>3 DEF HasDatalink, Datalink, EthernetExact
<1>8. CASE link = DLT_EN10MB /\ frame.typeNlen <= 1500 /\ frame.identify = 43690
  <2>1. p = Ethernet(frame, With("ETHERNET_SNAP"), 22, "ETHERNET_SNAP",
                     qp_stack_datalink_get_type(frame.snapType))
    BY <1>1, <1>2, <1>8 DEF qp_stack_datalink_parse, qp_stack_datalink_ethernet_snap, With
  <2>2. L2Size = 22 /\ NetworkType = frame.snapType
    BY <1>1, <1>8 DEF L2Size, NetworkType
  <2>3. EthernetExact(p, 22, "ETHERNET_SNAP", qp_stack_datalink_get_type(frame.snapType))
    BY <1>1, <1>3, <1>4, <2>1, EthernetParsed, EthertypeFound
  <2> QED
    BY <1>1, <1>3, <1>8, <2>2, <2>3, EthertypeFound DEF HasDatalink, Datalink, EthernetExact
<1>9. CASE /\ link = DLT_EN10MB /\ frame.typeNlen <= 1500
           /\ frame.identify # 65535 /\ frame.identify # 43690
  <2>1. p = Ethernet(frame, With("ETHERNET_802"), 17, "ETHERNET_802", QP_STACK_PROTO_UNKNOWN)
    BY <1>1, <1>2, <1>9 DEF qp_stack_datalink_parse, qp_stack_datalink_ethernet_802, With
  <2>2. L2Size = 17 /\ NetworkType = 0
    BY <1>1, <1>9 DEF L2Size, NetworkType
  <2>3. EthernetExact(p, 17, "ETHERNET_802", QP_STACK_PROTO_UNKNOWN)
    BY <1>3, <1>4, <2>1, EthernetParsed
  <2> QED
    BY <1>1, <1>3, <1>9, <2>2, <2>3 DEF HasDatalink, Datalink, EthernetExact
<1> QED
  BY <1>1, <1>5, <1>6, <1>7, <1>8, <1>9

(***************************************************************************)
(* What the two IP parsers share.                                          *)
(***************************************************************************)
LEMMA IpParsed ==
  ASSUME frame \in Frame, NEW r \in Layers, NoNetwork(r),
         NEW l4 \in Proto, NEW srcAt \in Nat, NEW dstAt \in Nat
  PROVE  LET q == Ip(frame, r, l4, srcAt, dstAt)
         IN  /\ q \in Layers /\ q.sport = r.sport /\ q.smac = r.smac /\ q.dmac = r.dmac
             /\ q.l4_offset = r.l3_offset + 20
             /\ frame.len < r.l3_offset + 20 =>
                  q.l3_type = QP_STACK_PROTO_UNKNOWN /\ NoNetwork(q)
             /\ ~(frame.len < r.l3_offset + 20) =>
                  /\ q.l3_type = r.l3_type /\ q.l4_type = l4
                  /\ q.src = r.l3_offset + srcAt /\ q.dst = r.l3_offset + dstAt
                  /\ q.data_offset = r.l3_offset + 20
<1> DEFINE at == r.l3_offset + 20
           placed == [r EXCEPT !.l4_offset = at]
           short == [placed EXCEPT !.l3_type = QP_STACK_PROTO_UNKNOWN]
           full == [placed EXCEPT !.l4_type = l4, !.src = r.l3_offset + srcAt,
                                  !.dst = r.l3_offset + dstAt, !.data_offset = at]
<1>1. /\ at \in Nat /\ r.l3_offset \in Nat
      /\ r.l3_offset + srcAt \in Nat /\ r.l3_offset + dstAt \in Nat
      /\ SizeOf.ipv4 = 20 /\ QP_STACK_PROTO_UNKNOWN \in Proto
  BY DEF Layers, SizeOf, Proto, QP_STACK_PROTO_UNKNOWN
<1>2. /\ placed \in Layers /\ placed.l4_offset = at
      /\ placed.sport = r.sport /\ placed.smac = r.smac /\ placed.dmac = r.dmac
      /\ placed.src = r.src /\ placed.l3_type = r.l3_type /\ placed.l4_type = r.l4_type
  BY <1>1 DEF Layers
<1>3. Ip(frame, r, l4, srcAt, dstAt) = IF frame.len < at THEN short ELSE full
  BY <1>1, <1>2 DEF Ip
<1> HIDE DEF placed
<1>4. /\ short \in Layers /\ short.l4_offset = at /\ short.sport = r.sport
      /\ short.smac = r.smac /\ short.dmac = r.dmac /\ short.src = r.src
      /\ short.l4_type = r.l4_type /\ short.l3_type = QP_STACK_PROTO_UNKNOWN
  BY <1>1, <1>2 DEF Layers
<1>5. full \in Layers
  BY <1>1, <1>2 DEF Layers
<1>6. /\ full.l4_offset = at /\ full.sport = r.sport /\ full.smac = r.smac /\ full.dmac = r.dmac
      /\ full.l3_type = r.l3_type /\ full.l4_type = l4 /\ full.data_offset = at
      /\ full.src = r.l3_offset + srcAt /\ full.dst = r.l3_offset + dstAt
  BY <1>2, <1>5 DEF Layers
<1> HIDE DEF short, full
<1>7. NoNetwork(short)
  BY <1>4 DEF NoNetwork
<1>8. CASE frame.len < at
  BY <1>3, <1>4, <1>7, <1>8
<1>9. CASE ~(frame.len < at)
  BY <1>3, <1>5, <1>6, <1>9
<1> QED
  BY <1>8, <1>9

(***************************************************************************)
(* The network layer is recognised exactly when the frame holds one that   *)
(* the parser knows.                                                       *)
(***************************************************************************)
LEMMA NetworkParsed ==
  ASSUME frame \in Frame, HasDatalink, NEW r \in Layers,
         Datalink(r), NoNetwork(r), NoTransport(r)
  PROVE  LET p == qp_stack_network_parse(frame, r)
         IN  /\ p.result \in Layers /\ NoTransport(p.result)
             /\ p.result.smac = 6 /\ p.result.dmac = 0
             /\ NetworkFound => p.type # QP_STACK_PROTO_UNKNOWN /\ Network(p.result)
             /\ ~NetworkFound => /\ p.type = QP_STACK_PROTO_UNKNOWN /\ NoNetwork(p.result)
                               /\ p.result.l3_type = QP_STACK_PROTO_UNKNOWN
<1> DEFINE p == qp_stack_network_parse(frame, r)
           q == p.result
<1>1. /\ frame.len \in Nat /\ frame.proto \in Nat /\ frame.typeNlen \in Nat
      /\ frame.identify \in Nat
  BY StackAssumption
<1>2. /\ r.l3_offset = L2Size /\ L2Size \in Nat /\ r.smac = 6 /\ r.dmac = 0
      /\ (r.l3_type = "IP") <=> (NetworkType = 2048)
      /\ (r.l3_type = "IPV6") <=> (NetworkType = 34525)
      /\ r.sport = Null /\ Null \notin Nat
  BY StackAssumption DEF Datalink, L2Size, NoTransport
<1>3. /\ QP_STACK_PROTO_UNKNOWN \in Proto
      /\ QP_STACK_PROTO_UNKNOWN \notin {"IP", "IPV6", "TCP", "UDP"}
  BY DEF Proto, QP_STACK_PROTO_UNKNOWN
<1>4. CASE r.l3_type = "IP"
  <2> DEFINE l4 == qp_stack_network_get_type(frame.proto)
  <2>1. l4 \in Proto /\ ((l4 = "TCP") <=> (frame.proto = 6)) /\ ((l4 = "UDP") <=> (frame.proto = 17))
    BY <1>1, IpProtoFound
  <2>2. q = Ip(frame, r, l4, 12, 16) /\ p.type = q.l3_type
    BY <1>4 DEF qp_stack_network_parse, qp_stack_network_ipv4
  <2> HIDE DEF l4, p
  <2>3. /\ q \in Layers /\ q.sport = Null /\ q.smac = 6 /\ q.dmac = 0
        /\ q.l4_offset = L2Size + 20
        /\ frame.len < L2Size + 20 => q.l3_type = QP_STACK_PROTO_UNKNOWN /\ NoNetwork(q)
        /\ ~(frame.len < L2Size + 20) =>
             /\ q.l3_type = r.l3_type /\ q.l4_type = l4
             /\ q.src = L2Size + 12 /\ q.dst = L2Size + 16 /\ q.data_offset = L2Size + 20
    BY <1>2, <2>1, <2>2, IpParsed
  <2>4. NetworkFound <=> ~(frame.len < L2Size + 20)
    BY <1>1, <1>2, <1>4 DEF NetworkFound
  <2>5. L2Size + 12 \in Nat
    BY <1>2
  <2>6. NetworkFound => Network(q)
    BY <1>2, <1>4, <2>1, <2>3, <2>4, <2>5 DEF Network
  <2> QED
    BY <1>3, <1>4, <2>2, <2>3, <2>4, <2>6 DEF NoTransport, p
<1>5. CASE r.l3_type = "IPV6"
  <2> DEFINE l4 == QP_STACK_PROTO_UNKNOWN
  <2>1. q = Ip(frame, r, l4, 8, 24) /\ p.type = q.l3_type /\ l4 \in Proto
    BY <1>3, <1>5 DEF qp_stack_network_parse, qp_stack_network_ipv6
  <2> HIDE DEF l4, p
  <2>2. /\ q \in Layers /\ q.sport = Null /\ q.smac = 6 /\ q.dmac = 0
        /\ q.l4_offset = L2Size + 20
        /\ frame.len < L2Size + 20 => q.l3_type = QP_STACK_PROTO_UNKNOWN /\ NoNetwork(q)
        /\ ~(frame.len < L2Size + 20) =>
             /\ q.l3_type = r.l3_type /\ q.l4_type = l4
             /\ q.src = L2Size + 8 /\ q.dst = L2Size + 24 /\ q.data_offset = L2Size + 20
    <3>1. /\ q \in Layers /\ q.sport = r.sport /\ q.smac = r.smac /\ q.dmac = r.dmac
          /\ q.l4_offset = r.l3_offset + 20
          /\ frame.len < r.l3_offset + 20 => q.l3_type = QP_STACK_PROTO_UNKNOWN /\ NoNetwork(q)
          /\ ~(frame.len < r.l3_offset + 20) =>
               /\ q.l3_type = r.l3_type /\ q.l4_type = l4
               /\ q.src = r.l3_offset + 8 /\ q.dst = r.l3_offset + 24
               /\ q.data_offset = r.l3_offset + 20
      <4>1. 8 \in Nat /\ 24 \in Nat
        OBVIOUS
      <4> HIDE DEF q
      <4> QED
        BY <2>1, <4>1, IpParsed
    <3> QED
      BY <1>2, <3>1
  <2>3. NetworkFound <=> ~(frame.len < L2Size + 20)
    BY <1>1, <1>2, <1>5 DEF NetworkFound
  <2>4. L2Size + 8 \in Nat /\ NetworkType # 2048
    BY <1>2, <1>5
  <2>5. NetworkFound => Network(q)
    BY <1>2, <1>3, <1>5, <2>2, <2>3, <2>4 DEF Network, l4
  <2> QED
    BY <1>3, <1>5, <2>1, <2>2, <2>3, <2>5 DEF NoTransport, p
<1>6. CASE r.l3_type \notin {"IP", "IPV6"}
  <2>1. q = [r EXCEPT !.l3_type = QP_STACK_PROTO_UNKNOWN] /\ p.type = q.l3_type
    BY <1>6 DEF qp_stack_network_parse
  <2> HIDE DEF p
  <2>2. /\ q \in Layers /\ q.sport = r.sport /\ q.smac = r.smac /\ q.dmac = r.dmac
        /\ q.l3_type = QP_STACK_PROTO_UNKNOWN /\ q.src = r.src /\ q.l4_type = r.l4_type
    BY <1>3, <2>1 DEF Layers
  <2>3. ~NetworkFound
    BY <1>2, <1>6 DEF NetworkFound
  <2>4. NoNetwork(q) /\ NoTransport(q)
    BY <2>2 DEF NoNetwork, NoTransport
  <2> QED
    BY <1>2, <2>1, <2>2, <2>3, <2>4 DEF p
<1> QED
  BY <1>4, <1>5, <1>6

(***************************************************************************)
(* What the parsers of the two transport protocols share.                  *)
(***************************************************************************)
LEMMA TransportParsed ==
  ASSUME frame \in Frame, NEW r \in Layers, NEW size \in Nat
  PROVE  LET q == Transport(frame, r, size)
         IN  /\ q \in Layers /\ q.smac = r.smac /\ q.dmac = r.dmac
             /\ q.src = r.src /\ q.dst = r.dst /\ q.l3_type = r.l3_type
             /\ q.data_offset = r.l4_offset + size
             /\ frame.len < r.l4_offset + size =>
                  q.l4_type = QP_STACK_PROTO_UNKNOWN /\ q.sport = r.sport
             /\ ~(frame.len < r.l4_offset + size) =>
                  q.l4_type = r.l4_type /\ q.sport = r.l4_offset /\ q.dport = r.l4_offset + 2
<1> DEFINE at == r.l4_offset + size
           placed == [r EXCEPT !.data_offset = at]
           short == [placed EXCEPT !.l4_type = QP_STACK_PROTO_UNKNOWN]
           full == [placed EXCEPT !.sport = r.l4_offset, !.dport = r.l4_offset + 2]
<1>1. /\ at \in Nat /\ r.l4_offset \in Nat /\ r.l4_offset + 2 \in Nat
      /\ QP_STACK_PROTO_UNKNOWN \in Proto
  BY DEF Layers, Proto, QP_STACK_PROTO_UNKNOWN
<1>2. /\ placed \in Layers /\ placed.data_offset = at
      /\ placed.sport = r.sport /\ placed.smac = r.smac /\ placed.dmac = r.dmac
      /\ placed.src = r.src /\ placed.dst = r.dst
      /\ placed.l3_type = r.l3_type /\ placed.l4_type = r.l4_type
  BY <1>1 DEF Layers
<1>3. Transport(frame, r, size) = IF frame.len < at THEN short ELSE full
  BY <1>2 DEF Transport
<1> HIDE DEF placed
<1>4. /\ short \in Layers /\ short.data_offset = at /\ short.sport = r.sport
      /\ short.smac = r.smac /\ short.dmac = r.dmac /\ short.src = r.src /\ short.dst = r.dst
      /\ short.l3_type = r.l3_type /\ short.l4_type = QP_STACK_PROTO_UNKNOWN
  BY <1>1, <1>2 DEF Layers
<1>5. full \in Layers
  BY <1>1, <1>2 DEF Layers
<1>6. /\ full.data_offset = at /\ full.smac = r.smac /\ full.dmac = r.dmac
      /\ full.src = r.src /\ full.dst = r.dst /\ full.l3_type = r.l3_type
      /\ full.l4_type = r.l4_type /\ full.sport = r.l4_offset /\ full.dport = r.l4_offset + 2
  BY <1>2, <1>5 DEF Layers
<1> HIDE DEF short, full
<1> QED
  BY <1>3, <1>4, <1>5, <1>6

(***************************************************************************)
(* The ports are given exactly when the frame holds a complete header of a *)
(* transport protocol the parser knows; the layers above stay as they are. *)
(***************************************************************************)
LEMMA TransmitParsed ==
  ASSUME frame \in Frame, NetworkFound, NEW r \in Layers, Network(r), NoTransport(r)
  PROVE  LET p == qp_stack_transmit_parse(frame, r)
             q == p.result
         IN  /\ q \in Layers /\ q.smac = 6 /\ q.dmac = 0
             /\ q.src = r.src /\ q.dst = r.dst /\ q.l3_type = r.l3_type
             /\ TransportFound => /\ p.type # QP_STACK_PROTO_UNKNOWN
                                /\ q.sport = L2Size + 20 /\ q.dport = L2Size + 22
                                /\ L2Size + 28 <= frame.len /\ q.data_offset <= frame.len
             /\ ~TransportFound => /\ p.type = QP_STACK_PROTO_UNKNOWN
                                 /\ q.l4_type = QP_STACK_PROTO_UNKNOWN /\ NoTransport(q)
<1> DEFINE p == qp_stack_transmit_parse(frame, r)
           q == p.result
<1>1. frame.len \in Nat /\ frame.proto \in Nat
  BY StackAssumption
<1>2. /\ r.l4_offset = L2Size + 20 /\ L2Size \in Nat /\ r.smac = 6 /\ r.dmac = 0
      /\ (r.l4_type = "TCP") <=> (NetworkType = 2048 /\ frame.proto = 6)
      /\ (r.l4_type = "UDP") <=> (NetworkType = 2048 /\ frame.proto = 17)
      /\ r.sport = Null
  BY DEF Network, L2Size, NoTransport
<1>3. /\ QP_STACK_PROTO_UNKNOWN \in Proto /\ QP_STACK_PROTO_UNKNOWN \notin {"TCP", "UDP"}
      /\ SizeOf.tcp = 20 /\ SizeOf.udp = 8
  BY DEF Proto, QP_STACK_PROTO_UNKNOWN, SizeOf
<1>4. ASSUME NEW size \in {8, 20}, q = Transport(frame, r, size), p.type = q.l4_type,
             r.l4_type \in {"TCP", "UDP"}, TransportFound <=> (frame.len >= L2Size + 20 + size)
      PROVE  /\ q \in Layers /\ q.smac = 6 /\ q.dmac = 0
             /\ q.src = r.src /\ q.dst = r.dst /\ q.l3_type = r.l3_type
             /\ TransportFound => /\ p.type # QP_STACK_PROTO_UNKNOWN
                                /\ q.sport = L2Size + 20 /\ q.dport = L2Size + 22
                                /\ L2Size + 28 <= frame.len /\ q.data_offset <= frame.len
             /\ ~TransportFound => /\ p.type = QP_STACK_PROTO_UNKNOWN
                                 /\ q.l4_type = QP_STACK_PROTO_UNKNOWN /\ NoTransport(q)
  <2> HIDE DEF p
  <2>1. size \in Nat /\ size >= 8
    BY <1>4
  <2>2. /\ q \in Layers /\ q.smac = r.smac /\ q.dmac = r.dmac
        /\ q.src = r.src /\ q.dst = r.dst /\ q.l3_type = r.l3_type
        /\ q.data_offset = L2Size + 20 + size
        /\ frame.len < L2Size + 20 + size => q.l4_type = QP_STACK_PROTO_UNKNOWN /\ q.sport = r.sport
        /\ ~(frame.len < L2Size + 20 + size) =>
             q.l4_type = r.l4_type /\ q.sport = L2Size + 20 /\ q.dport = L2Size + 20 + 2
    BY <1>2, <1>4, <2>1, TransportParsed
  <2>3. TransportFound <=> ~(frame.len < L2Size + 20 + size)
    BY <1>1, <1>2, <1>4, <2>1
  <2>4. L2Size + 20 + 2 = L2Size + 22
    BY <1>2
  <2>5. TransportFound => L2Size + 28 <= frame.len /\ L2Size + 20 + size <= frame.len
    BY <1>1, <1>2, <2>1, <2>3
  <2>6. TransportFound => p.type # QP_STACK_PROTO_UNKNOWN
    BY <1>3, <1>4, <2>2, <2>3
  <2>7. ~TransportFound => /\ p.type = QP_STACK_PROTO_UNKNOWN
                         /\ q.l4_type = QP_STACK_PROTO_UNKNOWN /\ NoTransport(q)
    BY <1>2, <1>4, <2>2, <2>3 DEF NoTransport
  <2> QED
    BY <1>2, <2>2, <2>3, <2>4, <2>5, <2>6, <2>7
<1>5. CASE r.l4_type = "TCP"
  <2>1. q = Transport(frame, r, 20) /\ p.type = q.l4_type
    BY <1>3, <1>5 DEF qp_stack_transmit_parse, qp_stack_transmit_tcp
  <2>2. TransportFound <=> (frame.len >= L2Size + 20 + 20)
    BY <1>1, <1>2, <1>5 DEF TransportFound
  <2> HIDE DEF p
  <2> QED
    BY <1>4, <1>5, <2>1, <2>2 DEF p
<1>6. CASE r.l4_type = "UDP"
  <2>1. q = Transport(frame, r, 8) /\ p.type = q.l4_type
    BY <1>3, <1>6 DEF qp_stack_transmit_parse, qp_stack_transmit_udp
  <2>2. TransportFound <=> (frame.len >= L2Size + 20 + 8)
    BY <1>1, <1>2, <1>6 DEF TransportFound
  <2> HIDE DEF p
  <2> QED
    BY <1>4, <1>6, <2>1, <2>2 DEF p
<1>7. CASE r.l4_type \notin {"TCP", "UDP"}
  <2>1. q = [r EXCEPT !.l4_type = QP_STACK_PROTO_UNKNOWN] /\ p.type = q.l4_type
    BY <1>7 DEF qp_stack_transmit_parse
  <2> HIDE DEF p
  <2>2. /\ q \in Layers /\ q.smac = r.smac /\ q.dmac = r.dmac /\ q.src = r.src /\ q.dst = r.dst
        /\ q.l3_type = r.l3_type /\ q.l4_type = QP_STACK_PROTO_UNKNOWN /\ q.sport = r.sport
    BY <1>3, <2>1 DEF Layers
  <2>3. ~TransportFound
    BY <1>2, <1>7 DEF TransportFound
  <2> QED
    BY <1>2, <2>1, <2>2, <2>3 DEF NoTransport, p
<1> QED
  BY <1>5, <1>6, <1>7

(***************************************************************************)
(* A turn of the loop at the datalink layer keeps the invariant ...        *)
(***************************************************************************)
LEMMA DatalinkStep ==
  ASSUME IInv, i = 0, Layer
  PROVE  IInv'
<1> DEFINE p == qp_stack_datalink_parse(frame, link, Cleared)
<1>1. /\ frame \in Frame /\ level \in 1..3 /\ result = Cleared /\ frame # Null
      /\ frame' = frame /\ link' = link /\ level' = level
  BY StackAssumption DEF IInv, Types, LoopInv, Layer, Idle
<1>2. /\ result' = p.result
      /\ \/ /\ p.type = QP_STACK_PROTO_UNKNOWN /\ i' = 3
            /\ ret' = IF level = 1 THEN QP_SUCCESS ELSE QP_ERROR
         \/ p.type # QP_STACK_PROTO_UNKNOWN /\ level > 1 /\ i' = 1
         \/ p.type # QP_STACK_PROTO_UNKNOWN /\ level = 1 /\ i' = 3 /\ ret' = QP_SUCCESS
  BY <1>1 DEF Layer, Parsed, Idle
<1> HIDE DEF p
<1>3. /\ result' \in Layers /\ NoNetwork(result') /\ NoTransport(result')
      /\ HasDatalink => p.type # QP_STACK_PROTO_UNKNOWN /\ Datalink(result')
      /\ ~HasDatalink => /\ p.type = QP_STACK_PROTO_UNKNOWN /\ NoDatalink(result')
                         /\ result'.l3_type = QP_STACK_PROTO_UNKNOWN
  BY <1>1, <1>2, DatalinkParsed DEF p
<1>4. /\ HasDatalink' = HasDatalink /\ NetworkFound' = NetworkFound /\ TransportFound' = TransportFound
      /\ L2Size' = L2Size /\ Datalink(result)' = Datalink(result')
  BY <1>1 DEF HasDatalink, NetworkFound, TransportFound, L2Size, NetworkType, Datalink
<1>5. Types'
  BY <1>1, <1>2, <1>3 DEF Types, Idle
<1>6. LoopInv'
  BY <1>1, <1>2, <1>3, <1>4 DEF LoopInv, NoNetwork, NoTransport
<1>7. (NetworkFound => HasDatalink) /\ (TransportFound => NetworkFound) /\ QP_SUCCESS # QP_ERROR
  BY DEF NetworkFound, TransportFound, QP_SUCCESS, QP_ERROR
<1>8. LayersFound'
  <2>1. 6 # Null
    BY StackAssumption
  <2> SUFFICES ASSUME i' = 3 PROVE LayersFound'
    BY DEF LayersFound, Done, Idle
  <2>2. CASE HasDatalink
    BY <1>1, <1>2, <1>3, <1>4, <1>7, <2>1, <2>2
       DEF LayersFound, Datalink, NoNetwork, NoTransport
  <2>3. CASE ~HasDatalink
    BY <1>1, <1>2, <1>3, <1>4, <1>7, <2>3
       DEF LayersFound, NoDatalink, NoNetwork, NoTransport
  <2> QED
    BY <2>2, <2>3
<1>9. PlacesInsideFrame'
  <2>1. frame.len \in Nat
    BY <1>1, StackAssumption
  <2> SUFFICES ASSUME i' = 3 PROVE PlacesInsideFrame'
    BY DEF PlacesInsideFrame, Done, Idle
  <2>2. CASE HasDatalink
    <3>1. level = 1 /\ L2Size \in Nat /\ L2Size >= 14 /\ frame.len >= L2Size
      BY <1>2, <1>3, <2>2 DEF HasDatalink, L2Size
    <3> QED
      BY <1>1, <1>3, <2>1, <2>2, <3>1
         DEF PlacesInsideFrame, Datalink, NoNetwork, NoTransport
  <2>3. CASE ~HasDatalink
    <3>1. <<result'.l2_type, result'.l3_type, result'.l4_type>>[level] # QP_STACK_PROTO_UNKNOWN
            => result'.data_offset <= frame.len
      BY <1>1, <1>3, <2>1, <2>3 DEF NoDatalink, NoNetwork
    <3> QED
      BY <1>1, <1>3, <2>3, <3>1 DEF PlacesInsideFrame, NoDatalink, NoNetwork, NoTransport
  <2> QED
    BY <2>2, <2>3
<1> QED
  BY <1>5, <1>6, <1>8, <1>9 DEF IInv

(***************************************************************************)
(* ... so does one at the network layer ...                                *)
(***************************************************************************)
LEMMA NetworkStep ==
  ASSUME IInv, i = 1, Layer
  PROVE  IInv'
<1> DEFINE p == qp_stack_network_parse(frame, result)
<1>1. /\ frame \in Frame /\ level \in 2..3 /\ result \in Layers /\ frame # Null
      /\ frame' = frame /\ link' = link /\ level' = level
      /\ HasDatalink /\ Datalink(result) /\ NoNetwork(result) /\ NoTransport(result)
  BY StackAssumption DEF IInv, Types, LoopInv, Layer, Idle
<1>2. /\ result' = p.result
      /\ \/ /\ p.type = QP_STACK_PROTO_UNKNOWN /\ i' = 3
            /\ ret' = IF level = 2 THEN QP_SUCCESS ELSE QP_ERROR
         \/ p.type # QP_STACK_PROTO_UNKNOWN /\ level > 2 /\ i' = 2
         \/ p.type # QP_STACK_PROTO_UNKNOWN /\ level = 2 /\ i' = 3 /\ ret' = QP_SUCCESS
  BY <1>1 DEF Layer, Parsed, Idle
<1> HIDE DEF p
<1>3. /\ result' \in Layers /\ NoTransport(result') /\ result'.smac = 6 /\ result'.dmac = 0
      /\ NetworkFound => p.type # QP_STACK_PROTO_UNKNOWN /\ Network(result')
      /\ ~NetworkFound => /\ p.type = QP_STACK_PROTO_UNKNOWN /\ NoNetwork(result')
                        /\ result'.l3_type = QP_STACK_PROTO_UNKNOWN
  BY <1>1, <1>2, NetworkParsed DEF p
<1>4. /\ HasDatalink' = HasDatalink /\ NetworkFound' = NetworkFound /\ TransportFound' = TransportFound
      /\ L2Size' = L2Size /\ Network(result)' = Network(result')
  BY <1>1 DEF HasDatalink, NetworkFound, TransportFound, L2Size, NetworkType, Network
<1>5. Types'
  BY <1>1, <1>2, <1>3 DEF Types, Idle
<1>6. LoopInv'
  BY <1>1, <1>2, <1>3, <1>4 DEF LoopInv, NoTransport
<1>7. (TransportFound => NetworkFound) /\ QP_SUCCESS # QP_ERROR
  BY DEF TransportFound, QP_SUCCESS, QP_ERROR
<1>8. LayersFound'
  <2>1. 6 # Null
    BY StackAssumption
  <2> SUFFICES ASSUME i' = 3 PROVE LayersFound'
    BY DEF LayersFound, Done, Idle
  <2>2. CASE NetworkFound
    BY <1>1, <1>2, <1>3, <1>4, <1>7, <2>1, <2>2 DEF LayersFound, Network, NoTransport
  <2>3. CASE ~NetworkFound
    BY <1>1, <1>2, <1>3, <1>4, <1>7, <2>1, <2>3 DEF LayersFound, NoNetwork, NoTransport
  <2> QED
    BY <2>2, <2>3
<1>9. PlacesInsideFrame'
  <2>1. frame.len \in Nat /\ L2Size \in Nat /\ L2Size >= 14 /\ frame.len >= L2Size
    BY <1>1, StackAssumption DEF HasDatalink, L2Size
  <2> SUFFICES ASSUME i' = 3 PROVE PlacesInsideFrame'
    BY DEF PlacesInsideFrame, Done, Idle
  <2>2. CASE NetworkFound
    <3>1. level = 2 /\ frame.len >= L2Size + 20
      BY <1>1, <1>2, <1>3, <2>2 DEF NetworkFound
    <3> QED
      BY <1>1, <1>3, <2>1, <2>2, <3>1 DEF PlacesInsideFrame, Network, NoTransport
  <2>3. CASE ~NetworkFound
    <3>1. <<result'.l2_type, result'.l3_type, result'.l4_type>>[level] = QP_STACK_PROTO_UNKNOWN
      BY <1>1, <1>3, <2>3 DEF NoNetwork
    <3> QED
      BY <1>1, <1>3, <2>1, <2>3, <3>1 DEF PlacesInsideFrame, NoNetwork, NoTransport
  <2> QED
    BY <2>2, <2>3
<1> QED
  BY <1>5, <1>6, <1>8, <1>9 DEF IInv

(***************************************************************************)
(* ... and one at the transport layer, which is always the last.           *)
(***************************************************************************)
LEMMA TransmitStep ==
  ASSUME IInv, i = 2, Layer
  PROVE  IInv'
<1> DEFINE p == qp_stack_transmit_parse(frame, result)
<1>1. /\ frame \in Frame /\ level = 3 /\ result \in Layers /\ frame # Null
      /\ frame' = frame /\ link' = link /\ level' = level
      /\ NetworkFound /\ Network(result) /\ NoTransport(result)
  BY StackAssumption DEF IInv, Types, LoopInv, Layer, Idle
<1>2. result' = p.result /\ i' = 3 /\ ret' = QP_SUCCESS
  BY <1>1 DEF Layer, Parsed, Idle
<1> HIDE DEF p
<1>3. /\ result' \in Layers /\ result'.smac = 6 /\ result'.dmac = 0
      /\ result'.src = result.src /\ result'.dst = result.dst
      /\ result'.l3_type = result.l3_type
      /\ TransportFound => /\ result'.sport = L2Size + 20 /\ result'.dport = L2Size + 22
                         /\ L2Size + 28 <= frame.len /\ result'.data_offset <= frame.len
      /\ ~TransportFound => /\ result'.l4_type = QP_STACK_PROTO_UNKNOWN
                          /\ result'.sport = Null
  BY <1>1, <1>2, TransmitParsed DEF p, NoTransport
<1>4. /\ HasDatalink' = HasDatalink /\ NetworkFound' = NetworkFound /\ TransportFound' = TransportFound
      /\ HasDatalink /\ QP_SUCCESS # QP_ERROR
  BY <1>1 DEF HasDatalink, NetworkFound, TransportFound, L2Size, NetworkType, QP_SUCCESS, QP_ERROR
<1>5. /\ frame.len \in Nat /\ L2Size \in Nat /\ L2Size >= 14 /\ frame.len >= L2Size + 20
      /\ 6 # Null /\ L2Size + 20 # Null
  <2>1. L2Size \in Nat /\ L2Size >= 14
    BY DEF L2Size
  <2>2. L2Size + 20 \in Nat
    BY <2>1
  <2> QED
    BY <1>1, <2>1, <2>2, StackAssumption DEF NetworkFound
<1>6. Types' /\ LoopInv'
  BY <1>1, <1>2, <1>3 DEF Types, LoopInv, Idle
<1>7. LayersFound'
  BY <1>1, <1>2, <1>3, <1>4, <1>5 DEF LayersFound, Network
<1>8. PlacesInsideFrame'
  BY <1>1, <1>3, <1>5 DEF PlacesInsideFrame, Network
<1> QED
  BY <1>6, <1>7, <1>8 DEF IInv

(***************************************************************************)
(* The invariant holds in every reachable state.                           *)
(***************************************************************************)
THEOREM StackInvariant == Spec => []IInv
<1>1. ASSUME Init
      PROVE  IInv
  BY <1>1, ClearedLayers
     DEF Init, IInv, Types, LoopInv, LayersFound, PlacesInsideFrame, Done, Idle,
         QP_STACK_LEVEL_DATALINK
<1>2. ASSUME IInv, [Next]_vars
      PROVE  IInv'
  <2>1. CASE Call
    <3>1. level' \in 1..3 /\ frame' \in Frame /\ result' = Cleared /\ i' = 0
      BY <2>1 DEF Call, QP_STACK_LEVEL_DATALINK, QP_STACK_LEVEL_TRANSMIT
    <3> QED
      BY <3>1, ClearedLayers
         DEF IInv, Types, LoopInv, LayersFound, PlacesInsideFrame, Done, Idle
  <2>2. CASE CallNull
    BY <1>2, <2>2
       DEF CallNull, IInv, Types, LoopInv, LayersFound, PlacesInsideFrame, Done, Idle
  <2>3. CASE Layer
    <3>1. i \in {0, 1, 2}
      BY <1>2, <2>3 DEF IInv, Types, Layer, Idle
    <3> QED
      BY <1>2, <2>3, <3>1, DatalinkStep, NetworkStep, TransmitStep
  <2>4. CASE UNCHANGED vars
    BY <1>2, <2>4
       DEF vars, IInv, Types, LoopInv, LayersFound, PlacesInsideFrame, Done, Datalink, Network,
           NoNetwork, NoTransport, HasDatalink, NetworkFound, TransportFound, L2Size, NetworkType
  <2> QED
    BY <1>2, <2>1, <2>2, <2>3, <2>4 DEF Next
<1> QED
  BY <1>1, <1>2, PTL DEF Spec

(***************************************************************************)
(* The parser finds a network header when the frame holds one, or 20 to 39 *)
(* bytes of an IPv6 one; a transport header when the frame holds one.      *)
(***************************************************************************)
LEMMA FoundExact ==
  ASSUME frame \in Frame
  PROVE  /\ NetworkFound <=> (HasNetwork \/ CutIpv6)
         /\ TransportFound <=> HasTransport
<1>1. frame.len \in Nat /\ L2Size \in Nat
  BY StackAssumption DEF L2Size
<1>2. NetworkType = 2048 => NetworkType # 34525
  OBVIOUS
<1> HIDE DEF L2Size, NetworkType
<1>3. (HasNetwork \/ CutIpv6) <=>
        /\ HasDatalink
        /\ NetworkType \in {2048, 34525}
        /\ frame.len >= L2Size + 20
  BY <1>1, <1>2 DEF HasNetwork, CutIpv6
<1>4. NetworkFound <=> (HasNetwork \/ CutIpv6)
  BY <1>3 DEF NetworkFound
<1> QED
  BY <1>1, <1>2, <1>4 DEF NetworkFound, TransportFound, HasNetwork, HasTransport

(***************************************************************************)
(* What qp_stack_parse reports depends on the frame at hand only: exactly  *)
(* the layers that it holds, down to the level asked for, and the network  *)
(* layer of an IPv6 frame whose header is cut at 20 to 39 bytes; it fails  *)
(* exactly when one above the last is not found.                           *)
(***************************************************************************)
THEOREM StackLayersExact == Spec => []LayersExact
<1>1. IInv => LayersExact
  <2> SUFFICES ASSUME IInv, Done PROVE LayersExact
    BY DEF LayersExact
  <2>1. frame \in Frame
    BY DEF IInv, Types, Done
  <2> QED
    BY <2>1, FoundExact DEF IInv, LayersFound, LayersExact
<1> QED
  BY <1>1, StackInvariant, PTL

(***************************************************************************)
(* The places that qp_stack_parse reports lie inside the frame, whatever   *)
(* its length.                                                             *)
(***************************************************************************)
THEOREM StackPlacesInsideFrame == Spec => []PlacesInsideFrame
  BY StackInvariant, PTL DEF IInv
=============================================================================
