-------------------------- MODULE MCPacketMonitor --------------------------
(***************************************************************************)
(* Small instances of PacketMonitor for TLC.  Two hosts: one where         *)
(* PacketRusher runs with tunnels (every UE has its val* interface) and    *)
(* one without them, where a UE's packets are only seen GTP-U              *)
(* encapsulated on the N3 side.                                            *)
(***************************************************************************)
EXTENDS PacketMonitor

MCNoIP == "noip"

MCAddrs == {"ue1", "ue2", "ue9", "ue6", "gnb", "upf", "dn", "dn6"}

Hdr(fam, s, d, pr) == [fam |-> fam, src |-> s, dst |-> d, proto |-> pr]

\* UDP and ICMP from UE 1 as its val interface carries them.
PktUdp  == [layers |-> <<Hdr("v4", "ue1", "dn", "17")>>,
            tcpS |-> "", udpS |-> "pa", tcpD |-> "", udpD |-> "pb"]
PktIcmp == [layers |-> <<Hdr("v4", "ue1", "dn", "1")>>,
            tcpS |-> "", udpS |-> "", tcpD |-> "", udpD |-> ""]
\* An IPv6 packet on the same interface (never passes 'ip.src == ...').
PktV6   == [layers |-> <<Hdr("v6", "ue6", "dn6", "58")>>,
            tcpS |-> "", udpS |-> "", tcpD |-> "", udpD |-> ""]
\* TCP from UE 2.
PktOther == [layers |-> <<Hdr("v4", "ue2", "dn", "6")>>,
             tcpS |-> "pa", udpS |-> "", tcpD |-> "pb", udpD |-> ""]
\* UE 1's TCP packet inside GTP-U between gNB and UPF (port 2152).
PktGtp  == [layers |-> <<Hdr("v4", "gnb", "upf", "17"),
                         Hdr("v4", "ue1", "dn", "6")>>,
            tcpS |-> "pa", udpS |-> "gtp", tcpD |-> "pb", udpD |-> "gtp"]

MCPackets == {PktUdp, PktIcmp, PktV6, PktOther, PktGtp}

\* With tunnels: val1 (UE 1), val2 (UE 2), val3 (no address yet).
TunIfaces == <<"val1", "val2", "val3">>
TunIP == [i \in {"val1", "val2", "val3"} |->
            CASE i = "val1" -> "ue1" [] i = "val2" -> "ue2" [] i = "val3" -> MCNoIP]
TunTraffic == [i \in {"val1", "val2", "val3", "any"} |->
                 CASE i = "val1" -> {PktUdp, PktIcmp, PktV6}
                   [] i = "val2" -> {PktOther}
                   [] i = "val3" -> {}
                   [] i = "any"  -> MCPackets]

\* Without tunnels: no val* interface; 'any' sees the N3 side.
NoTunIfaces == <<>>
NoTunIP == [i \in {} |-> MCNoIP]
NoTunTraffic == [i \in {"any"} |-> {PktGtp, PktOther}]

AllArgs == [select : BOOLEAN, srcIp : {"", "ue1", "ue9"}, iface : {"", "val2"},
            mode : Modes, count : {0, 2}]
\* '--src-ip ue1' with and without '--count 2', both modes.
SrcIpArgs == [select : {FALSE}, srcIp : {"ue1"}, iface : {""},
              mode : Modes, count : {0, 2}]

MCProbeOutcomes ==
    [kind : {"notfound", "timeout", "raised"}, rc : {0}, stderr : {""}]
    \cup [kind : {"exited"}, rc : {0, 1}, stderr : {"", "permission", "other"}]
\* The probe succeeds: the interesting part is after it.
ProbePasses == [kind : {"exited"}, rc : {0}, stderr : {""}]
=============================================================================
