--------------------------- MODULE RecordDecoder ---------------------------
(***************************************************************************)
(* The record layout the capture engine is asked for and the decoder that  *)
(* turns one of its records back into a packet tuple, as written in        *)
(* scripts/ue_packet_monitor.py (run_simple_monitor, run_5tuple_monitor,   *)
(* map_protocol).                                                          *)
(*                                                                         *)
(* A record is the line split on '|': a sequence of field values, where    *)
(* the empty string is an absent field.  Addresses, ports and protocol     *)
(* numbers are abstract values; the decoder only ever tests a field for    *)
(* emptiness, so nothing is lost by not spelling them out.                 *)
(***************************************************************************)
EXTENDS Naturals, Sequences, FiniteSetsExt

\* The absent field: tshark prints nothing between two separators.
Empty == ""

\* The two display modes: --simple (the default) and --5-tuple.
Modes == {"simple", "5tuple"}

-----------------------------------------------------------------------------
(***************************************************************************)
(* The capture engine side.  A packet is the stack of its IP headers,      *)
(* outermost first (two headers for a GTP-U encapsulated packet), and the  *)
(* first TCP and first UDP ports found in it.  With '-E occurrence=f'      *)
(* every extracted field is the value of its first occurrence.            *)
(***************************************************************************)

\* The value of field fld of the first IP header of family fam, or Empty.
FirstOcc(p, fam, fld) ==
    LET idx == {i \in DOMAIN p.layers : p.layers[i].fam = fam}
    IN  IF idx = {} THEN Empty ELSE p.layers[Min(idx)][fld]

\* The display filter 'ip.src == <src_ip>': some IPv4 header of the
\* packet, not necessarily the first, has that source address.
Matches(p, srcIp) ==
    \E i \in DOMAIN p.layers : p.layers[i].fam = "v4" /\ p.layers[i].src = srcIp

\* The record of run_simple_monitor's '-e' list: ip.src, ipv6.src,
\* ip.dst, ipv6.dst, ip.proto, ipv6.nxt.
RecordSimple(p) ==
    <<FirstOcc(p, "v4", "src"), FirstOcc(p, "v6", "src"),
      FirstOcc(p, "v4", "dst"), FirstOcc(p, "v6", "dst"),
      FirstOcc(p, "v4", "proto"), FirstOcc(p, "v6", "proto")>>

\* The record of run_5tuple_monitor's '-e' list, ports before each address.
Record5(p) ==
    <<FirstOcc(p, "v4", "src"), FirstOcc(p, "v6", "src"), p.tcpS, p.udpS,
      FirstOcc(p, "v4", "dst"), FirstOcc(p, "v6", "dst"), p.tcpD, p.udpD,
      FirstOcc(p, "v4", "proto"), FirstOcc(p, "v6", "proto")>>

\* main() runs one monitor or the other on use_5tuple.
Record(p, mode) == IF mode = "simple" THEN RecordSimple(p) ELSE Record5(p)

-----------------------------------------------------------------------------
(***************************************************************************)
(* The decoder side.                                                       *)
(***************************************************************************)

\* map_protocol: the fixed table, else the number itself, else "IP".
ProtocolMap == [n \in {"1", "6", "17", "58"} |->
                  CASE n = "1"  -> "ICMP"
                    [] n = "6"  -> "TCP"
                    [] n = "17" -> "UDP"
                    [] n = "58" -> "ICMPv6"]

MapProtocol(n) ==
    IF n \in DOMAIN ProtocolMap THEN ProtocolMap[n]
    ELSE IF n # Empty THEN n ELSE "IP"

\* 'a if a else b' on two fields.
Pick(a, b) == IF a # Empty THEN a ELSE b

\* The protocol number: parts[k] if present and non-empty, else parts[k+1]
\* if present, else Empty (k is the 0-based index of ip.proto).
ProtoField(parts, k) ==
    IF Len(parts) > k /\ parts[k + 1] # Empty THEN parts[k + 1]
    ELSE IF Len(parts) > k + 1 THEN parts[k + 2] ELSE Empty

\* 'if len(parts) < 4 / < 8: continue': the fewest fields a mode reads.
MinFields(mode) == IF mode = "simple" THEN 4 ELSE 8

\* Mutant: the IPv6 fields are consulted first.
DecodeSimpleV6First(parts) ==
    [src   |-> Pick(parts[2], parts[1]), sport |-> Empty,
     dst   |-> Pick(parts[4], parts[3]), dport |-> Empty,
     proto |-> MapProtocol(ProtoField(parts, 4))]

\* The tuple run_simple_monitor's loop body builds.
DecodeSimple(parts) ==
    [src   |-> Pick(parts[1], parts[2]), sport |-> Empty,
     dst   |-> Pick(parts[3], parts[4]), dport |-> Empty,
     proto |-> MapProtocol(ProtoField(parts, 4))]

\* The tuple run_5tuple_monitor's loop body builds.
Decode5(parts) ==
    [src   |-> Pick(parts[1], parts[2]), sport |-> Pick(parts[3], parts[4]),
     dst   |-> Pick(parts[5], parts[6]), dport |-> Pick(parts[7], parts[8]),
     proto |-> MapProtocol(ProtoField(parts, 8))]

Decode(parts, mode) ==
    IF mode = "simple" THEN DecodeSimple(parts) ELSE Decode5(parts)

\* A record is rendered iff it has enough fields and 'if src and dst'.
\* A blank line is the record with no field at all.
Decodable(parts, mode) ==
    /\ Len(parts) >= MinFields(mode)
    /\ Decode(parts, mode).src # Empty
    /\ Decode(parts, mode).dst # Empty
=============================================================================
