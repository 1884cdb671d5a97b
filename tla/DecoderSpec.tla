---------------------------- MODULE DecoderSpec ----------------------------
(***************************************************************************)
(* The decoder of RecordDecoder against the rule of spec section 4.5,      *)
(* over every record of the layout tshark prints in each mode, with field *)
(* values drawn from small sets.                                          *)
(***************************************************************************)
EXTENDS RecordDecoder

CONSTANTS
    V4Vals,     \* values an IPv4 address field can hold (Empty included)
    V6Vals,     \* values an IPv6 address field can hold (Empty included)
    PortVals,   \* values a port field can hold (Empty included)
    ProtoVals   \* values ip.proto / ipv6.nxt can hold (Empty included)

ASSUME DecoderAssumption ==
    Empty \in V4Vals \cap V6Vals \cap PortVals \cap ProtoVals

VARIABLES mode, rec
vars == <<mode, rec>>

\* The full records of a mode: the layout of the '-e' list.
Layout(m) ==
    IF m = "simple"
    THEN V4Vals \X V6Vals \X V4Vals \X V6Vals \X ProtoVals \X ProtoVals
    ELSE V4Vals \X V6Vals \X PortVals \X PortVals \X V4Vals \X V6Vals
           \X PortVals \X PortVals \X ProtoVals \X ProtoVals

Init == mode \in Modes /\ rec \in Layout(mode)
Next == UNCHANGED vars
Spec == Init /\ [][Next]_vars

-----------------------------------------------------------------------------
(***************************************************************************)
(* The reference, written from spec section 4.5 field by field.            *)
(***************************************************************************)

\* "take the IPv4 field if non-empty, else the IPv6 field if non-empty,
\* else treat as absent"
Resolve(v4, v6) == IF v4 # Empty THEN v4 ELSE IF v6 # Empty THEN v6 ELSE Empty

\* "1->ICMP, 6->TCP, 17->UDP, 58->ICMPv6; unrecognized non-empty values
\* pass through verbatim; a fully empty protocol field resolves to IP"
Mnemonic(n) ==
    CASE n = "1"  -> "ICMP"   [] n = "6"  -> "TCP"
      [] n = "17" -> "UDP"    [] n = "58" -> "ICMPv6"
      [] n = Empty -> "IP"    [] OTHER -> n

\* The tuple the spec asks for, <<>> when the record is discarded.
SpecTuple(r, m) ==
    LET k     == IF m = "simple" THEN 0 ELSE 2
        src   == Resolve(r[1], r[2])
        dst   == Resolve(r[3 + k], r[4 + k])
        sport == IF m = "simple" THEN Empty ELSE Resolve(r[3], r[4])
        dport == IF m = "simple" THEN Empty ELSE Resolve(r[7], r[8])
        proto == Mnemonic(Resolve(r[5 + 2 * k], r[6 + 2 * k]))
    IN  IF src # Empty /\ dst # Empty
        THEN <<[src |-> src, sport |-> sport, dst |-> dst, dport |-> dport,
                proto |-> proto]>>
        ELSE <<>>

(***************************************************************************)
(* The 'for line in process.stdout' body of run_simple_monitor and        *)
(* run_5tuple_monitor renders a record exactly when the spec decodes it,  *)
(* and renders the tuple the spec gives: IPv4 wins over IPv6, TCP over    *)
(* UDP ports, ip.proto over ipv6.nxt, and the protocol table with its     *)
(* pass-through and "IP" fallback.                                        *)
(***************************************************************************)
DecoderMatchesSpec ==
    SpecTuple(rec, mode)
        = IF Decodable(rec, mode) THEN <<Decode(rec, mode)>> ELSE <<>>
=============================================================================
