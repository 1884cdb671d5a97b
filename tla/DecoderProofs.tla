---------------------------- MODULE DecoderProofs ----------------------------
(***************************************************************************)
(* Proof that the decoder of the two monitors' read loops agrees with the *)
(* rule of spec section 4.5 on every record of either layout, for every   *)
(* set of values the fields can take.                                      *)
(***************************************************************************)
EXTENDS DecoderSpec, TLAPS

\* No protocol number of map_protocol's table is the empty field.
LEMMA EmptyNotInTable == Empty \notin DOMAIN ProtocolMap
<1>1. Empty \notin {"1", "6", "17", "58"}
    BY Zenon DEF Empty
<1>2. QED
    BY <1>1 DEF ProtocolMap

\* map_protocol is the table of the spec with its pass-through and its "IP"
\* fallback, on every value.
LEMMA MapIsMnemonic ==
    ASSUME NEW n
    PROVE  MapProtocol(n) = Mnemonic(n)
<1>1. CASE n \in DOMAIN ProtocolMap
    <2>1. n # Empty
        BY <1>1, EmptyNotInTable
    <2>2. QED
        BY <1>1, <2>1 DEF MapProtocol, Mnemonic, ProtocolMap
<1>2. CASE n \notin DOMAIN ProtocolMap
    BY <1>2 DEF MapProtocol, Mnemonic, ProtocolMap
<1>3. QED
    BY <1>1, <1>2
\* 'a if a else b' is the spec's "the IPv4 field if non-empty, else the
\* IPv6 field if non-empty, else absent".
LEMMA PickIsResolve ==
    ASSUME NEW a, NEW b
    PROVE  Pick(a, b) = Resolve(a, b)
BY DEF Pick, Resolve

\* On every record of either layout the loop body renders exactly when the
\* spec keeps the record, and renders the spec's tuple.
LEMMA DecodeMatches ==
    ASSUME NEW m \in Modes, NEW r \in Layout(m)
    PROVE  SpecTuple(r, m)
               = IF Decodable(r, m) THEN <<Decode(r, m)>> ELSE <<>>
<1>1. CASE m = "simple"
    <2>1. r \in V4Vals \X V6Vals \X V4Vals \X V6Vals \X ProtoVals \X ProtoVals
        BY <1>1 DEF Layout
    <2>2. Len(r) = 6
        BY <2>1
    <2>3. ProtoField(r, 4) = Resolve(r[5], r[6])
        BY <2>2 DEF ProtoField, Resolve
    <2>4. Decode(r, m) = [src |-> Resolve(r[1], r[2]), sport |-> Empty,
                          dst |-> Resolve(r[3], r[4]), dport |-> Empty,
                          proto |-> Mnemonic(Resolve(r[5], r[6]))]
        BY <1>1, <2>3, PickIsResolve, MapIsMnemonic DEF Decode, DecodeSimple
    <2>5. Decodable(r, m) <=> (Resolve(r[1], r[2]) # Empty
                               /\ Resolve(r[3], r[4]) # Empty)
        BY <1>1, <2>2, <2>4 DEF Decodable, MinFields
    <2>6. QED
        BY <1>1, <2>4, <2>5 DEF SpecTuple
<1>2. CASE m = "5tuple"
    <2>1. r \in V4Vals \X V6Vals \X PortVals \X PortVals \X V4Vals \X V6Vals
                 \X PortVals \X PortVals \X ProtoVals \X ProtoVals
        BY <1>2 DEF Layout
    <2>2. Len(r) = 10
        BY <2>1
    <2>3. ProtoField(r, 8) = Resolve(r[9], r[10])
        BY <2>2 DEF ProtoField, Resolve
    <2>4. Decode(r, m) = [src |-> Resolve(r[1], r[2]),
                          sport |-> Resolve(r[3], r[4]),
                          dst |-> Resolve(r[5], r[6]),
                          dport |-> Resolve(r[7], r[8]),
                          proto |-> Mnemonic(Resolve(r[9], r[10]))]
        BY <1>2, <2>3, PickIsResolve, MapIsMnemonic DEF Decode, Decode5
    <2>5. Decodable(r, m) <=> (Resolve(r[1], r[2]) # Empty
                               /\ Resolve(r[5], r[6]) # Empty)
        BY <1>2, <2>2, <2>4 DEF Decodable, MinFields
    <2>6. QED
        BY <1>2, <2>4, <2>5 DEF SpecTuple
<1>3. QED
    BY <1>1, <1>2 DEF Modes
\* The record under test is always a record of the layout of its mode.
RecordInLayout == mode \in Modes /\ rec \in Layout(mode)

(***************************************************************************)
(* For every set of values the address, port and protocol fields can take, *)
(* the loop body of run_simple_monitor and run_5tuple_monitor renders a   *)
(* record exactly when spec section 4.5 keeps it, and renders the tuple   *)
(* the spec gives.                                                        *)
(***************************************************************************)
THEOREM DecoderCorrect == Spec => []DecoderMatchesSpec
<1>1. Init => RecordInLayout
    BY DEF Init, RecordInLayout
<1>2. RecordInLayout /\ [Next]_vars => RecordInLayout'
    BY DEF RecordInLayout, Next, vars
<1>3. RecordInLayout => DecoderMatchesSpec
    BY DecodeMatches DEF RecordInLayout, DecoderMatchesSpec
<1>4. QED
    BY <1>1, <1>2, <1>3, PTL DEF Spec
=============================================================================
