------------------------ MODULE PacketMonitorProofs ------------------------
(***************************************************************************)
(* Proofs about PacketMonitor for every value of its constants.            *)
(***************************************************************************)
EXTENDS PacketMonitor, WellFoundedInduction, TLAPS

(***************************************************************************)
(* Where the loop has bound packet_count: every pc after InitCount.        *)
(***************************************************************************)
CountedAt == {"read", "count", "print", "wait", "notice", "h_summary",
              "h_term", "h_wait", "h_kill"}

(***************************************************************************)
(* TypeOK is not inductive by itself: Emit reads Traffic[iface], which     *)
(* needs iface to be a capture interface once the child exists; PrintLine  *)
(* needs packet_count bound and a tuple in cur.  IInv adds those facts.    *)
(***************************************************************************)
IInv ==
    /\ TypeOK
    /\ (proc # "none" \/ pc \in {"probe", "banner"}) => iface \in DOMAIN Traffic
    /\ pc \in CountedAt => packet_count \in Nat
    /\ pc \in {"count", "print"} => cur # <<>>

-----------------------------------------------------------------------------
\* No natural of a non-empty set of naturals is below all the others
\* (the well-foundedness of < on Nat).
LEMMA NatWellFounded ==
    ASSUME NEW T \in SUBSET Nat, T # {}
    PROVE  \E x \in T : \A y \in T : ~(y < x)
<1>1. \E x \in T : \A y \in T : ~(<<y, x>> \in OpToRel(<, Nat))
    BY NatLessThanWellFounded, WFMin, Zenon
<1>2. QED
    BY <1>1, Zenon DEF OpToRel

\* A non-empty set of naturals has a least element (FiniteSetsExt's Min).
LEMMA MinIsLeast ==
    ASSUME NEW T \in SUBSET Nat, T # {}
    PROVE  Min(T) \in T /\ \A y \in T : Min(T) <= y
<1>1. PICK x \in T : \A y \in T : ~(y < x)
    BY NatWellFounded
<1>2. \A y \in T : x <= y
    BY <1>1
<1>3. QED
    BY <1>2, Zenon DEF Min

\* The auto-detected interface is one tshark can be started on.
LEMMA AutoIfaceType ==
    ASSUME NEW ip
    PROVE  AutoIface(ip) \in DOMAIN Traffic
<1> DEFINE ks == {k \in DOMAIN ValIfaces : IfaceIP[ValIfaces[k]] = ip}
<1>1. CASE ks = {}
    BY <1>1, ConstAssumption DEF AutoIface, Any
<1>2. CASE ks # {}
    <2>1. ks \subseteq Nat
        BY ConstAssumption
    <2>2. Min(ks) \in DOMAIN ValIfaces
        BY <1>2, <2>1, MinIsLeast
    <2>3. QED
        BY <1>2, <2>2, ConstAssumption DEF AutoIface
<1>3. QED
    BY <1>1, <1>2

\* An element of a sequence over S is in S.
LEMMA ElemOfSeq ==
    ASSUME NEW S, NEW s \in Seq(S), NEW i \in 1..Len(s)
    PROVE  s[i] \in S
OBVIOUS

\* The tuple of a record of the mode is one of the Tuples.
LEMMA DecodeType ==
    ASSUME NEW m \in Modes, NEW r \in Records(m)
    PROVE  Decode(r, m) \in Tuples
BY DEF Records, Tuples

-----------------------------------------------------------------------------
THEOREM InitIInv == Init => IInv
<1> SUFFICES ASSUME Init PROVE IInv
    OBVIOUS
<1>1. lines \in Seq(Lines) /\ sent \in Seq(Records(args.mode))
      /\ readPos \in 0..Len(sent)
    BY DEF Init
<1>2. args \in ArgChoices /\ interrupts \in 0..MaxInterrupts
    BY ConstAssumption DEF Init
<1>3. cur \in {<<>>} \cup {<<t>> : t \in Tuples}
    BY DEF Init
<1>4. notice \in BOOLEAN /\ termReq \in BOOLEAN
    BY Zenon DEF Init
<1>6. summary \in Nat \cup {NoSummary}
    BY DEF Init
<1>5. QED
    BY <1>1, <1>2, <1>3, <1>4, <1>6 DEF Init, IInv, TypeOK, PCs, CountedAt, Unbound,
                                  NoExit

THEOREM NextIInv == IInv /\ [Next]_vars => IInv'
<1> SUFFICES ASSUME IInv, [Next]_vars PROVE IInv'
    OBVIOUS
<1> USE DEF IInv, TypeOK, PCs, CountedAt, Exit, Unbound, NoExit, SigInt,
            NoSummary
<1>1. CASE CheckTshark
    BY <1>1 DEF CheckTshark, monVars
<1>2. CASE ResolveSelect
    BY <1>2 DEF ResolveSelect, monVars
<1>3. CASE SelectUE
    <2>1. PICK i \in ActiveUEs :
              /\ srcIp' = IfaceIP[i]
              /\ iface' = IF args.iface # Empty THEN args.iface ELSE i
        BY <1>3 DEF SelectUE
    <2>2. i \in Range(ValIfaces) /\ IfaceIP[i] # NoIP
        BY DEF ActiveUEs
    <2>3. i \in DOMAIN Traffic
        BY <2>2, ConstAssumption DEF Range
    <2>4. srcIp' \in Addrs
        BY <2>1, <2>2, ConstAssumption
    <2>5. iface' \in DOMAIN Traffic
        BY <2>1, <2>3, ConstAssumption
    <2>6. QED
        BY <1>3, <2>4, <2>5 DEF SelectUE, monVars
<1>4. CASE ResolveSrcIp
    <2>1. args.srcIp \in Addrs /\ args.iface \in DOMAIN Traffic \cup {Empty}
        BY <1>4, ConstAssumption DEF ResolveSrcIp
    <2>2. srcIp' \in Addrs /\ iface' \in DOMAIN Traffic
        BY <1>4, <2>1, AutoIfaceType DEF ResolveSrcIp
    <2>3. QED
        BY <1>4, <2>2 DEF ResolveSrcIp, monVars
<1>5. CASE UsageError
    BY <1>5 DEF UsageError, monVars
<1>6. CASE Probe
    BY <1>6 DEF Probe, monVars
<1>7. CASE Launch
    BY <1>7 DEF Launch, capVars
<1>8. CASE LaunchFails
    BY <1>8 DEF LaunchFails, capVars
<1>9. CASE InitCount
    BY <1>9 DEF InitCount, capVars
<1>10. CASE ReadRecord
    <2>1. sent[readPos + 1] \in Records(args.mode)
        <3>1. readPos + 1 \in 1..Len(sent)
            BY <1>10 DEF ReadRecord
        <3> QED
            BY <3>1, ElemOfSeq
    <2>2. args.mode \in Modes
        BY ConstAssumption
    <2>3. Decode(sent[readPos + 1], args.mode) \in Tuples
        BY <2>1, <2>2, DecodeType
    <2>4. <<Decode(sent[readPos + 1], args.mode)>> \in {<<t>> : t \in Tuples}
        BY <2>3
    <2>5. readPos' \in 0..Len(sent')
        BY <1>10 DEF ReadRecord
    <2>6. /\ pc' \in {"read", "count"}
          /\ cur' \in {<<>>} \cup {<<t>> : t \in Tuples}
          /\ pc' = "count" => cur' # <<>>
        <3>1. CASE Decodable(sent[readPos + 1], args.mode)
            <4>1. cur' = <<Decode(sent[readPos + 1], args.mode)>> /\ pc' = "count"
                BY <1>10, <3>1 DEF ReadRecord
            <4>2. QED
                BY <2>4, <4>1
        <3>2. CASE ~Decodable(sent[readPos + 1], args.mode)
            BY <1>10, <3>2 DEF ReadRecord
        <3>3. QED
            BY <3>1, <3>2
    <2>7. QED
        BY <1>10, <2>5, <2>6 DEF ReadRecord, capVars
<1>11. CASE ReadEOF
    BY <1>11 DEF ReadEOF, capVars
<1>12. CASE Count
    BY <1>12 DEF Count, capVars
<1>13. CASE PrintLine
    <2>1. [n |-> packet_count, t |-> cur[1]] \in Lines
        BY <1>13 DEF PrintLine, Lines
    <2>2. QED
        BY <1>13, <2>1 DEF PrintLine, capVars
<1>14. CASE Wait
    BY <1>14 DEF Wait, capVars
<1>15. CASE Notice
    BY <1>15 DEF Notice
<1>16. CASE HSummary
    BY <1>16 DEF HSummary
<1>17. CASE HTerminate
    BY <1>17 DEF HTerminate
<1>18. CASE HWaitDone
    BY <1>18 DEF HWaitDone, capVars
<1>19. CASE HWaitTimeout
    BY <1>19 DEF HWaitTimeout, capVars
<1>20. CASE HKill
    BY <1>20 DEF HKill, capVars
<1>21. CASE SelectQuit
    BY <1>21 DEF SelectQuit, monVars
<1>22. CASE Interrupt
    <2>1. /\ interrupts < MaxInterrupts /\ interrupts' = interrupts + 1
          /\ intrAt' = IF intrAt = "none" THEN pc ELSE intrAt
          /\ IntrOutcome
        BY <1>22, Zenon DEF Interrupt
    <2>2. interrupts' \in 0..MaxInterrupts
        BY <2>1, ConstAssumption
    <2>3. intrAt' \in PCs \cup {"none"}
        BY <2>1
    <2>4. /\ proc' \in {"none", "running", "exited"}
          /\ procExit' \in {"none", "limit", "error", "term", "signal",
                             "killed", "sigpipe"}
          /\ proc' # "none" => proc # "none"
        <3>1. PICK group \in BOOLEAN :
                  IF group /\ proc = "running"
                  THEN proc' = "exited" /\ procExit' = "signal"
                  ELSE UNCHANGED <<proc, procExit>>
            BY <1>22 DEF Interrupt
        <3> QED
            BY <3>1
    <2>5. /\ pc' \in {"done", "h_summary", "h_kill"}
          /\ exitCode' \in {NoExit, 0, 1, SigInt}
          /\ pc' \in {"h_summary", "h_kill"} => pc \in CountedAt
        <3> USE DEF UncaughtAt, CaughtAt, KillAt
        <3>1. CASE pc \in UncaughtAt
            BY <2>1, <3>1, Zenon DEF IntrOutcome
        <3>2. CASE pc \in {"select", "spawned", "h_kill"}
            BY <2>1, <3>2, Zenon DEF IntrOutcome
        <3>3. CASE pc \in CaughtAt
            BY <2>1, <3>3, Zenon DEF IntrOutcome
        <3>4. CASE pc \in KillAt
            BY <2>1, <3>4, Zenon DEF IntrOutcome
        <3>5. QED
            BY <1>22, <3>1, <3>2, <3>3, <3>4 DEF Interrupt
    <2>6. QED
        BY <1>22, <2>2, <2>3, <2>4, <2>5 DEF Interrupt
<1>23. CASE Emit
    <2>1. PICK p \in Traffic[iface] :
              /\ Matches(p, srcIp)
              /\ IF pc = "done"
                 THEN proc' = "exited" /\ procExit' = "sigpipe" /\ UNCHANGED sent
                 ELSE sent' = Append(sent, Record(p, args.mode))
                      /\ UNCHANGED <<proc, procExit>>
        BY <1>23 DEF Emit
    <2>2. p \in Packets
        <3>1. iface \in DOMAIN Traffic
            BY <1>23 DEF Emit
        <3> QED
            BY <2>1, <3>1, ConstAssumption
    <2>3. Record(p, args.mode) \in Records(args.mode)
        BY <2>2 DEF Records
    <2>4. sent' \in Seq(Records(args.mode)) /\ readPos \in 0..Len(sent')
        BY <1>23, <2>1, <2>3 DEF Emit
    <2>5. proc' \in {"none", "running", "exited"}
          /\ procExit' \in {"none", "limit", "error", "term", "signal",
                             "killed", "sigpipe"}
          /\ (proc' # "none" => proc # "none")
        BY <1>23, <2>1 DEF Emit
    <2>6. QED
        BY <1>23, <2>4, <2>5 DEF Emit, childVars
<1>24. CASE LimitExit
    BY <1>24 DEF LimitExit, childVars
<1>25. CASE ChildFail
    BY <1>25 DEF ChildFail, childVars
<1>26. CASE TermExit
    BY <1>26 DEF TermExit, childVars
<1>27. CASE Terminated \/ UNCHANGED vars
    BY <1>27 DEF Terminated, vars
<1> HIDE DEF IInv, TypeOK, PCs, CountedAt, Exit, Unbound, NoExit, SigInt,
             NoSummary
<1>28. QED
    BY <1>1, <1>2, <1>3, <1>4, <1>5, <1>6, <1>7, <1>8, <1>9, <1>10, <1>11,
       <1>12, <1>13, <1>14, <1>15, <1>16, <1>17, <1>18, <1>19, <1>20, <1>21,
       <1>22, <1>23, <1>24, <1>25, <1>26, <1>27 DEF Next, MainStep

(***************************************************************************)
(* Type correctness of the run: every reachable state of main(), the       *)
(* monitor loop, its interrupt handler and the tshark child is well        *)
(* typed, for every host, command line and bound.                          *)
(***************************************************************************)
THEOREM TypeCorrect == Spec => []TypeOK
<1>1. IInv => TypeOK
    BY DEF IInv
<1>2. QED
    BY InitIInv, NextIInv, <1>1, PTL DEF Spec
=============================================================================
