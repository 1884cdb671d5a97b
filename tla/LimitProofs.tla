---------------------------- MODULE LimitProofs ----------------------------
(***************************************************************************)
(* Proof that a run which ends because tshark stopped at its '-c N' limit, *)
(* with no interrupt and exit 0, has printed exactly N packet lines, for   *)
(* every value of PacketMonitor's constants.                               *)
(***************************************************************************)
EXTENDS HandlerProofs

\* The pcs before the capture child exists.
PreLaunch == {"check", "resolve", "select", "probe", "banner"}

(***************************************************************************)
(* LimitYieldsAllLines speaks only of the final state.  It rests on how   *)
(* the loop's position in the pipe follows packet_count: every record the  *)
(* filter lets through decodes (so 'continue' never skips one), each read  *)
(* record is counted and printed once (the tuple held between the count   *)
(* and the print is that of the record read last), the loop leaves only   *)
(* at EOF, and a child that stopped at its limit wrote exactly N records  *)
(* and writes no more.  The handler is reached only through a recorded    *)
(* interrupt.                                                              *)
(***************************************************************************)
LimitFacts ==
    /\ \A j \in 1..Len(sent) : Decodable(sent[j], args.mode)
    /\ pc \in PreLaunch => proc = "none" /\ procExit = "none"
    /\ pc \in PreLaunch \cup {"spawned"} => readPos = 0
    /\ pc \in {"read", "print", "wait", "notice"} => packet_count = readPos
    /\ pc = "count" => packet_count + 1 = readPos
    /\ pc \in {"count", "print"} =>
           /\ readPos \in 1..Len(sent)
           /\ cur = <<Decode(sent[readPos], args.mode)>>
    /\ pc \in {"wait", "notice"} => readPos = Len(sent) /\ proc = "exited"
    /\ procExit = "limit" => /\ proc = "exited" /\ args.count # 0
                             /\ Len(sent) = args.count
    /\ pc \in HandlerAt => intrAt # "none"
    /\ (pc = "done" /\ exitCode = 0 /\ intrAt = "none")
           => /\ proc # "running"
              /\ procExit = "limit" => Len(lines) = args.count

LimitInv == ShownInv /\ LimitFacts

-----------------------------------------------------------------------------
\* With '-E occurrence=f' an address field of a packet with an IPv4 header
\* is the (non-empty) address of its first IPv4 header.
LEMMA FirstAddrSet ==
    ASSUME NEW p \in Packets, NEW fld \in {"src", "dst"},
           \E i \in DOMAIN p.layers : p.layers[i].fam = "v4"
    PROVE  FirstOcc(p, "v4", fld) # Empty
<1> DEFINE idx == {i \in DOMAIN p.layers : p.layers[i].fam = "v4"}
<1>1. idx \subseteq Nat /\ idx # {}
    BY PacketAssumption
<1>2. Min(idx) \in idx
    BY <1>1, MinIsLeast
<1>3. p.layers[Min(idx)].src # Empty /\ p.layers[Min(idx)].dst # Empty
    BY <1>2, PacketAssumption
<1>4. FirstOcc(p, "v4", fld) = p.layers[Min(idx)][fld]
    BY <1>1 DEF FirstOcc
<1>5. QED
    BY <1>3, <1>4

\* A record the display filter 'ip.src == X' lets through is never skipped
\* by the loop: it has the fields the mode reads and 'if src and dst' holds.
LEMMA MatchedDecodes ==
    ASSUME NEW p \in Packets, NEW ip, Matches(p, ip), NEW m \in Modes
    PROVE  Decodable(Record(p, m), m)
<1>1. /\ FirstOcc(p, "v4", "src") # Empty
      /\ FirstOcc(p, "v4", "dst") # Empty
    BY FirstAddrSet DEF Matches
<1>2. CASE m = "simple"
    <2> DEFINE r == RecordSimple(p)
    <2>1. Record(p, m) = r /\ Len(r) = 6
        BY <1>2 DEF Record, RecordSimple
    <2>2. r[1] # Empty /\ r[3] # Empty
        BY <1>1 DEF RecordSimple
    <2>3. Decode(r, m).src = r[1] /\ Decode(r, m).dst = r[3]
        BY <1>2, <2>2 DEF Decode, DecodeSimple, Pick
    <2>4. Decodable(r, m)
        BY <1>2, <2>1, <2>2, <2>3 DEF Decodable, MinFields
    <2>5. QED
        BY <2>1, <2>4
<1>3. CASE m = "5tuple"
    <2> DEFINE r == Record5(p)
    <2>1. Record(p, m) = r /\ Len(r) = 10
        BY <1>3 DEF Record, Record5
    <2>2. r[1] # Empty /\ r[5] # Empty
        BY <1>1 DEF Record5
    <2>3. Decode(r, m).src = r[1] /\ Decode(r, m).dst = r[5]
        BY <1>3, <2>2 DEF Decode, Decode5, Pick
    <2>4. Decodable(r, m)
        BY <1>3, <2>1, <2>2, <2>3 DEF Decodable, MinFields
    <2>5. QED
        BY <2>1, <2>4
<1>4. QED
    BY <1>2, <1>3 DEF Modes

-----------------------------------------------------------------------------
LEMMA InitLimit == Init => LimitInv
<1> SUFFICES ASSUME Init PROVE LimitInv
    OBVIOUS
<1>1. ShownInv
    BY InitShown
<1>2. LimitFacts
    BY DEF Init, LimitFacts, PreLaunch, HandlerAt
<1>3. QED
    BY <1>1, <1>2 DEF LimitInv

LEMMA NextLimit == LimitInv /\ [Next]_vars => LimitInv'
<1> SUFFICES ASSUME LimitInv, [Next]_vars PROVE LimitInv'
    OBVIOUS
<1>0. ShownInv /\ ShownInv'
    BY NextShown DEF LimitInv
<1> SUFFICES LimitFacts'
    BY <1>0 DEF LimitInv
<1>50. /\ args \in ArgChoices /\ pc \in PCs
       /\ sent \in Seq(Records(args.mode)) /\ readPos \in 0..Len(sent)
       /\ lines \in Seq(Lines)
       /\ pc \in CountedAt => packet_count \in Nat
       /\ proc # "none" => iface \in DOMAIN Traffic
    BY <1>0 DEF ShownInv, IInv, TypeOK
<1>51. /\ args.count \in Nat /\ args.mode \in Modes
    BY <1>50, ConstAssumption
<1>52. ShownFacts /\ LimitFacts
    BY DEF ShownInv, LimitInv
<1> USE <1>52 DEF LimitFacts, PreLaunch, HandlerAt, Exit
<1>1. CASE CheckTshark
    BY <1>1 DEF CheckTshark, monVars
<1>2. CASE ResolveSelect
    BY <1>2 DEF ResolveSelect, monVars
<1>3. CASE SelectUE
    BY <1>3 DEF SelectUE, monVars
<1>4. CASE ResolveSrcIp
    BY <1>4 DEF ResolveSrcIp, monVars
<1>5. CASE UsageError
    BY <1>5 DEF UsageError, monVars
<1>6. CASE Probe
    BY <1>6 DEF Probe, monVars
<1>7. CASE Launch
    BY <1>7 DEF Launch, capVars
<1>8. CASE LaunchFails
    BY <1>8 DEF LaunchFails, capVars
<1>9. CASE InitCount
    BY <1>9 DEF InitCount, capVars
<1>10. CASE ReadRecord
    <2>1. Decodable(sent[readPos + 1], args.mode)
        BY <1>10, <1>50 DEF ReadRecord
    <2>2. /\ readPos' = readPos + 1 /\ pc' = "count"
          /\ UNCHANGED <<args, exitCode, intrAt, packet_count, lines, proc,
                         procExit, sent>>
        BY <1>10, <2>1 DEF ReadRecord, capVars
    <2>3. QED
        BY <1>10, <1>50, <2>2 DEF ReadRecord
<1>11. CASE ReadEOF
    BY <1>11 DEF ReadEOF, capVars
<1>12. CASE Count
    BY <1>50, <1>12 DEF Count, capVars, CountedAt
<1>13. CASE PrintLine
    BY <1>13 DEF PrintLine, capVars
<1>14. CASE Wait
    <2>1. packet_count = Len(lines)
        BY <1>14 DEF Wait, ShownFacts
    <2>2. QED
        BY <1>14, <2>1 DEF Wait, capVars
<1>15. CASE Notice
    <2>1. packet_count = Len(lines)
        BY <1>15 DEF Notice, ShownFacts
    <2>2. QED
        BY <1>15, <2>1 DEF Notice
<1>16. CASE HSummary
    BY <1>16 DEF HSummary
<1>17. CASE HTerminate
    BY <1>17 DEF HTerminate
<1>18. CASE HWaitDone
    BY <1>18 DEF HWaitDone, capVars
<1>19. CASE HWaitTimeout
    BY <1>19 DEF HWaitTimeout, capVars
<1>20. CASE HKill
    BY <1>20 DEF HKill, capVars
<1>21. CASE SelectQuit
    BY <1>21 DEF SelectQuit, monVars
<1>22. CASE Interrupt
    <2>1. /\ intrAt' = IF intrAt = "none" THEN pc ELSE intrAt
          /\ UNCHANGED <<args, packet_count, lines, sent, readPos>>
          /\ \/ UNCHANGED <<proc, procExit>>
             \/ proc = "running" /\ proc' = "exited" /\ procExit' = "signal"
          /\ IntrOutcome
        BY <1>22 DEF Interrupt
    <2>2. intrAt' # "none"
        BY <1>50, <2>1 DEF PCs
    <2> USE DEF UncaughtAt, CaughtAt, KillAt
    <2>3. pc' \in {"done", "h_summary", "h_kill"}
        <3>1. CASE pc \in UncaughtAt \cup {"select", "spawned", "h_kill"}
            BY <2>1, <3>1, Zenon DEF IntrOutcome
        <3>2. CASE pc \in CaughtAt
            BY <2>1, <3>2, Zenon DEF IntrOutcome
        <3>3. CASE pc \in KillAt
            BY <2>1, <3>3, Zenon DEF IntrOutcome
        <3>4. QED
            BY <1>22, <1>50, <3>1, <3>2, <3>3 DEF Interrupt, PCs
    <2>4. QED
        BY <2>1, <2>2, <2>3
<1>23. CASE Emit
    <2>1. PICK p \in Traffic[iface] :
              /\ Matches(p, srcIp)
              /\ IF pc = "done"
                 THEN proc' = "exited" /\ procExit' = "sigpipe" /\ UNCHANGED sent
                 ELSE sent' = Append(sent, Record(p, args.mode))
                      /\ UNCHANGED <<proc, procExit>>
        BY <1>23 DEF Emit
    <2>2. /\ proc = "running"
          /\ UNCHANGED childVars
        BY <1>23 DEF Emit
    <2>3. p \in Packets
        BY <1>50, <2>2, ConstAssumption
    <2>4. Decodable(Record(p, args.mode), args.mode)
        BY <1>51, <2>1, <2>3, MatchedDecodes
    <2>5. CASE pc = "done"
        BY <2>1, <2>2, <2>5 DEF childVars
    <2>6. CASE pc # "done"
        <3>1. sent' = Append(sent, Record(p, args.mode)) /\ UNCHANGED <<proc, procExit>>
            BY <2>1, <2>6
        <3>2. \A j \in 1..Len(sent') : Decodable(sent'[j], args'.mode)
            BY <1>50, <2>2, <2>4, <3>1 DEF childVars
        <3>3. QED
            BY <2>2, <3>1, <3>2 DEF childVars
    <2>7. QED
        BY <2>5, <2>6
<1>24. CASE LimitExit \/ ChildFail \/ TermExit
    BY <1>24 DEF LimitExit, ChildFail, TermExit, childVars
<1>25. CASE Terminated \/ UNCHANGED vars
    BY <1>25 DEF Terminated, vars
<1> HIDE DEF LimitFacts, PreLaunch, HandlerAt, Exit
<1>26. QED
    BY <1>1, <1>2, <1>3, <1>4, <1>5, <1>6, <1>7, <1>8, <1>9, <1>10,
       <1>11, <1>12, <1>13, <1>14, <1>15, <1>16, <1>17, <1>18, <1>19, <1>20,
       <1>21, <1>22, <1>23, <1>24, <1>25 DEF Next, MainStep

(***************************************************************************)
(* For every host, command line, record bound and number of interrupts: a *)
(* run that tshark ended at its '-c N' limit and that main() left with     *)
(* exit 0 and no interrupt has printed exactly N packet lines, none lost   *)
(* to the 'if src and dst' test, the pipe or an early end of the loop.     *)
(***************************************************************************)
THEOREM LimitCorrect == Spec => []LimitYieldsAllLines
<1>1. LimitInv => LimitYieldsAllLines
    BY DEF LimitInv, LimitFacts, LimitYieldsAllLines
<1>2. QED
    BY InitLimit, NextLimit, <1>1, PTL DEF Spec

-----------------------------------------------------------------------------
\* No step but the print in the read loop writes to the display: every
\* other step of main(), of the handler and of the child leaves lines alone.
LEMMA OnlyPrintShows ==
    ASSUME [Next]_vars, lines' # lines
    PROVE  PrintLine
<1>1. CASE CheckTshark \/ ResolveSelect \/ SelectUE \/ ResolveSrcIp
           \/ UsageError \/ Probe \/ SelectQuit
    BY <1>1 DEF CheckTshark, ResolveSelect, SelectUE, ResolveSrcIp, UsageError,
                Probe, SelectQuit, monVars
<1>2. CASE Launch \/ LaunchFails \/ InitCount \/ ReadRecord \/ ReadEOF
           \/ Count \/ Wait \/ Notice
    BY <1>2 DEF Launch, LaunchFails, InitCount, ReadRecord, ReadEOF, Count, Wait,
                Notice, Exit
<1>3. CASE HSummary \/ HTerminate \/ HWaitDone \/ HWaitTimeout \/ HKill
           \/ Interrupt
    BY <1>3 DEF HSummary, HTerminate, HWaitDone, HWaitTimeout, HKill, Interrupt,
                Exit
<1>4. CASE Emit \/ LimitExit \/ ChildFail \/ TermExit \/ Terminated
    BY <1>4 DEF Emit, LimitExit, ChildFail, TermExit, Terminated, childVars, vars
<1>5. QED
    BY <1>1, <1>2, <1>3, <1>4 DEF Next, MainStep, vars

\* The step PrintsRecordRead asks of every transition.
PrintStep ==
    lines' # lines =>
        /\ readPos \in 1..Len(sent)
        /\ lines' = Append(lines, [n |-> Len(lines) + 1,
                                   t |-> Decode(sent[readPos], args.mode)])

(***************************************************************************)
(* For every value of the constants, each line the loop of                 *)
(* run_*_monitor prints is the tuple of the record it took off tshark's    *)
(* pipe last, numbered one past the line before: the count between the     *)
(* read and the print, the handler and the child's writes cannot make it   *)
(* print a stale tuple or a number out of sequence.                        *)
(***************************************************************************)
THEOREM ShowsRecordRead == Spec => PrintsRecordRead
<1>1. LimitInv /\ [Next]_vars => [PrintStep]_vars
    <2> SUFFICES ASSUME LimitInv, [Next]_vars, lines' # lines
                 PROVE  /\ readPos \in 1..Len(sent)
                        /\ lines' = Append(lines,
                                     [n |-> Len(lines) + 1,
                                      t |-> Decode(sent[readPos], args.mode)])
        BY DEF PrintStep
    <2>1. PrintLine
        BY OnlyPrintShows
    <2>2. pc = "print" /\ lines' = Append(lines, [n |-> packet_count, t |-> cur[1]])
        BY <2>1 DEF PrintLine
    <2>3. packet_count = Len(lines) + 1
        BY <2>2 DEF LimitInv, ShownInv, ShownFacts
    <2>4. readPos \in 1..Len(sent) /\ cur = <<Decode(sent[readPos], args.mode)>>
        BY <2>2 DEF LimitInv, LimitFacts
    <2>5. QED
        BY <2>2, <2>3, <2>4
<1>2. QED
    BY <1>1, InitLimit, NextLimit, PTL DEF Spec, PrintsRecordRead, PrintStep
=============================================================================
